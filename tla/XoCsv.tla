------------------------------- MODULE XoCsv -------------------------------
(***************************************************************************)
(* The "csv" encoder (src/encoder/csv/enc_csv.c).  It watches for the       *)
(* elements of its path; inside the last one, or inside any instance when   *)
(* it was given no path, it records the leafs, and the next open or close   *)
(* turns them into a row.  The first row fixes the columns.                 *)
(***************************************************************************)
EXTENDS Integers, Sequences, SequencesExt

CONSTANTS
    LeafMax,        \* C_LEAF_MAX, the leafs the first allocation makes room for
    NoCell,         \* the empty cell
    JunkCell        \* a cell read through an offset nobody set

(* The options of the encoder are a record: the path (or none), the leafs     *)
(* that "leafs" named, noHeader; and flushes, if the handle has a flag that   *)
(* makes the encoder flush after each row.                                    *)

Leaf(name, has) == [name |-> name, has |-> has, cell |-> JunkCell]

\* Room for a new leaf (csv_leaf_num): the first array is not cleared, as the
\* bzero() after the realloc() takes the old size, 0, for the length.  "junk"
\* is what the flags of its entries hold, LF_HAS_VALUE or not.
NeedsRoom(csv) == Len(csv.leafs) + 1 >= csv.max
WithRoom(csv) ==
    IF NeedsRoom(csv)
    THEN [csv EXCEPT !.max = IF @ = 0 THEN LeafMax ELSE 2 * @]
    ELSE csv

FreshHas(csv) == csv.junk /\ Len(csv.leafs) < LeafMax

AddedLeaf(csv, name) ==
    [WithRoom(csv) EXCEPT !.leafs = Append(@, Leaf(name, FreshHas(csv)))]

LeafNumbers(csv, name) == {i \in DOMAIN csv.leafs : csv.leafs[i].name = name}

\* csv_create, then csv_options: csv_record_path and csv_record_leafs
Fresh(options, junk) ==
    [flushes |-> options.flushes, noHeader |-> options.noHeader,
     path |-> options.path, cur |-> 0,
     leafs |-> <<>>, max |-> 0, leafsDone |-> FALSE, junk |-> junk,
     recording |-> FALSE, headerDone |-> FALSE, data |-> <<>>, written |-> <<>>]

AddedOnce(csv, name) ==
    IF LeafNumbers(csv, name) = {} THEN AddedLeaf(csv, name) ELSE csv

Created(options, junk) ==
    LET named[i \in 0..Len(options.leafs)] ==
            IF i = 0 THEN Fresh(options, junk) ELSE AddedOnce(named[i - 1], options.leafs[i])
    IN [named[Len(options.leafs)] EXCEPT !.leafsDone = options.leafs # <<>>]

Flush(csv) == [csv EXCEPT !.written = @ \o csv.data, !.data = <<>>]

-----------------------------------------------------------------------------
(* csv_emit_record *)

Header(csv) == [i \in DOMAIN csv.leafs |-> csv.leafs[i].name]
Row(csv) ==
    [i \in DOMAIN csv.leafs |-> IF csv.leafs[i].has THEN csv.leafs[i].cell ELSE NoCell]

Line(kind, cells) == [line |-> kind, cells |-> cells]

WithHeader(csv) ==
    IF csv.headerDone \/ csv.noHeader
    THEN csv
    ELSE [csv EXCEPT !.headerDone = TRUE, !.data = Append(@, Line("header", Header(csv)))]

WithRow(csv) == [csv EXCEPT !.data = Append(@, Line("row", Row(csv)))]

Flushed(csv) == IF csv.flushes THEN Flush(csv) ELSE csv

Cleared(csv) ==
    [csv EXCEPT !.leafs = [i \in DOMAIN @ |-> Leaf(@[i].name, FALSE)], !.leafsDone = TRUE]

\* Mutant: the values of the row stay with their leafs.
EmitKeepsValues(csv) ==
    IF csv.leafs = <<>>
    THEN csv
    ELSE [Flushed(WithRow(WithHeader(csv))) EXCEPT !.leafsDone = TRUE]

Emit(csv) ==
    IF csv.leafs = <<>> THEN csv ELSE Cleared(Flushed(WithRow(WithHeader(csv))))

StopRecording(csv) == Emit([csv EXCEPT !.recording = FALSE])

-----------------------------------------------------------------------------
(* Opening and closing containers, instances and leaf-lists *)

HasPath(csv) == csv.path # <<>>

\* csv_path_top with delta 0 and -1: is this the member of the path we wait
\* for, is it the one we entered last?
Awaited(csv, name) ==
    HasPath(csv) /\ csv.cur < Len(csv.path) /\ csv.path[csv.cur + 1] = name
Entered(csv, name) == HasPath(csv) /\ csv.cur > 0 /\ csv.path[csv.cur] = name

\* The last member of the path starts a recording.
Advanced(csv) == [csv EXCEPT !.cur = @ + 1, !.recording = csv.cur + 1 = Len(csv.path)]

\* Mutant: a member of the path is entered wherever it stands in the path.
OpenAnyLevel(csv, name, isInstance) ==
    CASE csv.recording -> StopRecording(csv)
      [] ~csv.recording /\ HasPath(csv) /\ csv.cur < Len(csv.path) /\ Contains(csv.path, name) ->
            Advanced(csv)
      [] ~csv.recording /\ ~HasPath(csv) /\ isInstance -> [csv EXCEPT !.recording = TRUE]
      [] OTHER -> csv

\* csv_open_level.  An open that ends a recording is not looked at any further:
\* it neither advances in the path nor starts a recording of its own.
OpenLevel(csv, name, isInstance) ==
    CASE csv.recording -> StopRecording(csv)
      [] ~csv.recording /\ Awaited(csv, name) ->
            Advanced(csv)
      [] ~csv.recording /\ ~HasPath(csv) /\ isInstance -> [csv EXCEPT !.recording = TRUE]
      [] OTHER -> csv

\* Mutant: the recording that ends gives no row.
CloseQuietly(csv, name) ==
    LET stopped == [csv EXCEPT !.recording = FALSE]
    IN IF Entered(stopped, name) THEN [stopped EXCEPT !.cur = @ - 1] ELSE stopped

\* csv_close_level
CloseLevel(csv, name) ==
    LET stopped == IF csv.recording THEN StopRecording(csv) ELSE csv
    IN IF Entered(stopped, name) THEN [stopped EXCEPT !.cur = @ - 1] ELSE stopped

-----------------------------------------------------------------------------
(* csv_data: csv_leaf_num, then csv_leaf_set *)

SetLeaf(csv, name, value) ==
    LET i == CHOOSE j \in LeafNumbers(csv, name) : TRUE
    IN [csv EXCEPT !.leafs[i].has = TRUE, !.leafs[i].cell = value]

Data(csv, name, value) ==
    CASE csv.recording /\ LeafNumbers(csv, name) # {} -> SetLeaf(csv, name, value)
      [] csv.recording /\ LeafNumbers(csv, name) = {} /\ ~csv.leafsDone ->
            SetLeaf(AddedLeaf(csv, name), name, value)
      [] OTHER -> csv

\* csv_handler
Handle(csv, op) ==
    CASE op.op \in {"open_container", "open_leaf_list"} -> OpenLevel(csv, op.name, FALSE)
      [] op.op = "open_instance" -> OpenLevel(csv, op.name, TRUE)
      [] op.op \in {"close_container", "close_leaf_list", "close_instance"} ->
            CloseLevel(csv, op.name)
      [] op.op \in {"field", "item"} -> Data(csv, op.name, op.value)
      [] op.op = "flush" -> Flush(csv)
      [] OTHER -> csv

=============================================================================
