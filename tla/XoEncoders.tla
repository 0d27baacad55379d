----------------------------- MODULE XoEncoders -----------------------------
(***************************************************************************)
(* One document, told to the encoders as libxo tells it (the               *)
(* XO_STYLE_ENCODER cases of src/libxo/libxo.c): a balanced stream of       *)
(* operations.  With a filter, an element may be tentative (xs_rb_off): an  *)
(* encoder that asked to be notified, rtoon, gets a DEADEND instead of its   *)
(* close, any other one the close.  A field that the filter wants commits    *)
(* all that is open; the open of an element that it wants does not, unlike   *)
(* in XML and JSON.                                                          *)
(***************************************************************************)
EXTENDS Integers, Sequences, FiniteSets, SequencesExt

CONSTANTS
    Containers, Lists, LeafLists,   \* names of what holds something
    Fields, KeyFields,              \* names of fields, and those that are keys
    Setups,                         \* the handles and options, see SetupSet
    StackSize, LeafMax,             \* what the encoders allocate at first
    NoName, EmptyString, NoCell, JunkCell,
    Length(_),                      \* how many bytes a name or a value has
    MaxOpen                         \* a bound on what is open at once

ASSUME NamesAssumption == KeyFields \subseteq Fields
ASSUME SizesAssumption == StackSize \in Nat \ {0} /\ LeafMax \in Nat \ {0, 1}

Fullpath == INSTANCE XoFullpath
Cbor == INSTANCE XoCbor
Csv == INSTANCE XoCsv
Rtoon == INSTANCE XoRtoon

VARIABLES
    setup,      \* the options, and what the caller avoids
    open,       \* what is open, the document itself first
    kept,       \* the operations so far, as rtoon was told, without those that
                \* were discarded
    count,      \* how many operations there were; they number the values
    flushes,    \* how often the caller flushed
    done,       \* xo_finish was called
    fullpath, cbor, csv, rtoon

doc == <<setup, open, kept, count, flushes, done>>
vars == <<setup, open, kept, count, flushes, done, fullpath, cbor, csv, rtoon>>

(* filtered: the handle has a filter, and so a filter-aware encoder.  dense:  *)
(* the lists opened with XOF_DENSE, the fields with the "dense" modifier.     *)
(* careful: the caller avoids what rtoon cannot take back.  filled: it leaves *)
(* no instance without a field that the filter wants, if it wants the         *)
(* instance.  names, maxOps and maxFlushes bound what the caller does.        *)
SetupSet ==
    [filtered : BOOLEAN, careful : BOOLEAN, filled : BOOLEAN, noVersion : BOOLEAN,
     denseLists : SUBSET Lists, denseFields : SUBSET Fields,
     csv : [path : Seq(Containers \cup Lists \cup LeafLists), leafs : Seq(Fields),
            noHeader : BOOLEAN, flushes : BOOLEAN],
     junk : BOOLEAN,
     names : SUBSET (Containers \cup Lists \cup LeafLists \cup Fields),
     maxOps : Nat, maxFlushes : Nat]

ASSUME SetupsAssumption == Setups \subseteq SetupSet

\* What the filter says of an element, of what is in it unless that has a
\* verdict of its own: wanted or not, waiting for a predicate; "held" is wanted
\* because of a key that came, where the frame still says "pred"; what is
\* "denied" nothing makes wanted again.  The filter is not asked about lists.
Verdicts == {"none", "track", "pred", "held", "full", "denied"}

Element(kind, name, id, verdict, tentative) ==
    [kind |-> kind, name |-> name, id |-> id, verdict |-> verdict, tentative |-> tentative,
     mark |-> Len(kept),    \* the operations before it
     keys |-> <<>>,         \* the keys it was given
     used |-> {}]           \* the names of its fields, leaf-lists and lists

\* If every expression rejects, what none of them matches is wanted.
Document(verdict) ==
    [kind |-> "document", name |-> NoName, id |-> 0, verdict |-> verdict, tentative |-> FALSE,
     mark |-> 0, keys |-> <<>>, used |-> {}]

Init ==
    /\ setup \in Setups
    /\ \E verdict \in {"track", "full"} :
          (~setup.filtered => verdict = "full") /\ open = <<Document(verdict)>>
    /\ kept = <<>>
    /\ count = 0
    /\ flushes = 0
    /\ done = FALSE
    /\ fullpath = Fullpath!Created(setup.csv.flushes)
    /\ cbor = Cbor!Created
    /\ csv = Csv!Created(setup.csv, setup.junk)
    /\ rtoon = Rtoon!Created(setup.noVersion)

Top == open[Len(open)]
Parents == Tail(open)       \* without the document

-----------------------------------------------------------------------------
(* Telling the encoders *)

Op(op, name, value, flags) == [op |-> op, name |-> name, value |-> value, flags |-> flags]

Opening ==
    [container |-> "open_container", list |-> "open_list", leaf_list |-> "open_leaf_list",
     instance |-> "open_instance"]
Closing ==
    [container |-> "close_container", list |-> "close_list", leaf_list |-> "close_leaf_list",
     instance |-> "close_instance"]

\* xo_encoder_handle.  Only fullpath and rtoon may be used with a filter.
Tell(op) ==
    /\ fullpath' = Fullpath!Handle(fullpath, op)
    /\ rtoon' = Rtoon!Handle(rtoon, op)
    /\ IF setup.filtered
       THEN UNCHANGED <<cbor, csv>>
       ELSE cbor' = Cbor!Handle(cbor, op) /\ csv' = Csv!Handle(csv, op)

\* A field that is not wanted goes only to an encoder that asked to be notified.
TellTentative(op) ==
    /\ rtoon' = Rtoon!Handle(rtoon, op)
    /\ UNCHANGED <<fullpath, cbor, csv>>

\* The close of a tentative element: xo_filt_rollback
TellDeadend(op) ==
    /\ fullpath' = Fullpath!Handle(fullpath, op)
    /\ rtoon' = Rtoon!Handle(rtoon, [op EXCEPT !.op = "deadend"])
    /\ UNCHANGED <<cbor, csv>>

\* The same where the frame says "full": xo_filt_rollback sends nothing.
TellOthers(op) ==
    /\ fullpath' = Fullpath!Handle(fullpath, op)
    /\ UNCHANGED <<cbor, csv, rtoon>>

\* An operation is kept with what it is in; open and close of an element are
\* outside of it.
Place(elements) ==
    [i \in 1..(Len(elements) - 1) |->
        [kind |-> elements[i + 1].kind, name |-> elements[i + 1].name, id |-> elements[i + 1].id]]

Keep(op, elements) == kept' = Append(kept, [what |-> op, within |-> Place(elements)])

Holds(kinds) == Top.kind \in kinds

\* A new name in the element at the top; what a caller repeats there is
\* libxo's business, not an encoder's.
Fresh(name) == name \in setup.names \ Top.used
Using(name) == [open EXCEPT ![Len(open)].used = @ \cup {name}]

-----------------------------------------------------------------------------
(* The filter, known by its verdicts *)

\* The innermost element that the filter was asked about
Judged(elements) ==
    IF Last(elements).kind \in {"list", "leaf_list"} THEN Len(elements) - 1 ELSE Len(elements)
Verdict == open[Judged(open)].verdict

Wanted(verdict) == verdict \in {"held", "full"}

\* What is in a wanted element is wanted unless an expression rejects it.
VerdictsInside ==
    CASE ~setup.filtered -> {"full"}
      [] setup.filtered /\ Wanted(Verdict) -> {"full", "denied"}
      [] setup.filtered /\ Verdict = "denied" -> {"denied"}
      [] OTHER -> {"track", "pred", "full", "denied"}

\* What a key, or another field, may make of the verdict on the element it is
\* in.  xo_filter_op_key answers with the status before the key, so that a key
\* which decides does not commit; and once an element is wanted, predicates
\* that would reject it are shown keys only.
VerdictsAfterKey ==
    CASE ~setup.filtered -> {"full"}
      [] setup.filtered /\ Wanted(Verdict) -> {"full", "denied"}
      [] setup.filtered /\ Verdict = "pred" -> {"pred", "held", "track", "denied"}
      [] OTHER -> {Verdict}
VerdictsAfterField ==
    IF Verdict = "pred" THEN {"pred", "full", "track", "denied"} ELSE {Verdict}

Judge(elements, verdict) == [elements EXCEPT ![Judged(elements)].verdict = verdict]

\* xo_filt_commit: the top and all that it is in are permanent, and all frames
\* say "full".
Committed(elements) ==
    [i \in DOMAIN elements |->
        [elements[i] EXCEPT !.tentative = FALSE, !.verdict = IF @ = "held" THEN "full" ELSE @]]

\* xs_rb_off: containers that are wanted do not have it, all else has.
Tentative(kind, verdict) == setup.filtered /\ (kind = "container" => verdict # "full")

\* The caller avoids what a DEADEND does not undo: a construct that is the
\* first member of an instance.
RtoonCanTakeBack ==
    setup.filtered /\ setup.careful /\ Holds({"instance"}) =>
        Top.keys # <<>> \/ Top.used \cap Fields # {}

\* What it had written for an instance is gone, but not that there was one: the
\* caller avoids a list that is kept though all its instances were discarded.
RtoonCanKeep ==
    setup.filtered /\ setup.careful /\ Holds({"list"}) =>
        Top.used = {} \/ Len(kept) > Top.mark + 1

\* A leaf-list that nothing was found in is discarded too, but rtoon has no
\* frame for it.
RtoonCanDiscard == setup.careful => ~Holds({"leaf_list"})

Room == ~done /\ count < setup.maxOps
Count == count' = count + 1
Still == UNCHANGED <<setup, flushes, done>>

-----------------------------------------------------------------------------
(* The operations *)

\* xo_do_open_container, xo_do_open_list
OpenOne(kind, name, verdict, flags) ==
    LET op == Op(Opening[kind], name, count + 1, flags) IN
    /\ Room
    /\ Len(open) <= MaxOpen
    /\ open' = Append(Using(name),
                     Element(kind, name, count + 1, verdict, Tentative(kind, verdict)))
    /\ Keep(op, open)
    /\ Tell(op)
    /\ Count
    /\ Still

\* An element is not opened inside another one of its name.
NotInside(name) == \A i \in DOMAIN open : open[i].name # name

OpenContainer(name) ==
    /\ Holds({"document", "container", "instance"})
    /\ Fresh(name) /\ NotInside(name)
    /\ RtoonCanTakeBack
    /\ \E verdict \in VerdictsInside : OpenOne("container", name, verdict, {})

OpenList(name) ==
    /\ Holds({"document", "container", "instance"})
    /\ Fresh(name) /\ NotInside(name)
    /\ RtoonCanTakeBack
    /\ OpenOne("list", name, "none", IF name \in setup.denseLists THEN {"dense"} ELSE {})

\* xo_do_open_leaf_list
OpenLeafList(name) ==
    /\ Holds({"document", "container", "instance"})
    /\ Fresh(name)
    /\ OpenOne("leaf_list", name, "none", {})

\* xo_do_open_instance
OpenInstance ==
    /\ Holds({"list"})
    /\ \E verdict \in VerdictsInside : OpenOne("instance", Top.name, verdict, {})

\* xo_format_value_encoder, for a field or a value of a leaf-list: given it, the
\* filter may make up its mind about the element and about the field.
Value(op, elements) ==
    \E verdict \in VerdictsAfterField :
        \/ /\ verdict # "denied"
           /\ open' = Committed(Judge(elements, verdict))
           /\ Tell(op)
        \/ /\ Top.tentative /\ (verdict = "full" => Verdict = "full")
           /\ open' = Judge(elements, verdict)
           /\ TellTentative(op)

\* A key is always told.
KeyField(op, elements) ==
    /\ \E verdict \in VerdictsAfterKey :
          open' = Judge(IF Wanted(Verdict) THEN Committed(elements) ELSE elements, verdict)
    /\ Tell(op)

Field(name) ==
    LET flags == (IF name \in KeyFields THEN {"key"} ELSE {})
                    \cup (IF name \in setup.denseFields THEN {"dense"} ELSE {})
        op == Op("field", name, count + 1, flags)
    IN
    /\ Room
    /\ Holds({"document", "container", "instance"})
    /\ Fresh(name)
    /\ IF name \in KeyFields
       THEN /\ Holds({"instance"})
            /\ KeyField(op, [Using(name) EXCEPT
                                ![Len(open)].keys = Append(@, <<name, count + 1>>)])
       ELSE Value(op, Using(name))
    /\ Keep(op, open)
    /\ Count
    /\ Still

\* A value of a leaf-list: XFF_LEAF_LIST
Item ==
    LET op == Op("item", Top.name, count + 1, {}) IN
    /\ Room
    /\ Holds({"leaf_list"})
    /\ Value(op, Using(Top.name))
    /\ Keep(op, open)
    /\ Count
    /\ Still

\* A field that no encoder is told of may still decide a predicate.
Skip ==
    /\ Room
    /\ setup.filtered /\ Verdict = "pred"
    /\ \E verdict \in {"track", "denied", "full"} :
          open' = IF verdict = "full" THEN Committed(Judge(open, verdict)) ELSE Judge(open, verdict)
    /\ UNCHANGED <<kept, count, fullpath, cbor, csv, rtoon>>
    /\ Still

\* An instance that is wanted, and was when it was opened, but nothing in it
\* was told that is wanted
Lost(element) ==
    element.kind = "instance" /\ element.tentative /\ element.verdict = "full"

\* xo_do_close_container, xo_do_close_list, xo_do_close_instance and
\* xo_do_close_leaf_list.  An instance that turns out to be wanted because of
\* its keys, or because a field never came, is committed first.
Close ==
    LET op == Op(Closing[Top.kind], Top.name, NoName, {}) IN
    /\ ~done
    /\ Len(open) > 1
    /\ \/ /\ ~Top.tentative /\ RtoonCanKeep
          /\ open' = Front(open) /\ Keep(op, Front(open)) /\ Tell(op)
       \/ /\ Top.tentative /\ Holds({"instance"}) /\ Top.verdict \in {"pred", "held"}
          /\ open' = Front(Committed(open)) /\ Keep(op, Front(open)) /\ Tell(op)
       \/ /\ Lost(Top) /\ ~setup.filled
          /\ open' = Front(open) /\ Keep(op, Front(open)) /\ TellOthers(op)
       \/ /\ Top.tentative /\ ~Lost(Top) /\ (Holds({"instance"}) => Top.verdict # "held")
          /\ RtoonCanDiscard
          /\ open' = Front(open) /\ kept' = SubSeq(kept, 1, Top.mark) /\ TellDeadend(op)
    /\ UNCHANGED count
    /\ Still

\* xo_flush_h; libxo itself refrains from it while something may be taken back.
Flush ==
    /\ ~done
    /\ flushes < setup.maxFlushes
    /\ \A i \in DOMAIN open : open[i].tentative => Lost(open[i])
    /\ flushes' = flushes + 1
    /\ Tell(Op("flush", NoName, NoName, {}))
    /\ UNCHANGED <<setup, open, kept, count, done>>

\* xo_finish_h: FINISH, then FLUSH
Finish ==
    LET finish == Op("finish", NoName, NoName, {})
        flush == Op("flush", NoName, NoName, {})
    IN
    /\ ~done
    /\ Len(open) = 1
    /\ done' = TRUE
    /\ fullpath' = Fullpath!Handle(Fullpath!Handle(fullpath, finish), flush)
    /\ rtoon' = Rtoon!Handle(Rtoon!Handle(rtoon, finish), flush)
    /\ IF setup.filtered
       THEN UNCHANGED <<cbor, csv>>
       ELSE /\ cbor' = Cbor!Handle(Cbor!Handle(cbor, finish), flush)
            /\ csv' = Csv!Handle(Csv!Handle(csv, finish), flush)
    /\ UNCHANGED <<setup, open, kept, count, flushes>>

Next ==
    \/ \E name \in Containers : OpenContainer(name)
    \/ \E name \in Lists : OpenList(name)
    \/ OpenInstance
    \/ \E name \in LeafLists : OpenLeafList(name)
    \/ \E name \in Fields : Field(name)
    \/ Item
    \/ Close
    \/ Skip
    \/ Flush
    \/ Finish

Spec == Init /\ [][Next]_vars


-----------------------------------------------------------------------------
(* Correctness: each encoder against the document it was told.              *)

\* The leader of fullpath is the path of what is open, with the keys of each
\* element, whatever was opened, given and closed before (enc_fullpath.c:216).
PathOf(element) ==
    <<<<element.name>>>>
        \o [i \in DOMAIN element.keys |->
                Fullpath!Predicate(element.keys[i][1], element.keys[i][2])]
        \o <<Fullpath!Slash>>

IsLevel(element) == element.kind \in {"container", "instance"}

PathOfAll(elements) ==
    LET path[i \in 1..Len(elements)] ==
            IF i = 1 THEN <<Fullpath!Slash>>
            ELSE path[i - 1] \o (IF IsLevel(elements[i]) THEN PathOf(elements[i]) ELSE <<>>)
    IN path[Len(elements)]

LeaderIsPath == fullpath.leader = PathOfAll(open)

\* A reader of CBOR knows, of each map and array it is in, what may come next:
\* a key, the value of a key, an element; and has noted each string as what it
\* was.
AfterValue(nest) ==
    CASE nest = <<>> -> <<"error">>
      [] nest # <<>> /\ Last(nest) = "key" -> [nest EXCEPT ![Len(nest)] = "value"]
      [] nest # <<>> /\ Last(nest) = "value" -> [nest EXCEPT ![Len(nest)] = "key"]
      [] OTHER -> nest

\* The length a head stands for, or -1
LengthRead(head) ==
    CASE head[1] < 24 /\ Len(head) = 1 -> head[1]
      [] head[1] = 24 /\ Len(head) = 2 -> head[2]
      [] head[1] = 25 /\ Len(head) = 3 -> 256 * head[2] + head[3]
      [] head[1] = 26 /\ Len(head) = 5 ->
            16777216 * head[2] + 65536 * head[3] + 256 * head[4] + head[5]
      [] OTHER -> -1

Read(reader, item) ==
    LET nest == reader.nest
        expects == IF nest = <<>> THEN "nothing" ELSE Last(nest)
        entered(first) ==
            CASE nest = <<>> -> <<first>>
              [] nest # <<>> /\ expects = "key" -> <<"error">>
              [] OTHER -> Append(AfterValue(nest), first)
    IN CASE item.item = "string" /\ LengthRead(item.head) # Length(item.of) ->
                [reader EXCEPT !.nest = <<"error">>]
         [] item.item = "string" /\ LengthRead(item.head) = Length(item.of) ->
                [nest |-> AfterValue(nest), strings |-> Append(reader.strings, <<expects, item.of>>)]
         [] item.item = "map" -> [reader EXCEPT !.nest = entered("key")]
         [] item.item = "array" -> [reader EXCEPT !.nest = entered("element")]
         [] item.item = "break" ->
                [reader EXCEPT !.nest =
                    IF expects \in {"key", "element"} THEN Front(nest) ELSE <<"error">>]

ReadAll(items) ==
    LET after[i \in 0..Len(items)] ==
            IF i = 0 THEN [nest |-> <<>>, strings |-> <<>>] ELSE Read(after[i - 1], items[i])
    IN after[Len(items)]

\* What the reader is to find: the open maps and arrays, keys and values
Expecting(kind) == IF kind \in {"list", "leaf_list"} THEN "element" ELSE "key"

StringsOf(op) ==
    CASE op.op = "field" -> <<<<"key", op.name>>, <<"value", op.value>>>>
      [] op.op = "item" -> <<<<"element", op.value>>>>
      [] op.op \in {"open_container", "open_list", "open_leaf_list"} -> <<<<"key", op.name>>>>
      [] OTHER -> <<>>

StringsOfAll(ops) ==
    LET strings[p \in 0..Len(ops)] ==
            IF p = 0 THEN <<>> ELSE strings[p - 1] \o StringsOf(ops[p].what)
    IN strings[Len(ops)]

\* The buffer of cbor reads as nested maps and arrays in which keys and values
\* take turns; those that are open are the ones that are open in the document,
\* and its strings are the names and values of the document, of the lengths they have
\* (enc_cbor.c:168, 259).
CborReads ==
    ~setup.filtered =>
        ReadAll(cbor.data) =
            [nest |-> IF done THEN <<>> ELSE [i \in DOMAIN open |-> Expecting(open[i].kind)],
             strings |-> StringsOfAll(kept)]

-----------------------------------------------------------------------------
(* csv *)

CsvOutput == csv.written \o csv.data
IsRow(line) == line.line = "row"
Rows == {i \in DOMAIN CsvOutput : IsRow(CsvOutput[i])}
CellsOf(r) == CsvOutput[r].cells
Names == Csv!Header(csv)

Given(id) == {p \in DOMAIN kept : kept[p].what.op \in {"field", "item"} /\ kept[p].what.value = id}

\* The element that the operation at p is in; 0 outside of all
InnermostOf(p) ==
    IF kept[p].within = <<>> THEN 0 ELSE kept[p].within[Len(kept[p].within)].id

Filled(cells) == {i \in DOMAIN cells : cells[i] \notin {NoCell, JunkCell}}

\* The table of csv: the header comes first and names the columns of every
\* row, a cell holds a value of its column's field, all cells of a row come
\* from one element, and each row is of a later element than the rows before
\* it (enc_csv.c:309).
CsvTable ==
    /\ \A i \in DOMAIN CsvOutput :
          CsvOutput[i].line = "header" =>
              i = 1 /\ ~setup.csv.noHeader /\ CsvOutput[i].cells = Names
    /\ \A r \in Rows :
          /\ Len(CellsOf(r)) = Len(Names)
          /\ \A i \in Filled(CellsOf(r)) :
                \A p \in Given(CellsOf(r)[i]) : kept[p].what.name = Names[i]
    /\ \A r, s \in Rows : r <= s =>
          \A i \in Filled(CellsOf(r)), j \in Filled(CellsOf(s)) :
              \A p \in Given(CellsOf(r)[i]), q \in Given(CellsOf(s)[j]) :
                  IF r = s THEN InnermostOf(p) = InnermostOf(q)
                           ELSE InnermostOf(p) < InnermostOf(q)

\* The fields of element e that come before anything but lists is opened in it
InElement(p, e) == \E i \in DOMAIN kept[p].within : kept[p].within[i].id = e
Interrupts(p) == kept[p].what.op \in {"open_container", "open_leaf_list", "open_instance"}
Leading(e) ==
    {p \in DOMAIN kept :
        /\ kept[p].what.op = "field" /\ InnermostOf(p) = e
        /\ \A q \in 1..p : ~(InElement(q, e) /\ Interrupts(q))}

\* Without a path, an instance that is in no other one gives its fields, as
\* far as the table has their columns, to a row (enc_csv.c:386, 426).
OuterInstances ==
    {p \in DOMAIN kept : kept[p].what.op = "open_instance"
        /\ \A i \in DOMAIN kept[p].within : kept[p].within[i].kind # "instance"}

RowsAreComplete ==
    ~setup.filtered /\ setup.csv.path = <<>> /\ Len(open) = 1 =>
        \A p \in OuterInstances :
            LET shown == {q \in Leading(kept[p].what.value) :
                            kept[q].what.name \in {Names[i] : i \in DOMAIN Names}}
            IN shown # {} =>
                \E r \in Rows :
                    shown = UNION {Given(CellsOf(r)[i]) : i \in Filled(CellsOf(r))}

\* csv's place in its path is as much of the path as is open, in this order
\* (enc_csv.c:397, 441).
PathOpened(k) ==
    \E at \in [1..k -> DOMAIN Parents] :
        /\ \A i \in 1..k :
              Parents[at[i]].name = setup.csv.path[i] /\ Parents[at[i]].kind # "list"
        /\ \A i \in 1..(k - 1) : at[i] < at[i + 1]

PathFollows ==
    ~setup.filtered =>
        \A k \in 1..Len(setup.csv.path) : k <= csv.cur <=> PathOpened(k)

-----------------------------------------------------------------------------
(* rtoon: what a reader of the format expects, from the document alone      *)

Within(p, i) == kept[p].within[i]
Depth(p) == Len(kept[p].within)

\* Position q is a member of the element that p is a member of too.
Sibling(p, q) == kept[p].within = kept[q].within

Members(e) == {p \in DOMAIN kept : InnermostOf(p) = e}
Ops(ps, ops) == {p \in ps : kept[p].what.op \in ops}
Earliest(ps) == CHOOSE p \in ps : \A q \in ps : p <= q

\* A list is dense if it was opened so, or if a field of its first instance is.
FirstInstance(list) ==
    LET opened == Ops(Members(list), {"open_instance"})
    IN IF opened = {} THEN 0 ELSE kept[Earliest(opened)].what.value

IsDense(list) ==
    \/ list.name \in setup.denseLists
    \/ \E p \in Ops(Members(FirstInstance(list.id)), {"field"}) :
          /\ InnermostOf(p) # 0
          /\ kept[p].what.name \in setup.denseFields
          /\ \A q \in Ops(Members(InnermostOf(p)), {"open_container", "open_list"}) : q > p

\* The instance of a dense list that p is in, by its place in what p is in
DenseAt(p) ==
    {i \in 2..Depth(p) : Within(p, i).kind = "instance" /\ IsDense(Within(p, i - 1))}

InDense(p) == DenseAt(p) # {}

\* What makes a line of its own: fields, the names of containers and lists,
\* leaf-lists with their values.
MakesLine(p) ==
    kept[p].what.op \in {"field", "open_container", "open_list", "close_leaf_list"}

IsFirstMember(p) ==
    /\ Depth(p) > 0
    /\ Within(p, Depth(p)).kind = "instance"
    /\ \A q \in 1..(p - 1) : ~(Sibling(p, q) /\ MakesLine(q))

\* The values given between the open and the close of a leaf-list
ItemsBefore(p) ==
    LET open_ == Max({q \in 1..p : kept[q].what.op = "open_leaf_list"})
        items == SelectSeq(SubSeq(kept, open_, p), LAMBDA k : k.what.op = "item")
    IN [i \in DOMAIN items |-> items[i].what.value]

ValueOf(p) == IF kept[p].what.op = "field" THEN kept[p].what.value ELSE ItemsBefore(p)

TextLine(depth, dash, tokens) ==
    <<Rtoon!Indent(IF dash THEN depth - 1 ELSE depth)>>
        \o (IF dash THEN <<Rtoon!Dash>> ELSE <<>>) \o tokens \o <<Rtoon!NewLine>>

NamedLine(p) ==
    TextLine(Depth(p), IsFirstMember(p),
             <<Rtoon!Name(<<kept[p].what.name>>)>>
                \o (IF kept[p].what.op \in {"field", "close_leaf_list"}
                    THEN <<Rtoon!Cell(ValueOf(p))>> ELSE <<>>))

\* Dense lists: the cells of an instance are its fields and those of the
\* containers in it, under their path.
Columned(p, list) ==
    /\ kept[p].what.op \in {"field", "close_leaf_list"}
    /\ \E i \in DenseAt(p) :
          /\ Within(p, i - 1).id = list
          /\ \A j \in (i + 1)..Depth(p) : Within(p, j).kind = "container"

ColumnOf(p) ==
    LET i == CHOOSE j \in DenseAt(p) : \A m \in DenseAt(p) : j <= m
    IN [j \in 1..(Depth(p) - i) |-> Within(p, i + j).name] \o <<kept[p].what.name>>

ColumnsUpTo(p, list) ==
    LET new == {q \in 1..p : Columned(q, list)
                    /\ \A r \in 1..(q - 1) : Columned(r, list) => ColumnOf(r) # ColumnOf(q)}
        at == SetToSortSeq(new, <)
    IN [i \in DOMAIN at |-> ColumnOf(at[i])]

\* The row of the instance that is closed at p
DenseLines(p) ==
    LET list == InnermostOf(p)
        closed == {q \in Ops(Members(list), {"close_instance"}) : q < p}
        before == IF closed = {} THEN <<>> ELSE ColumnsUpTo(Max(closed), list)
        columns == ColumnsUpTo(p, list)
        opened == Max({q \in Ops(Members(list), {"open_instance"}) : q < p})
        under(c) == {q \in opened..p : Columned(q, list) /\ ColumnOf(q) = c}
        cell(c) == IF under(c) = {} THEN NoName ELSE ValueOf(Earliest(under(c)))
    IN (IF columns = before THEN <<>>
        ELSE TextLine(Depth(p), FALSE, <<Rtoon!Columns(columns)>>))
       \o TextLine(Depth(p), FALSE, [i \in DOMAIN columns |-> Rtoon!Cell(cell(columns[i]))])

\* An instance without members, a list without instances
Childless(p, opening) ==
    LET opened == Max({q \in 1..p : kept[q].what.op = opening
                                    /\ kept[q].within = kept[p].within})
    IN \A q \in opened..p : InnermostOf(q) # kept[opened].what.value

LinesOf(p) ==
    CASE InDense(p) -> <<>>
      [] ~InDense(p) /\ MakesLine(p) -> NamedLine(p)
      [] ~InDense(p) /\ kept[p].what.op = "close_instance" ->
            IF IsDense(Within(p, Depth(p)))
            THEN DenseLines(p)
            ELSE IF Childless(p, "open_instance")
                 THEN TextLine(Depth(p) + 1, TRUE, <<Rtoon!Cell(EmptyString)>>)
                 ELSE <<>>
      [] ~InDense(p) /\ kept[p].what.op = "close_list" /\ Childless(p, "open_list") ->
            TextLine(Depth(p) + 1, FALSE, <<Rtoon!LoneDash>>)
      [] OTHER -> <<>>

Expected ==
    LET lines == FlattenSeq([p \in DOMAIN kept |-> LinesOf(p)])
    IN IF lines = <<>> \/ setup.noVersion THEN lines ELSE <<Rtoon!Version>> \o lines

\* Whenever no instance or leaf-list is open, rtoon has written the lines of
\* the document: all of them, indented as they are nested, rows under their
\* columns, and nothing of what was discarded (enc_rtoon.c:11-32), if no
\* instance was lost.
Settled == \A i \in DOMAIN open : open[i].kind \notin {"instance", "leaf_list"}

LinesAreDocument == setup.filled /\ Settled => rtoon.written \o rtoon.data = Expected

\* The frames of rtoon are those of what is open, so that a DEADEND pops the
\* frame of what it is for (enc_rtoon.c:16-22).
FramesAreOpen ==
    Len(rtoon.stack) = Cardinality({i \in DOMAIN Parents : Parents[i].kind # "leaf_list"})

=============================================================================
