------------------------------ MODULE XoRtoon ------------------------------
(***************************************************************************)
(* The "rtoon" encoder (src/encoder/rtoon/enc_rtoon.c): lines whose         *)
(* indentation shows the hierarchy.  The instances of a list are written    *)
(* sparse (a line per field, the first of them after a dash) or dense (a    *)
(* row of cells under a line of column names).  The fields of an instance   *)
(* wait in its frame until the instance, or something in it, makes it clear *)
(* which; and DEADEND takes back all that the top frame has written.        *)
(***************************************************************************)
EXTENDS Integers, Sequences, SequencesExt

CONSTANTS
    NoName,         \* no name, no value, no prefix
    EmptyString     \* the value written for an instance without fields

(* What is written, one token each: the two-blank indentation, the dash that *)
(* begins an instance, names, values, braces, the end of a line.             *)
Token(what, depth, name, value) ==
    [what |-> what, depth |-> depth, name |-> name, value |-> value]

Indent(depth) == Token("indent", depth, NoName, NoName)
Dash == Token("dash", 0, NoName, NoName)
LoneDash == Token("lone-dash", 0, NoName, NoName)
Name(name) == Token("name", 0, name, NoName)
Cell(value) == Token("cell", 0, NoName, value)
Columns(names) == Token("columns", 0, names, NoName)
NewLine == Token("newline", 0, NoName, NoName)
Version == Token("version", 0, NoName, NoName)

\* rtoon_create, rtoon_options
Created(noVersion) ==
    [data |-> <<>>, old |-> <<>>, written |-> <<>>, stack |-> <<>>, depth |-> 0, midLine |-> FALSE,
     leafs |-> <<>>, noVersion |-> noVersion, versionDone |-> FALSE]

Write(rt, tokens) == [rt EXCEPT !.data = @ \o tokens]

\* rtoon_write_line_prefix: every line begins here, or goes on here after the
\* dash of an instance whose first member is not a field.
WithVersion(rt) ==
    IF rt.versionDone
    THEN rt
    ELSE Write([rt EXCEPT !.versionDone = TRUE],
               IF rt.noVersion THEN <<>> ELSE <<Version>>)

WithIndent(rt, depth) ==
    IF rt.midLine THEN [rt EXCEPT !.midLine = FALSE] ELSE Write(rt, <<Indent(depth)>>)

LinePrefix(rt, depth) == WithIndent(WithVersion(rt), depth)

Line(rt, depth, tokens) == Write(LinePrefix(rt, depth), Append(tokens, NewLine))

-----------------------------------------------------------------------------
(* The stack: one flat record for every type of frame, as in the code.      *)

\* rtoon_push_idx: the frame remembers where the output stood
Frame(rt, type) ==
    [type |-> type, off |-> Len(rt.data), depth |-> rt.depth,
     mode |-> "undecided", fields |-> <<>>, dirty |-> FALSE, sawInstance |-> FALSE,
     childDepth |-> 0,
     cells |-> <<>>, wroteDash |-> FALSE, dashDepth |-> 0, fieldDepth |-> 0,
     prefix |-> <<>>]

Push(rt, type) == [rt EXCEPT !.stack = Append(@, Frame(rt, type))]
Drop(rt) == [rt EXCEPT !.stack = Front(@)]
Top(rt) == Len(rt.stack)

\* rtoon_cur_instance_idx: the innermost instance, if only flattened
\* containers lie above it; 0 when there is none
InstanceUnder(rt) ==
    LET solid == {i \in DOMAIN rt.stack : rt.stack[i].type # "flatten"}
        top == {i \in solid : \A j \in solid : j <= i}
    IN IF \E i \in top : rt.stack[i].type = "instance"
       THEN CHOOSE i \in top : TRUE
       ELSE 0

\* rtoon_flatten_prefix, put before a name
FullName(rt, inst, name) ==
    FlattenSeq([i \in 1..(Top(rt) - inst) |-> rt.stack[inst + i].prefix]) \o <<name>>

-----------------------------------------------------------------------------
(* Fields *)

Waiting(name, value) == [name |-> name, value |-> value]

FieldLine(rt, depth, name, value) == Line(rt, depth, <<Name(name), Cell(value)>>)

\* rtoon_field_widen: a new column makes the line of columns stale.
HasColumn(list, name) == \E i \in DOMAIN list.fields : list.fields[i] = name
Widened(list, name) ==
    IF HasColumn(list, name)
    THEN list
    ELSE [list EXCEPT !.fields = Append(@, name), !.dirty = TRUE]

CellPushed(rt, inst, cell) == [rt EXCEPT !.stack[inst].cells = Append(@, cell)]

\* rtoon_flush_sparse_dash
DashAlone(rt, inst) ==
    LET f == rt.stack[inst]
    IN [Write(LinePrefix(rt, f.dashDepth), <<Dash>>) EXCEPT
            !.midLine = TRUE, !.stack[inst].wroteDash = TRUE, !.depth = f.fieldDepth]

WaitingLines(rt, inst) ==
    LET f == rt.stack[inst]
        Lead(i) == IF i = 1 THEN <<Dash>> ELSE <<>>
        Put(r, i) ==
            Line(r, IF i = 1 THEN f.dashDepth ELSE f.fieldDepth,
                 Lead(i) \o <<Name(f.cells[i].name), Cell(f.cells[i].value)>>)
    IN [FoldLeft(Put, rt, [i \in DOMAIN f.cells |-> i]) EXCEPT
            !.stack[inst].cells = <<>>, !.stack[inst].wroteDash = TRUE,
            !.depth = f.fieldDepth]

FlushSparse(rt, inst) ==
    IF rt.stack[inst].cells = <<>> THEN DashAlone(rt, inst) ELSE WaitingLines(rt, inst)

\* rtoon_emit_fields_line, rtoon_flush_dense_row
ColumnsLine(rt, list) ==
    LET f == rt.stack[list]
    IN IF f.dirty
       THEN [Line(rt, f.childDepth, <<Columns(f.fields)>>) EXCEPT !.stack[list].dirty = FALSE]
       ELSE rt

CellUnder(inst, name) ==
    LET found == {i \in DOMAIN inst.cells : inst.cells[i].name = name}
    IN IF found = {}
       THEN Cell(NoName)
       ELSE Cell(inst.cells[CHOOSE i \in found : \A j \in found : i <= j].value)

FlushRow(rt, list, inst) ==
    LET f == rt.stack[list]
        row == [i \in DOMAIN f.fields |-> CellUnder(rt.stack[inst], f.fields[i])]
    IN [Line(ColumnsLine(rt, list), f.childDepth, row) EXCEPT !.stack[inst].cells = <<>>]

\* The first dense field of the first instance makes the list dense: the
\* fields that came before it become columns too.
MadeDense(list, inst, name) ==
    LET WidenBy(l, cell) == Widened(l, cell.name)
    IN Widened(FoldLeft(WidenBy, [list EXCEPT !.mode = "dense"], inst.cells), name)

\* rtoon_emit_field
EmitField(rt, name, value, isDense) ==
    LET inst == InstanceUnder(rt)
        list == inst - 1
        full == FullName(rt, inst, name)
        wait == CellPushed(rt, inst, Waiting(full, value))
    IN CASE inst = 0 -> FieldLine(rt, rt.depth, <<name>>, value)
         [] inst # 0 /\ rt.stack[list].mode = "dense" ->
                [wait EXCEPT !.stack[list] = Widened(@, full)]
         [] inst # 0 /\ rt.stack[list].mode = "undecided" ->
                IF isDense
                THEN [wait EXCEPT !.stack[list] = MadeDense(@, rt.stack[inst], full)]
                ELSE wait
         [] inst # 0 /\ rt.stack[list].mode = "sparse" ->
                IF rt.stack[inst].wroteDash
                THEN FieldLine(rt, rt.depth, full, value)
                ELSE wait

\* rtoon_open_leaf_list, rtoon_ll_add, rtoon_close_leaf_list: the values of a
\* leaf-list are one value of the field it stands for
OpenLeafList(rt) == [rt EXCEPT !.leafs = <<>>]
AddLeaf(rt, value) == [rt EXCEPT !.leafs = Append(@, value)]
CloseLeafList(rt, name) == [EmitField(rt, name, rt.leafs, FALSE) EXCEPT !.leafs = <<>>]

-----------------------------------------------------------------------------
(* Containers, lists and instances *)

\* Something that is not a field opens in an instance: a list that has not
\* shown a dense field yet will not be dense.
SparseFromHere(rt, inst) ==
    IF inst # 0 /\ rt.stack[inst - 1].mode = "undecided"
    THEN [rt EXCEPT !.stack[inst - 1].mode = "sparse"]
    ELSE rt

InDense(rt, inst) == inst # 0 /\ rt.stack[inst - 1].mode = "dense"

DashFirst(rt, inst) ==
    IF inst # 0 /\ ~rt.stack[inst].wroteDash THEN FlushSparse(rt, inst) ELSE rt

\* The line of a container or a list; what is in it is one deeper.
NameLine(rt, type, name) ==
    [Line(Push(rt, type), rt.depth, <<Name(<<name>>)>>) EXCEPT !.depth = @ + 1]

OpenContainer(rt, name) ==
    LET inst == InstanceUnder(rt)
        settled == SparseFromHere(rt, inst)
        flat == Push(settled, "flatten")
    IN IF InDense(settled, inst)
       THEN [flat EXCEPT !.stack[Top(flat)].prefix = <<name>>]
       ELSE NameLine(DashFirst(settled, inst), "container", name)

CloseContainer(rt) ==
    IF rt.stack[Top(rt)].type = "container"
    THEN Drop([rt EXCEPT !.depth = rt.stack[Top(rt)].depth])
    ELSE Drop(rt)

OpenList(rt, name, isDense) ==
    LET inst == InstanceUnder(rt)
        settled == SparseFromHere(rt, inst)
        open == NameLine(DashFirst(settled, inst), "list", name)
    IN IF InDense(settled, inst)
       THEN Push(settled, "error")      \* and xo_failure complains
       ELSE [open EXCEPT !.stack[Top(open)].childDepth = open.depth,
                         !.stack[Top(open)].mode = IF isDense THEN "dense" ELSE "undecided"]

CloseList(rt) ==
    LET f == rt.stack[Top(rt)]
        marked == IF f.sawInstance THEN rt ELSE Line(rt, f.childDepth, <<LoneDash>>)
    IN Drop([marked EXCEPT !.depth = f.depth])

OpenInstance(rt) ==
    LET list == Top(rt)
        child == rt.stack[list].childDepth
        open == Push([rt EXCEPT !.stack[list].sawInstance = TRUE], "instance")
    IN [open EXCEPT !.stack[list + 1].dashDepth = child,
                    !.stack[list + 1].fieldDepth = child + 1]

CloseInstance(rt) ==
    LET inst == Top(rt)
        list == inst - 1
        settled == SparseFromHere(rt, inst)
        f == rt.stack[inst]
        shown ==
            CASE settled.stack[list].mode = "dense" -> FlushRow(settled, list, inst)
              [] settled.stack[list].mode = "sparse" /\ f.wroteDash -> settled
              [] settled.stack[list].mode = "sparse" /\ ~f.wroteDash /\ f.cells # <<>> ->
                    WaitingLines(settled, inst)
              [] settled.stack[list].mode = "sparse" /\ ~f.wroteDash /\ f.cells = <<>> ->
                    Line(settled, f.dashDepth, <<Dash, Cell(EmptyString)>>)
    IN Drop([shown EXCEPT !.depth = rt.stack[list].childDepth])

\* The memory of the buffer: beyond its end is what was there before a flush.
Memory(rt) == rt.data \o SubSeq(rt.old, Len(rt.data) + 1, Len(rt.old))

Flush(rt) ==
    [rt EXCEPT !.written = @ \o rt.data, !.old = Memory(rt), !.data = <<>>]

\* Mutant: the indentation stays what the frame made it.
DeadendKeepsDepth(rt) ==
    LET f == rt.stack[Top(rt)]
    IN Drop([rt EXCEPT !.data = SubSeq(Memory(rt), 1, f.off), !.midLine = FALSE])

\* rtoon_deadend: the offset of the frame may be older than the last flush
Deadend(rt) ==
    LET f == rt.stack[Top(rt)]
    IN Drop([rt EXCEPT !.data = SubSeq(Memory(rt), 1, f.off), !.depth = f.depth,
                       !.midLine = FALSE])

-----------------------------------------------------------------------------
(* rtoon_handler *)

\* Inside a list that a dense list could not take: all is swallowed, only the
\* opens and closes are counted.
InError(rt) == Top(rt) > 0 /\ rt.stack[Top(rt)].type = "error"

Opens == {"open_container", "open_list", "open_instance"}
Closes == {"close_container", "close_list", "close_instance", "deadend"}

Swallow(rt, op) ==
    CASE op.op \in Opens -> Push(rt, "error")
      [] op.op \in Closes -> Drop(rt)
      [] OTHER -> rt

Dispatch(rt, op) ==
    CASE op.op = "open_container" -> OpenContainer(rt, op.name)
      [] op.op = "close_container" -> CloseContainer(rt)
      [] op.op = "open_list" -> OpenList(rt, op.name, "dense" \in op.flags)
      [] op.op = "close_list" -> CloseList(rt)
      [] op.op = "open_instance" -> OpenInstance(rt)
      [] op.op = "close_instance" -> CloseInstance(rt)
      [] op.op = "open_leaf_list" -> OpenLeafList(rt)
      [] op.op = "close_leaf_list" -> CloseLeafList(rt, op.name)
      [] op.op = "item" -> AddLeaf(rt, op.value)
      [] op.op = "field" ->
            EmitField(rt, op.name, op.value, "dense" \in op.flags)
      [] op.op = "deadend" -> Deadend(rt)
      [] op.op = "flush" -> Flush(rt)
      [] OTHER -> rt

Handle(rt, op) == IF InError(rt) THEN Swallow(rt, op) ELSE Dispatch(rt, op)

=============================================================================
