----------------------------- MODULE XoFullpath -----------------------------
(***************************************************************************)
(* The "fullpath" encoder (src/encoder/fullpath/enc_fullpath.c): each field *)
(* becomes one line that holds the whole XPath of the field.  The path of   *)
(* the open elements, the leader, is kept in a buffer; a stack of offsets   *)
(* says how much of it to give back at each close.                          *)
(***************************************************************************)
EXTENDS Integers, Sequences

CONSTANT StackSize      \* XO_FP_DEFAULT_STACK_SIZE

\* What the leader is made of: "/", the name of an element, "[key='value']".
\* A line is its leader, its name and its value.
Slash == <<"/">>
Predicate(name, value) == <<"[", name, value>>

\* fullpath_create and fullpath_options; with "flush" each value is written at
\* once.
Created(flushes) == [leader |-> <<Slash>>, stack |-> <<>>, top |-> 0, size |-> StackSize,
            flushes |-> flushes, data |-> <<>>, written |-> <<>>]

\* The memory of the stack: what is beyond the top keeps its old contents.
Stored(s, i, x) ==
    [j \in 1..(IF i > Len(s) THEN i ELSE Len(s)) |-> IF j = i THEN x ELSE s[j]]

\* fullpath_stack_push.  The new stack pointer is computed from itself, not
\* from the old stack ("fp_stackp - fp_stackp + sp"): a stack that had to grow
\* is empty again.
Grown(fp) == IF fp.top >= fp.size THEN [fp EXCEPT !.top = 0, !.size = 2 * @] ELSE fp

Pushed(fp, off) ==
    LET g == Grown(fp)
    IN [g EXCEPT !.stack = Stored(@, g.top + 1, off), !.top = @ + 1]

\* fullpath_stack_pop: the offset, 0 from an empty stack, and the stack
PoppedOffset(fp) == IF fp.top = 0 THEN 0 ELSE fp.stack[fp.top]
Popped(fp) == IF fp.top = 0 THEN fp ELSE [fp EXCEPT !.top = @ - 1]

\* Mutant: the length is remembered once the name is there.
OpenElementLate(fp, name) ==
    [Pushed(fp, Len(fp.leader) + 2) EXCEPT !.leader = @ \o <<name, Slash>>]

OpenElement(fp, name) ==
    [Pushed(fp, Len(fp.leader)) EXCEPT !.leader = @ \o <<name, Slash>>]

CloseElement(fp) ==
    [Popped(fp) EXCEPT !.leader = SubSeq(@, 1, PoppedOffset(fp))]

\* A key turns into a predicate, put before the trailing slash.
Key(fp, name, value) ==
    [fp EXCEPT !.leader = SubSeq(@, 1, Len(@) - 1) \o <<Predicate(name, value), Slash>>]

Flush(fp) == [fp EXCEPT !.written = @ \o fp.data, !.data = <<>>]

Value(fp, name, value) ==
    LET given == [fp EXCEPT !.data =
                    Append(@, [path |-> fp.leader, name |-> name, value |-> value])]
    IN IF fp.flushes THEN Flush(given) ELSE given

\* fullpath_handler, for the operations that change its state
Handle(fp, op) ==
    CASE op.op \in {"open_container", "open_instance"} -> OpenElement(fp, <<op.name>>)
      [] op.op \in {"close_container", "close_instance"} -> CloseElement(fp)
      [] op.op = "field" /\ "key" \in op.flags -> Key(fp, op.name, op.value)
      [] op.op = "field" /\ "key" \notin op.flags -> Value(fp, op.name, op.value)
      [] op.op = "flush" -> Flush(fp)
      [] OTHER -> fp

=============================================================================
