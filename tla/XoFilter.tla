----------------------------- MODULE XoFilter -----------------------------
(***************************************************************************)
(* The filter matcher of libxo (src/filter/xo_filter.c): it follows the    *)
(* elements an application opens and closes down the trie of the filter    *)
(* expressions, evaluates predicates as the fields they name arrive, and   *)
(* says whether what is being written is wanted.                           *)
(*                                                                         *)
(* The matcher is a passive object: each function takes a filter and       *)
(* returns what it has become, so that a module of libxo's formatters can  *)
(* apply several of them in one step.                                      *)
(***************************************************************************)
EXTENDS XoTrie

CONSTANTS
    NoValue,        \* the value of an element that is not a field
    FrameSlots      \* XO_TFRAME_MAX: what a frame can follow and count

ASSUME SlotsAssumption == FrameSlots \in Nat \ {0}

ASSUME NoValueAssumption == NoValue \notin Values

VARIABLE filter

Statuses == {"zero", "track", "pred", "full"}

\* XTFS_SEEK is never used; a node without a slot is "absent".
SlotStates == {"absent", "pred", "live", "dead"}

-----------------------------------------------------------------------------
(* Frames *)

NoSlot ==
    [place |-> 0, position |-> 0, counted |-> FALSE, qual |-> 0, state |-> "absent"]

\* slots: what became of the trie nodes that an element matches by name.
\* counts and quals number the children that a node matched, by name or with
\* its leading predicates; 0 is no entry.  allow and deny are what the element
\* added to the filter's counts, xtf_allow_delta and xtf_deny_delta.
EmptyFrame(trie) ==
    [slots |-> [n \in DOMAIN trie |-> NoSlot], fields |-> [o \in Operands |-> Unseen],
     counts |-> [n \in DOMAIN trie |-> 0], quals |-> [n \in DOMAIN trie |-> 0],
     allow |-> 0, deny |-> 0]

\* A counter table after one more child for each node of S; those with a lower
\* place come first when the table has not room for all.
Advance(table, S, place) ==
    LET taken == {n \in DOMAIN table : table[n] # 0}
        rank(n) == Cardinality({m \in S \ taken : place[m] < place[n]})
        room(n) == Cardinality(taken) + rank(n) < FrameSlots
    IN  [n \in DOMAIN table |->
            IF n \in S /\ (n \in taken \/ room(n)) THEN table[n] + 1 ELSE table[n]]

Top(f) == f.frames[Len(f.frames)]

In(frame, state) == {n \in DOMAIN frame.slots : frame.slots[n].state = state}

LiveIn(frame) == In(frame, "live")

\* xo_tmatch_record_live counts the terminal nodes among those that became
\* live.
Allows(trie, S) ==
    Cardinality({n \in S : trie[n].terminal /\ ~trie[n].negated})

Denies(trie, S) ==
    Cardinality({n \in S : trie[n].terminal /\ trie[n].negated})

\* In an element's frame, or in the filter
Tallied(x, trie, S) ==
    [x EXCEPT !.allow = @ + Allows(trie, S), !.deny = @ + Denies(trie, S)]

\* Mutant: what became live at a field is not noted in the frame.
RecordInFilter(f, frame, S) ==
    Tallied([f EXCEPT !.frames[Len(f.frames)] = frame], f.trie, S)

\* The filter with "frame" on top, after the nodes S of it became live.
Record(f, frame, S) ==
    Tallied([f EXCEPT !.frames[Len(f.frames)] = Tallied(frame, f.trie, S)], f.trie, S)

-----------------------------------------------------------------------------
(* The status *)

\* xo_filter_change_status
StatusOf(f) ==
    IF f.paths = <<>> THEN "full"
    ELSE IF f.deny > 0 THEN "track"
    ELSE IF f.allow > 0 THEN "full"
    ELSE IF \A i \in DOMAIN f.paths : f.paths[i].negated THEN "full"
    ELSE IF In(Top(f), "pred") # {} THEN "pred"
    ELSE "track"

\* A function that returns the status it leaves behind.
Settle(f) == [f EXCEPT !.status = StatusOf(f), !.answer = StatusOf(f)]

-----------------------------------------------------------------------------
(* Open and close *)

Matches(node, tag) == node.tag \in {tag, AnyTag}

\* Mutant: a path is followed below any element with the right name.
CandidatesByName(f, tag) ==
    {n \in DOMAIN f.trie :
        /\ Matches(f.trie[n], tag)
        /\ IF f.trie[n].parent = 0
           THEN f.trie[n].absolute => Len(f.frames) = 1
           ELSE f.trie[n].parent \notin In(Top(f), "absent")}

\* A path is followed below the nodes that are live in the parent, and begun
\* anywhere unless it is absolute.
Candidates(f, tag) ==
    {n \in DOMAIN f.trie :
        /\ Matches(f.trie[n], tag)
        /\ IF f.trie[n].parent = 0
           THEN f.trie[n].absolute => Len(f.frames) = 1
           ELSE f.trie[n].parent \in LiveIn(Top(f))}

\* xo_tmatch_open's order: by the slot of the parent node, then newest node
\* first; nodes of the root last.
OpensBefore(f, m, n) ==
    LET slot(k) == IF f.trie[k].parent = 0 THEN FrameSlots + 1
                   ELSE Top(f).slots[f.trie[k].parent].place
    IN  slot(m) < slot(n) \/ (slot(m) = slot(n) /\ m > n)

\* The state of a slot whose predicates have this verdict.
Verdict(v) == [true |-> "live", false |-> "dead", missing |-> "pred"][v]

\* xo_tmatch_try_eager
EagerState(preds, fields, position) ==
    IF HasTrailingIndex(preds) THEN "pred"
    ELSE Verdict(StepVerdict(preds, fields, position, FALSE))

FilterOpen(f, tag, value) ==
    LET candidates == Candidates(f, tag)
        place == [n \in candidates |->
                    Cardinality({m \in candidates : OpensBefore(f, m, n)}) + 1]
        followed == {n \in candidates : place[n] \in 1..FrameSlots}
        counts == Advance(Top(f).counts, followed, place)
        fields == [o \in Operands |->
                    IF o = Dot /\ value \notin {NoValue, Empty} THEN value ELSE Unseen]
        slots == [n \in DOMAIN f.trie |->
                    IF n \in followed
                    THEN [NoSlot EXCEPT !.place = place[n], !.position = counts[n],
                            !.state = EagerState(f.trie[n].preds, fields, counts[n])]
                    ELSE NoSlot]
        frame == [EmptyFrame(f.trie) EXCEPT !.slots = slots, !.fields = fields]
        opened == [f EXCEPT !.frames =
                    Append([@ EXCEPT ![Len(f.frames)].counts = counts], frame)]
    IN  Settle(Record(opened, frame, LiveIn(frame)))

\* Mutant: an element that was rejected stays so.
FilterCloseKeepsDeny(f) ==
    Settle(IF Len(f.frames) = 1 THEN f
           ELSE [f EXCEPT !.frames = Front(@), !.allow = @ - Top(f).allow])

\* xo_tmatch_close; the filter may have fewer frames than the application has
\* elements, if it was compiled again.
FilterClose(f) ==
    Settle(IF Len(f.frames) = 1 THEN f
           ELSE [f EXCEPT !.frames = Front(@),
                          !.allow = @ - Top(f).allow,
                          !.deny = @ - Top(f).deny])

-----------------------------------------------------------------------------
(* Fields *)

\* xo_tmatch_slot_position: once the predicates before a trailing index hold,
\* the element is counted and has a place among those for which they hold.
Counting(f, asked, fields) ==
    {n \in asked :
        /\ ~Top(f).slots[n].counted
        /\ HasTrailingIndex(f.trie[n].preds)
        /\ LeadingVerdict(f.trie[n].preds, fields) = "true"}

SlotPosition(slot) == IF slot.counted THEN slot.qual ELSE slot.position

\* A slot after its predicates were evaluated: one that is missing waits on.
Decided(slot, preds, fields, forced) ==
    [slot EXCEPT !.state =
        Verdict(StepVerdict(preds, fields, SlotPosition(slot), forced))]

\* xo_tmatch_key: the slots whose predicates name the field look again.
Arrive(f, tag, value) ==
    LET frame == Top(f)
        asked == {n \in In(frame, "pred") : Needs(f.trie[n].preds, tag)}
        fields == [frame.fields EXCEPT ![tag] = value]
        counting == Counting(f, asked, fields)
        place == [n \in DOMAIN frame.slots |-> frame.slots[n].place]
        quals == Advance(f.frames[Len(f.frames) - 1].quals, counting, place)
        counted(n) == IF n \in counting
                      THEN [frame.slots[n] EXCEPT !.counted = TRUE, !.qual = quals[n]]
                      ELSE frame.slots[n]
        slots == [n \in DOMAIN frame.slots |->
                    IF n \in asked
                    THEN Decided(counted(n), f.trie[n].preds, fields, FALSE)
                    ELSE frame.slots[n]]
        grown == [frame EXCEPT !.slots = slots, !.fields = fields]
    IN  IF Len(f.frames) = 1 \/ asked = {} THEN f
        ELSE Record([f EXCEPT !.frames[Len(f.frames) - 1].quals = quals], grown,
                    LiveIn(grown) \ LiveIn(frame))

\* xo_filter_op_key returns the status from before the key was looked at.
FilterKey(f, tag, value) ==
    [Settle(Arrive(f, tag, value)) EXCEPT !.answer = f.status]

\* xo_filter_op_pred_field
FilterPredField(f, tag, value) ==
    IF f.status \in {"track", "pred"}
    THEN Settle(Arrive(f, tag, value))
    ELSE [f EXCEPT !.answer = f.status]

\* Mutant: what is undecided at the close is rejected.
ForceResolveDead(f) ==
    LET frame == Top(f)
        resolved == [frame EXCEPT !.slots = [n \in DOMAIN frame.slots |->
                        IF n \in In(frame, "pred")
                        THEN [frame.slots[n] EXCEPT !.state = "dead"]
                        ELSE frame.slots[n]]]
    IN  IF Len(f.frames) = 1 THEN f ELSE Settle(Record(f, resolved, {}))

\* xo_filter_force_resolve_pred: fields that never came are empty.
ForceResolve(f) ==
    LET frame == Top(f)
        slots == [n \in DOMAIN frame.slots |->
                    IF n \in In(frame, "pred")
                    THEN Decided(frame.slots[n], f.trie[n].preds, frame.fields, TRUE)
                    ELSE frame.slots[n]]
        resolved == [frame EXCEPT !.slots = slots]
    IN  IF Len(f.frames) = 1 THEN f
        ELSE Settle(Record(f, resolved, LiveIn(resolved) \ LiveIn(frame)))

\* xo_filter_op_close_instance says that an instance was wanted after it is
\* gone.
FilterCloseInstance(f) ==
    LET resolved == IF f.status = "pred" THEN ForceResolve(f) ELSE f
        closed == FilterClose(resolved)
    IN  IF resolved.status = "full" THEN [closed EXCEPT !.answer = "full"] ELSE closed

\* Mutant: the frames of the old trie stay.
FilterAddKeepsFrames(f, path) ==
    LET paths == Append(f.paths, path)
    IN  [f EXCEPT !.paths = paths, !.trie = Compile(paths)]

\* xo_filter_op_add_one: all expressions are compiled again, and matching
\* starts over at the root wherever the application is.  The status stays.
FilterAdd(f, path) ==
    LET paths == Append(f.paths, path)
        trie == Compile(paths)
    IN  [f EXCEPT !.paths = paths, !.trie = trie, !.frames = <<EmptyFrame(trie)>>,
                  !.allow = 0, !.deny = 0]

-----------------------------------------------------------------------------
(* The calls.  Without an expression the library does not call the matcher. *)

NoFilter ==
    [paths |-> <<>>, trie |-> <<>>, frames |-> <<EmptyFrame(<<>>)>>,
     allow |-> 0, deny |-> 0, status |-> "zero", answer |-> "zero"]

Init == filter = NoFilter

Active == filter.paths # <<>>

AddFilter(path) == filter' = FilterAdd(filter, path)

Open(tag, value) ==
    /\ Active
    /\ filter' = FilterOpen(filter, tag, value)

Key(tag, value) ==
    /\ Active
    /\ filter' = FilterKey(filter, tag, value)

PredField(tag, value) ==
    /\ Active
    /\ filter' = FilterPredField(filter, tag, value)

\* xo_filter_op_close_container and xo_filter_op_close_field
Close ==
    /\ Active
    /\ filter' = FilterClose(filter)

CloseInstance ==
    /\ Active
    /\ filter' = FilterCloseInstance(filter)

Next ==
    \/ \E path \in Path : AddFilter(path)
    \/ \E tag \in Tags, value \in Values \cup {NoValue} : Open(tag, value)
    \/ \E tag \in Tags, value \in Values : Key(tag, value) \/ PredField(tag, value)
    \/ Close
    \/ CloseInstance

Spec == Init /\ [][Next]_filter

-----------------------------------------------------------------------------
(* Properties *)

Slot ==
    [place : 0..FrameSlots, position : Nat, counted : BOOLEAN, qual : Nat,
     state : SlotStates]

Frames(trie) ==
    [slots : [DOMAIN trie -> Slot], fields : [Operands -> Values \cup {Unseen}],
     counts : [DOMAIN trie -> Nat], quals : [DOMAIN trie -> Nat],
     allow : Nat, deny : Nat]

\* Every frame describes each node of the trie that is in force, and the bottom
\* frame, which stands above the document, follows none: xo_filter_op_add_one
\* throws all frames away with the trie they were made for.
FilterTypeOK ==
    /\ filter.frames \in Seq(Frames(filter.trie))
    /\ filter.frames # <<>>
    /\ filter.frames[1].slots = EmptyFrame(filter.trie).slots
    /\ filter.status \in Statuses
    /\ filter.answer \in Statuses

\* A node is followed only below an element for which its own parent node
\* matched with all its predicates, and an absolute path begins at the root of
\* the document only.  The matcher looks at one step of a path at a time
\* (xo_tmatch_open) and the parent's frame must not change its mind afterwards.
PathUnbroken ==
    \A d \in 2..Len(filter.frames) :
        \A n \in DOMAIN filter.trie \ In(filter.frames[d], "absent") :
            LET node == filter.trie[n]
            IN  IF node.parent = 0
                THEN node.absolute => d = 2
                ELSE node.parent \in LiveIn(filter.frames[d - 1])

\* Where in the open elements an expression ends that selects, or rejects, what is
\* inside.
Ends(trie, frames, negated) ==
    {e \in (1..Len(frames)) \X DOMAIN trie :
        /\ e[2] \in LiveIn(frames[e[1]])
        /\ trie[e[2]].terminal
        /\ trie[e[2]].negated = negated}

\* The two counts that the status goes by are kept up while nodes become live, some
\* at the open, some at a field, some at the close, and what a frame has noted of
\* that is given back when it is popped (xo_filter.c:558, 787).  They are at
\* any time what the open elements hold: nothing is selected or rejected by what is
\* closed.
CountsGivenBack ==
    /\ filter.allow = Cardinality(Ends(filter.trie, filter.frames, FALSE))
    /\ filter.deny = Cardinality(Ends(filter.trie, filter.frames, TRUE))
=============================================================================
