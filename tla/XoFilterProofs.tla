-------------------------- MODULE XoFilterProofs --------------------------
(* The frames of XoFilter, for every set of expressions, names and values  *)
(* and every sequence of calls.                                            *)
EXTENDS XoFilter, SequenceTheorems, FiniteSetTheorems, WellFoundedInduction, TLAPS

-----------------------------------------------------------------------------
(* The inductive invariant, as a property of a filter rather than of the   *)
(* variable: a call applies several functions to it.  Of what a path       *)
(* compiles to no more is said than that it is a trie: it only has to be    *)
(* the one the frames describe.                                             *)

TrieNodes ==
    [parent : Nat, tag : Tags \cup {AnyTag}, preds : Seq(Predicate),
     terminal : BOOLEAN, negated : BOOLEAN, absolute : BOOLEAN]

\* A frame at depth d follows a node for a reason that is in the frame below.
Founded(trie, frames, d) ==
    \A n \in DOMAIN trie \ In(frames[d], "absent") :
        IF trie[n].parent = 0
        THEN trie[n].absolute => d = 2
        ELSE trie[n].parent \in LiveIn(frames[d - 1])

Whole(f) ==
    f = [paths |-> f.paths, trie |-> f.trie, frames |-> f.frames,
         allow |-> f.allow, deny |-> f.deny, status |-> f.status, answer |-> f.answer]

Framed(f) ==
    /\ f.frames \in Seq(Frames(f.trie))
    /\ f.frames # <<>>
    /\ f.frames[1].slots = EmptyFrame(f.trie).slots
    /\ \A d \in 2..Len(f.frames) : Founded(f.trie, f.frames, d)

Compiled(f) == f.paths \in Seq(Path) /\ f.trie \in Seq(TrieNodes)

\* A frame has noted of the counts what it holds itself, ...
Noted(trie, frame) ==
    /\ frame.allow = Allows(trie, LiveIn(frame))
    /\ frame.deny = Denies(trie, LiveIn(frame))

\* ... and the counts are those of all frames.
Balanced(f) ==
    /\ \A d \in 1..Len(f.frames) : Noted(f.trie, f.frames[d])
    /\ f.allow = Cardinality(Ends(f.trie, f.frames, FALSE))
    /\ f.deny = Cardinality(Ends(f.trie, f.frames, TRUE))

Sound(f) == Whole(f) /\ Compiled(f) /\ Framed(f) /\ Balanced(f)

Told(f) == f.status \in Statuses /\ f.answer \in Statuses

Inv == Sound(filter) /\ Told(filter)

LEMMA InvTypeOK == Inv => FilterTypeOK
BY DEF Inv, Sound, Framed, Told, FilterTypeOK

LEMMA InvBalanced == Inv => CountsGivenBack
BY DEF Inv, Sound, Balanced, CountsGivenBack

LEMMA InvUnbroken == Inv => PathUnbroken
BY DEF Inv, Sound, Framed, Founded, PathUnbroken

-----------------------------------------------------------------------------
(* Slots and frames *)

LEMMA StateTypes ==
    /\ \A v \in Verdicts : Verdict(v) \in {"pred", "live", "dead"}
    /\ \A preds, fields, position, forced :
            StepVerdict(preds, fields, position, forced) \in Verdicts
<1>1. \A v \in Verdicts : Verdict(v) \in {"pred", "live", "dead"}
  BY DEF Verdicts, Verdict
<1>2. \A preds, fields, position, forced :
            StepVerdict(preds, fields, position, forced) \in Verdicts
  BY DEF StepVerdict, Verdicts
<1> QED BY <1>1, <1>2

LEMMA EagerTypes ==
    \A preds, fields, position : EagerState(preds, fields, position) \in {"pred", "live", "dead"}
BY StateTypes DEF EagerState

LEMMA DecidedTypes ==
    ASSUME NEW slot \in Slot, NEW preds, NEW fields, NEW forced
    PROVE  /\ Decided(slot, preds, fields, forced) \in Slot
           /\ Decided(slot, preds, fields, forced).state # "absent"
<1> DEFINE v == StepVerdict(preds, fields, SlotPosition(slot), forced)
<1>1. Verdict(v) \in {"pred", "live", "dead"}
  BY StateTypes
<1>2. Decided(slot, preds, fields, forced) = [slot EXCEPT !.state = Verdict(v)]
  BY DEF Decided
<1> HIDE DEF v
<1> QED BY <1>1, <1>2 DEF Slot, SlotStates

LEMMA EmptyFrameTypes == \A trie : EmptyFrame(trie) \in Frames(trie)
BY SlotsAssumption DEF EmptyFrame, Frames, NoSlot, Slot, SlotStates

-----------------------------------------------------------------------------
(* Expressions compile to a trie, of however many steps                    *)

\* A nonempty set of numbers has a least one.
LEMMA LeastNat ==
    ASSUME NEW T, T \subseteq Nat, T # {}
    PROVE  \E x \in T : \A y \in T : x <= y
<1>1. PICK x \in T : \A y \in T : ~(<<y, x>> \in OpToRel(<, Nat))
  BY WFMin, NatLessThanWellFounded, Zenon
<1>2. ASSUME NEW y \in T PROVE x <= y
  <2>1. <<y, x>> \in Nat \X Nat
    OBVIOUS
  <2>2. ~(y < x)
    BY <1>1, <2>1, Zenon DEF OpToRel
  <2> QED BY <2>2
<1> QED BY <1>2

\* The turns of a loop exist: were there a number of turns for which they do not,
\* the least one would follow one for which they do.
LoopTurns(f, first, step, n) ==
    f = [i \in 0..n |-> IF i = 0 THEN first ELSE step[<<i, f[i - 1]>>]]

LEMMA LoopTurnsExist ==
    ASSUME NEW first, NEW step, NEW last \in Nat
    PROVE  \E f : LoopTurns(f, first, step, last)
<1> DEFINE T == {n \in Nat : ~\E f : LoopTurns(f, first, step, n)}
<1> SUFFICES ASSUME T # {} PROVE FALSE
  OBVIOUS
<1>1. PICK n \in T : \A m \in T : n <= m
  <2>1. T \subseteq Nat
    OBVIOUS
  <2> HIDE DEF T
  <2> QED BY <2>1, LeastNat
<1>2. CASE n = 0
  <2>1. LoopTurns([i \in 0..0 |-> first], first, step, 0)
    BY DEF LoopTurns
  <2> QED BY <1>1, <1>2, <2>1
<1>3. CASE n # 0
  <2>1. n \in Nat /\ n - 1 \in Nat /\ n - 1 \notin T
    BY <1>1, <1>3
  <2>2. PICK f : LoopTurns(f, first, step, n - 1)
    BY <2>1
  <2> DEFINE next == step[<<n, f[n - 1]>>]
             more == [i \in 0..n |-> IF i = n THEN next ELSE f[i]]
  <2>3. \A i \in 0..(n - 1) : f[i] = IF i = 0 THEN first ELSE step[<<i, f[i - 1]>>]
    BY <2>2, Zenon DEF LoopTurns
  <2>4. ASSUME NEW i \in 0..n
        PROVE  more[i] = IF i = 0 THEN first ELSE step[<<i, more[i - 1]>>]
    <3>1. CASE i = n
      <4>1. more[i] = step[<<i, f[i - 1]>>]
        BY <3>1
      <4>2. more[i - 1] = f[i - 1]
        BY <2>1, <3>1
      <4> HIDE DEF more
      <4> QED BY <1>3, <3>1, <4>1, <4>2
    <3>2. CASE i # n
      <4>1. i \in 0..(n - 1) /\ more[i] = f[i]
        BY <2>1, <3>2
      <4>2. i # 0 => more[i - 1] = f[i - 1]
        BY <2>1, <3>2
      <4> HIDE DEF more
      <4> QED BY <2>3, <4>1, <4>2
    <3> QED BY <3>1, <3>2
  <2>5. more = [i \in 0..n |-> more[i]]
    BY Zenon
  <2> HIDE DEF more
  <2>6. LoopTurns(more, first, step, n)
    BY <2>4, <2>5, Zenon DEF LoopTurns
  <2> QED BY <1>1, <2>6
<1> QED BY <1>2, <1>3

\* And they stay where each turn stays.
LEMMA LoopStays ==
    ASSUME NEW S, NEW f, NEW last \in Nat, f[0] \in S,
           \A i \in 1..last : f[i - 1] \in S => f[i] \in S
    PROVE  \A i \in 0..last : f[i] \in S
<1> DEFINE T == {i \in 0..last : f[i] \notin S}
<1> SUFFICES ASSUME T # {} PROVE FALSE
  OBVIOUS
<1>1. PICK i \in T : \A j \in T : i <= j
  <2>1. T \subseteq Nat
    OBVIOUS
  <2> HIDE DEF T
  <2> QED BY <2>1, LeastNat
<1>2. i \in 1..last /\ i - 1 \in 0..last
  BY <1>1
<1>3. i - 1 \notin T
  BY <1>1, <1>2
<1> QED BY <1>1, <1>2, <1>3

\* A trie in the making: the node that the path has come to is in it.
Builds == {b \in [trie : Seq(TrieNodes), at : Nat] : b.at \in 0..Len(b.trie)}

LEMMA InsertStepTypes ==
    ASSUME NEW b \in Builds, NEW step \in Step, NEW absolute \in BOOLEAN
    PROVE  /\ InsertStep(b, step, absolute) \in Builds
           /\ InsertStep(b, step, absolute).at # 0
<1> DEFINE n == ChildFor(b.trie, b.at, step.tag)
           node == Node(b.at, step.tag)
           grown == IF n \in DOMAIN b.trie THEN b.trie ELSE Append(b.trie, node)
           isAbsolute == grown[n].absolute \/ (b.at = 0 /\ absolute)
           preds == IF step.preds = <<>> THEN grown[n].preds ELSE step.preds
           met == [grown[n] EXCEPT !.absolute = isAbsolute, !.preds = preds]
           trie == [grown EXCEPT ![n] = met]
<1>1. b.trie \in Seq(TrieNodes) /\ b.at \in Nat /\ step.tag \in Tags \cup {AnyTag} /\ step.preds \in Seq(Predicate)
  BY DEF Builds, Step
<1>2. n \in DOMAIN b.trie \/ n = Len(b.trie) + 1
  BY <1>1 DEF ChildFor
<1>3. node \in TrieNodes
  BY <1>1 DEF Node, TrieNodes
<1>4. InsertStep(b, step, absolute) = [at |-> n, trie |-> trie]
  <2> DEFINE built == [grown EXCEPT ![n].absolute = @ \/ (b.at = 0 /\ absolute),
                                    ![n].preds = IF step.preds = <<>> THEN @ ELSE step.preds]
  <2>1. InsertStep(b, step, absolute) = [at |-> n, trie |-> built]
    BY DEF InsertStep
  <2> HIDE DEF n, grown
  <2>2. built = trie
    OBVIOUS
  <2> QED BY <2>1, <2>2
<1> HIDE DEF n, node
<1>5. grown \in Seq(TrieNodes) /\ n \in 1..Len(grown)
  BY <1>1, <1>2, <1>3
<1> HIDE DEF grown
<1>6. grown[n] \in TrieNodes
  BY <1>5
<1>7. isAbsolute \in BOOLEAN /\ preds \in Seq(Predicate)
  BY <1>1, <1>6 DEF TrieNodes
<1> HIDE DEF isAbsolute, preds
<1>8. met \in TrieNodes
  BY <1>6, <1>7 DEF TrieNodes
<1> HIDE DEF met
<1>9. trie \in Seq(TrieNodes) /\ Len(trie) = Len(grown)
  BY <1>5, <1>8
<1> HIDE DEF trie
<1> QED BY <1>4, <1>5, <1>9 DEF Builds

LEMMA InsertTypes ==
    ASSUME NEW trie \in Seq(TrieNodes), NEW path \in Path
    PROVE  Insert(trie, path) \in Seq(TrieNodes)
<1> DEFINE first == [trie |-> trie, at |-> 0]
           last == Len(path.steps)
           step == [x \in (1..last) \X Builds |-> InsertStep(x[2], path.steps[x[1]], path.absolute)]
           turns(f) == [i \in 0..last |->
                           IF i = 0 THEN first
                           ELSE InsertStep(f[i - 1], path.steps[i], path.absolute)]
           built == CHOOSE f : f = turns(f)
           end == built[last]
<1>1. /\ last \in Nat /\ last >= 1
      /\ \A i \in 1..last : path.steps[i] \in Step
      /\ path.absolute \in BOOLEAN /\ path.negated \in BOOLEAN
  <2>1. path.steps \in Seq(Step) /\ path.steps # <<>> /\ path.absolute \in BOOLEAN /\ path.negated \in BOOLEAN
    BY DEF Path
  <2>2. last \in Nat \ {0}
    BY <2>1, EmptySeq
  <2> QED BY <2>1, <2>2
<1>2. first \in Builds
  BY DEF Builds
<1>3. Insert(trie, path) = [end.trie EXCEPT ![end.at].terminal = TRUE,
                                            ![end.at].negated = @ \/ path.negated]
  BY DEF Insert
<1> HIDE DEF first, last
<1>4. \A x, i : x \in Builds /\ i \in 1..last =>
            /\ InsertStep(x, path.steps[i], path.absolute) \in Builds
            /\ InsertStep(x, path.steps[i], path.absolute).at # 0
            /\ step[<<i, x>>] = InsertStep(x, path.steps[i], path.absolute)
  BY <1>1, InsertStepTypes
<1>5. built = turns(built)
  <2>1. PICK f : LoopTurns(f, first, step, last)
    <3> HIDE DEF step
    <3> QED BY <1>1, LoopTurnsExist
  <2>2. f[0] = first /\ \A i \in 1..last : f[i] = step[<<i, f[i - 1]>>]
    <3>1. \A i \in 0..last : f[i] = IF i = 0 THEN first ELSE step[<<i, f[i - 1]>>]
      BY <2>1, Zenon DEF LoopTurns
    <3>2. 0 \in 0..last /\ \A i \in 1..last : i \in 0..last /\ i # 0
      BY <1>1
    <3> HIDE DEF step, turns
    <3> QED BY <3>1, <3>2, Zenon
  <2>3. ASSUME NEW i \in 1..last, f[i - 1] \in Builds
        PROVE  f[i] \in Builds
    <3> DEFINE x == f[i - 1]
    <3>1. f[i] = step[<<i, x>>] /\ x \in Builds
      BY <2>2, <2>3
    <3> HIDE DEF step, x
    <3> QED BY <3>1, <1>4
  <2>4. \A i \in 0..last : f[i] \in Builds
    BY <2>2, <2>3, <1>1, <1>2, LoopStays
  <2>5. \A i \in 1..last : f[i] = InsertStep(f[i - 1], path.steps[i], path.absolute)
    <3> SUFFICES ASSUME NEW i \in 1..last
                 PROVE  f[i] = InsertStep(f[i - 1], path.steps[i], path.absolute)
      OBVIOUS
    <3>1. f[i - 1] \in Builds
      BY <2>4, <1>1
    <3> HIDE DEF step
    <3> QED BY <3>1, <2>2, <1>4
  <2>6. f = [i \in 0..last |-> f[i]]
    BY <2>1, Zenon DEF LoopTurns
  <2>7. \A i \in 0..last : f[i] = IF i = 0 THEN first
                                   ELSE InsertStep(f[i - 1], path.steps[i], path.absolute)
    BY <2>2, <2>5, <1>1
  <2>8. f = turns(f)
    BY <2>6, <2>7, Zenon
  <2> HIDE DEF turns
  <2> QED BY <2>8
<1> HIDE DEF built, step
<1>6. \A i \in 0..last : built[i] = IF i = 0 THEN first
                                     ELSE InsertStep(built[i - 1], path.steps[i], path.absolute)
  BY <1>5, Zenon
<1> HIDE DEF turns
<1>7. built[0] = first /\ \A i \in 1..last : built[i] = InsertStep(built[i - 1], path.steps[i], path.absolute)
  BY <1>6, <1>1
<1>8. \A i \in 1..last : built[i - 1] \in Builds => built[i] \in Builds
  BY <1>7, <1>4
<1>9. \A i \in 0..last : built[i] \in Builds
  BY <1>7, <1>8, <1>1, <1>2, LoopStays
<1>10. end \in Builds /\ end.at # 0
  <2> DEFINE x == built[last - 1]
  <2>1. last \in 1..last /\ x \in Builds
    BY <1>1, <1>9
  <2>2. built[last] = InsertStep(x, path.steps[last], path.absolute)
    BY <2>1, <1>7
  <2> HIDE DEF x
  <2> QED BY <2>1, <2>2, <1>4
<1> HIDE DEF end
<1> DEFINE t == end.trie
           n == end.at
           isNegated == t[n].negated \/ path.negated
           last2 == [t[n] EXCEPT !.terminal = TRUE, !.negated = isNegated]
<1>11. t \in Seq(TrieNodes) /\ n \in 1..Len(t)
  BY <1>10 DEF Builds
<1>12. Insert(trie, path) = [t EXCEPT ![n] = last2]
  BY <1>3
<1> HIDE DEF t, n
<1>13. t[n] \in TrieNodes
  BY <1>11
<1>14. isNegated \in BOOLEAN
  BY <1>1, <1>13 DEF TrieNodes
<1> HIDE DEF isNegated
<1>15. last2 \in TrieNodes
  BY <1>13, <1>14 DEF TrieNodes
<1> HIDE DEF last2
<1> QED BY <1>11, <1>12, <1>15

LEMMA CompileTypes ==
    ASSUME NEW paths \in Seq(Path)
    PROVE  Compile(paths) \in Seq(TrieNodes)
<1> DEFINE last == Len(paths)
           Tries == Seq(TrieNodes)
           step == [x \in (1..last) \X Tries |-> Insert(x[2], paths[x[1]])]
           turns(f) == [i \in 0..last |-> IF i = 0 THEN <<>> ELSE Insert(f[i - 1], paths[i])]
           trie == CHOOSE f : f = turns(f)
<1>1. last \in Nat /\ \A i \in 1..last : paths[i] \in Path
  OBVIOUS
<1>2. <<>> \in Tries
  OBVIOUS
<1>3. Compile(paths) = trie[last]
  BY DEF Compile
<1> HIDE DEF last
<1>4. \A x, i : x \in Tries /\ i \in 1..last =>
            /\ Insert(x, paths[i]) \in Tries
            /\ step[<<i, x>>] = Insert(x, paths[i])
  BY <1>1, InsertTypes
<1> HIDE DEF Tries
<1>5. trie = turns(trie)
  <2>1. PICK f : LoopTurns(f, <<>>, step, last)
    <3> HIDE DEF step
    <3> QED BY <1>1, LoopTurnsExist
  <2>2. f[0] = <<>> /\ \A i \in 1..last : f[i] = step[<<i, f[i - 1]>>]
    <3>1. \A i \in 0..last : f[i] = IF i = 0 THEN <<>> ELSE step[<<i, f[i - 1]>>]
      BY <2>1, Zenon DEF LoopTurns
    <3>2. 0 \in 0..last /\ \A i \in 1..last : i \in 0..last /\ i # 0
      BY <1>1
    <3> HIDE DEF step, turns
    <3> QED BY <3>1, <3>2, Zenon
  <2>3. ASSUME NEW i \in 1..last, f[i - 1] \in Tries
        PROVE  f[i] \in Tries
    <3> DEFINE x == f[i - 1]
    <3>1. f[i] = step[<<i, x>>] /\ x \in Tries
      BY <2>2, <2>3
    <3> HIDE DEF step, x
    <3> QED BY <3>1, <1>4
  <2>4. \A i \in 0..last : f[i] \in Tries
    BY <2>2, <2>3, <1>1, <1>2, LoopStays
  <2>5. \A i \in 1..last : f[i] = Insert(f[i - 1], paths[i])
    <3> SUFFICES ASSUME NEW i \in 1..last
                 PROVE  f[i] = Insert(f[i - 1], paths[i])
      OBVIOUS
    <3>1. f[i - 1] \in Tries
      BY <2>4, <1>1
    <3> HIDE DEF step
    <3> QED BY <3>1, <2>2, <1>4
  <2>6. f = [i \in 0..last |-> f[i]]
    BY <2>1, Zenon DEF LoopTurns
  <2>7. \A i \in 0..last : f[i] = IF i = 0 THEN <<>> ELSE Insert(f[i - 1], paths[i])
    BY <2>2, <2>5, <1>1
  <2>8. f = turns(f)
    BY <2>6, <2>7, Zenon
  <2> HIDE DEF turns
  <2> QED BY <2>8
<1> HIDE DEF trie, step
<1>6. \A i \in 0..last : trie[i] = IF i = 0 THEN <<>> ELSE Insert(trie[i - 1], paths[i])
  BY <1>5, Zenon
<1> HIDE DEF turns
<1>7. trie[0] \in Tries /\ \A i \in 1..last : trie[i - 1] \in Tries => trie[i] \in Tries
  <2>1. trie[0] \in Tries
    BY <1>1, <1>2, <1>6
  <2>2. ASSUME NEW i \in 1..last, trie[i - 1] \in Tries
        PROVE  trie[i] \in Tries
    <3> DEFINE x == trie[i - 1]
    <3>1. trie[i] = Insert(x, paths[i]) /\ x \in Tries
      BY <1>1, <1>6, <2>2
    <3> HIDE DEF x
    <3> QED BY <3>1, <1>4
  <2> QED BY <2>1, <2>2
<1>8. \A i \in 0..last : trie[i] \in Tries
  BY <1>7, <1>1, LoopStays
<1> QED BY <1>1, <1>3, <1>8 DEF Tries

-----------------------------------------------------------------------------
(* What the frames hold: the ends of expressions in the open elements      *)

\* Of a set of nodes, those in which an expression ends: the counting of
\* xo_tmatch_record_live.
EndIn(trie, S, negated) ==
    {n \in S : trie[n].terminal /\ trie[n].negated = negated}

LEMMA TallyTypes ==
    ASSUME NEW trie \in Seq(TrieNodes), NEW S, S \subseteq DOMAIN trie
    PROVE  IsFiniteSet(S) /\ Allows(trie, S) \in Nat /\ Denies(trie, S) \in Nat
<1>1. IsFiniteSet(S)
  <2>1. IsFiniteSet(1..Len(trie)) /\ DOMAIN trie = 1..Len(trie)
    BY FS_Interval
  <2> QED BY <2>1, FS_Subset
<1> DEFINE A == {n \in S : trie[n].terminal /\ ~trie[n].negated}
           D == {n \in S : trie[n].terminal /\ trie[n].negated}
<1>2. A \in SUBSET S /\ D \in SUBSET S
  OBVIOUS
<1>3. Allows(trie, S) = Cardinality(A) /\ Denies(trie, S) = Cardinality(D)
  BY DEF Allows, Denies
<1> HIDE DEF A, D
<1> QED BY <1>1, <1>2, <1>3, FS_Subset, FS_CardinalityType

LEMMA TalliesAre ==
    ASSUME NEW trie \in Seq(TrieNodes), NEW S, S \subseteq DOMAIN trie
    PROVE  /\ Allows(trie, S) = Cardinality(EndIn(trie, S, FALSE))
           /\ Denies(trie, S) = Cardinality(EndIn(trie, S, TRUE))
           /\ IsFiniteSet(EndIn(trie, S, FALSE)) /\ IsFiniteSet(EndIn(trie, S, TRUE))
<1>1. \A n \in S : trie[n].negated \in BOOLEAN
  <2>1. \A n \in DOMAIN trie : trie[n] \in TrieNodes
    OBVIOUS
  <2> QED BY <2>1 DEF TrieNodes
<1>2. {n \in S : trie[n].terminal /\ ~trie[n].negated} = EndIn(trie, S, FALSE)
  BY <1>1 DEF EndIn
<1>3. {n \in S : trie[n].terminal /\ trie[n].negated} = EndIn(trie, S, TRUE)
  BY <1>1 DEF EndIn
<1>4. IsFiniteSet(S)
  BY TallyTypes
<1>5. EndIn(trie, S, FALSE) \in SUBSET S /\ EndIn(trie, S, TRUE) \in SUBSET S
  BY DEF EndIn
<1> QED BY <1>2, <1>3, <1>4, <1>5, FS_Subset DEF Allows, Denies

LEMMA DisjointUnion ==
    ASSUME NEW S, NEW T, IsFiniteSet(S), IsFiniteSet(T), S \cap T = {}
    PROVE  /\ IsFiniteSet(S \cup T)
           /\ Cardinality(S \cup T) = Cardinality(S) + Cardinality(T)
<1>1. Cardinality(S) \in Nat /\ Cardinality(T) \in Nat /\ Cardinality(S \cap T) = 0
  BY FS_CardinalityType, FS_EmptySet
<1>2. /\ IsFiniteSet(S \cup T)
      /\ Cardinality(S \cup T) = Cardinality(S) + Cardinality(T) - Cardinality(S \cap T)
  BY FS_Union
<1> QED BY <1>1, <1>2

\* What becomes live later is counted to what was live.
LEMMA TallyAdds ==
    ASSUME NEW trie \in Seq(TrieNodes), NEW S, NEW T, S \subseteq T, T \subseteq DOMAIN trie
    PROVE  /\ Allows(trie, T) = Allows(trie, S) + Allows(trie, T \ S)
           /\ Denies(trie, T) = Denies(trie, S) + Denies(trie, T \ S)
<1> DEFINE D == T \ S
<1>1. S \subseteq DOMAIN trie /\ D \subseteq DOMAIN trie
  OBVIOUS
<1>2. /\ EndIn(trie, T, FALSE) = EndIn(trie, S, FALSE) \cup EndIn(trie, D, FALSE)
      /\ EndIn(trie, S, FALSE) \cap EndIn(trie, D, FALSE) = {}
      /\ EndIn(trie, T, TRUE) = EndIn(trie, S, TRUE) \cup EndIn(trie, D, TRUE)
      /\ EndIn(trie, S, TRUE) \cap EndIn(trie, D, TRUE) = {}
  BY DEF EndIn
<1> HIDE DEF D
<1>3. /\ Allows(trie, S) = Cardinality(EndIn(trie, S, FALSE))
      /\ Allows(trie, T) = Cardinality(EndIn(trie, T, FALSE))
      /\ Allows(trie, D) = Cardinality(EndIn(trie, D, FALSE))
      /\ Denies(trie, S) = Cardinality(EndIn(trie, S, TRUE))
      /\ Denies(trie, T) = Cardinality(EndIn(trie, T, TRUE))
      /\ Denies(trie, D) = Cardinality(EndIn(trie, D, TRUE))
      /\ IsFiniteSet(EndIn(trie, S, FALSE)) /\ IsFiniteSet(EndIn(trie, D, FALSE))
      /\ IsFiniteSet(EndIn(trie, S, TRUE)) /\ IsFiniteSet(EndIn(trie, D, TRUE))
  BY <1>1, TalliesAre
<1>4. /\ Cardinality(EndIn(trie, T, FALSE)) =
            Cardinality(EndIn(trie, S, FALSE)) + Cardinality(EndIn(trie, D, FALSE))
      /\ Cardinality(EndIn(trie, T, TRUE)) =
            Cardinality(EndIn(trie, S, TRUE)) + Cardinality(EndIn(trie, D, TRUE))
  BY <1>2, <1>3, DisjointUnion
<1> QED BY <1>3, <1>4 DEF D

LEMMA LayerSize ==
    ASSUME NEW d, NEW S, IsFiniteSet(S)
    PROVE  /\ IsFiniteSet({d} \X S)
           /\ Cardinality({d} \X S) = Cardinality(S)
<1>1. IsFiniteSet({d}) /\ Cardinality({d}) = 1
  BY FS_Singleton
<1>2. IsFiniteSet({d} \X S) /\ Cardinality({d} \X S) = Cardinality({d}) * Cardinality(S)
  BY <1>1, FS_Product
<1>3. Cardinality(S) \in Nat
  BY FS_CardinalityType
<1> QED BY <1>1, <1>2, <1>3

LEMMA EndsTypes ==
    ASSUME NEW trie \in Seq(TrieNodes), NEW frames \in Seq(Frames(trie)), NEW negated
    PROVE  /\ IsFiniteSet(Ends(trie, frames, negated))
           /\ Cardinality(Ends(trie, frames, negated)) \in Nat
<1> DEFINE All == (1..Len(frames)) \X DOMAIN trie
<1>1. IsFiniteSet(1..Len(frames)) /\ IsFiniteSet(1..Len(trie)) /\ DOMAIN trie = 1..Len(trie)
  BY FS_Interval
<1>2. IsFiniteSet(All)
  BY <1>1, FS_Product
<1>3. Ends(trie, frames, negated) \in SUBSET All
  BY DEF Ends
<1> HIDE DEF All
<1> QED BY <1>2, <1>3, FS_Subset, FS_CardinalityType

\* The frames "frames" are one more than "rest".
FrameAbove(trie, frames, rest) ==
    /\ frames \in Seq(Frames(trie)) /\ rest \in Seq(Frames(trie))
    /\ Len(frames) = Len(rest) + 1
    /\ \A d \in 1..Len(rest) :
        /\ frames[d].slots = rest[d].slots
        /\ frames[d].allow = rest[d].allow
        /\ frames[d].deny = rest[d].deny

LEMMA EndsAbove ==
    ASSUME NEW trie \in Seq(TrieNodes), NEW frames, NEW rest, FrameAbove(trie, frames, rest),
           NEW negated \in BOOLEAN
    PROVE  LET live == LiveIn(frames[Len(frames)])
           IN  /\ live \subseteq DOMAIN trie
               /\ IsFiniteSet(EndIn(trie, live, negated)) =>
                    Cardinality(Ends(trie, frames, negated)) =
                        Cardinality(Ends(trie, rest, negated))
                            + Cardinality(EndIn(trie, live, negated))
<1> DEFINE k == Len(frames)
           live == LiveIn(frames[k])
           E == EndIn(trie, live, negated)
<1>1. /\ frames \in Seq(Frames(trie)) /\ rest \in Seq(Frames(trie))
      /\ k = Len(rest) + 1 /\ Len(rest) \in Nat /\ k \in Nat
  BY DEF FrameAbove
<1>2. live \subseteq DOMAIN trie
  <2>1. frames[k] \in Frames(trie)
    BY <1>1
  <2> HIDE DEF k
  <2> QED BY <2>1 DEF LiveIn, In, Frames
<1>3. \A d \in 1..Len(rest) : LiveIn(frames[d]) = LiveIn(rest[d])
  BY DEF FrameAbove, LiveIn, In
<1>4. \A d : d \in 1..k <=> (d \in 1..Len(rest) \/ d = k)
  BY <1>1
<1>5. Ends(trie, frames, negated) = Ends(trie, rest, negated) \cup ({k} \X E)
  <2>1. ASSUME NEW e \in Ends(trie, frames, negated)
        PROVE  e \in Ends(trie, rest, negated) \cup ({k} \X E)
    <3>1. /\ e \in (1..k) \X DOMAIN trie /\ e[2] \in LiveIn(frames[e[1]])
          /\ trie[e[2]].terminal /\ trie[e[2]].negated = negated
      BY DEF Ends
    <3>2. PICK d \in 1..k, n \in DOMAIN trie : e = <<d, n>>
      BY <3>1
    <3>3. CASE d = k
      BY <3>1, <3>2, <3>3 DEF EndIn
    <3>4. CASE d # k
      <4>1. d \in 1..Len(rest)
        BY <3>4, <1>4
      <4>2. <<d, n>> \in Ends(trie, rest, negated)
        BY <4>1, <3>1, <3>2, <1>3 DEF Ends
      <4> QED BY <4>2, <3>2
    <3> QED BY <3>3, <3>4
  <2>2. ASSUME NEW e \in Ends(trie, rest, negated)
        PROVE  e \in Ends(trie, frames, negated)
    <3>1. /\ e \in (1..Len(rest)) \X DOMAIN trie /\ e[2] \in LiveIn(rest[e[1]])
          /\ trie[e[2]].terminal /\ trie[e[2]].negated = negated
      BY DEF Ends
    <3>2. PICK d \in 1..Len(rest), n \in DOMAIN trie : e = <<d, n>>
      BY <3>1
    <3>3. d \in 1..Len(frames) /\ n \in LiveIn(frames[d])
      BY <3>1, <3>2, <1>3, <1>4
    <3> QED BY <3>1, <3>2, <3>3 DEF Ends
  <2>3. ASSUME NEW n \in E
        PROVE  <<k, n>> \in Ends(trie, frames, negated)
    <3>1. k \in 1..Len(frames) /\ n \in DOMAIN trie
      BY <1>2, <1>4 DEF EndIn
    <3> HIDE DEF k
    <3> QED BY <3>1 DEF Ends, EndIn, k
  <2> QED BY <2>1, <2>2, <2>3
<1>6. Ends(trie, rest, negated) \cap ({k} \X E) = {}
  <2>1. k \notin 1..Len(rest)
    BY <1>1
  <2> HIDE DEF k, E
  <2> QED BY <2>1 DEF Ends
<1>7. ASSUME IsFiniteSet(E)
      PROVE  Cardinality(Ends(trie, frames, negated)) =
                Cardinality(Ends(trie, rest, negated)) + Cardinality(E)
  <2>1. IsFiniteSet({k} \X E) /\ Cardinality({k} \X E) = Cardinality(E)
    BY <1>7, LayerSize
  <2>2. IsFiniteSet(Ends(trie, rest, negated))
    BY <1>1, EndsTypes
  <2> HIDE DEF k, E
  <2> QED BY <2>1, <2>2, <1>5, <1>6, DisjointUnion
<1> QED BY <1>2, <1>7

LEMMA CountAbove ==
    ASSUME NEW trie \in Seq(TrieNodes), NEW frames, NEW rest, FrameAbove(trie, frames, rest)
    PROVE  LET live == LiveIn(frames[Len(frames)])
           IN  /\ Cardinality(Ends(trie, frames, FALSE)) =
                    Cardinality(Ends(trie, rest, FALSE)) + Allows(trie, live)
               /\ Cardinality(Ends(trie, frames, TRUE)) =
                    Cardinality(Ends(trie, rest, TRUE)) + Denies(trie, live)
               /\ Cardinality(Ends(trie, rest, FALSE)) \in Nat
               /\ Cardinality(Ends(trie, rest, TRUE)) \in Nat
               /\ Allows(trie, live) \in Nat /\ Denies(trie, live) \in Nat
<1> DEFINE live == LiveIn(frames[Len(frames)])
<1>1. live \subseteq DOMAIN trie
  BY EndsAbove
<1>2. /\ Allows(trie, live) = Cardinality(EndIn(trie, live, FALSE))
      /\ Denies(trie, live) = Cardinality(EndIn(trie, live, TRUE))
      /\ IsFiniteSet(EndIn(trie, live, FALSE)) /\ IsFiniteSet(EndIn(trie, live, TRUE))
  BY <1>1, TalliesAre
<1>3. Allows(trie, live) \in Nat /\ Denies(trie, live) \in Nat
  BY <1>1, TallyTypes
<1>4. /\ Cardinality(Ends(trie, rest, FALSE)) \in Nat
      /\ Cardinality(Ends(trie, rest, TRUE)) \in Nat
  BY EndsTypes DEF FrameAbove
<1>5. /\ Cardinality(Ends(trie, frames, FALSE)) =
            Cardinality(Ends(trie, rest, FALSE)) + Cardinality(EndIn(trie, live, FALSE))
      /\ Cardinality(Ends(trie, frames, TRUE)) =
            Cardinality(Ends(trie, rest, TRUE)) + Cardinality(EndIn(trie, live, TRUE))
  BY <1>2, EndsAbove
<1> HIDE DEF live
<1> QED BY <1>2, <1>3, <1>4, <1>5 DEF live

\* One more element, whose frame has noted what it holds, ...
LEMMA BalancedAbove ==
    ASSUME NEW f, NEW g, g.trie \in Seq(TrieNodes), f.trie = g.trie, Balanced(f),
           FrameAbove(g.trie, g.frames, f.frames), Noted(g.trie, Top(g)),
           g.allow = f.allow + Top(g).allow, g.deny = f.deny + Top(g).deny
    PROVE  Balanced(g)
<1> DEFINE k == Len(g.frames)
<1>1. \A d \in 1..k : d = k \/ d \in 1..Len(f.frames)
  BY DEF FrameAbove
<1>2. ASSUME NEW d \in 1..k
      PROVE  Noted(g.trie, g.frames[d])
  <2>1. CASE d = k
    BY <2>1 DEF Top
  <2>2. CASE d \in 1..Len(f.frames)
    <3>1. Noted(f.trie, f.frames[d])
      BY <2>2 DEF Balanced
    <3> QED BY <2>2, <3>1 DEF FrameAbove, Noted, LiveIn, In
  <2> QED BY <1>1, <2>1, <2>2
<1>3. /\ g.allow = Cardinality(Ends(g.trie, g.frames, FALSE))
      /\ g.deny = Cardinality(Ends(g.trie, g.frames, TRUE))
  <2> DEFINE live == LiveIn(Top(g))
  <2>1. /\ Cardinality(Ends(g.trie, g.frames, FALSE)) =
                Cardinality(Ends(g.trie, f.frames, FALSE)) + Allows(g.trie, live)
        /\ Cardinality(Ends(g.trie, g.frames, TRUE)) =
                Cardinality(Ends(g.trie, f.frames, TRUE)) + Denies(g.trie, live)
        /\ Cardinality(Ends(g.trie, f.frames, FALSE)) \in Nat
        /\ Cardinality(Ends(g.trie, f.frames, TRUE)) \in Nat
        /\ Allows(g.trie, live) \in Nat /\ Denies(g.trie, live) \in Nat
    BY CountAbove DEF Top
  <2>2. Top(g).allow = Allows(g.trie, live) /\ Top(g).deny = Denies(g.trie, live)
    BY DEF Noted
  <2>3. /\ f.allow = Cardinality(Ends(g.trie, f.frames, FALSE))
        /\ f.deny = Cardinality(Ends(g.trie, f.frames, TRUE))
    BY DEF Balanced
  <2> HIDE DEF live
  <2> QED BY <2>1, <2>2, <2>3
<1> QED BY <1>2, <1>3 DEF Balanced

\* ... and one less.
LEMMA BalancedBelow ==
    ASSUME NEW f, NEW g, g.trie \in Seq(TrieNodes), f.trie = g.trie, Balanced(g),
           FrameAbove(g.trie, g.frames, f.frames),
           f.allow = g.allow - Top(g).allow, f.deny = g.deny - Top(g).deny
    PROVE  Balanced(f)
<1> DEFINE k == Len(g.frames)
<1>1. k \in 1..k /\ \A d \in 1..Len(f.frames) : d \in 1..k
  BY DEF FrameAbove
<1>2. ASSUME NEW d \in 1..Len(f.frames)
      PROVE  Noted(f.trie, f.frames[d])
  <2>1. Noted(g.trie, g.frames[d])
    BY <1>1 DEF Balanced
  <2> QED BY <2>1 DEF FrameAbove, Noted, LiveIn, In
<1>3. Noted(g.trie, Top(g))
  BY <1>1 DEF Balanced, Top
<1>4. /\ f.allow = Cardinality(Ends(f.trie, f.frames, FALSE))
      /\ f.deny = Cardinality(Ends(f.trie, f.frames, TRUE))
  <2> DEFINE live == LiveIn(Top(g))
  <2>1. /\ Cardinality(Ends(g.trie, g.frames, FALSE)) =
                Cardinality(Ends(g.trie, f.frames, FALSE)) + Allows(g.trie, live)
        /\ Cardinality(Ends(g.trie, g.frames, TRUE)) =
                Cardinality(Ends(g.trie, f.frames, TRUE)) + Denies(g.trie, live)
        /\ Cardinality(Ends(g.trie, f.frames, FALSE)) \in Nat
        /\ Cardinality(Ends(g.trie, f.frames, TRUE)) \in Nat
        /\ Allows(g.trie, live) \in Nat /\ Denies(g.trie, live) \in Nat
    BY CountAbove DEF Top
  <2>2. Top(g).allow = Allows(g.trie, live) /\ Top(g).deny = Denies(g.trie, live)
    BY <1>3 DEF Noted
  <2>3. /\ g.allow = Cardinality(Ends(g.trie, g.frames, FALSE))
        /\ g.deny = Cardinality(Ends(g.trie, g.frames, TRUE))
    BY DEF Balanced
  <2> HIDE DEF live
  <2>4. \A r, a \in Nat : (r + a) - a = r
    OBVIOUS
  <2>5. /\ f.allow = (Cardinality(Ends(g.trie, f.frames, FALSE)) + Allows(g.trie, live))
                        - Allows(g.trie, live)
        /\ f.deny = (Cardinality(Ends(g.trie, f.frames, TRUE)) + Denies(g.trie, live))
                        - Denies(g.trie, live)
    BY <2>1, <2>2, <2>3, Zenon
  <2> QED BY <2>1, <2>4, <2>5, Zenon
<1> QED BY <1>2, <1>4 DEF Balanced

\* What else is in a frame does not matter.
LEMMA BalancedSame ==
    ASSUME NEW f, NEW g, g.trie = f.trie, g.allow = f.allow, g.deny = f.deny,
           Balanced(f), Len(g.frames) = Len(f.frames),
           \A d \in 1..Len(f.frames) :
                /\ g.frames[d].slots = f.frames[d].slots
                /\ g.frames[d].allow = f.frames[d].allow
                /\ g.frames[d].deny = f.frames[d].deny
    PROVE  Balanced(g)
<1>1. \A d \in 1..Len(f.frames) : LiveIn(g.frames[d]) = LiveIn(f.frames[d])
  BY DEF LiveIn, In
<1>2. \A negated : Ends(g.trie, g.frames, negated) = Ends(f.trie, f.frames, negated)
  BY <1>1 DEF Ends
<1>3. \A d \in 1..Len(f.frames) : Noted(g.trie, g.frames[d])
  BY <1>1 DEF Balanced, Noted
<1> QED BY <1>2, <1>3 DEF Balanced

\* Nothing is live above the document.
LEMMA BalancedBottom ==
    ASSUME NEW f, f.trie \in Seq(TrieNodes), f.frames = <<EmptyFrame(f.trie)>>,
           f.allow = 0, f.deny = 0
    PROVE  Balanced(f)
<1> DEFINE bottom == EmptyFrame(f.trie)
<1>1. LiveIn(bottom) = {} /\ bottom.allow = 0 /\ bottom.deny = 0
  BY DEF LiveIn, In, EmptyFrame, NoSlot
<1> HIDE DEF bottom
<1>2. Len(f.frames) = 1 /\ f.frames[1] = bottom
  BY DEF bottom
<1>3. \A d \in 1..Len(f.frames) : f.frames[d] = bottom
  BY <1>2
<1>4. \A negated : Ends(f.trie, f.frames, negated) = {}
  BY <1>1, <1>3 DEF Ends
<1>5. Noted(f.trie, bottom)
  <2>1. EndIn(f.trie, {}, FALSE) = {} /\ EndIn(f.trie, {}, TRUE) = {}
    BY DEF EndIn
  <2>2. Allows(f.trie, {}) = 0 /\ Denies(f.trie, {}) = 0
    BY <2>1, TalliesAre, FS_EmptySet
  <2> QED BY <2>2, <1>1 DEF Noted
<1> QED BY <1>3, <1>4, <1>5, FS_EmptySet DEF Balanced

-----------------------------------------------------------------------------
(* What the functions are made of *)

LEMMA Depth ==
    ASSUME NEW f, Sound(f)
    PROVE  /\ f.frames \in Seq(Frames(f.trie))
           /\ Len(f.frames) \in Nat /\ Len(f.frames) >= 1
<1>1. f.frames \in Seq(Frames(f.trie)) /\ f.frames # <<>>
  BY DEF Sound, Framed
<1>2. Len(f.frames) \in Nat \ {0}
  BY <1>1, EmptySeq
<1> QED BY <1>1, <1>2

LEMMA Deeper ==
    ASSUME NEW f, Sound(f), Len(f.frames) # 1
    PROVE  /\ f.frames \in Seq(Frames(f.trie))
           /\ Len(f.frames) \in Nat /\ Len(f.frames) > 1
<1> DEFINE k == Len(f.frames)
<1>1. k \in Nat /\ k >= 1 /\ k # 1 /\ f.frames \in Seq(Frames(f.trie))
  BY Depth
<1> HIDE DEF k
<1>2. k > 1
  BY <1>1
<1> QED BY <1>1, <1>2 DEF k

LEMMA SettleSound ==
    ASSUME NEW f, Sound(f)
    PROVE  Sound(Settle(f)) /\ Told(Settle(f)) /\ Settle(f).frames = f.frames
<1>1. StatusOf(f) \in Statuses
  BY DEF StatusOf, Statuses
<1>2. Settle(f) = [f EXCEPT !.status = StatusOf(f), !.answer = StatusOf(f)]
  BY DEF Settle
<1> QED BY <1>1, <1>2 DEF Sound, Whole, Compiled, Framed, Balanced, Told

\* What Record makes of a filter, and Tallied of the frame that it puts on top
Recorded(f, frame, S, noted, g) ==
    /\ noted \in Frames(f.trie) /\ noted.slots = frame.slots
    /\ noted.allow = frame.allow + Allows(f.trie, S)
    /\ noted.deny = frame.deny + Denies(f.trie, S)
    /\ Whole(g) /\ g.trie = f.trie /\ g.paths = f.paths
    /\ g.allow = f.allow + Allows(f.trie, S)
    /\ g.deny = f.deny + Denies(f.trie, S)
    /\ g.frames = [f.frames EXCEPT ![Len(f.frames)] = noted]

LEMMA RecordParts ==
    ASSUME NEW f, Whole(f), f.trie \in Seq(TrieNodes),
           NEW frame, frame \in Frames(f.trie), NEW S, S \subseteq DOMAIN f.trie
    PROVE  Recorded(f, frame, S, Tallied(frame, f.trie, S), Record(f, frame, S))
<1> DEFINE a == Allows(f.trie, S)
           b == Denies(f.trie, S)
           noted == Tallied(frame, f.trie, S)
           g == Record(f, frame, S)
<1>1. a \in Nat /\ b \in Nat
  BY TallyTypes
<1>2. noted = [frame EXCEPT !.allow = @ + a, !.deny = @ + b]
  BY DEF Tallied
<1>3. g = [[f EXCEPT !.frames[Len(f.frames)] = noted] EXCEPT !.allow = @ + a, !.deny = @ + b]
  BY DEF Record, Tallied
<1> HIDE DEF a, b
<1>4. /\ noted \in Frames(f.trie) /\ noted.slots = frame.slots
      /\ noted.allow = frame.allow + a /\ noted.deny = frame.deny + b
  <2> DEFINE na == frame.allow + a
             nb == frame.deny + b
  <2>1. noted = [frame EXCEPT !.allow = na, !.deny = nb]
    BY <1>2
  <2>2. na \in Nat /\ nb \in Nat
    BY <1>1 DEF Frames
  <2> HIDE DEF na, nb, noted
  <2>3. noted \in Frames(f.trie) /\ noted.slots = frame.slots /\ noted.allow = na /\ noted.deny = nb
    BY <2>1, <2>2 DEF Frames
  <2> QED BY <2>3 DEF na, nb
<1> HIDE DEF noted
<1>5. /\ Whole(g) /\ g.trie = f.trie /\ g.paths = f.paths
      /\ g.allow = f.allow + a /\ g.deny = f.deny + b
      /\ g.frames = [f.frames EXCEPT ![Len(f.frames)] = noted]
  BY <1>3 DEF Whole
<1> HIDE DEF g
<1> QED BY <1>4, <1>5 DEF a, b, noted, g, Recorded

LEMMA AnswerSound ==
    ASSUME NEW f, Sound(f), Told(f), NEW answer \in Statuses
    PROVE  /\ Sound([f EXCEPT !.answer = answer])
           /\ Told([f EXCEPT !.answer = answer])
<1> DEFINE g == [f EXCEPT !.answer = answer]
<1>1. /\ Whole(g) /\ g.paths = f.paths /\ g.trie = f.trie /\ g.frames = f.frames
      /\ g.allow = f.allow /\ g.deny = f.deny /\ g.status = f.status /\ g.answer = answer
  BY DEF Sound, Whole
<1> HIDE DEF g
<1>2. Sound(g)
  BY <1>1 DEF Sound, Compiled, Framed, Balanced
<1> QED BY <1>1, <1>2 DEF Told, g

\* The frame on top may change its mind as it likes: nothing stands on it.
LEMMA RecordSound ==
    ASSUME NEW f, Sound(f), Len(f.frames) # 1,
           NEW frame \in Frames(f.trie),
           In(frame, "absent") = In(Top(f), "absent"),
           frame.allow = Top(f).allow, frame.deny = Top(f).deny,
           LiveIn(Top(f)) \subseteq LiveIn(frame)
    PROVE  Sound(Record(f, frame, LiveIn(frame) \ LiveIn(Top(f))))
<1> DEFINE S == LiveIn(frame) \ LiveIn(Top(f))
           g == Record(f, frame, S)
           k == Len(f.frames)
           noted == Tallied(frame, f.trie, S)
<1>1. /\ noted \in Frames(f.trie) /\ noted.slots = frame.slots
      /\ noted.allow = frame.allow + Allows(f.trie, S)
      /\ noted.deny = frame.deny + Denies(f.trie, S)
      /\ Whole(g) /\ g.trie = f.trie /\ g.paths = f.paths
      /\ g.allow = f.allow + Allows(f.trie, S) /\ g.deny = f.deny + Denies(f.trie, S)
      /\ g.frames = [f.frames EXCEPT ![k] = noted]
      /\ S \subseteq DOMAIN f.trie /\ LiveIn(frame) \subseteq DOMAIN f.trie
  <2>1. Whole(f) /\ f.trie \in Seq(TrieNodes)
    BY DEF Sound, Compiled
  <2>2. LiveIn(frame) \subseteq DOMAIN f.trie
    BY DEF LiveIn, In, Frames
  <2>3. S \subseteq DOMAIN f.trie
    BY <2>2
  <2> HIDE DEF S
  <2>4. Recorded(f, frame, S, noted, g)
    BY <2>1, <2>3, RecordParts
  <2> HIDE DEF g, noted
  <2> QED BY <2>2, <2>3, <2>4 DEF Recorded
<1> HIDE DEF S
<1>2. k \in Nat /\ k > 1 /\ f.frames \in Seq(Frames(f.trie))
  BY Deeper
<1>3. In(noted, "absent") = In(frame, "absent")
  BY <1>1 DEF In
<1> HIDE DEF g, noted
<1>4. /\ g.frames \in Seq(Frames(f.trie)) /\ Len(g.frames) = k
      /\ g.frames[k] = noted
      /\ \A d \in 1..(k - 1) : g.frames[d] = f.frames[d]
  BY <1>1, <1>2
<1>5. ASSUME NEW d \in 2..k
      PROVE  Founded(g.trie, g.frames, d)
  <2>1. Founded(f.trie, f.frames, d)
    BY DEF Sound, Framed
  <2>2. In(g.frames[d], "absent") = In(f.frames[d], "absent")
    BY <1>2, <1>3, <1>4 DEF Top
  <2>3. g.frames[d - 1] = f.frames[d - 1]
    BY <1>2, <1>4
  <2> QED BY <2>1, <2>2, <2>3, <1>1 DEF Founded
<1>6. g.frames # <<>> /\ g.frames[1].slots = EmptyFrame(g.trie).slots
  <2>1. g.frames # <<>> /\ g.frames[1] = f.frames[1]
    BY <1>2, <1>4
  <2> QED BY <2>1, <1>1 DEF Sound, Framed
<1>7. Framed(g)
  BY <1>1, <1>4, <1>5, <1>6 DEF Framed
<1>8. Balanced(g)
  <2> DEFINE p == [f EXCEPT !.frames = SubSeq(f.frames, 1, k - 1),
                            !.allow = f.allow - Top(f).allow, !.deny = f.deny - Top(f).deny]
             live == LiveIn(Top(f))
             a == Allows(f.trie, S)
             b == Denies(f.trie, S)
  <2>1. /\ p.trie = f.trie /\ p.frames = SubSeq(f.frames, 1, k - 1)
        /\ p.allow = f.allow - Top(f).allow /\ p.deny = f.deny - Top(f).deny
    BY DEF Sound, Whole
  <2> HIDE DEF p, k
  <2>2. /\ p.frames \in Seq(Frames(f.trie)) /\ Len(p.frames) = k - 1
        /\ \A d \in 1..(k - 1) : p.frames[d] = f.frames[d]
    BY <2>1, <1>2 DEF k
  <2>3. FrameAbove(f.trie, f.frames, p.frames) /\ FrameAbove(g.trie, g.frames, p.frames)
    BY <2>2, <1>1, <1>2, <1>4 DEF FrameAbove, k
  <2>4. Balanced(p)
    BY <2>1, <2>3, BalancedBelow DEF Sound, Compiled
  <2>5. Top(g) = noted
    BY <1>4 DEF Top
  <2>6. /\ Top(f).allow = Allows(f.trie, live) /\ Top(f).deny = Denies(f.trie, live)
        /\ f.allow \in Nat /\ f.deny \in Nat
    <3>1. k \in 1..k
      BY <1>2
    <3>2. Noted(f.trie, Top(f))
      BY <3>1 DEF Sound, Balanced, Top, k
    <3>3. f.allow \in Nat /\ f.deny \in Nat
      BY <1>2, EndsTypes DEF Sound, Balanced, Compiled
    <3> QED BY <3>2, <3>3 DEF Noted
  <2>7. /\ Allows(f.trie, LiveIn(frame)) = Allows(f.trie, live) + a
        /\ Denies(f.trie, LiveIn(frame)) = Denies(f.trie, live) + b
    BY <1>1, TallyAdds DEF Sound, Compiled, S
  <2>8. LiveIn(noted) = LiveIn(frame)
    BY <1>1 DEF LiveIn, In
  <2>9. Noted(g.trie, Top(g))
    BY <2>5, <2>6, <2>7, <2>8, <1>1 DEF Noted
  <2>10. a \in Nat /\ b \in Nat /\ frame.allow \in Nat /\ frame.deny \in Nat
    BY <1>1, TallyTypes DEF Sound, Compiled, Frames
  <2>11. \A x, y, z \in Nat : x + z = (x - y) + (y + z)
    OBVIOUS
  <2>12. g.allow = p.allow + Top(g).allow /\ g.deny = p.deny + Top(g).deny
    <3>1. /\ g.allow = f.allow + a /\ g.deny = f.deny + b
          /\ p.allow + Top(g).allow = (f.allow - frame.allow) + (frame.allow + a)
          /\ p.deny + Top(g).deny = (f.deny - frame.deny) + (frame.deny + b)
      BY <2>1, <2>5, <1>1, Zenon
    <3> HIDE DEF a, b
    <3> QED BY <3>1, <2>6, <2>10, <2>11, Zenon
  <2>13. g.trie \in Seq(TrieNodes) /\ p.trie = g.trie
    BY <2>1, <1>1 DEF Sound, Compiled
  <2> QED BY <2>3, <2>4, <2>9, <2>12, <2>13, BalancedAbove
<1> QED BY <1>1, <1>7, <1>8 DEF Sound, Compiled, g, S

\* Counters are nobody's reason.
LEMMA CountedSound ==
    ASSUME NEW f, Sound(f), NEW k \in 1..Len(f.frames), NEW frame \in Frames(f.trie),
           frame.slots = f.frames[k].slots,
           frame.allow = f.frames[k].allow, frame.deny = f.frames[k].deny
    PROVE  Sound([f EXCEPT !.frames[k] = frame])
<1> DEFINE g == [f EXCEPT !.frames[k] = frame]
<1>1. f.frames \in Seq(Frames(f.trie)) /\ Len(f.frames) \in Nat
  BY Depth
<1>2. /\ Whole(g) /\ g.trie = f.trie /\ g.paths = f.paths
      /\ g.allow = f.allow /\ g.deny = f.deny
      /\ g.frames = [f.frames EXCEPT ![k] = frame]
  BY DEF Sound, Whole
<1> HIDE DEF g
<1>3. /\ g.frames \in Seq(Frames(f.trie)) /\ Len(g.frames) = Len(f.frames)
      /\ \A d \in 1..Len(f.frames) :
            /\ g.frames[d].slots = f.frames[d].slots
            /\ g.frames[d].allow = f.frames[d].allow
            /\ g.frames[d].deny = f.frames[d].deny
  BY <1>1, <1>2
<1>4. ASSUME NEW d \in 2..Len(f.frames)
      PROVE  Founded(g.trie, g.frames, d)
  <2>1. Founded(f.trie, f.frames, d) /\ d \in 1..Len(f.frames) /\ d - 1 \in 1..Len(f.frames)
    BY <1>1 DEF Sound, Framed
  <2>2. In(g.frames[d], "absent") = In(f.frames[d], "absent")
    BY <2>1, <1>3 DEF In
  <2>3. LiveIn(g.frames[d - 1]) = LiveIn(f.frames[d - 1])
    BY <2>1, <1>3 DEF In, LiveIn
  <2> QED BY <2>1, <2>2, <2>3, <1>2 DEF Founded
<1>5. g.frames # <<>> /\ g.frames[1].slots = f.frames[1].slots
  BY <1>1, <1>3
<1>6. Balanced(g)
  BY <1>2, <1>3, BalancedSame DEF Sound
<1> QED BY <1>2, <1>3, <1>4, <1>5, <1>6 DEF Sound, Compiled, Framed, g

\* A frame that has noted nothing yet
Blank(frame) == frame.allow = 0 /\ frame.deny = 0

LEMMA PushSound ==
    ASSUME NEW f, Sound(f), NEW frame \in Frames(f.trie), NEW tag,
           DOMAIN f.trie \ In(frame, "absent") \subseteq Candidates(f, tag),
           Blank(frame)
    PROVE  Sound(Record([f EXCEPT !.frames = Append(@, frame)], frame, LiveIn(frame)))
<1> DEFINE opened == [f EXCEPT !.frames = Append(@, frame)]
           S == LiveIn(frame)
           noted == Tallied(frame, f.trie, S)
           g == Record(opened, frame, S)
           k == Len(f.frames)
<1>1. f.frames \in Seq(Frames(f.trie)) /\ k \in Nat /\ k >= 1
  BY Depth
<1>2. /\ noted \in Frames(f.trie) /\ noted.slots = frame.slots
      /\ noted.allow = Allows(f.trie, S) /\ noted.deny = Denies(f.trie, S)
      /\ Whole(g) /\ g.trie = f.trie /\ g.paths = f.paths
      /\ g.allow = f.allow + Allows(f.trie, S) /\ g.deny = f.deny + Denies(f.trie, S)
      /\ g.frames = [Append(f.frames, frame) EXCEPT ![k + 1] = noted]
      /\ S \subseteq DOMAIN f.trie
  <2>1. /\ Whole(opened) /\ opened.trie = f.trie /\ opened.paths = f.paths
        /\ opened.frames = Append(f.frames, frame)
        /\ opened.allow = f.allow /\ opened.deny = f.deny
    BY DEF Sound, Whole
  <2>2. f.trie \in Seq(TrieNodes)
    BY DEF Sound, Compiled
  <2>3. S \subseteq DOMAIN f.trie
    BY DEF LiveIn, In, Frames
  <2>4. Len(opened.frames) = k + 1
    BY <2>1, <1>1
  <2>5. Allows(f.trie, S) \in Nat /\ Denies(f.trie, S) \in Nat
    BY <2>2, <2>3, TallyTypes
  <2> HIDE DEF opened, S
  <2>6. Whole(opened) /\ opened.trie \in Seq(TrieNodes) /\ frame \in Frames(opened.trie)
        /\ S \subseteq DOMAIN opened.trie
    BY <2>1, <2>2, <2>3
  <2>7. Recorded(opened, frame, S, Tallied(frame, opened.trie, S), g)
    BY <2>6, RecordParts
  <2>8. Recorded(opened, frame, S, noted, g)
    BY <2>1, <2>7
  <2> HIDE DEF g, noted, k
  <2> QED BY <2>1, <2>3, <2>4, <2>5, <2>8 DEF Recorded, Blank
<1> HIDE DEF g, noted, opened
<1>3. /\ g.frames \in Seq(Frames(f.trie)) /\ Len(g.frames) = k + 1
      /\ g.frames[k + 1] = noted
      /\ \A d \in 1..k : g.frames[d] = f.frames[d]
  <2> DEFINE more == Append(f.frames, frame)
  <2>1. /\ more \in Seq(Frames(f.trie)) /\ Len(more) = k + 1
        /\ \A d \in 1..k : more[d] = f.frames[d]
    BY <1>1
  <2>2. g.frames = [more EXCEPT ![k + 1] = noted]
    BY <1>2
  <2> HIDE DEF more, k
  <2> QED BY <2>1, <2>2, <1>1, <1>2
<1>4. ASSUME NEW d \in 2..(k + 1)
      PROVE  Founded(g.trie, g.frames, d)
  <2>1. CASE d = k + 1
    <3>1. g.frames[d - 1] = Top(f)
      BY <2>1, <1>1, <1>3 DEF Top
    <3>2. ASSUME NEW n \in DOMAIN f.trie \ In(frame, "absent")
          PROVE  IF f.trie[n].parent = 0
                 THEN f.trie[n].absolute => d = 2
                 ELSE f.trie[n].parent \in LiveIn(g.frames[d - 1])
      <4>1. n \in Candidates(f, tag)
        OBVIOUS
      <4>2. k = 1 => d = 2
        BY <2>1, <1>1
      <4> HIDE DEF k
      <4> QED BY <4>1, <4>2, <3>1 DEF Candidates, k
    <3>3. In(noted, "absent") = In(frame, "absent")
      BY <1>2 DEF In
    <3> QED BY <3>2, <3>3, <2>1, <1>2, <1>3 DEF Founded
  <2>2. CASE d # k + 1
    <3>1. d \in 2..k /\ d - 1 \in 1..k /\ d \in 1..k
      BY <2>2, <1>1
    <3>2. g.frames[d] = f.frames[d] /\ g.frames[d - 1] = f.frames[d - 1]
      BY <3>1, <1>3
    <3> QED BY <3>1, <3>2, <1>2 DEF Sound, Framed, Founded
  <2> QED BY <2>1, <2>2
<1>5. g.frames # <<>> /\ g.frames[1] = f.frames[1]
  BY <1>1, <1>3
<1>6. Balanced(g)
  <2>1. FrameAbove(g.trie, g.frames, f.frames)
    BY <1>1, <1>2, <1>3 DEF FrameAbove
  <2>2. Top(g) = noted /\ LiveIn(noted) = S
    BY <1>2, <1>3 DEF Top, LiveIn, In
  <2>3. Noted(g.trie, Top(g))
    BY <2>2, <1>2 DEF Noted
  <2>4. g.allow = f.allow + Top(g).allow /\ g.deny = f.deny + Top(g).deny
    BY <2>2, <1>2
  <2>5. g.trie \in Seq(TrieNodes) /\ f.trie = g.trie /\ Balanced(f)
    BY <1>2 DEF Sound, Compiled
  <2> QED BY <2>1, <2>3, <2>4, <2>5, BalancedAbove
<1> QED BY <1>2, <1>3, <1>4, <1>5, <1>6 DEF Sound, Compiled, Framed, g, opened

LEMMA PopSound ==
    ASSUME NEW f, Sound(f), Len(f.frames) # 1
    PROVE  Sound([f EXCEPT !.frames = Front(@), !.allow = @ - Top(f).allow,
                           !.deny = @ - Top(f).deny])
<1> DEFINE g == [f EXCEPT !.frames = Front(@), !.allow = @ - Top(f).allow,
                          !.deny = @ - Top(f).deny]
           k == Len(f.frames)
<1>1. f.frames \in Seq(Frames(f.trie)) /\ k \in Nat /\ k > 1
  BY Deeper
<1>2. /\ Whole(g) /\ g.trie = f.trie /\ g.paths = f.paths
      /\ g.frames = SubSeq(f.frames, 1, k - 1)
      /\ g.allow = f.allow - Top(f).allow /\ g.deny = f.deny - Top(f).deny
  <2>1. Front(f.frames) = SubSeq(f.frames, 1, k - 1)
    BY DEF Front
  <2> DEFINE rest == Front(f.frames)
             allow == f.allow - Top(f).allow
             deny == f.deny - Top(f).deny
  <2>2. g = [f EXCEPT !.frames = rest, !.allow = allow, !.deny = deny]
    OBVIOUS
  <2> HIDE DEF g, rest, allow, deny
  <2>3. /\ Whole(g) /\ g.trie = f.trie /\ g.paths = f.paths /\ g.frames = rest
        /\ g.allow = allow /\ g.deny = deny
    BY <2>2 DEF Sound, Whole
  <2> QED BY <2>1, <2>3 DEF rest, allow, deny
<1> HIDE DEF g
<1>3. /\ g.frames \in Seq(Frames(f.trie)) /\ Len(g.frames) = k - 1
      /\ \A d \in 1..(k - 1) : g.frames[d] = f.frames[d]
  BY <1>1, <1>2
<1>4. ASSUME NEW d \in 2..(k - 1)
      PROVE  Founded(g.trie, g.frames, d)
  <2>1. d \in 2..k /\ d \in 1..(k - 1) /\ d - 1 \in 1..(k - 1)
    BY <1>1
  <2>2. g.frames[d] = f.frames[d] /\ g.frames[d - 1] = f.frames[d - 1]
    BY <2>1, <1>3
  <2> QED BY <2>1, <2>2, <1>2 DEF Sound, Framed, Founded
<1>5. g.frames # <<>> /\ g.frames[1] = f.frames[1]
  BY <1>1, <1>3
<1>6. Balanced(g)
  <2>1. FrameAbove(f.trie, f.frames, g.frames)
    BY <1>1, <1>3 DEF FrameAbove
  <2> QED BY <2>1, <1>2, BalancedBelow DEF Sound, Compiled
<1> QED BY <1>2, <1>3, <1>4, <1>5, <1>6 DEF Sound, Compiled, Framed, g

-----------------------------------------------------------------------------
(* The functions of the matcher *)

\* Looking at slots again leaves none of them absent, nor makes one so.
LEMMA RevisedSlots ==
    ASSUME NEW trie, NEW frame \in Frames(trie), NEW new \in Frames(trie),
           \A n \in DOMAIN trie : \/ new.slots[n] = frame.slots[n]
                                  \/ /\ frame.slots[n].state = "pred"
                                     /\ new.slots[n].state # "absent"
    PROVE  /\ In(new, "absent") = In(frame, "absent")
           /\ LiveIn(frame) \subseteq LiveIn(new)
<1>1. DOMAIN frame.slots = DOMAIN trie /\ DOMAIN new.slots = DOMAIN trie
  BY DEF Frames
<1>2. \A n \in DOMAIN trie :
            /\ new.slots[n].state = "absent" <=> frame.slots[n].state = "absent"
            /\ frame.slots[n].state = "live" => new.slots[n].state = "live"
  OBVIOUS
<1> QED BY <1>1, <1>2 DEF LiveIn, In

LEMMA TopFrame ==
    ASSUME NEW f, Sound(f)
    PROVE  Top(f) \in Frames(f.trie) /\ Len(f.frames) \in 1..Len(f.frames)
<1>1. \A s \in Seq(Frames(f.trie)) : Len(s) >= 1 => s[Len(s)] \in Frames(f.trie)
  OBVIOUS
<1> QED BY <1>1, Depth DEF Top

LEMMA AdvanceTypes ==
    ASSUME NEW nodes, NEW table \in [nodes -> Nat], NEW S, NEW place
    PROVE  Advance(table, S, place) \in [nodes -> Nat]
BY DEF Advance

LEMMA CloseSound ==
    ASSUME NEW f, Sound(f)
    PROVE  Sound(FilterClose(f)) /\ Told(FilterClose(f))
<1> DEFINE popped == [f EXCEPT !.frames = Front(@),
                               !.allow = @ - Top(f).allow,
                               !.deny = @ - Top(f).deny]
           g == IF Len(f.frames) = 1 THEN f ELSE popped
<1>1. FilterClose(f) = Settle(g)
  BY DEF FilterClose
<1>2. Sound(g)
  BY PopSound
<1> HIDE DEF g
<1> QED BY <1>1, <1>2, SettleSound

LEMMA ForceResolveSound ==
    ASSUME NEW f, Sound(f), Told(f)
    PROVE  Sound(ForceResolve(f)) /\ Told(ForceResolve(f))
<1> DEFINE frame == Top(f)
           slots == [n \in DOMAIN frame.slots |->
                        IF n \in In(frame, "pred")
                        THEN Decided(frame.slots[n], f.trie[n].preds, frame.fields, TRUE)
                        ELSE frame.slots[n]]
           resolved == [frame EXCEPT !.slots = slots]
           g == Record(f, resolved, LiveIn(resolved) \ LiveIn(frame))
<1>1. ForceResolve(f) = IF Len(f.frames) = 1 THEN f ELSE Settle(g)
  BY DEF ForceResolve
<1>2. /\ frame \in Frames(f.trie) /\ DOMAIN frame.slots = DOMAIN f.trie
      /\ frame.slots \in [DOMAIN f.trie -> Slot]
      /\ frame.fields \in [Operands -> Values \cup {Unseen}]
  BY TopFrame DEF Frames
<1> HIDE DEF frame
<1>3. slots \in [DOMAIN f.trie -> Slot]
  BY <1>2, DecidedTypes
<1>4. \A n \in DOMAIN f.trie : \/ slots[n] = frame.slots[n]
                               \/ /\ frame.slots[n].state = "pred"
                                  /\ slots[n].state # "absent"
  <2> SUFFICES ASSUME NEW n \in DOMAIN f.trie, slots[n] # frame.slots[n]
               PROVE  frame.slots[n].state = "pred" /\ slots[n].state # "absent"
    OBVIOUS
  <2>1. /\ n \in In(frame, "pred") /\ frame.slots[n] \in Slot
        /\ slots[n] = Decided(frame.slots[n], f.trie[n].preds, frame.fields, TRUE)
    BY <1>2
  <2> HIDE DEF slots
  <2> QED BY <2>1, DecidedTypes DEF In
<1> HIDE DEF slots
<1>5. /\ resolved \in Frames(f.trie) /\ resolved.slots = slots
      /\ resolved.allow = frame.allow /\ resolved.deny = frame.deny
  BY <1>2, <1>3 DEF Frames
<1> HIDE DEF resolved
<1>6. /\ In(resolved, "absent") = In(Top(f), "absent")
      /\ LiveIn(Top(f)) \subseteq LiveIn(resolved)
  BY <1>2, <1>4, <1>5, RevisedSlots DEF frame
<1>7. ASSUME Len(f.frames) # 1
      PROVE  Sound(g)
  BY <1>5, <1>6, <1>7, RecordSound DEF frame
<1> HIDE DEF g
<1> QED BY <1>1, <1>7, SettleSound

LEMMA ArriveSound ==
    ASSUME NEW f, Sound(f), NEW tag \in Tags, NEW value \in Values
    PROVE  /\ Sound(Arrive(f, tag, value))
           /\ Arrive(f, tag, value).status = f.status
<1> DEFINE k == Len(f.frames)
           frame == Top(f)
           asked == {n \in In(frame, "pred") : Needs(f.trie[n].preds, tag)}
           fields == [frame.fields EXCEPT ![tag] = value]
           counting == Counting(f, asked, fields)
           place == [n \in DOMAIN frame.slots |-> frame.slots[n].place]
           quals == Advance(f.frames[k - 1].quals, counting, place)
           counted(n) == IF n \in counting
                         THEN [frame.slots[n] EXCEPT !.counted = TRUE, !.qual = quals[n]]
                         ELSE frame.slots[n]
           slots == [n \in DOMAIN frame.slots |->
                        IF n \in asked
                        THEN Decided(counted(n), f.trie[n].preds, fields, FALSE)
                        ELSE frame.slots[n]]
           grown == [frame EXCEPT !.slots = slots, !.fields = fields]
           base == [f EXCEPT !.frames[k - 1].quals = quals]
           g == Record(base, grown, LiveIn(grown) \ LiveIn(frame))
<1>1. Arrive(f, tag, value) = IF k = 1 \/ asked = {} THEN f ELSE g
  BY DEF Arrive
<1> SUFFICES ASSUME k # 1
             PROVE  Sound(g) /\ g.status = f.status
  BY <1>1
<1>2. /\ frame \in Frames(f.trie) /\ DOMAIN frame.slots = DOMAIN f.trie
      /\ frame.slots \in [DOMAIN f.trie -> Slot]
      /\ frame.fields \in [Operands -> Values \cup {Unseen}]
  BY TopFrame DEF Frames
<1>3. /\ f.frames \in Seq(Frames(f.trie)) /\ k \in Nat /\ k > 1
      /\ k - 1 \in 1..k /\ f.frames[k - 1] \in Frames(f.trie)
  <2>1. f.frames \in Seq(Frames(f.trie)) /\ k \in Nat /\ k > 1
    BY Deeper
  <2> HIDE DEF k
  <2>2. k - 1 \in 1..k
    BY <2>1
  <2> QED BY <2>1, <2>2 DEF k
<1>4. quals \in [DOMAIN f.trie -> Nat]
  <2>1. f.frames[k - 1].quals \in [DOMAIN f.trie -> Nat]
    BY <1>3 DEF Frames
  <2> HIDE DEF counting, place
  <2> QED BY <2>1, AdvanceTypes
<1> HIDE DEF quals
<1>5. Sound(base) /\ base.trie = f.trie /\ base.status = f.status
      /\ Len(base.frames) = k /\ Top(base) = frame
  <2> DEFINE below == [f.frames[k - 1] EXCEPT !.quals = quals]
  <2>1. /\ below \in Frames(f.trie) /\ below.slots = f.frames[k - 1].slots
        /\ below.allow = f.frames[k - 1].allow /\ below.deny = f.frames[k - 1].deny
    BY <1>3, <1>4 DEF Frames
  <2>2. base = [f EXCEPT !.frames[k - 1] = below]
    OBVIOUS
  <2> HIDE DEF below, base
  <2>3. Sound(base)
    BY <1>3, <2>1, <2>2, CountedSound
  <2>4. /\ base.trie = f.trie /\ base.status = f.status
        /\ base.frames = [f.frames EXCEPT ![k - 1] = below]
    BY <2>2 DEF Sound, Whole
  <2>5. Len(base.frames) = k /\ base.frames[k] = f.frames[k]
    BY <2>4, <1>3
  <2> QED BY <2>3, <2>4, <2>5 DEF Top, frame
<1> HIDE DEF base, frame, counting
<1>6. fields \in [Operands -> Values \cup {Unseen}]
  BY <1>2 DEF Operands
<1> HIDE DEF fields
<1>7. \A n \in DOMAIN f.trie : counted(n) \in Slot
  BY <1>2, <1>4 DEF Slot
<1> HIDE DEF counted
<1>8. slots \in [DOMAIN f.trie -> Slot]
  BY <1>2, <1>7, DecidedTypes
<1>9. \A n \in DOMAIN f.trie : \/ slots[n] = frame.slots[n]
                               \/ /\ frame.slots[n].state = "pred"
                                  /\ slots[n].state # "absent"
  <2> SUFFICES ASSUME NEW n \in DOMAIN f.trie, slots[n] # frame.slots[n]
               PROVE  frame.slots[n].state = "pred" /\ slots[n].state # "absent"
    OBVIOUS
  <2>1. /\ n \in In(frame, "pred") /\ counted(n) \in Slot
        /\ slots[n] = Decided(counted(n), f.trie[n].preds, fields, FALSE)
    BY <1>2, <1>7
  <2> HIDE DEF slots
  <2> QED BY <2>1, DecidedTypes DEF In
<1> HIDE DEF slots
<1>10. /\ grown \in Frames(f.trie) /\ grown.slots = slots
       /\ grown.allow = frame.allow /\ grown.deny = frame.deny
  BY <1>2, <1>6, <1>8 DEF Frames
<1> HIDE DEF grown
<1>11. /\ In(grown, "absent") = In(frame, "absent")
       /\ LiveIn(frame) \subseteq LiveIn(grown)
  BY <1>2, <1>9, <1>10, RevisedSlots
<1>12. Sound(g)
  BY <1>5, <1>10, <1>11, RecordSound
<1>13. g.status = f.status
  <2>1. Sound(base) /\ Top(base) = frame
    BY <1>5
  <2> QED BY <1>5 DEF Record, Tallied, Sound, Whole
<1> QED BY <1>12, <1>13

LEMMA KeySound ==
    ASSUME NEW f, Sound(f), Told(f), NEW tag \in Tags, NEW value \in Values
    PROVE  Sound(FilterKey(f, tag, value)) /\ Told(FilterKey(f, tag, value))
<1> DEFINE g == Settle(Arrive(f, tag, value))
<1>1. Sound(g) /\ Told(g)
  BY ArriveSound, SettleSound
<1>2. FilterKey(f, tag, value) = [g EXCEPT !.answer = f.status]
  BY DEF FilterKey
<1>3. f.status \in Statuses
  BY DEF Told
<1> HIDE DEF g
<1> QED BY <1>1, <1>2, <1>3, AnswerSound

LEMMA PredFieldSound ==
    ASSUME NEW f, Sound(f), Told(f), NEW tag \in Tags, NEW value \in Values
    PROVE  Sound(FilterPredField(f, tag, value)) /\ Told(FilterPredField(f, tag, value))
<1> DEFINE g == Settle(Arrive(f, tag, value))
           h == [f EXCEPT !.answer = f.status]
<1>1. Sound(g) /\ Told(g)
  BY ArriveSound, SettleSound
<1>2. Sound(h) /\ Told(h)
  BY AnswerSound DEF Told
<1>3. FilterPredField(f, tag, value) = IF f.status \in {"track", "pred"} THEN g ELSE h
  BY DEF FilterPredField
<1> HIDE DEF g, h
<1> QED BY <1>1, <1>2, <1>3

LEMMA CloseInstanceSound ==
    ASSUME NEW f, Sound(f), Told(f)
    PROVE  Sound(FilterCloseInstance(f)) /\ Told(FilterCloseInstance(f))
<1> DEFINE resolved == IF f.status = "pred" THEN ForceResolve(f) ELSE f
           g == FilterClose(resolved)
           h == [g EXCEPT !.answer = "full"]
<1>1. Sound(resolved)
  BY ForceResolveSound
<1> HIDE DEF resolved
<1>2. Sound(g) /\ Told(g)
  BY <1>1, CloseSound
<1>3. FilterCloseInstance(f) = IF resolved.status = "full" THEN h ELSE g
  BY DEF FilterCloseInstance, resolved
<1>4. Sound(h) /\ Told(h)
  BY <1>2, AnswerSound DEF Statuses
<1> HIDE DEF g
<1> HIDE DEF h
<1> QED BY <1>2, <1>3, <1>4

LEMMA OpenSound ==
    ASSUME NEW f, Sound(f), NEW tag, NEW value \in Values \cup {NoValue}
    PROVE  Sound(FilterOpen(f, tag, value)) /\ Told(FilterOpen(f, tag, value))
<1> DEFINE k == Len(f.frames)
           candidates == Candidates(f, tag)
           place == [n \in candidates |->
                        Cardinality({m \in candidates : OpensBefore(f, m, n)}) + 1]
           followed == {n \in candidates : place[n] \in 1..FrameSlots}
           counts == Advance(Top(f).counts, followed, place)
           fields == [o \in Operands |->
                        IF o = Dot /\ value \notin {NoValue, Empty} THEN value ELSE Unseen]
           slots == [n \in DOMAIN f.trie |->
                        IF n \in followed
                        THEN [NoSlot EXCEPT !.place = place[n], !.position = counts[n],
                                !.state = EagerState(f.trie[n].preds, fields, counts[n])]
                        ELSE NoSlot]
           frame == [EmptyFrame(f.trie) EXCEPT !.slots = slots, !.fields = fields]
           base == [f EXCEPT !.frames[k].counts = counts]
           opened == [f EXCEPT !.frames = Append([@ EXCEPT ![k].counts = counts], frame)]
           g == Record(opened, frame, LiveIn(frame))
<1>1. FilterOpen(f, tag, value) = Settle(g)
  BY DEF FilterOpen
<1>2. /\ f.frames \in Seq(Frames(f.trie)) /\ k \in Nat /\ k >= 1
      /\ k \in 1..k /\ f.frames[k] \in Frames(f.trie) /\ Top(f) = f.frames[k]
  BY Depth, TopFrame DEF Top
<1>3. counts \in [DOMAIN f.trie -> Nat]
  <2>1. Top(f).counts \in [DOMAIN f.trie -> Nat]
    BY <1>2 DEF Frames
  <2> HIDE DEF followed, place
  <2> QED BY <2>1, AdvanceTypes
<1> HIDE DEF counts
<1>4. /\ Sound(base) /\ base.trie = f.trie /\ Len(base.frames) = k
      /\ base.frames = [f.frames EXCEPT ![k].counts = counts]
      /\ Candidates(base, tag) = candidates
  <2> DEFINE below == [f.frames[k] EXCEPT !.counts = counts]
  <2>1. /\ below \in Frames(f.trie) /\ below.slots = f.frames[k].slots
        /\ below.allow = f.frames[k].allow /\ below.deny = f.frames[k].deny
    BY <1>2, <1>3 DEF Frames
  <2>2. base = [f EXCEPT !.frames[k] = below]
    OBVIOUS
  <2>3. base.frames = [f.frames EXCEPT ![k].counts = counts]
    BY DEF Sound, Whole
  <2> HIDE DEF below, base, k
  <2>4. Sound(base)
    BY <1>2, <2>1, <2>2, CountedSound DEF k
  <2>5. base.trie = f.trie /\ base.frames = [f.frames EXCEPT ![k] = below]
    BY <2>2 DEF Sound, Whole
  <2>6. Len(base.frames) = k /\ base.frames[k] = below
    BY <2>5, <1>2 DEF k
  <2>7. Candidates(base, tag) = Candidates(f, tag)
    <3>1. LiveIn(Top(base)) = LiveIn(Top(f))
      BY <2>1, <2>6, <1>2 DEF LiveIn, In, Top
    <3>2. Len(base.frames) = Len(f.frames)
      BY <2>6 DEF k
    <3> QED BY <3>1, <3>2, <2>5 DEF Candidates
  <2> QED BY <2>3, <2>4, <2>5, <2>6, <2>7 DEF k
<1>5. opened = [base EXCEPT !.frames = Append(@, frame)]
  <2>1. f = [paths |-> f.paths, trie |-> f.trie, frames |-> f.frames, allow |-> f.allow,
             deny |-> f.deny, status |-> f.status, answer |-> f.answer]
    BY DEF Sound, Whole
  <2> HIDE DEF frame, k
  <2> QED BY <2>1, <1>4 DEF k
<1>6. fields \in [Operands -> Values \cup {Unseen}]
  OBVIOUS
<1> HIDE DEF fields
<1>7. ASSUME NEW n \in DOMAIN f.trie
      PROVE  /\ slots[n] \in Slot
             /\ slots[n].state # "absent" => n \in candidates
  <2>1. NoSlot \in Slot /\ NoSlot.state = "absent"
    BY SlotsAssumption DEF NoSlot, Slot, SlotStates
  <2>2. EagerState(f.trie[n].preds, fields, counts[n]) \in SlotStates /\ counts[n] \in Nat
    BY <1>3, EagerTypes DEF SlotStates
  <2>3. CASE n \in followed
    <3>1. place[n] \in 0..FrameSlots /\ n \in candidates
      BY <2>3, SlotsAssumption
    <3> HIDE DEF place, followed, candidates
    <3>2. slots[n] = [NoSlot EXCEPT !.place = place[n], !.position = counts[n],
                        !.state = EagerState(f.trie[n].preds, fields, counts[n])]
      BY <2>3
    <3> HIDE DEF slots
    <3>3. slots[n] \in Slot
      BY <2>1, <2>2, <3>1, <3>2 DEF Slot
    <3> QED BY <3>1, <3>3
  <2>4. CASE n \notin followed
    <3> HIDE DEF followed, candidates
    <3>1. slots[n] = NoSlot
      BY <2>4
    <3> QED BY <2>1, <3>1
  <2> QED BY <2>3, <2>4
<1>8. slots \in [DOMAIN f.trie -> Slot]
  <2>1. slots = [n \in DOMAIN f.trie |-> slots[n]]
    OBVIOUS
  <2> HIDE DEF slots
  <2> QED BY <2>1, <1>7
<1> HIDE DEF slots
<1>9. /\ frame \in Frames(f.trie) /\ frame.slots = slots
      /\ Blank(frame)
  <2>1. EmptyFrame(f.trie) \in Frames(f.trie)
    BY EmptyFrameTypes
  <2>2. EmptyFrame(f.trie).allow = 0 /\ EmptyFrame(f.trie).deny = 0
    BY DEF EmptyFrame
  <2> QED BY <2>1, <2>2, <1>6, <1>8 DEF Frames, Blank
<1> HIDE DEF frame
<1>10. DOMAIN base.trie \ In(frame, "absent") \subseteq Candidates(base, tag)
  BY <1>4, <1>7, <1>8, <1>9 DEF In
<1> HIDE DEF base, candidates, opened
<1>11. Sound(g)
  <2>1. frame \in Frames(base.trie)
    BY <1>4, <1>9
  <2> QED BY <2>1, <1>4, <1>5, <1>9, <1>10, PushSound
<1> QED BY <1>1, <1>11, SettleSound

\* Where no element is open yet there is nothing to be right about.
LEMMA FreshSound ==
    ASSUME NEW f, Whole(f), Compiled(f), f.frames = <<EmptyFrame(f.trie)>>,
           f.allow = 0, f.deny = 0
    PROVE  Sound(f)
<1>1. f.frames \in Seq(Frames(f.trie)) /\ Len(f.frames) = 1 /\ f.frames # <<>>
  BY EmptyFrameTypes
<1>2. f.frames[1] = EmptyFrame(f.trie)
  OBVIOUS
<1>3. 2..Len(f.frames) = {}
  BY <1>1
<1>4. Balanced(f)
  BY BalancedBottom DEF Compiled
<1> QED BY <1>1, <1>2, <1>3, <1>4 DEF Sound, Framed

LEMMA AddSound ==
    ASSUME NEW f, Sound(f), Told(f), NEW path \in Path
    PROVE  Sound(FilterAdd(f, path)) /\ Told(FilterAdd(f, path))
<1> DEFINE paths == Append(f.paths, path)
           trie == Compile(paths)
           g == [f EXCEPT !.paths = paths, !.trie = trie, !.frames = <<EmptyFrame(trie)>>,
                          !.allow = 0, !.deny = 0]
<1>1. FilterAdd(f, path) = g
  BY DEF FilterAdd
<1>3. paths \in Seq(Path) /\ trie \in Seq(TrieNodes)
  <2>1. paths \in Seq(Path)
    BY DEF Sound, Compiled
  <2> HIDE DEF paths
  <2> QED BY <2>1, CompileTypes
<1> HIDE DEF paths, trie
<1>2. /\ Whole(g) /\ Compiled(g) /\ g.frames = <<EmptyFrame(g.trie)>>
      /\ g.status = f.status /\ g.answer = f.answer /\ g.allow = 0 /\ g.deny = 0
  <2> DEFINE frames == <<EmptyFrame(trie)>>
  <2>1. g = [f EXCEPT !.paths = paths, !.trie = trie, !.frames = frames,
                      !.allow = 0, !.deny = 0]
    OBVIOUS
  <2> HIDE DEF g, frames
  <2>2. /\ Whole(g) /\ g.frames = frames /\ g.trie = trie /\ g.paths = paths
        /\ g.status = f.status /\ g.answer = f.answer /\ g.allow = 0 /\ g.deny = 0
    BY <2>1 DEF Sound, Whole
  <2> QED BY <2>2, <1>3 DEF frames, Compiled
<1> HIDE DEF g
<1> QED BY <1>1, <1>2, FreshSound DEF Told

-----------------------------------------------------------------------------
(* The theorems *)

LEMMA InvInit == Init => Inv
<1> SUFFICES ASSUME Init PROVE Inv
  OBVIOUS
<1>1. /\ Whole(filter) /\ Compiled(filter) /\ Told(filter)
      /\ filter.frames = <<EmptyFrame(filter.trie)>> /\ filter.allow = 0 /\ filter.deny = 0
  BY DEF Init, NoFilter, Whole, Compiled, Told, Statuses
<1> QED BY <1>1, FreshSound DEF Inv

LEMMA InvNext == Inv /\ [Next]_filter => Inv'
<1> SUFFICES ASSUME Inv, [Next]_filter PROVE Inv'
  OBVIOUS
<1> USE DEF Inv
<1>1. ASSUME NEW path \in Path, AddFilter(path)
      PROVE  Inv'
  BY <1>1, AddSound DEF AddFilter
<1>2. ASSUME NEW tag \in Tags, NEW value \in Values \cup {NoValue}, Open(tag, value)
      PROVE  Inv'
  BY <1>2, OpenSound DEF Open
<1>3. ASSUME NEW tag \in Tags, NEW value \in Values, Key(tag, value)
      PROVE  Inv'
  BY <1>3, KeySound DEF Key
<1>4. ASSUME NEW tag \in Tags, NEW value \in Values, PredField(tag, value)
      PROVE  Inv'
  BY <1>4, PredFieldSound DEF PredField
<1>5. CASE Close
  BY <1>5, CloseSound DEF Close
<1>6. CASE CloseInstance
  BY <1>6, CloseInstanceSound DEF CloseInstance
<1>7. CASE UNCHANGED filter
  BY <1>7
<1> QED BY <1>1, <1>2, <1>3, <1>4, <1>5, <1>6, <1>7 DEF Next

\* Whatever expressions are given, before or within a document, and whatever is
\* opened, emitted and closed after, the frames describe the trie in force: no
\* slot, counter or reply survives the trie it was made for
\* (xo_filter_op_add_one), and no frame goes below the bottom (xo_tmatch_close).
THEOREM FilterTypes == Spec => []FilterTypeOK
<1> QED BY InvInit, InvNext, InvTypeOK, PTL DEF Spec

\* At every moment a node is followed only below an element that matched its
\* parent node with all its predicates, and an absolute path only from the
\* root: xo_tmatch_open asks the parent's frame once, and neither keys that
\* arrive later nor the verdict at the close of an instance take the reason away.
THEOREM PathsUnbroken == Spec => []PathUnbroken
<1> QED BY InvInit, InvNext, InvUnbroken, PTL DEF Spec

\* At every moment the two counts that the status goes by are those of the
\* expressions that end in an open element: what xo_tmatch_record_live adds, at
\* the open, at a field or when an instance is resolved, is subtracted once when
\* the frame is popped, and a new trie starts from none.  So neither count is ever
\* negative, and an element that is closed selects and rejects nothing.
THEOREM CountsRight == Spec => []CountsGivenBack
<1> QED BY InvInit, InvNext, InvBalanced, PTL DEF Spec
=============================================================================
