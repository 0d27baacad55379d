---------------------------- MODULE XoKeptProofs ----------------------------
(* The whiteboard of XoWhiteboard under the caller of XoKept: that nothing *)
(* which may still be taken back is misplaced or flushed, for every set of *)
(* expressions, flags, names and values, and documents of any size.        *)
EXTENDS XoKept, XoFilterProofs, WellFoundedInduction

-----------------------------------------------------------------------------
(* The inductive invariant, as a property of a handle: a call applies      *)
(* several functions to it.                                                *)

Shaped(h) ==
    h = [filter |-> h.filter, stack |-> h.stack, buf |-> h.buf,
         topEmitted |-> h.topEmitted, filtering |-> h.filtering,
         madeOutput |-> h.madeOutput]

Placed(frame) ==
    frame.rbOff >= Clear /\ frame.tagEnd >= Clear /\ frame.keyOff >= Clear

Stacked(s) ==
    /\ s \in Seq(Frame)
    /\ Len(s) >= 1
    /\ \A i \in 1..Len(s) : Placed(s[i])

Typed(h) ==
    /\ Shaped(h)
    /\ Sound(h.filter) /\ Told(h.filter)
    /\ Stacked(h.stack)
    /\ h.buf \in Seq(Token)

PendingOf(s) == {i \in 2..Len(s) : s[i].rbOff # Clear /\ s[i].status # "full"}

\* A frame's tag and keys lie in a text of this length.
Inside(frame, length) ==
    /\ 0 <= frame.rbOff /\ frame.rbOff <= frame.tagEnd
    /\ frame.tagEnd <= length
    /\ frame.keyOff # Clear => frame.tagEnd <= frame.keyOff /\ frame.keyOff <= length

Before(outer, inner) ==
    outer.tagEnd <= inner.rbOff /\ outer.keyOff <= inner.rbOff

Ordered(s, length) ==
    /\ \A i \in PendingOf(s) : Inside(s[i], length)
    /\ \A i, j \in PendingOf(s) : i < j => Before(s[i], s[j])

AllFull(s) == \A i \in 1..Len(s) : s[i].status = "full"

\* What is not settled is held back.
Held(h) == h.filtering \/ AllFull(h.stack)

Good(h) == Typed(h) /\ Ordered(h.stack, Len(h.buf)) /\ Held(h)

-----------------------------------------------------------------------------
(* Frames, stacks and buffers *)

\* The frame g is where f is, and as settled.
Alike(f, g) ==
    /\ g.rbOff = f.rbOff /\ g.tagEnd = f.tagEnd /\ g.keyOff = f.keyOff
    /\ g.status = "full" <=> f.status = "full"

AllAlike(s, t) == Len(t) = Len(s) /\ \A i \in 1..Len(s) : Alike(s[i], t[i])

LEMMA StackFacts ==
    ASSUME NEW h, Typed(h)
    PROVE  /\ h.stack \in Seq(Frame) /\ Len(h.stack) \in Nat /\ Len(h.stack) >= 1
           /\ h.buf \in Seq(Token) /\ Len(h.buf) \in Nat
           /\ Cur(h) = Len(h.stack) /\ Cur(h) \in 1..Len(h.stack)
           /\ CurFrame(h) = h.stack[Len(h.stack)]
           /\ \A i \in 1..Len(h.stack) : h.stack[i] \in Frame /\ Placed(h.stack[i])
<1>1. h.stack \in Seq(Frame) /\ Len(h.stack) >= 1 /\ h.buf \in Seq(Token)
  BY DEF Typed, Stacked
<1>2. Len(h.stack) \in Nat /\ Len(h.buf) \in Nat
  BY <1>1
<1>3. \A i \in 1..Len(h.stack) : h.stack[i] \in Frame /\ Placed(h.stack[i])
  BY <1>1 DEF Typed, Stacked
<1>4. Cur(h) = Len(h.stack) /\ CurFrame(h) = h.stack[Len(h.stack)]
  BY DEF Cur, CurFrame
<1>5. Cur(h) \in 1..Len(h.stack)
  BY <1>1, <1>2, <1>4
<1> QED BY <1>1, <1>2, <1>3, <1>4, <1>5

LEMMA FullIsGood ==
    ASSUME NEW h, Typed(h), AllFull(h.stack)
    PROVE  Good(h)
<1>1. PendingOf(h.stack) = {}
  <2>1. Len(h.stack) \in Nat
    BY StackFacts
  <2> QED BY <2>1 DEF PendingOf, AllFull
<1> QED BY <1>1 DEF Good, Ordered, Held

\* What moves a handle may make without asking: frames stay or are freed.
LEMMA Moves ==
    ASSUME NEW h, Good(h), NEW g, Typed(g), Len(g.stack) = Len(h.stack),
           \A i \in 1..Len(h.stack) :
                /\ g.stack[i].status = "full" <=> h.stack[i].status = "full"
                /\ g.stack[i].rbOff = Clear \/ Alike(h.stack[i], g.stack[i]),
           \A i \in PendingOf(g.stack) :
                g.stack[i].tagEnd <= Len(g.buf) /\ g.stack[i].keyOff <= Len(g.buf),
           h.filtering => g.filtering
    PROVE  Good(g)
<1>1. Len(h.stack) \in Nat
  BY StackFacts DEF Good
<1>2. \A i \in PendingOf(g.stack) : i \in PendingOf(h.stack) /\ Alike(h.stack[i], g.stack[i])
  BY <1>1 DEF PendingOf, Alike
<1>3. \A i \in PendingOf(g.stack) : Inside(g.stack[i], Len(g.buf))
  BY <1>2 DEF Good, Ordered, Inside, Alike
<1>4. \A i, j \in PendingOf(g.stack) : i < j => Before(g.stack[i], g.stack[j])
  BY <1>2 DEF Good, Ordered, Before, Alike
<1>5. Held(g)
  BY DEF Good, Held, AllFull
<1> QED BY <1>3, <1>4, <1>5 DEF Good, Ordered

LEMMA Grows ==
    ASSUME NEW h, Good(h), NEW g, Typed(g), AllAlike(h.stack, g.stack),
           Len(h.buf) <= Len(g.buf), h.filtering => g.filtering
    PROVE  Good(g)
<1>1. Len(g.stack) = Len(h.stack) /\ \A i \in 1..Len(h.stack) : Alike(h.stack[i], g.stack[i])
  BY DEF AllAlike
<1>2. Len(h.stack) \in Nat /\ Len(h.buf) \in Nat /\ Len(g.buf) \in Nat
      /\ \A i \in 1..Len(h.stack) : h.stack[i] \in Frame
  BY StackFacts DEF Good
<1>3. ASSUME NEW i \in PendingOf(g.stack)
      PROVE  g.stack[i].tagEnd <= Len(g.buf) /\ g.stack[i].keyOff <= Len(g.buf)
  <2>1. i \in PendingOf(h.stack) /\ i \in 1..Len(h.stack)
    BY <1>1, <1>2 DEF PendingOf, Alike
  <2>2. Inside(h.stack[i], Len(h.buf)) /\ h.stack[i].tagEnd \in Int /\ h.stack[i].keyOff \in Int
    BY <1>2, <2>1 DEF Good, Ordered, Frame
  <2>3. g.stack[i].tagEnd = h.stack[i].tagEnd /\ g.stack[i].keyOff = h.stack[i].keyOff
    BY <1>1, <2>1 DEF Alike
  <2> QED BY <1>2, <2>2, <2>3 DEF Inside, Clear
<1> QED BY <1>1, <1>3, Moves DEF Alike

LEMMA AlikeSelf == \A s : AllAlike(s, s)
BY DEF AllAlike, Alike

LEMMA AlikeChain ==
    ASSUME NEW s, NEW t, NEW u, AllAlike(s, t), AllAlike(t, u)
    PROVE  AllAlike(s, u)
BY DEF AllAlike, Alike

LEMMA NewFilter ==
    ASSUME NEW h, Typed(h), NEW f, Sound(f), Told(f)
    PROVE  LET g == [h EXCEPT !.filter = f]
           IN  /\ Typed(g) /\ g.filter = f /\ g.stack = h.stack /\ g.buf = h.buf
               /\ g.filtering = h.filtering /\ g.topEmitted = h.topEmitted
<1> DEFINE g == [h EXCEPT !.filter = f]
<1>1. /\ Shaped(g) /\ g.filter = f /\ g.stack = h.stack /\ g.buf = h.buf
      /\ g.filtering = h.filtering /\ g.topEmitted = h.topEmitted
  BY DEF Typed, Shaped
<1> HIDE DEF g
<1>2. Typed(g)
  BY <1>1 DEF Typed
<1> QED BY <1>1, <1>2 DEF g

LEMMA NewBuf ==
    ASSUME NEW h, Typed(h), NEW b \in Seq(Token)
    PROVE  LET g == [h EXCEPT !.buf = b]
           IN  /\ Typed(g) /\ g.filter = h.filter /\ g.stack = h.stack /\ g.buf = b
               /\ g.filtering = h.filtering /\ g.topEmitted = h.topEmitted
<1> DEFINE g == [h EXCEPT !.buf = b]
<1>1. /\ Shaped(g) /\ g.filter = h.filter /\ g.stack = h.stack /\ g.buf = b
      /\ g.filtering = h.filtering /\ g.topEmitted = h.topEmitted
  BY DEF Typed, Shaped
<1> HIDE DEF g
<1>2. Typed(g)
  BY <1>1 DEF Typed
<1> QED BY <1>1, <1>2 DEF g

LEMMA NewStack ==
    ASSUME NEW h, Typed(h), NEW s, Stacked(s)
    PROVE  LET g == [h EXCEPT !.stack = s]
           IN  /\ Typed(g) /\ g.filter = h.filter /\ g.stack = s /\ g.buf = h.buf
               /\ g.filtering = h.filtering /\ g.topEmitted = h.topEmitted
<1> DEFINE g == [h EXCEPT !.stack = s]
<1>1. /\ Shaped(g) /\ g.filter = h.filter /\ g.stack = s /\ g.buf = h.buf
      /\ g.filtering = h.filtering /\ g.topEmitted = h.topEmitted
  BY DEF Typed, Shaped
<1> HIDE DEF g
<1>2. Typed(g)
  BY <1>1 DEF Typed
<1> QED BY <1>1, <1>2 DEF g

LEMMA NewFiltering ==
    ASSUME NEW h, Typed(h), NEW x
    PROVE  LET g == [h EXCEPT !.filtering = x]
           IN  /\ Typed(g) /\ g.filter = h.filter /\ g.stack = h.stack /\ g.buf = h.buf
               /\ g.filtering = x /\ g.topEmitted = h.topEmitted
<1> DEFINE g == [h EXCEPT !.filtering = x]
<1>1. /\ Shaped(g) /\ g.filter = h.filter /\ g.stack = h.stack /\ g.buf = h.buf
      /\ g.filtering = x /\ g.topEmitted = h.topEmitted
  BY DEF Typed, Shaped
<1> HIDE DEF g
<1>2. Typed(g)
  BY <1>1 DEF Typed
<1> QED BY <1>1, <1>2 DEF g

LEMMA NewMade ==
    ASSUME NEW h, Typed(h), NEW x
    PROVE  LET g == [h EXCEPT !.madeOutput = x]
           IN  /\ Typed(g) /\ g.filter = h.filter /\ g.stack = h.stack /\ g.buf = h.buf
               /\ g.filtering = h.filtering /\ g.topEmitted = h.topEmitted
<1> DEFINE g == [h EXCEPT !.madeOutput = x]
<1>1. /\ Shaped(g) /\ g.filter = h.filter /\ g.stack = h.stack /\ g.buf = h.buf
      /\ g.filtering = h.filtering /\ g.topEmitted = h.topEmitted
  BY DEF Typed, Shaped
<1> HIDE DEF g
<1>2. Typed(g)
  BY <1>1 DEF Typed
<1> QED BY <1>1, <1>2 DEF g

LEMMA NewTop ==
    ASSUME NEW h, Typed(h), NEW x
    PROVE  LET g == [h EXCEPT !.topEmitted = x]
           IN  /\ Typed(g) /\ g.filter = h.filter /\ g.stack = h.stack /\ g.buf = h.buf
               /\ g.filtering = h.filtering /\ g.topEmitted = x
<1> DEFINE g == [h EXCEPT !.topEmitted = x]
<1>1. /\ Shaped(g) /\ g.filter = h.filter /\ g.stack = h.stack /\ g.buf = h.buf
      /\ g.filtering = h.filtering /\ g.topEmitted = x
  BY DEF Typed, Shaped
<1> HIDE DEF g
<1>2. Typed(g)
  BY <1>1 DEF Typed
<1> QED BY <1>1, <1>2 DEF g

\* One frame is replaced by another.
LEMMA StackSet ==
    ASSUME NEW s, Stacked(s), NEW k \in 1..Len(s), NEW frame \in Frame, Placed(frame)
    PROVE  LET t == [s EXCEPT ![k] = frame]
           IN  /\ Stacked(t) /\ Len(t) = Len(s) /\ t[k] = frame
               /\ \A i \in 1..Len(s) : i # k => t[i] = s[i]
<1> DEFINE t == [s EXCEPT ![k] = frame]
<1>1. s \in Seq(Frame) /\ Len(s) \in Nat
  BY DEF Stacked
<1>2. t \in Seq(Frame) /\ Len(t) = Len(s) /\ t[k] = frame
      /\ \A i \in 1..Len(s) : i # k => t[i] = s[i]
  BY <1>1
<1> HIDE DEF t
<1>3. \A i \in 1..Len(s) : Placed(t[i])
  BY <1>2 DEF Stacked
<1> QED BY <1>2, <1>3 DEF Stacked, t

LEMMA FrameMarked ==
    ASSUME NEW frame \in Frame, NEW b \in BOOLEAN
    PROVE  LET g == [frame EXCEPT !.notFirst = b]
           IN  g \in Frame /\ Alike(frame, g) /\ (Placed(frame) => Placed(g))
<1> DEFINE g == [frame EXCEPT !.notFirst = b]
<1>1. g \in Frame
  BY DEF Frame
<1>2. g.rbOff = frame.rbOff /\ g.tagEnd = frame.tagEnd /\ g.keyOff = frame.keyOff
      /\ g.status = frame.status
  BY DEF Frame
<1> HIDE DEF g
<1> QED BY <1>1, <1>2 DEF Alike, Placed, g

\* The mark of a frame that an item was written
LEMMA Marking ==
    ASSUME NEW h, Typed(h), NEW k \in 1..Len(h.stack), NEW b \in BOOLEAN
    PROVE  LET g == [h EXCEPT !.stack[k].notFirst = b]
           IN  /\ Typed(g) /\ g.filter = h.filter /\ g.buf = h.buf
               /\ g.filtering = h.filtering /\ g.topEmitted = h.topEmitted
               /\ AllAlike(h.stack, g.stack)
<1> DEFINE frame == [h.stack[k] EXCEPT !.notFirst = b]
           s == [h.stack EXCEPT ![k] = frame]
           g == [h EXCEPT !.stack = s]
<1>1. [h EXCEPT !.stack[k].notFirst = b] = g
  OBVIOUS
<1>2. h.stack[k] \in Frame /\ Placed(h.stack[k])
  BY StackFacts
<1>3. frame \in Frame /\ Alike(h.stack[k], frame) /\ Placed(frame)
  BY <1>2, FrameMarked
<1> HIDE DEF frame
<1>4. Stacked(s) /\ Len(s) = Len(h.stack) /\ s[k] = frame
      /\ \A i \in 1..Len(h.stack) : i # k => s[i] = h.stack[i]
  BY <1>3, StackSet DEF Typed
<1> HIDE DEF s
<1>5. AllAlike(h.stack, s)
  BY <1>3, <1>4 DEF AllAlike, Alike
<1>6. /\ Typed(g) /\ g.filter = h.filter /\ g.stack = s /\ g.buf = h.buf
      /\ g.filtering = h.filtering /\ g.topEmitted = h.topEmitted
  BY <1>4, NewStack
<1> HIDE DEF g
<1> QED BY <1>1, <1>5, <1>6

-----------------------------------------------------------------------------
(* Tokens *)

\* What a frame may be named
Labels == Tags \cup {NoValue}

LEMMA LabelTypes ==
    /\ \A name \in Lists \cup Containers \cup Fields : name \in Tags /\ name \in Labels
    /\ \A frame \in Frame : frame.name \in Labels
    /\ NoValue \in Labels
BY NamesAssumption DEF Labels, Frame

LEMMA TokenTypes ==
    /\ \A what \in {"top", "open", "close", "comma", "blank", "quote", "field", "end", "garbage"},
          name \in Labels, kind \in {"none", "object", "array", "element"} :
            Tok(what, name, kind) \in Token
    /\ \A what \in {"top", "open", "close", "comma", "blank", "quote", "field", "end", "garbage"} :
            Mark(what) \in Token
BY DEF Tok, Mark, Token, Labels

LEMMA MovedTypes ==
    ASSUME NEW b \in Seq(Token), NEW to \in Nat, NEW from \in Nat, NEW len \in Nat
    PROVE  Moved(b, to, from, len) \in Seq(Token)
<1> DEFINE n == IF to + len > Len(b) THEN to + len ELSE Len(b)
           at(i) == IF i \in (to + 1)..(to + len) THEN ByteAt(b, from + i - to) ELSE ByteAt(b, i)
<1>1. \A i : ByteAt(b, i) \in Token
  BY TokenTypes DEF ByteAt
<1>2. n \in Nat
  OBVIOUS
<1>3. \A i \in 1..n : at(i) \in Token
  BY <1>1
<1>4. Moved(b, to, from, len) = [i \in 1..n |-> at(i)]
  BY DEF Moved
<1> HIDE DEF n, at
<1> QED BY <1>2, <1>3, <1>4, IsASeq

LEMMA TruncatedTypes ==
    ASSUME NEW b \in Seq(Token), NEW off \in Nat
    PROVE  Truncated(b, off) \in Seq(Token) /\ Len(Truncated(b, off)) = off
<1>1. \A i : ByteAt(b, i) \in Token
  BY TokenTypes DEF ByteAt
<1> DEFINE t == [i \in 1..off |-> ByteAt(b, i)]
<1>2. t \in Seq(Token) /\ Len(t) = off
  BY <1>1, IsASeq
<1> QED BY <1>2 DEF Truncated

-----------------------------------------------------------------------------
(* Commit *)

\* What the loop over the frames knows
Turned(acc) == acc.buf \in Seq(Token) /\ acc.writeOff \in Nat \cup {Clear}

LEMMA TurnTypes ==
    ASSUME NEW acc, Turned(acc), NEW frame \in Frame, Placed(frame)
    PROVE  Turned(CompactOne(acc, frame))
<1> DEFINE start == frame.rbOff
           tagged == IF frame.tagEnd # Clear THEN frame.tagEnd ELSE start
           keepEnd == Max2(frame.keyOff, tagged)
           strip == /\ Json
                    /\ frame.rbFlags
                    /\ acc.prevKeepEnd # Clear
                    /\ start > acc.prevKeepEnd
                    /\ ~acc.prevHadKey
           from == IF strip THEN start + 2 ELSE start
           keep == Max2(0, keepEnd - from)
           to == IF acc.writeOff = Clear THEN from ELSE acc.writeOff
           skipped == [buf |-> acc.buf, writeOff |-> acc.writeOff,
                       lastClear |-> TRUE, prevHadKey |-> FALSE, prevKeepEnd |-> Clear]
           kept == [buf |-> Moved(acc.buf, to, from, keep), writeOff |-> to + keep,
                    lastClear |-> FALSE, prevHadKey |-> frame.keyOff # Clear,
                    prevKeepEnd |-> keepEnd]
<1>1. CompactOne(acc, frame) = IF frame.rbOff = Clear THEN skipped ELSE kept
  BY DEF CompactOne
<1>2. frame.rbOff \in Int /\ frame.tagEnd \in Int /\ frame.keyOff \in Int
      /\ frame.rbOff >= Clear /\ frame.tagEnd >= Clear /\ frame.keyOff >= Clear
  BY DEF Frame, Placed
<1>3. Turned(skipped)
  BY DEF Turned
<1>4. ASSUME frame.rbOff # Clear
      PROVE  Turned(kept)
  <2>1. start \in Nat /\ keepEnd \in Int
    BY <1>2, <1>4 DEF Clear, Max2
  <2> HIDE DEF keepEnd
  <2>2. from \in Nat
    BY <2>1
  <2> HIDE DEF from
  <2>3. keep \in Nat
    BY <2>1, <2>2 DEF Max2
  <2>4. to \in Nat
    BY <2>2 DEF Turned
  <2> HIDE DEF keep, to
  <2>5. Moved(acc.buf, to, from, keep) \in Seq(Token)
    BY <2>2, <2>3, <2>4, MovedTypes DEF Turned
  <2>6. kept.buf = Moved(acc.buf, to, from, keep) /\ kept.writeOff = to + keep
    OBVIOUS
  <2> HIDE DEF kept
  <2> QED BY <2>3, <2>4, <2>5, <2>6 DEF Turned
<1> HIDE DEF skipped, kept
<1> QED BY <1>1, <1>3, <1>4

\* The loop comes to an end: what it computes exists.  Were there an n for which
\* no function gives the turns 0..n, the least one would follow one for which
\* there is.
TurnsAfter(turn, h, first, last) ==
    [i \in 0..last |-> IF i < 2 THEN first ELSE CompactOne(turn[i - 1], h.stack[i])]

LEMMA TurnsExist ==
    ASSUME NEW h, NEW first, NEW last \in Nat
    PROVE  \E turn : turn = TurnsAfter(turn, h, first, last)
<1> USE DEF TurnsAfter
<1> DEFINE Turns(turn, n) == turn = TurnsAfter(turn, h, first, n)
           T == {n \in Nat : ~\E turn : Turns(turn, n)}
<1> SUFFICES T = {}
  OBVIOUS
<1> SUFFICES ASSUME T # {} PROVE FALSE
  OBVIOUS
<1>1. PICK n \in T : \A m \in T : n <= m
  <2> HIDE DEF T
  <2>1. T \subseteq Nat
    BY DEF T
  <2> QED BY <2>1, LeastNat
<1>2. CASE n = 0
  <2>1. Turns([i \in 0..0 |-> first], 0)
    OBVIOUS
  <2> HIDE DEF Turns
  <2> QED BY <1>2, <2>1
<1>3. CASE n # 0
  <2>1. n \in Nat /\ n - 1 \in Nat /\ n - 1 \notin T
    BY <1>1, <1>3
  <2>2. PICK turn : Turns(turn, n - 1)
    <3> HIDE DEF Turns
    <3> QED BY <2>1
  <2> DEFINE next == IF n < 2 THEN first ELSE CompactOne(turn[n - 1], h.stack[n])
             more == [i \in 0..n |-> IF i = n THEN next ELSE turn[i]]
  <2>3. \A i \in 0..(n - 1) :
            turn[i] = IF i < 2 THEN first ELSE CompactOne(turn[i - 1], h.stack[i])
    BY <2>2, Zenon
  <2>4. ASSUME NEW i \in 0..n
        PROVE  more[i] = IF i < 2 THEN first ELSE CompactOne(more[i - 1], h.stack[i])
    <3>1. CASE i = n
      <4>1. more[i] = IF i < 2 THEN first ELSE CompactOne(turn[i - 1], h.stack[i])
        BY <3>1
      <4>2. i >= 2 => more[i - 1] = turn[i - 1]
        BY <2>1, <3>1
      <4> HIDE DEF more
      <4> QED BY <4>1, <4>2, <2>1, <3>1
    <3>2. CASE i # n
      <4>1. i \in 0..(n - 1) /\ more[i] = turn[i]
        BY <2>1, <3>2
      <4>2. i >= 2 => more[i - 1] = turn[i - 1]
        BY <2>1, <3>2
      <4> HIDE DEF more
      <4> QED BY <2>1, <2>3, <4>1, <4>2
    <3> QED BY <3>1, <3>2
  <2>5. more = [i \in 0..n |-> more[i]]
    BY Zenon
  <2> HIDE DEF more
  <2>6. Turns(more, n)
    BY <2>4, <2>5, Zenon
  <2> HIDE DEF Turns
  <2> QED BY <1>1, <2>6
<1> QED BY <1>2, <1>3

LEMMA CompactedTypes ==
    ASSUME NEW h, Typed(h), NEW last \in Nat, last <= Len(h.stack)
    PROVE  Turned(Compacted(h, last))
<1> DEFINE first == [buf |-> h.buf, writeOff |-> Clear, lastClear |-> TRUE,
                     prevHadKey |-> FALSE, prevKeepEnd |-> Clear]
           turns(f) == [i \in 0..last |->
                           IF i < 2 THEN first ELSE CompactOne(f[i - 1], h.stack[i])]
           turn == CHOOSE f : f = turns(f)
           T == {i \in 0..last : ~Turned(turn[i])}
<1>1. Compacted(h, last) = turn[last]
  BY DEF Compacted
<1>2. turn = turns(turn)
  <2>1. \E f : f = turns(f)
    <3> HIDE DEF first
    <3>1. PICK g : g = TurnsAfter(g, h, first, last)
      BY TurnsExist
    <3>2. g = turns(g)
      BY <3>1, Zenon DEF TurnsAfter
    <3> QED BY <3>2
  <2> HIDE DEF turns
  <2> QED BY <2>1
<1> HIDE DEF turn
<1>3. \A i \in 0..last :
            turn[i] = IF i < 2 THEN first ELSE CompactOne(turn[i - 1], h.stack[i])
  BY <1>2, Zenon
<1>4. Turned(first)
  BY StackFacts DEF Turned
<1> HIDE DEF first, turns
<1>5. T = {}
  <2> SUFFICES ASSUME T # {} PROVE FALSE
    OBVIOUS
  <2>1. PICK n \in T : \A m \in T : n <= m
    <3>1. T \subseteq Nat
      OBVIOUS
    <3> HIDE DEF T
    <3> QED BY <3>1, LeastNat
  <2>2. n \in 0..last /\ ~Turned(turn[n])
    BY <2>1
  <2>3. n >= 2
    BY <1>3, <1>4, <2>2
  <2>4. n - 1 \in 0..last /\ Turned(turn[n - 1])
    BY <2>1, <2>2, <2>3
  <2>5. h.stack[n] \in Frame /\ Placed(h.stack[n])
    BY <2>2, <2>3, StackFacts
  <2> HIDE DEF T
  <2> QED BY <1>3, <2>2, <2>3, <2>4, <2>5, TurnTypes
<1> QED BY <1>1, <1>5

LEMMA FrameStatus ==
    ASSUME NEW frame \in Frame, Placed(frame), NEW status \in Statuses
    PROVE  LET g == [frame EXCEPT !.status = status]
           IN  /\ g \in Frame /\ Placed(g) /\ g.status = status
               /\ g.rbOff = frame.rbOff /\ g.tagEnd = frame.tagEnd /\ g.keyOff = frame.keyOff
BY DEF Frame, Placed

LEMMA FreedFrame ==
    ASSUME NEW frame \in Frame, Placed(frame), NEW status \in Statuses
    PROVE  /\ Freed(frame, status) \in Frame /\ Placed(Freed(frame, status))
           /\ Freed(frame, status).status = status /\ Freed(frame, status).rbOff = Clear
<1> DEFINE a == [frame EXCEPT !.status = status]
           b == [a EXCEPT !.rbOff = Clear]
           c == [b EXCEPT !.keyOff = Clear]
           end == IF frame.rbOff = Clear THEN frame.tagEnd ELSE Clear
           d == [c EXCEPT !.tagEnd = end]
<1>1. Clear \in Int /\ Clear >= Clear /\ frame.tagEnd \in Int /\ frame.tagEnd >= Clear
  BY DEF Clear, Frame, Placed
<1>2. a \in Frame /\ a.status = status /\ a.tagEnd = frame.tagEnd
  BY DEF Frame
<1>3. Freed(frame, status) = d
  BY <1>2 DEF Freed
<1> HIDE DEF a
<1>4. b \in Frame /\ b.status = status /\ b.rbOff = Clear
  BY <1>1, <1>2 DEF Frame
<1> HIDE DEF b
<1>5. c \in Frame /\ c.status = status /\ c.rbOff = Clear /\ c.keyOff = Clear
  BY <1>1, <1>4 DEF Frame
<1> HIDE DEF c
<1>6. end \in Int /\ end >= Clear
  BY <1>1
<1> HIDE DEF end
<1>7. d \in Frame /\ d.status = status /\ d.rbOff = Clear /\ d.keyOff = Clear /\ d.tagEnd = end
  BY <1>5, <1>6 DEF Frame
<1> HIDE DEF d
<1>8. Placed(d)
  BY <1>1, <1>6, <1>7 DEF Placed
<1> QED BY <1>3, <1>7, <1>8

LEMMA CompactRangeTypes ==
    ASSUME NEW h, Typed(h), NEW last \in Nat, last <= Len(h.stack), NEW status \in Statuses
    PROVE  LET r == CompactRange(h, last, status)
           IN  /\ Typed(r.h) /\ r.h.filter = h.filter /\ r.h.filtering = h.filtering
               /\ Len(r.h.stack) = Len(h.stack)
               /\ \A i \in 1..Len(h.stack) :
                    IF i = 1 \/ i <= last THEN r.h.stack[i].status = status
                    ELSE r.h.stack[i] = h.stack[i]
               /\ r.writeOff \in Nat \cup {Clear}
<1> DEFINE run == Compacted(h, last)
           at(i) == IF i = 1 THEN [h.stack[i] EXCEPT !.status = status]
                    ELSE IF i <= last THEN Freed(h.stack[i], status)
                    ELSE h.stack[i]
           s == [i \in DOMAIN h.stack |-> at(i)]
           a == [h EXCEPT !.buf = run.buf]
           g == [a EXCEPT !.stack = s]
           r == CompactRange(h, last, status)
<1>1. Turned(run)
  BY CompactedTypes
<1> HIDE DEF run
<1>2. /\ h.stack \in Seq(Frame) /\ Len(h.stack) \in Nat /\ Len(h.stack) >= 1
      /\ DOMAIN h.stack = 1..Len(h.stack)
      /\ \A i \in 1..Len(h.stack) : h.stack[i] \in Frame /\ Placed(h.stack[i])
  BY StackFacts
<1>3. /\ r.writeOff = run.writeOff
      /\ r.h = [h EXCEPT !.buf = run.buf, !.stack = s]
  BY DEF CompactRange, run
<1>4. r.h = g
  BY <1>3
<1> HIDE DEF r
<1>5. Typed(a) /\ a.filter = h.filter /\ a.filtering = h.filtering
  BY <1>1, NewBuf DEF Turned
<1> HIDE DEF a
<1>6. \A i \in 1..Len(h.stack) :
        /\ at(i) \in Frame /\ Placed(at(i))
        /\ i = 1 \/ i <= last => at(i).status = status
  BY <1>2, FrameStatus, FreedFrame
<1>7. \A i \in 1..Len(h.stack) : ~(i = 1 \/ i <= last) => at(i) = h.stack[i]
  OBVIOUS
<1> HIDE DEF at
<1>8. /\ s \in Seq(Frame) /\ Len(s) = Len(h.stack)
      /\ \A i \in 1..Len(h.stack) : s[i] = at(i)
  BY <1>2, <1>6, IsASeq
<1> HIDE DEF s
<1>9. Stacked(s)
  BY <1>2, <1>6, <1>8 DEF Stacked
<1>10. Typed(g) /\ g.filter = a.filter /\ g.stack = s /\ g.filtering = a.filtering
  BY <1>5, <1>9, NewStack
<1> HIDE DEF g
<1>11. \A i \in 1..Len(h.stack) :
            IF i = 1 \/ i <= last THEN s[i].status = status ELSE s[i] = h.stack[i]
  BY <1>6, <1>7, <1>8
<1>12. run.writeOff \in Nat \cup {Clear}
  BY <1>1 DEF Turned
<1> QED BY <1>3, <1>4, <1>5, <1>8, <1>10, <1>11, <1>12 DEF r

\* What a function of the commits leaves: everything is settled.
Settles(g, h) ==
    /\ Typed(g) /\ g.filter = h.filter
    /\ Len(g.stack) = Len(h.stack) /\ AllFull(g.stack)

LEMMA RelocatedTypes ==
    ASSUME NEW h, Typed(h), NEW writeOff \in Nat \cup {Clear}, NEW start \in Nat, NEW len \in Int
    PROVE  LET g == Relocated(h, writeOff, start, len)
           IN  Typed(g) /\ g.filter = h.filter /\ g.stack = h.stack
<1> DEFINE to == IF writeOff = Clear THEN start ELSE writeOff
           moved == Truncated(Moved(h.buf, to, start, len), to + len)
           cut == Truncated(h.buf, writeOff)
<1>1. to \in Nat /\ h.buf \in Seq(Token)
  BY StackFacts
<1> HIDE DEF to
<1>2. ASSUME len > 0
      PROVE  moved \in Seq(Token)
  <2>1. len \in Nat /\ to + len \in Nat
    BY <1>1, <1>2
  <2>2. Moved(h.buf, to, start, len) \in Seq(Token)
    BY <1>1, <2>1, MovedTypes
  <2> QED BY <2>1, <2>2, TruncatedTypes
<1>3. writeOff # Clear => cut \in Seq(Token)
  BY <1>1, TruncatedTypes
<1>4. Relocated(h, writeOff, start, len) =
        IF len > 0 THEN [h EXCEPT !.buf = moved]
        ELSE IF writeOff # Clear THEN [h EXCEPT !.buf = cut]
        ELSE h
  BY DEF Relocated, to
<1> HIDE DEF moved, cut
<1>5. CASE len > 0
  BY <1>2, <1>4, <1>5, NewBuf
<1>6. CASE ~(len > 0) /\ writeOff # Clear
  BY <1>3, <1>4, <1>6, NewBuf
<1>7. CASE ~(len > 0) /\ writeOff = Clear
  BY <1>4, <1>7
<1> QED BY <1>5, <1>6, <1>7

LEMMA CommitCompactSettles ==
    ASSUME NEW h, Typed(h)
    PROVE  Settles(CommitCompact(h), h)
<1> DEFINE r == CompactRange(h, Cur(h), "full")
           b == Truncated(r.h.buf, r.writeOff)
           cut == IF r.writeOff = Clear THEN r.h ELSE [r.h EXCEPT !.buf = b]
           resets == Json /\ CurFrame(h).rbOff # Clear /\ ~r.prevHadKey
           marked == IF resets THEN [cut EXCEPT !.stack[Cur(h)].notFirst = FALSE] ELSE cut
           g == [marked EXCEPT !.filtering = FALSE]
<1>1. CommitCompact(h) = g
  BY DEF CommitCompact, NotFiltering
<1>2. Cur(h) \in 1..Len(h.stack) /\ Cur(h) = Len(h.stack) /\ Len(h.stack) \in Nat
  BY StackFacts
<1>3. "full" \in Statuses
  BY DEF Statuses
<1>4. /\ Typed(r.h) /\ r.h.filter = h.filter /\ Len(r.h.stack) = Len(h.stack)
      /\ AllFull(r.h.stack) /\ r.writeOff \in Nat \cup {Clear}
  BY <1>2, <1>3, CompactRangeTypes DEF AllFull
<1> HIDE DEF r
<1>5. r.writeOff # Clear => b \in Seq(Token)
  BY <1>4, TruncatedTypes, StackFacts
<1> HIDE DEF b
<1>6. Typed(cut) /\ cut.filter = h.filter /\ cut.stack = r.h.stack
  <2>1. CASE r.writeOff = Clear
    BY <1>4, <2>1
  <2>2. CASE r.writeOff # Clear
    BY <1>4, <1>5, <2>2, NewBuf
  <2> QED BY <2>1, <2>2
<1> HIDE DEF cut, resets
<1>7. /\ Typed(marked) /\ marked.filter = h.filter
      /\ Len(marked.stack) = Len(h.stack) /\ AllFull(marked.stack)
  <2>1. CASE ~resets
    BY <1>4, <1>6, <2>1
  <2>2. CASE resets
    <3> DEFINE m == [cut EXCEPT !.stack[Cur(h)].notFirst = FALSE]
    <3>1. Typed(m) /\ m.filter = cut.filter /\ AllAlike(cut.stack, m.stack)
      BY <1>2, <1>4, <1>6, Marking
    <3>2. marked = m
      BY <2>2
    <3> HIDE DEF m, marked
    <3> QED BY <1>4, <1>6, <3>1, <3>2 DEF AllAlike, Alike, AllFull
  <2> QED BY <2>1, <2>2
<1> HIDE DEF marked
<1>8. Typed(g) /\ g.filter = marked.filter /\ g.stack = marked.stack
  BY <1>7, NewFiltering
<1> QED BY <1>1, <1>7, <1>8 DEF Settles

LEMMA CommitFieldSettles ==
    ASSUME NEW h, Typed(h), NEW start \in Nat
    PROVE  Settles(CommitField(h, start), h)
<1> DEFINE r == CompactRange(h, Cur(h), "full")
           len == Len(h.buf) - start
           strip == /\ Json
                    /\ ~r.lastClear
                    /\ ~r.prevHadKey
                    /\ len >= 2
                    /\ ByteAt(r.h.buf, start + 1).what = "comma"
           cut == IF strip THEN 2 ELSE 0
           kept == Relocated(r.h, r.writeOff, start + cut, len - cut)
           g == [kept EXCEPT !.filtering = FALSE]
<1>1. CommitField(h, start) = g
  BY DEF CommitField, NotFiltering
<1>2. Cur(h) \in 1..Len(h.stack) /\ Cur(h) = Len(h.stack) /\ Len(h.stack) \in Nat
      /\ Len(h.buf) \in Nat
  BY StackFacts
<1>3. "full" \in Statuses
  BY DEF Statuses
<1>4. /\ Typed(r.h) /\ r.h.filter = h.filter /\ Len(r.h.stack) = Len(h.stack)
      /\ AllFull(r.h.stack) /\ r.writeOff \in Nat \cup {Clear}
  BY <1>2, <1>3, CompactRangeTypes DEF AllFull
<1> HIDE DEF r
<1>5. len \in Int
  BY <1>2
<1> HIDE DEF len, strip
<1>6. start + cut \in Nat /\ len - cut \in Int
  BY <1>5
<1> HIDE DEF cut
<1>7. Typed(kept) /\ kept.filter = r.h.filter /\ kept.stack = r.h.stack
  BY <1>4, <1>6, RelocatedTypes
<1> HIDE DEF kept
<1>8. Typed(g) /\ g.filter = kept.filter /\ g.stack = kept.stack
  BY <1>7, NewFiltering
<1> QED BY <1>1, <1>4, <1>7, <1>8 DEF Settles

LEMMA CommitSettles ==
    ASSUME NEW h, Typed(h)
    PROVE  Settles(Commit(h), h)
<1> DEFINE n == Len(h.stack)
           cur == CurFrame(h)
           r == CompactRange(h, Cur(h) - 1, "full")
           top == [r.h.stack[n] EXCEPT !.status = "full", !.rbOff = Clear, !.tagEnd = Clear,
                                       !.keyOff = Clear]
           s == [r.h.stack EXCEPT ![n] = top]
           kept == [r.h EXCEPT !.stack = s]
           len == Len(h.buf) - cur.rbOff
           moved == Relocated(kept, r.writeOff, cur.rbOff, len)
           free(i) == [h.stack[i] EXCEPT !.status = "full", !.rbOff = Clear, !.keyOff = Clear]
           t == [i \in DOMAIN h.stack |-> free(i)]
           settled == [h EXCEPT !.stack = t]
           base == IF cur.rbOff # Clear THEN moved ELSE settled
           g == [base EXCEPT !.filtering = FALSE]
<1>1. Commit(h) = g
  BY DEF Commit, NotFiltering, Cur
<1>2. /\ n \in Nat /\ n >= 1 /\ n \in 1..n /\ Cur(h) = n
      /\ h.stack \in Seq(Frame) /\ DOMAIN h.stack = 1..n
      /\ cur = h.stack[n] /\ Len(h.buf) \in Nat
      /\ \A i \in 1..n : h.stack[i] \in Frame /\ Placed(h.stack[i])
  BY StackFacts
<1>3. "full" \in Statuses /\ Clear \in Int /\ Clear >= Clear
  BY DEF Statuses, Clear
<1>4. cur.rbOff \in Int /\ cur.rbOff >= Clear
  BY <1>2 DEF Frame, Placed
<1> HIDE DEF n, cur
<1>5. /\ Typed(r.h) /\ r.h.filter = h.filter /\ Len(r.h.stack) = n
      /\ \A i \in 1..(n - 1) : r.h.stack[i].status = "full"
      /\ r.writeOff \in Nat \cup {Clear}
  <2>1. Cur(h) - 1 \in Nat /\ Cur(h) - 1 <= Len(h.stack)
    BY <1>2 DEF n
  <2> HIDE DEF r
  <2>2. /\ Typed(r.h) /\ r.h.filter = h.filter /\ Len(r.h.stack) = Len(h.stack)
        /\ \A i \in 1..Len(h.stack) :
                i = 1 \/ i <= Cur(h) - 1 => r.h.stack[i].status = "full"
        /\ r.writeOff \in Nat \cup {Clear}
    BY <1>3, <2>1, CompactRangeTypes DEF r
  <2> QED BY <1>2, <2>2 DEF n
<1> HIDE DEF r
<1>6. top \in Frame /\ Placed(top) /\ top.status = "full"
  <2>1. r.h.stack[n] \in Frame
    BY <1>2, <1>5, StackFacts
  <2> DEFINE x == r.h.stack[n]
             a == [x EXCEPT !.status = "full"]
             b == [a EXCEPT !.rbOff = Clear]
             c == [b EXCEPT !.tagEnd = Clear]
             d == [c EXCEPT !.keyOff = Clear]
  <2>2. top = d
    OBVIOUS
  <2>3. x \in Frame
    BY <2>1
  <2> HIDE DEF x, top
  <2>4. a \in Frame /\ a.status = "full"
    BY <1>3, <2>3 DEF Frame
  <2> HIDE DEF a
  <2>5. b \in Frame /\ b.status = "full" /\ b.rbOff = Clear
    BY <1>3, <2>4 DEF Frame
  <2> HIDE DEF b
  <2>6. c \in Frame /\ c.status = "full" /\ c.rbOff = Clear /\ c.tagEnd = Clear
    BY <1>3, <2>5 DEF Frame
  <2> HIDE DEF c
  <2>7. d \in Frame /\ d.status = "full" /\ d.rbOff = Clear /\ d.tagEnd = Clear
        /\ d.keyOff = Clear
    BY <1>3, <2>6 DEF Frame
  <2> HIDE DEF d
  <2> QED BY <1>3, <2>2, <2>7 DEF Placed
<1> HIDE DEF top
<1>7. Stacked(s) /\ Len(s) = n /\ AllFull(s)
  <2>1. Stacked(r.h.stack)
    BY <1>5 DEF Typed
  <2>2. Stacked(s) /\ Len(s) = n /\ s[n] = top /\ \A i \in 1..n : i # n => s[i] = r.h.stack[i]
    BY <1>2, <1>5, <1>6, <2>1, StackSet
  <2> HIDE DEF s
  <2>3. \A i \in 1..n : i # n => i \in 1..(n - 1)
    BY <1>2
  <2> QED BY <1>5, <1>6, <2>2, <2>3 DEF AllFull
<1> HIDE DEF s
<1>8. Typed(kept) /\ kept.filter = h.filter /\ kept.stack = s
  BY <1>5, <1>7, NewStack
<1> HIDE DEF kept
<1>9. ASSUME cur.rbOff # Clear
      PROVE  Typed(moved) /\ moved.filter = h.filter /\ moved.stack = s
  <2>1. cur.rbOff \in Nat /\ len \in Int
    BY <1>2, <1>4, <1>9 DEF Clear
  <2> HIDE DEF len
  <2> QED BY <1>5, <1>8, <2>1, RelocatedTypes
<1> HIDE DEF moved, len
<1>10. \A i \in 1..n : free(i) \in Frame /\ Placed(free(i)) /\ free(i).status = "full"
  <2> SUFFICES ASSUME NEW i \in 1..n
               PROVE  free(i) \in Frame /\ Placed(free(i)) /\ free(i).status = "full"
    OBVIOUS
  <2> DEFINE x == h.stack[i]
             a == [x EXCEPT !.status = "full"]
             b == [a EXCEPT !.rbOff = Clear]
             d == [b EXCEPT !.keyOff = Clear]
  <2>1. x \in Frame /\ x.tagEnd >= Clear
    BY <1>2 DEF Placed
  <2>2. free(i) = d
    OBVIOUS
  <2> HIDE DEF x, free
  <2>3. a \in Frame /\ a.status = "full" /\ a.tagEnd = x.tagEnd
    BY <1>3, <2>1 DEF Frame
  <2> HIDE DEF a
  <2>4. b \in Frame /\ b.status = "full" /\ b.rbOff = Clear /\ b.tagEnd = x.tagEnd
    BY <1>3, <2>3 DEF Frame
  <2> HIDE DEF b
  <2>5. d \in Frame /\ d.status = "full" /\ d.rbOff = Clear /\ d.tagEnd = x.tagEnd
        /\ d.keyOff = Clear
    BY <1>3, <2>4 DEF Frame
  <2> HIDE DEF d
  <2> QED BY <1>3, <2>1, <2>2, <2>5 DEF Placed
<1> HIDE DEF free
<1>11. Stacked(t) /\ Len(t) = n /\ AllFull(t)
  <2>1. t \in Seq(Frame) /\ Len(t) = n /\ \A i \in 1..n : t[i] = free(i)
    BY <1>2, <1>10, IsASeq
  <2> HIDE DEF t
  <2> QED BY <1>2, <1>10, <2>1 DEF Stacked, AllFull
<1> HIDE DEF t
<1>12. Typed(settled) /\ settled.filter = h.filter /\ settled.stack = t
  BY <1>11, NewStack
<1> HIDE DEF settled
<1>13. Typed(base) /\ base.filter = h.filter /\ Len(base.stack) = n /\ AllFull(base.stack)
  BY <1>7, <1>9, <1>11, <1>12
<1> HIDE DEF base
<1>14. Typed(g) /\ g.filter = base.filter /\ g.stack = base.stack
  BY <1>13, NewFiltering
<1> QED BY <1>1, <1>13, <1>14 DEF Settles, n

-----------------------------------------------------------------------------
(* Writing *)

\* Text was added, and no frame moved.
Grew(g, h) ==
    /\ Typed(g) /\ g.filter = h.filter
    /\ AllAlike(h.stack, g.stack)
    /\ Len(h.buf) <= Len(g.buf)
    /\ h.filtering => g.filtering

LEMMA GrewGood ==
    ASSUME NEW h, Good(h), NEW g, Grew(g, h)
    PROVE  Good(g)
BY Grows DEF Grew

LEMMA GrewSelf ==
    ASSUME NEW h, Typed(h)
    PROVE  Grew(h, h)
<1>1. Len(h.buf) \in Nat
  BY StackFacts
<1> QED BY <1>1, AlikeSelf DEF Grew

LEMMA GrewChain ==
    ASSUME NEW f, NEW g, NEW h, Typed(f), Grew(g, f), Grew(h, g)
    PROVE  Grew(h, f)
<1>1. Len(f.buf) \in Nat /\ Len(g.buf) \in Nat /\ Len(h.buf) \in Nat
  BY StackFacts DEF Grew
<1>2. Len(f.buf) <= Len(h.buf)
  BY <1>1 DEF Grew
<1>3. AllAlike(f.stack, h.stack)
  BY AlikeChain DEF Grew
<1>4. Typed(h) /\ h.filter = f.filter /\ (f.filtering => h.filtering)
  BY DEF Grew
<1> QED BY <1>2, <1>3, <1>4 DEF Grew

LEMMA WroteGrew ==
    ASSUME NEW h, Typed(h), NEW tokens \in Seq(Token)
    PROVE  /\ Grew(Wrote(h, tokens), h)
           /\ Len(Wrote(h, tokens).buf) = Len(h.buf) + Len(tokens)
           /\ Wrote(h, tokens).stack = h.stack
<1> DEFINE b == h.buf \o tokens
           g == [h EXCEPT !.buf = b]
<1>1. h.buf \in Seq(Token) /\ Len(h.buf) \in Nat /\ Len(tokens) \in Nat
  BY StackFacts
<1>2. b \in Seq(Token) /\ Len(b) = Len(h.buf) + Len(tokens)
  BY <1>1
<1>3. Wrote(h, tokens) = g
  BY DEF Wrote
<1> HIDE DEF b
<1>4. Typed(g) /\ g.filter = h.filter /\ g.stack = h.stack /\ g.buf = b
      /\ g.filtering = h.filtering
  BY <1>2, NewBuf
<1> HIDE DEF g
<1>5. Len(h.buf) <= Len(g.buf)
  BY <1>1, <1>2, <1>4
<1>6. Grew(g, h)
  BY <1>4, <1>5, AlikeSelf DEF Grew
<1> QED BY <1>2, <1>3, <1>4, <1>6

LEMMA MarkingGrew ==
    ASSUME NEW h, Typed(h), NEW k \in 1..Len(h.stack), NEW b \in BOOLEAN
    PROVE  LET g == [h EXCEPT !.stack[k].notFirst = b]
           IN  Grew(g, h) /\ g.buf = h.buf
<1> DEFINE g == [h EXCEPT !.stack[k].notFirst = b]
<1>1. Typed(g) /\ g.filter = h.filter /\ g.buf = h.buf /\ g.filtering = h.filtering
      /\ AllAlike(h.stack, g.stack)
  BY Marking
<1> HIDE DEF g
<1>2. Len(h.buf) <= Len(g.buf)
  BY <1>1, StackFacts
<1>3. Grew(g, h)
  BY <1>1, <1>2 DEF Grew
<1> QED BY <1>1, <1>3 DEF g

LEMMA FilteringGrew ==
    ASSUME NEW h, Typed(h), NEW x
    PROVE  LET g == [h EXCEPT !.filtering = @ \/ x]
           IN  Grew(g, h) /\ g.stack = h.stack /\ g.buf = h.buf /\ g.filtering = (h.filtering \/ x)
<1> DEFINE y == h.filtering \/ x
           g == [h EXCEPT !.filtering = y]
<1>1. [h EXCEPT !.filtering = @ \/ x] = g
  OBVIOUS
<1>2. h.filtering => y
  OBVIOUS
<1>3. y = (h.filtering \/ x)
  OBVIOUS
<1> HIDE DEF y
<1>4. Typed(g) /\ g.filter = h.filter /\ g.buf = h.buf /\ g.filtering = y /\ g.stack = h.stack
  BY NewFiltering
<1> HIDE DEF g
<1>5. Len(h.buf) <= Len(g.buf)
  BY <1>4, StackFacts
<1>6. Grew(g, h)
  BY <1>2, <1>4, <1>5, AlikeSelf DEF Grew
<1> QED BY <1>1, <1>3, <1>4, <1>6

LEMMA TopGrew ==
    ASSUME NEW h, Typed(h)
    PROVE  Grew(TopEmitted(h), h) /\ TopEmitted(h).stack = h.stack
<1> DEFINE w == Wrote(h, <<Mark("top")>>)
           g == [w EXCEPT !.topEmitted = TRUE]
<1>1. <<Mark("top")>> \in Seq(Token)
  BY TokenTypes
<1>2. Grew(w, h) /\ w.stack = h.stack
  BY <1>1, WroteGrew
<1> HIDE DEF w
<1>3. Typed(g) /\ g.filter = w.filter /\ g.buf = w.buf /\ g.filtering = w.filtering
      /\ g.stack = w.stack
  BY <1>2, NewTop DEF Grew
<1>4. TopEmitted(h) = g \/ TopEmitted(h) = h
  BY DEF TopEmitted, w
<1> HIDE DEF g
<1>5. Grew(g, h)
  BY <1>2, <1>3 DEF Grew
<1> QED BY <1>2, <1>3, <1>4, <1>5, GrewSelf

LEMMA OpenedGrew ==
    ASSUME NEW h, Typed(h), NEW kind \in {"list", "container", "instance"}, NEW name \in Labels
    PROVE  Grew(Opened(h, kind, name), h)
<1> DEFINE sep == IF CurFrame(h).notFirst THEN <<Mark("comma"), Mark("blank")>> ELSE <<>>
           tag == CASE kind = "list" -> Tok("open", name, "array")
                    [] kind = "container" -> Tok("open", name, "object")
                    [] kind = "instance" -> Tok("open", NoValue, "object")
           tokens == Append(sep, tag)
           element == <<Tok("open", name, "element")>>
           w == Wrote(h, tokens)
           g == [w EXCEPT !.stack[Cur(h)].notFirst = TRUE]
<1>1. Opened(h, kind, name) = IF Json THEN g
                              ELSE IF kind = "list" THEN h
                              ELSE Wrote(h, element)
  BY DEF Opened
<1>2. tag \in Token /\ element \in Seq(Token)
  BY TokenTypes, LabelTypes
<1>3. sep \in Seq(Token)
  BY TokenTypes
<1> HIDE DEF tag, sep, element
<1>4. tokens \in Seq(Token)
  BY <1>2, <1>3
<1> HIDE DEF tokens
<1>5. Grew(w, h) /\ w.stack = h.stack
  BY <1>4, WroteGrew
<1> HIDE DEF w
<1>6. Typed(w) /\ Cur(h) \in 1..Len(w.stack)
  BY <1>5, StackFacts DEF Grew
<1>7. Grew(g, w)
  BY <1>6, MarkingGrew
<1> HIDE DEF g
<1>8. Grew(g, h)
  BY <1>5, <1>7, GrewChain
<1>9. Grew(Wrote(h, element), h)
  BY <1>2, WroteGrew
<1> QED BY <1>1, <1>8, <1>9, GrewSelf

LEMMA ClosedGrew ==
    ASSUME NEW h, Typed(h), NEW kind, NEW name \in Labels
    PROVE  Grew(Closed(h, kind, name), h)
<1> DEFINE shape == IF kind = "list" THEN "array" ELSE "object"
           tokens == <<Tok("close", NoValue, shape)>>
           element == <<Tok("close", name, "element")>>
           w == Wrote(h, tokens)
           g == [w EXCEPT !.stack[Cur(h)].notFirst = TRUE]
<1>1. Closed(h, kind, name) = IF Json THEN g ELSE Wrote(h, element)
  BY DEF Closed
<1>2. tokens \in Seq(Token) /\ element \in Seq(Token)
  <2>1. shape \in {"array", "object"}
    OBVIOUS
  <2> QED BY <2>1, TokenTypes, LabelTypes
<1> HIDE DEF tokens, element
<1>3. Grew(w, h) /\ w.stack = h.stack
  BY <1>2, WroteGrew
<1> HIDE DEF w
<1>4. Typed(w) /\ Cur(h) \in 1..Len(w.stack)
  BY <1>3, StackFacts DEF Grew
<1>5. Grew(g, w)
  BY <1>4, MarkingGrew
<1> HIDE DEF g
<1>6. Grew(g, h)
  BY <1>3, <1>5, GrewChain
<1>7. Grew(Wrote(h, element), h)
  BY <1>2, WroteGrew
<1> QED BY <1>1, <1>6, <1>7

-----------------------------------------------------------------------------
(* Push and pop *)

\* g is h with one frame more, of the status given, for a text that may begin at start.
OneMore(g, h, status, start) ==
    /\ Typed(g) /\ g.filter = h.filter /\ g.buf = h.buf
    /\ g.filtering = h.filtering
    /\ Len(g.stack) = Len(h.stack) + 1
    /\ \A i \in 1..Len(h.stack) : g.stack[i] = h.stack[i]
    /\ g.stack[Len(h.stack) + 1].status = status
    /\ g.stack[Len(h.stack) + 1].rbOff = start
    /\ g.stack[Len(h.stack) + 1].tagEnd = Len(h.buf)
    /\ g.stack[Len(h.stack) + 1].keyOff = Clear

LEMMA PushedTypes ==
    ASSUME NEW h, Typed(h), NEW before, Typed(before),
           NEW kind \in {"list", "container", "instance"}, NEW name \in Labels,
           NEW status \in Statuses, NEW start \in Nat \cup {Clear}
    PROVE  OneMore(Pushed(h, before, kind, name, status, start), h, status, start)
<1> DEFINE n == Len(h.stack)
           mark == CurFrame(before).notFirst
           frame == [kind |-> kind, name |-> name, status |-> status, rbOff |-> start,
                     tagEnd |-> Len(h.buf), keyOff |-> Clear, notFirst |-> FALSE,
                     rbFlags |-> mark]
           s == Append(h.stack, frame)
           g == [h EXCEPT !.stack = s]
<1>1. Pushed(h, before, kind, name, status, start) = g
  BY DEF Pushed
<1>2. h.stack \in Seq(Frame) /\ n \in Nat /\ n >= 1 /\ Len(h.buf) \in Nat
      /\ \A i \in 1..n : Placed(h.stack[i])
  BY StackFacts
<1>3. mark \in BOOLEAN
  <2>1. CurFrame(before) \in Frame
    BY StackFacts
  <2> QED BY <2>1 DEF Frame
<1> HIDE DEF mark
<1>4. Clear \in Int /\ start \in Int /\ start >= Clear /\ Len(h.buf) >= Clear /\ Clear >= Clear
      /\ Len(h.buf) \in Int
  BY <1>2 DEF Clear
<1>5. frame \in Frame
  BY <1>3, <1>4 DEF Frame, Labels
<1>6. frame.status = status /\ frame.rbOff = start /\ frame.tagEnd = Len(h.buf)
      /\ frame.keyOff = Clear
  OBVIOUS
<1>7. Placed(frame)
  BY <1>4, <1>6 DEF Placed
<1> HIDE DEF frame
<1>8. s \in Seq(Frame) /\ Len(s) = n + 1 /\ s[n + 1] = frame
      /\ \A i \in 1..n : s[i] = h.stack[i]
  BY <1>2, <1>5
<1> HIDE DEF s
<1>9. Stacked(s)
  <2>1. \A i \in 1..Len(s) : i \in 1..n \/ i = n + 1
    BY <1>2, <1>8
  <2>2. \A i \in 1..Len(s) : Placed(s[i])
    BY <1>2, <1>7, <1>8, <2>1
  <2> HIDE DEF n
  <2> QED BY <1>2, <1>8, <2>2 DEF Stacked
<1>10. Typed(g) /\ g.filter = h.filter /\ g.stack = s /\ g.buf = h.buf
       /\ g.filtering = h.filtering
  BY <1>9, NewStack
<1> HIDE DEF g
<1>11. OneMore(g, h, status, start)
  BY <1>6, <1>8, <1>10 DEF OneMore
<1> QED BY <1>1, <1>11

\* A new frame begins behind all that may be taken back.
LEMMA PushGood ==
    ASSUME NEW h, Good(h), NEW g, Typed(g), g.buf = h.buf, g.filtering = h.filtering,
           Len(g.stack) = Len(h.stack) + 1,
           \A i \in 1..Len(h.stack) : g.stack[i] = h.stack[i],
           NEW top, top = g.stack[Len(h.stack) + 1],
           \/ top.status = "full"
           \/ /\ h.filtering
              /\ \/ top.rbOff = Clear
                 \/ /\ Inside(top, Len(h.buf))
                    /\ \A i \in PendingOf(h.stack) : Before(h.stack[i], top)
    PROVE  Good(g)
<1> DEFINE n == Len(h.stack)
           free == top.status = "full" \/ top.rbOff = Clear
<1>1. n \in Nat /\ n >= 1
  BY StackFacts DEF Good
<1>2. \A i \in PendingOf(g.stack) : \/ i \in 1..n /\ i \in PendingOf(h.stack)
                                    \/ i = n + 1 /\ ~free
  BY <1>1 DEF PendingOf
<1>3. \A i \in PendingOf(g.stack) : Inside(g.stack[i], Len(g.buf))
  BY <1>2 DEF Good, Ordered
<1>4. ASSUME NEW i \in PendingOf(g.stack), NEW j \in PendingOf(g.stack), i < j
      PROVE  Before(g.stack[i], g.stack[j])
  <2>1. i \in 1..n /\ i \in PendingOf(h.stack)
    BY <1>1, <1>2, <1>4
  <2>2. CASE j \in 1..n /\ j \in PendingOf(h.stack)
    BY <1>4, <2>1, <2>2 DEF Good, Ordered
  <2>3. CASE j = n + 1 /\ ~free
    BY <2>1, <2>3
  <2> QED BY <1>2, <2>2, <2>3
<1>5. Held(g)
  <2>1. CASE h.filtering
    BY <2>1 DEF Held
  <2>2. CASE ~h.filtering
    <3>1. AllFull(h.stack) /\ top.status = "full"
      BY <2>2 DEF Good, Held
    <3>2. \A i \in 1..Len(g.stack) : i \in 1..n \/ i = n + 1
      BY <1>1
    <3>3. AllFull(g.stack)
      BY <3>1, <3>2 DEF AllFull
    <3> QED BY <3>3 DEF Held
  <2> QED BY <2>1, <2>2
<1> QED BY <1>3, <1>4, <1>5 DEF Good, Ordered

LEMMA PoppedGood ==
    ASSUME NEW h, Good(h), Len(h.stack) >= 2
    PROVE  LET g == Popped(h)
           IN  /\ Good(g) /\ g.filter = h.filter /\ g.buf = h.buf
               /\ g.filtering = h.filtering /\ Len(g.stack) = Len(h.stack) - 1
<1> DEFINE n == Len(h.stack)
           s == Front(h.stack)
           g == [h EXCEPT !.stack = s]
<1>1. Popped(h) = g
  BY DEF Popped
<1>2. h.stack \in Seq(Frame) /\ n \in Nat /\ n >= 2
      /\ \A i \in 1..n : Placed(h.stack[i])
  BY StackFacts DEF Good
<1>3. s = SubSeq(h.stack, 1, n - 1)
  BY DEF Front
<1>4. s \in Seq(Frame) /\ Len(s) = n - 1 /\ \A i \in 1..(n - 1) : s[i] = h.stack[i]
  BY <1>2, <1>3
<1> HIDE DEF s
<1>5. \A i \in 1..Len(s) : i \in 1..n /\ s[i] = h.stack[i]
  BY <1>2, <1>4
<1>6. Stacked(s)
  <2>1. Len(s) >= 1
    BY <1>2, <1>4
  <2> QED BY <1>2, <1>4, <1>5, <2>1 DEF Stacked
<1>7. Typed(g) /\ g.filter = h.filter /\ g.stack = s /\ g.buf = h.buf
      /\ g.filtering = h.filtering
  BY <1>6, NewStack DEF Good
<1> HIDE DEF g
<1>8. \A i \in PendingOf(s) : i \in PendingOf(h.stack) /\ s[i] = h.stack[i]
  BY <1>2, <1>4 DEF PendingOf
<1>9. Ordered(s, Len(h.buf))
  BY <1>8 DEF Good, Ordered
<1>10. Held(g)
  BY <1>5, <1>7 DEF Good, Held, AllFull
<1> QED BY <1>1, <1>4, <1>7, <1>9, <1>10 DEF Good

\* The offsets of the frame that goes are cleared.
TopFreed(h, n) == [h EXCEPT !.stack[n].rbOff = Clear, !.stack[n].keyOff = Clear]

LEMMA FreeTop ==
    ASSUME NEW h, Typed(h), NEW n, n = Len(h.stack)
    PROVE  LET g == TopFreed(h, n)
           IN  /\ Typed(g) /\ g.filter = h.filter /\ g.buf = h.buf /\ g.filtering = h.filtering
               /\ Len(g.stack) = n
               /\ g.stack[n].rbOff = Clear /\ g.stack[n].status = h.stack[n].status
               /\ \A i \in 1..n : i # n => g.stack[i] = h.stack[i]
<1> USE DEF TopFreed
<1> DEFINE g == TopFreed(h, n)
           x == h.stack[n]
           y == [x EXCEPT !.rbOff = Clear]
           z == [y EXCEPT !.keyOff = Clear]
           s == [h.stack EXCEPT ![n] = y]
           t == [s EXCEPT ![n] = z]
           a == [h EXCEPT !.stack = s]
           b == [a EXCEPT !.stack = t]
<1>1. n \in 1..n /\ x \in Frame /\ Placed(x) /\ Stacked(h.stack) /\ n \in 1..Len(h.stack)
  BY StackFacts DEF Typed
<1>2. Clear \in Int /\ Clear >= Clear
  BY DEF Clear
<1>3. y \in Frame /\ Placed(y) /\ y.rbOff = Clear /\ y.status = x.status
  BY <1>1, <1>2 DEF Frame, Placed
<1>4. z \in Frame /\ Placed(z) /\ z.rbOff = Clear /\ z.status = x.status
  <2> HIDE DEF y
  <2> QED BY <1>2, <1>3 DEF Frame, Placed
<1>5. Stacked(s) /\ Len(s) = n /\ s[n] = y /\ \A i \in 1..n : i # n => s[i] = h.stack[i]
  <2> HIDE DEF y
  <2> QED BY <1>1, <1>3, StackSet
<1>6. Stacked(t) /\ Len(t) = n /\ t[n] = z /\ \A i \in 1..n : i # n => t[i] = h.stack[i]
  <2> HIDE DEF s, z
  <2> QED BY <1>1, <1>4, <1>5, StackSet
<1>7. Typed(a) /\ a.filter = h.filter /\ a.stack = s /\ a.buf = h.buf
      /\ a.filtering = h.filtering
  <2> HIDE DEF s
  <2> QED BY <1>5, NewStack
<1>8. Typed(b) /\ b.filter = h.filter /\ b.stack = t /\ b.buf = h.buf
      /\ b.filtering = h.filtering
  <2> HIDE DEF t, a
  <2> QED BY <1>6, <1>7, NewStack
<1>9. g = b
  <2>1. b = [a EXCEPT !.stack = [a.stack EXCEPT ![n] = [a.stack[n] EXCEPT !.keyOff = Clear]]]
    <3>1. a.stack = s /\ s[n] = y
      BY <1>5, <1>7
    <3> HIDE DEF a, s, y
    <3> QED BY <3>1
  <2> QED BY <2>1
<1> HIDE DEF g, b, t, z
<1> QED BY <1>1, <1>4, <1>6, <1>8, <1>9 DEF g

LEMMA RollbackGood ==
    ASSUME NEW h, Good(h), Len(h.stack) >= 2, NEW status, NEW next,
           status # "full" => CurFrame(h).status # "full"
    PROVE  LET g == Rollback(h, status, next)
           IN  Good(g) /\ g.filter = h.filter /\ Len(g.stack) = Len(h.stack)
<1> DEFINE n == Len(h.stack)
           cur == CurFrame(h)
           discards == status # "full" /\ cur.rbOff # Clear /\ cur.rbOff < Len(h.buf)
           t == Truncated(h.buf, cur.rbOff)
           made == h.madeOutput /\ cur.rbOff # 0
           top == h.topEmitted /\ ~(Json /\ cur.rbOff = 0)
           a == [h EXCEPT !.buf = t]
           b == [a EXCEPT !.stack[n - 1].notFirst = cur.rbFlags]
           c == [b EXCEPT !.madeOutput = made]
           back == [c EXCEPT !.topEmitted = top]
           base == IF discards THEN back ELSE h
           freed == TopFreed(base, n)
           g == [freed EXCEPT !.filtering = @ \/ next # "full"]
<1>1. Rollback(h, status, next) = g
  <2>1. Cur(h) = n
    BY StackFacts DEF Good
  <2>2. [h EXCEPT !.buf = Truncated(@, cur.rbOff),
                  !.stack[Cur(h) - 1].notFirst = cur.rbFlags,
                  !.madeOutput = @ /\ cur.rbOff # 0,
                  !.topEmitted = @ /\ ~(Json /\ cur.rbOff = 0)] = back
    <3>1. h = [filter |-> h.filter, stack |-> h.stack, buf |-> h.buf,
               topEmitted |-> h.topEmitted, filtering |-> h.filtering,
               madeOutput |-> h.madeOutput]
      BY DEF Good, Typed, Shaped
    <3> HIDE DEF n, cur
    <3>2. c.topEmitted = h.topEmitted /\ b.madeOutput = h.madeOutput
      BY <3>1
    <3> QED BY <2>1, <3>1, <3>2
  <2> HIDE DEF back, cur, n
  <2> QED BY <2>1, <2>2 DEF Rollback, TopFreed, cur, n, discards, freed, base
<1>2. /\ n \in Nat /\ n >= 2 /\ n \in 1..n /\ n - 1 \in 1..n /\ cur = h.stack[n]
      /\ cur \in Frame /\ h.buf \in Seq(Token) /\ Len(h.buf) \in Nat /\ Typed(h)
  BY StackFacts DEF Good
<1>3. cur.rbFlags \in BOOLEAN /\ cur.rbOff \in Int
  BY <1>2 DEF Frame
<1>4. ASSUME discards
      PROVE  Typed(back) /\ back.filter = h.filter /\ AllAlike(h.stack, back.stack)
             /\ back.filtering = h.filtering /\ Len(back.buf) = cur.rbOff
             /\ \A i \in PendingOf(h.stack) : i # n => Before(h.stack[i], cur)
  <2>1. n \in PendingOf(h.stack)
    BY <1>2, <1>4 DEF PendingOf
  <2>2. cur.rbOff \in Nat
    BY <1>2, <1>3, <2>1 DEF Good, Ordered, Inside
  <2>3. t \in Seq(Token) /\ Len(t) = cur.rbOff
    BY <1>2, <2>2, TruncatedTypes
  <2>4. \A i \in PendingOf(h.stack) : i # n => i < n
    BY <1>2 DEF PendingOf
  <2>5. \A i \in PendingOf(h.stack) : i # n => Before(h.stack[i], cur)
    BY <1>2, <2>1, <2>4 DEF Good, Ordered
  <2> HIDE DEF n, cur, t, made, top, discards
  <2>6. Typed(a) /\ a.filter = h.filter /\ a.stack = h.stack /\ a.buf = t
        /\ a.filtering = h.filtering
    BY <1>2, <2>3, NewBuf
  <2> HIDE DEF a
  <2>7. Typed(b) /\ b.filter = a.filter /\ b.buf = t /\ b.filtering = a.filtering
        /\ AllAlike(a.stack, b.stack)
    <3>1. n - 1 \in 1..Len(a.stack)
      BY <1>2, <2>6 DEF n
    <3> QED BY <1>3, <2>6, <3>1, Marking
  <2> HIDE DEF b
  <2>8. Typed(c) /\ c.filter = b.filter /\ c.stack = b.stack /\ c.buf = t
        /\ c.filtering = b.filtering
    BY <2>7, NewMade
  <2> HIDE DEF c
  <2>9. Typed(back) /\ back.filter = c.filter /\ back.stack = c.stack /\ back.buf = t
        /\ back.filtering = c.filtering
    BY <2>8, NewTop
  <2> HIDE DEF back
  <2> QED BY <2>3, <2>5, <2>6, <2>7, <2>8, <2>9
<1> HIDE DEF back, discards, cur
<1>5. /\ Typed(base) /\ base.filter = h.filter /\ AllAlike(h.stack, base.stack)
      /\ h.filtering => base.filtering
      /\ \A i \in PendingOf(h.stack) : i # n =>
            h.stack[i].tagEnd <= Len(base.buf) /\ h.stack[i].keyOff <= Len(base.buf)
  <2>1. CASE discards
    <3>1. base = back
      BY <2>1
    <3> HIDE DEF base
    <3> QED BY <1>4, <2>1, <3>1 DEF Before
  <2>2. CASE ~discards
    <3>1. base = h
      BY <2>2
    <3>2. ASSUME NEW i \in PendingOf(h.stack)
          PROVE  h.stack[i].tagEnd <= Len(h.buf) /\ h.stack[i].keyOff <= Len(h.buf)
      <4>1. Inside(h.stack[i], Len(h.buf))
        BY DEF Good, Ordered
      <4> QED BY <1>2, <4>1 DEF Inside, Clear
    <3> QED BY <1>2, <3>1, <3>2, AlikeSelf
  <2> QED BY <2>1, <2>2
<1> HIDE DEF base
<1>6. /\ Typed(freed) /\ freed.filter = base.filter /\ freed.buf = base.buf
      /\ freed.filtering = base.filtering /\ Len(freed.stack) = n
      /\ freed.stack[n].rbOff = Clear /\ freed.stack[n].status = base.stack[n].status
      /\ \A i \in 1..n : i # n => freed.stack[i] = base.stack[i]
  <2>1. n = Len(base.stack)
    BY <1>5 DEF AllAlike
  <2> HIDE DEF n
  <2>2. Typed(base)
    BY <1>5
  <2> QED BY <2>1, <2>2, FreeTop
<1> HIDE DEF freed
<1>7. Grew(g, freed) /\ g.stack = freed.stack
  BY <1>6, FilteringGrew
<1> HIDE DEF g
<1>8. Good(freed)
  <2>1. \A i \in 1..n : /\ freed.stack[i].status = "full" <=> h.stack[i].status = "full"
                        /\ freed.stack[i].rbOff = Clear \/ Alike(h.stack[i], freed.stack[i])
    BY <1>5, <1>6 DEF AllAlike, Alike
  <2>2. \A i \in PendingOf(freed.stack) : i \in 1..n /\ i # n
    BY <1>2, <1>6 DEF PendingOf
  <2>3. \A i \in PendingOf(freed.stack) :
            i \in PendingOf(h.stack) /\ Alike(h.stack[i], freed.stack[i])
    BY <1>6, <2>1, <2>2 DEF PendingOf, Alike
  <2>4. \A i \in PendingOf(freed.stack) :
            freed.stack[i].tagEnd <= Len(freed.buf) /\ freed.stack[i].keyOff <= Len(freed.buf)
    BY <1>5, <1>6, <2>2, <2>3 DEF Alike
  <2> QED BY <1>5, <1>6, <2>1, <2>4, Moves
<1>9. Good(g)
  BY <1>7, <1>8, GrewGood
<1> QED BY <1>1, <1>5, <1>6, <1>7, <1>9 DEF Grew

-----------------------------------------------------------------------------
(* Open *)

LEMMA StatusTypes == \A f : StatusOf(f) \in {"track", "pred", "full"}
BY DEF StatusOf

LEMMA SettledStatus ==
    ASSUME NEW f, Sound(Settle(f))
    PROVE  Settle(f).status \in {"track", "pred", "full"}
<1> DEFINE a == [f EXCEPT !.status = StatusOf(f)]
           b == [a EXCEPT !.answer = StatusOf(f)]
<1>1. Settle(f) = b
  BY DEF Settle
<1>2. "status" \in DOMAIN b
  <2>1. b = [paths |-> b.paths, trie |-> b.trie, frames |-> b.frames,
             allow |-> b.allow, deny |-> b.deny, status |-> b.status, answer |-> b.answer]
    <3> HIDE DEF b
    <3> QED BY <1>1 DEF Sound, Whole
  <2> HIDE DEF b
  <2> QED BY <2>1
<1>3. b.status = a.status /\ "status" \in DOMAIN a
  BY <1>2
<1>4. a.status = StatusOf(f)
  BY <1>3
<1> QED BY <1>1, <1>3, <1>4, StatusTypes

LEMMA OpenStatusTypes ==
    ASSUME NEW f, Sound(f), NEW tag, NEW value \in Values \cup {NoValue}
    PROVE  FilterOpen(f, tag, value).status \in {"track", "pred", "full"}
<1>1. Sound(FilterOpen(f, tag, value))
  BY OpenSound
<1>2. \E g : FilterOpen(f, tag, value) = Settle(g)
  BY DEF FilterOpen
<1>3. PICK g : FilterOpen(f, tag, value) = Settle(g)
  BY <1>2
<1> QED BY <1>1, <1>3, SettledStatus

LEMMA ChangeGood ==
    ASSUME NEW h, Good(h), NEW old, NEW new
    PROVE  LET g == ChangeStatus(h, old, new)
           IN  /\ Good(g) /\ g.filter = h.filter /\ Len(g.stack) = Len(h.stack)
               /\ new # "full" => g = h
<1>1. Settles(CommitCompact(h), h)
  BY CommitCompactSettles DEF Good
<1>2. Good(CommitCompact(h))
  BY <1>1, FullIsGood DEF Settles
<1> QED BY <1>1, <1>2 DEF ChangeStatus, Settles

LEMMA HoldingGrew ==
    ASSUME NEW h, Typed(h), NEW status, NEW old
    PROVE  LET g == Holding(h, status, old)
           IN  /\ Grew(g, h) /\ g.stack = h.stack /\ g.buf = h.buf
               /\ status = "pred" \/ (status = "track" /\ old = "full") => g.filtering
<1> DEFINE x == status = "pred" \/ (status = "track" /\ old = "full")
           g == [h EXCEPT !.filtering = @ \/ x]
<1>1. Holding(h, status, old) = g
  <2>1. (h.filtering \/ status = "pred" \/ (status = "track" /\ old = "full"))
            = (h.filtering \/ x)
    OBVIOUS
  <2> HIDE DEF x
  <2> QED BY <2>1 DEF Holding
<1>2. Grew(g, h) /\ g.stack = h.stack /\ g.buf = h.buf /\ g.filtering = (h.filtering \/ x)
  <2> HIDE DEF x
  <2> QED BY FilteringGrew
<1> HIDE DEF g
<1> QED BY <1>1, <1>2

\* A construct is opened, on a handle that has heard the filter's answer.
Entered(ready, h, kind, name, status, start) ==
    Pushed(Holding(Opened(ready, kind, name), status, CurFrame(h).status), h,
           kind, name, status, start)

LEMMA OpenGood ==
    ASSUME NEW h, Good(h), NEW ready, Good(ready), Len(ready.stack) = Len(h.stack),
           NEW status \in {"track", "pred", "full"},
           NEW start \in Nat \cup {Clear},
           status # "full" => start \in {Clear, Len(h.buf)},
           status # "full" => /\ AllAlike(h.stack, ready.stack)
                              /\ Len(h.buf) <= Len(ready.buf)
                              /\ h.filtering => ready.filtering,
           NEW kind \in {"list", "container", "instance"}, NEW name \in Labels
    PROVE  LET g == Entered(ready, h, kind, name, status, start)
           IN  Good(g)
<1> DEFINE n == Len(h.stack)
           old == CurFrame(h).status
           opened == Opened(ready, kind, name)
           held == Holding(opened, status, old)
           g == Pushed(held, h, kind, name, status, start)
<1>1. Grew(opened, ready)
  BY OpenedGrew DEF Good
<1>2. Typed(opened)
  BY <1>1 DEF Grew
<1> HIDE DEF opened
<1>3. /\ Grew(held, opened)
      /\ status = "pred" \/ (status = "track" /\ old = "full") => held.filtering
  BY <1>2, HoldingGrew
<1> HIDE DEF held
<1>4. Grew(held, ready)
  BY <1>1, <1>3, GrewChain DEF Good
<1>5. Good(held)
  BY <1>4, GrewGood
<1>6. Len(held.stack) = n /\ held.filter = ready.filter
  BY <1>4 DEF Grew, AllAlike
<1>7. status \in Statuses /\ Typed(held) /\ Typed(h)
  BY <1>5 DEF Good, Statuses
<1>8. /\ Typed(g) /\ g.filter = held.filter /\ g.buf = held.buf
      /\ g.filtering = held.filtering
      /\ Len(g.stack) = Len(held.stack) + 1
      /\ \A i \in 1..Len(held.stack) : g.stack[i] = held.stack[i]
      /\ g.stack[Len(held.stack) + 1].status = status
      /\ g.stack[Len(held.stack) + 1].rbOff = start
      /\ g.stack[Len(held.stack) + 1].tagEnd = Len(held.buf)
      /\ g.stack[Len(held.stack) + 1].keyOff = Clear
  <2>1. OneMore(g, held, status, start)
    BY <1>7, PushedTypes
  <2> HIDE DEF g
  <2> QED BY <2>1 DEF OneMore
<1> HIDE DEF g
<1> DEFINE top == g.stack[Len(held.stack) + 1]
<1>9. ASSUME status # "full"
      PROVE  held.filtering
  <2>1. CASE old # "full"
    <3>1. CurFrame(h) = h.stack[n] /\ n \in 1..n
      BY <1>7, StackFacts
    <3>2. ~AllFull(h.stack)
      <4> HIDE DEF n
      <4> QED BY <2>1, <3>1 DEF AllFull, n
    <3>3. h.filtering
      BY <3>2 DEF Good, Held
    <3>4. ready.filtering
      BY <1>9, <3>3
    <3> QED BY <1>4, <3>4 DEF Grew
  <2>2. CASE old = "full"
    <3>1. status = "pred" \/ status = "track"
      BY <1>9
    <3> HIDE DEF old
    <3> QED BY <1>3, <2>2, <3>1
  <2> QED BY <2>1, <2>2
<1>10. ASSUME status # "full", start # Clear
       PROVE  Inside(top, Len(held.buf)) /\ \A i \in PendingOf(held.stack) : Before(held.stack[i], top)
  <2>1. start = Len(h.buf) /\ Len(h.buf) <= Len(ready.buf) /\ AllAlike(h.stack, ready.stack)
    BY <1>10
  <2>2. Len(h.buf) \in Nat /\ Len(ready.buf) \in Nat /\ Len(held.buf) \in Nat
    BY <1>7, StackFacts DEF Good
  <2>3. Len(ready.buf) <= Len(held.buf) /\ AllAlike(h.stack, held.stack)
    BY <1>4, <2>1, AlikeChain DEF Grew
  <2>4. Inside(top, Len(held.buf))
    BY <1>8, <2>1, <2>2, <2>3 DEF Inside
  <2>5. ASSUME NEW i \in PendingOf(held.stack)
        PROVE  Before(held.stack[i], top)
    <3>1. i \in 1..n /\ i \in PendingOf(h.stack) /\ Alike(h.stack[i], held.stack[i])
      <4>1. n \in Nat
        BY <1>7, StackFacts
      <4> QED BY <4>1, <1>6, <2>3 DEF PendingOf, AllAlike, Alike
    <3>2. Inside(h.stack[i], Len(h.buf))
      BY <3>1 DEF Good, Ordered
    <3>3. h.stack[i].tagEnd <= start /\ h.stack[i].keyOff <= start
      BY <2>1, <2>2, <3>2 DEF Inside, Clear
    <3> QED BY <1>8, <3>1, <3>3 DEF Before, Alike
  <2> QED BY <2>4, <2>5
<1>11. \/ top.status = "full"
       \/ /\ held.filtering
          /\ \/ top.rbOff = Clear
             \/ /\ Inside(top, Len(held.buf))
                /\ \A i \in PendingOf(held.stack) : Before(held.stack[i], top)
  <2>1. top.status = status /\ top.rbOff = start
    BY <1>8
  <2> HIDE DEF top
  <2> QED BY <2>1, <1>9, <1>10
<1>12. Good(g)
  <2>1. \A i \in 1..Len(held.stack) : g.stack[i] = held.stack[i]
    BY <1>8
  <2>2. top = g.stack[Len(held.stack) + 1]
    OBVIOUS
  <2>3. Typed(g) /\ g.buf = held.buf /\ g.filtering = held.filtering
        /\ Len(g.stack) = Len(held.stack) + 1
    BY <1>8
  <2> HIDE DEF top
  <2> QED BY <1>5, <1>11, <2>1, <2>2, <2>3, PushGood
<1> QED BY <1>12 DEF Entered, g, held, opened

LEMMA OpenDepth ==
    ASSUME NEW h, Typed(h), NEW ready, Typed(ready), NEW status \in Statuses,
           NEW start \in Nat \cup {Clear},
           NEW kind \in {"list", "container", "instance"}, NEW name \in Labels
    PROVE  Len(Entered(ready, h, kind, name, status, start).stack) = Len(ready.stack) + 1
<1> DEFINE opened == Opened(ready, kind, name)
           held == Holding(opened, status, CurFrame(h).status)
           g == Pushed(held, h, kind, name, status, start)
<1>1. Grew(opened, ready)
  BY OpenedGrew
<1> HIDE DEF opened
<1>2. Typed(held) /\ Len(held.stack) = Len(ready.stack)
  <2>1. Grew(held, opened)
    BY <1>1, HoldingGrew DEF Grew
  <2> HIDE DEF held
  <2> QED BY <1>1, <2>1 DEF Grew, AllAlike
<1> HIDE DEF held
<1>3. Len(g.stack) = Len(held.stack) + 1
  <2>1. OneMore(g, held, status, start)
    BY <1>2, PushedTypes
  <2> HIDE DEF g
  <2> QED BY <2>1 DEF OneMore
<1> QED BY <1>2, <1>3 DEF Entered, held, opened

LEMMA OpenContainerGood ==
    ASSUME NEW h, Good(h), NEW name \in Containers
    PROVE  Good(OpenContainer(h, name)) /\ Len(OpenContainer(h, name).stack) = Len(h.stack) + 1
<1> DEFINE f == FilterOpen(h.filter, name, NoValue)
           old == CurFrame(h).status
           asked == [h EXCEPT !.filter = f]
           changed == ChangeStatus(asked, old, f.status)
           ready == TopEmitted(changed)
           start == IF f.status \in {"full", "zero"} THEN Clear ELSE Len(h.buf)
           g == Entered(ready, h, "container", name, f.status, start)
<1>1. OpenContainer(h, name) = g
  BY DEF OpenContainer, Asked, Entered
<1>2. Sound(f) /\ Told(f) /\ f.status \in {"track", "pred", "full"}
  BY OpenSound, OpenStatusTypes DEF Good, Typed
<1>3. Len(h.buf) \in Nat /\ Typed(h)
  BY StackFacts DEF Good
<1>4. /\ start \in Nat \cup {Clear}
      /\ f.status # "full" => start \in {Clear, Len(h.buf)}
  BY <1>2, <1>3
<1> HIDE DEF f, start
<1>5. Typed(asked) /\ asked.filter = f /\ asked.stack = h.stack /\ asked.buf = h.buf
      /\ asked.filtering = h.filtering
  BY <1>2, <1>3, NewFilter
<1> HIDE DEF asked
<1>6. Good(asked)
  BY <1>5 DEF Good, Held
<1>7. /\ Good(changed) /\ Len(changed.stack) = Len(h.stack)
      /\ f.status # "full" => changed = asked
  BY <1>5, <1>6, ChangeGood
<1> HIDE DEF changed
<1>8. Grew(ready, changed)
  BY <1>7, TopGrew DEF Good
<1> HIDE DEF ready
<1>9. Good(ready) /\ Len(ready.stack) = Len(h.stack)
  BY <1>7, <1>8, GrewGood DEF Grew, AllAlike
<1>10. f.status # "full" => /\ AllAlike(h.stack, ready.stack)
                            /\ Len(h.buf) <= Len(ready.buf)
                            /\ h.filtering => ready.filtering
  BY <1>5, <1>7, <1>8 DEF Grew
<1>11. name \in Labels
  BY LabelTypes
<1>12. Good(g) /\ Len(g.stack) = Len(h.stack) + 1
  <2>1. Good(g)
    BY <1>2, <1>4, <1>9, <1>10, <1>11, OpenGood
  <2>2. Len(g.stack) = Len(h.stack) + 1
    <3>1. Typed(h) /\ Typed(ready) /\ f.status \in Statuses
      BY <1>2, <1>9 DEF Good, Statuses
    <3> QED BY <1>4, <1>9, <1>11, <3>1, OpenDepth
  <2> QED BY <2>1, <2>2
<1> QED BY <1>1, <1>12

LEMMA OpenInstanceGood ==
    ASSUME NEW h, Good(h), NEW name \in Labels
    PROVE  Good(OpenInstance(h, name)) /\ Len(OpenInstance(h, name).stack) = Len(h.stack) + 1
<1> DEFINE f == FilterOpen(h.filter, name, NoValue)
           old == CurFrame(h).status
           asked == [h EXCEPT !.filter = f]
           ready == ChangeStatus(asked, old, f.status)
           start == Len(h.buf)
           g == Entered(ready, h, "instance", name, f.status, start)
<1>1. OpenInstance(h, name) = g
  BY DEF OpenInstance, Asked, Entered
<1>2. Sound(f) /\ Told(f) /\ f.status \in {"track", "pred", "full"}
  BY OpenSound, OpenStatusTypes DEF Good, Typed
<1>3. Len(h.buf) \in Nat /\ Typed(h)
  BY StackFacts DEF Good
<1> HIDE DEF f
<1>4. Typed(asked) /\ asked.filter = f /\ asked.stack = h.stack /\ asked.buf = h.buf
      /\ asked.filtering = h.filtering
  BY <1>2, <1>3, NewFilter
<1> HIDE DEF asked
<1>5. Good(asked)
  BY <1>4 DEF Good, Held
<1>6. /\ Good(ready) /\ Len(ready.stack) = Len(h.stack)
      /\ f.status # "full" => ready = asked
  BY <1>4, <1>5, ChangeGood
<1> HIDE DEF ready
<1>7. f.status # "full" => /\ AllAlike(h.stack, ready.stack)
                           /\ Len(h.buf) <= Len(ready.buf)
                           /\ h.filtering => ready.filtering
  BY <1>3, <1>4, <1>6, AlikeSelf
<1>8. start \in Nat \cup {Clear} /\ (f.status # "full" => start \in {Clear, Len(h.buf)})
  BY <1>3
<1> HIDE DEF start
<1>9. Good(g) /\ Len(g.stack) = Len(h.stack) + 1
  <2>1. Good(g)
    BY <1>2, <1>6, <1>7, <1>8, OpenGood
  <2>2. Len(g.stack) = Len(h.stack) + 1
    <3>1. Typed(h) /\ Typed(ready) /\ f.status \in Statuses
      BY <1>2, <1>6 DEF Good, Statuses
    <3> QED BY <1>6, <1>8, <3>1, OpenDepth
  <2> QED BY <2>1, <2>2
<1> QED BY <1>1, <1>9

LEMMA OpenListGood ==
    ASSUME NEW h, Good(h), NEW name \in Lists
    PROVE  Good(OpenList(h, name)) /\ Len(OpenList(h, name).stack) = Len(h.stack) + 1
<1> DEFINE n == Len(h.stack)
           ready == TopEmitted(h)
           opened == Opened(ready, "list", name)
           held == [opened EXCEPT !.filtering = @ \/ CurFrame(h).status = "full"]
           g == Pushed(held, h, "list", name, "zero", Len(h.buf))
           top == g.stack[Len(held.stack) + 1]
<1>1. OpenList(h, name) = g
  BY DEF OpenList
<1>2. Typed(h) /\ Len(h.buf) \in Nat /\ name \in Labels /\ "zero" \in Statuses
      /\ n \in Nat /\ n \in 1..n /\ CurFrame(h) = h.stack[n]
  BY StackFacts, LabelTypes DEF Good, Statuses
<1>3. Grew(ready, h)
  BY <1>2, TopGrew
<1>4. Grew(opened, ready)
  <2> HIDE DEF ready
  <2> QED BY <1>2, <1>3, OpenedGrew DEF Grew
<1> HIDE DEF ready, opened
<1>5. Grew(held, opened) /\ held.filtering = (opened.filtering \/ CurFrame(h).status = "full")
  BY <1>4, FilteringGrew DEF Grew
<1> HIDE DEF held
<1>6. Grew(held, h)
  BY <1>2, <1>3, <1>4, <1>5, GrewChain
<1>7. Good(held) /\ Typed(held) /\ Len(held.stack) = n /\ Len(held.buf) \in Nat
  BY <1>6, GrewGood, StackFacts DEF Grew, AllAlike
<1>8. OneMore(g, held, "zero", Len(h.buf))
  BY <1>2, <1>7, PushedTypes
<1> HIDE DEF g
<1>9. /\ Typed(g) /\ g.buf = held.buf /\ g.filtering = held.filtering
      /\ Len(g.stack) = Len(held.stack) + 1
      /\ \A i \in 1..Len(held.stack) : g.stack[i] = held.stack[i]
  BY <1>8 DEF OneMore
<1>10. top.rbOff = Len(h.buf) /\ top.tagEnd = Len(held.buf) /\ top.keyOff = Clear
  BY <1>8 DEF OneMore
<1>11. held.filtering
  <2>1. CASE CurFrame(h).status = "full"
    BY <1>5, <2>1
  <2>2. CASE CurFrame(h).status # "full"
    <3>1. ~AllFull(h.stack)
      <4> HIDE DEF n
      <4> QED BY <1>2, <2>2 DEF AllFull, n
    <3>2. h.filtering
      BY <3>1 DEF Good, Held
    <3> QED BY <1>6, <3>2 DEF Grew
  <2> QED BY <2>1, <2>2
<1>12. Inside(top, Len(held.buf))
  BY <1>2, <1>6, <1>7, <1>10 DEF Inside, Grew
<1>13. ASSUME NEW i \in PendingOf(held.stack)
       PROVE  Before(held.stack[i], top)
  <2>1. i \in PendingOf(h.stack) /\ Alike(h.stack[i], held.stack[i])
    BY <1>2, <1>6, <1>7 DEF PendingOf, Grew, AllAlike, Alike
  <2>2. Inside(h.stack[i], Len(h.buf))
    BY <2>1 DEF Good, Ordered
  <2>3. h.stack[i].tagEnd <= Len(h.buf) /\ h.stack[i].keyOff <= Len(h.buf)
    BY <1>2, <2>2 DEF Inside, Clear
  <2> QED BY <1>10, <2>1, <2>3 DEF Before, Alike
<1>14. Good(g)
  <2>1. top = g.stack[Len(held.stack) + 1]
    OBVIOUS
  <2> HIDE DEF top
  <2> QED BY <1>7, <1>8, <1>9, <1>11, <1>12, <1>13, <2>1, PushGood
<1> QED BY <1>1, <1>7, <1>9, <1>14

-----------------------------------------------------------------------------
(* Close *)

LEMMA AskedGood ==
    ASSUME NEW h, Good(h), NEW f, Sound(f), Told(f)
    PROVE  LET g == Asked(h, f)
           IN  Good(g) /\ g.stack = h.stack /\ g.buf = h.buf /\ g.filter = f
<1> DEFINE g == [h EXCEPT !.filter = f]
<1>1. Typed(g) /\ g.filter = f /\ g.stack = h.stack /\ g.buf = h.buf
      /\ g.filtering = h.filtering
  BY NewFilter DEF Good
<1> HIDE DEF g
<1>2. Good(g)
  BY <1>1 DEF Good, Held
<1>3. Asked(h, f) = g
  BY DEF Asked, g
<1> QED BY <1>1, <1>2, <1>3

LEMMA RolledBack ==
    ASSUME NEW h, Good(h), Len(h.stack) >= 2, NEW status, NEW next,
           status # "full" => CurFrame(h).status # "full"
    PROVE  LET g == Popped(Rollback(h, status, next))
           IN  Good(g) /\ Len(g.stack) = Len(h.stack) - 1
<1>1. Good(Rollback(h, status, next)) /\ Len(Rollback(h, status, next).stack) = Len(h.stack)
  BY RollbackGood
<1> QED BY <1>1, PoppedGood

LEMMA ClosedGood ==
    ASSUME NEW h, Good(h), NEW kind, NEW name \in Labels
    PROVE  Good(Closed(h, kind, name)) /\ Len(Closed(h, kind, name).stack) = Len(h.stack)
<1>1. Grew(Closed(h, kind, name), h)
  BY ClosedGrew DEF Good
<1> QED BY <1>1, GrewGood DEF Grew, AllAlike

LEMMA CurName ==
    ASSUME NEW h, Good(h)
    PROVE  /\ CurFrame(h).name \in Labels /\ CurFrame(h) = h.stack[Len(h.stack)]
           /\ Len(h.stack) \in Nat
<1>1. CurFrame(h) \in Frame /\ CurFrame(h) = h.stack[Len(h.stack)] /\ Len(h.stack) \in Nat
  BY StackFacts DEF Good
<1> QED BY <1>1, LabelTypes

LEMMA CloseContainerGood ==
    ASSUME NEW h, Good(h), Len(h.stack) >= 2
    PROVE  Good(CloseContainer(h)) /\ Len(CloseContainer(h).stack) = Len(h.stack) - 1
<1> DEFINE cur == CurFrame(h)
           f == FilterClose(h.filter)
           asked == Asked(h, f)
           rolled == Popped(Rollback(asked, cur.status, f.answer))
           shut == Closed(Popped(asked), "container", cur.name)
<1>1. CloseContainer(h) = IF cur.rbOff # Clear THEN rolled ELSE shut
  BY DEF CloseContainer
<1>2. Sound(f) /\ Told(f)
  BY CloseSound DEF Good, Typed
<1> HIDE DEF f
<1>3. Good(asked) /\ asked.stack = h.stack
  BY <1>2, AskedGood
<1> HIDE DEF asked
<1>4. CurFrame(asked).status = cur.status
  BY <1>3 DEF CurFrame, Cur
<1>5. cur.name \in Labels
  BY CurName
<1> HIDE DEF cur
<1>6. Good(rolled) /\ Len(rolled.stack) = Len(h.stack) - 1
  BY <1>3, <1>4, RolledBack
<1>7. Good(Popped(asked)) /\ Len(Popped(asked).stack) = Len(h.stack) - 1
  BY <1>3, PoppedGood
<1>8. Good(shut) /\ Len(shut.stack) = Len(h.stack) - 1
  BY <1>5, <1>7, ClosedGood
<1> HIDE DEF rolled, shut
<1> QED BY <1>1, <1>6, <1>8

LEMMA CloseListGood ==
    ASSUME NEW h, Good(h), Len(h.stack) >= 2
    PROVE  Good(CloseList(h)) /\ Len(CloseList(h).stack) = Len(h.stack) - 1
<1> DEFINE cur == CurFrame(h)
           item == [h EXCEPT !.stack[Cur(h)].notFirst = TRUE]
           popped == Popped(h)
           marked == [popped EXCEPT !.stack[Cur(popped)].notFirst = TRUE]
           rolled == Popped(Rollback(item, cur.status, cur.status))
           shut == Closed(popped, "list", cur.name)
<1>1. CloseList(h) = IF ~Json THEN marked ELSE IF cur.rbOff # Clear THEN rolled ELSE shut
  BY DEF CloseList
<1>2. /\ Typed(h) /\ Cur(h) \in 1..Len(h.stack) /\ cur.name \in Labels
      /\ cur = h.stack[Len(h.stack)] /\ Len(h.stack) \in 1..Len(h.stack)
  BY StackFacts, CurName DEF Good
<1>3. Grew(item, h)
  BY <1>2, MarkingGrew
<1> HIDE DEF item
<1>4. Good(item) /\ Len(item.stack) = Len(h.stack)
  BY <1>3, GrewGood DEF Grew, AllAlike
<1>5. cur.status # "full" => CurFrame(item).status # "full"
  BY <1>2, <1>3, <1>4 DEF Grew, AllAlike, Alike, CurFrame, Cur
<1> HIDE DEF cur
<1>6. Good(rolled) /\ Len(rolled.stack) = Len(h.stack) - 1
  BY <1>4, <1>5, RolledBack
<1>7. Good(popped) /\ Len(popped.stack) = Len(h.stack) - 1
  BY PoppedGood
<1> HIDE DEF popped
<1>8. Good(shut) /\ Len(shut.stack) = Len(h.stack) - 1
  BY <1>2, <1>7, ClosedGood
<1>9. Good(marked) /\ Len(marked.stack) = Len(h.stack) - 1
  <2>1. Typed(popped) /\ Cur(popped) \in 1..Len(popped.stack)
    BY <1>7, StackFacts DEF Good
  <2>2. Grew(marked, popped)
    BY <2>1, MarkingGrew
  <2> HIDE DEF marked
  <2> QED BY <1>7, <2>2, GrewGood DEF Grew, AllAlike
<1> HIDE DEF rolled, shut, marked
<1> QED BY <1>1, <1>6, <1>8, <1>9

LEMMA InstanceClosedGood ==
    ASSUME NEW h, Good(h), Len(h.stack) >= 2, NEW status, NEW next,
           status # "full" => CurFrame(h).status # "full"
    PROVE  LET g == InstanceClosed(h, status, next)
           IN  Good(g) /\ Len(g.stack) = Len(h.stack) - 1
<1> DEFINE name == CurFrame(h).name
           back == Popped(Rollback(h, status, next))
<1>1. InstanceClosed(h, status, next) \in
        {Closed(back, "instance", name), back, Closed(Popped(h), "instance", name)}
  BY DEF InstanceClosed
<1>2. name \in Labels
  BY CurName
<1> HIDE DEF name
<1>3. Good(back) /\ Len(back.stack) = Len(h.stack) - 1
  BY RolledBack
<1> HIDE DEF back
<1>4. Good(Popped(h)) /\ Len(Popped(h).stack) = Len(h.stack) - 1
  BY PoppedGood
<1>5. /\ Good(Closed(back, "instance", name))
      /\ Len(Closed(back, "instance", name).stack) = Len(h.stack) - 1
  BY <1>2, <1>3, ClosedGood
<1>6. /\ Good(Closed(Popped(h), "instance", name))
      /\ Len(Closed(Popped(h), "instance", name).stack) = Len(h.stack) - 1
  BY <1>2, <1>4, ClosedGood
<1> QED BY <1>1, <1>3, <1>5, <1>6

LEMMA CloseInstanceGood ==
    ASSUME NEW h, Good(h), Len(h.stack) >= 2
    PROVE  Good(CloseInstanceFrame(h)) /\ Len(CloseInstanceFrame(h).stack) = Len(h.stack) - 1
<1> DEFINE f == FilterCloseInstance(h.filter)
           status == CurFrame(h).status
           asked == Asked(h, f)
           kept == InstanceClosed(Commit(asked), "full", f.answer)
           plain == InstanceClosed(asked, status, f.answer)
<1>1. CloseInstanceFrame(h) = IF status = "pred" /\ f.answer = "full" THEN kept ELSE plain
  BY DEF CloseInstanceFrame
<1>2. Sound(f) /\ Told(f)
  BY CloseInstanceSound DEF Good, Typed
<1> HIDE DEF f
<1>3. Good(asked) /\ asked.stack = h.stack
  BY <1>2, AskedGood
<1> HIDE DEF asked
<1>4. CurFrame(asked).status = status
  BY <1>3 DEF CurFrame, Cur
<1> HIDE DEF status
<1>5. Good(plain) /\ Len(plain.stack) = Len(h.stack) - 1
  BY <1>3, <1>4, InstanceClosedGood
<1>6. Good(Commit(asked)) /\ Len(Commit(asked).stack) = Len(h.stack)
  <2>1. Settles(Commit(asked), asked)
    BY <1>3, CommitSettles DEF Good
  <2> QED BY <1>3, <2>1, FullIsGood DEF Settles
<1>7. Good(kept) /\ Len(kept.stack) = Len(h.stack) - 1
  BY <1>6, InstanceClosedGood
<1> HIDE DEF kept, plain
<1> QED BY <1>1, <1>5, <1>7

-----------------------------------------------------------------------------
(* Fields *)

LEMMA AskedOfFieldSound ==
    ASSUME NEW f, Sound(f), Told(f), NEW name \in Fields, NEW value \in Values
    PROVE  /\ Sound(ValueAsked(f, name, value)) /\ Told(ValueAsked(f, name, value))
           /\ Sound(AskedOfField(f, name, value)) /\ Told(AskedOfField(f, name, value))
<1>1. name \in Tags
  BY LabelTypes
<1>2. Sound(ValueAsked(f, name, value)) /\ Told(ValueAsked(f, name, value))
  BY <1>1, KeySound, PredFieldSound DEF ValueAsked
<1> QED BY <1>2, OpenSound DEF AskedOfField

\* Either all is settled, or nothing but a status has changed.
Answers(g, h) ==
    /\ Good(g) /\ Len(g.stack) = Len(h.stack)
    /\ \/ AllFull(g.stack)
       \/ g.buf = h.buf /\ AllAlike(h.stack, g.stack)

LEMMA SettlesAnswers ==
    ASSUME NEW h, NEW g, Settles(g, h)
    PROVE  Answers(g, h)
BY FullIsGood DEF Settles, Answers

LEMMA StatusTracked ==
    ASSUME NEW h, Good(h), CurFrame(h).status = "pred"
    PROVE  Answers([h EXCEPT !.stack[Cur(h)].status = "track"], h)
<1> DEFINE n == Len(h.stack)
           frame == [h.stack[n] EXCEPT !.status = "track"]
           s == [h.stack EXCEPT ![n] = frame]
           g == [h EXCEPT !.stack = s]
<1>1. /\ n \in 1..n /\ h.stack[n] \in Frame /\ Placed(h.stack[n]) /\ Cur(h) = n
      /\ CurFrame(h) = h.stack[n] /\ Len(h.buf) \in Nat /\ Stacked(h.stack) /\ n \in 1..Len(h.stack)
  BY StackFacts DEF Good, Typed
<1>2. [h EXCEPT !.stack[Cur(h)].status = "track"] = g
  BY <1>1
<1>3. "track" \in Statuses
  BY DEF Statuses
<1>4. frame \in Frame /\ Placed(frame) /\ Alike(h.stack[n], frame)
  <2>1. frame \in Frame /\ Placed(frame) /\ frame.status = "track"
        /\ frame.rbOff = h.stack[n].rbOff /\ frame.tagEnd = h.stack[n].tagEnd
        /\ frame.keyOff = h.stack[n].keyOff
    BY <1>1, <1>3, FrameStatus
  <2> HIDE DEF frame
  <2> QED BY <1>1, <2>1 DEF Alike
<1> HIDE DEF frame
<1>5. Stacked(s) /\ Len(s) = n /\ s[n] = frame /\ \A i \in 1..n : i # n => s[i] = h.stack[i]
  BY <1>1, <1>4, StackSet
<1> HIDE DEF s
<1>6. AllAlike(h.stack, s)
  BY <1>4, <1>5 DEF AllAlike, Alike
<1>7. Typed(g) /\ g.stack = s /\ g.buf = h.buf /\ g.filtering = h.filtering
  BY <1>5, NewStack DEF Good
<1> HIDE DEF g
<1>8. Good(g)
  BY <1>1, <1>6, <1>7, Grows
<1> QED BY <1>2, <1>5, <1>6, <1>7, <1>8 DEF Answers

LEMMA AnswersChain ==
    ASSUME NEW f, NEW g, NEW h, Good(f), Answers(g, f), Answers(h, g)
    PROVE  Answers(h, f)
<1>1. Len(f.stack) \in Nat
  BY StackFacts DEF Good
<1>2. CASE AllFull(h.stack)
  BY <1>2 DEF Answers
<1>3. CASE ~AllFull(h.stack)
  <2>1. h.buf = g.buf /\ AllAlike(g.stack, h.stack)
    BY <1>3 DEF Answers
  <2>2. ~AllFull(g.stack)
    BY <1>3, <2>1 DEF AllFull, AllAlike, Alike
  <2>3. g.buf = f.buf /\ AllAlike(f.stack, g.stack)
    BY <2>2 DEF Answers
  <2> QED BY <2>1, <2>3, AlikeChain DEF Answers
<1> QED BY <1>2, <1>3

LEMMA AskedAnswers ==
    ASSUME NEW h, Good(h), NEW f, Sound(f), Told(f)
    PROVE  Answers(Asked(h, f), h)
<1>1. Good(Asked(h, f)) /\ Asked(h, f).stack = h.stack /\ Asked(h, f).buf = h.buf
  BY AskedGood
<1> QED BY <1>1, AlikeSelf DEF Answers

LEMMA OpenStatusAnswers ==
    ASSUME NEW h, Good(h), NEW status
    PROVE  Answers(OpenStatus(h, status), h)
<1>1. Answers(h, h)
  BY AlikeSelf DEF Answers
<1>2. Answers(Commit(h), h)
  BY CommitSettles, SettlesAnswers DEF Good
<1>3. CurFrame(h).status = "pred" => Answers([h EXCEPT !.stack[Cur(h)].status = "track"], h)
  BY StatusTracked
<1> DEFINE g == [h EXCEPT !.stack[Cur(h)].status = "track"]
<1>4. OpenStatus(h, status) = IF status = "full" THEN Commit(h)
                              ELSE IF status = "track" /\ CurFrame(h).status = "pred"
                              THEN g ELSE h
  BY DEF OpenStatus
<1> HIDE DEF g
<1> QED BY <1>1, <1>2, <1>3, <1>4 DEF g

LEMMA DoOpenFieldAnswers ==
    ASSUME NEW h, Good(h), NEW name \in Fields, NEW value \in Values, NEW start \in Nat
    PROVE  Answers(DoOpenField(h, name, value, start), h)
<1> DEFINE key == name \in KeyFields
           asks == key \/ (h.filter.status \in {"track", "pred"} /\ value # Empty)
           told2 == ValueAsked(h.filter, name, value)
           asked == Asked(h, told2)
           answered == IF asks THEN OpenStatus(asked, told2.answer) ELSE h
           f == AskedOfField(h.filter, name, value)
           opened == Asked(answered, f)
           g == FieldCommitted(opened, key, start)
<1>1. DoOpenField(h, name, value, start) = g
  BY DEF DoOpenField
<1>2. Sound(told2) /\ Told(told2) /\ Sound(f) /\ Told(f)
  BY AskedOfFieldSound DEF Good, Typed
<1> HIDE DEF f, told2, asks
<1>3. Answers(asked, h) /\ Good(asked)
  BY <1>2, AskedAnswers DEF Answers
<1> HIDE DEF asked
<1>4. Answers(OpenStatus(asked, told2.answer), asked)
  BY <1>3, OpenStatusAnswers
<1>5. Answers(OpenStatus(asked, told2.answer), h) /\ Answers(h, h)
  BY <1>3, <1>4, AnswersChain, AlikeSelf DEF Answers
<1>6. Answers(answered, h) /\ Good(answered)
  BY <1>5 DEF Answers
<1> HIDE DEF answered
<1>7. Answers(opened, answered)
  BY <1>2, <1>6, AskedAnswers
<1>8. Answers(opened, h) /\ Good(opened) /\ Typed(opened)
  BY <1>6, <1>7, AnswersChain DEF Answers, Good
<1> HIDE DEF opened
<1>9. Answers(Commit(opened), opened) /\ Answers(CommitField(opened, start), opened)
  BY <1>8, CommitSettles, CommitFieldSettles, SettlesAnswers
<1>10. g \in {opened, Commit(opened), CommitField(opened, start)}
  BY DEF FieldCommitted
<1> HIDE DEF g
<1>11. Answers(g, h)
  BY <1>8, <1>9, <1>10, AnswersChain
<1> QED BY <1>1, <1>11

LEMMA FieldWrittenGrew ==
    ASSUME NEW h, Typed(h), NEW name \in Fields
    PROVE  Grew(FieldWritten(h, name), h)
<1> DEFINE blank == IF opts.pretty THEN <<Mark("blank")>> ELSE <<>>
           sep == IF CurFrame(h).notFirst THEN <<Mark("comma")>> \o blank ELSE <<>>
           field == Tok("field", name, "none")
           tokens == sep \o <<Mark("quote"), field>>
           w == Wrote(h, tokens)
           g == [w EXCEPT !.stack[Cur(h)].notFirst = TRUE]
<1>1. FieldWritten(h, name) = IF Json THEN g ELSE Wrote(h, <<field>>)
  BY DEF FieldWritten
<1>2. /\ blank \in Seq(Token) /\ <<Mark("comma")>> \in Seq(Token) /\ field \in Token
      /\ Mark("quote") \in Token
  BY TokenTypes, LabelTypes
<1> HIDE DEF blank, field
<1>3. sep \in Seq(Token)
  BY <1>2
<1> HIDE DEF sep
<1>4. tokens \in Seq(Token) /\ <<field>> \in Seq(Token)
  BY <1>2, <1>3
<1> HIDE DEF tokens
<1>5. Grew(w, h) /\ w.stack = h.stack
  BY <1>4, WroteGrew
<1> HIDE DEF w
<1>6. Typed(w) /\ Cur(h) \in 1..Len(w.stack)
  BY <1>5, StackFacts DEF Grew
<1>7. Grew(g, w)
  BY <1>6, MarkingGrew
<1> HIDE DEF g
<1>8. Grew(g, h)
  BY <1>5, <1>7, GrewChain
<1>9. Grew(Wrote(h, <<field>>), h)
  BY <1>4, WroteGrew
<1> QED BY <1>1, <1>8, <1>9

\* A key belongs to the frame on top, which ends where the text ends.
LEMMA KeyNoted ==
    ASSUME NEW h, Good(h)
    PROVE  LET g == [h EXCEPT !.stack[Cur(h)].keyOff = Len(h.buf)]
           IN  Good(g) /\ Len(g.stack) = Len(h.stack)
<1> DEFINE n == Len(h.stack)
           frame == [h.stack[n] EXCEPT !.keyOff = Len(h.buf)]
           s == [h.stack EXCEPT ![n] = frame]
           g == [h EXCEPT !.stack = s]
<1>1. /\ n \in Nat /\ n \in 1..n /\ n \in 1..Len(h.stack) /\ Cur(h) = n /\ Stacked(h.stack)
      /\ h.stack[n] \in Frame /\ Placed(h.stack[n]) /\ Len(h.buf) \in Nat /\ Typed(h)
  BY StackFacts DEF Good, Typed
<1>2. [h EXCEPT !.stack[Cur(h)].keyOff = Len(h.buf)] = g
  BY <1>1
<1>3. frame \in Frame /\ frame.rbOff = h.stack[n].rbOff /\ frame.tagEnd = h.stack[n].tagEnd
      /\ frame.keyOff = Len(h.buf) /\ frame.status = h.stack[n].status
  BY <1>1 DEF Frame
<1> HIDE DEF frame
<1>4. Placed(frame)
  BY <1>1, <1>3 DEF Placed, Clear
<1>5. Stacked(s) /\ Len(s) = n /\ s[n] = frame /\ \A i \in 1..n : i # n => s[i] = h.stack[i]
  BY <1>1, <1>3, <1>4, StackSet
<1> HIDE DEF s
<1>6. Typed(g) /\ g.stack = s /\ g.buf = h.buf /\ g.filtering = h.filtering
  BY <1>1, <1>5, NewStack
<1> HIDE DEF g
<1>7. \A i \in PendingOf(s) : /\ i \in PendingOf(h.stack) /\ i \in 1..n
                              /\ i # n => s[i] = h.stack[i]
  BY <1>1, <1>3, <1>5 DEF PendingOf
<1>8. ASSUME NEW i \in PendingOf(s)
      PROVE  Inside(s[i], Len(h.buf))
  <2>1. Inside(h.stack[i], Len(h.buf))
    BY <1>7 DEF Good, Ordered
  <2>2. CASE i # n
    BY <1>7, <2>1, <2>2
  <2>3. CASE i = n
    BY <1>1, <1>3, <1>5, <2>1, <2>3 DEF Inside
  <2> QED BY <2>2, <2>3
<1>9. ASSUME NEW i \in PendingOf(s), NEW j \in PendingOf(s), i < j
      PROVE  Before(s[i], s[j])
  <2>1. i # n /\ s[i] = h.stack[i] /\ Before(h.stack[i], h.stack[j])
    BY <1>1, <1>7, <1>9 DEF Good, Ordered
  <2>2. s[j].rbOff = h.stack[j].rbOff
    BY <1>3, <1>5, <1>7
  <2> QED BY <2>1, <2>2 DEF Before
<1>10. Held(g)
  BY <1>3, <1>5, <1>6 DEF Good, Held, AllFull
<1> QED BY <1>2, <1>5, <1>6, <1>8, <1>9, <1>10 DEF Good, Ordered

\* A field is taken back to where the handle "ready" ended: unless all was
\* settled meanwhile, the frames are those it had.
LEMMA FieldEndedGood ==
    ASSUME NEW ready, Good(ready), NEW h, Good(h), Len(h.stack) = Len(ready.stack),
           AllFull(h.stack) \/ AllAlike(ready.stack, h.stack), NEW name \in Fields
    PROVE  LET g == FieldEnded(h, ready, name)
           IN  Good(g) /\ Len(g.stack) = Len(h.stack)
<1> DEFINE n == Cur(h)
           ended == IF Json THEN h ELSE Wrote(h, <<Tok("end", name, "none")>>)
           noted == [ended EXCEPT !.stack[n].keyOff = Len(ended.buf)]
           t == Truncated(h.buf, Len(ready.buf))
           cut == [h EXCEPT !.buf = t]
           mark == IF Json THEN CurFrame(ready).notFirst ELSE h.stack[n].notFirst
           back == [cut EXCEPT !.stack[n].notFirst = mark]
<1>1. FieldEnded(h, ready, name) = IF Skippable(h, name) THEN back
                                   ELSE IF name \in KeyFields THEN noted ELSE ended
  <2>1. h.stack = cut.stack
    BY DEF Good, Typed, Shaped
  <2>2. [h EXCEPT !.buf = Truncated(@, Len(ready.buf)),
                  !.stack[Cur(h)].notFirst = IF Json THEN CurFrame(ready).notFirst ELSE @] = back
    BY <2>1
  <2> HIDE DEF back
  <2> QED BY <2>2 DEF FieldEnded
<1>2. /\ Typed(h) /\ n \in 1..Len(h.stack) /\ n = Len(h.stack) /\ Len(h.buf) \in Nat
      /\ Len(ready.buf) \in Nat /\ h.buf \in Seq(Token)
      /\ \A i \in 1..Len(h.stack) : h.stack[i] \in Frame
      /\ CurFrame(ready) \in Frame
  BY StackFacts DEF Good
<1>3. Grew(ended, h)
  <2>1. <<Tok("end", name, "none")>> \in Seq(Token)
    BY TokenTypes, LabelTypes
  <2> QED BY <1>2, <2>1, WroteGrew, GrewSelf
<1> HIDE DEF ended
<1>4. Good(ended) /\ Len(ended.stack) = Len(h.stack)
  BY <1>3, GrewGood DEF Grew, AllAlike
<1>5. Good(noted) /\ Len(noted.stack) = Len(h.stack)
  <2>1. Cur(ended) = n
    BY <1>2, <1>4, StackFacts DEF Good
  <2> HIDE DEF n
  <2> QED BY <1>4, <2>1, KeyNoted
<1> HIDE DEF noted
<1>6. mark \in BOOLEAN
  BY <1>2 DEF Frame
<1>7. t \in Seq(Token) /\ Len(t) = Len(ready.buf)
  BY <1>2, TruncatedTypes
<1> HIDE DEF t, mark
<1>8. Typed(cut) /\ cut.stack = h.stack /\ cut.buf = t /\ cut.filtering = h.filtering
  BY <1>2, <1>7, NewBuf
<1>9. Good(cut)
  <2>1. CASE AllFull(h.stack)
    BY <1>8, <2>1, FullIsGood
  <2>2. CASE AllAlike(ready.stack, h.stack)
    <3>1. ASSUME NEW i \in PendingOf(h.stack)
          PROVE  h.stack[i].tagEnd <= Len(t) /\ h.stack[i].keyOff <= Len(t)
      <4>1. i \in PendingOf(ready.stack) /\ Alike(ready.stack[i], h.stack[i])
        BY <1>2, <2>2 DEF PendingOf, AllAlike, Alike
      <4>2. Inside(ready.stack[i], Len(ready.buf))
        BY <4>1 DEF Good, Ordered
      <4> QED BY <1>2, <1>7, <4>1, <4>2 DEF Inside, Alike, Clear
    <3>2. \A i \in 1..Len(h.stack) : Alike(h.stack[i], cut.stack[i])
      BY <1>8, AlikeSelf DEF AllAlike
    <3>3. \A i \in 1..Len(h.stack) : cut.stack[i].status = "full" <=> h.stack[i].status = "full"
      BY <1>8
    <3> HIDE DEF cut
    <3> QED BY <1>8, <3>1, <3>2, <3>3, Moves
  <2> QED BY <2>1, <2>2
<1>10. Good(back) /\ Len(back.stack) = Len(h.stack)
  <2> HIDE DEF cut
  <2>1. Grew(back, cut)
    BY <1>2, <1>6, <1>8, MarkingGrew
  <2> HIDE DEF back
  <2> QED BY <1>8, <1>9, <2>1, GrewGood DEF Grew, AllAlike
<1> HIDE DEF back
<1> QED BY <1>1, <1>4, <1>5, <1>10

LEMMA EmitFieldGood ==
    ASSUME NEW h, Good(h), NEW name \in Fields, NEW value \in Values
    PROVE  LET g == EmitField(h, name, value)
           IN  Good(g) /\ Len(g.stack) = Len(h.stack)
<1> DEFINE ready == TopEmitted(h)
           written == FieldWritten(ready, name)
           asked == DoOpenField(written, name, value, Len(ready.buf))
           ended == FieldEnded(asked, ready, name)
           f == FilterClose(ended.filter)
           shut == Asked(ended, f)
           g == [shut EXCEPT !.filtering = @ \/ f.answer # "full"]
<1>1. EmitField(h, name, value) = g
  BY DEF EmitField, DoCloseField
<1>2. Grew(ready, h)
  BY TopGrew DEF Good
<1>3. Good(ready) /\ Len(ready.stack) = Len(h.stack)
  BY <1>2, GrewGood DEF Grew, AllAlike
<1> HIDE DEF ready
<1>4. Grew(written, ready)
  BY <1>3, FieldWrittenGrew DEF Good
<1>5. Good(written)
  BY <1>3, <1>4, GrewGood
<1> HIDE DEF written
<1>6. Answers(asked, written)
  <2>1. Len(ready.buf) \in Nat
    BY <1>3, StackFacts DEF Good
  <2> QED BY <1>5, <2>1, DoOpenFieldAnswers
<1> HIDE DEF asked
<1>7. /\ Good(asked) /\ Len(asked.stack) = Len(ready.stack)
      /\ AllFull(asked.stack) \/ AllAlike(ready.stack, asked.stack)
  <2>1. AllAlike(written.stack, asked.stack) => AllAlike(ready.stack, asked.stack)
    BY <1>4, AlikeChain DEF Grew
  <2> QED BY <1>4, <1>6, <2>1 DEF Answers, Grew, AllAlike
<1>8. Good(ended) /\ Len(ended.stack) = Len(h.stack)
  BY <1>3, <1>7, FieldEndedGood
<1> HIDE DEF ended
<1>9. Sound(f) /\ Told(f)
  BY <1>8, CloseSound DEF Good, Typed
<1>10. Good(shut) /\ shut.stack = ended.stack
  BY <1>8, <1>9, AskedGood
<1> HIDE DEF shut
<1>11. Grew(g, shut) /\ g.stack = shut.stack
  BY <1>10, FilteringGrew DEF Good
<1> HIDE DEF g
<1> QED BY <1>1, <1>8, <1>10, <1>11, GrewGood

-----------------------------------------------------------------------------
(* The caller *)

DocElement ==
    [id : Nat, kind : {"root", "container", "list", "instance"},
     said : SUBSET Fields, kids : BOOLEAN]

\* The caller's elements are the frames.
DocInv ==
    /\ \E S : told \in Seq(S)
    /\ doc \in Seq(DocElement)
    /\ Len(doc) = Len(handle.stack)
    /\ doc[1].kind = "root"

KeptInv == Good(handle) /\ DocInv

LEMMA WrittenTypes ==
    ASSUME NEW h, Typed(h)
    PROVE  LET g == Written(h)
           IN  Typed(g) /\ g.stack = h.stack /\ g.filtering = h.filtering
<1> DEFINE a == [h EXCEPT !.buf = <<>>]
           g == [a EXCEPT !.madeOutput = TRUE]
<1>1. Written(h) = g \/ Written(h) = h
  BY DEF Written
<1>2. <<>> \in Seq(Token)
  OBVIOUS
<1>3. Typed(a) /\ a.stack = h.stack /\ a.filtering = h.filtering
  BY <1>2, NewBuf
<1> HIDE DEF a
<1>4. Typed(g) /\ g.stack = a.stack /\ g.filtering = a.filtering
  BY <1>3, NewMade
<1> HIDE DEF g
<1> QED BY <1>1, <1>3, <1>4

\* A call ends: what is flushed had no frame that may be taken back.
LEMMA BecomesGood ==
    ASSUME NEW h, Good(h), Becomes(h)
    PROVE  /\ Good(handle') /\ handle'.stack = h.stack
           /\ sent' # sent => AllFull(handle'.stack)
<1>1. Typed(Written(h)) /\ Written(h).stack = h.stack
  BY WrittenTypes DEF Good
<1>2. CASE opts.flush /\ ~h.filtering
  <2>1. AllFull(h.stack)
    BY <1>2 DEF Good, Held
  <2>2. handle' = Written(h)
    BY <1>2 DEF Becomes
  <2> QED BY <1>1, <2>1, <2>2, FullIsGood
<1>3. CASE ~(opts.flush /\ ~h.filtering)
  <2>1. handle' = h /\ sent' = sent
    BY <1>3 DEF Becomes
  <2> QED BY <2>1
<1> QED BY <1>2, <1>3

LEMMA InnerKept ==
    ASSUME NEW d, d \in Seq(DocElement), Len(d) >= 1, d[1].kind = "root",
           NEW e \in DocElement, e.kind = d[Len(d)].kind
    PROVE  LET g == [d EXCEPT ![Len(d)] = e]
           IN  g \in Seq(DocElement) /\ Len(g) = Len(d) /\ g[1].kind = "root"
<1>1. Len(d) \in Nat
  OBVIOUS
<1> QED BY <1>1

LEMMA OpensKept ==
    ASSUME KeptInv, NEW kind \in {"container", "list", "instance"}, NEW name,
           NEW h, Good(h), Len(h.stack) = Len(handle.stack) + 1, Opens(kind, name, h)
    PROVE  KeptInv' /\ (sent' # sent => AllFull(handle'.stack))
<1> DEFINE top == [doc[Len(doc)] EXCEPT !.kids = TRUE]
           base == [doc EXCEPT ![Len(doc)] = top]
           e == Element(NextId, kind)
<1>1. doc' = Append(base, e) /\ Becomes(h)
      /\ told' = Append(told, Event("open", name, kind, Ids(Append(base, e))))
  BY DEF Opens
<1>2. Good(handle') /\ handle'.stack = h.stack /\ (sent' # sent => AllFull(handle'.stack))
  BY <1>1, BecomesGood
<1>3. doc \in Seq(DocElement) /\ Len(doc) \in Nat /\ Len(doc) >= 1 /\ Len(handle.stack) \in Nat
      /\ Len(doc) = Len(handle.stack) /\ doc[1].kind = "root"
  BY StackFacts DEF KeptInv, DocInv, Good
<1>4. top \in DocElement /\ top.kind = doc[Len(doc)].kind
  <2>1. doc[Len(doc)] \in DocElement
    BY <1>3
  <2> QED BY <2>1 DEF DocElement
<1> HIDE DEF top
<1>5. base \in Seq(DocElement) /\ Len(base) = Len(doc) /\ base[1].kind = "root"
  BY <1>3, <1>4, InnerKept
<1> HIDE DEF base
<1>6. PICK S : told \in Seq(S)
  BY DEF KeptInv, DocInv
<1>7. e \in DocElement
  <2>1. NextId \in Nat
    BY <1>6 DEF NextId
  <2> QED BY <2>1 DEF Element, DocElement
<1> HIDE DEF e
<1>8. doc' \in Seq(DocElement) /\ Len(doc') = Len(doc) + 1 /\ doc'[1].kind = "root"
  BY <1>1, <1>3, <1>5, <1>7
<1>9. \E T : told' \in Seq(T)
  <2> DEFINE x == Event("open", name, kind, Ids(Append(base, e)))
  <2>1. told' = Append(told, x)
    BY <1>1
  <2> HIDE DEF x
  <2>2. told \in Seq(S \cup {x})
    BY <1>6, SeqMonotonic
  <2>3. told' \in Seq(S \cup {x})
    BY <2>1, <2>2
  <2> QED BY <2>3
<1> QED BY <1>2, <1>3, <1>8, <1>9 DEF KeptInv, DocInv

LEMMA ClosesKept ==
    ASSUME KeptInv, NEW kind \in {"container", "list", "instance"}, NEW resolved,
           NEW h, Len(handle.stack) >= 2 => Good(h) /\ Len(h.stack) = Len(handle.stack) - 1,
           Closes(kind, h, resolved)
    PROVE  KeptInv' /\ (sent' # sent => AllFull(handle'.stack))
<1>1. doc \in Seq(DocElement) /\ Len(doc) \in Nat /\ Len(doc) >= 1 /\ Len(handle.stack) \in Nat
      /\ Len(doc) = Len(handle.stack) /\ doc[1].kind = "root"
  BY StackFacts DEF KeptInv, DocInv, Good
<1>2. Len(doc) >= 2
  <2>1. Last(doc).kind = kind
    BY DEF Closes, Here
  <2>2. doc[Len(doc)].kind # "root"
    BY <2>1 DEF Last
  <2>3. Len(doc) # 1
    BY <1>1, <2>2
  <2>4. \A k \in Nat : k >= 1 /\ k # 1 => k >= 2
    OBVIOUS
  <2> QED BY <1>1, <2>3, <2>4
<1>3. Good(h) /\ Len(h.stack) = Len(handle.stack) - 1
  BY <1>1, <1>2
<1>4. Good(handle') /\ handle'.stack = h.stack /\ (sent' # sent => AllFull(handle'.stack))
  BY <1>3, BecomesGood DEF Closes
<1>5. doc' \in Seq(DocElement) /\ Len(doc') = Len(doc) - 1 /\ doc'[1].kind = "root"
  <2>1. doc' = SubSeq(doc, 1, Len(doc) - 1)
    BY DEF Closes, Front
  <2> QED BY <1>1, <1>2, <2>1
<1>6. PICK S : told \in Seq(S)
  BY DEF KeptInv, DocInv
<1>7. \E T : told' \in Seq(T)
  <2> DEFINE x == Event("close", CurFrame(handle).name, kind, Ids(doc))
  <2>1. told' = Append(told, x)
    BY DEF Closes
  <2> HIDE DEF x
  <2>2. told \in Seq(S \cup {x})
    BY <1>6, SeqMonotonic
  <2>3. told' \in Seq(S \cup {x})
    BY <2>1, <2>2
  <2> QED BY <2>3
<1> QED BY <1>1, <1>3, <1>4, <1>5, <1>7 DEF KeptInv, DocInv

LEMMA GivenSound ==
    ASSUME NEW paths, paths # <<>>, paths \in Seq(Path)
    PROVE  Sound(Given(paths)) /\ Told(Given(paths))
<1> DEFINE front == Front(paths)
           last == Last(paths)
           f == [NoFilter EXCEPT !.paths = front]
<1>1. Given(paths) = FilterAdd(f, last)
  BY DEF Given
<1>2. front \in Seq(Path) /\ last \in Path
  <2>1. Len(paths) \in Nat /\ Len(paths) # 0
    BY EmptySeq
  <2> QED BY <2>1 DEF Front, Last
<1> HIDE DEF front, last
<1>3. /\ Whole(f) /\ f.paths = front /\ f.trie = <<>> /\ f.frames = <<EmptyFrame(f.trie)>>
      /\ f.allow = 0 /\ f.deny = 0 /\ Told(f)
  BY DEF NoFilter, Whole, Told, Statuses
<1> HIDE DEF f
<1>4. Compiled(f)
  BY <1>2, <1>3 DEF Compiled
<1>5. Sound(f) /\ Told(f)
  BY <1>3, <1>4, FreshSound
<1> QED BY <1>1, <1>2, <1>5, AddSound

LEMMA RootTypes == Root \in Frame /\ Placed(Root)
BY DEF Root, Frame, Statuses, Clear, Placed

LEMMA KeptInvInit == KeptInit => KeptInv
<1> SUFFICES ASSUME KeptInit PROVE KeptInv
  OBVIOUS
<1> DEFINE h(f) == [filter |-> f, stack |-> <<Root>>, buf |-> <<>>,
                    topEmitted |-> FALSE, filtering |-> TRUE, madeOutput |-> FALSE]
<1>1. PICK c \in Cases : filter = Given(c.paths)
                         /\ handle = [filter |-> filter, stack |-> <<Root>>, buf |-> <<>>,
                                      topEmitted |-> FALSE, filtering |-> TRUE,
                                      madeOutput |-> FALSE]
                         /\ told = <<>> /\ doc = <<Element(0, "root")>>
  BY DEF KeptInit
<1>2. Sound(filter) /\ Told(filter)
  BY <1>1, CasesAssumption, GivenSound
<1>3. Shaped(handle) /\ handle.filter = filter /\ handle.stack = <<Root>>
      /\ handle.buf = <<>> /\ handle.filtering
  BY <1>1 DEF Shaped
<1>4. Stacked(<<Root>>) /\ Len(<<Root>>) = 1
  BY RootTypes DEF Stacked
<1>5. Typed(handle)
  BY <1>2, <1>3, <1>4 DEF Typed
<1>6. PendingOf(handle.stack) = {}
  BY <1>3, <1>4 DEF PendingOf
<1>7. Good(handle)
  BY <1>3, <1>5, <1>6 DEF Good, Ordered, Held
<1>8. Element(0, "root") \in DocElement /\ Element(0, "root").kind = "root"
  BY DEF Element, DocElement
<1>9. \E S : told \in Seq(S)
  BY <1>1
<1>10. doc \in Seq(DocElement) /\ Len(doc) = 1 /\ doc[1].kind = "root"
  BY <1>1, <1>8
<1> QED BY <1>3, <1>4, <1>7, <1>9, <1>10 DEF KeptInv, DocInv

\* What is open has its own frame above the root's.
LEMMA HandleStack ==
    KeptInv => Good(handle) /\ Len(handle.stack) \in Nat /\ Len(handle.stack) >= 1
BY StackFacts DEF KeptInv, Good

LEMMA EmitKept ==
    ASSUME KeptInv, NEW name \in Fields, NEW value \in Values, CallEmit(name, value)
    PROVE  KeptInv' /\ (sent' # sent => AllFull(handle'.stack))
<1> DEFINE h == EmitField(handle, name, value)
           said == doc[Len(doc)].said \cup {name}
           e == [doc[Len(doc)] EXCEPT !.said = said]
<1>1. Good(h) /\ Len(h.stack) = Len(handle.stack)
  BY EmitFieldGood DEF KeptInv
<1>2. Becomes(h)
  BY DEF CallEmit
<1> HIDE DEF h
<1>3. Good(handle') /\ handle'.stack = h.stack /\ (sent' # sent => AllFull(handle'.stack))
  BY <1>1, <1>2, BecomesGood
<1>4. doc \in Seq(DocElement) /\ Len(doc) \in Nat /\ Len(doc) >= 1 /\ Len(doc) = Len(handle.stack)
      /\ doc[1].kind = "root" /\ doc[Len(doc)] \in DocElement
  BY HandleStack DEF KeptInv, DocInv
<1>5. doc' = [doc EXCEPT ![Len(doc)] = e]
  BY <1>4 DEF CallEmit
<1>6. e \in DocElement /\ e.kind = doc[Len(doc)].kind
  <2>1. said \in SUBSET Fields
    BY <1>4 DEF DocElement
  <2> HIDE DEF said
  <2> QED BY <1>4, <2>1 DEF DocElement
<1> HIDE DEF e
<1>7. doc' \in Seq(DocElement) /\ Len(doc') = Len(doc) /\ doc'[1].kind = "root"
  BY <1>4, <1>5, <1>6, InnerKept
<1>8. PICK S : told \in Seq(S)
  BY DEF KeptInv, DocInv
<1>9. \E T : told' \in Seq(T)
  <2> DEFINE key == name \in KeyFields
             x == Event("field", name, IF key THEN "key" ELSE "value",
                        Append(Ids(doc), NextId))
  <2>1. told' = Append(told, x)
    BY DEF CallEmit
  <2> HIDE DEF x
  <2>2. told \in Seq(S \cup {x})
    BY <1>8, SeqMonotonic
  <2>3. told' \in Seq(S \cup {x})
    BY <2>1, <2>2
  <2> QED BY <2>3
<1> QED BY <1>1, <1>3, <1>4, <1>7, <1>9 DEF KeptInv, DocInv

LEMMA FinishKept ==
    ASSUME KeptInv, CallFinish
    PROVE  KeptInv' /\ PendingOf(handle'.stack) = {}
<1> DEFINE h == FinishWritten(handle)
           g == Written(h)
<1>1. handle' = g /\ doc' = doc /\ told' = told /\ Len(doc) = 1
  BY DEF CallFinish
<1>2. Len(handle.stack) = 1 /\ Good(handle)
  BY <1>1 DEF KeptInv, DocInv
<1>3. Typed(h) /\ h.stack = handle.stack /\ (handle.filtering => h.filtering)
  <2> DEFINE nothing == ~handle.topEmitted /\ ~(handle.madeOutput \/ handle.buf # <<>>)
             open == IF nothing THEN <<Mark("top")>> ELSE <<>>
             tokens == open \o <<Tok("close", NoValue, "none")>>
             w == Wrote(handle, tokens)
             t == [w EXCEPT !.topEmitted = FALSE]
  <2>1. h = IF Json THEN t ELSE handle
    BY DEF FinishWritten
  <2>2. Mark("top") \in Token /\ Tok("close", NoValue, "none") \in Token
    BY TokenTypes, LabelTypes
  <2>3. open \in Seq(Token)
    BY <2>2
  <2> HIDE DEF open
  <2>4. tokens \in Seq(Token)
    BY <2>2, <2>3
  <2> HIDE DEF tokens, h
  <2>5. Grew(w, handle) /\ w.stack = handle.stack
    BY <1>2, <2>4, WroteGrew DEF Good
  <2>6. Typed(w) /\ (handle.filtering => w.filtering)
    BY <2>5 DEF Grew
  <2> HIDE DEF w
  <2>7. Typed(t) /\ t.stack = w.stack /\ t.filtering = w.filtering
    BY <2>6, NewTop
  <2> HIDE DEF t
  <2> QED BY <1>2, <2>1, <2>5, <2>6, <2>7 DEF Good
<1> HIDE DEF h
<1>4. Typed(g) /\ g.stack = handle.stack /\ (handle.filtering => g.filtering)
  BY <1>3, WrittenTypes
<1> HIDE DEF g
<1>5. PendingOf(g.stack) = {}
  BY <1>2, <1>4 DEF PendingOf
<1>6. Good(g)
  BY <1>2, <1>4, <1>5 DEF Good, Ordered, Held
<1> QED BY <1>1, <1>2, <1>4, <1>5, <1>6 DEF KeptInv, DocInv

LEMMA FullIsSettled ==
    ASSUME NEW s, AllFull(s)
    PROVE  PendingOf(s) = {}
BY DEF AllFull, PendingOf

LEMMA KeptStep ==
    ASSUME KeptInv, KeptNext
    PROVE  KeptInv' /\ (sent' # sent => PendingOf(handle'.stack) = {})
<1> DEFINE Goal == KeptInv' /\ (sent' # sent => PendingOf(handle'.stack) = {})
<1>0. Good(handle) /\ Len(handle.stack) \in Nat /\ Len(handle.stack) >= 1
  BY HandleStack
<1>1. ASSUME NEW name \in Containers, CallOpenContainer(name)
      PROVE  Goal
  <2> DEFINE h == OpenContainer(handle, name)
  <2>1. Good(h) /\ Len(h.stack) = Len(handle.stack) + 1
    BY <1>0, OpenContainerGood
  <2>2. Opens("container", name, h)
    BY <1>1 DEF CallOpenContainer
  <2> HIDE DEF h
  <2> QED BY <2>1, <2>2, OpensKept, FullIsSettled
<1>2. ASSUME NEW name \in Lists, CallOpenList(name)
      PROVE  Goal
  <2> DEFINE h == OpenList(handle, name)
  <2>1. Good(h) /\ Len(h.stack) = Len(handle.stack) + 1
    BY <1>0, OpenListGood
  <2>2. Opens("list", name, h)
    BY <1>2 DEF CallOpenList
  <2> HIDE DEF h
  <2> QED BY <2>1, <2>2, OpensKept, FullIsSettled
<1>3. ASSUME CallOpenInstance
      PROVE  Goal
  <2> DEFINE name == CurFrame(handle).name
             h == OpenInstance(handle, name)
  <2>1. name \in Labels
    BY <1>0, CurName
  <2>2. Opens("instance", name, h)
    BY <1>3 DEF CallOpenInstance
  <2>3. Good(h) /\ Len(h.stack) = Len(handle.stack) + 1
    BY <1>0, <2>1, OpenInstanceGood
  <2> HIDE DEF h
  <2> QED BY <2>2, <2>3, OpensKept, FullIsSettled
<1>4. CASE CallCloseContainer
  <2> DEFINE h == CloseContainer(handle)
  <2>1. Len(handle.stack) >= 2 => Good(h) /\ Len(h.stack) = Len(handle.stack) - 1
    BY <1>0, CloseContainerGood
  <2>2. Closes("container", h, filter)
    BY <1>4 DEF CallCloseContainer
  <2> HIDE DEF h
  <2> QED BY <2>1, <2>2, ClosesKept, FullIsSettled
<1>5. CASE CallCloseList
  <2> DEFINE h == CloseList(handle)
  <2>1. Len(handle.stack) >= 2 => Good(h) /\ Len(h.stack) = Len(handle.stack) - 1
    BY <1>0, CloseListGood
  <2>2. Closes("list", h, filter)
    BY <1>5 DEF CallCloseList
  <2> HIDE DEF h
  <2> QED BY <2>1, <2>2, ClosesKept, FullIsSettled
<1>6. CASE CallCloseInstance
  <2> DEFINE h == CloseInstanceFrame(handle)
             resolved == IF filter.status = "pred" THEN ForceResolve(filter) ELSE filter
  <2>1. Len(handle.stack) >= 2 => Good(h) /\ Len(h.stack) = Len(handle.stack) - 1
    BY <1>0, CloseInstanceGood
  <2>2. Closes("instance", h, resolved)
    BY <1>6 DEF CallCloseInstance
  <2> HIDE DEF h, resolved
  <2> QED BY <2>1, <2>2, ClosesKept, FullIsSettled
<1>7. ASSUME NEW name \in Fields, NEW value \in Values, CallEmit(name, value)
      PROVE  Goal
  BY <1>7, EmitKept, FullIsSettled
<1>8. CASE CallFinish
  BY <1>8, FinishKept
<1> QED BY <1>1, <1>2, <1>3, <1>4, <1>5, <1>6, <1>7, <1>8 DEF KeptNext

LEMMA KeptInvNext == KeptInv /\ [KeptNext]_keptVars => KeptInv'
<1> SUFFICES ASSUME KeptInv, [KeptNext]_keptVars PROVE KeptInv'
  OBVIOUS
<1>1. CASE KeptNext
  BY <1>1, KeptStep
<1>2. CASE UNCHANGED keptVars
  <2>1. handle' = handle /\ doc' = doc /\ told' = told
    BY <1>2 DEF keptVars, callVars
  <2> QED BY <2>1 DEF KeptInv, DocInv
<1> QED BY <1>1, <1>2

-----------------------------------------------------------------------------
(* The theorems *)

\* Whatever was opened, closed, committed, compacted and taken back, the
\* offsets of the frames that may still be taken back lie in the buffer, tag
\* before keys and outer frames before inner ones: xo_filt_compact_range moves
\* text, and clears what pointed above it.
THEOREM OffsetsOrdered == KeptSpec => []OffsetsInOrder
<1>1. KeptInv => OffsetsInOrder
  <2> SUFFICES ASSUME KeptInv PROVE OffsetsInOrder
    OBVIOUS
  <2>1. Ordered(handle.stack, Len(handle.buf)) /\ Pending = PendingOf(handle.stack)
    BY DEF KeptInv, Good, Pending, PendingOf, Cur
  <2> QED BY <2>1 DEF OffsetsInOrder, Ordered, Inside, Before
<1> QED BY <1>1, KeptInvInit, KeptInvNext, PTL DEF KeptSpec

\* A call that opens, closes, emits or finishes hands nothing to the writer while
\* a frame may still be taken back: XOIF_FILTERING is set whenever the flush at
\* its end could let go of such text (xo_avoid_flushing), for every way that a
\* frame comes to wait and that a commit settles it.
THEOREM OnlySettledIsSent == KeptSpec => [][sent' # sent => Pending' = {}]_keptVars
<1>1. KeptInv /\ [KeptNext]_keptVars => [sent' # sent => Pending' = {}]_keptVars
  <2> SUFFICES ASSUME KeptInv, KeptNext, sent' # sent PROVE Pending' = {}
    OBVIOUS
  <2>1. PendingOf(handle'.stack) = {}
    BY KeptStep
  <2>2. Pending' = PendingOf(handle'.stack)
    BY DEF Pending, PendingOf, Cur
  <2> QED BY <2>1, <2>2
<1> QED BY <1>1, KeptInvInit, KeptInvNext, PTL DEF KeptSpec
=============================================================================
