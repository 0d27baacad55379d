--------------------------- MODULE XoCallerProofs ---------------------------
(* XoCaller's tolerable caller, for every set of names, markers and flags: *)
(* no frame it leaves stays when its construct was closed in the output,   *)
(* the constructs open in the output are those on the stack, and every     *)
(* close is of the innermost of them.                                      *)
EXTENDS XoCaller, XoStackProofs, WellFoundedInduction, FiniteSetTheorems

-----------------------------------------------------------------------------
(* The inductive invariant *)

\* TEXT writes nothing for a construct, and SDPARAMS leaves most of them on
\* the stack.
Shows == opts.style \in {"json", "xml", "encoder"}

ListOnTop(s) == \A i \in DOMAIN s : Holds(s, i, Len(s) + 1) => IsList(s[i].state)

NoListOnTop(s) == \A i \in DOMAIN s : Holds(s, i, Len(s) + 1) => ~IsList(s[i].state)

\* A close of this kind and name writes what frame f's own would, and pops it.
Matches(f, kind, name) ==
    /\ f.state \in Kinds
    /\ kind = f.state \/ (opts.style # "encoder" /\ IsList(kind) /\ IsList(f.state))
    /\ name # NoName => NameMap[name] = f.name

InstancesHeld(s) ==
    \A i, j \in DOMAIN s :
        i < j /\ Holds(s, i, j) /\ s[j].state = "instance" => IsList(s[i].state)

Rooted(s) == \A i \in DOMAIN s : s[i].state = "init" => i = 1

\* Only the fields of leaf-lists are written in lists.
OwnFields(f, list) == IF list THEN ~f.emit /\ ~f.emitKey ELSE ~f.emitLeaf

FieldsHeld(s) ==
    \A i, j \in DOMAIN s :
        i <= j /\ Holds(s, i, j + 1) => OwnFields(s[j], IsList(s[i].state))

\* A field that is neither a leaf nor kept back
Ordinary(t) == t.op = "value" /\ (Json => t.ok /\ t.role # "leaf")

\* What the frames allow to come first
Allows(s, t) ==
    /\ t.op = "open" /\ t.kind = "instance" => ListOnTop(s)
    /\ t.op = "close" => Matches(s[Len(s)], t.kind, t.name)
    /\ t.op = "close_all" => t.at = Len(s)
    /\ t.op = "value" /\ Json =>
          IF t.role = "leaf" THEN t.ok => ListOnTop(s) ELSE t.ok /\ NoListOnTop(s)
    /\ t.op = "finish" => opts.noClose \/ Len(s) = 1

\* What may follow an open
InOpened(t, u) ==
    /\ t.op = "open"
    /\ \/ u.op = "open" /\ t.kind = "list" /\ u.kind = "instance"
       \/ u.op = "value" /\ (Json => u.ok /\ (u.role = "leaf" <=> IsList(t.kind)))

\* What may follow the first task t
Follow(s, t, u) ==
    \/ InOpened(t, u)
    \/ /\ t.op = "close"
       /\ \/ u.op = "open" /\ (u.kind = "instance" => s[Len(s)].state = "instance")
          \/ u.op = "search"
          \/ Ordinary(u) /\ IsList(s[Len(s)].state)
    \/ /\ t.op = "search" /\ t.kind = "list" /\ t.name = NoName
       /\ Ordinary(u) /\ s[Len(s)].state = "list"
    \/ /\ t.op = "close_all" /\ t.at = t.limit
       /\ Ordinary(u) /\ s[Len(s)].state = "list"
    \/ t.op = "close_all" /\ t.limit = 1 /\ u.op = "finish"

Doable(s, tasks) ==
    /\ 1 \in DOMAIN tasks => Allows(s, tasks[1])
    /\ 2 \in DOMAIN tasks => Follow(s, tasks[1], tasks[2])
    /\ 3 \in DOMAIN tasks => InOpened(tasks[2], tasks[3])
    /\ DOMAIN tasks \subseteq {1, 2, 3}

\* Only xo_finish finishes.
Finishes(api, tasks) == \A i \in DOMAIN tasks : tasks[i].op = "finish" => api = "finish"

CallerInv ==
    /\ Inv
    /\ Rooted(stack)
    /\ call = Finished => todo = <<>>
    /\ Finishes(call.api, todo)
    /\ Shows => InstancesHeld(stack) /\ Doable(stack, todo)
    /\ Json => FieldsHeld(stack)

-----------------------------------------------------------------------------
(* The nearest real frame, as the stack changes *)

LEMMA RealAt ==
    ASSUME Inv
    PROVE  \E r \in 1..Len(stack) :
              /\ Real = stack[r] /\ Holds(stack, r, Len(stack) + 1)
              /\ \A i \in 1..Len(stack) : Holds(stack, i, Len(stack) + 1) => i = r
<1> DEFINE n == Len(stack)
           R(i) == Holds(stack, i, n + 1)
           r == CHOOSE i \in DOMAIN stack : R(i)
<1>1. GoodStack(stack) /\ n \in Nat \ {0} /\ DOMAIN stack = 1..n
  BY TypeFacts, StackLen DEF Inv, TypeInv
<1>2. \E i \in DOMAIN stack : R(i)
  BY <1>1 DEF Inv, StackInv, Grounded
<1>3. r \in 1..n /\ R(r)
  BY <1>1, <1>2
<1>4. Real = stack[r]
  BY DEF Real
<1> HIDE DEF r, n
<1>5. \A i \in 1..n : R(i) => i = r
  BY <1>1, <1>3, HoldsUnique
<1> QED BY <1>3, <1>4, <1>5 DEF n

LEMMA RealOnTop ==
    ASSUME Inv
    PROVE  /\ ListOnTop(stack) <=> IsList(Real.state)
           /\ NoListOnTop(stack) <=> ~IsList(Real.state)
           /\ GoodStack(stack) /\ DOMAIN stack = 1..Len(stack) /\ Len(stack) \in Nat \ {0}
           /\ Top = stack[Len(stack)]
           /\ ~OnMarker => Real = Top
<1>1. GoodStack(stack) /\ DOMAIN stack = 1..Len(stack) /\ Len(stack) \in Nat \ {0}
  BY TypeFacts, StackLen DEF Inv, TypeInv
<1>2. PICK r \in 1..Len(stack) :
              /\ Real = stack[r] /\ Holds(stack, r, Len(stack) + 1)
              /\ \A i \in 1..Len(stack) : Holds(stack, i, Len(stack) + 1) => i = r
  BY RealAt
<1>3. ListOnTop(stack) <=> IsList(Real.state)
  BY <1>1, <1>2 DEF ListOnTop
<1>4. NoListOnTop(stack) <=> ~IsList(Real.state)
  BY <1>1, <1>2 DEF NoListOnTop
<1> QED BY <1>1, <1>3, <1>4, RealFact DEF Top

LEMMA SameHeld ==
    ASSUME NEW s, GoodStack(s), NEW t, GoodStack(t), SameConstructs(s, t)
    PROVE  /\ InstancesHeld(s) => InstancesHeld(t)
           /\ ListOnTop(s) => ListOnTop(t)
           /\ NoListOnTop(s) => NoListOnTop(t)
<1>1. DOMAIN s = 1..Len(s) /\ Len(s) \in Nat \ {0} /\ Len(t) = Len(s) /\ DOMAIN t = DOMAIN s
  BY StackLen DEF SameConstructs
<1>2. \A i \in 1..Len(s) : t[i].state = s[i].state
  BY <1>1 DEF SameConstructs
<1>3. \A i \in 1..Len(s), j \in 1..(Len(s) + 1) : Holds(s, i, j) <=> Holds(t, i, j)
  BY <1>1, <1>2, HoldsAgrees
<1>4. Len(s) + 1 \in 1..(Len(s) + 1)
  BY <1>1
<1>5. ListOnTop(s) => ListOnTop(t)
  BY <1>1, <1>2, <1>3, <1>4 DEF ListOnTop
<1>6. NoListOnTop(s) => NoListOnTop(t)
  BY <1>1, <1>2, <1>3, <1>4 DEF NoListOnTop
<1>7. \A i \in 1..Len(s) : i \in 1..(Len(s) + 1)
  BY <1>1
<1>8. InstancesHeld(s) => InstancesHeld(t)
  BY <1>1, <1>2, <1>3, <1>7 DEF InstancesHeld
<1> QED BY <1>5, <1>6, <1>8

\* A new frame that is not a marker is the nearest real one.
LEMMA PushedOnTop ==
    ASSUME NEW t, GoodStack(t), t[Len(t)].state # "marker"
    PROVE  /\ IsList(t[Len(t)].state) => ListOnTop(t)
           /\ ~IsList(t[Len(t)].state) => NoListOnTop(t)
<1>1. DOMAIN t = 1..Len(t) /\ Len(t) \in Nat \ {0}
  BY StackLen
<1>2. Holds(t, Len(t), Len(t) + 1) /\ Len(t) \in 1..Len(t)
  BY <1>1, TopHolds
<1>3. \A i \in 1..Len(t) : Holds(t, i, Len(t) + 1) => i = Len(t)
  BY <1>1, <1>2, HoldsUnique
<1> QED BY <1>1, <1>3 DEF ListOnTop, NoListOnTop

LEMMA PushedHeld ==
    ASSUME NEW s, GoodStack(s), NEW t, GoodStack(t), PushedTo(s, t), InstancesHeld(s),
           t[Len(t)].state = "instance" => ListOnTop(s)
    PROVE  InstancesHeld(t)
<1>1. /\ Len(s) \in Nat \ {0} /\ DOMAIN s = 1..Len(s)
      /\ Len(t) = Len(s) + 1 /\ DOMAIN t = 1..(Len(s) + 1)
  BY StackLen DEF PushedTo
<1>2. \A i \in 1..Len(s) : t[i].state = s[i].state
  BY DEF PushedTo
<1>3. \A i \in 1..Len(s), j \in 1..(Len(s) + 1) : Holds(s, i, j) <=> Holds(t, i, j)
  BY <1>1, <1>2, HoldsAgrees
<1> SUFFICES ASSUME NEW i \in 1..(Len(s) + 1), NEW j \in 1..(Len(s) + 1),
                    i < j, Holds(t, i, j), t[j].state = "instance"
             PROVE  IsList(t[i].state)
  BY <1>1 DEF InstancesHeld
<1>4. i \in 1..Len(s) /\ Holds(s, i, j)
  BY <1>1, <1>3
<1>5. CASE j \in 1..Len(s)
  BY <1>1, <1>2, <1>4, <1>5 DEF InstancesHeld
<1>6. CASE j = Len(s) + 1
  BY <1>1, <1>2, <1>4, <1>6 DEF ListOnTop
<1> QED BY <1>1, <1>5, <1>6

LEMMA PoppedHeld ==
    ASSUME NEW s, GoodStack(s), NEW t, GoodStack(t), PoppedTo(s, t), InstancesHeld(s)
    PROVE  /\ InstancesHeld(t)
           /\ s[Len(s)].state = "instance" => ListOnTop(t)
<1>1. /\ DOMAIN s = 1..Len(s) /\ Len(s) \in Nat \ {0} /\ Len(t) = Len(s) - 1
      /\ DOMAIN t = 1..Len(t) /\ Len(s) > 1 /\ Len(t) \in Nat \ {0}
  BY StackLen DEF PoppedTo
<1>2. \A i \in 1..Len(t) : t[i].state = s[i].state
  BY <1>1 DEF PoppedTo
<1>3. \A i \in 1..Len(t), j \in 1..(Len(t) + 1) : Holds(s, i, j) <=> Holds(t, i, j)
  BY <1>1, <1>2, HoldsAgrees
<1>4. /\ Len(t) + 1 = Len(s) /\ Len(s) \in 1..(Len(t) + 1)
      /\ \A i \in 1..Len(t) : i < Len(s) /\ i \in 1..(Len(t) + 1) /\ i \in 1..Len(s)
  BY <1>1
<1>5. InstancesHeld(t)
  BY <1>1, <1>2, <1>3, <1>4 DEF InstancesHeld
<1>6. s[Len(s)].state = "instance" => ListOnTop(t)
  BY <1>1, <1>2, <1>3, <1>4 DEF ListOnTop, InstancesHeld
<1> QED BY <1>5, <1>6

LEMMA NoListUnderList ==
    ASSUME NEW s, GoodStack(s), NEW t, GoodStack(t), PoppedTo(s, t), StackInv(s),
           IsList(s[Len(s)].state)
    PROVE  NoListOnTop(t)
<1>1. "container" \in Kinds
  BY DEF Kinds
<1>2. MayHold(t, "container")
  BY <1>1, RoomUnderList
<1> QED BY <1>2 DEF MayHold, NoListOnTop

-----------------------------------------------------------------------------
(* The frames after each of the functions that change them *)

LEMMA SetTopAt ==
    ASSUME NEW s, GoodStack(s), NEW f \in Frame
    PROVE  /\ GoodStack(SetTop(s, f)) /\ Len(SetTop(s, f)) = Len(s)
           /\ \A i \in 1..Len(s) : SetTop(s, f)[i] = IF i = Len(s) THEN f ELSE s[i]
<1>1. Len(s) \in DOMAIN s /\ s \in Seq(Frame) /\ DOMAIN s = 1..Len(s)
  BY StackLen DEF GoodStack
<1>2. SetTop(s, f) \in Seq(Frame) /\ Len(SetTop(s, f)) = Len(s)
  BY <1>1 DEF SetTop
<1>3. \A i \in DOMAIN s : SetTop(s, f)[i] = IF i = Len(s) THEN f ELSE s[i]
  BY <1>1 DEF SetTop
<1>4. SetTop(s, f) # <<>>
  BY <1>1, <1>2, StackLen, EmptySeq
<1> QED BY <1>1, <1>2, <1>3, <1>4 DEF GoodStack

\* t's frames are those of s, but its last has perhaps got an item.
Uncovered(s, t, item) ==
    \A i \in 1..Len(t) :
        t[i] = IF i = Len(t) /\ item THEN [s[i] EXCEPT !.notFirst = TRUE] ELSE s[i]

LEMMA HasItemsAt ==
    ASSUME NEW s, GoodStack(s)
    PROVE  /\ GoodStack(HasItems(s)) /\ Len(HasItems(s)) = Len(s)
           /\ Uncovered(s, HasItems(s), TRUE)
<1> DEFINE f == [s[Len(s)] EXCEPT !.notFirst = TRUE]
<1>1. s[Len(s)] \in Frame
  BY StackLen
<1>2. f \in Frame
  BY <1>1 DEF Frame
<1> HIDE DEF f
<1>3. /\ GoodStack(SetTop(s, f)) /\ Len(SetTop(s, f)) = Len(s)
      /\ \A i \in 1..Len(s) : SetTop(s, f)[i] = IF i = Len(s) THEN f ELSE s[i]
  BY <1>2, SetTopAt
<1> QED BY <1>3 DEF HasItems, Uncovered, f

LEMMA OpenFrames ==
    ASSUME TypeOK, NEW kind \in Kinds, NEW name \in AllNames, DoOpen(kind, name)
    PROVE  /\ GoodStack(stack') /\ Len(stack') = Len(stack) + 1
           /\ stack'[Len(stack) + 1] = NewFrame(kind, NameMap[name])
           /\ \A i \in 1..Len(stack) :
                 stack'[i] = IF i = Len(stack) /\ Json THEN [stack[i] EXCEPT !.notFirst = TRUE]
                             ELSE stack[i]
<1> DEFINE parent == IF Json THEN HasItems(stack) ELSE stack
           f == NewFrame(kind, NameMap[name])
<1>1. NameMap[name] \in AllNames
  BY NamesAssumption
<1>2. f \in Frame
  BY <1>1 DEF NewFrame, Frame, States
<1>3. GoodStack(stack) /\ Len(stack) \in Nat \ {0}
  BY TypeFacts, StackLen
<1>4. /\ GoodStack(parent) /\ Len(parent) = Len(stack)
      /\ \A i \in 1..Len(stack) :
            parent[i] = IF i = Len(stack) /\ Json THEN [stack[i] EXCEPT !.notFirst = TRUE]
                        ELSE stack[i]
  BY <1>3, HasItemsAt DEF Uncovered
<1>5. stack' = Append(parent, f)
  BY DEF DoOpen, Pushed
<1> HIDE DEF parent, f
<1>6. /\ GoodStack(stack')
      /\ Len(stack') = Len(parent) + 1
      /\ \A i \in 1..Len(parent) : stack'[i] = parent[i]
      /\ stack'[Len(parent) + 1] = f
  BY <1>2, <1>4, <1>5, PushedType
<1> QED BY <1>4, <1>6 DEF f

\* What a close of the top frame's own construct does
LEMMA MatchedNames ==
    ASSUME TypeOK, StackInv(stack), NEW kind \in Kinds, NEW name \in AllNames \cup {NoName},
           Matches(Top, kind, name)
    PROVE  /\ MappedClose(name) = Top.name /\ Top.name \in AllNames
           /\ ~PopRefused(Top.name, IsList(kind))
           /\ Len(stack) > 1 /\ Top = stack[Len(stack)]
           /\ IsList(kind) = IsList(Top.state)
<1>1. GoodStack(stack) /\ Len(stack) \in Nat \ {0} /\ DOMAIN stack = 1..Len(stack)
      /\ Len(stack) \in DOMAIN stack
  BY TypeFacts, StackLen
<1>2. Top.state \in Kinds /\ Top = stack[Len(stack)]
  BY DEF Matches, Top
<1>3. Len(stack) # 1
  BY <1>2 DEF StackInv, Kinds
<1>4. Top.name \in AllNames /\ NameMap[Top.name] = Top.name /\ Top.name # NoName
  BY <1>1, <1>2, NamesAssumption DEF StackInv, Mapped
<1>5. MappedClose(name) = Top.name
  BY <1>4 DEF MappedClose, NameClosed, Matches
<1>6. IsList(kind) = IsList(Top.state)
  BY DEF Matches, IsList
<1>7. ~PopRefused(Top.name, IsList(kind))
  BY <1>3, <1>6 DEF PopRefused
<1> QED BY <1>1, <1>2, <1>3, <1>4, <1>5, <1>6, <1>7, AboveOne

LEMMA CloseFrames ==
    ASSUME TypeOK, StackInv(stack), Shows,
           NEW kind \in Kinds, NEW name \in AllNames \cup {NoName},
           Matches(Top, kind, name), DoClose(kind, name)
    PROVE  /\ GoodStack(stack') /\ Len(stack') = Len(stack) - 1 /\ Len(stack) > 1
           /\ Uncovered(stack, stack', MarksParent(kind))
           /\ PoppedTo(stack, stack')
<1> DEFINE old == IF Json /\ IsList(kind) THEN HasItems(stack) ELSE stack
<1>1. /\ MappedClose(name) = Top.name /\ ~PopRefused(Top.name, IsList(kind))
      /\ Len(stack) > 1
  BY MatchedNames
<1>2. GoodStack(stack) /\ Len(stack) \in Nat \ {0}
  BY TypeFacts, StackLen
<1>3. ~Inert(kind)
  BY DEF Inert, Shows
<1>4. stack' = IF MarksParent(kind) THEN HasItems(Front(old)) ELSE Front(old)
  BY <1>1, <1>3 DEF DoClose
<1>5. /\ GoodStack(old) /\ Len(old) = Len(stack)
      /\ \A i \in 1..(Len(stack) - 1) : old[i] = stack[i]
  <2>1. CASE old = stack
    BY <1>2, <2>1
  <2>2. CASE old = HasItems(stack)
    <3>1. /\ GoodStack(old) /\ Len(old) = Len(stack) /\ Uncovered(stack, old, TRUE)
      BY <1>2, <2>2, HasItemsAt
    <3>2. \A i \in 1..(Len(stack) - 1) : i \in 1..Len(old) /\ i # Len(old)
      BY <1>2, <3>1
    <3> QED BY <3>1, <3>2 DEF Uncovered
  <2> QED BY <2>1, <2>2
<1> HIDE DEF old
<1>6. /\ GoodStack(Front(old)) /\ Len(Front(old)) = Len(stack) - 1
      /\ \A i \in 1..(Len(stack) - 1) : Front(old)[i] = old[i]
  <2>1. Len(old) # 1
    BY <1>1, <1>5
  <2> QED BY <1>5, <2>1, PoppedType
<1>7. CASE MarksParent(kind)
  <2>1. /\ GoodStack(stack') /\ Len(stack') = Len(stack) - 1
        /\ Uncovered(Front(old), stack', TRUE)
    BY <1>4, <1>6, <1>7, HasItemsAt
  <2>2. Uncovered(stack, stack', TRUE)
    BY <1>5, <1>6, <2>1 DEF Uncovered
  <2>3. \A i \in 1..Len(stack') : /\ stack'[i].state = stack[i].state
                                  /\ stack'[i].name = stack[i].name
    <3>1. \A i \in 1..Len(stack') : stack[i] \in Frame
      BY <1>2, <2>1, StackLen
    <3> QED BY <2>2, <3>1 DEF Uncovered, Frame
  <2> QED BY <1>1, <1>7, <2>1, <2>2, <2>3 DEF PoppedTo
<1>8. CASE ~MarksParent(kind)
  BY <1>1, <1>4, <1>5, <1>6, <1>8 DEF PoppedTo, Uncovered
<1> QED BY <1>7, <1>8

LEMMA GivenType ==
    ASSUME NEW f \in Frame, NEW flags \in Frame
    PROVE  /\ FlagsGiven(f, flags) \in Frame
           /\ FlagsGiven(f, flags).state = f.state /\ FlagsGiven(f, flags).name = f.name
BY DEF FlagsGiven, Frame

LEMMA MarkerFrames ==
    ASSUME TypeOK, StackInv(stack), OnMarker, CloseMarkerFrame(Top.name, Top)
    PROVE  /\ GoodStack(stack') /\ Len(stack') = Len(stack) - 1 /\ Len(stack) > 1
           /\ \A i \in 1..Len(stack') :
                 stack'[i] = IF i = Len(stack') THEN FlagsGiven(stack[i], Top) ELSE stack[i]
           /\ PoppedTo(stack, stack')
           /\ UNCHANGED <<opts, topEmitted, wrote, written>>
<1> DEFINE below == Front(stack)
           f == FlagsGiven(below[Len(below)], Top)
<1>1. GoodStack(stack) /\ Len(stack) \in Nat \ {0} /\ DOMAIN stack = 1..Len(stack)
      /\ Top = stack[Len(stack)] /\ Top \in Frame
  BY TypeFacts, StackLen DEF Top
<1>2. Len(stack) # 1
  BY <1>1 DEF StackInv, OnMarker
<1>3. ~PopRefused(Top.name, FALSE)
  <2>1. Top.state = "marker" /\ ~IsList("marker")
    BY DEF OnMarker, IsList
  <2>2. IsList(Top.state) = FALSE
    BY <2>1 DEF IsList
  <2> QED BY <1>2, <2>2 DEF PopRefused
<1>4. stack' = SetTop(below, f) /\ UNCHANGED <<opts, topEmitted, wrote, written>>
  BY <1>3 DEF CloseMarkerFrame
<1>5. /\ GoodStack(below) /\ Len(below) = Len(stack) - 1
      /\ \A i \in 1..(Len(stack) - 1) : below[i] = stack[i]
  BY <1>1, <1>2, PoppedType
<1>6. Len(stack) > 1 /\ Len(stack) - 1 \in 1..(Len(stack) - 1)
  BY <1>1, <1>2
<1> HIDE DEF below
<1>7. below[Len(below)] \in Frame /\ below[Len(below)] = stack[Len(stack) - 1]
  BY <1>5, <1>6, StackLen
<1>8. f \in Frame /\ f.state = stack[Len(stack) - 1].state /\ f.name = stack[Len(stack) - 1].name
  <2> DEFINE g == below[Len(below)]
  <2>1. g \in Frame /\ g = stack[Len(stack) - 1]
    BY <1>7
  <2> HIDE DEF g
  <2>2. FlagsGiven(g, Top) \in Frame /\ FlagsGiven(g, Top).state = g.state
        /\ FlagsGiven(g, Top).name = g.name
    BY <2>1, GivenType, TypeFacts
  <2> QED BY <2>1, <2>2 DEF g
<1>9. f = FlagsGiven(stack[Len(stack) - 1], Top)
  BY <1>7
<1> HIDE DEF f
<1>10. /\ GoodStack(stack') /\ Len(stack') = Len(below)
       /\ \A i \in 1..Len(below) : stack'[i] = IF i = Len(below) THEN f ELSE below[i]
  BY <1>4, <1>5, <1>8, SetTopAt
<1>11. PoppedTo(stack, stack')
  BY <1>5, <1>6, <1>8, <1>10 DEF PoppedTo
<1> QED BY <1>4, <1>5, <1>6, <1>9, <1>10, <1>11

LEMMA ValueFrames ==
    ASSUME TypeOK, ValueStep
    PROVE  LET role == todo[1].role
               ok == todo[1].ok
           IN  /\ role \in {"key", "value", "leaf"} /\ ok \in BOOLEAN
               /\ GoodStack(stack') /\ Len(stack') = Len(stack)
               /\ \A i \in 1..Len(stack) : i # Len(stack) => stack'[i] = stack[i]
               /\ stack'[Len(stack)] =
                     [Top EXCEPT !.emit = @ \/ role = "value",
                                 !.emitKey = @ \/ role = "key",
                                 !.emitLeaf = @ \/ (role = "leaf" /\ ok),
                                 !.notFirst = @ \/ (Json /\ ok)]
               /\ todo # <<>> /\ Head(todo) = todo[1] /\ todo[1].op = "value"
<1> DEFINE role == todo[1].role
           ok == todo[1].ok
           frame == [Top EXCEPT !.emit = @ \/ role = "value",
                                !.emitKey = @ \/ role = "key",
                                !.emitLeaf = @ \/ (role = "leaf" /\ ok),
                                !.notFirst = @ \/ (Json /\ ok)]
<1>1. todo # <<>> /\ Head(todo) = todo[1] /\ todo[1].op = "value" /\ todo[1] \in Task
  BY TodoFacts DEF ValueStep, Working
<1>2. ok \in BOOLEAN /\ role \in {"key", "value", "leaf"}
  BY <1>1, TaskFields
<1>3. GoodStack(stack) /\ Top \in Frame /\ Len(stack) \in 1..Len(stack)
  BY TypeFacts, StackLen
<1>4. stack' = SetTop(stack, frame)
  BY <1>1 DEF ValueStep
<1> HIDE DEF ok, role
<1>5. frame \in Frame
  BY <1>2, <1>3 DEF Frame
<1> HIDE DEF frame
<1>6. /\ GoodStack(stack') /\ Len(stack') = Len(stack)
      /\ \A i \in 1..Len(stack) : stack'[i] = IF i = Len(stack) THEN frame ELSE stack[i]
  BY <1>3, <1>4, <1>5, SetTopAt
<1> QED BY <1>1, <1>2, <1>3, <1>6 DEF ok, role, frame

\* A frame's own fields stay what they were where its flags only gain some
\* that are allowed.
LEMMA FieldsKept ==
    ASSUME NEW s, GoodStack(s), NEW t, GoodStack(t), Len(t) <= Len(s), FieldsHeld(s),
           \A i \in 1..Len(t) : t[i].state = s[i].state,
           \A j \in 1..Len(t), i \in 1..Len(t) :
              i <= j /\ Holds(s, i, j + 1) /\ OwnFields(s[j], IsList(s[i].state))
                  => OwnFields(t[j], IsList(s[i].state))
    PROVE  FieldsHeld(t)
<1>1. /\ DOMAIN s = 1..Len(s) /\ Len(s) \in Nat /\ DOMAIN t = 1..Len(t) /\ Len(t) \in Nat
  BY StackLen
<1>2. \A i \in 1..Len(t), j \in 1..(Len(t) + 1) : Holds(s, i, j) <=> Holds(t, i, j)
  BY <1>1, HoldsAgrees
<1> SUFFICES ASSUME NEW i \in 1..Len(t), NEW j \in 1..Len(t), i <= j, Holds(t, i, j + 1)
             PROVE  OwnFields(t[j], IsList(t[i].state))
  BY <1>1 DEF FieldsHeld
<1>3. Holds(s, i, j + 1)
  BY <1>1, <1>2
<1>4. i \in DOMAIN s /\ j \in DOMAIN s
  BY <1>1
<1>5. OwnFields(s[j], IsList(s[i].state))
  BY <1>3, <1>4 DEF FieldsHeld
<1> QED BY <1>3, <1>5

LEMMA SameFields ==
    ASSUME NEW f, NEW g, NEW list, OwnFields(f, list),
           g.emit = f.emit, g.emitKey = f.emitKey, g.emitLeaf = f.emitLeaf
    PROVE  OwnFields(g, list)
BY DEF OwnFields

LEMMA GivenFields ==
    ASSUME NEW f \in Frame, NEW g \in Frame, NEW list, OwnFields(f, list), OwnFields(g, list)
    PROVE  OwnFields(FlagsGiven(f, g), list)
<1>1. /\ FlagsGiven(f, g).emit = (f.emit \/ g.emit)
      /\ FlagsGiven(f, g).emitKey = (f.emitKey \/ g.emitKey)
      /\ FlagsGiven(f, g).emitLeaf = (f.emitLeaf \/ g.emitLeaf)
  BY DEF FlagsGiven, Frame
<1> QED BY <1>1 DEF OwnFields

\* The new frame has no flags, or the marker's are those of the frame below.
LEMMA FieldsPushed ==
    ASSUME NEW s, GoodStack(s), NEW t, GoodStack(t), Len(t) = Len(s) + 1, FieldsHeld(s),
           \A i \in 1..Len(s) : /\ t[i].state = s[i].state /\ t[i].emit = s[i].emit
                                 /\ t[i].emitKey = s[i].emitKey /\ t[i].emitLeaf = s[i].emitLeaf,
           \/ OwnFields(t[Len(t)], TRUE) /\ OwnFields(t[Len(t)], FALSE)
           \/ /\ t[Len(t)].state = "marker"
              /\ t[Len(t)].emit = s[Len(s)].emit /\ t[Len(t)].emitKey = s[Len(s)].emitKey
              /\ t[Len(t)].emitLeaf = s[Len(s)].emitLeaf
    PROVE  FieldsHeld(t)
<1> DEFINE n == Len(s)
<1>1. DOMAIN s = 1..n /\ n \in Nat \ {0} /\ DOMAIN t = 1..(n + 1) /\ Len(t) = n + 1
  BY StackLen
<1>2. \A i \in 1..n, j \in 1..(n + 1) : Holds(s, i, j) <=> Holds(t, i, j)
  BY <1>1, HoldsAgrees
<1> SUFFICES ASSUME NEW i \in 1..(n + 1), NEW j \in 1..(n + 1), i <= j, Holds(t, i, j + 1)
             PROVE  OwnFields(t[j], IsList(t[i].state))
  BY <1>1 DEF FieldsHeld
<1>3. CASE j \in 1..n
  <2>1. i \in 1..n /\ j + 1 \in 1..(n + 1)
    BY <1>1, <1>3
  <2>2. Holds(s, i, j + 1) /\ i \in DOMAIN s /\ j \in DOMAIN s
    BY <1>1, <1>2, <1>3, <2>1
  <2>3. OwnFields(s[j], IsList(s[i].state))
    BY <2>2 DEF FieldsHeld
  <2>4. IsList(t[i].state) = IsList(s[i].state)
    BY <2>1
  <2> QED BY <1>3, <2>3, <2>4 DEF OwnFields
<1>4. CASE j = n + 1 /\ OwnFields(t[Len(t)], TRUE) /\ OwnFields(t[Len(t)], FALSE)
  BY <1>1, <1>4 DEF OwnFields
<1>5. CASE /\ j = n + 1 /\ t[n + 1].state = "marker"
           /\ t[n + 1].emit = s[n].emit /\ t[n + 1].emitKey = s[n].emitKey
           /\ t[n + 1].emitLeaf = s[n].emitLeaf
  <2>1. i \in 1..n
    BY <1>1, <1>5 DEF Holds
  <2>2. Holds(t, i, n + 1)
    BY <1>1, <1>5 DEF Holds
  <2>3. Holds(s, i, n + 1) /\ i \in DOMAIN s /\ n \in DOMAIN s /\ i <= n
    BY <1>1, <1>2, <2>1, <2>2
  <2>4. OwnFields(s[n], IsList(s[i].state))
    BY <2>3 DEF FieldsHeld
  <2>5. IsList(t[i].state) = IsList(s[i].state)
    BY <2>1
  <2>6. OwnFields(t[n + 1], IsList(t[i].state))
    BY <1>5, <2>4, <2>5, SameFields
  <2> QED BY <1>5, <2>6
<1>6. j \in 1..n \/ j = n + 1
  BY <1>1
<1>7. Len(t) = n + 1
  BY <1>1
<1> QED BY <1>3, <1>4, <1>5, <1>6, <1>7

-----------------------------------------------------------------------------
(* What a step leaves of a call *)

LEMMA TailDoable ==
    ASSUME TypeOK, todo # <<>>, Doable(stack, todo), NEW s,
           2 \in DOMAIN todo => Allows(s, todo[2])
    PROVE  Doable(s, Tail(todo))
<1> DEFINE t == Tail(todo)
<1>1. /\ DOMAIN todo = 1..Len(todo) /\ Len(todo) \in Nat \ {0}
      /\ DOMAIN t = 1..(Len(todo) - 1)
      /\ \A i \in DOMAIN t : t[i] = todo[i + 1]
  BY TodoFacts
<1> HIDE DEF t
<1>2. Len(todo) <= 3
  <2>1. Len(todo) \in DOMAIN todo
    BY <1>1
  <2>2. Len(todo) \in {1, 2, 3}
    BY <2>1 DEF Doable
  <2>3. \A x \in {1, 2, 3} : x <= 3
    OBVIOUS
  <2> QED BY <2>2, <2>3
<1>3. 1 \in DOMAIN t => Allows(s, t[1])
  BY <1>1
<1>4. 2 \in DOMAIN t => Follow(s, t[1], t[2])
  <2> SUFFICES ASSUME 2 \in DOMAIN t PROVE Follow(s, t[1], t[2])
    OBVIOUS
  <2>1. 3 \in DOMAIN todo /\ t[1] = todo[2] /\ t[2] = todo[3]
    <3>1. 1 \in DOMAIN t /\ 1 + 1 = 2 /\ 2 + 1 = 3 /\ 3 \in 1..Len(todo)
      BY <1>1
    <3> QED BY <1>1, <3>1
  <2> QED BY <2>1 DEF Doable, Follow
<1>5. 3 \notin DOMAIN t /\ DOMAIN t \subseteq {1, 2, 3}
  BY <1>1, <1>2
<1> QED BY <1>3, <1>4, <1>5 DEF Doable, t

LEMMA ErrorDoable ==
    ASSUME TypeOK, todo # <<>>, opts.style = "encoder", NEW s
    PROVE  Doable(s, AfterError)
<1>1. \A i \in DOMAIN AfterError : AfterError[i].op = "value"
  BY TodoFacts
<1>2. DOMAIN AfterError \subseteq {1}
  <2>1. CASE Last(todo).op = "value"
    <3> DEFINE v == ValueTask(Last(todo).role, FALSE)
    <3>1. AfterError = <<v>>
      BY <2>1 DEF AfterError
    <3> HIDE DEF v
    <3> QED BY <3>1
  <2>2. CASE Last(todo).op # "value"
    BY <2>2 DEF AfterError
  <2> QED BY <2>1, <2>2
<1>3. 2 \notin DOMAIN AfterError /\ 3 \notin DOMAIN AfterError
  BY <1>2
<1>4. ~Json
  BY DEF Json
<1> QED BY <1>1, <1>2, <1>3, <1>4 DEF Doable, Allows

\* Only an encoder's handler fails.
LEMMA OnlyEncodersFail ==
    ASSUME NEW ok \in ReturnCodes, ~ok
    PROVE  opts.style = "encoder"
BY DEF ReturnCodes

LEMMA RestFinishes ==
    ASSUME CallerInv, todo # <<>>, NEW tasks \in {Tail(todo), AfterError}, Continue(tasks)
    PROVE  /\ call' = Finished => todo' = <<>>
           /\ Finishes(call.api, todo)'
<1>1. TypeOK /\ Finishes(call.api, todo) /\ (call = Finished => todo = <<>>)
  BY DEF CallerInv, Inv, TypeInv
<1>2. todo' = tasks /\ (todo' # <<>> => call' = call)
  BY DEF Continue
<1>3. \A i \in DOMAIN tasks : tasks[i].op = "finish" => call.api = "finish"
  BY <1>1, TodoFacts DEF Finishes
<1>4. todo' # <<>> => Finishes(call'.api, todo')
  BY <1>2, <1>3 DEF Finishes
<1>5. todo' = <<>> => Finishes(call'.api, todo')
  BY DEF Finishes
<1> QED BY <1>1, <1>2, <1>4, <1>5

LEMMA WalkTasks ==
    ASSUME TypeOK, todo # <<>>, NEW w \in Task
    PROVE  LET t == <<w>> \o Tail(todo)
           IN  /\ DOMAIN t = DOMAIN todo /\ t[1] = w
               /\ \A i \in DOMAIN t : i # 1 => t[i] = todo[i]
               /\ t # <<>>
<1> DEFINE t == <<w>> \o Tail(todo)
<1>1. /\ Tail(todo) \in Seq(Task) /\ Len(Tail(todo)) = Len(todo) - 1
      /\ DOMAIN todo = 1..Len(todo) /\ Len(todo) \in Nat \ {0}
      /\ DOMAIN Tail(todo) = 1..(Len(todo) - 1)
      /\ \A i \in DOMAIN Tail(todo) : Tail(todo)[i] = todo[i + 1]
  BY TodoFacts
<1>2. /\ Len(t) = 1 + Len(Tail(todo)) /\ DOMAIN t = 1..Len(t) /\ t[1] = w
      /\ \A i \in 2..Len(t) : t[i] = Tail(todo)[i - 1]
  <2>1. <<w>> \in Seq(Task) /\ Len(<<w>>) = 1 /\ <<w>>[1] = w
    OBVIOUS
  <2> QED BY <1>1, <2>1, ConcatProperties
<1> HIDE DEF t
<1>3. DOMAIN t = DOMAIN todo /\ t # <<>>
  BY <1>1, <1>2
<1>4. ASSUME NEW i \in DOMAIN t, i # 1 PROVE t[i] = todo[i]
  <2>1. i \in 2..Len(t) /\ i - 1 \in DOMAIN Tail(todo) /\ (i - 1) + 1 = i
    BY <1>1, <1>2, <1>4
  <2> QED BY <1>1, <1>2, <2>1
<1> QED BY <1>2, <1>3, <1>4 DEF t

LEMMA WalkFinishes ==
    ASSUME CallerInv, todo # <<>>, NEW w \in Task, w.op = "close_all",
           Continue(<<w>> \o Tail(todo))
    PROVE  /\ call' = Finished => todo' = <<>>
           /\ Finishes(call.api, todo)'
<1> DEFINE t == <<w>> \o Tail(todo)
<1>1. TypeOK /\ Finishes(call.api, todo) /\ (call = Finished => todo = <<>>)
  BY DEF CallerInv, Inv, TypeInv
<1>2. /\ DOMAIN t = DOMAIN todo /\ t[1] = w
      /\ \A i \in DOMAIN t : i # 1 => t[i] = todo[i]
      /\ t # <<>>
  BY <1>1, WalkTasks
<1> HIDE DEF t
<1>3. todo' = t /\ call' = call
  BY <1>2 DEF Continue, t
<1> QED BY <1>1, <1>2, <1>3 DEF Finishes

-----------------------------------------------------------------------------
(* The steps *)

\* What a step has to show, but for Inv
Keeps ==
    /\ opts' = opts
    /\ Rooted(stack')
    /\ call' = Finished => todo' = <<>>
    /\ Finishes(call.api, todo)'
    /\ Shows => InstancesHeld(stack') /\ Doable(stack', todo')
    /\ Json => FieldsHeld(stack')

LEMMA KeepsMeans ==
    ASSUME Inv', Keeps
    PROVE  CallerInv'
<1>1. opts' = opts
  BY DEF Keeps
<1>2. (Shows' <=> Shows) /\ (Json' <=> Json)
  BY <1>1 DEF Shows, Json
<1>3. Doable(stack', todo') => Doable(stack, todo)'
  BY <1>1 DEF Doable, Allows, Follow, InOpened, Ordinary, Matches, Json
<1>4. (InstancesHeld(stack') => InstancesHeld(stack)') /\ (FieldsHeld(stack') => FieldsHeld(stack)')
      /\ (Rooted(stack') => Rooted(stack)')
  OBVIOUS
<1> QED BY <1>2, <1>3, <1>4 DEF Keeps, CallerInv

\* The facts every step starts from
LEMMA StepFacts ==
    ASSUME CallerInv, todo # <<>>
    PROVE  /\ Inv /\ TypeInv /\ TypeOK /\ StackInv(stack) /\ GoodStack(stack)
           /\ DOMAIN stack = 1..Len(stack) /\ Len(stack) \in Nat \ {0}
           /\ 1 \in DOMAIN todo /\ Head(todo) = todo[1] /\ todo[1] \in Task
           /\ Top = stack[Len(stack)] /\ Top \in Frame
           /\ Shows => InstancesHeld(stack) /\ Doable(stack, todo)
           /\ Json => Shows
           /\ Rooted(stack)
BY TypeFacts, TodoFacts, StackLen DEF CallerInv, Inv, TypeInv, Top, Json, Shows

\* No step but the first pushes a root.
LEMMA StaysRooted ==
    ASSUME NEW s, GoodStack(s), NEW t, GoodStack(t), Rooted(s),
           \/ SameConstructs(s, t)
           \/ PoppedTo(s, t)
           \/ PushedTo(s, t) /\ t[Len(t)].state # "init"
    PROVE  Rooted(t)
<1>1. DOMAIN s = 1..Len(s) /\ Len(s) \in Nat \ {0} /\ DOMAIN t = 1..Len(t) /\ Len(t) \in Nat \ {0}
  BY StackLen
<1> SUFFICES ASSUME NEW i \in 1..Len(t), t[i].state = "init" PROVE i = 1
  BY <1>1 DEF Rooted
<1>2. CASE i \in 1..Len(s) /\ s[i].state = t[i].state
  BY <1>1, <1>2 DEF Rooted
<1>3. CASE SameConstructs(s, t)
  BY <1>1, <1>2, <1>3 DEF SameConstructs
<1>4. CASE PoppedTo(s, t)
  BY <1>1, <1>2, <1>4 DEF PoppedTo
<1>5. CASE PushedTo(s, t) /\ t[Len(t)].state # "init"
  <2>1. i # Len(t) /\ Len(t) = Len(s) + 1
    BY <1>5 DEF PushedTo
  <2>2. i \in 1..Len(s)
    BY <1>1, <2>1
  <2> QED BY <1>2, <1>5, <2>2 DEF PushedTo
<1> QED BY <1>3, <1>4, <1>5

\* Frames that differ in XSF_NOT_FIRST alone
LEMMA FieldsPopped ==
    ASSUME NEW s, GoodStack(s), NEW t, GoodStack(t), Len(t) <= Len(s), FieldsHeld(s),
           NEW item, Uncovered(s, t, item)
    PROVE  FieldsHeld(t)
<1>1. /\ DOMAIN s = 1..Len(s) /\ Len(s) \in Nat /\ Len(t) \in Nat
      /\ \A i \in 1..Len(t) : s[i] \in Frame
  BY StackLen
<1>2. \A i \in 1..Len(t) : /\ t[i].state = s[i].state /\ t[i].emit = s[i].emit
                            /\ t[i].emitKey = s[i].emitKey /\ t[i].emitLeaf = s[i].emitLeaf
  BY <1>1 DEF Uncovered, Frame
<1>3. \A j \in 1..Len(t), i \in 1..Len(t) :
         OwnFields(s[j], IsList(s[i].state)) => OwnFields(t[j], IsList(s[i].state))
  BY <1>2, SameFields
<1> QED BY <1>1, <1>2, <1>3, FieldsKept

LEMMA OpenStepKeeps ==
    ASSUME CallerInv, OpenStep
    PROVE  Keeps
<1> DEFINE kind == todo[1].kind
           name == todo[1].name
<1>1. /\ todo # <<>> /\ Inv /\ TypeInv /\ TypeOK /\ GoodStack(stack)
      /\ Len(stack) \in Nat \ {0}
      /\ 1 \in DOMAIN todo /\ Head(todo) = todo[1] /\ todo[1] \in Task
      /\ Shows => InstancesHeld(stack) /\ Doable(stack, todo)
      /\ todo[1].op = "open" /\ (Json => Shows)
  BY StepFacts DEF OpenStep, Working
<1>2. kind \in Kinds /\ name \in AllNames /\ DoOpen(kind, name)
  BY <1>1, TaskFields, OpenMeans
<1>3. /\ GoodStack(stack') /\ Len(stack') = Len(stack) + 1
      /\ stack'[Len(stack')] = NewFrame(kind, NameMap[name])
      /\ PushedTo(stack, stack') /\ stack'[Len(stack')].state = kind /\ opts' = opts
  BY <1>1, <1>2, OpenFrames, DoOpenStep DEF PushedTo
<1>4. PICK ok \in ReturnCodes : Continue(IF ok THEN Tail(todo) ELSE AfterError)
  BY DEF OpenStep
<1>5. PICK tasks \in {Tail(todo), AfterError} :
         Continue(tasks) /\ (tasks # Tail(todo) => opts.style = "encoder")
  BY <1>4, OnlyEncodersFail
<1>6. todo' = tasks
  BY <1>5 DEF Continue
<1>7. ASSUME Shows PROVE InstancesHeld(stack')
  <2>1. kind = "instance" => ListOnTop(stack)
    BY <1>1, <1>7 DEF Doable, Allows
  <2> QED BY <1>1, <1>3, <1>7, <2>1, PushedHeld
<1>8. ASSUME Shows PROVE Doable(stack', todo')
  <2>1. /\ IsList(kind) => ListOnTop(stack')
        /\ ~IsList(kind) => NoListOnTop(stack')
    BY <1>2, <1>3, PushedOnTop DEF Kinds
  <2>2. ASSUME 2 \in DOMAIN todo PROVE Allows(stack', todo[2])
    <3>1. InOpened(todo[1], todo[2])
      BY <1>1, <1>8, <2>2 DEF Doable, Follow
    <3>2. CASE kind = "list" /\ todo[2].op = "open" /\ todo[2].kind = "instance"
      BY <2>1, <3>2 DEF Allows, IsList
    <3>3. CASE todo[2].op = "value" /\ (Json => todo[2].ok /\ (todo[2].role = "leaf" <=> IsList(kind)))
      BY <2>1, <3>3 DEF Allows
    <3> QED BY <3>1, <3>2, <3>3 DEF InOpened
  <2>3. CASE tasks = Tail(todo)
    BY <1>1, <1>6, <1>8, <2>2, <2>3, TailDoable
  <2>4. CASE tasks = AfterError /\ opts.style = "encoder"
    BY <1>1, <1>6, <2>4, ErrorDoable
  <2> QED BY <1>5, <2>3, <2>4
<1>9. ASSUME Json PROVE FieldsHeld(stack')
  <2>1. FieldsHeld(stack)
    BY <1>9 DEF CallerInv
  <2>2. OwnFields(stack'[Len(stack')], TRUE) /\ OwnFields(stack'[Len(stack')], FALSE)
    BY <1>3 DEF OwnFields, NewFrame
  <2>3. \A i \in 1..Len(stack) :
          /\ stack'[i].state = stack[i].state /\ stack'[i].emit = stack[i].emit
          /\ stack'[i].emitKey = stack[i].emitKey /\ stack'[i].emitLeaf = stack[i].emitLeaf
    <3>1. \A i \in 1..Len(stack) : stack[i] \in Frame
      BY <1>1, StackLen
    <3>2. \A i \in 1..Len(stack) : stack'[i] \in {stack[i], [stack[i] EXCEPT !.notFirst = TRUE]}
      BY <1>1, <1>2, OpenFrames
    <3> QED BY <3>1, <3>2 DEF Frame
  <2> QED BY <1>1, <1>3, <2>1, <2>2, <2>3, FieldsPushed
<1>10. /\ call' = Finished => todo' = <<>>
       /\ Finishes(call.api, todo)'
  BY <1>1, <1>5, RestFinishes
<1>11. Rooted(stack')
  BY <1>1, <1>2, <1>3, StepFacts, StaysRooted DEF Kinds
<1> QED BY <1>3, <1>7, <1>8, <1>9, <1>10, <1>11 DEF Keeps

\* The frames after a turn that closed the top frame's construct, and the
\* field or the open that was waiting for it
LEMMA CloseKeeps ==
    ASSUME CallerInv, todo # <<>>, Shows, NEW kind \in Kinds,
           NEW name \in AllNames \cup {NoName}, Matches(Top, kind, name), DoClose(kind, name)
    PROVE  /\ opts' = opts /\ GoodStack(stack') /\ PoppedTo(stack, stack')
           /\ InstancesHeld(stack') /\ (Json => FieldsHeld(stack'))
           /\ Top.state = "instance" => ListOnTop(stack')
           /\ IsList(Top.state) => NoListOnTop(stack')
<1>1. /\ TypeOK /\ StackInv(stack) /\ GoodStack(stack) /\ InstancesHeld(stack)
      /\ Top = stack[Len(stack)] /\ Len(stack) \in Nat
  BY StepFacts
<1>2. /\ GoodStack(stack') /\ Len(stack') = Len(stack) - 1
      /\ Uncovered(stack, stack', MarksParent(kind))
      /\ PoppedTo(stack, stack')
  BY <1>1, CloseFrames
<1>3. opts' = opts
  BY DEF DoClose
<1>4. InstancesHeld(stack') /\ (Top.state = "instance" => ListOnTop(stack'))
  BY <1>1, <1>2, PoppedHeld
<1>5. IsList(Top.state) => NoListOnTop(stack')
  BY <1>1, <1>2, NoListUnderList
<1>6. ASSUME Json PROVE FieldsHeld(stack')
  <2>1. FieldsHeld(stack)
    BY <1>6 DEF CallerInv
  <2>2. Len(stack') <= Len(stack)
    BY <1>1, <1>2
  <2> QED BY <1>1, <1>2, <2>1, <2>2, FieldsPopped
<1> QED BY <1>2, <1>3, <1>4, <1>5, <1>6

LEMMA CloseStepKeeps ==
    ASSUME CallerInv, CloseStep
    PROVE  Keeps
<1> DEFINE kind == todo[1].kind
           name == todo[1].name
<1>1. /\ todo # <<>> /\ Inv /\ TypeInv /\ TypeOK
      /\ 1 \in DOMAIN todo /\ Head(todo) = todo[1] /\ todo[1] \in Task
      /\ Shows => InstancesHeld(stack) /\ Doable(stack, todo)
      /\ todo[1].op = "close" /\ (Json => Shows) /\ Top = stack[Len(stack)]
  BY StepFacts DEF CloseStep, Working
<1>2. kind \in Kinds /\ name \in AllNames \cup {NoName} /\ DoClose(kind, name)
  BY <1>1, TaskFields, ClosesMeans DEF CloseStep
<1>3. opts' = opts
  BY <1>2 DEF DoClose
<1>4. PICK ok \in ReturnCodes : Continue(IF ok THEN Tail(todo) ELSE AfterError)
  BY DEF CloseStep
<1>5. PICK tasks \in {Tail(todo), AfterError} :
         Continue(tasks) /\ (tasks # Tail(todo) => opts.style = "encoder")
  BY <1>4, OnlyEncodersFail
<1>6. todo' = tasks
  BY <1>5 DEF Continue
<1>7. ASSUME Shows PROVE Matches(Top, kind, name)
  BY <1>1, <1>7 DEF Doable, Allows
<1>8. ASSUME Shows
      PROVE  /\ InstancesHeld(stack') /\ (Json => FieldsHeld(stack'))
             /\ Top.state = "instance" => ListOnTop(stack')
             /\ IsList(Top.state) => NoListOnTop(stack')
  BY <1>1, <1>2, <1>7, <1>8, CloseKeeps
<1>9. ASSUME Shows PROVE Doable(stack', todo')
  <2>2. ASSUME 2 \in DOMAIN todo PROVE Allows(stack', todo[2])
    <3>1. /\ todo[1].op = "close"
          /\ \/ todo[2].op = "open" /\ (todo[2].kind = "instance" => Top.state = "instance")
             \/ todo[2].op = "search"
             \/ Ordinary(todo[2]) /\ IsList(Top.state)
      BY <1>1, <1>9, <2>2 DEF Doable, Follow, InOpened
    <3> QED BY <1>8, <1>9, <3>1 DEF Allows, Ordinary
  <2>3. CASE tasks = Tail(todo)
    BY <1>1, <1>6, <1>9, <2>2, <2>3, TailDoable
  <2>4. CASE tasks = AfterError /\ opts.style = "encoder"
    BY <1>1, <1>6, <2>4, ErrorDoable
  <2> QED BY <1>5, <2>3, <2>4
<1>10. /\ call' = Finished => todo' = <<>>
       /\ Finishes(call.api, todo)'
  BY <1>1, <1>5, RestFinishes
<1>11. Rooted(stack')
  BY <1>1, <1>2, StepFacts, DoCloseStep, StaysRooted
<1> QED BY <1>1, <1>3, <1>8, <1>9, <1>10, <1>11 DEF Keeps

LEMMA SearchStepKeeps ==
    ASSUME CallerInv, SearchStep
    PROVE  Keeps
<1> DEFINE n == Len(stack)
           kind == todo[1].kind
           name == IF todo[1].name = NoName THEN NoName ELSE NameMap[todo[1].name]
           stops(i) == StopsAt(kind, i)
           matches(i) == /\ stack[i].state = kind
                         /\ name # NoName => stack[i].name \in {name, NoName}
           first(i) == /\ stops(i) \/ matches(i)
                       /\ \A j \in (i + 1)..Len(stack) : ~stops(j) /\ ~matches(j)
<1>1. /\ todo # <<>> /\ TypeOK /\ StackInv(stack) /\ n \in Nat \ {0}
      /\ 1 \in DOMAIN todo /\ Head(todo) = todo[1]
      /\ Shows => InstancesHeld(stack) /\ Doable(stack, todo)
      /\ todo[1].op = "search"
  BY StepFacts DEF SearchStep, Working
<1>2. UNCHANGED <<opts, stack>>
  BY DEF SearchStep
<1>3. \/ \E i \in 2..n : /\ first(i) /\ ~(stops(i) /\ name # NoName)
                          /\ Continue(<<CloseAllTask(n, i)>> \o Tail(todo))
      \/ /\ \A i \in 2..n : first(i) => stops(i) /\ name # NoName
         /\ Continue(Tail(todo))
  BY <1>1 DEF SearchStep
\* What waits for the search: the top frame is the list it looks for.
<1>4. ASSUME Shows, 2 \in DOMAIN todo
      PROVE  /\ Ordinary(todo[2]) /\ stack[n].state = "list"
             /\ \A i \in 2..n : first(i) => i = n
             /\ n \in 2..n /\ first(n) /\ name = NoName
  <2>1. /\ Ordinary(todo[2]) /\ stack[n].state = "list"
        /\ kind = "list" /\ todo[1].name = NoName
    BY <1>1, <1>4 DEF Doable, Follow, InOpened
  <2>2. n # 1
    BY <1>1, <2>1 DEF StackInv
  <2>3. matches(n) /\ name = NoName
    BY <2>1
  <2>4. (n + 1)..n = {} /\ n \in 2..n
    <3> HIDE DEF n
    <3> QED BY <1>1, <2>2
  <2>5. first(n)
    BY <2>3, <2>4
  <2>6. ASSUME NEW i \in 2..n, first(i) PROVE i = n
    <3>1. i # n => n \in (i + 1)..n
      BY <1>1
    <3> QED BY <2>3, <2>6, <3>1
  <2> QED BY <2>1, <2>3, <2>4, <2>5, <2>6
<1> HIDE DEF first, stops
<1>5. CASE \E i \in 2..n : first(i) /\ Continue(<<CloseAllTask(n, i)>> \o Tail(todo))
  <2>1. PICK i \in 2..n : first(i) /\ Continue(<<CloseAllTask(n, i)>> \o Tail(todo))
    BY <1>5
  <2> DEFINE w == CloseAllTask(n, i)
             t == <<w>> \o Tail(todo)
  <2>2. w \in Task /\ w.op = "close_all" /\ w.at = n /\ w.limit = i
    BY <1>1, TasksMade DEF CloseAllTask
  <2>3. Continue(<<w>> \o Tail(todo))
    BY <2>1
  <2> HIDE DEF w
  <2>4. /\ DOMAIN t = DOMAIN todo /\ t[1] = w /\ t # <<>>
        /\ \A k \in DOMAIN t : k # 1 => t[k] = todo[k]
    BY <1>1, <2>2, WalkTasks
  <2> HIDE DEF t
  <2>5. todo' = t
    BY <2>3 DEF Continue, t
  <2>6. ASSUME Shows PROVE Doable(stack, t)
    <3>1. Allows(stack, t[1])
      BY <2>2, <2>4 DEF Allows
    <3>2. ASSUME 2 \in DOMAIN t PROVE Follow(stack, t[1], t[2])
      <4>1. t[2] = todo[2] /\ 2 \in DOMAIN todo
        BY <2>4, <3>2
      <4>2. i = n /\ Ordinary(todo[2]) /\ stack[n].state = "list"
        BY <1>4, <2>1, <2>6, <4>1
      <4> QED BY <2>2, <2>4, <4>1, <4>2 DEF Follow
    <3>3. 3 \in DOMAIN t => InOpened(t[2], t[3])
      BY <1>1, <2>4, <2>6 DEF Doable, InOpened, Follow, Ordinary
    <3> QED BY <1>1, <2>4, <2>6, <3>1, <3>2, <3>3 DEF Doable
  <2>7. /\ call' = Finished => todo' = <<>>
        /\ Finishes(call.api, todo)'
    BY <1>1, <2>2, <2>3, WalkFinishes
  <2> QED BY <1>1, <1>2, <2>5, <2>6, <2>7 DEF Keeps, CallerInv
<1>6. CASE /\ \A i \in 2..n : first(i) => stops(i) /\ name # NoName
           /\ Continue(Tail(todo))
  <2>1. Shows => 2 \notin DOMAIN todo
    BY <1>4, <1>6
  <2>2. Shows => Doable(stack, Tail(todo))
    BY <1>1, <2>1, TailDoable
  <2>3. todo' = Tail(todo)
    BY <1>6 DEF Continue
  <2>4. /\ call' = Finished => todo' = <<>>
        /\ Finishes(call.api, todo)'
    BY <1>1, <1>6, RestFinishes
  <2> QED BY <1>1, <1>2, <2>2, <2>3, <2>4 DEF Keeps, CallerInv
<1> QED BY <1>3, <1>5, <1>6

\* The frame a walk is at is the top one.
LEMMA WalkAtTop ==
    ASSUME CallerInv, CloseAllStep, Shows
    PROVE  /\ todo[1].op = "close_all" /\ todo[1].at = Len(stack)
           /\ todo[1].limit \in 1..Len(stack)
           /\ \/ /\ Top.state = "init" /\ Len(stack) = 1
                 /\ UNCHANGED <<opts, stack, topEmitted, wrote, written, failed>>
              \/ OnMarker /\ CloseMarkerFrame(Top.name, Top)
              \/ /\ Top.state \in Kinds /\ Matches(Top, Top.state, NoName)
                 /\ DoClose(Top.state, NoName)
<1>1. /\ todo # <<>> /\ 1 \in DOMAIN todo /\ Head(todo) = todo[1] /\ Doable(stack, todo)
      /\ Rooted(stack) /\ DOMAIN stack = 1..Len(stack) /\ Len(stack) \in Nat \ {0}
      /\ todo[1].op = "close_all" /\ Top = stack[Len(stack)] /\ TypeInv
  BY StepFacts DEF CloseAllStep, Working
<1>2. todo[1].at = Len(stack)
  BY <1>1 DEF Doable, Allows
<1>3. todo[1].limit \in 1..Len(stack)
  BY <1>1, <1>2 DEF TypeInv, Walks
<1>4. \/ /\ Top.state = "init"
         /\ UNCHANGED <<opts, stack, topEmitted, wrote, written, failed>>
      \/ Top.state = "marker" /\ CloseMarkerFrame(Top.name, Top)
      \/ Closes(Top.state, NoName)
  BY <1>1, <1>2 DEF CloseAllStep
<1>5. Top.state = "init" => Len(stack) = 1
  BY <1>1 DEF Rooted
<1>6. Closes(Top.state, NoName) => /\ Top.state \in Kinds /\ Matches(Top, Top.state, NoName)
                                   /\ DoClose(Top.state, NoName)
  BY ClosesMeans DEF Matches
<1> QED BY <1>1, <1>2, <1>3, <1>4, <1>5, <1>6 DEF OnMarker

\* A turn that is not at the root pops the frame it is at.
LEMMA WalkPops ==
    ASSUME CallerInv, CloseAllStep, Shows, Top.state # "init"
    PROVE  /\ opts' = opts /\ GoodStack(stack') /\ PoppedTo(stack, stack')
           /\ InstancesHeld(stack') /\ (Json => FieldsHeld(stack'))
           /\ IsList(Top.state) => NoListOnTop(stack')
<1>1. /\ todo # <<>> /\ TypeOK /\ StackInv(stack) /\ GoodStack(stack) /\ InstancesHeld(stack)
      /\ Top = stack[Len(stack)] /\ Len(stack) \in Nat \ {0} /\ Top \in Frame
  BY StepFacts DEF CloseAllStep, Working
<1>2. CASE OnMarker /\ CloseMarkerFrame(Top.name, Top)
  <2>1. /\ GoodStack(stack') /\ Len(stack') = Len(stack) - 1 /\ Len(stack) > 1
        /\ \A i \in 1..Len(stack') :
              stack'[i] = IF i = Len(stack') THEN FlagsGiven(stack[i], Top) ELSE stack[i]
        /\ PoppedTo(stack, stack') /\ opts' = opts
    BY <1>1, <1>2, MarkerFrames
  <2>2. InstancesHeld(stack')
    BY <1>1, <2>1, PoppedHeld
  <2>3. ~IsList(Top.state)
    BY <1>2 DEF OnMarker, IsList
  <2>4. ASSUME Json PROVE FieldsHeld(stack')
    <3>1. FieldsHeld(stack) /\ DOMAIN stack = 1..Len(stack)
      BY <1>1, <2>4, StackLen DEF CallerInv
    <3>2. /\ Len(stack') <= Len(stack) /\ Len(stack') \in Nat
          /\ \A i \in 1..Len(stack') : stack'[i].state = stack[i].state /\ i \in DOMAIN stack
      BY <1>1, <2>1, <3>1 DEF PoppedTo
    <3>3. ASSUME NEW j \in 1..Len(stack'), NEW i \in 1..Len(stack'), i <= j,
                 Holds(stack, i, j + 1), OwnFields(stack[j], IsList(stack[i].state))
          PROVE  OwnFields(stack'[j], IsList(stack[i].state))
      <4>1. CASE j # Len(stack')
        <5>1. stack'[j] = stack[j]
          BY <2>1, <4>1
        <5> QED BY <3>3, <5>1
      <4>2. CASE j = Len(stack')
        <5>1. Holds(stack, i, Len(stack) + 1)
          BY <1>1, <1>2, <2>1, <3>3, <4>2 DEF Holds, OnMarker
        <5>2. i \in DOMAIN stack /\ Len(stack) \in DOMAIN stack /\ i <= Len(stack)
          BY <1>1, <2>1, <3>1
        <5>3. OwnFields(Top, IsList(stack[i].state))
          BY <1>1, <3>1, <5>1, <5>2 DEF FieldsHeld
        <5>4. stack'[j] = FlagsGiven(stack[j], Top) /\ stack[j] \in Frame
          BY <1>1, <2>1, <3>2, <4>2, StackLen
        <5>5. OwnFields(FlagsGiven(stack[j], Top), IsList(stack[i].state))
          BY <1>1, <3>3, <5>3, <5>4, GivenFields
        <5> QED BY <5>4, <5>5
      <4> QED BY <4>1, <4>2
    <3> QED BY <1>1, <2>1, <3>1, <3>2, <3>3, FieldsKept
  <2> QED BY <2>1, <2>2, <2>3, <2>4
<1>3. CASE Top.state \in Kinds /\ Matches(Top, Top.state, NoName) /\ DoClose(Top.state, NoName)
  <2>1. NoName \in AllNames \cup {NoName}
    OBVIOUS
  <2> QED BY <1>1, <1>3, <2>1, CloseKeeps
<1> QED BY <1>2, <1>3, WalkAtTop

LEMMA CloseAllStepKeeps ==
    ASSUME CallerInv, CloseAllStep
    PROVE  Keeps
<1> DEFINE n == Len(stack)
           at == todo[1].at
           limit == todo[1].limit
<1>1. /\ todo # <<>> /\ TypeOK /\ TypeInv /\ GoodStack(stack) /\ n \in Nat \ {0}
      /\ 1 \in DOMAIN todo /\ Head(todo) = todo[1] /\ Rooted(stack)
      /\ Shows => InstancesHeld(stack) /\ Doable(stack, todo)
      /\ todo[1].op = "close_all" /\ (Json => Shows) /\ Top = stack[n]
      /\ at \in 1..n /\ limit \in 1..at
  BY StepFacts, WalkedFrame DEF CloseAllStep, Working
<1>2. /\ GoodStack(stack') /\ opts' = opts
      /\ SameConstructs(stack, stack') \/ PoppedTo(stack, stack')
  BY <1>1, CloseAllTurn
<1>3. Rooted(stack')
  BY <1>1, <1>2, StaysRooted
<1>9. Shows /\ Top.state = "init" => stack' = stack /\ n = 1
  <2>1. Top.state = "init" => ~OnMarker /\ Top.state \notin Kinds
    BY DEF OnMarker, Kinds
  <2> QED BY <2>1, WalkAtTop
<1>4. Shows => InstancesHeld(stack')
  BY <1>1, <1>9, WalkPops
<1>5. ASSUME Json PROVE FieldsHeld(stack')
  <2>1. Shows /\ FieldsHeld(stack)
    BY <1>1, <1>5 DEF CallerInv
  <2>2. CASE Top.state = "init"
    BY <1>9, <2>1, <2>2
  <2> QED BY <1>5, <2>1, <2>2, WalkPops
<1>6. Continue(IF at > limit THEN <<CloseAllTask(at - 1, limit)>> \o Tail(todo)
               ELSE Tail(todo))
  BY <1>1 DEF CloseAllStep, FrameBelow
<1>7. CASE at > limit
  <2> DEFINE w == CloseAllTask(at - 1, limit)
             t == <<w>> \o Tail(todo)
  <2>1. w \in Task /\ w.op = "close_all" /\ w.at = at - 1 /\ w.limit = limit
    <3> HIDE DEF at, limit, n
    <3>1. at - 1 \in Nat /\ limit \in Nat
      BY <1>1, <1>7
    <3> QED BY <3>1, TasksMade DEF CloseAllTask
  <2>2. Continue(<<w>> \o Tail(todo))
    BY <1>6, <1>7
  <2> HIDE DEF w
  <2>3. /\ DOMAIN t = DOMAIN todo /\ t[1] = w /\ t # <<>>
        /\ \A k \in DOMAIN t : k # 1 => t[k] = todo[k]
    BY <1>1, <2>1, WalkTasks
  <2> HIDE DEF t
  <2>4. todo' = t
    BY <2>2 DEF Continue, t
  <2>5. ASSUME Shows PROVE Doable(stack', t)
    <3>1. at = n /\ Top.state # "init"
      <4>1. at = n /\ (Top.state = "init" => n = 1)
        BY <1>9, <2>5, WalkAtTop
      <4> HIDE DEF at, limit, n
      <4> QED BY <1>1, <1>7, <4>1
    <3>2. Len(stack') = n - 1
      BY <2>5, <3>1, WalkPops DEF PoppedTo
    <3>3. Allows(stack', t[1])
      BY <2>1, <2>3, <3>1, <3>2 DEF Allows
    <3>4. ASSUME 2 \in DOMAIN t PROVE Follow(stack', t[1], t[2])
      <4>1. t[2] = todo[2] /\ 2 \in DOMAIN todo
        BY <2>3, <3>4
      <4>2. at # limit
        BY <1>1, <1>7
      <4>3. limit = 1 /\ todo[2].op = "finish"
        BY <1>1, <2>5, <4>1, <4>2 DEF Doable, Follow, InOpened
      <4> QED BY <2>1, <2>3, <4>1, <4>3 DEF Follow
    <3>5. ASSUME 3 \in DOMAIN t PROVE InOpened(t[2], t[3])
      <4>1. 3 \in DOMAIN todo /\ 2 \in DOMAIN todo
        BY <1>1, <2>3, <3>5, TodoFacts
      <4>2. t[2] = todo[2] /\ t[3] = todo[3]
        BY <2>3, <4>1
      <4> QED BY <1>1, <2>5, <4>1, <4>2 DEF Doable
    <3> QED BY <1>1, <2>3, <2>5, <3>3, <3>4, <3>5 DEF Doable
  <2>6. /\ call' = Finished => todo' = <<>>
        /\ Finishes(call.api, todo)'
    BY <1>1, <2>1, <2>2, WalkFinishes
  <2> QED BY <1>2, <1>3, <1>4, <1>5, <2>4, <2>5, <2>6 DEF Keeps
<1>8. CASE ~(at > limit)
  <2>1. at = limit
    BY <1>1, <1>8
  <2>2. Continue(Tail(todo))
    BY <1>6, <1>8
  <2>3. todo' = Tail(todo)
    BY <2>2 DEF Continue
  <2>4. ASSUME Shows PROVE Doable(stack', Tail(todo))
    <3>1. ASSUME 2 \in DOMAIN todo PROVE Allows(stack', todo[2])
      <4>1. CASE Ordinary(todo[2]) /\ Top.state = "list"
        <5>1. NoListOnTop(stack')
          BY <2>4, <4>1, WalkPops DEF IsList
        <5> QED BY <4>1, <5>1 DEF Allows, Ordinary
      <4>2. CASE limit = 1 /\ todo[2].op = "finish"
        <5>1. n = 1
          BY <2>1, <2>4, <4>2, WalkAtTop
        <5>2. ~PoppedTo(stack, stack')
          BY <5>1 DEF PoppedTo
        <5>3. Len(stack') = 1
          BY <1>2, <5>1, <5>2 DEF SameConstructs
        <5> QED BY <4>2, <5>3 DEF Allows
      <4> QED BY <1>1, <2>4, <3>1, <4>1, <4>2 DEF Doable, Follow, InOpened
    <3> QED BY <1>1, <2>4, <3>1, TailDoable
  <2>5. /\ call' = Finished => todo' = <<>>
        /\ Finishes(call.api, todo)'
    BY <1>1, <2>2, RestFinishes
  <2> QED BY <1>2, <1>3, <1>4, <1>5, <2>3, <2>4, <2>5 DEF Keeps
<1> QED BY <1>7, <1>8

LEMMA ValueStepKeeps ==
    ASSUME CallerInv, ValueStep
    PROVE  Keeps
<1> DEFINE role == todo[1].role
           ok == todo[1].ok
           n == Len(stack)
<1>1. /\ todo # <<>> /\ TypeOK /\ TypeInv /\ GoodStack(stack) /\ n \in Nat \ {0}
      /\ 1 \in DOMAIN todo /\ Head(todo) = todo[1] /\ Rooted(stack)
      /\ Shows => InstancesHeld(stack) /\ Doable(stack, todo)
      /\ todo[1].op = "value" /\ (Json => Shows) /\ Top = stack[n] /\ Top \in Frame
      /\ DOMAIN stack = 1..n
  BY StepFacts DEF ValueStep, Working
<1>2. /\ GoodStack(stack') /\ opts' = opts /\ SameConstructs(stack, stack')
  BY <1>1, ValueTurn
<1>3. Rooted(stack') /\ (Shows => InstancesHeld(stack'))
  BY <1>1, <1>2, StaysRooted, SameHeld
<1>4. Continue(Tail(todo)) /\ todo' = Tail(todo)
  BY DEF ValueStep, Continue
<1>5. ASSUME Shows PROVE Doable(stack', todo')
  <2>1. 2 \notin DOMAIN todo
    BY <1>1, <1>5 DEF Doable, Follow, InOpened
  <2> QED BY <1>1, <1>4, <1>5, <2>1, TailDoable
<1>6. ASSUME Json PROVE FieldsHeld(stack')
  <2>1. FieldsHeld(stack) /\ Allows(stack, todo[1])
    BY <1>1, <1>6 DEF CallerInv, Doable
  <2>2. /\ role \in {"key", "value", "leaf"} /\ ok \in BOOLEAN
        /\ Len(stack') = n
        /\ \A i \in 1..n : i # n => stack'[i] = stack[i]
        /\ stack'[n] = [Top EXCEPT !.emit = @ \/ role = "value",
                                   !.emitKey = @ \/ role = "key",
                                   !.emitLeaf = @ \/ (role = "leaf" /\ ok),
                                   !.notFirst = @ \/ (Json /\ ok)]
    BY <1>1, ValueFrames
  <2>3. IF role = "leaf" THEN ok => ListOnTop(stack) ELSE NoListOnTop(stack)
    BY <1>1, <1>6, <2>1 DEF Allows
  <2> HIDE DEF role, ok
  <2>4. ASSUME NEW j \in 1..n, NEW i \in 1..n, i <= j, Holds(stack, i, j + 1),
               OwnFields(stack[j], IsList(stack[i].state))
        PROVE  OwnFields(stack'[j], IsList(stack[i].state))
    <3>1. CASE j # n
      BY <2>2, <2>4, <3>1
    <3>2. CASE j = n
      <4>1. role = "leaf" /\ ok => IsList(stack[i].state)
        BY <1>1, <2>3, <2>4, <3>2 DEF ListOnTop
      <4>2. role # "leaf" => ~IsList(stack[i].state)
        BY <1>1, <2>3, <2>4, <3>2 DEF NoListOnTop
      <4>3. /\ stack'[n].emit = (Top.emit \/ role = "value")
            /\ stack'[n].emitKey = (Top.emitKey \/ role = "key")
            /\ stack'[n].emitLeaf = (Top.emitLeaf \/ (role = "leaf" /\ ok))
        BY <1>1, <2>2 DEF Frame
      <4>4. OwnFields(Top, IsList(stack[i].state))
        BY <1>1, <2>4, <3>2
      <4>5. OwnFields(stack'[n], IsList(stack[i].state))
        BY <2>2, <4>1, <4>2, <4>3, <4>4 DEF OwnFields
      <4> QED BY <3>2, <4>5
    <3> QED BY <3>1, <3>2
  <2>5. Len(stack') <= Len(stack) /\ \A i \in 1..Len(stack') : stack'[i].state = stack[i].state
    BY <1>1, <1>2 DEF SameConstructs
  <2> QED BY <1>1, <1>2, <2>1, <2>2, <2>4, <2>5, FieldsKept
<1>7. /\ call' = Finished => todo' = <<>>
      /\ Finishes(call.api, todo)'
  BY <1>1, <1>4, RestFinishes
<1> QED BY <1>2, <1>3, <1>5, <1>6, <1>7 DEF Keeps

LEMMA FinishStepKeeps ==
    ASSUME CallerInv, FinishStep
    PROVE  Keeps
<1>1. /\ todo # <<>> /\ TypeOK /\ 1 \in DOMAIN todo /\ Head(todo) = todo[1]
      /\ Shows => InstancesHeld(stack) /\ Doable(stack, todo)
      /\ todo[1].op = "finish" /\ Rooted(stack)
  BY StepFacts DEF FinishStep, Working
<1>2. UNCHANGED <<opts, stack>> /\ Continue(Tail(todo)) /\ todo' = Tail(todo)
  BY DEF FinishStep, Continue
<1>3. ASSUME Shows PROVE Doable(stack', todo')
  <2>1. 2 \notin DOMAIN todo
    BY <1>1, <1>3 DEF Doable, Follow, InOpened
  <2> QED BY <1>1, <1>2, <1>3, <2>1, TailDoable
<1>4. /\ call' = Finished => todo' = <<>>
      /\ Finishes(call.api, todo)'
  BY <1>1, <1>2, RestFinishes
<1> QED BY <1>1, <1>2, <1>3, <1>4 DEF Keeps, CallerInv

-----------------------------------------------------------------------------
(* The calls.  What the caller has kept is what makes each plan doable.     *)

\* Of the tasks t only a finish of xo_finish finishes, and none is a close of
\* something else than the top frame.
Planned1(api, t) == (t.op = "finish" => api = "finish") /\ (Shows => Allows(stack, t))

KeptBegun ==
    \E api \in Apis : \E name \in AllNames \cup {NoName} : \E tasks :
        /\ Begin(api, name, tasks)
        /\ Finishes(api, tasks)
        /\ Shows => Doable(stack, tasks)

LEMMA BegunNone ==
    ASSUME NEW api \in Apis, NEW name \in AllNames \cup {NoName},
           Complains(api, name, <<>>)
    PROVE  KeptBegun
<1>1. Finishes(api, <<>>) /\ Doable(stack, <<>>)
  BY DEF Finishes, Doable
<1> QED BY <1>1 DEF KeptBegun, Complains

LEMMA BegunOne ==
    ASSUME NEW api \in Apis, NEW name \in AllNames \cup {NoName}, NEW t,
           Begin(api, name, <<t>>), Planned1(api, t)
    PROVE  KeptBegun
<1> DEFINE tasks == <<t>>
<1>1. DOMAIN tasks = {1} /\ tasks[1] = t
  OBVIOUS
<1>2. Begin(api, name, tasks)
  OBVIOUS
<1> HIDE DEF tasks
<1>3. Finishes(api, tasks) /\ (Shows => Doable(stack, tasks))
  BY <1>1 DEF Finishes, Doable, Planned1
<1> QED BY <1>2, <1>3 DEF KeptBegun

LEMMA BegunTwo ==
    ASSUME NEW api \in Apis, NEW name \in AllNames \cup {NoName}, NEW t, NEW u,
           Begin(api, name, <<t, u>>), Planned1(api, t),
           u.op = "finish" => api = "finish", Shows => Follow(stack, t, u)
    PROVE  KeptBegun
<1> DEFINE tasks == <<t, u>>
<1>1. DOMAIN tasks = {1, 2} /\ tasks[1] = t /\ tasks[2] = u
  OBVIOUS
<1>2. Begin(api, name, tasks)
  OBVIOUS
<1> HIDE DEF tasks
<1>3. Finishes(api, tasks) /\ (Shows => Doable(stack, tasks))
  BY <1>1 DEF Finishes, Doable, Planned1
<1> QED BY <1>2, <1>3 DEF KeptBegun

LEMMA BegunThree ==
    ASSUME NEW api \in Apis, NEW name \in AllNames \cup {NoName}, NEW t, NEW u, NEW v,
           Begin(api, name, <<t, u, v>>), Planned1(api, t),
           u.op # "finish", v.op # "finish", Shows => Follow(stack, t, u), InOpened(u, v)
    PROVE  KeptBegun
<1> DEFINE tasks == <<t, u, v>>
<1>1. DOMAIN tasks = {1, 2, 3} /\ tasks[1] = t /\ tasks[2] = u /\ tasks[3] = v
  OBVIOUS
<1>2. Begin(api, name, tasks)
  OBVIOUS
<1> HIDE DEF tasks
<1>3. Finishes(api, tasks) /\ (Shows => Doable(stack, tasks))
  BY <1>1 DEF Finishes, Doable, Planned1
<1> QED BY <1>2, <1>3 DEF KeptBegun

\* A call that has something to do is one that Kept speaks of.
LEMMA ItBegins ==
    ASSUME NEW api, NEW name, NEW tasks, tasks # <<>>, Begin(api, name, tasks)
    PROVE  Begins(api) /\ call'.name = name
BY DEF Begin, Begins

LEMMA OpenPlanned ==
    ASSUME CallerInv, NEW api, NEW kind, NEW name, kind = "instance" => IsList(Real.state)
    PROVE  Planned1(api, OpenTask(kind, name))
<1>1. ListOnTop(stack) <=> IsList(Real.state)
  BY RealOnTop DEF CallerInv
<1> QED BY <1>1 DEF Planned1, OpenTask, Allows

\* A construct that the table closes is the top frame's.
LEMMA ClosePlanned ==
    ASSUME CallerInv, NEW api, NEW kind \in Kinds, NEW name, ~OnMarker,
           name # NoName => NameMap[name] = Real.name,
           \/ kind = Real.state
           \/ IsList(kind) /\ IsList(Real.state) /\ opts.style # "encoder"
    PROVE  Planned1(api, CloseTask(kind, name))
<1>1. Real = Top /\ Top = stack[Len(stack)]
  BY RealOnTop DEF CallerInv
<1>2. Real.state \in Kinds
  BY DEF IsList, Kinds
<1>3. Matches(Top, kind, name)
  BY <1>1, <1>2 DEF Matches
<1> DEFINE t == CloseTask(kind, name)
<1>4. t.op = "close" /\ t.kind = kind /\ t.name = name
  BY DEF CloseTask
<1> HIDE DEF t
<1>5. Planned1(api, t)
  BY <1>1, <1>3, <1>4 DEF Planned1, Allows
<1> QED BY <1>5 DEF t

\* What comes after it
LEMMA AfterClose ==
    ASSUME CallerInv, ~OnMarker, NEW kind, NEW name, NEW u,
           \/ u.op = "open" /\ (u.kind = "instance" => Real.state = "instance")
           \/ u.op = "search"
           \/ Ordinary(u) /\ IsList(Real.state)
    PROVE  Follow(stack, CloseTask(kind, name), u)
<1>1. Real = Top /\ Top = stack[Len(stack)]
  BY RealOnTop DEF CallerInv
<1> QED BY <1>1 DEF Follow, CloseTask

LEMMA SearchPlanned ==
    ASSUME NEW api, NEW kind, NEW name
    PROVE  Planned1(api, SearchTask(kind, name))
BY DEF Planned1, SearchTask, Allows

LEMMA OpenContainerBegun ==
    ASSUME CallerInv, Kept, NEW n \in Names, OpenContainer(n)
    PROVE  KeptBegun
<1> DEFINE open == OpenTask("container", n)
           close == CloseTask("leaf_list", NoName)
<1>1. n \in AllNames \cup {NoName} /\ "open_container" \in Apis /\ "leaf_list" \in Kinds
  BY NameFacts DEF Apis, Kinds
<1>2. Planned1("open_container", open)
  BY OpenPlanned
<1>3. open.op = "open" /\ open.kind = "container"
  BY DEF OpenTask
<1> HIDE DEF open, close
<1>4. CASE Does("open_container", n, <<open>>)
  BY <1>1, <1>2, <1>4, BegunOne DEF Does
<1>5. CASE Complains("open_container", n, <<>>)
  BY <1>1, <1>5, BegunNone
<1>6. CASE IsList(Real.state) /\ ~OnMarker /\ Begin("open_container", n, <<close, open>>)
  <2>1. Real.state = "leaf_list" \/ opts.style # "encoder"
    BY <1>6, ItBegins DEF Kept, IsList
  <2>2. Planned1("open_container", close)
    BY <1>1, <1>3, <1>6, <2>1, ClosePlanned DEF IsList, close
  <2>3. Follow(stack, close, open)
    BY <1>3, <1>6, AfterClose DEF close
  <2> QED BY <1>1, <1>3, <1>6, <2>2, <2>3, BegunTwo
<1> QED BY <1>4, <1>5, <1>6 DEF OpenContainer, PreventedByMarker, Does, open, close

LEMMA OpenListBegun ==
    ASSUME CallerInv, NEW n \in Names, OpenList(n)
    PROVE  KeptBegun
<1> DEFINE open == OpenTask("list", n)
           close == CloseTask(Real.state, NoName)
<1>1. n \in AllNames \cup {NoName} /\ "open_list" \in Apis
  BY NameFacts DEF Apis
<1>2. Planned1("open_list", open)
  BY OpenPlanned
<1>3. open.op = "open" /\ open.kind = "list"
  BY DEF OpenTask
<1> HIDE DEF open, close
<1>4. CASE Does("open_list", n, <<open>>)
  BY <1>1, <1>2, <1>4, BegunOne DEF Does
<1>5. CASE Complains("open_list", n, <<>>)
  BY <1>1, <1>5, BegunNone
<1>6. CASE IsList(Real.state) /\ ~OnMarker /\ Begin("open_list", n, <<close, open>>)
  <2>1. Real.state \in Kinds
    BY <1>6 DEF IsList, Kinds
  <2>2. Planned1("open_list", close)
    BY <1>3, <1>6, <2>1, ClosePlanned DEF IsList, close
  <2>3. Follow(stack, close, open)
    BY <1>3, <1>6, AfterClose DEF close
  <2> QED BY <1>1, <1>3, <1>6, <2>2, <2>3, BegunTwo
<1> QED BY <1>4, <1>5, <1>6 DEF OpenList, PreventedByMarker, Does, open, close

LEMMA OpenInstanceBegun ==
    ASSUME CallerInv, Kept, NEW n \in Names, OpenInstance(n)
    PROVE  KeptBegun
<1> DEFINE open == OpenTask("instance", n)
           list == OpenTask("list", n)
           close == CloseTask("instance", NoName)
           leaf == CloseTask("leaf_list", NoName)
<1>1. n \in AllNames \cup {NoName} /\ "open_instance" \in Apis /\ "instance" \in Kinds
  BY NameFacts DEF Apis, Kinds
<1>2. Planned1("open_instance", list)
  BY OpenPlanned
<1>3. /\ open.op = "open" /\ open.kind = "instance"
      /\ list.op = "open" /\ list.kind = "list"
  BY DEF OpenTask
<1>4. IsList(Real.state) => Planned1("open_instance", open)
  BY OpenPlanned
<1> HIDE DEF open, list, close, leaf
<1>5. CASE Real.state = "list" /\ Does("open_instance", n, <<open>>)
  BY <1>1, <1>4, <1>5, BegunOne DEF Does, IsList
<1>6. CASE Does("open_instance", n, <<list, open>>)
  <2>1. Follow(stack, list, open)
    BY <1>3 DEF Follow, InOpened
  <2> QED BY <1>1, <1>2, <1>3, <1>6, <2>1, BegunTwo DEF Does
<1>7. CASE Real.state = "instance" /\ ~OnMarker /\ Begin("open_instance", n, <<close, open>>)
  <2>1. Planned1("open_instance", close)
    BY <1>1, <1>7, ClosePlanned DEF close
  <2>2. Follow(stack, close, open)
    BY <1>3, <1>7, AfterClose DEF close
  <2> QED BY <1>1, <1>3, <1>7, <2>1, <2>2, BegunTwo
<1>8. CASE Complains("open_instance", n, <<>>)
  BY <1>1, <1>8, BegunNone
<1>9. CASE Real.state = "leaf_list" /\ Begin("open_instance", n, <<leaf, open>>)
  BY <1>9, ItBegins DEF Kept
<1> QED BY <1>5, <1>6, <1>7, <1>8, <1>9
        DEF OpenInstance, PreventedByMarker, Does, open, list, close, leaf

LEMMA OpenLeafListBegun ==
    ASSUME CallerInv, Kept, NEW n \in Names, OpenLeafList(n)
    PROVE  KeptBegun
<1> DEFINE open == OpenTask("leaf_list", n)
           close == CloseTask("list", NoName)
<1>1. n \in AllNames \cup {NoName} /\ "open_leaf_list" \in Apis /\ "list" \in Kinds
  BY NameFacts DEF Apis, Kinds
<1>2. Planned1("open_leaf_list", open)
  BY OpenPlanned
<1>3. open.op = "open" /\ open.kind = "leaf_list"
  BY DEF OpenTask
<1> HIDE DEF open, close
<1>4. CASE Does("open_leaf_list", n, <<open>>)
  BY <1>1, <1>2, <1>4, BegunOne DEF Does
<1>5. CASE Complains("open_leaf_list", n, <<>>)
  BY <1>1, <1>5, BegunNone
<1>6. CASE IsList(Real.state) /\ ~OnMarker /\ Begin("open_leaf_list", n, <<close, open>>)
  <2>1. Real.state = "list" \/ opts.style # "encoder"
    BY <1>6, ItBegins DEF Kept, IsList
  <2>2. Planned1("open_leaf_list", close)
    BY <1>1, <1>3, <1>6, <2>1, ClosePlanned DEF IsList, close
  <2>3. Follow(stack, close, open)
    BY <1>3, <1>6, AfterClose DEF close
  <2> QED BY <1>1, <1>3, <1>6, <2>2, <2>3, BegunTwo
<1> QED BY <1>4, <1>5, <1>6 DEF OpenLeafList, PreventedByMarker, Does, open, close

LEMMA CloseContainerBegun ==
    ASSUME CallerInv, Kept, NEW n \in Names \cup {NoName}, CloseContainer(n)
    PROVE  KeptBegun
<1> DEFINE close == CloseTask("container", n)
           leaf == CloseTask("leaf_list", NoName)
           search == SearchTask("container", n)
<1>1. /\ n \in AllNames \cup {NoName} /\ "close_container" \in Apis
      /\ "container" \in Kinds /\ "leaf_list" \in Kinds
  BY NameFacts DEF Apis, Kinds
<1>2. Planned1("close_container", search) /\ search.op = "search"
  BY SearchPlanned DEF SearchTask
<1> HIDE DEF close, leaf, search
<1>3. CASE Complains("close_container", n, <<>>)
  BY <1>1, <1>3, BegunNone
<1>4. CASE Does("close_container", n, <<search>>)
  BY <1>1, <1>2, <1>4, BegunOne DEF Does
<1>5. CASE Real.state = "leaf_list" /\ ~OnMarker /\ Begin("close_container", n, <<leaf, search>>)
  <2>1. Planned1("close_container", leaf)
    BY <1>1, <1>5, ClosePlanned DEF leaf
  <2>2. Follow(stack, leaf, search)
    BY <1>2, <1>5, AfterClose DEF leaf
  <2> QED BY <1>1, <1>2, <1>5, <2>1, <2>2, BegunTwo
<1>6. CASE Real.state = "init" /\ Begin("close_container", n, <<close>>)
  BY <1>6, ItBegins DEF Kept
<1> QED BY <1>3, <1>4, <1>5, <1>6
        DEF CloseContainer, PreventedByMarker, Does, close, leaf, search

LEMMA CloseInstanceBegun ==
    ASSUME CallerInv, Kept, NEW n \in Names \cup {NoName}, CloseInstance(n)
    PROVE  KeptBegun
<1> DEFINE close == CloseTask("instance", n)
           leaf == CloseTask("leaf_list", NoName)
           search == SearchTask("instance", n)
<1>1. /\ n \in AllNames \cup {NoName} /\ "close_instance" \in Apis
      /\ "instance" \in Kinds /\ "leaf_list" \in Kinds
  BY NameFacts DEF Apis, Kinds
<1>2. Planned1("close_instance", search) /\ search.op = "search"
  BY SearchPlanned DEF SearchTask
<1> HIDE DEF close, leaf, search
<1>3. CASE Complains("close_instance", n, <<>>)
  BY <1>1, <1>3, BegunNone
<1>4. CASE Does("close_instance", n, <<search>>)
  BY <1>1, <1>2, <1>4, BegunOne DEF Does
<1>5. CASE Real.state = "leaf_list" /\ ~OnMarker /\ Begin("close_instance", n, <<leaf, search>>)
  <2>1. Planned1("close_instance", leaf)
    BY <1>1, <1>5, ClosePlanned DEF leaf
  <2>2. Follow(stack, leaf, search)
    BY <1>2, <1>5, AfterClose DEF leaf
  <2> QED BY <1>1, <1>2, <1>5, <2>1, <2>2, BegunTwo
<1>6. CASE Real.state = "instance" /\ ~OnMarker /\ Begin("close_instance", n, <<close>>)
  <2>1. n # NoName => NameMap[n] = Real.name
    BY <1>6, ItBegins DEF Kept
  <2>2. Planned1("close_instance", close)
    BY <1>1, <1>6, <2>1, ClosePlanned DEF close
  <2> QED BY <1>1, <1>6, <2>2, BegunOne
<1> QED BY <1>3, <1>4, <1>5, <1>6
        DEF CloseInstance, PreventedByMarker, Does, close, leaf, search

LEMMA CloseLeafListBegun ==
    ASSUME CallerInv, Kept, NEW n \in Names \cup {NoName}, CloseLeafList(n)
    PROVE  KeptBegun
<1> DEFINE close == CloseTask("leaf_list", n)
           leaf == CloseTask("leaf_list", NoName)
           search == SearchTask("leaf_list", n)
<1>1. /\ n \in AllNames \cup {NoName} /\ "close_leaf_list" \in Apis
      /\ "leaf_list" \in Kinds /\ "leaf_list" \in Kinds
  BY NameFacts DEF Apis, Kinds
<1>2. Planned1("close_leaf_list", search) /\ search.op = "search"
  BY SearchPlanned DEF SearchTask
<1> HIDE DEF close, leaf, search
<1>3. CASE Complains("close_leaf_list", n, <<>>)
  BY <1>1, <1>3, BegunNone
<1>4. CASE Does("close_leaf_list", n, <<search>>)
  BY <1>1, <1>2, <1>4, BegunOne DEF Does
<1>5. CASE Real.state = "leaf_list" /\ ~OnMarker /\ Begin("close_leaf_list", n, <<leaf, search>>)
  <2>1. Planned1("close_leaf_list", leaf)
    BY <1>1, <1>5, ClosePlanned DEF leaf
  <2>2. Follow(stack, leaf, search)
    BY <1>2, <1>5, AfterClose DEF leaf
  <2> QED BY <1>1, <1>2, <1>5, <2>1, <2>2, BegunTwo
<1>6. CASE Real.state = "leaf_list" /\ ~OnMarker /\ Begin("close_leaf_list", n, <<close>>)
  <2>1. n # NoName => NameMap[n] = Real.name
    BY <1>6, ItBegins DEF Kept
  <2>2. Planned1("close_leaf_list", close)
    BY <1>1, <1>6, <2>1, ClosePlanned DEF close
  <2> QED BY <1>1, <1>6, <2>2, BegunOne
<1> QED BY <1>3, <1>4, <1>5, <1>6
        DEF CloseLeafList, PreventedByMarker, Does, close, leaf, search

LEMMA CloseListBegun ==
    ASSUME CallerInv, NEW n \in Names \cup {NoName}, CloseList(n)
    PROVE  KeptBegun
<1> DEFINE search == SearchTask("list", n)
<1>1. n \in AllNames \cup {NoName} /\ "close_list" \in Apis
  BY NameFacts DEF Apis
<1>2. Planned1("close_list", search)
  BY SearchPlanned
<1> HIDE DEF search
<1>3. Complains("close_list", n, <<>>) \/ Begin("close_list", n, <<search>>)
  BY DEF CloseList, PreventedByMarker, Does, search
<1> QED BY <1>1, <1>2, <1>3, BegunNone, BegunOne

LEMMA CloseMarkerBegun ==
    ASSUME CallerInv, NEW n \in MarkerNames \cup {NoName}, CloseMarker(n)
    PROVE  KeptBegun
<1>1. n \in AllNames \cup {NoName} /\ "close_marker" \in Apis
  BY NameFacts DEF Apis
<1>2. Begin("close_marker", n, <<SearchTask("marker", n)>>)
  BY DEF CloseMarker, Does
<1> QED BY <1>1, <1>2, SearchPlanned, BegunOne

LEMMA FinishBegun ==
    ASSUME CallerInv, Finish
    PROVE  KeptBegun
<1> DEFINE walk == CloseAllTask(Len(stack), 1)
           end == FinishTask
<1>1. NoName \in AllNames \cup {NoName} /\ "finish" \in Apis
  BY DEF Apis
<1>2. end.op = "finish" /\ walk.op = "close_all" /\ walk.at = Len(stack) /\ walk.limit = 1
  BY DEF FinishTask, CloseAllTask
<1>3. \/ opts.noClose /\ Begin("finish", NoName, <<end>>)
      \/ Begin("finish", NoName, <<walk, end>>)
  BY DEF Finish, Does
<1> HIDE DEF end, walk
<1>4. opts.noClose => Planned1("finish", end)
  BY <1>2 DEF Planned1, Allows
<1>5. Planned1("finish", walk) /\ Follow(stack, walk, end)
  BY <1>2 DEF Planned1, Allows, Follow
<1> QED BY <1>1, <1>3, <1>4, <1>5, BegunOne, BegunTwo

\* The flags that xo_format_value takes for an earlier transition's are those
\* of fields that were written here.
LEMMA TopFields ==
    ASSUME CallerInv, Json
    PROVE  OwnFields(Top, IsList(Real.state))
<1>1. PICK r \in 1..Len(stack) : Real = stack[r] /\ Holds(stack, r, Len(stack) + 1)
  BY RealAt DEF CallerInv
<1>2. DOMAIN stack = 1..Len(stack) /\ Len(stack) \in Nat \ {0} /\ Top = stack[Len(stack)]
  BY RealOnTop DEF CallerInv
<1>3. Len(stack) \in DOMAIN stack /\ r \in DOMAIN stack /\ r <= Len(stack)
  BY <1>2
<1> QED BY <1>1, <1>2, <1>3 DEF CallerInv, FieldsHeld

LEMMA ValuePlanned ==
    ASSUME CallerInv, NEW api, NEW role \in {"key", "value"}, Json => ~IsList(Real.state)
    PROVE  Planned1(api, ValueTask(role, TRUE))
<1> DEFINE t == ValueTask(role, TRUE)
<1>1. NoListOnTop(stack) <=> ~IsList(Real.state)
  BY RealOnTop DEF CallerInv
<1>2. t.op = "value" /\ t.role = role /\ t.ok = TRUE
  BY DEF ValueTask
<1> HIDE DEF t
<1>3. Planned1(api, t)
  BY <1>1, <1>2 DEF Planned1, Allows
<1> QED BY <1>3 DEF t

LEMMA EmitBegun ==
    ASSUME CallerInv, Kept, NEW role \in {"key", "value"}, Emit(role)
    PROVE  KeptBegun
<1> DEFINE late == role = "key" /\ Top.emit
           known == IF role = "key" THEN Top.emitKey ELSE Top.emit /\ ~Top.emitLeaf
           value == ValueTask(role, TRUE)
           kept == ValueTask("value", TRUE)
           none == ValueTask(role, FALSE)
           open == OpenTask("container", FakeTopName)
           leaf == CloseTask("leaf_list", NoName)
           search == SearchTask("list", NoName)
<1>1. NoName \in AllNames \cup {NoName} /\ "emit" \in Apis /\ "leaf_list" \in Kinds
  BY DEF Apis, Kinds
<1>2. /\ open.op = "open" /\ open.kind = "container" /\ Planned1("emit", open)
      /\ search.op = "search" /\ search.kind = "list" /\ search.name = NoName
      /\ Planned1("emit", search)
  BY OpenPlanned, SearchPlanned DEF OpenTask, SearchTask
<1>3. value.op = "value" /\ value.ok = TRUE /\ value.role # "leaf"
  BY DEF ValueTask
<1>4. Real = Top \/ OnMarker
  BY RealOnTop DEF CallerInv
<1>5. late \/ known => (Json => ~IsList(Real.state))
  BY TopFields DEF OwnFields
<1>6. (Json => ~IsList(Real.state)) => Planned1("emit", value) /\ Planned1("emit", kept)
  BY ValuePlanned
<1>7. Ordinary(value)
  BY <1>3 DEF Ordinary
<1>8. CASE late
  <2>1. Begin("emit", NoName, <<kept>>)
    BY <1>8 DEF Emit
  <2> QED BY <1>1, <1>5, <1>6, <1>8, <2>1, BegunOne
<1>9. CASE ~late /\ known
  <2>1. Begin("emit", NoName, <<value>>)
    BY <1>9 DEF Emit
  <2> QED BY <1>1, <1>5, <1>6, <1>9, <2>1, BegunOne
<1>10. CASE ~late /\ ~known
  <2>1. \/ Real.state \in {"init", "container", "instance"} /\ Begin("emit", NoName, <<value>>)
        \/ Begin("emit", NoName, <<open, value>>)
        \/ IsList(Real.state) /\ OnMarker /\ Begin("emit", NoName, <<none>>)
        \/ Real.state = "list" /\ ~OnMarker /\ Begin("emit", NoName, <<search, value>>)
        \/ Real.state = "leaf_list" /\ ~OnMarker /\ Begin("emit", NoName, <<leaf, value>>)
    BY <1>10 DEF Emit, Does, Complains
  <2> HIDE DEF value, kept, none, open, leaf, search, late, known
  <2>2. CASE Real.state \in {"init", "container", "instance"}
             /\ Begin("emit", NoName, <<value>>)
    BY <1>1, <1>6, <2>2, BegunOne DEF IsList
  <2>3. CASE Begin("emit", NoName, <<open, value>>)
    <3>1. Follow(stack, open, value)
      BY <1>2, <1>3 DEF Follow, InOpened, IsList
    <3> QED BY <1>1, <1>2, <1>3, <2>3, <3>1, BegunTwo
  <2>4. CASE IsList(Real.state) /\ OnMarker /\ Begin("emit", NoName, <<none>>)
    BY <2>4, ItBegins DEF Kept
  <2>5. CASE Real.state = "list" /\ ~OnMarker /\ Begin("emit", NoName, <<search, value>>)
    <3>1. stack[Len(stack)].state = "list"
      BY <1>4, <2>5 DEF Top
    <3>2. Follow(stack, search, value)
      BY <1>2, <1>7, <3>1 DEF Follow
    <3> QED BY <1>1, <1>2, <1>3, <2>5, <3>2, BegunTwo
  <2>6. CASE Real.state = "leaf_list" /\ ~OnMarker /\ Begin("emit", NoName, <<leaf, value>>)
    <3>1. Planned1("emit", leaf)
      BY <1>1, <2>6, ClosePlanned DEF leaf
    <3>2. Follow(stack, leaf, value)
      BY <1>7, <2>6, AfterClose DEF leaf, IsList
    <3> QED BY <1>1, <1>3, <2>6, <3>1, <3>2, BegunTwo
  <2> QED BY <2>1, <2>2, <2>3, <2>4, <2>5, <2>6
<1> QED BY <1>8, <1>9, <1>10

LEMMA EmitLeafListBegun ==
    ASSUME CallerInv, NEW n \in Names, EmitLeafList(n)
    PROVE  KeptBegun
<1> DEFINE api == "emit_leaf_list"
           known == /\ Top.emitLeaf /\ ~Top.emit /\ ~Top.emitKey
                    /\ Top.name \in {n, NoName}
           value == ValueTask("leaf", TRUE)
           none == ValueTask("leaf", FALSE)
           open == OpenTask("leaf_list", n)
           leaf == CloseTask("leaf_list", NoName)
<1>1. n \in AllNames \cup {NoName} /\ api \in Apis /\ "leaf_list" \in Kinds
  BY NameFacts DEF Apis, Kinds
<1>2. open.op = "open" /\ open.kind = "leaf_list" /\ Planned1(api, open)
  BY OpenPlanned DEF OpenTask
<1>3. /\ value.op = "value" /\ value.ok = TRUE /\ value.role = "leaf"
      /\ none.op = "value" /\ none.ok = FALSE /\ none.role = "leaf"
  BY DEF ValueTask
<1>4. ListOnTop(stack) <=> IsList(Real.state)
  BY RealOnTop DEF CallerInv
<1>5. known => (Json => IsList(Real.state))
  BY TopFields DEF OwnFields
<1>6. \/ (Json => IsList(Real.state)) /\ Begin(api, n, <<value>>)
      \/ Begin(api, n, <<open, value>>)
      \/ Real.state = "leaf_list" /\ ~OnMarker /\ Begin(api, n, <<leaf, open, value>>)
      \/ Begin(api, n, <<none>>)
  BY <1>5 DEF EmitLeafList, Does, Complains, IsList
<1> HIDE DEF api, known, value, none, open, leaf
<1>7. CASE (Json => IsList(Real.state)) /\ Begin(api, n, <<value>>)
  <2>1. Planned1(api, value)
    BY <1>3, <1>4, <1>7 DEF Planned1, Allows
  <2> QED BY <1>1, <1>7, <2>1, BegunOne
<1>8. InOpened(open, value) /\ Follow(stack, open, value)
  BY <1>2, <1>3 DEF Follow, InOpened, IsList
<1>9. CASE Begin(api, n, <<open, value>>)
  BY <1>1, <1>2, <1>3, <1>8, <1>9, BegunTwo
<1>10. CASE Real.state = "leaf_list" /\ ~OnMarker /\ Begin(api, n, <<leaf, open, value>>)
  <2>1. Planned1(api, leaf)
    BY <1>1, <1>10, ClosePlanned DEF leaf
  <2>2. Follow(stack, leaf, open)
    BY <1>2, <1>10, AfterClose DEF leaf
  <2> QED BY <1>1, <1>2, <1>3, <1>8, <1>10, <2>1, <2>2, BegunThree
<1>11. CASE Begin(api, n, <<none>>)
  <2>1. Planned1(api, none)
    BY <1>3 DEF Planned1, Allows
  <2> QED BY <1>1, <1>11, <2>1, BegunOne
<1> QED BY <1>6, <1>7, <1>9, <1>10, <1>11

LEMMA CallBegun ==
    ASSUME CallerInv, Kept, Call
    PROVE  KeptBegun \/ \E n \in MarkerNames : OpenMarker(n)
BY OpenContainerBegun, OpenListBegun, OpenInstanceBegun, OpenLeafListBegun,
   CloseContainerBegun, CloseListBegun, CloseInstanceBegun, CloseLeafListBegun,
   CloseMarkerBegun, FinishBegun, EmitBegun, EmitLeafListBegun, RolesAssumption
   DEF Call

LEMMA BegunKeeps ==
    ASSUME CallerInv, KeptBegun
    PROVE  Keeps
<1>1. PICK api \in Apis : \E name \in AllNames \cup {NoName} : \E tasks :
        /\ Begin(api, name, tasks)
        /\ Finishes(api, tasks)
        /\ Shows => Doable(stack, tasks)
  BY DEF KeptBegun
<1>2. PICK name \in AllNames \cup {NoName} : \E tasks :
        /\ Begin(api, name, tasks)
        /\ Finishes(api, tasks)
        /\ Shows => Doable(stack, tasks)
  BY <1>1
<1> PICK tasks : /\ Begin(api, name, tasks)
                 /\ Finishes(api, tasks)
                 /\ Shows => Doable(stack, tasks)
  BY <1>2
<1>3. /\ todo' = tasks /\ UNCHANGED <<opts, stack>>
      /\ call' = IF tasks = <<>> THEN Idle ELSE [api |-> api, name |-> name]
  BY DEF Begin
<1>4. call' = Finished => todo' = <<>>
  BY <1>3 DEF Finished, Apis
<1>5. Finishes(call'.api, todo')
  BY <1>3 DEF Finishes
<1> QED BY <1>3, <1>4, <1>5 DEF Keeps, CallerInv

LEMMA OpenMarkerKeeps ==
    ASSUME CallerInv, NEW n \in MarkerNames, OpenMarker(n)
    PROVE  Keeps
<1>1. /\ TypeOK /\ GoodStack(stack) /\ Len(stack) \in Nat \ {0} /\ Rooted(stack)
      /\ Top = stack[Len(stack)] /\ Top \in Frame
      /\ call = Idle => todo = <<>>
  BY TypeFacts, StackLen DEF CallerInv, Inv, TypeInv, Top
<1>2. /\ UNCHANGED <<opts, call, todo>> /\ call = Idle
      /\ stack' = Append(stack, [Top EXCEPT !.state = "marker", !.name = n])
  BY DEF OpenMarker
<1>3. /\ GoodStack(stack') /\ PushedTo(stack, stack')
      /\ stack'[Len(stack')].state = "marker" /\ Len(stack') = Len(stack) + 1
  BY <1>1, OpenMarkerTurn DEF PushedTo
<1>4. Rooted(stack')
  BY <1>1, <1>3, StaysRooted
<1>5. Shows => InstancesHeld(stack')
  BY <1>1, <1>3, PushedHeld DEF CallerInv
<1>6. Doable(stack', todo')
  BY <1>1, <1>2 DEF Doable
<1>7. ASSUME Json PROVE FieldsHeld(stack')
  <2> DEFINE f == [Top EXCEPT !.state = "marker", !.name = n]
  <2>1. /\ f.state = "marker" /\ f.emit = Top.emit /\ f.emitKey = Top.emitKey
        /\ f.emitLeaf = Top.emitLeaf
    BY <1>1 DEF Frame
  <2> HIDE DEF f
  <2>2. /\ \A i \in 1..Len(stack) : stack'[i] = stack[i]
        /\ stack'[Len(stack')] = f
    BY <1>1, <1>2, <1>3 DEF GoodStack, f
  <2>3. FieldsHeld(stack)
    BY <1>7 DEF CallerInv
  <2> QED BY <1>1, <1>3, <2>1, <2>2, <2>3, FieldsPushed
<1> QED BY <1>1, <1>2, <1>4, <1>5, <1>6, <1>7 DEF Keeps, CallerInv

-----------------------------------------------------------------------------

LEMMA CallerInvInit == Init => CallerInv
<1> SUFFICES ASSUME Init PROVE CallerInv
  OBVIOUS
<1>1. stack = <<Root>> /\ todo = <<>> /\ call = Idle /\ Inv
  BY InvInit DEF Init
<1>2. Root.state = "init" /\ OwnFields(Root, FALSE)
  BY DEF Root, NewFrame, OwnFields
<1>3. DOMAIN stack = {1} /\ stack[1] = Root
  BY <1>1
<1>4. Finishes(call.api, todo) /\ Doable(stack, todo)
  BY <1>1 DEF Finishes, Doable
<1>5. Rooted(stack) /\ InstancesHeld(stack)
  BY <1>3 DEF Rooted, InstancesHeld
<1>6. FieldsHeld(stack)
  <2>1. ~Root.emit /\ ~Root.emitKey /\ ~Root.emitLeaf
    BY DEF Root, NewFrame
  <2>2. \A j \in DOMAIN stack : stack[j] = Root
    BY <1>3
  <2>3. \A list : OwnFields(Root, list)
    BY <2>1 DEF OwnFields
  <2>4. \A i, j \in DOMAIN stack : OwnFields(stack[j], IsList(stack[i].state))
    BY <2>2, <2>3
  <2> QED BY <2>4 DEF FieldsHeld
<1> QED BY <1>1, <1>4, <1>5, <1>6 DEF CallerInv

LEMMA NextKeeps ==
    ASSUME CallerInv, Next /\ Kept
    PROVE  Keeps
<1>1. CASE Call
  BY <1>1, CallBegun, BegunKeeps, OpenMarkerKeeps
<1>2. CASE Step
  BY <1>2, OpenStepKeeps, CloseStepKeeps, SearchStepKeeps, CloseAllStepKeeps,
     ValueStepKeeps, FinishStepKeeps DEF Step
<1> QED BY <1>1, <1>2 DEF Next

LEMMA CallerInvNext ==
    ASSUME NamesSettle
    PROVE  CallerInv /\ [Next /\ Kept]_vars => CallerInv'
<1> SUFFICES ASSUME CallerInv, [Next /\ Kept]_vars PROVE CallerInv'
  OBVIOUS
<1>1. Inv'
  BY InvNext DEF CallerInv
<1>2. CASE Next /\ Kept
  BY <1>1, <1>2, NextKeeps, KeepsMeans
<1>3. CASE UNCHANGED vars
  <2>1. UNCHANGED <<opts, stack, call, todo>>
    BY <1>3 DEF vars
  <2> QED BY <1>1, <2>1 DEF CallerInv, Shows, Json, Doable, Allows,
          Follow, InOpened, Ordinary, Matches
<1> QED BY <1>2, <1>3

-----------------------------------------------------------------------------
(* The proper caller: one of the tolerable ones, and the only one that      *)
(* gives every search a frame to find.                                      *)

\* Handles whose frames follow the calls, and whose encoder does not fail
ProperHandles == \A o \in Options : o.style \in {"json", "xml", "encoder"} /\ ~o.encoderFails

LEMMA ProperFacts ==
    ASSUME ProperHandles, TypeOK
    PROVE  Shows /\ ReturnCodes = {TRUE}
BY DEF ProperHandles, TypeOK, Shows, ReturnCodes

\* A call of the API that starts is one of the table's, or has nothing to do.
LEMMA StartsAs ==
    ASSUME NEW api, NEW name, NEW tasks, Begin(api, name, tasks)
    PROVE  \/ call' = Idle
           \/ call' = [api |-> api, name |-> name]
BY DEF Begin

\* A step belongs to a call that began before.
LEMMA StepIsKept ==
    ASSUME Inv, Step
    PROVE  Next /\ Kept
<1>1. todo # <<>>
  <2>1. \A op : Working(op) => todo # <<>>
    BY DEF Working
  <2>2. OpenStep => Working("open")
    BY DEF OpenStep
  <2>3. CloseStep => Working("close")
    BY DEF CloseStep
  <2>4. SearchStep => Working("search")
    BY DEF SearchStep
  <2>5. CloseAllStep => Working("close_all")
    BY DEF CloseAllStep
  <2>6. ValueStep => Working("value")
    BY DEF ValueStep
  <2>7. FinishStep => Working("finish")
    BY DEF FinishStep
  <2> QED BY <2>1, <2>2, <2>3, <2>4, <2>5, <2>6, <2>7 DEF Step
<1>2. call # Idle
  BY <1>1 DEF Inv
<1>3. \A api : ~Begins(api)
  BY <1>2 DEF Begins
<1> QED BY <1>3 DEF Kept, Next

\* Kept, where the call that begins is known
LEMMA KeptOf ==
    ASSUME NEW api, NEW name, call' = Idle \/ call' = [api |-> api, name |-> name],
           api = "close_container" => Real.state # "init",
           api = "close_instance" /\ Real.state = "instance" /\ name # NoName =>
               NameMap[name] = Real.name,
           api = "close_leaf_list" /\ Real.state = "leaf_list" /\ name # NoName =>
               NameMap[name] = Real.name,
           api = "open_instance" => Real.state # "leaf_list",
           api = "emit" => ~(OnMarker /\ IsList(Real.state)),
           api = "open_container" => ~(Real.state = "list" /\ ~OnMarker),
           api = "open_leaf_list" => ~(Real.state = "leaf_list" /\ ~OnMarker)
    PROVE  Kept
<1>1. CASE call' = Idle
  <2>1. \A x : Begins(x) => x = "none"
    BY <1>1 DEF Begins, Idle
  <2> QED BY <2>1 DEF Kept
<1>2. CASE call' = [api |-> api, name |-> name]
  <2>1. call'.name = name /\ \A x : Begins(x) => x = api
    BY <1>2 DEF Begins
  <2> QED BY <2>1 DEF Kept
<1> QED BY <1>1, <1>2

\* The frame that a close is about
LEMMA EnclosingFrame ==
    ASSUME Inv
    PROVE  /\ ~Unfinished => Enclosing = Top
           /\ Unfinished => /\ Real = Top /\ Len(stack) > 1 /\ OnMarker = FALSE
                            /\ Enclosing = stack[Len(stack) - 1]
           /\ \A n : \A kind \in Kinds : ~Unfinished /\ Ends(n, kind, Enclosing) => ~OnMarker /\ Real = Top
           /\ \A n : \A kind \in Kinds : Ends(n, kind, Top) => ~OnMarker /\ Real = Top
<1>1. Top = stack[Len(stack)] /\ Len(stack) \in Nat \ {0} /\ (~OnMarker => Real = Top)
  BY RealOnTop
<1>2. \A n : \A kind \in Kinds : Ends(n, kind, Top) => ~OnMarker
  BY DEF Ends, OnMarker, Kinds
<1>3. Unfinished => Len(stack) > 1
  <2>1. Unfinished => Top.state = "leaf_list"
    BY <1>1 DEF Unfinished
  <2>2. stack[1].state = "init"
    BY DEF Inv, StackInv
  <2> QED BY <1>1, <2>1, <2>2
<1> QED BY <1>1, <1>2, <1>3 DEF Unfinished, Enclosing

\* The search finds its frame.
Closable(s, t) ==
    IF t.kind = "marker" THEN \E i \in DOMAIN s : Ends(t.name, "marker", s[i])
    ELSE t.kind \in Kinds /\ Ends(t.name, t.kind, s[Len(s)])

Sought(s, tasks) ==
    /\ 1 \in DOMAIN tasks /\ tasks[1].op = "search" => Closable(s, tasks[1])
    /\ 2 \in DOMAIN tasks /\ tasks[2].op = "search" =>
          /\ tasks[2].kind \in Kinds /\ Len(s) > 1
          /\ Ends(tasks[2].name, tasks[2].kind, s[Len(s) - 1])

ProperBegun ==
    /\ Kept
    /\ failed' = failed
    /\ UNCHANGED <<opts, stack>>
    /\ Sought(stack, todo')

LEMMA SoughtOne ==
    ASSUME NEW t, t.op = "search" => Closable(stack, t)
    PROVE  Sought(stack, <<t>>)
<1> DEFINE tasks == <<t>>
<1>1. DOMAIN tasks = {1} /\ tasks[1] = t
  OBVIOUS
<1> HIDE DEF tasks
<1>2. Sought(stack, tasks)
  BY <1>1 DEF Sought
<1> QED BY <1>2 DEF tasks

LEMMA SoughtTwo ==
    ASSUME NEW t, NEW u, t.op # "search",
           u.op = "search" => /\ u.kind \in Kinds /\ Len(stack) > 1
                              /\ Ends(u.name, u.kind, stack[Len(stack) - 1])
    PROVE  Sought(stack, <<t, u>>)
<1> DEFINE tasks == <<t, u>>
<1>1. DOMAIN tasks = {1, 2} /\ tasks[1] = t /\ tasks[2] = u
  OBVIOUS
<1> HIDE DEF tasks
<1>2. Sought(stack, tasks)
  BY <1>1 DEF Sought
<1> QED BY <1>2 DEF tasks

LEMMA SoughtThree ==
    ASSUME NEW t, NEW u, NEW v, t.op # "search", u.op # "search"
    PROVE  Sought(stack, <<t, u, v>>)
<1> DEFINE tasks == <<t, u, v>>
<1>1. tasks[1] = t /\ tasks[2] = u
  OBVIOUS
<1> HIDE DEF tasks
<1>2. Sought(stack, tasks)
  BY <1>1 DEF Sought
<1> QED BY <1>2 DEF tasks

LEMMA ProperlyBegun ==
    ASSUME NEW api, NEW name, NEW tasks, Does(api, name, tasks), Sought(stack, tasks), Kept
    PROVE  ProperBegun
BY DEF Does, Begin, ProperBegun

\* The tasks that are no search
LEMMA NoSearch ==
    ASSUME NEW kind, NEW name, NEW role, NEW ok
    PROVE  /\ OpenTask(kind, name).op # "search" /\ CloseTask(kind, name).op # "search"
           /\ ValueTask(role, ok).op # "search" /\ FinishTask.op # "search"
           /\ \A at, limit : CloseAllTask(at, limit).op # "search"
BY DEF OpenTask, CloseTask, ValueTask, FinishTask, CloseAllTask

LEMMA ProperOpens ==
    ASSUME Inv, Real.state \in {"init", "container", "instance"} \/ Unfinished,
           NEW n \in Names,
           OpenContainer(n) \/ OpenList(n) \/ EmitLeafList(n) \/ (~Unfinished /\ OpenLeafList(n))
    PROVE  ProperBegun
<1>1. IsList(Real.state) => Real.state = "leaf_list" /\ ~OnMarker
  BY DEF Unfinished, IsList
<1>2. \A kind, m : /\ Sought(stack, <<OpenTask(kind, m)>>)
                   /\ \A k, l : Sought(stack, <<CloseTask(k, l), OpenTask(kind, m)>>)
  BY NoSearch, SoughtOne, SoughtTwo
<1>3. CASE OpenContainer(n)
  <2>1. PICK tasks : Does("open_container", n, tasks) /\ Sought(stack, tasks)
    BY <1>1, <1>2, <1>3 DEF OpenContainer, PreventedByMarker
  <2>2. call' = Idle \/ call' = [api |-> "open_container", name |-> n]
    BY <2>1, StartsAs DEF Does
  <2>3. Kept
    BY <1>1, <2>2, KeptOf DEF IsList
  <2> QED BY <2>1, <2>3, ProperlyBegun
<1>4. CASE OpenList(n)
  <2>1. PICK tasks : Does("open_list", n, tasks) /\ Sought(stack, tasks)
    BY <1>1, <1>2, <1>4 DEF OpenList, PreventedByMarker
  <2>2. call' = Idle \/ call' = [api |-> "open_list", name |-> n]
    BY <2>1, StartsAs DEF Does
  <2>3. Kept
    BY <1>1, <2>2, KeptOf
  <2> QED BY <2>1, <2>3, ProperlyBegun
<1>5. CASE ~Unfinished /\ OpenLeafList(n)
  <2>1. PICK tasks : Does("open_leaf_list", n, tasks) /\ Sought(stack, tasks)
    BY <1>1, <1>2, <1>5 DEF OpenLeafList, PreventedByMarker
  <2>2. call' = Idle \/ call' = [api |-> "open_leaf_list", name |-> n]
    BY <2>1, StartsAs DEF Does
  <2>3. Kept
    BY <1>1, <1>5, <2>2, KeptOf DEF Unfinished
  <2> QED BY <2>1, <2>3, ProperlyBegun
<1>6. CASE EmitLeafList(n)
  <2> DEFINE value == ValueTask("leaf", TRUE)
             open == OpenTask("leaf_list", n)
             leaf == CloseTask("leaf_list", NoName)
  <2>1. Sought(stack, <<value>>)
    BY NoSearch, SoughtOne
  <2>2. Sought(stack, <<open, value>>)
    BY NoSearch, SoughtTwo
  <2>3. Sought(stack, <<leaf, open, value>>)
    BY NoSearch, SoughtThree
  <2>4. \/ Does("emit_leaf_list", n, <<value>>)
        \/ Does("emit_leaf_list", n, <<open, value>>)
        \/ Does("emit_leaf_list", n, <<leaf, open, value>>)
    BY <1>1, <1>6 DEF EmitLeafList, IsList
  <2> HIDE DEF value, open, leaf
  <2>5. PICK tasks : Does("emit_leaf_list", n, tasks) /\ Sought(stack, tasks)
    BY <2>1, <2>2, <2>3, <2>4
  <2>6. call' = Idle \/ call' = [api |-> "emit_leaf_list", name |-> n]
    BY <2>5, StartsAs DEF Does
  <2>7. Kept
    BY <2>6, KeptOf
  <2> QED BY <2>5, <2>7, ProperlyBegun
<1> QED BY <1>3, <1>4, <1>5, <1>6

LEMMA ProperInstance ==
    ASSUME Inv, Real.state = "list", NEW n \in Names, OpenInstance(n)
    PROVE  ProperBegun
<1>1. Does("open_instance", n, <<OpenTask("instance", n)>>)
  BY DEF OpenInstance
<1>2. Sought(stack, <<OpenTask("instance", n)>>)
  BY NoSearch, SoughtOne
<1>3. call' = Idle \/ call' = [api |-> "open_instance", name |-> n]
  BY <1>1, StartsAs DEF Does
<1>4. Kept
  BY <1>3, KeptOf
<1> QED BY <1>1, <1>2, <1>4, ProperlyBegun

\* Enclosing, once the leaf-list on top is closed
LEMMA SoughtLater ==
    ASSUME Inv, Unfinished, NEW kind \in Kinds, NEW n, Ends(n, kind, Enclosing)
    PROVE  Sought(stack, <<CloseTask("leaf_list", NoName), SearchTask(kind, n)>>)
<1> DEFINE leaf == CloseTask("leaf_list", NoName)
           search == SearchTask(kind, n)
<1>1. search.kind = kind /\ search.name = n /\ leaf.op # "search"
  BY NoSearch DEF SearchTask
<1>2. Len(stack) > 1 /\ Ends(n, kind, stack[Len(stack) - 1])
  BY EnclosingFrame
<1> HIDE DEF leaf, search
<1>3. Sought(stack, <<leaf, search>>)
  BY <1>1, <1>2, SoughtTwo
<1> QED BY <1>3 DEF leaf, search

LEMMA SoughtNow ==
    ASSUME Inv, NEW kind \in Kinds, NEW n, Ends(n, kind, Top)
    PROVE  Sought(stack, <<SearchTask(kind, n)>>)
<1> DEFINE search == SearchTask(kind, n)
<1>1. search.kind = kind /\ search.name = n /\ kind # "marker"
  BY DEF SearchTask, Kinds
<1>2. Closable(stack, search)
  BY <1>1 DEF Closable, Top
<1> HIDE DEF search
<1>3. Sought(stack, <<search>>)
  BY <1>2, SoughtOne
<1> QED BY <1>3 DEF search

LEMMA ProperCloseContainer ==
    ASSUME Inv, NEW n \in Names \cup {NoName}, Ends(n, "container", Enclosing), CloseContainer(n)
    PROVE  ProperBegun
<1>1. "container" \in Kinds /\ "leaf_list" \in Kinds
  BY DEF Kinds
<1>2. CASE Unfinished
  <2>1. Real.state = "leaf_list" /\ ~OnMarker
    BY <1>2 DEF Unfinished
  <2>2. Does("close_container", n, <<CloseTask("leaf_list", NoName), SearchTask("container", n)>>)
    BY <2>1 DEF CloseContainer, PreventedByMarker
  <2>3. Sought(stack, <<CloseTask("leaf_list", NoName), SearchTask("container", n)>>)
    BY <1>1, <1>2, SoughtLater
  <2>4. call' = Idle \/ call' = [api |-> "close_container", name |-> n]
    BY <2>2, StartsAs DEF Does
  <2>5. Kept
    BY <2>1, <2>4, KeptOf
  <2> QED BY <2>2, <2>3, <2>5, ProperlyBegun
<1>3. CASE ~Unfinished
  <2>1. ~OnMarker /\ Real = Top /\ Ends(n, "container", Top)
    BY <1>1, <1>3, EnclosingFrame
  <2>2. Real.state = "container"
    BY <2>1 DEF Ends
  <2>3. Does("close_container", n, <<SearchTask("container", n)>>)
    BY <2>1, <2>2 DEF CloseContainer, PreventedByMarker
  <2>4. Sought(stack, <<SearchTask("container", n)>>)
    BY <1>1, <2>1, SoughtNow
  <2>5. call' = Idle \/ call' = [api |-> "close_container", name |-> n]
    BY <2>3, StartsAs DEF Does
  <2>6. Kept
    BY <2>2, <2>5, KeptOf
  <2> QED BY <2>3, <2>4, <2>6, ProperlyBegun
<1> QED BY <1>2, <1>3

LEMMA ProperCloseInstance ==
    ASSUME Inv, NEW n \in Names \cup {NoName}, Ends(n, "instance", Enclosing), CloseInstance(n)
    PROVE  ProperBegun
<1>1. "instance" \in Kinds /\ "leaf_list" \in Kinds
  BY DEF Kinds
<1>2. CASE Unfinished
  <2>1. Real.state = "leaf_list" /\ ~OnMarker
    BY <1>2 DEF Unfinished
  <2>2. Does("close_instance", n, <<CloseTask("leaf_list", NoName), SearchTask("instance", n)>>)
    BY <2>1 DEF CloseInstance, PreventedByMarker
  <2>3. Sought(stack, <<CloseTask("leaf_list", NoName), SearchTask("instance", n)>>)
    BY <1>1, <1>2, SoughtLater
  <2>4. call' = Idle \/ call' = [api |-> "close_instance", name |-> n]
    BY <2>2, StartsAs DEF Does
  <2>5. Kept
    BY <2>1, <2>4, KeptOf
  <2> QED BY <2>2, <2>3, <2>5, ProperlyBegun
<1>3. CASE ~Unfinished
  <2>1. ~OnMarker /\ Real = Top /\ Ends(n, "instance", Top)
    BY <1>1, <1>3, EnclosingFrame
  <2>2. Real.state = "instance" /\ (n # NoName => NameMap[n] = Real.name)
    BY <2>1 DEF Ends
  <2>3. Does("close_instance", n, <<CloseTask("instance", n)>>)
    BY <2>1, <2>2 DEF CloseInstance, PreventedByMarker
  <2>4. Sought(stack, <<CloseTask("instance", n)>>)
    BY NoSearch, SoughtOne
  <2>5. call' = Idle \/ call' = [api |-> "close_instance", name |-> n]
    BY <2>3, StartsAs DEF Does
  <2>6. Kept
    BY <2>2, <2>5, KeptOf
  <2> QED BY <2>3, <2>4, <2>6, ProperlyBegun
<1> QED BY <1>2, <1>3

LEMMA ProperCloseList ==
    ASSUME Inv, NEW n \in Names \cup {NoName}, Ends(n, "list", Top), CloseList(n)
    PROVE  ProperBegun
<1>1. "list" \in Kinds
  BY DEF Kinds
<1>2. ~OnMarker
  BY <1>1, EnclosingFrame
<1>3. Does("close_list", n, <<SearchTask("list", n)>>)
  BY <1>2 DEF CloseList, PreventedByMarker
<1>4. Sought(stack, <<SearchTask("list", n)>>)
  BY <1>1, SoughtNow
<1>5. call' = Idle \/ call' = [api |-> "close_list", name |-> n]
  BY <1>3, StartsAs DEF Does
<1>6. Kept
  BY <1>5, KeptOf
<1> QED BY <1>3, <1>4, <1>6, ProperlyBegun

LEMMA ProperCloseLeafList ==
    ASSUME Inv, NEW n \in Names \cup {NoName}, Ends(n, "leaf_list", Top), CloseLeafList(n)
    PROVE  ProperBegun
<1>1. "leaf_list" \in Kinds
  BY DEF Kinds
<1>2. ~OnMarker /\ Real = Top
  BY <1>1, EnclosingFrame
<1>3. Real.state = "leaf_list" /\ (n # NoName => NameMap[n] = Real.name)
  BY <1>2 DEF Ends
<1>4. Does("close_leaf_list", n, <<CloseTask("leaf_list", n)>>)
  BY <1>2, <1>3 DEF CloseLeafList, PreventedByMarker
<1>5. Sought(stack, <<CloseTask("leaf_list", n)>>)
  BY NoSearch, SoughtOne
<1>6. call' = Idle \/ call' = [api |-> "close_leaf_list", name |-> n]
  BY <1>4, StartsAs DEF Does
<1>7. Kept
  BY <1>3, <1>6, KeptOf
<1> QED BY <1>4, <1>5, <1>7, ProperlyBegun

LEMMA ProperCloseMarker ==
    ASSUME Inv, NEW n \in MarkerNames \cup {NoName}, CloseMarker(n),
           \E i \in DOMAIN stack : Ends(n, "marker", stack[i])
    PROVE  ProperBegun
<1> DEFINE search == SearchTask("marker", n)
<1>1. Does("close_marker", n, <<search>>)
  BY DEF CloseMarker
<1>2. Closable(stack, search)
  BY DEF Closable, SearchTask
<1> HIDE DEF search
<1>3. Sought(stack, <<search>>)
  BY <1>2, SoughtOne
<1>4. call' = Idle \/ call' = [api |-> "close_marker", name |-> n]
  BY <1>1, StartsAs DEF Does
<1>5. Kept
  BY <1>4, KeptOf
<1> QED BY <1>1, <1>3, <1>5, ProperlyBegun

LEMMA ProperEmit ==
    ASSUME Inv, NEW role \in {"key", "value"}, role = "key" => ~Top.emit, Emit(role),
           \/ Real.state \in {"container", "instance"} \/ Unfinished
           \/ Real.state = "init" /\ opts.noTopLevel
    PROVE  ProperBegun
<1> DEFINE value == ValueTask(role, TRUE)
           leaf == CloseTask("leaf_list", NoName)
<1>1. Sought(stack, <<value>>)
  BY NoSearch, SoughtOne
<1>2. Sought(stack, <<leaf, value>>)
  BY NoSearch, SoughtTwo
<1>3. /\ ~(OnMarker /\ IsList(Real.state)) /\ Real.state # "list"
      /\ Real.state = "init" => opts.noTopLevel
  BY DEF Unfinished, IsList
<1>4. Does("emit", NoName, <<value>>) \/ Does("emit", NoName, <<leaf, value>>)
  <2>1. ~(role = "key" /\ Top.emit)
    OBVIOUS
  <2>2. FailsIf(FALSE) => UNCHANGED failed
    BY DEF FailsIf, Inv, TypeInv, TypeOK
  <2> DEFINE late == role = "key" /\ Top.emit
             known == IF role = "key" THEN Top.emitKey ELSE Top.emit /\ ~Top.emitLeaf
  <2>3. CASE known
    <3>1. Begin("emit", NoName, <<value>>) /\ FailsIf(FALSE)
      BY <2>1, <2>3 DEF Emit
    <3> QED BY <2>2, <3>1 DEF Does
  <2>4. CASE ~known
    BY <1>3, <2>1, <2>4 DEF Emit
  <2> QED BY <2>3, <2>4
<1> HIDE DEF value, leaf
<1>5. PICK tasks : Does("emit", NoName, tasks) /\ Sought(stack, tasks)
  BY <1>1, <1>2, <1>4
<1>6. call' = Idle \/ call' = [api |-> "emit", name |-> NoName]
  BY <1>5, StartsAs DEF Does
<1>7. Kept
  BY <1>3, <1>6, KeptOf
<1> QED BY <1>5, <1>7, ProperlyBegun

LEMMA ProperFinish ==
    ASSUME Inv, Finish
    PROVE  ProperBegun
<1> DEFINE walk == CloseAllTask(Len(stack), 1)
           end == FinishTask
<1>1. \/ Does("finish", NoName, <<end>>)
      \/ Does("finish", NoName, <<walk, end>>)
  BY DEF Finish
<1>2. Sought(stack, <<end>>) /\ Sought(stack, <<walk, end>>)
  BY NoSearch, SoughtOne, SoughtTwo
<1> HIDE DEF end, walk
<1>3. PICK tasks : Does("finish", NoName, tasks) /\ Sought(stack, tasks)
  BY <1>1, <1>2
<1>4. call' = Idle \/ call' = [api |-> "finish", name |-> NoName]
  BY <1>3, StartsAs DEF Does
<1>5. Kept
  BY <1>4, KeptOf
<1> QED BY <1>3, <1>5, ProperlyBegun

\* What the proper caller calls, the tolerable one may, and it is not reported.
LEMMA ProperIsKept ==
    ASSUME Inv, ProperCall
    PROVE  Next /\ Kept /\ (ProperBegun \/ \E n \in MarkerNames : OpenMarker(n))
<1>1. Call
  BY DEF ProperCall, Call
<1>2. ProperBegun \/ \E n \in MarkerNames : OpenMarker(n)
  BY ProperOpens, ProperInstance, ProperCloseContainer, ProperCloseInstance, ProperCloseList,
     ProperCloseLeafList, ProperCloseMarker, ProperEmit, ProperFinish, RolesAssumption
     DEF ProperCall
<1>3. ASSUME NEW n \in MarkerNames, OpenMarker(n) PROVE Kept
  <2>1. call' = Idle
    BY <1>3 DEF OpenMarker
  <2>2. \A x : Begins(x) => x = "none"
    BY <2>1 DEF Begins, Idle
  <2> QED BY <2>2 DEF Kept
<1> QED BY <1>1, <1>2, <1>3 DEF ProperBegun, Next

-----------------------------------------------------------------------------
(* The steps of its calls *)

\* Of the frames that match, one is nearest.
LEMMA NearestFrame ==
    ASSUME NEW n \in Nat, NEW S, S \subseteq 1..n, S # {}
    PROVE  \E i \in S : \A j \in S : j <= i
<1> DEFINE T == {n - i : i \in S}
<1>1. T \subseteq Nat /\ T # {}
  <2>1. \A i \in 1..n : n - i \in Nat
    OBVIOUS
  <2>2. \A i \in S : n - i \in Nat
    BY <2>1
  <2> QED BY <2>2
<1>2. PICK x \in T : \A y \in T : ~(<<y, x>> \in OpToRel(<, Nat))
  <2> HIDE DEF T
  <2> QED BY <1>1, WFMin, NatLessThanWellFounded, Zenon
<1>3. \A y \in T : x <= y
  <2> SUFFICES ASSUME NEW y \in T PROVE x <= y
    OBVIOUS
  <2> HIDE DEF T
  <2>1. <<y, x>> \in Nat \X Nat
    BY <1>1
  <2>2. ~(y < x)
    BY <1>2, <2>1, Zenon DEF OpToRel
  <2> QED BY <1>1, <2>2
<1>4. PICK i \in S : x = n - i
  OBVIOUS
<1>5. ASSUME NEW j \in S PROVE j <= i
  <2>1. n - i <= n - j
    BY <1>3, <1>4
  <2>2. i \in 1..n /\ j \in 1..n
    OBVIOUS
  <2> HIDE DEF T
  <2> QED BY <2>1, <2>2
<1> QED BY <1>4, <1>5

\* What the proper caller's steps keep, but for CallerInv
KeepsQuiet == failed' = failed /\ Sought(stack', todo')

LEMMA CloseIsQuiet ==
    ASSUME TypeOK, StackInv(stack), NEW kind \in Kinds, NEW name \in AllNames \cup {NoName},
           Matches(Top, kind, name)
    PROVE  ~CloseReported(kind, name)
<1>1. /\ MappedClose(name) = Top.name /\ Top.name \in AllNames
      /\ ~PopRefused(Top.name, IsList(kind))
  BY MatchedNames
<1>2. NameClosed(name) # NoName
  BY <1>1, NamesAssumption DEF NameClosed
<1> QED BY <1>1, <1>2 DEF CloseReported, PopReported

\* What remains of a call once its first task is done
LEMMA TailSought ==
    ASSUME CallerInv, Shows, todo # <<>>, Sought(stack, todo), todo' = Tail(todo),
           todo[1].op = "close" => PoppedTo(stack, stack') /\ GoodStack(stack')
    PROVE  Sought(stack', todo')
<1>1. /\ Len(todo) \in Nat \ {0} /\ DOMAIN todo = 1..Len(todo)
      /\ DOMAIN Tail(todo) = 1..(Len(todo) - 1)
      /\ \A i \in DOMAIN Tail(todo) : i + 1 \in DOMAIN todo /\ Tail(todo)[i] = todo[i + 1]
  BY TodoFacts DEF CallerInv, Inv, TypeInv
<1>2. Doable(stack, todo)
  BY DEF CallerInv
<1>3. 2 \in DOMAIN todo' => todo'[2].op # "search"
  <2> SUFFICES ASSUME 2 \in DOMAIN Tail(todo) PROVE Tail(todo)[2].op # "search"
    OBVIOUS
  <2>1. 2 + 1 \in DOMAIN todo /\ Tail(todo)[2] = todo[2 + 1] /\ 2 + 1 = 3
    BY <1>1
  <2> QED BY <1>2, <2>1 DEF Doable, InOpened
<1>4. 1 \in DOMAIN todo' /\ todo'[1].op = "search" => Closable(stack', todo'[1])
  <2> SUFFICES ASSUME 1 \in DOMAIN Tail(todo), Tail(todo)[1].op = "search"
               PROVE  Closable(stack', Tail(todo)[1])
    OBVIOUS
  <2>1. 2 \in DOMAIN todo /\ Tail(todo)[1] = todo[2] /\ todo[2].op = "search"
    <3>1. 1 + 1 = 2
      OBVIOUS
    <3> QED BY <1>1, <3>1
  <2>2. todo[1].op = "close"
    BY <1>2, <2>1 DEF Doable, Follow, InOpened, Ordinary
  <2>3. /\ todo[2].kind \in Kinds /\ Len(stack) > 1
        /\ Ends(todo[2].name, todo[2].kind, stack[Len(stack) - 1])
    BY <2>1 DEF Sought
  <2>4. /\ Len(stack') = Len(stack) - 1 /\ Len(stack') \in 1..Len(stack')
        /\ stack'[Len(stack')].state = stack[Len(stack) - 1].state
        /\ stack'[Len(stack')].name = stack[Len(stack) - 1].name
    <3>1. Len(stack') \in Nat \ {0}
      BY <2>2, StackLen
    <3>2. Len(stack') \in 1..Len(stack')
      BY <3>1
    <3> QED BY <2>2, <3>2 DEF PoppedTo
  <2>5. Ends(todo[2].name, todo[2].kind, stack'[Len(stack')])
    BY <2>3, <2>4 DEF Ends
  <2> QED BY <2>1, <2>3, <2>5 DEF Closable, Kinds
<1> QED BY <1>3, <1>4 DEF Sought

LEMMA QuietOpen ==
    ASSUME CallerInv, Shows, ReturnCodes = {TRUE}, Sought(stack, todo), OpenStep
    PROVE  KeepsQuiet
<1>1. todo # <<>> /\ todo[1].op = "open"
  BY StepFacts DEF OpenStep, Working
<1>2. Continue(Tail(todo)) /\ failed' = failed
  BY DEF OpenStep
<1>3. todo' = Tail(todo)
  BY <1>2 DEF Continue
<1> QED BY <1>1, <1>2, <1>3, TailSought DEF KeepsQuiet

LEMMA QuietClose ==
    ASSUME CallerInv, Shows, ReturnCodes = {TRUE}, Sought(stack, todo), CloseStep
    PROVE  KeepsQuiet
<1> DEFINE kind == todo[1].kind
           name == todo[1].name
<1>1. /\ todo # <<>> /\ TypeOK /\ StackInv(stack) /\ failed \in BOOLEAN
      /\ 1 \in DOMAIN todo /\ Head(todo) = todo[1] /\ todo[1] \in Task
      /\ Doable(stack, todo) /\ todo[1].op = "close" /\ Top = stack[Len(stack)]
  BY StepFacts DEF CloseStep, Working, TypeOK
<1>2. kind \in Kinds /\ name \in AllNames \cup {NoName} /\ DoClose(kind, name)
  BY <1>1, TaskFields, ClosesMeans DEF CloseStep
<1>3. Matches(Top, kind, name)
  BY <1>1 DEF Doable, Allows
<1>4. ~CloseReported(kind, name)
  BY <1>1, <1>2, <1>3, CloseIsQuiet
<1>5. FailsIf(CloseReported(kind, name)) /\ Continue(Tail(todo))
  BY <1>1 DEF CloseStep
<1>6. failed' = failed
  BY <1>1, <1>4, <1>5 DEF FailsIf
<1>7. todo' = Tail(todo)
  BY <1>5 DEF Continue
<1>8. PoppedTo(stack, stack') /\ GoodStack(stack')
  BY <1>1, <1>2, <1>3, CloseKeeps
<1> QED BY <1>1, <1>6, <1>7, <1>8, TailSought DEF KeepsQuiet

\* A walk takes the place of the task at hand.
LEMMA WalkSought ==
    ASSUME CallerInv, Shows, todo # <<>>, NEW w \in Task, w.op = "close_all",
           todo[1].op # "close", NEW s
    PROVE  Sought(s, <<w>> \o Tail(todo))
<1> DEFINE t == <<w>> \o Tail(todo)
<1>1. TypeOK /\ Doable(stack, todo) /\ 1 \in DOMAIN todo
  BY StepFacts
<1>2. /\ DOMAIN t = DOMAIN todo /\ t[1] = w
      /\ \A i \in DOMAIN t : i # 1 => t[i] = todo[i]
  BY <1>1, WalkTasks
<1> HIDE DEF t
<1>3. 2 \in DOMAIN todo => todo[2].op # "search"
  BY <1>1 DEF Doable, Follow, InOpened, Ordinary
<1>4. Sought(s, t)
  BY <1>2, <1>3 DEF Sought
<1> QED BY <1>4 DEF t

LEMMA QuietSearch ==
    ASSUME CallerInv, Shows, Sought(stack, todo), SearchStep
    PROVE  KeepsQuiet
<1> DEFINE n == Len(stack)
           kind == todo[1].kind
           name == IF todo[1].name = NoName THEN NoName ELSE NameMap[todo[1].name]
           stops(i) == StopsAt(kind, i)
           matches(i) == /\ stack[i].state = kind
                         /\ name # NoName => stack[i].name \in {name, NoName}
           first(i) == /\ stops(i) \/ matches(i)
                       /\ \A j \in (i + 1)..Len(stack) : ~stops(j) /\ ~matches(j)
<1>1. /\ todo # <<>> /\ TypeOK /\ n \in Nat \ {0} /\ DOMAIN stack = 1..n
      /\ stack[1].state = "init" /\ Top = stack[n] /\ failed \in BOOLEAN
      /\ 1 \in DOMAIN todo /\ Head(todo) = todo[1] /\ todo[1] \in Task
      /\ todo[1].op = "search"
  BY StepFacts DEF SearchStep, Working, StackInv, TypeOK
<1>2. stack' = stack
  BY DEF SearchStep
<1>3. \/ \E i \in 2..n : /\ first(i) /\ ~(stops(i) /\ name # NoName)
                          /\ Continue(<<CloseAllTask(n, i)>> \o Tail(todo))
                          /\ FailsIf(stops(i))
      \/ \A i \in 2..n : first(i) => stops(i) /\ name # NoName
  BY <1>1 DEF SearchStep
<1>4. Closable(stack, todo[1])
  BY <1>1 DEF Sought
<1>5. \A f : Ends(todo[1].name, kind, f) =>
                f.state = kind /\ (name # NoName => f.name = name)
  BY DEF Ends
<1>6. kind \in Kinds \cup {"marker"}
  BY <1>1, TaskFields
\* The frame that is found first is no marker that stops the search.
<1>7. /\ \E i \in 2..n : first(i)
      /\ \A i \in 2..n : first(i) => ~stops(i)
  <2>1. CASE kind = "marker"
    <3> DEFINE S == {i \in 1..n : matches(i)}
    <3>1. \A i : ~stops(i)
      BY <2>1 DEF StopsAt
    <3>2. S # {} /\ S \subseteq 1..n
      BY <1>1, <1>4, <1>5, <2>1 DEF Closable
    <3>3. PICK i \in S : \A j \in S : j <= i
      <4> HIDE DEF S, n
      <4> QED BY <1>1, <3>2, NearestFrame
    <3>4. i \in 1..n /\ matches(i)
      BY <3>2
    <3>5. i # 1
      BY <1>1, <2>1, <3>4
    <3>6. ASSUME NEW j \in (i + 1)..n PROVE ~matches(j)
      <4>1. j \in 1..n /\ ~(j <= i)
        <5> HIDE DEF n
        <5> QED BY <1>1, <3>4
      <4>2. j \notin S
        <5> HIDE DEF S
        <5> QED BY <3>3, <4>1
      <4> QED BY <4>1, <4>2
    <3>7. first(i)
      BY <3>1, <3>4, <3>6
    <3>8. i \in 2..n
      <4> HIDE DEF n
      <4> QED BY <1>1, <3>4, <3>5
    <3> HIDE DEF first, stops, S, n
    <3> QED BY <3>1, <3>7, <3>8
  <2>2. CASE kind \in Kinds
    <3>1. kind # "marker" /\ kind # "init"
      BY <2>2 DEF Kinds
    <3>2. matches(n)
      BY <1>4, <1>5, <3>1 DEF Closable
    <3>3. ~stops(n) /\ n # 1
      BY <1>1, <3>1, <3>2 DEF StopsAt
    <3>4. n \in 2..n /\ (n + 1)..n = {}
      <4> HIDE DEF n
      <4> QED BY <1>1, <3>3
    <3>5. first(n)
      BY <3>2, <3>4
    <3>6. ASSUME NEW i \in 2..n, first(i) PROVE ~stops(i)
      <4>1. i # n => n \in (i + 1)..n
        <5> HIDE DEF n
        <5> QED BY <1>1
      <4> QED BY <3>2, <3>3, <3>6, <4>1
    <3> HIDE DEF first, stops
    <3> QED BY <3>4, <3>5, <3>6
  <2> QED BY <1>6, <2>1, <2>2
<1> HIDE DEF first, stops
<1>8. PICK i \in 2..n : /\ first(i)
                        /\ Continue(<<CloseAllTask(n, i)>> \o Tail(todo))
                        /\ FailsIf(stops(i))
  BY <1>3, <1>7
<1>12. failed' = failed
  <2>1. ~stops(i)
    BY <1>7, <1>8
  <2> QED BY <1>1, <1>8, <2>1 DEF FailsIf
<1> DEFINE w == CloseAllTask(n, i)
<1>9. w \in Task /\ w.op = "close_all"
  BY <1>1, TasksMade DEF CloseAllTask
<1>10. todo' = <<w>> \o Tail(todo)
  BY <1>8 DEF Continue
<1> HIDE DEF w
<1>11. Sought(stack', todo')
  BY <1>1, <1>9, <1>10, WalkSought
<1> QED BY <1>11, <1>12 DEF KeepsQuiet

LEMMA QuietCloseAll ==
    ASSUME CallerInv, Shows, ReturnCodes = {TRUE}, Sought(stack, todo), CloseAllStep
    PROVE  KeepsQuiet
<1> DEFINE n == Len(stack)
           at == todo[1].at
           limit == todo[1].limit
<1>1. /\ todo # <<>> /\ TypeOK /\ StackInv(stack) /\ n \in Nat \ {0} /\ failed \in BOOLEAN
      /\ 1 \in DOMAIN todo /\ Head(todo) = todo[1] /\ Top = stack[n]
      /\ at \in 1..n /\ limit \in 1..at /\ todo[1].op = "close_all"
  BY StepFacts, WalkedFrame DEF CloseAllStep, Working, TypeOK
<1>2. at = n /\ stack[at] = Top
  BY <1>1, WalkAtTop
<1>3. Continue(IF at > limit THEN <<CloseAllTask(at - 1, limit)>> \o Tail(todo)
               ELSE Tail(todo))
  BY <1>1 DEF CloseAllStep, FrameBelow
<1>4. \/ Top.state = "init" /\ UNCHANGED failed
      \/ Top.state = "marker" /\ FailsIf(PopReported(Top.name, FALSE))
      \/ Closes(Top.state, NoName) /\ FailsIf(CloseReported(Top.state, NoName))
  <2>1. ASSUME NEW ok \in ReturnCodes, FailsIf(CloseReported(Top.state, NoName) \/ ~ok)
        PROVE  FailsIf(CloseReported(Top.state, NoName))
    <3>1. ok = TRUE
      OBVIOUS
    <3> QED BY <2>1, <3>1 DEF FailsIf
  <2>2. \/ Top.state = "init" /\ UNCHANGED failed
        \/ Top.state = "marker" /\ FailsIf(PopReported(Top.name, FALSE))
        \/ /\ Closes(Top.state, NoName)
           /\ \E ok \in ReturnCodes : FailsIf(CloseReported(Top.state, NoName) \/ ~ok)
    BY <1>1, <1>2 DEF CloseAllStep
  <2> QED BY <2>1, <2>2
\* A marker is popped under its own name, and a construct too.
<1>5. failed' = failed
  <2>1. CASE Top.state = "marker" /\ FailsIf(PopReported(Top.name, FALSE))
    <3>1. n # 1 /\ IsList(Top.state) = FALSE
      BY <1>1, <2>1 DEF StackInv, IsList
    <3>2. ~PopReported(Top.name, FALSE)
      BY <3>1 DEF PopReported, PopRefused
    <3> QED BY <1>1, <2>1, <3>2 DEF FailsIf
  <2>2. CASE Closes(Top.state, NoName) /\ FailsIf(CloseReported(Top.state, NoName))
    <3>1. Top.state \in Kinds
      BY <2>2, ClosesMeans
    <3>2. Matches(Top, Top.state, NoName)
      BY <3>1 DEF Matches
    <3>3. ~CloseReported(Top.state, NoName)
      BY <1>1, <3>1, <3>2, CloseIsQuiet
    <3> QED BY <1>1, <2>2, <3>3 DEF FailsIf
  <2> QED BY <1>4, <2>1, <2>2
<1>6. CASE at > limit
  <2> DEFINE w == CloseAllTask(at - 1, limit)
  <2>1. w \in Task /\ w.op = "close_all"
    <3> HIDE DEF at, limit, n
    <3>1. at - 1 \in Nat /\ limit \in Nat
      BY <1>1, <1>6
    <3> QED BY <3>1, TasksMade DEF CloseAllTask
  <2>2. todo' = <<w>> \o Tail(todo)
    BY <1>3, <1>6 DEF Continue
  <2> HIDE DEF w
  <2>3. Sought(stack', todo')
    BY <1>1, <2>1, <2>2, WalkSought
  <2> QED BY <1>5, <2>3 DEF KeepsQuiet
<1>7. CASE ~(at > limit)
  <2>1. todo' = Tail(todo)
    BY <1>3, <1>7 DEF Continue
  <2>2. Sought(stack', todo')
    BY <1>1, <2>1, TailSought
  <2> QED BY <1>5, <2>2 DEF KeepsQuiet
<1> QED BY <1>6, <1>7

LEMMA QuietStep ==
    ASSUME CallerInv, Shows, ReturnCodes = {TRUE}, Sought(stack, todo), Step
    PROVE  KeepsQuiet
<1>1. CASE ValueStep
  <2>1. todo # <<>> /\ todo[1].op = "value"
    BY <1>1, StepFacts DEF ValueStep, Working
  <2>2. todo' = Tail(todo) /\ failed' = failed
    BY <1>1 DEF ValueStep, Continue
  <2> QED BY <2>1, <2>2, TailSought DEF KeepsQuiet
<1>2. CASE FinishStep
  <2>1. todo # <<>> /\ todo[1].op = "finish"
    BY <1>2, StepFacts DEF FinishStep, Working
  <2>2. todo' = Tail(todo) /\ failed' = failed
    BY <1>2 DEF FinishStep, Continue
  <2> QED BY <2>1, <2>2, TailSought DEF KeepsQuiet
<1> QED BY <1>1, <1>2, QuietOpen, QuietClose, QuietSearch, QuietCloseAll DEF Step

\* The inductive invariant
ProperInv == CallerInv /\ ~failed /\ Sought(stack, todo)

LEMMA ProperInvInit == Init => ProperInv
<1> SUFFICES ASSUME Init PROVE ProperInv
  OBVIOUS
<1>1. todo = <<>> /\ ~failed
  BY DEF Init
<1>2. Sought(stack, todo)
  BY <1>1 DEF Sought
<1> QED BY <1>1, <1>2, CallerInvInit DEF ProperInv

LEMMA ProperInvNext ==
    ASSUME NamesSettle, ProperHandles
    PROVE  ProperInv /\ [ProperCall \/ Step]_vars => ProperInv' /\ [Next /\ Kept]_vars
<1> SUFFICES ASSUME ProperInv, [ProperCall \/ Step]_vars
             PROVE  ProperInv' /\ [Next /\ Kept]_vars
  OBVIOUS
<1>1. CallerInv /\ Inv /\ TypeOK /\ ~failed /\ Sought(stack, todo)
  BY DEF ProperInv, CallerInv, Inv, TypeInv
<1>2. Shows /\ ReturnCodes = {TRUE}
  BY <1>1, ProperFacts
<1>3. [Next /\ Kept]_vars
  BY <1>1, ProperIsKept, StepIsKept
<1>4. CallerInv'
  BY <1>1, <1>3, CallerInvNext
<1>5. failed' = failed /\ Sought(stack', todo')
  <2>1. CASE ProperBegun
    <3>1. stack' = stack /\ failed' = failed /\ Sought(stack, todo')
      BY <2>1 DEF ProperBegun
    <3> QED BY <3>1
  <2>2. CASE \E n \in MarkerNames : OpenMarker(n)
    <3>1. call = Idle /\ todo' = todo /\ failed' = failed
      BY <2>2 DEF OpenMarker
    <3>2. todo' = <<>>
      BY <1>1, <3>1 DEF Inv
    <3> QED BY <3>1, <3>2 DEF Sought
  <2>3. CASE Step
    BY <1>1, <1>2, <2>3, QuietStep DEF KeepsQuiet
  <2>4. CASE UNCHANGED vars
    <3>1. UNCHANGED <<stack, todo, failed>>
      BY <2>4 DEF vars
    <3> QED BY <1>1, <3>1
  <2> QED BY <1>1, <2>1, <2>2, <2>3, <2>4, ProperIsKept
<1>6. Sought(stack, todo)'
  BY <1>5 DEF Sought, Closable, Ends
<1> QED BY <1>1, <1>3, <1>4, <1>5, <1>6 DEF ProperInv

\* The proper caller is one of the tolerable ones.
LEMMA ProperIsTolerable ==
    ASSUME NamesSettle, ProperHandles
    PROVE  ProperSpec => Init /\ [][Next /\ Kept]_vars
<1>1. ProperInv /\ [ProperCall \/ Step]_vars => ProperInv'
  BY ProperInvNext
<1>2. ProperInv /\ [ProperCall \/ Step]_vars => [Next /\ Kept]_vars
  BY ProperInvNext
<1> QED BY <1>1, <1>2, ProperInvInit, PTL DEF ProperSpec

\* A caller that makes no mistake hears of none: every name it closes is the
\* one on the frame, whatever the map made of it, every search finds its frame
\* before a marker stops it, and no walk is refused a pop
\* (xo_do_close, xo_depth_change, xo_transition, libxo.c:5618-5680, 10372-10710).
THEOREM ProperHearsNothing ==
    ASSUME NamesSettle, ProperHandles
    PROVE  ProperSpec => []NoComplaint
<1>1. ProperInv => NoComplaint
  BY DEF ProperInv, NoComplaint
<1>2. ProperInv /\ [ProperCall \/ Step]_vars => ProperInv'
  BY ProperInvNext
<1> QED BY <1>1, <1>2, ProperInvInit, PTL DEF ProperSpec


-----------------------------------------------------------------------------
(* Counting the frames a reader sees *)

LEMMA SeenFinite ==
    ASSUME NEW s, NEW i \in Nat
    PROVE  /\ IsFiniteSet({k \in 1..i : Visible(s[k])})
           /\ Count(s, i) \in Nat
<1>1. IsFiniteSet(1..i)
  BY FS_Interval
<1>2. {k \in 1..i : Visible(s[k])} \in SUBSET (1..i)
  OBVIOUS
<1>3. IsFiniteSet({k \in 1..i : Visible(s[k])})
  BY <1>1, <1>2, FS_Subset
<1> QED BY <1>3, FS_CardinalityType DEF Count

LEMMA CountNext ==
    ASSUME NEW s, NEW i \in Nat
    PROVE  Count(s, i + 1) = IF Visible(s[i + 1]) THEN Count(s, i) + 1 ELSE Count(s, i)
<1> DEFINE S == {k \in 1..i : Visible(s[k])}
           T == {k \in 1..(i + 1) : Visible(s[k])}
<1>1. IsFiniteSet(S)
  BY SeenFinite
<1>2. i + 1 \notin S
  OBVIOUS
<1>3. CASE Visible(s[i + 1])
  <2>1. T = S \cup {i + 1}
    BY <1>3
  <2>2. Cardinality(S \cup {i + 1}) = Cardinality(S) + 1
    BY <1>1, <1>2, FS_AddElement
  <2> QED BY <1>3, <2>1, <2>2 DEF Count
<1>4. CASE ~Visible(s[i + 1])
  <2>1. T = S
    BY <1>4
  <2> QED BY <1>4, <2>1 DEF Count
<1> QED BY <1>3, <1>4

LEMMA CountRises ==
    ASSUME NEW s, NEW j \in Nat, NEW i \in 0..j
    PROVE  Count(s, i) <= Count(s, j)
<1>1. {k \in 1..i : Visible(s[k])} \in SUBSET {k \in 1..j : Visible(s[k])}
  OBVIOUS
<1>2. IsFiniteSet({k \in 1..j : Visible(s[k])})
  BY SeenFinite
<1> QED BY <1>1, <1>2, FS_Subset DEF Count

LEMMA CountAgrees ==
    ASSUME NEW s, NEW t, NEW i \in Nat, \A k \in 1..i : t[k].state = s[k].state
    PROVE  Count(t, i) = Count(s, i)
<1>1. \A k \in 1..i : Visible(t[k]) <=> Visible(s[k])
  BY DEF Visible
<1>2. {k \in 1..i : Visible(t[k])} = {k \in 1..i : Visible(s[k])}
  BY <1>1
<1> QED BY <1>2 DEF Count

LEMMA CountNone ==
    ASSUME NEW s, NEW i \in Nat, \A k \in 1..i : ~Visible(s[k])
    PROVE  Count(s, i) = 0
<1>1. {k \in 1..i : Visible(s[k])} = {}
  OBVIOUS
<1> QED BY <1>1, FS_EmptySet DEF Count

LEMMA CountSame ==
    ASSUME opts' = opts
    PROVE  /\ \A f : Visible(f)' <=> Visible(f)
           /\ \A i : Count(stack, i)' = Count(stack', i)
<1>1. \A f : Visible(f)' <=> Visible(f)
  BY DEF Visible
<1>2. ASSUME NEW i PROVE Count(stack, i)' = Count(stack', i)
  <2>1. {k \in 1..i : Visible(stack[k])}' = {k \in 1..i : Visible(stack'[k])}
    BY DEF Visible
  <2> QED BY <2>1 DEF Count
<1> QED BY <1>1, <1>2

-----------------------------------------------------------------------------
(* The constructs open in the output, and the frames                        *)

\* The constructs in open are s's frames that a reader sees, inside this many
\* braces.
ShownIn(open, s, braces) ==
    /\ Len(open) = braces + Count(s, Len(s))
    /\ \A i \in DOMAIN s : Visible(s[i]) => Mirrors(open[braces + Count(s, i)], s[i])

Alike(c, d) == d.shape = c.shape /\ d.name = c.name

\* t has the kinds and names of s up to frame m, and b the constructs of a up
\* to place p.
SameFrames(s, t, m) == \A i \in 1..m : t[i].state = s[i].state /\ t[i].name = s[i].name

SameOpen(a, b, p) == \A q \in 1..p : Alike(a[q], b[q])

LEMMA SameSeen ==
    ASSUME NEW f, NEW g, g.state = f.state, g.name = f.name
    PROVE  /\ Visible(f) <=> Visible(g)
           /\ \A c, d : Mirrors(c, f) /\ Alike(c, d) => Mirrors(d, g)
BY DEF Visible, Mirrors, ShapeOf, Alike

LEMMA ShownPart ==
    ASSUME NEW s, GoodStack(s), NEW t, NEW a, NEW b, NEW braces \in Nat,
           ShownIn(a, s, braces), NEW m \in 0..Len(s), SameFrames(s, t, m),
           SameOpen(a, b, braces + Count(s, m)), braces > 0
    PROVE  /\ \A i \in 1..m : Visible(t[i]) => Mirrors(b[braces + Count(t, i)], t[i])
           /\ Count(t, m) = Count(s, m)
<1>1. DOMAIN s = 1..Len(s) /\ Len(s) \in Nat /\ m \in Nat
  BY StackLen
<1>2. \A k \in 1..m : t[k].state = s[k].state
  BY DEF SameFrames
<1>3. Count(t, m) = Count(s, m)
  BY <1>1, <1>2, CountAgrees
<1> SUFFICES ASSUME NEW i \in 1..m, Visible(t[i])
             PROVE  Mirrors(b[braces + Count(t, i)], t[i])
  BY <1>3
<1>4. i \in Nat /\ i \in 0..m /\ i \in DOMAIN s
  BY <1>1
<1>5. Count(t, i) = Count(s, i)
  BY <1>2, <1>4, CountAgrees
<1>6. Count(s, i) \in Nat /\ Count(s, m) \in Nat /\ Count(s, i) <= Count(s, m)
  BY <1>1, <1>4, SeenFinite, CountRises
<1>7. braces + Count(s, i) \in 1..(braces + Count(s, m))
  BY <1>6
<1>8. Visible(s[i]) /\ t[i].state = s[i].state /\ t[i].name = s[i].name
  BY SameSeen DEF SameFrames
<1>9. Mirrors(a[braces + Count(s, i)], s[i])
  BY <1>4, <1>8 DEF ShownIn
<1>10. Alike(a[braces + Count(s, i)], b[braces + Count(s, i)])
  BY <1>7 DEF SameOpen
<1> QED BY <1>5, <1>8, <1>9, <1>10, SameSeen

LEMMA ShownSame ==
    ASSUME NEW s, GoodStack(s), NEW t, GoodStack(t), NEW a, NEW b, NEW braces \in Nat,
           braces > 0, ShownIn(a, s, braces), Len(t) = Len(s), SameFrames(s, t, Len(s)),
           Len(b) = Len(a), SameOpen(a, b, Len(a))
    PROVE  ShownIn(b, t, braces)
<1>1. DOMAIN t = 1..Len(s) /\ Len(s) \in Nat /\ Len(s) \in 0..Len(s)
  BY StackLen
<1>2. Len(a) = braces + Count(s, Len(s))
  BY DEF ShownIn
<1>3. /\ \A i \in 1..Len(s) : Visible(t[i]) => Mirrors(b[braces + Count(t, i)], t[i])
      /\ Count(t, Len(s)) = Count(s, Len(s))
  BY <1>1, <1>2, ShownPart
<1> QED BY <1>1, <1>2, <1>3 DEF ShownIn

LEMMA ShownPushed ==
    ASSUME NEW s, GoodStack(s), NEW t, GoodStack(t), NEW a, NEW b, NEW braces \in Nat,
           braces > 0, ShownIn(a, s, braces), PushedTo(s, t), SameOpen(a, b, Len(a)),
           IF Visible(t[Len(t)]) THEN Len(b) = Len(a) + 1 /\ Mirrors(b[Len(b)], t[Len(t)])
           ELSE Len(b) = Len(a)
    PROVE  ShownIn(b, t, braces)
<1> DEFINE n == Len(s)
<1>1. DOMAIN t = 1..(n + 1) /\ n \in Nat /\ n \in 0..n /\ Len(t) = n + 1
  BY StackLen DEF PushedTo
<1>2. SameFrames(s, t, n)
  BY DEF PushedTo, SameFrames
<1>3. Len(a) = braces + Count(s, n)
  BY DEF ShownIn
<1> HIDE DEF n
<1>4. /\ \A i \in 1..n : Visible(t[i]) => Mirrors(b[braces + Count(t, i)], t[i])
      /\ Count(t, n) = Count(s, n)
  BY <1>1, <1>2, <1>3, ShownPart DEF n
<1>5. Count(t, n + 1) = IF Visible(t[n + 1]) THEN Count(t, n) + 1 ELSE Count(t, n)
  BY <1>1, CountNext
<1>6. Count(s, n) \in Nat
  BY <1>1, SeenFinite
<1>7. Len(b) = braces + Count(t, n + 1)
  <2>1. CASE Visible(t[n + 1])
    <3>1. Len(b) = Len(a) + 1 /\ Count(t, n + 1) = Count(s, n) + 1
      BY <1>1, <1>4, <1>5, <2>1
    <3> QED BY <1>3, <1>6, <3>1
  <2>2. CASE ~Visible(t[n + 1])
    BY <1>1, <1>3, <1>4, <1>5, <2>2
  <2> QED BY <2>1, <2>2
<1>8. \A i \in 1..(n + 1) : i \in 1..n \/ i = n + 1
  BY <1>1
<1> QED BY <1>1, <1>4, <1>7, <1>8 DEF ShownIn

\* A pop takes away the innermost construct, or one nobody sees.
LEMMA ShownPopped ==
    ASSUME NEW s, GoodStack(s), NEW t, GoodStack(t), NEW a, NEW b, NEW braces \in Nat,
           braces > 0, ShownIn(a, s, braces), PoppedTo(s, t), SameOpen(a, b, Len(b)),
           IF Visible(s[Len(s)]) THEN Len(b) = Len(a) - 1 ELSE Len(b) = Len(a)
    PROVE  ShownIn(b, t, braces)
<1> DEFINE m == Len(t)
<1>1. /\ DOMAIN t = 1..m /\ m \in Nat /\ m \in 0..Len(s) /\ Len(s) = m + 1
  BY StackLen DEF PoppedTo
<1>2. SameFrames(s, t, m)
  BY DEF PoppedTo, SameFrames
<1> HIDE DEF m
<1>3. Len(a) = braces + Count(s, m + 1)
  BY <1>1 DEF ShownIn
<1>4. /\ Count(s, m + 1) = IF Visible(s[m + 1]) THEN Count(s, m) + 1 ELSE Count(s, m)
      /\ Count(s, m) \in Nat
  BY <1>1, CountNext, SeenFinite
<1>5. Len(b) = braces + Count(s, m)
  <2>1. CASE Visible(s[m + 1])
    <3>1. Len(b) = Len(a) - 1 /\ Len(a) = braces + (Count(s, m) + 1)
      BY <1>1, <1>3, <1>4, <2>1
    <3> QED BY <1>4, <3>1
  <2>2. CASE ~Visible(s[m + 1])
    BY <1>1, <1>3, <1>4, <2>2
  <2> QED BY <2>1, <2>2
<1>6. /\ \A i \in 1..m : Visible(t[i]) => Mirrors(b[braces + Count(t, i)], t[i])
      /\ Count(t, m) = Count(s, m)
  BY <1>1, <1>2, <1>5, ShownPart
<1> QED BY <1>1, <1>5, <1>6 DEF ShownIn, m

\* The innermost construct open is that of a visible top frame.
LEMMA ShownTop ==
    ASSUME NEW s, GoodStack(s), NEW a, NEW braces \in Nat, braces > 0,
           ShownIn(a, s, braces), Visible(s[Len(s)])
    PROVE  /\ Mirrors(a[Len(a)], s[Len(s)])
           /\ Len(a) \in Nat /\ Len(a) > braces
<1>1. Len(s) \in DOMAIN s /\ Len(s) \in Nat \ {0}
  BY StackLen
<1>2. Mirrors(a[Len(a)], s[Len(s)])
  BY <1>1 DEF ShownIn
<1>3. Len(s) - 1 \in Nat /\ (Len(s) - 1) + 1 = Len(s)
  BY <1>1
<1>4. Count(s, Len(s)) = Count(s, Len(s) - 1) + 1 /\ Count(s, Len(s) - 1) \in Nat
  BY <1>3, CountNext, SeenFinite
<1> QED BY <1>2, <1>4 DEF ShownIn

\* Where no frame is seen, nothing is open inside the braces.
LEMMA NoneShown ==
    ASSUME NEW s, GoodStack(s), NEW a, NEW braces \in Nat, \A i \in DOMAIN s : ~Visible(s[i])
    PROVE  ShownIn(a, s, braces) <=> Len(a) = braces
<1>1. DOMAIN s = 1..Len(s) /\ Len(s) \in Nat
  BY StackLen
<1>2. Count(s, Len(s)) = 0
  BY <1>1, CountNone
<1> QED BY <1>2 DEF ShownIn

-----------------------------------------------------------------------------
(* What the reader makes of an item, an open, a close and a name            *)

LEMMA OpenAt ==
    ASSUME NEW w, GoodWritten(w)
    PROVE  /\ Len(w.open) \in Nat \ {0} /\ DOMAIN w.open = 1..Len(w.open)
           /\ w.open \in Seq(Construct)
           /\ \A q \in 1..Len(w.open) : w.open[q] \in Construct
<1>1. w.open \in Seq(Construct) /\ w.open # <<>>
  BY DEF GoodWritten, Written
<1>2. Len(w.open) # 0
  BY <1>1, EmptySeq
<1> QED BY <1>1, <1>2

LEMMA FaultFacts ==
    ASSUME NEW w, GoodWritten(w), NEW when, NEW fault \in Faults
    PROVE  /\ GoodWritten(Fault(w, when, fault))
           /\ Fault(w, when, fault).open = w.open
           /\ Fault(w, when, fault).faults = IF when THEN w.faults \cup {fault} ELSE w.faults
<1>1. GoodWritten(Fault(w, when, fault)) /\ Fault(w, when, fault).open = w.open
  BY FaultType
<1>2. Fault(w, when, fault).faults = IF when THEN w.faults \cup {fault} ELSE w.faults
  BY DEF Fault, GoodWritten, Written
<1> QED BY <1>1, <1>2

Wants(c) == c.shape = "object" \/ (c.shape = "document" /\ opts.noTop)

\* v is w with one more item in its innermost construct.
ItemMade(w, v, labelled, comma) ==
    LET in == w.open[Len(w.open)]
    IN  /\ GoodWritten(v) /\ Len(v.open) = Len(w.open)
        /\ SameOpen(w.open, v.open, Len(w.open))
        /\ \A q \in 1..Len(w.open) :
              v.open[q].some = IF q = Len(w.open) THEN TRUE ELSE w.open[q].some
        /\ "unmatched" \in v.faults => "unmatched" \in w.faults
        /\ "comma" \in v.faults => "comma" \in w.faults \/ comma # in.some
        /\ "label" \in v.faults => "label" \in w.faults \/ (labelled /\ ~Wants(in))
        /\ "bare" \in v.faults => "bare" \in w.faults \/ (~labelled /\ Wants(in))

LEMMA ItemFacts ==
    ASSUME NEW w, GoodWritten(w), NEW labelled \in BOOLEAN, NEW comma \in BOOLEAN
    PROVE  ItemMade(w, Item(w, labelled, comma), labelled, comma)
<1> DEFINE n == Len(w.open)
           in == w.open[n]
           f1 == comma # in.some
           f2 == labelled /\ ~Wants(in)
           f3 == ~labelled /\ Wants(in)
           w1 == Fault(w, f1, "comma")
           w2 == Fault(w1, f2, "label")
           w3 == Fault(w2, f3, "bare")
           v == [w3 EXCEPT !.open[n].some = TRUE]
<1>1. Item(w, labelled, comma) = v
  BY DEF Item, Innermost, Wants
<1>2. "comma" \in Faults /\ "label" \in Faults /\ "bare" \in Faults
  BY DEF Faults
<1> HIDE DEF f1, f2, f3
<1>3. /\ GoodWritten(w1) /\ w1.open = w.open
      /\ w1.faults = IF f1 THEN w.faults \cup {"comma"} ELSE w.faults
  <2>1. GoodWritten(w1) /\ w1.open = w.open
    BY <1>2, FaultType
  <2>2. w1.faults = IF f1 THEN w.faults \cup {"comma"} ELSE w.faults
    BY <1>2 DEF Fault, GoodWritten, Written
  <2> QED BY <2>1, <2>2
<1> HIDE DEF w1
<1>3a. /\ GoodWritten(w2) /\ w2.open = w.open
      /\ w2.faults = IF f2 THEN w1.faults \cup {"label"} ELSE w1.faults
  <2>1. GoodWritten(w2) /\ w2.open = w.open
    BY <1>2, <1>3, FaultType
  <2>2. w2.faults = IF f2 THEN w1.faults \cup {"label"} ELSE w1.faults
    BY <1>2, <1>3 DEF Fault, GoodWritten, Written
  <2> QED BY <2>1, <2>2
<1> HIDE DEF w2
<1>4. /\ GoodWritten(w3) /\ w3.open = w.open
      /\ w3.faults = IF f3 THEN w2.faults \cup {"bare"} ELSE w2.faults
  <2>1. GoodWritten(w3) /\ w3.open = w.open
    BY <1>2, <1>3a, FaultType
  <2>2. w3.faults = IF f3 THEN w2.faults \cup {"bare"} ELSE w2.faults
    BY <1>2, <1>3a DEF Fault, GoodWritten, Written
  <2> QED BY <2>1, <2>2
<1> HIDE DEF w3
<1>5. /\ n \in Nat \ {0} /\ DOMAIN w.open = 1..n /\ w.open \in Seq(Construct)
      /\ \A q \in 1..n : w.open[q] \in Construct
  BY OpenAt
<1> DEFINE open == [w.open EXCEPT ![n].some = TRUE]
<1>6. v = [w3 EXCEPT !.open = open]
  BY <1>4
<1>7. v.open = open /\ v.faults = w3.faults
  BY <1>4, <1>6 DEF GoodWritten, Written
<1>8. n \in 1..n /\ [w.open[n] EXCEPT !.some = TRUE] \in Construct
  <2>1. w.open[n] \in Construct
    BY <1>5
  <2>2. \A c \in Construct : [c EXCEPT !.some = TRUE] \in Construct
    BY DEF Construct
  <2>3. [w.open[n] EXCEPT !.some = TRUE] \in Construct
    BY <2>1, <2>2
  <2>4. n \in 1..n
    BY <1>5
  <2> QED BY <2>3, <2>4
<1>9. /\ open \in Seq(Construct) /\ Len(open) = n
      /\ \A q \in 1..n : open[q] = IF q = n THEN [w.open[n] EXCEPT !.some = TRUE] ELSE w.open[q]
  BY <1>5, <1>8
<1> HIDE DEF open
<1>10. open # <<>>
  BY <1>5, <1>9, EmptySeq
<1>11. GoodWritten(v)
  BY <1>4, <1>6, <1>9, <1>10, ReopenedType
<1>12. \A q \in 1..n : /\ open[q].shape = w.open[q].shape /\ open[q].name = w.open[q].name
                       /\ open[q].some = IF q = n THEN TRUE ELSE w.open[q].some
  BY <1>5, <1>9 DEF Construct
<1>13. SameOpen(w.open, v.open, n)
  BY <1>7, <1>12 DEF SameOpen, Alike
<1>14. /\ "unmatched" \in v.faults => "unmatched" \in w.faults
       /\ "comma" \in v.faults => "comma" \in w.faults \/ comma # in.some
       /\ "label" \in v.faults => "label" \in w.faults \/ (labelled /\ ~Wants(in))
       /\ "bare" \in v.faults => "bare" \in w.faults \/ (~labelled /\ Wants(in))
  <2> HIDE DEF v
  <2> QED BY <1>3, <1>4, <1>7, <1>3a DEF f1, f2, f3
<1> HIDE DEF v
<1>15. /\ GoodWritten(v) /\ Len(v.open) = n /\ SameOpen(w.open, v.open, n)
       /\ \A q \in 1..n : v.open[q].some = IF q = n THEN TRUE ELSE w.open[q].some
  BY <1>7, <1>9, <1>11, <1>12, <1>13
<1>16. ItemMade(w, v, labelled, comma)
  BY <1>14, <1>15 DEF ItemMade
<1> QED BY <1>1, <1>16

LEMMA OpenedFacts ==
    ASSUME NEW w, GoodWritten(w), NEW shape \in Shapes, NEW name \in AllNames \cup {NoName}
    PROVE  LET v == Opened(w, shape, name)
               n == Len(w.open)
           IN  /\ GoodWritten(v) /\ Len(v.open) = n + 1 /\ v.faults = w.faults
               /\ \A q \in 1..n : v.open[q] = w.open[q]
               /\ v.open[n + 1] = [shape |-> shape, name |-> name, some |-> FALSE]
<1> DEFINE c == [shape |-> shape, name |-> name, some |-> FALSE]
           v == Opened(w, shape, name)
<1>1. GoodWritten(v)
  BY OpenedType
<1>2. v.open = Append(w.open, c) /\ v.faults = w.faults
  BY DEF Opened, GoodWritten, Written
<1>3. w.open \in Seq(Construct)
  BY OpenAt
<1> HIDE DEF c, v
<1>4. /\ Len(v.open) = Len(w.open) + 1
      /\ \A q \in 1..Len(w.open) : v.open[q] = w.open[q]
      /\ v.open[Len(w.open) + 1] = c
  BY <1>2, <1>3
<1> QED BY <1>1, <1>2, <1>4 DEF c, v

LEMMA ClosedFacts ==
    ASSUME NEW w, GoodWritten(w), NEW shape, NEW name, Len(w.open) > 1,
           w.open[Len(w.open)].shape = shape, w.open[Len(w.open)].name = name
    PROVE  LET v == Closed(w, shape, name)
               n == Len(w.open)
           IN  /\ GoodWritten(v) /\ Len(v.open) = n - 1 /\ v.faults = w.faults
               /\ \A q \in 1..(n - 1) : v.open[q] = w.open[q]
<1> DEFINE match == /\ Len(w.open) > 1 /\ Innermost(w).shape = shape
                    /\ Innermost(w).name = name
           w1 == Fault(w, ~match, "unmatched")
           v == Closed(w, shape, name)
<1>1. match
  BY DEF Innermost
<1>2. GoodWritten(w1) /\ w1.open = w.open /\ w1.faults = w.faults
  <2> HIDE DEF match
  <2> QED BY <1>1, FaultFacts DEF Faults
<1>3. v = [w1 EXCEPT !.open = IF Len(w.open) > 1 THEN Front(@) ELSE @]
  BY DEF Closed
<1> HIDE DEF w1, v, match
<1>4. v.open = Front(w.open) /\ v.faults = w.faults
  BY <1>2, <1>3 DEF GoodWritten, Written
<1>5. w.open \in Seq(Construct) /\ w.open # <<>>
  BY DEF GoodWritten, Written
<1>6. /\ Len(Front(w.open)) = Len(w.open) - 1
      /\ \A q \in 1..(Len(w.open) - 1) : Front(w.open)[q] = w.open[q]
  BY <1>5, FrontType
<1> QED BY <1>4, <1>6, ClosedType DEF v

LEMMA NameShownFacts ==
    ASSUME NEW w, GoodWritten(w), NEW name
    PROVE  /\ GoodWritten(NameShown(w, name)) /\ NameShown(w, name).open = w.open
           /\ \A fault : fault # "marker_name" /\ fault \in NameShown(w, name).faults
                 => fault \in w.faults
BY FaultFacts DEF NameShown, Faults

-----------------------------------------------------------------------------
(* The inductive invariant.  JSON's outermost brace is opened by the first  *)
(* construct or field, so until it is there is nothing inside it.           *)

ShownBy(w, s, top, printed) ==
    /\ ShownIn(w.open, s, IF top THEN 2 ELSE 1)
    /\ "unmatched" \notin w.faults
    /\ Json => \A q \in 1..Len(w.open) : w.open[q].name = NoName
    /\ top => Json /\ ~opts.noTop /\ w.open[2].shape = "object"
    /\ Json /\ ~opts.noTop /\ ~top =>
          ~printed /\ \A i \in DOMAIN s : s[i].state \notin Kinds

\* xo_finish has only its own work to do.
FinishRuns ==
    call.api = "finish" =>
        \/ todo = <<>>
        \/ DOMAIN todo = {1} /\ todo[1].op = "finish"
        \/ DOMAIN todo = {1, 2} /\ todo[1].op = "close_all" /\ todo[2].op = "finish"

OutputInv ==
    /\ CallerInv
    /\ call # Finished => ShownBy(written, stack, topEmitted, wrote)
    /\ call = Finished => Mirrored /\ "unmatched" \notin written.faults
    /\ FinishRuns
    /\ FinishedIsBalanced

LEMMA StillShown ==
    ASSUME NEW w, GoodWritten(w), NEW u, GoodWritten(u), NEW s, GoodStack(s),
           NEW t, GoodStack(t), NEW top \in BOOLEAN, NEW before, NEW printed,
           ShownBy(w, s, top, before), ShownIn(u.open, t, IF top THEN 2 ELSE 1),
           NEW m \in Nat, m = Len(w.open) \/ m = Len(u.open), m <= Len(w.open),
           m <= Len(u.open), Len(u.open) <= m + 1, SameOpen(w.open, u.open, m),
           Json => m = Len(u.open) \/ u.open[Len(u.open)].name = NoName,
           "unmatched" \notin u.faults,
           Json /\ ~opts.noTop /\ ~top =>
              ~printed /\ \A i \in DOMAIN t : t[i].state \notin Kinds
    PROVE  ShownBy(u, t, top, printed)
<1>1. Len(w.open) \in Nat \ {0} /\ Len(u.open) \in Nat \ {0}
  BY OpenAt
<1>2. ASSUME Json, NEW q \in 1..Len(u.open) PROVE u.open[q].name = NoName
  <2>1. CASE q \in 1..m
    <3>1. q \in 1..Len(w.open)
      BY <1>1, <2>1
    <3> QED BY <1>2, <2>1, <3>1 DEF SameOpen, Alike, ShownBy
  <2>2. CASE q = Len(u.open) /\ m # Len(u.open)
    BY <1>2, <2>2
  <2> QED BY <1>1, <2>1, <2>2
<1>3. ASSUME top PROVE Json /\ ~opts.noTop /\ u.open[2].shape = "object"
  <2>1. Count(s, Len(s)) \in Nat /\ Count(t, Len(t)) \in Nat
    BY StackLen, SeenFinite
  <2>2. Len(w.open) = 2 + Count(s, Len(s)) /\ Len(u.open) = 2 + Count(t, Len(t))
    BY <1>3 DEF ShownBy, ShownIn
  <2>3. 2 \in 1..m
    BY <2>1, <2>2
  <2> QED BY <1>3, <2>3 DEF ShownBy, SameOpen, Alike
<1> QED BY <1>2, <1>3 DEF ShownBy

\* The outermost brace, when the frames need it
LEMMA BraceShown ==
    ASSUME TypeOK, Json, ~opts.noTop, ~topEmitted, ShownBy(written, stack, topEmitted, wrote),
           NEW printed
    PROVE  /\ GoodWritten(TopOpened(written))
           /\ ShownBy(TopOpened(written), stack, TRUE, printed)
           /\ Len(written.open) = 1
<1> DEFINE w == TopOpened(written)
<1>1. GoodStack(stack) /\ GoodWritten(written)
  BY TypeFacts
<1>2. \A i \in DOMAIN stack : ~Visible(stack[i])
  BY DEF ShownBy, Visible, Json
<1>3. Len(written.open) = 1
  BY <1>1, <1>2, NoneShown DEF ShownBy
<1>4. /\ GoodWritten(w) /\ Len(w.open) = 2 /\ w.faults = written.faults
      /\ \A q \in 1..1 : w.open[q] = written.open[q]
      /\ w.open[2] = [shape |-> "object", name |-> NoName, some |-> FALSE]
  <2>1. "object" \in Shapes /\ NoName \in AllNames \cup {NoName}
    BY DEF Shapes
  <2>2. LET n == Len(written.open)
        IN  /\ GoodWritten(w) /\ Len(w.open) = n + 1 /\ w.faults = written.faults
            /\ \A q \in 1..n : w.open[q] = written.open[q]
            /\ w.open[n + 1] = [shape |-> "object", name |-> NoName, some |-> FALSE]
    BY <1>1, <2>1, OpenedFacts DEF TopOpened
  <2> HIDE DEF w
  <2> QED BY <1>3, <2>2
<1>5. ShownIn(w.open, stack, 2)
  BY <1>1, <1>2, <1>4, NoneShown
<1>6. \A q \in 1..2 : w.open[q].name = NoName
  <2>1. written.open[1].name = NoName
    BY <1>3 DEF ShownBy
  <2> QED BY <1>4, <2>1
<1> QED BY <1>3, <1>4, <1>5, <1>6 DEF ShownBy

\* The caller's items are inside the brace.
LEMMA ItemShown ==
    ASSUME NEW w, GoodWritten(w), NEW s, GoodStack(s), NEW t, GoodStack(t),
           NEW top \in BOOLEAN, NEW before, NEW printed, ShownBy(w, s, top, before),
           opts.noTop \/ top, Len(t) = Len(s), SameFrames(s, t, Len(s)),
           NEW labelled \in BOOLEAN, NEW comma \in BOOLEAN
    PROVE  /\ GoodWritten(Item(w, labelled, comma))
           /\ ShownBy(Item(w, labelled, comma), t, top, printed)
<1> DEFINE u == Item(w, labelled, comma)
           braces == IF top THEN 2 ELSE 1
<1>1. /\ GoodWritten(u) /\ Len(u.open) = Len(w.open)
      /\ SameOpen(w.open, u.open, Len(w.open))
      /\ "unmatched" \in u.faults => "unmatched" \in w.faults
  <2>1. ItemMade(w, u, labelled, comma)
    BY ItemFacts
  <2> HIDE DEF u
  <2> QED BY <2>1 DEF ItemMade
<1> HIDE DEF u
<1>2. ShownIn(w.open, s, braces) /\ braces \in Nat /\ braces > 0
  BY DEF ShownBy
<1>3. ShownIn(u.open, t, braces)
  BY <1>1, <1>2, ShownSame
<1>4. Len(w.open) \in Nat /\ Len(w.open) <= Len(w.open) /\ Len(w.open) <= Len(w.open) + 1
  BY OpenAt
<1>5. "unmatched" \notin u.faults
  BY <1>1 DEF ShownBy
<1> QED BY <1>1, <1>3, <1>4, <1>5, StillShown DEF u

LEMMA Listed ==
    ASSUME CallerInv, ListOnTop(stack)
    PROVE  \E i \in DOMAIN stack : stack[i].state \in Kinds
<1>1. PICK r \in 1..Len(stack) : Real = stack[r]
  BY RealAt DEF CallerInv
<1>2. IsList(Real.state) /\ DOMAIN stack = 1..Len(stack)
  BY RealOnTop DEF CallerInv
<1> QED BY <1>1, <1>2 DEF IsList, Kinds

\* JSON: an open writes a comma, a label and a bracket.
LEMMA JsonOpenShown ==
    ASSUME CallerInv, Json, ShownBy(written, stack, topEmitted, wrote),
           NEW kind \in Kinds, NEW name \in AllNames, DoOpen(kind, name),
           kind = "instance" => ListOnTop(stack)
    PROVE  ShownBy(written', stack', topEmitted', wrote')
<1> DEFINE w == IF NeedsTop(kind) THEN TopOpened(written) ELSE written
           v == Item(w, kind # "instance", Top.notFirst)
           u == Opened(v, JsonShape(kind), NoName)
           braces == IF topEmitted' THEN 2 ELSE 1
           f == stack'[Len(stack')]
<1>1. /\ TypeOK /\ GoodStack(stack) /\ GoodWritten(written) /\ topEmitted \in BOOLEAN
      /\ Top \in Frame
  BY TypeFacts DEF CallerInv, Inv, TypeInv
<1>2. /\ written' = u /\ topEmitted' = (topEmitted \/ NeedsTop(kind)) /\ wrote' = TRUE
      /\ opts' = opts
  <2>1. ~Tagged(kind) /\ opts.style # "encoder"
    BY DEF Json, Tagged
  <2>2. OpenWritten(kind, NameMap[name]) = u
    BY <2>1 DEF OpenWritten
  <2> HIDE DEF u
  <2> QED BY <2>2 DEF DoOpen
<1>3. opts.noTop \/ topEmitted'
  <2>1. CASE kind # "instance"
    BY <1>2, <2>1 DEF NeedsTop
  <2>2. CASE ListOnTop(stack)
    BY <1>2, <2>2, Listed DEF ShownBy
  <2> QED BY <2>1, <2>2
<1>4. GoodWritten(w) /\ ShownBy(w, stack, topEmitted', wrote)
  <2>1. CASE NeedsTop(kind)
    <3>1. ~opts.noTop /\ ~topEmitted /\ topEmitted' = TRUE
      BY <1>2, <2>1 DEF NeedsTop
    <3>2. GoodWritten(TopOpened(written)) /\ ShownBy(TopOpened(written), stack, TRUE, wrote)
      BY <1>1, <3>1, BraceShown
    <3> QED BY <2>1, <3>1, <3>2
  <2>2. CASE ~NeedsTop(kind)
    <3>1. topEmitted' = topEmitted
      BY <1>1, <1>2, <2>2
    <3> QED BY <1>1, <2>2, <3>1
  <2> QED BY <2>1, <2>2
<1>5. topEmitted' \in BOOLEAN /\ (kind # "instance") \in BOOLEAN /\ Top.notFirst \in BOOLEAN
  BY <1>1, <1>2 DEF Frame, NeedsTop
<1> HIDE DEF w
<1>6. GoodWritten(v) /\ ShownBy(v, stack, topEmitted', wrote)
  <2>1. SameFrames(stack, stack, Len(stack))
    BY DEF SameFrames
  <2> QED BY <1>1, <1>3, <1>4, <1>5, <2>1, ItemShown
<1> HIDE DEF v
<1>7. /\ GoodWritten(u) /\ Len(u.open) = Len(v.open) + 1 /\ u.faults = v.faults
      /\ \A q \in 1..Len(v.open) : u.open[q] = v.open[q]
      /\ u.open[Len(v.open) + 1] = [shape |-> JsonShape(kind), name |-> NoName, some |-> FALSE]
  <2>1. JsonShape(kind) \in Shapes /\ NoName \in AllNames \cup {NoName}
    BY DEF Shapes, JsonShape
  <2> QED BY <1>6, <2>1, OpenedFacts
<1>8. /\ GoodStack(stack') /\ PushedTo(stack, stack') /\ f.state = kind
  <2>1. /\ Len(stack') = Len(stack) + 1
        /\ \A i \in 1..Len(stack) : /\ stack'[i].state = stack[i].state
                                    /\ stack'[i].name = stack[i].name
    BY <1>1, DoOpenStep
  <2> QED BY <1>1, <2>1, DoOpenStep DEF PushedTo
<1> HIDE DEF u
<1>9. SameOpen(v.open, u.open, Len(v.open))
  BY <1>7 DEF SameOpen, Alike
<1>10. ShownIn(u.open, stack', braces)
  <2>1. ShownIn(v.open, stack, braces) /\ braces \in Nat /\ braces > 0
    BY <1>6 DEF ShownBy
  <2>2. Visible(f)
    BY <1>8 DEF Visible, Json
  <2>3. u.open[Len(u.open)].shape = JsonShape(kind)
    BY <1>7
  <2>4. Mirrors(u.open[Len(u.open)], f)
    BY <1>8, <2>3 DEF Mirrors, ShapeOf, Json
  <2> HIDE DEF f, braces
  <2> QED BY <1>1, <1>7, <1>8, <1>9, <2>1, <2>2, <2>4, ShownPushed DEF f
<1>11. "unmatched" \notin u.faults
  BY <1>6, <1>7 DEF ShownBy
<1>12. /\ Len(v.open) \in Nat /\ Len(v.open) <= Len(v.open) /\ Len(v.open) <= Len(u.open)
       /\ Len(u.open) <= Len(v.open) + 1 /\ u.open[Len(u.open)].name = NoName
  BY <1>6, <1>7, OpenAt
<1>13. ShownBy(u, stack', topEmitted', wrote')
  BY <1>1, <1>3, <1>5, <1>6, <1>7, <1>8, <1>9, <1>10, <1>11, <1>12, StillShown
<1> QED BY <1>2, <1>13

\* XML and encoders: the construct's tag or operation, which has its name
LEMMA NamedOpenShown ==
    ASSUME CallerInv, ~Json, ShownBy(written, stack, topEmitted, wrote),
           NEW kind \in Kinds, NEW name \in AllNames, DoOpen(kind, name)
    PROVE  ShownBy(written', stack', topEmitted', wrote')
<1> DEFINE mapped == NameMap[name]
           v == NameShown(written, mapped)
           f == stack'[Len(stack')]
           shape == ShapeOf(f)
           u == Opened(v, shape, mapped)
<1>1. /\ TypeOK /\ GoodStack(stack) /\ GoodWritten(written) /\ topEmitted = FALSE
      /\ mapped \in AllNames
  BY TypeFacts, NamesAssumption DEF CallerInv, Inv, TypeInv, ShownBy
<1>2. written' = OpenWritten(kind, mapped) /\ topEmitted' = FALSE /\ opts' = opts
  BY <1>1 DEF DoOpen, NeedsTop
<1>3. ~NeedsTop(kind)
  BY DEF NeedsTop
<1>4. /\ GoodStack(stack') /\ PushedTo(stack, stack') /\ f.state = kind /\ f.name = mapped
  <2>1. /\ Len(stack') = Len(stack) + 1
        /\ \A i \in 1..Len(stack) : /\ stack'[i].state = stack[i].state
                                    /\ stack'[i].name = stack[i].name
    BY <1>1, DoOpenStep
  <2> QED BY <1>1, <2>1, DoOpenStep DEF PushedTo
<1>5. ShownIn(written.open, stack, 1) /\ "unmatched" \notin written.faults
  BY <1>1 DEF ShownBy
<1>6. /\ GoodWritten(v) /\ v.open = written.open
      /\ "unmatched" \in v.faults => "unmatched" \in written.faults
  BY <1>1, NameShownFacts
<1>7. \/ Visible(f) /\ shape \in Shapes /\ written' = u
      \/ ~Visible(f) /\ written' = written
  <2>1. CASE opts.style = "encoder"
    <3>1. Visible(f) /\ shape = kind
      BY <1>4, <2>1 DEF Visible, ShapeOf, Json
    <3>2. OpenWritten(kind, mapped) = Opened(NameShown(written, mapped), kind, mapped)
      BY <1>3, <2>1 DEF OpenWritten, Json, Tagged
    <3> QED BY <1>2, <3>1, <3>2 DEF Shapes
  <2>2. CASE opts.style = "xml" /\ kind \in {"container", "instance"}
    <3>1. Visible(f) /\ shape = "element" /\ Tagged(kind)
      BY <1>4, <2>2 DEF Visible, ShapeOf, Json, Tagged, IsList
    <3>2. OpenWritten(kind, mapped) = Opened(NameShown(written, mapped), "element", mapped)
      BY <1>3, <2>2, <3>1 DEF OpenWritten, Json
    <3> QED BY <1>2, <3>1, <3>2 DEF Shapes
  <2>3. CASE opts.style # "encoder" /\ ~(opts.style = "xml" /\ kind \in {"container", "instance"})
    <3>1. ~Visible(f) /\ ~Tagged(kind)
      BY <1>4, <2>3 DEF Visible, Json, Tagged, IsList, Kinds
    <3>2. OpenWritten(kind, mapped) = written
      BY <1>3, <2>3, <3>1 DEF OpenWritten
    <3> QED BY <1>2, <3>1, <3>2
  <2> QED BY <2>1, <2>2, <2>3
<1> HIDE DEF mapped, v, f, shape
<1>8. CASE Visible(f) /\ shape \in Shapes /\ written' = u
  <2>1. LET n == Len(v.open)
        IN  /\ GoodWritten(u) /\ Len(u.open) = n + 1 /\ u.faults = v.faults
            /\ \A q \in 1..n : u.open[q] = v.open[q]
            /\ u.open[n + 1] = [shape |-> shape, name |-> mapped, some |-> FALSE]
    <3>1. mapped \in AllNames \cup {NoName}
      BY <1>1
    <3> QED BY <1>6, <1>8, <3>1, OpenedFacts
  <2> HIDE DEF u
  <2>2. Mirrors(u.open[Len(u.open)], f)
    <3>1. u.open[Len(u.open)].shape = shape /\ u.open[Len(u.open)].name = mapped
      BY <2>1
    <3> QED BY <1>4, <3>1 DEF Mirrors, shape
  <2>3. SameOpen(written.open, u.open, Len(written.open))
    BY <1>6, <2>1 DEF SameOpen, Alike
  <2>4. ShownIn(u.open, stack', 1)
    BY <1>1, <1>4, <1>5, <1>6, <1>8, <2>1, <2>2, <2>3, ShownPushed DEF f
  <2> QED BY <1>2, <1>5, <1>6, <1>8, <2>1, <2>4 DEF ShownBy
<1>9. CASE ~Visible(f) /\ written' = written
  <2>1. SameOpen(written.open, written.open, Len(written.open))
    BY DEF SameOpen, Alike
  <2>2. ShownIn(written.open, stack', 1)
    BY <1>1, <1>4, <1>5, <1>9, <2>1, ShownPushed DEF f
  <2> QED BY <1>2, <1>5, <1>9, <2>2 DEF ShownBy
<1> QED BY <1>7, <1>8, <1>9

-----------------------------------------------------------------------------
(* Closing the top frame's construct *)

\* A frame the reader sees: what is written for its close is the close of the
\* innermost construct.  Frame kept its name to itself where it has none.
LEMMA CloseShown ==
    ASSUME CallerInv, Shows, ShownBy(written, stack, topEmitted, wrote),
           NEW kind \in Kinds, NEW name \in AllNames \cup {NoName},
           Matches(Top, kind, name), DoClose(kind, name)
    PROVE  ShownBy(written', stack', topEmitted', wrote')
<1> DEFINE braces == IF topEmitted THEN 2 ELSE 1
           n == Len(written.open)
           shape == ShapeOf(Top)
           shown == IF Json THEN NoName ELSE Top.name
           v == IF Json THEN written ELSE NameShown(written, Top.name)
           u == Closed(v, shape, shown)
<1>1. /\ TypeOK /\ StackInv(stack) /\ GoodStack(stack) /\ GoodWritten(written)
      /\ Top = stack[Len(stack)] /\ topEmitted \in BOOLEAN /\ DOMAIN stack = 1..Len(stack)
      /\ Len(stack) \in DOMAIN stack
  BY TypeFacts, StackLen DEF CallerInv, Inv, TypeInv, Top
<1>2. /\ MappedClose(name) = Top.name /\ Top.name \in AllNames
      /\ IsList(kind) = IsList(Top.state) /\ Top.state \in Kinds
      /\ opts.style = "encoder" => kind = Top.state
  BY <1>1, MatchedNames DEF Matches
<1>3. written' = CloseWritten(kind, Top.name) /\ topEmitted' = topEmitted
  BY <1>2 DEF DoClose
<1>4. GoodStack(stack') /\ PoppedTo(stack, stack')
  BY <1>1, CloseFrames
<1>5. ShownIn(written.open, stack, braces) /\ "unmatched" \notin written.faults
      /\ braces \in Nat /\ braces > 0
  BY DEF ShownBy
<1>6. Json /\ ~opts.noTop /\ ~topEmitted => FALSE
  BY <1>1, <1>2 DEF ShownBy
<1>7. /\ GoodWritten(v) /\ v.open = written.open
      /\ "unmatched" \in v.faults => "unmatched" \in written.faults
  BY <1>1, NameShownFacts
<1>8. \/ Visible(Top) /\ written' = u
      \/ ~Visible(Top) /\ written' = written
  <2>1. CASE Json
    <3>1. Visible(Top) /\ shape = JsonShape(kind) /\ ~Tagged(kind) /\ opts.style # "encoder"
      BY <1>2, <2>1 DEF Visible, Json, ShapeOf, JsonShape, Tagged
    <3>2. CloseWritten(kind, Top.name) = Closed(written, JsonShape(kind), NoName)
      BY <2>1, <3>1 DEF CloseWritten
    <3> QED BY <1>3, <2>1, <3>1, <3>2
  <2>2. CASE opts.style = "encoder"
    <3>1. Visible(Top) /\ shape = kind /\ ~Json /\ ~Tagged(kind)
      BY <1>2, <2>2 DEF Visible, Json, ShapeOf, Tagged
    <3>2. CloseWritten(kind, Top.name) = Closed(NameShown(written, Top.name), kind, Top.name)
      BY <2>2, <3>1 DEF CloseWritten
    <3> QED BY <1>3, <3>1, <3>2
  <2>3. CASE opts.style = "xml" /\ ~IsList(kind)
    <3>1. Visible(Top) /\ shape = "element" /\ ~Json /\ Tagged(kind)
      BY <1>2, <2>3 DEF Visible, Json, ShapeOf, Tagged, IsList, Kinds
    <3>2. CloseWritten(kind, Top.name)
             = Closed(NameShown(written, Top.name), "element", Top.name)
      BY <2>3, <3>1 DEF CloseWritten
    <3> QED BY <1>3, <3>1, <3>2
  <2>4. CASE opts.style = "xml" /\ IsList(kind)
    <3>1. ~Visible(Top) /\ ~Json /\ ~Tagged(kind) /\ opts.style # "encoder"
      BY <1>2, <2>4 DEF Visible, Json, Tagged, IsList
    <3>2. CloseWritten(kind, Top.name) = written
      BY <3>1 DEF CloseWritten
    <3> QED BY <1>3, <3>1, <3>2
  <2> QED BY <2>1, <2>2, <2>3, <2>4 DEF Shows, Json
<1> HIDE DEF v, shape, shown, braces
<1>9. CASE Visible(Top) /\ written' = u
  <2>1. Mirrors(written.open[n], Top) /\ n \in Nat /\ n > braces
    BY <1>1, <1>5, <1>9, ShownTop
  <2>2. n > 1
    BY <2>1, <1>5
  <2>3. written.open[n].shape = shape /\ written.open[n].name = shown
    <3>1. n \in 1..n
      BY <2>2
    <3> QED BY <2>1, <3>1 DEF Mirrors, shape, shown, ShownBy
  <2>4. /\ GoodWritten(u) /\ Len(u.open) = n - 1 /\ u.faults = v.faults
        /\ \A q \in 1..(n - 1) : u.open[q] = written.open[q]
    <3>1. /\ Len(v.open) > 1 /\ v.open[Len(v.open)].shape = shape
          /\ v.open[Len(v.open)].name = shown
      BY <1>7, <2>2, <2>3
    <3>2. LET m == Len(v.open)
          IN  /\ GoodWritten(u) /\ Len(u.open) = m - 1 /\ u.faults = v.faults
              /\ \A q \in 1..(m - 1) : u.open[q] = v.open[q]
      BY <1>7, <3>1, ClosedFacts
    <3> HIDE DEF u
    <3> QED BY <1>7, <3>2
  <2> HIDE DEF u
  <2>5. SameOpen(written.open, u.open, Len(u.open))
    BY <2>4 DEF SameOpen, Alike
  <2>6. ShownIn(u.open, stack', braces)
    BY <1>1, <1>4, <1>5, <1>9, <2>4, <2>5, ShownPopped
  <2>7. /\ n - 1 \in Nat /\ n - 1 <= n /\ Len(u.open) <= (n - 1) + 1
        /\ Len(u.open) \in Nat /\ Len(u.open) <= Len(u.open) /\ Len(u.open) <= n
        /\ Len(u.open) <= Len(u.open) + 1
    BY <2>2, <2>4, <2>1
  <2>8. "unmatched" \notin u.faults
    BY <1>5, <1>7, <2>4
  <2>9. ShownBy(u, stack', topEmitted, wrote')
    <3> DEFINE m == Len(u.open)
    <3>1. /\ m \in Nat /\ m = Len(u.open) /\ m <= Len(written.open) /\ m <= Len(u.open)
          /\ Len(u.open) <= m + 1
      BY <2>7
    <3>2. SameOpen(written.open, u.open, m) /\ ShownIn(u.open, stack', IF topEmitted THEN 2 ELSE 1)
      BY <2>5, <2>6 DEF braces
    <3> HIDE DEF m
    <3> QED BY <1>1, <1>4, <1>6, <2>4, <2>8, <3>1, <3>2, StillShown
  <2> QED BY <1>3, <1>9, <2>9
<1>10. CASE ~Visible(Top) /\ written' = written
  <2>1. SameOpen(written.open, written.open, n)
    BY DEF SameOpen, Alike
  <2>2. ShownIn(written.open, stack', braces)
    BY <1>1, <1>4, <1>5, <1>10, <2>1, ShownPopped
  <2>3. ShownBy(written, stack', topEmitted, wrote')
    BY <1>6, <2>2 DEF ShownBy, braces
  <2> QED BY <1>3, <1>10, <2>3
<1> QED BY <1>8, <1>9, <1>10

\* A frame nobody sees: a marker, or any frame of TEXT and SDPARAMS
LEMMA UnseenShown ==
    ASSUME CallerInv, ShownBy(written, stack, topEmitted, wrote),
           GoodStack(stack'), written' = written, topEmitted' = topEmitted,
           \/ ~Shows
           \/ /\ wrote' = wrote
              /\ \/ OnMarker /\ PoppedTo(stack, stack')
                 \/ PushedTo(stack, stack') /\ stack'[Len(stack')].state = "marker"
    PROVE  ShownBy(written', stack', topEmitted', wrote')
<1> DEFINE braces == IF topEmitted THEN 2 ELSE 1
           a == written.open
<1>1. /\ TypeOK /\ GoodStack(stack) /\ Top = stack[Len(stack)] /\ topEmitted \in BOOLEAN
      /\ DOMAIN stack = 1..Len(stack) /\ DOMAIN stack' = 1..Len(stack')
      /\ Len(stack') \in Nat
  BY TypeFacts, StackLen DEF CallerInv, Inv, TypeInv, Top
<1>2. ShownIn(a, stack, braces) /\ braces \in Nat /\ braces > 0
  BY DEF ShownBy
<1>3. SameOpen(a, a, Len(a))
  BY DEF SameOpen, Alike
<1>4. \A f : f.state = "marker" => ~Visible(f) /\ f.state \notin Kinds
  BY DEF Visible, Kinds
<1> HIDE DEF a, braces
<1>5. CASE ~Shows
  <2>1. \A f : ~Visible(f)
    BY <1>5 DEF Shows, Visible
  <2>2. ShownIn(a, stack', braces)
    BY <1>1, <1>2, <2>1, NoneShown
  <2>3. ~Json
    BY <1>5 DEF Shows, Json
  <2> QED BY <2>2, <2>3 DEF ShownBy, a, braces
<1>6. CASE wrote' = wrote /\ OnMarker /\ PoppedTo(stack, stack')
  <2>1. ~Visible(stack[Len(stack)])
    BY <1>1, <1>4, <1>6 DEF OnMarker
  <2>2. ShownIn(a, stack', braces)
    BY <1>1, <1>2, <1>3, <1>6, <2>1, ShownPopped
  <2>3. \A i \in DOMAIN stack' : stack'[i].state = stack[i].state /\ i \in DOMAIN stack
    BY <1>1, <1>6 DEF PoppedTo
  <2> QED BY <1>6, <2>2, <2>3 DEF ShownBy, a, braces
<1>7. CASE wrote' = wrote /\ PushedTo(stack, stack') /\ stack'[Len(stack')].state = "marker"
  <2>1. ~Visible(stack'[Len(stack')])
    BY <1>4, <1>7
  <2>2. ShownIn(a, stack', braces)
    BY <1>1, <1>2, <1>3, <1>7, <2>1, ShownPushed
  <2>3. \A i \in DOMAIN stack' :
           \/ i = Len(stack')
           \/ stack'[i].state = stack[i].state /\ i \in DOMAIN stack
    BY <1>1, <1>7 DEF PushedTo
  <2>4. stack'[Len(stack')].state \notin Kinds
    BY <1>4, <1>7
  <2> QED BY <1>7, <2>2, <2>3, <2>4 DEF ShownBy, a, braces
<1> QED BY <1>5, <1>6, <1>7

\* TEXT and SDPARAMS: no construct closed is written.
LEMMA UnseenClose ==
    ASSUME ~Shows, NEW kind, NEW name, DoClose(kind, name)
    PROVE  written' = written /\ topEmitted' = topEmitted
<1>1. ~Json /\ ~Tagged(kind) /\ opts.style # "encoder"
  BY DEF Shows, Json, Tagged
<1>2. CloseWritten(kind, MappedClose(name)) = written
  BY <1>1 DEF CloseWritten
<1> QED BY <1>2 DEF DoClose

-----------------------------------------------------------------------------
(* The steps *)

LEMMA WorkFacts ==
    ASSUME OutputInv, todo # <<>>
    PROVE  /\ CallerInv /\ TypeOK /\ call # Finished
           /\ ShownBy(written, stack, topEmitted, wrote)
           /\ Head(todo) = todo[1] /\ 1 \in DOMAIN todo /\ todo[1] \in Task
           /\ Shows => Doable(stack, todo) /\ Allows(stack, todo[1])
           /\ Json => Shows
           /\ Top = stack[Len(stack)]
<1>1. call # Finished /\ CallerInv
  BY DEF OutputInv, CallerInv
<1> QED BY <1>1, StepFacts DEF OutputInv, Doable

LEMMA OpenStepShown ==
    ASSUME OutputInv, OpenStep
    PROVE  ShownBy(written', stack', topEmitted', wrote') /\ opts' = opts
<1> DEFINE kind == todo[1].kind
           name == todo[1].name
<1>1. /\ CallerInv /\ TypeOK /\ ShownBy(written, stack, topEmitted, wrote)
      /\ Shows => Allows(stack, todo[1])
      /\ todo[1] \in Task /\ Head(todo) = todo[1] /\ todo[1].op = "open" /\ (Json => Shows)
      /\ TypeInv
  BY WorkFacts DEF OpenStep, Working, CallerInv, Inv
<1>2. kind \in Kinds /\ name \in AllNames /\ DoOpen(kind, name)
  BY <1>1, TaskFields, OpenMeans
<1>3. Json /\ kind = "instance" => ListOnTop(stack)
  BY <1>1 DEF Allows
<1>4. opts' = opts
  BY <1>2 DEF DoOpen
<1> HIDE DEF kind, name
<1>5. CASE Json
  BY <1>1, <1>2, <1>3, <1>4, <1>5, JsonOpenShown
<1>6. CASE ~Json
  BY <1>1, <1>2, <1>4, <1>6, NamedOpenShown
<1> QED BY <1>4, <1>5, <1>6

LEMMA CloseStepShown ==
    ASSUME OutputInv, CloseStep
    PROVE  ShownBy(written', stack', topEmitted', wrote') /\ opts' = opts
<1> DEFINE kind == todo[1].kind
           name == todo[1].name
<1>1. /\ CallerInv /\ TypeOK /\ ShownBy(written, stack, topEmitted, wrote)
      /\ Shows => Allows(stack, todo[1])
      /\ todo[1] \in Task /\ Head(todo) = todo[1] /\ todo[1].op = "close"
      /\ TypeInv /\ Top = stack[Len(stack)]
  BY WorkFacts DEF CloseStep, Working, CallerInv, Inv
<1>2. kind \in Kinds /\ name \in AllNames \cup {NoName} /\ DoClose(kind, name)
  BY <1>1, TaskFields, ClosesMeans DEF CloseStep
<1>3. Shows => Matches(Top, kind, name)
  BY <1>1 DEF Allows
<1>4. opts' = opts /\ GoodStack(stack')
  BY <1>1, <1>2, DoCloseStep
<1> HIDE DEF kind, name
<1>5. CASE Shows
  BY <1>1, <1>2, <1>3, <1>4, <1>5, CloseShown
<1>6. CASE ~Shows
  BY <1>1, <1>2, <1>4, <1>6, UnseenClose, UnseenShown
<1> QED BY <1>4, <1>5, <1>6

LEMMA SearchStepShown ==
    ASSUME OutputInv, SearchStep
    PROVE  ShownBy(written', stack', topEmitted', wrote') /\ opts' = opts
<1>1. UNCHANGED <<opts, stack, topEmitted, wrote, written>> /\ todo # <<>>
  BY DEF SearchStep, Working
<1> QED BY <1>1, WorkFacts

LEMMA CloseAllStepShown ==
    ASSUME OutputInv, CloseAllStep
    PROVE  ShownBy(written', stack', topEmitted', wrote') /\ opts' = opts
<1>1. /\ CallerInv /\ TypeOK /\ TypeInv /\ ShownBy(written, stack, topEmitted, wrote)
      /\ StackInv(stack) /\ Head(todo) = todo[1] /\ todo[1].op = "close_all"
  BY WorkFacts DEF CloseAllStep, Working, CallerInv, Inv
<1>2. GoodStack(stack') /\ opts' = opts
  BY <1>1, CloseAllTurn
<1>3. CASE Shows
  <2>1. \/ UNCHANGED <<stack, topEmitted, wrote, written>>
        \/ OnMarker /\ CloseMarkerFrame(Top.name, Top)
        \/ Matches(Top, Top.state, NoName) /\ Top.state \in Kinds
           /\ DoClose(Top.state, NoName)
    BY <1>1, <1>3, WalkAtTop
  <2>2. CASE UNCHANGED <<stack, topEmitted, wrote, written>>
    BY <1>1, <1>2, <2>2
  <2>3. CASE OnMarker /\ CloseMarkerFrame(Top.name, Top)
    BY <1>1, <1>2, <2>3, MarkerFrames, UnseenShown
  <2>4. CASE Matches(Top, Top.state, NoName) /\ Top.state \in Kinds
             /\ DoClose(Top.state, NoName)
    BY <1>1, <1>2, <1>3, <2>4, CloseShown
  <2> QED BY <2>1, <2>2, <2>3, <2>4
<1>4. CASE ~Shows
  <2>1. written' = written /\ topEmitted' = topEmitted
    <3> DEFINE frame == stack[todo[1].at]
    <3>1. \/ UNCHANGED <<opts, stack, topEmitted, wrote, written, failed>>
          \/ CloseMarkerFrame(frame.name, frame)
          \/ Closes(frame.state, NoName)
      BY <1>1 DEF CloseAllStep
    <3>2. CASE Closes(frame.state, NoName)
      BY <1>4, <3>2, ClosesMeans, UnseenClose
    <3> QED BY <3>1, <3>2 DEF CloseMarkerFrame
  <2> QED BY <1>1, <1>2, <1>4, <2>1, UnseenShown
<1> QED BY <1>3, <1>4

\* Flags alone changed, and perhaps a name was shown.
LEMMA FlagsShown ==
    ASSUME NEW s, GoodStack(s), NEW t, GoodStack(t), Len(t) = Len(s), SameFrames(s, t, Len(s)),
           NEW w, NEW u, u.open = w.open, "unmatched" \in u.faults => "unmatched" \in w.faults,
           NEW top \in BOOLEAN, NEW printed, ShownBy(w, s, top, printed)
    PROVE  ShownBy(u, t, top, printed)
<1> DEFINE braces == IF top THEN 2 ELSE 1
<1>1. ShownIn(w.open, s, braces) /\ braces \in Nat /\ braces > 0
  BY DEF ShownBy
<1>2. SameOpen(w.open, u.open, Len(w.open)) /\ Len(u.open) = Len(w.open)
  BY DEF SameOpen, Alike
<1>3. ShownIn(u.open, t, braces)
  BY <1>1, <1>2, ShownSame
<1>4. DOMAIN t = 1..Len(s) /\ DOMAIN s = 1..Len(s)
  BY StackLen
<1>5. \A i \in DOMAIN t : t[i].state = s[i].state /\ i \in DOMAIN s
  BY <1>4 DEF SameFrames
<1> QED BY <1>3, <1>5 DEF ShownBy

LEMMA ValueStepShown ==
    ASSUME OutputInv, ValueStep
    PROVE  ShownBy(written', stack', topEmitted', wrote') /\ opts' = opts
<1> DEFINE role == todo[1].role
           ok == todo[1].ok
           named == /\ role = "leaf" /\ opts.style \notin {"json", "text"}
                    /\ Top.name # NoName
           w == IF ok /\ NeedsTop("container") THEN TopOpened(written) ELSE written
<1>1. /\ CallerInv /\ TypeOK /\ ShownBy(written, stack, topEmitted, wrote)
      /\ Head(todo) = todo[1] /\ GoodStack(stack) /\ GoodWritten(written)
      /\ topEmitted \in BOOLEAN /\ wrote \in BOOLEAN /\ Top \in Frame
  BY WorkFacts, TypeFacts DEF ValueStep, Working
<1>2. /\ role \in {"key", "value", "leaf"} /\ ok \in BOOLEAN
      /\ GoodStack(stack') /\ Len(stack') = Len(stack)
      /\ SameFrames(stack, stack', Len(stack))
  <2>1. /\ role \in {"key", "value", "leaf"} /\ ok \in BOOLEAN
        /\ GoodStack(stack') /\ Len(stack') = Len(stack)
        /\ \A i \in 1..Len(stack) : i # Len(stack) => stack'[i] = stack[i]
        /\ stack'[Len(stack)] =
              [Top EXCEPT !.emit = @ \/ role = "value",
                          !.emitKey = @ \/ role = "key",
                          !.emitLeaf = @ \/ (role = "leaf" /\ ok),
                          !.notFirst = @ \/ (Json /\ ok)]
    BY <1>1, ValueFrames
  <2>2. stack'[Len(stack)].state = Top.state /\ stack'[Len(stack)].name = Top.name
    BY <1>1, <2>1 DEF Frame
  <2> HIDE DEF role, ok
  <2>3. ASSUME NEW i \in 1..Len(stack)
        PROVE  stack'[i].state = stack[i].state /\ stack'[i].name = stack[i].name
    BY <2>1, <2>2 DEF Top
  <2> QED BY <2>1, <2>3 DEF SameFrames
<1>3. /\ written' = CASE ~ok -> written
                      [] ok /\ Json -> Item(w, role # "leaf", Top.notFirst)
                      [] OTHER -> IF named THEN NameShown(w, NameMap[Top.name]) ELSE w
      /\ topEmitted' = (topEmitted \/ (ok /\ NeedsTop("container")))
      /\ wrote' = (wrote \/ (Json /\ ok))
      /\ opts' = opts
  BY <1>1 DEF ValueStep
<1> HIDE DEF role, ok, named
<1>4. CASE ~ok
  <2>1. written' = written /\ topEmitted' = topEmitted /\ wrote' = wrote
    BY <1>1, <1>3, <1>4
  <2> QED BY <1>1, <1>2, <1>3, <2>1, FlagsShown
<1>5. CASE ok /\ ~Json
  <2>1. w = written /\ topEmitted' = topEmitted /\ wrote' = wrote
    BY <1>1, <1>3, <1>5 DEF NeedsTop
  <2>2. written' = IF named THEN NameShown(w, NameMap[Top.name]) ELSE w
    BY <1>3, <1>5
  <2> HIDE DEF w
  <2>3. /\ written'.open = written.open
        /\ "unmatched" \in written'.faults => "unmatched" \in written.faults
    BY <1>1, <2>1, <2>2, NameShownFacts
  <2> QED BY <1>1, <1>2, <1>3, <2>1, <2>3, FlagsShown
<1>6. CASE ok /\ Json
  <2>1. written' = Item(w, role # "leaf", Top.notFirst)
    BY <1>3, <1>6
  <2>2. opts.noTop \/ topEmitted'
    BY <1>3, <1>6 DEF NeedsTop
  <2>3. topEmitted' \in BOOLEAN /\ (role # "leaf") \in BOOLEAN /\ Top.notFirst \in BOOLEAN
    BY <1>1, <1>3 DEF Frame
  <2>4. GoodWritten(w) /\ ShownBy(w, stack, topEmitted', wrote)
    <3>1. CASE NeedsTop("container")
      <4>1. ~opts.noTop /\ ~topEmitted /\ topEmitted' = TRUE
        BY <1>3, <1>6, <3>1 DEF NeedsTop
      <4>2. GoodWritten(TopOpened(written)) /\ ShownBy(TopOpened(written), stack, TRUE, wrote)
        BY <1>1, <1>6, <4>1, BraceShown
      <4> QED BY <1>6, <3>1, <4>1, <4>2
    <3>2. CASE ~NeedsTop("container")
      <4>1. topEmitted' = topEmitted /\ w = written
        BY <1>1, <1>3, <3>2
      <4> QED BY <1>1, <4>1
    <3> QED BY <3>1, <3>2
  <2> HIDE DEF w
  <2>5. ShownBy(Item(w, role # "leaf", Top.notFirst), stack', topEmitted', wrote')
    BY <1>1, <1>2, <2>2, <2>3, <2>4, ItemShown
  <2> QED BY <1>3, <2>1, <2>5
<1> QED BY <1>2, <1>4, <1>5, <1>6

\* Constructs stay open at the end, which is what XOF_NO_CLOSE asks for, only in
\* a document without the outermost brace: the one program that sets the flag
\* sets XOF_NO_TOP with it (src/xo/xo.c:287).
NoCloseBare == \A o \in Options : o.style = "json" /\ o.noClose => o.noTop

LEMMA RootUnseen ==
    ASSUME TypeOK, StackInv(stack), Len(stack) = 1
    PROVE  \A i \in DOMAIN stack : ~Visible(stack[i])
<1>1. DOMAIN stack = {1} /\ stack[1].state = "init"
  BY TypeFacts, StackLen DEF StackInv
<1>2. ~Visible(stack[1])
  BY <1>1 DEF Visible, Kinds
<1> QED BY <1>1, <1>2

LEMMA FinishStepShown ==
    ASSUME NoCloseBare, OutputInv, FinishStep
    PROVE  /\ opts' = opts /\ stack' = stack /\ topEmitted' = FALSE
           /\ ShownIn(written'.open, stack, 1) /\ "unmatched" \notin written'.faults
           /\ ~opts.noClose => Len(written'.open) = 1
<1>1. /\ CallerInv /\ TypeOK /\ ShownBy(written, stack, topEmitted, wrote)
      /\ Head(todo) = todo[1] /\ todo[1].op = "finish" /\ (Shows => Allows(stack, todo[1]))
      /\ GoodStack(stack) /\ GoodWritten(written) /\ topEmitted \in BOOLEAN
      /\ StackInv(stack) /\ opts \in Options
  BY WorkFacts, TypeFacts DEF FinishStep, Working, CallerInv, Inv, TypeOK
<1>2. /\ topEmitted' = (topEmitted /\ (~Json \/ opts.noTop))
      /\ written' = IF Json /\ ~opts.noTop /\ (topEmitted \/ wrote)
                    THEN Closed(written, "object", NoName) ELSE written
      /\ opts' = opts /\ stack' = stack
  BY DEF FinishStep
<1>3. topEmitted' = FALSE
  BY <1>1, <1>2 DEF ShownBy
<1>4. ~opts.noClose => \A i \in DOMAIN stack : ~Visible(stack[i])
  <2>1. CASE Shows
    BY <1>1, <2>1, RootUnseen DEF Allows
  <2>2. CASE ~Shows
    BY <2>2 DEF Shows, Visible
  <2> QED BY <2>1, <2>2
<1>5. CASE Json /\ ~opts.noTop /\ (topEmitted \/ wrote)
  <2>1. topEmitted
    BY <1>1, <1>5 DEF ShownBy
  <2>2. ~opts.noClose
    BY <1>1, <1>5 DEF NoCloseBare, Json
  <2>3. Len(written.open) = 2
    BY <1>1, <1>4, <2>1, <2>2, NoneShown DEF ShownBy
  <2>4. written.open[2].shape = "object" /\ written.open[2].name = NoName
    BY <1>1, <1>5, <2>1, <2>3 DEF ShownBy
  <2>5. LET v == Closed(written, "object", NoName)
            n == Len(written.open)
        IN  Len(v.open) = n - 1 /\ v.faults = written.faults
    <3>1. Len(written.open) > 1 /\ written.open[Len(written.open)].shape = "object"
          /\ written.open[Len(written.open)].name = NoName
      BY <2>3, <2>4
    <3> QED BY <1>1, <3>1, ClosedFacts
  <2>6. Len(written'.open) = 1 /\ written'.faults = written.faults
    BY <1>2, <1>5, <2>3, <2>5
  <2>7. ShownIn(written'.open, stack, 1)
    BY <1>1, <1>4, <2>2, <2>6, NoneShown
  <2> QED BY <1>1, <1>2, <1>3, <2>6, <2>7 DEF ShownBy
<1>6. CASE ~(Json /\ ~opts.noTop /\ (topEmitted \/ wrote))
  <2>1. written' = written /\ topEmitted = FALSE
    BY <1>1, <1>2, <1>6 DEF ShownBy
  <2>2. ShownIn(written.open, stack, 1) /\ "unmatched" \notin written.faults
    BY <1>1, <2>1 DEF ShownBy
  <2> QED BY <1>1, <1>2, <1>3, <1>4, <2>1, <2>2, NoneShown
<1> QED BY <1>5, <1>6

-----------------------------------------------------------------------------
(* The invariant holds at every step *)

\* The handle's flags are fixed, so what is shown stays shown with the new
\* state's definitions.
LEMMA ShownThen ==
    ASSUME opts' = opts,
           ShownIn(written'.open, stack', IF Json /\ topEmitted' THEN 2 ELSE 1)
    PROVE  Mirrored'
<1>1. /\ \A f : Visible(f)' <=> Visible(f)
      /\ \A i : Count(stack, i)' = Count(stack', i)
  BY CountSame
<1>2. \A c, f : Mirrors(c, f)' <=> Mirrors(c, f)
  BY DEF Mirrors, ShapeOf, Json
<1>3. Braces' = IF Json /\ topEmitted' THEN 2 ELSE 1
  BY DEF Braces, Json
<1>4. \A i : Place(i)' = Braces' + Count(stack', i)
  BY <1>1 DEF Place
<1> QED BY <1>1, <1>2, <1>3, <1>4 DEF Mirrored, ShownIn

\* No other call begins as xo_finish.
LEMMA OtherBegins ==
    ASSUME NEW api, api # "finish", NEW name, NEW tasks, Begin(api, name, tasks)
    PROVE  call'.api # "finish"
BY DEF Begin, Idle

LEMMA OpensAreOthers ==
    ASSUME NEW n,
           \/ OpenContainer(n) \/ OpenList(n) \/ OpenInstance(n) \/ OpenLeafList(n)
           \/ EmitLeafList(n)
    PROVE  call'.api # "finish"
<1>1. CASE OpenContainer(n)
  BY <1>1, OtherBegins DEF OpenContainer, PreventedByMarker, Does, Complains
<1>2. CASE OpenList(n)
  BY <1>2, OtherBegins DEF OpenList, PreventedByMarker, Does, Complains
<1>3. CASE OpenInstance(n)
  BY <1>3, OtherBegins DEF OpenInstance, PreventedByMarker, Does, Complains
<1>4. CASE OpenLeafList(n)
  BY <1>4, OtherBegins DEF OpenLeafList, PreventedByMarker, Does, Complains
<1>5. CASE EmitLeafList(n)
  BY <1>5, OtherBegins DEF EmitLeafList, Does, Complains
<1> QED BY <1>1, <1>2, <1>3, <1>4, <1>5

LEMMA ClosesAreOthers ==
    ASSUME NEW n,
           \/ CloseContainer(n) \/ CloseList(n) \/ CloseInstance(n) \/ CloseLeafList(n)
           \/ CloseMarker(n)
    PROVE  call'.api # "finish"
<1>1. CASE CloseContainer(n)
  BY <1>1, OtherBegins DEF CloseContainer, PreventedByMarker, Does, Complains
<1>2. CASE CloseList(n)
  BY <1>2, OtherBegins DEF CloseList, PreventedByMarker, Does, Complains
<1>3. CASE CloseInstance(n)
  BY <1>3, OtherBegins DEF CloseInstance, PreventedByMarker, Does, Complains
<1>4. CASE CloseLeafList(n)
  BY <1>4, OtherBegins DEF CloseLeafList, PreventedByMarker, Does, Complains
<1>5. CASE CloseMarker(n)
  BY <1>5, OtherBegins DEF CloseMarker, Does
<1> QED BY <1>1, <1>2, <1>3, <1>4, <1>5

LEMMA EmitIsOther ==
    ASSUME NEW role, Emit(role)
    PROVE  call'.api # "finish"
BY OtherBegins DEF Emit, Does, Complains

LEMMA FinishPlan ==
    ASSUME Finish
    PROVE  FinishRuns'
<1> DEFINE end == FinishTask
           walk == CloseAllTask(Len(stack), 1)
<1>1. end.op = "finish" /\ walk.op = "close_all"
  BY DEF FinishTask, CloseAllTask
<1>2. todo' = <<end>> \/ todo' = <<walk, end>>
  BY DEF Finish, Does, Begin
<1> HIDE DEF end, walk
<1>3. CASE todo' = <<end>>
  <2>1. DOMAIN todo' = {1} /\ todo'[1] = end
    BY <1>3
  <2> QED BY <1>1, <2>1 DEF FinishRuns
<1>4. CASE todo' = <<walk, end>>
  <2>1. DOMAIN todo' = {1, 2} /\ todo'[1] = walk /\ todo'[2] = end
    BY <1>4
  <2> QED BY <1>1, <2>1 DEF FinishRuns
<1> QED BY <1>2, <1>3, <1>4

LEMMA CallFinishRuns ==
    ASSUME Call, \A n \in MarkerNames : ~OpenMarker(n)
    PROVE  FinishRuns'
<1>1. call'.api # "finish" \/ Finish
  BY OpensAreOthers, ClosesAreOthers, EmitIsOther DEF Call
<1>2. CASE call'.api # "finish"
  BY <1>2 DEF FinishRuns
<1> QED BY <1>1, <1>2, FinishPlan

\* What is left of a call that goes on
LEMMA ContinuesAs ==
    ASSUME NEW tasks, Continue(tasks), call.api # "finish", call # Finished
    PROVE  FinishRuns' /\ call' # Finished
BY DEF Continue, FinishRuns, Idle, Finished

LEMMA StepFinishRuns ==
    ASSUME OutputInv, OpenStep \/ CloseStep \/ SearchStep \/ CloseAllStep \/ ValueStep
    PROVE  FinishRuns' /\ call' # Finished
<1>1. /\ todo # <<>> /\ TypeOK /\ TypeInv /\ call # Finished /\ Head(todo) = todo[1]
      /\ 1 \in DOMAIN todo
  <2>1. todo # <<>>
    BY DEF OpenStep, CloseStep, SearchStep, CloseAllStep, ValueStep, Working
  <2> QED BY <2>1, WorkFacts DEF CallerInv, Inv
<1>2. \E tasks : Continue(tasks)
  <2>1. CASE OpenStep
    BY <2>1 DEF OpenStep
  <2>2. CASE CloseStep
    BY <2>2 DEF CloseStep
  <2>3. CASE SearchStep
    BY <2>3 DEF SearchStep
  <2>4. CASE CloseAllStep
    BY <2>4 DEF CloseAllStep
  <2>5. CASE ValueStep
    BY <2>5 DEF ValueStep
  <2> QED BY <2>1, <2>2, <2>3, <2>4, <2>5
<1>3. CASE call.api # "finish"
  BY <1>1, <1>2, <1>3, ContinuesAs
<1>4. CASE call.api = "finish"
  <2>1. /\ DOMAIN todo = {1, 2} /\ todo[1].op = "close_all" /\ todo[2].op = "finish"
    <3>1. todo[1].op \in {"open", "close", "search", "close_all", "value"}
      BY <1>1 DEF OpenStep, CloseStep, SearchStep, CloseAllStep, ValueStep, Working
    <3> QED BY <1>1, <1>4, <3>1 DEF OutputInv, FinishRuns
  <2>2. CloseAllStep
    BY <1>1, <2>1 DEF OpenStep, CloseStep, SearchStep, ValueStep, Working
  <2> DEFINE w == CloseAllTask(FrameBelow(todo[1].at), todo[1].limit)
  <2>3. \/ Continue(Tail(todo))
        \/ todo[1].at > todo[1].limit /\ Continue(<<w>> \o Tail(todo))
    BY <1>1, <2>2 DEF CloseAllStep
  <2>4. CASE Continue(Tail(todo))
    <3>1. /\ DOMAIN Tail(todo) = 1..(Len(todo) - 1) /\ Len(todo) \in Nat
          /\ DOMAIN todo = 1..Len(todo)
          /\ \A i \in DOMAIN Tail(todo) : Tail(todo)[i] = todo[i + 1]
      BY <1>1, TodoFacts
    <3>2. Len(todo) = 2
      <4>1. 2 \in 1..Len(todo) /\ Len(todo) \in {1, 2}
        BY <2>1, <3>1
      <4> QED BY <3>1, <4>1
    <3> DEFINE t == Tail(todo)
    <3> HIDE DEF t
    <3>3. DOMAIN t = {1} /\ t[1] = todo[2] /\ t # <<>>
      <4>1. DOMAIN t = 1..1
        BY <3>1, <3>2 DEF t
      <4>2. 1 \in DOMAIN t /\ t[1] = todo[1 + 1]
        BY <3>1, <4>1 DEF t
      <4> QED BY <4>1, <4>2
    <3>4. todo' = t /\ call' = call
      BY <2>4, <3>3 DEF Continue, t
    <3> QED BY <1>1, <2>1, <3>3, <3>4 DEF FinishRuns
  <2>5. CASE todo[1].at > todo[1].limit /\ Continue(<<w>> \o Tail(todo))
    <3>1. w \in Task /\ w.op = "close_all"
      <4>1. todo[1].at \in Nat /\ todo[1].limit \in Nat
        BY <1>1, <2>1, TodoFacts, TaskFields
      <4>2. FrameBelow(todo[1].at) \in Nat
        BY <2>5, <4>1 DEF FrameBelow
      <4> QED BY <4>1, <4>2, TasksMade DEF CloseAllTask
    <3> HIDE DEF w
    <3> DEFINE t == <<w>> \o Tail(todo)
    <3>2. /\ DOMAIN t = DOMAIN todo /\ t[1] = w
          /\ \A i \in DOMAIN t : i # 1 => t[i] = todo[i]
          /\ t # <<>>
      BY <1>1, <3>1, WalkTasks
    <3>3. Continue(t)
      BY <2>5
    <3> HIDE DEF t
    <3>4. todo' = t /\ call' = call
      BY <3>2, <3>3 DEF Continue
    <3> QED BY <1>1, <2>1, <3>1, <3>2, <3>4 DEF FinishRuns
  <2> QED BY <2>3, <2>4, <2>5
<1> QED BY <1>3, <1>4

LEMMA FinishStepEnds ==
    ASSUME OutputInv, FinishStep
    PROVE  todo' = <<>> /\ call' = Finished
<1>1. /\ todo # <<>> /\ TypeOK /\ Head(todo) = todo[1] /\ todo[1].op = "finish"
      /\ 1 \in DOMAIN todo /\ CallerInv
  BY WorkFacts DEF FinishStep, Working
<1>2. call.api = "finish"
  BY <1>1 DEF CallerInv, Finishes
<1>3. DOMAIN todo = {1}
  BY <1>1, <1>2 DEF OutputInv, FinishRuns
<1>4. Len(todo) = 1
  <2>1. DOMAIN todo = 1..Len(todo) /\ Len(todo) \in Nat \ {0}
    BY <1>1, TodoFacts
  <2>2. Len(todo) \in {1}
    BY <1>3, <2>1
  <2> QED BY <2>2
<1>5. Tail(todo) = <<>>
  BY <1>1, <1>4, TodoFacts
<1> QED BY <1>2, <1>5 DEF FinishStep, Continue

LEMMA ShownByThen ==
    ASSUME opts' = opts, topEmitted' \in BOOLEAN,
           ShownBy(written', stack', topEmitted', wrote')
    PROVE  ShownBy(written, stack, topEmitted, wrote)' /\ Mirrored'
<1>1. /\ \A f : Visible(f)' <=> Visible(f)
      /\ \A i : Count(stack, i)' = Count(stack', i)
  BY CountSame
<1>2. \A c, f : Mirrors(c, f)' <=> Mirrors(c, f)
  BY DEF Mirrors, ShapeOf, Json
<1>3. ShownIn(written'.open, stack', IF topEmitted' THEN 2 ELSE 1)
  BY DEF ShownBy
<1>4. ShownIn(written.open, stack, IF topEmitted THEN 2 ELSE 1)'
  BY <1>1, <1>2, <1>3 DEF ShownIn
<1>5. (topEmitted' => Json) /\ (Json' <=> Json)
  BY DEF ShownBy, Json
<1>6. Mirrored'
  <2>1. ShownIn(written'.open, stack', IF Json /\ topEmitted' THEN 2 ELSE 1)
    BY <1>3, <1>5
  <2> QED BY <2>1, ShownThen
<1> QED BY <1>4, <1>5, <1>6 DEF ShownBy

LEMMA StepKeepsOutput ==
    ASSUME NoCloseBare, OutputInv, CallerInv', Step
    PROVE  OutputInv'
<1>1. TypeOK' /\ topEmitted' \in BOOLEAN
  BY DEF CallerInv, Inv, TypeInv, TypeOK
<1>2. CASE OpenStep \/ CloseStep \/ SearchStep \/ CloseAllStep \/ ValueStep
  <2>1. ShownBy(written', stack', topEmitted', wrote') /\ opts' = opts
    BY <1>2, OpenStepShown, CloseStepShown, SearchStepShown, CloseAllStepShown, ValueStepShown
  <2>2. ShownBy(written, stack, topEmitted, wrote)'
    BY <1>1, <2>1, ShownByThen
  <2>3. FinishRuns' /\ call' # Finished
    BY <1>2, StepFinishRuns
  <2> QED BY <2>2, <2>3 DEF OutputInv, FinishedIsBalanced
<1>3. CASE FinishStep
  <2>1. /\ opts' = opts /\ stack' = stack /\ topEmitted' = FALSE
        /\ ShownIn(written'.open, stack, 1) /\ "unmatched" \notin written'.faults
        /\ ~opts.noClose => Len(written'.open) = 1
    BY <1>3, FinishStepShown
  <2>2. Mirrored'
    BY <2>1, ShownThen
  <2>3. todo' = <<>> /\ call' = Finished
    BY <1>3, FinishStepEnds
  <2>4. FinishRuns' /\ FinishedIsBalanced'
    BY <2>1, <2>3 DEF FinishRuns, FinishedIsBalanced
  <2> QED BY <2>1, <2>2, <2>3, <2>4 DEF OutputInv
<1> QED BY <1>2, <1>3 DEF Step

LEMMA CallKeepsOutput ==
    ASSUME OutputInv, CallerInv', Call, Kept
    PROVE  OutputInv'
<1>1. CallerInv /\ TypeOK'
  BY DEF OutputInv, CallerInv, Inv, TypeInv
<1>2. topEmitted' \in BOOLEAN
  BY <1>1 DEF TypeOK
<1>3. CASE \E n \in MarkerNames : OpenMarker(n)
  <2>1. PICK n \in MarkerNames : OpenMarker(n)
    BY <1>3
  <2>2. /\ UNCHANGED <<opts, topEmitted, wrote, written, call, todo>> /\ call = Idle
    BY <2>1 DEF OpenMarker
  <2>3. call # Finished /\ call.api # "finish"
    BY <2>2 DEF Idle, Finished
  <2>4. /\ GoodStack(stack') /\ PushedTo(stack, stack')
        /\ stack'[Len(stack')].state = "marker"
    BY <1>1, <2>1, OpenMarkerTurn DEF CallerInv, Inv, TypeInv
  <2>5. ShownBy(written', stack', topEmitted', wrote')
    BY <1>1, <2>2, <2>3, <2>4, UnseenShown DEF OutputInv
  <2>6. ShownBy(written, stack, topEmitted, wrote)'
    BY <1>2, <2>2, <2>5, ShownByThen
  <2>7. FinishRuns' /\ call' # Finished
    BY <2>2, <2>3 DEF FinishRuns
  <2> QED BY <2>6, <2>7 DEF OutputInv, FinishedIsBalanced
<1>4. CASE ~\E n \in MarkerNames : OpenMarker(n)
  <2>1. KeptBegun
    BY <1>1, <1>4, CallBegun
  <2>2. /\ call = Idle /\ UNCHANGED <<opts, stack, topEmitted, wrote, written>>
        /\ call' # Finished
    <3>1. PICK api \in Apis : \E name \in AllNames \cup {NoName} : \E tasks :
             Begin(api, name, tasks)
      BY <2>1 DEF KeptBegun
    <3> QED BY <3>1 DEF Begin, Idle, Finished, Apis
  <2>3. ShownBy(written', stack', topEmitted', wrote')
    BY <2>2 DEF OutputInv, Idle, Finished
  <2>4. ShownBy(written, stack, topEmitted, wrote)'
    BY <1>2, <2>2, <2>3, ShownByThen
  <2>5. FinishRuns'
    BY <1>4, CallFinishRuns
  <2> QED BY <2>2, <2>4, <2>5 DEF OutputInv, FinishedIsBalanced
<1> QED BY <1>3, <1>4

LEMMA OutputInvInit == Init => OutputInv
<1> SUFFICES ASSUME Init PROVE OutputInv
  OBVIOUS
<1>1. /\ CallerInv /\ call = Idle /\ todo = <<>> /\ topEmitted = FALSE /\ wrote = FALSE
      /\ stack = <<Root>> /\ written = [open |-> <<Document>>, faults |-> {}]
  BY CallerInvInit DEF Init
<1>2. /\ GoodStack(stack) /\ DOMAIN stack = {1} /\ stack[1].state = "init"
      /\ Len(written.open) = 1 /\ written.open[1].name = NoName /\ written.faults = {}
  BY <1>1, TypeFacts DEF CallerInv, Inv, TypeInv, Root, NewFrame, Document
<1>3. \A i \in DOMAIN stack : ~Visible(stack[i]) /\ stack[i].state \notin Kinds
  <2>1. ~Visible(stack[1]) /\ stack[1].state \notin Kinds
    BY <1>2 DEF Visible, Kinds
  <2> QED BY <1>2, <2>1
<1>4. ShownIn(written.open, stack, 1)
  BY <1>2, <1>3, NoneShown
<1>5. ShownBy(written, stack, FALSE, FALSE)
  <2>1. \A q \in 1..Len(written.open) : written.open[q].name = NoName
    BY <1>2
  <2> QED BY <1>2, <1>3, <1>4, <2>1 DEF ShownBy
<1>6. call # Finished /\ call.api # "finish"
  BY <1>1 DEF Idle, Finished
<1> QED BY <1>1, <1>5, <1>6 DEF OutputInv, FinishRuns, FinishedIsBalanced

LEMMA OutputInvNext ==
    ASSUME NamesSettle, NoCloseBare
    PROVE  OutputInv /\ [Next /\ Kept]_vars => OutputInv'
<1> SUFFICES ASSUME OutputInv, [Next /\ Kept]_vars PROVE OutputInv'
  OBVIOUS
<1>1. CallerInv'
  BY CallerInvNext DEF OutputInv
<1>2. CASE Next /\ Kept
  BY <1>1, <1>2, StepKeepsOutput, CallKeepsOutput DEF Next
<1>3. CASE UNCHANGED vars
  <2>1. UNCHANGED <<opts, stack, topEmitted, wrote, written, call, todo>>
    BY <1>3 DEF vars
  <2>2. topEmitted' \in BOOLEAN
    BY <2>1 DEF OutputInv, CallerInv, Inv, TypeInv, TypeOK
  <2>3. call' # Finished => ShownBy(written, stack, topEmitted, wrote)'
    BY <2>1, <2>2, ShownByThen DEF OutputInv
  <2>4. call' = Finished => Mirrored' /\ "unmatched" \notin written'.faults
    BY <2>1 DEF OutputInv, Mirrored, Place, Braces, Count, Visible, Mirrors, ShapeOf, Json
  <2>5. FinishRuns' /\ FinishedIsBalanced'
    BY <2>1 DEF OutputInv, FinishRuns, FinishedIsBalanced
  <2> QED BY <1>1, <2>3, <2>4, <2>5 DEF OutputInv
<1> QED BY <1>2, <1>3

\* For the tolerable caller, every close that the library writes is that of the
\* innermost construct open in the output (xo_transition and xo_do_close,
\* libxo.c:10372-10710).  That caller may leave closes out, misplace them, and
\* misname those that search.  It does not make the calls that Kept excludes,
\* for which this is false or the stack is wrong: close_container at the root,
\* close_instance and close_leaf_list by another name than the one on top,
\* open_instance in a leaf-list, a field where a marker protects a list, and
\* with an encoder an open that closes a list as a leaf-list or the other way.
THEOREM ClosesAreInnermost ==
    ASSUME NamesSettle, NoCloseBare
    PROVE  KeptSpec => []ClosesMatch
<1>1. OutputInv => ClosesMatch
  BY DEF OutputInv, ShownBy, ClosesMatch
<1>2. OutputInv /\ [Next /\ Kept]_vars => OutputInv'
  BY OutputInvNext
<1> QED BY <1>1, <1>2, OutputInvInit, PTL DEF KeptSpec

LEMMA OutputInvMatches == OutputInv => OutputMatchesStack
<1> SUFFICES ASSUME OutputInv PROVE Mirrored
  BY DEF OutputMatchesStack
<1>1. CASE call = Finished
  BY <1>1 DEF OutputInv
<1>2. CASE call # Finished
  <2>1. ShownBy(written, stack, topEmitted, wrote)
    BY <1>2 DEF OutputInv
  <2>2. topEmitted => Json
    BY <2>1 DEF ShownBy
  <2>3. ShownIn(written.open, stack, IF topEmitted THEN 2 ELSE 1)
    BY <2>1 DEF ShownBy
  <2>4. ShownIn(written.open, stack, Braces)
    BY <2>2, <2>3 DEF Braces
  <2> QED BY <2>4 DEF ShownIn, Mirrored, Place
<1> QED BY <1>1, <1>2

\* Between two of its calls, the constructs open in the output are the frames
\* on the stack, in order and of the same kind and name, with JSON's outermost
\* brace around them once it is written (xo_depth_change, libxo.c:5618-5680).
THEOREM OutputFollowsStack ==
    ASSUME NamesSettle, NoCloseBare
    PROVE  KeptSpec => []OutputMatchesStack
<1>1. OutputInv => OutputMatchesStack
  BY OutputInvMatches
<1>2. OutputInv /\ [Next /\ Kept]_vars => OutputInv'
  BY OutputInvNext
<1> QED BY <1>1, <1>2, OutputInvInit, PTL DEF KeptSpec

\* Once xo_finish_h returned, nothing is left open in the document, unless
\* XOF_NO_CLOSE asked for that (libxo.c:10792-10841).
THEOREM FinishCompletes ==
    ASSUME NamesSettle, NoCloseBare
    PROVE  KeptSpec => []FinishedIsBalanced
<1>1. OutputInv => FinishedIsBalanced
  BY DEF OutputInv
<1>2. OutputInv /\ [Next /\ Kept]_vars => OutputInv'
  BY OutputInvNext
<1> QED BY <1>1, <1>2, OutputInvInit, PTL DEF KeptSpec

-----------------------------------------------------------------------------
(* The inductive invariant *)

Separated(w) == w.faults \cap {"comma", "label", "bare"} = {}

Outermost(top) == IF top THEN 2 ELSE 1

\* What the frames' flags tell of the output.  All but the innermost construct
\* hold an item, the one inside them, and a marker knows of the items that the
\* frame below it knows of.
Told(w, s, top) ==
    /\ w.open[Len(w.open)].some = s[Len(s)].notFirst
    /\ \A q \in Outermost(top)..(Len(w.open) - 1) : w.open[q].some = TRUE
    /\ ~opts.noTop /\ ~top => w.open[1].some = FALSE
    /\ w.open[1].shape = "document"
    /\ \A i \in 2..Len(s) :
          s[i].state = "marker" /\ s[i - 1].notFirst = TRUE => s[i].notFirst = TRUE

JsonInv ==
    /\ OutputInv
    /\ Separated(written)
    /\ Json /\ call # Finished => Told(written, stack, topEmitted)

\* What a step has to show
Tells == Separated(written') /\ (Json => Told(written', stack', topEmitted'))

-----------------------------------------------------------------------------
(* The innermost construct is the nearest real frame's. *)

LEMMA CountAbove ==
    ASSUME NEW s, NEW n \in Nat, NEW r \in 1..n, Holds(s, r, n + 1)
    PROVE  Count(s, n) = Count(s, r)
<1>1. \A k \in (r + 1)..n : ~Visible(s[k])
  <2> SUFFICES ASSUME NEW k \in (r + 1)..n PROVE ~Visible(s[k])
    OBVIOUS
  <2>1. k \in (r + 1)..((n + 1) - 1)
    OBVIOUS
  <2>2. s[k].state = "marker"
    BY <2>1 DEF Holds
  <2> QED BY <2>2 DEF Visible, Kinds
<1>2. {k \in 1..n : Visible(s[k])} = {k \in 1..r : Visible(s[k])}
  <2>1. \A k : k \in 1..n <=> k \in 1..r \/ k \in (r + 1)..n
    OBVIOUS
  <2> QED BY <1>1, <2>1
<1> QED BY <1>2 DEF Count

LEMMA InnermostWants ==
    ASSUME CallerInv, Json, NEW w, NEW top \in BOOLEAN, NEW printed,
           ShownBy(w, stack, top, printed), opts.noTop \/ top,
           w.open[1].shape = "document"
    PROVE  Wants(w.open[Len(w.open)]) <=> ~IsList(Real.state)
<1> DEFINE n == Len(stack)
           braces == IF top THEN 2 ELSE 1
<1>1. /\ GoodStack(stack) /\ DOMAIN stack = 1..n /\ n \in Nat \ {0} /\ Rooted(stack)
  BY RealOnTop DEF CallerInv
<1>2. PICK r \in 1..n : Real = stack[r] /\ Holds(stack, r, n + 1)
  BY RealAt DEF CallerInv
<1>3. ShownIn(w.open, stack, braces)
  BY DEF ShownBy
<1>4. Len(w.open) = braces + Count(stack, r)
  BY <1>1, <1>2, <1>3, CountAbove DEF ShownIn
<1> HIDE DEF braces, n
<1>5. CASE Real.state \in Kinds
  <2>1. Visible(stack[r])
    BY <1>2, <1>5 DEF Visible, Json
  <2>2. Mirrors(w.open[Len(w.open)], stack[r])
    BY <1>1, <1>2, <1>3, <1>4, <2>1 DEF ShownIn
  <2>3. w.open[Len(w.open)].shape = JsonShape(Real.state)
    BY <1>2, <2>2 DEF Mirrors, ShapeOf, Json
  <2> QED BY <2>3 DEF Wants, JsonShape
<1>6. CASE Real.state \notin Kinds
  <2>1. stack[r].state = "init"
    <3>1. stack[r] \in Frame /\ stack[r].state # "marker"
      BY <1>1, <1>2, StackLen DEF Holds
    <3> QED BY <1>2, <1>6, <3>1 DEF Frame, States
  <2>2. r = 1
    BY <1>1, <1>2, <2>1 DEF Rooted
  <2>3. Count(stack, r) = 0
    <3>1. \A k \in 1..1 : ~Visible(stack[k])
      BY <2>1, <2>2 DEF Visible, Kinds
    <3> QED BY <2>2, <3>1, CountNone
  <2>4. Len(w.open) = braces
    BY <1>4, <2>3 DEF braces
  <2>5. Wants(w.open[Len(w.open)])
    <3>1. CASE top
      BY <2>4, <3>1 DEF ShownBy, Wants, braces
    <3>2. CASE ~top
      BY <2>4, <3>2 DEF Wants, braces
    <3> QED BY <3>1, <3>2
  <2>6. ~IsList(Real.state)
    BY <1>6 DEF IsList, Kinds
  <2> QED BY <2>5, <2>6
<1> QED BY <1>5, <1>6

-----------------------------------------------------------------------------
(* An item, and the outermost brace before it *)

LEMMA BraceTold ==
    ASSUME JsonInv, Json, call # Finished, NEW kind, opts.noTop \/ topEmitted \/ NeedsTop(kind)
    PROVE  LET w == IF NeedsTop(kind) THEN TopOpened(written) ELSE written
               top == topEmitted \/ NeedsTop(kind)
           IN  /\ GoodWritten(w) /\ Separated(w) /\ top \in BOOLEAN
               /\ ShownBy(w, stack, top, wrote) /\ Told(w, stack, top)
<1> DEFINE w == IF NeedsTop(kind) THEN TopOpened(written) ELSE written
           top == topEmitted \/ NeedsTop(kind)
<1>1. /\ CallerInv /\ TypeOK /\ ShownBy(written, stack, topEmitted, wrote)
      /\ Told(written, stack, topEmitted) /\ Separated(written)
      /\ GoodStack(stack) /\ GoodWritten(written) /\ topEmitted \in BOOLEAN
  BY TypeFacts DEF JsonInv, OutputInv, CallerInv, Inv, TypeInv
<1>2. CASE NeedsTop(kind)
  <2>1. ~opts.noTop /\ ~topEmitted /\ topEmitted = FALSE
    BY <1>1, <1>2 DEF NeedsTop
  <2> DEFINE u == TopOpened(written)
  <2>2. GoodWritten(u) /\ ShownBy(u, stack, TRUE, wrote) /\ Len(written.open) = 1
    BY <1>1, <2>1, BraceShown
  <2>3. /\ Len(u.open) = 2 /\ u.faults = written.faults /\ u.open[1] = written.open[1]
        /\ u.open[2].some = FALSE
    <3>1. "object" \in Shapes /\ NoName \in AllNames \cup {NoName}
      BY DEF Shapes
    <3>2. LET m == Len(written.open)
          IN  /\ GoodWritten(u) /\ Len(u.open) = m + 1 /\ u.faults = written.faults
              /\ \A q \in 1..m : u.open[q] = written.open[q]
              /\ u.open[m + 1] = [shape |-> "object", name |-> NoName, some |-> FALSE]
      BY <1>1, <3>1, OpenedFacts DEF TopOpened
    <3> HIDE DEF u
    <3>3. u.open[2] = [shape |-> "object", name |-> NoName, some |-> FALSE]
      BY <2>2, <3>2
    <3> QED BY <2>2, <3>2, <3>3
  <2> HIDE DEF u
  <2>4. stack[Len(stack)].notFirst = FALSE /\ written.open[1].shape = "document"
    BY <1>1, <2>1, <2>2 DEF Told
  <2>5. Told(u, stack, TRUE)
    <3>1. \A q \in Outermost(TRUE)..(Len(u.open) - 1) : u.open[q].some = TRUE
      BY <2>3 DEF Outermost
    <3>2. \A i \in 2..Len(stack) : stack[i].state = "marker" /\ stack[i - 1].notFirst = TRUE
             => stack[i].notFirst = TRUE
      BY <1>1 DEF Told
    <3> QED BY <2>3, <2>4, <3>1, <3>2 DEF Told
  <2>6. w = u /\ top = TRUE
    BY <1>2 DEF u
  <2> HIDE DEF w, top
  <2>7. Separated(w)
    BY <1>1, <2>3, <2>6 DEF Separated
  <2>8. GoodWritten(w) /\ ShownBy(w, stack, top, wrote) /\ Told(w, stack, top) /\ top \in BOOLEAN
    BY <2>2, <2>5, <2>6
  <2> QED BY <2>7, <2>8 DEF w, top
<1>3. CASE ~NeedsTop(kind)
  <2>1. w = written /\ top = topEmitted
    BY <1>1, <1>3
  <2> HIDE DEF w, top
  <2>2. /\ GoodWritten(w) /\ Separated(w) /\ top \in BOOLEAN
        /\ ShownBy(w, stack, top, wrote) /\ Told(w, stack, top)
    BY <1>1, <2>1
  <2> QED BY <2>2 DEF w, top
<1> QED BY <1>2, <1>3

\* An item is labelled as the innermost construct wants it.
Fitting(labelled, w) == labelled <=> Wants(w.open[Len(w.open)])

LEMMA ItemSeparated ==
    ASSUME NEW w, GoodWritten(w), Separated(w), NEW labelled \in BOOLEAN,
           NEW comma \in BOOLEAN, Fitting(labelled, w), comma = w.open[Len(w.open)].some
    PROVE  Separated(Item(w, labelled, comma))
<1> DEFINE v == Item(w, labelled, comma)
<1>1. ItemMade(w, v, labelled, comma)
  BY ItemFacts
<1> HIDE DEF v
<1>2. "comma" \notin v.faults
  BY <1>1 DEF ItemMade, Separated
<1>3. "label" \notin v.faults /\ "bare" \notin v.faults
  BY <1>1 DEF ItemMade, Separated, Fitting
<1>4. Separated(v)
  BY <1>2, <1>3 DEF Separated
<1> QED BY <1>4 DEF v

\* v is w, and every construct in it holds an item.
Filled(w, v, top) ==
    /\ GoodWritten(v) /\ Separated(v) /\ Len(v.open) = Len(w.open)
    /\ \A q \in Outermost(top)..Len(v.open) : v.open[q].some = TRUE
    /\ v.open[Len(v.open)].some = TRUE
    /\ v.open[1].shape = "document"

\* An item with the comma that the top frame asks for
LEMMA ItemTold ==
    ASSUME NEW w, GoodWritten(w), Separated(w), NEW s, NEW top \in BOOLEAN, Told(w, s, top),
           NEW labelled \in BOOLEAN, Fitting(labelled, w),
           NEW comma \in BOOLEAN, comma = s[Len(s)].notFirst
    PROVE  Filled(w, Item(w, labelled, comma), top)
<1> DEFINE v == Item(w, labelled, comma)
           n == Len(w.open)
<1>1. /\ GoodWritten(v) /\ Len(v.open) = n
      /\ SameOpen(w.open, v.open, n)
      /\ \A q \in 1..n : v.open[q].some = IF q = n THEN TRUE ELSE w.open[q].some
  <2>1. ItemMade(w, v, labelled, comma)
    BY ItemFacts
  <2> HIDE DEF v
  <2>2. GoodWritten(v) /\ Len(v.open) = n /\ SameOpen(w.open, v.open, n)
    BY <2>1 DEF ItemMade
  <2>3. \A q \in 1..Len(w.open) :
           v.open[q].some = IF q = Len(w.open) THEN TRUE ELSE w.open[q].some
    BY <2>1, Zenon DEF ItemMade
  <2>4. \A q \in 1..n : v.open[q].some = IF q = n THEN TRUE ELSE w.open[q].some
    BY <2>3, Zenon
  <2> QED BY <2>2, <2>4
<1>2. Separated(v)
  <2>1. comma = w.open[n].some
    BY DEF Told
  <2> QED BY <2>1, ItemSeparated
<1>3. n \in Nat \ {0}
  BY OpenAt
<1> HIDE DEF v
<1>4. ASSUME NEW q \in Outermost(top)..n PROVE v.open[q].some = TRUE
  <2>1. q \in 1..n
    BY <1>3 DEF Outermost
  <2>2. CASE q = n
    BY <1>1, <2>1, <2>2
  <2>3. CASE q # n
    <3>1. q \in Outermost(top)..(n - 1)
      BY <1>3, <2>1, <2>3 DEF Outermost
    <3>2. w.open[q].some = TRUE
      BY <3>1 DEF Told
    <3> QED BY <1>1, <2>1, <2>3, <3>2
  <2> QED BY <2>2, <2>3
<1>5. v.open[1].shape = "document" /\ v.open[n].some = TRUE
  <2>1. 1 \in 1..n /\ n \in 1..n
    BY <1>3
  <2> QED BY <1>1, <2>1 DEF SameOpen, Alike, Told
<1>6. Filled(w, v, top)
  BY <1>1, <1>2, <1>4, <1>5 DEF Filled, v
<1> QED BY <1>6 DEF v

LEMMA RealLists ==
    ASSUME Inv
    PROVE  /\ ListOnTop(stack) <=> IsList(Real.state)
           /\ NoListOnTop(stack) <=> ~IsList(Real.state)
           /\ \A kind : MayHold(stack, kind) /\ IsList(Real.state) => kind = "instance"
<1>1. PICK r \in 1..Len(stack) : Real = stack[r] /\ Holds(stack, r, Len(stack) + 1)
  BY RealAt
<1>2. DOMAIN stack = 1..Len(stack)
  BY RealOnTop
<1> QED BY <1>1, <1>2, RealOnTop DEF MayHold

LEMMA OpenStepTells ==
    ASSUME JsonInv, Json, OpenStep
    PROVE  Tells
<1> DEFINE kind == todo[1].kind
           name == todo[1].name
           w == IF NeedsTop(kind) THEN TopOpened(written) ELSE written
           top == topEmitted \/ NeedsTop(kind)
           labelled == kind # "instance"
           v == Item(w, labelled, Top.notFirst)
           u == Opened(v, JsonShape(kind), NoName)
<1>1. /\ OutputInv /\ todo # <<>> /\ Head(todo) = todo[1] /\ todo[1].op = "open"
      /\ CallerInv /\ TypeOK /\ Inv /\ call # Finished /\ todo[1] \in Task
      /\ Allows(stack, todo[1]) /\ 1 \in DOMAIN todo
      /\ ShownBy(written, stack, topEmitted, wrote)
      /\ Top = stack[Len(stack)] /\ Top \in Frame /\ GoodStack(stack)
      /\ Len(stack) \in Nat \ {0}
  <2>1. todo # <<>> /\ OutputInv /\ Head(todo).op = "open"
    BY DEF OpenStep, Working, JsonInv
  <2> QED BY <2>1, WorkFacts, StepFacts DEF CallerInv
<1>2. kind \in Kinds /\ name \in AllNames /\ DoOpen(kind, name)
  BY <1>1, TaskFields, OpenMeans
<1>3. kind = "instance" <=> IsList(Real.state)
  <2>1. MayHold(stack, kind)
    BY <1>1 DEF Inv, Planned
  <2>2. kind = "instance" => ListOnTop(stack)
    BY <1>1 DEF Allows
  <2> QED BY <1>1, <2>1, <2>2, RealLists
<1> HIDE DEF kind, name
<1>4. opts.noTop \/ topEmitted \/ NeedsTop(kind)
  <2>1. CASE kind # "instance"
    BY <2>1 DEF NeedsTop
  <2>2. CASE kind = "instance"
    <3>1. \E i \in DOMAIN stack : stack[i].state \in Kinds
      BY <1>1, <1>3, <2>2, RealLists, Listed
    <3> QED BY <1>1, <3>1 DEF ShownBy
  <2> QED BY <2>1, <2>2
<1>5. /\ GoodWritten(w) /\ Separated(w) /\ top \in BOOLEAN
      /\ ShownBy(w, stack, top, wrote) /\ Told(w, stack, top)
  BY <1>1, <1>4, BraceTold
<1>6. /\ written' = u /\ topEmitted' = top
  <2>1. ~Tagged(kind) /\ opts.style # "encoder"
    BY DEF Json, Tagged
  <2>2. OpenWritten(kind, NameMap[name]) = u
    BY <2>1 DEF OpenWritten
  <2> HIDE DEF u
  <2> QED BY <1>2, <2>2 DEF DoOpen
<1>7. opts.noTop \/ top
  BY <1>4
<1> HIDE DEF w, top
<1>8. Fitting(labelled, w)
  <2>1. Wants(w.open[Len(w.open)]) <=> ~IsList(Real.state)
    BY <1>1, <1>5, <1>7, InnermostWants DEF Told
  <2> QED BY <1>3, <2>1 DEF Fitting
<1>9. /\ GoodWritten(v) /\ Separated(v) /\ Len(v.open) = Len(w.open)
      /\ \A q \in Outermost(top)..Len(v.open) : v.open[q].some = TRUE
      /\ v.open[Len(v.open)].some = TRUE
      /\ v.open[1].shape = "document"
  <2>1. labelled \in BOOLEAN /\ Top.notFirst \in BOOLEAN
        /\ Top.notFirst = stack[Len(stack)].notFirst
    BY <1>1 DEF Frame
  <2> HIDE DEF labelled
  <2> DEFINE comma == Top.notFirst
             x == Item(w, labelled, comma)
  <2>2. v = x /\ comma \in BOOLEAN /\ comma = stack[Len(stack)].notFirst
    BY <2>1
  <2> HIDE DEF v, comma
  <2>3. Filled(w, x, top)
    BY <1>5, <1>8, <2>1, <2>2, ItemTold
  <2> HIDE DEF x
  <2> QED BY <2>2, <2>3 DEF Filled
<1> HIDE DEF labelled, v
<1>10. /\ GoodWritten(u) /\ Len(u.open) = Len(v.open) + 1 /\ u.faults = v.faults
       /\ \A q \in 1..Len(v.open) : u.open[q] = v.open[q]
       /\ u.open[Len(v.open) + 1] = [shape |-> JsonShape(kind), name |-> NoName, some |-> FALSE]
  <2>1. JsonShape(kind) \in Shapes /\ NoName \in AllNames \cup {NoName}
    BY DEF Shapes, JsonShape
  <2> QED BY <1>9, <2>1, OpenedFacts
<1> HIDE DEF u
<1>11. /\ Len(stack') = Len(stack) + 1
       /\ stack'[Len(stack')].notFirst = FALSE /\ stack'[Len(stack')].state = kind
       /\ \A i \in 1..Len(stack) :
             stack'[i] = IF i = Len(stack) THEN [stack[i] EXCEPT !.notFirst = TRUE]
                         ELSE stack[i]
  <2>1. /\ Len(stack') = Len(stack) + 1
        /\ stack'[Len(stack) + 1] = NewFrame(kind, NameMap[name])
        /\ \A i \in 1..Len(stack) :
              stack'[i] = IF i = Len(stack) /\ Json THEN [stack[i] EXCEPT !.notFirst = TRUE]
                          ELSE stack[i]
    BY <1>1, <1>2, OpenFrames
  <2> QED BY <2>1 DEF NewFrame
<1>12. Told(u, stack', top)
  <2>1. u.open[Len(u.open)].some = stack'[Len(stack')].notFirst
    <3>1. u.open[Len(u.open)].some = FALSE
      <4> DEFINE c == [shape |-> JsonShape(kind), name |-> NoName, some |-> FALSE]
      <4>1. u.open[Len(u.open)] = c
        BY <1>10
      <4>2. c.some = FALSE
        OBVIOUS
      <4> HIDE DEF c
      <4> QED BY <4>1, <4>2
    <3> QED BY <1>11, <3>1
  <2>2. \A q \in Outermost(top)..(Len(u.open) - 1) : u.open[q].some = TRUE
    <3>1. Len(v.open) \in Nat /\ Len(u.open) - 1 = Len(v.open)
      BY <1>9, <1>10, OpenAt
    <3>2. \A q \in Outermost(top)..Len(v.open) : q \in 1..Len(v.open)
      BY <3>1 DEF Outermost
    <3> QED BY <1>9, <1>10, <3>1, <3>2
  <2>3. u.open[1].shape = "document"
    <3>1. 1 \in 1..Len(v.open)
      BY <1>9, OpenAt
    <3> QED BY <1>9, <1>10, <3>1
  <2>4. ASSUME NEW i \in 2..Len(stack'), stack'[i].state = "marker",
               stack'[i - 1].notFirst = TRUE
        PROVE  stack'[i].notFirst = TRUE
    <3>1. i # Len(stack')
      BY <1>2, <1>11, <2>4 DEF Kinds
    <3>2. i \in 2..Len(stack) /\ i \in 1..Len(stack) /\ i - 1 \in 1..Len(stack) /\ i - 1 # Len(stack)
      BY <1>1, <1>11, <3>1
    <3>3. stack'[i - 1] = stack[i - 1]
      BY <1>11, <3>2
    <3>4. stack[i] \in Frame
      BY <1>1, <3>2, StackLen
    <3>5. CASE i = Len(stack)
      <4>1. stack'[i] = [stack[i] EXCEPT !.notFirst = TRUE]
        BY <1>11, <3>2, <3>5
      <4> QED BY <3>4, <4>1 DEF Frame
    <3>6. CASE i # Len(stack)
      <4>1. stack'[i] = stack[i]
        BY <1>11, <3>2, <3>6
      <4>2. stack[i].state = "marker" /\ stack[i - 1].notFirst = TRUE
        BY <2>4, <3>3, <4>1
      <4> QED BY <1>5, <3>2, <4>1, <4>2 DEF Told
    <3> QED BY <3>5, <3>6
  <2> QED BY <1>7, <2>1, <2>2, <2>3, <2>4 DEF Told
<1> QED BY <1>6, <1>9, <1>10, <1>12 DEF Tells, Separated

-----------------------------------------------------------------------------
(* Fields *)

\* The same flags tell of the same output.
LEMMA ToldSame ==
    ASSUME NEW w, NEW s, NEW t, NEW top, Told(w, s, top),
           Len(t) = Len(s), Len(s) \in Nat \ {0},
           \A i \in 1..Len(s) : t[i].state = s[i].state /\ t[i].notFirst = s[i].notFirst
    PROVE  Told(w, t, top)
<1>1. t[Len(t)].notFirst = s[Len(s)].notFirst
  OBVIOUS
<1>2. ASSUME NEW i \in 2..Len(t), t[i].state = "marker", t[i - 1].notFirst = TRUE
      PROVE  t[i].notFirst = TRUE
  <2>1. i \in 2..Len(s) /\ i \in 1..Len(s) /\ i - 1 \in 1..Len(s)
    OBVIOUS
  <2>2. s[i].state = "marker" /\ s[i - 1].notFirst = TRUE
    BY <1>2, <2>1
  <2>3. s[i].notFirst = TRUE
    BY <2>1, <2>2 DEF Told
  <2> QED BY <2>1, <2>3
<1> QED BY <1>1, <1>2 DEF Told

\* One more item in the top frame and in the innermost construct
LEMMA ToldFilled ==
    ASSUME NEW w, NEW v, NEW s, NEW t, NEW top \in BOOLEAN, Told(w, s, top), Filled(w, v, top),
           opts.noTop \/ top, Len(t) = Len(s), Len(s) \in Nat \ {0},
           t[Len(s)].notFirst = TRUE,
           \A i \in 1..Len(s) : i # Len(s) => t[i] = s[i],
           t[Len(s)].state = s[Len(s)].state
    PROVE  Told(v, t, top)
<1>1. v.open[Len(v.open)].some = t[Len(t)].notFirst
  BY DEF Filled
<1>2. \A q \in Outermost(top)..(Len(v.open) - 1) : v.open[q].some = TRUE
  <2>1. Len(v.open) \in Nat
    BY OpenAt DEF Filled
  <2>2. ASSUME NEW q \in Outermost(top)..(Len(v.open) - 1)
        PROVE  q \in Outermost(top)..Len(v.open)
    BY <2>1 DEF Outermost
  <2> QED BY <2>2 DEF Filled
<1>3. ASSUME NEW i \in 2..Len(t), t[i].state = "marker", t[i - 1].notFirst = TRUE
      PROVE  t[i].notFirst = TRUE
  <2>1. i \in 2..Len(s) /\ i \in 1..Len(s) /\ i - 1 \in 1..Len(s) /\ i - 1 # Len(s)
    OBVIOUS
  <2>2. CASE i = Len(s)
    BY <2>2
  <2>3. CASE i # Len(s)
    <3>1. s[i].state = "marker" /\ s[i - 1].notFirst = TRUE /\ t[i] = s[i]
      BY <1>3, <2>1, <2>3
    <3> QED BY <2>1, <3>1 DEF Told
  <2> QED BY <2>2, <2>3
<1> QED BY <1>1, <1>2, <1>3 DEF Told, Filled

\* What JSON's reader sees of a field
LEMMA JsonValueTells ==
    ASSUME JsonInv, Json, ValueStep
    PROVE  Tells
<1> DEFINE role == todo[1].role
           ok == todo[1].ok
           w == IF NeedsTop("container") THEN TopOpened(written) ELSE written
           top == topEmitted \/ NeedsTop("container")
           labelled == role # "leaf"
           comma == Top.notFirst
           v == Item(w, labelled, comma)
           n == Len(stack)
<1>1. /\ OutputInv /\ todo # <<>> /\ Head(todo) = todo[1] /\ todo[1].op = "value"
      /\ CallerInv /\ TypeOK /\ Inv /\ call # Finished
      /\ Allows(stack, todo[1])
      /\ Top = stack[n] /\ Top \in Frame /\ GoodStack(stack) /\ n \in Nat \ {0}
      /\ Told(written, stack, topEmitted) /\ Separated(written)
      /\ GoodWritten(written) /\ topEmitted \in BOOLEAN
  <2>1. todo # <<>> /\ OutputInv /\ Head(todo).op = "value"
    BY DEF ValueStep, Working, JsonInv
  <2> QED BY <2>1, WorkFacts, StepFacts, TypeFacts DEF CallerInv, JsonInv
<1>2. /\ role \in {"key", "value", "leaf"} /\ ok \in BOOLEAN
      /\ GoodStack(stack') /\ Len(stack') = n
      /\ \A i \in 1..n : i # n => stack'[i] = stack[i]
      /\ stack'[n].state = stack[n].state
      /\ stack'[n].notFirst = (Top.notFirst \/ (Json /\ ok))
  <2>1. /\ role \in {"key", "value", "leaf"} /\ ok \in BOOLEAN
        /\ GoodStack(stack') /\ Len(stack') = n
        /\ \A i \in 1..n : i # n => stack'[i] = stack[i]
        /\ stack'[n] = [Top EXCEPT !.emit = @ \/ role = "value",
                                   !.emitKey = @ \/ role = "key",
                                   !.emitLeaf = @ \/ (role = "leaf" /\ ok),
                                   !.notFirst = @ \/ (Json /\ ok)]
    BY <1>1, ValueFrames
  <2> HIDE DEF role, ok, n
  <2>2. stack'[n].state = Top.state /\ stack'[n].notFirst = (Top.notFirst \/ (Json /\ ok))
    BY <1>1, <2>1 DEF Frame
  <2> QED BY <1>1, <2>1, <2>2
<1>3. /\ written' = IF ok THEN v ELSE written
      /\ topEmitted' = (topEmitted \/ (ok /\ NeedsTop("container")))
  <2>1. CASE ok
    BY <1>1, <2>1 DEF ValueStep
  <2>2. CASE ~ok
    BY <1>1, <2>2 DEF ValueStep
  <2> QED BY <2>1, <2>2
<1>4. ok => (labelled <=> ~IsList(Real.state))
  BY <1>1, RealLists DEF Allows
<1> HIDE DEF role, ok, n
<1>5. CASE ~ok
  <2>1. written' = written /\ topEmitted' = topEmitted
    BY <1>1, <1>3, <1>5
  <2>2. stack'[n].notFirst = stack[n].notFirst
    BY <1>1, <1>2, <1>5 DEF Frame
  <2>3. \A i \in 1..n : stack'[i].state = stack[i].state
                        /\ stack'[i].notFirst = stack[i].notFirst
    BY <1>2, <2>2
  <2>4. Told(written, stack', topEmitted)
    BY <1>1, <1>2, <2>3, ToldSame DEF n
  <2> QED BY <1>1, <2>1, <2>4 DEF Tells
<1>6. CASE ok
  <2>1. written' = v /\ topEmitted' = top
    BY <1>3, <1>6
  <2>2. opts.noTop \/ topEmitted \/ NeedsTop("container")
    BY DEF NeedsTop
  <2>3. /\ GoodWritten(w) /\ Separated(w) /\ top \in BOOLEAN
        /\ ShownBy(w, stack, top, wrote) /\ Told(w, stack, top)
    BY <1>1, <2>2, BraceTold
  <2>4. opts.noTop \/ top
    BY <2>2
  <2>5. stack'[n].notFirst = TRUE
    BY <1>1, <1>2, <1>6 DEF Frame
  <2>6. labelled \in BOOLEAN /\ comma \in BOOLEAN /\ comma = stack[Len(stack)].notFirst
    BY <1>1 DEF Frame, n
  <2> HIDE DEF w, top, labelled, comma
  <2>7. Fitting(labelled, w)
    <3>1. Wants(w.open[Len(w.open)]) <=> ~IsList(Real.state)
      BY <1>1, <2>3, <2>4, InnermostWants DEF Told
    <3> QED BY <1>4, <1>6, <3>1 DEF Fitting
  <2>8. Filled(w, v, top)
    BY <2>3, <2>6, <2>7, ItemTold
  <2> HIDE DEF v
  <2>9. Told(v, stack', top)
    <3>1. /\ Len(stack') = Len(stack) /\ Len(stack) \in Nat \ {0}
          /\ stack'[Len(stack)].notFirst = TRUE
          /\ stack'[Len(stack)].state = stack[Len(stack)].state
      BY <1>1, <1>2, <2>5 DEF n
    <3>2. \A i \in 1..Len(stack) : i # Len(stack) => stack'[i] = stack[i]
      BY <1>2 DEF n
    <3>3. top \in BOOLEAN /\ Told(w, stack, top) /\ Filled(w, v, top) /\ (opts.noTop \/ top)
      BY <2>3, <2>4, <2>8
    <3> QED BY <3>1, <3>2, <3>3, ToldFilled
  <2> QED BY <2>1, <2>8, <2>9 DEF Tells, Filled
<1> QED BY <1>2, <1>5, <1>6

-----------------------------------------------------------------------------
(* Closes, and markers *)

\* A close of the top frame's construct: the construct around it holds it.
LEMMA JsonCloseTells ==
    ASSUME JsonInv, Json, todo # <<>>, NEW kind \in Kinds, NEW name \in AllNames \cup {NoName},
           Matches(Top, kind, name), DoClose(kind, name)
    PROVE  Tells
<1> DEFINE n == Len(written.open)
           m == Len(stack')
           shape == JsonShape(kind)
           u == Closed(written, shape, NoName)
<1>1. /\ CallerInv /\ TypeOK /\ StackInv(stack) /\ GoodStack(stack) /\ GoodWritten(written)
      /\ Top = stack[Len(stack)] /\ topEmitted \in BOOLEAN /\ Shows
      /\ Len(stack) \in Nat \ {0} /\ \A i \in 1..Len(stack) : stack[i] \in Frame
      /\ ShownBy(written, stack, topEmitted, wrote)
      /\ Told(written, stack, topEmitted) /\ Separated(written)
  BY WorkFacts, StepFacts, TypeFacts, StackLen DEF JsonInv
<1>2. /\ MappedClose(name) = Top.name /\ IsList(kind) = IsList(Top.state)
      /\ Top.state \in Kinds
  BY <1>1, MatchedNames DEF Matches
<1>3. written' = u /\ topEmitted' = topEmitted
  <2>1. written' = CloseWritten(kind, Top.name) /\ topEmitted' = topEmitted
    BY <1>2 DEF DoClose
  <2>2. ~Tagged(kind) /\ opts.style # "encoder"
    BY DEF Tagged, Json
  <2>3. CloseWritten(kind, Top.name) = Closed(written, JsonShape(kind), NoName)
    BY <2>2 DEF CloseWritten
  <2> QED BY <2>1, <2>3
<1>4. /\ GoodStack(stack') /\ m = Len(stack) - 1 /\ Len(stack) > 1
      /\ Uncovered(stack, stack', TRUE)
  <2>1. MarksParent(kind) = TRUE
    BY DEF MarksParent, Json
  <2> QED BY <1>1, <2>1, CloseFrames
<1>5. /\ Mirrors(written.open[n], Top) /\ n \in Nat /\ n > Outermost(topEmitted)
      /\ Outermost(topEmitted) \in Nat \ {0}
  <2>1. Visible(Top)
    BY <1>2 DEF Visible, Json
  <2>2. ShownIn(written.open, stack, Outermost(topEmitted))
    BY <1>1 DEF ShownBy, Outermost
  <2>3. Outermost(topEmitted) \in Nat \ {0}
    BY DEF Outermost
  <2> QED BY <1>1, <2>1, <2>2, <2>3, ShownTop
<1>6. opts.noTop \/ topEmitted
  <2>1. Len(stack) \in DOMAIN stack
    BY <1>1, StackLen
  <2> QED BY <1>1, <1>2, <2>1 DEF ShownBy
<1>7. written.open[n].shape = shape /\ written.open[n].name = NoName /\ n > 1
  <2>1. n > 1 /\ n \in 1..n
    BY <1>5
  <2>2. ShapeOf(Top) = shape
    BY <1>2 DEF ShapeOf, JsonShape, Json
  <2>3. written.open[n].shape = shape
    BY <1>5, <2>2 DEF Mirrors
  <2> QED BY <1>1, <2>1, <2>3 DEF ShownBy
<1> HIDE DEF shape
<1>8. /\ GoodWritten(u) /\ Len(u.open) = n - 1 /\ u.faults = written.faults
      /\ \A q \in 1..(n - 1) : u.open[q] = written.open[q]
  BY <1>1, <1>7, ClosedFacts
<1> HIDE DEF u, n, m
<1>9. stack'[m].notFirst = TRUE
  <2>1. m \in 1..m /\ m \in 1..Len(stack)
    BY <1>1, <1>4
  <2>2. stack'[m] = [stack[m] EXCEPT !.notFirst = TRUE] /\ stack[m] \in Frame
    BY <1>1, <1>4, <2>1 DEF Uncovered, m
  <2> QED BY <2>2 DEF Frame
<1>10. Told(u, stack', topEmitted)
  <2>1. u.open[n - 1].some = TRUE
    <3>1. n - 1 \in Outermost(topEmitted)..(n - 1) /\ n - 1 \in 1..(n - 1)
      BY <1>5
    <3>2. written.open[n - 1].some = TRUE
      BY <1>1, <3>1 DEF Told, n
    <3> QED BY <1>8, <3>1, <3>2
  <2>2. u.open[Len(u.open)].some = stack'[Len(stack')].notFirst
    BY <1>8, <1>9, <2>1 DEF m
  <2>3. ASSUME NEW q \in Outermost(topEmitted)..(Len(u.open) - 1)
        PROVE  u.open[q].some = TRUE
    <3>1. q \in Outermost(topEmitted)..(n - 1) /\ q \in 1..(n - 1)
      BY <1>5, <1>8
    <3>2. written.open[q].some = TRUE
      BY <1>1, <3>1 DEF Told, n
    <3> QED BY <1>8, <3>1, <3>2
  <2>4. u.open[1].shape = "document"
    <3>1. 1 \in 1..(n - 1)
      BY <1>5
    <3> QED BY <1>1, <1>8, <3>1 DEF Told
  <2>5. ASSUME NEW i \in 2..Len(stack'), stack'[i].state = "marker",
               stack'[i - 1].notFirst = TRUE
        PROVE  stack'[i].notFirst = TRUE
    <3>1. i \in 2..m /\ i \in 1..m /\ i - 1 \in 1..m /\ i - 1 # m /\ i \in 2..Len(stack)
      BY <1>1, <1>4 DEF m
    <3>2. CASE i = m
      BY <1>9, <3>2
    <3>3. CASE i # m
      <4>1. stack'[i] = stack[i] /\ stack'[i - 1] = stack[i - 1]
        BY <1>4, <3>1, <3>3 DEF Uncovered, m
      <4> QED BY <1>1, <2>5, <3>1, <4>1 DEF Told
    <3> QED BY <3>2, <3>3
  <2> QED BY <1>6, <2>2, <2>3, <2>4, <2>5 DEF Told
<1> QED BY <1>1, <1>3, <1>8, <1>10 DEF Tells, Separated

\* A marker's flags go to the frame below it.
LEMMA MarkerCloseTells ==
    ASSUME JsonInv, Json, todo # <<>>, OnMarker, CloseMarkerFrame(Top.name, Top)
    PROVE  Tells
<1> DEFINE m == Len(stack')
<1>1. /\ TypeOK /\ StackInv(stack)
      /\ Top = stack[Len(stack)] /\ Len(stack) \in Nat \ {0}
      /\ \A i \in 1..Len(stack) : stack[i] \in Frame
      /\ Told(written, stack, topEmitted) /\ Separated(written)
  BY WorkFacts, StepFacts, StackLen DEF JsonInv
<1>2. /\ m = Len(stack) - 1 /\ Len(stack) > 1
      /\ \A i \in 1..m : stack'[i] = IF i = m THEN FlagsGiven(stack[i], Top) ELSE stack[i]
      /\ UNCHANGED <<opts, topEmitted, wrote, written>>
  BY <1>1, MarkerFrames
<1> HIDE DEF m
<1>3. /\ m \in 1..m /\ m \in 1..Len(stack) /\ m \in Nat
      /\ Len(stack) \in 2..Len(stack) /\ Len(stack) - 1 = m /\ Len(stack) \in 1..Len(stack)
  BY <1>1, <1>2
<1>4. /\ stack'[m].state = stack[m].state
      /\ stack'[m].notFirst = (stack[m].notFirst \/ Top.notFirst)
  <2>1. stack'[m] = FlagsGiven(stack[m], Top) /\ stack[m] \in Frame
    BY <1>1, <1>2, <1>3
  <2> QED BY <2>1 DEF FlagsGiven, Frame
<1>5. stack[m].notFirst = TRUE => Top.notFirst = TRUE
  <2>1. stack[Len(stack)].state = "marker"
    BY <1>1 DEF OnMarker
  <2> QED BY <1>1, <1>3, <2>1 DEF Told
<1>6. stack[m].notFirst \in BOOLEAN /\ Top.notFirst \in BOOLEAN
  BY <1>1, <1>3 DEF Frame
<1>7. stack'[m].notFirst = Top.notFirst
  BY <1>4, <1>5, <1>6
<1>8. stack[m].notFirst = TRUE => stack'[m].notFirst = TRUE
  BY <1>5, <1>7
<1>9. ASSUME NEW i \in 2..Len(stack'), stack'[i].state = "marker",
             stack'[i - 1].notFirst = TRUE
      PROVE  stack'[i].notFirst = TRUE
  <2>1. /\ i \in 2..m /\ i \in 1..m /\ i - 1 \in 1..m /\ i - 1 # m /\ i \in 2..Len(stack)
    BY <1>2, <1>3 DEF m
  <2>2. stack'[i - 1] = stack[i - 1] /\ (i # m => stack'[i] = stack[i])
    BY <1>2, <2>1
  <2>3. stack[i].state = "marker"
    BY <1>4, <1>9, <2>2
  <2>4. stack[i].notFirst = TRUE
    BY <1>1, <1>9, <2>1, <2>2, <2>3 DEF Told
  <2> QED BY <1>8, <2>2, <2>4
<1>10. Told(written, stack', topEmitted)
  <2>1. written.open[Len(written.open)].some = stack'[Len(stack')].notFirst
    BY <1>1, <1>7 DEF Told, m
  <2> QED BY <1>1, <1>9, <2>1 DEF Told
<1> QED BY <1>1, <1>2, <1>10 DEF Tells

\* A new marker has the flags of the frame below it.
LEMMA MarkerOpenTells ==
    ASSUME JsonInv, Json, NEW name \in MarkerNames, OpenMarker(name)
    PROVE  Tells
<1> DEFINE m == Len(stack) + 1
           f == [Top EXCEPT !.state = "marker", !.name = name]
<1>1. /\ GoodStack(stack) /\ Len(stack) \in Nat \ {0} /\ Top = stack[Len(stack)]
      /\ Top \in Frame /\ stack \in Seq(Frame)
      /\ Told(written, stack, topEmitted) /\ Separated(written)
  <2>1. call # Finished
    BY DEF OpenMarker, Idle, Finished
  <2>2. GoodStack(stack) /\ TypeOK /\ Inv
    BY TypeFacts DEF JsonInv, OutputInv, CallerInv, Inv, TypeInv
  <2>3. Len(stack) \in Nat \ {0} /\ Top = stack[Len(stack)] /\ Len(stack) \in DOMAIN stack
    BY <2>2, StackLen DEF Top
  <2>4. Top \in Frame
    BY <2>2, <2>3, StackLen
  <2> QED BY <2>1, <2>2, <2>3, <2>4 DEF JsonInv, TypeOK
<1>2. /\ stack' = Append(stack, f)
      /\ UNCHANGED <<topEmitted, written>>
  BY DEF OpenMarker
<1>3. f.notFirst = Top.notFirst
  BY <1>1 DEF Frame
<1> HIDE DEF f
<1>4. /\ Len(stack') = m /\ stack'[m] = f
      /\ \A i \in 1..Len(stack) : stack'[i] = stack[i]
  BY <1>1, <1>2
<1> HIDE DEF m
<1>5. ASSUME NEW i \in 2..Len(stack'), stack'[i].state = "marker",
             stack'[i - 1].notFirst = TRUE
      PROVE  stack'[i].notFirst = TRUE
  <2>1. i \in 2..m /\ i - 1 \in 1..Len(stack) /\ (i # m => i \in 2..Len(stack) /\ i \in 1..Len(stack))
    BY <1>1, <1>4 DEF m
  <2>2. stack'[i - 1] = stack[i - 1]
    BY <1>4, <2>1
  <2>3. CASE i = m
    <3>1. i - 1 = Len(stack)
      BY <1>1, <2>3 DEF m
    <3> QED BY <1>1, <1>3, <1>4, <1>5, <2>2, <2>3, <3>1
  <2>4. CASE i # m
    <3>1. stack'[i] = stack[i] /\ i \in 2..Len(stack)
      BY <1>4, <2>1, <2>4
    <3> QED BY <1>1, <1>5, <2>2, <3>1 DEF Told
  <2> QED BY <2>3, <2>4
<1>6. Told(written, stack', topEmitted)
  <2>1. written.open[Len(written.open)].some = stack'[Len(stack')].notFirst
    BY <1>1, <1>3, <1>4 DEF Told
  <2> QED BY <1>1, <1>5, <2>1 DEF Told
<1> QED BY <1>1, <1>2, <1>6 DEF Tells

-----------------------------------------------------------------------------
(* Every step *)

LEMMA CloseStepTells ==
    ASSUME JsonInv, Json, CloseStep
    PROVE  Tells
<1>1. todo # <<>> /\ Head(todo).op = "close" /\ Closes(Head(todo).kind, Head(todo).name)
  BY DEF CloseStep, Working
<1>2. /\ TypeOK /\ TypeInv /\ Allows(stack, todo[1]) /\ Head(todo) = todo[1] /\ todo[1] \in Task
      /\ Top = stack[Len(stack)]
  BY <1>1, WorkFacts DEF JsonInv, OutputInv, CallerInv, Inv
<1>3. /\ todo[1].kind \in Kinds /\ todo[1].name \in AllNames \cup {NoName}
      /\ DoClose(todo[1].kind, todo[1].name)
  BY <1>1, <1>2, TaskFields, ClosesMeans
<1>4. Matches(Top, todo[1].kind, todo[1].name)
  BY <1>1, <1>2 DEF Allows
<1> QED BY <1>1, <1>3, <1>4, JsonCloseTells

LEMMA CloseAllStepTells ==
    ASSUME JsonInv, Json, CloseAllStep
    PROVE  Tells
<1>1. /\ CallerInv /\ todo # <<>> /\ Shows /\ Told(written, stack, topEmitted)
      /\ Separated(written)
  BY WorkFacts DEF JsonInv, OutputInv, CloseAllStep, Working
<1>2. \/ UNCHANGED <<stack, topEmitted, written>>
      \/ OnMarker /\ CloseMarkerFrame(Top.name, Top)
      \/ /\ Top.state \in Kinds /\ Matches(Top, Top.state, NoName)
         /\ DoClose(Top.state, NoName)
  BY <1>1, WalkAtTop
<1>3. CASE UNCHANGED <<stack, topEmitted, written>>
  BY <1>1, <1>3 DEF Tells
<1>4. CASE OnMarker /\ CloseMarkerFrame(Top.name, Top)
  BY <1>1, <1>4, MarkerCloseTells
<1>5. CASE /\ Top.state \in Kinds /\ Matches(Top, Top.state, NoName)
           /\ DoClose(Top.state, NoName)
  <2>1. NoName \in AllNames \cup {NoName}
    OBVIOUS
  <2> QED BY <1>1, <1>5, <2>1, JsonCloseTells
<1> QED BY <1>2, <1>3, <1>4, <1>5

\* Brackets and names add no fault of an item.
LEMMA ItsFaults ==
    ASSUME NEW w, GoodWritten(w), Separated(w), NEW shape, NEW name
    PROVE  /\ Separated(NameShown(w, name)) /\ GoodWritten(NameShown(w, name))
           /\ Separated(Opened(w, shape, name))
           /\ Separated(Closed(w, shape, name))
<1>1. Separated(NameShown(w, name)) /\ GoodWritten(NameShown(w, name))
  BY NameShownFacts DEF Separated
<1>2. Opened(w, shape, name).faults = w.faults
  BY DEF Opened, GoodWritten, Written
<1>3. Separated(Opened(w, shape, name))
  BY <1>2 DEF Separated
<1>4. Separated(Closed(w, shape, name))
  <2> DEFINE in == Innermost(w)
             match == Len(w.open) > 1 /\ in.shape = shape /\ in.name = name
             f == Fault(w, ~match, "unmatched")
  <2>1. Closed(w, shape, name)
           = [f EXCEPT !.open = IF Len(w.open) > 1 THEN Front(@) ELSE @]
    BY DEF Closed
  <2> HIDE DEF match, in
  <2>2. f = w \/ f = [w EXCEPT !.faults = @ \cup {"unmatched"}]
    BY DEF Fault
  <2>3. f \in Written /\ f.faults \subseteq w.faults \cup {"unmatched"}
    <3> HIDE DEF f
    <3> QED BY <2>2 DEF GoodWritten, Written, Faults
  <2> HIDE DEF f
  <2>4. Closed(w, shape, name).faults = f.faults
    BY <2>1, <2>3 DEF Written
  <2> QED BY <2>3, <2>4 DEF Separated
<1> QED BY <1>1, <1>3, <1>4

LEMMA OtherOpens ==
    ASSUME ~Json, GoodWritten(written), Separated(written), NEW kind, NEW name
    PROVE  /\ Separated(OpenWritten(kind, name))
           /\ Separated(CloseWritten(kind, name))
<1> DEFINE w == NameShown(written, name)
<1>1. Separated(w) /\ GoodWritten(w)
  BY ItsFaults
<1>2. /\ Separated(Opened(w, "element", name)) /\ Separated(Opened(w, kind, name))
      /\ Separated(Closed(w, "element", name)) /\ Separated(Closed(w, kind, name))
  <2> HIDE DEF w
  <2> QED BY <1>1, ItsFaults
<1>3. ~NeedsTop(kind)
  BY DEF NeedsTop
<1>4. Separated(OpenWritten(kind, name))
  <2>1. \/ OpenWritten(kind, name) = Opened(w, "element", name)
        \/ OpenWritten(kind, name) = Opened(w, kind, name)
        \/ OpenWritten(kind, name) = written
    <3>1. CASE Tagged(kind)
      BY <1>3, <3>1 DEF OpenWritten
    <3>2. CASE ~Tagged(kind) /\ opts.style = "encoder"
      BY <1>3, <3>2 DEF OpenWritten
    <3>3. CASE ~Tagged(kind) /\ opts.style # "encoder"
      BY <1>3, <3>3 DEF OpenWritten
    <3> QED BY <3>1, <3>2, <3>3
  <2> HIDE DEF w
  <2> QED BY <1>2, <2>1
<1>5. Separated(CloseWritten(kind, name))
  <2>1. \/ CloseWritten(kind, name) = Closed(w, "element", name)
        \/ CloseWritten(kind, name) = Closed(w, kind, name)
        \/ CloseWritten(kind, name) = written
    <3>1. CASE Tagged(kind)
      BY <3>1 DEF CloseWritten
    <3>2. CASE ~Tagged(kind) /\ opts.style = "encoder"
      BY <3>2 DEF CloseWritten
    <3>3. CASE ~Tagged(kind) /\ opts.style # "encoder"
      BY <3>3 DEF CloseWritten
    <3> QED BY <3>1, <3>2, <3>3
  <2> HIDE DEF w
  <2> QED BY <1>2, <2>1
<1> QED BY <1>4, <1>5

\* Only JSON's reader minds commas and labels.
LEMMA OthersSeparate ==
    ASSUME JsonInv, ~Json, OpenStep \/ CloseStep \/ CloseAllStep \/ ValueStep
    PROVE  Separated(written')
<1>1. /\ TypeInv /\ TypeOK /\ GoodWritten(written) /\ Separated(written)
  BY TypeFacts DEF JsonInv, OutputInv, CallerInv, Inv, TypeInv
<1>2. ASSUME NEW kind, NEW name, DoOpen(kind, name) \/ DoClose(kind, name)
      PROVE  Separated(written')
  BY <1>1, <1>2, OtherOpens DEF DoOpen, DoClose
<1>3. CASE OpenStep
  <2>1. \E kind, name : DoOpen(kind, name)
    BY <1>3 DEF OpenStep, DoOpenContainer, DoOpenList, DoOpenInstance, DoOpenLeafList
  <2> QED BY <1>2, <2>1
<1>4. CASE CloseStep
  <2>1. \E kind, name : DoClose(kind, name)
    BY <1>4, ClosesMeans DEF CloseStep
  <2> QED BY <1>2, <2>1
<1>5. CASE CloseAllStep
  <2>1. written' = written \/ \E kind, name : DoClose(kind, name)
    BY <1>5, ClosesMeans DEF CloseAllStep, CloseMarkerFrame
  <2> QED BY <1>1, <1>2, <2>1
<1>6. CASE ValueStep
  <2>1. ~NeedsTop("container")
    BY DEF NeedsTop
  <2>2. written' = written \/ \E name : written' = NameShown(written, name)
    <3>1. CASE ~Head(todo).ok
      BY <1>6, <3>1 DEF ValueStep
    <3>2. CASE Head(todo).ok
      BY <1>6, <2>1, <3>2 DEF ValueStep
    <3> QED BY <3>1, <3>2
  <2> QED BY <1>1, <2>2, ItsFaults
<1> QED BY <1>3, <1>4, <1>5, <1>6

LEMMA FinishSeparates ==
    ASSUME JsonInv, FinishStep
    PROVE  Separated(written')
<1>1. GoodWritten(written) /\ Separated(written)
  BY TypeFacts DEF JsonInv, OutputInv, CallerInv, Inv, TypeInv
<1>2. written' = written \/ written' = Closed(written, "object", NoName)
  BY DEF FinishStep
<1> QED BY <1>1, <1>2, ItsFaults

LEMMA StepTells ==
    ASSUME JsonInv, OpenStep \/ CloseStep \/ SearchStep \/ CloseAllStep \/ ValueStep
    PROVE  Tells
<1>1. CASE SearchStep
  <2>1. UNCHANGED <<stack, topEmitted, written>> /\ call # Finished
    BY <1>1, WorkFacts DEF SearchStep, Working, JsonInv
  <2> QED BY <2>1 DEF JsonInv, Tells
<1>2. CASE ~SearchStep /\ Json
  BY <1>2, OpenStepTells, CloseStepTells, CloseAllStepTells, JsonValueTells
<1>3. CASE ~SearchStep /\ ~Json
  BY <1>3, OthersSeparate DEF Tells
<1> QED BY <1>1, <1>2, <1>3

-----------------------------------------------------------------------------
(* The invariant holds at every step *)

\* The handle's flags are fixed.
LEMMA ToldThen ==
    ASSUME opts' = opts, OutputInv', Tells
    PROVE  JsonInv'
<1>1. Separated(written') /\ (Separated(written)' <=> Separated(written'))
  BY DEF Tells, Separated
<1>2. (Json' <=> Json) /\ opts'.noTop = opts.noTop
  BY DEF Json
<1>3. Json => Told(written, stack, topEmitted)'
  <2> SUFFICES ASSUME Json PROVE Told(written, stack, topEmitted)'
    OBVIOUS
  <2>1. Told(written', stack', topEmitted')
    BY DEF Tells
  <2>2. Outermost(topEmitted)' = Outermost(topEmitted')
    BY DEF Outermost
  <2> QED BY <1>2, <2>1, <2>2 DEF Told
<1> QED BY <1>1, <1>2, <1>3 DEF JsonInv

LEMMA JsonInvInit == Init => JsonInv
<1> SUFFICES ASSUME Init PROVE JsonInv
  OBVIOUS
<1>1. /\ OutputInv /\ topEmitted = FALSE /\ stack = <<Root>>
      /\ written = [open |-> <<Document>>, faults |-> {}]
  BY OutputInvInit DEF Init
<1>2. /\ Len(stack) = 1 /\ stack[1].notFirst = FALSE
      /\ Len(written.open) = 1 /\ written.open[1].some = FALSE
      /\ written.open[1].shape = "document" /\ written.faults = {}
  BY <1>1 DEF Root, NewFrame, Document
<1>3. Separated(written)
  BY <1>2 DEF Separated
<1>4. Told(written, stack, FALSE)
  <2>1. \A q \in Outermost(FALSE)..(Len(written.open) - 1) : FALSE
    BY <1>2 DEF Outermost
  <2>2. \A i \in 2..Len(stack) : FALSE
    BY <1>2
  <2> QED BY <1>2, <2>1, <2>2 DEF Told
<1> QED BY <1>1, <1>3, <1>4 DEF JsonInv

LEMMA JsonInvNext ==
    ASSUME NamesSettle, NoCloseBare
    PROVE  JsonInv /\ [Next /\ Kept]_vars => JsonInv'
<1> SUFFICES ASSUME JsonInv, [Next /\ Kept]_vars PROVE JsonInv'
  OBVIOUS
<1>1. OutputInv /\ CallerInv /\ OutputInv'
  BY OutputInvNext DEF JsonInv, OutputInv
<1>2. CASE OpenStep \/ CloseStep \/ SearchStep \/ CloseAllStep \/ ValueStep
  <2>1. opts' = opts
    BY <1>1, <1>2, OpenStepShown, CloseStepShown, SearchStepShown, CloseAllStepShown,
       ValueStepShown
  <2> QED BY <1>1, <1>2, <2>1, StepTells, ToldThen
<1>3. CASE FinishStep
  <2>1. Separated(written')
    BY <1>3, FinishSeparates
  <2>2. Separated(written)'
    BY <2>1 DEF Separated
  <2>3. call' = Finished
    BY <1>1, <1>3, FinishStepEnds
  <2> QED BY <1>1, <2>2, <2>3 DEF JsonInv
<1>4. CASE Call /\ Kept
  <2>1. CASE \E n \in MarkerNames : OpenMarker(n)
    <3>1. PICK n \in MarkerNames : OpenMarker(n)
      BY <2>1
    <3>2. opts' = opts /\ written' = written
      BY <3>1 DEF OpenMarker
    <3>3. Json => Tells
      BY <3>1, MarkerOpenTells
    <3>4. Tells
      BY <3>2, <3>3 DEF Tells, JsonInv
    <3> QED BY <1>1, <3>2, <3>4, ToldThen
  <2>2. CASE ~\E n \in MarkerNames : OpenMarker(n)
    <3>1. KeptBegun
      BY <1>1, <1>4, <2>2, CallBegun
    <3>2. call = Idle /\ UNCHANGED <<opts, stack, topEmitted, written>>
      BY <3>1 DEF KeptBegun, Begin
    <3>3. call # Finished
      BY <3>2 DEF Idle, Finished
    <3>4. Tells
      BY <3>2, <3>3 DEF Tells, JsonInv
    <3> QED BY <1>1, <3>2, <3>4, ToldThen
  <2> QED BY <2>1, <2>2
<1>5. CASE UNCHANGED vars
  <2>1. UNCHANGED <<opts, stack, topEmitted, written, call>>
    BY <1>5 DEF vars
  <2>2. Separated(written)'
    BY <2>1 DEF JsonInv, Separated
  <2>3. CASE call' = Finished
    BY <1>1, <2>2, <2>3 DEF JsonInv
  <2>4. CASE call' # Finished
    <3>1. Tells
      BY <2>1, <2>4 DEF JsonInv, Tells
    <3> QED BY <1>1, <2>1, <3>1, ToldThen
  <2> QED BY <2>3, <2>4
<1> QED BY <1>2, <1>3, <1>4, <1>5 DEF Next, Step

\* Whatever the tolerable caller leaves out, misplaces or misnames, and wherever
\* its markers and fields come, every comma of the JSON output stands between
\* two items: XSF_NOT_FIRST of the top frame, which a close hands to the frame it
\* uncovers and a marker takes and gives back, is true exactly when the innermost
\* object or array holds an item (libxo.c:5607-5616, 10345-10351).
THEOREM CommasStandBetween ==
    ASSUME NamesSettle, NoCloseBare
    PROVE  KeptSpec => []CommasSeparate
<1>1. JsonInv => CommasSeparate
  BY DEF JsonInv, Separated, CommasSeparate
<1>2. JsonInv /\ [Next /\ Kept]_vars => JsonInv'
  BY JsonInvNext
<1> QED BY <1>1, <1>2, JsonInvInit, PTL DEF KeptSpec

\* And every item has a label in an object and none in an array: xo_transition
\* opens and closes what a construct or a field needs around it before it is
\* written (libxo.c:10447-10710).
THEOREM LabelsAreFit ==
    ASSUME NamesSettle, NoCloseBare
    PROVE  KeptSpec => []LabelsFit
<1>1. JsonInv => LabelsFit
  BY DEF JsonInv, Separated, LabelsFit
<1>2. JsonInv /\ [Next /\ Kept]_vars => JsonInv'
  BY JsonInvNext
<1> QED BY <1>1, <1>2, JsonInvInit, PTL DEF KeptSpec

\* The proper caller's output is what the tolerable one's is: its document has
\* every close, comma and label in place, and is at each of its calls what the
\* stack says (xo_transition, libxo.c:10447-10710).
THEOREM ProperOutputIsRight ==
    ASSUME NamesSettle, NoCloseBare, ProperHandles
    PROVE  ProperSpec => [](OutputMatchesStack /\ ClosesMatch /\ CommasSeparate /\ LabelsFit)
<1>1. OutputInv => OutputMatchesStack /\ ClosesMatch
  BY OutputInvMatches DEF OutputInv, ShownBy, ClosesMatch
<1>2. JsonInv => CommasSeparate /\ LabelsFit
  BY DEF JsonInv, Separated, CommasSeparate, LabelsFit
<1>3. OutputInv /\ [Next /\ Kept]_vars => OutputInv'
  BY OutputInvNext
<1>4. JsonInv /\ [Next /\ Kept]_vars => JsonInv'
  BY JsonInvNext
<1>5. ProperSpec => Init /\ [][Next /\ Kept]_vars
  BY ProperIsTolerable
<1> QED BY <1>1, <1>2, <1>3, <1>4, <1>5, OutputInvInit, JsonInvInit, PTL

=============================================================================
