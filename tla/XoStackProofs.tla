---------------------------- MODULE XoStackProofs ---------------------------
(* Theorems about XoStack for every set of names, map, flags and depth:    *)
(* the types, what the frames may hold, and what may take a marker off.    *)
EXTENDS XoStack, SequenceTheorems, TLAPS

-----------------------------------------------------------------------------
(* The operators on what was written keep it a list of open constructs,     *)
(* the document always among them.                                          *)

LEMMA AboveOne == \A n \in Nat \ {0} : n = 1 \/ n > 1
OBVIOUS

LEMMA FrontType ==
    ASSUME NEW S, NEW s \in Seq(S), s # <<>>
    PROVE  /\ Front(s) \in Seq(S)
           /\ Len(Front(s)) = Len(s) - 1
           /\ \A i \in 1..(Len(s) - 1) : Front(s)[i] = s[i]
<1>1. Len(s) \in Nat /\ Len(s) - 1 \in Int
  OBVIOUS
<1>2. \A i \in 1..(Len(s) - 1) : s[i] \in S
  OBVIOUS
<1>3. /\ SubSeq(s, 1, Len(s) - 1) \in Seq(S)
      /\ Len(SubSeq(s, 1, Len(s) - 1)) = IF 1 <= Len(s) - 1 THEN Len(s) - 1 - 1 + 1 ELSE 0
      /\ \A i \in 1..(Len(s) - 1 - 1 + 1) : SubSeq(s, 1, Len(s) - 1)[i] = s[1 + i - 1]
  BY <1>1, <1>2, SubSeqProperties
<1>4. CASE Len(s) = 1
  BY <1>3, <1>4 DEF Front
<1>5. CASE Len(s) > 1
  <2>1. Len(s) - 1 - 1 + 1 = Len(s) - 1 /\ 1 <= Len(s) - 1
    BY <1>1, <1>5
  <2>2. \A i \in 1..(Len(s) - 1) : 1 + i - 1 = i
    OBVIOUS
  <2> QED BY <1>3, <2>1, <2>2 DEF Front
<1>6. Len(s) = 1 \/ Len(s) > 1
  <2>1. Len(s) # 0
    BY EmptySeq
  <2> QED BY <1>1, <2>1, AboveOne
<1> QED BY <1>4, <1>5, <1>6

GoodWritten(w) == w \in Written /\ w.open # <<>>

LEMMA FaultType ==
    ASSUME NEW w, GoodWritten(w), NEW when, NEW fault \in Faults
    PROVE  GoodWritten(Fault(w, when, fault)) /\ Fault(w, when, fault).open = w.open
BY DEF GoodWritten, Fault, Written

LEMMA ReopenedType ==
    ASSUME NEW w, GoodWritten(w), NEW open \in Seq(Construct), open # <<>>
    PROVE  GoodWritten([w EXCEPT !.open = open])
BY DEF GoodWritten, Written

LEMMA ItemType ==
    ASSUME NEW w, GoodWritten(w), NEW labelled \in BOOLEAN, NEW comma \in BOOLEAN
    PROVE  GoodWritten(Item(w, labelled, comma))
<1> DEFINE in == Innermost(w)
           wants == in.shape = "object" \/ (in.shape = "document" /\ opts.noTop)
           w1 == Fault(w, comma # in.some, "comma")
           w2 == Fault(w1, labelled /\ ~wants, "label")
           w3 == Fault(w2, ~labelled /\ wants, "bare")
<1>1. GoodWritten(w1) /\ w1.open = w.open
  BY FaultType DEF Faults
<1>2. GoodWritten(w2) /\ w2.open = w.open
  <2> HIDE DEF w1, wants
  <2> QED BY <1>1, FaultType DEF Faults
<1>3. GoodWritten(w3) /\ w3.open = w.open
  <2> HIDE DEF w2, wants
  <2> QED BY <1>2, FaultType DEF Faults
<1>4. GoodWritten([w3 EXCEPT !.open[Len(w.open)].some = TRUE])
  <2> HIDE DEF w3
  <2>1. w3 \in Written /\ w3.open \in Seq(Construct) /\ w3.open # <<>>
    BY <1>3 DEF GoodWritten, Written
  <2>2. Len(w3.open) \in 1..Len(w3.open) /\ w3.open[Len(w3.open)] \in Construct
    BY <2>1
  <2>3. [w3.open[Len(w3.open)] EXCEPT !.some = TRUE] \in Construct
    BY <2>2 DEF Construct
  <2>4. [w3.open EXCEPT ![Len(w.open)] = [@ EXCEPT !.some = TRUE]] \in Seq(Construct)
    BY <1>3, <2>1, <2>2, <2>3
  <2>5. [w3.open EXCEPT ![Len(w.open)] = [@ EXCEPT !.some = TRUE]] # <<>>
    BY <1>3, <2>1
  <2> QED BY <2>1, <2>4, <2>5 DEF GoodWritten, Written
<1> QED BY <1>4 DEF Item, Innermost

LEMMA OpenedType ==
    ASSUME NEW w, GoodWritten(w), NEW shape \in Shapes, NEW name \in AllNames \cup {NoName}
    PROVE  GoodWritten(Opened(w, shape, name))
<1> DEFINE c == [shape |-> shape, name |-> name, some |-> FALSE]
<1>1. c \in Construct
  BY DEF Construct
<1>2. Append(w.open, c) \in Seq(Construct) /\ Append(w.open, c) # <<>>
  <2> HIDE DEF c
  <2> QED BY <1>1, AppendProperties DEF GoodWritten, Written
<1>3. GoodWritten([w EXCEPT !.open = Append(w.open, c)])
  BY <1>2, ReopenedType
<1> QED BY <1>3 DEF Opened

LEMMA ClosedType ==
    ASSUME NEW w, GoodWritten(w), NEW shape, NEW name
    PROVE  GoodWritten(Closed(w, shape, name))
<1> DEFINE in == Innermost(w)
           match == Len(w.open) > 1 /\ in.shape = shape /\ in.name = name
           w1 == Fault(w, ~match, "unmatched")
<1>1. GoodWritten(w1) /\ w1.open = w.open
  BY FaultType DEF Faults
<1>2. GoodWritten([w1 EXCEPT !.open = IF Len(w.open) > 1 THEN Front(@) ELSE @])
  <2> HIDE DEF w1
  <2>1. w.open \in Seq(Construct) /\ w.open # <<>>
    BY DEF GoodWritten, Written
  <2>2. CASE Len(w.open) > 1
    <3>1. Front(w.open) \in Seq(Construct) /\ Len(Front(w.open)) = Len(w.open) - 1
      BY <2>1, FrontType
    <3>2. Front(w.open) # <<>>
      BY <3>1, <2>1, <2>2
    <3> QED BY <1>1, <2>2, <3>1, <3>2, ReopenedType
  <2>3. CASE ~(Len(w.open) > 1)
    BY <1>1, <2>1, <2>3, ReopenedType
  <2> QED BY <2>2, <2>3
<1> QED BY <1>2 DEF Closed

LEMMA NameShownType ==
    ASSUME NEW w, GoodWritten(w), NEW name
    PROVE  GoodWritten(NameShown(w, name))
BY FaultType DEF NameShown, Faults
-----------------------------------------------------------------------------
(* The operators on frames keep the stack a non-empty one; all but a push   *)
(* and a pop change nothing but the flags of its top frame.                 *)

GoodStack(s) == s \in Seq(Frame) /\ s # <<>>

\* Same constructs, perhaps other flags
SameConstructs(s, t) ==
    /\ DOMAIN s = DOMAIN t /\ Len(s) = Len(t)
    /\ \A i \in DOMAIN s : s[i].state = t[i].state /\ s[i].name = t[i].name

LEMMA StackLen ==
    ASSUME NEW s, GoodStack(s)
    PROVE  /\ Len(s) \in Nat \ {0}
           /\ DOMAIN s = 1..Len(s)
           /\ Len(s) \in DOMAIN s
           /\ \A i \in DOMAIN s : s[i] \in Frame
<1>1. Len(s) \in Nat /\ Len(s) # 0
  BY EmptySeq DEF GoodStack
<1> QED BY <1>1 DEF GoodStack

LEMMA SetTopType ==
    ASSUME NEW s, GoodStack(s), NEW f \in Frame,
           f.state = s[Len(s)].state, f.name = s[Len(s)].name
    PROVE  GoodStack(SetTop(s, f)) /\ SameConstructs(s, SetTop(s, f))
<1>1. Len(s) \in DOMAIN s /\ s \in Seq(Frame)
  BY StackLen DEF GoodStack
<1>2. SetTop(s, f) \in Seq(Frame) /\ Len(SetTop(s, f)) = Len(s)
      /\ DOMAIN SetTop(s, f) = DOMAIN s
  BY <1>1 DEF SetTop
<1>3. \A i \in DOMAIN s : SetTop(s, f)[i] = IF i = Len(s) THEN f ELSE s[i]
  BY <1>1 DEF SetTop
<1>4. SetTop(s, f) # <<>>
  BY <1>1, <1>2, StackLen, EmptySeq
<1> QED BY <1>2, <1>3, <1>4 DEF GoodStack, SameConstructs

LEMMA HasItemsType ==
    ASSUME NEW s, GoodStack(s)
    PROVE  GoodStack(HasItems(s)) /\ SameConstructs(s, HasItems(s))
<1> DEFINE f == [s[Len(s)] EXCEPT !.notFirst = TRUE]
<1>1. s[Len(s)] \in Frame
  BY StackLen
<1>2. f \in Frame /\ f.state = s[Len(s)].state /\ f.name = s[Len(s)].name
  BY <1>1 DEF Frame
<1> HIDE DEF f
<1>3. GoodStack(SetTop(s, f)) /\ SameConstructs(s, SetTop(s, f))
  BY <1>2, SetTopType
<1> QED BY <1>3 DEF HasItems, f

LEMMA PushedType ==
    ASSUME NEW s, GoodStack(s), NEW f \in Frame
    PROVE  /\ GoodStack(Append(s, f))
           /\ Len(Append(s, f)) = Len(s) + 1
           /\ \A i \in 1..Len(s) : Append(s, f)[i] = s[i]
           /\ Append(s, f)[Len(s) + 1] = f
BY AppendProperties DEF GoodStack

LEMMA PoppedType ==
    ASSUME NEW s, GoodStack(s), Len(s) # 1
    PROVE  /\ GoodStack(Front(s))
           /\ Len(Front(s)) = Len(s) - 1
           /\ \A i \in 1..(Len(s) - 1) : Front(s)[i] = s[i]
<1>1. s \in Seq(Frame) /\ s # <<>> /\ Len(s) \in Nat \ {0}
  BY StackLen DEF GoodStack
<1>2. /\ Front(s) \in Seq(Frame)
      /\ Len(Front(s)) = Len(s) - 1
      /\ \A i \in 1..(Len(s) - 1) : Front(s)[i] = s[i]
  BY <1>1, FrontType
<1>3. Front(s) # <<>>
  BY <1>1, <1>2, EmptySeq
<1> QED BY <1>2, <1>3 DEF GoodStack

-----------------------------------------------------------------------------
(* What the three functions that change the stack do to it *)

LEMMA TypeFacts ==
    ASSUME TypeOK
    PROVE  /\ GoodStack(stack) /\ Top \in Frame
           /\ GoodWritten(written) /\ opts \in OptionSet
           /\ topEmitted \in BOOLEAN /\ wrote \in BOOLEAN /\ failed \in BOOLEAN
<1>1. GoodStack(stack)
  BY DEF TypeOK, GoodStack
<1>2. Top \in Frame
  BY <1>1, StackLen DEF Top
<1> QED BY <1>1, <1>2, OptionsAssumption DEF TypeOK, GoodWritten

LEMMA DoOpenStep ==
    ASSUME TypeOK, NEW kind \in Kinds, NEW name \in AllNames, DoOpen(kind, name)
    PROVE  /\ GoodStack(stack')
           /\ Len(stack') = Len(stack) + 1
           /\ \A i \in 1..Len(stack) : /\ stack'[i].state = stack[i].state
                                       /\ stack'[i].name = stack[i].name
           /\ stack'[Len(stack')].state = kind
           /\ stack'[Len(stack')].name = NameMap[name]
           /\ GoodWritten(written')
           /\ topEmitted' \in BOOLEAN /\ wrote' \in BOOLEAN
           /\ opts' = opts
<1> DEFINE mapped == NameMap[name]
           parent == IF Json THEN HasItems(stack) ELSE stack
           f == NewFrame(kind, mapped)
<1>1. mapped \in AllNames
  BY NamesAssumption
<1> HIDE DEF mapped
<1>2. f \in Frame /\ f.state = kind /\ f.name = mapped
  BY <1>1 DEF NewFrame, Frame, States
<1>3. GoodStack(parent) /\ SameConstructs(stack, parent)
  BY TypeFacts, HasItemsType DEF SameConstructs
<1>4. stack' = Append(parent, f)
  BY DEF DoOpen, Pushed, mapped
<1> HIDE DEF parent, f
<1>5. /\ GoodStack(stack')
      /\ Len(stack') = Len(parent) + 1
      /\ \A i \in 1..Len(parent) : stack'[i] = parent[i]
      /\ stack'[Len(parent) + 1] = f
  BY <1>2, <1>3, <1>4, PushedType
<1>6. /\ Len(stack') = Len(stack) + 1
      /\ \A i \in 1..Len(stack) : stack'[i].state = stack[i].state
                                   /\ stack'[i].name = stack[i].name
      /\ stack'[Len(stack')] = f
  BY <1>3, <1>5, TypeFacts, StackLen DEF SameConstructs
<1>7. GoodWritten(written')
  <2> DEFINE w == IF NeedsTop(kind) THEN TopOpened(written) ELSE written
  <2>1. GoodWritten(w)
    BY TypeFacts, OpenedType DEF TopOpened, Shapes
  <2>2. written' = OpenWritten(kind, mapped)
    BY DEF DoOpen, mapped
  <2> HIDE DEF w
  <2>3. Top.notFirst \in BOOLEAN
    BY TypeFacts DEF Frame
  <2>4. GoodWritten(Opened(Item(w, kind # "instance", Top.notFirst), JsonShape(kind), NoName))
    <3>1. GoodWritten(Item(w, kind # "instance", Top.notFirst))
      BY <2>1, <2>3, ItemType
    <3>2. JsonShape(kind) \in Shapes
      BY DEF JsonShape, Shapes
    <3> QED BY <3>1, <3>2, OpenedType
  <2>5. GoodWritten(Opened(NameShown(w, mapped), "element", mapped))
    BY <1>1, <2>1, NameShownType, OpenedType DEF Shapes
  <2>6. GoodWritten(Opened(NameShown(w, mapped), kind, mapped))
    BY <1>1, <2>1, NameShownType, OpenedType DEF Shapes
  <2> QED BY <2>1, <2>2, <2>4, <2>5, <2>6 DEF OpenWritten, w
<1>8. topEmitted' \in BOOLEAN /\ wrote' \in BOOLEAN /\ opts' = opts
  BY TypeFacts DEF DoOpen, NeedsTop
<1> QED BY <1>2, <1>5, <1>6, <1>7, <1>8 DEF mapped

\* t is s with one more frame.
PushedTo(s, t) ==
    /\ Len(t) = Len(s) + 1
    /\ \A i \in 1..Len(s) : t[i].state = s[i].state /\ t[i].name = s[i].name

\* t is s without its top frame.
PoppedTo(s, t) ==
    /\ Len(s) > 1 /\ Len(t) = Len(s) - 1
    /\ \A i \in 1..(Len(s) - 1) : t[i].state = s[i].state /\ t[i].name = s[i].name

LEMMA DoCloseStep ==
    ASSUME TypeOK, NEW kind \in Kinds, NEW name \in AllNames \cup {NoName},
           DoClose(kind, name)
    PROVE  /\ GoodStack(stack')
           /\ SameConstructs(stack, stack') \/ PoppedTo(stack, stack')
           /\ GoodWritten(written')
           /\ topEmitted' \in BOOLEAN /\ wrote' \in BOOLEAN
           /\ opts' = opts
<1> DEFINE mapped == MappedClose(name)
           refused == PopRefused(mapped, IsList(kind))
           old == IF Json /\ IsList(kind) THEN HasItems(stack) ELSE stack
           uncovered == IF refused THEN old ELSE Front(old)
<1>1. GoodStack(stack) /\ Top \in Frame /\ GoodWritten(written)
  BY TypeFacts
<1>2. mapped \in AllNames
  <2>1. NameClosed(name) \in AllNames \cup {NoName}
    BY <1>1 DEF Frame, NameClosed
  <2>2. FailureName \in AllNames
    BY DEF AllNames
  <2> QED BY <2>1, <2>2, NamesAssumption DEF MappedClose
<1>3. GoodStack(old) /\ SameConstructs(stack, old)
  BY <1>1, HasItemsType DEF SameConstructs
<1>4. ~refused => Len(stack) # 1
  BY DEF PopRefused
<1> HIDE DEF old, refused
<1>5. GoodStack(uncovered) /\ (SameConstructs(stack, uncovered) \/ PoppedTo(stack, uncovered))
  <2>1. CASE refused
    BY <1>3, <2>1
  <2>2. CASE ~refused
    <3>1. Len(stack) = Len(old) /\ Len(old) # 1 /\ Len(stack) \in Nat \ {0}
          /\ DOMAIN stack = 1..Len(stack)
      BY <1>1, <1>3, <1>4, <2>2, StackLen DEF SameConstructs
    <3>2. /\ GoodStack(Front(old))
          /\ Len(Front(old)) = Len(old) - 1
          /\ \A i \in 1..(Len(old) - 1) : Front(old)[i] = old[i]
      BY <1>3, <3>1, PoppedType
    <3>3. \A i \in 1..(Len(stack) - 1) : i \in DOMAIN stack
      BY <3>1
    <3>4. Len(stack) > 1
      BY <3>1
    <3>5. PoppedTo(stack, Front(old))
      BY <1>3, <3>1, <3>2, <3>3, <3>4 DEF SameConstructs, PoppedTo
    <3> QED BY <2>2, <3>2, <3>5
  <2> QED BY <2>1, <2>2
<1> HIDE DEF uncovered
<1>6. stack' \in {stack, HasItems(uncovered), uncovered}
  BY DEF DoClose, uncovered, old, refused
<1>7. /\ GoodStack(stack')
      /\ SameConstructs(stack, stack') \/ PoppedTo(stack, stack')
  <2>1. CASE stack' = stack
    BY <1>1, <2>1 DEF SameConstructs
  <2>2. CASE stack' = uncovered
    BY <1>5, <2>2
  <2>3. CASE stack' = HasItems(uncovered)
    <3>1. GoodStack(stack') /\ SameConstructs(uncovered, stack')
      BY <1>5, <2>3, HasItemsType
    <3>2. /\ DOMAIN uncovered = 1..Len(uncovered) /\ Len(uncovered) \in Nat
          /\ Len(stack) \in Nat
      BY <1>1, <1>5, StackLen
    <3>3. CASE SameConstructs(stack, uncovered)
      BY <3>1, <3>3 DEF SameConstructs
    <3>4. CASE PoppedTo(stack, uncovered)
      BY <3>1, <3>2, <3>4 DEF SameConstructs, PoppedTo
    <3> QED BY <1>5, <3>1, <3>3, <3>4
  <2> QED BY <1>6, <2>1, <2>2, <2>3
<1>8. GoodWritten(written')
  <2>1. written' = CloseWritten(kind, mapped)
    BY DEF DoClose
  <2>2. GoodWritten(NameShown(written, mapped))
    BY <1>1, NameShownType
  <2> HIDE DEF mapped
  <2>3. GoodWritten(Closed(written, JsonShape(kind), NoName))
    BY <1>1, ClosedType
  <2>4. GoodWritten(Closed(NameShown(written, mapped), "element", mapped))
    BY <2>2, ClosedType
  <2>5. GoodWritten(Closed(NameShown(written, mapped), kind, mapped))
    BY <2>2, ClosedType
  <2> QED BY <1>1, <2>1, <2>3, <2>4, <2>5 DEF CloseWritten
<1>9. topEmitted' \in BOOLEAN /\ wrote' \in BOOLEAN /\ opts' = opts
  BY TypeFacts DEF DoClose
<1> QED BY <1>7, <1>8, <1>9

LEMMA CloseMarkerFrameStep ==
    ASSUME TypeOK, NEW name \in AllNames \cup {NoName}, NEW flags \in Frame,
           CloseMarkerFrame(name, flags)
    PROVE  /\ GoodStack(stack')
           /\ SameConstructs(stack, stack') \/ PoppedTo(stack, stack')
           /\ UNCHANGED <<opts, topEmitted, wrote, written>>
<1> DEFINE refused == PopRefused(name, FALSE)
           below == IF refused THEN stack ELSE Front(stack)
           top == below[Len(below)]
           f == [top EXCEPT !.notFirst = @ \/ flags.notFirst,
                            !.emit = @ \/ flags.emit,
                            !.emitKey = @ \/ flags.emitKey,
                            !.emitLeaf = @ \/ flags.emitLeaf]
<1>1. GoodStack(stack) /\ Len(stack) \in Nat \ {0}
  BY TypeFacts, StackLen
<1>2. GoodStack(below) /\ (SameConstructs(stack, below) \/ PoppedTo(stack, below))
  <2>1. CASE refused
    BY <1>1, <2>1 DEF SameConstructs
  <2>2. CASE ~refused
    <3>1. Len(stack) # 1
      BY <2>2 DEF PopRefused
    <3>2. Len(stack) > 1
      BY <1>1, <3>1, AboveOne
    <3>3. GoodStack(Front(stack)) /\ PoppedTo(stack, Front(stack))
      BY <1>1, <3>1, <3>2, PoppedType DEF PoppedTo
    <3> QED BY <2>2, <3>3
  <2> QED BY <2>1, <2>2
<1> HIDE DEF below, refused
<1>3. top \in Frame
  BY <1>2, StackLen
<1>4. f \in Frame /\ f.state = top.state /\ f.name = top.name
  <2> HIDE DEF top
  <2> QED BY <1>3 DEF Frame
<1>5. stack' = SetTop(below, f)
  BY DEF CloseMarkerFrame, FlagsGiven, below, refused
<1> HIDE DEF f
<1>6. GoodStack(stack') /\ SameConstructs(below, stack')
  BY <1>2, <1>4, <1>5, SetTopType
<1>7. SameConstructs(stack, stack') \/ PoppedTo(stack, stack')
  <2>1. DOMAIN below = 1..Len(below) /\ Len(below) \in Nat
    BY <1>2, StackLen
  <2>2. CASE SameConstructs(stack, below)
    BY <1>6, <2>2 DEF SameConstructs
  <2>3. CASE PoppedTo(stack, below)
    BY <1>1, <1>6, <2>1, <2>3 DEF SameConstructs, PoppedTo
  <2> QED BY <1>2, <2>2, <2>3
<1> QED BY <1>6, <1>7 DEF CloseMarkerFrame
LEMMA ClosesMeans ==
    ASSUME NEW kind, NEW name, Closes(kind, name)
    PROVE  kind \in Kinds /\ DoClose(kind, name)
BY DEF Closes, Kinds, DoCloseContainer, DoCloseList, DoCloseInstance, DoCloseLeafList

LEMMA OpenMeans ==
    ASSUME OpenStep
    PROVE  DoOpen(Head(todo).kind, Head(todo).name)
BY DEF OpenStep, DoOpenContainer, DoOpenList, DoOpenInstance, DoOpenLeafList

-----------------------------------------------------------------------------
(* Tasks.  xo_do_close_all walks the frames from "at" down to "limit": they *)
(* are frames of the stack as long as each turn pops no more than one.      *)

Walks(s, tasks) ==
    \A i \in DOMAIN tasks : tasks[i].op = "close_all" =>
        /\ i = 1
        /\ tasks[i].at \in 1..Len(s)
        /\ tasks[i].limit \in 1..tasks[i].at

TypeInv == TypeOK /\ Walks(stack, todo)

LEMMA TaskFields ==
    ASSUME NEW t \in Task
    PROVE  /\ t.op \in {"open", "close"} => t.kind \in Kinds
           /\ t.op = "open" => t.name \in AllNames
           /\ t.op \in {"close", "search"} => t.name \in AllNames \cup {NoName}
           /\ t.op = "search" => t.kind \in Kinds \cup {"marker"}
           /\ t.op = "close_all" => t.at \in Nat /\ t.limit \in Nat
           /\ t.op = "value" => t.role \in {"key", "value", "leaf"} /\ t.ok \in BOOLEAN
<1>1. CASE t \in [op : {"open"}, kind : Kinds, name : AllNames]
  BY <1>1
<1>2. CASE t \in [op : {"close"}, kind : Kinds, name : AllNames \cup {NoName}]
  BY <1>2
<1>3. CASE t \in [op : {"search"}, kind : Kinds \cup {"marker"}, name : AllNames \cup {NoName}]
  BY <1>3
<1>4. CASE t \in [op : {"close_all"}, at : Nat, limit : Nat]
  BY <1>4
<1>5. CASE t \in [op : {"value"}, role : {"key", "value", "leaf"}, ok : BOOLEAN]
  BY <1>5
<1>6. CASE t \in [op : {"finish"}]
  BY <1>6
<1> QED BY <1>1, <1>2, <1>3, <1>4, <1>5, <1>6 DEF Task

LEMMA TasksMade ==
    /\ \A kind \in Kinds, name \in AllNames : OpenTask(kind, name) \in Task
    /\ \A kind \in Kinds, name \in AllNames \cup {NoName} : CloseTask(kind, name) \in Task
    /\ \A kind \in Kinds \cup {"marker"}, name \in AllNames \cup {NoName} :
          SearchTask(kind, name) \in Task
    /\ \A at \in Nat, limit \in Nat : CloseAllTask(at, limit) \in Task
    /\ \A role \in {"key", "value", "leaf"}, ok \in BOOLEAN : ValueTask(role, ok) \in Task
    /\ FinishTask \in Task
BY DEF Task, OpenTask, CloseTask, SearchTask, CloseAllTask, ValueTask, FinishTask

LEMMA TodoFacts ==
    ASSUME TypeOK, todo # <<>>
    PROVE  /\ Len(todo) \in Nat \ {0} /\ DOMAIN todo = 1..Len(todo)
           /\ Head(todo) = todo[1] /\ Head(todo) \in Task
           /\ Tail(todo) \in Seq(Task)
           /\ Len(Tail(todo)) = Len(todo) - 1
           /\ DOMAIN Tail(todo) = 1..(Len(todo) - 1)
           /\ \A i \in DOMAIN Tail(todo) : i + 1 \in DOMAIN todo /\ Tail(todo)[i] = todo[i + 1]
           /\ AfterError \in Seq(Task)
           /\ \A i \in DOMAIN AfterError : AfterError[i].op = "value"
<1>1. todo \in Seq(Task)
  BY DEF TypeOK
<1>2. Len(todo) \in Nat \ {0} /\ DOMAIN todo = 1..Len(todo)
  BY <1>1, EmptySeq
<1>3. Head(todo) = todo[1] /\ Head(todo) \in Task
  BY <1>1, <1>2
<1>4. /\ Tail(todo) \in Seq(Task)
      /\ Len(Tail(todo)) = Len(todo) - 1
      /\ \A i \in 1..Len(Tail(todo)) : Tail(todo)[i] = todo[i + 1]
  BY <1>1, HeadTailProperties
<1>5. Last(todo) \in Task
  BY <1>1, <1>2 DEF Last
<1>6. /\ AfterError \in Seq(Task)
      /\ \A i \in DOMAIN AfterError : AfterError[i].op = "value"
  <2>1. CASE Last(todo).op = "value"
    <3> DEFINE v == ValueTask(Last(todo).role, FALSE)
    <3>1. Last(todo).role \in {"key", "value", "leaf"}
      BY <1>5, <2>1, TaskFields
    <3>2. v \in Task /\ v.op = "value"
      BY <3>1, TasksMade DEF ValueTask
    <3> HIDE DEF v
    <3>3. AfterError = <<v>>
      BY <2>1 DEF AfterError, v
    <3> QED BY <3>2, <3>3
  <2>2. CASE Last(todo).op # "value"
    BY <2>2 DEF AfterError
  <2> QED BY <2>1, <2>2
<1> QED BY <1>1, <1>2, <1>3, <1>4, <1>6

\* What a step leaves to do, when it is the rest of the call
LEMMA ContinueType ==
    ASSUME TypeOK, NEW tasks \in Seq(Task), Continue(tasks)
    PROVE  todo' = tasks /\ todo' \in Seq(Task) /\ call' \in Calls
BY DEF Continue, Calls, Idle, Finished, TypeOK

LEMMA RestWalks ==
    ASSUME TypeInv, todo # <<>>, NEW s, NEW tasks \in {Tail(todo), AfterError}
    PROVE  Walks(s, tasks)
<1>1. TypeOK
  BY DEF TypeInv
<1>2. ASSUME NEW i \in DOMAIN Tail(todo), Tail(todo)[i].op = "close_all" PROVE FALSE
  <2>1. i \in Nat /\ i \in 1..(Len(todo) - 1) /\ i + 1 \in DOMAIN todo /\ todo[i + 1].op = "close_all"
    BY <1>1, <1>2, TodoFacts
  <2>2. i + 1 = 1
    BY <2>1 DEF TypeInv, Walks
  <2> QED BY <2>1, <2>2
<1>3. \A i \in DOMAIN AfterError : AfterError[i].op # "close_all"
  BY <1>1, TodoFacts
<1> QED BY <1>2, <1>3 DEF Walks

LEMMA OpenStepType ==
    ASSUME TypeInv, OpenStep
    PROVE  TypeInv'
<1>1. TypeOK /\ todo # <<>> /\ Head(todo).op = "open"
  BY DEF TypeInv, OpenStep, Working
<1>2. Head(todo).kind \in Kinds /\ Head(todo).name \in AllNames
  BY <1>1, TodoFacts, TaskFields
<1>3. DoOpen(Head(todo).kind, Head(todo).name) /\ UNCHANGED failed
  BY OpenMeans DEF OpenStep
<1>4. /\ GoodStack(stack') /\ GoodWritten(written') /\ opts' = opts
      /\ topEmitted' \in BOOLEAN /\ wrote' \in BOOLEAN /\ failed' \in BOOLEAN
  BY <1>1, <1>2, <1>3, DoOpenStep, TypeFacts
<1>5. PICK tasks \in {Tail(todo), AfterError} : Continue(tasks)
  BY DEF OpenStep
<1>6. tasks \in Seq(Task)
  BY <1>1, <1>5, TodoFacts
<1>7. todo' = tasks /\ todo' \in Seq(Task) /\ call' \in Calls
  BY <1>1, <1>5, <1>6, ContinueType
<1>8. Walks(stack', todo')
  BY <1>1, <1>5, <1>7, RestWalks
<1> QED BY <1>1, <1>4, <1>7, <1>8 DEF TypeInv, TypeOK, GoodStack, GoodWritten

LEMMA CloseStepType ==
    ASSUME TypeInv, CloseStep
    PROVE  TypeInv'
<1>1. TypeOK /\ todo # <<>> /\ Head(todo).op = "close"
  BY DEF TypeInv, CloseStep, Working
<1>2. Head(todo).kind \in Kinds /\ Head(todo).name \in AllNames \cup {NoName}
  BY <1>1, TodoFacts, TaskFields
<1>3. DoClose(Head(todo).kind, Head(todo).name) /\ failed' \in BOOLEAN
  BY <1>1, ClosesMeans, TypeFacts DEF CloseStep, FailsIf
<1>4. /\ GoodStack(stack') /\ GoodWritten(written') /\ opts' = opts
      /\ topEmitted' \in BOOLEAN /\ wrote' \in BOOLEAN /\ failed' \in BOOLEAN
  BY <1>1, <1>2, <1>3, DoCloseStep
<1>5. PICK tasks \in {Tail(todo), AfterError} : Continue(tasks)
  BY DEF CloseStep
<1>6. tasks \in Seq(Task)
  BY <1>1, <1>5, TodoFacts
<1>7. todo' = tasks /\ todo' \in Seq(Task) /\ call' \in Calls
  BY <1>1, <1>5, <1>6, ContinueType
<1>8. Walks(stack', todo')
  BY <1>1, <1>5, <1>7, RestWalks
<1> QED BY <1>1, <1>4, <1>7, <1>8 DEF TypeInv, TypeOK, GoodStack, GoodWritten

\* A walk put before the rest of the call
LEMMA WalkType ==
    ASSUME TypeInv, todo # <<>>, NEW s, NEW at \in 1..Len(s), NEW limit \in 1..at,
           Len(s) \in Nat
    PROVE  /\ <<CloseAllTask(at, limit)>> \o Tail(todo) \in Seq(Task)
           /\ Walks(s, <<CloseAllTask(at, limit)>> \o Tail(todo))
<1> DEFINE w == CloseAllTask(at, limit)
           t == <<w>> \o Tail(todo)
<1>1. TypeOK
  BY DEF TypeInv
<1>2. w \in Task /\ w.op = "close_all" /\ w.at = at /\ w.limit = limit
  BY TasksMade DEF CloseAllTask
<1> HIDE DEF w
<1>3. /\ Tail(todo) \in Seq(Task) /\ Len(Tail(todo)) \in Nat
      /\ DOMAIN Tail(todo) = 1..Len(Tail(todo))
  BY <1>1, TodoFacts
<1>4. /\ t \in Seq(Task) /\ Len(t) = 1 + Len(Tail(todo)) /\ DOMAIN t = 1..Len(t) /\ t[1] = w
      /\ \A i \in 2..Len(t) : t[i] = Tail(todo)[i - 1]
  <2>1. <<w>> \in Seq(Task) /\ Len(<<w>>) = 1 /\ <<w>>[1] = w
    BY <1>2
  <2> QED BY <1>3, <2>1, ConcatProperties
<1> HIDE DEF t
<1>5. ASSUME NEW i \in DOMAIN t, t[i].op = "close_all"
      PROVE  i = 1 /\ t[i].at \in 1..Len(s) /\ t[i].limit \in 1..t[i].at
  <2>1. CASE i = 1
    BY <1>2, <1>4, <2>1
  <2>2. CASE i # 1
    <3>1. i \in 2..Len(t) /\ i - 1 \in DOMAIN Tail(todo)
      BY <1>3, <1>4, <1>5, <2>2
    <3>2. Walks(s, Tail(todo))
      BY RestWalks
    <3>3. i - 1 = 1 /\ Tail(todo)[1].op = "close_all"
      BY <1>4, <1>5, <3>1, <3>2 DEF Walks
    <3>4. 2 \in DOMAIN todo /\ todo[2].op = "close_all"
      BY <1>1, <3>1, <3>3, TodoFacts
    <3>5. 2 = 1
      BY <3>4 DEF TypeInv, Walks
    <3> QED BY <3>5
  <2> QED BY <2>1, <2>2
<1> QED BY <1>4, <1>5 DEF Walks, t, w

LEMMA SearchStepType ==
    ASSUME TypeInv, SearchStep
    PROVE  TypeInv'
<1>1. TypeOK /\ todo # <<>> /\ GoodStack(stack)
  BY TypeFacts DEF TypeInv, SearchStep, Working
<1>2. failed' \in BOOLEAN /\ UNCHANGED <<opts, stack, topEmitted, wrote, written>>
  BY <1>1, TypeFacts DEF SearchStep, FailsIf, Fails
<1>3. \/ Continue(Tail(todo))
      \/ \E i \in 2..Len(stack) : Continue(<<CloseAllTask(Len(stack), i)>> \o Tail(todo))
  BY DEF SearchStep
<1>4. CASE Continue(Tail(todo))
  <2>1. todo' = Tail(todo) /\ todo' \in Seq(Task) /\ call' \in Calls
    BY <1>1, <1>4, TodoFacts, ContinueType
  <2>2. Walks(stack', todo')
    BY <1>1, <2>1, RestWalks
  <2> QED BY <1>1, <1>2, <2>1, <2>2 DEF TypeInv, TypeOK
<1>5. CASE \E i \in 2..Len(stack) : Continue(<<CloseAllTask(Len(stack), i)>> \o Tail(todo))
  <2>1. PICK i \in 2..Len(stack) : Continue(<<CloseAllTask(Len(stack), i)>> \o Tail(todo))
    BY <1>5
  <2>2. Len(stack) \in Nat /\ Len(stack) \in 1..Len(stack) /\ i \in 1..Len(stack)
    BY <1>1, StackLen
  <2> DEFINE t == <<CloseAllTask(Len(stack), i)>> \o Tail(todo)
  <2>3. t \in Seq(Task) /\ Walks(stack, t)
    BY <1>1, <2>2, WalkType
  <2> HIDE DEF t
  <2>4. Continue(t)
    BY <2>1 DEF t
  <2>5. todo' = t /\ todo' \in Seq(Task) /\ call' \in Calls
    BY <1>1, <2>3, <2>4, ContinueType
  <2>6. Walks(stack', todo')
    BY <1>2, <2>3, <2>5
  <2> QED BY <1>1, <1>2, <2>5, <2>6 DEF TypeInv, TypeOK
<1> QED BY <1>3, <1>4, <1>5

\* The frame a walk is at
LEMMA WalkedFrame ==
    ASSUME TypeInv, Working("close_all")
    PROVE  /\ TypeOK /\ todo # <<>> /\ GoodStack(stack) /\ Len(stack) \in Nat \ {0}
           /\ Head(todo).at \in 1..Len(stack)
           /\ Head(todo).limit \in 1..Head(todo).at
           /\ stack[Head(todo).at] \in Frame
<1>1. TypeOK /\ todo # <<>> /\ Head(todo).op = "close_all"
  BY DEF TypeInv, Working
<1>2. GoodStack(stack) /\ Len(stack) \in Nat \ {0} /\ DOMAIN stack = 1..Len(stack)
  BY <1>1, TypeFacts, StackLen
<1>3. Head(todo) = todo[1] /\ 1 \in DOMAIN todo
  BY <1>1, TodoFacts
<1>4. Head(todo).at \in 1..Len(stack) /\ Head(todo).limit \in 1..Head(todo).at
  BY <1>1, <1>3 DEF TypeInv, Walks
<1> QED BY <1>1, <1>2, <1>4, StackLen

\* One turn pops one frame or none.
LEMMA CloseAllTurn ==
    ASSUME TypeInv, CloseAllStep
    PROVE  /\ GoodStack(stack') /\ GoodWritten(written') /\ opts' = opts
           /\ SameConstructs(stack, stack') \/ PoppedTo(stack, stack')
           /\ topEmitted' \in BOOLEAN /\ wrote' \in BOOLEAN /\ failed' \in BOOLEAN
<1> DEFINE frame == stack[Head(todo).at]
<1>1. TypeOK /\ frame \in Frame
  BY WalkedFrame DEF CloseAllStep
<1>2. frame.name \in AllNames \cup {NoName} /\ frame.state \in States
  BY <1>1 DEF Frame
<1>3. /\ \/ UNCHANGED <<opts, stack, topEmitted, wrote, written>>
         \/ CloseMarkerFrame(frame.name, frame)
         \/ frame.state \in Kinds /\ DoClose(frame.state, NoName)
      /\ failed' \in BOOLEAN
  BY <1>1, ClosesMeans, TypeFacts DEF CloseAllStep, FailsIf
<1> HIDE DEF frame
<1>4. CASE UNCHANGED <<opts, stack, topEmitted, wrote, written>>
  BY <1>1, <1>3, <1>4, TypeFacts DEF SameConstructs
<1>5. CASE CloseMarkerFrame(frame.name, frame)
  BY <1>1, <1>2, <1>3, <1>5, CloseMarkerFrameStep, TypeFacts
<1>6. CASE frame.state \in Kinds /\ DoClose(frame.state, NoName)
  BY <1>1, <1>3, <1>6, DoCloseStep
<1> QED BY <1>3, <1>4, <1>5, <1>6

LEMMA CloseAllStepType ==
    ASSUME TypeInv, CloseAllStep
    PROVE  TypeInv'
<1> DEFINE at == Head(todo).at
           limit == Head(todo).limit
<1>1. /\ TypeOK /\ todo # <<>> /\ GoodStack(stack) /\ Len(stack) \in Nat \ {0}
      /\ at \in 1..Len(stack) /\ limit \in 1..at
  BY WalkedFrame DEF CloseAllStep
<1>2. /\ GoodStack(stack') /\ GoodWritten(written') /\ opts' = opts
      /\ SameConstructs(stack, stack') \/ PoppedTo(stack, stack')
      /\ topEmitted' \in BOOLEAN /\ wrote' \in BOOLEAN /\ failed' \in BOOLEAN
  BY CloseAllTurn
<1>3. Continue(IF at > limit THEN <<CloseAllTask(at - 1, limit)>> \o Tail(todo)
               ELSE Tail(todo))
  BY DEF FrameBelow, CloseAllStep
<1> HIDE DEF at, limit
<1>4. CASE at > limit
  <2> DEFINE t == <<CloseAllTask(at - 1, limit)>> \o Tail(todo)
  <2>1. Len(stack') \in Nat /\ Len(stack') >= Len(stack) - 1
    BY <1>1, <1>2, StackLen DEF SameConstructs, PoppedTo
  <2>2. at - 1 \in 1..Len(stack') /\ limit \in 1..(at - 1)
    BY <1>1, <1>4, <2>1
  <2>3. t \in Seq(Task) /\ Walks(stack', t)
    BY <1>1, <2>1, <2>2, WalkType
  <2> HIDE DEF t
  <2>4. todo' = t /\ todo' \in Seq(Task) /\ call' \in Calls
    BY <1>1, <1>3, <1>4, <2>3, ContinueType DEF t
  <2> QED BY <1>1, <1>2, <2>3, <2>4 DEF TypeInv, TypeOK, GoodStack, GoodWritten
<1>5. CASE ~(at > limit)
  <2>1. todo' = Tail(todo) /\ todo' \in Seq(Task) /\ call' \in Calls
    BY <1>1, <1>3, <1>5, TodoFacts, ContinueType
  <2>2. Walks(stack', todo')
    BY <1>1, <2>1, RestWalks
  <2> QED BY <1>1, <1>2, <2>1, <2>2 DEF TypeInv, TypeOK, GoodStack, GoodWritten
<1> QED BY <1>4, <1>5

\* A field changes only the flags of the top frame.
LEMMA ValueTurn ==
    ASSUME TypeInv, ValueStep
    PROVE  /\ GoodStack(stack') /\ GoodWritten(written') /\ opts' = opts
           /\ SameConstructs(stack, stack')
           /\ topEmitted' \in BOOLEAN /\ wrote' \in BOOLEAN /\ failed' \in BOOLEAN
<1> DEFINE role == Head(todo).role
           ok == Head(todo).ok
           frame == [Top EXCEPT !.emit = @ \/ role = "value",
                                !.emitKey = @ \/ role = "key",
                                !.emitLeaf = @ \/ (role = "leaf" /\ ok),
                                !.notFirst = @ \/ (Json /\ ok)]
           w == IF ok /\ NeedsTop("container") THEN TopOpened(written) ELSE written
<1>1. TypeOK /\ todo # <<>> /\ Head(todo).op = "value"
  BY DEF TypeInv, ValueStep, Working
<1>2. ok \in BOOLEAN /\ role \in {"key", "value", "leaf"}
  BY <1>1, TodoFacts, TaskFields
<1>3. GoodStack(stack) /\ Top \in Frame /\ GoodWritten(written) /\ Top = stack[Len(stack)]
  BY <1>1, TypeFacts DEF Top
<1>4. stack' = SetTop(stack, frame)
  BY DEF ValueStep
<1>5. written' \in {written, w, Item(w, role # "leaf", Top.notFirst), NameShown(w, NameMap[Top.name])}
  BY DEF ValueStep
<1>6. topEmitted' \in BOOLEAN /\ wrote' \in BOOLEAN /\ failed' \in BOOLEAN /\ opts' = opts
  <2>1. topEmitted' = (topEmitted \/ (ok /\ NeedsTop("container")))
        /\ wrote' = (wrote \/ (Json /\ ok)) /\ UNCHANGED <<opts, failed>>
    BY DEF ValueStep
  <2> HIDE DEF ok
  <2> QED BY <1>1, <2>1, TypeFacts
<1> HIDE DEF ok, role
<1>7. frame \in Frame /\ frame.state = Top.state /\ frame.name = Top.name
  BY <1>3 DEF Frame
<1> HIDE DEF frame
<1>8. GoodStack(stack') /\ SameConstructs(stack, stack')
  BY <1>3, <1>4, <1>7, SetTopType
<1>9. GoodWritten(written')
  <2>1. GoodWritten(w)
    BY <1>3, OpenedType DEF TopOpened, Shapes
  <2> HIDE DEF w
  <2>2. Top.notFirst \in BOOLEAN
    BY <1>3 DEF Frame
  <2>3. GoodWritten(Item(w, role # "leaf", Top.notFirst))
    BY <2>1, <2>2, ItemType
  <2>4. GoodWritten(NameShown(w, NameMap[Top.name]))
    BY <2>1, NameShownType
  <2> QED BY <1>3, <1>5, <2>1, <2>3, <2>4
<1> QED BY <1>6, <1>8, <1>9

LEMMA ValueStepType ==
    ASSUME TypeInv, ValueStep
    PROVE  TypeInv'
<1>1. TypeOK /\ todo # <<>>
  BY DEF TypeInv, ValueStep, Working
<1>2. /\ GoodStack(stack') /\ GoodWritten(written') /\ opts' = opts
      /\ topEmitted' \in BOOLEAN /\ wrote' \in BOOLEAN /\ failed' \in BOOLEAN
  BY ValueTurn
<1>3. todo' = Tail(todo) /\ todo' \in Seq(Task) /\ call' \in Calls
  BY <1>1, TodoFacts, ContinueType DEF ValueStep
<1>4. Walks(stack', todo')
  BY <1>1, <1>3, RestWalks
<1> QED BY <1>1, <1>2, <1>3, <1>4 DEF TypeInv, TypeOK, GoodStack, GoodWritten

LEMMA FinishStepType ==
    ASSUME TypeInv, FinishStep
    PROVE  TypeInv'
<1>1. TypeOK /\ todo # <<>>
  BY DEF TypeInv, FinishStep, Working
<1>2. topEmitted' \in BOOLEAN /\ wrote' \in BOOLEAN /\ UNCHANGED <<opts, stack, failed>>
  BY <1>1, TypeFacts DEF FinishStep
<1>3. GoodWritten(written')
  <2>1. GoodWritten(written)
    BY <1>1, TypeFacts
  <2>2. written' \in {written, Closed(written, "object", NoName)}
    BY DEF FinishStep
  <2> QED BY <2>1, <2>2, ClosedType
<1>4. todo' = Tail(todo) /\ todo' \in Seq(Task) /\ call' \in Calls
  BY <1>1, TodoFacts, ContinueType DEF FinishStep
<1>5. Walks(stack', todo')
  BY <1>1, <1>4, RestWalks
<1> QED BY <1>1, <1>2, <1>3, <1>4, <1>5 DEF TypeInv, TypeOK, GoodWritten

LEMMA StepType ==
    ASSUME TypeInv, Step
    PROVE  TypeInv'
BY OpenStepType, CloseStepType, SearchStepType, CloseAllStepType, ValueStepType,
   FinishStepType DEF Step

-----------------------------------------------------------------------------
(* Calls: every one but OpenMarker only plans what to do.                   *)

\* The construct a call opens fits the frame the call found there.
Fits(t) ==
    t.op = "open" => ~IsList(Real.state) \/ (Real.state = "list" /\ t.kind = "instance")

\* u may come second: it is no open, or the first task makes room for it.
Follows(t, u) ==
    u.op = "open" =>
        \/ t.op = "open" /\ t.kind = "list" /\ u.kind = "instance"
        \/ /\ t.op = "close" /\ t.name = NoName /\ ~OnMarker
           /\ \/ IsList(t.kind) /\ IsList(Real.state)
              \/ t.kind = "instance" /\ u.kind = "instance" /\ Real.state = "instance"

Plain == {t \in Task : t.op # "close_all"}

Plan(tasks) ==
    \/ tasks = <<>>
    \/ \E t \in Plain : Fits(t) /\ tasks = <<t>>
    \/ \E t \in Plain, u \in Plain : Fits(t) /\ Follows(t, u) /\ tasks = <<t, u>>
    \/ \E t \in Plain, u \in Plain, v \in Plain :
          Fits(t) /\ Follows(t, u) /\ v.op = "value" /\ tasks = <<t, u, v>>
    \/ tasks = <<CloseAllTask(Len(stack), 1), FinishTask>>

Starts(tasks) ==
    \E api \in Apis, name \in AllNames \cup {NoName} :
        Begin(api, name, tasks) /\ failed' \in BOOLEAN

\* What every call but OpenMarker does
Begun == \E tasks : Starts(tasks) /\ Plan(tasks)

LEMMA PlanType ==
    ASSUME TypeOK, NEW tasks, Plan(tasks)
    PROVE  tasks \in Seq(Task) /\ Walks(stack, tasks)
<1>1. CASE tasks = <<>>
  BY <1>1 DEF Walks
<1>2. ASSUME NEW t \in Plain, tasks = <<t>> PROVE tasks \in Seq(Task) /\ Walks(stack, tasks)
  BY <1>2 DEF Walks, Plain
<1>3. ASSUME NEW t \in Plain, NEW u \in Plain, tasks = <<t, u>>
      PROVE  tasks \in Seq(Task) /\ Walks(stack, tasks)
  BY <1>3 DEF Walks, Plain
<1>4. ASSUME NEW t \in Plain, NEW u \in Plain, NEW v \in Plain, tasks = <<t, u, v>>
      PROVE  tasks \in Seq(Task) /\ Walks(stack, tasks)
  BY <1>4 DEF Walks, Plain
<1>5. CASE tasks = <<CloseAllTask(Len(stack), 1), FinishTask>>
  <2>1. Len(stack) \in Nat \ {0} /\ Len(stack) \in 1..Len(stack) /\ 1 \in 1..Len(stack)
    BY TypeFacts, StackLen
  <2> DEFINE w == CloseAllTask(Len(stack), 1)
  <2>2. w \in Task /\ w.at = Len(stack) /\ w.limit = 1
    BY <2>1, TasksMade DEF CloseAllTask
  <2>3. FinishTask \in Task /\ FinishTask.op # "close_all"
    BY TasksMade DEF FinishTask
  <2> HIDE DEF w
  <2>4. tasks = <<w, FinishTask>>
    BY <1>5 DEF w
  <2>5. tasks \in Seq(Task)
    BY <2>2, <2>3, <2>4
  <2>6. ASSUME NEW i \in DOMAIN tasks, tasks[i].op = "close_all"
        PROVE  i = 1 /\ tasks[i] = w
    <3>1. i \in 1..2 /\ tasks[1] = w /\ tasks[2] = FinishTask
      BY <2>4, <2>6
    <3>2. i # 2
      BY <3>1, <2>3, <2>6
    <3> QED BY <3>1, <3>2
  <2>7. Walks(stack, tasks)
    BY <2>1, <2>2, <2>6 DEF Walks
  <2> QED BY <2>5, <2>7
<1> QED BY <1>1, <1>2, <1>3, <1>4, <1>5 DEF Plan

LEMMA BeginType ==
    ASSUME TypeInv, Begun
    PROVE  TypeInv'
<1>1. PICK tasks : Starts(tasks) /\ Plan(tasks)
  BY DEF Begun
<1>2. tasks \in Seq(Task) /\ Walks(stack, tasks)
  BY <1>1, PlanType DEF TypeInv
<1>3. PICK api \in Apis, name \in AllNames \cup {NoName} :
        Begin(api, name, tasks) /\ failed' \in BOOLEAN
  BY <1>1 DEF Starts
<1>4. todo' = tasks /\ UNCHANGED <<opts, stack, topEmitted, wrote, written>>
  BY <1>3 DEF Begin
<1>5. call' \in Calls
  BY <1>3 DEF Begin, Calls, Idle
<1>6. Walks(stack', todo')
  BY <1>2, <1>4
<1> QED BY <1>2, <1>3, <1>4, <1>5, <1>6 DEF TypeInv, TypeOK

\* The tasks the calls are made of
LEMMA PlainTasks ==
    ASSUME NEW name \in AllNames \cup {NoName}
    PROVE  /\ \A kind \in Kinds :
                 /\ name # NoName => OpenTask(kind, name) \in Plain
                 /\ OpenTask(kind, name).op = "open" /\ OpenTask(kind, name).kind = kind
                 /\ CloseTask(kind, name) \in Plain
                 /\ CloseTask(kind, name).op = "close" /\ CloseTask(kind, name).kind = kind
                 /\ CloseTask(kind, name).name = name
           /\ \A kind \in Kinds \cup {"marker"} :
                 SearchTask(kind, name) \in Plain /\ SearchTask(kind, name).op = "search"
           /\ \A role \in {"key", "value", "leaf"}, ok \in BOOLEAN :
                 ValueTask(role, ok) \in Plain /\ ValueTask(role, ok).op = "value"
           /\ FinishTask \in Plain /\ FinishTask.op = "finish"
BY DEF Plain, Task, OpenTask, CloseTask, SearchTask, ValueTask, FinishTask

LEMMA Started ==
    ASSUME TypeOK, NEW api \in Apis, NEW name \in AllNames \cup {NoName}, NEW tasks,
           Does(api, name, tasks) \/ Complains(api, name, tasks), Plan(tasks)
    PROVE  Begun
<1>1. Begin(api, name, tasks) /\ failed' \in BOOLEAN
  BY TypeFacts DEF Does, Complains, Fails
<1> QED BY <1>1 DEF Begun, Starts

LEMMA NothingPlanned ==
    Plan(<<>>)
BY DEF Plan

LEMMA OnePlanned ==
    ASSUME NEW t \in Plain, Fits(t)
    PROVE  Plan(<<t>>)
BY DEF Plan

LEMMA TwoPlanned ==
    ASSUME NEW t \in Plain, Fits(t), NEW u \in Plain, Follows(t, u)
    PROVE  Plan(<<t, u>>)
BY DEF Plan

LEMMA ThreePlanned ==
    ASSUME NEW t \in Plain, Fits(t), NEW u \in Plain, Follows(t, u),
           NEW v \in Plain, v.op = "value"
    PROVE  Plan(<<t, u, v>>)
BY DEF Plan

LEMMA NameFacts ==
    /\ Names \subseteq AllNames /\ MarkerNames \subseteq AllNames
    /\ FakeTopName \in AllNames /\ NoName \notin AllNames
BY NamesAssumption DEF AllNames

LEMMA OpenContainerPlans ==
    ASSUME TypeOK, NEW n \in Names, OpenContainer(n)
    PROVE  Begun
<1> DEFINE open == OpenTask("container", n)
           close == CloseTask("leaf_list", NoName)
<1>1. open \in Plain /\ close \in Plain /\ open.op = "open" /\ open.kind = "container"
      /\ close.op = "close" /\ close.name = NoName /\ close.kind = "leaf_list"
  BY PlainTasks, NameFacts DEF Kinds
<1>2. n \in AllNames \cup {NoName} /\ "open_container" \in Apis
  BY NameFacts DEF Apis
<1> HIDE DEF open, close
<1>3. CASE Real.state \in {"init", "container", "instance"}
           /\ Does("open_container", n, <<open>>)
  <2>1. Fits(open)
    BY <1>1, <1>3 DEF Fits, IsList
  <2> QED BY <1>1, <1>2, <1>3, <2>1, OnePlanned, Started
<1>4. CASE Complains("open_container", n, <<>>)
  BY <1>2, <1>4, NothingPlanned, Started
<1>5. CASE IsList(Real.state) /\ ~OnMarker /\ Does("open_container", n, <<close, open>>)
  <2>1. Fits(close) /\ Follows(close, open)
    BY <1>1, <1>5 DEF Fits, Follows, IsList
  <2> QED BY <1>1, <1>2, <1>5, <2>1, TwoPlanned, Started
<1> QED BY <1>3, <1>4, <1>5 DEF OpenContainer, PreventedByMarker, open, close

LEMMA OpenListPlans ==
    ASSUME TypeOK, NEW n \in Names, OpenList(n)
    PROVE  Begun
<1> DEFINE open == OpenTask("list", n)
           close == CloseTask(Real.state, NoName)
<1>1. open \in Plain /\ open.op = "open" /\ open.kind = "list"
  BY PlainTasks, NameFacts DEF Kinds
<1>2. n \in AllNames \cup {NoName} /\ "open_list" \in Apis
  BY NameFacts DEF Apis
<1>3. IsList(Real.state) =>
        close \in Plain /\ close.op = "close" /\ close.name = NoName /\ IsList(close.kind)
  BY PlainTasks DEF Kinds, IsList
<1> HIDE DEF open, close
<1>4. CASE Real.state \in {"init", "container", "instance"}
           /\ Does("open_list", n, <<open>>)
  <2>1. Fits(open)
    BY <1>1, <1>4 DEF Fits, IsList
  <2> QED BY <1>1, <1>2, <1>4, <2>1, OnePlanned, Started
<1>5. CASE Complains("open_list", n, <<>>)
  BY <1>2, <1>5, NothingPlanned, Started
<1>6. CASE IsList(Real.state) /\ ~OnMarker /\ Does("open_list", n, <<close, open>>)
  <2>1. Fits(close) /\ Follows(close, open)
    BY <1>1, <1>3, <1>6 DEF Fits, Follows
  <2> QED BY <1>1, <1>2, <1>3, <1>6, <2>1, TwoPlanned, Started
<1> QED BY <1>4, <1>5, <1>6 DEF OpenList, PreventedByMarker, open, close

LEMMA OpenInstancePlans ==
    ASSUME TypeOK, NEW n \in Names, OpenInstance(n)
    PROVE  Begun
<1> DEFINE open == OpenTask("instance", n)
           list == OpenTask("list", n)
           close == CloseTask("instance", NoName)
           leaf == CloseTask("leaf_list", NoName)
<1>1. /\ open \in Plain /\ open.op = "open" /\ open.kind = "instance"
      /\ list \in Plain /\ list.op = "open" /\ list.kind = "list"
      /\ close \in Plain /\ close.op = "close" /\ close.name = NoName
      /\ close.kind = "instance"
      /\ leaf \in Plain /\ leaf.op = "close" /\ leaf.name = NoName
      /\ leaf.kind = "leaf_list"
  BY PlainTasks, NameFacts DEF Kinds
<1>2. n \in AllNames \cup {NoName} /\ "open_instance" \in Apis
  BY NameFacts DEF Apis
<1> HIDE DEF open, list, close, leaf
<1>3. CASE Real.state = "list" /\ Does("open_instance", n, <<open>>)
  <2>1. Fits(open)
    BY <1>1, <1>3 DEF Fits
  <2> QED BY <1>1, <1>2, <1>3, <2>1, OnePlanned, Started
<1>4. CASE Real.state \in {"init", "container", "instance"}
           /\ Does("open_instance", n, <<list, open>>)
  <2>1. Fits(list) /\ Follows(list, open)
    BY <1>1, <1>4 DEF Fits, Follows, IsList
  <2> QED BY <1>1, <1>2, <1>4, <2>1, TwoPlanned, Started
<1>5. CASE Real.state = "instance" /\ ~OnMarker
           /\ Does("open_instance", n, <<close, open>>)
  <2>1. Fits(close) /\ Follows(close, open)
    BY <1>1, <1>5 DEF Fits, Follows
  <2> QED BY <1>1, <1>2, <1>5, <2>1, TwoPlanned, Started
<1>6. CASE Complains("open_instance", n, <<>>)
  BY <1>2, <1>6, NothingPlanned, Started
<1>7. CASE Real.state = "leaf_list" /\ ~OnMarker
           /\ Does("open_instance", n, <<leaf, open>>)
  <2>1. Fits(leaf) /\ Follows(leaf, open)
    BY <1>1, <1>7 DEF Fits, Follows, IsList
  <2> QED BY <1>1, <1>2, <1>7, <2>1, TwoPlanned, Started
<1> QED BY <1>3, <1>4, <1>5, <1>6, <1>7
        DEF OpenInstance, PreventedByMarker, open, list, close, leaf

LEMMA OpenLeafListPlans ==
    ASSUME TypeOK, NEW n \in Names, OpenLeafList(n)
    PROVE  Begun
<1> DEFINE open == OpenTask("leaf_list", n)
           close == CloseTask("list", NoName)
<1>1. open \in Plain /\ close \in Plain /\ open.op = "open" /\ open.kind = "leaf_list"
      /\ close.op = "close" /\ close.name = NoName /\ close.kind = "list"
  BY PlainTasks, NameFacts DEF Kinds
<1>2. n \in AllNames \cup {NoName} /\ "open_leaf_list" \in Apis
  BY NameFacts DEF Apis
<1> HIDE DEF open, close
<1>3. CASE Real.state \in {"init", "container", "instance"}
           /\ Does("open_leaf_list", n, <<open>>)
  <2>1. Fits(open)
    BY <1>1, <1>3 DEF Fits, IsList
  <2> QED BY <1>1, <1>2, <1>3, <2>1, OnePlanned, Started
<1>4. CASE Complains("open_leaf_list", n, <<>>)
  BY <1>2, <1>4, NothingPlanned, Started
<1>5. CASE IsList(Real.state) /\ ~OnMarker /\ Does("open_leaf_list", n, <<close, open>>)
  <2>1. Fits(close) /\ Follows(close, open)
    BY <1>1, <1>5 DEF Fits, Follows, IsList
  <2> QED BY <1>1, <1>2, <1>5, <2>1, TwoPlanned, Started
<1> QED BY <1>3, <1>4, <1>5 DEF OpenLeafList, PreventedByMarker, open, close

LEMMA CloseContainerPlans ==
    ASSUME TypeOK, NEW n \in Names \cup {NoName}, CloseContainer(n)
    PROVE  Begun
<1> DEFINE close == CloseTask("container", n)
           leaf == CloseTask("leaf_list", NoName)
           search == SearchTask("container", n)
<1>1. /\ close \in Plain /\ close.op = "close"
      /\ leaf \in Plain /\ leaf.op = "close"
      /\ search \in Plain /\ search.op = "search"
  BY PlainTasks, NameFacts DEF Kinds
<1>2. n \in AllNames \cup {NoName} /\ "close_container" \in Apis
  BY NameFacts DEF Apis
<1> HIDE DEF close, leaf, search
<1>3. Fits(close) /\ Fits(search) /\ Fits(leaf) /\ Follows(leaf, search)
  BY <1>1 DEF Fits, Follows
<1>4. Plan(<<>>) /\ Plan(<<close>>) /\ Plan(<<search>>) /\ Plan(<<leaf, search>>)
  BY <1>1, <1>3, NothingPlanned, OnePlanned, TwoPlanned
<1>5. \E tasks \in {<<>>, <<close>>, <<search>>, <<leaf, search>>} :
        Does("close_container", n, tasks) \/ Complains("close_container", n, tasks)
  BY DEF CloseContainer, PreventedByMarker, close, leaf, search
<1> QED BY <1>2, <1>4, <1>5, Started

LEMMA CloseListPlans ==
    ASSUME TypeOK, NEW n \in Names \cup {NoName}, CloseList(n)
    PROVE  Begun
<1> DEFINE close == CloseTask("list", n)
           leaf == CloseTask("leaf_list", NoName)
           search == SearchTask("list", n)
<1>1. /\ close \in Plain /\ close.op = "close"
      /\ leaf \in Plain /\ leaf.op = "close"
      /\ search \in Plain /\ search.op = "search"
  BY PlainTasks, NameFacts DEF Kinds
<1>2. n \in AllNames \cup {NoName} /\ "close_list" \in Apis
  BY NameFacts DEF Apis
<1> HIDE DEF close, leaf, search
<1>3. Fits(close) /\ Fits(search) /\ Fits(leaf) /\ Follows(leaf, search)
  BY <1>1 DEF Fits, Follows
<1>4. Plan(<<>>) /\ Plan(<<close>>) /\ Plan(<<search>>) /\ Plan(<<leaf, search>>)
  BY <1>1, <1>3, NothingPlanned, OnePlanned, TwoPlanned
<1>5. \E tasks \in {<<>>, <<close>>, <<search>>, <<leaf, search>>} :
        Does("close_list", n, tasks) \/ Complains("close_list", n, tasks)
  BY DEF CloseList, PreventedByMarker, close, leaf, search
<1> QED BY <1>2, <1>4, <1>5, Started

LEMMA CloseInstancePlans ==
    ASSUME TypeOK, NEW n \in Names \cup {NoName}, CloseInstance(n)
    PROVE  Begun
<1> DEFINE close == CloseTask("instance", n)
           leaf == CloseTask("leaf_list", NoName)
           search == SearchTask("instance", n)
<1>1. /\ close \in Plain /\ close.op = "close"
      /\ leaf \in Plain /\ leaf.op = "close"
      /\ search \in Plain /\ search.op = "search"
  BY PlainTasks, NameFacts DEF Kinds
<1>2. n \in AllNames \cup {NoName} /\ "close_instance" \in Apis
  BY NameFacts DEF Apis
<1> HIDE DEF close, leaf, search
<1>3. Fits(close) /\ Fits(search) /\ Fits(leaf) /\ Follows(leaf, search)
  BY <1>1 DEF Fits, Follows
<1>4. Plan(<<>>) /\ Plan(<<close>>) /\ Plan(<<search>>) /\ Plan(<<leaf, search>>)
  BY <1>1, <1>3, NothingPlanned, OnePlanned, TwoPlanned
<1>5. \E tasks \in {<<>>, <<close>>, <<search>>, <<leaf, search>>} :
        Does("close_instance", n, tasks) \/ Complains("close_instance", n, tasks)
  BY DEF CloseInstance, PreventedByMarker, close, leaf, search
<1> QED BY <1>2, <1>4, <1>5, Started

LEMMA CloseLeafListPlans ==
    ASSUME TypeOK, NEW n \in Names \cup {NoName}, CloseLeafList(n)
    PROVE  Begun
<1> DEFINE close == CloseTask("leaf_list", n)
           leaf == CloseTask("leaf_list", NoName)
           search == SearchTask("leaf_list", n)
<1>1. /\ close \in Plain /\ close.op = "close"
      /\ leaf \in Plain /\ leaf.op = "close"
      /\ search \in Plain /\ search.op = "search"
  BY PlainTasks, NameFacts DEF Kinds
<1>2. n \in AllNames \cup {NoName} /\ "close_leaf_list" \in Apis
  BY NameFacts DEF Apis
<1> HIDE DEF close, leaf, search
<1>3. Fits(close) /\ Fits(search) /\ Fits(leaf) /\ Follows(leaf, search)
  BY <1>1 DEF Fits, Follows
<1>4. Plan(<<>>) /\ Plan(<<close>>) /\ Plan(<<search>>) /\ Plan(<<leaf, search>>)
  BY <1>1, <1>3, NothingPlanned, OnePlanned, TwoPlanned
<1>5. \E tasks \in {<<>>, <<close>>, <<search>>, <<leaf, search>>} :
        Does("close_leaf_list", n, tasks) \/ Complains("close_leaf_list", n, tasks)
  BY DEF CloseLeafList, PreventedByMarker, close, leaf, search
<1> QED BY <1>2, <1>4, <1>5, Started

LEMMA CloseMarkerPlans ==
    ASSUME TypeOK, NEW n \in MarkerNames \cup {NoName}, CloseMarker(n)
    PROVE  Begun
<1> DEFINE search == SearchTask("marker", n)
<1>1. search \in Plain /\ search.op = "search"
  BY PlainTasks, NameFacts
<1>2. n \in AllNames \cup {NoName} /\ "close_marker" \in Apis
  BY NameFacts DEF Apis
<1> HIDE DEF search
<1>3. Plan(<<search>>)
  BY <1>1, OnePlanned DEF Fits
<1>4. Does("close_marker", n, <<search>>)
  BY DEF CloseMarker, search
<1> QED BY <1>2, <1>3, <1>4, Started

LEMMA FinishPlans ==
    ASSUME TypeOK, Finish
    PROVE  Begun
<1>1. Does("finish", NoName, <<FinishTask>>)
      \/ Does("finish", NoName, <<CloseAllTask(Len(stack), 1), FinishTask>>)
  BY DEF Finish
<1>2. Plan(<<FinishTask>>)
  BY PlainTasks, OnePlanned DEF Fits
<1>3. Plan(<<CloseAllTask(Len(stack), 1), FinishTask>>)
  BY DEF Plan
<1> QED BY <1>1, <1>2, <1>3, Started DEF Apis

LEMMA EmitPlans ==
    ASSUME TypeOK, NEW role \in {"key", "value"}, Emit(role)
    PROVE  Begun
<1> DEFINE open == OpenTask("container", FakeTopName)
           leaf == CloseTask("leaf_list", NoName)
           search == SearchTask("list", NoName)
           value == ValueTask(role, TRUE)
           none == ValueTask(role, FALSE)
           late == ValueTask("value", TRUE)
           Calls1(tasks) == Does("emit", NoName, tasks) \/ Complains("emit", NoName, tasks)
<1>1. /\ open \in Plain /\ open.op = "open"
      /\ leaf \in Plain /\ leaf.op = "close"
      /\ search \in Plain /\ search.op = "search"
      /\ value \in Plain /\ value.op = "value"
      /\ none \in Plain /\ none.op = "value"
      /\ late \in Plain /\ late.op = "value"
  <2>1. /\ open \in Plain /\ open.op = "open"
        /\ leaf \in Plain /\ leaf.op = "close"
        /\ search \in Plain /\ search.op = "search"
    BY PlainTasks, NameFacts DEF Kinds
  <2>2. \A r \in {"key", "value"}, ok \in BOOLEAN :
          ValueTask(r, ok) \in Plain /\ ValueTask(r, ok).op = "value"
    BY PlainTasks
  <2> HIDE DEF open, leaf, search
  <2> QED BY <2>1, <2>2
<1>2. "emit" \in Apis
  BY DEF Apis
<1> HIDE DEF open, leaf, search, value, none, late
<1>3. \/ \E tasks \in {<<value>>, <<none>>, <<late>>, <<search, value>>, <<leaf, value>>} :
            Calls1(tasks)
      \/ Real.state = "init" /\ Calls1(<<open, value>>)
  <2>1. CASE role = "key" /\ Top.emit
    <3>1. Begin("emit", NoName, <<late>>) /\ Fails
      BY <2>1 DEF Emit, FailsIf, Fails, late
    <3> QED BY <3>1 DEF Complains
  <2>2. CASE ~(role = "key" /\ Top.emit)
    <3>1. CASE Begin("emit", NoName, <<value>>) /\ failed' = (failed \/ FALSE)
      <4>1. failed' = failed
        BY <3>1, TypeFacts
      <4> QED BY <3>1, <4>1 DEF Does
    <3>2. CASE ~(Begin("emit", NoName, <<value>>) /\ failed' = (failed \/ FALSE))
      BY <2>2, <3>2 DEF Emit, FailsIf, open, leaf, search, value, none
    <3> QED BY <3>1, <3>2
  <2> QED BY <2>1, <2>2
<1>4. /\ Plan(<<value>>) /\ Plan(<<none>>) /\ Plan(<<late>>)
      /\ Plan(<<search, value>>) /\ Plan(<<leaf, value>>)
  BY <1>1, OnePlanned, TwoPlanned DEF Fits, Follows
<1>5. Real.state = "init" => Plan(<<open, value>>)
  BY <1>1, TwoPlanned DEF Fits, Follows, IsList
<1> QED BY <1>2, <1>3, <1>4, <1>5, Started

LEMMA EmitLeafListPlans ==
    ASSUME TypeOK, NEW n \in Names, EmitLeafList(n)
    PROVE  Begun
<1> DEFINE open == OpenTask("leaf_list", n)
           leaf == CloseTask("leaf_list", NoName)
           value == ValueTask("leaf", TRUE)
           none == ValueTask("leaf", FALSE)
           Calls1(tasks) == \/ Does("emit_leaf_list", n, tasks)
                            \/ Complains("emit_leaf_list", n, tasks)
<1>1. /\ open \in Plain /\ open.op = "open"
      /\ leaf \in Plain /\ leaf.op = "close" /\ leaf.name = NoName /\ leaf.kind = "leaf_list"
      /\ value \in Plain /\ value.op = "value"
      /\ none \in Plain /\ none.op = "value"
  <2>1. /\ open \in Plain /\ open.op = "open"
        /\ leaf \in Plain /\ leaf.op = "close" /\ leaf.name = NoName /\ leaf.kind = "leaf_list"
    BY PlainTasks, NameFacts DEF Kinds
  <2>2. \A ok \in BOOLEAN : ValueTask("leaf", ok) \in Plain /\ ValueTask("leaf", ok).op = "value"
    BY PlainTasks
  <2> HIDE DEF open, leaf
  <2> QED BY <2>1, <2>2
<1>2. n \in AllNames \cup {NoName} /\ "emit_leaf_list" \in Apis
  BY NameFacts DEF Apis
<1> HIDE DEF open, leaf, value, none
<1>3. \/ Calls1(<<value>>) \/ Calls1(<<none>>)
      \/ Real.state \in {"init", "container", "instance"} /\ Calls1(<<open, value>>)
      \/ Real.state = "leaf_list" /\ ~OnMarker /\ Calls1(<<leaf, open, value>>)
  BY DEF EmitLeafList, open, leaf, value, none
<1>4. Plan(<<value>>) /\ Plan(<<none>>)
  BY <1>1, OnePlanned DEF Fits
<1>5. Real.state \in {"init", "container", "instance"} => Plan(<<open, value>>)
  BY <1>1, TwoPlanned DEF Fits, Follows, IsList
<1>6. Real.state = "leaf_list" /\ ~OnMarker => Plan(<<leaf, open, value>>)
  BY <1>1, ThreePlanned DEF Fits, Follows, IsList
<1> QED BY <1>2, <1>3, <1>4, <1>5, <1>6, Started

LEMMA CallPlans ==
    ASSUME TypeOK, Call
    PROVE  Begun \/ \E n \in MarkerNames : OpenMarker(n)
BY OpenContainerPlans, OpenListPlans, OpenInstancePlans, OpenLeafListPlans,
   CloseContainerPlans, CloseListPlans, CloseInstancePlans, CloseLeafListPlans,
   CloseMarkerPlans, FinishPlans, EmitPlans, EmitLeafListPlans, RolesAssumption
   DEF Call

LEMMA OpenMarkerTurn ==
    ASSUME TypeOK, NEW n \in MarkerNames, OpenMarker(n)
    PROVE  /\ GoodStack(stack') /\ PushedTo(stack, stack')
           /\ stack'[Len(stack')].state = "marker"
<1> DEFINE f == [Top EXCEPT !.state = "marker", !.name = n]
<1>1. GoodStack(stack) /\ Top \in Frame
  BY TypeFacts
<1>2. f \in Frame /\ f.state = "marker"
  BY <1>1, NameFacts DEF Frame, States
<1>3. stack' = Append(stack, f)
  BY DEF OpenMarker
<1> HIDE DEF f
<1> QED BY <1>1, <1>2, <1>3, PushedType DEF PushedTo

LEMMA OpenMarkerType ==
    ASSUME TypeInv, NEW n \in MarkerNames, OpenMarker(n)
    PROVE  TypeInv'
<1>1. TypeOK /\ UNCHANGED <<opts, topEmitted, wrote, written, failed, call, todo>>
  BY DEF TypeInv, OpenMarker
<1>2. GoodStack(stack') /\ Len(stack') = Len(stack) + 1 /\ Len(stack) \in Nat
  BY <1>1, OpenMarkerTurn, TypeFacts, StackLen DEF PushedTo
<1>3. Walks(stack', todo')
  BY <1>1, <1>2 DEF TypeInv, Walks
<1> QED BY <1>1, <1>2, <1>3 DEF TypeInv, TypeOK, GoodStack

LEMMA TypeInvInit == Init => TypeInv
<1> SUFFICES ASSUME Init PROVE TypeInv
  OBVIOUS
<1>1. stack \in Seq(Frame) /\ stack # <<>>
  BY DEF Init, Root, NewFrame, Frame, States
<1>2. written \in Written /\ written.open # <<>>
  BY DEF Init, Written, Document, Construct, Shapes
<1>3. call \in Calls /\ todo \in Seq(Task) /\ Walks(stack, todo)
  BY DEF Init, Calls, Idle, Walks
<1> QED BY <1>1, <1>2, <1>3 DEF Init, TypeInv, TypeOK

LEMMA TypeInvNext == TypeInv /\ [Next]_vars => TypeInv'
<1> SUFFICES ASSUME TypeInv, [Next]_vars PROVE TypeInv'
  OBVIOUS
<1>1. CASE Call
  BY <1>1, CallPlans, BeginType, OpenMarkerType DEF TypeInv
<1>2. CASE Step
  BY <1>2, StepType
<1>3. CASE UNCHANGED vars
  BY <1>3 DEF vars, TypeInv, TypeOK, Walks
<1> QED BY <1>1, <1>2, <1>3 DEF Next

\* The variables keep their types and the stack its root: no step pops it,
\* and a walk of xo_do_close_all never looks at a frame that is gone.
THEOREM Types == Spec => []TypeOK
<1>1. TypeInv => TypeOK
  BY DEF TypeInv
<1> QED BY <1>1, TypeInvInit, TypeInvNext, PTL DEF Spec

-----------------------------------------------------------------------------
(* The inductive invariant.  A frame's kind is right where it is pushed     *)
(* because of what was on top when the call began, so the invariant speaks  *)
(* of the work still to do, not of the stack alone.                         *)

\* A construct of this kind may be opened on top of s.
MayHold(s, kind) ==
    \A i \in DOMAIN s :
        Holds(s, i, Len(s) + 1) /\ IsList(s[i].state) =>
            s[i].state = "list" /\ kind = "instance"

\* Opens come first, or after the one close that makes room for them.
Planned(s, tasks) ==
    /\ \A i \in DOMAIN tasks : tasks[i].op = "open" => i \in {1, 2}
    /\ 1 \in DOMAIN tasks /\ tasks[1].op = "open" => MayHold(s, tasks[1].kind)
    /\ 2 \in DOMAIN tasks /\ tasks[2].op = "open" =>
          \/ /\ tasks[1].op = "open"
             /\ tasks[1].kind = "list" /\ tasks[2].kind = "instance"
          \/ /\ tasks[1].op = "close" /\ tasks[1].name = NoName
             /\ \/ IsList(tasks[1].kind) /\ IsList(s[Len(s)].state)
                \/ /\ tasks[1].kind = "instance" /\ tasks[2].kind = "instance"
                   /\ s[Len(s)].state = "instance"

\* Below every frame there is a real one: the root is not a marker.
Grounded(s) == \A d \in 1..Len(s) : \E i \in 1..d : Holds(s, i, d + 1)

\* Frames carry names that were looked up in the map already.
Mapped(s) ==
    \A i \in DOMAIN s :
        s[i].state \in Kinds => s[i].name \in AllNames /\ NameMap[s[i].name] = s[i].name

Nested(s) ==
    \A i, j \in DOMAIN s :
        i < j /\ Holds(s, i, j) /\ IsList(s[i].state) =>
            s[j].state = "marker" \/ (s[i].state = "list" /\ s[j].state = "instance")

StackInv(s) == s[1].state = "init" /\ Grounded(s) /\ Mapped(s) /\ Nested(s)

Inv ==
    /\ TypeInv
    /\ StackInv(stack)
    /\ Planned(stack, todo)
    /\ call = Idle => todo = <<>>

\* A name looked up twice is the name looked up once.
NamesSettle == \A n \in AllNames : NameMap[NameMap[n]] = NameMap[n]

-----------------------------------------------------------------------------
(* How the frames' invariant follows a push, a pop and a change of flags    *)

LEMMA HoldsAgrees ==
    ASSUME NEW s, NEW t, NEW n \in Nat, \A i \in 1..n : t[i].state = s[i].state
    PROVE  \A i \in 1..n, j \in 1..(n + 1) : Holds(s, i, j) <=> Holds(t, i, j)
<1> SUFFICES ASSUME NEW i \in 1..n, NEW j \in 1..(n + 1)
             PROVE  Holds(s, i, j) <=> Holds(t, i, j)
  OBVIOUS
<1>1. \A k \in (i + 1)..(j - 1) : k \in 1..n
  OBVIOUS
<1> QED BY <1>1 DEF Holds

LEMMA HoldsUnique ==
    ASSUME NEW s, NEW n \in Nat, NEW i \in 1..n, NEW r \in 1..n,
           Holds(s, i, n + 1), Holds(s, r, n + 1)
    PROVE  i = r
<1>1. CASE i < r
  <2>1. r \in (i + 1)..((n + 1) - 1)
    BY <1>1
  <2> QED BY <2>1 DEF Holds
<1>2. CASE r < i
  <2>1. i \in (r + 1)..((n + 1) - 1)
    BY <1>2
  <2> QED BY <2>1 DEF Holds
<1> QED BY <1>1, <1>2

LEMMA TopHolds ==
    ASSUME NEW s, NEW n \in Nat \ {0}, s[n].state # "marker"
    PROVE  Holds(s, n, n + 1)
<1>1. (n + 1)..((n + 1) - 1) = {}
  OBVIOUS
<1> QED BY <1>1 DEF Holds

LEMMA GroundedAgrees ==
    ASSUME NEW s, NEW t, Len(t) \in Nat, Len(s) \in Nat, Len(t) <= Len(s), Grounded(s),
           \A i \in 1..Len(t) : t[i].state = s[i].state
    PROVE  Grounded(t)
<1> SUFFICES ASSUME NEW d \in 1..Len(t)
             PROVE  \E i \in 1..d : Holds(t, i, d + 1)
  BY DEF Grounded
<1>1. d \in 1..Len(s)
  OBVIOUS
<1>2. PICK i \in 1..d : Holds(s, i, d + 1)
  BY <1>1 DEF Grounded
<1>3. i \in 1..Len(t) /\ d + 1 \in 1..(Len(t) + 1)
  OBVIOUS
<1>4. Holds(t, i, d + 1)
  BY <1>2, <1>3, HoldsAgrees
<1> QED BY <1>4

LEMMA SameStackInv ==
    ASSUME NEW s, GoodStack(s), NEW t, GoodStack(t), SameConstructs(s, t), StackInv(s)
    PROVE  StackInv(t)
<1>1. DOMAIN s = 1..Len(s) /\ Len(s) \in Nat \ {0} /\ Len(t) = Len(s) /\ DOMAIN t = DOMAIN s
  BY StackLen DEF SameConstructs
<1>2. \A i \in 1..Len(s) : t[i].state = s[i].state /\ t[i].name = s[i].name
  BY <1>1 DEF SameConstructs
<1>3. \A i \in 1..Len(s), j \in 1..(Len(s) + 1) : Holds(s, i, j) <=> Holds(t, i, j)
  BY <1>1, <1>2, HoldsAgrees
<1>4. t[1].state = "init"
  BY <1>1, <1>2 DEF StackInv
<1>5. Grounded(t)
  BY <1>1, <1>2, GroundedAgrees DEF StackInv
<1>6. Mapped(t)
  BY <1>1, <1>2 DEF StackInv, Mapped
<1>7. Nested(t)
  BY <1>1, <1>2, <1>3 DEF StackInv, Nested
<1> QED BY <1>4, <1>5, <1>6, <1>7 DEF StackInv

LEMMA PoppedStackInv ==
    ASSUME NEW s, GoodStack(s), NEW t, GoodStack(t), PoppedTo(s, t), StackInv(s)
    PROVE  StackInv(t)
<1>1. /\ DOMAIN s = 1..Len(s) /\ Len(s) \in Nat \ {0} /\ Len(t) = Len(s) - 1
      /\ DOMAIN t = 1..Len(t) /\ Len(s) > 1 /\ Len(t) \in Nat \ {0}
  BY StackLen DEF PoppedTo
<1>2. \A i \in 1..Len(t) : t[i].state = s[i].state /\ t[i].name = s[i].name
  BY <1>1 DEF PoppedTo
<1>3. \A i \in 1..Len(t), j \in 1..(Len(t) + 1) : Holds(s, i, j) <=> Holds(t, i, j)
  BY <1>1, <1>2, HoldsAgrees
<1>4. t[1].state = "init"
  BY <1>1, <1>2 DEF StackInv
<1>5. Grounded(t)
  BY <1>1, <1>2, GroundedAgrees DEF StackInv
<1>6. Mapped(t)
  BY <1>1, <1>2 DEF StackInv, Mapped
<1>7. Nested(t)
  BY <1>1, <1>2, <1>3 DEF StackInv, Nested
<1> QED BY <1>4, <1>5, <1>6, <1>7 DEF StackInv

LEMMA PushedStackInv ==
    ASSUME NEW s, GoodStack(s), NEW t, GoodStack(t), PushedTo(s, t), StackInv(s),
           \/ t[Len(t)].state = "marker"
           \/ /\ t[Len(t)].state \in Kinds /\ MayHold(s, t[Len(t)].state)
              /\ t[Len(t)].name \in AllNames
              /\ NameMap[t[Len(t)].name] = t[Len(t)].name
    PROVE  StackInv(t)
<1> DEFINE n == Len(s)
<1>1. /\ n \in Nat \ {0} /\ DOMAIN s = 1..n
      /\ Len(t) = n + 1 /\ DOMAIN t = 1..(n + 1)
  BY StackLen DEF PushedTo
<1>2. \A i \in 1..n : t[i].state = s[i].state /\ t[i].name = s[i].name
  BY DEF PushedTo
<1> HIDE DEF n
<1>3. \A i \in 1..n, j \in 1..(n + 1) : Holds(s, i, j) <=> Holds(t, i, j)
  BY <1>1, <1>2, HoldsAgrees
<1>4. t[1].state = "init"
  BY <1>1, <1>2 DEF StackInv
<1>5. Grounded(t)
  <2> SUFFICES ASSUME NEW d \in 1..(n + 1)
               PROVE  \E i \in 1..d : Holds(t, i, d + 1)
    BY <1>1 DEF Grounded
  <2>1. CASE d \in 1..n
    <3>1. PICK i \in 1..d : Holds(s, i, d + 1)
      BY <1>1, <2>1 DEF StackInv, Grounded, n
    <3>2. i \in 1..n /\ d + 1 \in 1..(n + 1)
      BY <2>1, <1>1
    <3> QED BY <1>3, <3>1, <3>2
  <2>2. CASE d = n + 1 /\ t[n + 1].state # "marker"
    <3>1. Holds(t, n + 1, n + 2)
      BY <1>1, <2>2 DEF Holds
    <3> QED BY <1>1, <2>2, <3>1
  <2>3. CASE d = n + 1 /\ t[n + 1].state = "marker"
    <3>1. PICK i \in 1..n : Holds(s, i, n + 1)
      BY <1>1 DEF StackInv, Grounded, n
    <3>2. Holds(t, i, n + 1)
      BY <1>1, <1>3, <3>1
    <3>3. Holds(t, i, n + 2)
      BY <1>1, <2>3, <3>2 DEF Holds
    <3> QED BY <1>1, <2>3, <3>3
  <2> QED BY <1>1, <2>1, <2>2, <2>3
<1>6. Mapped(t)
  <2> SUFFICES ASSUME NEW i \in 1..(n + 1), t[i].state \in Kinds
               PROVE  t[i].name \in AllNames /\ NameMap[t[i].name] = t[i].name
    BY <1>1 DEF Mapped
  <2>1. CASE i \in 1..n
    BY <1>1, <1>2, <2>1 DEF StackInv, Mapped
  <2>2. CASE i = n + 1
    BY <1>1, <2>2 DEF Kinds
  <2> QED BY <1>1, <2>1, <2>2
<1>7. Nested(t)
  <2> SUFFICES ASSUME NEW i \in 1..(n + 1), NEW j \in 1..(n + 1),
                      i < j, Holds(t, i, j), IsList(t[i].state)
               PROVE  \/ t[j].state = "marker"
                      \/ t[i].state = "list" /\ t[j].state = "instance"
    BY <1>1 DEF Nested
  <2>1. i \in 1..n /\ Holds(s, i, j)
    BY <1>1, <1>3
  <2>2. CASE j \in 1..n
    BY <1>1, <1>2, <2>1, <2>2 DEF StackInv, Nested
  <2>3. CASE j = n + 1
    <3>1. Holds(s, i, Len(s) + 1) /\ IsList(s[i].state) /\ i \in DOMAIN s
      BY <1>1, <1>2, <2>1, <2>3 DEF n
    <3> QED BY <1>1, <1>2, <2>1, <2>3, <3>1 DEF MayHold
  <2> QED BY <1>1, <2>2, <2>3
<1> QED BY <1>4, <1>5, <1>6, <1>7 DEF StackInv

LEMMA ListMayHoldInstance ==
    ASSUME NEW s, GoodStack(s), s[Len(s)].state = "list"
    PROVE  MayHold(s, "instance")
<1>1. DOMAIN s = 1..Len(s) /\ Len(s) \in Nat \ {0}
  BY StackLen
<1>2. \A i \in 1..Len(s) : Holds(s, i, Len(s) + 1) => i = Len(s)
  <2>1. Holds(s, Len(s), Len(s) + 1) /\ Len(s) \in 1..Len(s)
    BY <1>1, TopHolds
  <2> QED BY <1>1, <2>1, HoldsUnique
<1> QED BY <1>1, <1>2 DEF MayHold

LEMMA RoomUnderList ==
    ASSUME NEW s, GoodStack(s), NEW t, GoodStack(t), PoppedTo(s, t), StackInv(s),
           IsList(s[Len(s)].state), NEW kind \in Kinds
    PROVE  MayHold(t, kind)
<1>1. /\ DOMAIN s = 1..Len(s) /\ Len(s) \in Nat \ {0}
      /\ DOMAIN t = 1..Len(t) /\ Len(t) = Len(s) - 1 /\ Len(t) \in Nat
      /\ \A i \in 1..Len(t) : t[i].state = s[i].state
  BY StackLen DEF PoppedTo
<1> SUFFICES ASSUME NEW i \in 1..Len(t), Holds(t, i, Len(t) + 1), IsList(t[i].state)
             PROVE  FALSE
  BY <1>1 DEF MayHold
<1>2. Holds(s, i, Len(s))
  <2>1. Len(t) + 1 = Len(s) /\ Len(t) + 1 \in 1..(Len(t) + 1)
    BY <1>1
  <2>2. Holds(s, i, Len(t) + 1)
    BY <1>1, <2>1, HoldsAgrees
  <2> QED BY <2>1, <2>2
<1>3. i \in DOMAIN s /\ Len(s) \in DOMAIN s /\ i < Len(s) /\ IsList(s[i].state)
  BY <1>1
<1>4. s[Len(s)].state = "marker" \/ s[Len(s)].state = "instance"
  BY <1>2, <1>3 DEF StackInv, Nested
<1> QED BY <1>4 DEF IsList

LEMMA RoomUnderInstance ==
    ASSUME NEW s, GoodStack(s), NEW t, GoodStack(t), StackInv(s),
           SameConstructs(s, t) \/ PoppedTo(s, t), s[Len(s)].state = "instance"
    PROVE  MayHold(t, "instance")
<1>1. /\ DOMAIN s = 1..Len(s) /\ Len(s) \in Nat \ {0}
      /\ DOMAIN t = 1..Len(t) /\ Len(t) \in Nat \ {0}
  BY StackLen
<1>2. CASE PoppedTo(s, t)
  <2>1. Len(t) = Len(s) - 1 /\ \A i \in 1..Len(t) : t[i].state = s[i].state
    BY <1>2 DEF PoppedTo
  <2> SUFFICES ASSUME NEW i \in 1..Len(t), Holds(t, i, Len(t) + 1), IsList(t[i].state)
               PROVE  t[i].state = "list"
    BY <1>1 DEF MayHold
  <2>2. Holds(s, i, Len(s))
    <3>1. Len(t) + 1 = Len(s) /\ Len(t) + 1 \in 1..(Len(t) + 1)
      BY <1>1, <2>1
    <3>2. Holds(s, i, Len(t) + 1)
      BY <1>1, <2>1, <3>1, HoldsAgrees
    <3> QED BY <3>1, <3>2
  <2>3. i \in DOMAIN s /\ Len(s) \in DOMAIN s /\ i < Len(s) /\ IsList(s[i].state)
    BY <1>1, <2>1
  <2> QED BY <2>1, <2>2, <2>3 DEF StackInv, Nested
<1>3. CASE SameConstructs(s, t)
  <2>1. Len(t) = Len(s) /\ t[Len(t)].state = "instance"
    BY <1>1, <1>3 DEF SameConstructs
  <2>2. \A i \in 1..Len(t) : Holds(t, i, Len(t) + 1) => i = Len(t)
    <3>1. Holds(t, Len(t), Len(t) + 1) /\ Len(t) \in 1..Len(t)
      BY <1>1, <2>1, TopHolds
    <3> QED BY <1>1, <3>1, HoldsUnique
  <2> QED BY <1>1, <2>1, <2>2 DEF MayHold, IsList
<1> QED BY <1>2, <1>3

\* The frame xo_transition looks at is the one its new construct will be in.
LEMMA RealFact ==
    ASSUME Inv
    PROVE  /\ Real \in Frame
           /\ \A kind \in Kinds :
                 ~IsList(Real.state) \/ (Real.state = "list" /\ kind = "instance")
                     => MayHold(stack, kind)
           /\ ~OnMarker => Real = Top
<1> DEFINE n == Len(stack)
           R(i) == Holds(stack, i, n + 1)
           r == CHOOSE i \in DOMAIN stack : R(i)
<1>1. GoodStack(stack) /\ n \in Nat \ {0} /\ DOMAIN stack = 1..n
  BY TypeFacts, StackLen DEF Inv, TypeInv
<1>2. \E i \in DOMAIN stack : R(i)
  BY <1>1 DEF Inv, StackInv, Grounded
<1>3. r \in 1..n /\ R(r)
  BY <1>1, <1>2
<1>4. Real = stack[r]
  BY DEF Real
<1> HIDE DEF r, n
<1>5. \A i \in 1..n : R(i) => i = r
  BY <1>1, <1>3, HoldsUnique
<1>6. Real \in Frame
  BY <1>1, <1>3, <1>4, StackLen
<1>7. \A kind \in Kinds :
        ~IsList(Real.state) \/ (Real.state = "list" /\ kind = "instance")
            => MayHold(stack, kind)
  BY <1>1, <1>4, <1>5 DEF MayHold, n
<1>8. ~OnMarker => Real = Top
  <2> SUFFICES ASSUME ~OnMarker PROVE Real = Top
    OBVIOUS
  <2>1. n \in 1..n /\ stack[n].state # "marker"
    BY <1>1 DEF OnMarker, Top, n
  <2>2. R(n)
    BY <1>1, <2>1 DEF Holds
  <2> QED BY <1>4, <1>5, <2>1, <2>2 DEF Top, n
<1> QED BY <1>6, <1>7, <1>8

-----------------------------------------------------------------------------
(* The plan of a call, and what a step leaves of it                         *)

NoOpens(tasks) == \A i \in DOMAIN tasks : tasks[i].op # "open"

LEMMA NoOpensPlanned ==
    ASSUME NEW s, NEW tasks, NoOpens(tasks)
    PROVE  Planned(s, tasks)
BY DEF NoOpens, Planned

LEMMA PlanPlanned ==
    ASSUME Inv, NEW tasks, Plan(tasks)
    PROVE  Planned(stack, tasks)
<1>1. ASSUME NEW t \in Plain, Fits(t), t.op = "open"
      PROVE  MayHold(stack, t.kind)
  <2>1. t \in Task
    BY DEF Plain
  <2>2. t.kind \in Kinds
    BY <1>1, <2>1, TaskFields
  <2>3. ~IsList(Real.state) \/ (Real.state = "list" /\ t.kind = "instance")
    BY <1>1 DEF Fits
  <2> QED BY <2>2, <2>3, RealFact
<1>2. ASSUME NEW t \in Plain, NEW u \in Plain, Follows(t, u), u.op = "open"
      PROVE  \/ t.op = "open" /\ t.kind = "list" /\ u.kind = "instance"
             \/ /\ t.op = "close" /\ t.name = NoName
                /\ \/ IsList(t.kind) /\ IsList(stack[Len(stack)].state)
                   \/ /\ t.kind = "instance" /\ u.kind = "instance"
                      /\ stack[Len(stack)].state = "instance"
  <2>1. ~OnMarker => Real = stack[Len(stack)]
    BY RealFact DEF Top
  <2> QED BY <1>2, <2>1 DEF Follows
<1>3. CASE tasks = <<>>
  BY <1>3, NoOpensPlanned DEF NoOpens
<1>4. ASSUME NEW t \in Plain, Fits(t), tasks = <<t>>
      PROVE  Planned(stack, tasks)
  <2>1. DOMAIN tasks = {1} /\ tasks[1] = t
    BY <1>4
  <2> QED BY <1>1, <1>4, <2>1 DEF Planned
<1>5. ASSUME NEW t \in Plain, NEW u \in Plain, Fits(t), Follows(t, u), tasks = <<t, u>>
      PROVE  Planned(stack, tasks)
  <2>1. DOMAIN tasks = {1, 2} /\ tasks[1] = t /\ tasks[2] = u
    BY <1>5
  <2> QED BY <1>1, <1>2, <1>5, <2>1 DEF Planned
<1>6. ASSUME NEW t \in Plain, NEW u \in Plain, NEW v \in Plain,
             Fits(t), Follows(t, u), v.op = "value", tasks = <<t, u, v>>
      PROVE  Planned(stack, tasks)
  <2>1. DOMAIN tasks = {1, 2, 3} /\ tasks[1] = t /\ tasks[2] = u /\ tasks[3] = v
    BY <1>6
  <2> QED BY <1>1, <1>2, <1>6, <2>1 DEF Planned
<1>7. CASE tasks = <<CloseAllTask(Len(stack), 1), FinishTask>>
  <2>1. DOMAIN tasks = {1, 2}
    BY <1>7
  <2>2. tasks[1].op = "close_all" /\ tasks[2].op = "finish"
    BY <1>7 DEF CloseAllTask, FinishTask
  <2> QED BY <2>1, <2>2, NoOpensPlanned DEF NoOpens
<1> QED BY <1>3, <1>4, <1>5, <1>6, <1>7 DEF Plan

\* The second task's turn, and nothing to open after it
LEMMA RestPlanned ==
    ASSUME Inv, todo # <<>>, NEW tasks \in {Tail(todo), AfterError}, NEW s,
           2 \in DOMAIN todo /\ todo[2].op = "open" => MayHold(s, todo[2].kind)
    PROVE  Planned(s, tasks)
<1>1. TypeOK
  BY DEF Inv, TypeInv
<1>2. CASE tasks = AfterError
  <2>1. NoOpens(AfterError)
    BY <1>1, TodoFacts DEF NoOpens
  <2> QED BY <1>2, <2>1, NoOpensPlanned
<1>3. CASE tasks = Tail(todo)
  <2>1. ASSUME NEW i \in DOMAIN tasks, tasks[i].op = "open" PROVE i = 1
    <3>1. i \in Nat /\ i \in 1..(Len(todo) - 1) /\ i + 1 \in DOMAIN todo /\ todo[i + 1].op = "open"
      BY <1>1, <1>3, <2>1, TodoFacts
    <3>2. i + 1 \in {1, 2}
      BY <3>1 DEF Inv, Planned
    <3> QED BY <3>1, <3>2
  <2>2. ASSUME 1 \in DOMAIN tasks, tasks[1].op = "open" PROVE MayHold(s, tasks[1].kind)
    <3>1. 1 + 1 \in DOMAIN todo /\ tasks[1] = todo[1 + 1]
      BY <1>1, <1>3, <2>2, TodoFacts
    <3>2. 1 + 1 = 2
      OBVIOUS
    <3> QED BY <2>2, <3>1, <3>2
  <2>3. ~(2 \in DOMAIN tasks /\ tasks[2].op = "open")
    BY <2>1
  <2> QED BY <2>1, <2>2, <2>3 DEF Planned
<1> QED BY <1>2, <1>3

\* After a search, a turn of a walk or a field nothing is opened any more.
LEMMA RestNoOpens ==
    ASSUME Inv, todo # <<>>, Head(todo).op \notin {"open", "close"}
    PROVE  NoOpens(Tail(todo))
<1>1. TypeOK
  BY DEF Inv, TypeInv
<1>2. Head(todo) = todo[1]
  BY <1>1, TodoFacts
<1>3. ASSUME NEW i \in DOMAIN Tail(todo), Tail(todo)[i].op = "open" PROVE FALSE
  <2>1. i \in Nat /\ i \in 1..(Len(todo) - 1) /\ i + 1 \in DOMAIN todo /\ todo[i + 1].op = "open"
    BY <1>1, <1>3, TodoFacts
  <2>2. i + 1 \in {1, 2}
    BY <2>1 DEF Inv, Planned
  <2>3. i + 1 = 2
    BY <2>1, <2>2
  <2>4. todo[1].op \in {"open", "close"}
    BY <2>1, <2>3 DEF Inv, Planned
  <2> QED BY <1>2, <2>4
<1> QED BY <1>3 DEF NoOpens

LEMMA WalkNoOpens ==
    ASSUME TypeOK, todo # <<>>, NoOpens(Tail(todo)), NEW at \in Nat, NEW limit \in Nat
    PROVE  NoOpens(<<CloseAllTask(at, limit)>> \o Tail(todo))
<1> DEFINE w == CloseAllTask(at, limit)
           t == <<w>> \o Tail(todo)
<1>1. w \in Task /\ w.op # "open"
  BY TasksMade DEF CloseAllTask
<1> HIDE DEF w
<1>2. /\ Tail(todo) \in Seq(Task) /\ Len(Tail(todo)) \in Nat
      /\ DOMAIN Tail(todo) = 1..Len(Tail(todo))
  BY TodoFacts
<1>3. /\ DOMAIN t = 1..Len(t) /\ Len(t) = 1 + Len(Tail(todo)) /\ t[1] = w
      /\ \A i \in 2..Len(t) : t[i] = Tail(todo)[i - 1]
  <2>1. <<w>> \in Seq(Task) /\ Len(<<w>>) = 1 /\ <<w>>[1] = w
    BY <1>1
  <2> QED BY <1>2, <2>1, ConcatProperties
<1> HIDE DEF t
<1>4. ASSUME NEW i \in DOMAIN t PROVE t[i].op # "open"
  <2>1. CASE i = 1
    BY <1>1, <1>3, <2>1
  <2>2. CASE i # 1
    <3>1. i \in 2..Len(t) /\ i - 1 \in DOMAIN Tail(todo)
      BY <1>2, <1>3, <2>2
    <3> QED BY <1>3, <3>1 DEF NoOpens
  <2> QED BY <2>1, <2>2
<1> QED BY <1>4 DEF NoOpens, t, w

LEMMA StillBusy ==
    ASSUME Inv, todo # <<>>, NEW tasks, Continue(tasks)
    PROVE  todo' = tasks /\ (call' = Idle => todo' = <<>>)
BY DEF Inv, Continue

-----------------------------------------------------------------------------
(* The steps.  What makes room for an open is that a list or a leaf-list    *)
(* closed by its own name does go, XOF_WARN or not.                         *)

LEMMA ListCloses ==
    ASSUME TypeOK, StackInv(stack), NEW kind \in Kinds, IsList(kind), IsList(Top.state),
           DoClose(kind, NoName)
    PROVE  PoppedTo(stack, stack')
<1> DEFINE old == IF Json /\ IsList(kind) THEN HasItems(stack) ELSE stack
<1>1. GoodStack(stack) /\ Len(stack) \in Nat \ {0} /\ DOMAIN stack = 1..Len(stack)
      /\ Len(stack) \in DOMAIN stack
  BY TypeFacts, StackLen
<1>2. Len(stack) # 1
  BY DEF StackInv, Top, IsList
<1>3. Top.name \in AllNames /\ NameMap[Top.name] = Top.name /\ Top.name # NoName
  <2>1. Top.state \in Kinds
    BY DEF IsList, Kinds
  <2> QED BY <1>1, <2>1, NamesAssumption DEF StackInv, Mapped, Top
<1>4. IsList(kind) = IsList(Top.state)
  BY DEF IsList
<1>5. ~PopRefused(Top.name, IsList(kind))
  BY <1>2, <1>4 DEF PopRefused
<1>6. stack' \in {Front(old), HasItems(Front(old))}
  <2>1. MappedClose(NoName) = Top.name
    BY <1>3 DEF MappedClose, NameClosed
  <2>2. ~Inert(kind)
    BY DEF Inert
  <2> QED BY <1>5, <2>1, <2>2 DEF DoClose
<1>7. GoodStack(old) /\ Len(old) = Len(stack)
  BY <1>1, HasItemsType DEF SameConstructs
<1> HIDE DEF old
<1>8. GoodStack(Front(old)) /\ Len(Front(old)) = Len(stack) - 1
  BY <1>2, <1>7, PoppedType
<1>9. Len(HasItems(Front(old))) = Len(stack) - 1
  BY <1>8, HasItemsType DEF SameConstructs
<1>10. Len(stack') # Len(stack)
  BY <1>1, <1>6, <1>8, <1>9
<1>11. SameConstructs(stack, stack') \/ PoppedTo(stack, stack')
  BY DoCloseStep
<1> QED BY <1>10, <1>11 DEF SameConstructs

LEMMA OpenStepInv ==
    ASSUME NamesSettle, Inv, OpenStep
    PROVE  StackInv(stack') /\ Planned(stack', todo') /\ (call' = Idle => todo' = <<>>)
<1> DEFINE kind == todo[1].kind
           name == todo[1].name
<1>1. /\ TypeOK /\ todo # <<>> /\ GoodStack(stack) /\ StackInv(stack)
      /\ 1 \in DOMAIN todo /\ todo[1].op = "open" /\ todo[1] \in Task /\ Head(todo) = todo[1]
  BY TypeFacts, TodoFacts DEF Inv, TypeInv, OpenStep, Working
<1>2. kind \in Kinds /\ name \in AllNames
  BY <1>1, TaskFields
<1>3. DoOpen(kind, name)
  BY <1>1, OpenMeans
<1>4. MayHold(stack, kind)
  BY <1>1 DEF Inv, Planned
<1>5. /\ GoodStack(stack') /\ PushedTo(stack, stack')
      /\ stack'[Len(stack')].state = kind
      /\ stack'[Len(stack')].name = NameMap[name]
  BY <1>1, <1>2, <1>3, DoOpenStep DEF PushedTo
<1>6. NameMap[name] \in AllNames /\ NameMap[NameMap[name]] = NameMap[name]
  BY <1>2, NamesAssumption DEF NamesSettle
<1>7. StackInv(stack')
  BY <1>1, <1>2, <1>4, <1>5, <1>6, PushedStackInv
<1>8. PICK tasks \in {Tail(todo), AfterError} : Continue(tasks)
  BY DEF OpenStep
<1>9. 2 \in DOMAIN todo /\ todo[2].op = "open" => MayHold(stack', todo[2].kind)
  <2> SUFFICES ASSUME 2 \in DOMAIN todo, todo[2].op = "open"
               PROVE  MayHold(stack', todo[2].kind)
    OBVIOUS
  <2>1. kind = "list" /\ todo[2].kind = "instance"
    BY <1>1 DEF Inv, Planned
  <2> QED BY <1>5, <2>1, ListMayHoldInstance
<1>10. Planned(stack', tasks)
  BY <1>1, <1>8, <1>9, RestPlanned
<1> QED BY <1>1, <1>7, <1>8, <1>10, StillBusy

LEMMA CloseStepInv ==
    ASSUME Inv, CloseStep
    PROVE  StackInv(stack') /\ Planned(stack', todo') /\ (call' = Idle => todo' = <<>>)
<1> DEFINE kind == todo[1].kind
           name == todo[1].name
<1>1. /\ TypeOK /\ todo # <<>> /\ GoodStack(stack) /\ StackInv(stack)
      /\ 1 \in DOMAIN todo /\ todo[1].op = "close" /\ todo[1] \in Task /\ Head(todo) = todo[1]
      /\ Top = stack[Len(stack)]
  BY TypeFacts, TodoFacts DEF Inv, TypeInv, CloseStep, Working, Top
<1>2. kind \in Kinds /\ name \in AllNames \cup {NoName}
  BY <1>1, TaskFields
<1>3. DoClose(kind, name)
  BY <1>1, ClosesMeans DEF CloseStep
<1>4. GoodStack(stack') /\ (SameConstructs(stack, stack') \/ PoppedTo(stack, stack'))
  BY <1>1, <1>2, <1>3, DoCloseStep
<1>5. StackInv(stack')
  BY <1>1, <1>4, SameStackInv, PoppedStackInv
<1>6. PICK tasks \in {Tail(todo), AfterError} : Continue(tasks)
  BY DEF CloseStep
<1>7. 2 \in DOMAIN todo /\ todo[2].op = "open" => MayHold(stack', todo[2].kind)
  <2> SUFFICES ASSUME 2 \in DOMAIN todo, todo[2].op = "open"
               PROVE  MayHold(stack', todo[2].kind)
    OBVIOUS
  <2>1. /\ name = NoName
        /\ \/ IsList(kind) /\ IsList(Top.state)
           \/ todo[2].kind = "instance" /\ Top.state = "instance"
    BY <1>1 DEF Inv, Planned
  <2>2. todo[2].kind \in Kinds
    <3>1. todo[2] \in Task
      BY <1>1 DEF TypeOK
    <3> QED BY <3>1, TaskFields
  <2>3. CASE IsList(kind) /\ IsList(Top.state)
    <3>1. PoppedTo(stack, stack')
      BY <1>1, <1>2, <1>3, <2>1, <2>3, ListCloses
    <3> QED BY <1>1, <1>4, <2>2, <2>3, <3>1, RoomUnderList
  <2>4. CASE todo[2].kind = "instance" /\ Top.state = "instance"
    BY <1>1, <1>4, <2>4, RoomUnderInstance
  <2> QED BY <2>1, <2>3, <2>4
<1>8. Planned(stack', tasks)
  BY <1>1, <1>6, <1>7, RestPlanned
<1> QED BY <1>1, <1>5, <1>6, <1>8, StillBusy

LEMMA SearchStepInv ==
    ASSUME Inv, SearchStep
    PROVE  StackInv(stack') /\ Planned(stack', todo') /\ (call' = Idle => todo' = <<>>)
<1>1. /\ TypeOK /\ todo # <<>> /\ Head(todo).op \notin {"open", "close"}
      /\ UNCHANGED stack /\ StackInv(stack)
      /\ Len(stack) \in Nat
  BY TypeFacts, StackLen DEF Inv, TypeInv, SearchStep, Working
<1>2. NoOpens(Tail(todo))
  BY <1>1, RestNoOpens
<1>3. \/ Continue(Tail(todo))
      \/ \E i \in 2..Len(stack) : Continue(<<CloseAllTask(Len(stack), i)>> \o Tail(todo))
  BY DEF SearchStep
<1>4. PICK tasks : Continue(tasks) /\ NoOpens(tasks)
  <2>1. \A i \in 2..Len(stack) : i \in Nat
    OBVIOUS
  <2> QED BY <1>1, <1>2, <1>3, <2>1, WalkNoOpens
<1>5. todo' = tasks /\ (call' = Idle => todo' = <<>>)
  BY <1>1, <1>4, StillBusy
<1> QED BY <1>1, <1>4, <1>5, NoOpensPlanned

LEMMA CloseAllStepInv ==
    ASSUME Inv, CloseAllStep
    PROVE  StackInv(stack') /\ Planned(stack', todo') /\ (call' = Idle => todo' = <<>>)
<1> DEFINE at == Head(todo).at
           limit == Head(todo).limit
           tasks == IF at > limit THEN <<CloseAllTask(at - 1, limit)>> \o Tail(todo)
                    ELSE Tail(todo)
<1>1. /\ TypeOK /\ TypeInv /\ todo # <<>> /\ GoodStack(stack) /\ StackInv(stack)
      /\ Head(todo).op \notin {"open", "close"}
      /\ at \in 1..Len(stack) /\ limit \in 1..at /\ Len(stack) \in Nat
  BY WalkedFrame DEF Inv, CloseAllStep, Working
<1>2. GoodStack(stack') /\ (SameConstructs(stack, stack') \/ PoppedTo(stack, stack'))
  BY <1>1, CloseAllTurn
<1>3. StackInv(stack')
  BY <1>1, <1>2, SameStackInv, PoppedStackInv
<1>4. NoOpens(Tail(todo))
  BY <1>1, RestNoOpens
<1>5. Continue(tasks)
  BY DEF CloseAllStep, FrameBelow
<1>6. NoOpens(tasks)
  <2> HIDE DEF at, limit
  <2>1. at > limit => at - 1 \in Nat /\ limit \in Nat
    BY <1>1
  <2> QED BY <1>1, <1>4, <2>1, WalkNoOpens
<1> HIDE DEF tasks
<1>7. todo' = tasks /\ (call' = Idle => todo' = <<>>)
  BY <1>1, <1>5, StillBusy
<1> QED BY <1>3, <1>6, <1>7, NoOpensPlanned

LEMMA ValueStepInv ==
    ASSUME Inv, ValueStep
    PROVE  StackInv(stack') /\ Planned(stack', todo') /\ (call' = Idle => todo' = <<>>)
<1>1. /\ TypeOK /\ TypeInv /\ todo # <<>> /\ Head(todo).op \notin {"open", "close"}
      /\ GoodStack(stack) /\ StackInv(stack)
  BY TypeFacts DEF Inv, TypeInv, ValueStep, Working
<1>2. GoodStack(stack') /\ SameConstructs(stack, stack')
  BY <1>1, ValueTurn
<1>3. StackInv(stack')
  BY <1>1, <1>2, SameStackInv
<1>4. NoOpens(Tail(todo))
  BY <1>1, RestNoOpens
<1>5. todo' = Tail(todo) /\ (call' = Idle => todo' = <<>>)
  BY <1>1, StillBusy DEF ValueStep
<1> QED BY <1>3, <1>4, <1>5, NoOpensPlanned

LEMMA FinishStepInv ==
    ASSUME Inv, FinishStep
    PROVE  StackInv(stack') /\ Planned(stack', todo') /\ (call' = Idle => todo' = <<>>)
<1>1. /\ TypeOK /\ todo # <<>> /\ Head(todo).op \notin {"open", "close"}
      /\ UNCHANGED stack /\ StackInv(stack)
  BY DEF Inv, TypeInv, FinishStep, Working
<1>2. NoOpens(Tail(todo))
  BY <1>1, RestNoOpens
<1>3. todo' = Tail(todo) /\ (call' = Idle => todo' = <<>>)
  BY <1>1, StillBusy DEF FinishStep
<1> QED BY <1>1, <1>2, <1>3, NoOpensPlanned

LEMMA BegunInv ==
    ASSUME Inv, Begun
    PROVE  StackInv(stack') /\ Planned(stack', todo') /\ (call' = Idle => todo' = <<>>)
<1>1. PICK tasks : Starts(tasks) /\ Plan(tasks)
  BY DEF Begun
<1>2. PICK api \in Apis, name \in AllNames \cup {NoName} : Begin(api, name, tasks)
  BY <1>1 DEF Starts
<1>3. todo' = tasks /\ UNCHANGED stack
  BY <1>2 DEF Begin
<1>4. call' = Idle => todo' = <<>>
  BY <1>2 DEF Begin, Idle, Apis
<1>5. Planned(stack, tasks)
  BY <1>1, PlanPlanned
<1> QED BY <1>3, <1>4, <1>5 DEF Inv

LEMMA OpenMarkerInv ==
    ASSUME Inv, NEW n \in MarkerNames, OpenMarker(n)
    PROVE  StackInv(stack') /\ Planned(stack', todo') /\ (call' = Idle => todo' = <<>>)
<1>1. TypeOK /\ GoodStack(stack) /\ StackInv(stack)
  BY TypeFacts DEF Inv, TypeInv
<1>2. GoodStack(stack') /\ PushedTo(stack, stack') /\ stack'[Len(stack')].state = "marker"
  BY <1>1, OpenMarkerTurn
<1>3. StackInv(stack')
  BY <1>1, <1>2, PushedStackInv
<1>4. todo = <<>> /\ todo' = <<>>
  BY DEF OpenMarker, Inv
<1>5. NoOpens(todo')
  BY <1>4 DEF NoOpens
<1> QED BY <1>3, <1>4, <1>5, NoOpensPlanned

LEMMA InvInit == Init => Inv
<1> SUFFICES ASSUME Init PROVE Inv
  OBVIOUS
<1>1. TypeInv
  BY TypeInvInit
<1>2. Len(stack) = 1 /\ DOMAIN stack = {1} /\ stack[1].state = "init"
  BY DEF Init, Root, NewFrame
<1>3. Grounded(stack)
  <2>1. Holds(stack, 1, 2) /\ 1 \in 1..1 /\ 1 + 1 = 2
    BY <1>2 DEF Holds
  <2>2. 1..Len(stack) = {1}
    BY <1>2
  <2> QED BY <2>1, <2>2 DEF Grounded
<1>4. Mapped(stack) /\ Nested(stack)
  BY <1>2 DEF Mapped, Nested, IsList, Kinds
<1>5. todo = <<>>
  BY DEF Init
<1>6. Planned(stack, todo)
  BY <1>5, NoOpensPlanned DEF NoOpens
<1> QED BY <1>1, <1>2, <1>3, <1>4, <1>5, <1>6 DEF Inv, StackInv

LEMMA InvNext ==
    ASSUME NamesSettle
    PROVE  Inv /\ [Next]_vars => Inv'
<1> SUFFICES ASSUME Inv, [Next]_vars PROVE Inv'
  OBVIOUS
<1>1. TypeInv'
  BY TypeInvNext DEF Inv
<1>2. StackInv(stack') /\ Planned(stack', todo') /\ (call' = Idle => todo' = <<>>)
  <2>1. CASE Call
    BY <2>1, CallPlans, BegunInv, OpenMarkerInv DEF Inv, TypeInv
  <2>2. CASE Step
    BY <2>2, OpenStepInv, CloseStepInv, SearchStepInv, CloseAllStepInv, ValueStepInv,
       FinishStepInv DEF Step
  <2>3. CASE UNCHANGED vars
    BY <2>3 DEF vars, Inv
  <2> QED BY <2>1, <2>2, <2>3 DEF Next
<1> QED BY <1>1, <1>2 DEF Inv, Idle

\* Whatever a caller does, in whatever style and with or without XOF_WARN, a
\* list directly holds nothing but instances and a leaf-list nothing at all
\* (xo_transition), if the name map is one that maps its own results to
\* themselves: a frame's name goes through xo_map_name again when its
\* construct is closed, and a pop is refused when that changes it.
THEOREM Nesting ==
    ASSUME NamesSettle
    PROVE  Spec => []ListsHoldInstances
<1>1. Inv => ListsHoldInstances
  BY DEF Inv, StackInv, Nested, ListsHoldInstances
<1> QED BY <1>1, InvInit, InvNext, PTL DEF Spec

-----------------------------------------------------------------------------
(* What may take a marker off the stack.  The invariant: what the work      *)
(* still to do may pop.                                                     *)

\* The calls that may close a marker
TakesMarkers(api, name) == api \in {"close_marker", "finish"} \/ name = NoName

\* Of the closes planned, only that of a container at the root may find a
\* marker on top; a search is for the caller's own name.
Respects(api, name, t) ==
    /\ t.op = "close" /\ OnMarker => api = "close_container" /\ Real.state = "init"
    /\ t.op = "search" =>
          IF t.kind = "marker" THEN api = "close_marker" ELSE t.name = name

\* There is no marker among the frames a walk for a named construct closes.
ClearWay(api, name, t) ==
    t.op = "close_all" =>
        \/ TakesMarkers(api, name)
        \/ \A j \in t.limit..Len(stack) : stack[j].state # "marker"

\* A call that has anything to do respects markers.
Careful(api, name, tasks) ==
    \A i \in DOMAIN tasks :
        /\ Respects(api, name, tasks[i]) /\ ClearWay(api, name, tasks[i])
        /\ tasks[i].op = "close" => i = 1

MarkerInv ==
    /\ TypeInv
    /\ Careful(call.api, call.name, todo)
    /\ call = Idle => todo = <<>>

-----------------------------------------------------------------------------
(* What a step leaves of a call *)

LEMMA RestCareful ==
    ASSUME MarkerInv, todo # <<>>, NEW tasks \in {Tail(todo), AfterError}, Continue(tasks)
    PROVE  Careful(call.api, call.name, todo)'
<1>1. TypeOK
  BY DEF MarkerInv, TypeInv
<1>2. todo' = tasks /\ (todo' # <<>> => call' = call)
  BY DEF Continue
<1>3. CASE tasks = AfterError
  <2>1. \A i \in DOMAIN todo' : todo'[i].op = "value"
    BY <1>1, <1>2, <1>3, TodoFacts
  <2> QED BY <2>1 DEF Careful, Respects, ClearWay
<1>4. CASE tasks = Tail(todo)
  <2>1. \A i \in DOMAIN todo' : i + 1 \in DOMAIN todo /\ todo'[i] = todo[i + 1]
                                /\ i \in Nat /\ i + 1 # 1 /\ todo' # <<>>
    BY <1>1, <1>2, <1>4, TodoFacts
  <2>2. \A i \in DOMAIN todo' : todo'[i].op \notin {"close", "close_all"}
    BY <2>1 DEF MarkerInv, TypeInv, Careful, Walks
  <2>3. \A i \in DOMAIN todo' :
          todo'[i].op = "search" =>
             IF todo'[i].kind = "marker" THEN call'.api = "close_marker"
             ELSE todo'[i].name = call'.name
    BY <1>2, <2>1 DEF MarkerInv, Careful, Respects
  <2> QED BY <2>2, <2>3 DEF Careful, Respects, ClearWay
<1> QED BY <1>3, <1>4

LEMMA WalkCareful ==
    ASSUME MarkerInv, todo # <<>>, NEW at \in Nat, NEW limit \in Nat,
           Continue(<<CloseAllTask(at, limit)>> \o Tail(todo)),
           \/ TakesMarkers(call.api, call.name)
           \/ \A j \in limit..Len(stack') : stack'[j].state # "marker"
    PROVE  Careful(call.api, call.name, todo)'
<1> DEFINE w == CloseAllTask(at, limit)
           t == <<w>> \o Tail(todo)
<1>1. TypeOK
  BY DEF MarkerInv, TypeInv
<1>2. w \in Task /\ w.op = "close_all" /\ w.limit = limit
  BY TasksMade DEF CloseAllTask
<1> HIDE DEF w
<1>3. /\ Tail(todo) \in Seq(Task) /\ Len(Tail(todo)) \in Nat
      /\ DOMAIN Tail(todo) = 1..Len(Tail(todo))
  BY <1>1, TodoFacts
<1>4. /\ Len(t) = 1 + Len(Tail(todo)) /\ DOMAIN t = 1..Len(t) /\ t[1] = w
      /\ \A i \in 2..Len(t) : t[i] = Tail(todo)[i - 1]
  <2>1. <<w>> \in Seq(Task) /\ Len(<<w>>) = 1 /\ <<w>>[1] = w
    BY <1>2
  <2> QED BY <1>3, <2>1, ConcatProperties
<1>5. todo' = t /\ call' = call
  <2>1. t # <<>>
    BY <1>3, <1>4
  <2> HIDE DEF t
  <2>2. Continue(t)
    BY DEF t, w
  <2> QED BY <2>1, <2>2 DEF Continue
<1> HIDE DEF t
<1>6. ASSUME NEW i \in DOMAIN t, i # 1
      PROVE  i - 1 \in DOMAIN Tail(todo) /\ t[i] = todo[i] /\ i \in DOMAIN todo
  <2>1. i \in 2..Len(t) /\ i - 1 \in DOMAIN Tail(todo) /\ i = (i - 1) + 1
    BY <1>3, <1>4, <1>6
  <2> QED BY <1>1, <1>4, <2>1, TodoFacts
<1>7. ASSUME NEW i \in DOMAIN t
      PROVE  /\ t[i].op # "close"
             /\ t[i].op = "search" =>
                  IF t[i].kind = "marker" THEN call.api = "close_marker"
                  ELSE t[i].name = call.name
             /\ t[i].op = "close_all" => t[i] = w
  <2>1. CASE i = 1
    BY <1>2, <1>4, <2>1
  <2>2. CASE i # 1
    BY <1>6, <2>2 DEF MarkerInv, TypeInv, Careful, Respects, Walks
  <2> QED BY <2>1, <2>2
<1> QED BY <1>2, <1>5, <1>7 DEF Careful, Respects, ClearWay

LEMMA SearchCareful ==
    ASSUME MarkerInv, SearchStep
    PROVE  Careful(call.api, call.name, todo)'
<1> DEFINE kind == Head(todo).kind
           name == IF Head(todo).name = NoName THEN NoName ELSE NameMap[Head(todo).name]
<1>1. /\ TypeOK /\ todo # <<>> /\ UNCHANGED stack
      /\ Head(todo).op = "search" /\ Head(todo) = todo[1] /\ 1 \in DOMAIN todo
      /\ GoodStack(stack) /\ Len(stack) \in Nat
  BY TodoFacts, TypeFacts, StackLen DEF MarkerInv, TypeInv, SearchStep, Working
<1>2. CASE Continue(Tail(todo))
  BY <1>1, <1>2, RestCareful
<1>3. ASSUME NEW i \in 2..Len(stack), ~(StopsAt(kind, i) /\ name # NoName),
             \A j \in (i + 1)..Len(stack) : ~StopsAt(kind, j),
             Continue(<<CloseAllTask(Len(stack), i)>> \o Tail(todo))
      PROVE  Careful(call.api, call.name, todo)'
  <2>1. CASE TakesMarkers(call.api, call.name)
    BY <1>1, <1>3, <2>1, WalkCareful
  <2>2. CASE ~TakesMarkers(call.api, call.name)
    <3>1. kind # "marker" /\ Head(todo).name = call.name /\ call.name # NoName
      BY <1>1, <2>2 DEF MarkerInv, Careful, Respects, TakesMarkers
    <3>2. name # NoName
      <4>1. call.name \in AllNames
        BY <1>1, <3>1 DEF TypeOK, Calls
      <4> QED BY <3>1, <4>1, NamesAssumption
    <3>3. \A j \in i..Len(stack) : stack[j].state # "marker"
      BY <1>3, <3>1, <3>2 DEF StopsAt
    <3> QED BY <1>1, <1>3, <3>3, WalkCareful
  <2> QED BY <2>1, <2>2
<1> QED BY <1>2, <1>3 DEF SearchStep

LEMMA CloseAllCareful ==
    ASSUME MarkerInv, CloseAllStep
    PROVE  Careful(call.api, call.name, todo)'
<1> DEFINE at == Head(todo).at
           limit == Head(todo).limit
<1>1. /\ TypeOK /\ todo # <<>> /\ GoodStack(stack) /\ Len(stack) \in Nat \ {0}
      /\ at \in 1..Len(stack) /\ limit \in 1..at /\ Head(todo).op = "close_all"
      /\ Head(todo) = todo[1] /\ 1 \in DOMAIN todo
  BY WalkedFrame, TodoFacts DEF CloseAllStep, MarkerInv, Working
<1>2. GoodStack(stack') /\ (SameConstructs(stack, stack') \/ PoppedTo(stack, stack'))
  BY CloseAllTurn DEF MarkerInv
<1>3. Continue(IF at > limit THEN <<CloseAllTask(at - 1, limit)>> \o Tail(todo)
               ELSE Tail(todo))
  BY DEF FrameBelow, CloseAllStep
<1>4. \/ TakesMarkers(call.api, call.name)
      \/ \A j \in limit..Len(stack) : stack[j].state # "marker"
  BY <1>1 DEF MarkerInv, Careful, ClearWay
<1> HIDE DEF at, limit
<1>5. \/ TakesMarkers(call.api, call.name)
      \/ \A j \in limit..Len(stack') : stack'[j].state # "marker"
  <2>1. /\ Len(stack') \in Nat /\ Len(stack') <= Len(stack)
        /\ \A j \in 1..Len(stack') : stack'[j].state = stack[j].state
    BY <1>1, <1>2, StackLen DEF SameConstructs, PoppedTo
  <2> QED BY <1>1, <1>4, <2>1
<1>6. CASE at > limit
  <2>1. at - 1 \in Nat /\ limit \in Nat
    BY <1>1, <1>6
  <2> QED BY <1>1, <1>3, <1>5, <1>6, <2>1, WalkCareful
<1>7. CASE ~(at > limit)
  BY <1>1, <1>3, <1>7, RestCareful
<1> QED BY <1>6, <1>7

LEMMA StepCareful ==
    ASSUME MarkerInv, Step
    PROVE  Careful(call.api, call.name, todo)'
<1>1. CASE OpenStep \/ CloseStep \/ ValueStep \/ FinishStep
  <2>1. todo # <<>> /\ \E tasks \in {Tail(todo), AfterError} : Continue(tasks)
    BY <1>1 DEF OpenStep, CloseStep, ValueStep, FinishStep, Working
  <2> QED BY <2>1, RestCareful
<1> QED BY <1>1, SearchCareful, CloseAllCareful DEF Step
-----------------------------------------------------------------------------
(* The calls *)

\* What every call but OpenMarker does
CarefulBegun ==
    \E tasks : \E api \in Apis, name \in AllNames \cup {NoName} :
        Begin(api, name, tasks) /\ Careful(api, name, tasks)

Harmless(api, name, t) == Respects(api, name, t) /\ t.op # "close_all"

LEMMA CarefulOne ==
    ASSUME NEW api, NEW name, NEW t, Harmless(api, name, t)
    PROVE  Careful(api, name, <<t>>)
BY DEF Careful, Harmless, ClearWay

LEMMA CarefulTwo ==
    ASSUME NEW api, NEW name, NEW t, NEW u, Harmless(api, name, t), Harmless(api, name, u),
           u.op # "close"
    PROVE  Careful(api, name, <<t, u>>)
BY DEF Careful, Harmless, ClearWay

LEMMA CarefulThree ==
    ASSUME NEW api, NEW name, NEW t, NEW u, NEW v, Harmless(api, name, t),
           Harmless(api, name, u), Harmless(api, name, v), u.op # "close", v.op # "close"
    PROVE  Careful(api, name, <<t, u, v>>)
BY DEF Careful, Harmless, ClearWay

LEMMA HarmlessTasks ==
    ASSUME NEW api, NEW name, NEW any
    PROVE  /\ \A kind : /\ OpenTask(kind, any).op = "open"
                        /\ Harmless(api, name, OpenTask(kind, any))
                        /\ CloseTask(kind, any).op = "close"
                        /\ ~OnMarker => Harmless(api, name, CloseTask(kind, any))
                        /\ SearchTask(kind, name).op = "search"
                        /\ kind # "marker" => Harmless(api, name, SearchTask(kind, name))
           /\ \A role, ok : /\ ValueTask(role, ok).op = "value"
                            /\ Harmless(api, name, ValueTask(role, ok))
           /\ Harmless(api, name, FinishTask)
BY DEF Harmless, Respects, OpenTask, CloseTask, SearchTask, ValueTask, FinishTask

LEMMA CarefulStarted ==
    ASSUME NEW api \in Apis, NEW name \in AllNames \cup {NoName}, NEW tasks,
           Does(api, name, tasks) \/ Complains(api, name, tasks), Careful(api, name, tasks)
    PROVE  CarefulBegun
BY DEF CarefulBegun, Does, Complains

LEMMA CarefulRefused ==
    ASSUME NEW api \in Apis, NEW name \in AllNames \cup {NoName},
           Complains(api, name, <<>>)
    PROVE  CarefulBegun
BY CarefulStarted DEF Careful

LEMMA OpensCareful ==
    ASSUME NEW n \in Names,
           OpenContainer(n) \/ OpenList(n) \/ OpenInstance(n) \/ OpenLeafList(n)
    PROVE  CarefulBegun
<1>1. n \in AllNames \cup {NoName}
  BY NameFacts
<1>2. ASSUME NEW api \in Apis,
             \/ Complains(api, n, <<>>)
             \/ \E kind : Does(api, n, <<OpenTask(kind, n)>>)
             \/ \E k1, k2 : Does(api, n, <<OpenTask(k1, n), OpenTask(k2, n)>>)
             \/ ~OnMarker /\ \E k1, k2 :
                  Does(api, n, <<CloseTask(k1, NoName), OpenTask(k2, n)>>)
      PROVE  CarefulBegun
  <2>1. CASE Complains(api, n, <<>>)
    BY <1>1, <2>1, CarefulRefused
  <2>2. ASSUME NEW kind, Does(api, n, <<OpenTask(kind, n)>>)
        PROVE  CarefulBegun
    BY <1>1, <2>2, CarefulOne, CarefulStarted, HarmlessTasks
  <2>3. ASSUME NEW k1, NEW k2, Does(api, n, <<OpenTask(k1, n), OpenTask(k2, n)>>)
        PROVE  CarefulBegun
    <3>1. OpenTask(k2, n).op # "close"
      BY DEF OpenTask
    <3> QED BY <1>1, <2>3, <3>1, CarefulTwo, CarefulStarted, HarmlessTasks
  <2>4. ASSUME ~OnMarker, NEW k1, NEW k2,
               Does(api, n, <<CloseTask(k1, NoName), OpenTask(k2, n)>>)
        PROVE  CarefulBegun
    <3>1. OpenTask(k2, n).op # "close"
      BY DEF OpenTask
    <3> QED BY <1>1, <2>4, <3>1, CarefulTwo, CarefulStarted, HarmlessTasks
  <2> QED BY <1>2, <2>1, <2>2, <2>3, <2>4
<1>3. /\ "open_container" \in Apis /\ "open_list" \in Apis
      /\ "open_instance" \in Apis /\ "open_leaf_list" \in Apis
  BY DEF Apis
<1>4. CASE OpenContainer(n)
  BY <1>2, <1>3, <1>4 DEF OpenContainer, PreventedByMarker
<1>5. CASE OpenList(n)
  BY <1>2, <1>3, <1>5 DEF OpenList, PreventedByMarker
<1>6. CASE OpenInstance(n)
  BY <1>2, <1>3, <1>6 DEF OpenInstance, PreventedByMarker
<1>7. CASE OpenLeafList(n)
  BY <1>2, <1>3, <1>7 DEF OpenLeafList, PreventedByMarker
<1> QED BY <1>4, <1>5, <1>6, <1>7

LEMMA ClosesCareful ==
    ASSUME NEW n \in Names \cup {NoName},
           CloseContainer(n) \/ CloseList(n) \/ CloseInstance(n) \/ CloseLeafList(n)
    PROVE  CarefulBegun
<1>1. n \in AllNames \cup {NoName}
  BY NameFacts
<1>2. ASSUME NEW api \in Apis,
             \/ Complains(api, n, <<>>)
             \/ ~OnMarker /\ \E kind : Does(api, n, <<CloseTask(kind, n)>>)
             \/ \E kind \in Kinds : Does(api, n, <<SearchTask(kind, n)>>)
             \/ ~OnMarker /\ \E k1, k2 \in Kinds :
                  Does(api, n, <<CloseTask(k1, NoName), SearchTask(k2, n)>>)
      PROVE  CarefulBegun
  <2>1. CASE Complains(api, n, <<>>)
    BY <1>1, <2>1, CarefulRefused
  <2>2. ASSUME ~OnMarker, NEW kind, Does(api, n, <<CloseTask(kind, n)>>)
        PROVE  CarefulBegun
    BY <1>1, <2>2, CarefulOne, CarefulStarted, HarmlessTasks
  <2>3. ASSUME NEW kind \in Kinds, Does(api, n, <<SearchTask(kind, n)>>)
        PROVE  CarefulBegun
    <3>1. kind # "marker"
      BY DEF Kinds
    <3> QED BY <1>1, <2>3, <3>1, CarefulOne, CarefulStarted, HarmlessTasks
  <2>4. ASSUME ~OnMarker, NEW k1, NEW k2 \in Kinds,
               Does(api, n, <<CloseTask(k1, NoName), SearchTask(k2, n)>>)
        PROVE  CarefulBegun
    <3>1. SearchTask(k2, n).op # "close" /\ k2 # "marker"
      BY DEF SearchTask, Kinds
    <3> QED BY <1>1, <2>4, <3>1, CarefulTwo, CarefulStarted, HarmlessTasks
  <2> QED BY <1>2, <2>1, <2>2, <2>3, <2>4
<1>3. /\ "close_container" \in Apis /\ "close_list" \in Apis
      /\ "close_instance" \in Apis /\ "close_leaf_list" \in Apis
  BY DEF Apis
<1>4. "container" \in Kinds /\ "list" \in Kinds /\ "instance" \in Kinds /\ "leaf_list" \in Kinds
  BY DEF Kinds
<1>5. CASE CloseContainer(n)
  <2>1. CASE Real.state = "init" /\ Does("close_container", n, <<CloseTask("container", n)>>)
    <3>1. Harmless("close_container", n, CloseTask("container", n))
      BY <2>1 DEF Harmless, Respects, CloseTask
    <3> QED BY <1>1, <1>3, <2>1, <3>1, CarefulOne, CarefulStarted
  <2>2. CASE ~(Real.state = "init" /\ Does("close_container", n, <<CloseTask("container", n)>>))
    BY <1>2, <1>3, <1>4, <1>5, <2>2 DEF CloseContainer, PreventedByMarker
  <2> QED BY <2>1, <2>2
<1>6. CASE CloseList(n)
  BY <1>2, <1>3, <1>4, <1>6 DEF CloseList, PreventedByMarker
<1>7. CASE CloseInstance(n)
  BY <1>2, <1>3, <1>4, <1>7 DEF CloseInstance, PreventedByMarker
<1>8. CASE CloseLeafList(n)
  BY <1>2, <1>3, <1>4, <1>8 DEF CloseLeafList, PreventedByMarker
<1> QED BY <1>5, <1>6, <1>7, <1>8

LEMMA FieldsCareful ==
    ASSUME \/ \E n \in Names : EmitLeafList(n)
           \/ \E role \in Roles : Emit(role)
    PROVE  CarefulBegun
<1>1. "emit" \in Apis /\ "emit_leaf_list" \in Apis
  BY DEF Apis
<1>2. ASSUME NEW api \in Apis, NEW n \in AllNames \cup {NoName}, NEW role, NEW tasks,
             Does(api, n, tasks) \/ Complains(api, n, tasks),
             \/ \E ok : tasks = <<ValueTask(role, ok)>>
             \/ \E kind, m : tasks = <<OpenTask(kind, m), ValueTask(role, TRUE)>>
             \/ n = NoName /\ tasks = <<SearchTask("list", NoName), ValueTask(role, TRUE)>>
             \/ ~OnMarker /\ tasks = <<CloseTask("leaf_list", NoName), ValueTask(role, TRUE)>>
             \/ ~OnMarker /\ \E kind, m :
                  tasks = <<CloseTask("leaf_list", NoName), OpenTask(kind, m),
                            ValueTask(role, TRUE)>>
      PROVE  CarefulBegun
  <2>1. Careful(api, n, tasks)
    <3>1. /\ ValueTask(role, TRUE).op # "close"
          /\ \A kind, m : OpenTask(kind, m).op # "close"
      BY DEF ValueTask, OpenTask
    <3>2. Harmless(api, n, ValueTask(role, TRUE))
      BY HarmlessTasks
    <3>3. ASSUME NEW ok, tasks = <<ValueTask(role, ok)>>
          PROVE  Careful(api, n, tasks)
      BY <3>3, CarefulOne, HarmlessTasks
    <3>4. ASSUME NEW kind, NEW m, tasks = <<OpenTask(kind, m), ValueTask(role, TRUE)>>
          PROVE  Careful(api, n, tasks)
      BY <3>1, <3>2, <3>4, CarefulTwo, HarmlessTasks
    <3>5. CASE n = NoName /\ tasks = <<SearchTask("list", NoName), ValueTask(role, TRUE)>>
      BY <3>1, <3>2, <3>5, CarefulTwo, HarmlessTasks
    <3>6. CASE ~OnMarker /\ tasks = <<CloseTask("leaf_list", NoName), ValueTask(role, TRUE)>>
      BY <3>1, <3>2, <3>6, CarefulTwo, HarmlessTasks
    <3>7. ASSUME ~OnMarker, NEW kind, NEW m,
                 tasks = <<CloseTask("leaf_list", NoName), OpenTask(kind, m),
                           ValueTask(role, TRUE)>>
          PROVE  Careful(api, n, tasks)
      <4>1. Harmless(api, n, CloseTask("leaf_list", NoName)) /\ Harmless(api, n, OpenTask(kind, m))
        BY <3>7, HarmlessTasks
      <4> QED BY <3>1, <3>2, <3>7, <4>1, CarefulThree
    <3> QED BY <1>2, <3>3, <3>4, <3>5, <3>6, <3>7
  <2> QED BY <1>2, <2>1, CarefulStarted
<1>3. ASSUME NEW n \in Names, EmitLeafList(n) PROVE CarefulBegun
  <2>1. n \in AllNames \cup {NoName}
    BY NameFacts
  <2> QED BY <1>1, <1>2, <1>3, <2>1 DEF EmitLeafList
<1>4. ASSUME NEW role \in Roles, Emit(role) PROVE CarefulBegun
  <2>1. CASE Begin("emit", NoName, <<ValueTask("value", TRUE)>>)
    BY <1>1, <2>1, CarefulOne, HarmlessTasks DEF CarefulBegun
  <2>2. CASE Begin("emit", NoName, <<ValueTask(role, TRUE)>>)
    BY <1>1, <2>2, CarefulOne, HarmlessTasks DEF CarefulBegun
  <2>3. \/ \E late : Begin("emit", NoName, <<ValueTask(IF late THEN "value" ELSE role, TRUE)>>)
        \/ Does("emit", NoName, <<ValueTask(role, TRUE)>>)
        \/ Complains("emit", NoName, <<OpenTask("container", FakeTopName), ValueTask(role, TRUE)>>)
        \/ Complains("emit", NoName, <<ValueTask(role, FALSE)>>)
        \/ Does("emit", NoName, <<SearchTask("list", NoName), ValueTask(role, TRUE)>>)
        \/ ~OnMarker /\ Does("emit", NoName, <<CloseTask("leaf_list", NoName), ValueTask(role, TRUE)>>)
    BY <1>4 DEF Emit
  <2> QED BY <1>1, <1>2, <2>1, <2>2, <2>3
<1> QED BY <1>3, <1>4

LEMMA OthersCareful ==
    ASSUME Finish \/ \E n \in MarkerNames \cup {NoName} : CloseMarker(n)
    PROVE  CarefulBegun
<1>1. "finish" \in Apis /\ "close_marker" \in Apis
  BY DEF Apis
<1>2. CASE Finish
  <2>1. Careful("finish", NoName, <<FinishTask>>)
    BY CarefulOne, HarmlessTasks
  <2>2. Careful("finish", NoName, <<CloseAllTask(Len(stack), 1), FinishTask>>)
    BY DEF Careful, Respects, ClearWay, TakesMarkers, CloseAllTask, FinishTask
  <2> QED BY <1>1, <1>2, <2>1, <2>2, CarefulStarted DEF Finish
<1>3. ASSUME NEW n \in MarkerNames \cup {NoName}, CloseMarker(n) PROVE CarefulBegun
  <2>1. n \in AllNames \cup {NoName}
    BY NameFacts
  <2>2. Harmless("close_marker", n, SearchTask("marker", n))
    BY DEF Harmless, Respects, SearchTask
  <2> QED BY <1>1, <1>3, <2>1, <2>2, CarefulOne, CarefulStarted DEF CloseMarker
<1> QED BY <1>2, <1>3

LEMMA CallCareful ==
    ASSUME Call
    PROVE  CarefulBegun \/ \E n \in MarkerNames : OpenMarker(n)
BY OpensCareful, ClosesCareful, FieldsCareful, OthersCareful DEF Call

LEMMA MarkerInvInit == Init => MarkerInv
<1> SUFFICES ASSUME Init PROVE MarkerInv
  OBVIOUS
<1>1. Careful(call.api, call.name, todo)
  BY DEF Init, Careful
<1>2. todo = <<>>
  BY DEF Init
<1> QED BY <1>1, <1>2, TypeInvInit DEF MarkerInv

LEMMA MarkerInvNext ==
    ASSUME MarkerInv, [Next]_vars
    PROVE  MarkerInv'
<1>1. TypeInv'
  BY TypeInvNext DEF MarkerInv
<1>2. Careful(call.api, call.name, todo)'
  <2>1. CASE CarefulBegun
    <3>1. PICK tasks : \E api \in Apis, name \in AllNames \cup {NoName} :
            Begin(api, name, tasks) /\ Careful(api, name, tasks)
      BY <2>1 DEF CarefulBegun
    <3> PICK api \in Apis, name \in AllNames \cup {NoName} :
            Begin(api, name, tasks) /\ Careful(api, name, tasks)
      BY <3>1
    <3>2. UNCHANGED stack /\ todo' = tasks
      BY <3>1 DEF Begin
    <3>3. CASE tasks = <<>>
      BY <3>2, <3>3 DEF Careful
    <3>4. CASE tasks # <<>>
      <4>1. call'.api = api /\ call'.name = name
        BY <3>1, <3>4 DEF Begin
      <4>2. (OnMarker' <=> OnMarker) /\ Real' = Real
        BY <3>2 DEF OnMarker, Top, Real
      <4> QED BY <3>1, <3>2, <4>1, <4>2 DEF Careful, Respects, ClearWay
    <3> QED BY <3>3, <3>4
  <2>2. CASE \E n \in MarkerNames : OpenMarker(n)
    <3>1. todo' = <<>>
      BY <2>2 DEF OpenMarker, MarkerInv
    <3> QED BY <3>1 DEF Careful
  <2>3. CASE UNCHANGED vars
    BY <2>3 DEF vars, MarkerInv, Careful, Respects, ClearWay, OnMarker, Top, Real
  <2> QED BY <2>1, <2>2, <2>3, StepCareful, CallCareful DEF Next
<1>3. call' = Idle => todo' = <<>>
  <2>1. ASSUME Step PROVE todo # <<>> /\ \E tasks : Continue(tasks)
    BY <2>1 DEF Step, OpenStep, CloseStep, SearchStep, CloseAllStep, ValueStep, FinishStep,
                Working
  <2>2. CASE Step
    BY <2>1, <2>2 DEF Continue, MarkerInv
  <2>3. CASE CarefulBegun
    BY <2>3 DEF CarefulBegun, Begin, Idle, Apis
  <2>4. CASE (\E n \in MarkerNames : OpenMarker(n)) \/ UNCHANGED vars
    BY <2>4 DEF OpenMarker, vars, MarkerInv
  <2> QED BY <2>2, <2>3, <2>4, CallCareful DEF Next
<1> QED BY <1>1, <1>2, <1>3 DEF MarkerInv

\* Only a close and a turn of a walk pop, and they pop the top frame.
LEMMA WhoPops ==
    ASSUME TypeInv, [Next]_vars, NEW i \in DOMAIN stack, i \notin DOMAIN stack'
    PROVE  i = Len(stack) /\ (CloseStep \/ CloseAllStep)
<1>1. GoodStack(stack) /\ Len(stack) \in Nat /\ DOMAIN stack = 1..Len(stack) /\ TypeOK
  BY TypeFacts, StackLen DEF TypeInv
<1>2. \/ CloseStep \/ CloseAllStep
      \/ UNCHANGED stack
      \/ Len(stack') >= Len(stack) /\ GoodStack(stack')
  <2>1. CASE Call
    <3>1. CASE CarefulBegun
      BY <3>1 DEF CarefulBegun, Begin
    <3>2. CASE \E n \in MarkerNames : OpenMarker(n)
      BY <1>1, <3>2, OpenMarkerTurn DEF PushedTo
    <3> QED BY <2>1, <3>1, <3>2, CallCareful
  <2>2. CASE OpenStep
    <3>1. Head(todo).kind \in Kinds /\ Head(todo).name \in AllNames
      BY <1>1, <2>2, TodoFacts, TaskFields DEF OpenStep, Working
    <3> QED BY <1>1, <2>2, <3>1, OpenMeans, DoOpenStep
  <2>3. CASE ValueStep
    BY <1>1, <2>3, ValueTurn DEF SameConstructs
  <2>4. CASE SearchStep \/ FinishStep \/ UNCHANGED vars
    BY <2>4 DEF SearchStep, FinishStep, vars
  <2> QED BY <2>1, <2>2, <2>3, <2>4 DEF Next, Step
<1>3. CloseStep \/ CloseAllStep
  <2>1. CASE GoodStack(stack') /\ Len(stack') >= Len(stack)
    BY <1>1, <2>1, StackLen
  <2> QED BY <1>2, <2>1
<1>4. GoodStack(stack') /\ (SameConstructs(stack, stack') \/ PoppedTo(stack, stack'))
  <2>1. CASE CloseStep
    <3>1. Head(todo).kind \in Kinds /\ Head(todo).name \in AllNames \cup {NoName}
      BY <1>1, <2>1, TodoFacts, TaskFields DEF CloseStep, Working
    <3>2. DoClose(Head(todo).kind, Head(todo).name)
      BY <2>1, ClosesMeans DEF CloseStep
    <3> QED BY <1>1, <3>1, <3>2, DoCloseStep
  <2>2. CASE CloseAllStep
    BY <2>2, CloseAllTurn
  <2> QED BY <1>3, <2>1, <2>2
<1>5. i = Len(stack)
  <2>1. DOMAIN stack' = 1..Len(stack') /\ Len(stack') \in Nat
    BY <1>4, StackLen
  <2>2. PoppedTo(stack, stack')
    BY <1>4 DEF SameConstructs
  <2>3. Len(stack') = Len(stack) - 1
    BY <2>2 DEF PoppedTo
  <2> QED BY <1>1, <2>1, <2>3
<1> QED BY <1>3, <1>5

\* However many constructs a caller leaves open, closes out of place or names
\* wrongly, inside a marker or around it, in any style and with any name map:
\* a marker goes only when the caller closes it, finishes, closes
\* without a name, or closes a container when it has none
\* (xo_do_close, libxo.c:10372).
THEOREM MarkersStay == Spec => MarkerStays
<1>1. ASSUME MarkerInv, [Next]_vars,
             NEW i \in DOMAIN stack, stack[i].state = "marker", i \notin DOMAIN stack'
      PROVE  \/ call.api \in {"close_marker", "finish"}
             \/ call.name = NoName
             \/ call.api = "close_container" /\ Real.state = "init"
  <2>1. i = Len(stack) /\ (CloseStep \/ CloseAllStep) /\ TypeOK
    BY <1>1, WhoPops DEF MarkerInv, TypeInv
  <2>2. CASE CloseStep
    <3>1. 1 \in DOMAIN todo /\ todo[1].op = "close" /\ OnMarker
      BY <1>1, <2>1, <2>2, TodoFacts DEF CloseStep, Working, OnMarker, Top
    <3> QED BY <1>1, <3>1 DEF MarkerInv, Careful, Respects
  <2>3. CASE CloseAllStep
    <3>1. /\ 1 \in DOMAIN todo /\ todo[1].op = "close_all"
          /\ Head(todo) = todo[1] /\ todo # <<>> /\ Working("close_all")
      BY <2>1, <2>3, TodoFacts DEF CloseAllStep, Working
    <3>2. todo[1].at \in 1..Len(stack) /\ todo[1].limit \in 1..todo[1].at
          /\ Len(stack) \in Nat
      BY <1>1, <3>1, WalkedFrame DEF MarkerInv
    <3>3. i \in todo[1].limit..Len(stack)
      BY <2>1, <3>2
    <3> QED BY <1>1, <3>1, <3>3 DEF MarkerInv, Careful, ClearWay, TakesMarkers
  <2> QED BY <2>1, <2>2, <2>3
<1>2. MarkerInv /\ [Next]_vars =>
        [\A i \in DOMAIN stack :
            stack[i].state = "marker" /\ i \notin DOMAIN stack' =>
                \/ call.api \in {"close_marker", "finish"}
                \/ call.name = NoName
                \/ call.api = "close_container" /\ Real.state = "init"]_vars
  BY <1>1
<1>3. Spec => []MarkerInv
  BY MarkerInvInit, MarkerInvNext, PTL DEF Spec
<1> QED BY <1>2, <1>3, PTL DEF Spec, MarkerStays

=============================================================================
