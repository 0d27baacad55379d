-------------------------- MODULE XoEncodersProofs --------------------------
(* The encoders of XoEncoders against the document they are told, for every *)
(* set of names, every options and every length of the document.            *)
EXTENDS XoEncoders, SequenceTheorems, WellFoundedInduction, TLAPS

-----------------------------------------------------------------------------
(* What is open *)

Kinds == {"document", "container", "list", "leaf_list", "instance"}
OpenKinds == {"container", "list", "leaf_list", "instance"}
Labels == Containers \cup Lists \cup LeafLists \cup Fields \cup {NoName}

Elements ==
    [kind : Kinds, name : Labels, id : Nat, verdict : Verdicts, tentative : BOOLEAN, mark : Nat,
     keys : Seq(KeyFields \X Nat), used : SUBSET Labels]

\* Lists hold instances, and only they do; leaf-lists hold no elements.
Nested(o) ==
    /\ Len(o) >= 1 /\ o[1].kind = "document" /\ o[1].id = 0
    /\ \A i \in 2..Len(o) :
          /\ o[i].kind \in OpenKinds
          /\ o[i].kind = "instance" <=> o[i - 1].kind = "list"
          /\ o[i - 1].kind # "leaf_list"

Elems(o) == o \in Seq(Elements) /\ Nested(o)

\* What an element is told apart by, and what stays of it when it is given a
\* member or the filter has made up its mind.
Like(e, f) == e.kind = f.kind /\ e.name = f.name /\ e.id = f.id /\ e.mark = f.mark

\* p has the first n elements of o.
Lower(o, p, n) == \A i \in 1..n : Like(o[i], p[i]) /\ p[i].keys = o[i].keys

OpNames ==
    {"open_container", "open_list", "open_leaf_list", "open_instance",
     "close_container", "close_list", "close_leaf_list", "close_instance", "field", "item"}

Operations ==
    [op : OpNames, name : Labels, value : Nat \cup {NoName}, flags : SUBSET {"key", "dense"}]

Told ==
    [what : Operations, within : Seq([kind : Kinds, name : Labels, id : Nat])]

Marked(o, k) ==
    \A i, j \in 1..Len(o) : i <= j => o[i].mark <= o[j].mark /\ o[j].mark <= Len(k)

DocInv ==
    /\ setup \in Setups
    /\ Elems(open)
    /\ kept \in Seq(Told)
    /\ Marked(open, kept)
    /\ count \in Nat
    /\ done \in BOOLEAN
    /\ done => Len(open) = 1
    /\ ~setup.filtered => \A i \in 1..Len(open) : ~open[i].tentative

-----------------------------------------------------------------------------
(* The steps, told apart by what they do to what is open *)

\* Where an element of this kind and name may be opened
Fits(kind, name) ==
    \/ kind = "instance" /\ Top.kind = "list" /\ name = Top.name
    \/ /\ kind \in {"container", "list", "leaf_list"}
       /\ Top.kind \in {"document", "container", "instance"}
       /\ name \in CASE kind = "container" -> Containers
                     [] kind = "list" -> Lists
                     [] kind = "leaf_list" -> LeafLists
       /\ kind # "leaf_list" => NotInside(name)

LEMMA SetupFacts ==
    ASSUME NEW s \in Setups
    PROVE  /\ s.filtered \in BOOLEAN
           /\ s.csv.path \in Seq(Containers \cup Lists \cup LeafLists)
           /\ s.csv.leafs \in Seq(Fields)
           /\ s.csv.flushes \in BOOLEAN /\ s.csv.noHeader \in BOOLEAN /\ s.junk \in BOOLEAN
<1>1. s \in SetupSet
  BY SetupsAssumption
<1> QED BY <1>1 DEF SetupSet

LEMMA TopFacts ==
    ASSUME NEW o, Elems(o)
    PROVE  /\ Len(o) \in Nat /\ Len(o) >= 1 /\ Len(o) \in 1..Len(o)
           /\ \A i \in 1..Len(o) : o[i] \in Elements
           /\ \A i \in 1..Len(o) : /\ o[i].kind \in Kinds /\ o[i].name \in Labels /\ o[i].id \in Nat
                                  /\ o[i].keys \in Seq(KeyFields \X Nat) /\ o[i].used \in SUBSET Labels
                                  /\ o[i].mark \in Nat /\ o[i].tentative \in BOOLEAN
                                  /\ o[i].verdict \in Verdicts
           /\ DOMAIN o = 1..Len(o)
<1>1. o \in Seq(Elements) /\ Len(o) >= 1
  BY DEF Elems, Nested
<1>2. Len(o) \in Nat /\ DOMAIN o = 1..Len(o) /\ \A i \in 1..Len(o) : o[i] \in Elements
  BY <1>1
<1>3. \A e \in Elements : /\ e.kind \in Kinds /\ e.name \in Labels /\ e.id \in Nat
                          /\ e.keys \in Seq(KeyFields \X Nat) /\ e.used \in SUBSET Labels
                          /\ e.mark \in Nat /\ e.tentative \in BOOLEAN
                          /\ e.verdict \in Verdicts
  BY DEF Elements
<1> QED BY <1>1, <1>2, <1>3

\* The element that the filter is asked about, and what it may say
LEMMA VerdictFacts ==
    ASSUME Elems(open)
    PROVE  /\ Verdict \in Verdicts
           /\ VerdictsInside \subseteq Verdicts
           /\ VerdictsAfterKey \subseteq Verdicts
           /\ VerdictsAfterField \subseteq Verdicts
<1>1. Judged(open) \in 1..Len(open)
  <2>1. Len(open) \in Nat /\ Len(open) >= 1 /\ open[1].kind = "document"
    BY TopFacts DEF Elems, Nested
  <2>2. Last(open) = open[Len(open)]
    BY DEF Last
  <2> QED BY <2>1, <2>2 DEF Judged
<1>2. Verdict \in Verdicts
  BY <1>1, TopFacts DEF Verdict
<1> QED BY <1>2 DEF VerdictsInside, VerdictsAfterKey, VerdictsAfterField, Verdicts

LEMMA Steps ==
    ASSUME DocInv, Next
    PROVE  \/ \E kind \in OpenKinds, name \in Labels, v \in Verdicts, flags \in SUBSET {"dense"} :
                  Fits(kind, name) /\ OpenOne(kind, name, v, flags)
           \/ \E name \in Fields : Field(name)
           \/ Item
           \/ Close
           \/ Skip
           \/ Flush
           \/ Finish
<1>1. VerdictsInside \subseteq Verdicts /\ "none" \in Verdicts
  BY VerdictFacts DEF DocInv, Verdicts
<1>2. ASSUME NEW name \in Containers, OpenContainer(name)
      PROVE  \E v \in Verdicts, flags \in SUBSET {"dense"} :
                  Fits("container", name) /\ OpenOne("container", name, v, flags)
  BY <1>1, <1>2 DEF OpenContainer, Fits, Holds
<1>3. ASSUME NEW name \in Lists, OpenList(name)
      PROVE  \E v \in Verdicts, flags \in SUBSET {"dense"} :
                  Fits("list", name) /\ OpenOne("list", name, v, flags)
  <2> DEFINE flags == IF name \in setup.denseLists THEN {"dense"} ELSE {}
  <2>1. flags \in SUBSET {"dense"}
    OBVIOUS
  <2>2. Fits("list", name) /\ OpenOne("list", name, "none", flags)
    BY <1>3 DEF OpenList, Fits, Holds
  <2> QED BY <1>1, <2>1, <2>2
<1>4. ASSUME OpenInstance
      PROVE  \E name \in Labels, v \in Verdicts, flags \in SUBSET {"dense"} :
                  Fits("instance", name) /\ OpenOne("instance", name, v, flags)
  <2>1. PICK v \in Verdicts : OpenOne("instance", Top.name, v, {})
    BY <1>1, <1>4 DEF OpenInstance
  <2>2. Fits("instance", Top.name)
    BY <1>4 DEF OpenInstance, Fits, Holds
  <2>3. Top.name \in Labels
    BY TopFacts DEF DocInv, Top
  <2> QED BY <2>1, <2>2, <2>3
<1>5. ASSUME NEW name \in LeafLists, OpenLeafList(name)
      PROVE  \E v \in Verdicts, flags \in SUBSET {"dense"} :
                  Fits("leaf_list", name) /\ OpenOne("leaf_list", name, v, flags)
  BY <1>1, <1>5 DEF OpenLeafList, Fits, Holds
<1> QED BY <1>2, <1>3, <1>4, <1>5 DEF Next, OpenKinds, Labels

-----------------------------------------------------------------------------
(* What a step makes of what is open *)

\* The element at the top after it was given a member.
WithMember(o, name, k) ==
    [o EXCEPT ![Len(o)] = [o[Len(o)] EXCEPT !.used = @ \cup {name}, !.keys = k]]

\* p is o, but that the top has these keys.
Keyed(o, p, k) ==
    /\ Elems(p) /\ Len(p) = Len(o)
    /\ Lower(o, p, Len(o) - 1) /\ Like(o[Len(o)], p[Len(o)]) /\ p[Len(o)].keys = k
    /\ \A i \in 1..Len(o) : p[i].tentative => o[i].tentative

LEMMA UsingFacts ==
    ASSUME NEW o, Elems(o), NEW name \in Labels,
           NEW k \in Seq(KeyFields \X Nat)
    PROVE  Keyed(o, WithMember(o, name, k), k)
<1> DEFINE n == Len(o)
           e == [o[n] EXCEPT !.used = @ \cup {name}, !.keys = k]
           p == [o EXCEPT ![n] = e]
<1>1. n \in Nat /\ n >= 1 /\ n \in 1..n /\ o[n] \in Elements /\ o \in Seq(Elements)
      /\ o[n].used \in SUBSET Labels
  BY TopFacts DEF Elems
<1>2. e \in Elements
  BY <1>1 DEF Elements
<1>3. Like(o[n], e) /\ e.keys = k /\ e.tentative = o[n].tentative
  BY <1>1 DEF Elements, Like
<1> HIDE DEF e
<1>4. p \in Seq(Elements) /\ Len(p) = n /\ \A i \in 1..n : p[i] = IF i = n THEN e ELSE o[i]
  BY <1>1, <1>2, ExceptSeq
<1> HIDE DEF p, n
<1>5. Lower(o, p, n - 1)
  BY <1>1, <1>4 DEF Lower, Like
<1>6. \A i \in 1..n : p[i].tentative => o[i].tentative
  BY <1>3, <1>4
<1>7. Nested(p)
  <2>1. \A i \in 1..n : p[i].kind = o[i].kind /\ p[i].id = o[i].id
    BY <1>3, <1>4 DEF Like
  <2>2. \A i \in 2..n : i \in 1..n /\ i - 1 \in 1..n
    BY <1>1
  <2>3. Nested(o) /\ 1 \in 1..n
    BY <1>1 DEF Elems
  <2> QED BY <1>1, <1>4, <2>1, <2>2, <2>3 DEF Nested, n
<1>8. Elems(p)
  BY <1>4, <1>7 DEF Elems
<1>9. p[n] = e
  BY <1>1, <1>4
<1>10. WithMember(o, name, k) = p
  BY DEF WithMember, p, e, n
<1> QED BY <1>1, <1>3, <1>4, <1>5, <1>6, <1>8, <1>9, <1>10 DEF n, Keyed

\* The filter has made up its mind about elements: what they are told apart by
\* stays, and nothing becomes tentative.
Same(o, p) ==
    /\ Elems(p) /\ Len(p) = Len(o) /\ Lower(o, p, Len(o))
    /\ \A i \in 1..Len(o) : p[i].used = o[i].used /\ (p[i].tentative => o[i].tentative)

LEMMA SameFacts ==
    ASSUME NEW o, Elems(o), NEW p \in Seq(Elements), Len(p) = Len(o),
           \A i \in 1..Len(o) : /\ Like(o[i], p[i]) /\ p[i].keys = o[i].keys
                                /\ p[i].used = o[i].used
                                /\ p[i].tentative => o[i].tentative
    PROVE  Same(o, p)
<1> DEFINE n == Len(o)
<1>1. n \in Nat /\ n >= 1 /\ 1 \in 1..n /\ \A i \in 2..n : i \in 1..n /\ i - 1 \in 1..n
  BY TopFacts
<1>2. \A i \in 1..n : p[i].kind = o[i].kind /\ p[i].id = o[i].id
  BY DEF Like
<1>3. Nested(p)
  BY <1>1, <1>2 DEF Elems, Nested
<1> QED BY <1>3 DEF Same, Elems, Lower

LEMMA SameTwice ==
    ASSUME NEW o, NEW p, NEW q, Same(o, p), Same(p, q)
    PROVE  Same(o, q)
BY DEF Same, Lower, Like

LEMMA KeyedSame ==
    ASSUME NEW o, Elems(o), NEW p, NEW k, Keyed(o, p, k), NEW q, Same(p, q)
    PROVE  Keyed(o, q, k)
<1>1. Len(o) \in 1..Len(o) /\ \A i \in 1..(Len(o) - 1) : i \in 1..Len(o)
  BY TopFacts
<1> QED BY <1>1 DEF Keyed, Same, Lower, Like

LEMMA JudgeFacts ==
    ASSUME NEW o, Elems(o), NEW v \in Verdicts
    PROVE  Same(o, Judge(o, v))
<1> DEFINE j == Judged(o)
           e == [o[j] EXCEPT !.verdict = v]
           p == [o EXCEPT ![j] = e]
<1>1. j \in 1..Len(o)
  <2>1. Len(o) \in Nat /\ Len(o) >= 1 /\ o[1].kind = "document"
    BY TopFacts DEF Elems, Nested
  <2>2. Last(o) = o[Len(o)]
    BY DEF Last
  <2> QED BY <2>1, <2>2 DEF Judged
<1>2. o[j] \in Elements /\ o \in Seq(Elements)
  BY <1>1, TopFacts DEF Elems
<1>3. e \in Elements /\ Like(o[j], e) /\ e.keys = o[j].keys /\ e.used = o[j].used
      /\ e.tentative = o[j].tentative
  BY <1>2 DEF Elements, Like
<1>4. Judge(o, v) = p
  BY DEF Judge
<1> HIDE DEF e
<1>5. p \in Seq(Elements) /\ Len(p) = Len(o) /\ \A i \in 1..Len(o) : p[i] = IF i = j THEN e ELSE o[i]
  BY <1>1, <1>2, <1>3, ExceptSeq
<1> HIDE DEF p, j
<1>6. \A i \in 1..Len(o) : /\ Like(o[i], p[i]) /\ p[i].keys = o[i].keys
                           /\ p[i].used = o[i].used /\ (p[i].tentative => o[i].tentative)
  BY <1>3, <1>5 DEF Like
<1> QED BY <1>4, <1>5, <1>6, SameFacts

LEMMA CommittedFacts ==
    ASSUME NEW o, Elems(o)
    PROVE  Same(o, Committed(o))
<1> DEFINE n == Len(o)
           Told_(e) == [e EXCEPT !.tentative = FALSE, !.verdict = IF @ = "held" THEN "full" ELSE @]
           p == Committed(o)
<1>1. n \in Nat /\ o \in Seq(Elements) /\ DOMAIN o = 1..n /\ \A i \in 1..n : o[i] \in Elements
  BY TopFacts DEF Elems
<1>2. p = [i \in 1..n |-> Told_(o[i])]
  BY <1>1 DEF Committed
<1>3. \A e \in Elements : /\ Told_(e) \in Elements /\ Like(e, Told_(e)) /\ Told_(e).keys = e.keys
                          /\ Told_(e).used = e.used /\ ~Told_(e).tentative
  BY DEF Elements, Like, Verdicts
<1> HIDE DEF Told_, p, n
<1>4. \A i \in 1..n : p[i] = Told_(o[i])
  BY <1>2
<1>5. p \in [1..n -> Elements]
  BY <1>1, <1>2, <1>3
<1>6. p \in Seq(Elements) /\ Len(p) = n
  BY <1>1, <1>5
<1> QED BY <1>1, <1>3, <1>4, <1>6, SameFacts DEF n, p

LEMMA AppendFacts ==
    ASSUME NEW o, Elems(o), NEW e \in Elements, e.kind \in OpenKinds,
           e.kind = "instance" <=> o[Len(o)].kind = "list",
           o[Len(o)].kind # "leaf_list"
    PROVE  /\ Elems(Append(o, e))
           /\ Len(Append(o, e)) = Len(o) + 1
           /\ Append(o, e)[Len(o) + 1] = e
           /\ \A i \in 1..Len(o) : Append(o, e)[i] = o[i]
<1> DEFINE n == Len(o)
           p == Append(o, e)
<1>1. n \in Nat /\ n >= 1 /\ o \in Seq(Elements) /\ Nested(o)
  BY TopFacts DEF Elems
<1>2. p \in Seq(Elements) /\ Len(p) = n + 1 /\ p[n + 1] = e /\ \A i \in 1..n : p[i] = o[i]
  BY <1>1, AppendProperties
<1> HIDE DEF p
<1>3. Nested(p)
  <2>1. 1 \in 1..n /\ \A i \in 2..(n + 1) : i - 1 \in 1..n /\ (i \in 2..n \/ i = n + 1)
    BY <1>1
  <2>2. \A i \in 2..n : i \in 1..n /\ p[i] = o[i] /\ p[i - 1] = o[i - 1]
    BY <1>1, <1>2, <2>1
  <2> QED BY <1>1, <1>2, <2>1, <2>2 DEF Nested, n
<1> QED BY <1>2, <1>3 DEF Elems, p

LEMMA FrontFacts ==
    ASSUME NEW o, Elems(o), Len(o) > 1
    PROVE  /\ Elems(Front(o))
           /\ Len(Front(o)) = Len(o) - 1
           /\ \A i \in 1..(Len(o) - 1) : Front(o)[i] = o[i]
<1> DEFINE n == Len(o)
           p == Front(o)
<1>1. n \in Nat /\ n > 1 /\ o \in Seq(Elements) /\ Nested(o)
  BY TopFacts DEF Elems
<1>2. p \in Seq(Elements) /\ Len(p) = n - 1 /\ \A i \in 1..(n - 1) : p[i] = o[i]
  <2>1. p = SubSeq(o, 1, n - 1)
    BY DEF Front
  <2>2. \A i \in 1..(n - 1) : i \in 1..n
    BY <1>1
  <2>3. \A i \in 1..(n - 1) : o[i] \in Elements
    BY <1>1, <2>2
  <2> HIDE DEF p
  <2> QED BY <1>1, <2>1, <2>3, SubSeqProperties
<1> HIDE DEF p
<1>3. Nested(p)
  <2>1. 1 \in 1..(n - 1) /\ \A i \in 2..(n - 1) : i \in 1..(n - 1) /\ i - 1 \in 1..(n - 1) /\ i \in 2..n
    BY <1>1
  <2> QED BY <1>1, <1>2, <2>1 DEF Nested, n
<1> QED BY <1>2, <1>3 DEF Elems, p

\* An open: one element more, and the others stay as they were told of.
OpenedOne(kind, name, v) ==
    LET n == Len(open)
    IN  /\ Elems(open') /\ Len(open') = n + 1
        /\ Lower(open, open', n)
        /\ \A i \in 1..n : open'[i].tentative => open[i].tentative
        /\ open'[n + 1].kind = kind /\ open'[n + 1].name = name
        /\ open'[n + 1].id = count + 1 /\ open'[n + 1].keys = <<>>
        /\ open'[n + 1].tentative = Tentative(kind, v) /\ open'[n + 1].mark = Len(kept)

\* The top is gone.
ClosedOne ==
    LET n == Len(open)
    IN  /\ Same(Front(open), open')
        /\ ~setup.filtered => open' = Front(open)

LEMMA UsingIs ==
    ASSUME Elems(open), NEW name \in Labels
    PROVE  Using(name) = WithMember(open, name, Top.keys)
<1>1. Len(open) \in 1..Len(open) /\ open[Len(open)] \in Elements /\ open \in Seq(Elements)
  BY TopFacts DEF Elems
<1>2. [open[Len(open)] EXCEPT !.used = @ \cup {name}]
        = [open[Len(open)] EXCEPT !.used = @ \cup {name}, !.keys = open[Len(open)].keys]
  BY <1>1 DEF Elements
<1> QED BY <1>2 DEF Using, WithMember, Top

LEMMA OpenEffect ==
    ASSUME DocInv, NEW kind \in OpenKinds, NEW name \in Labels, NEW v \in Verdicts,
           NEW flags, Fits(kind, name), OpenOne(kind, name, v, flags)
    PROVE  OpenedOne(kind, name, v)
<1> DEFINE n == Len(open)
           o == Using(name)
           e == Element(kind, name, count + 1, v, Tentative(kind, v))
<1>1. Elems(open) /\ n \in Nat /\ n >= 1 /\ kept \in Seq(Told) /\ count \in Nat
      /\ open[n].keys \in Seq(KeyFields \X Nat)
  BY TopFacts DEF DocInv
<1>2. /\ Elems(o) /\ Len(o) = n /\ Lower(open, o, n - 1) /\ Like(open[n], o[n])
      /\ o[n].keys = open[n].keys /\ \A i \in 1..n : o[i].tentative => open[i].tentative
  <2>1. Keyed(open, o, open[n].keys)
    BY <1>1, UsingIs, UsingFacts DEF Top
  <2> HIDE DEF o
  <2> QED BY <2>1 DEF Keyed
<1>3. open' = Append(o, e)
  BY DEF OpenOne
<1> HIDE DEF o
<1>4. /\ e \in Elements /\ e.kind = kind /\ e.name = name /\ e.id = count + 1 /\ e.keys = <<>>
      /\ e.tentative = Tentative(kind, v) /\ e.mark = Len(kept)
  <2>1. Tentative(kind, v) \in BOOLEAN
    BY DEF Tentative
  <2> QED BY <1>1, <2>1 DEF Element, Elements, Kinds, OpenKinds
<1> HIDE DEF e
<1>5. /\ e.kind = "instance" <=> o[Len(o)].kind = "list"
      /\ o[Len(o)].kind # "leaf_list"
  BY <1>2, <1>4 DEF Fits, Top, Like
<1>6. /\ Elems(open') /\ Len(open') = n + 1 /\ open'[n + 1] = e
      /\ \A i \in 1..n : open'[i] = o[i]
  BY <1>2, <1>3, <1>4, <1>5, AppendFacts
<1>7. Lower(open, open', n)
  <2>1. \A i \in 1..n : i \in 1..(n - 1) \/ i = n
    BY <1>1
  <2> HIDE DEF n
  <2> QED BY <1>2, <1>6, <2>1 DEF Lower, Like
<1> QED BY <1>2, <1>4, <1>6, <1>7 DEF OpenedOne

\* The filter's mind is made up about the elements that a value was given to.
LEMMA ValueEffect ==
    ASSUME DocInv, NEW op, NEW o, Elems(o), Value(op, o)
    PROVE  /\ Same(o, open')
           /\ Tell(op) \/ TellTentative(op)
           /\ ~setup.filtered => Tell(op)
<1>1. PICK v \in VerdictsAfterField :
          \/ open' = Committed(Judge(o, v)) /\ Tell(op)
          \/ Top.tentative /\ open' = Judge(o, v) /\ TellTentative(op)
  BY DEF Value
<1>2. v \in Verdicts
  BY <1>1, VerdictFacts DEF DocInv
<1>3. Same(o, Judge(o, v)) /\ Elems(Judge(o, v))
  BY <1>2, JudgeFacts DEF Same
<1>4. Same(o, Committed(Judge(o, v)))
  BY <1>3, CommittedFacts, SameTwice
<1>5. ~setup.filtered => ~Top.tentative
  BY TopFacts DEF DocInv, Top
<1> QED BY <1>1, <1>3, <1>4, <1>5

LEMMA KeyEffect ==
    ASSUME DocInv, NEW op, NEW o, Elems(o), KeyField(op, o)
    PROVE  Same(o, open') /\ Tell(op)
<1> DEFINE p == IF Wanted(Verdict) THEN Committed(o) ELSE o
<1>1. PICK v \in VerdictsAfterKey : open' = Judge(p, v)
  BY DEF KeyField
<1>2. v \in Verdicts
  BY <1>1, VerdictFacts DEF DocInv
<1>3. Same(o, p) /\ Elems(p)
  <2>1. Same(o, o)
    BY DEF Same, Lower, Like
  <2> QED BY <2>1, CommittedFacts DEF Same
<1> HIDE DEF p
<1>4. Same(o, Judge(p, v))
  BY <1>2, <1>3, JudgeFacts, SameTwice
<1> QED BY <1>1, <1>4 DEF KeyField

FieldFlags(name) ==
    (IF name \in KeyFields THEN {"key"} ELSE {})
        \cup (IF name \in setup.denseFields THEN {"dense"} ELSE {})

FieldOp(name) == Op("field", name, count + 1, FieldFlags(name))

LEMMA FieldEffect ==
    ASSUME DocInv, NEW name \in Fields, Field(name)
    PROVE  /\ Keyed(open, open', IF name \in KeyFields THEN Append(Top.keys, <<name, count + 1>>)
                                 ELSE Top.keys)
           /\ \A i \in 1..Len(open) : open'[i].used = Using(name)[i].used
           /\ Tell(FieldOp(name)) \/ (name \notin KeyFields /\ TellTentative(FieldOp(name)))
           /\ ~setup.filtered => Tell(FieldOp(name))
<1> DEFINE n == Len(open)
           op == FieldOp(name)
<1>1. Elems(open) /\ n \in Nat /\ n \in 1..n /\ count \in Nat /\ name \in Labels
      /\ Top.keys \in Seq(KeyFields \X Nat) /\ open[n] \in Elements /\ open \in Seq(Elements)
  BY TopFacts DEF DocInv, Labels, Top, Elems
<1>2. Keyed(open, Using(name), Top.keys)
  BY <1>1, UsingIs, UsingFacts
<1>3. CASE name \notin KeyFields
  <2>1. Value(op, Using(name))
    BY <1>3 DEF Field, FieldOp, FieldFlags
  <2> HIDE DEF op
  <2>2. Same(Using(name), open') /\ (Tell(op) \/ TellTentative(op)) /\ (~setup.filtered => Tell(op))
    BY <1>2, <2>1, ValueEffect DEF Keyed
  <2>3. Keyed(open, open', Top.keys)
    BY <1>1, <1>2, <2>2, KeyedSame
  <2>4. \A i \in 1..n : open'[i].used = Using(name)[i].used
    BY <1>2, <2>2 DEF Same, Keyed
  <2> QED BY <1>3, <2>2, <2>3, <2>4 DEF op
<1>4. CASE name \in KeyFields
  <2> DEFINE k == Append(Top.keys, <<name, count + 1>>)
             o == [Using(name) EXCEPT ![n].keys = Append(@, <<name, count + 1>>)]
             e == [open[n] EXCEPT !.used = @ \cup {name}, !.keys = Top.keys]
  <2>1. k \in Seq(KeyFields \X Nat)
    BY <1>1, <1>4
  <2>2. KeyField(op, o)
    BY <1>4 DEF Field, FieldOp, FieldFlags
  <2>3. o = WithMember(open, name, k)
    <3>1. Using(name) = [open EXCEPT ![n] = e]
      BY <1>1, UsingIs DEF WithMember
    <3>2. e.keys = Top.keys /\ [e EXCEPT !.keys = k] = [open[n] EXCEPT !.used = @ \cup {name}, !.keys = k]
      BY <1>1 DEF Elements
    <3> HIDE DEF e
    <3>3. o = [[open EXCEPT ![n] = e] EXCEPT ![n] = [e EXCEPT !.keys = k]]
      BY <1>1, <3>1, <3>2
    <3>4. o = [open EXCEPT ![n] = [e EXCEPT !.keys = k]]
      BY <1>1, <3>3
    <3> HIDE DEF k, o
    <3> QED BY <3>2, <3>4 DEF WithMember
  <2>4. \A i \in 1..n : o[i].used = Using(name)[i].used
    <3>1. Using(name) \in Seq(Elements) /\ Len(Using(name)) = n
      BY <1>2 DEF Keyed, Elems
    <3> QED BY <1>1, <3>1
  <2> HIDE DEF k, n, o, op
  <2>5. Keyed(open, o, k)
    BY <1>1, <2>1, <2>3, UsingFacts
  <2>6. Same(o, open') /\ Tell(op)
    BY <2>2, <2>5, KeyEffect DEF Keyed
  <2>7. Keyed(open, open', k)
    BY <1>1, <2>5, <2>6, KeyedSame
  <2>8. \A i \in 1..n : open'[i].used = Using(name)[i].used
    BY <2>4, <2>5, <2>6 DEF Same, Keyed, n
  <2> QED BY <1>4, <2>6, <2>7, <2>8 DEF k, op, n
<1> QED BY <1>3, <1>4

ItemOp == Op("item", Top.name, count + 1, {})

LEMMA ItemEffect ==
    ASSUME DocInv, Item
    PROVE  /\ Keyed(open, open', Top.keys)
           /\ \A i \in 1..Len(open) : open'[i].used = Using(Top.name)[i].used
           /\ Tell(ItemOp) \/ TellTentative(ItemOp)
           /\ ~setup.filtered => Tell(ItemOp)
<1>1. Elems(open) /\ Top.name \in Labels /\ Top.keys \in Seq(KeyFields \X Nat)
  BY TopFacts DEF DocInv, Top
<1>2. Value(ItemOp, Using(Top.name))
  BY DEF Item, ItemOp
<1>3. Keyed(open, Using(Top.name), Top.keys)
  BY <1>1, UsingIs, UsingFacts
<1>4. /\ Same(Using(Top.name), open')
      /\ Tell(ItemOp) \/ TellTentative(ItemOp)
      /\ ~setup.filtered => Tell(ItemOp)
  BY <1>2, <1>3, ValueEffect DEF Keyed
<1>5. \A i \in 1..Len(open) : open'[i].used = Using(Top.name)[i].used
  BY <1>3, <1>4 DEF Same, Keyed
<1> QED BY <1>1, <1>3, <1>4, <1>5, KeyedSame

CloseOp == Op(Closing[Top.kind], Top.name, NoName, {})

LEMMA CloseEffect ==
    ASSUME DocInv, Close
    PROVE  ClosedOne
<1> DEFINE n == Len(open)
<1>1. Elems(open) /\ n > 1 /\ n \in Nat
  BY TopFacts DEF DocInv, Close
<1>2. /\ Elems(Front(open)) /\ Len(Front(open)) = n - 1
      /\ \A i \in 1..(n - 1) : Front(open)[i] = open[i]
  BY <1>1, FrontFacts
<1>3. Same(Front(open), Front(open))
  BY <1>2 DEF Same, Lower, Like
<1>4. Same(Front(open), Front(Committed(open)))
  <2> DEFINE p == Committed(open)
  <2>1. Same(open, p)
    BY <1>1, CommittedFacts
  <2> HIDE DEF p
  <2>2. Elems(p) /\ Len(p) = n
    BY <2>1 DEF Same
  <2>3. Elems(Front(p)) /\ Len(Front(p)) = n - 1 /\ \A i \in 1..(n - 1) : Front(p)[i] = p[i]
    BY <1>1, <2>2, FrontFacts
  <2>4. \A i \in 1..(n - 1) : i \in 1..n
    BY <1>1
  <2> QED BY <1>2, <2>1, <2>3, <2>4 DEF Same, Lower, p
<1>5. open' = Front(open) \/ (Top.tentative /\ open' = Front(Committed(open)))
  BY DEF Close, Lost
<1>6. ~setup.filtered => ~Top.tentative
  BY TopFacts DEF DocInv, Top
<1> QED BY <1>3, <1>4, <1>5, <1>6 DEF ClosedOne

LEMMA SkipEffect ==
    ASSUME DocInv, Skip
    PROVE  Same(open, open') /\ setup.filtered
<1>1. PICK v \in Verdicts : open' = Judge(open, v) \/ open' = Committed(Judge(open, v))
  BY DEF Skip, Verdicts
<1>2. Same(open, Judge(open, v))
  BY JudgeFacts DEF DocInv
<1>3. Same(open, Committed(Judge(open, v)))
  BY <1>2, CommittedFacts, SameTwice DEF Same
<1> QED BY <1>1, <1>2, <1>3 DEF Skip

-----------------------------------------------------------------------------
(* The operations that are kept *)

LEMMA PlaceTypes ==
    ASSUME NEW o, Elems(o)
    PROVE  /\ Place(o) \in Seq([kind : Kinds, name : Labels, id : Nat])
           /\ Len(Place(o)) = Len(o) - 1
           /\ \A i \in 1..(Len(o) - 1) :
                 Place(o)[i] = [kind |-> o[i + 1].kind, name |-> o[i + 1].name, id |-> o[i + 1].id]
<1> DEFINE m == Len(o) - 1
           S == [kind : Kinds, name : Labels, id : Nat]
           f == [i \in 1..m |-> [kind |-> o[i + 1].kind, name |-> o[i + 1].name, id |-> o[i + 1].id]]
<1>1. m \in Nat /\ \A i \in 1..m : i + 1 \in 1..Len(o)
  BY TopFacts
<1>2. Place(o) = f
  BY DEF Place
<1>3. \A i \in 1..m : f[i] \in S
  BY <1>1, TopFacts
<1>4. f \in [1..m -> S]
  BY <1>3
<1>5. \A i \in 1..m : f[i] = [kind |-> o[i + 1].kind, name |-> o[i + 1].name, id |-> o[i + 1].id]
  OBVIOUS
<1> HIDE DEF f, S
<1>6. f \in Seq(S) /\ Len(f) = m
  BY <1>1, <1>4
<1> QED BY <1>2, <1>5, <1>6 DEF S

KeptOne(op, o) ==
    LET m == Len(kept)
    IN  /\ kept' \in Seq(Told) /\ Len(kept') = m + 1
        /\ \A p \in 1..m : kept'[p] = kept[p]
        /\ kept'[m + 1].what = op
        /\ kept'[m + 1].within = Place(o)

LEMMA KeepFacts ==
    ASSUME kept \in Seq(Told), NEW o, Elems(o), NEW op \in Operations, Keep(op, o)
    PROVE  KeptOne(op, o)
<1> DEFINE t == [what |-> op, within |-> Place(o)]
<1>1. t \in Told /\ t.what = op /\ t.within = Place(o)
  BY PlaceTypes DEF Told
<1>2. kept' = Append(kept, t)
  BY DEF Keep
<1> HIDE DEF t
<1> QED BY <1>1, <1>2, AppendProperties DEF KeptOne

LEMMA OpTypes ==
    ASSUME NEW op \in OpNames, NEW name \in Labels, NEW value \in Nat \cup {NoName},
           NEW flags \in SUBSET {"key", "dense"}
    PROVE  Op(op, name, value, flags) \in Operations
BY DEF Op, Operations

OpenOp(kind, name, flags) == Op(Opening[kind], name, count + 1, flags)

LEMMA OpenKeeps ==
    ASSUME DocInv, NEW kind \in OpenKinds, NEW name \in Labels, NEW v \in Verdicts,
           NEW flags \in SUBSET {"dense"}, OpenOne(kind, name, v, flags)
    PROVE  /\ OpenOp(kind, name, flags) \in Operations
           /\ KeptOne(OpenOp(kind, name, flags), open)
           /\ Tell(OpenOp(kind, name, flags))
           /\ count' = count + 1 /\ UNCHANGED <<setup, flushes, done>> /\ ~done
<1>1. OpenOp(kind, name, flags) \in Operations
  <2>1. Opening[kind] \in OpNames
    BY DEF Opening, OpenKinds, OpNames
  <2>2. count + 1 \in Nat \cup {NoName} /\ flags \in SUBSET {"key", "dense"}
    BY DEF DocInv
  <2> QED BY <2>1, <2>2, OpTypes DEF OpenOp
<1>2. Keep(OpenOp(kind, name, flags), open) /\ Tell(OpenOp(kind, name, flags))
  BY DEF OpenOne, OpenOp
<1>3. KeptOne(OpenOp(kind, name, flags), open)
  BY <1>1, <1>2, KeepFacts DEF DocInv
<1> QED BY <1>1, <1>2, <1>3 DEF OpenOne, Count, Still, Room

LEMMA FieldKeeps ==
    ASSUME DocInv, NEW name \in Fields, Field(name)
    PROVE  /\ FieldOp(name) \in Operations
           /\ KeptOne(FieldOp(name), open)
           /\ count' = count + 1 /\ UNCHANGED <<setup, flushes, done>> /\ ~done
<1>1. FieldOp(name) \in Operations
  <2>1. "field" \in OpNames /\ name \in Labels
    BY DEF Labels, OpNames
  <2>2. count + 1 \in Nat \cup {NoName} /\ FieldFlags(name) \in SUBSET {"key", "dense"}
    BY DEF DocInv, FieldFlags
  <2> QED BY <2>1, <2>2, OpTypes DEF FieldOp
<1>2. Keep(FieldOp(name), open)
  BY DEF Field, FieldOp, FieldFlags
<1>3. KeptOne(FieldOp(name), open)
  BY <1>1, <1>2, KeepFacts DEF DocInv
<1> QED BY <1>1, <1>2, <1>3 DEF Field, Count, Still, Room

LEMMA ItemKeeps ==
    ASSUME DocInv, Item
    PROVE  /\ ItemOp \in Operations
           /\ KeptOne(ItemOp, open)
           /\ count' = count + 1 /\ UNCHANGED <<setup, flushes, done>> /\ ~done
<1>1. ItemOp \in Operations
  <2>1. Top.name \in Labels /\ count \in Nat
    BY TopFacts DEF DocInv, Top
  <2>2. "item" \in OpNames /\ count + 1 \in Nat \cup {NoName} /\ {} \in SUBSET {"key", "dense"}
    BY <2>1 DEF OpNames
  <2> QED BY <2>1, <2>2, OpTypes DEF ItemOp
<1>2. Keep(ItemOp, open)
  BY DEF Item, ItemOp
<1>3. KeptOne(ItemOp, open)
  BY <1>1, <1>2, KeepFacts DEF DocInv
<1> QED BY <1>1, <1>2, <1>3 DEF Item, Count, Still, Room

LEMMA CloseKeeps ==
    ASSUME DocInv, Close
    PROVE  /\ CloseOp \in Operations
           /\ kept' = SubSeq(kept, 1, Top.mark) \/ KeptOne(CloseOp, Front(open))
           /\ fullpath' = Fullpath!Handle(fullpath, CloseOp)
           /\ ~setup.filtered => KeptOne(CloseOp, Front(open)) /\ Tell(CloseOp)
           /\ count' = count /\ UNCHANGED <<setup, flushes, done>> /\ ~done /\ Len(open) > 1
<1>1. Top.name \in Labels /\ Top.kind \in OpenKinds
  <2>1. Len(open) \in 2..Len(open) /\ Nested(open) /\ Len(open) \in 1..Len(open)
    BY TopFacts DEF DocInv, Elems, Close
  <2> QED BY <2>1, TopFacts DEF DocInv, Top, Nested
<1>2. CloseOp \in Operations
  <2>1. Closing[Top.kind] \in OpNames
    BY <1>1 DEF Closing, OpenKinds, OpNames
  <2>2. NoName \in Nat \cup {NoName} /\ {} \in SUBSET {"key", "dense"}
    OBVIOUS
  <2> QED BY <1>1, <2>1, <2>2, OpTypes DEF CloseOp
<1>3. Keep(CloseOp, Front(open)) => KeptOne(CloseOp, Front(open))
  <2>1. Elems(Front(open))
    BY FrontFacts DEF DocInv, Close
  <2> QED BY <1>2, <2>1, KeepFacts DEF DocInv
<1>4. \/ Keep(CloseOp, Front(open)) /\ Tell(CloseOp)
      \/ Top.tentative /\ Keep(CloseOp, Front(open)) /\ TellOthers(CloseOp)
      \/ Top.tentative /\ kept' = SubSeq(kept, 1, Top.mark) /\ TellDeadend(CloseOp)
  BY DEF Close, CloseOp, Lost
<1>5. fullpath' = Fullpath!Handle(fullpath, CloseOp)
  BY <1>4 DEF Tell, TellOthers, TellDeadend
<1>6. ~setup.filtered => ~Top.tentative
  BY TopFacts DEF DocInv, Top
<1> QED BY <1>2, <1>3, <1>4, <1>5, <1>6 DEF Close, Still

-----------------------------------------------------------------------------
(* The document stays well formed *)

LEMMA MarkedLower ==
    ASSUME NEW o, Elems(o), NEW k, Len(k) \in Nat, Marked(o, k), NEW p, Elems(p), NEW n \in 0..Len(o),
           Lower(o, p, n), Len(p) = n,
           NEW l, Len(l) \in Nat, \A i \in 1..n : o[i].mark <= Len(l)
    PROVE  Marked(p, l)
<1>1. \A i \in 1..n : i \in 1..Len(o) /\ p[i].mark = o[i].mark
  BY TopFacts DEF Lower, Like
<1> QED BY <1>1 DEF Marked

LEMMA MarkedMore ==
    ASSUME NEW o, Elems(o), NEW k, Len(k) \in Nat, Marked(o, k), NEW p, Elems(p), Len(p) = Len(o) + 1,
           Lower(o, p, Len(o)), p[Len(o) + 1].mark = Len(k), NEW l, Len(l) = Len(k) + 1
    PROVE  Marked(p, l)
<1> DEFINE n == Len(o)
<1>1. n \in Nat /\ n \in 1..n
  BY TopFacts
<1>2. \A i \in 1..n : p[i].mark = o[i].mark /\ o[i].mark \in Nat /\ o[i].mark <= Len(k)
  BY <1>1, TopFacts DEF Lower, Like, Marked
<1>3. \A i, j \in 1..n : i <= j => p[i].mark <= p[j].mark
  BY <1>2 DEF Marked
<1>4. \A i \in 1..(n + 1) : i \in 1..n \/ i = n + 1
  BY <1>1
<1>5. p[n + 1].mark = Len(k) /\ Len(p) = n + 1
  OBVIOUS
<1> HIDE DEF n
<1>6. SUFFICES ASSUME NEW i \in 1..(n + 1), NEW j \in 1..(n + 1), i <= j
               PROVE  p[i].mark <= p[j].mark /\ p[j].mark <= Len(l)
  BY <1>5 DEF Marked
<1>7. CASE j \in 1..n
  <2>1. i \in 1..n
    BY <1>1, <1>6, <1>7
  <2> QED BY <1>2, <1>3, <1>6, <1>7, <2>1
<1>8. CASE j = n + 1
  BY <1>2, <1>4, <1>5, <1>8
<1> QED BY <1>4, <1>7, <1>8

\* The same elements, marked the same, with no fewer operations kept
LEMMA MarkedSame ==
    ASSUME NEW o, Elems(o), NEW k, Len(k) \in Nat, Marked(o, k), NEW p, Elems(p), Len(p) = Len(o),
           Lower(o, p, Len(o) - 1), Like(o[Len(o)], p[Len(o)]), NEW l, Len(l) \in Nat, Len(k) <= Len(l)
    PROVE  Marked(p, l)
<1> DEFINE n == Len(o)
<1>1. n \in Nat /\ n \in 1..n /\ \A i \in 1..n : i \in 1..(n - 1) \/ i = n
  BY TopFacts
<1>2. \A i \in 1..n : p[i].mark = o[i].mark /\ o[i].mark \in Nat
  BY <1>1, TopFacts DEF Lower, Like
<1>3. \A i, j \in 1..n : i <= j => o[i].mark <= o[j].mark /\ o[j].mark <= Len(k)
  BY DEF Marked
<1> HIDE DEF n
<1>4. \A i, j \in 1..n : i <= j => p[i].mark <= p[j].mark /\ p[j].mark <= Len(l)
  BY <1>2, <1>3
<1> QED BY <1>4 DEF Marked, n

LEMMA DocInit == Init => DocInv
<1> SUFFICES ASSUME Init PROVE DocInv
  OBVIOUS
<1>1. PICK v \in Verdicts : open = <<Document(v)>>
  BY DEF Init, Verdicts
<1> DEFINE d == Document(v)
<1>2. d \in Elements
  <2>1. NoName \in Labels /\ <<>> \in Seq(KeyFields \X Nat) /\ {} \in SUBSET Labels
        /\ "document" \in Kinds /\ FALSE \in BOOLEAN
    BY EmptySeq DEF Labels, Kinds
  <2> QED BY <2>1 DEF Document, Elements
<1>3. /\ d.kind = "document" /\ d.id = 0 /\ d.mark = 0 /\ ~d.tentative
      /\ open = <<d>> /\ kept = <<>> /\ count = 0 /\ done = FALSE /\ setup \in Setups
  BY <1>1 DEF Init, Document
<1> HIDE DEF d
<1>4. Len(open) = 1 /\ open[1] = d /\ open \in Seq(Elements) /\ kept \in Seq(Told) /\ Len(kept) = 0
  BY <1>2, <1>3
<1>5. Elems(open)
  BY <1>2, <1>3, <1>4 DEF Elems, Nested
<1>6. Marked(open, kept)
  BY <1>2, <1>3, <1>4 DEF Marked
<1>7. \A i \in 1..Len(open) : ~open[i].tentative
  BY <1>2, <1>3, <1>4
<1>8. count \in Nat /\ done \in BOOLEAN /\ (done => Len(open) = 1)
  BY <1>2, <1>3
<1> QED BY <1>3, <1>4, <1>5, <1>6, <1>7, <1>8 DEF DocInv

LEMMA OpenDoc ==
    ASSUME DocInv, NEW kind \in OpenKinds, NEW name \in Labels, NEW v \in Verdicts,
           NEW flags \in SUBSET {"dense"}, Fits(kind, name), OpenOne(kind, name, v, flags)
    PROVE  DocInv'
<1>1. OpenedOne(kind, name, v)
  BY OpenEffect
<1>2. /\ kept \in Seq(Told) /\ kept' \in Seq(Told) /\ Len(kept') = Len(kept) + 1
      /\ count' = count + 1 /\ setup' = setup /\ done' = done /\ ~done
  BY OpenKeeps DEF KeptOne, DocInv
<1>3. Marked(open', kept')
  BY <1>1, <1>2, MarkedMore DEF OpenedOne, DocInv
<1>4. ASSUME ~setup.filtered
      PROVE  \A i \in 1..Len(open') : ~open'[i].tentative
  <2>1. ~Tentative(kind, v)
    BY <1>4 DEF Tentative
  <2>2. \A i \in 1..Len(open') : i \in 1..Len(open) \/ i = Len(open) + 1
    BY <1>1, TopFacts DEF OpenedOne, DocInv
  <2> QED BY <1>1, <1>4, <2>1, <2>2 DEF OpenedOne, DocInv
<1> QED BY <1>1, <1>2, <1>3, <1>4 DEF DocInv, OpenedOne

\* A field or an item
LEMMA GivenDoc ==
    ASSUME DocInv, NEW k, Keyed(open, open', k), NEW op, KeptOne(op, open),
           count' = count + 1, UNCHANGED <<setup, flushes, done>>, ~done
    PROVE  DocInv'
<1>1. kept \in Seq(Told) /\ kept' \in Seq(Told) /\ Len(kept') = Len(kept) + 1 /\ Len(kept) \in Nat
  BY DEF KeptOne, DocInv
<1>2. Marked(open', kept')
  BY <1>1, MarkedSame DEF Keyed, DocInv
<1> QED BY <1>1, <1>2 DEF DocInv, Keyed

LEMMA CloseDoc ==
    ASSUME DocInv, Close
    PROVE  DocInv'
<1> DEFINE n == Len(open)
<1>1. ClosedOne /\ n \in Nat /\ n \in 1..n /\ n > 1
  BY CloseEffect, TopFacts DEF DocInv, Close
<1>2. /\ kept' = SubSeq(kept, 1, Top.mark) \/ KeptOne(CloseOp, Front(open))
      /\ count' = count /\ UNCHANGED <<setup, flushes, done>> /\ ~done
  BY CloseKeeps
<1>3. Top.mark \in Nat /\ Top.mark <= Len(kept) /\ \A i \in 1..n : open[i].mark <= Top.mark
  <2>1. Marked(open, kept) /\ \A i \in 1..n : i <= n
    BY <1>1 DEF DocInv
  <2> QED BY <1>1, <2>1, TopFacts DEF DocInv, Marked, Top
<1>4. kept \in Seq(Told) /\ Len(kept) \in Nat
  BY DEF DocInv
<1>5. kept' \in Seq(Told) /\ Len(kept') \in Nat /\ Top.mark <= Len(kept')
  <2>1. CASE kept' = SubSeq(kept, 1, Top.mark)
    <3>1. \A i \in 1..Top.mark : kept[i] \in Told
      BY <1>3, <1>4
    <3>2. SubSeq(kept, 1, Top.mark) \in Seq(Told) /\ Len(SubSeq(kept, 1, Top.mark)) = Top.mark
      BY <1>3, <3>1, SubSeqProperties
    <3> QED BY <1>3, <2>1, <3>2
  <2>2. CASE KeptOne(CloseOp, Front(open))
    <3>1. kept' \in Seq(Told) /\ Len(kept') = Len(kept) + 1
      BY <2>2 DEF KeptOne
    <3> QED BY <1>3, <1>4, <3>1
  <2> QED BY <1>2, <2>1, <2>2
<1>6. /\ Elems(open') /\ Len(open') = n - 1
      /\ \A i \in 1..(n - 1) : /\ Like(open[i], open'[i]) /\ open'[i].keys = open[i].keys
                               /\ open'[i].tentative => open[i].tentative
  <2>1. Len(Front(open)) = n - 1 /\ \A i \in 1..(n - 1) : Front(open)[i] = open[i]
    BY <1>1, FrontFacts DEF DocInv
  <2>2. Same(Front(open), open')
    BY <1>1 DEF ClosedOne
  <2> QED BY <2>1, <2>2 DEF Same, Lower
<1>7. \A i \in 1..(n - 1) : open[i].mark <= Len(kept')
  <2>1. \A i \in 1..(n - 1) : i \in 1..n /\ open[i].mark \in Nat
    BY <1>1, TopFacts DEF DocInv
  <2> QED BY <1>3, <1>5, <2>1
<1>8. Marked(open', kept')
  <2>1. Lower(open, open', n - 1) /\ n - 1 \in 0..n
    BY <1>1, <1>6 DEF Lower
  <2> QED BY <1>4, <1>5, <1>6, <1>7, <2>1, MarkedLower DEF DocInv
<1>9. ~setup.filtered => \A i \in 1..Len(open') : ~open'[i].tentative
  <2>1. \A i \in 1..(n - 1) : i \in 1..n
    BY <1>1
  <2> QED BY <1>6, <2>1 DEF DocInv
<1> QED BY <1>2, <1>5, <1>6, <1>8, <1>9 DEF DocInv

LEMMA SkipDoc ==
    ASSUME DocInv, Skip
    PROVE  DocInv'
<1>1. Elems(open') /\ Len(open') = Len(open) /\ Lower(open, open', Len(open)) /\ setup.filtered
  BY SkipEffect DEF Same
<1>2. kept' = kept /\ count' = count /\ setup' = setup /\ done' = done /\ kept \in Seq(Told)
  BY DEF Skip, Still, DocInv
<1>3. Lower(open, open', Len(open) - 1) /\ Like(open[Len(open)], open'[Len(open)])
  BY <1>1, TopFacts DEF DocInv, Lower
<1>4. Marked(open', kept')
  BY <1>1, <1>2, <1>3, MarkedSame DEF DocInv
<1> QED BY <1>1, <1>2, <1>4 DEF DocInv

LEMMA DocStep ==
    ASSUME DocInv, [Next]_vars
    PROVE  DocInv'
<1>1. CASE UNCHANGED vars
  BY <1>1 DEF vars, DocInv, Marked, Elems, Nested
<1>2. CASE Next
  <2>1. ASSUME NEW kind \in OpenKinds, NEW name \in Labels, NEW v \in Verdicts,
               NEW flags \in SUBSET {"dense"}, Fits(kind, name), OpenOne(kind, name, v, flags)
        PROVE  DocInv'
    BY <2>1, OpenDoc
  <2>2. ASSUME NEW name \in Fields, Field(name)
        PROVE  DocInv'
    BY <2>2, FieldEffect, FieldKeeps, GivenDoc
  <2>3. ASSUME Item
        PROVE  DocInv'
    BY <2>3, ItemEffect, ItemKeeps, GivenDoc
  <2>4. ASSUME Close
        PROVE  DocInv'
    BY <2>4, CloseDoc
  <2>5. ASSUME Skip
        PROVE  DocInv'
    BY <2>5, SkipDoc
  <2>6. ASSUME Flush
        PROVE  DocInv'
    BY <2>6 DEF Flush, DocInv, Marked, Elems, Nested
  <2>7. ASSUME Finish
        PROVE  DocInv'
    BY <2>7 DEF Finish, DocInv, Marked, Elems, Nested
  <2> QED BY <1>2, <2>1, <2>2, <2>3, <2>4, <2>5, <2>6, <2>7, Steps
<1> QED BY <1>1, <1>2

-----------------------------------------------------------------------------
(* fullpath *)

Pieces ==
    {Fullpath!Slash} \cup {<<name>> : name \in Labels}
        \cup {Fullpath!Predicate(key, value) : key \in KeyFields, value \in Nat}

FullpathTypes ==
    [leader : Seq(Pieces), stack : Seq(Nat), top : Nat, size : Nat, flushes : BOOLEAN,
     data : Seq([path : Seq(Pieces), name : Labels, value : Nat]),
     written : Seq([path : Seq(Pieces), name : Labels, value : Nat])]

\* What the element adds to the leader
PartOf(e) == IF IsLevel(e) THEN PathOf(e) ELSE <<>>

\* The path of the first i elements, and how many of them have a name in it
Paths(o, path) ==
    /\ path \in [1..Len(o) -> Seq(Pieces)]
    /\ path[1] = <<Fullpath!Slash>>
    /\ \A i \in 2..Len(o) : path[i] = path[i - 1] \o PartOf(o[i])

Levels(o, level) ==
    /\ level \in [1..Len(o) -> Nat]
    /\ level[1] = 0
    /\ \A i \in 2..Len(o) : level[i] = IF IsLevel(o[i]) THEN level[i - 1] + 1 ELSE level[i - 1]
    /\ \A i, j \in 1..Len(o) : i <= j => level[i] <= level[j]
    /\ \A i \in 1..Len(o) : level[i] <= i - 1

\* Each name's place on the stack holds how long the path was without it.
Placed(o, path, level, stack) ==
    \A i \in 2..Len(o) : IsLevel(o[i]) => stack[level[i]] = Len(path[i - 1])

Leads(o, fp, path, level) ==
    /\ Paths(o, path) /\ Levels(o, level) /\ Placed(o, path, level, fp.stack)
    /\ fp.leader = path[Len(o)]
    /\ fp.top = level[Len(o)]

Follows(o, fp) ==
    /\ fp \in FullpathTypes
    /\ fp.size = StackSize
    /\ fp.top <= Len(fp.stack)
    /\ \E path, level : Leads(o, fp, path, level)

LEMMA PathTypes ==
    ASSUME NEW e \in Elements
    PROVE  PathOf(e) \in Seq(Pieces) /\ PartOf(e) \in Seq(Pieces)
<1> DEFINE keys == [i \in DOMAIN e.keys |-> Fullpath!Predicate(e.keys[i][1], e.keys[i][2])]
<1>1. e.keys \in Seq(KeyFields \X Nat) /\ e.name \in Labels
  BY DEF Elements
<1>2. keys \in Seq(Pieces)
  <2>1. DOMAIN e.keys = 1..Len(e.keys) /\ Len(e.keys) \in Nat
    BY <1>1
  <2>2. \A i \in 1..Len(e.keys) : e.keys[i] \in KeyFields \X Nat
    BY <1>1
  <2>3. \A i \in 1..Len(e.keys) : e.keys[i][1] \in KeyFields /\ e.keys[i][2] \in Nat
    BY <2>2
  <2>4. \A i \in 1..Len(e.keys) : Fullpath!Predicate(e.keys[i][1], e.keys[i][2]) \in Pieces
    BY <2>3 DEF Pieces
  <2> QED BY <2>1, <2>4
<1>3. <<e.name>> \in Pieces /\ Fullpath!Slash \in Pieces
  BY <1>1 DEF Pieces
<1>4. PathOf(e) = <<<<e.name>>>> \o keys \o <<Fullpath!Slash>>
  BY DEF PathOf
<1> HIDE DEF keys
<1>5. <<<<e.name>>>> \in Seq(Pieces) /\ <<Fullpath!Slash>> \in Seq(Pieces)
  BY <1>3
<1>6. PathOf(e) \in Seq(Pieces)
  BY <1>2, <1>4, <1>5, ConcatProperties
<1> QED BY <1>6 DEF PartOf

\* Elements that are told apart by nothing have the same path.
LEMMA PartSame ==
    ASSUME NEW e, NEW f, Like(e, f), f.keys = e.keys
    PROVE  PartOf(f) = PartOf(e) /\ (IsLevel(f) <=> IsLevel(e))
BY DEF Like, PartOf, PathOf, IsLevel

LEMMA FollowsSame ==
    ASSUME NEW o, Elems(o), NEW p, Elems(p), Len(p) = Len(o), Lower(o, p, Len(o)),
           NEW fp, Follows(o, fp)
    PROVE  Follows(p, fp)
<1>1. PICK path, level : Leads(o, fp, path, level)
  BY DEF Follows
<1>2. \A i \in 1..Len(o) : PartOf(p[i]) = PartOf(o[i]) /\ (IsLevel(p[i]) <=> IsLevel(o[i]))
  BY PartSame DEF Lower
<1>3. \A i \in 2..Len(o) : i \in 1..Len(o)
  BY TopFacts
<1>4. Leads(p, fp, path, level)
  BY <1>1, <1>2, <1>3 DEF Leads, Paths, Levels, Placed
<1> QED BY <1>4 DEF Follows

\* The leader only is the path of the encoder: other parts of it are free to change.
LEMMA FollowsLeader ==
    ASSUME NEW o, NEW fp, Follows(o, fp), NEW g \in FullpathTypes,
           g.leader = fp.leader, g.stack = fp.stack, g.top = fp.top, g.size = fp.size
    PROVE  Follows(o, g)
BY DEF Follows, Leads

\* A function on 1..n and its value at n + 1
Extended(f, n, x) == [i \in 1..(n + 1) |-> IF i <= n THEN f[i] ELSE x]

Extends(f, n, x, g, S) ==
    /\ g \in [1..(n + 1) -> S]
    /\ \A i \in 1..n : g[i] = f[i]
    /\ g[n + 1] = x

LEMMA ExtendedFacts ==
    ASSUME NEW n \in Nat, NEW S, NEW f \in [1..n -> S], NEW x \in S
    PROVE  Extends(f, n, x, Extended(f, n, x), S)
BY DEF Extended, Extends

LEMMA OpenLeads ==
    ASSUME NEW o, Elems(o), NEW p, Elems(p), Len(p) = Len(o) + 1, Lower(o, p, Len(o)),
           NEW fp, Follows(o, fp),
           NEW g \in FullpathTypes, g.size = StackSize, g.top <= Len(g.stack),
           g.leader = fp.leader \o PartOf(p[Len(o) + 1]),
           g.top = IF IsLevel(p[Len(o) + 1]) THEN fp.top + 1 ELSE fp.top,
           \A i \in 1..fp.top : g.stack[i] = fp.stack[i],
           IsLevel(p[Len(o) + 1]) => g.stack[g.top] = Len(fp.leader)
    PROVE  Follows(p, g)
<1> DEFINE n == Len(o)
           e == p[n + 1]
<1>1. PICK path, level : Leads(o, fp, path, level)
  BY DEF Follows
<1>2. n \in Nat /\ n >= 1 /\ n \in 1..n /\ n + 1 \in 1..(n + 1)
  BY TopFacts
<1>3. fp.leader \o PartOf(e) \in Seq(Pieces) /\ g.top \in Nat /\ fp.top \in Nat
  BY DEF FullpathTypes, Follows
<1>4. path \in [1..n -> Seq(Pieces)] /\ level \in [1..n -> Nat]
  BY <1>1 DEF Leads, Paths, Levels
<1>e. /\ g.leader = fp.leader \o PartOf(e)
      /\ g.top = IF IsLevel(e) THEN fp.top + 1 ELSE fp.top
      /\ IsLevel(e) => g.stack[g.top] = Len(fp.leader)
      /\ Len(p) = n + 1
  OBVIOUS
<1>7. \A i \in 2..n : PartOf(p[i]) = PartOf(o[i]) /\ (IsLevel(p[i]) <=> IsLevel(o[i]))
  BY PartSame DEF Lower
<1>8. /\ path[1] = <<Fullpath!Slash>> /\ path[n] = fp.leader
      /\ \A i \in 2..n : path[i] = path[i - 1] \o PartOf(o[i])
  BY <1>1 DEF Leads, Paths
<1>9. /\ level[1] = 0 /\ level[n] = fp.top
      /\ \A i \in 2..n : level[i] = IF IsLevel(o[i]) THEN level[i - 1] + 1 ELSE level[i - 1]
      /\ \A i, j \in 1..n : i <= j => level[i] <= level[j]
      /\ \A i \in 1..n : level[i] <= i - 1
  BY <1>1 DEF Leads, Levels
<1>p. \A i \in 2..n : IsLevel(o[i]) => fp.stack[level[i]] = Len(path[i - 1])
  BY <1>1 DEF Leads, Placed
<1> HIDE DEF n
<1> DEFINE x == fp.leader \o PartOf(e)
           path2 == Extended(path, n, x)
           level2 == Extended(level, n, g.top)
<1>5. /\ path2 \in [1..(n + 1) -> Seq(Pieces)]
      /\ \A i \in 1..n : path2[i] = path[i]
      /\ path2[n + 1] = x
  <2>1. Extends(path, n, x, path2, Seq(Pieces))
    <3> HIDE DEF x
    <3>1. x \in Seq(Pieces)
      BY <1>3 DEF x
    <3> QED BY <1>2, <1>4, <3>1, ExtendedFacts
  <2> HIDE DEF path2
  <2> QED BY <2>1 DEF Extends
<1>6. /\ level2 \in [1..(n + 1) -> Nat]
      /\ \A i \in 1..n : level2[i] = level[i]
      /\ level2[n + 1] = g.top
  <2>1. Extends(level, n, g.top, level2, Nat)
    BY <1>2, <1>3, <1>4, ExtendedFacts
  <2> HIDE DEF level2
  <2> QED BY <2>1 DEF Extends
<1> HIDE DEF path2, level2, e, x
<1>10. \A i \in 2..(n + 1) : i - 1 \in 1..n /\ (i \in 2..n \/ i = n + 1)
  BY <1>2
<1>11. \A i \in 2..n : i \in 1..n /\ i - 1 \in 1..n
  BY <1>2
<1>12. Paths(p, path2)
  <2>1. \A i \in 2..(n + 1) : path2[i] = path2[i - 1] \o PartOf(p[i])
    <3> TAKE i \in 2..(n + 1)
    <3>1. CASE i \in 2..n
      <4>1. path2[i] = path[i] /\ path2[i - 1] = path[i - 1]
        BY <1>5, <1>11, <3>1
      <4> QED BY <1>7, <1>8, <3>1, <4>1
    <3>2. CASE i = n + 1
      <4>1. i - 1 = n /\ p[i] = e
        BY <1>2, <3>2 DEF e
      <4>2. path2[i] = x /\ path2[i - 1] = path[n]
        BY <1>2, <1>5, <3>2, <4>1
      <4> QED BY <1>8, <4>1, <4>2 DEF x
    <3> QED BY <1>10, <3>1, <3>2
  <2>2. path2[1] = <<Fullpath!Slash>>
    BY <1>2, <1>5, <1>8
  <2> QED BY <1>5, <1>e, <2>1, <2>2 DEF Paths
<1>13. Levels(p, level2)
  <2>1. \A i \in 2..(n + 1) : level2[i] = IF IsLevel(p[i]) THEN level2[i - 1] + 1 ELSE level2[i - 1]
    <3> TAKE i \in 2..(n + 1)
    <3>1. CASE i \in 2..n
      <4>1. level2[i] = level[i] /\ level2[i - 1] = level[i - 1]
        BY <1>6, <1>11, <3>1
      <4> QED BY <1>7, <1>9, <3>1, <4>1
    <3>2. CASE i = n + 1
      <4>1. level2[i] = g.top /\ level2[i - 1] = fp.top /\ p[i] = e
        BY <1>2, <1>6, <1>9, <3>2 DEF e
      <4> QED BY <1>e, <4>1
    <3> QED BY <1>10, <3>1, <3>2
  <2>2. level2[1] = 0
    BY <1>2, <1>6, <1>9
  <2>3. \A i \in 1..(n + 1) : i \in 1..n \/ i = n + 1
    BY <1>2
  <2>4. g.top >= fp.top /\ g.top <= fp.top + 1 /\ fp.top <= n - 1
    BY <1>2, <1>3, <1>9, <1>e
  <2>5. \A i \in 1..n : level2[i] \in Nat /\ level2[i] <= fp.top /\ level2[i] <= i - 1
    <3> TAKE i \in 1..n
    <3>1. level2[i] = level[i] /\ level[i] \in Nat
      BY <1>4, <1>6
    <3>2. i <= n /\ n \in 1..n
      BY <1>2
    <3>3. level[i] <= level[n] /\ level[i] <= i - 1
      BY <1>9, <3>2
    <3> QED BY <1>9, <3>1, <3>3
  <2>6. \A i \in 1..(n + 1) : level2[i] <= i - 1
    <3>1. level2[n + 1] <= (n + 1) - 1
      BY <1>2, <1>3, <1>6, <2>4
    <3> QED BY <2>3, <2>5, <3>1
  <2>7. ASSUME NEW i \in 1..(n + 1), NEW j \in 1..(n + 1), i <= j
        PROVE  level2[i] <= level2[j]
    <3>1. CASE j \in 1..n
      <4>1. i \in 1..n
        BY <1>2, <2>7, <3>1
      <4>2. level2[i] = level[i] /\ level2[j] = level[j]
        BY <1>6, <3>1, <4>1
      <4> QED BY <1>9, <2>7, <3>1, <4>1, <4>2
    <3>2. CASE j = n + 1 /\ i \in 1..n
      <4>1. level2[j] = g.top /\ level2[i] <= fp.top /\ level2[i] \in Nat
        BY <1>6, <2>5, <3>2
      <4> QED BY <1>3, <2>4, <4>1
    <3>3. CASE j = n + 1 /\ i = n + 1
      BY <1>3, <1>6, <3>3
    <3> QED BY <2>3, <3>1, <3>2, <3>3
  <2> QED BY <1>6, <1>e, <2>1, <2>2, <2>6, <2>7 DEF Levels
<1>14. Placed(p, path2, level2, g.stack)
  <2>1. ASSUME NEW i \in 2..(n + 1), IsLevel(p[i])
        PROVE  g.stack[level2[i]] = Len(path2[i - 1])
    <3>1. CASE i \in 2..n
      <4>1. IsLevel(o[i]) /\ i \in 1..n /\ i - 1 \in 1..n
        BY <1>7, <1>11, <2>1, <3>1
      <4>2. fp.stack[level[i]] = Len(path[i - 1])
        BY <1>p, <3>1, <4>1
      <4>3. level[i] = level[i - 1] + 1 /\ level[i - 1] \in Nat
        BY <1>4, <1>9, <3>1, <4>1
      <4>4. level[i] <= fp.top
        <5>1. i <= n /\ n \in 1..n
          BY <1>2, <4>1
        <5> QED BY <1>9, <4>1, <5>1
      <4>5. level[i] \in 1..fp.top
        BY <1>3, <4>3, <4>4
      <4>6. level2[i] = level[i] /\ path2[i - 1] = path[i - 1]
        BY <1>5, <1>6, <4>1
      <4> QED BY <4>2, <4>5, <4>6
    <3>2. CASE i = n + 1
      <4>1. level2[i] = g.top /\ path2[i - 1] = path[n] /\ p[i] = e
        BY <1>2, <1>5, <1>6, <3>2 DEF e
      <4> QED BY <1>8, <1>e, <2>1, <4>1
    <3> QED BY <1>10, <3>1, <3>2
  <2> QED BY <1>e, <2>1 DEF Placed
<1>15. Leads(p, g, path2, level2)
  <2>1. g.leader = path2[n + 1] /\ g.top = level2[n + 1]
    BY <1>5, <1>6, <1>e DEF x
  <2> QED BY <1>12, <1>13, <1>14, <1>e, <2>1 DEF Leads
<1> QED BY <1>15 DEF Follows

LEMMA FewLevels ==
    ASSUME NEW o, Elems(o), NEW fp, Follows(o, fp)
    PROVE  fp.top <= Len(o) - 1 /\ fp.top \in Nat
<1>1. PICK path, level : Leads(o, fp, path, level)
  BY DEF Follows
<1> QED BY <1>1, TopFacts DEF Leads, Levels, Follows, FullpathTypes

LEMMA TwoAre ==
    ASSUME NEW S, NEW x \in S, NEW y \in S
    PROVE  <<x>> \o <<y>> = <<x, y>> /\ <<x>> \in Seq(S) /\ <<x, y>> \in Seq(S)
<1>1. <<x>> \in Seq(S) /\ <<x, y>> = Append(<<x>>, y)
  OBVIOUS
<1>2. <<x>> \o <<y>> = <<x, y>>
  BY <1>1, AppendIsConcat
<1>3. <<x, y>> \in Seq(S)
  OBVIOUS
<1> QED BY <1>1, <1>2, <1>3

LEMMA BackTo ==
    ASSUME NEW S, NEW s \in Seq(S), NEW t \in Seq(S)
    PROVE  SubSeq(s \o t, 1, Len(s)) = s
<1>1. CASE Len(s) = 0
  <2>1. s = <<>> /\ SubSeq(s \o t, 1, 0) = <<>>
    BY <1>1, EmptySeq, SubSeqEmpty
  <2> QED BY <1>1, <2>1
<1>2. CASE Len(s) # 0
  <2>1. 1 \in 1..Len(s) /\ Len(s) \in 1..Len(s)
    BY <1>2
  <2>2. SubSeq(s \o t, 1, Len(s)) = SubSeq(s, 1, Len(s))
    BY <2>1, SubSeqOfConcat1
  <2> QED BY <2>2, SubSeqFull
<1> QED BY <1>1, <1>2

LEMMA BackOne ==
    ASSUME NEW S, NEW s \in Seq(S), NEW x \in S
    PROVE  SubSeq(Append(s, x), 1, Len(Append(s, x)) - 1) = s
<1>1. Append(s, x) = s \o <<x>> /\ <<x>> \in Seq(S) /\ Len(Append(s, x)) = Len(s) + 1 /\ Len(s) \in Nat
  BY AppendIsConcat, AppendProperties
<1>2. Len(Append(s, x)) - 1 = Len(s)
  BY <1>1
<1> QED BY <1>1, <1>2, BackTo

Inserted(l, y, x) == SubSeq(l, 1, Len(l) - 1) \o <<y, x>>
Ended(s, a, k, x) == s \o (a \o k \o <<x>>)

\* What goes in front of the last piece goes to the end of what is in front of it.
LEMMA KeyInserted ==
    ASSUME NEW S, NEW s \in Seq(S), NEW a \in Seq(S), NEW k \in Seq(S), NEW x \in S, NEW y \in S
    PROVE  Inserted(Ended(s, a, k, x), y, x) = Ended(s, a, Append(k, y), x)
<1> DEFINE u == a \o k
           t == s \o u
<1>1. <<x>> \in Seq(S) /\ <<y>> \in Seq(S) /\ <<y, x>> = <<y>> \o <<x>>
  BY TwoAre
<1>2. u \in Seq(S)
  BY ConcatProperties
<1>3. a \o Append(k, y) = u \o <<y>>
  <2>1. Append(k, y) = k \o <<y>>
    BY AppendIsConcat
  <2>2. a \o (k \o <<y>>) = u \o <<y>>
    BY <1>1, ConcatAssociative
  <2> QED BY <2>1, <2>2
<1>4. a \o k \o <<x>> = u \o <<x>>
  OBVIOUS
<1> HIDE DEF u
<1>5. t \in Seq(S) /\ u \o <<y>> \in Seq(S)
  BY <1>1, <1>2, ConcatProperties
<1>6. s \o (u \o <<x>>) = t \o <<x>>
  BY <1>1, <1>2, ConcatAssociative
<1>7. s \o ((u \o <<y>>) \o <<x>>) = (t \o <<y>>) \o <<x>>
  <2>1. s \o ((u \o <<y>>) \o <<x>>) = (s \o (u \o <<y>>)) \o <<x>>
    BY <1>1, <1>5, ConcatAssociative
  <2>2. s \o (u \o <<y>>) = t \o <<y>>
    BY <1>1, <1>2, ConcatAssociative
  <2> QED BY <2>1, <2>2
<1> HIDE DEF t
<1>8. Inserted(t \o <<x>>, y, x) = t \o <<y, x>>
  <2>1. t \o <<x>> = Append(t, x)
    BY <1>5, AppendIsConcat
  <2>2. SubSeq(Append(t, x), 1, Len(Append(t, x)) - 1) = t
    BY <1>5, BackOne
  <2> QED BY <2>1, <2>2 DEF Inserted
<1>9. t \o <<y, x>> = (t \o <<y>>) \o <<x>>
  <2>1. (t \o <<y>>) \o <<x>> = t \o (<<y>> \o <<x>>)
    BY <1>1, <1>5, ConcatAssociative
  <2> QED BY <1>1, <2>1
<1>10. Ended(s, a, k, x) = t \o <<x>>
  BY <1>4, <1>6 DEF Ended
<1>11. Ended(s, a, Append(k, y), x) = (t \o <<y>>) \o <<x>>
  BY <1>3, <1>7 DEF Ended
<1> QED BY <1>8, <1>9, <1>10, <1>11

-----------------------------------------------------------------------------
(* What the operations of fullpath do to its leader and its stack *)

PushedAs(fp, g, name) ==
    /\ g \in FullpathTypes /\ g.size = fp.size /\ g.top = fp.top + 1 /\ g.top <= Len(g.stack)
    /\ g.leader = fp.leader \o <<<<name>>, Fullpath!Slash>>
    /\ \A i \in 1..fp.top : g.stack[i] = fp.stack[i]
    /\ g.stack[g.top] = Len(fp.leader)

LEMMA OpenElementFacts ==
    ASSUME NEW fp \in FullpathTypes, fp.top < fp.size, fp.top <= Len(fp.stack), NEW name \in Labels
    PROVE  PushedAs(fp, Fullpath!OpenElement(fp, <<name>>), name)
<1> DEFINE i == fp.top + 1
           x == Len(fp.leader)
           s == fp.stack
           m == IF i > Len(s) THEN i ELSE Len(s)
           stack == [j \in 1..m |-> IF j = i THEN x ELSE s[j]]
           leader == fp.leader \o <<<<name>>, Fullpath!Slash>>
           g == [fp EXCEPT !.stack = stack, !.top = i, !.leader = leader]
<1>1. fp.top \in Nat /\ s \in Seq(Nat) /\ fp.leader \in Seq(Pieces) /\ x \in Nat /\ Len(s) \in Nat
      /\ fp.size \in Nat
  BY DEF FullpathTypes
<1>2. leader \in Seq(Pieces)
  <2>1. <<name>> \in Pieces /\ Fullpath!Slash \in Pieces
    BY DEF Pieces
  <2>2. <<<<name>>, Fullpath!Slash>> \in Seq(Pieces)
    BY <2>1
  <2> QED BY <1>1, <2>2, ConcatProperties
<1>3. stack \in Seq(Nat) /\ Len(stack) = m
  <2>1. m \in Nat /\ \A j \in 1..m : j # i => j \in 1..Len(s)
    BY <1>1
  <2>2. \A j \in 1..m : (IF j = i THEN x ELSE s[j]) \in Nat
    BY <1>1, <2>1
  <2> QED BY <2>1, <2>2
<1>4. stack[i] = x /\ \A j \in 1..fp.top : stack[j] = s[j]
  BY <1>1
<1>5. Fullpath!OpenElement(fp, <<name>>) = g
  <2>1. Fullpath!Grown(fp) = fp
    BY <1>1 DEF Fullpath!Grown
  <2>2. Fullpath!Pushed(fp, x) = [fp EXCEPT !.stack = stack, !.top = i]
    BY <1>1, <2>1 DEF Fullpath!Pushed, Fullpath!Stored, FullpathTypes
  <2>3. Fullpath!OpenElement(fp, <<name>>) = [[fp EXCEPT !.stack = stack, !.top = i] EXCEPT !.leader = @ \o <<<<name>>, Fullpath!Slash>>]
    BY <2>2 DEF Fullpath!OpenElement
  <2> HIDE DEF stack, i
  <2> QED BY <2>3 DEF FullpathTypes
<1>6. i <= m
  BY <1>1
<1>i. i \in Nat
  BY <1>1
<1> HIDE DEF stack, leader, m, i
<1>7. g \in FullpathTypes /\ g.size = fp.size /\ g.top = i /\ g.stack = stack /\ g.leader = leader
  BY <1>1, <1>2, <1>3, <1>i DEF FullpathTypes
<1> HIDE DEF g
<1> QED BY <1>3, <1>4, <1>5, <1>6, <1>7 DEF PushedAs, leader, i

\* With what was pushed last, back to how long the leader was then
PoppedAs(fp, g, leader) ==
    /\ g \in FullpathTypes /\ g.size = fp.size /\ g.top = fp.top - 1
    /\ g.stack = fp.stack /\ g.leader = leader

LEMMA CloseElementFacts ==
    ASSUME NEW fp \in FullpathTypes, fp.top > 0,
           NEW leader \in Seq(Pieces), SubSeq(fp.leader, 1, fp.stack[fp.top]) = leader
    PROVE  PoppedAs(fp, Fullpath!CloseElement(fp), leader)
<1>1. fp.top \in Nat /\ fp.top - 1 \in Nat
  BY DEF FullpathTypes
<1>2. Fullpath!CloseElement(fp) = [[fp EXCEPT !.top = @ - 1] EXCEPT !.leader = leader]
  <2>1. fp.top # 0
    BY <1>1
  <2>2. Fullpath!Popped(fp) = [fp EXCEPT !.top = @ - 1] /\ Fullpath!PoppedOffset(fp) = fp.stack[fp.top]
    BY <2>1 DEF Fullpath!Popped, Fullpath!PoppedOffset
  <2>3. [fp EXCEPT !.top = @ - 1].leader = fp.leader
    BY DEF FullpathTypes
  <2> QED BY <2>2, <2>3 DEF Fullpath!CloseElement
<1> QED BY <1>1, <1>2 DEF PoppedAs, FullpathTypes

Predicates(e) == [i \in DOMAIN e.keys |-> Fullpath!Predicate(e.keys[i][1], e.keys[i][2])]

LEMMA PredicatesFacts ==
    ASSUME NEW e \in Elements
    PROVE  /\ Predicates(e) \in Seq(Pieces) /\ Len(Predicates(e)) = Len(e.keys)
           /\ PathOf(e) = <<<<e.name>>>> \o Predicates(e) \o <<Fullpath!Slash>>
           /\ <<e.name>> \in Pieces /\ Fullpath!Slash \in Pieces
<1>1. e.keys \in Seq(KeyFields \X Nat) /\ e.name \in Labels
  BY DEF Elements
<1>2. Predicates(e) \in Seq(Pieces) /\ Len(Predicates(e)) = Len(e.keys)
  <2>1. DOMAIN e.keys = 1..Len(e.keys) /\ Len(e.keys) \in Nat
    BY <1>1
  <2>2. \A i \in 1..Len(e.keys) : e.keys[i] \in KeyFields \X Nat
    BY <1>1
  <2>3. \A i \in 1..Len(e.keys) : e.keys[i][1] \in KeyFields /\ e.keys[i][2] \in Nat
    BY <2>2
  <2>4. \A i \in 1..Len(e.keys) : Fullpath!Predicate(e.keys[i][1], e.keys[i][2]) \in Pieces
    BY <2>3 DEF Pieces
  <2> QED BY <2>1, <2>4 DEF Predicates
<1>3. <<e.name>> \in Pieces /\ Fullpath!Slash \in Pieces
  BY <1>1 DEF Pieces
<1> QED BY <1>2, <1>3 DEF PathOf, Predicates

LEMMA NewPath ==
    ASSUME NEW e \in Elements, e.keys = <<>>
    PROVE  PathOf(e) = <<<<e.name>>, Fullpath!Slash>>
<1> DEFINE x == <<e.name>>
           y == Fullpath!Slash
<1>1. Predicates(e) \in Seq(Pieces) /\ Len(Predicates(e)) = 0 /\ x \in Pieces /\ y \in Pieces
      /\ PathOf(e) = <<x>> \o Predicates(e) \o <<y>>
  BY PredicatesFacts
<1> HIDE DEF x, y
<1>2. Predicates(e) = <<>> /\ <<x>> \in Seq(Pieces)
  BY <1>1, EmptySeq
<1>3. <<x>> \o <<>> = <<x>>
  BY <1>2, ConcatEmptySeq
<1>4. <<x>> \o <<y>> = <<x, y>>
  BY <1>1, TwoAre
<1> QED BY <1>1, <1>2, <1>3, <1>4 DEF x, y

\* f is e with one key more.
OneKeyMore(e, f, key, value) == f.name = e.name /\ f.keys = Append(e.keys, <<key, value>>)

LEMMA KeyedPath ==
    ASSUME NEW e \in Elements, NEW f \in Elements,
           NEW key \in KeyFields, NEW value \in Nat, OneKeyMore(e, f, key, value),
           NEW s \in Seq(Pieces)
    PROVE  Inserted(s \o PathOf(e), Fullpath!Predicate(key, value), Fullpath!Slash) = s \o PathOf(f)
<1>0. f.name = e.name /\ f.keys = Append(e.keys, <<key, value>>)
  BY DEF OneKeyMore
<1> DEFINE l == s \o PathOf(e)
           y == Fullpath!Predicate(key, value)
           x == Fullpath!Slash
<1>1. /\ Predicates(e) \in Seq(Pieces) /\ PathOf(e) = <<<<e.name>>>> \o Predicates(e) \o <<x>>
      /\ Predicates(f) \in Seq(Pieces) /\ PathOf(f) = <<<<e.name>>>> \o Predicates(f) \o <<x>>
      /\ Len(Predicates(e)) = Len(e.keys) /\ Len(Predicates(f)) = Len(f.keys)
      /\ <<e.name>> \in Pieces /\ x \in Pieces
  BY <1>0, PredicatesFacts
<1>2. y \in Pieces
  BY DEF Pieces
<1>3. e.keys \in Seq(KeyFields \X Nat) /\ f.keys \in Seq(KeyFields \X Nat) /\ <<key, value>> \in KeyFields \X Nat
  BY DEF Elements
<1>4. Predicates(f) = Append(Predicates(e), y)
  <2> DEFINE k == e.keys
             m == Len(k)
             h == f.keys
  <2>1. m \in Nat /\ Len(h) = m + 1 /\ DOMAIN h = 1..(m + 1) /\ DOMAIN k = 1..m
        /\ h[m + 1] = <<key, value>> /\ \A i \in 1..m : h[i] = k[i]
    BY <1>0, <1>3, AppendProperties
  <2>2. /\ \A i \in 1..(m + 1) : Predicates(f)[i] = Fullpath!Predicate(h[i][1], h[i][2])
        /\ \A i \in 1..m : Predicates(e)[i] = Fullpath!Predicate(k[i][1], k[i][2])
    BY <2>1 DEF Predicates
  <2> HIDE DEF m, h, k
  <2>3. /\ \A i \in 1..m : Predicates(f)[i] = Predicates(e)[i]
        /\ Predicates(f)[m + 1] = y
    <3>1. \A i \in 1..m : i \in 1..(m + 1)
      BY <2>1
    <3>2. m + 1 \in 1..(m + 1) /\ h[m + 1][1] = key /\ h[m + 1][2] = value
      BY <2>1
    <3> QED BY <2>1, <2>2, <3>1, <3>2
  <2>4. Len(Predicates(e)) = m /\ Len(Predicates(f)) = m + 1
    BY <1>1, <2>1 DEF m, k, h
  <2> DEFINE q == Predicates(e)
             a == Append(q, y)
  <2>q. q \in Seq(Pieces) /\ Len(q) = m
    BY <1>1, <2>4
  <2> HIDE DEF q
  <2>5. a \in Seq(Pieces) /\ Len(a) = m + 1 /\ a[m + 1] = y /\ \A i \in 1..m : a[i] = q[i]
    BY <1>2, <2>q, AppendProperties
  <2> HIDE DEF a
  <2>6. \A i \in 1..(m + 1) : Predicates(f)[i] = a[i]
    <3>1. \A i \in 1..(m + 1) : i \in 1..m \/ i = m + 1
      BY <2>1
    <3> QED BY <2>3, <2>5, <3>1 DEF q
  <2>7. Predicates(f) = a
    BY <1>1, <2>4, <2>5, <2>6, SeqEqual
  <2> QED BY <2>7 DEF a, q
<1> DEFINE a == <<<<e.name>>>>
           k == Predicates(e)
<1>5. a \in Seq(Pieces) /\ k \in Seq(Pieces) /\ l = Ended(s, a, k, x)
  BY <1>1 DEF Ended
<1>e. s \o PathOf(f) = Ended(s, a, Append(k, y), x)
  BY <1>1, <1>4 DEF Ended
<1> HIDE DEF y, x, a, k, l
<1>6. Inserted(Ended(s, a, k, x), y, x) = Ended(s, a, Append(k, y), x)
  <2>1. x \in Pieces /\ y \in Pieces
    BY <1>1, <1>2
  <2> QED BY <1>5, <2>1, KeyInserted
<1> QED BY <1>5, <1>6, <1>e DEF x, y, l

-----------------------------------------------------------------------------
(* The leader follows what is open *)

LEMMA CloseLeads ==
    ASSUME NEW o, Elems(o), Len(o) > 1, NEW p, Elems(p), Len(p) = Len(o) - 1,
           \A i \in 1..(Len(o) - 1) : p[i] = o[i],
           NEW fp, Follows(o, fp),
           NEW g, g = IF IsLevel(o[Len(o)]) THEN Fullpath!CloseElement(fp) ELSE fp
    PROVE  Follows(p, g)
<1> DEFINE n == Len(o)
           m == n - 1
           e == o[n]
<1>1. PICK path, level : Leads(o, fp, path, level)
  BY DEF Follows
<1>2. n \in Nat /\ m \in Nat /\ m \in 1..m /\ n \in 2..n /\ m \in 1..n /\ 1 \in 1..m /\ 1 \in 1..n
      /\ \A i \in 1..m : i \in 1..n
  BY TopFacts
<1>3. path \in [1..n -> Seq(Pieces)] /\ level \in [1..n -> Nat]
  BY <1>1 DEF Leads, Paths, Levels
<1>4. /\ path[1] = <<Fullpath!Slash>> /\ path[n] = fp.leader
      /\ \A i \in 2..n : path[i] = path[i - 1] \o PartOf(o[i])
  BY <1>1 DEF Leads, Paths
<1>5. /\ level[1] = 0 /\ level[n] = fp.top
      /\ \A i \in 2..n : level[i] = IF IsLevel(o[i]) THEN level[i - 1] + 1 ELSE level[i - 1]
      /\ \A i, j \in 1..n : i <= j => level[i] <= level[j]
      /\ \A i \in 1..n : level[i] <= i - 1
  BY <1>1 DEF Leads, Levels
<1>6. \A i \in 2..n : IsLevel(o[i]) => fp.stack[level[i]] = Len(path[i - 1])
  BY <1>1 DEF Leads, Placed
<1>7. e \in Elements /\ PartOf(e) \in Seq(Pieces) /\ path[m] \in Seq(Pieces) /\ level[m] \in Nat
  BY <1>2, <1>3, TopFacts, PathTypes
<1>8. fp \in FullpathTypes /\ fp.size = StackSize /\ fp.top <= Len(fp.stack) /\ fp.top \in Nat
  BY DEF Follows, FullpathTypes
<1>9. /\ g \in FullpathTypes /\ g.size = StackSize /\ g.top <= Len(g.stack) /\ g.stack = fp.stack
      /\ g.leader = path[m] /\ g.top = level[m]
  <2>1. CASE IsLevel(e)
    <3>1. fp.top = level[m] + 1 /\ fp.stack[fp.top] = Len(path[m])
      BY <1>2, <1>5, <1>6, <2>1
    <3>2. SubSeq(fp.leader, 1, fp.stack[fp.top]) = path[m]
      <4>1. fp.leader = path[m] \o PartOf(e)
        BY <1>2, <1>4
      <4> HIDE DEF m, e
      <4> QED BY <1>7, <3>1, <4>1, BackTo
    <3>3. PoppedAs(fp, g, path[m])
      <4>1. fp.top > 0 /\ g = Fullpath!CloseElement(fp)
        BY <1>7, <2>1, <3>1
      <4> HIDE DEF n, m, e
      <4> QED BY <1>7, <1>8, <3>2, <4>1, CloseElementFacts
    <3>4. Len(fp.stack) \in Nat
      BY <1>8 DEF FullpathTypes
    <3> QED BY <1>7, <1>8, <3>1, <3>3, <3>4 DEF PoppedAs
  <2>2. CASE ~IsLevel(e)
    <3>1. path[n] = path[m] /\ level[n] = level[m]
      BY <1>2, <1>4, <1>5, <1>7, <2>2, ConcatEmptySeq DEF PartOf
    <3> QED BY <1>4, <1>5, <1>8, <2>2, <3>1
  <2> QED BY <2>1, <2>2
<1> DEFINE path2 == [i \in 1..m |-> path[i]]
           level2 == [i \in 1..m |-> level[i]]
<1>10. /\ path2 \in [1..m -> Seq(Pieces)] /\ \A i \in 1..m : path2[i] = path[i]
       /\ level2 \in [1..m -> Nat] /\ \A i \in 1..m : level2[i] = level[i]
  BY <1>2, <1>3
<1>11. \A i \in 2..m : i \in 2..n /\ i \in 1..m /\ i - 1 \in 1..m /\ p[i] = o[i]
  BY <1>2
<1>12. Len(p) = m
  OBVIOUS
<1> HIDE DEF path2, level2, m, n
<1>13. Paths(p, path2)
  BY <1>2, <1>4, <1>10, <1>11, <1>12 DEF Paths
<1>14. Levels(p, level2)
  <2>1. \A i, j \in 1..m : i <= j => level2[i] <= level2[j]
    BY <1>2, <1>5, <1>10
  <2>2. \A i \in 1..m : level2[i] <= i - 1
    BY <1>2, <1>5, <1>10
  <2>3. \A i \in 2..m : level2[i] = IF IsLevel(p[i]) THEN level2[i - 1] + 1 ELSE level2[i - 1]
    BY <1>5, <1>10, <1>11
  <2>4. level2[1] = 0
    BY <1>2, <1>5, <1>10
  <2> QED BY <1>10, <1>12, <2>1, <2>2, <2>3, <2>4 DEF Levels
<1>15. Placed(p, path2, level2, g.stack)
  BY <1>6, <1>9, <1>10, <1>11, <1>12 DEF Placed
<1>16. Leads(p, g, path2, level2)
  BY <1>2, <1>9, <1>10, <1>12, <1>13, <1>14, <1>15 DEF Leads
<1> QED BY <1>9, <1>16 DEF Follows

LEMMA KeyLeads ==
    ASSUME NEW o, Elems(o), Len(o) > 1, IsLevel(o[Len(o)]), NEW key \in KeyFields, NEW value \in Nat,
           NEW p, Keyed(o, p, Append(o[Len(o)].keys, <<key, value>>)),
           NEW fp, Follows(o, fp)
    PROVE  Follows(p, Fullpath!Key(fp, key, value))
<1> DEFINE n == Len(o)
           e == o[n]
           f == p[n]
           y == Fullpath!Predicate(key, value)
           l == fp.leader
           g == Fullpath!Key(fp, key, value)
<1>1. PICK path, level : Leads(o, fp, path, level)
  BY DEF Follows
<1>2. n \in Nat /\ n \in 1..n /\ n - 1 \in 1..n /\ n \in 2..n
  BY TopFacts
<1>3. path \in [1..n -> Seq(Pieces)]
  BY <1>1 DEF Leads, Paths
<1>4. /\ path[1] = <<Fullpath!Slash>> /\ path[n] = l
      /\ \A i \in 2..n : path[i] = path[i - 1] \o PartOf(o[i])
  BY <1>1 DEF Leads, Paths
<1>5. /\ Elems(p) /\ Len(p) = n /\ Lower(o, p, n - 1) /\ Like(e, f)
      /\ f.keys = Append(e.keys, <<key, value>>)
  BY DEF Keyed
<1>6. /\ e \in Elements /\ f \in Elements /\ f.name = e.name /\ IsLevel(e) /\ IsLevel(f)
      /\ path[n - 1] \in Seq(Pieces) /\ l \in Seq(Pieces)
  <2>1. e \in Elements /\ f \in Elements
    BY <1>2, <1>5, TopFacts
  <2>2. path[n - 1] \in Seq(Pieces) /\ path[n] \in Seq(Pieces)
    BY <1>2, <1>3
  <2> QED BY <1>4, <1>5, <2>1, <2>2 DEF Like, IsLevel
<1>7. l = path[n - 1] \o PathOf(e)
  BY <1>2, <1>4, <1>6 DEF PartOf
<1>8. Inserted(l, y, Fullpath!Slash) = path[n - 1] \o PathOf(f)
  <2> DEFINE q == path[n - 1]
  <2> HIDE DEF n, e, f, l, y, q
  <2>1. l = q \o PathOf(e) /\ q \in Seq(Pieces)
    BY <1>6, <1>7 DEF q
  <2>2. Inserted(q \o PathOf(e), Fullpath!Predicate(key, value), Fullpath!Slash) = q \o PathOf(f)
    <3>1. OneKeyMore(e, f, key, value)
      BY <1>5, <1>6 DEF OneKeyMore
    <3> QED BY <1>6, <2>1, <3>1, KeyedPath
  <2> QED BY <2>1, <2>2 DEF q, y
<1> DEFINE x == path[n - 1] \o PathOf(f)
<1>9. g = [fp EXCEPT !.leader = x] /\ x \in Seq(Pieces)
  <2>1. g = [fp EXCEPT !.leader = Inserted(l, y, Fullpath!Slash)]
    BY DEF Fullpath!Key, Inserted
  <2>2. x \in Seq(Pieces)
    BY <1>6, PathTypes, ConcatProperties
  <2> QED BY <1>8, <2>1, <2>2
<1>10. /\ g \in FullpathTypes /\ g.leader = x /\ g.top = fp.top /\ g.stack = fp.stack
       /\ g.size = StackSize /\ g.top <= Len(g.stack)
  <2> HIDE DEF x, g
  <2> QED BY <1>9 DEF Follows, FullpathTypes
<1> DEFINE path2 == [path EXCEPT ![n] = x]
<1>11. path2 \in [1..n -> Seq(Pieces)] /\ path2[n] = x /\ \A i \in 1..n : i # n => path2[i] = path[i]
  <2> HIDE DEF x
  <2> QED BY <1>2, <1>3, <1>9
<1>12. \A i \in 2..n : i # n => PartOf(p[i]) = PartOf(o[i])
  <2> TAKE i \in 2..n
  <2> HAVE i # n
  <2>1. i \in 1..(n - 1)
    BY <1>2
  <2>2. Like(o[i], p[i]) /\ p[i].keys = o[i].keys
    BY <1>5, <2>1 DEF Lower
  <2> QED BY <2>2, PartSame
<1>13. \A i \in 2..n : i \in 1..n /\ i - 1 \in 1..n /\ i - 1 # n
  BY <1>2
<1>14. \A i \in 1..n : IsLevel(p[i]) <=> IsLevel(o[i])
  <2>1. \A i \in 1..n : i \in 1..(n - 1) \/ i = n
    BY <1>2
  <2> QED BY <1>5, <1>6, <2>1 DEF Lower, Like, IsLevel
<1>15. PartOf(f) = PathOf(f)
  BY <1>6 DEF PartOf
<1>16. 1 # n /\ 1 \in 1..n
  BY <1>2
<1> HIDE DEF path2, g, l, y
<1>17. Paths(p, path2)
  <2>1. \A i \in 2..n : path2[i] = path2[i - 1] \o PartOf(p[i])
    <3> TAKE i \in 2..n
    <3>1. CASE i = n
      BY <1>2, <1>11, <1>13, <1>15, <3>1
    <3>2. CASE i # n
      BY <1>4, <1>11, <1>12, <1>13, <3>2
    <3> QED BY <3>1, <3>2
  <2>2. path2[1] = <<Fullpath!Slash>>
    BY <1>4, <1>11, <1>16
  <2> QED BY <1>5, <1>11, <2>1, <2>2 DEF Paths
<1>18. Levels(p, level) /\ level[n] = fp.top
  BY <1>1, <1>5, <1>13, <1>14 DEF Leads, Levels
<1>19. Placed(p, path2, level, g.stack)
  <2>1. \A i \in 2..n : IsLevel(p[i]) => fp.stack[level[i]] = Len(path[i - 1])
    BY <1>1, <1>13, <1>14 DEF Leads, Placed
  <2> QED BY <1>5, <1>10, <1>11, <1>13, <2>1 DEF Placed
<1>20. Leads(p, g, path2, level)
  BY <1>5, <1>10, <1>11, <1>17, <1>18, <1>19 DEF Leads
<1>21. Follows(p, g)
  BY <1>10, <1>20 DEF Follows
<1> QED BY <1>21 DEF g

-----------------------------------------------------------------------------
(* The path of what is open is a function of it *)

LEMMA PathIs ==
    ASSUME NEW o, Elems(o), NEW path, Paths(o, path)
    PROVE  PathOfAll(o) = path[Len(o)]
<1> DEFINE n == Len(o)
           Is(q) == q = [i \in 1..n |-> IF i = 1 THEN <<Fullpath!Slash>> ELSE q[i - 1] \o PartOf(o[i])]
           all == CHOOSE q : Is(q)
<1>1. n \in Nat /\ n \in 1..n /\ \A i \in 1..n : i # 1 => i \in 2..n /\ i - 1 \in 1..n
  BY TopFacts
<1>2. PathOfAll(o) = all[n]
  BY DEF PathOfAll, PartOf
<1>3. Is(path)
  BY <1>1 DEF Paths
<1>4. Is(all)
  BY <1>3
<1> HIDE DEF all
<1>5. \A i \in 1..n : all[i] = IF i = 1 THEN <<Fullpath!Slash>> ELSE all[i - 1] \o PartOf(o[i])
  BY <1>4
<1> HIDE DEF Is
<1>6. \A i \in 1..n : all[i] = path[i]
  <2>1. SUFFICES ASSUME NEW i \in 1..n, all[i] # path[i]
                 PROVE  FALSE
    OBVIOUS
  <2> DEFINE D == {j \in Nat : j \in 1..n /\ all[j] # path[j]}
  <2>2. i \in D
    BY <1>1, <2>1
  <2>3. PICK j \in D : \A k \in D : j <= k
    <3>1. IsWellFoundedOn(OpToRel(<, Nat), Nat)
      BY NatLessThanWellFounded
    <3>2. PICK j \in D : ~(\E k \in D : <<k, j>> \in OpToRel(<, Nat))
      <4> HIDE DEF D
      <4>1. D \subseteq Nat /\ D # {}
        BY <2>2 DEF D
      <4> QED BY <3>1, <4>1, WFMin
    <3>3. \A k \in D : ~(k < j)
      BY <3>2 DEF OpToRel
    <3> QED BY <3>3
  <2>4. CASE j = 1
    BY <1>5, <2>3, <2>4 DEF Paths
  <2>5. CASE j # 1
    <3>1. j \in 2..n /\ j - 1 \in 1..n /\ j - 1 \in Nat /\ ~(j <= j - 1)
      BY <1>1, <2>3, <2>5
    <3>2. all[j - 1] = path[j - 1]
      BY <2>3, <3>1
    <3>3. all[j] = all[j - 1] \o PartOf(o[j]) /\ path[j] = path[j - 1] \o PartOf(o[j])
      BY <1>5, <2>3, <2>5, <3>1 DEF Paths
    <3> QED BY <2>3, <3>2, <3>3
  <2> QED BY <2>4, <2>5
<1> QED BY <1>1, <1>2, <1>6

LEMMA LeaderIs ==
    ASSUME Elems(open), Follows(open, fullpath)
    PROVE  LeaderIsPath
BY PathIs DEF Follows, Leads, LeaderIsPath

-----------------------------------------------------------------------------
(* The steps of the document, for fullpath *)

LEMMA OpenLeader ==
    ASSUME MaxOpen \in Nat, MaxOpen <= StackSize,
           DocInv, Follows(open, fullpath),
           NEW kind \in OpenKinds, NEW name \in Labels, NEW v \in Verdicts,
           NEW flags \in SUBSET {"dense"}, Fits(kind, name), OpenOne(kind, name, v, flags)
    PROVE  Follows(open', fullpath')
<1> DEFINE n == Len(open)
           e == open'[n + 1]
           op == OpenOp(kind, name, flags)
<1>1. /\ Elems(open) /\ Elems(open') /\ Len(open') = n + 1 /\ Lower(open, open', n)
      /\ e.kind = kind /\ e.name = name /\ e.keys = <<>> /\ n \in Nat /\ n + 1 \in 1..(n + 1)
  BY OpenEffect, TopFacts DEF OpenedOne, DocInv
<1>2. fullpath' = Fullpath!Handle(fullpath, op)
  BY OpenKeeps DEF Tell
<1>3. /\ op.op = Opening[kind] /\ op.name = name
      /\ kind = "container" => op.op = "open_container"
      /\ kind = "instance" => op.op = "open_instance"
      /\ kind = "list" => op.op = "open_list"
      /\ kind = "leaf_list" => op.op = "open_leaf_list"
  BY DEF OpenOp, Op, Opening
<1>4. e \in Elements
  BY <1>1, TopFacts
<1>5. /\ fullpath \in FullpathTypes /\ fullpath.size = StackSize /\ fullpath.top <= Len(fullpath.stack)
      /\ fullpath.top \in Nat /\ fullpath.leader \in Seq(Pieces) /\ fullpath.top < StackSize
  <2>1. fullpath.top <= n - 1 /\ fullpath.top \in Nat
    BY <1>1, FewLevels
  <2>2. n <= MaxOpen /\ StackSize \in Nat
    BY SizesAssumption DEF OpenOne
  <2> QED BY <1>1, <2>1, <2>2 DEF Follows, FullpathTypes
<1> HIDE DEF op, n, e
<1>6. /\ fullpath' \in FullpathTypes /\ fullpath'.size = StackSize
      /\ fullpath'.top <= Len(fullpath'.stack)
      /\ fullpath'.leader = fullpath.leader \o PartOf(e)
      /\ fullpath'.top = IF IsLevel(e) THEN fullpath.top + 1 ELSE fullpath.top
      /\ \A i \in 1..fullpath.top : fullpath'.stack[i] = fullpath.stack[i]
      /\ IsLevel(e) => fullpath'.stack[fullpath'.top] = Len(fullpath.leader)
  <2>1. CASE kind \in {"container", "instance"}
    <3>1. op.op \in {"open_container", "open_instance"} /\ IsLevel(e)
      BY <1>1, <1>3, <2>1 DEF IsLevel
    <3>2. fullpath' = Fullpath!OpenElement(fullpath, <<name>>)
      BY <1>2, <1>3, <3>1 DEF Fullpath!Handle
    <3>3. PushedAs(fullpath, fullpath', name)
      BY <1>5, <3>2, OpenElementFacts
    <3>4. PartOf(e) = <<<<name>>, Fullpath!Slash>>
      BY <1>1, <1>4, <3>1, NewPath DEF PartOf
    <3> QED BY <1>5, <3>1, <3>3, <3>4 DEF PushedAs
  <2>2. CASE kind \notin {"container", "instance"}
    <3>1. op.op \in {"open_list", "open_leaf_list"} /\ ~IsLevel(e)
      BY <1>1, <1>3, <2>2 DEF IsLevel, OpenKinds
    <3>2. fullpath' = fullpath
      BY <1>2, <3>1 DEF Fullpath!Handle
    <3>3. fullpath.leader = fullpath.leader \o PartOf(e)
      BY <1>5, <3>1, ConcatEmptySeq DEF PartOf
    <3> QED BY <1>5, <3>1, <3>2, <3>3
  <2> QED BY <2>1, <2>2
<1> QED BY <1>1, <1>6, OpenLeads DEF n, e

ValueTypes == [path : Seq(Pieces), name : Labels, value : Nat]

\* What fullpath writes is no part of what it has of the document.
LEMMA WritesOnly ==
    ASSUME NEW fp \in FullpathTypes, NEW name \in Labels, NEW value \in Nat,
           NEW g \in {Fullpath!Value(fp, name, value), Fullpath!Flush(fp)}
    PROVE  /\ g \in FullpathTypes /\ g.leader = fp.leader /\ g.stack = fp.stack
           /\ g.top = fp.top /\ g.size = fp.size
<1>1. \A f \in FullpathTypes :
          /\ Fullpath!Flush(f) \in FullpathTypes /\ Fullpath!Flush(f).leader = f.leader
          /\ Fullpath!Flush(f).stack = f.stack /\ Fullpath!Flush(f).top = f.top
          /\ Fullpath!Flush(f).size = f.size
  <2> TAKE f \in FullpathTypes
  <2> DEFINE w == f.written \o f.data
  <2>1. w \in Seq(ValueTypes) /\ <<>> \in Seq(ValueTypes)
    BY ConcatProperties, EmptySeq DEF FullpathTypes, ValueTypes
  <2>2. Fullpath!Flush(f) = [f EXCEPT !.written = w, !.data = <<>>]
    BY DEF Fullpath!Flush, FullpathTypes
  <2> HIDE DEF w
  <2> QED BY <2>1, <2>2 DEF FullpathTypes, ValueTypes
<1> DEFINE line == [path |-> fp.leader, name |-> name, value |-> value]
           d == Append(fp.data, line)
           given == [fp EXCEPT !.data = d]
<1>2. d \in Seq(ValueTypes)
  <2>1. line \in ValueTypes /\ fp.data \in Seq(ValueTypes)
    BY DEF FullpathTypes, ValueTypes
  <2> HIDE DEF line
  <2> QED BY <2>1, AppendProperties
<1>3. Fullpath!Value(fp, name, value) = IF fp.flushes THEN Fullpath!Flush(given) ELSE given
  BY DEF Fullpath!Value
<1> HIDE DEF d
<1>4. /\ given \in FullpathTypes /\ given.leader = fp.leader /\ given.stack = fp.stack
      /\ given.top = fp.top /\ given.size = fp.size
  BY <1>2 DEF FullpathTypes, ValueTypes
<1> HIDE DEF given
<1> QED BY <1>1, <1>3, <1>4

LEMMA FieldLeader ==
    ASSUME DocInv, Follows(open, fullpath), NEW name \in Fields, Field(name)
    PROVE  Follows(open', fullpath')
<1> DEFINE op == FieldOp(name)
           n == Len(open)
<1>1. fullpath' = Fullpath!Handle(fullpath, op) \/ (name \notin KeyFields /\ fullpath' = fullpath)
  BY FieldEffect DEF Tell, TellTentative
<1>2. /\ op.op = "field" /\ op.name = name /\ op.value = count + 1
      /\ "key" \in op.flags <=> name \in KeyFields
  BY DEF FieldOp, Op, FieldFlags
<1>3. Elems(open) /\ fullpath \in FullpathTypes /\ count + 1 \in Nat /\ name \in Labels
  BY DEF DocInv, Follows, Labels
<1> HIDE DEF op
<1>4. CASE name \in KeyFields
  <2>1. Keyed(open, open', Append(open[n].keys, <<name, count + 1>>))
    BY <1>4, FieldEffect DEF Top
  <2>2. open[n].kind = "instance"
    BY <1>4 DEF Field, Holds, Top
  <2>3. IsLevel(open[n]) /\ n > 1
    BY <1>3, <2>2, TopFacts DEF IsLevel, Elems, Nested
  <2>4. fullpath' = Fullpath!Key(fullpath, name, count + 1)
    BY <1>1, <1>2, <1>4 DEF Fullpath!Handle
  <2> QED BY <1>3, <1>4, <2>1, <2>3, <2>4, KeyLeads
<1>5. CASE name \notin KeyFields
  <2>1. fullpath' \in {Fullpath!Value(fullpath, name, count + 1), fullpath}
    BY <1>1, <1>2, <1>5 DEF Fullpath!Handle
  <2>2. Follows(open, fullpath')
    BY <1>3, <2>1, WritesOnly, FollowsLeader
  <2>3. Keyed(open, open', Top.keys)
    BY <1>5, FieldEffect
  <2>4. Elems(open') /\ Len(open') = n /\ Lower(open, open', n)
    <3>1. \A i \in 1..n : i \in 1..(n - 1) \/ i = n
      BY <1>3, TopFacts
    <3> QED BY <2>3, <3>1 DEF Keyed, Lower, Top
  <2> QED BY <1>3, <2>2, <2>4, FollowsSame
<1> QED BY <1>4, <1>5

LEMMA ItemLeader ==
    ASSUME DocInv, Follows(open, fullpath), Item
    PROVE  Follows(open', fullpath')
<1> DEFINE n == Len(open)
<1>1. (fullpath' = Fullpath!Handle(fullpath, ItemOp) \/ fullpath' = fullpath) /\ ItemOp.op = "item"
  BY ItemEffect DEF Tell, TellTentative, ItemOp, Op
<1>2. fullpath' = fullpath
  BY <1>1 DEF Fullpath!Handle
<1>3. Keyed(open, open', Top.keys) /\ Elems(open)
  BY ItemEffect DEF DocInv
<1>4. Elems(open') /\ Len(open') = n /\ Lower(open, open', n)
  <2>1. \A i \in 1..n : i \in 1..(n - 1) \/ i = n
    BY <1>3, TopFacts
  <2> QED BY <1>3, <2>1 DEF Keyed, Lower, Top
<1> QED BY <1>2, <1>3, <1>4, FollowsSame

LEMMA CloseLeader ==
    ASSUME DocInv, Follows(open, fullpath), Close
    PROVE  Follows(open', fullpath')
<1> DEFINE n == Len(open)
           op == CloseOp
<1>1. fullpath' = Fullpath!Handle(fullpath, op)
  BY CloseKeeps
<1>2. Elems(open) /\ n > 1
  BY DEF DocInv, Close
<1>3. Top = open[n] /\ Top.kind \in OpenKinds
  <2>1. n \in 2..n
    BY <1>2, TopFacts
  <2> QED BY <1>2, <2>1 DEF Elems, Nested, Top
<1>4. /\ Top.kind = "container" => op.op = "close_container"
      /\ Top.kind = "instance" => op.op = "close_instance"
      /\ Top.kind = "list" => op.op = "close_list"
      /\ Top.kind = "leaf_list" => op.op = "close_leaf_list"
  BY DEF CloseOp, Op, Closing
<1> HIDE DEF op
<1>5. fullpath' = IF IsLevel(open[n]) THEN Fullpath!CloseElement(fullpath) ELSE fullpath
  <2>1. CASE Top.kind \in {"container", "instance"}
    BY <1>1, <1>3, <1>4, <2>1 DEF Fullpath!Handle, IsLevel
  <2>2. CASE Top.kind \in {"list", "leaf_list"}
    BY <1>1, <1>3, <1>4, <2>2 DEF Fullpath!Handle, IsLevel
  <2> QED BY <1>3, <2>1, <2>2 DEF OpenKinds
<1>6. /\ Elems(Front(open)) /\ Len(Front(open)) = n - 1
      /\ \A i \in 1..(n - 1) : Front(open)[i] = open[i]
  BY <1>2, FrontFacts
<1>7. Follows(Front(open), fullpath')
  BY <1>2, <1>5, <1>6, CloseLeads
<1>8. Same(Front(open), open')
  BY CloseEffect DEF ClosedOne
<1> QED BY <1>6, <1>7, <1>8, FollowsSame DEF Same

LEMMA CreatedLeads ==
    ASSUME Init
    PROVE  Follows(open, fullpath)
<1> DEFINE path == [i \in 1..1 |-> <<Fullpath!Slash>>]
           level == [i \in 1..1 |-> 0]
<1>1. DocInv /\ Len(open) = 1
  BY DocInit DEF Init
<1>2. fullpath = [leader |-> <<Fullpath!Slash>>, stack |-> <<>>, top |-> 0, size |-> StackSize,
                  flushes |-> setup.csv.flushes, data |-> <<>>, written |-> <<>>]
  BY DEF Init, Fullpath!Created
<1>3. Fullpath!Slash \in Pieces
  BY DEF Pieces
<1>4. <<Fullpath!Slash>> \in Seq(Pieces)
  BY <1>3
<1>5. setup.csv.flushes \in BOOLEAN
  BY <1>1, SetupFacts DEF DocInv
<1>6. fullpath \in FullpathTypes /\ fullpath.size = StackSize /\ fullpath.top <= Len(fullpath.stack)
  BY <1>2, <1>4, <1>5, SizesAssumption, EmptySeq DEF FullpathTypes
<1>7. Paths(open, path)
  BY <1>1, <1>4 DEF Paths
<1>8. Levels(open, level)
  BY <1>1 DEF Levels
<1>9. Placed(open, path, level, fullpath.stack)
  BY <1>1 DEF Placed
<1>10. Leads(open, fullpath, path, level)
  BY <1>1, <1>2, <1>7, <1>8, <1>9 DEF Leads
<1> QED BY <1>6, <1>10 DEF Follows

LEMMA LeaderStep ==
    ASSUME MaxOpen \in Nat, MaxOpen <= StackSize,
           DocInv, Follows(open, fullpath), [Next]_vars
    PROVE  Follows(open', fullpath')
<1>1. CASE UNCHANGED vars
  <2>1. open' = open /\ fullpath' = fullpath
    BY <1>1 DEF vars
  <2> QED BY <2>1
<1>2. CASE Next
  <2>1. ASSUME NEW kind \in OpenKinds, NEW name \in Labels, NEW v \in Verdicts,
               NEW flags \in SUBSET {"dense"}, Fits(kind, name), OpenOne(kind, name, v, flags)
        PROVE  Follows(open', fullpath')
    BY <2>1, OpenLeader
  <2>2. ASSUME NEW name \in Fields, Field(name)
        PROVE  Follows(open', fullpath')
    BY <2>2, FieldLeader
  <2>3. ASSUME Item
        PROVE  Follows(open', fullpath')
    BY <2>3, ItemLeader
  <2>4. ASSUME Close
        PROVE  Follows(open', fullpath')
    BY <2>4, CloseLeader
  <2>5. ASSUME Skip
        PROVE  Follows(open', fullpath')
    <3>1. fullpath' = fullpath
      BY <2>5 DEF Skip
    <3>2. Elems(open') /\ Len(open') = Len(open) /\ Lower(open, open', Len(open))
      BY <2>5, SkipEffect DEF Same
    <3> QED BY <3>1, <3>2, FollowsSame DEF DocInv
  <2> DEFINE flush == Op("flush", NoName, NoName, {})
             finish == Op("finish", NoName, NoName, {})
  <2>6. /\ Fullpath!Handle(fullpath, flush) = Fullpath!Flush(fullpath)
        /\ Fullpath!Handle(fullpath, finish) = fullpath
    BY DEF Fullpath!Handle, Op
  <2>7. Follows(open, Fullpath!Flush(fullpath))
    <3>1. fullpath \in FullpathTypes /\ NoName \in Labels /\ 0 \in Nat
      BY DEF Follows, Labels
    <3> QED BY <3>1, WritesOnly, FollowsLeader
  <2>8. ASSUME Flush
        PROVE  Follows(open', fullpath')
    <3>1. open' = open /\ fullpath' = Fullpath!Flush(fullpath)
      BY <2>6, <2>8 DEF Flush, Tell
    <3> QED BY <2>7, <3>1
  <2>9. ASSUME Finish
        PROVE  Follows(open', fullpath')
    <3>1. open' = open /\ fullpath' = Fullpath!Flush(fullpath)
      BY <2>6, <2>9 DEF Finish
    <3> QED BY <2>7, <3>1
  <2> QED BY <1>2, <2>1, <2>2, <2>3, <2>4, <2>5, <2>8, <2>9, Steps
<1> QED BY <1>1, <1>2

(* The leader of fullpath is the path of what is open, with the keys of each *)
(* element, in every document that is at no time deeper than the stack that  *)
(* the encoder allocates at first (enc_fullpath.c:216): a stack that grows   *)
(* is emptied, and then the leader is not the path.                          *)
THEOREM LeaderCorrect ==
    ASSUME MaxOpen \in Nat, MaxOpen <= StackSize
    PROVE  Spec => []LeaderIsPath
<1>1. Init => DocInv /\ Follows(open, fullpath)
  BY DocInit, CreatedLeads
<1>2. DocInv /\ Follows(open, fullpath) /\ [Next]_vars => (DocInv /\ Follows(open, fullpath))'
  BY DocStep, LeaderStep
<1>3. DocInv /\ Follows(open, fullpath) => LeaderIsPath
  BY LeaderIs DEF DocInv
<1> QED BY <1>1, <1>2, <1>3, PTL DEF Spec

-----------------------------------------------------------------------------
(* cbor: the lengths of strings *)

\* The lengths that the head of a string is right for: all that fit, but for
\* the three at the limits of its forms (enc_cbor.c:168).
GoodLengths == {n \in Nat : n <= 4294967295 /\ n \notin {24, 256, 65536}}

LEMMA LengthReads ==
    ASSUME NEW n \in GoodLengths
    PROVE  LengthRead(Cbor!EncodeUint(n)) = n
<1>1. n \in Nat /\ n <= 4294967295 /\ n # 24 /\ n # 256 /\ n # 65536
  BY SMT DEF GoodLengths
<1>2. CASE n > 65536
  <2> DEFINE a == n \div 16777216
             b == (n \div 65536) % 256
             c == (n \div 256) % 256
             d == n % 256
  <2>1. Cbor!EncodeUint(n) = <<26, a, b, c, d>>
    BY <1>1, <1>2, SMT DEF Cbor!EncodeUint
  <2>2. 16777216 * a + 65536 * b + 256 * c + d = n
    BY <1>1, SMT
  <2> HIDE DEF a, b, c, d
  <2> QED BY <2>1, <2>2, SMT DEF LengthRead
<1>3. CASE n > 256 /\ n < 65536
  <2> DEFINE c == (n \div 256) % 256
             d == n % 256
  <2>1. Cbor!EncodeUint(n) = <<25, c, d>>
    BY <1>1, <1>3, SMT DEF Cbor!EncodeUint
  <2>2. 256 * c + d = n
    BY <1>1, <1>3, SMT
  <2> HIDE DEF c, d
  <2> QED BY <2>1, <2>2, SMT DEF LengthRead
<1>4. CASE n > 24 /\ n < 256
  <2>1. Cbor!EncodeUint(n) = <<24, n % 256>> /\ n % 256 = n
    BY <1>1, <1>4, SMT DEF Cbor!EncodeUint, Cbor!ULimit
  <2> QED BY <2>1, SMT DEF LengthRead
<1>5. CASE n < 24
  <2>1. Cbor!EncodeUint(n) = <<n % 32>> /\ n % 32 = n
    BY <1>1, <1>5, SMT DEF Cbor!EncodeUint, Cbor!ULimit
  <2> QED BY <1>5, <2>1, SMT DEF LengthRead
<1> QED BY <1>1, <1>2, <1>3, <1>4, <1>5, SMT

-----------------------------------------------------------------------------
(* What the reader makes of each item *)

Texts == Labels \cup Nat
Marks == {"key", "value", "element"}
Notes == Marks \X Texts
Note(expects, s) == <<expects, s>>
Items == {Cbor!Map, Cbor!Array, Cbor!Break} \cup {Cbor!String(s) : s \in Texts}

LengthsAreGood == \A s \in Texts : Length(s) \in GoodLengths

State(nest, strings) == [nest |-> nest, strings |-> strings]

\* After a key
Valued(nest) == [nest EXCEPT ![Len(nest)] = "value"]

Nests == Seq({"key", "element"})

LEMMA NestFacts ==
    ASSUME NEW nest \in Nests, nest # <<>>
    PROVE  /\ Len(nest) \in Nat /\ Len(nest) >= 1 /\ Last(nest) = nest[Len(nest)]
           /\ Last(nest) \in {"key", "element"}
           /\ Valued(nest) # <<>> /\ Last(Valued(nest)) = "value" /\ Len(Valued(nest)) = Len(nest)
           /\ Last(nest) = "key" =>
                 /\ AfterValue(nest) = Valued(nest)
                 /\ AfterValue(Valued(nest)) = nest
           /\ Last(nest) = "element" => AfterValue(nest) = nest
<1> DEFINE n == Len(nest)
           v == [nest EXCEPT ![n] = "value"]
<1>1. n \in Nat /\ n >= 1 /\ n \in 1..n /\ nest[n] \in {"key", "element"} /\ nest \in [1..n -> {"key", "element"}]
  BY EmptySeq DEF Nests
<1>2. v \in Seq(Marks) /\ Len(v) = n /\ v[n] = "value" /\ \A i \in 1..n : i # n => v[i] = nest[i]
  <2>1. "value" \in Marks /\ nest \in Seq(Marks)
    <3>1. {"key", "element"} \subseteq Marks
      BY DEF Marks
    <3> QED BY <3>1, SeqMonotonic DEF Nests, Marks
  <2>2. 1 <= n /\ n \in 1..Len(nest)
    BY <1>1
  <2> HIDE DEF v
  <2>3. v = [nest EXCEPT ![n] = "value"]
    BY DEF v
  <2> QED BY <2>1, <2>2, <2>3, ExceptSeq
<1>3. nest[n] = "key" => [v EXCEPT ![n] = "key"] = nest
  BY <1>1, <1>2
<1>4. v # <<>>
  <2> HIDE DEF v
  <2>1. SUFFICES ASSUME v = <<>> PROVE FALSE
    OBVIOUS
  <2>2. Len(v) = 0
    BY <2>1
  <2> QED BY <1>1, <1>2, <2>2
<1>5. Valued(nest) = v /\ Last(nest) = nest[n] /\ Last(v) = v[n]
  BY <1>2 DEF Valued, Last
<1> HIDE DEF v
<1>6. nest[n] = "key" => AfterValue(nest) = v /\ AfterValue(v) = nest
  <2> HAVE nest[n] = "key"
  <2>1. AfterValue(nest) = [nest EXCEPT ![n] = "value"]
    BY <1>1, <1>5 DEF AfterValue
  <2>2. AfterValue(v) = [v EXCEPT ![n] = "key"]
    BY <1>1, <1>2, <1>4, <1>5 DEF AfterValue
  <2> QED BY <1>3, <2>1, <2>2 DEF v
<1>7. nest[n] = "element" => AfterValue(nest) = nest
  BY <1>1, <1>5 DEF AfterValue
<1> QED BY <1>1, <1>2, <1>4, <1>5, <1>6, <1>7

LEMMA ReadString ==
    ASSUME LengthsAreGood, NEW s \in Texts, NEW nest, NEW strings, nest # <<>>
    PROVE  Read(State(nest, strings), Cbor!String(s))
              = State(AfterValue(nest), Append(strings, Note(Last(nest), s)))
<1> DEFINE item == Cbor!String(s)
           reader == State(nest, strings)
<1>1. item.item = "string" /\ item.head = Cbor!EncodeUint(Length(s)) /\ item.of = s
  BY DEF Cbor!String
<1>2. LengthRead(item.head) = Length(item.of)
  BY <1>1, LengthReads DEF LengthsAreGood
<1>3. reader.nest = nest /\ reader.strings = strings
  BY DEF State
<1> HIDE DEF item, reader
<1>4. Read(reader, item) = [nest |-> AfterValue(nest), strings |-> Append(strings, <<Last(nest), s>>)]
  BY <1>1, <1>2, <1>3 DEF Read
<1> QED BY <1>4 DEF State, Note, item, reader

LEMMA ReadOpen ==
    ASSUME NEW nest, NEW strings, nest # <<>>, Last(nest) # "key"
    PROVE  /\ Read(State(nest, strings), Cbor!Map) = State(Append(AfterValue(nest), "key"), strings)
           /\ Read(State(nest, strings), Cbor!Array) = State(Append(AfterValue(nest), "element"), strings)
<1> DEFINE reader == State(nest, strings)
<1>1. reader.nest = nest
  BY DEF State
<1>2. Read(reader, Cbor!Map) = [reader EXCEPT !.nest = Append(AfterValue(nest), "key")]
  <2> HIDE DEF reader
  <2> QED BY <1>1 DEF Read, Cbor!Map
<1>3. Read(reader, Cbor!Array) = [reader EXCEPT !.nest = Append(AfterValue(nest), "element")]
  <2> HIDE DEF reader
  <2> QED BY <1>1 DEF Read, Cbor!Array
<1>4. \A x : [reader EXCEPT !.nest = x] = State(x, strings)
  BY DEF State
<1> QED BY <1>2, <1>3, <1>4

LEMMA ReadBreak ==
    ASSUME NEW nest, NEW strings, nest # <<>>, Last(nest) \in {"key", "element"}
    PROVE  Read(State(nest, strings), Cbor!Break) = State(Front(nest), strings)
<1> DEFINE reader == State(nest, strings)
<1>1. reader.nest = nest
  BY DEF State
<1>2. Read(reader, Cbor!Break) = [reader EXCEPT !.nest = Front(nest)]
  <2> HIDE DEF reader
  <2> QED BY <1>1 DEF Read, Cbor!Break
<1>3. \A x : [reader EXCEPT !.nest = x] = State(x, strings)
  BY DEF State
<1> QED BY <1>2, <1>3

\* The document is a map.
LEMMA ReadDocument ==
    Read(State(<<>>, <<>>), Cbor!Map) = State(<<"key">>, <<>>)
<1> DEFINE reader == State(<<>>, <<>>)
<1>1. reader.nest = <<>>
  BY DEF State
<1>2. Read(reader, Cbor!Map) = [reader EXCEPT !.nest = <<"key">>]
  <2> HIDE DEF reader
  <2> QED BY <1>1 DEF Read, Cbor!Map
<1>3. [reader EXCEPT !.nest = <<"key">>] = State(<<"key">>, <<>>)
  BY DEF State
<1> QED BY <1>2, <1>3

-----------------------------------------------------------------------------
(* Reading one item more *)

LEMMA LeastOf ==
    ASSUME NEW D \in SUBSET Nat, NEW i \in D
    PROVE  \E j \in D : \A k \in D : j <= k
<1>1. IsWellFoundedOn(OpToRel(<, Nat), Nat)
  BY NatLessThanWellFounded
<1>2. PICK j \in D : ~(\E k \in D : <<k, j>> \in OpToRel(<, Nat))
  BY <1>1, WFMin
<1>3. \A k \in D : ~(k < j)
  BY <1>2 DEF OpToRel
<1> QED BY <1>3

\* after says what a reader of the first items knows.
Runs(d, after) ==
    /\ after = [i \in 0..Len(d) |-> after[i]]
    /\ after[0] = State(<<>>, <<>>)
    /\ \A i \in 1..Len(d) : after[i] = Read(after[i - 1], d[i])

ReadsTo(d, x) == \E after : Runs(d, after) /\ after[Len(d)] = x

LEMMA ReadsAll ==
    ASSUME NEW d, Len(d) \in Nat, NEW x, ReadsTo(d, x)
    PROVE  ReadAll(d) = x
<1> DEFINE n == Len(d)
           Is(q) == q = [i \in 0..n |-> IF i = 0 THEN [nest |-> <<>>, strings |-> <<>>]
                                        ELSE Read(q[i - 1], d[i])]
           all == CHOOSE q : Is(q)
<1>1. PICK after : Runs(d, after) /\ after[n] = x
  BY DEF ReadsTo
<1>2. ReadAll(d) = all[n]
  BY DEF ReadAll
<1>3. \A i \in 0..n : i # 0 => i \in 1..n /\ i - 1 \in 0..n
  OBVIOUS
<1>4. Is(after)
  <2>1. \A i \in 0..n : after[i] = IF i = 0 THEN [nest |-> <<>>, strings |-> <<>>] ELSE Read(after[i - 1], d[i])
    BY <1>1, <1>3 DEF Runs, State
  <2>2. after = [i \in 0..n |-> after[i]]
    BY <1>1 DEF Runs
  <2> QED BY <2>1, <2>2
<1>5. Is(all)
  BY <1>4
<1> HIDE DEF all
<1>6. \A i \in 0..n : all[i] = IF i = 0 THEN [nest |-> <<>>, strings |-> <<>>] ELSE Read(all[i - 1], d[i])
  BY <1>5
<1> HIDE DEF Is
<1>7. \A i \in 0..n : all[i] = after[i]
  <2>1. SUFFICES ASSUME NEW i \in 0..n, all[i] # after[i]
                 PROVE  FALSE
    OBVIOUS
  <2> DEFINE D == {j \in 0..n : all[j] # after[j]}
  <2>2. PICK j \in D : \A k \in D : j <= k
    <3>1. i \in D /\ D \in SUBSET Nat
      BY <2>1
    <3> HIDE DEF D
    <3> QED BY <3>1, LeastOf
  <2>3. CASE j = 0
    BY <1>1, <1>6, <2>2, <2>3 DEF Runs, State
  <2>4. CASE j # 0
    <3>1. j \in 1..n /\ j - 1 \in 0..n /\ ~(j <= j - 1)
      BY <1>3, <2>2, <2>4
    <3>2. all[j - 1] = after[j - 1]
      BY <2>2, <3>1
    <3>3. all[j] = Read(all[j - 1], d[j]) /\ after[j] = Read(after[j - 1], d[j])
      BY <1>1, <1>6, <2>2, <2>4, <3>1 DEF Runs
    <3> QED BY <2>2, <3>2, <3>3
  <2> QED BY <2>3, <2>4
<1>8. n \in 0..n
  OBVIOUS
<1> QED BY <1>1, <1>2, <1>7, <1>8

LEMMA ReadsMore ==
    ASSUME NEW d \in Seq(Items), NEW x, ReadsTo(d, x), NEW item \in Items
    PROVE  ReadsTo(Append(d, item), Read(x, item))
<1> DEFINE n == Len(d)
           e == Append(d, item)
           y == Read(x, item)
<1>1. PICK after : Runs(d, after) /\ after[n] = x
  BY DEF ReadsTo
<1>2. n \in Nat /\ Len(e) = n + 1 /\ e[n + 1] = item /\ \A i \in 1..n : e[i] = d[i]
  BY AppendProperties
<1> DEFINE more == [i \in 0..(n + 1) |-> IF i <= n THEN after[i] ELSE y]
<1>3. /\ more = [i \in 0..(n + 1) |-> more[i]]
      /\ \A i \in 0..n : more[i] = after[i]
      /\ more[n + 1] = y
  BY <1>2
<1> HIDE DEF more, e, y
<1>4. \A i \in 1..(n + 1) : more[i] = Read(more[i - 1], e[i])
  <2> TAKE i \in 1..(n + 1)
  <2>1. CASE i \in 1..n
    <3>1. i \in 0..n /\ i - 1 \in 0..n
      BY <1>2, <2>1
    <3> QED BY <1>1, <1>2, <1>3, <2>1, <3>1 DEF Runs
  <2>2. CASE i = n + 1
    <3>1. i - 1 = n /\ n \in 0..n
      BY <1>2, <2>2
    <3>2. more[i - 1] = x /\ e[i] = item /\ more[i] = y
      BY <1>1, <1>2, <1>3, <2>2, <3>1
    <3> QED BY <3>2 DEF y
  <2> QED BY <1>2, <2>1, <2>2
<1>5. 0 \in 0..n
  BY <1>2
<1>6. more[0] = State(<<>>, <<>>)
  BY <1>1, <1>3, <1>5 DEF Runs
<1>7. Runs(e, more)
  BY <1>2, <1>3, <1>4, <1>6 DEF Runs
<1>8. ReadsTo(e, y)
  BY <1>2, <1>3, <1>7 DEF ReadsTo
<1> QED BY <1>8 DEF e, y

\* The strings of the operations that were kept, likewise
With(strings, op) == strings \o StringsOf(op)

Gathers(k, strings) ==
    /\ strings = [i \in 0..Len(k) |-> strings[i]]
    /\ strings[0] = <<>>
    /\ \A i \in 1..Len(k) : strings[i] = With(strings[i - 1], k[i].what)

GathersTo(k, x) == \E strings : Gathers(k, strings) /\ strings[Len(k)] = x

LEMMA GathersAll ==
    ASSUME NEW k, Len(k) \in Nat, NEW x, GathersTo(k, x)
    PROVE  StringsOfAll(k) = x
<1> DEFINE n == Len(k)
           Is(q) == q = [i \in 0..n |-> IF i = 0 THEN <<>> ELSE With(q[i - 1], k[i].what)]
           all == CHOOSE q : Is(q)
<1>1. PICK strings : Gathers(k, strings) /\ strings[n] = x
  BY DEF GathersTo
<1>2. StringsOfAll(k) = all[n]
  BY DEF StringsOfAll, With
<1>3. \A i \in 0..n : i # 0 => i \in 1..n /\ i - 1 \in 0..n
  OBVIOUS
<1>4. Is(strings)
  <2>1. \A i \in 0..n : strings[i] = IF i = 0 THEN <<>> ELSE With(strings[i - 1], k[i].what)
    BY <1>1, <1>3 DEF Gathers
  <2>2. strings = [i \in 0..n |-> strings[i]]
    BY <1>1 DEF Gathers
  <2> QED BY <2>1, <2>2
<1>5. Is(all)
  BY <1>4
<1> HIDE DEF all
<1>6. \A i \in 0..n : all[i] = IF i = 0 THEN <<>> ELSE With(all[i - 1], k[i].what)
  BY <1>5
<1> HIDE DEF Is
<1>7. \A i \in 0..n : all[i] = strings[i]
  <2>1. SUFFICES ASSUME NEW i \in 0..n, all[i] # strings[i]
                 PROVE  FALSE
    OBVIOUS
  <2> DEFINE D == {j \in 0..n : all[j] # strings[j]}
  <2>2. PICK j \in D : \A m \in D : j <= m
    <3>1. i \in D /\ D \in SUBSET Nat
      BY <2>1
    <3> HIDE DEF D
    <3> QED BY <3>1, LeastOf
  <2>3. CASE j = 0
    BY <1>1, <1>6, <2>2, <2>3 DEF Gathers
  <2>4. CASE j # 0
    <3>1. j \in 1..n /\ j - 1 \in 0..n /\ ~(j <= j - 1)
      BY <1>3, <2>2, <2>4
    <3>2. all[j - 1] = strings[j - 1]
      BY <2>2, <3>1
    <3>3. all[j] = With(all[j - 1], k[j].what) /\ strings[j] = With(strings[j - 1], k[j].what)
      BY <1>1, <1>6, <2>2, <2>4, <3>1 DEF Gathers
    <3> QED BY <2>2, <3>2, <3>3
  <2> QED BY <2>3, <2>4
<1>8. n \in 0..n
  OBVIOUS
<1> QED BY <1>1, <1>2, <1>7, <1>8

\* k and one operation more
More(k, l, op) ==
    /\ Len(k) \in Nat /\ Len(l) = Len(k) + 1
    /\ \A i \in 1..Len(k) : l[i] = k[i]
    /\ l[Len(k) + 1].what = op

LEMMA GathersMore ==
    ASSUME NEW k, NEW l, NEW op, More(k, l, op), NEW x, GathersTo(k, x)
    PROVE  GathersTo(l, With(x, op))
<1> DEFINE n == Len(k)
           y == With(x, op)
<1>1. PICK strings : Gathers(k, strings) /\ strings[n] = x
  BY DEF GathersTo
<1>2. n \in Nat /\ Len(l) = n + 1 /\ l[n + 1].what = op /\ \A i \in 1..n : l[i] = k[i]
  BY DEF More
<1> DEFINE more == [i \in 0..(n + 1) |-> IF i <= n THEN strings[i] ELSE y]
<1>3. /\ more = [i \in 0..(n + 1) |-> more[i]]
      /\ \A i \in 0..n : more[i] = strings[i]
      /\ more[n + 1] = y
  BY <1>2
<1> HIDE DEF more, y
<1>4. \A i \in 1..(n + 1) : more[i] = With(more[i - 1], l[i].what)
  <2> TAKE i \in 1..(n + 1)
  <2>1. CASE i \in 1..n
    <3>1. i \in 0..n /\ i - 1 \in 0..n
      BY <1>2, <2>1
    <3> QED BY <1>1, <1>2, <1>3, <2>1, <3>1 DEF Gathers
  <2>2. CASE i = n + 1
    <3>1. i - 1 = n /\ n \in 0..n
      BY <1>2, <2>2
    <3>2. more[i - 1] = x /\ l[i].what = op /\ more[i] = y
      BY <1>1, <1>2, <1>3, <2>2, <3>1
    <3> QED BY <3>2 DEF y
  <2> QED BY <1>2, <2>1, <2>2
<1>5. 0 \in 0..n
  BY <1>2
<1>6. more[0] = <<>>
  BY <1>1, <1>3, <1>5 DEF Gathers
<1>7. Gathers(l, more)
  BY <1>2, <1>3, <1>4, <1>6 DEF Gathers
<1>8. GathersTo(l, y)
  BY <1>2, <1>3, <1>7 DEF GathersTo
<1> QED BY <1>8 DEF y

-----------------------------------------------------------------------------
(* Reading what an operation appends *)

LEMMA ReadMember ==
    ASSUME LengthsAreGood, NEW d \in Seq(Items), NEW nest \in Nests, nest # <<>>, Last(nest) = "key",
           NEW strings, NEW name \in Texts, NEW v \in Texts, ReadsTo(d, State(nest, strings))
    PROVE  /\ ReadsTo(Append(Append(d, Cbor!String(name)), Cbor!Map),
                      State(Append(nest, "key"), Append(strings, Note("key", name))))
           /\ ReadsTo(Append(Append(d, Cbor!String(name)), Cbor!Array),
                      State(Append(nest, "element"), Append(strings, Note("key", name))))
           /\ ReadsTo(Append(Append(d, Cbor!String(name)), Cbor!String(v)),
                      State(nest, Append(Append(strings, Note("key", name)), Note("value", v))))
<1> DEFINE e == Append(d, Cbor!String(name))
           w == Valued(nest)
           t == Append(strings, Note("key", name))
<1>1. Cbor!String(name) \in Items /\ Cbor!String(v) \in Items /\ Cbor!Map \in Items /\ Cbor!Array \in Items
  BY DEF Items
<1>2. e \in Seq(Items)
  BY <1>1, AppendProperties
<1>3. w # <<>> /\ Last(w) = "value" /\ AfterValue(nest) = w /\ AfterValue(w) = nest
  BY NestFacts
<1> HIDE DEF w, e, t
<1>4. ReadsTo(e, State(w, t))
  <2>1. ReadsTo(e, Read(State(nest, strings), Cbor!String(name)))
    BY <1>1, ReadsMore DEF e
  <2>2. Read(State(nest, strings), Cbor!String(name)) = State(w, t)
    BY <1>3, ReadString DEF t
  <2> QED BY <2>1, <2>2
<1>5. /\ Read(State(w, t), Cbor!Map) = State(Append(nest, "key"), t)
      /\ Read(State(w, t), Cbor!Array) = State(Append(nest, "element"), t)
  BY <1>3, ReadOpen
<1>6. Read(State(w, t), Cbor!String(v)) = State(nest, Append(t, Note("value", v)))
  BY <1>3, ReadString
<1>7. \A item \in Items : ReadsTo(Append(e, item), Read(State(w, t), item))
  BY <1>2, <1>4, ReadsMore
<1>8. /\ ReadsTo(Append(e, Cbor!Map), State(Append(nest, "key"), t))
      /\ ReadsTo(Append(e, Cbor!Array), State(Append(nest, "element"), t))
      /\ ReadsTo(Append(e, Cbor!String(v)), State(nest, Append(t, Note("value", v))))
  BY <1>1, <1>5, <1>6, <1>7
<1> QED BY <1>8 DEF e, t

LEMMA ReadInList ==
    ASSUME LengthsAreGood, NEW d \in Seq(Items), NEW nest \in Nests, nest # <<>>, Last(nest) = "element",
           NEW strings, NEW v \in Texts, ReadsTo(d, State(nest, strings))
    PROVE  /\ ReadsTo(Append(d, Cbor!Map), State(Append(nest, "key"), strings))
           /\ ReadsTo(Append(d, Cbor!String(v)), State(nest, Append(strings, Note("element", v))))
<1>1. Cbor!String(v) \in Items /\ Cbor!Map \in Items
  BY DEF Items
<1>2. AfterValue(nest) = nest
  BY NestFacts
<1>3. Read(State(nest, strings), Cbor!Map) = State(Append(nest, "key"), strings)
  BY <1>2, ReadOpen
<1>4. Read(State(nest, strings), Cbor!String(v)) = State(nest, Append(strings, Note("element", v)))
  BY <1>2, ReadString
<1>5. \A item \in Items : ReadsTo(Append(d, item), Read(State(nest, strings), item))
  BY ReadsMore
<1> QED BY <1>1, <1>3, <1>4, <1>5

LEMMA ReadEnd ==
    ASSUME NEW d \in Seq(Items), NEW nest \in Nests, nest # <<>>,
           NEW strings, ReadsTo(d, State(nest, strings))
    PROVE  ReadsTo(Append(d, Cbor!Break), State(Front(nest), strings))
<1>1. Cbor!Break \in Items /\ Last(nest) \in {"key", "element"}
  BY NestFacts DEF Items
<1>2. Read(State(nest, strings), Cbor!Break) = State(Front(nest), strings)
  BY <1>1, ReadBreak
<1>3. ReadsTo(Append(d, Cbor!Break), Read(State(nest, strings), Cbor!Break))
  BY <1>1, ReadsMore
<1> QED BY <1>2, <1>3

-----------------------------------------------------------------------------
(* What an operation has in strings *)

LEMMA Joining ==
    ASSUME NEW S, NEW s \in Seq(S), NEW a \in S, NEW b \in S
    PROVE  s \o <<a>> = Append(s, a) /\ s \o <<a, b>> = Append(Append(s, a), b)
<1>1. <<a>> \in Seq(S) /\ <<b>> \in Seq(S) /\ <<a, b>> = <<a>> \o <<b>>
  BY TwoAre
<1>2. s \o <<a>> = Append(s, a) /\ Append(s, a) \in Seq(S)
  BY AppendIsConcat, AppendProperties
<1>3. s \o (<<a>> \o <<b>>) = (s \o <<a>>) \o <<b>>
  BY <1>1, ConcatAssociative
<1>4. Append(s, a) \o <<b>> = Append(Append(s, a), b)
  BY <1>2, AppendIsConcat
<1> QED BY <1>1, <1>2, <1>3, <1>4

LEMMA NoteTypes ==
    ASSUME NEW m \in Marks, NEW s \in Texts
    PROVE  Note(m, s) \in Notes
BY DEF Note, Notes

LEMMA WithField ==
    ASSUME NEW strings \in Seq(Notes), NEW op, op.op = "field", op.name \in Texts, op.value \in Texts
    PROVE  With(strings, op) = Append(Append(strings, Note("key", op.name)), Note("value", op.value))
<1> DEFINE a == Note("key", op.name)
           b == Note("value", op.value)
<1>1. a \in Notes /\ b \in Notes
  BY NoteTypes DEF Marks
<1>2. StringsOf(op) = <<a, b>>
  BY DEF StringsOf, Note
<1> HIDE DEF a, b
<1>3. With(strings, op) = Append(Append(strings, a), b)
  BY <1>1, <1>2, Joining DEF With
<1> QED BY <1>3 DEF a, b

LEMMA WithItem ==
    ASSUME NEW strings \in Seq(Notes), NEW op, op.op = "item", op.value \in Texts
    PROVE  With(strings, op) = Append(strings, Note("element", op.value))
<1> DEFINE a == Note("element", op.value)
<1>1. a \in Notes
  BY NoteTypes DEF Marks
<1>2. StringsOf(op) = <<a>>
  BY DEF StringsOf, Note
<1> HIDE DEF a
<1>3. With(strings, op) = Append(strings, a)
  BY <1>1, <1>2, Joining DEF With
<1> QED BY <1>3 DEF a

LEMMA WithName ==
    ASSUME NEW strings \in Seq(Notes), NEW op, op.name \in Texts,
           op.op \in {"open_container", "open_list", "open_leaf_list"}
    PROVE  With(strings, op) = Append(strings, Note("key", op.name))
<1> DEFINE a == Note("key", op.name)
<1>1. a \in Notes
  BY NoteTypes DEF Marks
<1>2. StringsOf(op) = <<a>>
  BY DEF StringsOf, Note
<1> HIDE DEF a
<1>3. With(strings, op) = Append(strings, a)
  BY <1>1, <1>2, Joining DEF With
<1> QED BY <1>3 DEF a

LEMMA WithNone ==
    ASSUME NEW strings \in Seq(Notes), NEW op,
           op.op \notin {"field", "item", "open_container", "open_list", "open_leaf_list"}
    PROVE  With(strings, op) = strings
<1>1. StringsOf(op) = <<>>
  BY DEF StringsOf
<1> QED BY <1>1, ConcatEmptySeq DEF With

-----------------------------------------------------------------------------
(* The buffer follows what is open *)

CborTypes == [data : Seq(Items), openLeafList : BOOLEAN, written : Seq(Items)]

NestOf(o) == [i \in DOMAIN o |-> Expecting(o[i].kind)]

CborReadsTo(k, c, nest) ==
    \E strings \in Seq(Notes) : ReadsTo(c.data, State(nest, strings)) /\ GathersTo(k, strings)

CborFollows(o, k, c, finished) ==
    /\ c \in CborTypes
    /\ CborReadsTo(k, c, IF finished THEN <<>> ELSE NestOf(o))
    /\ ~finished => (c.openLeafList <=> o[Len(o)].kind = "leaf_list")

LEMMA NestOfFacts ==
    ASSUME NEW o, Elems(o)
    PROVE  /\ NestOf(o) \in Nests /\ NestOf(o) # <<>> /\ Len(NestOf(o)) = Len(o)
           /\ Last(NestOf(o)) = Expecting(o[Len(o)].kind)
           /\ \A i \in 1..Len(o) : NestOf(o)[i] = Expecting(o[i].kind)
<1> DEFINE n == Len(o)
<1>1. n \in Nat /\ n >= 1 /\ n \in 1..n /\ DOMAIN o = 1..n
  BY TopFacts
<1>2. \A i \in 1..n : Expecting(o[i].kind) \in {"key", "element"}
  BY DEF Expecting
<1>3. NestOf(o) = [i \in 1..n |-> Expecting(o[i].kind)]
  BY <1>1 DEF NestOf
<1> HIDE DEF n
<1>4. NestOf(o) \in Nests /\ Len(NestOf(o)) = n
  BY <1>1, <1>2, <1>3 DEF Nests
<1>5. NestOf(o) # <<>>
  <2>1. SUFFICES ASSUME NestOf(o) = <<>> PROVE FALSE
    OBVIOUS
  <2>2. Len(NestOf(o)) = 0
    BY <2>1
  <2> QED BY <1>1, <1>4, <2>2
<1>6. Last(NestOf(o)) = NestOf(o)[n]
  BY <1>4 DEF Last
<1> QED BY <1>1, <1>3, <1>4, <1>5, <1>6 DEF n

LEMMA NestOpened ==
    ASSUME NEW o, Elems(o), NEW p, Elems(p), Len(p) = Len(o) + 1, Lower(o, p, Len(o))
    PROVE  NestOf(p) = Append(NestOf(o), Expecting(p[Len(o) + 1].kind))
<1> DEFINE n == Len(o)
           S == {"key", "element"}
           x == Expecting(p[n + 1].kind)
           q == Append(NestOf(o), x)
<1>1. /\ n \in Nat /\ NestOf(o) \in Seq(S) /\ Len(NestOf(o)) = n
      /\ NestOf(p) \in Seq(S) /\ Len(NestOf(p)) = n + 1
      /\ \A i \in 1..n : NestOf(o)[i] = Expecting(o[i].kind)
      /\ \A i \in 1..(n + 1) : NestOf(p)[i] = Expecting(p[i].kind)
  BY NestOfFacts, TopFacts DEF Nests
<1>2. x \in S
  BY DEF Expecting
<1> HIDE DEF x
<1>3. q \in Seq(S) /\ Len(q) = n + 1 /\ q[n + 1] = x /\ \A i \in 1..n : q[i] = NestOf(o)[i]
  BY <1>1, <1>2, AppendProperties
<1>4. \A i \in 1..n : p[i].kind = o[i].kind /\ i \in 1..(n + 1)
  BY <1>1 DEF Lower, Like
<1>5. n + 1 \in 1..(n + 1) /\ \A i \in 1..(n + 1) : i \in 1..n \/ i = n + 1
  BY <1>1
<1> HIDE DEF q, n
<1>6. \A i \in 1..(n + 1) : NestOf(p)[i] = q[i]
  <2> TAKE i \in 1..(n + 1)
  <2>1. CASE i \in 1..n
    BY <1>1, <1>3, <1>4, <2>1
  <2>2. CASE i = n + 1
    <3>1. NestOf(p)[i] = Expecting(p[n + 1].kind)
      BY <1>1, <1>5, <2>2
    <3> QED BY <1>3, <2>2, <3>1 DEF x
  <2> QED BY <1>5, <2>1, <2>2
<1>7. NestOf(p) = q
  BY <1>1, <1>3, <1>6, SeqEqual
<1> QED BY <1>7 DEF q, x, n

LEMMA NestSame ==
    ASSUME NEW o, Elems(o), NEW p, Elems(p), Len(p) = Len(o), \A i \in 1..Len(o) : p[i].kind = o[i].kind
    PROVE  NestOf(p) = NestOf(o)
<1>1. /\ NestOf(o) \in Seq({"key", "element"}) /\ Len(NestOf(o)) = Len(o)
      /\ NestOf(p) \in Seq({"key", "element"}) /\ Len(NestOf(p)) = Len(o)
      /\ \A i \in 1..Len(o) : NestOf(p)[i] = NestOf(o)[i]
  BY NestOfFacts DEF Nests
<1> QED BY <1>1, SeqEqual

LEMMA NestClosed ==
    ASSUME NEW o, Elems(o), NEW p, Elems(p), Len(o) > 1, Len(p) = Len(o) - 1,
           \A i \in 1..(Len(o) - 1) : p[i] = o[i]
    PROVE  NestOf(p) = Front(NestOf(o))
<1> DEFINE m == Len(o) - 1
           S == {"key", "element"}
           q == Front(NestOf(o))
<1>1. m \in Nat
  BY TopFacts
<1>2. /\ NestOf(o) \in Seq(S) /\ Len(NestOf(o)) = m + 1
      /\ NestOf(p) \in Seq(S) /\ Len(NestOf(p)) = m
      /\ \A i \in 1..(m + 1) : NestOf(o)[i] = Expecting(o[i].kind)
      /\ \A i \in 1..m : NestOf(p)[i] = Expecting(p[i].kind)
  BY <1>1, NestOfFacts DEF Nests
<1>3. q \in Seq(S) /\ Len(q) = m /\ \A i \in 1..m : q[i] = NestOf(o)[i]
  <2>1. q = SubSeq(NestOf(o), 1, m)
    BY <1>1, <1>2 DEF Front
  <2>2. \A i \in 1..m : NestOf(o)[i] \in S
    BY <1>1, <1>2
  <2> HIDE DEF q
  <2> QED BY <1>1, <1>2, <2>1, <2>2, SubSeqProperties
<1> HIDE DEF q
<1>4. \A i \in 1..m : i \in 1..(m + 1)
  BY <1>1
<1>5. \A i \in 1..m : NestOf(p)[i] = q[i]
  BY <1>2, <1>3, <1>4
<1>6. NestOf(p) = q
  BY <1>1, <1>2, <1>3, <1>5, SeqEqual
<1> QED BY <1>6 DEF q

\* g is c with this buffer.
BufferIs(c, g, data, leaf) ==
    g \in CborTypes /\ g.data = data /\ g.openLeafList = leaf

LEMMA BufferGrows ==
    ASSUME NEW c \in CborTypes, NEW x \in Items, NEW y \in Items, NEW b \in BOOLEAN
    PROVE  /\ BufferIs(c, Cbor!Appended(c, <<x>>), Append(c.data, x), c.openLeafList)
           /\ BufferIs(c, Cbor!Appended(c, <<x, y>>), Append(Append(c.data, x), y), c.openLeafList)
           /\ BufferIs(c, [Cbor!Appended(c, <<x, y>>) EXCEPT !.openLeafList = b],
                       Append(Append(c.data, x), y), b)
           /\ BufferIs(c, [Cbor!Appended(c, <<x>>) EXCEPT !.openLeafList = b], Append(c.data, x), b)
<1> DEFINE d1 == Append(c.data, x)
           d2 == Append(Append(c.data, x), y)
<1>1. c.data \in Seq(Items)
  BY DEF CborTypes
<1>2. d1 \in Seq(Items) /\ d2 \in Seq(Items)
  BY <1>1, AppendProperties
<1>3. c.data \o <<x>> = d1 /\ c.data \o <<x, y>> = d2
  BY <1>1, Joining
<1> HIDE DEF d1, d2
<1>4. /\ Cbor!Appended(c, <<x>>) = [c EXCEPT !.data = d1]
      /\ Cbor!Appended(c, <<x, y>>) = [c EXCEPT !.data = d2]
  BY <1>3 DEF Cbor!Appended
<1>5. \A d \in Seq(Items) :
          /\ BufferIs(c, [c EXCEPT !.data = d], d, c.openLeafList)
          /\ BufferIs(c, [[c EXCEPT !.data = d] EXCEPT !.openLeafList = b], d, b)
  BY DEF BufferIs, CborTypes
<1>6. /\ BufferIs(c, Cbor!Appended(c, <<x>>), d1, c.openLeafList)
      /\ BufferIs(c, [Cbor!Appended(c, <<x>>) EXCEPT !.openLeafList = b], d1, b)
  BY <1>2, <1>4, <1>5
<1>7. /\ BufferIs(c, Cbor!Appended(c, <<x, y>>), d2, c.openLeafList)
      /\ BufferIs(c, [Cbor!Appended(c, <<x, y>>) EXCEPT !.openLeafList = b], d2, b)
  BY <1>2, <1>4, <1>5
<1> QED BY <1>6, <1>7 DEF d1, d2

CborInv == ~setup.filtered => CborFollows(open, kept, cbor, done)

LEMMA KeptIsMore ==
    ASSUME DocInv, NEW op, NEW o, KeptOne(op, o)
    PROVE  More(kept, kept', op)
BY DEF DocInv, KeptOne, More

LEMMA TextTypes ==
    ASSUME NEW name \in Labels
    PROVE  name \in Texts
BY DEF Texts

LEMMA OpenCbor ==
    ASSUME LengthsAreGood, DocInv, CborFollows(open, kept, cbor, FALSE), ~setup.filtered,
           NEW kind \in OpenKinds, NEW name \in Labels, NEW v \in Verdicts,
           NEW flags \in SUBSET {"dense"}, Fits(kind, name), OpenOne(kind, name, v, flags)
    PROVE  CborFollows(open', kept', cbor', FALSE)
<1> DEFINE n == Len(open)
           op == OpenOp(kind, name, flags)
           nest == NestOf(open)
           d == cbor.data
<1>1. cbor' = Cbor!Handle(cbor, op) /\ More(kept, kept', op)
  BY OpenKeeps, KeptIsMore DEF Tell
<1>2. /\ op.name = name
      /\ kind = "container" => op.op = "open_container"
      /\ kind = "instance" => op.op = "open_instance"
      /\ kind = "list" => op.op = "open_list"
      /\ kind = "leaf_list" => op.op = "open_leaf_list"
  BY DEF OpenOp, Op, Opening
<1>3. /\ Elems(open) /\ Elems(open') /\ Len(open') = n + 1 /\ Lower(open, open', n)
      /\ open'[n + 1].kind = kind
  BY OpenEffect DEF OpenedOne, DocInv
<1>4. NestOf(open') = Append(nest, Expecting(kind))
  BY <1>3, NestOpened
<1>5. nest \in Nests /\ nest # <<>> /\ Last(nest) = Expecting(Top.kind)
  BY <1>3, NestOfFacts DEF Top
<1>6. /\ kind = "instance" => Last(nest) = "element" /\ Top.kind = "list"
      /\ kind # "instance" => Last(nest) = "key" /\ Top.kind # "leaf_list"
  BY <1>5 DEF Fits, Expecting
<1>7. PICK strings \in Seq(Notes) : ReadsTo(d, State(nest, strings)) /\ GathersTo(kept, strings)
  BY DEF CborFollows, CborReadsTo
<1>8. cbor \in CborTypes /\ d \in Seq(Items) /\ name \in Texts
      /\ (cbor.openLeafList <=> Top.kind = "leaf_list")
  BY TextTypes DEF CborFollows, CborTypes, Top
<1>9. Cbor!String(name) \in Items /\ Cbor!Map \in Items /\ Cbor!Array \in Items
  BY <1>8 DEF Items
<1> DEFINE noted == Append(strings, Note("key", name))
<1>10. noted \in Seq(Notes)
  BY <1>8, NoteTypes, AppendProperties DEF Marks
<1>11. GathersTo(kept', With(strings, op))
  BY <1>1, <1>7, GathersMore
<1> HIDE DEF n, op, nest, d, noted
<1>12. /\ cbor' \in CborTypes
       /\ CborReadsTo(kept', cbor', Append(nest, Expecting(kind)))
       /\ cbor'.openLeafList <=> kind = "leaf_list"
  <2>1. CASE kind = "instance"
    <3>1. cbor' = Cbor!Appended(cbor, <<Cbor!Map>>)
      BY <1>1, <1>2, <2>1 DEF Cbor!Handle
    <3>2. BufferIs(cbor, cbor', Append(d, Cbor!Map), cbor.openLeafList)
      BY <1>8, <1>9, <3>1, BufferGrows DEF d
    <3>3. With(strings, op) = strings
      BY <1>2, <1>7, <2>1, WithNone
    <3>4. ReadsTo(Append(d, Cbor!Map), State(Append(nest, "key"), strings))
      BY <1>5, <1>6, <1>7, <1>8, <2>1, ReadInList
    <3>5. CborReadsTo(kept', cbor', Append(nest, "key"))
      BY <1>7, <1>11, <3>2, <3>3, <3>4 DEF CborReadsTo, BufferIs
    <3> QED BY <1>6, <1>8, <2>1, <3>2, <3>5 DEF BufferIs, Expecting
  <2>2. CASE kind # "instance"
    <3> DEFINE named == Append(d, Cbor!String(name))
    <3>1. With(strings, op) = noted
      BY <1>2, <1>7, <1>8, <2>2, WithName DEF noted, OpenKinds
    <3>2. /\ ReadsTo(Append(named, Cbor!Map), State(Append(nest, "key"), noted))
          /\ ReadsTo(Append(named, Cbor!Array), State(Append(nest, "element"), noted))
      BY <1>5, <1>6, <1>7, <1>8, <2>2, ReadMember DEF noted
    <3>3. CASE kind = "container"
      <4>1. cbor' = Cbor!Appended(cbor, <<Cbor!String(name), Cbor!Map>>)
        BY <1>1, <1>2, <3>3 DEF Cbor!Handle
      <4>2. BufferIs(cbor, cbor', Append(named, Cbor!Map), cbor.openLeafList)
        BY <1>8, <1>9, <4>1, BufferGrows DEF d
      <4> HIDE DEF named
      <4>3. CborReadsTo(kept', cbor', Append(nest, "key"))
        BY <1>10, <1>11, <3>1, <3>2, <4>2 DEF CborReadsTo, BufferIs
      <4> QED BY <1>6, <1>8, <3>3, <4>2, <4>3 DEF BufferIs, Expecting
    <3>4. CASE kind = "list"
      <4>1. cbor' = Cbor!Appended(cbor, <<Cbor!String(name), Cbor!Array>>)
        BY <1>1, <1>2, <3>4 DEF Cbor!Handle
      <4>2. BufferIs(cbor, cbor', Append(named, Cbor!Array), cbor.openLeafList)
        BY <1>8, <1>9, <4>1, BufferGrows DEF d
      <4> HIDE DEF named
      <4>3. CborReadsTo(kept', cbor', Append(nest, "element"))
        BY <1>10, <1>11, <3>1, <3>2, <4>2 DEF CborReadsTo, BufferIs
      <4> QED BY <1>6, <1>8, <3>4, <4>2, <4>3 DEF BufferIs, Expecting
    <3>5. CASE kind = "leaf_list"
      <4>1. cbor' = [Cbor!Appended(cbor, <<Cbor!String(name), Cbor!Array>>) EXCEPT !.openLeafList = TRUE]
        BY <1>1, <1>2, <3>5 DEF Cbor!Handle
      <4>2. BufferIs(cbor, cbor', Append(named, Cbor!Array), TRUE)
        BY <1>8, <1>9, <4>1, BufferGrows DEF d
      <4> HIDE DEF named
      <4>3. CborReadsTo(kept', cbor', Append(nest, "element"))
        BY <1>10, <1>11, <3>1, <3>2, <4>2 DEF CborReadsTo, BufferIs
      <4> QED BY <3>5, <4>2, <4>3 DEF BufferIs, Expecting
    <3> QED BY <2>2, <3>3, <3>4, <3>5 DEF OpenKinds
  <2> QED BY <2>1, <2>2
<1> QED BY <1>3, <1>4, <1>12 DEF CborFollows, n, nest

LEMMA FieldCbor ==
    ASSUME LengthsAreGood, DocInv, CborFollows(open, kept, cbor, FALSE), ~setup.filtered,
           NEW name \in Fields, Field(name)
    PROVE  CborFollows(open', kept', cbor', FALSE)
<1> DEFINE n == Len(open)
           op == FieldOp(name)
           nest == NestOf(open)
           d == cbor.data
           v == count + 1
<1>1. cbor' = Cbor!Handle(cbor, op) /\ More(kept, kept', op)
  BY FieldEffect, FieldKeeps, KeptIsMore DEF Tell
<1>2. op.op = "field" /\ op.name = name /\ op.value = v
  BY DEF FieldOp, Op
<1>3. Elems(open) /\ \E k : Keyed(open, open', k)
  BY FieldEffect DEF DocInv
<1>4. Elems(open') /\ Len(open') = n /\ NestOf(open') = nest /\ open'[n].kind = Top.kind
  <2>1. Elems(open') /\ Len(open') = n /\ \A i \in 1..n : open'[i].kind = open[i].kind
    <3>1. \A i \in 1..n : i \in 1..(n - 1) \/ i = n
      BY <1>3, TopFacts
    <3> QED BY <1>3, <3>1 DEF Keyed, Lower, Like
  <2> QED BY <1>3, <2>1, NestSame, TopFacts DEF Top
<1>5. nest \in Nests /\ nest # <<>> /\ Last(nest) = "key" /\ Top.kind # "leaf_list"
  <2>1. Top.kind \in {"document", "container", "instance"}
    BY DEF Field, Holds
  <2> QED BY <1>3, <2>1, NestOfFacts DEF Top, Expecting
<1>6. PICK strings \in Seq(Notes) : ReadsTo(d, State(nest, strings)) /\ GathersTo(kept, strings)
  BY DEF CborFollows, CborReadsTo
<1>7. /\ cbor \in CborTypes /\ d \in Seq(Items) /\ name \in Texts /\ v \in Texts
      /\ cbor.openLeafList <=> Top.kind = "leaf_list"
  BY DEF CborFollows, CborTypes, Top, Texts, Labels, DocInv
<1>8. Cbor!String(name) \in Items /\ Cbor!String(v) \in Items
  BY <1>7 DEF Items
<1> DEFINE noted == Append(Append(strings, Note("key", name)), Note("value", v))
<1>9. noted \in Seq(Notes)
  BY <1>7, NoteTypes, AppendProperties DEF Marks
<1> HIDE DEF op, nest, d, v
<1>10. GathersTo(kept', noted)
  <2>1. GathersTo(kept', With(strings, op))
    BY <1>1, <1>6, GathersMore
  <2>2. With(strings, op) = noted
    BY <1>2, <1>6, <1>7, WithField
  <2> QED BY <2>1, <2>2
<1>11. ReadsTo(Append(Append(d, Cbor!String(name)), Cbor!String(v)), State(nest, noted))
  BY <1>5, <1>6, <1>7, ReadMember
<1>12. cbor' = Cbor!Appended(cbor, <<Cbor!String(name), Cbor!String(v)>>)
  <2>1. cbor' = Cbor!Field(cbor, name, v) /\ ~cbor.openLeafList
    BY <1>1, <1>2, <1>5, <1>7 DEF Cbor!Handle
  <2>2. <<Cbor!String(name)>> \o <<Cbor!String(v)>> = <<Cbor!String(name), Cbor!String(v)>>
    BY <1>8, TwoAre
  <2> QED BY <2>1, <2>2 DEF Cbor!Field
<1>13. BufferIs(cbor, cbor', Append(Append(d, Cbor!String(name)), Cbor!String(v)), cbor.openLeafList)
  BY <1>7, <1>8, <1>12, BufferGrows DEF d
<1> HIDE DEF noted
<1>14. CborReadsTo(kept', cbor', nest)
  BY <1>9, <1>10, <1>11, <1>13 DEF CborReadsTo, BufferIs
<1> QED BY <1>4, <1>5, <1>7, <1>13, <1>14 DEF CborFollows, BufferIs

LEMMA ItemCbor ==
    ASSUME LengthsAreGood, DocInv, CborFollows(open, kept, cbor, FALSE), ~setup.filtered, Item
    PROVE  CborFollows(open', kept', cbor', FALSE)
<1> DEFINE n == Len(open)
           op == ItemOp
           nest == NestOf(open)
           d == cbor.data
           v == count + 1
<1>1. cbor' = Cbor!Handle(cbor, op) /\ More(kept, kept', op)
  BY ItemEffect, ItemKeeps, KeptIsMore DEF Tell
<1>2. op.op = "item" /\ op.value = v
  BY DEF ItemOp, Op
<1>3. Elems(open) /\ Keyed(open, open', Top.keys)
  BY ItemEffect DEF DocInv
<1>4. Elems(open') /\ Len(open') = n /\ NestOf(open') = nest /\ open'[n].kind = Top.kind
  <2>1. Elems(open') /\ Len(open') = n /\ \A i \in 1..n : open'[i].kind = open[i].kind
    <3>1. \A i \in 1..n : i \in 1..(n - 1) \/ i = n
      BY <1>3, TopFacts
    <3> QED BY <1>3, <3>1 DEF Keyed, Lower, Like
  <2> QED BY <1>3, <2>1, NestSame, TopFacts DEF Top
<1>5. nest \in Nests /\ nest # <<>> /\ Last(nest) = "element" /\ Top.kind = "leaf_list"
  <2>1. Top.kind = "leaf_list"
    BY DEF Item, Holds
  <2> QED BY <1>3, <2>1, NestOfFacts DEF Top, Expecting
<1>6. PICK strings \in Seq(Notes) : ReadsTo(d, State(nest, strings)) /\ GathersTo(kept, strings)
  BY DEF CborFollows, CborReadsTo
<1>7. /\ cbor \in CborTypes /\ d \in Seq(Items) /\ v \in Texts
      /\ cbor.openLeafList <=> Top.kind = "leaf_list"
  BY DEF CborFollows, CborTypes, Top, Texts, DocInv
<1>8. Cbor!String(v) \in Items
  BY <1>7 DEF Items
<1> DEFINE noted == Append(strings, Note("element", v))
<1>9. noted \in Seq(Notes)
  BY <1>7, NoteTypes, AppendProperties DEF Marks
<1> HIDE DEF op, nest, d, v
<1>10. GathersTo(kept', noted)
  <2>1. GathersTo(kept', With(strings, op))
    BY <1>1, <1>6, GathersMore
  <2>2. With(strings, op) = noted
    BY <1>2, <1>6, <1>7, WithItem
  <2> QED BY <2>1, <2>2
<1>11. ReadsTo(Append(d, Cbor!String(v)), State(nest, noted))
  BY <1>5, <1>6, <1>7, ReadInList
<1>12. cbor' = Cbor!Appended(cbor, <<Cbor!String(v)>>)
  <2>1. cbor' = Cbor!Field(cbor, op.name, v) /\ cbor.openLeafList
    BY <1>1, <1>2, <1>5, <1>7 DEF Cbor!Handle
  <2>2. <<>> \o <<Cbor!String(v)>> = <<Cbor!String(v)>>
    <3>1. <<Cbor!String(v)>> \in Seq(Items)
      BY <1>8
    <3> QED BY <3>1, ConcatEmptySeq
  <2> QED BY <2>1, <2>2 DEF Cbor!Field
<1>13. BufferIs(cbor, cbor', Append(d, Cbor!String(v)), cbor.openLeafList)
  BY <1>7, <1>8, <1>12, BufferGrows DEF d
<1> HIDE DEF noted
<1>14. CborReadsTo(kept', cbor', nest)
  BY <1>9, <1>10, <1>11, <1>13 DEF CborReadsTo, BufferIs
<1> QED BY <1>4, <1>5, <1>7, <1>13, <1>14 DEF CborFollows, BufferIs

LEMMA CloseCbor ==
    ASSUME DocInv, CborFollows(open, kept, cbor, FALSE), ~setup.filtered, Close
    PROVE  CborFollows(open', kept', cbor', FALSE)
<1> DEFINE n == Len(open)
           op == CloseOp
           nest == NestOf(open)
           d == cbor.data
<1>1. /\ Elems(open) /\ Elems(open') /\ Len(open') = n - 1 /\ n > 1 /\ n \in Nat
      /\ \A i \in 1..(n - 1) : open'[i] = open[i]
  <2>1. open' = Front(open) /\ Elems(open) /\ n > 1
    BY CloseEffect DEF ClosedOne, DocInv, Close
  <2> QED BY <2>1, FrontFacts, TopFacts
<1>2. ~Top.tentative /\ Top.kind \in OpenKinds /\ open'[n - 1].kind # "leaf_list"
      /\ Top.kind = open[n].kind
  <2>1. n \in 2..n /\ n \in 1..n /\ n - 1 \in 1..(n - 1)
    BY <1>1
  <2> QED BY <1>1, <2>1 DEF Elems, Nested, Top, DocInv
<1>3. cbor' = Cbor!Handle(cbor, op) /\ KeptOne(op, Front(open))
  BY <1>2, CloseKeeps DEF Tell
<1>4. More(kept, kept', op)
  BY <1>3, KeptIsMore
<1>5. /\ Top.kind = "container" => op.op = "close_container"
      /\ Top.kind = "instance" => op.op = "close_instance"
      /\ Top.kind = "list" => op.op = "close_list"
      /\ Top.kind = "leaf_list" => op.op = "close_leaf_list"
  BY DEF CloseOp, Op, Closing
<1>6. NestOf(open') = Front(nest) /\ nest \in Nests /\ nest # <<>>
  BY <1>1, NestClosed, NestOfFacts
<1>7. PICK strings \in Seq(Notes) : ReadsTo(d, State(nest, strings)) /\ GathersTo(kept, strings)
  BY DEF CborFollows, CborReadsTo
<1>8. /\ cbor \in CborTypes /\ d \in Seq(Items) /\ Cbor!Break \in Items
      /\ cbor.openLeafList <=> Top.kind = "leaf_list"
  BY DEF CborFollows, CborTypes, Top, Items
<1> HIDE DEF op, nest, d, n
<1>9. GathersTo(kept', strings)
  <2>1. GathersTo(kept', With(strings, op))
    BY <1>4, <1>7, GathersMore
  <2>2. With(strings, op) = strings
    BY <1>2, <1>5, <1>7, WithNone DEF OpenKinds
  <2> QED BY <2>1, <2>2
<1>10. ReadsTo(Append(d, Cbor!Break), State(Front(nest), strings))
  BY <1>6, <1>7, <1>8, ReadEnd
<1>11. BufferIs(cbor, cbor', Append(d, Cbor!Break), FALSE)
  <2>1. CASE Top.kind = "leaf_list"
    <3>1. cbor' = [Cbor!Appended(cbor, <<Cbor!Break>>) EXCEPT !.openLeafList = FALSE]
      BY <1>3, <1>5, <2>1 DEF Cbor!Handle, Cbor!Close
    <3> QED BY <1>8, <3>1, BufferGrows DEF d
  <2>2. CASE Top.kind # "leaf_list"
    <3>1. cbor' = Cbor!Appended(cbor, <<Cbor!Break>>)
      BY <1>2, <1>3, <1>5, <2>2 DEF Cbor!Handle, Cbor!Close, OpenKinds
    <3>2. BufferIs(cbor, cbor', Append(d, Cbor!Break), cbor.openLeafList)
      BY <1>8, <3>1, BufferGrows DEF d
    <3>3. cbor.openLeafList = FALSE
      BY <1>8, <2>2 DEF CborTypes
    <3> QED BY <3>2, <3>3
  <2> QED BY <2>1, <2>2
<1>12. CborReadsTo(kept', cbor', Front(nest))
  BY <1>7, <1>9, <1>10, <1>11 DEF CborReadsTo, BufferIs
<1> QED BY <1>1, <1>2, <1>6, <1>11, <1>12 DEF CborFollows, BufferIs

LEMMA FlushCbor ==
    ASSUME NEW c \in CborTypes
    PROVE  BufferIs(c, Cbor!Flush(c), c.data, c.openLeafList)
<1> DEFINE w == c.written \o c.data
<1>1. w \in Seq(Items)
  BY ConcatProperties DEF CborTypes
<1>2. Cbor!Flush(c) = [c EXCEPT !.written = w]
  BY DEF Cbor!Flush, CborTypes
<1> HIDE DEF w
<1> QED BY <1>1, <1>2 DEF BufferIs, CborTypes

LEMMA CborSame ==
    ASSUME NEW o, NEW k, NEW c, NEW fin \in BOOLEAN, CborFollows(o, k, c, fin),
           NEW g, BufferIs(c, g, c.data, c.openLeafList)
    PROVE  CborFollows(o, k, g, fin)
BY DEF CborFollows, CborReadsTo, BufferIs

LEMMA FinishCbor ==
    ASSUME DocInv, CborFollows(open, kept, cbor, FALSE), Len(open) = 1,
           NEW g, g = Cbor!Appended(cbor, <<Cbor!Break>>)
    PROVE  CborFollows(open, kept, g, TRUE)
<1> DEFINE nest == NestOf(open)
           d == cbor.data
<1>1. nest \in Nests /\ nest # <<>> /\ Len(nest) = 1
  BY NestOfFacts DEF DocInv
<1>2. PICK strings \in Seq(Notes) : ReadsTo(d, State(nest, strings)) /\ GathersTo(kept, strings)
  BY DEF CborFollows, CborReadsTo
<1>3. cbor \in CborTypes /\ d \in Seq(Items) /\ Cbor!Break \in Items
  BY DEF CborFollows, CborTypes, Items
<1> HIDE DEF nest
<1>4. Front(nest) = <<>>
  BY <1>1, SubSeqEmpty DEF Front
<1>5. ReadsTo(Append(d, Cbor!Break), State(<<>>, strings))
  BY <1>1, <1>2, <1>3, <1>4, ReadEnd
<1>6. BufferIs(cbor, g, Append(d, Cbor!Break), cbor.openLeafList)
  BY <1>3, BufferGrows
<1>7. CborReadsTo(kept, g, <<>>)
  BY <1>2, <1>5, <1>6 DEF CborReadsTo, BufferIs
<1> QED BY <1>6, <1>7 DEF CborFollows, BufferIs

LEMMA InitCbor ==
    ASSUME Init
    PROVE  CborFollows(open, kept, cbor, FALSE)
<1> DEFINE d == <<Cbor!Map>>
           strings == [i \in 0..0 |-> <<>>]
           after == [i \in 0..0 |-> State(<<>>, <<>>)]
<1>1. /\ DocInv /\ Len(open) = 1 /\ open[1].kind = "document"
      /\ kept = <<>> /\ cbor = Cbor!Created
  BY DocInit DEF Init, DocInv, Elems, Nested
<1>2. Cbor!Map \in Items /\ <<>> \in Seq(Items) /\ <<>> \in Seq(Notes)
  BY EmptySeq DEF Items
<1>3. d = Append(<<>>, Cbor!Map) /\ d \in Seq(Items)
  BY <1>2
<1>4. ReadsTo(<<>>, State(<<>>, <<>>))
  <2>1. Len(<<>>) = 0
    OBVIOUS
  <2>2. Runs(<<>>, after) /\ after[0] = State(<<>>, <<>>)
    BY <2>1 DEF Runs
  <2> HIDE DEF after
  <2> QED BY <2>1, <2>2 DEF ReadsTo
<1>5. ReadsTo(d, State(<<"key">>, <<>>))
  BY <1>2, <1>3, <1>4, ReadsMore, ReadDocument
<1>6. NestOf(open) = <<"key">>
  BY <1>1 DEF NestOf, Expecting
<1>7. GathersTo(kept, <<>>)
  <2>1. Len(kept) = 0
    BY <1>1
  <2>2. Gathers(kept, strings) /\ strings[0] = <<>>
    BY <2>1 DEF Gathers
  <2> HIDE DEF strings
  <2> QED BY <2>1, <2>2 DEF GathersTo
<1>8. cbor \in CborTypes /\ cbor.data = d /\ cbor.openLeafList = FALSE
  BY <1>1, <1>2, <1>3 DEF CborTypes, Cbor!Created
<1>9. CborReadsTo(kept, cbor, NestOf(open))
  BY <1>2, <1>5, <1>6, <1>7, <1>8 DEF CborReadsTo
<1>10. open[Len(open)].kind # "leaf_list"
  BY <1>1
<1> QED BY <1>8, <1>9, <1>10 DEF CborFollows

LEMMA CborStep ==
    ASSUME LengthsAreGood, DocInv, CborInv, [Next]_vars
    PROVE  CborInv'
<1>1. CASE UNCHANGED vars
  BY <1>1 DEF vars, CborInv
<1>2. CASE Next
  <2>1. CASE setup.filtered
    <3>1. setup' = setup
      BY <1>2, Steps DEF OpenOne, Field, Item, Close, Skip, Flush, Finish, Still
    <3> QED BY <2>1, <3>1 DEF CborInv
  <2>2. CASE ~setup.filtered
    <3>0. CborFollows(open, kept, cbor, done) /\ done \in BOOLEAN
      BY <2>2 DEF CborInv, DocInv
    <3>1. ASSUME NEW kind \in OpenKinds, NEW name \in Labels, NEW v \in Verdicts,
                 NEW flags \in SUBSET {"dense"}, Fits(kind, name), OpenOne(kind, name, v, flags)
          PROVE  CborInv'
      <4>1. done = FALSE /\ done' = FALSE
        BY <3>0, <3>1 DEF OpenOne, Room, Still
      <4> QED BY <2>2, <3>0, <3>1, <4>1, OpenCbor DEF CborInv
    <3>2. ASSUME NEW name \in Fields, Field(name)
          PROVE  CborInv'
      <4>1. done = FALSE /\ done' = FALSE
        BY <3>0, <3>2 DEF Field, Room, Still
      <4> QED BY <2>2, <3>0, <3>2, <4>1, FieldCbor DEF CborInv
    <3>3. ASSUME Item
          PROVE  CborInv'
      <4>1. done = FALSE /\ done' = FALSE
        BY <3>0, <3>3 DEF Item, Room, Still
      <4> QED BY <2>2, <3>0, <3>3, <4>1, ItemCbor DEF CborInv
    <3>4. ASSUME Close
          PROVE  CborInv'
      <4>1. done = FALSE /\ done' = FALSE
        BY <3>0, <3>4 DEF Close, Still
      <4> QED BY <2>2, <3>0, <3>4, <4>1, CloseCbor DEF CborInv
    <3>5. ASSUME Skip
          PROVE  CborInv'
      BY <2>2, <3>5, SkipEffect
    <3> DEFINE flush == Op("flush", NoName, NoName, {})
               finish == Op("finish", NoName, NoName, {})
    <3>6. /\ \A c : Cbor!Handle(c, flush) = Cbor!Flush(c)
          /\ Cbor!Handle(cbor, finish) = Cbor!Appended(cbor, <<Cbor!Break>>)
      BY DEF Cbor!Handle, Cbor!Close, Op
    <3>7. ASSUME Flush
          PROVE  CborInv'
      <4>1. cbor' = Cbor!Flush(cbor) /\ UNCHANGED <<open, kept, done, setup>>
        BY <2>2, <3>6, <3>7 DEF Flush, Tell
      <4>2. CborFollows(open, kept, cbor', done)
        BY <3>0, <4>1, FlushCbor, CborSame DEF CborFollows
      <4> QED BY <4>1, <4>2 DEF CborInv
    <3>8. ASSUME Finish
          PROVE  CborInv'
      <4> DEFINE g == Cbor!Appended(cbor, <<Cbor!Break>>)
      <4>1. cbor' = Cbor!Flush(g) /\ UNCHANGED <<open, kept, setup>> /\ done' = TRUE
            /\ done = FALSE /\ Len(open) = 1
        BY <2>2, <3>0, <3>6, <3>8 DEF Finish
      <4>2. CborFollows(open, kept, g, TRUE)
        BY <3>0, <4>1, FinishCbor
      <4> HIDE DEF g
      <4>3. CborFollows(open, kept, cbor', TRUE)
        BY <4>1, <4>2, FlushCbor, CborSame DEF CborFollows
      <4> QED BY <4>1, <4>3 DEF CborInv
    <3> QED BY <1>2, <3>1, <3>2, <3>3, <3>4, <3>5, <3>7, <3>8, Steps
  <2> QED BY <2>1, <2>2
<1> QED BY <1>1, <1>2

LEMMA CborIs ==
    ASSUME DocInv, CborInv
    PROVE  CborReads
<1> SUFFICES ASSUME ~setup.filtered
             PROVE  ReadAll(cbor.data) =
                        [nest |-> IF done THEN <<>> ELSE [i \in DOMAIN open |-> Expecting(open[i].kind)],
                         strings |-> StringsOfAll(kept)]
  BY DEF CborReads
<1> DEFINE nest == IF done THEN <<>> ELSE NestOf(open)
<1>1. cbor \in CborTypes /\ CborReadsTo(kept, cbor, nest)
  BY DEF CborInv, CborFollows
<1> HIDE DEF nest
<1>2. PICK strings \in Seq(Notes) : ReadsTo(cbor.data, State(nest, strings)) /\ GathersTo(kept, strings)
  BY <1>1 DEF CborReadsTo
<1>3. Len(cbor.data) \in Nat /\ Len(kept) \in Nat
  BY <1>1 DEF CborTypes, DocInv
<1>4. ReadAll(cbor.data) = State(nest, strings) /\ StringsOfAll(kept) = strings
  BY <1>2, <1>3, ReadsAll, GathersAll
<1> QED BY <1>4 DEF State, nest, NestOf

(* The buffer of cbor reads as nested maps and arrays whose open ones are    *)
(* those of the document, and holds each of its strings with the length it   *)
(* has, for every document whose strings have none of the three lengths that *)
(* the head of a string has too little room for (enc_cbor.c:168, 259).       *)
THEOREM CborCorrect ==
    ASSUME LengthsAreGood
    PROVE  Spec => []CborReads
<1>1. Init => DocInv /\ CborInv
  <2>1. Init => done = FALSE
    BY DEF Init
  <2> QED BY <2>1, DocInit, InitCbor DEF CborInv
<1>2. DocInv /\ CborInv /\ [Next]_vars => (DocInv /\ CborInv)'
  BY DocStep, CborStep
<1>3. DocInv /\ CborInv => CborReads
  BY CborIs
<1> QED BY <1>1, <1>2, <1>3, PTL DEF Spec

=============================================================================
