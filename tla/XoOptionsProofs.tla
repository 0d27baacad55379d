-------------------------- MODULE XoOptionsProofs --------------------------
(***************************************************************************)
(* The options, for any encoders, directories and bounds: a command line    *)
(* with an error is refused, filters go together with the encoder, the       *)
(* encoder's code is loaded and its private data its own, and in one string  *)
(* filters may stand where they like.                                        *)
(***************************************************************************)
EXTENDS XoOptions, SequenceTheorems, WellFoundedInduction, TLAPS

\* A nonempty set of numbers has a least one.
LEMMA LeastNatural ==
    ASSUME NEW T, T \subseteq Nat, T # {}
    PROVE  \E x \in T : \A y \in T : x <= y
<1>1. PICK x \in T : \A y \in T : ~(<<y, x>> \in OpToRel(<, Nat))
    BY WFMin, NatLessThanWellFounded, Zenon
<1>2. ASSUME NEW y \in T PROVE x <= y
    <2>1. <<y, x>> \in Nat \X Nat
        OBVIOUS
    <2>2. ~(y < x)
        BY <1>1, <2>1, Zenon DEF OpToRel
    <2>. QED BY <2>2
<1>. QED BY <1>2
-----------------------------------------------------------------------------
(* What there is to work on, and that the operators stay in it              *)

\* An encoder of the program, or one that the library of a directory holds
Nodes ==
    {n \in [name : Names, from : Dirs \cup {Program}] :
        n.from # Program => n.from \in Dirs /\ n.name \in DOMAIN Library[n.from]}

Handles ==
    [style : Styles \cup {"none", "encoder"}, filter : BOOLEAN, aware : BOOLEAN, notify : BOOLEAN,
     encoder : Nodes \cup {NoEncoder}, private : Nodes \cup {NoEncoder}]

States == [handle : Handles, encoders : Seq(Nodes), opened : SUBSET (Dirs \X Names), rc : Answers]

EncoderWords == [word : {"encoder"}, name : Names, options : BOOLEAN]
Pendings == {<<>>} \cup {<<w>> : w \in EncoderWords}

Readings == [state : States, style : Styles \cup {"none"}, pending : Pendings, final : Answers]

\* The library of a node that is in use is open, if the caller is careful: what is
\* lost or goes stale otherwise is apart from the rest of the invariant, which holds
\* for every caller.
IsOpen(s, node) ==
    Careful /\ node # NoEncoder /\ node.from # Program => <<node.from, node.name>> \in s.opened

AllOpen(s) ==
    /\ \A i \in DOMAIN s.encoders : IsOpen(s, s.encoders[i])
    /\ IsOpen(s, s.handle.encoder)

\* The first node of a name is one of that name.
LEMMA FirstFound ==
    ASSUME NEW s \in States, NEW name \in Names, Find(s, name) # {}
    PROVE  First(s, name) \in DOMAIN s.encoders /\ s.encoders[First(s, name)] \in Nodes
<1>1. s.encoders \in Seq(Nodes)
    BY DEF States
<1>2. Find(s, name) \subseteq DOMAIN s.encoders /\ Find(s, name) \subseteq Nat
    BY <1>1 DEF Find
<1>3. \E i \in Find(s, name) : \A j \in Find(s, name) : i <= j
    BY <1>2, LeastNatural
<1>4. First(s, name) \in Find(s, name)
    BY <1>3, Zenon DEF First
<1>. QED BY <1>1, <1>2, <1>4

\* The directory a library is found in is one that holds it.
LEMMA PlaceFound ==
    ASSUME path \in Seq(Dirs), NEW name \in Names, Places(name) # {}
    PROVE  Place(name) \in Dirs /\ name \in DOMAIN Library[Place(name)]
<1>1. Places(name) \subseteq DOMAIN path /\ Places(name) \subseteq Nat
    BY DEF Places
<1>2. \E i \in Places(name) : \A j \in Places(name) : i <= j
    BY <1>1, LeastNatural
<1>3. PICK i \in Places(name) : Place(name) = path[i]
    BY <1>2, Zenon DEF Place
<1>. QED BY <1>1, <1>3 DEF Places

\* What the library of a node says of itself
LEMMA NodeSays ==
    ASSUME NEW n \in Nodes
    PROVE  /\ LibraryOf(n).aware \in BOOLEAN /\ LibraryOf(n).notify \in BOOLEAN
           /\ LibraryOf(n).create \in Answers /\ LibraryOf(n).options \in Answers
<1>1. CASE n.from = Program
    BY <1>1 DEF LibraryOf, Answers
<1>2. CASE n.from # Program
    <2>1. Library[n.from][n.name] \in LibrarySet
        BY <1>2, LibraryAssumption DEF Nodes
    <2>. QED BY <1>2, <2>1 DEF LibraryOf, LibrarySet
<1>. QED BY <1>1, <1>2

LEMMA StateWith ==
    ASSUME NEW s \in States, NEW e \in Seq(Nodes), NEW o \in SUBSET (Dirs \X Names)
    PROVE  [s EXCEPT !.encoders = e, !.opened = o] \in States
BY DEF States

LEMMA DiscoverKeeps ==
    ASSUME path \in Seq(Dirs), NEW s \in States, AllOpen(s), NEW name \in Names
    PROVE  /\ Discover(s, name) \in States
           /\ AllOpen(Discover(s, name))
           /\ Discover(s, name).handle = s.handle
           /\ Discover(s, name).rc = s.rc
<1>. DEFINE t == [s EXCEPT !.encoders = Append(@, Node(name, Place(name))),
                           !.opened = @ \cup {<<Place(name), name>>}]
            node == Node(name, Place(name))
<1>1. CASE Discover(s, name) = s
    BY <1>1
<1>2. CASE Places(name) # {} /\ Discover(s, name) = t
    <2>1. Place(name) \in Dirs /\ name \in DOMAIN Library[Place(name)]
        BY <1>2, PlaceFound
    <2>2. node \in Nodes
        BY <2>1 DEF Nodes, Node
    <2>3. s.encoders \in Seq(Nodes) /\ s.opened \in SUBSET (Dirs \X Names) /\ s.handle \in Handles /\ s.rc \in Answers
        BY DEF States
    <2>4. Append(s.encoders, node) \in Seq(Nodes)
        BY <2>2, <2>3
    <2>5. /\ t.encoders = Append(s.encoders, node) /\ t.opened = s.opened \cup {<<Place(name), name>>}
          /\ t.handle = s.handle /\ t.rc = s.rc
        BY DEF States
    <2>6. t \in States
        <3>1. s.opened \cup {<<Place(name), name>>} \in SUBSET (Dirs \X Names)
            BY <2>1, <2>3
        <3>. QED BY <2>4, <3>1, StateWith
    <2>7. \A i \in DOMAIN t.encoders : IsOpen(t, t.encoders[i])
        <3>. SUFFICES ASSUME NEW i \in DOMAIN t.encoders PROVE IsOpen(t, t.encoders[i])
            OBVIOUS
        <3>1. CASE i \in DOMAIN s.encoders
            <4>1. t.encoders[i] = s.encoders[i]
                BY <2>2, <2>3, <2>5, <3>1
            <4>. QED BY <3>1, <4>1, <2>5 DEF AllOpen, IsOpen
        <3>2. CASE i = Len(s.encoders) + 1
            <4>1. t.encoders[i] = node
                BY <2>2, <2>3, <2>5, <3>2
            <4>2. node.from = Place(name) /\ node.name = name
                BY DEF Node
            <4>. QED BY <4>1, <4>2, <2>5 DEF IsOpen
        <3>. QED BY <2>2, <2>3, <2>5, <3>1, <3>2
    <2>8. IsOpen(t, t.handle.encoder)
        BY <2>5 DEF AllOpen, IsOpen
    <2>. QED BY <1>2, <2>5, <2>6, <2>7, <2>8 DEF AllOpen
<1>. QED BY <1>1, <1>2 DEF Discover

\* What xo_encoder_init does to a handle when it finds an encoder: a handle that
\* is filter-aware now was so before, or the encoder is.
Installed(s, t) ==
    /\ t.handle.style = "encoder"
    /\ t.handle.filter = s.handle.filter
    /\ t.handle.aware => s.handle.aware \/ LibraryOf(t.handle.encoder).aware
    /\ t.rc = 0 => t.handle.private = t.handle.encoder

LEMMA SetEncoderKeeps ==
    ASSUME NEW h \in Handles, NEW n \in Nodes
    PROVE  /\ SetEncoder(h, n) \in Handles
           /\ SetEncoder(h, n).encoder = n
           /\ SetEncoder(h, n).style = "encoder"
           /\ SetEncoder(h, n).filter = h.filter
           /\ SetEncoder(h, n).aware => h.aware \/ LibraryOf(n).aware
<1>. DEFINE b == h.aware \/ LibraryOf(n).aware
            c == h.notify \/ LibraryOf(n).notify
            g == [h EXCEPT !.encoder = n, !.style = "encoder", !.aware = b, !.notify = c]
<1>1. SetEncoder(h, n) = g
    BY DEF SetEncoder
<1>2. b \in BOOLEAN /\ c \in BOOLEAN
    OBVIOUS
<1>. HIDE DEF b, c
<1>3. g \in Handles
    BY <1>2 DEF Handles
<1>4. g.encoder = n /\ g.style = "encoder" /\ g.filter = h.filter /\ g.aware = b
    BY DEF Handles
<1>. QED BY <1>1, <1>3, <1>4 DEF b

LEMMA CreateKeeps ==
    ASSUME NEW h \in Handles
    PROVE  /\ Create(h) \in Handles
           /\ Create(h).encoder = h.encoder
           /\ Create(h).style = h.style
           /\ Create(h).filter = h.filter
           /\ Create(h).aware = h.aware
           /\ LibraryOf(h.encoder).create = 0 => Create(h).private = h.encoder
<1>1. CASE LibraryOf(h.encoder).create = 0
    BY <1>1 DEF Create, Handles
<1>2. CASE LibraryOf(h.encoder).create # 0
    BY <1>2 DEF Create
<1>. QED BY <1>1, <1>2

LEMMA WithResult ==
    ASSUME NEW s \in States, NEW rc \in Answers
    PROVE  /\ Returns(s, rc) \in States
           /\ Returns(s, rc).handle = s.handle
           /\ Returns(s, rc).encoders = s.encoders
           /\ Returns(s, rc).opened = s.opened
           /\ Returns(s, rc).rc = rc
           /\ AllOpen(s) => AllOpen(Returns(s, rc))
<1>1. /\ Returns(s, rc) \in States /\ Returns(s, rc).rc = rc
      /\ Returns(s, rc).handle = s.handle
      /\ Returns(s, rc).encoders = s.encoders
      /\ Returns(s, rc).opened = s.opened
    BY DEF Returns, States
<1>. QED BY <1>1 DEF AllOpen, IsOpen

LEMMA WithHandle ==
    ASSUME NEW s \in States, NEW h \in Handles
    PROVE  /\ [s EXCEPT !.handle = h] \in States
           /\ [s EXCEPT !.handle = h].handle = h
           /\ [s EXCEPT !.handle = h].encoders = s.encoders
           /\ [s EXCEPT !.handle = h].opened = s.opened
           /\ [s EXCEPT !.handle = h].rc = s.rc
           /\ AllOpen(s) /\ IsOpen(s, h.encoder) => AllOpen([s EXCEPT !.handle = h])
<1>. DEFINE t == [s EXCEPT !.handle = h]
<1>1. /\ t \in States /\ t.handle = h /\ t.encoders = s.encoders
      /\ t.opened = s.opened /\ t.rc = s.rc
    BY DEF States
<1>. HIDE DEF t
<1>2. AllOpen(s) /\ IsOpen(s, h.encoder) => AllOpen(t)
    BY <1>1 DEF AllOpen, IsOpen
<1>. QED BY <1>1, <1>2 DEF t

LEMMA InstallKeeps ==
    ASSUME NEW s \in States, AllOpen(s), NEW n \in Nodes, IsOpen(s, n), NEW options \in BOOLEAN
    PROVE  /\ Install(s, n, options) \in States
           /\ AllOpen(Install(s, n, options))
           /\ Installed(s, Install(s, n, options))
<1>. DEFINE lib == LibraryOf(n)
            g == SetEncoder(s.handle, n)
            h == Create(g)
            set == [s EXCEPT !.handle = h]
            rc == IF lib.create = 0 /\ options THEN lib.options ELSE lib.create
            t == Returns(set, rc)
<1>1. Install(s, n, options) = t
    BY DEF Install
<1>2. s.handle \in Handles
    BY DEF States
<1>3. /\ g \in Handles /\ g.encoder = n /\ g.style = "encoder" /\ g.filter = s.handle.filter
      /\ g.aware => s.handle.aware \/ lib.aware
    BY <1>2, SetEncoderKeeps
<1>4. /\ h \in Handles /\ h.encoder = n /\ h.style = "encoder" /\ h.filter = s.handle.filter
      /\ h.aware => s.handle.aware \/ lib.aware
      /\ lib.create = 0 => h.private = n
    BY <1>3, CreateKeeps
<1>5. rc \in Answers /\ (rc = 0 => lib.create = 0)
    BY NodeSays
<1>. HIDE DEF h, rc
<1>6. set \in States /\ set.handle = h /\ AllOpen(set)
    BY <1>4, WithHandle
<1>. HIDE DEF set
<1>7. t \in States /\ t.handle = h /\ t.rc = rc /\ AllOpen(t)
    BY <1>5, <1>6, WithResult
<1>. HIDE DEF t
<1>8. Installed(s, t)
    BY <1>4, <1>5, <1>7 DEF Installed
<1>. QED BY <1>1, <1>7, <1>8

\* xo_encoder_init leaves the handle alone and fails, or installs an encoder.
LEMMA EncoderInitKeeps ==
    ASSUME path \in Seq(Dirs), NEW s \in States, AllOpen(s), NEW name \in Names, NEW options \in BOOLEAN
    PROVE  /\ EncoderInit(s, name, options) \in States
           /\ AllOpen(EncoderInit(s, name, options))
           /\ \/ /\ EncoderInit(s, name, options).handle = s.handle
                 /\ EncoderInit(s, name, options).rc = -1
              \/ Installed(s, EncoderInit(s, name, options))
<1>. DEFINE known == IF Find(s, name) = {} THEN Discover(s, name) ELSE s
            node == known.encoders[First(known, name)]
            t == EncoderInit(s, name, options)
<1>1. known \in States /\ AllOpen(known) /\ known.handle = s.handle
    BY DiscoverKeeps
<1>2. -1 \in Answers
    BY DEF Answers
<1>3. t = Returns(s, -1) \/ t = Returns(known, -1) \/ (Find(known, name) # {} /\ t = Install(known, node, options))
    <2>. HIDE DEF known, node
    <2>1. CASE name \in BadNames
        BY <2>1 DEF EncoderInit, known, node
    <2>2. CASE name \notin BadNames /\ Find(known, name) = {}
        BY <2>2 DEF EncoderInit, known, node
    <2>3. CASE name \notin BadNames /\ Find(known, name) # {}
        BY <2>3 DEF EncoderInit, known, node
    <2>. QED BY <2>1, <2>2, <2>3
<1>. HIDE DEF t
<1>4. CASE t = Returns(s, -1)
    BY <1>2, <1>4, WithResult DEF t
<1>5. CASE t = Returns(known, -1)
    <2>. HIDE DEF known
    <2>. QED BY <1>1, <1>2, <1>5, WithResult DEF t
<1>6. CASE Find(known, name) # {} /\ t = Install(known, node, options)
    <2>. HIDE DEF known
    <2>1. First(known, name) \in DOMAIN known.encoders /\ node \in Nodes
        BY <1>1, <1>6, FirstFound
    <2>2. IsOpen(known, node)
        BY <1>1, <2>1 DEF AllOpen
    <2>3. t \in States /\ AllOpen(t) /\ Installed(known, t)
        BY <1>1, <1>6, <2>1, <2>2, InstallKeeps
    <2>4. Installed(s, t)
        BY <1>1, <2>3 DEF Installed
    <2>. QED BY <2>3, <2>4 DEF t
<1>. QED BY <1>3, <1>4, <1>5, <1>6

\* Reading letters and words does not touch the encoder.
SameEncoder(s, t) ==
    /\ t.handle.encoder = s.handle.encoder
    /\ t.handle.private = s.handle.private
    /\ t.handle.aware = s.handle.aware

LEMMA AddFilterKeeps ==
    ASSUME NEW s \in States, AllOpen(s), NEW good \in BOOLEAN
    PROVE  /\ AddFilter(s, good) \in States
           /\ AllOpen(AddFilter(s, good))
           /\ SameEncoder(s, AddFilter(s, good))
           /\ ~good \/ Refuses(s.handle) => AddFilter(s, good).rc = -1
           /\ AddFilter(s, good).rc = 0 /\ AddFilter(s, good).handle.style = "encoder" =>
                 AddFilter(s, good).handle.aware
<1>. DEFINE h == [s.handle EXCEPT !.filter = TRUE]
            rc == IF good THEN 0 ELSE -1
            t == Returns([s EXCEPT !.handle = h], rc)
<1>1. s.handle \in Handles /\ -1 \in Answers /\ rc \in Answers
    BY DEF States, Answers
<1>2. CASE Refuses(s.handle)
    <2>1. AddFilter(s, good) = Returns(s, -1)
        BY <1>2 DEF AddFilter
    <2>. QED BY <1>1, <1>2, <2>1, WithResult DEF SameEncoder, Refuses
<1>3. CASE ~Refuses(s.handle)
    <2>1. AddFilter(s, good) = [s EXCEPT !.handle.filter = TRUE, !.rc = rc]
        BY <1>3 DEF AddFilter
    <2>2. AddFilter(s, good) = [[s EXCEPT !.handle = h] EXCEPT !.rc = rc]
        BY <2>1 DEF States
    <2>3. AddFilter(s, good) = t
        BY <2>2 DEF Returns
    <2>4. /\ h \in Handles /\ h.encoder = s.handle.encoder /\ h.private = s.handle.private
          /\ h.aware = s.handle.aware /\ h.style = s.handle.style
        BY <1>1 DEF Handles
    <2>5. IsOpen(s, h.encoder)
        BY <2>4 DEF AllOpen
    <2>. HIDE DEF h, rc
    <2>6. [s EXCEPT !.handle = h] \in States /\ [s EXCEPT !.handle = h].handle = h /\ AllOpen([s EXCEPT !.handle = h])
        BY <2>4, <2>5, WithHandle
    <2>7. t \in States /\ t.handle = h /\ t.rc = rc /\ AllOpen(t)
        BY <1>1, <2>6, WithResult
    <2>8. ~good => rc = -1
        BY DEF rc
    <2>. QED BY <1>3, <2>3, <2>4, <2>7, <2>8 DEF SameEncoder, Refuses
<1>. QED BY <1>2, <1>3

LEMMA ReadLetterKeeps ==
    ASSUME NEW s \in States, AllOpen(s), NEW letter \in Letters
    PROVE  /\ ReadLetter(s, letter) \in States
           /\ AllOpen(ReadLetter(s, letter))
           /\ SameEncoder(s, ReadLetter(s, letter))
           /\ s.rc # 0 \/ letter = "bad" => ReadLetter(s, letter).rc # 0
<1>1. CASE letter \in Styles
    <2>. DEFINE h == [s.handle EXCEPT !.style = letter]
    <2>1. ReadLetter(s, letter) = [s EXCEPT !.handle = h]
        BY <1>1 DEF ReadLetter, Styles
    <2>2. /\ h \in Handles /\ h.encoder = s.handle.encoder /\ h.private = s.handle.private
          /\ h.aware = s.handle.aware
        BY <1>1 DEF States, Handles
    <2>3. IsOpen(s, h.encoder)
        BY <2>2 DEF AllOpen
    <2>4. letter # "bad"
        BY <1>1 DEF Styles
    <2>. HIDE DEF h
    <2>. QED BY <2>1, <2>2, <2>3, <2>4, WithHandle DEF SameEncoder
<1>2. CASE letter = "bad"
    <2>1. ReadLetter(s, letter) = Returns(s, -1) /\ -1 \in Answers
        BY <1>2 DEF ReadLetter, Styles, Answers
    <2>. QED BY <2>1, WithResult DEF SameEncoder
<1>3. CASE letter = "flag"
    BY <1>3 DEF ReadLetter, Styles, SameEncoder
<1>. QED BY <1>1, <1>2, <1>3 DEF Letters

LEMMA NoteKeeps ==
    ASSUME NEW r \in Readings
    PROVE  /\ Note(r) \in Readings
           /\ Note(r).state = r.state
           /\ Note(r).style = r.style
           /\ Note(r).pending = r.pending
           /\ r.state.rc # 0 \/ r.final # 0 => Note(r).final # 0
<1>1. r.state.rc \in Answers
    BY DEF Readings, States
<1>2. CASE r.state.rc # 0
    <2>. DEFINE rc == r.state.rc
    <2>1. Note(r) = [r EXCEPT !.final = rc]
        BY <1>2 DEF Note
    <2>. HIDE DEF rc
    <2>2. rc \in Answers /\ rc # 0
        BY <1>1, <1>2 DEF rc
    <2>. QED BY <2>1, <2>2 DEF Readings
<1>3. CASE r.state.rc = 0
    BY <1>3 DEF Note
<1>. QED BY <1>2, <1>3

LEMMA WithState ==
    ASSUME NEW r \in Readings, NEW s \in States
    PROVE  /\ [r EXCEPT !.state = s] \in Readings
           /\ [r EXCEPT !.state = s].state = s
           /\ [r EXCEPT !.state = s].style = r.style
           /\ [r EXCEPT !.state = s].pending = r.pending
           /\ [r EXCEPT !.state = s].final = r.final
BY DEF Readings

\* A word leaves the encoder alone and the earlier failures noted; one that is
\* wrong by itself sets the return code.
LEMMA ReadWordKeeps ==
    ASSUME NEW r \in Readings, AllOpen(r.state), NEW word \in Words
    PROVE  /\ ReadWord(r, word) \in Readings
           /\ AllOpen(ReadWord(r, word).state)
           /\ SameEncoder(r.state, ReadWord(r, word).state)
           /\ ReadWord(r, word).final = r.final
           /\ Wrong(r.state.handle, word) => ReadWord(r, word).state.rc # 0
<1>. DEFINE t == ReadWord(r, word)
<1>1. r.state \in States
    BY DEF Readings
<1>2. -1 \in Answers /\ 0 \in Answers
    BY DEF Answers
<1>3. SameEncoder(r.state, r.state)
    BY DEF SameEncoder
<1>4. CASE word.word = "style"
    <2>1. t = r \/ t = [r EXCEPT !.style = word.style]
        BY <1>4 DEF ReadWord
    <2>2. word.style \in Styles
        BY <1>4 DEF Words
    <2>3. ~Wrong(r.state.handle, word)
        BY <1>4 DEF Wrong, IsFilter
    <2>4. t \in Readings /\ t.state = r.state /\ t.final = r.final
        <3>. HIDE DEF t
        <3>. QED BY <2>1, <2>2 DEF Readings
    <2>. QED BY <1>3, <2>3, <2>4
<1>5. CASE word.word = "encoder"
    <2>1. t = [r EXCEPT !.pending = <<word>>]
        BY <1>5 DEF ReadWord, ReadEncoder
    <2>2. word \in EncoderWords
        BY <1>5 DEF Words, EncoderWords
    <2>3. ~Wrong(r.state.handle, word)
        BY <1>5 DEF Wrong, IsFilter
    <2>4. t \in Readings /\ t.state = r.state /\ t.final = r.final
        <3>. DEFINE p == <<word>>
        <3>1. p \in Pendings
            BY <2>2 DEF Pendings
        <3>. HIDE DEF p
        <3>2. t = [r EXCEPT !.pending = p]
            BY <2>1 DEF p
        <3>. HIDE DEF t
        <3>. QED BY <3>1, <3>2 DEF Readings
    <2>. QED BY <1>3, <2>3, <2>4
<1>6. CASE word.word = "filter"
    <2>. DEFINE s == AddFilter(r.state, word.good)
    <2>1. t = [r EXCEPT !.state = s]
        BY <1>6 DEF ReadWord
    <2>2. word.good \in BOOLEAN
        BY <1>6 DEF Words
    <2>3. Wrong(r.state.handle, word) => ~word.good \/ Refuses(r.state.handle)
        BY <1>6 DEF Wrong, IsFilter
    <2>4. s \in States /\ AllOpen(s) /\ SameEncoder(r.state, s) /\ (~word.good \/ Refuses(r.state.handle) => s.rc = -1)
        BY <1>1, <2>2, AddFilterKeeps
    <2>. HIDE DEF s, t
    <2>5. t \in Readings /\ t.state = s /\ t.final = r.final
        BY <2>1, <2>4, WithState
    <2>. QED BY <2>3, <2>4, <2>5 DEF t
<1>7. CASE word.word = "map"
    <2>. DEFINE rc == IF word.good THEN 0 ELSE -1
                s == Returns(r.state, rc)
    <2>1. t = [r EXCEPT !.state.rc = rc]
        BY <1>7 DEF ReadWord
    <2>2. t = [r EXCEPT !.state = s]
        BY <2>1 DEF Returns
    <2>3. rc \in Answers /\ (Wrong(r.state.handle, word) => rc # 0)
        BY <1>2, <1>7 DEF Wrong, IsFilter
    <2>. HIDE DEF rc
    <2>4. s \in States /\ AllOpen(s) /\ s.rc = rc /\ SameEncoder(r.state, s)
        BY <1>1, <2>3, WithResult DEF SameEncoder
    <2>. HIDE DEF s, t
    <2>5. t \in Readings /\ t.state = s /\ t.final = r.final
        BY <2>2, <2>4, WithState
    <2>. QED BY <2>3, <2>4, <2>5 DEF t
<1>8. CASE word.word = "bad"
    <2>. DEFINE s == Returns(r.state, -1)
    <2>1. t = [r EXCEPT !.state.rc = -1]
        BY <1>8 DEF ReadWord
    <2>2. t = [r EXCEPT !.state = s]
        BY <2>1 DEF Returns
    <2>3. s \in States /\ AllOpen(s) /\ s.rc = -1 /\ SameEncoder(r.state, s)
        BY <1>1, <1>2, WithResult DEF SameEncoder
    <2>. HIDE DEF s, t
    <2>4. t \in Readings /\ t.state = s /\ t.final = r.final
        BY <2>2, <2>3, WithState
    <2>. QED BY <2>3, <2>4 DEF t
<1>9. CASE word.word = "flag"
    <2>1. t = r
        BY <1>9 DEF ReadWord
    <2>2. ~Wrong(r.state.handle, word)
        BY <1>9 DEF Wrong, IsFilter
    <2>. QED BY <1>3, <2>1, <2>2
<1>10. word.word \in {"style", "encoder", "filter", "map", "flag", "bad"}
    BY DEF Words
<1>. QED BY <1>4, <1>5, <1>6, <1>7, <1>8, <1>9, <1>10

\* Of a word, with the earlier ones' failures noted first
LEMMA NoteAndReadKeeps ==
    ASSUME NEW r \in Readings, AllOpen(r.state), NEW word \in Words
    PROVE  /\ NoteAndRead(r, word) \in Readings
           /\ AllOpen(NoteAndRead(r, word).state)
           /\ SameEncoder(r.state, NoteAndRead(r, word).state)
           /\ r.state.rc # 0 \/ r.final # 0 => NoteAndRead(r, word).final # 0
           /\ Wrong(r.state.handle, word) => NoteAndRead(r, word).state.rc # 0
BY NoteKeeps, ReadWordKeeps DEF NoteAndRead

LEMMA WithStyleKeeps ==
    ASSUME NEW r \in Readings, AllOpen(r.state)
    PROVE  /\ WithStyle(r) \in Readings
           /\ AllOpen(WithStyle(r).state)
           /\ SameEncoder(r.state, WithStyle(r).state)
           /\ WithStyle(r).pending = r.pending
           /\ WithStyle(r).final = r.final
           /\ WithStyle(r).state.rc = r.state.rc
<1>1. CASE r.style = "none"
    BY <1>1 DEF WithStyle, SameEncoder
<1>2. CASE r.style # "none"
    <2>. DEFINE h == [r.state.handle EXCEPT !.style = r.style]
                s == [r.state EXCEPT !.handle = h]
                t == WithStyle(r)
    <2>1. r.state \in States /\ r.state.handle \in Handles /\ r.style \in Styles
        BY <1>2 DEF Readings, States
    <2>2. t = [r EXCEPT !.state = s]
        BY <1>2 DEF WithStyle
    <2>3. /\ h \in Handles /\ h.encoder = r.state.handle.encoder
          /\ h.private = r.state.handle.private /\ h.aware = r.state.handle.aware
        BY <2>1 DEF Handles
    <2>4. IsOpen(r.state, h.encoder)
        BY <2>3 DEF AllOpen
    <2>. HIDE DEF h
    <2>5. s \in States /\ AllOpen(s) /\ s.handle = h /\ s.rc = r.state.rc
        BY <2>1, <2>3, <2>4, WithHandle
    <2>. HIDE DEF s, t
    <2>6. t \in Readings /\ t.state = s /\ t.final = r.final /\ t.pending = r.pending
        BY <2>2, <2>5, WithState
    <2>. QED BY <2>3, <2>5, <2>6 DEF t, SameEncoder
<1>. QED BY <1>1, <1>2

\* What the end of an option does to the encoder: either it keeps what it had, or it
\* has one whose flags and private data are its own, if nothing failed.
Settled(s, t, failure) ==
    /\ t.handle.aware => s.handle.aware \/ LibraryOf(t.handle.encoder).aware
    /\ ~failure /\ s.handle.private = s.handle.encoder => t.handle.private = t.handle.encoder

LEMMA WithEncoderKeeps ==
    ASSUME path \in Seq(Dirs), NEW r \in Readings, AllOpen(r.state)
    PROVE  /\ WithEncoder(r) \in Readings
           /\ AllOpen(WithEncoder(r).state)
           /\ r.final # 0 => WithEncoder(r).final # 0
           /\ Settled(r.state, WithEncoder(r).state, WithEncoder(r).final # 0)
<1>1. CASE r.pending = <<>>
    BY <1>1 DEF WithEncoder, Settled
<1>2. CASE r.pending # <<>>
    <2>. DEFINE word == r.pending[1]
                s == EncoderInit(r.state, word.name, word.options)
                u == IF s.rc = 0 /\ FilterConflict(s.handle) THEN Returns(s, -1) ELSE s
                v == [r EXCEPT !.state = u]
                t == WithEncoder(r)
    <2>1. r.state \in States /\ word \in EncoderWords
        BY <1>2 DEF Readings, Pendings
    <2>2. t = Note(v)
        BY <1>2 DEF WithEncoder
    <2>3. word.name \in Names /\ word.options \in BOOLEAN
        BY <2>1 DEF EncoderWords
    <2>. HIDE DEF word
    <2>4. /\ s \in States /\ AllOpen(s)
          /\ (s.handle = r.state.handle /\ s.rc = -1) \/ Installed(r.state, s)
        BY <2>1, <2>3, EncoderInitKeeps
    <2>. HIDE DEF s
    <2>5. u \in States /\ AllOpen(u) /\ u.handle = s.handle /\ (u.rc = 0 => s.rc = 0)
        <3>1. -1 \in Answers
            BY DEF Answers
        <3>2. CASE s.rc = 0 /\ FilterConflict(s.handle)
            BY <2>4, <3>1, <3>2, WithResult
        <3>3. CASE ~(s.rc = 0 /\ FilterConflict(s.handle))
            BY <2>4, <3>3
        <3>. QED BY <3>2, <3>3
    <2>. HIDE DEF u
    <2>6. v \in Readings /\ v.state = u /\ v.final = r.final
        BY <2>5, WithState
    <2>. HIDE DEF v
    <2>7. t \in Readings /\ t.state = u /\ (u.rc # 0 \/ r.final # 0 => t.final # 0)
        BY <2>2, <2>6, NoteKeeps
    <2>. HIDE DEF t
    <2>8. Settled(r.state, u, u.rc # 0)
        BY <2>4, <2>5 DEF Settled, Installed
    <2>9. Settled(r.state, t.state, t.final # 0)
        BY <2>7, <2>8 DEF Settled
    <2>. QED BY <2>5, <2>7, <2>9 DEF t
<1>. QED BY <1>1, <1>2

\* After the last word every failure is noted, and an encoder is settled.
LEMMA LastReadKeeps ==
    ASSUME path \in Seq(Dirs), NEW r \in Readings, AllOpen(r.state)
    PROVE  /\ LastRead(r) \in Readings
           /\ AllOpen(LastRead(r).state)
           /\ r.state.rc # 0 \/ r.final # 0 => LastRead(r).final # 0
           /\ Settled(r.state, LastRead(r).state, LastRead(r).final # 0)
<1>. DEFINE a == Note(r)
            b == [a EXCEPT !.state.rc = 0]
            c == WithStyle(b)
            d == WithEncoder(c)
<1>1. LastRead(r) = d
    BY DEF LastRead
<1>2. /\ a \in Readings /\ a.state = r.state
      /\ r.state.rc # 0 \/ r.final # 0 => a.final # 0
    BY NoteKeeps
<1>. HIDE DEF a
<1>3. b = [a EXCEPT !.state = Returns(r.state, 0)]
    BY <1>2 DEF Returns
<1>4. Returns(r.state, 0) \in States /\ AllOpen(Returns(r.state, 0)) /\ SameEncoder(r.state, Returns(r.state, 0))
    BY WithResult DEF Answers, SameEncoder, Readings
<1>. HIDE DEF b
<1>5. b \in Readings /\ AllOpen(b.state) /\ SameEncoder(r.state, b.state) /\ b.final = a.final
    BY <1>2, <1>3, <1>4, WithState
<1>6. c \in Readings /\ AllOpen(c.state) /\ SameEncoder(b.state, c.state) /\ c.final = b.final
    BY <1>5, WithStyleKeeps
<1>. HIDE DEF c
<1>7. /\ d \in Readings /\ AllOpen(d.state)
      /\ c.final # 0 => d.final # 0
      /\ Settled(c.state, d.state, d.final # 0)
    BY <1>6, WithEncoderKeeps
<1>. HIDE DEF d
<1>8. Settled(r.state, d.state, d.final # 0)
    BY <1>5, <1>6, <1>7 DEF Settled, SameEncoder
<1>. QED BY <1>1, <1>2, <1>5, <1>6, <1>7, <1>8

-----------------------------------------------------------------------------
(* The inductive invariant                                                  *)

OptionsTypes ==
    /\ State \in States
    /\ path \in Seq(Dirs)
    /\ args \in {"parsing", "letters", "words", "accepted", "refused"}
    /\ reading \in [rc : Answers, style : Styles \cup {"none"}, pending : Pendings, final : Answers, read : Nat]
    /\ complaints \subseteq {"error", "style", "answer"}
    /\ broken \in BOOLEAN

\* Every encoder that is known or in use is in an open library.
LibrariesOpen == AllOpen(State)

\* The flags of the handle are those of its encoder: this is where a careful
\* caller matters, since flags of earlier encoders stay.
AwareIsOwn == Careful /\ handle.aware => LibraryOf(handle.encoder).aware

\* An error is in a return code until the option is over and refused, or until a
\* handler's answer takes its place.
ErrorsKept ==
    /\ args \notin {"letters", "words"} => reading = NotReading
    /\ Careful /\ "error" \in complaints /\ "answer" \notin complaints =>
          /\ args \notin {"parsing", "accepted"}
          /\ args = "letters" => reading.rc # 0
          /\ args = "words" => reading.rc # 0 \/ reading.final # 0

\* By whatever calls a handle with a filter came to its encoder, it has the flag of an
\* encoder that can be used with one.
FilterGoes == args = "accepted" /\ ~broken /\ handle.filter /\ handle.style = "encoder" => handle.aware

PrivateIsOwn ==
    /\ args \in {"parsing", "letters", "words"} \/ (args = "accepted" /\ ~broken)
    /\ "answer" \notin complaints
    => handle.private = handle.encoder

OptionsInv ==
    /\ OptionsTypes
    /\ LibrariesOpen
    /\ AwareIsOwn
    /\ ErrorsKept
    /\ FilterGoes
    /\ PrivateIsOwn

LEMMA OptionsInvInit == Init => OptionsInv
<1>. SUFFICES ASSUME Init PROVE OptionsInv
    OBVIOUS
<1>. USE DEF Init
<1>1. Fresh \in Handles
    BY DEF Fresh, Handles, Styles
<1>2. State = [handle |-> Fresh, encoders |-> <<>>, opened |-> {}, rc |-> 0]
    BY DEF State
<1>3. State \in States
    BY <1>1, <1>2 DEF States, Answers
<1>4. path \in Seq(Dirs)
    BY DirsAssumption
<1>5. NotReading \in [rc : Answers, style : Styles \cup {"none"}, pending : Pendings, final : Answers, read : Nat]
    BY DEF NotReading, Answers, Pendings
<1>6. OptionsTypes
    BY <1>3, <1>4, <1>5 DEF OptionsTypes
<1>7. LibrariesOpen
    BY <1>2 DEF LibrariesOpen, AllOpen, IsOpen, Fresh
<1>8. AwareIsOwn /\ FilterGoes /\ PrivateIsOwn
    BY DEF AwareIsOwn, FilterGoes, PrivateIsOwn, Fresh
<1>9. ErrorsKept
    BY DEF ErrorsKept
<1>. QED BY <1>6, <1>7, <1>8, <1>9 DEF OptionsInv

\* What the invariant says of what a call works on
LEMMA Now ==
    ASSUME OptionsInv
    PROVE  /\ State \in States
           /\ AllOpen(State)
           /\ State.handle = handle
           /\ State.encoders = encoders
           /\ State.opened = opened
           /\ State.rc = 0
           /\ path \in Seq(Dirs)
BY DEF OptionsInv, OptionsTypes, LibrariesOpen, State

LEMMA BecomesNow ==
    ASSUME NEW s \in States, AllOpen(s), Become(s)
    PROVE  State' \in States /\ LibrariesOpen'
<1>. DEFINE t == [handle |-> s.handle, encoders |-> s.encoders, opened |-> s.opened, rc |-> 0]
<1>1. State' = t
    BY DEF State, Become
<1>2. t \in States
    BY DEF States, Answers
<1>3. AllOpen(t)
    BY DEF AllOpen, IsOpen
<1>. QED BY <1>1, <1>2, <1>3 DEF LibrariesOpen

LEMMA LoopReads ==
    ASSUME OptionsInv
    PROVE  /\ Loop \in Readings
           /\ Loop.state.handle = handle
           /\ AllOpen(Loop.state)
           /\ Loop.state.rc = reading.rc
           /\ Loop.final = reading.final
<1>. DEFINE s == Returns(State, reading.rc)
<1>1. reading.rc \in Answers
    BY DEF OptionsInv, OptionsTypes
<1>2. s \in States /\ AllOpen(s) /\ s.handle = handle /\ s.rc = reading.rc
    BY <1>1, Now, WithResult
<1>. HIDE DEF s
<1>3. Loop = [state |-> s, style |-> reading.style, pending |-> reading.pending, final |-> reading.final]
    BY DEF Loop, s
<1>4. reading.style \in Styles \cup {"none"} /\ reading.pending \in Pendings /\ reading.final \in Answers
    BY DEF OptionsInv, OptionsTypes
<1>5. Loop \in Readings
    BY <1>2, <1>3, <1>4 DEF Readings
<1>. QED BY <1>2, <1>3, <1>5

-----------------------------------------------------------------------------
(* Each action keeps it                                                     *)

\* An action that leaves the handle and the libraries alone
LEMMA KeepsAll ==
    ASSUME OptionsInv, UNCHANGED <<handle, opened>>, encoders' = encoders
    PROVE  State' \in States /\ LibrariesOpen' /\ AwareIsOwn'
<1>1. State' = State
    BY DEF State
<1>. QED BY <1>1 DEF OptionsInv, OptionsTypes, LibrariesOpen, AwareIsOwn, State

\* One that works on the list of encoders only: an encoder that is in use keeps
\* its library.
LEMMA ListKeeps ==
    ASSUME OptionsInv, UNCHANGED <<handle, args, reading, complaints, broken>>, encoders' \in Seq(Nodes),
           opened' \in SUBSET (Dirs \X Names), path' \in Seq(Dirs),
           \A i \in DOMAIN encoders' : IsOpen(State', encoders'[i]),
           IsOpen(State', handle.encoder)
    PROVE  OptionsInv'
<1>1. State' = [handle |-> handle, encoders |-> encoders', opened |-> opened', rc |-> 0]
    BY DEF State
<1>2. handle \in Handles
    BY Now DEF States
<1>3. State' \in States
    BY <1>1, <1>2 DEF States, Answers
<1>4. LibrariesOpen'
    BY <1>1 DEF LibrariesOpen, AllOpen
<1>. QED BY <1>3, <1>4 DEF OptionsInv, OptionsTypes, AwareIsOwn, ErrorsKept, FilterGoes, PrivateIsOwn

LEMMA BeginKeeps ==
    ASSUME OptionsInv, NEW at \in {"letters", "words"}, Begin(at)
    PROVE  OptionsInv'
<1>. USE DEF Begin, Called
<1>1. State' \in States /\ LibrariesOpen' /\ AwareIsOwn'
    BY KeepsAll
<1>2. OptionsTypes'
    BY <1>1 DEF OptionsInv, OptionsTypes
<1>3. ErrorsKept' /\ FilterGoes' /\ PrivateIsOwn'
    BY DEF OptionsInv, ErrorsKept, FilterGoes, PrivateIsOwn
<1>. QED BY <1>1, <1>2, <1>3 DEF OptionsInv

\* Reading goes on with what was read.
LEMMA GoesOnTypes ==
    ASSUME OptionsInv, NEW r \in Readings, AllOpen(r.state), GoesOn(r), ReadsOne, complaints' \subseteq {"error", "style", "answer"}
    PROVE  /\ OptionsTypes'
           /\ LibrariesOpen'
           /\ reading'.rc = r.state.rc
           /\ reading'.final = r.final
<1>1. r.state \in States /\ r.style \in Styles \cup {"none"} /\ r.pending \in Pendings /\ r.final \in Answers
    BY DEF Readings
<1>2. State' \in States /\ LibrariesOpen'
    BY <1>1, BecomesNow DEF GoesOn
<1>3. r.state.rc \in Answers
    BY <1>1 DEF States
<1>4. reading.read + 1 \in Nat
    BY DEF OptionsInv, OptionsTypes
<1>5. reading' \in [rc : Answers, style : Styles \cup {"none"}, pending : Pendings, final : Answers, read : Nat]
    <2>. DEFINE k == reading.read + 1
                rc == r.state.rc
    <2>1. reading' = [rc |-> rc, style |-> r.style, pending |-> r.pending, final |-> r.final, read |-> k]
        BY DEF GoesOn
    <2>2. k \in Nat /\ rc \in Answers
        BY <1>3, <1>4
    <2>. HIDE DEF k, rc
    <2>. QED BY <1>1, <2>1, <2>2
<1>6. OptionsTypes'
    BY <1>2, <1>5 DEF OptionsInv, OptionsTypes, ReadsOne
<1>. QED BY <1>2, <1>6 DEF GoesOn

LEMMA LetterKeeps ==
    ASSUME OptionsInv, NEW letter \in Letters, Letter(letter)
    PROVE  OptionsInv'
<1>. DEFINE s == ReadLetter(Loop.state, letter)
            r == [Loop EXCEPT !.state = s]
<1>1. args = "letters" /\ ReadsOne /\ GoesOn(r)
      /\ complaints' = complaints \cup (IF letter = "bad" THEN {"error"} ELSE {})
    BY DEF Letter
<1>2. /\ Loop \in Readings /\ Loop.state \in States /\ AllOpen(Loop.state)
      /\ Loop.state.handle = handle /\ Loop.state.rc = reading.rc
    BY LoopReads DEF Readings
<1>3. /\ s \in States /\ AllOpen(s) /\ SameEncoder(Loop.state, s)
      /\ reading.rc # 0 \/ letter = "bad" => s.rc # 0
    BY <1>2, ReadLetterKeeps
<1>. HIDE DEF s
<1>4. r \in Readings /\ r.state = s
    BY <1>2, <1>3, WithState
<1>. HIDE DEF r
<1>5. OptionsTypes' /\ LibrariesOpen' /\ reading'.rc = s.rc
    <2>1. complaints' \subseteq {"error", "style", "answer"}
        BY <1>1 DEF OptionsInv, OptionsTypes
    <2>. QED BY <1>1, <1>3, <1>4, <2>1, GoesOnTypes
<1>6. handle' = s.handle /\ args' = args
    BY <1>1, <1>4 DEF GoesOn, Become, ReadsOne
<1>7. AwareIsOwn' /\ PrivateIsOwn' /\ FilterGoes'
    BY <1>1, <1>2, <1>3, <1>6 DEF OptionsInv, AwareIsOwn, PrivateIsOwn, FilterGoes, SameEncoder
<1>8. Careful /\ "error" \in complaints /\ "answer" \notin complaints => reading.rc # 0
    BY <1>1 DEF OptionsInv, ErrorsKept
<1>9. ErrorsKept'
    BY <1>1, <1>3, <1>5, <1>6, <1>8 DEF ErrorsKept
<1>. QED BY <1>5, <1>7, <1>9 DEF OptionsInv

LEMMA WordKeeps ==
    ASSUME OptionsInv, NEW word \in Words, Word(word)
    PROVE  OptionsInv'
<1>. DEFINE r == NoteAndRead(Loop, word)
<1>1. args = "words" /\ ReadsOne /\ GoesOn(r) /\ complaints' = complaints \cup Said(Loop, word)
    BY DEF Word
<1>2. /\ Loop \in Readings /\ AllOpen(Loop.state)
      /\ Loop.state.handle = handle /\ Loop.state.rc = reading.rc /\ Loop.final = reading.final
    BY LoopReads
<1>3. /\ r \in Readings /\ AllOpen(r.state) /\ SameEncoder(Loop.state, r.state)
      /\ reading.rc # 0 \/ reading.final # 0 => r.final # 0
      /\ Wrong(Loop.state.handle, word) => r.state.rc # 0
    BY <1>2, NoteAndReadKeeps
<1>. HIDE DEF r
<1>3a. /\ complaints' \subseteq {"error", "style", "answer"}
       /\ "error" \in complaints' => "error" \in complaints \/ r.state.rc # 0
       /\ "answer" \in complaints' <=> "answer" \in complaints
    BY <1>1, <1>3 DEF Said, OptionsInv, OptionsTypes
<1>4. OptionsTypes' /\ LibrariesOpen' /\ reading'.rc = r.state.rc /\ reading'.final = r.final
    BY <1>1, <1>3, <1>3a, GoesOnTypes
<1>5. handle' = r.state.handle /\ args' = args
    BY <1>1 DEF GoesOn, Become, ReadsOne
<1>6. AwareIsOwn' /\ PrivateIsOwn' /\ FilterGoes'
    BY <1>1, <1>2, <1>3, <1>5, <1>3a DEF OptionsInv, AwareIsOwn, PrivateIsOwn, FilterGoes, SameEncoder
<1>7. Careful /\ "error" \in complaints /\ "answer" \notin complaints =>
          reading.rc # 0 \/ reading.final # 0
    BY <1>1 DEF OptionsInv, ErrorsKept
<1>8. ErrorsKept'
    BY <1>1, <1>3, <1>4, <1>5, <1>7, <1>3a DEF ErrorsKept
<1>. QED BY <1>4, <1>6, <1>8 DEF OptionsInv

\* An option is over: it is refused if it failed, unless a handler's answer is its
\* return code.
LEMMA EndsKeeps ==
    ASSUME OptionsInv, args \in {"letters", "words"}, NEW s \in States, NEW rc \in Answers,
           AllOpen(s), Ends(s, rc),
           Careful /\ s.handle.aware => LibraryOf(s.handle.encoder).aware,
           Careful /\ rc = 0 /\ "error" \in complaints => "answer" \in complaints,
           rc = 0 /\ "answer" \notin complaints => s.handle.private = s.handle.encoder
    PROVE  OptionsInv'
<1>. USE DEF Ends
<1>1. State' \in States /\ LibrariesOpen'
    BY BecomesNow
<1>2. NotReading \in [rc : Answers, style : Styles \cup {"none"}, pending : Pendings, final : Answers, read : Nat]
    BY DEF NotReading, Answers, Pendings
<1>3. handle' = s.handle
    BY DEF Become
<1>4. AwareIsOwn' /\ FilterGoes'
    BY <1>3 DEF AwareIsOwn, FilterGoes
<1>5. complaints \subseteq {"error", "style", "answer"}
    BY DEF OptionsInv, OptionsTypes
<1>6. CASE rc = 0
    <2>1. args' = "parsing" /\ complaints' = complaints
        BY <1>6
    <2>2. OptionsTypes'
        BY <1>1, <1>2, <2>1 DEF OptionsInv, OptionsTypes
    <2>3. ErrorsKept' /\ PrivateIsOwn'
        BY <1>3, <1>6, <2>1 DEF ErrorsKept, PrivateIsOwn
    <2>. QED BY <1>1, <1>4, <2>2, <2>3 DEF OptionsInv
<1>7. CASE rc = -1
    <2>1. args' = "refused" /\ complaints' = complaints \cup {"error"}
        BY <1>7
    <2>2. OptionsTypes'
        BY <1>1, <1>2, <1>5, <2>1 DEF OptionsInv, OptionsTypes
    <2>3. ErrorsKept' /\ PrivateIsOwn'
        BY <2>1 DEF ErrorsKept, PrivateIsOwn
    <2>. QED BY <1>1, <1>4, <2>2, <2>3 DEF OptionsInv
<1>8. CASE rc = 1
    <2>1. args' = "parsing" /\ complaints' = complaints \cup {"answer"}
        BY <1>8
    <2>2. OptionsTypes'
        BY <1>1, <1>2, <1>5, <2>1 DEF OptionsInv, OptionsTypes
    <2>3. ErrorsKept' /\ PrivateIsOwn'
        BY <2>1 DEF ErrorsKept, PrivateIsOwn
    <2>. QED BY <1>1, <1>4, <2>2, <2>3 DEF OptionsInv
<1>. QED BY <1>6, <1>7, <1>8 DEF Answers

LEMMA LettersEndKeeps ==
    ASSUME OptionsInv, LettersEnd
    PROVE  OptionsInv'
<1>1. args = "letters" /\ Ends(State, reading.rc)
    BY DEF LettersEnd
<1>2. State \in States /\ AllOpen(State) /\ State.handle = handle
    BY Now
<1>3. reading.rc \in Answers
    BY DEF OptionsInv, OptionsTypes
<1>4. Careful /\ State.handle.aware => LibraryOf(State.handle.encoder).aware
    BY <1>2 DEF OptionsInv, AwareIsOwn
<1>5. Careful /\ reading.rc = 0 /\ "error" \in complaints => "answer" \in complaints
    BY <1>1 DEF OptionsInv, ErrorsKept
<1>6. "answer" \notin complaints => State.handle.private = State.handle.encoder
    BY <1>1, <1>2 DEF OptionsInv, PrivateIsOwn
<1>. QED BY <1>1, <1>2, <1>3, <1>4, <1>5, <1>6, EndsKeeps

LEMMA WordsFollowKeeps ==
    ASSUME OptionsInv, WordsFollow
    PROVE  OptionsInv'
<1>. USE DEF WordsFollow
<1>1. State' \in States /\ LibrariesOpen' /\ AwareIsOwn'
    BY KeepsAll
<1>2. reading' \in [rc : Answers, style : Styles \cup {"none"}, pending : Pendings, final : Answers, read : Nat]
    BY DEF NotReading, Answers, Pendings
<1>3. OptionsTypes'
    BY <1>1, <1>2 DEF OptionsInv, OptionsTypes
<1>4. Careful /\ "error" \in complaints => "answer" \in complaints
    BY DEF OptionsInv, ErrorsKept
<1>5. ErrorsKept' /\ FilterGoes' /\ PrivateIsOwn'
    BY <1>4 DEF OptionsInv, ErrorsKept, FilterGoes, PrivateIsOwn
<1>. QED BY <1>1, <1>3, <1>5 DEF OptionsInv

LEMMA WordsEndKeeps ==
    ASSUME OptionsInv, WordsEnd
    PROVE  OptionsInv'
<1>. DEFINE end == LastRead(Loop)
            s == end.state
<1>1. /\ args = "words" /\ Ends(s, end.final)
      /\ Careful /\ handle.aware => s.handle.encoder = handle.encoder
    BY DEF WordsEnd
<1>2. /\ Loop \in Readings /\ AllOpen(Loop.state)
      /\ Loop.state.handle = handle /\ Loop.state.rc = reading.rc /\ Loop.final = reading.final
    BY LoopReads
<1>3. /\ end \in Readings /\ AllOpen(s)
      /\ reading.rc # 0 \/ reading.final # 0 => end.final # 0
      /\ Settled(Loop.state, s, end.final # 0)
    BY <1>2, Now, LastReadKeeps
<1>4. s \in States /\ end.final \in Answers
    BY <1>3 DEF Readings
<1>. HIDE DEF end
<1>5. Careful /\ s.handle.aware => LibraryOf(s.handle.encoder).aware
    BY <1>1, <1>2, <1>3 DEF Settled, OptionsInv, AwareIsOwn
<1>6. Careful /\ end.final = 0 /\ "error" \in complaints => "answer" \in complaints
    BY <1>1, <1>3 DEF OptionsInv, ErrorsKept
<1>7. end.final = 0 /\ "answer" \notin complaints => s.handle.private = s.handle.encoder
    BY <1>1, <1>2, <1>3 DEF Settled, OptionsInv, PrivateIsOwn
<1>. QED BY <1>1, <1>3, <1>4, <1>5, <1>6, <1>7, EndsKeeps

LEMMA EndKeeps ==
    ASSUME OptionsInv, End
    PROVE  OptionsInv'
<1>. USE DEF End
<1>1. State' \in States /\ LibrariesOpen' /\ AwareIsOwn'
    BY KeepsAll
<1>2. OptionsTypes'
    BY <1>1 DEF OptionsInv, OptionsTypes
<1>3. ErrorsKept' /\ FilterGoes' /\ PrivateIsOwn'
    BY DEF OptionsInv, ErrorsKept, FilterGoes, PrivateIsOwn, FilterConflict
<1>. QED BY <1>1, <1>2, <1>3 DEF OptionsInv

\* A call of the program: what it fails at, it is told.
LEMMA CallKeeps ==
    ASSUME OptionsInv, NEW s \in States, AllOpen(s), Call(s),
           s.handle.aware => handle.aware \/ LibraryOf(s.handle.encoder).aware,
           s.rc = 0 /\ handle.private = handle.encoder => s.handle.private = s.handle.encoder,
           s.rc = 0 /\ s.handle.filter /\ s.handle.style = "encoder" => s.handle.aware
    PROVE  OptionsInv'
<1>. USE DEF Call
<1>1. State' \in States /\ LibrariesOpen'
    BY BecomesNow
<1>2. handle' = s.handle /\ broken' \in BOOLEAN /\ (~broken' => ~broken /\ s.rc = 0)
    BY DEF Become, OptionsInv, OptionsTypes
<1>3. OptionsTypes'
    BY <1>1, <1>2 DEF OptionsInv, OptionsTypes
<1>4. AwareIsOwn'
    BY <1>2 DEF OptionsInv, AwareIsOwn
<1>5. ErrorsKept'
    BY DEF OptionsInv, ErrorsKept
<1>6. FilterGoes' /\ PrivateIsOwn'
    BY <1>2 DEF OptionsInv, FilterGoes, PrivateIsOwn
<1>. QED BY <1>1, <1>3, <1>4, <1>5, <1>6 DEF OptionsInv

LEMMA AddFilterCallKeeps ==
    ASSUME OptionsInv, NEW good \in BOOLEAN, AddFilterCall(good)
    PROVE  OptionsInv'
<1>. DEFINE s == AddFilter(State, good)
<1>1. State \in States /\ AllOpen(State) /\ State.handle = handle
    BY Now
<1>2. /\ s \in States /\ AllOpen(s) /\ SameEncoder(State, s)
      /\ s.rc = 0 /\ s.handle.style = "encoder" => s.handle.aware
    BY <1>1, AddFilterKeeps
<1>3. Call(s)
    BY DEF AddFilterCall
<1>. HIDE DEF s
<1>. QED BY <1>1, <1>2, <1>3, CallKeeps DEF SameEncoder

LEMMA SetStyleNameKeeps ==
    ASSUME OptionsInv, NEW name \in Names, SetStyleName(name)
    PROVE  OptionsInv'
<1>. DEFINE s == EncoderInit(State, name, FALSE)
            h == [s.handle EXCEPT !.style = "none"]
            t == IF s.rc = 0 THEN [s EXCEPT !.handle.style = "none"] ELSE s
<1>1. State \in States /\ AllOpen(State) /\ State.handle = handle /\ path \in Seq(Dirs)
    BY Now
<1>2. /\ s \in States /\ AllOpen(s)
      /\ (s.handle = handle /\ s.rc = -1) \/ Installed(State, s)
    BY <1>1, EncoderInitKeeps
<1>3. Call(t)
    BY DEF SetStyleName
<1>. HIDE DEF s
<1>4. CASE s.rc = 0
    <2>1. t = [s EXCEPT !.handle = h]
        BY <1>4
    <2>2. /\ h \in Handles /\ h.encoder = s.handle.encoder /\ h.private = s.handle.private
          /\ h.aware = s.handle.aware /\ h.style = "none"
        BY <1>2 DEF States, Handles
    <2>3. IsOpen(s, h.encoder)
        BY <1>2, <2>2 DEF AllOpen
    <2>. HIDE DEF h, t
    <2>4. t \in States /\ AllOpen(t) /\ t.handle = h /\ t.rc = s.rc
        BY <1>2, <2>1, <2>2, <2>3, WithHandle
    <2>5. Installed(State, s)
        BY <1>2, <1>4
    <2>. QED BY <1>1, <1>3, <1>4, <2>2, <2>4, <2>5, CallKeeps DEF Installed
<1>5. CASE s.rc # 0
    <2>1. t = s
        BY <1>5
    <2>. HIDE DEF t
    <2>. QED BY <1>1, <1>2, <1>3, <1>5, <2>1, CallKeeps DEF Installed
<1>. QED BY <1>4, <1>5

\* What a list keeps of its elements when one is added or taken away
LEMMA RemoveKeeps ==
    ASSUME NEW S, NEW s \in Seq(S), NEW i \in DOMAIN s
    PROVE  /\ RemoveAt(s, i) \in Seq(S)
           /\ \A j \in DOMAIN RemoveAt(s, i) : \E k \in DOMAIN s : RemoveAt(s, i)[j] = s[k]
<1>. DEFINE a == SubSeq(s, 1, i - 1)
            b == SubSeq(s, i + 1, Len(s))
<1>1. i \in 1..Len(s)
    OBVIOUS
<1>2. a \in Seq(S) /\ Len(a) = i - 1 /\ \A j \in 1..(i - 1) : a[j] = s[j]
    BY <1>1, SubSeqProperties
<1>3. b \in Seq(S) /\ Len(b) = Len(s) - i /\ \A j \in 1..(Len(s) - i) : b[j] = s[i + j]
    BY <1>1, SubSeqProperties
<1>. HIDE DEF a, b
<1>4. a \o b \in Seq(S) /\ Len(a \o b) = Len(s) - 1
    BY <1>1, <1>2, <1>3, ConcatProperties
<1>5. ASSUME NEW j \in 1..(Len(s) - 1) PROVE \E k \in DOMAIN s : (a \o b)[j] = s[k]
    <2>1. CASE j <= i - 1
        <3>1. (a \o b)[j] = s[j]
            BY <1>1, <1>2, <1>3, <1>5, <2>1, ConcatProperties
        <3>. QED BY <1>1, <1>5, <3>1
    <2>2. CASE j > i - 1
        <3>1. (a \o b)[j] = b[j - (i - 1)]
            <4>1. j \in 1..(Len(a) + Len(b)) /\ ~(j <= Len(a))
                BY <1>1, <1>2, <1>3, <1>5, <2>2
            <4>2. (a \o b)[j] = b[j - Len(a)]
                BY <1>2, <1>3, <4>1, ConcatProperties
            <4>. QED BY <1>2, <4>2
        <3>2. b[j - (i - 1)] = s[j + 1]
            BY <1>1, <1>3, <1>5, <2>2
        <3>. QED BY <1>1, <1>5, <3>1, <3>2
    <2>3. j <= i - 1 \/ j > i - 1
        BY <1>1, <1>5
    <2>. QED BY <2>1, <2>2, <2>3, Zenon
<1>6. RemoveAt(s, i) = a \o b
    BY DEF RemoveAt, a, b
<1>7. DOMAIN (a \o b) = 1..(Len(s) - 1)
    BY <1>4
<1>. QED BY <1>4, <1>5, <1>6, <1>7, Zenon

LEMMA RegisterKeeps ==
    ASSUME OptionsInv, NEW name \in Names, Register(name)
    PROVE  OptionsInv'
<1>. USE DEF Register, Called
<1>1. /\ State.opened = opened /\ State.encoders = encoders /\ State.handle = handle
      /\ opened \in SUBSET (Dirs \X Names) /\ encoders \in Seq(Nodes)
      /\ State'.opened = opened
    BY Now DEF States, State
<1>2. AllOpen(State) /\ path \in Seq(Dirs)
    BY Now
<1>3. IsOpen(State', handle.encoder)
    BY <1>1, <1>2 DEF AllOpen, IsOpen
<1>4. CASE encoders' = encoders
    <2>1. \A i \in DOMAIN encoders' : IsOpen(State', encoders'[i])
        BY <1>1, <1>2, <1>4 DEF AllOpen, IsOpen
    <2>. QED BY <1>1, <1>2, <1>3, <1>4, <2>1, ListKeeps
<1>5. CASE encoders' = Append(encoders, Node(name, Program))
    <2>. DEFINE n == Node(name, Program)
    <2>1. n \in Nodes /\ n.from = Program
        BY DEF Nodes, Node
    <2>. HIDE DEF n
    <2>2. encoders' \in Seq(Nodes)
        BY <1>1, <1>5, <2>1 DEF n
    <2>3. ASSUME NEW i \in DOMAIN encoders' PROVE IsOpen(State', encoders'[i])
        <3>1. CASE i \in DOMAIN encoders
            <4>1. encoders'[i] = encoders[i]
                BY <1>1, <1>5, <2>1, <3>1 DEF n
            <4>. QED BY <1>1, <1>2, <3>1, <4>1 DEF AllOpen, IsOpen
        <3>2. CASE i = Len(encoders) + 1
            <4>1. encoders'[i] = n
                BY <1>1, <1>5, <2>1, <3>2 DEF n
            <4>. QED BY <2>1, <4>1 DEF IsOpen
        <3>. QED BY <1>1, <1>5, <2>1, <3>1, <3>2 DEF n
    <2>. QED BY <1>1, <1>2, <1>3, <2>2, <2>3, ListKeeps
<1>. QED BY <1>4, <1>5

\* The library of an encoder that is taken off the list stays open.
LEMMA UnregisterKeeps ==
    ASSUME OptionsInv, NEW name \in Names, Unregister(name)
    PROVE  OptionsInv'
<1>. USE DEF Unregister, Called
<1>1. /\ State.opened = opened /\ State.encoders = encoders /\ State.handle = handle
      /\ opened \in SUBSET (Dirs \X Names) /\ encoders \in Seq(Nodes)
      /\ State'.opened = opened
    BY Now DEF States, State
<1>2. AllOpen(State) /\ path \in Seq(Dirs) /\ State \in States
    BY Now
<1>3. IsOpen(State', handle.encoder)
    BY <1>1, <1>2 DEF AllOpen, IsOpen
<1>4. encoders' \in Seq(Nodes) /\ \A j \in DOMAIN encoders' : \E k \in DOMAIN encoders : encoders'[j] = encoders[k]
    <2>1. CASE Find(State, name) = {}
        <3>1. encoders' = encoders
            BY <2>1
        <3>. QED BY <1>1, <3>1
    <2>2. CASE Find(State, name) # {}
        <3>1. First(State, name) \in DOMAIN encoders
            BY <1>1, <1>2, <2>2, FirstFound
        <3>2. encoders' = RemoveAt(encoders, First(State, name))
            BY <2>2
        <3>. QED BY <1>1, <3>1, <3>2, RemoveKeeps
    <2>. QED BY <2>1, <2>2
<1>5. ASSUME NEW j \in DOMAIN encoders' PROVE IsOpen(State', encoders'[j])
    <2>1. PICK k \in DOMAIN encoders : encoders'[j] = encoders[k]
        BY <1>4
    <2>. QED BY <1>1, <1>2, <2>1 DEF AllOpen, IsOpen
<1>. QED BY <1>1, <1>2, <1>3, <1>4, <1>5, ListKeeps

LEMMA PathAddKeeps ==
    ASSUME OptionsInv, NEW dir \in Dirs, PathAdd(dir)
    PROVE  OptionsInv'
<1>. USE DEF PathAdd, Called
<1>1. State' \in States /\ LibrariesOpen' /\ AwareIsOwn'
    BY KeepsAll
<1>2. path' \in Seq(Dirs)
    BY Now
<1>3. OptionsTypes'
    BY <1>1, <1>2 DEF OptionsInv, OptionsTypes
<1>. QED BY <1>1, <1>3 DEF OptionsInv, ErrorsKept, FilterGoes, PrivateIsOwn

\* The libraries of the list are closed; a careful caller does that while no handle
\* has an encoder of theirs.
LEMMA CleanKeeps ==
    ASSUME OptionsInv, Clean
    PROVE  OptionsInv'
<1>. USE DEF Clean, Called
<1>1. opened \in SUBSET (Dirs \X Names)
    BY Now DEF States
<1>2. opened' \in SUBSET (Dirs \X Names) /\ encoders' \in Seq(Nodes) /\ path' \in Seq(Dirs)
    BY <1>1
<1>3. IsOpen(State', handle.encoder)
    BY DEF UsesLibrary, IsOpen
<1>4. \A i \in DOMAIN encoders' : IsOpen(State', encoders'[i])
    OBVIOUS
<1>. QED BY <1>2, <1>3, <1>4, ListKeeps

LEMMA OptionsInvNext ==
    ASSUME OptionsInv, [Next]_vars
    PROVE  OptionsInv'
<1>1. CASE Begin("letters") \/ Begin("words")
    BY <1>1, BeginKeeps
<1>2. CASE \E letter \in Letters : Letter(letter)
    BY <1>2, LetterKeeps
<1>3. CASE LettersEnd
    BY <1>3, LettersEndKeeps
<1>4. CASE WordsFollow
    BY <1>4, WordsFollowKeeps
<1>5. CASE \E word \in Words : Word(word)
    BY <1>5, WordKeeps
<1>6. CASE WordsEnd
    BY <1>6, WordsEndKeeps
<1>7. CASE End
    BY <1>7, EndKeeps
<1>8. CASE \E name \in Names : Register(name) \/ Unregister(name)
    BY <1>8, RegisterKeeps, UnregisterKeeps
<1>9. CASE \E dir \in Dirs : PathAdd(dir)
    BY <1>9, PathAddKeeps
<1>10. CASE Clean
    BY <1>10, CleanKeeps
<1>11. CASE \E good \in BOOLEAN : AddFilterCall(good)
    BY <1>11, AddFilterCallKeeps
<1>12. CASE \E name \in Names : SetStyleName(name)
    BY <1>12, SetStyleNameKeeps
<1>13. CASE UNCHANGED vars
    BY <1>13 DEF vars, OptionsInv, OptionsTypes, State, LibrariesOpen, AllOpen, IsOpen, AwareIsOwn,
                 ErrorsKept, FilterGoes, PrivateIsOwn
<1>. QED BY <1>1, <1>2, <1>3, <1>4, <1>5, <1>6, <1>7, <1>8, <1>9, <1>10, <1>11, <1>12, <1>13 DEF Next

LEMMA OptionsInvariant == Spec => []OptionsInv
<1>1. Init => OptionsInv
    BY OptionsInvInit
<1>2. OptionsInv /\ [Next]_vars => OptionsInv'
    BY OptionsInvNext
<1>. QED BY <1>1, <1>2, PTL DEF Spec

-----------------------------------------------------------------------------
(* The words of a string in another order                                   *)

\* What the option returns if this was its last word
Outcome(r) == IF r.state.rc # 0 THEN r.state.rc ELSE r.final

FilterOn(h) == [h EXCEPT !.filter = TRUE]

HandleAfter(h, word) == IF IsFilter(word) /\ ~Refuses(h) THEN FilterOn(h) ELSE h

\* What one word adds to what the others say
ReadsAs(r, word, t) ==
    /\ t.style = IF word.word = "style" /\ r.style = "none" THEN word.style ELSE r.style
    /\ t.pending = IF word.word = "encoder" THEN <<word>> ELSE r.pending
    /\ t.state.encoders = r.state.encoders
    /\ t.state.opened = r.state.opened
    /\ t.state.handle = HandleAfter(r.state.handle, word)
    /\ Outcome(t) = IF Wrong(r.state.handle, word) THEN -1 ELSE Outcome(r)

\* Two readings that may not agree about the last return code, but do when the end
\* of the string has noted it.
Alike(r, q) ==
    /\ r.style = q.style
    /\ r.pending = q.pending
    /\ r.state.encoders = q.state.encoders
    /\ r.state.opened = q.state.opened
    /\ r.state.handle = q.state.handle
    /\ Outcome(r) = Outcome(q)

LEMMA FilterReadsAs ==
    ASSUME NEW s \in States, NEW good \in BOOLEAN
    PROVE  /\ AddFilter(s, good).encoders = s.encoders
           /\ AddFilter(s, good).opened = s.opened
           /\ AddFilter(s, good).handle = IF Refuses(s.handle) THEN s.handle ELSE FilterOn(s.handle)
           /\ AddFilter(s, good).rc = IF ~good \/ Refuses(s.handle) THEN -1 ELSE 0
<1>. DEFINE h == FilterOn(s.handle)
            rc == IF good THEN 0 ELSE -1
<1>1. CASE Refuses(s.handle)
    <2>1. AddFilter(s, good) = Returns(s, -1) /\ -1 \in Answers
        BY <1>1 DEF AddFilter, Refuses, Answers
    <2>. QED BY <1>1, <2>1, WithResult
<1>2. CASE ~Refuses(s.handle)
    <2>1. AddFilter(s, good) = [s EXCEPT !.handle.filter = TRUE, !.rc = rc]
        BY <1>2 DEF AddFilter, Refuses
    <2>2. AddFilter(s, good) = [[s EXCEPT !.handle = h] EXCEPT !.rc = rc]
        BY <2>1 DEF States, FilterOn
    <2>3. h \in Handles
        BY DEF States, Handles, FilterOn
    <2>4. rc \in Answers /\ (rc = IF ~good THEN -1 ELSE 0)
        BY DEF Answers
    <2>. HIDE DEF h, rc
    <2>. DEFINE u == [s EXCEPT !.handle = h]
    <2>5. AddFilter(s, good) = Returns(u, rc)
        BY <2>2 DEF Returns
    <2>6. u \in States /\ u.handle = h /\ u.encoders = s.encoders /\ u.opened = s.opened
        BY <2>3, WithHandle
    <2>. HIDE DEF u
    <2>7. /\ AddFilter(s, good).handle = h /\ AddFilter(s, good).rc = rc
          /\ AddFilter(s, good).encoders = s.encoders /\ AddFilter(s, good).opened = s.opened
        BY <2>4, <2>5, <2>6, WithResult
    <2>. QED BY <1>2, <2>4, <2>7 DEF h
<1>. QED BY <1>1, <1>2

LEMMA WordReadsAs ==
    ASSUME NEW r \in Readings, NEW word \in Words
    PROVE  ReadsAs(r, word, NoteAndRead(r, word))
<1>. DEFINE n == Note(r)
            t == NoteAndRead(r, word)
<1>1. t = ReadWord(n, word)
    BY DEF NoteAndRead
<1>2. /\ n \in Readings /\ n.state = r.state /\ n.style = r.style /\ n.pending = r.pending
      /\ n.final = Outcome(r)
    <2>1. n.final = Outcome(r)
        BY DEF Note, Outcome, Readings
    <2>. QED BY <2>1, NoteKeeps
<1>3. Outcome(n) = Outcome(r)
    BY <1>2 DEF Outcome
<1>. SUFFICES ReadsAs(r, word, t)
    OBVIOUS
<1>. HIDE DEF n, t
<1>4. n.state \in States /\ -1 \in Answers /\ 0 \in Answers
    BY <1>2 DEF Readings, Answers
<1>. USE DEF IsFilter
<1>5. CASE word.word = "style"
    <2>1. t = IF n.style = "none" THEN [n EXCEPT !.style = word.style] ELSE n
        BY <1>1, <1>5 DEF ReadWord
    <2>2. ~Wrong(n.state.handle, word)
        BY <1>5 DEF Wrong
    <2>3. /\ t.style = IF n.style = "none" THEN word.style ELSE n.style
          /\ t.pending = n.pending /\ t.state = n.state /\ t.final = n.final
        BY <1>2, <2>1 DEF Readings
    <2>. QED BY <1>2, <1>3, <1>5, <2>2, <2>3 DEF ReadsAs, HandleAfter, Outcome
<1>6. CASE word.word = "encoder"
    <2>. DEFINE p == <<word>>
    <2>1. t = [n EXCEPT !.pending = p]
        BY <1>1, <1>6 DEF ReadWord, ReadEncoder
    <2>2. ~Wrong(n.state.handle, word)
        BY <1>6 DEF Wrong
    <2>. HIDE DEF p
    <2>3. t.pending = p /\ t.style = n.style /\ t.state = n.state /\ t.final = n.final
        BY <1>2, <2>1 DEF Readings
    <2>. QED BY <1>2, <1>3, <1>6, <2>2, <2>3 DEF ReadsAs, HandleAfter, Outcome, p
<1>7. CASE word.word = "filter"
    <2>. DEFINE s == AddFilter(n.state, word.good)
    <2>1. t = [n EXCEPT !.state = s]
        BY <1>1, <1>7 DEF ReadWord
    <2>2. word.good \in BOOLEAN /\ (Wrong(n.state.handle, word) <=> ~word.good \/ Refuses(n.state.handle))
        BY <1>7 DEF Words, Wrong
    <2>3. /\ s.encoders = n.state.encoders /\ s.opened = n.state.opened
          /\ s.handle = HandleAfter(n.state.handle, word)
          /\ s.rc = IF Wrong(n.state.handle, word) THEN -1 ELSE 0
        BY <1>4, <1>7, <2>2, FilterReadsAs DEF HandleAfter
    <2>. HIDE DEF s
    <2>4. t.state = s /\ t.style = n.style /\ t.pending = n.pending /\ t.final = n.final
        BY <1>2, <2>1 DEF Readings
    <2>. QED BY <1>2, <1>3, <1>7, <2>3, <2>4 DEF ReadsAs, Outcome
<1>8. CASE word.word = "map"
    <2>. DEFINE rc == IF word.good THEN 0 ELSE -1
                s == Returns(n.state, rc)
    <2>1. t = [n EXCEPT !.state.rc = rc]
        BY <1>1, <1>8 DEF ReadWord
    <2>2. t = [n EXCEPT !.state = s]
        BY <2>1 DEF Returns
    <2>3. rc \in Answers /\ (rc = IF Wrong(n.state.handle, word) THEN -1 ELSE 0)
        BY <1>8 DEF Wrong, Answers
    <2>. HIDE DEF rc
    <2>4. s.handle = n.state.handle /\ s.encoders = n.state.encoders /\ s.opened = n.state.opened /\ s.rc = rc
        BY <1>4, <2>3, WithResult
    <2>. HIDE DEF s
    <2>5. t.state = s /\ t.style = n.style /\ t.pending = n.pending /\ t.final = n.final
        BY <1>2, <2>2 DEF Readings
    <2>. QED BY <1>2, <1>3, <1>8, <2>3, <2>4, <2>5 DEF ReadsAs, HandleAfter, Outcome
<1>9. CASE word.word = "bad"
    <2>. DEFINE s == Returns(n.state, -1)
    <2>1. t = [n EXCEPT !.state = s]
        BY <1>1, <1>9 DEF ReadWord, Returns
    <2>2. s.handle = n.state.handle /\ s.encoders = n.state.encoders /\ s.opened = n.state.opened /\ s.rc = -1
        BY <1>4, WithResult
    <2>3. Wrong(n.state.handle, word)
        BY <1>9 DEF Wrong
    <2>. HIDE DEF s
    <2>4. t.state = s /\ t.style = n.style /\ t.pending = n.pending /\ t.final = n.final
        BY <1>2, <2>1 DEF Readings
    <2>. QED BY <1>2, <1>3, <1>9, <2>2, <2>3, <2>4 DEF ReadsAs, HandleAfter, Outcome
<1>10. CASE word.word = "flag"
    <2>1. t = n
        BY <1>1, <1>10 DEF ReadWord
    <2>2. ~Wrong(n.state.handle, word)
        BY <1>10 DEF Wrong
    <2>. QED BY <1>2, <1>3, <1>10, <2>1, <2>2 DEF ReadsAs, HandleAfter
<1>11. word.word \in {"style", "encoder", "filter", "map", "flag", "bad"}
    BY DEF Words
<1>. QED BY <1>5, <1>6, <1>7, <1>8, <1>9, <1>10, <1>11

LEMMA AlikeStays ==
    ASSUME NEW r \in Readings, NEW q \in Readings, Alike(r, q), NEW word \in Words
    PROVE  Alike(NoteAndRead(r, word), NoteAndRead(q, word))
<1>1. ReadsAs(r, word, NoteAndRead(r, word)) /\ ReadsAs(q, word, NoteAndRead(q, word))
    BY WordReadsAs
<1>. QED BY <1>1 DEF ReadsAs, Alike

\* A filter and a word that is none may change places: the one touches the handle's
\* note of filters, the other does not, and whether a filter is refused depends on
\* the handle as it was before the string.
LEMMA WordsCommute ==
    ASSUME NEW r \in Readings, AllOpen(r.state),
           NEW filter \in Words, IsFilter(filter), NEW word \in Words, ~IsFilter(word)
    PROVE  Alike(NoteAndRead(NoteAndRead(r, filter), word), NoteAndRead(NoteAndRead(r, word), filter))
<1>. DEFINE a == NoteAndRead(r, filter)
            b == NoteAndRead(r, word)
            c == NoteAndRead(a, word)
            d == NoteAndRead(b, filter)
<1>1. a \in Readings /\ b \in Readings
    BY NoteAndReadKeeps
<1>2. ReadsAs(r, filter, a) /\ ReadsAs(r, word, b)
    BY WordReadsAs
<1>. HIDE DEF a, b
<1>3. ReadsAs(a, word, c) /\ ReadsAs(b, filter, d)
    BY <1>1, WordReadsAs
<1>. HIDE DEF c, d
<1>4. filter.word # "style" /\ filter.word # "encoder"
    BY DEF IsFilter
<1>5. a.state.handle = HandleAfter(r.state.handle, filter) /\ b.state.handle = r.state.handle
    BY <1>2 DEF ReadsAs, HandleAfter
<1>6. c.state.handle = a.state.handle /\ d.state.handle = a.state.handle
    BY <1>3, <1>5 DEF ReadsAs, HandleAfter
<1>7. c.style = d.style /\ c.pending = d.pending
    BY <1>2, <1>3, <1>4 DEF ReadsAs
<1>8. c.state.encoders = d.state.encoders /\ c.state.opened = d.state.opened
    BY <1>2, <1>3 DEF ReadsAs
<1>9. Outcome(c) = Outcome(d)
    <2>1. Wrong(a.state.handle, word) <=> Wrong(r.state.handle, word)
        BY DEF Wrong
    <2>2. Wrong(b.state.handle, filter) <=> Wrong(r.state.handle, filter)
        BY <1>5
    <2>. QED BY <1>2, <1>3, <2>1, <2>2 DEF ReadsAs
<1>. QED BY <1>6, <1>7, <1>8, <1>9 DEF Alike, c, d, a, b

\* At the end of the string they are the same.
LEMMA AlikeEnds ==
    ASSUME NEW r \in Readings, NEW q \in Readings, Alike(r, q)
    PROVE  LastRead(r) = LastRead(q)
<1>. DEFINE a == Note(r)
            b == Note(q)
            s == Returns(a.state, 0)
            t == Returns(b.state, 0)
<1>1. /\ a \in Readings /\ a.state = r.state /\ a.style = r.style /\ a.pending = r.pending
      /\ b \in Readings /\ b.state = q.state /\ b.style = q.style /\ b.pending = q.pending
    BY NoteKeeps
<1>2. a.final = b.final
    <2>1. a.final = Outcome(r) /\ b.final = Outcome(q)
        BY DEF Note, Outcome, Readings
    <2>. QED BY <2>1 DEF Alike
<1>. HIDE DEF a, b
<1>3. s = t
    <2>1. a.state \in States /\ b.state \in States /\ 0 \in Answers
        BY <1>1 DEF Readings, Answers
    <2>2. /\ s \in States /\ s.handle = a.state.handle /\ s.encoders = a.state.encoders
          /\ s.opened = a.state.opened /\ s.rc = 0
          /\ t \in States /\ t.handle = b.state.handle /\ t.encoders = b.state.encoders
          /\ t.opened = b.state.opened /\ t.rc = 0
        BY <2>1, WithResult
    <2>. HIDE DEF s, t
    <2>. QED BY <1>1, <2>2 DEF States, Alike
<1>4. [a EXCEPT !.state.rc = 0] = [a EXCEPT !.state = s] /\ [b EXCEPT !.state.rc = 0] = [b EXCEPT !.state = t]
    BY DEF Returns
<1>. HIDE DEF s, t
<1>5. [a EXCEPT !.state = s] = [b EXCEPT !.state = t]
    BY <1>1, <1>2, <1>3 DEF Readings, Alike
<1>. QED BY <1>4, <1>5 DEF LastRead, a, b

\* The loops of ReadWords and Sorted end, by the least number of turns for which
\* they would not.
ReadTurns(f, r, words, n) ==
    [i \in 0..n |-> IF i = 0 THEN r ELSE NoteAndRead(f[i - 1], words[i])]

LEMMA ReadTurnsExist ==
    ASSUME NEW r, NEW words, NEW last \in Nat
    PROVE  \E f : f = ReadTurns(f, r, words, last)
<1>. USE DEF ReadTurns
<1>. DEFINE Turns(f, n) == f = ReadTurns(f, r, words, n)
            T == {n \in Nat : ~\E f : Turns(f, n)}
<1>. SUFFICES ASSUME T # {} PROVE FALSE
    OBVIOUS
<1>1. PICK n \in T : \A m \in T : n <= m
    <2>1. T \subseteq Nat
        OBVIOUS
    <2>. HIDE DEF T
    <2>. QED BY <2>1, LeastNatural
<1>2. CASE n = 0
    <2>1. Turns([i \in 0..0 |-> r], 0)
        OBVIOUS
    <2>. HIDE DEF Turns
    <2>. QED BY <1>1, <1>2, <2>1
<1>3. CASE n # 0
    <2>1. n \in Nat /\ n - 1 \in Nat /\ n - 1 \notin T
        BY <1>1, <1>3
    <2>2. PICK f : Turns(f, n - 1)
        <3>. HIDE DEF Turns
        <3>. QED BY <2>1
    <2>. DEFINE next == NoteAndRead(f[n - 1], words[n])
                more == [i \in 0..n |-> IF i = n THEN next ELSE f[i]]
    <2>3. \A i \in 0..(n - 1) : f[i] = IF i = 0 THEN r ELSE NoteAndRead(f[i - 1], words[i])
        BY <2>2, Zenon
    <2>4. ASSUME NEW i \in 0..n
          PROVE  more[i] = IF i = 0 THEN r ELSE NoteAndRead(more[i - 1], words[i])
        <3>1. CASE i = n
            <4>1. more[i] = NoteAndRead(f[i - 1], words[i])
                BY <3>1
            <4>2. more[i - 1] = f[i - 1]
                BY <2>1, <3>1
            <4>. HIDE DEF more
            <4>. QED BY <1>3, <3>1, <4>1, <4>2
        <3>2. CASE i # n
            <4>1. i \in 0..(n - 1) /\ more[i] = f[i]
                BY <2>1, <3>2
            <4>2. i # 0 => more[i - 1] = f[i - 1]
                BY <2>1, <3>2
            <4>. HIDE DEF more
            <4>. QED BY <2>3, <4>1, <4>2
        <3>. QED BY <3>1, <3>2
    <2>5. more = [i \in 0..n |-> more[i]]
        BY Zenon
    <2>. HIDE DEF more
    <2>6. Turns(more, n)
        BY <2>4, <2>5, Zenon
    <2>. HIDE DEF Turns
    <2>. QED BY <1>1, <2>6
<1>. QED BY <1>2, <1>3

\* The turns that ReadWords takes
Taken(r, words) ==
    LET read[i \in 0..Len(words)] ==
            IF i = 0 THEN r ELSE NoteAndRead(read[i - 1], words[i])
    IN  read

LEMMA TakenTurns ==
    ASSUME NEW r, NEW words, Len(words) \in Nat
    PROVE  /\ ReadWords(r, words) = Taken(r, words)[Len(words)]
           /\ \A i \in 0..Len(words) :
                 Taken(r, words)[i] =
                     IF i = 0 THEN r ELSE NoteAndRead(Taken(r, words)[i - 1], words[i])
<1>. DEFINE turns(f) == [i \in 0..Len(words) |->
                            IF i = 0 THEN r ELSE NoteAndRead(f[i - 1], words[i])]
            read == CHOOSE f : f = turns(f)
<1>1. Taken(r, words) = read /\ ReadWords(r, words) = read[Len(words)]
    BY DEF Taken, ReadWords
<1>2. read = turns(read)
    <2>1. PICK g : g = ReadTurns(g, r, words, Len(words))
        BY ReadTurnsExist
    <2>2. g = turns(g)
        BY <2>1, Zenon DEF ReadTurns
    <2>. HIDE DEF turns
    <2>. QED BY <2>2
<1>. HIDE DEF read
<1>3. \A i \in 0..Len(words) : read[i] = IF i = 0 THEN r ELSE NoteAndRead(read[i - 1], words[i])
    BY <1>2, Zenon
<1>. HIDE DEF turns
<1>. QED BY <1>1, <1>3

LEMMA ReadNone ==
    ASSUME NEW r
    PROVE  ReadWords(r, <<>>) = r
<1>1. Len(<<>>) = 0 /\ 0 \in Nat
    OBVIOUS
<1>. QED BY <1>1, TakenTurns

LEMMA ReadOneMore ==
    ASSUME NEW r, NEW words \in Seq(Words), NEW word \in Words
    PROVE  ReadWords(r, Append(words, word)) = NoteAndRead(ReadWords(r, words), word)
<1>. DEFINE n == Len(words)
            more == Append(words, word)
            f == Taken(r, words)
            g == Taken(r, more)
            T == {i \in 0..n : g[i] # f[i]}
<1>1. n \in Nat /\ Len(more) = n + 1 /\ more[n + 1] = word /\ \A i \in 1..n : more[i] = words[i]
    OBVIOUS
<1>2. /\ ReadWords(r, words) = f[n]
      /\ \A i \in 0..n : f[i] = IF i = 0 THEN r ELSE NoteAndRead(f[i - 1], words[i])
    BY <1>1, TakenTurns
<1>3. /\ ReadWords(r, more) = g[n + 1]
      /\ \A i \in 0..(n + 1) : g[i] = IF i = 0 THEN r ELSE NoteAndRead(g[i - 1], more[i])
    <2>. HIDE DEF more
    <2>1. Len(more) \in Nat
        BY <1>1
    <2>2. /\ ReadWords(r, more) = g[Len(more)]
          /\ \A i \in 0..Len(more) : g[i] = IF i = 0 THEN r ELSE NoteAndRead(g[i - 1], more[i])
        BY <2>1, TakenTurns
    <2>. QED BY <1>1, <2>2, Zenon
<1>. HIDE DEF f, g, more, n
<1>4. T = {}
    <2>. SUFFICES ASSUME T # {} PROVE FALSE
        OBVIOUS
    <2>1. PICK i \in T : \A j \in T : i <= j
        <3>1. T \subseteq Nat
            BY <1>1
        <3>. HIDE DEF T
        <3>. QED BY <3>1, LeastNatural
    <2>2. i \in 0..n /\ g[i] # f[i]
        BY <2>1
    <2>3. i # 0
        BY <1>1, <1>2, <1>3, <2>2
    <2>4. i - 1 \in 0..n /\ i - 1 \notin T
        BY <1>1, <2>1, <2>3
    <2>5. g[i - 1] = f[i - 1] /\ more[i] = words[i] /\ i \in 0..(n + 1)
        BY <1>1, <2>2, <2>3, <2>4
    <2>6. g[i] = NoteAndRead(g[i - 1], more[i]) /\ f[i] = NoteAndRead(f[i - 1], words[i])
        BY <1>2, <1>3, <2>2, <2>3, <2>5
    <2>. QED BY <2>2, <2>5, <2>6
<1>5. g[n] = f[n]
    BY <1>1, <1>4
<1>6. g[n + 1] = NoteAndRead(g[n], more[n + 1])
    <2>1. n + 1 \in 0..(n + 1) /\ n + 1 # 0 /\ (n + 1) - 1 = n
        BY <1>1
    <2>. QED BY <1>3, <2>1
<1>. QED BY <1>1, <1>2, <1>3, <1>5, <1>6 DEF more

\* What was read of a string, word by word
LEMMA ReadWordsTypes ==
    ASSUME NEW r \in Readings, AllOpen(r.state), NEW words \in Seq(Words)
    PROVE  ReadWords(r, words) \in Readings /\ AllOpen(ReadWords(r, words).state)
<1>. DEFINE n == Len(words)
            f == Taken(r, words)
            Good(x) == x \in Readings /\ AllOpen(x.state)
            T == {i \in 0..n : ~Good(f[i])}
<1>1. /\ n \in Nat /\ \A i \in 1..n : words[i] \in Words
      /\ ReadWords(r, words) = f[n]
      /\ \A i \in 0..n : f[i] = IF i = 0 THEN r ELSE NoteAndRead(f[i - 1], words[i])
    BY TakenTurns
<1>2. Good(r) /\ \A x, word : Good(x) /\ word \in Words => Good(NoteAndRead(x, word))
    BY NoteAndReadKeeps
<1>. HIDE DEF f, n, Good
<1>3. T = {}
    <2>. SUFFICES ASSUME T # {} PROVE FALSE
        OBVIOUS
    <2>1. PICK i \in T : \A j \in T : i <= j
        <3>1. T \subseteq Nat
            BY <1>1
        <3>. HIDE DEF T
        <3>. QED BY <3>1, LeastNatural
    <2>2. i \in 0..n /\ ~Good(f[i])
        BY <2>1
    <2>3. i # 0
        BY <1>1, <1>2, <2>2
    <2>4. i - 1 \in 0..n /\ i - 1 \notin T /\ i \in 1..n
        BY <1>1, <2>1, <2>3
    <2>5. Good(f[i - 1])
        BY <2>4
    <2>. QED BY <1>1, <1>2, <2>2, <2>3, <2>4, <2>5
<1>4. Good(f[n])
    BY <1>1, <1>3
<1>. QED BY <1>1, <1>4 DEF Good

LEMMA AlikeIsEquivalence ==
    ASSUME NEW r, NEW q, NEW t
    PROVE  /\ Alike(r, r)
           /\ Alike(r, q) /\ Alike(q, t) => Alike(r, t)
BY DEF Alike

LEMMA PrefixGrows ==
    ASSUME NEW words \in Seq(Words), NEW k \in 1..Len(words)
    PROVE  /\ SubSeq(words, 1, k - 1) \in Seq(Words)
           /\ words[k] \in Words
           /\ SubSeq(words, 1, k) = Append(SubSeq(words, 1, k - 1), words[k])
<1>. DEFINE p == SubSeq(words, 1, k - 1)
            q == SubSeq(words, 1, k)
<1>1. p \in Seq(Words) /\ q \in Seq(Words) /\ words[k] \in Words
    OBVIOUS
<1>2. /\ Len(p) = k - 1 /\ \A i \in 1..(k - 1) : p[i] = words[i]
      /\ Len(q) = k /\ \A i \in 1..k : q[i] = words[i]
    OBVIOUS
<1>. HIDE DEF p, q
<1>3. q = Append(p, words[k])
    BY <1>1, <1>2
<1>. QED BY <1>1, <1>3 DEF p, q

LEMMA Joined ==
    ASSUME NEW a \in Seq(Words), NEW b \in Seq(Words), NEW word \in Words
    PROVE  /\ a \o <<>> = a
           /\ a \o b \in Seq(Words)
           /\ a \o Append(b, word) = Append(a \o b, word)
OBVIOUS

\* A word that is no filter may as well come before the filters ahead of it.
LEMMA BeforeFilters ==
    ASSUME NEW r \in Readings, AllOpen(r.state),
           NEW others \in Seq(Words), NEW filters \in Seq(Words),
           \A i \in 1..Len(filters) : IsFilter(filters[i]),
           NEW word \in Words, ~IsFilter(word)
    PROVE  Alike(NoteAndRead(ReadWords(r, others \o filters), word),
                 ReadWords(r, Append(others, word) \o filters))
<1>. DEFINE n == Len(filters)
            P(k) == SubSeq(filters, 1, k)
            more == Append(others, word)
            Has(k) == Alike(NoteAndRead(ReadWords(r, others \o P(k)), word), ReadWords(r, more \o P(k)))
            T == {k \in 0..n : ~Has(k)}
<1>1. n \in Nat /\ more \in Seq(Words) /\ P(n) = filters /\ P(0) = <<>>
    OBVIOUS
<1>2. ReadWords(r, more) = NoteAndRead(ReadWords(r, others), word)
    BY ReadOneMore
<1>. HIDE DEF more
<1>3. Has(0)
    <2>1. others \o P(0) = others /\ more \o P(0) = more
        BY <1>1, Joined
    <2>. HIDE DEF P
    <2>. QED BY <1>2, <2>1, AlikeIsEquivalence
<1>4. ASSUME NEW k \in 1..n, Has(k - 1) PROVE Has(k)
    <2>. DEFINE f == filters[k]
                p == P(k - 1)
                a == others \o p
                b == more \o p
                x == ReadWords(r, a)
                y == ReadWords(r, b)
    <2>1. p \in Seq(Words) /\ f \in Words /\ P(k) = Append(p, f) /\ IsFilter(f)
        BY PrefixGrows
    <2>2. Alike(NoteAndRead(x, word), y)
        BY <1>4
    <2>. HIDE DEF f, p
    <2>3. a \in Seq(Words) /\ others \o P(k) = Append(a, f)
        <3>1. a \in Seq(Words) /\ others \o Append(p, f) = Append(a, f)
            BY <2>1, Joined
        <3>. HIDE DEF P, a
        <3>. QED BY <2>1, <3>1
    <2>4. b \in Seq(Words) /\ more \o P(k) = Append(b, f)
        <3>1. b \in Seq(Words) /\ more \o Append(p, f) = Append(b, f)
            BY <1>1, <2>1, Joined
        <3>. HIDE DEF P, b
        <3>. QED BY <2>1, <3>1
    <2>. HIDE DEF P, a, b
    <2>5. /\ x \in Readings /\ AllOpen(x.state) /\ y \in Readings
          /\ ReadWords(r, others \o P(k)) = NoteAndRead(x, f)
          /\ ReadWords(r, more \o P(k)) = NoteAndRead(y, f)
        BY <2>1, <2>3, <2>4, ReadOneMore, ReadWordsTypes
    <2>. HIDE DEF x, y
    <2>6. NoteAndRead(x, word) \in Readings
        BY <2>5, NoteAndReadKeeps
    <2>7. Alike(NoteAndRead(NoteAndRead(x, word), f), NoteAndRead(y, f))
        BY <2>1, <2>2, <2>5, <2>6, AlikeStays
    <2>8. Alike(NoteAndRead(NoteAndRead(x, f), word), NoteAndRead(NoteAndRead(x, word), f))
        BY <2>1, <2>5, WordsCommute
    <2>. QED BY <2>5, <2>7, <2>8, AlikeIsEquivalence
<1>. HIDE DEF Has
<1>5. T = {}
    <2>. SUFFICES ASSUME T # {} PROVE FALSE
        OBVIOUS
    <2>1. PICK k \in T : \A j \in T : k <= j
        <3>1. T \subseteq Nat
            BY <1>1
        <3>. HIDE DEF T
        <3>. QED BY <3>1, LeastNatural
    <2>2. k \in 1..n /\ ~Has(k)
        BY <1>1, <1>3, <2>1
    <2>3. k - 1 \notin T /\ k - 1 \in 0..n
        BY <1>1, <2>1, <2>2
    <2>. QED BY <1>4, <2>2, <2>3
<1>6. Has(n)
    BY <1>1, <1>5
<1>. QED BY <1>1, <1>6 DEF Has, more

SortOne(x, word) ==
    IF IsFilter(word) THEN [x EXCEPT !.filters = Append(@, word)]
                      ELSE [x EXCEPT !.others = Append(@, word)]

Unsorted == [others |-> <<>>, filters |-> <<>>]

SortTurns(f, words, n) ==
    [i \in 0..n |-> IF i = 0 THEN Unsorted ELSE SortOne(f[i - 1], words[i])]

LEMMA SortTurnsExist ==
    ASSUME NEW words, NEW last \in Nat
    PROVE  \E f : f = SortTurns(f, words, last)
<1>. USE DEF SortTurns
<1>. DEFINE Turns(f, n) == f = SortTurns(f, words, n)
            T == {n \in Nat : ~\E f : Turns(f, n)}
<1>. SUFFICES ASSUME T # {} PROVE FALSE
    OBVIOUS
<1>1. PICK n \in T : \A m \in T : n <= m
    <2>1. T \subseteq Nat
        OBVIOUS
    <2>. HIDE DEF T
    <2>. QED BY <2>1, LeastNatural
<1>2. CASE n = 0
    <2>1. Turns([i \in 0..0 |-> Unsorted], 0)
        OBVIOUS
    <2>. HIDE DEF Turns
    <2>. QED BY <1>1, <1>2, <2>1
<1>3. CASE n # 0
    <2>1. n \in Nat /\ n - 1 \in Nat /\ n - 1 \notin T
        BY <1>1, <1>3
    <2>2. PICK f : Turns(f, n - 1)
        <3>. HIDE DEF Turns
        <3>. QED BY <2>1
    <2>. DEFINE next == SortOne(f[n - 1], words[n])
                more == [i \in 0..n |-> IF i = n THEN next ELSE f[i]]
    <2>3. \A i \in 0..(n - 1) : f[i] = IF i = 0 THEN Unsorted ELSE SortOne(f[i - 1], words[i])
        BY <2>2, Zenon
    <2>4. ASSUME NEW i \in 0..n
          PROVE  more[i] = IF i = 0 THEN Unsorted ELSE SortOne(more[i - 1], words[i])
        <3>1. CASE i = n
            <4>1. more[i] = SortOne(f[i - 1], words[i])
                BY <3>1
            <4>2. more[i - 1] = f[i - 1]
                BY <2>1, <3>1
            <4>. HIDE DEF more
            <4>. QED BY <1>3, <3>1, <4>1, <4>2
        <3>2. CASE i # n
            <4>1. i \in 0..(n - 1) /\ more[i] = f[i]
                BY <2>1, <3>2
            <4>2. i # 0 => more[i - 1] = f[i - 1]
                BY <2>1, <3>2
            <4>. HIDE DEF more
            <4>. QED BY <2>3, <4>1, <4>2
        <3>. QED BY <3>1, <3>2
    <2>5. more = [i \in 0..n |-> more[i]]
        BY Zenon
    <2>. HIDE DEF more
    <2>6. Turns(more, n)
        BY <2>4, <2>5, Zenon
    <2>. HIDE DEF Turns
    <2>. QED BY <1>1, <2>6
<1>. QED BY <1>2, <1>3

\* The turns that Sorted takes
SortTaken(words) ==
    LET sorted[i \in 0..Len(words)] ==
            IF i = 0 THEN [others |-> <<>>, filters |-> <<>>]
            ELSE IF IsFilter(words[i])
                 THEN [sorted[i - 1] EXCEPT !.filters = Append(@, words[i])]
                 ELSE [sorted[i - 1] EXCEPT !.others = Append(@, words[i])]
    IN  sorted

LEMMA SortTakenTurns ==
    ASSUME NEW words, Len(words) \in Nat
    PROVE  /\ Sorted(words) = SortTaken(words)[Len(words)]
           /\ \A i \in 0..Len(words) :
                 SortTaken(words)[i] =
                     IF i = 0 THEN Unsorted ELSE SortOne(SortTaken(words)[i - 1], words[i])
<1>. DEFINE turns(f) == [i \in 0..Len(words) |->
                            IF i = 0 THEN [others |-> <<>>, filters |-> <<>>]
                            ELSE IF IsFilter(words[i])
                                 THEN [f[i - 1] EXCEPT !.filters = Append(@, words[i])]
                                 ELSE [f[i - 1] EXCEPT !.others = Append(@, words[i])]]
            sorted == CHOOSE f : f = turns(f)
<1>1. SortTaken(words) = sorted /\ Sorted(words) = sorted[Len(words)]
    BY DEF SortTaken, Sorted
<1>2. \A f : turns(f) = SortTurns(f, words, Len(words))
    BY DEF SortTurns, SortOne, Unsorted
<1>3. sorted = turns(sorted)
    <2>1. PICK g : g = SortTurns(g, words, Len(words))
        BY SortTurnsExist
    <2>. HIDE DEF turns
    <2>2. g = turns(g)
        BY <1>2, <2>1
    <2>. QED BY <2>2
<1>. HIDE DEF sorted, turns
<1>4. sorted = SortTurns(sorted, words, Len(words))
    BY <1>2, <1>3
<1>5. \A i \in 0..Len(words) : sorted[i] = IF i = 0 THEN Unsorted ELSE SortOne(sorted[i - 1], words[i])
    BY <1>4, Zenon DEF SortTurns
<1>. QED BY <1>1, <1>5

\* Sorting takes the filters out of a string and puts them behind the others; what
\* is read is alike.
LEMMA SortedReadsAlike ==
    ASSUME NEW r \in Readings, AllOpen(r.state), NEW words \in Seq(Words)
    PROVE  /\ FiltersLast(words) \in Seq(Words)
           /\ Alike(ReadWords(r, words), ReadWords(r, FiltersLast(words)))
<1>. DEFINE n == Len(words)
            f == SortTaken(words)
            P(k) == SubSeq(words, 1, k)
            Apart(x) == /\ x \in [others : Seq(Words), filters : Seq(Words)]
                        /\ \A i \in 1..Len(x.filters) : IsFilter(x.filters[i])
            Has(k) == /\ Apart(f[k])
                      /\ Alike(ReadWords(r, P(k)), ReadWords(r, f[k].others \o f[k].filters))
            T == {k \in 0..n : ~Has(k)}
<1>1. n \in Nat /\ P(n) = words /\ P(0) = <<>>
    OBVIOUS
<1>2. /\ Sorted(words) = f[n]
      /\ \A i \in 0..n : f[i] = IF i = 0 THEN Unsorted ELSE SortOne(f[i - 1], words[i])
    BY SortTakenTurns
<1>. HIDE DEF f
<1>3. Has(0)
    <2>1. f[0] = Unsorted
        BY <1>1, <1>2
    <2>2. Apart(Unsorted) /\ Unsorted.others \o Unsorted.filters = <<>>
        BY DEF Unsorted
    <2>. QED BY <1>1, <2>1, <2>2, AlikeIsEquivalence
<1>4. ASSUME NEW k \in 1..n, Has(k - 1) PROVE Has(k)
    <2>. DEFINE w == words[k]
                p == P(k - 1)
                a == f[k - 1].others
                b == f[k - 1].filters
                x == ReadWords(r, p)
                y == ReadWords(r, a \o b)
    <2>1. p \in Seq(Words) /\ w \in Words /\ P(k) = Append(p, w)
        BY PrefixGrows
    <2>2. f[k] = SortOne(f[k - 1], w)
        BY <1>1, <1>2
    <2>3. Apart(f[k - 1]) /\ Alike(x, y)
        BY <1>4
    <2>4. /\ a \in Seq(Words) /\ b \in Seq(Words)
          /\ \A i \in 1..Len(b) : IsFilter(b[i])
          /\ f[k - 1] \in [others : Seq(Words), filters : Seq(Words)]
        BY <2>3
    <2>5. a \o b \in Seq(Words) /\ a \o Append(b, w) = Append(a \o b, w)
        <3>. HIDE DEF a, b, w
        <3>. QED BY <2>1, <2>4, Joined
    <2>6. /\ x \in Readings /\ AllOpen(x.state) /\ y \in Readings
          /\ ReadWords(r, P(k)) = NoteAndRead(x, w)
          /\ ReadWords(r, Append(a \o b, w)) = NoteAndRead(y, w)
        <3>. HIDE DEF P, p, w, a, b
        <3>. QED BY <2>1, <2>5, ReadOneMore, ReadWordsTypes
    <2>7. Alike(NoteAndRead(x, w), NoteAndRead(y, w))
        <3>. HIDE DEF x, y, w
        <3>. QED BY <2>1, <2>3, <2>6, AlikeStays
    <2>8. CASE IsFilter(w)
        <3>. DEFINE c == Append(b, w)
        <3>1. f[k] = [f[k - 1] EXCEPT !.filters = c]
            BY <2>2, <2>8 DEF SortOne
        <3>2. c \in Seq(Words) /\ \A i \in 1..Len(c) : IsFilter(c[i])
            <4>. HIDE DEF b, w
            <4>. QED BY <2>1, <2>4, <2>8
        <3>. HIDE DEF c, w
        <3>3. f[k].others = a /\ f[k].filters = c /\ Apart(f[k])
            BY <2>4, <3>1, <3>2
        <3>4. f[k].others \o f[k].filters = Append(a \o b, w)
            <4>. HIDE DEF a, b
            <4>. QED BY <2>5, <3>3 DEF c
        <3>. HIDE DEF Apart, P, x, y
        <3>. QED BY <2>6, <2>7, <3>3, <3>4
    <2>9. CASE ~IsFilter(w)
        <3>. DEFINE c == Append(a, w)
        <3>1. f[k] = [f[k - 1] EXCEPT !.others = c]
            BY <2>2, <2>9 DEF SortOne
        <3>2. c \in Seq(Words)
            <4>. HIDE DEF a, w
            <4>. QED BY <2>1, <2>4
        <3>. HIDE DEF c, w
        <3>3. f[k].others = c /\ f[k].filters = b /\ Apart(f[k])
            BY <2>4, <3>1, <3>2
        <3>4. Alike(NoteAndRead(y, w), ReadWords(r, c \o b))
            <4>. HIDE DEF a, b
            <4>. QED BY <2>1, <2>4, <2>9, BeforeFilters DEF c
        <3>. HIDE DEF Apart, P, x, y, a, b
        <3>. QED BY <2>6, <2>7, <3>3, <3>4, AlikeIsEquivalence
    <2>. QED BY <2>8, <2>9
<1>. HIDE DEF Has
<1>5. T = {}
    <2>. SUFFICES ASSUME T # {} PROVE FALSE
        OBVIOUS
    <2>1. PICK k \in T : \A j \in T : k <= j
        <3>1. T \subseteq Nat
            BY <1>1
        <3>. HIDE DEF T
        <3>. QED BY <3>1, LeastNatural
    <2>2. k \in 1..n /\ ~Has(k)
        BY <1>1, <1>3, <2>1
    <2>3. k - 1 \notin T /\ k - 1 \in 0..n
        BY <1>1, <2>1, <2>2
    <2>. QED BY <1>4, <2>2, <2>3
<1>6. Has(n)
    BY <1>1, <1>5
<1>7. f[n].others \in Seq(Words) /\ f[n].filters \in Seq(Words)
    BY <1>6 DEF Has
<1>8. FiltersLast(words) = f[n].others \o f[n].filters
    BY <1>2 DEF FiltersLast
<1>9. f[n].others \o f[n].filters \in Seq(Words)
    BY <1>7
<1>. QED BY <1>1, <1>6, <1>8, <1>9 DEF Has

-----------------------------------------------------------------------------
(* The theorems                                                             *)

\* A command line with an error on it is refused, whatever letters, words and
\* options came after the error (libxo.c:2797, 11004): for a caller who gives no bad
\* letter with words after it (see WordsFollow), and as long as no handler returned
\* more than 0, which xo_parse_args does not take for a failure.
THEOREM ErrorsAreRefused == ASSUME Careful PROVE Spec => []AcceptedMeansNoError
<1>1. OptionsInv => AcceptedMeansNoError
    BY DEF OptionsInv, ErrorsKept, AcceptedMeansNoError
<1>. QED BY <1>1, OptionsInvariant, PTL

\* Whatever options and calls a handle has seen, a filter and an encoder's style go
\* together only with the filter-aware flag (libxo.c:5915, 11057), unless a call has said
\* that they do not.  Whose flag that is, the code does not ask.
THEOREM FiltersMeetFlag == Spec => []FilterGoes
<1>1. OptionsInv => FilterGoes
    BY DEF OptionsInv
<1>. QED BY <1>1, OptionsInvariant, PTL

\* The flag is the encoder's own as long as no encoder that could be used with a filter
\* was replaced, after which the handle keeps it (libxo.c:11333): then a filter is never
\* left with an encoder that cannot be used with one.
THEOREM FiltersMeetAware == ASSUME Careful PROVE Spec => []FilterNeedsAware
<1>1. OptionsInv => FilterNeedsAware
    BY DEF OptionsInv, AwareIsOwn, FilterGoes, FilterNeedsAware
<1>. QED BY <1>1, OptionsInvariant, PTL

\* The encoder in use has its private data (xo_encoder.c:377) and, if xo_encoders_clean
\* was not called while a handle used a library's encoder, its library open (274).
THEOREM EncodersCallable == ASSUME Careful PROVE Spec => []EncoderIsCallable
<1>1. OptionsInv => EncoderIsCallable
    BY DEF OptionsInv, LibrariesOpen, AllOpen, IsOpen, State, PrivateIsOwn, EncoderIsCallable
<1>. QED BY <1>1, OptionsInvariant, PTL

\* In one string, however long, the filters may come before or after everything else:
\* state and return code are the same at the end (libxo.c:2933).
THEOREM OrderIsFree == Spec => []OrderDoesNotMatter
<1>1. OptionsInv => OrderDoesNotMatter
    <2>. SUFFICES ASSUME OptionsInv, NEW words \in SeqOf(Words, MaxWords)
                  PROVE  SetOptionsWords(words) = SetOptionsWords(FiltersLast(words))
        BY DEF OrderDoesNotMatter
    <2>. DEFINE r == Reading(State)
                s == Returns(State, 0)
    <2>1. words \in Seq(Words)
        BY DEF SeqOf
    <2>2. State \in States /\ AllOpen(State) /\ 0 \in Answers
        BY DEF OptionsInv, OptionsTypes, LibrariesOpen, Answers
    <2>3. s \in States /\ AllOpen(s)
        BY <2>2, WithResult
    <2>. HIDE DEF s
    <2>4. r = [state |-> s, style |-> "none", pending |-> <<>>, final |-> 0]
        BY DEF Reading, s
    <2>5. r \in Readings /\ r.state = s
        BY <2>3, <2>4 DEF Readings, Pendings, Answers
    <2>. HIDE DEF r
    <2>6. /\ FiltersLast(words) \in Seq(Words)
          /\ Alike(ReadWords(r, words), ReadWords(r, FiltersLast(words)))
        BY <2>1, <2>3, <2>5, SortedReadsAlike
    <2>7. ReadWords(r, words) \in Readings /\ ReadWords(r, FiltersLast(words)) \in Readings
        BY <2>1, <2>3, <2>5, <2>6, ReadWordsTypes
    <2>8. LastRead(ReadWords(r, words)) = LastRead(ReadWords(r, FiltersLast(words)))
        BY <2>6, <2>7, AlikeEnds
    <2>. QED BY <2>8 DEF SetOptionsWords, r
<1>. QED BY <1>1, OptionsInvariant, PTL
=============================================================================
