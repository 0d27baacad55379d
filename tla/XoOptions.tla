----------------------------- MODULE XoOptions -----------------------------
(***************************************************************************)
(* How a handle gets its style, its encoder and its filters: the options    *)
(* of the command line (xo_parse_args and xo_set_options of                  *)
(* src/libxo/libxo.c), the list of encoders with the libraries they come    *)
(* from (src/libxo/xo_encoder.c), and the calls a program makes itself.     *)
(***************************************************************************)
EXTENDS Integers, Sequences, FiniteSets, SequencesExt

CONSTANTS
    Names, BadNames,    \* what may follow "encoder="; those with a "/"
    Dirs, SystemDir,    \* directories that hold encoders; XO_ENCODERDIR
    Library,            \* what each directory holds, see LibrarySet
    NoEncoder,
    MaxWords, MaxCalls, \* bounds
    Careful             \* the caller avoids what is lost or goes stale

Version == 3            \* XO_ENCODER_VERSION

\* What a handler returns: no handler in the tree returns more than 0, but a
\* library may, and who calls it sometimes tests "< 0" and sometimes "!= 0".
Answers == {-1, 0, 1}

\* version: what its init function reports; needs: what it asks for; aware and
\* notify: its XEIF flags; create, options: what its handler returns for
\* XO_OP_CREATE and for the options it is given.
LibrarySet ==
    [version : 1..(Version + 1), needs : 1..(Version + 1), aware : BOOLEAN, notify : BOOLEAN,
     create : Answers, options : Answers]

ASSUME DirsAssumption == SystemDir \in Dirs /\ BadNames \subseteq Names
ASSUME LibraryAssumption ==
    \A dir \in Dirs : \A name \in DOMAIN Library[dir] :
        /\ name \in Names \ BadNames
        /\ Library[dir][name] \in LibrarySet
        /\ Library[dir][name].version < 3 => ~Library[dir][name].aware

VARIABLES
    handle,     \* the handle
    encoders,   \* xo_encoders, the list of known encoders
    path,       \* xo_encoder_path
    opened,     \* the libraries that are open
    args,       \* what xo_parse_args is at: "parsing", in an option's "letters" or
                \* "words", "accepted", "refused"
    reading,    \* how far xo_set_options has come
    complaints, \* what the command line was complained about: an "error", a second
                \* "style" in one option (which is ignored), a handler's "answer" above 0
    broken,     \* a call of the program after that has failed
    calls       \* how many option strings and calls there were

vars == <<handle, encoders, path, opened, args, reading, complaints, broken, calls>>

\* Where an encoder's function comes from: a directory, or the program.
Program == "program"

Fresh == [style |-> "text", filter |-> FALSE, aware |-> FALSE,
          notify |-> FALSE, encoder |-> NoEncoder, private |-> NoEncoder]

NotReading == [rc |-> 0, style |-> "none", pending |-> <<>>, final |-> 0, read |-> 0]

\* xo_encoder_setup, with the first call; xo_init_handle
Init ==
    /\ handle = Fresh
    /\ encoders = <<>>
    /\ path = <<SystemDir>>
    /\ opened = {}
    /\ args = "parsing"
    /\ reading = NotReading
    /\ complaints = {}
    /\ broken = FALSE
    /\ calls = 0

-----------------------------------------------------------------------------
(* What a call works on, and its return code                                *)

State == [handle |-> handle, encoders |-> encoders, opened |-> opened, rc |-> 0]

Returns(s, rc) == [s EXCEPT !.rc = rc]

Become(s) ==
    /\ handle' = s.handle
    /\ encoders' = s.encoders
    /\ opened' = s.opened

(* The list of encoders: xo_encoder_find and xo_encoder_discover            *)

Node(name, from) == [name |-> name, from |-> from]

Find(s, name) == {i \in DOMAIN s.encoders : s.encoders[i].name = name}
First(s, name) == CHOOSE i \in Find(s, name) : \A j \in Find(s, name) : i <= j

\* The first directory of the path that holds the library
Places(name) == {i \in DOMAIN path : name \in DOMAIN Library[path[i]]}
Place(name) == path[CHOOSE i \in Places(name) : \A j \in Places(name) : i <= j]

\* Its init function asks for a newer libxo, or has never heard of filters
\* where there is one.
Usable(s, lib) ==
    /\ lib.needs <= Version
    /\ ~(lib.version < 3 /\ s.handle.filter)

\* A library that is of no use is closed again.
Discover(s, name) ==
    IF Places(name) # {} /\ Usable(s, Library[Place(name)][name])
    THEN [s EXCEPT !.encoders = Append(@, Node(name, Place(name))),
                   !.opened = @ \cup {<<Place(name), name>>}]
    ELSE s

\* xo_set_style: the style is set even if the handle has a filter that does
\* not go with it; whoever called it checks again.
FilterConflict(h) == h.filter /\ h.style = "encoder" /\ ~h.aware

LibraryOf(node) ==
    IF node.from = Program
    THEN [version |-> Version, needs |-> Version, aware |-> FALSE, notify |-> FALSE,
          create |-> 0, options |-> 0]
    ELSE Library[node.from][node.name]

\* Mutant: every encoder of this version is taken to be filter-aware.
SetEncoderByVersion(h, node) ==
    [h EXCEPT !.encoder = node, !.style = "encoder",
              !.aware = LibraryOf(node).version = Version, !.notify = LibraryOf(node).notify]

\* xo_set_encoder: the flags of the encoder before it stay
SetEncoder(h, node) ==
    [h EXCEPT !.encoder = node, !.style = "encoder",
              !.aware = @ \/ LibraryOf(node).aware,
              !.notify = @ \/ LibraryOf(node).notify]

\* Mutant: a handle that has had an encoder needs no other state.
CreateOnce(h) ==
    IF LibraryOf(h.encoder).create = 0 /\ h.private = NoEncoder
    THEN [h EXCEPT !.private = h.encoder] ELSE h

\* XO_OP_CREATE: xo_set_private, by a handler that returns 0
Create(h) == IF LibraryOf(h.encoder).create = 0 THEN [h EXCEPT !.private = h.encoder] ELSE h

\* xo_encoder_init, with or without options after the name
Install(s, node, options) ==
    LET lib == LibraryOf(node)
        set == [s EXCEPT !.handle = Create(SetEncoder(@, node))]
    IN Returns(set, IF lib.create = 0 /\ options THEN lib.options ELSE lib.create)

EncoderInit(s, name, options) ==
    LET known == IF Find(s, name) = {} THEN Discover(s, name) ELSE s
    IN IF name \in BadNames
       THEN Returns(s, -1)
       ELSE IF Find(known, name) = {}
            THEN Returns(s, -1)
            ELSE Install(known, known.encoders[First(known, name)], options)

\* An encoder that cannot be used with a filter
Refuses(h) == h.style = "encoder" /\ ~h.aware

\* xo_add_filter; a bad expression leaves the handle with the flag.
AddFilter(s, good) ==
    IF Refuses(s.handle)
    THEN Returns(s, -1)
    ELSE [s EXCEPT !.handle.filter = TRUE,
                   !.rc = IF good THEN 0 ELSE -1]

-----------------------------------------------------------------------------
(* One option string                                                        *)

Styles == {"text", "json"}

\* The words, by what xo_set_options_words does with them.  Of a word that only
\* sets something ("flag", an option with its value) no more is kept than
\* whether it is in order; the words that assign the return code are apart.
Words ==
    [word : {"style"}, style : Styles]
        \cup [word : {"encoder"}, name : Names, options : BOOLEAN]
        \cup [word : {"filter"}, good : BOOLEAN]
        \cup [word : {"map"}, good : BOOLEAN]
        \cup [word : {"flag", "bad"}]

\* How far the words have been read
Reading(s) == [state |-> Returns(s, 0), style |-> "none", pending |-> <<>>, final |-> 0]

\* Mutant: only the last word's failure counts.
NoteOnlyLast(r) == [r EXCEPT !.final = 0]

\* "if (rc) final_rc = rc"
Note(r) == IF r.state.rc # 0 THEN [r EXCEPT !.final = r.state.rc] ELSE r

\* Mutant: an encoder is loaded as soon as it is named.
ReadEncoderNow(r, word) ==
    LET s == EncoderInit(r.state, word.name, word.options)
    IN [r EXCEPT !.state = IF s.rc = 0 THEN Returns(s, r.state.rc) ELSE s]

\* The last one is the winner.
ReadEncoder(r, word) == [r EXCEPT !.pending = <<word>>]

\* The first style wins; one after it is ignored with a warning, see Said.
ReadWord(r, word) ==
    CASE word.word = "style" -> IF r.style = "none" THEN [r EXCEPT !.style = word.style] ELSE r
      [] word.word = "encoder" -> ReadEncoder(r, word)
      [] word.word = "filter" -> [r EXCEPT !.state = AddFilter(@, word.good)]
      [] word.word = "map" -> [r EXCEPT !.state.rc = IF word.good THEN 0 ELSE -1]
      [] word.word = "bad" -> [r EXCEPT !.state.rc = -1]
      [] OTHER -> r

NoteAndRead(r, word) == ReadWord(Note(r), word)

\* After the last word: a style, then the encoder, which overrides it.
WithStyle(r) == IF r.style = "none" THEN r ELSE [r EXCEPT !.state.handle.style = r.style]

WithEncoder(r) ==
    LET word == r.pending[1]
        s == EncoderInit(r.state, word.name, word.options)
    IN IF r.pending = <<>>
       THEN r
       ELSE Note([r EXCEPT !.state = IF s.rc = 0 /\ FilterConflict(s.handle) THEN Returns(s, -1) ELSE s])

LastRead(r) == WithEncoder(WithStyle([Note(r) EXCEPT !.state.rc = 0]))

\* xo_set_options_single: letters after a ":"; some are styles
Letters == Styles \cup {"flag", "bad"}

ReadLetter(s, letter) ==
    CASE letter \in Styles -> [s EXCEPT !.handle.style = letter]
      [] letter = "bad" -> Returns(s, -1)
      [] OTHER -> s

-----------------------------------------------------------------------------
(* The calls                                                                *)

Called ==
    /\ args \in {"parsing", "accepted", "refused"}
    /\ calls < MaxCalls
    /\ calls' = calls + 1

\* xo_set_options: words, letters, or letters and then words.  An option that
\* is read is at one of its letters or words, and no call is made meanwhile.
Begin(at) ==
    /\ args = "parsing"
    /\ Called
    /\ args' = at
    /\ UNCHANGED <<handle, encoders, path, opened, reading, complaints, broken>>

Loop == [state |-> Returns(State, reading.rc), style |-> reading.style,
         pending |-> reading.pending, final |-> reading.final]

\* BOUND: an option has at most one letter and MaxWords words.
ReadsOne ==
    /\ reading.read < MaxWords
    /\ UNCHANGED <<path, args, broken, calls>>

GoesOn(r) ==
    /\ Become(r.state)
    /\ reading' = [rc |-> r.state.rc, style |-> r.style, pending |-> r.pending,
                    final |-> r.final, read |-> reading.read + 1]

\* The option has been read: xo_parse_args gives up if the return code is
\* negative.  Above 0 it can only be what a handler answered: libxo complains,
\* forgets what the words before it returned, and goes on.
Ends(s, rc) ==
    /\ Become(s)
    /\ reading' = NotReading
    /\ args' = IF rc < 0 THEN "refused" ELSE "parsing"
    /\ complaints' = complaints \cup
                        (IF rc < 0 THEN {"error"} ELSE IF rc > 0 THEN {"answer"} ELSE {})
    /\ UNCHANGED <<path, broken, calls>>

Letter(letter) ==
    /\ args = "letters"
    /\ reading.read = 0
    /\ ReadsOne
    /\ GoesOn([Loop EXCEPT !.state = ReadLetter(@, letter)])
    /\ complaints' = complaints \cup (IF letter = "bad" THEN {"error"} ELSE {})

LettersEnd ==
    /\ args = "letters"
    /\ reading.read > 0
    /\ Ends(State, reading.rc)

\* After a comma come words, and what the letters returned is lost.  A careful
\* caller gives no bad letter with words after it.
WordsFollow ==
    /\ args = "letters"
    /\ reading.read > 0
    /\ Careful => reading.rc = 0
    /\ args' = "words"
    /\ reading' = NotReading
    /\ UNCHANGED <<handle, encoders, path, opened, complaints, broken, calls>>

IsFilter(word) == word.word = "filter"

\* A word that is an error, by itself or for this handle
Wrong(h, word) ==
    \/ word.word = "bad"
    \/ word.word \in {"map", "filter"} /\ ~word.good
    \/ IsFilter(word) /\ Refuses(h)

\* What is said of a word, after those that were read
Said(r, word) ==
    IF Wrong(r.state.handle, word) THEN {"error"}
    ELSE IF word.word = "style" /\ r.style # "none" THEN {"style"} ELSE {}

Word(word) ==
    /\ args = "words"
    /\ ReadsOne
    /\ GoesOn(NoteAndRead(Loop, word))
    /\ complaints' = complaints \cup Said(Loop, word)

\* A careful caller does not replace an encoder that was filter-aware by another.
WordsEnd ==
    LET end == LastRead(Loop) IN
    /\ args = "words"
    /\ reading.read > 0
    /\ Careful /\ handle.aware => end.state.handle.encoder = handle.encoder
    /\ Ends(end.state, end.final)

\* xo_parse_args, at the end of the command line
End ==
    /\ args = "parsing"
    /\ args' = IF FilterConflict(handle) THEN "refused" ELSE "accepted"
    /\ UNCHANGED <<handle, encoders, path, opened, reading, complaints, broken, calls>>

\* A call of the program once the command line was accepted
Call(s) ==
    /\ args = "accepted"
    /\ Careful /\ handle.aware => s.handle.encoder = handle.encoder
    /\ Called
    /\ Become(s)
    /\ broken' = (broken \/ s.rc # 0)
    /\ UNCHANGED <<path, args, reading, complaints>>

\* xo_add_filter
AddFilterCall(good) == Call(AddFilter(State, good))

\* xo_set_style_name: what is no style is an encoder; the handle's style then
\* becomes what xo_name_to_style returned for it, -1.
SetStyleName(name) ==
    LET s == EncoderInit(State, name, FALSE)
    IN Call(IF s.rc = 0 THEN [s EXCEPT !.handle.style = "none"] ELSE s)

\* xo_encoder_register: an encoder of that name that is known already stays
Register(name) ==
    /\ Called
    /\ encoders' = IF Find(State, name) = {} THEN Append(encoders, Node(name, Program)) ELSE encoders
    /\ UNCHANGED <<handle, path, opened, args, reading, complaints, broken>>

\* xo_encoder_unregister: the library stays open
Unregister(name) ==
    /\ Called
    /\ encoders' = IF Find(State, name) = {} THEN encoders
                   ELSE RemoveAt(encoders, First(State, name))
    /\ UNCHANGED <<handle, path, opened, args, reading, complaints, broken>>

\* xo_encoder_path_add
PathAdd(dir) ==
    /\ Called
    /\ path' = Append(path, dir)
    /\ UNCHANGED <<handle, encoders, opened, args, reading, complaints, broken>>

\* xo_encoders_clean, of a list without encoders of the program: xe_dlhandle of
\* those was never set.  The path is empty from now on, XO_ENCODERDIR included.
UsesLibrary == handle.encoder # NoEncoder /\ handle.encoder.from # Program
Clean ==
    /\ Called
    /\ \A i \in DOMAIN encoders : encoders[i].from # Program
    /\ Careful => ~UsesLibrary
    /\ encoders' = <<>>
    /\ path' = <<>>
    /\ opened' = opened \ {<<encoders[i].from, encoders[i].name>> : i \in DOMAIN encoders}
    /\ UNCHANGED <<handle, args, reading, complaints, broken>>

Next ==
    \/ Begin("letters") \/ Begin("words")
    \/ \E letter \in Letters : Letter(letter)
    \/ LettersEnd \/ WordsFollow
    \/ \E word \in Words : Word(word)
    \/ WordsEnd
    \/ End
    \/ \E name \in Names : Register(name) \/ Unregister(name)
    \/ \E dir \in Dirs : PathAdd(dir)
    \/ Clean
    \/ \E good \in BOOLEAN : AddFilterCall(good)
    \/ \E name \in Names : SetStyleName(name)

Spec == Init /\ [][Next]_vars

-----------------------------------------------------------------------------
(* Correctness                                                              *)

\* A command line with an error on it is refused, whatever came after the error
\* (libxo.c:2797, 11004).  It may be accepted with a second style in an option,
\* which is only warned of (2837).  Nothing is said of a line on which a handler
\* returned more than 0, which the code complains of (2957) and accepts (11014).
AcceptedMeansNoError ==
    args = "accepted" /\ "answer" \notin complaints => "error" \notin complaints

\* A filter goes together with an encoder that can be used with one
\* (libxo.c:11045), unless the program was told that it did not get that.  This
\* is of a careful caller, who does not replace an encoder that could be: the
\* handle keeps that one's flags (11333).
FilterNeedsAware ==
    args = "accepted" /\ ~broken /\ handle.filter /\ handle.style = "encoder" =>
        LibraryOf(handle.encoder).aware

\* The handle's encoder can be called, and what it finds in its private data
\* is its own (xo_encoder.c:274, 377), unless its handler returned more than 0
\* when it was created and the line was accepted all the same.
EncoderIsCallable ==
    handle.encoder # NoEncoder /\ args = "accepted" /\ ~broken /\ "answer" \notin complaints =>
        /\ handle.encoder.from # Program =>
              <<handle.encoder.from, handle.encoder.name>> \in opened
        /\ handle.private = handle.encoder

\* The words of one string, one after the other, and what follows the last.
ReadWords(r, words) ==
    LET read[i \in 0..Len(words)] ==
            IF i = 0 THEN r ELSE NoteAndRead(read[i - 1], words[i])
    IN  read[Len(words)]

SetOptionsWords(words) == LastRead(ReadWords(Reading(State), words))

\* A recursive function, where SelectSeq would do, as it is reasoned about.
Sorted(words) ==
    LET sorted[i \in 0..Len(words)] ==
            IF i = 0 THEN [others |-> <<>>, filters |-> <<>>]
            ELSE IF IsFilter(words[i])
                 THEN [sorted[i - 1] EXCEPT !.filters = Append(@, words[i])]
                 ELSE [sorted[i - 1] EXCEPT !.others = Append(@, words[i])]
    IN  sorted[Len(words)]

FiltersLast(words) == Sorted(words).others \o Sorted(words).filters

\* In one string, the filters may come before or after the encoder: the
\* winner is only looked at when all words were read (libxo.c:2933).
OrderDoesNotMatter ==
    args = "parsing" =>
        \A words \in SeqOf(Words, MaxWords) :
            LET end == SetOptionsWords(words)
                last == SetOptionsWords(FiltersLast(words))
            IN  end.state = last.state /\ end.final = last.final

=============================================================================
