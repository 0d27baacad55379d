------------------------------ MODULE XoStack ------------------------------
(***************************************************************************)
(* The hierarchy stack of a libxo handle (src/libxo/libxo.c): the frames   *)
(* that xo_open_* push and xo_close_* pop, the transition table that       *)
(* repairs a caller's missing calls, markers, the field calls that use     *)
(* the stack, and the brackets, tags or encoder operations all of them     *)
(* write.                                                                  *)
(*                                                                         *)
(* An API call is one action: it looks at the frames, as xo_transition     *)
(* does, and leaves in "todo" the xo_do_* functions it calls, in order.    *)
(* Each of these is a step of its own; no call starts before the last one  *)
(* returned (a handle belongs to one thread).                              *)
(***************************************************************************)
EXTENDS Integers, Sequences, SequencesExt, FiniteSets

CONSTANTS
    Names,          \* names the caller gives to constructs and leaf-lists
    MarkerNames,    \* names the caller gives to markers
    NoName,         \* a NULL name
    FailureName,    \* XO_FAILURE_NAME
    FakeTopName,    \* XO_FAKE_TOP_LEVEL_NAME
    NameMap,        \* what xo_map_name returns for a name
    Options,        \* the flags a handle may have been created with
    Roles,          \* BOUND: what the caller's fields are, "key" or "value"
    MaxDepth        \* BOUND: calls that push stop this close to this depth

AllNames == Names \cup MarkerNames \cup {FailureName, FakeTopName}

Styles == {"json", "xml", "text", "sdparams", "encoder"}

OptionSet ==
    [style : Styles,
     warn : BOOLEAN,            \* XOF_WARN
     noTop : BOOLEAN,           \* XOF_NO_TOP
     noTopLevel : BOOLEAN,      \* XOF_NO_TOP_LEVEL
     noClose : BOOLEAN,         \* XOF_NO_CLOSE
     ignoreClose : BOOLEAN,     \* XOF_IGNORE_CLOSE
     encoderFails : BOOLEAN]    \* the encoder's handler may return an error

ASSUME NamesAssumption ==
    /\ NoName \notin AllNames
    /\ Names \cap MarkerNames = {}
    /\ NameMap \in [AllNames -> AllNames]

ASSUME OptionsAssumption == Options \subseteq OptionSet

ASSUME RolesAssumption == Roles \subseteq {"key", "value"}

ASSUME DepthAssumption == MaxDepth \in Nat

VARIABLES
    opts,           \* the handle's flags, fixed once it is created
    stack,          \* the frames, stack[1] the root (xo_stack, xo_depth)
    topEmitted,     \* XOIF_TOP_EMITTED: JSON's outermost brace is open
    wrote,          \* something was printed: XOIF_MADE_OUTPUT or xo_data not empty
    written,        \* what a reader of the output has seen (see below)
    failed,         \* xo_failure has been called
    call,           \* the API call in progress
    todo            \* the xo_do_* functions it has still to run

vars == <<opts, stack, topEmitted, wrote, written, failed, call, todo>>

-----------------------------------------------------------------------------
(* Frames *)

Kinds == {"container", "list", "instance", "leaf_list"}

States == Kinds \cup {"init", "marker"}

Frame ==
    [state : States,
     name : AllNames \cup {NoName},
     notFirst : BOOLEAN,        \* XSF_NOT_FIRST
     emit : BOOLEAN,            \* XSF_EMIT
     emitKey : BOOLEAN,         \* XSF_EMIT_KEY
     emitLeaf : BOOLEAN]        \* XSF_EMIT_LEAF_LIST

NewFrame(state, name) ==
    [state |-> state, name |-> name,
     notFirst |-> FALSE, emit |-> FALSE, emitKey |-> FALSE, emitLeaf |-> FALSE]

Top == stack[Len(stack)]

SetTop(s, frame) == [s EXCEPT ![Len(s)] = frame]

HasItems(s) == SetTop(s, [s[Len(s)] EXCEPT !.notFirst = TRUE])

\* XSF_LIST: set on lists and on leaf-lists, on no other frame
IsList(state) == state \in {"list", "leaf_list"}

OnMarker == Top.state = "marker"

\* Frame i of s is a real one with only markers between it and frame j.
Holds(s, i, j) ==
    /\ s[i].state # "marker"
    /\ \A k \in (i + 1)..(j - 1) : s[k].state = "marker"

\* The nearest frame that is not a marker; there is one, the root at least.
Real == stack[CHOOSE i \in DOMAIN stack : Holds(stack, i, Len(stack) + 1)]

-----------------------------------------------------------------------------
(* The output, as its reader sees it: the constructs still open, outermost  *)
(* first, and the faults a parser would have reported.  A JSON reader       *)
(* tells objects from arrays and minds labels and commas; an XML reader     *)
(* matches tag names; an encoder matches kind and name.                     *)

Shapes == {"document", "object", "array", "element"} \cup Kinds

Faults == {"comma",         \* a comma missing, or one too many
           "label",         \* a labelled item in an array
           "bare",          \* an item without label in an object
           "unmatched",     \* a close that does not match the last open
           "marker_name"}   \* a marker's name in the output

Construct == [shape : Shapes, name : AllNames \cup {NoName}, some : BOOLEAN]

Written == [open : Seq(Construct), faults : SUBSET Faults]

Json == opts.style = "json"

Innermost(w) == w.open[Len(w.open)]

Fault(w, when, fault) == IF when THEN [w EXCEPT !.faults = @ \cup {fault}] ELSE w

\* A JSON item, with or without label, after a comma or not
Item(w, labelled, comma) ==
    LET in == Innermost(w)
        wants == in.shape = "object" \/ (in.shape = "document" /\ opts.noTop)
        w1 == Fault(w, comma # in.some, "comma")
        w2 == Fault(w1, labelled /\ ~wants, "label")
        w3 == Fault(w2, ~labelled /\ wants, "bare")
    IN [w3 EXCEPT !.open[Len(w.open)].some = TRUE]

Opened(w, shape, name) ==
    [w EXCEPT !.open = Append(@, [shape |-> shape, name |-> name, some |-> FALSE])]

Closed(w, shape, name) ==
    LET in == Innermost(w)
        match == Len(w.open) > 1 /\ in.shape = shape /\ in.name = name
    IN [Fault(w, ~match, "unmatched") EXCEPT
            !.open = IF Len(w.open) > 1 THEN Front(@) ELSE @]

NameShown(w, name) == Fault(w, name \in MarkerNames, "marker_name")

\* "{" as the outermost brace
TopOpened(w) == Opened(w, "object", NoName)

JsonShape(kind) == IF IsList(kind) THEN "array" ELSE "object"

\* XML has no tags for lists; TEXT and SDPARAMS have none at all.
Tagged(kind) == opts.style = "xml" /\ ~IsList(kind)

\* Mutant: the outermost brace is not remembered.
NeedsTopAgain(kind) == Json /\ ~opts.noTop /\ kind # "instance"

NeedsTop(kind) == Json /\ ~opts.noTop /\ ~topEmitted /\ kind # "instance"

OpenWritten(kind, name) ==
    LET w == IF NeedsTop(kind) THEN TopOpened(written) ELSE written
    IN  CASE Json -> Opened(Item(w, kind # "instance", Top.notFirst),
                            JsonShape(kind), NoName)
          [] Tagged(kind) -> Opened(NameShown(w, name), "element", name)
          [] opts.style = "encoder" -> Opened(NameShown(w, name), kind, name)
          [] OTHER -> w

CloseWritten(kind, name) ==
    CASE Json -> Closed(written, JsonShape(kind), NoName)
      [] Tagged(kind) -> Closed(NameShown(written, name), "element", name)
      [] opts.style = "encoder" -> Closed(NameShown(written, name), kind, name)
      [] OTHER -> written

-----------------------------------------------------------------------------
(* The work an API call leaves to do: run xo_do_open_<kind>(name) or        *)
(* xo_do_close_<kind>(name), search for the frame xo_do_close has to close  *)
(* down to, continue xo_do_close_all's loop, write a field's value, or      *)
(* finish the document.                                                     *)

Task ==
    [op : {"open"}, kind : Kinds, name : AllNames]
    \cup [op : {"close"}, kind : Kinds, name : AllNames \cup {NoName}]
    \cup [op : {"search"}, kind : Kinds \cup {"marker"}, name : AllNames \cup {NoName}]
    \cup [op : {"close_all"}, at : Nat, limit : Nat]
    \cup [op : {"value"}, role : {"key", "value", "leaf"}, ok : BOOLEAN]
    \cup [op : {"finish"}]

OpenTask(kind, name) == [op |-> "open", kind |-> kind, name |-> name]
CloseTask(kind, name) == [op |-> "close", kind |-> kind, name |-> name]
SearchTask(kind, name) == [op |-> "search", kind |-> kind, name |-> name]
CloseAllTask(at, limit) == [op |-> "close_all", at |-> at, limit |-> limit]
ValueTask(role, ok) == [op |-> "value", role |-> role, ok |-> ok]
FinishTask == [op |-> "finish"]

Apis == {"open_container", "open_list", "open_instance", "open_leaf_list",
         "close_container", "close_list", "close_instance", "close_leaf_list",
         "open_marker", "close_marker", "emit", "emit_leaf_list", "finish"}

Calls == [api : Apis \cup {"none", "finished"}, name : AllNames \cup {NoName}]

Idle == [api |-> "none", name |-> NoName]
Finished == [api |-> "finished", name |-> NoName]

\* What the call does next; when nothing is left it returns.
Continue(tasks) ==
    /\ todo' = tasks
    /\ call' = IF tasks # <<>> THEN call
               ELSE IF call.api = "finish" THEN Finished ELSE Idle

Fails == failed' = TRUE

FailsIf(when) == failed' = (failed \/ when)

-----------------------------------------------------------------------------
(* The functions that open and close one construct *)

\* xo_depth_change, push: the new frame goes on top
Pushed(s, kind, name) == Append(s, NewFrame(kind, name))

\* Mutant: the root is popped like any other frame.
PopRefusedButRoot(name, list) ==
    /\ opts.warn
    /\ \/ Top.name # NoName /\ Top.name # name
       \/ list # IsList(Top.state)

\* Mutant: a leaf-list was pushed without XSF_LIST.
PopRefusedLeaf(name, list) ==
    \/ Len(stack) = 1
    \/ /\ opts.warn
       /\ \/ Top.name # NoName /\ Top.name # name
          \/ list # (Top.state = "list")

\* xo_depth_change, pop: the root stays, and XOF_WARN refuses a pop whose
\* name or list-ness is not the top frame's.
PopRefused(name, list) ==
    \/ Len(stack) = 1
    \/ /\ opts.warn
       /\ \/ Top.name # NoName /\ Top.name # name
          \/ list # IsList(Top.state)

PopReported(name, list) ==
    PopRefused(name, list) /\ ~(Len(stack) = 1 /\ opts.ignoreClose)

\* What the four functions that open a construct have in common: all of it,
\* but for the "{" of the outermost object, which an instance never needs.
DoOpen(kind, name) ==
    LET mapped == NameMap[name]
        parent == IF Json THEN HasItems(stack) ELSE stack
    IN  /\ written' = OpenWritten(kind, mapped)
        /\ stack' = Pushed(parent, kind, mapped)
        /\ topEmitted' = (topEmitted \/ NeedsTop(kind))
        /\ wrote' = (wrote \/ Json)
        /\ UNCHANGED opts

DoOpenContainer(name) == DoOpen("container", name)
DoOpenList(name) == DoOpen("list", name)
DoOpenInstance(name) == DoOpen("instance", name)
DoOpenLeafList(name) == DoOpen("leaf_list", name)

\* The close functions set XSF_NOT_FIRST on the frame they uncover, except
\* where the style has no use for it.
MarksParent(kind) ==
    \/ Json
    \/ IsList(kind) /\ opts.style # "encoder"
    \/ kind = "leaf_list"

\* A close without a name is one of the top frame, which may have none.
NameClosed(name) == IF name # NoName THEN name ELSE Top.name

\* Mutant: the caller's name is compared as it is.
MappedCloseRaw(name) ==
    IF NameClosed(name) = NoName THEN FailureName ELSE NameClosed(name)

MappedClose(name) ==
    NameMap[IF NameClosed(name) = NoName THEN FailureName ELSE NameClosed(name)]

\* SDPARAMS leaves containers and instances on the stack.
Inert(kind) == opts.style = "sdparams" /\ ~IsList(kind)

CloseReported(kind, name) ==
    \/ NameClosed(name) = NoName
    \/ ~Inert(kind) /\ PopReported(MappedClose(name), IsList(kind))

\* What the four functions that close a construct have in common
DoClose(kind, name) ==
    LET old == IF Json /\ IsList(kind) THEN HasItems(stack) ELSE stack
        uncovered == IF PopRefused(MappedClose(name), IsList(kind)) THEN old
                     ELSE Front(old)
    IN  /\ stack' = CASE Inert(kind) -> stack
                      [] ~Inert(kind) /\ MarksParent(kind) -> HasItems(uncovered)
                      [] OTHER -> uncovered
        /\ written' = CloseWritten(kind, MappedClose(name))
        /\ wrote' = (wrote \/ Json)
        /\ UNCHANGED <<opts, topEmitted>>

DoCloseContainer(name) == DoClose("container", name)
DoCloseList(name) == DoClose("list", name)
DoCloseInstance(name) == DoClose("instance", name)
DoCloseLeafList(name) == DoClose("leaf_list", name)

Closes(kind, name) ==
    \/ kind = "container" /\ DoCloseContainer(name)
    \/ kind = "list" /\ DoCloseList(name)
    \/ kind = "instance" /\ DoCloseInstance(name)
    \/ kind = "leaf_list" /\ DoCloseLeafList(name)

\* Mutant: what was written since the marker was opened is forgotten.
FlagsGivenButFirst(frame, flags) ==
    [frame EXCEPT !.emit = @ \/ flags.emit,
                  !.emitKey = @ \/ flags.emitKey,
                  !.emitLeaf = @ \/ flags.emitLeaf]

FlagsGiven(frame, flags) ==
    [frame EXCEPT !.notFirst = @ \/ flags.notFirst,
                  !.emit = @ \/ flags.emit,
                  !.emitKey = @ \/ flags.emitKey,
                  !.emitLeaf = @ \/ flags.emitLeaf]

\* xo_do_close_all at a marker's frame: its flags go to the frame below.
CloseMarkerFrame(name, flags) ==
    LET below == IF PopRefused(name, FALSE) THEN stack ELSE Front(stack)
    IN  /\ stack' = SetTop(below, FlagsGiven(below[Len(below)], flags))
        /\ UNCHANGED <<opts, topEmitted, wrote, written>>

\* An encoder's handler may return an error; nothing else here does.
ReturnCodes == IF opts.style = "encoder" /\ opts.encoderFails THEN BOOLEAN ELSE {TRUE}

\* The rest of a call when a step fails (rc < 0): only a field still has its
\* value formatted, and not written.
AfterError ==
    IF Last(todo).op = "value" THEN <<ValueTask(Last(todo).role, FALSE)>> ELSE <<>>

Working(op) == todo # <<>> /\ Head(todo).op = op

OpenStep ==
    /\ Working("open")
    /\ LET kind == Head(todo).kind
           name == Head(todo).name
       IN  \/ kind = "container" /\ DoOpenContainer(name)
           \/ kind = "list" /\ DoOpenList(name)
           \/ kind = "instance" /\ DoOpenInstance(name)
           \/ kind = "leaf_list" /\ DoOpenLeafList(name)
    /\ UNCHANGED failed
    /\ \E ok \in ReturnCodes : Continue(IF ok THEN Tail(todo) ELSE AfterError)

CloseStep ==
    /\ Working("close")
    /\ Closes(Head(todo).kind, Head(todo).name)
    /\ FailsIf(CloseReported(Head(todo).kind, Head(todo).name))
    /\ \E ok \in ReturnCodes : Continue(IF ok THEN Tail(todo) ELSE AfterError)

\* Mutant: the search passes markers.
StopsNowhere(kind, i) == FALSE

\* The search for a construct stops at a marker; that for a marker does not.
StopsAt(kind, i) == kind # "marker" /\ stack[i].state = "marker"

\* xo_do_close: a close by name cannot pass a marker; one without a name
\* stops at it, and closes it too.
SearchStep ==
    /\ Working("search")
    /\ LET kind == Head(todo).kind
           name == IF Head(todo).name = NoName THEN NoName ELSE NameMap[Head(todo).name]
           stops(i) == StopsAt(kind, i)
           matches(i) == /\ stack[i].state = kind
                         /\ name # NoName => stack[i].name \in {name, NoName}
           first(i) == /\ stops(i) \/ matches(i)
                       /\ \A j \in (i + 1)..Len(stack) : ~stops(j) /\ ~matches(j)
           frames == 2..Len(stack)
       IN  \/ /\ \E i \in frames : first(i) /\ ~(stops(i) /\ name # NoName)
                    /\ Continue(<<CloseAllTask(Len(stack), i)>> \o Tail(todo))
                    /\ FailsIf(stops(i))
           \/ /\ \A i \in frames : first(i) => stops(i) /\ name # NoName
              /\ Continue(Tail(todo))
              /\ Fails
    /\ UNCHANGED <<opts, stack, topEmitted, wrote, written>>

\* Mutant: the walk looks at the new top.
NewTop(at) == Len(stack')

\* xo_do_close_all walks the frames by address.
FrameBelow(at) == at - 1

\* One turn of xo_do_close_all's loop
CloseAllStep ==
    /\ Working("close_all")
    /\ LET at == Head(todo).at
           limit == Head(todo).limit
           frame == stack[at]
           rest == IF at > limit THEN <<CloseAllTask(FrameBelow(at), limit)>> \o Tail(todo)
                   ELSE Tail(todo)
       IN  /\ \/ /\ frame.state = "init"
                 /\ UNCHANGED <<opts, stack, topEmitted, wrote, written, failed>>
              \/ /\ frame.state = "marker"
                 /\ CloseMarkerFrame(frame.name, frame)
                 /\ FailsIf(PopReported(frame.name, FALSE))
              \/ /\ Closes(frame.state, NoName)
                 /\ \E ok \in ReturnCodes :
                       FailsIf(CloseReported(frame.state, NoName) \/ ~ok)
           /\ Continue(rest)

\* xo_format_value after its transition: remember what was emitted, whether
\* the transition worked or not, and write the value if it did.
ValueStep ==
    /\ Working("value")
    /\ LET role == Head(todo).role
           ok == Head(todo).ok
           frame == [Top EXCEPT !.emit = @ \/ role = "value",
                                !.emitKey = @ \/ role = "key",
                                !.emitLeaf = @ \/ (role = "leaf" /\ ok),
                                !.notFirst = @ \/ (Json /\ ok)]
           w == IF ok /\ NeedsTop("container") THEN TopOpened(written) ELSE written
           named == /\ role = "leaf" /\ opts.style \notin {"json", "text"}
                    /\ Top.name # NoName
       IN  /\ stack' = SetTop(stack, frame)
           /\ written' = CASE ~ok -> written
                           [] ok /\ Json -> Item(w, role # "leaf", Top.notFirst)
                           [] OTHER -> IF named THEN NameShown(w, NameMap[Top.name]) ELSE w
           /\ topEmitted' = (topEmitted \/ (ok /\ NeedsTop("container")))
           /\ wrote' = (wrote \/ (Json /\ ok))
    /\ Continue(Tail(todo))
    /\ UNCHANGED <<opts, failed>>

\* xo_finish_h once everything is closed: the outermost brace, or a pair of
\* them if nothing at all was written.
FinishStep ==
    /\ Working("finish")
    /\ topEmitted' = (topEmitted /\ (~Json \/ opts.noTop))
    /\ written' = IF Json /\ ~opts.noTop /\ (topEmitted \/ wrote)
                  THEN Closed(written, "object", NoName) ELSE written
    /\ wrote' = (wrote \/ Json)
    /\ Continue(Tail(todo))
    /\ UNCHANGED <<opts, stack, failed>>

Step ==
    \/ OpenStep
    \/ CloseStep
    \/ SearchStep
    \/ CloseAllStep
    \/ ValueStep
    \/ FinishStep

-----------------------------------------------------------------------------
(* The API calls: xo_transition's table, one action per new state *)

Begin(api, name, tasks) ==
    /\ call = Idle
    /\ todo' = tasks
    /\ call' = IF tasks = <<>> THEN Idle ELSE [api |-> api, name |-> name]
    /\ UNCHANGED <<opts, stack, topEmitted, wrote, written>>

Does(api, name, tasks) == Begin(api, name, tasks) /\ UNCHANGED failed

Complains(api, name, tasks) == Begin(api, name, tasks) /\ Fails

\* xo_marker_prevents_close
PreventedByMarker(api, name) == OnMarker /\ Complains(api, name, <<>>)

\* The bound: there is room for this many more frames.
Room(frames) == Len(stack) + frames <= MaxDepth

\* Mutant: the table closes no list for a container.
OpenContainerAnywhere(n) ==
    Room(1) /\ Does("open_container", n, <<OpenTask("container", n)>>)

OpenContainer(n) ==
    \/ /\ Real.state \in {"init", "container", "instance"} /\ Room(1)
       /\ Does("open_container", n, <<OpenTask("container", n)>>)
    \/ IsList(Real.state) /\ PreventedByMarker("open_container", n)
    \/ /\ IsList(Real.state) /\ ~OnMarker
       /\ Does("open_container", n,
               <<CloseTask("leaf_list", NoName), OpenTask("container", n)>>)

OpenList(n) ==
    \/ /\ Real.state \in {"init", "container", "instance"} /\ Room(1)
       /\ Does("open_list", n, <<OpenTask("list", n)>>)
    \/ IsList(Real.state) /\ PreventedByMarker("open_list", n)
    \/ /\ IsList(Real.state) /\ ~OnMarker
       /\ Does("open_list", n,
               <<CloseTask(Real.state, NoName), OpenTask("list", n)>>)

\* A list is opened for an instance that has none, but not after a leaf-list.
OpenInstance(n) ==
    \/ /\ Real.state = "list" /\ Room(1)
       /\ Does("open_instance", n, <<OpenTask("instance", n)>>)
    \/ /\ \/ Real.state \in {"init", "container"}
          \/ Real.state = "instance" /\ OnMarker
       /\ Room(2)
       /\ Does("open_instance", n, <<OpenTask("list", n), OpenTask("instance", n)>>)
    \/ /\ Real.state = "instance" /\ ~OnMarker /\ Room(1)
       /\ Does("open_instance", n,
               <<CloseTask("instance", NoName), OpenTask("instance", n)>>)
    \/ Real.state = "leaf_list" /\ PreventedByMarker("open_instance", n)
    \/ /\ Real.state = "leaf_list" /\ ~OnMarker
       /\ Does("open_instance", n,
               <<CloseTask("leaf_list", NoName), OpenTask("instance", n)>>)

OpenLeafList(n) ==
    \/ /\ Real.state \in {"init", "container", "instance"} /\ Room(1)
       /\ Does("open_leaf_list", n, <<OpenTask("leaf_list", n)>>)
    \/ IsList(Real.state) /\ PreventedByMarker("open_leaf_list", n)
    \/ /\ IsList(Real.state) /\ ~OnMarker
       /\ Does("open_leaf_list", n,
               <<CloseTask("list", NoName), OpenTask("leaf_list", n)>>)

\* At the root, xo_do_close_container is called at once: "xo --close" needs it.
CloseContainer(n) ==
    \/ /\ Real.state = "init"
       /\ Does("close_container", n, <<CloseTask("container", n)>>)
    \/ Real.state # "init" /\ PreventedByMarker("close_container", n)
    \/ /\ Real.state \in {"container", "list", "instance"} /\ ~OnMarker
       /\ Does("close_container", n, <<SearchTask("container", n)>>)
    \/ /\ Real.state = "leaf_list" /\ ~OnMarker
       /\ Does("close_container", n,
               <<CloseTask("leaf_list", NoName), SearchTask("container", n)>>)

CloseList(n) ==
    \/ Real.state = "list" /\ PreventedByMarker("close_list", n)
    \/ /\ Real.state # "list" \/ ~OnMarker
       /\ Does("close_list", n, <<SearchTask("list", n)>>)

CloseInstance(n) ==
    \/ Real.state # "init" /\ PreventedByMarker("close_instance", n)
    \/ Real.state = "init" /\ Complains("close_instance", n, <<>>)
    \/ /\ Real.state = "instance" /\ ~OnMarker
       /\ Does("close_instance", n, <<CloseTask("instance", n)>>)
    \/ /\ Real.state \in {"container", "list"} /\ ~OnMarker
       /\ Does("close_instance", n, <<SearchTask("instance", n)>>)
    \/ /\ Real.state = "leaf_list" /\ ~OnMarker
       /\ Does("close_instance", n,
               <<CloseTask("leaf_list", NoName), SearchTask("instance", n)>>)

CloseLeafList(n) ==
    \/ Real.state # "init" /\ PreventedByMarker("close_leaf_list", n)
    \/ Real.state = "init" /\ Complains("close_leaf_list", n, <<>>)
    \/ /\ Real.state = "leaf_list" /\ ~OnMarker
       /\ Does("close_leaf_list", n, <<CloseTask("leaf_list", n)>>)
    \/ /\ Real.state \in {"container", "list", "instance"} /\ ~OnMarker
       /\ Does("close_leaf_list", n, <<SearchTask("leaf_list", n)>>)

\* xo_open_marker_h: a frame with a copy of the flags of the one below
OpenMarker(n) ==
    /\ Room(1)
    /\ call = Idle
    /\ stack' = Append(stack, [Top EXCEPT !.state = "marker", !.name = n])
    /\ UNCHANGED <<opts, topEmitted, wrote, written, failed, call, todo>>

CloseMarker(n) == Does("close_marker", n, <<SearchTask("marker", n)>>)

\* A key or an ordinary field: xo_format_value asks for XSS_EMIT unless the
\* frame remembers that such a field was emitted in it.  A key that comes after
\* a value is reported and is a value.
Emit(role) ==
    LET late == role = "key" /\ Top.emit
        known == IF role = "key" THEN Top.emitKey ELSE Top.emit /\ ~Top.emitLeaf
        value == ValueTask(IF late THEN "value" ELSE role, TRUE)
        does(tasks) == Does("emit", NoName, tasks)
    IN  \/ /\ late \/ known
           /\ Begin("emit", NoName, <<value>>)
           /\ FailsIf(late)
        \/ /\ ~late /\ ~known
           /\ \/ Real.state \in {"container", "instance"} /\ does(<<value>>)
              \/ Real.state = "init" /\ opts.noTopLevel /\ does(<<value>>)
              \/ /\ Real.state = "init" /\ ~opts.noTopLevel /\ Room(1)
                 /\ Complains("emit", NoName,
                              <<OpenTask("container", FakeTopName), value>>)
              \/ /\ IsList(Real.state) /\ OnMarker
                 /\ Complains("emit", NoName, <<ValueTask(role, FALSE)>>)
              \/ /\ Real.state = "list" /\ ~OnMarker
                 /\ does(<<SearchTask("list", NoName), value>>)
              \/ /\ Real.state = "leaf_list" /\ ~OnMarker
                 /\ does(<<CloseTask("leaf_list", NoName), value>>)

\* A field with the leaf-list modifier, {l:}, which opens its leaf-list itself
EmitLeafList(n) ==
    LET value == ValueTask("leaf", TRUE)
        known == /\ Top.emitLeaf /\ ~Top.emit /\ ~Top.emitKey
                 /\ Top.name \in {n, NoName}
        other == Real.name \notin {n, NoName}
        does(tasks) == Does("emit_leaf_list", n, tasks)
    IN  \/ known /\ does(<<value>>)
        \/ /\ ~known
           /\ \/ /\ Real.state \in {"init", "container", "instance"} /\ Room(1)
                 /\ does(<<OpenTask("leaf_list", n), value>>)
              \/ /\ Real.state = "list" \/ (Real.state = "leaf_list" /\ ~other)
                 /\ does(<<value>>)
              \/ /\ Real.state = "leaf_list" /\ other /\ ~OnMarker
                 /\ does(<<CloseTask("leaf_list", NoName),
                           OpenTask("leaf_list", n), value>>)
              \/ /\ Real.state = "leaf_list" /\ other /\ OnMarker
                 /\ Complains("emit_leaf_list", n, <<ValueTask("leaf", FALSE)>>)

\* xo_finish_h, after which the caller is done with the handle
Finish ==
    Does("finish", NoName,
         IF opts.noClose THEN <<FinishTask>>
         ELSE <<CloseAllTask(Len(stack), 1), FinishTask>>)

-----------------------------------------------------------------------------

Root == NewFrame("init", NoName)

Document == [shape |-> "document", name |-> NoName, some |-> FALSE]

Init ==
    /\ opts \in Options
    /\ stack = <<Root>>
    /\ topEmitted = FALSE
    /\ wrote = FALSE
    /\ written = [open |-> <<Document>>, faults |-> {}]
    /\ failed = FALSE
    /\ call = Idle
    /\ todo = <<>>

Call ==
    \/ \E n \in Names :
        OpenContainer(n) \/ OpenList(n) \/ OpenInstance(n) \/ OpenLeafList(n)
        \/ EmitLeafList(n)
    \/ \E n \in Names \cup {NoName} :
        CloseContainer(n) \/ CloseList(n) \/ CloseInstance(n) \/ CloseLeafList(n)
    \/ \E n \in MarkerNames : OpenMarker(n)
    \/ \E n \in MarkerNames \cup {NoName} : CloseMarker(n)
    \/ \E role \in Roles : Emit(role)
    \/ Finish

Next == Call \/ Step

Spec == Init /\ [][Next]_vars

\* A call that has begun runs on: it waits for nobody.
Runs == WF_vars(Step)

-----------------------------------------------------------------------------
(* Correctness *)

\* Type invariant.  The stack never loses its root.
TypeOK ==
    /\ opts \in Options
    /\ stack \in Seq(Frame) /\ stack # <<>>
    /\ topEmitted \in BOOLEAN
    /\ wrote \in BOOLEAN
    /\ written \in Written /\ written.open # <<>>
    /\ failed \in BOOLEAN
    /\ call \in Calls
    /\ todo \in Seq(Task)

\* A list directly holds nothing but instances, and a leaf-list holds no
\* construct at all, whatever calls the caller left out and whatever markers
\* it opened (xo_transition, libxo.c:10447-10710).
ListsHoldInstances ==
    \A i, j \in DOMAIN stack :
        i < j /\ Holds(stack, i, j) /\ IsList(stack[i].state) =>
            \/ stack[j].state = "marker"
            \/ stack[i].state = "list" /\ stack[j].state = "instance"

\* A marker leaves the stack only when the caller closes it, finishes, or
\* makes one of the two closes that take a marker with them: one without a
\* name, and xo_close_container with nothing but markers open
\* (libxo.c:10372-10433, 10471-10474).
MarkerStays ==
    [][\A i \in DOMAIN stack :
          stack[i].state = "marker" /\ i \notin DOMAIN stack' =>
              \/ call.api \in {"close_marker", "finish"}
              \/ call.name = NoName
              \/ call.api = "close_container" /\ Real.state = "init"]_vars

\* Every comma of the JSON output separates two items of one object or array,
\* however items, closes and markers mix: XSF_NOT_FIRST moves with the frames
\* and between a frame and its markers (libxo.c:5607-5616, 10345-10351).
CommasSeparate == "comma" \notin written.faults

\* Items of JSON objects have labels and those of arrays have none.
LabelsFit == written.faults \cap {"label", "bare"} = {}

\* Every close written is that of the innermost construct open in the output.
ClosesMatch == "unmatched" \notin written.faults

\* The frames a reader sees, each as a construct, and the place of frame i's
\* among those open
Visible(f) ==
    \/ f.state \in Kinds /\ opts.style \in {"json", "encoder"}
    \/ f.state \in {"container", "instance"} /\ opts.style = "xml"

Count(s, i) == Cardinality({k \in 1..i : Visible(s[k])})

Braces == IF Json /\ topEmitted THEN 2 ELSE 1

Place(i) == Braces + Count(stack, i)

ShapeOf(f) == CASE Json -> JsonShape(f.state)
                [] opts.style = "xml" -> "element"
                [] OTHER -> f.state

Mirrors(c, f) == c.shape = ShapeOf(f) /\ (~Json => c.name = f.name)

Mirrored ==
    /\ Len(written.open) = Place(Len(stack))
    /\ \A i \in DOMAIN stack : Visible(stack[i]) => Mirrors(written.open[Place(i)], stack[i])

\* Once a call returned, the constructs open in the output are those on the
\* stack, in order and of the same kind and name.
OutputMatchesStack == todo = <<>> => Mirrored

\* Every call returns, even when the frames it closes stay on the stack, as a
\* refused pop and SDPARAMS leave them: xo_do_close_all walks the frames by
\* address, not by depth (libxo.c:10323-10367).
CallReturns == todo # <<>> ~> todo = <<>>

\* xo_finish completes the document.
FinishedIsBalanced == call = Finished /\ ~opts.noClose => Len(written.open) = 1

=============================================================================
