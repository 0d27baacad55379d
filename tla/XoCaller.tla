----------------------------- MODULE XoCaller ------------------------------
(***************************************************************************)
(* XoStack under two callers that are bound by more than the API is.       *)
(*                                                                         *)
(* xo_explicit.h:24-30 wants the library to recover from any order of      *)
(* calls without writing invalid XML or JSON.  The tolerable caller may    *)
(* make any call but those, listed in Kept, that the library does not      *)
(* recover from: its closes may still be missing, misplaced or wrongly     *)
(* named, its fields may come anywhere, and its markers may stand between  *)
(* any two constructs.  What the library writes for it must be right.      *)
(*                                                                         *)
(* The proper caller makes no mistake that the library has to repair, so   *)
(* it must hear of none.                                                   *)
(***************************************************************************)
EXTENDS XoStack

Begins(api) == call = Idle /\ call'.api = api

Kept ==
    \* the root has no container to close
    /\ Begins("close_container") => Real.state # "init"
    \* these two closes do not search for the name they are given
    /\ Begins("close_instance") /\ Real.state = "instance" /\ call'.name # NoName =>
           NameMap[call'.name] = Real.name
    /\ Begins("close_leaf_list") /\ Real.state = "leaf_list" /\ call'.name # NoName =>
           NameMap[call'.name] = Real.name
    \* a leaf-list is closed before an instance is opened beside it
    /\ Begins("open_instance") => Real.state # "leaf_list"
    \* no field where a marker protects a list
    /\ Begins("emit") => ~(OnMarker /\ IsList(Real.state))
    \* an encoder's lists and leaf-lists are closed as what they are
    /\ opts.style = "encoder" =>
           /\ Begins("open_container") => ~(Real.state = "list" /\ ~OnMarker)
           /\ Begins("open_leaf_list") => ~(Real.state = "leaf_list" /\ ~OnMarker)

KeptSpec == Init /\ [][Next /\ Kept]_vars /\ Runs

-----------------------------------------------------------------------------

\* Leaf-list fields open their leaf-list, and what follows them closes it.
Unfinished == Real.state = "leaf_list" /\ ~OnMarker

\* The frame that is on top once an unfinished leaf-list is closed
Enclosing == IF Unfinished THEN stack[Len(stack) - 1] ELSE Top

\* n closes this frame.
Ends(n, kind, frame) ==
    frame.state = kind /\ (n # NoName => NameMap[n] = frame.name)

ProperCall ==
    \/ /\ Real.state \in {"init", "container", "instance"} \/ Unfinished
       /\ \E n \in Names :
            \/ OpenContainer(n) \/ OpenList(n) \/ EmitLeafList(n)
            \/ ~Unfinished /\ OpenLeafList(n)
    \/ /\ Real.state = "list"
       /\ \E n \in Names : OpenInstance(n)
    \/ \E n \in Names \cup {NoName} :
          \/ Ends(n, "container", Enclosing) /\ CloseContainer(n)
          \/ Ends(n, "instance", Enclosing) /\ CloseInstance(n)
          \/ Ends(n, "list", Top) /\ CloseList(n)
          \/ Ends(n, "leaf_list", Top) /\ CloseLeafList(n)
    \/ \E n \in MarkerNames : OpenMarker(n)
    \/ \E n \in MarkerNames \cup {NoName} :
          /\ \E i \in DOMAIN stack : Ends(n, "marker", stack[i])
          /\ CloseMarker(n)
    \/ /\ \/ Real.state \in {"container", "instance"} \/ Unfinished
          \/ Real.state = "init" /\ opts.noTopLevel
       /\ \E role \in Roles : (role = "key" => ~Top.emit) /\ Emit(role)
    \/ Finish

ProperSpec == Init /\ [][ProperCall \/ Step]_vars

\* The proper caller never hears from xo_failure: every name it closes is the
\* one on the frame, even where the map renamed it, and no repair is reported
\* that is not one.  (xo_sibling_check's warnings are about names that come
\* twice in one parent, and are not modelled.)
NoComplaint == ~failed

=============================================================================
