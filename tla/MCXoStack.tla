----------------------------- MODULE MCXoStack -----------------------------
(* Small handles for XoStack: two names, one marker, a name map.            *)
EXTENDS XoCaller

CONSTANTS a, b, m, noName, failure, data

Flags == [style |-> "json", warn |-> TRUE, noTop |-> FALSE, noTopLevel |-> FALSE,
          noClose |-> FALSE, ignoreClose |-> FALSE, encoderFails |-> FALSE]

TwoNames == {a, b}
OneName == {a}
BothRoles == {"key", "value"}
OneRole == {"value"}
OneMarker == {m}

NoMap == [n \in AllNames |-> n]
MapAToB == [NoMap EXCEPT ![a] = b]

Json1 == {Flags}

\* XOF_NO_CLOSE is for callers that write no outermost braces either.
JsonFlags ==
    {Flags} \cup
    {[Flags EXCEPT !.warn = FALSE, !.noTop = TRUE, !.noTopLevel = l, !.noClose = l]
        : l \in BOOLEAN}

\* The frames depend neither on what is written nor, but for SDPARAMS, on the
\* style.
AnyStyles == {[Flags EXCEPT !.style = "text", !.warn = w] : w \in BOOLEAN}

TagStyles ==
    {[Flags EXCEPT !.style = "xml", !.warn = w] : w \in BOOLEAN} \cup
    {[Flags EXCEPT !.style = "encoder", !.encoderFails = TRUE],
     [Flags EXCEPT !.style = "sdparams"]}

ProperStyles ==
    {[Flags EXCEPT !.style = s, !.noTopLevel = l]
        : s \in {"json", "xml", "encoder"}, l \in BOOLEAN}

\* Text and JSON: one name, which is enough for both
TextAndJson == AnyStyles \cup JsonFlags

\* In text, where nothing is written that could be wrong, any call; BOUND: but no
\* key fields, which are to the frames what others are.  In JSON the calls of the
\* tolerable caller.
AnySpec == Init /\ [][Next /\ IF opts.style = "json" THEN Kept ELSE ~Emit("key")]_vars
=============================================================================
