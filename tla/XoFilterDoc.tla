---------------------------- MODULE XoFilterDoc ----------------------------
(***************************************************************************)
(* A document that libxo writes through a filter, and what a reader of     *)
(* doc/filters.rst expects the filter to say of it.                        *)
(*                                                                         *)
(* Expressions are given before the document begins.  A field goes to the  *)
(* matcher in the order of xo_filt_do_open_field, for the XML and JSON     *)
(* styles: its value first, for the predicates of the element it is in,    *)
(* then the field itself, as an element without children.                  *)
(***************************************************************************)
EXTENDS XoFilter

CONSTANTS
    Containers,     \* BOUND: names of containers
    Instances,      \* BOUND: names of instances
    Fields,         \* BOUND: names of fields
    KeyFields,      \* the fields that carry the "k" modifier
    Expressions,    \* BOUND: filters the user may give, in this order
    MaxPaths,       \* BOUND: how many of them
    MaxLevel,       \* BOUND: containers and instances opened inside each other
    MaxElements     \* BOUND: containers and instances in the document

ASSUME DocAssumption ==
    /\ Containers \cup Instances \cup Fields \subseteq Tags
    /\ KeyFields \subseteq Fields
    /\ ToSet(Expressions) \subseteq Path

VARIABLES
    doc,            \* the open elements, doc[1] stands above the document
    field,          \* the field whose value the matcher was given, or NoField
    opened          \* BOUND: how many containers and instances were opened

docVars == <<filter, doc, field, opened>>

NoField == [tag |-> NoValue, value |-> NoValue]

\* said: the fields emitted so far, fields: their values.  kids: the containers
\* and instances closed in it.  above: what the parent's fields were when it was
\* opened.
Element(tag, kind, fields, above) ==
    [tag |-> tag, kind |-> kind, said |-> {}, fields |-> fields,
     kids |-> <<>>, above |-> above]

Blank == [o \in Operands |-> Unseen]

Here == doc[Len(doc)]

DocInit ==
    /\ Init
    /\ doc = <<Element(NoValue, "root", Blank, Blank)>>
    /\ field = NoField
    /\ opened = 0

-----------------------------------------------------------------------------
(* The calls of libxo *)

GiveFilter(i) ==
    /\ filter.status = "zero"
    /\ Len(filter.paths) < MaxPaths
    /\ \A j \in i..Len(Expressions) : Expressions[j] \notin ToSet(filter.paths)
    /\ AddFilter(Expressions[i])
    /\ UNCHANGED <<doc, field, opened>>

\* To the matcher containers, instances and fields are elements alike.
Begun(tag, kind, fields) ==
    doc' = Append(doc, Element(tag, kind, fields, Here.fields))

Ended ==
    doc' = [Front(doc) EXCEPT ![Len(doc) - 1].kids =
        IF Here.kind = "field" THEN @
        ELSE Append(@, [tag |-> Here.tag, fields |-> Here.fields])]

MayBegin ==
    /\ Here.kind # "field"
    /\ field = NoField

OpenElement(kind, tag) ==
    /\ MayBegin
    /\ Len(doc) <= MaxLevel
    /\ opened < MaxElements
    /\ opened' = opened + 1
    /\ Open(tag, NoValue)
    /\ Begun(tag, kind, Blank)
    /\ UNCHANGED field

\* A field has one value, and keys come before anything else.
\* BOUND: there are no fields outside of elements.
MayEmit(tag) ==
    /\ MayBegin
    /\ Here.kind # "root"
    /\ tag \notin Here.said
    /\ tag \in KeyFields => Here.said \subseteq KeyFields /\ Here.kids = <<>>

\* Predicates are not told of an empty value, unless it is a key's.
Emitted(tag, value) ==
    LET told == tag \in KeyFields \/ value # Empty
    IN  /\ MayEmit(tag)
        /\ doc' = [doc EXCEPT ![Len(doc)].said = @ \cup {tag},
                              ![Len(doc)].fields[tag] = IF told THEN value ELSE @]
        /\ field' = [tag |-> tag, value |-> value]
        /\ UNCHANGED opened

EmitKey(tag, value) ==
    /\ tag \in KeyFields
    /\ Emitted(tag, value)
    /\ Key(tag, value)

EmitValue(tag, value) ==
    /\ tag \notin KeyFields
    /\ Emitted(tag, value)
    /\ IF value # Empty /\ filter.status \in {"track", "pred"}
       THEN PredField(tag, value)
       ELSE Active /\ UNCHANGED filter

OpenField ==
    /\ field # NoField
    /\ Open(field.tag, field.value)
    /\ Begun(field.tag, "field",
             IF field.value = Empty THEN Blank ELSE [Blank EXCEPT ![Dot] = field.value])
    /\ field' = NoField
    /\ UNCHANGED opened

CloseElement ==
    /\ field = NoField
    /\ \/ Here.kind \in {"container", "field"} /\ Close
       \/ Here.kind = "instance" /\ CloseInstance
    /\ Ended
    /\ UNCHANGED <<field, opened>>

DocNext ==
    \/ \E i \in DOMAIN Expressions : GiveFilter(i)
    \/ \E tag \in Containers : OpenElement("container", tag)
    \/ \E tag \in Instances : OpenElement("instance", tag)
    \/ \E tag \in Fields, value \in Values :
        EmitKey(tag, value) \/ EmitValue(tag, value)
    \/ OpenField
    \/ CloseElement

DocSpec == DocInit /\ [][DocNext]_docVars

-----------------------------------------------------------------------------
(* What the filter expressions mean *)

\* Does an element with this tag and these fields pass the step's tests before
\* predicate j?
PassesBefore(step, j, tag, fields, forced) ==
    {TestsVerdict(step.preds[m], fields, forced) : m \in 1..(j - 1)}

\* XPath's position: among the elements of one parent that match the step's
\* name and the predicates to the left of the index.
Ordinal(step, j, i) ==
    1 + Cardinality({k \in DOMAIN doc[i - 1].kids :
            LET kid == doc[i - 1].kids[k]
            IN  /\ step.tag \in {kid.tag, AnyTag}
                /\ PassesBefore(step, j, kid.tag, kid.fields, TRUE) \subseteq {"true"}})

\* Does element i satisfy predicate j, with these fields?
Satisfies(step, j, i, fields, forced) ==
    IF step.preds[j].index = 0
    THEN TestsVerdict(step.preds[j], fields, forced)
    ELSE IF "missing" \in PassesBefore(step, j, doc[i].tag, fields, forced)
    THEN "missing"
    ELSE Truth(Ordinal(step, j, i) = step.preds[j].index)

Fits(step, i, fields, forced) ==
    LET verdicts == {Satisfies(step, j, i, fields, forced) : j \in DOMAIN step.preds}
    IN  IF step.tag \notin {doc[i].tag, AnyTag} \/ "false" \in verdicts THEN "false"
        ELSE IF "missing" \in verdicts THEN "missing"
        ELSE "true"

\* Do the first n steps of the path lead to element i?  Its ancestors count as
\* they were when the next element was opened: what comes later comes too late.
Leads(path, n, i, forced) ==
    LET first == i - n
    IN  IF /\ first >= 1
           /\ path.absolute => first = 1
           /\ \A s \in 1..(n - 1) :
                Fits(path.steps[s], first + s, doc[first + s + 1].above, FALSE) = "true"
        THEN Fits(path.steps[n], i, doc[i].fields, forced)
        ELSE "false"

Given == ToSet(filter.paths)

\* Does a path of this sort select an open element?
Selected(negated, forced) ==
    \E path \in Given, i \in 2..Len(doc) :
        /\ path.negated = negated
        /\ Leads(path, Len(path.steps), i, forced /\ i = Len(doc)) = "true"

\* Could a path lead further if a field of this element says so?
Undecided(forced) ==
    \E path \in Given : \E n \in DOMAIN path.steps :
        Leads(path, n, Len(doc), forced) = "missing"

Wanted(forced) ==
    IF Selected(TRUE, forced) THEN "track"
    ELSE IF Selected(FALSE, forced) \/ \A path \in Given : path.negated THEN "full"
    ELSE IF Len(doc) > 1 /\ Undecided(forced) THEN "pred"
    ELSE "track"

-----------------------------------------------------------------------------
(* Properties *)

\* doc/filters.rst: output is written in full below an element that some
\* expression selects and none rejects, held back while an expression waits for
\* a field of this element, and tracked otherwise.  The matcher says so at every
\* moment, whatever was opened and closed before.
StatusIsWanted == filter.status \in {"zero", Wanted(FALSE)}

\* doc/filters.rst:298-300: an instance that closes with a predicate undecided
\* is judged with empty values for the fields that never came; the answer that
\* xo_do_close_instance gets, when the instance is gone already, is that verdict.
JudgedAtClose ==
    [][Here.kind = "instance" /\ Len(doc') < Len(doc) =>
        (filter'.answer = "full") = (Wanted(TRUE) = "full" \/ filter'.status = "full")]_docVars
=============================================================================
