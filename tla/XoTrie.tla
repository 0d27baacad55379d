------------------------------ MODULE XoTrie ------------------------------
(***************************************************************************)
(* Filter expressions of libxo (src/filter/xo_filter.c): paths, the trie   *)
(* they are compiled into and the evaluation of their predicates.          *)
(*                                                                         *)
(* A path such as !/a/b[k='x'][2] is what the expression parser delivers:  *)
(* a record of flags and steps.  A trie is a sequence of nodes; a node's   *)
(* id is its place, 0 stands for the root.                                 *)
(***************************************************************************)
EXTENDS Integers, Sequences, FiniteSets, SequencesExt

CONSTANTS
    Tags,       \* names of containers, instances and fields
    AnyTag,     \* the step "*"
    Dot,        \* the operand "." of a test: the element's own value
    Values,     \* values a field may have
    Empty,      \* the empty value
    Unseen      \* no value, for a field that was not emitted yet

ASSUME TagsAssumption ==
    /\ AnyTag \notin Tags
    /\ Dot \notin Tags
    /\ Empty \in Values
    /\ Unseen \notin Values

-----------------------------------------------------------------------------
(* Predicates *)

Operands == Tags \cup {Dot}

Test == [field : Operands, value : Values]

\* [n] has an index, any other predicate joins one or two tests.
Predicate ==
    [index : Nat, tests : SUBSET Test, join : {"and", "or"}, negate : BOOLEAN]

Index(n) == [index |-> n, tests |-> {}, join |-> "and", negate |-> FALSE]

Where(field, value) ==
    [index |-> 0, tests |-> {[field |-> field, value |-> value]},
     join |-> "and", negate |-> FALSE]

Verdicts == {"true", "false", "missing"}

Truth(b) == IF b THEN "true" ELSE "false"

\* xo_eval: an operation waits for all its operands.  When forced, an absent
\* field is an empty one.
TestsVerdict(p, fields, forced) ==
    LET value(f) == IF fields[f] = Unseen /\ forced THEN Empty ELSE fields[f]
        holds(t) == value(t.field) = t.value
    IN  IF \E t \in p.tests : value(t.field) = Unseen
        THEN "missing"
        ELSE Truth((IF p.join = "and" THEN \A t \in p.tests : holds(t)
                                      ELSE \E t \in p.tests : holds(t)) # p.negate)

\* Position 0 is that of an element that could not be counted.
PredicateVerdict(p, fields, position, forced) ==
    IF p.index # 0
    THEN Truth(position # 0 /\ position = p.index)
    ELSE TestsVerdict(p, fields, forced)

\* The predicates of a step are joined by "and"; one that is false decides,
\* whatever the others wait for.
StepVerdict(preds, fields, position, forced) ==
    LET verdicts == {PredicateVerdict(preds[i], fields, position, forced)
                        : i \in DOMAIN preds}
    IN  IF "false" \in verdicts THEN "false"
        ELSE IF "missing" \in verdicts THEN "missing"
        ELSE "true"

\* xo_filter_leading_preds_eval keeps the verdict of the last predicate it
\* looks at.
LeadingVerdict(preds, fields) ==
    LET leading == SelectSeq(preds, LAMBDA p : p.index = 0)
        verdict(i) == TestsVerdict(leading[i], fields, FALSE)
    IN  IF \E i \in DOMAIN leading : verdict(i) = "missing" THEN "missing"
        ELSE IF leading = <<>> THEN "true"
        ELSE verdict(Len(leading))

HasTrailingIndex(preds) ==
    \E i, j \in DOMAIN preds : i < j /\ preds[i].index = 0 /\ preds[j].index # 0

Needs(preds, tag) ==
    \E i \in DOMAIN preds : \E t \in preds[i].tests : t.field = tag

-----------------------------------------------------------------------------
(* Paths and the trie *)

Step == [tag : Tags \cup {AnyTag}, preds : Seq(Predicate)]

\* !path is negated, /path absolute.
Path ==
    {path \in [negated : BOOLEAN, absolute : BOOLEAN, steps : Seq(Step)] :
        path.steps # <<>>}

\* XTNF_TERMINAL, XTNF_NOT and XTNF_ABSOLUTE are "terminal", "negated" and
\* "absolute".
Node(parent, tag) ==
    [parent |-> parent, tag |-> tag, preds |-> <<>>,
     terminal |-> FALSE, negated |-> FALSE, absolute |-> FALSE]

\* xo_trie_get_wildcard_child finds the "*" that is already there.
\* xo_trie_get_child never finds a name: it compares offsets of strings, and
\* the parser stores every name it reads as a new string.
ChildFor(trie, parent, tag) ==
    LET known == {n \in DOMAIN trie :
                    tag = AnyTag /\ trie[n].tag = AnyTag /\ trie[n].parent = parent}
    IN  IF known # {} THEN CHOOSE n \in known : TRUE ELSE Len(trie) + 1

\* One turn of xo_trie_insert's loop, at the node "at".
InsertStep(built, step, absolute) ==
    LET n == ChildFor(built.trie, built.at, step.tag)
        grown == IF n \in DOMAIN built.trie THEN built.trie
                 ELSE Append(built.trie, Node(built.at, step.tag))
    IN  [at |-> n,
         trie |-> [grown EXCEPT
            ![n].absolute = @ \/ (built.at = 0 /\ absolute),
            ![n].preds = IF step.preds = <<>> THEN @ ELSE step.preds]]

\* A recursive function, like that of Compile, as both are reasoned about.
Insert(trie, path) ==
    LET built[i \in 0..Len(path.steps)] ==
            IF i = 0 THEN [trie |-> trie, at |-> 0]
            ELSE InsertStep(built[i - 1], path.steps[i], path.absolute)
        end == built[Len(path.steps)]
    IN  [end.trie EXCEPT ![end.at].terminal = TRUE,
                         ![end.at].negated = @ \/ path.negated]

\* xo_trie_compile
Compile(paths) ==
    LET trie[i \in 0..Len(paths)] ==
            IF i = 0 THEN <<>> ELSE Insert(trie[i - 1], paths[i])
    IN  trie[Len(paths)]
=============================================================================
