------------------------------ MODULE MCXoKept ------------------------------
(* Small documents for XoKept: a list of instances a, a container b, a key k *)
(* and a field v.                                                            *)
EXTENDS XoKeptClaims

CONSTANTS a, b, k, v, x, empty, unseen, star, dot, noValue

OnlyA == {a}
OnlyB == {b}
TwoFields == {k, v}
OneKey == {k}
AllTags == {a, b, k, v}
TwoValues == {x, empty}

Relative(steps) == [negated |-> FALSE, absolute |-> FALSE, steps |-> steps]
Not(path) == [path EXCEPT !.negated = TRUE]
Plain(tag) == [tag |-> tag, preds |-> <<>>]
With(tag, preds) == [tag |-> tag, preds |-> preds]

V == Relative(<<Plain(v)>>)
BV == Relative(<<Plain(b), Plain(v)>>)
A2 == Relative(<<With(a, <<Index(2)>>)>>)                       \* a[2]
Akx == Relative(<<With(a, <<Where(k, x)>>)>>)                   \* a[k='x']
Avx == Relative(<<With(a, <<Where(v, x)>>)>>)                   \* a[v='x']
AkxB == Relative(<<With(a, <<Where(k, x)>>), Plain(b)>>)        \* a[k='x']/b
BAkx == Relative(<<Plain(b), With(a, <<Where(k, x)>>)>>)        \* b/a[k='x']
NotB == [Relative(<<Plain(b)>>) EXCEPT !.negated = TRUE]        \* !b

Xml(f) == [style |-> "xml", pretty |-> FALSE, flush |-> f]
JsonP(p) == [style |-> "json", pretty |-> p, flush |-> FALSE]
JsonFlush == [JsonP(TRUE) EXCEPT !.flush = TRUE]

AllOptions == {Xml(f) : f \in BOOLEAN} \cup {JsonP(p) : p \in BOOLEAN} \cup {JsonFlush}

Case(o, paths) == [opts |-> o, paths |-> paths]

\* The handles and filters for which the output comes out as expected
KeptCases ==
    {Case(Xml(TRUE), <<AkxB>>), Case(Xml(TRUE), <<Akx, BV>>),
     Case(Xml(FALSE), <<NotB>>),
     Case(JsonP(TRUE), <<Akx>>), Case(JsonP(FALSE), <<BAkx>>),
     Case(JsonFlush, <<BV>>), Case(JsonFlush, <<V>>)}

PredicateCase == {Case(Xml(FALSE), <<Avx>>)}
=============================================================================
