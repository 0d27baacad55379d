---------------------------- MODULE MCXoFilter ----------------------------
(* Small documents for XoFilterDoc: instances a, containers b, a key k, a field v.   *)
EXTENDS XoFilterDoc

CONSTANTS a, b, k, v, x, empty, unseen, star, dot, noValue

OnlyA == {a}
OnlyB == {b}
TwoFields == {k, v}
OneKey == {k}
AllTags == {a, b, k, v}
TwoValues == {x, empty}

Relative(steps) == [negated |-> FALSE, absolute |-> FALSE, steps |-> steps]
Absolute(steps) == [Relative(steps) EXCEPT !.absolute = TRUE]
Not(path) == [path EXCEPT !.negated = TRUE]
Plain(tag) == [tag |-> tag, preds |-> <<>>]
With(tag, preds) == [tag |-> tag, preds |-> preds]

EitherX == [index |-> 0, join |-> "or", negate |-> FALSE,
            tests |-> {[field |-> k, value |-> x], [field |-> v, value |-> x]}]
NotX(f) == [Where(f, x) EXCEPT !.negate = TRUE]

SomePaths ==
    <<Relative(<<With(a, <<Where(k, x)>>)>>),                    \* a[k='x']
     Relative(<<With(a, <<Where(v, x), NotX(k)>>)>>),           \* a[v='x'][not(k='x')]
     Relative(<<With(a, <<EitherX>>), Plain(b)>>),              \* a[k='x' or v='x']/b
     Relative(<<With(a, <<Where(k, x), Index(2)>>)>>),          \* a[k='x'][2]
     Relative(<<With(a, <<Index(2), Where(v, empty)>>)>>),      \* a[2][v='']
     Absolute(<<Plain(AnyTag), With(v, <<Where(dot, x)>>)>>),   \* /*/v[.='x']
     Not(Relative(<<With(b, <<Where(k, x)>>)>>))>>              \* !b[k='x']
=============================================================================
