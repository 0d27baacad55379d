---------------------------- MODULE XoKeptClaims ----------------------------
(* What the documentation says of filtered output, and the code does not do.  *)
EXTENDS XoKept

\* doc/filters.rst: "When an instance is matched, all of its content is
\* emitted - including fields inside nested containers".  A nested container
\* that closes while the predicate is open is rolled back on its own
\* (xo_do_close_container), and is missing when the predicate holds.
MatchedFields ==
    {e \in DOMAIN told :
        /\ told[e].what = "field"
        /\ \E i \in DOMAIN told :
              /\ told[i].what = "open" /\ told[i].kind = "instance"
              /\ Last(told[i].path) \in ToSet(told[e].path) \cap picked}

MatchedContentIsEmitted ==
    done => Cardinality({i \in DOMAIN sent : sent[i].what = "field"})
                >= Cardinality(MatchedFields)
=============================================================================
