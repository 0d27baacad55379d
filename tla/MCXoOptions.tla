---------------------------- MODULE MCXoOptions ----------------------------
(* Five names for XoOptions: encoders that can be used with a filter, cannot, *)
(* are older than that, want a newer libxo; and no encoder's name.  A second  *)
(* directory holds an "aware" and a "plain" whose handlers fail, the one with *)
(* -1 and the other with 1.                                                  *)
EXTENDS XoOptions

CONSTANTS aware, plain, older, newer, slashed, system, own, nobody

AllNames == {aware, plain, older, newer, slashed}
Slashed == {slashed}
TwoDirs == {system, own}

Lib(version, needs, isAware, create, options) ==
    [version |-> version, needs |-> needs, aware |-> isAware, notify |-> FALSE,
     create |-> create, options |-> options]

Libraries ==
    [dir \in TwoDirs |->
        IF dir = system
        THEN [n \in {aware, plain, newer} |->
                CASE n = aware -> Lib(3, 3, TRUE, 0, -1)
                  [] n = plain -> Lib(3, 3, FALSE, 0, 0)
                  [] n = newer -> Lib(3, 4, TRUE, 0, 0)]
        ELSE [n \in {aware, plain, older} |->
                CASE n = aware -> Lib(3, 3, TRUE, -1, 0)
                  [] n = plain -> Lib(3, 3, FALSE, 1, 0)
                  [] n = older -> Lib(2, 2, FALSE, 0, 0)]]
=============================================================================
