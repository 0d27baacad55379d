---------------------------- MODULE MCXoEncoders ----------------------------
(* Small documents for XoEncoders: a container c, lists l and m, a leaf-list *)
(* v, a key k and a field x.                                                 *)
EXTENDS XoEncoders

CONSTANTS c, l, m, v, k, x, noName, emptyString, noCell, junkCell

OneContainer == {c}
TwoLists == {l, m}
OneLeafList == {v}
TwoFields == {k, x}
OneKey == {k}

Table(path, leafs) ==
    [path |-> path, leafs |-> leafs, noHeader |-> FALSE, flushes |-> FALSE]

Plain ==
    [filtered |-> FALSE, careful |-> TRUE, filled |-> TRUE, noVersion |-> FALSE,
     denseLists |-> {}, denseFields |-> {}, csv |-> Table(<<>>, <<>>), junk |-> TRUE,
     names |-> {c, l, m, v, k, x}, maxOps |-> 5, maxFlushes |-> 0]

\* A row for each instance, no path: the columns come from the first
Rowwise == [Plain EXCEPT !.names = {c, l, k, x}, !.maxOps = 7, !.maxFlushes = 1]

\* A table of what is at a path; lists become dense by a field
AtPath == [Plain EXCEPT !.denseFields = {x}, !.csv = Table(<<c, l>>, <<>>), !.maxOps = 6]

\* Columns by name, no header; dense lists
ByName ==
    [Plain EXCEPT
        !.denseLists = {l}, !.names = {c, l, v, k, x}, !.maxOps = 7,
        !.csv = [Table(<<>>, <<x>>) EXCEPT !.noHeader = TRUE, !.flushes = TRUE]]

Filtered == [Plain EXCEPT !.filtered = TRUE, !.noVersion = TRUE, !.maxFlushes = 1]

\* Lengths next to those where the head of a string in CBOR changes its form
Lengths(s) ==
    CASE s = c -> 23 [] s = l -> 25 [] s = m -> 255 [] s = v -> 257
      [] s = k -> 65535 [] s = x -> 65537 [] OTHER -> 1

\* A name of 24 bytes
LengthsAtLimit(s) == IF s = x THEN 24 ELSE 1

\* Instances without a field that the filter wants
Unfilled == [Filtered EXCEPT !.filled = FALSE, !.maxOps = 4]

PlainSetups == {Plain, Rowwise, AtPath, ByName, Filtered, Unfilled}
=============================================================================
