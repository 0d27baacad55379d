---------------------------- MODULE XoCsvProofs -----------------------------
(* The rows of csv against the document it is told, and its place in its   *)
(* path, for every set of names, every options and every document.         *)
EXTENDS XoEncodersProofs

-----------------------------------------------------------------------------
(* The types of csv *)

Cells == Nat \cup {NoCell, JunkCell}
Leafs == [name : Labels, has : BOOLEAN, cell : Cells]
Lines == [line : {"header", "row"}, cells : Seq(Labels \cup Cells)]

CsvTypes ==
    [flushes : BOOLEAN, noHeader : BOOLEAN, path : Seq(Labels), cur : Nat, leafs : Seq(Leafs),
     max : Nat, leafsDone : BOOLEAN, junk : BOOLEAN, recording : BOOLEAN, headerDone : BOOLEAN,
     data : Seq(Lines), written : Seq(Lines)]

Out(c) == c.written \o c.data

LEMMA OutTypes ==
    ASSUME NEW c \in CsvTypes
    PROVE  Out(c) \in Seq(Lines) /\ Len(Out(c)) \in Nat
<1>1. c.written \in Seq(Lines) /\ c.data \in Seq(Lines)
  BY DEF CsvTypes
<1>2. Out(c) \in Seq(Lines)
  BY <1>1, ConcatProperties DEF Out
<1> QED BY <1>2, LenProperties

\* The parts of csv that a table is made of
SameTable(c, g) ==
    /\ g \in CsvTypes /\ g.leafs = c.leafs /\ Out(g) = Out(c) /\ g.leafsDone = c.leafsDone
    /\ g.headerDone = c.headerDone /\ g.noHeader = c.noHeader /\ g.path = c.path

FlushedAs(c, g) ==
    /\ SameTable(c, g) /\ g.recording = c.recording /\ g.cur = c.cur

LEMMA FlushCsv ==
    ASSUME NEW c \in CsvTypes
    PROVE  FlushedAs(c, Csv!Flush(c))
<1> DEFINE w == c.written \o c.data
<1>1. w \in Seq(Lines) /\ <<>> \in Seq(Lines)
  BY ConcatProperties, EmptySeq DEF CsvTypes
<1>2. w \o <<>> = w
  BY <1>1, ConcatEmptySeq
<1>3. Csv!Flush(c) = [c EXCEPT !.written = w, !.data = <<>>]
  BY DEF Csv!Flush, CsvTypes
<1>4. Out(c) = w
  BY DEF Out
<1> HIDE DEF w
<1>5. \A g : g = [c EXCEPT !.written = w, !.data = <<>>] => FlushedAs(c, g)
  <2> TAKE g
  <2> HAVE g = [c EXCEPT !.written = w, !.data = <<>>]
  <2>1. /\ g \in CsvTypes /\ g.leafs = c.leafs /\ g.leafsDone = c.leafsDone
        /\ g.headerDone = c.headerDone /\ g.noHeader = c.noHeader /\ g.path = c.path
        /\ g.recording = c.recording /\ g.cur = c.cur /\ g.written = w /\ g.data = <<>>
    BY <1>1 DEF CsvTypes
  <2>2. Out(g) = w \o <<>>
    BY <2>1 DEF Out
  <2> QED BY <1>2, <1>4, <2>1, <2>2 DEF FlushedAs, SameTable
<1> QED BY <1>3, <1>5

LEMMA AppendToLast ==
    ASSUME NEW S, NEW u \in Seq(S), NEW v \in Seq(S), NEW x \in S
    PROVE  u \o Append(v, x) = Append(u \o v, x)
<1>1. <<x>> \in Seq(S) /\ u \o v \in Seq(S) /\ Append(v, x) = v \o <<x>>
  BY AppendIsConcat, ConcatProperties
<1>2. u \o (v \o <<x>>) = (u \o v) \o <<x>>
  BY <1>1, ConcatAssociative
<1>3. (u \o v) \o <<x>> = Append(u \o v, x)
  BY <1>1, AppendIsConcat
<1> QED BY <1>1, <1>2, <1>3

\* One line more
LineAdded(c, g, line) ==
    /\ g \in CsvTypes /\ g.leafs = c.leafs /\ Out(g) = Append(Out(c), line)
    /\ g.leafsDone = c.leafsDone /\ g.noHeader = c.noHeader /\ g.path = c.path
    /\ g.recording = c.recording /\ g.cur = c.cur

LEMMA AppendLine ==
    ASSUME NEW c \in CsvTypes, NEW line \in Lines, NEW b \in BOOLEAN, NEW g,
           g = [c EXCEPT !.headerDone = b, !.data = Append(@, line)]
    PROVE  LineAdded(c, g, line) /\ g.headerDone = b
<1> DEFINE d == Append(c.data, line)
<1>1. c.data \in Seq(Lines) /\ c.written \in Seq(Lines)
  BY DEF CsvTypes
<1>2. d \in Seq(Lines) /\ c.written \o d = Append(c.written \o c.data, line)
  <2> DEFINE u == c.written
             v == c.data
  <2>1. u \in Seq(Lines) /\ v \in Seq(Lines) /\ d = Append(v, line)
    BY <1>1
  <2> HIDE DEF u, v, d
  <2>2. d \in Seq(Lines) /\ u \o d = Append(u \o v, line)
    BY <2>1, AppendToLast, AppendProperties
  <2> QED BY <2>2 DEF u, v
<1>3. g = [c EXCEPT !.headerDone = b, !.data = d]
  BY DEF CsvTypes
<1> HIDE DEF d
<1>4. /\ g \in CsvTypes /\ g.leafs = c.leafs
      /\ g.leafsDone = c.leafsDone /\ g.noHeader = c.noHeader /\ g.path = c.path
      /\ g.recording = c.recording /\ g.cur = c.cur /\ g.headerDone = b
      /\ g.written = c.written /\ g.data = d
  BY <1>2, <1>3 DEF CsvTypes
<1>5. Out(g) = Append(Out(c), line)
  BY <1>2, <1>4 DEF Out
<1> QED BY <1>4, <1>5 DEF LineAdded

LEMMA LineTypes ==
    ASSUME NEW c \in CsvTypes
    PROVE  /\ Csv!Line("header", Csv!Header(c)) \in Lines
           /\ Csv!Line("row", Csv!Row(c)) \in Lines
           /\ Len(Csv!Row(c)) = Len(c.leafs) /\ Len(c.leafs) \in Nat
           /\ Len(Csv!Header(c)) = Len(c.leafs)
           /\ \A i \in 1..Len(c.leafs) :
                 /\ Csv!Row(c)[i] = IF c.leafs[i].has THEN c.leafs[i].cell ELSE NoCell
                 /\ Csv!Header(c)[i] = c.leafs[i].name
                 /\ c.leafs[i] \in Leafs
           /\ DOMAIN Csv!Header(c) = 1..Len(c.leafs)
<1> DEFINE n == Len(c.leafs)
           S == Labels \cup Cells
<1>1. c.leafs \in Seq(Leafs) /\ n \in Nat /\ DOMAIN c.leafs = 1..n
      /\ \A i \in 1..n : c.leafs[i] \in Leafs
  BY DEF CsvTypes
<1>2. \A e \in Leafs : e.name \in S /\ (IF e.has THEN e.cell ELSE NoCell) \in S
  BY DEF Leafs, Cells
<1>3. /\ Csv!Header(c) = [i \in 1..n |-> c.leafs[i].name]
      /\ Csv!Row(c) = [i \in 1..n |-> IF c.leafs[i].has THEN c.leafs[i].cell ELSE NoCell]
  BY <1>1 DEF Csv!Header, Csv!Row
<1> HIDE DEF S, n
<1>4. Csv!Header(c) \in [1..n -> S] /\ Csv!Row(c) \in [1..n -> S]
  BY <1>1, <1>2, <1>3
<1>5. /\ Csv!Header(c) \in Seq(S) /\ Len(Csv!Header(c)) = n /\ DOMAIN Csv!Header(c) = 1..n
      /\ Csv!Row(c) \in Seq(S) /\ Len(Csv!Row(c)) = n
  BY <1>1, <1>4
<1>6. Csv!Line("header", Csv!Header(c)) \in Lines /\ Csv!Line("row", Csv!Row(c)) \in Lines
  BY <1>5 DEF Csv!Line, Lines, S
<1>7. \A i \in 1..n :
                 /\ Csv!Row(c)[i] = IF c.leafs[i].has THEN c.leafs[i].cell ELSE NoCell
                 /\ Csv!Header(c)[i] = c.leafs[i].name
  BY <1>3
<1> QED BY <1>1, <1>5, <1>6, <1>7 DEF n

-----------------------------------------------------------------------------
(* What a cell, a line and the table have to do with the operations k, of     *)
(* which n were numbered                                                      *)

\* The innermost element that the operation at p is in
Inner(k, p) == IF k[p].within = <<>> THEN 0 ELSE k[p].within[Len(k[p].within)].id

\* The operation at p gave the value v.
Gave(k, p, v) == k[p].what.op \in {"field", "item"} /\ k[p].what.value = v

\* v, if it is a value, was given to the name in the element id alone.
CellFine(k, n, v, name, id) ==
    v \notin {NoCell, JunkCell} =>
        /\ v \in Nat /\ v <= n
        /\ \A p \in 1..Len(k) : Gave(k, p, v) => k[p].what.name = name /\ Inner(k, p) = id

RowFine(k, n, names, cells, id) ==
    /\ Len(cells) = Len(names)
    /\ \A i \in 1..Len(names) : CellFine(k, n, cells[i], names[i], id)

LineFine(k, n, c, i, id) ==
    /\ id <= n
    /\ Out(c)[i].line = "header" => i = 1 /\ ~c.noHeader /\ Out(c)[i].cells = Csv!Header(c)
    /\ Out(c)[i].line = "row" => RowFine(k, n, Csv!Header(c), Out(c)[i].cells, id)

\* element says which element each line is of; the header is of the document.
Table(k, n, c, element, below) ==
    /\ element \in [1..Len(Out(c)) -> Nat]
    /\ \A i \in 1..Len(Out(c)) : LineFine(k, n, c, i, element[i]) /\ element[i] < below
    /\ \A i, j \in 1..Len(Out(c)) : i < j => element[i] < element[j]

LeafFine(k, n, c, e, id) ==
    e.has => IF c.recording THEN CellFine(k, n, e.cell, e.name, id) ELSE e.cell = JunkCell

\* While it records, csv is in the element id, and every line is of an earlier one.
CsvFollows(k, n, id, c) ==
    /\ c \in CsvTypes
    /\ Out(c) # <<>> => c.leafsDone
    /\ ~c.headerDone /\ ~c.noHeader => Out(c) = <<>>
    /\ c.recording => id \in 1..n
    /\ \E element : Table(k, n, c, element, IF c.recording THEN id ELSE n + 1)
    /\ \A i \in 1..Len(c.leafs) : LeafFine(k, n, c, c.leafs[i], id)

\* Values are numbered as they are given.
Numbered(k, n) == \A p \in 1..Len(k) : \A v \in Nat : Gave(k, p, v) => v <= n

\* l has the operations of k, and whatever else was given in it is new.
Grown(k, n, l, m) ==
    /\ n \in Nat /\ m \in Nat /\ n <= m
    /\ Len(k) \in Nat /\ Len(l) \in Nat /\ Len(k) <= Len(l)
    /\ \A p \in 1..Len(k) : l[p] = k[p]
    /\ \A p \in 1..Len(l) : p \in 1..Len(k) \/ \A v \in Nat : Gave(l, p, v) => n < v /\ v <= m

LEMMA CellGrown ==
    ASSUME NEW k, NEW n, NEW l, NEW m, Grown(k, n, l, m), NEW v, NEW name, NEW id,
           CellFine(k, n, v, name, id)
    PROVE  CellFine(l, m, v, name, id)
<1> SUFFICES ASSUME v \notin {NoCell, JunkCell}
             PROVE  /\ v \in Nat /\ v <= m
                    /\ \A p \in 1..Len(l) : Gave(l, p, v) => l[p].what.name = name /\ Inner(l, p) = id
  BY DEF CellFine
<1>1. /\ v \in Nat /\ v <= n
      /\ \A p \in 1..Len(k) : Gave(k, p, v) => k[p].what.name = name /\ Inner(k, p) = id
  BY DEF CellFine
<1>2. v <= m
  BY <1>1 DEF Grown
<1>3. ASSUME NEW p \in 1..Len(l), Gave(l, p, v)
      PROVE  l[p].what.name = name /\ Inner(l, p) = id
  <2>1. p \in 1..Len(k)
    <3>1. SUFFICES ASSUME p \notin 1..Len(k) PROVE FALSE
      OBVIOUS
    <3>2. n < v
      BY <1>1, <1>3, <3>1 DEF Grown
    <3> QED BY <1>1, <3>2 DEF Grown
  <2>2. l[p] = k[p]
    BY <2>1 DEF Grown
  <2>3. Gave(k, p, v)
    BY <1>3, <2>2 DEF Gave
  <2> QED BY <1>1, <2>1, <2>2, <2>3 DEF Inner
<1> QED BY <1>1, <1>2, <1>3

LEMMA TableGrown ==
    ASSUME NEW k, NEW n, NEW l, NEW m, Grown(k, n, l, m), NEW c \in CsvTypes, NEW element, NEW below,
           Table(k, n, c, element, below)
    PROVE  Table(l, m, c, element, below)
<1> SUFFICES ASSUME NEW i \in 1..Len(Out(c))
             PROVE  LineFine(l, m, c, i, element[i])
  BY DEF Table
<1>1. LineFine(k, n, c, i, element[i]) /\ element[i] \in Nat
  BY DEF Table
<1>2. element[i] <= m
  BY <1>1 DEF LineFine, Grown
<1>3. RowFine(k, n, Csv!Header(c), Out(c)[i].cells, element[i])
        => RowFine(l, m, Csv!Header(c), Out(c)[i].cells, element[i])
  BY CellGrown DEF RowFine
<1> QED BY <1>1, <1>2, <1>3 DEF LineFine

\* The same lines under the same header
LEMMA TableSame ==
    ASSUME NEW k, NEW n, NEW c, NEW element, NEW below, Table(k, n, c, element, below),
           NEW g, Out(g) = Out(c), g.noHeader = c.noHeader, Out(c) # <<>> => Csv!Header(g) = Csv!Header(c),
           Len(Out(c)) \in Nat, Out(c) = <<>> <=> Len(Out(c)) = 0
    PROVE  Table(k, n, g, element, below)
<1>1. CASE Out(c) = <<>>
  <2>1. Len(Out(c)) = 0 /\ Len(Out(g)) = 0
    BY <1>1
  <2> QED BY <2>1 DEF Table
<1>2. CASE Out(c) # <<>>
  BY <1>2 DEF Table, LineFine
<1> QED BY <1>1, <1>2

LEMMA TableBelow ==
    ASSUME NEW k, NEW n, NEW c \in CsvTypes, NEW element, NEW below \in Nat, Table(k, n, c, element, below),
           NEW b \in Nat, below <= b
    PROVE  Table(k, n, c, element, b)
<1>1. \A i \in 1..Len(Out(c)) : element[i] \in Nat /\ element[i] < below => element[i] < b
  OBVIOUS
<1> QED BY <1>1 DEF Table

LEMMA TableLine ==
    ASSUME NEW k, NEW n \in Nat, NEW c \in CsvTypes, NEW element, NEW x \in Nat, x <= n,
           NEW below, Table(k, n, c, element, below), Out(c) = <<>> \/ below = x,
           NEW g, NEW line, LineAdded(c, g, line),
           line.line = "header" => Out(c) = <<>> /\ ~c.noHeader /\ line.cells = Csv!Header(c),
           line.line = "row" => RowFine(k, n, Csv!Header(c), line.cells, x), NEW y, y = x + 1
    PROVE  \E e : Table(k, n, g, e, y)
<1> DEFINE len == Len(Out(c))
           e == Extended(element, len, x)
<1>1. len \in Nat /\ Out(c) \in Seq(Lines)
  BY OutTypes
<1>2. g \in CsvTypes /\ Out(g) = Append(Out(c), line) /\ g.noHeader = c.noHeader
      /\ Csv!Header(g) = Csv!Header(c)
  BY DEF LineAdded, Csv!Header
<1>3. /\ Len(Out(g)) = len + 1 /\ Out(g)[len + 1] = line
      /\ \A i \in 1..len : Out(g)[i] = Out(c)[i]
  BY <1>1, <1>2
<1>4. element \in [1..len -> Nat] /\ \A i \in 1..len : element[i] < x
  <2>1. CASE Out(c) = <<>>
    <3>1. len = 0
      BY <2>1
    <3> QED BY <3>1 DEF Table
  <2>2. CASE below = x
    BY <2>2 DEF Table
  <2> QED BY <2>1, <2>2
<1>5. /\ \A i \in 1..len : LineFine(k, n, c, i, element[i])
      /\ \A i, j \in 1..len : i < j => element[i] < element[j]
  BY DEF Table
<1>6. Out(c) = <<>> => len = 0
  OBVIOUS
<1> HIDE DEF len
<1>7. /\ e \in [1..(len + 1) -> Nat] /\ e[len + 1] = x
      /\ \A i \in 1..len : e[i] = element[i]
  BY <1>1, <1>4 DEF Extended
<1> HIDE DEF e
<1>8. \A i \in 1..(len + 1) : LineFine(k, n, g, i, e[i]) /\ e[i] < x + 1
  <2>1. ASSUME NEW i \in 1..len
        PROVE  LineFine(k, n, g, i, e[i]) /\ e[i] < x + 1
    <3>1. e[i] = element[i] /\ Out(g)[i] = Out(c)[i] /\ LineFine(k, n, c, i, element[i])
          /\ element[i] < x /\ element[i] \in Nat
      BY <1>3, <1>4, <1>5, <1>7
    <3>2. LineFine(k, n, g, i, e[i])
      BY <1>2, <3>1 DEF LineFine
    <3> QED BY <3>1, <3>2
  <2>2. LineFine(k, n, g, len + 1, e[len + 1]) /\ e[len + 1] < x + 1
    BY <1>1, <1>2, <1>3, <1>6, <1>7 DEF LineFine
  <2>3. \A i \in 1..(len + 1) : i \in 1..len \/ i = len + 1
    BY <1>1
  <2> QED BY <2>1, <2>2, <2>3
<1>9. \A i, j \in 1..(len + 1) : i < j => e[i] < e[j]
  <2>1. ASSUME NEW i \in 1..(len + 1), NEW j \in 1..(len + 1), i < j
        PROVE  e[i] < e[j]
    <3>1. i \in 1..len
      BY <1>1, <2>1
    <3>2. CASE j \in 1..len
      BY <1>5, <1>7, <2>1, <3>1, <3>2
    <3>3. CASE j = len + 1
      BY <1>4, <1>7, <3>1, <3>3
    <3> QED BY <1>1, <2>1, <3>2, <3>3
  <2> QED BY <2>1
<1>10. Table(k, n, g, e, y)
  BY <1>3, <1>7, <1>8, <1>9 DEF Table
<1> QED BY <1>10

-----------------------------------------------------------------------------
(* The end of a recording *)

\* g has the options of c, and its place in the path.
SameCourse(c, g) == g.path = c.path /\ g.cur = c.cur /\ g.noHeader = c.noHeader

\* After c, which was in the element id, has written its row
RowWritten(k, n, c, g) ==
    /\ g \in CsvTypes /\ g.leafs = c.leafs /\ SameCourse(c, g) /\ ~g.recording
    /\ g.headerDone \/ g.noHeader
    /\ Out(g) # <<>> /\ \E e : Table(k, n, g, e, n + 1)

LEMMA NotEmpty ==
    ASSUME NEW c \in CsvTypes
    PROVE  Out(c) = <<>> <=> Len(Out(c)) = 0
<1>1. Out(c) \in Seq(Lines)
  BY OutTypes
<1> QED BY <1>1, EmptySeq

\* Before the row, when the element id gives it
HeaderWritten(k, n, id, c, g) ==
    /\ g \in CsvTypes /\ g.leafs = c.leafs /\ SameCourse(c, g) /\ ~g.recording
    /\ g.headerDone \/ g.noHeader
    /\ \E e, below : Table(k, n, g, e, below) /\ (below = id \/ below = 1)

LEMMA HeaderCsv ==
    ASSUME NEW k, NEW n \in Nat, NEW id \in 1..n, NEW c \in CsvTypes, ~c.recording,
           NEW element, Table(k, n, c, element, id), ~c.headerDone /\ ~c.noHeader => Out(c) = <<>>
    PROVE  HeaderWritten(k, n, id, c, Csv!WithHeader(c))
<1> DEFINE g == Csv!WithHeader(c)
           line == Csv!Line("header", Csv!Header(c))
<1>0. c.headerDone \in BOOLEAN /\ c.noHeader \in BOOLEAN
  BY DEF CsvTypes
<1>1. CASE c.headerDone \/ c.noHeader
  <2>1. g = c
    BY <1>1 DEF Csv!WithHeader
  <2> HIDE DEF g
  <2>2. HeaderWritten(k, n, id, c, c)
    BY <1>1 DEF HeaderWritten, SameCourse
  <2> QED BY <2>1, <2>2 DEF g
<1>2. CASE ~c.headerDone /\ ~c.noHeader
  <2>1. g = [c EXCEPT !.headerDone = TRUE, !.data = Append(@, line)]
    BY <1>2 DEF Csv!WithHeader
  <2>2. line \in Lines /\ line.line = "header" /\ line.cells = Csv!Header(c)
    BY LineTypes DEF Csv!Line
  <2> HIDE DEF line
  <2>3. LineAdded(c, g, line) /\ g.headerDone = TRUE
    BY <2>1, <2>2, AppendLine
  <2> HIDE DEF g
  <2>4. \E e : Table(k, n, g, e, 1)
    <3>1. 0 \in Nat /\ 0 <= n /\ 1 = 0 + 1 /\ line.line # "row"
      BY <2>2
    <3>2. Out(c) = <<>> /\ ~c.noHeader
      BY <1>2
    <3> QED BY <2>2, <2>3, <3>1, <3>2, TableLine
  <2>5. HeaderWritten(k, n, id, c, g)
    BY <2>3, <2>4 DEF LineAdded, SameCourse, HeaderWritten
  <2> QED BY <2>5 DEF g
<1> QED BY <1>0, <1>1, <1>2

LEMMA RowCsv ==
    ASSUME NEW k, NEW n \in Nat, NEW id \in 1..n, NEW c \in CsvTypes, ~c.recording,
           NEW element, Table(k, n, c, element, id), ~c.headerDone /\ ~c.noHeader => Out(c) = <<>>,
           \A i \in 1..Len(c.leafs) :
               c.leafs[i].has => CellFine(k, n, c.leafs[i].cell, c.leafs[i].name, id)
    PROVE  RowWritten(k, n, c, Csv!WithRow(Csv!WithHeader(c)))
<1> DEFINE h == Csv!WithHeader(c)
           g == Csv!WithRow(h)
           row == Csv!Line("row", Csv!Row(h))
<1>1. /\ h \in CsvTypes /\ h.leafs = c.leafs /\ SameCourse(c, h) /\ ~h.recording
      /\ h.headerDone \/ h.noHeader
      /\ \E e, below : Table(k, n, h, e, below) /\ (below = id \/ below = 1)
  BY HeaderCsv DEF HeaderWritten
<1> HIDE DEF h
<1>2. PICK e : Table(k, n, h, e, id)
  <2>1. PICK e, below : Table(k, n, h, e, below) /\ (below = id \/ below = 1)
    BY <1>1
  <2>2. below \in Nat /\ id \in Nat /\ below <= id
    BY <2>1
  <2> QED BY <1>1, <2>1, <2>2, TableBelow
<1>3. /\ row \in Lines /\ row.line = "row" /\ row.cells = Csv!Row(h)
      /\ Len(Csv!Row(h)) = Len(h.leafs) /\ Len(Csv!Header(h)) = Len(h.leafs)
      /\ \A i \in 1..Len(h.leafs) :
            /\ Csv!Row(h)[i] = IF h.leafs[i].has THEN h.leafs[i].cell ELSE NoCell
            /\ Csv!Header(h)[i] = h.leafs[i].name
  BY <1>1, LineTypes DEF Csv!Line
<1>4. RowFine(k, n, Csv!Header(h), row.cells, id)
  <2>1. \A i \in 1..Len(h.leafs) : CellFine(k, n, Csv!Row(h)[i], Csv!Header(h)[i], id)
    BY <1>1, <1>3 DEF CellFine
  <2> QED BY <1>3, <2>1 DEF RowFine
<1>5. g = [h EXCEPT !.headerDone = h.headerDone, !.data = Append(@, row)]
  BY <1>1 DEF Csv!WithRow, CsvTypes
<1> HIDE DEF row
<1>6. LineAdded(h, g, row) /\ g.headerDone = h.headerDone
  <2>1. PICK b \in BOOLEAN : b = h.headerDone
    BY <1>1 DEF CsvTypes
  <2>2. g = [h EXCEPT !.headerDone = b, !.data = Append(@, row)]
    BY <1>5, <2>1
  <2>3. h \in CsvTypes /\ row \in Lines
    BY <1>1, <1>3
  <2> HIDE DEF g
  <2>4. \A f : f = [h EXCEPT !.headerDone = b, !.data = Append(@, row)]
                   => LineAdded(h, f, row) /\ f.headerDone = b
    BY <2>3, AppendLine
  <2>5. LineAdded(h, g, row) /\ g.headerDone = b
    BY <2>2, <2>4
  <2> QED BY <2>1, <2>5
<1> HIDE DEF g
<1>7. \E x : Table(k, n, g, x, id + 1)
  <2>1. id \in Nat /\ id <= n /\ row.line # "header"
    BY <1>3
  <2> QED BY <1>1, <1>2, <1>3, <1>4, <1>6, <2>1, TableLine
<1>8. g \in CsvTypes /\ \E x : Table(k, n, g, x, n + 1)
  <2>1. id + 1 \in Nat /\ n + 1 \in Nat /\ id + 1 <= n + 1
    OBVIOUS
  <2> QED BY <1>6, <1>7, <2>1, TableBelow DEF LineAdded
<1>9. Out(g) # <<>>
  <2>1. Len(Out(g)) = Len(Out(h)) + 1 /\ Len(Out(h)) \in Nat
    <3>1. Out(h) \in Seq(Lines) /\ Out(g) = Append(Out(h), row)
      BY <1>1, <1>6, OutTypes DEF LineAdded
    <3> QED BY <1>3, <3>1
  <2> QED BY <1>8, <2>1, NotEmpty
<1>10. RowWritten(k, n, c, g)
  BY <1>1, <1>6, <1>8, <1>9 DEF RowWritten, SameCourse, LineAdded
<1> QED BY <1>10 DEF g, h

LEMMA FlushedCsv ==
    ASSUME NEW k, NEW n \in Nat, NEW c, NEW g, RowWritten(k, n, c, g)
    PROVE  RowWritten(k, n, c, Csv!Flushed(g))
<1> DEFINE f == Csv!Flush(g)
<1>1. FlushedAs(g, f) /\ g \in CsvTypes
  BY FlushCsv DEF RowWritten
<1> HIDE DEF f
<1>2. PICK e : Table(k, n, g, e, n + 1)
  BY DEF RowWritten
<1>3. Csv!Header(f) = Csv!Header(g)
  BY <1>1 DEF FlushedAs, SameTable, Csv!Header
<1>4. Table(k, n, f, e, n + 1)
  BY <1>1, <1>2, <1>3, TableSame, OutTypes, NotEmpty DEF FlushedAs, SameTable
<1>5. RowWritten(k, n, c, f)
  BY <1>1, <1>4 DEF RowWritten, FlushedAs, SameTable, SameCourse
<1> QED BY <1>5 DEF Csv!Flushed, f

LEMMA ClearedCsv ==
    ASSUME NEW k, NEW n \in Nat, NEW c \in CsvTypes, NEW g, RowWritten(k, n, c, g), NEW id
    PROVE  LET h == Csv!Cleared(g)
           IN  CsvFollows(k, n, id, h) /\ ~h.recording /\ SameCourse(c, h)
<1> DEFINE m == Len(g.leafs)
           l == [i \in 1..m |-> Csv!Leaf(g.leafs[i].name, FALSE)]
           h == Csv!Cleared(g)
<1>1. /\ g \in CsvTypes /\ g.leafs \in Seq(Leafs) /\ m \in Nat /\ DOMAIN g.leafs = 1..m
      /\ \A i \in 1..m : g.leafs[i] \in Leafs
  BY DEF RowWritten, CsvTypes
<1>2. \A e \in Leafs : /\ Csv!Leaf(e.name, FALSE) \in Leafs
                       /\ Csv!Leaf(e.name, FALSE).has = FALSE /\ Csv!Leaf(e.name, FALSE).name = e.name
  BY DEF Csv!Leaf, Leafs, Cells
<1>3. l \in [1..m -> Leafs] /\ \A i \in 1..m : l[i].has = FALSE /\ l[i].name = g.leafs[i].name
  BY <1>1, <1>2
<1>4. h = [g EXCEPT !.leafs = l, !.leafsDone = TRUE]
  BY <1>1 DEF Csv!Cleared
<1> HIDE DEF l, m
<1>5. l \in Seq(Leafs) /\ Len(l) = m /\ DOMAIN l = 1..m
  BY <1>1, <1>3
<1>6. /\ h \in CsvTypes /\ h.leafs = l /\ h.leafsDone = TRUE /\ h.written = g.written /\ h.data = g.data
      /\ h.recording = g.recording /\ h.headerDone = g.headerDone /\ h.noHeader = g.noHeader
      /\ h.path = g.path /\ h.cur = g.cur
  BY <1>1, <1>4, <1>5 DEF CsvTypes
<1> HIDE DEF h
<1>7. Out(h) = Out(g) /\ Csv!Header(h) = Csv!Header(g)
  BY <1>1, <1>3, <1>5, <1>6 DEF Out, Csv!Header
<1>8. \E e : Table(k, n, h, e, n + 1)
  BY <1>1, <1>6, <1>7, TableSame, OutTypes, NotEmpty DEF RowWritten
<1>9. CsvFollows(k, n, id, h)
  BY <1>3, <1>5, <1>6, <1>8 DEF CsvFollows, RowWritten, LeafFine
<1> QED BY <1>6, <1>9 DEF h, RowWritten, SameCourse

LEMMA StopCsv ==
    ASSUME NEW k, NEW n \in Nat, NEW id, NEW c, CsvFollows(k, n, id, c), c.recording, NEW x
    PROVE  LET g == Csv!StopRecording(c)
           IN  CsvFollows(k, n, x, g) /\ ~g.recording /\ SameCourse(c, g)
<1> DEFINE d == [c EXCEPT !.recording = FALSE]
           g == Csv!StopRecording(c)
<1>1. c \in CsvTypes /\ id \in 1..n /\ (~c.headerDone /\ ~c.noHeader => Out(c) = <<>>)
  BY DEF CsvFollows
<1>2. PICK e : Table(k, n, c, e, id)
  BY DEF CsvFollows
<1>3. /\ d \in CsvTypes /\ d.leafs = c.leafs /\ ~d.recording /\ SameCourse(c, d)
      /\ d.headerDone = c.headerDone /\ d.written = c.written /\ d.data = c.data
      /\ d.leafsDone = c.leafsDone
  BY <1>1 DEF CsvTypes, SameCourse
<1>4. g = Csv!Emit(d)
  BY DEF Csv!StopRecording
<1> HIDE DEF d, g
<1>5. Out(d) = Out(c) /\ Csv!Header(d) = Csv!Header(c) /\ Table(k, n, d, e, id)
  <2>1. Out(d) = Out(c) /\ Csv!Header(d) = Csv!Header(c) /\ d.noHeader = c.noHeader
    BY <1>3 DEF Out, Csv!Header, SameCourse
  <2> QED BY <1>1, <1>2, <2>1, TableSame, OutTypes, NotEmpty
<1>6. CASE c.leafs = <<>>
  <2>1. g = d
    BY <1>3, <1>4, <1>6 DEF Csv!Emit
  <2>2. Table(k, n, d, e, n + 1)
    <3>1. id \in Nat /\ n + 1 \in Nat /\ id <= n + 1
      BY <1>1
    <3> QED BY <1>3, <1>5, <3>1, TableBelow
  <2>3. Len(d.leafs) = 0
    BY <1>3, <1>6
  <2>4. CsvFollows(k, n, x, d)
    BY <1>1, <1>3, <1>5, <2>2, <2>3 DEF CsvFollows, SameCourse
  <2> QED BY <1>3, <2>1, <2>4 DEF g
<1>7. CASE c.leafs # <<>>
  <2>1. g = Csv!Cleared(Csv!Flushed(Csv!WithRow(Csv!WithHeader(d))))
    BY <1>3, <1>4, <1>7 DEF Csv!Emit
  <2>2. \A i \in 1..Len(d.leafs) :
            d.leafs[i].has => CellFine(k, n, d.leafs[i].cell, d.leafs[i].name, id)
    BY <1>3 DEF CsvFollows, LeafFine
  <2>3. RowWritten(k, n, d, Csv!WithRow(Csv!WithHeader(d)))
    BY <1>1, <1>3, <1>5, <2>2, RowCsv DEF SameCourse
  <2>4. RowWritten(k, n, d, Csv!Flushed(Csv!WithRow(Csv!WithHeader(d))))
    BY <2>3, FlushedCsv
  <2>5. CsvFollows(k, n, x, g) /\ ~g.recording /\ SameCourse(d, g)
    BY <1>3, <2>1, <2>4, ClearedCsv
  <2> QED BY <1>3, <2>5 DEF g, SameCourse
<1> QED BY <1>6, <1>7

-----------------------------------------------------------------------------
(* Operations that leave the lines alone *)

LEMMA GrownCsv ==
    ASSUME NEW k, NEW n, NEW l, NEW m, Grown(k, n, l, m), NEW id, NEW c, CsvFollows(k, n, id, c)
    PROVE  CsvFollows(l, m, id, c)
<1>1. c \in CsvTypes /\ n \in Nat /\ m \in Nat /\ n <= m /\ c.recording \in BOOLEAN
  BY DEF CsvFollows, Grown, CsvTypes
<1>2. PICK e : Table(k, n, c, e, IF c.recording THEN id ELSE n + 1)
  BY DEF CsvFollows
<1>3. Table(l, m, c, e, IF c.recording THEN id ELSE m + 1)
  <2>1. CASE c.recording
    BY <1>1, <1>2, <2>1, TableGrown
  <2>2. CASE ~c.recording
    <3>1. Table(l, m, c, e, n + 1)
      BY <1>1, <1>2, <2>2, TableGrown
    <3>2. n + 1 \in Nat /\ m + 1 \in Nat /\ n + 1 <= m + 1
      BY <1>1
    <3>3. Table(l, m, c, e, m + 1)
      BY <1>1, <3>1, <3>2, TableBelow
    <3> QED BY <2>2, <3>3
  <2> QED BY <1>1, <2>1, <2>2
<1>4. \A i \in 1..Len(c.leafs) : LeafFine(l, m, c, c.leafs[i], id)
  BY CellGrown DEF CsvFollows, LeafFine
<1>5. c.recording => id \in 1..m
  BY <1>1 DEF CsvFollows
<1> QED BY <1>1, <1>3, <1>4, <1>5 DEF CsvFollows

LEMMA AnyElement ==
    ASSUME NEW k, NEW n, NEW id, NEW c, CsvFollows(k, n, id, c), ~c.recording, NEW x
    PROVE  CsvFollows(k, n, x, c)
BY DEF CsvFollows, LeafFine

\* g has the leafs and the lines of c.
SameLines(c, g) ==
    /\ g \in CsvTypes /\ g.leafs = c.leafs /\ g.written = c.written /\ g.data = c.data
    /\ g.leafsDone = c.leafsDone /\ g.headerDone = c.headerDone /\ g.noHeader = c.noHeader
    /\ g.path = c.path

LEMMA SameTables ==
    ASSUME NEW k, NEW n, NEW c \in CsvTypes, NEW g, SameLines(c, g), NEW e, NEW below, Table(k, n, c, e, below)
    PROVE  Table(k, n, g, e, below) /\ Out(g) = Out(c)
<1>1. Out(g) = Out(c) /\ Csv!Header(g) = Csv!Header(c) /\ g.noHeader = c.noHeader
  BY DEF Out, Csv!Header, SameLines
<1> QED BY <1>1, TableSame, OutTypes, NotEmpty

LEMMA MovedCsv ==
    ASSUME NEW k, NEW n, NEW id, NEW c, CsvFollows(k, n, id, c), NEW g, SameLines(c, g),
           g.recording = c.recording
    PROVE  CsvFollows(k, n, id, g)
<1>1. PICK e : Table(k, n, c, e, IF c.recording THEN id ELSE n + 1)
  BY DEF CsvFollows
<1>2. Out(g) = Out(c) /\ Table(k, n, g, e, IF c.recording THEN id ELSE n + 1)
  BY <1>1, SameTables DEF CsvFollows
<1> QED BY <1>2 DEF CsvFollows, LeafFine, SameLines

\* A recording starts with an element that nothing was given in yet.
LEMMA StartedCsv ==
    ASSUME NEW k, NEW n, NEW l, NEW m, Grown(k, n, l, m), m = n + 1, NEW id, NEW c,
           CsvFollows(k, n, id, c), ~c.recording, NEW g, SameLines(c, g), g.recording
    PROVE  CsvFollows(l, m, m, g)
<1>1. PICK e : Table(k, n, c, e, n + 1)
  BY DEF CsvFollows
<1>2. Table(l, m, c, e, m)
  BY <1>1, TableGrown DEF CsvFollows
<1>3. Table(l, m, g, e, m) /\ Out(g) = Out(c)
  BY <1>2, SameTables DEF CsvFollows
<1>4. m \in 1..m
  BY DEF Grown
<1>5. \A i \in 1..Len(g.leafs) : LeafFine(l, m, g, g.leafs[i], m)
  BY DEF CsvFollows, LeafFine, SameLines, CellFine
<1> QED BY <1>3, <1>4, <1>5 DEF CsvFollows, SameLines

-----------------------------------------------------------------------------
(* Values *)

LEMMA SetCsv ==
    ASSUME NEW k, NEW n, NEW id, NEW c, CsvFollows(k, n, id, c), c.recording, NEW name,
           Csv!LeafNumbers(c, name) # {}, NEW v \in Nat, CellFine(k, n, v, name, id)
    PROVE  LET g == Csv!SetLeaf(c, name, v)
           IN  CsvFollows(k, n, id, g) /\ SameCourse(c, g) /\ g.recording
<1> DEFINE j == CHOOSE i \in Csv!LeafNumbers(c, name) : TRUE
           m == Len(c.leafs)
           x == [c.leafs[j] EXCEPT !.has = TRUE, !.cell = v]
           l == [c.leafs EXCEPT ![j] = x]
           g == Csv!SetLeaf(c, name, v)
<1>1. c \in CsvTypes /\ c.leafs \in Seq(Leafs) /\ m \in Nat /\ DOMAIN c.leafs = 1..m
      /\ \A i \in 1..m : c.leafs[i] \in Leafs
  BY DEF CsvFollows, CsvTypes
<1>2. j \in 1..m /\ c.leafs[j].name = name
  <2>1. j \in Csv!LeafNumbers(c, name)
    OBVIOUS
  <2> QED BY <1>1, <2>1 DEF Csv!LeafNumbers
<1>3. g = [c EXCEPT !.leafs = l]
  <2>1. g = [c EXCEPT !.leafs[j].has = TRUE, !.leafs[j].cell = v]
    BY DEF Csv!SetLeaf
  <2> HIDE DEF j
  <2>2. x = [[c.leafs[j] EXCEPT !.has = TRUE] EXCEPT !.cell = v]
    BY <1>1, <1>2 DEF Leafs
  <2> HIDE DEF x
  <2> QED BY <1>1, <1>2, <2>1, <2>2 DEF CsvTypes
<1> HIDE DEF j, g
<1>4. x \in Leafs /\ x.has = TRUE /\ x.cell = v /\ x.name = name
  BY <1>1, <1>2 DEF Leafs, Cells
<1> HIDE DEF x
<1>5. l \in Seq(Leafs) /\ Len(l) = m /\ DOMAIN l = 1..m
      /\ \A i \in 1..m : l[i] = IF i = j THEN x ELSE c.leafs[i]
  BY <1>1, <1>2, <1>4, ExceptSeq
<1> HIDE DEF l
<1>6. /\ g \in CsvTypes /\ g.leafs = l /\ g.leafsDone = c.leafsDone /\ g.written = c.written
      /\ g.data = c.data /\ g.recording = c.recording /\ g.headerDone = c.headerDone
      /\ g.noHeader = c.noHeader /\ g.path = c.path /\ g.cur = c.cur
  BY <1>1, <1>3, <1>5 DEF CsvTypes
<1>7. Out(g) = Out(c) /\ Csv!Header(g) = Csv!Header(c)
  <2>1. \A i \in 1..m : l[i].name = c.leafs[i].name
    BY <1>2, <1>4, <1>5
  <2> QED BY <1>1, <1>5, <1>6, <2>1 DEF Out, Csv!Header
<1>8. \E e : Table(k, n, g, e, id)
  BY <1>1, <1>6, <1>7, TableSame, OutTypes, NotEmpty DEF CsvFollows
<1>9. \A i \in 1..m : LeafFine(k, n, g, l[i], id)
  <2> TAKE i \in 1..m
  <2>1. CASE i = j
    BY <1>4, <1>5, <1>6, <2>1 DEF LeafFine
  <2>2. CASE i # j
    BY <1>5, <1>6, <2>2 DEF LeafFine, CsvFollows, m
  <2> QED BY <2>1, <2>2
<1>10. CsvFollows(k, n, id, g)
  BY <1>5, <1>6, <1>7, <1>8, <1>9 DEF CsvFollows
<1> QED BY <1>6, <1>10 DEF g, SameCourse

LEMMA AddedCsv ==
    ASSUME NEW k, NEW n, NEW id, NEW c, CsvFollows(k, n, id, c), c.recording, ~c.leafsDone,
           NEW name \in Labels
    PROVE  LET g == Csv!AddedLeaf(c, name)
           IN  /\ CsvFollows(k, n, id, g) /\ SameCourse(c, g) /\ g.recording
               /\ Csv!LeafNumbers(g, name) # {}
<1> DEFINE m == Len(c.leafs)
           x == Csv!Leaf(name, Csv!FreshHas(c))
           l == Append(c.leafs, x)
           r == IF Csv!NeedsRoom(c) THEN IF c.max = 0 THEN LeafMax ELSE 2 * c.max ELSE c.max
           g == Csv!AddedLeaf(c, name)
<1>1. c \in CsvTypes /\ c.leafs \in Seq(Leafs) /\ m \in Nat /\ DOMAIN c.leafs = 1..m
      /\ c.max \in Nat /\ c.junk \in BOOLEAN
  BY DEF CsvFollows, CsvTypes
<1>2. r \in Nat
  BY <1>1, SizesAssumption
<1>3. g = [[c EXCEPT !.max = r] EXCEPT !.leafs = l]
  <2>1. Csv!WithRoom(c) = [c EXCEPT !.max = r]
    BY <1>1 DEF Csv!WithRoom, CsvTypes
  <2> QED BY <1>1, <2>1 DEF Csv!AddedLeaf, CsvTypes
<1>4. x \in Leafs /\ x.name = name /\ x.cell = JunkCell
  BY <1>1 DEF Csv!Leaf, Leafs, Cells, Csv!FreshHas
<1> HIDE DEF x, r, g
<1>5. l \in Seq(Leafs) /\ Len(l) = m + 1 /\ l[m + 1] = x /\ DOMAIN l = 1..(m + 1)
      /\ \A i \in 1..m : l[i] = c.leafs[i]
  BY <1>1, <1>4
<1> HIDE DEF l
<1>6. /\ g \in CsvTypes /\ g.leafs = l /\ g.leafsDone = c.leafsDone /\ g.written = c.written
      /\ g.data = c.data /\ g.recording = c.recording /\ g.headerDone = c.headerDone
      /\ g.noHeader = c.noHeader /\ g.path = c.path /\ g.cur = c.cur
  BY <1>1, <1>2, <1>3, <1>5 DEF CsvTypes
<1>7. Out(g) = Out(c) /\ Out(c) = <<>>
  BY <1>6 DEF Out, CsvFollows
<1>8. \E e : Table(k, n, g, e, id)
  BY <1>1, <1>6, <1>7, TableSame, OutTypes, NotEmpty DEF CsvFollows
<1>9. \A i \in 1..(m + 1) : LeafFine(k, n, g, l[i], id)
  <2> TAKE i \in 1..(m + 1)
  <2>1. CASE i = m + 1
    BY <1>4, <1>5, <1>6, <2>1 DEF LeafFine, CellFine
  <2>2. CASE i \in 1..m
    <3>1. LeafFine(k, n, c, c.leafs[i], id)
      BY <2>2 DEF CsvFollows
    <3> QED BY <1>5, <1>6, <2>2, <3>1 DEF LeafFine
  <2> QED BY <1>1, <2>1, <2>2
<1>10. CsvFollows(k, n, id, g)
  BY <1>5, <1>6, <1>7, <1>8, <1>9 DEF CsvFollows
<1>11. Csv!LeafNumbers(g, name) # {}
  <2>1. m + 1 \in Csv!LeafNumbers(g, name)
    BY <1>1, <1>4, <1>5, <1>6 DEF Csv!LeafNumbers
  <2> QED BY <2>1
<1> QED BY <1>6, <1>10, <1>11 DEF g, SameCourse

LEMMA DataCsv ==
    ASSUME NEW k, NEW n, NEW id, NEW c, CsvFollows(k, n, id, c), NEW name \in Labels,
           NEW v \in Nat, CellFine(k, n, v, name, id)
    PROVE  LET g == Csv!Data(c, name, v)
           IN  CsvFollows(k, n, id, g) /\ SameCourse(c, g) /\ g.recording = c.recording
<1>0. c.recording \in BOOLEAN
  BY DEF CsvFollows, CsvTypes
<1>1. CASE c.recording /\ Csv!LeafNumbers(c, name) # {}
  <2>1. Csv!Data(c, name, v) = Csv!SetLeaf(c, name, v)
    BY <1>1 DEF Csv!Data
  <2>2. Csv!SetLeaf(c, name, v).recording \in BOOLEAN
    BY <1>1, SetCsv DEF CsvFollows, CsvTypes
  <2> QED BY <1>0, <1>1, <2>1, <2>2, SetCsv
<1>2. CASE c.recording /\ Csv!LeafNumbers(c, name) = {} /\ ~c.leafsDone
  <2> DEFINE d == Csv!AddedLeaf(c, name)
  <2>1. Csv!Data(c, name, v) = Csv!SetLeaf(d, name, v)
    BY <1>2 DEF Csv!Data
  <2>2. CsvFollows(k, n, id, d) /\ SameCourse(c, d) /\ d.recording /\ Csv!LeafNumbers(d, name) # {}
    BY <1>2, AddedCsv
  <2> HIDE DEF d
  <2> DEFINE g == Csv!SetLeaf(d, name, v)
  <2>3. CsvFollows(k, n, id, g) /\ SameCourse(d, g) /\ g.recording
    BY <2>2, SetCsv
  <2>4. g.recording \in BOOLEAN
    BY <2>3 DEF CsvFollows, CsvTypes
  <2> HIDE DEF g
  <2>5. CsvFollows(k, n, id, g) /\ SameCourse(c, g) /\ g.recording = c.recording
    BY <1>0, <1>2, <2>2, <2>3, <2>4 DEF SameCourse
  <2> QED BY <2>1, <2>5 DEF g
<1>3. CASE ~c.recording \/ (Csv!LeafNumbers(c, name) = {} /\ c.leafsDone)
  <2>1. Csv!Data(c, name, v) = c
    BY <1>3 DEF Csv!Data
  <2> QED BY <2>1 DEF SameCourse
<1> QED BY <1>0, <1>1, <1>2, <1>3

-----------------------------------------------------------------------------
(* Opens and closes *)

LEMMA OpenedCsv ==
    ASSUME NEW k, NEW n, NEW l, NEW m, Grown(k, n, l, m), m = n + 1, NEW id, NEW c,
           CsvFollows(k, n, id, c), NEW name, NEW b
    PROVE  LET g == Csv!OpenLevel(c, name, b)
           IN  CsvFollows(l, m, m, g) /\ g.noHeader = c.noHeader
<1> DEFINE g == Csv!OpenLevel(c, name, b)
<1>1. c \in CsvTypes /\ c.recording \in BOOLEAN /\ c.cur \in Nat /\ n \in Nat
  BY DEF CsvFollows, CsvTypes, Grown
<1>2. CASE c.recording
  <2>1. g = Csv!StopRecording(c)
    BY <1>2 DEF Csv!OpenLevel
  <2>2. CsvFollows(k, n, m, g) /\ SameCourse(c, g)
    BY <1>1, <1>2, <2>1, StopCsv
  <2> QED BY <2>2, GrownCsv DEF SameCourse
<1>3. CASE ~c.recording
  <2>1. CsvFollows(l, m, m, c)
    BY <1>3, GrownCsv, AnyElement
  <2>2. ASSUME SameLines(c, g), g.recording \in BOOLEAN
        PROVE  CsvFollows(l, m, m, g) /\ g.noHeader = c.noHeader
    <3> HIDE DEF g
    <3>1. CASE g.recording
      BY <1>3, <2>2, <3>1, StartedCsv DEF SameLines
    <3>2. CASE ~g.recording
      <4>1. g.recording = c.recording
        BY <1>1, <1>3, <2>2, <3>2
      <4> QED BY <2>1, <2>2, <4>1, MovedCsv DEF SameLines
    <3> QED BY <2>2, <3>1, <3>2
  <2>3. CASE Csv!Awaited(c, name)
    <3>1. c.cur + 1 \in Nat /\ (c.cur + 1 = Len(c.path)) \in BOOLEAN
      BY <1>1
    <3>2. SameLines(c, Csv!Advanced(c)) /\ Csv!Advanced(c).recording \in BOOLEAN
      BY <1>1, <3>1 DEF CsvTypes, SameLines, Csv!Advanced
    <3>3. g = Csv!Advanced(c)
      BY <1>3, <2>3 DEF Csv!OpenLevel, Csv!Awaited
    <3> HIDE DEF g
    <3> QED BY <2>2, <3>2, <3>3 DEF g
  <2>4. CASE ~Csv!HasPath(c) /\ b
    <3>1. g = [c EXCEPT !.recording = TRUE]
      BY <1>3, <2>4 DEF Csv!OpenLevel, Csv!Awaited
    <3> HIDE DEF g
    <3>2. SameLines(c, g) /\ g.recording \in BOOLEAN
      BY <1>1, <3>1 DEF CsvTypes, SameLines
    <3> QED BY <2>2, <3>2 DEF g
  <2>5. CASE ~Csv!Awaited(c, name) /\ ~(~Csv!HasPath(c) /\ b)
    <3>1. g = c
      BY <1>3, <2>5 DEF Csv!OpenLevel
    <3> QED BY <2>1, <3>1
  <2> QED BY <2>3, <2>4, <2>5
<1> QED BY <1>1, <1>2, <1>3

LEMMA ClosedCsv ==
    ASSUME NEW k, NEW n, NEW l, Grown(k, n, l, n), NEW id, NEW c, CsvFollows(k, n, id, c), NEW name, NEW x
    PROVE  LET g == Csv!CloseLevel(c, name)
           IN  CsvFollows(l, n, x, g) /\ g.noHeader = c.noHeader
<1> DEFINE d == IF c.recording THEN Csv!StopRecording(c) ELSE c
           g == Csv!CloseLevel(c, name)
<1>1. c.recording \in BOOLEAN /\ n \in Nat
  BY DEF CsvFollows, CsvTypes, Grown
<1>2. CsvFollows(k, n, x, d) /\ ~d.recording /\ d.noHeader = c.noHeader
  <2>1. CASE c.recording
    BY <1>1, <2>1, StopCsv DEF SameCourse
  <2>2. CASE ~c.recording
    BY <2>2, AnyElement
  <2> QED BY <1>1, <2>1, <2>2
<1>3. g = IF Csv!Entered(d, name) THEN [d EXCEPT !.cur = @ - 1] ELSE d
  BY DEF Csv!CloseLevel
<1> HIDE DEF d, g
<1>4. CsvFollows(l, n, x, d) /\ d \in CsvTypes /\ d.recording \in BOOLEAN
  BY <1>2, GrownCsv DEF CsvFollows, CsvTypes
<1>5. CASE Csv!Entered(d, name)
  <2>1. d.cur - 1 \in Nat
    BY <1>4, <1>5 DEF Csv!Entered, CsvTypes
  <2>2. g = [d EXCEPT !.cur = @ - 1]
    BY <1>3, <1>5
  <2>3. SameLines(d, g) /\ g.recording = d.recording
    BY <1>4, <2>1, <2>2 DEF CsvTypes, SameLines
  <2>4. CsvFollows(l, n, x, g)
    BY <1>2, <1>4, <2>3, MovedCsv
  <2> QED BY <1>2, <2>3, <2>4 DEF g, SameLines
<1>6. CASE ~Csv!Entered(d, name)
  BY <1>2, <1>3, <1>4, <1>6 DEF g
<1> QED BY <1>5, <1>6

LEMMA FlushedLines ==
    ASSUME NEW k, NEW n, NEW id, NEW c, CsvFollows(k, n, id, c)
    PROVE  LET g == Csv!Flush(c)
           IN  CsvFollows(k, n, id, g) /\ g.noHeader = c.noHeader
<1> DEFINE g == Csv!Flush(c)
<1>1. FlushedAs(c, g) /\ c \in CsvTypes
  BY FlushCsv DEF CsvFollows
<1> HIDE DEF g
<1>2. PICK e : Table(k, n, c, e, IF c.recording THEN id ELSE n + 1)
  BY DEF CsvFollows
<1>3. Csv!Header(g) = Csv!Header(c)
  BY <1>1 DEF FlushedAs, SameTable, Csv!Header
<1>4. Table(k, n, g, e, IF c.recording THEN id ELSE n + 1)
  BY <1>1, <1>2, <1>3, TableSame, OutTypes, NotEmpty DEF FlushedAs, SameTable
<1> QED BY <1>1, <1>4 DEF CsvFollows, FlushedAs, SameTable, LeafFine, g

-----------------------------------------------------------------------------
(* The steps *)

\* The element that fields are given in while csv records
Recorded(o) == IF o[Len(o)].kind = "list" THEN o[Len(o) - 1].id ELSE o[Len(o)].id

CsvInv ==
    IF setup.filtered
    THEN Out(csv) = <<>>
    ELSE /\ CsvFollows(kept, count, Recorded(open), csv)
         /\ csv.noHeader = setup.csv.noHeader
         /\ Numbered(kept, count)

\* An operation that gives nothing
LEMMA GrownByNone ==
    ASSUME DocInv, NEW op, op.op \notin {"field", "item"}, NEW o, KeptOne(op, o),
           NEW m \in Nat, count <= m, Numbered(kept, count)
    PROVE  Grown(kept, count, kept', m) /\ Numbered(kept', m)
<1> DEFINE n == Len(kept)
<1>1. /\ n \in Nat /\ Len(kept') = n + 1 /\ count \in Nat
      /\ \A p \in 1..n : kept'[p] = kept[p]
      /\ kept'[n + 1].what = op
  BY DEF DocInv, KeptOne
<1> HIDE DEF n
<1>2. \A p \in 1..(n + 1) : p \in 1..n \/ \A v \in Nat : ~Gave(kept', p, v)
  <2>1. \A p \in 1..(n + 1) : p \in 1..n \/ p = n + 1
    BY <1>1
  <2> QED BY <1>1, <2>1 DEF Gave
<1>3. Grown(kept, count, kept', m)
  BY <1>1, <1>2 DEF Grown, n
<1>4. ASSUME NEW p \in 1..(n + 1), NEW v \in Nat, Gave(kept', p, v)
      PROVE  v <= m
  <2>1. p \in 1..n /\ Gave(kept, p, v)
    BY <1>1, <1>2, <1>4 DEF Gave
  <2>2. v <= count
    BY <2>1 DEF Numbered, n
  <2> QED BY <1>1, <2>2
<1> QED BY <1>1, <1>3, <1>4 DEF Numbered

\* An operation that gives the next value in what is open
LEMMA GrownByOne ==
    ASSUME DocInv, NEW op, op.value = count + 1, KeptOne(op, open), Numbered(kept, count),
           Top.kind # "list"
    PROVE  /\ Grown(kept, count, kept', count + 1) /\ Numbered(kept', count + 1)
           /\ CellFine(kept', count + 1, count + 1, op.name, Recorded(open))
<1> DEFINE n == Len(kept)
           v == count + 1
<1>1. /\ n \in Nat /\ Len(kept') = n + 1 /\ count \in Nat
      /\ \A p \in 1..n : kept'[p] = kept[p]
      /\ kept'[n + 1].what = op /\ kept'[n + 1].within = Place(open)
  BY DEF DocInv, KeptOne
<1>2. Elems(open)
  BY DEF DocInv
<1> HIDE DEF n
<1>3. \A p \in 1..(n + 1) : p \in 1..n \/ p = n + 1
  BY <1>1
<1>4. ASSUME NEW p \in 1..n, NEW w \in Nat, Gave(kept', p, w)
      PROVE  w <= count
  BY <1>1, <1>4 DEF Gave, Numbered, n
<1>5. ASSUME NEW w \in Nat, Gave(kept', n + 1, w)
      PROVE  w = v
  BY <1>1, <1>5 DEF Gave
<1>6. Inner(kept', n + 1) = Recorded(open)
  <2> DEFINE d == Len(open)
  <2>0. PICK place : place = Place(open)
    OBVIOUS
  <2>1. d \in Nat /\ d >= 1 /\ Len(place) = d - 1
        /\ \A i \in 1..(d - 1) : place[i].id = open[i + 1].id
        /\ place \in Seq([kind : Kinds, name : Labels, id : Nat])
    <3>1. d \in Nat /\ d >= 1
      BY <1>2, TopFacts
    <3>2. Len(place) = d - 1 /\ place \in Seq([kind : Kinds, name : Labels, id : Nat])
      BY <1>2, <2>0, PlaceTypes
    <3>3. \A i \in 1..(d - 1) :
              place[i] = [kind |-> open[i + 1].kind, name |-> open[i + 1].name, id |-> open[i + 1].id]
      BY <1>2, <2>0, PlaceTypes
    <3> HIDE DEF d
    <3>4. \A i \in 1..(d - 1) : place[i].id = open[i + 1].id
      <4> TAKE i \in 1..(d - 1)
      <4>1. place[i] = [kind |-> open[i + 1].kind, name |-> open[i + 1].name, id |-> open[i + 1].id]
        BY <3>3
      <4> QED BY <4>1
    <3> QED BY <3>1, <3>2, <3>4
  <2>2. Recorded(open) = open[d].id
    BY DEF Recorded, Top
  <2>3. Inner(kept', n + 1) = IF place = <<>> THEN 0 ELSE place[d - 1].id
    BY <1>1, <2>0, <2>1 DEF Inner
  <2>4. CASE d = 1
    <3>1. place = <<>>
      BY <2>1, <2>4, EmptySeq
    <3>2. open[1].id = 0
      BY <1>2 DEF Elems, Nested
    <3> QED BY <2>2, <2>3, <2>4, <3>1, <3>2
  <2>5. CASE d > 1
    <3>1. place # <<>>
      BY <2>1, <2>5, EmptySeq
    <3>2. d - 1 \in 1..(d - 1) /\ d - 1 + 1 = d
      BY <2>1, <2>5
    <3>3. place[d - 1].id = open[d].id
      BY <2>1, <3>2
    <3> QED BY <2>2, <2>3, <3>1, <3>3
  <2> QED BY <2>1, <2>4, <2>5
<1> HIDE DEF v
<1>7. v \in Nat /\ count < v /\ count <= v /\ v <= v
  BY <1>1 DEF v
<1>8. Grown(kept, count, kept', v)
  BY <1>1, <1>3, <1>5, <1>7 DEF Grown, n
<1>9. Numbered(kept', v)
  <2>1. ASSUME NEW p \in 1..(n + 1), NEW w \in Nat, Gave(kept', p, w)
        PROVE  w <= v
    <3>1. CASE p \in 1..n
      BY <1>1, <1>4, <1>7, <2>1, <3>1
    <3>2. CASE p = n + 1
      BY <1>5, <1>7, <2>1, <3>2
    <3> QED BY <1>3, <3>1, <3>2
  <2> QED BY <1>1, <2>1 DEF Numbered
<1>10. CellFine(kept', v, v, op.name, Recorded(open))
  <2>1. ASSUME NEW p \in 1..(n + 1), Gave(kept', p, v)
        PROVE  kept'[p].what.name = op.name /\ Inner(kept', p) = Recorded(open)
    <3>1. p = n + 1
      <4>1. p \notin 1..n
        BY <1>1, <1>4, <1>7, <2>1
      <4> QED BY <1>3, <4>1
    <3> QED BY <1>1, <1>6, <3>1
  <2> QED BY <1>1, <1>7, <2>1 DEF CellFine
<1> QED BY <1>8, <1>9, <1>10 DEF v

LEMMA OpenCsv ==
    ASSUME DocInv, CsvInv, ~setup.filtered, NEW kind \in OpenKinds, NEW name \in Labels,
           NEW v \in Verdicts, NEW flags \in SUBSET {"dense"}, Fits(kind, name),
           OpenOne(kind, name, v, flags)
    PROVE  CsvInv'
<1> DEFINE n == Len(open)
           op == OpenOp(kind, name, flags)
           m == count + 1
<1>1. /\ KeptOne(op, open) /\ csv' = Csv!Handle(csv, op) /\ setup' = setup /\ count' = m
      /\ m \in Nat /\ count <= m
  BY OpenKeeps DEF Tell, DocInv
<1>2. /\ op.name = name /\ op.op \notin {"field", "item"}
      /\ kind = "container" => op.op = "open_container"
      /\ kind = "instance" => op.op = "open_instance"
      /\ kind = "list" => op.op = "open_list"
      /\ kind = "leaf_list" => op.op = "open_leaf_list"
  BY DEF OpenOp, Op, Opening, OpenKinds
<1>3. /\ Elems(open) /\ Elems(open') /\ Len(open') = n + 1 /\ Lower(open, open', n)
      /\ open'[n + 1].kind = kind /\ open'[n + 1].id = m /\ n \in 1..n
  BY OpenEffect, TopFacts DEF OpenedOne, DocInv
<1>4. /\ CsvFollows(kept, count, Recorded(open), csv) /\ csv.noHeader = setup.csv.noHeader
      /\ Numbered(kept, count)
  BY DEF CsvInv
<1> HIDE DEF op, m, n
<1>5. Grown(kept, count, kept', m) /\ Numbered(kept', m)
  BY <1>1, <1>2, <1>4, GrownByNone
<1>6. CASE kind = "list"
  <2>1. csv' = csv
    BY <1>1, <1>2, <1>6 DEF Csv!Handle
  <2>2. open[n].kind # "list"
    BY <1>6 DEF Fits, Top, n
  <2>3. Recorded(open') = Recorded(open)
    <3>1. Recorded(open') = open'[n].id /\ Recorded(open) = open[n].id
      BY <1>3, <1>6, <2>2 DEF Recorded, n
    <3> QED BY <1>3, <3>1 DEF Lower, Like
  <2>4. CsvFollows(kept', m, Recorded(open), csv)
    BY <1>4, <1>5, GrownCsv
  <2> QED BY <1>1, <1>4, <1>5, <2>1, <2>3, <2>4 DEF CsvInv
<1>7. CASE kind # "list"
  <2>1. PICK b \in BOOLEAN : csv' = Csv!OpenLevel(csv, name, b)
    BY <1>1, <1>2, <1>7 DEF Csv!Handle, OpenKinds
  <2>2. Recorded(open') = m
    BY <1>3, <1>7 DEF Recorded
  <2>3. CsvFollows(kept', m, m, csv') /\ csv'.noHeader = csv.noHeader
    BY <1>4, <1>5, <2>1, OpenedCsv DEF m
  <2> QED BY <1>1, <1>4, <1>5, <2>2, <2>3 DEF CsvInv
<1> QED BY <1>6, <1>7

\* What a field and an item have in common
LEMMA GivenCsv ==
    ASSUME DocInv, CsvInv, ~setup.filtered, NEW op, op.op \in {"field", "item"},
           op.value = count + 1, op.name \in Labels, KeptOne(op, open), Tell(op),
           Top.kind # "list", NEW keys, Keyed(open, open', keys), count' = count + 1, setup' = setup
    PROVE  CsvInv'
<1> DEFINE n == Len(open)
           m == count + 1
<1>1. csv' = Csv!Data(csv, op.name, m) /\ m \in Nat
  BY DEF Tell, Csv!Handle, DocInv
<1>2. /\ CsvFollows(kept, count, Recorded(open), csv) /\ csv.noHeader = setup.csv.noHeader
      /\ Numbered(kept, count)
  BY DEF CsvInv
<1>3. /\ Grown(kept, count, kept', m) /\ Numbered(kept', m)
      /\ CellFine(kept', m, m, op.name, Recorded(open))
  BY <1>2, GrownByOne
<1> HIDE DEF m
<1>4. CsvFollows(kept', m, Recorded(open), csv') /\ csv'.noHeader = csv.noHeader
  <2>1. CsvFollows(kept', m, Recorded(open), csv)
    BY <1>2, <1>3, GrownCsv
  <2> QED BY <1>1, <1>3, <2>1, DataCsv DEF SameCourse
<1>5. Recorded(open') = Recorded(open)
  <2>1. Len(open') = n /\ Like(open[n], open'[n])
    BY DEF Keyed
  <2> QED BY <2>1 DEF Recorded, Top, Like
<1> QED BY <1>2, <1>3, <1>4, <1>5 DEF CsvInv, m

LEMMA CloseCsv ==
    ASSUME DocInv, CsvInv, ~setup.filtered, Close
    PROVE  CsvInv'
<1> DEFINE n == Len(open)
           op == CloseOp
<1>1. /\ Elems(open) /\ Elems(open') /\ Len(open') = n - 1 /\ n > 1 /\ n \in Nat
      /\ \A i \in 1..(n - 1) : open'[i] = open[i]
  <2>1. open' = Front(open) /\ Elems(open) /\ n > 1
    BY CloseEffect DEF ClosedOne, DocInv, Close
  <2> QED BY <2>1, FrontFacts, TopFacts
<1>2. ~Top.tentative /\ Top.kind \in OpenKinds /\ Top.kind = open[n].kind
  <2>1. n \in 2..n /\ n \in 1..n
    BY <1>1
  <2> QED BY <1>1, <2>1 DEF Elems, Nested, Top, DocInv
<1>3. csv' = Csv!Handle(csv, op) /\ KeptOne(op, Front(open)) /\ count' = count /\ setup' = setup
  BY <1>2, CloseKeeps DEF Tell
<1>4. /\ op.op \notin {"field", "item"}
      /\ Top.kind = "container" => op.op = "close_container"
      /\ Top.kind = "instance" => op.op = "close_instance"
      /\ Top.kind = "list" => op.op = "close_list"
      /\ Top.kind = "leaf_list" => op.op = "close_leaf_list"
  BY <1>2 DEF CloseOp, Op, Closing, OpenKinds
<1>5. /\ CsvFollows(kept, count, Recorded(open), csv) /\ csv.noHeader = setup.csv.noHeader
      /\ Numbered(kept, count) /\ count \in Nat /\ count <= count
  BY DEF CsvInv, DocInv
<1> HIDE DEF op, n
<1>6. Grown(kept, count, kept', count) /\ Numbered(kept', count)
  BY <1>3, <1>4, <1>5, GrownByNone
<1>7. CASE Top.kind = "list"
  <2>1. csv' = csv
    BY <1>3, <1>4, <1>7 DEF Csv!Handle
  <2>2. open[n - 1].kind # "list"
    <3>1. n \in 2..n
      BY <1>1
    <3> QED BY <1>1, <1>2, <1>7, <3>1 DEF Elems, Nested, n
  <2>3. Recorded(open') = Recorded(open)
    <3>1. n - 1 \in 1..(n - 1)
      BY <1>1
    <3>2. Recorded(open') = open[n - 1].id
      BY <1>1, <2>2, <3>1 DEF Recorded
    <3>3. Recorded(open) = open[n - 1].id
      BY <1>2, <1>7 DEF Recorded, n
    <3> QED BY <3>2, <3>3
  <2>4. CsvFollows(kept', count, Recorded(open), csv)
    BY <1>5, <1>6, GrownCsv
  <2> QED BY <1>3, <1>5, <1>6, <2>1, <2>3, <2>4 DEF CsvInv
<1>8. CASE Top.kind # "list"
  <2>1. csv' = Csv!CloseLevel(csv, op.name)
    BY <1>2, <1>3, <1>4, <1>8 DEF Csv!Handle, OpenKinds
  <2>2. CsvFollows(kept', count, Recorded(open'), csv') /\ csv'.noHeader = csv.noHeader
    BY <1>5, <1>6, <2>1, ClosedCsv
  <2> QED BY <1>3, <1>5, <1>6, <2>2 DEF CsvInv
<1> QED BY <1>7, <1>8

LEMMA FilteredCsv ==
    ASSUME DocInv, setup.filtered, Next
    PROVE  csv' = csv /\ setup' = setup
<1>1. setup' = setup
  BY Steps DEF OpenOne, Field, Item, Close, Skip, Flush, Finish, Still
<1>2. \A op : Tell(op) \/ TellTentative(op) \/ TellDeadend(op) \/ TellOthers(op) => csv' = csv
  BY DEF Tell, TellTentative, TellDeadend, TellOthers
<1>3. csv' = csv
  BY <1>2, Steps, FieldEffect, ItemEffect DEF OpenOne, Close, Skip, Flush, Finish
<1> QED BY <1>1, <1>3

LEMMA CsvStep ==
    ASSUME DocInv, CsvInv, [Next]_vars
    PROVE  CsvInv'
<1>1. CASE UNCHANGED vars
  BY <1>1 DEF vars, CsvInv
<1>2. CASE Next
  <2>1. CASE setup.filtered
    BY <1>2, <2>1, FilteredCsv DEF CsvInv
  <2>2. CASE ~setup.filtered
    <3>1. ASSUME NEW kind \in OpenKinds, NEW name \in Labels, NEW v \in Verdicts,
                 NEW flags \in SUBSET {"dense"}, Fits(kind, name), OpenOne(kind, name, v, flags)
          PROVE  CsvInv'
      BY <2>2, <3>1, OpenCsv
    <3>2. ASSUME NEW name \in Fields, Field(name)
          PROVE  CsvInv'
      <4>1. KeptOne(FieldOp(name), open) /\ Tell(FieldOp(name)) /\ count' = count + 1 /\ setup' = setup
        BY <2>2, <3>2, FieldKeeps, FieldEffect
      <4>2. FieldOp(name).op = "field" /\ FieldOp(name).value = count + 1
            /\ FieldOp(name).name \in Labels
        BY DEF FieldOp, Op, Labels
      <4>3. Top.kind # "list"
        BY <3>2 DEF Field, Holds
      <4>4. PICK keys : Keyed(open, open', keys)
        BY <3>2, FieldEffect
      <4> QED BY <2>2, <4>1, <4>2, <4>3, <4>4, GivenCsv
    <3>3. ASSUME Item
          PROVE  CsvInv'
      <4>1. KeptOne(ItemOp, open) /\ Tell(ItemOp) /\ count' = count + 1 /\ setup' = setup
        BY <2>2, <3>3, ItemKeeps, ItemEffect
      <4>2. ItemOp.op = "item" /\ ItemOp.value = count + 1 /\ ItemOp.name \in Labels
        BY TopFacts DEF ItemOp, Op, Top, DocInv
      <4>3. Top.kind # "list"
        BY <3>3 DEF Item, Holds
      <4> QED BY <2>2, <3>3, <4>1, <4>2, <4>3, ItemEffect, GivenCsv
    <3>4. ASSUME Close
          PROVE  CsvInv'
      BY <2>2, <3>4, CloseCsv
    <3>5. ASSUME Skip
          PROVE  CsvInv'
      BY <2>2, <3>5, SkipEffect
    <3> DEFINE flush == Op("flush", NoName, NoName, {})
               finish == Op("finish", NoName, NoName, {})
    <3>6. Csv!Handle(csv, flush) = Csv!Flush(csv) /\ Csv!Handle(csv, finish) = csv
      BY DEF Csv!Handle, Op
    <3>7. ASSUME Flush \/ Finish
          PROVE  CsvInv'
      <4>1. csv' = Csv!Flush(csv) /\ UNCHANGED <<open, kept, count, setup>>
        BY <2>2, <3>6, <3>7 DEF Flush, Finish, Tell
      <4>2. /\ CsvFollows(kept, count, Recorded(open), csv) /\ csv.noHeader = setup.csv.noHeader
            /\ Numbered(kept, count)
        BY <2>2 DEF CsvInv
      <4>3. CsvFollows(kept, count, Recorded(open), csv') /\ csv'.noHeader = csv.noHeader
        BY <4>1, <4>2, FlushedLines
      <4>4. kept' = kept /\ count' = count /\ Recorded(open') = Recorded(open) /\ setup' = setup
        BY <4>1
      <4> QED BY <2>2, <4>2, <4>3, <4>4 DEF CsvInv
    <3> QED BY <1>2, <3>1, <3>2, <3>3, <3>4, <3>5, <3>7, Steps
  <2> QED BY <2>1, <2>2
<1> QED BY <1>1, <1>2

-----------------------------------------------------------------------------
(* The options *)

\* Before anything was recorded
NewCsv(c) ==
    /\ c \in CsvTypes /\ c.written = <<>> /\ c.data = <<>> /\ ~c.recording /\ ~c.headerDone
    /\ c.cur = 0 /\ \A i \in 1..Len(c.leafs) : c.leafs[i].cell = JunkCell

LEMMA AddedNew ==
    ASSUME NEW c, NewCsv(c), NEW name \in Labels
    PROVE  LET g == Csv!AddedOnce(c, name)
           IN  NewCsv(g) /\ SameCourse(c, g)
<1> DEFINE m == Len(c.leafs)
           x == Csv!Leaf(name, Csv!FreshHas(c))
           l == Append(c.leafs, x)
           r == IF Csv!NeedsRoom(c) THEN IF c.max = 0 THEN LeafMax ELSE 2 * c.max ELSE c.max
           g == Csv!AddedLeaf(c, name)
<1>1. c \in CsvTypes /\ c.leafs \in Seq(Leafs) /\ m \in Nat /\ DOMAIN c.leafs = 1..m
      /\ c.max \in Nat /\ c.junk \in BOOLEAN
  BY DEF NewCsv, CsvTypes
<1>2. r \in Nat
  BY <1>1, SizesAssumption
<1>3. g = [[c EXCEPT !.max = r] EXCEPT !.leafs = l]
  <2>1. Csv!WithRoom(c) = [c EXCEPT !.max = r]
    BY <1>1 DEF Csv!WithRoom, CsvTypes
  <2> QED BY <1>1, <2>1 DEF Csv!AddedLeaf, CsvTypes
<1>4. x \in Leafs /\ x.name = name /\ x.cell = JunkCell
  BY <1>1 DEF Csv!Leaf, Leafs, Cells, Csv!FreshHas
<1> HIDE DEF x, r, g
<1>5. l \in Seq(Leafs) /\ Len(l) = m + 1 /\ l[m + 1] = x /\ \A i \in 1..m : l[i] = c.leafs[i]
  BY <1>1, <1>4
<1> HIDE DEF l
<1>6. /\ g \in CsvTypes /\ g.leafs = l /\ g.written = c.written /\ g.data = c.data
      /\ g.recording = c.recording /\ g.headerDone = c.headerDone
      /\ g.noHeader = c.noHeader /\ g.path = c.path /\ g.cur = c.cur
  BY <1>1, <1>2, <1>3, <1>5 DEF CsvTypes
<1>7. \A i \in 1..(m + 1) : l[i].cell = JunkCell
  BY <1>1, <1>4, <1>5 DEF NewCsv
<1>8. NewCsv(g) /\ SameCourse(c, g)
  BY <1>5, <1>6, <1>7 DEF NewCsv, SameCourse
<1> QED BY <1>8 DEF Csv!AddedOnce, g, SameCourse

\* f says what the first of the names make of c.
Named(c, names, n, f) ==
    f = [i \in 0..n |-> IF i = 0 THEN c ELSE Csv!AddedOnce(f[i - 1], names[i])]

LEMMA NamedAt ==
    ASSUME NEW c, NEW names, NEW n \in Nat, NEW f, Named(c, names, n, f)
    PROVE  f[0] = c /\ \A i \in 1..n : f[i] = Csv!AddedOnce(f[i - 1], names[i])
<1>1. 0 \in 0..n /\ \A i \in 1..n : i \in 0..n /\ i # 0
  OBVIOUS
<1>2. \A i \in 0..n : f[i] = IF i = 0 THEN c ELSE Csv!AddedOnce(f[i - 1], names[i])
  BY Zenon DEF Named
<1> QED BY <1>1, <1>2

LEMMA NamedMore ==
    ASSUME NEW c, NEW names, NEW n \in Nat, NEW f, Named(c, names, n, f)
    PROVE  \E g : Named(c, names, n + 1, g)
<1> DEFINE g == [i \in 0..(n + 1) |-> IF i <= n THEN f[i] ELSE Csv!AddedOnce(f[n], names[n + 1])]
<1>1. f[0] = c /\ \A i \in 1..n : f[i] = Csv!AddedOnce(f[i - 1], names[i])
  BY NamedAt
<1>2. \A i \in 0..(n + 1) : g[i] = IF i <= n THEN f[i] ELSE Csv!AddedOnce(f[n], names[n + 1])
  OBVIOUS
<1>3. g = [i \in 0..(n + 1) |-> g[i]]
  OBVIOUS
<1> HIDE DEF g
<1>4. ASSUME NEW i \in 0..(n + 1)
      PROVE  g[i] = IF i = 0 THEN c ELSE Csv!AddedOnce(g[i - 1], names[i])
  <2>1. CASE i = 0
    <3>1. 0 <= n
      OBVIOUS
    <3> QED BY <1>1, <1>2, <2>1, <3>1
  <2>2. CASE i \in 1..n
    <3>1. i - 1 \in 0..(n + 1) /\ i - 1 <= n /\ i <= n /\ i # 0
      BY <2>2
    <3> QED BY <1>1, <1>2, <2>2, <3>1
  <2>3. CASE i = n + 1
    <3>1. i - 1 = n /\ n \in 0..(n + 1) /\ n <= n /\ ~(i <= n) /\ i # 0
      BY <2>3
    <3>2. g[i] = Csv!AddedOnce(f[n], names[n + 1]) /\ g[n] = f[n]
      BY <1>2, <3>1
    <3> QED BY <2>3, <3>1, <3>2
  <2> QED BY <2>1, <2>2, <2>3
<1>5. Named(c, names, n + 1, g)
  BY <1>3, <1>4 DEF Named
<1> QED BY <1>5

LEMMA NamedExists ==
    ASSUME NEW c, NEW names, NEW n \in Nat
    PROVE  \E f : Named(c, names, n, f)
<1> DEFINE D == {m \in Nat : ~\E f : Named(c, names, m, f)}
<1>1. SUFFICES ASSUME n \in D PROVE FALSE
  OBVIOUS
<1>2. PICK m \in D : \A k \in D : m <= k
  <2>1. D \in SUBSET Nat
    OBVIOUS
  <2> HIDE DEF D
  <2> QED BY <1>1, <2>1, LeastOf
<1>3. CASE m = 0
  <2> DEFINE f == [i \in 0..0 |-> c]
  <2>1. f[0] = c /\ f = [i \in 0..0 |-> f[i]] /\ \A i \in 0..0 : i = 0
    OBVIOUS
  <2> HIDE DEF f
  <2>2. Named(c, names, 0, f)
    BY <2>1 DEF Named
  <2> QED BY <1>2, <1>3, <2>2
<1>4. CASE m # 0
  <2>1. m - 1 \in Nat /\ m - 1 + 1 = m /\ ~(m <= m - 1)
    BY <1>2, <1>4
  <2>2. PICK f : Named(c, names, m - 1, f)
    BY <1>2, <2>1
  <2>3. \E g : Named(c, names, m, g)
    BY <2>1, <2>2, NamedMore
  <2> QED BY <1>2, <2>3
<1> QED BY <1>3, <1>4

LEMMA NamedNew ==
    ASSUME NEW c, NewCsv(c), NEW names, NEW n \in Nat, \A i \in 1..n : names[i] \in Labels,
           NEW f, Named(c, names, n, f), NEW i \in 0..n
    PROVE  NewCsv(f[i]) /\ SameCourse(c, f[i])
<1> DEFINE Good(j) == NewCsv(f[j]) /\ SameCourse(c, f[j])
           D == {j \in 0..n : ~Good(j)}
<1>0. Named(c, names, n, f)
  OBVIOUS
<1> HIDE DEF D, Good
<1>1. f[0] = c /\ \A j \in 1..n : f[j] = Csv!AddedOnce(f[j - 1], names[j])
  BY ONLY <1>0, n \in Nat, NamedAt
<1> USE DEF D, Good
<1>2. SUFFICES ASSUME i \in D PROVE FALSE
  OBVIOUS
<1>3. PICK m \in D : \A k \in D : m <= k
  <2>1. D \in SUBSET Nat
    OBVIOUS
  <2> HIDE DEF D
  <2> QED BY <1>2, <2>1, LeastOf
<1>4. CASE m = 0
  BY <1>1, <1>3, <1>4 DEF SameCourse
<1>5. CASE m # 0
  <2>1. m - 1 \in 0..n /\ m \in 1..n /\ ~(m <= m - 1)
    BY <1>3, <1>5
  <2>2. Good(m - 1)
    BY <1>3, <2>1
  <2>3. Good(m)
    BY <1>1, <2>1, <2>2, AddedNew DEF SameCourse
  <2> QED BY <1>3, <2>3
<1> QED BY <1>4, <1>5

LEMMA CreatedCsv ==
    ASSUME NEW options, options.path \in Seq(Labels), options.leafs \in Seq(Labels),
           options.flushes \in BOOLEAN, options.noHeader \in BOOLEAN, NEW junk \in BOOLEAN
    PROVE  LET c == Csv!Created(options, junk)
           IN  NewCsv(c) /\ c.noHeader = options.noHeader /\ c.path = options.path
<1> DEFINE n == Len(options.leafs)
           names == options.leafs
           c == Csv!Fresh(options, junk)
           all == CHOOSE f : Named(c, names, n, f)
           g == Csv!Created(options, junk)
<1>1. n \in Nat /\ n \in 0..n /\ \A i \in 1..n : names[i] \in Labels
  OBVIOUS
<1>2. NewCsv(c) /\ c.noHeader = options.noHeader /\ c.path = options.path
  <2>1. <<>> \in Seq(Leafs) /\ <<>> \in Seq(Lines) /\ Len(<<>>) = 0
    BY EmptySeq
  <2> QED BY <2>1 DEF Csv!Fresh, NewCsv, CsvTypes
<1>3. g = [all[n] EXCEPT !.leafsDone = options.leafs # <<>>]
  BY DEF Csv!Created, Named
<1>4. Named(c, names, n, all)
  BY <1>1, NamedExists
<1> DEFINE x == all[n]
<1>5. NewCsv(x) /\ SameCourse(c, x)
  <2> HIDE DEF all, c, n, names
  <2> QED BY <1>1, <1>2, <1>4, NamedNew
<1> HIDE DEF c, x, g
<1>6. (options.leafs # <<>>) \in BOOLEAN
  OBVIOUS
<1>7. NewCsv(g) /\ g.noHeader = x.noHeader /\ g.path = x.path
  BY <1>3, <1>5, <1>6 DEF NewCsv, CsvTypes, x
<1> QED BY <1>2, <1>5, <1>7 DEF SameCourse, g

LEMMA NoLines ==
    ASSUME NEW c, NewCsv(c)
    PROVE  Out(c) = <<>> /\ Len(Out(c)) = 0
<1>1. <<>> \in Seq(Lines) /\ c.written = <<>> /\ c.data = <<>>
  BY EmptySeq DEF NewCsv
<1>2. <<>> \o <<>> = <<>>
  BY <1>1, ConcatEmptySeq
<1> QED BY <1>1, <1>2 DEF Out

LEMMA CsvInit ==
    ASSUME Init
    PROVE  CsvInv
<1>1. /\ setup \in Setups /\ kept = <<>> /\ count = 0 /\ csv = Csv!Created(setup.csv, setup.junk)
  BY DEF Init
<1>2. NewCsv(csv) /\ csv.noHeader = setup.csv.noHeader
  <2>1. /\ setup.csv.path \in Seq(Containers \cup Lists \cup LeafLists)
        /\ setup.csv.leafs \in Seq(Fields)
        /\ setup.csv.flushes \in BOOLEAN /\ setup.csv.noHeader \in BOOLEAN /\ setup.junk \in BOOLEAN
    BY <1>1, SetupFacts
  <2>2. setup.csv.path \in Seq(Labels) /\ setup.csv.leafs \in Seq(Labels)
    <3>1. \A S, T : S \subseteq T => Seq(S) \subseteq Seq(T)
      OBVIOUS
    <3>2. Containers \cup Lists \cup LeafLists \subseteq Labels /\ Fields \subseteq Labels
      BY DEF Labels
    <3> QED BY <2>1, <3>1, <3>2
  <2> QED BY <1>1, <2>1, <2>2, CreatedCsv
<1>3. Out(csv) = <<>> /\ Len(Out(csv)) = 0
  BY <1>2, NoLines
<1>4. \E e : Table(kept, count, csv, e, count + 1)
  <2> DEFINE e == [i \in 1..0 |-> 0]
  <2>1. e \in [1..0 -> Nat]
    OBVIOUS
  <2> HIDE DEF e
  <2>2. Table(kept, count, csv, e, count + 1)
    BY <1>3, <2>1 DEF Table
  <2> QED BY <2>2
<1>5. Numbered(kept, count)
  <2>1. Len(kept) = 0
    BY <1>1
  <2> QED BY <2>1 DEF Numbered
<1>6. CsvFollows(kept, count, Recorded(open), csv)
  BY <1>2, <1>3, <1>4 DEF CsvFollows, NewCsv, LeafFine
<1> QED BY <1>2, <1>3, <1>5, <1>6 DEF CsvInv

LEMMA CsvIs ==
    ASSUME DocInv, CsvInv
    PROVE  CsvTable
<1>1. CASE setup.filtered
  <2>0. CsvOutput = Out(csv)
    BY DEF Out, CsvOutput
  <2>1. CsvOutput = <<>> /\ DOMAIN CsvOutput = {}
    BY <1>1, <2>0 DEF CsvInv
  <2> QED BY <2>1 DEF CsvTable, Rows
<1>2. CASE ~setup.filtered
  <2> DEFINE n == Len(Out(csv))
  <2>1. /\ CsvFollows(kept, count, Recorded(open), csv) /\ csv.noHeader = setup.csv.noHeader
    BY <1>2 DEF CsvInv
  <2>2. PICK e, below : Table(kept, count, csv, e, below)
    BY <2>1 DEF CsvFollows
  <2>3. CsvOutput = Out(csv) /\ DOMAIN CsvOutput = 1..n /\ n \in Nat
    <3>1. CsvOutput = Out(csv)
      BY DEF CsvOutput, Out
    <3>2. Out(csv) \in Seq(Lines)
      BY <2>1, OutTypes DEF CsvFollows
    <3> QED BY <3>1, <3>2
  <2>4. /\ Names = Csv!Header(csv) /\ Len(Names) = Len(csv.leafs)
        /\ DOMAIN Names = 1..Len(Names)
    BY <2>1, LineTypes DEF Names, CsvFollows
  <2>5. DOMAIN kept = 1..Len(kept)
    BY DEF DocInv
  <2>6. \A p \in 1..Len(kept) : InnermostOf(p) = Inner(kept, p)
    BY DEF InnermostOf, Inner
  <2>7. \A i \in 1..n : CsvOutput[i].line = "header" =>
            i = 1 /\ ~setup.csv.noHeader /\ CsvOutput[i].cells = Names
    BY <2>1, <2>2, <2>3, <2>4 DEF Table, LineFine
  <2>8. ASSUME NEW r \in Rows
        PROVE  /\ r \in 1..n /\ Len(CellsOf(r)) = Len(Names)
               /\ e[r] \in Nat
               /\ \A i \in Filled(CellsOf(r)) : \A p \in Given(CellsOf(r)[i]) :
                     kept[p].what.name = Names[i] /\ InnermostOf(p) = e[r]
    <3>1. r \in 1..n /\ Out(csv)[r].line = "row" /\ CellsOf(r) = Out(csv)[r].cells
      BY <2>3, <2>8 DEF Rows, IsRow, CellsOf
    <3>2. RowFine(kept, count, Names, CellsOf(r), e[r]) /\ e[r] \in Nat
      BY <2>2, <2>4, <3>1 DEF Table, LineFine
    <3>3. Len(CellsOf(r)) = Len(Names) /\ DOMAIN CellsOf(r) = 1..Len(Names)
      <4>1. Out(csv)[r] \in Lines
        BY <2>1, <3>1, OutTypes DEF CsvFollows
      <4>2. CellsOf(r) \in Seq(Labels \cup Cells)
        BY <3>1, <4>1 DEF Lines
      <4> QED BY <3>2, <4>2 DEF RowFine
    <3>4. ASSUME NEW i \in Filled(CellsOf(r)), NEW p \in Given(CellsOf(r)[i])
          PROVE  kept[p].what.name = Names[i] /\ InnermostOf(p) = e[r]
      <4>1. i \in 1..Len(Names) /\ CellsOf(r)[i] \notin {NoCell, JunkCell}
        BY <3>3, <3>4 DEF Filled
      <4>2. p \in 1..Len(kept) /\ Gave(kept, p, CellsOf(r)[i])
        BY <2>5, <3>4 DEF Given, Gave
      <4>3. CellFine(kept, count, CellsOf(r)[i], Names[i], e[r])
        BY <3>2, <4>1 DEF RowFine
      <4> QED BY <2>6, <4>1, <4>2, <4>3 DEF CellFine
    <3> QED BY <3>1, <3>2, <3>3, <3>4
  <2>9. ASSUME NEW r \in Rows, NEW s \in Rows, r <= s,
               NEW i \in Filled(CellsOf(r)), NEW j \in Filled(CellsOf(s)),
               NEW p \in Given(CellsOf(r)[i]), NEW q \in Given(CellsOf(s)[j])
        PROVE  IF r = s THEN InnermostOf(p) = InnermostOf(q) ELSE InnermostOf(p) < InnermostOf(q)
    <3>1. InnermostOf(p) = e[r] /\ InnermostOf(q) = e[s] /\ r \in 1..n /\ s \in 1..n
      BY <2>8, <2>9
    <3>2. r < s => e[r] < e[s]
      BY <2>2, <3>1 DEF Table
    <3> QED BY <2>3, <2>9, <3>1, <3>2
  <2> QED BY <2>3, <2>7, <2>8, <2>9 DEF CsvTable
<1> QED BY <1>1, <1>2

(* The table of csv, for every document and all options: the header is its    *)
(* first line and names the columns of each row, every cell holds a value of  *)
(* its column's field, the cells of a row come from one element, and later    *)
(* rows from later elements (enc_csv.c:309).                                  *)
THEOREM CsvCorrect == Spec => []CsvTable
<1>1. Init => DocInv /\ CsvInv
  BY DocInit, CsvInit
<1>2. DocInv /\ CsvInv /\ [Next]_vars => (DocInv /\ CsvInv)'
  BY DocStep, CsvStep
<1>3. DocInv /\ CsvInv => CsvTable
  BY CsvIs
<1> QED BY <1>1, <1>2, <1>3, PTL DEF Spec


-----------------------------------------------------------------------------
(* The path of csv *)

\* p has the kinds and names of o, as far as n.
Alike(o, p, n) == \A i \in 1..n : p[i].kind = o[i].kind /\ p[i].name = o[i].name

\* at are the first places in o that the first members of the path are found
\* at, one after the other; place 0 stands for the document.  The next member
\* is not found any more.
Matched(o, path, cur, at) ==
    /\ at \in [0..cur -> 1..Len(o)] /\ at[0] = 1
    /\ \A i, j \in 0..cur : i < j => at[i] < at[j]
    /\ \A i \in 1..cur : o[at[i]].kind # "list" /\ o[at[i]].name = path[i]
    /\ \A i \in 1..cur : \A j \in 1..Len(o) :
          at[i - 1] < j /\ j < at[i] /\ o[j].kind # "list" => o[j].name # path[i]
    /\ cur < Len(path) =>
          \A j \in 1..Len(o) : at[cur] < j /\ o[j].kind # "list" => o[j].name # path[cur + 1]

LEMMA MatchedSame ==
    ASSUME NEW o, NEW p, Len(p) = Len(o), Alike(o, p, Len(o)), NEW path, NEW cur \in Nat, NEW at,
           Matched(o, path, cur, at)
    PROVE  Matched(p, path, cur, at)
<1>1. \A i \in 1..cur : i \in 0..cur /\ at[i] \in 1..Len(o)
  BY DEF Matched
<1> QED BY <1>1 DEF Matched, Alike

LEMMA MatchedMore ==
    ASSUME NEW o, Len(o) \in Nat, NEW p, Len(p) = Len(o) + 1, Alike(o, p, Len(o)),
           NEW path, NEW cur \in Nat, NEW at, Matched(o, path, cur, at),
           \/ p[Len(o) + 1].kind = "list"
           \/ ~(cur < Len(path))
           \/ p[Len(o) + 1].name # path[cur + 1]
    PROVE  Matched(p, path, cur, at)
<1> DEFINE n == Len(o)
<1>1. \A i \in 0..cur : at[i] \in 1..n
  BY DEF Matched
<1>2. /\ \A i \in 1..cur : i \in 0..cur
      /\ \A j \in 1..(n + 1) : j \in 1..n \/ j = n + 1
      /\ \A j \in 1..n : j \in 1..(n + 1)
      /\ cur \in 0..cur
  OBVIOUS
<1>3. at \in [0..cur -> 1..(n + 1)] /\ at[0] = 1 /\ \A i, j \in 0..cur : i < j => at[i] < at[j]
  BY <1>2 DEF Matched
<1>4. \A i \in 1..cur : p[at[i]].kind # "list" /\ p[at[i]].name = path[i]
  BY <1>1, <1>2 DEF Matched, Alike
<1>5. ASSUME NEW i \in 1..cur, NEW j \in 1..(n + 1), at[i - 1] < j, j < at[i], p[j].kind # "list"
      PROVE  p[j].name # path[i]
  <2>1. j \in 1..n
    BY <1>1, <1>2, <1>5
  <2> QED BY <1>5, <2>1 DEF Matched, Alike
<1>6. ASSUME cur < Len(path), NEW j \in 1..(n + 1), at[cur] < j, p[j].kind # "list"
      PROVE  p[j].name # path[cur + 1]
  <2>1. CASE j \in 1..n
    BY <1>6, <2>1 DEF Matched, Alike
  <2>2. CASE j = n + 1
    BY <1>6, <2>2
  <2> QED BY <1>2, <2>1, <2>2
<1> QED BY <1>3, <1>4, <1>5, <1>6 DEF Matched

LEMMA MatchedNext ==
    ASSUME NEW o, Len(o) \in Nat, NEW p, Len(p) = Len(o) + 1, Alike(o, p, Len(o)),
           NEW path, NEW cur \in Nat, NEW at, Matched(o, path, cur, at),
           p[Len(o) + 1].kind # "list", cur < Len(path), p[Len(o) + 1].name = path[cur + 1]
    PROVE  \E b : Matched(p, path, cur + 1, b)
<1> DEFINE n == Len(o)
           b == [i \in 0..(cur + 1) |-> IF i <= cur THEN at[i] ELSE n + 1]
<1>1. \A i \in 0..cur : at[i] \in 1..n
  BY DEF Matched
<1>2. /\ \A i \in 0..(cur + 1) : i \in 0..cur \/ i = cur + 1
      /\ \A i \in 1..(cur + 1) : i \in 1..cur \/ i = cur + 1
      /\ \A i \in 1..cur : i \in 0..cur /\ i - 1 \in 0..cur
      /\ \A j \in 1..(n + 1) : j \in 1..n \/ j = n + 1
      /\ \A j \in 1..n : j \in 1..(n + 1)
      /\ cur \in 0..cur /\ 0 \in 0..cur /\ cur + 1 - 1 = cur /\ n + 1 \in 1..(n + 1)
  OBVIOUS
<1>3. /\ \A i \in 0..cur : b[i] = at[i] /\ b[i] \in 1..n /\ b[i] < n + 1
      /\ b[cur + 1] = n + 1
      /\ b \in [0..(cur + 1) -> 1..(n + 1)]
  <2>1. \A i \in 0..cur : i <= cur /\ i \in 0..(cur + 1)
    OBVIOUS
  <2>2. cur + 1 \in 0..(cur + 1) /\ ~(cur + 1 <= cur)
    OBVIOUS
  <2>3. \A i \in 0..cur : b[i] = at[i] /\ b[i] \in 1..n /\ b[i] < n + 1
    BY <1>1, <2>1
  <2>4. b[cur + 1] = n + 1
    BY <2>2
  <2>5. \A i \in 0..(cur + 1) : b[i] \in 1..(n + 1)
    BY <1>2, <2>3, <2>4
  <2>6. b = [i \in 0..(cur + 1) |-> b[i]]
    OBVIOUS
  <2> HIDE DEF b
  <2> QED BY <2>3, <2>4, <2>5, <2>6
<1> HIDE DEF b
<1>4. b[0] = 1
  BY <1>2, <1>3 DEF Matched
<1>5. ASSUME NEW i \in 0..(cur + 1), NEW j \in 0..(cur + 1), i < j
      PROVE  b[i] < b[j]
  <2>1. i \in 0..cur
    BY <1>5
  <2>2. CASE j \in 0..cur
    BY <1>3, <1>5, <2>1, <2>2 DEF Matched
  <2>3. CASE j = cur + 1
    BY <1>3, <2>1, <2>3
  <2> QED BY <1>2, <2>2, <2>3
<1>6. \A i \in 1..(cur + 1) : p[b[i]].kind # "list" /\ p[b[i]].name = path[i]
  <2>1. ASSUME NEW i \in 1..cur
        PROVE  p[b[i]].kind # "list" /\ p[b[i]].name = path[i]
    <3>1. b[i] = at[i] /\ at[i] \in 1..n
      BY <1>1, <1>2, <1>3
    <3>2. o[at[i]].kind # "list" /\ o[at[i]].name = path[i]
      BY DEF Matched
    <3> QED BY <3>1, <3>2 DEF Alike
  <2> QED BY <1>2, <1>3, <2>1
<1>7. ASSUME NEW i \in 1..(cur + 1), NEW j \in 1..(n + 1), b[i - 1] < j, j < b[i], p[j].kind # "list"
      PROVE  p[j].name # path[i]
  <2>1. CASE i \in 1..cur
    <3>1. at[i - 1] < j /\ j < at[i] /\ at[i] \in 1..n
      BY <1>1, <1>2, <1>3, <1>7, <2>1
    <3>2. j \in 1..n
      BY <3>1
    <3>3. p[j].kind = o[j].kind /\ p[j].name = o[j].name
      BY <3>2 DEF Alike
    <3> QED BY <1>7, <2>1, <3>1, <3>2, <3>3 DEF Matched
  <2>2. CASE i = cur + 1
    <3>1. at[cur] < j /\ j < n + 1
      BY <1>2, <1>3, <1>7, <2>2
    <3>2. j \in 1..n
      BY <1>2, <3>1
    <3> QED BY <1>7, <2>2, <3>1, <3>2 DEF Matched, Alike
  <2> QED BY <1>2, <2>1, <2>2
<1>8. ASSUME NEW j \in 1..(n + 1)
      PROVE  ~(b[cur + 1] < j)
  BY <1>3
<1>9. Matched(p, path, cur + 1, b)
  BY <1>3, <1>4, <1>5, <1>6, <1>7, <1>8 DEF Matched
<1> QED BY <1>9

LEMMA MatchedLess ==
    ASSUME NEW o, Len(o) \in Nat, Len(o) > 1, NEW p, Len(p) = Len(o) - 1, Alike(o, p, Len(o) - 1),
           NEW path, NEW cur \in Nat, NEW at, Matched(o, path, cur, at), at[cur] # Len(o)
    PROVE  Matched(p, path, cur, at)
<1> DEFINE n == Len(o)
<1>1. \A i \in 0..cur : at[i] \in 1..(n - 1)
  <2> TAKE i \in 0..cur
  <2>1. at[i] \in 1..n /\ at[cur] \in 1..n /\ (i < cur => at[i] < at[cur])
    BY DEF Matched
  <2>2. i < cur \/ i = cur
    OBVIOUS
  <2> QED BY <2>1, <2>2
<1>2. /\ \A i \in 1..cur : i \in 0..cur
      /\ \A j \in 1..(n - 1) : j \in 1..n
  OBVIOUS
<1>3. at \in [0..cur -> 1..(n - 1)] /\ at[0] = 1 /\ \A i, j \in 0..cur : i < j => at[i] < at[j]
  BY <1>1 DEF Matched
<1>4. \A i \in 1..cur : p[at[i]].kind # "list" /\ p[at[i]].name = path[i]
  BY <1>1, <1>2 DEF Matched, Alike
<1>5. \A i \in 1..cur : \A j \in 1..(n - 1) :
          at[i - 1] < j /\ j < at[i] /\ p[j].kind # "list" => p[j].name # path[i]
  BY <1>2 DEF Matched, Alike
<1>6. cur < Len(path) =>
          \A j \in 1..(n - 1) : at[cur] < j /\ p[j].kind # "list" => p[j].name # path[cur + 1]
  BY <1>2 DEF Matched, Alike
<1> QED BY <1>3, <1>4, <1>5, <1>6 DEF Matched

LEMMA MatchedBack ==
    ASSUME NEW o, Len(o) \in Nat, Len(o) > 1, NEW p, Len(p) = Len(o) - 1, Alike(o, p, Len(o) - 1),
           NEW path, NEW cur \in Nat, cur > 0, NEW at, Matched(o, path, cur, at), at[cur] = Len(o)
    PROVE  \E b : Matched(p, path, cur - 1, b)
<1> DEFINE n == Len(o)
           b == [i \in 0..(cur - 1) |-> at[i]]
<1>1. \A i \in 0..(cur - 1) : i \in 0..cur /\ at[i] \in 1..(n - 1)
  <2> TAKE i \in 0..(cur - 1)
  <2>1. i \in 0..cur /\ cur \in 0..cur /\ i < cur
    OBVIOUS
  <2>2. at[i] \in 1..n /\ at[i] < at[cur]
    BY <2>1 DEF Matched
  <2> QED BY <2>1, <2>2
<1>2. /\ \A i \in 1..(cur - 1) : i \in 1..cur /\ i \in 0..(cur - 1) /\ i - 1 \in 0..(cur - 1)
      /\ \A j \in 1..(n - 1) : j \in 1..n /\ j < n
      /\ 0 \in 0..(cur - 1) /\ cur - 1 \in 0..(cur - 1) /\ cur \in 1..cur /\ cur - 1 + 1 = cur
  OBVIOUS
<1>3. /\ \A i \in 0..(cur - 1) : b[i] = at[i]
      /\ b \in [0..(cur - 1) -> 1..(n - 1)]
  BY <1>1
<1> HIDE DEF b
<1>4. b[0] = 1 /\ \A i, j \in 0..(cur - 1) : i < j => b[i] < b[j]
  BY <1>1, <1>2, <1>3 DEF Matched
<1>5. ASSUME NEW i \in 1..(cur - 1)
      PROVE  p[b[i]].kind # "list" /\ p[b[i]].name = path[i]
  <2>1. b[i] = at[i] /\ at[i] \in 1..(n - 1) /\ i \in 1..cur
    BY <1>1, <1>2, <1>3
  <2>2. o[at[i]].kind # "list" /\ o[at[i]].name = path[i]
    BY <2>1 DEF Matched
  <2> QED BY <2>1, <2>2 DEF Alike
<1>6. ASSUME NEW i \in 1..(cur - 1), NEW j \in 1..(n - 1), b[i - 1] < j, j < b[i], p[j].kind # "list"
      PROVE  p[j].name # path[i]
  <2>1. b[i] = at[i] /\ b[i - 1] = at[i - 1] /\ i \in 1..cur /\ j \in 1..n
    BY <1>2, <1>3
  <2>2. p[j].kind = o[j].kind /\ p[j].name = o[j].name
    BY DEF Alike
  <2> QED BY <1>6, <2>1, <2>2 DEF Matched
<1>7. ASSUME NEW j \in 1..(n - 1), b[cur - 1] < j, p[j].kind # "list"
      PROVE  p[j].name # path[cur]
  <2>1. at[cur - 1] < j /\ j < at[cur] /\ j \in 1..n /\ cur \in 1..cur
    BY <1>2, <1>3, <1>7
  <2>2. p[j].kind = o[j].kind /\ p[j].name = o[j].name
    BY DEF Alike
  <2> QED BY <1>7, <2>1, <2>2 DEF Matched
<1>8. Matched(p, path, cur - 1, b)
  BY <1>2, <1>3, <1>4, <1>5, <1>6, <1>7 DEF Matched
<1> QED BY <1>8

\* csv's place in its path is as far as the path is matched.
Course(o, c) ==
    /\ c.cur <= Len(c.path)
    /\ c.recording /\ c.path # <<>> => c.cur = Len(c.path)
    /\ \E at : Matched(o, c.path, c.cur, at)

LEMMA CourseTypes ==
    ASSUME NEW c \in CsvTypes
    PROVE  /\ c.cur \in Nat /\ Len(c.path) \in Nat /\ c.recording \in BOOLEAN
           /\ c.path = <<>> <=> Len(c.path) = 0
<1>1. c.path \in Seq(Labels) /\ c.cur \in Nat /\ c.recording \in BOOLEAN
  BY DEF CsvTypes
<1> QED BY <1>1, EmptySeq

LEMMA OpenCourse ==
    ASSUME NEW k, NEW n \in Nat, NEW id, NEW c, CsvFollows(k, n, id, c), NEW o, Len(o) \in Nat,
           Course(o, c), NEW p, Len(p) = Len(o) + 1, Alike(o, p, Len(o)), p[Len(o) + 1].kind # "list",
           NEW name, p[Len(o) + 1].name = name, NEW b \in BOOLEAN, NEW g, g = Csv!OpenLevel(c, name, b)
    PROVE  Course(p, g) /\ g.path = c.path
<1>1. /\ c \in CsvTypes /\ c.cur \in Nat /\ Len(c.path) \in Nat /\ c.recording \in BOOLEAN
      /\ c.path = <<>> <=> Len(c.path) = 0
  BY CourseTypes DEF CsvFollows
<1>2. PICK at : Matched(o, c.path, c.cur, at)
  BY DEF Course
<1>3. CASE c.recording
  <2>1. g = Csv!StopRecording(c)
    BY <1>3 DEF Csv!OpenLevel
  <2>2. g.path = c.path /\ g.cur = c.cur /\ ~g.recording
    BY <1>3, <2>1, StopCsv DEF SameCourse
  <2>3. ~(c.cur < Len(c.path))
    BY <1>1, <1>3 DEF Course
  <2>4. Matched(p, c.path, c.cur, at)
    BY <1>1, <1>2, <2>3, MatchedMore
  <2> QED BY <2>2, <2>4 DEF Course
<1>4. CASE ~c.recording
  <2>1. CASE Csv!Awaited(c, name)
    <3>1. g = Csv!Advanced(c)
      BY <1>4, <2>1 DEF Csv!OpenLevel, Csv!Awaited
    <3>2. (c.cur + 1 = Len(c.path)) \in BOOLEAN
      OBVIOUS
    <3>3. /\ Csv!Advanced(c).cur = c.cur + 1 /\ Csv!Advanced(c).path = c.path
          /\ Csv!Advanced(c).recording <=> c.cur + 1 = Len(c.path)
      BY <1>1, <3>2 DEF CsvTypes, Csv!Advanced
    <3>4. c.cur < Len(c.path) /\ c.path[c.cur + 1] = name
      BY <2>1 DEF Csv!Awaited
    <3>5. \E a : Matched(p, c.path, c.cur + 1, a)
      BY <1>1, <1>2, <3>4, MatchedNext
    <3>6. c.cur + 1 <= Len(c.path)
      BY <1>1, <3>4
    <3>7. Course(p, g) /\ g.path = c.path
      BY <3>1, <3>3, <3>5, <3>6 DEF Course
    <3> QED BY <3>7
  <2>2. CASE ~Csv!Awaited(c, name)
    <3>1. g = c \/ (g = [c EXCEPT !.recording = TRUE] /\ c.path = <<>>)
      <4>1. CASE ~Csv!HasPath(c) /\ b
        BY <1>4, <2>2, <4>1 DEF Csv!OpenLevel, Csv!Awaited, Csv!HasPath
      <4>2. CASE ~(~Csv!HasPath(c) /\ b)
        BY <1>4, <2>2, <4>2 DEF Csv!OpenLevel
      <4> QED BY <4>1, <4>2
    <3>2. ~(c.cur < Len(c.path)) \/ c.path[c.cur + 1] # name
      BY <1>1, <2>2 DEF Csv!Awaited, Csv!HasPath
    <3>3. Matched(p, c.path, c.cur, at)
      BY <1>1, <1>2, <3>2, MatchedMore
    <3>4. g.cur = c.cur /\ g.path = c.path /\ (g.recording /\ c.path # <<>> => g = c)
      BY <1>1, <3>1 DEF CsvTypes
    <3> QED BY <1>4, <3>3, <3>4 DEF Course
  <2> QED BY <2>1, <2>2
<1> QED BY <1>1, <1>3, <1>4

LEMMA CloseCourse ==
    ASSUME NEW k, NEW n \in Nat, NEW id, NEW c, CsvFollows(k, n, id, c), NEW o, Len(o) \in Nat,
           Len(o) > 1, Course(o, c), NEW p, Len(p) = Len(o) - 1, Alike(o, p, Len(o) - 1),
           o[Len(o)].kind # "list",
           \A j \in 2..(Len(o) - 1) : o[j].kind # "list" => o[j].name # o[Len(o)].name
    PROVE  LET g == Csv!CloseLevel(c, o[Len(o)].name)
           IN  Course(p, g) /\ g.path = c.path
<1> DEFINE m == Len(o)
           name == o[m].name
           d == IF c.recording THEN Csv!StopRecording(c) ELSE c
           g == Csv!CloseLevel(c, name)
<1>1. /\ c \in CsvTypes /\ c.cur \in Nat /\ Len(c.path) \in Nat /\ c.recording \in BOOLEAN
      /\ c.path = <<>> <=> Len(c.path) = 0
  BY CourseTypes DEF CsvFollows
<1>2. PICK at : Matched(o, c.path, c.cur, at)
  BY DEF Course
<1>3. d \in CsvTypes /\ d.path = c.path /\ d.cur = c.cur /\ ~d.recording
  <2>1. CASE c.recording
    BY <2>1, StopCsv DEF SameCourse, CsvFollows
  <2>2. CASE ~c.recording
    BY <1>1, <2>2
  <2> QED BY <1>1, <2>1, <2>2
<1>4. g = IF Csv!Entered(d, name) THEN [d EXCEPT !.cur = @ - 1] ELSE d
  BY DEF Csv!CloseLevel
<1>5. Csv!Entered(d, name) <=> c.cur > 0 /\ c.path[c.cur] = name
  <2>1. c.cur > 0 => c.path # <<>>
    BY <1>1 DEF Course
  <2> HIDE DEF d, name
  <2> QED BY <1>3, <2>1 DEF Csv!Entered, Csv!HasPath
<1>6. c.cur > 0 => c.cur \in 1..c.cur /\ c.cur \in 0..c.cur /\ 0 \in 0..c.cur /\ 0 < c.cur
  BY <1>1
<1>7. c.cur > 0 => /\ at[c.cur] \in 2..m /\ o[at[c.cur]].kind # "list"
                   /\ o[at[c.cur]].name = c.path[c.cur]
  <2>1. SUFFICES ASSUME c.cur > 0
                 PROVE  /\ at[c.cur] \in 2..m /\ o[at[c.cur]].kind # "list"
                        /\ o[at[c.cur]].name = c.path[c.cur]
    OBVIOUS
  <2>2. at[c.cur] \in 1..m /\ at[0] < at[c.cur] /\ at[0] = 1
    BY <1>2, <1>6, <2>1 DEF Matched
  <2>3. o[at[c.cur]].kind # "list" /\ o[at[c.cur]].name = c.path[c.cur]
    BY <1>2, <1>6, <2>1 DEF Matched
  <2>4. at[c.cur] \in 2..m
    BY <2>2
  <2> QED BY <2>3, <2>4
<1>8. Len(p) = m - 1 /\ m > 1 /\ m \in Nat
  OBVIOUS
<1>9. \A j \in 2..m : j \in 2..(m - 1) \/ j = m
  OBVIOUS
<1> HIDE DEF d, g
<1>10. CASE Csv!Entered(d, name)
  <2>1. c.cur > 0 /\ at[c.cur] = m
    BY <1>5, <1>7, <1>9, <1>10
  <2>2. \E b : Matched(p, c.path, c.cur - 1, b)
    BY <1>1, <1>2, <2>1, MatchedBack
  <2>3. g.cur = c.cur - 1 /\ g.path = c.path /\ ~g.recording
    BY <1>3, <1>4, <1>10 DEF CsvTypes
  <2>4. c.cur - 1 <= Len(c.path)
    BY <1>1 DEF Course
  <2> QED BY <2>2, <2>3, <2>4 DEF Course, g
<1>11. CASE ~Csv!Entered(d, name)
  <2>1. at[c.cur] # m
    <3>1. CASE c.cur > 0
      BY <1>5, <1>7, <1>11, <3>1
    <3>2. CASE c.cur = 0
      BY <1>2, <1>8, <3>2 DEF Matched
    <3> QED BY <1>1, <3>1, <3>2
  <2>2. Matched(p, c.path, c.cur, at)
    BY <1>1, <1>2, <2>1, MatchedLess
  <2>3. g = d
    BY <1>4, <1>11
  <2> QED BY <1>3, <2>2, <2>3 DEF Course, g
<1> QED BY <1>10, <1>11

-----------------------------------------------------------------------------
(* Names of what is open *)

\* No element is in another one of its name, but for the instance in its list.
Distinct(o) ==
    \A i, j \in 2..Len(o) : i < j /\ o[i].name = o[j].name => j = i + 1 /\ o[i].kind = "list"

NamesFit(o) == \A i \in 2..Len(o) : o[i].kind # "leaf_list" => o[i].name \in Containers \cup Lists

LeafListsApart == LeafLists \cap (Containers \cup Lists) = {}

LEMMA NamesSame ==
    ASSUME NEW o, Distinct(o), NamesFit(o), NEW p, Len(p) \in Nat, Len(o) \in Nat, Len(p) <= Len(o),
           Alike(o, p, Len(p))
    PROVE  Distinct(p) /\ NamesFit(p)
<1>1. \A i \in 2..Len(p) : i \in 1..Len(p) /\ i \in 2..Len(o)
  OBVIOUS
<1>2. \A i \in 2..Len(p) : p[i].kind = o[i].kind /\ p[i].name = o[i].name
  BY <1>1 DEF Alike
<1> QED BY <1>1, <1>2 DEF Distinct, NamesFit

LEMMA NamesOpened ==
    ASSUME LeafListsApart, DocInv, Distinct(open), NamesFit(open), NEW kind \in OpenKinds, NEW name,
           Fits(kind, name), NEW p, Len(p) = Len(open) + 1, Alike(open, p, Len(open)),
           p[Len(open) + 1].kind = kind, p[Len(open) + 1].name = name
    PROVE  Distinct(p) /\ NamesFit(p)
<1> DEFINE n == Len(open)
<1>1. /\ Elems(open) /\ n \in Nat /\ n >= 1 /\ n \in 1..n /\ DOMAIN open = 1..n
  BY TopFacts DEF DocInv
<1>0. n \in Nat /\ n >= 1
  BY <1>1
<1>2. /\ \A i \in 2..(n + 1) : i \in 2..n \/ i = n + 1
      /\ \A i \in 2..n : i \in 1..n /\ i - 1 \in 1..n
      /\ \A i \in 2..n : i # n => i < n /\ n \in 2..n /\ i + 1 \in 2..n /\ i + 1 - 1 = i
      /\ n >= 2 => n \in 2..n
  <2> HIDE DEF n
  <2> QED BY <1>0
<1>3. \A i \in 2..n : p[i].kind = open[i].kind /\ p[i].name = open[i].name
  BY <1>2 DEF Alike
<1>4. \A i \in 2..n : open[i].kind # "leaf_list"
  <2> TAKE i \in 2..n
  <2>1. CASE i = n
    BY <2>1 DEF Fits, Top
  <2>2. CASE i # n
    <3>1. i + 1 \in 2..n /\ i + 1 - 1 = i
      BY <1>2, <2>2
    <3> QED BY <1>1, <3>1 DEF Elems, Nested
  <2> QED BY <2>1, <2>2
<1>5. \A i \in 2..n : open[i].name \in Containers \cup Lists
  BY <1>4 DEF NamesFit
<1>6. ASSUME NEW i \in 2..n, open[i].name = name
      PROVE  i = n /\ open[i].kind = "list"
  <2>1. CASE kind = "instance"
    <3>1. open[n].kind = "list" /\ open[n].name = name
      BY <2>1 DEF Fits, Top
    <3>2. CASE i = n
      BY <3>1, <3>2
    <3>3. CASE i # n
      <4>1. i < n /\ n \in 2..n
        BY <1>2, <3>3
      <4>2. n = i + 1 /\ open[i].kind = "list"
        BY <1>6, <3>1, <4>1 DEF Distinct
      <4>3. n - 1 = i
        BY <1>1, <4>2
      <4>4. open[n].kind = "instance"
        BY <1>1, <4>1, <4>2, <4>3 DEF Elems, Nested
      <4> QED BY <3>1, <4>4
    <3> QED BY <3>2, <3>3
  <2>2. CASE kind \in {"container", "list"}
    <3>1. NotInside(name)
      BY <2>2 DEF Fits
    <3> QED BY <1>1, <1>2, <1>6, <3>1 DEF NotInside
  <2>3. CASE kind = "leaf_list"
    <3>1. name \in LeafLists
      BY <2>3 DEF Fits
    <3> QED BY <1>5, <1>6, <3>1 DEF LeafListsApart
  <2> QED BY <2>1, <2>2, <2>3 DEF OpenKinds
<1> HIDE DEF n
<1>7. ASSUME NEW i \in 2..(n + 1), NEW j \in 2..(n + 1), i < j, p[i].name = p[j].name
      PROVE  j = i + 1 /\ p[i].kind = "list"
  <2>1. i \in 2..n
    BY <1>1, <1>7
  <2>2. CASE j \in 2..n
    BY <1>3, <1>7, <2>1, <2>2 DEF Distinct, n
  <2>3. CASE j = n + 1
    <3>1. open[i].name = name
      BY <1>3, <1>7, <2>1, <2>3 DEF n
    <3> QED BY <1>3, <1>6, <2>1, <2>3, <3>1
  <2> QED BY <1>2, <2>2, <2>3
<1>8. ASSUME NEW i \in 2..(n + 1), p[i].kind # "leaf_list"
      PROVE  p[i].name \in Containers \cup Lists
  <2>1. CASE i \in 2..n
    BY <1>3, <1>5, <2>1
  <2>2. CASE i = n + 1
    <3>1. p[i].kind = kind /\ p[i].name = name
      BY <2>2 DEF n
    <3>2. CASE kind = "instance"
      <4>1. open[n].kind = "list" /\ open[n].name = name
        BY <3>2 DEF Fits, Top, n
      <4>2. n >= 2
        <5>1. n # 1
          BY <1>1, <4>1 DEF Elems, Nested
        <5> QED BY <1>1, <5>1
      <4> QED BY <1>2, <1>5, <1>1, <3>1, <4>1, <4>2
    <3>3. CASE kind \in {"container", "list"}
      BY <3>1, <3>3 DEF Fits
    <3> QED BY <1>8, <3>1, <3>2, <3>3 DEF OpenKinds
  <2> QED BY <1>2, <2>1, <2>2
<1> QED BY <1>7, <1>8 DEF Distinct, NamesFit, n

NamesInv == Distinct(open) /\ NamesFit(open)

LEMMA LowerAlike ==
    ASSUME NEW o, NEW p, NEW n, Lower(o, p, n)
    PROVE  Alike(o, p, n)
BY DEF Lower, Like, Alike

LEMMA KeyedAlike ==
    ASSUME NEW o, Elems(o), NEW p, NEW keys, Keyed(o, p, keys)
    PROVE  Alike(o, p, Len(o)) /\ Len(p) = Len(o)
<1>1. \A i \in 1..Len(o) : i \in 1..(Len(o) - 1) \/ i = Len(o)
  BY TopFacts
<1> QED BY <1>1 DEF Keyed, Lower, Like, Alike

LEMMA NamesStep ==
    ASSUME LeafListsApart, DocInv, NamesInv, [Next]_vars
    PROVE  NamesInv'
<1> DEFINE n == Len(open)
<1>1. n \in Nat /\ Elems(open) /\ n <= n
  BY TopFacts DEF DocInv
<1>2. ASSUME Len(open') = n, Alike(open, open', n)
      PROVE  NamesInv'
  BY <1>1, <1>2, NamesSame DEF NamesInv
<1>3. CASE open' = open
  BY <1>3 DEF NamesInv, Distinct, NamesFit
<1>4. CASE Next
  <2>1. ASSUME NEW kind \in OpenKinds, NEW name \in Labels, NEW v \in Verdicts,
               NEW flags \in SUBSET {"dense"}, Fits(kind, name), OpenOne(kind, name, v, flags)
        PROVE  NamesInv'
    <3>1. /\ Len(open') = n + 1 /\ Alike(open, open', n)
          /\ open'[n + 1].kind = kind /\ open'[n + 1].name = name
      BY <2>1, OpenEffect, LowerAlike DEF OpenedOne
    <3> QED BY <2>1, <3>1, NamesOpened DEF NamesInv
  <2>2. ASSUME NEW name \in Fields, Field(name)
        PROVE  NamesInv'
    BY <1>1, <1>2, <2>2, FieldEffect, KeyedAlike
  <2>3. ASSUME Item
        PROVE  NamesInv'
    BY <1>1, <1>2, <2>3, ItemEffect, KeyedAlike
  <2>4. ASSUME Close
        PROVE  NamesInv'
    <3>1. /\ Len(open') = n - 1 /\ Len(open') <= n /\ Len(open') \in Nat
          /\ Alike(open, open', Len(open'))
      <4>1. Len(Front(open)) = n - 1 /\ \A i \in 1..(n - 1) : Front(open)[i] = open[i]
        BY <1>1, <2>4, FrontFacts DEF Close
      <4>2. Same(Front(open), open')
        BY <2>4, CloseEffect DEF ClosedOne
      <4>3. n > 1
        BY <2>4 DEF Close
      <4> QED BY <1>1, <4>1, <4>2, <4>3 DEF Same, Lower, Like, Alike
    <3> QED BY <1>1, <3>1, NamesSame DEF NamesInv
  <2>5. ASSUME Skip
        PROVE  NamesInv'
    BY <1>2, <2>5, SkipEffect, LowerAlike DEF Same
  <2>6. ASSUME Flush \/ Finish
        PROVE  NamesInv'
    BY <1>3, <2>6 DEF Flush, Finish
  <2> QED BY <1>4, <2>1, <2>2, <2>3, <2>4, <2>5, <2>6, Steps
<1> QED BY <1>3, <1>4 DEF vars

LEMMA DataCourse ==
    ASSUME NEW c \in CsvTypes, NEW name, NEW v
    PROVE  LET g == Csv!Data(c, name, v)
           IN  g.path = c.path /\ g.cur = c.cur /\ g.recording = c.recording
<1> DEFINE SameAs(d, g) == g.path = d.path /\ g.cur = d.cur /\ g.recording = d.recording
           Good(d) == d = [f \in {"flushes", "noHeader", "path", "cur", "leafs", "max", "leafsDone",
                                  "junk", "recording", "headerDone", "data", "written"} |-> d[f]]
<1>1. Good(c)
  BY DEF CsvTypes
<1>2. ASSUME NEW d, Good(d)
      PROVE  /\ SameAs(d, Csv!SetLeaf(d, name, v))
             /\ SameAs(d, Csv!AddedLeaf(d, name)) /\ Good(Csv!AddedLeaf(d, name))
  <2>1. SameAs(d, Csv!SetLeaf(d, name, v))
    BY <1>2 DEF Csv!SetLeaf
  <2>2. SameAs(d, Csv!WithRoom(d)) /\ Good(Csv!WithRoom(d))
    BY <1>2 DEF Csv!WithRoom
  <2>3. \A l : /\ SameAs(Csv!WithRoom(d), [Csv!WithRoom(d) EXCEPT !.leafs = l])
               /\ Good([Csv!WithRoom(d) EXCEPT !.leafs = l])
    BY <2>2
  <2> QED BY <2>1, <2>2, <2>3 DEF Csv!AddedLeaf
<1> HIDE DEF Good
<1>3. SameAs(c, Csv!Data(c, name, v))
  <2>1. CASE c.recording /\ Csv!LeafNumbers(c, name) # {}
    BY <1>1, <1>2, <2>1 DEF Csv!Data
  <2>2. CASE c.recording /\ Csv!LeafNumbers(c, name) = {} /\ ~c.leafsDone
    <3>1. Csv!Data(c, name, v) = Csv!SetLeaf(Csv!AddedLeaf(c, name), name, v)
      BY <2>2 DEF Csv!Data
    <3> QED BY <1>1, <1>2, <3>1
  <2>3. CASE ~c.recording \/ (Csv!LeafNumbers(c, name) = {} /\ c.leafsDone)
    BY <2>3 DEF Csv!Data
  <2> QED BY <2>1, <2>2, <2>3
<1> QED BY <1>3

CourseInv == ~setup.filtered => csv.path = setup.csv.path /\ Course(open, csv)

LEMMA GivenCourse ==
    ASSUME DocInv, CsvInv, CourseInv, ~setup.filtered, NEW op, op.op \in {"field", "item"}, Tell(op),
           NEW keys, Keyed(open, open', keys), setup' = setup
    PROVE  CourseInv'
<1>1. csv \in CsvTypes /\ csv.path = setup.csv.path /\ Course(open, csv)
  BY DEF CsvInv, CsvFollows, CourseInv
<1>2. csv' = Csv!Data(csv, op.name, op.value)
  BY DEF Tell, Csv!Handle
<1>3. csv'.path = csv.path /\ csv'.cur = csv.cur /\ csv'.recording = csv.recording
  BY <1>1, <1>2, DataCourse
<1>4. Alike(open, open', Len(open)) /\ Len(open') = Len(open)
  BY KeyedAlike DEF DocInv
<1>5. PICK at : Matched(open, csv.path, csv.cur, at)
  BY <1>1 DEF Course
<1>6. Matched(open', csv.path, csv.cur, at)
  BY <1>1, <1>4, <1>5, MatchedSame, CourseTypes
<1> QED BY <1>1, <1>3, <1>6 DEF CourseInv, Course

LEMMA OpenPath ==
    ASSUME DocInv, CsvInv, CourseInv, ~setup.filtered, NEW kind \in OpenKinds, NEW name \in Labels,
           NEW v \in Verdicts, NEW flags \in SUBSET {"dense"}, Fits(kind, name),
           OpenOne(kind, name, v, flags)
    PROVE  CourseInv'
<1> DEFINE n == Len(open)
           op == OpenOp(kind, name, flags)
<1>1. csv' = Csv!Handle(csv, op) /\ setup' = setup
  BY OpenKeeps DEF Tell
<1>2. /\ op.name = name
      /\ kind = "container" => op.op = "open_container"
      /\ kind = "instance" => op.op = "open_instance"
      /\ kind = "list" => op.op = "open_list"
      /\ kind = "leaf_list" => op.op = "open_leaf_list"
  BY DEF OpenOp, Op, Opening
<1>3. /\ n \in Nat /\ Len(open') = n + 1 /\ Alike(open, open', n)
      /\ open'[n + 1].kind = kind /\ open'[n + 1].name = name
  BY OpenEffect, LowerAlike, TopFacts DEF OpenedOne, DocInv
<1>4. /\ CsvFollows(kept, count, Recorded(open), csv) /\ count \in Nat /\ csv \in CsvTypes
      /\ csv.path = setup.csv.path /\ Course(open, csv)
  BY DEF CsvInv, CsvFollows, CourseInv, DocInv
<1> HIDE DEF op, n
<1>5. CASE kind = "list"
  <2>1. csv' = csv
    BY <1>1, <1>2, <1>5 DEF Csv!Handle
  <2>2. PICK at : Matched(open, csv.path, csv.cur, at)
    BY <1>4 DEF Course
  <2>3. Matched(open', csv.path, csv.cur, at)
    BY <1>3, <1>4, <1>5, <2>2, MatchedMore, CourseTypes DEF n
  <2> QED BY <1>1, <1>4, <2>1, <2>3 DEF CourseInv, Course
<1>6. CASE kind # "list"
  <2>1. PICK b \in BOOLEAN : csv' = Csv!OpenLevel(csv, name, b)
    BY <1>1, <1>2, <1>6 DEF Csv!Handle, OpenKinds
  <2>2. Course(open', csv') /\ csv'.path = csv.path
    <3>1. /\ Len(open) \in Nat /\ Len(open') = Len(open) + 1 /\ Alike(open, open', Len(open))
          /\ open'[Len(open) + 1].kind # "list" /\ open'[Len(open) + 1].name = name
      BY <1>3, <1>6 DEF n
    <3> QED BY ONLY <1>4, <2>1, <3>1, OpenCourse
  <2> QED BY <1>1, <1>4, <2>2 DEF CourseInv
<1> QED BY <1>5, <1>6

LEMMA ClosePath ==
    ASSUME DocInv, CsvInv, NamesInv, CourseInv, ~setup.filtered, Close
    PROVE  CourseInv'
<1> DEFINE n == Len(open)
           op == CloseOp
<1>1. /\ Elems(open) /\ Len(open') = n - 1 /\ n > 1 /\ n \in Nat
      /\ \A i \in 1..(n - 1) : open'[i] = open[i]
  <2>1. open' = Front(open) /\ Elems(open) /\ n > 1
    BY CloseEffect DEF ClosedOne, DocInv, Close
  <2> QED BY <2>1, FrontFacts, TopFacts
<1>2. ~Top.tentative /\ Top.kind \in OpenKinds /\ Top.kind = open[n].kind /\ n \in 2..n
  <2>1. n \in 2..n /\ n \in 1..n
    BY <1>1
  <2> QED BY <1>1, <2>1 DEF Elems, Nested, Top, DocInv
<1>3. csv' = Csv!Handle(csv, op) /\ setup' = setup
  BY <1>2, CloseKeeps DEF Tell
<1>4. /\ op.name = open[n].name
      /\ Top.kind = "container" => op.op = "close_container"
      /\ Top.kind = "instance" => op.op = "close_instance"
      /\ Top.kind = "list" => op.op = "close_list"
      /\ Top.kind = "leaf_list" => op.op = "close_leaf_list"
  BY <1>2 DEF CloseOp, Op, Closing, OpenKinds, Top
<1>5. /\ CsvFollows(kept, count, Recorded(open), csv) /\ count \in Nat /\ csv \in CsvTypes
      /\ csv.path = setup.csv.path /\ Course(open, csv)
  BY DEF CsvInv, CsvFollows, CourseInv, DocInv
<1> HIDE DEF op, n
<1>6. Alike(open, open', n - 1)
  BY <1>1 DEF Alike
<1>7. CASE Top.kind = "list"
  <2>1. csv' = csv
    BY <1>3, <1>4, <1>7 DEF Csv!Handle
  <2>2. PICK at : Matched(open, csv.path, csv.cur, at)
    BY <1>5 DEF Course
  <2>3. at[csv.cur] # n
    <3>1. csv.cur \in Nat
      BY <1>5, CourseTypes
    <3>2. CASE csv.cur = 0
      BY <1>1, <2>2, <3>2 DEF Matched
    <3>3. CASE csv.cur # 0
      <4>1. csv.cur \in 1..csv.cur
        BY <3>1, <3>3
      <4> QED BY <1>2, <1>7, <2>2, <4>1 DEF Matched
    <3> QED BY <3>2, <3>3
  <2>4. Matched(open', csv.path, csv.cur, at)
    BY <1>1, <1>5, <1>6, <2>2, <2>3, MatchedLess, CourseTypes DEF n
  <2> QED BY <1>3, <1>5, <2>1, <2>4 DEF CourseInv, Course
<1>8. CASE Top.kind # "list"
  <2>1. csv' = Csv!CloseLevel(csv, open[n].name)
    BY <1>2, <1>3, <1>4, <1>8 DEF Csv!Handle, OpenKinds
  <2>2. \A j \in 2..(n - 1) : open[j].kind # "list" => open[j].name # open[n].name
    <3>1. \A j \in 2..(n - 1) : j \in 2..n /\ j < n
      BY <1>1
    <3> QED BY <1>2, <3>1 DEF NamesInv, Distinct, n
  <2>3. Course(open', csv') /\ csv'.path = csv.path
    BY <1>1, <1>2, <1>5, <1>6, <1>8, <2>1, <2>2, CloseCourse DEF n
  <2> QED BY <1>3, <1>5, <2>3 DEF CourseInv
<1> QED BY <1>7, <1>8

LEMMA CourseStep ==
    ASSUME DocInv, CsvInv, NamesInv, CourseInv, [Next]_vars
    PROVE  CourseInv'
<1>1. CASE UNCHANGED vars
  <2>1. open' = open /\ csv' = csv /\ setup' = setup
    BY <1>1 DEF vars
  <2> QED BY <2>1 DEF CourseInv
<1>2. CASE Next
  <2>1. CASE setup.filtered
    BY <1>2, <2>1, FilteredCsv DEF CourseInv
  <2>2. CASE ~setup.filtered
    <3>1. ASSUME NEW kind \in OpenKinds, NEW name \in Labels, NEW v \in Verdicts,
                 NEW flags \in SUBSET {"dense"}, Fits(kind, name), OpenOne(kind, name, v, flags)
          PROVE  CourseInv'
      BY <2>2, <3>1, OpenPath
    <3>2. ASSUME NEW name \in Fields, Field(name)
          PROVE  CourseInv'
      <4>1. Tell(FieldOp(name)) /\ setup' = setup
        BY <2>2, <3>2, FieldKeeps, FieldEffect
      <4>2. FieldOp(name).op = "field"
        BY DEF FieldOp, Op
      <4>3. PICK keys : Keyed(open, open', keys)
        BY <3>2, FieldEffect
      <4> QED BY <2>2, <4>1, <4>2, <4>3, GivenCourse
    <3>3. ASSUME Item
          PROVE  CourseInv'
      <4>1. Tell(ItemOp) /\ setup' = setup
        BY <2>2, <3>3, ItemKeeps, ItemEffect
      <4>2. ItemOp.op = "item"
        BY DEF ItemOp, Op
      <4> QED BY <2>2, <3>3, <4>1, <4>2, ItemEffect, GivenCourse
    <3>4. ASSUME Close
          PROVE  CourseInv'
      BY <2>2, <3>4, ClosePath
    <3>5. ASSUME Skip
          PROVE  CourseInv'
      BY <2>2, <3>5, SkipEffect
    <3> DEFINE flush == Op("flush", NoName, NoName, {})
               finish == Op("finish", NoName, NoName, {})
    <3>6. Csv!Handle(csv, flush) = Csv!Flush(csv) /\ Csv!Handle(csv, finish) = csv
      BY DEF Csv!Handle, Op
    <3>7. ASSUME Flush \/ Finish
          PROVE  CourseInv'
      <4>1. csv' = Csv!Flush(csv) /\ open' = open /\ setup' = setup
        BY <2>2, <3>6, <3>7 DEF Flush, Finish, Tell
      <4>2. csv'.path = csv.path /\ csv'.cur = csv.cur /\ csv'.recording = csv.recording
        BY <2>2, <4>1, FlushCsv DEF CsvInv, CsvFollows, FlushedAs, SameTable
      <4> QED BY <4>1, <4>2 DEF CourseInv, Course
    <3> QED BY <1>2, <3>1, <3>2, <3>3, <3>4, <3>5, <3>7, Steps
  <2> QED BY <2>1, <2>2
<1> QED BY <1>1, <1>2

LEMMA CourseInit ==
    ASSUME Init
    PROVE  NamesInv /\ CourseInv
<1>1. /\ setup \in Setups /\ Len(open) = 1
      /\ csv = Csv!Created(setup.csv, setup.junk)
  BY DEF Init
<1>2. NamesInv
  BY <1>1 DEF NamesInv, Distinct, NamesFit
<1>3. NewCsv(csv) /\ csv.path = setup.csv.path
  <2>1. /\ setup.csv.path \in Seq(Containers \cup Lists \cup LeafLists)
        /\ setup.csv.leafs \in Seq(Fields)
        /\ setup.csv.flushes \in BOOLEAN /\ setup.csv.noHeader \in BOOLEAN /\ setup.junk \in BOOLEAN
    BY <1>1, SetupFacts
  <2>2. setup.csv.path \in Seq(Labels) /\ setup.csv.leafs \in Seq(Labels)
    <3>1. \A S, T : S \subseteq T => Seq(S) \subseteq Seq(T)
      OBVIOUS
    <3>2. Containers \cup Lists \cup LeafLists \subseteq Labels /\ Fields \subseteq Labels
      BY DEF Labels
    <3> QED BY <2>1, <3>1, <3>2
  <2> QED BY <1>1, <2>1, <2>2, CreatedCsv
<1>4. csv \in CsvTypes /\ csv.cur = 0 /\ ~csv.recording /\ Len(csv.path) \in Nat
  BY <1>3, CourseTypes DEF NewCsv
<1>5. \E at : Matched(open, csv.path, 0, at)
  <2> DEFINE at == [i \in 0..0 |-> 1]
  <2>1. at \in [0..0 -> 1..1] /\ at[0] = 1
    OBVIOUS
  <2> HIDE DEF at
  <2>2. Matched(open, csv.path, 0, at)
    BY <1>1, <2>1 DEF Matched
  <2> QED BY <2>2
<1>6. Course(open, csv)
  BY <1>4, <1>5 DEF Course
<1> QED BY <1>2, <1>3, <1>6 DEF CourseInv

-----------------------------------------------------------------------------
(* The first places are the ones that matter. *)

\* b rises, and the path's first k names are at the places b of o.
Rising(k, b) == \A i \in 1..(k - 1) : b[i] < b[i + 1]
PlacesOf(o, path, k, b) == \A i \in 1..k : o[b[i]].name = path[i] /\ o[b[i]].kind # "list"

\* Wherever else the path is found, it is not found before.
LEMMA FirstPlaces ==
    ASSUME NEW o, Len(o) \in Nat, NEW path, NEW cur \in Nat, NEW at, Matched(o, path, cur, at),
           NEW k \in Nat, NEW b, b \in [1..k -> 2..Len(o)],
           Rising(k, b), NEW i \in 1..k, i <= cur, PlacesOf(o, path, k, b)
    PROVE  at[i] <= b[i]
<1> DEFINE D == {j \in 1..k : j <= cur /\ ~(at[j] <= b[j])}
<1>1. SUFFICES ASSUME i \in D PROVE FALSE
  OBVIOUS
<1>2. PICK m \in D : \A j \in D : m <= j
  <2>1. D \in SUBSET Nat
    OBVIOUS
  <2> HIDE DEF D
  <2> QED BY <1>1, <2>1, LeastOf
<1>3. /\ m \in 1..k /\ m \in 1..cur /\ m \in 0..cur /\ m - 1 \in 0..cur
      /\ b[m] \in 2..Len(o) /\ at[m] \in 1..Len(o) /\ b[m] < at[m]
      /\ b[m] \in 1..Len(o) /\ at[m - 1] \in 1..Len(o)
  <2>1. m \in 1..k /\ m <= cur /\ ~(at[m] <= b[m])
    BY <1>2
  <2>2. m \in 1..cur /\ m \in 0..cur /\ m - 1 \in 0..cur
    BY <2>1
  <2>3. at[m] \in 1..Len(o) /\ at[m - 1] \in 1..Len(o)
    BY <2>2 DEF Matched
  <2>4. b[m] \in 2..Len(o)
    BY <2>1
  <2> QED BY <2>1, <2>2, <2>3, <2>4
<1>4. at[m - 1] < b[m]
  <2>1. CASE m = 1
    BY <1>3, <2>1 DEF Matched
  <2>2. CASE m # 1
    <3>1. m - 1 \in 1..k /\ m - 1 \in 1..(k - 1) /\ m - 1 <= cur /\ ~(m <= m - 1) /\ m - 1 + 1 = m
      BY <1>3, <2>2
    <3>2. at[m - 1] <= b[m - 1]
      BY <1>2, <3>1
    <3>3. b[m - 1] < b[m] /\ b[m - 1] \in 2..Len(o)
      BY <3>1 DEF Rising
    <3> QED BY <1>3, <3>2, <3>3
  <2> QED BY <2>1, <2>2
<1>5. o[b[m]].name # path[m]
  <2>1. o[b[m]].kind # "list"
    BY <1>3 DEF PlacesOf
  <2> QED BY <1>3, <1>4, <2>1 DEF Matched
<1> QED BY <1>3, <1>5 DEF PlacesOf

LEMMA CourseIs ==
    ASSUME DocInv, CsvInv, CourseInv
    PROVE  PathFollows
<1> SUFFICES ASSUME ~setup.filtered, NEW k \in 1..Len(setup.csv.path)
             PROVE  k <= csv.cur <=> PathOpened(k)
  BY DEF PathFollows
<1> DEFINE n == Len(open)
           path == csv.path
           cur == csv.cur
<1>1. /\ csv.path = setup.csv.path /\ cur \in Nat /\ Len(path) \in Nat /\ cur <= Len(path)
  BY CourseTypes DEF CourseInv, Course, CsvInv, CsvFollows
<1>2. PICK at : Matched(open, path, cur, at)
  BY DEF CourseInv, Course
<1>3. /\ n \in Nat /\ n >= 1
      /\ DOMAIN Parents = 1..(n - 1)
      /\ \A i \in 1..(n - 1) : Parents[i] = open[i + 1]
  <2>1. open \in Seq(Elements) /\ n \in Nat /\ n >= 1 /\ open # <<>>
    BY TopFacts DEF DocInv, Elems
  <2>2. /\ Parents \in Seq(Elements) /\ Len(Parents) = n - 1
        /\ \A i \in 1..(n - 1) : Parents[i] = open[i + 1]
    BY <2>1, HeadTailProperties DEF Parents
  <2> QED BY <2>1, <2>2
<1> HIDE DEF n, path, cur
<1>4. ASSUME k <= cur PROVE PathOpened(k)
  <2> DEFINE b == [i \in 1..k |-> at[i] - 1]
  <2>1. \A i \in 1..k : i \in 1..cur /\ i \in 0..cur /\ 0 \in 0..cur /\ 0 < i
    BY <1>1, <1>4
  <2>2. ASSUME NEW i \in 1..k
        PROVE  /\ at[i] \in 2..n /\ b[i] = at[i] - 1 /\ b[i] \in 1..(n - 1)
               /\ Parents[b[i]] = open[at[i]]
    <3>1. at[i] \in 1..n /\ at[0] < at[i] /\ at[0] = 1
      BY <1>2, <2>1 DEF Matched, n
    <3>2. at[i] \in 2..n /\ at[i] - 1 \in 1..(n - 1) /\ at[i] - 1 + 1 = at[i]
      BY <1>3, <3>1
    <3>3. b[i] = at[i] - 1
      OBVIOUS
    <3> HIDE DEF b
    <3> QED BY <1>3, <3>2, <3>3
  <2>3. b = [i \in 1..k |-> b[i]]
    OBVIOUS
  <2> HIDE DEF b
  <2>4. b \in [1..k -> DOMAIN Parents]
    BY <1>3, <2>2, <2>3
  <2>5. ASSUME NEW i \in 1..k
        PROVE  Parents[b[i]].name = setup.csv.path[i] /\ Parents[b[i]].kind # "list"
    <3>1. open[at[i]].kind # "list" /\ open[at[i]].name = path[i]
      BY <1>2, <2>1 DEF Matched
    <3> QED BY <1>1, <2>2, <3>1 DEF path
  <2>6. ASSUME NEW i \in 1..(k - 1)
        PROVE  b[i] < b[i + 1]
    <3>1. i \in 1..k /\ i + 1 \in 1..k /\ i < i + 1
      OBVIOUS
    <3>2. at[i] < at[i + 1]
      BY <1>2, <2>1, <3>1 DEF Matched
    <3> QED BY <2>2, <3>1, <3>2
  <2> QED BY <2>4, <2>5, <2>6 DEF PathOpened
<1>5. ASSUME PathOpened(k), ~(k <= cur) PROVE FALSE
  <2>1. PICK b \in [1..k -> DOMAIN Parents] :
            /\ \A i \in 1..k : Parents[b[i]].name = setup.csv.path[i] /\ Parents[b[i]].kind # "list"
            /\ \A i \in 1..(k - 1) : b[i] < b[i + 1]
    BY <1>5 DEF PathOpened
  <2> DEFINE a == [i \in 1..k |-> b[i] + 1]
  <2>2. ASSUME NEW i \in 1..k
        PROVE  /\ b[i] \in 1..(n - 1) /\ a[i] = b[i] + 1 /\ a[i] \in 2..n
               /\ open[a[i]].name = path[i] /\ open[a[i]].kind # "list"
    <3>1. b[i] \in 1..(n - 1) /\ b[i] + 1 \in 2..n
      BY <1>3, <2>1
    <3>2. a[i] = b[i] + 1
      OBVIOUS
    <3> HIDE DEF a
    <3>3. Parents[b[i]] = open[a[i]]
      BY <1>3, <3>1, <3>2
    <3> QED BY <1>1, <2>1, <3>1, <3>2, <3>3 DEF path
  <2>3. a = [i \in 1..k |-> a[i]]
    OBVIOUS
  <2> HIDE DEF a
  <2>4. a \in [1..k -> 2..n]
    BY <2>2, <2>3
  <2>5. \A i \in 1..(k - 1) : a[i] < a[i + 1]
    <3>1. \A i \in 1..(k - 1) : i \in 1..k /\ i + 1 \in 1..k
      OBVIOUS
    <3> QED BY <2>1, <2>2, <3>1
  <2>6. cur + 1 \in 1..k /\ k \in Nat /\ cur < Len(path)
    BY <1>1, <1>5 DEF path
  <2>7. at[cur] < a[cur + 1]
    <3>1. a[cur + 1] \in 2..n /\ cur \in 0..cur
      BY <1>1, <2>2, <2>6
    <3>2. at[cur] \in 1..n
      BY <1>2, <3>1 DEF Matched, n
    <3>3. CASE cur = 0
      BY <1>2, <3>1, <3>3 DEF Matched
    <3>4. CASE cur # 0
      <4>1. cur \in 1..k /\ cur \in 1..(k - 1) /\ cur <= cur
        BY <1>1, <2>6, <3>4
      <4>2. at[cur] <= a[cur]
        <5>1. Len(open) \in Nat /\ cur \in Nat /\ k \in Nat
          BY <1>1, <1>3, <2>6 DEF n
        <5>2. a \in [1..k -> 2..Len(open)]
          BY <2>4 DEF n
        <5>3. PlacesOf(open, path, k, a)
          BY <2>2 DEF PlacesOf
        <5>4. Rising(k, a)
          BY <2>5 DEF Rising
        <5> QED BY ONLY <1>2, <4>1, <5>1, <5>2, <5>3, <5>4, FirstPlaces
      <4>3. a[cur] < a[cur + 1] /\ a[cur] \in 2..n
        BY <2>2, <2>5, <4>1
      <4> QED BY <3>1, <3>2, <4>2, <4>3
    <3> QED BY <3>3, <3>4
  <2>8. a[cur + 1] \in 1..n /\ open[a[cur + 1]].kind # "list" /\ open[a[cur + 1]].name = path[cur + 1]
    <3>1. PICK j \in 1..k : j = cur + 1
      BY <2>6
    <3>2. a[j] \in 2..n /\ open[a[j]].name = path[j] /\ open[a[j]].kind # "list"
      BY <2>2
    <3>3. a[j] \in 1..n
      BY <3>2, <1>1
    <3> QED BY <3>1, <3>2, <3>3
  <2> QED BY <1>2, <2>6, <2>7, <2>8 DEF Matched, n
<1> QED BY <1>4, <1>5 DEF cur

(* csv is as far in its path as the path is open, whatever was opened and     *)
(* closed before, if no leaf-list has the name of a container or a list       *)
(* (enc_csv.c:397, 441).                                                      *)
THEOREM PathCorrect ==
    ASSUME LeafListsApart
    PROVE  Spec => []PathFollows
<1>1. Init => DocInv /\ CsvInv /\ NamesInv /\ CourseInv
  BY DocInit, CsvInit, CourseInit
<1>2. DocInv /\ CsvInv /\ NamesInv /\ CourseInv /\ [Next]_vars
        => (DocInv /\ CsvInv /\ NamesInv /\ CourseInv)'
  BY DocStep, CsvStep, NamesStep, CourseStep
<1>3. DocInv /\ CsvInv /\ NamesInv /\ CourseInv => PathFollows
  BY CourseIs
<1> QED BY <1>1, <1>2, <1>3, PTL DEF Spec

-----------------------------------------------------------------------------
(* The rows of csv are complete *)

CellsApart == NoCell \notin Nat /\ JunkCell \notin Nat

\* The operation at p is in the element e; it ends the leading fields of what it is in.
Inside(k, p, e) == \E i \in 1..Len(k[p].within) : k[p].within[i].id = e
Cuts(op) == op.op \in {"open_container", "open_leaf_list", "open_instance"}

\* The leading fields of e came to an end.
Cut(k, e) == \E q \in 1..Len(k) : Inside(k, q, e) /\ Cuts(k[q].what)

FirstOf(k, e) ==
    {p \in 1..Len(k) : /\ k[p].what.op = "field" /\ Inner(k, p) = e
                       /\ \A q \in 1..p : ~(Inside(k, q, e) /\ Cuts(k[q].what))}

Column(c, name) == \E i \in 1..Len(c.leafs) : c.leafs[i].name = name

Shown(k, c, e) == {p \in FirstOf(k, e) : Column(c, k[p].what.name)}

\* The operations that gave the values in these cells
Holders(k, cells) ==
    {p \in 1..Len(k) :
        \E i \in 1..Len(cells) : cells[i] \notin {NoCell, JunkCell} /\ Gave(k, p, cells[i])}

HasRow(k, c, e) ==
    \E r \in 1..Len(Out(c)) :
        Out(c)[r].line = "row" /\ Holders(k, Out(c)[r].cells) = Shown(k, c, e)

\* The element e has all that it gives to the table in a row.
Rowed(k, c, e) ==
    \/ FirstOf(k, e) = {}
    \/ c.leafsDone /\ (Shown(k, c, e) = {} \/ HasRow(k, c, e))

\* The row that is collected has all that e gave so far, and e may give more.
Collected(k, c, e) ==
    /\ ~Cut(k, e)
    /\ Holders(k, Csv!Row(c)) = Shown(k, c, e)
    /\ ~c.leafsDone => Shown(k, c, e) = FirstOf(k, e)

IsOpen(o, e) == \E j \in 2..Len(o) : o[j].id = e

\* An instance that is in no other one
Outer(k, p) ==
    /\ k[p].what.op = "open_instance"
    /\ \A i \in 1..Len(k[p].within) : k[p].within[i].kind # "instance"

InstanceFine(k, c, o, e) ==
    IF c.recording /\ Recorded(o) = e
    THEN Collected(k, c, e)
    ELSE (~IsOpen(o, e) \/ Cut(k, e)) /\ Rowed(k, c, e)

\* Where fields are given while csv records
RecordedAt(o) == IF o[Len(o)].kind = "list" THEN Len(o) - 1 ELSE Len(o)

\* Elements are numbered as they are opened.
IdsRise(o, k, n) ==
    /\ \A i, j \in 1..Len(o) : i < j => o[i].id < o[j].id
    /\ \A i \in 1..Len(o) : o[i].id <= n
    /\ \A p \in 1..Len(k) : \A e \in Nat : Inside(k, p, e) => e <= n

\* An element knows the names that were used in it.
UsedKnown(o, k) ==
    \A q \in 1..Len(k), j \in 2..Len(o) :
        k[q].what.op \in {"field", "item"} /\ Inner(k, q) = o[j].id => k[q].what.name \in o[j].used

AllFine(k, n, c, o) ==
    \A p \in 1..Len(k) : Outer(k, p) =>
        k[p].what.value \in 1..n /\ InstanceFine(k, c, o, k[p].what.value)

RowsFollow(k, n, c, o) ==
    /\ c.path = <<>>
    /\ IdsRise(o, k, n)
    /\ UsedKnown(o, k)
    /\ c.recording => o[RecordedAt(o)].kind = "instance"
    /\ AllFine(k, n, c, o)

RowsInv ==
    ~setup.filtered /\ setup.csv.path = <<>> => RowsFollow(kept, count, csv, open)

-----------------------------------------------------------------------------
(* One operation more *)

\* l is k and the operation op, which was told in o.
ToldIn(k, l, op, o) ==
    /\ Len(k) \in Nat /\ Len(l) = Len(k) + 1
    /\ \A p \in 1..Len(k) : l[p] = k[p]
    /\ l[Len(k) + 1].what = op
    /\ Inner(l, Len(k) + 1) = o[Len(o)].id
    /\ \A e : Inside(l, Len(k) + 1, e) <=> IsOpen(o, e)
    /\ Outer(l, Len(k) + 1) <=>
          op.op = "open_instance" /\ \A j \in 2..Len(o) : o[j].kind # "instance"

LEMMA KeptTold ==
    ASSUME DocInv, NEW op, NEW o, Elems(o), KeptOne(op, o)
    PROVE  ToldIn(kept, kept', op, o)
<1> DEFINE m == Len(kept)
           d == Len(o)
<1>1. /\ m \in Nat /\ Len(kept') = m + 1
      /\ \A p \in 1..m : kept'[p] = kept[p]
      /\ kept'[m + 1].what = op /\ kept'[m + 1].within = Place(o)
  BY DEF DocInv, KeptOne
<1>2. PICK place : place = Place(o)
  OBVIOUS
<1>3. d \in Nat /\ d >= 1 /\ o[1].id = 0
  BY TopFacts DEF Elems, Nested
<1>4. Len(place) = d - 1 /\ place \in Seq([kind : Kinds, name : Labels, id : Nat])
  BY <1>2, PlaceTypes
<1>5. \A i \in 1..(d - 1) :
          place[i] = [kind |-> o[i + 1].kind, name |-> o[i + 1].name, id |-> o[i + 1].id]
  BY <1>2, PlaceTypes
<1> HIDE DEF d, m
<1>6. ASSUME NEW i \in 1..(d - 1)
      PROVE  place[i].id = o[i + 1].id /\ place[i].kind = o[i + 1].kind /\ i + 1 \in 2..d
  <2>1. place[i] = [kind |-> o[i + 1].kind, name |-> o[i + 1].name, id |-> o[i + 1].id]
    BY <1>5
  <2> QED BY <1>3, <2>1
<1>7. ASSUME NEW j \in 2..d
      PROVE  j - 1 \in 1..(d - 1) /\ place[j - 1].id = o[j].id /\ place[j - 1].kind = o[j].kind
  <2>1. j - 1 \in 1..(d - 1) /\ j - 1 + 1 = j
    BY <1>3
  <2> QED BY <1>6, <2>1
<1>8. ASSUME NEW e
      PROVE  Inside(kept', m + 1, e) <=> IsOpen(o, e)
  <2>1. Inside(kept', m + 1, e) <=> \E i \in 1..(d - 1) : place[i].id = e
    BY <1>1, <1>2, <1>4 DEF Inside
  <2>2. IsOpen(o, e) <=> \E j \in 2..d : o[j].id = e
    BY DEF IsOpen, d
  <2> QED BY <1>6, <1>7, <2>1, <2>2
<1>9. Outer(kept', m + 1) <=>
          op.op = "open_instance" /\ \A j \in 2..d : o[j].kind # "instance"
  <2>1. Outer(kept', m + 1) <=>
            op.op = "open_instance" /\ \A i \in 1..(d - 1) : place[i].kind # "instance"
    BY <1>1, <1>2, <1>4 DEF Outer
  <2> QED BY <1>6, <1>7, <2>1
<1>10. Inner(kept', m + 1) = o[d].id
  <2>1. Inner(kept', m + 1) = IF place = <<>> THEN 0 ELSE place[d - 1].id
    BY <1>1, <1>2, <1>4 DEF Inner
  <2>2. CASE d = 1
    <3>1. place = <<>>
      BY <1>4, <2>2, EmptySeq
    <3> QED BY <1>3, <2>1, <2>2, <3>1
  <2>3. CASE d > 1
    <3>1. place # <<>>
      BY <1>3, <1>4, <2>3, EmptySeq
    <3>2. d \in 2..d
      BY <1>3, <2>3
    <3> QED BY <1>7, <2>1, <3>1, <3>2
  <2> QED BY <1>3, <2>2, <2>3
<1> QED BY <1>1, <1>8, <1>9, <1>10 DEF ToldIn, d, m

LEMMA CutMore ==
    ASSUME NEW k, NEW l, NEW op, NEW o, ToldIn(k, l, op, o), NEW e
    PROVE  Cut(l, e) <=> Cut(k, e) \/ (IsOpen(o, e) /\ Cuts(op))
<1> DEFINE n == Len(k)
<1>1. /\ n \in Nat /\ Len(l) = n + 1 /\ \A p \in 1..n : l[p] = k[p]
      /\ l[n + 1].what = op /\ (Inside(l, n + 1, e) <=> IsOpen(o, e))
  BY DEF ToldIn
<1> HIDE DEF n
<1>2. \A p \in 1..n : Inside(l, p, e) <=> Inside(k, p, e)
  BY <1>1 DEF Inside
<1>3. \A q \in 1..(n + 1) : q \in 1..n \/ q = n + 1
  BY <1>1
<1>4. n + 1 \in 1..(n + 1) /\ \A q \in 1..n : q \in 1..(n + 1)
  BY <1>1
<1> QED BY <1>1, <1>2, <1>3, <1>4 DEF Cut, n

LEMMA FirstMore ==
    ASSUME NEW k, NEW l, NEW op, NEW o, ToldIn(k, l, op, o), NEW e
    PROVE  /\ op.op # "field" \/ Cut(k, e) \/ o[Len(o)].id # e => FirstOf(l, e) = FirstOf(k, e)
           /\ op.op = "field" /\ ~Cut(k, e) /\ o[Len(o)].id = e =>
                 FirstOf(l, e) = FirstOf(k, e) \cup {Len(k) + 1}
<1> DEFINE n == Len(k)
           uncut(p) == \A q \in 1..p : ~(Inside(l, q, e) /\ Cuts(l[q].what))
<1>1. /\ n \in Nat /\ Len(l) = n + 1 /\ \A p \in 1..n : l[p] = k[p]
      /\ l[n + 1].what = op /\ Inner(l, n + 1) = o[Len(o)].id
  BY DEF ToldIn
<1> HIDE DEF n
<1>2. \A p \in 1..n : Inner(l, p) = Inner(k, p) /\ (Inside(l, p, e) <=> Inside(k, p, e))
  BY <1>1 DEF Inner, Inside
<1>3. ASSUME NEW p \in 1..n
      PROVE  p \in FirstOf(l, e) <=> p \in FirstOf(k, e)
  <2>1. p \in 1..(n + 1) /\ \A q \in 1..p : q \in 1..n
    BY <1>1
  <2> QED BY <1>1, <1>2, <2>1 DEF FirstOf, n
<1>4. n + 1 \in FirstOf(l, e) <=> op.op = "field" /\ o[Len(o)].id = e /\ uncut(n + 1)
  <2>1. n + 1 \in 1..(n + 1)
    BY <1>1
  <2> QED BY <1>1, <2>1 DEF FirstOf
<1>5. op.op = "field" => (uncut(n + 1) <=> ~Cut(k, e))
  <2>1. \A q \in 1..(n + 1) : q \in 1..n \/ q = n + 1
    BY <1>1
  <2>2. \A q \in 1..n : q \in 1..(n + 1)
    BY <1>1
  <2>3. op.op = "field" => ~Cuts(op)
    BY DEF Cuts
  <2> QED BY <1>1, <1>2, <2>1, <2>2, <2>3 DEF Cut, n
<1>6. FirstOf(l, e) \subseteq 1..(n + 1) /\ FirstOf(k, e) \subseteq 1..n
  BY <1>1 DEF FirstOf, n
<1>7. \A p \in 1..(n + 1) : p \in 1..n \/ p = n + 1
  BY <1>1
<1>8. n + 1 \notin 1..n
  BY <1>1
<1>9. \A p \in FirstOf(l, e) : p \in FirstOf(k, e) \/ (p = n + 1 /\ op.op = "field"
                                     /\ ~Cut(k, e) /\ o[Len(o)].id = e)
  BY <1>3, <1>4, <1>5, <1>6, <1>7
<1>10. FirstOf(k, e) \subseteq FirstOf(l, e)
  BY <1>3, <1>6
<1>11. op.op = "field" /\ ~Cut(k, e) /\ o[Len(o)].id = e => n + 1 \in FirstOf(l, e)
  BY <1>4, <1>5
<1> HIDE DEF uncut
<1> QED BY <1>9, <1>10, <1>11 DEF n
-----------------------------------------------------------------------------
(* Lines that were written stay *)

\* Every cell that is filled holds one of the first n values.
CellsKnown(cells, n) ==
    \A i \in 1..Len(cells) : cells[i] \notin {NoCell, JunkCell} => cells[i] \in Nat /\ cells[i] <= n

LinesKnown(c, n) ==
    \A i \in 1..Len(Out(c)) : Out(c)[i].line = "row" => CellsKnown(Out(c)[i].cells, n)

GivesNew(op, n) == op.op \in {"field", "item"} => op.value = n + 1

LEMMA HoldersMore ==
    ASSUME NEW k, NEW l, NEW op, NEW o, ToldIn(k, l, op, o), NEW n \in Nat, GivesNew(op, n),
           NEW cells, CellsKnown(cells, n)
    PROVE  Holders(l, cells) = Holders(k, cells)
<1> DEFINE m == Len(k)
<1>1. /\ m \in Nat /\ Len(l) = m + 1 /\ \A p \in 1..m : l[p] = k[p] /\ l[m + 1].what = op
  BY DEF ToldIn
<1> HIDE DEF m
<1>2. ASSUME NEW v \in Nat, v <= n
      PROVE  ~Gave(l, m + 1, v)
  <2>1. l[m + 1].what = op
    BY <1>1 DEF ToldIn, m
  <2> QED BY <1>2, <2>1 DEF Gave, GivesNew
<1>3. \A p \in 1..m : \A v : Gave(l, p, v) <=> Gave(k, p, v)
  BY <1>1 DEF Gave
<1>4. \A p \in 1..(m + 1) : p \in 1..m \/ p = m + 1
  BY <1>1
<1>5. \A p \in 1..m : p \in 1..(m + 1)
  BY <1>1
<1>6. Holders(l, cells) =
        {p \in 1..(m + 1) : \E i \in 1..Len(cells) :
                                cells[i] \notin {NoCell, JunkCell} /\ Gave(l, p, cells[i])}
  BY <1>1 DEF Holders
<1>7. ASSUME NEW p \in 1..(m + 1)
      PROVE  p \in Holders(l, cells) <=> p \in Holders(k, cells)
  <2>1. CASE p \in 1..m
    BY <1>3, <1>5, <1>6, <2>1 DEF Holders, m
  <2>2. CASE p = m + 1
    <3>1. p \notin Holders(k, cells)
      BY <1>1, <2>2 DEF Holders, m
    <3>2. p \notin Holders(l, cells)
      BY <1>2, <1>6, <2>2 DEF CellsKnown
    <3> QED BY <3>1, <3>2
  <2> QED BY <1>4, <2>1, <2>2
<1>8. Holders(l, cells) \subseteq 1..(m + 1) /\ Holders(k, cells) \subseteq 1..(m + 1)
  BY <1>5, <1>6 DEF Holders, m
<1> QED BY <1>7, <1>8

\* g has the lines of c and maybe more, under the same columns once these are fixed.
Continues(c, g) ==
    /\ Len(Out(c)) \in Nat /\ Len(Out(g)) \in Nat /\ Len(Out(c)) <= Len(Out(g))
    /\ \A i \in 1..Len(Out(c)) : Out(g)[i] = Out(c)[i]
    /\ c.leafsDone => g.leafsDone /\ \A name : Column(g, name) <=> Column(c, name)

LEMMA RowedMore ==
    ASSUME NEW k, NEW l, NEW op, NEW o, ToldIn(k, l, op, o), NEW n \in Nat, GivesNew(op, n),
           NEW c, LinesKnown(c, n), NEW g, Continues(c, g),
           NEW e, FirstOf(l, e) = FirstOf(k, e), Rowed(k, c, e)
    PROVE  Rowed(l, g, e)
<1>1. CASE FirstOf(k, e) = {}
  BY <1>1 DEF Rowed
<1>2. CASE FirstOf(k, e) # {}
  <2>1. c.leafsDone /\ g.leafsDone /\ \A name : Column(g, name) <=> Column(c, name)
    BY <1>2 DEF Rowed, Continues
  <2>2. \A p \in FirstOf(k, e) : l[p] = k[p]
    BY DEF FirstOf, ToldIn
  <2>3. Shown(l, g, e) = Shown(k, c, e)
    BY <2>1, <2>2 DEF Shown
  <2>4. CASE Shown(k, c, e) = {}
    BY <2>1, <2>3, <2>4 DEF Rowed
  <2>5. CASE Shown(k, c, e) # {}
    <3>1. PICK r \in 1..Len(Out(c)) :
              Out(c)[r].line = "row" /\ Holders(k, Out(c)[r].cells) = Shown(k, c, e)
      BY <1>2, <2>5 DEF Rowed, HasRow
    <3>2. r \in 1..Len(Out(g)) /\ Out(g)[r] = Out(c)[r]
      BY <3>1 DEF Continues
    <3>3. Holders(l, Out(c)[r].cells) = Holders(k, Out(c)[r].cells)
      BY <3>1, HoldersMore DEF LinesKnown
    <3>4. HasRow(l, g, e)
      BY <2>3, <3>1, <3>2, <3>3 DEF HasRow
    <3> QED BY <2>1, <3>4 DEF Rowed
  <2> QED BY <2>4, <2>5
<1> QED BY <1>1, <1>2

LEMMA LinesFollow ==
    ASSUME NEW k, NEW n \in Nat, NEW id, NEW c, CsvFollows(k, n, id, c)
    PROVE  LinesKnown(c, n) /\ Continues(c, c) /\ CellsKnown(Csv!Row(c), n)
<1>1. c \in CsvTypes /\ Len(Out(c)) \in Nat /\ Out(c) \in Seq(Lines) /\ c.recording \in BOOLEAN
  BY OutTypes DEF CsvFollows, CsvTypes
<1>2. PICK element, below : Table(k, n, c, element, below)
  BY DEF CsvFollows
<1>3. ASSUME NEW i \in 1..Len(Out(c)), Out(c)[i].line = "row"
      PROVE  CellsKnown(Out(c)[i].cells, n)
  <2>1. RowFine(k, n, Csv!Header(c), Out(c)[i].cells, element[i])
    BY <1>2, <1>3 DEF Table, LineFine
  <2> QED BY <2>1 DEF RowFine, CellFine, CellsKnown
<1>4. CellsKnown(Csv!Row(c), n)
  <2>1. /\ Len(Csv!Row(c)) = Len(c.leafs)
        /\ \A i \in 1..Len(c.leafs) :
              Csv!Row(c)[i] = IF c.leafs[i].has THEN c.leafs[i].cell ELSE NoCell
    BY <1>1, LineTypes
  <2>2. \A i \in 1..Len(c.leafs) : LeafFine(k, n, c, c.leafs[i], id)
    BY DEF CsvFollows
  <2> QED BY <2>1, <2>2 DEF LeafFine, CellFine, CellsKnown
<1>5. Continues(c, c)
  BY <1>1 DEF Continues
<1> QED BY <1>3, <1>4, <1>5 DEF LinesKnown

-----------------------------------------------------------------------------
(* What the end of a recording writes *)

\* g is c with more lines.
Longer(c, g) ==
    /\ g \in CsvTypes /\ g.leafs = c.leafs /\ g.leafsDone = c.leafsDone /\ g.path = c.path
    /\ g.recording = c.recording /\ Len(Out(c)) <= Len(Out(g))
    /\ \A i \in 1..Len(Out(c)) : Out(g)[i] = Out(c)[i]

LEMMA LongerAgain ==
    ASSUME NEW c \in CsvTypes, NEW d, Longer(c, d), NEW g, Longer(d, g)
    PROVE  Longer(c, g)
<1>1. Len(Out(c)) \in Nat /\ Len(Out(d)) \in Nat /\ Len(Out(g)) \in Nat
  BY OutTypes DEF Longer
<1>2. \A i \in 1..Len(Out(c)) : i \in 1..Len(Out(d))
  BY <1>1 DEF Longer
<1>3. Len(Out(c)) <= Len(Out(g))
  BY <1>1 DEF Longer
<1> QED BY <1>2, <1>3 DEF Longer

LEMMA AddedLonger ==
    ASSUME NEW c \in CsvTypes, NEW line \in Lines, NEW g, LineAdded(c, g, line)
    PROVE  /\ Longer(c, g)
           /\ Len(Out(g)) \in 1..Len(Out(g)) /\ Out(g)[Len(Out(g))] = line
<1>1. Out(c) \in Seq(Lines) /\ Len(Out(c)) \in Nat /\ Out(g) = Append(Out(c), line)
  BY OutTypes DEF LineAdded
<1>2. /\ Len(Out(g)) = Len(Out(c)) + 1 /\ Out(g)[Len(Out(c)) + 1] = line
      /\ \A i \in 1..Len(Out(c)) : Out(g)[i] = Out(c)[i]
  BY <1>1
<1> QED BY <1>1, <1>2 DEF Longer, LineAdded

LEMMA HeaderLonger ==
    ASSUME NEW c \in CsvTypes
    PROVE  Longer(c, Csv!WithHeader(c))
<1> DEFINE g == Csv!WithHeader(c)
           line == Csv!Line("header", Csv!Header(c))
<1>0. c.headerDone \in BOOLEAN /\ c.noHeader \in BOOLEAN /\ Len(Out(c)) \in Nat
  BY OutTypes DEF CsvTypes
<1>1. CASE c.headerDone \/ c.noHeader
  <2>1. g = c
    BY <1>1 DEF Csv!WithHeader
  <2> HIDE DEF g
  <2>2. Longer(c, c)
    BY <1>0 DEF Longer
  <2> QED BY <2>1, <2>2 DEF g
<1>2. CASE ~c.headerDone /\ ~c.noHeader
  <2>1. g = [c EXCEPT !.headerDone = TRUE, !.data = Append(@, line)]
    BY <1>2 DEF Csv!WithHeader
  <2>2. line \in Lines
    BY LineTypes
  <2> HIDE DEF line
  <2>3. LineAdded(c, g, line)
    BY <2>1, <2>2, AppendLine
  <2> HIDE DEF g
  <2>4. Longer(c, g)
    BY <2>2, <2>3, AddedLonger
  <2> QED BY <2>4 DEF g
<1> QED BY <1>0, <1>1, <1>2

\* The last line of g is the row of c.
EndsInRow(c, g) ==
    /\ Longer(c, g) /\ Len(Out(g)) \in 1..Len(Out(g))
    /\ Out(g)[Len(Out(g))] = Csv!Line("row", Csv!Row(c))

LEMMA RowLonger ==
    ASSUME NEW c \in CsvTypes
    PROVE  EndsInRow(c, Csv!WithRow(c))
<1> DEFINE g == Csv!WithRow(c)
           row == Csv!Line("row", Csv!Row(c))
<1>1. row \in Lines
  BY LineTypes
<1>2. PICK b \in BOOLEAN : b = c.headerDone
  BY DEF CsvTypes
<1>3. g = [c EXCEPT !.headerDone = b, !.data = Append(@, row)]
  BY <1>2 DEF Csv!WithRow, CsvTypes
<1> HIDE DEF row, g
<1>4. LineAdded(c, g, row)
  <2>1. \A f : f = [c EXCEPT !.headerDone = b, !.data = Append(@, row)] => LineAdded(c, f, row)
    BY <1>1, AppendLine
  <2> QED BY <1>3, <2>1
<1>5. EndsInRow(c, g)
  BY <1>1, <1>4, AddedLonger DEF EndsInRow, row
<1> QED BY <1>5 DEF g

LEMMA FlushedRow ==
    ASSUME NEW c, NEW g, EndsInRow(c, g)
    PROVE  EndsInRow(c, Csv!Flushed(g))
<1> DEFINE f == Csv!Flush(g)
<1>1. FlushedAs(g, f)
  BY FlushCsv DEF EndsInRow, Longer
<1> HIDE DEF f
<1>2. EndsInRow(c, f)
  BY <1>1 DEF EndsInRow, Longer, FlushedAs, SameTable
<1> QED BY <1>2 DEF Csv!Flushed, f

\* The recording of c ended in g: the row of c is written if it has columns.
Stopped(c, g) ==
    /\ Continues(c, g) /\ ~g.recording /\ g.path = c.path
    /\ \A name : Column(g, name) <=> Column(c, name)
    /\ \/ Len(c.leafs) = 0
       \/ g.leafsDone /\ \E r \in 1..Len(Out(g)) :
                            Out(g)[r].line = "row" /\ Out(g)[r].cells = Csv!Row(c)

LEMMA StopRows ==
    ASSUME NEW c \in CsvTypes, c.recording
    PROVE  Stopped(c, Csv!StopRecording(c))
<1> DEFINE d == [c EXCEPT !.recording = FALSE]
           g == Csv!StopRecording(c)
<1>1. /\ d \in CsvTypes /\ d.leafs = c.leafs /\ ~d.recording /\ d.path = c.path
      /\ d.written = c.written /\ d.data = c.data /\ d.leafsDone = c.leafsDone
  BY DEF CsvTypes
<1>2. g = Csv!Emit(d)
  BY DEF Csv!StopRecording
<1> HIDE DEF d, g
<1>3. Out(d) = Out(c) /\ Csv!Row(d) = Csv!Row(c) /\ Len(Out(c)) \in Nat
  BY <1>1, OutTypes DEF Out, Csv!Row
<1>4. CASE c.leafs = <<>>
  <2>1. g = d
    BY <1>1, <1>2, <1>4 DEF Csv!Emit
  <2>2. Len(c.leafs) = 0
    BY <1>4
  <2>3. Stopped(c, d)
    BY <1>1, <1>3, <2>2 DEF Stopped, Continues, Column
  <2> QED BY <2>1, <2>3 DEF g
<1>5. CASE c.leafs # <<>>
  <2> DEFINE h == Csv!WithHeader(d)
             f == Csv!Flushed(Csv!WithRow(h))
  <2>1. g = Csv!Cleared(f)
    BY <1>1, <1>2, <1>5 DEF Csv!Emit
  <2>2. Longer(d, h) /\ h \in CsvTypes
    BY <1>1, HeaderLonger DEF Longer
  <2> HIDE DEF h
  <2>3. EndsInRow(h, f)
    BY <2>2, RowLonger, FlushedRow
  <2> HIDE DEF f
  <2>4. /\ Longer(d, f) /\ f \in CsvTypes /\ Len(Out(f)) \in 1..Len(Out(f))
        /\ Out(f)[Len(Out(f))] = Csv!Line("row", Csv!Row(h))
    <3>1. Longer(d, f)
      BY <1>1, <2>2, <2>3, LongerAgain DEF EndsInRow
    <3> QED BY <2>3, <3>1 DEF EndsInRow, Longer
  <2>5. Csv!Row(h) = Csv!Row(c)
    BY <1>3, <2>2 DEF Longer, Csv!Row
  <2> DEFINE m == Len(f.leafs)
             l == [i \in 1..m |-> Csv!Leaf(f.leafs[i].name, FALSE)]
  <2>6. /\ f.leafs \in Seq(Leafs) /\ m \in Nat /\ DOMAIN f.leafs = 1..m
        /\ f.leafs = c.leafs
    BY <1>1, <2>4 DEF Longer, CsvTypes
  <2>7. g = [f EXCEPT !.leafs = l, !.leafsDone = TRUE]
    BY <2>1, <2>6 DEF Csv!Cleared
  <2>8. Len(l) = m /\ \A i \in 1..m : l[i].name = f.leafs[i].name
    BY <2>6 DEF Csv!Leaf
  <2> HIDE DEF l, m
  <2>9. /\ g.leafs = l /\ g.leafsDone = TRUE /\ g.written = f.written /\ g.data = f.data
        /\ g.recording = f.recording /\ g.path = f.path
    BY <2>4, <2>7 DEF CsvTypes
  <2>10. Out(g) = Out(f) /\ Len(Out(f)) \in Nat
    BY <2>4, <2>9, OutTypes DEF Out
  <2>11. \A name : Column(g, name) <=> Column(c, name)
    BY <2>6, <2>8, <2>9 DEF Column, m
  <2>12. Continues(c, g) /\ ~g.recording /\ g.path = c.path
    BY <1>1, <1>3, <2>4, <2>9, <2>10, <2>11 DEF Continues, Longer
  <2>13. Out(g)[Len(Out(g))].line = "row" /\ Out(g)[Len(Out(g))].cells = Csv!Row(c)
    BY <2>4, <2>5, <2>10 DEF Csv!Line
  <2>14. Stopped(c, g)
    BY <2>4, <2>9, <2>10, <2>11, <2>12, <2>13 DEF Stopped
  <2> QED BY <2>14 DEF g
<1> QED BY <1>4, <1>5

LEMMA StoppedRowed ==
    ASSUME NEW k, NEW l, NEW op, NEW o, ToldIn(k, l, op, o), NEW n \in Nat, GivesNew(op, n),
           NEW id, NEW c, CsvFollows(k, n, id, c), NEW e, Collected(k, c, e),
           FirstOf(l, e) = FirstOf(k, e), NEW g, Stopped(c, g)
    PROVE  Rowed(l, g, e)
<1>1. \A p \in FirstOf(k, e) : l[p] = k[p]
  BY DEF FirstOf, ToldIn
<1>2. Shown(l, g, e) = Shown(k, c, e)
  BY <1>1 DEF Shown, Stopped
<1>3. c.leafsDone \in BOOLEAN
  BY DEF CsvFollows, CsvTypes
<1>4. CASE Len(c.leafs) = 0
  <2>1. Shown(k, c, e) = {}
    BY <1>4 DEF Shown, Column
  <2>2. CASE c.leafsDone
    BY <1>2, <2>1, <2>2 DEF Rowed, Stopped, Continues
  <2>3. CASE ~c.leafsDone
    BY <2>1, <2>3 DEF Rowed, Collected
  <2> QED BY <1>3, <2>2, <2>3
<1>5. CASE Len(c.leafs) # 0
  <2>1. PICK r \in 1..Len(Out(g)) : Out(g)[r].line = "row" /\ Out(g)[r].cells = Csv!Row(c)
    BY <1>5 DEF Stopped
  <2>2. Holders(l, Csv!Row(c)) = Holders(k, Csv!Row(c))
    BY LinesFollow, HoldersMore
  <2>3. HasRow(l, g, e)
    BY <1>2, <2>1, <2>2 DEF HasRow, Collected
  <2> QED BY <1>5, <2>3 DEF Rowed, Stopped
<1> QED BY <1>4, <1>5

-----------------------------------------------------------------------------
(* What a value adds to the row *)

\* In g, the value v stands in a column of this name, and the row is otherwise that of c.
DataSet(c, g, name, v) ==
    /\ g \in CsvTypes /\ Out(g) = Out(c) /\ g.leafsDone = c.leafsDone /\ g.path = c.path
    /\ g.recording = c.recording
    /\ \A x : Column(g, x) <=> Column(c, x) \/ x = name
    /\ \E j \in 1..Len(g.leafs) :
          /\ Csv!Row(g)[j] = v
          /\ Column(c, name) => j \in 1..Len(c.leafs)
          /\ \A i \in 1..Len(c.leafs) : i \in 1..Len(g.leafs)
          /\ \A i \in 1..Len(g.leafs) :
                \/ i = j /\ (i \in 1..Len(c.leafs) => c.leafs[i].name = name)
                \/ i # j /\ i \in 1..Len(c.leafs) /\ Csv!Row(g)[i] = Csv!Row(c)[i]

LEMMA SetRow ==
    ASSUME NEW c \in CsvTypes, NEW name, Csv!LeafNumbers(c, name) # {}, NEW v \in Nat
    PROVE  DataSet(c, Csv!SetLeaf(c, name, v), name, v)
<1> DEFINE j == CHOOSE i \in Csv!LeafNumbers(c, name) : TRUE
           m == Len(c.leafs)
           x == [c.leafs[j] EXCEPT !.has = TRUE, !.cell = v]
           l == [c.leafs EXCEPT ![j] = x]
           g == Csv!SetLeaf(c, name, v)
<1>1. c.leafs \in Seq(Leafs) /\ m \in Nat /\ DOMAIN c.leafs = 1..m
      /\ \A i \in 1..m : c.leafs[i] \in Leafs
  BY DEF CsvTypes
<1>2. j \in 1..m /\ c.leafs[j].name = name
  <2>1. j \in Csv!LeafNumbers(c, name)
    OBVIOUS
  <2> QED BY <1>1, <2>1 DEF Csv!LeafNumbers
<1>3. g = [c EXCEPT !.leafs = l]
  <2>1. g = [c EXCEPT !.leafs[j].has = TRUE, !.leafs[j].cell = v]
    BY DEF Csv!SetLeaf
  <2> HIDE DEF j
  <2>2. x = [[c.leafs[j] EXCEPT !.has = TRUE] EXCEPT !.cell = v]
    BY <1>1, <1>2 DEF Leafs
  <2> HIDE DEF x
  <2> QED BY <1>1, <1>2, <2>1, <2>2 DEF CsvTypes
<1> HIDE DEF j, g
<1>4. x \in Leafs /\ x.has = TRUE /\ x.cell = v /\ x.name = name
  BY <1>1, <1>2 DEF Leafs, Cells
<1> HIDE DEF x
<1>5. l \in Seq(Leafs) /\ Len(l) = m /\ DOMAIN l = 1..m
      /\ \A i \in 1..m : l[i] = IF i = j THEN x ELSE c.leafs[i]
  BY <1>1, <1>2, <1>4, ExceptSeq
<1> HIDE DEF l
<1>6. /\ g \in CsvTypes /\ g.leafs = l /\ g.leafsDone = c.leafsDone /\ g.written = c.written
      /\ g.data = c.data /\ g.recording = c.recording /\ g.path = c.path
  BY <1>1, <1>3, <1>5 DEF CsvTypes
<1>7. \A i \in 1..m : /\ Csv!Row(g)[i] = (IF l[i].has THEN l[i].cell ELSE NoCell)
                      /\ Csv!Row(c)[i] = (IF c.leafs[i].has THEN c.leafs[i].cell ELSE NoCell)
  BY <1>5, <1>6, LineTypes DEF m
<1>8. \A y : Column(g, y) <=> Column(c, y) \/ y = name
  <2>1. \A i \in 1..m : l[i].name = c.leafs[i].name
    BY <1>2, <1>4, <1>5
  <2> QED BY <1>2, <1>5, <1>6, <2>1 DEF Column, m
<1>9. DataSet(c, g, name, v)
  <2>1. Csv!Row(g)[j] = v
    BY <1>2, <1>4, <1>5, <1>7
  <2>2. \A i \in 1..m : i # j => Csv!Row(g)[i] = Csv!Row(c)[i]
    BY <1>5, <1>7
  <2> QED BY <1>2, <1>5, <1>6, <1>8, <2>1, <2>2 DEF DataSet, Out, m
<1> QED BY <1>9 DEF g

LEMMA AddedColumn ==
    ASSUME NEW c \in CsvTypes, NEW name \in Labels
    PROVE  LET g == Csv!AddedLeaf(c, name)
           IN  /\ g \in CsvTypes /\ Out(g) = Out(c) /\ g.leafsDone = c.leafsDone
               /\ g.path = c.path /\ g.recording = c.recording
               /\ Len(g.leafs) = Len(c.leafs) + 1 /\ g.leafs[Len(c.leafs) + 1].name = name
               /\ \A i \in 1..Len(c.leafs) : g.leafs[i] = c.leafs[i]
<1> DEFINE m == Len(c.leafs)
           x == Csv!Leaf(name, Csv!FreshHas(c))
           l == Append(c.leafs, x)
           r == IF Csv!NeedsRoom(c) THEN IF c.max = 0 THEN LeafMax ELSE 2 * c.max ELSE c.max
           g == Csv!AddedLeaf(c, name)
<1>1. c.leafs \in Seq(Leafs) /\ m \in Nat /\ DOMAIN c.leafs = 1..m
      /\ c.max \in Nat /\ c.junk \in BOOLEAN
  BY DEF CsvTypes
<1>2. r \in Nat
  BY <1>1, SizesAssumption
<1>3. g = [[c EXCEPT !.max = r] EXCEPT !.leafs = l]
  <2>1. Csv!WithRoom(c) = [c EXCEPT !.max = r]
    BY <1>1 DEF Csv!WithRoom, CsvTypes
  <2> QED BY <1>1, <2>1 DEF Csv!AddedLeaf, CsvTypes
<1>4. x \in Leafs /\ x.name = name
  BY <1>1 DEF Csv!Leaf, Leafs, Cells, Csv!FreshHas
<1> HIDE DEF x, r, g
<1>5. l \in Seq(Leafs) /\ Len(l) = m + 1 /\ l[m + 1] = x /\ \A i \in 1..m : l[i] = c.leafs[i]
  BY <1>1, <1>4
<1> HIDE DEF l
<1>6. /\ g \in CsvTypes /\ g.leafs = l /\ g.leafsDone = c.leafsDone /\ g.written = c.written
      /\ g.data = c.data /\ g.recording = c.recording /\ g.path = c.path
  BY <1>1, <1>2, <1>3, <1>5 DEF CsvTypes
<1> QED BY <1>4, <1>5, <1>6 DEF g, Out

LEMMA SetAdded ==
    ASSUME NEW c \in CsvTypes, NEW name \in Labels, Csv!LeafNumbers(c, name) = {}, NEW v \in Nat
    PROVE  DataSet(c, Csv!SetLeaf(Csv!AddedLeaf(c, name), name, v), name, v)
<1> DEFINE d == Csv!AddedLeaf(c, name)
           g == Csv!SetLeaf(d, name, v)
           m == Len(c.leafs)
<1>1. /\ d \in CsvTypes /\ Out(d) = Out(c) /\ d.leafsDone = c.leafsDone /\ d.path = c.path
      /\ d.recording = c.recording /\ Len(d.leafs) = m + 1 /\ d.leafs[m + 1].name = name
      /\ \A i \in 1..m : d.leafs[i] = c.leafs[i]
  BY AddedColumn
<1>2. m \in Nat /\ c.leafs \in Seq(Leafs) /\ d.leafs \in Seq(Leafs) /\ DOMAIN c.leafs = 1..m
  BY <1>1 DEF CsvTypes
<1> HIDE DEF d, m
<1>3. m + 1 \in Csv!LeafNumbers(d, name)
  BY <1>1, <1>2 DEF Csv!LeafNumbers
<1>4. DataSet(d, g, name, v)
  BY <1>1, <1>3, SetRow
<1> HIDE DEF g
<1>5. \A i \in 1..(m + 1) : i \in 1..m \/ i = m + 1
  BY <1>2
<1>6. m + 1 \in 1..(m + 1) /\ m + 1 \notin 1..m /\ \A i \in 1..m : i \in 1..(m + 1)
  BY <1>2
<1>7. \A x : Column(d, x) <=> Column(c, x) \/ x = name
  BY <1>1, <1>5, <1>6 DEF Column, m
<1>8. \A i \in 1..m : c.leafs[i].name # name
  BY <1>2 DEF Csv!LeafNumbers
<1>9. \A i \in 1..m : Csv!Row(d)[i] = Csv!Row(c)[i]
  <2>1. \A i \in 1..m : Csv!Row(c)[i] = IF c.leafs[i].has THEN c.leafs[i].cell ELSE NoCell
    BY LineTypes DEF m
  <2>2. \A i \in 1..(m + 1) : Csv!Row(d)[i] = IF d.leafs[i].has THEN d.leafs[i].cell ELSE NoCell
    BY <1>1, LineTypes
  <2> QED BY <1>1, <1>6, <2>1, <2>2
<1>10. PICK j \in 1..Len(g.leafs) :
          /\ Csv!Row(g)[j] = v
          /\ Column(d, name) => j \in 1..(m + 1)
          /\ \A i \in 1..(m + 1) : i \in 1..Len(g.leafs)
          /\ \A i \in 1..Len(g.leafs) :
                \/ i = j /\ (i \in 1..(m + 1) => d.leafs[i].name = name)
                \/ i # j /\ i \in 1..(m + 1) /\ Csv!Row(g)[i] = Csv!Row(d)[i]
  BY <1>1, <1>4 DEF DataSet
<1>11. j \in 1..(m + 1)
  BY <1>7, <1>10
<1>12. j = m + 1
  <2>1. j \in 1..m => c.leafs[j].name = name
    BY <1>1, <1>6, <1>10
  <2> QED BY <1>5, <1>8, <1>11, <2>1
<1>13. ~Column(c, name)
  BY <1>8 DEF Column, m
<1> QED
  <2>1. \A i \in 1..Len(g.leafs) :
                \/ i = j /\ (i \in 1..m => c.leafs[i].name = name)
                \/ i # j /\ i \in 1..m /\ Csv!Row(g)[i] = Csv!Row(c)[i]
    <3> TAKE i \in 1..Len(g.leafs)
    <3>1. CASE i = j
      BY <1>6, <1>12, <3>1
    <3>2. CASE i # j
      <4>1. i \in 1..(m + 1) /\ Csv!Row(g)[i] = Csv!Row(d)[i]
        BY <1>10, <3>2
      <4>2. i \in 1..m
        BY <1>5, <1>12, <3>2, <4>1
      <4> QED BY <1>9, <3>2, <4>1, <4>2
    <3> QED BY <3>1, <3>2
  <2>2. \A x : Column(g, x) <=> Column(c, x) \/ x = name
    BY <1>4, <1>7 DEF DataSet
  <2>3. \A i \in 1..m : i \in 1..Len(g.leafs)
    BY <1>6, <1>10
  <2>4. DataSet(c, g, name, v)
    BY <1>1, <1>4, <1>10, <1>13, <2>1, <2>2, <2>3 DEF DataSet, m
  <2> QED BY <2>4 DEF g, d

LEMMA DataRow ==
    ASSUME NEW c \in CsvTypes, c.recording, NEW name \in Labels, NEW v \in Nat, NEW g,
           g = Csv!Data(c, name, v)
    PROVE  \/ DataSet(c, g, name, v) /\ (Column(c, name) \/ ~c.leafsDone)
           \/ g = c /\ ~Column(c, name) /\ c.leafsDone
<1>1. c.leafs \in Seq(Leafs) /\ DOMAIN c.leafs = 1..Len(c.leafs) /\ c.leafsDone \in BOOLEAN
  BY DEF CsvTypes
<1>2. Csv!LeafNumbers(c, name) = {} <=> ~Column(c, name)
  BY <1>1 DEF Csv!LeafNumbers, Column
<1>3. CASE Csv!LeafNumbers(c, name) # {}
  <2>1. g = Csv!SetLeaf(c, name, v)
    BY <1>3 DEF Csv!Data
  <2> QED BY <1>2, <1>3, <2>1, SetRow
<1>4. CASE Csv!LeafNumbers(c, name) = {} /\ ~c.leafsDone
  <2>1. g = Csv!SetLeaf(Csv!AddedLeaf(c, name), name, v)
    BY <1>4 DEF Csv!Data
  <2> QED BY <1>4, <2>1, SetAdded
<1>5. CASE Csv!LeafNumbers(c, name) = {} /\ c.leafsDone
  <2>1. g = c
    BY <1>5 DEF Csv!Data
  <2> QED BY <1>2, <1>5, <2>1
<1> QED BY <1>1, <1>3, <1>4, <1>5

LEMMA DataCollected ==
    ASSUME CellsApart, NEW k, NEW l, NEW op, NEW o, ToldIn(k, l, op, o), NEW n \in Nat,
           op.op = "field", op.value = n + 1, op.name \in Labels, NEW e, o[Len(o)].id = e,
           NEW c, CsvFollows(k, n, e, c), c.recording, Numbered(k, n), Collected(k, c, e),
           \A q \in 1..Len(k) :
               k[q].what.op \in {"field", "item"} /\ Inner(k, q) = e => k[q].what.name # op.name,
           NEW g, g = Csv!Data(c, op.name, n + 1)
    PROVE  Collected(l, g, e)
<1> DEFINE m == Len(k)
           v == n + 1
           name == op.name
<1>1. /\ m \in Nat /\ Len(l) = m + 1 /\ \A p \in 1..m : l[p] = k[p]
      /\ l[m + 1].what = op /\ m + 1 \notin 1..m /\ \A p \in 1..(m + 1) : p \in 1..m \/ p = m + 1
      /\ \A p \in 1..m : p \in 1..(m + 1)
  BY DEF ToldIn
<1>2. c \in CsvTypes /\ v \in Nat
  BY DEF CsvFollows
<1>3. ~Cut(k, e) /\ ~Cut(l, e)
  <2>1. ~Cuts(op)
    BY DEF Cuts
  <2> QED BY <2>1, CutMore DEF Collected
<1>4. FirstOf(l, e) = FirstOf(k, e) \cup {m + 1}
  BY <1>3, FirstMore
<1>5. FirstOf(k, e) \subseteq 1..m /\ \A p \in FirstOf(k, e) : k[p].what.name # name
  BY DEF FirstOf
<1>6. CASE g = c /\ ~Column(c, name) /\ c.leafsDone
  <2>1. Holders(l, Csv!Row(c)) = Holders(k, Csv!Row(c))
    BY LinesFollow, HoldersMore DEF GivesNew
  <2>2. Shown(l, c, e) = Shown(k, c, e)
    BY <1>1, <1>4, <1>5, <1>6 DEF Shown
  <2> QED BY <1>3, <1>6, <2>1, <2>2 DEF Collected
<1>7. CASE DataSet(c, g, name, v) /\ (Column(c, name) \/ ~c.leafsDone)
  <2>0. \A x : Column(g, x) <=> Column(c, x) \/ x = name
    BY <1>7 DEF DataSet
  <2>1. Shown(l, g, e) = Shown(k, c, e) \cup {m + 1}
    BY <1>1, <1>4, <1>5, <2>0 DEF Shown
  <2>2. PICK j \in 1..Len(g.leafs) :
          /\ Csv!Row(g)[j] = v
          /\ \A i \in 1..Len(c.leafs) : i \in 1..Len(g.leafs)
          /\ \A i \in 1..Len(g.leafs) :
                \/ i = j /\ (i \in 1..Len(c.leafs) => c.leafs[i].name = name)
                \/ i # j /\ i \in 1..Len(c.leafs) /\ Csv!Row(g)[i] = Csv!Row(c)[i]
    BY <1>7 DEF DataSet
  <2>3. Len(Csv!Row(g)) = Len(g.leafs) /\ Len(Csv!Row(c)) = Len(c.leafs)
    BY <1>2, <1>7, LineTypes DEF DataSet
  <2>4. v \notin {NoCell, JunkCell}
    BY <1>2 DEF CellsApart
  <2>5. \A p \in 1..m : ~Gave(k, p, v)
    BY <1>2 DEF Numbered
  <2>6. \A p \in 1..m : \A w : Gave(l, p, w) <=> Gave(k, p, w)
    BY <1>1 DEF Gave
  <2>7. Gave(l, m + 1, v)
    BY <1>1 DEF Gave
  <2>8. CellsKnown(Csv!Row(c), n)
    BY LinesFollow
  <2>9. \A w \in Nat : w <= n => ~Gave(l, m + 1, w)
    BY <1>1 DEF Gave
  <2> HIDE DEF v, m, name
  <2>10. \A i \in 1..Len(c.leafs), p \in 1..m :
             Csv!Row(c)[i] \notin {NoCell, JunkCell} /\ Gave(k, p, Csv!Row(c)[i]) => i # j
    <3> SUFFICES ASSUME NEW p \in 1..m, j \in 1..Len(c.leafs),
                        Csv!Row(c)[j] \notin {NoCell, JunkCell}, Gave(k, p, Csv!Row(c)[j])
                 PROVE  FALSE
      OBVIOUS
    <3>1. c.leafs[j].name = name
      BY <2>2
    <3>2. Csv!Row(c)[j] = IF c.leafs[j].has THEN c.leafs[j].cell ELSE NoCell
      BY <1>2, LineTypes
    <3>3. LeafFine(k, n, c, c.leafs[j], e)
      BY DEF CsvFollows
    <3>4. k[p].what.name = name /\ Inner(k, p) = e
      BY <3>1, <3>2, <3>3 DEF LeafFine, CellFine, m
    <3> QED BY <3>4 DEF Gave, m, name
  <2>11. ASSUME NEW p \in Holders(l, Csv!Row(g))
         PROVE  p \in Holders(k, Csv!Row(c)) \cup {m + 1}
    <3>1. PICK i \in 1..Len(g.leafs) :
              Csv!Row(g)[i] \notin {NoCell, JunkCell} /\ Gave(l, p, Csv!Row(g)[i])
      BY <2>3, <2>11 DEF Holders
    <3>2. p \in 1..(m + 1)
      BY <1>1, <2>11 DEF Holders, m
    <3>3. CASE p \in 1..m
      <4>1. i # j
        BY <2>2, <2>5, <2>6, <3>1, <3>3
      <4>2. i \in 1..Len(c.leafs) /\ Csv!Row(g)[i] = Csv!Row(c)[i]
        BY <2>2, <4>1
      <4> QED BY <2>3, <2>6, <3>1, <3>3, <4>2 DEF Holders, m
    <3> QED BY <1>1, <3>2, <3>3 DEF m
  <2>12. ASSUME NEW p \in Holders(k, Csv!Row(c))
         PROVE  p \in Holders(l, Csv!Row(g))
    <3>1. PICK i \in 1..Len(c.leafs) :
              Csv!Row(c)[i] \notin {NoCell, JunkCell} /\ Gave(k, p, Csv!Row(c)[i])
      BY <2>3, <2>12 DEF Holders
    <3>2. p \in 1..m
      BY <2>12 DEF Holders, m
    <3>3. i # j /\ i \in 1..Len(g.leafs)
      BY <2>2, <2>10, <3>1, <3>2
    <3>4. Csv!Row(g)[i] = Csv!Row(c)[i]
      BY <2>2, <3>3
    <3>5. p \in 1..Len(l)
      BY <1>1, <3>2 DEF m
    <3> QED BY <2>3, <2>6, <3>1, <3>2, <3>3, <3>4, <3>5 DEF Holders
  <2>13. m + 1 \in Holders(l, Csv!Row(g))
    <3>1. m + 1 \in 1..Len(l)
      BY <1>1 DEF m
    <3> QED BY <2>2, <2>3, <2>4, <2>7, <3>1 DEF Holders
  <2>14. Holders(l, Csv!Row(g)) = Shown(l, g, e)
    BY <2>1, <2>11, <2>12, <2>13 DEF Collected, m
  <2>15. ~g.leafsDone => Shown(l, g, e) = FirstOf(l, e)
    BY <1>4, <1>7, <2>1 DEF Collected, DataSet, m
  <2> QED BY <1>3, <2>14, <2>15 DEF Collected
<1> QED BY <1>2, <1>6, <1>7, DataRow
-----------------------------------------------------------------------------
(* Names and numbers as the document grows *)

LEMMA InnerInside ==
    ASSUME NEW k, NEW p, k[p].within \in Seq([kind : Kinds, name : Labels, id : Nat]),
           NEW e, Inner(k, p) = e, e # 0
    PROVE  Inside(k, p, e)
<1> DEFINE w == k[p].within
<1>1. w # <<>> /\ w[Len(w)].id = e
  BY DEF Inner
<1>2. Len(w) \in 1..Len(w)
  BY <1>1, EmptySeq
<1> QED BY <1>1, <1>2 DEF Inside

LEMMA IdsTold ==
    ASSUME NEW k, NEW l, NEW op, NEW o, ToldIn(k, l, op, o), NEW n \in Nat, NEW m \in Nat, n <= m,
           IdsRise(o, k, n), Elems(o)
    PROVE  \A p \in 1..Len(l) : \A e \in Nat : Inside(l, p, e) => e <= m
<1>1. /\ Len(k) \in Nat /\ Len(l) = Len(k) + 1 /\ \A p \in 1..Len(k) : l[p] = k[p]
      /\ \A e : Inside(l, Len(k) + 1, e) <=> IsOpen(o, e)
  BY DEF ToldIn
<1>2. SUFFICES ASSUME NEW p \in 1..Len(l), NEW e \in Nat, Inside(l, p, e)
               PROVE  e <= n
  OBVIOUS
<1>3. CASE p \in 1..Len(k)
  <2>1. Inside(k, p, e)
    BY <1>1, <1>2, <1>3 DEF Inside
  <2> QED BY <1>3, <2>1 DEF IdsRise
<1>4. CASE p = Len(k) + 1
  <2>1. PICK j \in 2..Len(o) : o[j].id = e
    BY <1>1, <1>2, <1>4 DEF IsOpen
  <2>2. j \in 1..Len(o)
    BY <2>1, TopFacts
  <2> QED BY <2>1, <2>2 DEF IdsRise
<1> QED BY <1>1, <1>3, <1>4

\* p has the elements of o, which may have used more names.
Uses(o, p, n) == \A i \in 1..n : p[i].id = o[i].id /\ o[i].used \subseteq p[i].used

LEMMA MemberUsed ==
    ASSUME Elems(open), NEW name, NEW o, Len(o) = Len(open),
           \A i \in 1..Len(open) : o[i].used = Using(name)[i].used
    PROVE  /\ \A i \in 1..Len(open) : open[i].used \subseteq o[i].used
           /\ name \in o[Len(open)].used
<1> DEFINE n == Len(open)
           e == [open[n] EXCEPT !.used = @ \cup {name}]
<1>1. n \in 1..n /\ open \in Seq(Elements) /\ \A i \in 1..n : open[i] \in Elements
  BY TopFacts DEF Elems
<1>2. Using(name) = [open EXCEPT ![n] = e]
  BY DEF Using
<1>3. e.used = open[n].used \cup {name}
  BY <1>1 DEF Elements
<1> HIDE DEF e
<1>4. \A i \in 1..n : Using(name)[i] = IF i = n THEN e ELSE open[i]
  BY <1>1, <1>2
<1> QED BY <1>1, <1>3, <1>4

LEMMA OpenUses ==
    ASSUME DocInv, NEW kind \in OpenKinds, NEW name \in Labels, NEW v \in Verdicts,
           NEW flags, Fits(kind, name), OpenOne(kind, name, v, flags)
    PROVE  Uses(open, open', Len(open))
<1> DEFINE n == Len(open)
           e == Element(kind, name, count + 1, v, Tentative(kind, v))
           o == Using(name)
<1>1. Elems(open) /\ n \in 1..n /\ open \in Seq(Elements)
  BY TopFacts DEF DocInv, Elems
<1>2. Len(o) = n /\ DOMAIN o = 1..n
  BY <1>1 DEF Using
<1>3. o \in Seq(Elements)
  <2>1. Keyed(open, o, Top.keys)
    BY <1>1, TopFacts, UsingIs, UsingFacts DEF Top
  <2> HIDE DEF o
  <2> QED BY <2>1 DEF Keyed, Elems
<1>4. open' = Append(o, e)
  BY DEF OpenOne
<1> HIDE DEF o, e
<1>5. \A i \in 1..n : open'[i] = o[i]
  BY <1>2, <1>3, <1>4
<1>6. \A i \in 1..n : open[i].used \subseteq o[i].used
  BY <1>1, <1>2, MemberUsed DEF o
<1>7. \A i \in 1..n : open'[i].id = open[i].id
  BY OpenEffect DEF OpenedOne, Lower, Like
<1> QED BY <1>5, <1>6, <1>7 DEF Uses

LEMMA FieldUses ==
    ASSUME DocInv, NEW name \in Fields, Field(name)
    PROVE  /\ Uses(open, open', Len(open))
           /\ name \in open'[Len(open)].used /\ name \notin open[Len(open)].used
<1> DEFINE n == Len(open)
<1>1. Elems(open) /\ n \in 1..n /\ open \in Seq(Elements)
  BY TopFacts DEF DocInv, Elems
<1>2. Keyed(open, open', IF name \in KeyFields THEN Append(Top.keys, <<name, count + 1>>)
                              ELSE Top.keys)
  BY FieldEffect
<1>3. Len(open') = n /\ \A i \in 1..n : open'[i].id = open[i].id
  <2>1. \A i \in 1..n : i \in 1..(n - 1) \/ i = n
    BY <1>1
  <2> QED BY <1>2, <2>1 DEF Keyed, Lower, Like
<1>4. \A i \in 1..n : open'[i].used = Using(name)[i].used
  BY FieldEffect
<1>5. name \notin open[n].used
  BY DEF Field, Fresh, Top
<1> QED BY <1>1, <1>3, <1>4, <1>5, MemberUsed DEF Uses

LEMMA ItemUses ==
    ASSUME DocInv, Item
    PROVE  Uses(open, open', Len(open)) /\ Top.name \in open'[Len(open)].used
<1> DEFINE n == Len(open)
<1>1. Elems(open) /\ n \in 1..n
  BY TopFacts DEF DocInv
<1>2. Len(open') = n /\ \A i \in 1..n : open'[i].id = open[i].id
  <2>1. \A i \in 1..n : i \in 1..(n - 1) \/ i = n
    BY <1>1
  <2> QED BY <2>1, ItemEffect DEF Keyed, Lower, Like
<1>3. \A i \in 1..n : open'[i].used = Using(Top.name)[i].used
  BY ItemEffect
<1> QED BY <1>1, <1>2, <1>3, MemberUsed DEF Uses

-----------------------------------------------------------------------------
(* What a step makes of an instance *)

\* Nothing can happen to an instance that gives no more fields.
LEMMA FineApart ==
    ASSUME NEW k, NEW l, NEW op, NEW o, ToldIn(k, l, op, o), Elems(o), NEW n \in Nat,
           GivesNew(op, n), NEW c, LinesKnown(c, n), NEW g, Continues(c, g), NEW e, e # 0,
           ~IsOpen(o, e) \/ Cut(k, e), Rowed(k, c, e), NEW p, IsOpen(p, e) => IsOpen(o, e)
    PROVE  (~IsOpen(p, e) \/ Cut(l, e)) /\ Rowed(l, g, e)
<1>1. Cut(k, e) => Cut(l, e)
  BY CutMore
<1>2. o[Len(o)].id # e \/ Cut(k, e)
  <2>1. SUFFICES ASSUME o[Len(o)].id = e PROVE IsOpen(o, e)
    OBVIOUS
  <2>2. Len(o) \in Nat /\ Len(o) >= 1 /\ o[1].id = 0
    BY TopFacts DEF Elems, Nested
  <2>3. Len(o) # 1
    BY <2>1, <2>2
  <2>4. Len(o) \in 2..Len(o)
    BY <2>2, <2>3
  <2> QED BY <2>1, <2>4 DEF IsOpen
<1>3. FirstOf(l, e) = FirstOf(k, e)
  BY <1>2, FirstMore
<1>4. Rowed(l, g, e)
  BY <1>3, RowedMore
<1> QED BY <1>1, <1>4

\* A row that is collected stays as it is while lists are opened and closed.
LEMMA FineKept ==
    ASSUME NEW k, NEW l, NEW op, NEW o, ToldIn(k, l, op, o), NEW n \in Nat,
           GivesNew(op, n), NEW c, CellsKnown(Csv!Row(c), n), NEW e, Collected(k, c, e),
           ~Cuts(op), op.op # "field"
    PROVE  Collected(l, c, e)
<1>1. ~Cut(l, e)
  BY CutMore DEF Collected
<1>2. FirstOf(l, e) = FirstOf(k, e)
  BY FirstMore
<1>3. \A p \in FirstOf(k, e) : l[p] = k[p]
  BY DEF FirstOf, ToldIn
<1>4. Shown(l, c, e) = Shown(k, c, e)
  BY <1>2, <1>3 DEF Shown
<1>5. Holders(l, Csv!Row(c)) = Holders(k, Csv!Row(c))
  BY HoldersMore
<1> QED BY <1>1, <1>2, <1>4, <1>5 DEF Collected

\* The recording ends.
LEMMA FineStopped ==
    ASSUME NEW k, NEW l, NEW op, NEW o, ToldIn(k, l, op, o), NEW n \in Nat,
           GivesNew(op, n), NEW id, NEW c, CsvFollows(k, n, id, c), NEW g, Stopped(c, g),
           NEW e, Collected(k, c, e), op.op # "field",
           NEW p, IsOpen(p, e) => IsOpen(o, e) /\ Cuts(op)
    PROVE  (~IsOpen(p, e) \/ Cut(l, e)) /\ Rowed(l, g, e)
<1>1. FirstOf(l, e) = FirstOf(k, e)
  BY FirstMore
<1>2. Rowed(l, g, e)
  BY <1>1, StoppedRowed
<1> QED BY <1>2, CutMore

\* A recording starts in the element that is opened.
LEMMA FineStarted ==
    ASSUME CellsApart, NEW k, NEW l, NEW op, NEW o, ToldIn(k, l, op, o), Elems(o), NEW n \in Nat,
           IdsRise(o, k, n), l \in Seq(Told), NEW id, NEW c, CsvFollows(k, n, id, c),
           ~c.recording, NEW g, g = [c EXCEPT !.recording = TRUE]
    PROVE  Collected(l, g, n + 1)
<1> DEFINE e == n + 1
<1>1. \A p \in 1..Len(l) : ~Inside(l, p, e)
  <2>0. n <= n
    OBVIOUS
  <2>1. \A p \in 1..Len(l) : \A x \in Nat : Inside(l, p, x) => x <= n
    BY <2>0, IdsTold
  <2>2. e \in Nat /\ ~(e <= n)
    OBVIOUS
  <2> HIDE DEF e
  <2>3. ASSUME NEW p \in 1..Len(l), Inside(l, p, e)
        PROVE  FALSE
    <3>1. e <= n
      BY <2>1, <2>2, <2>3
    <3> QED BY <2>2, <3>1
  <2> QED BY <2>3
<1>2. ~Cut(l, e)
  BY <1>1 DEF Cut
<1>3. FirstOf(l, e) = {}
  <2>1. \A p \in 1..Len(l) : l[p].within \in Seq([kind : Kinds, name : Labels, id : Nat])
    <3>1. \A p \in 1..Len(l) : l[p] \in Told
      OBVIOUS
    <3> QED BY <3>1 DEF Told
  <2>2. e # 0
    OBVIOUS
  <2> HIDE DEF e
  <2>3. \A p \in 1..Len(l) : Inner(l, p) # e
    BY <1>1, <2>1, <2>2, InnerInside
  <2> QED BY <2>3 DEF FirstOf
<1>4. Shown(l, g, e) = {}
  BY <1>3 DEF Shown
<1>5. c \in CsvTypes /\ g \in CsvTypes /\ g.leafs = c.leafs
  BY DEF CsvFollows, CsvTypes
<1>6. Holders(l, Csv!Row(g)) = {}
  <2>1. /\ Len(Csv!Row(g)) = Len(c.leafs)
        /\ \A i \in 1..Len(c.leafs) :
              Csv!Row(g)[i] = IF c.leafs[i].has THEN c.leafs[i].cell ELSE NoCell
    BY <1>5, LineTypes
  <2>2. \A i \in 1..Len(c.leafs) : c.leafs[i].has => c.leafs[i].cell = JunkCell
    BY DEF CsvFollows, LeafFine
  <2>3. \A i \in 1..Len(c.leafs) : Csv!Row(g)[i] \in {NoCell, JunkCell}
    BY <2>1, <2>2
  <2> QED BY <2>1, <2>3 DEF Holders
<1> QED BY <1>2, <1>3, <1>4, <1>6 DEF Collected

LEMMA RowsTyped ==
    ASSUME NEW o, Elems(o)
    PROVE  /\ RecordedAt(o) \in 1..Len(o) /\ Recorded(o) = o[RecordedAt(o)].id
           /\ o[RecordedAt(o)].kind = "instance" => IsOpen(o, Recorded(o)) /\ RecordedAt(o) \in 2..Len(o)
<1>1. Len(o) \in Nat /\ Len(o) >= 1 /\ o[1].kind = "document"
  BY TopFacts DEF Elems, Nested
<1>2. RecordedAt(o) \in 1..Len(o) /\ Recorded(o) = o[RecordedAt(o)].id
  <2>1. o[Len(o)].kind = "list" => Len(o) # 1
    BY <1>1
  <2> QED BY <1>1, <2>1 DEF RecordedAt, Recorded
<1>3. ASSUME o[RecordedAt(o)].kind = "instance"
      PROVE  RecordedAt(o) \in 2..Len(o)
  BY <1>1, <1>2, <1>3
<1> QED BY <1>2, <1>3 DEF IsOpen

\* The operations that were told before stay what they are.
LEMMA OuterTold ==
    ASSUME NEW k, NEW l, NEW op, NEW o, ToldIn(k, l, op, o), NEW p \in 1..Len(k)
    PROVE  l[p] = k[p] /\ (Outer(l, p) <=> Outer(k, p))
<1>1. l[p] = k[p]
  BY DEF ToldIn
<1> QED BY <1>1 DEF Outer

\* One step of an element that csv does not record: any operation that csv may
\* continue with.
LEMMA OthersFine ==
    ASSUME NEW k, NEW l, NEW op, NEW o, ToldIn(k, l, op, o), Elems(o), NEW n \in Nat,
           GivesNew(op, n), NEW c, LinesKnown(c, n), NEW g, Continues(c, g), NEW e \in 1..n,
           NEW u, InstanceFine(k, c, u, e), ~(c.recording /\ Recorded(u) = e),
           IsOpen(o, e) => IsOpen(u, e),
           NEW p, IsOpen(p, e) => IsOpen(o, e), ~(g.recording /\ Recorded(p) = e)
    PROVE  InstanceFine(l, g, p, e)
<1>1. (~IsOpen(u, e) \/ Cut(k, e)) /\ Rowed(k, c, e)
  BY DEF InstanceFine
<1>2. e # 0
  OBVIOUS
<1>3. (~IsOpen(p, e) \/ Cut(l, e)) /\ Rowed(l, g, e)
  BY <1>1, <1>2, FineApart
<1> QED BY <1>3 DEF InstanceFine

\* What becomes of the names that were used
LEMMA UsedTold ==
    ASSUME DocInv, NEW op, NEW o, Elems(o), KeptOne(op, o), NEW n, IdsRise(open, kept, n),
           UsedKnown(open, kept), NEW m \in Nat, m <= Len(open), Uses(open, open', m),
           op.op \in {"field", "item"} => o = open /\ op.name \in open'[Len(open)].used
    PROVE  \A q \in 1..Len(kept'), j \in 2..m :
               kept'[q].what.op \in {"field", "item"} /\ Inner(kept', q) = open'[j].id =>
                   kept'[q].what.name \in open'[j].used
<1> DEFINE w == Len(kept)
<1>1. ToldIn(kept, kept', op, o)
  BY KeptTold
<1>2. SUFFICES ASSUME NEW q \in 1..Len(kept'), NEW j \in 2..m,
                      kept'[q].what.op \in {"field", "item"}, Inner(kept', q) = open'[j].id
               PROVE  kept'[q].what.name \in open'[j].used
  OBVIOUS
<1>3. j \in 1..m /\ j \in 2..Len(open) /\ Len(open) \in 1..Len(open) /\ j \in 1..Len(open)
  BY TopFacts DEF DocInv
<1>4. open'[j].id = open[j].id /\ open[j].used \subseteq open'[j].used
  BY <1>3 DEF Uses
<1>5. CASE q \in 1..w
  <2>1. kept'[q] = kept[q]
    BY <1>1, <1>5 DEF ToldIn
  <2>2. kept[q].what.name \in open[j].used
    BY <1>2, <1>3, <1>4, <1>5, <2>1 DEF UsedKnown, Inner
  <2> QED BY <1>4, <2>1, <2>2
<1>6. CASE q = w + 1
  <2>1. kept'[q].what = op /\ Inner(kept', q) = o[Len(o)].id
    BY <1>1, <1>6 DEF ToldIn
  <2>2. o = open /\ op.name \in open'[Len(open)].used
    BY <1>2, <2>1
  <2>3. open[j].id = open[Len(open)].id
    BY <1>2, <1>4, <2>1, <2>2
  <2>4. j = Len(open)
    <3>1. j < Len(open) => open[j].id < open[Len(open)].id
      BY <1>3 DEF IdsRise
    <3>2. open[j].id \in Nat /\ j <= Len(open)
      BY <1>3, TopFacts DEF DocInv
    <3> QED BY <1>3, <2>3, <3>1, <3>2
  <2> QED BY <2>1, <2>2, <2>4
<1> QED BY <1>1, <1>5, <1>6 DEF ToldIn

-----------------------------------------------------------------------------
(* The steps *)

LEMMA OpenIds ==
    ASSUME DocInv, IdsRise(open, kept, count), UsedKnown(open, kept), NEW kind \in OpenKinds,
           NEW name \in Labels, NEW v \in Verdicts, NEW flags \in SUBSET {"dense"},
           Fits(kind, name), OpenOne(kind, name, v, flags)
    PROVE  IdsRise(open', kept', count') /\ UsedKnown(open', kept')
<1> DEFINE n == Len(open)
           op == OpenOp(kind, name, flags)
           m == count + 1
<1>1. /\ KeptOne(op, open) /\ count' = m /\ m \in Nat /\ count \in Nat /\ count <= m
  BY OpenKeeps DEF DocInv
<1>2. op.op \notin {"field", "item"}
  BY DEF OpenOp, Op, Opening, OpenKinds
<1>3. /\ Elems(open) /\ Elems(open') /\ Len(open') = n + 1 /\ open'[n + 1].id = m /\ n \in 1..n
      /\ n \in Nat
  BY OpenEffect, TopFacts DEF OpenedOne, DocInv
<1>4. Uses(open, open', n)
  BY OpenUses
<1> HIDE DEF op, n
<1>5. ToldIn(kept, kept', op, open)
  BY <1>1, <1>3, KeptTold
<1>6. \A p \in 1..Len(kept') : \A e \in Nat : Inside(kept', p, e) => e <= m
  <2> HIDE DEF m
  <2> QED BY <1>1, <1>3, <1>5, IdsTold
<1>7. \A i \in 1..(n + 1) : i \in 1..n \/ i = n + 1
  BY <1>3
<1>8. \A i \in 1..n : open'[i].id = open[i].id /\ open[i].id \in Nat /\ open[i].id <= count
  BY <1>3, <1>4, TopFacts DEF Uses, IdsRise, n
<1>9. \A i, j \in 1..(n + 1) : i < j => open'[i].id < open'[j].id
  <2>1. \A i, j \in 1..n : i < j => open'[i].id < open'[j].id
    BY <1>8 DEF IdsRise, n
  <2>2. \A i \in 1..n : open'[i].id < m
    BY <1>1, <1>8
  <2>3. \A j \in 1..(n + 1) : ~(n + 1 < j)
    BY <1>3
  <2> QED BY <1>3, <1>7, <2>1, <2>2, <2>3
<1>10. \A i \in 1..(n + 1) : open'[i].id <= m
  BY <1>1, <1>3, <1>7, <1>8
<1>11. IdsRise(open', kept', count')
  BY <1>1, <1>3, <1>6, <1>9, <1>10 DEF IdsRise
<1>12. \A q \in 1..Len(kept'), j \in 2..n :
               kept'[q].what.op \in {"field", "item"} /\ Inner(kept', q) = open'[j].id =>
                   kept'[q].what.name \in open'[j].used
  <2>1. n <= Len(open)
    BY <1>3 DEF n
  <2> QED BY <1>1, <1>2, <1>3, <1>4, <2>1, UsedTold
<1>13. \A q \in 1..Len(kept') : kept'[q].what.op \in {"field", "item"} => Inner(kept', q) # m
  <2> SUFFICES ASSUME NEW q \in 1..Len(kept'), kept'[q].what.op \in {"field", "item"},
                      Inner(kept', q) = m
               PROVE  FALSE
    OBVIOUS
  <2>1. q \in 1..Len(kept)
    BY <1>2, <1>5 DEF ToldIn
  <2>2. kept'[q] = kept[q]
    BY <1>5, <2>1 DEF ToldIn
  <2>3. m # 0 /\ ~(m <= count)
    BY <1>1
  <2>4. kept[q].within \in Seq([kind : Kinds, name : Labels, id : Nat])
    <3>1. kept[q] \in Told
      BY <2>1 DEF DocInv
    <3> QED BY <3>1 DEF Told
  <2>5. Inner(kept, q) = m
    BY <2>2 DEF Inner
  <2> HIDE DEF m
  <2>6. Inside(kept, q, m)
    BY <2>3, <2>4, <2>5, InnerInside
  <2> QED BY <1>1, <2>1, <2>3, <2>6 DEF IdsRise
<1>14. UsedKnown(open', kept')
  <2>1. \A j \in 2..(n + 1) : j \in 2..n \/ j = n + 1
    BY <1>3
  <2> QED BY <1>3, <1>12, <1>13, <2>1 DEF UsedKnown
<1> QED BY <1>11, <1>14

LEMMA GivenIds ==
    ASSUME DocInv, IdsRise(open, kept, count), UsedKnown(open, kept), NEW op,
           KeptOne(op, open), NEW keys, Keyed(open, open', keys), Uses(open, open', Len(open)),
           op.name \in open'[Len(open)].used, count' = count + 1
    PROVE  IdsRise(open', kept', count') /\ UsedKnown(open', kept')
<1> DEFINE n == Len(open)
           m == count + 1
<1>1. m \in Nat /\ count \in Nat /\ count <= m /\ count' = m
  BY DEF DocInv
<1>2. Elems(open) /\ Elems(open') /\ Len(open') = n /\ n \in Nat /\ n <= Len(open)
  BY TopFacts DEF Keyed, DocInv
<1> HIDE DEF n, m
<1>3. ToldIn(kept, kept', op, open)
  BY <1>2, KeptTold
<1>4. \A p \in 1..Len(kept') : \A e \in Nat : Inside(kept', p, e) => e <= m
  BY <1>1, <1>2, <1>3, IdsTold
<1>5. \A i \in 1..n : open'[i].id = open[i].id /\ open[i].id \in Nat /\ open[i].id <= count
  BY <1>2, TopFacts DEF Uses, IdsRise, n
<1>6. IdsRise(open', kept', count')
  <2>1. \A i, j \in 1..n : i < j => open'[i].id < open'[j].id
    BY <1>5 DEF IdsRise, n
  <2>2. \A i \in 1..n : open'[i].id <= m
    BY <1>1, <1>5
  <2> QED BY <1>1, <1>2, <1>4, <2>1, <2>2 DEF IdsRise
<1>7. UsedKnown(open', kept')
  <2>1. \A q \in 1..Len(kept'), j \in 2..n :
               kept'[q].what.op \in {"field", "item"} /\ Inner(kept', q) = open'[j].id =>
                   kept'[q].what.name \in open'[j].used
    BY <1>2, UsedTold DEF n
  <2> QED BY <1>2, <2>1 DEF UsedKnown
<1> QED BY <1>6, <1>7

LEMMA CloseIds ==
    ASSUME DocInv, IdsRise(open, kept, count), UsedKnown(open, kept), NEW op,
           KeptOne(op, Front(open)), open' = Front(open), Len(open) > 1, count' = count,
           op.op \notin {"field", "item"}
    PROVE  /\ IdsRise(open', kept', count') /\ UsedKnown(open', kept')
           /\ ToldIn(kept, kept', op, Front(open)) /\ Elems(Front(open))
           /\ \A e : IsOpen(Front(open), e) <=> IsOpen(open', e)
           /\ \A e : IsOpen(open', e) => IsOpen(open, e) /\ e # Top.id
<1> DEFINE n == Len(open)
           o == Front(open)
<1>1. count \in Nat /\ count <= count /\ count' = count
  BY DEF DocInv
<1>2. /\ Elems(open) /\ n \in Nat /\ n > 1 /\ Elems(open') /\ Len(open') = n - 1
      /\ \A i \in 1..(n - 1) : open'[i] = open[i] /\ i \in 1..n
  BY TopFacts, FrontFacts DEF DocInv
<1>3. Elems(o) /\ Len(o) = n - 1 /\ \A i \in 1..(n - 1) : o[i] = open[i]
  BY <1>2, FrontFacts
<1> HIDE DEF o
<1>4. ToldIn(kept, kept', op, o)
  <2>1. KeptOne(op, o)
    BY DEF o
  <2> QED BY <1>3, <2>1, KeptTold
<1> HIDE DEF n
<1>5. IdsRise(o, kept, count)
  <2>1. \A i, j \in 1..(n - 1) : i < j => o[i].id < o[j].id
    BY <1>2, <1>3 DEF IdsRise, n
  <2>2. \A i \in 1..(n - 1) : o[i].id <= count
    BY <1>2, <1>3 DEF IdsRise, n
  <2> QED BY <1>3, <2>1, <2>2 DEF IdsRise
<1>6. \A p \in 1..Len(kept') : \A e \in Nat : Inside(kept', p, e) => e <= count
  BY <1>1, <1>3, <1>4, <1>5, IdsTold
<1>7. IdsRise(open', kept', count')
  <2>1. \A i \in 1..(n - 1) : open'[i] = o[i]
    BY <1>2, <1>3
  <2>2. \A i, j \in 1..(n - 1) : i < j => open'[i].id < open'[j].id
    BY <1>3, <1>5, <2>1 DEF IdsRise
  <2>3. \A i \in 1..(n - 1) : open'[i].id <= count
    BY <1>3, <1>5, <2>1 DEF IdsRise
  <2> QED BY <1>1, <1>2, <1>6, <2>2, <2>3 DEF IdsRise
<1>8. UsedKnown(open', kept')
  <2>1. n - 1 \in Nat /\ n - 1 <= Len(open) /\ Uses(open, open', n - 1)
    BY <1>2 DEF Uses, n
  <2>2. KeptOne(op, o)
    BY DEF o
  <2>3. \A q \in 1..Len(kept'), j \in 2..(n - 1) :
               kept'[q].what.op \in {"field", "item"} /\ Inner(kept', q) = open'[j].id =>
                   kept'[q].what.name \in open'[j].used
    BY <1>3, <2>1, <2>2, UsedTold
  <2> QED BY <1>2, <2>3 DEF UsedKnown
<1>9. \A e : IsOpen(o, e) <=> IsOpen(open', e)
  <2>1. \A j \in 2..(n - 1) : j \in 1..(n - 1)
    BY <1>2
  <2>2. \A j \in 2..(n - 1) : open'[j] = o[j]
    BY <1>2, <1>3, <2>1
  <2> QED BY <1>2, <1>3, <2>2 DEF IsOpen
<1>10. ASSUME NEW e, IsOpen(open', e)
       PROVE  IsOpen(open, e) /\ e # Top.id
  <2>1. PICK j \in 2..(n - 1) : open'[j].id = e
    BY <1>2, <1>10 DEF IsOpen
  <2>2. j \in 1..(n - 1) /\ j \in 2..n /\ j \in 1..n /\ n \in 1..n /\ j < n
    BY <1>2
  <2>3. open[j].id = e /\ open[j].id < open[n].id /\ open[n].id \in Nat /\ open[j].id \in Nat
    BY <1>2, <2>1, <2>2, TopFacts DEF IdsRise, n
  <2> QED BY <2>2, <2>3 DEF IsOpen, Top, n
<1> QED BY <1>3, <1>4, <1>7, <1>8, <1>9, <1>10 DEF o

LEMMA OpenRows ==
    ASSUME CellsApart, DocInv, CsvInv, ~setup.filtered, RowsFollow(kept, count, csv, open),
           NEW kind \in OpenKinds, NEW name \in Labels, NEW v \in Verdicts,
           NEW flags \in SUBSET {"dense"}, Fits(kind, name), OpenOne(kind, name, v, flags)
    PROVE  RowsFollow(kept', count', csv', open')
<1> DEFINE n == Len(open)
           op == OpenOp(kind, name, flags)
           m == count + 1
           w == Len(kept)
           r == Recorded(open)
<1>1. /\ KeptOne(op, open) /\ csv' = Csv!Handle(csv, op) /\ count' = m /\ m \in Nat
      /\ count \in Nat /\ kept' \in Seq(Told)
  BY OpenKeeps DEF Tell, DocInv, KeptOne
<1>2. /\ op.name = name /\ op.value = m /\ op.op \notin {"field", "item"} /\ op.op # "field"
      /\ kind = "container" => op.op = "open_container"
      /\ kind = "instance" => op.op = "open_instance"
      /\ kind = "list" => op.op = "open_list"
      /\ kind = "leaf_list" => op.op = "open_leaf_list"
  BY DEF OpenOp, Op, Opening, OpenKinds
<1>3. /\ Elems(open) /\ Elems(open') /\ Len(open') = n + 1 /\ Lower(open, open', n)
      /\ open'[n + 1].kind = kind /\ open'[n + 1].id = m /\ n \in 1..n /\ n \in Nat
  BY OpenEffect, TopFacts DEF OpenedOne, DocInv
<1>4. /\ csv.path = <<>> /\ IdsRise(open, kept, count) /\ UsedKnown(open, kept)
      /\ csv.recording => open[RecordedAt(open)].kind = "instance"
      /\ AllFine(kept, count, csv, open)
  BY DEF RowsFollow
<1>5. CsvFollows(kept, count, r, csv) /\ csv \in CsvTypes /\ csv.recording \in BOOLEAN
  BY DEF CsvInv, CsvFollows, CsvTypes
<1>6. IdsRise(open', kept', count') /\ UsedKnown(open', kept')
  BY <1>4, OpenIds
<1> HIDE DEF op, n, m, w, r
<1>7. ToldIn(kept, kept', op, open) /\ GivesNew(op, count)
  BY <1>1, <1>2, <1>3, KeptTold DEF GivesNew
<1>8. LinesKnown(csv, count) /\ Continues(csv, csv) /\ CellsKnown(Csv!Row(csv), count)
  BY <1>1, <1>5, LinesFollow
<1>9. \A e \in 1..count : IsOpen(open', e) => IsOpen(open, e)
  <2> TAKE e \in 1..count
  <2> HAVE IsOpen(open', e)
  <2>1. PICK j \in 2..(n + 1) : open'[j].id = e
    BY <1>3 DEF IsOpen
  <2>2. j # n + 1
    BY <1>1, <1>3, <2>1 DEF m
  <2>3. j \in 2..n /\ j \in 1..n
    BY <1>3, <2>1, <2>2
  <2>4. open[j].id = e
    BY <1>3, <2>1, <2>3 DEF Lower, Like
  <2> QED BY <2>3, <2>4 DEF IsOpen, n
<1>10. Len(kept') = w + 1 /\ w \in Nat /\ \A p \in 1..(w + 1) : p \in 1..w \/ p = w + 1
  BY <1>7 DEF ToldIn, w
<1>11. \A p \in 1..w : Outer(kept', p) =>
           /\ kept'[p].what.value \in 1..count /\ kept'[p].what.value \in 1..m
           /\ InstanceFine(kept, csv, open, kept'[p].what.value)
  BY <1>1, <1>4, <1>7, OuterTold DEF AllFine, w, m
<1>12. csv.recording => IsOpen(open, r) /\ r \in 1..count
  BY <1>3, <1>4, <1>5, RowsTyped DEF CsvFollows, r
<1>13. Outer(kept', w + 1) => ~csv.recording /\ kind = "instance" /\ kept'[w + 1].what.value = m
                               /\ m \in 1..m
  <2> HAVE Outer(kept', w + 1)
  <2>1. op.op = "open_instance" /\ \A j \in 2..n : open[j].kind # "instance"
    BY <1>7 DEF ToldIn, w, n
  <2>2. csv.recording => RecordedAt(open) \in 2..n
    BY <1>3, <1>4, RowsTyped DEF n
  <2>3. kept'[w + 1].what = op
    BY <1>7 DEF ToldIn, w
  <2>4. m \in 1..m
    BY <1>1 DEF m
  <2> QED BY <1>2, <1>4, <2>1, <2>2, <2>3, <2>4 DEF OpenKinds
<1>14. Recorded(open') = (IF kind = "list" THEN r ELSE m)
       /\ open'[RecordedAt(open')].kind = (IF kind = "list" THEN open[RecordedAt(open)].kind ELSE kind)
  <2>1. CASE kind = "list"
    <3>1. open[n].kind # "list"
      BY <2>1 DEF Fits, Top, n
    <3>2. RecordedAt(open') = n /\ Recorded(open') = open'[n].id
      BY <1>3, <2>1 DEF RecordedAt, Recorded
    <3>3. RecordedAt(open) = n /\ r = open[n].id
      BY <3>1 DEF RecordedAt, Recorded, n, r
    <3> QED BY <1>3, <2>1, <3>2, <3>3 DEF Lower, Like
  <2>2. CASE kind # "list"
    BY <1>3, <2>2 DEF RecordedAt, Recorded
  <2> QED BY <2>1, <2>2
<1>15. CASE kind = "list"
  <2>1. csv' = csv
    BY <1>1, <1>2, <1>15 DEF Csv!Handle
  <2>2. ~Cuts(op)
    BY <1>2, <1>15 DEF Cuts
  <2>3. ASSUME NEW e \in 1..count, InstanceFine(kept, csv, open, e)
        PROVE  InstanceFine(kept', csv, open', e)
    <3>1. CASE csv.recording /\ r = e
      <4>1. Collected(kept, csv, e)
        BY <2>3, <3>1 DEF InstanceFine, r
      <4>2. Collected(kept', csv, e)
        BY <1>1, <1>2, <1>7, <1>8, <2>2, <4>1, FineKept
      <4> QED BY <1>14, <1>15, <3>1, <4>2 DEF InstanceFine
    <3>2. CASE ~(csv.recording /\ r = e)
      <4>1. ~(csv.recording /\ Recorded(open') = e) /\ ~(csv.recording /\ Recorded(open) = e)
        BY <1>14, <1>15, <3>2 DEF r
      <4>2. IsOpen(open', e) => IsOpen(open, e)
        BY <1>9
      <4> QED BY <1>1, <1>3, <1>7, <1>8, <2>3, <4>1, <4>2, OthersFine
    <3> QED BY <3>1, <3>2
  <2>4. AllFine(kept', m, csv, open')
    BY <1>10, <1>11, <1>13, <1>15, <2>3 DEF AllFine
  <2> QED BY <1>1, <1>4, <1>6, <1>14, <1>15, <2>1, <2>4 DEF RowsFollow
<1>16. CASE kind # "list" /\ csv.recording
  <2>1. csv' = Csv!StopRecording(csv)
    BY <1>1, <1>2, <1>16 DEF Csv!Handle, Csv!OpenLevel, OpenKinds
  <2> DEFINE g == Csv!StopRecording(csv)
  <2>2. Stopped(csv, g)
    BY <1>5, <1>16, StopRows
  <2> HIDE DEF g
  <2>3. Continues(csv, g) /\ ~g.recording /\ g.path = <<>>
    BY <1>4, <2>2 DEF Stopped
  <2>4. Cuts(op)
    BY <1>2, <1>16 DEF Cuts, OpenKinds
  <2>5. ASSUME NEW e \in 1..count, InstanceFine(kept, csv, open, e)
        PROVE  InstanceFine(kept', g, open', e)
    <3>1. CASE csv.recording /\ r = e
      <4>1. Collected(kept, csv, e)
        BY <2>5, <3>1 DEF InstanceFine, r
      <4>2. IsOpen(open', e) => IsOpen(open, e) /\ Cuts(op)
        BY <1>9, <2>4
      <4>3. (~IsOpen(open', e) \/ Cut(kept', e)) /\ Rowed(kept', g, e)
        BY <1>1, <1>2, <1>5, <1>7, <2>2, <4>1, <4>2, FineStopped
      <4> QED BY <2>3, <4>3 DEF InstanceFine
    <3>2. CASE ~(csv.recording /\ r = e)
      <4>1. ~(g.recording /\ Recorded(open') = e) /\ ~(csv.recording /\ Recorded(open) = e)
        BY <2>3, <3>2 DEF r
      <4>2. IsOpen(open', e) => IsOpen(open, e)
        BY <1>9
      <4> QED BY <1>1, <1>3, <1>7, <1>8, <2>3, <2>5, <4>1, <4>2, OthersFine
    <3> QED BY <3>1, <3>2
  <2>6. AllFine(kept', m, g, open')
    BY <1>10, <1>11, <1>13, <1>16, <2>5 DEF AllFine
  <2> QED BY <1>1, <1>6, <2>1, <2>3, <2>6 DEF RowsFollow, g
<1>17. CASE kind # "list" /\ ~csv.recording
  <2> DEFINE g == IF kind = "instance" THEN [csv EXCEPT !.recording = TRUE] ELSE csv
  <2>1. csv' = g
    <3>1. ~Csv!HasPath(csv) /\ ~Csv!Awaited(csv, name)
      BY <1>4 DEF Csv!HasPath, Csv!Awaited
    <3> QED BY <1>1, <1>2, <1>17, <3>1 DEF Csv!Handle, Csv!OpenLevel, OpenKinds
  <2>2. Continues(csv, g) /\ g.path = <<>> /\ (g.recording <=> kind = "instance")
    <3>1. CASE kind = "instance"
      <4>1. g = [csv EXCEPT !.recording = TRUE]
        BY <3>1
      <4> HIDE DEF g
      <4>2. g.written = csv.written /\ g.data = csv.data /\ g.leafs = csv.leafs
            /\ g.leafsDone = csv.leafsDone /\ g.path = csv.path /\ g.recording = TRUE
        BY <1>5, <4>1 DEF CsvTypes
      <4> QED BY <1>4, <1>8, <3>1, <4>2 DEF Continues, Out, Column
    <3>2. CASE kind # "instance"
      <4>1. g = csv
        BY <3>2
      <4> HIDE DEF g
      <4> QED BY <1>4, <1>8, <1>17, <3>2, <4>1
    <3> QED BY <3>1, <3>2
  <2>3. kind = "instance" => Collected(kept', g, m)
    <3> HAVE kind = "instance"
    <3>1. g = [csv EXCEPT !.recording = TRUE]
      OBVIOUS
    <3> HIDE DEF g
    <3> QED BY <1>1, <1>3, <1>4, <1>5, <1>7, <1>17, <3>1, FineStarted DEF m
  <2> HIDE DEF g
  <2>4. ASSUME NEW e \in 1..count, InstanceFine(kept, csv, open, e)
        PROVE  InstanceFine(kept', g, open', e)
    <3>1. ~(csv.recording /\ Recorded(open) = e)
      BY <1>17
    <3>2. ~(g.recording /\ Recorded(open') = e)
      <4>1. e # m
        BY <1>1 DEF m
      <4> QED BY <1>14, <1>17, <4>1
    <3>3. IsOpen(open', e) => IsOpen(open, e)
      BY <1>9
    <3> QED BY <1>1, <1>3, <1>7, <1>8, <2>2, <2>4, <3>1, <3>2, <3>3, OthersFine
  <2>5. kind = "instance" => InstanceFine(kept', g, open', m)
    BY <1>14, <2>2, <2>3 DEF InstanceFine
  <2>6. AllFine(kept', m, g, open')
    BY <1>10, <1>11, <1>13, <2>4, <2>5 DEF AllFine
  <2>7. g.recording => open'[RecordedAt(open')].kind = "instance"
    BY <1>14, <1>17, <2>2
  <2> QED BY <1>1, <1>6, <2>1, <2>2, <2>6, <2>7 DEF RowsFollow
<1> QED BY <1>5, <1>15, <1>16, <1>17

\* A field or an item
LEMMA GivenRows ==
    ASSUME CellsApart, DocInv, CsvInv, ~setup.filtered, RowsFollow(kept, count, csv, open),
           NEW op, op.op \in {"field", "item"}, op.value = count + 1, op.name \in Labels,
           KeptOne(op, open), Tell(op), op.op = "item" => Top.kind = "leaf_list",
           op.op = "field" => op.name \notin Top.used /\ Top.kind # "list",
           NEW keys, Keyed(open, open', keys), Uses(open, open', Len(open)),
           op.name \in open'[Len(open)].used, count' = count + 1
    PROVE  RowsFollow(kept', count', csv', open')
<1> DEFINE n == Len(open)
           m == count + 1
           w == Len(kept)
           r == Recorded(open)
<1>1. /\ csv' = Csv!Data(csv, op.name, m) /\ count' = m /\ m \in Nat /\ count \in Nat
      /\ op.value = m
  BY DEF Tell, Csv!Handle, DocInv
<1>2. /\ Elems(open) /\ Elems(open') /\ Len(open') = n /\ n \in 1..n /\ n \in Nat
      /\ Top = open[n] /\ ~Cuts(op)
      /\ \A i \in 1..n : open'[i].id = open[i].id /\ open'[i].kind = open[i].kind
  <2>1. Elems(open) /\ Elems(open') /\ Len(open') = n /\ n \in 1..n /\ n \in Nat
    BY TopFacts DEF Keyed, DocInv
  <2>2. \A i \in 1..n : i \in 1..(n - 1) \/ i = n
    BY <2>1
  <2>3. \A i \in 1..n : open'[i].id = open[i].id /\ open'[i].kind = open[i].kind
    BY <2>2 DEF Keyed, Lower, Like
  <2> QED BY <2>1, <2>3 DEF Top, Cuts
<1>3. /\ csv.path = <<>> /\ IdsRise(open, kept, count) /\ UsedKnown(open, kept)
      /\ csv.recording => open[RecordedAt(open)].kind = "instance"
      /\ AllFine(kept, count, csv, open)
  BY DEF RowsFollow
<1>4. /\ CsvFollows(kept, count, r, csv) /\ csv \in CsvTypes /\ csv.recording \in BOOLEAN
      /\ csv.leafsDone \in BOOLEAN /\ Numbered(kept, count)
  BY DEF CsvInv, CsvFollows, CsvTypes
<1>5. IdsRise(open', kept', count') /\ UsedKnown(open', kept')
  BY <1>3, GivenIds
<1> HIDE DEF n, m, w, r
<1>6. ToldIn(kept, kept', op, open) /\ GivesNew(op, count)
  BY <1>1, <1>2, KeptTold DEF GivesNew, m
<1>7. LinesKnown(csv, count) /\ Continues(csv, csv) /\ CellsKnown(Csv!Row(csv), count)
  BY <1>1, <1>4, LinesFollow
<1>8. \A e : IsOpen(open', e) <=> IsOpen(open, e)
  <2>1. \A j \in 2..n : j \in 1..n
    BY <1>2
  <2> QED BY <1>2, <2>1 DEF IsOpen, n
<1>9. /\ Recorded(open') = r /\ RecordedAt(open') = RecordedAt(open)
      /\ open'[RecordedAt(open')].kind = open[RecordedAt(open)].kind
  <2>1. RecordedAt(open') = RecordedAt(open)
    BY <1>2 DEF RecordedAt, n
  <2>2. /\ RecordedAt(open) \in 1..n /\ r = open[RecordedAt(open)].id
        /\ Recorded(open') = open'[RecordedAt(open')].id
    BY <1>2, RowsTyped DEF n, r
  <2> QED BY <1>2, <2>1, <2>2
<1>10. Len(kept') = w + 1 /\ w \in Nat /\ \A p \in 1..(w + 1) : p \in 1..w \/ p = w + 1
  BY <1>6 DEF ToldIn, w
<1>11. \A p \in 1..w : Outer(kept', p) =>
           /\ kept'[p].what.value \in 1..count /\ kept'[p].what.value \in 1..m
           /\ InstanceFine(kept, csv, open, kept'[p].what.value)
  BY <1>1, <1>3, <1>6, OuterTold DEF AllFine, w, m
<1>12. ~Outer(kept', w + 1)
  BY <1>6 DEF ToldIn, w
<1> DEFINE g == Csv!Data(csv, op.name, m)
<1>13. csv.recording => op.op = "field" /\ r = open[n].id
  <2> HAVE csv.recording
  <2>1. open[n].kind # "leaf_list"
    <3>1. open[RecordedAt(open)].kind = "instance"
      BY <1>3
    <3>2. open[n].kind = "leaf_list" => RecordedAt(open) = n
      BY DEF RecordedAt, n
    <3> QED BY <3>1, <3>2
  <2>2. op.op = "field" /\ open[n].kind # "list"
    BY <1>2, <2>1
  <2> QED BY <2>2 DEF Recorded, r, n
<1>14. /\ Continues(csv, g) /\ g.path = <<>> /\ g.recording = csv.recording
       /\ ~csv.recording => g = csv
  <2>1. CASE ~csv.recording
    <3>1. g = csv
      BY <2>1 DEF Csv!Data
    <3> HIDE DEF g
    <3> QED BY <1>3, <1>7, <2>1, <3>1
  <2>2. CASE csv.recording
    <3>1. \/ DataSet(csv, g, op.name, m) /\ (Column(csv, op.name) \/ ~csv.leafsDone)
          \/ g = csv /\ ~Column(csv, op.name) /\ csv.leafsDone
      BY <1>1, <1>4, <2>2, DataRow
    <3> HIDE DEF g
    <3>2. CASE DataSet(csv, g, op.name, m) /\ (Column(csv, op.name) \/ ~csv.leafsDone)
      <4>1. /\ Out(g) = Out(csv) /\ g.leafsDone = csv.leafsDone /\ g.path = csv.path
            /\ g.recording = csv.recording
            /\ \A x : Column(g, x) <=> Column(csv, x) \/ x = op.name
        BY <3>2 DEF DataSet
      <4> QED BY <1>3, <1>7, <2>2, <3>2, <4>1 DEF Continues
    <3>3. CASE g = csv
      BY <1>3, <1>7, <2>2, <3>3
    <3> QED BY <3>1, <3>2, <3>3
  <2> QED BY <1>4, <2>1, <2>2
<1>15. ASSUME csv.recording, NEW e, e = r, Collected(kept, csv, e)
       PROVE  Collected(kept', g, e)
  <2>1. op.op = "field" /\ open[Len(open)].id = e
    BY <1>13, <1>15 DEF n
  <2>2. \A q \in 1..Len(kept) :
            kept[q].what.op \in {"field", "item"} /\ Inner(kept, q) = e => kept[q].what.name # op.name
    <3>1. e = open[n].id /\ n \in 2..n
      <4>1. RecordedAt(open) = n
        <5>1. open[n].kind # "list"
          BY <1>2, <2>1
        <5> QED BY <5>1 DEF RecordedAt, n
      <4> QED BY <1>2, <1>3, <1>15, <2>1, <4>1, RowsTyped DEF n
    <3>2. \A q \in 1..Len(kept) :
            kept[q].what.op \in {"field", "item"} /\ Inner(kept, q) = e => kept[q].what.name \in open[n].used
      BY <1>3, <3>1 DEF UsedKnown, n
    <3> QED BY <1>2, <2>1, <3>2
  <2>3. CsvFollows(kept, count, e, csv)
    BY <1>4, <1>15
  <2>4. g = Csv!Data(csv, op.name, count + 1) /\ op.value = count + 1
    BY DEF m
  <2> HIDE DEF g
  <2> QED BY <1>1, <1>4, <1>6, <1>15, <2>1, <2>2, <2>3, <2>4, DataCollected
<1> HIDE DEF g
<1>16. ASSUME NEW e \in 1..count, InstanceFine(kept, csv, open, e)
       PROVE  InstanceFine(kept', g, open', e)
  <2>1. CASE csv.recording /\ r = e
    <3>1. Collected(kept, csv, e)
      BY <1>16, <2>1 DEF InstanceFine, r
    <3>2. Collected(kept', g, e)
      BY <1>15, <2>1, <3>1
    <3> QED BY <1>9, <1>14, <2>1, <3>2 DEF InstanceFine
  <2>2. CASE ~(csv.recording /\ r = e)
    <3>1. ~(g.recording /\ Recorded(open') = e) /\ ~(csv.recording /\ Recorded(open) = e)
      BY <1>9, <1>14, <2>2 DEF r
    <3>2. IsOpen(open', e) => IsOpen(open, e)
      BY <1>8
    <3> QED BY <1>1, <1>2, <1>6, <1>7, <1>14, <1>16, <3>1, <3>2, OthersFine
  <2> QED BY <2>1, <2>2
<1>17. AllFine(kept', m, g, open')
  BY <1>10, <1>11, <1>12, <1>16 DEF AllFine
<1>18. g.recording => open'[RecordedAt(open')].kind = "instance"
  BY <1>3, <1>9, <1>14
<1>19. csv' = g
  BY <1>1 DEF g
<1> QED BY <1>1, <1>5, <1>14, <1>17, <1>18, <1>19 DEF RowsFollow

LEMMA CloseRows ==
    ASSUME DocInv, CsvInv, ~setup.filtered, RowsFollow(kept, count, csv, open), Close
    PROVE  RowsFollow(kept', count', csv', open')
<1> DEFINE n == Len(open)
           op == CloseOp
           w == Len(kept)
           r == Recorded(open)
           o == Front(open)
<1>1. /\ Elems(open) /\ Elems(open') /\ Len(open') = n - 1 /\ n > 1 /\ n \in Nat
      /\ \A i \in 1..(n - 1) : open'[i] = open[i]
      /\ open' = Front(open)
  <2>1. open' = Front(open) /\ Elems(open) /\ n > 1
    BY CloseEffect DEF ClosedOne, DocInv, Close
  <2> QED BY <2>1, FrontFacts, TopFacts
<1>2. ~Top.tentative /\ Top.kind \in OpenKinds /\ Top = open[n]
  <2>1. n \in 2..n /\ n \in 1..n
    BY <1>1
  <2> QED BY <1>1, <2>1 DEF Elems, Nested, Top, DocInv
<1>3. csv' = Csv!Handle(csv, op) /\ KeptOne(op, o) /\ count' = count /\ count \in Nat
  BY <1>2, CloseKeeps DEF Tell, DocInv
<1>4. /\ op.op \notin {"field", "item", "open_instance"} /\ ~Cuts(op) /\ op.op # "field"
      /\ Top.kind = "container" => op.op = "close_container"
      /\ Top.kind = "instance" => op.op = "close_instance"
      /\ Top.kind = "list" => op.op = "close_list"
      /\ Top.kind = "leaf_list" => op.op = "close_leaf_list"
  BY <1>2 DEF CloseOp, Op, Closing, OpenKinds, Cuts
<1>5. /\ csv.path = <<>> /\ IdsRise(open, kept, count) /\ UsedKnown(open, kept)
      /\ csv.recording => open[RecordedAt(open)].kind = "instance"
      /\ AllFine(kept, count, csv, open)
  BY DEF RowsFollow
<1>6. CsvFollows(kept, count, r, csv) /\ csv \in CsvTypes /\ csv.recording \in BOOLEAN
  BY DEF CsvInv, CsvFollows, CsvTypes
<1> HIDE DEF op
<1>7. /\ IdsRise(open', kept', count') /\ UsedKnown(open', kept')
      /\ ToldIn(kept, kept', op, o) /\ Elems(o)
      /\ \A e : IsOpen(o, e) <=> IsOpen(open', e)
      /\ \A e : IsOpen(open', e) => IsOpen(open, e) /\ e # Top.id
  BY <1>1, <1>3, <1>4, <1>5, CloseIds
<1> HIDE DEF n, w, r, o
<1>8. GivesNew(op, count)
  BY <1>4 DEF GivesNew
<1>9. LinesKnown(csv, count) /\ Continues(csv, csv) /\ CellsKnown(Csv!Row(csv), count)
  BY <1>3, <1>6, LinesFollow
<1>10. Len(kept') = w + 1 /\ w \in Nat /\ \A p \in 1..(w + 1) : p \in 1..w \/ p = w + 1
  BY <1>7 DEF ToldIn, w
<1>11. \A p \in 1..w : Outer(kept', p) =>
           /\ kept'[p].what.value \in 1..count
           /\ InstanceFine(kept, csv, open, kept'[p].what.value)
  BY <1>5, <1>7, OuterTold DEF AllFine, w
<1>12. ~Outer(kept', w + 1)
  BY <1>4, <1>7 DEF ToldIn, w
<1>13. CASE Top.kind = "list"
  <2>1. csv' = csv
    BY <1>3, <1>4, <1>13 DEF Csv!Handle
  <2>2. open[n - 1].kind # "list"
    <3>1. n \in 2..n
      BY <1>1
    <3> QED BY <1>1, <1>2, <1>13, <3>1 DEF Elems, Nested, n
  <2>3. /\ Recorded(open') = r
        /\ open'[RecordedAt(open')].kind = open[RecordedAt(open)].kind
    <3>1. n - 1 \in 1..(n - 1)
      BY <1>1
    <3>2. RecordedAt(open') = n - 1 /\ Recorded(open') = open[n - 1].id
      BY <1>1, <2>2, <3>1 DEF RecordedAt, Recorded
    <3>3. RecordedAt(open) = n - 1 /\ r = open[n - 1].id
      BY <1>2, <1>13 DEF RecordedAt, Recorded, n, r
    <3> QED BY <1>1, <3>1, <3>2, <3>3
  <2>4. ASSUME NEW e \in 1..count, InstanceFine(kept, csv, open, e)
        PROVE  InstanceFine(kept', csv, open', e)
    <3>1. CASE csv.recording /\ r = e
      <4>1. Collected(kept, csv, e)
        BY <2>4, <3>1 DEF InstanceFine, r
      <4>2. Collected(kept', csv, e)
        BY <1>3, <1>4, <1>7, <1>8, <1>9, <4>1, FineKept
      <4> QED BY <2>3, <3>1, <4>2 DEF InstanceFine
    <3>2. CASE ~(csv.recording /\ r = e)
      <4>1. ~(csv.recording /\ Recorded(open') = e) /\ ~(csv.recording /\ Recorded(open) = e)
        BY <2>3, <3>2 DEF r
      <4>2. (IsOpen(open', e) => IsOpen(o, e)) /\ (IsOpen(o, e) => IsOpen(open, e))
        BY <1>7
      <4> QED BY <1>3, <1>7, <1>8, <1>9, <2>4, <4>1, <4>2, OthersFine
    <3> QED BY <3>1, <3>2
  <2>5. AllFine(kept', count, csv, open')
    BY <1>10, <1>11, <1>12, <2>4 DEF AllFine
  <2> QED BY <1>3, <1>5, <1>7, <2>1, <2>3, <2>5 DEF RowsFollow
<1>14. CASE Top.kind # "list"
  <2>1. csv' = Csv!CloseLevel(csv, op.name)
    BY <1>2, <1>3, <1>4, <1>14 DEF Csv!Handle, OpenKinds
  <2> DEFINE g == IF csv.recording THEN Csv!StopRecording(csv) ELSE csv
  <2>2. Continues(csv, g) /\ ~g.recording /\ g.path = <<>> /\ (csv.recording => Stopped(csv, g))
    <3>1. CASE csv.recording
      <4>1. g = Csv!StopRecording(csv)
        BY <3>1
      <4>2. Stopped(csv, Csv!StopRecording(csv))
        BY <1>6, <3>1, StopRows
      <4> HIDE DEF g
      <4> QED BY <1>5, <4>1, <4>2 DEF Stopped
    <3>2. CASE ~csv.recording
      <4>1. g = csv
        BY <3>2
      <4> HIDE DEF g
      <4> QED BY <1>5, <1>9, <3>2, <4>1
    <3> QED BY <3>1, <3>2
  <2> HIDE DEF g
  <2>3. csv' = g
    <3>1. ~Csv!Entered(g, op.name)
      BY <2>2 DEF Csv!Entered, Csv!HasPath
    <3> QED BY <2>1, <3>1 DEF Csv!CloseLevel, g
  <2>4. r = Top.id
    BY <1>2, <1>14 DEF Recorded, r, n
  <2>5. ASSUME NEW e \in 1..count, InstanceFine(kept, csv, open, e)
        PROVE  InstanceFine(kept', g, open', e)
    <3>1. CASE csv.recording /\ r = e
      <4>1. Collected(kept, csv, e)
        BY <2>5, <3>1 DEF InstanceFine, r
      <4>2. IsOpen(open', e) => IsOpen(o, e) /\ Cuts(op)
        BY <1>7, <2>4, <3>1
      <4>3. (~IsOpen(open', e) \/ Cut(kept', e)) /\ Rowed(kept', g, e)
        BY <1>3, <1>4, <1>6, <1>7, <1>8, <2>2, <3>1, <4>1, <4>2, FineStopped
      <4> QED BY <2>2, <4>3 DEF InstanceFine
    <3>2. CASE ~(csv.recording /\ r = e)
      <4>1. ~(g.recording /\ Recorded(open') = e) /\ ~(csv.recording /\ Recorded(open) = e)
        BY <2>2, <3>2 DEF r
      <4>2. (IsOpen(open', e) => IsOpen(o, e)) /\ (IsOpen(o, e) => IsOpen(open, e))
        BY <1>7
      <4> QED BY <1>3, <1>7, <1>8, <1>9, <2>2, <2>5, <4>1, <4>2, OthersFine
    <3> QED BY <3>1, <3>2
  <2>6. AllFine(kept', count, g, open')
    BY <1>10, <1>11, <1>12, <2>5 DEF AllFine
  <2> QED BY <1>3, <1>7, <2>2, <2>3, <2>6 DEF RowsFollow
<1> QED BY <1>13, <1>14

LEMMA FlushRows ==
    ASSUME NEW k, NEW n, NEW c, NEW o, RowsFollow(k, n, c, o), NEW g, FlushedAs(c, g)
    PROVE  RowsFollow(k, n, g, o)
<1>1. /\ g.leafs = c.leafs /\ Out(g) = Out(c) /\ g.leafsDone = c.leafsDone /\ g.path = c.path
      /\ g.recording = c.recording
  BY DEF FlushedAs, SameTable
<1>2. Csv!Row(g) = Csv!Row(c) /\ \A name : Column(g, name) <=> Column(c, name)
  BY <1>1 DEF Csv!Row, Column
<1>3. \A e : Shown(k, g, e) = Shown(k, c, e)
  BY <1>2 DEF Shown
<1>4. \A e : (Rowed(k, g, e) <=> Rowed(k, c, e)) /\ (Collected(k, g, e) <=> Collected(k, c, e))
  BY <1>1, <1>2, <1>3 DEF Rowed, Collected, HasRow
<1>5. \A e : InstanceFine(k, g, o, e) <=> InstanceFine(k, c, o, e)
  BY <1>1, <1>4 DEF InstanceFine
<1> QED BY <1>1, <1>5 DEF RowsFollow, AllFine

LEMMA RowsInit ==
    ASSUME Init
    PROVE  RowsInv
<1>1. setup \in Setups /\ kept = <<>> /\ count = 0 /\ csv = Csv!Created(setup.csv, setup.junk)
      /\ Len(open) = 1 /\ open[1].id = 0
  BY DEF Init, Document
<1>2. NewCsv(csv) /\ csv.path = setup.csv.path
  <2>1. /\ setup.csv.path \in Seq(Containers \cup Lists \cup LeafLists)
        /\ setup.csv.leafs \in Seq(Fields)
        /\ setup.csv.flushes \in BOOLEAN /\ setup.csv.noHeader \in BOOLEAN /\ setup.junk \in BOOLEAN
    BY <1>1, SetupFacts
  <2>2. setup.csv.path \in Seq(Labels) /\ setup.csv.leafs \in Seq(Labels)
    <3>1. \A S, T : S \subseteq T => Seq(S) \subseteq Seq(T)
      OBVIOUS
    <3>2. Containers \cup Lists \cup LeafLists \subseteq Labels /\ Fields \subseteq Labels
      BY DEF Labels
    <3> QED BY <2>1, <3>1, <3>2
  <2> QED BY <1>1, <2>1, <2>2, CreatedCsv
<1>3. ~csv.recording /\ Len(kept) = 0
  BY <1>1, <1>2 DEF NewCsv
<1>4. Len(open) = 1 /\ open[1].id = 0
  BY <1>1
<1>5. IdsRise(open, kept, count)
  <2>1. \A i \in 1..1 : i = 1
    OBVIOUS
  <2> QED BY <1>1, <1>3, <1>4, <2>1 DEF IdsRise
<1>6. UsedKnown(open, kept) /\ AllFine(kept, count, csv, open)
  BY <1>3 DEF UsedKnown, AllFine
<1> QED BY <1>2, <1>3, <1>5, <1>6 DEF RowsInv, RowsFollow

LEMMA RowsStep ==
    ASSUME CellsApart, DocInv, CsvInv, RowsInv, [Next]_vars
    PROVE  RowsInv'
<1>1. CASE UNCHANGED vars
  <2>1. UNCHANGED <<setup, kept, count, csv, open>>
    BY <1>1 DEF vars
  <2>2. RowsFollow(kept', count', csv', open') <=> RowsFollow(kept, count, csv, open)
    BY <2>1
  <2> QED BY <2>1, <2>2 DEF RowsInv
<1>2. CASE Next
  <2>1. setup' = setup
    BY <1>2, Steps DEF OpenOne, Field, Item, Close, Skip, Flush, Finish, Still
  <2>2. SUFFICES ASSUME ~setup.filtered, RowsFollow(kept, count, csv, open)
                 PROVE  RowsFollow(kept', count', csv', open')
    BY <2>1 DEF RowsInv
  <2>3. ASSUME NEW kind \in OpenKinds, NEW name \in Labels, NEW v \in Verdicts,
               NEW flags \in SUBSET {"dense"}, Fits(kind, name), OpenOne(kind, name, v, flags)
        PROVE  RowsFollow(kept', count', csv', open')
    BY <2>2, <2>3, OpenRows
  <2>4. ASSUME NEW name \in Fields, Field(name)
        PROVE  RowsFollow(kept', count', csv', open')
    <3> DEFINE op == FieldOp(name)
    <3>1. KeptOne(op, open) /\ Tell(op) /\ count' = count + 1
      BY <2>2, <2>4, FieldKeeps, FieldEffect
    <3>2. op.op = "field" /\ op.value = count + 1 /\ op.name = name /\ op.name \in Labels
      BY DEF FieldOp, Op, Labels
    <3>3. Top.kind # "list" /\ name \notin Top.used
      BY <2>4 DEF Field, Holds, Fresh
    <3>4. PICK keys : Keyed(open, open', keys)
      BY <2>4, FieldEffect
    <3>5. Uses(open, open', Len(open)) /\ name \in open'[Len(open)].used
      BY <2>4, FieldUses
    <3> HIDE DEF op
    <3>6. op.op \in {"field", "item"} /\ op.op # "item"
      BY <3>2
    <3> QED BY <2>2, <3>1, <3>2, <3>3, <3>4, <3>5, <3>6, GivenRows
  <2>5. ASSUME Item
        PROVE  RowsFollow(kept', count', csv', open')
    <3> DEFINE op == ItemOp
    <3>1. KeptOne(op, open) /\ Tell(op) /\ count' = count + 1
      BY <2>2, <2>5, ItemKeeps, ItemEffect
    <3>2. op.op = "item" /\ op.value = count + 1 /\ op.name = Top.name /\ op.name \in Labels
      BY TopFacts DEF ItemOp, Op, Top, DocInv
    <3>3. Top.kind = "leaf_list"
      BY <2>5 DEF Item, Holds
    <3>4. PICK keys : Keyed(open, open', keys)
      BY <2>5, ItemEffect
    <3>5. Uses(open, open', Len(open)) /\ Top.name \in open'[Len(open)].used
      BY <2>5, ItemUses
    <3> HIDE DEF op
    <3>6. op.op \in {"field", "item"} /\ op.op # "field"
      BY <3>2
    <3> QED BY <2>2, <3>1, <3>2, <3>3, <3>4, <3>5, <3>6, GivenRows
  <2>6. ASSUME Close
        PROVE  RowsFollow(kept', count', csv', open')
    BY <2>2, <2>6, CloseRows
  <2>7. ASSUME Skip
        PROVE  FALSE
    BY <2>2, <2>7, SkipEffect
  <2> DEFINE flush == Op("flush", NoName, NoName, {})
             finish == Op("finish", NoName, NoName, {})
  <2>8. Csv!Handle(csv, flush) = Csv!Flush(csv) /\ Csv!Handle(csv, finish) = csv
    BY DEF Csv!Handle, Op
  <2>9. ASSUME Flush \/ Finish
        PROVE  RowsFollow(kept', count', csv', open')
    <3>1. csv' = Csv!Flush(csv) /\ UNCHANGED <<open, kept, count>>
      BY <2>2, <2>8, <2>9 DEF Flush, Finish, Tell
    <3>2. csv \in CsvTypes
      BY <2>2 DEF CsvInv, CsvFollows
    <3>3. FlushedAs(csv, csv')
      BY <3>1, <3>2, FlushCsv
    <3>4. RowsFollow(kept, count, csv', open)
      BY <2>2, <3>3, FlushRows
    <3>5. kept' = kept /\ count' = count /\ open' = open
      BY <3>1
    <3> QED BY <3>4, <3>5
  <2> QED BY <1>2, <2>3, <2>4, <2>5, <2>6, <2>7, <2>9, Steps
<1> QED BY <1>1, <1>2

LEMMA RowsAre ==
    ASSUME DocInv, CsvInv, RowsInv
    PROVE  RowsAreComplete
<1>1. SUFFICES ASSUME ~setup.filtered, setup.csv.path = <<>>, Len(open) = 1,
                      NEW p \in OuterInstances,
                      {q \in Leading(kept[p].what.value) :
                            kept[q].what.name \in {Names[i] : i \in DOMAIN Names}} # {}
               PROVE  \E r \in Rows :
                          {q \in Leading(kept[p].what.value) :
                                kept[q].what.name \in {Names[i] : i \in DOMAIN Names}}
                            = UNION {Given(CellsOf(r)[i]) : i \in Filled(CellsOf(r))}
  BY DEF RowsAreComplete
<1> DEFINE e == kept[p].what.value
           names == {Names[i] : i \in DOMAIN Names}
           shown == {q \in Leading(e) : kept[q].what.name \in names}
<1>2. DOMAIN kept = 1..Len(kept) /\ \A q \in 1..Len(kept) :
          kept[q].within \in Seq([kind : Kinds, name : Labels, id : Nat])
  <2>1. \A q \in 1..Len(kept) : kept[q] \in Told
    BY DEF DocInv
  <2>2. \A q \in 1..Len(kept) :
            kept[q].within \in Seq([kind : Kinds, name : Labels, id : Nat])
    BY <2>1 DEF Told
  <2>3. DOMAIN kept = 1..Len(kept)
    BY DEF DocInv
  <2> QED BY <2>2, <2>3
<1>3. \A q \in 1..Len(kept) : DOMAIN kept[q].within = 1..Len(kept[q].within)
  BY <1>2
<1>4. p \in 1..Len(kept) /\ Outer(kept, p)
  BY <1>2, <1>3 DEF OuterInstances, Outer
<1>5. csv \in CsvTypes /\ RowsFollow(kept, count, csv, open)
  BY <1>1 DEF CsvInv, CsvFollows, RowsInv
<1>6. ~csv.recording
  <2>1. Elems(open) /\ open[1].kind = "document"
    BY DEF DocInv, Elems, Nested
  <2>2. RecordedAt(open) = 1
    BY <1>1, <2>1 DEF RecordedAt
  <2> QED BY <1>5, <2>1, <2>2 DEF RowsFollow
<1>7. Rowed(kept, csv, e)
  BY <1>4, <1>5, <1>6 DEF RowsFollow, AllFine, InstanceFine
<1>8. Leading(e) = FirstOf(kept, e)
  <2>1. \A q \in 1..Len(kept) : InnermostOf(q) = Inner(kept, q)
    BY DEF InnermostOf, Inner
  <2>2. \A q \in 1..Len(kept) : InElement(q, e) <=> Inside(kept, q, e)
    BY <1>3 DEF InElement, Inside
  <2>3. \A q : Interrupts(q) <=> Cuts(kept[q].what)
    BY DEF Interrupts, Cuts
  <2>4. \A x \in 1..Len(kept) : \A q \in 1..x : q \in 1..Len(kept)
    BY DEF DocInv
  <2> HIDE DEF e
  <2> QED BY <1>2, <2>1, <2>2, <2>3, <2>4 DEF Leading, FirstOf
<1>9. \A name : name \in names <=> Column(csv, name)
  <2>1. Names = Csv!Header(csv) /\ DOMAIN Names = 1..Len(csv.leafs)
        /\ \A i \in 1..Len(csv.leafs) : Names[i] = csv.leafs[i].name
    BY <1>5, LineTypes DEF Names
  <2> QED BY <2>1 DEF Column
<1> HIDE DEF e, names
<1>10. shown = Shown(kept, csv, e)
  BY <1>8, <1>9 DEF Shown
<1>11. shown # {}
  BY <1>1 DEF e, names
<1>12. FirstOf(kept, e) # {}
  BY <1>10, <1>11 DEF Shown
<1>13. PICK r \in 1..Len(Out(csv)) :
          Out(csv)[r].line = "row" /\ Holders(kept, Out(csv)[r].cells) = Shown(kept, csv, e)
  BY <1>7, <1>10, <1>11, <1>12 DEF Rowed, HasRow
<1>14. CsvOutput = Out(csv) /\ Out(csv) \in Seq(Lines) /\ DOMAIN Out(csv) = 1..Len(Out(csv))
  <2>1. Out(csv) \in Seq(Lines)
    BY <1>5, OutTypes
  <2> QED BY <2>1 DEF CsvOutput, Out
<1>15. r \in Rows /\ CellsOf(r) = Out(csv)[r].cells
  BY <1>13, <1>14 DEF Rows, IsRow, CellsOf
<1> DEFINE cells == Out(csv)[r].cells
<1>16. DOMAIN cells = 1..Len(cells)
  <2>1. Out(csv)[r] \in Lines
    BY <1>13, <1>14
  <2> QED BY <2>1 DEF Lines
<1> HIDE DEF cells
<1>17. UNION {Given(cells[i]) : i \in Filled(cells)} = Holders(kept, cells)
  <2>1. \A x, v : x \in Given(v) <=> x \in 1..Len(kept) /\ Gave(kept, x, v)
    BY <1>2 DEF Given, Gave
  <2>2. \A i : i \in Filled(cells) <=> i \in 1..Len(cells) /\ cells[i] \notin {NoCell, JunkCell}
    BY <1>16 DEF Filled
  <2>3. \A x : x \in UNION {Given(cells[i]) : i \in Filled(cells)}
                 <=> \E i \in Filled(cells) : x \in Given(cells[i])
    OBVIOUS
  <2>4. \A x : x \in Holders(kept, cells) <=> x \in UNION {Given(cells[i]) : i \in Filled(cells)}
    BY <2>1, <2>2, <2>3 DEF Holders
  <2> QED BY <2>4
<1>18. shown = UNION {Given(CellsOf(r)[i]) : i \in Filled(CellsOf(r))}
  BY <1>10, <1>13, <1>15, <1>17 DEF cells
<1> QED BY <1>15, <1>18 DEF shown, e, names

(* No row of csv is lost or torn, for every document: once all is closed, the *)
(* fields that an outer instance gave before anything but lists was opened in *)
(* it stand in one row, as far as the table has their columns, and nothing    *)
(* else stands in that row (enc_csv.c:386, 426).  The marks of a cell that is *)
(* empty or holds junk are no values.                                         *)
THEOREM RowsCorrect ==
    ASSUME CellsApart
    PROVE  Spec => []RowsAreComplete
<1>1. Init => DocInv /\ CsvInv /\ RowsInv
  BY DocInit, CsvInit, RowsInit
<1>2. DocInv /\ CsvInv /\ RowsInv /\ [Next]_vars => (DocInv /\ CsvInv /\ RowsInv)'
  BY DocStep, CsvStep, RowsStep
<1>3. DocInv /\ CsvInv /\ RowsInv => RowsAreComplete
  BY RowsAre
<1> QED BY <1>1, <1>2, <1>3, PTL DEF Spec

=============================================================================
