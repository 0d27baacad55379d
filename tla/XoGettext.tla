------------------------------ MODULE XoGettext ------------------------------
(***************************************************************************)
(* How a message's translation is given the formats of the message it      *)
(* translates (src/libxo/libxo.c): xo_gettext_simplify_format makes the    *)
(* key of the message catalog, xo_gettext_combine_formats matches the      *)
(* fields of the two, and when their order differs the fields are rendered *)
(* in the order of the arguments and put in their places afterwards.       *)
(***************************************************************************)
EXTENDS XoFormat

\* Text, newlines, escaped braces and {G:} have no number.
Unnumbered == Plain \cup {"G"}

MaxNumbered == 63       \* what fits in the 64 bits of numbers in use

\* Fields without a number get the ones left over, in order.
FinishNumbering(fields) ==
    LET counted == {i \in DOMAIN fields : fields[i].role \notin Unnumbered}
        used == {fields[i].num : i \in counted}
        most == IF Cardinality(counted) > MaxNumbered THEN MaxNumbered ELSE Cardinality(counted)
        free == SetToSortSeq((1..most) \ used, <)
        Rank(i) == Cardinality({j \in counted : j <= i /\ fields[j].num = 0})
    IN  [i \in DOMAIN fields |->
            IF i \in counted /\ fields[i].num = 0 /\ Rank(i) <= Len(free)
            THEN [fields[i] EXCEPT !.num = free[Rank(i)]]
            ELSE fields[i]]

\* The part of the key a field becomes: no modifiers and no formats.
SimplifyField(field, base) ==
    LET content == Chars(base, field.content)
        letter == IF field.role = "V" THEN <<>> ELSE <<field.role>>
        number == IF field.num = 0 THEN <<>> ELSE <<Digits[field.num]>>
    IN  CASE field.role = "G" -> <<>>
          [] field.role = "\n" -> <<"\n">>
          [] field.role = "{" -> <<"{">> \o content \o <<"}">>
          [] field.role = "+" -> content
          [] OTHER -> <<"{">> \o letter \o number \o <<":">> \o content \o <<"}">>

Simplify(fields, this, base) ==
    FlattenSeq([i \in 1..(Len(fields) - this) |-> SimplifyField(fields[this + i], base)])

\* The first field with this number, or 0.
FindField(fields, num) ==
    LET found == {i \in DOMAIN fields : fields[i].num = num}
    IN  IF found = {} THEN 0 ELSE Min(found)

\* Mutant: the fields stay where the translation has them.
RewriteInPlace(fields) == fields

\* The fields in the order of their numbers, each remembering whose place it
\* took.
Rewrite(fields) ==
    LET Rank(i) == Cardinality({j \in 1..i : fields[j].role \notin Unnumbered}) IN
    [i \in DOMAIN fields |->
        IF fields[i].role \in Unnumbered \/ FindField(fields, Rank(i)) = 0
        THEN [fields[i] EXCEPT !.renum = 0]
        ELSE [fields[FindField(fields, Rank(i))] EXCEPT !.renum = fields[i].num]]

\* What the new field takes from the old one; its directives were parsed from
\* another string, so it has to parse them again.
CopyField(new, old) ==
    [new EXCEPT !.flags = old.flags, !.num = old.num, !.format = old.format,
                !.encoding = old.encoding, !.cached = FALSE, !.specs = <<>>]

\* The old fields before "to" and from "from" on that this value may be.
SameName(new, gt, old, fmt, from, to) ==
    {i \in from..to : old[i].role = "V" /\ Chars(fmt, old[i].content) = Chars(gt, new.content)}

\* A value is looked for from where the last one was found, then before it.
MatchValue(new, fmt, gt, old, m) ==
    LET after == SameName(new, gt, old, fmt, m.start, Len(old))
        before == SameName(new, gt, old, fmt, 1, m.start - 1)
        skips == \E i \in m.start..(IF after = {} THEN Len(old) ELSE Min(after) - 1) :
                    old[i].role = "V"
    IN  IF after /= {}
        THEN [m EXCEPT !.fields = Append(@, CopyField(new, old[Min(after)])),
                       !.start = Min(after) + 1, !.reordered = @ \/ skips]
        ELSE IF before /= {}
        THEN [m EXCEPT !.fields = Append(@, CopyField(new, old[Min(before)])),
                       !.reordered = TRUE]
        ELSE [m EXCEPT !.lost = TRUE]

\* Any other field is the next old one with its role, if no value is between.
MatchOther(new, old, m) ==
    LET same == {i \in m.start..Len(old) :
                    /\ old[i].role = new.role
                    /\ \A j \in m.start..i : old[j].role /= "V"}
    IN  [m EXCEPT !.fields = Append(@, IF same = {} THEN new ELSE CopyField(new, old[Min(same)]))]

MatchField(fmt, gt, old, m, new) ==
    IF m.lost THEN m
    ELSE IF new.role \in Plain THEN [m EXCEPT !.fields = Append(@, new)]
    ELSE IF new.role = "V" THEN MatchValue(new, fmt, gt, old, m)
    ELSE MatchOther(new, old, m)

\* The translation's fields, with the message's formats, ready to be rendered.
Combine(fmt, gt, old, new) ==
    LET numbered == FinishNumbering(old)
        m == FoldLeft(LAMBDA state, field : MatchField(fmt, gt, numbered, state, field),
                      [fields |-> <<>>, start |-> 1, reordered |-> FALSE, lost |-> FALSE],
                      new)
    IN  IF m.reordered /\ ~m.lost
        THEN [m EXCEPT !.fields = Rewrite(FinishNumbering(@))]
        ELSE m

\* Mutant: what was rendered stays in the order of the arguments.
RebuildAsRendered(fields, spans, out) == out

\* What was rendered for each field, in the order of the translation.
RebuildContent(fields, spans, out) ==
    LET Source(i) == IF fields[i].renum = 0 \/ FindField(fields, fields[i].renum) = 0
                     THEN i ELSE FindField(fields, fields[i].renum)
        Piece(i) == SubSeq(out, spans[i][1] + 1, spans[i][2])
        head == SubSeq(out, 1, spans[1][1])
    IN  head \o FlattenSeq([i \in DOMAIN fields |-> Piece(Source(i))])
=============================================================================
