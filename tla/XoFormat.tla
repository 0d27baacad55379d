------------------------------ MODULE XoFormat ------------------------------
(***************************************************************************)
(* The parser of libxo's format strings (src/libxo/xo_format.c): what      *)
(* xo_parse_fields makes of "text {role,modifiers:content/format/enc}".    *)
(*                                                                         *)
(* A format is a sequence of characters.  A word where the parser only     *)
(* tells words apart (a field's name, a keyword, a run of text) counts as  *)
(* one character.  What is pointed to by an offset into the format is the  *)
(* pair <<first, past>>.                                                   *)
(***************************************************************************)
EXTENDS Integers, Sequences, FiniteSets, SequencesExt

CONSTANTS
    MaxFields,      \* XO_MAX_FIELDS
    MaxSpecs        \* XO_MAX_SPECS

ASSUME LimitsAssumption == MaxFields \in Nat \ {0} /\ MaxSpecs \in Nat \ {0}

RoleLetters == {"C", "D", "E", "F", "G", "L", "N", "P", "T", "U", "V", "W", "[", "]"}

RoleWords ==
    [color |-> "C", decoration |-> "D", error |-> "E", format |-> "F", label |-> "L",
     note |-> "N", padding |-> "P", title |-> "T", units |-> "U", value |-> "V",
     warning |-> "W"] @@ ("start-anchor" :> "[") @@ ("stop-anchor" :> "]")

ModifierLetters ==
    [a |-> "argument", c |-> "colon", d |-> "display", e |-> "encoding",
     f |-> "first-cap", g |-> "gettext", h |-> "humanize", i |-> "int-group",
     k |-> "key", l |-> "leaf-list", n |-> "no-quotes", p |-> "plural",
     q |-> "quotes", t |-> "trim", w |-> "white"]

ModifierWords ==
    [w \in {"argument", "colon", "comma", "dense", "display", "encoding",
            "escape-private", "escape-slash", "escape-square", "first-cap", "gettext",
            "humanize", "hn-space", "hn-decimal", "hn-1000", "int-group", "key",
            "leaf-list", "no-quotes", "plural", "quotes", "trim", "units-attr",
            "white"} |-> w]
    @@ [hn |-> "humanize", list |-> "leaf-list", quote |-> "quotes"]
    @@ ("no-quote" :> "no-quotes")

Digits == <<"1", "2", "3", "4", "5", "6", "7", "8", "9">>

IsDigit(c) == c = "0" \/ c \in Range(Digits)

DigitValue(c) == IF c = "0" THEN 0 ELSE CHOOSE d \in DOMAIN Digits : Digits[d] = c

Conversions ==
    {"d", "i", "o", "u", "x", "X", "D", "O", "U", "e", "E", "f", "F", "g", "G",
     "a", "A", "c", "C", "s", "S", "p", "m"}

\* The roles of what is not a {...} field: text, a newline, an escaped brace.
Plain == {"+", "\n", "{"}

None == <<0, 0>>                \* XO_FOFF_NONE
Default == <<-1, -1>>           \* XO_FOFF_DEFAULT

At(f, p) == IF p \in DOMAIN f THEN f[p] ELSE ""     \* "" is the NUL at the end

Chars(base, off) ==
    IF off = Default THEN <<"%", "s">> ELSE IF off = None THEN <<>>
    ELSE SubSeq(base, off[1], off[2] - 1)

\* The first position from p on that holds one of these, or the end.
Next1(f, p, stops) ==
    CHOOSE q \in p..(Len(f) + 1) :
        /\ q = Len(f) + 1 \/ f[q] \in stops
        /\ \A o \in p..(q - 1) : f[o] \notin stops

\* The same, with a backslash taking the next character along; 0 when there is
\* no next character.
RECURSIVE Unescaped(_, _, _)
Unescaped(f, p, stops) ==
    CASE At(f, p) \in stops \cup {""} -> p
      [] At(f, p) = "\\" -> IF At(f, p + 1) = "" THEN 0 ELSE Unescaped(f, p + 2, stops)
      [] OTHER -> Unescaped(f, p + 1, stops)

-----------------------------------------------------------------------------
(* Directives: "%..." in a display or encoding format *)

\* A run of literal text, and a conversion: its character, the groups of its
\* width that are '*', and the '*'s of its "%@...@" prefix.
TextSpec == [fc |-> "+", stars |-> {}, at |-> 0]
BlankSpec == [fc |-> "", stars |-> {}, at |-> 0]

\* Reads from p the rest of a directive that ends before ep.  Without a
\* conversion character, the one that ends the format is taken for it.
RECURSIVE Directive(_, _, _, _, _)
Directive(f, p, ep, spec, dots) ==
    LET c == At(f, p) IN
    CASE p >= ep -> [spec |-> [spec EXCEPT !.fc = c], next |-> p + 1, bad |-> FALSE]
      [] c \in Conversions -> [spec |-> [spec EXCEPT !.fc = c], next |-> p + 1, bad |-> FALSE]
      [] c = "n" \/ c = "v" \/ (c = "." /\ dots = 2) ->
            [spec |-> spec, next |-> p, bad |-> TRUE]
      [] c = "." -> Directive(f, p + 1, ep, spec, dots + 1)
      [] c = "*" -> Directive(f, p + 1, ep, [spec EXCEPT !.stars = @ \cup {dots}], dots)
      [] OTHER -> Directive(f, p + 1, ep, spec, dots)

OneFormat(f, p, ep) ==
    IF At(f, p + 1) = "@"
    THEN LET close == Next1(SubSeq(f, 1, ep - 1), p + 2, {"@"})
             stars == {i \in (p + 2)..(close - 1) : f[i] = "*"}
         IN  Directive(f, close + 1, ep, [BlankSpec EXCEPT !.at = Cardinality(stars)], 0)
    ELSE Directive(f, p + 1, ep, BlankSpec, 0)

\* The directives and texts of f from p up to ep, for "room" slots; inText says
\* a run of text is open, which is kept when it ends.
RECURSIVE Fspecs(_, _, _, _, _, _), FspecsFrom(_, _, _, _, _), FspecsAfter(_, _, _, _, _)

Fspecs(f, p, ep, room, got, inText) ==
    LET escapes == \/ f[p] = "\\" /\ At(f, p + 1) /= ""
                   \/ f[p] = "%"
    IN  IF p < ep /\ (f[p] /= "%" \/ (p + 1 < ep /\ f[p + 1] = "%"))
        THEN Fspecs(f, p + (IF escapes THEN 2 ELSE 1), ep, room, got, TRUE)
        ELSE IF inText /\ Len(got) + 1 >= room THEN [list |-> <<>>, fault |-> "room"]
        ELSE FspecsFrom(f, p, ep, room, IF inText THEN Append(got, TextSpec) ELSE got)

FspecsFrom(f, p, ep, room, got) ==
    IF p >= ep THEN [list |-> got, fault |-> ""]
    ELSE IF Len(got) + 1 >= room THEN [list |-> <<>>, fault |-> "room"]
    ELSE FspecsAfter(f, ep, room, got, OneFormat(f, p, ep))

FspecsAfter(f, ep, room, got, one) ==
    IF one.bad THEN [list |-> <<>>, fault |-> "error"]
    ELSE Fspecs(f, one.next, ep, room, Append(got, one.spec), FALSE)

-----------------------------------------------------------------------------
(* Roles and modifiers: what stands between '{' and ':' *)

NoRole == [role |-> "", flags |-> {}, num |-> 0, end |-> 0]

\* Both the letter's and the number's role; a keyword's replaces any.
AddWord(r, word) ==
    IF Len(word) = 1 /\ word[1] \in DOMAIN RoleWords
    THEN [r EXCEPT !.role = RoleWords[word[1]]]
    ELSE IF Len(word) = 1 /\ word[1] \in DOMAIN ModifierWords
    THEN [r EXCEPT !.flags = @ \cup {ModifierWords[word[1]]}]
    ELSE r                              \* reported

AddLetter(r, c) ==
    LET added == IF c \in RoleLetters THEN [r EXCEPT !.role = c]
                 ELSE IF IsDigit(c) THEN [r EXCEPT !.num = (@ * 10 + DigitValue(c)) % 256]
                 ELSE IF c \in DOMAIN ModifierLetters
                      THEN [r EXCEPT !.flags = @ \cup {ModifierLetters[c]}]
                 ELSE r                 \* reported
    IN  IF added.role \in {"N", "U"} THEN [added EXCEPT !.flags = @ \ {"colon"}] ELSE added

\* Where it ends is 0 when the descriptor is refused.
RECURSIVE Roles(_, _, _)
Roles(f, p, r) ==
    LET c == At(f, p) IN
    IF c \in {"", ":", "/", "}"}
    THEN [r EXCEPT !.role = IF @ = "" THEN "V" ELSE @, !.end = p]
    ELSE IF c = "\\" THEN IF At(f, p + 1) = "" THEN NoRole ELSE Roles(f, p + 2, r)
    ELSE IF c = "," THEN
        LET q == Next1(f, p + 1, {":", "/", "}", ","})
        IN  Roles(f, q, AddWord(r, SubSeq(f, p + 1, q - 1)))
    ELSE IF c \in RoleLetters /\ r.role /= "" THEN NoRole
    ELSE Roles(f, p + 1, AddLetter(r, c))

-----------------------------------------------------------------------------
(* Fields *)

\* from and next are where the field starts and the one after it; cached says
\* the directives of its format were kept when it was parsed.
Field(role, from, next) ==
    [role |-> role, flags |-> {}, num |-> 0, renum |-> 0, from |-> from, next |-> next,
     content |-> None, format |-> None, encoding |-> None,
     cached |-> FALSE, specs |-> <<>>]

Refused == Field("", 0, 0)

Offset(first, past) == IF first = past THEN None ELSE <<first, past>>

\* The role wants "%s" when the descriptor gives no format.
WantsDefault(r, content) ==
    /\ content /= None \/ "argument" \in r.flags
    /\ r.role \notin {"C", "G", "[", "]"}

\* The ends of the content, the display format and the encoding format.
EncodingEnd(f, d) == IF At(f, d) = "/" THEN Next1(f, d + 1, {"}"}) ELSE d
FormatEnd(f, c) == IF At(f, c) = "/" THEN Unescaped(f, c + 1, {"/", "}"}) ELSE c
ContentEnd(f, r) == IF At(f, r.end) = ":" THEN Unescaped(f, r.end + 1, {"/", "}"}) ELSE 0

EndsAfter(f, c, d) == [content |-> c, format |-> d, encoding |-> EncodingEnd(f, d)]
EndsFrom(f, c) == EndsAfter(f, c, FormatEnd(f, c))

FormatOf(r, ends) ==
    IF ends.format > ends.content THEN <<ends.content + 1, ends.format>>
    ELSE IF WantsDefault(r, Offset(r.end + 1, ends.content)) THEN Default
    ELSE None

\* Without a format, or with more directives than there is room for, none are
\* kept.
Directives(f, format, room) ==
    IF format = None THEN [list |-> <<>>, fault |-> "room"]
    ELSE IF format = Default THEN Fspecs(Chars(f, format), 1, 3, room, <<>>, FALSE)
    ELSE Fspecs(f, format[1], format[2], room, <<>>, FALSE)

\* A format parsed where it is needed, with the room xo_do_format_field gives it.
Parsed(base, off) ==
    Directives(base, off, IF off = Default THEN 4 ELSE off[2] - off[1] + 2).list

DescriptorField(f, p, r, ends, format, parse) ==
    IF parse.fault = "error" THEN Refused
    ELSE [Field(r.role, p + 1, ends.encoding + 1) EXCEPT
            !.flags = r.flags, !.num = r.num, !.format = format,
            !.content = Offset(r.end + 1, ends.content),
            !.encoding = IF ends.encoding > ends.format
                         THEN Offset(ends.format + 1, ends.encoding) ELSE None,
            !.cached = parse.fault = "", !.specs = parse.list]

DescriptorWith(f, p, room, r, ends, format) ==
    IF \/ r.end = 0 \/ ends.content = 0 \/ ends.format = 0
       \/ At(f, ends.encoding) /= "}"
    THEN Refused
    ELSE DescriptorField(f, p, r, ends, format, Directives(f, format, room))

DescriptorOf(f, p, room, r, ends) == DescriptorWith(f, p, room, r, ends, FormatOf(r, ends))
DescriptorFrom(f, p, room, r) == DescriptorOf(f, p, room, r, EndsFrom(f, ContentEnd(f, r)))

\* A descriptor whose '{' is at p.
Descriptor(f, p, room) == DescriptorFrom(f, p, room, Roles(f, p + 1, NoRole))

EscapedBrace(f, p) ==
    LET ends == {q \in (p + 2)..(Len(f) - 1) : f[q] = "}" /\ f[q + 1] = "}"}
    IN  IF ends = {} THEN Refused ELSE Field("{", p + 1, Min(ends) + 2)

FieldAt(f, p, room) ==
    IF f[p] = "\n" THEN Field("\n", p, p + 1)
    ELSE IF f[p] /= "{" THEN
        LET q == Next1(f, p, {"{", "\n"})
        IN  [Field("+", p, q) EXCEPT !.content = <<p, q>>]
    ELSE IF At(f, p + 1) = "{" THEN EscapedBrace(f, p)
    ELSE Descriptor(f, p, room)

\* The slots a field's directives take, with the empty one that ends them.
Slots(field) == IF field.cached THEN Len(field.specs) + 1 ELSE 0

RECURSIVE FieldsFrom(_, _, _, _, _), FieldsAfter(_, _, _, _, _, _)

FieldsFrom(f, p, fields, slots, limits) ==
    IF p > Len(f) \/ Len(fields) = limits.fields
    THEN [fields |-> fields, slots |-> slots, end |-> p, bad |-> FALSE]
    ELSE FieldsAfter(f, p, fields, slots, limits, FieldAt(f, p, limits.specs - slots))

FieldsAfter(f, p, fields, slots, limits, field) ==
    IF field = Refused
    THEN [fields |-> fields, slots |-> slots, end |-> p, bad |-> TRUE]
    ELSE FieldsFrom(f, field.next, Append(fields, field), slots + Slots(field), limits)

\* Explicit field numbers: what has none takes its place in the list for one,
\* and no two of the first 64 may have the same.
Numbered(fields) ==
    IF \A i \in DOMAIN fields : fields[i].num = 0 \/ fields[i].role \in Plain THEN fields
    ELSE [i \in DOMAIN fields |->
            IF fields[i].num = 0 THEN [fields[i] EXCEPT !.num = i] ELSE fields[i]]

NumbersClash(fields) ==
    \/ \E i \in DOMAIN fields : fields[i].num > Len(fields)
    \/ \E i, j \in DOMAIN fields :
            i /= j /\ fields[i].num = fields[j].num /\ fields[i].num \in 1..64

Capped(n, cap) == IF n > cap THEN cap ELSE n

\* Mutant: newlines, which are fields of their own, are not counted.
CountBraces(f) ==
    LET braces == Cardinality({p \in DOMAIN f : f[p] = "{"})
        percents == Cardinality({p \in DOMAIN f : f[p] = "%"})
        fields == (braces + 1) * 2 + 1
    IN  [fields |-> Capped(fields, MaxFields),
         specs |-> Capped(2 * (percents + 1) + fields, MaxSpecs)]

\* How many fields and directives there can be, before any is parsed.
CountFields(f) ==
    LET braces == Cardinality({p \in DOMAIN f : f[p] \in {"{", "\n"}})
        percents == Cardinality({p \in DOMAIN f : f[p] = "%"})
        fields == (braces + 1) * 2 + 1
    IN  [fields |-> Capped(fields, MaxFields),
         specs |-> Capped(2 * (percents + 1) + fields, MaxSpecs)]

Checked(parse) == [parse EXCEPT !.bad = @ \/ NumbersClash(parse.fields)]

ParseFields(f, limits) ==
    LET Numbering(parse) == Checked([parse EXCEPT !.fields = Numbered(@)])
    IN  Numbering(FieldsFrom(f, 1, <<>>, 0, limits))

ParseFormat(f) == ParseFields(f, CountFields(f))
=============================================================================
