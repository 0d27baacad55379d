------------------------------- MODULE XoEmit -------------------------------
(***************************************************************************)
(* One xo_emit call (src/libxo/libxo.c): xo_do_emit parses the format, and *)
(* xo_do_emit_fields renders its fields one after the other, each taking   *)
(* its arguments from the list the caller passed.  Labels, formats and     *)
(* values that a style does not show still take theirs.  A field {G:} has  *)
(* the rest of the message replaced by its translation.                    *)
(*                                                                         *)
(* What is written is a sequence of items: a literal text, a value with    *)
(* the position of the argument it shows, padding, a units attribute.      *)
(***************************************************************************)
EXTENDS XoGettext

CONSTANTS
    Pieces,         \* what formats are put together from
    Translatable,   \* those that may follow {G:}
    MaxPieces,      \* BOUND: how many of them make a format
    MaxMessage,     \* BOUND: how many of them follow {G:}
    Aligned,        \* values, units and anchors, of which longer formats are made
    MaxAligned,     \* BOUND: how many of them make a format
    Fragments,      \* pieces of formats that need not be well formed
    MaxFragments,   \* BOUND: how many of them make a format, which is only parsed
    Handles         \* the handles that emit

HandleSet ==
    [style : {"text", "html", "xml", "json", "sdparams", "encoder"},
     units : BOOLEAN,       \* XOF_UNITS
     xpath : BOOLEAN]       \* XOF_XPATH

ASSUME HandlesAssumption == Handles \subseteq HandleSet /\ Handles /= {}

VARIABLES
    phase,          \* "compose", "fields", "done" or "failed"
    parts,          \* what the format is put together from
    fmt,            \* the format
    handle,         \* the handle it is emitted with
    message,        \* the format, or its translation: what content offsets are into
    fields,         \* the fields being rendered
    field,          \* the one that comes next
    reordered,      \* the translation has its values in another order
    spans,          \* where the output of each field starts and ends
    w               \* what has been written and taken so far

vars == <<phase, parts, fmt, handle, message, fields, field, reordered, spans, w>>

\* anchor and units are 0, or 1 more than what was written when the anchor or
\* the last value's tag was opened (XOIF_ANCHOR, XOIF_UNITS_PENDING); keys are
\* the predicates built for the xpath of the values that follow; gettext says
\* {G:} was seen.
Fresh == [args |-> 0, out |-> <<>>, anchor |-> 0, units |-> 0, keys |-> {},
          gettext |-> FALSE, failures |-> FALSE]

Encodes == handle.style \in {"xml", "json", "sdparams", "encoder"}
Shows == handle.style \in {"text", "html"}

Put(s, item) == [s EXCEPT !.out = Append(@, item)]
Literal(s, chars) == IF chars = <<>> THEN s ELSE Put(s, [what |-> "text", chars |-> chars])

\* What is put where something else was written before.
Insert(s, at, item) ==
    [s EXCEPT !.out = SubSeq(@, 1, at) \o <<item>> \o SubSeq(@, at + 1, Len(@))]

-----------------------------------------------------------------------------
(* Directives *)

IsString(spec) == spec.fc \in {"s", "S", "m"}

\* Integers without '*' are not left to vsnprintf.
UseFormatInt(spec) == spec.stars = {} /\ spec.fc \in {"d", "i", "u", "o", "x", "X"}

\* What is taken to show a value: by xo_format_string or xo_format_int_text;
\* vsnprintf works on a copy of the list.
ValueTakes(spec) ==
    CASE spec.fc = "m" -> 0
      [] IsString(spec) -> 1
      [] OTHER -> IF UseFormatInt(spec) THEN 1 ELSE 0

\* xo_advance_vap: what is left to take.
AdvanceTakes(spec, skip) ==
    CASE UseFormatInt(spec) /\ ~skip -> 0
      [] spec.fc = "m" -> 0
      [] IsString(spec) -> IF skip THEN 1 ELSE 0
      [] OTHER -> Cardinality(spec.stars) + (IF spec.fc \in Conversions THEN 1 ELSE 0)

\* A "%@...@" prefix and the '*'s of a string are taken first.
Taken(spec, skip) ==
    spec.at + (IF spec.fc \in {"s", "S"} THEN Cardinality(spec.stars) ELSE 0)
            + (IF skip THEN 0 ELSE ValueTakes(spec))
            + AdvanceTakes(spec, skip)

\* A style that does not show the field skips the value and still takes its
\* arguments; literals are left out only when there is no output at all.
Skips(flags, noOutput) ==
    \/ noOutput
    \/ "encoding" \in flags /\ ~Encodes
    \/ "encoding" \notin flags /\ "display" \in flags /\ ~Shows

OneDirective(s, spec, name, flags, noOutput) ==
    LET skip == Skips(flags, noOutput)
        shown == [what |-> "value", chars |-> name, arg |-> s.args + Taken(spec, skip)]
    IN  IF spec.fc = "+"
        THEN IF noOutput THEN s ELSE Put(s, [what |-> "literal"])
        ELSE [s EXCEPT !.args = shown.arg, !.out = IF skip THEN @ ELSE Append(@, shown)]

\* xo_do_format_field: the directives of a format, one by one.
FormatField(s, specs, name, flags, noOutput) ==
    FoldLeft(LAMBDA t, spec : OneDirective(t, spec, name, flags, noOutput), s, specs)

\* The directives of the display format: those kept when it was parsed, or
\* parsed now.  Formats are always offsets into the caller's format.
Specs(f) == IF f.cached THEN f.specs ELSE Parsed(fmt, f.format)

\* A leading width is dropped for encoding styles.
FixEncoding(chars) ==
    LET k == IF At(chars, 2) = "-" THEN 3 ELSE 2
        after == CHOOSE q \in k..(Len(chars) + 1) :
                    /\ ~IsDigit(At(chars, q))
                    /\ \A o \in k..(q - 1) : IsDigit(chars[o])
    IN  IF At(chars, 1) = "%" /\ IsDigit(At(chars, k))
        THEN <<"%">> \o SubSeq(chars, after, Len(chars))
        ELSE chars

EncodingSpecs(f) ==
    IF f.encoding /= None THEN Parsed(fmt, f.encoding)
    ELSE LET chars == FixEncoding(Chars(fmt, f.format)) IN Parsed(chars, <<1, Len(chars) + 1>>)

-----------------------------------------------------------------------------
(* Roles *)

\* Mutant: the arguments are not put back.
BuildPredicateConsumes(s, f, name) ==
    LET read == FormatField([s EXCEPT !.out = <<>>], EncodingSpecs(f), name,
                            f.flags \ {"encoding"}, FALSE)
    IN  IF \E key \in s.keys : key.chars = name THEN s
        ELSE [s EXCEPT !.args = read.args, !.keys = @ \cup Range(read.out)]

\* The predicate of a key is built from the arguments of its value, which are
\* then put back for the value itself.
BuildPredicate(s, f, name) ==
    LET read == FormatField([s EXCEPT !.out = <<>>], EncodingSpecs(f), name,
                            f.flags \ {"encoding"}, FALSE)
    IN  IF \E key \in s.keys : key.chars = name THEN s
        ELSE [s EXCEPT !.keys = @ \cup Range(read.out)]

\* xo_buf_append_div of a value.
ValueDiv(s, f, name) ==
    LET keyed == "key" \in f.flags /\ "display" \notin f.flags /\ handle.xpath
        ready == IF keyed THEN BuildPredicate(s, f, name) ELSE s
        opened == IF handle.units THEN [ready EXCEPT !.units = Len(s.out) + 1] ELSE ready
    IN  IF "encoding" \in f.flags
        THEN FormatField(ready, EncodingSpecs(f), name, f.flags, TRUE)
        ELSE FormatField(opened, Specs(f), name, f.flags, FALSE)

\* xo_format_value_xml, _json, _sdparams and _encoder.
ValueEncoded(s, f, name) ==
    IF "display" \in f.flags
    THEN FormatField(s, Specs(f), name, f.flags, TRUE)
    ELSE LET opened == IF handle.style = "xml" /\ handle.units
                       THEN [s EXCEPT !.units = Len(s.out) + 1] ELSE s
         IN  FormatField(opened, EncodingSpecs(f), name, f.flags, FALSE)

FormatValue(s, f, name) ==
    CASE handle.style = "text" ->
            FormatField(s, Specs(f), name, f.flags, "encoding" \in f.flags)
      [] handle.style = "html" -> ValueDiv(s, f, name)
      [] OTHER -> ValueEncoded(s, f, name)

\* Errors and warnings are containers in the encoding styles, with a value.
IsMessage(f) == f.role \in {"E", "W"} /\ Encodes /\ handle.style /= "encoder"

\* Labels and the like: the content, or else the format's arguments, which the
\* styles that do not show them take all the same.
FormatContent(s, f, content) ==
    IF handle.style = "html" /\ "encoding" \in f.flags
    THEN FormatField(s, EncodingSpecs(f), <<>>, f.flags, TRUE)
    ELSE IF content /= <<>> THEN IF Shows \/ IsMessage(f) THEN Literal(s, content) ELSE s
    ELSE IF IsMessage(f) THEN ValueEncoded(s, f, <<"message">>)
    ELSE FormatField(s, Specs(f), <<>>, f.flags, ~Shows)

\* Titles and formats: the content may be the argument of the format.
FormatTitle(s, f, content) ==
    IF content /= <<>> THEN IF Shows THEN Literal(s, content) ELSE s
    ELSE FormatField(s, IF f.format = None THEN Parsed(fmt, Default) ELSE Specs(f),
                     <<>>, f.flags, ~Shows)

\* Units are an attribute of the last value's tag when one is open, and content
\* as well in HTML; what they show is taken once.  Units show something.
FormatUnits(s, f, content) ==
    LET attribute == "units-attr" \in f.flags
        plain == FormatContent(s, f, content)
        read == IF content /= <<>> THEN s ELSE FormatField(s, Specs(f), <<>>, f.flags, TRUE)
        inserted == Insert(read, s.units - 1, [what |-> "units"])
    IN  IF s.units = 0 THEN IF attribute THEN [plain EXCEPT !.out = s.out] ELSE plain
        ELSE IF handle.style \notin {"xml", "html"} THEN s
        ELSE IF attribute \/ handle.style = "xml" THEN inserted
        ELSE Literal(inserted, IF content = <<>> THEN <<"units">> ELSE content)

\* The width of an anchor: its content, or an argument.
FindWidth(s, f, content) ==
    IF content /= <<>> THEN s ELSE FormatField(s, Specs(f), <<>>, {}, TRUE)

AnchorStart(s, f, content) ==
    FindWidth([s EXCEPT !.anchor = Len(s.out) + 1, !.failures = @ \/ s.anchor /= 0], f, content)

\* Mutant: units after the anchor still go to the tag before its padding.
AnchorStopKeepsUnits(s, f, content, pads, left) ==
    LET closed == [FindWidth(s, f, content) EXCEPT !.anchor = 0]
        at == IF left THEN Len(s.out) ELSE s.anchor - 1
    IN  IF s.anchor = 0 THEN [s EXCEPT !.failures = TRUE]
        ELSE IF pads /\ Shows THEN Insert(closed, at, [what |-> "padding"])
        ELSE closed

\* pads: what is in the anchor is narrower than its width; left: a negative
\* width, which leaves the padding at the end.
AnchorStop(s, f, content, pads, left) ==
    LET read == FindWidth([s EXCEPT !.units = 0], f, content)
        closed == [read EXCEPT !.anchor = 0]
        at == IF left THEN Len(s.out) ELSE s.anchor - 1
    IN  IF s.anchor = 0 THEN [s EXCEPT !.failures = TRUE]
        ELSE IF pads /\ Shows THEN Insert(closed, at, [what |-> "padding"])
        ELSE closed

\* A static color does nothing in an encoding style, and there are no items for
\* the others.
FormatColors(s, f, content) ==
    IF content /= <<>> THEN s ELSE FormatField(s, Specs(f), <<>>, {}, TRUE)

-----------------------------------------------------------------------------
(* Composing a format and starting to emit it *)

Init ==
    /\ phase = "compose" /\ parts = <<>> /\ fmt = <<>>
    /\ handle = CHOOSE h \in Handles : TRUE
    /\ message = <<>> /\ fields = <<>> /\ field = 0
    /\ reordered = FALSE /\ spans = <<>> /\ w = Fresh

Add(part) ==
    /\ parts' = Append(parts, part)
    /\ fmt' = fmt \o part
    /\ UNCHANGED <<phase, handle, message, fields, field, reordered, spans, w>>

Domains == {part \in Pieces : At(part, 1) = "{" /\ At(part, 2) = "G"}

\* Values have different names; {G:} comes first, as its documentation has it,
\* and only values take arguments after it.
ComposeField(part) ==
    /\ phase = "compose" /\ part \notin Range(parts) /\ Range(parts) \subseteq Pieces
    /\ IF Range(parts) \cap Domains /= {}
       THEN part \in Translatable /\ Len(parts) <= MaxMessage
       ELSE /\ part \in Domains => parts = <<>>
            /\ \/ Len(parts) < MaxPieces
               \/ Range(parts) \cup {part} \subseteq Aligned /\ Len(parts) < MaxAligned
    /\ Add(part)

ComposeFragment(part) ==
    /\ phase = "compose" /\ Range(parts) \subseteq Fragments /\ Len(parts) < MaxFragments
    /\ Add(part)

\* Between the start of an anchor and units there is the value they are of.
UnitsNearValues(list) ==
    \A i, j \in DOMAIN list :
        i < j /\ list[i].role = "[" /\ list[j].role = "U"
            => \E k \in i..j : list[k].role = "V"

\* xo_do_emit
Emit(h) ==
    LET parse == ParseFormat(fmt) IN
    /\ phase = "compose" /\ parts /= <<>> /\ Range(parts) \subseteq Pieces
    /\ UnitsNearValues(parse.fields)
    /\ handle' = h /\ message' = fmt /\ field' = 1
    /\ fields' = parse.fields
    /\ phase' = IF parse.bad THEN "failed" ELSE "fields"
    /\ UNCHANGED <<parts, fmt, reordered, spans, w>>

-----------------------------------------------------------------------------
(* xo_do_emit_fields: the next field *)

Ready(roles) == phase = "fields" /\ field \in DOMAIN fields /\ fields[field].role \in roles

This == fields[field]

\* An 'a' modifier has its content in an argument, which is taken first and is
\* not empty: an empty one would be taken for no content at all.
Contents ==
    {IF "argument" \in This.flags THEN <<"string">> ELSE Chars(message, This.content)}

Opened ==
    LET read == IF "argument" \in This.flags THEN [w EXCEPT !.args = @ + 1] ELSE w
    IN  IF This.role \in {"N", "U"} /\ "white" \in This.flags /\ Shows
        THEN Put(read, [what |-> "padding"]) ELSE read

Closed(s) ==
    LET colon == IF "colon" \in This.flags /\ Shows
                 THEN Put(s, [what |-> "decoration"]) ELSE s
    IN  IF "white" \in This.flags /\ This.role \notin {"N", "U"} /\ Shows
        THEN Put(colon, [what |-> "padding"]) ELSE colon

\* What every field but {G:} ends with.
Rendered(s) ==
    /\ w' = s
    /\ spans' = IF reordered THEN Append(spans, <<Len(w.out), Len(s.out)>>) ELSE spans
    /\ field' = field + 1
    /\ UNCHANGED <<phase, parts, fmt, handle, message, fields, reordered>>

Newline ==
    /\ Ready({"\n"})
    /\ Rendered(IF Shows THEN Put(w, [what |-> "newline"]) ELSE w)

Text ==
    /\ Ready({"+", "{"})
    /\ LET chars == IF This.role = "+" THEN Chars(message, This.content)
                    ELSE SubSeq(message, This.from, This.next - 2)
       IN  Rendered(IF Shows THEN Literal(w, chars) ELSE w)

Value ==
    /\ Ready({"V"})
    /\ \E content \in Contents : Rendered(Closed(FormatValue(Opened, This, content)))

StartAnchor ==
    /\ Ready({"["})
    /\ \E content \in Contents : Rendered(Closed(AnchorStart(Opened, This, content)))

StopAnchor ==
    /\ Ready({"]"})
    /\ \E content \in Contents, pads, left \in BOOLEAN :
            Rendered(Closed(AnchorStop(Opened, This, content, pads, left)))

Colors ==
    /\ Ready({"C"})
    /\ \E content \in Contents : Rendered(Closed(FormatColors(Opened, This, content)))

\* Labels, decorations, errors, notes, padding and warnings; titles and
\* formats; units.  Without content and format there is nothing to render.
Content ==
    /\ Ready({"D", "E", "L", "N", "P", "W"})
    /\ \E content \in Contents :
            Rendered(Closed(IF content = <<>> /\ This.format = None THEN Opened
                            ELSE FormatContent(Opened, This, content)))

Title ==
    /\ Ready({"T", "F"})
    /\ \E content \in Contents :
            Rendered(Closed(IF content = <<>> /\ This.format = None THEN Opened
                            ELSE FormatTitle(Opened, This, content)))

Units ==
    /\ Ready({"U"})
    /\ \E content \in Contents :
            Rendered(Closed(IF content = <<>> /\ This.format = None THEN Opened
                            ELSE FormatUnits(Opened, This, content)))

-----------------------------------------------------------------------------
(* {G:}: the rest of the message in another language *)

\* xo_set_gettext_domain: the name of the domain may be an argument.
DomainRead(content) ==
    IF content /= <<>> THEN Opened
    ELSE [FormatField(Opened, Specs(This), <<>>, {}, FALSE) EXCEPT !.out = w.out]

\* Without a translation the fields go on as they are, as they do for an
\* encoding style.
Untranslated ==
    /\ Ready({"G"})
    /\ \E content \in Contents : w' = [DomainRead(content) EXCEPT !.gettext = TRUE]
    /\ field' = field + 1
    /\ UNCHANGED <<phase, parts, fmt, handle, message, fields, reordered, spans>>

\* A translation has the fields of the message in any order.
Translations ==
    LET rest == SubSeq(fields, field + 1, Len(fields)) IN
    {Simplify([i \in DOMAIN rest |-> rest[order[i]]], 0, message) :
        order \in Permutations(DOMAIN rest)}

\* The translation's fields take the place of the message's and are rendered
\* from the first on.
Translate ==
    /\ Ready({"G"}) /\ ~w.gettext /\ ~Encodes
    /\ \E content \in Contents, translation \in Translations :
        LET parse == ParseFormat(translation)
            m == Combine(fmt, translation, fields, parse.fields)
        IN  /\ ~parse.bad /\ ~m.lost
            /\ w' = [DomainRead(content) EXCEPT !.gettext = TRUE]
            /\ message' = translation
            /\ fields' = m.fields
            /\ reordered' = m.reordered
    /\ field' = 1
    /\ UNCHANGED <<phase, parts, fmt, handle, spans>>

-----------------------------------------------------------------------------

Finish ==
    /\ phase = "fields" /\ field \notin DOMAIN fields
    /\ phase' = "done"
    /\ w' = IF reordered THEN [w EXCEPT !.out = RebuildContent(fields, spans, @)] ELSE w
    /\ UNCHANGED <<parts, fmt, handle, message, fields, field, reordered, spans>>

Next ==
    \/ \E part \in Pieces : ComposeField(part)
    \/ \E part \in Fragments : ComposeFragment(part)
    \/ \E h \in Handles : Emit(h)
    \/ Newline \/ Text \/ Value \/ StartAnchor \/ StopAnchor \/ Colors
    \/ Content \/ Title \/ Units
    \/ Untranslated \/ Translate
    \/ Finish

Spec == Init /\ [][Next]_vars

-----------------------------------------------------------------------------
(* What the caller passes for the fields of its format *)

ArgsOf(f) ==
    LET Given(spec) == CASE spec.fc = "+" -> 0
                         [] spec.fc = "m" -> spec.at
                         [] OTHER -> spec.at + Cardinality(spec.stars) + 1
        shown == FoldLeft(LAMBDA n, spec : n + Given(spec), 0, Parsed(fmt, f.format))
        string == "argument" \in f.flags
    IN  IF f.role \in Plain THEN 0
        ELSE (IF string THEN 1 ELSE 0)
             + (IF f.role = "V" \/ (f.content = None /\ ~string) THEN shown ELSE 0)

ArgsUpTo(list, n) == FoldLeft(LAMBDA sum, f : sum + ArgsOf(f), 0, SubSeq(list, 1, n))

Written == ParseFormat(fmt).fields

Named(list, name) == {i \in DOMAIN list : list[i].role = "V" /\ Chars(fmt, list[i].content) = name}

-----------------------------------------------------------------------------
(* Properties *)

\* The room counted for a format before it is parsed (xo_count_fields) is
\* enough: a format that is not refused is parsed to its end, a slot is left
\* for the terminator xo_do_emit_fields looks for, and the directives of every
\* display format are kept.  Only a format past the caps may be cut short.
ParseFits ==
    phase = "compose" =>
        LET limits == CountFields(fmt)
            parse == ParseFormat(fmt)
        IN  ~parse.bad /\ limits.fields < MaxFields /\ limits.specs < MaxSpecs =>
                /\ parse.end = Len(fmt) + 1
                /\ Len(parse.fields) < limits.fields
                /\ parse.slots <= limits.specs
                /\ \A i \in DOMAIN parse.fields :
                        parse.fields[i].format /= None => parse.fields[i].cached

\* In every style, shown or skipped, translated or not, the fields take exactly
\* the arguments the caller passed for them; a field that took one less or one
\* more would shift those of all that follow.
ArgsMatch ==
    phase = "done" /\ ~w.failures => w.args = ArgsUpTo(Written, Len(Written))

\* What is shown for a value, and the key predicate made of it, is the argument
\* passed for the field of that name, in whatever order a translation has them.
ArgumentsFollow ==
    phase = "done" /\ ~w.failures =>
        \A item \in {i \in Range(w.out) : i.what = "value" /\ i.chars /= <<>>} \cup w.keys :
            \A i \in Named(Written, item.chars) :
                item.arg > ArgsUpTo(Written, i - 1) /\ item.arg <= ArgsUpTo(Written, i)

\* A translated message reads in the order of its translation, although it was
\* rendered in the order of the arguments.
ReadsAsTranslated ==
    phase = "done" /\ message /= fmt =>
        LET hidden == {Chars(fmt, f.content) : f \in {g \in Range(Written) :
                            g.role = "V" /\ "encoding" \in g.flags}}
            Read(f) == IF f.role = "V" /\ Chars(message, f.content) \in hidden THEN <<>>
                       ELSE IF f.role = "\n" THEN <<<<"\n">>>>
                       ELSE <<Chars(message, f.content)>>
            order == FlattenSeq([i \in DOMAIN ParseFormat(message).fields |->
                                    Read(ParseFormat(message).fields[i])])
            ItemReads(item) == IF item.what \in {"text", "value"} THEN <<item.chars>>
                               ELSE IF item.what = "newline" THEN <<<<"\n">>>> ELSE <<>>
        IN  FlattenSeq([i \in DOMAIN w.out |-> ItemReads(w.out[i])]) = order

\* A units attribute is inserted into the tag of a value, whatever was written
\* or padded between the value and its units.
UnitsInTag ==
    \A i \in DOMAIN w.out :
        w.out[i].what = "units" =>
            i < Len(w.out) /\ w.out[i + 1].what \in {"units", "value"}
=============================================================================
