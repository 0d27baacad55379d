---------------------------- MODULE XoWhiteboard ----------------------------
(***************************************************************************)
(* What libxo does with its output while a filter has not made up its mind *)
(* (src/libxo/libxo.c, the xo_filt_* functions and the XML and JSON cases  *)
(* of the calls that open, close and emit): it writes into xo_data, and    *)
(* each frame of the hierarchy remembers where in there it began.  When    *)
(* the filter says "full" the ancestors are compacted to their tags and    *)
(* keys, when it says no the buffer is truncated.                          *)
(*                                                                         *)
(* A handle is a record; the functions take one and return another, as one *)
(* call of the API goes through several of them.                           *)
(***************************************************************************)
EXTENDS XoFilter, SequencesExt

CONSTANTS
    Lists,          \* names of lists, each holding instances of its own name
    Containers,     \* names of containers
    Fields,         \* names of fields
    KeyFields,      \* the fields that carry the "k" modifier
    Options         \* the flags a handle may have been created with

ASSUME NamesAssumption ==
    /\ Lists \cup Containers \cup Fields \subseteq Tags
    /\ KeyFields \subseteq Fields

OptionSet ==
    [style : {"xml", "json"},
     pretty : BOOLEAN,          \* XOF_PRETTY
     flush : BOOLEAN]           \* XOF_FLUSH

ASSUME OptionsAssumption == Options \subseteq OptionSet

VARIABLES
    opts,           \* the handle's flags
    handle,         \* what libxo.c knows: the frames, the buffer, its flags
    sent            \* what the writer was given

-----------------------------------------------------------------------------
(* The buffer.  A token stands for one or more bytes that stay together; an *)
(* offset is the number of tokens before it.  The two bytes of a separator  *)
(* are two tokens, as the code counts them.                                 *)

Clear == -1         \* XS_OFFSET_CLEAR

Token ==
    [what : {"top", "open", "close", "comma", "blank", "quote", "field", "end", "garbage"},
     name : Tags \cup {NoValue}, kind : {"none", "object", "array", "element"}]

Tok(what, name, kind) == [what |-> what, name |-> name, kind |-> kind]
Mark(what) == Tok(what, NoValue, "none")

Json == opts.style = "json"

ByteAt(buf, i) == IF i \in DOMAIN buf THEN buf[i] ELSE Mark("garbage")

\* xo_buf_set_offset: what lies beyond the end is whatever was there.
Truncated(buf, off) == [i \in 1..off |-> ByteAt(buf, i)]

\* memmove of len tokens from offset "from" to offset "to"
Moved(buf, to, from, len) ==
    [i \in 1..(IF to + len > Len(buf) THEN to + len ELSE Len(buf)) |->
        IF i \in (to + 1)..(to + len) THEN ByteAt(buf, from + i - to) ELSE ByteAt(buf, i)]

-----------------------------------------------------------------------------
(* Frames *)

Frame ==
    [kind : {"root", "container", "list", "instance"},
     name : Tags \cup {NoValue},
     status : Statuses,         \* xs_fstatus
     rbOff : Int,               \* xs_rb_off
     tagEnd : Int,              \* xs_tag_end
     keyOff : Int,              \* xs_key_off
     notFirst : BOOLEAN,        \* XSF_NOT_FIRST
     rbFlags : BOOLEAN]         \* xs_rb_flags: the parent's XSF_NOT_FIRST before

\* The stack is allocated full of zeros: the root's offsets are 0, not Clear.
Root ==
    [kind |-> "root", name |-> NoValue, status |-> "zero", rbOff |-> 0, tagEnd |-> 0,
     keyOff |-> 0, notFirst |-> FALSE, rbFlags |-> FALSE]

Cur(h) == Len(h.stack)
CurFrame(h) == h.stack[Cur(h)]

\* xo_filter_get_status and the handle after a call of the filter
Asked(h, f) == [h EXCEPT !.filter = f]

-----------------------------------------------------------------------------
(* Commit *)

Max2(x, y) == IF x > y THEN x ELSE y

\* A frame that cannot be taken back any more
Freed(frame, status) ==
    [frame EXCEPT !.status = status, !.rbOff = Clear, !.keyOff = Clear,
                  !.tagEnd = IF frame.rbOff = Clear THEN @ ELSE Clear]

\* One turn of xo_filt_compact_range's loop: the frame keeps its tag and its keys.
CompactOne(acc, frame) ==
    LET start == frame.rbOff
        tagged == IF frame.tagEnd # Clear THEN frame.tagEnd ELSE start
        keepEnd == Max2(frame.keyOff, tagged)
        strip == /\ Json
                 /\ frame.rbFlags
                 /\ acc.prevKeepEnd # Clear
                 /\ start > acc.prevKeepEnd
                 /\ ~acc.prevHadKey
        from == IF strip THEN start + 2 ELSE start
        keep == Max2(0, keepEnd - from)
        to == IF acc.writeOff = Clear THEN from ELSE acc.writeOff
    IN  IF frame.rbOff = Clear
        THEN [buf |-> acc.buf, writeOff |-> acc.writeOff,
              lastClear |-> TRUE, prevHadKey |-> FALSE, prevKeepEnd |-> Clear]
        ELSE [buf |-> Moved(acc.buf, to, from, keep), writeOff |-> to + keep,
              lastClear |-> FALSE, prevHadKey |-> frame.keyOff # Clear,
              prevKeepEnd |-> keepEnd]

\* The buffer, and what the loop knows, after the frames 2..last
Compacted(h, last) ==
    LET turn[i \in 0..last] ==
            IF i < 2
            THEN [buf |-> h.buf, writeOff |-> Clear, lastClear |-> TRUE,
                  prevHadKey |-> FALSE, prevKeepEnd |-> Clear]
            ELSE CompactOne(turn[i - 1], h.stack[i])
    IN  turn[last]

\* xo_filt_compact_range over the frames 2..last
CompactRange(h, last, status) ==
    LET run == Compacted(h, last)
        stack == [i \in DOMAIN h.stack |->
                    IF i = 1 THEN [h.stack[i] EXCEPT !.status = status]
                    ELSE IF i <= last THEN Freed(h.stack[i], status)
                    ELSE h.stack[i]]
    IN  [h |-> [h EXCEPT !.buf = run.buf, !.stack = stack], writeOff |-> run.writeOff,
         lastClear |-> run.lastClear, prevHadKey |-> run.prevHadKey]

\* Mutant: a field that is kept takes the text before it along.
RelocatedInPlace(h, writeOff, start, len) == h

\* xo_filt_relocate, and the buffer cut after what was moved
Relocated(h, writeOff, start, len) ==
    LET to == IF writeOff = Clear THEN start ELSE writeOff
    IN  IF len > 0 THEN [h EXCEPT !.buf = Truncated(Moved(@, to, start, len), to + len)]
        ELSE IF writeOff # Clear THEN [h EXCEPT !.buf = Truncated(@, writeOff)]
        ELSE h

NotFiltering(h) == [h EXCEPT !.filtering = FALSE]

\* xo_filt_commit: what the current frame wrote is kept as it is.
Commit(h) ==
    LET cur == CurFrame(h)
        r == CompactRange(h, Cur(h) - 1, "full")
        kept == [r.h EXCEPT !.stack[Cur(h)] =
                    [@ EXCEPT !.status = "full", !.rbOff = Clear, !.tagEnd = Clear,
                              !.keyOff = Clear]]
        settled == [h EXCEPT !.stack = [i \in DOMAIN h.stack |->
                        [h.stack[i] EXCEPT !.status = "full", !.rbOff = Clear,
                                           !.keyOff = Clear]]]
    IN  NotFiltering(
            IF cur.rbOff # Clear
            THEN Relocated(kept, r.writeOff, cur.rbOff, Len(h.buf) - cur.rbOff)
            ELSE settled)

\* xo_filt_commit_field: the field that began at "start" is kept, and of its
\* parent only the tag and the keys.
CommitField(h, start) ==
    LET r == CompactRange(h, Cur(h), "full")
        len == Len(h.buf) - start
        strip == /\ Json
                 /\ ~r.lastClear
                 /\ ~r.prevHadKey
                 /\ len >= 2
                 /\ ByteAt(r.h.buf, start + 1).what = "comma"
        cut == IF strip THEN 2 ELSE 0
    IN  NotFiltering(Relocated(r.h, r.writeOff, start + cut, len - cut))

\* Mutant: the ancestors' frames still point at where they were.
CommitCompactKeepsOffsets(h) ==
    LET r == CompactRange(h, Cur(h), "full")
    IN  NotFiltering(IF r.writeOff = Clear THEN h
                     ELSE [h EXCEPT !.buf = Truncated(r.h.buf, r.writeOff)])

\* xo_filt_commit_compact, for a construct that is about to be opened
CommitCompact(h) ==
    LET r == CompactRange(h, Cur(h), "full")
        cut == IF r.writeOff = Clear THEN r.h
               ELSE [r.h EXCEPT !.buf = Truncated(@, r.writeOff)]
        resets == Json /\ CurFrame(h).rbOff # Clear /\ ~r.prevHadKey
    IN  NotFiltering(IF resets THEN [cut EXCEPT !.stack[Cur(h)].notFirst = FALSE] ELSE cut)

\* xo_filt_handle_change_status
ChangeStatus(h, old, new) ==
    IF new = "full" /\ old # "full" THEN CommitCompact(h) ELSE h

\* xo_filt_handle_open_status
OpenStatus(h, status) ==
    IF status = "full" THEN Commit(h)
    ELSE IF status = "track" /\ CurFrame(h).status = "pred"
    THEN [h EXCEPT !.stack[Cur(h)].status = "track"]
    ELSE h

\* Mutant: the parent keeps its mark that an item was written.
RollbackKeepsComma(h, status, next) ==
    LET cur == CurFrame(h)
        discards == status # "full" /\ cur.rbOff # Clear /\ cur.rbOff < Len(h.buf)
        back == IF discards THEN [h EXCEPT !.buf = Truncated(@, cur.rbOff)] ELSE h
    IN  [back EXCEPT !.filtering = @ \/ next # "full"]

\* xo_filt_rollback of the current frame, which is about to be closed
Rollback(h, status, next) ==
    LET cur == CurFrame(h)
        discards == status # "full" /\ cur.rbOff # Clear /\ cur.rbOff < Len(h.buf)
        back == [h EXCEPT !.buf = Truncated(@, cur.rbOff),
                          !.stack[Cur(h) - 1].notFirst = cur.rbFlags,
                          !.madeOutput = @ /\ cur.rbOff # 0,
                          !.topEmitted = @ /\ ~(Json /\ cur.rbOff = 0)]
        freed == [(IF discards THEN back ELSE h) EXCEPT
                    !.stack[Cur(h)].rbOff = Clear, !.stack[Cur(h)].keyOff = Clear]
    IN  [freed EXCEPT !.filtering = @ \/ next # "full"]

-----------------------------------------------------------------------------
(* Open and close *)

Wrote(h, tokens) == [h EXCEPT !.buf = @ \o tokens]

\* xo_emit_top, where the top-level brace is still missing
TopEmitted(h) ==
    IF Json /\ ~h.topEmitted THEN [Wrote(h, <<Mark("top")>>) EXCEPT !.topEmitted = TRUE]
    ELSE h

\* The tag of a construct; JSON puts a separator of two bytes before it.
Opened(h, kind, name) ==
    LET sep == IF CurFrame(h).notFirst THEN <<Mark("comma"), Mark("blank")>> ELSE <<>>
        tag == CASE kind = "list" -> Tok("open", name, "array")
                 [] kind = "container" -> Tok("open", name, "object")
                 [] kind = "instance" -> Tok("open", NoValue, "object")
    IN  IF Json
        THEN [Wrote(h, Append(sep, tag)) EXCEPT !.stack[Cur(h)].notFirst = TRUE]
        ELSE IF kind = "list" THEN h
        ELSE Wrote(h, <<Tok("open", name, "element")>>)

\* xo_depth_change, push; "before" is the handle as it was when the call began.
Pushed(h, before, kind, name, status, start) ==
    [h EXCEPT !.stack = Append(@,
        [kind |-> kind, name |-> name, status |-> status, rbOff |-> start,
         tagEnd |-> Len(h.buf), keyOff |-> Clear, notFirst |-> FALSE,
         rbFlags |-> CurFrame(before).notFirst])]

Popped(h) == [h EXCEPT !.stack = Front(@)]

\* The construct's end; JSON notes that its parent has an item.
Closed(h, kind, name) ==
    LET shape == IF kind = "list" THEN "array" ELSE "object"
    IN  IF Json
        THEN [Wrote(h, <<Tok("close", NoValue, shape)>>) EXCEPT
                !.stack[Cur(h)].notFirst = TRUE]
        ELSE Wrote(h, <<Tok("close", name, "element")>>)

\* Mutant: only what waits for a predicate is held.
HoldingPredOnly(h, status, old) == [h EXCEPT !.filtering = @ \/ status = "pred"]

\* A construct that may be taken back must not be flushed.
Holding(h, status, old) ==
    [h EXCEPT !.filtering =
        @ \/ status = "pred" \/ (status = "track" /\ old = "full")]

\* xo_do_open_container
OpenContainer(h, name) ==
    LET f == FilterOpen(h.filter, name, NoValue)
        old == CurFrame(h).status
        ready == TopEmitted(ChangeStatus(Asked(h, f), old, f.status))
        start == IF f.status \in {"full", "zero"} THEN Clear ELSE Len(h.buf)
    IN  Pushed(Holding(Opened(ready, "container", name), f.status, old), h,
               "container", name, f.status, start)

\* xo_do_open_list: the filter is not told of lists.
OpenList(h, name) ==
    LET opened == Opened(TopEmitted(h), "list", name)
    IN  Pushed([opened EXCEPT !.filtering = @ \/ CurFrame(h).status = "full"], h,
               "list", name, "zero", Len(h.buf))

\* xo_do_open_instance
OpenInstance(h, name) ==
    LET f == FilterOpen(h.filter, name, NoValue)
        old == CurFrame(h).status
        ready == ChangeStatus(Asked(h, f), old, f.status)
    IN  Pushed(Holding(Opened(ready, "instance", name), f.status, old), h,
               "instance", name, f.status, Len(h.buf))

\* xo_do_close_container
CloseContainer(h) ==
    LET cur == CurFrame(h)
        f == FilterClose(h.filter)
    IN  IF cur.rbOff # Clear
        THEN Popped(Rollback(Asked(h, f), cur.status, f.answer))
        ELSE Closed(Popped(Asked(h, f)), "container", cur.name)

\* xo_do_close_list
CloseList(h) ==
    LET cur == CurFrame(h)
        item == [h EXCEPT !.stack[Cur(h)].notFirst = TRUE]
        popped == Popped(h)
    IN  IF ~Json THEN [popped EXCEPT !.stack[Cur(popped)].notFirst = TRUE]
        ELSE IF cur.rbOff # Clear THEN Popped(Rollback(item, cur.status, cur.status))
        ELSE Closed(popped, "list", cur.name)

\* xo_do_close_instance, with the status it closes with and the filter's next one
InstanceClosed(h, status, next) ==
    LET name == CurFrame(h).name
        back == Popped(Rollback(h, status, next))
    IN  IF ~Json
        THEN IF status \in {"zero", "full"} THEN Closed(back, "instance", name) ELSE back
        ELSE IF CurFrame(h).rbOff # Clear THEN back
        ELSE Closed(Popped(h), "instance", name)

CloseInstanceFrame(h) ==
    LET f == FilterCloseInstance(h.filter)
        status == CurFrame(h).status
    IN  IF status = "pred" /\ f.answer = "full"
        THEN InstanceClosed(Commit(Asked(h, f)), "full", f.answer)
        ELSE InstanceClosed(Asked(h, f), status, f.answer)

-----------------------------------------------------------------------------
(* Fields *)

\* The matcher after xo_filt_do_open_field has asked it about a field's value
\* and opened the field.
ValueAsked(f, name, value) ==
    IF name \in KeyFields THEN FilterKey(f, name, value)
    ELSE IF f.status \in {"track", "pred"} /\ value # Empty THEN FilterPredField(f, name, value)
    ELSE f

AskedOfField(f, name, value) == FilterOpen(ValueAsked(f, name, value), name, value)

\* xo_filt_do_open_field: what the filter's answer commits
FieldCommitted(h, key, start) ==
    IF h.filter.status # "full" THEN h
    ELSE IF key THEN Commit(h)
    ELSE CommitField(h, start)

DoOpenField(h, name, value, start) ==
    LET key == name \in KeyFields
        asks == key \/ (h.filter.status \in {"track", "pred"} /\ value # Empty)
        told == ValueAsked(h.filter, name, value)
        answered == IF asks THEN OpenStatus(Asked(h, told), told.answer) ELSE h
    IN  FieldCommitted(Asked(answered, AskedOfField(h.filter, name, value)), key, start)

\* xo_filter_op_needs_nonkey_field
NeedsNonkeyField(f, name) ==
    /\ f.status = "track"
    /\ \E n \in In(Top(f), "pred") : Needs(f.trie[n].preds, name)

\* xo_filt_is_skippable
Skippable(h, name) ==
    /\ h.filter.status # "full"
    /\ name \notin KeyFields
    /\ ~(h.filtering /\ CurFrame(h).rbOff # Clear)
    /\ h.filter.status # "pred"
    /\ ~NeedsNonkeyField(h.filter, name)

\* xo_filt_do_close_field
DoCloseField(h) ==
    LET f == FilterClose(h.filter)
    IN  [Asked(h, f) EXCEPT !.filtering = @ \/ f.answer # "full"]

\* What is written of a field before the filter is asked: in JSON all of it,
\* after a separator of one byte, or two when it is pretty.
FieldWritten(h, name) ==
    LET blank == IF opts.pretty THEN <<Mark("blank")>> ELSE <<>>
        sep == IF CurFrame(h).notFirst THEN <<Mark("comma")>> \o blank ELSE <<>>
        field == Tok("field", name, "none")
    IN  IF Json
        THEN [Wrote(h, sep \o <<Mark("quote"), field>>) EXCEPT
                !.stack[Cur(h)].notFirst = TRUE]
        ELSE Wrote(h, <<field>>)

\* The field is taken back, or ended, when the filter has been asked; "ready" is
\* the handle before it was written.
FieldEnded(h, ready, name) ==
    LET ended == IF Json THEN h ELSE Wrote(h, <<Tok("end", name, "none")>>)
    IN  IF Skippable(h, name)
        THEN [h EXCEPT !.buf = Truncated(@, Len(ready.buf)),
                !.stack[Cur(h)].notFirst = IF Json THEN CurFrame(ready).notFirst ELSE @]
        ELSE IF name \in KeyFields
        THEN [ended EXCEPT !.stack[Cur(h)].keyOff = Len(ended.buf)]
        ELSE ended

\* xo_format_value and xo_format_value_xml
EmitField(h, name, value) ==
    LET ready == TopEmitted(h)
        asked == DoOpenField(FieldWritten(ready, name), name, value, Len(ready.buf))
    IN  DoCloseField(FieldEnded(asked, ready, name))

-----------------------------------------------------------------------------
(* The end *)

\* xo_finish_h, once everything is closed
FinishWritten(h) ==
    LET nothing == ~h.topEmitted /\ ~(h.madeOutput \/ h.buf # <<>>)
        open == IF nothing THEN <<Mark("top")>> ELSE <<>>
    IN  IF Json THEN [Wrote(h, open \o <<Tok("close", NoValue, "none")>>) EXCEPT
                        !.topEmitted = FALSE]
        ELSE h

\* xo_write
Written(h) ==
    IF h.buf = <<>> THEN h ELSE [h EXCEPT !.buf = <<>>, !.madeOutput = TRUE]
=============================================================================
