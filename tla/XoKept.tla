------------------------------- MODULE XoKept -------------------------------
(***************************************************************************)
(* A caller that writes a document through a filter, the whiteboard of     *)
(* XoWhiteboard between the two, and what should be left of the document.  *)
(*                                                                         *)
(* Which elements a filter wants is the matcher's business (XoFilter, and  *)
(* XoFilterDoc for what that means).  Here its word is taken, and the      *)
(* question is whether exactly the wanted elements come out, whole, inside *)
(* the ancestors they had, as soon as they are written and no sooner.      *)
(***************************************************************************)
EXTENDS XoWhiteboard

CONSTANTS
    Cases,          \* BOUND: the handle's flags and its filter expressions
    MaxLevel,       \* BOUND: constructs opened inside each other
    MaxElements,    \* BOUND: constructs in the document
    MaxFields       \* BOUND: fields in the document

ASSUME CasesAssumption ==
    \A c \in Cases :
        c.opts \in OptionSet /\ c.paths # <<>> /\ c.paths \in Seq(Path)

VARIABLES
    told,           \* every construct and field the caller gave, in order
    doc,            \* the caller's open elements, doc[1] stands above them
    picked,         \* elements that some expression selected
    refused,        \* elements that some expression rejected
    done            \* xo_finish was called

callVars == <<told, doc, picked, refused, done>>
keptVars == <<filter, opts, handle, sent, callVars>>

Event(what, name, kind, path) ==
    [what |-> what, name |-> name, kind |-> kind, path |-> path]

Element(id, kind) == [id |-> id, kind |-> kind, said |-> {}, kids |-> FALSE]

\* The last expression that is given compiles them all.
Given(paths) == FilterAdd([NoFilter EXCEPT !.paths = Front(paths)], Last(paths))

KeptInit ==
    \E c \in Cases :
        /\ opts = c.opts
        /\ filter = Given(c.paths)
        /\ handle = [filter |-> filter, stack |-> <<Root>>, buf |-> <<>>,
                     topEmitted |-> FALSE, filtering |-> TRUE, madeOutput |-> FALSE]
        /\ sent = <<>>
        /\ told = <<>>
        /\ doc = <<Element(0, "root")>>
        /\ picked = {}
        /\ refused = {}
        /\ done = FALSE

-----------------------------------------------------------------------------
(* The calls *)

Here == Last(doc)
Ids(d) == [i \in DOMAIN d |-> d[i].id]
NextId == Len(told) + 1

Count(what) == Cardinality({i \in DOMAIN told : told[i].what = what})

\* xo_transition and xo_do_emit flush at their end, if the handle's flags say so
\* and nothing is held back.
Becomes(h) ==
    LET flushes == opts.flush /\ ~h.filtering
    IN  /\ handle' = IF flushes THEN Written(h) ELSE h
        /\ sent' = IF flushes THEN sent \o h.buf ELSE sent
        /\ filter' = h.filter
        /\ UNCHANGED opts

\* The open elements in which a matcher's live node ends an expression; it has
\* no frame for a list.
Selected(f, d, negated) ==
    LET elements == SelectSeq(d, LAMBDA e : e.kind # "list")
    IN  {elements[i].id : i \in {j \in 2..Len(f.frames) :
            \E n \in LiveIn(f.frames[j]) :
                f.trie[n].terminal /\ f.trie[n].negated = negated}}

Notes(f, d) ==
    /\ picked' = picked \cup Selected(f, d, FALSE)
    /\ refused' = refused \cup Selected(f, d, TRUE)

Opens(kind, name, h) ==
    LET d == Append([doc EXCEPT ![Len(doc)].kids = TRUE], Element(NextId, kind))
    IN  /\ Active
        /\ ~done
        /\ Len(doc) <= MaxLevel
        /\ Count("open") < MaxElements
        /\ doc' = d
        /\ told' = Append(told, Event("open", name, kind, Ids(d)))
        /\ Becomes(h)
        /\ Notes(h.filter, d)
        /\ UNCHANGED done

CallOpenContainer(name) ==
    Here.kind # "list" /\ Opens("container", name, OpenContainer(handle, name))

CallOpenList(name) ==
    Here.kind # "list" /\ Opens("list", name, OpenList(handle, name))

\* An instance has the name of its list.
CallOpenInstance ==
    LET name == CurFrame(handle).name
    IN  Here.kind = "list" /\ Opens("instance", name, OpenInstance(handle, name))

\* The matcher resolves what is left open before it forgets the element.
Closes(kind, h, resolved) ==
    /\ Here.kind = kind
    /\ doc' = Front(doc)
    /\ told' = Append(told, Event("close", CurFrame(handle).name, kind, Ids(doc)))
    /\ Becomes(h)
    /\ Notes(resolved, doc)
    /\ UNCHANGED done

CallCloseContainer == Closes("container", CloseContainer(handle), filter)
CallCloseList == Closes("list", CloseList(handle), filter)
CallCloseInstance ==
    Closes("instance", CloseInstanceFrame(handle),
           IF filter.status = "pred" THEN ForceResolve(filter) ELSE filter)

\* Keys come before anything else in their element.
\* BOUND: a field comes once in an element, and none outside of elements.
CallEmit(name, value) ==
    LET key == name \in KeyFields
    IN  /\ Active
        /\ ~done
        /\ Here.kind \notin {"list", "root"}
        /\ Count("field") < MaxFields
        /\ name \notin Here.said
        /\ key => Here.said \subseteq KeyFields /\ ~Here.kids
        /\ doc' = [doc EXCEPT ![Len(doc)].said = @ \cup {name}]
        /\ told' = Append(told, Event("field", name, IF key THEN "key" ELSE "value",
                                      Append(Ids(doc), NextId)))
        /\ Becomes(EmitField(handle, name, value))
        /\ Notes(AskedOfField(filter, name, value),
                 Append(doc, Element(NextId, "field")))
        /\ UNCHANGED done

CallFinish ==
    /\ Len(doc) = 1
    /\ told # <<>>
    /\ ~done
    /\ done' = TRUE
    /\ handle' = Written(FinishWritten(handle))
    /\ sent' = sent \o FinishWritten(handle).buf
    /\ UNCHANGED <<filter, opts, told, doc, picked, refused>>

KeptNext ==
    \/ \E n \in Containers : CallOpenContainer(n)
    \/ \E n \in Lists : CallOpenList(n)
    \/ CallOpenInstance
    \/ CallCloseContainer
    \/ CallCloseList
    \/ CallCloseInstance
    \/ \E n \in Fields, v \in Values : CallEmit(n, v)
    \/ CallFinish

KeptSpec == KeptInit /\ [][KeptNext]_keptVars

-----------------------------------------------------------------------------
(* What should be left *)

\* With negated expressions only, what none of them rejects is wanted.
AllNegated == \A i \in DOMAIN filter.paths : filter.paths[i].negated

Wanted(e) ==
    LET path == ToSet(told[e].path)
    IN  /\ path \cap refused = {}
        /\ AllNegated \/ path \cap picked # {}

\* Something wanted was given inside the element, or it is wanted itself.
HoldsWanted(id) ==
    \E e \in DOMAIN told :
        Wanted(e) /\ told[e].kind # "list" /\ id \in ToSet(told[e].path)

\* Ancestors of what is wanted stay, with their keys.
Stays(e) ==
    LET path == told[e].path
    IN  \/ Wanted(e) /\ told[e].kind # "list"
        \/ told[e].what # "field" /\ HoldsWanted(Last(path))
        \/ told[e].kind = "key" /\ HoldsWanted(path[Len(path) - 1])

Shown(e) ==
    LET ev == told[e]
        shape == IF ev.kind = "list" THEN "array" ELSE "object"
        label == IF ev.kind = "instance" THEN NoValue ELSE ev.name
    IN  CASE ev.what = "field" -> <<Tok("field", ev.name, "none")>>
          [] ~Json /\ ev.kind = "list" -> <<>>
          [] ~Json -> <<Tok(ev.what, ev.name, "element")>>
          [] Json /\ ev.what = "close" -> <<Tok("close", NoValue, shape)>>
          [] Json /\ ev.what = "open" -> <<Tok("open", label, shape)>>

Expected ==
    FoldLeft(LAMBDA out, e : IF Stays(e) THEN out \o Shown(e) ELSE out,
             <<>>, [i \in DOMAIN told |-> i])

\* Without separators and the outermost braces
Bare(out) ==
    SelectSeq(out, LAMBDA t : t.what \in {"open", "close", "field", "garbage"}
                              /\ t # Tok("close", NoValue, "none"))

-----------------------------------------------------------------------------
(* The properties *)

\* The finished output is the document without what the filter does not want:
\* no wanted element was rolled back or lost in a compaction, none that is not
\* wanted survived, and the ancestors of each are there once, with their keys.
FinishedIsExpected == done => Bare(sent) = Expected

\* Whatever frames and buffer went through, the offsets of the frames that may
\* still be taken back lie in the buffer, tag before keys, outer frames before inner ones
\* (xo_filt_compact_range moves text and must clear what pointed above it).
Pending ==
    {i \in 2..Cur(handle) :
        handle.stack[i].rbOff # Clear /\ handle.stack[i].status # "full"}

OffsetsInOrder ==
    /\ \A i \in Pending :
          LET frame == handle.stack[i]
          IN  /\ 0 <= frame.rbOff /\ frame.rbOff <= frame.tagEnd
              /\ frame.tagEnd <= Len(handle.buf)
              /\ frame.keyOff # Clear =>
                     frame.tagEnd <= frame.keyOff /\ frame.keyOff <= Len(handle.buf)
    /\ \A i, j \in Pending : i < j => handle.stack[i].tagEnd <= handle.stack[j].rbOff

\* In JSON every item but the first of its object or array has a separator
\* before it and the first has none, also where items between were taken back.
Significant == SelectSeq(sent, LAMBDA t : t.what \notin {"blank", "quote"})

SeparatorsFit ==
    done /\ Json =>
        \A i \in 2..Len(Significant) :
            LET prev == Significant[i - 1].what
            IN  CASE Significant[i].what = "comma" -> prev \in {"field", "close"}
                  [] Significant[i].what \in {"open", "field"} -> prev \in {"top", "open", "comma"}
                  [] OTHER -> prev # "comma"

\* What no open frame can take back: the reader may count on it.
Settled ==
    LET held == {handle.stack[i].rbOff : i \in Pending}
        cut == IF held = {} THEN Len(handle.buf) ELSE CHOOSE m \in held : \A n \in held : m <= n
    IN  sent \o SubSeq(handle.buf, 1, cut)

Document == INSTANCE XoDocument WITH Tokens <- Token, text <- Settled, ended <- done

\* Text that was settled stays as it is, and its tags nest.
ImplementsDocument == Document!DocumentSpec
=============================================================================
