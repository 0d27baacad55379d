----------------------------- MODULE XoDocument -----------------------------
(***************************************************************************)
(* What a reader of libxo's output may rely on while it is being written:  *)
(* text once given is never taken back or changed, and its tags nest.  At  *)
(* the end every tag is closed.                                            *)
(***************************************************************************)
EXTENDS Sequences, SequencesExt

CONSTANT Tokens     \* what text is made of: tags have a "what", the rest is opaque

VARIABLES
    text,           \* what the reader can count on
    ended           \* nothing more will come

documentVars == <<text, ended>>

\* The brackets and tags still open after a text, the innermost last.  A close
\* that meets no open of its kind and name stays.
Matches(open, close) == open.kind = close.kind /\ (close.kind = "element" => open.name = close.name)

Unclosed(t) ==
    FoldLeft(LAMBDA open, tok :
                 IF tok.what \in {"top", "open"} THEN Append(open, tok)
                 ELSE IF tok.what # "close" THEN open
                 ELSE IF open # <<>> /\ Last(open).what # "close" /\ Matches(Last(open), tok)
                 THEN Front(open)
                 ELSE Append(open, tok),
             <<>>, t)

Sound(t) == /\ \A i \in DOMAIN t : t[i].what # "garbage"
            /\ \A i \in DOMAIN Unclosed(t) : Unclosed(t)[i].what # "close"

DocumentInit ==
    /\ text = <<>>
    /\ ended = FALSE

Write ==
    /\ ~ended
    /\ text' \in Seq(Tokens)
    /\ IsPrefix(text, text')
    /\ Sound(text')
    /\ ended' = FALSE

End ==
    /\ ~ended
    /\ text' \in Seq(Tokens)
    /\ IsPrefix(text, text')
    /\ Sound(text')
    /\ Unclosed(text') = <<>>
    /\ ended' = TRUE

DocumentNext == Write \/ End

DocumentSpec == DocumentInit /\ [][DocumentNext]_documentVars
=============================================================================
