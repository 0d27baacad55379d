----------------------------- MODULE MCXoEmit -----------------------------
(* Formats put together from descriptors that differ in how they take their *)
(* arguments, and from fragments that need not make a descriptor.           *)
EXTENDS XoEmit

\* {:size/%*d}  {k:name}  {e:id/%u/%d}  {d:state/%*s}  {:path/%5d}  {a:/%m%s}
Size == <<"{", ":", "size", "/", "%", "*", "d", "}">>
Key == <<"{", "k", ":", "name", "}">>
Hidden == <<"{", "e", ":", "id", "/", "%", "u", "/", "%", "d", "}">>
Display == <<"{", "d", ":", "state", "/", "%", "*", "s", "}">>
Path == <<"{", ":", "path", "/", "%", "5", "d", "}">>
Anonymous == <<"{", "a", ":", "/", "%", "m", "%", "s", "}">>

MCValues == {Size, Key, Hidden, Display, Path}

\* {Lwc:label}  {N:note}  copied  and a newline
MCTexts == {<<"{", "L", "w", "c", ":", "label", "}">>, <<"{", "N", ":", "note", "}">>,
            <<"copied">>, <<"\n">>}

\* {La:}  {T:/%s}  {F:/%@*@d}  {E:/%s}  {Uw:/%s}  {U:kB}  {U,units-attr:/%s}
\* {[:/%d}  {[:10}  {]:}  {]:/%d}  {C:/%s}  {C:red}  {{text}}
MCOthers ==
    {<<"{", "L", "a", ":", "}">>, <<"{", "T", ":", "/", "%", "s", "}">>,
     <<"{", "F", ":", "/", "%", "@", "*", "@", "d", "}">>, <<"{", "E", ":", "/", "%", "s", "}">>,
     <<"{", "U", "w", ":", "/", "%", "s", "}">>, <<"{", "U", ":", "kB", "}">>,
     <<"{", "U", ",", "units-attr", ":", "/", "%", "s", "}">>,
     <<"{", "[", ":", "/", "%", "d", "}">>, <<"{", "[", ":", "10", "}">>,
     <<"{", "]", ":", "}">>, <<"{", "]", ":", "/", "%", "d", "}">>,
     <<"{", "C", ":", "/", "%", "s", "}">>, <<"{", "C", ":", "red", "}">>,
     <<"{", "{", "text", "}", "}">>}

\* The size and the path, their units, and an anchor around them.
MCAligned ==
    {Size, Path, <<"{", "U", ":", "kB", "}">>, <<"{", "U", "w", ":", "/", "%", "s", "}">>,
     <<"{", "[", ":", "10", "}">>, <<"{", "]", ":", "}">>}

\* {G:}  {G:/%s}
MCDomains == {<<"{", "G", ":", "}">>, <<"{", "G", ":", "/", "%", "s", "}">>}

MCTranslatable == MCValues \cup MCTexts \cup {<<"{", "G", ":", "}">>}
MCPieces == MCTranslatable \cup MCOthers \cup MCDomains \cup {Anonymous}

MCFragments ==
    {<<"{">>, <<"{", "L">>, <<"{", "1", ":">>, <<":", "name">>, <<"/">>, <<"%">>,
     <<"%", "d">>, <<"%", "@", "*">>, <<"@">>, <<"\\">>, <<"n">>, <<"}">>, <<"\n">>,
     <<"{", ":", "name", "}">>}

H(style, units, xpath) == [style |-> style, units |-> units, xpath |-> xpath]

MCHandles ==
    {H("text", FALSE, FALSE), H("html", TRUE, TRUE), H("xml", TRUE, FALSE),
     H("json", FALSE, FALSE), H("encoder", FALSE, FALSE)}
=============================================================================
