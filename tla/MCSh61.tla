------------------------------- MODULE MCSh61 -------------------------------
(***************************************************************************)
(* Command lines for Sh61, as the tokens shell_parser gives parse_line.    *)
(* Words are program names (true, false, maybe, prod, wc), cd's argument   *)
(* ("ok" names a directory, "bad" does not) and file names ("f" can be     *)
(* opened, "nofile" cannot).                                               *)
(***************************************************************************)
EXTENDS Sh61

W(x) == <<"NORMAL", x>>
Op(t) == <<t, "">>
R(x) == <<"REDIRECT_OP", x>>

\* maybe || cd bad && false || true
AndOrLine ==
    <<W("maybe"), Op("OR"), W("cd"), W("bad"), Op("AND"), W("false"), Op("OR"), W("true")>>

\* prod | wc
PipeLine == <<W("prod"), Op("PIPE"), W("wc")>>

\* prod | wc | wc
TriplePipeLine == <<W("prod"), Op("PIPE"), W("wc"), Op("PIPE"), W("wc")>>

\* prod > f | wc & wc < nofile ; true &
BgLine ==
    <<W("prod"), R(">"), W("f"), Op("PIPE"), W("wc"), Op("BACKGROUND"),
      W("wc"), R("<"), W("nofile"), Op("SEQUENCE"), W("true"), Op("BACKGROUND")>>

\* a line of spaces
EmptyLine == <<>>

MCLines == {AndOrLine, PipeLine, TriplePipeLine, BgLine, EmptyLine}
MCPipeOnly == {PipeLine}

\* Lines on which the code and a shell's semantics part ways; each breaks
\* the property named in the README when it is the only line of Lines.

\* maybe || prod & wc
SkippedBgLine == <<W("maybe"), Op("OR"), W("prod"), Op("BACKGROUND"), W("wc")>>

\* maybe && prod | wc
SkippedPipeLine == <<W("maybe"), Op("AND"), W("prod"), Op("PIPE"), W("wc")>>

\* true ; maybe && true &
LateBgLine ==
    <<W("true"), Op("SEQUENCE"), W("maybe"), Op("AND"), W("true"), Op("BACKGROUND")>>

\* prod > f | wc | wc
RedirectedHeadLine ==
    <<W("prod"), R(">"), W("f"), Op("PIPE"), W("wc"), Op("PIPE"), W("wc")>>

\* cd ok | wc
CdPipeLine == <<W("cd"), W("ok"), Op("PIPE"), W("wc")>>

====
