----------------------------- MODULE MCSqlScan ------------------------------
(* Small instances of SqlScan. *)
EXTENDS SqlScan

WhereChars == {"apos", "-", "x", "sp", "where"}
EscapeChars == {"apos", "esc", ";", "x"}
SlashChars == {"/", "*", ";", "x"}

\* A bound: texts that begin and end with a word.
Worded == Init /\ text # <<>> /\ text[1] = "x" /\ text[Len(text)] = "x"
WordedSpec == Worded /\ [][Next]_vars
=============================================================================
