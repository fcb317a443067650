------------------------------ MODULE Analyser ------------------------------
(* The analyser and the policy that follows it: the scans over the           *)
(* characters of a text (SqlScan), and the loops over the words of a         *)
(* statement with the policy on its tables (TablePolicy).  tokenize stands   *)
(* between them, so each is given inputs of its own and the other one rests. *)
EXTENDS SqlScan

CONSTANTS Statements, Spelling, Arguments, SqlLists, ArgumentLists

ASSUME NonEmpty == \A s \in Statements : Len(s.tokens) > 0

\* Patterns and names are texts, and the name of a table argument is not empty.
ASSUME Written ==
  /\ SqlLists \cup ArgumentLists \subseteq Seq(Seq(STRING))
  /\ Arguments \subseteq Seq(STRING) \ {<<>>}
  /\ \A s \in Statements :
       s.tokens \in Seq(STRING) /\ \A t \in s.tables : Spelling[t] \in Seq(STRING)

VARIABLES stmt, step, at, depth, main, ctes, expectTable, inTableList, objects, argument, raw, answer

Policy == INSTANCE TablePolicy WITH pc <- step, i <- at

\* What a statement's verb, tables and other names are to a reader can be told from
\* its words; it closes no parenthesis that it has not opened, and WITH is followed
\* by names.
ASSUME Reader ==
  \A s \in Statements :
    /\ s.main = Policy!MainVerb(s.tokens)
    /\ \A k \in 1 .. Len(s.tokens) : Policy!Seen(s.tokens, ")", k) <= Policy!Seen(s.tokens, "(", k)
    /\ \A k \in Policy!NameSpots(s.tokens) : Policy!IsName(s.tokens[k])
    /\ \A t \in s.tables :
         /\ t \notin Policy!WithNames(s.tokens)
         /\ \E k \in 1 .. Len(s.tokens) : s.tokens[k] = t /\ Policy!TableAt(s.tokens, k)
    /\ \A o \in s.others :
         \/ o \in Policy!WithNames(s.tokens)
         \/ \A k \in 1 .. Len(s.tokens) : s.tokens[k] = o => Policy!Follows(s.tokens, k)

words == <<stmt, step, at, depth, main, ctes, expectTable, inTableList, objects, argument, raw, answer>>

\* An empty text that has been scanned, a statement that has been checked.
ScanRests ==
  /\ text = <<>> /\ pc = "end" /\ i = 1
  /\ quote = "none" /\ inside = "none"
  /\ current = <<>> /\ parts = <<>> /\ stripped = <<>>
PolicyRests ==
  /\ argument = <<"a">> /\ raw = <<>> /\ answer = "allowed"
  /\ Policy!Starts([tokens |-> <<"none">>, main |-> "none", tables |-> {}, others |-> {}])

AnalyserInit == (Init /\ PolicyRests) \/ (Policy!Init /\ ScanRests)
AnalyserNext ==
  \/ Next /\ UNCHANGED words
  \/ Policy!Next /\ UNCHANGED vars
AnalyserSpec == AnalyserInit /\ [][AnalyserNext]_<<vars, words>>

\* The action that the policy is asked about is that of the statement's own
\* verb, not of a query inside a WITH (SqlObjects, findCTEAction).
VerbIsMain == Policy!VerbIsMain

\* Every table that the statement names is found (SqlObjects, extractObjects).
NoTableOverlooked == Policy!NoTableOverlooked

\* An alias or the name of a WITH query is never taken for a table (SqlObjects,
\* collectCTENames).
OthersAreNoTables == Policy!OthersAreNoTables

\* With allow_tables, an allowed call touches only tables that a pattern covers,
\* and an argument that one covers is allowed (TablePolicy, enforceTablePolicy).
AllowedIsCovered == Policy!AllowedIsCovered
=============================================================================
