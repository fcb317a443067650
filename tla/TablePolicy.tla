---------------------------- MODULE TablePolicy -----------------------------
(***************************************************************************)
(* The table policy of one call: the tables are those that the analyser    *)
(* finds in the statement (query, update, schema, admin, tx), or the one   *)
(* that was named as an argument (import, export, inspect table), and each *)
(* must be covered by a pattern of the connection (enforceTablePolicy of   *)
(* internal/cli).                                                          *)
(***************************************************************************)
EXTENDS SqlObjects, TableAccess

CONSTANTS
  Spelling,     \* the letters of each word a statement may name
  Arguments,    \* tables that are named as arguments
  SqlLists,     \* allow_tables lists that statements are held against
  ArgumentLists \* allow_tables lists that arguments are held against

VARIABLES
  argument,   \* the table argument, or "sql"
  raw,        \* allow_tables; never changes
  answer      \* "none", "allowed" or "blocked"

vars == <<scan, argument, raw, answer>>

Init ==
  /\ answer = "none"
  /\ \/ /\ argument = <<"sql">> /\ raw \in SqlLists
        /\ \E s \in Statements : Starts(s)
     \/ /\ argument \in Arguments /\ raw \in ArgumentLists
        /\ Starts([tokens |-> <<"none">>, main |-> "none", tables |-> {}, others |-> {}])

BySql == argument = <<"sql">>

\* The names that the policy looks at.
Named == IF BySql THEN {Spelling[o] : o \in objects} ELSE {argument}

Permitted ==
  RestrictsTables(Patterns(raw)) =>
    Named # {} /\ \A name \in Named : AllowsTable(Patterns(raw), name)

EnforceTablePolicy ==
  /\ answer = "none" /\ (BySql => pc = "end")
  /\ answer' = IF Permitted THEN "allowed" ELSE "blocked"
  /\ UNCHANGED <<scan, argument, raw>>

Next ==
  \/ BySql /\ Analyze /\ UNCHANGED <<argument, raw, answer>>
  \/ EnforceTablePolicy

Spec == Init /\ [][Next]_vars

-----------------------------------------------------------------------------
(* Properties.                                                             *)

NamedBySql == {Spelling[t] : t \in stmt.tables}
Covered(name) == \E k \in 1 .. Len(raw) : raw[k] # <<>> /\ Covers(raw[k], name)

\* With allow_tables, an allowed call touches only tables that one of the
\* patterns covers, if the lists of its statement are plain, and a table argument
\* that one covers is allowed: the greedy search for the parts of a pattern finds
\* every match (wildcardMatch).
AllowedIsCovered ==
  (\E k \in 1 .. Len(raw) : raw[k] # <<>>) =>
    /\ answer = "allowed" /\ (BySql => main \in Verbs /\ PlainTables(stmt.tokens)) =>
         \A name \in IF BySql THEN NamedBySql ELSE {argument} : Covered(name)
    /\ answer = "blocked" /\ ~BySql => ~Covered(argument)
=============================================================================
