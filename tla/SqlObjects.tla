----------------------------- MODULE SqlObjects -----------------------------
(***************************************************************************)
(* What dbx makes of one SQL statement: the verb that decides its action,  *)
(* behind any WITH, and the tables it names (analyzeStatement of           *)
(* internal/sqlanalyzer).  Three loops over the tokens: findCTEAction,     *)
(* collectCTENames and extractObjects.  No grammar is parsed: a word and   *)
(* two flags decide whether the next word is a table.                      *)
(***************************************************************************)
EXTENDS Integers, Sequences, FiniteSetsExt

\* A statement is [tokens, main, tables, others]: its words, and what a reader
\* of SQL says of them: the verb, the tables it touches, and the names that are
\* no tables (aliases and WITH queries).  No statement is without words.
CONSTANT Statements

Reading == {"select", "show", "describe", "desc", "pragma", "explain"}
Writing == {"insert", "update", "delete", "replace", "merge"}
Defining == {"create", "alter", "drop", "truncate", "rename"}
Administering == {"grant", "revoke", "analyze", "vacuum", "set", "reset"}
Verbs == Reading \cup Writing \cup Defining \cup Administering

VARIABLES
  stmt,     \* the statement; never changes
  pc,       \* "main", "names", "objects" or "end"
  i,        \* position in the tokens
  depth,    \* open parentheses
  main,     \* the verb, or "none"
  ctes,     \* names of WITH queries
  expectTable, inTableList,
  objects   \* tables found

scan == <<stmt, pc, i, depth, main, ctes, expectTable, inTableList, objects>>
flags == <<expectTable, inTableList>>

\* Only a statement that begins with WITH has its verb further on.
Starts(s) ==
  /\ stmt = s
  /\ LET with == s.tokens[1] = "with" IN
       /\ pc = IF with THEN "main" ELSE "objects"
       /\ i = IF with THEN 2 ELSE 1
       /\ main = IF with THEN "none" ELSE s.tokens[1]
  /\ depth = 0 /\ ctes = {}
  /\ expectTable = FALSE /\ inTableList = FALSE
  /\ objects = {}

Count == Len(stmt.tokens)
At(k) == IF k <= Count THEN stmt.tokens[k] ELSE "none"
Token == At(i)
In(loop) == pc = loop /\ i <= Count

-----------------------------------------------------------------------------
(* findCTEAction: the first verb outside parentheses.                      *)

Nested(d) ==
  /\ depth' = d /\ i' = i + 1
  /\ UNCHANGED <<stmt, pc, main, ctes, flags, objects>>

Open == In("main") /\ Token = "(" /\ Nested(depth + 1)
Close == In("main") /\ Token = ")" /\ Nested(IF depth > 0 THEN depth - 1 ELSE 0)

\* (mutant) A verb inside parentheses will do.
AnyVerb == Token \in Verbs

OuterVerb == depth = 0 /\ Token \in Verbs \cup {"with"}

SkipWord ==
  /\ In("main") /\ Token \notin {"(", ")"}
  /\ ~OuterVerb
  /\ Nested(depth)

FindVerb ==
  /\ In("main") /\ OuterVerb
  /\ main' = Token
  /\ pc' = "names"
  /\ i' = IF At(2) = "recursive" THEN 3 ELSE 2
  /\ UNCHANGED <<stmt, depth, ctes, flags, objects>>

\* A statement without a verb is of an unknown class and has no objects.
NoVerb ==
  /\ pc = "main" /\ i > Count
  /\ pc' = "end"
  /\ UNCHANGED <<stmt, i, depth, main, ctes, flags, objects>>

-----------------------------------------------------------------------------
(* collectCTENames: name [( ... )] as ( ... ) , name ...                   *)

\* Behind the parenthesis that closes the one at k.
Balanced(k) ==
  LET opened(m) == Cardinality({n \in k .. m : At(n) = "("})
      closed(m) == Cardinality({n \in k .. m : At(n) = ")"})
      ends == {m \in k .. Count : opened(m) = closed(m)}
  IN  Min(ends \cup {Count}) + 1

AfterColumns == IF At(i + 1) = "(" THEN Balanced(i + 1) ELSE i + 1
HasBody == At(AfterColumns) = "as" /\ At(AfterColumns + 1) = "("
AfterBody == Balanced(AfterColumns + 1)

ToObjects == pc' = "objects" /\ i' = 1

\* (mutant) The names are not remembered.
NoName == ctes

WithName == ctes \cup {Token}

CollectName ==
  /\ In("names") /\ Token \notin Verbs
  /\ ctes' = WithName
  /\ IF HasBody /\ At(AfterBody) = "," THEN i' = AfterBody + 1 /\ UNCHANGED pc ELSE ToObjects
  /\ UNCHANGED <<stmt, depth, main, flags, objects>>

NoMoreNames ==
  /\ pc = "names" /\ (i > Count \/ Token \in Verbs)
  /\ ToObjects
  /\ UNCHANGED <<stmt, depth, main, ctes, flags, objects>>

-----------------------------------------------------------------------------
(* extractObjects.                                                         *)

ListWords == {"from", "join", "into"}
TargetWords == {"update", "truncate"}
EndWords == {"where", "group", "order", "limit", "having", "set", "values", "returning", "using", "with"}
NoiseWords == {"if", "not", "exists", "only"}
KeyWords == ListWords \cup TargetWords \cup EndWords \cup NoiseWords \cup {"table", "view", "on", ","}

Sets(expect, list) ==
  /\ expectTable' = expect /\ inTableList' = list
  /\ i' = i + 1
  /\ UNCHANGED <<stmt, pc, depth, main, ctes, objects>>

ListWord == In("objects") /\ Token \in ListWords /\ Sets(TRUE, TRUE)
TargetWord == In("objects") /\ Token \in TargetWords /\ Sets(TRUE, FALSE)

TableWord ==
  /\ In("objects") /\ Token \in {"table", "view"}
  /\ IF main \in {"create", "alter", "drop", "rename"} THEN Sets(TRUE, TRUE)
     ELSE Sets(expectTable, inTableList)

IsIndex == main = "create" /\ \E k \in 1 .. Count : At(k) = "index"

OnWord ==
  /\ In("objects") /\ Token = "on"
  /\ IF IsIndex THEN Sets(TRUE, inTableList) ELSE Sets(FALSE, FALSE)

EndWord == In("objects") /\ Token \in EndWords /\ Sets(FALSE, FALSE)

\* (mutant) A list ends at its first comma.
OneTable == expectTable

NextInList == expectTable \/ inTableList

Comma == In("objects") /\ Token = "," /\ Sets(NextInList, inTableList)

\* What changes nothing: noise, parentheses, and any word where no table is due.
OtherWord ==
  /\ In("objects")
  /\ \/ Token \in NoiseWords
     \/ Token \notin KeyWords /\ (~expectTable \/ Token \in {"(", ")"})
  /\ Sets(expectTable, inTableList)

\* The word is a table, unless it is the name of a WITH query.
AddTable ==
  /\ In("objects") /\ expectTable
  /\ Token \notin KeyWords \cup {"(", ")"}
  /\ objects' = IF Token \in ctes THEN objects ELSE objects \cup {Token}
  /\ expectTable' = FALSE
  /\ i' = i + 1
  /\ UNCHANGED <<stmt, pc, depth, main, ctes, inTableList>>

ObjectsDone ==
  /\ pc = "objects" /\ i > Count
  /\ pc' = "end"
  /\ UNCHANGED <<stmt, i, depth, main, ctes, flags, objects>>

Analyze ==
  \/ Open \/ Close \/ SkipWord \/ FindVerb \/ NoVerb
  \/ CollectName \/ NoMoreNames
  \/ ListWord \/ TargetWord \/ TableWord \/ OnWord \/ EndWord \/ Comma
  \/ OtherWord \/ AddTable \/ ObjectsDone

-----------------------------------------------------------------------------
(* What a reader of SQL finds in the words w of a statement.               *)

IsName(word) == word \notin KeyWords \cup {"(", ")"}

\* How often a word stands among the first k, and the places outside parentheses.
Seen(w, word, k) == Cardinality({n \in 1 .. k : w[n] = word})
Outside(w, k) == w[k] \notin {"(", ")"} /\ Seen(w, "(", k) = Seen(w, ")", k)
Level(w, k) == Seen(w, "(", k) - Seen(w, ")", k)

\* The verb is the first word, or behind WITH the first one outside parentheses
\* that can be a verb.
VerbAt(w, k) == w[k] \in Verbs \cup {"with"} /\ Outside(w, k)
MainVerb(w) ==
  LET verbs == {k \in 2 .. Len(w) : VerbAt(w, k)}
  IN  IF w[1] # "with" THEN w[1] ELSE IF verbs = {} THEN "none" ELSE w[Min(verbs)]

\* WITH [RECURSIVE] names a query, and so does each comma outside parentheses
\* that stands before the verb.
NameSpot(w, k) ==
  /\ w[1] = "with"
  /\ k = (IF w[2] = "recursive" THEN 3 ELSE 2) \/ (w[k - 1] = "," /\ Outside(w, k - 1))
  /\ \A m \in 2 .. k : ~VerbAt(w, m)
NameSpots(w) == {k \in 2 .. Len(w) : NameSpot(w, k)}
WithNames(w) == {w[k] : k \in NameSpots(w)}

\* The parenthesis at a is closed at b; name [ ( columns ) ] as ( query ).
Closes(w, a, b) ==
  w[a] = "(" /\ Level(w, b) = Level(w, a - 1) /\ \A m \in a .. b - 1 : Level(w, m) # Level(w, a - 1)
NamesQuery(w, k, e) ==
  \E a \in k + 1 .. e - 1 :
    /\ a = k + 1 \/ Closes(w, k + 1, a - 1)
    /\ w[a] = "as" /\ Closes(w, a + 1, e)

\* Tables are named behind these words, and behind a comma of the same depth with
\* no other clause in between.
Clauses == {"where", "group", "order", "limit", "having", "set", "values", "returning",
            "window", "for", "select", "with"}
MakesIndex(w) == MainVerb(w) = "create" /\ \E k \in 1 .. Len(w) : w[k] = "index"
Defines(w) == MainVerb(w) \in {"create", "alter", "drop", "rename"}
Opens(w, a) ==
  \/ w[a] \in {"from", "join", "into", "update", "truncate"}
  \/ w[a] \in {"table", "view"} /\ Defines(w)
  \/ w[a] = "on" /\ MakesIndex(w)
  \/ w[a] = "using" /\ MainVerb(w) \in {"delete", "merge"}
GoesOn(w, c) ==
  /\ w[c] = ","
  /\ \E a \in 1 .. c - 1 :
       /\ Opens(w, a) /\ Level(w, c) = Level(w, a)
       /\ \A m \in a + 1 .. c - 1 :
            Level(w, m) >= Level(w, a) /\ (Level(w, m) = Level(w, a) => w[m] \notin Clauses)

\* A table is the first name there.
TableAt(w, k) ==
  /\ IsName(w[k])
  /\ \E p \in 1 .. k - 1 :
       /\ \A m \in p + 1 .. k - 1 : w[m] \in NoiseWords \cup {"table", "("}
       /\ Opens(w, p) \/ GoesOn(w, p)

\* A name behind another one, or behind the parentheses that close there, is no
\* table.
Follows(w, k) == \E j \in 1 .. k - 1 : IsName(w[j]) /\ \A m \in j + 1 .. k - 1 : w[m] = ")"

-----------------------------------------------------------------------------
(* What the analyser relies on: statements it reads as a reader does.      *)

\* Every query of a WITH is written name [ ( columns ) ] as ( query ).
PlainWith(w) ==
  \A k \in NameSpots(w) : \E e \in k + 1 .. Len(w) :
    NamesQuery(w, k, e) /\ \A m \in NameSpots(w) : m > e => w[e + 1] = ","

\* No table stands behind USING, and no list of tables goes on behind one of the
\* words that end it, however deep that stands, unless a new list was opened.
PlainTables(w) ==
  \A k \in 1 .. Len(w) :
    /\ w[k] = "using" => ~Opens(w, k)
    /\ GoesOn(w, k) =>
         \E b \in 1 .. k - 1 :
           /\ w[b] \in ListWords \/ (w[b] \in {"table", "view"} /\ Defines(w))
           /\ \A m \in b + 1 .. k - 1 :
                w[m] \notin EndWords \cup TargetWords /\ (w[m] = "on" => MakesIndex(w))

-----------------------------------------------------------------------------
(* Properties.                                                             *)

\* The action that the policy is asked about is that of the statement's own
\* verb, not of a query inside a WITH (findCTEAction).
VerbIsMain == pc = "end" => main = stmt.main

\* Every table that the statement names is found, wherever it stands, through
\* lists, joins, subqueries and WITH queries, if its lists are plain
\* (extractObjects).
NoTableOverlooked ==
  pc = "end" /\ main \in Verbs /\ PlainTables(stmt.tokens) => stmt.tables \subseteq objects

\* An alias, or the name of a WITH query that is plain, is never taken for a table
\* (collectCTENames), so no profile has to list it.
OthersAreNoTables ==
  pc = "end" /\ main \in Verbs /\ PlainWith(stmt.tokens) => objects \cap stmt.others = {}

\* What the message "table access blocked: <object> is not allowed by
\* allow_tables" calls a table is one.
ObjectsAreTables == pc = "end" => objects \subseteq stmt.tables
=============================================================================
