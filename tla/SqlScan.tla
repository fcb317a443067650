------------------------------ MODULE SqlScan -------------------------------
(***************************************************************************)
(* How dbx reads an SQL text before the policy: it is cut into statements  *)
(* at its semicolons (splitStatements), each statement loses its comments  *)
(* (stripComments) and is searched for WHERE (containsKeyword).  Both      *)
(* scans are loops over the characters, and each keeps a state of its own  *)
(* for strings and comments (internal/sqlanalyzer).  Neither asks which     *)
(* engine the text is for, and the three engines read strings and comments *)
(* by rules of their own (Dialects).                                       *)
(***************************************************************************)
EXTENDS Integers, Sequences, FiniteSetsExt

CONSTANTS
  Char,    \* the characters that occur, a subset of AllChars
  MaxLen   \* bound: length of a text

\* A character, or a word that the scans copy as one.  "apos" is either of ' and ",
\* "tick" the backtick, "esc" the backslash, "nl" the end of a line, "sp" any other
\* blank, "x" any other word.
AllChars == {"apos", "tick", ";", "-", "/", "*", "esc", "nl", "sp", "x", "where"}
Quotes == {"apos", "tick"}
Blanks == {"nl", "sp"}

ASSUME ScanArguments == Char \subseteq AllChars /\ MaxLen \in Nat

VARIABLES
  text,      \* the text; never changes
  pc,        \* "split", "strip" or "end"
  i,         \* position in the text, then in the statement
  quote,     \* the quote that is open, or "none"
  current,   \* what has been read of the statement
  parts,     \* the statements
  stripped,  \* statements without their comments
  inside     \* "none", "line" or "block": the comment that is being dropped

vars == <<text, pc, i, quote, current, parts, stripped, inside>>

Init ==
  /\ \E n \in 0 .. MaxLen : text \in [1 .. n -> Char]
  /\ pc = "split" /\ i = 1
  /\ quote = "none" /\ inside = "none"
  /\ current = <<>> /\ parts = <<>> /\ stripped = <<>>

\* strings.TrimSpace.
Trim(s) ==
  LET words == {k \in 1 .. Len(s) : s[k] \notin Blanks} IN
  IF words = {} THEN <<>> ELSE SubSeq(s, Min(words), Max(words))

WithPart(s) == IF Trim(s) = <<>> THEN parts ELSE Append(parts, Trim(s))

\* The two characters at position k of s.
At(s, k, a, b) == k < Len(s) /\ s[k] = a /\ s[k + 1] = b

-----------------------------------------------------------------------------
(* splitStatements.                                                        *)

Escapes == text[i] = "esc" /\ i < Len(text)

Splitting == pc = "split" /\ i <= Len(text)

Read(last) ==
  /\ current' = current \o SubSeq(text, i, last)
  /\ i' = last + 1
  /\ UNCHANGED <<text, pc, parts, stripped, inside>>

\* (mutant) Either quote ends a string.
InAnyQuote ==
  /\ Splitting /\ quote # "none"
  /\ IF text[i] \in Quotes THEN quote' = "none" /\ Read(i)
     ELSE UNCHANGED quote /\ Read(IF Escapes THEN i + 1 ELSE i)

InQuote ==
  /\ Splitting /\ quote # "none"
  /\ IF text[i] = quote THEN quote' = "none" /\ Read(i)
     ELSE UNCHANGED quote /\ Read(IF Escapes THEN i + 1 ELSE i)

\* The comment up to and with its line end.
LineComment ==
  /\ Splitting /\ quote = "none"
  /\ At(text, i, "-", "-")
  /\ Read(Min({k \in i .. Len(text) : text[k] = "nl"} \cup {Len(text)}))
  /\ UNCHANGED quote

\* The search for the end begins at the star that opens the comment.
BlockComment ==
  /\ Splitting /\ quote = "none"
  /\ At(text, i, "/", "*")
  /\ Read(Min({k + 1 : k \in {k \in i + 1 .. Len(text) : At(text, k, "*", "/")}} \cup {Len(text)}))
  /\ UNCHANGED quote

NoComment == ~At(text, i, "-", "-") /\ ~At(text, i, "/", "*")

Semicolon ==
  /\ Splitting /\ quote = "none"
  /\ text[i] = ";"
  /\ parts' = WithPart(current)
  /\ current' = <<>>
  /\ i' = i + 1
  /\ UNCHANGED <<text, pc, quote, stripped, inside>>

Copy ==
  /\ Splitting /\ quote = "none" /\ NoComment
  /\ text[i] # ";"
  /\ quote' = IF text[i] \in Quotes THEN text[i] ELSE "none"
  /\ Read(i)

SplitDone ==
  /\ pc = "split" /\ i > Len(text)
  /\ parts' = WithPart(current)
  /\ current' = <<>>
  /\ pc' = IF parts' = <<>> THEN "end" ELSE "strip"
  /\ i' = 1
  /\ UNCHANGED <<text, quote, stripped, inside>>

-----------------------------------------------------------------------------
(* stripComments, statement by statement.                                  *)

Part == parts[Len(stripped) + 1]
Stripping == pc = "strip" /\ i <= Len(Part)

Keep(s) == current' = current \o s
Step(n) == i' = i + n /\ UNCHANGED <<text, pc, quote, parts, stripped>>

InLine ==
  /\ Stripping /\ inside = "line"
  /\ IF Part[i] = "nl" THEN inside' = "none" /\ Keep(<<"nl">>) ELSE UNCHANGED <<inside, current>>
  /\ Step(1)

\* (mutant) A block comment ends with its line.
InBlockToLineEnd ==
  /\ Stripping /\ inside = "block"
  /\ IF Part[i] = "nl" THEN inside' = "none" ELSE UNCHANGED inside
  /\ UNCHANGED current
  /\ Step(1)

InBlock ==
  /\ Stripping /\ inside = "block"
  /\ IF At(Part, i, "*", "/") THEN inside' = "none" /\ Step(2) ELSE UNCHANGED inside /\ Step(1)
  /\ UNCHANGED current

Opens ==
  /\ Stripping /\ inside = "none"
  /\ \/ At(Part, i, "-", "-") /\ inside' = "line"
     \/ At(Part, i, "/", "*") /\ inside' = "block"
  /\ UNCHANGED current
  /\ Step(2)

KeepChar ==
  /\ Stripping /\ inside = "none"
  /\ ~At(Part, i, "-", "-") /\ ~At(Part, i, "/", "*")
  /\ Keep(<<Part[i]>>)
  /\ UNCHANGED inside
  /\ Step(1)

StripDone ==
  /\ pc = "strip" /\ i > Len(Part)
  /\ stripped' = Append(stripped, current)
  /\ pc' = IF Len(stripped') = Len(parts) THEN "end" ELSE "strip"
  /\ i' = 1 /\ inside' = "none" /\ current' = <<>>
  /\ UNCHANGED <<text, quote, parts>>

Next ==
  \/ InQuote \/ LineComment \/ BlockComment \/ Semicolon \/ Copy \/ SplitDone
  \/ InLine \/ InBlock \/ Opens \/ KeepChar \/ StripDone

Spec == Init /\ [][Next]_vars

-----------------------------------------------------------------------------
(* Reference: what the text says to the server.                            *)

\* What opens a string or a quoted name, in which of them a backslash takes the next
\* character, whether two dashes need a blank to open a comment, and whether block
\* comments stand inside each other.
Dialect(quotes, escapes, spaced, nests) ==
  [quotes |-> quotes, escapes |-> escapes, spaced |-> spaced, nests |-> nests]

SQLite == Dialect(Quotes, {}, FALSE, FALSE)
PostgreSQL == Dialect({"apos"}, {}, FALSE, TRUE)
MySQL == Dialect(Quotes, {"apos"}, TRUE, FALSE)
Dialects == {SQLite, PostgreSQL, MySQL}

Dashes(d, s, k) == At(s, k, "-", "-") /\ (d.spaced /\ k + 2 <= Len(s) => s[k + 2] \in Blanks)

\* State[d, s][k] is the state of a lexer behind the first k characters of s: in
\* code, in a string, behind the backslash of one, or in a comment.
After(d, s, k, state) ==
  CASE state = "code" ->
         IF s[k] \in d.quotes THEN s[k]
         ELSE IF Dashes(d, s, k) THEN "line"
         ELSE IF At(s, k, "/", "*") THEN "open" ELSE "code"
    [] state = "apos" ->
         IF s[k] = state THEN "code" ELSE IF s[k] = "esc" /\ state \in d.escapes THEN "escaped" ELSE state
    [] state = "tick" -> IF s[k] = state THEN "code" ELSE state
    [] state = "escaped" -> "apos"
    [] state = "line" -> IF s[k] = "nl" THEN "code" ELSE "line"
    [] state = "open" -> "block"
    [] state = "block" -> IF At(s, k, "*", "/") THEN "close" ELSE "block"
    [] state = "close" -> "code"

State(d, s) ==
  LET f[k \in 0 .. Len(s)] == IF k = 0 THEN "code" ELSE After(d, s, k, f[k - 1]) IN f

\* The positions where the text is neither string nor comment.
Code(d, s) ==
  LET state == State(d, s) IN {k \in 1 .. Len(s) : state[k - 1] = "code" /\ state[k] = "code"}
Separators(d, s) == {k \in Code(d, s) : s[k] = ";"}

\* The statements of a text: what stands between two separators, if anything.
TrueStatements(d, s) ==
  LET cuts == Separators(d, s) \cup {0, Len(s) + 1}
      following(a) == Min({b \in cuts : b > a})
      piece(a) == Trim(SubSeq(s, a + 1, following(a) - 1))
      starts == {a \in cuts \ {Len(s) + 1} : piece(a) # <<>>}
  IN  {[at |-> a, is |-> piece(a)] : a \in starts}

\* The characters of s at the positions K; and those that are left without the
\* comments, of which a line comment leaves its line end.
Listed(s, K) ==
  [n \in 1 .. Cardinality(K) |-> s[CHOOSE k \in K : Cardinality({m \in K : m <= k}) = n]]
Kept(d, s) ==
  LET state == State(d, s) IN
  Code(d, s) \cup {k \in 1 .. Len(s) : state[k - 1] = "line" /\ s[k] = "nl"}

\* Block comments inside each other, which the lexer does not follow.
Nested(d, s) ==
  LET state == State(d, s) IN
  d.nests /\ \E k \in 1 .. Len(s) : state[k - 1] = "block" /\ At(s, k, "/", "*")

\* The server has the scans' rules for the text: no backslash in a string that has no
\* escapes, no quote that opens nothing, no two dashes that open no comment.
Plain(d, s) ==
  LET state == State(d, s) IN
  /\ ~Nested(d, s)
  /\ \A k \in 1 .. Len(s) :
       /\ state[k - 1] \in Quotes /\ s[k] = "esc" => state[k - 1] \in d.escapes
       /\ state[k - 1] = "code" =>
            (s[k] \in Quotes => s[k] \in d.quotes) /\ (At(s, k, "-", "-") => Dashes(d, s, k))

\* "/*/" opens a comment and does not close it; the split takes it for a whole.
Ambiguous(d, s) ==
  LET state == State(d, s) IN \E k \in 1 .. Len(s) - 2 : state[k] = "open" /\ At(s, k + 1, "*", "/")

\* A word of s that stands by itself.
Alone(s, k) == \A n \in {k - 1, k + 1} \cap 1 .. Len(s) : s[n] \in Blanks

\* containsKeyword: the comments are dropped once more, strings or not, and the words
\* are those between blanks.
NoQuotes == Dialect({}, {}, FALSE, FALSE)
HasWhere(k) ==
  LET s == Trim(stripped[k])
      left == Listed(s, Kept(NoQuotes, s))
  IN  \E j \in 1 .. Len(left) : left[j] = "where" /\ Alone(left, j)

-----------------------------------------------------------------------------
(* Properties.                                                             *)

\* The text is cut at the semicolons that stand outside strings and comments of the
\* server, and nowhere else, so "one statement" means one, for each engine and every
\* text that it reads by the scans' rules (splitStatements, ValidateSingleStatement).
SplitIsRight ==
  \A d \in Dialects :
    pc # "split" /\ Plain(d, text) /\ ~Ambiguous(d, text) =>
      LET statements == TrueStatements(d, text) IN
      /\ Len(parts) = Cardinality(statements)
      /\ \A st \in statements : parts[Cardinality({o \in statements : o.at <= st.at})] = st.is

\* What is left of a statement without strings is its code: no comment is taken
\* for SQL, and no SQL for a comment, on the same terms (stripComments).
StripIsRight ==
  \A d \in Dialects : \A k \in 1 .. Len(stripped) :
    Plain(d, parts[k]) /\ (\A j \in 1 .. Len(parts[k]) : parts[k][j] \notin Quotes) =>
      stripped[k] = Listed(parts[k], Kept(d, parts[k]))

\* What is refused for lack of a WHERE clause lacks one: of a text that begins
\* with an update (analyzeStatement, HasUnsafeWrite).
BlockedLacksWhere ==
  pc = "end" /\ Len(parts) = 1 /\ ~HasWhere(1) =>
    \A d \in Dialects : Plain(d, text) =>
      \A k \in Code(d, text) : text[k] = "where" => ~Alone(text, k)

\* A text that is several statements to a server is several to the analyser, so it is
\* refused: two words of its code have a separator between them (splitStatements,
\* Analyze).
SeveralAreSeen ==
  pc = "end" =>
    \A d \in Dialects : ~Nested(d, text) =>
      LET words == {k \in Code(d, text) : text[k] = "x"} IN
      (\E a, b \in words, c \in Separators(d, text) : a < c /\ c < b) => Len(parts) > 1
=============================================================================
