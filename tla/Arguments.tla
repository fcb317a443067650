----------------------------- MODULE Arguments ------------------------------
(***************************************************************************)
(* From the words of a command line to what a command runs with.  Every    *)
(* line is parsed three times: the commands of third_party/cobra parse it  *)
(* level by level, internal/app writes what they found into a new line,    *)
(* and internal/cli sorts that line and gives it to the flag package.      *)
(***************************************************************************)
EXTENDS Integers, Sequences, SequencesExt

CONSTANT Numerals  \* words that are numbers

\* A word is a record: how many dashes it begins with, what follows them, and
\* what follows an equal sign if there is one.
None == "none"
Dashed(d, n) == [dashes |-> d, name |-> n, value |-> <<>>]
Word(w) == Dashed(0, w)
Flag(n) == Dashed(2, n)
FlagWith(n, v) == [Flag(n) EXCEPT !.value = <<v>>]
DashDash == Flag("")
HelpWords == {Flag("help"), Dashed(1, "h")}

Names == {"config", "format", "dry-run", "page-size", "max-rows-affected", "cursor",
          "verbose", "limit", "plan", "version"}
Bools == {"dry-run", "verbose", "version"}
Numbers == {"page-size", "max-rows-affected", "limit"}
Suits(n, v) ==
  /\ n \in Bools => v \in {Word("true"), Word("false")}
  /\ n \in Numbers => v \in {Word(k) : k \in Numerals}

\* The commands; a path is the names down to one.
Groups == {<<>>, <<"conn">>, <<"inspect">>, <<"secret">>}
Statements == {<<"query">>, <<"update">>, <<"schema">>, <<"admin">>}
Leaves ==
  {<<"conn", s>> : s \in {"list", "test", "show", "resolve"}}
  \cup {<<"inspect", s>> : s \in {"schema", "table", "connection"}}
  \cup Statements
  \cup {<<"tx">>, <<"import">>, <<"export">>, <<"secret", "encrypt">>, <<"version">>}
Paths == Groups \cup Leaves
Top(path) == IF path = <<>> THEN "dbx" ELSE path[1]
Printers == {<<"secret", "encrypt">>, <<"version">>}

\* What a setting is when nothing is said of it.
Unset(top, n) ==
  CASE n \in Bools -> Word("false")
    [] n = "format" -> Word(IF top = "export" THEN "csv" ELSE "json")
    [] n = "page-size" -> Word("100")
    [] n = "max-rows-affected" -> Word("1000")
    [] n = "limit" -> Word("0")
    [] n \in {"config", "cursor", "plan"} -> Word("")
Default(path) == [n \in Names |-> Unset(Top(path), n)]

ConnFlags == {"config", "format", "verbose"}
CommonFlags == ConnFlags \cup {"dry-run", "page-size", "max-rows-affected", "cursor"}
ExportFlags == ConnFlags \cup {"limit"}
Persistent(path) == IF path \in {<<"conn">>, <<"inspect">>} THEN ConnFlags ELSE {}
Local(path) ==
  CASE path = <<>> -> {"version"}
    [] path \in Statements \cup {<<"import">>} -> CommonFlags
    [] path = <<"tx">> -> CommonFlags \cup {"plan"}
    [] path = <<"export">> -> ExportFlags
    [] OTHER -> {}

-----------------------------------------------------------------------------
(* The first parser: third_party/cobra.                                    *)

\* A parser takes flags until it takes all words as they are, or finds an error;
\* a flag may wait for its value.
Start(set) == [set |-> set, want |-> None, mode |-> "flags", words |-> <<>>]
Put(acc, n, v) == [acc EXCEPT !.set[n] = v]
Await(acc, n) == [acc EXCEPT !.want = n]
Enter(acc, mode) == [acc EXCEPT !.mode = mode]
Take(acc, a) == [acc EXCEPT !.words = Append(@, a)]
SetFlag(acc, n, v) == IF Suits(n, v) THEN Await(Put(acc, n, v), None) ELSE Enter(acc, "bad")

ParseWord(acc, a, names, unknown) ==
  IF acc.mode = "bad" THEN acc
  ELSE IF acc.want # None THEN SetFlag(acc, acc.want, a)
  ELSE IF acc.mode = "flags" /\ a = DashDash THEN Enter(acc, "words")
  ELSE IF acc.mode = "words" \/ a \in HelpWords \/ a.dashes # 2 \/ (a.name \notin names /\ unknown = "kept")
  THEN Take(acc, a)
  ELSE IF a.name \notin names THEN Enter(acc, "bad")
  ELSE IF a.value # <<>> THEN SetFlag(acc, a.name, a.value[1])
  ELSE IF a.name \in Bools THEN SetFlag(acc, a.name, Word("true"))
  ELSE Await(acc, a.name)

\* A flag that still waits for its value is an error.
Ended(acc) == IF acc.want # None THEN Enter(acc, "bad") ELSE acc
ParseFlagSet(args, set, names, unknown) ==
  LET after[k \in 0 .. Len(args)] ==
        IF k = 0 THEN Start(set) ELSE ParseWord(after[k - 1], args[k], names, unknown)
  IN  Ended(after[Len(args)])

\* The validators of the commands.
Counts(path, words) ==
  CASE path \in Statements ->
         IF words = <<>> THEN {} ELSE
         CASE words[1] = Word("file") -> {3}
           [] words[1] = Word("dsn") -> {4}
           [] OTHER -> {2}
    [] path = <<"tx">> -> {1}
    [] path = <<"import">> -> IF words # <<>> /\ words[1] = Word("file") THEN {4} ELSE {}
    [] path = <<"export">> -> IF words # <<>> /\ words[1] = Word("table") THEN {4} ELSE {}
    [] path \in {<<"conn", "list">>, <<"version">>} -> {0}
    [] path = <<"inspect", "schema">> -> {1, 2}
    [] path = <<"inspect", "table">> -> {2, 3}
    [] path = <<"secret", "encrypt">> -> {0, 1}
    [] path \in Groups -> Nat
    [] OTHER -> {1}

Answer(kind, path, set, words) == [kind |-> kind, path |-> path, set |-> set, words |-> words]

\* help with the names of a command behind it.
HelpFor(at, outer) ==
  LET topic == Tail(outer.words) IN
  Answer(IF /\ \A k \in 1 .. Len(topic) : topic[k].dashes = 0
            /\ at.path \o [k \in 1 .. Len(topic) |-> topic[k].name] \in Paths
         THEN "print" ELSE "usage", at.path, outer.set, outer.words)

\* The command itself, behind its flags: what kind of answer its words get.
KindOf(path, inner) ==
  IF inner.mode = "bad" \/ (path = <<"tx">> /\ inner.set["plan"] = Word("")) THEN "usage"
  ELSE IF \E k \in 1 .. Len(inner.words) : inner.words[k] \in HelpWords THEN "print"
  ELSE IF \/ path \in Groups /\ inner.words # <<>> /\ inner.words[1].dashes = 0
          \/ Len(inner.words) \notin Counts(path, inner.words)
  THEN "usage"
  ELSE IF path \in Groups \cup Printers THEN "print" ELSE "run"
Answered(path, inner) == Answer(KindOf(path, inner), path, inner.set, inner.words)

\* Behind the persistent flags: help, a child, or the command itself.
Below(path, words) ==
  IF words # <<>> /\ words[1].dashes = 0 THEN Append(path, words[1].name) ELSE <<None>>
Follow(at, outer) ==
  LET first == IF outer.words = <<>> THEN DashDash ELSE outer.words[1]
      child == Below(at.path, outer.words)
  IN  IF outer.mode = "bad" THEN Answer("usage", at.path, outer.set, outer.words)
      ELSE IF first = Word("help") THEN HelpFor(at, outer)
      ELSE IF first \in HelpWords THEN Answer("print", at.path, outer.set, outer.words)
      ELSE IF child \in Paths
      THEN Answer("at", child, IF at.path = <<>> THEN Default(child) ELSE outer.set, Tail(outer.words))
      ELSE Answered(at.path, ParseFlagSet(outer.words, outer.set, Local(at.path), "refused"))

\* One level of Command.execute: down to a child, or an answer.
Descend(at) ==
  IF at.kind # "at" THEN at
  ELSE Follow(at, ParseFlagSet(at.words, at.set, Persistent(at.path), "kept"))

Parse(line) == Descend(Descend(Descend(Answer("at", <<>>, Default(<<>>), line))))

-----------------------------------------------------------------------------
(* The line internal/app writes for internal/cli.                          *)

Forwarded(path) ==
  CASE Top(path) \in {"conn", "inspect"} -> <<"config", "format", "verbose">>
    [] Top(path) = "export" -> <<"config", "format", "limit", "verbose">>
    [] OTHER -> <<"config", "format", "dry-run", "page-size", "max-rows-affected", "cursor", "verbose">>

\* (mutant) A setting is forwarded when it has a value.
PieceAlways(n, v, default) ==
  IF v = Word("") THEN <<>> ELSE IF n \in Bools THEN <<Flag(n)>> ELSE <<Flag(n), v>>

\* Settings that are the default, or empty, are left out.
Piece(n, v, default) ==
  IF v \in {default, Word("")} THEN <<>> ELSE IF n \in Bools THEN <<Flag(n)>> ELSE <<Flag(n), v>>

\* The line behind the names of the command.
Forward(parsed) ==
  LET default == Default(parsed.path)
      pieces == [i \in 1 .. Len(Forwarded(parsed.path)) |->
                   LET n == Forwarded(parsed.path)[i] IN Piece(n, parsed.set[n], default[n])]
  IN  FlattenSeq(pieces) \o parsed.words
      \o (IF parsed.path = <<"tx">> THEN <<Flag("plan"), parsed.set["plan"]>> ELSE <<>>)

-----------------------------------------------------------------------------
(* The second parser: internal/cli, and flag.FlagSet.Parse under it.       *)

LegacyFlags(path) ==
  CASE Top(path) = "conn" -> ConnFlags
    [] Top(path) = "export" -> ExportFlags
    [] Top(path) = "tx" -> CommonFlags \cup {"plan"}
    [] OTHER -> CommonFlags

\* Flags that normalizeFlagArgs knows to have a value.
ValueFlags(path) ==
  CASE Top(path) = "conn" -> {"config", "format"}
    [] Top(path) = "export" -> {"config", "format", "limit"}
    [] Top(path) = "tx" -> {"config", "format", "page-size", "max-rows-affected", "plan"}
    [] OTHER -> {"config", "format", "page-size", "max-rows-affected", "cursor", "limit"}

\* Flags first, then the other words.
Unsorted == [flags |-> <<>>, words |-> <<>>, next |-> "word"]
InFront(acc, a, next) == [acc EXCEPT !.flags = Append(@, a), !.next = next]
SortWord(acc, a, valueFlags) ==
  IF acc.next = "value" THEN InFront(acc, a, "word")
  ELSE IF a.dashes = 0 THEN Take(acc, a)
  ELSE InFront(acc, a, IF a.dashes = 2 /\ a.value = <<>> /\ a.name \in valueFlags THEN "value" ELSE "word")
NormalizeFlagArgs(args, valueFlags) ==
  LET sorted[k \in 0 .. Len(args)] ==
        IF k = 0 THEN Unsorted ELSE SortWord(sorted[k - 1], args[k], valueFlags)
      end == sorted[Len(args)]
  IN  end.flags \o end.words

\* The flag package stops at the first word that is no flag, and one dash is as
\* good as two.
FlagWord(acc, a, names) ==
  IF acc.mode = "bad" THEN acc
  ELSE IF acc.want # None THEN SetFlag(acc, acc.want, a)
  ELSE IF acc.mode = "words" \/ a.dashes = 0 THEN Take(Enter(acc, "words"), a)
  ELSE IF a = DashDash THEN Enter(acc, "words")
  ELSE IF a.name \notin names
  THEN Await(Enter(acc, "bad"), IF a.name \in {"h", "help"} THEN "help" ELSE None)
  ELSE IF a.value # <<>> THEN SetFlag(acc, a.name, a.value[1])
  ELSE IF a.name \in Bools THEN SetFlag(acc, a.name, Word("true"))
  ELSE Await(acc, a.name)
FlagParse(args, set, names) ==
  LET after[k \in 0 .. Len(args)] ==
        IF k = 0 THEN Start(set) ELSE FlagWord(after[k - 1], args[k], names)
  IN  Ended(after[Len(args)])

\* How many words a command must have, and how many it looks at.
Needs(path, words) ==
  CASE path \in Statements ->
         IF words = <<>> THEN 1 ELSE
         CASE words[1] = Word("dsn") -> 4
           [] words[1] = Word("file") -> 3
           [] OTHER -> 2
    [] path \in {<<"import">>, <<"export">>} -> 4
    [] path = <<"inspect", "table">> -> 2
    [] path \in {<<"tx">>, <<"inspect", "schema">>, <<"inspect", "connection">>} -> 1
    [] Top(path) = "conn" -> 0
LooksAt(path, words) ==
  CASE path \in {<<"conn", s>> : s \in {"test", "show", "resolve"}} -> 1
    [] path \in {<<"inspect", "schema">>, <<"inspect", "table">>} -> Needs(path, words) + 1
    [] OTHER -> Needs(path, words)

\* What the command runs with, once its flags are parsed: a bad flag is an error
\* of its own, missing words are refused.
Used(path, words) == SubSeq(words, 1, Min({Len(words), LooksAt(path, words)}))
LegacyKind(path, end) ==
  IF end.mode = "bad" THEN IF end.want = "help" THEN "help" ELSE "raw"
  ELSE IF \/ Len(end.words) < Needs(path, end.words)
          \/ path = <<"import">> /\ end.words[1] # Word("file")
          \/ path = <<"export">> /\ end.words[1] # Word("table")
          \/ path = <<"tx">> /\ end.set["plan"] = Word("")
  THEN "refused" ELSE "run"
Taken(path, end) == Answer(LegacyKind(path, end), path, end.set, Used(path, end.words))

\* A line that begins with a word for help prints it.
Helps(path, args) ==
  /\ path \in {<<"tx">>, <<"import">>, <<"export">>} /\ args # <<>>
  /\ args[1] \in HelpWords \cup {Word("help")}
Legacy(path, args) ==
  IF Helps(path, args) THEN Answer("help", path, Default(path), <<>>)
  ELSE Taken(path, FlagParse(NormalizeFlagArgs(args, ValueFlags(path)), Default(path), LegacyFlags(path)))

\* What becomes of a line.
Passed(parsed) == IF parsed.kind = "run" THEN Legacy(parsed.path, Forward(parsed)) ELSE parsed
Reading(line) == Passed(Parse(line))

-----------------------------------------------------------------------------
(* The lines that say the same thing.                                      *)

Simple == [dashes : 0 .. 2, name : STRING, value : {<<>>}]
Plain == [dashes : {0}, name : STRING, value : {<<>>}]
AnyWord == [dashes : 0 .. 2, name : STRING, value : Seq(Simple)]

\* A meaning is a command, settings beside the defaults, and words.
Settings(m) == [n \in Names |-> IF n \in DOMAIN m.set THEN m.set[n] ELSE Default(m.path)[n]]
Meant(m) == Answer("run", m.path, Settings(m), m.words)

\* What can be meant: a command that has these flags and so many words.
Sensible(m) ==
  /\ m.path \in Leaves \ Printers
  /\ m.words \in Seq(Plain) /\ Len(m.words) \in Counts(m.path, m.words)
  /\ m.words # <<>> => m.words[1] # Word("help")
  /\ DOMAIN m.set \subseteq IF Len(m.path) = 1 THEN Local(m.path) ELSE Persistent(<<m.path[1]>>)
  /\ \A n \in DOMAIN m.set :
       /\ m.set[n] \in Simple \ {DashDash} /\ Suits(n, m.set[n])
       /\ n \in Bools => m.set[n] = Word("true")
       /\ m.set[n] = Word("") => Default(m.path)[n] = Word("")
  /\ m.path = <<"tx">> => "plan" \in DOMAIN m.set /\ m.set["plan"] # Word("")

\* It is written in pieces: words, flags in one of their spellings, and two dashes
\* behind which there are only words.
Spellings(n, v) == IF n \in Bools THEN {<<Flag(n)>>} ELSE {<<Flag(n), v>>, <<FlagWith(n, v)>>}
IsWord(piece) == Len(piece) = 1 /\ piece[1] \in Plain
OnlyWords(pieces) == [k \in 1 .. Len(pieces) |-> IF IsWord(pieces[k]) THEN pieces[k] ELSE <<>>]

Spells(pieces, m) ==
  /\ pieces \in Seq(Seq(AnyWord))
  /\ \A k \in 1 .. Len(pieces) :
       \/ IsWord(pieces[k])
       \/ \E n \in DOMAIN m.set : pieces[k] \in Spellings(n, m.set[n])
       \/ pieces[k] = <<DashDash>> /\ \A j \in k + 1 .. Len(pieces) : IsWord(pieces[j])
  /\ \A n \in DOMAIN m.set : \E k \in 1 .. Len(pieces) : pieces[k] \in Spellings(n, m.set[n])
  /\ FlattenSeq(OnlyWords(pieces)) = [i \in 1 .. Len(m.path) - 1 |-> Word(m.path[i + 1])] \o m.words

Line(m, pieces) == <<Word(m.path[1])>> \o FlattenSeq(pieces)
=============================================================================
