# A formal model of dbx

dbx is a command line program, written for agents and scripts, that runs SQL
against SQLite, PostgreSQL and MySQL: it resolves a named connection, decides
whether the connection permits what is asked, runs it within a time limit, and
prints one envelope that tells the caller what happened.  Every invocation is a
process of its own; invocations meet in the database, in the profile files and
in the credential store of the machine.

This directory models that program in TLA+.  TLC checks the models on small
instances; TLAPS proves the safety properties that matter most for every
value of the constants.

## Inventory

| component | state it keeps | operations | interacts with |
|---|---|---|---|
| execution of writes (`internal/db`) | transaction, context, affected rows, the answer | `ExecuteGuarded`, `RunTxPlan`, `ImportRows` | `database/sql` (a goroutine of its own), the driver, the server; other calls through row locks |
| paged queries (`internal/db`, `internal/cli`) | result, counters, cursor | `Query`, `queryWithRunner`, `nextCursor` | other sessions that write; the caller, who sends the cursor back |
| invocation and policy (`internal/cli`) | resolved profile, the text, the plan | `runSQLCommand`, `runTx`, `runImport`, `runExport`, `runInspect`, `enforcePolicy` | all of the others; files that others save |
| connection profiles (`internal/config`) | the files | `List`, `LoadNamed` | whoever edits the files |
| connection resolution (`internal/conn`) | none | `Resolve`, `finalize`, `AllowsTable` | profiles, encrypted passwords, environment |
| SQL analyser (`internal/sqlanalyzer`) | position and flags of each scan | `Analyze` | the policy |
| encrypted passwords (`internal/secret`, `internal/app`) | keys in the credential store | `secret encrypt`, `DecryptString` | the credential store, profiles that are copied by hand |
| schema inspection (`internal/db`, `internal/cli`) | what the queries have returned so far | `DescribeTable`, `ListSchemas`, `ListTables`, `ListRelations` | other sessions that change the schema; the timer |
| export and import files (`internal/cli`, `internal/db`) | the file | `runExport`, `ExportRows`, `runImport`, `readImportFile` | the disk; an import that reads the file of an export |
| command tree, arguments, stdout (`cmd/dbx`, `internal/app`, `internal/output`, `third_party/cobra`) | flags, the forwarded line, the pipe | `Execute`, `runLegacyCommand`, `normalizeFlagArgs`, `PrintEnvelope` | the caller, whose stdout may break; a copying goroutine |
| error codes, help texts, build information, packaging | none | see `PROJECT.json` | |

What is hard, and what makes each component correct:

- **Writes.**  Between two statements the timer may fire, Ctrl-C may come, the
  link may break and the process may be killed; when the context ends,
  `database/sql` rolls back from a goroutine of its own while the main one goes
  on to `Commit` or to the deferred `Rollback`.  Correct: all statements or none;
  no durable statement over its row limit; "ok" only of durable work; a refusal
  before COMMIT leaves nothing; every call ends and frees its rows.
- **Pages.**  Each page is a query of its own and the cursor is an offset.
  Correct: a page is the slice it names; pages of a table that only grows at its
  end are a prefix of it; what other writes cost is known exactly.
- **Invocation.**  Profile and text are files that may be saved anew at any
  moment.  Correct: what runs was read once, checked as a whole and permitted by
  the very profile whose database it reaches; a refusal or a dry run connects
  to nothing.
- **Profiles.**  Two directories are searched file by file.  Correct: the
  agent's file wins, valid or not; "not found" and the list tell the truth
  whatever is edited meanwhile.
- **Passwords.**  A key is stored, then its line is printed; lines are copied
  between machines.  Correct: a printed line opens; the reason of a failure is
  the true one.
- **Analyser.**  Hand-written loops over characters and words.  Correct: one
  statement is one statement, comments are comments, the verb is the outer one,
  no table is overlooked.
- **Inspection.**  An answer is put together from several queries without a
  transaction, and some loops do not look at `rows.Err`.  Correct: what is shown
  was so, at moments of the call in the order of the queries.
- **Files.**  An export truncates its file, then writes it; it may be killed, and
  the disk may be full.  Correct: "ok" comes with a whole file; what an import
  takes for rows was exported.
- **Arguments and stdout.**  A line is parsed by two parsers of different rules,
  with a third line written in between; output may pass through a pipe.
  Correct: a command runs with what was meant; the exit code is true of what
  the caller has; the call ends.

`PROJECT.json` lists the hazards at their lines, with the properties that cover
them, and for the rest the reason why none does.

## Modules

| module | models | read as |
|---|---|---|
| `AtomicWrites` | nothing of the code: the promise to a caller of `update`, `tx`, `import` | a fate, a COMMIT asked for and an answer per call |
| `TxExec` | the three write functions, `database/sql`'s rollback goroutine, server, link, timer, kill | `pc` is the line the main goroutine is at, `reaper` the other goroutine, `txDone` the transaction's done flag; `req`/`rsp` are what is on the wire, `sess`, `affected`, `applied` the server's side |
| `QueryPage` | row loop, cursor, other sessions | `table` is the ordered result now, `view` what the running query sees, `got` all pages so far |
| `Command` | one invocation of any data command, from its arguments to the database | `profile` and `input` are the files on disk, `spec` and `plan` what the call holds in memory, `sent` and `shown` what it did |
| `ConfigStore` | `List` and `LoadNamed` over files that change | `files` is the disk, `at` the place that is searched, `listed` and `found` the outcome |
| `Secret` | encryption on several machines at a time, profiles, opening | `keyring` per machine, `enc` the running encryptions, `issued` the lines printed, `conf` the line in each profile, `dec` the call that opens it |
| `SqlScan` | `splitStatements`, `stripComments`, `containsKeyword` | `i` the position, `quote`/`inside` the state of each loop; the reference is a lexer (`State`) with the rules of each engine (`Dialects`) |
| `SqlObjects` | `findCTEAction`, `collectCTENames`, `extractObjects` | the flags `expectTable`, `inTableList` as in the code; below the loops, what a reader of SQL finds in the same words (`MainVerb`, `WithNames`, `TableAt`) |
| `TableAccess` | `parseAllowTables`, `wildcardMatch`, `AllowsTable` | operators, with `Globs` as reference; `Found` is where the loop over the parts of a pattern stands |
| `TablePolicy` | `enforceTablePolicy`; composes the two modules above | `answer` allowed or blocked |
| `Analyser` | the analyser as a whole: `SqlScan` beside `TablePolicy`, one of them at rest | what the statements may be (`Written`, `Reader`) |
| `SqlGrammar` | nothing of the code: a small SQL grammar, patterns and arguments | the inputs of two instances |
| `Inspect` | the queries of inspect for the three engines, against a schema that changes and a context that ends | `pc` the query that comes next, `found` what was read, `seen` every schema there was |
| `Reads` | nothing of its own: `QueryPage` beside `Inspect` (its instance `Look`), one of them at rest | `ReadsSpec`, the specification of the run |
| `DataFiles` | an export's file from `os.Create` to `Close`, exports one after the other, and an import | `file` is the text on disk up to where it breaks off, `export` and `import` the two processes |
| `Stores` | nothing of its own: `ConfigStore` beside `Secret` (its instance `Keys`) and `DataFiles` (`Data`), two of them at rest | `used` says which one moves; `StoresSpec`, the specification of the run |
| `Arguments` | the three parsers of a line, as operators | `Parse` is `Command.execute`, `Forward` the `append...FlagArgs`, `Legacy` the parsing in `internal/cli` |
| `Entry` | one call from its line to its exit code, the pipe and its goroutine, a stdout that breaks | `pc` the call, `copier` the goroutine, `pipe` and `out` the parts of the text |
| `MC*` | the instances that TLC checks | values of the constants |
| `*Proofs` | inductive invariants and theorems | |

Each `(mutant)` definition changes the definition behind it as a plausible
mistake in the code would; with it in place, a property of the run must fail.

How the parts meet: `Command` stands above the others.  `Resolve` in it is
`LoadNamed` of `ConfigStore` followed by the opening of the password in `Secret`;
the statement record that it checks is what `SqlScan` and `SqlObjects` compute;
`TablesAllowed` is `TablePolicy` with the patterns replaced by the tables they
match; `Send` is one statement of `TxExec` or the query of `QueryPage`, and its
`Inspect` is all of `Inspect`.  `Entry` stands around it: `Run` is one invocation
of `Command`, whose flags are what `Reading` of `Arguments` makes of the line, and
what it answers is the text that `Entry` writes.  The rows that `DataFiles`
imports are stored by one transaction of `TxExec`. The
interfaces are small (a profile, a list of statements), so each module keeps only
what its neighbours may see.

## Runs

| run | instance | what it shows |
|---|---|---|
| `tx` | one call, five jobs of all three kinds, default limit 1, up to 2 rows per statement; and two calls that lock two rows in opposite orders on a calm network; fairness | type invariant, `IInv`, atomicity, row limits, truthful answers, refinement of `AtomicWrites`; every call ends, none waits for ever, and the rows are freed |
| `tx_bad_format` | one call, unknown `--format`, calm network | **violated**: "any failure rolls the whole transaction back"; the commit comes before the format is looked at |
| `reads` | pages: tables of up to 4 rows, page sizes 0, 1, 2, 2 writes, 1 failed page; inspection: 3 engines, 3 tables, 7 schemas, 3 changes, a context that may end anywhere | slices, prefixes, what inserts repeat and deletes skip; a table and a schema are shown as they were |
| `command` | 12 invocations of every command, 4 versions of the profile, 9 texts and plans, 2 edits | what runs was read once, checked as a whole and permitted; refusals and dry runs touch nothing |
| `stores` | profiles: 2 names, all three search orders, every content of every file, 2 edits; keys: 2 machines, 2 encryptions at a time, 2 changes by hand; files: 2 exports of tables of 0, 2 and 3 rows, 1 and 2 columns wide, in both formats, to all extensions, one import at any moment | which profile wins, what is listed, what is reported missing; printed lines open and reasons are true; ok exports read back and imported rows were exported |
| `analyser` | every text of up to 5 of 10 characters; a grammar with lists, joins, subqueries, WITH, USING, and DDL; arguments of up to 4 characters against every pattern of up to 4 | the cuts and the comments agree with the lexer of each engine; the verb, the tables, the wildcard match |
| `scan_where` | every text of up to 6 of 5 characters | **violated**: an update that has a WHERE is refused for lacking one when a string holds two dashes |
| `scan_escape` | texts of up to 6 of 4 characters that begin and end with a word | **violated**: two statements pass for one when a string of SQLite or PostgreSQL ends with a backslash |
| `scan_slash` | texts of up to 9 of 4 characters that begin and end with a word | **violated**: two statements pass for one when the end of a comment and a star follow each other |
| `tables_columns` | inserts with 0, 1 and 2 columns | **violated**: the second column is blocked as a table that is not listed |
| `entry` | each command with pairs of its flags in every order and place, 22 other lines; a text of 3 parts, a pipe of 1; fairness | both parsers agree; exit codes are true; the call ends |
| `tx_cursor` | `tx c` with `--plan`, `--cursor s` and `--verbose` | **violated**: the plan runs on connection `s` |

The bounds.  One call is enough for the safety of writes, because calls meet
only in row locks, which can delay a statement but change no answer; with two,
there is the smallest circular wait.  A job has at most two statements:
the first, the last, and one between COMMIT and each.  Two rows against a limit
of 1 or 2 reach both sides of it.  Four rows, pages of 2 and a cursor give first,
middle and last pages, and two writes suffice for an insert before the cursor and
a delete before it.  Two edits are enough to break a pair of reads in both
directions (change and change back); the proofs drop this bound.  Five characters
hold a quote, an escape or a comment mark and a semicolon on either side; four
hold a pattern with two stars and an overlap.
Three changes of the schema fall between four queries; more tables than the one
that is asked, the one it refers to and one that is not permitted would add
nothing, since each answer speaks of one.  Two exports are enough for the second
to truncate what the first wrote.  A text larger than the pipe by two parts is
one that the pipe does not hold when the copy fails at its first part.

The runs do not check deadlock: a call, a scan and the caller of pages really
end.

## Fairness

`TxExec.Fairness` says that goroutines are scheduled, that the timer of
`context.WithTimeout` fires (every call has one: `EffectiveTimeout` falls back to 15 s, and
with a profile's zero or negative timeout the context ends at once), that a driver
returns from a statement whose context has ended, and that a server which can be reached answers COMMIT and ROLLBACK and notices a closed connection.
It does not say that a server ever finishes a statement or grants a lock: that
is what the timeout is for.  A lost link, a kill or a failing statement is never
assumed to happen.

`Entry.FairSpec` says that the call and the copying goroutine go on as long as
they can, each by itself: goroutines are scheduled, and a write to a pipe with room, or a
read from one that is not empty, returns.  A stdout that breaks is never assumed.
`CallEnds` leaves out one state, `Stuck`: the writer of a captured output has
failed, nobody reads the pipe any more, and the rest of the answer is larger than
the pipe.  The code does wait there for ever; only a program that calls
`ExecuteContext` with a writer of its own can meet it.

## Proofs

The eight `*Proofs` modules prove, for every value of the constants, the bounds
on edits, writes and lengths among them:

- `TxExecProofs`: `TypeOK`, `AllOrNothing`, `WithinLimits`, `OkIsDurable`,
  `RefusedLeavesNothing`, and that `TxExec` implements `AtomicWrites`
  (`Refinement`).  The properties speak of the end of a call, so the invariant
  `IInv` has to say where each goroutine may be: what a call looks like before it
  begins (`Fresh`), that the answers on the wire belong to the request of the
  goroutine that waits (`InStep`), that COMMIT is handed over only after the last
  statement and only by the holder of the done flag (`AskedLast`), that what is
  durable is what was affected (`Durable`), and that every affected count behind
  `step` was checked (`Checked`).
- `ReadsProofs`, of pages: `PageIsSlice`, `PagesArePrefix`, `NothingRepeated` and
  `NothingSkipped`, for `QueryPage` alone and within `Reads`.  `IInv` ties the rows of
  all pages to the cursor and the view of the running query to the table (`Paged`).
  For the last two, `IInv` says that the table never holds a row twice (`NoTwins`); that no row of a page stands once more
  behind the cursor while nothing was inserted before the end (`NoneReturns`); and
  that every row in front of the cursor was collected while nothing was deleted
  (`NoneEscapes`).
  `InsertPlaces` and `DeletePlaces` say where a write moves each row.
- `ReadsProofs`, of inspection: `DescribedAsItWas` and `SchemaAsItWas`, for all engines,
  tables, catalogues, calls and numbers of changes.  `LookIInv` says, for each query that
  may come next, at which moments of the history what has been read was so, in the
  order of the queries (`TableRead`, `SchemaRead`); of SQLite's loop it says that each
  table behind it was read as a whole, but for the last one if the context has ended
  (`LoopSoFar`, `LastDone`).  A change of the schema only makes the history longer, so
  what was true of its moments stays true.  `PostgresKeys` and `MySQLKeys` say what the
  joins by constraint name make of the keys of a table: every key has its own columns,
  and only those when no other key that is joined with it has its name (`ReadApart`);
  `JoinedIsView` and `RelationsAreViews` say the same of PostgreSQL's relations.
- `CommandProofs`: `SentWasPermitted`, `SentWasRead`, `CheckedBeforeSent`,
  `Untouched`, `ShownWasPermitted`.  `IInv` says that profile and text come from
  one version each (`OneProfile`, `OneInput`), how far the check has come
  (`Checked`), that a connection means a cleared call (`Connected`) and that what
  was sent is a beginning of the plan (`SentSoFar`, `ShownSoFar`).
- `StoresProofs`, of profiles: `UsedAgentFirst`, `NotFoundIsTrue`, `ListedAgentFirst`,
  `ListIsComplete`.  `IInv` says what has been observed of the places already
  passed (`Observed`, `ListSoFar`, `SearchSoFar`).  The theorems hold of `ConfigStore` alone
  and within `Stores`; what is proved in the next two modules is carried over to `Stores` at
  the end, since its behaviours are theirs with other steps between (`KeysWithin`,
  `DataWithin`).
- `SecretProofs`: `PrintedCanBeOpened` and `ReasonIsTrue`.  A printed line can be opened
  only because of what held while its encryption was running, so `IInv` follows a key
  from the draw on: each running encryption has an id that no other and no printed line
  has, its key is in the store of its machine alone, and there once it is stored
  (`OwnId`); printed lines are whole and differ in their ids (`Whole`); only a hand makes
  an entry that is no key (`Stock`); and a v2 line in a profile, or in the hands of a
  resolving call, is mingled from printed ones (`Pasted`).
- `DataFilesProofs`: `OkIsWhole` and `ImportedWasExported`, for all rows, values
  and numbers of exports, running, failed and killed ones among them.  `IInv` says that the file is always a beginning of
  something that was written, and whole unless it is being written, was given up, or
  was lost at close.
- `EntryProofs`: `ExitIsTrue`, for every line, size of the text and of the pipe.
  `IInv` counts the parts (`NothingVanishes`: what was written is with the
  caller, in the pipe, or was lost in a write that failed) and says how far call and
  goroutine may be apart (`Stages`).  And `RunsAsMeant`, for every command, all settings
  and words, and every line that spells them (`Spells`: flags anywhere, in any order,
  joined to their values or not, given twice, and two dashes behind which only
  words follow).  The line does not change, so what has to be shown is
  `Reading(Line(m, pieces)) = Meant(m)`.  A line is taken piece by piece, a word or one
  spelling of a flag, and each loop has an invariant over the pieces it has read:
  - at the root, which knows no flags, the line is kept but for the two dashes (`Keeps`);
  - at the command, its flags are the settings of the pieces read so far (`SetUpto`), and
    its words those of the line (`Reads`), so `Parse` finds what was meant
    (`ParsedAsMeant`);
  - what `internal/app` then writes has a flag for each setting that is not the default,
    and no other (`ForeIs`, `SaidIs`), which needs the tables of flags of the two
    programs to agree (`Tables`, `ForwardedIs`);
  - `normalizeFlagArgs` moves these flags in front of the words, each with its value
    (`SortsFlags`, `NormalizeIs`), the flag package reads them (`TakesFlags`) and stops at
    the first word (`LeavesWords`), and what `Counts` lets through is what `internal/cli`
    asks for and looks at (`CountsAgree`).

  The theorem, `RunsCorrect`, has one hypothesis: no call gives `tx` a cursor
  (`Passable`), since of all settings that one has a flag in both tables and is not
  known to `normalizeFlagArgs`.  With such a call TLC finds `RunsAsMeant` violated
  (`tx_cursor`), and the proof needs the hypothesis at one place (`MarkIs`).
- `AnalyserProofs`: `SplitIsRight`, `StripIsRight`, `VerbIsMain`, and what the table
  policy makes of statements, names and patterns.  The invariants of the six loops are:
  - `splitStatements`: for each engine whose rules the text keeps to (`Plain`), `quote` is
    the state of its lexer at `i`, and the cuts so far are the semicolons that it calls
    code, in their order (`Numbered`, `CutAt`);
  - `stripComments`: what was kept so far lists the places of code so far (`Lists`,
    `Rank`), a line break standing for each line comment;
  - `findCTEAction`: `depth` is the number of parentheses opened and not yet closed, and
    no verb stood outside parentheses before `i` (`VerbSought`); afterwards the verb is
    the one found there (`VerbFound`);
  - `collectCTENames`: `i` is where a name stands, and the names so far are those of
    the places before it (`NamesRead`, `SpotReached`).  The code skips from a
    parenthesis to the one that closes it and a reader counts levels, so the lemmas say
    that no name of a WITH query stands inside what is skipped (`NoSpotWithin`) and
    that the next one stands where the skipping ends (`SpotNext`);
  - `extractObjects`: `inTableList` is set if a word that opens a list was passed and
    none that ends it (`OpensList`, `EndsList`), `expectTable` wherever a table is due
    (`Due`), every table passed is an object, and every object is a name that was
    expected (`SoFar`, in `ObjectsRead`);
  - `wildcardMatch`: `Found` takes for every part of a pattern its first occurrence
    behind the part before it, and that place is never behind any other match of the
    same parts (`Reached`), so the greedy search fails only if every match does
    (`WildcardIs`: `WildcardMatch(p, v) <=> Globs(p, v)` for all patterns and values).
  `TablesCorrect` and `OthersCorrect` follow: no table is overlooked, and no alias or
  WITH name is taken for one.  `ArgumentPolicyCorrect` says that a table argument is
  let through exactly if a pattern covers it, and `PolicyCorrect` puts the loops and
  the wildcard together: an allowed call touches only tables that a pattern covers.
  The conditions are stated in the properties themselves.  `PlainTables`: no table
  stands behind USING, and no list goes on behind a word that clears the flags (a
  comma behind `join u on x`, or behind a subquery with WHERE).  `PlainWith`: a WITH
  query is written `name [(columns)] as (query)`; behind `as materialized` the code
  stops collecting names.  `SqlGrammar` has statements of both kinds on either side
  of the conditions, and without a condition TLC finds the property violated.

The invariants of `TxExec`, `QueryPage`, `Command` and `ConfigStore` are
also invariants of their runs; those of `Inspect`, `Secret`, `DataFiles`, `Entry` and
`Analyser` were checked by TLC before they were proved.

The proofs rest only on the named
assumptions of the modules (`WellFormedJobs`, `Bounds`, `Numbers`, `Arguments`,
`Sizes`, `Clear`, `NonEmpty`, `InspectArguments`, `ScanArguments`, `Written`, `Reader`),
which TLC evaluates for its instances.  In `Secret` and `DataFiles`, which are instances
within `Stores`, `Arguments` is an operator: it is a hypothesis of their theorems, and
`Stores` assumes it (`KeysArguments`, `DataArguments`).
`InspectArguments` says what a catalogue is: a
table that does not exist has no keys, a table has one primary key at most, a key has
columns, and a foreign key as many as it refers to.  Of the catalogues the server of
the call allows those of `Possible`: a name is used once among PostgreSQL's keys of a
table, among MySQL's keys of one table and kind and its foreign keys of a schema, and
among SQLite's indexes, but may come back elsewhere.  `Written` and `Reader` are about
the inputs of `Analyser`: names and patterns are texts, and a statement has a word.
`Reader` says what the fields of a statement mean in its words: the verb is the first
word, or behind WITH the first one outside parentheses; no parenthesis is closed that
was not opened; WITH is followed by names; each table stands where SQL names one
(`TableAt`: behind a word that opens a list, or a comma of the same depth in that
list) and is no name of a WITH query; the other names are those of WITH queries, or
follow a name.  It does not mention the flags of the code.  `Clear` is about the
callers of `Entry`: what they mean is a command with flags it has and as many words as
it takes (`Sensible`), and their line says it (`Spells`).  The shape is the same everywhere: the
initial states satisfy `IInv`, one step per action preserves each conjunct,
`IInv` implies the property, and a last step combines these for the
specification.

Only model-checked: liveness (`EveryCallEnds`, `RowsAreFreed`, `CallEnds`), which needs
fairness and ENABLED.

What a loop of the code computes for every input is proved as an invariant over its
position.  What a recursive definition of a reference computes is proved by looking
at the least place where the claim fails (`LeastOfSet`); the induction theorems of
the library, which take an operator, are not needed for that.

## Findings

1. An unknown `--format` fails the call after the commit (`tx_bad_format`).
2. `stripComments` does not know strings, so the WHERE behind a string with two
   dashes is lost and the statement is refused (`scan_where`).
3. `splitStatements` lets a backslash take the next character in every quote.  That is
   MySQL's rule for strings; a string of SQLite, or a standard one of PostgreSQL, ends
   at the quote behind a backslash, and the semicolon that follows is not seen, so
   two statements count as one (`scan_escape`).
4. `splitStatements` takes `/*/` for a whole comment, so a comment that ends with `/*/`
   opens another one for it, in which a semicolon is not seen (`scan_slash`).
5. `extractObjects` takes the second column of `insert into t (a, b)` for a
   table, so such an insert is blocked on a connection with `allow_tables`
   (`tables_columns`).
6. `tx` accepts `--cursor`, but `normalizeFlagArgs` is not told there that it has a
   value: with a flag behind it, the value is taken for the connection
   (`tx_cursor`).

Beside these, `tx`, `update` and `import` report a lost answer to COMMIT as any
other failure.  No program can know what became of such a COMMIT;
`RefusedLeavesNothing` says what does hold of a failed call.

## Abstractions and limits

- The driver, the server, the network, `database/sql` and the credential store are
  modelled from how the code uses them and marked external in the map.  A statement
  takes effect only by COMMIT; statements that an engine commits by itself (DDL on
  MySQL) are outside this.  The rollback goroutine is modelled as in `database/sql`:
  it waits for the statement in flight, and whoever sets the done flag ends the
  transaction.
- Plans without steps and imports without rows return before they connect and are
  not jobs of `TxExec`.
- Searching for a profile looks at one file after the other, so a list or a "not
  found" need not describe any one moment; the properties of `ConfigStore` speak of
  each file at some moment of the call.  A directory that does not exist is one
  without files; a directory given with `--config` is searched like the system's.
- In `Command` the two forms of inspect are two commands; a profile's patterns are the
  tables they match; a statement is what the analyser says of it.
- In `Secret` keys, ids and nonces are never drawn twice and AES-GCM opens nothing
  that was not sealed with the same key and header.
- The lexer of `SqlScan` has the rules in which the engines differ from each other: what
  opens a string, where a backslash escapes, which dashes open a comment.  Texts that
  the code reads by another rule than the engine (`Plain`, and `/*/`, `Ambiguous`) are
  left out of `SplitIsRight` and `StripIsRight`: the code has one rule for all engines,
  and what it makes of such texts is shown by `scan_escape` and `scan_slash`.  So are
  PostgreSQL's comments inside comments (`Nested`).  Characters that one engine only
  gives a meaning to (`#`, `[ ]`, `$$`, `E''`, `/*!`) are not in the alphabet, nor are
  MySQL's SQL modes.
- A word is one character in `SqlScan`, and `SqlObjects` begins with words, so no module
  shows that two words with nothing but a comment between them become one when
  `stripComments` has dropped it (a hazard of `PROJECT.json`).
- `NoTableOverlooked` claims nothing of statements that are not plain, where the
  analyser counts fewer tables than there are, and `Reader` keeps the names of WITH
  queries and of tables apart: which of the two a name means is a matter of scoping
  that differs between engines.
- In `Inspect` a catalogue is a function from tables to columns and keys; what
  PostgreSQL's join by constraint name makes of keys is in `Joined`: sets of columns,
  because the join repeats and mixes them.  MySQL's join has name and table but not the
  kind of a key, so a UNIQUE and a FOREIGN KEY of one name get the rows of both
  (`Listed`): a set of rows, each at its place, because the order of two rows of one
  place is the server's.  `DescribedAsItWas` promises of such keys only that they have
  all of their own columns.  Keys, and the columns of a primary key, are
  sets as well (SQLite's are read in the order of the table's columns), and the
  relations that a loop had read when it was cut short are any of the table's.
- `import` takes `--max-rows-affected` and looks at no limit; `WithinLimits` claims none.
- In `DataFiles` one export runs at a time.  Of a file that is truncated while an import reads it
  nothing is promised (`mixed`).  The quoting of CSV is taken from `encoding/csv`;
  `Back` says which values change on the way.
- In `Arguments` a word is its dashes, its name and its value; "-" is a word without
  dashes.  What is meant (`Sensible`) has no word that begins with a dash and does not
  begin with "help", because nothing documents what becomes of them (the second
  parser takes them for flags); some are among the other lines (`Slips`), of which only
  the end of the call is claimed.  A value may begin with dashes, but is not two dashes
  alone, which each level of the command tree takes away.  A setting is not made
  empty where it has a default, because `internal/app` does not forward that, and a
  Boolean flag stands alone (`--dry-run`, not `--dry-run=true`).  `tx`
  with `--cursor` is left to `tx_cursor`.
- `ExitIsTrue` leaves out help and `--format table`, whose writes are not checked:
  they exit with 0 though a full disk has lost them.

## Not modelled

- `classifyErrorCode` and the hints, next steps and summaries: texts searched for
  words.  The models say when a call fails, not how its error is called.
- Help texts, build information, audit ids and the layout of answers: constant text.
- DSN strings, TOML decoding, `tokenize` and `cleanIdent`: text to text.
- The engines' rules about single statements (VACUUM in a transaction, DDL that
  commits by itself).
- Release packaging: a build tool that runs once.

## Plan

Done, in this order: execution of writes with its promise, paged queries,
invocation and policy, profiles, the character scans, passwords, the word scans and
the table policy, inspection, data files, the line and the output of a call.

What could follow:

1. `Command` composed with `TxExec`, so that "a refused plan leaves nothing" is a
   property of the whole call.
2. DDL that commits by itself, as a second kind of server in `TxExec`.
