------------------------------ MODULE Command -------------------------------
(***************************************************************************)
(* One invocation of dbx from its arguments to the database: the profile   *)
(* is resolved, the SQL or the plan is read and analysed, the policy is    *)
(* enforced statement by statement, and only then is a connection opened,  *)
(* or the plan printed for --dry-run (runSQLCommand, runTx, runImport,     *)
(* runExport and runInspect of internal/cli, Resolve of internal/conn).    *)
(* Meanwhile somebody may save another version of the profile or of the    *)
(* SQL or plan file.                                                       *)
(***************************************************************************)
EXTENDS Integers, Sequences

CONSTANTS
  Table,        \* tables a statement may name
  Database,     \* databases a profile may point to
  None,         \* no DSN on the command line
  Invocations,  \* what may be asked: [command, dry, dsn, table]
  Profiles,     \* versions of the profile file
  Inputs,       \* versions of the SQL or plan file
  MaxEdits      \* bound: files saved by somebody else during the call

Actions == {"query", "update", "schema", "admin"}

\* What the analyser makes of a statement: its action, the tables it names,
\* an update or delete without WHERE, several statements in one text.
Statement == [action : Actions \cup {"unknown"}, objects : SUBSET Table,
              unsafe : BOOLEAN, multi : BOOLEAN]

\* One SQL text is a plan of one step; the steps of a tx plan also declare
\* the action they mean to be.
Step == [declared : Actions, stmt : Statement]

\* A profile: allow_actions, and allow_tables as the tables its patterns match.
\* Without patterns the tables are not restricted.
Profile == [db : Database, actions : SUBSET Actions,
            restricts : BOOLEAN, tables : SUBSET Table, prodlike : BOOLEAN]

Commands == Actions \cup {"tx", "import", "export", "inspect_table", "inspect_schema"}

ASSUME Arguments ==
  /\ None \notin Database
  /\ Invocations \subseteq
       [command : Commands, dry : BOOLEAN, dsn : Database \cup {None}, table : Table]
  /\ \A v \in Invocations : v.dsn # None => v.command \in Actions
  /\ Profiles \subseteq Profile
  /\ Inputs \subseteq Seq(Step)
  /\ MaxEdits \in Nat

VARIABLES
  inv,        \* the invocation; never changes
  profile,    \* the profile file as it is on disk
  input,      \* the SQL or plan file as it is on disk
  pc,         \* "start", "resolved", "checking", "cleared", "sending", "end"
  spec,       \* the profile this call works with
  plan,       \* the statements this call works with
  step,       \* the step to check, or to send, next
  connected,  \* TRUE once a connection was opened
  sent,       \* what the database was asked to run, and which database
  shown,      \* tables the answer tells something about
  answer,     \* "none", "planned", "ok", "refused" or "failed"
  edits, versions, texts   \* history: how many edits, what they left on disk

disk == <<profile, input, edits, versions, texts>>
vars == <<inv, disk, pc, spec, plan, step, connected, sent, shown, answer>>

Init ==
  /\ inv \in Invocations
  /\ profile \in Profiles /\ input \in Inputs
  /\ versions = {profile} /\ texts = {input}
  /\ edits = 0
  /\ pc = "start"
  /\ spec = profile
  /\ plan = <<>> /\ step = 1
  /\ connected = FALSE /\ sent = <<>> /\ shown = {}
  /\ answer = "none"

-----------------------------------------------------------------------------
(* The policy.                                                             *)

\* finalize refuses a profile without actions, and schema or admin on a
\* connection whose name or tags say prod.
Resolvable(p) ==
  p.actions # {} /\ (p.prodlike => p.actions \cap {"schema", "admin"} = {})

\* A DSN on the command line allows its own command and restricts no table.
Adhoc == [db |-> inv.dsn, actions |-> {inv.command},
          restricts |-> FALSE, tables |-> {}, prodlike |-> FALSE]

\* (mutant) One permitted table is enough.
SomeTableAllowed(p, objects) ==
  p.restricts => objects \cap p.tables # {}

TablesAllowed(p, objects) ==
  p.restricts => objects # {} /\ objects \subseteq p.tables

PolicyAllows(p, s, expected) ==
  /\ ~s.multi /\ s.action # "unknown"
  /\ s.action = expected /\ s.action \in p.actions
  /\ ~s.unsafe
  /\ TablesAllowed(p, s.objects)

\* The command fixes the action of one text; a tx step brings its own, which
\* must be query or update; inspect table asks for the table only.
Passes(s) ==
  /\ inv.command \in Actions => PolicyAllows(spec, s.stmt, inv.command)
  /\ inv.command \in {"tx", "import", "export"} =>
       s.declared \in {"query", "update"} /\ PolicyAllows(spec, s.stmt, s.declared)
  /\ inv.command = "inspect_table" => TablesAllowed(spec, s.stmt.objects)

\* import checks "insert into <table>", export and inspect check the table.
OnTable(action) ==
  <<[declared |-> action,
     stmt |-> [action |-> action, objects |-> {inv.table}, unsafe |-> FALSE, multi |-> FALSE]]>>

ReadsInput == inv.command \in Actions \cup {"tx"}

-----------------------------------------------------------------------------
(* The call.                                                               *)

Goto(from, to) == pc = from /\ pc' = to
Answer(word) == answer' = word /\ pc' = "end"

\* Every check that fails ends the call before a connection is opened.
Refuse ==
  /\ Answer("refused")
  /\ UNCHANGED <<inv, disk, spec, plan, step, connected, sent, shown>>

\* The profile is read once, from one read of the file.
Resolve ==
  LET p == IF inv.dsn = None THEN profile ELSE Adhoc IN
  /\ Resolvable(p)
  /\ Goto("start", IF ReadsInput THEN "resolved" ELSE "checking")
  /\ spec' = p
  /\ plan' = IF ReadsInput THEN <<>>
             ELSE OnTable(IF inv.command = "import" THEN "update" ELSE "query")
  /\ UNCHANGED <<inv, disk, step, connected, sent, shown, answer>>

ResolveFails ==
  /\ pc = "start"
  /\ Refuse

\* The text that is analysed is the text that will be run.
ReadInput ==
  /\ Goto("resolved", "checking")
  /\ Len(input) > 0
  /\ inv.command \in Actions => Len(input) = 1
  /\ plan' = input
  /\ UNCHANGED <<inv, disk, spec, step, connected, sent, shown, answer>>

\* No such file, no valid plan, no valid cursor.
ReadInputFails ==
  /\ pc = "resolved"
  /\ Refuse

CheckStep ==
  /\ pc = "checking" /\ step <= Len(plan)
  /\ inv.command # "inspect_schema"
  /\ Passes(plan[step])
  /\ step' = step + 1
  /\ UNCHANGED <<inv, disk, pc, spec, plan, connected, sent, shown, answer>>

CheckStepFails ==
  /\ pc = "checking" /\ step <= Len(plan)
  /\ inv.command # "inspect_schema"
  /\ ~Passes(plan[step])
  /\ Refuse

\* (mutant) The first step speaks for all.
ClearFirst ==
  /\ step > 1 \/ inv.command = "inspect_schema"
  /\ Goto("checking", "cleared")
  /\ step' = 1
  /\ UNCHANGED <<inv, disk, spec, plan, connected, sent, shown, answer>>

\* Every statement has passed, and import has read its rows.
Clear ==
  /\ step > Len(plan) \/ inv.command = "inspect_schema"
  /\ Goto("checking", "cleared")
  /\ step' = 1
  /\ UNCHANGED <<inv, disk, spec, plan, connected, sent, shown, answer>>

ReadRowsFails ==
  /\ pc = "checking" /\ step > Len(plan)
  /\ inv.command = "import"
  /\ Refuse

\* export and inspect have no dry run.
HasDryRun == inv.command \in Actions \cup {"tx", "import"}

PrintPlan ==
  /\ pc = "cleared"
  /\ inv.dry /\ HasDryRun
  /\ Answer("planned")
  /\ UNCHANGED <<inv, disk, spec, plan, step, connected, sent, shown>>

\* (mutant) The dry run opens the connection to see whether it is there.
ConnectAnyway ==
  /\ Goto("cleared", "sending")
  /\ connected' = TRUE
  /\ UNCHANGED <<inv, disk, spec, plan, step, sent, shown, answer>>

Connect ==
  /\ ~(inv.dry /\ HasDryRun)
  /\ Goto("cleared", "sending")
  /\ connected' = TRUE
  /\ UNCHANGED <<inv, disk, spec, plan, step, sent, shown, answer>>

Runs == inv.command \notin {"inspect_table", "inspect_schema"}

\* (mutant) The text is read from its file again before it is run.
SendReread ==
  /\ pc = "sending" /\ Runs /\ step <= Len(input)
  /\ sent' = Append(sent, [db |-> spec.db, stmt |-> input[step].stmt])
  /\ step' = step + 1
  /\ UNCHANGED <<inv, disk, pc, spec, plan, connected, shown, answer>>

Send ==
  /\ pc = "sending" /\ Runs /\ step <= Len(plan)
  /\ sent' = Append(sent, [db |-> spec.db, stmt |-> plan[step].stmt])
  /\ step' = step + 1
  /\ UNCHANGED <<inv, disk, pc, spec, plan, connected, shown, answer>>

Finish ==
  /\ pc = "sending" /\ Runs /\ step > Len(plan)
  /\ Answer("ok")
  /\ UNCHANGED <<inv, disk, spec, plan, step, connected, sent, shown>>

\* (mutant) The filter is left out.
Unfiltered == Table

\* The tables of inspect schema.  Its relations pass a filter of their own: one
\* permitted end is enough.
Visible == IF spec.restricts THEN spec.tables ELSE Table

\* inspect table describes the table; inspect schema lists the tables that
\* pass the filter, or the first of them when listing fails without a schema
\* argument (see Inspect).
Inspect ==
  /\ pc = "sending" /\ ~Runs
  /\ IF inv.command = "inspect_table" THEN shown' = {inv.table} ELSE shown' \in SUBSET Visible
  /\ Answer("ok")
  /\ UNCHANGED <<inv, disk, spec, plan, step, connected, sent>>

\* The database refuses, or export cannot write its file.
Fail ==
  /\ pc = "sending"
  /\ Answer("failed")
  /\ UNCHANGED <<inv, disk, spec, plan, step, connected, sent, shown>>

Call ==
  \/ Resolve \/ ResolveFails \/ ReadInput \/ ReadInputFails
  \/ CheckStep \/ CheckStepFails \/ Clear \/ ReadRowsFails \/ PrintPlan
  \/ Connect \/ Send \/ Finish \/ Inspect \/ Fail

\* Somebody saves another version of the profile, or of the SQL or plan file.
Edit ==
  /\ pc # "end" /\ edits < MaxEdits
  /\ edits' = edits + 1
  /\ \/ profile' \in Profiles /\ UNCHANGED input
     \/ input' \in Inputs /\ UNCHANGED profile
  /\ versions' = versions \cup {profile'}
  /\ texts' = texts \cup {input'}
  /\ UNCHANGED <<inv, pc, spec, plan, step, connected, sent, shown, answer>>

Next == Call \/ Edit

Spec == Init /\ [][Next]_vars

-----------------------------------------------------------------------------
(* Properties.                                                             *)

\* What a profile permits, in the words of the documents: the action is
\* allowed, a restricted connection stays on its tables, no update or delete
\* without WHERE, one statement at a time, no schema or admin on prod.
Permits(p, s) ==
  /\ s.action \in p.actions
  /\ p.restricts => s.objects # {} /\ s.objects \subseteq p.tables
  /\ ~s.unsafe /\ ~s.multi
  /\ p.prodlike => s.action \notin {"schema", "admin"}

\* Whatever is saved meanwhile, a statement reaches only the database of a
\* profile that permits it: target and permissions come from one version of
\* the file (Resolve before enforcePolicy before db.*).  A DSN on the command
\* line is reached by its own action only.
SentWasPermitted ==
  \A i \in 1 .. Len(sent) :
    IF inv.dsn = None
    THEN \E p \in versions : sent[i].db = p.db /\ Permits(p, sent[i].stmt)
    ELSE sent[i].db = inv.dsn /\ Permits(Adhoc, sent[i].stmt)

\* What runs is what was checked: the statements sent are the first ones of
\* one version of the file, however often it is saved meanwhile (readSQL and
\* readTxPlan before Analyze, one read).
SentWasRead ==
  ReadsInput /\ sent # <<>> =>
    \E t \in texts :
      Len(sent) <= Len(t) /\ \A i \in 1 .. Len(sent) : sent[i].stmt = t[i].stmt

\* One step the policy refuses keeps the whole plan from the database: nothing
\* is sent before the last step has been checked (runTx).
CheckedBeforeSent ==
  sent # <<>> => \A i \in 1 .. Len(plan) : Permits(spec, plan[i].stmt)

\* A refused call and a dry run never touch the database, and a dry run prints
\* only plans that the policy lets through.
Untouched ==
  /\ answer = "refused" \/ (inv.dry /\ HasDryRun) => ~connected /\ sent = <<>>
  /\ answer = "planned" => \A i \in 1 .. Len(plan) : Permits(spec, plan[i].stmt)

\* An answer about tables speaks of tables that the profile of its database
\* permits (runInspect, filterTablesByPolicy).
ShownWasPermitted ==
  \E p \in versions \cup {Adhoc} :
    p.db = spec.db /\ (p.restricts => shown \subseteq p.tables)
=============================================================================
