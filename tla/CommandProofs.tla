--------------------------- MODULE CommandProofs ----------------------------
(***************************************************************************)
(* Proofs about Command for every set of tables, databases, profiles,      *)
(* inputs and invocations and any number of edits.                         *)
(***************************************************************************)
EXTENDS Command, TLAPS

TypeOK ==
  /\ inv \in Invocations
  /\ profile \in Profiles /\ input \in Inputs
  /\ versions \subseteq Profiles /\ texts \subseteq Inputs
  /\ profile \in versions /\ input \in texts
  /\ edits \in Nat
  /\ pc \in {"start", "resolved", "checking", "cleared", "sending", "end"}
  /\ spec \in Profile
  /\ plan \in Seq(Step) /\ step \in Nat \ {0}
  /\ connected \in BOOLEAN
  /\ sent \in Seq([db : Database, stmt : Statement])
  /\ shown \subseteq Table
  /\ answer \in {"none", "planned", "ok", "refused", "failed"}

\* The call works with one version of the profile, or with its own DSN.
OneProfile ==
  /\ spec \in versions \/ (inv.dsn # None /\ spec = Adhoc)
  /\ pc # "start" /\ answer # "refused" =>
       /\ Resolvable(spec)
       /\ inv.dsn # None => spec = Adhoc

\* It works with one version of the input, if it reads one.
OneInput ==
  /\ pc = "resolved" => ReadsInput
  /\ ReadsInput => plan = <<>> \/ plan \in texts

\* Every step before `step` has passed; from "cleared" on all have.
Checked ==
  /\ pc \in {"start", "resolved", "cleared"} => step = 1
  /\ inv.command # "inspect_schema" =>
    /\ pc = "checking" => \A i \in 1 .. Len(plan) : i < step => Passes(plan[i])
    /\ pc \in {"cleared", "sending"} \/ answer \in {"planned", "ok", "failed"} =>
         \A i \in 1 .. Len(plan) : Passes(plan[i])

\* Only a cleared call that is no dry run connects, and only a connected call
\* has sent or shown anything.
Connected ==
  /\ ~connected => sent = <<>> /\ shown = {}
  /\ connected => pc = "sending" \/ answer \in {"ok", "failed"}
  /\ pc = "sending" => connected
  /\ answer = "planned" => HasDryRun
  /\ connected => ~(inv.dry /\ HasDryRun)
  /\ pc # "end" <=> answer = "none"

\* What has been sent is the plan up to `step`, to the database of the profile.
SentSoFar ==
  /\ sent # <<>> => Runs
  /\ Len(sent) <= Len(plan)
  /\ pc = "sending" => Len(sent) = step - 1
  /\ \A i \in 1 .. Len(sent) : sent[i] = [db |-> spec.db, stmt |-> plan[i].stmt]

\* What has been shown has passed the table policy.
ShownSoFar ==
  /\ inv.command = "inspect_table" /\ pc \notin {"start", "end"} => plan = OnTable("query")
  /\ shown # {} => answer = "ok" /\ ~Runs
  /\ spec.restricts => shown \subseteq spec.tables

IInv ==
  /\ TypeOK
  /\ OneProfile /\ OneInput
  /\ Checked
  /\ Connected /\ SentSoFar /\ ShownSoFar

-----------------------------------------------------------------------------
LEMMA AdhocIsProfile ==
  ASSUME inv \in Invocations, inv.dsn # None
  PROVE  Adhoc \in Profile
BY Arguments DEF Adhoc, Profile, Actions

LEMMA OnTableIsPlan ==
  ASSUME inv \in Invocations, NEW action \in {"query", "update"}
  PROVE  OnTable(action) \in Seq(Step)
BY Arguments DEF OnTable, Step, Statement, Actions

LEMMA InitIInv == Init => IInv
<1>. SUFFICES ASSUME Init PROVE IInv
  OBVIOUS
<1>1. TypeOK
  <2>1. connected \in BOOLEAN
    BY Zenon DEF Init
  <2>2. spec \in Profile
    BY Arguments DEF Init
  <2>3. plan \in Seq(Step) /\ sent \in Seq([db : Database, stmt : Statement])
    BY DEF Init
  <2>. QED
    BY <2>1, <2>2, <2>3 DEF Init, TypeOK
<1>2. OneProfile /\ OneInput /\ Checked
  BY DEF Init, OneProfile, OneInput, Checked
<1>3. Connected /\ SentSoFar /\ ShownSoFar
  BY DEF Init, Connected, SentSoFar, ShownSoFar
<1>. QED
  BY <1>1, <1>2, <1>3 DEF IInv

\* Before the connection nothing has been sent or shown, and a step that keeps
\* it so, and keeps the profile that the call has, keeps these three.
LEMMA NothingYet ==
  ASSUME IInv, ~connected,
         UNCHANGED <<inv, connected, sent, shown>>,
         pc' # "sending",
         pc' # "end" <=> answer' = "none",
         answer' = "planned" => HasDryRun,
         plan' \in Seq(Step),
         inv.command = "inspect_table" /\ pc' \notin {"start", "end"} => plan' = OnTable("query")
  PROVE  Connected' /\ SentSoFar' /\ ShownSoFar'
<1>1. sent = <<>> /\ shown = {} /\ Len(sent) = 0
  BY DEF IInv, Connected
<1>2. Connected'
  BY <1>1 DEF Connected, HasDryRun
<1>3. SentSoFar'
  <2>1. sent' = <<>> /\ Len(sent') = 0 /\ Len(plan') \in Nat
    BY <1>1
  <2>2. \A i \in 1 .. Len(sent') : FALSE
    BY <2>1
  <2>. QED
    BY <2>1, <2>2 DEF SentSoFar
<1>4. ShownSoFar'
  BY <1>1 DEF IInv, ShownSoFar, OnTable
<1>. QED
  BY <1>2, <1>3, <1>4

\* A refusal keeps everything but the answer.
LEMMA RefuseKeeps ==
  ASSUME IInv, Refuse, pc \in {"start", "resolved", "checking"}
  PROVE  IInv'
<1>. USE DEF IInv, Refuse, Answer, disk
<1>1. TypeOK'
  BY DEF TypeOK
<1>2. OneProfile'
  BY Zenon DEF OneProfile, Adhoc
<1>3. OneInput' /\ Checked'
  BY DEF OneInput, Checked, ReadsInput
<1>4. ~connected
  BY DEF Connected
<1>5. Connected' /\ SentSoFar' /\ ShownSoFar'
  BY <1>1, <1>4, NothingYet DEF TypeOK
<1>. QED
  BY <1>1, <1>2, <1>3, <1>5

LEMMA ResolveKeeps ==
  ASSUME IInv, Resolve
  PROVE  IInv'
<1>. USE DEF IInv, disk, Goto
<1>1. /\ pc = "start" /\ pc' \in {"resolved", "checking"}
      /\ UNCHANGED <<inv, profile, input, edits, versions, texts, step, connected, sent, shown, answer>>
      /\ spec' = IF inv.dsn = None THEN profile ELSE Adhoc
      /\ Resolvable(spec')
  BY DEF Resolve
<1>2. \/ ReadsInput /\ plan' = <<>> /\ pc' = "resolved"
      \/ ~ReadsInput /\ inv.command = "import" /\ plan' = OnTable("update") /\ pc' = "checking"
      \/ ~ReadsInput /\ inv.command # "import" /\ plan' = OnTable("query") /\ pc' = "checking"
  BY DEF Resolve
<1>3. spec' \in Profile
  BY <1>1, AdhocIsProfile, Arguments DEF TypeOK
<1>4. plan' \in Seq(Step)
  <2>1. OnTable("update") \in Seq(Step) /\ OnTable("query") \in Seq(Step)
    BY OnTableIsPlan DEF TypeOK
  <2>2. <<>> \in Seq(Step)
    OBVIOUS
  <2>. QED
    BY <1>2, <2>1, <2>2
<1>5. TypeOK'
  BY <1>1, <1>3, <1>4 DEF TypeOK
<1>6. OneProfile'
  BY <1>1, Zenon DEF OneProfile, Resolvable, Adhoc, TypeOK
<1>7. OneInput'
  BY <1>1, <1>2 DEF OneInput, ReadsInput
<1>8. answer = "none" /\ ~connected
  BY <1>1 DEF Connected
<1>9. Checked'
  <2>1. step' = 1 /\ Len(plan') \in Nat
    BY <1>1, <1>4 DEF Checked
  <2>2. \A i \in 1 .. Len(plan') : ~(i < step')
    BY <2>1
  <2>3. ~(pc' \in {"cleared", "sending"} \/ answer' \in {"planned", "ok", "failed"})
    BY <1>1, <1>8
  <2>. QED
    BY <2>1, <2>2, <2>3, Zenon DEF Checked
<1>10. inv.command = "inspect_table" => plan' = OnTable("query")
  BY <1>2 DEF ReadsInput, Actions
<1>11. Connected' /\ SentSoFar' /\ ShownSoFar'
  BY <1>1, <1>4, <1>8, <1>10, NothingYet
<1>. QED
  BY <1>5, <1>6, <1>7, <1>9, <1>11

LEMMA ReadInputKeeps ==
  ASSUME IInv, ReadInput
  PROVE  IInv'
<1>. USE DEF IInv, disk, Goto
<1>1. /\ pc = "resolved" /\ pc' = "checking" /\ plan' = input
      /\ UNCHANGED <<inv, profile, input, edits, versions, texts, spec, step, connected, sent, shown, answer>>
  BY DEF ReadInput
<1>2. plan' \in Seq(Step) /\ plan' \in texts
  BY <1>1, Arguments DEF TypeOK
<1>3. TypeOK'
  BY <1>1, <1>2 DEF TypeOK
<1>4. OneProfile'
  BY <1>1, Zenon DEF OneProfile, Resolvable, Adhoc
<1>5. OneInput'
  BY <1>1, <1>2 DEF OneInput, ReadsInput
<1>6. answer = "none" /\ ~connected
  BY <1>1 DEF Connected
<1>7. Checked'
  <2>1. step' = 1 /\ Len(plan') \in Nat
    BY <1>1, <1>2 DEF Checked
  <2>2. \A i \in 1 .. Len(plan') : ~(i < step')
    BY <2>1
  <2>3. ~(pc' \in {"cleared", "sending"} \/ answer' \in {"planned", "ok", "failed"})
    BY <1>1, <1>6
  <2>. QED
    BY <2>1, <2>2, <2>3, Zenon DEF Checked
<1>8. inv.command # "inspect_table"
  BY <1>1 DEF OneInput, ReadsInput, Actions
<1>9. Connected' /\ SentSoFar' /\ ShownSoFar'
  BY <1>1, <1>2, <1>6, <1>8, NothingYet
<1>. QED
  BY <1>3, <1>4, <1>5, <1>7, <1>9

LEMMA CheckStepKeeps ==
  ASSUME IInv, CheckStep
  PROVE  IInv'
<1>. USE DEF IInv, disk
<1>1. /\ pc = "checking" /\ step' = step + 1 /\ Passes(plan[step])
      /\ UNCHANGED <<inv, profile, input, edits, versions, texts, pc, spec, plan, connected, sent, shown, answer>>
  BY DEF CheckStep
<1>2. TypeOK'
  BY <1>1 DEF TypeOK
<1>3. OneProfile' /\ OneInput'
  BY <1>1, Zenon DEF OneProfile, OneInput, Resolvable, Adhoc, ReadsInput
<1>4. answer = "none" /\ ~connected
  BY <1>1 DEF Connected
<1>5. Checked'
  <2>1. \A i \in 1 .. Len(plan) : i < step + 1 => i < step \/ i = step
    BY DEF TypeOK
  <2>2. inv.command # "inspect_schema" => \A i \in 1 .. Len(plan) : i < step + 1 => Passes(plan[i])
    BY <1>1, <2>1, Zenon DEF Checked
  <2>3. /\ ~(pc \in {"cleared", "sending"} \/ answer \in {"planned", "ok", "failed"})
        /\ pc \notin {"start", "resolved", "cleared"}
    BY <1>1, <1>4
  <2>4. \A i \in 1 .. Len(plan) : Passes(plan[i]) => Passes(plan[i])'
    BY <1>1 DEF Passes, PolicyAllows, TablesAllowed
  <2>5. inv.command # "inspect_schema" => \A i \in 1 .. Len(plan) : i < step + 1 => Passes(plan[i])'
    BY <2>2, <2>4
  <2>. QED
    BY <1>1, <2>3, <2>5, Zenon DEF Checked
<1>6. Connected' /\ SentSoFar' /\ ShownSoFar'
  BY <1>1, <1>4, NothingYet DEF Connected, ShownSoFar, TypeOK
<1>. QED
  BY <1>2, <1>3, <1>5, <1>6

LEMMA ClearKeeps ==
  ASSUME IInv, Clear
  PROVE  IInv'
<1>. USE DEF IInv, disk, Goto
<1>1. /\ pc = "checking" /\ pc' = "cleared" /\ step' = 1
      /\ step > Len(plan) \/ inv.command = "inspect_schema"
      /\ UNCHANGED <<inv, profile, input, edits, versions, texts, spec, plan, connected, sent, shown, answer>>
  BY DEF Clear
<1>2. TypeOK'
  BY <1>1 DEF TypeOK
<1>3. OneProfile' /\ OneInput'
  BY <1>1, Zenon DEF OneProfile, OneInput, Resolvable, Adhoc, ReadsInput
<1>4. answer = "none" /\ ~connected
  BY <1>1 DEF Connected
<1>5. Checked'
  <2>1. step > Len(plan) => \A i \in 1 .. Len(plan) : i < step
    BY DEF TypeOK
  <2>2. inv.command # "inspect_schema" => \A i \in 1 .. Len(plan) : Passes(plan[i])
    BY <1>1, <2>1, Zenon DEF Checked
  <2>3. \A i \in 1 .. Len(plan) : Passes(plan[i]) => Passes(plan[i])'
    BY <1>1 DEF Passes, PolicyAllows, TablesAllowed
  <2>4. inv.command # "inspect_schema" => \A i \in 1 .. Len(plan) : Passes(plan[i])'
    BY <2>2, <2>3
  <2>5. pc' # "checking"
    BY <1>1
  <2>. QED
    BY <1>1, <2>4, <2>5, Zenon DEF Checked
<1>6. Connected' /\ SentSoFar' /\ ShownSoFar'
  BY <1>1, <1>4, NothingYet DEF Connected, ShownSoFar, TypeOK
<1>. QED
  BY <1>2, <1>3, <1>5, <1>6

LEMMA PrintPlanKeeps ==
  ASSUME IInv, PrintPlan
  PROVE  IInv'
<1>. USE DEF IInv, disk, Answer
<1>1. /\ pc = "cleared" /\ pc' = "end" /\ answer' = "planned" /\ HasDryRun
      /\ UNCHANGED <<inv, profile, input, edits, versions, texts, spec, plan, step, connected, sent, shown>>
  BY DEF PrintPlan
<1>2. TypeOK'
  BY <1>1 DEF TypeOK
<1>3. answer = "none" /\ ~connected
  BY <1>1 DEF Connected
<1>4. OneProfile' /\ OneInput'
  BY <1>1, <1>3, Zenon DEF OneProfile, OneInput, Resolvable, Adhoc, ReadsInput
<1>5. Checked'
  <2>1. inv.command # "inspect_schema" => \A i \in 1 .. Len(plan) : Passes(plan[i])
    BY <1>1 DEF Checked
  <2>2. \A i \in 1 .. Len(plan) : Passes(plan[i]) => Passes(plan[i])'
    BY <1>1 DEF Passes, PolicyAllows, TablesAllowed
  <2>3. inv.command # "inspect_schema" => \A i \in 1 .. Len(plan) : Passes(plan[i])'
    BY <2>1, <2>2
  <2>. QED
    BY <1>1, <2>3, Zenon DEF Checked
<1>6. Connected' /\ SentSoFar' /\ ShownSoFar'
  BY <1>1, <1>3, NothingYet DEF TypeOK
<1>. QED
  BY <1>2, <1>4, <1>5, <1>6

LEMMA ConnectKeeps ==
  ASSUME IInv, Connect
  PROVE  IInv'
<1>. USE DEF IInv, disk, Goto
<1>1. /\ pc = "cleared" /\ pc' = "sending" /\ connected' = TRUE
      /\ ~(inv.dry /\ HasDryRun)
      /\ UNCHANGED <<inv, profile, input, edits, versions, texts, spec, plan, step, sent, shown, answer>>
  BY DEF Connect
<1>2. TypeOK'
  BY <1>1 DEF TypeOK
<1>3. answer = "none" /\ ~connected
  BY <1>1 DEF Connected
<1>4. OneProfile' /\ OneInput'
  BY <1>1, <1>3, Zenon DEF OneProfile, OneInput, Resolvable, Adhoc, ReadsInput
<1>5. Checked'
  <2>1. inv.command # "inspect_schema" => \A i \in 1 .. Len(plan) : Passes(plan[i])
    BY <1>1 DEF Checked
  <2>2. \A i \in 1 .. Len(plan) : Passes(plan[i]) => Passes(plan[i])'
    BY <1>1 DEF Passes, PolicyAllows, TablesAllowed
  <2>3. inv.command # "inspect_schema" => \A i \in 1 .. Len(plan) : Passes(plan[i])'
    BY <2>1, <2>2
  <2>. QED
    BY <1>1, <2>3, Zenon DEF Checked
<1>6. Connected'
  BY <1>1, <1>3 DEF Connected, HasDryRun
<1>7. step = 1 /\ sent = <<>> /\ Len(sent) = 0
  BY <1>1, <1>3 DEF Connected, Checked
<1>8. SentSoFar'
  BY <1>1, <1>7 DEF SentSoFar, TypeOK
<1>9. shown = {}
  BY <1>3 DEF Connected
<1>10. ShownSoFar'
  BY <1>1, <1>9 DEF ShownSoFar, OnTable
<1>. QED
  BY <1>2, <1>4, <1>5, <1>6, <1>8, <1>10

LEMMA SendKeeps ==
  ASSUME IInv, Send
  PROVE  IInv'
<1>. USE DEF IInv, disk
<1>1. /\ pc = "sending" /\ Runs /\ step <= Len(plan) /\ step' = step + 1
      /\ sent' = Append(sent, [db |-> spec.db, stmt |-> plan[step].stmt])
      /\ UNCHANGED <<inv, profile, input, edits, versions, texts, pc, spec, plan, connected, shown, answer>>
  BY DEF Send
<1>2. [db |-> spec.db, stmt |-> plan[step].stmt] \in [db : Database, stmt : Statement]
  <2>1. plan[step] \in Step
    BY <1>1 DEF TypeOK
  <2>2. plan[step].stmt \in Statement
    BY <2>1 DEF Step
  <2>3. spec.db \in Database
    BY DEF TypeOK, Profile
  <2>. QED
    BY <2>2, <2>3
<1>3. sent' \in Seq([db : Database, stmt : Statement])
  BY <1>1, <1>2 DEF TypeOK
<1>4. TypeOK'
  BY <1>1, <1>3 DEF TypeOK
<1>5. OneProfile' /\ OneInput'
  BY <1>1, Zenon DEF OneProfile, OneInput, Resolvable, Adhoc, ReadsInput
<1>6. Checked'
  <2>1. inv.command # "inspect_schema" => \A i \in 1 .. Len(plan) : Passes(plan[i])
    BY <1>1 DEF Checked
  <2>2. \A i \in 1 .. Len(plan) : Passes(plan[i]) => Passes(plan[i])'
    BY <1>1 DEF Passes, PolicyAllows, TablesAllowed
  <2>3. inv.command # "inspect_schema" => \A i \in 1 .. Len(plan) : Passes(plan[i])'
    BY <2>1, <2>2
  <2>. QED
    BY <1>1, <2>3, Zenon DEF Checked
<1>7. answer = "none" /\ connected
  BY <1>1 DEF Connected
<1>8. Connected'
  BY <1>1, <1>7 DEF Connected, HasDryRun
<1>9. Len(sent) = step - 1 /\ Len(sent') = step
  BY <1>1 DEF SentSoFar, TypeOK
<1>10. \A i \in 1 .. Len(sent') : sent'[i] = [db |-> spec.db, stmt |-> plan[i].stmt]
  <2>1. \A i \in 1 .. step : i \in 1 .. Len(sent) \/ i = step
    BY <1>9 DEF TypeOK
  <2>2. \A i \in 1 .. Len(sent) : sent'[i] = sent[i]
    BY <1>1 DEF TypeOK
  <2>3. sent'[step] = [db |-> spec.db, stmt |-> plan[step].stmt]
    BY <1>1, <1>9 DEF TypeOK
  <2>. QED
    BY <1>9, <2>1, <2>2, <2>3 DEF SentSoFar
<1>11. SentSoFar'
  BY <1>1, <1>9, <1>10 DEF SentSoFar, Runs, TypeOK
<1>12. ShownSoFar'
  BY <1>1 DEF ShownSoFar, OnTable, Runs
<1>. QED
  BY <1>4, <1>5, <1>6, <1>8, <1>11, <1>12

\* Finish, Inspect and Fail end a connected call.
LEMMA EndKeeps ==
  ASSUME IInv, pc = "sending", pc' = "end", answer' \in {"ok", "failed"},
         UNCHANGED <<inv, disk, spec, plan, step, connected, sent>>,
         shown' # shown => ~Runs /\ answer' = "ok" /\ connected,
         shown' \subseteq Table,
         spec.restricts => shown' \subseteq spec.tables
  PROVE  IInv'
<1>. USE DEF IInv, disk
<1>1. TypeOK'
  BY DEF TypeOK
<1>2. answer = "none"
  BY DEF Connected
<1>3. OneProfile' /\ OneInput'
  BY <1>2, Zenon DEF OneProfile, OneInput, Resolvable, Adhoc, ReadsInput
<1>4. Checked'
  <2>1. inv.command # "inspect_schema" => \A i \in 1 .. Len(plan) : Passes(plan[i])
    BY DEF Checked
  <2>2. \A i \in 1 .. Len(plan) : Passes(plan[i]) => Passes(plan[i])'
    BY DEF Passes, PolicyAllows, TablesAllowed
  <2>3. inv.command # "inspect_schema" => \A i \in 1 .. Len(plan) : Passes(plan[i])'
    BY <2>1, <2>2
  <2>. QED
    BY <2>3, Zenon DEF Checked
<1>5. Connected'
  BY <1>2 DEF Connected, HasDryRun
<1>6. SentSoFar'
  BY DEF SentSoFar, Runs
<1>7. ShownSoFar'
  BY <1>2 DEF ShownSoFar, OnTable, Runs
<1>. QED
  BY <1>1, <1>3, <1>4, <1>5, <1>6, <1>7

-----------------------------------------------------------------------------
\* A version that somebody saves joins the versions; the call does not see it.
LEMMA EditKeeps ==
  ASSUME IInv, Edit
  PROVE  IInv'
<1>. USE DEF IInv
<1>1. /\ profile' \in Profiles /\ input' \in Inputs
      /\ versions' = versions \cup {profile'} /\ texts' = texts \cup {input'}
      /\ edits' = edits + 1
      /\ UNCHANGED <<inv, pc, spec, plan, step, connected, sent, shown, answer>>
  BY DEF Edit, TypeOK
<1>2. TypeOK'
  BY <1>1 DEF TypeOK
<1>3. OneProfile' /\ OneInput'
  BY <1>1, Zenon DEF OneProfile, OneInput, Resolvable, Adhoc, ReadsInput
<1>4. Checked'
  <2>1. \A i \in 1 .. Len(plan) : Passes(plan[i]) => Passes(plan[i])'
    BY <1>1 DEF Passes, PolicyAllows, TablesAllowed
  <2>. QED
    BY <1>1, <2>1, Zenon DEF Checked
<1>5. Connected' /\ SentSoFar' /\ ShownSoFar'
  BY <1>1 DEF Connected, SentSoFar, ShownSoFar, HasDryRun, Runs, OnTable
<1>. QED
  BY <1>2, <1>3, <1>4, <1>5

LEMMA StutterKeeps ==
  ASSUME IInv, UNCHANGED vars
  PROVE  IInv'
<1>. USE DEF IInv, vars, disk
<1>1. TypeOK' /\ OneProfile' /\ OneInput'
  BY DEF TypeOK, OneProfile, OneInput, Resolvable, Adhoc, ReadsInput
<1>2. Checked'
  <2>1. \A i \in 1 .. Len(plan) : Passes(plan[i]) => Passes(plan[i])'
    BY DEF Passes, PolicyAllows, TablesAllowed
  <2>. QED
    BY <2>1, Zenon DEF Checked
<1>3. Connected' /\ SentSoFar' /\ ShownSoFar'
  BY DEF Connected, SentSoFar, ShownSoFar, HasDryRun, Runs, OnTable
<1>. QED
  BY <1>1, <1>2, <1>3

\* What inspect tells is within the table policy: inspect table has checked its
\* table, inspect schema filters.
LEMMA InspectKeeps ==
  ASSUME IInv, Inspect
  PROVE  IInv'
<1>. USE DEF IInv
<1>1. /\ pc = "sending" /\ pc' = "end" /\ answer' = "ok" /\ ~Runs
      /\ UNCHANGED <<inv, disk, spec, plan, step, connected, sent>>
  BY DEF Inspect, Answer
<1>2. connected
  BY <1>1 DEF Connected
<1>3. CASE inv.command = "inspect_table"
  <2>1. shown' = {inv.table}
    BY <1>3 DEF Inspect
  <2>2. plan = OnTable("query")
    BY <1>1, <1>3 DEF ShownSoFar
  <2>3. Len(plan) = 1 /\ plan[1].stmt.objects = {inv.table}
    BY <2>2 DEF OnTable
  <2>4. Passes(plan[1])
    <3>1. 1 \in 1 .. Len(plan)
      BY <2>3
    <3>. QED
      BY <1>1, <1>3, <3>1 DEF Checked
  <2>5. spec.restricts => inv.table \in spec.tables
    BY <1>3, <2>3, <2>4 DEF Passes, TablesAllowed, Actions
  <2>6. inv.table \in Table
    BY Arguments DEF TypeOK
  <2>. QED
    BY <1>1, <1>2, <2>1, <2>5, <2>6, EndKeeps
<1>4. CASE inv.command # "inspect_table"
  <2>1. shown' \subseteq Visible
    BY <1>4 DEF Inspect
  <2>2. shown' \subseteq Table /\ (spec.restricts => shown' \subseteq spec.tables)
    BY <2>1 DEF Visible, TypeOK, Profile
  <2>. QED
    BY <1>1, <1>2, <2>2, EndKeeps
<1>. QED
  BY <1>3, <1>4

LEMMA NextIInv == IInv /\ [Next]_vars => IInv'
<1>. SUFFICES ASSUME IInv, [Next]_vars PROVE IInv'
  OBVIOUS
<1>1. CASE Resolve
  BY <1>1, ResolveKeeps
<1>2. CASE ResolveFails \/ ReadInputFails \/ CheckStepFails \/ ReadRowsFails
  BY <1>2, RefuseKeeps DEF ResolveFails, ReadInputFails, CheckStepFails, ReadRowsFails
<1>3. CASE ReadInput
  BY <1>3, ReadInputKeeps
<1>4. CASE CheckStep
  BY <1>4, CheckStepKeeps
<1>5. CASE Clear
  BY <1>5, ClearKeeps
<1>6. CASE PrintPlan
  BY <1>6, PrintPlanKeeps
<1>7. CASE Connect
  BY <1>7, ConnectKeeps
<1>8. CASE Send
  BY <1>8, SendKeeps
<1>9. CASE Finish \/ Fail
  BY <1>9, EndKeeps DEF Finish, Fail, Answer, IInv, TypeOK, ShownSoFar
<1>10. CASE Inspect
  BY <1>10, InspectKeeps
<1>11. CASE Edit
  BY <1>11, EditKeeps
<1>12. CASE UNCHANGED vars
  BY <1>12, StutterKeeps
<1>. QED
  BY <1>1, <1>2, <1>3, <1>4, <1>5, <1>6, <1>7, <1>8, <1>9, <1>10, <1>11, <1>12
     DEF Next, Call

\* The types, and the parts of IInv, hold in every reachable state.
THEOREM Invariance == Spec => []IInv
BY InitIInv, NextIInv, PTL DEF Spec

-----------------------------------------------------------------------------
(* What the invariant says of the properties.                              *)

\* A statement that passes is one that the profile permits.
LEMMA PassesIsPermits ==
  ASSUME inv.command \in Actions \cup {"tx", "import", "export"},
         Resolvable(spec), NEW s, Passes(s)
  PROVE  Permits(spec, s.stmt)
<1>1. \/ PolicyAllows(spec, s.stmt, inv.command)
      \/ PolicyAllows(spec, s.stmt, s.declared)
  BY DEF Passes
<1>2. /\ s.stmt.action \in spec.actions
      /\ ~s.stmt.unsafe /\ ~s.stmt.multi
      /\ TablesAllowed(spec, s.stmt.objects)
  BY <1>1, Zenon DEF PolicyAllows
<1>. QED
  BY <1>2 DEF Permits, Resolvable, TablesAllowed

\* A call that has sent something is cleared for all of its plan.
LEMMA SentIsCleared ==
  ASSUME IInv, sent # <<>>
  PROVE  /\ inv.command \in Actions \cup {"tx", "import", "export"}
         /\ pc # "start" /\ answer # "refused" /\ Resolvable(spec)
         /\ \A i \in 1 .. Len(plan) : Passes(plan[i])
<1>1. Runs /\ connected
  BY DEF IInv, SentSoFar, Connected
<1>2. pc \in {"cleared", "sending"} \/ answer \in {"planned", "ok", "failed"}
  BY <1>1 DEF IInv, Connected
<1>3. pc # "start" /\ answer # "refused"
  BY <1>1 DEF IInv, Connected
<1>4. inv.command \in Actions \cup {"tx", "import", "export"}
  BY <1>1, Arguments DEF IInv, TypeOK, Runs, Commands, Actions
<1>5. Resolvable(spec)
  BY <1>3, Zenon DEF IInv, OneProfile
<1>6. \A i \in 1 .. Len(plan) : Passes(plan[i])
  BY <1>1, <1>2, Zenon DEF IInv, Checked, Runs
<1>. QED
  BY <1>3, <1>4, <1>5, <1>6

LEMMA Lengths ==
  ASSUME IInv
  PROVE  /\ Len(sent) \in Nat /\ Len(plan) \in Nat /\ Len(sent) <= Len(plan)
         /\ \A i \in 1 .. Len(sent) : i \in 1 .. Len(plan)
         /\ sent = <<>> <=> Len(sent) = 0
BY DEF IInv, TypeOK, SentSoFar

LEMMA SentIsPlan ==
  ASSUME IInv, NEW i \in 1 .. Len(sent)
  PROVE  sent[i].db = spec.db /\ sent[i].stmt = plan[i].stmt
<1>1. sent[i] = [db |-> spec.db, stmt |-> plan[i].stmt]
  BY Zenon DEF IInv, SentSoFar
<1>. QED
  BY <1>1

LEMMA IInvPermitted == IInv => SentWasPermitted
<1>. SUFFICES ASSUME IInv, NEW i \in 1 .. Len(sent)
              PROVE  IF inv.dsn = None
                     THEN \E p \in versions : sent[i].db = p.db /\ Permits(p, sent[i].stmt)
                     ELSE sent[i].db = inv.dsn /\ Permits(Adhoc, sent[i].stmt)
  BY DEF SentWasPermitted
<1>1. sent # <<>> /\ i \in 1 .. Len(plan)
  BY Lengths
<1>2. sent[i].db = spec.db /\ sent[i].stmt = plan[i].stmt
  BY SentIsPlan
<1>3. Permits(spec, plan[i].stmt)
  BY <1>1, SentIsCleared, PassesIsPermits
<1>4. CASE inv.dsn = None
  <2>1. spec \in versions
    BY <1>4 DEF IInv, OneProfile
  <2>. QED
    BY <1>2, <1>3, <1>4, <2>1
<1>5. CASE inv.dsn # None
  <2>1. spec = Adhoc
    BY <1>1, <1>5, SentIsCleared, Zenon DEF IInv, OneProfile
  <2>2. spec.db = inv.dsn
    BY <2>1 DEF Adhoc
  <2>. QED
    BY <1>2, <1>3, <1>5, <2>1, <2>2
<1>. QED
  BY <1>4, <1>5

LEMMA IInvRead == IInv => SentWasRead
<1>. SUFFICES ASSUME IInv, ReadsInput, sent # <<>>
              PROVE  \E t \in texts :
                Len(sent) <= Len(t) /\ \A i \in 1 .. Len(sent) : sent[i].stmt = t[i].stmt
  BY DEF SentWasRead
<1>1. plan # <<>>
  BY Lengths
<1>2. plan \in texts
  BY <1>1 DEF IInv, OneInput
<1>3. \A i \in 1 .. Len(sent) : sent[i].stmt = plan[i].stmt
  BY SentIsPlan
<1>. QED
  BY <1>2, <1>3, Lengths

LEMMA IInvChecked == IInv => CheckedBeforeSent
BY SentIsCleared, PassesIsPermits DEF CheckedBeforeSent

LEMMA IInvUntouched == IInv => Untouched
<1>. SUFFICES ASSUME IInv PROVE Untouched
  OBVIOUS
<1>1. answer = "refused" \/ (inv.dry /\ HasDryRun) => ~connected /\ sent = <<>>
  BY DEF IInv, Connected
<1>2. ASSUME answer = "planned", NEW i \in 1 .. Len(plan)
      PROVE  Permits(spec, plan[i].stmt)
  <2>1. inv.command \in Actions \cup {"tx", "import", "export"}
    BY <1>2 DEF IInv, Connected, HasDryRun
  <2>2. inv.command # "inspect_schema" /\ pc # "start"
    BY <1>2, <2>1 DEF Actions, IInv, Connected
  <2>3. Resolvable(spec)
    BY <1>2, <2>2, Zenon DEF IInv, OneProfile
  <2>4. Passes(plan[i])
    BY <1>2, <2>2 DEF IInv, Checked
  <2>. QED
    BY <2>1, <2>3, <2>4, PassesIsPermits
<1>. QED
  BY <1>1, <1>2 DEF Untouched

LEMMA IInvShown == IInv => ShownWasPermitted
BY DEF ShownWasPermitted, IInv, OneProfile, ShownSoFar

\* No call runs a statement that the profile of its target, in the version it
\* read, does not permit.
THEOREM PermittedCorrect == Spec => []SentWasPermitted
BY Invariance, IInvPermitted, PTL

\* What runs is the text, or the plan, that was analysed.
THEOREM ReadCorrect == Spec => []SentWasRead
BY Invariance, IInvRead, PTL

\* Nothing of a plan runs before all of it has passed.
THEOREM CheckedCorrect == Spec => []CheckedBeforeSent
BY Invariance, IInvChecked, PTL

\* Refused calls and dry runs leave the database alone.
THEOREM UntouchedCorrect == Spec => []Untouched
BY Invariance, IInvUntouched, PTL

\* inspect tells of permitted tables only.
THEOREM ShownCorrect == Spec => []ShownWasPermitted
BY Invariance, IInvShown, PTL
=============================================================================
