------------------------------- MODULE TxExec -------------------------------
(***************************************************************************)
(* How dbx executes writes: ExecuteGuarded (update, schema, admin),        *)
(* RunTxPlan (tx) and ImportRows (import) of internal/db.  The three share *)
(* one shape: a timeout context, BeginTx, a deferred Rollback, statements  *)
(* run one by one on the transaction, a check of the affected rows after   *)
(* each, Commit, and an answer printed for the caller.                     *)
(*                                                                         *)
(* Beside the main goroutine runs the goroutine that database/sql starts   *)
(* for a transaction (the "reaper" here): when the context ends it rolls   *)
(* the transaction back.  Commit, the deferred Rollback and the reaper     *)
(* compete for the transaction's done flag.  The server, the link to it,   *)
(* the timer, Ctrl-C and the death of the process are the environment.     *)
(***************************************************************************)
EXTENDS Integers, Sequences

CONSTANTS
  Call,            \* invocations of dbx that write to the same database
  Jobs,            \* what an invocation may be asked to do
  Rows,            \* the rows that statements lock
  DefaultMaxRows,  \* --max-rows-affected of the invocation
  MaxAffected      \* bound: the most rows one statement changes

\* A job is [kind, steps, printable]: which of the three functions runs, its
\* statements, and whether --format names a format PrintEnvelope knows.  A
\* step is [action, writes, max]: "query" or "update", the rows it locks, and
\* the step's own limit.  readTxPlan refuses a plan without steps, and an
\* import without rows returns before it opens a connection.
JobsAssumption ==
  \A j \in Jobs :
    /\ j.kind \in {"guarded", "plan", "import"}
    /\ j.steps \in Seq([action : {"query", "update"},
                        writes : SUBSET Rows, max : Int])
    /\ Len(j.steps) > 0
    /\ j.printable \in BOOLEAN

ASSUME WellFormedJobs == JobsAssumption
ASSUME Bounds == DefaultMaxRows \in Int /\ MaxAffected \in Nat

VARIABLES
  job,       \* the job of each call; never changes
  pc,        \* where the main goroutine is
  step,      \* index of the statement it runs next
  ctx,       \* TRUE once the context has ended (timer or signal)
  txDone,    \* the transaction's done flag: who sets it ends the transaction
  reaper,    \* the rollback goroutine of database/sql
  asked,     \* TRUE once COMMIT was handed to the connection
  answer,    \* what the caller was told
  req,       \* the request on its way to the server
  rsp,       \* the server's reply on its way back
  link,      \* TRUE while the connection is up
  sess,      \* the server's transaction
  affected,  \* rows changed by each statement run in the transaction
  applied    \* rows changed by each statement whose effect is durable

client == <<job, pc, step, ctx, txDone, reaper, asked, answer>>
server == <<req, rsp, link, sess, affected, applied>>
vars == <<client, server>>

Steps(c) == job[c].steps

TypeOK ==
  /\ job \in [Call -> Jobs]
  /\ pc \in [Call -> {"idle", "ready", "exec", "committing", "failing",
                      "rolling", "failed", "succeeded", "done", "dead"}]
  /\ step \in [Call -> Nat \ {0}]
  /\ ctx \in [Call -> BOOLEAN]
  /\ txDone \in [Call -> BOOLEAN]
  /\ reaper \in [Call -> {"off", "watching", "rolling", "sent"}]
  /\ asked \in [Call -> BOOLEAN]
  /\ answer \in [Call -> {"none", "ok", "err"}]
  /\ req \in [Call -> {"none", "stmt", "commit", "rollback"}]
  /\ rsp \in [Call -> {"none", "ok", "err"}]
  /\ link \in [Call -> BOOLEAN]
  /\ sess \in [Call -> {"none", "open", "committed", "aborted"}]
  /\ affected \in [Call -> Seq(Nat)]
  /\ applied \in [Call -> Seq(Nat)]

\* Calls that have done nothing yet, each where the first function says.
Untouched(where) ==
  /\ job \in [Call -> Jobs]
  /\ pc = where
  /\ step = [c \in Call |-> 1]
  /\ ctx = [c \in Call |-> FALSE]
  /\ txDone = [c \in Call |-> FALSE]
  /\ reaper = [c \in Call |-> "off"]
  /\ asked = [c \in Call |-> FALSE]
  /\ answer = [c \in Call |-> "none"]
  /\ req = [c \in Call |-> "none"]
  /\ rsp = [c \in Call |-> "none"]
  /\ link = [c \in Call |-> FALSE]
  /\ sess = [c \in Call |-> "none"]
  /\ affected = [c \in Call |-> <<>>]
  /\ applied = [c \in Call |-> <<>>]

Init == Untouched([c \in Call |-> "idle"])

\* The limit a statement is held to; 0 or less is no limit.  A plan's step
\* falls back to the default, an import has no limit and a query none either.
RowLimit(j, n) ==
  IF j.kind = "import" \/ j.steps[n].action = "query" THEN 0
  ELSE IF j.kind = "plan" /\ j.steps[n].max > 0 THEN j.steps[n].max
  ELSE DefaultMaxRows

TooMany(j, n, count) == RowLimit(j, n) > 0 /\ count > RowLimit(j, n)

-----------------------------------------------------------------------------
(* The main goroutine.                                                     *)

Goto(c, from, to) == pc[c] = from /\ pc' = [pc EXCEPT ![c] = to]

\* BeginTx: the server opens a transaction and database/sql starts the reaper.
Begin(c) ==
  /\ Goto(c, "idle", "ready")
  /\ ~ctx[c]
  /\ reaper' = [reaper EXCEPT ![c] = "watching"]
  /\ link' = [link EXCEPT ![c] = TRUE]
  /\ sess' = [sess EXCEPT ![c] = "open"]
  /\ UNCHANGED <<job, step, ctx, txDone, asked, answer, req, rsp, affected, applied>>

BeginFails(c) ==
  /\ Goto(c, "idle", "failed")
  /\ UNCHANGED <<job, step, ctx, txDone, reaper, asked, answer, server>>

\* The transaction can carry a statement: not cancelled, not ended, connected.
Usable(c) == ~ctx[c] /\ ~txDone[c] /\ link[c]

Issue(c) ==
  /\ Goto(c, "ready", "exec")
  /\ step[c] <= Len(Steps(c))
  /\ Usable(c)
  /\ req' = [req EXCEPT ![c] = "stmt"]
  /\ UNCHANGED <<job, step, ctx, txDone, reaper, asked, answer, rsp, link, sess, affected, applied>>

IssueRefused(c) ==
  /\ Goto(c, "ready", "failing")
  /\ step[c] <= Len(Steps(c))
  /\ ~Usable(c)
  /\ UNCHANGED <<job, step, ctx, txDone, reaper, asked, answer, server>>

\* Mutant of StepReturns: the affected rows are reported but not checked.
StepReturnsUnchecked(c) ==
  /\ pc[c] = "exec"
  /\ rsp[c] # "none"
  /\ pc' = [pc EXCEPT ![c] = IF rsp[c] = "ok" THEN "ready" ELSE "failing"]
  /\ step' = [step EXCEPT ![c] = IF rsp[c] = "ok" THEN @ + 1 ELSE @]
  /\ rsp' = [rsp EXCEPT ![c] = "none"]
  /\ UNCHANGED <<job, ctx, txDone, reaper, asked, answer, req, link, sess, affected, applied>>

\* The statement is back: an error or too many rows end the job, and anything
\* else moves on to the next statement.
StepReturns(c) ==
  /\ pc[c] = "exec"
  /\ rsp[c] # "none"
  /\ LET good == rsp[c] = "ok" /\ ~TooMany(job[c], step[c], affected[c][step[c]])
     IN /\ pc' = [pc EXCEPT ![c] = IF good THEN "ready" ELSE "failing"]
        /\ step' = [step EXCEPT ![c] = IF good THEN @ + 1 ELSE @]
  /\ rsp' = [rsp EXCEPT ![c] = "none"]
  /\ UNCHANGED <<job, ctx, txDone, reaper, asked, answer, req, link, sess, affected, applied>>

\* Commit gives up when the context has ended or the reaper was first;
\* otherwise it takes the done flag and hands COMMIT to the connection.
CommitRefused(c) ==
  /\ Goto(c, "ready", "failing")
  /\ step[c] > Len(Steps(c))
  /\ ctx[c] \/ txDone[c]
  /\ UNCHANGED <<job, step, ctx, txDone, reaper, asked, answer, server>>

\* Mutant of Commit: one statement early.
CommitEarly(c) ==
  /\ Goto(c, "ready", IF link[c] THEN "committing" ELSE "failing")
  /\ step[c] >= Len(Steps(c))
  /\ ~ctx[c] /\ ~txDone[c]
  /\ txDone' = [txDone EXCEPT ![c] = TRUE]
  /\ asked' = [asked EXCEPT ![c] = link[c]]
  /\ req' = IF link[c] THEN [req EXCEPT ![c] = "commit"] ELSE req
  /\ UNCHANGED <<job, step, ctx, reaper, answer, rsp, link, sess, affected, applied>>

\* Mutant of Commit: the done flag is set without looking at it.
CommitRegardless(c) ==
  /\ Goto(c, "ready", IF link[c] THEN "committing" ELSE "failing")
  /\ step[c] > Len(Steps(c))
  /\ txDone' = [txDone EXCEPT ![c] = TRUE]
  /\ asked' = [asked EXCEPT ![c] = link[c]]
  /\ req' = IF link[c] THEN [req EXCEPT ![c] = "commit"] ELSE req
  /\ UNCHANGED <<job, step, ctx, reaper, answer, rsp, link, sess, affected, applied>>

Commit(c) ==
  /\ Goto(c, "ready", IF link[c] THEN "committing" ELSE "failing")
  /\ step[c] > Len(Steps(c))
  /\ ~ctx[c] /\ ~txDone[c]
  /\ txDone' = [txDone EXCEPT ![c] = TRUE]
  /\ asked' = [asked EXCEPT ![c] = link[c]]
  /\ req' = IF link[c] THEN [req EXCEPT ![c] = "commit"] ELSE req
  /\ UNCHANGED <<job, step, ctx, reaper, answer, rsp, link, sess, affected, applied>>

\* Mutant of CommitReturns: the error of Commit is dropped.
CommitReturnsUnread(c) ==
  /\ rsp[c] # "none"
  /\ Goto(c, "committing", "succeeded")
  /\ rsp' = [rsp EXCEPT ![c] = "none"]
  /\ UNCHANGED <<job, step, ctx, txDone, reaper, asked, answer, req, link, sess, affected, applied>>

CommitReturns(c) ==
  /\ rsp[c] # "none"
  /\ Goto(c, "committing", IF rsp[c] = "ok" THEN "succeeded" ELSE "failing")
  /\ rsp' = [rsp EXCEPT ![c] = "none"]
  /\ UNCHANGED <<job, step, ctx, txDone, reaper, asked, answer, req, link, sess, affected, applied>>

\* Mutant of Unwind: the deferred call is Commit.
UnwindByCommit(c) ==
  /\ Goto(c, "failing", IF txDone[c] \/ ~link[c] THEN "failed" ELSE "rolling")
  /\ txDone' = [txDone EXCEPT ![c] = TRUE]
  /\ req' = IF txDone[c] \/ ~link[c] THEN req ELSE [req EXCEPT ![c] = "commit"]
  /\ UNCHANGED <<job, step, ctx, reaper, asked, answer, rsp, link, sess, affected, applied>>

\* Mutant of Unwind: it waits for the reaper that ended the transaction.
UnwindWaits(c) ==
  /\ Goto(c, "failing", IF ~link[c] THEN "failed" ELSE "rolling")
  /\ txDone' = [txDone EXCEPT ![c] = TRUE]
  /\ req' = IF txDone[c] \/ ~link[c] THEN req ELSE [req EXCEPT ![c] = "rollback"]
  /\ UNCHANGED <<job, step, ctx, reaper, asked, answer, rsp, link, sess, affected, applied>>

\* The deferred Rollback: nothing to do when the transaction has ended.
Unwind(c) ==
  /\ Goto(c, "failing", IF txDone[c] \/ ~link[c] THEN "failed" ELSE "rolling")
  /\ txDone' = [txDone EXCEPT ![c] = TRUE]
  /\ req' = IF txDone[c] \/ ~link[c] THEN req ELSE [req EXCEPT ![c] = "rollback"]
  /\ UNCHANGED <<job, step, ctx, reaper, asked, answer, rsp, link, sess, affected, applied>>

RollbackReturns(c) ==
  /\ rsp[c] # "none"
  /\ Goto(c, "rolling", "failed")
  /\ rsp' = [rsp EXCEPT ![c] = "none"]
  /\ UNCHANGED <<job, step, ctx, txDone, reaper, asked, answer, req, link, sess, affected, applied>>

\* The envelope is printed after the fact, so an unknown --format turns even
\* a committed job into a failure; db.Close and the exit drop the connection.
Exit(c) ==
  /\ pc[c] \in {"failed", "succeeded"}
  /\ pc' = [pc EXCEPT ![c] = "done"]
  /\ answer' = [answer EXCEPT ![c] =
                  IF pc[c] = "succeeded" /\ job[c].printable THEN "ok" ELSE "err"]
  /\ reaper' = [reaper EXCEPT ![c] = "off"]
  /\ link' = [link EXCEPT ![c] = FALSE]
  /\ UNCHANGED <<job, step, ctx, txDone, asked, req, rsp, sess, affected, applied>>

Main(c) ==
  \/ Begin(c) \/ BeginFails(c)
  \/ Issue(c) \/ IssueRefused(c) \/ StepReturns(c)
  \/ CommitRefused(c) \/ Commit(c) \/ CommitReturns(c)
  \/ Unwind(c) \/ RollbackReturns(c) \/ Exit(c)

-----------------------------------------------------------------------------
(* The rollback goroutine of database/sql.                                 *)

\* It wakes when the context ends, or when Commit or Rollback cancel it.
ReaperWakes(c) ==
  /\ reaper[c] = "watching"
  /\ ctx[c] \/ txDone[c]
  /\ reaper' = [reaper EXCEPT ![c] = IF txDone[c] THEN "off" ELSE "rolling"]
  /\ txDone' = [txDone EXCEPT ![c] = TRUE]
  /\ UNCHANGED <<job, pc, step, ctx, asked, answer, server>>

\* The rollback waits for the statement in flight to return.
ReaperRollsBack(c) ==
  /\ reaper[c] = "rolling"
  /\ pc[c] # "exec"
  /\ reaper' = [reaper EXCEPT ![c] = IF link[c] THEN "sent" ELSE "off"]
  /\ req' = IF link[c] THEN [req EXCEPT ![c] = "rollback"] ELSE req
  /\ UNCHANGED <<job, pc, step, ctx, txDone, asked, answer, rsp, link, sess, affected, applied>>

ReaperReturns(c) ==
  /\ reaper[c] = "sent"
  /\ rsp[c] # "none"
  /\ reaper' = [reaper EXCEPT ![c] = "off"]
  /\ rsp' = [rsp EXCEPT ![c] = "none"]
  /\ UNCHANGED <<job, pc, step, ctx, txDone, asked, answer, req, link, sess, affected, applied>>

Reaper(c) == ReaperWakes(c) \/ ReaperRollsBack(c) \/ ReaperReturns(c)

-----------------------------------------------------------------------------
(* The server.  A reply reaches the client only while the link is up.      *)

Respond(c, word) ==
  /\ req' = [req EXCEPT ![c] = "none"]
  /\ rsp' = IF link[c] THEN [rsp EXCEPT ![c] = word] ELSE rsp

\* The rows a call's open transaction has locked.
Held(c) ==
  IF sess[c] = "open"
  THEN UNION {Steps(c)[n].writes : n \in 1 .. Len(affected[c])} ELSE {}

SrvExec(c) ==
  /\ req[c] = "stmt" /\ sess[c] = "open"
  /\ LET s == Steps(c)[step[c]] IN
       /\ \A d \in Call \ {c} : Held(d) \cap s.writes = {}
       /\ \E count \in 0 .. IF s.action = "update" THEN MaxAffected ELSE 0 :
            affected' = [affected EXCEPT ![c] = Append(@, count)]
  /\ Respond(c, "ok")
  /\ UNCHANGED <<client, link, sess, applied>>

\* The server ends the call's transaction without effect, if it is open.
EndedBy(c) == IF sess[c] = "open" THEN "aborted" ELSE sess[c]

\* A constraint, a deadlock or a cancelled query: the statement has no effect
\* and the engine may end the whole transaction (MySQL on a deadlock).
SrvReject(c) ==
  /\ req[c] = "stmt"
  /\ \E s \in {sess[c], EndedBy(c)} : sess' = [sess EXCEPT ![c] = s]
  /\ Respond(c, "err")
  /\ UNCHANGED <<client, link, affected, applied>>

SrvCommit(c) ==
  /\ req[c] = "commit" /\ sess[c] = "open"
  /\ sess' = [sess EXCEPT ![c] = "committed"]
  /\ applied' = [applied EXCEPT ![c] = affected[c]]
  /\ Respond(c, "ok")
  /\ UNCHANGED <<client, link, affected>>

\* A deferred constraint or a serialization failure found at COMMIT.
SrvCommitFails(c) ==
  /\ req[c] = "commit"
  /\ sess' = [sess EXCEPT ![c] = EndedBy(c)]
  /\ Respond(c, "err")
  /\ UNCHANGED <<client, link, affected, applied>>

SrvRollback(c) ==
  /\ req[c] = "rollback"
  /\ sess' = [sess EXCEPT ![c] = EndedBy(c)]
  /\ Respond(c, "ok")
  /\ UNCHANGED <<client, link, affected, applied>>

\* The server notices that the client is gone: it drops what it has not yet
\* served and rolls an open transaction back.
SrvHangup(c) ==
  /\ ~link[c]
  /\ req[c] # "none" \/ sess[c] = "open"
  /\ req' = [req EXCEPT ![c] = "none"]
  /\ sess' = [sess EXCEPT ![c] = EndedBy(c)]
  /\ UNCHANGED <<client, rsp, link, affected, applied>>

-----------------------------------------------------------------------------
(* The timer and Ctrl-C, the link, and the death of the process.           *)

Alive(c) == pc[c] \notin {"done", "dead"}

\* Mutant of CtxDone: the context has no deadline.
NoDeadline(c) == FALSE /\ ctx' = ctx

CtxDone(c) ==
  /\ Alive(c) /\ ~ctx[c]
  /\ ctx' = [ctx EXCEPT ![c] = TRUE]
  /\ UNCHANGED <<job, pc, step, txDone, reaper, asked, answer, server>>

\* The client waits for a reply that a broken link will not bring.
Awaiting(c) == pc[c] \in {"exec", "committing", "rolling"} \/ reaper[c] = "sent"

LinkLost(c) ==
  /\ Alive(c) /\ link[c]
  /\ link' = [link EXCEPT ![c] = FALSE]
  /\ rsp' = IF Awaiting(c) /\ rsp[c] = "none" THEN [rsp EXCEPT ![c] = "err"] ELSE rsp
  /\ UNCHANGED <<client, req, sess, affected, applied>>

\* Mutant of CancelStatement: the statement is run without the context.
NoCancel(c) == FALSE /\ LinkLost(c)

\* The driver gives a statement up, and its connection, when the context ends.
CancelStatement(c) == pc[c] = "exec" /\ ctx[c] /\ LinkLost(c)

Kill(c) ==
  /\ Alive(c)
  /\ pc' = [pc EXCEPT ![c] = "dead"]
  /\ reaper' = [reaper EXCEPT ![c] = "off"]
  /\ link' = [link EXCEPT ![c] = FALSE]
  /\ UNCHANGED <<job, step, ctx, txDone, asked, answer, req, rsp, sess, affected, applied>>

-----------------------------------------------------------------------------
Server(c) ==
  \/ SrvExec(c) \/ SrvReject(c) \/ SrvCommit(c) \/ SrvCommitFails(c)
  \/ SrvRollback(c) \/ SrvHangup(c)

Env(c) == CtxDone(c) \/ LinkLost(c) \/ Kill(c)

Next == \E c \in Call : Main(c) \/ Reaper(c) \/ Server(c) \/ Env(c)

Spec == Init /\ [][Next]_vars

\* Goroutines are scheduled, the timer of WithTimeout fires, a driver obeys
\* its context, and a server that is reachable answers COMMIT and ROLLBACK and
\* notices a closed connection.  It need not ever grant a lock.
Fairness ==
  \A c \in Call :
    /\ WF_vars(Main(c))
    /\ WF_vars(Reaper(c))
    /\ WF_vars(CtxDone(c))
    /\ WF_vars(CancelStatement(c))
    /\ WF_vars(SrvCommit(c) \/ SrvCommitFails(c) \/ SrvRollback(c) \/ SrvHangup(c))

FairSpec == Spec /\ Fairness

-----------------------------------------------------------------------------
(* Properties.                                                             *)

\* The statements of a job take effect together or not at all, whatever the
\* timer, the link and the reaper do between two of them (RunTxPlan,
\* ImportRows: one transaction, committed after the last statement).
AllOrNothing ==
  \A c \in Call : applied[c] = <<>> \/ Len(applied[c]) = Len(Steps(c))

\* The row check comes after the statement has run, so what protects the data
\* is that nothing commits past it: no durable statement exceeds its limit.
WithinLimits ==
  \A c \in Call : \A n \in 1 .. Len(applied[c]) : ~TooMany(job[c], n, applied[c][n])

\* "ok" is only ever said of a job whose every statement is durable.
OkIsDurable ==
  \A c \in Call : answer[c] = "ok" => Len(applied[c]) = Len(Steps(c))

\* A call that failed before it handed COMMIT to the connection leaves nothing
\* behind, now or later: no statement, rollback or hangup still under way on
\* the server can make its writes durable.
RefusedLeavesNothing ==
  \A c \in Call : answer[c] = "err" /\ ~asked[c] => applied[c] = <<>>

\* The caller's view of one call, as AtomicWrites states it.
Fate(c) ==
  IF applied[c] # <<>>
  THEN IF Len(applied[c]) = Len(Steps(c)) THEN "applied" ELSE "torn"
  ELSE IF sess[c] = "aborted" THEN "dropped" ELSE "undecided"

Promise == INSTANCE AtomicWrites WITH fate <- [c \in Call |-> Fate(c)]

\* The execution implements what dbx promises its callers.
KeepsPromise == Promise!Spec

\* Every call ends, even when calls wait for each other's rows: the timeout
\* of the context breaks the wait.
EveryCallEnds == \A c \in Call : <>(~Alive(c))

\* No call holds its rows for ever: whether it commits, fails, is killed or
\* loses its link, its transaction ends on the server.
RowsAreFreed == \A c \in Call : Held(c) # {} ~> Held(c) = {}

\* What help.go:194 and references/commands.md say of tx: any failure rolls
\* the whole transaction back.
FailureRollsBack ==
  \A c \in Call : job[c].kind = "plan" /\ answer[c] = "err" => applied[c] = <<>>
=============================================================================
