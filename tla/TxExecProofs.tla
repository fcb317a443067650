---------------------------- MODULE TxExecProofs ----------------------------
(***************************************************************************)
(* Proofs about TxExec for every set of calls, every set of jobs and every *)
(* bound: types, atomicity, the row limits, and that an "ok" is durable.   *)
(***************************************************************************)
EXTENDS TxExec, TLAPS

(***************************************************************************)
(* The inductive invariant, one named part per idea.                       *)
(***************************************************************************)

\* Before BeginTx nothing exists.
Fresh(c) ==
  pc[c] = "idle" =>
    /\ step[c] = 1 /\ affected[c] = <<>>
    /\ reaper[c] = "off" /\ ~txDone[c] /\ ~asked[c]
    /\ req[c] = "none" /\ rsp[c] = "none" /\ sess[c] = "none"

\* The client's statement counter follows what the server has run.
InStep(c) ==
  /\ pc[c] = "ready" => /\ Len(affected[c]) = step[c] - 1
                        /\ step[c] <= Len(Steps(c)) + 1
                        /\ req[c] \in {"none", "rollback"}
                        /\ ~txDone[c] => req[c] = "none" /\ rsp[c] = "none"
  /\ pc[c] = "exec" => /\ step[c] <= Len(Steps(c))
                       /\ req[c] \in {"none", "stmt"}
                       /\ req[c] = "stmt" => rsp[c] # "ok" /\ Len(affected[c]) = step[c] - 1
                       /\ rsp[c] = "ok" => Len(affected[c]) = step[c]

\* COMMIT is asked for once, after the last statement, by whoever holds the
\* done flag; from then on nothing but that COMMIT can reach the server.
AskedLast(c) ==
  /\ req[c] = "commit" => asked[c]
  /\ pc[c] \in {"committing", "succeeded"} => asked[c]
  /\ asked[c] => /\ step[c] = Len(Steps(c)) + 1
                 /\ Len(affected[c]) = Len(Steps(c))
                 /\ txDone[c]
                 /\ pc[c] \notin {"idle", "ready", "exec", "rolling"}
                 /\ reaper[c] \in {"off", "watching"}
                 /\ req[c] \in {"none", "commit"}
  /\ reaper[c] \in {"rolling", "sent"} => txDone[c] /\ pc[c] # "rolling"
  /\ reaper[c] = "sent" => pc[c] # "exec"
  /\ pc[c] = "rolling" => txDone[c]

\* What is durable is the whole transaction, and only a COMMIT made it so.
Durable(c) ==
  /\ sess[c] = "committed" => asked[c] /\ applied[c] = affected[c]
  /\ sess[c] # "committed" => applied[c] = <<>>
  /\ pc[c] = "committing" /\ rsp[c] = "ok" => sess[c] = "committed"
  /\ pc[c] = "succeeded" => sess[c] = "committed"
  /\ answer[c] = "ok" => sess[c] = "committed"
  /\ answer[c] # "none" => pc[c] = "done"

\* Every statement the client has moved past kept its limit.
Checked(c) ==
  \A n \in 1 .. step[c] - 1 :
    n <= Len(affected[c]) /\ ~TooMany(job[c], n, affected[c][n])

CallInv(c) == Fresh(c) /\ InStep(c) /\ AskedLast(c) /\ Durable(c)

IInv == TypeOK /\ \A c \in Call : CallInv(c) /\ Checked(c)

-----------------------------------------------------------------------------
(* Types.                                                                  *)

LEMMA StepsAreSeq ==
  ASSUME TypeOK, NEW c \in Call
  PROVE  Len(Steps(c)) \in Nat /\ Len(Steps(c)) > 0
BY WellFormedJobs DEF TypeOK, JobsAssumption, Steps

LEMMA TypeMain ==
  ASSUME TypeOK, NEW c \in Call, Main(c)
  PROVE  TypeOK'
<1>. USE DEF TypeOK
<1>1. CASE Begin(c)
  BY <1>1 DEF Begin, Goto
<1>2. CASE BeginFails(c)
  BY <1>2 DEF BeginFails, server, Goto
<1>3. CASE Issue(c)
  BY <1>3 DEF Issue, Goto
<1>4. CASE IssueRefused(c)
  BY <1>4 DEF IssueRefused, server, Goto
<1>5. CASE StepReturns(c)
  BY <1>5 DEF StepReturns
<1>6. CASE CommitRefused(c)
  BY <1>6 DEF CommitRefused, server, Goto
<1>7. CASE Commit(c)
  BY <1>7 DEF Commit, Goto
<1>8. CASE CommitReturns(c)
  BY <1>8 DEF CommitReturns, Goto
<1>9. CASE Unwind(c)
  BY <1>9 DEF Unwind, Goto
<1>10. CASE RollbackReturns(c)
  BY <1>10 DEF RollbackReturns, Goto
<1>11. CASE Exit(c)
  BY <1>11 DEF Exit
<1>. QED
  BY <1>1, <1>2, <1>3, <1>4, <1>5, <1>6, <1>7, <1>8, <1>9, <1>10, <1>11 DEF Main

LEMMA TypeReaper ==
  ASSUME TypeOK, NEW c \in Call, Reaper(c)
  PROVE  TypeOK'
<1>. USE DEF TypeOK
<1>1. CASE ReaperWakes(c)
  BY <1>1 DEF ReaperWakes, server
<1>2. CASE ReaperRollsBack(c)
  BY <1>2 DEF ReaperRollsBack
<1>3. CASE ReaperReturns(c)
  BY <1>3 DEF ReaperReturns
<1>. QED
  BY <1>1, <1>2, <1>3 DEF Reaper

LEMMA TypeServer ==
  ASSUME TypeOK, NEW c \in Call, Server(c)
  PROVE  TypeOK'
<1>. USE DEF TypeOK
<1>1. CASE SrvExec(c)
  BY <1>1 DEF SrvExec, client, Respond
<1>2. CASE SrvReject(c)
  <2>1. PICK s \in {sess[c], EndedBy(c)} : sess' = [sess EXCEPT ![c] = s]
    BY <1>2 DEF SrvReject
  <2>2. s \in {"none", "open", "committed", "aborted"}
    BY DEF EndedBy
  <2>. QED
    BY <1>2, <2>1, <2>2 DEF SrvReject, client, Respond
<1>3. CASE SrvCommit(c)
  BY <1>3 DEF SrvCommit, client, Respond
<1>4. CASE SrvCommitFails(c)
  BY <1>4 DEF SrvCommitFails, client, Respond, EndedBy
<1>5. CASE SrvRollback(c)
  BY <1>5 DEF SrvRollback, client, Respond, EndedBy
<1>6. CASE SrvHangup(c)
  BY <1>6 DEF SrvHangup, client, EndedBy
<1>. QED
  BY <1>1, <1>2, <1>3, <1>4, <1>5, <1>6 DEF Server

LEMMA TypeEnv ==
  ASSUME TypeOK, NEW c \in Call, Env(c)
  PROVE  TypeOK'
<1>. USE DEF TypeOK
<1>1. CASE CtxDone(c)
  BY <1>1 DEF CtxDone, server
<1>2. CASE LinkLost(c)
  BY <1>2 DEF LinkLost, client
<1>3. CASE Kill(c)
  BY <1>3 DEF Kill
<1>. QED
  BY <1>1, <1>2, <1>3 DEF Env

-----------------------------------------------------------------------------
(* A step of one call leaves the state of the others alone.                *)

Same(d) ==
  /\ job'[d] = job[d] /\ pc'[d] = pc[d] /\ step'[d] = step[d]
  /\ txDone'[d] = txDone[d] /\ reaper'[d] = reaper[d]
  /\ asked'[d] = asked[d] /\ answer'[d] = answer[d]
  /\ req'[d] = req[d] /\ rsp'[d] = rsp[d] /\ sess'[d] = sess[d]
  /\ affected'[d] = affected[d] /\ applied'[d] = applied[d]

LEMMA Frame ==
  ASSUME NEW d \in Call, CallInv(d), Checked(d), Same(d)
  PROVE  CallInv(d)' /\ Checked(d)'
BY DEF CallInv, Checked, Same, Fresh, InStep, AskedLast, Durable, Steps

LEMMA OthersMain ==
  ASSUME TypeOK, NEW c \in Call, NEW d \in Call \ {c}, Main(c)
  PROVE  Same(d)
<1>. USE DEF TypeOK, Same
<1>1. CASE Begin(c)
  BY <1>1 DEF Begin, Goto
<1>2. CASE BeginFails(c)
  BY <1>2 DEF BeginFails, server, Goto
<1>3. CASE Issue(c)
  BY <1>3 DEF Issue, Usable, Goto
<1>4. CASE IssueRefused(c)
  BY <1>4 DEF IssueRefused, Usable, server, Goto
<1>5. CASE StepReturns(c)
  BY <1>5 DEF StepReturns
<1>6. CASE CommitRefused(c)
  BY <1>6 DEF CommitRefused, server, Goto
<1>7. CASE Commit(c)
  BY <1>7 DEF Commit, Goto
<1>8. CASE CommitReturns(c)
  BY <1>8 DEF CommitReturns, Goto
<1>9. CASE Unwind(c)
  BY <1>9 DEF Unwind, Goto
<1>10. CASE RollbackReturns(c)
  BY <1>10 DEF RollbackReturns, Goto
<1>11. CASE Exit(c)
  BY <1>11 DEF Exit
<1>. QED
  BY <1>1, <1>2, <1>3, <1>4, <1>5, <1>6, <1>7, <1>8, <1>9, <1>10, <1>11 DEF Main

LEMMA OthersReaper ==
  ASSUME TypeOK, NEW c \in Call, NEW d \in Call \ {c}, Reaper(c)
  PROVE  Same(d)
<1>. USE DEF TypeOK, Same
<1>1. CASE ReaperWakes(c)
  BY <1>1 DEF ReaperWakes, server
<1>2. CASE ReaperRollsBack(c)
  BY <1>2 DEF ReaperRollsBack
<1>3. CASE ReaperReturns(c)
  BY <1>3 DEF ReaperReturns
<1>. QED
  BY <1>1, <1>2, <1>3 DEF Reaper

LEMMA OthersServer ==
  ASSUME TypeOK, NEW c \in Call, NEW d \in Call \ {c}, Server(c)
  PROVE  Same(d)
<1>. USE DEF TypeOK, Same
<1>1. CASE SrvExec(c)
  BY <1>1 DEF SrvExec, client, Respond
<1>2. CASE SrvReject(c)
  BY <1>2 DEF SrvReject, client, Respond, EndedBy
<1>3. CASE SrvCommit(c)
  BY <1>3 DEF SrvCommit, client, Respond
<1>4. CASE SrvCommitFails(c)
  BY <1>4 DEF SrvCommitFails, client, Respond, EndedBy
<1>5. CASE SrvRollback(c)
  BY <1>5 DEF SrvRollback, client, Respond, EndedBy
<1>6. CASE SrvHangup(c)
  BY <1>6 DEF SrvHangup, client, EndedBy
<1>. QED
  BY <1>1, <1>2, <1>3, <1>4, <1>5, <1>6 DEF Server

LEMMA OthersEnv ==
  ASSUME TypeOK, NEW c \in Call, NEW d \in Call \ {c}, Env(c)
  PROVE  Same(d)
<1>. USE DEF TypeOK, Same
<1>1. CASE CtxDone(c)
  BY <1>1 DEF CtxDone, Alive, server
<1>2. CASE LinkLost(c)
  BY <1>2 DEF LinkLost, client, Awaiting, Alive
<1>3. CASE Kill(c)
  BY <1>3 DEF Kill, Alive
<1>. QED
  BY <1>1, <1>2, <1>3 DEF Env

-----------------------------------------------------------------------------
(* Each action keeps the invariant of the call it belongs to.              *)

LEMMA InvMain ==
  ASSUME TypeOK, TypeOK', NEW c \in Call, CallInv(c), Main(c)
  PROVE  CallInv(c)'
<1>1. Len(Steps(c)) \in Nat /\ Len(Steps(c)) > 0
  BY StepsAreSeq
<1>. USE <1>1 DEF TypeOK, CallInv, Fresh, InStep, AskedLast, Durable, Steps
<1>2. CASE Begin(c)
  BY <1>2 DEF Begin, Goto
<1>3. CASE BeginFails(c)
  BY <1>3 DEF BeginFails, server, Goto
<1>4. CASE Issue(c)
  BY <1>4 DEF Issue, Usable, Goto
<1>5. CASE IssueRefused(c)
  BY <1>5 DEF IssueRefused, Usable, server, Goto
<1>6. CASE StepReturns(c)
  <2>. DEFINE good == rsp[c] = "ok" /\ ~TooMany(job[c], step[c], affected[c][step[c]])
  <2>1. /\ pc[c] = "exec" /\ rsp'[c] = "none"
        /\ pc'[c] = IF good THEN "ready" ELSE "failing"
        /\ step'[c] = IF good THEN step[c] + 1 ELSE step[c]
        /\ job' = job /\ txDone' = txDone /\ reaper' = reaper /\ asked' = asked
        /\ answer' = answer /\ req' = req /\ sess' = sess
        /\ affected' = affected /\ applied' = applied
    BY <1>6 DEF StepReturns
  <2>2. good => rsp[c] = "ok"
    OBVIOUS
  <2>. HIDE DEF good
  <2>3. CASE good
    BY <2>1, <2>2, <2>3
  <2>4. CASE ~good
    BY <2>1, <2>4
  <2>. QED
    BY <2>3, <2>4
<1>7. CASE CommitRefused(c)
  BY <1>7 DEF CommitRefused, server, Goto
<1>8. CASE Commit(c)
  <2>1. /\ pc[c] = "ready" /\ ~txDone[c] /\ step[c] = Len(Steps(c)) + 1
        /\ Len(affected[c]) = Len(Steps(c)) /\ rsp[c] = "none" /\ req[c] = "none"
        /\ reaper[c] \in {"off", "watching"}
    <3>1. pc[c] = "ready" /\ ~txDone[c] /\ step[c] > Len(Steps(c))
      BY <1>8 DEF Commit, Goto
    <3>2. step[c] = Len(Steps(c)) + 1 /\ Len(affected[c]) = Len(Steps(c))
      BY <3>1
    <3>3. reaper[c] \in {"off", "watching"}
      BY <3>1
    <3>. QED
      BY <3>1, <3>2, <3>3
  <2>2. CASE link[c]
    BY <1>8, <2>1, <2>2 DEF Commit, Goto
  <2>3. CASE ~link[c]
    BY <1>8, <2>1, <2>3 DEF Commit, Goto
  <2>. QED
    BY <2>2, <2>3
<1>9. CASE CommitReturns(c)
  BY <1>9 DEF CommitReturns, Goto
<1>10. CASE Unwind(c)
  BY <1>10 DEF Unwind, Goto
<1>11. CASE RollbackReturns(c)
  BY <1>11 DEF RollbackReturns, Goto
<1>12. CASE Exit(c)
  BY <1>12 DEF Exit
<1>. QED
  BY <1>2, <1>3, <1>4, <1>5, <1>6, <1>7, <1>8, <1>9, <1>10, <1>11, <1>12 DEF Main

LEMMA InvReaper ==
  ASSUME TypeOK, TypeOK', NEW c \in Call, CallInv(c), Reaper(c)
  PROVE  CallInv(c)'
<1>1. Len(Steps(c)) \in Nat /\ Len(Steps(c)) > 0
  BY StepsAreSeq
<1>. USE <1>1 DEF TypeOK, CallInv, Fresh, InStep, AskedLast, Durable, Steps
<1>2. CASE ReaperWakes(c)
  BY <1>2 DEF ReaperWakes, server
<1>3. CASE ReaperRollsBack(c)
  BY <1>3 DEF ReaperRollsBack
<1>4. CASE ReaperReturns(c)
  BY <1>4 DEF ReaperReturns
<1>. QED
  BY <1>2, <1>3, <1>4 DEF Reaper

LEMMA InvServer ==
  ASSUME TypeOK, TypeOK', NEW c \in Call, CallInv(c), Server(c)
  PROVE  CallInv(c)'
<1>1. Len(Steps(c)) \in Nat /\ Len(Steps(c)) > 0
  BY StepsAreSeq
<1>. USE <1>1 DEF TypeOK, CallInv, Fresh, InStep, AskedLast, Durable, Steps
<1>2. CASE SrvExec(c)
  BY <1>2 DEF SrvExec, client, Respond
<1>3. CASE SrvReject(c)
  BY <1>3 DEF SrvReject, client, Respond, EndedBy
<1>4. CASE SrvCommit(c)
  BY <1>4 DEF SrvCommit, client, Respond
<1>5. CASE SrvCommitFails(c)
  BY <1>5 DEF SrvCommitFails, client, Respond, EndedBy
<1>6. CASE SrvRollback(c)
  BY <1>6 DEF SrvRollback, client, Respond, EndedBy
<1>7. CASE SrvHangup(c)
  BY <1>7 DEF SrvHangup, client, EndedBy
<1>. QED
  BY <1>2, <1>3, <1>4, <1>5, <1>6, <1>7 DEF Server

LEMMA InvEnv ==
  ASSUME TypeOK, TypeOK', NEW c \in Call, CallInv(c), Env(c)
  PROVE  CallInv(c)'
<1>1. Len(Steps(c)) \in Nat /\ Len(Steps(c)) > 0
  BY StepsAreSeq
<1>. USE <1>1 DEF TypeOK, CallInv, Fresh, InStep, AskedLast, Durable, Steps
<1>2. CASE CtxDone(c)
  BY <1>2 DEF CtxDone, Alive, server
<1>3. CASE LinkLost(c)
  BY <1>3 DEF LinkLost, client, Awaiting, Alive
<1>4. CASE Kill(c)
  BY <1>4 DEF Kill, Alive
<1>. QED
  BY <1>2, <1>3, <1>4 DEF Env

-----------------------------------------------------------------------------
(* The statements the client has moved past kept their limits.             *)

LEMMA CheckedStays ==
  ASSUME TypeOK, NEW c \in Call, Checked(c), job' = job, step'[c] = step[c],
         affected'[c] = affected[c]
  PROVE  Checked(c)'
BY DEF Checked

LEMMA CheckedStep ==
  ASSUME TypeOK, NEW c \in Call, CallInv(c), Checked(c),
         Main(c) \/ Reaper(c) \/ Server(c) \/ Env(c)
  PROVE  Checked(c)'
<1>1. CASE StepReturns(c)
  <2>. DEFINE good == rsp[c] = "ok" /\ ~TooMany(job[c], step[c], affected[c][step[c]])
  <2>1. /\ pc[c] = "exec"
        /\ step'[c] = IF good THEN step[c] + 1 ELSE step[c]
        /\ job' = job /\ affected' = affected
    BY <1>1 DEF StepReturns, TypeOK
  <2>2. CASE good
    <3>1. Len(affected[c]) = step[c] /\ ~TooMany(job[c], step[c], affected[c][step[c]])
      BY <2>1, <2>2 DEF CallInv, InStep
    <3>2. step[c] \in Nat /\ step'[c] = step[c] + 1
      BY <2>1, <2>2 DEF TypeOK
    <3>3. SUFFICES ASSUME NEW n \in 1 .. step'[c] - 1
                   PROVE  n <= Len(affected[c]) /\ ~TooMany(job[c], n, affected[c][n])
      BY <2>1 DEF Checked
    <3>4. CASE n = step[c]
      BY <3>1, <3>2, <3>4
    <3>5. CASE n \in 1 .. step[c] - 1
      BY <3>5 DEF Checked
    <3>. QED
      BY <3>2, <3>4, <3>5
  <2>3. CASE ~good
    BY <2>1, <2>3, CheckedStays
  <2>. QED
    BY <2>2, <2>3
<1>2. CASE SrvExec(c)
  <2>1. PICK count \in Nat : affected' = [affected EXCEPT ![c] = Append(@, count)]
    <3>. DEFINE most == IF Steps(c)[step[c]].action = "update" THEN MaxAffected ELSE 0
    <3>1. PICK count \in 0 .. most : affected' = [affected EXCEPT ![c] = Append(@, count)]
      BY <1>2, Zenon DEF SrvExec
    <3>2. count \in Nat
      OBVIOUS
    <3>. QED
      BY <3>1, <3>2
  <2>2. job' = job /\ step' = step
    BY <1>2 DEF SrvExec, client
  <2>3. \A n \in 1 .. Len(affected[c]) : affected'[c][n] = affected[c][n]
    BY <2>1 DEF TypeOK
  <2>4. Len(affected'[c]) = Len(affected[c]) + 1 /\ Len(affected[c]) \in Nat
    BY <2>1 DEF TypeOK
  <2>. QED
    BY <2>2, <2>3, <2>4 DEF Checked, TypeOK
<1>3. CASE ~StepReturns(c) /\ ~SrvExec(c)
  <2>1. job' = job /\ step'[c] = step[c] /\ affected'[c] = affected[c]
    BY <1>3 DEF Main, Reaper, Server, Env, Begin, BeginFails, Issue, IssueRefused,
      CommitRefused, Commit, CommitReturns, Unwind, RollbackReturns, Exit, ReaperWakes,
      ReaperRollsBack, ReaperReturns, SrvReject, SrvCommit, SrvCommitFails, SrvRollback,
      SrvHangup, CtxDone, LinkLost, Kill, client, server
  <2>. QED
    BY <2>1, CheckedStays
<1>. QED
  BY <1>1, <1>2, <1>3

-----------------------------------------------------------------------------
(* Putting the steps together.                                             *)

LEMMA InitIInv == Init => IInv
<1>. SUFFICES ASSUME Init PROVE IInv
  OBVIOUS
<1>1. TypeOK
  BY DEF Init, Untouched, TypeOK
<1>2. ASSUME NEW c \in Call PROVE CallInv(c) /\ Checked(c)
  BY DEF Init, Untouched, CallInv, Fresh, InStep, AskedLast, Durable, Checked
<1>. QED
  BY <1>1, <1>2 DEF IInv

LEMMA NextIInv == IInv /\ [Next]_vars => IInv'
<1>. SUFFICES ASSUME IInv, [Next]_vars PROVE IInv'
  OBVIOUS
<1>1. CASE UNCHANGED vars
  <2>1. TypeOK'
    BY <1>1 DEF IInv, TypeOK, vars, client, server
  <2>2. \A d \in Call : Same(d)
    BY <1>1 DEF Same, vars, client, server
  <2>. QED
    BY <2>1, <2>2, Frame DEF IInv
<1>2. ASSUME NEW c \in Call, Main(c) \/ Reaper(c) \/ Server(c) \/ Env(c)
      PROVE  IInv'
  <2>1. TypeOK'
    BY <1>2, TypeMain, TypeReaper, TypeServer, TypeEnv DEF IInv
  <2>2. CallInv(c)'
    BY <1>2, <2>1, InvMain, InvReaper, InvServer, InvEnv DEF IInv
  <2>3. Checked(c)'
    BY <1>2, CheckedStep DEF IInv
  <2>4. ASSUME NEW d \in Call \ {c} PROVE CallInv(d)' /\ Checked(d)'
    <3>1. Same(d)
      BY <1>2, OthersMain, OthersReaper, OthersServer, OthersEnv DEF IInv
    <3>. QED
      BY <3>1, Frame DEF IInv
  <2>. QED
    BY <2>1, <2>2, <2>3, <2>4 DEF IInv
<1>. QED
  BY <1>1, <1>2 DEF Next

\* The inductive invariant holds throughout.
THEOREM Invariance == Spec => []IInv
<1>1. Init => IInv
  BY InitIInv
<1>2. IInv /\ [Next]_vars => IInv'
  BY NextIInv
<1>. QED
  BY <1>1, <1>2, PTL DEF Spec

\* Every variable keeps its type, for every set of jobs and every bound.
THEOREM TypeCorrect == Spec => []TypeOK
BY Invariance, PTL DEF IInv

\* The statements of a job take effect together or not at all, however the
\* timer, the link, the reaper and the other calls interleave (RunTxPlan).
THEOREM Atomicity == Spec => []AllOrNothing
<1>1. IInv => AllOrNothing
  BY DEF IInv, CallInv, AskedLast, Durable, AllOrNothing, TypeOK
<1>. QED
  BY <1>1, Invariance, PTL

\* No durable statement exceeds its row limit, although the limit is checked
\* after the statement has run (executeWithRunner).
THEOREM LimitsHold == Spec => []WithinLimits
<1>1. IInv => WithinLimits
  <2>. SUFFICES ASSUME IInv, NEW c \in Call, NEW n \in 1 .. Len(applied[c])
                PROVE  ~TooMany(job[c], n, applied[c][n])
    BY DEF WithinLimits
  <2>1. applied[c] # <<>>
    BY DEF IInv, TypeOK
  <2>2. applied[c] = affected[c] /\ step[c] = Len(affected[c]) + 1
    BY <2>1 DEF IInv, CallInv, AskedLast, Durable
  <2>3. n \in 1 .. step[c] - 1
    BY <2>2 DEF IInv, TypeOK
  <2>. QED
    BY <2>2, <2>3 DEF IInv, Checked
<1>. QED
  BY <1>1, Invariance, PTL

\* "ok" is only said of a job whose every statement is durable.
THEOREM OkDurable == Spec => []OkIsDurable
<1>1. IInv => OkIsDurable
  BY DEF IInv, CallInv, AskedLast, Durable, OkIsDurable
<1>. QED
  BY <1>1, Invariance, PTL

\* A call that failed before COMMIT was handed over leaves nothing behind.
THEOREM RefusedClean == Spec => []RefusedLeavesNothing
<1>1. IInv => RefusedLeavesNothing
  BY DEF IInv, CallInv, Durable, RefusedLeavesNothing
<1>. QED
  BY <1>1, Invariance, PTL

-----------------------------------------------------------------------------
(* TxExec implements AtomicWrites.                                         *)

LEMMA FateOfOthers ==
  ASSUME NEW d \in Call, Same(d)
  PROVE  Fate(d)' = Fate(d) /\ asked'[d] = asked[d] /\ answer'[d] = answer[d]
BY DEF Same, Fate, Steps

\* A step that leaves all of a call's fate, question and answer as they were.
LEMMA Stutter ==
  ASSUME TypeOK, TypeOK', NEW c \in Call,
         \A d \in Call \ {c} : Same(d),
         Fate(c)' = Fate(c), asked'[c] = asked[c], answer'[c] = answer[c]
  PROVE  UNCHANGED Promise!vars
<1>1. \A d \in Call : Fate(d)' = Fate(d) /\ asked'[d] = asked[d] /\ answer'[d] = answer[d]
  BY FateOfOthers
<1>2. asked' = asked /\ answer' = answer
  BY <1>1 DEF TypeOK
<1>. QED
  BY <1>1, <1>2 DEF Promise!vars

\* A server that ends an open transaction without effect drops the call.
LEMMA Dropping ==
  ASSUME IInv, IInv', NEW c \in Call, \A d \in Call \ {c} : Same(d),
         sess'[c] \in {sess[c], EndedBy(c)},
         applied' = applied, job' = job, asked' = asked, answer' = answer
  PROVE  [Promise!Next]_(Promise!vars)
<1>1. CASE Fate(c)' = Fate(c)
  BY <1>1, Stutter DEF IInv
<1>2. CASE Fate(c)' # Fate(c)
  <2>1. Fate(c) = "undecided" /\ Fate(c)' = "dropped"
    BY <1>2 DEF Fate, EndedBy, Steps
  <2>2. [d \in Call |-> Fate(d)]' = [[d \in Call |-> Fate(d)] EXCEPT ![c] = "dropped"]
    BY <2>1, FateOfOthers
  <2>3. Promise!Drop(c)
    BY <2>1, <2>2 DEF Promise!Drop
  <2>. QED
    BY <2>3 DEF Promise!Next
<1>. QED
  BY <1>1, <1>2

LEMMA SimulateStep ==
  ASSUME IInv, IInv', NEW c \in Call, \A d \in Call \ {c} : Same(d),
         Main(c) \/ Reaper(c) \/ Server(c) \/ Env(c)
  PROVE  [Promise!Next]_(Promise!vars)
<1>. USE DEF IInv
<1>1. CASE Commit(c)
  <2>1. Fate(c)' = Fate(c) /\ pc[c] = "ready" /\ answer' = answer
    BY <1>1 DEF Commit, Goto, Fate, Steps
  <2>2. ~asked[c] /\ answer[c] = "none"
    BY <2>1 DEF CallInv, AskedLast, Durable, TypeOK
  <2>3. [d \in Call |-> Fate(d)]' = [d \in Call |-> Fate(d)]
    BY <2>1, FateOfOthers
  <2>4. CASE link[c]
    <3>1. asked' = [asked EXCEPT ![c] = TRUE]
      BY <1>1, <2>4 DEF Commit
    <3>2. Promise!Ask(c)
      BY <2>1, <2>2, <2>3, <3>1 DEF Promise!Ask
    <3>. QED
      BY <3>2 DEF Promise!Next
  <2>5. CASE ~link[c]
    <3>1. asked'[c] = asked[c]
      BY <1>1, <2>2, <2>5 DEF Commit, TypeOK
    <3>. QED
      BY <2>1, <3>1, Stutter
  <2>. QED
    BY <2>4, <2>5
<1>2. CASE Exit(c)
  <2>1. PICK word \in {"ok", "err"} :
          /\ answer' = [answer EXCEPT ![c] = word]
          /\ word = "ok" => pc[c] = "succeeded"
    BY <1>2 DEF Exit
  <2>2. /\ Fate(c)' = Fate(c) /\ asked' = asked
        /\ pc[c] \in {"succeeded", "failed"}
    BY <1>2 DEF Exit, Fate, Steps
  <2>3. answer[c] = "none"
    BY <2>2 DEF CallInv, Durable
  <2>4. ASSUME word = "ok" PROVE Fate(c) = "applied"
    <3>1. applied[c] = affected[c] /\ Len(affected[c]) = Len(Steps(c))
      BY <2>1, <2>4 DEF CallInv, Durable, AskedLast
    <3>. QED
      BY <3>1, StepsAreSeq DEF Fate, TypeOK
  <2>5. [d \in Call |-> Fate(d)]' = [d \in Call |-> Fate(d)]
    BY <2>2, FateOfOthers
  <2>6. [d \in Call |-> Fate(d)][c] = Fate(c)
    OBVIOUS
  <2>7. Promise!Answer(c, word)
    BY <2>1, <2>2, <2>3, <2>4, <2>5, <2>6 DEF Promise!Answer
  <2>. QED
    BY <2>7 DEF Promise!Next
<1>3. CASE SrvCommit(c)
  <2>1. /\ sess[c] = "open" /\ asked[c] /\ applied[c] = <<>>
        /\ Len(affected[c]) = Len(Steps(c))
    BY <1>3 DEF SrvCommit, CallInv, AskedLast, Durable
  <2>2. Fate(c) = "undecided" /\ Fate(c)' = "applied" /\ asked' = asked /\ answer' = answer
    <3>1. applied'[c] = affected[c] /\ job' = job /\ asked' = asked /\ answer' = answer
      BY <1>3 DEF SrvCommit, client, TypeOK
    <3>. QED
      BY <2>1, <3>1, StepsAreSeq DEF Fate, Steps, TypeOK
  <2>3. [d \in Call |-> Fate(d)]' = [[d \in Call |-> Fate(d)] EXCEPT ![c] = "applied"]
    BY <2>2, FateOfOthers
  <2>4. Promise!Apply(c)
    BY <2>1, <2>2, <2>3 DEF Promise!Apply
  <2>. QED
    BY <2>4 DEF Promise!Next
<1>4. CASE SrvReject(c) \/ SrvCommitFails(c) \/ SrvRollback(c) \/ SrvHangup(c)
  <2>1. /\ sess'[c] \in {sess[c], EndedBy(c)}
        /\ applied' = applied /\ job' = job /\ asked' = asked /\ answer' = answer
    BY <1>4 DEF SrvReject, SrvCommitFails, SrvRollback, SrvHangup, client, TypeOK
  <2>. QED
    BY <2>1, Dropping
<1>5. CASE Begin(c)
  <2>1. /\ sess[c] = "none" /\ sess'[c] = "open" /\ applied' = applied /\ job' = job
        /\ asked' = asked /\ answer' = answer
    BY <1>5 DEF Begin, Goto, CallInv, Fresh, TypeOK
  <2>. QED
    BY <2>1, Stutter DEF Fate, Steps
<1>6. CASE /\ ~Commit(c) /\ ~Exit(c) /\ ~SrvCommit(c) /\ ~SrvReject(c)
           /\ ~SrvCommitFails(c) /\ ~SrvRollback(c) /\ ~SrvHangup(c) /\ ~Begin(c)
  <2>1. /\ sess' = sess /\ applied' = applied /\ job' = job
        /\ asked' = asked /\ answer' = answer
    BY <1>6 DEF Main, Reaper, Server, Env, BeginFails, Issue, IssueRefused, StepReturns,
      CommitRefused, CommitReturns, Unwind, RollbackReturns, ReaperWakes, ReaperRollsBack,
      ReaperReturns, SrvExec, CtxDone, LinkLost, Kill, client, server
  <2>. QED
    BY <2>1, Stutter DEF Fate, Steps
<1>. QED
  BY <1>1, <1>2, <1>3, <1>4, <1>5, <1>6

\* The execution of every update, tx and import implements AtomicWrites: each
\* behaviour of the detailed model is one that the promise to callers allows.
THEOREM Refinement == Spec => KeepsPromise
<1>1. Init => Promise!Init
  BY DEF Init, Untouched, Promise!Init, Fate
<1>2. IInv /\ IInv' /\ [Next]_vars => [Promise!Next]_(Promise!vars)
  <2>. SUFFICES ASSUME IInv, IInv', [Next]_vars PROVE [Promise!Next]_(Promise!vars)
    OBVIOUS
  <2>1. CASE UNCHANGED vars
    BY <2>1 DEF vars, client, server, Promise!vars, Fate, Steps
  <2>2. ASSUME NEW c \in Call, Main(c) \/ Reaper(c) \/ Server(c) \/ Env(c)
        PROVE  [Promise!Next]_(Promise!vars)
    <3>1. \A d \in Call \ {c} : Same(d)
      BY <2>2, OthersMain, OthersReaper, OthersServer, OthersEnv DEF IInv
    <3>. QED
      BY <2>2, <3>1, SimulateStep
  <2>. QED
    BY <2>1, <2>2 DEF Next
<1>. QED
  BY <1>1, <1>2, Invariance, PTL DEF Spec, KeepsPromise, Promise!Spec

=============================================================================
