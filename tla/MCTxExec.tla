------------------------------ MODULE MCTxExec ------------------------------
(* Small instances of TxExec.                                              *)
EXTENDS TxExecProofs

CONSTANTS c1, c2, r1, r2

Upd(rows, max) == [action |-> "update", writes |-> rows, max |-> max]
Qry == [action |-> "query", writes |-> {}, max |-> 0]
Job(kind, steps, printable) == [kind |-> kind, steps |-> steps, printable |-> printable]

Lock(rows) == [action |-> "query", writes |-> rows, max |-> 0]

Guarded == Job("guarded", <<Upd({r1}, 0)>>, TRUE)
Transfer == Job("plan", <<Upd({r1}, 0), Upd({r2}, 2)>>, TRUE)
ReadThenWrite == Job("plan", <<Qry, Upd({r2}, 0)>>, TRUE)
Load == Job("import", <<Upd({r1}, 0), Upd({r1}, 0)>>, TRUE)
BadFormat == Job("plan", <<Upd({r1}, 0)>>, FALSE)

\* select ... for update, on the same two rows in opposite orders.
Locks12 == Job("plan", <<Lock({r1}), Lock({r2})>>, TRUE)
Locks21 == Job("plan", <<Lock({r2}), Lock({r1})>>, TRUE)

LoneJobs == {Guarded, Transfer, ReadThenWrite, Load, BadFormat}
AllJobs == LoneJobs \cup {Locks12, Locks21}
BadFormatJobs == {BadFormat}
AllRows == {r1, r2}

\* No network fault and no kill.
CalmNext == \E c \in Call : Main(c) \/ Reaper(c) \/ Server(c) \/ CtxDone(c) \/ CancelStatement(c)
CalmSpec == Init /\ [][CalmNext]_vars

\* Two calls.  Either c2 was killed before it began and c1 meets every fault,
\* or both wait for each other's rows on a calm network.
Alone == pc[c2] = "dead"
PairInit ==
  /\ \/ Untouched([c \in Call |-> IF c = c1 THEN "idle" ELSE "dead"]) /\ job[c1] \in LoneJobs
     \/ Untouched([c \in Call |-> "idle"]) /\ job[c1] = Locks12
  /\ job[c2] = Locks21
PairNext == IF Alone THEN Next ELSE CalmNext
PairSpec == PairInit /\ [][PairNext]_vars /\ Fairness
=============================================================================
