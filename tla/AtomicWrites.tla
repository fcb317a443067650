---------------------------- MODULE AtomicWrites ----------------------------
(***************************************************************************)
(* What dbx promises a caller of update, tx and import: the statements of  *)
(* one call take effect together or not at all, a call that answers "ok"   *)
(* has taken effect, and a call that answers "err" before it has asked the *)
(* server to commit never takes effect.  A call that answers "err" after   *)
(* it has asked is in doubt: its fate is the server's to decide.           *)
(***************************************************************************)
CONSTANT Call

VARIABLES
  fate,    \* what became of the call's writes
  asked,   \* whether COMMIT was sent for the call
  answer   \* what the caller was told

vars == <<fate, asked, answer>>

TypeOK ==
  /\ fate \in [Call -> {"undecided", "applied", "dropped"}]
  /\ asked \in [Call -> BOOLEAN]
  /\ answer \in [Call -> {"none", "ok", "err"}]

Init ==
  /\ fate = [c \in Call |-> "undecided"]
  /\ asked = [c \in Call |-> FALSE]
  /\ answer = [c \in Call |-> "none"]

Ask(c) ==
  /\ answer[c] = "none"
  /\ ~asked[c]
  /\ asked' = [asked EXCEPT ![c] = TRUE]
  /\ UNCHANGED <<fate, answer>>

Apply(c) ==
  /\ asked[c]
  /\ fate[c] = "undecided"
  /\ fate' = [fate EXCEPT ![c] = "applied"]
  /\ UNCHANGED <<asked, answer>>

Drop(c) ==
  /\ fate[c] = "undecided"
  /\ fate' = [fate EXCEPT ![c] = "dropped"]
  /\ UNCHANGED <<asked, answer>>

Answer(c, word) ==
  /\ answer[c] = "none"
  /\ word = "ok" => fate[c] = "applied"
  /\ answer' = [answer EXCEPT ![c] = word]
  /\ UNCHANGED <<fate, asked>>

Next ==
  \E c \in Call :
    \/ Ask(c) \/ Apply(c) \/ Drop(c)
    \/ \E word \in {"ok", "err"} : Answer(c, word)

Spec == Init /\ [][Next]_vars
=============================================================================
