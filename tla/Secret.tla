------------------------------- MODULE Secret -------------------------------
(***************************************************************************)
(* Encrypted passwords: dbx secret encrypt makes a random key, stores it   *)
(* in the machine's credential store under a random id and prints a line   *)
(* for the profile; a connection that has the line fetches the key and     *)
(* opens it (internal/secret, internal/app, ResolveWithWarnings).  Several *)
(* calls run on several machines, any of them may be killed, lines are     *)
(* copied and mixed up by hand, and keys vanish from the store.            *)
(***************************************************************************)
EXTENDS Integers

CONSTANTS
  Machine, Proc, Password, Phrase,
  MaxKeys,   \* bound: encryptions
  MaxEdits   \* bound: profiles changed and keys removed by hand

Arguments == MaxKeys \in Nat /\ MaxEdits \in Nat

\* The n-th encryption draws a key id and a key; both are random and never
\* drawn again.  In the store, 0 is no key and -1 an entry that is no key.
Id == 1 .. MaxKeys
Entry == Id \cup {0, -1}

\* What a profile may have as its password.  A v2 line carries the id in its
\* header, and a payload that only its key opens and only behind the header
\* it was sealed with.  v1 lines were made from a passphrase.
V2 == [version : {"v2"}, id : Id, key : Id, header : Id, plain : Password]
V1 == [version : {"v1"}, phrase : Phrase, plain : Password]
Plain == [version : {"plaintext"}, plain : Password]
Other == [version : {"unsupported", "malformed"}]
Line == V1 \cup V2 \cup Plain \cup Other

NoCall == [pc |-> "none"]

VARIABLES
  keyring,    \* the credential store of each machine
  enc,        \* each call of secret encrypt
  made,       \* encryptions so far
  issued,     \* the v2 lines printed, and where
  conf,       \* the password line in each machine's profile
  dec,        \* the call that resolves a password, and its outcome
  edits, disturbed   \* history: changes by hand, and the entries they hit

vars == <<keyring, enc, made, issued, conf, dec, edits, disturbed>>

\* A call of secret encrypt under way, and the call that resolves a password.
Encrypting == [pc : {"drawn", "stored"}, machine : Machine, id : Id, key : Id, plain : Password]
Resolving == [pc : {"read"}, machine : Machine, line : Line]
Resolved == [pc : {"end"}, machine : Machine, line : Line,
             outcome : {"ok", "secret_key_not_found", "secret_store_unavailable",
                        "encrypted_password_invalid", "no_passphrase"},
             plain : Password \cup {"none"}]

TypeOK ==
  /\ keyring \in [Machine -> [Id -> Entry]]
  /\ enc \in [Proc -> Encrypting \cup {NoCall}]
  /\ made \in 0 .. MaxKeys
  /\ issued \subseteq [machine : Machine, line : V2]
  /\ conf \in [Machine -> Line]
  /\ dec \in Resolving \cup Resolved \cup {NoCall}
  /\ edits \in Nat
  /\ disturbed \subseteq Machine \X Id

Init ==
  /\ keyring = [m \in Machine |-> [i \in Id |-> 0]]
  /\ enc = [p \in Proc |-> NoCall]
  /\ made = 0 /\ issued = {}
  /\ conf \in [Machine -> V1 \cup Plain \cup Other]
  /\ dec = NoCall
  /\ edits = 0 /\ disturbed = {}

-----------------------------------------------------------------------------
(* secret encrypt.                                                         *)

KeyId == made + 1

Draw(p, m, word) ==
  /\ enc[p].pc = "none" /\ made < MaxKeys
  /\ made' = made + 1
  /\ enc' = [enc EXCEPT ![p] =
       [pc |-> "drawn", machine |-> m, id |-> KeyId, key |-> made + 1, plain |-> word]]
  /\ UNCHANGED <<keyring, issued, conf, dec, edits, disturbed>>

StoreKey(p) ==
  /\ enc[p].pc = "drawn"
  /\ keyring' = [keyring EXCEPT ![enc[p].machine][enc[p].id] = enc[p].key]
  /\ enc' = [enc EXCEPT ![p].pc = "stored"]
  /\ UNCHANGED <<made, issued, conf, dec, edits, disturbed>>

\* The store refuses, with or without having kept the key, or the call is
\* killed, also after its key was stored: no line is printed.
Ends(p) ==
  /\ enc[p].pc # "none"
  /\ enc' = [enc EXCEPT ![p] = NoCall]
  /\ UNCHANGED <<keyring, made, issued, conf, dec, edits, disturbed>>

LineOf(p) ==
  [machine |-> enc[p].machine,
   line |-> [version |-> "v2", id |-> enc[p].id, key |-> enc[p].key,
             header |-> enc[p].id, plain |-> enc[p].plain]]

\* (mutant) The line is printed, and its key stored after that.
PrintEarly(p) ==
  /\ enc[p].pc = "drawn"
  /\ issued' = issued \cup {LineOf(p)}
  /\ UNCHANGED <<keyring, enc, made, conf, dec, edits, disturbed>>

PrintLine(p) ==
  /\ enc[p].pc = "stored"
  /\ issued' = issued \cup {LineOf(p)}
  /\ enc' = [enc EXCEPT ![p] = NoCall]
  /\ UNCHANGED <<keyring, made, conf, dec, edits, disturbed>>

-----------------------------------------------------------------------------
(* Resolving the password of a connection.                                 *)

Read(m) ==
  /\ dec.pc # "read"
  /\ dec' = [pc |-> "read", machine |-> m, line |-> conf[m]]
  /\ UNCHANGED <<keyring, enc, made, issued, conf, edits, disturbed>>

Outcome(word, plain) ==
  /\ dec' = [pc |-> "end", machine |-> dec.machine, line |-> dec.line, outcome |-> word, plain |-> plain]
  /\ UNCHANGED <<keyring, enc, made, issued, conf, edits, disturbed>>

\* The password, or the reason why there is none.
Opened(word) == Outcome("ok", word)
Failed(reason) == Outcome(reason, "none")

Reading(version) == dec.pc = "read" /\ dec.line.version = version

Stored == keyring[dec.machine][dec.line.id]

\* gcm.Open: the right key, and the header the payload was sealed with.
Opens == Stored = dec.line.key /\ dec.line.header = dec.line.id

ReadV2 ==
  /\ Reading("v2")
  /\ Stored \in Id /\ Opens
  /\ Opened(dec.line.plain)

\* (mutant) A missing entry is a malformed one.
MissingIsInvalid == "encrypted_password_invalid"

Missing == "secret_key_not_found"

ReadV2Fails ==
  /\ Reading("v2")
  /\ \/ Failed("secret_store_unavailable")
     \/ Stored = 0 /\ Failed(Missing)
     \/ Stored # 0 /\ ~(Stored \in Id /\ Opens) /\ Failed("encrypted_password_invalid")

\* The passphrase is asked for, by v1 lines only; it may be empty or unreadable.
ReadV1 ==
  /\ Reading("v1")
  /\ \/ \E typed \in Phrase :
          IF typed = dec.line.phrase THEN Opened(dec.line.plain) ELSE Failed("encrypted_password_invalid")
     \/ Failed("no_passphrase")

ReadPlaintext == Reading("plaintext") /\ Opened(dec.line.plain)

ReadOther ==
  /\ Reading("unsupported") \/ Reading("malformed")
  /\ Failed("encrypted_password_invalid")

-----------------------------------------------------------------------------
(* By hand.                                                                *)

Edited == edits < MaxEdits /\ edits' = edits + 1 /\ UNCHANGED <<enc, made, issued, dec>>

\* The header of one line before the payload of another.
Mingled(a, b) ==
  [version |-> "v2", id |-> a.id, key |-> b.key, header |-> b.header, plain |-> b.plain]

\* A line goes into a profile, on its own machine or another, whole or mingled.
Paste(m) ==
  /\ Edited
  /\ \E a \in issued, b \in issued :
       conf' = [conf EXCEPT ![m] = Mingled(a.line, b.line)]
  /\ UNCHANGED <<keyring, disturbed>>

\* An entry of the credential store is removed or overwritten.
Disturb(m, i) ==
  /\ Edited
  /\ \E e \in {0, -1} : keyring' = [keyring EXCEPT ![m][i] = e]
  /\ disturbed' = disturbed \cup {<<m, i>>}
  /\ UNCHANGED conf

Next ==
  \/ \E p \in Proc :
       \/ \E m \in Machine, word \in Password : Draw(p, m, word)
       \/ StoreKey(p) \/ Ends(p) \/ PrintLine(p)
  \/ \E m \in Machine : Read(m)
  \/ ReadV2 \/ ReadV2Fails \/ ReadV1 \/ ReadPlaintext \/ ReadOther
  \/ \E m \in Machine : Paste(m)
  \/ \E m \in Machine, i \in Id : Disturb(m, i)

Spec == Init /\ [][Next]_vars

-----------------------------------------------------------------------------
(* Properties.                                                             *)

Ended(outcome) == dec.pc = "end" /\ dec.outcome = outcome
IssuedHere == [machine |-> dec.machine, line |-> dec.line] \in issued
Undisturbed == <<dec.machine, dec.line.id>> \notin disturbed

\* Every line that was printed can be opened on its machine, whichever calls
\* were killed or refused, until somebody touches its key (EncryptStringV2
\* stores the key first, under an id of its own).
PrintedCanBeOpened ==
  \A l \in issued :
    <<l.machine, l.line.id>> \notin disturbed =>
      /\ keyring[l.machine][l.line.id] = l.line.key
      /\ l.line.header = l.line.id

\* The reason given is the true one: a key is reported missing only on a
\* machine that never made it or lost it; a v2 line is called invalid only if it
\* was changed or its key was (decryptStringV2, systemKeyStore.Get).
ReasonIsTrue ==
  /\ Ended("secret_key_not_found") => ~IssuedHere \/ ~Undisturbed
  /\ Ended("encrypted_password_invalid") /\ dec.line.version = "v2" =>
       /\ ~IssuedHere \/ ~Undisturbed
       /\ \/ ~Undisturbed
          \/ \E l \in issued : l.machine = dec.machine /\ l.line.id = dec.line.id /\ l.line # dec.line
  /\ Ended("ok") /\ dec.line.version = "v2" => IssuedHere
=============================================================================
