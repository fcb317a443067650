---------------------------- MODULE SecretProofs ----------------------------
(***************************************************************************)
(* Proofs about Secret for every set of machines, processes, passwords and *)
(* phrases and any number of encryptions and changes by hand.              *)
(***************************************************************************)
EXTENDS Secret, TLAPS

Active(p) == enc[p].pc # "none"

\* The key of an entry is in the store of the machine m, and nowhere else.
OnlyOn(m, i) == \A n \in Machine : keyring[n][i] \in Id => n = m
KeptOn(m, i, k) == <<m, i>> \in disturbed \/ keyring[m][i] = k

\* A running encryption works under an id of its own, and once it has stored its
\* key the key is there.
OwnId ==
  /\ \A p \in Proc : Active(p) =>
       /\ enc[p].id <= made /\ enc[p].key = enc[p].id
       /\ OnlyOn(enc[p].machine, enc[p].id)
       /\ enc[p].pc = "stored" => KeptOn(enc[p].machine, enc[p].id, enc[p].key)
       /\ \A l \in issued : l.line.id # enc[p].id
  /\ \A p, q \in Proc : Active(p) /\ Active(q) /\ p # q => enc[p].id # enc[q].id

\* A printed line is whole and the only one of its id, and its key is kept.
Whole ==
  /\ \A l \in issued :
       /\ l.line.id <= made
       /\ l.line.key = l.line.id /\ l.line.header = l.line.id
       /\ OnlyOn(l.machine, l.line.id)
       /\ KeptOn(l.machine, l.line.id, l.line.key)
  /\ \A l, k \in issued : l.line.id = k.line.id => l = k

\* Ids that were not drawn have no key, and only a hand makes an entry that is none.
Stock ==
  \A m \in Machine, i \in Id :
    /\ i > made => keyring[m][i] \notin Id
    /\ keyring[m][i] = -1 => <<m, i>> \in disturbed

\* A v2 line in a profile is put together from printed ones.
FromIssued(line) ==
  line.version = "v2" =>
    \E a \in issued, b \in issued : line = Mingled(a.line, b.line)

Pasted ==
  /\ \A m \in Machine : FromIssued(conf[m])
  /\ dec.pc # "none" => FromIssued(dec.line)

\* What an encryption, a line and the store agree on at every moment, the killed
\* calls' leftovers included: the inductive invariant.
IInv == TypeOK /\ OwnId /\ Whole /\ Stock /\ Pasted /\ ReasonIsTrue

-----------------------------------------------------------------------------
LEMMA EncFacts ==
  ASSUME TypeOK, NEW p \in Proc, Active(p)
  PROVE  /\ enc[p] \in Encrypting
         /\ enc[p].pc \in {"drawn", "stored"}
         /\ enc[p].machine \in Machine /\ enc[p].id \in Id /\ enc[p].key \in Id
         /\ enc[p].plain \in Password
BY DEF TypeOK, Active, Encrypting, NoCall

LEMMA IdFacts ==
  ASSUME Arguments
  PROVE  Id \subseteq Nat /\ 0 \notin Id /\ -1 \notin Id
BY DEF Arguments, Id

LEMMA InitIInv ==
  ASSUME Arguments, Init
  PROVE  IInv
<1>. USE DEF Arguments, Init
<1>1. TypeOK
  <2>1. keyring \in [Machine -> [Id -> Entry]]
    BY DEF Entry
  <2>2. enc \in [Proc -> Encrypting \cup {NoCall}]
    OBVIOUS
  <2>3. conf \in [Machine -> Line]
    BY DEF Line
  <2>. QED
    BY <2>1, <2>2, <2>3 DEF TypeOK
<1>2. OwnId
  <2>1. \A p \in Proc : ~Active(p)
    BY DEF Active, NoCall
  <2>. QED
    BY <2>1 DEF OwnId
<1>3. Whole
  BY DEF Whole
<1>4. Stock
  BY DEF Stock, Id
<1>5. Pasted
  <2>1. \A m \in Machine : conf[m].version # "v2"
    BY DEF V1, Plain, Other
  <2>. QED
    BY <2>1 DEF Pasted, FromIssued, NoCall
<1>6. ReasonIsTrue
  BY DEF ReasonIsTrue, Ended, NoCall
<1>. QED
  BY <1>1, <1>2, <1>3, <1>4, <1>5, <1>6 DEF IInv

\* Steps that leave the line in question, what was printed and what was touched
\* alone keep the reason true.
LEMMA SameReason ==
  ASSUME ReasonIsTrue, UNCHANGED <<dec, issued, disturbed>>
  PROVE  ReasonIsTrue'
BY DEF ReasonIsTrue, Ended, IssuedHere, Undisturbed

LEMMA DrawKeeps ==
  ASSUME Arguments, IInv, NEW p \in Proc, NEW m \in Machine, NEW word \in Password, Draw(p, m, word)
  PROVE  IInv'
<1>. USE DEF Draw
<1>0. TypeOK /\ OwnId /\ Whole /\ Stock /\ Pasted /\ ReasonIsTrue
  BY DEF IInv
<1>. DEFINE new == [pc |-> "drawn", machine |-> m, id |-> made + 1, key |-> made + 1, plain |-> word]
<1>1. made \in Nat /\ MaxKeys \in Nat /\ made < MaxKeys /\ made' = made + 1 /\ made + 1 \in Id
  BY <1>0 DEF Arguments, TypeOK, Id
<1>2. enc' = [enc EXCEPT ![p] = new]
  BY DEF KeyId
<1>3. new \in Encrypting
  BY <1>1 DEF Encrypting
<1>4. enc'[p] = new /\ \A q \in Proc : q # p => enc'[q] = enc[q]
  BY <1>0, <1>2 DEF TypeOK
<1>5. TypeOK'
  <2>1. enc' \in [Proc -> Encrypting \cup {NoCall}]
    BY <1>0, <1>2, <1>3 DEF TypeOK
  <2>2. made' \in 0 .. MaxKeys
    BY <1>1
  <2>. QED
    BY <1>0, <2>1, <2>2 DEF TypeOK
<1>6. OwnId'
  <2>1. ASSUME NEW q \in Proc, Active(q)', q # p
        PROVE  /\ Active(q) /\ enc'[q].id = enc[q].id /\ enc[q].id \in Nat
               /\ enc[q].id <= made /\ enc[q].id # made + 1
    BY <1>0, <1>1, <1>4, <2>1, EncFacts DEF Active, OwnId, Id
  <2>2. ASSUME NEW q \in Proc, Active(q)'
        PROVE  /\ (enc[q].id <= made /\ enc[q].key = enc[q].id)'
               /\ OnlyOn(enc[q].machine, enc[q].id)'
               /\ (enc[q].pc = "stored" => KeptOn(enc[q].machine, enc[q].id, enc[q].key))'
               /\ (\A l \in issued : l.line.id # enc[q].id)'
    <3>1. CASE q = p
      <4>0. made + 1 \in Id /\ made + 1 > made
        BY <1>1
      <4>1. \A n \in Machine : keyring[n][made + 1] \notin Id
        BY ONLY <1>0, <4>0 DEF Stock
      <4>2. \A l \in issued : l.line.id # made + 1
        BY <1>0, <1>1 DEF Whole, TypeOK, V2, Id
      <4>. QED
        BY <1>1, <1>4, <3>1, <4>1, <4>2 DEF OnlyOn
    <3>2. CASE q # p
      <4>1. Active(q) /\ enc'[q] = enc[q]
        BY <1>4, <2>1, <2>2, <3>2
      <4>2. /\ enc[q].id \in Nat /\ enc[q].id <= made /\ enc[q].key = enc[q].id
            /\ OnlyOn(enc[q].machine, enc[q].id)
            /\ enc[q].pc = "stored" => KeptOn(enc[q].machine, enc[q].id, enc[q].key)
            /\ \A l \in issued : l.line.id # enc[q].id
        BY <1>0, <2>1, <2>2, <3>2 DEF OwnId
      <4>. QED
        BY <1>1, <4>1, <4>2 DEF OnlyOn, KeptOn
    <3>. QED
      BY <3>1, <3>2
  <2>3. ASSUME NEW q \in Proc, NEW r \in Proc, Active(q)', Active(r)', q # r
        PROVE  (enc[q].id # enc[r].id)'
    <3>1. CASE q = p
      BY <1>4, <2>1, <2>3, <3>1
    <3>2. CASE r = p
      BY <1>4, <2>1, <2>3, <3>2
    <3>3. CASE q # p /\ r # p
      BY <1>0, <2>1, <2>3, <3>3 DEF OwnId
    <3>. QED
      BY <3>1, <3>2, <3>3
  <2>. QED
    BY <2>2, <2>3 DEF OwnId
<1>7. Whole'
  <2>1. \A l \in issued : l.line.id \in Nat
    BY <1>0 DEF TypeOK, V2, Id
  <2>. QED
    BY <1>0, <1>1, <2>1 DEF Whole, OnlyOn, KeptOn
<1>8. Stock'
  <2>1. \A i \in Id : i > made' => i > made
    BY <1>1, IdFacts
  <2>2. UNCHANGED <<keyring, disturbed>>
    OBVIOUS
  <2>. QED
    BY ONLY <1>0, <2>1, <2>2 DEF Stock
<1>9. Pasted'
  BY <1>0 DEF Pasted, FromIssued
<1>10. ReasonIsTrue'
  BY <1>0, SameReason
<1>. QED
  BY <1>5, <1>6, <1>7, <1>8, <1>9, <1>10 DEF IInv

LEMMA StoreKeyKeeps ==
  ASSUME Arguments, IInv, NEW p \in Proc, StoreKey(p)
  PROVE  IInv'
<1>. DEFINE m == enc[p].machine
            i == enc[p].id
<1>0. TypeOK /\ OwnId /\ Whole /\ Stock /\ Pasted /\ ReasonIsTrue
  BY DEF IInv
<1>1. Active(p) /\ enc[p].pc = "drawn"
  BY DEF StoreKey, Active
<1>2. enc[p] \in Encrypting /\ m \in Machine /\ i \in Id /\ enc[p].key = i
  BY <1>0, <1>1, EncFacts DEF OwnId
<1>3. UNCHANGED <<made, issued, conf, dec, edits, disturbed>>
  BY DEF StoreKey
<1>4. keyring' = [keyring EXCEPT ![m][i] = i]
  BY <1>2 DEF StoreKey
<1>5. /\ keyring'[m][i] = i
      /\ \A n \in Machine, j \in Id : n # m \/ j # i => keyring'[n][j] = keyring[n][j]
  BY <1>0, <1>2, <1>4 DEF TypeOK
<1>6. /\ enc' = [enc EXCEPT ![p].pc = "stored"]
      /\ \A q \in Proc : Active(q)' <=> Active(q)
      /\ \A q \in Proc : Active(q) => /\ enc'[q].machine = enc[q].machine
                                      /\ enc'[q].id = enc[q].id /\ enc'[q].key = enc[q].key
      /\ \A q \in Proc : q # p => enc'[q] = enc[q]
  BY <1>0, <1>1 DEF TypeOK, StoreKey, Active
<1>7. TypeOK'
  <2>1. keyring' \in [Machine -> [Id -> Entry]]
    <3>1. i \in Entry
      BY <1>2 DEF Entry
    <3>. QED
      BY <1>0, <1>2, <1>4, <3>1 DEF TypeOK
  <2>2. enc' \in [Proc -> Encrypting \cup {NoCall}]
    <3>1. [enc[p] EXCEPT !.pc = "stored"] \in Encrypting
      BY <1>2 DEF Encrypting
    <3>. QED
      BY <1>0, <1>6, <3>1 DEF TypeOK
  <2>. QED
    BY <1>0, <1>3, <2>1, <2>2 DEF TypeOK
<1>8. ASSUME NEW j \in Id, j # i, NEW n \in Machine, NEW k
      PROVE  /\ OnlyOn(n, j) => OnlyOn(n, j)'
             /\ KeptOn(n, j, k) => KeptOn(n, j, k)'
  BY <1>3, <1>5, <1>8 DEF OnlyOn, KeptOn
<1>9. OwnId'
  <2>1. ASSUME NEW q \in Proc, Active(q)
        PROVE  /\ (enc[q].id <= made /\ enc[q].key = enc[q].id)'
               /\ OnlyOn(enc[q].machine, enc[q].id)'
               /\ (enc[q].pc = "stored" => KeptOn(enc[q].machine, enc[q].id, enc[q].key))'
               /\ (\A l \in issued : l.line.id # enc[q].id)'
    <3>1. /\ enc[q].machine \in Machine /\ enc[q].id \in Id
          /\ enc[q].id <= made /\ enc[q].key = enc[q].id
          /\ OnlyOn(enc[q].machine, enc[q].id)
          /\ enc[q].pc = "stored" => KeptOn(enc[q].machine, enc[q].id, enc[q].key)
          /\ \A l \in issued : l.line.id # enc[q].id
      BY <1>0, <2>1, EncFacts DEF OwnId
    <3>2. CASE q = p
      <4>1. OnlyOn(m, i)'
        BY <1>2, <1>5, <1>6, <3>1, <3>2 DEF OnlyOn
      <4>2. KeptOn(m, i, i)'
        BY <1>5, <1>6, <1>1 DEF KeptOn
      <4>. QED
        BY <1>2, <1>3, <1>6, <2>1, <3>1, <3>2, <4>1, <4>2
    <3>3. CASE q # p
      <4>1. enc[q].id # i
        BY <1>0, <1>1, <2>1, <3>3 DEF OwnId
      <4>. QED
        BY <1>3, <1>6, <1>8, <2>1, <3>1, <3>3, <4>1
    <3>. QED
      BY <3>2, <3>3
  <2>2. ASSUME NEW q \in Proc, NEW r \in Proc, Active(q), Active(r), q # r
        PROVE  (enc[q].id # enc[r].id)'
    BY <1>0, <1>6, <2>2 DEF OwnId
  <2>. QED
    BY <1>6, <2>1, <2>2 DEF OwnId
<1>10. Whole'
  <2>1. ASSUME NEW l \in issued
        PROVE  OnlyOn(l.machine, l.line.id)' /\ KeptOn(l.machine, l.line.id, l.line.key)'
    <3>1. l.machine \in Machine /\ l.line.id \in Id
      BY <1>0 DEF TypeOK, V2
    <3>2. l.line.id # i
      BY <1>0, <1>1 DEF OwnId
    <3>. QED
      BY <1>0, <1>8, <3>1, <3>2 DEF Whole
  <2>. QED
    BY <1>0, <1>3, <2>1 DEF Whole
<1>11. Stock'
  <2>1. i <= made /\ made \in Nat /\ i \in Nat /\ i # -1
    <3>1. i <= made
      BY <1>0, <1>1 DEF OwnId
    <3>2. made \in Nat
      BY <1>0 DEF Arguments, TypeOK
    <3>3. i \in Nat /\ i # -1
      BY <1>2, IdFacts
    <3>. QED
      BY <3>1, <3>2, <3>3
  <2>2. ASSUME NEW n \in Machine, NEW j \in Id
        PROVE  /\ j > made => keyring'[n][j] \notin Id
               /\ keyring'[n][j] = -1 => <<n, j>> \in disturbed
    BY <1>0, <1>5, <2>1 DEF Stock
  <2>. QED
    BY <1>3, <2>2 DEF Stock
<1>12. Pasted'
  BY <1>0, <1>3 DEF Pasted, FromIssued
<1>13. ReasonIsTrue'
  BY <1>0, <1>3, SameReason
<1>. QED
  BY <1>7, <1>9, <1>10, <1>11, <1>12, <1>13 DEF IInv

LEMMA EndsKeeps ==
  ASSUME IInv, NEW p \in Proc, Ends(p)
  PROVE  IInv'
<1>0. TypeOK /\ OwnId /\ Whole /\ Stock /\ Pasted /\ ReasonIsTrue
  BY DEF IInv
<1>1. /\ UNCHANGED <<keyring, made, issued, conf, dec, edits, disturbed>>
      /\ enc' = [enc EXCEPT ![p] = NoCall]
  BY DEF Ends
<1>2. \A q \in Proc : Active(q)' => q # p /\ Active(q) /\ enc'[q] = enc[q]
  BY <1>0, <1>1 DEF TypeOK, Active, NoCall
<1>3. TypeOK'
  BY <1>0, <1>1 DEF TypeOK
<1>4. OwnId'
  BY <1>0, <1>1, <1>2 DEF OwnId, OnlyOn, KeptOn
<1>5. Whole' /\ Stock' /\ Pasted'
  BY <1>0, <1>1 DEF Whole, Stock, Pasted, FromIssued, OnlyOn, KeptOn
<1>6. ReasonIsTrue'
  BY <1>0, <1>1, SameReason
<1>. QED
  BY <1>3, <1>4, <1>5, <1>6 DEF IInv

LEMMA PrintLineKeeps ==
  ASSUME IInv, NEW p \in Proc, PrintLine(p)
  PROVE  IInv'
<1>. DEFINE m == enc[p].machine
            i == enc[p].id
            new == LineOf(p)
<1>0. TypeOK /\ OwnId /\ Whole /\ Stock /\ Pasted /\ ReasonIsTrue
  BY DEF IInv
<1>1. Active(p) /\ enc[p].pc = "stored"
  BY DEF PrintLine, Active
<1>2. /\ m \in Machine /\ i \in Id /\ enc[p].plain \in Password
      /\ enc[p].key = i /\ i <= made /\ OnlyOn(m, i) /\ KeptOn(m, i, i)
      /\ \A l \in issued : l.line.id # i
  BY <1>0, <1>1, EncFacts DEF OwnId
<1>3. /\ UNCHANGED <<keyring, made, conf, dec, edits, disturbed>>
      /\ enc' = [enc EXCEPT ![p] = NoCall]
      /\ issued' = issued \cup {new}
  BY DEF PrintLine
<1>4. /\ new \in [machine : Machine, line : V2]
      /\ new.machine = m /\ new.line.version = "v2"
      /\ new.line.id = i /\ new.line.key = i /\ new.line.header = i
  BY <1>2 DEF LineOf, V2
<1>. HIDE DEF new, m, i
<1>5. \A q \in Proc : Active(q)' => q # p /\ Active(q) /\ enc'[q] = enc[q]
  BY <1>0, <1>3 DEF TypeOK, Active, NoCall
<1>6. TypeOK'
  BY <1>0, <1>3, <1>4 DEF TypeOK
<1>7. OwnId'
  <2>1. ASSUME NEW q \in Proc, q # p, Active(q)
        PROVE  enc[q].id # i
    BY <1>0, <1>1, <2>1 DEF OwnId, i
  <2>2. ASSUME NEW q \in Proc, q # p, Active(q)
        PROVE  \A l \in issued' : l.line.id # enc[q].id
    BY <1>0, <1>3, <1>4, <2>1, <2>2 DEF OwnId
  <2>. QED
    BY <1>0, <1>3, <1>5, <2>2 DEF OwnId, OnlyOn, KeptOn
<1>8. Whole'
  <2>1. ASSUME NEW l \in issued'
        PROVE  /\ l.line.id <= made
               /\ l.line.key = l.line.id /\ l.line.header = l.line.id
               /\ OnlyOn(l.machine, l.line.id)
               /\ KeptOn(l.machine, l.line.id, l.line.key)
    BY <1>0, <1>2, <1>3, <1>4, <2>1 DEF Whole
  <2>2. ASSUME NEW l \in issued', NEW k \in issued', l.line.id = k.line.id
        PROVE  l = k
    BY <1>0, <1>2, <1>3, <1>4, <2>2 DEF Whole
  <2>. QED
    BY <1>3, <2>1, <2>2 DEF Whole, OnlyOn, KeptOn
<1>9. Stock'
  BY <1>0, <1>3 DEF Stock
<1>10. Pasted'
  BY <1>0, <1>3 DEF Pasted, FromIssued
<1>11. ReasonIsTrue'
  <2>1. dec.pc = "end" => dec.line # new.line
    <3>1. ASSUME NEW a \in issued, NEW b \in issued
          PROVE  Mingled(a.line, b.line).id # i
      BY <1>2 DEF Mingled
    <3>. QED
      BY <1>0, <1>4, <3>1 DEF Pasted, FromIssued
  <2>2. dec.pc = "end" => (IssuedHere' <=> IssuedHere)
    BY <1>3, <2>1 DEF IssuedHere
  <2>. QED
    BY <1>0, <1>3, <2>2 DEF ReasonIsTrue, Ended, Undisturbed
<1>. QED
  BY <1>6, <1>7, <1>8, <1>9, <1>10, <1>11 DEF IInv

LEMMA ReadKeeps ==
  ASSUME IInv, NEW m \in Machine, Read(m)
  PROVE  IInv'
<1>0. TypeOK /\ OwnId /\ Whole /\ Stock /\ Pasted
  BY DEF IInv
<1>1. /\ UNCHANGED <<keyring, enc, made, issued, conf, edits, disturbed>>
      /\ dec' = [pc |-> "read", machine |-> m, line |-> conf[m]]
  BY DEF Read
<1>2. TypeOK'
  <2>1. dec' \in Resolving
    BY <1>0, <1>1 DEF TypeOK, Resolving
  <2>. QED
    BY <1>0, <1>1, <2>1 DEF TypeOK
<1>3. OwnId' /\ Whole' /\ Stock'
  BY <1>0, <1>1 DEF OwnId, Whole, Stock, Active, OnlyOn, KeptOn
<1>4. Pasted'
  BY <1>0, <1>1 DEF Pasted, FromIssued
<1>5. ReasonIsTrue'
  BY <1>1 DEF ReasonIsTrue, Ended
<1>. QED
  BY <1>2, <1>3, <1>4, <1>5 DEF IInv

\* What a resolving call knows of the v2 line it holds: its header is that of a
\* printed line a, and a key found under it is that line's, on its machine.
LEMMA HeldLine ==
  ASSUME IInv, Reading("v2")
  PROVE  /\ dec.machine \in Machine /\ dec.line.id \in Id
         /\ \E a \in issued :
              /\ a.line.id = dec.line.id
              /\ dec.line.header = dec.line.id => dec.line = a.line
              /\ Stored \in Id => dec.machine = a.machine
              /\ dec.machine = a.machine /\ Undisturbed => Stored = dec.line.id
<1>0. TypeOK /\ Whole /\ Pasted
  BY DEF IInv
<1>1. dec.pc = "read" /\ dec.line.version = "v2"
  BY DEF Reading
<1>2. PICK a \in issued, b \in issued : dec.line = Mingled(a.line, b.line)
  BY <1>0, <1>1 DEF Pasted, FromIssued
<1>3. a.line \in V2 /\ b.line \in V2 /\ a.machine \in Machine
  BY <1>0 DEF TypeOK
<1>4. /\ dec.line.id = a.line.id /\ dec.line.key = b.line.key
      /\ dec.line.header = b.line.header
  BY <1>2 DEF Mingled
<1>5. dec.machine \in Machine
  BY <1>0, <1>1 DEF TypeOK, Resolving, Resolved, NoCall
<1>6. dec.line.id \in Id
  BY <1>3, <1>4 DEF V2
<1>7. dec.line.header = dec.line.id => dec.line = a.line
  <2>. SUFFICES ASSUME dec.line.header = dec.line.id
                PROVE  dec.line = a.line
    OBVIOUS
  <2>1. a = b
    BY <1>0, <1>4 DEF Whole
  <2>2. a.line = [version |-> "v2", id |-> a.line.id, key |-> a.line.key,
                  header |-> a.line.header, plain |-> a.line.plain]
    BY <1>3 DEF V2
  <2>. QED
    BY <1>2, <2>1, <2>2 DEF Mingled
<1>8. Stored \in Id => dec.machine = a.machine
  BY <1>0, <1>4, <1>5 DEF Whole, OnlyOn, Stored
<1>9. dec.machine = a.machine /\ Undisturbed => Stored = dec.line.id
  BY <1>0, <1>4 DEF Whole, KeptOn, Stored, Undisturbed
<1>. QED
  BY <1>4, <1>5, <1>6, <1>7, <1>8, <1>9

\* An outcome disturbs nothing but what is said of it.
LEMMA OutcomeKeeps ==
  ASSUME IInv, dec.pc = "read", NEW word, NEW plain, Outcome(word, plain),
         word \in {"ok", "secret_key_not_found", "secret_store_unavailable",
                  "encrypted_password_invalid", "no_passphrase"},
         plain \in Password \cup {"none"},
         ReasonIsTrue'
  PROVE  IInv'
<1>0. TypeOK /\ OwnId /\ Whole /\ Stock /\ Pasted
  BY DEF IInv
<1>1. /\ UNCHANGED <<keyring, enc, made, issued, conf, edits, disturbed>>
      /\ dec' = [pc |-> "end", machine |-> dec.machine, line |-> dec.line,
                 outcome |-> word, plain |-> plain]
  BY DEF Outcome
<1>2. dec \in Resolving
  BY <1>0 DEF TypeOK, Resolved, NoCall
<1>3. TypeOK'
  <2>1. dec' \in Resolved
    BY <1>1, <1>2 DEF Resolving, Resolved
  <2>. QED
    BY <1>0, <1>1, <2>1 DEF TypeOK
<1>4. OwnId' /\ Whole' /\ Stock'
  BY <1>0, <1>1 DEF OwnId, Whole, Stock, Active, OnlyOn, KeptOn
<1>5. Pasted'
  BY <1>0, <1>1 DEF Pasted, FromIssued
<1>. QED
  BY <1>3, <1>4, <1>5 DEF IInv

LEMMA ReadV2Keeps ==
  ASSUME IInv, ReadV2
  PROVE  IInv'
<1>1. /\ Reading("v2") /\ Stored \in Id
      /\ Stored = dec.line.key /\ dec.line.header = dec.line.id
      /\ Outcome("ok", dec.line.plain)
  BY DEF ReadV2, Opens, Opened
<1>2. /\ dec' = [pc |-> "end", machine |-> dec.machine, line |-> dec.line,
                 outcome |-> "ok", plain |-> dec.line.plain]
      /\ UNCHANGED <<issued, disturbed>>
  BY <1>1 DEF Outcome
<1>3. PICK a \in issued :
        /\ a.line.id = dec.line.id
        /\ dec.line.header = dec.line.id => dec.line = a.line
        /\ Stored \in Id => dec.machine = a.machine
  BY <1>1, HeldLine
<1>4. dec.line = a.line /\ dec.machine = a.machine
  BY <1>1, <1>3
<1>5. a \in [machine : Machine, line : V2]
  BY DEF IInv, TypeOK
<1>6. IssuedHere
  BY <1>4, <1>5 DEF IssuedHere
<1>7. dec.line.plain \in Password
  BY <1>4, <1>5 DEF V2
<1>8. ReasonIsTrue'
  BY <1>2, <1>6 DEF ReasonIsTrue, Ended, IssuedHere
<1>. QED
  BY <1>1, <1>7, <1>8, OutcomeKeeps DEF Reading

LEMMA ReadV2FailsKeeps ==
  ASSUME Arguments, IInv, ReadV2Fails
  PROVE  IInv'
<1>. DEFINE Said(reason) ==
       /\ dec' = [pc |-> "end", machine |-> dec.machine, line |-> dec.line,
                  outcome |-> reason, plain |-> "none"]
       /\ UNCHANGED <<issued, disturbed>>
<1>1. Reading("v2") /\ dec.pc = "read"
  BY DEF ReadV2Fails, Reading
<1>2. PICK a \in issued :
        /\ a.line.id = dec.line.id
        /\ dec.line.header = dec.line.id => dec.line = a.line
        /\ Stored \in Id => dec.machine = a.machine
        /\ dec.machine = a.machine /\ Undisturbed => Stored = dec.line.id
  BY <1>1, HeldLine
<1>3. dec.machine \in Machine /\ dec.line.id \in Id
  BY <1>1, HeldLine
<1>4. /\ a.line.key = a.line.id /\ a.line.header = a.line.id
      /\ \A l \in issued : l.line.id = a.line.id => l = a
  BY DEF IInv, Whole
<1>5. IssuedHere => dec.line = a.line /\ dec.machine = a.machine
  BY <1>2, <1>4 DEF IssuedHere
<1>6. CASE Failed("secret_store_unavailable")
  <2>1. ReasonIsTrue'
    BY <1>6 DEF Failed, Outcome, ReasonIsTrue, Ended
  <2>. QED
    BY <1>1, <1>6, <2>1, OutcomeKeeps DEF Failed
<1>7. CASE Stored = 0 /\ Failed(Missing)
  <2>1. ~IssuedHere \/ ~Undisturbed
    BY <1>2, <1>3, <1>5, <1>7, IdFacts
  <2>2. Outcome("secret_key_not_found", "none")
    BY <1>7 DEF Failed, Missing
  <2>3. ReasonIsTrue'
    <3>1. Said("secret_key_not_found")
      BY <2>2 DEF Outcome
    <3>. QED
      BY <2>1, <3>1 DEF ReasonIsTrue, Ended, IssuedHere, Undisturbed
  <2>. QED
    BY <1>1, <2>2, <2>3, OutcomeKeeps
<1>8. CASE Stored # 0 /\ ~(Stored \in Id /\ Opens) /\ Failed("encrypted_password_invalid")
  <2>1. Stored \in Entry
    BY <1>3 DEF IInv, TypeOK, Stored
  <2>2. Undisturbed => Stored # -1
    BY <1>3 DEF IInv, Stock, Stored, Undisturbed
  <2>3. Undisturbed => Stored \in Id /\ ~Opens
    BY <1>8, <2>1, <2>2 DEF Entry
  <2>4. Undisturbed => dec.machine = a.machine /\ a.line.id = dec.line.id /\ a.line # dec.line
    BY <1>2, <1>4, <2>3 DEF Opens
  <2>5. ~IssuedHere \/ ~Undisturbed
    BY <1>5, <2>4
  <2>6. Outcome("encrypted_password_invalid", "none")
    BY <1>8 DEF Failed
  <2>7. ReasonIsTrue'
    <3>1. Said("encrypted_password_invalid")
      BY <2>6 DEF Outcome
    <3>. QED
      BY <2>4, <2>5, <3>1 DEF ReasonIsTrue, Ended, IssuedHere, Undisturbed
  <2>. QED
    BY <1>1, <2>6, <2>7, OutcomeKeeps
<1>. QED
  BY <1>6, <1>7, <1>8 DEF ReadV2Fails

\* The other lines have no key, so nothing is claimed of them but their kind.
LEMMA OtherLinesKeep ==
  ASSUME IInv, ReadV1 \/ ReadPlaintext \/ ReadOther
  PROVE  IInv'
<1>1. dec.pc = "read" /\ dec.line.version # "v2"
  BY DEF ReadV1, ReadPlaintext, ReadOther, Reading
<1>2. dec.line \in Line
  BY <1>1 DEF IInv, TypeOK, Resolved, NoCall, Resolving
<1>3. \/ \E word \in Password : Opened(word)
      \/ Failed("encrypted_password_invalid") \/ Failed("no_passphrase")
  <2>1. CASE ReadV1
    BY <1>2, <2>1 DEF ReadV1, Reading, Line, V1, V2, Plain, Other
  <2>2. CASE ReadPlaintext
    BY <1>2, <2>2 DEF ReadPlaintext, Reading, Line, V1, V2, Plain, Other
  <2>3. CASE ReadOther
    BY <2>3 DEF ReadOther
  <2>. QED
    BY <2>1, <2>2, <2>3
<1>4. PICK word \in {"ok", "encrypted_password_invalid", "no_passphrase"},
           plain \in Password \cup {"none"} : Outcome(word, plain)
  BY <1>3 DEF Opened, Failed
<1>5. ReasonIsTrue'
  BY <1>1, <1>4 DEF Outcome, ReasonIsTrue, Ended
<1>. QED
  BY <1>1, <1>4, <1>5, OutcomeKeeps

LEMMA PasteKeeps ==
  ASSUME IInv, NEW m \in Machine, Paste(m)
  PROVE  IInv'
<1>0. TypeOK /\ OwnId /\ Whole /\ Stock /\ Pasted /\ ReasonIsTrue
  BY DEF IInv
<1>1. PICK a \in issued, b \in issued :
        conf' = [conf EXCEPT ![m] = Mingled(a.line, b.line)]
  BY DEF Paste
<1>2. /\ UNCHANGED <<keyring, enc, made, issued, dec, disturbed>>
      /\ edits' = edits + 1
  BY DEF Paste, Edited
<1>3. TypeOK'
  <2>1. Mingled(a.line, b.line) \in V2
    <3>1. a.line \in V2 /\ b.line \in V2
      BY <1>0 DEF TypeOK
    <3>. QED
      BY <3>1 DEF Mingled, V2
  <2>2. conf' \in [Machine -> Line]
    <3>1. Mingled(a.line, b.line) \in Line
      BY <2>1 DEF Line
    <3>. QED
      BY <1>0, <1>1, <3>1 DEF TypeOK
  <2>3. edits' \in Nat
    BY <1>0, <1>2 DEF TypeOK
  <2>. QED
    BY <1>0, <1>2, <2>2, <2>3 DEF TypeOK
<1>4. OwnId' /\ Whole' /\ Stock'
  BY <1>0, <1>2 DEF OwnId, Whole, Stock, Active, OnlyOn, KeptOn
<1>5. Pasted'
  <2>1. ASSUME NEW n \in Machine
        PROVE  FromIssued(conf[n])'
    <3>1. CASE n = m
      <4>1. conf'[n] = Mingled(a.line, b.line)
        BY <1>0, <1>1, <3>1 DEF TypeOK
      <4>. QED
        BY <1>2, <4>1 DEF FromIssued
    <3>2. CASE n # m
      <4>1. conf'[n] = conf[n]
        BY <1>0, <1>1, <3>2 DEF TypeOK
      <4>. QED
        BY <1>0, <1>2, <4>1 DEF FromIssued, Pasted
    <3>. QED
      BY <3>1, <3>2
  <2>2. (dec.pc # "none" => FromIssued(dec.line))'
    BY <1>0, <1>2 DEF Pasted, FromIssued
  <2>. QED
    BY <2>1, <2>2 DEF Pasted
<1>6. ReasonIsTrue'
  BY <1>0, <1>2, SameReason
<1>. QED
  BY <1>3, <1>4, <1>5, <1>6 DEF IInv

LEMMA DisturbKeeps ==
  ASSUME Arguments, IInv, NEW m \in Machine, NEW i \in Id, Disturb(m, i)
  PROVE  IInv'
<1>0. TypeOK /\ OwnId /\ Whole /\ Stock /\ Pasted /\ ReasonIsTrue
  BY DEF IInv
<1>1. PICK e \in {0, -1} : keyring' = [keyring EXCEPT ![m][i] = e]
  BY DEF Disturb
<1>2. /\ UNCHANGED <<enc, made, issued, conf, dec>>
      /\ edits' = edits + 1
      /\ disturbed' = disturbed \cup {<<m, i>>}
  BY DEF Disturb, Edited
<1>3. e \notin Id /\ e \in Entry
  BY <1>1, IdFacts DEF Entry
<1>4. /\ keyring'[m][i] = e
      /\ \A n \in Machine, j \in Id : n # m \/ j # i => keyring'[n][j] = keyring[n][j]
  BY <1>0, <1>1 DEF TypeOK
<1>5. ASSUME NEW n \in Machine, NEW j \in Id, NEW k
      PROVE  /\ OnlyOn(n, j) => OnlyOn(n, j)'
             /\ KeptOn(n, j, k) => KeptOn(n, j, k)'
  BY <1>2, <1>3, <1>4 DEF OnlyOn, KeptOn
<1>6. TypeOK'
  <2>1. keyring' \in [Machine -> [Id -> Entry]]
    BY <1>0, <1>1, <1>3 DEF TypeOK
  <2>2. edits' \in Nat /\ disturbed' \subseteq Machine \X Id
    BY <1>0, <1>2 DEF TypeOK
  <2>. QED
    BY <1>0, <1>2, <2>1, <2>2 DEF TypeOK
<1>7. OwnId'
  <2>1. ASSUME NEW p \in Proc, Active(p)
        PROVE  enc[p].machine \in Machine /\ enc[p].id \in Id
    BY <1>0, <2>1, EncFacts
  <2>. QED
    BY <1>0, <1>2, <1>5, <2>1 DEF OwnId, Active
<1>8. Whole'
  <2>1. \A l \in issued : l.machine \in Machine /\ l.line.id \in Id
    BY <1>0 DEF TypeOK, V2
  <2>. QED
    BY <1>0, <1>2, <1>5, <2>1 DEF Whole
<1>9. Stock'
  BY <1>0, <1>2, <1>3, <1>4 DEF Stock
<1>10. Pasted'
  BY <1>0, <1>2 DEF Pasted, FromIssued
<1>11. ReasonIsTrue'
  BY <1>0, <1>2 DEF ReasonIsTrue, Ended, IssuedHere, Undisturbed
<1>. QED
  BY <1>6, <1>7, <1>8, <1>9, <1>10, <1>11 DEF IInv

LEMMA NextKeeps ==
  ASSUME Arguments
  PROVE  IInv /\ [Next]_vars => IInv'
<1>. SUFFICES ASSUME IInv, [Next]_vars PROVE IInv'
  OBVIOUS
<1>1. CASE \E p \in Proc, m \in Machine, word \in Password : Draw(p, m, word)
  BY <1>1, DrawKeeps
<1>2. CASE \E p \in Proc : StoreKey(p) \/ Ends(p) \/ PrintLine(p)
  BY <1>2, StoreKeyKeeps, EndsKeeps, PrintLineKeeps
<1>3. CASE \E m \in Machine : Read(m)
  BY <1>3, ReadKeeps
<1>4. CASE ReadV2 \/ ReadV2Fails
  BY <1>4, ReadV2Keeps, ReadV2FailsKeeps
<1>5. CASE ReadV1 \/ ReadPlaintext \/ ReadOther
  BY <1>5, OtherLinesKeep
<1>6. CASE \E m \in Machine : Paste(m)
  BY <1>6, PasteKeeps
<1>7. CASE \E m \in Machine, i \in Id : Disturb(m, i)
  BY <1>7, DisturbKeeps
<1>8. CASE UNCHANGED vars
  <2>1. TypeOK'
    BY <1>8 DEF IInv, TypeOK, vars
  <2>2. OwnId' /\ Whole' /\ Stock'
    BY <1>8 DEF IInv, OwnId, Whole, Stock, Active, OnlyOn, KeptOn, vars
  <2>3. Pasted'
    BY <1>8 DEF IInv, Pasted, FromIssued, vars
  <2>4. ReasonIsTrue'
    BY <1>8, SameReason DEF IInv, vars
  <2>. QED
    BY <2>1, <2>2, <2>3, <2>4 DEF IInv
<1>. QED
  BY <1>1, <1>2, <1>3, <1>4, <1>5, <1>6, <1>7, <1>8 DEF Next

-----------------------------------------------------------------------------
\* IInv is inductive: in every reachable state the keys, the running encryptions
\* and the printed lines agree as EncryptStringV2 and systemKeyStore leave them.
THEOREM Invariance ==
  ASSUME Arguments
  PROVE  Spec => []IInv
BY InitIInv, NextKeeps, PTL DEF Spec

\* However many encryptions run and are killed, every line that was printed can
\* be opened on its machine until its key is touched (EncryptStringV2 stores the
\* key before it returns the line).
THEOREM PrintedCorrect ==
  ASSUME Arguments
  PROVE  Spec => []PrintedCanBeOpened
<1>1. IInv => PrintedCanBeOpened
  BY DEF IInv, Whole, KeptOn, PrintedCanBeOpened
<1>. QED
  BY <1>1, Invariance, PTL

\* The reason that decryptStringV2 gives for a password it cannot have is true,
\* whichever lines were mingled and carried to other machines.
THEOREM ReasonCorrect ==
  ASSUME Arguments
  PROVE  Spec => []ReasonIsTrue
<1>1. IInv => ReasonIsTrue
  BY DEF IInv
<1>. QED
  BY <1>1, Invariance, PTL
=============================================================================
