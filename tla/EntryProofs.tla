---------------------------- MODULE EntryProofs -----------------------------
(***************************************************************************)
(* Proofs about Entry for every line, every size of the output and of the  *)
(* pipe: the exit code is true of what the caller has, and a command runs  *)
(* with what its caller meant, however long the line is and wherever its   *)
(* flags stand (Arguments).                                                *)
(***************************************************************************)
EXTENDS Entry, WellFoundedInduction, SequenceTheorems, TLAPS

Kinds == {"usage", "print", "help", "raw", "refused", "run"}
Codes == {Running, Signaled, 0, 1, 2}

TypeOK ==
  /\ captured \in BOOLEAN
  /\ sink \in {"good", "full", "gone"}
  /\ pc \in {"parse", "print", "start", "write", "return", "closed", "exit", "end"}
  /\ answer \in {"result", "error", "none"}
  /\ failed \in BOOLEAN
  /\ sent \in Nat /\ pipe \in Nat /\ out \in Nat /\ lost \in Nat
  /\ copier \in {"none", "copying", "done", "failed"}
  /\ code \in Codes /\ told \in BOOLEAN

\* Before internal/cli runs nothing is written.
Untouched ==
  pc \in {"parse", "print", "start"} =>
    /\ answer = "none"
    /\ sent = 0 /\ pipe = 0 /\ out = 0 /\ lost = 0
    /\ copier = "none" /\ ~failed

\* Every part that was written is with the caller, in the pipe, or was lost in a
\* write that failed.
NothingVanishes ==
  pc \in {"write", "return", "closed", "exit"} =>
    /\ sent = out + pipe + lost /\ sent <= Size
    /\ ~captured => pipe = 0 /\ (lost > 0 => failed)
    /\ captured => ~failed /\ (lost > 0 => copier = "failed")

\* Where the call stands, and the goroutine with it.
Stages ==
  /\ pc \in {"parse", "print", "start", "write", "return", "closed", "exit"} => code = Running
  /\ pc = "print" => ran.kind = "print"
  /\ pc \in {"start", "write", "return", "closed", "exit"} => ran.kind \notin {"usage", "print"}
  /\ pc \in {"return", "closed", "exit"} =>
       answer = "none" \/ sent = Size \/ (failed /\ ~Unchecked)
  /\ pc \in {"write", "return"} /\ captured => copier \in {"copying", "failed"}
  /\ pc = "closed" => captured
  /\ pc = "exit" /\ captured => copier = "done"
  /\ copier = "done" => pipe = 0
  /\ pc = "end" => copier # "copying"
  /\ ~captured => copier = "none"

IInv == TypeOK /\ Untouched /\ NothingVanishes /\ Stages /\ ExitIsTrue

-----------------------------------------------------------------------------
(* The inductive invariant.                                                *)

LEMMA InitIInv == Init => IInv
<1>. SUFFICES ASSUME Init PROVE IInv
  OBVIOUS
<1>1. /\ captured \in BOOLEAN /\ sink = "good" /\ pc = "parse" /\ answer = "none" /\ failed = FALSE
      /\ sent = 0 /\ pipe = 0 /\ out = 0 /\ lost = 0
      /\ copier = "none" /\ code = Running /\ told = FALSE
  BY DEF Init
<1>. QED
  <2>1. TypeOK
    BY <1>1 DEF TypeOK, Codes
  <2>2. Untouched /\ NothingVanishes /\ Stages /\ ExitIsTrue
    BY <1>1, Sizes DEF Untouched, NothingVanishes, Stages, ExitIsTrue, Running
  <2>. QED
    BY <2>1, <2>2 DEF IInv

\* No step changes what the line is taken for.
LEMMA LineStays ==
  ASSUME [Next]_vars
  PROVE  ran' = ran /\ captured' = captured /\ (Unchecked' <=> Unchecked)
<1>1. UNCHANGED fixed
  BY DEF Next, Call, Copier, Break, Dispatch, Show, PipeFails, Run, Write, WriteFails, Signal,
       Written, Close, Wait, Exit, Copy, CopyEnds, vars
<1>. QED
  BY <1>1 DEF fixed, Unchecked, OnlyJson

\* Up to the start of internal/cli.
LEMMA EarlyKeeps ==
  ASSUME IInv, Dispatch \/ Show \/ PipeFails \/ Run
  PROVE  IInv'
<1>1. ran' = ran /\ captured' = captured /\ (Unchecked' <=> Unchecked)
  BY LineStays DEF Next, Call, Copier
<1>. USE <1>1, Sizes DEF IInv, TypeOK, Codes, Running, Signaled, End, text
<1>2. CASE Dispatch
  <2>1. TypeOK'
    <3>1. told' \in BOOLEAN
      BY <1>2, Zenon DEF Dispatch
    <3>2. /\ pc' \in {"parse", "print", "start", "write", "return", "closed", "exit", "end"}
          /\ code' \in Codes
      BY <1>2 DEF Dispatch
    <3>3. /\ captured' \in BOOLEAN /\ failed' \in BOOLEAN
      BY <1>2, Zenon DEF Dispatch
    <3>4. /\ sink' = sink /\ answer' = answer /\ sent' = sent /\ pipe' = pipe
          /\ out' \in Nat /\ lost' = lost /\ copier' = copier
      BY <1>2 DEF Dispatch
    <3>. QED
      BY <3>1, <3>2, <3>3, <3>4
  <2>2. Untouched'
    BY <1>2 DEF Dispatch, Untouched
  <2>3. NothingVanishes'
    BY <1>2 DEF Dispatch, Untouched, NothingVanishes
  <2>4. Stages'
    BY <1>2 DEF Dispatch, Untouched, Stages, NothingVanishes
  <2>5. ExitIsTrue'
    BY <1>2 DEF Dispatch, Stages, NothingVanishes, Untouched, ExitIsTrue
  <2>. QED
    BY <2>1, <2>2, <2>3, <2>4, <2>5
<1>3. CASE Show
  <2>1. TypeOK'
    <3>1. told' \in BOOLEAN
      BY <1>3, Zenon DEF Show
    <3>2. /\ pc' \in {"parse", "print", "start", "write", "return", "closed", "exit", "end"}
          /\ code' \in Codes
      BY <1>3 DEF Show
    <3>3. /\ captured' \in BOOLEAN /\ failed' \in BOOLEAN
      BY <1>3, Zenon DEF Show
    <3>4. /\ sink' = sink /\ answer' = answer /\ sent' = sent /\ pipe' = pipe
          /\ out' \in Nat /\ lost' = lost /\ copier' = copier
      BY <1>3 DEF Show
    <3>. QED
      BY <3>1, <3>2, <3>3, <3>4
  <2>2. Untouched'
    BY <1>3 DEF Show, Untouched
  <2>3. NothingVanishes'
    BY <1>3 DEF Show, Untouched, NothingVanishes
  <2>4. Stages'
    BY <1>3 DEF Show, Untouched, Stages, NothingVanishes
  <2>5. ExitIsTrue'
    BY <1>3 DEF Show, Stages, NothingVanishes, Untouched, ExitIsTrue
  <2>. QED
    BY <2>1, <2>2, <2>3, <2>4, <2>5
<1>4. CASE PipeFails
  <2>1. TypeOK'
    BY <1>4 DEF PipeFails
  <2>2. Untouched'
    BY <1>4 DEF PipeFails, Untouched
  <2>3. NothingVanishes'
    BY <1>4 DEF PipeFails, Untouched, NothingVanishes
  <2>4. Stages'
    BY <1>4 DEF PipeFails, Untouched, Stages, NothingVanishes
  <2>5. ExitIsTrue'
    BY <1>4 DEF PipeFails, Stages, NothingVanishes, Untouched, ExitIsTrue
  <2>. QED
    BY <2>1, <2>2, <2>3, <2>4, <2>5
<1>5. CASE Run
  <2>1. TypeOK'
    BY <1>5 DEF Run
  <2>2. Untouched'
    BY <1>5 DEF Run, Untouched
  <2>3. NothingVanishes'
    BY <1>5 DEF Run, Untouched, NothingVanishes
  <2>4. Stages'
    BY <1>5 DEF Run, Untouched, Stages, NothingVanishes
  <2>5. ExitIsTrue'
    BY <1>5 DEF Run, Stages, NothingVanishes, Untouched, ExitIsTrue
  <2>. QED
    BY <2>1, <2>2, <2>3, <2>4, <2>5
<1>. QED
  BY <1>2, <1>3, <1>4, <1>5

\* While the answer is written.
LEMMA WriteKeeps ==
  ASSUME IInv, Write \/ WriteFails \/ Signal \/ Written
  PROVE  IInv'
<1>1. ran' = ran /\ captured' = captured /\ (Unchecked' <=> Unchecked)
  BY LineStays DEF Next, Call, Copier
<1>. USE <1>1, Sizes DEF IInv, TypeOK, Codes, Running, Signaled, End, text
<1>2. CASE Write
  <2>1. TypeOK'
    BY <1>2 DEF Write
  <2>2. Untouched'
    BY <1>2 DEF Write, Untouched
  <2>3. NothingVanishes'
    BY <1>2 DEF Write, Untouched, NothingVanishes
  <2>4. Stages'
    BY <1>2 DEF Write, Untouched, Stages, NothingVanishes
  <2>5. ExitIsTrue'
    BY <1>2 DEF Write, Stages, NothingVanishes, Untouched, ExitIsTrue
  <2>. QED
    BY <2>1, <2>2, <2>3, <2>4, <2>5
<1>3. CASE WriteFails
  <2>1. TypeOK'
    BY <1>3 DEF WriteFails
  <2>2. Untouched'
    BY <1>3 DEF WriteFails, Untouched
  <2>3. NothingVanishes'
    BY <1>3 DEF WriteFails, Untouched, NothingVanishes
  <2>4. Stages'
    BY <1>3 DEF WriteFails, Untouched, Stages, NothingVanishes
  <2>5. ExitIsTrue'
    BY <1>3 DEF WriteFails, Stages, NothingVanishes, Untouched, ExitIsTrue
  <2>. QED
    BY <2>1, <2>2, <2>3, <2>4, <2>5
<1>4. CASE Signal
  <2>1. TypeOK'
    BY <1>4 DEF Signal
  <2>2. Untouched'
    BY <1>4 DEF Signal, Untouched
  <2>3. NothingVanishes'
    BY <1>4 DEF Signal, Untouched, NothingVanishes
  <2>4. Stages'
    BY <1>4 DEF Signal, Untouched, Stages, NothingVanishes
  <2>5. ExitIsTrue'
    BY <1>4 DEF Signal, Stages, NothingVanishes, Untouched, ExitIsTrue
  <2>. QED
    BY <2>1, <2>2, <2>3, <2>4, <2>5
<1>5. CASE Written
  <2>1. TypeOK'
    BY <1>5 DEF Written
  <2>2. Untouched'
    BY <1>5 DEF Written, Untouched
  <2>3. NothingVanishes'
    BY <1>5 DEF Written, Untouched, NothingVanishes
  <2>4. Stages'
    BY <1>5 DEF Written, Untouched, Stages, NothingVanishes
  <2>5. ExitIsTrue'
    BY <1>5 DEF Written, Stages, NothingVanishes, Untouched, ExitIsTrue
  <2>. QED
    BY <2>1, <2>2, <2>3, <2>4, <2>5
<1>. QED
  BY <1>2, <1>3, <1>4, <1>5

\* From the return of internal/cli to the exit.
LEMMA EndKeeps ==
  ASSUME IInv, Close \/ Wait \/ Exit
  PROVE  IInv'
<1>1. ran' = ran /\ captured' = captured /\ (Unchecked' <=> Unchecked)
  BY LineStays DEF Next, Call, Copier
<1>. USE <1>1, Sizes DEF IInv, TypeOK, Codes, Running, Signaled, End, text
<1>2. CASE Close
  <2>1. TypeOK'
    <3>1. told' \in BOOLEAN
      BY <1>2, Zenon DEF Close
    <3>2. /\ pc' \in {"parse", "print", "start", "write", "return", "closed", "exit", "end"}
          /\ code' \in Codes
      BY <1>2 DEF Close
    <3>3. /\ captured' \in BOOLEAN /\ failed' \in BOOLEAN
      BY <1>2, Zenon DEF Close
    <3>4. /\ sink' = sink /\ answer' = answer /\ sent' = sent /\ pipe' = pipe
          /\ out' \in Nat /\ lost' = lost /\ copier' = copier
      BY <1>2 DEF Close
    <3>. QED
      BY <3>1, <3>2, <3>3, <3>4
  <2>2. Untouched'
    BY <1>2 DEF Close, Untouched
  <2>3. NothingVanishes'
    BY <1>2 DEF Close, Untouched, NothingVanishes
  <2>4. Stages'
    BY <1>2 DEF Close, Untouched, Stages, NothingVanishes
  <2>5. ExitIsTrue'
    BY <1>2 DEF Close, Stages, NothingVanishes, Untouched, ExitIsTrue
  <2>. QED
    BY <2>1, <2>2, <2>3, <2>4, <2>5
<1>3. CASE Wait
  <2>1. TypeOK'
    <3>1. told' \in BOOLEAN
      BY <1>3, Zenon DEF Wait
    <3>2. /\ pc' \in {"parse", "print", "start", "write", "return", "closed", "exit", "end"}
          /\ code' \in Codes
      BY <1>3 DEF Wait
    <3>3. /\ captured' \in BOOLEAN /\ failed' \in BOOLEAN
      BY <1>3, Zenon DEF Wait
    <3>4. /\ sink' = sink /\ answer' = answer /\ sent' = sent /\ pipe' = pipe
          /\ out' \in Nat /\ lost' = lost /\ copier' = copier
      BY <1>3 DEF Wait
    <3>. QED
      BY <3>1, <3>2, <3>3, <3>4
  <2>2. Untouched'
    BY <1>3 DEF Wait, Untouched
  <2>3. NothingVanishes'
    BY <1>3 DEF Wait, Untouched, NothingVanishes
  <2>4. Stages'
    BY <1>3 DEF Wait, Untouched, Stages, NothingVanishes
  <2>5. ExitIsTrue'
    BY <1>3 DEF Wait, Stages, NothingVanishes, Untouched, ExitIsTrue
  <2>. QED
    BY <2>1, <2>2, <2>3, <2>4, <2>5
<1>4. CASE Exit
  <2>1. TypeOK'
    <3>1. told' \in BOOLEAN /\ captured' \in BOOLEAN /\ failed' \in BOOLEAN
      BY <1>4, Zenon DEF Exit
    <3>2. pc' = "end" /\ code' \in {0, 1}
      BY <1>4 DEF Exit
    <3>3. /\ sink' = sink /\ answer' = answer /\ sent' = sent /\ pipe' = pipe
          /\ out' = out /\ lost' = lost /\ copier' = copier
      BY <1>4 DEF Exit
    <3>. QED
      BY <3>1, <3>2, <3>3
  <2>2. Untouched'
    BY <1>4 DEF Exit, Untouched
  <2>3. NothingVanishes'
    BY <1>4 DEF Exit, Untouched, NothingVanishes
  <2>4. Stages'
    BY <1>4 DEF Exit, Untouched, Stages, NothingVanishes
  <2>5. ExitIsTrue'
    BY <1>4 DEF Exit, Stages, NothingVanishes, Untouched, ExitIsTrue
  <2>. QED
    BY <2>1, <2>2, <2>3, <2>4, <2>5
<1>. QED
  BY <1>2, <1>3, <1>4

\* The goroutine that copies, and the writer that breaks.
LEMMA CopierKeeps ==
  ASSUME IInv, Copy \/ CopyEnds \/ Break
  PROVE  IInv'
<1>1. ran' = ran /\ captured' = captured /\ (Unchecked' <=> Unchecked)
  BY LineStays DEF Next, Call, Copier
<1>. USE <1>1, Sizes DEF IInv, TypeOK, Codes, Running, Signaled, End, text
<1>2. CASE Copy
  <2>1. TypeOK'
    <3>1. /\ told' \in BOOLEAN /\ captured' \in BOOLEAN /\ failed' \in BOOLEAN
      BY <1>2, Zenon DEF Copy
    <3>2. /\ sink' = sink /\ pc' = pc /\ answer' = answer /\ sent' = sent /\ code' = code
      BY <1>2 DEF Copy
    <3>3. /\ pipe' \in Nat /\ out' \in Nat /\ lost' \in Nat
      BY <1>2 DEF Copy
    <3>4. copier' \in {"none", "copying", "done", "failed"}
      BY <1>2 DEF Copy
    <3>5. /\ sink' \in {"good", "full", "gone"}
          /\ pc' \in {"parse", "print", "start", "write", "return", "closed", "exit", "end"}
          /\ answer' \in {"result", "error", "none"} /\ sent' \in Nat /\ code' \in Codes
      BY <3>2
    <3>. QED
      BY <3>1, <3>3, <3>4, <3>5, Zenon DEF TypeOK
  <2>2. Untouched'
    BY <1>2 DEF Copy, Untouched
  <2>3. NothingVanishes'
    BY <1>2 DEF Copy, Untouched, NothingVanishes
  <2>4. Stages'
    BY <1>2 DEF Copy, Untouched, Stages, NothingVanishes
  <2>5. ExitIsTrue'
    BY <1>2 DEF Copy, Stages, NothingVanishes, Untouched, ExitIsTrue
  <2>. QED
    BY <2>1, <2>2, <2>3, <2>4, <2>5
<1>3. CASE CopyEnds
  <2>1. TypeOK'
    BY <1>3 DEF CopyEnds
  <2>2. Untouched'
    BY <1>3 DEF CopyEnds, Untouched
  <2>3. NothingVanishes'
    BY <1>3 DEF CopyEnds, Untouched, NothingVanishes
  <2>4. Stages'
    BY <1>3 DEF CopyEnds, Untouched, Stages, NothingVanishes
  <2>5. ExitIsTrue'
    BY <1>3 DEF CopyEnds, Stages, NothingVanishes, Untouched, ExitIsTrue
  <2>. QED
    BY <2>1, <2>2, <2>3, <2>4, <2>5
<1>4. CASE Break
  <2>1. TypeOK'
    BY <1>4 DEF Break
  <2>2. Untouched'
    BY <1>4 DEF Break, Untouched
  <2>3. NothingVanishes'
    BY <1>4 DEF Break, Untouched, NothingVanishes
  <2>4. Stages'
    BY <1>4 DEF Break, Untouched, Stages, NothingVanishes
  <2>5. ExitIsTrue'
    BY <1>4 DEF Break, Stages, NothingVanishes, Untouched, ExitIsTrue
  <2>. QED
    BY <2>1, <2>2, <2>3, <2>4, <2>5
<1>. QED
  BY <1>2, <1>3, <1>4

LEMMA NextIInv == IInv /\ [Next]_vars => IInv'
<1>. SUFFICES ASSUME IInv, [Next]_vars PROVE IInv'
  OBVIOUS
<1>1. CASE UNCHANGED vars
  <2>1. Unchecked' <=> Unchecked
    BY LineStays
  <2>. QED
    BY <1>1, <2>1 DEF vars, fixed, text, IInv, TypeOK, Untouched, NothingVanishes, Stages, ExitIsTrue
<1>2. CASE Call
  BY <1>2, EarlyKeeps, WriteKeeps, EndKeeps DEF Call
<1>3. CASE Copier \/ Break
  BY <1>3, CopierKeeps DEF Copier
<1>. QED
  BY <1>1, <1>2, <1>3 DEF Next

\* The inductive invariant holds in every state.
THEOREM Invariance == Spec => []IInv
<1>1. Init => IInv
  BY InitIInv
<1>2. IInv /\ [Next]_vars => IInv'
  BY NextIInv
<1>. QED
  BY <1>1, <1>2, PTL DEF Spec

\* The exit code is true of what the caller has.
THEOREM ExitTrue == Spec => []ExitIsTrue
<1>1. IInv => ExitIsTrue
  BY DEF IInv
<1>. QED
  BY <1>1, Invariance, PTL

-----------------------------------------------------------------------------
(* Numbers.                                                                *)

\* A set of numbers has a least element.
LEMMA LeastOfSet ==
  ASSUME NEW S \in SUBSET Nat, S # {}
  PROVE  \E n \in S : \A m \in S : n <= m
<1>1. IsWellFoundedOn(OpToRel(<, Nat), Nat)
  BY NatLessThanWellFounded
<1>2. PICK n \in S : \A m \in S : ~(<<m, n>> \in OpToRel(<, Nat))
  BY <1>1, WFMin, Zenon
<1>3. \A m \in S : m < n => <<m, n>> \in OpToRel(<, Nat)
  BY DEF OpToRel
<1>4. \A m \in S : ~(m < n)
  BY <1>2, <1>3, Zenon
<1>. QED
  BY <1>4

\* Induction: a set that holds 0, and n + 1 with n, holds every number.
LEMMA SetInduction ==
  ASSUME NEW S \in SUBSET Nat, 0 \in S, \A n \in S : n + 1 \in S
  PROVE  S = Nat
<1>. SUFFICES ASSUME Nat \ S # {} PROVE FALSE
  OBVIOUS
<1>1. PICK n \in Nat \ S : \A m \in Nat \ S : n <= m
  BY LeastOfSet
<1>2. n # 0 /\ n - 1 \in Nat
  BY <1>1
<1>3. n - 1 \in S
  BY <1>1, <1>2
<1>. QED
  BY <1>1, <1>2, <1>3

-----------------------------------------------------------------------------
(* Lines made of pieces, and the loops of the parsers: recursive functions  *)
(* over a sequence, and what they do at each of its places.                *)

\* A text grows piece by piece (FlattenSeq).
LEMMA FlatExists ==
  ASSUME NEW ps, NEW N \in Nat
  PROVE  \E f : f = [i \in 1 .. N |-> IF i = 1 THEN ps[i] ELSE f[i - 1] \o ps[i]]
<1>. DEFINE S == {n \in Nat : \E f : f = [i \in 1 .. n |-> IF i = 1 THEN ps[i] ELSE f[i - 1] \o ps[i]]}
<1>1. 0 \in S
  <2>. DEFINE f == [i \in 1 .. 0 |-> ps[i]]
  <2>1. f = [i \in 1 .. 0 |-> IF i = 1 THEN ps[i] ELSE f[i - 1] \o ps[i]]
    OBVIOUS
  <2>. HIDE DEF f
  <2>. QED
    BY <2>1
<1>2. ASSUME NEW n \in S
      PROVE  n + 1 \in S
  <2>1. PICK f : f = [i \in 1 .. n |-> IF i = 1 THEN ps[i] ELSE f[i - 1] \o ps[i]]
    BY Zenon
  <2>. DEFINE g == [i \in 1 .. n + 1 |-> IF i = 1 THEN ps[i] ELSE f[i - 1] \o ps[i]]
  <2>2. \A k \in 1 .. n : g[k] = f[k]
    <3>1. \A k \in 1 .. n : k \in 1 .. n + 1
      OBVIOUS
    <3>2. \A k \in 1 .. n : f[k] = IF k = 1 THEN ps[k] ELSE f[k - 1] \o ps[k]
      BY <2>1, Zenon
    <3>. QED
      BY <3>1, <3>2, Zenon
  <2>3. \A k \in 1 .. n + 1 : k # 1 => k - 1 \in 1 .. n
    OBVIOUS
  <2>4. g = [i \in 1 .. n + 1 |-> IF i = 1 THEN ps[i] ELSE g[i - 1] \o ps[i]]
    BY <2>2, <2>3
  <2>5. n + 1 \in Nat
    OBVIOUS
  <2>. HIDE DEF g
  <2>. QED
    BY <2>4, <2>5, Zenon
<1>. HIDE DEF S
<1>3. S = Nat
  BY <1>1, <1>2, SetInduction DEF S
<1>. QED
  BY <1>3 DEF S

\* The first parser goes word by word.
Parsing(args, set, names, unknown) == CHOOSE f : f =
  [k \in 0 .. Len(args) |-> IF k = 0 THEN Start(set) ELSE ParseWord(f[k - 1], args[k], names, unknown)]

LEMMA ParsingIs ==
  ASSUME NEW args, NEW set, NEW names, NEW unknown, Len(args) \in Nat
  PROVE  /\ Parsing(args, set, names, unknown)[0] = Start(set)
         /\ \A k \in 1 .. Len(args) : Parsing(args, set, names, unknown)[k] =
              ParseWord(Parsing(args, set, names, unknown)[k - 1], args[k], names, unknown)
<1>. DEFINE S == {n \in Nat : \E f : f = [k \in 0 .. n |-> IF k = 0 THEN Start(set)
              ELSE ParseWord(f[k - 1], args[k], names, unknown)]}
<1>1. 0 \in S
  <2>. DEFINE f == [k \in 0 .. 0 |-> Start(set)]
  <2>1. f = [k \in 0 .. 0 |-> IF k = 0 THEN Start(set) ELSE ParseWord(f[k - 1], args[k], names, unknown)]
    OBVIOUS
  <2>. HIDE DEF f
  <2>. QED
    BY <2>1
<1>2. ASSUME NEW n \in S
      PROVE  n + 1 \in S
  <2>1. PICK f : f = [k \in 0 .. n |-> IF k = 0 THEN Start(set)
               ELSE ParseWord(f[k - 1], args[k], names, unknown)]
    BY Zenon
  <2>. DEFINE g == [k \in 0 .. n + 1 |-> IF k = 0 THEN Start(set)
                ELSE ParseWord(f[k - 1], args[k], names, unknown)]
  <2>2. \A k \in 0 .. n : g[k] = f[k]
    BY <2>1
  <2>3. \A k \in 0 .. n + 1 : k # 0 => k - 1 \in 0 .. n
    OBVIOUS
  <2>4. g = [k \in 0 .. n + 1 |-> IF k = 0 THEN Start(set)
          ELSE ParseWord(g[k - 1], args[k], names, unknown)]
    BY <2>2, <2>3
  <2>5. n + 1 \in Nat
    OBVIOUS
  <2>. HIDE DEF g
  <2>. QED
    BY <2>4, <2>5, Zenon
<1>3. Len(args) \in S
  <2>. HIDE DEF S
  <2>1. S = Nat
    BY <1>1, <1>2, SetInduction DEF S
  <2>. QED
    BY <2>1
<1>4. \E f : f = [k \in 0 .. Len(args) |-> IF k = 0 THEN Start(set)
        ELSE ParseWord(f[k - 1], args[k], names, unknown)]
  BY <1>3, Zenon
<1>5. Parsing(args, set, names, unknown) =
        [k \in 0 .. Len(args) |-> IF k = 0 THEN Start(set)
          ELSE ParseWord(Parsing(args, set, names, unknown)[k - 1], args[k], names, unknown)]
  BY <1>4, Zenon DEF Parsing
<1>. HIDE DEF S
<1>. QED
  BY <1>5

\* So does normalizeFlagArgs.
Sorting(args, valueFlags) == CHOOSE f : f =
  [k \in 0 .. Len(args) |-> IF k = 0 THEN Unsorted ELSE SortWord(f[k - 1], args[k], valueFlags)]

LEMMA SortingIs ==
  ASSUME NEW args, NEW valueFlags, Len(args) \in Nat
  PROVE  /\ Sorting(args, valueFlags)[0] = Unsorted
         /\ \A k \in 1 .. Len(args) : Sorting(args, valueFlags)[k] =
              SortWord(Sorting(args, valueFlags)[k - 1], args[k], valueFlags)
<1>. DEFINE S == {n \in Nat : \E f : f = [k \in 0 .. n |-> IF k = 0 THEN Unsorted
              ELSE SortWord(f[k - 1], args[k], valueFlags)]}
<1>1. 0 \in S
  <2>. DEFINE f == [k \in 0 .. 0 |-> Unsorted]
  <2>1. f = [k \in 0 .. 0 |-> IF k = 0 THEN Unsorted ELSE SortWord(f[k - 1], args[k], valueFlags)]
    OBVIOUS
  <2>. HIDE DEF f
  <2>. QED
    BY <2>1
<1>2. ASSUME NEW n \in S
      PROVE  n + 1 \in S
  <2>1. PICK f : f = [k \in 0 .. n |-> IF k = 0 THEN Unsorted ELSE SortWord(f[k - 1], args[k], valueFlags)]
    BY Zenon
  <2>. DEFINE g == [k \in 0 .. n + 1 |-> IF k = 0 THEN Unsorted
                ELSE SortWord(f[k - 1], args[k], valueFlags)]
  <2>2. \A k \in 0 .. n : g[k] = f[k]
    BY <2>1
  <2>3. \A k \in 0 .. n + 1 : k # 0 => k - 1 \in 0 .. n
    OBVIOUS
  <2>4. g = [k \in 0 .. n + 1 |-> IF k = 0 THEN Unsorted ELSE SortWord(g[k - 1], args[k], valueFlags)]
    BY <2>2, <2>3
  <2>5. n + 1 \in Nat
    OBVIOUS
  <2>. HIDE DEF g
  <2>. QED
    BY <2>4, <2>5, Zenon
<1>3. Len(args) \in S
  <2>. HIDE DEF S
  <2>1. S = Nat
    BY <1>1, <1>2, SetInduction DEF S
  <2>. QED
    BY <2>1
<1>4. \E f : f = [k \in 0 .. Len(args) |-> IF k = 0 THEN Unsorted
        ELSE SortWord(f[k - 1], args[k], valueFlags)]
  BY <1>3, Zenon
<1>5. Sorting(args, valueFlags) =
        [k \in 0 .. Len(args) |-> IF k = 0 THEN Unsorted
          ELSE SortWord(Sorting(args, valueFlags)[k - 1], args[k], valueFlags)]
  BY <1>4, Zenon DEF Sorting
<1>. HIDE DEF S
<1>. QED
  BY <1>5

\* And the flag package.
Flagging(args, set, names) == CHOOSE f : f =
  [k \in 0 .. Len(args) |-> IF k = 0 THEN Start(set) ELSE FlagWord(f[k - 1], args[k], names)]

LEMMA FlaggingIs ==
  ASSUME NEW args, NEW set, NEW names, Len(args) \in Nat
  PROVE  /\ Flagging(args, set, names)[0] = Start(set)
         /\ \A k \in 1 .. Len(args) : Flagging(args, set, names)[k] =
              FlagWord(Flagging(args, set, names)[k - 1], args[k], names)
<1>. DEFINE S == {n \in Nat : \E f : f = [k \in 0 .. n |-> IF k = 0 THEN Start(set)
              ELSE FlagWord(f[k - 1], args[k], names)]}
<1>1. 0 \in S
  <2>. DEFINE f == [k \in 0 .. 0 |-> Start(set)]
  <2>1. f = [k \in 0 .. 0 |-> IF k = 0 THEN Start(set) ELSE FlagWord(f[k - 1], args[k], names)]
    OBVIOUS
  <2>. HIDE DEF f
  <2>. QED
    BY <2>1
<1>2. ASSUME NEW n \in S
      PROVE  n + 1 \in S
  <2>1. PICK f : f = [k \in 0 .. n |-> IF k = 0 THEN Start(set) ELSE FlagWord(f[k - 1], args[k], names)]
    BY Zenon
  <2>. DEFINE g == [k \in 0 .. n + 1 |-> IF k = 0 THEN Start(set) ELSE FlagWord(f[k - 1], args[k], names)]
  <2>2. \A k \in 0 .. n : g[k] = f[k]
    BY <2>1
  <2>3. \A k \in 0 .. n + 1 : k # 0 => k - 1 \in 0 .. n
    OBVIOUS
  <2>4. g = [k \in 0 .. n + 1 |-> IF k = 0 THEN Start(set) ELSE FlagWord(g[k - 1], args[k], names)]
    BY <2>2, <2>3
  <2>5. n + 1 \in Nat
    OBVIOUS
  <2>. HIDE DEF g
  <2>. QED
    BY <2>4, <2>5, Zenon
<1>3. Len(args) \in S
  <2>. HIDE DEF S
  <2>1. S = Nat
    BY <1>1, <1>2, SetInduction DEF S
  <2>. QED
    BY <2>1
<1>4. \E f : f = [k \in 0 .. Len(args) |-> IF k = 0 THEN Start(set) ELSE FlagWord(f[k - 1], args[k], names)]
  BY <1>3, Zenon
<1>5. Flagging(args, set, names) =
        [k \in 0 .. Len(args) |-> IF k = 0 THEN Start(set)
          ELSE FlagWord(Flagging(args, set, names)[k - 1], args[k], names)]
  BY <1>4, Zenon DEF Flagging
<1>. HIDE DEF S
<1>. QED
  BY <1>5

\* The three parsers by these names.
LEMMA LoopsAre ==
  /\ \A args, set, names, unknown :
       ParseFlagSet(args, set, names, unknown) = Ended(Parsing(args, set, names, unknown)[Len(args)])
  /\ \A args, valueFlags :
       NormalizeFlagArgs(args, valueFlags) =
         Sorting(args, valueFlags)[Len(args)].flags \o Sorting(args, valueFlags)[Len(args)].words
  /\ \A args, set, names :
       FlagParse(args, set, names) = Ended(Flagging(args, set, names)[Len(args)])
<1>1. \A args, set, names, unknown :
        ParseFlagSet(args, set, names, unknown) = Ended(Parsing(args, set, names, unknown)[Len(args)])
  BY Zenon DEF ParseFlagSet, Parsing
<1>2. \A args, valueFlags :
        NormalizeFlagArgs(args, valueFlags) =
          Sorting(args, valueFlags)[Len(args)].flags \o Sorting(args, valueFlags)[Len(args)].words
  BY Zenon DEF NormalizeFlagArgs, Sorting
<1>3. \A args, set, names :
        FlagParse(args, set, names) = Ended(Flagging(args, set, names)[Len(args)])
  BY Zenon DEF FlagParse, Flagging
<1>. QED
  BY <1>1, <1>2, <1>3, Zenon

\* What a text is made of that is put together from two.
LEMMA Joined ==
  ASSUME NEW W, NEW s \in Seq(W), NEW t \in Seq(W)
  PROVE  /\ s \o t \in Seq(W)
         /\ Len(s) \in Nat /\ Len(t) \in Nat /\ Len(s \o t) = Len(s) + Len(t)
         /\ \A j \in 1 .. Len(s) : (s \o t)[j] = s[j]
         /\ \A j \in 1 .. Len(t) : (s \o t)[Len(s) + j] = t[j]
OBVIOUS

\* The first k pieces, and where they end.
Flat(ps) == CHOOSE f : f = [i \in 1 .. Len(ps) |-> IF i = 1 THEN ps[i] ELSE f[i - 1] \o ps[i]]
Upto(ps, k) == IF k = 0 THEN <<>> ELSE Flat(ps)[k]
Pos(ps, k) == Len(Upto(ps, k))

\* Another piece goes behind the others.
LEMMA FlatIs ==
  ASSUME NEW W, NEW ps \in Seq(Seq(W)), NEW k \in 1 .. Len(ps)
  PROVE  Upto(ps, k) = Upto(ps, k - 1) \o ps[k]
<1>1. Len(ps) \in Nat /\ ps[k] \in Seq(W)
  BY LenProperties
<1>2. \E f : f = [i \in 1 .. Len(ps) |-> IF i = 1 THEN ps[i] ELSE f[i - 1] \o ps[i]]
  BY <1>1, FlatExists
<1>3. Flat(ps) = [i \in 1 .. Len(ps) |-> IF i = 1 THEN ps[i] ELSE Flat(ps)[i - 1] \o ps[i]]
  BY <1>2, Zenon DEF Flat
<1>4. Flat(ps)[k] = IF k = 1 THEN ps[k] ELSE Flat(ps)[k - 1] \o ps[k]
  BY <1>3, Zenon
<1>5. CASE k = 1
  <2>1. <<>> \o ps[k] = ps[k]
    BY <1>1, ConcatEmptySeq
  <2>2. Upto(ps, k - 1) = <<>> /\ Upto(ps, k) = ps[k]
    BY <1>4, <1>5 DEF Upto
  <2>. QED
    BY <2>1, <2>2, Zenon
<1>6. CASE k # 1
  <2>1. k # 0 /\ k - 1 # 0
    BY <1>6
  <2>. QED
    BY <1>4, <1>6, <2>1, Zenon DEF Upto
<1>. QED
  BY <1>5, <1>6

\* All pieces are the text (FlattenSeq).
LEMMA UptoIsText ==
  ASSUME NEW W, NEW ps \in Seq(Seq(W))
  PROVE  /\ \A k \in 0 .. Len(ps) : Upto(ps, k) \in Seq(W)
         /\ FlattenSeq(ps) = Upto(ps, Len(ps))
         /\ Upto(ps, 0) = <<>>
<1>1. Len(ps) \in Nat
  BY LenProperties
<1>. DEFINE S == {k \in Nat : k <= Len(ps) => Upto(ps, k) \in Seq(W)}
<1>2. 0 \in S
  BY DEF Upto
<1>3. ASSUME NEW k \in S
      PROVE  k + 1 \in S
  <2>. SUFFICES ASSUME k + 1 <= Len(ps) PROVE Upto(ps, k + 1) \in Seq(W)
    OBVIOUS
  <2>1. k + 1 \in 1 .. Len(ps) /\ (k + 1) - 1 = k
    BY <1>1
  <2>2. Upto(ps, k + 1) = Upto(ps, k) \o ps[k + 1]
    BY <2>1, FlatIs
  <2>3. Upto(ps, k) \in Seq(W) /\ ps[k + 1] \in Seq(W)
    BY <2>1, <1>1
  <2>. QED
    BY <2>2, <2>3, ConcatProperties, Zenon
<1>. HIDE DEF S
<1>4. S = Nat
  BY <1>2, <1>3, SetInduction DEF S
<1>5. \A k \in 0 .. Len(ps) : Upto(ps, k) \in Seq(W)
  BY <1>1, <1>4 DEF S
<1>6. Upto(ps, 0) = <<>>
  BY DEF Upto
<1>7. FlattenSeq(ps) = IF Len(ps) = 0 THEN ps ELSE Flat(ps)[Len(ps)]
  BY Zenon DEF FlattenSeq, Flat
<1>8. Len(ps) = 0 => ps = <<>>
  OBVIOUS
<1>. QED
  BY <1>5, <1>6, <1>7, <1>8, Zenon DEF Upto

\* What stands at a place of the first k pieces stands there in all of them.
LEMMA UptoIsPrefix ==
  ASSUME NEW W, NEW ps \in Seq(Seq(W)), NEW k \in 0 .. Len(ps)
  PROVE  /\ Pos(ps, k) \in Nat /\ Pos(ps, k) <= Len(FlattenSeq(ps))
         /\ \A j \in 1 .. Pos(ps, k) : FlattenSeq(ps)[j] = Upto(ps, k)[j]
<1>1. Len(ps) \in Nat /\ k \in Nat
  BY LenProperties
<1>. DEFINE Same(n) == /\ Len(Upto(ps, k)) <= Len(Upto(ps, n))
                       /\ \A j \in 1 .. Len(Upto(ps, k)) : Upto(ps, n)[j] = Upto(ps, k)[j]
            S == {d \in Nat : k + d <= Len(ps) => Same(k + d)}
<1>2. \A n \in 0 .. Len(ps) : Upto(ps, n) \in Seq(W) /\ Len(Upto(ps, n)) \in Nat
  BY UptoIsText, LenProperties
<1>3. 0 \in S
  <2>1. k + 0 = k
    BY <1>1
  <2>2. Same(k)
    BY <1>2
  <2>. QED
    BY <2>1, <2>2
<1>4. ASSUME NEW d \in S
      PROVE  d + 1 \in S
  <2>. SUFFICES ASSUME k + (d + 1) <= Len(ps) PROVE Same(k + (d + 1))
    OBVIOUS
  <2>1. /\ k + (d + 1) \in 1 .. Len(ps) /\ (k + (d + 1)) - 1 = k + d /\ k + d \in 0 .. Len(ps)
        /\ k + d <= Len(ps)
    BY <1>1
  <2>2. Upto(ps, k + (d + 1)) = Upto(ps, k + d) \o ps[k + (d + 1)]
    BY <2>1, FlatIs
  <2>3. Same(k + d)
    BY <2>1
  <2>4. /\ Upto(ps, k + d) \in Seq(W) /\ Len(Upto(ps, k + d)) \in Nat
        /\ ps[k + (d + 1)] \in Seq(W)
    BY <2>1, <1>2, LenProperties
  <2>5. /\ Len(Upto(ps, k + (d + 1))) >= Len(Upto(ps, k + d))
        /\ \A j \in 1 .. Len(Upto(ps, k + d)) : Upto(ps, k + (d + 1))[j] = Upto(ps, k + d)[j]
    <3>1. /\ Len(Upto(ps, k + (d + 1))) = Len(Upto(ps, k + d)) + Len(ps[k + (d + 1)])
          /\ \A j \in 1 .. Len(Upto(ps, k + d)) : Upto(ps, k + (d + 1))[j] = Upto(ps, k + d)[j]
          /\ Len(ps[k + (d + 1)]) \in Nat
      <4>. DEFINE s == Upto(ps, k + d)
                  t == ps[k + (d + 1)]
      <4>1. s \in Seq(W) /\ t \in Seq(W)
        BY <2>4
      <4>2. Upto(ps, k + (d + 1)) = s \o t
        BY <2>2
      <4>. HIDE DEF s, t
      <4>3. /\ Len(s) \in Nat /\ Len(t) \in Nat /\ Len(s \o t) = Len(s) + Len(t)
            /\ \A j \in 1 .. Len(s) : (s \o t)[j] = s[j]
        BY <4>1, Joined
      <4>. QED
        BY <4>2, <4>3, Zenon DEF s, t
    <3>. DEFINE u == Upto(ps, k + (d + 1))
                s == Upto(ps, k + d)
    <3>2. Len(ps[k + (d + 1)]) \in Nat /\ Len(u) = Len(s) + Len(ps[k + (d + 1)]) /\ Len(s) \in Nat
      BY <2>4, <3>1, Zenon
    <3>3. Len(u) >= Len(s)
      <4>. HIDE DEF u, s
      <4>. QED
        BY <3>2
    <3>. QED
      BY <3>1, <3>3, Zenon
  <2>6. Len(Upto(ps, k)) \in Nat /\ Len(Upto(ps, k + (d + 1))) \in Nat
    BY <1>2, <2>1
  <2>. QED
    BY <2>3, <2>4, <2>5, <2>6
<1>5. S = Nat
  <2>. HIDE DEF S
  <2>. QED
    BY <1>3, <1>4, SetInduction DEF S
<1>6. Len(ps) - k \in Nat /\ k + (Len(ps) - k) = Len(ps)
  BY <1>1
<1>7. Same(Len(ps))
  <2>1. Len(ps) - k \in S
    BY <1>5, <1>6
  <2>2. Len(ps) <= Len(ps)
    BY <1>1
  <2>. QED
    BY <1>6, <2>1, <2>2, Zenon
<1>. QED
  BY <1>2, <1>7, UptoIsText DEF Pos

\* Each piece stands in the text where those before it end.
LEMMA PieceAt ==
  ASSUME NEW W, NEW ps \in Seq(Seq(W)), NEW k \in 1 .. Len(ps)
  PROVE  /\ Pos(ps, k - 1) \in Nat /\ Len(ps[k]) \in Nat
         /\ Pos(ps, k) = Pos(ps, k - 1) + Len(ps[k])
         /\ Pos(ps, k) <= Len(FlattenSeq(ps))
         /\ \A j \in 1 .. Len(ps[k]) : FlattenSeq(ps)[Pos(ps, k - 1) + j] = ps[k][j]
<1>1. k \in 0 .. Len(ps) /\ k - 1 \in 0 .. Len(ps) /\ ps[k] \in Seq(W) /\ Len(ps[k]) \in Nat
  BY LenProperties
<1>2. Upto(ps, k) = Upto(ps, k - 1) \o ps[k]
  BY FlatIs
<1>3. Upto(ps, k - 1) \in Seq(W) /\ Len(Upto(ps, k - 1)) \in Nat
  BY <1>1, UptoIsText, LenProperties
<1>4. /\ Len(Upto(ps, k)) = Len(Upto(ps, k - 1)) + Len(ps[k])
      /\ \A j \in 1 .. Len(ps[k]) : Upto(ps, k)[Len(Upto(ps, k - 1)) + j] = ps[k][j]
  <2>. DEFINE s == Upto(ps, k - 1)
              t == ps[k]
  <2>1. s \in Seq(W) /\ t \in Seq(W)
    BY <1>1, <1>3
  <2>2. Upto(ps, k) = s \o t
    BY <1>2
  <2>. HIDE DEF s, t
  <2>3. /\ Len(s) \in Nat /\ Len(t) \in Nat /\ Len(s \o t) = Len(s) + Len(t)
        /\ \A j \in 1 .. Len(t) : (s \o t)[Len(s) + j] = t[j]
    BY <2>1, Joined
  <2>. QED
    BY <2>2, <2>3, Zenon DEF s, t
<1>5. Pos(ps, k) <= Len(FlattenSeq(ps)) /\ \A j \in 1 .. Pos(ps, k) : FlattenSeq(ps)[j] = Upto(ps, k)[j]
  BY <1>1, UptoIsPrefix
<1>6. \A j \in 1 .. Len(ps[k]) : Len(Upto(ps, k - 1)) + j \in 1 .. Len(Upto(ps, k))
  BY <1>1, <1>3, <1>4
<1>. QED
  BY <1>1, <1>3, <1>4, <1>5, <1>6 DEF Pos

\* The text t stands in args behind place o, and so does each of its pieces.
Stands(args, o, t) == o + Len(t) <= Len(args) /\ \A j \in 1 .. Len(t) : args[o + j] = t[j]

LEMMA PieceStands ==
  ASSUME NEW W, NEW ps \in Seq(Seq(W)), NEW k \in 1 .. Len(ps), NEW args, NEW o \in Nat,
         Len(args) \in Nat, Stands(args, o, FlattenSeq(ps))
  PROVE  /\ o + Pos(ps, k - 1) \in Nat /\ Len(ps[k]) \in Nat
         /\ o + Pos(ps, k) = (o + Pos(ps, k - 1)) + Len(ps[k])
         /\ o + Pos(ps, k) <= Len(args)
         /\ \A j \in 1 .. Len(ps[k]) : args[(o + Pos(ps, k - 1)) + j] = ps[k][j]
<1>1. /\ Pos(ps, k - 1) \in Nat /\ Len(ps[k]) \in Nat
      /\ Pos(ps, k) = Pos(ps, k - 1) + Len(ps[k])
      /\ Pos(ps, k) <= Len(FlattenSeq(ps))
      /\ \A j \in 1 .. Len(ps[k]) : FlattenSeq(ps)[Pos(ps, k - 1) + j] = ps[k][j]
  BY PieceAt
<1>2. FlattenSeq(ps) \in Seq(W) /\ Len(FlattenSeq(ps)) \in Nat
  BY UptoIsText, LenProperties
<1>. DEFINE F == FlattenSeq(ps)
            q == Pos(ps, k - 1)
            e == Pos(ps, k)
            p == ps[k]
<1>3. /\ q \in Nat /\ Len(p) \in Nat /\ e = q + Len(p) /\ e <= Len(F) /\ Len(F) \in Nat
      /\ \A j \in 1 .. Len(p) : F[q + j] = p[j]
      /\ o + Len(F) <= Len(args) /\ \A j \in 1 .. Len(F) : args[o + j] = F[j]
  BY <1>1, <1>2 DEF Stands
<1>. HIDE DEF F, q, e, p
<1>4. \A j \in 1 .. Len(p) : q + j \in 1 .. Len(F) /\ (o + q) + j = o + (q + j)
  BY <1>3
<1>5. \A j \in 1 .. Len(p) : args[(o + q) + j] = p[j]
  BY <1>3, <1>4
<1>6. o + q \in Nat /\ Len(p) \in Nat /\ o + e = (o + q) + Len(p) /\ o + e <= Len(args)
  BY <1>3
<1>. QED
  BY <1>5, <1>6 DEF q, e, p

-----------------------------------------------------------------------------
(* The parsers, one word at a time.                                        *)

Acc(set, want, mode, words) == [set |-> set, want |-> want, mode |-> mode, words |-> words]

\* The state of a parser, and what its operators make of it.
LEMMA AccFields ==
  ASSUME NEW set, NEW want, NEW mode, NEW words
  PROVE  /\ Acc(set, want, mode, words).set = set
         /\ Acc(set, want, mode, words).want = want
         /\ Acc(set, want, mode, words).mode = mode
         /\ Acc(set, want, mode, words).words = words
BY DEF Acc

With(set, n, v) == [set EXCEPT ![n] = v]

LEMMA Starts == \A set : Start(set) = Acc(set, None, "flags", <<>>)
BY DEF Start, Acc

LEMMA Awaits == \A set, want, mode, words, n : Await(Acc(set, want, mode, words), n) =
        Acc(set, n, mode, words)
BY DEF Await, Acc

LEMMA Enters == \A set, want, mode, words, m : Enter(Acc(set, want, mode, words), m) =
        Acc(set, want, m, words)
BY DEF Enter, Acc

LEMMA Takes ==
  \A set, want, mode, words, a : Take(Acc(set, want, mode, words), a) =
    Acc(set, want, mode, Append(words, a))
BY DEF Take, Acc

LEMMA Puts ==
  \A set, want, mode, words, n, v : Put(Acc(set, want, mode, words), n, v) =
    Acc(With(set, n, v), want, mode, words)
BY DEF Put, Acc, With

LEMMA Sets ==
  ASSUME NEW set, NEW want, NEW mode, NEW words, NEW n, NEW v, Suits(n, v)
  PROVE  SetFlag(Acc(set, want, mode, words), n, v) = Acc(With(set, n, v), None, mode, words)
<1>1. Await(Put(Acc(set, want, mode, words), n, v), None) = Acc(With(set, n, v), None, mode, words)
  BY Awaits, Puts
<1>2. SetFlag(Acc(set, want, mode, words), n, v) = Await(Put(Acc(set, want, mode, words), n, v), None)
  BY Zenon DEF SetFlag
<1>. QED
  BY <1>1, <1>2, Zenon

LEMMA Ends == \A set, mode, words : Ended(Acc(set, None, mode, words)) = Acc(set, None, mode, words)
BY AccFields DEF Ended

\* No setting has the name of a word with a meaning of its own.
LEMMA NamesAreNames ==
  \A n \in Names : n # None /\ n # "" /\ n # "help" /\ n # "h"
BY DEF Names, None

\* Flags, dashes, words for help and other words are told apart by their dashes and
\* their names.
LEMMA FlagIs ==
  ASSUME NEW n
  PROVE  /\ Flag(n).dashes = 2 /\ Flag(n).name = n /\ Flag(n).value = <<>>
         /\ \A v : FlagWith(n, v).dashes = 2 /\ FlagWith(n, v).name = n /\ FlagWith(n, v).value = <<v>>
BY DEF Flag, FlagWith, Dashed

LEMMA DashDashDashes == DashDash.dashes = 2
<1>1. \A n : Flag(n).dashes = 2
  BY FlagIs
<1>. QED
  BY <1>1, Zenon DEF DashDash

LEMMA DashDashName == DashDash.name = ""
<1>1. \A n : Flag(n).name = n
  BY FlagIs
<1>. QED
  BY <1>1, Zenon DEF DashDash

LEMMA HelpIs == \A x \in HelpWords : x.dashes # 0 /\ (x.dashes = 2 => x.name = "help")
BY DEF HelpWords, Flag, Dashed

LEMMA WordIs ==
  ASSUME NEW n
  PROVE  Word(n).dashes = 0 /\ Word(n).name = n
BY DEF Word, Dashed

\* A word without dashes is no flag, and a flag is no request for help.
LEMMA WordIsNoFlag ==
  ASSUME NEW a, a.dashes = 0
  PROVE  a # DashDash /\ a.dashes # 2 /\ a \notin HelpWords
<1>1. DashDash.dashes # 0 /\ a.dashes # 2
  BY DashDashDashes
<1>. QED
  BY <1>1, HelpIs, Zenon

LEMMA FlagIsNoHelp ==
  ASSUME NEW n \in Names, NEW a, a.dashes = 2, a.name = n
  PROVE  a \notin HelpWords /\ a # DashDash /\ a.dashes # 0
<1>1. n # "" /\ n # "help"
  BY NamesAreNames, Zenon
<1>2. \A x \in HelpWords : x.dashes = 2 => x.name = "help"
  BY HelpIs, Zenon
<1>3. a.dashes # 0
  OBVIOUS
<1>. QED
  BY <1>1, <1>2, <1>3, DashDashName, Zenon

\* Where it knows no flags, it keeps every word but the first two dashes.
Unknowing(names, unknown) == (\A n : n \notin names) /\ unknown = "kept"
Going == {"flags", "words"}

LEMMA ParseKeeps ==
  ASSUME NEW names, NEW unknown, Unknowing(names, unknown)
  PROVE  \A mode \in Going : \A set, words, a : a # DashDash =>
           ParseWord(Acc(set, None, mode, words), a, names, unknown) =
             Acc(set, None, mode, Append(words, a))
<1>. SUFFICES ASSUME NEW mode \in Going, NEW set, NEW words, NEW a, a # DashDash
              PROVE  ParseWord(Acc(set, None, mode, words), a, names, unknown) =
                       Acc(set, None, mode, Append(words, a))
  OBVIOUS
<1>. DEFINE acc == Acc(set, None, mode, words)
<1>1. acc.mode # "bad" /\ acc.want = None
  <2>1. mode # "bad"
    BY DEF Going
  <2>2. acc.mode = mode /\ acc.want = None
    BY AccFields
  <2>. QED
    BY <2>1, <2>2, Zenon
<1>. HIDE DEF acc
<1>2. ParseWord(acc, a, names, unknown) = Take(acc, a)
  BY <1>1, Zenon DEF ParseWord, Unknowing
<1>3. Take(acc, a) = Acc(set, None, mode, Append(words, a))
  BY Takes DEF acc
<1>. QED
  BY <1>2, <1>3, Zenon DEF acc

LEMMA ParseDrops ==
  ASSUME NEW set, NEW words, NEW names, NEW unknown
  PROVE  ParseWord(Acc(set, None, "flags", words), DashDash, names, unknown) =
           Acc(set, None, "words", words)
<1>. DEFINE acc == Acc(set, None, "flags", words)
<1>1. acc.mode # "bad" /\ acc.want = None /\ acc.mode = "flags"
  BY AccFields
<1>. HIDE DEF acc
<1>2. ParseWord(acc, DashDash, names, unknown) = Enter(acc, "words")
  BY <1>1, Zenon DEF ParseWord
<1>. QED
  BY <1>2, Takes, Enters DEF acc

LEMMA ParseTakesWord ==
  ASSUME NEW set, NEW words, NEW names, NEW unknown, NEW a, a.dashes = 0
  PROVE  ParseWord(Acc(set, None, "flags", words), a, names, unknown) =
           Acc(set, None, "flags", Append(words, a))
<1>. DEFINE acc == Acc(set, None, "flags", words)
<1>1. acc.mode # "bad" /\ acc.want = None
  BY AccFields
<1>2. a # DashDash /\ a.dashes # 2
  BY WordIsNoFlag
<1>. HIDE DEF acc
<1>3. ParseWord(acc, a, names, unknown) = Take(acc, a)
  BY <1>1, <1>2, Zenon DEF ParseWord
<1>. QED
  BY <1>3, Takes, Enters DEF acc

\* A flag that it knows, in each of its spellings.
ParseKnows(names, unknown, n) ==
  \A set, words :
    /\ n \in Bools /\ Suits(n, Word("true")) =>
         ParseWord(Acc(set, None, "flags", words), Flag(n), names, unknown) =
           Acc(With(set, n, Word("true")), None, "flags", words)
    /\ n \notin Bools => ParseWord(Acc(set, None, "flags", words), Flag(n), names, unknown) =
         Acc(set, n, "flags", words)
    /\ \A v : Suits(n, v) =>
         /\ ParseWord(Acc(set, None, "flags", words), FlagWith(n, v), names, unknown) =
              Acc(With(set, n, v), None, "flags", words)
         /\ ParseWord(Acc(set, n, "flags", words), v, names, unknown) =
              Acc(With(set, n, v), None, "flags", words)

LEMMA ParseTakesFlag ==
  ASSUME NEW names, NEW unknown, NEW n \in names, n \in Names
  PROVE  ParseKnows(names, unknown, n)
<1>. SUFFICES ASSUME NEW set, NEW words
              PROVE  /\ n \in Bools /\ Suits(n, Word("true")) =>
                          ParseWord(Acc(set, None, "flags", words), Flag(n), names, unknown) =
                            Acc(With(set, n, Word("true")), None, "flags", words)
                     /\ n \notin Bools => ParseWord(Acc(set, None, "flags", words), Flag(n), names,
                          unknown) = Acc(set, n, "flags", words)
                     /\ \A v : Suits(n, v) =>
                          /\ ParseWord(Acc(set, None, "flags", words), FlagWith(n, v), names, unknown) =
                               Acc(With(set, n, v), None, "flags", words)
                          /\ ParseWord(Acc(set, n, "flags", words), v, names, unknown) =
                               Acc(With(set, n, v), None, "flags", words)
  BY Zenon DEF ParseKnows
<1>1. /\ Flag(n).dashes = 2 /\ Flag(n).name = n /\ Flag(n).value = <<>>
      /\ \A v : FlagWith(n, v).dashes = 2 /\ FlagWith(n, v).name = n /\ FlagWith(n, v).value = <<v>>
  BY FlagIs, Zenon
<1>2. \A v : <<v>> # <<>> /\ <<v>>[1] = v
  OBVIOUS
<1>3. n # None
  BY NamesAreNames, Zenon
<1>. DEFINE acc == Acc(set, None, "flags", words)
            due == Acc(set, n, "flags", words)
<1>4. acc.mode = "flags" /\ acc.want = None /\ due.mode = "flags" /\ due.want = n
      /\ "flags" # "bad" /\ "flags" # "words"
  BY AccFields
<1>5. /\ \A v : Suits(n, v) => SetFlag(acc, n, v) = Acc(With(set, n, v), None, "flags", words)
      /\ \A v : Suits(n, v) => SetFlag(due, n, v) = Acc(With(set, n, v), None, "flags", words)
      /\ Await(acc, n) = due
  BY Awaits, Sets
<1>. HIDE DEF acc, due
<1>6. \A a : a.dashes = 2 /\ a.name = n =>
        ParseWord(acc, a, names, unknown) =
          IF a.value # <<>> THEN SetFlag(acc, n, a.value[1])
          ELSE IF n \in Bools THEN SetFlag(acc, n, Word("true"))
          ELSE Await(acc, n)
  <2>. SUFFICES ASSUME NEW a, a.dashes = 2, a.name = n
                PROVE  ParseWord(acc, a, names, unknown) =
                         IF a.value # <<>> THEN SetFlag(acc, n, a.value[1])
                         ELSE IF n \in Bools THEN SetFlag(acc, n, Word("true"))
                         ELSE Await(acc, n)
    BY Zenon
  <2>1. a \notin HelpWords /\ a # DashDash /\ a.dashes # 0
    BY FlagIsNoHelp, Zenon
  <2>. QED
    BY <1>4, <2>1, Zenon DEF ParseWord
<1>7. \A v : ParseWord(due, v, names, unknown) = SetFlag(due, n, v)
  BY <1>3, <1>4, Zenon DEF ParseWord
<1>8. ASSUME n \in Bools, Suits(n, Word("true"))
      PROVE  ParseWord(acc, Flag(n), names, unknown) = Acc(With(set, n, Word("true")), None, "flags", words)
  BY <1>1, <1>5, <1>6, <1>8, Zenon
<1>9. ASSUME n \notin Bools
      PROVE  ParseWord(acc, Flag(n), names, unknown) = due
  BY <1>1, <1>5, <1>6, <1>9, Zenon
<1>10. ASSUME NEW v, Suits(n, v)
       PROVE  /\ ParseWord(acc, FlagWith(n, v), names, unknown) = Acc(With(set, n, v), None, "flags", words)
              /\ ParseWord(due, v, names, unknown) = Acc(With(set, n, v), None, "flags", words)
  <2>1. /\ FlagWith(n, v).dashes = 2 /\ FlagWith(n, v).name = n
        /\ FlagWith(n, v).value # <<>> /\ FlagWith(n, v).value[1] = v
    BY <1>1, <1>2, Zenon
  <2>2. ParseWord(acc, FlagWith(n, v), names, unknown) = SetFlag(acc, n, v)
    BY <1>6, <2>1, Zenon
  <2>. QED
    BY <1>5, <1>7, <1>10, <2>2, Zenon
<1>. QED
  BY <1>8, <1>9, <1>10, Zenon DEF acc, due

\* The flag package takes the same flags in the same way.
FlagKnows(names, n) ==
  \A set, words :
    /\ n \in Bools /\ Suits(n, Word("true")) =>
         FlagWord(Acc(set, None, "flags", words), Flag(n), names) =
           Acc(With(set, n, Word("true")), None, "flags", words)
    /\ n \notin Bools => FlagWord(Acc(set, None, "flags", words), Flag(n), names) =
         Acc(set, n, "flags", words)
    /\ \A v : Suits(n, v) =>
         /\ FlagWord(Acc(set, None, "flags", words), FlagWith(n, v), names) =
              Acc(With(set, n, v), None, "flags", words)
         /\ FlagWord(Acc(set, n, "flags", words), v, names) = Acc(With(set, n, v), None, "flags", words)

LEMMA FlagTakesFlag ==
  ASSUME NEW names, NEW n \in names, n \in Names
  PROVE  FlagKnows(names, n)
<1>. SUFFICES ASSUME NEW set, NEW words
              PROVE  /\ n \in Bools /\ Suits(n, Word("true")) =>
                          FlagWord(Acc(set, None, "flags", words), Flag(n), names) =
                            Acc(With(set, n, Word("true")), None, "flags", words)
                     /\ n \notin Bools => FlagWord(Acc(set, None, "flags", words), Flag(n), names) =
                          Acc(set, n, "flags", words)
                     /\ \A v : Suits(n, v) =>
                          /\ FlagWord(Acc(set, None, "flags", words), FlagWith(n, v), names) =
                               Acc(With(set, n, v), None, "flags", words)
                          /\ FlagWord(Acc(set, n, "flags", words), v, names) =
                               Acc(With(set, n, v), None, "flags", words)
  BY Zenon DEF FlagKnows
<1>1. /\ Flag(n).dashes = 2 /\ Flag(n).name = n /\ Flag(n).value = <<>>
      /\ \A v : FlagWith(n, v).dashes = 2 /\ FlagWith(n, v).name = n /\ FlagWith(n, v).value = <<v>>
  BY FlagIs, Zenon
<1>2. \A v : <<v>> # <<>> /\ <<v>>[1] = v
  OBVIOUS
<1>3. n # None
  BY NamesAreNames, Zenon
<1>. DEFINE acc == Acc(set, None, "flags", words)
            due == Acc(set, n, "flags", words)
<1>4. acc.mode = "flags" /\ acc.want = None /\ due.mode = "flags" /\ due.want = n
      /\ "flags" # "bad" /\ "flags" # "words"
  BY AccFields
<1>5. /\ \A v : Suits(n, v) => SetFlag(acc, n, v) = Acc(With(set, n, v), None, "flags", words)
      /\ \A v : Suits(n, v) => SetFlag(due, n, v) = Acc(With(set, n, v), None, "flags", words)
      /\ Await(acc, n) = due
  BY Awaits, Sets
<1>. HIDE DEF acc, due
<1>6. \A a : a.dashes = 2 /\ a.name = n =>
        FlagWord(acc, a, names) =
          IF a.value # <<>> THEN SetFlag(acc, n, a.value[1])
          ELSE IF n \in Bools THEN SetFlag(acc, n, Word("true"))
          ELSE Await(acc, n)
  <2>. SUFFICES ASSUME NEW a, a.dashes = 2, a.name = n
                PROVE  FlagWord(acc, a, names) =
                         IF a.value # <<>> THEN SetFlag(acc, n, a.value[1])
                         ELSE IF n \in Bools THEN SetFlag(acc, n, Word("true"))
                         ELSE Await(acc, n)
    BY Zenon
  <2>1. a \notin HelpWords /\ a # DashDash /\ a.dashes # 0
    BY FlagIsNoHelp, Zenon
  <2>. QED
    BY <1>4, <2>1, Zenon DEF FlagWord
<1>7. \A v : FlagWord(due, v, names) = SetFlag(due, n, v)
  BY <1>3, <1>4, Zenon DEF FlagWord
<1>8. ASSUME n \in Bools, Suits(n, Word("true"))
      PROVE  FlagWord(acc, Flag(n), names) = Acc(With(set, n, Word("true")), None, "flags", words)
  BY <1>1, <1>5, <1>6, <1>8, Zenon
<1>9. ASSUME n \notin Bools
      PROVE  FlagWord(acc, Flag(n), names) = due
  BY <1>1, <1>5, <1>6, <1>9, Zenon
<1>10. ASSUME NEW v, Suits(n, v)
       PROVE  /\ FlagWord(acc, FlagWith(n, v), names) = Acc(With(set, n, v), None, "flags", words)
              /\ FlagWord(due, v, names) = Acc(With(set, n, v), None, "flags", words)
  <2>1. /\ FlagWith(n, v).dashes = 2 /\ FlagWith(n, v).name = n
        /\ FlagWith(n, v).value # <<>> /\ FlagWith(n, v).value[1] = v
    BY <1>1, <1>2, Zenon
  <2>2. FlagWord(acc, FlagWith(n, v), names) = SetFlag(acc, n, v)
    BY <1>6, <2>1, Zenon
  <2>. QED
    BY <1>5, <1>7, <1>10, <2>2, Zenon
<1>. QED
  BY <1>8, <1>9, <1>10, Zenon DEF acc, due

LEMMA FlagTakesWord ==
  ASSUME NEW set, NEW mode \in Going, NEW words, NEW names, NEW a, a.dashes = 0
  PROVE  FlagWord(Acc(set, None, mode, words), a, names) = Acc(set, None, "words", Append(words, a))
<1>. DEFINE acc == Acc(set, None, mode, words)
<1>1. acc.mode # "bad" /\ acc.want = None
  <2>1. mode # "bad"
    BY DEF Going
  <2>2. acc.mode = mode /\ acc.want = None
    BY AccFields
  <2>. QED
    BY <2>1, <2>2, Zenon
<1>. HIDE DEF acc
<1>2. FlagWord(acc, a, names) = Take(Enter(acc, "words"), a)
  BY <1>1, Zenon DEF FlagWord
<1>. QED
  BY <1>2, Takes, Enters DEF acc

\* normalizeFlagArgs keeps flags and their values together.
Sorted(flags, words, next) == [flags |-> flags, words |-> words, next |-> next]

LEMMA SortedIs ==
  /\ Unsorted = Sorted(<<>>, <<>>, "word")
  /\ \A flags, words, next : /\ Sorted(flags, words, next).flags = flags
                             /\ Sorted(flags, words, next).words = words
                             /\ Sorted(flags, words, next).next = next
BY DEF Unsorted, Sorted

LEMMA SortedTakes ==
  \A flags, words, next, a : Take(Sorted(flags, words, next), a) = Sorted(flags, Append(words, a), next)
BY DEF Sorted, Take

LEMMA SortedFronts ==
  ASSUME NEW flags, NEW words, NEW next, NEW a, NEW b
  PROVE  InFront(Sorted(flags, words, next), a, b) = Sorted(Append(flags, a), words, b)
<1>1. [Sorted(flags, words, next) EXCEPT !.flags = Append(@, a)] = Sorted(Append(flags, a), words, next)
  BY DEF Sorted
<1>2. [Sorted(Append(flags, a), words, next) EXCEPT !.next = b] = Sorted(Append(flags, a), words, b)
  BY DEF Sorted
<1>3. \A r : [r EXCEPT !.flags = Append(@, a), !.next = b] =
        [[r EXCEPT !.flags = Append(@, a)] EXCEPT !.next = b]
  OBVIOUS
<1>4. InFront(Sorted(flags, words, next), a, b) =
        [[Sorted(flags, words, next) EXCEPT !.flags = Append(@, a)] EXCEPT !.next = b]
  BY <1>3, Zenon DEF InFront
<1>. QED
  BY <1>1, <1>2, <1>4, Zenon

SortKnows(flags, words, valueFlags) ==
  /\ \A a : a.dashes = 0 =>
       SortWord(Sorted(flags, words, "word"), a, valueFlags) = Sorted(flags, Append(words, a), "word")
  /\ \A n : n \notin valueFlags =>
       SortWord(Sorted(flags, words, "word"), Flag(n), valueFlags) =
         Sorted(Append(flags, Flag(n)), words, "word")
  /\ \A n : n \in valueFlags =>
       SortWord(Sorted(flags, words, "word"), Flag(n), valueFlags) =
         Sorted(Append(flags, Flag(n)), words, "value")
  /\ \A v : SortWord(Sorted(flags, words, "value"), v, valueFlags) = Sorted(Append(flags, v), words, "word")

LEMMA SortTakes ==
  ASSUME NEW flags, NEW words, NEW valueFlags
  PROVE  SortKnows(flags, words, valueFlags)
<1>1. /\ \A n : Flag(n).dashes = 2 /\ Flag(n).name = n /\ Flag(n).value = <<>> /\ Flag(n).dashes # 0
      /\ "word" # "value"
  BY FlagIs
<1>. DEFINE acc == Sorted(flags, words, "word")
            due == Sorted(flags, words, "value")
<1>2. acc.next = "word" /\ due.next = "value"
  BY SortedIs, SortedTakes, SortedFronts
<1>3. /\ \A a : Take(acc, a) = Sorted(flags, Append(words, a), "word")
      /\ \A a, b : InFront(acc, a, b) = Sorted(Append(flags, a), words, b)
      /\ \A a, b : InFront(due, a, b) = Sorted(Append(flags, a), words, b)
  BY SortedIs, SortedTakes, SortedFronts
<1>. HIDE DEF acc, due
<1>4. \A a : a.dashes = 0 => SortWord(acc, a, valueFlags) = Sorted(flags, Append(words, a), "word")
  BY <1>1, <1>2, <1>3, Zenon DEF SortWord
<1>5. \A n : n \notin valueFlags => SortWord(acc, Flag(n), valueFlags) =
        Sorted(Append(flags, Flag(n)), words, "word")
  <2>1. \A n : SortWord(acc, Flag(n), valueFlags) =
          InFront(acc, Flag(n), IF n \in valueFlags THEN "value" ELSE "word")
    BY <1>1, <1>2, Zenon DEF SortWord
  <2>. QED
    BY <1>3, <2>1, Zenon
<1>6. \A n : n \in valueFlags => SortWord(acc, Flag(n), valueFlags) =
        Sorted(Append(flags, Flag(n)), words, "value")
  <2>1. \A n : SortWord(acc, Flag(n), valueFlags) =
          InFront(acc, Flag(n), IF n \in valueFlags THEN "value" ELSE "word")
    BY <1>1, <1>2, Zenon DEF SortWord
  <2>. QED
    BY <1>3, <2>1, Zenon
<1>7. \A v : SortWord(due, v, valueFlags) = Sorted(Append(flags, v), words, "word")
  BY <1>2, <1>3, Zenon DEF SortWord
<1>. QED
  BY <1>4, <1>5, <1>6, <1>7, Zenon DEF SortKnows, acc, due

-----------------------------------------------------------------------------
(* The parsers, one piece at a time.                                       *)

\* What a piece does to the first parser.
Parses(f, o, ps, names, unknown) ==
  \A k \in 1 .. Len(ps) :
    /\ Len(ps[k]) = 0 => f[o + Pos(ps, k)] = f[o + Pos(ps, k - 1)]
    /\ Len(ps[k]) = 1 => f[o + Pos(ps, k)] = ParseWord(f[o + Pos(ps, k - 1)], ps[k][1], names, unknown)
    /\ Len(ps[k]) = 2 =>
         f[o + Pos(ps, k)] = ParseWord(ParseWord(f[o + Pos(ps, k - 1)], ps[k][1], names, unknown),
           ps[k][2], names, unknown)

\* The first parser reads a piece that stands in its line.
LEMMA ParsingSteps ==
  ASSUME NEW W, NEW ps \in Seq(Seq(W)), NEW args, NEW set, NEW names, NEW unknown, NEW o \in Nat,
         Len(args) \in Nat, Stands(args, o, FlattenSeq(ps))
  PROVE  Parses(Parsing(args, set, names, unknown), o, ps, names, unknown)
<1>. DEFINE L == Parsing(args, set, names, unknown)
<1>1. \A i \in 1 .. Len(args) : L[i] = ParseWord(L[i - 1], args[i], names, unknown)
  BY ParsingIs
<1>. SUFFICES ASSUME NEW k \in 1 .. Len(ps)
              PROVE  /\ Len(ps[k]) = 0 => L[o + Pos(ps, k)] = L[o + Pos(ps, k - 1)]
                     /\ Len(ps[k]) = 1 => L[o + Pos(ps, k)] =
                          ParseWord(L[o + Pos(ps, k - 1)], ps[k][1], names, unknown)
                     /\ Len(ps[k]) = 2 =>
                          L[o + Pos(ps, k)] = ParseWord(ParseWord(L[o + Pos(ps, k - 1)], ps[k][1], names,
                            unknown), ps[k][2], names, unknown)
  BY Zenon DEF Parses
<1>. DEFINE p == o + Pos(ps, k - 1)
            q == o + Pos(ps, k)
<1>2. /\ p \in Nat /\ Len(ps[k]) \in Nat /\ q = p + Len(ps[k]) /\ q <= Len(args)
      /\ \A j \in 1 .. Len(ps[k]) : args[p + j] = ps[k][j]
  BY PieceStands
<1>. HIDE DEF L, p, q
<1>3. ASSUME Len(ps[k]) = 0
      PROVE  L[q] = L[p]
  <2>1. q = p
    BY <1>2, <1>3
  <2>. QED
    BY <2>1, Zenon
<1>4. ASSUME Len(ps[k]) = 1
      PROVE  L[q] = ParseWord(L[p], ps[k][1], names, unknown)
  <2>1. q = p + 1 /\ q \in 1 .. Len(args) /\ q - 1 = p /\ 1 \in 1 .. Len(ps[k])
    BY <1>2, <1>4
  <2>2. args[q] = ps[k][1]
    BY <1>2, <2>1, Zenon
  <2>. QED
    BY <1>1, <2>1, <2>2, Zenon
<1>5. ASSUME Len(ps[k]) = 2
      PROVE  L[q] = ParseWord(ParseWord(L[p], ps[k][1], names, unknown), ps[k][2], names, unknown)
  <2>1. /\ p + 1 \in 1 .. Len(args) /\ (p + 1) - 1 = p
        /\ q = p + 2 /\ q \in 1 .. Len(args) /\ q - 1 = p + 1
        /\ 1 \in 1 .. Len(ps[k]) /\ 2 \in 1 .. Len(ps[k])
    BY <1>2, <1>5
  <2>2. args[p + 1] = ps[k][1] /\ args[q] = ps[k][2]
    BY <1>2, <2>1, Zenon
  <2>3. L[p + 1] = ParseWord(L[p], ps[k][1], names, unknown)
    BY <1>1, <2>1, <2>2, Zenon
  <2>. QED
    BY <1>1, <2>1, <2>2, <2>3, Zenon
<1>. QED
  BY <1>3, <1>4, <1>5, Zenon DEF p, q

\* To normalizeFlagArgs.
Sorts(f, o, ps, valueFlags) ==
  \A k \in 1 .. Len(ps) :
    /\ Len(ps[k]) = 0 => f[o + Pos(ps, k)] = f[o + Pos(ps, k - 1)]
    /\ Len(ps[k]) = 1 => f[o + Pos(ps, k)] = SortWord(f[o + Pos(ps, k - 1)], ps[k][1], valueFlags)
    /\ Len(ps[k]) = 2 =>
         f[o + Pos(ps, k)] = SortWord(SortWord(f[o + Pos(ps, k - 1)], ps[k][1], valueFlags), ps[k][2],
           valueFlags)

\* normalizeFlagArgs reads it.
LEMMA SortingSteps ==
  ASSUME NEW W, NEW ps \in Seq(Seq(W)), NEW args, NEW valueFlags, NEW o \in Nat,
         Len(args) \in Nat, Stands(args, o, FlattenSeq(ps))
  PROVE  Sorts(Sorting(args, valueFlags), o, ps, valueFlags)
<1>. DEFINE L == Sorting(args, valueFlags)
<1>1. \A i \in 1 .. Len(args) : L[i] = SortWord(L[i - 1], args[i], valueFlags)
  BY SortingIs
<1>. SUFFICES ASSUME NEW k \in 1 .. Len(ps)
              PROVE  /\ Len(ps[k]) = 0 => L[o + Pos(ps, k)] = L[o + Pos(ps, k - 1)]
                     /\ Len(ps[k]) = 1 => L[o + Pos(ps, k)] =
                          SortWord(L[o + Pos(ps, k - 1)], ps[k][1], valueFlags)
                     /\ Len(ps[k]) = 2 =>
                          L[o + Pos(ps, k)] = SortWord(SortWord(L[o + Pos(ps, k - 1)], ps[k][1],
                            valueFlags), ps[k][2], valueFlags)
  BY Zenon DEF Sorts
<1>. DEFINE p == o + Pos(ps, k - 1)
            q == o + Pos(ps, k)
<1>2. /\ p \in Nat /\ Len(ps[k]) \in Nat /\ q = p + Len(ps[k]) /\ q <= Len(args)
      /\ \A j \in 1 .. Len(ps[k]) : args[p + j] = ps[k][j]
  BY PieceStands
<1>. HIDE DEF L, p, q
<1>3. ASSUME Len(ps[k]) = 0
      PROVE  L[q] = L[p]
  <2>1. q = p
    BY <1>2, <1>3
  <2>. QED
    BY <2>1, Zenon
<1>4. ASSUME Len(ps[k]) = 1
      PROVE  L[q] = SortWord(L[p], ps[k][1], valueFlags)
  <2>1. q = p + 1 /\ q \in 1 .. Len(args) /\ q - 1 = p /\ 1 \in 1 .. Len(ps[k])
    BY <1>2, <1>4
  <2>2. args[q] = ps[k][1]
    BY <1>2, <2>1, Zenon
  <2>. QED
    BY <1>1, <2>1, <2>2, Zenon
<1>5. ASSUME Len(ps[k]) = 2
      PROVE  L[q] = SortWord(SortWord(L[p], ps[k][1], valueFlags), ps[k][2], valueFlags)
  <2>1. /\ p + 1 \in 1 .. Len(args) /\ (p + 1) - 1 = p
        /\ q = p + 2 /\ q \in 1 .. Len(args) /\ q - 1 = p + 1
        /\ 1 \in 1 .. Len(ps[k]) /\ 2 \in 1 .. Len(ps[k])
    BY <1>2, <1>5
  <2>2. args[p + 1] = ps[k][1] /\ args[q] = ps[k][2]
    BY <1>2, <2>1, Zenon
  <2>3. L[p + 1] = SortWord(L[p], ps[k][1], valueFlags)
    BY <1>1, <2>1, <2>2, Zenon
  <2>. QED
    BY <1>1, <2>1, <2>2, <2>3, Zenon
<1>. QED
  BY <1>3, <1>4, <1>5, Zenon DEF p, q

\* To the flag package.
Flags(f, o, ps, names) ==
  \A k \in 1 .. Len(ps) :
    /\ Len(ps[k]) = 0 => f[o + Pos(ps, k)] = f[o + Pos(ps, k - 1)]
    /\ Len(ps[k]) = 1 => f[o + Pos(ps, k)] = FlagWord(f[o + Pos(ps, k - 1)], ps[k][1], names)
    /\ Len(ps[k]) = 2 =>
         f[o + Pos(ps, k)] = FlagWord(FlagWord(f[o + Pos(ps, k - 1)], ps[k][1], names), ps[k][2], names)

\* The flag package reads it.
LEMMA FlaggingSteps ==
  ASSUME NEW W, NEW ps \in Seq(Seq(W)), NEW args, NEW set, NEW names, NEW o \in Nat,
         Len(args) \in Nat, Stands(args, o, FlattenSeq(ps))
  PROVE  Flags(Flagging(args, set, names), o, ps, names)
<1>. DEFINE L == Flagging(args, set, names)
<1>1. \A i \in 1 .. Len(args) : L[i] = FlagWord(L[i - 1], args[i], names)
  BY FlaggingIs
<1>. SUFFICES ASSUME NEW k \in 1 .. Len(ps)
              PROVE  /\ Len(ps[k]) = 0 => L[o + Pos(ps, k)] = L[o + Pos(ps, k - 1)]
                     /\ Len(ps[k]) = 1 => L[o + Pos(ps, k)] =
                          FlagWord(L[o + Pos(ps, k - 1)], ps[k][1], names)
                     /\ Len(ps[k]) = 2 =>
                          L[o + Pos(ps, k)] = FlagWord(FlagWord(L[o + Pos(ps, k - 1)], ps[k][1], names),
                            ps[k][2], names)
  BY Zenon DEF Flags
<1>. DEFINE p == o + Pos(ps, k - 1)
            q == o + Pos(ps, k)
<1>2. /\ p \in Nat /\ Len(ps[k]) \in Nat /\ q = p + Len(ps[k]) /\ q <= Len(args)
      /\ \A j \in 1 .. Len(ps[k]) : args[p + j] = ps[k][j]
  BY PieceStands
<1>. HIDE DEF L, p, q
<1>3. ASSUME Len(ps[k]) = 0
      PROVE  L[q] = L[p]
  <2>1. q = p
    BY <1>2, <1>3
  <2>. QED
    BY <2>1, Zenon
<1>4. ASSUME Len(ps[k]) = 1
      PROVE  L[q] = FlagWord(L[p], ps[k][1], names)
  <2>1. q = p + 1 /\ q \in 1 .. Len(args) /\ q - 1 = p /\ 1 \in 1 .. Len(ps[k])
    BY <1>2, <1>4
  <2>2. args[q] = ps[k][1]
    BY <1>2, <2>1, Zenon
  <2>. QED
    BY <1>1, <2>1, <2>2, Zenon
<1>5. ASSUME Len(ps[k]) = 2
      PROVE  L[q] = FlagWord(FlagWord(L[p], ps[k][1], names), ps[k][2], names)
  <2>1. /\ p + 1 \in 1 .. Len(args) /\ (p + 1) - 1 = p
        /\ q = p + 2 /\ q \in 1 .. Len(args) /\ q - 1 = p + 1
        /\ 1 \in 1 .. Len(ps[k]) /\ 2 \in 1 .. Len(ps[k])
    BY <1>2, <1>5
  <2>2. args[p + 1] = ps[k][1] /\ args[q] = ps[k][2]
    BY <1>2, <2>1, Zenon
  <2>3. L[p + 1] = FlagWord(L[p], ps[k][1], names)
    BY <1>1, <2>1, <2>2, Zenon
  <2>. QED
    BY <1>1, <2>1, <2>2, <2>3, Zenon
<1>. QED
  BY <1>3, <1>4, <1>5, Zenon DEF p, q

\* Putting texts together.
LEMMA Joins ==
  ASSUME NEW W, NEW w \in Seq(W), NEW u \in Seq(W), NEW p \in Seq(W)
  PROVE  w \o (u \o p) = (w \o u) \o p /\ w \o u \in Seq(W)
OBVIOUS

LEMMA JoinsShort ==
  ASSUME NEW W, NEW x \in Seq(W), NEW p \in Seq(W)
  PROVE  /\ Len(p) = 0 => x \o p = x
         /\ Len(p) = 1 => x \o p = Append(x, p[1])
         /\ Len(p) = 2 => x \o p = Append(Append(x, p[1]), p[2])
<1>1. Len(p) = 0 => x \o p = x
  OBVIOUS
<1>2. ASSUME Len(p) = 1
      PROVE  x \o p = Append(x, p[1])
  <2>1. p = <<p[1]>> /\ p[1] \in W
    BY <1>2
  <2>2. \A a \in W : x \o <<a>> = Append(x, a)
    OBVIOUS
  <2>. QED
    BY <2>1, <2>2, Zenon
<1>3. ASSUME Len(p) = 2
      PROVE  x \o p = Append(Append(x, p[1]), p[2])
  <2>1. p[1] \in W /\ p[2] \in W
    BY <1>3
  <2>. DEFINE t == <<p[1], p[2]>>
  <2>2. t \in Seq(W) /\ Len(t) = 2 /\ t[1] = p[1] /\ t[2] = p[2]
    BY <2>1
  <2>. HIDE DEF t
  <2>3. \A i \in 1 .. 2 : t[i] = p[i]
    BY <2>2
  <2>4. p = t
    BY <1>3, <2>2, <2>3, SeqEqual
  <2>5. \A a, b \in W : x \o <<a, b>> = Append(Append(x, a), b)
    OBVIOUS
  <2>. QED
    BY <2>1, <2>5, <2>4, Zenon DEF t
<1>. QED
  BY <1>1, <1>2, <1>3, Zenon

\* And to the text it is a piece of.
Texts(w, ps) ==
  \A k \in 1 .. Len(ps) :
    /\ Len(ps[k]) = 0 => w \o Upto(ps, k) = w \o Upto(ps, k - 1)
    /\ Len(ps[k]) = 1 => w \o Upto(ps, k) = Append(w \o Upto(ps, k - 1), ps[k][1])
    /\ Len(ps[k]) = 2 => w \o Upto(ps, k) = Append(Append(w \o Upto(ps, k - 1), ps[k][1]), ps[k][2])

\* A text with the first k pieces behind it.
LEMMA TextSteps ==
  ASSUME NEW W, NEW ps \in Seq(Seq(W)), NEW w \in Seq(W)
  PROVE  Texts(w, ps)
<1>. SUFFICES ASSUME NEW k \in 1 .. Len(ps)
              PROVE  /\ Len(ps[k]) = 0 => w \o Upto(ps, k) = w \o Upto(ps, k - 1)
                     /\ Len(ps[k]) = 1 => w \o Upto(ps, k) = Append(w \o Upto(ps, k - 1), ps[k][1])
                     /\ Len(ps[k]) = 2 =>
                          w \o Upto(ps, k) = Append(Append(w \o Upto(ps, k - 1), ps[k][1]), ps[k][2])
  BY Zenon DEF Texts
<1>1. ps[k] \in Seq(W) /\ k - 1 \in 0 .. Len(ps)
  BY LenProperties
<1>2. Upto(ps, k - 1) \in Seq(W)
  BY <1>1, UptoIsText
<1>3. Upto(ps, k) = Upto(ps, k - 1) \o ps[k]
  BY FlatIs
<1>. DEFINE u == Upto(ps, k - 1)
            p == ps[k]
            x == w \o u
<1>4. u \in Seq(W) /\ p \in Seq(W) /\ Upto(ps, k) = u \o p
  BY <1>1, <1>2, <1>3
<1>. HIDE DEF u, p
<1>5. w \o (u \o p) = x \o p /\ x \in Seq(W)
  <2>1. u \in Seq(W) /\ p \in Seq(W)
    BY <1>4
  <2>. QED
    BY <2>1, Joins
<1>. HIDE DEF x
<1>6. /\ Len(p) = 0 => x \o p = x
      /\ Len(p) = 1 => x \o p = Append(x, p[1])
      /\ Len(p) = 2 => x \o p = Append(Append(x, p[1]), p[2])
  BY <1>4, <1>5, JoinsShort
<1>7. w \o Upto(ps, k) = x \o p
  BY <1>4, <1>5, Zenon
<1>. QED
  BY <1>6, <1>7, Zenon DEF u, p, x

-----------------------------------------------------------------------------
(* Pieces that are left out.                                               *)

\* Induction up to a number.
LEMMA Counting ==
  ASSUME NEW S, NEW N \in Nat, 0 \in S, \A k \in 1 .. N : k - 1 \in S => k \in S
  PROVE  \A k \in 0 .. N : k \in S
<1>. DEFINE T == {n \in Nat : n <= N => n \in S}
<1>1. 0 \in T
  OBVIOUS
<1>2. ASSUME NEW n \in T
      PROVE  n + 1 \in T
  <2>. SUFFICES ASSUME n + 1 <= N PROVE n + 1 \in S
    OBVIOUS
  <2>1. n + 1 \in 1 .. N /\ (n + 1) - 1 = n /\ n \in S
    OBVIOUS
  <2>. QED
    BY <2>1
<1>. HIDE DEF T
<1>3. T = Nat
  BY <1>1, <1>2, SetInduction DEF T
<1>. QED
  BY <1>3 DEF T

\* Where the pieces begin, and where they end.
LEMMA FirstPlace ==
  ASSUME NEW W, NEW ps \in Seq(Seq(W)), NEW o \in Nat, NEW w \in Seq(W)
  PROVE  /\ o + Pos(ps, 0) = o /\ w \o Upto(ps, 0) = w
         /\ o + Pos(ps, Len(ps)) = o + Len(FlattenSeq(ps))
         /\ w \o Upto(ps, Len(ps)) = w \o FlattenSeq(ps)
         /\ Len(ps) \in Nat
<1>1. Pos(ps, 0) = 0 /\ Upto(ps, 0) = <<>>
  BY DEF Pos, Upto
<1>2. w \o <<>> = w
  OBVIOUS
<1>3. FlattenSeq(ps) = Upto(ps, Len(ps)) /\ Len(ps) \in Nat
  BY UptoIsText, LenProperties
<1>4. o + 0 = o
  OBVIOUS
<1>. QED
  BY <1>1, <1>2, <1>3, <1>4, Zenon DEF Pos

\* Pieces of which some are left out.
IsDashes(p) == Len(p) = 1 /\ p[1] = DashDash
Undashed(ps) == [k \in 1 .. Len(ps) |-> IF IsDashes(ps[k]) THEN <<>> ELSE ps[k]]

LEMMA UndashedIs ==
  ASSUME NEW W, NEW ps \in Seq(Seq(W))
  PROVE  /\ Undashed(ps) \in Seq(Seq(W)) /\ Len(Undashed(ps)) = Len(ps)
         /\ \A k \in 1 .. Len(ps) : Undashed(ps)[k] = IF IsDashes(ps[k]) THEN <<>> ELSE ps[k]
<1>1. \A k \in 1 .. Len(ps) : (IF IsDashes(ps[k]) THEN <<>> ELSE ps[k]) \in Seq(W)
  OBVIOUS
<1>. QED
  BY <1>1 DEF Undashed

\* Where the first parser knows no flags, it keeps the line but for the two dashes.
Keepable(ps) ==
  \A k \in 1 .. Len(ps) :
    \/ Len(ps[k]) \in 0 .. 2 /\ \A j \in 1 .. Len(ps[k]) : ps[k][j] # DashDash
    \/ IsDashes(ps[k]) /\ \A j \in k + 1 .. Len(ps) : ~IsDashes(ps[j])

\* A line of which the first parser knows no flags is kept.
LEMMA Keeps ==
  ASSUME NEW W, NEW ps \in Seq(Seq(W)), NEW f, NEW set, NEW o \in Nat, NEW w \in Seq(W),
         NEW names, NEW unknown, Unknowing(names, unknown),
         Parses(f, o, ps, names, unknown), Keepable(ps),
         f[o] = Acc(set, None, "flags", w)
  PROVE  \E mode \in Going :
           f[o + Len(FlattenSeq(ps))] = Acc(set, None, mode, w \o FlattenSeq(Undashed(ps)))
<1>. DEFINE us == Undashed(ps)
            L(k) == f[o + Pos(ps, k)]
            T(k) == w \o Upto(us, k)
            Seen(k, mode) == mode = "words" => \E j \in 1 .. k : IsDashes(ps[j])
            S == {k \in 0 .. Len(ps) : \E mode \in Going :
                     L(k) = Acc(set, None, mode, T(k)) /\ Seen(k, mode)}
            Parsed(acc, a) == ParseWord(acc, a, names, unknown)
<1>1. /\ us \in Seq(Seq(W)) /\ Len(us) = Len(ps) /\ Len(ps) \in Nat
      /\ \A k \in 1 .. Len(ps) : us[k] = IF IsDashes(ps[k]) THEN <<>> ELSE ps[k]
  BY UndashedIs, LenProperties
<1>. HIDE DEF us
<1>2. \A k \in 1 .. Len(ps) :
        /\ Len(ps[k]) = 0 => L(k) = L(k - 1)
        /\ Len(ps[k]) = 1 => L(k) = Parsed(L(k - 1), ps[k][1])
        /\ Len(ps[k]) = 2 => L(k) = Parsed(Parsed(L(k - 1), ps[k][1]), ps[k][2])
  BY Zenon DEF Parses
<1>3. \A k \in 1 .. Len(ps) :
        /\ Len(us[k]) = 0 => T(k) = T(k - 1)
        /\ Len(us[k]) = 1 => T(k) = Append(T(k - 1), us[k][1])
        /\ Len(us[k]) = 2 => T(k) = Append(Append(T(k - 1), us[k][1]), us[k][2])
  <2>1. Texts(w, us)
    BY <1>1, TextSteps
  <2>. QED
    BY <1>1, <2>1, Zenon DEF Texts
<1>4. \A mode \in Going : \A v, a : a # DashDash =>
        Parsed(Acc(set, None, mode, v), a) = Acc(set, None, mode, Append(v, a))
  BY ParseKeeps
<1>5. \A v : Parsed(Acc(set, None, "flags", v), DashDash) = Acc(set, None, "words", v)
  BY ParseDrops
<1>6. L(0) = Acc(set, None, "flags", T(0)) /\ Seen(0, "flags")
  <2>1. o + Pos(ps, 0) = o
    BY FirstPlace
  <2>2. T(0) = w
    BY <1>1, FirstPlace
  <2>. QED
    BY <2>1, <2>2, Zenon
<1>7. \A k \in 1 .. Len(ps) : \A mode : Seen(k - 1, mode) => Seen(k, mode)
  <2>1. \A k \in 1 .. Len(ps) : \A j \in 1 .. k - 1 : j \in 1 .. k
    BY <1>1
  <2>. QED
    BY <2>1, Zenon
<1>8. \A k \in 1 .. Len(ps) : IsDashes(ps[k]) => Seen(k, "words")
  <2>1. \A k \in 1 .. Len(ps) : k \in 1 .. k
    BY <1>1
  <2>. QED
    BY <2>1, Zenon
<1>9. ASSUME NEW k \in 1 .. Len(ps), NEW j \in 1 .. k - 1, IsDashes(ps[j])
      PROVE  ~IsDashes(ps[k])
  <2>1. j \in 1 .. Len(ps) /\ k \in j + 1 .. Len(ps)
    BY <1>1
  <2>2. 1 \in 1 .. Len(ps[j]) /\ ps[j][1] = DashDash
    BY <1>9 DEF IsDashes
  <2>. QED
    BY <2>1, <2>2, Zenon DEF Keepable
<1>10. \A k \in 1 .. Len(ps) : k \in 0 .. Len(ps) /\ k - 1 \in 0 .. Len(ps)
  BY <1>1
<1>. HIDE DEF L, T, Parsed
<1>11. ASSUME NEW k \in 1 .. Len(ps), NEW mode \in Going,
              L(k - 1) = Acc(set, None, mode, T(k - 1)), Seen(k - 1, mode)
       PROVE  \E m \in Going : L(k) = Acc(set, None, m, T(k)) /\ Seen(k, m)
  <2>. DEFINE p == ps[k]
              t == T(k - 1)
  <2>1. us[k] = IF IsDashes(p) THEN <<>> ELSE p
    BY <1>1
  <2>2. Seen(k, mode)
    BY <1>7, <1>11, Zenon
  <2>3. mode = "words" => ~IsDashes(p)
    BY <1>9, <1>11, Zenon
  <2>4. /\ Len(p) = 0 => L(k) = L(k - 1)
        /\ Len(p) = 1 => L(k) = Parsed(L(k - 1), p[1])
        /\ Len(p) = 2 => L(k) = Parsed(Parsed(L(k - 1), p[1]), p[2])
    BY <1>2, Zenon
  <2>5. /\ Len(us[k]) = 0 => T(k) = t
        /\ Len(us[k]) = 1 => T(k) = Append(t, us[k][1])
        /\ Len(us[k]) = 2 => T(k) = Append(Append(t, us[k][1]), us[k][2])
    BY <1>3, Zenon
  <2>6. \/ Len(p) \in 0 .. 2 /\ \A j \in 1 .. Len(p) : p[j] # DashDash
        \/ IsDashes(p)
    BY Zenon DEF Keepable
  <2>7. IsDashes(p) => Seen(k, "words")
    BY <1>8, Zenon
  <2>. HIDE DEF Seen, p, t
  <2>8. ASSUME ~IsDashes(p), Len(p) = 0
        PROVE  L(k) = Acc(set, None, mode, T(k))
    BY <1>11, <2>1, <2>4, <2>5, <2>8, Zenon DEF t
  <2>9. ASSUME ~IsDashes(p), Len(p) = 1, p[1] # DashDash
        PROVE  L(k) = Acc(set, None, mode, T(k))
    <3>1. L(k) = Parsed(L(k - 1), p[1]) /\ T(k) = Append(t, p[1])
      BY <2>1, <2>4, <2>5, <2>9, Zenon
    <3>2. Parsed(Acc(set, None, mode, t), p[1]) = Acc(set, None, mode, Append(t, p[1]))
      BY <1>4, <2>9, Zenon
    <3>. QED
      BY <1>11, <3>1, <3>2, Zenon DEF t
  <2>10. ASSUME ~IsDashes(p), Len(p) = 2, p[1] # DashDash, p[2] # DashDash
         PROVE  L(k) = Acc(set, None, mode, T(k))
    <3>. DEFINE v == Append(t, p[1])
    <3>1. L(k) = Parsed(Parsed(L(k - 1), p[1]), p[2]) /\ T(k) = Append(v, p[2])
      BY <2>1, <2>4, <2>5, <2>10, Zenon
    <3>2. Parsed(Acc(set, None, mode, t), p[1]) = Acc(set, None, mode, v)
      BY <1>4, <2>10, Zenon
    <3>3. Parsed(Acc(set, None, mode, v), p[2]) = Acc(set, None, mode, Append(v, p[2]))
      BY <1>4, <2>10, Zenon
    <3>. QED
      BY <1>11, <3>1, <3>2, <3>3, Zenon DEF t
  <2>11. ASSUME IsDashes(p)
         PROVE  L(k) = Acc(set, None, "words", T(k))
    <3>1. us[k] = <<>> /\ mode = "flags"
      BY <2>1, <2>3, <2>11 DEF Going
    <3>2. Len(us[k]) = 0
      BY <3>1
    <3>3. L(k) = Parsed(L(k - 1), DashDash) /\ T(k) = t
      BY <2>4, <2>5, <2>11, <3>2, Zenon DEF IsDashes
    <3>4. L(k - 1) = Acc(set, None, "flags", t)
      BY <1>11, <3>1, Zenon DEF t
    <3>. QED
      BY <1>5, <3>3, <3>4, Zenon
  <2>12. CASE IsDashes(p)
    BY <2>7, <2>11, <2>12 DEF Going
  <2>13. CASE ~IsDashes(p)
    <3>1. Len(p) \in 0 .. 2 /\ \A j \in 1 .. Len(p) : p[j] # DashDash
      BY <2>6, <2>13, Zenon
    <3>2. \/ Len(p) = 0
          \/ Len(p) = 1 /\ 1 \in 1 .. Len(p)
          \/ Len(p) = 2 /\ 1 \in 1 .. Len(p) /\ 2 \in 1 .. Len(p)
      <4>1. Len(p) \in 0 .. 2
        BY <3>1, Zenon
      <4>2. Len(p) = 0 \/ Len(p) = 1 \/ Len(p) = 2
        BY <4>1
      <4>3. 1 \in 1 .. 1 /\ 1 \in 1 .. 2 /\ 2 \in 1 .. 2
        OBVIOUS
      <4>. QED
        BY <4>2, <4>3, Zenon
    <3>. QED
      BY <2>2, <2>8, <2>9, <2>10, <2>13, <3>1, <3>2, Zenon
  <2>. QED
    BY <2>12, <2>13
<1>12. \A k \in 0 .. Len(ps) : k \in S
  <2>1. 0 \in S
    BY <1>1, <1>6 DEF Going
  <2>2. \A k \in 1 .. Len(ps) : k - 1 \in S => k \in S
    BY <1>10, <1>11, Zenon
  <2>. HIDE DEF S
  <2>. QED
    BY <1>1, <2>1, <2>2, Counting
<1>13. PICK mode \in Going : L(Len(ps)) = Acc(set, None, mode, T(Len(ps)))
  <2>1. Len(ps) \in 0 .. Len(ps)
    BY <1>1
  <2>. QED
    BY <1>12, <2>1, Zenon
<1>14. o + Pos(ps, Len(ps)) = o + Len(FlattenSeq(ps))
  BY FirstPlace
<1>15. T(Len(ps)) = w \o FlattenSeq(us)
  BY <1>1, FirstPlace DEF T
<1>. QED
  BY <1>13, <1>14, <1>15, Zenon DEF us, L

-----------------------------------------------------------------------------
(* Pieces that set flags.                                                  *)

\* The settings g can be given to a parser that knows these names.
Given(g, names) ==
  \A n \in DOMAIN g :
    n \in names /\ n \in Names /\ Suits(n, g[n]) /\ (n \in Bools => g[n] = Word("true"))

\* A spelling is one word or two, and begins with its flag.
LEMMA SpellingIs ==
  ASSUME NEW n, NEW v, NEW p \in Spellings(n, v)
  PROVE  /\ p[1].dashes = 2 /\ p[1].name = n
         /\ \/ Len(p) = 1 /\ n \in Bools /\ p[1] = Flag(n)
            \/ Len(p) = 1 /\ n \notin Bools /\ p[1] = FlagWith(n, v)
            \/ Len(p) = 2 /\ n \notin Bools /\ p[1] = Flag(n) /\ p[2] = v
<1>1. /\ n \in Bools => p = <<Flag(n)>>
      /\ n \notin Bools => p = <<Flag(n), v>> \/ p = <<FlagWith(n, v)>>
  BY Zenon DEF Spellings
<1>2. \A a, b : /\ Len(<<a>>) = 1 /\ <<a>>[1] = a
                /\ Len(<<a, b>>) = 2 /\ <<a, b>>[1] = a /\ <<a, b>>[2] = b
  OBVIOUS
<1>3. /\ Flag(n).dashes = 2 /\ Flag(n).name = n /\ Flag(n).value = <<>>
      /\ \A w : FlagWith(n, w).dashes = 2 /\ FlagWith(n, w).name = n /\ FlagWith(n, w).value = <<w>>
  BY FlagIs
<1>4. \/ n \in Bools /\ p = <<Flag(n)>>
      \/ n \notin Bools /\ p = <<FlagWith(n, v)>>
      \/ n \notin Bools /\ p = <<Flag(n), v>>
  BY <1>1, Zenon
<1>5. CASE n \in Bools /\ p = <<Flag(n)>>
  BY <1>2, <1>3, <1>5, Zenon
<1>6. CASE n \notin Bools /\ p = <<FlagWith(n, v)>>
  BY <1>2, <1>3, <1>6, Zenon
<1>7. CASE n \notin Bools /\ p = <<Flag(n), v>>
  BY <1>2, <1>3, <1>7, Zenon
<1>. QED
  BY <1>4, <1>5, <1>6, <1>7

\* A word is no spelling of a flag.
LEMMA WordPieceIs ==
  ASSUME NEW p, IsWord(p)
  PROVE  Len(p) = 1 /\ p[1].dashes = 0 /\ \A n, v : p \notin Spellings(n, v)
<1>1. Len(p) = 1 /\ p[1].dashes = 0
  BY DEF IsWord, Plain
<1>2. p[1].dashes # 2
  BY <1>1
<1>. QED
  BY <1>1, <1>2, SpellingIs

ParseSets(names, unknown, n, v, p) ==
  \A set, words :
    \/ Len(p) = 1 /\ ParseWord(Acc(set, None, "flags", words), p[1], names, unknown) =
         Acc(With(set, n, v), None, "flags", words)
    \/ Len(p) = 2 /\ ParseWord(ParseWord(Acc(set, None, "flags", words), p[1], names, unknown), p[2],
         names, unknown) = Acc(With(set, n, v), None, "flags", words)

\* The first parser sets a flag by any of its spellings.
LEMMA ParseSpelling ==
  ASSUME NEW names, NEW unknown, NEW n \in names, n \in Names, NEW v, Suits(n, v),
         n \in Bools => v = Word("true"),
         NEW p \in Spellings(n, v)
  PROVE  ParseSets(names, unknown, n, v, p)
<1>. SUFFICES ASSUME NEW set, NEW words
              PROVE  \/ Len(p) = 1 /\ ParseWord(Acc(set, None, "flags", words), p[1], names, unknown) =
                          Acc(With(set, n, v), None, "flags", words)
                     \/ Len(p) = 2 /\ ParseWord(ParseWord(Acc(set, None, "flags", words), p[1], names,
                          unknown), p[2], names, unknown) = Acc(With(set, n, v), None, "flags", words)
  BY Zenon DEF ParseSets
<1>1. \/ Len(p) = 1 /\ n \in Bools /\ p[1] = Flag(n)
      \/ Len(p) = 1 /\ n \notin Bools /\ p[1] = FlagWith(n, v)
      \/ Len(p) = 2 /\ n \notin Bools /\ p[1] = Flag(n) /\ p[2] = v
  BY SpellingIs
<1>. DEFINE acc == Acc(set, None, "flags", words)
            due == Acc(set, n, "flags", words)
            end == Acc(With(set, n, v), None, "flags", words)
<1>2. /\ n \in Bools => ParseWord(acc, Flag(n), names, unknown) = end
      /\ n \notin Bools => ParseWord(acc, Flag(n), names, unknown) = due
      /\ ParseWord(acc, FlagWith(n, v), names, unknown) = end
      /\ ParseWord(due, v, names, unknown) = end
  <2>1. /\ n \in Bools /\ Suits(n, Word("true")) =>
             ParseWord(acc, Flag(n), names, unknown) = Acc(With(set, n, Word("true")), None, "flags", words)
        /\ n \notin Bools => ParseWord(acc, Flag(n), names, unknown) = due
        /\ \A u : Suits(n, u) =>
             /\ ParseWord(acc, FlagWith(n, u), names, unknown) = Acc(With(set, n, u), None, "flags", words)
             /\ ParseWord(due, u, names, unknown) = Acc(With(set, n, u), None, "flags", words)
    <3>1. ParseKnows(names, unknown, n)
      BY ParseTakesFlag
    <3>. QED
      BY <3>1, Zenon DEF ParseKnows
  <2>2. n \in Bools => ParseWord(acc, Flag(n), names, unknown) = end
    <3>. SUFFICES ASSUME n \in Bools PROVE ParseWord(acc, Flag(n), names, unknown) = end
      OBVIOUS
    <3>1. v = Word("true")
      OBVIOUS
    <3>. QED
      BY <2>1, <3>1, Zenon
  <2>. QED
    BY <2>1, <2>2, Zenon
<1>. HIDE DEF acc, due, end
<1>3. CASE Len(p) = 1 /\ n \in Bools /\ p[1] = Flag(n)
  BY <1>2, <1>3, Zenon DEF acc, end
<1>4. CASE Len(p) = 1 /\ n \notin Bools /\ p[1] = FlagWith(n, v)
  BY <1>2, <1>4, Zenon DEF acc, end
<1>5. CASE Len(p) = 2 /\ n \notin Bools /\ p[1] = Flag(n) /\ p[2] = v
  BY <1>2, <1>5, Zenon DEF acc, end
<1>. QED
  BY <1>1, <1>3, <1>4, <1>5, Zenon

FlagSets(names, n, v, p) ==
  \A set, words :
    \/ Len(p) = 1 /\ FlagWord(Acc(set, None, "flags", words), p[1], names) =
         Acc(With(set, n, v), None, "flags", words)
    \/ Len(p) = 2 /\ FlagWord(FlagWord(Acc(set, None, "flags", words), p[1], names), p[2], names) =
         Acc(With(set, n, v), None, "flags", words)

\* So does the flag package.
LEMMA FlagSpelling ==
  ASSUME NEW names, NEW n \in names, n \in Names, NEW v, Suits(n, v), n \in Bools => v = Word("true"),
         NEW p \in Spellings(n, v)
  PROVE  FlagSets(names, n, v, p)
<1>. SUFFICES ASSUME NEW set, NEW words
              PROVE  \/ Len(p) = 1 /\ FlagWord(Acc(set, None, "flags", words), p[1], names) =
                          Acc(With(set, n, v), None, "flags", words)
                     \/ Len(p) = 2 /\ FlagWord(FlagWord(Acc(set, None, "flags", words), p[1], names),
                          p[2], names) = Acc(With(set, n, v), None, "flags", words)
  BY Zenon DEF FlagSets
<1>1. \/ Len(p) = 1 /\ n \in Bools /\ p[1] = Flag(n)
      \/ Len(p) = 1 /\ n \notin Bools /\ p[1] = FlagWith(n, v)
      \/ Len(p) = 2 /\ n \notin Bools /\ p[1] = Flag(n) /\ p[2] = v
  BY SpellingIs
<1>. DEFINE acc == Acc(set, None, "flags", words)
            due == Acc(set, n, "flags", words)
            end == Acc(With(set, n, v), None, "flags", words)
<1>2. /\ n \in Bools => FlagWord(acc, Flag(n), names) = end
      /\ n \notin Bools => FlagWord(acc, Flag(n), names) = due
      /\ FlagWord(acc, FlagWith(n, v), names) = end
      /\ FlagWord(due, v, names) = end
  <2>1. /\ n \in Bools /\ Suits(n, Word("true")) =>
             FlagWord(acc, Flag(n), names) = Acc(With(set, n, Word("true")), None, "flags", words)
        /\ n \notin Bools => FlagWord(acc, Flag(n), names) = due
        /\ \A u : Suits(n, u) =>
             /\ FlagWord(acc, FlagWith(n, u), names) = Acc(With(set, n, u), None, "flags", words)
             /\ FlagWord(due, u, names) = Acc(With(set, n, u), None, "flags", words)
    <3>1. FlagKnows(names, n)
      BY FlagTakesFlag
    <3>. QED
      BY <3>1, Zenon DEF FlagKnows
  <2>2. n \in Bools => FlagWord(acc, Flag(n), names) = end
    <3>. SUFFICES ASSUME n \in Bools PROVE FlagWord(acc, Flag(n), names) = end
      OBVIOUS
    <3>1. v = Word("true")
      OBVIOUS
    <3>. QED
      BY <2>1, <3>1, Zenon
  <2>. QED
    BY <2>1, <2>2, Zenon
<1>. HIDE DEF acc, due, end
<1>3. CASE Len(p) = 1 /\ n \in Bools /\ p[1] = Flag(n)
  BY <1>2, <1>3, Zenon DEF acc, end
<1>4. CASE Len(p) = 1 /\ n \notin Bools /\ p[1] = FlagWith(n, v)
  BY <1>2, <1>4, Zenon DEF acc, end
<1>5. CASE Len(p) = 2 /\ n \notin Bools /\ p[1] = Flag(n) /\ p[2] = v
  BY <1>2, <1>5, Zenon DEF acc, end
<1>. QED
  BY <1>1, <1>3, <1>4, <1>5, Zenon

\* What is set when k pieces have been read.
SetUpto(base, g, ps, k) ==
  [n \in Names |-> IF n \in DOMAIN g /\ (\E j \in 1 .. k : ps[j] \in Spellings(n, g[n])) THEN g[n]
    ELSE base[n]]
IsSetting(set) == set = [n \in Names |-> set[n]]

SetSteps(base, g, ps) ==
  /\ SetUpto(base, g, ps, 0) = base
  /\ \A k \in 1 .. Len(ps) :
       /\ (\A n \in DOMAIN g : ps[k] \notin Spellings(n, g[n])) => SetUpto(base, g, ps, k) =
            SetUpto(base, g, ps, k - 1)
       /\ \A n \in DOMAIN g : ps[k] \in Spellings(n, g[n]) =>
            SetUpto(base, g, ps, k) = With(SetUpto(base, g, ps, k - 1), n, g[n])

\* Each piece sets its flag, and no other.
LEMMA SettingSteps ==
  ASSUME NEW ps, Len(ps) \in Nat, NEW base, IsSetting(base), NEW g, NEW names, Given(g, names)
  PROVE  SetSteps(base, g, ps)
<1>. DEFINE Q(n, j) == ps[j] \in Spellings(n, g[n])
            U(k) == SetUpto(base, g, ps, k)
<1>1. U(0) = base
  <2>1. \A n : ~(\E j \in 1 .. 0 : Q(n, j))
    OBVIOUS
  <2>2. U(0) = [n \in Names |-> base[n]]
    BY <2>1, Zenon DEF SetUpto
  <2>. QED
    BY <2>2, Zenon DEF IsSetting
<1>2. ASSUME NEW k \in 1 .. Len(ps), \A n \in DOMAIN g : ~Q(n, k)
      PROVE  U(k) = U(k - 1)
  <2>1. \A n \in DOMAIN g : (\E j \in 1 .. k : Q(n, j)) <=> (\E j \in 1 .. k - 1 : Q(n, j))
    <3>1. \A j : j \in 1 .. k <=> j \in 1 .. k - 1 \/ j = k
      OBVIOUS
    <3>. QED
      BY <1>2, <3>1, Zenon
  <2>. QED
    BY <2>1, Zenon DEF SetUpto
<1>3. ASSUME NEW k \in 1 .. Len(ps), NEW n \in DOMAIN g, Q(n, k)
      PROVE  U(k) = With(U(k - 1), n, g[n])
  <2>1. \A m \in DOMAIN g : Q(m, k) => m = n
    <3>1. \A m : ps[k] \in Spellings(m, g[m]) => ps[k][1].name = m
      BY SpellingIs
    <3>. QED
      BY <1>3, <3>1, Zenon
  <2>2. \A j : j \in 1 .. k <=> j \in 1 .. k - 1 \/ j = k
    OBVIOUS
  <2>3. \A m \in DOMAIN g : m # n => ((\E j \in 1 .. k : Q(m, j)) <=> (\E j \in 1 .. k - 1 : Q(m, j)))
    BY <2>1, <2>2, Zenon
  <2>4. n \in Names /\ k \in 1 .. k
    BY DEF Given
  <2>5. U(k) = [m \in Names |-> IF m = n THEN g[n] ELSE U(k - 1)[m]]
    <3>1. \A m \in Names : U(k - 1)[m] =
            IF m \in DOMAIN g /\ (\E j \in 1 .. k - 1 : Q(m, j)) THEN g[m] ELSE base[m]
      BY Zenon DEF SetUpto
    <3>2. ASSUME NEW m \in Names
          PROVE  (IF m \in DOMAIN g /\ (\E j \in 1 .. k : Q(m, j)) THEN g[m] ELSE base[m])
                   = (IF m = n THEN g[n] ELSE U(k - 1)[m])
      <4>1. CASE m = n
        BY <1>3, <2>4, <4>1, Zenon
      <4>2. CASE m # n
        BY <2>3, <3>1, <4>2, Zenon
      <4>. QED
        BY <4>1, <4>2
    <3>. QED
      BY <3>2, Zenon DEF SetUpto
  <2>6. DOMAIN U(k - 1) = Names
    BY Zenon DEF SetUpto
  <2>. HIDE DEF U
  <2>7. With(U(k - 1), n, g[n]) = [m \in Names |-> IF m = n THEN g[n] ELSE U(k - 1)[m]]
    BY <2>4, <2>6 DEF With
  <2>. QED
    BY <2>5, <2>7, Zenon
<1>. QED
  BY <1>1, <1>2, <1>3, Zenon DEF SetSteps

\* The words of a line.
LEMMA OnlyWordsIs ==
  ASSUME NEW W, NEW ps \in Seq(Seq(W))
  PROVE  /\ OnlyWords(ps) \in Seq(Seq(W)) /\ Len(OnlyWords(ps)) = Len(ps)
         /\ \A k \in 1 .. Len(ps) : OnlyWords(ps)[k] = IF IsWord(ps[k]) THEN ps[k] ELSE <<>>
<1>1. \A k \in 1 .. Len(ps) : (IF IsWord(ps[k]) THEN ps[k] ELSE <<>>) \in Seq(W)
  OBVIOUS
<1>. QED
  BY <1>1 DEF OnlyWords

\* Every piece is empty, a word, or a flag of these.
Spelled(ps, g) ==
  \A k \in 1 .. Len(ps) :
    Len(ps[k]) = 0 \/ IsWord(ps[k]) \/ \E n \in DOMAIN g : ps[k] \in Spellings(n, g[n])

\* The first parser takes the flags it knows, and the words.
LEMMA Reads ==
  ASSUME NEW W, NEW ps \in Seq(Seq(W)), NEW f, NEW o \in Nat, NEW names, NEW unknown, NEW w \in Seq(W),
         NEW base, IsSetting(base), NEW g, Given(g, names), Spelled(ps, g),
         Parses(f, o, ps, names, unknown), f[o] = Acc(base, None, "flags", w)
  PROVE  f[o + Len(FlattenSeq(ps))] =
           Acc(SetUpto(base, g, ps, Len(ps)), None, "flags", w \o FlattenSeq(OnlyWords(ps)))
<1>. DEFINE L(k) == f[o + Pos(ps, k)]
            U(k) == SetUpto(base, g, ps, k)
            Parsed(acc, a) == ParseWord(acc, a, names, unknown)
            ws == OnlyWords(ps)
            T(k) == w \o Upto(ws, k)
            S == {k \in 0 .. Len(ps) : L(k) = Acc(U(k), None, "flags", T(k))}
<1>1. Len(ps) \in Nat
  BY LenProperties
<1>2. /\ ws \in Seq(Seq(W)) /\ Len(ws) = Len(ps)
      /\ \A k \in 1 .. Len(ps) : ws[k] = IF IsWord(ps[k]) THEN ps[k] ELSE <<>>
  BY OnlyWordsIs
<1>. HIDE DEF ws
<1>3. \A k \in 1 .. Len(ps) :
        /\ Len(ws[k]) = 0 => T(k) = T(k - 1)
        /\ Len(ws[k]) = 1 => T(k) = Append(T(k - 1), ws[k][1])
  <2>1. Texts(w, ws)
    BY <1>2, TextSteps
  <2>. QED
    BY <1>2, <2>1, Zenon DEF Texts
<1>4. \A k \in 1 .. Len(ps) :
        /\ Len(ps[k]) = 0 => L(k) = L(k - 1)
        /\ Len(ps[k]) = 1 => L(k) = Parsed(L(k - 1), ps[k][1])
        /\ Len(ps[k]) = 2 => L(k) = Parsed(Parsed(L(k - 1), ps[k][1]), ps[k][2])
  BY Zenon DEF Parses
<1>5. /\ U(0) = base
      /\ \A k \in 1 .. Len(ps) :
           /\ (\A n \in DOMAIN g : ps[k] \notin Spellings(n, g[n])) => U(k) = U(k - 1)
           /\ \A n \in DOMAIN g : ps[k] \in Spellings(n, g[n]) => U(k) = With(U(k - 1), n, g[n])
  <2>1. SetSteps(base, g, ps)
    BY <1>1, SettingSteps
  <2>. QED
    BY <2>1, Zenon DEF SetSteps
<1>6. \A set, v, a : a.dashes = 0 =>
        Parsed(Acc(set, None, "flags", v), a) = Acc(set, None, "flags", Append(v, a))
  BY ParseTakesWord
<1>7. ASSUME NEW n \in DOMAIN g, NEW p \in Spellings(n, g[n])
      PROVE  \A set, v :
               \/ Len(p) = 1 /\ Parsed(Acc(set, None, "flags", v), p[1]) =
                    Acc(With(set, n, g[n]), None, "flags", v)
               \/ Len(p) = 2 /\ Parsed(Parsed(Acc(set, None, "flags", v), p[1]), p[2])
                                  = Acc(With(set, n, g[n]), None, "flags", v)
  <2>1. n \in names /\ n \in Names /\ Suits(n, g[n]) /\ (n \in Bools => g[n] = Word("true"))
    BY Zenon DEF Given
  <2>2. ParseSets(names, unknown, n, g[n], p)
    BY <2>1, ParseSpelling
  <2>. QED
    BY <2>2, Zenon DEF ParseSets
<1>8. L(0) = Acc(U(0), None, "flags", T(0))
  <2>1. o + Pos(ps, 0) = o
    BY FirstPlace
  <2>2. T(0) = w
    BY <1>2, FirstPlace
  <2>. QED
    BY <1>5, <2>1, <2>2, Zenon
<1>. HIDE DEF L, U, Parsed, T
<1>9. ASSUME NEW k \in 1 .. Len(ps), L(k - 1) = Acc(U(k - 1), None, "flags", T(k - 1))
      PROVE  L(k) = Acc(U(k), None, "flags", T(k))
  <2>. DEFINE p == ps[k]
  <2>1. /\ Len(p) = 0 => L(k) = L(k - 1)
        /\ Len(p) = 1 => L(k) = Parsed(L(k - 1), p[1])
        /\ Len(p) = 2 => L(k) = Parsed(Parsed(L(k - 1), p[1]), p[2])
    BY <1>4, Zenon
  <2>2. /\ (\A n \in DOMAIN g : p \notin Spellings(n, g[n])) => U(k) = U(k - 1)
        /\ \A n \in DOMAIN g : p \in Spellings(n, g[n]) => U(k) = With(U(k - 1), n, g[n])
    BY <1>5, Zenon
  <2>3. /\ Len(ws[k]) = 0 => T(k) = T(k - 1)
        /\ Len(ws[k]) = 1 => T(k) = Append(T(k - 1), ws[k][1])
    BY <1>3, Zenon
  <2>4. ws[k] = IF IsWord(p) THEN p ELSE <<>>
    BY <1>2, Zenon
  <2>5. IsWord(p) => Len(p) = 1 /\ p[1].dashes = 0 /\ \A n, v : p \notin Spellings(n, v)
    BY WordPieceIs
  <2>6. Len(p) = 0 \/ IsWord(p) \/ \E n \in DOMAIN g : p \in Spellings(n, g[n])
    BY Zenon DEF Spelled
  <2>7. \A n : p \in Spellings(n, g[n]) => Len(p) = 1 \/ Len(p) = 2
    BY SpellingIs
  <2>8. \A n : Len(p) = 0 => p \notin Spellings(n, g[n])
    BY <2>7
  <2>. HIDE DEF p
  <2>9. CASE Len(p) = 0
    <3>1. Len(ws[k]) = 0
      BY <2>4, <2>9
    <3>. QED
      BY <1>9, <2>1, <2>2, <2>3, <2>8, <2>9, <3>1, Zenon
  <2>10. CASE IsWord(p)
    <3>1. /\ L(k) = Parsed(L(k - 1), p[1]) /\ T(k) = Append(T(k - 1), p[1]) /\ U(k) = U(k - 1)
          /\ p[1].dashes = 0
      BY <2>1, <2>2, <2>3, <2>4, <2>5, <2>10, Zenon
    <3>2. Parsed(Acc(U(k - 1), None, "flags", T(k - 1)), p[1]) =
            Acc(U(k - 1), None, "flags", Append(T(k - 1), p[1]))
      BY <1>6, <3>1, SMT
    <3>. QED
      BY <1>9, <3>1, <3>2, Zenon
  <2>11. ASSUME NEW n \in DOMAIN g, p \in Spellings(n, g[n])
         PROVE  L(k) = Acc(U(k), None, "flags", T(k))
    <3>1. T(k) = T(k - 1)
      <4>1. ~IsWord(p)
        BY <2>5, <2>11, Zenon
      <4>2. Len(ws[k]) = 0
        BY <2>4, <4>1
      <4>. QED
        BY <2>3, <4>2, Zenon
    <3>2. U(k) = With(U(k - 1), n, g[n])
      BY <2>2, <2>11, Zenon
    <3>. DEFINE acc == Acc(U(k - 1), None, "flags", T(k - 1))
                end == Acc(With(U(k - 1), n, g[n]), None, "flags", T(k - 1))
    <3>3. \/ Len(p) = 1 /\ Parsed(acc, p[1]) = end
          \/ Len(p) = 2 /\ Parsed(Parsed(acc, p[1]), p[2]) = end
      BY <1>7, <2>11, Zenon
    <3>4. L(k - 1) = acc
      BY <1>9, Zenon
    <3>5. L(k) = end
      <4>. HIDE DEF acc, end
      <4>. QED
        BY <2>1, <3>3, <3>4, Zenon
    <3>. QED
      BY <3>1, <3>2, <3>5, Zenon
  <2>. QED
    BY <2>6, <2>9, <2>10, <2>11, Zenon
<1>10. \A k \in 0 .. Len(ps) : k \in S
  <2>1. 0 \in S
    BY <1>1, <1>8
  <2>2. \A k \in 1 .. Len(ps) : k \in 0 .. Len(ps)
    BY <1>1
  <2>3. \A k \in 1 .. Len(ps) : k - 1 \in S => k \in S
    BY <1>9, <2>2, Zenon
  <2>. HIDE DEF S
  <2>. QED
    BY <1>1, <2>1, <2>3, Counting
<1>11. L(Len(ps)) = Acc(U(Len(ps)), None, "flags", T(Len(ps)))
  <2>1. Len(ps) \in 0 .. Len(ps)
    BY <1>1
  <2>. QED
    BY <1>10, <2>1, Zenon
<1>12. o + Pos(ps, Len(ps)) = o + Len(FlattenSeq(ps))
  BY FirstPlace
<1>13. T(Len(ps)) = w \o FlattenSeq(ws)
  BY <1>2, FirstPlace DEF T
<1>. QED
  BY <1>11, <1>12, <1>13, Zenon DEF L, U, ws

\* So does the flag package, as long as there are flags.
LEMMA TakesFlags ==
  ASSUME NEW W, NEW ps \in Seq(Seq(W)), NEW f, NEW o \in Nat, NEW names,
         NEW base, IsSetting(base), NEW g, Given(g, names), Spelled(ps, g),
         \A k \in 1 .. Len(ps) : ~IsWord(ps[k]),
         Flags(f, o, ps, names), f[o] = Acc(base, None, "flags", <<>>)
  PROVE  f[o + Len(FlattenSeq(ps))] =
           Acc(SetUpto(base, g, ps, Len(ps)), None, "flags", <<>>)
<1>. DEFINE L(k) == f[o + Pos(ps, k)]
            U(k) == SetUpto(base, g, ps, k)
            Parsed(acc, a) == FlagWord(acc, a, names)
            S == {k \in 0 .. Len(ps) : L(k) = Acc(U(k), None, "flags", <<>>)}
<1>1. Len(ps) \in Nat
  BY LenProperties
<1>2. \A k \in 1 .. Len(ps) :
        /\ Len(ps[k]) = 0 => L(k) = L(k - 1)
        /\ Len(ps[k]) = 1 => L(k) = Parsed(L(k - 1), ps[k][1])
        /\ Len(ps[k]) = 2 => L(k) = Parsed(Parsed(L(k - 1), ps[k][1]), ps[k][2])
  BY Zenon DEF Flags
<1>3. /\ U(0) = base
      /\ \A k \in 1 .. Len(ps) :
           /\ (\A n \in DOMAIN g : ps[k] \notin Spellings(n, g[n])) => U(k) = U(k - 1)
           /\ \A n \in DOMAIN g : ps[k] \in Spellings(n, g[n]) => U(k) = With(U(k - 1), n, g[n])
  <2>1. SetSteps(base, g, ps)
    BY <1>1, SettingSteps
  <2>. QED
    BY <2>1, Zenon DEF SetSteps
<1>4. ASSUME NEW n \in DOMAIN g, NEW p \in Spellings(n, g[n])
      PROVE  \A set, v :
               \/ Len(p) = 1 /\ Parsed(Acc(set, None, "flags", v), p[1]) =
                    Acc(With(set, n, g[n]), None, "flags", v)
               \/ Len(p) = 2 /\ Parsed(Parsed(Acc(set, None, "flags", v), p[1]), p[2])
                                  = Acc(With(set, n, g[n]), None, "flags", v)
  <2>1. n \in names /\ n \in Names /\ Suits(n, g[n]) /\ (n \in Bools => g[n] = Word("true"))
    BY Zenon DEF Given
  <2>2. FlagSets(names, n, g[n], p)
    BY <2>1, FlagSpelling
  <2>. QED
    BY <2>2, Zenon DEF FlagSets
<1>5. L(0) = Acc(U(0), None, "flags", <<>>)
  <2>1. o + Pos(ps, 0) = o
    BY FirstPlace
  <2>. QED
    BY <1>3, <2>1, Zenon
<1>. HIDE DEF L, U, Parsed
<1>6. ASSUME NEW k \in 1 .. Len(ps), L(k - 1) = Acc(U(k - 1), None, "flags", <<>>)
      PROVE  L(k) = Acc(U(k), None, "flags", <<>>)
  <2>. DEFINE p == ps[k]
  <2>1. /\ Len(p) = 0 => L(k) = L(k - 1)
        /\ Len(p) = 1 => L(k) = Parsed(L(k - 1), p[1])
        /\ Len(p) = 2 => L(k) = Parsed(Parsed(L(k - 1), p[1]), p[2])
    BY <1>2, Zenon
  <2>2. /\ (\A n \in DOMAIN g : p \notin Spellings(n, g[n])) => U(k) = U(k - 1)
        /\ \A n \in DOMAIN g : p \in Spellings(n, g[n]) => U(k) = With(U(k - 1), n, g[n])
    BY <1>3, Zenon
  <2>3. Len(p) = 0 \/ \E n \in DOMAIN g : p \in Spellings(n, g[n])
    BY Zenon DEF Spelled
  <2>4. \A n : p \in Spellings(n, g[n]) => Len(p) = 1 \/ Len(p) = 2
    BY SpellingIs
  <2>5. \A n : Len(p) = 0 => p \notin Spellings(n, g[n])
    BY <2>4
  <2>. HIDE DEF p
  <2>6. CASE Len(p) = 0
    BY <1>6, <2>1, <2>2, <2>5, <2>6, Zenon
  <2>7. ASSUME NEW n \in DOMAIN g, p \in Spellings(n, g[n])
         PROVE  L(k) = Acc(U(k), None, "flags", <<>>)
    <3>1. U(k) = With(U(k - 1), n, g[n])
      BY <2>2, <2>7, Zenon
    <3>. DEFINE acc == Acc(U(k - 1), None, "flags", <<>>)
                end == Acc(With(U(k - 1), n, g[n]), None, "flags", <<>>)
    <3>2. \/ Len(p) = 1 /\ Parsed(acc, p[1]) = end
          \/ Len(p) = 2 /\ Parsed(Parsed(acc, p[1]), p[2]) = end
      BY <1>4, <2>7, Zenon
    <3>3. L(k - 1) = acc
      BY <1>6, Zenon
    <3>4. L(k) = end
      <4>. HIDE DEF acc, end
      <4>. QED
        BY <2>1, <3>2, <3>3, Zenon
    <3>. QED
      BY <3>1, <3>4, Zenon
  <2>. QED
    BY <2>3, <2>6, <2>7, Zenon
<1>7. \A k \in 0 .. Len(ps) : k \in S
  <2>1. 0 \in S
    BY <1>1, <1>5
  <2>2. \A k \in 1 .. Len(ps) : k \in 0 .. Len(ps)
    BY <1>1
  <2>3. \A k \in 1 .. Len(ps) : k - 1 \in S => k \in S
    BY <1>6, <2>2, Zenon
  <2>. HIDE DEF S
  <2>. QED
    BY <1>1, <2>1, <2>3, Counting
<1>8. L(Len(ps)) = Acc(U(Len(ps)), None, "flags", <<>>)
  <2>1. Len(ps) \in 0 .. Len(ps)
    BY <1>1
  <2>. QED
    BY <1>7, <2>1, Zenon
<1>9. o + Pos(ps, Len(ps)) = o + Len(FlattenSeq(ps))
  BY FirstPlace
<1>. QED
  BY <1>8, <1>9, Zenon DEF L, U

-----------------------------------------------------------------------------
(* Pieces of the line for internal/cli.                                    *)

\* Words are pieces of their own.
Singly(w) == [k \in 1 .. Len(w) |-> <<w[k]>>]

\* They are the words.
LEMMA SinglyIs ==
  ASSUME NEW W, NEW w \in Seq(W)
  PROVE  /\ Singly(w) \in Seq(Seq(W)) /\ Len(Singly(w)) = Len(w)
         /\ \A k \in 1 .. Len(w) : Len(Singly(w)[k]) = 1 /\ Singly(w)[k][1] = w[k]
         /\ FlattenSeq(Singly(w)) = w
<1>. DEFINE ps == Singly(w)
<1>1. /\ \A k \in 1 .. Len(w) : <<w[k]>> \in Seq(W) /\ Len(<<w[k]>>) = 1 /\ <<w[k]>>[1] = w[k]
      /\ Len(w) \in Nat
  OBVIOUS
<1>2. /\ ps \in Seq(Seq(W)) /\ Len(ps) = Len(w)
      /\ \A k \in 1 .. Len(w) : Len(ps[k]) = 1 /\ ps[k][1] = w[k]
  BY <1>1 DEF Singly
<1>. HIDE DEF ps
<1>. DEFINE S == {k \in 0 .. Len(w) : Pos(ps, k) = k}
<1>3. \A k \in 1 .. Len(w) : /\ Pos(ps, k) = Pos(ps, k - 1) + 1
                             /\ FlattenSeq(ps)[Pos(ps, k - 1) + 1] = w[k]
  <2>. SUFFICES ASSUME NEW k \in 1 .. Len(w)
                PROVE  Pos(ps, k) = Pos(ps, k - 1) + 1 /\ FlattenSeq(ps)[Pos(ps, k - 1) + 1] = w[k]
    OBVIOUS
  <2>1. /\ Pos(ps, k) = Pos(ps, k - 1) + Len(ps[k])
        /\ \A j \in 1 .. Len(ps[k]) : FlattenSeq(ps)[Pos(ps, k - 1) + j] = ps[k][j]
    BY <1>2, PieceAt
  <2>. QED
    BY <1>2, <2>1
<1>4. \A k \in 0 .. Len(w) : k \in S
  <2>1. 0 \in S
    <3>1. Upto(ps, 0) = <<>>
      BY <1>2, UptoIsText
    <3>. QED
      BY <1>1, <3>1 DEF Pos
  <2>2. \A k \in 1 .. Len(w) : k - 1 \in S => k \in S
    BY <1>1, <1>3
  <2>. HIDE DEF S
  <2>. QED
    BY <1>1, <2>1, <2>2, Counting
<1>5. FlattenSeq(ps) \in Seq(W) /\ Len(FlattenSeq(ps)) = Len(w)
  <2>1. Len(w) \in 0 .. Len(w) /\ Len(w) \in 0 .. Len(ps)
    BY <1>1, <1>2
  <2>2. FlattenSeq(ps) = Upto(ps, Len(w)) /\ Upto(ps, Len(w)) \in Seq(W)
    BY <1>2, <2>1, UptoIsText
  <2>. QED
    BY <1>4, <2>1, <2>2 DEF Pos
<1>6. \A k \in 1 .. Len(w) : FlattenSeq(ps)[k] = w[k]
  <2>. SUFFICES ASSUME NEW k \in 1 .. Len(w)
                PROVE  FlattenSeq(ps)[k] = w[k]
    OBVIOUS
  <2>1. k - 1 \in 0 .. Len(w) /\ (k - 1) + 1 = k
    BY <1>1
  <2>2. Pos(ps, k - 1) = k - 1
    BY <1>4, <2>1
  <2>. QED
    BY <1>3, <2>1, <2>2
<1>7. FlattenSeq(ps) = w
  <2>. DEFINE t == FlattenSeq(ps)
  <2>1. t \in Seq(W) /\ Len(t) = Len(w) /\ \A k \in 1 .. Len(w) : t[k] = w[k]
    BY <1>5, <1>6
  <2>. HIDE DEF t
  <2>2. t = w
    BY <2>1
  <2>. QED
    BY <2>2 DEF t
<1>. QED
  BY <1>2, <1>7 DEF ps

\* Another piece behind the pieces is another piece behind the text.
LEMMA FlatAppend ==
  ASSUME NEW W, NEW ps \in Seq(Seq(W)), NEW p \in Seq(W)
  PROVE  /\ Append(ps, p) \in Seq(Seq(W)) /\ Len(Append(ps, p)) = Len(ps) + 1
         /\ \A k \in 1 .. Len(ps) : Append(ps, p)[k] = ps[k]
         /\ Append(ps, p)[Len(ps) + 1] = p
         /\ FlattenSeq(Append(ps, p)) = FlattenSeq(ps) \o p
<1>. DEFINE qs == Append(ps, p)
            S == {k \in 0 .. Len(ps) : Upto(qs, k) = Upto(ps, k)}
<1>1. /\ qs \in Seq(Seq(W)) /\ Len(qs) = Len(ps) + 1 /\ Len(ps) \in Nat
      /\ \A k \in 1 .. Len(ps) : qs[k] = ps[k]
      /\ qs[Len(ps) + 1] = p
  OBVIOUS
<1>. HIDE DEF qs
<1>2. \A k \in 1 .. Len(ps) : k \in 1 .. Len(qs)
  BY <1>1
<1>3. \A k \in 1 .. Len(qs) : Upto(qs, k) = Upto(qs, k - 1) \o qs[k]
  BY <1>1, FlatIs
<1>4. \A k \in 1 .. Len(ps) : Upto(ps, k) = Upto(ps, k - 1) \o ps[k]
  BY FlatIs
<1>5. Upto(qs, 0) = <<>> /\ Upto(ps, 0) = <<>>
  BY <1>1, UptoIsText
<1>6. \A k \in 0 .. Len(ps) : k \in S
  <2>1. 0 \in S
    BY <1>1, <1>5
  <2>2. \A k \in 1 .. Len(ps) : k \in 0 .. Len(ps)
    BY <1>1
  <2>3. \A k \in 1 .. Len(ps) : k - 1 \in S => k \in S
    BY <1>1, <1>2, <1>3, <1>4, <2>2, Zenon
  <2>. HIDE DEF S
  <2>. QED
    BY <1>1, <2>1, <2>3, Counting
<1>7. Upto(qs, Len(ps)) = FlattenSeq(ps)
  <2>1. Len(ps) \in 0 .. Len(ps)
    BY <1>1
  <2>2. FlattenSeq(ps) = Upto(ps, Len(ps))
    BY UptoIsText
  <2>. QED
    BY <1>6, <2>1, <2>2
<1>8. FlattenSeq(qs) = Upto(qs, Len(ps) + 1)
  <2>1. FlattenSeq(qs) = Upto(qs, Len(qs))
    BY <1>1, UptoIsText
  <2>. QED
    BY <1>1, <2>1
<1>9. Len(ps) + 1 \in 1 .. Len(qs) /\ (Len(ps) + 1) - 1 = Len(ps)
  BY <1>1
<1>10. Upto(qs, Len(ps) + 1) = Upto(qs, Len(ps)) \o p
  BY <1>1, <1>3, <1>9
<1>. QED
  BY <1>1, <1>7, <1>8, <1>10, Zenon DEF qs

\* One piece is the text.
LEMMA FlatOne ==
  ASSUME NEW W, NEW p \in Seq(W)
  PROVE  <<p>> \in Seq(Seq(W)) /\ Len(<<p>>) = 1 /\ <<p>>[1] = p /\ FlattenSeq(<<p>>) = p
<1>. DEFINE qs == <<p>>
<1>1. qs \in Seq(Seq(W)) /\ Len(qs) = 1 /\ qs[1] = p
  OBVIOUS
<1>. HIDE DEF qs
<1>2. Upto(qs, 0) = <<>> /\ FlattenSeq(qs) = Upto(qs, 1)
  BY <1>1, UptoIsText
<1>3. Upto(qs, 1) = Upto(qs, 0) \o p
  <2>1. 1 \in 1 .. Len(qs) /\ 1 - 1 = 0
    BY <1>1
  <2>. QED
    BY <1>1, <2>1, FlatIs
<1>4. <<>> \o p = p
  OBVIOUS
<1>. QED
  BY <1>1, <1>2, <1>3, <1>4 DEF qs

\* What a text begins with.
LEMMA FirstPiece ==
  ASSUME NEW W, NEW ps \in Seq(Seq(W)), NEW k \in 1 .. Len(ps), Len(ps[k]) # 0,
         \A j \in 1 .. k - 1 : Len(ps[j]) = 0
  PROVE  FlattenSeq(ps) # <<>> /\ FlattenSeq(ps)[1] = ps[k][1]
<1>1. Len(ps) \in Nat /\ k - 1 \in Nat
  BY LenProperties
<1>. DEFINE S == {j \in 0 .. k - 1 : Pos(ps, j) = 0}
<1>2. 0 \in S
  <2>1. Upto(ps, 0) = <<>>
    BY UptoIsText
  <2>. QED
    BY <1>1, <2>1 DEF Pos
<1>3. \A j \in 1 .. k - 1 : j - 1 \in S => j \in S
  <2>. SUFFICES ASSUME NEW j \in 1 .. k - 1
                PROVE  j - 1 \in S => j \in S
    OBVIOUS
  <2>1. j \in 1 .. Len(ps)
    BY <1>1
  <2>2. Pos(ps, j) = Pos(ps, j - 1) + Len(ps[j])
    BY <2>1, PieceAt
  <2>. QED
    BY <1>1, <2>2
<1>4. Pos(ps, k - 1) = 0
  <2>. HIDE DEF S
  <2>1. \A j \in 0 .. k - 1 : j \in S
    BY <1>1, <1>2, <1>3, Counting
  <2>2. k - 1 \in 0 .. k - 1
    BY <1>1
  <2>. QED
    BY <2>1, <2>2 DEF S
<1>5. /\ Len(ps[k]) \in Nat /\ Pos(ps, k) = Pos(ps, k - 1) + Len(ps[k])
      /\ Pos(ps, k) <= Len(FlattenSeq(ps))
      /\ \A j \in 1 .. Len(ps[k]) : FlattenSeq(ps)[Pos(ps, k - 1) + j] = ps[k][j]
  BY PieceAt
<1>6. 1 \in 1 .. Len(ps[k]) /\ Len(FlattenSeq(ps)) # 0
  <2>1. FlattenSeq(ps) \in Seq(W)
    BY <1>1, UptoIsText
  <2>2. Len(FlattenSeq(ps)) \in Nat
    BY <2>1, LenProperties
  <2>. QED
    BY <1>4, <1>5, <2>2
<1>. QED
  BY <1>4, <1>5, <1>6

\* A text that is not empty begins with a piece that is not.
LEMMA SomePiece ==
  ASSUME NEW W, NEW ps \in Seq(Seq(W)), FlattenSeq(ps) # <<>>
  PROVE  \E k \in 1 .. Len(ps) : /\ Len(ps[k]) # 0 /\ \A j \in 1 .. k - 1 : Len(ps[j]) = 0
                                 /\ FlattenSeq(ps)[1] = ps[k][1]
<1>1. Len(ps) \in Nat
  BY LenProperties
<1>2. \E k \in 1 .. Len(ps) : Len(ps[k]) # 0
  <2>. SUFFICES ASSUME \A k \in 1 .. Len(ps) : Len(ps[k]) = 0
                PROVE  FALSE
    BY Zenon
  <2>. DEFINE S == {j \in 0 .. Len(ps) : Upto(ps, j) = <<>>}
  <2>1. 0 \in S
    BY <1>1, UptoIsText
  <2>2. \A j \in 1 .. Len(ps) : j - 1 \in S => j \in S
    <3>. SUFFICES ASSUME NEW j \in 1 .. Len(ps), j - 1 \in S
                  PROVE  j \in S
      OBVIOUS
    <3>1. Upto(ps, j) = Upto(ps, j - 1) \o ps[j]
      BY FlatIs
    <3>2. ps[j] \in Seq(W) /\ Len(ps[j]) = 0
      OBVIOUS
    <3>3. \A p \in Seq(W) : Len(p) = 0 => <<>> \o p = <<>>
      OBVIOUS
    <3>4. Upto(ps, j) = <<>>
      BY <3>1, <3>3, <3>2
    <3>. QED
      BY <1>1, <3>4
  <2>3. \A j \in 0 .. Len(ps) : j \in S
    <3>. HIDE DEF S
    <3>. QED
      BY <1>1, <2>1, <2>2, Counting
  <2>4. Len(ps) \in 0 .. Len(ps) /\ FlattenSeq(ps) = Upto(ps, Len(ps))
    BY <1>1, UptoIsText
  <2>. QED
    BY <2>3, <2>4
<1>. DEFINE T == {k \in 1 .. Len(ps) : Len(ps[k]) # 0}
<1>3. PICK k \in T : \A j \in T : k <= j
  <2>1. T \in SUBSET Nat /\ T # {}
    <3>1. \A k \in 1 .. Len(ps) : k \in Nat
      BY <1>1
    <3>. QED
      BY <1>2, <3>1, Zenon
  <2>. HIDE DEF T
  <2>. QED
    BY <2>1, LeastOfSet
<1>4. \A j \in 1 .. k - 1 : Len(ps[j]) = 0
  <2>1. \A j \in 1 .. k - 1 : j \in 1 .. Len(ps) /\ ~(k <= j)
    BY <1>1
  <2>. QED
    BY <1>3, <2>1
<1>5. FlattenSeq(ps)[1] = ps[k][1]
  BY <1>4, FirstPiece
<1>. QED
  BY <1>4, <1>5

-----------------------------------------------------------------------------
(* What internal/cli makes of flags and of words.                          *)

\* Pieces that normalizeFlagArgs takes for flags, and for words.
FlagPieces(ps, valueFlags) ==
  \A k \in 1 .. Len(ps) :
    \/ Len(ps[k]) = 0
    \/ Len(ps[k]) = 1 /\ \E n : n \notin valueFlags /\ ps[k][1] = Flag(n)
    \/ Len(ps[k]) = 2 /\ \E n : n \in valueFlags /\ ps[k][1] = Flag(n)
WordPieces(ps) == \A k \in 1 .. Len(ps) : Len(ps[k]) = 1 /\ ps[k][1].dashes = 0

\* Flags go to the front in their order, each with its value.
LEMMA SortsFlags ==
  ASSUME NEW W, NEW ps \in Seq(Seq(W)), NEW f, NEW o \in Nat, NEW w, NEW g \in Seq(W), NEW valueFlags,
         Sorts(f, o, ps, valueFlags), FlagPieces(ps, valueFlags),
         f[o] = Sorted(g, w, "word")
  PROVE  f[o + Len(FlattenSeq(ps))] = Sorted(g \o FlattenSeq(ps), w, "word")
<1>. DEFINE L(k) == f[o + Pos(ps, k)]
            T(k) == g \o Upto(ps, k)
            Step(acc, a) == SortWord(acc, a, valueFlags)
            S == {k \in 0 .. Len(ps) : L(k) = Sorted(T(k), w, "word")}
<1>1. Len(ps) \in Nat
  BY LenProperties
<1>2. /\ o + Pos(ps, 0) = o /\ o + Pos(ps, Len(ps)) = o + Len(FlattenSeq(ps))
      /\ T(0) = g /\ T(Len(ps)) = g \o FlattenSeq(ps)
  BY <1>1, FirstPlace
<1>3. Texts(g, ps)
  BY <1>1, TextSteps
<1>4. \A k \in 1 .. Len(ps) :
        /\ Len(ps[k]) = 0 => L(k) = L(k - 1) /\ T(k) = T(k - 1)
        /\ Len(ps[k]) = 1 => L(k) = Step(L(k - 1), ps[k][1]) /\ T(k) = Append(T(k - 1), ps[k][1])
        /\ Len(ps[k]) = 2 => /\ L(k) = Step(Step(L(k - 1), ps[k][1]), ps[k][2])
                             /\ T(k) = Append(Append(T(k - 1), ps[k][1]), ps[k][2])
  BY <1>3, Zenon DEF Sorts, Texts
<1>5. \A k \in 1 .. Len(ps) : k \in 0 .. Len(ps)
  BY <1>1
<1>6. \A t, n : n \notin valueFlags => Step(Sorted(t, w, "word"), Flag(n)) =
        Sorted(Append(t, Flag(n)), w, "word")
  <2>1. \A t : SortKnows(t, w, valueFlags)
    BY SortTakes
  <2>. QED
    BY <2>1, Zenon DEF SortKnows
<1>7. \A t, n, v : n \in valueFlags =>
         Step(Step(Sorted(t, w, "word"), Flag(n)), v) = Sorted(Append(Append(t, Flag(n)), v), w, "word")
  <2>1. \A t : SortKnows(t, w, valueFlags)
    BY SortTakes
  <2>2. /\ \A t, n : n \in valueFlags => Step(Sorted(t, w, "word"), Flag(n)) =
             Sorted(Append(t, Flag(n)), w, "value")
        /\ \A t, v : Step(Sorted(t, w, "value"), v) = Sorted(Append(t, v), w, "word")
    BY <2>1, Zenon DEF SortKnows
  <2>. HIDE DEF Step
  <2>. QED
    BY <2>2, Zenon
<1>. HIDE DEF L, T, Step
<1>8. ASSUME NEW k \in 1 .. Len(ps), L(k - 1) = Sorted(T(k - 1), w, "word")
      PROVE  L(k) = Sorted(T(k), w, "word")
  <2>. DEFINE p == ps[k]
  <2>1. \/ Len(p) = 0
        \/ Len(p) = 1 /\ \E n : n \notin valueFlags /\ p[1] = Flag(n)
        \/ Len(p) = 2 /\ \E n : n \in valueFlags /\ p[1] = Flag(n)
    BY Zenon DEF FlagPieces
  <2>2. /\ Len(p) = 0 => L(k) = L(k - 1) /\ T(k) = T(k - 1)
        /\ Len(p) = 1 => L(k) = Step(L(k - 1), p[1]) /\ T(k) = Append(T(k - 1), p[1])
        /\ Len(p) = 2 => /\ L(k) = Step(Step(L(k - 1), p[1]), p[2])
                         /\ T(k) = Append(Append(T(k - 1), p[1]), p[2])
    BY <1>4, Zenon
  <2>. HIDE DEF p
  <2>3. CASE Len(p) = 0
    BY <1>8, <2>2, <2>3, Zenon
  <2>4. ASSUME Len(p) = 1, NEW n, n \notin valueFlags, p[1] = Flag(n)
        PROVE  L(k) = Sorted(T(k), w, "word")
    BY <1>6, <1>8, <2>2, <2>4, Zenon
  <2>5. ASSUME Len(p) = 2, NEW n, n \in valueFlags, p[1] = Flag(n)
        PROVE  L(k) = Sorted(T(k), w, "word")
    <3>1. Step(Step(Sorted(T(k - 1), w, "word"), Flag(n)), p[2]) =
            Sorted(Append(Append(T(k - 1), Flag(n)), p[2]), w, "word")
      BY <1>7, <2>5, Zenon
    <3>2. /\ L(k) = Step(Step(Sorted(T(k - 1), w, "word"), Flag(n)), p[2])
          /\ T(k) = Append(Append(T(k - 1), Flag(n)), p[2])
      BY <1>8, <2>2, <2>5
    <3>. QED
      BY <3>1, <3>2
  <2>. QED
    BY <2>1, <2>3, <2>4, <2>5, Zenon
<1>9. \A k \in 0 .. Len(ps) : k \in S
  <2>1. 0 \in S
    BY <1>1, <1>2 DEF L
  <2>2. \A k \in 1 .. Len(ps) : k - 1 \in S => k \in S
    BY <1>5, <1>8, Zenon
  <2>. HIDE DEF S
  <2>. QED
    BY <1>1, <2>1, <2>2, Counting
<1>10. Len(ps) \in S
  <2>1. Len(ps) \in 0 .. Len(ps)
    BY <1>1
  <2>. QED
    BY <1>9, <2>1, Zenon
<1>. QED
  BY <1>2, <1>10, Zenon DEF L

\* Words go behind them.
LEMMA SortsWords ==
  ASSUME NEW W, NEW ps \in Seq(Seq(W)), NEW f, NEW o \in Nat, NEW w \in Seq(W), NEW g, NEW valueFlags,
         Sorts(f, o, ps, valueFlags), WordPieces(ps),
         f[o] = Sorted(g, w, "word")
  PROVE  f[o + Len(FlattenSeq(ps))] = Sorted(g, w \o FlattenSeq(ps), "word")
<1>. DEFINE L(k) == f[o + Pos(ps, k)]
            T(k) == w \o Upto(ps, k)
            Step(acc, a) == SortWord(acc, a, valueFlags)
            S == {k \in 0 .. Len(ps) : L(k) = Sorted(g, T(k), "word")}
<1>1. Len(ps) \in Nat
  BY LenProperties
<1>2. /\ o + Pos(ps, 0) = o /\ o + Pos(ps, Len(ps)) = o + Len(FlattenSeq(ps))
      /\ T(0) = w /\ T(Len(ps)) = w \o FlattenSeq(ps)
  BY <1>1, FirstPlace
<1>3. Texts(w, ps)
  BY <1>1, TextSteps
<1>4. \A k \in 1 .. Len(ps) :
        /\ Len(ps[k]) = 0 => L(k) = L(k - 1) /\ T(k) = T(k - 1)
        /\ Len(ps[k]) = 1 => L(k) = Step(L(k - 1), ps[k][1]) /\ T(k) = Append(T(k - 1), ps[k][1])
        /\ Len(ps[k]) = 2 => /\ L(k) = Step(Step(L(k - 1), ps[k][1]), ps[k][2])
                             /\ T(k) = Append(Append(T(k - 1), ps[k][1]), ps[k][2])
  BY <1>3, Zenon DEF Sorts, Texts
<1>5. \A k \in 1 .. Len(ps) : k \in 0 .. Len(ps)
  BY <1>1
<1>6. \A t, a : a.dashes = 0 => Step(Sorted(g, t, "word"), a) = Sorted(g, Append(t, a), "word")
  <2>1. \A t : SortKnows(g, t, valueFlags)
    BY SortTakes
  <2>. QED
    BY <2>1, Zenon DEF SortKnows
<1>. HIDE DEF L, T, Step
<1>7. ASSUME NEW k \in 1 .. Len(ps), L(k - 1) = Sorted(g, T(k - 1), "word")
      PROVE  L(k) = Sorted(g, T(k), "word")
  <2>1. Len(ps[k]) = 1 /\ ps[k][1].dashes = 0
    BY Zenon DEF WordPieces
  <2>2. L(k) = Step(L(k - 1), ps[k][1]) /\ T(k) = Append(T(k - 1), ps[k][1])
    BY <1>4, <2>1, Zenon
  <2>. QED
    BY <1>6, <1>7, <2>1, <2>2
<1>8. \A k \in 0 .. Len(ps) : k \in S
  <2>1. 0 \in S
    BY <1>1, <1>2 DEF L
  <2>2. \A k \in 1 .. Len(ps) : k - 1 \in S => k \in S
    BY <1>5, <1>7, Zenon
  <2>. HIDE DEF S
  <2>. QED
    BY <1>1, <2>1, <2>2, Counting
<1>9. Len(ps) \in S
  <2>1. Len(ps) \in 0 .. Len(ps)
    BY <1>1
  <2>. QED
    BY <1>8, <2>1, Zenon
<1>. QED
  BY <1>2, <1>9, Zenon DEF L

\* The flag package leaves the words behind the flags as they are.
LEMMA LeavesWords ==
  ASSUME NEW W, NEW ps \in Seq(Seq(W)), NEW f, NEW o \in Nat, NEW set, NEW names,
         Flags(f, o, ps, names), WordPieces(ps),
         f[o] = Acc(set, None, "flags", <<>>)
  PROVE  \E mode \in Going : f[o + Len(FlattenSeq(ps))] = Acc(set, None, mode, FlattenSeq(ps))
<1>. DEFINE L(k) == f[o + Pos(ps, k)]
            T(k) == <<>> \o Upto(ps, k)
            Step(acc, a) == FlagWord(acc, a, names)
            S == {k \in 0 .. Len(ps) : \E mode \in Going : L(k) = Acc(set, None, mode, T(k))}
<1>1. Len(ps) \in Nat /\ <<>> \in Seq(W)
  BY LenProperties
<1>2. /\ o + Pos(ps, 0) = o /\ o + Pos(ps, Len(ps)) = o + Len(FlattenSeq(ps))
      /\ T(0) = <<>> /\ T(Len(ps)) = <<>> \o FlattenSeq(ps)
  BY <1>1, FirstPlace
<1>3. Texts(<<>>, ps)
  BY <1>1, TextSteps
<1>4. \A k \in 1 .. Len(ps) :
        /\ Len(ps[k]) = 0 => L(k) = L(k - 1) /\ T(k) = T(k - 1)
        /\ Len(ps[k]) = 1 => L(k) = Step(L(k - 1), ps[k][1]) /\ T(k) = Append(T(k - 1), ps[k][1])
        /\ Len(ps[k]) = 2 => /\ L(k) = Step(Step(L(k - 1), ps[k][1]), ps[k][2])
                             /\ T(k) = Append(Append(T(k - 1), ps[k][1]), ps[k][2])
  BY <1>3, Zenon DEF Flags, Texts
<1>5. \A k \in 1 .. Len(ps) : k \in 0 .. Len(ps)
  BY <1>1
<1>6. \A mode \in Going : \A t, a : a.dashes = 0 => Step(Acc(set, None, mode, t), a) =
        Acc(set, None, "words", Append(t, a))
  BY FlagTakesWord
<1>. HIDE DEF L, T, Step
<1>7. ASSUME NEW k \in 1 .. Len(ps), NEW mode \in Going, L(k - 1) = Acc(set, None, mode, T(k - 1))
      PROVE  \E m \in Going : L(k) = Acc(set, None, m, T(k))
  <2>1. Len(ps[k]) = 1 /\ ps[k][1].dashes = 0
    BY Zenon DEF WordPieces
  <2>2. L(k) = Step(L(k - 1), ps[k][1]) /\ T(k) = Append(T(k - 1), ps[k][1])
    BY <1>4, <2>1, Zenon
  <2>3. L(k) = Acc(set, None, "words", T(k))
    BY <1>6, <1>7, <2>1, <2>2
  <2>. QED
    BY <2>3 DEF Going
<1>8. \A k \in 0 .. Len(ps) : k \in S
  <2>1. 0 \in S
    BY <1>1, <1>2 DEF L, Going
  <2>2. \A k \in 1 .. Len(ps) : k - 1 \in S => k \in S
    BY <1>5, <1>7, Zenon
  <2>. HIDE DEF S
  <2>. QED
    BY <1>1, <2>1, <2>2, Counting
<1>9. Len(ps) \in S
  <2>1. Len(ps) \in 0 .. Len(ps)
    BY <1>1
  <2>. QED
    BY <1>8, <2>1, Zenon
<1>10. <<>> \o FlattenSeq(ps) = FlattenSeq(ps)
  <2>1. FlattenSeq(ps) \in Seq(W)
    <3>1. Len(ps) \in 0 .. Len(ps)
      BY <1>1
    <3>. QED
      BY <3>1, UptoIsText
  <2>2. \A t \in Seq(W) : <<>> \o t = t
    OBVIOUS
  <2>. QED
    BY <2>1, <2>2
<1>. QED
  BY <1>2, <1>9, <1>10, Zenon DEF L

-----------------------------------------------------------------------------
(* The commands.                                                           *)

Singles == {"query", "update", "schema", "admin", "tx", "import", "export"}
Children == [conn |-> {"list", "test", "show", "resolve"}, inspect |-> {"schema", "table", "connection"}]

\* A command that runs has one name or two.
IsSingle(path) == \E p \in Singles : path = <<p>>
IsPair(path) == \E p \in {"conn", "inspect"} : \E s \in Children[p] : path = <<p, s>>

LEMMA RunningPaths ==
  ASSUME NEW path \in Leaves \ Printers
  PROVE  IsSingle(path) \/ IsPair(path)
<1>1. /\ Children["conn"] = {"list", "test", "show", "resolve"}
      /\ Children["inspect"] = {"schema", "table", "connection"}
  BY DEF Children
<1>2. \/ \E s \in Children["conn"] : path = <<"conn", s>>
      \/ \E s \in Children["inspect"] : path = <<"inspect", s>>
      \/ path \in Statements \/ path \in {<<"tx">>, <<"import">>, <<"export">>}
  BY <1>1 DEF Leaves, Printers
<1>3. CASE \E s \in Children["conn"] : path = <<"conn", s>>
  BY <1>3 DEF IsPair
<1>4. CASE \E s \in Children["inspect"] : path = <<"inspect", s>>
  BY <1>4 DEF IsPair
<1>5. CASE path \in Statements \/ path \in {<<"tx">>, <<"import">>, <<"export">>}
  BY <1>5 DEF IsSingle, Singles, Statements
<1>. QED
  BY <1>2, <1>3, <1>4, <1>5

\* The commands of one name have no children and no persistent flags.
LEMMA SingleIs ==
  ASSUME NEW p \in Singles
  PROVE  /\ p # "help" /\ <<p>> \in Paths \ (Groups \cup Printers)
         /\ Persistent(<<p>>) = {} /\ \A s : <<p, s>> \notin Paths
<1>1. p # "help"
  BY DEF Singles
<1>2. <<p>> \in Paths \ (Groups \cup Printers)
  BY DEF Singles, Paths, Leaves, Statements, Groups, Printers
<1>3. Persistent(<<p>>) = {}
  BY DEF Singles, Persistent
<1>4. ASSUME NEW s
      PROVE  <<p, s>> \notin Paths
  BY DEF Singles, Paths, Leaves, Statements, Groups
<1>. QED
  BY <1>1, <1>2, <1>3, <1>4

\* Those of two names have the flags of the first.
LEMMA PairIs ==
  ASSUME NEW p \in {"conn", "inspect"}, NEW s \in Children[p]
  PROVE  /\ p # "help" /\ s # "help" /\ <<p>> \in Paths /\ <<p, s>> \in Paths \ (Groups \cup Printers)
         /\ Persistent(<<p>>) = ConnFlags /\ Persistent(<<p, s>>) = {} /\ Local(<<p, s>>) = {}
         /\ \A x : <<p, s, x>> \notin Paths
         /\ Default(<<p, s>>) = Default(<<p>>)
<1>1. \/ p = "conn" /\ s \in {"list", "test", "show", "resolve"}
      \/ p = "inspect" /\ s \in {"schema", "table", "connection"}
  BY DEF Children
<1>2. p # "help" /\ s # "help" /\ <<p>> \in Paths
  BY <1>1 DEF Paths, Groups
<1>3. <<p, s>> \in Paths \ (Groups \cup Printers)
  BY <1>1 DEF Paths, Leaves, Groups, Printers
<1>4. Persistent(<<p>>) = ConnFlags /\ Persistent(<<p, s>>) = {}
  BY <1>1 DEF Persistent
<1>5. Local(<<p, s>>) = {}
  BY <1>1 DEF Local, Statements
<1>6. ASSUME NEW x
      PROVE  <<p, s, x>> \notin Paths
  BY DEF Paths, Leaves, Statements, Groups
<1>7. Default(<<p, s>>) = Default(<<p>>)
  <2>1. Top(<<p, s>>) = Top(<<p>>)
    BY DEF Top
  <2>. QED
    BY <2>1, Zenon DEF Default
<1>. QED
  BY <1>2, <1>3, <1>4, <1>5, <1>6, <1>7

\* One level of the commands.
LEMMA AnswerIs ==
  \A kind, path, set, words :
    /\ Answer(kind, path, set, words).kind = kind /\ Answer(kind, path, set, words).path = path
    /\ Answer(kind, path, set, words).set = set /\ Answer(kind, path, set, words).words = words
BY DEF Answer

\* What one level of the command tree does.
LEMMA DescendsOn ==
  ASSUME NEW path, NEW set, NEW words
  PROVE  Descend(Answer("at", path, set, words)) =
           Follow(Answer("at", path, set, words), ParseFlagSet(words, set, Persistent(path), "kept"))
<1>. DEFINE at == Answer("at", path, set, words)
<1>1. at.kind = "at" /\ at.path = path /\ at.set = set /\ at.words = words
  BY AnswerIs
<1>. HIDE DEF at
<1>2. Descend(at) = Follow(at, ParseFlagSet(at.words, at.set, Persistent(at.path), "kept"))
  BY <1>1 DEF Descend
<1>. QED
  BY <1>1, <1>2, Zenon DEF at

LEMMA DescendsNoMore ==
  ASSUME NEW path, NEW set, NEW words
  PROVE  Descend(Answer("run", path, set, words)) = Answer("run", path, set, words)
<1>1. Answer("run", path, set, words).kind # "at"
  BY AnswerIs
<1>. QED
  BY <1>1, Zenon DEF Descend

\* A child is named.
LEMMA FollowsChild ==
  ASSUME NEW path, NEW set, NEW words, NEW mode \in Going,
         words # <<>>, words[1].dashes = 0, words[1] # Word("help"),
         Append(path, words[1].name) \in Paths
  PROVE  \A old, rest : Follow(Answer("at", path, old, rest), Acc(set, None, mode, words)) =
           Answer("at", Append(path, words[1].name),
                  IF path = <<>> THEN Default(Append(path, words[1].name)) ELSE set, Tail(words))
<1>. SUFFICES ASSUME NEW old, NEW rest
              PROVE  Follow(Answer("at", path, old, rest), Acc(set, None, mode, words)) =
                       Answer("at", Append(path, words[1].name),
                              IF path = <<>> THEN Default(Append(path, words[1].name))
                                ELSE set, Tail(words))
  OBVIOUS
<1>. DEFINE at == Answer("at", path, old, rest)
            outer == Acc(set, None, mode, words)
<1>1. mode # "bad"
  BY DEF Going
<1>2. at.path = path /\ outer.mode # "bad" /\ outer.words = words /\ outer.set = set
  <2>1. at.path = path
    BY AnswerIs
  <2>2. outer.mode = mode /\ outer.words = words /\ outer.set = set
    BY AccFields
  <2>. QED
    BY <1>1, <2>1, <2>2, Zenon
<1>3. words[1] \notin HelpWords
  BY WordIsNoFlag
<1>. HIDE DEF at, outer
<1>4. Below(at.path, outer.words) = Append(path, words[1].name)
  BY <1>2, Zenon DEF Below
<1>. QED
  BY <1>2, <1>3, <1>4, Zenon DEF Follow, at, outer

\* No child is named, and no help is asked for.
Unhelped(words) == words # <<>> => words[1] \notin HelpWords /\ words[1] # Word("help")

LEMMA FollowsHere ==
  ASSUME NEW path, NEW set, NEW words, NEW mode \in Going, NEW old, NEW rest,
         Unhelped(words), <<None>> \notin Paths, \A s : Append(path, s) \notin Paths
  PROVE  Follow(Answer("at", path, old, rest), Acc(set, None, mode, words)) =
           Answered(path, ParseFlagSet(words, set, Local(path), "refused"))
<1>. DEFINE at == Answer("at", path, old, rest)
            outer == Acc(set, None, mode, words)
            first == IF words = <<>> THEN DashDash ELSE words[1]
<1>1. mode # "bad"
  BY DEF Going
<1>2. at.path = path /\ outer.mode # "bad" /\ outer.words = words /\ outer.set = set
  <2>1. at.path = path
    BY AnswerIs
  <2>2. outer.mode = mode /\ outer.words = words /\ outer.set = set
    BY AccFields
  <2>. QED
    BY <1>1, <2>1, <2>2, Zenon
<1>3. first \notin HelpWords /\ first # Word("help")
  <2>1. DashDash.dashes = 2 /\ DashDash.name = "" /\ Word("help").dashes = 0
    BY DashDashDashes, DashDashName, WordIs
  <2>2. \A x \in HelpWords : x.dashes = 2 => x.name = "help"
    BY HelpIs
  <2>3. DashDash \notin HelpWords
    <3>1. "" # "help"
      OBVIOUS
    <3>. QED
      BY <2>1, <2>2, <3>1, Zenon
  <2>4. DashDash # Word("help")
    <3>1. \A x, y : x.dashes = 2 /\ y.dashes = 0 => x # y
      OBVIOUS
    <3>. QED
      BY <2>1, <3>1, Zenon
  <2>. QED
    BY <2>3, <2>4, Zenon DEF Unhelped
<1>. HIDE DEF at, outer
<1>4. Below(at.path, outer.words) \notin Paths
  BY <1>2, Zenon DEF Below
<1>. QED
  BY <1>2, <1>3, <1>4, Zenon DEF Follow, at, outer

\* A line without words leads nowhere.
LEMMA NoSuchPath == <<None>> \notin Paths
BY DEF None, Paths, Leaves, Groups, Statements

\* The command is right as it stands.
LEMMA Runs ==
  ASSUME NEW path, NEW set, NEW words, NEW mode \in Going,
         path \notin Groups \cup Printers, Len(words) \in Counts(path, words),
         \A k \in 1 .. Len(words) : words[k] \notin HelpWords,
         path = <<"tx">> => set["plan"] # Word("")
  PROVE  Answered(path, Acc(set, None, mode, words)) = Answer("run", path, set, words)
<1>. DEFINE inner == Acc(set, None, mode, words)
<1>1. mode # "bad"
  BY DEF Going
<1>2. inner.mode # "bad" /\ inner.words = words /\ inner.set = set
  <2>1. inner.mode = mode /\ inner.words = words /\ inner.set = set
    BY Zenon DEF Acc
  <2>. QED
    BY <1>1, <2>1, Zenon
<1>. HIDE DEF inner
<1>3. KindOf(path, inner) = "run"
  BY <1>2, Zenon DEF KindOf
<1>. QED
  BY <1>2, <1>3, Zenon DEF Answered, inner

-----------------------------------------------------------------------------
(* What a caller writes.                                                   *)

\* The words and the values of a meaning can stand in a line.
LEMMA PlainIs ==
  /\ \A a \in Plain : a.dashes = 0 /\ a \in AnyWord
  /\ \A a \in Simple : a \in AnyWord
<1>1. <<>> \in Seq(Simple)
  OBVIOUS
<1>2. \A a \in Plain : a.dashes = 0 /\ a \in AnyWord
  <2>. SUFFICES ASSUME NEW a \in Plain PROVE a.dashes = 0 /\ a \in AnyWord
    OBVIOUS
  <2>1. a = [dashes |-> 0, name |-> a.name, value |-> <<>>] /\ a.name \in STRING
    BY DEF Plain
  <2>2. \A n \in STRING : [dashes |-> 0, name |-> n, value |-> <<>>] \in AnyWord
    BY <1>1 DEF AnyWord
  <2>3. a \in AnyWord
    BY <2>1, <2>2, Zenon
  <2>4. a.dashes = 0
    BY <2>1
  <2>. QED
    BY <2>3, <2>4
<1>3. \A a \in Simple : a \in AnyWord
  BY <1>1 DEF Simple, AnyWord
<1>. QED
  BY <1>2, <1>3

\* Its words are no flags, and no requests for help.
LEMMA MeantWords ==
  ASSUME NEW m, Sensible(m)
  PROVE  /\ m.words \in Seq(AnyWord) /\ Len(m.words) \in Nat
         /\ \A k \in 1 .. Len(m.words) : m.words[k].dashes = 0 /\ m.words[k] \notin HelpWords
         /\ m.words # <<>> => m.words[1].dashes = 0
         /\ Unhelped(m.words)
<1>. DEFINE w == m.words
<1>1. w \in Seq(Plain) /\ (w # <<>> => w[1] # Word("help"))
  BY DEF Sensible
<1>. HIDE DEF w
<1>2. Len(w) \in Nat /\ (w # <<>> => 1 \in 1 .. Len(w)) /\ \A k \in 1 .. Len(w) : w[k] \in Plain
  BY <1>1
<1>3. \A k \in 1 .. Len(w) : w[k].dashes = 0 /\ w[k] \in AnyWord
  BY <1>2, PlainIs, Zenon
<1>4. \A k \in 1 .. Len(w) : w[k] \notin HelpWords
  BY <1>3, WordIsNoFlag
<1>5. w \in Seq(AnyWord)
  BY <1>1, <1>3
<1>6. Unhelped(w)
  BY <1>1, <1>2, <1>4, Zenon DEF Unhelped
<1>. QED
  BY <1>2, <1>3, <1>4, <1>5, <1>6, Zenon DEF w

\* Its settings have values that suit them, and its command has the flags.
LEMMA MeantFlags ==
  ASSUME NEW m, Sensible(m)
  PROVE  /\ \A n \in DOMAIN m.set :
              /\ n \in Names /\ Suits(n, m.set[n]) /\ (n \in Bools => m.set[n] = Word("true"))
              /\ m.set[n] # DashDash /\ m.set[n] \in AnyWord
         /\ IsSingle(m.path) => DOMAIN m.set \subseteq Local(m.path)
         /\ IsPair(m.path) => DOMAIN m.set \subseteq ConnFlags
<1>1. \A n \in DOMAIN m.set :
        /\ m.set[n] \in Simple \ {DashDash} /\ Suits(n, m.set[n])
        /\ n \in Bools => m.set[n] = Word("true")
  BY Zenon DEF Sensible
<1>2. DOMAIN m.set \subseteq IF Len(m.path) = 1 THEN Local(m.path) ELSE Persistent(<<m.path[1]>>)
  BY Zenon DEF Sensible
<1>3. ASSUME IsSingle(m.path)
      PROVE  DOMAIN m.set \subseteq Local(m.path)
  <2>1. Len(m.path) = 1
    BY <1>3 DEF IsSingle
  <2>. QED
    BY <1>2, <2>1
<1>4. ASSUME IsPair(m.path)
      PROVE  DOMAIN m.set \subseteq ConnFlags
  <2>1. PICK p \in {"conn", "inspect"} : \E s \in Children[p] : m.path = <<p, s>>
    BY <1>4, Zenon DEF IsPair
  <2>2. Len(m.path) = 2 /\ m.path[1] = p
    BY <2>1
  <2>3. Persistent(<<p>>) = ConnFlags
    BY <2>1, PairIs
  <2>. QED
    BY <1>2, <2>2, <2>3
<1>5. Local(m.path) \subseteq Names /\ ConnFlags \subseteq Names
  BY DEF Local, ConnFlags, CommonFlags, ExportFlags, Names
<1>6. DOMAIN m.set \subseteq Names
  <2>1. IsSingle(m.path) \/ IsPair(m.path)
    BY RunningPaths DEF Sensible
  <2>. QED
    BY <1>3, <1>4, <1>5, <2>1
<1>7. \A n \in DOMAIN m.set : m.set[n] # DashDash /\ m.set[n] \in AnyWord
  BY <1>1, PlainIs, Zenon
<1>. QED
  BY <1>1, <1>3, <1>4, <1>6, <1>7, Zenon

\* A parser that has the names can be given the settings.
LEMMA MeantGiven ==
  ASSUME NEW m, Sensible(m), NEW names, DOMAIN m.set \subseteq names
  PROVE  Given(m.set, names)
<1>1. \A n \in DOMAIN m.set : n \in names
  OBVIOUS
<1>2. \A n \in DOMAIN m.set : n \in Names /\ Suits(n, m.set[n]) /\ (n \in Bools => m.set[n] = Word("true"))
  BY MeantFlags, Zenon
<1>. QED
  BY <1>1, <1>2, Zenon DEF Given

\* The pieces of a line, and the two dashes, of which there is one piece at most.
IsPieceOf(p, m) ==
  \/ IsWord(p)
  \/ \E n \in DOMAIN m.set : p \in Spellings(n, m.set[n])

\* What the pieces of a line can be.
LEMMA PieceKinds ==
  ASSUME NEW m, NEW pieces, Sensible(m), Spells(pieces, m)
  PROVE  /\ \A k \in 1 .. Len(pieces) :
              \/ IsPieceOf(pieces[k], m)
              \/ IsDashes(pieces[k]) /\ \A j \in k + 1 .. Len(pieces) : IsWord(pieces[j])
         /\ pieces \in Seq(Seq(AnyWord))
         /\ \A n \in DOMAIN m.set : \E k \in 1 .. Len(pieces) : pieces[k] \in Spellings(n, m.set[n])
<1>1. pieces \in Seq(Seq(AnyWord))
  BY Zenon DEF Spells
<1>2. \A k \in 1 .. Len(pieces) :
        \/ IsPieceOf(pieces[k], m)
        \/ pieces[k] = <<DashDash>> /\ \A j \in k + 1 .. Len(pieces) : IsWord(pieces[j])
  BY Zenon DEF Spells, IsPieceOf
<1>3. \A p : p = <<DashDash>> => IsDashes(p)
  BY DEF IsDashes
<1>4. \A n \in DOMAIN m.set : \E k \in 1 .. Len(pieces) : pieces[k] \in Spellings(n, m.set[n])
  BY Zenon DEF Spells
<1>. QED
  BY <1>1, <1>2, <1>3, <1>4, Zenon

\* A word or a flag is kept as it is.
LEMMA ReadsKept ==
  ASSUME NEW m, Sensible(m), NEW p, IsPieceOf(p, m)
  PROVE  /\ Len(p) \in 1 .. 2 /\ (\A j \in 1 .. Len(p) : p[j] # DashDash) /\ ~IsDashes(p)
         /\ \/ IsWord(p) /\ p[1].dashes = 0
            \/ ~IsWord(p) /\ p[1].dashes = 2 /\ p[1].name \in Names
<1>1. ASSUME IsWord(p)
      PROVE  Len(p) = 1 /\ p[1].dashes = 0 /\ p[1] # DashDash
  BY <1>1, WordPieceIs, WordIsNoFlag
<1>2. ASSUME NEW n \in DOMAIN m.set, p \in Spellings(n, m.set[n])
      PROVE  /\ p[1].dashes = 2 /\ p[1].name \in Names /\ p[1] # DashDash /\ ~IsWord(p)
             /\ Len(p) = 1 \/ (Len(p) = 2 /\ p[2] # DashDash)
  <2>1. n \in Names /\ m.set[n] # DashDash
    BY MeantFlags, Zenon
  <2>2. p[1].dashes = 2 /\ p[1].name = n
    BY <1>2, SpellingIs
  <2>3. Len(p) = 1 \/ (Len(p) = 2 /\ p[2] = m.set[n])
    BY <1>2, SpellingIs
  <2>4. p[1] # DashDash
    BY <2>1, <2>2, FlagIsNoHelp
  <2>5. ~IsWord(p)
    BY <1>1, <2>2
  <2>. QED
    BY <2>1, <2>2, <2>3, <2>4, <2>5, Zenon
<1>3. CASE IsWord(p)
  BY <1>1, <1>3 DEF IsDashes
<1>4. CASE ~IsWord(p)
  <2>1. PICK n \in DOMAIN m.set : p \in Spellings(n, m.set[n])
    BY <1>4, Zenon DEF IsPieceOf
  <2>2. /\ p[1].dashes = 2 /\ p[1].name \in Names /\ p[1] # DashDash
        /\ Len(p) = 1 \/ (Len(p) = 2 /\ p[2] # DashDash)
    BY <1>2, <2>1, Zenon
  <2>. QED
    BY <1>4, <2>2 DEF IsDashes
<1>. QED
  BY <1>3, <1>4

\* The root command keeps the line.
LEMMA LineIsKept ==
  ASSUME NEW m, NEW pieces, Sensible(m), Spells(pieces, m)
  PROVE  /\ Keepable(pieces) /\ Keepable(Undashed(pieces))
         /\ Undashed(Undashed(pieces)) = Undashed(pieces)
         /\ Undashed(pieces) \in Seq(Seq(AnyWord)) /\ Len(Undashed(pieces)) =
              Len(pieces) /\ Len(pieces) \in Nat
         /\ \A k \in 1 .. Len(pieces) : Len(Undashed(pieces)[k]) = 0 \/ IsPieceOf(Undashed(pieces)[k], m)
<1>. DEFINE us == Undashed(pieces)
            N == Len(pieces)
<1>1. /\ \A k \in 1 .. N : \/ IsPieceOf(pieces[k], m)
                           \/ IsDashes(pieces[k]) /\ \A j \in k + 1 .. N : IsWord(pieces[j])
      /\ pieces \in Seq(Seq(AnyWord))
  BY PieceKinds, Zenon
<1>2. /\ us \in Seq(Seq(AnyWord)) /\ Len(us) = N
      /\ \A k \in 1 .. N : us[k] = IF IsDashes(pieces[k]) THEN <<>> ELSE pieces[k]
  BY <1>1, UndashedIs
<1>3. N \in Nat
  BY <1>1
<1>. HIDE DEF us
<1>4. \A p : IsPieceOf(p, m) =>
        Len(p) \in 0 .. 2 /\ (\A j \in 1 .. Len(p) : p[j] # DashDash) /\ ~IsDashes(p)
  BY ReadsKept
<1>5. \A p : IsWord(p) => ~IsDashes(p)
  <2>1. \A p : IsWord(p) => IsPieceOf(p, m)
    BY Zenon DEF IsPieceOf
  <2>. QED
    BY <1>4, <2>1, Zenon
<1>6. Keepable(pieces)
  BY <1>1, <1>4, <1>5, Zenon DEF Keepable
<1>7. \A k \in 1 .. N : Len(us[k]) = 0 \/ IsPieceOf(us[k], m)
  <2>1. Len(<<>>) = 0
    OBVIOUS
  <2>. QED
    BY <1>1, <1>2, <2>1, Zenon
<1>8. \A p : Len(p) = 0 => Len(p) \in 0 .. 2 /\ (\A j \in 1 .. Len(p) : p[j] # DashDash) /\ ~IsDashes(p)
  BY DEF IsDashes
<1>9. \A k \in 1 .. N : Len(us[k]) \in 0 .. 2 /\ (\A j \in 1 .. Len(us[k]) :
        us[k][j] # DashDash) /\ ~IsDashes(us[k])
  BY <1>4, <1>7, <1>8, Zenon
<1>10. Keepable(us)
  BY <1>2, <1>9, Zenon DEF Keepable
<1>11. Undashed(us) = us
  <2>. DEFINE vs == Undashed(us)
  <2>1. /\ vs \in Seq(Seq(AnyWord)) /\ Len(vs) = Len(us)
        /\ \A k \in 1 .. Len(us) : vs[k] = IF IsDashes(us[k]) THEN <<>> ELSE us[k]
    BY <1>2, UndashedIs
  <2>2. \A k \in 1 .. Len(us) : vs[k] = us[k]
    BY <1>2, <1>9, <2>1, Zenon
  <2>. HIDE DEF vs
  <2>3. vs = us
    BY <1>2, <2>1, <2>2, SeqEqual
  <2>. QED
    BY <2>3 DEF vs
<1>. QED
  BY <1>2, <1>3, <1>6, <1>7, <1>10, <1>11, Zenon DEF us

\* The two dashes left out, it is made of words and flags.
LEMMA LineIsSpelled ==
  ASSUME NEW m, NEW pieces, Sensible(m), Spells(pieces, m)
  PROVE  /\ Spelled(Undashed(pieces), m.set)
         /\ OnlyWords(Undashed(pieces)) = OnlyWords(pieces)
<1>. DEFINE us == Undashed(pieces)
            N == Len(pieces)
<1>1. /\ us \in Seq(Seq(AnyWord)) /\ Len(us) = N /\ N \in Nat
      /\ \A k \in 1 .. N : Len(us[k]) = 0 \/ IsPieceOf(us[k], m)
  BY LineIsKept
<1>2. pieces \in Seq(Seq(AnyWord))
  BY PieceKinds
<1>3. \A k \in 1 .. N : us[k] = IF IsDashes(pieces[k]) THEN <<>> ELSE pieces[k]
  BY <1>2, UndashedIs
<1>. HIDE DEF us
<1>4. Spelled(us, m.set)
  BY <1>1, Zenon DEF Spelled, IsPieceOf
<1>5. \A p : IsWord(p) => ~IsDashes(p)
  <2>1. \A p : IsWord(p) => p[1].dashes = 0
    BY WordPieceIs
  <2>2. DashDash.dashes = 2
    BY DashDashDashes
  <2>. QED
    BY <2>1, <2>2 DEF IsDashes
<1>6. ~IsWord(<<>>)
  <2>1. Len(<<>>) # 1
    OBVIOUS
  <2>. QED
    BY <2>1, Zenon DEF IsWord
<1>7. \A k \in 1 .. N : (IF IsWord(us[k]) THEN us[k] ELSE <<>>) =
        (IF IsWord(pieces[k]) THEN pieces[k] ELSE <<>>)
  BY <1>3, <1>5, <1>6, Zenon
<1>8. OnlyWords(us) = OnlyWords(pieces)
  BY <1>1, <1>7, Zenon DEF OnlyWords
<1>. QED
  BY <1>4, <1>8 DEF us

\* All that is meant is set.
LEMMA LineSetsAll ==
  ASSUME NEW m, NEW pieces, Sensible(m), Spells(pieces, m)
  PROVE  SetUpto(Default(m.path), m.set, Undashed(pieces), Len(Undashed(pieces))) = Settings(m)
<1>. DEFINE us == Undashed(pieces)
            N == Len(pieces)
<1>1. us \in Seq(Seq(AnyWord)) /\ Len(us) = N
  BY LineIsKept
<1>2. /\ pieces \in Seq(Seq(AnyWord))
      /\ \A n \in DOMAIN m.set : \E k \in 1 .. N : pieces[k] \in Spellings(n, m.set[n])
  BY PieceKinds, Zenon
<1>3. \A k \in 1 .. N : us[k] = IF IsDashes(pieces[k]) THEN <<>> ELSE pieces[k]
  BY <1>2, UndashedIs
<1>. HIDE DEF us
<1>4. \A n \in DOMAIN m.set : \A p \in Spellings(n, m.set[n]) : ~IsDashes(p)
  <2>1. \A n \in DOMAIN m.set : \A p \in Spellings(n, m.set[n]) : IsPieceOf(p, m)
    BY Zenon DEF IsPieceOf
  <2>2. \A p : IsPieceOf(p, m) => ~IsDashes(p)
    BY ReadsKept
  <2>. QED
    BY <2>1, <2>2, Zenon
<1>5. \A n \in DOMAIN m.set : \E k \in 1 .. Len(us) : us[k] \in Spellings(n, m.set[n])
  BY <1>1, <1>2, <1>3, <1>4, Zenon
<1>6. SetUpto(Default(m.path), m.set, us, Len(us)) = Settings(m)
  BY <1>5, Zenon DEF SetUpto, Settings
<1>. QED
  BY <1>6 DEF us

\* A line does not begin with a word for help behind the names of its command.
LEMMA LineIsUnhelped ==
  ASSUME NEW m, Sensible(m), NEW ps \in Seq(Seq(AnyWord)),
         \A k \in 1 .. Len(ps) : Len(ps[k]) = 0 \/ IsPieceOf(ps[k], m),
         Unhelped(FlattenSeq(OnlyWords(ps)))
  PROVE  Unhelped(FlattenSeq(ps))
<1>. SUFFICES ASSUME FlattenSeq(ps) # <<>>
              PROVE  FlattenSeq(ps)[1] \notin HelpWords /\ FlattenSeq(ps)[1] # Word("help")
  BY Zenon DEF Unhelped
<1>1. PICK k \in 1 .. Len(ps) : /\ Len(ps[k]) # 0 /\ \A j \in 1 .. k - 1 : Len(ps[j]) = 0
                                /\ FlattenSeq(ps)[1] = ps[k][1]
  BY SomePiece
<1>2. IsPieceOf(ps[k], m)
  BY <1>1
<1>3. \/ IsWord(ps[k]) /\ ps[k][1].dashes = 0
      \/ ps[k][1].dashes = 2 /\ ps[k][1].name \in Names
  BY <1>2, ReadsKept
<1>4. CASE IsWord(ps[k]) /\ ps[k][1].dashes = 0
  <2>. DEFINE ws == OnlyWords(ps)
  <2>1. /\ ws \in Seq(Seq(AnyWord)) /\ Len(ws) = Len(ps)
        /\ \A j \in 1 .. Len(ps) : ws[j] = IF IsWord(ps[j]) THEN ps[j] ELSE <<>>
    BY OnlyWordsIs
  <2>. HIDE DEF ws
  <2>2. \A j \in 1 .. k - 1 : Len(ws[j]) = 0
    <3>1. \A j \in 1 .. k - 1 : j \in 1 .. Len(ps)
      OBVIOUS
    <3>2. Len(<<>>) = 0
      OBVIOUS
    <3>. QED
      BY <1>1, <2>1, <3>1, <3>2, Zenon
  <2>3. ws[k] = ps[k] /\ k \in 1 .. Len(ws) /\ Len(ws[k]) # 0
    BY <1>1, <1>4, <2>1, Zenon
  <2>4. FlattenSeq(ws) # <<>> /\ FlattenSeq(ws)[1] = ws[k][1]
    BY <2>1, <2>2, <2>3, FirstPiece
  <2>. QED
    BY <1>1, <2>3, <2>4, Zenon DEF Unhelped, ws
<1>5. CASE ps[k][1].dashes = 2 /\ ps[k][1].name \in Names
  <2>. DEFINE a == ps[k][1]
  <2>1. a \notin HelpWords
    BY <1>5, FlagIsNoHelp
  <2>2. a # Word("help")
    <3>1. Word("help").dashes = 0
      BY WordIs
    <3>. QED
      BY <1>5, <3>1
  <2>. QED
    BY <1>1, <2>1, <2>2
<1>. QED
  BY <1>3, <1>4, <1>5

-----------------------------------------------------------------------------
(* Down to the command.                                                    *)

\* A parser that knows no flags keeps what it has not yet read.
LEMMA KeepsRest ==
  ASSUME NEW W, NEW ps \in Seq(Seq(W)), Keepable(ps), NEW args \in Seq(W), NEW o \in Nat, NEW w \in Seq(W),
         NEW set, NEW names, NEW unknown, Unknowing(names, unknown), Stands(args, o, FlattenSeq(ps)),
         Len(args) = o + Len(FlattenSeq(ps)),
         Parsing(args, set, names, unknown)[o] = Acc(set, None, "flags", w)
  PROVE  \E mode \in Going :
           ParseFlagSet(args, set, names, unknown) = Acc(set, None, mode, w \o FlattenSeq(Undashed(ps)))
<1>. DEFINE f == Parsing(args, set, names, unknown)
<1>1. Parses(f, o, ps, names, unknown)
  <2>1. Len(args) \in Nat
    OBVIOUS
  <2>. QED
    BY <2>1, ParsingSteps
<1>. HIDE DEF f
<1>2. \E mode \in Going : f[Len(args)] = Acc(set, None, mode, w \o FlattenSeq(Undashed(ps)))
  <2>1. f[o] = Acc(set, None, "flags", w)
    BY DEF f
  <2>2. \E mode \in Going : f[o + Len(FlattenSeq(ps))] = Acc(set, None, mode, w \o FlattenSeq(Undashed(ps)))
    BY <1>1, <2>1, Keeps
  <2>. QED
    BY <2>2
<1>3. ParseFlagSet(args, set, names, unknown) = Ended(f[Len(args)])
  BY LoopsAre, Zenon DEF f
<1>. QED
  BY <1>2, <1>3, Ends, Zenon

\* The first word of a line is the name of a command.
KeptBehind(ps, a, set, names, unknown) ==
  \E mode \in Going :
    ParseFlagSet(<<a>> \o FlattenSeq(ps), set, names, unknown) =
      Acc(set, None, mode, <<a>> \o FlattenSeq(Undashed(ps)))

\* A word in front of a line that is kept is kept too.
LEMMA KeepsBehind ==
  ASSUME NEW W, NEW ps \in Seq(Seq(W)), Keepable(ps), NEW a \in W, a.dashes = 0, NEW set,
         NEW names, NEW unknown, Unknowing(names, unknown)
  PROVE  KeptBehind(ps, a, set, names, unknown)
<1>. DEFINE t == FlattenSeq(ps)
            args == <<a>> \o t
            f == Parsing(args, set, names, unknown)
            w == <<a>>
<1>1. t \in Seq(W)
  <2>1. Len(ps) \in 0 .. Len(ps)
    OBVIOUS
  <2>. QED
    BY <2>1, UptoIsText
<1>. HIDE DEF t
<1>2. args \in Seq(W) /\ Len(args) = 1 + Len(t) /\ args[1] = a /\ Stands(args, 1, t) /\ Len(t) \in Nat
  BY <1>1 DEF Stands
<1>3. w \in Seq(W) /\ Append(<<>>, a) = w
  OBVIOUS
<1>. HIDE DEF args, w
<1>4. f[0] = Start(set) /\ f[1] = ParseWord(f[0], a, names, unknown)
  <2>1. /\ f[0] = Start(set)
        /\ \A k \in 1 .. Len(args) : f[k] = ParseWord(f[k - 1], args[k], names, unknown)
    BY <1>2, ParsingIs
  <2>2. 1 \in 1 .. Len(args) /\ 1 - 1 = 0
    BY <1>2
  <2>. QED
    BY <1>2, <2>1, <2>2
<1>. HIDE DEF f
<1>5. f[1] = Acc(set, None, "flags", w)
  <2>1. f[0] = Acc(set, None, "flags", <<>>)
    BY <1>4, Starts, Zenon
  <2>2. \A v, b : b.dashes = 0 =>
          ParseWord(Acc(set, None, "flags", v), b, names, unknown) = Acc(set, None, "flags", Append(v, b))
    BY ParseTakesWord
  <2>. QED
    BY <1>3, <1>4, <2>1, <2>2, Zenon
<1>6. \E mode \in Going : ParseFlagSet(args, set, names, unknown) =
        Acc(set, None, mode, w \o FlattenSeq(Undashed(ps)))
  BY <1>2, <1>3, <1>5, KeepsRest DEF t, f
<1>. QED
  BY <1>6 DEF KeptBehind, args, w, t

LEMMA KeepsAll ==
  ASSUME NEW ps \in Seq(Seq(AnyWord)), Keepable(ps), NEW set, NEW names, NEW unknown,
         Unknowing(names, unknown)
  PROVE  \E mode \in Going :
           ParseFlagSet(FlattenSeq(ps), set, names, unknown) =
             Acc(set, None, mode, FlattenSeq(Undashed(ps)))
<1>. DEFINE t == FlattenSeq(ps)
            v == FlattenSeq(Undashed(ps))
            f == Parsing(t, set, names, unknown)
<1>1. \A qs \in Seq(Seq(AnyWord)) : FlattenSeq(qs) \in Seq(AnyWord)
  <2>. SUFFICES ASSUME NEW qs \in Seq(Seq(AnyWord)) PROVE FlattenSeq(qs) \in Seq(AnyWord)
    OBVIOUS
  <2>1. Len(qs) \in 0 .. Len(qs)
    OBVIOUS
  <2>. QED
    BY <2>1, UptoIsText
<1>2. t \in Seq(AnyWord) /\ v \in Seq(AnyWord)
  <2>1. Undashed(ps) \in Seq(Seq(AnyWord))
    BY UndashedIs
  <2>. QED
    BY <1>1, <2>1, Zenon
<1>. HIDE DEF t, v
<1>3. Len(t) = 0 + Len(t) /\ Stands(t, 0, t) /\ Len(t) \in Nat /\ <<>> \o v = v /\ <<>> \in Seq(AnyWord)
  BY <1>2 DEF Stands
<1>4. f[0] = Acc(set, None, "flags", <<>>)
  <2>1. f[0] = Start(set)
    BY <1>3, ParsingIs
  <2>. QED
    BY <2>1, Starts, Zenon
<1>. HIDE DEF f
<1>5. \E mode \in Going : ParseFlagSet(t, set, names, unknown) = Acc(set, None, mode, <<>> \o v)
  <2>. DEFINE o == 0
              w == <<>>
  <2>1. /\ o \in Nat /\ w \in Seq(AnyWord) /\ Stands(t, o, FlattenSeq(ps)) /\ Len(t) =
             o + Len(FlattenSeq(ps))
        /\ Parsing(t, set, names, unknown)[o] = Acc(set, None, "flags", w)
    BY <1>3, <1>4 DEF t, f
  <2>. HIDE DEF o, w
  <2>2. \E mode \in Going : ParseFlagSet(t, set, names, unknown) =
          Acc(set, None, mode, w \o FlattenSeq(Undashed(ps)))
    BY <1>2, <2>1, KeepsRest
  <2>. QED
    BY <2>2 DEF v, w
<1>. QED
  BY <1>3, <1>5 DEF t, v

\* A parser that knows the flags takes them, and keeps the words.
LEMMA ReadsAll ==
  ASSUME NEW ps \in Seq(Seq(AnyWord)), NEW names, NEW unknown, NEW base, IsSetting(base),
         NEW g, Given(g, names), Spelled(ps, g)
  PROVE  ParseFlagSet(FlattenSeq(ps), base, names, unknown) =
           Acc(SetUpto(base, g, ps, Len(ps)), None, "flags", FlattenSeq(OnlyWords(ps)))
<1>. DEFINE t == FlattenSeq(ps)
            v == FlattenSeq(OnlyWords(ps))
            f == Parsing(t, base, names, unknown)
<1>1. \A qs \in Seq(Seq(AnyWord)) : FlattenSeq(qs) \in Seq(AnyWord)
  <2>. SUFFICES ASSUME NEW qs \in Seq(Seq(AnyWord)) PROVE FlattenSeq(qs) \in Seq(AnyWord)
    OBVIOUS
  <2>1. Len(qs) \in 0 .. Len(qs)
    OBVIOUS
  <2>. QED
    BY <2>1, UptoIsText
<1>2. t \in Seq(AnyWord) /\ v \in Seq(AnyWord)
  <2>1. OnlyWords(ps) \in Seq(Seq(AnyWord))
    BY OnlyWordsIs
  <2>. QED
    BY <1>1, <2>1, Zenon
<1>. HIDE DEF t, v
<1>3. 0 + Len(t) = Len(t) /\ Stands(t, 0, t) /\ Len(t) \in Nat /\ <<>> \o v = v /\ <<>> \in Seq(AnyWord)
  BY <1>2 DEF Stands
<1>4. f[0] = Acc(base, None, "flags", <<>>)
  <2>1. f[0] = Start(base)
    BY <1>3, ParsingIs
  <2>. QED
    BY <2>1, Starts, Zenon
<1>5. Parses(f, 0, ps, names, unknown)
  BY <1>3, ParsingSteps DEF t
<1>. HIDE DEF f
<1>6. f[0 + Len(t)] = Acc(SetUpto(base, g, ps, Len(ps)), None, "flags", <<>> \o v)
  <2>. DEFINE o == 0
              w == <<>>
  <2>1. o \in Nat /\ w \in Seq(AnyWord) /\ Parses(f, o, ps, names, unknown) /\ f[o] =
          Acc(base, None, "flags", w)
    BY <1>3, <1>4, <1>5
  <2>. HIDE DEF o, w
  <2>2. f[o + Len(FlattenSeq(ps))] =
          Acc(SetUpto(base, g, ps, Len(ps)), None, "flags", w \o FlattenSeq(OnlyWords(ps)))
    BY <2>1, Reads
  <2>. QED
    BY <2>2 DEF t, v, o, w
<1>7. ParseFlagSet(t, base, names, unknown) = Ended(f[Len(t)])
  BY LoopsAre, Zenon DEF f
<1>8. f[Len(t)] = Acc(SetUpto(base, g, ps, Len(ps)), None, "flags", v)
  BY <1>3, <1>6
<1>. QED
  BY <1>7, <1>8, Ends, Zenon DEF t, v

\* A line of words only, read without any flags, stays as it is.
LEMMA ReadsWords ==
  ASSUME NEW w \in Seq(Plain), NEW unknown, NEW base, IsSetting(base)
  PROVE  ParseFlagSet(w, base, {}, unknown) = Acc(base, None, "flags", w)
<1>. DEFINE ps == Singly(w)
            g == [n \in {} |-> n]
<1>1. w \in Seq(AnyWord) /\ \A k \in 1 .. Len(w) : w[k] \in Plain
  BY PlainIs
<1>2. /\ ps \in Seq(Seq(AnyWord)) /\ Len(ps) = Len(w) /\ FlattenSeq(ps) = w
      /\ \A k \in 1 .. Len(w) : Len(ps[k]) = 1 /\ ps[k][1] = w[k]
  BY <1>1, SinglyIs
<1>. HIDE DEF ps
<1>3. \A k \in 1 .. Len(ps) : IsWord(ps[k])
  BY <1>1, <1>2, Zenon DEF IsWord
<1>4. Spelled(ps, g)
  BY <1>3, Zenon DEF Spelled
<1>5. Given(g, {})
  BY DEF Given
<1>6. OnlyWords(ps) = ps
  <2>. DEFINE ws == OnlyWords(ps)
  <2>1. /\ ws \in Seq(Seq(AnyWord)) /\ Len(ws) = Len(ps)
        /\ \A k \in 1 .. Len(ps) : ws[k] = IF IsWord(ps[k]) THEN ps[k] ELSE <<>>
    BY <1>2, OnlyWordsIs
  <2>2. \A k \in 1 .. Len(ps) : ws[k] = ps[k]
    BY <1>3, <2>1, Zenon
  <2>. HIDE DEF ws
  <2>3. ws = ps
    BY <1>2, <2>1, <2>2, SeqEqual
  <2>. QED
    BY <2>3 DEF ws
<1>7. SetUpto(base, g, ps, Len(ps)) = base
  <2>1. \A n : n \notin DOMAIN g
    OBVIOUS
  <2>2. SetUpto(base, g, ps, Len(ps)) = [n \in Names |-> base[n]]
    <3>. HIDE DEF g
    <3>. QED
      BY <2>1, Zenon DEF SetUpto
  <2>. QED
    BY <2>2, Zenon DEF IsSetting
<1>. HIDE DEF g
<1>8. ParseFlagSet(FlattenSeq(ps), base, {}, unknown) =
        Acc(SetUpto(base, g, ps, Len(ps)), None, "flags", FlattenSeq(OnlyWords(ps)))
  BY <1>2, <1>4, <1>5, ReadsAll
<1>. QED
  BY <1>2, <1>6, <1>7, <1>8

\* Every command has a value for every setting.
LEMMA Defaults ==
  /\ \A path : IsSetting(Default(path))
  /\ \A m : IsSetting(Settings(m))
<1>1. ASSUME NEW path
      PROVE  IsSetting(Default(path))
  BY DEF IsSetting, Default
<1>2. ASSUME NEW m
      PROVE  IsSetting(Settings(m))
  BY DEF IsSetting, Settings
<1>. QED
  BY <1>1, <1>2

-----------------------------------------------------------------------------
(* A line is parsed as it is meant.                                        *)

\* The root command goes down to the command the line begins with.
LEMMA FirstLevel ==
  ASSUME NEW ps \in Seq(Seq(AnyWord)), Keepable(ps), NEW p, p # "help", <<p>> \in Paths
  PROVE  Descend(Answer("at", <<>>, Default(<<>>), <<Word(p)>> \o FlattenSeq(ps)))
           = Answer("at", <<p>>, Default(<<p>>), FlattenSeq(Undashed(ps)))
<1>. DEFINE a == Word(p)
            d == Default(<<>>)
            rest == <<a>> \o FlattenSeq(ps)
            v == FlattenSeq(Undashed(ps))
            words == <<a>> \o v
<1>. DEFINE W == AnyWord \cup {a}
<1>1. ps \in Seq(Seq(W))
  <2>1. \A A, B : A \subseteq B => Seq(A) \subseteq Seq(B)
    OBVIOUS
  <2>2. AnyWord \subseteq W
    OBVIOUS
  <2>3. Seq(AnyWord) \subseteq Seq(W)
    BY <2>1, <2>2, Zenon
  <2>4. Seq(Seq(AnyWord)) \subseteq Seq(Seq(W))
    BY <2>1, <2>3, Zenon
  <2>. QED
    BY <2>4
<1>2. a \in W /\ a.dashes = 0 /\ a.name = p /\ a # Word("help")
  <2>1. a \in W
    OBVIOUS
  <2>2. a.dashes = 0 /\ a.name = p
    BY WordIs
  <2>3. Word("help").name = "help"
    BY WordIs
  <2>. QED
    BY <2>1, <2>2, <2>3
<1>. HIDE DEF a, d, W
<1>. DEFINE names == {}
            unknown == "kept"
<1>3. Unknowing(names, unknown)
  BY DEF Unknowing
<1>. HIDE DEF names, unknown
<1>4. PICK mode \in Going : ParseFlagSet(rest, d, names, unknown) = Acc(d, None, mode, words)
  <2>1. \E mode \in Going :
          ParseFlagSet(<<a>> \o FlattenSeq(ps), d, names, unknown)
            = Acc(d, None, mode, <<a>> \o FlattenSeq(Undashed(ps)))
    <3>1. KeptBehind(ps, a, d, names, unknown)
      BY <1>2, <1>3, <1>1, KeepsBehind
    <3>. QED
      BY <3>1, Zenon DEF KeptBehind
  <2>. QED
    BY <2>1, Zenon
<1>5. Persistent(<<>>) = {}
  BY DEF Persistent
<1>6. v \in Seq(AnyWord)
  <2>1. Undashed(ps) \in Seq(Seq(AnyWord))
    BY UndashedIs
  <2>2. Len(Undashed(ps)) \in 0 .. Len(Undashed(ps))
    BY <2>1
  <2>. QED
    BY <2>1, <2>2, UptoIsText
<1>. HIDE DEF rest, v
<1>7. words # <<>> /\ words[1] = a /\ Tail(words) = v
  BY <1>6
<1>8. Append(<<>>, p) = <<p>>
  OBVIOUS
<1>. HIDE DEF words
<1>9. Descend(Answer("at", <<>>, d, rest)) = Follow(Answer("at", <<>>, d, rest), Acc(d, None, mode, words))
  <2>1. Descend(Answer("at", <<>>, d, rest)) =
          Follow(Answer("at", <<>>, d, rest), ParseFlagSet(rest, d, Persistent(<<>>), "kept"))
    BY DescendsOn
  <2>. QED
    BY <1>4, <1>5, <2>1 DEF names, unknown
<1>10. Follow(Answer("at", <<>>, d, rest), Acc(d, None, mode, words)) =
        Answer("at", Append(<<>>, words[1].name), IF <<>> = <<>> THEN Default(Append(<<>>, words[1].name))
          ELSE d, Tail(words))
  <2>. DEFINE path == <<>>
  <2>1. words # <<>> /\ words[1].dashes =
          0 /\ words[1] # Word("help") /\ Append(path, words[1].name) \in Paths
    BY <1>2, <1>7, <1>8
  <2>. HIDE DEF path
  <2>2. Follow(Answer("at", path, d, rest), Acc(d, None, mode, words)) =
          Answer("at", Append(path, words[1].name), IF path = <<>>
            THEN Default(Append(path, words[1].name)) ELSE d, Tail(words))
    BY <2>1, FollowsChild
  <2>. QED
    BY <2>2 DEF path
<1>. QED
  BY <1>2, <1>7, <1>8, <1>9, <1>10 DEF a, d, rest, v

\* The path of a child.
LEMMA ChildIsLast ==
  /\ \A a, b : Append(<<a>>, b) = <<a, b>>
  /\ \A a, b, c : Append(<<a, b>>, c) = <<a, b, c>>
<1>1. ASSUME NEW a, NEW b
      PROVE  Append(<<a>>, b) = <<a, b>>
  <2>. DEFINE W == {a, b}
              s == Append(<<a>>, b)
              t == <<a, b>>
  <2>1. <<a>> \in Seq(W) /\ b \in W /\ Len(<<a>>) = 1
    OBVIOUS
  <2>2. s \in Seq(W) /\ Len(s) = 2 /\ s[1] = a /\ s[2] = b
    BY <2>1
  <2>3. t \in Seq(W) /\ Len(t) = 2 /\ t[1] = a /\ t[2] = b
    OBVIOUS
  <2>. HIDE DEF W, s, t
  <2>4. \A i \in 1 .. Len(s) : s[i] = t[i]
    BY <2>2, <2>3
  <2>5. s = t
    BY <2>2, <2>3, <2>4, SeqEqual
  <2>. QED
    BY <2>5 DEF s, t
<1>2. ASSUME NEW a, NEW b, NEW c
      PROVE  Append(<<a, b>>, c) = <<a, b, c>>
  <2>. DEFINE W == {a, b, c}
              s == Append(<<a, b>>, c)
              t == <<a, b, c>>
  <2>1. <<a, b>> \in Seq(W) /\ c \in W /\ Len(<<a, b>>) = 2
    OBVIOUS
  <2>2. s \in Seq(W) /\ Len(s) = 3 /\ s[1] = a /\ s[2] = b /\ s[3] = c
    BY <2>1
  <2>3. t \in Seq(W) /\ Len(t) = 3 /\ t[1] = a /\ t[2] = b /\ t[3] = c
    OBVIOUS
  <2>. HIDE DEF W, s, t
  <2>4. \A i \in 1 .. Len(s) : s[i] = t[i]
    BY <2>2, <2>3
  <2>5. s = t
    BY <2>2, <2>3, <2>4, SeqEqual
  <2>. QED
    BY <2>5 DEF s, t
<1>. QED
  BY <1>1, <1>2

\* The words of a command are the last of its line.
LEMMA WordsBehindNames ==
  ASSUME NEW m, NEW pieces, Sensible(m), Spells(pieces, m)
  PROVE  /\ \A p : m.path = <<p>> => FlattenSeq(OnlyWords(pieces)) = m.words
         /\ \A p, s : m.path = <<p, s>> => FlattenSeq(OnlyWords(pieces)) = <<Word(s)>> \o m.words
<1>1. FlattenSeq(OnlyWords(pieces)) = [i \in 1 .. Len(m.path) - 1 |-> Word(m.path[i + 1])] \o m.words
  BY Zenon DEF Spells
<1>. DEFINE w == m.words
<1>2. w \in Seq(AnyWord)
  BY MeantWords
<1>. HIDE DEF w
<1>3. ASSUME NEW p, m.path = <<p>>
      PROVE  FlattenSeq(OnlyWords(pieces)) = w
  <2>1. [i \in 1 .. Len(m.path) - 1 |-> Word(m.path[i + 1])] = <<>>
    BY <1>3
  <2>2. <<>> \o w = w
    BY <1>2
  <2>. QED
    BY <1>1, <2>1, <2>2 DEF w
<1>4. ASSUME NEW p, NEW s, m.path = <<p, s>>
      PROVE  FlattenSeq(OnlyWords(pieces)) = <<Word(s)>> \o w
  <2>1. [i \in 1 .. Len(m.path) - 1 |-> Word(m.path[i + 1])] = <<Word(s)>>
    <3>. DEFINE a == Word(s)
    <3>1. Len(m.path) - 1 = 1 /\ m.path[1 + 1] = s
      BY <1>4
    <3>2. \A i \in 1 .. 1 : Word(m.path[i + 1]) = a
      BY <3>1
    <3>. HIDE DEF a
    <3>3. [i \in 1 .. 1 |-> a] = <<a>>
      OBVIOUS
    <3>4. [i \in 1 .. 1 |-> Word(m.path[i + 1])] = [i \in 1 .. 1 |-> a]
      BY <3>2, Zenon
    <3>. QED
      BY <3>1, <3>3, <3>4 DEF a
  <2>. QED
    BY <1>1, <2>1, Zenon DEF w
<1>. QED
  BY <1>3, <1>4, Zenon DEF w

\* What was meant is run.
LEMMA MeantRuns ==
  ASSUME NEW m, Sensible(m), m.path \notin Groups \cup Printers, NEW mode \in Going
  PROVE  Answered(m.path, Acc(Settings(m), None, mode, m.words)) = Meant(m)
<1>1. Len(m.words) \in Counts(m.path, m.words)
  BY Zenon DEF Sensible
<1>2. \A k \in 1 .. Len(m.words) : m.words[k] \notin HelpWords
  BY MeantWords
<1>3. m.path = <<"tx">> => Settings(m)["plan"] # Word("")
  <2>1. m.path = <<"tx">> => "plan" \in DOMAIN m.set /\ m.set["plan"] # Word("")
    BY Zenon DEF Sensible
  <2>2. "plan" \in Names
    BY DEF Names
  <2>. QED
    BY <2>1, <2>2, Zenon DEF Settings
<1>. DEFINE set == Settings(m)
            path == m.path
            w == m.words
<1>. HIDE DEF set, path, w
<1>4. Answered(path, Acc(set, None, mode, w)) = Answer("run", path, set, w)
  BY <1>1, <1>2, <1>3, Runs DEF set, path, w
<1>. QED
  BY <1>4, Zenon DEF Meant, set, path, w

\* A command with one name parses its flags itself, with all it does not know refused.
LEMMA SingleLevel ==
  ASSUME NEW m, NEW pieces, Sensible(m), Spells(pieces, m), NEW p \in Singles, m.path = <<p>>
  PROVE  Descend(Answer("at", <<p>>, Default(<<p>>), FlattenSeq(Undashed(pieces)))) = Meant(m)
<1>. DEFINE us == Undashed(pieces)
            t == FlattenSeq(us)
            d == Default(m.path)
            path == m.path
<1>1. /\ us \in Seq(Seq(AnyWord)) /\ Keepable(us) /\ Undashed(us) = us
      /\ \A k \in 1 .. Len(us) : Len(us[k]) = 0 \/ IsPieceOf(us[k], m)
  BY LineIsKept
<1>2. Spelled(us, m.set) /\ FlattenSeq(OnlyWords(us)) = m.words
  BY LineIsSpelled, WordsBehindNames
<1>3. SetUpto(d, m.set, us, Len(us)) = Settings(m)
  BY LineSetsAll
<1>4. IsSetting(d)
  BY Defaults
<1>5. Given(m.set, Local(path))
  <2>1. IsSingle(path)
    BY DEF IsSingle
  <2>2. DOMAIN m.set \subseteq Local(path)
    BY <2>1, MeantFlags
  <2>. QED
    BY <2>2, MeantGiven
<1>6. path \notin Groups \cup Printers /\ Persistent(path) = {} /\ \A s : Append(path, s) \notin Paths
  <2>1. <<p>> \notin Groups \cup Printers /\ Persistent(<<p>>) = {} /\ \A s : <<p, s>> \notin Paths
    BY SingleIs
  <2>. QED
    BY <2>1, ChildIsLast
<1>7. Unhelped(t)
  <2>1. Unhelped(FlattenSeq(OnlyWords(us)))
    BY <1>2, MeantWords
  <2>. HIDE DEF us
  <2>. QED
    BY <1>1, <2>1, LineIsUnhelped
<1>. HIDE DEF us, d, path
<1>. DEFINE names == {}
            kept == "kept"
            refused == "refused"
            flags == Local(path)
<1>8. Unknowing(names, kept)
  BY DEF Unknowing
<1>. HIDE DEF names, kept, refused, flags
<1>9. PICK mode \in Going : ParseFlagSet(t, d, names, kept) = Acc(d, None, mode, t)
  <2>1. \E mode \in Going : ParseFlagSet(FlattenSeq(us), d, names, kept) =
          Acc(d, None, mode, FlattenSeq(Undashed(us)))
    BY <1>1, <1>8, KeepsAll
  <2>. QED
    BY <1>1, <2>1
<1>10. ParseFlagSet(t, d, flags, refused) = Acc(Settings(m), None, "flags", m.words)
  <2>1. Given(m.set, flags)
    BY <1>5 DEF flags
  <2>2. ParseFlagSet(FlattenSeq(us), d, flags, refused) =
          Acc(SetUpto(d, m.set, us, Len(us)), None, "flags", FlattenSeq(OnlyWords(us)))
    BY <1>1, <1>2, <1>4, <2>1, ReadsAll
  <2>. QED
    BY <1>2, <1>3, <2>2
<1>. HIDE DEF t
<1>11. Descend(Answer("at", path, d, t)) = Follow(Answer("at", path, d, t), Acc(d, None, mode, t))
  <2>1. Descend(Answer("at", path, d, t)) =
          Follow(Answer("at", path, d, t), ParseFlagSet(t, d, Persistent(path), kept))
    BY DescendsOn DEF kept
  <2>. QED
    BY <1>6, <1>9, <2>1 DEF names
<1>12. Follow(Answer("at", path, d, t), Acc(d, None, mode, t)) =
         Answered(path, ParseFlagSet(t, d, flags, refused))
  BY <1>6, <1>7, NoSuchPath, FollowsHere DEF flags, refused
<1>13. Answered(path, Acc(Settings(m), None, "flags", m.words)) = Meant(m)
  BY <1>6, MeantRuns DEF Going, path
<1>. QED
  BY <1>10, <1>11, <1>12, <1>13 DEF path, d, t, us

\* A command with two names leaves its flags to the first of them.
LEMMA PairLevel ==
  ASSUME NEW m, NEW pieces, Sensible(m), Spells(pieces, m),
         NEW p \in {"conn", "inspect"}, NEW s \in Children[p], m.path = <<p, s>>
  PROVE  Descend(Descend(Answer("at", <<p>>, Default(<<p>>), FlattenSeq(Undashed(pieces))))) = Meant(m)
<1>. DEFINE us == Undashed(pieces)
            t == FlattenSeq(us)
            d == Default(<<p>>)
            path == m.path
            first == <<p>>
            a == Word(s)
            w == m.words
            v == <<a>> \o w
            set == Settings(m)
<1>1. us \in Seq(Seq(AnyWord))
  BY LineIsKept
<1>2. Spelled(us, m.set) /\ FlattenSeq(OnlyWords(us)) = v
  <2>1. FlattenSeq(OnlyWords(pieces)) = <<Word(s)>> \o m.words
    BY WordsBehindNames, Zenon
  <2>. QED
    BY <2>1, LineIsSpelled
<1>3. /\ Persistent(first) = ConnFlags /\ Persistent(path) = {} /\ Local(path) = {}
      /\ path \in Paths \ (Groups \cup Printers) /\ s # "help"
      /\ \A x : Append(path, x) \notin Paths
      /\ d = Default(path)
  <2>1. /\ s # "help" /\ <<p, s>> \in Paths \ (Groups \cup Printers)
        /\ Persistent(<<p>>) = ConnFlags /\ Persistent(<<p, s>>) = {} /\ Local(<<p, s>>) = {}
        /\ \A x : <<p, s, x>> \notin Paths
        /\ Default(<<p, s>>) = Default(<<p>>)
    BY PairIs
  <2>2. \A x : Append(<<p, s>>, x) = <<p, s, x>>
    BY ChildIsLast
  <2>. QED
    BY <2>1, <2>2, Zenon
<1>4. SetUpto(d, m.set, us, Len(us)) = set
  BY <1>3, LineSetsAll
<1>5. IsSetting(d) /\ IsSetting(set)
  BY Defaults
<1>6. Given(m.set, ConnFlags)
  <2>1. IsPair(path)
    BY Zenon DEF IsPair
  <2>2. DOMAIN m.set \subseteq ConnFlags
    BY <2>1, MeantFlags
  <2>. QED
    BY <2>2, MeantGiven
<1>7. w \in Seq(AnyWord) /\ w \in Seq(Plain) /\ Unhelped(w)
  BY MeantWords DEF Sensible
<1>8. a.dashes = 0 /\ a.name = s /\ a # Word("help")
  <2>1. a.dashes = 0 /\ a.name = s /\ Word("help").name = "help"
    BY WordIs
  <2>. QED
    BY <1>3, <2>1
<1>9. Append(first, s) = path /\ first # <<>>
  BY ChildIsLast
<1>. HIDE DEF us, d, path, first, a, w, set
<1>10. v # <<>> /\ v[1] = a /\ Tail(v) = w
  BY <1>7
<1>. HIDE DEF v
<1>. DEFINE names == {}
            kept == "kept"
            refused == "refused"
            conn == ConnFlags
            flags == "flags"
<1>. HIDE DEF names, kept, refused, conn, flags
<1>11. ParseFlagSet(t, d, conn, kept) = Acc(set, None, flags, v) /\ flags \in Going
  <2>1. Given(m.set, conn)
    BY <1>6 DEF conn
  <2>2. ParseFlagSet(FlattenSeq(us), d, conn, kept) =
          Acc(SetUpto(d, m.set, us, Len(us)), None, "flags", FlattenSeq(OnlyWords(us)))
    BY <1>1, <1>2, <1>5, <2>1, ReadsAll
  <2>. QED
    BY <1>2, <1>4, <2>2 DEF flags, Going
<1>. HIDE DEF t
<1>12. Descend(Answer("at", first, d, t)) = Answer("at", path, set, w)
  <2>1. Descend(Answer("at", first, d, t)) =
          Follow(Answer("at", first, d, t), ParseFlagSet(t, d, Persistent(first), kept))
    BY DescendsOn DEF kept
  <2>2. Descend(Answer("at", first, d, t)) = Follow(Answer("at", first, d, t), Acc(set, None, flags, v))
    BY <1>3, <1>11, <2>1 DEF conn
  <2>3. v[1].dashes = 0 /\ v[1] # Word("help") /\ Append(first, v[1].name) = path /\ path \in Paths
    BY <1>3, <1>8, <1>9, <1>10
  <2>4. Follow(Answer("at", first, d, t), Acc(set, None, flags, v)) =
          Answer("at", Append(first, v[1].name), IF first = <<>> THEN Default(Append(first, v[1].name))
            ELSE set, Tail(v))
    <3>1. Append(first, v[1].name) \in Paths
      BY <2>3
    <3>2. \A old, rest : Follow(Answer("at", first, old, rest), Acc(set, None, flags, v)) =
            Answer("at", Append(first, v[1].name), IF first = <<>> THEN Default(Append(first, v[1].name))
              ELSE set, Tail(v))
      BY <1>10, <1>11, <2>3, <3>1, FollowsChild
    <3>. QED
      BY <3>2, Zenon
  <2>. QED
    BY <1>9, <1>10, <2>2, <2>3, <2>4, Zenon
<1>13. Descend(Answer("at", path, set, w)) = Answered(path, Acc(set, None, flags, w))
  <2>1. /\ ParseFlagSet(w, set, {}, kept) = Acc(set, None, "flags", w)
        /\ ParseFlagSet(w, set, {}, refused) = Acc(set, None, "flags", w)
    BY <1>5, <1>7, ReadsWords
  <2>2. Descend(Answer("at", path, set, w)) =
          Follow(Answer("at", path, set, w), ParseFlagSet(w, set, Persistent(path), kept))
    BY DescendsOn DEF kept
  <2>3. Descend(Answer("at", path, set, w)) = Follow(Answer("at", path, set, w), Acc(set, None, flags, w))
    BY <1>3, <2>1, <2>2 DEF flags
  <2>4. Follow(Answer("at", path, set, w), Acc(set, None, flags, w)) =
          Answered(path, ParseFlagSet(w, set, Local(path), refused))
    BY <1>3, <1>7, <1>11, NoSuchPath, FollowsHere DEF refused
  <2>. QED
    BY <1>3, <2>1, <2>3, <2>4 DEF flags
<1>14. Answered(path, Acc(set, None, flags, w)) = Meant(m)
  BY <1>3, <1>11, MeantRuns DEF path, set, w
<1>. QED
  BY <1>12, <1>13, <1>14, Zenon DEF first, d, t, us

\* The first parser finds what was meant.
LEMMA ParsedAsMeant ==
  ASSUME NEW m, NEW pieces, Sensible(m), Spells(pieces, m)
  PROVE  Parse(Line(m, pieces)) = Meant(m)
<1>1. pieces \in Seq(Seq(AnyWord)) /\ Keepable(pieces)
  BY PieceKinds, LineIsKept
<1>. DEFINE D0(p) == Descend(Answer("at", <<>>, Default(<<>>), <<Word(p)>> \o FlattenSeq(pieces)))
            At(p) == Answer("at", <<p>>, Default(<<p>>), FlattenSeq(Undashed(pieces)))
<1>2. \A p : p # "help" /\ <<p>> \in Paths => D0(p) = At(p)
  BY <1>1, FirstLevel
<1>3. Descend(Meant(m)) = Meant(m)
  BY DescendsNoMore DEF Meant
<1>4. CASE IsSingle(m.path)
  <2>1. PICK p \in Singles : m.path = <<p>>
    BY <1>4, Zenon DEF IsSingle
  <2>2. p # "help" /\ <<p>> \in Paths /\ m.path[1] = p
    <3>1. p # "help" /\ <<p>> \in Paths
      BY SingleIs
    <3>. QED
      BY <2>1, <3>1
  <2>3. D0(p) = At(p) /\ Descend(At(p)) = Meant(m)
    <3>1. Descend(At(p)) = Meant(m)
      BY <2>1, SingleLevel
    <3>2. D0(p) = At(p)
      BY <1>2, <2>2
    <3>. QED
      BY <3>1, <3>2
  <2>. HIDE DEF At
  <2>. QED
    BY <1>3, <2>2, <2>3, Zenon DEF Parse, Line
<1>5. CASE IsPair(m.path)
  <2>1. PICK p \in {"conn", "inspect"} : \E s \in Children[p] : m.path = <<p, s>>
    BY <1>5, Zenon DEF IsPair
  <2>2. PICK s \in Children[p] : m.path = <<p, s>>
    BY <2>1
  <2>3. p # "help" /\ <<p>> \in Paths /\ m.path[1] = p
    <3>1. p # "help" /\ <<p>> \in Paths
      BY PairIs
    <3>2. m.path[1] = p
      BY <2>2
    <3>. QED
      BY <3>1, <3>2
  <2>4. D0(p) = At(p) /\ Descend(Descend(At(p))) = Meant(m)
    <3>1. Descend(Descend(At(p))) = Meant(m)
      BY <2>2, PairLevel
    <3>2. D0(p) = At(p)
      BY <1>2, <2>3
    <3>. QED
      BY <3>1, <3>2
  <2>. HIDE DEF At
  <2>. QED
    BY <2>3, <2>4, Zenon DEF Parse, Line
<1>6. IsSingle(m.path) \/ IsPair(m.path)
  BY RunningPaths DEF Sensible
<1>. QED
  BY <1>4, <1>5, <1>6

-----------------------------------------------------------------------------
(* The line for internal/cli.                                              *)

\* The flags a command has.
Allowed(path) == IF IsPair(path) THEN ConnFlags ELSE Local(path)

\* What the tables of flags have to say of each other.
LEMMA Tops ==
  ASSUME NEW path \in Leaves \ Printers
  PROVE  \/ Top(path) \in {"conn", "inspect"} /\ Allowed(path) = ConnFlags
         \/ Top(path) = "export" /\ Allowed(path) = ExportFlags
         \/ Top(path) = "tx" /\ path = <<"tx">> /\ Allowed(path) = CommonFlags \cup {"plan"}
         \/ Top(path) \in {"query", "update", "schema", "admin", "import"} /\ Allowed(path) = CommonFlags
<1>1. CASE IsPair(path)
  <2>1. PICK p \in {"conn", "inspect"} : \E s \in Children[p] : path = <<p, s>>
    BY <1>1, Zenon DEF IsPair
  <2>2. Top(path) = p
    BY <2>1 DEF Top
  <2>. QED
    BY <1>1, <2>2 DEF Allowed
<1>2. CASE IsSingle(path) /\ ~IsPair(path)
  <2>1. PICK p \in Singles : path = <<p>>
    BY <1>2, Zenon DEF IsSingle
  <2>2. Top(path) = p
    BY <2>1 DEF Top
  <2>3. Allowed(path) = Local(<<p>>)
    BY <1>2, <2>1 DEF Allowed
  <2>4. \/ p = "export" /\ Local(<<p>>) = ExportFlags
        \/ p = "tx" /\ Local(<<p>>) = CommonFlags \cup {"plan"}
        \/ p \in {"query", "update", "schema", "admin", "import"} /\ Local(<<p>>) = CommonFlags
    BY DEF Singles, Local, Statements
  <2>. QED
    BY <2>1, <2>2, <2>3, <2>4
<1>. QED
  BY <1>1, <1>2, RunningPaths

\* What internal/app forwards, internal/cli has a flag for; and normalizeFlagArgs knows
\* which have values, but for the cursor of tx.
LEMMA Tables ==
  ASSUME NEW path \in Leaves \ Printers
  PROVE  /\ Allowed(path) \subseteq LegacyFlags(path)
         /\ \A n \in Allowed(path) \ Bools : n \in ValueFlags(path) \/ (path = <<"tx">> /\ n = "cursor")
         /\ \A n \in Bools : n \notin ValueFlags(path)
<1>1. \/ Top(path) \in {"conn", "inspect"} /\ Allowed(path) = ConnFlags
      \/ Top(path) = "export" /\ Allowed(path) = ExportFlags
      \/ Top(path) = "tx" /\ path = <<"tx">> /\ Allowed(path) = CommonFlags \cup {"plan"}
      \/ Top(path) \in {"query", "update", "schema", "admin", "import"} /\ Allowed(path) = CommonFlags
  BY Tops
<1>2. Allowed(path) \subseteq LegacyFlags(path)
  BY <1>1 DEF LegacyFlags, ConnFlags, ExportFlags, CommonFlags
<1>3. \A n \in Allowed(path) \ Bools : n \in ValueFlags(path) \/ (path = <<"tx">> /\ n = "cursor")
  BY <1>1 DEF ValueFlags, ConnFlags, ExportFlags, CommonFlags, Bools
<1>4. \A n \in Bools : n \notin ValueFlags(path)
  BY <1>1 DEF ValueFlags, Bools
<1>. QED
  BY <1>2, <1>3, <1>4

\* Every setting a command has is forwarded.
LEMMA ForwardedIs ==
  ASSUME NEW path \in Leaves \ Printers
  PROVE  /\ Len(Forwarded(path)) \in Nat
         /\ \A i \in 1 .. Len(Forwarded(path)) : Forwarded(path)[i] \in Names \ {"plan"}
         /\ \A n \in Allowed(path) :
              (n = "plan" /\ path = <<"tx">>) \/ \E i \in 1 .. Len(Forwarded(path)) : Forwarded(path)[i] = n
<1>. DEFINE F == Forwarded(path)
<1>1. \/ Top(path) \in {"conn", "inspect"} /\ Allowed(path) = ConnFlags
      \/ Top(path) = "export" /\ Allowed(path) = ExportFlags
      \/ Top(path) = "tx" /\ path = <<"tx">> /\ Allowed(path) = CommonFlags \cup {"plan"}
      \/ Top(path) \in {"query", "update", "schema", "admin", "import"} /\ Allowed(path) = CommonFlags
  BY Tops
<1>2. ASSUME F = <<"config", "format", "verbose">>
      PROVE  Len(F) = 3 /\ F[1] = "config" /\ F[2] = "format" /\ F[3] = "verbose"
  BY <1>2
<1>3. ASSUME F = <<"config", "format", "limit", "verbose">>
      PROVE  Len(F) = 4 /\ F[1] = "config" /\ F[2] = "format" /\ F[3] = "limit" /\ F[4] = "verbose"
  BY <1>3
<1>4. ASSUME F = <<"config", "format", "dry-run", "page-size", "max-rows-affected", "cursor", "verbose">>
      PROVE  /\ Len(F) = 7 /\ F[1] = "config" /\ F[2] = "format" /\ F[3] = "dry-run" /\ F[4] = "page-size"
             /\ F[5] = "max-rows-affected" /\ F[6] = "cursor" /\ F[7] = "verbose"
  BY <1>4
<1>5. CASE Top(path) \in {"conn", "inspect"} /\ Allowed(path) = ConnFlags
  <2>1. F = <<"config", "format", "verbose">>
    BY <1>5 DEF Forwarded
  <2>. HIDE DEF F
  <2>2. Len(F) = 3 /\ F[1] = "config" /\ F[2] = "format" /\ F[3] = "verbose"
    BY <1>2, <2>1
  <2>3. \A i \in 1 .. Len(F) : i = 1 \/ i = 2 \/ i = 3
    BY <2>2
  <2>4. 1 \in 1 .. Len(F) /\ 2 \in 1 .. Len(F) /\ 3 \in 1 .. Len(F)
    BY <2>2
  <2>. QED
    BY <1>5, <2>2, <2>3, <2>4 DEF ConnFlags, Names, F
<1>6. CASE Top(path) = "export" /\ Allowed(path) = ExportFlags
  <2>1. F = <<"config", "format", "limit", "verbose">>
    BY <1>6 DEF Forwarded
  <2>. HIDE DEF F
  <2>2. Len(F) = 4 /\ F[1] = "config" /\ F[2] = "format" /\ F[3] = "limit" /\ F[4] = "verbose"
    BY <1>3, <2>1
  <2>3. \A i \in 1 .. Len(F) : i = 1 \/ i = 2 \/ i = 3 \/ i = 4
    BY <2>2
  <2>4. 1 \in 1 .. Len(F) /\ 2 \in 1 .. Len(F) /\ 3 \in 1 .. Len(F) /\ 4 \in 1 .. Len(F)
    BY <2>2
  <2>. QED
    BY <1>6, <2>2, <2>3, <2>4 DEF ExportFlags, ConnFlags, Names, F
<1>7. CASE \/ Top(path) = "tx" /\ path = <<"tx">> /\ Allowed(path) = CommonFlags \cup {"plan"}
           \/ Top(path) \in {"query", "update", "schema", "admin", "import"} /\ Allowed(path) = CommonFlags
  <2>1. F = <<"config", "format", "dry-run", "page-size", "max-rows-affected", "cursor", "verbose">>
    BY <1>7 DEF Forwarded
  <2>. HIDE DEF F
  <2>2. /\ Len(F) = 7 /\ F[1] = "config" /\ F[2] = "format" /\ F[3] = "dry-run" /\ F[4] = "page-size"
        /\ F[5] = "max-rows-affected" /\ F[6] = "cursor" /\ F[7] = "verbose"
    BY <1>4, <2>1
  <2>3. \A i \in 1 .. Len(F) : i = 1 \/ i = 2 \/ i = 3 \/ i = 4 \/ i = 5 \/ i = 6 \/ i = 7
    BY <2>2
  <2>4. /\ 1 \in 1 .. Len(F) /\ 2 \in 1 .. Len(F) /\ 3 \in 1 .. Len(F) /\ 4 \in 1 .. Len(F)
        /\ 5 \in 1 .. Len(F) /\ 6 \in 1 .. Len(F) /\ 7 \in 1 .. Len(F)
    BY <2>2
  <2>. QED
    BY <1>7, <2>2, <2>3, <2>4 DEF CommonFlags, ConnFlags, Names, F
<1>. QED
  BY <1>1, <1>5, <1>6, <1>7, Zenon

\* The settings that are not the defaults, the pieces that are forwarded, and what
\* stands behind the words.
Said(m) == [n \in {x \in DOMAIN m.set : m.set[x] # Default(m.path)[x]} |-> m.set[n]]
Fore(m) ==
  [i \in 1 .. Len(Forwarded(m.path)) |->
     LET n == Forwarded(m.path)[i] IN Piece(n, Settings(m)[n], Default(m.path)[n])]
Aft(m) == IF m.path = <<"tx">> THEN <<Flag("plan"), Settings(m)["plan"]>> ELSE <<>>

\* The line for internal/cli.
LEMMA ForwardIs ==
  ASSUME NEW m
  PROVE  Forward(Meant(m)) = FlattenSeq(Fore(m)) \o m.words \o Aft(m)
<1>. DEFINE p == Meant(m)
<1>1. p.path = m.path /\ p.set = Settings(m) /\ p.words = m.words
  BY AnswerIs DEF Meant
<1>. HIDE DEF p
<1>2. Forward(p) = FlattenSeq(Fore(m)) \o m.words \o Aft(m)
  BY <1>1, Zenon DEF Forward, Fore, Aft
<1>. QED
  BY <1>2 DEF p

\* These settings are suitable, and the others are the defaults.
LEMMA SaidIs ==
  ASSUME NEW m, Sensible(m)
  PROVE  /\ DOMAIN Said(m) = {n \in DOMAIN m.set : m.set[n] # Default(m.path)[n]}
         /\ \A n \in DOMAIN Said(m) :
              /\ n \in DOMAIN m.set /\ n \in Names /\ n \in Allowed(m.path)
              /\ Said(m)[n] = m.set[n] /\ Settings(m)[n] = m.set[n]
              /\ Said(m)[n] # Default(m.path)[n] /\ Said(m)[n] # Word("")
         /\ \A n \in Names : n \notin DOMAIN Said(m) => Settings(m)[n] = Default(m.path)[n]
         /\ Given(Said(m), LegacyFlags(m.path))
         /\ m.path \in Leaves \ Printers
<1>1. m.path \in Leaves \ Printers
  BY Zenon DEF Sensible
<1>2. DOMAIN m.set \subseteq Allowed(m.path)
  <2>1. IsSingle(m.path) \/ IsPair(m.path)
    BY <1>1, RunningPaths
  <2>2. /\ IsSingle(m.path) => DOMAIN m.set \subseteq Local(m.path)
        /\ IsPair(m.path) => DOMAIN m.set \subseteq ConnFlags
    BY MeantFlags
  <2>. QED
    BY <2>1, <2>2 DEF Allowed
<1>3. \A n \in DOMAIN m.set : m.set[n] = Word("") => Default(m.path)[n] = Word("")
  BY Zenon DEF Sensible
<1>4. \A n \in DOMAIN m.set : n \in Names /\ Suits(n, m.set[n]) /\ (n \in Bools => m.set[n] = Word("true"))
  BY MeantFlags, Zenon
<1>5. \A n \in Names : Settings(m)[n] = IF n \in DOMAIN m.set THEN m.set[n] ELSE Default(m.path)[n]
  BY DEF Settings
<1>6. /\ DOMAIN Said(m) = {n \in DOMAIN m.set : m.set[n] # Default(m.path)[n]}
      /\ \A n \in DOMAIN Said(m) : Said(m)[n] = m.set[n]
  BY DEF Said
<1>. DEFINE g == Said(m)
<1>. HIDE DEF g
<1>7. \A n \in DOMAIN g : /\ n \in DOMAIN m.set /\ n \in Names /\ n \in Allowed(m.path)
                          /\ g[n] = m.set[n] /\ Settings(m)[n] = m.set[n]
                          /\ g[n] # Default(m.path)[n] /\ g[n] # Word("")
  BY <1>2, <1>3, <1>4, <1>5, <1>6 DEF g
<1>8. \A n \in Names : n \notin DOMAIN g => Settings(m)[n] = Default(m.path)[n]
  BY <1>5, <1>6 DEF g
<1>9. Given(g, LegacyFlags(m.path))
  <2>1. Allowed(m.path) \subseteq LegacyFlags(m.path)
    BY <1>1, Tables
  <2>. QED
    BY <1>4, <1>7, <2>1 DEF Given
<1>. QED
  BY <1>1, <1>6, <1>7, <1>8, <1>9, Zenon DEF g

\* A setting is forwarded as a flag, with its value behind it.
LEMMA PieceIs ==
  ASSUME NEW m, Sensible(m), NEW n \in Names
  PROVE  /\ n \notin DOMAIN Said(m) => Piece(n, Settings(m)[n], Default(m.path)[n]) = <<>>
         /\ n \in DOMAIN Said(m) => Piece(n, Settings(m)[n], Default(m.path)[n]) =
              IF n \in Bools THEN <<Flag(n)>> ELSE <<Flag(n), Said(m)[n]>>
<1>1. n \notin DOMAIN Said(m) => Settings(m)[n] = Default(m.path)[n]
  BY SaidIs, Zenon
<1>2. n \in DOMAIN Said(m) =>
        /\ Said(m)[n] = m.set[n] /\ Settings(m)[n] = m.set[n]
        /\ Said(m)[n] # Default(m.path)[n] /\ Said(m)[n] # Word("")
  BY SaidIs, Zenon
<1>3. n \notin DOMAIN Said(m) => Piece(n, Settings(m)[n], Default(m.path)[n]) = <<>>
  BY <1>1 DEF Piece
<1>4. ASSUME n \in DOMAIN Said(m)
      PROVE  Piece(n, Settings(m)[n], Default(m.path)[n]) =
               IF n \in Bools THEN <<Flag(n)>> ELSE <<Flag(n), Said(m)[n]>>
  <2>. DEFINE v == Settings(m)[n]
              d == Default(m.path)[n]
  <2>1. v \notin {d, Word("")} /\ v = Said(m)[n]
    BY <1>2, <1>4
  <2>. HIDE DEF v, d
  <2>2. Piece(n, v, d) = IF n \in Bools THEN <<Flag(n)>> ELSE <<Flag(n), v>>
    BY <2>1, Zenon DEF Piece
  <2>. QED
    BY <2>1, <2>2 DEF v, d
<1>. QED
  BY <1>3, <1>4

\* tx has no flag of internal/cli for a cursor with a value behind it.
Passable(m) == m.path = <<"tx">> => "cursor" \notin DOMAIN m.set

\* A flag as it is forwarded.
IsMark(p, m) ==
  \E n \in DOMAIN Said(m) : p = IF n \in Bools THEN <<Flag(n)>> ELSE <<Flag(n), Said(m)[n]>>
Marks == AnyWord \cup {Flag(n) : n \in Names}

\* It is a spelling normalizeFlagArgs knows.
LEMMA MarkIs ==
  ASSUME NEW m, Sensible(m), Passable(m), NEW p, IsMark(p, m)
  PROVE  /\ p \in Seq(Marks) /\ p[1].dashes = 2 /\ p[1].name \in Names /\ Len(p) # 0 /\ ~IsWord(p)
         /\ \E n \in DOMAIN Said(m) : p \in Spellings(n, Said(m)[n])
         /\ \/ Len(p) = 1 /\ \E n : n \notin ValueFlags(m.path) /\ p[1] = Flag(n)
            \/ Len(p) = 2 /\ \E n : n \in ValueFlags(m.path) /\ p[1] = Flag(n)
<1>1. PICK n \in DOMAIN Said(m) : p = IF n \in Bools THEN <<Flag(n)>> ELSE <<Flag(n), Said(m)[n]>>
  BY Zenon DEF IsMark
<1>. DEFINE a == Flag(n)
            v == Said(m)[n]
<1>2. n \in DOMAIN m.set /\ n \in Names /\ n \in Allowed(m.path) /\ v = m.set[n]
  BY SaidIs, Zenon
<1>3. v \in AnyWord
  BY <1>2, MeantFlags
<1>4. a \in Marks /\ v \in Marks
  BY <1>2, <1>3 DEF Marks
<1>5. a.dashes = 2 /\ a.name = n
  BY FlagIs
<1>6. p \in Spellings(n, v)
  BY <1>1 DEF Spellings
<1>7. n \in Bools => n \notin ValueFlags(m.path)
  <2>1. m.path \in Leaves \ Printers
    BY SaidIs
  <2>. QED
    BY <2>1, Tables
<1>8. n \notin Bools => n \in ValueFlags(m.path)
  <2>1. m.path \in Leaves \ Printers
    BY SaidIs
  <2>2. ~(m.path = <<"tx">> /\ n = "cursor")
    BY <1>2 DEF Passable
  <2>3. \A x \in Allowed(m.path) \ Bools : x \in ValueFlags(m.path) \/ (m.path = <<"tx">> /\ x = "cursor")
    BY <2>1, Tables
  <2>. QED
    BY <1>2, <2>2, <2>3
<1>. HIDE DEF a, v
<1>9. CASE n \in Bools
  <2>1. p = <<a>>
    BY <1>1, <1>9 DEF a
  <2>2. p \in Seq(Marks) /\ Len(p) = 1 /\ p[1] = a
    BY <1>4, <2>1
  <2>3. ~IsWord(p)
    BY <1>5, <2>2, WordPieceIs
  <2>. QED
    BY <1>2, <1>5, <1>6, <1>7, <1>9, <2>2, <2>3 DEF a, v
<1>10. CASE n \notin Bools
  <2>1. p = <<a, v>>
    BY <1>1, <1>10 DEF a, v
  <2>2. p \in Seq(Marks) /\ Len(p) = 2 /\ p[1] = a
    BY <1>4, <2>1
  <2>3. ~IsWord(p)
    BY <1>5, <2>2, WordPieceIs
  <2>. QED
    BY <1>2, <1>5, <1>6, <1>8, <1>10, <2>2, <2>3 DEF a, v
<1>. QED
  BY <1>9, <1>10

\* What is forwarded in front of the words and behind them: no more and no less than
\* what was said.
LEMMA ForeIs ==
  ASSUME NEW m, Sensible(m)
  PROVE  /\ Len(Fore(m)) \in Nat
         /\ \A i \in 1 .. Len(Fore(m)) : Fore(m)[i] = <<>> \/ IsMark(Fore(m)[i], m)
         /\ Aft(m) = <<>> \/ IsMark(Aft(m), m)
         /\ \A n \in DOMAIN Said(m) :
              \/ Aft(m) \in Spellings(n, Said(m)[n])
              \/ \E i \in 1 .. Len(Fore(m)) : Fore(m)[i] \in Spellings(n, Said(m)[n])
         /\ Fore(m) = [i \in 1 .. Len(Fore(m)) |-> Fore(m)[i]]
<1>. DEFINE F == Forwarded(m.path)
            ps == Fore(m)
<1>1. m.path \in Leaves \ Printers
  BY SaidIs
<1>2. /\ Len(F) \in Nat
      /\ \A i \in 1 .. Len(F) : F[i] \in Names \ {"plan"}
      /\ \A n \in Allowed(m.path) : (n = "plan" /\ m.path = <<"tx">>) \/ \E i \in 1 .. Len(F) : F[i] = n
  BY <1>1, ForwardedIs
<1>3. ps = [i \in 1 .. Len(F) |-> Piece(F[i], Settings(m)[F[i]], Default(m.path)[F[i]])]
  BY Zenon DEF Fore
<1>. HIDE DEF F, ps
<1>4. /\ Len(ps) = Len(F) /\ Len(ps) \in Nat /\ ps = [i \in 1 .. Len(ps) |-> ps[i]]
      /\ \A i \in 1 .. Len(F) : ps[i] = Piece(F[i], Settings(m)[F[i]], Default(m.path)[F[i]])
  <2>. DEFINE P(i) == Piece(F[i], Settings(m)[F[i]], Default(m.path)[F[i]])
  <2>. HIDE DEF P
  <2>1. ps = [i \in 1 .. Len(F) |-> P(i)]
    BY <1>3, Zenon DEF P
  <2>2. /\ Len(ps) = Len(F) /\ Len(ps) \in Nat /\ ps = [i \in 1 .. Len(ps) |-> ps[i]]
        /\ \A i \in 1 .. Len(F) : ps[i] = P(i)
    BY <1>2, <2>1
  <2>. QED
    BY <2>2 DEF P
<1>5. \A n \in Names :
        /\ n \notin DOMAIN Said(m) => Piece(n, Settings(m)[n], Default(m.path)[n]) = <<>>
        /\ n \in DOMAIN Said(m) => Piece(n, Settings(m)[n], Default(m.path)[n]) =
             IF n \in Bools THEN <<Flag(n)>> ELSE <<Flag(n), Said(m)[n]>>
  BY PieceIs
<1>6. ASSUME NEW i \in 1 .. Len(F)
      PROVE  /\ ps[i] = <<>> \/ IsMark(ps[i], m)
             /\ F[i] \in DOMAIN Said(m) => ps[i] \in Spellings(F[i], Said(m)[F[i]])
  <2>. DEFINE n == F[i]
  <2>1. n \in Names /\ ps[i] = Piece(n, Settings(m)[n], Default(m.path)[n])
    BY <1>2, <1>4
  <2>. HIDE DEF n
  <2>2. CASE n \notin DOMAIN Said(m)
    <3>1. ps[i] = <<>>
      BY <1>5, <2>1, <2>2, Zenon
    <3>. QED
      BY <2>2, <3>1 DEF n
  <2>3. CASE n \in DOMAIN Said(m)
    <3>1. ps[i] = IF n \in Bools THEN <<Flag(n)>> ELSE <<Flag(n), Said(m)[n]>>
      BY <1>5, <2>1, <2>3, Zenon
    <3>2. IsMark(ps[i], m)
      BY <2>3, <3>1, Zenon DEF IsMark
    <3>3. ps[i] \in Spellings(n, Said(m)[n])
      BY <3>1 DEF Spellings
    <3>. QED
      BY <3>2, <3>3 DEF n
  <2>. QED
    BY <2>2, <2>3
<1>7. \A n \in DOMAIN Said(m) : n \in Allowed(m.path)
  BY SaidIs, Zenon
<1>8. ASSUME m.path = <<"tx">>
      PROVE  "plan" \in DOMAIN Said(m) /\ Aft(m) = <<Flag("plan"), Said(m)["plan"]>> /\ "plan" \notin Bools
  <2>1. "plan" \in DOMAIN m.set /\ m.set["plan"] # Word("")
    BY <1>8, Zenon DEF Sensible
  <2>2. Default(m.path)["plan"] = Word("")
    <3>1. "plan" \in Names
      BY DEF Names
    <3>2. Unset(Top(m.path), "plan") = Word("")
      BY DEF Unset, Bools
    <3>. QED
      BY <3>1, <3>2 DEF Default
  <2>3. "plan" \in DOMAIN Said(m)
    BY <2>1, <2>2, SaidIs
  <2>4. Settings(m)["plan"] = m.set["plan"] /\ Said(m)["plan"] = m.set["plan"]
    BY <2>3, SaidIs, Zenon
  <2>5. "plan" \notin Bools
    BY DEF Bools
  <2>. QED
    BY <1>8, <2>3, <2>4, <2>5 DEF Aft
<1>9. Aft(m) = <<>> \/ IsMark(Aft(m), m)
  <2>1. CASE m.path = <<"tx">>
    BY <1>8, <2>1, Zenon DEF IsMark
  <2>2. CASE m.path # <<"tx">>
    BY <2>2 DEF Aft
  <2>. QED
    BY <2>1, <2>2
<1>10. ASSUME NEW n \in DOMAIN Said(m)
       PROVE  Aft(m) \in Spellings(n, Said(m)[n]) \/ \E i \in 1 .. Len(ps) :
                ps[i] \in Spellings(n, Said(m)[n])
  <2>1. CASE n = "plan" /\ m.path = <<"tx">>
    <3>1. Aft(m) \in Spellings(n, Said(m)[n])
      BY <1>8, <2>1 DEF Spellings
    <3>. QED
      BY <3>1
  <2>2. CASE \E i \in 1 .. Len(F) : F[i] = n
    BY <1>4, <1>6, <1>10, <2>2, Zenon
  <2>. QED
    BY <1>2, <1>7, <2>1, <2>2, Zenon
<1>. QED
  BY <1>4, <1>6, <1>9, <1>10 DEF ps

\* normalizeFlagArgs takes all of it for flags.
LEMMA ForePieces ==
  ASSUME NEW m, Sensible(m), Passable(m)
  PROVE  /\ Fore(m) \in Seq(Seq(Marks)) /\ Aft(m) \in Seq(Marks)
         /\ FlagPieces(Fore(m), ValueFlags(m.path)) /\ FlagPieces(<<Aft(m)>>, ValueFlags(m.path))
<1>. DEFINE ps == Fore(m)
            z == Aft(m)
<1>1. /\ Len(ps) \in Nat
      /\ \A i \in 1 .. Len(ps) : ps[i] = <<>> \/ IsMark(ps[i], m)
      /\ z = <<>> \/ IsMark(z, m)
      /\ ps = [i \in 1 .. Len(ps) |-> ps[i]]
  BY ForeIs
<1>. HIDE DEF ps, z
<1>2. \A p : IsMark(p, m) => p \in Seq(Marks)
  BY MarkIs
<1>3. <<>> \in Seq(Marks) /\ Len(<<>>) = 0
  OBVIOUS
<1>4. z \in Seq(Marks) /\ \A i \in 1 .. Len(ps) : ps[i] \in Seq(Marks)
  BY <1>1, <1>2, <1>3, Zenon
<1>5. ps \in Seq(Seq(Marks))
  <2>. DEFINE P(i) == ps[i]
              N == Len(ps)
  <2>1. \A i \in 1 .. N : P(i) \in Seq(Marks)
    BY <1>4
  <2>2. N \in Nat
    BY <1>1
  <2>. HIDE DEF P, N
  <2>3. [i \in 1 .. N |-> P(i)] \in Seq(Seq(Marks))
    BY <2>1, <2>2
  <2>. QED
    BY <1>1, <2>3, Zenon DEF P, N
<1>6. \A p : IsMark(p, m) =>
        \/ Len(p) = 1 /\ \E n : n \notin ValueFlags(m.path) /\ p[1] = Flag(n)
        \/ Len(p) = 2 /\ \E n : n \in ValueFlags(m.path) /\ p[1] = Flag(n)
  BY MarkIs
<1>7. FlagPieces(ps, ValueFlags(m.path))
  BY <1>1, <1>3, <1>6, Zenon DEF FlagPieces
<1>8. FlagPieces(<<z>>, ValueFlags(m.path))
  <2>. DEFINE zs == <<z>>
  <2>1. \A k \in 1 .. Len(zs) : zs[k] = z
    OBVIOUS
  <2>. HIDE DEF zs
  <2>2. FlagPieces(zs, ValueFlags(m.path))
    BY <1>1, <1>3, <1>6, <2>1, Zenon DEF FlagPieces
  <2>. QED
    BY <2>2 DEF zs
<1>. QED
  BY <1>4, <1>5, <1>7, <1>8 DEF ps, z

\* Read together it gives the settings that were meant.
LEMMA ForeSpelled ==
  ASSUME NEW m, Sensible(m), Passable(m)
  PROVE  LET fs == Append(Fore(m), Aft(m)) IN
         /\ fs \in Seq(Seq(Marks)) /\ FlattenSeq(fs) = FlattenSeq(Fore(m)) \o Aft(m)
         /\ Spelled(fs, Said(m)) /\ \A k \in 1 .. Len(fs) : ~IsWord(fs[k])
         /\ SetUpto(Default(m.path), Said(m), fs, Len(fs)) = Settings(m)
<1>. DEFINE ps == Fore(m)
            z == Aft(m)
            fs == Append(ps, z)
            g == Said(m)
<1>1. ps \in Seq(Seq(Marks)) /\ z \in Seq(Marks) /\ Len(ps) \in Nat
  BY ForePieces, ForeIs
<1>2. /\ \A i \in 1 .. Len(ps) : ps[i] = <<>> \/ IsMark(ps[i], m)
      /\ z = <<>> \/ IsMark(z, m)
      /\ \A n \in DOMAIN g : z \in Spellings(n, g[n]) \/ \E i \in 1 .. Len(ps) :
           ps[i] \in Spellings(n, g[n])
  BY ForeIs
<1>3. /\ \A n \in DOMAIN g : n \in DOMAIN m.set /\ n \in Names /\ Settings(m)[n] = g[n]
      /\ \A n \in Names : n \notin DOMAIN g => Settings(m)[n] = Default(m.path)[n]
  BY SaidIs, Zenon
<1>4. \A p : IsMark(p, m) => ~IsWord(p) /\ \E n \in DOMAIN g : p \in Spellings(n, g[n])
  BY MarkIs
<1>. HIDE DEF ps, z, g
<1>5. /\ fs \in Seq(Seq(Marks)) /\ Len(fs) = Len(ps) + 1
      /\ \A k \in 1 .. Len(ps) : fs[k] = ps[k]
      /\ fs[Len(ps) + 1] = z
      /\ FlattenSeq(fs) = FlattenSeq(ps) \o z
  BY <1>1, FlatAppend
<1>. HIDE DEF fs
<1>6. /\ \A k \in 1 .. Len(fs) : k \in 1 .. Len(ps) \/ k = Len(ps) + 1
      /\ \A k \in 1 .. Len(ps) : k \in 1 .. Len(fs)
      /\ Len(ps) + 1 \in 1 .. Len(fs)
  BY <1>1, <1>5
<1>7. \A k \in 1 .. Len(fs) : fs[k] = <<>> \/ IsMark(fs[k], m)
  BY <1>2, <1>5, <1>6, Zenon
<1>8. Len(<<>>) = 0 /\ ~IsWord(<<>>)
  BY DEF IsWord
<1>9. Spelled(fs, g)
  BY <1>4, <1>7, <1>8, Zenon DEF Spelled
<1>10. \A k \in 1 .. Len(fs) : ~IsWord(fs[k])
  BY <1>4, <1>7, <1>8, Zenon
<1>11. \A n \in DOMAIN g : \E k \in 1 .. Len(fs) : fs[k] \in Spellings(n, g[n])
  BY <1>2, <1>5, <1>6, Zenon
<1>12. SetUpto(Default(m.path), g, fs, Len(fs)) = Settings(m)
  <2>. DEFINE s == Settings(m)
  <2>1. IsSetting(s)
    BY Defaults
  <2>. HIDE DEF s
  <2>2. \A n \in Names :
          (IF n \in DOMAIN g /\ (\E j \in 1 .. Len(fs) : fs[j] \in Spellings(n, g[n])) THEN g[n]
            ELSE Default(m.path)[n]) = s[n]
    BY <1>3, <1>11, Zenon DEF s
  <2>3. SetUpto(Default(m.path), g, fs, Len(fs)) = [n \in Names |-> s[n]]
    BY <2>2, Zenon DEF SetUpto
  <2>. QED
    BY <2>1, <2>3, Zenon DEF IsSetting, s
<1>. QED
  BY <1>5, <1>9, <1>10, <1>12, Zenon DEF ps, z, fs, g

-----------------------------------------------------------------------------
(* What internal/cli makes of that line.                                   *)

\* A line of three parts.
LEMMA PartsStand ==
  ASSUME NEW W, NEW a \in Seq(W), NEW b \in Seq(W), NEW c \in Seq(W)
  PROVE  LET args == a \o b \o c IN
         /\ Len(a) \in Nat /\ Len(b) \in Nat /\ Len(c) \in Nat /\ Len(args) \in Nat
         /\ Len(args) = (Len(a) + Len(b)) + Len(c)
         /\ Stands(args, 0, a) /\ Stands(args, Len(a), b) /\ Stands(args, Len(a) + Len(b), c)
<1>. DEFINE ab == a \o b
            args == ab \o c
<1>1. Len(a) \in Nat /\ Len(b) \in Nat /\ Len(c) \in Nat
  BY LenProperties
<1>2. /\ ab \in Seq(W) /\ Len(ab) = Len(a) + Len(b)
      /\ \A j \in 1 .. Len(a) : ab[j] = a[j]
      /\ \A j \in 1 .. Len(b) : ab[Len(a) + j] = b[j]
  BY <1>1
<1>. HIDE DEF ab
<1>3. /\ Len(args) = Len(ab) + Len(c)
      /\ \A j \in 1 .. Len(ab) : args[j] = ab[j]
      /\ \A j \in 1 .. Len(c) : args[Len(ab) + j] = c[j]
  <2>1. /\ Len(ab \o c) = Len(ab) + Len(c)
        /\ \A j \in 1 .. Len(ab) : (ab \o c)[j] = ab[j]
        /\ \A j \in 1 .. Len(c) : (ab \o c)[Len(ab) + j] = c[j]
    <3>. HIDE DEF args
    <3>1. ab \in Seq(W)
      BY <1>2
    <3>. QED
      BY <3>1, Joined
  <2>. QED
    BY <2>1
<1>. HIDE DEF args
<1>4. Len(args) = (Len(a) + Len(b)) + Len(c) /\ Len(args) \in Nat
  BY <1>1, <1>2, <1>3
<1>5. Stands(args, 0, a)
  <2>1. \A j \in 1 .. Len(a) : j \in 1 .. Len(ab) /\ 0 + j = j
    BY <1>1, <1>2
  <2>2. \A j \in 1 .. Len(a) : args[0 + j] = a[j]
    BY <1>2, <1>3, <2>1
  <2>. QED
    BY <1>1, <1>4, <2>2 DEF Stands
<1>6. Stands(args, Len(a), b)
  <2>1. \A j \in 1 .. Len(b) : Len(a) + j \in 1 .. Len(ab)
    BY <1>1, <1>2
  <2>2. \A j \in 1 .. Len(b) : args[Len(a) + j] = b[j]
    BY <1>2, <1>3, <2>1
  <2>. QED
    BY <1>1, <1>4, <2>2 DEF Stands
<1>7. Stands(args, Len(a) + Len(b), c)
  BY <1>1, <1>2, <1>3, <1>4 DEF Stands
<1>. QED
  BY <1>1, <1>4, <1>5, <1>6, <1>7 DEF args, ab

\* Words as pieces.
LEMMA SinglyWords ==
  ASSUME NEW W, NEW w \in Seq(W), \A k \in 1 .. Len(w) : w[k].dashes = 0
  PROVE  Singly(w) \in Seq(Seq(W)) /\ FlattenSeq(Singly(w)) = w /\ WordPieces(Singly(w))
<1>1. /\ Singly(w) \in Seq(Seq(W)) /\ Len(Singly(w)) = Len(w)
      /\ \A k \in 1 .. Len(w) : Len(Singly(w)[k]) = 1 /\ Singly(w)[k][1] = w[k]
      /\ FlattenSeq(Singly(w)) = w
  BY SinglyIs
<1>. QED
  BY <1>1, Zenon DEF WordPieces

\* normalizeFlagArgs moves the flags behind the words to the others.
LEMMA NormalizeIs ==
  ASSUME NEW W, NEW ps \in Seq(Seq(W)), NEW w \in Seq(W), NEW z \in Seq(W), NEW valueFlags,
         FlagPieces(ps, valueFlags), FlagPieces(<<z>>, valueFlags), \A k \in 1 .. Len(w) : w[k].dashes = 0
  PROVE  NormalizeFlagArgs(FlattenSeq(ps) \o w \o z, valueFlags) = (FlattenSeq(ps) \o z) \o w
<1>. DEFINE a == FlattenSeq(ps)
            args == a \o w \o z
            f == Sorting(args, valueFlags)
            ws == Singly(w)
            zs == <<z>>
            none == <<>>
            p == Len(a)
            q == Len(a) + Len(w)
            o == 0
<1>1. a \in Seq(W) /\ none \in Seq(W) /\ none \o a = a /\ none \o w = w
  <2>1. a \in Seq(W)
    BY UptoIsText
  <2>. QED
    BY <2>1
<1>2. ws \in Seq(Seq(W)) /\ FlattenSeq(ws) = w /\ WordPieces(ws)
  BY SinglyWords
<1>3. zs \in Seq(Seq(W)) /\ FlattenSeq(zs) = z /\ FlagPieces(zs, valueFlags)
  BY FlatOne
<1>. HIDE DEF ws, zs, a
<1>4. /\ Len(a) \in Nat /\ Len(w) \in Nat /\ Len(z) \in Nat /\ Len(args) \in Nat
      /\ Len(args) = (Len(a) + Len(w)) + Len(z)
      /\ Stands(args, 0, a) /\ Stands(args, Len(a), w) /\ Stands(args, Len(a) + Len(w), z)
  BY <1>1, PartsStand
<1>5. f[0] = Sorted(none, none, "word")
  BY <1>4, SortingIs, SortedIs
<1>6. p \in Nat /\ q \in Nat /\ o \in Nat /\ o + Len(a) = p /\ p + Len(w) = q /\ q + Len(z) = Len(args)
  BY <1>4
<1>7. Stands(args, o, FlattenSeq(ps)) /\ Stands(args, p, FlattenSeq(ws)) /\ Stands(args, q, FlattenSeq(zs))
  BY <1>2, <1>3, <1>4 DEF a
<1>. HIDE DEF p, q, none, args
<1>8. /\ Sorts(f, o, ps, valueFlags) /\ Sorts(f, p, ws, valueFlags) /\ Sorts(f, q, zs, valueFlags)
  <2>1. Sorts(f, o, ps, valueFlags)
    BY <1>4, <1>6, <1>7, SortingSteps
  <2>2. Sorts(f, p, ws, valueFlags)
    BY <1>2, <1>4, <1>6, <1>7, SortingSteps
  <2>3. Sorts(f, q, zs, valueFlags)
    BY <1>3, <1>4, <1>6, <1>7, SortingSteps
  <2>. QED
    BY <2>1, <2>2, <2>3
<1>9. f[o] = Sorted(none, none, "word")
  BY <1>5
<1>. HIDE DEF f, o
<1>10. f[p] = Sorted(a, none, "word")
  <2>1. f[o + Len(FlattenSeq(ps))] = Sorted(none \o FlattenSeq(ps), none, "word")
    BY <1>1, <1>9, <1>6, <1>8, SortsFlags
  <2>. QED
    BY <1>1, <1>6, <2>1, Zenon DEF a
<1>11. f[q] = Sorted(a, w, "word")
  <2>1. ASSUME NEW g, NEW v \in Seq(W), f[p] = Sorted(g, v, "word")
        PROVE  f[p + Len(FlattenSeq(ws))] = Sorted(g, v \o FlattenSeq(ws), "word")
    BY <1>2, <1>6, <1>8, <2>1, SortsWords
  <2>2. f[p + Len(FlattenSeq(ws))] = Sorted(a, none \o FlattenSeq(ws), "word")
    BY <1>1, <1>10, <2>1, Zenon
  <2>. QED
    BY <1>1, <1>2, <1>6, <2>2, Zenon
<1>12. f[Len(args)] = Sorted(a \o z, w, "word")
  <2>1. ASSUME NEW g \in Seq(W), NEW v, f[q] = Sorted(g, v, "word")
        PROVE  f[q + Len(FlattenSeq(zs))] = Sorted(g \o FlattenSeq(zs), v, "word")
    <3>1. Sorts(f, q, zs, valueFlags)
      BY <1>8
    <3>2. zs \in Seq(Seq(W)) /\ FlagPieces(zs, valueFlags)
      BY <1>3
    <3>3. q \in Nat
      BY <1>6
    <3>. QED
      BY <2>1, <3>1, <3>2, <3>3, SortsFlags
  <2>2. f[q + Len(FlattenSeq(zs))] = Sorted(a \o FlattenSeq(zs), w, "word")
    BY <1>1, <1>11, <2>1, Zenon
  <2>. QED
    BY <1>3, <1>6, <2>2, Zenon
<1>13. NormalizeFlagArgs(args, valueFlags) = f[Len(args)].flags \o f[Len(args)].words
  BY LoopsAre, Zenon DEF f
<1>14. f[Len(args)].flags = a \o z /\ f[Len(args)].words = w
  <2>1. /\ Sorted(a \o z, w, "word").flags = a \o z
        /\ Sorted(a \o z, w, "word").words = w
    BY SortedIs
  <2>. QED
    BY <1>12, <2>1, Zenon
<1>. QED
  BY <1>13, <1>14, Zenon DEF args, a

\* The flag package reads them all, and stops at the first word.
ReadAll(fs, w, names, base, g) ==
  \E mode \in Going :
    FlagParse(FlattenSeq(fs) \o w, base, names) = Acc(SetUpto(base, g, fs, Len(fs)), None, mode, w)

LEMMA FlagParseIs ==
  ASSUME NEW W, NEW fs \in Seq(Seq(W)), NEW w \in Seq(W), NEW names, NEW base, IsSetting(base),
         NEW g, Given(g, names), Spelled(fs, g), \A k \in 1 .. Len(fs) : ~IsWord(fs[k]),
         \A k \in 1 .. Len(w) : w[k].dashes = 0
  PROVE  ReadAll(fs, w, names, base, g)
<1>. DEFINE a == FlattenSeq(fs)
            none == <<>>
            args == a \o w
            f == Flagging(args, base, names)
            ws == Singly(w)
            set == SetUpto(base, g, fs, Len(fs))
            p == Len(a)
            o == 0
<1>1. a \in Seq(W) /\ none \in Seq(W) /\ args \o none = args
  <2>1. a \in Seq(W)
    BY UptoIsText
  <2>2. args \in Seq(W)
    BY <2>1
  <2>. HIDE DEF a, args
  <2>. QED
    BY <2>1, <2>2
<1>2. ws \in Seq(Seq(W)) /\ FlattenSeq(ws) = w /\ WordPieces(ws)
  BY SinglyWords
<1>. HIDE DEF ws, a, none
<1>3. LET all == a \o w \o none IN
      /\ Len(a) \in Nat /\ Len(w) \in Nat /\ Len(none) \in Nat /\ Len(all) \in Nat
      /\ Len(all) = (Len(a) + Len(w)) + Len(none)
      /\ Stands(all, 0, a) /\ Stands(all, Len(a), w) /\ Stands(all, Len(a) + Len(w), none)
  BY <1>1, PartsStand
<1>4. /\ Len(a) \in Nat /\ Len(w) \in Nat /\ Len(none) \in Nat /\ Len(args) \in Nat
      /\ Len(args) = (Len(a) + Len(w)) + Len(none)
      /\ Stands(args, 0, a) /\ Stands(args, Len(a), w)
  BY <1>1, <1>3, Zenon
<1>5. Len(none) = 0
  BY DEF none
<1>6. p \in Nat /\ o \in Nat /\ o + Len(a) = p /\ p + Len(w) = Len(args)
  BY <1>4, <1>5
<1>7. f[o] = Acc(base, None, "flags", <<>>)
  BY <1>4, FlaggingIs, Starts
<1>8. Stands(args, o, FlattenSeq(fs)) /\ Stands(args, p, FlattenSeq(ws))
  BY <1>2, <1>4 DEF a
<1>. HIDE DEF p, args, o
<1>9. Flags(f, o, fs, names)
  BY <1>4, <1>6, <1>8, FlaggingSteps
<1>10. Flags(f, p, ws, names)
  BY <1>2, <1>4, <1>6, <1>8, FlaggingSteps
<1>. HIDE DEF f
<1>11. f[p] = Acc(set, None, "flags", <<>>)
  <2>1. f[o + Len(FlattenSeq(fs))] = Acc(SetUpto(base, g, fs, Len(fs)), None, "flags", <<>>)
    BY <1>6, <1>7, <1>9, TakesFlags
  <2>. QED
    BY <1>6, <2>1, Zenon DEF a
<1>. HIDE DEF set
<1>12. \E mode \in Going : f[p + Len(FlattenSeq(ws))] = Acc(set, None, mode, FlattenSeq(ws))
  <2>1. ASSUME NEW s, f[p] = Acc(s, None, "flags", <<>>)
        PROVE  \E mode \in Going : f[p + Len(FlattenSeq(ws))] = Acc(s, None, mode, FlattenSeq(ws))
    <3>1. p \in Nat
      BY <1>6
    <3>2. ws \in Seq(Seq(W)) /\ WordPieces(ws)
      BY <1>2
    <3>. QED
      BY <1>10, <2>1, <3>1, <3>2, LeavesWords
  <2>. QED
    BY <1>11, <2>1, Zenon
<1>13. PICK mode \in Going : f[Len(args)] = Acc(set, None, mode, w)
  BY <1>2, <1>6, <1>12, Zenon
<1>14. FlagParse(args, base, names) = Ended(f[Len(args)])
  BY LoopsAre, Zenon DEF f
<1>15. FlagParse(args, base, names) = Acc(set, None, mode, w)
  BY <1>13, <1>14, Ends, Zenon
<1>. QED
  BY <1>15, Zenon DEF ReadAll, args, a, set

\* A line the first parser takes has the words internal/cli asks for, and no more
\* than it looks at.
LEMMA CountsAgree ==
  ASSUME NEW path \in Leaves \ Printers, NEW words, Len(words) \in Nat, Len(words) \in Counts(path, words)
  PROVE  /\ Needs(path, words) \in Nat /\ LooksAt(path, words) \in Nat
         /\ Needs(path, words) <= Len(words) /\ Len(words) <= LooksAt(path, words)
         /\ path = <<"import">> => words[1] = Word("file")
         /\ path = <<"export">> => words[1] = Word("table")
         /\ path \in {<<"tx">>, <<"import">>, <<"export">>} => Len(words) # 0
<1>. DEFINE n == Len(words)
            need == Needs(path, words)
            look == LooksAt(path, words)
            Fits == /\ need \in Nat /\ look \in Nat /\ need <= n /\ n <= look
                    /\ path = <<"import">> => words[1] = Word("file")
                    /\ path = <<"export">> => words[1] = Word("table")
                    /\ path \in {<<"tx">>, <<"import">>, <<"export">>} => n # 0
<1>1. /\ Children["conn"] = {"list", "test", "show", "resolve"}
      /\ Children["inspect"] = {"schema", "table", "connection"}
  BY DEF Children
<1>2. Word("file") # Word("dsn")
  BY DEF Word, Dashed
<1>. HIDE DEF n, need, look
<1>3. ASSUME IsPair(path)
      PROVE  Fits
  <2>1. PICK p \in {"conn", "inspect"} : \E s \in Children[p] : path = <<p, s>>
    BY <1>3, Zenon DEF IsPair
  <2>2. PICK s \in Children[p] : path = <<p, s>>
    BY <2>1
  <2>3. Top(path) = p
    BY <2>2 DEF Top
  <2>4. \/ p = "conn" /\ s = "list" /\ n = 0
        \/ p = "conn" /\ s # "list" /\ n = 1
        \/ p = "inspect" /\ s = "schema" /\ n \in {1, 2}
        \/ p = "inspect" /\ s = "table" /\ n \in {2, 3}
        \/ p = "inspect" /\ s = "connection" /\ n = 1
    BY <1>1, <2>2 DEF Counts, Statements, Groups, n
  <2>5. /\ p = "conn" => need = 0
        /\ p = "inspect" => need = IF s = "table" THEN 2 ELSE 1
    BY <1>1, <2>2, <2>3 DEF Needs, Statements, need
  <2>6. /\ p = "conn" => look = IF s = "list" THEN need ELSE 1
        /\ p = "inspect" => look = IF s = "connection" THEN need ELSE need + 1
    BY <1>1, <2>2 DEF LooksAt, need, look
  <2>7. path \notin {<<"tx">>, <<"import">>, <<"export">>}
    BY <2>2
  <2>. QED
    BY <1>1, <2>4, <2>5, <2>6, <2>7
<1>4. ASSUME IsSingle(path)
      PROVE  Fits
  <2>1. PICK p \in Singles : path = <<p>>
    BY <1>4, Zenon DEF IsSingle
  <2>2. Top(path) = p
    BY <2>1 DEF Top
  <2>3. look = need
    BY <2>1 DEF LooksAt, look, need
  <2>4. CASE p = "tx"
    <3>1. n = 1
      BY <2>1, <2>4 DEF Counts, Statements, Groups, n
    <3>2. need = 1
      BY <2>1, <2>2, <2>4 DEF Needs, Statements, need
    <3>. QED
      BY <2>1, <2>3, <2>4, <3>1, <3>2
  <2>5. CASE p = "import" \/ p = "export"
    <3>1. /\ n = 4
          /\ p = "import" => words[1] = Word("file")
          /\ p = "export" => words[1] = Word("table")
      BY <2>1, <2>5 DEF Counts, Statements, Groups, n
    <3>2. need = 4
      BY <2>1, <2>2, <2>5 DEF Needs, Statements, need
    <3>. QED
      BY <2>1, <2>3, <2>5, <3>1, <3>2
  <2>6. CASE p \in {"query", "update", "schema", "admin"}
    <3>1. path \in Statements /\ path \notin {<<"tx">>, <<"import">>, <<"export">>}
      BY <2>1, <2>6 DEF Statements
    <3>2. Counts(path, words) =
            IF words = <<>> THEN {} ELSE
            CASE words[1] = Word("file") -> {3} [] words[1] = Word("dsn") -> {4} [] OTHER -> {2}
      BY <2>1, <2>6 DEF Counts, Statements, Groups
    <3>3. need =
            IF words = <<>> THEN 1 ELSE
            CASE words[1] = Word("dsn") -> 4 [] words[1] = Word("file") -> 3 [] OTHER -> 2
      BY <2>1, <2>2, <2>6 DEF Needs, Statements, need
    <3>4. words # <<>> /\ n \in Counts(path, words)
      BY <3>2 DEF n
    <3>5. \/ n = 3 /\ need = 3
          \/ n = 4 /\ need = 4
          \/ n = 2 /\ need = 2
      BY <1>2, <3>2, <3>3, <3>4
    <3>. QED
      BY <2>1, <2>3, <2>6, <3>5
  <2>. QED
    BY <2>4, <2>5, <2>6 DEF Singles
<1>5. Fits
  BY <1>3, <1>4, RunningPaths
<1>. QED
  BY <1>5, Zenon DEF n, need, look

\* What a command looks at.
LEMMA MinIs ==
  ASSUME NEW i \in Nat, NEW j \in Nat, i <= j
  PROVE  Min({i, j}) = i
BY DEF Min

LEMMA WholeIs ==
  ASSUME NEW W, NEW w \in Seq(W)
  PROVE  SubSeq(w, 1, Len(w)) = w
OBVIOUS

\* The command runs with all its words.
LEMMA TakenIs ==
  ASSUME NEW m, Sensible(m), NEW mode \in Going
  PROVE  Taken(m.path, Acc(Settings(m), None, mode, m.words)) = Meant(m)
<1>. DEFINE w == m.words
            end == Acc(Settings(m), None, mode, w)
            n == Len(w)
            least == Needs(m.path, w)
            most == LooksAt(m.path, w)
<1>1. end.set = Settings(m) /\ end.mode = mode /\ end.words = w
  BY AccFields
<1>2. /\ m.path \in Leaves \ Printers /\ n \in Nat /\ w \in Seq(AnyWord)
      /\ n \in Counts(m.path, w)
      /\ m.path = <<"tx">> => "plan" \in DOMAIN m.set /\ m.set["plan"] # Word("")
  <2>1. Len(w) \in Nat /\ w \in Seq(AnyWord)
    BY MeantWords
  <2>. QED
    BY <2>1, Zenon DEF Sensible
<1>3. /\ least \in Nat /\ most \in Nat /\ least <= n /\ n <= most
      /\ m.path = <<"import">> => w[1] = Word("file")
      /\ m.path = <<"export">> => w[1] = Word("table")
  BY <1>2, CountsAgree
<1>4. m.path = <<"tx">> => Settings(m)["plan"] # Word("")
  <2>1. "plan" \in Names
    BY DEF Names
  <2>. QED
    BY <1>2, <2>1 DEF Settings
<1>. HIDE DEF w, end, n, least, most
<1>5. ~(n < least)
  <2>1. \A i, j \in Nat : i <= j => ~(j < i)
    OBVIOUS
  <2>. QED
    BY <1>2, <1>3, <2>1, Zenon
<1>6. mode # "bad"
  BY DEF Going
<1>7. LegacyKind(m.path, end) = "run"
  BY <1>1, <1>3, <1>4, <1>5, <1>6, Zenon DEF LegacyKind, n, least
<1>8. Used(m.path, w) = w
  <2>1. Min({n, most}) = n
    BY <1>2, <1>3, MinIs
  <2>2. SubSeq(w, 1, n) = w
    BY <1>2, WholeIs, Zenon DEF n
  <2>. QED
    BY <2>1, <2>2, Zenon DEF Used, n, most
<1>. QED
  BY <1>1, <1>7, <1>8, Zenon DEF Taken, Meant, w, end

\* It does not begin with a word for help.
LEMMA ForwardIsNoHelp ==
  ASSUME NEW m, Sensible(m), Passable(m)
  PROVE  ~Helps(m.path, Forward(Meant(m)))
<1>. DEFINE ps == Fore(m)
            a == FlattenSeq(ps)
            w == m.words
            z == Aft(m)
            args == a \o w \o z
<1>1. CASE m.path \in {<<"tx">>, <<"import">>, <<"export">>}
  <2>1. ps \in Seq(Seq(Marks)) /\ z \in Seq(Marks)
    BY ForePieces
  <2>2. w \in Seq(Marks) /\ Unhelped(w) /\ Len(w) \in Nat
    <3>1. w \in Seq(AnyWord) /\ Unhelped(w) /\ Len(w) \in Nat
      BY MeantWords
    <3>2. \A x \in AnyWord : x \in Marks
      BY DEF Marks
    <3>. HIDE DEF w
    <3>. QED
      BY <3>1, <3>2
  <2>3. Len(w) # 0
    <3>1. m.path \in Leaves \ Printers /\ Len(w) \in Counts(m.path, w)
      BY Zenon DEF Sensible
    <3>. QED
      BY <1>1, <2>2, <3>1, CountsAgree
  <2>4. a \in Seq(Marks)
    BY <2>1, UptoIsText
  <2>5. \A i \in 1 .. Len(ps) : ps[i] = <<>> \/ IsMark(ps[i], m)
    BY ForeIs
  <2>. HIDE DEF ps, a, w, z
  <2>6. args[1] = IF a # <<>> THEN a[1] ELSE w[1]
    <3>1. Len(a) \in Nat /\ (a # <<>> => 1 \in 1 .. Len(a)) /\ 1 \in 1 .. Len(w)
      BY <2>2, <2>3, <2>4
    <3>2. a \o w \in Seq(Marks) /\ 1 \in 1 .. Len(a \o w)
      BY <2>2, <2>3, <2>4
    <3>3. args[1] = (a \o w)[1]
      BY <2>1, <3>2
    <3>4. a # <<>> => (a \o w)[1] = a[1]
      BY <2>2, <2>4, <3>1
    <3>5. a = <<>> => (a \o w)[1] = w[1]
      BY <2>2, <3>1
    <3>. QED
      BY <3>3, <3>4, <3>5
  <2>. HIDE DEF args
  <2>7. CASE a # <<>>
    <3>1. PICK k \in 1 .. Len(ps) : Len(ps[k]) # 0 /\ a[1] = ps[k][1]
      BY <2>1, <2>7, SomePiece DEF a
    <3>2. IsMark(ps[k], m)
      BY <2>5, <3>1
    <3>3. a[1].dashes = 2 /\ a[1].name \in Names
      BY <3>1, <3>2, MarkIs
    <3>4. a[1] \notin HelpWords /\ a[1].dashes # 0
      BY <3>3, FlagIsNoHelp
    <3>5. a[1] # Word("help")
      BY <3>4, WordIs
    <3>. QED
      BY <2>6, <2>7, <3>4, <3>5, ForwardIs DEF Helps, args, a, w, z, ps
  <2>8. CASE a = <<>>
    <3>1. w # <<>>
      BY <2>3
    <3>2. w[1] \notin HelpWords /\ w[1] # Word("help")
      BY <2>2, <3>1 DEF Unhelped
    <3>. QED
      BY <2>6, <2>8, <3>2, ForwardIs DEF Helps, args, a, w, z, ps
  <2>. QED
    BY <2>7, <2>8
<1>2. CASE m.path \notin {<<"tx">>, <<"import">>, <<"export">>}
  BY <1>2 DEF Helps
<1>. QED
  BY <1>1, <1>2

\* internal/cli runs what was meant.
LEMMA PassedAsMeant ==
  ASSUME NEW m, Sensible(m), Passable(m)
  PROVE  Legacy(m.path, Forward(Meant(m))) = Meant(m)
<1>. DEFINE ps == Fore(m)
            w == m.words
            z == Aft(m)
            fs == Append(ps, z)
            base == Default(m.path)
            names == LegacyFlags(m.path)
            valueFlags == ValueFlags(m.path)
            g == Said(m)
            args == FlattenSeq(ps) \o w \o z
<1>1. /\ ps \in Seq(Seq(Marks)) /\ z \in Seq(Marks)
      /\ FlagPieces(ps, valueFlags) /\ FlagPieces(<<z>>, valueFlags)
  BY ForePieces
<1>2. w \in Seq(Marks) /\ \A k \in 1 .. Len(w) : w[k].dashes = 0
  <2>1. w \in Seq(AnyWord) /\ \A k \in 1 .. Len(w) : w[k].dashes = 0
    BY MeantWords
  <2>2. \A x \in AnyWord : x \in Marks
    BY DEF Marks
  <2>. HIDE DEF w
  <2>. QED
    BY <2>1, <2>2
<1>3. /\ fs \in Seq(Seq(Marks)) /\ FlattenSeq(fs) = FlattenSeq(ps) \o z
      /\ Spelled(fs, g) /\ \A k \in 1 .. Len(fs) : ~IsWord(fs[k])
      /\ SetUpto(base, g, fs, Len(fs)) = Settings(m)
  BY ForeSpelled
<1>4. IsSetting(base) /\ Given(g, names)
  BY Defaults, SaidIs
<1>5. Forward(Meant(m)) = args /\ ~Helps(m.path, args)
  BY ForwardIs, ForwardIsNoHelp
<1>. HIDE DEF ps, w, z, fs, base, names, valueFlags, g
<1>6. NormalizeFlagArgs(args, valueFlags) = FlattenSeq(fs) \o w
  <2>1. NormalizeFlagArgs(args, valueFlags) = (FlattenSeq(ps) \o z) \o w
    BY <1>1, <1>2, NormalizeIs
  <2>. QED
    BY <1>3, <2>1, Zenon
<1>7. PICK mode \in Going :
        FlagParse(FlattenSeq(fs) \o w, base, names) = Acc(SetUpto(base, g, fs, Len(fs)), None, mode, w)
  <2>1. fs \in Seq(Seq(Marks)) /\ Spelled(fs, g) /\ \A k \in 1 .. Len(fs) : ~IsWord(fs[k])
    BY <1>3
  <2>2. ReadAll(fs, w, names, base, g)
    BY <1>2, <1>4, <2>1, FlagParseIs
  <2>. QED
    BY <2>2, Zenon DEF ReadAll
<1>8. Taken(m.path, Acc(Settings(m), None, mode, w)) = Meant(m)
  BY TakenIs DEF w
<1>9. FlagParse(NormalizeFlagArgs(args, valueFlags), base, names) = Acc(Settings(m), None, mode, w)
  BY <1>3, <1>6, <1>7, Zenon
<1>. HIDE DEF args
<1>. QED
  BY <1>5, <1>8, <1>9, Zenon DEF Legacy, base, names, valueFlags

\* Both parsers together find what was meant.
LEMMA ReadAsMeant ==
  ASSUME NEW m, NEW pieces, Sensible(m), Spells(pieces, m), Passable(m)
  PROVE  Reading(Line(m, pieces)) = Meant(m)
<1>. DEFINE p == Meant(m)
<1>1. p.kind = "run" /\ p.path = m.path
  BY AnswerIs DEF Meant
<1>2. Legacy(m.path, Forward(p)) = p
  BY PassedAsMeant
<1>3. Parse(Line(m, pieces)) = p
  BY ParsedAsMeant
<1>. HIDE DEF p
<1>4. Passed(p) = p
  BY <1>1, <1>2, Zenon DEF Passed
<1>. QED
  BY <1>3, <1>4, Zenon DEF Reading, p

-----------------------------------------------------------------------------
(* What a command runs with.                                               *)

\* No step changes what the caller meant, nor what the line is taken for.
LEMMA MeaningStays ==
  ASSUME [Next]_vars
  PROVE  meant' = meant /\ ran' = ran
<1>1. UNCHANGED fixed
  BY DEF Next, Call, Copier, Break, Dispatch, Show, PipeFails, Run, Write, WriteFails, Signal,
       Written, Close, Wait, Exit, Copy, CopyEnds, vars
<1>. QED
  BY <1>1 DEF fixed

\* The line is taken for what was meant when the call begins.
LEMMA InitRunsAsMeant ==
  ASSUME \A c \in Calls : Passable(c.means)
  PROVE  Init => RunsAsMeant
<1>. SUFFICES ASSUME Init PROVE RunsAsMeant
  OBVIOUS
<1>1. \/ \E c \in Calls : line = Line(c.means, c.pieces) /\ meant = Meant(c.means)
      \/ meant = Nothing
  BY Zenon DEF Init
<1>2. ran = Reading(line)
  BY Zenon DEF Init
<1>3. ASSUME NEW c \in Calls, line = Line(c.means, c.pieces), meant = Meant(c.means)
      PROVE  ran = meant
  <2>. DEFINE m == c.means
              pieces == c.pieces
  <2>1. Sensible(m) /\ Spells(pieces, m) /\ Passable(m)
    BY Clear, Zenon
  <2>. HIDE DEF m, pieces
  <2>2. Reading(Line(m, pieces)) = Meant(m)
    BY <2>1, ReadAsMeant
  <2>. QED
    BY <1>2, <1>3, <2>2, Zenon DEF m, pieces
<1>. QED
  BY <1>1, <1>3, Zenon DEF RunsAsMeant

\* A command runs with what its caller meant, for every command, every setting and
\* every line that says it: the two parsers and the line internal/app writes between
\* them agree.  Left out is the one setting they do not agree on: tx has a cursor,
\* which normalizeFlagArgs does not know to have a value (parseTxArgs).
THEOREM RunsCorrect ==
  ASSUME \A c \in Calls : Passable(c.means)
  PROVE  Spec => []RunsAsMeant
<1>1. Init => RunsAsMeant
  BY InitRunsAsMeant
<1>2. RunsAsMeant /\ [Next]_vars => RunsAsMeant'
  <2>. SUFFICES ASSUME RunsAsMeant, [Next]_vars PROVE RunsAsMeant'
    OBVIOUS
  <2>1. meant' = meant /\ ran' = ran
    BY MeaningStays
  <2>. QED
    BY <2>1 DEF RunsAsMeant, Nothing
<1>. QED
  BY <1>1, <1>2, PTL DEF Spec
=============================================================================
