--------------------------- MODULE AnalyserProofs ---------------------------
(***************************************************************************)
(* Proofs about Analyser.  The scans of SqlScan are held against the lexer *)
(* of each engine, a recursive function over the text: its existence, and  *)
(* what it does along a comment, follow from the least counterexample of a *)
(* set of numbers (SetInduction).  What a scan has read is then described  *)
(* behind every character, and each step carries the description on.       *)
(***************************************************************************)
EXTENDS Analyser, WellFoundedInduction, FiniteSetTheorems, SequenceTheorems, TLAPS

-----------------------------------------------------------------------------
(* Numbers and sets of numbers.                                            *)

\* A set of numbers has a least element.
LEMMA LeastOfSet ==
  ASSUME NEW S \in SUBSET Nat, S # {}
  PROVE  \E n \in S : \A m \in S : n <= m
<1>1. IsWellFoundedOn(OpToRel(<, Nat), Nat)
  BY NatLessThanWellFounded
<1>2. PICK n \in S : \A m \in S : ~(<<m, n>> \in OpToRel(<, Nat))
  BY <1>1, WFMin, Zenon
<1>3. \A m \in S : m < n => <<m, n>> \in OpToRel(<, Nat)
  BY DEF OpToRel
<1>4. \A m \in S : ~(m < n)
  BY <1>2, <1>3, Zenon
<1>. QED
  BY <1>4

\* Induction: a set that holds 0, and n + 1 with n, holds every number.
LEMMA SetInduction ==
  ASSUME NEW S \in SUBSET Nat, 0 \in S, \A n \in S : n + 1 \in S
  PROVE  S = Nat
<1>. SUFFICES ASSUME Nat \ S # {} PROVE FALSE
  OBVIOUS
<1>1. PICK n \in Nat \ S : \A m \in Nat \ S : n <= m
  BY LeastOfSet
<1>2. n # 0 /\ n - 1 \in Nat
  BY <1>1
<1>3. n - 1 \in S
  BY <1>1, <1>2
<1>. QED
  BY <1>1, <1>2, <1>3

\* The least element is Min.
LEMMA MinIsLeast ==
  ASSUME NEW S \in SUBSET Nat, S # {}
  PROVE  Min(S) \in S /\ \A m \in S : Min(S) <= m
<1>1. \E n \in S : \A m \in S : n <= m
  BY LeastOfSet
<1>. QED
  BY <1>1, Zenon DEF Min

\* The greatest element of a set with a bound is Max.
LEMMA MaxIsGreatest ==
  ASSUME NEW S \in SUBSET Nat, S # {}, NEW b \in Nat, \A m \in S : m <= b
  PROVE  Max(S) \in S /\ \A m \in S : Max(S) >= m
<1>. DEFINE Above == {n \in Nat : \A m \in S : m <= n}
<1>1. PICK n \in Above : \A m \in Above : n <= m
  BY LeastOfSet
<1>2. n \in S
  <2>. SUFFICES ASSUME n \notin S PROVE FALSE
    OBVIOUS
  <2>1. PICK e \in S : TRUE
    OBVIOUS
  <2>2. n >= 1 /\ n - 1 \in Nat
    BY <1>1, <2>1
  <2>3. \A m \in S : m <= n - 1
    BY <1>1
  <2>. QED
    BY <1>1, <2>2, <2>3
<1>3. \E x \in S : \A y \in S : x >= y
  BY <1>1, <1>2
<1>. QED
  BY <1>3, Zenon DEF Max

-----------------------------------------------------------------------------
(* A list of chosen positions: c holds what s has at the positions K, in   *)
(* their order.                                                            *)

Rank(K, k) == Cardinality({m \in K : m <= k})

Lists(c, s, K) ==
  /\ IsFiniteSet(K) /\ K \subseteq Nat
  /\ Len(c) = Cardinality(K)
  /\ \A k \in K : Rank(K, k) \in 1 .. Len(c) /\ c[Rank(K, k)] = s[k]
  /\ \A n \in 1 .. Len(c) : \E k \in K : Rank(K, k) = n

LEMMA ListsNothing == ASSUME NEW s PROVE Lists(<<>>, s, {})
<1>1. IsFiniteSet({}) /\ Cardinality({}) = 0
  BY FS_EmptySet
<1>. QED
  BY <1>1 DEF Lists

\* A greater number has the next rank and leaves the ranks of the others.
LEMMA RankOfNext ==
  ASSUME NEW K \in SUBSET Nat, IsFiniteSet(K), NEW n \in Nat, \A k \in K : k < n
  PROVE  /\ IsFiniteSet(K \cup {n})
         /\ Cardinality(K \cup {n}) = Cardinality(K) + 1
         /\ Rank(K \cup {n}, n) = Cardinality(K) + 1
         /\ \A k \in K : Rank(K \cup {n}, k) = Rank(K, k)
<1>1. n \notin K
  OBVIOUS
<1>2. IsFiniteSet(K \cup {n}) /\ Cardinality(K \cup {n}) = Cardinality(K) + 1
  BY <1>1, FS_AddElement
<1>3. {m \in K \cup {n} : m <= n} = K \cup {n}
  BY \A m \in K \cup {n} : m <= n, Zenon
<1>4. ASSUME NEW k \in K
      PROVE  {m \in K \cup {n} : m <= k} = {m \in K : m <= k}
  BY SMT
<1>. QED
  BY <1>2, <1>3, <1>4, Zenon DEF Rank

LEMMA ListsMore ==
  ASSUME NEW V, NEW c \in Seq(V), NEW s, NEW K, Lists(c, s, K),
         NEW n \in Nat, \A k \in K : k < n, s[n] \in V
  PROVE  Lists(Append(c, s[n]), s, K \cup {n})
<1>. DEFINE d == Append(c, s[n])
<1>0. IsFiniteSet(K) /\ K \subseteq Nat /\ Len(c) = Cardinality(K)
  BY DEF Lists
<1>1. /\ IsFiniteSet(K \cup {n})
      /\ Cardinality(K \cup {n}) = Cardinality(K) + 1
      /\ Rank(K \cup {n}, n) = Cardinality(K) + 1
      /\ \A k \in K : Rank(K \cup {n}, k) = Rank(K, k)
  BY <1>0, RankOfNext
<1>2. Len(d) = Len(c) + 1 /\ d[Len(c) + 1] = s[n] /\ \A m \in 1 .. Len(c) : d[m] = c[m]
  BY AppendProperties
<1>3. Len(c) \in Nat
  BY LenProperties
<1>. HIDE DEF d
<1>4. ASSUME NEW k \in K \cup {n}
      PROVE  Rank(K \cup {n}, k) \in 1 .. Len(d) /\ d[Rank(K \cup {n}, k)] = s[k]
  <2>1. CASE k = n
    BY <1>0, <1>1, <1>2, <1>3, <2>1
  <2>2. CASE k \in K
    <3>1. Rank(K \cup {n}, k) = Rank(K, k)
      BY <1>1, <2>2, Zenon
    <3>2. Rank(K, k) \in 1 .. Len(c) /\ c[Rank(K, k)] = s[k]
      BY <2>2, Zenon DEF Lists
    <3>. QED
      BY <1>2, <1>3, <3>1, <3>2
  <2>. QED
    BY <2>1, <2>2
<1>5. ASSUME NEW m \in 1 .. Len(d)
      PROVE  \E k \in K \cup {n} : Rank(K \cup {n}, k) = m
  <2>1. CASE m = Len(c) + 1
    <3>1. Rank(K \cup {n}, n) = m
      BY <1>0, <1>1, <2>1
    <3>. QED
      BY <3>1, Zenon
  <2>2. CASE m \in 1 .. Len(c)
    <3>1. PICK k \in K : Rank(K, k) = m
      BY <2>2, Zenon DEF Lists
    <3>. QED
      BY <1>1, <3>1, Zenon
  <2>3. m = Len(c) + 1 \/ m \in 1 .. Len(c)
    BY <1>2, <1>3
  <2>. QED
    BY <2>1, <2>2, <2>3, Zenon
<1>. QED
  BY <1>0, <1>1, <1>2, <1>4, <1>5 DEF Lists, d

\* The list is the sequence that StripIsRight writes down.
LEMMA ListsAll ==
  ASSUME NEW V, NEW c \in Seq(V), NEW s, NEW K, Lists(c, s, K)
  PROVE  c = Listed(s, K)
<1>. DEFINE place(n) == CHOOSE k \in K : Rank(K, k) = n
<1>1. DOMAIN c = 1 .. Cardinality(K) /\ Len(c) = Cardinality(K)
  BY LenProperties DEF Lists
<1>2. ASSUME NEW n \in 1 .. Cardinality(K)
      PROVE  c[n] = s[place(n)]
  <2>1. \E k \in K : Rank(K, k) = n
    BY <1>1 DEF Lists
  <2>2. place(n) \in K /\ Rank(K, place(n)) = n
    BY <2>1
  <2>. QED
    BY <2>2, Zenon DEF Lists
<1>3. c = [n \in DOMAIN c |-> c[n]]
  BY LenProperties
<1>4. c = [n \in 1 .. Cardinality(K) |-> s[place(n)]]
  BY <1>1, <1>2, <1>3, Zenon
<1>. QED
  BY <1>4, Zenon DEF Rank, Listed

-----------------------------------------------------------------------------
(* The lexer: a recursive function over the positions of the text.         *)

IsLexer(eng, s, n, f) ==
  f = [k \in 0 .. n |-> IF k = 0 THEN "code" ELSE After(eng, s, k, f[k - 1])]

\* There is such a function, for every text.
LEMMA LexerExists ==
  ASSUME NEW eng, NEW s, NEW N \in Nat
  PROVE  \E f : IsLexer(eng, s, N, f)
<1>. USE DEF IsLexer
<1>. DEFINE S == {n \in Nat : \E f : IsLexer(eng, s, n, f)}
<1>1. 0 \in S
  <2>. DEFINE f == [k \in 0 .. 0 |-> "code"]
  <2>1. f = [k \in 0 .. 0 |-> IF k = 0 THEN "code" ELSE After(eng, s, k, f[k - 1])]
    OBVIOUS
  <2>. HIDE DEF f
  <2>. QED
    BY <2>1
<1>2. ASSUME NEW n \in S
      PROVE  n + 1 \in S
  <2>1. PICK f : f = [k \in 0 .. n |-> IF k = 0 THEN "code" ELSE After(eng, s, k, f[k - 1])]
    BY Zenon
  <2>. DEFINE g == [k \in 0 .. n + 1 |-> IF k = 0 THEN "code" ELSE After(eng, s, k, f[k - 1])]
  <2>2. \A k \in 0 .. n : g[k] = f[k]
    BY <2>1
  <2>3. \A k \in 0 .. n + 1 : k # 0 => k - 1 \in 0 .. n
    OBVIOUS
  <2>4. g = [k \in 0 .. n + 1 |-> IF k = 0 THEN "code" ELSE After(eng, s, k, g[k - 1])]
    BY <2>2, <2>3
  <2>. HIDE DEF g
  <2>. QED
    BY <2>4
<1>. HIDE DEF S
<1>3. S = Nat
  BY <1>1, <1>2, SetInduction DEF S
<1>. QED
  BY <1>3 DEF S

LEMMA StateIsAfter ==
  ASSUME NEW eng \in Dialects, NEW V, NEW s \in Seq(V)
  PROVE  /\ State(eng, s)[0] = "code"
         /\ \A k \in 1 .. Len(s) : State(eng, s)[k] = After(eng, s, k, State(eng, s)[k - 1])
<1>1. Len(s) \in Nat
  BY LenProperties
<1>2. \E f : IsLexer(eng, s, Len(s), f)
  BY <1>1, LexerExists, Zenon
<1>3. State(eng, s) = [k \in 0 .. Len(s) |-> IF k = 0 THEN "code" ELSE After(eng, s, k, State(eng, s)[k - 1])]
  BY <1>2, Zenon DEF State, IsLexer
<1>. QED
  BY <1>1, <1>3

\* The lexer in code, in a string, and in a comment.
LEMMA StateInCode ==
  ASSUME NEW eng \in Dialects, NEW V, NEW s \in Seq(V), Plain(eng, s), NEW k \in 1 .. Len(s), State(eng, s)[k - 1] = "code"
  PROVE  /\ s[k] \in Quotes => State(eng, s)[k] = s[k]
         /\ At(s, k, "-", "-") => State(eng, s)[k] = "line"
         /\ At(s, k, "/", "*") => State(eng, s)[k] = "open"
         /\ s[k] \notin Quotes /\ ~At(s, k, "-", "-") /\ ~At(s, k, "/", "*") => State(eng, s)[k] = "code"
<1>1. State(eng, s)[k] = After(eng, s, k, "code")
  BY StateIsAfter
<1>2. State(eng, s)[k] =
        IF s[k] \in eng.quotes THEN s[k]
        ELSE IF Dashes(eng, s, k) THEN "line"
        ELSE IF At(s, k, "/", "*") THEN "open" ELSE "code"
  BY <1>1 DEF After
<1>3. s[k] \in eng.quotes <=> s[k] \in Quotes
  <2>1. eng.quotes \subseteq Quotes
    BY DEF Dialects, SQLite, PostgreSQL, MySQL, Dialect, Quotes
  <2>2. s[k] \in Quotes => s[k] \in eng.quotes
    BY DEF Plain
  <2>. QED
    BY <2>1, <2>2
<1>4. Dashes(eng, s, k) <=> At(s, k, "-", "-")
  <2>1. At(s, k, "-", "-") => Dashes(eng, s, k)
    BY DEF Plain
  <2>. QED
    BY <2>1 DEF Dashes
<1>5. /\ At(s, k, "-", "-") => s[k] = "-"
      /\ At(s, k, "/", "*") => s[k] = "/"
  BY DEF At
<1>. QED
  BY <1>2, <1>3, <1>4, <1>5 DEF Quotes

LEMMA StateInString ==
  ASSUME NEW eng \in Dialects, NEW V, NEW s \in Seq(V), Plain(eng, s), NEW k \in 1 .. Len(s), State(eng, s)[k - 1] \in Quotes
  PROVE  /\ s[k] = State(eng, s)[k - 1] => State(eng, s)[k] = "code"
         /\ s[k] # State(eng, s)[k - 1] /\ s[k] # "esc" => State(eng, s)[k] = State(eng, s)[k - 1]
         /\ s[k] = "esc" /\ k < Len(s) => State(eng, s)[k + 1] = State(eng, s)[k - 1]
         /\ s[k] = "esc" => State(eng, s)[k] # "code"
<1>1. State(eng, s)[k] = After(eng, s, k, State(eng, s)[k - 1])
  BY StateIsAfter
<1>2. k < Len(s) => k + 1 \in 1 .. Len(s) /\ (k + 1) - 1 = k
  BY LenProperties
<1>3. k < Len(s) => State(eng, s)[k + 1] = After(eng, s, k + 1, State(eng, s)[k])
  BY <1>2, StateIsAfter
<1>4. s[k] = "esc" => State(eng, s)[k - 1] \in eng.escapes
  BY DEF Plain
<1>5. "tick" \notin eng.escapes
  BY DEF Dialects, SQLite, PostgreSQL, MySQL, Dialect
<1>6. CASE State(eng, s)[k - 1] = "apos"
  BY <1>1, <1>3, <1>4, <1>6 DEF After, Quotes
<1>7. CASE State(eng, s)[k - 1] = "tick"
  BY <1>1, <1>4, <1>5, <1>7 DEF After, Quotes
<1>. QED
  BY <1>6, <1>7 DEF Quotes

LEMMA StateInComment ==
  ASSUME NEW eng \in Dialects, NEW V, NEW s \in Seq(V), NEW k \in 1 .. Len(s)
  PROVE  /\ State(eng, s)[k - 1] = "line" => State(eng, s)[k] = IF s[k] = "nl" THEN "code" ELSE "line"
         /\ State(eng, s)[k - 1] = "open" => State(eng, s)[k] = "block"
         /\ State(eng, s)[k - 1] = "block" => State(eng, s)[k] = IF At(s, k, "*", "/") THEN "close" ELSE "block"
         /\ State(eng, s)[k - 1] = "close" => State(eng, s)[k] = "code"
<1>1. State(eng, s)[k] = After(eng, s, k, State(eng, s)[k - 1])
  BY StateIsAfter
<1>. QED
  BY <1>1 DEF After, At, Quotes

-----------------------------------------------------------------------------
(* stripComments.  StripRead(eng, s, c, k, m): in front of position k of s *)
(* the scan has kept c and is inside a comment m, as the engine reads s.   *)

NoStrings(s) == \A j \in 1 .. Len(s) : s[j] \notin Quotes

StripRead(eng, s, c, k, m) ==
  /\ State(eng, s)[k - 1] = IF m = "none" THEN "code" ELSE m
  /\ Lists(c, s, {j \in Kept(eng, s) : j < k})

LEMMA IsKept ==
  ASSUME NEW eng \in Dialects, NEW V, NEW s \in Seq(V), NEW k \in 1 .. Len(s)
  PROVE  k \in Kept(eng, s) <=>
           \/ State(eng, s)[k - 1] = "code" /\ State(eng, s)[k] = "code"
           \/ State(eng, s)[k - 1] = "line" /\ s[k] = "nl"
BY DEF Kept, Code

LEMMA KeptSoFar ==
  ASSUME NEW eng \in Dialects, NEW V, NEW s \in Seq(V), NEW k \in 1 .. Len(s)
  PROVE  /\ k \in Kept(eng, s) => {j \in Kept(eng, s) : j < k + 1} = {j \in Kept(eng, s) : j < k} \cup {k}
         /\ k \notin Kept(eng, s) => {j \in Kept(eng, s) : j < k + 1} = {j \in Kept(eng, s) : j < k}
<1>1. Kept(eng, s) \subseteq Nat
  BY LenProperties DEF Kept, Code
<1>2. \A j \in Kept(eng, s) : j < k + 1 <=> j < k \/ j = k
  BY <1>1, LenProperties
<1>3. ASSUME k \in Kept(eng, s)
      PROVE  {j \in Kept(eng, s) : j < k + 1} = {j \in Kept(eng, s) : j < k} \cup {k}
  BY <1>2, <1>3, Zenon
<1>4. ASSUME k \notin Kept(eng, s)
      PROVE  {j \in Kept(eng, s) : j < k + 1} = {j \in Kept(eng, s) : j < k}
  BY <1>2, <1>4, Zenon
<1>. QED
  BY <1>3, <1>4

\* One position further, whether its character is kept or dropped.
LEMMA StripReadStep ==
  ASSUME NEW eng \in Dialects, NEW V, NEW s \in Seq(V), NEW c \in Seq(V), NEW k \in 1 .. Len(s), NEW m,
         StripRead(eng, s, c, k, m)
  PROVE  /\ k \in Kept(eng, s) => Lists(c \o <<s[k]>>, s, {j \in Kept(eng, s) : j < k + 1})
         /\ k \notin Kept(eng, s) => Lists(c, s, {j \in Kept(eng, s) : j < k + 1})
<1>. DEFINE K == {j \in Kept(eng, s) : j < k}
<1>1. s[k] \in V /\ k \in Nat
  BY LenProperties
<1>2. c \o <<s[k]>> = Append(c, s[k])
  BY <1>1, AppendIsConcat
<1>3. Lists(c, s, K)
  BY DEF StripRead
<1>4. \A j \in K : j < k
  OBVIOUS
<1>. HIDE DEF K
<1>5. Lists(Append(c, s[k]), s, K \cup {k})
  BY <1>1, <1>3, <1>4, ListsMore
<1>. USE DEF K
<1>6. ASSUME k \in Kept(eng, s)
      PROVE  Lists(c \o <<s[k]>>, s, {j \in Kept(eng, s) : j < k + 1})
  <2>1. {j \in Kept(eng, s) : j < k + 1} = K \cup {k}
    BY <1>6, KeptSoFar
  <2>. QED
    BY <1>2, <1>5, <2>1, Zenon
<1>7. ASSUME k \notin Kept(eng, s)
      PROVE  Lists(c, s, {j \in Kept(eng, s) : j < k + 1})
  <2>1. {j \in Kept(eng, s) : j < k + 1} = K
    BY <1>7, KeptSoFar
  <2>. QED
    BY <1>3, <2>1, Zenon
<1>. QED
  BY <1>6, <1>7

LEMMA StripReadFirst ==
  ASSUME NEW eng \in Dialects, NEW V, NEW s \in Seq(V)
  PROVE  StripRead(eng, s, <<>>, 1, "none")
<1>1. State(eng, s)[1 - 1] = "code"
  BY StateIsAfter
<1>2. {j \in Kept(eng, s) : j < 1} = {}
  BY LenProperties DEF Kept, Code
<1>. QED
  BY <1>1, <1>2, ListsNothing DEF StripRead

LEMMA StripReadKeep ==
  ASSUME NEW eng \in Dialects, NEW V, NEW s \in Seq(V), Plain(eng, s), NEW c \in Seq(V), NEW k \in 1 .. Len(s),
         NoStrings(s), StripRead(eng, s, c, k, "none"),
         ~At(s, k, "-", "-"), ~At(s, k, "/", "*")
  PROVE  StripRead(eng, s, c \o <<s[k]>>, k + 1, "none")
<1>1. State(eng, s)[k - 1] = "code" /\ s[k] \notin Quotes
  BY DEF StripRead, NoStrings
<1>2. State(eng, s)[k] = "code"
  BY <1>1, StateInCode
<1>3. k \in Kept(eng, s)
  BY <1>1, <1>2, IsKept
<1>4. Lists(c \o <<s[k]>>, s, {j \in Kept(eng, s) : j < k + 1})
  BY <1>3, StripReadStep
<1>5. (k + 1) - 1 = k
  OBVIOUS
<1>. QED
  BY <1>2, <1>4, <1>5, Zenon DEF StripRead

\* A position that is dropped.
LEMMA StripReadDrop ==
  ASSUME NEW eng \in Dialects, NEW V, NEW s \in Seq(V), NEW c \in Seq(V), NEW k \in 1 .. Len(s), NEW m, NEW n,
         StripRead(eng, s, c, k, m), k \notin Kept(eng, s),
         State(eng, s)[k] = IF n = "none" THEN "code" ELSE n
  PROVE  StripRead(eng, s, c, k + 1, n)
<1>1. Lists(c, s, {j \in Kept(eng, s) : j < k + 1})
  BY StripReadStep
<1>2. (k + 1) - 1 = k
  OBVIOUS
<1>. QED
  BY <1>1, <1>2, Zenon DEF StripRead

LEMMA StripReadOpens ==
  ASSUME NEW eng \in Dialects, NEW V, NEW s \in Seq(V), Plain(eng, s), NEW c \in Seq(V), NEW k \in 1 .. Len(s),
         StripRead(eng, s, c, k, "none")
  PROVE  /\ At(s, k, "-", "-") => StripRead(eng, s, c, k + 2, "line")
         /\ At(s, k, "/", "*") => StripRead(eng, s, c, k + 2, "block")
<1>. DEFINE o == State(eng, s)[k]
<1>0. State(eng, s)[k - 1] = "code"
  BY DEF StripRead
<1>. SUFFICES ASSUME At(s, k, "-", "-") \/ At(s, k, "/", "*")
              PROVE  /\ At(s, k, "-", "-") => StripRead(eng, s, c, k + 2, "line")
                     /\ At(s, k, "/", "*") => StripRead(eng, s, c, k + 2, "block")
  OBVIOUS
<1>1. k + 1 \in 1 .. Len(s) /\ (k + 1) - 1 = k /\ (k + 1) + 1 = k + 2
  BY LenProperties DEF At
<1>2. /\ At(s, k, "-", "-") => o = "line" /\ s[k + 1] = "-"
      /\ At(s, k, "/", "*") => o = "open"
  BY <1>0, StateInCode DEF At
<1>3. k \notin Kept(eng, s)
  BY <1>0, <1>2, IsKept
<1>4. StripRead(eng, s, c, k + 1, o)
  <2>1. o # "none"
    BY <1>2
  <2>. QED
    BY <1>3, <2>1, StripReadDrop
<1>5. /\ At(s, k, "-", "-") => State(eng, s)[k + 1] = "line"
      /\ At(s, k, "/", "*") => State(eng, s)[k + 1] = "block"
  BY <1>1, <1>2, StateInComment
<1>6. k + 1 \notin Kept(eng, s)
  BY <1>1, <1>2, IsKept
<1>. HIDE DEF o
<1>. QED
  BY <1>1, <1>4, <1>5, <1>6, StripReadDrop

LEMMA StripReadInLine ==
  ASSUME NEW eng \in Dialects, NEW V, NEW s \in Seq(V), NEW c \in Seq(V), NEW k \in 1 .. Len(s),
         StripRead(eng, s, c, k, "line")
  PROVE  /\ s[k] = "nl" => StripRead(eng, s, c \o <<"nl">>, k + 1, "none")
         /\ s[k] # "nl" => StripRead(eng, s, c, k + 1, "line")
<1>1. State(eng, s)[k - 1] = "line"
  BY DEF StripRead
<1>2. State(eng, s)[k] = IF s[k] = "nl" THEN "code" ELSE "line"
  BY <1>1, StateInComment
<1>3. CASE s[k] = "nl"
  <2>1. k \in Kept(eng, s)
    BY <1>1, <1>3, IsKept
  <2>2. Lists(c \o <<s[k]>>, s, {j \in Kept(eng, s) : j < k + 1})
    BY <2>1, StripReadStep
  <2>3. (k + 1) - 1 = k
    OBVIOUS
  <2>. QED
    BY <1>2, <1>3, <2>2, <2>3, Zenon DEF StripRead
<1>4. CASE s[k] # "nl"
  BY <1>1, <1>2, <1>4, IsKept, StripReadDrop
<1>. QED
  BY <1>3, <1>4

LEMMA StripReadInBlock ==
  ASSUME NEW eng \in Dialects, NEW V, NEW s \in Seq(V), NEW c \in Seq(V), NEW k \in 1 .. Len(s),
         StripRead(eng, s, c, k, "block")
  PROVE  /\ At(s, k, "*", "/") => StripRead(eng, s, c, k + 2, "none")
         /\ ~At(s, k, "*", "/") => StripRead(eng, s, c, k + 1, "block")
<1>1. State(eng, s)[k - 1] = "block"
  BY DEF StripRead
<1>2. State(eng, s)[k] = IF At(s, k, "*", "/") THEN "close" ELSE "block"
  BY <1>1, StateInComment
<1>3. k \notin Kept(eng, s)
  BY <1>1, IsKept
<1>4. CASE At(s, k, "*", "/")
  <2>1. k + 1 \in 1 .. Len(s) /\ (k + 1) - 1 = k /\ (k + 1) + 1 = k + 2
    BY <1>4, LenProperties DEF At
  <2>2. StripRead(eng, s, c, k + 1, "close")
    BY <1>2, <1>3, <1>4, StripReadDrop
  <2>3. State(eng, s)[k + 1] = "code"
    BY <1>2, <1>4, <2>1, StateInComment
  <2>4. k + 1 \notin Kept(eng, s)
    BY <1>2, <1>4, <2>1, IsKept
  <2>. QED
    BY <1>4, <2>1, <2>2, <2>3, <2>4, StripReadDrop
<1>5. CASE ~At(s, k, "*", "/")
  BY <1>2, <1>3, <1>5, StripReadDrop
<1>. QED
  BY <1>4, <1>5

\* Behind the last position all of the statement has been read.
LEMMA StripReadAll ==
  ASSUME NEW eng \in Dialects, NEW V, NEW s \in Seq(V), NEW c \in Seq(V), NEW mode, StripRead(eng, s, c, Len(s) + 1, mode)
  PROVE  c = Listed(s, Kept(eng, s))
<1>1. {j \in Kept(eng, s) : j < Len(s) + 1} = Kept(eng, s)
  BY LenProperties DEF Kept, Code
<1>2. Lists(c, s, Kept(eng, s))
  BY <1>1, Zenon DEF StripRead
<1>. QED
  BY <1>2, ListsAll

-----------------------------------------------------------------------------
(* Types.                                                                  *)

TypeOK ==
  /\ text \in Seq(AllChars) /\ current \in Seq(AllChars)
  /\ parts \in Seq(Seq(AllChars)) /\ stripped \in Seq(Seq(AllChars))
  /\ pc \in {"split", "strip", "end"}
  /\ i \in Nat \ {0}
  /\ quote \in Quotes \cup {"none"}
  /\ inside \in {"none", "line", "block"}
  /\ pc = "split" => i <= Len(text) + 1 /\ stripped = <<>> /\ inside = "none"
  /\ pc = "strip" => Len(stripped) < Len(parts) /\ i <= Len(Part) + 1
  /\ Len(stripped) <= Len(parts)

LEMMA TrimIsSeq ==
  ASSUME NEW V, NEW s \in Seq(V)
  PROVE  Trim(s) \in Seq(V)
<1>. DEFINE W == {k \in 1 .. Len(s) : s[k] \notin Blanks}
<1>1. CASE W = {}
  BY <1>1 DEF Trim
<1>2. CASE W # {}
  <2>1. Len(s) \in Nat /\ W \subseteq 1 .. Len(s) /\ W \in SUBSET Nat
    BY LenProperties
  <2>2. \A m \in W : m <= Len(s)
    BY <2>1
  <2>. HIDE DEF W
  <2>3. Min(W) \in W /\ Max(W) \in W
    BY <1>2, <2>1, <2>2, MinIsLeast, MaxIsGreatest
  <2>4. Min(W) \in 1 .. Len(s) /\ Max(W) \in 1 .. Len(s)
    BY <2>1, <2>3, Zenon
  <2>5. Trim(s) = SubSeq(s, Min(W), Max(W))
    BY <1>2, Zenon DEF Trim, W
  <2>6. \A k \in Min(W) .. Max(W) : s[k] \in V
    BY <2>1, <2>4
  <2>7. SubSeq(s, Min(W), Max(W)) \in Seq(V)
    BY <2>4, <2>6, SubSeqProperties, SMT
  <2>. QED
    BY <2>5, <2>7, Zenon
<1>. QED
  BY <1>1, <1>2

\* How far a comment reaches.
LineEnd(t, k) == Min({j \in k .. Len(t) : t[j] = "nl"} \cup {Len(t)})
BlockEnd(t, k) == Min({j + 1 : j \in {j \in k + 1 .. Len(t) : At(t, j, "*", "/")}} \cup {Len(t)})

LEMMA LineEndIs ==
  ASSUME NEW V, NEW t \in Seq(V), NEW k \in 1 .. Len(t)
  PROVE  /\ LineEnd(t, k) \in k .. Len(t)
         /\ \A j \in k .. Len(t) : j < LineEnd(t, k) => t[j] # "nl"
         /\ LineEnd(t, k) < Len(t) => t[LineEnd(t, k)] = "nl"
<1>. DEFINE E == {j \in k .. Len(t) : t[j] = "nl"} \cup {Len(t)}
<1>1. E \in SUBSET Nat /\ E # {}
  BY LenProperties
<1>. HIDE DEF E
<1>2. Min(E) \in E /\ \A j \in E : Min(E) <= j
  BY <1>1, MinIsLeast
<1>3. LineEnd(t, k) = Min(E)
  BY Zenon DEF LineEnd, E
<1>4. Min(E) \in k .. Len(t)
  <2>1. \A e \in E : e \in k .. Len(t)
    BY LenProperties DEF E
  <2>. QED
    BY <1>2, <2>1, Zenon
<1>5. ASSUME NEW j \in k .. Len(t), t[j] = "nl"
      PROVE  Min(E) <= j
  BY <1>2, <1>5 DEF E
<1>6. Min(E) < Len(t) => t[Min(E)] = "nl"
  <2>1. \A e \in E : e = Len(t) \/ t[e] = "nl"
    BY DEF E
  <2>. QED
    BY <1>2, <1>4, <2>1, LenProperties
<1>7. \A j \in k .. Len(t) : j < Min(E) => t[j] # "nl"
  BY <1>4, <1>5, LenProperties
<1>. QED
  BY <1>3, <1>4, <1>6, <1>7, Zenon

LEMMA BlockEndIs ==
  ASSUME NEW V, NEW t \in Seq(V), NEW k \in 1 .. Len(t)
  PROVE  /\ BlockEnd(t, k) \in k .. Len(t)
         /\ \A j \in k + 1 .. Len(t) : j + 1 < BlockEnd(t, k) => ~At(t, j, "*", "/")
         /\ BlockEnd(t, k) < Len(t) =>
              BlockEnd(t, k) - 1 \in k + 1 .. Len(t) /\ At(t, BlockEnd(t, k) - 1, "*", "/")
<1>. DEFINE E == {j + 1 : j \in {j \in k + 1 .. Len(t) : At(t, j, "*", "/")}} \cup {Len(t)}
<1>0. Len(t) \in Nat
  BY LenProperties
<1>1. E \in SUBSET Nat /\ E # {}
  BY <1>0
<1>2. \A e \in E : e = Len(t) \/ (e - 1 \in k + 1 .. Len(t) /\ At(t, e - 1, "*", "/") /\ e - 1 < Len(t))
  BY <1>0 DEF At
<1>3. \A j \in k + 1 .. Len(t) : At(t, j, "*", "/") => j + 1 \in E
  OBVIOUS
<1>4. Len(t) \in E
  OBVIOUS
<1>. HIDE DEF E
<1>5. Min(E) \in E /\ \A j \in E : Min(E) <= j
  BY <1>1, MinIsLeast
<1>6. BlockEnd(t, k) = Min(E)
  BY Zenon DEF BlockEnd, E
<1>7. Min(E) \in k .. Len(t)
  <2>1. \A e \in E : e \in k .. Len(t)
    BY <1>0, <1>1, <1>2
  <2>. QED
    BY <1>5, <2>1, Zenon
<1>8. ASSUME NEW j \in k + 1 .. Len(t), j + 1 < Min(E), At(t, j, "*", "/")
      PROVE  FALSE
  <2>1. Min(E) <= j + 1
    BY <1>3, <1>5, <1>8, Zenon
  <2>. QED
    BY <1>0, <1>7, <1>8, <2>1
<1>9. Min(E) < Len(t) => Min(E) - 1 \in k + 1 .. Len(t) /\ At(t, Min(E) - 1, "*", "/")
  BY <1>0, <1>2, <1>5, <1>7
<1>. QED
  BY <1>6, <1>7, <1>8, <1>9, Zenon

LEMMA WithPartIsSeq ==
  ASSUME TypeOK
  PROVE  WithPart(current) \in Seq(Seq(AllChars))
<1>1. Trim(current) \in Seq(AllChars) /\ parts \in Seq(Seq(AllChars))
  BY TrimIsSeq DEF TypeOK
<1>. QED
  BY <1>1, AppendProperties DEF WithPart

LEMMA InitTypeOK ==
  ASSUME Init
  PROVE  TypeOK
<1>1. PICK n \in 0 .. MaxLen : text \in [1 .. n -> Char]
  BY DEF Init
<1>2. n \in Nat /\ Char \subseteq AllChars
  BY ScanArguments
<1>3. text \in [1 .. n -> AllChars]
  BY <1>1, <1>2
<1>4. text \in Seq(AllChars)
  BY <1>2, <1>3, SeqDef
<1>5. Len(text) \in Nat
  BY <1>4, LenProperties
<1>. QED
  BY <1>4, <1>5 DEF Init, TypeOK

LEMMA ReadTypeOK ==
  ASSUME TypeOK, Splitting, NEW last \in i .. Len(text), Read(last), quote' \in Quotes \cup {"none"}
  PROVE  TypeOK'
<1>1. text \in Seq(AllChars) /\ current \in Seq(AllChars) /\ i \in Nat \ {0} /\ i <= Len(text)
  BY DEF TypeOK, Splitting
<1>2. Len(text) \in Nat
  BY <1>1, LenProperties
<1>3. SubSeq(text, i, last) \in Seq(AllChars)
  <2>1. \A k \in i .. last : text[k] \in AllChars
    BY <1>1, <1>2
  <2>. QED
    BY <1>1, <1>2, <2>1, SubSeqProperties
<1>4. current' \in Seq(AllChars)
  BY <1>1, <1>3, ConcatProperties DEF Read
<1>5. i' \in Nat \ {0} /\ i' <= Len(text) + 1
  BY <1>1, <1>2 DEF Read
<1>. QED
  BY <1>4, <1>5 DEF TypeOK, Splitting, Read

LEMMA NextTypeOK ==
  ASSUME TypeOK, [Next]_vars
  PROVE  TypeOK'
<1>0. /\ text \in Seq(AllChars) /\ Len(text) \in Nat /\ i \in Nat \ {0}
      /\ current \in Seq(AllChars) /\ Len(parts) \in Nat /\ Len(stripped) \in Nat
  BY LenProperties DEF TypeOK
<1>1. CASE InQuote
  <2>1. i <= Len(text) /\ Splitting
    BY <1>1 DEF InQuote, Splitting
  <2>2. PICK last \in i .. Len(text) : Read(last)
    BY <1>0, <1>1, <2>1 DEF InQuote, Escapes
  <2>3. quote' \in Quotes \cup {"none"}
    BY <1>1 DEF InQuote, TypeOK
  <2>. QED
    BY <2>1, <2>2, <2>3, ReadTypeOK
<1>2. CASE LineComment
  <2>1. i \in 1 .. Len(text) /\ Splitting /\ Read(LineEnd(text, i)) /\ quote' = quote
    BY <1>0, <1>2 DEF LineComment, Splitting, LineEnd
  <2>2. LineEnd(text, i) \in i .. Len(text)
    BY <1>0, <2>1, LineEndIs
  <2>3. quote' \in Quotes \cup {"none"}
    BY <2>1 DEF TypeOK
  <2>. QED
    BY <2>1, <2>2, <2>3, ReadTypeOK
<1>3. CASE BlockComment
  <2>1. i \in 1 .. Len(text) /\ Splitting /\ Read(BlockEnd(text, i)) /\ quote' = quote
    BY <1>0, <1>3 DEF BlockComment, Splitting, BlockEnd
  <2>2. BlockEnd(text, i) \in i .. Len(text)
    BY <1>0, <2>1, BlockEndIs
  <2>3. quote' \in Quotes \cup {"none"}
    BY <2>1 DEF TypeOK
  <2>. QED
    BY <2>1, <2>2, <2>3, ReadTypeOK
<1>4. CASE Semicolon
  <2>1. parts' \in Seq(Seq(AllChars)) /\ Len(parts') \in Nat
    BY <1>4, WithPartIsSeq, LenProperties DEF Semicolon
  <2>2. /\ i <= Len(text) /\ i' = i + 1 /\ current' = <<>>
        /\ UNCHANGED <<text, pc, quote, stripped, inside>> /\ pc = "split"
    BY <1>4, Zenon DEF Semicolon, Splitting
  <2>3. i' \in Nat \ {0} /\ i' <= Len(text) + 1
    BY <1>0, <2>2
  <2>4. <<>> \in Seq(AllChars) /\ Len(<<>>) = 0
    BY EmptySeq
  <2>. QED
    BY <2>1, <2>2, <2>3, <2>4 DEF TypeOK
<1>5. CASE Copy
  <2>1. Splitting /\ Read(i) /\ i \in i .. Len(text)
    <3>1. Splitting /\ Read(i) /\ i <= Len(text)
      BY <1>5, Zenon DEF Copy, Splitting
    <3>. QED
      BY <1>0, <3>1
  <2>2. quote' \in Quotes \cup {"none"}
    BY <1>5, Zenon DEF Copy
  <2>. QED
    BY <2>1, <2>2, ReadTypeOK
<1>6. CASE SplitDone
  <2>1. parts' \in Seq(Seq(AllChars)) /\ Len(parts') \in Nat
    BY <1>6, WithPartIsSeq, LenProperties DEF SplitDone
  <2>2. <<>> \in Seq(AllChars) /\ Len(<<>>) = 0
    BY EmptySeq
  <2>3. parts' # <<>> => Len(parts') > 0
    BY <2>1, EmptySeq
  <2>4. stripped' = <<>> /\ i' = 1 /\ current' = <<>> /\ inside' = inside
    BY <1>6 DEF SplitDone, TypeOK
  <2>5. parts' # <<>> => Len((Part)') \in Nat
    <3>1. parts' # <<>> => (Part)' \in Seq(AllChars)
      BY <2>1, <2>2, <2>3, <2>4 DEF Part
    <3>. QED
      BY <3>1, LenProperties
  <2>. QED
    BY <1>6, <2>1, <2>2, <2>3, <2>4, <2>5 DEF SplitDone, TypeOK
<1>. DEFINE Stays == /\ pc = "strip" /\ UNCHANGED <<text, pc, quote, parts, stripped>>
                     /\ current' \in Seq(AllChars) /\ inside' \in {"none", "line", "block"}
                     /\ i' \in Nat \ {0} /\ i' <= Len(Part) + 1
<1>7. ASSUME Stays
      PROVE  TypeOK'
  <2>1. (Part)' = Part
    BY <1>7 DEF Part
  <2>. QED
    BY <1>7, <2>1 DEF TypeOK
<1>8. ASSUME Stripping
      PROVE  /\ Part \in Seq(AllChars) /\ Len(Part) \in Nat
             /\ i \in 1 .. Len(Part) /\ Part[i] \in AllChars
  <2>1. Len(stripped) + 1 \in 1 .. Len(parts)
    BY <1>0, <1>8 DEF Stripping, TypeOK
  <2>2. Part \in Seq(AllChars)
    BY <2>1 DEF Part, TypeOK
  <2>. QED
    BY <1>0, <1>8, <2>2, LenProperties DEF Stripping
<1>9. CASE InLine
  <2>1. current' \in Seq(AllChars)
    <3>1. current' = current \/ current' = current \o <<"nl">>
      BY <1>9, Zenon DEF InLine, Keep
    <3>2. <<"nl">> \in Seq(AllChars)
      BY DEF AllChars
    <3>3. current \o <<"nl">> \in Seq(AllChars)
      BY ONLY <1>0, <3>2, ConcatProperties
    <3>. QED
      BY <1>0, <3>1, <3>3, Zenon
  <2>2. Stays
    BY <1>0, <1>8, <1>9, <2>1 DEF InLine, Stripping, Step, TypeOK
  <2>. QED
    BY <1>7, <2>2
<1>10. CASE InBlock
  <2>1. Stays
    BY <1>0, <1>8, <1>10 DEF InBlock, Stripping, Step, At, TypeOK
  <2>. QED
    BY <1>7, <2>1
<1>11. CASE Opens
  <2>1. Stays
    BY <1>0, <1>8, <1>11 DEF Opens, Stripping, Step, At, TypeOK
  <2>. QED
    BY <1>7, <2>1
<1>12. CASE KeepChar
  <2>1. current' \in Seq(AllChars)
    <3>1. Stripping /\ current' = current \o <<Part[i]>>
      BY <1>12, Zenon DEF KeepChar, Keep
    <3>2. <<Part[i]>> \in Seq(AllChars)
      BY ONLY <1>8, <3>1
    <3>3. current \o <<Part[i]>> \in Seq(AllChars)
      BY ONLY <1>0, <3>2, ConcatProperties
    <3>. QED
      BY <3>1, <3>3, Zenon
  <2>2. Stays
    BY <1>0, <1>8, <1>12, <2>1 DEF KeepChar, Stripping, Step, TypeOK
  <2>. QED
    BY <1>7, <2>2
<1>13. CASE StripDone
  <2>1. stripped' \in Seq(Seq(AllChars)) /\ Len(stripped') = Len(stripped) + 1
    BY <1>13, AppendProperties DEF StripDone, TypeOK
  <2>2. <<>> \in Seq(AllChars)
    OBVIOUS
  <2>3. parts' = parts /\ (Len(stripped') # Len(parts) => Len(stripped') < Len(parts))
    BY <1>0, <1>13, <2>1 DEF StripDone, TypeOK
  <2>4. Len(stripped') < Len(parts) => Len((Part)') \in Nat
    <3>1. Len(stripped') < Len(parts) => Len(stripped') + 1 \in 1 .. Len(parts)
      BY <1>0, <2>1
    <3>2. Len(stripped') < Len(parts) => (Part)' \in Seq(AllChars)
      BY <2>3, <3>1 DEF Part, TypeOK
    <3>. QED
      BY <3>2, LenProperties
  <2>. QED
    BY <1>0, <1>13, <2>1, <2>2, <2>3, <2>4 DEF StripDone, TypeOK
<1>14. CASE UNCHANGED vars
  BY <1>14 DEF vars, TypeOK, Part
<1>. HIDE DEF Stays
<1>. QED
  BY <1>1, <1>2, <1>3, <1>4, <1>5, <1>6, <1>9, <1>10, <1>11, <1>12, <1>13, <1>14 DEF Next

-----------------------------------------------------------------------------
(* The statement that is being stripped has been read up to i, and those   *)
(* before it to their ends.                                                *)

Bare(eng, s) == Plain(eng, s) /\ NoStrings(s)
StripSoFar(eng) == pc = "strip" /\ Bare(eng, Part) => StripRead(eng, Part, current, i, inside)
StrippedSoFar(eng) ==
  \A k \in 1 .. Len(stripped) : Bare(eng, parts[k]) => stripped[k] = Listed(parts[k], Kept(eng, parts[k]))

StripsFor(eng) == StripSoFar(eng) /\ StrippedSoFar(eng)
Strips == \A eng \in Dialects : StripsFor(eng)

LEMMA PartTyped ==
  ASSUME TypeOK, pc = "strip"
  PROVE  /\ Part \in Seq(AllChars) /\ Len(Part) \in Nat
         /\ i \in 1 .. Len(Part) + 1 /\ current \in Seq(AllChars)
<1>1. Len(stripped) + 1 \in 1 .. Len(parts)
  BY LenProperties DEF TypeOK
<1>2. Part \in Seq(AllChars)
  BY <1>1 DEF Part, TypeOK
<1>3. Len(Part) \in Nat
  BY <1>2, LenProperties
<1>. QED
  BY <1>2, <1>3 DEF TypeOK

\* A scan of the next statement begins with nothing read.
LEMMA StripBegins ==
  ASSUME NEW eng \in Dialects, TypeOK', current' = <<>>, i' = 1, inside' = "none"
  PROVE  StripSoFar(eng)'
<1>. SUFFICES ASSUME pc' = "strip" PROVE StripRead(eng, (Part)', <<>>, 1, "none")
  BY Zenon DEF StripSoFar
<1>1. Len(stripped') + 1 \in 1 .. Len(parts')
  BY LenProperties DEF TypeOK
<1>2. (Part)' \in Seq(AllChars)
  BY <1>1 DEF Part, TypeOK
<1>. QED
  BY <1>2, StripReadFirst

LEMMA NextStrips ==
  ASSUME TypeOK, TypeOK', Strips, [Next]_vars
  PROVE  Strips'
<1>. SUFFICES ASSUME NEW eng \in Dialects PROVE StripsFor(eng)'
  BY Zenon DEF Strips
<1>0. StripsFor(eng)
  BY Zenon DEF Strips
<1>. USE <1>0 DEF StripsFor
<1>1. ASSUME pc = "split", pc' = "split", stripped' = stripped
      PROVE  StripsFor(eng)'
  <2>1. stripped' = <<>>
    BY <1>1 DEF TypeOK
  <2>2. 1 .. Len(stripped') = {}
    BY <2>1
  <2>. QED
    BY <1>1, <2>2 DEF StripSoFar, StrippedSoFar
<1>2. CASE InQuote \/ LineComment \/ BlockComment \/ Semicolon \/ Copy
  <2>1. pc = "split" /\ pc' = "split" /\ stripped' = stripped
    BY <1>2, Zenon DEF InQuote, LineComment, BlockComment, Semicolon, Copy, Splitting, Read
  <2>. QED
    BY <1>1, <2>1
<1>3. CASE SplitDone
  <2>1. current' = <<>> /\ i' = 1 /\ inside' = "none" /\ stripped' = <<>>
    BY <1>3 DEF SplitDone, TypeOK
  <2>2. 1 .. Len(stripped') = {}
    BY <2>1
  <2>. QED
    BY <2>1, <2>2, StripBegins DEF StrippedSoFar
<1>4. ASSUME pc = "strip", UNCHANGED <<pc, parts, stripped>>,
             Bare(eng, Part) => StripRead(eng, Part, current', i', inside')
      PROVE  StripsFor(eng)'
  <2>1. (Part)' = Part
    BY <1>4 DEF Part
  <2>2. StripSoFar(eng)'
    BY <1>4, <2>1, Zenon DEF StripSoFar
  <2>3. StrippedSoFar(eng)'
    BY <1>4, Zenon DEF StrippedSoFar
  <2>. QED
    BY <2>2, <2>3
<1>5. ASSUME Stripping
      PROVE  /\ pc = "strip" /\ Part \in Seq(AllChars) /\ current \in Seq(AllChars)
             /\ i \in 1 .. Len(Part)
             /\ Bare(eng, Part) => StripRead(eng, Part, current, i, inside)
  BY <1>5, PartTyped DEF Stripping, StripSoFar
<1>6. CASE InLine
  <2>1. Stripping /\ inside = "line" /\ UNCHANGED <<pc, parts, stripped>> /\ i' = i + 1
    BY <1>6, Zenon DEF InLine, Step
  <2>2. \/ Part[i] = "nl" /\ inside' = "none" /\ current' = current \o <<"nl">>
        \/ Part[i] # "nl" /\ inside' = "line" /\ current' = current
    BY <1>6, Zenon DEF InLine, Keep
  <2>3. Bare(eng, Part) => StripRead(eng, Part, current', i', inside')
    BY <1>5, <2>1, <2>2, StripReadInLine
  <2>. QED
    BY <1>4, <1>5, <2>1, <2>3
<1>7. CASE InBlock
  <2>1. Stripping /\ inside = "block" /\ UNCHANGED <<pc, parts, stripped, current>>
    BY <1>7, Zenon DEF InBlock, Step
  <2>2. \/ At(Part, i, "*", "/") /\ inside' = "none" /\ i' = i + 2
        \/ ~At(Part, i, "*", "/") /\ inside' = "block" /\ i' = i + 1
    BY <1>7, Zenon DEF InBlock, Step
  <2>3. Bare(eng, Part) => StripRead(eng, Part, current', i', inside')
    BY <1>5, <2>1, <2>2, StripReadInBlock
  <2>. QED
    BY <1>4, <1>5, <2>1, <2>3
<1>8. CASE Opens
  <2>1. Stripping /\ inside = "none" /\ UNCHANGED <<pc, parts, stripped, current>> /\ i' = i + 2
    BY <1>8, Zenon DEF Opens, Step
  <2>2. \/ At(Part, i, "-", "-") /\ inside' = "line"
        \/ At(Part, i, "/", "*") /\ inside' = "block"
    BY <1>8, Zenon DEF Opens
  <2>3. Bare(eng, Part) => StripRead(eng, Part, current', i', inside')
    BY <1>5, <2>1, <2>2, StripReadOpens DEF Bare
  <2>. QED
    BY <1>4, <1>5, <2>1, <2>3
<1>9. CASE KeepChar
  <2>1. /\ Stripping /\ inside = "none" /\ inside' = "none" /\ UNCHANGED <<pc, parts, stripped>>
        /\ i' = i + 1 /\ current' = current \o <<Part[i]>>
        /\ ~At(Part, i, "-", "-") /\ ~At(Part, i, "/", "*")
    BY <1>9, Zenon DEF KeepChar, Step, Keep
  <2>2. Bare(eng, Part) => StripRead(eng, Part, current', i', inside')
    BY <1>5, <2>1, StripReadKeep DEF Bare
  <2>. QED
    BY <1>4, <1>5, <2>1, <2>2
<1>10. CASE StripDone
  <2>1. /\ pc = "strip" /\ i > Len(Part) /\ stripped' = Append(stripped, current) /\ parts' = parts
        /\ current' = <<>> /\ i' = 1 /\ inside' = "none"
    BY <1>10, Zenon DEF StripDone
  <2>2. Part \in Seq(AllChars) /\ current \in Seq(AllChars) /\ i = Len(Part) + 1
    BY <2>1, PartTyped
  <2>3. Bare(eng, Part) => current = Listed(Part, Kept(eng, Part))
    BY <2>1, <2>2, StripReadAll DEF StripSoFar
  <2>4. /\ Len(stripped') = Len(stripped) + 1 /\ stripped'[Len(stripped) + 1] = current
        /\ \A k \in 1 .. Len(stripped) : stripped'[k] = stripped[k]
        /\ Len(stripped) \in Nat
    BY <2>1, AppendProperties, LenProperties DEF TypeOK
  <2>5. ASSUME NEW k \in 1 .. Len(stripped'), Bare(eng, parts[k])
        PROVE  stripped'[k] = Listed(parts[k], Kept(eng, parts[k]))
    <3>1. CASE k = Len(stripped) + 1
      BY <2>3, <2>4, <2>5, <3>1, Zenon DEF Part
    <3>2. CASE k \in 1 .. Len(stripped)
      BY <2>4, <2>5, <3>2, Zenon DEF StrippedSoFar
    <3>3. k = Len(stripped) + 1 \/ k \in 1 .. Len(stripped)
      BY <2>4
    <3>. QED
      BY <3>1, <3>2, <3>3
  <2>6. StrippedSoFar(eng)'
    BY <2>1, <2>5, Zenon DEF StrippedSoFar
  <2>7. StripSoFar(eng)'
    BY <2>1, StripBegins
  <2>. QED
    BY <2>6, <2>7
<1>11. CASE UNCHANGED vars
  BY <1>11, Zenon DEF vars, StripSoFar, StrippedSoFar, Part
<1>. QED
  BY <1>2, <1>3, <1>6, <1>7, <1>8, <1>9, <1>10, <1>11 DEF Next

LEMMA InitStrips ==
  ASSUME Init
  PROVE  Strips
<1>1. pc = "split" /\ stripped = <<>>
  BY DEF Init
<1>2. 1 .. Len(stripped) = {}
  BY <1>1
<1>. QED
  BY <1>1, <1>2 DEF Strips, StripsFor, StripSoFar, StrippedSoFar

-----------------------------------------------------------------------------
(* splitStatements.  Before(eng, t, a): the statements of t that begin in  *)
(* front of position a, as the engine reads t.                             *)

Cuts(eng, t) == Separators(eng, t) \cup {0, Len(t) + 1}
Following(eng, t, a) == Min({b \in Cuts(eng, t) : b > a})
Piece(eng, t, a) == Trim(SubSeq(t, a + 1, Following(eng, t, a) - 1))
Begins(eng, t) == {a \in Cuts(eng, t) \ {Len(t) + 1} : Piece(eng, t, a) # <<>>}
Statement(eng, t, a) == [at |-> a, is |-> Piece(eng, t, a)]
Before(eng, t, a) == {Statement(eng, t, b) : b \in {b \in Begins(eng, t) : b < a}}

\* p lists the statements T in the order of their places.
Numbered(p, T) ==
  /\ IsFiniteSet(T) /\ Len(p) = Cardinality(T)
  /\ \A st \in T :
       /\ Cardinality({o \in T : o.at <= st.at}) \in 1 .. Len(p)
       /\ p[Cardinality({o \in T : o.at <= st.at})] = st.is

\* In front of position k the scan has found the statements p, and c behind the
\* last separator, a; it is inside the quote q.
CutAt(eng, t, c, p, k, a) ==
  /\ a = 0 \/ a \in Separators(eng, t)
  /\ \A b \in Separators(eng, t) : b > a => b >= k
  /\ c = SubSeq(t, a + 1, k - 1)
  /\ Numbered(p, Before(eng, t, a))

SplitRead(eng, t, c, p, k, q) ==
  /\ k <= Len(t) => State(eng, t)[k - 1] = IF q = "none" THEN "code" ELSE q
  /\ \E a \in 0 .. k - 1 : CutAt(eng, t, c, p, k, a)

SplitsFor(eng) ==
  Plain(eng, text) /\ ~Ambiguous(eng, text) =>
    /\ pc = "split" => SplitRead(eng, text, current, parts, i, quote)
    /\ pc # "split" => Numbered(parts, TrueStatements(eng, text))

Splits == \A eng \in Dialects : SplitsFor(eng)

\* One statement more, behind the others.
LEMMA NumberedMore ==
  ASSUME NEW V, NEW p \in Seq(V), NEW T, Numbered(p, T), \A st \in T : st.at \in Nat,
         NEW u, u.at \in Nat, \A st \in T : st.at < u.at, u.is \in V
  PROVE  Numbered(Append(p, u.is), T \cup {u})
<1>. DEFINE r == Append(p, u.is)
<1>0. IsFiniteSet(T) /\ Len(p) = Cardinality(T) /\ Len(p) \in Nat
  BY LenProperties DEF Numbered
<1>1. u \notin T
  <2>1. u \in T => u.at < u.at
    BY Zenon
  <2>. QED
    BY <2>1
<1>2. IsFiniteSet(T \cup {u}) /\ Cardinality(T \cup {u}) = Cardinality(T) + 1
  BY <1>0, <1>1, FS_AddElement
<1>3. Len(r) = Len(p) + 1 /\ r[Len(p) + 1] = u.is /\ \A m \in 1 .. Len(p) : r[m] = p[m]
  BY AppendProperties
<1>. HIDE DEF r
<1>4. {o \in T \cup {u} : o.at <= u.at} = T \cup {u}
  <2>1. \A o \in T \cup {u} : o.at <= u.at
    OBVIOUS
  <2>. QED
    BY <2>1, Zenon
<1>5. ASSUME NEW st \in T
      PROVE  {o \in T \cup {u} : o.at <= st.at} = {o \in T : o.at <= st.at}
  <2>1. ~(u.at <= st.at)
    OBVIOUS
  <2>. QED
    BY <2>1, Zenon
<1>6. ASSUME NEW st \in T \cup {u}
      PROVE  /\ Cardinality({o \in T \cup {u} : o.at <= st.at}) \in 1 .. Len(r)
             /\ r[Cardinality({o \in T \cup {u} : o.at <= st.at})] = st.is
  <2>. DEFINE n == Cardinality({o \in T \cup {u} : o.at <= st.at})
  <2>1. CASE st = u
    <3>1. n = Len(p) + 1
      BY <1>0, <1>2, <1>4, <2>1, Zenon
    <3>. HIDE DEF n
    <3>2. n \in 1 .. Len(r) /\ r[n] = st.is
      BY <1>0, <1>3, <2>1, <3>1
    <3>. QED
      BY <3>2 DEF n
  <2>2. CASE st \in T
    <3>1. n = Cardinality({o \in T : o.at <= st.at})
      BY <1>5, <2>2, Zenon
    <3>2. n \in 1 .. Len(p) /\ p[n] = st.is
      BY <2>2, <3>1, Zenon DEF Numbered
    <3>. HIDE DEF n
    <3>3. n \in 1 .. Len(r) /\ r[n] = st.is
      BY <1>0, <1>3, <3>2
    <3>. QED
      BY <3>3 DEF n
  <2>. QED
    BY <2>1, <2>2
<1>7. Len(r) = Cardinality(T \cup {u})
  BY <1>0, <1>2, <1>3
<1>8. Numbered(r, T \cup {u})
  BY <1>2, <1>6, <1>7, Zenon DEF Numbered
<1>. QED
  BY <1>8 DEF r

LEMMA MinIs ==
  ASSUME NEW S \in SUBSET Nat, NEW b \in S, \A m \in S : b <= m
  PROVE  Min(S) = b
<1>1. Min(S) \in S /\ \A m \in S : Min(S) <= m
  BY MinIsLeast
<1>2. Min(S) <= b /\ b <= Min(S) /\ Min(S) \in Nat /\ b \in Nat
  BY <1>1, Zenon
<1>. QED
  BY <1>2

LEMMA CutsAreNat ==
  ASSUME NEW eng \in Dialects, NEW V, NEW t \in Seq(V)
  PROVE  /\ Separators(eng, t) \subseteq 1 .. Len(t) /\ Cuts(eng, t) \subseteq Nat /\ Begins(eng, t) \subseteq 0 .. Len(t)
         /\ Len(t) \in Nat
<1>1. Len(t) \in Nat
  BY LenProperties
<1>2. Separators(eng, t) \subseteq 1 .. Len(t)
  BY DEF Separators, Code
<1>. QED
  BY <1>1, <1>2 DEF Cuts, Begins

\* At the next cut behind a the text between them becomes a statement, unless it
\* is blank.
LEMMA NumberedCut ==
  ASSUME NEW eng \in Dialects, NEW V, NEW t \in Seq(V), NEW p \in Seq(Seq(V)), NEW b \in Cuts(eng, t),
         NEW a \in 0 .. b - 1, NEW c, CutAt(eng, t, c, p, b, a)
  PROVE  Numbered(IF Trim(c) = <<>> THEN p ELSE Append(p, Trim(c)), Before(eng, t, b))
<1>0. /\ Separators(eng, t) \subseteq 1 .. Len(t) /\ Cuts(eng, t) \subseteq Nat /\ Begins(eng, t) \subseteq 0 .. Len(t)
      /\ Len(t) \in Nat /\ b \in 1 .. Len(t) + 1
  BY CutsAreNat DEF Cuts
<1>1. Following(eng, t, a) = b
  <2>. DEFINE S == {d \in Cuts(eng, t) : d > a}
  <2>1. S \in SUBSET Nat /\ b \in S
    BY <1>0
  <2>2. \A d \in S : b <= d
    BY <1>0 DEF CutAt, Cuts
  <2>. HIDE DEF S
  <2>3. Min(S) = b
    BY <2>1, <2>2, MinIs
  <2>. QED
    BY <2>3 DEF Following, S
<1>2. Piece(eng, t, a) = Trim(c)
  BY <1>1, Zenon DEF Piece, CutAt
<1>3. a \in Cuts(eng, t) /\ a # Len(t) + 1
  BY <1>0 DEF Cuts, CutAt
<1>4. \A d \in Begins(eng, t) : d < b <=> d < a \/ d = a
  BY <1>0 DEF CutAt, Begins, Cuts
<1>5. Numbered(p, Before(eng, t, a))
  BY DEF CutAt
<1>6. CASE Trim(c) = <<>>
  <2>1. a \notin Begins(eng, t)
    BY <1>2, <1>6 DEF Begins
  <2>2. {d \in Begins(eng, t) : d < b} = {d \in Begins(eng, t) : d < a}
    BY <1>4, <2>1, Zenon
  <2>3. Before(eng, t, b) = Before(eng, t, a)
    BY <2>2, Zenon DEF Before
  <2>. QED
    BY <1>5, <1>6, <2>3
<1>7. CASE Trim(c) # <<>>
  <2>. DEFINE u == Statement(eng, t, a)
  <2>1. a \in Begins(eng, t)
    BY <1>2, <1>3, <1>7 DEF Begins
  <2>2. {d \in Begins(eng, t) : d < b} = {d \in Begins(eng, t) : d < a} \cup {a}
    BY <1>4, <2>1, Zenon
  <2>3. Before(eng, t, b) = Before(eng, t, a) \cup {u}
    BY <2>2, Zenon DEF Before
  <2>4. u.at = a /\ u.is = Trim(c) /\ u.at \in Nat
    BY <1>2 DEF Statement
  <2>5. \A st \in Before(eng, t, a) : st.at \in Nat /\ st.at < u.at
    BY <1>0, <2>4 DEF Before, Statement
  <2>6. Trim(c) \in Seq(V)
    <3>1. \A k \in a + 1 .. b - 1 : t[k] \in V
      BY <1>0
    <3>2. SubSeq(t, a + 1, b - 1) \in Seq(V)
      BY <1>0, <3>1, SubSeqProperties, SMT
    <3>. QED
      BY <3>2, TrimIsSeq DEF CutAt
  <2>. HIDE DEF u
  <2>7. Numbered(Append(p, u.is), Before(eng, t, a) \cup {u})
    BY <1>5, <2>4, <2>5, <2>6, NumberedMore
  <2>. QED
    BY <1>7, <2>3, <2>4, <2>7
<1>. QED
  BY <1>6, <1>7

LEMMA SplitReadFirst ==
  ASSUME NEW eng \in Dialects, NEW V, NEW t \in Seq(V)
  PROVE  SplitRead(eng, t, <<>>, <<>>, 1, "none")
<1>1. State(eng, t)[1 - 1] = "code"
  BY StateIsAfter
<1>2. \A b \in Begins(eng, t) : ~(b < 0)
  BY CutsAreNat
<1>3. Before(eng, t, 0) = {}
  BY <1>2, Zenon DEF Before
<1>4. IsFiniteSet({}) /\ Cardinality({}) = 0
  BY FS_EmptySet
<1>5. Numbered(<<>>, Before(eng, t, 0))
  BY <1>3, <1>4 DEF Numbered
<1>6. \A b \in Separators(eng, t) : b > 0 => b >= 1
  BY CutsAreNat
<1>7. SubSeq(t, 0 + 1, 1 - 1) = <<>>
  BY SubSeqEmpty
<1>8. CutAt(eng, t, <<>>, <<>>, 1, 0)
  BY <1>5, <1>6, <1>7 DEF CutAt
<1>. QED
  BY <1>1, <1>8 DEF SplitRead

\* The scan reads on where there is no separator.
LEMMA SplitReadOn ==
  ASSUME NEW eng \in Dialects, NEW V, NEW t \in Seq(V), NEW c, NEW p, NEW k \in 1 .. Len(t), NEW q, NEW r,
         SplitRead(eng, t, c, p, k, q), NEW last \in k .. Len(t),
         \A b \in k .. last : b \notin Separators(eng, t),
         last < Len(t) => State(eng, t)[last] = IF r = "none" THEN "code" ELSE r
  PROVE  SplitRead(eng, t, c \o SubSeq(t, k, last), p, last + 1, r)
<1>0. Len(t) \in Nat /\ Separators(eng, t) \subseteq 1 .. Len(t)
  BY CutsAreNat
<1>1. PICK a \in 0 .. k - 1 : CutAt(eng, t, c, p, k, a)
  BY Zenon DEF SplitRead
<1>2. \A b \in Separators(eng, t) : b > a => b >= last + 1
  <2>1. ASSUME NEW b \in Separators(eng, t), b > a
        PROVE  b >= last + 1
    <3>1. b >= k /\ b \in 1 .. Len(t)
      BY <1>0, <1>1, <2>1, Zenon DEF CutAt
    <3>2. b \notin k .. last
      BY Zenon
    <3>. QED
      BY <1>0, <3>1, <3>2
  <2>. QED
    BY <2>1
<1>3. c \o SubSeq(t, k, last) = SubSeq(t, a + 1, (last + 1) - 1)
  <2>1. SubSeq(t, a + 1, k - 1) \o SubSeq(t, (k - 1) + 1, last) = SubSeq(t, a + 1, last)
    <3>1. a + 1 \in 1 .. Len(t) + 1 /\ k - 1 \in (a + 1) - 1 .. Len(t) /\ last \in k - 1 .. Len(t)
      BY <1>0
    <3>. QED
      BY <3>1, ConcatAdjacentSubSeq, Zenon
  <2>2. (k - 1) + 1 = k /\ (last + 1) - 1 = last
    BY <1>0
  <2>3. c = SubSeq(t, a + 1, k - 1)
    BY <1>1, Zenon DEF CutAt
  <2>. QED
    BY <2>1, <2>2, <2>3, Zenon
<1>4. CutAt(eng, t, c \o SubSeq(t, k, last), p, last + 1, a)
  BY <1>1, <1>2, <1>3, Zenon DEF CutAt
<1>5. a \in 0 .. (last + 1) - 1 /\ (last + 1) - 1 = last /\ (last + 1 <= Len(t) => last < Len(t))
  BY <1>0
<1>. QED
  BY <1>4, <1>5, Zenon DEF SplitRead

\* The scan cuts at a separator.
LEMMA SplitReadCut ==
  ASSUME NEW eng \in Dialects, NEW V, NEW t \in Seq(V), Plain(eng, t), NEW c, NEW p \in Seq(Seq(V)), NEW k \in 1 .. Len(t),
         SplitRead(eng, t, c, p, k, "none"), t[k] = ";"
  PROVE  SplitRead(eng, t, <<>>, IF Trim(c) = <<>> THEN p ELSE Append(p, Trim(c)), k + 1, "none")
<1>0. Len(t) \in Nat /\ Separators(eng, t) \subseteq 1 .. Len(t) /\ k \in 1 .. Len(t)
  BY CutsAreNat, Zenon
<1>1. PICK a \in 0 .. k - 1 : CutAt(eng, t, c, p, k, a)
  BY Zenon DEF SplitRead
<1>2. State(eng, t)[k - 1] = "code"
  <2>1. k <= Len(t)
    BY ONLY <1>0
  <2>. QED
    BY <2>1, Zenon DEF SplitRead
<1>3. State(eng, t)[k] = "code"
  BY <1>2, StateInCode DEF At, Quotes
<1>4. k \in Separators(eng, t)
  BY <1>2, <1>3 DEF Separators, Code
<1>5. Numbered(IF Trim(c) = <<>> THEN p ELSE Append(p, Trim(c)), Before(eng, t, k))
  BY <1>1, <1>4, NumberedCut DEF Cuts
<1>6. SubSeq(t, k + 1, (k + 1) - 1) = <<>>
  BY ONLY <1>0, SubSeqEmpty
<1>7. \A b \in Separators(eng, t) : b > k => b >= k + 1
  BY ONLY <1>0
<1>8. CutAt(eng, t, <<>>, IF Trim(c) = <<>> THEN p ELSE Append(p, Trim(c)), k + 1, k)
  BY <1>4, <1>5, <1>6, <1>7, Zenon DEF CutAt
<1>9. k \in 0 .. (k + 1) - 1 /\ (k + 1) - 1 = k
  BY ONLY <1>0
<1>. QED
  BY <1>3, <1>8, <1>9, Zenon DEF SplitRead

\* Behind the last position all statements have been found.
LEMMA SplitReadAll ==
  ASSUME NEW eng \in Dialects, NEW V, NEW t \in Seq(V), NEW c, NEW p \in Seq(Seq(V)), NEW q,
         SplitRead(eng, t, c, p, Len(t) + 1, q)
  PROVE  Numbered(IF Trim(c) = <<>> THEN p ELSE Append(p, Trim(c)), TrueStatements(eng, t))
<1>0. Len(t) \in Nat /\ Begins(eng, t) \subseteq 0 .. Len(t)
  BY CutsAreNat
<1>1. PICK a \in 0 .. (Len(t) + 1) - 1 : CutAt(eng, t, c, p, Len(t) + 1, a)
  BY Zenon DEF SplitRead
<1>2. Len(t) + 1 \in Cuts(eng, t)
  BY DEF Cuts
<1>3. Numbered(IF Trim(c) = <<>> THEN p ELSE Append(p, Trim(c)), Before(eng, t, Len(t) + 1))
  BY <1>1, <1>2, NumberedCut
<1>4. {b \in Begins(eng, t) : b < Len(t) + 1} = Begins(eng, t)
  BY <1>0
<1>5. Before(eng, t, Len(t) + 1) = {Statement(eng, t, d) : d \in Begins(eng, t)}
  BY <1>4, Zenon DEF Before
<1>6. TrueStatements(eng, t) = {Statement(eng, t, d) : d \in Begins(eng, t)}
  BY DEF TrueStatements, Statement, Begins, Piece, Following, Cuts
<1>. QED
  BY <1>3, <1>5, <1>6, Zenon

LEMMA IsNoSeparator ==
  ASSUME NEW eng \in Dialects, NEW V, NEW t \in Seq(V), NEW k \in 1 .. Len(t),
         State(eng, t)[k - 1] # "code" \/ State(eng, t)[k] # "code" \/ t[k] # ";"
  PROVE  k \notin Separators(eng, t)
BY DEF Separators, Code

\* A property that a position hands on to the next one holds up to the end.
LEMMA Along ==
  ASSUME NEW P, NEW a \in Nat, NEW b \in Nat, a \in P,
         \A j \in a .. b - 1 : j \in P => j + 1 \in P
  PROVE  \A j \in a .. b : j \in P
<1>. DEFINE S == {n \in Nat : a + n <= b => a + n \in P}
<1>1. 0 \in S
  <2>1. a + 0 = a
    OBVIOUS
  <2>. QED
    BY <2>1
<1>2. ASSUME NEW n \in S
      PROVE  n + 1 \in S
  <2>1. n \in Nat /\ (a + n <= b => a + n \in P)
    OBVIOUS
  <2>2. ASSUME a + (n + 1) <= b
        PROVE  a + (n + 1) \in P
    <3>1. a + n \in a .. b - 1 /\ (a + n) + 1 = a + (n + 1) /\ a + n <= b
      BY <2>1, <2>2
    <3>2. a + n \in P
      BY <2>1, <3>1
    <3>3. (a + n) + 1 \in P
      BY <3>1, <3>2, Zenon
    <3>. QED
      BY <3>1, <3>3, Zenon
  <2>. QED
    BY <2>1, <2>2
<1>. HIDE DEF S
<1>3. S = Nat
  BY <1>1, <1>2, SetInduction DEF S
<1>4. ASSUME NEW j \in a .. b
      PROVE  j \in P
  <2>1. j - a \in Nat /\ a + (j - a) = j /\ j <= b
    OBVIOUS
  <2>2. j - a \in S
    BY <1>3, <2>1
  <2>3. a + (j - a) <= b => a + (j - a) \in P
    BY <2>2, Zenon DEF S
  <2>. QED
    BY <2>1, <2>3, Zenon
<1>. QED
  BY <1>4

\* The lexer along a line comment, and behind it.
LEMMA LineRun ==
  ASSUME NEW eng \in Dialects, NEW V, NEW t \in Seq(V), Plain(eng, t), NEW k \in 1 .. Len(t),
         State(eng, t)[k - 1] = "code", At(t, k, "-", "-")
  PROVE  /\ \A b \in k .. LineEnd(t, k) : b \notin Separators(eng, t)
         /\ LineEnd(t, k) < Len(t) => State(eng, t)[LineEnd(t, k)] = "code"
<1>. DEFINE e == LineEnd(t, k)
            P == {j \in k .. Len(t) : State(eng, t)[j] = "line"}
<1>0. Len(t) \in Nat /\ k \in 1 .. Len(t)
  BY LenProperties, Zenon
<1>1. /\ e \in k .. Len(t)
      /\ \A j \in k .. Len(t) : j < e => t[j] # "nl"
      /\ e < Len(t) => t[e] = "nl"
  BY LineEndIs, Zenon
<1>. HIDE DEF e
<1>2. State(eng, t)[k] = "line"
  BY StateInCode
<1>3. e > k
  BY <1>0, <1>1 DEF At
<1>4. ASSUME NEW j \in k .. (e - 1) - 1, j \in P
      PROVE  j + 1 \in P
  <2>1. j + 1 \in 1 .. Len(t) /\ j + 1 \in k .. Len(t) /\ j + 1 < e /\ (j + 1) - 1 = j
    BY <1>0, <1>1
  <2>2. t[j + 1] # "nl" /\ State(eng, t)[j] = "line"
    BY <1>1, <1>4, <2>1
  <2>3. State(eng, t)[j + 1] = "line"
    BY <2>1, <2>2, StateInComment
  <2>. QED
    BY <2>1, <2>3
<1>5. \A j \in k .. e - 1 : State(eng, t)[j] = "line"
  <2>1. k \in P /\ k \in Nat /\ e - 1 \in Nat
    BY <1>0, <1>1, <1>2
  <2>. HIDE DEF P
  <2>2. \A j \in k .. e - 1 : j \in P
    BY <1>4, <2>1, Along
  <2>. QED
    BY <2>2 DEF P
<1>6. ASSUME NEW b \in k .. e
      PROVE  b \notin Separators(eng, t)
  <2>1. b \in 1 .. Len(t)
    BY <1>0, <1>1
  <2>2. CASE b = k
    BY <1>2, <2>2, <2>1, IsNoSeparator
  <2>3. CASE b # k
    <3>1. b - 1 \in k .. e - 1
      BY <1>0, <1>1, <2>3
    <3>2. State(eng, t)[b - 1] = "line"
      BY <1>5, <3>1, Zenon
    <3>. QED
      BY <2>1, <3>2, IsNoSeparator
  <2>. QED
    BY <2>2, <2>3
<1>7. e < Len(t) => State(eng, t)[e] = "code"
  <2>1. e \in 1 .. Len(t) /\ e - 1 \in k .. e - 1
    BY <1>0, <1>1, <1>3
  <2>2. State(eng, t)[e - 1] = "line"
    BY <1>5, <2>1, Zenon
  <2>. QED
    BY <1>1, <2>1, <2>2, StateInComment
<1>. QED
  BY <1>6, <1>7 DEF e

\* The lexer along a block comment, and behind it, unless the comment closes with
\* the star that opens it.
LEMMA BlockRun ==
  ASSUME NEW eng \in Dialects, NEW V, NEW t \in Seq(V), Plain(eng, t), NEW k \in 1 .. Len(t),
         State(eng, t)[k - 1] = "code", At(t, k, "/", "*"), ~Ambiguous(eng, t)
  PROVE  /\ \A b \in k .. BlockEnd(t, k) : b \notin Separators(eng, t)
         /\ BlockEnd(t, k) < Len(t) => State(eng, t)[BlockEnd(t, k)] = "code"
<1>. DEFINE e == BlockEnd(t, k)
            P == {j \in k + 1 .. Len(t) : State(eng, t)[j] = "block"}
<1>0. Len(t) \in Nat /\ k \in 1 .. Len(t) /\ k + 1 \in 1 .. Len(t)
  BY LenProperties DEF At
<1>1. /\ e \in k .. Len(t)
      /\ \A j \in k + 1 .. Len(t) : j + 1 < e => ~At(t, j, "*", "/")
      /\ e < Len(t) => e - 1 \in k + 1 .. Len(t) /\ At(t, e - 1, "*", "/")
  BY BlockEndIs, Zenon
<1>. HIDE DEF e
<1>2. State(eng, t)[k] = "open"
  BY StateInCode
<1>3. State(eng, t)[k + 1] = "block"
  <2>1. (k + 1) - 1 = k
    BY <1>0
  <2>. QED
    BY <1>0, <1>2, <2>1, StateInComment
<1>4. ASSUME NEW j \in k + 1 .. (e - 2) - 1, j \in P
      PROVE  j + 1 \in P
  <2>1. j + 1 \in 1 .. Len(t) /\ j + 1 \in k + 1 .. Len(t) /\ (j + 1) + 1 < e /\ (j + 1) - 1 = j
    BY <1>0, <1>1
  <2>2. ~At(t, j + 1, "*", "/") /\ State(eng, t)[j] = "block"
    BY <1>1, <1>4, <2>1, Zenon
  <2>3. State(eng, t)[j + 1] = "block"
    BY <2>1, <2>2, StateInComment
  <2>. QED
    BY <2>1, <2>3
<1>5. \A j \in k + 1 .. e - 2 : State(eng, t)[j] = "block"
  <2>1. k + 1 \in P /\ k + 1 \in Nat
    BY <1>0, <1>3
  <2>. HIDE DEF P
  <2>2. CASE e - 2 \in Nat
    <3>1. \A j \in k + 1 .. e - 2 : j \in P
      BY <1>4, <2>1, <2>2, Along
    <3>. QED
      BY <3>1 DEF P
  <2>3. CASE e - 2 \notin Nat
    BY <1>0, <1>1, <2>3
  <2>. QED
    BY <2>2, <2>3
<1>6. ASSUME NEW j \in k .. e - 1
      PROVE  State(eng, t)[j] \in {"open", "block", "close"}
  <2>1. CASE j = k \/ j = k + 1
    BY <1>2, <1>3, <2>1
  <2>2. CASE j \in k + 2 .. e - 1
    <3>1. j \in 1 .. Len(t) /\ j - 1 \in k + 1 .. e - 2
      BY <1>0, <1>1, <2>2
    <3>2. State(eng, t)[j - 1] = "block"
      BY <1>5, <3>1, Zenon
    <3>. QED
      BY <3>1, <3>2, StateInComment
  <2>3. j = k \/ j = k + 1 \/ j \in k + 2 .. e - 1
    BY <1>0, <1>1
  <2>. QED
    BY <2>1, <2>2, <2>3
<1>7. ASSUME NEW b \in k .. e
      PROVE  b \notin Separators(eng, t)
  <2>1. b \in 1 .. Len(t)
    BY <1>0, <1>1
  <2>2. CASE b = k
    BY <1>2, <2>2, <2>1, IsNoSeparator
  <2>3. CASE b # k
    <3>1. b - 1 \in k .. e - 1
      BY <1>0, <1>1, <2>3
    <3>2. State(eng, t)[b - 1] # "code"
      BY <1>6, <3>1
    <3>. QED
      BY <2>1, <3>2, IsNoSeparator
  <2>. QED
    BY <2>2, <2>3
<1>8. ASSUME e < Len(t)
      PROVE  State(eng, t)[e] = "code"
  <2>1. e - 1 \in k + 1 .. Len(t) /\ At(t, e - 1, "*", "/")
    BY <1>1, <1>8
  <2>2. e - 1 # k + 1
    <3>. SUFFICES ASSUME e - 1 = k + 1 PROVE FALSE
      OBVIOUS
    <3>1. k \in 1 .. Len(t) - 2
      BY <1>0, <1>1, <1>8
    <3>2. At(t, k + 1, "*", "/")
      BY <2>1
    <3>. QED
      BY <1>2, <3>1, <3>2, Zenon DEF Ambiguous
  <2>3. e - 2 \in k + 1 .. e - 2 /\ e - 1 \in 1 .. Len(t) /\ e \in 1 .. Len(t) /\ (e - 1) - 1 = e - 2
    BY <1>0, <1>1, <2>1, <2>2
  <2>4. State(eng, t)[e - 2] = "block"
    BY <1>5, <2>3, Zenon
  <2>5. State(eng, t)[e - 1] = "close"
    BY <2>1, <2>3, <2>4, StateInComment
  <2>. QED
    BY <2>3, <2>5, StateInComment
<1>. QED
  BY <1>7, <1>8 DEF e

LEMMA NextSplits ==
  ASSUME TypeOK, Splits, [Next]_vars
  PROVE  Splits'
<1>. SUFFICES ASSUME NEW eng \in Dialects, Plain(eng, text), ~Ambiguous(eng, text), text' = text
              PROVE  /\ pc' = "split" => SplitRead(eng, text, current', parts', i', quote')
                     /\ pc' # "split" => Numbered(parts', TrueStatements(eng, text))
  <2>1. text' = text
    BY Zenon DEF Next, vars, InQuote, LineComment, BlockComment, Semicolon, Copy, SplitDone, InLine, InBlock,
       Opens, KeepChar, StripDone, Read, Step
  <2>. QED
    BY <2>1, Zenon DEF Splits, SplitsFor
<1>0. /\ text \in Seq(AllChars) /\ Len(text) \in Nat /\ i \in Nat \ {0}
      /\ parts \in Seq(Seq(AllChars)) /\ quote \in Quotes \cup {"none"}
      /\ pc = "split" => i <= Len(text) + 1
  BY LenProperties DEF TypeOK
<1>1. ASSUME Splitting
      PROVE  /\ pc = "split" /\ i \in 1 .. Len(text)
             /\ SplitRead(eng, text, current, parts, i, quote)
             /\ State(eng, text)[i - 1] = IF quote = "none" THEN "code" ELSE quote
  <2>1. pc = "split" /\ i <= Len(text)
    BY <1>1, Zenon DEF Splitting
  <2>2. SplitRead(eng, text, current, parts, i, quote)
    BY <2>1, Zenon DEF Splits, SplitsFor
  <2>3. State(eng, text)[i - 1] = IF quote = "none" THEN "code" ELSE quote
    BY <2>1, <2>2, Zenon DEF SplitRead
  <2>. QED
    BY <1>0, <2>1, <2>2, <2>3
<1>2. ASSUME NEW last \in i .. Len(text), Splitting, Read(last),
             \A b \in i .. last : b \notin Separators(eng, text),
             last < Len(text) => State(eng, text)[last] = IF quote' = "none" THEN "code" ELSE quote'
      PROVE  pc' = "split" /\ SplitRead(eng, text, current', parts', i', quote')
  <2>1. pc' = pc /\ current' = current \o SubSeq(text, i, last) /\ i' = last + 1 /\ parts' = parts
    BY <1>2, Zenon DEF Read
  <2>2. SplitRead(eng, text, current \o SubSeq(text, i, last), parts, last + 1, quote')
    BY <1>0, <1>1, <1>2, SplitReadOn
  <2>. QED
    BY <1>1, <1>2, <2>1, <2>2, Zenon
<1>3. CASE InQuote
  <2>1. Splitting /\ quote # "none"
    BY <1>3, Zenon DEF InQuote
  <2>2. i \in 1 .. Len(text) /\ State(eng, text)[i - 1] = quote /\ quote \in Quotes
    BY <1>0, <1>1, <2>1
  <2>3. i \notin Separators(eng, text)
    BY <1>0, <2>2, IsNoSeparator DEF Quotes
  <2>4. CASE text[i] = quote
    <3>1. quote' = "none" /\ Read(i)
      BY <1>3, <2>4, Zenon DEF InQuote
    <3>2. State(eng, text)[i] = "code"
      BY <1>0, <2>2, <2>4, StateInString
    <3>3. i \in i .. Len(text) /\ \A b \in i .. i : b \notin Separators(eng, text)
      BY <2>2, <2>3
    <3>. QED
      BY <1>2, <2>1, <3>1, <3>2, <3>3
  <2>5. CASE text[i] # quote /\ Escapes
    <3>1. quote' = quote /\ Read(i + 1) /\ text[i] = "esc" /\ i < Len(text)
      BY <1>3, <2>5, Zenon DEF InQuote, Escapes
    <3>2. State(eng, text)[i + 1] = quote /\ State(eng, text)[i] # "code"
      BY <1>0, <2>2, <3>1, StateInString
    <3>3. i + 1 \notin Separators(eng, text)
      <4>1. i + 1 \in 1 .. Len(text) /\ (i + 1) - 1 = i
        BY <2>2, <3>1
      <4>. QED
        BY <1>0, <3>2, <4>1, IsNoSeparator
    <3>4. i + 1 \in i .. Len(text) /\ \A b \in i .. i + 1 : b = i \/ b = i + 1
      BY <2>2, <3>1
    <3>5. \A b \in i .. i + 1 : b \notin Separators(eng, text)
      BY <2>3, <3>3, <3>4, Zenon
    <3>. QED
      BY <1>2, <2>1, <3>1, <3>2, <3>4, <3>5
  <2>6. CASE text[i] # quote /\ ~Escapes
    <3>1. quote' = quote /\ Read(i)
      BY <1>3, <2>6, Zenon DEF InQuote
    <3>2. i < Len(text) => State(eng, text)[i] = quote
      BY <1>0, <2>2, <2>6, StateInString DEF Escapes
    <3>3. i \in i .. Len(text) /\ \A b \in i .. i : b \notin Separators(eng, text)
      BY <2>2, <2>3
    <3>. QED
      BY <1>2, <2>1, <3>1, <3>2, <3>3
  <2>. QED
    BY <2>4, <2>5, <2>6
<1>4. CASE LineComment
  <2>1. /\ Splitting /\ quote = "none" /\ quote' = "none" /\ At(text, i, "-", "-")
        /\ Read(LineEnd(text, i))
    BY <1>4, Zenon DEF LineComment, LineEnd
  <2>2. i \in 1 .. Len(text) /\ State(eng, text)[i - 1] = "code"
    BY <1>1, <2>1
  <2>3. LineEnd(text, i) \in i .. Len(text)
    BY <1>0, <2>2, LineEndIs
  <2>4. /\ \A b \in i .. LineEnd(text, i) : b \notin Separators(eng, text)
        /\ LineEnd(text, i) < Len(text) => State(eng, text)[LineEnd(text, i)] = "code"
    BY <1>0, <2>1, <2>2, LineRun
  <2>. QED
    BY <1>2, <2>1, <2>3, <2>4
<1>5. CASE BlockComment
  <2>1. /\ Splitting /\ quote = "none" /\ quote' = "none" /\ At(text, i, "/", "*")
        /\ Read(BlockEnd(text, i))
    BY <1>5, Zenon DEF BlockComment, BlockEnd
  <2>2. i \in 1 .. Len(text) /\ State(eng, text)[i - 1] = "code"
    BY <1>1, <2>1
  <2>3. BlockEnd(text, i) \in i .. Len(text)
    BY <1>0, <2>2, BlockEndIs
  <2>4. /\ \A b \in i .. BlockEnd(text, i) : b \notin Separators(eng, text)
        /\ BlockEnd(text, i) < Len(text) => State(eng, text)[BlockEnd(text, i)] = "code"
    BY <1>0, <2>1, <2>2, BlockRun
  <2>. QED
    BY <1>2, <2>1, <2>3, <2>4
<1>6. CASE Semicolon
  <2>1. /\ Splitting /\ quote = "none" /\ quote' = "none" /\ text[i] = ";" /\ pc' = pc
        /\ parts' = WithPart(current) /\ current' = <<>> /\ i' = i + 1
    BY <1>6, Zenon DEF Semicolon
  <2>2. i \in 1 .. Len(text) /\ SplitRead(eng, text, current, parts, i, "none") /\ pc = "split"
    BY <1>1, <2>1
  <2>3. SplitRead(eng, text, <<>>, WithPart(current), i + 1, "none")
    BY <1>0, <2>1, <2>2, SplitReadCut DEF WithPart
  <2>. QED
    BY <2>1, <2>2, <2>3, Zenon
<1>7. CASE Copy
  <2>1. /\ Splitting /\ quote = "none" /\ Read(i) /\ text[i] # ";"
        /\ ~At(text, i, "-", "-") /\ ~At(text, i, "/", "*")
    BY <1>7, Zenon DEF Copy, NoComment
  <2>2. quote' = IF text[i] \in Quotes THEN text[i] ELSE "none"
    BY <1>7, Zenon DEF Copy
  <2>3. i \in 1 .. Len(text) /\ State(eng, text)[i - 1] = "code"
    BY <1>1, <2>1
  <2>4. State(eng, text)[i] = IF quote' = "none" THEN "code" ELSE quote'
    BY <1>0, <2>1, <2>2, <2>3, StateInCode DEF Quotes
  <2>5. i \notin Separators(eng, text)
    BY <1>0, <2>1, <2>3, IsNoSeparator
  <2>6. i \in i .. Len(text) /\ \A b \in i .. i : b \notin Separators(eng, text)
    BY <2>3, <2>5
  <2>. QED
    BY <1>2, <2>1, <2>4, <2>6
<1>8. CASE SplitDone
  <2>1. pc = "split" /\ i > Len(text) /\ parts' = WithPart(current) /\ pc' # "split"
    BY <1>8, Zenon DEF SplitDone
  <2>2. SplitRead(eng, text, current, parts, i, quote)
    BY <2>1, Zenon DEF Splits, SplitsFor
  <2>3. i = Len(text) + 1
    BY <1>0, <2>1
  <2>4. Numbered(WithPart(current), TrueStatements(eng, text))
    BY <1>0, <2>2, <2>3, SplitReadAll DEF WithPart
  <2>. QED
    BY <2>1, <2>4, Zenon
<1>9. CASE InLine \/ InBlock \/ Opens \/ KeepChar \/ StripDone
  <2>1. pc = "strip" /\ pc' # "split" /\ parts' = parts
    BY <1>9, Zenon DEF InLine, InBlock, Opens, KeepChar, StripDone, Stripping, Step
  <2>. QED
    BY <2>1, Zenon DEF Splits, SplitsFor
<1>10. CASE UNCHANGED vars
  BY <1>10, Zenon DEF vars, Splits, SplitsFor
<1>. QED
  BY <1>3, <1>4, <1>5, <1>6, <1>7, <1>8, <1>9, <1>10 DEF Next

LEMMA InitSplits ==
  ASSUME Init, TypeOK
  PROVE  Splits
<1>1. /\ text \in Seq(AllChars)
      /\ pc = "split" /\ current = <<>> /\ parts = <<>> /\ i = 1 /\ quote = "none"
  BY DEF Init, TypeOK
<1>2. \A eng \in Dialects : SplitRead(eng, text, <<>>, <<>>, 1, "none")
  BY <1>1, SplitReadFirst
<1>. QED
  BY <1>1, <1>2, Zenon DEF Splits, SplitsFor

\* The empty text has no statement.
LEMMA NoStatement ==
  ASSUME NEW eng
  PROVE  TrueStatements(eng, <<>>) = {}
<1>1. Len(<<>>) = 0 /\ 1 .. 0 = {}
  OBVIOUS
<1>2. Separators(eng, <<>>) = {}
  BY <1>1 DEF Separators, Code
<1>3. Cuts(eng, <<>>) = {0, 1}
  BY <1>1, <1>2 DEF Cuts
<1>4. Following(eng, <<>>, 0) = 1
  <2>1. {b \in Cuts(eng, <<>>) : b > 0} = {1}
    BY <1>3
  <2>. DEFINE S == {1}
  <2>2. S \in SUBSET Nat /\ S # {}
    OBVIOUS
  <2>3. Min(S) \in S
    BY <2>2, MinIsLeast
  <2>. QED
    BY <2>1, <2>3 DEF Following
<1>5. Piece(eng, <<>>, 0) = <<>>
  <2>1. SubSeq(<<>>, 0 + 1, 1 - 1) = <<>>
    OBVIOUS
  <2>2. Trim(<<>>) = <<>>
    BY <1>1 DEF Trim
  <2>. QED
    BY <1>4, <2>1, <2>2, Zenon DEF Piece
<1>6. Begins(eng, <<>>) = {}
  BY <1>1, <1>3, <1>5 DEF Begins
<1>7. TrueStatements(eng, <<>>) = {Statement(eng, <<>>, a) : a \in Begins(eng, <<>>)}
  BY Zenon DEF TrueStatements, Statement, Begins, Piece, Following, Cuts
<1>. QED
  BY <1>6, <1>7

LEMMA RestsScanned ==
  ASSUME ScanRests
  PROVE  TypeOK /\ Strips /\ Splits
<1>1. /\ text = <<>> /\ pc = "end" /\ i = 1 /\ quote = "none" /\ inside = "none"
      /\ current = <<>> /\ parts = <<>> /\ stripped = <<>>
  BY DEF ScanRests
<1>2. TypeOK
  BY <1>1 DEF TypeOK
<1>3. 1 .. Len(stripped) = {}
  BY <1>1
<1>4. Strips
  BY <1>1, <1>3 DEF Strips, StripsFor, StripSoFar, StrippedSoFar
<1>5. ASSUME NEW eng \in Dialects
      PROVE  Numbered(parts, TrueStatements(eng, text))
  <2>1. TrueStatements(eng, text) = {} /\ Len(parts) = 0
    BY <1>1, NoStatement
  <2>. QED
    BY <2>1, FS_EmptySet DEF Numbered
<1>6. Splits
  BY <1>1, <1>5, Zenon DEF Splits, SplitsFor
<1>. QED
  BY <1>2, <1>4, <1>6

LEMMA StepScans == [AnalyserNext]_<<vars, words>> => [Next]_vars
BY DEF AnalyserNext

\* For every engine: what is left of a statement without strings is its code, if the
\* engine reads the statement by the scans' rules (Plain): no comment is taken for SQL,
\* and no SQL for a comment (stripComments).
THEOREM StripCorrect == (Spec => []StripIsRight) /\ (AnalyserSpec => []StripIsRight)
<1>1. Init \/ ScanRests => TypeOK /\ Strips
  BY InitTypeOK, InitStrips, RestsScanned
<1>2. TypeOK /\ Strips /\ [Next]_vars => TypeOK' /\ Strips'
  BY NextTypeOK, NextStrips
<1>3. Strips => StripIsRight
  BY Zenon DEF Strips, StripsFor, StrippedSoFar, StripIsRight, Bare, NoStrings
<1>4. AnalyserInit => Init \/ ScanRests
  BY DEF AnalyserInit
<1>. QED
  BY <1>1, <1>2, <1>3, <1>4, StepScans, PTL DEF Spec, AnalyserSpec

\* For every engine: a text that the engine reads by the scans' rules (Plain, not
\* Ambiguous) is cut at the semicolons that stand outside the strings and comments of
\* the engine, and nowhere else, so "one statement" means one (splitStatements,
\* ValidateSingleStatement).
THEOREM SplitCorrect == (Spec => []SplitIsRight) /\ (AnalyserSpec => []SplitIsRight)
<1>1. Init \/ ScanRests => TypeOK /\ Splits
  BY InitTypeOK, InitSplits, RestsScanned
<1>2. TypeOK /\ Splits /\ [Next]_vars => TypeOK' /\ Splits'
  BY NextTypeOK, NextSplits
<1>3. Splits => SplitIsRight
  BY Zenon DEF Splits, SplitsFor, Numbered, SplitIsRight
<1>4. AnalyserInit => Init \/ ScanRests
  BY DEF AnalyserInit
<1>. QED
  BY <1>1, <1>2, <1>3, <1>4, StepScans, PTL DEF Spec, AnalyserSpec

-----------------------------------------------------------------------------
(* wildcardMatch.  Same(v, x, p, a, n): the n characters of v behind x are  *)
(* those of p behind a.                                                    *)

Same(v, x, p, a, n) == \A j \in 1 .. n : v[x + j] = p[a + j]
Alike(v, y, p, b) == v[y] = p[b]

LEMMA SameIsEqual ==
  ASSUME NEW V, NEW v \in Seq(V), NEW p \in Seq(V), NEW x \in Nat, NEW a \in Nat, NEW n \in Nat,
         x + n <= Len(v), a + n <= Len(p)
  PROVE  SubSeq(v, x + 1, x + n) = SubSeq(p, a + 1, a + n) <=> Same(v, x, p, a, n)
<1>. DEFINE s == SubSeq(v, x + 1, x + n)
            t == SubSeq(p, a + 1, a + n)
<1>0. Len(v) \in Nat /\ Len(p) \in Nat
  BY LenProperties
<1>1. s \in Seq(V) /\ Len(s) = n /\ \A j \in 1 .. n : s[j] = v[x + j]
  <2>1. \A j \in x + 1 .. x + n : v[j] \in V
    BY <1>0
  <2>2. /\ s \in Seq(V)
        /\ Len(s) = IF x + 1 <= x + n THEN (x + n) - (x + 1) + 1 ELSE 0
        /\ \A j \in 1 .. (x + n) - (x + 1) + 1 : s[j] = v[(x + 1) + j - 1]
    BY <2>1, SubSeqProperties
  <2>. HIDE DEF s
  <2>3. (x + n) - (x + 1) + 1 = n /\ \A j \in 1 .. n : (x + 1) + j - 1 = x + j
    OBVIOUS
  <2>. QED
    BY <2>2, <2>3
<1>2. t \in Seq(V) /\ Len(t) = n /\ \A j \in 1 .. n : t[j] = p[a + j]
  <2>1. \A j \in a + 1 .. a + n : p[j] \in V
    BY <1>0
  <2>2. /\ t \in Seq(V)
        /\ Len(t) = IF a + 1 <= a + n THEN (a + n) - (a + 1) + 1 ELSE 0
        /\ \A j \in 1 .. (a + n) - (a + 1) + 1 : t[j] = p[(a + 1) + j - 1]
    BY <2>1, SubSeqProperties
  <2>. HIDE DEF t
  <2>3. (a + n) - (a + 1) + 1 = n /\ \A j \in 1 .. n : (a + 1) + j - 1 = a + j
    OBVIOUS
  <2>. QED
    BY <2>2, <2>3
<1>. HIDE DEF s, t
<1>3. s = t <=> \A j \in 1 .. n : s[j] = t[j]
  BY <1>1, <1>2, SeqEqual
<1>4. s = t <=> Same(v, x, p, a, n)
  BY <1>1, <1>2, <1>3, Zenon DEF Same
<1>. QED
  BY <1>4 DEF s, t

LEMMA SameMore ==
  ASSUME NEW v, NEW p, NEW x \in Nat, NEW a \in Nat, NEW n \in Nat
  PROVE  /\ Same(v, x, p, a, 0)
         /\ Same(v, x, p, a, n + 1) <=> Same(v, x, p, a, n) /\ Alike(v, x + n + 1, p, a + n + 1)
<1>1. \A j \in 1 .. n + 1 : j \in 1 .. n \/ j = n + 1
  OBVIOUS
<1>2. \A j \in 1 .. n : j \in 1 .. n + 1
  OBVIOUS
<1>3. n + 1 \in 1 .. n + 1 /\ x + (n + 1) = x + n + 1 /\ a + (n + 1) = a + n + 1
  OBVIOUS
<1>4. 1 .. 0 = {}
  OBVIOUS
<1>5. Same(v, x, p, a, 0)
  BY <1>4, Zenon DEF Same
<1>6. ASSUME Same(v, x, p, a, n + 1)
      PROVE  Same(v, x, p, a, n) /\ Alike(v, x + n + 1, p, a + n + 1)
  <2>1. Same(v, x, p, a, n)
    BY <1>2, <1>6, Zenon DEF Same
  <2>2. v[x + (n + 1)] = p[a + (n + 1)]
    BY <1>3, <1>6, Zenon DEF Same
  <2>. QED
    BY <1>3, <2>1, <2>2, Zenon DEF Alike
<1>7. ASSUME Same(v, x, p, a, n), Alike(v, x + n + 1, p, a + n + 1)
      PROVE  Same(v, x, p, a, n + 1)
  <2>1. ASSUME NEW j \in 1 .. n + 1
        PROVE  v[x + j] = p[a + j]
    <3>1. CASE j \in 1 .. n
      BY <1>7, <3>1, Zenon DEF Same
    <3>2. CASE j = n + 1
      BY <1>3, <1>7, <3>2, Zenon DEF Alike
    <3>. QED
      BY <1>1, <3>1, <3>2, Zenon
  <2>. QED
    BY <2>1, Zenon DEF Same
<1>. QED
  BY <1>5, <1>6, <1>7, Zenon

LEMMA PolicyMinMax ==
  ASSUME NEW S
  PROVE  Policy!Max(S) = Max(S) /\ Policy!Min(S) = Min(S)
BY Zenon DEF Policy!Max, Max, Policy!Min, Min

\* b is where the first occurrence, in v behind pos, of the n characters of p
\* behind a ends, or -1.
FirstEnd(v, pos, p, a, n, b) ==
  \/ b = -1 /\ \A h \in pos .. Len(v) - n : ~Same(v, h, p, a, n)
  \/ \E h \in pos .. Len(v) - n :
       /\ b = n + h /\ Same(v, h, p, a, n)
       /\ \A g \in pos .. Len(v) - n : Same(v, g, p, a, n) => h <= g

LEMMA BehindIs ==
  ASSUME NEW V, NEW v \in Seq(V), NEW p \in Seq(V), NEW pos \in Nat, NEW a \in Nat, NEW n \in Nat,
         a + n <= Len(p), NEW part, part = SubSeq(p, a + 1, a + n)
  PROVE  Len(part) = n /\ FirstEnd(v, pos, p, a, n, Policy!Behind(v, pos, part))
<1>. DEFINE H == {h \in pos .. Len(v) - n : Same(v, h, p, a, n)}
<1>0. Len(v) \in Nat /\ Len(p) \in Nat
  BY LenProperties
<1>1. Len(part) = n
  <2>1. \A j \in a + 1 .. a + n : p[j] \in V
    BY <1>0
  <2>2. Len(SubSeq(p, a + 1, a + n)) = IF a + 1 <= a + n THEN (a + n) - (a + 1) + 1 ELSE 0
    BY <2>1, SubSeqProperties
  <2>. QED
    BY <2>2
<1>2. \A h \in pos .. Len(v) - n : SubSeq(v, h + 1, h + n) = part <=> Same(v, h, p, a, n)
  <2>1. ASSUME NEW h \in pos .. Len(v) - n
        PROVE  h \in Nat /\ h + n <= Len(v)
    BY <1>0
  <2>. QED
    BY <2>1, SameIsEqual
<1>3. {h \in pos .. Len(v) - Len(part) : SubSeq(v, h + 1, h + Len(part)) = part} = H
  BY <1>1, <1>2, Zenon
<1>4. Policy!Behind(v, pos, part) = IF H = {} THEN -1 ELSE n + Min(H)
  BY <1>1, <1>3, PolicyMinMax, Zenon DEF Policy!Behind
<1>5. CASE H = {}
  BY <1>1, <1>4, <1>5, Zenon DEF FirstEnd
<1>6. CASE H # {}
  <2>1. H \in SUBSET Nat
    BY <1>0
  <2>2. Min(H) \in H /\ \A g \in H : Min(H) <= g
    BY <1>6, <2>1, MinIsLeast
  <2>. QED
    BY <1>1, <1>4, <1>6, <2>2, Zenon DEF FirstEnd
<1>. QED
  BY <1>5, <1>6

LEMMA PrefixIs ==
  ASSUME NEW V, NEW v \in Seq(V), NEW p \in Seq(V), NEW n \in Nat, n <= Len(p)
  PROVE  Policy!HasPrefix(v, SubSeq(p, 1, n)) <=> n <= Len(v) /\ Same(v, 0, p, 0, n)
<1>. DEFINE part == SubSeq(p, 1, n)
<1>0. Len(v) \in Nat /\ Len(p) \in Nat
  BY LenProperties
<1>1. part = SubSeq(p, 0 + 1, 0 + n)
  OBVIOUS
<1>2. 0 + n <= Len(p) /\ 0 \in Nat
  BY <1>0
<1>. HIDE DEF part
<1>3. Len(part) = n /\ FirstEnd(v, 0, p, 0, n, Policy!Behind(v, 0, part))
  <2>1. Len(part) = n
    BY <1>1, <1>2, BehindIs
  <2>2. FirstEnd(v, 0, p, 0, n, Policy!Behind(v, 0, part))
    BY <1>1, <1>2, BehindIs
  <2>. QED
    BY <2>1, <2>2
<1>4. Policy!HasPrefix(v, part) <=> Policy!Behind(v, 0, part) = n
  BY <1>3, Zenon DEF Policy!HasPrefix
<1>5. Policy!Behind(v, 0, part) = n <=> n <= Len(v) /\ Same(v, 0, p, 0, n)
  <2>1. CASE n <= Len(v) /\ Same(v, 0, p, 0, n)
    <3>1. 0 \in 0 .. Len(v) - n
      BY <1>0, <2>1
    <3>2. PICK h \in 0 .. Len(v) - n :
              /\ Policy!Behind(v, 0, part) = n + h
              /\ \A g \in 0 .. Len(v) - n : Same(v, g, p, 0, n) => h <= g
      BY <1>3, <2>1, <3>1, Zenon DEF FirstEnd
    <3>3. h <= 0
      BY <2>1, <3>1, <3>2, Zenon
    <3>. QED
      BY <1>0, <2>1, <3>2, <3>3
  <2>2. CASE Policy!Behind(v, 0, part) = n
    <3>1. Policy!Behind(v, 0, part) # -1
      BY <2>2
    <3>2. PICK h \in 0 .. Len(v) - n : Policy!Behind(v, 0, part) = n + h /\ Same(v, h, p, 0, n)
      BY <1>3, <3>1, Zenon DEF FirstEnd
    <3>3. h = 0 /\ n <= Len(v)
      BY <1>0, <2>2, <3>2
    <3>. QED
      BY <3>2, <3>3
  <2>. QED
    BY <2>1, <2>2
<1>. QED
  BY <1>4, <1>5 DEF part

LEMMA SuffixIs ==
  ASSUME NEW V, NEW v \in Seq(V), NEW p \in Seq(V), NEW a \in Nat, NEW n \in Nat, a + n = Len(p),
         NEW part, part = SubSeq(p, a + 1, a + n)
  PROVE  Policy!EndsWith(v, part) <=> n <= Len(v) /\ Same(v, Len(v) - n, p, a, n)
<1>0. Len(v) \in Nat /\ Len(p) \in Nat
  BY LenProperties
<1>1. Len(part) = n
  BY <1>0, BehindIs
<1>2. ASSUME n <= Len(v)
      PROVE  SubSeq(v, Len(v) - n + 1, Len(v)) = part <=> Same(v, Len(v) - n, p, a, n)
  <2>1. Len(v) - n \in Nat /\ (Len(v) - n) + n = Len(v) /\ a + n <= Len(p) /\ (Len(v) - n) + n <= Len(v)
    BY <1>0, <1>2
  <2>2. SubSeq(v, (Len(v) - n) + 1, (Len(v) - n) + n) = SubSeq(p, a + 1, a + n)
          <=> Same(v, Len(v) - n, p, a, n)
    BY <2>1, SameIsEqual
  <2>. QED
    BY <2>1, <2>2, Zenon
<1>. QED
  BY <1>1, <1>2, Zenon DEF Policy!EndsWith

\* One character further in the pattern.
ReachStep(p, v, k, was) ==
  IF p[k] = "*" THEN {m \in 0 .. Len(v) : \E n \in was : n <= m}
  ELSE {m \in 1 .. Len(v) : m - 1 \in was /\ v[m] = p[k]}
FoundStep(p, v, k, was) ==
  IF k \notin Policy!Stars(p) \cup {Len(p) + 1} THEN was
  ELSE IF \A j \in Policy!Stars(p) : k <= j THEN Len(Policy!Part(p, k))
  ELSE IF was = -1 THEN -1
  ELSE Policy!Behind(v, was, Policy!Part(p, k))

IsReach(p, v, n, f) == f = [k \in 0 .. n |-> IF k = 0 THEN {0} ELSE ReachStep(p, v, k, f[k - 1])]
IsFound(p, v, n, f) == f = [k \in 0 .. n |-> IF k = 0 THEN 0 ELSE FoundStep(p, v, k, f[k - 1])]

\* The recursive functions of TableAccess exist.
LEMMA ReachExists ==
  ASSUME NEW p, NEW v, NEW N \in Nat
  PROVE  \E f : IsReach(p, v, N, f)
<1>. DEFINE S == {n \in Nat : \E f : f = [k \in 0 .. n |-> IF k = 0 THEN {0} ELSE ReachStep(p, v, k, f[k - 1])]}
<1>1. 0 \in S
  <2>. DEFINE f == [k \in 0 .. 0 |-> {0}]
  <2>1. f = [k \in 0 .. 0 |-> IF k = 0 THEN {0} ELSE ReachStep(p, v, k, f[k - 1])]
    OBVIOUS
  <2>. HIDE DEF f
  <2>. QED
    BY <2>1
<1>2. ASSUME NEW n \in S
      PROVE  n + 1 \in S
  <2>1. PICK f : f = [k \in 0 .. n |-> IF k = 0 THEN {0} ELSE ReachStep(p, v, k, f[k - 1])]
    BY Zenon
  <2>. DEFINE g == [k \in 0 .. n + 1 |-> IF k = 0 THEN {0} ELSE ReachStep(p, v, k, f[k - 1])]
  <2>2. \A k \in 0 .. n : g[k] = f[k]
    <3>1. \A k \in 0 .. n : f[k] = IF k = 0 THEN {0} ELSE ReachStep(p, v, k, f[k - 1])
      BY <2>1, Zenon
    <3>2. \A k \in 0 .. n : k \in 0 .. n + 1
      OBVIOUS
    <3>3. \A k \in 0 .. n : g[k] = IF k = 0 THEN {0} ELSE ReachStep(p, v, k, f[k - 1])
      BY <3>2, Zenon
    <3>. QED
      BY <3>1, <3>3, Zenon
  <2>3. \A k \in 0 .. n + 1 : k # 0 => k - 1 \in 0 .. n
    OBVIOUS
  <2>4. g = [k \in 0 .. n + 1 |-> IF k = 0 THEN {0} ELSE ReachStep(p, v, k, g[k - 1])]
    BY <2>2, <2>3
  <2>. HIDE DEF g
  <2>. QED
    BY <2>4
<1>. HIDE DEF S
<1>3. S = Nat
  BY <1>1, <1>2, SetInduction DEF S
<1>. QED
  BY <1>3, Zenon DEF S, IsReach

\* The search, part by part.
LEMMA FoundExists ==
  ASSUME NEW p, NEW v, NEW N \in Nat
  PROVE  \E f : IsFound(p, v, N, f)
<1>. DEFINE S == {n \in Nat : \E f : f = [k \in 0 .. n |-> IF k = 0 THEN 0 ELSE FoundStep(p, v, k, f[k - 1])]}
<1>1. 0 \in S
  <2>. DEFINE f == [k \in 0 .. 0 |-> 0]
  <2>1. f = [k \in 0 .. 0 |-> IF k = 0 THEN 0 ELSE FoundStep(p, v, k, f[k - 1])]
    OBVIOUS
  <2>. HIDE DEF f
  <2>. QED
    BY <2>1
<1>2. ASSUME NEW n \in S
      PROVE  n + 1 \in S
  <2>1. PICK f : f = [k \in 0 .. n |-> IF k = 0 THEN 0 ELSE FoundStep(p, v, k, f[k - 1])]
    BY Zenon
  <2>. DEFINE g == [k \in 0 .. n + 1 |-> IF k = 0 THEN 0 ELSE FoundStep(p, v, k, f[k - 1])]
  <2>2. \A k \in 0 .. n : g[k] = f[k]
    <3>1. \A k \in 0 .. n : f[k] = IF k = 0 THEN 0 ELSE FoundStep(p, v, k, f[k - 1])
      BY <2>1, Zenon
    <3>2. \A k \in 0 .. n : k \in 0 .. n + 1
      OBVIOUS
    <3>3. \A k \in 0 .. n : g[k] = IF k = 0 THEN 0 ELSE FoundStep(p, v, k, f[k - 1])
      BY <3>2, Zenon
    <3>. QED
      BY <3>1, <3>3, Zenon
  <2>3. \A k \in 0 .. n + 1 : k # 0 => k - 1 \in 0 .. n
    OBVIOUS
  <2>4. g = [k \in 0 .. n + 1 |-> IF k = 0 THEN 0 ELSE FoundStep(p, v, k, g[k - 1])]
    BY <2>2, <2>3
  <2>. HIDE DEF g
  <2>. QED
    BY <2>4
<1>. HIDE DEF S
<1>3. S = Nat
  BY <1>1, <1>2, SetInduction DEF S
<1>. QED
  BY <1>3, Zenon DEF S, IsFound

LEMMA ReachIs ==
  ASSUME NEW V, NEW p \in Seq(V), NEW v
  PROVE  /\ Policy!Reach(p, v)[0] = {0}
         /\ \A k \in 1 .. Len(p) : Policy!Reach(p, v)[k] = ReachStep(p, v, k, Policy!Reach(p, v)[k - 1])
<1>0. Len(p) \in Nat
  BY LenProperties
<1>1. \E f : IsReach(p, v, Len(p), f)
  BY <1>0, ReachExists, Zenon
<1>2. Policy!Reach(p, v) = [k \in 0 .. Len(p) |-> IF k = 0 THEN {0} ELSE ReachStep(p, v, k, Policy!Reach(p, v)[k - 1])]
  BY <1>1, Zenon DEF Policy!Reach, ReachStep, IsReach
<1>3. \A k \in 0 .. Len(p) : Policy!Reach(p, v)[k] = IF k = 0 THEN {0} ELSE ReachStep(p, v, k, Policy!Reach(p, v)[k - 1])
  BY <1>2, Zenon
<1>4. 0 \in 0 .. Len(p) /\ \A k \in 1 .. Len(p) : k \in 0 .. Len(p) /\ k # 0
  BY <1>0
<1>. QED
  BY <1>3, <1>4, Zenon

LEMMA FoundIs ==
  ASSUME NEW V, NEW p \in Seq(V), NEW v
  PROVE  /\ Policy!Found(p, v)[0] = 0
         /\ \A k \in 1 .. Len(p) + 1 : Policy!Found(p, v)[k] = FoundStep(p, v, k, Policy!Found(p, v)[k - 1])
<1>0. Len(p) + 1 \in Nat
  BY LenProperties
<1>1. \E f : IsFound(p, v, Len(p) + 1, f)
  BY <1>0, FoundExists, Zenon
<1>2. Policy!Found(p, v) = [k \in 0 .. Len(p) + 1 |-> IF k = 0 THEN 0 ELSE FoundStep(p, v, k, Policy!Found(p, v)[k - 1])]
  BY <1>1, Zenon DEF Policy!Found, FoundStep, IsFound
<1>3. \A k \in 0 .. Len(p) + 1 : Policy!Found(p, v)[k] = IF k = 0 THEN 0 ELSE FoundStep(p, v, k, Policy!Found(p, v)[k - 1])
  BY <1>2, Zenon
<1>4. 0 \in 0 .. Len(p) + 1 /\ \A k \in 1 .. Len(p) + 1 : k \in 0 .. Len(p) + 1 /\ k # 0
  BY <1>0
<1>. QED
  BY <1>3, <1>4, Zenon

\* The part that ends at k begins behind the last star in front of k.
LEMMA PartIs ==
  ASSUME NEW V, NEW p \in Seq(V), NEW k \in 1 .. Len(p) + 1, NEW a \in 0 .. k - 1,
         a = 0 \/ a \in Policy!Stars(p), \A j \in Policy!Stars(p) : j < k => j <= a
  PROVE  Policy!Part(p, k) = SubSeq(p, a + 1, a + ((k - 1) - a))
<1>. DEFINE S == {0} \cup {j \in Policy!Stars(p) : j < k}
<1>0. Len(p) \in Nat /\ Policy!Stars(p) \subseteq 1 .. Len(p)
  BY LenProperties DEF Policy!Stars
<1>1. S \in SUBSET Nat /\ a \in S /\ (\A m \in S : m <= a) /\ a \in Nat
  BY <1>0
<1>. HIDE DEF S
<1>2. Max(S) \in S /\ \A m \in S : Max(S) >= m
  BY <1>1, MaxIsGreatest
<1>3. Max(S) = a
  <2>1. Max(S) \in Nat /\ Max(S) <= a /\ Max(S) >= a
    BY <1>1, <1>2, Zenon
  <2>. QED
    BY <1>1, <2>1
<1>4. a + ((k - 1) - a) = k - 1
  BY <1>0, <1>1
<1>. QED
  BY <1>3, <1>4, PolicyMinMax, Zenon DEF Policy!Part, S

\* The text in front of the first star opens v.
Opening(p, v) ==
  Min(Policy!Stars(p)) - 1 <= Len(v) /\ Same(v, 0, p, 0, Min(Policy!Stars(p)) - 1)

\* Where the first k characters of p may end: without a star there is one place,
\* behind a star there is none in front of what the search has found.
Reached(p, v, k) ==
  /\ Policy!Reach(p, v)[k] \subseteq 0 .. Len(v)
  /\ (\A j \in Policy!Stars(p) : j > k) =>
       \A m \in 0 .. Len(v) : m \in Policy!Reach(p, v)[k] <=> m = k /\ Same(v, 0, p, 0, k)
  /\ \A a \in Policy!Stars(p) : a <= k /\ (\A j \in Policy!Stars(p) : j <= k => j <= a) =>
       /\ Policy!Found(p, v)[k] \in Nat \cup {-1}
       /\ \A m \in 0 .. Len(v) :
            m \in Policy!Reach(p, v)[k] <=>
              /\ Opening(p, v) /\ Policy!Found(p, v)[k] # -1
              /\ m - (k - a) >= Policy!Found(p, v)[k] /\ Same(v, m - (k - a), p, a, k - a)

LEMMA StarsAre ==
  ASSUME NEW V, NEW p \in Seq(V)
  PROVE  /\ Len(p) \in Nat /\ Policy!Stars(p) \subseteq 1 .. Len(p)
         /\ \A k \in 1 .. Len(p) : k \in Policy!Stars(p) <=> p[k] = "*"
BY LenProperties DEF Policy!Stars

\* The next character stands for itself.
LEMMA ReachedOne ==
  ASSUME NEW V, NEW v \in Seq(V), NEW p \in Seq(V), NEW k \in 0 .. Len(p) - 1,
         Reached(p, v, k), k + 1 \notin Policy!Stars(p)
  PROVE  Reached(p, v, k + 1)
<1>. DEFINE S == Policy!Stars(p)
            R == Policy!Reach(p, v)
            F == Policy!Found(p, v)
            q == k + 1
<1>0. /\ Len(p) \in Nat /\ S \subseteq 1 .. Len(p) /\ Len(v) \in Nat
      /\ k \in Nat /\ q \in 1 .. Len(p) /\ q - 1 = k /\ p[q] # "*"
  <2>1. Len(p) \in Nat /\ Len(v) \in Nat
    BY LenProperties
  <2>2. k \in Nat /\ q \in 1 .. Len(p) /\ q - 1 = k
    BY <2>1
  <2>. QED
    BY <2>1, <2>2, StarsAre
<1>1. R[q] = {m \in 1 .. Len(v) : m - 1 \in R[k] /\ v[m] = p[q]}
  <2>1. R[q] = ReachStep(p, v, q, R[q - 1])
    BY <1>0, ReachIs
  <2>. QED
    BY <1>0, <2>1, Zenon DEF ReachStep
<1>2. F[q] = F[k]
  <2>1. q \in 1 .. Len(p) + 1 /\ q # Len(p) + 1
    BY <1>0
  <2>2. F[q] = FoundStep(p, v, q, F[q - 1])
    BY <2>1, FoundIs
  <2>. QED
    BY <1>0, <2>1, <2>2, Zenon DEF FoundStep
<1>3. /\ R[k] \subseteq 0 .. Len(v)
      /\ (\A j \in S : j > k) => \A m \in 0 .. Len(v) : m \in R[k] <=> m = k /\ Same(v, 0, p, 0, k)
      /\ \A a \in S : a <= k /\ (\A j \in S : j <= k => j <= a) =>
           /\ F[k] \in Nat \cup {-1}
           /\ \A m \in 0 .. Len(v) :
                m \in R[k] <=> /\ Opening(p, v) /\ F[k] # -1
                              /\ m - (k - a) >= F[k] /\ Same(v, m - (k - a), p, a, k - a)
  BY Zenon DEF Reached
<1>. HIDE DEF S, R, F, q
<1>4. R[q] \subseteq 0 .. Len(v)
  BY <1>0, <1>1
<1>5. ASSUME \A j \in S : j > q, NEW m \in 0 .. Len(v)
      PROVE  m \in R[q] <=> m = q /\ Same(v, 0, p, 0, q)
  <2>1. \A j \in S : j > k
    BY <1>0, <1>5
  <2>2. \A r \in 0 .. Len(v) : r \in R[k] <=> r = k /\ Same(v, 0, p, 0, k)
    BY <1>3, <2>1, Zenon
  <2>3. q = 0 + k + 1 /\ k + 1 = q /\ 0 \in Nat
    BY <1>0 DEF q
  <2>4. Same(v, 0, p, 0, k + 1) <=> Same(v, 0, p, 0, k) /\ Alike(v, 0 + k + 1, p, 0 + k + 1)
    BY <1>0, <2>3, SameMore, Zenon
  <2>5. Same(v, 0, p, 0, q) <=> Same(v, 0, p, 0, k) /\ v[q] = p[q]
    BY <2>3, <2>4, Zenon DEF Alike
  <2>6. m \in R[q] <=> m \in 1 .. Len(v) /\ m - 1 \in R[k] /\ v[m] = p[q]
    BY <1>1, Zenon
  <2>7. m \in 1 .. Len(v) => m - 1 \in 0 .. Len(v) /\ (m - 1 = k <=> m = q)
    BY <1>0
  <2>8. m = q => m \in 1 .. Len(v)
    BY <1>0
  <2>. QED
    BY <2>2, <2>5, <2>6, <2>7, <2>8, Zenon
<1>6. ASSUME NEW a \in S, a <= q, \A j \in S : j <= q => j <= a
      PROVE  /\ F[q] \in Nat \cup {-1}
             /\ \A m \in 0 .. Len(v) :
                  m \in R[q] <=> /\ Opening(p, v) /\ F[q] # -1
                                /\ m - (q - a) >= F[q] /\ Same(v, m - (q - a), p, a, q - a)
  <2>0. a <= k /\ a \in Nat /\ k - a \in Nat
    <3>1. a # q
      BY DEF S, q
    <3>. QED
      BY <1>0, <1>6, <3>1
  <2>1. \A j \in S : j <= k => j <= a
    BY <1>0, <1>6
  <2>2. F[k] \in Nat \cup {-1}
    BY <1>3, <2>0, <2>1, Zenon
  <2>3. ASSUME NEW r \in 0 .. Len(v)
        PROVE  r \in R[k] <=> /\ Opening(p, v) /\ F[k] # -1
                             /\ r - (k - a) >= F[k] /\ Same(v, r - (k - a), p, a, k - a)
    BY <1>3, <2>0, <2>1, Zenon
  <2>4. ASSUME NEW m \in 0 .. Len(v)
        PROVE  m \in R[q] <=> /\ Opening(p, v) /\ F[k] # -1
                             /\ m - (q - a) >= F[k] /\ Same(v, m - (q - a), p, a, q - a)
    <3>1. m \in R[q] <=> m \in 1 .. Len(v) /\ m - 1 \in R[k] /\ v[m] = p[q]
      BY <1>1, Zenon
    <3>2. CASE m = 0
      <4>1. ~(F[k] # -1 /\ m - (q - a) >= F[k])
        BY <1>0, <2>0, <2>2, <3>2
      <4>2. m \notin 1 .. Len(v)
        BY <3>2
      <4>. QED
        BY <3>1, <4>1, <4>2, Zenon
    <3>3. CASE m \in 1 .. Len(v)
      <4>1. m - 1 \in 0 .. Len(v) /\ (m - 1) - (k - a) = m - (q - a) /\ (k - a) + 1 = q - a
        BY <1>0, <2>0, <3>3
      <4>2. m - 1 \in R[k] <=> /\ Opening(p, v) /\ F[k] # -1
                              /\ m - (q - a) >= F[k] /\ Same(v, m - (q - a), p, a, k - a)
        BY <2>3, <4>1, Zenon
      <4>3. ASSUME F[k] # -1, m - (q - a) >= F[k]
            PROVE  Same(v, m - (q - a), p, a, q - a) <=> Same(v, m - (q - a), p, a, k - a) /\ v[m] = p[q]
        <5>1. m - (q - a) \in Nat
          BY <1>0, <2>0, <2>2, <4>3
        <5>2. m = (m - (q - a)) + (k - a) + 1 /\ q = a + (k - a) + 1
          BY <1>0, <2>0
        <5>3. Same(v, m - (q - a), p, a, (k - a) + 1)
                <=> /\ Same(v, m - (q - a), p, a, k - a)
                    /\ Alike(v, (m - (q - a)) + (k - a) + 1, p, a + (k - a) + 1)
          BY <2>0, <5>1, SameMore, Zenon
        <5>. QED
          BY <4>1, <5>2, <5>3, Zenon DEF Alike
      <4>. QED
        BY <3>1, <3>3, <4>2, <4>3, Zenon
    <3>4. m = 0 \/ m \in 1 .. Len(v)
      BY <1>0
    <3>. QED
      BY <3>2, <3>3, <3>4, Zenon
  <2>. QED
    BY <1>2, <2>2, <2>4, Zenon
<1>7. Reached(p, v, q)
  BY <1>4, <1>5, <1>6, Zenon DEF Reached, S, R, F
<1>. QED
  BY <1>7 DEF q

\* The first star: what is in front of it opens the text.
LEMMA ReachedFirstStar ==
  ASSUME NEW V, NEW v \in Seq(V), NEW p \in Seq(V), NEW k \in 0 .. Len(p) - 1,
         Reached(p, v, k), k + 1 \in Policy!Stars(p), \A j \in Policy!Stars(p) : j > k
  PROVE  Reached(p, v, k + 1)
<1>. DEFINE S == Policy!Stars(p)
            R == Policy!Reach(p, v)
            F == Policy!Found(p, v)
            q == k + 1
<1>0. /\ Len(p) \in Nat /\ S \subseteq 1 .. Len(p) /\ Len(v) \in Nat
      /\ k \in Nat /\ q \in 1 .. Len(p) /\ q - 1 = k /\ p[q] = "*"
  <2>1. Len(p) \in Nat /\ Len(v) \in Nat
    BY LenProperties
  <2>2. k \in Nat /\ q \in 1 .. Len(p) /\ q - 1 = k
    BY <2>1
  <2>. QED
    BY <2>1, <2>2, StarsAre
<1>1. R[q] = {m \in 0 .. Len(v) : \E r \in R[k] : r <= m}
  <2>1. R[q] = ReachStep(p, v, q, R[q - 1])
    BY <1>0, ReachIs
  <2>. QED
    BY <1>0, <2>1, Zenon DEF ReachStep
<1>2. q \in S /\ \A j \in S : q <= j
  BY <1>0
<1>3. F[q] = k
  <2>1. q \in 1 .. Len(p) + 1
    BY <1>0
  <2>2. F[q] = FoundStep(p, v, q, F[q - 1])
    BY <2>1, FoundIs
  <2>3. F[q] = Len(Policy!Part(p, q))
    BY <1>2, <2>2, Zenon DEF FoundStep
  <2>4. Policy!Part(p, q) = SubSeq(p, 0 + 1, 0 + ((q - 1) - 0))
    <3>1. 0 \in 0 .. q - 1 /\ \A j \in S : j < q => j <= 0
      BY <1>0, <1>2
    <3>. QED
      BY <2>1, <3>1, PartIs
  <2>5. (q - 1) - 0 = k /\ 0 + k <= Len(p) /\ 0 \in Nat
    BY <1>0
  <2>6. Policy!Part(p, q) = SubSeq(p, 0 + 1, 0 + k)
    BY <2>4, <2>5
  <2>7. Len(Policy!Part(p, q)) = k
    BY <1>0, <2>5, <2>6, BehindIs
  <2>. QED
    BY <2>3, <2>7
<1>4. Min(S) = q
  <2>1. S \in SUBSET Nat /\ S # {}
    BY <1>0, <1>2
  <2>2. Min(S) \in S /\ \A g \in S : Min(S) <= g
    BY <2>1, MinIsLeast
  <2>3. Min(S) \in Nat /\ Min(S) <= q /\ q <= Min(S)
    BY <1>2, <2>1, <2>2, Zenon
  <2>. QED
    BY <1>0, <2>3
<1>5. Opening(p, v) <=> k <= Len(v) /\ Same(v, 0, p, 0, k)
  BY <1>0, <1>4, Zenon DEF Opening
<1>6. /\ R[k] \subseteq 0 .. Len(v)
      /\ \A m \in 0 .. Len(v) : m \in R[k] <=> m = k /\ Same(v, 0, p, 0, k)
  BY Zenon DEF Reached
<1>7. \A m : Same(v, m, p, q, 0)
  BY DEF Same
<1>. HIDE DEF S, R, F, q
<1>8. R[q] \subseteq 0 .. Len(v)
  BY <1>1
<1>9. ASSUME NEW m \in 0 .. Len(v)
      PROVE  m \in R[q] <=> Opening(p, v) /\ k <= m
  <2>1. m \in R[q] <=> \E r \in R[k] : r <= m
    BY <1>1, Zenon
  <2>2. ASSUME NEW r \in R[k], r <= m
        PROVE  Opening(p, v) /\ k <= m
    <3>1. r \in 0 .. Len(v) /\ r = k /\ Same(v, 0, p, 0, k)
      BY <1>6, Zenon
    <3>2. k <= Len(v) /\ k <= m
      BY <1>0, <2>2, <3>1
    <3>. QED
      BY <1>5, <3>1, <3>2, Zenon
  <2>3. ASSUME Opening(p, v), k <= m
        PROVE  k \in R[k] /\ k <= m
    <3>1. k \in 0 .. Len(v)
      BY <1>0, <2>3
    <3>. QED
      BY <1>5, <1>6, <2>3, <3>1, Zenon
  <2>. QED
    BY <2>1, <2>2, <2>3, Zenon
<1>10. ~(\A j \in S : j > q)
  BY <1>0, <1>2
<1>11. ASSUME NEW a \in S, a <= q
       PROVE  /\ F[q] \in Nat \cup {-1}
              /\ \A m \in 0 .. Len(v) :
                   m \in R[q] <=> /\ Opening(p, v) /\ F[q] # -1
                                 /\ m - (q - a) >= F[q] /\ Same(v, m - (q - a), p, a, q - a)
  <2>1. a = q /\ q - a = 0 /\ \A m \in 0 .. Len(v) : m - (q - a) = m
    BY <1>0, <1>2, <1>11
  <2>2. F[q] \in Nat \cup {-1} /\ F[q] # -1 /\ \A m \in 0 .. Len(v) : m >= F[q] <=> k <= m
    BY <1>0, <1>3
  <2>. QED
    BY <1>7, <1>9, <2>1, <2>2, Zenon
<1>12. Reached(p, v, q)
  BY <1>8, <1>10, <1>11, Zenon DEF Reached, S, R, F
<1>. QED
  BY <1>12 DEF q

\* A later star: the part in front of it is searched from where the one before ends.
LEMMA ReachedNextStar ==
  ASSUME NEW V, NEW v \in Seq(V), NEW p \in Seq(V), NEW k \in 0 .. Len(p) - 1,
         Reached(p, v, k), k + 1 \in Policy!Stars(p), NEW a \in Policy!Stars(p), a <= k,
         \A j \in Policy!Stars(p) : j <= k => j <= a
  PROVE  Reached(p, v, k + 1)
<1>. DEFINE S == Policy!Stars(p)
            R == Policy!Reach(p, v)
            F == Policy!Found(p, v)
            q == k + 1
            n == k - a
<1>0. /\ Len(p) \in Nat /\ S \subseteq 1 .. Len(p) /\ Len(v) \in Nat /\ a \in Nat /\ n \in Nat
      /\ k \in Nat /\ q \in 1 .. Len(p) /\ q - 1 = k /\ p[q] = "*" /\ a + n <= Len(p)
  <2>1. Len(p) \in Nat /\ Len(v) \in Nat
    BY LenProperties
  <2>2. k \in Nat /\ q \in 1 .. Len(p) /\ q - 1 = k
    BY <2>1
  <2>3. S \subseteq 1 .. Len(p) /\ p[q] = "*"
    BY <2>2, StarsAre
  <2>4. a \in Nat /\ n \in Nat /\ a + n <= Len(p)
    BY <2>1, <2>2, <2>3
  <2>. QED
    BY <2>1, <2>2, <2>3, <2>4
<1>1. R[q] = {m \in 0 .. Len(v) : \E r \in R[k] : r <= m}
  <2>1. R[q] = ReachStep(p, v, q, R[q - 1])
    BY <1>0, ReachIs
  <2>. QED
    BY <1>0, <2>1, Zenon DEF ReachStep
<1>2. /\ R[k] \subseteq 0 .. Len(v) /\ F[k] \in Nat \cup {-1}
      /\ \A m \in 0 .. Len(v) :
           m \in R[k] <=> /\ Opening(p, v) /\ F[k] # -1
                         /\ m - (k - a) >= F[k] /\ Same(v, m - (k - a), p, a, k - a)
  BY Zenon DEF Reached
<1>3. F[k] = -1 => F[q] = -1
  <2>1. q \in 1 .. Len(p) + 1 /\ q \in S /\ ~(\A j \in S : q <= j)
    BY <1>0
  <2>2. F[q] = FoundStep(p, v, q, F[q - 1])
    BY <2>1, FoundIs
  <2>. QED
    BY <1>0, <2>1, <2>2, Zenon DEF FoundStep
<1>4. ASSUME F[k] # -1
      PROVE  FirstEnd(v, F[k], p, a, n, F[q])
  <2>1. q \in 1 .. Len(p) + 1 /\ q \in S /\ ~(\A j \in S : q <= j)
    BY <1>0
  <2>2. F[q] = FoundStep(p, v, q, F[q - 1])
    BY <2>1, FoundIs
  <2>3. F[q] = Policy!Behind(v, F[k], Policy!Part(p, q))
    BY <1>0, <1>4, <2>1, <2>2, Zenon DEF FoundStep
  <2>4. Policy!Part(p, q) = SubSeq(p, a + 1, a + n)
    <3>1. a \in 0 .. q - 1 /\ \A j \in S : j < q => j <= a
      BY <1>0
    <3>2. Policy!Part(p, q) = SubSeq(p, a + 1, a + ((q - 1) - a))
      BY <2>1, <3>1, PartIs
    <3>3. (q - 1) - a = n
      BY <1>0
    <3>. QED
      BY <3>2, <3>3, Zenon
  <2>5. F[k] \in Nat
    BY <1>2, <1>4
  <2>6. FirstEnd(v, F[k], p, a, n, Policy!Behind(v, F[k], Policy!Part(p, q)))
    <3>. DEFINE pos == F[k]
                part == Policy!Part(p, q)
    <3>. HIDE DEF pos, part, n, F
    <3>1. pos \in Nat /\ part = SubSeq(p, a + 1, a + n) /\ a \in Nat /\ n \in Nat /\ a + n <= Len(p)
      BY <1>0, <2>4, <2>5 DEF pos, part
    <3>2. FirstEnd(v, pos, p, a, n, Policy!Behind(v, pos, part))
      BY ONLY <3>1, BehindIs, v \in Seq(V), p \in Seq(V)
    <3>. QED
      BY <3>2 DEF pos, part
  <2>. QED
    BY <2>3, <2>6, Zenon
<1>5. \A m : Same(v, m, p, q, 0)
  BY DEF Same
<1>6. \A j \in S : j <= q => j <= a \/ j = q
  BY <1>0
<1>. HIDE DEF S, R, F
<1>7. R[q] \subseteq 0 .. Len(v)
  BY <1>1
<1>8. F[q] \in Nat \cup {-1}
  <2>1. CASE F[k] = -1
    BY <1>3, <2>1
  <2>2. CASE F[k] # -1
    <3>1. F[k] \in Nat
      BY <1>2, <2>2
    <3>2. F[q] = -1 \/ \E h \in F[k] .. Len(v) - n : F[q] = n + h
      BY <1>4, <2>2, Zenon DEF FirstEnd
    <3>. QED
      BY <1>0, <3>1, <3>2
  <2>. QED
    BY <2>1, <2>2
<1>9. ASSUME NEW m \in 0 .. Len(v)
      PROVE  m \in R[q] <=> Opening(p, v) /\ F[q] # -1 /\ m >= F[q]
  <2>1. m \in R[q] <=> \E r \in R[k] : r <= m
    BY <1>1, Zenon
  <2>2. ASSUME NEW r \in R[k], r <= m
        PROVE  Opening(p, v) /\ F[q] # -1 /\ m >= F[q]
    <3>1. r \in 0 .. Len(v)
      BY <1>2, Zenon
    <3>2. Opening(p, v) /\ F[k] # -1 /\ r - n >= F[k] /\ Same(v, r - n, p, a, n)
      BY <1>2, <3>1, Zenon
    <3>3. F[k] \in Nat /\ r - n \in F[k] .. Len(v) - n
      BY <1>0, <1>2, <3>1, <3>2
    <3>4. FirstEnd(v, F[k], p, a, n, F[q])
      BY <1>4, <3>2, Zenon
    <3>5. PICK h \in F[k] .. Len(v) - n :
             F[q] = n + h /\ \A g \in F[k] .. Len(v) - n : Same(v, g, p, a, n) => h <= g
      BY <3>2, <3>3, <3>4, Zenon DEF FirstEnd
    <3>6. h <= r - n
      BY <3>2, <3>3, <3>5, Zenon
    <3>7. F[q] # -1 /\ m >= F[q]
      <4>. HIDE DEF n
      <4>1. h \in Nat /\ n \in Nat /\ r \in Nat /\ m \in Nat
        BY <1>0, <3>1, <3>3
      <4>. QED
        BY <2>2, <3>5, <3>6, <4>1
    <3>. QED
      BY <3>2, <3>7
  <2>3. ASSUME Opening(p, v), F[q] # -1, m >= F[q]
        PROVE  \E r \in R[k] : r <= m
    <3>1. F[k] # -1
      BY <1>3, <2>3, Zenon
    <3>2. FirstEnd(v, F[k], p, a, n, F[q])
      BY <1>4, <3>1, Zenon
    <3>3. PICK h \in F[k] .. Len(v) - n : F[q] = n + h /\ Same(v, h, p, a, n)
      BY <2>3, <3>2, Zenon DEF FirstEnd
    <3>4. F[k] \in Nat
      BY <1>2, <3>1
    <3>5. n + h \in 0 .. Len(v) /\ (n + h) - n = h /\ h >= F[k] /\ n + h <= m
      <4>. HIDE DEF n
      <4>. QED
        BY <1>0, <2>3, <3>3, <3>4
    <3>6. n + h \in R[k]
      BY <1>2, <2>3, <3>1, <3>3, <3>5, Zenon
    <3>. QED
      BY <3>5, <3>6, Zenon
  <2>. QED
    BY <2>1, <2>2, <2>3, Zenon
<1>10. ~(\A j \in S : j > q)
  BY <1>0 DEF S
<1>11. ASSUME NEW b \in S, b <= q, \A j \in S : j <= q => j <= b
       PROVE  /\ F[q] \in Nat \cup {-1}
              /\ \A m \in 0 .. Len(v) :
                   m \in R[q] <=> /\ Opening(p, v) /\ F[q] # -1
                                 /\ m - (q - b) >= F[q] /\ Same(v, m - (q - b), p, b, q - b)
  <2>1. b = q
    <3>1. q \in S /\ q <= q
      BY <1>0 DEF S
    <3>2. q <= b
      BY <1>11, <3>1, Zenon
    <3>. QED
      BY <1>0, <1>11, <3>2
  <2>2. q - b = 0 /\ \A m \in 0 .. Len(v) : m - (q - b) = m
    BY <1>0, <2>1
  <2>. QED
    BY <1>5, <1>8, <1>9, <2>1, <2>2, Zenon
<1>12. Reached(p, v, q)
  BY <1>7, <1>10, <1>11, Zenon DEF Reached, S, R, F
<1>. QED
  BY <1>12 DEF q

LEMMA ReachedAll ==
  ASSUME NEW V, NEW v \in Seq(V), NEW p \in Seq(V)
  PROVE  \A k \in 0 .. Len(p) : Reached(p, v, k)
<1>. DEFINE P == {k \in 0 .. Len(p) : Reached(p, v, k)}
            S == Policy!Stars(p)
<1>0. Len(p) \in Nat /\ Len(v) \in Nat /\ S \subseteq 1 .. Len(p)
  BY LenProperties, StarsAre
<1>1. Reached(p, v, 0)
  <2>1. Policy!Reach(p, v)[0] = {0}
    BY ReachIs
  <2>2. Same(v, 0, p, 0, 0)
    BY DEF Same
  <2>3. Policy!Reach(p, v)[0] \subseteq 0 .. Len(v)
    BY <1>0, <2>1
  <2>4. \A m \in 0 .. Len(v) : m \in Policy!Reach(p, v)[0] <=> m = 0 /\ Same(v, 0, p, 0, 0)
    BY <2>1, <2>2
  <2>5. \A a \in S : ~(a <= 0)
    BY <1>0
  <2>. QED
    BY <2>3, <2>4, <2>5, Zenon DEF Reached
<1>2. ASSUME NEW k \in 0 .. Len(p) - 1, Reached(p, v, k)
      PROVE  Reached(p, v, k + 1)
  <2>1. CASE k + 1 \notin S
    BY <1>2, <2>1, ReachedOne
  <2>2. CASE k + 1 \in S /\ \A j \in S : j > k
    BY <1>2, <2>2, ReachedFirstStar
  <2>3. CASE k + 1 \in S /\ ~(\A j \in S : j > k)
    <3>. DEFINE B == {j \in S : j <= k}
    <3>1. B \in SUBSET Nat /\ B # {} /\ k \in Nat /\ \A j \in B : j <= k
      BY <1>0, <2>3
    <3>2. Max(B) \in B /\ \A j \in B : Max(B) >= j
      BY <3>1, MaxIsGreatest
    <3>3. PICK a \in S : a <= k /\ \A j \in S : j <= k => j <= a
      BY <1>0, <3>2
    <3>. QED
      BY <1>2, <2>3, <3>3, ReachedNextStar
  <2>. QED
    BY <2>1, <2>2, <2>3
<1>3. 0 \in P /\ \A k \in 0 .. Len(p) - 1 : k \in P => k + 1 \in P
  BY <1>0, <1>1, <1>2
<1>. HIDE DEF P
<1>4. \A k \in 0 .. Len(p) : k \in P
  BY <1>0, <1>3, Along
<1>. QED
  BY <1>4 DEF P

\* The greedy search for the parts of a pattern finds every match.
LEMMA WildcardIs ==
  ASSUME NEW V, NEW v \in Seq(V), NEW p \in Seq(V)
  PROVE  Policy!WildcardMatch(p, v) <=> Policy!Globs(p, v)
<1>. DEFINE S == Policy!Stars(p)
            F == Policy!Found(p, v)
            L == Len(p)
<1>0. L \in Nat /\ Len(v) \in Nat /\ S \subseteq 1 .. L
  BY LenProperties, StarsAre
<1>1. Reached(p, v, L)
  <2>1. L \in 0 .. Len(p)
    BY <1>0
  <2>. QED
    BY <2>1, ReachedAll, Zenon
<1>2. Len(v) \in 0 .. Len(v)
  BY <1>0
<1>3. CASE S = {}
  <2>1. Policy!Globs(p, v) <=> Len(v) = L /\ Same(v, 0, p, 0, L)
    BY <1>1, <1>2, <1>3, Zenon DEF Reached, Policy!Globs
  <2>2. p = v <=> Len(v) = L /\ Same(v, 0, p, 0, L)
    <3>1. p = v <=> Len(p) = Len(v) /\ \A j \in 1 .. Len(p) : p[j] = v[j]
      BY SeqEqual
    <3>2. \A j \in 1 .. L : 0 + j = j
      BY <1>0
    <3>3. Same(v, 0, p, 0, L) <=> \A j \in 1 .. L : p[j] = v[j]
      BY <3>2 DEF Same
    <3>. QED
      BY <3>1, <3>3
  <2>. QED
    BY <1>3, <2>1, <2>2, Zenon DEF Policy!WildcardMatch
<1>4. CASE S # {}
  <2>. DEFINE a == Max(S)
              f == Min(S)
              n == L - a
  <2>1. a \in S /\ \A j \in S : j <= a
    <3>1. Max(S) \in S /\ \A j \in S : Max(S) >= j
      <4>1. S \in SUBSET Nat /\ \A j \in S : j <= L
        BY <1>0
      <4>. QED
        BY <1>0, <1>4, <4>1, MaxIsGreatest
    <3>. QED
      BY <1>0, <3>1
  <2>2. f \in S /\ \A j \in S : f <= j
    <3>1. S \in SUBSET Nat
      BY <1>0
    <3>. QED
      BY <1>4, <3>1, MinIsLeast
  <2>3. /\ a \in Nat /\ n \in Nat /\ a + n = L /\ f - 1 \in Nat /\ f - 1 <= L
        /\ f \in 1 .. L + 1 /\ L + 1 \in 1 .. L + 1 /\ (f - 1) - 0 = f - 1 /\ ((L + 1) - 1) - a = n
        /\ a <= L /\ 0 \in 0 .. f - 1 /\ a \in 0 .. (L + 1) - 1 /\ (L + 1) - 1 = L
    <3>. HIDE DEF a, f, S, L
    <3>1. a \in 1 .. L /\ f \in 1 .. L
      BY <1>0, <2>1, <2>2
    <3>. QED
      BY <1>0, <3>1
  <2>4. Policy!Part(p, f) = SubSeq(p, 1, f - 1)
    <3>1. \A j \in S : j < f => j <= 0
      BY <1>0, <2>2
    <3>2. Policy!Part(p, f) = SubSeq(p, 0 + 1, 0 + ((f - 1) - 0))
      BY <2>3, <3>1, PartIs
    <3>3. 0 + 1 = 1 /\ 0 + ((f - 1) - 0) = f - 1
      BY <2>3
    <3>. QED
      BY <3>2, <3>3, Zenon
  <2>5. Policy!HasPrefix(v, Policy!Part(p, f)) <=> Opening(p, v)
    <3>1. Policy!HasPrefix(v, SubSeq(p, 1, f - 1)) <=> f - 1 <= Len(v) /\ Same(v, 0, p, 0, f - 1)
      BY <2>3, PrefixIs
    <3>. QED
      BY <2>4, <3>1, Zenon DEF Opening
  <2>6. Policy!Part(p, L + 1) = SubSeq(p, a + 1, a + n)
    <3>1. \A j \in S : j < L + 1 => j <= a
      BY <2>1
    <3>2. Policy!Part(p, L + 1) = SubSeq(p, a + 1, a + (((L + 1) - 1) - a))
      BY <2>1, <2>3, <3>1, PartIs
    <3>. QED
      BY <2>3, <3>2, Zenon
  <2>7. Policy!EndsWith(v, Policy!Part(p, L + 1)) <=> n <= Len(v) /\ Same(v, Len(v) - n, p, a, n)
    <3>. DEFINE part == Policy!Part(p, L + 1)
    <3>1. part = SubSeq(p, a + 1, a + n) /\ a \in Nat /\ n \in Nat /\ a + n = Len(p)
      BY <2>3, <2>6
    <3>. HIDE DEF part, a, n
    <3>2. Policy!EndsWith(v, part) <=> n <= Len(v) /\ Same(v, Len(v) - n, p, a, n)
      BY ONLY <3>1, SuffixIs, v \in Seq(V), p \in Seq(V)
    <3>. QED
      BY <3>2 DEF part
  <2>8. F[L] \in Nat \cup {-1}
    BY <1>1, <2>1, <2>3, Zenon DEF Reached
  <2>9. Policy!Globs(p, v) <=> /\ Opening(p, v) /\ F[L] # -1
                              /\ Len(v) - n >= F[L] /\ Same(v, Len(v) - n, p, a, n)
    BY <1>1, <1>2, <2>1, <2>3, Zenon DEF Reached, Policy!Globs
  <2>10. F[L + 1] = FoundStep(p, v, L + 1, F[(L + 1) - 1])
    BY <2>3, FoundIs
  <2>11. ~(\A j \in S : L + 1 <= j)
    BY <1>0, <2>1
  <2>12. F[L] = -1 => F[L + 1] = -1
    BY <2>3, <2>10, <2>11, Zenon DEF FoundStep
  <2>13. ASSUME F[L] # -1
         PROVE  FirstEnd(v, F[L], p, a, n, F[L + 1])
    <3>1. F[L + 1] = Policy!Behind(v, F[L], Policy!Part(p, L + 1))
      BY <2>3, <2>10, <2>11, <2>13, Zenon DEF FoundStep
    <3>. DEFINE pos == F[L]
                part == Policy!Part(p, L + 1)
    <3>2. pos \in Nat /\ part = SubSeq(p, a + 1, a + n) /\ a \in Nat /\ n \in Nat /\ a + n <= Len(p)
      BY <1>0, <2>3, <2>6, <2>8, <2>13
    <3>. HIDE DEF pos, part, n, a
    <3>3. FirstEnd(v, pos, p, a, n, Policy!Behind(v, pos, part))
      BY ONLY <3>2, BehindIs, v \in Seq(V), p \in Seq(V)
    <3>. QED
      BY <3>1, <3>3, Zenon DEF pos, part
  <2>14. Policy!WildcardMatch(p, v) <=> /\ Opening(p, v) /\ F[L + 1] # -1
                                       /\ n <= Len(v) /\ Same(v, Len(v) - n, p, a, n)
    BY <1>4, <2>5, <2>7, PolicyMinMax, Zenon DEF Policy!WildcardMatch
  <2>. HIDE DEF a, n, f, F, L, S
  <2>15. ASSUME F[L + 1] # -1, n <= Len(v), Same(v, Len(v) - n, p, a, n)
         PROVE  F[L] # -1 /\ Len(v) - n >= F[L]
    <3>1. F[L] # -1
      BY <2>12, <2>15, Zenon
    <3>2. FirstEnd(v, F[L], p, a, n, F[L + 1])
      BY <2>13, <3>1, Zenon
    <3>3. PICK h \in F[L] .. Len(v) - n : F[L + 1] = n + h
      BY <2>15, <3>2, Zenon DEF FirstEnd
    <3>4. F[L] \in Nat
      BY <2>8, <3>1
    <3>5. Len(v) - n >= F[L]
      BY <1>0, <2>3, <3>3, <3>4
    <3>. QED
      BY <3>1, <3>5
  <2>16. ASSUME F[L] # -1, Len(v) - n >= F[L], Same(v, Len(v) - n, p, a, n)
         PROVE  F[L + 1] # -1 /\ n <= Len(v)
    <3>1. F[L] \in Nat
      BY <2>8, <2>16
    <3>2. Len(v) - n \in F[L] .. Len(v) - n /\ n <= Len(v)
      BY <1>0, <2>3, <2>16, <3>1
    <3>3. FirstEnd(v, F[L], p, a, n, F[L + 1])
      BY <2>13, <2>16, Zenon
    <3>4. PICK h \in F[L] .. Len(v) - n : F[L + 1] = n + h
      BY <2>16, <3>2, <3>3, Zenon DEF FirstEnd
    <3>5. F[L + 1] # -1
      BY <1>0, <2>3, <3>1, <3>4
    <3>. QED
      BY <3>2, <3>5
  <2>. QED
    BY <2>9, <2>14, <2>15, <2>16, Zenon
<1>. QED
  BY <1>3, <1>4

-----------------------------------------------------------------------------
(* Patterns and names.                                                     *)

Restricted(list) == \E k \in 1 .. Len(list) : list[k] # <<>>

\* Dropping what repeats an earlier pattern loses none.
LEMMA PatternsAre ==
  ASSUME NEW list, Len(list) \in Nat
  PROVE  /\ \A p : p \in Policy!Patterns(list) <=> \E k \in 1 .. Len(list) : p = list[k] /\ p # <<>>
         /\ Policy!RestrictsTables(Policy!Patterns(list)) <=> Restricted(list)
<1>. DEFINE first(k) == \A m \in 1 .. k - 1 : list[m] # list[k]
            K == {k \in 1 .. Len(list) : list[k] # <<>> /\ first(k)}
<1>1. Policy!Patterns(list) = {list[k] : k \in K}
  BY Zenon DEF Policy!Patterns
<1>2. ASSUME NEW k \in 1 .. Len(list), list[k] # <<>>
      PROVE  list[k] \in Policy!Patterns(list)
  <2>. DEFINE M == {m \in 1 .. Len(list) : list[m] = list[k]}
  <2>1. M \in SUBSET Nat /\ M # {}
    OBVIOUS
  <2>2. PICK m \in M : \A n \in M : m <= n
    BY <2>1, LeastOfSet
  <2>3. first(m)
    <3>1. \A n \in 1 .. m - 1 : n \in 1 .. Len(list) /\ ~(m <= n)
      BY <2>2
    <3>. QED
      BY <2>2, <3>1
  <2>4. m \in K /\ list[m] = list[k]
    BY <1>2, <2>2, <2>3
  <2>. QED
    BY <1>1, <2>4, Zenon
<1>3. \A p : p \in Policy!Patterns(list) => \E k \in 1 .. Len(list) : p = list[k] /\ p # <<>>
  BY <1>1, Zenon
<1>4. \A p : p \in Policy!Patterns(list) <=> \E k \in 1 .. Len(list) : p = list[k] /\ p # <<>>
  BY <1>2, <1>3, Zenon
<1>5. Policy!RestrictsTables(Policy!Patterns(list)) <=> Restricted(list)
  BY <1>4, Zenon DEF Policy!RestrictsTables, Restricted
<1>. QED
  BY <1>4, <1>5, Zenon

\* What a name says behind its position d.
Behind(name, d) == SubSeq(name, d + 1, Len(name))

LEMMA BehindNameIs ==
  ASSUME NEW V, NEW name \in Seq(V), NEW d \in 0 .. Len(name)
  PROVE  /\ Behind(name, d) \in Seq(V)
         /\ Len(Behind(name, d)) = Len(name) - d
         /\ Policy!Qualified(Behind(name, d)) <=> \E k \in 1 .. Len(name) : k > d /\ name[k] = "."
<1>. DEFINE L == Len(name)
            s == Behind(name, d)
<1>0. L \in Nat /\ d \in Nat /\ d <= L
  BY LenProperties
<1>1. \A j \in d + 1 .. L : name[j] \in V
  BY <1>0
<1>2. /\ SubSeq(name, d + 1, L) \in Seq(V)
      /\ Len(SubSeq(name, d + 1, L)) = IF d + 1 <= L THEN L - (d + 1) + 1 ELSE 0
      /\ \A j \in 1 .. L - (d + 1) + 1 : SubSeq(name, d + 1, L)[j] = name[(d + 1) + j - 1]
  BY <1>0, <1>1, SubSeqProperties
<1>3. s \in Seq(V) /\ Len(s) = L - d /\ \A j \in 1 .. L - d : s[j] = name[d + j]
  <2>1. s = SubSeq(name, d + 1, L)
    BY DEF Behind
  <2>. HIDE DEF s, L
  <2>2. L - (d + 1) + 1 = L - d /\ \A j \in 1 .. L - d : (d + 1) + j - 1 = d + j
    BY <1>0
  <2>3. (IF d + 1 <= L THEN L - (d + 1) + 1 ELSE 0) = L - d
    BY <1>0
  <2>4. s \in Seq(V) /\ Len(s) = L - d
    BY <1>2, <2>1, <2>3
  <2>5. \A j \in 1 .. L - d : s[j] = name[d + j]
    BY <1>2, <2>1, <2>2
  <2>. QED
    BY <2>4, <2>5
<1>. HIDE DEF s
<1>4. Policy!Qualified(s) <=> \E j \in 1 .. L - d : name[d + j] = "."
  BY <1>3, Zenon DEF Policy!Qualified
<1>5. (\E j \in 1 .. L - d : name[d + j] = ".") <=> \E k \in 1 .. L : k > d /\ name[k] = "."
  <2>1. \A j \in 1 .. L - d : d + j \in 1 .. L /\ d + j > d
    BY <1>0
  <2>2. \A k \in 1 .. L : k > d => k - d \in 1 .. L - d /\ d + (k - d) = k
    BY <1>0
  <2>. QED
    BY <2>1, <2>2, Zenon
<1>. QED
  BY <1>3, <1>4, <1>5 DEF s

LEMMA SuffixesAre ==
  ASSUME NEW V, NEW name \in Seq(V)
  PROVE  Policy!Suffixes(name) = {Behind(name, d) : d \in 0 .. Len(name)}
<1>0. Len(name) \in Nat
  BY LenProperties
<1>1. Behind(name, Len(name)) = <<>>
  <2>1. Len(name) \in 0 .. Len(name)
    BY <1>0
  <2>2. Behind(name, Len(name)) \in Seq(V) /\ Len(Behind(name, Len(name))) = Len(name) - Len(name)
    BY <2>1, BehindNameIs
  <2>. QED
    BY <1>0, <2>2, EmptySeq
<1>2. ASSUME NEW l \in 1 .. Len(name)
      PROVE  l - 1 \in 0 .. Len(name) /\ SubSeq(name, l, Len(name)) = Behind(name, l - 1)
  <2>1. l - 1 \in 0 .. Len(name) /\ (l - 1) + 1 = l
    BY <1>0
  <2>. QED
    BY <2>1, Zenon DEF Behind
<1>3. ASSUME NEW d \in 0 .. Len(name)
      PROVE  d = Len(name) \/ (d + 1 \in 1 .. Len(name) /\ Behind(name, d) = SubSeq(name, d + 1, Len(name)))
  BY <1>0, <1>3 DEF Behind
<1>4. Len(name) \in 0 .. Len(name)
  BY <1>0
<1>5. \A s : s \in {SubSeq(name, l, Len(name)) : l \in 1 .. Len(name)} \cup {<<>>} <=> \E d \in 0 .. Len(name) : s = Behind(name, d)
  BY <1>1, <1>2, <1>3, <1>4, Zenon
<1>6. Policy!Suffixes(name) = {SubSeq(name, l, Len(name)) : l \in 1 .. Len(name)} \cup {<<>>}
  BY Zenon DEF Policy!Suffixes
<1>. QED
  BY <1>5, <1>6, Zenon

\* A pattern without a schema is held against what follows the last dot.
LEMMA BaseIs ==
  ASSUME NEW V, NEW name \in Seq(V), NEW p, ~Policy!Qualified(p)
  PROVE  Policy!Compared(p, name) \in Seq(V) /\ Policy!Base(name) = {Policy!Compared(p, name)}
<1>. DEFINE L == Len(name)
            Dot(k) == k \in 1 .. L /\ name[k] = "."
            B(d) == Behind(name, d)
<1>0. L \in Nat
  BY LenProperties
<1>1. \A d \in 0 .. L : B(d) \in Seq(V) /\ Len(B(d)) = L - d /\ (Policy!Qualified(B(d)) <=> \E k \in 1 .. L : k > d /\ name[k] = ".")
  BY BehindNameIs, Zenon
<1>2. B(0) = name
  <2>1. \A k \in 1 .. L : SubSeq(name, 0 + 1, L)[k] = name[k]
    BY <1>0, SubSeqProperties
  <2>2. SubSeq(name, 1, L) = name
    BY <1>0
  <2>. QED
    BY <2>2 DEF Behind
<1>3. \A d \in 0 .. L : B(d) = name <=> d = 0
  BY <1>0, <1>1, <1>2
<1>4. \A d \in 0 .. L : L - Len(B(d)) = d
  BY <1>0, <1>1
<1>. DEFINE d0 == IF Policy!Qualified(name) THEN Policy!Max({k \in 1 .. L : name[k] = "."}) ELSE 0
<1>5. /\ d0 \in 0 .. L /\ (d0 = 0 \/ Dot(d0)) /\ \A k \in 1 .. L : name[k] = "." => k <= d0
      /\ Policy!Compared(p, name) = B(d0)
  <2>1. CASE Policy!Qualified(name)
    <3>. DEFINE D == {k \in 1 .. L : name[k] = "."}
    <3>1. D \in SUBSET Nat /\ D # {} /\ \A k \in D : k <= L
      BY <1>0, <2>1 DEF Policy!Qualified
    <3>2. Max(D) \in D /\ \A k \in D : Max(D) >= k
      BY <1>0, <3>1, MaxIsGreatest
    <3>3. d0 = Max(D)
      BY <2>1, PolicyMinMax, Zenon
    <3>4. Policy!Compared(p, name) = B(d0)
      BY <2>1, Zenon DEF Policy!Compared, Policy!Unqualified, Behind
    <3>. HIDE DEF d0
    <3>5. d0 \in 0 .. L /\ Dot(d0) /\ \A k \in 1 .. L : name[k] = "." => k <= d0
      BY <1>0, <3>2, <3>3
    <3>. QED
      BY <3>4, <3>5
  <2>2. CASE ~Policy!Qualified(name)
    <3>1. d0 = 0 /\ Policy!Compared(p, name) = name
      BY <2>2, Zenon DEF Policy!Compared
    <3>2. \A k \in 1 .. L : name[k] # "."
      BY <2>2, Zenon DEF Policy!Qualified
    <3>. QED
      BY <1>0, <1>2, <3>1, <3>2
  <2>. QED
    BY <2>1, <2>2
<1>. HIDE DEF d0, B
<1>6. Policy!Base(name) = {s \in {B(d) : d \in 0 .. L} : ~Policy!Qualified(s) /\ (s = name \/ name[L - Len(s)] = ".")}
  BY SuffixesAre, Zenon DEF Policy!Base, B
<1>7. ASSUME NEW d \in 0 .. L
      PROVE  (~Policy!Qualified(B(d)) /\ (B(d) = name \/ name[L - Len(B(d))] = ".")) <=> d = d0
  <2>1. ~Policy!Qualified(B(d)) <=> \A k \in 1 .. L : name[k] = "." => k <= d
    BY <1>0, <1>1
  <2>2. (B(d) = name \/ name[L - Len(B(d))] = ".") <=> (d = 0 \/ name[d] = ".")
    BY <1>3, <1>4
  <2>3. (d = 0 \/ name[d] = ".") <=> (d = 0 \/ Dot(d))
    BY <1>0
  <2>4. (\A k \in 1 .. L : name[k] = "." => k <= d) /\ (d = 0 \/ Dot(d)) <=> d = d0
    BY <1>0, <1>5
  <2>. QED
    BY <2>1, <2>2, <2>3, <2>4, Zenon
<1>8. Policy!Base(name) = {B(d0)}
  BY <1>5, <1>6, <1>7, Zenon
<1>. QED
  BY <1>1, <1>5, <1>8, Zenon

\* A name is let through by a pattern that covers it, and by no other.
LEMMA MatchIsCover ==
  ASSUME NEW V, NEW name \in Seq(V), NEW p \in Seq(V), name # <<>>
  PROVE  Policy!TablePatternMatches(p, name) <=> Policy!Covers(p, name)
<1>1. CASE Policy!Qualified(p)
  <2>1. Policy!Compared(p, name) = name
    BY <1>1, Zenon DEF Policy!Compared
  <2>2. Policy!WildcardMatch(p, name) <=> Policy!Globs(p, name)
    BY WildcardIs
  <2>. QED
    BY <1>1, <2>1, <2>2, Zenon DEF Policy!TablePatternMatches, Policy!Covers
<1>2. CASE ~Policy!Qualified(p)
  <2>1. Policy!Compared(p, name) \in Seq(V)
    BY <1>2, BaseIs
  <2>2. Policy!Base(name) = {Policy!Compared(p, name)}
    BY <1>2, BaseIs
  <2>3. Policy!WildcardMatch(p, Policy!Compared(p, name)) <=> Policy!Globs(p, Policy!Compared(p, name))
    BY <2>1, WildcardIs
  <2>. QED
    BY <1>2, <2>2, <2>3, Zenon DEF Policy!TablePatternMatches, Policy!Covers
<1>. QED
  BY <1>1, <1>2

-----------------------------------------------------------------------------
(* The policy.                                                             *)

PolicyTyped ==
  /\ raw \in Seq(Seq(STRING))
  /\ Restricted(raw) => argument = <<"sql">> \/ argument \in Seq(STRING) \ {<<>>}
  /\ \A t \in stmt.tables : Spelling[t] \in Seq(STRING)

\* An answer is given when the objects are known, and they stay what they were.
Answered ==
  /\ answer \in {"none", "allowed", "blocked"}
  /\ answer # "none" /\ argument = <<"sql">> => step = "end"
  /\ answer = "allowed" => Policy!Permitted
  /\ answer = "blocked" => ~Policy!Permitted

\* The loops of analyzeStatement keep the statement, and end when they are done.
LEMMA AnalyzeKeeps ==
  ASSUME Policy!Analyze
  PROVE  step # "end" /\ stmt' = stmt
<1>1. CASE Policy!Open \/ Policy!Close \/ Policy!SkipWord \/ Policy!FindVerb \/ Policy!NoVerb
  BY <1>1 DEF Policy!Open, Policy!Close, Policy!SkipWord, Policy!FindVerb, Policy!NoVerb, Policy!Nested, Policy!In
<1>2. CASE Policy!CollectName \/ Policy!NoMoreNames \/ Policy!ObjectsDone \/ Policy!AddTable
  BY <1>2 DEF Policy!CollectName, Policy!NoMoreNames, Policy!ObjectsDone, Policy!AddTable, Policy!In
<1>3. CASE Policy!ListWord \/ Policy!TargetWord \/ Policy!TableWord \/ Policy!OnWord \/ Policy!EndWord
           \/ Policy!Comma \/ Policy!OtherWord
  BY <1>3 DEF Policy!ListWord, Policy!TargetWord, Policy!TableWord, Policy!OnWord, Policy!EndWord,
              Policy!Comma, Policy!OtherWord, Policy!Sets, Policy!In
<1>. QED
  BY <1>1, <1>2, <1>3, Zenon DEF Policy!Analyze

LEMMA InitPolicy == AnalyserInit => PolicyTyped /\ Answered
<1>1. ASSUME PolicyRests
      PROVE  PolicyTyped /\ Answered
  <2>1. raw = <<>> /\ argument = <<"a">> /\ answer = "allowed" /\ stmt.tables = {}
    BY <1>1 DEF PolicyRests, Policy!Starts
  <2>2. ~Policy!RestrictsTables(Policy!Patterns(raw))
    BY <2>1 DEF Policy!RestrictsTables, Policy!Patterns
  <2>3. argument # <<"sql">>
    BY <2>1
  <2>4. raw \in Seq(Seq(STRING)) /\ ~Restricted(raw)
    BY <2>1 DEF Restricted
  <2>. QED
    BY <2>1, <2>2, <2>3, <2>4 DEF PolicyTyped, Answered, Policy!Permitted
<1>2. ASSUME Policy!Init
      PROVE  PolicyTyped /\ Answered
  <2>1. /\ answer = "none"
        /\ \/ argument = <<"sql">> /\ raw \in SqlLists /\ \E s \in Statements : stmt = s
           \/ argument \in Arguments /\ raw \in ArgumentLists /\ stmt.tables = {}
    BY <1>2 DEF Policy!Init, Policy!Starts
  <2>2. raw \in Seq(Seq(STRING)) /\ (argument = <<"sql">> \/ argument \in Seq(STRING) \ {<<>>})
    BY <2>1, Written DEF Written
  <2>3. \A t \in stmt.tables : Spelling[t] \in Seq(STRING)
    BY <2>1, Written DEF Written
  <2>. QED
    BY <2>1, <2>2, <2>3 DEF PolicyTyped, Answered
<1>. QED
  BY <1>1, <1>2 DEF AnalyserInit

LEMMA NextPolicy ==
  ASSUME PolicyTyped, Answered, [AnalyserNext]_<<vars, words>>
  PROVE  PolicyTyped' /\ Answered'
<1>1. CASE UNCHANGED words
  <2>1. UNCHANGED <<stmt, step, argument, raw, answer, objects>>
    BY <1>1 DEF words
  <2>2. Policy!Permitted' <=> Policy!Permitted
    BY <2>1, Zenon DEF Policy!Permitted, Policy!Named, Policy!BySql
  <2>. QED
    BY <2>1, <2>2 DEF PolicyTyped, Answered
<1>2. CASE Policy!BySql /\ Policy!Analyze /\ UNCHANGED <<argument, raw, answer>>
  <2>1. step # "end" /\ stmt' = stmt
    BY <1>2, AnalyzeKeeps
  <2>2. answer = "none"
    BY <1>2, <2>1 DEF Answered, Policy!BySql
  <2>. QED
    BY <1>2, <2>1, <2>2 DEF PolicyTyped, Answered
<1>3. CASE Policy!EnforceTablePolicy
  <2>1. /\ argument = <<"sql">> => step = "end"
        /\ answer' = IF Policy!Permitted THEN "allowed" ELSE "blocked"
        /\ UNCHANGED <<stmt, step, objects, argument, raw>>
    BY <1>3 DEF Policy!EnforceTablePolicy, Policy!BySql, Policy!scan
  <2>2. Policy!Permitted' <=> Policy!Permitted
    BY <2>1, Zenon DEF Policy!Permitted, Policy!Named, Policy!BySql
  <2>. QED
    BY <2>1, <2>2 DEF PolicyTyped, Answered
<1>. QED
  BY <1>1, <1>2, <1>3 DEF AnalyserNext, Policy!Next, vars

LEMMA AllowsIsCovered ==
  ASSUME PolicyTyped, NEW name \in Seq(STRING), name # <<>>, Restricted(raw)
  PROVE  Policy!AllowsTable(Policy!Patterns(raw), name) <=> Policy!Covered(name)
<1>1. Len(raw) \in Nat /\ \A k \in 1 .. Len(raw) : raw[k] \in Seq(STRING)
  <2>1. raw \in Seq(Seq(STRING))
    BY DEF PolicyTyped
  <2>. QED
    BY <2>1, LenProperties
<1>2. \A k \in 1 .. Len(raw) : Policy!TablePatternMatches(raw[k], name) <=> Policy!Covers(raw[k], name)
  <2>1. ASSUME NEW p \in Seq(STRING)
        PROVE  Policy!TablePatternMatches(p, name) <=> Policy!Covers(p, name)
    BY MatchIsCover
  <2>. QED
    BY <1>1, <2>1, Zenon
<1>3. \A p : p \in Policy!Patterns(raw) <=> \E k \in 1 .. Len(raw) : p = raw[k] /\ p # <<>>
  BY <1>1, PatternsAre, Zenon
<1>4. Policy!RestrictsTables(Policy!Patterns(raw))
  BY <1>1, PatternsAre, Zenon
<1>. QED
  BY <1>2, <1>3, <1>4, Zenon DEF Policy!AllowsTable, Policy!Covered

\* No name that is empty is let through.
LEMMA AllowedHasName ==
  ASSUME Policy!RestrictsTables(Policy!Patterns(raw))
  PROVE  ~Policy!AllowsTable(Policy!Patterns(raw), <<>>)
BY Zenon DEF Policy!AllowsTable, Policy!TablePatternMatches

LEMMA PolicyHolds ==
  ASSUME PolicyTyped, Answered, Policy!NoTableOverlooked
  PROVE  Policy!AllowedIsCovered
<1>. SUFFICES ASSUME Restricted(raw)
              PROVE  /\ answer = "allowed" /\ (Policy!BySql => main \in Policy!Verbs /\ Policy!PlainTables(stmt.tokens)) =>
                          \A name \in IF Policy!BySql THEN Policy!NamedBySql ELSE {argument} : Policy!Covered(name)
                     /\ answer = "blocked" /\ ~Policy!BySql => ~Policy!Covered(argument)
  BY Zenon DEF Policy!AllowedIsCovered, Restricted
<1>1. Policy!RestrictsTables(Policy!Patterns(raw))
  <2>1. Len(raw) \in Nat
    <3>1. raw \in Seq(Seq(STRING))
      BY DEF PolicyTyped
    <3>. QED
      BY <3>1, LenProperties
  <2>. QED
    BY <2>1, PatternsAre, Zenon
<1>2. Policy!Permitted <=> Policy!Named # {} /\ \A name \in Policy!Named : Policy!AllowsTable(Policy!Patterns(raw), name)
  BY <1>1, Zenon DEF Policy!Permitted
<1>3. ASSUME NEW name \in Seq(STRING), Policy!AllowsTable(Policy!Patterns(raw), name)
      PROVE  Policy!Covered(name)
  <2>1. name # <<>>
    BY <1>1, <1>3, AllowedHasName
  <2>. QED
    BY <1>3, <2>1, AllowsIsCovered
<1>4. CASE Policy!BySql
  <2>1. ASSUME answer = "allowed", main \in Policy!Verbs, Policy!PlainTables(stmt.tokens), NEW t \in stmt.tables
        PROVE  Policy!Covered(Spelling[t])
    <3>1. step = "end" /\ Policy!Permitted
      BY <1>4, <2>1 DEF Answered, Policy!BySql
    <3>2. t \in objects
      BY <2>1, <3>1 DEF Policy!NoTableOverlooked
    <3>3. Spelling[t] \in Policy!Named
      BY <1>4, <3>2, Zenon DEF Policy!Named
    <3>4. Policy!AllowsTable(Policy!Patterns(raw), Spelling[t])
      BY <1>2, <3>1, <3>3, Zenon
    <3>5. Spelling[t] \in Seq(STRING)
      BY DEF PolicyTyped
    <3>. QED
      BY <1>3, <3>4, <3>5, Zenon
  <2>. QED
    BY <1>4, <2>1, Zenon DEF Policy!NamedBySql
<1>5. CASE ~Policy!BySql
  <2>1. argument \in Seq(STRING) /\ argument # <<>>
    BY <1>5 DEF PolicyTyped, Policy!BySql
  <2>2. Policy!Permitted <=> Policy!AllowsTable(Policy!Patterns(raw), argument)
    BY <1>2, <1>5, Zenon DEF Policy!Named
  <2>3. Policy!AllowsTable(Policy!Patterns(raw), argument) <=> Policy!Covered(argument)
    BY <2>1, AllowsIsCovered
  <2>4. (answer = "allowed" => Policy!Permitted) /\ (answer = "blocked" => ~Policy!Permitted)
    BY Zenon DEF Answered
  <2>. QED
    BY <1>5, <2>2, <2>3, <2>4, Zenon
<1>. QED
  BY <1>4, <1>5, Zenon

\* The policy on a table that is named as an argument.
ArgumentsDecided ==
  Restricted(raw) /\ argument # <<"sql">> =>
    /\ answer = "allowed" => Policy!Covered(argument)
    /\ answer = "blocked" => ~Policy!Covered(argument)

LEMMA ArgumentHolds ==
  ASSUME PolicyTyped, Answered
  PROVE  ArgumentsDecided
<1>. SUFFICES ASSUME Restricted(raw), argument # <<"sql">>
              PROVE  answer # "none" => (answer = "allowed" <=> Policy!Covered(argument))
  BY DEF ArgumentsDecided, Answered
<1>1. Policy!RestrictsTables(Policy!Patterns(raw))
  <2>1. raw \in Seq(Seq(STRING))
    BY DEF PolicyTyped
  <2>2. Len(raw) \in Nat
    BY <2>1, LenProperties
  <2>. QED
    BY <2>2, PatternsAre, Zenon
<1>2. argument \in Seq(STRING) /\ argument # <<>>
  BY DEF PolicyTyped
<1>3. Policy!Named = {argument}
  BY Zenon DEF Policy!Named, Policy!BySql
<1>4. Policy!Permitted <=> Policy!AllowsTable(Policy!Patterns(raw), argument)
  BY <1>1, <1>3, Zenon DEF Policy!Permitted
<1>5. Policy!AllowsTable(Policy!Patterns(raw), argument) <=> Policy!Covered(argument)
  BY <1>2, AllowsIsCovered
<1>. QED
  BY <1>4, <1>5 DEF Answered

\* With allow_tables, whatever its patterns and the name: a table that import,
\* export or inspect is asked for is let through if and only if one of the
\* patterns covers it (enforceTablePolicy, wildcardMatch).
THEOREM ArgumentPolicyCorrect == AnalyserSpec => []ArgumentsDecided
<1>1. AnalyserInit => PolicyTyped /\ Answered
  BY InitPolicy
<1>2. PolicyTyped /\ Answered /\ [AnalyserNext]_<<vars, words>> => PolicyTyped' /\ Answered'
  BY NextPolicy
<1>3. PolicyTyped /\ Answered => ArgumentsDecided
  BY ArgumentHolds
<1>. QED
  BY <1>1, <1>2, <1>3, PTL DEF AnalyserSpec

-----------------------------------------------------------------------------
(* findCTEAction.                                                          *)

OneMore(t, c, k, n) == Policy!Seen(t, c, n) = Policy!Seen(t, c, k) + (IF t[n] = c THEN 1 ELSE 0)

LEMMA PolicyCardinality ==
  ASSUME NEW S
  PROVE  Policy!Cardinality(S) = Cardinality(S)
BY Zenon DEF Policy!Cardinality, Cardinality

LEMMA SeenIs ==
  ASSUME NEW t, NEW c, NEW k
  PROVE  Policy!Seen(t, c, k) = Cardinality({m \in 1 .. k : t[m] = c})
BY PolicyCardinality, Zenon DEF Policy!Seen

LEMMA SeenNext ==
  ASSUME NEW t, NEW c, NEW k \in Nat
  PROVE  Policy!Seen(t, c, k) \in Nat /\ OneMore(t, c, k, k + 1)
<1>. DEFINE S(n) == {m \in 1 .. n : t[m] = c}
<1>1. IsFiniteSet(S(k))
  <2>1. IsFiniteSet(1 .. k)
    BY FS_Interval
  <2>2. S(k) \subseteq 1 .. k
    OBVIOUS
  <2>. QED
    BY <2>1, <2>2, FS_Subset
<1>2. Cardinality(S(k)) \in Nat
  BY <1>1, FS_CardinalityType
<1>3. CASE t[k + 1] = c
  <2>1. S(k + 1) = S(k) \cup {k + 1} /\ k + 1 \notin S(k)
    BY <1>3
  <2>2. Cardinality(S(k) \cup {k + 1}) = Cardinality(S(k)) + 1
    BY <1>1, <2>1, FS_AddElement
  <2>3. Policy!Seen(t, c, k) \in Nat /\ Policy!Seen(t, c, k + 1) = Policy!Seen(t, c, k) + 1
    BY <1>2, <2>1, <2>2, SeenIs, Zenon
  <2>. QED
    BY <1>3, <2>3, Zenon DEF OneMore
<1>4. CASE t[k + 1] # c
  <2>1. S(k + 1) = S(k)
    BY <1>4
  <2>2. Policy!Seen(t, c, k + 1) = Policy!Seen(t, c, k)
    BY <2>1, SeenIs, Zenon
  <2>3. Policy!Seen(t, c, k) \in Nat
    BY <1>2, SeenIs, Zenon
  <2>4. OneMore(t, c, k, k + 1)
    <3>1. Policy!Seen(t, c, k) + 0 = Policy!Seen(t, c, k)
      BY <2>3
    <3>. QED
      BY <1>4, <2>2, <3>1, Zenon DEF OneMore
  <2>. QED
    BY <2>3, <2>4
<1>. QED
  BY <1>3, <1>4

Idle == [tokens |-> <<"none">>, main |-> "none", tables |-> {}, others |-> {}]

\* The loop knows how deep it is, and that it has passed no verb.
VerbSought(tokens) ==
  /\ stmt \in Statements /\ tokens[1] = "with"
  /\ at \in 2 .. Len(tokens) + 1 /\ main = "none"
  /\ depth \in Nat
  /\ Policy!Seen(tokens, "(", at - 1) = Policy!Seen(tokens, ")", at - 1) + depth
  /\ \A k \in 2 .. at - 1 : ~Policy!VerbAt(tokens, k)

VerbFound ==
  /\ stmt \in Statements \cup {Idle}
  /\ step = "main" => VerbSought(stmt.tokens)
  /\ step # "main" => main = stmt.main

LEMMA InitVerb == AnalyserInit => VerbFound
<1>1. ASSUME Policy!Starts(Idle)
      PROVE  VerbFound
  BY <1>1 DEF Policy!Starts, Idle, VerbFound
<1>2. ASSUME NEW s \in Statements, Policy!Starts(s)
      PROVE  VerbFound
  <2>0. s.tokens \in Seq(STRING) /\ Len(s.tokens) \in Nat /\ Len(s.tokens) >= 1
    <3>1. s.tokens \in Seq(STRING)
      BY Written DEF Written
    <3>2. Len(s.tokens) \in Nat
      BY <3>1, LenProperties
    <3>3. Len(s.tokens) > 0
      BY NonEmpty DEF NonEmpty
    <3>. QED
      BY <3>1, <3>2, <3>3
  <2>1. CASE s.tokens[1] = "with"
    <3>1. stmt = s /\ step = "main" /\ at = 2 /\ main = "none" /\ depth = 0
      BY <1>2, <2>1 DEF Policy!Starts
    <3>2. OneMore(s.tokens, "(", 0, 0 + 1) /\ OneMore(s.tokens, ")", 0, 0 + 1)
      BY SeenNext
    <3>3. Policy!Seen(s.tokens, "(", 0) = 0 /\ Policy!Seen(s.tokens, ")", 0) = 0
      <4>1. \A c : {n \in 1 .. 0 : s.tokens[n] = c} = {}
        OBVIOUS
      <4>. QED
        BY <4>1, FS_EmptySet, SeenIs, Zenon
    <3>4. Policy!Seen(s.tokens, "(", 2 - 1) = Policy!Seen(s.tokens, ")", 2 - 1) + 0
      <4>1. 0 + 1 = 1 /\ 2 - 1 = 1 /\ s.tokens[1] # "(" /\ s.tokens[1] # ")"
        BY <2>1
      <4>. QED
        BY <3>2, <3>3, <4>1 DEF OneMore
    <3>5. 2 \in 2 .. Len(s.tokens) + 1 /\ \A k \in 2 .. 2 - 1 : ~Policy!VerbAt(s.tokens, k)
      BY <2>0
    <3>6. VerbSought(stmt.tokens)
      BY <2>1, <3>1, <3>4, <3>5 DEF VerbSought
    <3>. QED
      BY <3>1, <3>6 DEF VerbFound
  <2>2. CASE s.tokens[1] # "with"
    <3>1. stmt = s /\ step = "objects" /\ main = s.tokens[1]
      BY <1>2, <2>2 DEF Policy!Starts
    <3>2. s.main = s.tokens[1]
      <4>1. s.main = Policy!MainVerb(s.tokens)
        BY Reader DEF Reader
      <4>. QED
        BY <2>2, <4>1, Zenon DEF Policy!MainVerb
    <3>. QED
      BY <3>1, <3>2 DEF VerbFound
  <2>. QED
    BY <2>1, <2>2
<1>. QED
  BY <1>1, <1>2 DEF AnalyserInit, PolicyRests, Policy!Init, Idle

LEMMA WordPassed ==
  ASSUME VerbSought(stmt.tokens), Policy!In("main"), ~Policy!VerbAt(stmt.tokens, at), step = "main",
         step' = step, stmt' = stmt, main' = main, at' = at + 1, depth' \in Nat,
         Policy!Seen(stmt.tokens, "(", at) = Policy!Seen(stmt.tokens, ")", at) + depth'
  PROVE  VerbFound'
<1>. DEFINE t == stmt.tokens
<1>0. stmt \in Statements /\ t[1] = "with" /\ at \in 2 .. Len(t) + 1 /\ main = "none" /\ at <= Len(t)
      /\ \A k \in 2 .. at - 1 : ~Policy!VerbAt(t, k)
  BY DEF VerbSought, Policy!In, Policy!Count
<1>1. Len(t) \in Nat
  <2>1. t \in Seq(STRING)
    BY <1>0, Written DEF Written
  <2>. QED
    BY <2>1, LenProperties
<1>. HIDE DEF t
<1>2. at' \in 2 .. Len(t) + 1 /\ at' - 1 = at
  BY <1>0, <1>1
<1>3. \A k \in 2 .. at' - 1 : ~Policy!VerbAt(t, k)
  <2>1. \A k \in 2 .. at : k \in 2 .. at - 1 \/ k = at
    BY <1>0, <1>1
  <2>2. ~Policy!VerbAt(t, at)
    BY DEF t
  <2>. QED
    BY <1>0, <1>2, <2>1, <2>2, Zenon
<1>4. Policy!Seen(t, "(", at' - 1) = Policy!Seen(t, ")", at' - 1) + depth'
  BY <1>2 DEF t
<1>5. VerbSought(t)'
  BY <1>0, <1>2, <1>3, <1>4, Zenon DEF VerbSought, t, Policy!VerbAt
<1>. QED
  BY <1>0, <1>5 DEF VerbFound, t

\* What is seen of the parentheses when one more word has been passed.
LEMMA OneWordFurther ==
  ASSUME VerbSought(stmt.tokens), Policy!In("main")
  PROVE  /\ at \in 1 .. Len(stmt.tokens) /\ depth \in Nat /\ Policy!Token = stmt.tokens[at]
         /\ Policy!Seen(stmt.tokens, "(", at) \in Nat /\ Policy!Seen(stmt.tokens, ")", at) \in Nat
         /\ stmt.tokens[at] = "(" => Policy!Seen(stmt.tokens, "(", at) = Policy!Seen(stmt.tokens, ")", at) + (depth + 1)
         /\ stmt.tokens[at] = ")" =>
              depth > 0 /\ Policy!Seen(stmt.tokens, "(", at) = Policy!Seen(stmt.tokens, ")", at) + (depth - 1)
         /\ stmt.tokens[at] \notin {"(", ")"} => Policy!Seen(stmt.tokens, "(", at) = Policy!Seen(stmt.tokens, ")", at) + depth
<1>. DEFINE t == stmt.tokens
<1>0. /\ stmt \in Statements /\ at \in 2 .. Len(t) + 1 /\ at <= Len(t) /\ depth \in Nat
      /\ Policy!Seen(t, "(", at - 1) = Policy!Seen(t, ")", at - 1) + depth
  BY DEF VerbSought, Policy!In, Policy!Count
<1>1. Len(t) \in Nat
  <2>1. t \in Seq(STRING)
    BY <1>0, Written DEF Written
  <2>. QED
    BY <2>1, LenProperties
<1>2. \A k \in 1 .. Len(t) : Policy!Seen(t, ")", k) <= Policy!Seen(t, "(", k)
  BY <1>0, Reader DEF Reader
<1>3. Policy!Token = t[at]
  BY <1>0 DEF Policy!Token, Policy!At, Policy!Count
<1>. HIDE DEF t
<1>4. at \in 1 .. Len(t) /\ at - 1 \in Nat /\ (at - 1) + 1 = at
  BY <1>0, <1>1
<1>5. OneMore(t, "(", at - 1, (at - 1) + 1)
  BY <1>4, SeenNext, Zenon
<1>6. OneMore(t, ")", at - 1, (at - 1) + 1)
  BY <1>4, SeenNext, Zenon
<1>7. Policy!Seen(t, ")", at - 1) \in Nat
  BY <1>4, SeenNext, Zenon
<1>8. Policy!Seen(t, "(", at) = Policy!Seen(t, ")", at - 1) + depth + (IF t[at] = "(" THEN 1 ELSE 0)
  BY <1>0, <1>4, <1>5 DEF OneMore
<1>9. Policy!Seen(t, ")", at) = Policy!Seen(t, ")", at - 1) + (IF t[at] = ")" THEN 1 ELSE 0)
  BY <1>4, <1>6, Zenon DEF OneMore
<1>10. Policy!Seen(t, ")", at) \in Nat /\ Policy!Seen(t, "(", at) \in Nat /\ Policy!Seen(t, ")", at) <= Policy!Seen(t, "(", at)
  <2>1. at \in Nat
    BY <1>4
  <2>2. Policy!Seen(t, ")", at) \in Nat /\ Policy!Seen(t, "(", at) \in Nat
    BY <2>1, SeenNext, Zenon
  <2>. QED
    BY <1>2, <1>4, <2>2
<1>11. /\ t[at] = "(" => Policy!Seen(t, "(", at) = Policy!Seen(t, ")", at) + (depth + 1)
       /\ t[at] = ")" => depth > 0 /\ Policy!Seen(t, "(", at) = Policy!Seen(t, ")", at) + (depth - 1)
       /\ t[at] \notin {"(", ")"} => Policy!Seen(t, "(", at) = Policy!Seen(t, ")", at) + depth
  <2>. DEFINE o == Policy!Seen(t, "(", at)
              c == Policy!Seen(t, ")", at)
              was == Policy!Seen(t, ")", at - 1)
  <2>. HIDE DEF o, c, was
  <2>1. /\ o = was + depth + (IF t[at] = "(" THEN 1 ELSE 0)
        /\ c = was + (IF t[at] = ")" THEN 1 ELSE 0)
        /\ o \in Nat /\ c \in Nat /\ was \in Nat /\ depth \in Nat /\ c <= o
    BY <1>0, <1>7, <1>8, <1>9, <1>10 DEF o, c, was
  <2>2. /\ t[at] = "(" => o = c + (depth + 1)
        /\ t[at] = ")" => depth > 0 /\ o = c + (depth - 1)
        /\ t[at] \notin {"(", ")"} => o = c + depth
    BY <2>1
  <2>. QED
    BY <2>2 DEF o, c
<1>. QED
  BY <1>0, <1>3, <1>4, <1>10, <1>11, Zenon DEF t

LEMMA NextVerb ==
  ASSUME VerbFound, [AnalyserNext]_<<vars, words>>
  PROVE  VerbFound'
<1>. DEFINE t == stmt.tokens
<1>1. CASE UNCHANGED <<stmt, step, at, depth, main>>
  BY <1>1 DEF VerbFound, VerbSought, Policy!VerbAt
<1>2. ASSUME step = "main", Policy!In("main")
      PROVE  /\ VerbSought(t)
             /\ at \in 1 .. Len(t) /\ depth \in Nat /\ Policy!Token = t[at]
             /\ Policy!Seen(t, "(", at) \in Nat /\ Policy!Seen(t, ")", at) \in Nat
             /\ t[at] = "(" => Policy!Seen(t, "(", at) = Policy!Seen(t, ")", at) + (depth + 1)
             /\ t[at] = ")" => depth > 0 /\ Policy!Seen(t, "(", at) = Policy!Seen(t, ")", at) + (depth - 1)
             /\ t[at] \notin {"(", ")"} => Policy!Seen(t, "(", at) = Policy!Seen(t, ")", at) + depth
  <2>1. VerbSought(stmt.tokens)
    BY <1>2 DEF VerbFound
  <2>. QED
    BY <1>2, <2>1, OneWordFurther
<1>. HIDE DEF t
<1>3. CASE Policy!Open
  <2>1. step = "main" /\ Policy!In("main") /\ Policy!Token = "("
    BY <1>3 DEF Policy!Open, Policy!In
  <2>2. step' = step /\ stmt' = stmt /\ main' = main /\ at' = at + 1 /\ depth' = depth + 1
    BY <1>3 DEF Policy!Open, Policy!Nested
  <2>3. t[at] = "(" /\ depth' \in Nat /\ Policy!Seen(t, "(", at) = Policy!Seen(t, ")", at) + depth'
    BY <1>2, <2>1, <2>2
  <2>4. ~Policy!VerbAt(t, at)
    BY <2>3 DEF Policy!VerbAt, Policy!Outside
  <2>. QED
    BY <1>2, <2>1, <2>2, <2>3, <2>4, WordPassed DEF t
<1>4. CASE Policy!Close
  <2>1. step = "main" /\ Policy!In("main") /\ Policy!Token = ")"
    BY <1>4 DEF Policy!Close, Policy!In
  <2>2. /\ step' = step /\ stmt' = stmt /\ main' = main /\ at' = at + 1
        /\ depth' = IF depth > 0 THEN depth - 1 ELSE 0
    BY <1>4 DEF Policy!Close, Policy!Nested
  <2>3. t[at] = ")" /\ depth' \in Nat /\ Policy!Seen(t, "(", at) = Policy!Seen(t, ")", at) + depth'
    BY <1>2, <2>1, <2>2
  <2>4. ~Policy!VerbAt(t, at)
    BY <2>3 DEF Policy!VerbAt, Policy!Outside
  <2>. QED
    BY <1>2, <2>1, <2>2, <2>3, <2>4, WordPassed DEF t
<1>5. ASSUME step = "main", Policy!In("main"), Policy!Token \notin {"(", ")"}
      PROVE  /\ Policy!Seen(t, "(", at) = Policy!Seen(t, ")", at) + depth
             /\ Policy!OuterVerb <=> Policy!VerbAt(t, at)
  <2>1. Policy!Seen(t, "(", at) = Policy!Seen(t, ")", at) + depth
    BY <1>2, <1>5
  <2>2. depth = 0 <=> Policy!Seen(t, "(", at) = Policy!Seen(t, ")", at)
    BY <1>2, <1>5, <2>1
  <2>3. Policy!OuterVerb <=> Policy!VerbAt(t, at)
    BY <1>2, <1>5, <2>2, Zenon DEF Policy!OuterVerb, Policy!VerbAt, Policy!Outside
  <2>. QED
    BY <2>1, <2>3
<1>6. CASE Policy!SkipWord
  <2>1. step = "main" /\ Policy!In("main") /\ Policy!Token \notin {"(", ")"} /\ ~Policy!OuterVerb
    BY <1>6 DEF Policy!SkipWord, Policy!In
  <2>2. step' = step /\ stmt' = stmt /\ main' = main /\ at' = at + 1 /\ depth' = depth
    BY <1>6 DEF Policy!SkipWord, Policy!Nested
  <2>3. ~Policy!VerbAt(t, at) /\ Policy!Seen(t, "(", at) = Policy!Seen(t, ")", at) + depth' /\ depth' \in Nat
    BY <1>2, <1>5, <2>1, <2>2
  <2>. QED
    BY <1>2, <2>1, <2>2, <2>3, WordPassed DEF t
<1>7. ASSUME step = "main"
      PROVE  /\ VerbSought(t)
             /\ stmt \in Statements /\ Len(t) \in Nat
             /\ stmt.main = LET verbs == {k \in 2 .. Len(t) : Policy!VerbAt(t, k)}
                            IN  IF verbs = {} THEN "none" ELSE t[Min(verbs)]
  <2>1. VerbSought(stmt.tokens)
    BY <1>7 DEF VerbFound
  <2>2. stmt \in Statements /\ t[1] = "with"
    BY <2>1 DEF VerbSought, t
  <2>3. stmt.main = Policy!MainVerb(t)
    BY <2>2, Reader DEF Reader, t
  <2>4. t \in Seq(STRING)
    BY <2>2, Written DEF Written, t
  <2>5. Len(t) \in Nat
    BY <2>4, LenProperties
  <2>. DEFINE verbs == {k \in 2 .. Len(t) : Policy!VerbAt(t, k)}
  <2>6. stmt.main = IF verbs = {} THEN "none" ELSE t[Policy!Min(verbs)]
    BY <2>2, <2>3, Zenon DEF Policy!MainVerb, t
  <2>7. Policy!Min(verbs) = Min(verbs)
    BY PolicyMinMax
  <2>. QED
    BY <2>1, <2>2, <2>5, <2>6, <2>7, Zenon DEF t
<1>8. CASE Policy!FindVerb
  <2>1. step = "main" /\ Policy!In("main") /\ Policy!OuterVerb
    BY <1>8 DEF Policy!FindVerb, Policy!In
  <2>2. step' = "names" /\ stmt' = stmt /\ main' = Policy!Token
    BY <1>8 DEF Policy!FindVerb
  <2>3. Policy!Token \notin {"(", ")"}
    BY <2>1 DEF Policy!OuterVerb, Policy!Verbs, Policy!Reading, Policy!Writing, Policy!Defining, Policy!Administering
  <2>4. Policy!VerbAt(t, at) /\ main' = t[at]
    BY <1>2, <1>5, <2>1, <2>2, <2>3
  <2>. DEFINE K == {k \in 2 .. Len(t) : Policy!VerbAt(t, k)}
  <2>5. stmt.main = IF K = {} THEN "none" ELSE t[Min(K)]
    BY <1>7, <2>1, Zenon
  <2>6. at \in K /\ \A k \in K : at <= k
    <3>1. at \in 2 .. Len(t) + 1 /\ at <= Len(t) /\ \A k \in 2 .. at - 1 : ~Policy!VerbAt(t, k)
      <4>1. VerbSought(t) /\ at \in 1 .. Len(t)
        BY <1>2, <2>1
      <4>. QED
        BY <4>1 DEF VerbSought
    <3>2. at \in 2 .. Len(t)
      BY <1>7, <2>1, <3>1
    <3>3. \A k \in 2 .. Len(t) : k \in 2 .. at - 1 \/ at <= k
      BY <1>7, <2>1, <3>2
    <3>. QED
      BY <2>4, <3>1, <3>2, <3>3, Zenon
  <2>7. Min(K) = at
    <3>1. K \in SUBSET Nat /\ K # {}
      BY <2>6
    <3>2. Min(K) \in K /\ \A k \in K : Min(K) <= k
      BY <3>1, MinIsLeast
    <3>3. Min(K) \in Nat /\ at \in Nat /\ at <= Min(K) /\ Min(K) <= at
      BY <2>6, <3>1, <3>2, Zenon
    <3>. QED
      BY <3>3
  <2>8. stmt.main = t[at]
    BY <2>5, <2>6, <2>7, Zenon
  <2>. QED
    BY <2>2, <2>4, <2>8 DEF VerbFound
<1>9. CASE Policy!NoVerb
  <2>1. step = "main" /\ at > Len(t) /\ step' = "end" /\ stmt' = stmt /\ main' = main
    BY <1>9 DEF Policy!NoVerb, Policy!Count, t
  <2>2. VerbSought(t) /\ Len(t) \in Nat
    BY <1>7, <2>1
  <2>3. main = "none" /\ {k \in 2 .. Len(t) : Policy!VerbAt(t, k)} = {}
    BY <2>1, <2>2 DEF VerbSought
  <2>4. stmt.main = "none"
    BY <1>7, <2>1, <2>3, Zenon
  <2>. QED
    BY <2>1, <2>3, <2>4 DEF VerbFound
<1>10. ASSUME step # "main", step' # "main", stmt' = stmt, main' = main
       PROVE  VerbFound'
  BY <1>10 DEF VerbFound
<1>11. CASE Policy!CollectName \/ Policy!NoMoreNames
  BY <1>10, <1>11 DEF Policy!CollectName, Policy!NoMoreNames, Policy!In, Policy!ToObjects
<1>12. CASE Policy!ListWord \/ Policy!TargetWord \/ Policy!TableWord \/ Policy!OnWord \/ Policy!EndWord
            \/ Policy!Comma \/ Policy!OtherWord
  BY <1>10, <1>12 DEF Policy!ListWord, Policy!TargetWord, Policy!TableWord, Policy!OnWord, Policy!EndWord,
                     Policy!Comma, Policy!OtherWord, Policy!Sets, Policy!In
<1>13. CASE Policy!AddTable \/ Policy!ObjectsDone
  BY <1>10, <1>13 DEF Policy!AddTable, Policy!ObjectsDone, Policy!In
<1>14. CASE Policy!EnforceTablePolicy
  BY <1>1, <1>14 DEF Policy!EnforceTablePolicy, Policy!scan
<1>15. CASE UNCHANGED words
  BY <1>1, <1>15 DEF words
<1>16. UNCHANGED words \/ Policy!Analyze \/ Policy!EnforceTablePolicy
  BY DEF AnalyserNext, Policy!Next, vars
<1>. QED
  BY <1>3, <1>4, <1>6, <1>8, <1>9, <1>11, <1>12, <1>13, <1>14, <1>15, <1>16, Zenon DEF Policy!Analyze

\* Whatever the statement, if it closes no parenthesis that it has not opened: the
\* verb that decides the action is its first word, or behind WITH the first one
\* outside parentheses (findCTEAction).
THEOREM VerbCorrect == AnalyserSpec => []VerbIsMain
<1>1. AnalyserInit => VerbFound
  BY InitVerb
<1>2. VerbFound /\ [AnalyserNext]_<<vars, words>> => VerbFound'
  BY NextVerb
<1>3. VerbFound => VerbIsMain
  BY DEF VerbFound, VerbIsMain, Policy!VerbIsMain
<1>. QED
  BY <1>1, <1>2, <1>3, PTL DEF AnalyserSpec

-----------------------------------------------------------------------------
(* extractObjects.  Where the loop is in a list of tables, and where a     *)
(* table is due, in front of position k of the words w.                    *)

OpensList(w, b) == w[b] \in Policy!ListWords \/ (w[b] \in {"table", "view"} /\ Policy!Defines(w))
EndsList(w, m) == w[m] \in Policy!EndWords \cup Policy!TargetWords \/ (w[m] = "on" /\ ~Policy!MakesIndex(w))
InList(w, k) == \E b \in 1 .. k - 1 : OpensList(w, b) /\ \A m \in b + 1 .. k - 1 : ~EndsList(w, m)

Expects(w, p) ==
  \/ OpensList(w, p)
  \/ w[p] \in Policy!TargetWords
  \/ w[p] = "on" /\ Policy!MakesIndex(w)
  \/ w[p] = "," /\ InList(w, p)
Passing == Policy!NoiseWords \cup {"table", "("}
Due(w, k) == \E p \in 1 .. k - 1 : Expects(w, p) /\ \A m \in p + 1 .. k - 1 : w[m] \in Passing

\* The flags are set where a table is due and cleared behind a name, every name
\* that was due has been found, and what was found stood where no alias stands.
SoFar(w, k, expect, list, found, names) ==
  /\ InList(w, k) => list
  /\ Due(w, k) => expect
  /\ Policy!Follows(w, k) => ~expect
  /\ \A n \in 1 .. k - 1 : Policy!IsName(w[n]) /\ Due(w, n) => w[n] \in found \cup names
  /\ \A o \in found : o \notin names /\ \E n \in 1 .. k - 1 : w[n] = o /\ ~Policy!Follows(w, n)

OfKnownClass == stmt \in Statements /\ main \in Policy!Verbs

ObjectsRead ==
  /\ expectTable \in BOOLEAN /\ inTableList \in BOOLEAN
  /\ step \in {"main", "names"} => objects = {} /\ ~expectTable /\ ~inTableList
  /\ OfKnownClass /\ step = "objects" =>
       /\ at \in 1 .. Len(stmt.tokens) + 1
       /\ SoFar(stmt.tokens, at, expectTable, inTableList, objects, ctes)
  /\ OfKnownClass /\ step = "end" =>
       SoFar(stmt.tokens, Len(stmt.tokens) + 1, expectTable, inTableList, objects, ctes)

LEMMA KindsOfWords ==
  /\ \A x : Policy!IsName(x) =>
       /\ x \notin Policy!ListWords \cup Policy!TargetWords \cup Policy!EndWords \cup Policy!NoiseWords
       /\ x \notin {"table", "view", "on", ",", "(", ")"}
  /\ \A x \in Policy!ListWords \cup Policy!TargetWords \cup Policy!EndWords \cup Policy!NoiseWords \cup {"table", "view", "on", ",", "(", ")"} :
       ~Policy!IsName(x)
  /\ \A x \in Policy!EndWords \cup Policy!ListWords \cup Policy!TargetWords : x \notin Passing
  /\ \A x \in Policy!EndWords : x \notin Policy!ListWords \cup Policy!TargetWords \cup {"table", "view", "on", ",", ")"}
  /\ \A x \in Policy!ListWords : x \notin Policy!EndWords \cup Policy!TargetWords \cup {"table", "view", "on", ",", ")"}
  /\ \A x \in Policy!TargetWords : x \notin Policy!EndWords \cup Policy!ListWords \cup {"table", "view", "on", ",", ")"}
  /\ \A x \in Policy!NoiseWords \cup {"(", ")"} :
       x \notin Policy!EndWords \cup Policy!ListWords \cup Policy!TargetWords \cup {"table", "view", "on", ","}
  /\ {"table", "view", "on", ",", ")"} \cap (Policy!EndWords \cup Policy!ListWords \cup Policy!TargetWords) = {}
  /\ ")" \notin Passing /\ "on" \notin Passing /\ "," \notin Passing /\ "view" \notin Passing /\ "table" \in Passing
BY DEF Policy!IsName, Policy!KeyWords, Policy!ListWords, Policy!TargetWords, Policy!EndWords, Policy!NoiseWords, Passing

LEMMA InListNext ==
  ASSUME NEW w, NEW k \in Nat \ {0}, InList(w, k + 1)
  PROVE  OpensList(w, k) \/ (InList(w, k) /\ ~EndsList(w, k))
<1>1. PICK b \in 1 .. (k + 1) - 1 : OpensList(w, b) /\ \A m \in b + 1 .. (k + 1) - 1 : ~EndsList(w, m)
  BY DEF InList
<1>2. CASE b = k
  BY <1>1, <1>2
<1>3. CASE b # k
  <2>1. b \in 1 .. k - 1 /\ k \in b + 1 .. (k + 1) - 1 /\ b + 1 .. k - 1 \subseteq b + 1 .. (k + 1) - 1
    BY <1>3
  <2>. QED
    BY <1>1, <2>1, Zenon DEF InList
<1>. QED
  BY <1>2, <1>3

LEMMA DueNext ==
  ASSUME NEW w, NEW k \in Nat \ {0}, Due(w, k + 1)
  PROVE  Expects(w, k) \/ (Due(w, k) /\ w[k] \in Passing)
<1>1. PICK p \in 1 .. (k + 1) - 1 : Expects(w, p) /\ \A m \in p + 1 .. (k + 1) - 1 : w[m] \in Passing
  BY DEF Due
<1>2. CASE p = k
  BY <1>1, <1>2
<1>3. CASE p # k
  <2>1. p \in 1 .. k - 1 /\ k \in p + 1 .. (k + 1) - 1 /\ p + 1 .. k - 1 \subseteq p + 1 .. (k + 1) - 1
    BY <1>3
  <2>. QED
    BY <1>1, <2>1, Zenon DEF Due
<1>. QED
  BY <1>2, <1>3

LEMMA FollowsNext ==
  ASSUME NEW w, NEW k \in Nat \ {0}, Policy!Follows(w, k + 1)
  PROVE  Policy!IsName(w[k]) \/ (Policy!Follows(w, k) /\ w[k] = ")")
<1>1. PICK p \in 1 .. (k + 1) - 1 : Policy!IsName(w[p]) /\ \A m \in p + 1 .. (k + 1) - 1 : w[m] = ")"
  BY DEF Policy!Follows
<1>2. CASE p = k
  BY <1>1, <1>2
<1>3. CASE p # k
  <2>1. p \in 1 .. k - 1 /\ k \in p + 1 .. (k + 1) - 1 /\ p + 1 .. k - 1 \subseteq p + 1 .. (k + 1) - 1
    BY <1>3
  <2>. QED
    BY <1>1, <2>1, Zenon DEF Policy!Follows
<1>. QED
  BY <1>2, <1>3

\* Nothing has been read, or found, in front of the first word.
LEMMA NothingSoFar == ASSUME NEW w, NEW names PROVE SoFar(w, 1, FALSE, FALSE, {}, names)
BY DEF SoFar, InList, Due, Policy!Follows

\* A word that is no table, or that stands where none is due.
LEMMA WordRead ==
  ASSUME NEW w, NEW k \in Nat \ {0}, NEW found, NEW names,
         NEW expect \in BOOLEAN, NEW list, NEW expectNow, NEW listNow,
         SoFar(w, k, expect, list, found, names), Policy!IsName(w[k]) => ~expect,
         InList(w, k + 1) => listNow, Due(w, k + 1) => expectNow, Policy!Follows(w, k + 1) => ~expectNow
  PROVE  SoFar(w, k + 1, expectNow, listNow, found, names)
<1>1. \A n \in 1 .. (k + 1) - 1 : n \in 1 .. k - 1 \/ n = k
  OBVIOUS
<1>2. 1 .. k - 1 \subseteq 1 .. (k + 1) - 1
  OBVIOUS
<1>3. ~(Policy!IsName(w[k]) /\ Due(w, k))
  BY Zenon DEF SoFar
<1>4. \A n \in 1 .. (k + 1) - 1 : Policy!IsName(w[n]) /\ Due(w, n) => w[n] \in found \cup names
  BY <1>1, <1>3, Zenon DEF SoFar
<1>5. \A o \in found : o \notin names /\ \E n \in 1 .. (k + 1) - 1 : w[n] = o /\ ~Policy!Follows(w, n)
  BY <1>2, Zenon DEF SoFar
<1>. QED
  BY <1>4, <1>5, Zenon DEF SoFar

\* A table, or the name of a WITH query where a table is due.
LEMMA TableRead ==
  ASSUME NEW w, NEW k \in Nat \ {0}, NEW found, NEW names, NEW list,
         SoFar(w, k, TRUE, list, found, names), Policy!IsName(w[k])
  PROVE  SoFar(w, k + 1, FALSE, list, IF w[k] \in names THEN found ELSE found \cup {w[k]}, names)
<1>. DEFINE now == IF w[k] \in names THEN found ELSE found \cup {w[k]}
<1>1. \A n \in 1 .. (k + 1) - 1 : n \in 1 .. k - 1 \/ n = k
  OBVIOUS
<1>2. 1 .. k - 1 \subseteq 1 .. (k + 1) - 1 /\ k \in 1 .. (k + 1) - 1
  OBVIOUS
<1>3. /\ w[k] \notin Policy!ListWords \cup Policy!TargetWords \cup Policy!EndWords \cup Policy!NoiseWords
      /\ w[k] \notin {"table", "view", "on", ",", "(", ")"}
  BY KindsOfWords, Zenon
<1>4. ~OpensList(w, k) /\ ~Expects(w, k) /\ w[k] \notin Passing
  BY <1>3 DEF OpensList, Expects, Passing
<1>5. InList(w, k + 1) => list
  BY <1>4, InListNext, Zenon DEF SoFar
<1>6. ~Due(w, k + 1)
  BY <1>4, DueNext, Zenon
<1>7. ~Policy!Follows(w, k)
  BY Zenon DEF SoFar
<1>8. found \subseteq now /\ w[k] \in now \cup names
  OBVIOUS
<1>9. \A n \in 1 .. (k + 1) - 1 : Policy!IsName(w[n]) /\ Due(w, n) => w[n] \in now \cup names
  <2>1. \A n \in 1 .. k - 1 : Policy!IsName(w[n]) /\ Due(w, n) => w[n] \in found \cup names
    BY Zenon DEF SoFar
  <2>2. found \cup names \subseteq now \cup names
    BY <1>8
  <2>. HIDE DEF now
  <2>. QED
    BY <1>1, <1>8, <2>1, <2>2, Zenon
<1>10. ASSUME NEW o \in now
       PROVE  o \notin names /\ \E n \in 1 .. (k + 1) - 1 : w[n] = o /\ ~Policy!Follows(w, n)
  <2>1. CASE o \in found
    BY <1>2, <2>1, Zenon DEF SoFar
  <2>2. CASE o \notin found
    <3>1. o = w[k] /\ o \notin names
      BY <2>2
    <3>. QED
      BY <1>2, <1>7, <3>1, Zenon
  <2>. QED
    BY <2>1, <2>2
<1>. HIDE DEF now
<1>11. SoFar(w, k + 1, FALSE, list, now, names)
  BY <1>5, <1>6, <1>9, <1>10, Zenon DEF SoFar
<1>. QED
  BY <1>11 DEF now

\* The class of the statement decides what TABLE and VIEW, and ON, announce.
LEMMA ClassOfWords ==
  ASSUME VerbFound, stmt \in Statements, step # "main"
  PROVE  /\ main = Policy!MainVerb(stmt.tokens)
         /\ main \in {"create", "alter", "drop", "rename"} <=> Policy!Defines(stmt.tokens)
         /\ Policy!IsIndex <=> Policy!MakesIndex(stmt.tokens)
         /\ stmt.tokens \in Seq(STRING) /\ Len(stmt.tokens) \in Nat \ {0}
<1>1. main = Policy!MainVerb(stmt.tokens)
  BY Reader DEF Reader, VerbFound
<1>2. stmt.tokens \in Seq(STRING)
  BY Written DEF Written
<1>3. Len(stmt.tokens) \in Nat \ {0}
  <2>1. Len(stmt.tokens) \in Nat
    BY <1>2, LenProperties
  <2>2. Len(stmt.tokens) > 0
    BY NonEmpty DEF NonEmpty
  <2>. QED
    BY <2>1, <2>2
<1>4. \A k \in 1 .. Len(stmt.tokens) : Policy!At(k) = stmt.tokens[k]
  BY <1>3 DEF Policy!At, Policy!Count
<1>5. Policy!IsIndex <=> Policy!MakesIndex(stmt.tokens)
  BY <1>1, <1>4, Zenon DEF Policy!IsIndex, Policy!MakesIndex, Policy!Count
<1>6. main \in {"create", "alter", "drop", "rename"} <=> Policy!Defines(stmt.tokens)
  BY <1>1, Zenon DEF Policy!Defines
<1>. QED
  BY <1>1, <1>2, <1>3, <1>5, <1>6

\* One more word, which is no table.
LEMMA OneWordRead ==
  ASSUME VerbFound, ObjectsRead, Policy!In("objects"),
         NEW expect \in BOOLEAN, NEW list \in BOOLEAN, Policy!Sets(expect, list),
         OfKnownClass =>
           /\ Policy!IsName(stmt.tokens[at]) => ~expectTable
           /\ InList(stmt.tokens, at + 1) => list
           /\ Due(stmt.tokens, at + 1) => expect
           /\ Policy!Follows(stmt.tokens, at + 1) => ~expect
  PROVE  ObjectsRead'
<1>. DEFINE t == stmt.tokens
<1>1. step = "objects" /\ at <= Len(t)
  BY DEF Policy!In, Policy!Count
<1>2. /\ expectTable' = expect /\ inTableList' = list /\ at' = at + 1
      /\ UNCHANGED <<stmt, step, ctes, objects, main>>
  BY DEF Policy!Sets
<1>3. expectTable' \in BOOLEAN /\ inTableList' \in BOOLEAN /\ step' = "objects" /\ t' = t
  BY <1>1, <1>2
<1>4. OfKnownClass' <=> OfKnownClass
  BY <1>2 DEF OfKnownClass
<1>5. ASSUME OfKnownClass
      PROVE  SoFar(t', at', expectTable', inTableList', objects', ctes') /\ at' \in 1 .. Len(t') + 1
  <2>1. Len(t) \in Nat /\ at \in Nat \ {0} /\ at + 1 \in 1 .. Len(t) + 1
    <3>1. Len(t) \in Nat
      BY <1>1, <1>5, ClassOfWords DEF OfKnownClass
    <3>2. at \in 1 .. Len(t) + 1
      BY <1>1, <1>5 DEF ObjectsRead
    <3>. QED
      BY <1>1, <3>1, <3>2
  <2>2. SoFar(t, at, expectTable, inTableList, objects, ctes) /\ expectTable \in BOOLEAN
    BY <1>1, <1>5, Zenon DEF ObjectsRead
  <2>3. SoFar(t, at + 1, expect, list, objects, ctes)
    BY <1>5, <2>1, <2>2, WordRead
  <2>. HIDE DEF t
  <2>. QED
    BY <1>2, <1>3, <2>1, <2>3
<1>. QED
  BY <1>3, <1>4, <1>5, Zenon DEF ObjectsRead

\* What is known of the word that is read next, and of the place behind it.
LEMMA WordIs ==
  ASSUME VerbFound, ObjectsRead, Policy!In("objects"), OfKnownClass
  PROVE  LET w == stmt.tokens
         IN  /\ Policy!Token = w[at] /\ at \in 1 .. Len(w) /\ at \in Nat \ {0} /\ step = "objects"
             /\ SoFar(w, at, expectTable, inTableList, objects, ctes)
             /\ InList(w, at + 1) => OpensList(w, at) \/ (inTableList /\ ~EndsList(w, at))
             /\ Due(w, at + 1) => Expects(w, at) \/ (expectTable /\ w[at] \in Passing)
             /\ Policy!Follows(w, at + 1) => Policy!IsName(w[at]) \/ (~expectTable /\ w[at] = ")")
             /\ InList(w, at) => inTableList
<1>. DEFINE w == stmt.tokens
<1>1. step = "objects" /\ at <= Len(w)
  BY DEF Policy!In, Policy!Count
<1>2. Policy!Token = w[at]
  BY <1>1 DEF Policy!Token, Policy!At, Policy!Count
<1>3. Len(w) \in Nat
  BY <1>1, ClassOfWords DEF OfKnownClass
<1>4. at \in 1 .. Len(w) + 1
  BY <1>1 DEF ObjectsRead
<1>5. SoFar(w, at, expectTable, inTableList, objects, ctes)
  BY <1>1, Zenon DEF ObjectsRead
<1>. HIDE DEF w
<1>6. at \in 1 .. Len(w) /\ at \in Nat \ {0}
  BY <1>1, <1>3, <1>4
<1>7. /\ InList(w, at) => inTableList
      /\ Due(w, at) => expectTable
      /\ Policy!Follows(w, at) => ~expectTable
  BY <1>5, Zenon DEF SoFar
<1>8. InList(w, at + 1) => OpensList(w, at) \/ (InList(w, at) /\ ~EndsList(w, at))
  BY <1>6, InListNext
<1>9. Due(w, at + 1) => Expects(w, at) \/ (Due(w, at) /\ w[at] \in Passing)
  BY <1>6, DueNext
<1>10. Policy!Follows(w, at + 1) => Policy!IsName(w[at]) \/ (Policy!Follows(w, at) /\ w[at] = ")")
  BY <1>6, FollowsNext
<1>. QED
  BY <1>1, <1>2, <1>5, <1>6, <1>7, <1>8, <1>9, <1>10, Zenon DEF w

\* The words that set a flag or clear it.
LEMMA FlagWords ==
  ASSUME VerbFound, ObjectsRead,
         Policy!ListWord \/ Policy!TargetWord \/ Policy!TableWord \/ Policy!OnWord \/ Policy!EndWord
  PROVE  ObjectsRead'
<1>. DEFINE w == stmt.tokens
<1>0. expectTable \in BOOLEAN /\ inTableList \in BOOLEAN
  BY DEF ObjectsRead
<1>1. ASSUME OfKnownClass, Policy!In("objects")
      PROVE  /\ Policy!Token = w[at]
             /\ InList(w, at + 1) => OpensList(w, at) \/ (inTableList /\ ~EndsList(w, at))
             /\ Due(w, at + 1) => Expects(w, at) \/ (expectTable /\ w[at] \in Passing)
             /\ Policy!Follows(w, at + 1) => Policy!IsName(w[at]) \/ (~expectTable /\ w[at] = ")")
             /\ main \in {"create", "alter", "drop", "rename"} <=> Policy!Defines(w)
             /\ Policy!IsIndex <=> Policy!MakesIndex(w)
  <2>1. step # "main" /\ stmt \in Statements
    BY <1>1 DEF Policy!In, OfKnownClass
  <2>. QED
    BY <1>1, <2>1, WordIs, ClassOfWords
<1>2. ASSUME NEW x \in Policy!ListWords \cup Policy!TargetWords \cup Policy!EndWords \cup {"table", "view", "on"}
      PROVE  ~Policy!IsName(x) /\ x # ")" /\ x # ","
  BY KindsOfWords, Zenon
<1>. HIDE DEF w
<1>3. CASE Policy!ListWord
  <2>1. Policy!In("objects") /\ Policy!Token \in Policy!ListWords /\ Policy!Sets(TRUE, TRUE)
    BY <1>3 DEF Policy!ListWord
  <2>. QED
    BY <1>1, <1>2, <2>1, OneWordRead, Zenon DEF w
<1>4. CASE Policy!TargetWord
  <2>1. Policy!In("objects") /\ Policy!Token \in Policy!TargetWords /\ Policy!Sets(TRUE, FALSE)
    BY <1>4 DEF Policy!TargetWord
  <2>2. Policy!Token \notin Policy!ListWords \cup {"table", "view"}
    BY <2>1, KindsOfWords, Zenon
  <2>. QED
    BY <1>1, <1>2, <2>1, <2>2, OneWordRead, Zenon DEF w, OpensList, EndsList
<1>5. CASE Policy!TableWord
  <2>1. /\ Policy!In("objects") /\ Policy!Token \in {"table", "view"}
        /\ IF main \in {"create", "alter", "drop", "rename"} THEN Policy!Sets(TRUE, TRUE)
           ELSE Policy!Sets(expectTable, inTableList)
    BY <1>5 DEF Policy!TableWord
  <2>2. Policy!Token \notin Policy!ListWords \cup Policy!TargetWords \cup {"on"}
    BY <2>1, KindsOfWords
  <2>3. CASE main \in {"create", "alter", "drop", "rename"}
    BY <1>1, <1>2, <2>1, <2>3, OneWordRead, Zenon
       DEF w
  <2>4. CASE main \notin {"create", "alter", "drop", "rename"}
    <3>1. Policy!Sets(expectTable, inTableList)
      BY <2>1, <2>4, Zenon
    <3>2. ASSUME OfKnownClass
          PROVE  ~OpensList(w, at) /\ ~Expects(w, at) /\ ~Policy!IsName(w[at]) /\ w[at] # ")"
      BY <1>1, <1>2, <2>1, <2>2, <2>4, <3>2, Zenon DEF OpensList, Expects
    <3>. QED
      BY <1>0, <1>1, <2>1, <3>1, <3>2, OneWordRead, Zenon DEF w
  <2>. QED
    BY <2>3, <2>4, Zenon
<1>6. CASE Policy!OnWord
  <2>1. /\ Policy!In("objects") /\ Policy!Token = "on"
        /\ IF Policy!IsIndex THEN Policy!Sets(TRUE, inTableList) ELSE Policy!Sets(FALSE, FALSE)
    BY <1>6 DEF Policy!OnWord
  <2>2. "on" \notin Policy!ListWords \cup Policy!TargetWords \cup Passing \cup {"table", "view", ","}
    BY KindsOfWords
  <2>3. CASE Policy!IsIndex
    <3>1. ASSUME OfKnownClass
          PROVE  ~OpensList(w, at) /\ ~Policy!IsName(w[at]) /\ w[at] # ")"
      BY <1>1, <1>2, <2>1, <2>2, <3>1, Zenon DEF OpensList
    <3>. QED
      BY <1>0, <1>1, <2>1, <2>3, <3>1, OneWordRead, Zenon DEF w
  <2>4. CASE ~Policy!IsIndex
    <3>1. ASSUME OfKnownClass
          PROVE  /\ ~OpensList(w, at) /\ EndsList(w, at) /\ ~Expects(w, at) /\ w[at] \notin Passing
                 /\ ~Policy!IsName(w[at]) /\ w[at] # ")"
      BY <1>1, <1>2, <2>1, <2>2, <2>4, <3>1, Zenon DEF OpensList, EndsList, Expects
    <3>. QED
      BY <1>1, <2>1, <2>4, <3>1, OneWordRead, Zenon DEF w
  <2>. QED
    BY <2>3, <2>4, Zenon
<1>7. CASE Policy!EndWord
  <2>1. Policy!In("objects") /\ Policy!Token \in Policy!EndWords /\ Policy!Sets(FALSE, FALSE)
    BY <1>7 DEF Policy!EndWord
  <2>2. Policy!Token \notin Policy!ListWords \cup Policy!TargetWords \cup Passing \cup {"table", "view", "on", ","}
    BY <2>1, KindsOfWords, Zenon
  <2>3. ASSUME OfKnownClass
        PROVE  /\ ~OpensList(w, at) /\ EndsList(w, at) /\ ~Expects(w, at) /\ w[at] \notin Passing
               /\ ~Policy!IsName(w[at]) /\ w[at] # ")"
    BY <1>1, <1>2, <2>1, <2>2, <2>3, Zenon DEF OpensList, EndsList, Expects
  <2>. QED
    BY <1>1, <2>1, <2>3, OneWordRead, Zenon DEF w
<1>. QED
  BY <1>3, <1>4, <1>5, <1>6, <1>7, Zenon

\* A comma goes on with a list, and the other words change no flag.
LEMMA OtherWords ==
  ASSUME VerbFound, ObjectsRead, Policy!Comma \/ Policy!OtherWord
  PROVE  ObjectsRead'
<1>. DEFINE w == stmt.tokens
<1>0. expectTable \in BOOLEAN /\ inTableList \in BOOLEAN /\ (expectTable \/ inTableList) \in BOOLEAN
  BY DEF ObjectsRead
<1>1. ASSUME OfKnownClass, Policy!In("objects")
      PROVE  /\ Policy!Token = w[at]
             /\ InList(w, at) => inTableList
             /\ InList(w, at + 1) => OpensList(w, at) \/ (inTableList /\ ~EndsList(w, at))
             /\ Due(w, at + 1) => Expects(w, at) \/ (expectTable /\ w[at] \in Passing)
             /\ Policy!Follows(w, at + 1) => Policy!IsName(w[at]) \/ (~expectTable /\ w[at] = ")")
  BY <1>1, WordIs
<1>. HIDE DEF w
<1>2. CASE Policy!Comma
  <2>1. Policy!In("objects") /\ Policy!Token = "," /\ Policy!Sets(expectTable \/ inTableList, inTableList)
    BY <1>2 DEF Policy!Comma, Policy!NextInList
  <2>2. /\ "," \notin Policy!ListWords \cup Policy!TargetWords \cup Passing \cup {"table", "view", "on"}
        /\ ~Policy!IsName(",") /\ "," # ")"
    BY KindsOfWords
  <2>3. ASSUME OfKnownClass
        PROVE  ~OpensList(w, at) /\ (Expects(w, at) => inTableList) /\ ~Policy!IsName(w[at]) /\ w[at] # ")"
    BY <1>1, <2>1, <2>2, <2>3, Zenon DEF OpensList, Expects
  <2>. QED
    BY <1>0, <1>1, <2>1, <2>3, OneWordRead, Zenon DEF w
<1>3. CASE Policy!OtherWord
  <2>1. /\ Policy!In("objects") /\ Policy!Sets(expectTable, inTableList)
        /\ \/ Policy!Token \in Policy!NoiseWords
           \/ Policy!Token \notin Policy!KeyWords /\ (~expectTable \/ Policy!Token \in {"(", ")"})
    BY <1>3 DEF Policy!OtherWord
  <2>2. Policy!Token \notin Policy!ListWords \cup Policy!TargetWords \cup {"table", "view", "on", ","}
    <3>1. CASE Policy!Token \in Policy!NoiseWords
      BY <3>1, KindsOfWords, Zenon
    <3>2. CASE Policy!Token \notin Policy!KeyWords
      BY <3>2 DEF Policy!KeyWords
    <3>. QED
      BY <2>1, <3>1, <3>2
  <2>3. Policy!IsName(Policy!Token) => ~expectTable
    <3>1. \A x \in Policy!NoiseWords \cup {"(", ")"} : ~Policy!IsName(x)
      BY KindsOfWords, Zenon
    <3>. QED
      BY <2>1, <3>1, Zenon
  <2>4. ASSUME OfKnownClass
        PROVE  ~OpensList(w, at) /\ ~Expects(w, at) /\ (Policy!IsName(w[at]) => ~expectTable)
    BY <1>1, <2>1, <2>2, <2>3, <2>4, Zenon DEF OpensList, Expects
  <2>. QED
    BY <1>0, <1>1, <2>1, <2>4, OneWordRead, Zenon DEF w
<1>. QED
  BY <1>2, <1>3, Zenon

LEMMA TableAdded ==
  ASSUME VerbFound, ObjectsRead, Policy!AddTable
  PROVE  ObjectsRead'
<1>. DEFINE w == stmt.tokens
<1>1. /\ Policy!In("objects") /\ expectTable /\ Policy!Token \notin Policy!KeyWords \cup {"(", ")"}
      /\ objects' = (IF Policy!Token \in ctes THEN objects ELSE objects \cup {Policy!Token})
      /\ expectTable' = FALSE /\ at' = at + 1
      /\ UNCHANGED <<stmt, step, main, ctes, inTableList>>
  BY Zenon DEF Policy!AddTable
<1>2. step' = "objects" /\ w' = w /\ (OfKnownClass' <=> OfKnownClass)
  BY <1>1 DEF Policy!In, OfKnownClass
<1>3. expectTable = TRUE /\ expectTable' \in BOOLEAN /\ inTableList' \in BOOLEAN
  BY <1>1 DEF ObjectsRead
<1>4. ASSUME OfKnownClass
      PROVE  SoFar(w', at', expectTable', inTableList', objects', ctes') /\ at' \in 1 .. Len(w') + 1
  <2>1. /\ Policy!Token = w[at] /\ at \in 1 .. Len(w) /\ at \in Nat \ {0}
        /\ SoFar(w, at, TRUE, inTableList, objects, ctes)
    BY <1>1, <1>3, <1>4, WordIs
  <2>2. Policy!IsName(w[at])
    BY <1>1, <2>1 DEF Policy!IsName
  <2>3. SoFar(w, at + 1, FALSE, inTableList, IF w[at] \in ctes THEN objects ELSE objects \cup {w[at]}, ctes)
    BY <2>1, <2>2, TableRead
  <2>. HIDE DEF w
  <2>4. at + 1 \in 1 .. Len(w) + 1
    BY <2>1
  <2>. QED
    BY <1>1, <1>2, <2>1, <2>3, <2>4
<1>. QED
  BY <1>2, <1>3, <1>4, Zenon DEF ObjectsRead

LEMMA InitObjects == AnalyserInit => ObjectsRead
<1>1. ASSUME NEW s, Policy!Starts(s)
      PROVE  ObjectsRead
  <2>1. /\ stmt = s /\ objects = {} /\ expectTable = FALSE /\ inTableList = FALSE
        /\ step = "main" \/ (step = "objects" /\ at = 1)
    BY <1>1 DEF Policy!Starts
  <2>2. SoFar(s.tokens, 1, FALSE, FALSE, {}, ctes)
    BY NothingSoFar
  <2>3. ASSUME s \in Statements
        PROVE  1 \in 1 .. Len(s.tokens) + 1
    <3>1. s.tokens \in Seq(STRING)
      BY <2>3, Written DEF Written
    <3>. QED
      BY <3>1, LenProperties
  <2>. QED
    BY <2>1, <2>2, <2>3 DEF ObjectsRead, OfKnownClass
<1>. QED
  BY <1>1 DEF AnalyserInit, PolicyRests, Policy!Init

LEMMA NextObjects ==
  ASSUME VerbFound, ObjectsRead, [AnalyserNext]_<<vars, words>>
  PROVE  ObjectsRead'
<1>1. CASE UNCHANGED <<stmt, step, at, main, ctes, expectTable, inTableList, objects>>
  BY <1>1 DEF ObjectsRead, OfKnownClass
<1>2. CASE Policy!Open \/ Policy!Close \/ Policy!SkipWord
  <2>1. step = "main" /\ UNCHANGED <<stmt, step, main, ctes, expectTable, inTableList, objects>>
    BY <1>2 DEF Policy!Open, Policy!Close, Policy!SkipWord, Policy!Nested, Policy!In, Policy!flags
  <2>. QED
    BY <2>1 DEF ObjectsRead
<1>3. CASE Policy!FindVerb
  <2>1. step = "main" /\ step' = "names" /\ UNCHANGED <<expectTable, inTableList, objects>>
    BY <1>3 DEF Policy!FindVerb, Policy!In, Policy!flags
  <2>. QED
    BY <2>1 DEF ObjectsRead
<1>4. CASE Policy!NoVerb
  <2>1. step = "main" /\ step' = "end" /\ UNCHANGED <<main, expectTable, inTableList, objects>>
    BY <1>4 DEF Policy!NoVerb, Policy!In, Policy!flags
  <2>2. main = "none"
    BY <2>1 DEF VerbFound, VerbSought
  <2>3. "none" \notin Policy!Verbs
    BY DEF Policy!Verbs, Policy!Reading, Policy!Writing, Policy!Defining, Policy!Administering
  <2>. QED
    BY <2>1, <2>2, <2>3 DEF ObjectsRead, OfKnownClass
<1>5. CASE Policy!CollectName \/ Policy!NoMoreNames
  <2>1. /\ step = "names" /\ (step' = "names" \/ (step' = "objects" /\ at' = 1))
        /\ UNCHANGED <<stmt, main, expectTable, inTableList, objects>>
    BY <1>5 DEF Policy!CollectName, Policy!NoMoreNames, Policy!In, Policy!ToObjects, Policy!flags
  <2>2. objects' = {} /\ expectTable' = FALSE /\ inTableList' = FALSE
    BY <2>1 DEF ObjectsRead
  <2>3. SoFar(stmt.tokens, 1, FALSE, FALSE, {}, ctes')
    BY NothingSoFar
  <2>4. ASSUME OfKnownClass'
        PROVE  1 \in 1 .. Len(stmt.tokens) + 1
    <3>1. stmt \in Statements
      BY <2>1, <2>4 DEF OfKnownClass
    <3>2. stmt.tokens \in Seq(STRING)
      BY <3>1, Written DEF Written
    <3>. QED
      BY <3>2, LenProperties
  <2>. QED
    BY <2>1, <2>2, <2>3, <2>4 DEF ObjectsRead
<1>6. CASE Policy!ListWord \/ Policy!TargetWord \/ Policy!TableWord \/ Policy!OnWord \/ Policy!EndWord
  BY <1>6, FlagWords
<1>7. CASE Policy!Comma \/ Policy!OtherWord
  BY <1>7, OtherWords
<1>8. CASE Policy!AddTable
  BY <1>8, TableAdded
<1>9. CASE Policy!ObjectsDone
  <2>1. /\ step = "objects" /\ at > Len(stmt.tokens) /\ step' = "end"
        /\ UNCHANGED <<stmt, main, ctes, expectTable, inTableList, objects>>
    BY <1>9 DEF Policy!ObjectsDone, Policy!Count, Policy!flags
  <2>2. ASSUME OfKnownClass
        PROVE  at = Len(stmt.tokens) + 1 /\ SoFar(stmt.tokens, at, expectTable, inTableList, objects, ctes)
    <3>1. Len(stmt.tokens) \in Nat
      BY <2>1, <2>2, ClassOfWords DEF OfKnownClass
    <3>. QED
      BY <2>1, <2>2, <3>1 DEF ObjectsRead
  <2>. QED
    BY <2>1, <2>2 DEF ObjectsRead, OfKnownClass
<1>10. CASE Policy!EnforceTablePolicy
  BY <1>1, <1>10 DEF Policy!EnforceTablePolicy, Policy!scan
<1>11. CASE UNCHANGED words
  BY <1>1, <1>11 DEF words
<1>12. UNCHANGED words \/ Policy!Analyze \/ Policy!EnforceTablePolicy
  BY DEF AnalyserNext, Policy!Next, vars
<1>. QED
  BY <1>2, <1>3, <1>4, <1>5, <1>6, <1>7, <1>8, <1>9, <1>10, <1>11, <1>12, Zenon DEF Policy!Analyze

-----------------------------------------------------------------------------
(* collectCTENames.                                                        *)

Turn(x) == IF x = "(" THEN 1 ELSE IF x = ")" THEN -1 ELSE 0

LEMMA LevelNext ==
  ASSUME NEW w, NEW k \in Nat
  PROVE  /\ Policy!Level(w, k) \in Int
         /\ Policy!Level(w, k + 1) = Policy!Level(w, k) + Turn(w[k + 1])
         /\ Policy!Outside(w, k) <=> w[k] \notin {"(", ")"} /\ Policy!Level(w, k) = 0
<1>1. Policy!Seen(w, "(", k) \in Nat /\ OneMore(w, "(", k, k + 1)
  BY SeenNext
<1>2. Policy!Seen(w, ")", k) \in Nat /\ OneMore(w, ")", k, k + 1)
  BY SeenNext
<1>. DEFINE o == Policy!Seen(w, "(", k)
            c == Policy!Seen(w, ")", k)
            p == Policy!Seen(w, "(", k + 1)
            d == Policy!Seen(w, ")", k + 1)
<1>3. /\ p = o + (IF w[k + 1] = "(" THEN 1 ELSE 0)
      /\ d = c + (IF w[k + 1] = ")" THEN 1 ELSE 0)
      /\ o \in Nat /\ c \in Nat
  BY <1>1, <1>2, Zenon DEF OneMore
<1>4. /\ Policy!Level(w, k) = o - c /\ Policy!Level(w, k + 1) = p - d
      /\ Policy!Outside(w, k) <=> w[k] \notin {"(", ")"} /\ o = c
  BY Zenon DEF Policy!Level, Policy!Outside
<1>. HIDE DEF o, c, p, d
<1>5. p - d = (o - c) + Turn(w[k + 1]) /\ o - c \in Int /\ (o = c <=> o - c = 0)
  BY <1>3 DEF Turn
<1>. QED
  BY <1>4, <1>5, Zenon

LEMMA LevelHere ==
  ASSUME NEW w, NEW k \in Nat \ {0}
  PROVE  /\ Policy!Level(w, k) \in Int /\ Policy!Level(w, k - 1) \in Int
         /\ Policy!Level(w, k) = Policy!Level(w, k - 1) + Turn(w[k])
<1>1. k - 1 \in Nat /\ k \in Nat /\ (k - 1) + 1 = k
  OBVIOUS
<1>2. Policy!Level(w, k - 1) \in Int /\ Policy!Level(w, (k - 1) + 1) = Policy!Level(w, k - 1) + Turn(w[(k - 1) + 1])
  BY <1>1, LevelNext
<1>3. Policy!Level(w, k) \in Int
  BY <1>1, LevelNext
<1>. QED
  BY <1>1, <1>2, <1>3, Zenon

\* Between a parenthesis and the one that closes it, it is open.
LEMMA Inside ==
  ASSUME NEW w, NEW a \in Nat \ {0}, NEW b \in Nat, a <= b, Policy!Closes(w, a, b)
  PROVE  /\ a < b /\ w[b] = ")" /\ Policy!Level(w, b) = Policy!Level(w, a - 1)
         /\ \A m \in a .. b - 1 : Policy!Level(w, m) > Policy!Level(w, a - 1)
<1>. DEFINE L(m) == Policy!Level(w, m)
<1>1. w[a] = "(" /\ L(b) = L(a - 1) /\ \A m \in a .. b - 1 : L(m) # L(a - 1)
  BY DEF Policy!Closes
<1>2. \A m \in Nat \ {0} : L(m) \in Int /\ L(m - 1) \in Int /\ L(m) = L(m - 1) + Turn(w[m])
  BY LevelHere
<1>. HIDE DEF L
<1>3. L(a) = L(a - 1) + 1 /\ L(a - 1) \in Int
  BY <1>1, <1>2 DEF Turn
<1>4. a < b
  BY <1>1, <1>3
<1>5. ASSUME NEW m \in a .. b - 1, L(m) <= L(a - 1)
      PROVE  FALSE
  <2>. DEFINE S == {n \in a .. b - 1 : L(n) <= L(a - 1)}
  <2>1. S \in SUBSET Nat /\ m \in S
    BY <1>5
  <2>2. PICK n \in S : \A k \in S : n <= k
    BY <2>1, LeastOfSet, Zenon
  <2>3. n \in a .. b - 1 /\ L(n) <= L(a - 1) /\ n # a
    BY <1>3, <2>2
  <2>4. n - 1 \in a .. b - 1 /\ n \in Nat \ {0}
    BY <2>3
  <2>5. ~(L(n - 1) <= L(a - 1))
    BY <2>2, <2>4
  <2>6. L(n) \in Int /\ L(n - 1) \in Int /\ L(n) >= L(n - 1) - 1
    BY <1>2, <2>4 DEF Turn
  <2>7. L(n) = L(a - 1)
    BY <1>3, <2>3, <2>5, <2>6
  <2>. QED
    BY <1>1, <2>3, <2>7
<1>6. \A m \in a .. b - 1 : L(m) \in Int
  BY <1>2
<1>7. \A m \in a .. b - 1 : L(m) > L(a - 1)
  BY <1>3, <1>5, <1>6
<1>8. w[b] = ")"
  <2>1. b \in Nat \ {0} /\ b - 1 \in a .. b - 1
    BY <1>4
  <2>2. L(b) = L(b - 1) + Turn(w[b]) /\ L(b - 1) > L(a - 1) /\ L(b - 1) \in Int
    BY <1>2, <1>7, <2>1
  <2>3. Turn(w[b]) < 0
    <3>1. Turn(w[b]) \in Int
      BY DEF Turn
    <3>. QED
      BY <1>1, <1>3, <2>2, <3>1
  <2>. QED
    BY <2>3 DEF Turn
<1>. QED
  BY <1>1, <1>4, <1>7, <1>8 DEF L

\* What stands in outer parentheses is not outside.
LEMMA Skipped ==
  ASSUME NEW w, NEW a \in Nat \ {0}, NEW b \in Nat, a <= b, Policy!Closes(w, a, b), Policy!Level(w, a - 1) = 0
  PROVE  a < b /\ Policy!Level(w, b) = 0 /\ \A m \in a .. b : ~Policy!Outside(w, m)
<1>1. /\ a < b /\ w[b] = ")" /\ Policy!Level(w, b) = 0
      /\ \A m \in a .. b - 1 : Policy!Level(w, m) > 0
  BY Inside
<1>2. \A m \in Nat : Policy!Outside(w, m) => w[m] # ")" /\ Policy!Level(w, m) = 0
  BY LevelNext
<1>3. \A m \in a .. b : m = b \/ (m \in a .. b - 1 /\ m \in Nat)
  OBVIOUS
<1>4. ASSUME NEW m \in a .. b
      PROVE  ~Policy!Outside(w, m)
  <2>1. CASE m = b
    BY <1>1, <1>2, <2>1
  <2>2. CASE m \in a .. b - 1
    BY <1>1, <1>2, <1>3, <2>2
  <2>. QED
    BY <1>3, <2>1, <2>2
<1>. QED
  BY <1>1, <1>4

\* Of the words  name [ ( columns ) ] as ( query )  only AS stands outside.
LEMMA QueryPassed ==
  ASSUME NEW w, NEW k \in Nat \ {0}, NEW c \in Nat, NEW b \in Nat, k < c, c < b, Policy!Level(w, k) = 0,
         c = k + 1 \/ Policy!Closes(w, k + 1, c - 1), w[c] = "as", Policy!Closes(w, c + 1, b)
  PROVE  /\ Policy!Level(w, b) = 0 /\ c + 1 < b
         /\ \A m \in k + 1 .. b : m = c \/ ~Policy!Outside(w, m)
<1>1. Policy!Level(w, c - 1) = 0 /\ \A m \in k + 1 .. c - 1 : ~Policy!Outside(w, m)
  <2>1. CASE c = k + 1
    <3>1. c - 1 = k /\ k + 1 .. c - 1 = {}
      BY <2>1
    <3>. QED
      BY <3>1
  <2>2. CASE c # k + 1 /\ Policy!Closes(w, k + 1, c - 1)
    <3>1. k + 1 \in Nat \ {0} /\ c - 1 \in Nat /\ k + 1 <= c - 1 /\ (k + 1) - 1 = k
      BY <2>2
    <3>2. Policy!Level(w, (k + 1) - 1) = 0
      BY <3>1, Zenon
    <3>. QED
      BY <2>2, <3>1, <3>2, Skipped
  <2>. QED
    BY <2>1, <2>2
<1>2. Policy!Level(w, (c + 1) - 1) = 0
  <2>1. c \in Nat \ {0} /\ (c + 1) - 1 = c
    OBVIOUS
  <2>2. Policy!Level(w, c) = Policy!Level(w, c - 1) + Turn(w[c])
    BY <2>1, LevelHere
  <2>3. Turn(w[c]) = 0
    BY DEF Turn
  <2>. QED
    BY <1>1, <2>1, <2>2, <2>3
<1>3. c + 1 < b /\ Policy!Level(w, b) = 0 /\ \A m \in c + 1 .. b : ~Policy!Outside(w, m)
  <2>1. c + 1 \in Nat \ {0} /\ c + 1 <= b
    OBVIOUS
  <2>. QED
    BY <1>2, <2>1, Skipped
<1>4. \A m \in k + 1 .. b : m \in k + 1 .. c - 1 \/ m = c \/ m \in c + 1 .. b
  OBVIOUS
<1>. QED
  BY <1>1, <1>3, <1>4, Zenon

\* What is counted from k on is what is seen less what is seen in front of k.
LEMMA SeenFrom ==
  ASSUME NEW w, NEW c, NEW k \in Nat \ {0}, NEW m \in Nat, k <= m
  PROVE  Policy!Cardinality({n \in k .. m : w[n] = c}) = Policy!Seen(w, c, m) - Policy!Seen(w, c, k - 1)
<1>. DEFINE S == {n \in 1 .. k - 1 : w[n] = c}
            T == {n \in k .. m : w[n] = c}
            B == {n \in 1 .. m : w[n] = c}
<1>1. IsFiniteSet(S) /\ IsFiniteSet(T)
  <2>1. IsFiniteSet(1 .. k - 1) /\ IsFiniteSet(k .. m)
    BY FS_Interval
  <2>2. S \subseteq 1 .. k - 1 /\ T \subseteq k .. m
    OBVIOUS
  <2>. QED
    BY <2>1, <2>2, FS_Subset
<1>2. B = S \cup T /\ S \cap T = {}
  OBVIOUS
<1>3. Cardinality(S \cup T) = Cardinality(S) + Cardinality(T) - Cardinality(S \cap T)
  BY <1>1, FS_Union
<1>4. Cardinality(S \cap T) = 0 /\ Cardinality(S) \in Nat /\ Cardinality(T) \in Nat
  BY <1>1, <1>2, FS_EmptySet, FS_CardinalityType
<1>5. Policy!Seen(w, c, m) = Cardinality(B) /\ Policy!Seen(w, c, k - 1) = Cardinality(S)
  BY SeenIs
<1>6. Policy!Cardinality(T) = Cardinality(T)
  BY PolicyCardinality
<1>7. Cardinality(B) = Cardinality(S) + Cardinality(T) - Cardinality(S \cap T)
  BY <1>2, <1>3, Zenon
<1>. HIDE DEF S, T, B
<1>8. Cardinality(T) = Cardinality(B) - Cardinality(S)
  BY <1>4, <1>7
<1>9. Policy!Cardinality(T) = Policy!Seen(w, c, m) - Policy!Seen(w, c, k - 1)
  BY <1>5, <1>6, <1>8, Zenon
<1>. QED
  BY <1>9 DEF T

\* Balanced finds the end of a parenthesis, or the end of the statement.
LEMMA BalancedIs ==
  ASSUME stmt.tokens \in Seq(STRING), NEW k \in 1 .. Len(stmt.tokens), stmt.tokens[k] = "("
  PROVE  /\ Policy!Balanced(k) \in k + 1 .. Len(stmt.tokens) + 1
         /\ Policy!Balanced(k) <= Len(stmt.tokens) => Policy!Closes(stmt.tokens, k, Policy!Balanced(k) - 1)
         /\ \A b \in k .. Len(stmt.tokens) : Policy!Closes(stmt.tokens, k, b) => Policy!Balanced(k) = b + 1
<1>. DEFINE w == stmt.tokens
            L(m) == Policy!Level(w, m)
            opened(m) == Policy!Cardinality({n \in k .. m : Policy!At(n) = "("})
            closed(m) == Policy!Cardinality({n \in k .. m : Policy!At(n) = ")"})
            ends == {m \in k .. Len(w) : opened(m) = closed(m)}
            E == {m \in k .. Len(w) : L(m) = L(k - 1)}
            e == Min(E \cup {Len(w)})
<1>1. Len(w) \in Nat /\ k \in Nat \ {0}
  BY LenProperties
<1>2. ASSUME NEW m \in k .. Len(w)
      PROVE  opened(m) = closed(m) <=> L(m) = L(k - 1)
  <2>1. m \in Nat /\ k <= m /\ k - 1 \in Nat
    BY <1>1
  <2>2. ASSUME NEW c
        PROVE  /\ Policy!Cardinality({n \in k .. m : Policy!At(n) = c}) = Policy!Seen(w, c, m) - Policy!Seen(w, c, k - 1)
               /\ Policy!Seen(w, c, m) \in Nat /\ Policy!Seen(w, c, k - 1) \in Nat
    <3>1. \A n \in k .. m : n <= Len(w)
      BY <1>1
    <3>2. \A n \in k .. m : Policy!At(n) = w[n]
      BY <3>1 DEF Policy!At, Policy!Count
    <3>3. {n \in k .. m : Policy!At(n) = c} = {n \in k .. m : w[n] = c}
      BY <3>2, Zenon
    <3>4. Policy!Cardinality({n \in k .. m : w[n] = c}) = Policy!Seen(w, c, m) - Policy!Seen(w, c, k - 1)
      BY <1>1, <2>1, SeenFrom
    <3>5. Policy!Seen(w, c, m) \in Nat /\ Policy!Seen(w, c, k - 1) \in Nat
      BY <2>1, SeenNext
    <3>. QED
      BY <3>3, <3>4, <3>5, Zenon
  <2>. DEFINE o == Policy!Seen(w, "(", m)
              p == Policy!Seen(w, "(", k - 1)
              c == Policy!Seen(w, ")", m)
              d == Policy!Seen(w, ")", k - 1)
  <2>3. opened(m) = o - p /\ o \in Nat /\ p \in Nat
    BY <2>2, Zenon
  <2>4. closed(m) = c - d /\ c \in Nat /\ d \in Nat
    BY <2>2, Zenon
  <2>5. L(m) = o - c /\ L(k - 1) = p - d
    BY Zenon DEF Policy!Level
  <2>. HIDE DEF opened, closed, L, o, p, c, d
  <2>. QED
    BY <2>3, <2>4, <2>5
<1>3. ends = E
  BY <1>2, Zenon
<1>4. Policy!Balanced(k) = e + 1
  <2>1. Policy!Balanced(k) = Policy!Min(ends \cup {Len(w)}) + 1
    BY Zenon DEF Policy!Balanced, Policy!Count
  <2>2. Policy!Min(E \cup {Len(w)}) = e
    BY PolicyMinMax, Zenon
  <2>. HIDE DEF ends, E, e
  <2>. QED
    BY <1>3, <2>1, <2>2, Zenon
<1>5. e \in E \cup {Len(w)} /\ \A m \in E \cup {Len(w)} : e <= m
  <2>1. E \cup {Len(w)} \in SUBSET Nat /\ E \cup {Len(w)} # {}
    BY <1>1
  <2>. QED
    BY <2>1, MinIsLeast
<1>. HIDE DEF e, w
<1>6. e \in k .. Len(w)
  BY <1>1, <1>5 DEF w
<1>7. w[k] = "("
  BY DEF w
<1>8. ASSUME e + 1 <= Len(w)
      PROVE  Policy!Closes(w, k, e)
  <2>1. L(e) = L(k - 1)
    BY <1>1, <1>5, <1>6, <1>8
  <2>2. \A m \in k .. e - 1 : L(m) # L(k - 1)
    BY <1>1, <1>5, <1>6
  <2>. QED
    BY <1>7, <2>1, <2>2 DEF Policy!Closes
<1>9. ASSUME NEW b \in k .. Len(w), Policy!Closes(w, k, b)
      PROVE  e = b
  <2>1. L(b) = L(k - 1) /\ \A m \in k .. b - 1 : L(m) # L(k - 1)
    BY <1>9 DEF Policy!Closes
  <2>2. e <= b
    BY <1>5, <2>1
  <2>3. e \notin k .. b - 1
    BY <1>1, <1>5, <2>1
  <2>. QED
    BY <1>1, <1>6, <2>2, <2>3
<1>10. e + 1 \in k + 1 .. Len(w) + 1 /\ (e + 1) - 1 = e
  BY <1>1, <1>6
<1>11. Policy!Balanced(k) - 1 = e
  BY <1>4, <1>10
<1>. QED
  BY <1>4, <1>8, <1>9, <1>10, <1>11, Zenon DEF w

\* The loop stands at a name of the WITH, k, and has collected those before it.
FirstSpot(w) == IF w[2] = "recursive" THEN 3 ELSE 2
SpotReached(w, k, names) ==
  /\ w[1] = "with" /\ k \in 2 .. Len(w) + 1
  /\ Policy!Level(w, k - 1) = 0
  /\ k = FirstSpot(w) \/ (w[k - 1] = "," /\ Policy!Outside(w, k - 1))
  /\ \A m \in 2 .. k - 1 : ~Policy!VerbAt(w, m)
  /\ names \subseteq Policy!WithNames(w)
  /\ Policy!PlainWith(w) => \A n \in Policy!NameSpots(w) : n < k => w[n] \in names

NamesRead ==
  /\ step = "main" => ctes = {}
  /\ OfKnownClass /\ step = "names" => SpotReached(stmt.tokens, at, ctes)
  /\ OfKnownClass /\ step \in {"objects", "end"} =>
       /\ ctes \subseteq Policy!WithNames(stmt.tokens)
       /\ Policy!PlainWith(stmt.tokens) => Policy!WithNames(stmt.tokens) \subseteq ctes

\* The comma has a name here: the SMT solver is not given the text of it.
IsComma(x) == x = ","

\* No name of the WITH stands behind a name and words without a comma outside.
LEMMA NoSpotWithin ==
  ASSUME NEW w, Len(w) \in Nat, NEW k \in Nat, NEW names, SpotReached(w, k, names), Policy!IsName(w[k]), NEW e \in Nat,
         \A m \in k + 1 .. e : w[m] = "as" \/ ~Policy!Outside(w, m),
         NEW n \in Policy!NameSpots(w), k < n
  PROVE  n - 1 > e /\ n \in Nat /\ n <= Len(w)
<1>0. /\ w[1] = "with" /\ k \in 2 .. Len(w) + 1 /\ (k = FirstSpot(w) \/ IsComma(w[k - 1]))
  BY Zenon DEF SpotReached, IsComma
<1>1. k >= FirstSpot(w)
  <2>1. ~IsComma(w[1])
    BY <1>0, Zenon DEF IsComma
  <2>2. k \in Nat /\ FirstSpot(w) \in {2, 3}
    BY DEF FirstSpot
  <2>3. k - 1 = 1 => k = FirstSpot(w)
    BY <1>0, <2>1, Zenon
  <2>. QED
    BY <1>0, <2>2, <2>3
<1>2. n \in 2 .. Len(w) /\ n # FirstSpot(w)
  <2>1. FirstSpot(w) \in {2, 3}
    BY DEF FirstSpot
  <2>. QED
    BY <1>1, <2>1 DEF Policy!NameSpots
<1>3. IsComma(w[n - 1]) /\ Policy!Outside(w, n - 1)
  <2>1. Policy!NameSpot(w, n)
    BY Zenon DEF Policy!NameSpots
  <2>. QED
    BY <1>2, <2>1, Zenon DEF Policy!NameSpot, FirstSpot, IsComma
<1>4. ~IsComma(w[k]) /\ ~IsComma("as")
  <2>1. w[k] # ","
    BY KindsOfWords, Zenon
  <2>. QED
    BY <2>1 DEF IsComma
<1>5. n - 1 # k /\ n - 1 \notin k + 1 .. e
  BY <1>3, <1>4, Zenon
<1>. QED
  BY <1>2, <1>5

\* One name further: behind the comma at e.
LEMMA SpotNext ==
  ASSUME NEW w, Len(w) \in Nat, NEW k \in Nat, k \in Policy!NameSpots(w), NEW names, SpotReached(w, k, names),
         Policy!IsName(w[k]), ~Policy!VerbAt(w, k), NEW e \in Nat, k < e, e <= Len(w), IsComma(w[e]),
         Policy!Level(w, e - 1) = 0, \A m \in k + 1 .. e - 1 : w[m] = "as" \/ ~Policy!Outside(w, m)
  PROVE  SpotReached(w, e + 1, names \cup {w[k]})
<1>0. k \in 2 .. Len(w) /\ Len(w) \in Nat
  BY DEF Policy!NameSpots
<1>1. Policy!Level(w, e) = 0 /\ Policy!Outside(w, e)
  <2>1. e \in Nat \ {0} /\ e \in Nat
    BY <1>0
  <2>2. Policy!Level(w, e) = Policy!Level(w, e - 1) + Turn(w[e])
    BY <2>1, LevelHere
  <2>3. Turn(w[e]) = 0
    BY DEF Turn, IsComma
  <2>4. Policy!Outside(w, e) <=> w[e] \notin {"(", ")"} /\ Policy!Level(w, e) = 0
    BY <2>1, LevelNext
  <2>. QED
    <3>1. w[e] \notin {"(", ")"}
      BY DEF IsComma
    <3>. QED
      BY <2>2, <2>3, <2>4, <3>1
<1>2. ASSUME NEW m \in 2 .. e
      PROVE  ~Policy!VerbAt(w, m)
  <2>1. m \in 2 .. k - 1 \/ m = k \/ m \in k + 1 .. e - 1 \/ m = e
    BY <1>0
  <2>2. "as" \notin Policy!Verbs \cup {"with"} /\ "," \notin Policy!Verbs \cup {"with"}
    BY DEF Policy!Verbs, Policy!Reading, Policy!Writing, Policy!Defining, Policy!Administering
  <2>3. CASE m \in 2 .. k - 1
    BY <2>3 DEF SpotReached
  <2>4. CASE m \in k + 1 .. e - 1
    BY <2>2, <2>4, Zenon DEF Policy!VerbAt
  <2>5. CASE m = e
    BY <2>2, <2>5, Zenon DEF Policy!VerbAt, IsComma
  <2>. QED
    BY <2>1, <2>3, <2>4, <2>5, Zenon
<1>3. names \cup {w[k]} \subseteq Policy!WithNames(w)
  <2>1. w[k] \in Policy!WithNames(w)
    BY Zenon DEF Policy!WithNames
  <2>. QED
    BY <2>1 DEF SpotReached
<1>4. ASSUME Policy!PlainWith(w), NEW n \in Policy!NameSpots(w), n < e + 1
      PROVE  w[n] \in names \cup {w[k]}
  <2>1. CASE n < k
    BY <1>4, <2>1, Zenon DEF SpotReached
  <2>2. CASE n = k
    BY <2>2
  <2>3. CASE n > k
    <3>1. k < n /\ e - 1 \in Nat
      BY <1>0, <1>4, <2>3
    <3>2. n - 1 > e - 1 /\ n \in Nat
      BY <1>0, <3>1, NoSpotWithin
    <3>3. n = e
      BY <1>4, <3>2
    <3>4. n - 1 \in k .. e - 1
      BY <1>0, <1>4, <2>3, <3>2
    <3>. QED
      BY <1>4, <3>2
  <2>. QED
    BY <1>0, <2>1, <2>2, <2>3 DEF Policy!NameSpots
<1>5. w[1] = "with" /\ w[e] = ","
  BY Zenon DEF SpotReached, IsComma
<1>6. e + 1 \in 2 .. Len(w) + 1 /\ (e + 1) - 1 = e
  BY <1>0
<1>. QED
  BY <1>1, <1>2, <1>3, <1>4, <1>5, <1>6, Zenon DEF SpotReached

\* The loop skips the columns and the query of a name as they are written.
LEMMA BodyIs ==
  ASSUME stmt.tokens \in Seq(STRING), at \in 1 .. Len(stmt.tokens), Policy!HasBody
  PROVE  LET w == stmt.tokens
             c == Policy!AfterColumns
             e == Policy!AfterBody
         IN  /\ c \in Nat /\ at < c /\ c < Len(w)
             /\ c = at + 1 \/ Policy!Closes(w, at + 1, c - 1)
             /\ w[c] = "as" /\ w[c + 1] = "("
             /\ e \in c + 2 .. Len(w) + 1
             /\ e <= Len(w) => Policy!Closes(w, c + 1, e - 1)
<1>. DEFINE w == stmt.tokens
            c == Policy!AfterColumns
            e == Policy!AfterBody
<1>1. Len(w) \in Nat /\ at \in Nat \ {0}
  BY LenProperties
<1>2. \A k \in Nat : Policy!At(k) # "none" => k <= Len(w) /\ Policy!At(k) = w[k]
  BY DEF Policy!At, Policy!Count
<1>3. Policy!At(c) = "as" /\ Policy!At(c + 1) = "("
  BY Zenon DEF Policy!HasBody
<1>4. c \in Nat /\ at < c /\ (c = at + 1 \/ (c <= Len(w) => Policy!Closes(w, at + 1, c - 1)))
  <2>1. CASE Policy!At(at + 1) = "("
    <3>1. at + 1 \in 1 .. Len(w) /\ w[at + 1] = "("
      BY <1>1, <1>2, <2>1
    <3>2. c = Policy!Balanced(at + 1)
      BY <2>1, Zenon DEF Policy!AfterColumns
    <3>3. c \in (at + 1) + 1 .. Len(w) + 1 /\ (c <= Len(w) => Policy!Closes(w, at + 1, c - 1))
      BY <3>1, <3>2, BalancedIs
    <3>. HIDE DEF w, c
    <3>. QED
      BY <1>1, <3>3
  <2>2. CASE Policy!At(at + 1) # "("
    <3>1. c = at + 1
      BY <2>2, Zenon DEF Policy!AfterColumns
    <3>. QED
      BY <1>1, <3>1
  <2>. QED
    BY <2>1, <2>2
<1>5. c <= Len(w) /\ c + 1 <= Len(w) /\ w[c] = "as" /\ w[c + 1] = "("
  <2>1. c + 1 \in Nat
    BY <1>4
  <2>. HIDE DEF c
  <2>. QED
    BY <1>2, <1>3, <1>4, <2>1
<1>6. e \in (c + 1) + 1 .. Len(w) + 1 /\ (e <= Len(w) => Policy!Closes(w, c + 1, e - 1))
  <2>1. c + 1 \in 1 .. Len(w)
    BY <1>1, <1>4, <1>5
  <2>2. e = Policy!Balanced(c + 1)
    BY Zenon DEF Policy!AfterBody
  <2>. HIDE DEF c, e
  <2>. QED
    BY <1>5, <2>1, <2>2, BalancedIs
<1>. HIDE DEF w, c, e
<1>7. c < Len(w) /\ (c + 1) + 1 = c + 2
  BY <1>1, <1>4, <1>5
<1>. QED
  BY <1>4, <1>5, <1>6, <1>7, Zenon DEF w, c, e

\* A query that is written plainly is skipped to its end.
LEMMA PlainBody ==
  ASSUME stmt.tokens \in Seq(STRING), at \in 1 .. Len(stmt.tokens), NEW e \in at + 1 .. Len(stmt.tokens),
         Policy!NamesQuery(stmt.tokens, at, e)
  PROVE  Policy!HasBody /\ Policy!AfterBody = e + 1
<1>. DEFINE w == stmt.tokens
<1>1. PICK a \in at + 1 .. e - 1 :
        /\ a = at + 1 \/ Policy!Closes(w, at + 1, a - 1)
        /\ w[a] = "as" /\ Policy!Closes(w, a + 1, e)
  BY DEF Policy!NamesQuery
<1>2. Len(w) \in Nat /\ at \in Nat \ {0} /\ a \in Nat \ {0} /\ at + 1 \in 1 .. Len(w) /\ a + 1 \in 1 .. Len(w)
      /\ a \in 1 .. Len(w)
  BY LenProperties
<1>3. \A k \in 1 .. Len(w) : Policy!At(k) = w[k]
  BY DEF Policy!At, Policy!Count
<1>4. w[a + 1] = "(" /\ e \in a + 1 .. Len(w)
  BY <1>1, <1>2 DEF Policy!Closes
<1>5. Policy!AfterColumns = a
  <2>1. CASE a = at + 1
    <3>1. Policy!At(at + 1) = "as"
      BY <1>1, <1>2, <1>3, <2>1
    <3>2. "as" # "("
      OBVIOUS
    <3>. QED
      BY <2>1, <3>1, <3>2, Zenon DEF Policy!AfterColumns
  <2>2. CASE a # at + 1 /\ Policy!Closes(w, at + 1, a - 1)
    <3>1. a - 1 \in at + 1 .. Len(w) /\ (a - 1) + 1 = a
      BY <1>2, <2>2
    <3>2. w[at + 1] = "("
      BY <2>2 DEF Policy!Closes
    <3>3. Policy!Balanced(at + 1) = (a - 1) + 1
      BY <1>2, <2>2, <3>1, <3>2, BalancedIs
    <3>4. Policy!At(at + 1) = "("
      BY <1>2, <1>3, <3>2
    <3>. QED
      BY <3>1, <3>3, <3>4, Zenon DEF Policy!AfterColumns
  <2>. QED
    BY <1>1, <2>1, <2>2
<1>6. Policy!HasBody
  BY <1>1, <1>2, <1>3, <1>4, <1>5, Zenon DEF Policy!HasBody
<1>7. Policy!Balanced(a + 1) = e + 1
  BY <1>1, <1>2, <1>4, BalancedIs
<1>. QED
  BY <1>5, <1>6, <1>7, Zenon DEF Policy!AfterBody

\* The verb of a known class stands behind the names, or where the loop stands.
LEMMA VerbBehind ==
  ASSUME NEW w, Len(w) \in Nat, w[1] = "with", Policy!MainVerb(w) \in Policy!Verbs,
         NEW k \in Nat, 2 <= k, \A m \in 2 .. k - 1 : ~Policy!VerbAt(w, m)
  PROVE  /\ k <= Len(w)
         /\ Policy!VerbAt(w, k) => w[k] \in Policy!Verbs
<1>. DEFINE K == {m \in 2 .. Len(w) : Policy!VerbAt(w, m)}
<1>1. Policy!MainVerb(w) = IF K = {} THEN "none" ELSE w[Policy!Min(K)]
  BY Zenon DEF Policy!MainVerb
<1>2. "none" \notin Policy!Verbs
  BY DEF Policy!Verbs, Policy!Reading, Policy!Writing, Policy!Defining, Policy!Administering
<1>3. K # {} /\ w[Policy!Min(K)] \in Policy!Verbs
  BY <1>1, <1>2, Zenon
<1>4. Policy!Min(K) = Min(K)
  BY PolicyMinMax
<1>5. K \in SUBSET Nat
  OBVIOUS
<1>6. Min(K) \in K /\ \A m \in K : Min(K) <= m
  BY <1>3, <1>5, MinIsLeast
<1>7. Min(K) \in 2 .. Len(w) /\ Policy!VerbAt(w, Min(K))
  BY <1>6
<1>. DEFINE n == Min(K)
<1>. HIDE DEF n
<1>8. n \in 2 .. Len(w) /\ Policy!VerbAt(w, n) /\ w[n] \in Policy!Verbs /\ \A m \in K : n <= m
  BY <1>3, <1>4, <1>6, <1>7, Zenon DEF n
<1>9. k <= n
  BY <1>8
<1>10. Policy!VerbAt(w, k) /\ k \in 2 .. Len(w) => k = n
  BY <1>8, <1>9
<1>. QED
  BY <1>8, <1>9, <1>10

\* What stands where the loop stands.
LEMMA SpotIs ==
  ASSUME VerbFound, NamesRead, OfKnownClass, step = "names"
  PROVE  LET w == stmt.tokens
         IN  /\ w \in Seq(STRING) /\ at \in 1 .. Len(w) /\ SpotReached(w, at, ctes)
             /\ w[at] \in Policy!Verbs => Policy!VerbAt(w, at)
             /\ w[at] \notin Policy!Verbs =>
                  /\ at \in Policy!NameSpots(w) /\ ~Policy!VerbAt(w, at)
                  /\ Policy!IsName(w[at]) /\ Policy!Level(w, at) = 0
<1>. DEFINE w == stmt.tokens
<1>1. stmt \in Statements /\ w \in Seq(STRING) /\ Len(w) \in Nat /\ Policy!MainVerb(w) \in Policy!Verbs
  BY ClassOfWords DEF OfKnownClass
<1>2. SpotReached(w, at, ctes)
  BY Zenon DEF NamesRead
<1>3. \A k \in Policy!NameSpots(w) : Policy!IsName(w[k])
  BY <1>1, Reader DEF Reader
<1>. HIDE DEF w
<1>4. /\ w[1] = "with" /\ at \in 2 .. Len(w) + 1 /\ Policy!Level(w, at - 1) = 0
      /\ \A m \in 2 .. at - 1 : ~Policy!VerbAt(w, m)
  BY <1>2, Zenon DEF SpotReached
<1>5. at \in Nat \ {0} /\ at \in Nat /\ 2 <= at
  BY <1>1, <1>4
<1>6. at <= Len(w) /\ (Policy!VerbAt(w, at) => w[at] \in Policy!Verbs)
  BY <1>1, <1>4, <1>5, VerbBehind
<1>7. at \in 2 .. Len(w) /\ at \in 1 .. Len(w)
  BY <1>1, <1>5, <1>6
<1>8. w[at] \notin {"(", ")"} => Policy!Level(w, at) = 0 /\ Policy!Outside(w, at)
  <2>1. Policy!Level(w, at) = Policy!Level(w, at - 1) + Turn(w[at])
    BY <1>5, LevelHere
  <2>2. Policy!Outside(w, at) <=> w[at] \notin {"(", ")"} /\ Policy!Level(w, at) = 0
    BY <1>5, LevelNext
  <2>. QED
    BY <1>4, <2>1, <2>2 DEF Turn
<1>9. ASSUME w[at] \in Policy!Verbs
      PROVE  Policy!VerbAt(w, at)
  <2>1. w[at] \notin {"(", ")"}
    BY <1>9 DEF Policy!Verbs, Policy!Reading, Policy!Writing, Policy!Defining, Policy!Administering
  <2>. QED
    BY <1>8, <1>9, <2>1, Zenon DEF Policy!VerbAt
<1>10. ASSUME w[at] \notin Policy!Verbs
       PROVE  /\ at \in Policy!NameSpots(w) /\ ~Policy!VerbAt(w, at)
              /\ Policy!IsName(w[at]) /\ Policy!Level(w, at) = 0
  <2>1. ~Policy!VerbAt(w, at)
    BY <1>6, <1>10, Zenon
  <2>2. \A m \in 2 .. at : m \in 2 .. at - 1 \/ m = at
    BY <1>5
  <2>3. \A m \in 2 .. at : ~Policy!VerbAt(w, m)
    BY <1>4, <2>1, <2>2, Zenon
  <2>4. at = FirstSpot(w) \/ (w[at - 1] = "," /\ Policy!Outside(w, at - 1))
    BY <1>2, Zenon DEF SpotReached
  <2>5. Policy!NameSpot(w, at)
    BY <1>4, <2>3, <2>4, Zenon DEF Policy!NameSpot, FirstSpot
  <2>6. at \in Policy!NameSpots(w)
    BY <1>7, <2>5, Zenon DEF Policy!NameSpots
  <2>7. Policy!IsName(w[at])
    BY <1>3, <2>6, Zenon DEF w
  <2>8. w[at] \notin {"(", ")"}
    BY <2>7, KindsOfWords, Zenon
  <2>. QED
    BY <1>8, <2>1, <2>6, <2>7, <2>8, Zenon
<1>. QED
  BY <1>1, <1>2, <1>7, <1>9, <1>10, Zenon DEF w

LEMMA NameCollected ==
  ASSUME VerbFound, NamesRead, Policy!CollectName
  PROVE  NamesRead'
<1>. DEFINE w == stmt.tokens
            e == Policy!AfterBody
            goes == Policy!HasBody /\ IsComma(Policy!At(e))
<1>1. /\ step = "names" /\ Policy!Token \notin Policy!Verbs
      /\ ctes' = ctes \cup {Policy!Token}
      /\ IF goes THEN at' = e + 1 /\ step' = step ELSE step' = "objects" /\ at' = 1
      /\ UNCHANGED <<stmt, main>>
  BY Zenon DEF Policy!CollectName, Policy!In, Policy!WithName, Policy!ToObjects, IsComma
<1>2. w' = w /\ (OfKnownClass' <=> OfKnownClass) /\ step' \in {"names", "objects"}
  BY <1>1 DEF OfKnownClass
<1>3. ASSUME OfKnownClass
      PROVE  /\ w \in Seq(STRING) /\ Len(w) \in Nat /\ at \in 1 .. Len(w) /\ at \in Nat \ {0}
             /\ SpotReached(w, at, ctes) /\ ctes' = ctes \cup {w[at]}
             /\ at \in Policy!NameSpots(w) /\ ~Policy!VerbAt(w, at)
             /\ Policy!IsName(w[at]) /\ Policy!Level(w, at) = 0
  <2>1. /\ w \in Seq(STRING) /\ at \in 1 .. Len(w) /\ SpotReached(w, at, ctes)
        /\ w[at] \notin Policy!Verbs =>
             /\ at \in Policy!NameSpots(w) /\ ~Policy!VerbAt(w, at)
             /\ Policy!IsName(w[at]) /\ Policy!Level(w, at) = 0
    BY <1>1, <1>3, SpotIs
  <2>2. Len(w) \in Nat /\ at \in Nat \ {0} /\ at <= Len(w)
    BY <2>1, LenProperties
  <2>3. Policy!Token = w[at]
    BY <2>2 DEF Policy!Token, Policy!At, Policy!Count
  <2>. QED
    BY <1>1, <2>1, <2>2, <2>3, Zenon
<1>4. ASSUME OfKnownClass, goes
      PROVE  SpotReached(w, e + 1, ctes \cup {w[at]})
  <2>. DEFINE c == Policy!AfterColumns
  <2>1. /\ c \in Nat /\ at < c /\ c < Len(w)
        /\ c = at + 1 \/ Policy!Closes(w, at + 1, c - 1)
        /\ w[c] = "as" /\ w[c + 1] = "("
        /\ e \in c + 2 .. Len(w) + 1
        /\ e <= Len(w) => Policy!Closes(w, c + 1, e - 1)
    BY <1>3, <1>4, BodyIs
  <2>2. e <= Len(w) /\ IsComma(w[e])
    <3>1. ~IsComma("none")
      BY Zenon DEF IsComma
    <3>. QED
      BY <1>4, <3>1, Zenon DEF Policy!At, Policy!Count
  <2>. HIDE DEF c, e, w, goes
  <2>3. e \in Nat /\ e - 1 \in Nat /\ c < e - 1 /\ at < e
    BY <1>3, <1>4, <2>1, <2>2
  <2>4. Policy!Level(w, e - 1) = 0 /\ \A m \in at + 1 .. e - 1 : m = c \/ ~Policy!Outside(w, m)
    BY <1>3, <1>4, <2>1, <2>2, <2>3, QueryPassed
  <2>5. \A m \in at + 1 .. e - 1 : w[m] = "as" \/ ~Policy!Outside(w, m)
    BY <2>1, <2>4, Zenon
  <2>. QED
    BY <1>3, <1>4, <2>2, <2>3, <2>4, <2>5, SpotNext
<1>5. ASSUME OfKnownClass, ~goes
      PROVE  /\ ctes \cup {w[at]} \subseteq Policy!WithNames(w)
             /\ Policy!PlainWith(w) => Policy!WithNames(w) \subseteq ctes \cup {w[at]}
  <2>1. ctes \cup {w[at]} \subseteq Policy!WithNames(w)
    <3>1. w[at] \in Policy!WithNames(w)
      BY <1>3, <1>5, Zenon DEF Policy!WithNames
    <3>2. ctes \subseteq Policy!WithNames(w)
      BY <1>3, <1>5, Zenon DEF SpotReached
    <3>. QED
      BY <3>1, <3>2
  <2>2. ASSUME Policy!PlainWith(w), NEW n \in Policy!NameSpots(w)
        PROVE  w[n] \in ctes \cup {w[at]}
    <3>1. n \in 2 .. Len(w) /\ n \in Nat
      BY <1>3, <1>5 DEF Policy!NameSpots
    <3>2. CASE n < at
      BY <1>3, <1>5, <2>2, <3>2, Zenon DEF SpotReached
    <3>3. CASE n = at
      BY <3>3
    <3>4. CASE at < n
      <4>1. PICK b \in at + 1 .. Len(w) :
              Policy!NamesQuery(w, at, b) /\ \A m \in Policy!NameSpots(w) : m > b => IsComma(w[b + 1])
        BY <1>3, <1>5, <2>2, Zenon DEF Policy!PlainWith, IsComma
      <4>2. Policy!HasBody /\ e = b + 1
        BY <1>3, <1>5, <4>1, PlainBody
      <4>3. PICK a \in at + 1 .. b - 1 :
              /\ a = at + 1 \/ Policy!Closes(w, at + 1, a - 1)
              /\ w[a] = "as" /\ Policy!Closes(w, a + 1, b)
        BY <4>1, Zenon DEF Policy!NamesQuery
      <4>. HIDE DEF w, e, goes
      <4>4. a \in Nat /\ b \in Nat /\ at < a /\ a < b
        BY <1>3, <1>5
      <4>5. \A m \in at + 1 .. b : m = a \/ ~Policy!Outside(w, m)
        BY <1>3, <1>5, <4>3, <4>4, QueryPassed
      <4>6. \A m \in at + 1 .. b : w[m] = "as" \/ ~Policy!Outside(w, m)
        BY <4>3, <4>5, Zenon
      <4>7. n - 1 > b
        BY <1>3, <1>5, <3>4, <4>4, <4>6, NoSpotWithin
      <4>8. n > b /\ b + 1 <= Len(w)
        BY <1>3, <1>5, <3>1, <4>4, <4>7
      <4>9. IsComma(Policy!At(e))
        BY <4>1, <4>2, <4>8, Zenon DEF Policy!At, Policy!Count, w
      <4>. QED
        BY <1>5, <4>2, <4>9, Zenon DEF goes
    <3>. QED
      BY <1>3, <1>5, <3>1, <3>2, <3>3, <3>4
  <2>. QED
    BY <2>1, <2>2, Zenon DEF Policy!WithNames
<1>. HIDE DEF w, e, goes
<1>6. CASE goes
  <2>1. step' = "names" /\ at' = e + 1
    BY <1>1, <1>6
  <2>2. ASSUME OfKnownClass
        PROVE  SpotReached(w', at', ctes')
    BY <1>2, <1>3, <1>4, <1>6, <2>1, <2>2, Zenon
  <2>. QED
    BY <1>2, <2>1, <2>2 DEF NamesRead, w
<1>7. CASE ~goes
  <2>1. step' = "objects"
    BY <1>1, <1>7
  <2>2. ASSUME OfKnownClass
        PROVE  /\ ctes' \subseteq Policy!WithNames(w')
               /\ Policy!PlainWith(w') => Policy!WithNames(w') \subseteq ctes'
    BY <1>2, <1>3, <1>5, <1>7, <2>2
  <2>. QED
    BY <1>2, <2>1, <2>2 DEF NamesRead, w
<1>. QED
  BY <1>6, <1>7

LEMMA NamesAreAll ==
  ASSUME VerbFound, NamesRead, Policy!NoMoreNames
  PROVE  NamesRead'
<1>. DEFINE w == stmt.tokens
<1>1. /\ step = "names" /\ step' = "objects"
      /\ at > Len(w) \/ Policy!Token \in Policy!Verbs
      /\ UNCHANGED <<stmt, main, ctes>>
  BY Zenon DEF Policy!NoMoreNames, Policy!ToObjects, Policy!Count
<1>2. w' = w /\ (OfKnownClass' <=> OfKnownClass)
  BY <1>1 DEF OfKnownClass
<1>3. ASSUME OfKnownClass
      PROVE  /\ ctes \subseteq Policy!WithNames(w)
             /\ Policy!PlainWith(w) => Policy!WithNames(w) \subseteq ctes
  <2>1. /\ w \in Seq(STRING) /\ at \in 1 .. Len(w) /\ SpotReached(w, at, ctes)
        /\ w[at] \in Policy!Verbs => Policy!VerbAt(w, at)
    BY <1>1, <1>3, SpotIs
  <2>2. Len(w) \in Nat /\ at \in Nat \ {0} /\ at <= Len(w)
    BY <2>1, LenProperties
  <2>3. Policy!Token = w[at]
    BY <2>2 DEF Policy!Token, Policy!At, Policy!Count
  <2>4. Policy!VerbAt(w, at)
    BY <1>1, <2>1, <2>2, <2>3
  <2>5. at \in 2 .. Len(w) + 1
    BY <2>1, Zenon DEF SpotReached
  <2>6. ASSUME NEW n \in Policy!NameSpots(w)
        PROVE  n < at
    <3>1. n \in 2 .. Len(w) /\ \A m \in 2 .. n : ~Policy!VerbAt(w, m)
      BY Zenon DEF Policy!NameSpots, Policy!NameSpot
    <3>2. at \notin 2 .. n
      BY <2>4, <3>1, Zenon
    <3>. QED
      BY <2>2, <2>5, <3>1, <3>2
  <2>7. Policy!PlainWith(w) => \A n \in Policy!NameSpots(w) : w[n] \in ctes
    BY <2>1, <2>6, Zenon DEF SpotReached
  <2>. QED
    BY <2>1, <2>7, Zenon DEF SpotReached, Policy!WithNames
<1>. QED
  BY <1>1, <1>2, <1>3 DEF NamesRead

\* The first name of a WITH stands behind it, or behind RECURSIVE.
LEMMA FirstName ==
  ASSUME VerbFound, NamesRead, Policy!FindVerb
  PROVE  NamesRead'
<1>. DEFINE w == stmt.tokens
<1>1. /\ step = "main" /\ at <= Len(w) /\ step' = "names" /\ stmt' = stmt /\ ctes' = ctes
      /\ at' = IF Policy!At(2) = "recursive" THEN 3 ELSE 2
  BY DEF Policy!FindVerb, Policy!In, Policy!Count
<1>2. /\ stmt \in Statements /\ w[1] = "with" /\ at \in 2 .. Len(w) + 1 /\ ctes = {}
  BY <1>1 DEF VerbFound, VerbSought, NamesRead
<1>3. w \in Seq(STRING)
  BY <1>2, Written DEF Written
<1>4. Len(w) \in Nat /\ 2 <= Len(w)
  <2>1. Len(w) \in Nat
    BY <1>3, LenProperties
  <2>. QED
    BY <1>1, <1>2, <2>1
<1>5. at' = FirstSpot(w) /\ FirstSpot(w) \in 2 .. Len(w) + 1
  <2>1. Policy!At(2) = w[2]
    BY <1>4 DEF Policy!At, Policy!Count
  <2>. QED
    BY <1>1, <1>4, <2>1 DEF FirstSpot
<1>. HIDE DEF w
<1>6. Policy!Level(w, 1) = 0 /\ (w[2] = "recursive" => Policy!Level(w, 2) = 0)
  <2>1. Policy!Level(w, 0) = 0
    <3>1. \A c : {n \in 1 .. 0 : w[n] = c} = {}
      OBVIOUS
    <3>2. Policy!Seen(w, "(", 0) = 0 /\ Policy!Seen(w, ")", 0) = 0
      BY <3>1, FS_EmptySet, SeenIs, Zenon
    <3>. QED
      BY <3>2 DEF Policy!Level
  <2>2. 0 + 1 = 1 /\ 1 + 1 = 2
    OBVIOUS
  <2>3. Policy!Level(w, 0 + 1) = Policy!Level(w, 0) + Turn(w[0 + 1])
    BY LevelNext
  <2>4. Policy!Level(w, 1 + 1) = Policy!Level(w, 1) + Turn(w[1 + 1])
    BY LevelNext
  <2>5. Turn(w[1]) = 0 /\ (w[2] = "recursive" => Turn(w[2]) = 0)
    BY <1>2 DEF Turn
  <2>. QED
    BY <2>1, <2>2, <2>3, <2>4, <2>5
<1>7. Policy!Level(w, FirstSpot(w) - 1) = 0 /\ \A m \in 2 .. FirstSpot(w) - 1 : ~Policy!VerbAt(w, m)
  <2>1. CASE w[2] = "recursive"
    <3>1. FirstSpot(w) - 1 = 2 /\ \A m \in 2 .. 2 : m = 2
      BY <2>1 DEF FirstSpot
    <3>2. ~Policy!VerbAt(w, 2)
      BY <2>1 DEF Policy!VerbAt, Policy!Verbs, Policy!Reading, Policy!Writing, Policy!Defining, Policy!Administering
    <3>. QED
      BY <1>6, <2>1, <3>1, <3>2
  <2>2. CASE w[2] # "recursive"
    <3>1. FirstSpot(w) - 1 = 1 /\ 2 .. 1 = {}
      BY <2>2 DEF FirstSpot
    <3>. QED
      BY <1>6, <3>1
  <2>. QED
    BY <2>1, <2>2
<1>8. ASSUME NEW n \in Policy!NameSpots(w), n < FirstSpot(w)
      PROVE  FALSE
  <2>1. n \in 2 .. Len(w) /\ Policy!NameSpot(w, n)
    BY Zenon DEF Policy!NameSpots
  <2>2. n - 1 = 1 /\ n # FirstSpot(w)
    BY <1>8, <2>1 DEF FirstSpot
  <2>3. IsComma(w[1])
    BY <2>1, <2>2, Zenon DEF Policy!NameSpot, FirstSpot, IsComma
  <2>4. w[1] # ","
    BY <1>2
  <2>. QED
    BY <2>3, <2>4, Zenon DEF IsComma
<1>9. {} \subseteq Policy!WithNames(w)
  OBVIOUS
<1>10. SpotReached(w, FirstSpot(w), {})
  BY <1>2, <1>5, <1>7, <1>8, <1>9, Zenon DEF SpotReached
<1>11. w' = w
  BY <1>1 DEF w
<1>12. SpotReached(w', at', ctes')
  BY <1>1, <1>2, <1>5, <1>10, <1>11, Zenon
<1>. QED
  BY <1>1, <1>12 DEF NamesRead, w

LEMMA InitNames == AnalyserInit => NamesRead
<1>1. ASSUME Policy!Starts(Idle)
      PROVE  NamesRead
  <2>1. main = "none" /\ step = "objects"
    BY <1>1 DEF Policy!Starts, Idle
  <2>2. "none" \notin Policy!Verbs
    BY DEF Policy!Verbs, Policy!Reading, Policy!Writing, Policy!Defining, Policy!Administering
  <2>. QED
    BY <2>1, <2>2 DEF NamesRead, OfKnownClass
<1>2. ASSUME NEW s \in Statements, Policy!Starts(s)
      PROVE  NamesRead
  <2>1. /\ stmt = s /\ ctes = {}
        /\ step = "main" \/ (step = "objects" /\ s.tokens[1] # "with")
    BY <1>2 DEF Policy!Starts
  <2>2. s.tokens[1] # "with" => Policy!WithNames(s.tokens) = {}
    BY DEF Policy!WithNames, Policy!NameSpots, Policy!NameSpot
  <2>. QED
    BY <2>1, <2>2 DEF NamesRead
<1>. QED
  BY <1>1, <1>2 DEF AnalyserInit, PolicyRests, Policy!Init, Idle

LEMMA NextNames ==
  ASSUME VerbFound, NamesRead, [AnalyserNext]_<<vars, words>>
  PROVE  NamesRead'
<1>1. CASE UNCHANGED <<stmt, step, at, main, ctes>>
  BY <1>1 DEF NamesRead, OfKnownClass
<1>2. CASE Policy!Open \/ Policy!Close \/ Policy!SkipWord
  <2>1. step = "main" /\ step' = step /\ ctes' = ctes
    BY <1>2 DEF Policy!Open, Policy!Close, Policy!SkipWord, Policy!Nested, Policy!In
  <2>. QED
    BY <2>1 DEF NamesRead
<1>3. CASE Policy!FindVerb
  BY <1>3, FirstName
<1>4. CASE Policy!NoVerb
  <2>1. step = "main" /\ step' = "end" /\ main' = main
    BY <1>4 DEF Policy!NoVerb
  <2>2. main = "none"
    BY <2>1 DEF VerbFound, VerbSought
  <2>3. "none" \notin Policy!Verbs
    BY DEF Policy!Verbs, Policy!Reading, Policy!Writing, Policy!Defining, Policy!Administering
  <2>. QED
    BY <2>1, <2>2, <2>3 DEF NamesRead, OfKnownClass
<1>5. CASE Policy!CollectName
  BY <1>5, NameCollected
<1>6. CASE Policy!NoMoreNames
  BY <1>6, NamesAreAll
<1>7. ASSUME step \in {"objects", "end"}, step' \in {"objects", "end"}, UNCHANGED <<stmt, main, ctes>>
      PROVE  NamesRead'
  BY <1>7 DEF NamesRead, OfKnownClass
<1>8. CASE Policy!ListWord \/ Policy!TargetWord \/ Policy!TableWord \/ Policy!OnWord \/ Policy!EndWord
           \/ Policy!Comma \/ Policy!OtherWord
  <2>1. step = "objects" /\ UNCHANGED <<stmt, step, main, ctes>>
    BY <1>8 DEF Policy!ListWord, Policy!TargetWord, Policy!TableWord, Policy!OnWord, Policy!EndWord,
                Policy!Comma, Policy!OtherWord, Policy!Sets, Policy!In
  <2>. QED
    BY <1>7, <2>1
<1>9. CASE Policy!AddTable \/ Policy!ObjectsDone
  <2>1. step = "objects" /\ step' \in {"objects", "end"} /\ UNCHANGED <<stmt, main, ctes>>
    BY <1>9 DEF Policy!AddTable, Policy!ObjectsDone, Policy!In
  <2>. QED
    BY <1>7, <2>1
<1>10. CASE Policy!EnforceTablePolicy
  BY <1>1, <1>10 DEF Policy!EnforceTablePolicy, Policy!scan
<1>11. CASE UNCHANGED words
  BY <1>1, <1>11 DEF words
<1>12. UNCHANGED words \/ Policy!Analyze \/ Policy!EnforceTablePolicy
  BY DEF AnalyserNext, Policy!Next, vars
<1>. QED
  BY <1>2, <1>3, <1>4, <1>5, <1>6, <1>8, <1>9, <1>10, <1>11, <1>12, Zenon DEF Policy!Analyze

-----------------------------------------------------------------------------
(* The tables that are found.                                              *)

\* If the lists of a statement are plain, a table is due wherever one stands.
LEMMA TableIsDue ==
  ASSUME NEW w, Len(w) \in Nat, Policy!PlainTables(w), NEW k \in 1 .. Len(w), Policy!TableAt(w, k)
  PROVE  Policy!IsName(w[k]) /\ Due(w, k)
<1>1. Policy!IsName(w[k])
  BY Zenon DEF Policy!TableAt
<1>2. PICK p \in 1 .. k - 1 :
        /\ \A m \in p + 1 .. k - 1 : w[m] \in Policy!NoiseWords \cup {"table", "("}
        /\ Policy!Opens(w, p) \/ Policy!GoesOn(w, p)
  BY Zenon DEF Policy!TableAt
<1>3. p \in 1 .. Len(w)
  OBVIOUS
<1>4. /\ w[p] = "using" => ~Policy!Opens(w, p)
      /\ Policy!GoesOn(w, p) =>
           \E b \in 1 .. p - 1 :
             /\ w[b] \in Policy!ListWords \/ (w[b] \in {"table", "view"} /\ Policy!Defines(w))
             /\ \A m \in b + 1 .. p - 1 :
                  w[m] \notin Policy!EndWords \cup Policy!TargetWords /\ (w[m] = "on" => Policy!MakesIndex(w))
  BY <1>3, Zenon DEF Policy!PlainTables
<1>5. Expects(w, p)
  <2>1. CASE Policy!Opens(w, p)
    BY <1>4, <2>1 DEF Policy!Opens, Expects, OpensList, Policy!ListWords, Policy!TargetWords
  <2>2. CASE Policy!GoesOn(w, p)
    <3>1. w[p] = ","
      BY <2>2, Zenon DEF Policy!GoesOn
    <3>2. InList(w, p)
      BY <1>4, <2>2, Zenon DEF InList, OpensList, EndsList
    <3>. QED
      BY <3>1, <3>2, Zenon DEF Expects
  <2>. QED
    BY <1>2, <2>1, <2>2
<1>. QED
  BY <1>1, <1>2, <1>5, Zenon DEF Due, Passing

LEMMA FoundHolds ==
  ASSUME VerbFound, ObjectsRead, NamesRead
  PROVE  NoTableOverlooked /\ OthersAreNoTables
<1>. DEFINE w == stmt.tokens
<1>. SUFFICES ASSUME step = "end", main \in Policy!Verbs
              PROVE  /\ Policy!PlainTables(w) => stmt.tables \subseteq objects
                     /\ Policy!PlainWith(w) => objects \cap stmt.others = {}
  BY Zenon DEF NoTableOverlooked, OthersAreNoTables, Policy!NoTableOverlooked, Policy!OthersAreNoTables
<1>1. stmt \in Statements
  <2>1. "none" \notin Policy!Verbs
    BY DEF Policy!Verbs, Policy!Reading, Policy!Writing, Policy!Defining, Policy!Administering
  <2>2. stmt # Idle
    BY <2>1 DEF VerbFound, Idle
  <2>. QED
    BY <2>2 DEF VerbFound
<1>2. w \in Seq(STRING) /\ Len(w) \in Nat
  BY <1>1, ClassOfWords
<1>3. SoFar(w, Len(w) + 1, expectTable, inTableList, objects, ctes)
  BY <1>1 DEF ObjectsRead, OfKnownClass
<1>4. /\ ctes \subseteq Policy!WithNames(w)
      /\ Policy!PlainWith(w) => Policy!WithNames(w) \subseteq ctes
  BY <1>1 DEF NamesRead, OfKnownClass
<1>5. (Len(w) + 1) - 1 = Len(w)
  BY <1>2
<1>6. /\ \A n \in 1 .. Len(w) : Policy!IsName(w[n]) /\ Due(w, n) => w[n] \in objects \cup ctes
      /\ \A o \in objects : o \notin ctes /\ \E n \in 1 .. Len(w) : w[n] = o /\ ~Policy!Follows(w, n)
  BY <1>3, <1>5 DEF SoFar
<1>7. ASSUME Policy!PlainTables(w), NEW t \in stmt.tables
      PROVE  t \in objects
  <2>1. PICK k \in 1 .. Len(w) : w[k] = t /\ Policy!TableAt(w, k)
    BY <1>1, Reader, Zenon DEF Reader
  <2>2. t \notin Policy!WithNames(w)
    BY <1>1, Reader, Zenon DEF Reader
  <2>3. Policy!IsName(w[k]) /\ Due(w, k)
    BY <1>2, <1>7, <2>1, TableIsDue
  <2>. QED
    BY <1>4, <1>6, <2>1, <2>2, <2>3
<1>8. ASSUME Policy!PlainWith(w), NEW o \in stmt.others
      PROVE  o \notin objects
  <2>1. \/ o \in Policy!WithNames(w)
        \/ \A k \in 1 .. Len(w) : w[k] = o => Policy!Follows(w, k)
    BY <1>1, Reader, Zenon DEF Reader
  <2>. QED
    BY <1>4, <1>6, <1>8, <2>1
<1>. QED
  BY <1>7, <1>8

\* Whatever the statement: every table that a reader finds in its words is found,
\* if its class is known and its lists are plain (extractObjects,
\* collectCTENames).
THEOREM TablesCorrect == AnalyserSpec => []NoTableOverlooked
<1>1. AnalyserInit => VerbFound /\ ObjectsRead /\ NamesRead
  BY InitVerb, InitObjects, InitNames
<1>2. VerbFound /\ ObjectsRead /\ NamesRead /\ [AnalyserNext]_<<vars, words>> =>
        VerbFound' /\ ObjectsRead' /\ NamesRead'
  BY NextVerb, NextObjects, NextNames
<1>3. VerbFound /\ ObjectsRead /\ NamesRead => NoTableOverlooked
  BY FoundHolds
<1>. QED
  BY <1>1, <1>2, <1>3, PTL DEF AnalyserSpec

\* Whatever the statement: no alias and no name of a WITH query is taken for a
\* table, if its class is known and its WITH is plain (collectCTENames).
THEOREM OthersCorrect == AnalyserSpec => []OthersAreNoTables
<1>1. AnalyserInit => VerbFound /\ ObjectsRead /\ NamesRead
  BY InitVerb, InitObjects, InitNames
<1>2. VerbFound /\ ObjectsRead /\ NamesRead /\ [AnalyserNext]_<<vars, words>> =>
        VerbFound' /\ ObjectsRead' /\ NamesRead'
  BY NextVerb, NextObjects, NextNames
<1>3. VerbFound /\ ObjectsRead /\ NamesRead => OthersAreNoTables
  BY FoundHolds
<1>. QED
  BY <1>1, <1>2, <1>3, PTL DEF AnalyserSpec

\* With allow_tables, whatever the patterns, names and statements: an allowed call
\* touches only tables that a pattern covers, if the lists of its statement are
\* plain, and a table argument is allowed if and only if a pattern covers it
\* (enforceTablePolicy, wildcardMatch).
THEOREM PolicyCorrect == AnalyserSpec => []AllowedIsCovered
<1>1. AnalyserInit => PolicyTyped /\ Answered
  BY InitPolicy
<1>2. PolicyTyped /\ Answered /\ [AnalyserNext]_<<vars, words>> => PolicyTyped' /\ Answered'
  BY NextPolicy
<1>3. PolicyTyped /\ Answered /\ NoTableOverlooked => AllowedIsCovered
  BY PolicyHolds DEF NoTableOverlooked, AllowedIsCovered
<1>. QED
  BY <1>1, <1>2, <1>3, TablesCorrect, PTL DEF AnalyserSpec
=============================================================================
