---------------------------- MODULE ReadsProofs -----------------------------
(***************************************************************************)
(* Proofs about Reads.  QueryPage, for every page size, table and number   *)
(* of writes: the row loop returns exactly the slice it was asked for,     *)
(* pages are a prefix of a table that only grows, and what other writes    *)
(* cost is known.  Inspect, for every schema, call and number of changes:  *)
(* what each query has returned was so at a moment of the call, and these  *)
(* moments follow each other.                                              *)
(***************************************************************************)
EXTENDS Reads, SequenceTheorems, TLAPS

IsPrefixOf(s, t) == Len(s) <= Len(t) /\ \A i \in 1 .. Len(s) : s[i] = t[i]

\* When nobody inserts or deletes, the running query sees a prefix of the
\* table, and the cursor stands right after what has been collected.
Growing ==
  ~squeezed /\ ~deleted =>
    /\ pc = "reading" => IsPrefixOf(view, table)
    /\ IsPrefixOf(got, table)
    /\ pc # "end" => cursor = Len(got)

Paged ==
  /\ TypeOK
  /\ writes <= MaxWrites
  /\ pc = "reading" => seen <= Len(view)
  /\ PageIsSlice
  /\ Growing

\* No row stands twice in a table, and the next row to be written is new.
Apart(t) == \A i, j \in 1 .. Len(t) : t[i] = t[j] => i = j
Older(t) == \A i \in 1 .. Len(t) : t[i] < Fresh

NoTwins ==
  /\ Apart(table) /\ Older(table) /\ Older(got)
  /\ pc = "reading" => Apart(view) /\ Older(view)
  /\ \A r \in kept : r < Fresh

\* No row of the second table stands further on than in the first.
MovedDown(from, to) ==
  \A i \in 1 .. Len(from), j \in 1 .. Len(to) : from[i] = to[j] => j <= i

\* The rows of t behind the cursor are still to come.
Ahead(t) == \A i \in 1 .. Len(t) : i > cursor => t[i] \notin Elements(got)

\* Deletions only move rows to the front, so none comes to stand behind the
\* cursor again.
NoneReturns ==
  ~squeezed =>
    /\ Apart(got)
    /\ pc # "end" => Ahead(table)
    /\ pc = "reading" => Ahead(view) /\ MovedDown(view, table)

\* The rows of t up to the cursor have been collected.
Passed(t) ==
  kept \subseteq Elements(t)
  /\ \A i \in 1 .. Len(t) : i <= cursor /\ t[i] \in kept => t[i] \in Elements(got)

\* Insertions only move rows to the end, so none slips past the cursor.
NoneEscapes ==
  ~deleted =>
    /\ pc # "end" => Passed(table)
    /\ pc = "reading" => Passed(view) /\ MovedDown(table, view)
    /\ pc = "end" => kept \subseteq Elements(got)

IInv ==
  /\ Paged
  /\ NoTwins
  /\ NoneReturns
  /\ NoneEscapes

-----------------------------------------------------------------------------
(* What a write does to the table.                                         *)

LEMMA JoinOfTwo ==
  ASSUME NEW S, NEW s \in Seq(S), NEW t \in Seq(S), NEW m, NEW n, Len(s) = m, Len(t) = n
  PROVE  /\ s \o t \in Seq(S) /\ Len(s \o t) = m + n
         /\ \A i \in 1 .. m + n : (s \o t)[i] = IF i <= m THEN s[i] ELSE t[i - m]
BY ConcatProperties

Inserted(t, n, x) == SubSeq(t, 1, n) \o <<x>> \o SubSeq(t, n + 1, Len(t))
Removed(t, n) == SubSeq(t, 1, n - 1) \o SubSeq(t, n + 1, Len(t))

\* u is t with x behind its first n rows.
IsInserted(t, u, n, x) ==
  /\ n \in 0 .. Len(t) /\ Len(u) = Len(t) + 1
  /\ \A i \in 1 .. n : u[i] = t[i]
  /\ u[n + 1] = x
  /\ \A i \in n + 1 .. Len(t) : u[i + 1] = t[i]

\* u is t without its n-th row.
IsRemoved(t, u, n) ==
  /\ n \in 1 .. Len(t) /\ Len(u) = Len(t) - 1
  /\ \A i \in 1 .. n - 1 : u[i] = t[i]
  /\ \A i \in n .. Len(t) - 1 : u[i] = t[i + 1]

LEMMA InsertAt ==
  ASSUME NEW S, NEW t \in Seq(S), NEW x \in S, NEW n \in 0 .. Len(t)
  PROVE  Inserted(t, n, x) \in Seq(S) /\ IsInserted(t, Inserted(t, n, x), n, x)
<1>0. PICK u : u = Inserted(t, n, x)
  OBVIOUS
<1>1. PICK front : front = SubSeq(t, 1, n)
  OBVIOUS
<1>2. /\ front \in Seq(S) /\ Len(front) = n
      /\ \A i \in 1 .. n : front[i] = t[i]
  BY <1>1, SubSeqProperties
<1>3. PICK back : back = SubSeq(t, n + 1, Len(t))
  OBVIOUS
<1>4. /\ back \in Seq(S) /\ Len(back) = Len(t) - n
      /\ \A i \in 1 .. Len(t) - n : back[i] = t[n + i]
  BY <1>3, SubSeqProperties
<1>5. PICK begun : begun = front \o <<x>>
  OBVIOUS
<1>6. /\ begun \in Seq(S) /\ Len(begun) = n + 1
      /\ \A i \in 1 .. n + 1 : begun[i] = IF i <= n THEN t[i] ELSE x
  BY <1>2, <1>5, JoinOfTwo
<1>7. u = begun \o back
  BY <1>0, <1>1, <1>3, <1>5, Zenon DEF Inserted
<1>8. /\ u \in Seq(S) /\ Len(u) = (n + 1) + (Len(t) - n)
      /\ \A i \in 1 .. (n + 1) + (Len(t) - n) :
           u[i] = IF i <= n + 1 THEN begun[i] ELSE back[i - (n + 1)]
  <2>1. /\ begun \o back \in Seq(S) /\ Len(begun \o back) = (n + 1) + (Len(t) - n)
        /\ \A i \in 1 .. (n + 1) + (Len(t) - n) :
             (begun \o back)[i] = IF i <= n + 1 THEN begun[i] ELSE back[i - (n + 1)]
    <3>1. begun \in Seq(S) /\ back \in Seq(S) /\ Len(begun) = n + 1 /\ Len(back) = Len(t) - n
      BY <1>4, <1>6
    <3>. QED
      BY ONLY <3>1, JoinOfTwo
  <2>. QED
    BY <1>7, <2>1, Zenon
<1>9. ASSUME NEW i \in 1 .. Len(t) + 1, i > n + 1 PROVE u[i] = t[i - 1]
  <2>1. i - (n + 1) \in 1 .. Len(t) - n /\ n + (i - (n + 1)) = i - 1
    BY <1>9
  <2>2. back[i - (n + 1)] = t[i - 1]
    BY <1>4, <2>1
  <2>. QED
    BY ONLY n \in Nat, Len(t) \in Nat, <1>8, <1>9, <2>2
<1>10. u \in Seq(S) /\ IsInserted(t, u, n, x)
  <2>1. n \in 0 .. Len(t) /\ Len(t) \in Nat
    OBVIOUS
  <2>2. \A i \in n + 1 .. Len(t) : u[i + 1] = t[i]
    <3>1. \A i \in n + 1 .. Len(t) : i + 1 \in 1 .. Len(t) + 1 /\ i + 1 > n + 1 /\ (i + 1) - 1 = i
      BY ONLY <2>1
    <3>. QED
      BY ONLY <1>9, <2>1, <3>1
  <2>3. (n + 1) + (Len(t) - n) = Len(t) + 1
    BY ONLY <2>1
  <2>4. u \in Seq(S) /\ Len(u) = Len(t) + 1
    BY ONLY <1>8, <2>3
  <2>5. \A i \in 1 .. n + 1 : u[i] = IF i <= n THEN t[i] ELSE x
    <3>1. \A i \in 1 .. n + 1 : i \in 1 .. (n + 1) + (Len(t) - n) /\ i <= n + 1
      BY ONLY <2>1
    <3>. QED
      BY ONLY <1>6, <1>8, <3>1
  <2>6. (\A i \in 1 .. n : u[i] = t[i]) /\ u[n + 1] = x
    BY ONLY <2>1, <2>5
  <2>. QED
    BY ONLY <2>1, <2>2, <2>4, <2>6 DEF IsInserted
<1>. QED
  BY <1>0, <1>10, Zenon

LEMMA DeleteAt ==
  ASSUME NEW S, NEW t \in Seq(S), NEW n \in 1 .. Len(t)
  PROVE  Removed(t, n) \in Seq(S) /\ IsRemoved(t, Removed(t, n), n)
<1>0. PICK u : u = Removed(t, n)
  OBVIOUS
<1>1. PICK front : front = SubSeq(t, 1, n - 1)
  OBVIOUS
<1>2. /\ front \in Seq(S) /\ Len(front) = n - 1
      /\ \A i \in 1 .. n - 1 : front[i] = t[i]
  BY <1>1, SubSeqProperties
<1>3. PICK back : back = SubSeq(t, n + 1, Len(t))
  OBVIOUS
<1>4. /\ back \in Seq(S) /\ Len(back) = Len(t) - n
      /\ \A i \in 1 .. Len(t) - n : back[i] = t[n + i]
  BY <1>3, SubSeqProperties
<1>5. /\ u \in Seq(S) /\ Len(u) = (n - 1) + (Len(t) - n)
      /\ \A i \in 1 .. (n - 1) + (Len(t) - n) :
           u[i] = IF i <= n - 1 THEN front[i] ELSE back[i - (n - 1)]
  <2>1. /\ front \o back \in Seq(S) /\ Len(front \o back) = (n - 1) + (Len(t) - n)
        /\ \A i \in 1 .. (n - 1) + (Len(t) - n) :
             (front \o back)[i] = IF i <= n - 1 THEN front[i] ELSE back[i - (n - 1)]
    <3>1. front \in Seq(S) /\ back \in Seq(S) /\ Len(front) = n - 1 /\ Len(back) = Len(t) - n
      BY <1>2, <1>4
    <3>2. PICK a, b : a = n - 1 /\ b = Len(t) - n
      OBVIOUS
    <3>3. /\ front \o back \in Seq(S) /\ Len(front \o back) = a + b
          /\ \A i \in 1 .. a + b : (front \o back)[i] = IF i <= a THEN front[i] ELSE back[i - a]
      BY ONLY <3>1, <3>2, JoinOfTwo
    <3>. QED
      BY ONLY <3>2, <3>3
  <2>2. u = front \o back
    BY <1>0, <1>1, <1>3, Zenon DEF Removed
  <2>. QED
    BY <2>1, <2>2, Zenon
<1>6. ASSUME NEW i \in 1 .. Len(t) - 1, i >= n PROVE u[i] = t[i + 1]
  <2>1. i - (n - 1) \in 1 .. Len(t) - n /\ n + (i - (n - 1)) = i + 1
    BY <1>6
  <2>2. back[i - (n - 1)] = t[i + 1]
    BY <1>4, <2>1
  <2>. QED
    BY ONLY n \in Nat, Len(t) \in Nat, <1>5, <1>6, <2>2
<1>7. u \in Seq(S) /\ IsRemoved(t, u, n)
  <2>1. n \in 1 .. Len(t) /\ Len(t) \in Nat
    OBVIOUS
  <2>2. (n - 1) + (Len(t) - n) = Len(t) - 1
    BY ONLY <2>1
  <2>3. \A i \in 1 .. n - 1 : u[i] = t[i]
    <3>1. \A i \in 1 .. n - 1 : i \in 1 .. Len(t) - 1 /\ i <= n - 1
      BY ONLY <2>1
    <3>. QED
      BY ONLY <1>2, <1>5, <2>2, <3>1
  <2>4. \A i \in n .. Len(t) - 1 : u[i] = t[i + 1]
    BY ONLY <1>6, <2>1
  <2>5. u \in Seq(S) /\ Len(u) = Len(t) - 1
    BY ONLY <1>5, <2>2
  <2>. QED
    BY ONLY <2>1, <2>3, <2>4, <2>5 DEF IsRemoved
<1>. QED
  BY <1>0, <1>7, Zenon

\* Where the rows of u come from.
LEMMA InsertOrigin ==
  ASSUME NEW t, NEW u, NEW n, NEW x, Len(t) \in Nat, IsInserted(t, u, n, x),
         NEW k \in 1 .. Len(u)
  PROVE  \/ u[k] = x /\ k = n + 1
         \/ k # n + 1 /\ \E i \in 1 .. Len(t) : u[k] = t[i] /\ i = IF k <= n THEN k ELSE k - 1
<1>1. CASE k <= n + 1
  BY <1>1 DEF IsInserted
<1>2. CASE k > n + 1
  <2>1. k - 1 \in n + 1 .. Len(t) /\ (k - 1) + 1 = k
    BY <1>2 DEF IsInserted
  <2>2. u[(k - 1) + 1] = t[k - 1]
    BY <2>1 DEF IsInserted
  <2>. QED
    BY <1>2, <2>1, <2>2 DEF IsInserted
<1>. QED
  BY <1>1, <1>2 DEF IsInserted

LEMMA RemoveOrigin ==
  ASSUME NEW t, NEW u, NEW n, Len(t) \in Nat, IsRemoved(t, u, n), NEW k \in 1 .. Len(u)
  PROVE  \E i \in 1 .. Len(t) : /\ u[k] = t[i] /\ k <= i /\ i # n
                                /\ i = IF k < n THEN k ELSE k + 1
BY DEF IsRemoved

LEMMA InsertKeepsApart ==
  ASSUME NEW t, NEW u, NEW n, NEW x \in Nat, Len(t) \in Nat, IsInserted(t, u, n, x),
         Apart(t), \A i \in 1 .. Len(t) : t[i] \in Nat /\ t[i] < x
  PROVE  Apart(u) /\ \A i \in 1 .. Len(u) : u[i] < x + 1
<1>1. ASSUME NEW i \in 1 .. Len(u), NEW j \in 1 .. Len(u), u[i] = u[j] PROVE i = j
  <2>. USE DEF Apart
  <2>1. CASE i = n + 1 \/ j = n + 1
    <3>1. u[n + 1] = x
      BY DEF IsInserted
    <3>2. \A k \in 1 .. Len(u) : k # n + 1 => u[k] # x
      BY InsertOrigin
    <3>. QED
      BY <1>1, <2>1, <3>1, <3>2
  <2>2. CASE i # n + 1 /\ j # n + 1
    <3>1. PICK k \in 1 .. Len(t) : u[i] = t[k] /\ k = IF i <= n THEN i ELSE i - 1
      BY <2>2, InsertOrigin
    <3>2. PICK l \in 1 .. Len(t) : u[j] = t[l] /\ l = IF j <= n THEN j ELSE j - 1
      BY <2>2, InsertOrigin
    <3>3. k = l
      BY <1>1, <3>1, <3>2
    <3>. QED
      BY <2>2, <3>1, <3>2, <3>3 DEF IsInserted
  <2>. QED
    BY <2>1, <2>2
<1>2. ASSUME NEW i \in 1 .. Len(u) PROVE u[i] < x + 1
  BY InsertOrigin
<1>. QED
  BY <1>1, <1>2 DEF Apart

LEMMA RemoveKeepsApart ==
  ASSUME NEW t, NEW u, NEW n, Len(t) \in Nat, IsRemoved(t, u, n), Apart(t)
  PROVE  Apart(u)
<1>1. ASSUME NEW i \in 1 .. Len(u), NEW j \in 1 .. Len(u), u[i] = u[j] PROVE i = j
  <2>1. PICK k \in 1 .. Len(t) : u[i] = t[k] /\ k = IF i < n THEN i ELSE i + 1
    BY RemoveOrigin
  <2>2. PICK l \in 1 .. Len(t) : u[j] = t[l] /\ l = IF j < n THEN j ELSE j + 1
    BY RemoveOrigin
  <2>3. k = l
    BY <1>1, <2>1, <2>2 DEF Apart
  <2>. QED
    BY <2>1, <2>2, <2>3 DEF IsRemoved
<1>. QED
  BY <1>1 DEF Apart

LEMMA AppendIsPrefix ==
  ASSUME NEW S, NEW t \in Seq(S), NEW x \in S
  PROVE  IsPrefixOf(t, SubSeq(t, 1, Len(t)) \o <<x>> \o SubSeq(t, Len(t) + 1, Len(t)))
<1>1. /\ SubSeq(t, 1, Len(t)) = t
      /\ SubSeq(t, Len(t) + 1, Len(t)) = <<>>
  BY SubSeqProperties
<1>2. /\ t \o <<x>> \in Seq(S)
      /\ Len(t \o <<x>>) = Len(t) + 1
      /\ \A i \in 1 .. Len(t) : (t \o <<x>>)[i] = t[i]
  BY ConcatProperties
<1>3. (t \o <<x>>) \o <<>> = t \o <<x>>
  BY <1>2, ConcatEmptySeq
<1>. QED
  BY <1>1, <1>2, <1>3 DEF IsPrefixOf

LEMMA PrefixTransitive ==
  ASSUME NEW S, NEW r \in Seq(S), NEW s \in Seq(S), NEW t \in Seq(S),
         IsPrefixOf(r, s), IsPrefixOf(s, t)
  PROVE  IsPrefixOf(r, t)
BY DEF IsPrefixOf

-----------------------------------------------------------------------------
LEMMA InitPaged == Init => Paged
<1>. SUFFICES ASSUME Init PROVE Paged
  OBVIOUS
<1>1. PICK n \in 0 .. MaxRows : table = [i \in 1 .. n |-> i]
  BY DEF Init
<1>2. table \in Seq(Rows)
  BY <1>1, Numbers DEF Rows
<1>3. kept \subseteq Rows
  BY <1>2 DEF Init, Elements
<1>4. <<>> \in Seq(Rows) /\ Len(<<>>) = 0
  OBVIOUS
<1>5. TypeOK
  <2>1. truncated \in BOOLEAN /\ squeezed \in BOOLEAN /\ deleted \in BOOLEAN
    BY Zenon DEF Init
  <2>2. size \in Int /\ cursor \in Nat /\ seen \in Nat /\ writes \in Nat /\ fails \in Nat
    BY Numbers DEF Init
  <2>3. view \in Seq(Rows) /\ rows \in Seq(Rows) /\ got \in Seq(Rows)
    BY <1>4 DEF Init
  <2>4. pc \in {"idle", "reading", "end"}
    BY DEF Init
  <2>. QED
    BY <1>2, <1>3, <2>1, <2>2, <2>3, <2>4, Zenon DEF TypeOK
<1>6. IsPrefixOf(got, table)
  BY <1>2, <1>4 DEF Init, IsPrefixOf
<1>7. pc = "idle" /\ cursor = Len(got) /\ writes <= MaxWrites
  BY <1>4, Numbers DEF Init
<1>. QED
  BY <1>5, <1>6, <1>7 DEF Paged, PageIsSlice, Growing

LEMMA NextRowKeeps ==
  ASSUME Paged, NextRow
  PROVE  Paged'
<1>. USE Numbers DEF Paged, TypeOK, others
<1>1. /\ pc = "reading" /\ seen < Len(view) /\ seen' = seen + 1
      /\ UNCHANGED <<table, size, view, pc, cursor, got, kept, others, fails>>
      /\ view[seen'] \in Rows
  BY DEF NextRow
<1>2. /\ Len(rows) = PageLen
      /\ \A i \in 1 .. Len(rows) : rows[i] = view[cursor + i]
      /\ truncated <=> size > 0 /\ seen > cursor + size
  BY <1>1 DEF PageIsSlice
<1>3. CASE seen' <= cursor
  <2>1. rows' = rows /\ truncated' = truncated
    BY <1>3 DEF NextRow
  <2>. QED
    BY <1>1, <1>2, <1>3, <2>1 DEF PageIsSlice, Growing, PageLen, Least, Excess
<1>4. CASE seen' > cursor /\ PageIsFull
  <2>0. ~(seen' <= cursor)
    BY <1>1, <1>4
  <2>1. rows' = rows /\ truncated' = TRUE
    BY <2>0, <1>4, Zenon DEF NextRow
  <2>2. size > 0 /\ seen >= cursor + size
    BY <1>1, <1>2, <1>4 DEF PageIsFull, PageLen, Least, Excess
  <2>. QED
    BY <1>1, <1>2, <1>4, <2>1, <2>2 DEF PageIsSlice, Growing, PageLen, Least, Excess
<1>5. CASE seen' > cursor /\ ~PageIsFull
  <2>1. rows' = Append(rows, view[seen']) /\ truncated' = truncated
    BY <1>1, <1>5 DEF NextRow
  <2>2. rows' \in Seq(Rows) /\ Len(rows') = Len(rows) + 1
        /\ (\A i \in 1 .. Len(rows) : rows'[i] = rows[i]) /\ rows'[Len(rows) + 1] = view[seen']
    BY <1>1, <2>1
  <2>3. Len(rows) = seen - cursor
    BY <1>1, <1>2, <1>5 DEF PageIsFull, PageLen, Least, Excess
  <2>4. Len(rows') = PageLen' /\ (truncated' <=> size > 0 /\ seen' > cursor + size)
    BY <1>1, <1>2, <1>5, <2>1, <2>2, <2>3 DEF PageIsFull, PageLen, Least, Excess
  <2>5. \A i \in 1 .. Len(rows') : rows'[i] = view[cursor + i]
    <3>1. \A i \in 1 .. Len(rows) : rows'[i] = view[cursor + i]
      BY <1>2, <2>2
    <3>2. seen' = cursor + (Len(rows) + 1)
      BY <1>1, <2>3
    <3>3. rows'[Len(rows) + 1] = view[cursor + (Len(rows) + 1)]
      BY <2>2, <3>2
    <3>4. \A i \in 1 .. Len(rows') : i \in 1 .. Len(rows) \/ i = Len(rows) + 1
      BY <2>2
    <3>. QED
      BY <3>1, <3>3, <3>4
  <2>. QED
    BY <1>1, <2>1, <2>2, <2>4, <2>5 DEF PageIsSlice, Growing
<1>. QED
  BY <1>1, <1>3, <1>4, <1>5

LEMMA FinishKeeps ==
  ASSUME Paged, Finish
  PROVE  Paged'
<1>. USE Numbers DEF Paged, TypeOK, others
<1>1. /\ pc = "reading" /\ seen = Len(view) /\ got' = got \o rows
      /\ cursor' = IF Continues THEN cursor + size ELSE cursor
      /\ pc' = IF Continues THEN "idle" ELSE "end"
      /\ UNCHANGED <<table, size, view, seen, rows, truncated, kept, others, fails>>
  BY DEF Finish
<1>2. /\ got' \in Seq(Rows) /\ Len(got') = Len(got) + Len(rows)
      /\ \A i \in 1 .. Len(got') :
           got'[i] = IF i <= Len(got) THEN got[i] ELSE rows[i - Len(got)]
  BY <1>1, ConcatProperties
<1>3. cursor' \in Nat /\ pc' \in {"idle", "end"}
  BY <1>1 DEF Continues
<1>4. TypeOK'
  BY <1>1, <1>2, <1>3
<1>5. ASSUME ~squeezed, ~deleted
      PROVE  IsPrefixOf(got', table) /\ (pc' # "end" => cursor' = Len(got'))
  <2>1. IsPrefixOf(view, table) /\ IsPrefixOf(got, table) /\ cursor = Len(got)
    BY <1>1, <1>5 DEF Growing
  <2>2. /\ Len(rows) = PageLen
        /\ \A i \in 1 .. Len(rows) : rows[i] = view[cursor + i]
        /\ truncated <=> size > 0 /\ seen > cursor + size
    BY <1>1 DEF PageIsSlice
  <2>3. Len(rows) <= Excess(Len(view) - cursor)
    BY <1>1, <2>2 DEF PageLen, Least, Excess
  <2>4. Len(got') <= Len(table)
    BY <1>2, <2>1, <2>3 DEF IsPrefixOf, Excess
  <2>5. ASSUME NEW i \in 1 .. Len(got') PROVE got'[i] = table[i]
    <3>1. CASE i <= Len(got)
      BY <1>2, <2>1, <3>1 DEF IsPrefixOf
    <3>2. CASE i > Len(got)
      <4>1. i - Len(got) \in 1 .. Len(rows)
        BY <1>2, <3>2
      <4>2. got'[i] = view[i] /\ i \in 1 .. Len(view)
        BY <1>2, <2>1, <2>2, <2>3, <3>2, <4>1 DEF Excess
      <4>. QED
        BY <2>1, <4>2 DEF IsPrefixOf
    <3>. QED
      BY <1>2, <3>1, <3>2
  <2>6. Continues => Len(rows) = size
    BY <2>2 DEF Continues, PageLen, Least, Excess
  <2>7. pc' # "end" => cursor' = Len(got')
    BY <1>1, <1>2, <2>1, <2>6
  <2>. QED
    BY <2>4, <2>5, <2>7 DEF IsPrefixOf
<1>. QED
  BY <1>1, <1>3, <1>4, <1>5 DEF PageIsSlice, Growing

LEMMA WriteKeeps ==
  ASSUME Paged, Write
  PROVE  Paged'
<1>. USE Numbers DEF Paged, TypeOK
<1>1. /\ pc # "end" /\ writes < MaxWrites /\ writes' = writes + 1
      /\ UNCHANGED <<page, got, fails>>
  BY DEF Write
<1>2. Fresh \in Rows
  BY <1>1 DEF Fresh, Rows
<1>3. CASE Insert
  <2>1. PICK n \in 0 .. Len(table) :
          /\ table' = SubSeq(table, 1, n) \o <<Fresh>> \o SubSeq(table, n + 1, Len(table))
          /\ squeezed' = (squeezed \/ n < Len(table))
    BY <1>3 DEF Insert
  <2>2. table' \in Seq(Rows)
    BY <1>2, <2>1, InsertAt DEF Inserted
  <2>3. ~squeezed' => ~squeezed /\ n = Len(table)
    <3>1. n < Len(table) \/ n = Len(table)
      OBVIOUS
    <3>. QED
      BY <2>1, <3>1, Zenon
  <2>4. ~squeezed' => IsPrefixOf(table, table')
    BY <1>2, <2>1, <2>3, AppendIsPrefix
  <2>5. Growing'
    BY <1>1, <1>3, <2>2, <2>3, <2>4, PrefixTransitive DEF Growing, page, Insert
  <2>6. squeezed' \in BOOLEAN /\ UNCHANGED <<kept, deleted>>
    BY <1>3, <2>1, Zenon DEF Insert
  <2>7. TypeOK' /\ writes' <= MaxWrites /\ (pc' = "reading" => seen' <= Len(view'))
    BY <1>1, <2>2, <2>6 DEF page
  <2>8. PageIsSlice'
    BY <1>1 DEF PageIsSlice, PageLen, page
  <2>. QED
    BY <2>5, <2>7, <2>8
<1>4. CASE Delete
  <2>1. PICK n \in 1 .. Len(table) :
          /\ table' = SubSeq(table, 1, n - 1) \o SubSeq(table, n + 1, Len(table))
          /\ kept' = kept \ {table[n]}
    BY <1>4 DEF Delete
  <2>2. table' \in Seq(Rows) /\ kept' \subseteq Rows
    BY <2>1, DeleteAt DEF Removed
  <2>3. deleted' = TRUE /\ UNCHANGED squeezed
    BY <1>4 DEF Delete
  <2>4. deleted' \in BOOLEAN
    BY <2>3, Zenon
  <2>5. TypeOK' /\ writes' <= MaxWrites /\ (pc' = "reading" => seen' <= Len(view'))
    BY <1>1, <2>2, <2>3, <2>4 DEF page
  <2>6. PageIsSlice' /\ Growing'
    BY <1>1, <2>3 DEF PageIsSlice, PageLen, Growing, page
  <2>. QED
    BY <2>5, <2>6
<1>. QED
  BY <1>3, <1>4 DEF Write

LEMMA NextPaged == Paged /\ [Next]_vars => Paged'
<1>. SUFFICES ASSUME Paged, [Next]_vars PROVE Paged'
  OBVIOUS
<1>1. CASE Query
  <2>1. IsPrefixOf(table, table)
    BY DEF IsPrefixOf
  <2>2. <<>> \in Seq(Rows) /\ Len(<<>>) = 0
    OBVIOUS
  <2>3. TypeOK' /\ writes' <= MaxWrites /\ seen' <= Len(view')
    <3>1. seen' = 0 /\ Len(view') \in Nat /\ writes' <= MaxWrites
      BY <1>1 DEF Query, others, Paged, TypeOK
    <3>2. rows' \in Seq(Rows)
      BY <1>1, <2>2 DEF Query
    <3>3. pc' \in {"idle", "reading", "end"} /\ seen' \in Nat
      BY <1>1, <3>1 DEF Query
    <3>4. truncated' \in BOOLEAN
      BY <1>1, Zenon DEF Query
    <3>5. view' \in Seq(Rows) /\ UNCHANGED <<table, size, cursor, got, kept, others, fails>>
      BY <1>1 DEF Query, others, Paged, TypeOK
    <3>6. TypeOK'
      BY <3>2, <3>3, <3>4, <3>5, Zenon DEF others, Paged, TypeOK
    <3>. QED
      BY <3>1, <3>6
  <2>4. Excess(seen' - cursor') = 0
    BY <1>1 DEF Query, others, Paged, TypeOK, Excess
  <2>5. PageIsSlice'
    <3>1. PageLen' = 0
      BY <2>4, Numbers DEF PageLen, Least
    <3>2. Len(rows') = 0 /\ truncated' = FALSE
      BY <1>1, <2>2 DEF Query
    <3>3. ~(size' > 0 /\ seen' > cursor' + size')
      BY <1>1, Numbers DEF Query, others, Paged, TypeOK
    <3>. QED
      BY <3>1, <3>2, <3>3 DEF PageIsSlice
  <2>6. Growing'
    BY <1>1, <2>1 DEF Query, others, Paged, Growing
  <2>. QED
    BY <2>3, <2>5, <2>6 DEF Paged
<1>2. CASE NextRow
  BY <1>2, NextRowKeeps
<1>3. CASE Finish
  BY <1>3, FinishKeeps
<1>4. CASE QueryFails
  BY <1>4 DEF QueryFails, others, Paged, TypeOK, PageIsSlice, Growing
<1>5. CASE Write
  BY <1>5, WriteKeeps
<1>6. CASE UNCHANGED vars
  BY <1>6 DEF vars, page, others, Paged, TypeOK, PageIsSlice, PageLen, Growing
<1>. QED
  BY <1>1, <1>2, <1>3, <1>4, <1>5, <1>6 DEF Next

-----------------------------------------------------------------------------
(* Rows that come twice, rows that never come.                             *)

LEMMA InitRest == Init => NoTwins /\ NoneReturns /\ NoneEscapes
<1>. SUFFICES ASSUME Init PROVE NoTwins /\ NoneReturns /\ NoneEscapes
  OBVIOUS
<1>1. PICK n \in 0 .. MaxRows : table = [i \in 1 .. n |-> i]
  BY DEF Init
<1>2. /\ n \in Nat /\ n <= MaxRows /\ table \in Seq(Nat) /\ Len(table) = n
      /\ \A i \in 1 .. n : table[i] = i
  BY <1>1, Numbers
<1>3. Len(got) = 0 /\ pc = "idle" /\ cursor = 0 /\ writes = 0
  BY DEF Init
<1>4. kept = Elements(table) /\ \A r \in kept : r \in 1 .. n
  BY <1>2 DEF Init, Elements
<1>5. NoTwins
  BY <1>2, <1>3, <1>4, Numbers DEF NoTwins, Apart, Older, Fresh
<1>6. NoneReturns
  <2>1. Apart(got)
    BY <1>3 DEF Apart
  <2>2. Ahead(table)
    BY <1>3 DEF Ahead, Elements, Init
  <2>. QED
    BY <1>3, <2>1, <2>2 DEF NoneReturns
<1>7. NoneEscapes
  BY <1>2, <1>3, <1>4 DEF NoneEscapes, Passed
<1>. QED
  BY <1>5, <1>6, <1>7

\* What a page adds to the collected rows.
LEMMA FinishAdds ==
  ASSUME Paged, Finish
  PROVE  /\ got' \in Seq(Rows) /\ Len(got') = Len(got) + Len(rows)
         /\ \A i \in 1 .. Len(got') :
              got'[i] = IF i <= Len(got) THEN got[i] ELSE view[cursor + i - Len(got)]
         /\ \A i \in 1 .. Len(rows) : cursor + i \in 1 .. Len(view)
         /\ pc' # "end" => cursor' = cursor + Len(rows)
         /\ pc' = "end" => Len(rows) >= Len(view) - cursor
<1>. USE Numbers DEF Paged, TypeOK
<1>1. /\ pc = "reading" /\ seen = Len(view) /\ got' = got \o rows
      /\ cursor' = IF Continues THEN cursor + size ELSE cursor
      /\ pc' = IF Continues THEN "idle" ELSE "end"
  BY DEF Finish
<1>2. /\ Len(rows) = PageLen
      /\ \A i \in 1 .. Len(rows) : rows[i] = view[cursor + i]
      /\ truncated <=> size > 0 /\ seen > cursor + size
  BY <1>1 DEF PageIsSlice
<1>3. /\ got' \in Seq(Rows) /\ Len(got') = Len(got) + Len(rows)
      /\ \A i \in 1 .. Len(got') :
           got'[i] = IF i <= Len(got) THEN got[i] ELSE rows[i - Len(got)]
  BY <1>1, ConcatProperties
<1>4. ASSUME NEW i \in 1 .. Len(got'), i > Len(got)
      PROVE  got'[i] = view[cursor + i - Len(got)]
  <2>1. i - Len(got) \in 1 .. Len(rows) /\ cursor + (i - Len(got)) = cursor + i - Len(got)
    BY <1>3, <1>4
  <2>. QED
    BY <1>2, <1>3, <1>4, <2>1
<1>5. \A i \in 1 .. Len(rows) : cursor + i \in 1 .. Len(view)
  BY <1>1, <1>2 DEF PageLen, Least, Excess
<1>6. pc' # "end" => cursor' = cursor + Len(rows)
  BY <1>1, <1>2 DEF Continues, PageLen, Least, Excess
<1>7. pc' = "end" => Len(rows) >= Len(view) - cursor
  BY <1>1, <1>2 DEF Continues, PageLen, Least, Excess
<1>. QED
  BY <1>3, <1>4, <1>5, <1>6, <1>7

\* What a write does to the table.
LEMMA InsertPlaces ==
  ASSUME Paged, Write, Insert
  PROVE  \E n : /\ IsInserted(table, table', n, Fresh)
                /\ ~squeezed' => ~squeezed /\ n = Len(table)
<1>. USE Numbers DEF Paged, TypeOK
<1>1. PICK n \in 0 .. Len(table) :
        /\ table' = Inserted(table, n, Fresh)
        /\ squeezed' = (squeezed \/ n < Len(table))
  BY DEF Insert, Inserted
<1>2. table \in Seq(Rows) /\ Fresh \in Rows
  BY DEF Fresh, Rows, Write
<1>3. IsInserted(table, table', n, Fresh)
  BY <1>1, <1>2, InsertAt, Zenon
<1>4. n < Len(table) \/ n = Len(table)
  OBVIOUS
<1>. QED
  BY <1>1, <1>3, <1>4, Zenon

LEMMA DeletePlaces ==
  ASSUME Paged, Write, Delete
  PROVE  \E n : IsRemoved(table, table', n) /\ kept' = kept \ {table[n]}
<1>. USE Numbers DEF Paged, TypeOK
<1>1. PICK n \in 1 .. Len(table) :
        table' = Removed(table, n) /\ kept' = kept \ {table[n]}
  BY DEF Delete, Removed
<1>2. table \in Seq(Rows)
  OBVIOUS
<1>3. IsRemoved(table, table', n)
  BY <1>1, <1>2, DeleteAt, Zenon
<1>. QED
  BY <1>1, <1>3, Zenon

\* Rows are numbers and lists have lengths.
LEMMA Typed ==
  ASSUME Paged
  PROVE  /\ Len(table) \in Nat /\ Len(view) \in Nat /\ Len(got) \in Nat
         /\ cursor \in Nat /\ Fresh \in Nat
         /\ \A i \in 1 .. Len(table) : table[i] \in Nat
         /\ \A i \in 1 .. Len(view) : view[i] \in Nat
         /\ \A i \in 1 .. Len(got) : got[i] \in Nat
         /\ \A r \in kept : r \in Nat
<1>. USE Numbers DEF Paged, TypeOK
<1>1. \A i \in 1 .. Len(got) : got[i] \in Rows
  OBVIOUS
<1>2. \A i \in 1 .. Len(view) : view[i] \in Rows
  OBVIOUS
<1>3. \A i \in 1 .. Len(table) : table[i] \in Rows
  OBVIOUS
<1>. QED
  BY <1>1, <1>2, <1>3 DEF Rows, Fresh

LEMMA NextNoTwins ==
  ASSUME Paged, NoTwins, [Next]_vars
  PROVE  NoTwins'
<1>1. CASE Query
  BY <1>1 DEF Query, others, NoTwins, Apart, Older, Fresh
<1>2. CASE NextRow
  BY <1>2 DEF NextRow, others, NoTwins, Apart, Older, Fresh
<1>3. CASE Finish
  <2>1. UNCHANGED <<table, view, kept, writes>> /\ pc = "reading" /\ pc' # "reading"
    BY <1>3 DEF Finish, others
  <2>2. Apart(table)' /\ Older(table)' /\ \A r \in kept' : r < Fresh'
    BY <2>1 DEF NoTwins, Apart, Older, Fresh
  <2>3. ASSUME NEW i \in 1 .. Len(got') PROVE got'[i] < Fresh
    <3>1. CASE i <= Len(got)
      <4>1. i \in 1 .. Len(got) /\ got'[i] = got[i]
        BY <1>3, <3>1, FinishAdds, Typed
      <4>. QED
        BY <4>1 DEF NoTwins, Older
    <3>2. CASE i > Len(got)
      <4>1. cursor + (i - Len(got)) \in 1 .. Len(view) /\ got'[i] = view[cursor + i - Len(got)]
        BY <1>3, <3>2, FinishAdds, Typed
      <4>2. cursor + (i - Len(got)) = cursor + i - Len(got)
        BY Typed
      <4>. QED
        BY <2>1, <4>1, <4>2 DEF NoTwins, Older
    <3>. QED
      BY <1>3, <3>1, <3>2, FinishAdds, Typed
  <2>. QED
    BY <2>1, <2>2, <2>3 DEF NoTwins, Older, Fresh
<1>4. CASE QueryFails
  BY <1>4 DEF QueryFails, others, NoTwins, Apart, Older, Fresh
<1>5. CASE Write
  <2>1. UNCHANGED <<view, pc, got>> /\ Fresh' = Fresh + 1 /\ Fresh \in Nat
    BY <1>5, Numbers DEF Write, page, Fresh, Paged, TypeOK
  <2>2. Older(got)' /\ (pc' = "reading" => Apart(view)' /\ Older(view)')
    BY <2>1, Typed DEF NoTwins, Apart, Older
  <2>3. \A r \in kept' : r < Fresh'
    <3>1. kept' \subseteq kept
      BY <1>5 DEF Write, Insert, Delete
    <3>. QED
      BY <2>1, <3>1, Typed DEF NoTwins
  <2>4. CASE Insert
    <3>1. PICK n : IsInserted(table, table', n, Fresh)
      BY <1>5, <2>4, InsertPlaces
    <3>2. Apart(table)' /\ \A i \in 1 .. Len(table') : table'[i] < Fresh + 1
      <4>1. Apart(table) /\ \A i \in 1 .. Len(table) : table[i] \in Nat /\ table[i] < Fresh
        BY Typed DEF NoTwins, Older
      <4>2. Fresh \in Nat /\ Len(table) \in Nat
        BY Typed
      <4>. QED
        BY <3>1, <4>1, <4>2, InsertKeepsApart, Zenon DEF Apart
    <3>. QED
      BY <2>1, <2>2, <2>3, <3>2 DEF NoTwins, Older
  <2>5. CASE Delete
    <3>1. PICK n : IsRemoved(table, table', n)
      BY <1>5, <2>5, DeletePlaces
    <3>2. Apart(table)'
      BY <3>1, Typed, RemoveKeepsApart DEF NoTwins, Apart
    <3>3. ASSUME NEW k \in 1 .. Len(table') PROVE table'[k] < Fresh + 1
      <4>1. PICK i \in 1 .. Len(table) : table'[k] = table[i]
        BY <3>1, Typed, RemoveOrigin
      <4>. QED
        BY <4>1, Typed DEF NoTwins, Older
    <3>. QED
      BY <2>1, <2>2, <2>3, <3>2, <3>3 DEF NoTwins, Older
  <2>. QED
    BY <1>5, <2>4, <2>5 DEF Write
<1>6. CASE UNCHANGED vars
  BY <1>6 DEF vars, page, others, NoTwins, Apart, Older, Fresh
<1>. QED
  BY <1>1, <1>2, <1>3, <1>4, <1>5, <1>6 DEF Next

\* The rows that the caller has after a page.
LEMMA FinishElements ==
  ASSUME Paged, Finish, NEW r
  PROVE  r \in Elements(got') <=>
           r \in Elements(got) \/ \E i \in 1 .. Len(rows) : r = view[cursor + i]
<1>. DEFINE m == Len(got)
<1>1. m \in Nat /\ Len(rows) \in Nat /\ cursor \in Nat
  BY Typed DEF Paged, TypeOK
<1>2. DOMAIN got = 1 .. m
  BY DEF Paged, TypeOK
<1>3. DOMAIN got' = 1 .. m + Len(rows)
  BY FinishAdds
<1>4. \A i \in 1 .. m : got'[i] = got[i]
  BY <1>1, <1>3, FinishAdds
<1>5. ASSUME NEW i \in 1 .. Len(rows) PROVE got'[m + i] = view[cursor + i]
  <2>1. m + i \in 1 .. m + Len(rows) /\ m + i > m /\ cursor + (m + i) - m = cursor + i
    BY <1>1
  <2>. QED
    BY <2>1, FinishAdds
<1>6. \A i \in 1 .. m + Len(rows) : i \in 1 .. m \/ \E k \in 1 .. Len(rows) : i = m + k
  <2>1. ASSUME NEW i \in 1 .. m + Len(rows), i > m PROVE i - m \in 1 .. Len(rows) /\ i = m + (i - m)
    BY <1>1, <2>1
  <2>. QED
    BY <1>1, <2>1
<1>7. \A k \in 1 .. Len(rows) : m + k \in 1 .. m + Len(rows)
  BY <1>1
<1>8. \A k \in 1 .. m : k \in 1 .. m + Len(rows)
  BY <1>1
<1>. HIDE DEF m
<1>. QED
  BY <1>2, <1>3, <1>4, <1>5, <1>6, <1>7, <1>8 DEF Elements

LEMMA NextNoneReturns ==
  ASSUME Paged, NoTwins, NoneReturns, [Next]_vars
  PROVE  NoneReturns'
<1>. SUFFICES ASSUME ~squeezed'
              PROVE  /\ Apart(got)'
                     /\ pc' # "end" => Ahead(table)'
                     /\ pc' = "reading" => Ahead(view)' /\ MovedDown(view, table)'
  BY DEF NoneReturns
<1>1. CASE Query
  <2>1. MovedDown(table, table)
    BY Typed DEF NoTwins, Apart, MovedDown
  <2>. QED
    BY <1>1, <2>1 DEF Query, others, NoneReturns, Ahead, Apart, MovedDown
<1>2. CASE NextRow
  BY <1>2 DEF NextRow, others, NoneReturns, Ahead, Apart, MovedDown
<1>3. CASE Finish
  <2>1. /\ UNCHANGED <<table, view, squeezed>> /\ pc = "reading" /\ pc' # "reading"
        /\ Apart(got) /\ Ahead(table) /\ Ahead(view) /\ MovedDown(view, table)
    BY <1>3 DEF Finish, others, NoneReturns
  <2>2. Len(rows) \in Nat
    BY DEF Paged, TypeOK
  <2>3. ASSUME NEW i \in 1 .. Len(got'), NEW j \in 1 .. Len(got'), got'[i] = got'[j], i < j
        PROVE  FALSE
    <3>1. CASE j <= Len(got)
      <4>1. i \in 1 .. Len(got) /\ j \in 1 .. Len(got) /\ got'[i] = got[i] /\ got'[j] = got[j]
        BY <1>3, <2>3, <3>1, FinishAdds, Typed
      <4>2. i = j
        BY <2>1, <2>3, <4>1, Zenon DEF Apart
      <4>. QED
        BY <2>3, <4>2
    <3>2. CASE j > Len(got)
      <4>1. PICK k \in 1 .. Len(rows) : j = Len(got) + k /\ got'[j] = view[cursor + k]
        <5>1. j - Len(got) \in 1 .. Len(rows) /\ j = Len(got) + (j - Len(got))
              /\ cursor + j - Len(got) = cursor + (j - Len(got))
          BY <1>3, <2>2, <3>2, FinishAdds, Typed
        <5>. QED
          BY <1>3, <3>2, <5>1, FinishAdds
      <4>2. cursor + k \in 1 .. Len(view) /\ cursor + k > cursor
        BY <1>3, FinishAdds, Typed
      <4>3. CASE i <= Len(got)
        <5>1. i \in DOMAIN got /\ got'[i] = got[i]
          BY <1>3, <4>3, FinishAdds, Typed DEF Paged, TypeOK
        <5>. QED
          BY <2>1, <2>3, <4>1, <4>2, <5>1 DEF Ahead, Elements
      <4>4. CASE i > Len(got)
        <5>1. PICK l \in 1 .. Len(rows) : i = Len(got) + l /\ got'[i] = view[cursor + l]
          <6>1. i - Len(got) \in 1 .. Len(rows) /\ i = Len(got) + (i - Len(got))
                /\ cursor + i - Len(got) = cursor + (i - Len(got))
            BY <1>3, <2>2, <4>4, FinishAdds, Typed
          <6>. QED
            BY <1>3, <4>4, <6>1, FinishAdds
        <5>2. cursor + l \in 1 .. Len(view)
          BY <1>3, FinishAdds
        <5>3. cursor + l = cursor + k
          BY <2>1, <2>3, <4>1, <4>2, <5>1, <5>2 DEF NoTwins, Apart
        <5>. QED
          BY <2>2, <2>3, <4>1, <5>1, <5>3, Typed
      <4>. QED
        BY <4>3, <4>4, Typed
    <3>. QED
      BY <3>1, <3>2, <1>3, FinishAdds, Typed
  <2>4. Apart(got)'
    BY <1>3, <2>2, <2>3, FinishAdds, Typed DEF Apart
  <2>5. ASSUME pc' # "end", NEW i \in 1 .. Len(table), i > cursor'
        PROVE  table[i] \notin Elements(got')
    <3>1. cursor' = cursor + Len(rows)
      BY <1>3, <2>5, FinishAdds
    <3>2. table[i] \notin Elements(got)
      BY <2>1, <2>2, <2>5, <3>1, Typed DEF Ahead
    <3>3. ASSUME NEW k \in 1 .. Len(rows), table[i] = view[cursor + k] PROVE FALSE
      <4>1. cursor + k \in 1 .. Len(view)
        BY <1>3, FinishAdds
      <4>2. i <= cursor + k
        BY <2>1, <3>3, <4>1 DEF MovedDown
      <4>. QED
        BY <2>2, <2>5, <3>1, <4>2, Typed
    <3>. QED
      BY <1>3, <3>2, <3>3, FinishElements
  <2>. QED
    BY <2>1, <2>4, <2>5 DEF Ahead
<1>4. CASE QueryFails
  BY <1>4 DEF QueryFails, others, NoneReturns, Ahead, Apart, MovedDown
<1>5. CASE Write
  <2>1. UNCHANGED <<view, pc, got, cursor>>
    BY <1>5 DEF Write, page
  <2>2. pc # "end"
    BY <1>5 DEF Write
  <2>3. CASE Insert
    <3>1. PICK n : IsInserted(table, table', n, Fresh) /\ ~squeezed /\ n = Len(table)
      BY <1>5, <2>3, InsertPlaces
    <3>2. /\ \A i \in 1 .. Len(table) : table'[i] = table[i]
          /\ Len(table') = Len(table) + 1 /\ table'[Len(table) + 1] = Fresh
      BY <3>1, Typed DEF IsInserted
    <3>3. Apart(got) /\ Ahead(table) /\ (pc = "reading" => Ahead(view) /\ MovedDown(view, table))
      BY <2>2, <3>1 DEF NoneReturns
    <3>4. Fresh \notin Elements(got)
      BY Typed DEF NoTwins, Older, Elements, Paged, TypeOK
    <3>5. Ahead(table)'
      <4>1. \A i \in 1 .. Len(table) + 1 : i > cursor => table'[i] \notin Elements(got)
        <5>1. \A i \in 1 .. Len(table) : i > cursor => table[i] \notin Elements(got)
          BY <3>3 DEF Ahead
        <5>2. \A i \in 1 .. Len(table) + 1 : i \in 1 .. Len(table) \/ i = Len(table) + 1
          BY Typed
        <5>. QED
          BY ONLY <3>2, <3>4, <5>1, <5>2
      <4>2. cursor' = cursor /\ Elements(got)' = Elements(got)
        BY <2>1 DEF Elements
      <4>. QED
        BY <3>2, <4>1, <4>2 DEF Ahead
    <3>6. pc = "reading" => MovedDown(view, table')
      <4>1. pc = "reading" => \A i \in 1 .. Len(view) : view[i] # Fresh
        BY Typed DEF NoTwins, Older
      <4>2. ASSUME pc = "reading", NEW i \in 1 .. Len(view), NEW j \in 1 .. Len(table'),
                   view[i] = table'[j]
            PROVE  j <= i
        <5>1. j # Len(table) + 1
          BY <3>2, <4>1, <4>2
        <5>2. j \in 1 .. Len(table) /\ table'[j] = table[j]
          BY <3>2, <5>1, Typed
        <5>. QED
          BY <3>3, <4>2, <5>2 DEF MovedDown
      <4>. QED
        BY <4>2 DEF MovedDown
    <3>. QED
      BY <2>1, <3>3, <3>5, <3>6 DEF Ahead, Apart, MovedDown
  <2>4. CASE Delete
    <3>1. PICK n : IsRemoved(table, table', n)
      BY <1>5, <2>4, DeletePlaces
    <3>2. ~squeezed
      BY <2>4 DEF Delete
    <3>3. Apart(got) /\ Ahead(table) /\ (pc = "reading" => Ahead(view) /\ MovedDown(view, table))
      BY <2>2, <3>2 DEF NoneReturns
    <3>4. ASSUME NEW k \in 1 .. Len(table')
          PROVE  \E i \in 1 .. Len(table) : table'[k] = table[i] /\ k <= i
      BY <3>1, Typed, RemoveOrigin
    <3>5. Len(table') \in Nat
      BY <3>1, Typed DEF IsRemoved
    <3>6. Ahead(table)'
      <4>1. ASSUME NEW k \in 1 .. Len(table'), k > cursor PROVE table'[k] \notin Elements(got)
        <5>1. PICK i \in 1 .. Len(table) : table'[k] = table[i] /\ k <= i
          BY <3>4
        <5>2. i > cursor
          BY <4>1, <5>1, Typed
        <5>. QED
          BY <3>3, <5>1, <5>2 DEF Ahead
      <4>. QED
        BY <2>1, <4>1 DEF Ahead
    <3>7. pc = "reading" => MovedDown(view, table')
      <4>1. ASSUME pc = "reading", NEW j \in 1 .. Len(view), NEW k \in 1 .. Len(table'),
                   view[j] = table'[k]
            PROVE  k <= j
        <5>1. PICK i \in 1 .. Len(table) : table'[k] = table[i] /\ k <= i
          BY <3>4
        <5>2. i <= j
          BY <3>3, <4>1, <5>1 DEF MovedDown
        <5>. QED
          BY <5>1, <5>2, Typed
      <4>. QED
        BY <4>1 DEF MovedDown
    <3>. QED
      BY <2>1, <3>3, <3>6, <3>7 DEF Ahead, Apart, MovedDown
  <2>. QED
    BY <1>5, <2>3, <2>4 DEF Write
<1>6. CASE UNCHANGED vars
  BY <1>6 DEF vars, page, others, NoneReturns, Ahead, Apart, MovedDown
<1>. QED
  BY <1>1, <1>2, <1>3, <1>4, <1>5, <1>6 DEF Next

LEMMA NextNoneEscapes ==
  ASSUME Paged, NoTwins, NoneEscapes, [Next]_vars
  PROVE  NoneEscapes'
<1>. SUFFICES ASSUME ~deleted'
              PROVE  /\ pc' # "end" => Passed(table)'
                     /\ pc' = "reading" => Passed(view)' /\ MovedDown(table, view)'
                     /\ pc' = "end" => kept' \subseteq Elements(got')
  BY DEF NoneEscapes
<1>1. CASE Query
  <2>1. MovedDown(table, table)
    BY Typed DEF NoTwins, Apart, MovedDown
  <2>. QED
    BY <1>1, <2>1 DEF Query, others, NoneEscapes, Passed, MovedDown
<1>2. CASE NextRow
  BY <1>2 DEF NextRow, others, NoneEscapes, Passed, MovedDown
<1>3. CASE Finish
  <2>1. /\ UNCHANGED <<table, view, kept>> /\ pc = "reading" /\ pc' # "reading"
        /\ Passed(table) /\ Passed(view) /\ MovedDown(table, view)
    BY <1>3 DEF Finish, others, NoneEscapes
  <2>2. Len(rows) \in Nat /\ DOMAIN view = 1 .. Len(view)
    BY DEF Paged, TypeOK
  <2>3. ASSUME NEW j \in 1 .. Len(view), view[j] \in kept, j <= cursor + Len(rows)
        PROVE  view[j] \in Elements(got')
    <3>1. CASE j <= cursor
      <4>1. view[j] \in Elements(got)
        BY <2>1, <2>3, <3>1 DEF Passed
      <4>. QED
        BY <1>3, <4>1, FinishElements
    <3>2. CASE j > cursor
      <4>1. j - cursor \in 1 .. Len(rows) /\ j = cursor + (j - cursor)
        BY <2>2, <2>3, <3>2, Typed
      <4>. QED
        BY <1>3, <4>1, FinishElements
    <3>. QED
      BY <3>1, <3>2, Typed
  <2>4. ASSUME NEW r \in kept PROVE \E j \in 1 .. Len(view) : r = view[j]
    BY <2>1, <2>2 DEF Passed, Elements
  <2>5. pc' = "end" => kept \subseteq Elements(got')
    <3>1. ASSUME pc' = "end", NEW r \in kept PROVE r \in Elements(got')
      <4>1. PICK j \in 1 .. Len(view) : r = view[j]
        BY <2>4
      <4>2. j <= cursor + Len(rows)
        BY <1>3, <2>2, <3>1, FinishAdds, Typed
      <4>. QED
        BY <2>3, <4>1, <4>2
    <3>. QED
      BY <3>1
  <2>6. ASSUME pc' # "end", NEW i \in 1 .. Len(table), i <= cursor', table[i] \in kept
        PROVE  table[i] \in Elements(got')
    <3>1. cursor' = cursor + Len(rows)
      BY <1>3, <2>6, FinishAdds
    <3>2. PICK j \in 1 .. Len(view) : table[i] = view[j]
      BY <2>4, <2>6
    <3>3. j <= i
      BY <2>1, <3>2 DEF MovedDown
    <3>. QED
      BY <2>2, <2>3, <2>6, <3>1, <3>2, <3>3, Typed
  <2>. QED
    BY <2>1, <2>5, <2>6 DEF Passed
<1>4. CASE QueryFails
  BY <1>4 DEF QueryFails, others, NoneEscapes, Passed, MovedDown
<1>5. CASE Write
  <2>1. UNCHANGED <<view, pc, got, cursor>>
    BY <1>5 DEF Write, page
  <2>2. pc # "end" /\ Insert /\ UNCHANGED <<kept, deleted>>
    BY <1>5 DEF Write, Insert, Delete
  <2>3. PICK n : IsInserted(table, table', n, Fresh)
    BY <1>5, <2>2, InsertPlaces
  <2>4. Passed(table) /\ (pc = "reading" => Passed(view) /\ MovedDown(table, view))
    BY <2>2 DEF NoneEscapes
  <2>5. Fresh \notin kept /\ (pc = "reading" => \A i \in 1 .. Len(view) : view[i] # Fresh)
    BY Typed DEF NoTwins, Older
  <2>6. ASSUME NEW k \in 1 .. Len(table'), table'[k] # Fresh
        PROVE  \E i \in 1 .. Len(table) : table'[k] = table[i] /\ i <= k
    BY <2>3, <2>6, Typed, InsertOrigin
  <2>7. ASSUME NEW i \in 1 .. Len(table)
        PROVE  \E k \in 1 .. Len(table') : table'[k] = table[i]
    <3>1. CASE i <= n
      BY <2>3, <3>1, Typed DEF IsInserted
    <3>2. CASE i > n
      <4>1. i \in n + 1 .. Len(table) /\ i + 1 \in 1 .. Len(table')
        BY <2>3, <3>2, Typed DEF IsInserted
      <4>. QED
        BY <2>3, <4>1 DEF IsInserted
    <3>. QED
      BY <2>3, <3>1, <3>2, Typed DEF IsInserted
  <2>8. DOMAIN table = 1 .. Len(table) /\ DOMAIN table' = 1 .. Len(table')
    <3>1. Paged'
      BY <1>5, WriteKeeps
    <3>. QED
      BY <3>1 DEF Paged, TypeOK
  <2>9. kept \subseteq Elements(table')
    BY <2>4, <2>7, <2>8 DEF Passed, Elements
  <2>10. ASSUME NEW k \in 1 .. Len(table'), k <= cursor, table'[k] \in kept
         PROVE  table'[k] \in Elements(got)
    <3>1. PICK i \in 1 .. Len(table) : table'[k] = table[i] /\ i <= k
      BY <2>5, <2>6, <2>10
    <3>2. i <= cursor
      BY <2>10, <3>1, Typed
    <3>. QED
      BY <2>4, <2>10, <3>1, <3>2 DEF Passed
  <2>11. ASSUME pc = "reading", NEW k \in 1 .. Len(table'), NEW j \in 1 .. Len(view),
                table'[k] = view[j]
         PROVE  j <= k
    <3>1. PICK i \in 1 .. Len(table) : table'[k] = table[i] /\ i <= k
      BY <2>5, <2>6, <2>11
    <3>2. j <= i
      BY <2>4, <2>11, <3>1 DEF MovedDown
    <3>. QED
      BY <3>1, <3>2, Typed
  <2>. QED
    BY <2>1, <2>2, <2>4, <2>9, <2>10, <2>11 DEF Passed, MovedDown
<1>6. CASE UNCHANGED vars
  BY <1>6 DEF vars, page, others, NoneEscapes, Passed, MovedDown
<1>. QED
  BY <1>1, <1>2, <1>3, <1>4, <1>5, <1>6 DEF Next

\* An empty table that has been read.
LEMMA RestIInv == PageRests => IInv
<1>. SUFFICES ASSUME PageRests PROVE IInv
  OBVIOUS
<1>1. /\ table = <<>> /\ view = <<>> /\ rows = <<>> /\ got = <<>> /\ kept = {}
      /\ pc = "end" /\ cursor = 0 /\ seen = 0 /\ size = 0 /\ writes = 0 /\ fails = 0
  BY DEF PageRests
<1>2. truncated \in BOOLEAN /\ squeezed \in BOOLEAN /\ deleted \in BOOLEAN
  BY Zenon DEF PageRests
<1>3. <<>> \in Seq(Rows) /\ Len(<<>>) = 0
  OBVIOUS
<1>4. TypeOK
  <2>1. table \in Seq(Rows) /\ view \in Seq(Rows) /\ rows \in Seq(Rows) /\ got \in Seq(Rows) /\ kept \subseteq Rows
    BY <1>1, <1>3
  <2>2. pc \in {"idle", "reading", "end"}
    BY <1>1
  <2>3. cursor \in Nat /\ seen \in Nat /\ size \in Int /\ writes \in Nat /\ fails \in Nat
    BY <1>1
  <2>. QED
    BY <1>2, <2>1, <2>2, <2>3, Zenon DEF TypeOK
<1>5. Paged
  BY <1>1, <1>3, <1>4, Numbers DEF Paged, PageIsSlice, Growing, IsPrefixOf
<1>6. NoTwins
  BY <1>1, <1>3 DEF NoTwins, Apart, Older
<1>7. NoneReturns
  BY <1>1, <1>3 DEF NoneReturns, Apart
<1>8. NoneEscapes
  BY <1>1 DEF NoneEscapes
<1>. QED
  BY <1>5, <1>6, <1>7, <1>8 DEF IInv

LEMMA InitIInv == Init \/ PageRests => IInv
BY InitPaged, InitRest, RestIInv DEF IInv

LEMMA NextIInv == IInv /\ [Next]_vars => IInv'
BY NextPaged, NextNoTwins, NextNoneReturns, NextNoneEscapes DEF IInv

\* Of paging alone, and beside a schema.
THEOREM Invariance == (Spec => []IInv) /\ (ReadsSpec => []IInv)
<1>1. Spec => []IInv
  BY InitIInv, NextIInv, PTL DEF Spec
<1>2. ReadsInit => IInv
  BY InitIInv DEF ReadsInit
<1>3. [ReadsNext]_<<vars, schema>> => [Next]_vars
  BY DEF ReadsNext
<1>4. ReadsSpec => []IInv
  BY <1>2, <1>3, NextIInv, PTL DEF ReadsSpec
<1>. QED
  BY <1>1, <1>4

\* The row loop returns exactly the slice it was asked for and reports
\* truncation exactly when rows lie beyond it, for every page size, cursor
\* and result (queryWithRunner).
THEOREM SliceCorrect == (Spec => []PageIsSlice) /\ (ReadsSpec => []PageIsSlice)
BY Invariance, PTL DEF IInv, Paged

\* Paging through a table that only grows at its end yields a prefix of it,
\* whatever queries fail and are asked again (queryWithRunner, nextCursor).
THEOREM PrefixCorrect == (Spec => []PagesArePrefix) /\ (ReadsSpec => []PagesArePrefix)
<1>1. IInv => PagesArePrefix
  BY DEF IInv, Paged, Growing, PagesArePrefix, IsPrefixOf
<1>. QED
  BY <1>1, Invariance, PTL

\* As long as rows are inserted at the end alone, no row comes twice, whatever
\* rows are deleted between the pages and whatever queries are asked again.
THEOREM RepeatedCorrect == (Spec => []NothingRepeated) /\ (ReadsSpec => []NothingRepeated)
<1>1. IInv => NothingRepeated
  BY DEF IInv, NoneReturns, Apart, NothingRepeated
<1>. QED
  BY <1>1, Invariance, PTL

\* As long as no row is deleted, the last page leaves the caller with every
\* row that was there from the beginning, wherever others insert rows.
THEOREM SkippedCorrect == (Spec => []NothingSkipped) /\ (ReadsSpec => []NothingSkipped)
<1>1. IInv => NothingSkipped
  BY DEF IInv, NoneEscapes, NothingSkipped
<1>. QED
  BY <1>1, Invariance, PTL

-----------------------------------------------------------------------------
(* Inspection: the invariant.                                              *)

Fields == {"cols", "flagged", "pk", "uniques", "fks", "tables", "scanned", "relations"}

\* Where a call of either kind and engine may stand.
LookTyped ==
  /\ call \in Calls
  /\ looked \in Seq(Catalogs) /\ Len(looked) > 0 /\ catalog = looked[Len(looked)]
  /\ call.what = "table" => step \in {"columns", "keys", "pk", "indexes", "index", "end"}
  /\ call.what = "schema" => step \in {"schemas", "tables", "relations", "relation", "end"}
  /\ step = "keys" => call.engine # "sqlite"
  /\ step \in {"pk", "indexes", "index", "relation"} => call.engine = "sqlite"
  /\ catalog \in Look!Possible(call.engine)
  /\ step # "end" => answer = "none"
  /\ step \notin {"index", "relation", "end"} => todo = {}
  /\ DOMAIN found = Fields

\* What has been read of a table, and when: the schemas i, j and k of h.
ColumnsRead(h, i) == i \in DOMAIN h /\ found.cols = h[i][call.table].cols
PkRead(h, j) == j \in DOMAIN h /\ found.pk = Look!PrimaryKey(h[j], call.table)
Flags(h, i) == found.flagged = Look!PrimaryKey(h[i], call.table)
IndexNames(h, k) == {u.name : u \in Look!Declared(call.engine, h[k], call.table, "unique")}
IndexesRead(h, k) ==
  /\ k \in DOMAIN h
  /\ {u.name : u \in found.uniques} \cup todo = IndexNames(h, k)
  /\ ctx = "live" => \A u \in found.uniques : \E m \in k .. Len(h) : u.cols = Look!IndexCols(h[m], u.name)

TableRead ==
  /\ step \in {"columns", "keys", "pk", "indexes"} => found.uniques = {}
  /\ step = "keys" => \E i \in DOMAIN looked : ColumnsRead(looked, i) /\ found.flagged = {}
  /\ step = "pk" => \E i \in DOMAIN looked : ColumnsRead(looked, i) /\ Flags(looked, i)
  /\ step = "indexes" =>
       \E i, j \in DOMAIN looked :
         i <= j /\ ColumnsRead(looked, i) /\ Flags(looked, i) /\ PkRead(looked, j)
  /\ step = "index" =>
       \E i, j, k \in DOMAIN looked :
         /\ i <= j /\ j <= k
         /\ ColumnsRead(looked, i) /\ Flags(looked, i) /\ PkRead(looked, j) /\ IndexesRead(looked, k)
  /\ Look!DescribedAsItWas

\* What has been listed: the tables, and in SQLite's loop the relations of those
\* that are done.
TablesListed(h) ==
  \E i \in DOMAIN h :
    IF call.schema THEN found.tables = Look!TablesOf(h[i])
    ELSE found.tables \in Look!Beginnings(Look!TablesOf(h[i]))

Done == found.scanned \ todo
LastDone(t) == ctx # "live" /\ t \in Done /\ \A u \in Done \ {t} : Look!Earlier(u, t)

WasDeclared(h, r) ==
  \E i \in DOMAIN h :
    \/ r \in Look!Declared(call.engine, h[i], r.from, "fk")
    \/ LastDone(r.from) /\ \E d \in Look!Declared(call.engine, h[i], r.from, "fk") : r \in Look!Cuts(d)
AllRead(h, t) == \E i \in DOMAIN h : Look!Declared(call.engine, h[i], t, "fk") \subseteq found.relations

LoopSoFar(h) ==
  /\ \E i \in DOMAIN h : found.scanned = Look!TablesOf(h[i])
  /\ todo \subseteq found.scanned
  /\ \A u \in Done, w \in todo : Look!Earlier(u, w)
  /\ \A r \in found.relations : r.from \in Done /\ WasDeclared(h, r)
  /\ \A t \in Done : LastDone(t) \/ AllRead(h, t)

SchemaRead ==
  /\ step \in {"schemas", "tables", "relations"} => found.relations = {}
  /\ step \in {"relations", "relation"} => TablesListed(looked)
  /\ step = "relation" => LoopSoFar(looked)
  /\ call.what = "schema" /\ answer = "ok" =>
       /\ step = "end" /\ TablesListed(looked)
       /\ IF call.engine = "sqlite" THEN LoopSoFar(looked) /\ todo = {}
          ELSE \E i \in DOMAIN looked : found.relations = Look!Relations(call.engine, looked[i])

LookIInv ==
  /\ answer = "err" => step = "end"
  /\ answer # "err" => LookTyped /\ TableRead /\ SchemaRead

-----------------------------------------------------------------------------
(* Inspection: what the queries say of a catalogue.                        *)

\* PostgreSQL's join tells the columns of a key, where no other constraint has
\* its name.
LEMMA JoinedIsView ==
  ASSUME NEW c, Look!IsCatalog(c), NEW t \in Look!Table, NEW k \in c[t].keys,
         \A u \in Look!Table : \A m \in c[u].keys : m.name = k.name => m = k
  PROVE  Look!Joined(c, k.name, t, Look!ToSet(k.cols))
           = Look!View("postgres", [name |-> k.name, from |-> t, ref |-> k.ref, cols |-> k.cols, refs |-> k.refs])
<1>1. Look!Named(c, k.name) = {k}
  <2>1. \A m \in Look!Named(c, k.name) : m = k
    BY DEF Look!Named
  <2>2. k \in Look!Named(c, k.name)
    BY DEF Look!Named
  <2>. QED
    BY <2>1, <2>2
<1>2. Look!Used(c, k.name) = {[table |-> k.ref, col |-> x] : x \in Look!ToSet(k.refs)}
  BY <1>1 DEF Look!Used
<1>3. Look!ToSet(k.refs) # {}
  <2>1. Look!IsKeyOf(t, k)
    BY DEF Look!IsCatalog
  <2>2. 1 \in DOMAIN k.refs
    BY <2>1 DEF Look!IsKeyOf
  <2>. QED
    BY <2>2 DEF Look!ToSet
<1>4. (CHOOSE u \in Look!Used(c, k.name) : TRUE).table = k.ref
  <2>1. \E u \in Look!Used(c, k.name) : TRUE
    BY <1>2, <1>3
  <2>2. (CHOOSE u \in Look!Used(c, k.name) : TRUE) \in Look!Used(c, k.name)
    BY <2>1
  <2>3. \A u \in Look!Used(c, k.name) : u.table = k.ref
    BY <1>2
  <2>. QED
    BY <2>2, <2>3
<1>5. {u.col : u \in Look!Used(c, k.name)} = Look!ToSet(k.refs)
  <2>1. ASSUME NEW x \in Look!ToSet(k.refs) PROVE x \in {u.col : u \in Look!Used(c, k.name)}
    <3>1. [table |-> k.ref, col |-> x] \in Look!Used(c, k.name)
      BY <1>2
    <3>2. [table |-> k.ref, col |-> x].col = x
      OBVIOUS
    <3>. QED
      BY <3>1, <3>2
  <2>2. ASSUME NEW u \in Look!Used(c, k.name) PROVE u.col \in Look!ToSet(k.refs)
    BY <1>2
  <2>. QED
    BY <2>1, <2>2
<1>6. Look!Joined(c, k.name, t, Look!ToSet(k.cols))
        = [name |-> k.name, from |-> t, ref |-> k.ref, cols |-> Look!ToSet(k.cols), refs |-> Look!ToSet(k.refs)]
  BY <1>4, <1>5, Zenon DEF Look!Joined
<1>. DEFINE d == [name |-> k.name, from |-> t, ref |-> k.ref, cols |-> k.cols, refs |-> k.refs]
<1>7. Look!View("postgres", d)
        = [name |-> k.name, from |-> t, ref |-> k.ref, cols |-> Look!ToSet(k.cols), refs |-> Look!ToSet(k.refs)]
  <2>1. Look!View("postgres", d) = [d EXCEPT !.cols = Look!ToSet(d.cols), !.refs = Look!ToSet(d.refs)]
    BY Zenon DEF Look!View
  <2>. QED
    BY <2>1
<1>. QED
  BY <1>6, <1>7

\* Where names tell constraints apart, the queries say what was declared.
LEMMA ViewElsewhere ==
  ASSUME NEW e, e # "postgres", NEW ks
  PROVE  Look!Views(e, ks) = ks
BY SMT DEF Look!Views, Look!View

LEMMA DeclaredPostgres ==
  ASSUME NEW c, NEW t, NEW kind
  PROVE  Look!Declared("postgres", c, t, kind)
           = {[name |-> k.name, from |-> t, ref |-> k.ref, cols |-> k.cols, refs |-> k.refs] : k \in Look!Keys(c, t, kind)}
<1>1. "postgres" # "sqlite"
  OBVIOUS
<1>. QED
  BY <1>1, SMT DEF Look!Declared

\* The keys of one kind that were read: PostgreSQL.
LEMMA PostgresKeys ==
  ASSUME NEW c \in Look!Possible("postgres"), Look!IsCatalog(c), NEW t \in Look!Table, NEW kind
  PROVE  Look!KeysAsDeclared("postgres", c, t, kind, Look!KeySet("postgres", c, t, kind))
<1>. DEFINE J(k) == Look!Joined(c, k.name, t, Look!ToSet(k.cols))
            ks == Look!Keys(c, t, kind)
            read == Look!KeySet("postgres", c, t, kind)
<1>1. read = {J(k) : k \in ks}
  BY DEF Look!KeySet
<1>2. ks \subseteq c[t].keys
  BY DEF Look!Keys
<1>3. \A k : J(k).name = k.name /\ J(k).cols = Look!ToSet(k.cols) /\ J(k).refs = {u.col : u \in Look!Used(c, k.name)}
  BY DEF Look!Joined
<1>4. \A k, m \in c[t].keys : k.name = m.name => k = m
  <2>1. \A k, m \in c[t].keys : Look!Takes("postgres", t, k, t, m)
    BY DEF Look!Takes
  <2>. QED
    BY <2>1 DEF Look!Possible
<1>5. {g.name : g \in read} = {k.name : k \in ks}
  <2>. HIDE DEF J, ks
  <2>. QED
    BY <1>1, <1>3
<1>6. ASSUME NEW k \in ks, NEW g \in read, g.name = k.name
      PROVE  /\ Look!Covers("postgres", k, g)
             /\ Look!ReadApart("postgres", c, t, k) => g = Look!AsDeclared("postgres", t, k)
  <2>1. g = J(k)
    <3>1. PICK m \in ks : g = J(m)
      BY <1>1
    <3>2. m.name = k.name
      BY <1>3, <1>6, <3>1
    <3>. QED
      BY <1>2, <1>4, <3>1, <3>2
  <2>2. Look!Covers("postgres", k, g)
    <3>1. k \in Look!Named(c, k.name)
      BY <1>2 DEF Look!Named
    <3>2. \A x \in Look!ToSet(k.refs) : [table |-> k.ref, col |-> x] \in Look!Used(c, k.name)
      BY <3>1 DEF Look!Used
    <3>3. \A x : [table |-> k.ref, col |-> x].col = x
      OBVIOUS
    <3>4. \A x \in Look!ToSet(k.refs) : x \in {u.col : u \in Look!Used(c, k.name)}
      BY <3>2, <3>3
    <3>5. "postgres" # "mysql"
      OBVIOUS
    <3>6. g.cols = Look!ToSet(k.cols) /\ Look!ToSet(k.refs) \subseteq g.refs
      BY <1>3, <2>1, <3>4
    <3>. QED
      BY <3>5, <3>6 DEF Look!Covers
  <2>3. ASSUME Look!ReadApart("postgres", c, t, k) PROVE g = Look!AsDeclared("postgres", t, k)
    <3>1. \A u \in Look!Table : \A m \in c[u].keys : m.name = k.name => m = k
      BY <2>3 DEF Look!ReadApart
    <3>2. J(k) = Look!View("postgres", [name |-> k.name, from |-> t, ref |-> k.ref, cols |-> k.cols, refs |-> k.refs])
      BY <1>2, <3>1, JoinedIsView
    <3>3. "postgres" # "mysql"
      OBVIOUS
    <3>. QED
      BY <2>1, <3>2, <3>3, Zenon DEF Look!AsDeclared
  <2>. QED
    BY <2>2, <2>3
<1>. QED
  BY <1>5, <1>6 DEF Look!KeysAsDeclared

\* And MySQL.
LEMMA MySQLKeys ==
  ASSUME NEW e, e = "mysql", NEW c \in Look!Possible(e), NEW t \in Look!Table,
         NEW kind \in {"unique", "fk"}
  PROVE  Look!KeysAsDeclared(e, c, t, kind, Look!KeySet(e, c, t, kind))
<1>. DEFINE G(k) == Look!Listed(t, k.name, UNION {Look!Rows(m) : m \in Look!OfName(c, t, k.name)})
            ks == Look!Keys(c, t, kind)
            read == Look!KeySet(e, c, t, kind)
<1>1. read = {G(k) : k \in ks}
  BY DEF Look!KeySet
<1>2. ks \subseteq c[t].keys
  BY DEF Look!Keys
<1>3. \A k : G(k).name = k.name /\ G(k).rows = UNION {Look!Rows(m) : m \in Look!OfName(c, t, k.name)}
  BY DEF Look!Listed
<1>4. {g.name : g \in read} = {k.name : k \in ks}
  <2>. HIDE DEF G, ks
  <2>. QED
    BY <1>1, <1>3
<1>5. ASSUME NEW k \in ks, NEW g \in read, g.name = k.name
      PROVE  /\ Look!Covers(e, k, g)
             /\ Look!ReadApart(e, c, t, k) => g = Look!AsDeclared(e, t, k)
  <2>1. PICK m \in ks : g = G(m)
    BY <1>1
  <2>2. m.name = k.name
    BY <1>3, <1>5, <2>1
  <2>3. k \in Look!OfName(c, t, m.name)
    BY <1>2, <2>2 DEF Look!OfName
  <2>4. Look!Covers(e, k, g)
    <3>1. Look!Rows(k) \subseteq UNION {Look!Rows(l) : l \in Look!OfName(c, t, m.name)}
      BY <2>3
    <3>2. g.rows = UNION {Look!Rows(l) : l \in Look!OfName(c, t, m.name)}
      BY <1>3, <2>1
    <3>. QED
      BY ONLY e = "mysql", <3>1, <3>2 DEF Look!Covers
  <2>5. ASSUME Look!ReadApart(e, c, t, k) PROVE g = Look!AsDeclared(e, t, k)
    <3>1. \A l \in c[t].keys : l.name = k.name => l = k
      BY <2>5 DEF Look!ReadApart
    <3>2. Look!OfName(c, t, m.name) = {k}
      BY <1>2, <2>2, <3>1 DEF Look!OfName
    <3>3. UNION {Look!Rows(l) : l \in Look!OfName(c, t, m.name)} = Look!Rows(k)
      BY <3>2
    <3>. QED
      BY <2>1, <2>2, <3>3 DEF Look!AsDeclared
  <2>. QED
    BY <2>4, <2>5
<1>. QED
  BY <1>4, <1>5 DEF Look!KeysAsDeclared

\* What is declared for a table is from this table.
LEMMA DeclaredFrom ==
  ASSUME NEW e, NEW c, NEW t, NEW kind, NEW d \in Look!Declared(e, c, t, kind)
  PROVE  d.from = t
BY SMT DEF Look!Declared

LEMMA CutFrom ==
  ASSUME NEW e, NEW c, NEW t, NEW kind, NEW d \in Look!Declared(e, c, t, kind), NEW r \in Look!Cuts(d)
  PROVE  r.from = t
<1>1. PICK n : r = Look!Cut(d, n)
  BY DEF Look!Cuts
<1>2. "from" \in DOMAIN d /\ d.from = t
  BY SMT DEF Look!Declared
<1>. QED
  BY <1>1, <1>2 DEF Look!Cut

LEMMA RelationsAreViews ==
  ASSUME NEW e, e # "sqlite", NEW c, Look!IsCatalog(c), Look!ToldApart(e, c)
  PROVE  /\ \A r \in Look!Relations(e, c) : r \in Look!Views(e, Look!Declared(e, c, r.from, "fk"))
         /\ \A t \in Look!Table : \A d \in Look!Declared(e, c, t, "fk") : Look!View(e, d) \in Look!Relations(e, c)
<1>1. CASE e # "postgres"
  <2>1. Look!Relations(e, c) = UNION {Look!Declared(e, c, t, "fk") : t \in Look!Table}
    BY <1>1 DEF Look!Relations
  <2>2. \A d : Look!View(e, d) = d
    BY <1>1 DEF Look!View
  <2>3. ASSUME NEW r \in Look!Relations(e, c) PROVE r \in Look!Views(e, Look!Declared(e, c, r.from, "fk"))
    <3>1. PICK t \in Look!Table : r \in Look!Declared(e, c, t, "fk")
      BY <2>1
    <3>2. r.from = t
      BY <3>1, DeclaredFrom
    <3>3. Look!Views(e, Look!Declared(e, c, t, "fk")) = Look!Declared(e, c, t, "fk")
      BY <1>1, ViewElsewhere
    <3>. QED
      BY <3>1, <3>2, <3>3
  <2>. QED
    BY <2>1, <2>2, <2>3
<1>2. CASE e = "postgres"
  <2>. DEFINE named(t) == {k.name : k \in Look!Keys(c, t, "fk")}
              from(n) == CHOOSE t \in Look!Table : n \in named(t)
              cols(n) == UNION {Look!ToSet(k.cols) : k \in Look!Named(c, n)}
              D(t, k) == [name |-> k.name, from |-> t, ref |-> k.ref, cols |-> k.cols, refs |-> k.refs]
  <2>1. Look!Relations(e, c) = {Look!Joined(c, n, from(n), cols(n)) : n \in UNION {named(t) : t \in Look!Table}}
    BY <1>2, Zenon DEF Look!Relations
  <2>2. Look!Distinct(c)
    BY <1>2 DEF Look!ToldApart
  <2>3. ASSUME NEW t \in Look!Table, NEW k \in Look!Keys(c, t, "fk")
        PROVE  /\ k.name \in named(t)
               /\ Look!Joined(c, k.name, from(k.name), cols(k.name)) = Look!View(e, D(t, k))
    <3>1. k \in c[t].keys /\ k.kind = "fk"
      BY DEF Look!Keys
    <3>2. from(k.name) = t
      <4>1. \A u \in Look!Table : k.name \in named(u) => u = t
        BY <2>2, <3>1 DEF Look!Distinct, Look!Keys
      <4>2. k.name \in named(t)
        OBVIOUS
      <4>. HIDE DEF named
      <4>. QED
        BY <4>1, <4>2
    <3>3. cols(k.name) = Look!ToSet(k.cols)
      <4>1. \A m \in Look!Named(c, k.name) : m = k
        BY <2>2, <3>1 DEF Look!Named, Look!Distinct
      <4>2. k \in Look!Named(c, k.name)
        BY <3>1 DEF Look!Named
      <4>3. Look!Named(c, k.name) = {k}
        BY <4>1, <4>2
      <4>. QED
        BY <4>3
    <3>4. Look!Joined(c, k.name, t, Look!ToSet(k.cols)) = Look!View(e, D(t, k))
      <4>1. \A w \in Look!Table : \A m \in c[w].keys : m.name = k.name => m = k
        BY <2>2, <3>1 DEF Look!Distinct, Look!Keys
      <4>. QED
        BY <1>2, <3>1, <4>1, JoinedIsView DEF Look!Keys
    <3>5. k.name \in named(t)
      OBVIOUS
    <3>. HIDE DEF from, cols, D, named
    <3>. QED
      BY <3>2, <3>3, <3>4, <3>5
  <2>4. \A t : Look!Declared(e, c, t, "fk") = {D(t, k) : k \in Look!Keys(c, t, "fk")}
    BY <1>2, DeclaredPostgres
  <2>5. \A t, k : D(t, k).from = t
    OBVIOUS
  <2>6. ASSUME NEW r \in Look!Relations(e, c) PROVE r \in Look!Views(e, Look!Declared(e, c, r.from, "fk"))
    <3>1. PICK t \in Look!Table : \E k \in Look!Keys(c, t, "fk") : r = Look!Joined(c, k.name, from(k.name), cols(k.name))
      <4>. HIDE DEF from, cols
      <4>1. PICK n \in UNION {named(t) : t \in Look!Table} : r = Look!Joined(c, n, from(n), cols(n))
        BY <2>1
      <4>2. PICK t \in Look!Table : n \in named(t)
        BY <4>1
      <4>. QED
        BY <4>1, <4>2
    <3>2. PICK k \in Look!Keys(c, t, "fk") : r = Look!View(e, D(t, k))
      BY <2>3, <3>1
    <3>3. r.from = t
      BY <1>2, <3>2 DEF Look!View
    <3>4. D(t, k) \in Look!Declared(e, c, t, "fk")
      BY <2>4
    <3>. QED
      BY <3>2, <3>3, <3>4 DEF Look!Views
  <2>7. ASSUME NEW t \in Look!Table, NEW d \in Look!Declared(e, c, t, "fk") PROVE Look!View(e, d) \in Look!Relations(e, c)
    <3>1. PICK k \in Look!Keys(c, t, "fk") : d = D(t, k)
      BY <2>4
    <3>2. k.name \in UNION {named(u) : u \in Look!Table}
      BY <2>3
    <3>3. Look!Joined(c, k.name, from(k.name), cols(k.name)) = Look!View(e, d)
      BY <2>3, <3>1
    <3>. HIDE DEF from, cols, D, named
    <3>. QED
      BY <2>1, <3>2, <3>3
  <2>. QED
    BY <2>6, <2>7
<1>. QED
  BY <1>1, <1>2

-----------------------------------------------------------------------------
(* Inspection: the steps that read nothing.                                *)

LEMMA InitLook == ReadsInit => LookIInv
<1>1. ASSUME SchemaRests PROVE LookIInv
  BY <1>1 DEF SchemaRests, LookIInv
<1>2. ASSUME Look!Init PROVE LookIInv
  <2>1. /\ call \in Calls /\ catalog \in Catalogs /\ looked = <<catalog>>
        /\ catalog \in Look!Possible(call.engine)
        /\ ctx = "live" /\ todo = {} /\ answer = "none"
        /\ step = IF call.what = "table" THEN "columns" ELSE "schemas"
        /\ found = Look!Nothing
    BY <1>2 DEF Look!Init, Look!Possible
  <2>2. LookTyped
    <3>1. looked \in Seq(Catalogs) /\ Len(looked) = 1 /\ looked[1] = catalog
      BY <2>1
    <3>2. DOMAIN found = Fields
      BY <2>1 DEF Look!Nothing, Fields
    <3>3. call.what = "schema" => call.what # "table"
      OBVIOUS
    <3>. QED
      BY <2>1, <3>1, <3>2, <3>3 DEF LookTyped
  <2>3. TableRead
    BY <2>1 DEF TableRead, Look!DescribedAsItWas, Look!Nothing
  <2>4. SchemaRead
    BY <2>1 DEF SchemaRead, Look!Nothing
  <2>. QED
    BY <2>1, <2>2, <2>3, <2>4 DEF LookIInv
<1>. QED
  BY <1>1, <1>2 DEF ReadsInit

\* A call that fails is over.
LEMMA FailKeeps == LookIInv /\ Look!Fail => LookIInv'
BY DEF Look!Fail, LookIInv

\* What was read stays true while the schema changes: the history only grows.
Grown(h, g) ==
  /\ Len(h) \in Nat /\ Len(g) \in Nat /\ Len(h) <= Len(g)
  /\ DOMAIN h = 1 .. Len(h) /\ DOMAIN g = 1 .. Len(g)
  /\ \A i \in DOMAIN h : i \in DOMAIN g /\ g[i] = h[i]

LEMMA EditGrows ==
  ASSUME LookTyped, Look!Edit
  PROVE  /\ Grown(looked, looked')
         /\ looked' \in Seq(Catalogs) /\ Len(looked') > 0 /\ catalog' = looked'[Len(looked')]
         /\ catalog' \in Look!Possible(call'.engine)
         /\ UNCHANGED <<call, ctx, step, todo, found, answer>> /\ step # "end"
<1>1. /\ looked' = Append(looked, catalog') /\ catalog' \in Catalogs /\ catalog' \in Look!Possible(call'.engine)
      /\ UNCHANGED <<call, ctx, step, todo, found, answer>> /\ step # "end"
  BY DEF Look!Edit, Look!Possible
<1>2. looked \in Seq(Catalogs) /\ Len(looked) \in Nat
  BY DEF LookTyped
<1>. QED
  BY <1>1, <1>2 DEF Grown

LEMMA TableGrown ==
  ASSUME NEW h, NEW g, Grown(h, g)
  PROVE  /\ \A i : ColumnsRead(h, i) => ColumnsRead(g, i)
         /\ \A j : PkRead(h, j) => PkRead(g, j)
         /\ \A i \in DOMAIN h : Flags(h, i) => Flags(g, i)
         /\ \A k : IndexesRead(h, k) => IndexesRead(g, k)
<1>1. \A i : ColumnsRead(h, i) => ColumnsRead(g, i)
  BY DEF Grown, ColumnsRead
<1>2. \A j : PkRead(h, j) => PkRead(g, j)
  BY DEF Grown, PkRead
<1>3. \A i \in DOMAIN h : Flags(h, i) => Flags(g, i)
  BY DEF Grown, Flags
<1>4. ASSUME NEW k, IndexesRead(h, k) PROVE IndexesRead(g, k)
  <2>1. k \in DOMAIN h /\ k \in DOMAIN g /\ g[k] = h[k]
    BY <1>4 DEF Grown, IndexesRead
  <2>2. {u.name : u \in found.uniques} \cup todo = IndexNames(g, k)
    BY <1>4, <2>1 DEF IndexesRead, IndexNames
  <2>3. ASSUME ctx = "live", NEW u \in found.uniques
        PROVE  \E m \in k .. Len(g) : u.cols = Look!IndexCols(g[m], u.name)
    <3>1. PICK m \in k .. Len(h) : u.cols = Look!IndexCols(h[m], u.name)
      BY <1>4, <2>3 DEF IndexesRead
    <3>2. m \in k .. Len(g) /\ g[m] = h[m]
      BY <2>1, <3>1 DEF Grown
    <3>. QED
      BY <3>1, <3>2
  <2>. QED
    BY <2>1, <2>2, <2>3 DEF IndexesRead
<1>. QED
  BY <1>1, <1>2, <1>3, <1>4

LEMMA SchemaGrown ==
  ASSUME NEW h, NEW g, Grown(h, g)
  PROVE  /\ TablesListed(h) => TablesListed(g)
         /\ LoopSoFar(h) => LoopSoFar(g)
<1>1. TablesListed(h) => TablesListed(g)
  BY DEF Grown, TablesListed
<1>2. ASSUME LoopSoFar(h) PROVE LoopSoFar(g)
  <2>1. \A i \in DOMAIN h : i \in DOMAIN g /\ g[i] = h[i]
    BY DEF Grown
  <2>2. \A r : WasDeclared(h, r) => WasDeclared(g, r)
    BY <2>1 DEF WasDeclared
  <2>3. \A t : AllRead(h, t) => AllRead(g, t)
    BY <2>1 DEF AllRead
  <2>4. \E i \in DOMAIN g : found.scanned = Look!TablesOf(g[i])
    BY <1>2, <2>1 DEF LoopSoFar
  <2>. QED
    BY <1>2, <2>2, <2>3, <2>4 DEF LoopSoFar
<1>. QED
  BY <1>1, <1>2

LEMMA EditKeeps ==
  ASSUME LookTyped, TableRead, SchemaRead, Look!Edit
  PROVE  LookIInv'
<1>1. /\ Grown(looked, looked')
      /\ looked' \in Seq(Catalogs) /\ Len(looked') > 0 /\ catalog' = looked'[Len(looked')]
      /\ catalog' \in Look!Possible(call'.engine)
      /\ call' = call /\ ctx' = ctx /\ step' = step /\ todo' = todo /\ found' = found /\ answer' = answer
      /\ step # "end" /\ answer = "none"
  BY EditGrows DEF LookTyped
<1>2. LookTyped'
  BY <1>1 DEF LookTyped
<1>. DEFINE h == looked
            g == looked'
<1>3. /\ \A i : ColumnsRead(h, i) => ColumnsRead(g, i)
      /\ \A j : PkRead(h, j) => PkRead(g, j)
      /\ \A i \in DOMAIN h : Flags(h, i) => Flags(g, i)
      /\ \A k : IndexesRead(h, k) => IndexesRead(g, k)
      /\ \A i \in DOMAIN h : i \in DOMAIN g
  BY <1>1, TableGrown DEF Grown
<1>4. /\ TablesListed(h) => TablesListed(g)
      /\ LoopSoFar(h) => LoopSoFar(g)
  BY <1>1, SchemaGrown
<1>5. TableRead'
  <2>1. (step \in {"columns", "keys", "pk", "indexes"} => found.uniques = {})'
    BY <1>1 DEF TableRead
  <2>2. (step = "keys" => \E i \in DOMAIN looked : ColumnsRead(looked, i) /\ found.flagged = {})'
    BY <1>1, <1>3 DEF TableRead, ColumnsRead
  <2>3. (step = "pk" => \E i \in DOMAIN looked : ColumnsRead(looked, i) /\ Flags(looked, i))'
    BY <1>1, <1>3 DEF TableRead, ColumnsRead, Flags
  <2>4. (step = "indexes" =>
           \E i, j \in DOMAIN looked :
             i <= j /\ ColumnsRead(looked, i) /\ Flags(looked, i) /\ PkRead(looked, j))'
    BY <1>1, <1>3 DEF TableRead, ColumnsRead, Flags, PkRead
  <2>5. (step = "index" =>
           \E i, j, k \in DOMAIN looked :
             /\ i <= j /\ j <= k
             /\ ColumnsRead(looked, i) /\ Flags(looked, i) /\ PkRead(looked, j) /\ IndexesRead(looked, k))'
    <3>1. SUFFICES ASSUME step = "index"
                   PROVE  \E i, j, k \in DOMAIN g :
                            /\ i <= j /\ j <= k
                            /\ ColumnsRead(looked, i)' /\ Flags(looked, i)' /\ PkRead(looked, j)' /\ IndexesRead(looked, k)'
      BY <1>1
    <3>2. PICK i, j, k \in DOMAIN looked :
             /\ i <= j /\ j <= k
             /\ ColumnsRead(h, i) /\ Flags(h, i) /\ PkRead(h, j) /\ IndexesRead(h, k)
      BY <3>1 DEF TableRead
    <3>3. ColumnsRead(g, i) /\ Flags(g, i) /\ PkRead(g, j) /\ IndexesRead(g, k) /\ {i, j, k} \subseteq DOMAIN g
      BY <1>3, <3>2
    <3>4. ColumnsRead(looked, i)' /\ Flags(looked, i)' /\ PkRead(looked, j)'
      BY <1>1, <3>3 DEF ColumnsRead, Flags, PkRead
    <3>5. IndexesRead(looked, k)'
      BY <1>1, <3>3 DEF IndexesRead, IndexNames
    <3>. QED
      BY <3>2, <3>3, <3>4, <3>5
  <2>6. Look!DescribedAsItWas'
    BY <1>1 DEF Look!DescribedAsItWas
  <2>. QED
    BY <2>1, <2>2, <2>3, <2>4, <2>5, <2>6 DEF TableRead
<1>6. SchemaRead'
  <2>1. (step \in {"schemas", "tables", "relations"} => found.relations = {})'
    BY <1>1 DEF SchemaRead
  <2>2. TablesListed(looked)' = TablesListed(g)
    BY <1>1 DEF TablesListed
  <2>3. LoopSoFar(looked)' = LoopSoFar(g)
    BY <1>1 DEF LoopSoFar, WasDeclared, AllRead, LastDone, Done
  <2>. QED
    BY <1>1, <1>4, <2>1, <2>2, <2>3 DEF SchemaRead
<1>. QED
  BY <1>1, <1>2, <1>5, <1>6 DEF LookIInv

\* The end of the context takes nothing back.
LEMMA CtxEndsKeeps ==
  ASSUME LookTyped, TableRead, SchemaRead, Look!CtxEnds
  PROVE  LookIInv'
<1>1. /\ ctx = "live" /\ ctx' # "live"
      /\ call' = call /\ catalog' = catalog /\ looked' = looked /\ step' = step
      /\ todo' = todo /\ found' = found /\ answer' = answer
      /\ step # "end" /\ answer = "none"
  BY DEF Look!CtxEnds, LookTyped
<1>2. LookTyped'
  BY <1>1 DEF LookTyped
<1>3. TableRead'
  <2>3. Look!DescribedAsItWas'
    BY <1>1 DEF Look!DescribedAsItWas
  <2>4. step \in {"columns", "keys", "pk", "indexes"} => (found.uniques = {})'
    BY <1>1 DEF TableRead
  <2>5. step = "keys" => (\E i \in DOMAIN looked : ColumnsRead(looked, i) /\ found.flagged = {})'
    BY <1>1 DEF TableRead, ColumnsRead
  <2>6. step = "pk" => \E i \in DOMAIN looked' : ColumnsRead(looked, i)' /\ Flags(looked, i)'
    <3>1. step = "pk" => \E i \in DOMAIN looked : ColumnsRead(looked, i) /\ Flags(looked, i)
      BY DEF TableRead
    <3>. QED
      BY <1>1, <3>1 DEF ColumnsRead, Flags
  <2>7. step = "indexes" =>
          \E i, j \in DOMAIN looked' :
             i <= j /\ ColumnsRead(looked, i)' /\ Flags(looked, i)' /\ PkRead(looked, j)'
    <3>1. step = "indexes" => \E i, j \in DOMAIN looked :
             i <= j /\ ColumnsRead(looked, i) /\ Flags(looked, i) /\ PkRead(looked, j)
      BY DEF TableRead
    <3>. QED
      BY <1>1, <3>1 DEF ColumnsRead, Flags, PkRead
  <2>8. step = "index" =>
          \E i, j, k \in DOMAIN looked' :
             /\ i <= j /\ j <= k
             /\ ColumnsRead(looked, i)' /\ Flags(looked, i)' /\ PkRead(looked, j)' /\ IndexesRead(looked, k)'
    <3>1. step = "index" => \E i, j, k \in DOMAIN looked :
             /\ i <= j /\ j <= k
             /\ ColumnsRead(looked, i) /\ Flags(looked, i) /\ PkRead(looked, j) /\ IndexesRead(looked, k)
      BY DEF TableRead
    <3>. QED
      BY <1>1, <3>1 DEF ColumnsRead, Flags, PkRead, IndexesRead, IndexNames
  <2>. QED
    BY <1>1, <2>3, <2>4, <2>5, <2>6, <2>7, <2>8, Zenon DEF TableRead
<1>4. SchemaRead'
  <2>1. TablesListed(looked) => TablesListed(looked)'
    BY <1>1 DEF TablesListed
  <2>2. LoopSoFar(looked) => LoopSoFar(looked)'
    <3>1. \A r : WasDeclared(looked, r) => WasDeclared(looked, r)'
      BY <1>1 DEF WasDeclared, LastDone
    <3>2. \A t : AllRead(looked, t) => AllRead(looked, t)'
      BY <1>1 DEF AllRead
    <3>3. Done' = Done /\ \A t : ~LastDone(t)
      BY <1>1 DEF Done, LastDone
    <3>. QED
      BY <1>1, <3>1, <3>2, <3>3 DEF LoopSoFar
  <2>. QED
    BY <1>1, <2>1, <2>2 DEF SchemaRead
<1>. QED
  BY <1>1, <1>2, <1>3, <1>4 DEF LookIInv

-----------------------------------------------------------------------------
(* Inspection: what is read of a table.                                    *)

\* The schema that a query sees is the last one there was.
LEMMA Now ==
  ASSUME LookTyped
  PROVE  /\ call.what \in {"table", "schema"} /\ call.engine \in {"postgres", "mysql", "sqlite"}
         /\ call.table \in Look!Table
         /\ Len(looked) \in Nat /\ DOMAIN looked = 1 .. Len(looked)
         /\ Len(looked) \in DOMAIN looked /\ catalog = looked[Len(looked)]
         /\ \A i \in DOMAIN looked : Look!IsCatalog(looked[i]) /\ i \in Nat /\ i <= Len(looked)
<1>1. call \in Calls /\ looked \in Seq(Catalogs) /\ Len(looked) > 0 /\ catalog = looked[Len(looked)]
  BY DEF LookTyped
<1>2. \A i \in DOMAIN looked : looked[i] \in Catalogs
  BY <1>1
<1>3. /\ \A c \in Catalogs : Look!IsCatalog(c)
      /\ call.what \in {"table", "schema"} /\ call.engine \in {"postgres", "mysql", "sqlite"}
      /\ call.table \in Look!Table
  BY <1>1, InspectArguments, Zenon DEF Look!ArgumentsAreCalls
<1>. QED
  BY <1>1, <1>2, <1>3

\* A step between two queries about a table leaves nothing to say of schemas.
LEMMA TableStep ==
  ASSUME LookTyped, call' = call, call.what = "table",
         step' \in {"columns", "keys", "pk", "indexes", "index", "end"}
  PROVE  SchemaRead'
BY DEF SchemaRead

LEMMA ReadColumnsKeeps ==
  ASSUME LookTyped, TableRead, Look!ReadColumns
  PROVE  LookIInv'
<1>. DEFINE n == Len(looked)
            t == call.table
<1>1. /\ step = "columns" /\ step' = IF call.engine = "sqlite" THEN "pk" ELSE "keys"
      /\ call' = call /\ catalog' = catalog /\ looked' = looked /\ ctx' = ctx
      /\ todo' = todo /\ answer' = answer /\ answer = "none"
      /\ found' = [found EXCEPT !.cols = catalog[t].cols,
                     !.flagged = IF call.engine = "sqlite" THEN Look!PrimaryKey(catalog, t) ELSE {}]
  BY DEF Look!ReadColumns, Look!Queries, Look!Goto, LookTyped
<1>2. DOMAIN found = Fields /\ found.uniques = {} /\ todo = {}
  BY <1>1 DEF LookTyped, TableRead
<1>3. /\ DOMAIN found' = Fields
      /\ found'.cols = catalog[t].cols
      /\ found'.flagged = IF call.engine = "sqlite" THEN Look!PrimaryKey(catalog, t) ELSE {}
      /\ found'.uniques = {}
  BY <1>1, <1>2 DEF Fields
<1>4. call.what = "table"
  BY <1>1, Now DEF LookTyped
<1>5. LookTyped'
  BY <1>1, <1>2, <1>3, <1>4 DEF LookTyped
<1>6. TableRead'
  <2>1. n \in DOMAIN looked' /\ looked'[n] = catalog
    BY <1>1, Now
  <2>2. (step = "keys" => \E i \in DOMAIN looked : ColumnsRead(looked, i) /\ found.flagged = {})'
    <3>1. SUFFICES ASSUME step' = "keys" PROVE ColumnsRead(looked, n)' /\ found'.flagged = {}
      BY <2>1
    <3>. QED
      BY <1>1, <1>3, <2>1, <3>1 DEF ColumnsRead
  <2>3. (step = "pk" => \E i \in DOMAIN looked : ColumnsRead(looked, i) /\ Flags(looked, i))'
    <3>1. SUFFICES ASSUME step' = "pk" PROVE ColumnsRead(looked, n)' /\ Flags(looked, n)'
      BY <2>1
    <3>. QED
      BY <1>1, <1>3, <2>1, <3>1 DEF ColumnsRead, Flags
  <2>4. Look!DescribedAsItWas'
    BY <1>1 DEF Look!DescribedAsItWas
  <2>5. step' \notin {"indexes", "index"}
    BY <1>1
  <2>. QED
    BY <1>3, <2>2, <2>3, <2>4, <2>5 DEF TableRead
<1>7. SchemaRead'
  BY <1>1, <1>4, TableStep
<1>. QED
  BY <1>1, <1>5, <1>6, <1>7 DEF LookIInv

LEMMA ReadPrimaryKeyKeeps ==
  ASSUME LookTyped, TableRead, Look!ReadPrimaryKey
  PROVE  LookIInv'
<1>. DEFINE n == Len(looked)
            t == call.table
<1>1. /\ step = "pk" /\ step' = "indexes"
      /\ call' = call /\ catalog' = catalog /\ looked' = looked /\ ctx' = ctx
      /\ todo' = todo /\ answer' = answer /\ answer = "none"
      /\ found' = [found EXCEPT !.pk = Look!PrimaryKey(catalog, t)]
  BY DEF Look!ReadPrimaryKey, Look!Queries, Look!Goto, LookTyped
<1>2. DOMAIN found = Fields /\ found.uniques = {} /\ todo = {}
  BY <1>1 DEF LookTyped, TableRead
<1>3. /\ DOMAIN found' = Fields
      /\ found'.pk = Look!PrimaryKey(catalog, t)
      /\ found'.cols = found.cols /\ found'.flagged = found.flagged /\ found'.uniques = {}
  BY <1>1, <1>2 DEF Fields
<1>4. call.what = "table" /\ call.engine = "sqlite"
  BY <1>1, Now DEF LookTyped
<1>5. LookTyped'
  BY <1>1, <1>2, <1>3, <1>4 DEF LookTyped
<1>6. TableRead'
  <2>1. n \in DOMAIN looked' /\ looked'[n] = catalog /\ \A i \in DOMAIN looked : i <= n
    BY <1>1, Now
  <2>2. PICK i \in DOMAIN looked : ColumnsRead(looked, i) /\ Flags(looked, i)
    BY <1>1 DEF TableRead
  <2>3. i <= n /\ ColumnsRead(looked, i)' /\ Flags(looked, i)' /\ PkRead(looked, n)'
    BY <1>1, <1>3, <2>1, <2>2 DEF ColumnsRead, Flags, PkRead
  <2>4. (\E i_1, j \in DOMAIN looked :
           i_1 <= j /\ ColumnsRead(looked, i_1) /\ Flags(looked, i_1) /\ PkRead(looked, j))'
    BY <1>1, <2>1, <2>2, <2>3
  <2>5. Look!DescribedAsItWas'
    BY <1>1 DEF Look!DescribedAsItWas
  <2>. QED
    BY <1>1, <1>3, <2>4, <2>5 DEF TableRead
<1>7. SchemaRead'
  BY <1>1, <1>4, TableStep
<1>. QED
  BY <1>1, <1>5, <1>6, <1>7 DEF LookIInv

LEMMA IndexNamesAre ==
  ASSUME NEW e, NEW c, NEW t
  PROVE  {u.name : u \in Look!Declared(e, c, t, "unique")} = {k.name : k \in Look!Keys(c, t, "unique")}
<1>. DEFINE D(k) == [name |-> k.name, from |-> t, ref |-> k.ref, cols |-> k.cols, refs |-> k.refs]
<1>1. Look!Declared(e, c, t, "unique") = {D(k) : k \in Look!Keys(c, t, "unique")}
  <2>1. "unique" # "fk"
    OBVIOUS
  <2>. QED
    BY <2>1, SMT DEF Look!Declared
<1>2. \A k : D(k).name = k.name
  OBVIOUS
<1>. HIDE DEF D
<1>. QED
  BY <1>1, <1>2

LEMMA ReadIndexListKeeps ==
  ASSUME LookTyped, TableRead, Look!ReadIndexList
  PROVE  LookIInv'
<1>. DEFINE n == Len(looked)
            t == call.table
<1>1. /\ step = "indexes" /\ step' = "index"
      /\ call' = call /\ catalog' = catalog /\ looked' = looked /\ ctx' = ctx
      /\ found' = found /\ answer' = answer /\ answer = "none"
      /\ todo' = {k.name : k \in Look!Keys(catalog, t, "unique")}
  BY DEF Look!ReadIndexList, Look!Queries, Look!Goto, LookTyped
<1>2. DOMAIN found = Fields /\ found.uniques = {}
  BY <1>1 DEF LookTyped, TableRead
<1>4. call.what = "table" /\ call.engine = "sqlite"
  BY <1>1, Now DEF LookTyped
<1>5. LookTyped'
  BY <1>1, <1>2, <1>4 DEF LookTyped
<1>6. TableRead'
  <2>1. n \in DOMAIN looked' /\ looked'[n] = catalog /\ \A i \in DOMAIN looked : i <= n
    BY <1>1, Now
  <2>2. PICK i, j \in DOMAIN looked : i <= j /\ ColumnsRead(looked, i) /\ Flags(looked, i) /\ PkRead(looked, j)
    BY <1>1 DEF TableRead
  <2>3. ColumnsRead(looked, i)' /\ Flags(looked, i)' /\ PkRead(looked, j)'
    BY <1>1, <2>2 DEF ColumnsRead, Flags, PkRead
  <2>4. IndexNames(looked, n)' = todo'
    <3>1. \A c : {u.name : u \in Look!Declared("sqlite", c, t, "unique")} = {k.name : k \in Look!Keys(c, t, "unique")}
      BY IndexNamesAre
    <3>. QED
      BY <1>1, <1>4, <2>1, <3>1 DEF IndexNames
  <2>5. IndexesRead(looked, n)'
    BY <1>1, <1>2, <2>1, <2>4 DEF IndexesRead
  <2>6. (\E i_1, j_1, k \in DOMAIN looked :
             /\ i_1 <= j_1 /\ j_1 <= k
             /\ ColumnsRead(looked, i_1) /\ Flags(looked, i_1) /\ PkRead(looked, j_1) /\ IndexesRead(looked, k))'
    BY <1>1, <2>1, <2>2, <2>3, <2>5
  <2>7. Look!DescribedAsItWas'
    BY <1>1 DEF Look!DescribedAsItWas
  <2>. QED
    BY <1>1, <1>2, <2>6, <2>7 DEF TableRead
<1>7. SchemaRead'
  BY <1>1, <1>4, TableStep
<1>. QED
  BY <1>1, <1>5, <1>6, <1>7 DEF LookIInv

LEMMA ReadIndexKeeps ==
  ASSUME LookTyped, TableRead, Look!ReadIndex
  PROVE  LookIInv'
<1>. DEFINE n == Len(looked)
            t == call.table
<1>1. PICK name \in todo : \E got_1 \in Look!Prefixes(Look!IndexCols(catalog, name)) :
        /\ Look!Unchecked(Look!IndexCols(catalog, name), got_1)
        /\ found' = [found EXCEPT !.uniques = @ \cup {[name |-> name, cols |-> got_1]}]
        /\ todo' = todo \ {name}
  BY DEF Look!ReadIndex
<1>2. PICK cols :
        /\ (cols = Look!IndexCols(catalog, name) /\ ctx' = ctx) \/ ctx' # "live"
        /\ found' = [found EXCEPT !.uniques = @ \cup {[name |-> name, cols |-> cols]}]
        /\ todo' = todo \ {name}
  BY <1>1 DEF Look!Unchecked
<1>3. /\ step = "index" /\ step' = "index" /\ ctx = "live"
      /\ call' = call /\ catalog' = catalog /\ looked' = looked
      /\ answer' = answer /\ answer = "none"
  BY DEF Look!ReadIndex, Look!Queries, Look!Goto, LookTyped
<1>4. DOMAIN found = Fields
  BY DEF LookTyped
<1>5. /\ DOMAIN found' = Fields
      /\ found'.cols = found.cols /\ found'.flagged = found.flagged /\ found'.pk = found.pk
      /\ found'.uniques = found.uniques \cup {[name |-> name, cols |-> cols]}
  BY <1>2, <1>4 DEF Fields
<1>6. call.what = "table" /\ call.engine = "sqlite"
  BY <1>3, Now DEF LookTyped
<1>7. LookTyped'
  BY <1>3, <1>5, <1>6 DEF LookTyped
<1>8. TableRead'
  <2>1. PICK i, j, k \in DOMAIN looked :
             /\ i <= j /\ j <= k
             /\ ColumnsRead(looked, i) /\ Flags(looked, i) /\ PkRead(looked, j) /\ IndexesRead(looked, k)
    BY <1>3 DEF TableRead
  <2>2. ColumnsRead(looked, i)' /\ Flags(looked, i)' /\ PkRead(looked, j)'
    BY <1>3, <1>5, <2>1 DEF ColumnsRead, Flags, PkRead
  <2>3. {u.name : u \in found'.uniques} \cup todo' = IndexNames(looked, k)'
    <3>1. {u.name : u \in found.uniques} \cup todo = IndexNames(looked, k)
      BY <2>1 DEF IndexesRead
    <3>2. IndexNames(looked, k)' = IndexNames(looked, k)
      BY <1>3 DEF IndexNames
    <3>3. {u.name : u \in found'.uniques} = {u.name : u \in found.uniques} \cup {name}
      <4>1. [name |-> name, cols |-> cols].name = name
        OBVIOUS
      <4>. QED
        BY <1>5, <4>1, Zenon
    <3>4. todo' \cup {name} = todo
      BY <1>2
    <3>. QED
      BY <3>1, <3>2, <3>3, <3>4
  <2>4. ASSUME ctx' = "live", NEW u \in found'.uniques
        PROVE  \E m \in k .. Len(looked') : u.cols = Look!IndexCols(looked'[m], u.name)
    <3>1. CASE u \in found.uniques
      BY <1>3, <2>1, <3>1 DEF IndexesRead
    <3>2. CASE u = [name |-> name, cols |-> cols]
      <4>1. u.name = name /\ u.cols = Look!IndexCols(catalog, name)
        BY <1>2, <2>4, <3>2
      <4>2. n \in k .. Len(looked') /\ looked'[n] = catalog
        BY <1>3, <2>1, Now
      <4>. QED
        BY <4>1, <4>2
    <3>. QED
      BY <1>5, <2>4, <3>1, <3>2
  <2>5. IndexesRead(looked, k)'
    BY <1>3, <2>1, <2>3, <2>4 DEF IndexesRead
  <2>6. (\E i_1, j_1, k_1 \in DOMAIN looked :
             /\ i_1 <= j_1 /\ j_1 <= k_1
             /\ ColumnsRead(looked, i_1) /\ Flags(looked, i_1) /\ PkRead(looked, j_1) /\ IndexesRead(looked, k_1))'
    BY <1>3, <2>1, <2>2, <2>5
  <2>7. Look!DescribedAsItWas'
    BY <1>3 DEF Look!DescribedAsItWas
  <2>. QED
    BY <1>3, <2>6, <2>7 DEF TableRead
<1>9. SchemaRead'
  BY <1>3, <1>6, TableStep
<1>. QED
  BY <1>3, <1>7, <1>8, <1>9 DEF LookIInv

LEMMA ReadForeignKeysKeeps ==
  ASSUME LookTyped, TableRead, Look!ReadForeignKeys
  PROVE  LookIInv'
<1>. DEFINE n == Len(looked)
            t == call.table
            keys == Look!Declared(call.engine, catalog, t, "fk")
<1>1. PICK some \in Look!PartsOf(keys) :
        /\ (some = keys /\ ctx' = ctx) \/ ctx' # "live"
        /\ found' = [found EXCEPT !.flagged = Look!Flagged(found.pk), !.fks = some]
  BY DEF Look!ReadForeignKeys, Look!Unchecked
<1>2. /\ step = "index" /\ step' = "end" /\ ctx = "live" /\ todo = {} /\ todo' = todo
      /\ call' = call /\ catalog' = catalog /\ looked' = looked /\ answer' = "ok"
  BY DEF Look!ReadForeignKeys, Look!Queries, Look!Goto
<1>3. DOMAIN found = Fields
  BY DEF LookTyped
<1>4. /\ DOMAIN found' = Fields
      /\ found'.cols = found.cols /\ found'.pk = found.pk /\ found'.uniques = found.uniques
      /\ found'.flagged = found.flagged \cup (found.pk \cap Look!ToSet(found.cols))
      /\ found'.fks = some
  BY <1>1, <1>3 DEF Fields, Look!Flagged
<1>5. call.what = "table" /\ call.engine = "sqlite"
  BY <1>2, Now DEF LookTyped
<1>6. LookTyped'
  BY <1>2, <1>4, <1>5 DEF LookTyped
<1>7. TableRead'
  <2>1. PICK i, j, k \in DOMAIN looked :
             /\ i <= j /\ j <= k
             /\ ColumnsRead(looked, i) /\ Flags(looked, i) /\ PkRead(looked, j) /\ IndexesRead(looked, k)
    BY <1>2 DEF TableRead
  <2>2. n \in DOMAIN looked' /\ looked'[n] = catalog /\ k <= n
    BY <1>2, Now
  <2>3. /\ found'.cols = looked'[i][t].cols
        /\ found'.pk = Look!PrimaryKey(looked'[j], t)
    BY <1>2, <1>4, <2>1 DEF ColumnsRead, PkRead
  <2>4. /\ found'.pk \cap Look!ToSet(found'.cols) \subseteq found'.flagged
        /\ found'.flagged \subseteq Look!PrimaryKey(looked'[i], t) \cup found'.pk
    BY <1>2, <1>4, <2>1 DEF Flags
  <2>5. {u.name : u \in found'.uniques} = {u.name : u \in Look!Declared("sqlite", looked'[k], t, "unique")}
    BY <1>2, <1>4, <1>5, <2>1 DEF IndexesRead, IndexNames
  <2>6. \A u \in found'.uniques : \E m \in k .. n : u.cols = Look!IndexCols(looked'[m], u.name)
    BY <1>2, <1>4, <2>1 DEF IndexesRead
  <2>7. IF ctx' = "live" THEN found'.fks = Look!Declared("sqlite", looked'[n], t, "fk")
        ELSE found'.fks \in Look!PartsOf(Look!Declared("sqlite", looked'[n], t, "fk"))
    BY <1>1, <1>2, <1>4, <1>5, <2>2
  <2>8. Look!DescribedAsItWas'
    <3>. DEFINE Was(a, b, c, d) ==
                  /\ a <= b /\ b <= c /\ c <= d
                  /\ found'.cols = looked'[a][call'.table].cols
                  /\ found'.pk = Look!PrimaryKey(looked'[b], call'.table)
                  /\ found'.pk \cap Look!ToSet(found'.cols) \subseteq found'.flagged
                  /\ found'.flagged \subseteq Look!PrimaryKey(looked'[a], call'.table) \cup found'.pk
                  /\ IF call'.engine = "sqlite"
                     THEN /\ {u.name : u \in found'.uniques}
                               = {u.name : u \in Look!Declared(call'.engine, looked'[c], call'.table, "unique")}
                          /\ \A u \in found'.uniques : \E m \in c .. d : u.cols = Look!IndexCols(looked'[m], u.name)
                          /\ IF ctx' = "live" THEN found'.fks = Look!Declared(call'.engine, looked'[d], call'.table, "fk")
                             ELSE found'.fks \in Look!PartsOf(Look!Declared(call'.engine, looked'[d], call'.table, "fk"))
                     ELSE /\ Look!KeysAsDeclared(call'.engine, looked'[b], call'.table, "unique", found'.uniques)
                          /\ Look!KeysAsDeclared(call'.engine, looked'[b], call'.table, "fk", found'.fks)
    <3>1. call'.engine = "sqlite" /\ call'.table = t /\ {i, j, k, n} \subseteq DOMAIN looked'
      BY <1>2, <1>5, <2>2
    <3>2. Was(i, j, k, n)
      <4>. HIDE DEF n, t
      <4>. QED
        BY <2>1, <2>2, <2>3, <2>4, <2>5, <2>6, <2>7, <3>1, SMT
    <3>3. (\E a, b, c, d \in DOMAIN looked' : Was(a, b, c, d)) => Look!DescribedAsItWas'
      BY Zenon DEF Look!DescribedAsItWas
    <3>. HIDE DEF Was, n
    <3>. QED
      BY <3>1, <3>2, <3>3
  <2>. QED
    BY <1>2, <2>8 DEF TableRead
<1>8. SchemaRead'
  BY <1>2, <1>5, TableStep
<1>. QED
  BY <1>2, <1>6, <1>7, <1>8 DEF LookIInv

\* PostgreSQL and MySQL: all keys in one query.
LEMMA ReadKeysKeeps ==
  ASSUME LookTyped, TableRead, Look!ReadKeys
  PROVE  LookIInv'
<1>. DEFINE n == Len(looked)
            t == call.table
            e == call.engine
<1>1. /\ step = "keys" /\ step' = "end" /\ ctx' = ctx /\ todo' = todo
      /\ call' = call /\ catalog' = catalog /\ looked' = looked /\ answer' = "ok"
      /\ found' = [found EXCEPT !.pk = Look!PrimaryKey(catalog, t), !.flagged = Look!Flagged(Look!PrimaryKey(catalog, t)),
                     !.uniques = Look!KeySet(e, catalog, t, "unique"), !.fks = Look!KeySet(e, catalog, t, "fk")]
  BY DEF Look!ReadKeys, Look!Queries, Look!Goto
<1>2. DOMAIN found = Fields /\ todo = {}
  BY <1>1 DEF LookTyped
<1>3. /\ DOMAIN found' = Fields
      /\ found'.cols = found.cols /\ found'.pk = Look!PrimaryKey(catalog, t)
      /\ found'.flagged = found.flagged \cup (found'.pk \cap Look!ToSet(found.cols))
      /\ found'.uniques = Look!KeySet(e, catalog, t, "unique")
      /\ found'.fks = Look!KeySet(e, catalog, t, "fk")
  BY <1>1, <1>2 DEF Fields, Look!Flagged
<1>4. call.what = "table" /\ e # "sqlite"
  BY <1>1, Now DEF LookTyped
<1>5. LookTyped'
  BY <1>1, <1>2, <1>3, <1>4 DEF LookTyped
<1>6. TableRead'
  <2>1. PICK i \in DOMAIN looked : ColumnsRead(looked, i) /\ found.flagged = {}
    BY <1>1 DEF TableRead
  <2>2. n \in DOMAIN looked' /\ looked'[n] = catalog /\ i <= n /\ n <= n /\ Look!IsCatalog(catalog) /\ t \in Look!Table
    BY <1>1, Now
  <2>3. /\ found'.cols = looked'[i][t].cols
        /\ found'.pk = Look!PrimaryKey(looked'[n], t)
    BY <1>1, <1>3, <2>1, <2>2 DEF ColumnsRead
  <2>4. /\ found'.pk \cap Look!ToSet(found'.cols) \subseteq found'.flagged
        /\ found'.flagged \subseteq Look!PrimaryKey(looked'[i], t) \cup found'.pk
    BY <1>3, <2>1
  <2>5. /\ Look!KeysAsDeclared(e, looked'[n], t, "unique", found'.uniques)
        /\ Look!KeysAsDeclared(e, looked'[n], t, "fk", found'.fks)
    <3>1. e \in {"postgres", "mysql"}
      BY <1>4, InspectArguments DEF LookTyped, Look!ArgumentsAreCalls
    <3>2. catalog \in Look!Possible(e)
      BY DEF LookTyped
    <3>. HIDE DEF e
    <3>. QED
      BY <1>3, <2>2, <3>1, <3>2, PostgresKeys, MySQLKeys
  <2>6. Look!DescribedAsItWas'
    <3>1. call'.engine = e /\ call'.table = t /\ {i, n} \subseteq DOMAIN looked'
      BY <1>1, <2>2
    <3>. HIDE DEF n, t, e
    <3>. QED
      BY <1>4, <2>2, <2>3, <2>4, <2>5, <3>1 DEF Look!DescribedAsItWas
  <2>. QED
    BY <1>1, <2>6 DEF TableRead
<1>7. SchemaRead'
  BY <1>1, <1>4, TableStep
<1>. QED
  BY <1>1, <1>5, <1>6, <1>7 DEF LookIInv

-----------------------------------------------------------------------------
(* Inspection: what is listed of a schema.                                 *)

\* A step between two queries about a schema leaves nothing to say of a table.
LEMMA SchemaStep ==
  ASSUME LookTyped, call' = call, call.what = "schema",
         step' \in {"schemas", "tables", "relations", "relation", "end"},
         step' \in {"schemas", "tables", "relations", "relation"} => answer' = "none"
  PROVE  TableRead'
BY DEF TableRead, Look!DescribedAsItWas

LEMMA ReadSchemasKeeps ==
  ASSUME LookTyped, SchemaRead, Look!ReadSchemas
  PROVE  LookIInv'
<1>1. /\ step = "schemas" /\ step' = "tables"
      /\ call' = call /\ catalog' = catalog /\ looked' = looked
      /\ todo' = todo /\ found' = found /\ answer' = answer /\ answer = "none"
  BY DEF Look!ReadSchemas, Look!Goto, LookTyped
<1>2. call.what = "schema"
  BY <1>1, Now DEF LookTyped
<1>3. LookTyped' /\ SchemaRead'
  BY <1>1, <1>2 DEF LookTyped, SchemaRead
<1>4. TableRead'
  BY <1>1, <1>2, SchemaStep
<1>. QED
  BY <1>1, <1>3, <1>4 DEF LookIInv

LEMMA ReadTablesKeeps ==
  ASSUME LookTyped, SchemaRead, Look!ReadTables \/ Look!TablesFail
  PROVE  LookIInv'
<1>. DEFINE n == Len(looked)
<1>1. /\ step = "tables" /\ step' = "relations"
      /\ call' = call /\ catalog' = catalog /\ looked' = looked
      /\ todo' = todo /\ answer' = answer /\ answer = "none"
  BY DEF Look!ReadTables, Look!TablesFail, Look!Queries, Look!Goto, LookTyped
<1>2. PICK some :
        /\ found' = [found EXCEPT !.tables = some]
        /\ IF call.schema THEN some = Look!TablesOf(catalog) ELSE some \in Look!Beginnings(Look!TablesOf(catalog))
  <2>1. \A S : S \in Look!Beginnings(S) /\ {} \in Look!Beginnings(S)
    BY DEF Look!Beginnings
  <2>2. CASE Look!ReadTables
    BY <2>1, <2>2 DEF Look!ReadTables
  <2>3. CASE Look!TablesFail
    <3>1. ~call.schema
      BY <2>3 DEF Look!TablesFail
    <3>2. PICK some \in Look!Beginnings(IF ctx = "live" THEN Look!TablesOf(catalog) ELSE {}) :
            found' = [found EXCEPT !.tables = some]
      BY <2>3 DEF Look!TablesFail
    <3>3. some \in Look!Beginnings({}) => some = {}
      BY DEF Look!Beginnings
    <3>4. some \in Look!Beginnings(Look!TablesOf(catalog))
      BY <2>1, <3>2, <3>3
    <3>. QED
      BY <3>1, <3>2, <3>4
  <2>. QED
    BY <2>2, <2>3
<1>3. DOMAIN found = Fields /\ found.relations = {}
  BY <1>1 DEF LookTyped, SchemaRead
<1>4. DOMAIN found' = Fields /\ found'.tables = some /\ found'.relations = {}
  BY <1>2, <1>3 DEF Fields
<1>5. call.what = "schema"
  BY <1>1, Now DEF LookTyped
<1>6. LookTyped'
  BY <1>1, <1>4, <1>5 DEF LookTyped
<1>7. TablesListed(looked)'
  BY <1>1, <1>2, <1>4, Now DEF TablesListed
<1>8. SchemaRead'
  BY <1>1, <1>4, <1>7 DEF SchemaRead
<1>9. TableRead'
  BY <1>1, <1>5, SchemaStep
<1>. QED
  BY <1>1, <1>6, <1>8, <1>9 DEF LookIInv

LEMMA ReadRelationsKeeps ==
  ASSUME LookTyped, SchemaRead, Look!ReadRelations
  PROVE  LookIInv'
<1>. DEFINE n == Len(looked)
<1>1. /\ step = "relations" /\ step' = "end" /\ call.engine # "sqlite"
      /\ call' = call /\ catalog' = catalog /\ looked' = looked
      /\ todo' = todo /\ answer' = "ok" /\ answer = "none"
      /\ found' = [found EXCEPT !.relations = Look!Relations(call.engine, catalog)]
  BY DEF Look!ReadRelations, Look!Queries, Look!Goto, LookTyped
<1>2. DOMAIN found = Fields /\ TablesListed(looked)
  BY <1>1 DEF LookTyped, SchemaRead
<1>3. DOMAIN found' = Fields /\ found'.tables = found.tables /\ found'.relations = Look!Relations(call.engine, catalog)
  BY <1>1, <1>2 DEF Fields
<1>4. call.what = "schema"
  BY <1>1, Now DEF LookTyped
<1>5. LookTyped'
  BY <1>1, <1>3, <1>4 DEF LookTyped
<1>6. TablesListed(looked)'
  BY <1>1, <1>2, <1>3 DEF TablesListed
<1>7. \E i \in DOMAIN looked' : found'.relations = Look!Relations(call'.engine, looked'[i])
  BY <1>1, <1>3, Now
<1>8. SchemaRead'
  BY <1>1, <1>3, <1>6, <1>7 DEF SchemaRead
<1>9. TableRead'
  BY <1>1, <1>4, SchemaStep
<1>. QED
  BY <1>1, <1>5, <1>8, <1>9 DEF LookIInv

\* SQLite's loop begins with nothing done.
LEMMA ReadTablesAgainKeeps ==
  ASSUME LookTyped, SchemaRead, Look!ReadTablesAgain
  PROVE  LookIInv'
<1>. DEFINE n == Len(looked)
<1>1. /\ step = "relations" /\ step' = "relation" /\ call.engine = "sqlite"
      /\ call' = call /\ catalog' = catalog /\ looked' = looked
      /\ answer' = answer /\ answer = "none"
      /\ todo' = Look!TablesOf(catalog)
      /\ found' = [found EXCEPT !.scanned = Look!TablesOf(catalog)]
  BY DEF Look!ReadTablesAgain, Look!Queries, Look!Goto, LookTyped
<1>2. DOMAIN found = Fields /\ TablesListed(looked) /\ found.relations = {}
  BY <1>1 DEF LookTyped, SchemaRead
<1>3. /\ DOMAIN found' = Fields /\ found'.tables = found.tables /\ found'.relations = {}
      /\ found'.scanned = Look!TablesOf(catalog)
  BY <1>1, <1>2 DEF Fields
<1>4. call.what = "schema"
  BY <1>1, Now DEF LookTyped
<1>5. LookTyped'
  BY <1>1, <1>3, <1>4 DEF LookTyped
<1>6. TablesListed(looked)'
  BY <1>1, <1>2, <1>3 DEF TablesListed
<1>7. LoopSoFar(looked)'
  <2>1. Done' = {} /\ todo' = found'.scanned
    BY <1>1, <1>3 DEF Done
  <2>2. \E i \in DOMAIN looked' : found'.scanned = Look!TablesOf(looked'[i])
    BY <1>1, <1>3, Now
  <2>. QED
    BY <1>3, <2>1, <2>2 DEF LoopSoFar
<1>8. SchemaRead'
  BY <1>1, <1>3, <1>6, <1>7 DEF SchemaRead
<1>9. TableRead'
  BY <1>1, <1>4, SchemaStep
<1>. QED
  BY <1>1, <1>5, <1>8, <1>9 DEF LookIInv

\* What a loop that ends early has of a table's keys was declared or is cut.
LEMMA PartsAreDeclared ==
  ASSUME NEW keys, NEW some \in Look!PartsOf(keys), NEW r \in some
  PROVE  r \in keys \/ \E d \in keys : r \in Look!Cuts(d)
<1>1. CASE some \subseteq keys
  BY <1>1
<1>2. CASE ~(some \subseteq keys)
  <2>1. PICK ks \in SUBSET keys : some \in {ks \cup {k} : k \in UNION {Look!Cuts(m) : m \in keys \ ks}}
    BY <1>2 DEF Look!PartsOf
  <2>2. PICK k \in UNION {Look!Cuts(m) : m \in keys \ ks} : some = ks \cup {k}
    BY <2>1
  <2>. QED
    BY <2>2
<1>. QED
  BY <1>1, <1>2

LEMMA ReadTableRelationsKeeps ==
  ASSUME LookTyped, SchemaRead, Look!ReadTableRelations
  PROVE  LookIInv'
<1>1. PICK t \in Look!Table : Look!NextTable(t) /\ Look!AddRelations(t)
  BY DEF Look!ReadTableRelations
<1>. DEFINE n == Len(looked)
            keys == Look!Declared(call.engine, catalog, t, "fk")
<1>2. PICK some \in Look!PartsOf(keys) :
        /\ (some = keys /\ ctx' = ctx) \/ (some # keys /\ ctx' # "live")
        /\ found' = [found EXCEPT !.relations = @ \cup some]
  BY <1>1 DEF Look!AddRelations, Look!Unchecked
<1>3. /\ step = "relation" /\ step' = "relation" /\ ctx = "live"
      /\ todo' = todo \ {t} /\ t \in todo /\ \A u \in todo \ {t} : Look!Earlier(t, u)
      /\ call' = call /\ catalog' = catalog /\ looked' = looked
      /\ answer' = answer /\ answer = "none"
  BY <1>1 DEF Look!ReadTableRelations, Look!AddRelations, Look!NextTable, Look!Queries, Look!Goto, LookTyped
<1>4. DOMAIN found = Fields /\ TablesListed(looked) /\ LoopSoFar(looked)
  BY <1>3 DEF LookTyped, SchemaRead
<1>5. /\ DOMAIN found' = Fields /\ found'.tables = found.tables /\ found'.scanned = found.scanned
      /\ found'.relations = found.relations \cup some
  BY <1>2, <1>4 DEF Fields
<1>6. call.what = "schema" /\ call.engine = "sqlite"
  BY <1>3, Now DEF LookTyped
<1>7. LookTyped'
  BY <1>3, <1>5, <1>6 DEF LookTyped
<1>8. TablesListed(looked)'
  BY <1>3, <1>4, <1>5 DEF TablesListed
<1>9. LoopSoFar(looked)'
  <2>1. Done' = Done \cup {t} /\ t \notin Done
    BY <1>3, <1>4, <1>5 DEF LoopSoFar, Done
  <2>2. n \in DOMAIN looked /\ looked[n] = catalog
    BY Now
  <2>3. \E i \in DOMAIN looked' : found'.scanned = Look!TablesOf(looked'[i])
    BY <1>3, <1>4, <1>5 DEF LoopSoFar
  <2>4. todo' \subseteq found'.scanned
    BY <1>3, <1>4, <1>5 DEF LoopSoFar
  <2>5. \A u \in Done', w \in todo' : Look!Earlier(u, w)
    BY <1>3, <1>4, <2>1 DEF LoopSoFar
  <2>6. ctx' # "live" => LastDone(t)'
    <3>1. \A u \in Done' \ {t} : Look!Earlier(u, t)
      BY <1>3, <1>4, <2>1 DEF LoopSoFar
    <3>. QED
      BY <2>1, <3>1 DEF LastDone
  <2>7. ASSUME NEW r \in found'.relations
        PROVE  r.from \in Done' /\ WasDeclared(looked, r)'
    <3>1. CASE r \in found.relations
      <4>1. r.from \in Done /\ WasDeclared(looked, r) /\ ~LastDone(r.from)
        BY <1>3, <1>4, <3>1 DEF LoopSoFar, LastDone
      <4>2. PICK i \in DOMAIN looked : r \in Look!Declared(call.engine, looked[i], r.from, "fk")
        BY <4>1 DEF WasDeclared
      <4>. QED
        BY <1>3, <2>1, <4>1, <4>2 DEF WasDeclared
    <3>2. CASE r \in some /\ r \in keys
      <4>1. r.from = t
        BY <3>2, DeclaredFrom
      <4>. QED
        BY <1>3, <2>1, <2>2, <3>2, <4>1 DEF WasDeclared
    <3>3. CASE r \in some /\ r \notin keys
      <4>1. PICK d \in keys : r \in Look!Cuts(d)
        BY <3>3, PartsAreDeclared
      <4>2. r.from = t
        BY <4>1, CutFrom
      <4>3. LastDone(t)'
        BY <1>2, <2>6, <3>3
      <4>4. LastDone(r.from)'
        <5>1. \A x : x = t => LastDone(x)'
          BY <4>3
        <5>. QED
          BY <4>2, <5>1
      <4>. QED
        BY <1>3, <2>1, <2>2, <4>1, <4>2, <4>4 DEF WasDeclared
    <3>. QED
      BY <1>5, <3>1, <3>2, <3>3
  <2>8. ASSUME NEW u \in Done' PROVE LastDone(u)' \/ AllRead(looked, u)'
    <3>1. CASE u \in Done
      <4>1. ~LastDone(u)
        BY <1>3 DEF LastDone
      <4>2. PICK i \in DOMAIN looked : Look!Declared(call.engine, looked[i], u, "fk") \subseteq found.relations
        BY <1>4, <3>1, <4>1 DEF LoopSoFar, AllRead
      <4>. QED
        BY <1>3, <1>5, <4>2 DEF AllRead
    <3>2. CASE u = t /\ some = keys
      BY <1>3, <1>5, <2>2, <3>2 DEF AllRead
    <3>3. CASE u = t /\ some # keys
      BY <1>2, <2>6, <3>3
    <3>. QED
      BY <2>1, <3>1, <3>2, <3>3
  <2>. QED
    BY <2>3, <2>4, <2>5, <2>7, <2>8 DEF LoopSoFar
<1>10. SchemaRead'
  BY <1>3, <1>8, <1>9 DEF SchemaRead
<1>11. TableRead'
  BY <1>3, <1>6, SchemaStep
<1>. QED
  BY <1>3, <1>7, <1>10, <1>11 DEF LookIInv

LEMMA RelationsReadKeeps ==
  ASSUME LookTyped, SchemaRead, Look!RelationsRead
  PROVE  LookIInv'
<1>1. /\ step = "relation" /\ step' = "end" /\ todo = {}
      /\ call' = call /\ catalog' = catalog /\ looked' = looked /\ ctx' = ctx
      /\ todo' = todo /\ found' = found /\ answer' = "ok"
  BY DEF Look!RelationsRead, Look!Goto
<1>2. call.what = "schema" /\ call.engine = "sqlite"
  BY <1>1, Now DEF LookTyped
<1>3. LookTyped'
  BY <1>1, <1>2 DEF LookTyped
<1>4. TablesListed(looked) /\ LoopSoFar(looked)
  BY <1>1 DEF SchemaRead
<1>5. TablesListed(looked)'
  BY <1>1, <1>4 DEF TablesListed
<1>6. LoopSoFar(looked)'
  BY <1>1, <1>4 DEF LoopSoFar, WasDeclared, AllRead, LastDone, Done
<1>7. SchemaRead'
  BY <1>1, <1>2, <1>5, <1>6 DEF SchemaRead
<1>8. TableRead'
  BY <1>1, <1>2, SchemaStep
<1>. QED
  BY <1>1, <1>3, <1>7, <1>8 DEF LookIInv

LEMMA NextLook == LookIInv /\ [ReadsNext]_<<vars, schema>> => LookIInv'
<1>. SUFFICES ASSUME LookIInv, [ReadsNext]_<<vars, schema>> PROVE LookIInv'
  OBVIOUS
<1>1. CASE UNCHANGED schema
  <2>1. /\ call' = call /\ catalog' = catalog /\ looked' = looked /\ ctx' = ctx /\ step' = step
        /\ todo' = todo /\ found' = found /\ answer' = answer
    BY <1>1 DEF schema
  <2>2. LookTyped' = LookTyped
    BY <2>1 DEF LookTyped
  <2>3. TableRead' = TableRead
    BY <2>1 DEF TableRead, ColumnsRead, Flags, PkRead, IndexesRead, IndexNames, Look!DescribedAsItWas
  <2>4. SchemaRead' = SchemaRead
    BY <2>1 DEF SchemaRead, TablesListed, LoopSoFar, WasDeclared, AllRead, LastDone, Done
  <2>. QED
    BY <2>1, <2>2, <2>3, <2>4 DEF LookIInv
<1>2. CASE Look!Next
  <2>1. CASE Look!Fail
    BY <2>1, FailKeeps
  <2>2. CASE ~Look!Fail
    <3>1. step # "end"
      BY <1>2, <2>2 DEF Look!Next, Look!Call, Look!CtxEnds, Look!Edit, Look!ReadColumns, Look!ReadKeys,
        Look!ReadPrimaryKey, Look!ReadIndexList, Look!ReadIndex, Look!ReadForeignKeys, Look!ReadSchemas,
        Look!ReadTables, Look!TablesFail, Look!ReadRelations, Look!ReadTablesAgain,
        Look!ReadTableRelations, Look!RelationsRead, Look!Queries, Look!Goto
    <3>2. LookTyped /\ TableRead /\ SchemaRead
      BY <3>1 DEF LookIInv
    <3>. QED
      BY <1>2, <2>2, <3>2, EditKeeps, CtxEndsKeeps, ReadColumnsKeeps, ReadKeysKeeps, ReadPrimaryKeyKeeps,
         ReadIndexListKeeps, ReadIndexKeeps, ReadForeignKeysKeeps, ReadSchemasKeeps, ReadTablesKeeps,
         ReadRelationsKeeps, ReadTablesAgainKeeps, ReadTableRelationsKeeps, RelationsReadKeeps
         DEF Look!Next, Look!Call
  <2>. QED
    BY <2>1, <2>2
<1>. QED
  BY <1>1, <1>2 DEF ReadsNext, schema

\* What the invariant says of a schema that was shown.
LEMMA SchemaShown ==
  ASSUME LookIInv
  PROVE  Look!SchemaAsItWas
<1>. SUFFICES ASSUME answer = "ok", call.what = "schema" PROVE Look!SchemaAsItWas
  BY DEF Look!SchemaAsItWas
<1>. DEFINE e == call.engine
<1>1. /\ LookTyped /\ TablesListed(looked)
      /\ IF e = "sqlite" THEN LoopSoFar(looked) /\ todo = {}
         ELSE \E i \in DOMAIN looked : found.relations = Look!Relations(e, looked[i])
  BY DEF LookIInv, SchemaRead
<1>2. \E i \in DOMAIN looked :
        IF call.schema THEN Look!ShownTables = Look!TablesOf(looked[i]) \cap call.permitted
        ELSE Look!ShownTables \in Look!Beginnings(Look!TablesOf(looked[i]) \cap call.permitted)
  <2>1. PICK i \in DOMAIN looked :
          IF call.schema THEN found.tables = Look!TablesOf(looked[i])
          ELSE found.tables \in Look!Beginnings(Look!TablesOf(looked[i]))
    BY <1>1 DEF TablesListed
  <2>2. \A S, some : some \in Look!Beginnings(S) => some \cap call.permitted \in Look!Beginnings(S \cap call.permitted)
    BY DEF Look!Beginnings
  <2>. QED
    BY <2>1, <2>2 DEF Look!ShownTables
<1>3. ASSUME NEW r \in found.relations
      PROVE  \E i \in DOMAIN looked :
               Look!ToldApart(e, looked[i]) =>
                 \/ r \in Look!Views(e, Look!Declared(e, looked[i], r.from, "fk"))
                 \/ Look!CutTable(r.from) /\ \E d \in Look!Declared(e, looked[i], r.from, "fk") : r \in Look!Cuts(d)
  <2>1. CASE e = "sqlite"
    <3>1. WasDeclared(looked, r) /\ todo = {}
      BY <1>1, <2>1 DEF LoopSoFar
    <3>2. \A t : LastDone(t) => Look!CutTable(t)
      BY <3>1 DEF LastDone, Done, Look!CutTable
    <3>3. \A S : Look!Views(e, S) = S
      BY <2>1, ViewElsewhere
    <3>. QED
      BY <3>1, <3>2, <3>3 DEF WasDeclared
  <2>2. CASE e # "sqlite"
    <3>1. PICK i \in DOMAIN looked : found.relations = Look!Relations(e, looked[i])
      BY <1>1, <2>2
    <3>2. Look!IsCatalog(looked[i])
      BY <1>1, Now
    <3>. HIDE DEF e
    <3>3. Look!ToldApart(e, looked[i]) => r \in Look!Views(e, Look!Declared(e, looked[i], r.from, "fk"))
      BY <2>2, <3>1, <3>2, RelationsAreViews
    <3>. QED
      BY <3>3
  <2>. QED
    BY <2>1, <2>2
<1>4. ASSUME NEW t \in Look!Table, NEW d \in Look!Declared(e, catalog, t, "fk"),
             \A i \in DOMAIN looked : d \in Look!Declared(e, looked[i], t, "fk") /\ Look!ToldApart(e, looked[i])
      PROVE  Look!CutTable(t) \/ Look!View(e, d) \in found.relations
  <2>1. CASE e = "sqlite"
    <3>1. LoopSoFar(looked) /\ todo = {}
      BY <1>1, <2>1
    <3>2. PICK i \in DOMAIN looked : found.scanned = Look!TablesOf(looked[i])
      BY <3>1 DEF LoopSoFar
    <3>3. Look!Keys(looked[i], t, "fk") # {}
      <4>1. d \in Look!Declared(e, looked[i], t, "fk")
        BY <1>4
      <4>. QED
        BY <4>1 DEF Look!Declared
    <3>4. looked[i][t].cols # <<>>
      <4>1. Look!IsCatalog(looked[i])
        BY <1>1, Now
      <4>. QED
        BY <3>3, <4>1 DEF Look!IsCatalog, Look!Keys
    <3>5. t \in Done
      BY <3>1, <3>2, <3>4 DEF Done, Look!TablesOf
    <3>6. CASE LastDone(t)
      BY <3>1, <3>6 DEF LastDone, Done, Look!CutTable
    <3>7. CASE AllRead(looked, t)
      <4>1. d \in found.relations
        BY <1>4, <3>7 DEF AllRead
      <4>2. Look!View(e, d) = d
        BY <2>1 DEF Look!View
      <4>. QED
        BY <4>1, <4>2
    <3>. QED
      BY <3>1, <3>5, <3>6, <3>7 DEF LoopSoFar
  <2>2. CASE e # "sqlite"
    <3>1. PICK i \in DOMAIN looked : found.relations = Look!Relations(e, looked[i])
      BY <1>1, <2>2
    <3>2. Look!IsCatalog(looked[i])
      BY <1>1, Now
    <3>3. d \in Look!Declared(e, looked[i], t, "fk") /\ Look!ToldApart(e, looked[i])
      BY <1>4
    <3>. HIDE DEF e
    <3>. QED
      BY <2>2, <3>1, <3>2, <3>3, RelationsAreViews
  <2>. QED
    BY <2>1, <2>2
<1>5. \A t \in Look!Table : \A d \in Look!Declared(e, catalog, t, "fk") : Look!View(e, d).from = t /\ Look!View(e, d).ref = d.ref
  BY SMT DEF Look!Declared, Look!View
<1>6. \A r \in found.relations : r \in Look!ShownRelations <=> {r.from, r.ref} \cap call.permitted # {}
  BY DEF Look!ShownRelations
<1>7. Look!ShownRelations \subseteq found.relations
  BY DEF Look!ShownRelations
<1>8. \A r \in Look!ShownRelations : \E i \in DOMAIN looked :
         Look!ToldApart(e, looked[i]) =>
           \/ r \in Look!Views(e, Look!Declared(e, looked[i], r.from, "fk"))
           \/ Look!CutTable(r.from) /\ \E d \in Look!Declared(e, looked[i], r.from, "fk") : r \in Look!Cuts(d)
  BY <1>3, <1>7
<1>9. \A t \in Look!Table : \A d \in Look!Declared(e, catalog, t, "fk") :
         /\ \A i \in DOMAIN looked : d \in Look!Declared(e, looked[i], t, "fk") /\ Look!ToldApart(e, looked[i])
         /\ {t, d.ref} \cap call.permitted # {}
         => Look!CutTable(t) \/ Look!View(e, d) \in Look!ShownRelations
  BY <1>4, <1>5, <1>6
<1>. QED
  BY <1>2, <1>8, <1>9, Zenon DEF Look!SchemaAsItWas

\* The invariant of inspection holds of every call, schema and listing.
THEOREM LookInvariance == ReadsSpec => []LookIInv
<1>1. ReadsInit => LookIInv
  BY InitLook
<1>2. LookIInv /\ [ReadsNext]_<<vars, schema>> => LookIInv'
  BY NextLook
<1>. QED
  BY <1>1, <1>2, PTL DEF ReadsSpec

\* A table is described as it was, whatever changes between the queries.
THEOREM DescribedCorrect == ReadsSpec => []DescribedAsItWas
<1>1. LookIInv => DescribedAsItWas
  <2>1. answer = "err" => Look!DescribedAsItWas
    BY DEF Look!DescribedAsItWas
  <2>. QED
    BY <2>1 DEF LookIInv, TableRead, DescribedAsItWas
<1>. QED
  BY <1>1, LookInvariance, PTL

\* A schema is shown as it was, whatever changes between the queries.
THEOREM SchemaCorrect == ReadsSpec => []SchemaAsItWas
<1>1. LookIInv => SchemaAsItWas
  BY SchemaShown DEF SchemaAsItWas
<1>. QED
  BY <1>1, LookInvariance, PTL
=============================================================================
