----------------------------- MODULE QueryPage ------------------------------
(***************************************************************************)
(* Reading a result page by page.  queryWithRunner of internal/db walks    *)
(* the whole result, skips the rows before the cursor, keeps at most one   *)
(* page and counts the rest; nextCursor of internal/cli turns a truncated  *)
(* page into the offset of the next one; the caller sends that cursor back *)
(* with the same ordered SQL.  Each page is a query of its own, outside    *)
(* any transaction, so other sessions write between two pages.             *)
(***************************************************************************)
EXTENDS Integers, Sequences

CONSTANTS
  PageSizes,  \* values of --page-size; 0 or less means everything in one page
  MaxRows,    \* bound: rows the table starts with
  MaxWrites,  \* bound: writes of other sessions
  MaxFails    \* bound: queries that fail half way and are asked again

ASSUME Numbers ==
  PageSizes \subseteq Int /\ MaxRows \in Nat /\ MaxWrites \in Nat /\ MaxFails \in Nat

VARIABLES
  table,      \* the rows in the order of the ORDER BY; a row is its identity
  view,       \* the rows the running query sees
  pc,         \* "idle", "reading" or, once no cursor comes back, "end"
  cursor,     \* offset of the page asked for
  seen,       \* SeenCount
  rows,       \* Rows of the page
  truncated,  \* Truncated
  got,        \* all pages the caller has received, concatenated
  kept,       \* rows of the first table that nobody has deleted
  squeezed,   \* TRUE once a row was inserted before the end of the order
  deleted,    \* TRUE once a row was deleted
  size,       \* the caller's page size; never changes
  writes, fails

others == <<squeezed, deleted, writes>>
page == <<size, view, pc, cursor, seen, rows, truncated>>
vars == <<table, page, got, kept, others, fails>>

Rows == 1 .. MaxRows + MaxWrites
Elements(s) == {s[i] : i \in DOMAIN s}

TypeOK ==
  /\ table \in Seq(Rows) /\ view \in Seq(Rows)
  /\ pc \in {"idle", "reading", "end"}
  /\ cursor \in Nat /\ seen \in Nat
  /\ rows \in Seq(Rows) /\ got \in Seq(Rows)
  /\ truncated \in BOOLEAN
  /\ kept \subseteq Rows
  /\ squeezed \in BOOLEAN /\ deleted \in BOOLEAN
  /\ size \in Int
  /\ writes \in Nat /\ fails \in Nat

Init ==
  /\ \E n \in 0 .. MaxRows : table = [i \in 1 .. n |-> i]
  /\ kept = Elements(table)
  /\ view = <<>> /\ rows = <<>> /\ got = <<>>
  /\ pc = "idle"
  /\ cursor = 0 /\ seen = 0
  /\ truncated = FALSE
  /\ squeezed = FALSE /\ deleted = FALSE
  /\ size \in PageSizes
  /\ writes = 0 /\ fails = 0

\* (mutant) The buffers of the last attempt are used again.
QueryKeepsRows ==
  /\ pc = "idle"
  /\ pc' = "reading"
  /\ view' = table
  /\ seen' = 0 /\ truncated' = FALSE
  /\ UNCHANGED <<table, size, cursor, rows, got, kept, others, fails>>

\* The caller asks for the page at the cursor; the query sees one snapshot.
Query ==
  /\ pc = "idle"
  /\ pc' = "reading"
  /\ view' = table
  /\ seen' = 0 /\ rows' = <<>> /\ truncated' = FALSE
  /\ UNCHANGED <<table, size, cursor, got, kept, others, fails>>

\* (mutants) Off by one, and a page size of 0 taken literally.
PageOverfull == size > 0 /\ Len(rows) > size
PageIsFullAtZero == Len(rows) >= size

PageIsFull == size > 0 /\ Len(rows) >= size

\* (mutant) The cursor's own row is not skipped.
NextRowFromCursor ==
  /\ pc = "reading"
  /\ seen < Len(view)
  /\ seen' = seen + 1
  /\ LET skipped == seen' < cursor IN
       /\ truncated' = (truncated \/ (~skipped /\ PageIsFull))
       /\ rows' = IF skipped \/ PageIsFull THEN rows ELSE Append(rows, view[seen'])
  /\ UNCHANGED <<table, size, view, pc, cursor, got, kept, others, fails>>

\* One turn of the row loop.
NextRow ==
  /\ pc = "reading"
  /\ seen < Len(view)
  /\ seen' = seen + 1
  /\ LET skipped == seen' <= cursor IN
       /\ truncated' = (truncated \/ (~skipped /\ PageIsFull))
       /\ rows' = IF skipped \/ PageIsFull THEN rows ELSE Append(rows, view[seen'])
  /\ UNCHANGED <<table, size, view, pc, cursor, got, kept, others, fails>>

\* The envelope carries a next cursor only for a truncated page.
Continues == truncated /\ size > 0

Finish ==
  /\ pc = "reading"
  /\ seen = Len(view)
  /\ got' = got \o rows
  /\ cursor' = IF Continues THEN cursor + size ELSE cursor
  /\ pc' = IF Continues THEN "idle" ELSE "end"
  /\ UNCHANGED <<table, size, view, seen, rows, truncated, kept, others, fails>>

\* (mutant) rows.Err is not looked at: the rows read so far pass for a page.
QueryFailsUnseen ==
  /\ pc = "reading"
  /\ fails < MaxFails
  /\ fails' = fails + 1
  /\ got' = got \o rows
  /\ cursor' = IF Continues THEN cursor + size ELSE cursor
  /\ pc' = IF Continues THEN "idle" ELSE "end"
  /\ UNCHANGED <<table, size, view, seen, rows, truncated, kept, others>>

\* The timeout ends the loop: rows.Err makes the result empty, and the caller
\* asks for the same page again.
QueryFails ==
  /\ pc = "reading"
  /\ fails < MaxFails
  /\ fails' = fails + 1
  /\ pc' = "idle"
  /\ UNCHANGED <<table, size, view, cursor, seen, rows, truncated, got, kept, others>>

\* Another session inserts a row somewhere in the order, or deletes one.
Fresh == MaxRows + writes + 1

Insert ==
  /\ \E n \in 0 .. Len(table) :
       /\ table' = SubSeq(table, 1, n) \o <<Fresh>> \o SubSeq(table, n + 1, Len(table))
       /\ squeezed' = (squeezed \/ n < Len(table))
  /\ UNCHANGED <<kept, deleted>>

Delete ==
  /\ \E n \in 1 .. Len(table) :
       /\ table' = SubSeq(table, 1, n - 1) \o SubSeq(table, n + 1, Len(table))
       /\ kept' = kept \ {table[n]}
  /\ deleted' = TRUE
  /\ UNCHANGED squeezed

Write ==
  /\ pc # "end" /\ writes < MaxWrites
  /\ writes' = writes + 1
  /\ Insert \/ Delete
  /\ UNCHANGED <<page, got, fails>>

Next == Query \/ NextRow \/ Finish \/ QueryFails \/ Write

Spec == Init /\ [][Next]_vars

-----------------------------------------------------------------------------
(* Properties.                                                             *)

Least(a, b) == IF a < b THEN a ELSE b
Excess(n) == IF n > 0 THEN n ELSE 0

\* What the page must hold after `seen` rows: the rows after the cursor, one
\* page of them at most.
PageLen ==
  IF size > 0 THEN Least(Excess(seen - cursor), size) ELSE Excess(seen - cursor)

\* The loop keeps exactly the slice of the result that the cursor and the page
\* size name, and reports truncation exactly when rows lie beyond the slice
\* (queryWithRunner: skip, limit and truncation together).
PageIsSlice ==
  pc = "reading" =>
    /\ Len(rows) = PageLen
    /\ \A i \in 1 .. Len(rows) : rows[i] = view[cursor + i]
    /\ truncated <=> size > 0 /\ seen > cursor + size

\* While other sessions only append, the pages are a prefix of the table: no
\* row is lost or repeated, whatever is retried.
PagesArePrefix ==
  ~squeezed /\ ~deleted =>
    /\ Len(got) <= Len(table)
    /\ \A i \in 1 .. Len(got) : got[i] = table[i]

\* Without rows inserted in front of the cursor no row comes twice.
NothingRepeated ==
  ~squeezed => \A i, j \in 1 .. Len(got) : got[i] = got[j] => i = j

\* Without deletions the caller ends with every row that was there all along.
NothingSkipped ==
  ~deleted /\ pc = "end" => kept \subseteq Elements(got)
=============================================================================
