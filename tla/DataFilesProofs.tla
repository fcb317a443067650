-------------------------- MODULE DataFilesProofs ---------------------------
(***************************************************************************)
(* Proofs about DataFiles for every set of rows, every extension and any   *)
(* number of exports: what an export leaves, and what an import takes.     *)
(***************************************************************************)
EXTENDS DataFiles, TLAPS

Row == Seq(Value) \ {<<>>}

\* Only the records of the inductive invariant that the steps look at.
TypeOK ==
  /\ ext \in {"csv", "json", "other"}
  /\ file \in [text : {"none", "empty", "csv", "json"}, rows : Seq(Row), done : Nat, tail : Tails]
  /\ export \in {"idle", "queried", "writing", "ok", "err", "dead"}
  /\ format \in {"csv", "json", "other"}
  /\ rows \in Seq(Row)
  /\ mixed \in BOOLEAN

\* What is in the file was read by an export that opened it.
FileIsExport ==
  file.text \in {"csv", "json"} =>
    /\ file.rows \in written
    /\ file.done <= Len(file.rows) + 1
    /\ file.tail # "none" => file.done <= Len(file.rows)

\* After an ok nothing is missing until the disk loses it.
ExportIsIn ==
  /\ export \in {"writing", "ok"} => rows \in written
  /\ export = "ok" => format \in {"csv", "json"}
  /\ export = "ok" /\ ~lost => file = WholeFile(format, rows)

\* Until the export opens it the file is the old one.
OldFileStays ==
  before # NoFile => file = before /\ export \notin {"writing", "ok"}

\* A file that is being read is there, and its name has an extension that can
\* be read.
ReadingIsPossible == import = "reading" => ext # "other"

IInv ==
  /\ TypeOK /\ FileIsExport /\ ExportIsIn /\ OldFileStays
  /\ ReadingIsPossible /\ ImportedWasExported

-----------------------------------------------------------------------------
(* Lemmas about the reader.                                                *)

LEMMA SubSeqWhole ==
  ASSUME NEW S, NEW s \in Seq(S)
  PROVE  SubSeq(s, 1, Len(s)) = s
OBVIOUS

LEMMA SubSeqNext ==
  ASSUME NEW S, NEW s \in Seq(S), NEW n \in 1 .. Len(s)
  PROVE  Append(SubSeq(s, 1, n - 1), s[n]) = SubSeq(s, 1, n)
OBVIOUS

\* What encoding/csv makes of a file is read from a beginning of its rows.
LEMMA CsvReadsBeginning ==
  ASSUME NEW f \in [text : {"none", "empty", "csv", "json"}, rows : Seq(Row), done : Nat, tail : Tails],
         f.done <= Len(f.rows) + 1,
         f.tail # "none" => f.done <= Len(f.rows),
         ReadCsv(f).ok, ReadCsv(f).rows # <<>>
  PROVE  \E part \in Beginnings(f.rows) : ReadCsv(f).rows = Reader("csv", part)
<1>. DEFINE data == SubSeq(f.rows, 1, f.done - 1)
            next == f.rows[f.done]
<1>1. f.tail # "quoted" /\ f.done > 0
  BY DEF ReadCsv, Bad, Good
<1>2. f.done - 1 \in 0 .. Len(f.rows)
  BY <1>1
<1>3. data \in Beginnings(f.rows)
  BY <1>2 DEF Beginnings
<1>4. CASE f.tail = "none"
  <2>1. ReadCsv(f).rows = Reader("csv", data)
    BY <1>1, <1>4 DEF ReadCsv, Good
  <2>. QED
    BY <1>3, <2>1
<1>5. CASE f.tail = "fields"
  <2>1. ReadCsv(f).rows = Reader("csv", data)
    BY <1>1, <1>5 DEF ReadCsv, Good, Bad
  <2>. QED
    BY <1>3, <2>1
<1>6. CASE f.tail = "last"
  <2>1. f.done \in 1 .. Len(f.rows)
    BY <1>1, <1>6
  <2>2. Append(data, Cut(next)) \in Beginnings(f.rows)
    BY <2>1 DEF Beginnings
  <2>3. ReadCsv(f).rows = Reader("csv", Append(data, Cut(next)))
    BY <1>1, <1>6 DEF ReadCsv, Good
  <2>. QED
    BY <2>2, <2>3
<1>7. CASE f.tail = "line"
  <2>1. f.done \in 1 .. Len(f.rows)
    BY <1>1, <1>7
  <2>2. Append(data, next) = SubSeq(f.rows, 1, f.done)
    BY <2>1, SubSeqNext
  <2>3. Append(data, next) \in Beginnings(f.rows)
    BY <2>1, <2>2 DEF Beginnings
  <2>4. ReadCsv(f).rows = Reader("csv", Append(data, next))
    BY <1>1, <1>7 DEF ReadCsv, Good
  <2>. QED
    BY <2>3, <2>4
<1>. QED
  BY <1>1, <1>4, <1>5, <1>6, <1>7 DEF Tails

\* A whole file is read to its last row.
LEMMA WholeIsRead ==
  ASSUME ext \in {"csv", "json"}, NEW rs \in Seq(Row)
  PROVE  ReadFile(WholeFile(ext, rs)) = Good(Reader(ext, rs))
<1>1. CASE ext = "csv"
  <2>. DEFINE f == WholeFile("csv", rs)
  <2>1. f.text = "csv" /\ f.rows = rs /\ f.done = Len(rs) + 1 /\ f.tail = "none"
    BY DEF WholeFile, File
  <2>2. ReadFile(f) = ReadCsv(f)
    BY <1>1, <2>1 DEF ReadFile
  <2>3. f.done > 0 /\ f.done - 1 = Len(rs)
    BY <2>1
  <2>4. SubSeq(f.rows, 1, f.done - 1) = rs
    BY <2>1, <2>3, SubSeqWhole
  <2>5. f.done # 0 /\ f.tail # "quoted"
    BY <2>1, <2>3
  <2>. HIDE DEF f
  <2>6. ReadCsv(f) = Good(Reader("csv", SubSeq(f.rows, 1, f.done - 1)))
    BY <2>1, <2>3, <2>5 DEF ReadCsv
  <2>7. ReadCsv(f) = Good(Reader("csv", rs))
    BY <2>4, <2>6
  <2>. QED
    BY <1>1, <2>2, <2>7 DEF f
<1>2. CASE ext = "json"
  BY <1>2 DEF ReadFile, WholeFile, File, ReadJson
<1>. QED
  BY <1>1, <1>2

-----------------------------------------------------------------------------
(* The inductive invariant.                                                *)

LEMMA InitIInv ==
  ASSUME Arguments, Init
  PROVE  IInv
<1>1. NoFile \in [text : {"none", "empty", "csv", "json"}, rows : Seq(Row), done : Nat, tail : Tails]
  BY DEF NoFile, File, Tails
<1>2. TypeOK
  <2>1. ext \in {"csv", "json", "other"}
    BY DEF Arguments, Init
  <2>2. rows \in Seq(Row)
    BY DEF Init
  <2>. QED
    BY <1>1, <2>1, <2>2 DEF Init, TypeOK
<1>3. FileIsExport /\ ExportIsIn /\ OldFileStays /\ ReadingIsPossible /\ ImportedWasExported
  BY DEF Init, FileIsExport, ExportIsIn, OldFileStays, ReadingIsPossible, ImportedWasExported,
       NoFile, File
<1>. QED
  BY <1>2, <1>3 DEF IInv

\* Nothing that was written is forgotten, so what was imported stays exported.
LEMMA ImportedStays ==
  ASSUME ImportedWasExported, UNCHANGED <<ext, got>>,
         import' = "ok" => import = "ok" /\ mixed' = mixed,
         written \subseteq written'
  PROVE  ImportedWasExported'
BY DEF ImportedWasExported

LEMMA ExportKeeps ==
  ASSUME Arguments, IInv,
         QueryRows \/ ExportFails \/ Create \/ Write \/ WriteFails \/ Written
           \/ LostAtClose \/ Kill \/ NextExport
  PROVE  IInv'
<1>. USE DEF IInv
<1>1. ImportedWasExported'
  <2>1. UNCHANGED <<ext, import, got>>
    BY DEF QueryRows, ExportFails, Create, Write, WriteFails, Written,
         LostAtClose, Kill, NextExport, importer, exporter
  <2>2. written \subseteq written'
    BY DEF QueryRows, ExportFails, Create, Write, WriteFails, Written,
         LostAtClose, Kill, NextExport, importer, exporter
  <2>3. CASE Create
    <3>1. import = "ok" => mixed' = mixed
      BY <2>3 DEF Create, TypeOK
    <3>. QED
      BY <2>1, <2>2, <3>1, ImportedStays
  <2>4. CASE ~Create
    <3>1. mixed' = mixed
      BY <2>4 DEF QueryRows, ExportFails, Write, WriteFails, Written,
           LostAtClose, Kill, NextExport, importer, exporter
    <3>. QED
      BY <2>1, <2>2, <3>1, ImportedStays
  <2>. QED
    BY <2>3, <2>4
<1>2. ReadingIsPossible'
  BY DEF ReadingIsPossible, QueryRows, ExportFails, Create, Write, WriteFails, Written,
       LostAtClose, Kill, NextExport, importer, exporter
<1>. USE DEF TypeOK, FileIsExport, ExportIsIn, OldFileStays
<1>3. CASE QueryRows
  <2>1. rows' \in Seq(Row)
    BY <1>3 DEF Arguments, QueryRows, Row
  <2>. QED
    BY <1>1, <1>2, <1>3, <2>1 DEF QueryRows
<1>4. CASE ExportFails \/ WriteFails \/ Kill \/ NextExport
  BY <1>1, <1>2, <1>4 DEF ExportFails, WriteFails, Kill, NextExport
<1>5. CASE Create
  <2>1. EmptyFile \in [text : {"none", "empty", "csv", "json"}, rows : Seq(Row), done : Nat, tail : Tails]
    BY DEF EmptyFile, File, Tails
  <2>2. EmptyFile.text = "empty"
    BY DEF EmptyFile, File
  <2>. QED
    BY <1>1, <1>2, <1>5, <2>1, <2>2 DEF Create
<1>6. CASE Write \/ LostAtClose
  <2>1. PICK done \in 0 .. Len(rows), tail \in Tails :
          IsPart(File(format, rows, done, tail), format, rows) /\ file' = File(format, rows, done, tail)
    BY <1>6 DEF Write, LostAtClose
  <2>2. format \in {"csv", "json"} /\ rows \in written
    BY <1>6 DEF Write, LostAtClose
  <2>3. /\ file'.text = format /\ file'.rows = rows /\ file'.done = done /\ file'.tail = tail
    BY <2>1 DEF IsPart, File
  <2>4. file' \in [text : {"none", "empty", "csv", "json"}, rows : Seq(Row), done : Nat, tail : Tails]
    BY <2>1, <2>2 DEF File
  <2>5. FileIsExport'
    BY <1>6, <2>2, <2>3 DEF Write, LostAtClose, exporter
  <2>. QED
    BY <1>1, <1>2, <1>6, <2>4, <2>5 DEF Write, LostAtClose, exporter
<1>7. CASE Written
  <2>1. format \in {"csv", "json"} /\ rows \in written
    BY <1>7 DEF Written
  <2>2. WholeFile(format, rows) \in
          [text : {"none", "empty", "csv", "json"}, rows : Seq(Row), done : Nat, tail : Tails]
    BY <2>1 DEF WholeFile, File, Tails
  <2>3. FileIsExport'
    BY <1>7, <2>1 DEF Written, WholeFile, File
  <2>. QED
    BY <1>1, <1>2, <1>7, <2>1, <2>2, <2>3 DEF Written
<1>. QED
  BY <1>3, <1>4, <1>5, <1>6, <1>7

LEMMA ImportKeeps ==
  ASSUME IInv, Import
  PROVE  IInv'
<1>1. /\ TypeOK' /\ FileIsExport' /\ ExportIsIn' /\ OldFileStays' /\ ReadingIsPossible'
  BY DEF IInv, TypeOK, FileIsExport, ExportIsIn, OldFileStays, ReadingIsPossible, Import, exporter
<1>2. SUFFICES ASSUME ~mixed, got' # <<>>
               PROVE  \E rs \in written :
                        IF ext = "json" THEN got' = Reader("json", rs)
                        ELSE \E part \in Beginnings(rs) : got' = Reader("csv", part)
  BY <1>1 DEF IInv, ImportedWasExported, Import
<1>3. ReadFile(file).ok /\ got' = ReadFile(file).rows
  BY <1>2 DEF Import
<1>4. ext \in {"csv", "json"}
  BY DEF IInv, TypeOK, ReadingIsPossible, Import
<1>5. CASE ext = "json"
  <2>1. file.text = "json" /\ ReadJson(file).ok /\ got' = ReadJson(file).rows
    BY <1>2, <1>3, <1>5 DEF ReadFile, Bad, Good, IInv, TypeOK
  <2>2. file.tail = "line" /\ got' = Reader("json", file.rows)
    BY <2>1 DEF ReadJson, Bad, Good
  <2>. QED
    BY <1>5, <2>1, <2>2 DEF IInv, FileIsExport
<1>6. CASE ext = "csv"
  <2>1. file.text = "csv" /\ ReadCsv(file).ok /\ got' = ReadCsv(file).rows
    BY <1>2, <1>3, <1>6 DEF ReadFile, Bad, Good, IInv, TypeOK
  <2>2. \E part \in Beginnings(file.rows) : got' = Reader("csv", part)
    BY <1>2, <2>1, CsvReadsBeginning DEF IInv, TypeOK, FileIsExport
  <2>. QED
    BY <1>6, <2>1, <2>2 DEF IInv, FileIsExport
<1>. QED
  BY <1>4, <1>5, <1>6

LEMMA NextIInv ==
  ASSUME Arguments
  PROVE  IInv /\ [Next]_vars => IInv'
<1>. SUFFICES ASSUME IInv, [Next]_vars PROVE IInv'
  OBVIOUS
<1>1. CASE OpenFile \/ ImportFails \/ UNCHANGED vars
  <2>1. ImportedWasExported'
    <3>1. import' = "ok" => import = "ok" /\ mixed' = mixed
      BY <1>1 DEF OpenFile, ImportFails, vars, importer
    <3>. QED
      BY <1>1, <3>1, ImportedStays DEF IInv, OpenFile, ImportFails, vars, importer
  <2>. QED
    BY <1>1, <2>1 DEF IInv, TypeOK, FileIsExport, ExportIsIn, OldFileStays, ReadingIsPossible,
         OpenFile, ImportFails, vars, exporter, importer
<1>2. CASE Import
  BY <1>2, ImportKeeps
<1>. QED
  BY <1>1, <1>2, ExportKeeps DEF Next

\* The inductive invariant holds in every state.
THEOREM Invariance ==
  ASSUME Arguments
  PROVE  Spec => []IInv
<1>1. Init => IInv
  BY InitIInv
<1>2. IInv /\ [Next]_vars => IInv'
  BY NextIInv
<1>. QED
  BY <1>1, <1>2, PTL DEF Spec

\* An ok export leaves its whole file, and one that failed before it opened the
\* file leaves the old one.
THEOREM OkWhole ==
  ASSUME Arguments
  PROVE  Spec => []OkIsWhole
<1>1. IInv => OkIsWhole
  <2>. SUFFICES ASSUME IInv PROVE OkIsWhole
    OBVIOUS
  <2>1. ASSUME export = "ok", ~lost, ext = format
        PROVE  ReadFile(file) = Good(Reader(format, rows))
    <3>1. ext \in {"csv", "json"} /\ rows \in Seq(Row) /\ file = WholeFile(ext, rows)
      BY <2>1 DEF IInv, TypeOK, ExportIsIn
    <3>. QED
      BY <2>1, <3>1, WholeIsRead
  <2>. QED
    BY <2>1 DEF OkIsWhole, IInv, OldFileStays
<1>. QED
  BY <1>1, Invariance, PTL

\* What was imported had been exported, to the end or up to a row.
THEOREM ImportedExported ==
  ASSUME Arguments
  PROVE  Spec => []ImportedWasExported
<1>1. IInv => ImportedWasExported
  BY DEF IInv
<1>. QED
  BY <1>1, Invariance, PTL
=============================================================================
