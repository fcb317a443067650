----------------------------- MODULE DataFiles ------------------------------
(***************************************************************************)
(* Files between export and import (runExport, runImport, readImportFile   *)
(* of internal/cli, ExportRows of internal/db).  An export reads its rows, *)
(* truncates the file and writes it piece by piece; it may be killed, and  *)
(* the disk may be full.  An import takes the file as it finds it: beside  *)
(* a running export, after a killed one, or under a name whose extension   *)
(* does not fit the format.                                                *)
(***************************************************************************)
EXTENDS Integers, Sequences

CONSTANTS
  Value,       \* kinds of values: "text", "empty", "null", "time", "big"
  Rowsets,     \* what a query may return
  Extensions,  \* of the file: "csv", "json" or "other"
  MaxExports   \* bound: exports, one after the other

Arguments ==
  /\ Value \subseteq {"text", "empty", "null", "time", "big"}
  /\ Rowsets \subseteq Seq(Seq(Value) \ {<<>>})
  /\ \A rs \in Rowsets : \A i, j \in 1 .. Len(rs) : Len(rs[i]) = Len(rs[j])
  /\ Extensions \subseteq {"csv", "json", "other"}
  /\ MaxExports \in Nat

VARIABLES
  ext,      \* extension of the file; never changes
  file,     \* the file
  export,   \* "idle", "queried", "writing", "ok", "err" or "dead"
  format,   \* --format of the export
  rows,     \* the rows it has read
  count,    \* exports so far
  before,   \* history: the file when the export began, until it opens it
  lost,     \* history: the disk lost data after the last export's close
  written,  \* history: rows of the exports that have opened the file
  import,   \* "idle", "reading", "ok" or "err"
  mixed,    \* history: the file was truncated while the import was reading it
  got       \* rows the import has stored

exporter == <<export, format, rows, count, before>>
importer == <<import, got>>
vars == <<ext, file, exporter, lost, written, importer, mixed>>

\* A file is [text, rows, done, tail]: what it is a beginning of, how many
\* records are in it to the end (the header of a CSV file is the first), and
\* where the record behind them breaks off: nowhere ("none"), before the last
\* field, inside quotes, inside the last field, before the end of the line.
\* A JSON file is one value: "line" when it is all there, with its last line end or
\* without.
Tails == {"none", "fields", "quoted", "last", "line"}
File(text, rs, done, tail) == [text |-> text, rows |-> rs, done |-> done, tail |-> tail]
NoFile == File("none", <<>>, 0, "none")
EmptyFile == File("empty", <<>>, 0, "none")
WholeFile(text, rs) ==
  IF text = "json" THEN File("json", rs, Len(rs), "line") ELSE File("csv", rs, Len(rs) + 1, "none")

\* Parts of the file that may be on disk before it is whole.
IsPart(f, text, rs) ==
  /\ f.text = text /\ f.rows = rs
  /\ f.done \in 0 .. Len(rs)
  /\ f.tail \in IF text = "csv" THEN Tails ELSE IF f.done = Len(rs) THEN {"none", "line"} ELSE {"none"}

Init ==
  /\ ext \in Extensions
  /\ file = NoFile /\ before = NoFile
  /\ export = "idle" /\ format = "csv" /\ rows = <<>> /\ count = 0
  /\ lost = FALSE /\ written = {}
  /\ import = "idle" /\ mixed = FALSE /\ got = <<>>

-----------------------------------------------------------------------------
(* export.                                                                 *)

QueryRows ==
  /\ export = "idle" /\ count < MaxExports
  /\ count' = count + 1
  /\ export' = "queried"
  /\ rows' \in Rowsets
  /\ format' \in {"csv", "json", "other"}
  /\ before' = file
  /\ UNCHANGED <<ext, file, lost, written, importer, mixed>>

\* The query fails or the file cannot be created.
ExportFails ==
  /\ export = "queried"
  /\ export' = "err"
  /\ UNCHANGED <<ext, file, format, rows, count, before, lost, written, importer, mixed>>

\* os.Create truncates a file that is there.
Create ==
  /\ export = "queried"
  /\ export' = "writing"
  /\ file' = EmptyFile
  /\ lost' = FALSE
  /\ written' = written \cup {rows}
  /\ mixed' = (mixed \/ import = "reading")
  /\ before' = NoFile
  /\ UNCHANGED <<ext, format, rows, count, importer>>

\* The file grows by what the writer hands over, wherever that ends.
Write ==
  /\ export = "writing" /\ format \in {"csv", "json"}
  /\ \E done \in 0 .. Len(rows), tail \in Tails :
       LET f == File(format, rows, done, tail) IN
       /\ IsPart(f, format, rows)
       /\ file.text = "empty" \/ done > file.done \/ (done = file.done /\ file.tail = "none")
       /\ file' = f
  /\ UNCHANGED <<ext, exporter, lost, written, importer, mixed>>

\* An unknown format, or a write or the last flush that fails.
WriteFails ==
  /\ export = "writing"
  /\ export' = "err"
  /\ UNCHANGED <<ext, file, format, rows, count, before, lost, written, importer, mixed>>

\* (mutant) The error of the last flush is not looked at.
WrittenUnflushed ==
  /\ export = "writing" /\ format \in {"csv", "json"}
  /\ export' = "ok"
  /\ file' \in {file, WholeFile(format, rows)}
  /\ UNCHANGED <<ext, format, rows, count, before, lost, written, importer, mixed>>

\* Encode, or Flush and Error, return without an error.
Written ==
  /\ export = "writing" /\ format \in {"csv", "json"}
  /\ export' = "ok"
  /\ file' = WholeFile(format, rows)
  /\ UNCHANGED <<ext, format, rows, count, before, lost, written, importer, mixed>>

\* A full disk may show only when the file is closed; that error is dropped.
LostAtClose ==
  /\ export = "ok" /\ ~lost
  /\ lost' = TRUE
  /\ \E done \in 0 .. Len(rows), tail \in Tails :
       IsPart(File(format, rows, done, tail), format, rows) /\ file' = File(format, rows, done, tail)
  /\ UNCHANGED <<ext, exporter, written, importer, mixed>>

Kill ==
  /\ export \in {"queried", "writing"}
  /\ export' = "dead"
  /\ UNCHANGED <<ext, file, format, rows, count, before, lost, written, importer, mixed>>

NextExport ==
  /\ export \in {"ok", "err", "dead"}
  /\ export' = "idle"
  /\ UNCHANGED <<ext, file, format, rows, count, before, lost, written, importer, mixed>>

-----------------------------------------------------------------------------
(* import.                                                                 *)

\* What the database is given for a value that went through a file: fmt.Sprint
\* makes "<nil>" of a null and adds a zone to a time; a number of a JSON file
\* is a float64.
Back(text, v) ==
  CASE text = "csv" /\ v = "null" -> "nil_word"
    [] text = "csv" /\ v = "time" -> "zoned_time"
    [] text = "json" /\ v = "big" -> "rounded"
    [] OTHER -> v

BackRow(text, r) == [i \in 1 .. Len(r) |-> Back(text, r[i])]
BackRows(text, rs) == [i \in 1 .. Len(rs) |-> BackRow(text, rs[i])]

\* A row of one empty field is a blank line, which the CSV reader skips.
Reader(text, rs) ==
  BackRows(text, IF text = "csv" THEN SelectSeq(rs, LAMBDA r : r # <<"empty">>) ELSE rs)

Bad == [ok |-> FALSE, rows |-> <<>>]
Good(rs) == [ok |-> TRUE, rows |-> rs]

\* A row whose last field is not all there.
Cut(r) == [r EXCEPT ![Len(r)] = "short"]

\* encoding/csv refuses a record with fewer fields than the header, and an open
\* quote; it takes a shortened last field, and a header without rows.
ReadCsv(f) ==
  LET data == SubSeq(f.rows, 1, f.done - 1)
      next == f.rows[f.done]
  IN  CASE f.tail = "quoted" -> Bad
        [] f.tail # "quoted" /\ f.done = 0 -> Good(<<>>)
        [] f.tail = "none" /\ f.done > 0 -> Good(Reader("csv", data))
        [] f.tail = "fields" /\ f.done > 0 -> IF Len(next) > 1 THEN Bad ELSE Good(Reader("csv", data))
        [] f.tail = "last" /\ f.done > 0 -> Good(Reader("csv", Append(data, Cut(next))))
        [] f.tail = "line" /\ f.done > 0 -> Good(Reader("csv", Append(data, next)))

\* (mutant) The values that are there are decoded one after the other.
ReadJsonSoFar(f) == Good(Reader("json", SubSeq(f.rows, 1, f.done)))

\* Unmarshal takes the whole value or nothing.
ReadJson(f) == IF f.tail = "line" THEN Good(Reader("json", f.rows)) ELSE Bad

\* JSON text is no CSV text, for its bare quotes, before a first row is in it.
ReadFile(f) ==
  CASE f.text = "none" \/ ext = "other" -> Bad
    [] f.text = "empty" -> IF ext = "csv" THEN Good(<<>>) ELSE Bad
    [] f.text = "csv" -> IF ext = "csv" THEN ReadCsv(f) ELSE Bad
    [] f.text = "json" -> IF ext = "json" THEN ReadJson(f)
                          ELSE IF f.done = 0 THEN Good(<<>>) ELSE Bad

OpenFile ==
  /\ import = "idle"
  /\ import' = IF file.text = "none" \/ ext = "other" THEN "err" ELSE "reading"
  /\ UNCHANGED <<ext, file, exporter, lost, written, mixed, got>>

\* The file is read to its end, and its rows are stored in one transaction (see
\* TxExec).  Of a file that was truncated meanwhile any rows may come.
Import ==
  /\ import = "reading"
  /\ import' = "ok"
  /\ IF mixed THEN got' \in Rowsets
     ELSE ReadFile(file).ok /\ got' = ReadFile(file).rows
  /\ UNCHANGED <<ext, file, exporter, lost, written, mixed>>

\* The file is refused, or the database refuses a row.
ImportFails ==
  /\ import = "reading"
  /\ import' = "err"
  /\ UNCHANGED <<ext, file, exporter, lost, written, mixed, got>>

Next ==
  \/ QueryRows \/ ExportFails \/ Create \/ Write \/ WriteFails \/ Written
  \/ LostAtClose \/ Kill \/ NextExport
  \/ OpenFile \/ Import \/ ImportFails

Spec == Init /\ [][Next]_vars

-----------------------------------------------------------------------------
(* Properties.                                                             *)

\* An export that answered ok has left a file that an import of its format reads
\* to the last row, unless the disk lost it at close; one that failed or was
\* killed before it opened the file has left the old one as it was (runExport,
\* ExportRows).
OkIsWhole ==
  /\ export = "ok" /\ ~lost /\ ext = format => ReadFile(file) = Good(Reader(format, rows))
  /\ before # NoFile => file = before

\* The first rows of rs, the last of them perhaps cut inside its last field.
Beginnings(rs) ==
  {SubSeq(rs, 1, n) : n \in 0 .. Len(rs)}
  \cup {Append(SubSeq(rs, 1, n - 1), Cut(rs[n])) : n \in 1 .. Len(rs)}

\* Rows that were imported have been exported.  Of a JSON file they are all the
\* rows of one export, which may fail yet; of a CSV file the first rows of
\* one export, the last of them perhaps cut inside its last field.  This holds
\* beside running exports and after killed ones, but not for a file that was
\* truncated while it was read (readImportFile).
ImportedWasExported ==
  import = "ok" /\ ~mixed /\ got # <<>> =>
    \E rs \in written :
      IF ext = "json" THEN got = Reader("json", rs)
      ELSE \E part \in Beginnings(rs) : got = Reader("csv", part)
=============================================================================
