------------------------------- MODULE Entry --------------------------------
(***************************************************************************)
(* One call of the program from its line to its exit code (cmd/dbx,        *)
(* internal/app).  internal/cli prints to os.Stdout; when the caller wants *)
(* the output elsewhere, runLegacyCommand makes os.Stdout the end of a     *)
(* pipe, and a second goroutine copies the pipe to the caller's writer.    *)
(* That writer, or os.Stdout itself, may break at any moment.              *)
(***************************************************************************)
EXTENDS Arguments

CONSTANTS
  Calls,     \* what callers mean to run and how they write it: [means, pieces]
  Slips,     \* lines of which nothing is claimed but how the call ends
  Size,      \* parts in which a text is written
  PipeSize   \* parts the pipe holds

\* Callers mean what they can and say what they mean.
ASSUME Clear == \A c \in Calls : Sensible(c.means) /\ Spells(c.pieces, c.means)

ASSUME Sizes == Size \in Nat \ {0} /\ PipeSize \in Nat \ {0}

VARIABLES
  line,      \* the words behind the program's name; never changes
  meant,     \* history: what the caller meant by them; never changes
  ran,       \* what the line is taken for; never changes
  captured,  \* stdout is not os.Stdout; never changes
  sink,      \* the caller's stdout: "good", "full" or "gone"
  pc,        \* of the call
  answer,    \* what internal/cli prints: "result", "error" or "none"
  failed,    \* a write of internal/cli failed
  sent,      \* parts it has written
  pipe,      \* parts in the pipe
  out,       \* parts the caller's stdout has
  lost,      \* parts on the way when a write failed
  copier,    \* the goroutine: "none", "copying", "done" or "failed"
  code,      \* exit code, or Running or Signaled
  told       \* something is on stderr

fixed == <<line, meant, ran, captured>>
text == <<sent, pipe, out, lost>>
vars == <<fixed, sink, pc, answer, failed, text, copier, code, told>>

Running == 0 - 1
Signaled == 141
Nothing == Answer("none", <<>>, Default(<<>>), <<>>)

Init ==
  /\ \/ \E c \in Calls : line = Line(c.means, c.pieces) /\ meant = Meant(c.means)
     \/ line \in Slips /\ meant = Nothing
  /\ ran = Reading(line)
  /\ captured \in BOOLEAN
  /\ sink = "good" /\ pc = "parse"
  /\ answer = "none" /\ failed = FALSE
  /\ sent = 0 /\ pipe = 0 /\ out = 0 /\ lost = 0
  /\ copier = "none" /\ code = Running /\ told = FALSE

End(c, says) == pc' = "end" /\ code' = c /\ told' = says

\* The writer breaks: its disk is full, or its reader has gone.
Break ==
  /\ sink = "good" /\ pc # "end"
  /\ sink' \in {"full", "gone"}
  /\ UNCHANGED <<fixed, pc, answer, failed, text, copier, code, told>>

-----------------------------------------------------------------------------
(* The commands of internal/app.                                           *)

\* A line that is wrong ends the call before internal/cli has seen it.
Dispatch ==
  /\ pc = "parse"
  /\ CASE ran.kind = "usage" -> End(2, TRUE)
       [] ran.kind = "print" -> pc' = "print" /\ UNCHANGED <<code, told>>
       [] OTHER -> pc' = "start" /\ UNCHANGED <<code, told>>
  /\ UNCHANGED <<fixed, sink, answer, failed, text, copier>>

\* help, version and secret encrypt write to the caller's stdout and return its
\* error, which counts as a usage error; encrypting may fail before.
Show ==
  /\ pc = "print"
  /\ \/ sink = "good" /\ out' = Size /\ End(0, FALSE)
     \/ sink # "good" /\ out' = out
        /\ IF sink = "gone" /\ ~captured THEN End(Signaled, FALSE) ELSE End(2, TRUE)
     \/ ran.path = <<"secret", "encrypt">> /\ out' = out /\ End(1, TRUE)
  /\ UNCHANGED <<fixed, sink, answer, failed, sent, pipe, lost, copier>>

PipeFails ==
  /\ pc = "start" /\ captured
  /\ End(1, TRUE)
  /\ UNCHANGED <<fixed, sink, answer, failed, text, copier>>

Formats == {Word("json"), Word("table"), Word("")}
OnlyJson == Top(ran.path) = "export"

\* internal/cli runs the command and has its answer.  An unknown format is an
\* error that prints nothing.
Run ==
  /\ pc = "start"
  /\ copier' = IF captured THEN "copying" ELSE "none"
  /\ answer' \in CASE ran.kind = "raw" -> {"none"}
                   [] ran.kind = "help" -> {"result"}
                   [] ran.kind \notin {"raw", "help"} /\ ~OnlyJson /\ ran.set["format"] \notin Formats -> {"none"}
                   [] OTHER -> IF ran.kind = "refused" THEN {"error"} ELSE {"result", "error", "none"}
  /\ pc' = IF answer' = "none" THEN "return" ELSE "write"
  /\ UNCHANGED <<fixed, sink, failed, text, code, told>>

\* Nobody looks at the errors of these writes.
Unchecked == ran.kind = "help" \/ (~OnlyJson /\ ran.set["format"] = Word("table"))

\* A part goes to os.Stdout, or into the pipe when it has room.
Write ==
  /\ pc = "write" /\ sent < Size
  /\ sent' = sent + 1
  /\ IF captured THEN pipe < PipeSize /\ pipe' = pipe + 1 /\ out' = out
     ELSE sink = "good" /\ out' = out + 1 /\ pipe' = pipe
  /\ UNCHANGED <<fixed, sink, pc, answer, failed, lost, copier, code, told>>

WriteFails ==
  /\ pc = "write" /\ sent < Size
  /\ ~captured /\ sink = "full"
  /\ failed' = TRUE
  /\ sent' = sent + 1 /\ lost' = lost + 1
  /\ pc' = IF Unchecked THEN pc ELSE "return"
  /\ UNCHANGED <<fixed, sink, answer, pipe, out, copier, code, told>>

\* A write to a standard output whose reader has gone ends a Go process.
Signal ==
  /\ pc = "write" /\ sent < Size
  /\ ~captured /\ sink = "gone"
  /\ End(Signaled, FALSE)
  /\ UNCHANGED <<fixed, sink, answer, failed, text, copier>>

Written ==
  /\ pc = "write" /\ sent = Size
  /\ pc' = "return"
  /\ UNCHANGED <<fixed, sink, answer, failed, text, copier, code, told>>

\* (mutant) The copy is waited for before the pipe is closed.
CloseAfterCopy ==
  /\ pc = "return"
  /\ copier # "copying"
  /\ pc' = IF captured THEN "closed" ELSE "exit"
  /\ UNCHANGED <<fixed, sink, answer, failed, text, copier, code, told>>

\* The command has returned, and its end of the pipe is closed.
Close ==
  /\ pc = "return"
  /\ pc' = IF captured THEN "closed" ELSE "exit"
  /\ UNCHANGED <<fixed, sink, answer, failed, text, copier, code, told>>

\* (mutant) The copy is not waited for.
WaitForNothing ==
  /\ pc = "closed"
  /\ IF copier = "failed" THEN End(1, TRUE) ELSE pc' = "exit" /\ UNCHANGED <<code, told>>
  /\ UNCHANGED <<fixed, sink, answer, failed, text, copier>>

\* An error of the copy comes before that of the command.
Wait ==
  /\ pc = "closed"
  /\ \/ copier = "failed" /\ End(1, TRUE)
     \/ copier = "done" /\ pc' = "exit" /\ UNCHANGED <<code, told>>
  /\ UNCHANGED <<fixed, sink, answer, failed, text, copier>>

\* wrapLegacyError and ExecuteContext: an error that has been printed as an
\* envelope is not said again.
Exit ==
  /\ pc = "exit"
  /\ IF answer = "none" \/ (failed /\ ~Unchecked) THEN End(1, TRUE)
     ELSE End(IF answer = "error" THEN 1 ELSE 0, FALSE)
  /\ UNCHANGED <<fixed, sink, answer, failed, text, copier>>

-----------------------------------------------------------------------------
(* The goroutine that copies.                                              *)

Copy ==
  /\ copier = "copying" /\ pipe > 0
  /\ pipe' = pipe - 1
  /\ IF sink = "good" THEN out' = out + 1 /\ UNCHANGED <<lost, copier>>
     ELSE lost' = lost + 1 /\ copier' = "failed" /\ out' = out
  /\ UNCHANGED <<fixed, sink, pc, answer, failed, sent, code, told>>

CopyEnds ==
  /\ copier = "copying" /\ pipe = 0 /\ pc = "closed"
  /\ copier' = "done"
  /\ UNCHANGED <<fixed, sink, pc, answer, failed, text, code, told>>

Call ==
  \/ Dispatch \/ Show \/ PipeFails \/ Run
  \/ Write \/ WriteFails \/ Signal \/ Written
  \/ Close \/ Wait \/ Exit
Copier == Copy \/ CopyEnds

Next == Call \/ Copier \/ Break

Spec == Init /\ [][Next]_vars

\* The two goroutines go on as long as they can.
FairSpec == Spec /\ WF_vars(Call) /\ WF_vars(Copier)

-----------------------------------------------------------------------------
(* Properties.                                                             *)

\* A command runs with what its caller meant, wherever the flags stand and
\* however they are spelled: the parser of the commands, the line internal/app
\* writes for internal/cli, normalizeFlagArgs and the flag package agree.
RunsAsMeant == meant # Nothing => ran = meant

\* The exit code is true of what the caller has: 0 comes with the whole answer
\* and 1 or 2 with an error envelope or a message, 2 only before a command ran.
\* Help and tables of internal/cli are left out, whose writes are not checked
\* (ExecuteContext, runLegacyCommand, renderError).
ExitIsTrue ==
  /\ code = 0 /\ (ran.kind = "print" \/ ~Unchecked) => out = Size
  /\ code \in {1, 2} => told \/ (answer = "error" /\ (out = Size \/ Unchecked))
  /\ code = 2 => ran.kind \in {"usage", "print"}

\* Once the copy has failed, nobody empties the pipe.
Stuck == captured /\ pc = "write" /\ copier = "failed" /\ pipe = PipeSize

\* A call ends, unless the writer it captures its output for has failed and the
\* rest of the output is larger than the pipe (runLegacyCommand).
CallEnds == <>(pc = "end" \/ Stuck)
=============================================================================
