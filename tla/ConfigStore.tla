---------------------------- MODULE ConfigStore -----------------------------
(***************************************************************************)
(* The connection profiles of dbx: one <name>.toml per connection in the   *)
(* agent's own directory and in the system's, or in the one directory or   *)
(* file that --config names (List and LoadNamed of internal/config, called *)
(* by conn and by Resolve).  Both look at several files one after the      *)
(* other while somebody saves, breaks and removes files.                   *)
(***************************************************************************)
EXTENDS Naturals, Sequences

CONSTANTS
  Name,      \* names of connections
  Only,      \* the name of the file, when --config names a file
  MaxEdits   \* bound: files changed by somebody else during the call

ASSUME Arguments == Only \in Name /\ MaxEdits \in Nat

\* A file parses to a profile or it does not.  A directory that does not exist
\* holds no files, and a directory named by --config is searched like "system".
Dir == {"agent", "system", "file"}
Content == {"absent", "broken", "valid"}

\* Where default and explicit configurations are searched, best first.
SearchOrders == {<<"agent", "system">>, <<"system">>, <<"file">>}

\* "list" is conn list; "use" is any command that needs one connection; "show"
\* stands for conn show and conn test, which list before they resolve.
Commands == {"list", "use", "show"}

VARIABLES
  files,    \* content of each file on disk
  command, name, paths,   \* the call; never change
  pc,       \* "opendir", "entries", "stat", "load" or "end"
  at,       \* position in paths
  entries,  \* names of the directory that are still to be loaded
  listed,   \* the directory each listed name comes from, or "none"
  found,    \* the directory of the profile that was loaded, or "none"
  answer,   \* "none", "ok", "not_found" or "failed"
  edits, seen   \* history: how many edits, what each file held during the call

call == <<command, name, paths>>
disk == <<files, edits, seen>>
vars == <<files, call, pc, at, entries, listed, found, answer, edits, seen>>

Init ==
  /\ files \in [Dir -> [Name -> Content]]
  /\ command \in Commands /\ name \in Name /\ paths \in SearchOrders
  /\ \A d \in Dir : (\A i \in 1 .. Len(paths) : paths[i] # d) => files[d] = [n \in Name |-> "absent"]
  /\ \A n \in Name \ {Only} : files["file"][n] = "absent"
  /\ pc = IF command = "use" THEN "stat" ELSE "opendir"
  /\ at = IF command = "use" THEN 1 ELSE Len(paths)
  /\ entries = {} /\ listed = [n \in Name |-> "none"]
  /\ found = "none" /\ answer = "none"
  /\ edits = 0
  /\ seen = [d \in Dir |-> [n \in Name |-> {files[d][n]}]]

Here == paths[at]
Answer(word) == answer' = word /\ pc' = "end"

-----------------------------------------------------------------------------
(* List: the last directory first, so that a better one overrides it.      *)

OpenDir ==
  /\ pc = "opendir" /\ pc' = "entries"
  /\ entries' = {n \in Name : files[Here][n] # "absent"}
  /\ UNCHANGED <<call, disk, at, listed, found, answer>>

\* The directory cannot be read.
OpenDirFails ==
  /\ pc = "opendir"
  /\ Answer("failed")
  /\ UNCHANGED <<call, disk, at, entries, listed, found>>

\* (mutant) The first profile of a name stays.
KeepFirst(n) == IF listed[n] = "none" THEN Here ELSE listed[n]

Override(n) == Here

LoadEntry(n) ==
  /\ pc = "entries" /\ n \in entries
  /\ files[Here][n] = "valid"
  /\ entries' = entries \ {n}
  /\ listed' = [listed EXCEPT ![n] = Override(n)]
  /\ UNCHANGED <<call, disk, pc, at, found, answer>>

\* One file that does not parse, or is gone, ends the call, also when another
\* name was asked for.
LoadEntryFails(n) ==
  /\ pc = "entries" /\ n \in entries
  /\ files[Here][n] # "valid"
  /\ Answer("failed")
  /\ UNCHANGED <<call, disk, at, entries, listed, found>>

\* (mutant) The list ends with the directory it began with.
NoMoreDirs == TRUE

LastDir == at = 1

NextDir ==
  /\ pc = "entries" /\ entries = {}
  /\ ~LastDir
  /\ pc' = "opendir" /\ at' = at - 1
  /\ UNCHANGED <<call, disk, entries, listed, found, answer>>

ListDone ==
  /\ pc = "entries" /\ entries = {}
  /\ LastDir
  /\ IF command = "list" THEN Answer("ok") ELSE pc' = "stat" /\ UNCHANGED answer
  /\ at' = 1
  /\ UNCHANGED <<call, disk, entries, listed, found>>

-----------------------------------------------------------------------------
(* LoadNamed: the first directory that has a file of the name decides.     *)

\* A file named by --config is read whatever name was asked for.
WantedIn(d) == IF d = "file" THEN Only ELSE name
Wanted == WantedIn(Here)

StatHit ==
  /\ pc = "stat" /\ pc' = "load"
  /\ files[Here][Wanted] # "absent"
  /\ UNCHANGED <<call, disk, at, entries, listed, found, answer>>

\* (mutant) Only the first place is searched.
OneMiss == TRUE

LastMiss == at = Len(paths)

StatMiss ==
  /\ pc = "stat"
  /\ files[Here][Wanted] = "absent"
  /\ IF LastMiss THEN Answer("not_found") /\ UNCHANGED at ELSE at' = at + 1 /\ UNCHANGED <<pc, answer>>
  /\ UNCHANGED <<call, disk, entries, listed, found>>

\* The file cannot be looked at.
StatFails ==
  /\ pc = "stat"
  /\ Answer("failed")
  /\ UNCHANGED <<call, disk, at, entries, listed, found>>

Load ==
  /\ pc = "load"
  /\ files[Here][Wanted] = "valid" /\ Wanted = name
  /\ found' = Here
  /\ Answer("ok")
  /\ UNCHANGED <<call, disk, at, entries, listed>>

\* (mutant) A file that does not parse is passed over.
LoadFallsThrough ==
  /\ pc = "load"
  /\ files[Here][Wanted] # "valid"
  /\ IF at = Len(paths) THEN Answer("failed") /\ UNCHANGED at
     ELSE pc' = "stat" /\ at' = at + 1 /\ UNCHANGED answer
  /\ UNCHANGED <<call, disk, entries, listed, found>>

\* A file that is there and does not parse, is gone meanwhile, or has another
\* name than the one asked for, does not make the search go on.
LoadFails ==
  /\ pc = "load"
  /\ files[Here][Wanted] # "valid" \/ Wanted # name
  /\ Answer("failed")
  /\ UNCHANGED <<call, disk, at, entries, listed, found>>

Call ==
  \/ OpenDir \/ OpenDirFails \/ NextDir \/ ListDone
  \/ \E n \in Name : LoadEntry(n) \/ LoadEntryFails(n)
  \/ StatHit \/ StatMiss \/ StatFails \/ Load \/ LoadFails

\* Somebody saves or removes a file in a directory that is searched.
Edit(d, n, content) ==
  /\ edits < MaxEdits /\ pc # "end"
  /\ \E i \in 1 .. Len(paths) : paths[i] = d
  /\ d = "file" => n = Only
  /\ edits' = edits + 1
  /\ files' = [files EXCEPT ![d][n] = content]
  /\ seen' = [seen EXCEPT ![d][n] = @ \cup {content}]
  /\ UNCHANGED <<call, pc, at, entries, listed, found, answer>>

Next ==
  \/ Call
  \/ \E d \in Dir, n \in Name, content \in Content : Edit(d, n, content)

Spec == Init /\ [][Next]_vars

-----------------------------------------------------------------------------
(* Properties.                                                             *)

\* The agent's file of a name, valid or not, hides the system's: the system's
\* is used only if the agent's was absent at some moment of the call, and what
\* is used was valid at some moment (LoadNamed).
UsedAgentFirst ==
  /\ found = "system" /\ Len(paths) = 2 => "absent" \in seen["agent"][name]
  /\ found # "none" => "valid" \in seen[found][name]

\* "not found" is said only of a name that every place lacked at some moment.
NotFoundIsTrue ==
  answer = "not_found" =>
    \A i \in 1 .. Len(paths) : "absent" \in seen[paths[i]][WantedIn(paths[i])]

\* conn list shows the agent's profile of a name wherever the agent has one
\* throughout (List reads the directories backwards).
ListedAgentFirst ==
  command = "list" /\ answer = "ok" =>
    \A n \in Name :
      listed[n] = "system" /\ Len(paths) = 2 => "absent" \in seen["agent"][n]

\* A complete list holds every name whose file stayed in one of the places, and
\* no name that was in none.
ListIsComplete ==
  command = "list" /\ answer = "ok" =>
    \A n \in Name :
      /\ (\E i \in 1 .. Len(paths) : "absent" \notin seen[paths[i]][n]) => listed[n] # "none"
      /\ listed[n] # "none" => "valid" \in seen[listed[n]][n]
=============================================================================
