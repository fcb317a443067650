------------------------------- MODULE Stores -------------------------------
(* What calls keep or find outside of the database: the profiles             *)
(* (ConfigStore), the keys of their passwords (Secret), and the files of     *)
(* exports and imports (DataFiles).  One of them is used while the others    *)
(* rest.                                                                     *)
EXTENDS ConfigStore

CONSTANTS Machine, Proc, Password, Phrase, MaxKeys, Value, Rowsets, Extensions, MaxExports

VARIABLES
  used,   \* "profiles", "keys" or "data"; never changes
  keyring, enc, made, issued, conf, dec, changes, disturbed,
  ext, file, export, format, rows, count, before, lost, written, import, mixed, got

keys == <<keyring, enc, made, issued, conf, dec, changes, disturbed>>
data == <<ext, file, export, format, rows, count, before, lost, written, import, mixed, got>>

Keys == INSTANCE Secret WITH edits <- changes
Data == INSTANCE DataFiles

ASSUME KeysArguments == Keys!Arguments
ASSUME DataArguments == Data!Arguments

\* A list of no profiles has been shown, no key made, no file written.
ProfilesRest ==
  /\ files = [d \in Dir |-> [n \in Name |-> "absent"]]
  /\ command = "list" /\ name = Only /\ paths = <<"system">>
  /\ pc = "end" /\ at = 1 /\ entries = {}
  /\ listed = [n \in Name |-> "none"] /\ found = "none" /\ answer = "ok"
  /\ edits = 0 /\ seen = [d \in Dir |-> [n \in Name |-> {"absent"}]]
KeysRest == Keys!Init /\ conf = [m \in Machine |-> CHOOSE line \in Keys!Other : TRUE]
DataRest == Data!Init /\ ext = CHOOSE e \in Extensions : TRUE

StoresInit ==
  \/ used = "profiles" /\ Init /\ KeysRest /\ DataRest
  \/ used = "keys" /\ ProfilesRest /\ Keys!Init /\ DataRest
  \/ used = "data" /\ ProfilesRest /\ KeysRest /\ Data!Init

StoresNext ==
  \/ used = "profiles" /\ Next /\ UNCHANGED <<used, keys, data>>
  \/ used = "keys" /\ Keys!Next /\ UNCHANGED <<used, vars, data>>
  \/ used = "data" /\ Data!Next /\ UNCHANGED <<used, vars, keys>>

StoresSpec == StoresInit /\ [][StoresNext]_<<used, vars, keys, data>>

\* Every line that was printed can be opened on its machine until somebody
\* touches its key (Secret, EncryptStringV2).
PrintedCanBeOpened == Keys!PrintedCanBeOpened

\* A key is called missing, and a v2 line invalid, only when that is so (Secret,
\* decryptStringV2).
ReasonIsTrue == Keys!ReasonIsTrue

\* An export that answered ok has left a whole file, and one that did not open it
\* the old one (DataFiles, runExport).
OkIsWhole == Data!OkIsWhole

\* Rows that were imported have been exported (DataFiles, readImportFile).
ImportedWasExported == Data!ImportedWasExported
=============================================================================
