---------------------------- MODULE StoresProofs ----------------------------
(***************************************************************************)
(* Proofs about ConfigStore, alone and within Stores, for every set of     *)
(* names and any number of edits.  At the end, what is proved of Secret    *)
(* and DataFiles is carried over to Stores.                                *)
(***************************************************************************)
EXTENDS Stores, TLAPS

TypeOK ==
  /\ files \in [Dir -> [Name -> Content]]
  /\ command \in Commands /\ name \in Name /\ paths \in SearchOrders
  /\ pc \in {"opendir", "entries", "stat", "load", "end"}
  /\ at \in 1 .. Len(paths)
  /\ entries \subseteq Name
  /\ listed \in [Name -> Dir \cup {"none"}]
  /\ found \in Dir \cup {"none"}
  /\ answer \in {"none", "ok", "not_found", "failed"}
  /\ edits \in Nat
  /\ seen \in [Dir -> [Name -> SUBSET Content]]

\* The history knows what is on disk.
Observed == \A d \in Dir, n \in Name : files[d][n] \in seen[d][n]

\* While the list is made, and when conn list has answered.
Listing == pc \in {"opendir", "entries"} \/ (command = "list" /\ answer = "ok")

\* Position j is behind the list: all of its names have been looked at.
Passed(j, n) ==
  \/ \E k \in 1 .. j : listed[n] = paths[k]
  \/ "absent" \in seen[paths[j]][n]

ListSoFar ==
  Listing =>
    /\ \A n \in Name : listed[n] # "none" => "valid" \in seen[listed[n]][n]
    /\ \A j \in 1 .. Len(paths) : j > at => \A n \in Name : Passed(j, n)
    /\ pc # "opendir" => \A n \in Name \ entries : Passed(at, n)
    /\ pc = "end" => at = 1 /\ entries = {}

\* Every place before `at` lacked the name at some moment.
SearchSoFar ==
  /\ pc \in {"stat", "load"} =>
       \A j \in 1 .. Len(paths) : j < at => "absent" \in seen[paths[j]][WantedIn(paths[j])]
  /\ pc \in {"stat", "load"} => command # "list"
  /\ pc # "end" => answer = "none"
  /\ found # "none" => answer = "ok"

IInv ==
  /\ TypeOK /\ Observed
  /\ ListSoFar /\ SearchSoFar
  /\ UsedAgentFirst /\ NotFoundIsTrue

-----------------------------------------------------------------------------
LEMMA OrderFacts ==
  ASSUME paths \in SearchOrders
  PROVE  /\ Len(paths) \in {1, 2}
         /\ \A i \in 1 .. Len(paths) : paths[i] \in Dir
         /\ Len(paths) = 2 => paths[1] = "agent" /\ paths[2] = "system"
BY DEF SearchOrders, Dir

LEMMA InitIInv == Init => IInv
<1>. SUFFICES ASSUME Init PROVE IInv
  OBVIOUS
<1>1. Len(paths) \in {1, 2}
  BY OrderFacts DEF Init
<1>2. at \in 1 .. Len(paths)
  <2>1. at = 1 \/ at = Len(paths)
    BY DEF Init
  <2>. QED
    BY <1>1, <2>1
<1>. USE DEF Init
<1>3. seen \in [Dir -> [Name -> SUBSET Content]]
  OBVIOUS
<1>4. TypeOK
  <2>1. listed \in [Name -> Dir \cup {"none"}] /\ entries \subseteq Name
    OBVIOUS
  <2>2. pc \in {"opendir", "entries", "stat", "load", "end"}
    OBVIOUS
  <2>3. command \in Commands /\ name \in Name /\ paths \in SearchOrders
    OBVIOUS
  <2>. QED
    BY <1>2, <1>3, <2>1, <2>2, <2>3 DEF TypeOK
<1>5. Observed
  BY DEF Observed
<1>6. ListSoFar
  <2>1. pc # "entries" /\ pc # "end" /\ answer # "ok"
    OBVIOUS
  <2>2. pc = "opendir" => \A j \in 1 .. Len(paths) : ~(j > at)
    BY <1>1
  <2>3. \A n \in Name : listed[n] = "none"
    OBVIOUS
  <2>. QED
    BY <2>1, <2>2, <2>3 DEF ListSoFar, Listing
<1>7. SearchSoFar
  <2>1. pc # "end" /\ answer = "none" /\ found = "none" /\ pc # "load"
    OBVIOUS
  <2>2. pc = "stat" => command # "list" /\ at = 1
    OBVIOUS
  <2>3. \A j \in 1 .. Len(paths) : ~(j < 1)
    BY <1>1
  <2>. QED
    BY <2>1, <2>2, <2>3 DEF SearchSoFar
<1>8. UsedAgentFirst /\ NotFoundIsTrue
  BY DEF UsedAgentFirst, NotFoundIsTrue
<1>. QED
  BY <1>4, <1>5, <1>6, <1>7, <1>8 DEF IInv

\* A step that only ends the call, without a profile.
LEMMA GiveUpKeeps ==
  ASSUME IInv, Answer("failed"), pc # "end",
         UNCHANGED <<call, disk, at, entries, listed, found>>
  PROVE  IInv'
<1>. USE DEF IInv, Answer, call, disk
<1>1. TypeOK' /\ Observed'
  BY DEF TypeOK, Observed
<1>2. ListSoFar'
  BY DEF ListSoFar, Listing
<1>3. SearchSoFar'
  BY DEF SearchSoFar
<1>4. UsedAgentFirst' /\ NotFoundIsTrue'
  BY DEF UsedAgentFirst, NotFoundIsTrue, WantedIn
<1>. QED
  BY <1>1, <1>2, <1>3, <1>4

LEMMA OpenDirKeeps ==
  ASSUME IInv, OpenDir
  PROVE  IInv'
<1>. USE DEF IInv, OpenDir, call, disk
<1>1. TypeOK' /\ Observed'
  BY DEF TypeOK, Observed
<1>2. ListSoFar'
  <2>1. \A n \in Name \ entries' : files[Here][n] = "absent"
    OBVIOUS
  <2>2. Here \in Dir
    BY OrderFacts DEF TypeOK, Here
  <2>3. \A n \in Name \ entries' : "absent" \in seen[Here][n]
    BY <2>1, <2>2 DEF Observed
  <2>4. \A n \in Name \ entries' : Passed(at, n)'
    BY <2>3 DEF Passed, Here
  <2>5. Listing /\ pc' # "end"
    BY DEF Listing
  <2>6. /\ \A n \in Name : listed'[n] # "none" => "valid" \in seen'[listed'[n]][n]
        /\ \A j \in 1 .. Len(paths') : j > at' => \A n \in Name : Passed(j, n)'
    BY <2>5 DEF ListSoFar, Passed
  <2>. QED
    BY <2>4, <2>5, <2>6 DEF ListSoFar
<1>3. SearchSoFar'
  BY DEF SearchSoFar
<1>4. UsedAgentFirst' /\ NotFoundIsTrue'
  BY DEF UsedAgentFirst, NotFoundIsTrue, WantedIn
<1>. QED
  BY <1>1, <1>2, <1>3, <1>4

LEMMA LoadEntryKeeps ==
  ASSUME IInv, NEW m \in Name, LoadEntry(m)
  PROVE  IInv'
<1>. USE DEF IInv, LoadEntry, call, disk
<1>1. Here \in Dir /\ at \in 1 .. Len(paths) /\ Len(paths) \in Nat
  BY OrderFacts DEF TypeOK, Here
<1>2. listed' = [listed EXCEPT ![m] = Here]
  BY DEF Override
<1>3. TypeOK' /\ Observed'
  BY <1>1, <1>2 DEF TypeOK, Observed
<1>4. Listing /\ pc = "entries"
  BY DEF Listing
<1>5. "valid" \in seen[Here][m]
  BY <1>1 DEF Observed
<1>6. \A n \in Name : listed'[n] # "none" => "valid" \in seen'[listed'[n]][n]
  BY <1>2, <1>4, <1>5 DEF ListSoFar, TypeOK
<1>7. \A j \in 1 .. Len(paths), n \in Name : j >= at /\ n = m => Passed(j, n)'
  BY <1>1, <1>2 DEF Passed, Here, TypeOK
<1>8. \A j \in 1 .. Len(paths), n \in Name : n # m /\ Passed(j, n) => Passed(j, n)'
  BY <1>2 DEF Passed, TypeOK
<1>9. ListSoFar'
  <2>1. \A j \in 1 .. Len(paths') : j > at' => \A n \in Name : Passed(j, n)'
    BY <1>1, <1>4, <1>7, <1>8 DEF ListSoFar
  <2>2. \A n \in Name \ entries' : Passed(at, n)'
    BY <1>1, <1>4, <1>7, <1>8 DEF ListSoFar
  <2>3. (\A n \in Name \ entries : Passed(at, n))'
    BY <2>2
  <2>. QED
    BY <1>4, <1>6, <2>1, <2>3 DEF ListSoFar
<1>10. SearchSoFar'
  BY <1>4 DEF SearchSoFar
<1>11. UsedAgentFirst' /\ NotFoundIsTrue'
  BY DEF UsedAgentFirst, NotFoundIsTrue, WantedIn
<1>. QED
  BY <1>3, <1>9, <1>10, <1>11

LEMMA NextDirKeeps ==
  ASSUME IInv, NextDir
  PROVE  IInv'
<1>. USE DEF IInv, NextDir, LastDir, call, disk
<1>1. at \in 1 .. Len(paths) /\ Len(paths) \in Nat /\ at - 1 \in 1 .. Len(paths)
  BY OrderFacts DEF TypeOK
<1>2. TypeOK' /\ Observed'
  BY <1>1 DEF TypeOK, Observed
<1>3. ListSoFar'
  <2>1. Listing /\ pc' = "opendir"
    BY DEF Listing
  <2>2. \A n \in Name : Passed(at, n)
    BY <2>1 DEF ListSoFar
  <2>3. \A j \in 1 .. Len(paths) : j > at - 1 => j > at \/ j = at
    BY <1>1
  <2>4. \A j \in 1 .. Len(paths) : j > at - 1 => \A n \in Name : Passed(j, n)
    BY <2>1, <2>2, <2>3 DEF ListSoFar
  <2>5. \A j \in 1 .. Len(paths') : j > at' => \A n \in Name : Passed(j, n)'
    BY <2>4 DEF Passed
  <2>6. \A n \in Name : listed'[n] # "none" => "valid" \in seen'[listed'[n]][n]
    BY <2>1 DEF ListSoFar
  <2>. QED
    BY <2>1, <2>5, <2>6 DEF ListSoFar
<1>4. SearchSoFar'
  BY DEF SearchSoFar
<1>5. UsedAgentFirst' /\ NotFoundIsTrue'
  BY DEF UsedAgentFirst, NotFoundIsTrue, WantedIn
<1>. QED
  BY <1>2, <1>3, <1>4, <1>5

LEMMA ListDoneKeeps ==
  ASSUME IInv, ListDone
  PROVE  IInv'
<1>. USE DEF IInv, ListDone, LastDir, Answer, call, disk
<1>1. at = 1 /\ at' = 1 /\ Len(paths) \in Nat
  BY OrderFacts DEF TypeOK
<1>2. TypeOK' /\ Observed'
  BY <1>1 DEF TypeOK, Observed
<1>3. ListSoFar'
  <2>1. Listing
    BY DEF Listing
  <2>2. /\ \A n \in Name : listed[n] # "none" => "valid" \in seen[listed[n]][n]
        /\ \A j \in 1 .. Len(paths) : j > at => \A n \in Name : Passed(j, n)
        /\ \A n \in Name \ entries : Passed(at, n)
    BY <2>1 DEF ListSoFar
  <2>3. \A j \in 1 .. Len(paths), n \in Name : Passed(j, n) => Passed(j, n)'
    BY DEF Passed
  <2>4. \A n \in Name \ entries : Passed(at, n)'
    BY <2>2, <2>3, <1>1, OrderFacts DEF TypeOK
  <2>. QED
    BY <1>1, <2>2, <2>3, <2>4 DEF ListSoFar
<1>4. SearchSoFar'
  BY <1>1 DEF SearchSoFar
<1>5. UsedAgentFirst' /\ NotFoundIsTrue'
  BY DEF UsedAgentFirst, NotFoundIsTrue, WantedIn, SearchSoFar
<1>. QED
  BY <1>2, <1>3, <1>4, <1>5

LEMMA StatKeeps ==
  ASSUME IInv, StatHit \/ StatMiss
  PROVE  IInv'
<1>. USE DEF IInv, call, disk
<1>1. /\ pc = "stat" /\ pc' \in {"stat", "load", "end"}
      /\ UNCHANGED <<call, disk, entries, listed, found>>
      /\ answer = "none" /\ answer' \in {"none", "not_found"}
  BY DEF StatHit, StatMiss, Answer, SearchSoFar
<1>2. Here \in Dir /\ at \in 1 .. Len(paths) /\ Len(paths) \in Nat /\ Wanted \in Name
  BY OrderFacts, Arguments DEF TypeOK, Here, Wanted, WantedIn
<1>3. \/ at' = at /\ pc' = "load" /\ answer' = "none"
      \/ /\ "absent" \in seen[Here][Wanted]
         /\ \/ at' = at /\ at = Len(paths) /\ pc' = "end" /\ answer' = "not_found"
            \/ at' = at + 1 /\ at # Len(paths) /\ pc' = "stat" /\ answer' = "none"
  BY <1>1, <1>2 DEF StatHit, StatMiss, Answer, LastMiss, Observed
<1>4. at' \in 1 .. Len(paths)
  BY <1>2, <1>3
<1>5. TypeOK' /\ Observed'
  BY <1>1, <1>3, <1>4 DEF TypeOK, Observed
<1>6. ListSoFar'
  BY <1>1 DEF ListSoFar, Listing
<1>7. \A j \in 1 .. Len(paths) : j < at => "absent" \in seen[paths[j]][WantedIn(paths[j])]
  BY <1>1 DEF SearchSoFar
<1>8. SearchSoFar' /\ NotFoundIsTrue'
  <2>1. CASE at' = at /\ pc' = "load" /\ answer' = "none"
    BY <1>1, <1>7, <2>1 DEF SearchSoFar, NotFoundIsTrue, WantedIn
  <2>2. CASE at' = at /\ at = Len(paths) /\ pc' = "end" /\ answer' = "not_found"
    <3>1. "absent" \in seen[paths[at]][WantedIn(paths[at])]
      BY <1>3, <2>2 DEF Here, Wanted
    <3>2. \A j \in 1 .. Len(paths) : j < at \/ j = at
      BY <1>2, <2>2
    <3>3. \A j \in 1 .. Len(paths) : "absent" \in seen[paths[j]][WantedIn(paths[j])]
      BY <1>7, <3>1, <3>2
    <3>. QED
      BY <1>1, <2>2, <3>3 DEF SearchSoFar, NotFoundIsTrue, WantedIn
  <2>3. CASE at' = at + 1 /\ pc' = "stat" /\ answer' = "none"
    <3>1. "absent" \in seen[paths[at]][WantedIn(paths[at])]
      BY <1>2, <1>3, <2>3 DEF Here, Wanted
    <3>2. \A j \in 1 .. Len(paths) : j < at + 1 => j < at \/ j = at
      BY <1>2
    <3>3. \A j \in 1 .. Len(paths) : j < at + 1 => "absent" \in seen[paths[j]][WantedIn(paths[j])]
      BY <1>7, <3>1, <3>2
    <3>. QED
      BY <1>1, <2>3, <3>3 DEF SearchSoFar, NotFoundIsTrue, WantedIn
  <2>. QED
    BY <1>3, <2>1, <2>2, <2>3
<1>9. UsedAgentFirst'
  BY <1>1 DEF UsedAgentFirst
<1>. QED
  BY <1>5, <1>6, <1>8, <1>9

LEMMA LoadKeeps ==
  ASSUME IInv, Load
  PROVE  IInv'
<1>. USE DEF IInv, Load, Answer, call, disk
<1>1. Here \in Dir /\ at \in 1 .. Len(paths) /\ name \in Name
  BY OrderFacts DEF TypeOK, Here
<1>2. TypeOK' /\ Observed'
  BY <1>1 DEF TypeOK, Observed
<1>3. command # "list" => ListSoFar'
  BY DEF ListSoFar, Listing
<1>4. SearchSoFar'
  BY DEF SearchSoFar
<1>5. "valid" \in seen[Here][name]
  BY <1>1 DEF Observed
<1>6. Here = "system" /\ Len(paths) = 2 => "absent" \in seen["agent"][name]
  <2>. SUFFICES ASSUME Here = "system", Len(paths) = 2
                PROVE  "absent" \in seen["agent"][name]
    OBVIOUS
  <2>1. paths[1] = "agent" /\ at = 2
    BY <1>1, OrderFacts DEF Here, TypeOK
  <2>2. "absent" \in seen[paths[1]][WantedIn(paths[1])]
    BY <2>1 DEF SearchSoFar
  <2>. QED
    BY <2>1, <2>2 DEF WantedIn
<1>7. UsedAgentFirst' /\ NotFoundIsTrue'
  BY <1>5, <1>6 DEF UsedAgentFirst, NotFoundIsTrue
<1>8. command # "list"
  BY DEF SearchSoFar
<1>. QED
  BY <1>2, <1>3, <1>4, <1>7, <1>8

\* What somebody saves only adds to the history.
LEMMA EditKeeps ==
  ASSUME IInv, NEW d \in Dir, NEW m \in Name, NEW content \in Content, Edit(d, m, content)
  PROVE  IInv'
<1>. USE DEF IInv, Edit, call
<1>1. TypeOK'
  BY DEF TypeOK
<1>2. Observed'
  BY DEF Observed, TypeOK
<1>3. \A e \in Dir, n \in Name : seen[e][n] \subseteq seen'[e][n]
  BY DEF TypeOK
<1>4. \A i \in 1 .. Len(paths) : paths[i] \in Dir
  BY OrderFacts DEF TypeOK
<1>5. \A j \in 1 .. Len(paths), n \in Name : Passed(j, n) => Passed(j, n)'
  BY <1>3, <1>4 DEF Passed
<1>6. \A e \in Dir : WantedIn(e) \in Name /\ WantedIn(e)' = WantedIn(e)
  BY Arguments DEF TypeOK, WantedIn
<1>7. ListSoFar'
  <2>1. Listing' <=> Listing
    BY DEF Listing
  <2>2. ASSUME Listing
        PROVE  \A n \in Name : listed[n] # "none" => "valid" \in seen'[listed[n]][n]
    BY <1>3, <2>2 DEF ListSoFar, TypeOK
  <2>3. at \in 1 .. Len(paths)
    BY DEF TypeOK
  <2>. QED
    BY <1>5, <2>1, <2>2, <2>3 DEF ListSoFar
<1>8. SearchSoFar'
  BY <1>3, <1>4, <1>6 DEF SearchSoFar
<1>9. UsedAgentFirst' /\ NotFoundIsTrue'
  <2>1. found # "none" => found \in Dir
    BY DEF TypeOK
  <2>2. name \in Name /\ "agent" \in Dir
    BY DEF TypeOK, Dir
  <2>3. UsedAgentFirst'
    BY <1>3, <2>1, <2>2 DEF UsedAgentFirst
  <2>4. NotFoundIsTrue'
    BY <1>3, <1>4, <1>6 DEF NotFoundIsTrue
  <2>. QED
    BY <2>3, <2>4
<1>. QED
  BY <1>1, <1>2, <1>7, <1>8, <1>9

LEMMA StutterKeeps ==
  ASSUME IInv, UNCHANGED vars
  PROVE  IInv'
BY DEF vars, call, IInv, TypeOK, Observed, ListSoFar, Listing, Passed, SearchSoFar,
       UsedAgentFirst, NotFoundIsTrue, WantedIn

LEMMA NextIInv == IInv /\ [Next]_vars => IInv'
<1>. SUFFICES ASSUME IInv, [Next]_vars PROVE IInv'
  OBVIOUS
<1>1. CASE OpenDirFails \/ StatFails \/ LoadFails
  BY <1>1, GiveUpKeeps DEF OpenDirFails, StatFails, LoadFails
<1>2. ASSUME NEW n \in Name, LoadEntryFails(n) PROVE IInv'
  BY <1>2, GiveUpKeeps DEF LoadEntryFails
<1>3. CASE OpenDir
  BY <1>3, OpenDirKeeps
<1>4. CASE NextDir
  BY <1>4, NextDirKeeps
<1>5. CASE ListDone
  BY <1>5, ListDoneKeeps
<1>6. ASSUME NEW n \in Name, LoadEntry(n) PROVE IInv'
  BY <1>6, LoadEntryKeeps
<1>7. CASE StatHit \/ StatMiss
  BY <1>7, StatKeeps
<1>8. CASE Load
  BY <1>8, LoadKeeps
<1>9. ASSUME NEW d \in Dir, NEW n \in Name, NEW content \in Content, Edit(d, n, content)
      PROVE  IInv'
  BY <1>9, EditKeeps
<1>10. CASE UNCHANGED vars
  BY <1>10, StutterKeeps
<1>. QED
  BY <1>1, <1>2, <1>3, <1>4, <1>5, <1>6, <1>7, <1>8, <1>9, <1>10 DEF Next, Call

LEMMA RestIInv == ProfilesRest => IInv
<1>. SUFFICES ASSUME ProfilesRest PROVE IInv
  OBVIOUS
<1>. USE DEF ProfilesRest
<1>1. TypeOK
  <2>1. Only \in Name /\ paths \in SearchOrders /\ Len(paths) = 1
    BY Arguments DEF SearchOrders
  <2>2. files \in [Dir -> [Name -> Content]] /\ seen \in [Dir -> [Name -> SUBSET Content]]
    BY DEF Content
  <2>3. listed \in [Name -> Dir \cup {"none"}]
    OBVIOUS
  <2>4. command \in Commands /\ name \in Name /\ at \in 1 .. Len(paths)
    BY <2>1 DEF Commands
  <2>5. /\ pc \in {"opendir", "entries", "stat", "load", "end"}
        /\ entries \subseteq Name /\ edits \in Nat
        /\ found \in Dir \cup {"none"} /\ answer \in {"none", "ok", "not_found", "failed"}
    OBVIOUS
  <2>. QED
    BY ONLY <2>1, <2>2, <2>3, <2>4, <2>5 DEF TypeOK
<1>2. Observed /\ SearchSoFar
  BY DEF Observed, SearchSoFar
<1>3. ListSoFar
  <2>1. Len(paths) = 1 /\ paths[1] = "system" /\ "system" \in Dir
    BY DEF Dir
  <2>2. \A n \in Name : listed[n] = "none" /\ seen[paths[1]][n] = {"absent"}
    BY <2>1
  <2>. QED
    BY <2>1, <2>2 DEF ListSoFar, Listing, Passed
<1>4. UsedAgentFirst /\ NotFoundIsTrue
  BY DEF UsedAgentFirst, NotFoundIsTrue
<1>. QED
  BY <1>1, <1>2, <1>3, <1>4 DEF IInv

\* The types, and the two properties of LoadNamed, with what the list and the
\* search have seen so far.
THEOREM Invariance == (Spec => []IInv) /\ (StoresSpec => []IInv)
<1>1. Spec => []IInv
  BY InitIInv, NextIInv, PTL DEF Spec
<1>2. StoresInit => IInv
  BY InitIInv, RestIInv DEF StoresInit
<1>3. [StoresNext]_<<used, vars, keys, data>> => [Next]_vars
  BY DEF StoresNext
<1>4. StoresSpec => []IInv
  BY <1>2, <1>3, NextIInv, PTL DEF StoresSpec
<1>. QED
  BY <1>1, <1>4

LEMMA IInvListed == IInv => ListedAgentFirst
<1>. SUFFICES ASSUME IInv, command = "list", answer = "ok", NEW n \in Name,
                     listed[n] = "system", Len(paths) = 2
              PROVE  "absent" \in seen["agent"][n]
  BY DEF ListedAgentFirst
<1>1. paths[1] = "agent"
  BY OrderFacts DEF IInv, TypeOK
<1>2. Passed(1, n)
  BY DEF IInv, ListSoFar, Listing, SearchSoFar
<1>. QED
  BY <1>1, <1>2 DEF Passed

LEMMA IInvComplete == IInv => ListIsComplete
<1>. SUFFICES ASSUME IInv, command = "list", answer = "ok", NEW n \in Name
              PROVE  /\ (\E i \in 1 .. Len(paths) : "absent" \notin seen[paths[i]][n]) => listed[n] # "none"
                     /\ listed[n] # "none" => "valid" \in seen[listed[n]][n]
  BY DEF ListIsComplete
<1>1. Listing /\ pc = "end" /\ at = 1 /\ entries = {}
  BY DEF IInv, ListSoFar, Listing, SearchSoFar
<1>2. Len(paths) \in {1, 2} /\ \A i \in 1 .. Len(paths) : paths[i] # "none"
  BY OrderFacts DEF IInv, TypeOK, Dir
<1>3. \A j \in 1 .. Len(paths) : j > 1 \/ j = 1
  BY <1>2
<1>4. \A j \in 1 .. Len(paths) : Passed(j, n)
  BY <1>1, <1>3 DEF IInv, ListSoFar
<1>5. ASSUME NEW i \in 1 .. Len(paths), "absent" \notin seen[paths[i]][n]
      PROVE  listed[n] # "none"
  <2>1. PICK k \in 1 .. i : listed[n] = paths[k]
    BY <1>4, <1>5 DEF Passed
  <2>. QED
    BY <1>2, <2>1
<1>6. listed[n] # "none" => "valid" \in seen[listed[n]][n]
  BY <1>1 DEF IInv, ListSoFar
<1>. QED
  BY <1>5, <1>6

\* The agent's file of a name hides the system's from every command.
THEOREM UsedCorrect == (Spec => []UsedAgentFirst) /\ (StoresSpec => []UsedAgentFirst)
BY Invariance, PTL DEF IInv

\* A name is reported missing only after every place lacked it.
THEOREM NotFoundCorrect == (Spec => []NotFoundIsTrue) /\ (StoresSpec => []NotFoundIsTrue)
BY Invariance, PTL DEF IInv

\* The agent's file of a name hides the system's from conn list.
THEOREM ListedCorrect == (Spec => []ListedAgentFirst) /\ (StoresSpec => []ListedAgentFirst)
BY Invariance, IInvListed, PTL

\* A file that stays where it is does not fall out of the list.
THEOREM CompleteCorrect == (Spec => []ListIsComplete) /\ (StoresSpec => []ListIsComplete)
BY Invariance, IInvComplete, PTL

-----------------------------------------------------------------------------
(* Keys and files within Stores.                                           *)

KeysProved == INSTANCE SecretProofs WITH edits <- changes
DataProved == INSTANCE DataFilesProofs

\* Stores has the states and steps of Secret, and others that leave its
\* variables alone.
LEMMA KeysWithin == StoresSpec => KeysProved!Spec
<1>1. StoresInit => Keys!Init
  BY DEF StoresInit, KeysRest
<1>2. Keys!Init => KeysProved!Init
  BY DEF Keys!Init, KeysProved!Init, Keys!Id, KeysProved!Id, Keys!NoCall, KeysProved!NoCall,
       Keys!V1, KeysProved!V1, Keys!Plain, KeysProved!Plain, Keys!Other, KeysProved!Other
<1>3. Keys!Next => KeysProved!Next
  BY DEF Keys!Next, KeysProved!Next,
       Keys!Draw, KeysProved!Draw,
       Keys!KeyId, KeysProved!KeyId,
       Keys!StoreKey, KeysProved!StoreKey,
       Keys!Ends, KeysProved!Ends,
       Keys!LineOf, KeysProved!LineOf,
       Keys!PrintLine, KeysProved!PrintLine,
       Keys!Read, KeysProved!Read,
       Keys!Outcome, KeysProved!Outcome,
       Keys!Opened, KeysProved!Opened,
       Keys!Failed, KeysProved!Failed,
       Keys!Reading, KeysProved!Reading,
       Keys!Stored, KeysProved!Stored,
       Keys!Opens, KeysProved!Opens,
       Keys!ReadV2, KeysProved!ReadV2,
       Keys!Missing, KeysProved!Missing,
       Keys!ReadV2Fails, KeysProved!ReadV2Fails,
       Keys!ReadV1, KeysProved!ReadV1,
       Keys!ReadPlaintext, KeysProved!ReadPlaintext,
       Keys!ReadOther, KeysProved!ReadOther,
       Keys!Edited, KeysProved!Edited,
       Keys!Mingled, KeysProved!Mingled,
       Keys!Paste, KeysProved!Paste,
       Keys!Disturb, KeysProved!Disturb,
       Keys!NoCall, KeysProved!NoCall,
       Keys!Id, KeysProved!Id
<1>4. [StoresNext]_<<used, vars, keys, data>> => [KeysProved!Next]_KeysProved!vars
  BY <1>3 DEF StoresNext, keys, KeysProved!vars
<1>. QED
  BY <1>1, <1>2, <1>4, PTL DEF StoresSpec, KeysProved!Spec

\* The same of DataFiles.
LEMMA DataWithin == StoresSpec => DataProved!Spec
<1>1. StoresInit => Data!Init
  BY DEF StoresInit, DataRest
<1>2. Data!Init => DataProved!Init
  BY DEF Data!Init, DataProved!Init, Data!NoFile, DataProved!NoFile, Data!File, DataProved!File
<1>3. Data!Next => DataProved!Next
  BY DEF Data!IsPart, DataProved!IsPart,
       Data!Tails, DataProved!Tails,
       Data!File, DataProved!File,
       Data!NoFile, DataProved!NoFile,
       Data!EmptyFile, DataProved!EmptyFile,
       Data!WholeFile, DataProved!WholeFile,
       Data!Next, DataProved!Next,
       Data!QueryRows, DataProved!QueryRows,
       Data!ExportFails, DataProved!ExportFails,
       Data!Create, DataProved!Create,
       Data!Write, DataProved!Write,
       Data!WriteFails, DataProved!WriteFails,
       Data!Written, DataProved!Written,
       Data!LostAtClose, DataProved!LostAtClose,
       Data!Kill, DataProved!Kill,
       Data!NextExport, DataProved!NextExport,
       Data!Back, DataProved!Back,
       Data!BackRow, DataProved!BackRow,
       Data!BackRows, DataProved!BackRows,
       Data!Reader, DataProved!Reader,
       Data!Bad, DataProved!Bad,
       Data!Good, DataProved!Good,
       Data!Cut, DataProved!Cut,
       Data!ReadCsv, DataProved!ReadCsv,
       Data!ReadJson, DataProved!ReadJson,
       Data!ReadFile, DataProved!ReadFile,
       Data!OpenFile, DataProved!OpenFile,
       Data!Import, DataProved!Import,
       Data!ImportFails, DataProved!ImportFails,
       Data!exporter, DataProved!exporter,
       Data!importer, DataProved!importer
<1>4. [StoresNext]_<<used, vars, keys, data>> => [DataProved!Next]_DataProved!vars
  BY <1>3 DEF StoresNext, data, DataProved!vars, DataProved!exporter, DataProved!importer
<1>. QED
  BY <1>1, <1>2, <1>4, PTL DEF StoresSpec, DataProved!Spec

\* A printed line opens on its machine until its key is touched, whichever calls
\* were killed (PrintedCorrect of SecretProofs; EncryptStringV2).
THEOREM PrintedCorrect == StoresSpec => []PrintedCanBeOpened
<1>1. KeysProved!Arguments
  BY KeysArguments DEF Keys!Arguments, KeysProved!Arguments
<1>2. KeysProved!Spec => []KeysProved!PrintedCanBeOpened
  BY <1>1, KeysProved!PrintedCorrect
<1>3. KeysProved!PrintedCanBeOpened => PrintedCanBeOpened
  BY DEF PrintedCanBeOpened, Keys!PrintedCanBeOpened, KeysProved!PrintedCanBeOpened
<1>. QED
  BY <1>2, <1>3, KeysWithin, PTL

\* A key is called missing, and a v2 line invalid, only when that is so
\* (ReasonCorrect of SecretProofs; decryptStringV2).
THEOREM ReasonCorrect == StoresSpec => []ReasonIsTrue
<1>1. KeysProved!Arguments
  BY KeysArguments DEF Keys!Arguments, KeysProved!Arguments
<1>2. KeysProved!Spec => []KeysProved!ReasonIsTrue
  BY <1>1, KeysProved!ReasonCorrect
<1>3. KeysProved!ReasonIsTrue => ReasonIsTrue
  BY DEF ReasonIsTrue, Keys!ReasonIsTrue, KeysProved!ReasonIsTrue, Keys!Ended, KeysProved!Ended,
       Keys!IssuedHere, KeysProved!IssuedHere, Keys!Undisturbed, KeysProved!Undisturbed
<1>. QED
  BY <1>2, <1>3, KeysWithin, PTL

\* An ok export left a whole file, and one that did not open it the old one
\* (OkWhole of DataFilesProofs; runExport, ExportRows).
THEOREM OkWhole == StoresSpec => []OkIsWhole
<1>1. DataProved!Arguments
  BY DataArguments DEF Data!Arguments, DataProved!Arguments
<1>2. DataProved!Spec => []DataProved!OkIsWhole
  BY <1>1, DataProved!OkWhole
<1>3. DataProved!OkIsWhole => OkIsWhole
  BY DEF OkIsWhole, Data!OkIsWhole, DataProved!OkIsWhole,
       Data!NoFile, DataProved!NoFile, Data!EmptyFile, DataProved!EmptyFile,
       Data!File, DataProved!File, Data!Back, DataProved!Back,
       Data!BackRow, DataProved!BackRow,
       Data!BackRows, DataProved!BackRows,
       Data!Reader, DataProved!Reader,
       Data!Cut, DataProved!Cut,
       Data!Bad, DataProved!Bad,
       Data!Good, DataProved!Good,
       Data!ReadCsv, DataProved!ReadCsv,
       Data!ReadJson, DataProved!ReadJson,
       Data!ReadFile, DataProved!ReadFile
<1>. QED
  BY <1>2, <1>3, DataWithin, PTL

\* Imported rows were exported, to the end or up to a row (ImportedExported of
\* DataFilesProofs; readImportFile).
THEOREM ImportedExported == StoresSpec => []ImportedWasExported
<1>1. DataProved!Arguments
  BY DataArguments DEF Data!Arguments, DataProved!Arguments
<1>2. DataProved!Spec => []DataProved!ImportedWasExported
  BY <1>1, DataProved!ImportedExported
<1>3. DataProved!ImportedWasExported => ImportedWasExported
  BY DEF ImportedWasExported, Data!ImportedWasExported, DataProved!ImportedWasExported,
       Data!Beginnings, DataProved!Beginnings, Data!Back, DataProved!Back,
       Data!BackRow, DataProved!BackRow,
       Data!BackRows, DataProved!BackRows,
       Data!Reader, DataProved!Reader,
       Data!Cut, DataProved!Cut
<1>. QED
  BY <1>2, <1>3, DataWithin, PTL
=============================================================================
