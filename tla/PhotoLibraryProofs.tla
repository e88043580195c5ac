------------------------- MODULE PhotoLibraryProofs -------------------------
(***************************************************************************)
(* What TLAPS proves of PhotoLibrary, for any folder, Contents, Settings,  *)
(* names of Removed photos and bounds on the events.  Inv says which       *)
(* process holds which lock and which locals then mean something; every    *)
(* other invariant rests on it.                                            *)
(***************************************************************************)
EXTENDS PhotoLibrary, FiniteSetTheorems, TLAPS

(* The steps of an Admin request during which it holds _STORE_LOCK, and of *)
(* a worker during which it holds _PROCESS_LOCK.                           *)
AdminSteps == {"remove", "pop", "drop", "unlink", "move", "rekey", "restored", "unrecord"}
WorkSteps  == {"render", "write", "fail", "commit"}
Steps == AdminSteps \cup WorkSteps
           \cup {"idle", "scan", "scanning", "next", "ending", "check", "store", "kick"}

Albums == {Album[p] : p \in Places}

Typed ==
  /\ disk \in [Places -> Contents \cup {None}] /\ touched \subseteq Places /\ young \subseteq Places
  /\ index \in [Places -> Entries \cup {None}]
  /\ display \in [Ids -> Contents \cup {None}] /\ fresh \subseteq Ids
  /\ bin \in [Tokens -> Contents \cup {None}] /\ record \in [Tokens -> Records \cup {None}]
  /\ key \in Keys
  /\ store \in Actors \cup {Nobody} /\ procs \in Workers \cup {Nobody}
  /\ pc \in [Actors -> Steps]
  /\ found.present \subseteq Places /\ DOMAIN found.hashed \subseteq found.present
  /\ \A p \in DOMAIN found.hashed : found.hashed[p] \in Contents
  /\ pick \in [place : Places \cup {None}, hash : Contents \cup {None}, key : Keys \cup {None},
               picture : Contents \cup {None}]
  /\ up \in [content : Contents \cup {None}, album : Albums \cup {None}, place : Places \cup {None}]
  /\ op \in [place : Places \cup {None}, to : Places \cup {None}, token : Tokens \cup {None},
             copy : Ids \cup {None}]
  /\ drops \subseteq Ids /\ doomed \in Ids \cup {None}
  /\ kick \in [running : BOOLEAN, again : BOOLEAN]
  /\ done \in [Events -> Nat]

(* Who holds which lock, and which of its locals then mean something.      *)
Locked ==
  /\ \A a \in Actors : pc[a] = "scanning" => store = a
  /\ (\A a \in Actors : pc[a] # "scanning") => found = NoFound
  /\ pc["upload"] \in {"scan", "scanning", "check", "store"} => up.content \in Contents
  /\ pc["upload"] = "store" => store = "upload" /\ up.place \in Places
  /\ pc["admin"] \in AdminSteps => store = "admin"
  /\ pc["admin"] \in {"remove", "pop", "move", "rekey"} =>
       op.place \in Places /\ index[op.place] # None
  /\ pc["admin"] \in {"move", "rekey"} => op.to \in Places /\ op.to # op.place
  /\ pc["admin"] \in {"remove", "pop", "restored", "unrecord"} =>
       op.token \in Tokens /\ record[op.token] # None
  /\ pc["admin"] = "unlink" <=> doomed # None
  /\ drops # {} => pc["admin"] \in {"remove", "pop", "drop", "unlink"}
  /\ \A w \in Workers : pc[w] \in WorkSteps =>
       procs = w /\ pick.place \in Places /\ pick.hash \in Contents /\ pick.key \in Keys
  /\ \A w \in Workers : pc[w] \in {"write", "commit"} => pick.picture \in Contents
  /\ kick.running <=> pc["kick"] # "idle"

Inv == Typed /\ Locked

-----------------------------------------------------------------------------
(* Helpers *)

LEMMA NoneIsNone ==
  /\ None \notin Contents /\ None \notin Keys /\ None \notin Ids /\ None \notin Places
  /\ None \notin Entries /\ None \notin Records
BY PhotoAssumption

LEMMA TheActors ==
  /\ Workers \subseteq Actors /\ "upload" \in Actors /\ "admin" \in Actors
  /\ "job" \in Workers /\ "kick" \in Workers
  /\ "upload" \notin Workers /\ "admin" \notin Workers
  /\ Actors = {"job", "kick", "upload", "admin"} /\ Nobody \notin Actors
BY PhotoAssumption DEF Actors, Workers

LEMMA GoesTo ==
  ASSUME Typed, NEW a \in Actors, NEW s \in Steps, Goes(a, s)
  PROVE  /\ pc' \in [Actors -> Steps]
         /\ \A b \in Actors : pc'[b] = IF b = a THEN s ELSE pc[b]
BY DEF Typed, Goes

LEMMA Counts ==
  ASSUME Typed, NEW e \in Events, Happens(e)
  PROVE  /\ done' \in [Events -> Nat]
         /\ done'[e] > 0
         /\ \A f \in Events : done'[f] = 0 => done[f] = 0
BY DEF Typed, Happens

LEMMA Kicked ==
  ASSUME NEW k \in [running : BOOLEAN, again : BOOLEAN]
  PROVE  /\ [k EXCEPT !.again = TRUE] \in [running : BOOLEAN, again : BOOLEAN]
         /\ [k EXCEPT !.again = TRUE].running = k.running /\ [k EXCEPT !.again = TRUE].again
         /\ k.running \in BOOLEAN /\ k.again \in BOOLEAN
<1>1. [k EXCEPT !.again = TRUE] \in [running : BOOLEAN, again : BOOLEAN]
  BY Zenon
<1>2. [k EXCEPT !.again = TRUE].running = k.running /\ [k EXCEPT !.again = TRUE].again
  BY SMT
<1> QED
  BY <1>1, <1>2

(* Entries and how they change.                                            *)
LEMMA EntryOf ==
  ASSUME NEW e \in Entries
  PROVE  /\ e.hash \in Contents /\ e.copy \in Ids \cup {None} /\ e.retired \subseteq Ids
         /\ e.error \in Keys \cup {None} /\ e # None
BY NoneIsNone DEF Entries

LEMMA NewEntryIs ==
  ASSUME NEW c \in Contents
  PROVE  /\ NewEntry(c) \in Entries /\ NewEntry(c) # None /\ NewEntry(c).hash = c
         /\ NewEntry(c).copy = None /\ NewEntry(c).retired = {}
BY NoneIsNone DEF NewEntry, Entries

Rehashed(e, c) == [e EXCEPT !.hash = c, !.error = None]
Failed(e, k) == [e EXCEPT !.error = k]

LEMMA RehashedIs ==
  ASSUME NEW e \in Entries, NEW c \in Contents
  PROVE  /\ Rehashed(e, c) \in Entries /\ Rehashed(e, c) # None /\ Rehashed(e, c).hash = c
         /\ Rehashed(e, c).copy = e.copy /\ Rehashed(e, c).retired = e.retired
BY NoneIsNone DEF Entries, Rehashed

LEMMA FailedIs ==
  ASSUME NEW e \in Entries, NEW k \in Keys
  PROVE  /\ Failed(e, k) \in Entries /\ Failed(e, k) # None /\ Failed(e, k).hash = e.hash
         /\ Failed(e, k).copy = e.copy /\ Failed(e, k).retired = e.retired
BY NoneIsNone DEF Entries, Failed

LEMMA InstalledIs ==
  ASSUME Typed, NEW e \in Entries, CopyId \in Ids
  PROVE  /\ Installed(e) \in Entries /\ Installed(e) # None
         /\ Installed(e).hash = e.hash /\ Installed(e).copy = CopyId
         /\ Installed(e).retired = IF e.copy \in {None, CopyId} THEN e.retired
                                   ELSE (e.retired \cap fresh) \cup Replaced(e)
         /\ Replaced(e) \subseteq Ids
<1> DEFINE r == IF e.copy \in {None, CopyId} THEN e.retired
                ELSE (e.retired \cap fresh) \cup Replaced(e)
<1>1. Replaced(e) \subseteq Ids
  BY EntryOf DEF Replaced
<1>2. r \subseteq Ids
  BY <1>1, EntryOf
<1>3. Installed(e) = [e EXCEPT !.copy = CopyId, !.error = None, !.retired = r]
  BY DEF Installed, Entries
<1> HIDE DEF r
<1>4. /\ Installed(e) \in Entries /\ Installed(e).hash = e.hash /\ Installed(e).copy = CopyId
      /\ Installed(e).retired = r
  BY <1>2, <1>3 DEF Entries
<1> QED
  BY <1>1, <1>4, NoneIsNone DEF r

(* What a scan makes of an entry.                                          *)
LEMMA ScannedIs ==
  ASSUME Typed, NEW p \in Places
  PROVE  /\ Scanned(p) \in Entries \cup {None}
         /\ p \in DOMAIN found.hashed => Scanned(p) # None /\ Scanned(p).hash = found.hashed[p]
         /\ p \notin DOMAIN found.hashed =>
              Scanned(p) = IF p \in found.present THEN index[p] ELSE None
         /\ p \in DOMAIN found.hashed /\ index[p] = None =>
              Scanned(p).copy = None /\ Scanned(p).retired = {}
         /\ p \in DOMAIN found.hashed /\ index[p] # None =>
              Scanned(p).copy = index[p].copy /\ Scanned(p).retired = index[p].retired
<1>1. index[p] \in Entries \cup {None}
  BY DEF Typed
<1>5. p \in DOMAIN found.hashed => p \in found.present
  BY DEF Typed
<1>2. CASE p \in DOMAIN found.hashed /\ index[p] = None
  <2>1. found.hashed[p] \in Contents
    BY <1>2 DEF Typed
  <2>2. Scanned(p) = NewEntry(found.hashed[p])
    BY <1>2, <1>5 DEF Scanned
  <2> QED
    BY <1>2, <2>1, <2>2, NewEntryIs
<1>3. CASE p \in DOMAIN found.hashed /\ index[p] # None
  <2>1. found.hashed[p] \in Contents /\ index[p] \in Entries
    BY <1>1, <1>3 DEF Typed
  <2>2. Scanned(p) = Rehashed(index[p], found.hashed[p])
    BY <1>3, <1>5 DEF Scanned, Rehashed
  <2> QED
    BY <1>3, <2>1, <2>2, RehashedIs
<1>4. CASE p \notin DOMAIN found.hashed
  BY <1>1, <1>4 DEF Scanned
<1> QED
  BY <1>2, <1>3, <1>4

LEMMA CopyIdIs ==
  ASSUME Inv, NEW w \in Workers, pc[w] \in WorkSteps
  PROVE  CopyId \in Ids
BY DEF Inv, Locked, CopyId, Ids

LEMMA StepNames ==
  /\ {"idle", "scan", "scanning", "next", "ending", "check", "store", "kick", "render", "write",
      "fail", "commit", "remove", "pop", "drop", "unlink", "move", "rekey", "restored", "unrecord"}
       \subseteq Steps
  /\ Events = {"upload", "remove", "move", "restore", "delete", "setting", "hand", "crash",
               "disk", "slow"}
BY DEF Steps, AdminSteps, WorkSteps, Events

LEMMA InitInv == Init => Inv
<1> SUFFICES ASSUME Init PROVE Inv
  OBVIOUS
<1> USE NoneIsNone, TheActors, StepNames
<1>1. disk \in [Places -> Contents \cup {None}] /\ key \in Keys
  BY PhotoAssumption DEF Init
<1>2. Typed
  BY <1>1 DEF Init, Typed, NoFound, NoPick, NoUp, NoOp
<1>3. Locked
  BY DEF Init, Locked, AdminSteps, WorkSteps, NoOp
<1> QED
  BY <1>2, <1>3 DEF Inv

-----------------------------------------------------------------------------
(* Typing                                                                  *)

LEMMA NextTyped == Inv /\ [Next]_vars => Typed'
<1> SUFFICES ASSUME Inv, Typed, Locked, [Next]_vars PROVE Typed'
  BY DEF Inv
<1> USE TheActors, StepNames
<1>1. CASE JobStarts
  BY <1>1, GoesTo DEF JobStarts, Typed, library, files, copies, trash, worker, requests, admin
<1>2. CASE KickEnds
  BY <1>2, GoesTo DEF KickEnds, Typed, library, files, copies, trash, worker, requests, admin
<1>3. ASSUME NEW a \in Actors, ScanTakes(a) PROVE Typed'
  <2>1. pc' \in [Actors -> Steps]
    BY <1>3, GoesTo DEF ScanTakes
  <2>2. /\ found'.present \subseteq Places /\ DOMAIN found'.hashed \subseteq found'.present
        /\ \A p \in DOMAIN found'.hashed : found'.hashed[p] \in Contents
    BY <1>3 DEF ScanTakes, Present, Typed
  <2>3. touched' \subseteq Places /\ store' \in Actors \cup {Nobody}
    BY <1>3 DEF ScanTakes, Typed
  <2>4. UNCHANGED <<disk, young, index, copies, trash, key, worker, requests, done>>
    BY <1>3 DEF ScanTakes
  <2> QED
    BY <2>1, <2>2, <2>3, <2>4 DEF Typed, copies, trash, worker, requests, admin
<1>4. ASSUME NEW a \in Actors, ScanEnds(a) PROVE Typed'
  <2>1. AfterScan(a) \in Steps
    BY DEF AfterScan
  <2>2. pc' \in [Actors -> Steps]
    BY <1>4, <2>1, GoesTo DEF ScanEnds
  <2>3. index' \in [Places -> Entries \cup {None}]
    BY <1>4, ScannedIs DEF ScanEnds
  <2>4. display' \in [Ids -> Contents \cup {None}]
    BY <1>4 DEF ScanEnds, Swept, Typed
  <2>5. UNCHANGED <<files, fresh, trash, key, worker, requests, done>> /\ found' = NoFound
        /\ store' = Nobody
    BY <1>4 DEF ScanEnds
  <2> QED
    BY <2>2, <2>3, <2>4, <2>5 DEF Typed, files, trash, worker, requests, admin, NoFound
<1>5. ASSUME NEW w \in Workers, TakesNext(w) PROVE Typed'
  <2>1. pc' \in [Actors -> Steps]
    BY <1>5, GoesTo DEF TakesNext
  <2>2. done' \in [Events -> Nat]
    BY <1>5, Counts DEF TakesNext, Typed
  <2>3. PICK p \in Pending(key) :
          pick' = [place |-> p, hash |-> index[p].hash, key |-> key, picture |-> None]
    BY <1>5 DEF TakesNext
  <2>4. p \in Places /\ index[p].hash \in Contents
    BY EntryOf DEF Pending, Indexed, Typed
  <2>5. UNCHANGED <<library, store, found, requests>> /\ procs' = w
    BY <1>5 DEF TakesNext
  <2> QED
    BY <2>1, <2>2, <2>3, <2>4, <2>5 DEF Typed, library, files, copies, trash, requests, admin
<1>6. ASSUME NEW w \in Workers, NoneLeft(w) PROVE Typed'
  <2>1. pc' \in [Actors -> Steps]
    BY <1>6, GoesTo DEF NoneLeft
  <2> QED
    BY <1>6, <2>1 DEF NoneLeft, Typed, library, files, copies, trash, worker, requests, admin
<1>7. ASSUME NEW w \in Workers, Renders(w) PROVE Typed'
  <2>1. pc' \in [Actors -> Steps]
    BY <1>7, GoesTo DEF Renders
  <2>2. pick.place \in Places
    BY <1>7 DEF Renders, Locked, WorkSteps
  <2>3. pick' \in [place : Places \cup {None}, hash : Contents \cup {None}, key : Keys \cup {None},
                   picture : Contents \cup {None}]
    BY <1>7, <2>2 DEF Renders, Typed
  <2> QED
    BY <1>7, <2>1, <2>3 DEF Renders, Typed, library, files, copies, trash, requests, admin
<1>8. ASSUME NEW w \in Workers, WritesCopy(w) \/ WriteFails(w) PROVE Typed'
  <2>1. pc' \in [Actors -> Steps]
    BY <1>8, GoesTo DEF WritesCopy, WriteFails
  <2>2. pc[w] = "write"
    BY <1>8 DEF WritesCopy, WriteFails
  <2>3. CopyId \in Ids /\ pick.picture \in Contents
    BY <2>2, CopyIdIs DEF Inv, Locked, WorkSteps
  <2>4. display' \in [Ids -> Contents \cup {None}] /\ fresh' \subseteq Ids
    BY <1>8, <2>3 DEF WritesCopy, WriteFails, copies, Typed
  <2>5. done' \in [Events -> Nat]
    BY <1>8, Counts DEF WritesCopy, WriteFails, Typed
  <2>6. UNCHANGED <<files, index, trash, key, store, worker, found, requests>>
    BY <1>8 DEF WritesCopy, WriteFails
  <2> QED
    BY <2>1, <2>4, <2>5, <2>6 DEF Typed, files, trash, worker, requests, admin
<1>9. ASSUME NEW w \in Workers, Releases(w) PROVE /\ pc' \in [Actors -> Steps] /\ pick' = NoPick
                                                  /\ procs' = Nobody
  BY <1>9, GoesTo DEF Releases
<1>10. ASSUME NEW w \in Workers, RecordsFailure(w) PROVE Typed'
  <2>1. pick.place \in Places /\ pick.key \in Keys
    BY <1>10 DEF RecordsFailure, Locked, WorkSteps
  <2>2. index' \in [Places -> Entries \cup {None}]
    BY <1>10, <2>1, FailedIs DEF RecordsFailure, SameFile, Typed, Failed
  <2>3. UNCHANGED <<files, copies, trash, key, store, found, requests, done>> /\ Releases(w)
    BY <1>10 DEF RecordsFailure
  <2> QED
    BY <1>9, <2>2, <2>3 DEF Typed, files, copies, trash, requests, admin, NoPick
<1>11. ASSUME NEW w \in Workers, Commits(w) PROVE Typed'
  <2>1. pick.place \in Places /\ CopyId \in Ids
    BY <1>11, CopyIdIs DEF Inv, Commits, Locked, WorkSteps
  <2>2. SameFile => index[pick.place] \in Entries
    BY <2>1 DEF SameFile, Typed
  <2>3. index' \in [Places -> Entries \cup {None}]
    <3>1. SameFile => index' = [index EXCEPT ![pick.place] = Installed(index[pick.place])]
      BY <1>11 DEF Commits
    <3>2. SameFile => Installed(index[pick.place]) \in Entries
      BY <2>1, <2>2, InstalledIs
    <3>3. ~SameFile => index' = index
      BY <1>11 DEF Commits
    <3> QED
      BY <2>1, <3>1, <3>2, <3>3 DEF Typed
  <2>4. fresh' \subseteq Ids
    BY <1>11, <2>1, <2>2, InstalledIs DEF Commits, DropIfUnused, Typed
  <2>5. display' \in [Ids -> Contents \cup {None}]
    BY <1>11 DEF Commits, DropIfUnused, Typed
  <2>6. UNCHANGED <<files, trash, key, store, found, requests, done>> /\ Releases(w)
    BY <1>11 DEF Commits
  <2> QED
    BY <1>9, <2>3, <2>4, <2>5, <2>6 DEF Typed, files, trash, requests, admin, NoPick
<1>12. ASSUME NEW a \in {"upload", "admin"}, Kicks(a) PROVE Typed'
  <2>1. pc' \in [Actors -> Steps]
    BY <1>12 DEF Kicks, Typed
  <2>2. kick' \in [running : BOOLEAN, again : BOOLEAN]
    <3>1. kick \in [running : BOOLEAN, again : BOOLEAN] /\ KickProcessing
      BY <1>12 DEF Kicks, Typed
    <3>2. [kick EXCEPT !.again = TRUE] \in [running : BOOLEAN, again : BOOLEAN]
      BY <3>1, Kicked
    <3>3. [running |-> TRUE, again |-> FALSE] \in [running : BOOLEAN, again : BOOLEAN]
      OBVIOUS
    <3>4. \/ kick' = [kick EXCEPT !.again = TRUE]
          \/ kick' = [running |-> TRUE, again |-> FALSE]
      BY <3>1, Zenon DEF KickProcessing
    <3> QED
      BY <3>2, <3>3, <3>4, Zenon
  <2> QED
    BY <1>12, <2>1, <2>2 DEF Kicks, Typed, library, files, copies, trash, worker, admin
<1>13. ASSUME NEW c \in Contents, NEW p \in Places, BeginUpload(c, Album[p]) PROVE Typed'
  <2>1. pc' \in [Actors -> Steps] /\ done' \in [Events -> Nat]
    BY <1>13, GoesTo, Counts DEF BeginUpload
  <2> QED
    BY <1>13, <2>1 DEF BeginUpload, Typed, Albums, library, files, copies, trash, worker, admin
<1>14. CASE UploadChecks
  <2>1. pc' \in [Actors -> Steps]
    BY <1>14, GoesTo DEF UploadChecks
  <2>2. /\ up' \in [content : Contents \cup {None}, album : Albums \cup {None}, place : Places \cup {None}]
        /\ store' \in Actors \cup {Nobody}
    BY <1>14 DEF UploadChecks, FreeIn, Typed
  <2> QED
    BY <1>14, <2>1, <2>2 DEF UploadChecks, Typed, library, files, copies, trash, worker, admin
<1>15. CASE UploadStores
  <2>1. pc' \in [Actors -> Steps]
    BY <1>15, GoesTo DEF UploadStores
  <2>2. up.place \in Places /\ up.content \in Contents
    BY <1>15 DEF UploadStores, Locked
  <2> QED
    BY <1>15, <2>1, <2>2, NewEntryIs DEF UploadStores, Typed, copies, trash, worker, requests, admin
<1>16. ASSUME NEW e \in Events, Begins(e) PROVE done' \in [Events -> Nat] /\ store' = "admin"
  BY <1>16, Counts DEF Begins
<1>17. ASSUME NEW p \in Places, NEW t \in Tokens, RemoveRecords(p, t) PROVE Typed'
  <2>1. pc' \in [Actors -> Steps]
    BY <1>17, GoesTo DEF RemoveRecords
  <2>2. index[p] \in Entries
    BY <1>17 DEF RemoveRecords, Indexed, Typed
  <2>3. [album |-> Album[p], copy |-> index[p].copy] \in Records /\ index[p].retired \subseteq Ids
    BY <2>2, EntryOf DEF Records
  <2>4. record' \in [Tokens -> Records \cup {None}] /\ drops' \subseteq Ids
    BY <1>17, <2>3 DEF RemoveRecords, Typed
  <2>5. op' \in [place : Places \cup {None}, to : Places \cup {None}, token : Tokens \cup {None},
                 copy : Ids \cup {None}]
    BY <1>17 DEF RemoveRecords, NoOp
  <2>6. UNCHANGED <<files, index, copies, bin, key, worker, found, up, doomed, kick>>
    BY <1>17 DEF RemoveRecords
  <2>7. Begins("remove")
    BY <1>17 DEF RemoveRecords
  <2> QED
    BY <1>16, <2>1, <2>4, <2>5, <2>6, <2>7 DEF Typed, files, copies, worker
<1>18. CASE RemoveMoves
  <2>1. pc' \in [Actors -> Steps]
    BY <1>18, GoesTo DEF RemoveMoves
  <2>2. disk' \in [Places -> Contents \cup {None}] /\ bin' \in [Tokens -> Contents \cup {None}]
        /\ record' \in [Tokens -> Records \cup {None}]
    BY <1>18 DEF RemoveMoves, Locked, Typed
  <2>3. UNCHANGED <<store, op, drops>> \/ (store' = Nobody /\ op' = NoOp /\ drops' = {})
    BY <1>18 DEF RemoveMoves, Gives
  <2>4. UNCHANGED <<touched, young, index, copies, key, worker, found, up, doomed, kick, done>>
    BY <1>18 DEF RemoveMoves
  <2> QED
    BY <2>1, <2>2, <2>3, <2>4 DEF Typed, copies, worker, NoOp
<1>19. CASE RemovePops
  <2>1. pc' \in [Actors -> Steps]
    BY <1>19, GoesTo DEF RemovePops
  <2>2. op.place \in Places /\ op.token \in Tokens
        /\ index[op.place] \in Entries /\ record[op.token] \in Records
    BY <1>19 DEF RemovePops, Locked, Typed
  <2>3. CopiesOf(index[op.place], record[op.token].copy) \subseteq Ids
    BY <2>2, EntryOf DEF CopiesOf, Records
  <2>4. index' \in [Places -> Entries \cup {None}] /\ drops' \subseteq Ids
    BY <1>19, <2>2, <2>3 DEF RemovePops, Typed
  <2> QED
    BY <1>19, <2>1, <2>4 DEF RemovePops, Typed, files, copies, trash, worker
<1>20. CASE DropLooks
  <2>1. drops' \subseteq Ids /\ doomed' \in Ids \cup {None} /\ pc' \in [Actors -> Steps]
    BY <1>20, GoesTo DEF DropLooks, Typed
  <2> QED
    BY <1>20, <2>1 DEF DropLooks, Typed, library, files, copies, trash, worker
<1>21. CASE DropUnlinks \/ Dropped
  <2>1. pc' \in [Actors -> Steps]
    BY <1>21, GoesTo DEF DropUnlinks, Dropped
  <2>2. display' \in [Ids -> Contents \cup {None}] /\ doomed' \in Ids \cup {None}
    BY <1>21 DEF DropUnlinks, Dropped, library, copies, Typed
  <2>3. UNCHANGED <<store, op>> \/ (store' = Nobody /\ op' = NoOp)
    BY <1>21 DEF DropUnlinks, Dropped, Gives
  <2>4. UNCHANGED <<files, index, fresh, trash, key, worker, found, up, drops, kick, done>>
    BY <1>21 DEF DropUnlinks, Dropped, library, copies
  <2> QED
    BY <2>1, <2>2, <2>3, <2>4 DEF Typed, files, trash, worker, NoOp
<1>22. ASSUME NEW p \in Places, NEW q \in Places, MoveBegins(p, q) PROVE Typed'
  <2>1. pc' \in [Actors -> Steps] /\ Begins("move")
    BY <1>22, GoesTo DEF MoveBegins
  <2>2. op' \in [place : Places \cup {None}, to : Places \cup {None}, token : Tokens \cup {None},
                 copy : Ids \cup {None}]
    BY <1>22 DEF MoveBegins, NoOp
  <2> QED
    BY <1>16, <1>22, <2>1, <2>2 DEF MoveBegins, Typed, library, files, copies, trash, worker
<1>23. CASE MoveMoves
  <2>1. pc' \in [Actors -> Steps]
    BY <1>23, GoesTo DEF MoveMoves
  <2>2. op.place \in Places /\ op.to \in Places
    BY <1>23 DEF MoveMoves, Locked
  <2>3. disk' \in [Places -> Contents \cup {None}] /\ touched' \subseteq Places /\ young' \subseteq Places
    BY <1>23, <2>2 DEF MoveMoves, Renamed, Typed, files
  <2>4. UNCHANGED <<store, op>> \/ (store' = Nobody /\ op' = NoOp)
    BY <1>23 DEF MoveMoves, Gives
  <2> QED
    BY <1>23, <2>1, <2>3, <2>4 DEF MoveMoves, Typed, copies, trash, worker, NoOp
<1>24. CASE MoveRekeys
  <2>1. pc' \in [Actors -> Steps]
    BY <1>24, GoesTo DEF MoveRekeys
  <2>2. op.place \in Places /\ op.to \in Places
    BY <1>24 DEF MoveRekeys, Locked
  <2>3. index' \in [Places -> Entries \cup {None}]
    BY <1>24, <2>2 DEF MoveRekeys, Typed
  <2> QED
    BY <1>24, <2>1, <2>3 DEF MoveRekeys, Gives, Typed, files, copies, trash, worker, NoOp
<1>25. ASSUME NEW t \in Tokens, NEW q \in Places, RestoreMoves(t, q) PROVE Typed'
  <2>1. pc' \in [Actors -> Steps] /\ Begins("restore")
    BY <1>25, GoesTo DEF RestoreMoves
  <2>2. op' \in [place : Places \cup {None}, to : Places \cup {None}, token : Tokens \cup {None},
                 copy : Ids \cup {None}]
    BY <1>25 DEF RestoreMoves, NoOp
  <2>3. /\ disk' \in [Places -> Contents \cup {None}] /\ touched' \subseteq Places /\ young' \subseteq Places
        /\ bin' \in [Tokens -> Contents \cup {None}]
    BY <1>25 DEF RestoreMoves, Typed
  <2> QED
    BY <1>16, <1>25, <2>1, <2>2, <2>3 DEF RestoreMoves, Typed, copies, worker
<1>26. CASE RestoreUnrecords
  <2>1. pc' \in [Actors -> Steps]
    BY <1>26, GoesTo DEF RestoreUnrecords
  <2>2. record' \in [Tokens -> Records \cup {None}]
    BY <1>26 DEF RestoreUnrecords, Typed
  <2> QED
    BY <1>26, <2>1, <2>2 DEF RestoreUnrecords, Gives, Typed, files, copies, worker, NoOp
<1>27. ASSUME NEW t \in Tokens, DeleteUnlinks(t) PROVE Typed'
  <2>1. pc' \in [Actors -> Steps] /\ Begins("delete")
    BY <1>27, GoesTo DEF DeleteUnlinks
  <2>2. record[t].copy \in Ids \cup {None}
    BY <1>27 DEF DeleteUnlinks, Typed, Records
  <2>3. op' \in [place : Places \cup {None}, to : Places \cup {None}, token : Tokens \cup {None},
                 copy : Ids \cup {None}]
    BY <1>27, <2>2 DEF DeleteUnlinks, NoOp
  <2>4. bin' \in [Tokens -> Contents \cup {None}]
    BY <1>27 DEF DeleteUnlinks, Typed
  <2> QED
    BY <1>16, <1>27, <2>1, <2>3, <2>4 DEF DeleteUnlinks, Typed, files, copies, worker
<1>28. CASE DeleteUnrecords
  <2>1. pc' \in [Actors -> Steps]
    BY <1>28, GoesTo DEF DeleteUnrecords
  <2>2. record' \in [Tokens -> Records \cup {None}] /\ drops' \subseteq Ids
    BY <1>28 DEF DeleteUnrecords, Typed
  <2> QED
    BY <1>28, <2>1, <2>2 DEF DeleteUnrecords, Typed, files, copies, worker
<1>29. ASSUME NEW k \in Keys, SetPipeline(k) PROVE Typed'
  <2>1. pc' \in [Actors -> Steps] /\ done' \in [Events -> Nat]
    BY <1>29, GoesTo, Counts DEF SetPipeline
  <2> QED
    BY <1>29, <2>1 DEF SetPipeline, Typed, files, copies, trash, worker, requests, admin
<1>30. ASSUME NEW p \in Places, NEW c \in Contents, HandPuts(p, c) PROVE Typed'
  <2>1. done' \in [Events -> Nat]
    BY <1>30, Counts DEF HandPuts
  <2> QED
    BY <1>30, <2>1 DEF HandPuts, Typed, copies, trash, worker, requests, admin
<1>31. ASSUME NEW p \in Places, HandDeletes(p) PROVE Typed'
  <2>1. done' \in [Events -> Nat]
    BY <1>31, Counts DEF HandDeletes
  <2> QED
    BY <1>31, <2>1 DEF HandDeletes, Typed, copies, trash, worker, requests, admin
<1>32. ASSUME NEW p \in Places, Settles(p) PROVE Typed'
  BY <1>32 DEF Settles, Typed, copies, trash, worker, requests, admin
<1>33. ASSUME NEW i \in Ids, GraceEnds(i) PROVE Typed'
  BY <1>33 DEF GraceEnds, Typed, files, trash, worker, requests, admin
<1>34. CASE Crash
  <2>1. done' \in [Events -> Nat]
    BY <1>34, Counts DEF Crash
  <2>2. pc["admin"] = "rekey" => op.to \in Places
    BY DEF Locked
  <2>3. touched' \subseteq Places
    BY <1>34, <2>2 DEF Crash, Typed
  <2>4. index' \in [Places -> Entries \cup {None}]
    BY <1>34 DEF Crash, Typed
  <2> QED
    BY <1>34, <2>1, <2>3, <2>4 DEF Crash, Typed, copies, trash, NoFound, NoPick, NoUp, NoOp
<1>35. CASE UNCHANGED vars
  BY <1>35 DEF Typed, vars, library, files, copies, trash, worker, requests, admin
<1>36. ASSUME NEW w \in Workers, WorkerStep(w) PROVE Typed'
  BY <1>3, <1>4, <1>5, <1>6, <1>7, <1>8, <1>10, <1>11, <1>36 DEF WorkerStep
<1>37. CASE UploadStep
  BY <1>3, <1>4, <1>12, <1>14, <1>15, <1>37 DEF UploadStep
<1>38. CASE AdminStep
  BY <1>3, <1>4, <1>12, <1>18, <1>19, <1>20, <1>21, <1>23, <1>24, <1>26, <1>28, <1>38 DEF AdminStep
<1>39. CASE Requests
  BY <1>13, <1>17, <1>22, <1>25, <1>27, <1>29, <1>39 DEF Requests
<1>40. CASE World
  BY <1>30, <1>31, <1>32, <1>33, <1>34, <1>40 DEF World
<1> QED
  BY <1>1, <1>2, <1>35, <1>36, <1>37, <1>38, <1>39, <1>40 DEF Next

-----------------------------------------------------------------------------
(* Locks                                                                   *)

(* A step of one process that is no other's business.                      *)
LEMMA NextLocked == Inv /\ Typed' /\ [Next]_vars => Locked'
<1> SUFFICES ASSUME Inv, Typed, Locked, Typed', [Next]_vars PROVE Locked'
  BY DEF Inv
<1> USE TheActors, StepNames
<1>1. CASE JobStarts
  <2>1. \A b \in Actors : pc'[b] = IF b = "job" THEN "scan" ELSE pc[b]
    BY <1>1, GoesTo DEF JobStarts
  <2> QED
    BY <1>1, <2>1 DEF JobStarts, Locked, library, files, copies, trash, worker, requests, admin, AdminSteps, WorkSteps
<1>2. CASE KickEnds
  <2>1. \A b \in Actors : pc'[b] = IF b = "kick" THEN (IF kick.again THEN "scan" ELSE "idle") ELSE pc[b]
    BY <1>2, GoesTo DEF KickEnds
  <2> QED
    BY <1>2, <2>1 DEF KickEnds, Locked, library, files, copies, trash, worker, requests, admin, AdminSteps, WorkSteps
<1>3. ASSUME NEW a \in Actors, ScanTakes(a) PROVE Locked'
  <2>1. \A b \in Actors : pc'[b] = IF b = a THEN "scanning" ELSE pc[b]
    BY <1>3, GoesTo DEF ScanTakes
  <2>2. store = Nobody /\ store' = a /\ pc[a] = "scan"
        /\ UNCHANGED <<disk, young, index, copies, trash, key, worker, requests, done>>
    BY <1>3 DEF ScanTakes
  <2> QED
    BY <2>1, <2>2 DEF Locked, copies, trash, worker, requests, admin, AdminSteps, WorkSteps
<1>4. ASSUME NEW a \in Actors, ScanEnds(a) PROVE Locked'
  <2>1. \A b \in Actors : pc'[b] = IF b = a THEN AfterScan(a) ELSE pc[b]
    <3>1. AfterScan(a) \in Steps
      BY DEF AfterScan
    <3> QED
      BY <1>4, <3>1, GoesTo DEF ScanEnds
  <2>2. store = a /\ store' = Nobody /\ found' = NoFound /\ pc[a] = "scanning"
        /\ UNCHANGED <<files, fresh, trash, key, worker, requests, done>>
    BY <1>4 DEF ScanEnds, Locked
  <2>3. AfterScan(a) \in {"next", "check", "kick"} /\ (AfterScan(a) = "check" => a = "upload")
    BY DEF AfterScan
  <2>4. pc["admin"] \notin AdminSteps
    BY <2>2 DEF Locked, AdminSteps
  <2> QED
    BY <2>1, <2>2, <2>3, <2>4 DEF Locked, files, trash, worker, requests, admin, AdminSteps, WorkSteps
<1>5. ASSUME NEW w \in Workers, TakesNext(w) PROVE Locked'
  <2>1. \A b \in Actors : pc'[b] = IF b = w THEN "render" ELSE pc[b]
    BY <1>5, GoesTo DEF TakesNext
  <2>2. PICK p \in Pending(key) :
          pick' = [place |-> p, hash |-> index[p].hash, key |-> key, picture |-> None]
    BY <1>5 DEF TakesNext
  <2>3. p \in Places /\ index[p].hash \in Contents /\ key \in Keys
    BY EntryOf DEF Pending, Indexed, Typed
  <2>4. UNCHANGED <<library, store, found, requests>> /\ procs = Nobody /\ procs' = w /\ pc[w] = "next"
    BY <1>5 DEF TakesNext
  <2> QED
    BY <2>1, <2>2, <2>3, <2>4 DEF Locked, library, files, copies, trash, requests, admin, AdminSteps, WorkSteps
<1>6. ASSUME NEW w \in Workers, NoneLeft(w) PROVE Locked'
  <2>1. \A b \in Actors : pc'[b] = IF b = w THEN (IF w = "kick" THEN "ending" ELSE "idle") ELSE pc[b]
    BY <1>6, GoesTo DEF NoneLeft
  <2> QED
    BY <1>6, <2>1 DEF NoneLeft, Locked, library, files, copies, trash, worker, requests, admin, AdminSteps, WorkSteps
<1>7. ASSUME NEW w \in Workers, Renders(w) PROVE Locked'
  <2>1. \A b \in Actors : pc'[b] = IF b = w THEN pc'[w] ELSE pc[b]
    BY <1>7, GoesTo DEF Renders
  <2>2. pick.place \in Places /\ pick.hash \in Contents /\ pick.key \in Keys /\ pc[w] = "render" /\ procs = w
    BY <1>7 DEF Renders, Locked, WorkSteps
  <2>3. pick'.place = pick.place /\ pick'.hash = pick.hash /\ pick'.key = pick.key
        /\ pc'[w] \in {"fail", "write"} /\ (pc'[w] = "write" => pick'.picture \in Contents)
    BY <1>7, <2>2, GoesTo DEF Renders, Typed
  <2>4. \A v \in Workers : pc[v] \in WorkSteps => v = w
    BY <2>2 DEF Locked, WorkSteps
  <2>5. UNCHANGED <<library, store, procs, found, requests, done>>
    BY <1>7 DEF Renders
  <2> QED
    BY <2>1, <2>2, <2>3, <2>4, <2>5 DEF Locked, library, files, copies, trash, requests, admin, AdminSteps, WorkSteps
<1>8. ASSUME NEW w \in Workers, WritesCopy(w) \/ WriteFails(w) PROVE Locked'
  <2>1. \A b \in Actors : pc'[b] = IF b = w THEN pc'[w] ELSE pc[b]
    BY <1>8, GoesTo DEF WritesCopy, WriteFails
  <2>2. pc[w] = "write" /\ pc'[w] \in {"commit", "fail"}
        /\ UNCHANGED <<files, index, trash, key, store, worker, found, requests>>
    BY <1>8, GoesTo DEF WritesCopy, WriteFails
  <2> QED
    BY <2>1, <2>2 DEF Locked, files, trash, worker, requests, admin, AdminSteps, WorkSteps
<1>9. ASSUME NEW w \in Workers, RecordsFailure(w) \/ Commits(w) PROVE Locked'
  <2>1. \A b \in Actors : pc'[b] = IF b = w THEN pc'[w] ELSE pc[b]
    BY <1>9, GoesTo DEF RecordsFailure, Commits, Releases
  <2>2. pc[w] \in {"fail", "commit"} /\ pc'[w] \in {"next", "scan"} /\ procs' = Nobody
        /\ UNCHANGED <<files, trash, key, store, found, requests, done>>
    BY <1>9, GoesTo DEF RecordsFailure, Commits, Releases
  <2>3. \A v \in Workers : pc[v] \in WorkSteps => v = w
    BY <2>2 DEF Locked, WorkSteps
  <2>4. \A p \in Places : index[p] # None => index'[p] # None
    <3>1. pick.place \in Places /\ pick.key \in Keys /\ CopyId \in Ids
      BY <2>2, CopyIdIs DEF Inv, Locked, WorkSteps
    <3>2. SameFile => index[pick.place] \in Entries
      BY <3>1 DEF SameFile, Typed
    <3>3. CASE RecordsFailure(w)
      BY <3>1, <3>2, <3>3, FailedIs DEF RecordsFailure, Failed, Typed
    <3>4. CASE Commits(w)
      <4>1. SameFile => index' = [index EXCEPT ![pick.place] = Installed(index[pick.place])]
        BY <3>4 DEF Commits
      <4>2. SameFile => Installed(index[pick.place]) # None
        BY <3>1, <3>2, InstalledIs
      <4>3. ~SameFile => index' = index
        BY <3>4 DEF Commits
      <4> QED
        BY <3>1, <4>1, <4>2, <4>3 DEF Typed
    <3> QED
      BY <1>9, <3>3, <3>4
  <2> QED
    BY <2>1, <2>2, <2>3, <2>4 DEF Locked, files, trash, requests, admin, AdminSteps, WorkSteps
<1>10. ASSUME NEW a \in {"upload", "admin"}, Kicks(a) PROVE Locked'
  <2>1. \A b \in Actors : pc'[b] = IF b = a THEN "idle"
                                    ELSE IF b = "kick" /\ ~kick.running THEN "scan" ELSE pc[b]
    BY <1>10 DEF Kicks, Typed
  <2>3. kick'.running
    <3>1. kick \in [running : BOOLEAN, again : BOOLEAN] /\ KickProcessing
      BY <1>10 DEF Kicks, Typed
    <3> QED
      BY <3>1, Kicked DEF KickProcessing
  <2>4. ~kick.running => pc["kick"] = "idle"
    BY DEF Locked
  <2>5. pc'["kick"] # "idle"
    BY <2>1, <2>4 DEF Locked
  <2>2. pc[a] = "kick" /\ UNCHANGED <<library, store, worker, found, up, admin, done>>
    BY <1>10 DEF Kicks
  <2> QED
    BY <2>1, <2>2, <2>3, <2>4, <2>5 DEF Locked, library, files, copies, trash, worker, admin, AdminSteps, WorkSteps
<1>11. ASSUME NEW c \in Contents, NEW p \in Places, BeginUpload(c, Album[p]) PROVE Locked'
  <2>1. \A b \in Actors : pc'[b] = IF b = "upload" THEN "scan" ELSE pc[b]
    BY <1>11, GoesTo DEF BeginUpload
  <2> QED
    BY <1>11, <2>1 DEF BeginUpload, Locked, library, files, copies, trash, worker, admin, AdminSteps, WorkSteps
<1>12. CASE UploadChecks
  <2>1. \A b \in Actors : pc'[b] = IF b = "upload" THEN pc'["upload"] ELSE pc[b]
    BY <1>12, GoesTo DEF UploadChecks
  <2>2. store = Nobody /\ pc["upload"] = "check" /\ UNCHANGED <<library, worker, found, admin, kick, done>>
    BY <1>12 DEF UploadChecks
  <2>3. \/ pc'["upload"] = "idle" /\ UNCHANGED <<store, up>>
        \/ pc'["upload"] = "store" /\ store' = "upload" /\ up'.place \in Places /\ up'.content = up.content
    BY <1>12, GoesTo DEF UploadChecks, FreeIn, Typed
  <2> QED
    BY <2>1, <2>2, <2>3 DEF Locked, library, files, copies, trash, worker, admin, AdminSteps, WorkSteps
<1>13. CASE UploadStores
  <2>1. \A b \in Actors : pc'[b] = IF b = "upload" THEN "kick" ELSE pc[b]
    BY <1>13, GoesTo DEF UploadStores
  <2>2. store = "upload" /\ pc["admin"] \notin AdminSteps /\ store' = Nobody
        /\ UNCHANGED <<copies, trash, key, worker, found, requests, done>>
    BY <1>13 DEF UploadStores, Locked
  <2>3. \A b \in Actors : pc[b] # "scanning"
    BY <1>13, <2>2 DEF UploadStores, Locked
  <2>4. /\ \A b \in Actors : pc'[b] # "scanning"
        /\ found = NoFound /\ pc'["upload"] = "kick" /\ pc'["admin"] = pc["admin"]
    BY <2>1, <2>3 DEF Locked
  <2> QED
    BY <2>1, <2>2, <2>3, <2>4 DEF Locked, copies, trash, worker, requests, admin, AdminSteps, WorkSteps
<1>a. ASSUME NEW e \in Events, Begins(e)
      PROVE  /\ store' = "admin" /\ pc["admin"] = "idle" /\ drops = {} /\ doomed = None
             /\ \A b \in Actors : pc[b] # "scanning" /\ pc["upload"] # "store"
  BY <1>a DEF Begins, Locked
<1>14. ASSUME NEW p \in Places, NEW t \in Tokens, RemoveRecords(p, t) PROVE Locked'
  <2>1. \A b \in Actors : pc'[b] = IF b = "admin" THEN "remove" ELSE pc[b]
    BY <1>14, GoesTo DEF RemoveRecords
  <2>2. Begins("remove")
    BY <1>14 DEF RemoveRecords
  <2>3. UNCHANGED <<files, index, copies, bin, key, worker, found, up, doomed, kick>>
        /\ op'.place = p /\ op'.token = t /\ index[p] # None
    BY <1>14 DEF RemoveRecords, NoOp, Indexed
  <2>4. record'[t] # None
    <3>1. index[p] \in Entries
      BY <1>14 DEF RemoveRecords, Indexed, Typed
    <3>2. [album |-> Album[p], copy |-> index[p].copy] \in Records
      BY <3>1, EntryOf DEF Records
    <3> QED
      BY <1>14, <3>2, NoneIsNone DEF RemoveRecords, Typed
  <2> QED
    BY <1>a, <2>1, <2>2, <2>3, <2>4 DEF Locked, files, copies, worker, AdminSteps, WorkSteps
<1>15. CASE RemoveMoves
  <2>1. \A b \in Actors : pc'[b] = IF b = "admin" THEN pc'["admin"] ELSE pc[b]
    BY <1>15, GoesTo DEF RemoveMoves
  <2>2. /\ pc["admin"] = "remove" /\ store = "admin" /\ doomed = None
        /\ UNCHANGED <<touched, young, index, copies, key, worker, found, up, doomed, kick, done>>
    BY <1>15 DEF RemoveMoves, Locked, AdminSteps
  <2>3. \/ pc'["admin"] = "pop" /\ UNCHANGED <<record, store, op, drops>>
        \/ pc'["admin"] = "idle" /\ store' = Nobody /\ drops' = {}
    BY <1>15, GoesTo DEF RemoveMoves, Gives
  <2> QED
    BY <2>1, <2>2, <2>3 DEF Locked, copies, worker, AdminSteps, WorkSteps
<1>16. CASE RemovePops
  <2>1. \A b \in Actors : pc'[b] = IF b = "admin" THEN "drop" ELSE pc[b]
    BY <1>16, GoesTo DEF RemovePops
  <2> QED
    BY <1>16, <2>1 DEF RemovePops, Locked, files, copies, trash, worker, AdminSteps, WorkSteps
<1>17. CASE DropLooks
  <2>1. \A b \in Actors : pc'[b] = IF b = "admin" THEN pc'["admin"] ELSE pc[b]
    BY <1>17, GoesTo DEF DropLooks
  <2>2. /\ pc["admin"] = "drop" /\ UNCHANGED <<library, store, worker, found, up, op, kick, done>>
        /\ \/ pc'["admin"] = "drop" /\ doomed' = doomed
           \/ pc'["admin"] = "unlink" /\ doomed' # None
    BY <1>17, GoesTo, NoneIsNone DEF DropLooks, Typed
  <2> QED
    BY <2>1, <2>2 DEF Locked, library, files, copies, trash, worker, AdminSteps, WorkSteps
<1>18. CASE DropUnlinks
  <2>1. \A b \in Actors : pc'[b] = IF b = "admin" THEN "drop" ELSE pc[b]
    BY <1>18, GoesTo DEF DropUnlinks
  <2> QED
    BY <1>18, <2>1 DEF DropUnlinks, Locked, files, trash, worker, AdminSteps, WorkSteps
<1>19. CASE Dropped
  <2>1. \A b \in Actors : pc'[b] = IF b = "admin" THEN "idle" ELSE pc[b]
    BY <1>19, GoesTo DEF Dropped
  <2> QED
    BY <1>19, <2>1 DEF Dropped, Gives, Locked, library, files, copies, trash, worker, AdminSteps, WorkSteps
<1>20. ASSUME NEW p \in Places, NEW q \in Places, MoveBegins(p, q) PROVE Locked'
  <2>1. \A b \in Actors : pc'[b] = IF b = "admin" THEN "move" ELSE pc[b]
    BY <1>20, GoesTo DEF MoveBegins
  <2>2. Begins("move") /\ op'.place = p /\ op'.to = q /\ p # q /\ index[p] # None
        /\ UNCHANGED <<library, worker, found, up, drops, doomed, kick>>
    BY <1>20 DEF MoveBegins, NoOp, Indexed
  <2> QED
    BY <1>a, <2>1, <2>2 DEF Locked, library, files, copies, trash, worker, AdminSteps, WorkSteps
<1>21. CASE MoveMoves
  <2>1. \A b \in Actors : pc'[b] = IF b = "admin" THEN pc'["admin"] ELSE pc[b]
    BY <1>21, GoesTo DEF MoveMoves
  <2>2. /\ pc["admin"] = "move"
        /\ UNCHANGED <<index, copies, trash, key, worker, found, up, drops, doomed, kick, done>>
        /\ \/ pc'["admin"] = "rekey" /\ UNCHANGED <<store, op>>
           \/ pc'["admin"] = "idle" /\ store' = Nobody
    BY <1>21, GoesTo DEF MoveMoves, Gives
  <2>3. store = "admin"
    BY <2>2 DEF Locked, AdminSteps
  <2> QED
    BY <2>1, <2>2, <2>3 DEF Locked, copies, trash, worker, AdminSteps, WorkSteps
<1>22. CASE MoveRekeys \/ RestoreUnrecords
  <2>1. \A b \in Actors : pc'[b] = IF b = "admin" THEN pc'["admin"] ELSE pc[b]
    BY <1>22, GoesTo DEF MoveRekeys, RestoreUnrecords
  <2>2. /\ pc["admin"] \in {"rekey", "restored"} /\ pc'["admin"] \in {"idle", "scan"} /\ store' = Nobody
        /\ UNCHANGED <<worker, found, up, drops, doomed, kick>>
    BY <1>22, GoesTo DEF MoveRekeys, RestoreUnrecords, Gives
  <2>3. store = "admin"
    BY <2>2 DEF Locked, AdminSteps
  <2> QED
    BY <2>1, <2>2, <2>3 DEF Locked, worker, AdminSteps, WorkSteps
<1>23. ASSUME NEW t \in Tokens, NEW q \in Places, RestoreMoves(t, q) PROVE Locked'
  <2>1. \A b \in Actors : pc'[b] = IF b = "admin" THEN "restored" ELSE pc[b]
    BY <1>23, GoesTo DEF RestoreMoves
  <2>2. Begins("restore") /\ op'.token = t /\ record[t] # None
        /\ UNCHANGED <<index, copies, record, key, worker, found, up, drops, doomed, kick>>
    BY <1>23 DEF RestoreMoves, NoOp
  <2> QED
    BY <1>a, <2>1, <2>2 DEF Locked, copies, worker, AdminSteps, WorkSteps
<1>24. ASSUME NEW t \in Tokens, DeleteUnlinks(t) PROVE Locked'
  <2>1. \A b \in Actors : pc'[b] = IF b = "admin" THEN "unrecord" ELSE pc[b]
    BY <1>24, GoesTo DEF DeleteUnlinks
  <2>2. Begins("delete") /\ op'.token = t /\ record[t] # None
        /\ UNCHANGED <<files, index, copies, record, key, worker, found, up, drops, doomed, kick>>
    BY <1>24 DEF DeleteUnlinks, NoOp
  <2> QED
    BY <1>a, <2>1, <2>2 DEF Locked, files, copies, worker, AdminSteps, WorkSteps
<1>25. CASE DeleteUnrecords
  <2>1. \A b \in Actors : pc'[b] = IF b = "admin" THEN "drop" ELSE pc[b]
    BY <1>25, GoesTo DEF DeleteUnrecords
  <2> QED
    BY <1>25, <2>1 DEF DeleteUnrecords, Locked, files, copies, worker, AdminSteps, WorkSteps
<1>26. ASSUME NEW k \in Keys, SetPipeline(k) PROVE Locked'
  <2>1. \A b \in Actors : pc'[b] = IF b = "admin" THEN "kick" ELSE pc[b]
    BY <1>26, GoesTo DEF SetPipeline
  <2> QED
    BY <1>26, <2>1 DEF SetPipeline, Locked, files, copies, trash, worker, requests, admin, AdminSteps, WorkSteps
<1>27. CASE \/ \E p \in Places, c \in Contents : HandPuts(p, c)
            \/ \E p \in Places : HandDeletes(p) \/ Settles(p)
            \/ \E i \in Ids : GraceEnds(i)
            \/ UNCHANGED vars
  <2>1. UNCHANGED <<index, record, store, worker, pc, found, requests>>
    BY <1>27 DEF HandPuts, HandDeletes, Settles, GraceEnds, trash, vars, library
  <2> QED
    BY <2>1 DEF Locked, worker, requests, admin
<1>28. CASE Crash
  <2>1. \A b \in Actors : pc'[b] = "idle"
    BY <1>28 DEF Crash
  <2>2. found' = NoFound /\ doomed' = None /\ drops' = {} /\ kick' = [running |-> FALSE, again |-> FALSE]
    BY <1>28 DEF Crash
  <2> QED
    BY <2>1, <2>2 DEF Locked, AdminSteps, WorkSteps
<1>29. ASSUME NEW w \in Workers, WorkerStep(w) PROVE Locked'
  BY <1>3, <1>4, <1>5, <1>6, <1>7, <1>8, <1>9, <1>29 DEF WorkerStep
<1>30. CASE UploadStep
  BY <1>3, <1>4, <1>10, <1>12, <1>13, <1>30 DEF UploadStep
<1>31. CASE AdminStep
  BY <1>3, <1>4, <1>10, <1>15, <1>16, <1>17, <1>18, <1>19, <1>21, <1>22, <1>25, <1>31 DEF AdminStep
<1>32. CASE Requests
  BY <1>11, <1>14, <1>20, <1>23, <1>24, <1>26, <1>32 DEF Requests
<1>33. CASE World
  BY <1>27, <1>28, <1>33 DEF World
<1> QED
  BY <1>1, <1>2, <1>27, <1>29, <1>30, <1>31, <1>32, <1>33 DEF Next

LEMMA NextInv == Inv /\ [Next]_vars => Inv'
BY NextTyped, NextLocked DEF Inv

LEMMA InvHolds == Spec => []Inv
BY InitInv, NextInv, PTL DEF Spec

-----------------------------------------------------------------------------
(* What a step of one process leaves to the others.                        *)

Quiet == UNCHANGED <<disk, young, trash, key, up, admin>>

LEMMA WorkersStep ==
  ASSUME Inv, NEW w \in Workers, WorkerStep(w)
  PROVE  Quiet /\ pc'["upload"] = pc["upload"] /\ pc'["admin"] = pc["admin"]
<1>1. Quiet /\ UNCHANGED kick
  BY DEF WorkerStep, ScanTakes, ScanEnds, TakesNext, NoneLeft, Renders, WritesCopy, WriteFails,
         RecordsFailure, Commits, Quiet, library, files, requests
<1>2. \E s \in Steps : Goes(w, s)
  BY StepNames, TheActors DEF WorkerStep, ScanTakes, ScanEnds, AfterScan, TakesNext, NoneLeft, Renders, WritesCopy,
     WriteFails, RecordsFailure, Commits, Releases
<1> QED
  BY <1>1, <1>2, GoesTo, TheActors DEF Inv

LEMMA JobStep ==
  ASSUME Inv, JobStarts \/ KickEnds
  PROVE  Quiet /\ pc'["upload"] = pc["upload"] /\ pc'["admin"] = pc["admin"]
BY GoesTo, TheActors, StepNames
   DEF Inv, JobStarts, KickEnds, Quiet, library, files, trash, requests, admin

LEMMA UploadsStep ==
  ASSUME Inv, UploadStep
  PROVE  UNCHANGED <<trash, key, admin>> /\ pc'["admin"] = pc["admin"]
<1>1. UNCHANGED <<trash, key, admin>>
  BY DEF UploadStep, ScanTakes, ScanEnds, UploadChecks, UploadStores, Kicks, library, requests
<1>2. pc'["admin"] = pc["admin"]
  <2>1. CASE Kicks("upload")
    BY <2>1, TheActors DEF Kicks, Inv, Typed
  <2>2. CASE ~Kicks("upload")
    <3>1. \E s \in Steps : Goes("upload", s)
      BY <2>2, StepNames, TheActors DEF UploadStep, ScanTakes, ScanEnds, AfterScan, UploadChecks, UploadStores
    <3> QED
      BY <3>1, GoesTo, TheActors DEF Inv
  <2> QED
    BY <2>1, <2>2
<1> QED
  BY <1>1, <1>2

-----------------------------------------------------------------------------
(* The bin                                                                 *)

(* A file is in the bin only while its record is.                          *)
BinInv ==
  /\ BinRecorded
  /\ pc["admin"] \in {"remove", "restored", "unrecord"} => bin[op.token] = None

LEMMA InitBin == Init => BinInv
BY TheActors DEF Init, BinInv, BinRecorded

(* Steps that leave the bin alone.                                         *)
LEMMA SameBin ==
  ASSUME BinInv, UNCHANGED trash,
         pc'["admin"] \in {"remove", "restored", "unrecord"} =>
           pc'["admin"] = pc["admin"] /\ UNCHANGED op
  PROVE  BinInv'
BY DEF BinInv, BinRecorded, trash

LEMMA NextBin == Inv /\ BinInv /\ [Next]_vars => BinInv'
<1> SUFFICES ASSUME Inv, Typed, Locked, BinInv, [Next]_vars PROVE BinInv'
  BY DEF Inv
<1> USE TheActors, StepNames
<1>1. ASSUME NEW w \in Workers, WorkerStep(w) PROVE BinInv'
  BY <1>1, WorkersStep, SameBin DEF Quiet, admin
<1>2. CASE JobStarts \/ KickEnds
  BY <1>2, JobStep, SameBin DEF Quiet, admin
<1>3. CASE UploadStep
  BY <1>3, UploadsStep, SameBin DEF admin
<1>4. CASE RemoveMoves
  <2>1. op.token \in Tokens /\ record[op.token] # None /\ pc["admin"] = "remove"
    BY <1>4 DEF RemoveMoves, Locked
  <2>2. pc'["admin"] \in {"pop", "idle"}
    BY <1>4, GoesTo DEF RemoveMoves
  <2>3. \A t \in Tokens : t # op.token => bin'[t] = bin[t] /\ record'[t] = record[t]
    BY <1>4 DEF RemoveMoves, Typed
  <2>4. bin'[op.token] # None => record'[op.token] # None
    BY <1>4, <2>1 DEF RemoveMoves, BinInv, Typed
  <2> QED
    BY <2>2, <2>3, <2>4 DEF BinInv, BinRecorded
<1>5. CASE DeleteUnrecords \/ RestoreUnrecords
  <2>1. op.token \in Tokens /\ pc["admin"] \in {"restored", "unrecord"}
    BY <1>5 DEF DeleteUnrecords, RestoreUnrecords, Locked
  <2>2. pc'["admin"] \in {"drop", "scan"}
    BY <1>5, GoesTo DEF DeleteUnrecords, RestoreUnrecords
  <2>3. bin' = bin /\ \A t \in Tokens : t # op.token => record'[t] = record[t]
    BY <1>5 DEF DeleteUnrecords, RestoreUnrecords, Typed
  <2> QED
    BY <2>1, <2>2, <2>3 DEF BinInv, BinRecorded
<1>6. CASE AdminStep /\ ~RemoveMoves /\ ~DeleteUnrecords /\ ~RestoreUnrecords
  <2>1. UNCHANGED trash
    BY <1>6 DEF AdminStep, RemovePops, DropLooks, DropUnlinks, Dropped, MoveMoves, MoveRekeys, ScanTakes,
                ScanEnds, Kicks, library
  <2>2. pc'["admin"] \notin {"remove", "restored", "unrecord"}
    <3>1. CASE Kicks("admin")
      BY <3>1 DEF Kicks, Typed
    <3>2. CASE ~Kicks("admin")
      BY <1>6, <3>2, GoesTo DEF AdminStep, RemovePops, DropLooks, DropUnlinks, Dropped, MoveMoves, MoveRekeys,
                 ScanTakes, ScanEnds, AfterScan
    <3> QED
      BY <3>1, <3>2
  <2> QED
    BY <2>1, <2>2, SameBin
<1>7. ASSUME NEW p \in Places, NEW t \in Tokens, RemoveRecords(p, t) PROVE BinInv'
  <2>1. bin[t] = None /\ bin' = bin /\ op'.token = t /\ \A u \in Tokens : u # t => record'[u] = record[u]
    BY <1>7 DEF RemoveRecords, NoOp, Typed
  <2> QED
    BY <2>1 DEF BinInv, BinRecorded
<1>8. ASSUME NEW t \in Tokens, (\E p \in Places : RestoreMoves(t, p)) \/ DeleteUnlinks(t) PROVE BinInv'
  <2>1. record' = record /\ bin' = [bin EXCEPT ![t] = None] /\ op'.token = t
    BY <1>8 DEF RestoreMoves, DeleteUnlinks, NoOp
  <2> QED
    BY <2>1 DEF BinInv, BinRecorded, Typed
<1>9. ASSUME NEW p \in Places, NEW q \in Places, MoveBegins(p, q) PROVE BinInv'
  BY <1>9, GoesTo, SameBin DEF MoveBegins, library
<1>10. ASSUME NEW c \in Contents, NEW p \in Places, BeginUpload(c, Album[p]) PROVE BinInv'
  BY <1>10, GoesTo, SameBin DEF BeginUpload, library, admin
<1>11. ASSUME NEW k \in Keys, SetPipeline(k) PROVE BinInv'
  BY <1>11, GoesTo, SameBin DEF SetPipeline
<1>12. CASE World
  BY <1>12, SameBin DEF World, HandPuts, HandDeletes, Settles, GraceEnds, Crash, requests, admin
<1>13. CASE UNCHANGED vars
  BY <1>13, SameBin DEF vars, library, requests, admin
<1>14. CASE Requests
  BY <1>7, <1>8, <1>9, <1>10, <1>11, <1>14 DEF Requests
<1> QED
  BY <1>1, <1>2, <1>3, <1>4, <1>5, <1>6, <1>12, <1>13, <1>14 DEF Next

(* Whatever is interrupted, a removed photo can be listed and restored.    *)
THEOREM BinIsRecorded == Spec => []BinRecorded
<1>1. BinInv => BinRecorded
  BY DEF BinInv
<1> QED
  BY <1>1, InvHolds, InitBin, NextBin, PTL DEF Spec

-----------------------------------------------------------------------------
(* The originals                                                           *)

LEMMA CountsGrow ==
  ASSUME Typed, [Next]_vars
  PROVE  \A e \in Events : done'[e] = 0 => done[e] = 0
<1> USE StepNames
<1>1. CASE World \/ Requests
  BY <1>1, Counts DEF World, Requests, HandPuts, HandDeletes, Settles, GraceEnds, Crash, BeginUpload,
     RemoveRecords, RestoreMoves, MoveBegins, DeleteUnlinks, SetPipeline, Begins
<1>2. ASSUME NEW w \in Workers, WorkerStep(w) PROVE \A e \in Events : done'[e] = 0 => done[e] = 0
  BY <1>2, Counts DEF WorkerStep, ScanTakes, ScanEnds, TakesNext, NoneLeft, Renders, WritesCopy, WriteFails,
     RecordsFailure, Commits
<1>3. CASE JobStarts \/ KickEnds \/ UploadStep \/ UNCHANGED vars
  BY <1>3 DEF JobStarts, KickEnds, UploadStep, ScanTakes, ScanEnds, UploadChecks, UploadStores, Kicks, vars
<1>4. CASE AdminStep
  BY <1>4 DEF AdminStep, RemoveMoves, RemovePops, DropLooks, DropUnlinks, Dropped, MoveMoves, MoveRekeys,
     RestoreUnrecords, DeleteUnrecords, ScanTakes, ScanEnds, Kicks
<1> QED
  BY <1>1, <1>2, <1>3, <1>4 DEF Next

(* Without its step "kick", an Admin request goes on only while it holds   *)
(* _STORE_LOCK or waits for it.                                            *)
LEMMA AdminsStep ==
  ASSUME Inv, AdminStep
  PROVE  /\ pc'["upload"] = pc["upload"] /\ UNCHANGED <<up, key>>
         /\ pc'["admin"] \notin {"remove", "move"}
         /\ pc["upload"] = "store" => Kicks("admin")
<1> USE TheActors, StepNames
<1>1. UNCHANGED <<up, key>>
  BY DEF AdminStep, RemoveMoves, RemovePops, DropLooks, DropUnlinks, Dropped, MoveMoves, MoveRekeys,
     RestoreUnrecords, DeleteUnrecords, ScanTakes, ScanEnds, Kicks, library, requests
<1>2. CASE Kicks("admin")
  BY <1>1, <1>2 DEF Kicks, Inv, Typed
<1>3. CASE ~Kicks("admin")
  <2>1. pc'["upload"] = pc["upload"] /\ pc'["admin"] \notin {"remove", "move"}
    <3>1. CASE DropLooks
      BY <3>1, GoesTo DEF DropLooks, Inv
    <3>2. CASE ScanTakes("admin") \/ ScanEnds("admin")
      BY <3>2, GoesTo DEF ScanTakes, ScanEnds, AfterScan, Inv
    <3>3. CASE RemoveMoves \/ RemovePops \/ DropUnlinks \/ Dropped \/ DeleteUnrecords
      BY <3>3, GoesTo DEF RemoveMoves, RemovePops, DropUnlinks, Dropped, DeleteUnrecords, Inv
    <3>4. CASE MoveMoves \/ MoveRekeys \/ RestoreUnrecords
      BY <3>4, GoesTo DEF MoveMoves, MoveRekeys, RestoreUnrecords, Inv
    <3> QED
      BY <1>3, <3>1, <3>2, <3>3, <3>4 DEF AdminStep
  <2>2. pc["admin"] \in AdminSteps \/ (pc["admin"] = "scan" /\ store = Nobody) \/ pc["admin"] = "scanning"
    BY <1>3 DEF AdminStep, RemoveMoves, RemovePops, DropLooks, DropUnlinks, Dropped, MoveMoves, MoveRekeys,
       RestoreUnrecords, DeleteUnrecords, ScanTakes, ScanEnds, AdminSteps
  <2>3. store \in {"admin", Nobody}
    BY <2>2 DEF Inv, Locked
  <2>4. pc["upload"] # "store"
    BY <2>3 DEF Inv, Locked
  <2> QED
    BY <1>1, <2>1, <2>4, GoesTo DEF Inv
<1> QED
  BY <1>2, <1>3

(* Nothing is where a file is about to be put.                             *)
RoomInv == Never({"hand"}) =>
  /\ pc["upload"] = "store" => disk[up.place] = None
  /\ pc["admin"] = "move" => disk[op.to] = None

LEMMA InitRoom == Init => RoomInv
BY TheActors DEF Init, RoomInv

LEMMA NextRoom == Inv /\ RoomInv /\ [Next]_vars => RoomInv'
<1> SUFFICES ASSUME Inv, Typed, Locked, RoomInv, [Next]_vars, Never({"hand"})' PROVE RoomInv'
  BY DEF Inv, RoomInv
<1> USE TheActors, StepNames
<1>0. Never({"hand"})
  BY CountsGrow DEF Never
<1>1. ASSUME NEW w \in Workers, WorkerStep(w) PROVE RoomInv'
  BY <1>0, <1>1, WorkersStep DEF Quiet, admin, RoomInv
<1>2. CASE JobStarts \/ KickEnds
  BY <1>0, <1>2, JobStep DEF Quiet, admin, RoomInv
<1>3. CASE UploadStep
  <2>1. UNCHANGED op /\ pc'["admin"] = pc["admin"]
    BY <1>3, UploadsStep DEF admin
  <2>2. CASE UploadStores
    <3>1. pc["admin"] # "move"
      BY <2>2 DEF UploadStores, Locked, AdminSteps
    <3>2. pc'["upload"] = "kick"
      BY <2>2, GoesTo DEF UploadStores
    <3> QED
      BY <2>1, <3>1, <3>2 DEF RoomInv
  <2>3. CASE UploadChecks
    <3>1. disk' = disk /\ (pc'["upload"] = "store" => disk[up'.place] = None)
      BY <2>3, GoesTo DEF UploadChecks, FreeIn, Present, library, files, Typed
    <3> QED
      BY <1>0, <2>1, <3>1 DEF RoomInv
  <2>4. CASE ScanTakes("upload") \/ ScanEnds("upload") \/ Kicks("upload")
    <3>1. disk' = disk
      BY <2>4 DEF ScanTakes, ScanEnds, Kicks, library, files
    <3>2. pc'["upload"] # "store"
      <4>1. CASE Kicks("upload")
        BY <4>1 DEF Kicks, Typed
      <4>2. CASE ScanTakes("upload") \/ ScanEnds("upload")
        BY <4>2, GoesTo DEF ScanTakes, ScanEnds, AfterScan
      <4> QED
        BY <2>4, <4>1, <4>2
    <3> QED
      BY <1>0, <2>1, <3>1, <3>2 DEF RoomInv
  <2> QED
    BY <1>3, <2>2, <2>3, <2>4 DEF UploadStep
<1>4. CASE AdminStep
  <2>1. CASE Kicks("admin")
    BY <1>0, <1>4, <2>1, AdminsStep DEF RoomInv, Kicks, library, files
  <2>2. CASE ~Kicks("admin")
    BY <1>4, <2>2, AdminsStep DEF RoomInv
  <2> QED
    BY <2>1, <2>2
<1>5. ASSUME NEW e \in Events, Begins(e) PROVE pc["upload"] # "store"
  BY <1>5 DEF Begins, Locked
<1>6. ASSUME NEW p \in Places, NEW t \in Tokens, RemoveRecords(p, t) \/ RestoreMoves(t, p) PROVE RoomInv'
  <2>1. pc["upload"] # "store"
    BY <1>5, <1>6 DEF RemoveRecords, RestoreMoves
  <2>2. pc'["upload"] = pc["upload"] /\ pc'["admin"] # "move"
    BY <1>6, GoesTo DEF RemoveRecords, RestoreMoves
  <2> QED
    BY <2>1, <2>2 DEF RoomInv
<1>7. ASSUME NEW p \in Places, NEW q \in Places, MoveBegins(p, q) PROVE RoomInv'
  <2>1. pc["upload"] # "store"
    BY <1>5, <1>7 DEF MoveBegins
  <2>2. pc'["upload"] = pc["upload"] /\ op'.to = q /\ disk' = disk /\ disk[q] = None
    BY <1>7, GoesTo DEF MoveBegins, FreeIn, Present, NoOp, library, files
  <2> QED
    BY <2>1, <2>2 DEF RoomInv
<1>8. ASSUME NEW t \in Tokens, DeleteUnlinks(t) PROVE RoomInv'
  <2>1. pc["upload"] # "store"
    BY <1>5, <1>8 DEF DeleteUnlinks
  <2>2. pc'["upload"] = pc["upload"] /\ pc'["admin"] # "move"
    BY <1>8, GoesTo DEF DeleteUnlinks
  <2> QED
    BY <2>1, <2>2 DEF RoomInv
<1>9. ASSUME NEW c \in Contents, NEW p \in Places, BeginUpload(c, Album[p]) PROVE RoomInv'
  BY <1>0, <1>9, GoesTo DEF BeginUpload, RoomInv, library, files, admin
<1>10. ASSUME NEW k \in Keys, SetPipeline(k) PROVE RoomInv'
  BY <1>0, <1>10, GoesTo DEF SetPipeline, RoomInv, files, requests, admin
<1>11. CASE World
  <2>1. CASE \E p \in Places : (\E c \in Contents : HandPuts(p, c)) \/ HandDeletes(p)
    <3>1. done'["hand"] > 0
      BY <2>1, Counts DEF HandPuts, HandDeletes
    <3> QED
      BY <3>1 DEF Never
  <2>2. CASE (\E p \in Places : Settles(p)) \/ \E i \in Ids : GraceEnds(i)
    BY <1>0, <2>2 DEF Settles, GraceEnds, RoomInv, files, requests, admin
  <2>3. CASE Crash
    BY <2>3 DEF Crash, RoomInv
  <2> QED
    BY <1>11, <2>1, <2>2, <2>3 DEF World
<1>12. CASE UNCHANGED vars
  BY <1>0, <1>12 DEF vars, library, files, requests, admin, RoomInv
<1>13. CASE Requests
  BY <1>6, <1>7, <1>8, <1>9, <1>10, <1>13 DEF Requests
<1> QED
  BY <1>1, <1>2, <1>3, <1>4, <1>11, <1>12, <1>13 DEF Next

(* Counting the files with a content.                                      *)
With(f, S, c) == {x \in S : f[x] = c}
Count(f, S, c) == Cardinality(With(f, S, c))

LEMMA CountIsNat ==
  ASSUME NEW S, IsFiniteSet(S), NEW f, NEW c
  PROVE  IsFiniteSet(With(f, S, c)) /\ Count(f, S, c) \in Nat
<1>1. With(f, S, c) \in SUBSET S
  BY DEF With
<1> QED
  BY <1>1, FS_Subset, FS_CardinalityType DEF Count

(* What writing one file changes.                                          *)
Written(f, g, S, x, v) == g[x] = v /\ \A y \in S : y # x => g[y] = f[y]

LEMMA CountWritten ==
  ASSUME NEW S, IsFiniteSet(S), NEW f, NEW g, NEW x \in S, NEW v, NEW c, Written(f, g, S, x, v)
  PROVE  /\ f[x] # c /\ v = c => Count(g, S, c) = Count(f, S, c) + 1
         /\ f[x] = c /\ v # c => Count(f, S, c) = Count(g, S, c) + 1
         /\ (f[x] = c <=> v = c) => Count(g, S, c) = Count(f, S, c)
<1>2. ASSUME f[x] # c, v = c PROVE Count(g, S, c) = Count(f, S, c) + 1
  <2>1. With(g, S, c) = With(f, S, c) \cup {x} /\ x \notin With(f, S, c)
    BY <1>2 DEF With, Written
  <2> QED
    BY <2>1, CountIsNat, FS_AddElement DEF Count
<1>3. ASSUME f[x] = c, v # c PROVE Count(f, S, c) = Count(g, S, c) + 1
  <2>1. With(f, S, c) = With(g, S, c) \cup {x} /\ x \notin With(g, S, c)
    BY <1>3 DEF With, Written
  <2> QED
    BY <2>1, CountIsNat, FS_AddElement DEF Count
<1>4. ASSUME f[x] = c <=> v = c PROVE Count(g, S, c) = Count(f, S, c)
  <2>1. With(g, S, c) = With(f, S, c)
    BY <1>4 DEF With, Written
  <2> QED
    BY <2>1 DEF Count
<1> QED
  BY <1>2, <1>3, <1>4

LEMMA OriginalsAre ==
  /\ \A c : Originals(c) = Count(disk, Places, c) + Count(bin, Tokens, c)
  /\ \A c : Originals(c)' = Count(disk', Places, c) + Count(bin', Tokens, c)
  /\ IsFiniteSet(Places) /\ IsFiniteSet(Tokens)
BY FS_Interval, PhotoAssumption DEF Originals, With, Count, Places

(* One step never costs an original, the hands' and a Delete's apart.      *)
LEMMA StepKeeps ==
  ASSUME Inv, BinInv, RoomInv, [Next]_vars, Never({"hand"}), done'["hand"] = 0,
         ~(done'["delete"] > done["delete"]), NEW c \in Contents
  PROVE  Originals(c)' >= Originals(c)
<1> USE TheActors, StepNames, NoneIsNone
<1>t. Typed /\ Locked /\ disk \in [Places -> Contents \cup {None}]
      /\ bin \in [Tokens -> Contents \cup {None}]
  BY DEF Inv, Typed
<1>a. /\ Originals(c) = Count(disk, Places, c) + Count(bin, Tokens, c)
      /\ Originals(c)' = Count(disk', Places, c) + Count(bin', Tokens, c)
      /\ IsFiniteSet(Places) /\ IsFiniteSet(Tokens)
  BY OriginalsAre
<1>b. /\ \A f : Count(f, Places, c) \in Nat
      /\ \A f : Count(f, Tokens, c) \in Nat
  BY <1>a, CountIsNat
<1>1. CASE UNCHANGED <<disk, bin>>
  BY <1>1, <1>a, <1>b
<1>2. CASE UploadStores
  <2>1. up.place \in Places /\ disk[up.place] # c /\ bin' = bin
        /\ Written(disk, disk', Places, up.place, up.content)
    BY <1>2, <1>t DEF UploadStores, Locked, RoomInv, trash, Written
  <2>2. Count(disk', Places, c) >= Count(disk, Places, c)
    BY <1>a, <1>b, <1>t, <2>1, CountWritten
  <2> QED
    BY <1>a, <1>b, <2>1, <2>2
<1>3. CASE RemoveMoves
  <2>1. op.place \in Places /\ op.token \in Tokens /\ bin[op.token] # c
    BY <1>3, <1>t DEF RemoveMoves, Locked, BinInv
  <2>2. CASE disk[op.place] = None
    BY <1>1, <1>3, <2>2 DEF RemoveMoves
  <2>3. CASE disk[op.place] # None
    <3>1. /\ Written(bin, bin', Tokens, op.token, disk[op.place])
          /\ Written(disk, disk', Places, op.place, None)
      BY <1>3, <1>t, <2>1, <2>3 DEF RemoveMoves, Written
    <3>2. CASE disk[op.place] = c
      <4>1. Count(disk, Places, c) = Count(disk', Places, c) + 1
        BY <1>a, <1>t, <2>1, <3>1, <3>2, CountWritten
      <4>2. Count(bin', Tokens, c) = Count(bin, Tokens, c) + 1
        BY <1>a, <1>t, <2>1, <3>1, <3>2, CountWritten
      <4> QED
        BY <1>a, <1>b, <3>1, <4>1, <4>2
    <3>3. CASE disk[op.place] # c
      <4>1. Count(disk', Places, c) = Count(disk, Places, c)
        BY <1>a, <1>t, <2>1, <3>1, <3>3, CountWritten
      <4>2. Count(bin', Tokens, c) = Count(bin, Tokens, c)
        BY <1>a, <1>t, <2>1, <3>1, <3>3, CountWritten
      <4> QED
        BY <1>a, <1>b, <3>1, <4>1, <4>2
    <3> QED
      BY <3>2, <3>3
  <2> QED
    BY <2>2, <2>3
<1>4. CASE MoveMoves
  <2>1. op.place \in Places /\ op.to \in Places /\ op.to # op.place /\ disk[op.to] = None /\ bin' = bin
    BY <1>4, <1>t DEF MoveMoves, Locked, RoomInv, trash
  <2>2. CASE disk[op.place] = None
    BY <1>1, <1>4, <2>1, <2>2 DEF MoveMoves, files
  <2>3. CASE disk[op.place] # None
    <3>1. disk' = [disk EXCEPT ![op.to] = disk[op.place], ![op.place] = None]
      BY <1>4, <2>3 DEF MoveMoves
    <3>2. PICK both \in [Places -> Contents \cup {None}] : both = [disk EXCEPT ![op.to] = disk[op.place]]
      BY <1>t, <2>1
    <3>3. /\ Written(disk, both, Places, op.to, disk[op.place])
          /\ Written(both, disk', Places, op.place, None) /\ both[op.place] = disk[op.place]
      BY <1>t, <2>1, <3>1, <3>2 DEF Written
    <3>4. CASE disk[op.place] = c
      <4>1. Count(both, Places, c) = Count(disk, Places, c) + 1
        BY <1>a, <1>t, <2>1, <3>3, <3>4, CountWritten
      <4>2. Count(both, Places, c) = Count(disk', Places, c) + 1
        BY <1>a, <2>1, <3>3, <3>4, CountWritten
      <4> QED
        BY <1>a, <1>b, <2>1, <3>3, <4>1, <4>2
    <3>5. CASE disk[op.place] # c
      <4>1. Count(both, Places, c) = Count(disk, Places, c)
        BY <1>a, <1>t, <2>1, <3>3, <3>5, CountWritten
      <4>2. Count(disk', Places, c) = Count(both, Places, c)
        BY <1>a, <2>1, <3>3, <3>5, CountWritten
      <4> QED
        BY <1>a, <1>b, <2>1, <3>3, <4>1, <4>2
    <3> QED
      BY <3>4, <3>5
  <2> QED
    BY <2>2, <2>3
<1>5. ASSUME NEW t \in Tokens, NEW q \in Places, RestoreMoves(t, q) PROVE Originals(c)' >= Originals(c)
  <2>1. /\ disk[q] # c /\ bin[t] # None
        /\ Written(disk, disk', Places, q, bin[t]) /\ Written(bin, bin', Tokens, t, None)
    BY <1>5, <1>t DEF RestoreMoves, FreeIn, Present, Written
  <2>2. CASE bin[t] = c
    <3>1. Count(disk', Places, c) = Count(disk, Places, c) + 1
      BY <1>a, <1>t, <2>1, <2>2, CountWritten
    <3>2. Count(bin, Tokens, c) = Count(bin', Tokens, c) + 1
      BY <1>a, <1>t, <2>1, <2>2, CountWritten
    <3> QED
      BY <1>a, <1>b, <2>1, <3>1, <3>2
  <2>3. CASE bin[t] # c
    <3>1. Count(disk', Places, c) = Count(disk, Places, c)
      BY <1>a, <1>t, <2>1, <2>3, CountWritten
    <3>2. Count(bin', Tokens, c) = Count(bin, Tokens, c)
      BY <1>a, <1>t, <2>1, <2>3, CountWritten
    <3> QED
      BY <1>a, <1>b, <2>1, <3>1, <3>2
  <2> QED
    BY <2>2, <2>3
<1>6. ASSUME NEW w \in Workers, WorkerStep(w) PROVE Originals(c)' >= Originals(c)
  BY <1>1, <1>6, WorkersStep DEF Quiet, trash
<1>7. CASE JobStarts \/ KickEnds
  BY <1>1, <1>7, JobStep DEF Quiet, trash
<1>8. CASE UploadStep
  BY <1>1, <1>2, <1>8 DEF UploadStep, ScanTakes, ScanEnds, UploadChecks, Kicks, library, files, trash
<1>9. CASE AdminStep
  BY <1>1, <1>3, <1>4, <1>9 DEF AdminStep, RemovePops, DropLooks, DropUnlinks, Dropped, MoveRekeys,
     RestoreUnrecords, DeleteUnrecords, ScanTakes, ScanEnds, Kicks, library, files, trash
<1>10. CASE Requests
  <2>1. \A t \in Tokens : ~DeleteUnlinks(t)
    BY <1>t DEF DeleteUnlinks, Begins, Happens, Typed
  <2> QED
    BY <1>1, <1>5, <1>10, <2>1 DEF Requests, BeginUpload, RemoveRecords, MoveBegins, SetPipeline,
       library, files, trash
<1>11. CASE World
  <2>1. \A p \in Places : ~HandDeletes(p) /\ \A d \in Contents : ~HandPuts(p, d)
    BY <1>t, Counts DEF HandDeletes, HandPuts
  <2> QED
    BY <1>1, <1>11, <2>1 DEF World, Settles, GraceEnds, Crash, files, trash
<1>12. CASE UNCHANGED vars
  BY <1>1, <1>12 DEF vars, library, files, trash
<1> QED
  BY <1>6, <1>7, <1>8, <1>9, <1>10, <1>11, <1>12 DEF Next

(* Only a hand in the folder or a Delete for good ever costs an original.  *)
THEOREM NoOriginalIsLost == Spec => OriginalsKept
<1>1. Inv /\ Inv' /\ BinInv /\ RoomInv /\ [Next]_vars =>
        [Never({"hand"}) => \/ \A c \in Contents : Originals(c)' >= Originals(c)
                            \/ done'["hand"] > 0 \/ done'["delete"] > done["delete"]]_vars
  <2> SUFFICES ASSUME Inv, Inv', BinInv, RoomInv, [Next]_vars, Never({"hand"}),
                      ~(done'["hand"] > 0), ~(done'["delete"] > done["delete"])
               PROVE  \A c \in Contents : Originals(c)' >= Originals(c)
    OBVIOUS
  <2>1. done'["hand"] \in Nat
    BY StepNames DEF Inv, Typed
  <2> QED
    BY <2>1, StepKeeps
<1> QED
  BY <1>1, InvHolds, InitInv, NextInv, InitBin, NextBin, InitRoom, NextRoom, PTL DEF Spec, OriginalsKept

-----------------------------------------------------------------------------
(* The index and the folder                                                *)

(* Whoever finds _STORE_LOCK free, finds no scan and no Admin request.     *)
LEMMA StoreIsFree ==
  ASSUME Inv, store = Nobody
  PROVE  /\ \A a \in Actors : pc[a] # "scanning"
         /\ found = NoFound /\ DOMAIN found.hashed = {}
         /\ pc["admin"] \notin AdminSteps /\ pc["upload"] # "store"
BY TheActors DEF Inv, Locked, NoFound

(* And who holds it, is the only one to.                                   *)
LEMMA StoreIsMine ==
  ASSUME Inv, NEW a \in Actors, store = a
  PROVE  /\ \A b \in Actors : pc[b] = "scanning" => b = a
         /\ pc["admin"] \in AdminSteps => a = "admin"
         /\ pc["upload"] = "store" => a = "upload"
         /\ pc[a] # "scanning" => found = NoFound /\ DOMAIN found.hashed = {}
BY TheActors DEF Inv, Locked, NoFound

(* What building a copy leaves in the index.                               *)
HashesKept == \A p \in Places :
  /\ index'[p] = None <=> index[p] = None
  /\ index[p] # None => index'[p].hash = index[p].hash

LEMMA BuildsKeep ==
  ASSUME Inv, NEW w \in Workers, WorkerStep(w), ~ScanTakes(w), ~ScanEnds(w)
  PROVE  HashesKept /\ UNCHANGED <<files, found, store>>
<1> USE StepNames, TheActors
<1>1. UNCHANGED <<files, found, store>>
  BY DEF WorkerStep, TakesNext, NoneLeft, Renders, WritesCopy, WriteFails, RecordsFailure, Commits, library
<1>2. CASE RecordsFailure(w) \/ Commits(w)
  <2>1. pc[w] \in WorkSteps
    BY <1>2 DEF RecordsFailure, Commits, WorkSteps
  <2>2. pick.place \in Places /\ pick.key \in Keys /\ CopyId \in Ids
    BY <2>1, CopyIdIs DEF Inv, Locked
  <2>3. SameFile => index[pick.place] \in Entries
    BY <2>2 DEF SameFile, Inv, Typed
  <2>4. CASE RecordsFailure(w)
    <3>1. SameFile => index' = [index EXCEPT ![pick.place] = Failed(index[pick.place], pick.key)]
      BY <2>4 DEF RecordsFailure, Failed
    <3>2. SameFile => /\ Failed(index[pick.place], pick.key) # None /\ index[pick.place] # None
                      /\ Failed(index[pick.place], pick.key).hash = index[pick.place].hash
      BY <2>2, <2>3, FailedIs DEF SameFile
    <3>3. ~SameFile => index' = index
      BY <2>4 DEF RecordsFailure
    <3> QED
      BY <1>1, <2>2, <3>1, <3>2, <3>3 DEF HashesKept, Inv, Typed
  <2>5. CASE Commits(w)
    <3>1. SameFile => index' = [index EXCEPT ![pick.place] = Installed(index[pick.place])]
      BY <2>5 DEF Commits
    <3>2. SameFile => /\ Installed(index[pick.place]) # None
                      /\ Installed(index[pick.place]).hash = index[pick.place].hash
      BY <2>2, <2>3, InstalledIs DEF Inv
    <3>3. ~SameFile => index' = index
      BY <2>5 DEF Commits
    <3>4. SameFile => index[pick.place] # None
      BY DEF SameFile
    <3> QED
      BY <1>1, <2>2, <3>1, <3>2, <3>3, <3>4 DEF HashesKept, Inv, Typed
  <2> QED
    BY <1>2, <2>4, <2>5
<1>3. CASE ~RecordsFailure(w) /\ ~Commits(w)
  <2>1. index' = index
    BY <1>3 DEF WorkerStep, TakesNext, NoneLeft, Renders, WritesCopy, WriteFails, library
  <2> QED
    BY <1>1, <2>1 DEF HashesKept
<1> QED
  BY <1>2, <1>3

(* The index knows the file it has an entry for, or knows that it does not.*)
HashInv ==
  /\ \A p \in (Indexed \cap Present) \ (touched \cup DOMAIN found.hashed) :
       (pc["admin"] = "rekey" /\ p = op.to) \/ index[p].hash = disk[p]
  /\ \A p \in (DOMAIN found.hashed \cap Present) \ touched : found.hashed[p] = disk[p]
  /\ pc["admin"] = "rekey" /\ op.to \in Present \ touched => index[op.place].hash = disk[op.to]

LEMMA InitHash == Init => HashInv
BY TheActors DEF Init, HashInv, Indexed, NoFound

(* Steps that change neither the files nor the hashes.                     *)
LEMMA SameHashes ==
  ASSUME Inv, HashInv, HashesKept, UNCHANGED <<disk, touched, found>>,
         pc'["admin"] = "rekey" => pc["admin"] = "rekey" /\ UNCHANGED op,
         pc["admin"] = "rekey" => pc'["admin"] = "rekey"
  PROVE  HashInv'
<1>1. pc["admin"] = "rekey" => op.place \in Places /\ index[op.place] # None
  BY DEF Inv, Locked
<1> QED
  BY <1>1 DEF HashInv, HashesKept, Indexed, Present

LEMMA ScanHash ==
  ASSUME Inv, HashInv, NEW a \in Actors, ScanTakes(a) \/ ScanEnds(a) PROVE HashInv'
<1> USE TheActors, StepNames
<1>1. CASE ScanTakes(a)
  <2>1. PICK news \in SUBSET Present :
          /\ found' = [present |-> Present, hashed |-> [p \in news |-> disk[p]]]
          /\ touched' = touched \ news
    BY <1>1 DEF ScanTakes
  <2>2. /\ pc["admin"] # "rekey" /\ pc'["admin"] # "rekey" /\ DOMAIN found.hashed = {}
        /\ UNCHANGED <<disk, index>>
    BY <1>1, StoreIsFree, GoesTo DEF ScanTakes, AdminSteps, Inv
  <2>3. DOMAIN found'.hashed = news /\ \A p \in news : found'.hashed[p] = disk[p]
    BY <2>1
  <2> QED
    BY <2>1, <2>2, <2>3 DEF HashInv, Indexed, Present
<1>2. CASE ScanEnds(a)
  <2>1. pc[a] = "scanning" /\ store = a
    BY <1>2 DEF ScanEnds, Inv, Locked
  <2>2. pc["admin"] # "rekey"
    BY <2>1, StoreIsMine DEF AdminSteps
  <2>3. pc'["admin"] # "rekey"
    BY <1>2, <2>2, GoesTo DEF ScanEnds, AfterScan, Inv
  <2>4. /\ UNCHANGED <<disk, touched>> /\ DOMAIN found'.hashed = {}
        /\ \A p \in Places : index'[p] = Scanned(p)
    BY <1>2 DEF ScanEnds, files, NoFound
  <2>5. ASSUME NEW p \in Places, index'[p] # None, disk[p] # None, p \notin touched
        PROVE  index'[p].hash = disk[p]
    <3>1. CASE p \in DOMAIN found.hashed
      BY <2>4, <2>5, <3>1, ScannedIs DEF HashInv, Present, Inv
    <3>2. CASE p \notin DOMAIN found.hashed
      <4>1. index'[p] = index[p]
        BY <2>4, <2>5, <3>2, ScannedIs DEF Inv
      <4> QED
        BY <2>2, <2>5, <3>2, <4>1 DEF HashInv, Indexed, Present
    <3> QED
      BY <3>1, <3>2
  <2> QED
    BY <2>3, <2>4, <2>5 DEF HashInv, Indexed, Present
<1> QED
  BY <1>1, <1>2

LEMMA NextHash == Inv /\ HashInv /\ [Next]_vars => HashInv'
<1> SUFFICES ASSUME Inv, Typed, Locked, HashInv, [Next]_vars PROVE HashInv'
  BY DEF Inv
<1> USE TheActors, StepNames
<1>a. index' = index => HashesKept
  BY DEF HashesKept
<1>1. ASSUME NEW w \in Workers, WorkerStep(w) PROVE HashInv'
  <2>1. CASE ScanTakes(w) \/ ScanEnds(w)
    BY <2>1, ScanHash
  <2>2. CASE ~ScanTakes(w) /\ ~ScanEnds(w)
    BY <1>1, <2>2, BuildsKeep, WorkersStep, SameHashes DEF Quiet, admin, files
  <2> QED
    BY <2>1, <2>2
<1>2. CASE JobStarts \/ KickEnds
  <2>1. UNCHANGED <<index, touched, found>>
    BY <1>2 DEF JobStarts, KickEnds, library, files
  <2> QED
    BY <1>a, <1>2, <2>1, JobStep, SameHashes DEF Quiet, admin
<1>3. CASE UploadStores
  <2>1. /\ store = "upload" /\ up.place \in Places /\ up.content \in Contents
        /\ disk' = [disk EXCEPT ![up.place] = up.content] /\ touched' = touched \ {up.place}
        /\ index' = [index EXCEPT ![up.place] = NewEntry(up.content)]
        /\ found' = found
    BY <1>3 DEF UploadStores, Locked
  <2>2. pc["admin"] # "rekey" /\ pc'["admin"] # "rekey" /\ DOMAIN found.hashed = {}
    BY <1>3, <2>1, StoreIsMine, GoesTo DEF AdminSteps, UploadStores
  <2>3. index'[up.place].hash = disk'[up.place]
    BY <2>1, NewEntryIs DEF Typed
  <2>4. \A p \in Places : p # up.place => index'[p] = index[p] /\ disk'[p] = disk[p]
    BY <2>1 DEF Typed
  <2> QED
    BY <2>1, <2>2, <2>3, <2>4 DEF HashInv, Indexed, Present
<1>4. CASE UploadChecks \/ Kicks("upload")
  <2>1. UNCHANGED <<index, disk, touched, found>>
    BY <1>4 DEF UploadChecks, Kicks, library, files
  <2>2. UploadStep
    BY <1>4 DEF UploadStep
  <2> QED
    BY <1>a, <2>1, <2>2, UploadsStep, SameHashes DEF admin
<1>5. CASE RemoveMoves \/ RemovePops
  <2>1. op.place \in Places /\ pc["admin"] # "rekey"
    BY <1>5 DEF RemoveMoves, RemovePops, Locked
  <2>2. pc'["admin"] # "rekey" /\ UNCHANGED <<touched, found>>
    BY <1>5, GoesTo DEF RemoveMoves, RemovePops, files
  <2>3. /\ \A p \in Places : p # op.place => index'[p] = index[p] /\ disk'[p] = disk[p]
        /\ disk'[op.place] # None => disk' = disk
        /\ index'[op.place] # None => index' = index
    BY <1>5, <2>1 DEF RemoveMoves, RemovePops, files, Typed
  <2>4. \A p \in Places : (index'[p] # None => index'[p] = index[p]) /\ (disk'[p] # None => disk'[p] = disk[p])
    BY <2>3
  <2> QED
    BY <2>1, <2>2, <2>4 DEF HashInv, Indexed, Present
<1>6. CASE MoveMoves
  <2>1. /\ op.place \in Places /\ op.to \in Places /\ op.to # op.place /\ pc["admin"] = "move"
        /\ index[op.place] # None /\ index' = index /\ found' = found
    BY <1>6 DEF MoveMoves, Locked
  <2>2. CASE disk[op.place] = None
    <3>1. UNCHANGED <<disk, touched>> /\ pc'["admin"] = "idle"
      BY <1>6, <2>2, GoesTo DEF MoveMoves, files
    <3> QED
      BY <1>a, <2>1, <3>1, SameHashes
  <2>3. CASE disk[op.place] # None
    <3>1. /\ disk' = [disk EXCEPT ![op.to] = disk[op.place], ![op.place] = None]
          /\ touched' = Renamed(touched, op.place, op.to) /\ op' = op
      BY <1>6, <2>3 DEF MoveMoves
    <3>2. /\ disk'[op.to] = disk[op.place] /\ disk'[op.place] = None
          /\ \A p \in Places \ {op.place, op.to} : disk'[p] = disk[p] /\ (p \in touched' <=> p \in touched)
          /\ op.to \in touched' <=> op.place \in touched
      BY <2>1, <3>1 DEF Typed, Renamed
    <3>3. store = "admin"
      BY <2>1 DEF Locked, AdminSteps
    <3>4. DOMAIN found.hashed = {}
      BY <2>1, <3>3, StoreIsMine
    <3>5. pc'["admin"] = "rekey"
      BY <1>6, <2>3, GoesTo DEF MoveMoves
    <3>6. op.place \notin touched => index[op.place].hash = disk[op.place]
      BY <2>1, <2>3, <3>4 DEF HashInv, Indexed, Present
    <3> QED
      BY <2>1, <3>1, <3>2, <3>4, <3>5, <3>6 DEF HashInv, Indexed, Present
  <2> QED
    BY <2>2, <2>3
<1>7. CASE MoveRekeys
  <2>1. /\ op.place \in Places /\ op.to \in Places /\ op.to # op.place /\ pc["admin"] = "rekey"
        /\ index' = [index EXCEPT ![op.to] = index[op.place], ![op.place] = None]
        /\ UNCHANGED <<disk, touched, found>>
    BY <1>7 DEF MoveRekeys, Locked, files
  <2>2. pc'["admin"] # "rekey"
    BY <1>7, GoesTo DEF MoveRekeys
  <2>3. /\ index'[op.to] = index[op.place] /\ index'[op.place] = None
        /\ \A p \in Places \ {op.place, op.to} : index'[p] = index[p]
    BY <2>1 DEF Typed
  <2>4. ASSUME NEW p \in Places, index'[p] # None, disk[p] # None, p \notin touched, p \notin DOMAIN found.hashed
        PROVE  index'[p].hash = disk[p]
    <3>1. CASE p = op.to
      BY <2>1, <2>3, <2>4, <3>1 DEF HashInv, Present
    <3>2. CASE p # op.to
      BY <2>1, <2>3, <2>4, <3>2 DEF HashInv, Indexed, Present
    <3> QED
      BY <3>1, <3>2
  <2> QED
    BY <2>1, <2>2, <2>4 DEF HashInv, Indexed, Present
<1>8. CASE ScanTakes("admin") \/ ScanEnds("admin") \/ ScanTakes("upload") \/ ScanEnds("upload")
  BY <1>8, ScanHash
<1>9. CASE DropLooks \/ DropUnlinks \/ Dropped \/ RestoreUnrecords \/ DeleteUnrecords \/ Kicks("admin")
  <2>1. UNCHANGED <<index, disk, touched, found>>
    BY <1>9 DEF DropLooks, DropUnlinks, Dropped, RestoreUnrecords, DeleteUnrecords, Kicks, library, files
  <2>2. pc["admin"] # "rekey"
    BY <1>9 DEF DropLooks, DropUnlinks, Dropped, RestoreUnrecords, DeleteUnrecords, Kicks
  <2>3. pc'["admin"] # "rekey"
    <3>1. CASE Kicks("admin")
      BY <3>1 DEF Kicks, Typed
    <3>2. CASE ~Kicks("admin")
      BY <1>9, <3>2, GoesTo DEF DropLooks, DropUnlinks, Dropped, RestoreUnrecords, DeleteUnrecords
    <3> QED
      BY <3>1, <3>2
  <2> QED
    BY <1>a, <2>1, <2>2, <2>3, SameHashes
<1>10. CASE Requests
  <2>1. pc["admin"] # "rekey"
    BY <1>10 DEF Requests, BeginUpload, RemoveRecords, RestoreMoves, MoveBegins, DeleteUnlinks, SetPipeline,
       Begins
  <2>2. pc'["admin"] # "rekey"
    <3>1. Goes("upload", "scan") \/ \E s \in {"remove", "restored", "move", "unrecord", "kick"} : Goes("admin", s)
      BY <1>10 DEF Requests, BeginUpload, RemoveRecords, RestoreMoves, MoveBegins, DeleteUnlinks, SetPipeline
    <3> QED
      BY <2>1, <3>1, GoesTo
  <2>3. CASE \E p \in Places, t \in Tokens : RestoreMoves(t, p)
    <3>1. PICK q \in Places, t \in Tokens : RestoreMoves(t, q)
      BY <2>3
    <3>2. /\ touched' = touched \cup {q} /\ UNCHANGED <<index, found>>
          /\ \A p \in Places : p # q => disk'[p] = disk[p]
      BY <3>1 DEF RestoreMoves, Typed
    <3> QED
      BY <2>1, <2>2, <3>2 DEF HashInv, Indexed, Present
  <2>4. CASE ~\E p \in Places, t \in Tokens : RestoreMoves(t, p)
    <3>1. UNCHANGED <<index, disk, touched, found>>
      BY <1>10, <2>4 DEF Requests, BeginUpload, RemoveRecords, MoveBegins, DeleteUnlinks, SetPipeline, library,
         files
    <3> QED
      BY <1>a, <2>1, <2>2, <3>1, SameHashes
  <2> QED
    BY <2>3, <2>4
<1>11. ASSUME NEW p \in Places, (\E c \in Contents : HandPuts(p, c)) \/ HandDeletes(p) PROVE HashInv'
  <2>1. /\ UNCHANGED <<index, found, op, pc>> /\ touched \subseteq touched'
        /\ p \in touched' \/ disk'[p] = None
        /\ \A q \in Places : q # p => disk'[q] = disk[q] /\ (q \in touched' <=> q \in touched)
    BY <1>11 DEF HandPuts, HandDeletes, Typed, requests, admin
  <2> QED
    BY <2>1 DEF HashInv, Indexed, Present
<1>12. CASE (\E p \in Places : Settles(p)) \/ (\E i \in Ids : GraceEnds(i)) \/ UNCHANGED vars
  <2>1. UNCHANGED <<index, disk, touched, found, pc, op>>
    BY <1>12 DEF Settles, GraceEnds, vars, library, files, requests, admin
  <2> QED
    BY <1>a, <2>1, SameHashes
<1>13. CASE Crash
  <2>1. /\ disk' = disk /\ DOMAIN found'.hashed = {} /\ pc'["admin"] = "idle"
        /\ touched' = touched \cup DOMAIN found.hashed \cup (IF pc["admin"] = "rekey" THEN {op.to} ELSE {})
        /\ \A p \in Places : index'[p] \in {index[p], None}
    BY <1>13 DEF Crash, NoFound
  <2> QED
    BY <2>1 DEF HashInv, Indexed, Present
<1>14. CASE UploadStep
  BY <1>3, <1>4, <1>8, <1>14 DEF UploadStep
<1>15. CASE AdminStep
  BY <1>5, <1>6, <1>7, <1>8, <1>9, <1>15 DEF AdminStep
<1>16. CASE World
  BY <1>11, <1>12, <1>13, <1>16 DEF World
<1> QED
  BY <1>1, <1>2, <1>10, <1>12, <1>14, <1>15, <1>16 DEF Next

-----------------------------------------------------------------------------
(* Uploads                                                                 *)

(* The index has an entry for the file at p, its own.                      *)
Known(p) == p \notin touched /\
  index[IF pc["admin"] = "rekey" /\ p = op.to THEN op.place ELSE p] # None

(* What an upload's own scan found out is true until it files its photo.   *)
Knows ==
  /\ \A a \in Actors : pc[a] = "scanning" => found.present = Present
  /\ pc["admin"] \in {"pop", "rekey"} => disk[op.place] = None
  /\ pc["upload"] = "scanning" =>
       \A p \in Present : p \notin touched /\ (p \in DOMAIN found.hashed \/ index[p] # None)
  /\ pc["upload"] \in {"check", "store"} =>
       (\A p \in Present : Known(p)) /\ DOMAIN found.hashed = {}
  /\ pc["upload"] = "store" => ~Duplicate

UploadInv == Never({"hand", "restore"}) => Knows

LEMMA InitUpload == Init => UploadInv
BY TheActors DEF Init, UploadInv, Knows

LEMMA SameKnows ==
  ASSUME Inv, Knows, HashesKept, UNCHANGED <<disk, touched, found>>,
         \A a \in Actors : pc'[a] = "scanning" => pc[a] = "scanning",
         pc'["upload"] \in {"scanning", "check", "store"} => pc'["upload"] = pc["upload"] /\ UNCHANGED up,
         pc'["admin"] \in {"pop", "rekey"} => pc'["admin"] = pc["admin"] /\ UNCHANGED op,
         pc["admin"] = "rekey" => pc'["admin"] = "rekey"
  PROVE  Knows'
<1> USE TheActors
<1>1. pc["admin"] = "rekey" => op.place \in Places
  BY DEF Inv, Locked
<1>2. Present' = Present
  BY DEF Present
<1>3. \A p \in Present : Known(p) => Known(p)'
  BY <1>1 DEF Known, HashesKept, Present
<1>4. pc'["upload"] = "store" /\ Duplicate' => Duplicate
  BY DEF Duplicate, Indexed, HashesKept
<1>5. pc'["upload"] \in {"check", "store"} => (\A p \in Present : Known(p)') /\ DOMAIN found'.hashed = {}
  BY <1>3 DEF Knows
<1>6. pc'["upload"] = "scanning" =>
        \A p \in Present : p \notin touched' /\ (p \in DOMAIN found'.hashed \/ index'[p] # None)
  BY DEF Knows, HashesKept, Present
<1>7. pc'["upload"] = "store" => ~Duplicate'
  BY <1>4 DEF Knows
<1>8. pc'["admin"] \in {"pop", "rekey"} => disk'[op'.place] = None
  BY DEF Knows
<1>9. \A a \in Actors : pc'[a] = "scanning" => found'.present = Present'
  BY <1>2 DEF Knows
<1> QED
  BY <1>2, <1>5, <1>6, <1>7, <1>8, <1>9 DEF Knows

LEMMA ScanKnows ==
  ASSUME Inv, Knows, NEW a \in Actors, ScanTakes(a) \/ ScanEnds(a) PROVE Knows'
<1> USE TheActors, StepNames
<1>1. CASE ScanTakes(a)
  <2> DEFINE news == {p \in Present : /\ index[p] = None \/ p \in touched
                                      /\ p \notin young \/ a \notin Workers}
  <2>1. /\ found' = [present |-> Present, hashed |-> [p \in news |-> disk[p]]]
        /\ touched' = touched \ news /\ pc[a] = "scan" /\ UNCHANGED <<disk, index, up, op>>
    BY <1>1 DEF ScanTakes, requests, admin
  <2>2. pc["admin"] \notin AdminSteps /\ pc["upload"] # "store"
    BY <1>1, StoreIsFree DEF ScanTakes
  <2>3. \A b \in Actors : pc'[b] = IF b = a THEN "scanning" ELSE pc[b]
    BY <1>1, GoesTo DEF ScanTakes, Inv
  <2>4. pc'["admin"] \notin {"pop", "rekey"} /\ pc'["upload"] # "store" /\ pc["admin"] # "rekey"
    BY <2>2, <2>3 DEF AdminSteps
  <2>5. Present' = Present /\ found'.present = Present /\ DOMAIN found'.hashed = news
    BY <2>1 DEF Present
  <2>6. ASSUME pc'["upload"] = "scanning", NEW p \in Present
        PROVE  p \notin touched' /\ (p \in news \/ index'[p] # None)
    <3>1. a = "upload"
      BY <1>1, <2>2, <2>3, <2>6, StoreIsFree DEF ScanTakes
    <3> QED
      BY <2>1, <3>1
  <2>7. ASSUME pc'["upload"] = "check" PROVE (\A p \in Present : Known(p)') /\ news = {}
    <3>1. pc["upload"] = "check"
      BY <2>1, <2>3, <2>7
    <3>2. \A p \in Present : p \notin touched /\ index[p] # None
      BY <2>4, <3>1 DEF Knows, Known
    <3>3. news = {}
      BY <3>2
    <3> QED
      BY <2>1, <2>4, <3>2, <3>3 DEF Known
  <2> HIDE DEF news
  <2> QED
    BY <2>4, <2>5, <2>6, <2>7 DEF Knows
<1>2. CASE ScanEnds(a)
  <2>1. pc[a] = "scanning" /\ store = a
    BY <1>2 DEF ScanEnds, Inv, Locked
  <2>2. pc["admin"] \notin AdminSteps /\ pc["upload"] # "store"
    BY <2>1, StoreIsMine DEF AdminSteps
  <2>3. \A b \in Actors : pc'[b] = IF b = a THEN AfterScan(a) ELSE pc[b]
    <3>1. AfterScan(a) \in Steps
      BY DEF AfterScan
    <3> QED
      BY <1>2, <3>1, GoesTo DEF ScanEnds, Inv
  <2>4. AfterScan(a) \in {"next", "check", "kick"} /\ (AfterScan(a) = "check" => a = "upload")
    BY DEF AfterScan
  <2>5. /\ UNCHANGED <<disk, touched>> /\ DOMAIN found'.hashed = {}
        /\ \A p \in Places : index'[p] = Scanned(p)
    BY <1>2 DEF ScanEnds, files, NoFound
  <2>6. /\ \A b \in Actors : pc'[b] # "scanning"
        /\ pc'["admin"] \notin {"pop", "rekey"} /\ pc'["upload"] # "store" /\ pc["admin"] # "rekey"
    BY <2>1, <2>2, <2>3, <2>4, StoreIsMine DEF AdminSteps
  <2>7. found.present = Present
    BY <2>1 DEF Knows
  <2>8. ASSUME pc'["upload"] = "check", NEW p \in Present
        PROVE  p \notin touched /\ (p \in DOMAIN found.hashed \/ index[p] # None)
    BY <2>1, <2>3, <2>4, <2>6, <2>8 DEF Knows, Known
  <2>9. ASSUME pc'["upload"] = "check", NEW p \in Present PROVE Known(p)'
    <3>1. p \in Places
      BY DEF Present
    <3>2. index'[p] # None
      BY <2>5, <2>7, <2>8, <2>9, <3>1, ScannedIs DEF Inv
    <3> QED
      BY <2>5, <2>6, <2>8, <2>9, <3>2 DEF Known
  <2>10. Present' = Present
    BY <2>5 DEF Present
  <2> QED
    BY <2>5, <2>6, <2>9, <2>10 DEF Knows
<1> QED
  BY <1>1, <1>2

LEMMA NextUpload == Inv /\ UploadInv /\ [Next]_vars => UploadInv'
<1> SUFFICES ASSUME Inv, Typed, Locked, UploadInv, [Next]_vars, Never({"hand", "restore"})' PROVE Knows'
  BY DEF Inv, UploadInv
<1> USE TheActors, StepNames
<1>k. Knows
  BY CountsGrow DEF Never, UploadInv
<1>a. index' = index => HashesKept
  BY DEF HashesKept
<1>1. ASSUME NEW w \in Workers, WorkerStep(w) PROVE Knows'
  <2>1. CASE ScanTakes(w) \/ ScanEnds(w)
    BY <1>k, <2>1, ScanKnows
  <2>2. CASE ~ScanTakes(w) /\ ~ScanEnds(w)
    <3>1. HashesKept /\ UNCHANGED <<disk, touched, found, up, op>>
      BY <1>1, <2>2, BuildsKeep, WorkersStep DEF Quiet, admin, files
    <3>2. \A b \in Actors : pc'[b] = "scanning" => pc[b] = "scanning"
      BY <1>1, <2>2, GoesTo DEF WorkerStep, TakesNext, NoneLeft, Renders, WritesCopy, WriteFails,
         RecordsFailure, Commits, Releases
    <3> QED
      BY <1>1, <1>k, <3>1, <3>2, WorkersStep, SameKnows
  <2> QED
    BY <2>1, <2>2
<1>2. CASE JobStarts \/ KickEnds
  <2>1. UNCHANGED <<index, touched, found>>
    BY <1>2 DEF JobStarts, KickEnds, library, files
  <2>2. \A b \in Actors : pc'[b] = "scanning" => pc[b] = "scanning"
    BY <1>2, GoesTo DEF JobStarts, KickEnds
  <2> QED
    BY <1>a, <1>k, <1>2, <2>1, <2>2, JobStep, SameKnows DEF Quiet, admin
<1>3. CASE UploadStores
  <2>1. store = "upload" /\ pc["upload"] = "store"
    BY <1>3 DEF UploadStores, Locked
  <2>2. \A b \in Actors : pc'[b] = IF b = "upload" THEN "kick" ELSE pc[b]
    BY <1>3, GoesTo DEF UploadStores
  <2>3. pc["admin"] \notin AdminSteps /\ \A b \in Actors : pc[b] # "scanning"
    BY <2>1, StoreIsMine
  <2> QED
    BY <2>2, <2>3 DEF Knows, AdminSteps
<1>4. CASE UploadChecks
  <2>1. UNCHANGED <<index, disk, touched, found, op>> /\ pc["upload"] = "check"
        /\ up'.content = up.content /\ up'.album = up.album
    BY <1>4 DEF UploadChecks, library, files, admin, Typed
  <2>2. \A b \in Actors : pc'[b] = IF b = "upload" THEN pc'["upload"] ELSE pc[b]
    BY <1>4, GoesTo DEF UploadChecks
  <2>3. pc'["upload"] = "idle" \/ (pc'["upload"] = "store" /\ ~Duplicate)
    BY <1>4, GoesTo DEF UploadChecks
  <2>4. Present' = Present /\ (Duplicate' => Duplicate) /\ \A p : Known(p) => Known(p)'
    BY <2>1, <2>2 DEF Present, Duplicate, Indexed, Known
  <2>5. pc'["upload"] = "store" => ~Duplicate' /\ DOMAIN found'.hashed = {} /\ \A p \in Present' : Known(p)'
    BY <1>k, <2>1, <2>3, <2>4 DEF Knows
  <2> QED
    BY <1>k, <2>1, <2>2, <2>3, <2>4, <2>5 DEF Knows
<1>5. CASE Kicks("upload") \/ Kicks("admin")
  <2>1. UNCHANGED <<index, disk, touched, found, up, op>>
    BY <1>5 DEF Kicks, library, files, admin
  <2>2. /\ \A b \in Actors : pc'[b] \in {"idle", "scan"} \/ pc'[b] = pc[b]
        /\ pc["admin"] = "rekey" => pc'["admin"] = "rekey"
    BY <1>5 DEF Kicks, Typed
  <2> QED
    BY <1>a, <1>k, <2>1, <2>2, SameKnows
<1>6. ASSUME pc["admin"] \in AdminSteps
      PROVE  pc["upload"] # "store" /\ \A b \in Actors : pc[b] # "scanning"
  BY <1>6, StoreIsMine DEF Locked, AdminSteps
<1>7. CASE RemoveMoves \/ RemovePops
  <2>1. op.place \in Places /\ pc["admin"] \in {"remove", "pop"}
    BY <1>7 DEF RemoveMoves, RemovePops, Locked
  <2>2. /\ \A b \in Actors : pc'[b] = IF b = "admin" THEN pc'["admin"] ELSE pc[b]
        /\ pc'["admin"] \in {"pop", "idle", "drop"} /\ UNCHANGED <<touched, found>>
    BY <1>7, GoesTo DEF RemoveMoves, RemovePops, files
  <2>3. pc'["upload"] # "store" /\ \A b \in Actors : pc'[b] # "scanning"
    BY <1>6, <2>1, <2>2 DEF AdminSteps
  <2>4. pc'["admin"] = "pop" => disk'[op'.place] = None
    BY <1>7, <2>1, GoesTo DEF RemoveMoves, RemovePops, Typed
  <2>5. \A p \in Places : disk'[p] # None => disk[p] # None /\ index'[p] = index[p]
    BY <1>k, <1>7, <2>1 DEF RemoveMoves, RemovePops, files, Typed, Knows
  <2>6. ASSUME pc'["upload"] = "check"
        PROVE  (\A p \in Present' : Known(p)') /\ DOMAIN found'.hashed = {}
    BY <1>k, <2>1, <2>2, <2>5, <2>6 DEF Knows, Known, Present
  <2> QED
    BY <2>2, <2>3, <2>4, <2>6 DEF Knows
<1>8. CASE MoveMoves
  <2>1. /\ op.place \in Places /\ op.to \in Places /\ op.to # op.place /\ pc["admin"] = "move"
        /\ index[op.place] # None /\ index' = index /\ UNCHANGED <<found, up>>
    BY <1>8 DEF MoveMoves, Locked
  <2>2. /\ \A b \in Actors : pc'[b] = IF b = "admin" THEN pc'["admin"] ELSE pc[b]
        /\ pc'["admin"] \in {"rekey", "idle"}
    BY <1>8, GoesTo DEF MoveMoves
  <2>3. pc'["upload"] # "store" /\ \A b \in Actors : pc'[b] # "scanning"
    BY <1>6, <2>1, <2>2 DEF AdminSteps
  <2>4. CASE disk[op.place] = None
    <3>1. UNCHANGED <<disk, touched>> /\ pc'["admin"] = "idle"
      BY <1>8, <2>4, GoesTo DEF MoveMoves, files
    <3> QED
      BY <1>a, <1>k, <2>1, <2>2, <3>1, SameKnows
  <2>5. CASE disk[op.place] # None
    <3>1. /\ disk' = [disk EXCEPT ![op.to] = disk[op.place], ![op.place] = None]
          /\ touched' = Renamed(touched, op.place, op.to) /\ op' = op /\ pc'["admin"] = "rekey"
      BY <1>8, <2>5, GoesTo DEF MoveMoves
    <3>2. /\ disk'[op.place] = None
          /\ \A p \in Places \ {op.place, op.to} : disk'[p] = disk[p] /\ (p \in touched' <=> p \in touched)
          /\ op.to \in touched' <=> op.place \in touched
      BY <2>1, <3>1 DEF Typed, Renamed
    <3>3. ASSUME pc'["upload"] = "check", NEW p \in Present' PROVE Known(p)'
      <4>1. pc["upload"] = "check" /\ p \in Places /\ disk'[p] # None
        BY <2>2, <3>3 DEF Present
      <4>2. CASE p = op.to
        <5>1. Known(op.place)
          BY <1>k, <2>1, <2>5, <4>1 DEF Knows, Present
        <5> QED
          BY <2>1, <3>1, <3>2, <4>2, <5>1 DEF Known
      <4>3. CASE p # op.to
        <5>1. Known(p)
          BY <1>k, <3>2, <4>1, <4>3 DEF Knows, Present
        <5> QED
          BY <2>1, <3>1, <3>2, <4>1, <4>3, <5>1 DEF Known
      <4> QED
        BY <4>2, <4>3
    <3>4. pc'["upload"] = "check" => DOMAIN found'.hashed = {}
      BY <1>k, <2>1, <2>2 DEF Knows
    <3> QED
      BY <2>2, <2>3, <3>1, <3>2, <3>3, <3>4 DEF Knows
  <2> QED
    BY <2>4, <2>5
<1>9. CASE MoveRekeys
  <2>1. /\ op.place \in Places /\ op.to \in Places /\ op.to # op.place /\ pc["admin"] = "rekey"
        /\ index' = [index EXCEPT ![op.to] = index[op.place], ![op.place] = None]
        /\ UNCHANGED <<disk, touched, found>>
    BY <1>9 DEF MoveRekeys, Locked, files
  <2>2. /\ \A b \in Actors : pc'[b] = IF b = "admin" THEN pc'["admin"] ELSE pc[b]
        /\ pc'["admin"] = "idle"
    BY <1>9, GoesTo DEF MoveRekeys
  <2>3. pc'["upload"] # "store" /\ \A b \in Actors : pc'[b] # "scanning"
    BY <1>6, <2>1, <2>2 DEF AdminSteps
  <2>4. /\ index'[op.to] = index[op.place]
        /\ \A p \in Places \ {op.place, op.to} : index'[p] = index[p]
    BY <2>1 DEF Typed
  <2>5. ASSUME pc'["upload"] = "check", NEW p \in Present' PROVE Known(p)'
    <3>1. Known(p) /\ p # op.place /\ p \in Places
      BY <1>k, <2>1, <2>2, <2>5 DEF Knows, Present
    <3> QED
      BY <2>1, <2>2, <2>4, <3>1 DEF Known
  <2>6. pc'["upload"] = "check" => DOMAIN found'.hashed = {}
    BY <1>k, <2>1, <2>2 DEF Knows
  <2> QED
    BY <2>2, <2>3, <2>5, <2>6 DEF Knows
<1>10. CASE ScanTakes("admin") \/ ScanEnds("admin") \/ ScanTakes("upload") \/ ScanEnds("upload")
  BY <1>k, <1>10, ScanKnows
<1>11. CASE DropLooks \/ DropUnlinks \/ Dropped \/ RestoreUnrecords \/ DeleteUnrecords
  <2>1. UNCHANGED <<index, disk, touched, found, up>>
    BY <1>11 DEF DropLooks, DropUnlinks, Dropped, RestoreUnrecords, DeleteUnrecords, library, files
  <2>2. pc["admin"] # "rekey"
    BY <1>11 DEF DropLooks, DropUnlinks, Dropped, RestoreUnrecords, DeleteUnrecords
  <2>3. /\ \A b \in Actors : b # "admin" => pc'[b] = pc[b]
        /\ pc'["admin"] \notin {"pop", "rekey", "scanning"}
    BY <1>11, GoesTo DEF DropLooks, DropUnlinks, Dropped, RestoreUnrecords, DeleteUnrecords
  <2> QED
    BY <1>a, <1>k, <2>1, <2>2, <2>3, SameKnows
<1>12. CASE Requests
  <2>1. pc["admin"] # "rekey"
    BY <1>12 DEF Requests, BeginUpload, RemoveRecords, RestoreMoves, MoveBegins, DeleteUnlinks, SetPipeline,
       Begins
  <2>2. /\ \A b \in Actors : pc'[b] = pc[b] \/ pc'[b] \notin {"scanning", "check", "store", "pop", "rekey"}
        /\ pc'["upload"] = "scan" \/ UNCHANGED up
    <3>1. \/ Goes("upload", "scan")
          \/ UNCHANGED up /\ \E s \in {"remove", "restored", "move", "unrecord", "kick"} : Goes("admin", s)
      <4>1. CASE \E c \in Contents, p \in Places : BeginUpload(c, Album[p])
        BY <4>1 DEF BeginUpload
      <4>2. CASE \E p \in Places, t \in Tokens : RemoveRecords(p, t) \/ RestoreMoves(t, p)
        BY <4>2 DEF RemoveRecords, RestoreMoves
      <4>3. CASE \E p, q \in Places : MoveBegins(p, q)
        BY <4>3 DEF MoveBegins
      <4>4. CASE (\E t \in Tokens : DeleteUnlinks(t)) \/ \E k \in Keys : SetPipeline(k)
        BY <4>4 DEF DeleteUnlinks, SetPipeline, requests
      <4> QED
        BY <1>12, <4>1, <4>2, <4>3, <4>4 DEF Requests
    <3> QED
      BY <3>1, GoesTo
  <2>3. ASSUME NEW p \in Places, NEW t \in Tokens, RestoreMoves(t, p) PROVE FALSE
    <3>1. done'["restore"] > 0
      BY <2>3, Counts DEF RestoreMoves, Begins
    <3> QED
      BY <3>1 DEF Never
  <2>4. UNCHANGED <<index, disk, touched, found>>
    BY <1>12, <2>3 DEF Requests, BeginUpload, RemoveRecords, MoveBegins, DeleteUnlinks, SetPipeline, library,
       files
  <2>5. pc'["admin"] \in {"pop", "rekey"} => pc'["admin"] = pc["admin"] /\ UNCHANGED op
    <3>1. pc'["admin"] = "pop" => pc["admin"] = "pop"
      BY <2>2
    <3>2. pc["admin"] = "pop" => UNCHANGED op
      BY <1>12, <2>3 DEF Requests, BeginUpload, RemoveRecords, MoveBegins, DeleteUnlinks, SetPipeline,
         Begins, admin
    <3> QED
      BY <2>1, <2>2, <3>1, <3>2
  <2> QED
    BY <1>a, <1>k, <2>1, <2>2, <2>4, <2>5, SameKnows
<1>13. CASE \E p \in Places : (\E c \in Contents : HandPuts(p, c)) \/ HandDeletes(p)
  <2>1. done'["hand"] > 0
    BY <1>13, Counts DEF HandPuts, HandDeletes
  <2> QED
    BY <2>1 DEF Never
<1>14. CASE (\E p \in Places : Settles(p)) \/ (\E i \in Ids : GraceEnds(i)) \/ UNCHANGED vars
  <2>1. UNCHANGED <<index, disk, touched, found, pc, op, up>>
    BY <1>14 DEF Settles, GraceEnds, vars, library, files, requests, admin
  <2> QED
    BY <1>a, <1>k, <2>1, SameKnows
<1>15. CASE Crash
  <2>1. \A b \in Actors : pc'[b] = "idle"
    BY <1>15 DEF Crash
  <2> QED
    BY <2>1 DEF Knows
<1>16. CASE UploadStep
  BY <1>3, <1>4, <1>5, <1>10, <1>16 DEF UploadStep
<1>17. CASE AdminStep
  BY <1>5, <1>7, <1>8, <1>9, <1>10, <1>11, <1>17 DEF AdminStep
<1>18. CASE World
  BY <1>13, <1>14, <1>15, <1>18 DEF World
<1> QED
  BY <1>1, <1>2, <1>12, <1>14, <1>16, <1>17, <1>18 DEF Next

(* The same photo is not stored twice in an album.                         *)
THEOREM NotStoredTwice == Spec => NoSecondUpload
<1>1. Inv /\ HashInv /\ UploadInv =>
        [Never({"hand", "restore"}) /\ pc["upload"] = "store" /\ pc'["upload"] = "kick" =>
           ~\E p \in Present : Album[p] = up.album /\ disk[p] = up.content]_vars
  <2> SUFFICES ASSUME Inv, HashInv, UploadInv, Never({"hand", "restore"}), pc["upload"] = "store",
                      NEW p \in Present, Album[p] = up.album, disk[p] = up.content
               PROVE  FALSE
    OBVIOUS
  <2>1. Knows
    BY DEF UploadInv
  <2>2. pc["admin"] # "rekey"
    BY TheActors DEF Inv, Locked, AdminSteps
  <2>3. p \in Places /\ p \notin touched /\ index[p] # None /\ DOMAIN found.hashed = {}
    BY <2>1, <2>2 DEF Knows, Known, Present
  <2>4. index[p].hash = disk[p]
    BY <2>2, <2>3 DEF HashInv, Indexed
  <2> QED
    BY <2>1, <2>3, <2>4 DEF Knows, Duplicate, Indexed
<1> QED
  BY <1>1, InvHolds, InitHash, NextHash, InitUpload, NextUpload, PTL DEF Spec, NoSecondUpload

-----------------------------------------------------------------------------
(* The kicks                                                               *)

(* Somebody has still to look for photos without a copy.                   *)
Coming ==
  \/ pc["job"] # "idle" \/ pc["admin"] = "kick"
  \/ pc["kick"] \notin {"idle", "ending"}
  \/ (pc["kick"] = "ending" /\ kick.again)

Unkicked == up.place # None /\ pc["upload"] = "idle" /\ Pending(key) # {}

KickInv ==
  /\ pc["upload"] \in {"scan", "scanning", "check"} => up.place = None
  /\ Never({"hand", "crash", "remove"}) =>
       /\ \A t \in Tokens : record[t] = None
       /\ pc["admin"] \in {"idle", "move", "rekey", "kick"}
       /\ Unkicked => Coming

LEMMA InitKick == Init => KickInv
BY TheActors DEF Init, KickInv, NoUp, Unkicked

(* An upload's own part.                                                   *)
LEMMA NextFiling ==
  ASSUME Inv, KickInv, [Next]_vars
  PROVE  pc'["upload"] \in {"scan", "scanning", "check"} => up'.place = None
<1> USE TheActors, StepNames
<1>1. ASSUME NEW w \in Workers, WorkerStep(w) PROVE UNCHANGED up /\ pc'["upload"] = pc["upload"]
  BY <1>1, WorkersStep DEF Quiet
<1>2. CASE JobStarts \/ KickEnds
  BY <1>2, JobStep DEF Quiet, KickInv
<1>3. CASE UploadStep
  <2>1. CASE ScanTakes("upload") \/ ScanEnds("upload")
    BY <2>1 DEF ScanTakes, ScanEnds, requests, KickInv
  <2>2. CASE UploadChecks
    BY <2>2, GoesTo DEF UploadChecks, Inv
  <2>3. CASE UploadStores
    BY <2>3, GoesTo DEF UploadStores, Inv
  <2>4. CASE Kicks("upload")
    BY <2>4 DEF Kicks, Inv, Typed
  <2> QED
    BY <1>3, <2>1, <2>2, <2>3, <2>4 DEF UploadStep
<1>4. CASE AdminStep
  BY <1>4, AdminsStep DEF KickInv
<1>5. CASE \E c \in Contents, p \in Places : BeginUpload(c, Album[p])
  BY <1>5 DEF BeginUpload
<1>6. CASE Requests /\ ~\E c \in Contents, p \in Places : BeginUpload(c, Album[p])
  <2>1. UNCHANGED up /\ \E s \in Steps : Goes("admin", s)
    BY <1>6 DEF Requests, RemoveRecords, RestoreMoves, MoveBegins, DeleteUnlinks, SetPipeline, requests
  <2> QED
    BY <2>1, GoesTo DEF Inv, KickInv
<1>7. CASE World
  BY <1>7 DEF World, HandPuts, HandDeletes, Settles, GraceEnds, Crash, requests, KickInv
<1>8. CASE UNCHANGED vars
  BY <1>8 DEF vars, requests, KickInv
<1> QED
  BY <1>1, <1>2, <1>3, <1>4, <1>5, <1>6, <1>7, <1>8 DEF Next, KickInv

(* Who kicks, finds the thread or starts it.                               *)
LEMMA KicksCome ==
  ASSUME Inv, NEW a \in {"upload", "admin"}, Kicks(a) PROVE Coming'
<1> USE TheActors, StepNames
<1>1. kick \in [running : BOOLEAN, again : BOOLEAN] /\ KickProcessing
  BY DEF Kicks, Inv, Typed
<1>2. kick.running <=> pc["kick"] # "idle"
  BY DEF Inv, Locked
<1>3. pc'["kick"] = IF kick.running THEN pc["kick"] ELSE "scan"
  BY DEF Kicks, Inv, Typed
<1>4. CASE kick.running
  <2>1. kick' = [kick EXCEPT !.again = TRUE]
    BY <1>1, <1>4 DEF KickProcessing
  <2>2. kick'.again
    BY <1>1, <2>1, Kicked
  <2> QED
    BY <1>2, <1>3, <1>4, <2>2 DEF Coming
<1>5. CASE ~kick.running
  BY <1>3, <1>5 DEF Coming
<1> QED
  BY <1>4, <1>5

(* A worker leaves with nothing pending, or goes on.                       *)
LEMMA WorkersCome ==
  ASSUME Inv, NEW w \in Workers, WorkerStep(w)
  PROVE  Coming' \/ (Pending(key)' = {})
<1> USE TheActors, StepNames
<1>1. CASE NoneLeft(w)
  <2>1. Pending(key) = {} /\ UNCHANGED <<index, display, key>>
    BY <1>1 DEF NoneLeft, library, copies
  <2> QED
    BY <2>1 DEF Pending, Indexed, IsPending, CopyFileExists
<1>2. CASE ~NoneLeft(w)
  <2>1. PICK s \in Steps \ {"idle", "ending"} : Goes(w, s)
    BY <1>2 DEF WorkerStep, ScanTakes, ScanEnds, AfterScan, TakesNext, Renders, WritesCopy, WriteFails,
       RecordsFailure, Commits, Releases
  <2>2. pc'[w] \notin {"idle", "ending"}
    BY <2>1, GoesTo DEF Inv
  <2> QED
    BY <2>2 DEF Coming, Workers
<1> QED
  BY <1>1, <1>2

LEMMA NextKick == Inv /\ KickInv /\ [Next]_vars => KickInv'
<1> SUFFICES ASSUME Inv, Typed, Locked, KickInv, [Next]_vars, Never({"hand", "crash", "remove"})'
             PROVE  /\ \A t \in Tokens : record'[t] = None
                    /\ pc'["admin"] \in {"idle", "move", "rekey", "kick"}
                    /\ Unkicked' => Coming'
  BY NextFiling DEF Inv, KickInv
<1> USE TheActors, StepNames
<1>k. /\ \A t \in Tokens : record[t] = None
      /\ pc["admin"] \in {"idle", "move", "rekey", "kick"}
      /\ Unkicked => Coming
  BY CountsGrow DEF Never, KickInv
<1> DEFINE Goal == /\ \A t \in Tokens : record'[t] = None
                   /\ pc'["admin"] \in {"idle", "move", "rekey", "kick"}
                   /\ Unkicked' => Coming'
<1>p. UNCHANGED <<index, display, key>> => Pending(key)' = Pending(key)
  BY DEF Pending, Indexed, IsPending, CopyFileExists
<1>1. ASSUME NEW w \in Workers, WorkerStep(w) PROVE Goal
  <2>1. record' = record /\ pc'["admin"] = pc["admin"]
    BY <1>1, WorkersStep DEF Quiet, trash
  <2> QED
    BY <1>k, <1>1, <2>1, WorkersCome DEF Unkicked
<1>2. CASE JobStarts
  <2>1. pc'["job"] = "scan" /\ record' = record /\ pc'["admin"] = pc["admin"]
    BY <1>2, GoesTo DEF JobStarts, library, trash
  <2> QED
    BY <1>k, <2>1 DEF Coming
<1>3. CASE KickEnds
  <2>1. /\ pc["kick"] = "ending" /\ pc'["kick"] = (IF kick.again THEN "scan" ELSE "idle")
        /\ \A b \in Actors : b # "kick" => pc'[b] = pc[b]
        /\ UNCHANGED <<index, display, key, record, up>>
    BY <1>3, GoesTo DEF KickEnds, library, copies, trash
  <2>2. Unkicked' => Unkicked
    BY <1>p, <2>1 DEF Unkicked
  <2>3. kick.again => Coming'
    BY <2>1 DEF Coming
  <2>4. ~kick.again /\ Coming => Coming'
    BY <2>1 DEF Coming
  <2> QED
    BY <1>k, <2>1, <2>2, <2>3, <2>4
<1>4. CASE UploadStep
  <2>1. record' = record /\ pc'["admin"] = pc["admin"]
    BY <1>4, UploadsStep DEF trash
  <2>2. CASE Kicks("upload")
    BY <1>k, <2>1, <2>2, KicksCome
  <2>3. CASE ~Kicks("upload")
    <3>1. CASE UploadChecks
      <4>1. pc["upload"] = "check" /\ (pc'["upload"] = "idle" => UNCHANGED up)
        BY <3>1, GoesTo DEF UploadChecks
      <4> QED
        BY <1>k, <2>1, <4>1 DEF KickInv, Unkicked
    <3>2. CASE UploadStores \/ ScanTakes("upload") \/ ScanEnds("upload")
      <4>1. pc'["upload"] # "idle"
        BY <3>2, GoesTo DEF UploadStores, ScanTakes, ScanEnds, AfterScan
      <4> QED
        BY <1>k, <2>1, <4>1 DEF Unkicked
    <3> QED
      BY <1>4, <2>3, <3>1, <3>2 DEF UploadStep
  <2> QED
    BY <2>2, <2>3
<1>5. CASE AdminStep
  <2>1. CASE Kicks("admin")
    <3>1. record' = record /\ pc'["admin"] = "idle"
      BY <2>1 DEF Kicks, library, trash, Typed
    <3> QED
      BY <1>k, <2>1, <3>1, KicksCome
  <2>2. CASE MoveMoves \/ MoveRekeys
    <3>1. /\ \A b \in Actors : b # "admin" => pc'[b] = pc[b]
          /\ pc["admin"] \in {"move", "rekey"} /\ pc'["admin"] \in {"idle", "rekey"}
          /\ UNCHANGED <<display, key, record, up, kick>>
      BY <2>2, GoesTo DEF MoveMoves, MoveRekeys, copies, trash
    <3>2. Pending(key)' # {} => Pending(key) # {}
      <4>1. CASE MoveMoves
        BY <1>p, <3>1, <4>1 DEF MoveMoves
      <4>2. CASE MoveRekeys
        <5>1. /\ op.place \in Places /\ op.to \in Places /\ op.to # op.place /\ index[op.place] # None
              /\ index' = [index EXCEPT ![op.to] = index[op.place], ![op.place] = None]
          BY <4>2 DEF MoveRekeys, Locked
        <5>2. /\ index'[op.to] = index[op.place] /\ index'[op.place] = None
              /\ \A p \in Places \ {op.place, op.to} : index'[p] = index[p]
          BY <5>1 DEF Typed
        <5>3. SUFFICES ASSUME NEW p \in Pending(key)' PROVE \E q \in Places : q \in Pending(key)
          OBVIOUS
        <5>4. PICK e : p \in Places /\ e = index'[p] /\ e # None /\ IsPending(e, key)'
          BY DEF Pending, Indexed
        <5>5. PICK q \in Places : index[q] = e
          BY <5>1, <5>2, <5>4
        <5>6. IsPending(e, key)
          BY <3>1, <5>4 DEF IsPending, CopyFileExists
        <5> QED
          BY <5>4, <5>5, <5>6 DEF Pending, Indexed
      <4> QED
        BY <2>2, <4>1, <4>2
    <3>3. Unkicked' => Unkicked
      BY <3>1, <3>2 DEF Unkicked
    <3>4. Coming => Coming'
      BY <3>1 DEF Coming
    <3> QED
      BY <1>k, <3>1, <3>3, <3>4
  <2>3. CASE ~Kicks("admin") /\ ~MoveMoves /\ ~MoveRekeys
    BY <1>k, <1>5, <2>3 DEF AdminStep, RemoveMoves, RemovePops, DropLooks, DropUnlinks, Dropped,
       RestoreUnrecords, DeleteUnrecords, ScanTakes, ScanEnds
  <2> QED
    BY <2>1, <2>2, <2>3
<1>6. ASSUME NEW c \in Contents, NEW p \in Places, BeginUpload(c, Album[p]) PROVE Goal
  <2>1. record' = record /\ pc'["admin"] = pc["admin"] /\ pc'["upload"] # "idle"
    BY <1>6, GoesTo DEF BeginUpload, library, trash
  <2> QED
    BY <1>k, <2>1 DEF Unkicked
<1>7. ASSUME NEW t \in Tokens PROVE ~DeleteUnlinks(t) /\ \A p \in Places : ~RestoreMoves(t, p)
  BY <1>k DEF DeleteUnlinks, RestoreMoves
<1>8. ASSUME NEW p \in Places, NEW t \in Tokens PROVE ~RemoveRecords(p, t)
  <2>1. RemoveRecords(p, t) => done'["remove"] > 0
    BY Counts DEF RemoveRecords, Begins
  <2> QED
    BY <2>1 DEF Never
<1>9. ASSUME NEW p \in Places, NEW q \in Places, MoveBegins(p, q) PROVE Goal
  <2>1. /\ \A b \in Actors : b # "admin" => pc'[b] = pc[b]
        /\ pc["admin"] = "idle" /\ pc'["admin"] = "move"
        /\ UNCHANGED <<index, display, key, record, up, kick>>
    BY <1>9, GoesTo DEF MoveBegins, Begins, library, copies, trash
  <2>2. Unkicked' => Unkicked
    BY <1>p, <2>1 DEF Unkicked
  <2>3. Coming => Coming'
    BY <2>1 DEF Coming
  <2> QED
    BY <1>k, <2>1, <2>2, <2>3
<1>10. ASSUME NEW k \in Keys, SetPipeline(k) PROVE Goal
  <2>1. record' = record /\ pc'["admin"] = "kick"
    BY <1>10, GoesTo DEF SetPipeline, trash
  <2> QED
    BY <1>k, <2>1 DEF Coming
<1>11. CASE Crash \/ \E p \in Places : (\E c \in Contents : HandPuts(p, c)) \/ HandDeletes(p)
  <2>1. done'["hand"] > 0 \/ done'["crash"] > 0
    BY <1>11, Counts DEF HandPuts, HandDeletes, Crash
  <2> QED
    BY <2>1 DEF Never
<1>12. CASE (\E p \in Places : Settles(p)) \/ (\E i \in Ids : GraceEnds(i)) \/ UNCHANGED vars
  <2>1. UNCHANGED <<index, display, key, record, up, pc, kick>>
    BY <1>12 DEF Settles, GraceEnds, vars, library, copies, trash, requests
  <2>2. (Unkicked' => Unkicked) /\ (Coming => Coming')
    BY <1>p, <2>1 DEF Unkicked, Coming
  <2> QED
    BY <1>k, <2>1, <2>2
<1>13. CASE Requests
  BY <1>6, <1>7, <1>8, <1>9, <1>10, <1>13 DEF Requests
<1>14. CASE World
  BY <1>11, <1>12, <1>14 DEF World
<1> QED
  BY <1>1, <1>2, <1>3, <1>4, <1>5, <1>12, <1>13, <1>14 DEF Next

(* A stored photo does not wait for the next minute's job.                 *)
THEOREM KicksAreKept == Spec => []KickNotLost
<1>1. KickInv => KickNotLost
  <2> SUFFICES ASSUME KickInv, pc["upload"] = "idle", up.place \in Pending(key),
                      Never({"hand", "crash", "remove"})
               PROVE  \E a \in Actors : pc[a] # "idle"
    BY DEF KickNotLost
  <2>1. up.place # None
    BY NoneIsNone DEF Pending, Indexed
  <2>2. Coming
    BY <2>1 DEF KickInv, Unkicked
  <2> QED
    BY <2>2, TheActors DEF Coming
<1> QED
  BY <1>1, InvHolds, InitKick, NextKick, PTL DEF Spec

-----------------------------------------------------------------------------
(* The folder and its entries                                              *)

(* An entry has a file, unless its photo is just being removed or moved,   *)
(* and a file on the move takes no other's place.                          *)
Filed ==
  /\ \A p \in Indexed : p \in Present \/ (pc["admin"] \in {"pop", "rekey"} /\ p = op.place)
  /\ \A a \in Actors : pc[a] = "scanning" => found.present = Present
  /\ pc["admin"] = "rekey" => index[op.to] = None /\ disk[op.to] # None

FiledInv == Never({"hand", "crash"}) => Filed

LEMMA InitFiled == Init => FiledInv
BY TheActors DEF Init, FiledInv, Filed, Indexed

LEMMA SameFiled ==
  ASSUME Inv, Filed, HashesKept, UNCHANGED <<disk, found>>,
         \A a \in Actors : pc'[a] = "scanning" => pc[a] = "scanning",
         pc["admin"] \in {"pop", "rekey"} => pc'["admin"] = pc["admin"] /\ UNCHANGED op,
         pc'["admin"] = "rekey" => pc["admin"] = "rekey"
  PROVE  Filed'
<1>1. pc["admin"] = "rekey" => op.to \in Places
  BY DEF Inv, Locked
<1>2. Present' = Present /\ Indexed' = Indexed
  BY DEF Present, Indexed, HashesKept
<1>3. pc'["admin"] = "rekey" => index'[op'.to] = None /\ disk'[op'.to] # None
  BY <1>1 DEF Filed, HashesKept
<1>4. \A p \in Indexed : p \in Present \/ (pc'["admin"] \in {"pop", "rekey"} /\ p = op'.place)
  BY DEF Filed
<1> QED
  BY <1>2, <1>3, <1>4 DEF Filed

LEMMA ScanFiled ==
  ASSUME Inv, Filed, NEW a \in Actors, ScanTakes(a) \/ ScanEnds(a)
  PROVE  /\ Filed'
         /\ ScanEnds(a) => \A p \in Places : index[p] # None => p \in found.present
<1> USE TheActors, StepNames
<1>1. CASE ScanTakes(a)
  <2>1. pc["admin"] \notin AdminSteps /\ pc[a] # "scanning"
    BY <1>1, StoreIsFree DEF ScanTakes
  <2>2. \A b \in Actors : pc'[b] = IF b = a THEN "scanning" ELSE pc[b]
    BY <1>1, GoesTo DEF ScanTakes, Inv
  <2>3. found'.present = Present /\ UNCHANGED <<disk, index>>
    BY <1>1 DEF ScanTakes
  <2>4. pc["admin"] \notin {"pop", "rekey"} /\ pc'["admin"] \notin {"pop", "rekey"}
    BY <2>1, <2>2 DEF AdminSteps
  <2>5. Present' = Present /\ Indexed' = Indexed /\ ~ScanEnds(a)
    BY <2>1, <2>3 DEF Present, Indexed, ScanEnds
  <2> QED
    BY <2>3, <2>4, <2>5 DEF Filed
<1>2. CASE ScanEnds(a)
  <2>1. pc[a] = "scanning" /\ store = a
    BY <1>2 DEF ScanEnds, Inv, Locked
  <2>2. pc["admin"] \notin {"pop", "rekey"}
    BY <2>1, StoreIsMine DEF AdminSteps
  <2>3. (\A b \in Actors : pc'[b] # "scanning") /\ pc'["admin"] \notin {"pop", "rekey"}
    <3>1. AfterScan(a) \in {"next", "check", "kick"}
      BY DEF AfterScan
    <3>2. \A b \in Actors : pc'[b] = IF b = a THEN AfterScan(a) ELSE pc[b]
      BY <1>2, <3>1, GoesTo DEF ScanEnds, Inv
    <3> QED
      BY <2>1, <2>2, <3>1, <3>2, StoreIsMine
  <2>4. found.present = Present
    BY <2>1 DEF Filed
  <2>5. disk' = disk /\ \A p \in Places : index'[p] = Scanned(p)
    BY <1>2 DEF ScanEnds, files
  <2>6. \A p \in Places : index'[p] # None => p \in Present
    BY <2>4, <2>5, ScannedIs DEF Inv, Typed
  <2> QED
    BY <2>2, <2>3, <2>4, <2>5, <2>6 DEF Filed, Present, Indexed
<1> QED
  BY <1>1, <1>2

LEMMA NextFiled == Inv /\ RoomInv /\ FiledInv /\ [Next]_vars => FiledInv'
<1> SUFFICES ASSUME Inv, Typed, Locked, RoomInv, FiledInv, [Next]_vars, Never({"hand", "crash"})' PROVE Filed'
  BY DEF Inv, FiledInv
<1> USE TheActors, StepNames
<1>k. Filed /\ Never({"hand"})
  BY CountsGrow DEF Never, FiledInv
<1>a. index' = index => HashesKept
  BY DEF HashesKept
<1>1. ASSUME NEW w \in Workers, WorkerStep(w) PROVE Filed'
  <2>1. CASE ScanTakes(w) \/ ScanEnds(w)
    BY <1>k, <2>1, ScanFiled
  <2>2. CASE ~ScanTakes(w) /\ ~ScanEnds(w)
    <3>1. HashesKept /\ UNCHANGED <<disk, found, op>>
      BY <1>1, <2>2, BuildsKeep, WorkersStep DEF Quiet, admin, files
    <3>2. \A b \in Actors : pc'[b] = "scanning" => pc[b] = "scanning"
      BY <1>1, <2>2, GoesTo DEF WorkerStep, TakesNext, NoneLeft, Renders, WritesCopy, WriteFails,
         RecordsFailure, Commits, Releases
    <3> QED
      BY <1>1, <1>k, <3>1, <3>2, WorkersStep, SameFiled
  <2> QED
    BY <2>1, <2>2
<1>2. CASE JobStarts \/ KickEnds
  <2>1. UNCHANGED <<index, found>>
    BY <1>2 DEF JobStarts, KickEnds, library
  <2>2. \A b \in Actors : pc'[b] = "scanning" => pc[b] = "scanning"
    BY <1>2, GoesTo DEF JobStarts, KickEnds
  <2> QED
    BY <1>a, <1>k, <1>2, <2>1, <2>2, JobStep, SameFiled DEF Quiet, admin
<1>3. CASE UploadStores
  <2>1. /\ store = "upload" /\ pc["upload"] = "store" /\ up.place \in Places /\ up.content \in Contents
        /\ disk' = [disk EXCEPT ![up.place] = up.content]
        /\ index' = [index EXCEPT ![up.place] = NewEntry(up.content)]
    BY <1>3 DEF UploadStores, Locked
  <2>2. \A b \in Actors : pc'[b] = IF b = "upload" THEN "kick" ELSE pc[b]
    BY <1>3, GoesTo DEF UploadStores
  <2>3. pc["admin"] \notin AdminSteps /\ \A b \in Actors : pc[b] # "scanning"
    BY <2>1, StoreIsMine
  <2>4. pc["admin"] \notin {"pop", "rekey"} /\ pc'["admin"] # "rekey" /\ \A b \in Actors : pc'[b] # "scanning"
    BY <2>2, <2>3 DEF AdminSteps
  <2>5. \A p \in Places : index'[p] # None => disk'[p] # None
    BY <1>k, <2>1, <2>4, NoneIsNone DEF Typed, Filed, Present, Indexed
  <2> QED
    BY <2>4, <2>5 DEF Filed, Present, Indexed
<1>4. CASE UploadChecks
  <2>1. UNCHANGED <<index, disk, found, op>>
    BY <1>4 DEF UploadChecks, library, files, admin
  <2>2. /\ \A b \in Actors : b # "upload" => pc'[b] = pc[b]
        /\ pc'["upload"] \in {"idle", "store"}
    BY <1>4, GoesTo DEF UploadChecks
  <2> QED
    BY <1>a, <1>k, <2>1, <2>2, SameFiled
<1>5. CASE Kicks("upload") \/ Kicks("admin")
  <2>1. UNCHANGED <<index, disk, found, op>>
    BY <1>5 DEF Kicks, library, files, admin
  <2>2. /\ \A b \in Actors : pc'[b] \in {"idle", "scan"} \/ pc'[b] = pc[b]
        /\ pc["admin"] \in {"pop", "rekey"} => pc'["admin"] = pc["admin"]
    BY <1>5 DEF Kicks, Typed
  <2> QED
    BY <1>a, <1>k, <2>1, <2>2, SameFiled
<1>6. ASSUME pc["admin"] \in AdminSteps PROVE \A b \in Actors : pc[b] # "scanning"
  BY <1>6, StoreIsMine DEF Locked, AdminSteps
<1>7. CASE RemoveMoves
  <2>1. op.place \in Places /\ pc["admin"] = "remove" /\ index' = index /\ index[op.place] # None
    BY <1>7 DEF RemoveMoves, Locked
  <2>2. disk[op.place] # None
    BY <1>k, <2>1 DEF Filed, Indexed, Present
  <2>3. disk' = [disk EXCEPT ![op.place] = None] /\ op' = op /\ pc'["admin"] = "pop"
        /\ \A b \in Actors : b # "admin" => pc'[b] = pc[b]
    BY <1>7, <2>2, GoesTo DEF RemoveMoves
  <2>4. \A b \in Actors : pc'[b] # "scanning"
    BY <1>6, <2>1, <2>3 DEF AdminSteps
  <2>5. \A p \in Places : index'[p] # None /\ p # op.place => disk'[p] # None
    BY <1>k, <2>1, <2>3 DEF Filed, Indexed, Present, Typed
  <2> QED
    BY <2>3, <2>4, <2>5 DEF Filed, Indexed, Present
<1>8. CASE RemovePops
  <2>1. op.place \in Places /\ pc["admin"] = "pop" /\ disk' = disk
        /\ index' = [index EXCEPT ![op.place] = None]
    BY <1>8 DEF RemovePops, Locked, files
  <2>2. pc'["admin"] = "drop" /\ \A b \in Actors : b # "admin" => pc'[b] = pc[b]
    BY <1>8, GoesTo DEF RemovePops
  <2>3. \A b \in Actors : pc'[b] # "scanning"
    BY <1>6, <2>1, <2>2 DEF AdminSteps
  <2>4. \A p \in Places : index'[p] # None => disk'[p] # None
    BY <1>k, <2>1 DEF Filed, Indexed, Present, Typed
  <2> QED
    BY <2>2, <2>3, <2>4 DEF Filed, Indexed, Present
<1>9. CASE MoveMoves
  <2>1. /\ op.place \in Places /\ op.to \in Places /\ op.to # op.place /\ pc["admin"] = "move"
        /\ index[op.place] # None /\ index' = index
    BY <1>9 DEF MoveMoves, Locked
  <2>2. disk[op.place] # None /\ disk[op.to] = None
    BY <1>k, <2>1 DEF Filed, Indexed, Present, RoomInv
  <2>3. /\ disk' = [disk EXCEPT ![op.to] = disk[op.place], ![op.place] = None] /\ op' = op
        /\ pc'["admin"] = "rekey" /\ \A b \in Actors : b # "admin" => pc'[b] = pc[b]
    BY <1>9, <2>2, GoesTo DEF MoveMoves
  <2>4. \A b \in Actors : pc'[b] # "scanning"
    BY <1>6, <2>1, <2>3 DEF AdminSteps
  <2>5. index[op.to] = None
    BY <1>k, <2>1, <2>2 DEF Filed, Indexed, Present
  <2>6. disk'[op.to] = disk[op.place] /\ \A p \in Places \ {op.place, op.to} : disk'[p] = disk[p]
    BY <2>1, <2>3 DEF Typed
  <2>7. \A p \in Places : index'[p] # None /\ p # op.place => disk'[p] # None
    BY <1>k, <2>1, <2>5, <2>6 DEF Filed, Indexed, Present
  <2> QED
    BY <2>1, <2>2, <2>3, <2>4, <2>5, <2>6, <2>7 DEF Filed, Indexed, Present
<1>10. CASE MoveRekeys
  <2>1. /\ op.place \in Places /\ op.to \in Places /\ op.to # op.place /\ pc["admin"] = "rekey"
        /\ index' = [index EXCEPT ![op.to] = index[op.place], ![op.place] = None] /\ disk' = disk
    BY <1>10 DEF MoveRekeys, Locked, files
  <2>2. pc'["admin"] = "idle" /\ \A b \in Actors : b # "admin" => pc'[b] = pc[b]
    BY <1>10, GoesTo DEF MoveRekeys
  <2>3. \A b \in Actors : pc'[b] # "scanning"
    BY <1>6, <2>1, <2>2 DEF AdminSteps
  <2>4. /\ index'[op.place] = None
        /\ \A p \in Places \ {op.place, op.to} : index'[p] = index[p]
    BY <2>1 DEF Typed
  <2>5. \A p \in Places : index'[p] # None => disk'[p] # None
    BY <1>k, <2>1, <2>4 DEF Filed, Indexed, Present
  <2> QED
    BY <2>2, <2>3, <2>5 DEF Filed, Indexed, Present
<1>11. CASE ScanTakes("admin") \/ ScanEnds("admin") \/ ScanTakes("upload") \/ ScanEnds("upload")
  BY <1>k, <1>11, ScanFiled
<1>12. CASE DropLooks \/ DropUnlinks \/ Dropped \/ RestoreUnrecords \/ DeleteUnrecords
  <2>1. UNCHANGED <<index, disk, found>>
    BY <1>12 DEF DropLooks, DropUnlinks, Dropped, RestoreUnrecords, DeleteUnrecords, library, files
  <2>2. pc["admin"] \notin {"pop", "rekey"}
    BY <1>12 DEF DropLooks, DropUnlinks, Dropped, RestoreUnrecords, DeleteUnrecords
  <2>3. /\ \A b \in Actors : b # "admin" => pc'[b] = pc[b]
        /\ pc'["admin"] \notin {"pop", "rekey", "scanning"}
    BY <1>12, GoesTo DEF DropLooks, DropUnlinks, Dropped, RestoreUnrecords, DeleteUnrecords
  <2> QED
    BY <1>a, <1>k, <2>1, <2>2, <2>3, SameFiled
<1>13. CASE Requests
  <2>1. pc["admin"] \notin {"pop", "rekey"}
    BY <1>13 DEF Requests, BeginUpload, RemoveRecords, RestoreMoves, MoveBegins, DeleteUnlinks, SetPipeline,
       Begins
  <2>2. \A b \in Actors : pc'[b] = pc[b] \/ pc'[b] \notin {"scanning", "pop", "rekey"}
    <3>1. \E a \in {"admin", "upload"}, s \in {"scan", "remove", "restored", "move", "unrecord", "kick"} : Goes(a, s)
      BY <1>13 DEF Requests, BeginUpload, RemoveRecords, RestoreMoves, MoveBegins, DeleteUnlinks, SetPipeline
    <3> QED
      BY <3>1, GoesTo
  <2>3. CASE \E p \in Places, t \in Tokens : RestoreMoves(t, p)
    <3>1. PICK q \in Places, t \in Tokens : RestoreMoves(t, q)
      BY <2>3
    <3>2. store = Nobody /\ index' = index /\ \A p \in Places : disk[p] # None => disk'[p] # None
      BY <3>1 DEF RestoreMoves, Begins, Typed
    <3>3. \A b \in Actors : pc'[b] # "scanning"
      BY <2>2, <3>2, StoreIsFree
    <3> QED
      BY <1>k, <2>1, <2>2, <3>2, <3>3 DEF Filed, Indexed, Present
  <2>4. CASE ~\E p \in Places, t \in Tokens : RestoreMoves(t, p)
    <3>1. UNCHANGED <<index, disk, found>>
      BY <1>13, <2>4 DEF Requests, BeginUpload, RemoveRecords, MoveBegins, DeleteUnlinks, SetPipeline, library,
         files
    <3> QED
      BY <1>a, <1>k, <2>1, <2>2, <3>1, SameFiled
  <2> QED
    BY <2>3, <2>4
<1>14. CASE Crash \/ \E p \in Places : (\E c \in Contents : HandPuts(p, c)) \/ HandDeletes(p)
  <2>1. done'["hand"] > 0 \/ done'["crash"] > 0
    BY <1>14, Counts DEF HandPuts, HandDeletes, Crash
  <2> QED
    BY <2>1 DEF Never
<1>15. CASE (\E p \in Places : Settles(p)) \/ (\E i \in Ids : GraceEnds(i)) \/ UNCHANGED vars
  <2>1. UNCHANGED <<index, disk, found, pc, op>>
    BY <1>15 DEF Settles, GraceEnds, vars, library, files, requests, admin
  <2> QED
    BY <1>a, <1>k, <2>1, SameFiled
<1>16. CASE UploadStep
  BY <1>3, <1>4, <1>5, <1>11, <1>16 DEF UploadStep
<1>17. CASE AdminStep
  BY <1>5, <1>7, <1>8, <1>9, <1>10, <1>11, <1>12, <1>17 DEF AdminStep
<1>18. CASE World
  BY <1>14, <1>15, <1>18 DEF World
<1> QED
  BY <1>1, <1>2, <1>13, <1>15, <1>16, <1>17, <1>18 DEF Next

-----------------------------------------------------------------------------
(* The copies                                                              *)

Shown(i) == \E p \in Places : index[p] # None /\ (index[p].copy = i \/ i \in index[p].retired)
Committing(i) == \E w \in Workers : pc[w] = "commit" /\ i = CopyId
Covered(i) == Shown(i) \/ i \in drops \cup {doomed} \/ Committing(i)

(* A removal drops what the entry of its photo has retired, and the copy   *)
(* its record names, or whoever builds a copy has no time for that photo.  *)
Taken == pc["admin"] \in {"remove", "pop"} =>
  /\ index[op.place].retired \subseteq drops \cup {record[op.token].copy}
  /\ index[op.place].copy = record[op.token].copy \/ pick.place # op.place

CopyInv == Never({"hand", "crash", "disk", "slow"}) =>
  /\ \A i \in fresh : display[i] # None => Covered(i)
  /\ Taken

LEMMA InitCopies == Init => CopyInv
BY TheActors DEF Init, CopyInv, Taken

EntriesKept == \A p \in Places : index[p] # None =>
  index'[p] # None /\ index'[p].copy = index[p].copy /\ index'[p].retired = index[p].retired

LEMMA StillCovered ==
  ASSUME EntriesKept, NEW i \in Ids, Covered(i), drops \subseteq drops', doomed' = doomed,
         \A w \in Workers : pc[w] = "commit" => pc'[w] = "commit" /\ UNCHANGED pick
  PROVE  Covered(i)'
<1>1. Shown(i) => Shown(i)'
  BY DEF Shown, EntriesKept
<1>2. Committing(i) => Committing(i)'
  BY DEF Committing, CopyId
<1> QED
  BY <1>1, <1>2 DEF Covered

LEMMA SameTaken ==
  ASSUME Inv, Taken, EntriesKept, pick'.place \in {pick.place, None},
         pc'["admin"] \in {"remove", "pop"} =>
           pc["admin"] \in {"remove", "pop"} /\ UNCHANGED <<op, drops, record>>
  PROVE  Taken'
<1>1. pc["admin"] \in {"remove", "pop"} => op.place \in Places /\ index[op.place] # None /\ op.place # None
  BY NoneIsNone DEF Inv, Locked
<1> QED
  BY <1>1 DEF Taken, EntriesKept

(* What building a copy leaves of the entries, but for the commit.         *)
LEMMA BuildsKeepEntries ==
  ASSUME Inv, NEW w \in Workers, WorkerStep(w), ~ScanTakes(w), ~ScanEnds(w), ~Commits(w)
  PROVE  EntriesKept
<1>1. CASE RecordsFailure(w)
  <2>1. pc[w] \in WorkSteps
    BY <1>1 DEF RecordsFailure, WorkSteps
  <2>2. pick.place \in Places /\ pick.key \in Keys
    BY <2>1 DEF Inv, Locked
  <2>3. SameFile => index[pick.place] \in Entries
    BY <2>2 DEF SameFile, Inv, Typed
  <2>4. SameFile => index' = [index EXCEPT ![pick.place] = Failed(index[pick.place], pick.key)]
    BY <1>1 DEF RecordsFailure, Failed
  <2>5. SameFile => /\ Failed(index[pick.place], pick.key) # None
                    /\ Failed(index[pick.place], pick.key).copy = index[pick.place].copy
                    /\ Failed(index[pick.place], pick.key).retired = index[pick.place].retired
    BY <2>2, <2>3, FailedIs
  <2>6. ~SameFile => index' = index
    BY <1>1 DEF RecordsFailure
  <2> QED
    BY <2>2, <2>4, <2>5, <2>6 DEF EntriesKept, Inv, Typed
<1>2. CASE ~RecordsFailure(w)
  <2>1. index' = index
    BY <1>2 DEF WorkerStep, TakesNext, NoneLeft, Renders, WritesCopy, WriteFails, library
  <2> QED
    BY <2>1 DEF EntriesKept
<1> QED
  BY <1>1, <1>2

(* What a commit replaces, another photo may still show.                   *)
LEMMA ReplacedIs ==
  ASSUME Typed, pick.place \in Places, index[pick.place] \in Entries, CopyId \in Ids, NEW i \in Ids
  PROVE  /\ i \in Replaced(index[pick.place]) => i = index[pick.place].copy /\ i # CopyId
         /\ i = index[pick.place].copy /\ i \notin Replaced(index[pick.place]) =>
              i = CopyId \/ \E q \in Places : q # pick.place /\ index[q] # None /\ index[q].copy = i
<1> DEFINE idx == [index EXCEPT ![pick.place].copy = CopyId]
<1>1. /\ idx[pick.place].copy = CopyId
      /\ \A q \in Places : q # pick.place => idx[q] = index[q]
  BY DEF Entries, Typed
<1>2. Replaced(index[pick.place]) = ({index[pick.place].copy} \ {None, CopyId}) \ ReferencedIn(idx)
  BY DEF Replaced
<1> HIDE DEF idx
<1>3. i \in ReferencedIn(idx) =>
        i = CopyId \/ \E q \in Places : q # pick.place /\ index[q] # None /\ index[q].copy = i
  BY <1>1 DEF ReferencedIn
<1> QED
  BY <1>2, <1>3, NoneIsNone

(* The entry of the photo a copy was built for, before and after.          *)
LEMMA CommitIs ==
  ASSUME Inv, NEW w \in Workers, Commits(w), SameFile
  PROVE  /\ pick.place \in Places /\ CopyId \in Ids
         /\ index[pick.place] \in Entries /\ index[pick.place] # None
         /\ index'[pick.place] # None /\ index'[pick.place].copy = CopyId
         /\ index'[pick.place].retired =
              IF index[pick.place].copy \in {None, CopyId} THEN index[pick.place].retired
              ELSE (index[pick.place].retired \cap fresh) \cup Replaced(index[pick.place])
         /\ \A q \in Places : q # pick.place => index'[q] = index[q]
         /\ fresh' = fresh \cup Replaced(index[pick.place]) /\ display' = display
<1>1. pc[w] \in WorkSteps
  BY DEF Commits, WorkSteps
<1>2. pick.place \in Places /\ CopyId \in Ids
  BY <1>1, CopyIdIs DEF Inv, Locked
<1>3. index[pick.place] \in Entries /\ index[pick.place] # None
  BY <1>2 DEF SameFile, Inv, Typed
<1>4. index' = [index EXCEPT ![pick.place] = Installed(index[pick.place])]
  BY DEF Commits
<1>5. fresh' = fresh \cup Replaced(index[pick.place]) /\ display' = display
  BY DEF Commits
<1>6. index'[pick.place] = Installed(index[pick.place])
      /\ \A q \in Places : q # pick.place => index'[q] = index[q]
  BY <1>2, <1>4 DEF Inv, Typed
<1> QED
  BY <1>2, <1>3, <1>5, <1>6, InstalledIs DEF Inv

LEMMA NextTaken ==
  ASSUME Inv, Taken, [Next]_vars, done'["slow"] = 0
  PROVE  Taken'
<1> USE TheActors, StepNames
<1>t. Typed /\ Locked
  BY DEF Inv
<1>a. index' = index => EntriesKept
  BY DEF EntriesKept
<1>1. ASSUME NEW a \in Actors, ScanTakes(a) \/ ScanEnds(a) PROVE Taken'
  <2>1. pc["admin"] \notin AdminSteps
    <3>1. CASE ScanTakes(a)
      BY <3>1, StoreIsFree DEF ScanTakes
    <3>2. CASE ScanEnds(a)
      <4>1. pc[a] = "scanning" /\ store = a
        BY <3>2, <1>t DEF ScanEnds, Locked
      <4> QED
        BY <4>1, StoreIsMine DEF AdminSteps
    <3> QED
      BY <1>1, <3>1, <3>2
  <2>2. \E s \in {"scanning", "next", "check", "kick"} : Goes(a, s)
    BY <1>1 DEF ScanTakes, ScanEnds, AfterScan
  <2>3. pc'["admin"] \notin {"remove", "pop"}
    BY <1>t, <2>1, <2>2, GoesTo DEF AdminSteps
  <2> QED
    BY <2>3 DEF Taken
<1>2. ASSUME NEW w \in Workers, Commits(w), SameFile PROVE Taken'
  <2>1. pick'.place = None /\ WorkerStep(w)
    BY <1>2 DEF Commits, Releases, NoPick, WorkerStep
  <2>2. pc'["admin"] = pc["admin"] /\ UNCHANGED <<op, drops, record>>
    BY <2>1, WorkersStep DEF Quiet, admin, trash
  <2>3. SUFFICES ASSUME pc["admin"] \in {"remove", "pop"}
                 PROVE  index'[op.place].retired \subseteq drops \cup {record[op.token].copy}
                        /\ op.place # None
    BY <2>1, <2>2 DEF Taken
  <2>4. op.place \in Places /\ op.place # None
    BY <1>t, <2>3, NoneIsNone DEF Locked
  <2>5. CASE op.place # pick.place
    BY <1>2, <2>3, <2>4, <2>5, CommitIs DEF Taken
  <2>6. CASE op.place = pick.place
    <3>1. Replaced(index[pick.place]) \subseteq {index[pick.place].copy}
      BY DEF Replaced
    <3> QED
      BY <1>2, <2>3, <2>4, <2>6, <3>1, CommitIs DEF Taken
  <2> QED
    BY <2>5, <2>6
<1>3. ASSUME NEW w \in Workers, TakesNext(w) PROVE Taken'
  <2>1. WorkerStep(w) /\ index' = index
    BY <1>3 DEF WorkerStep, TakesNext, library
  <2>2. pc'["admin"] = pc["admin"] /\ UNCHANGED <<op, drops, record>>
    BY <2>1, WorkersStep DEF Quiet, admin, trash
  <2>3. pc["admin"] \in {"remove", "pop"} => pick'.place # op.place
    <3>1. SUFFICES ASSUME pc["admin"] \in {"remove", "pop"}, pick'.place = op.place PROVE Happens("slow")
      BY <1>t, Counts
    <3> QED
      BY <1>3, <3>1 DEF TakesNext
  <2> QED
    BY <2>1, <2>2, <2>3 DEF Taken
<1>4. ASSUME NEW w \in Workers, WorkerStep(w) PROVE Taken'
  <2>1. CASE ~ScanTakes(w) /\ ~ScanEnds(w) /\ ~TakesNext(w) /\ ~(Commits(w) /\ SameFile)
    <3>1. EntriesKept
      <4>1. CASE Commits(w)
        BY <1>a, <2>1, <4>1 DEF Commits
      <4>2. CASE ~Commits(w)
        BY <1>4, <2>1, <4>2, BuildsKeepEntries
      <4> QED
        BY <4>1, <4>2
    <3>2. pick'.place \in {pick.place, None}
      BY <1>4, <1>t, <2>1 DEF WorkerStep, NoneLeft, Renders, WritesCopy, WriteFails, RecordsFailure, Commits,
         Releases, NoPick, worker, Typed
    <3> QED
      BY <1>4, <3>1, <3>2, WorkersStep, SameTaken DEF Quiet, admin, trash
  <2> QED
    BY <1>1, <1>2, <1>3, <2>1
<1>5. CASE JobStarts \/ KickEnds
  <2>1. UNCHANGED <<index, pick>>
    BY <1>5 DEF JobStarts, KickEnds, library, worker
  <2> QED
    BY <1>a, <1>5, <2>1, JobStep, SameTaken DEF Quiet, admin, trash
<1>6. CASE UploadStores
  <2>1. store = "upload" /\ pc'["admin"] = pc["admin"]
    BY <1>6, <1>t, GoesTo DEF UploadStores, Locked
  <2>2. pc["admin"] \notin AdminSteps
    BY <2>1, StoreIsMine
  <2> QED
    BY <2>1, <2>2 DEF Taken, AdminSteps
<1>7. CASE UploadChecks \/ Kicks("upload")
  <2>1. UNCHANGED <<index, pick>> /\ UploadStep
    BY <1>7 DEF UploadChecks, Kicks, library, worker, UploadStep
  <2> QED
    BY <1>a, <2>1, UploadsStep, SameTaken DEF admin, trash
<1>8. CASE RemoveMoves
  <2>1. pc["admin"] = "remove" /\ UNCHANGED <<index, pick>>
    BY <1>8 DEF RemoveMoves, worker
  <2>2. pc'["admin"] \in {"remove", "pop"} => UNCHANGED <<op, drops, record>>
    BY <1>8, <1>t, GoesTo DEF RemoveMoves
  <2> QED
    BY <1>a, <2>1, <2>2, SameTaken
<1>9. CASE AdminStep /\ ~RemoveMoves
  <2>1. pc'["admin"] \notin {"remove", "pop"}
    <3>1. CASE Kicks("admin")
      BY <1>t, <3>1 DEF Kicks, Typed
    <3>2. CASE DropLooks
      BY <1>t, <3>2, GoesTo DEF DropLooks
    <3>3. CASE ScanTakes("admin") \/ ScanEnds("admin")
      BY <1>t, <3>3, GoesTo DEF ScanTakes, ScanEnds, AfterScan
    <3>4. CASE RemovePops \/ DropUnlinks \/ Dropped \/ DeleteUnrecords
      BY <1>t, <3>4, GoesTo DEF RemovePops, DropUnlinks, Dropped, DeleteUnrecords
    <3>5. CASE MoveMoves \/ MoveRekeys \/ RestoreUnrecords
      BY <1>t, <3>5, GoesTo DEF MoveMoves, MoveRekeys, RestoreUnrecords
    <3> QED
      BY <1>9, <3>1, <3>2, <3>3, <3>4, <3>5 DEF AdminStep
  <2> QED
    BY <2>1 DEF Taken
<1>10. ASSUME NEW p \in Places, NEW t \in Tokens, RemoveRecords(p, t) PROVE Taken'
  <2>1. /\ op'.place = p /\ op'.token = t /\ drops' = index[p].retired /\ index' = index
        /\ record' = [record EXCEPT ![t] = [album |-> Album[p], copy |-> index[p].copy]]
    BY <1>10 DEF RemoveRecords, NoOp
  <2>2. record'[t].copy = index[p].copy
    BY <1>t, <2>1 DEF Typed
  <2> QED
    BY <2>1, <2>2 DEF Taken
<1>11. CASE Requests /\ ~\E p \in Places, t \in Tokens : RemoveRecords(p, t)
  <2>1. pc["admin"] = "idle"
    BY <1>11 DEF Requests, BeginUpload, RestoreMoves, MoveBegins, DeleteUnlinks, SetPipeline, Begins
  <2>2. \E a \in {"admin", "upload"}, s \in {"scan", "restored", "move", "unrecord", "kick"} : Goes(a, s)
    BY <1>11 DEF Requests, BeginUpload, RestoreMoves, MoveBegins, DeleteUnlinks, SetPipeline
  <2>3. pc'["admin"] \notin {"remove", "pop"}
    BY <1>t, <2>1, <2>2, GoesTo
  <2> QED
    BY <2>3 DEF Taken
<1>12. CASE World /\ ~Crash
  <2>1. UNCHANGED <<index, pick, op, drops, record, pc>>
    BY <1>12 DEF World, HandPuts, HandDeletes, Settles, GraceEnds, trash, worker, requests, admin
  <2> QED
    BY <1>a, <2>1, SameTaken
<1>13. CASE Crash
  BY <1>13 DEF Crash, Taken
<1>14. CASE UNCHANGED vars
  BY <1>a, <1>14, SameTaken DEF vars, library, trash, worker, requests, admin
<1>15. CASE UploadStep
  BY <1>1, <1>6, <1>7, <1>15 DEF UploadStep
<1>16. CASE Requests
  BY <1>10, <1>11, <1>16
<1> QED
  BY <1>4, <1>5, <1>8, <1>9, <1>12, <1>13, <1>14, <1>15, <1>16 DEF Next

LEMMA NextCovered ==
  ASSUME Inv, RoomInv, Filed, Taken, [Next]_vars, Never({"hand"}),
         \A e \in {"hand", "crash", "disk"} : done'[e] = 0,
         \A j \in fresh : display[j] # None => Covered(j),
         NEW i \in fresh', display'[i] # None
  PROVE  Covered(i)'
<1> USE TheActors, StepNames, NoneIsNone
<1>t. Typed /\ Locked
  BY DEF Inv
<1>i. i \in Ids
  BY NextInv DEF Inv, Typed
<1>0. i \in fresh /\ display[i] # None => Covered(i)
  OBVIOUS
<1>a. index' = index => EntriesKept
  BY DEF EntriesKept
<1>b. ASSUME NEW w \in Workers, pc[w] \in WorkSteps
      PROVE  \A v \in Workers : pc[v] = "commit" => v = w
  BY <1>b, <1>t DEF Locked, WorkSteps
(* Scans.                                                                  *)
<1>1. ASSUME NEW a \in Actors, ScanTakes(a) \/ ScanEnds(a) PROVE Covered(i)'
  <2>1. \A w \in Workers : pc[w] = "commit" => pc'[w] = "commit"
    <3>1. \E s \in {"scanning", "next", "check", "kick"} : Goes(a, s)
      BY <1>1 DEF ScanTakes, ScanEnds, AfterScan
    <3>2. pc[a] # "commit"
      BY <1>1 DEF ScanTakes, ScanEnds
    <3> QED
      BY <1>t, <3>1, <3>2, GoesTo
  <2>2. UNCHANGED <<fresh, pick, drops, doomed>>
    BY <1>1 DEF ScanTakes, ScanEnds, copies, worker, requests, admin
  <2>3. CASE ScanTakes(a)
    BY <1>0, <1>a, <1>i, <2>1, <2>2, <2>3, StillCovered DEF ScanTakes, copies
  <2>4. CASE ScanEnds(a)
    <3>1. display[i] = display'[i]
      BY <1>i, <2>2, <2>4 DEF ScanEnds, Swept
    <3>2. \A p \in Places : index'[p] = Scanned(p)
      BY <2>4 DEF ScanEnds
    <3>3. \A p \in Places : index[p] # None => p \in found.present
      BY <2>4, ScanFiled
    <3>4. EntriesKept
      BY <1>t, <3>2, <3>3, ScannedIs DEF EntriesKept
    <3> QED
      BY <1>0, <1>i, <2>1, <2>2, <3>1, <3>4, StillCovered
  <2> QED
    BY <1>1, <2>3, <2>4
(* A copy is built.                                                        *)
<1>2. ASSUME NEW w \in Workers, WritesCopy(w) PROVE Covered(i)'
  <2>1. pc[w] = "write" /\ pc'[w] = "commit" /\ \A b \in Actors : b # w => pc'[b] = pc[b]
    BY <1>2, <1>t, GoesTo DEF WritesCopy
  <2>2. /\ display' = [display EXCEPT ![CopyId] = pick.picture] /\ fresh' = fresh \cup {CopyId}
        /\ UNCHANGED <<index, pick, drops, doomed>>
    BY <1>2 DEF WritesCopy, worker, requests, admin
  <2>3. CASE i = CopyId
    BY <2>1, <2>2, <2>3 DEF Covered, Committing, CopyId
  <2>4. CASE i # CopyId
    <3>1. i \in fresh /\ display[i] # None
      BY <1>i, <1>t, <2>2, <2>4 DEF Typed
    <3> QED
      BY <1>0, <1>a, <1>i, <2>1, <2>2, <3>1, StillCovered
  <2> QED
    BY <2>3, <2>4
<1>3. ASSUME NEW w \in Workers PROVE ~WriteFails(w)
  <2>1. WriteFails(w) => done'["disk"] > 0
    BY <1>t, Counts DEF WriteFails
  <2> QED
    BY <2>1
<1>4. ASSUME NEW w \in Workers, Commits(w) PROVE Covered(i)'
  <2>1. pc[w] = "commit" /\ WorkerStep(w)
    BY <1>4 DEF Commits, WorkerStep
  <2>2. UNCHANGED <<drops, doomed>>
    BY <2>1, WorkersStep DEF Quiet, admin
  <2>3. CASE SameFile
    <3> DEFINE entry == index[pick.place]
    <3>1. /\ pick.place \in Places /\ CopyId \in Ids /\ entry \in Entries /\ entry # None
          /\ index'[pick.place] # None /\ index'[pick.place].copy = CopyId
          /\ index'[pick.place].retired =
               IF entry.copy \in {None, CopyId} THEN entry.retired
               ELSE (entry.retired \cap fresh) \cup Replaced(entry)
          /\ \A q \in Places : q # pick.place => index'[q] = index[q]
          /\ fresh' = fresh \cup Replaced(entry) /\ display' = display
      BY <1>4, <2>3, CommitIs
    <3>2. /\ i \in Replaced(entry) => i = entry.copy /\ i # CopyId
          /\ i = entry.copy /\ i \notin Replaced(entry) =>
              i = CopyId \/ \E q \in Places : q # pick.place /\ index[q] # None /\ index[q].copy = i
      BY <1>i, <1>t, <3>1, ReplacedIs
    <3> HIDE DEF entry
    <3>3. CASE i = CopyId
      BY <3>1, <3>3 DEF Covered, Shown
    <3>4. CASE i \in Replaced(entry)
      <4>1. i \in index'[pick.place].retired
        BY <1>i, <3>1, <3>2, <3>4
      <4> QED
        BY <3>1, <4>1 DEF Covered, Shown
    <3>5. CASE i # CopyId /\ i \notin Replaced(entry)
      <4>1. Covered(i) /\ i \in fresh
        BY <1>0, <3>1, <3>5
      <4>2. CASE i \in drops \cup {doomed}
        BY <2>2, <4>2 DEF Covered
      <4>3. CASE Shown(i)
        <5>1. PICK p \in Places : index[p] # None /\ (index[p].copy = i \/ i \in index[p].retired)
          BY <4>3 DEF Shown
        <5>2. CASE p # pick.place
          BY <3>1, <5>1, <5>2 DEF Covered, Shown
        <5>3. CASE p = pick.place /\ i \in entry.retired
          <6>1. i \in index'[pick.place].retired
            BY <3>1, <4>1, <5>3
          <6> QED
            BY <3>1, <6>1 DEF Covered, Shown
        <5>4. CASE p = pick.place /\ i = entry.copy
          <6>1. PICK q \in Places : q # pick.place /\ index[q] # None /\ index[q].copy = i
            BY <3>2, <3>5, <5>4
          <6> QED
            BY <3>1, <6>1 DEF Covered, Shown
        <5> QED
          BY <5>1, <5>2, <5>3, <5>4 DEF entry
      <4>4. ~Committing(i)
        BY <3>5 DEF Committing
      <4> QED
        BY <4>1, <4>2, <4>3, <4>4 DEF Covered
    <3> QED
      BY <3>3, <3>4, <3>5
  <2>4. CASE ~SameFile
    <3>1. /\ index' = index /\ fresh' = fresh
          /\ display' = IF CopyId \in Referenced THEN display ELSE [display EXCEPT ![CopyId] = None]
      BY <1>4, <2>4 DEF Commits, DropIfUnused
    <3>2. CASE i = CopyId
      <4>1. i \in Referenced
        BY <1>i, <1>t, <3>1, <3>2 DEF Typed
      <4> QED
        BY <3>1, <4>1 DEF Referenced, ReferencedIn, Covered, Shown
    <3>3. CASE i # CopyId
      <4>1. Covered(i) /\ ~Committing(i)
        BY <1>0, <1>i, <1>t, <3>1, <3>3 DEF Typed, Committing
      <4> QED
        BY <2>2, <3>1, <4>1 DEF Covered, Shown
    <3> QED
      BY <3>2, <3>3
  <2> QED
    BY <2>3, <2>4
<1>5. ASSUME NEW w \in Workers, TakesNext(w) \/ NoneLeft(w) \/ Renders(w) \/ RecordsFailure(w)
      PROVE  Covered(i)'
  <2>1. WorkerStep(w) /\ ~ScanTakes(w) /\ ~ScanEnds(w) /\ ~Commits(w)
    BY <1>5 DEF WorkerStep, TakesNext, NoneLeft, Renders, RecordsFailure, ScanTakes, ScanEnds, Commits
  <2>2. EntriesKept /\ UNCHANGED <<drops, doomed, fresh, display>>
    BY <1>5, <2>1, BuildsKeepEntries, WorkersStep DEF Quiet, admin, TakesNext, NoneLeft, Renders,
       RecordsFailure, library, copies
  <2>3. \A v \in Workers : pc[v] # "commit" \/ NoneLeft(w)
    <3>1. CASE TakesNext(w)
      BY <1>t, <3>1 DEF TakesNext, Locked, WorkSteps
    <3>2. CASE Renders(w) \/ RecordsFailure(w)
      <4>1. pc[w] \in {"render", "fail"}
        BY <3>2 DEF Renders, RecordsFailure
      <4> QED
        BY <1>b, <4>1 DEF WorkSteps
    <3> QED
      BY <1>5, <3>1, <3>2
  <2>4. NoneLeft(w) => pick' = pick /\ \A v \in Workers : pc[v] = "commit" => pc'[v] = "commit"
    BY <1>t, GoesTo DEF NoneLeft, worker
  <2> QED
    BY <1>0, <1>i, <2>2, <2>3, <2>4, StillCovered
<1>6. ASSUME NEW w \in Workers, WorkerStep(w) PROVE Covered(i)'
  BY <1>1, <1>2, <1>3, <1>4, <1>5, <1>6 DEF WorkerStep
(* The others leave the builders alone.                                    *)
<1>c. ASSUME NEW a \in Actors \ Workers, NEW s \in Steps, Goes(a, s)
      PROVE  \A w \in Workers : pc[w] = "commit" => pc'[w] = "commit"
  BY <1>c, <1>t, GoesTo
<1>d. ASSUME EntriesKept, UNCHANGED <<fresh, display, pick, doomed>>, drops \subseteq drops',
             \A w \in Workers : pc[w] = "commit" => pc'[w] = "commit"
      PROVE  Covered(i)'
  BY <1>0, <1>i, <1>d, StillCovered
<1>7. CASE JobStarts \/ KickEnds
  <2>1. UNCHANGED <<index, fresh, display, pick, doomed, drops>>
    BY <1>7 DEF JobStarts, KickEnds, library, copies, worker, requests, admin
  <2>2. \A w \in Workers : pc[w] = "commit" => pc'[w] = "commit"
    BY <1>7, <1>t, GoesTo DEF JobStarts, KickEnds
  <2> QED
    BY <1>a, <1>d, <2>1, <2>2
<1>8. CASE Kicks("upload") \/ Kicks("admin")
  <2>1. UNCHANGED <<index, fresh, display, pick, doomed, drops>>
    BY <1>8 DEF Kicks, library, copies, worker, admin
  <2>2. \A w \in Workers : pc[w] = "commit" => pc'[w] = "commit"
    BY <1>8, <1>t DEF Kicks, Typed, Locked
  <2> QED
    BY <1>a, <1>d, <2>1, <2>2
<1>9. CASE UploadStores
  <2>1. /\ store = "upload" /\ up.place \in Places /\ disk[up.place] = None
        /\ index' = [index EXCEPT ![up.place] = NewEntry(up.content)]
        /\ UNCHANGED <<fresh, display, pick, doomed, drops>> /\ Goes("upload", "kick")
    BY <1>9, <1>t DEF UploadStores, Locked, RoomInv, copies, worker, requests, admin
  <2>2. pc["admin"] \notin {"pop", "rekey"}
    BY <2>1, StoreIsMine DEF AdminSteps
  <2>3. index[up.place] = None
    BY <2>1, <2>2 DEF Filed, Indexed, Present
  <2>4. EntriesKept
    BY <1>t, <2>1, <2>3 DEF EntriesKept, Typed
  <2> QED
    BY <1>c, <1>d, <2>1, <2>4
<1>10. CASE UploadChecks
  <2>1. UNCHANGED <<index, fresh, display, pick, doomed, drops>> /\ \E s \in Steps : Goes("upload", s)
    BY <1>10 DEF UploadChecks, library, copies, worker, admin
  <2> QED
    BY <1>a, <1>c, <1>d, <2>1
<1>11. CASE RemoveMoves
  <2>1. op.place \in Places /\ index[op.place] # None /\ pc["admin"] = "remove"
    BY <1>11, <1>t DEF RemoveMoves, Locked
  <2>2. disk[op.place] # None
    BY <2>1 DEF Filed, Indexed, Present
  <2>3. UNCHANGED <<index, fresh, display, pick, doomed, drops>> /\ Goes("admin", "pop")
    BY <1>11, <2>2 DEF RemoveMoves, copies, worker
  <2> QED
    BY <1>a, <1>c, <1>d, <2>3
<1>12. CASE RemovePops
  <2>1. /\ op.place \in Places /\ index[op.place] # None /\ pc["admin"] = "pop"
        /\ drops' = drops \cup ({record[op.token].copy, index[op.place].copy} \ {None})
        /\ index' = [index EXCEPT ![op.place] = None]
        /\ UNCHANGED <<fresh, display, pick, doomed>> /\ Goes("admin", "drop")
    BY <1>12, <1>t DEF RemovePops, Locked, copies, worker, CopiesOf
  <2>2. Covered(i)
    BY <1>0, <2>1
  <2>3. CASE Shown(i)
    <3>1. PICK p \in Places : index[p] # None /\ (index[p].copy = i \/ i \in index[p].retired)
      BY <2>3 DEF Shown
    <3>2. CASE p = op.place
      <4>1. i \in drops'
        BY <1>i, <2>1, <3>1, <3>2 DEF Taken
      <4> QED
        BY <4>1 DEF Covered
    <3>3. CASE p # op.place
      <4>1. index'[p] = index[p]
        BY <1>t, <2>1, <3>3 DEF Typed
      <4> QED
        BY <3>1, <4>1 DEF Covered, Shown
    <3> QED
      BY <3>2, <3>3
  <2>4. CASE i \in drops \cup {doomed}
    BY <2>1, <2>4 DEF Covered
  <2>5. CASE Committing(i)
    <3>1. \A w \in Workers : pc[w] = "commit" => pc'[w] = "commit"
      BY <1>c, <2>1
    <3> QED
      BY <2>1, <2>5, <3>1 DEF Covered, Committing, CopyId
  <2> QED
    BY <2>2, <2>3, <2>4, <2>5 DEF Covered
<1>13. CASE DropLooks
  <2>1. PICK id \in drops : /\ drops' = drops \ {id}
                             /\ IF id \in Referenced
                                THEN UNCHANGED <<doomed, pc>>
                                ELSE doomed' = id /\ Goes("admin", "unlink")
    BY <1>13 DEF DropLooks
  <2>2. UNCHANGED <<index, fresh, display, pick>> /\ doomed = None
    BY <1>13, <1>t DEF DropLooks, library, copies, worker, Locked
  <2>3. Covered(i)
    BY <1>0, <2>2
  <2>4. CASE Shown(i)
    BY <2>2, <2>4 DEF Covered, Shown
  <2>5. CASE Committing(i)
    <3>1. \A w \in Workers : pc[w] = "commit" => pc'[w] = "commit"
      BY <1>c, <2>1
    <3> QED
      BY <2>2, <2>5, <3>1 DEF Covered, Committing, CopyId
  <2>6. CASE i \in drops /\ i # id
    BY <2>1, <2>6 DEF Covered
  <2>7. CASE i = id
    <3>1. CASE id \in Referenced
      BY <2>2, <2>7, <3>1 DEF Referenced, ReferencedIn, Covered, Shown
    <3>2. CASE id \notin Referenced
      BY <2>1, <2>7, <3>2 DEF Covered
    <3> QED
      BY <3>1, <3>2
  <2> QED
    BY <1>i, <2>2, <2>3, <2>4, <2>5, <2>6, <2>7 DEF Covered
<1>14. CASE DropUnlinks
  <2>1. /\ display' = [display EXCEPT ![doomed] = None] /\ UNCHANGED <<index, fresh, pick, drops>>
        /\ Goes("admin", "drop")
    BY <1>14 DEF DropUnlinks, worker
  <2>2. i # doomed /\ display[i] # None
    BY <1>i, <1>t, <2>1 DEF Typed
  <2>3. Covered(i)
    BY <1>0, <2>1, <2>2
  <2>4. \A w \in Workers : pc[w] = "commit" => pc'[w] = "commit"
    BY <1>c, <2>1
  <2> QED
    BY <2>1, <2>2, <2>3, <2>4 DEF Covered, Shown, Committing, CopyId
<1>15. CASE MoveRekeys
  <2>1. /\ op.place \in Places /\ op.to \in Places /\ op.to # op.place /\ pc["admin"] = "rekey"
        /\ index' = [index EXCEPT ![op.to] = index[op.place], ![op.place] = None]
        /\ UNCHANGED <<fresh, display, pick, drops, doomed>> /\ Goes("admin", "idle")
    BY <1>15, <1>t DEF MoveRekeys, Locked, copies, worker
  <2>2. Covered(i) /\ index[op.to] = None
    BY <1>0, <2>1 DEF Filed
  <2>3. CASE Shown(i)
    <3>1. PICK p \in Places : index[p] # None /\ (index[p].copy = i \/ i \in index[p].retired)
      BY <2>3 DEF Shown
    <3>2. \E q \in Places : index'[q] = index[p]
      <4>1. CASE p = op.place
        BY <1>t, <2>1, <4>1 DEF Typed
      <4>2. CASE p # op.place
        BY <1>t, <2>1, <2>2, <3>1, <4>2 DEF Typed
      <4> QED
        BY <4>1, <4>2
    <3> QED
      BY <3>1, <3>2 DEF Covered, Shown
  <2>4. CASE ~Shown(i)
    <3>1. \A w \in Workers : pc[w] = "commit" => pc'[w] = "commit"
      BY <1>c, <2>1
    <3> QED
      BY <2>1, <2>2, <2>4, <3>1 DEF Covered, Committing, CopyId
  <2> QED
    BY <2>3, <2>4
<1>16. CASE Dropped \/ MoveMoves \/ RestoreUnrecords
  <2>1. UNCHANGED <<index, fresh, display, pick, drops, doomed>> /\ \E s \in Steps : Goes("admin", s)
    BY <1>16 DEF Dropped, MoveMoves, RestoreUnrecords, library, copies, worker
  <2> QED
    BY <1>a, <1>c, <1>d, <2>1
<1>17. CASE DeleteUnrecords
  <2>1. UNCHANGED <<index, fresh, display, pick, doomed>> /\ drops = {} /\ Goes("admin", "drop")
    BY <1>17, <1>t DEF DeleteUnrecords, copies, worker, Locked
  <2> QED
    BY <1>a, <1>c, <1>d, <2>1
<1>18. CASE Requests
  <2>1. UNCHANGED <<index, fresh, display, pick, doomed>>
    BY <1>18 DEF Requests, BeginUpload, RemoveRecords, RestoreMoves, MoveBegins, DeleteUnlinks, SetPipeline,
       library, copies, worker, requests, admin
  <2>2. \E a \in {"admin", "upload"}, s \in {"scan", "remove", "restored", "move", "unrecord", "kick"} : Goes(a, s)
    BY <1>18 DEF Requests, BeginUpload, RemoveRecords, RestoreMoves, MoveBegins, DeleteUnlinks, SetPipeline
  <2>3. drops = {}
    <3>1. pc["admin"] = "idle"
      BY <1>18 DEF Requests, BeginUpload, RemoveRecords, RestoreMoves, MoveBegins, DeleteUnlinks, SetPipeline,
         Begins
    <3> QED
      BY <1>t, <3>1 DEF Locked
  <2>4. \A w \in Workers : pc[w] = "commit" => pc'[w] = "commit"
    BY <1>c, <2>2
  <2> QED
    BY <1>a, <1>d, <2>1, <2>3, <2>4
<1>19. CASE Crash \/ \E p \in Places : (\E c \in Contents : HandPuts(p, c)) \/ HandDeletes(p)
  <2>1. done'["hand"] > 0 \/ done'["crash"] > 0
    BY <1>19, <1>t, Counts DEF HandPuts, HandDeletes, Crash
  <2> QED
    BY <2>1
<1>20. CASE (\E p \in Places : Settles(p)) \/ UNCHANGED vars
  <2>1. UNCHANGED <<index, fresh, display, pick, doomed, drops, pc>>
    BY <1>20 DEF Settles, vars, library, copies, worker, requests, admin
  <2> QED
    BY <1>a, <1>d, <2>1
<1>21. ASSUME NEW j \in Ids, GraceEnds(j) PROVE Covered(i)'
  <2>1. UNCHANGED <<index, display, pick, doomed, drops, pc>> /\ fresh' \subseteq fresh
    BY <1>21 DEF GraceEnds, worker, requests, admin
  <2> QED
    BY <1>0, <1>a, <1>i, <2>1, StillCovered
<1>22. CASE UploadStep
  BY <1>1, <1>8, <1>9, <1>10, <1>22 DEF UploadStep
<1>23. CASE AdminStep
  BY <1>1, <1>8, <1>11, <1>12, <1>13, <1>14, <1>15, <1>16, <1>17, <1>23 DEF AdminStep
<1>24. CASE World
  BY <1>19, <1>20, <1>21, <1>24 DEF World
<1> QED
  BY <1>6, <1>7, <1>18, <1>20, <1>22, <1>23, <1>24 DEF Next

LEMMA NextCopies == Inv /\ RoomInv /\ FiledInv /\ CopyInv /\ [Next]_vars => CopyInv'
<1> SUFFICES ASSUME Inv, RoomInv, FiledInv, CopyInv, [Next]_vars, Never({"hand", "crash", "disk", "slow"})'
             PROVE  Taken' /\ \A i \in fresh' : display'[i] # None => Covered(i)'
  BY DEF CopyInv
<1>1. Never({"hand", "crash", "disk", "slow"}) /\ Filed /\ Never({"hand"})
  BY CountsGrow, StepNames DEF Never, Inv, FiledInv
<1>2. Taken /\ \A i \in fresh : display[i] # None => Covered(i)
  BY <1>1 DEF CopyInv
<1>3. \A e \in {"hand", "crash", "disk", "slow"} : done'[e] = 0
  BY DEF Never
<1> QED
  BY <1>1, <1>2, <1>3, NextTaken, NextCovered

(* A recent Display copy is one a photo shows, one a photo's entry has     *)
(* retired, or one somebody is about to install or drop.                   *)
THEOREM CopiesAreAccountedFor == Spec => []NoStrayCopies
<1>1. CopyInv => NoStrayCopies
  <2> SUFFICES ASSUME CopyInv, Never({"hand", "crash", "disk", "slow"}), NEW i \in Ids, display[i] # None,
                      i \in fresh
               PROVE  i \in Referenced \cup InHand \/ \E p \in Indexed : i \in index[p].retired
    BY DEF NoStrayCopies
  <2>1. Covered(i)
    BY DEF CopyInv
  <2>2. Shown(i) => i \in Referenced \/ \E p \in Indexed : i \in index[p].retired
    BY NoneIsNone DEF Shown, Referenced, ReferencedIn, Indexed
  <2>3. Committing(i) => i \in InHand
    BY DEF Committing, InHand, CopyId
  <2> QED
    BY <2>1, <2>2, <2>3 DEF Covered, InHand
<1> QED
  BY <1>1, InvHolds, InitRoom, NextRoom, InitFiled, NextFiled, InitCopies, NextCopies, PTL DEF Spec
=============================================================================
