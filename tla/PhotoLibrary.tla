---------------------------- MODULE PhotoLibrary ----------------------------
(***************************************************************************)
(* The photo library (app/photo_library.py): the originals under photos/,  *)
(* the index, the Display copies built from them, and the bin of Removed   *)
(* photos.  The scheduled job and the kicked thread scan and build copies  *)
(* while the Admin uploads (in a pool thread), removes, moves, restores    *)
(* and deletes, and while people change the folder by hand.                *)
(*                                                                         *)
(* Three locks: _STORE_LOCK (store) around every operation that moves a    *)
(* file, _PROCESS_LOCK (procs) around the building of one copy, and _LOCK, *)
(* which is held within a step except by an upload between its duplicate   *)
(* check and its store (LockFree).  Thumbnails are left out.               *)
(***************************************************************************)
EXTENDS Naturals, FiniteSets

CONSTANTS
  NumPlaces,   \* paths under photos/, numbered in the order they are processed
  Album,       \* Place -> the album (folder) it is in
  Contents,    \* what a photo file can hold
  Unreadable,  \* the Contents that do not decode
  Keys,        \* the Settings a copy is built with (format, size)
  DefaultKey,  \* those of a new box
  Tokens,      \* names of Removed photos
  None,        \* no file, no entry, no id
  Nobody,      \* nobody holds the lock
  StartDisks,  \* bound: what the folder may hold when the process starts
  MaxDone,     \* bound: how often each kind of event of Events happens
  MaxKinds     \* bound: how many kinds of event happen in one behaviour

Places  == 1..NumPlaces
Workers == {"job", "kick"}
Actors  == Workers \cup {"upload", "admin"}
Ids     == Contents \X Keys                \* _copy_id hashes the two
Events  == {"upload", "remove", "move", "restore", "delete", "setting",
            "hand", "crash", "disk", "slow"}

(* What the index knows of a photo: the hash of its file, the id of its    *)
(* copy, the copies it has replaced, and the Settings it fails under.      *)
Entries == [hash : Contents, copy : Ids \cup {None}, retired : SUBSET Ids,
            error : Keys \cup {None}]

(* What the bin knows of a Removed photo.                                  *)
Records == [album : {Album[p] : p \in Places}, copy : Ids \cup {None}]

ASSUME PhotoAssumption ==
  /\ NumPlaces \in Nat /\ Unreadable \subseteq Contents
  /\ DefaultKey \in Keys /\ IsFiniteSet(Tokens)
  /\ None \notin Contents \cup Keys \cup Ids \cup Places
  /\ None \notin Entries /\ None \notin Records
  /\ Nobody \notin Actors
  /\ StartDisks \subseteq [Places -> Contents \cup {None}]
  /\ MaxDone \in [Events -> Nat] /\ MaxKinds \in Nat

VARIABLES
  disk,        \* Place -> the content of the original there
  touched,     \* Places whose file is not the one the index knows
  young,       \* Places written less than SETTLE_SECONDS ago
  index,       \* Place -> its index entry
  display,     \* copy id -> what the Display copy with that name shows
  fresh,       \* copy ids written less than ORPHAN_GRACE_SECONDS ago
  bin, record, \* Token -> the Removed original, and its record
  key,         \* settings_key()
  store, procs,          \* who holds _STORE_LOCK, _PROCESS_LOCK
  pc,                    \* Actor -> what it does next
  found,       \* what the scan holding _STORE_LOCK has walked and hashed
  pick,        \* the photo the holder of _PROCESS_LOCK is working on
  up,          \* the upload under way, and where the last one was filed
  op, drops, doomed,     \* the admin request under way, the copies to drop
  kick,        \* _kick_running, _kick_again
  done         \* how often each kind of event has happened

files  == <<disk, touched, young>>
copies == <<display, fresh>>
trash  == <<bin, record>>
worker == <<procs, pick>>
admin  == <<op, drops, doomed>>
library  == <<files, index, copies, trash, key>>
requests == <<up, admin, kick>>
vars   == <<library, store, worker, pc, found, requests, done>>

NoPick  == [place |-> None, hash |-> None, key |-> None, picture |-> None]
NoFound == [present |-> {}, hashed |-> [p \in {} |-> None]]
NoOp    == [place |-> None, to |-> None, token |-> None, copy |-> None]
NoUp    == [content |-> None, album |-> None, place |-> None]

(* A photos/ folder somebody has put files in; the app has just started.   *)
Init ==
  /\ disk \in StartDisks
  /\ touched = {} /\ young = {}
  /\ index = [p \in Places |-> None]
  /\ display = [i \in Ids |-> None] /\ fresh = {}
  /\ bin = [t \in Tokens |-> None] /\ record = [t \in Tokens |-> None]
  /\ key = DefaultKey
  /\ store = Nobody /\ procs = Nobody
  /\ pc = [a \in Actors |-> "idle"]
  /\ found = NoFound /\ pick = NoPick /\ up = NoUp
  /\ op = NoOp /\ drops = {} /\ doomed = None
  /\ kick = [running |-> FALSE, again |-> FALSE]
  /\ done = [e \in Events |-> 0]

-----------------------------------------------------------------------------
Happens(e) ==
  /\ done[e] < MaxDone[e]
  /\ Cardinality({f \in Events : done[f] > 0} \cup {e}) <= MaxKinds
  /\ done' = [done EXCEPT ![e] = @ + 1]

Never(events) == \A e \in events : done[e] = 0

Goes(a, next) == pc' = [pc EXCEPT ![a] = next]

LockFree == pc["upload"] # "store"

Indexed == {p \in Places : index[p] # None}
Present == {p \in Places : disk[p] # None}

(* _unique_name: the name of no other file in the folder.                  *)
FreeIn(album) == {p \in Places \ Present : Album[p] = album}

ReferencedIn(idx) == {idx[p].copy : p \in {q \in Places : idx[q] # None}} \ {None}
Referenced == ReferencedIn(index)

CopyFileExists(entry) == entry.copy # None /\ display[entry.copy] # None

(* Mutant: a copy whose file is gone is not built again.                   *)
IsPendingIgnoresFile(entry, k) ==
  entry.error # k /\ entry.copy # <<entry.hash, k>>

IsPending(entry, k) ==
  /\ entry.error # k
  /\ entry.copy # <<entry.hash, k>> \/ ~CopyFileExists(entry)

Pending(k) == {p \in Indexed : IsPending(index[p], k)}

NewEntry(content) ==
  [hash |-> content, copy |-> None, retired |-> {}, error |-> None]

-----------------------------------------------------------------------------
(* Scanning.                                                               *)

(* _scan up to the hashing: what the walk finds, and the hashes of the     *)
(* files the index does not know as they are, if they have settled.        *)
ScanTakes(a) ==
  LET news == {p \in Present : /\ index[p] = None \/ p \in touched
                               /\ p \notin young \/ a \notin Workers}
  IN  /\ pc[a] = "scan" /\ store = Nobody
      /\ store' = a
      /\ found' = [present |-> Present, hashed |-> [p \in news |-> disk[p]]]
      /\ touched' = touched \ news
      /\ Goes(a, "scanning")
      /\ UNCHANGED <<disk, young, index, copies, trash, key, worker, requests,
                     done>>

Scanned(p) ==
  CASE p \in DOMAIN found.hashed ->
         IF index[p] = None
         THEN NewEntry(found.hashed[p])
         ELSE [index[p] EXCEPT !.hash = found.hashed[p], !.error = None]
    [] p \notin found.present -> None
    [] OTHER -> index[p]

(* _sweep_orphans                                                          *)
Swept(idx) ==
  [i \in Ids |-> IF i \in ReferencedIn(idx) \cup fresh THEN display[i] ELSE None]

AfterScan(a) == CASE a \in Workers  -> "next"
                  [] a = "upload" -> "check"
                  [] a = "admin"  -> "kick"

ScanEnds(a) ==
  /\ pc[a] = "scanning"
  /\ index' = [p \in Places |-> Scanned(p)]
  /\ display' = Swept(index')
  /\ found' = NoFound
  /\ store' = Nobody
  /\ Goes(a, AfterScan(a))
  /\ UNCHANGED <<files, fresh, trash, key, worker, requests, done>>

-----------------------------------------------------------------------------
(* Building the copies: process_next, one photo at a time.                 *)

JobStarts ==
  /\ pc["job"] = "idle"
  /\ Goes("job", "scan")
  /\ UNCHANGED <<library, store, worker, found, requests, done>>

(* A removal is over before a copy of its photo is built from start to     *)
(* end, but for the event "slow".                                          *)
TakesNext(w) ==
  /\ pc[w] = "next" /\ procs = Nobody /\ LockFree
  /\ \E p \in Pending(key) :
       /\ \A q \in Pending(key) : p <= q
       /\ pick' = [place |-> p, hash |-> index[p].hash, key |-> key, picture |-> None]
       /\ IF pc["admin"] \in {"remove", "pop"} /\ p = op.place
          THEN Happens("slow")
          ELSE UNCHANGED done
  /\ procs' = w
  /\ Goes(w, "render")
  /\ UNCHANGED <<library, store, found, requests>>

(* Nothing is pending: the job is over, the kicked run may go round again. *)
NoneLeft(w) ==
  /\ pc[w] = "next" /\ procs = Nobody /\ LockFree
  /\ Pending(key) = {}
  /\ Goes(w, IF w = "kick" THEN "ending" ELSE "idle")
  /\ UNCHANGED <<library, store, worker, found, requests, done>>

(* _render reads the file that is there now.                               *)
Renders(w) ==
  LET seen == disk[pick.place]
  IN  /\ pc[w] = "render"
      /\ IF seen \in Unreadable \cup {None}
         THEN Goes(w, "fail") /\ UNCHANGED pick
         ELSE Goes(w, "write") /\ pick' = [pick EXCEPT !.picture = seen]
      /\ UNCHANGED <<library, store, procs, found, requests, done>>

CopyId == <<pick.hash, pick.key>>

WritesCopy(w) ==
  /\ pc[w] = "write"
  /\ display' = [display EXCEPT ![CopyId] = pick.picture]
  /\ fresh' = fresh \cup {CopyId}
  /\ Goes(w, "commit")
  /\ UNCHANGED <<files, index, trash, key, store, worker, found, requests,
                 done>>

(* The disk is full: no Display copy, or one without its thumbnail.        *)
WriteFails(w) ==
  /\ pc[w] = "write" /\ Happens("disk")
  /\ \/ UNCHANGED copies
     \/ /\ display' = [display EXCEPT ![CopyId] = pick.picture]
        /\ fresh' = fresh \cup {CopyId}
  /\ Goes(w, "fail")
  /\ UNCHANGED <<files, index, trash, key, store, worker, found, requests>>

SameFile == index[pick.place] # None /\ index[pick.place].hash = pick.hash

(* After a photo the worker takes the next, or a minute has passed and it  *)
(* scans first.                                                            *)
Releases(w) ==
  /\ procs' = Nobody /\ pick' = NoPick
  /\ Goes(w, "next") \/ Goes(w, "scan")

RecordsFailure(w) ==
  /\ pc[w] = "fail" /\ LockFree
  /\ index' = IF SameFile THEN [index EXCEPT ![pick.place].error = pick.key]
                          ELSE index
  /\ Releases(w)
  /\ UNCHANGED <<files, copies, trash, key, store, found, requests, done>>

(* _drop_copy_files_if_unused                                              *)
DropIfUnused(id) ==
  /\ display' = IF id \in Referenced THEN display ELSE [display EXCEPT ![id] = None]
  /\ UNCHANGED fresh

(* _retire_copy: a replaced copy nobody else shows is kept for the grace   *)
(* period, and the entry remembers it.                                     *)
Replaced(entry) ==
  ({entry.copy} \ {None, CopyId})
    \ ReferencedIn([index EXCEPT ![pick.place].copy = CopyId])

Installed(entry) ==
  [entry EXCEPT !.copy = CopyId, !.error = None,
                !.retired = IF entry.copy \in {None, CopyId} THEN @
                            ELSE (@ \cap fresh) \cup Replaced(entry)]

Commits(w) ==
  /\ pc[w] = "commit" /\ LockFree
  /\ IF SameFile
     THEN /\ index' = [index EXCEPT ![pick.place] = Installed(@)]
          /\ fresh' = fresh \cup Replaced(index[pick.place])
          /\ UNCHANGED display
     ELSE DropIfUnused(CopyId) /\ UNCHANGED index
  /\ Releases(w)
  /\ UNCHANGED <<files, trash, key, store, found, requests, done>>

-----------------------------------------------------------------------------
(* The kicked thread.                                                      *)

(* Mutant: a kick that meets a running thread is taken for granted.        *)
KickIfIdle ==
  IF kick.running
  THEN UNCHANGED kick
  ELSE kick' = [running |-> TRUE, again |-> FALSE]

KickProcessing ==
  IF kick.running
  THEN kick' = [kick EXCEPT !.again = TRUE]
  ELSE kick' = [running |-> TRUE, again |-> FALSE]

(* Uploads answer on the event loop, where no admin request is half done.  *)
Kicks(a) ==
  /\ pc[a] = "kick" /\ (a = "upload" => pc["admin"] = "idle")
  /\ KickProcessing
  /\ pc' = [pc EXCEPT ![a] = "idle", !["kick"] = IF kick.running THEN @ ELSE "scan"]
  /\ UNCHANGED <<library, store, worker, found, up, admin, done>>

KickEnds ==
  /\ pc["kick"] = "ending"
  /\ Goes("kick", IF kick.again THEN "scan" ELSE "idle")
  /\ kick' = [running |-> kick.again, again |-> FALSE]
  /\ UNCHANGED <<library, store, worker, found, up, admin, done>>

-----------------------------------------------------------------------------
(* Uploads.                                                                *)

BeginUpload(c, album) ==
  /\ pc["upload"] = "idle" /\ pc["admin"] = "idle" /\ Happens("upload")
  /\ up' = [content |-> c, album |-> album, place |-> None]
  /\ Goes("upload", "scan")
  /\ UNCHANGED <<library, store, worker, found, admin, kick>>

(* Mutant: the duplicate check is left out.                                *)
DuplicateNever == FALSE

Duplicate == \E p \in Indexed : Album[p] = up.album /\ index[p].hash = up.content

(* Mutant: an upload files its photo without _STORE_LOCK.                  *)
UploadChecksUnlocked ==
  /\ pc["upload"] = "check"
  /\ IF Duplicate
     THEN Goes("upload", "idle") /\ UNCHANGED <<store, up>>
     ELSE /\ \E p \in FreeIn(up.album) : up' = [up EXCEPT !.place = p]
          /\ Goes("upload", "store")
          /\ UNCHANGED store
  /\ UNCHANGED <<library, worker, found, admin, kick, done>>

UploadChecks ==
  /\ pc["upload"] = "check" /\ store = Nobody
  /\ IF Duplicate
     THEN Goes("upload", "idle") /\ UNCHANGED <<store, up>>
     ELSE /\ \E p \in FreeIn(up.album) : up' = [up EXCEPT !.place = p]
          /\ Goes("upload", "store")
          /\ store' = "upload"
  /\ UNCHANGED <<library, worker, found, admin, kick, done>>

(* os.replace, then the entry with the hash of what was streamed.          *)
UploadStores ==
  /\ pc["upload"] = "store"
  /\ disk' = [disk EXCEPT ![up.place] = up.content]
  /\ touched' = touched \ {up.place} /\ young' = young \ {up.place}
  /\ index' = [index EXCEPT ![up.place] = NewEntry(up.content)]
  /\ store' = Nobody
  /\ Goes("upload", "kick")
  /\ UNCHANGED <<copies, trash, key, worker, found, requests, done>>

-----------------------------------------------------------------------------
(* What the Admin asks for, one photo at a time under _STORE_LOCK.         *)

Begins(event) ==
  /\ pc["admin"] = "idle" /\ store = Nobody /\ Happens(event)
  /\ store' = "admin"

Gives == store' = Nobody /\ op' = NoOp

(* _remove_rels: the record is written, the file moved, the entry popped,  *)
(* and the copies it had, had retired or has got meanwhile are dropped.    *)
RemoveRecords(p, t) ==
  /\ Begins("remove") /\ p \in Indexed \cap Present
  /\ record[t] = None /\ bin[t] = None
  /\ record' = [record EXCEPT ![t] = [album |-> Album[p], copy |-> index[p].copy]]
  /\ op' = [NoOp EXCEPT !.place = p, !.token = t]
  /\ drops' = index[p].retired
  /\ Goes("admin", "remove")
  /\ UNCHANGED <<files, index, copies, bin, key, worker, found, up, doomed,
                 kick>>

RemoveMoves ==
  /\ pc["admin"] = "remove"
  /\ IF disk[op.place] # None
     THEN /\ bin' = [bin EXCEPT ![op.token] = disk[op.place]]
          /\ disk' = [disk EXCEPT ![op.place] = None]
          /\ Goes("admin", "pop")
          /\ UNCHANGED <<record, store, op, drops>>
     ELSE /\ record' = [record EXCEPT ![op.token] = None]
          /\ drops' = {} /\ Gives
          /\ Goes("admin", "idle")
          /\ UNCHANGED <<bin, disk>>
  /\ UNCHANGED <<touched, young, index, copies, key, worker, found, up,
                 doomed, kick, done>>

(* Mutant: a copy installed since the record was written is forgotten.     *)
CopiesOfSnapshot(entry, snapshot) == {snapshot} \ {None}

CopiesOf(entry, snapshot) == {snapshot, entry.copy} \ {None}

RemovePops ==
  /\ pc["admin"] = "pop"
  /\ drops' = drops \cup CopiesOf(index[op.place], record[op.token].copy)
  /\ index' = [index EXCEPT ![op.place] = None]
  /\ Goes("admin", "drop")
  /\ UNCHANGED <<files, copies, trash, key, store, worker, found, up, op,
                 doomed, kick, done>>

(* _drop_copy_files_if_unused, outside _LOCK: it looks, then unlinks.      *)
DropLooks ==
  /\ pc["admin"] = "drop"
  /\ \E id \in drops :
       /\ drops' = drops \ {id}
       /\ IF id \in Referenced
          THEN UNCHANGED <<doomed, pc>>
          ELSE doomed' = id /\ Goes("admin", "unlink")
  /\ UNCHANGED <<library, store, worker, found, up, op, kick, done>>

DropUnlinks ==
  /\ pc["admin"] = "unlink"
  /\ display' = [display EXCEPT ![doomed] = None]
  /\ doomed' = None
  /\ Goes("admin", "drop")
  /\ UNCHANGED <<files, index, fresh, trash, key, store, worker, found, up,
                 op, drops, kick, done>>

Dropped ==
  /\ pc["admin"] = "drop" /\ drops = {}
  /\ Gives /\ Goes("admin", "idle")
  /\ UNCHANGED <<library, worker, found, up, drops, doomed, kick, done>>

(* move_photos: the file, then its entry under the new name.               *)
MoveBegins(p, q) ==
  /\ Begins("move") /\ p \in Indexed \cap Present
  /\ Album[p] # Album[q] /\ q \in FreeIn(Album[q])
  /\ op' = [NoOp EXCEPT !.place = p, !.to = q]
  /\ Goes("admin", "move")
  /\ UNCHANGED <<library, worker, found, up, drops, doomed, kick>>

(* The set with to standing for from, as the file and its times have moved.*)
Renamed(set, from, to) ==
  (set \ {from, to}) \cup (IF from \in set THEN {to} ELSE {})

MoveMoves ==
  /\ pc["admin"] = "move"
  /\ IF disk[op.place] # None
     THEN /\ disk' = [disk EXCEPT ![op.to] = disk[op.place], ![op.place] = None]
          /\ touched' = Renamed(touched, op.place, op.to)
          /\ young' = Renamed(young, op.place, op.to)
          /\ Goes("admin", "rekey")
          /\ UNCHANGED <<store, op>>
     ELSE Gives /\ Goes("admin", "idle") /\ UNCHANGED files
  /\ UNCHANGED <<index, copies, trash, key, worker, found, up, drops, doomed,
                 kick, done>>

MoveRekeys ==
  /\ pc["admin"] = "rekey"
  /\ index' = [index EXCEPT ![op.to] = index[op.place], ![op.place] = None]
  /\ Gives /\ Goes("admin", "idle")
  /\ UNCHANGED <<files, copies, trash, key, worker, found, up, drops, doomed,
                 kick, done>>

(* restore_removed: back to its album under a free name, then a scan with  *)
(* no settling time, and a kick.                                           *)
RestoreMoves(t, q) ==
  /\ Begins("restore") /\ record[t] # None /\ bin[t] # None
  /\ q \in FreeIn(record[t].album)
  /\ disk' = [disk EXCEPT ![q] = bin[t]]
  /\ touched' = touched \cup {q} /\ young' = young \ {q}
  /\ bin' = [bin EXCEPT ![t] = None]
  /\ op' = [NoOp EXCEPT !.token = t]
  /\ Goes("admin", "restored")
  /\ UNCHANGED <<index, copies, record, key, worker, found, up, drops, doomed,
                 kick>>

RestoreUnrecords ==
  /\ pc["admin"] = "restored"
  /\ record' = [record EXCEPT ![op.token] = None]
  /\ Gives /\ Goes("admin", "scan")
  /\ UNCHANGED <<files, index, copies, bin, key, worker, found, up, drops,
                 doomed, kick, done>>

(* Mutant: the record goes first and the file is left to the next step.    *)
DeleteUnrecordsFirst(t) ==
  /\ Begins("delete") /\ record[t] # None
  /\ record' = [record EXCEPT ![t] = None]
  /\ op' = [NoOp EXCEPT !.token = t, !.copy = record[t].copy]
  /\ Goes("admin", "unrecord")
  /\ UNCHANGED <<files, index, copies, bin, key, worker, found, up, drops,
                 doomed, kick>>

(* _delete_removed, asked for by the Admin or by the daily clean-up.       *)
DeleteUnlinks(t) ==
  /\ Begins("delete") /\ record[t] # None
  /\ bin' = [bin EXCEPT ![t] = None]
  /\ op' = [NoOp EXCEPT !.token = t, !.copy = record[t].copy]
  /\ Goes("admin", "unrecord")
  /\ UNCHANGED <<files, index, copies, record, key, worker, found, up, drops,
                 doomed, kick>>

DeleteUnrecords ==
  /\ pc["admin"] = "unrecord"
  /\ record' = [record EXCEPT ![op.token] = None]
  /\ drops' = {op.copy} \ {None}
  /\ Goes("admin", "drop")
  /\ UNCHANGED <<files, index, copies, bin, key, store, worker, found, up, op,
                 doomed, kick, done>>

SetPipeline(k) ==
  /\ pc["admin"] = "idle" /\ k # key /\ Happens("setting")
  /\ key' = k
  /\ Goes("admin", "kick")
  /\ UNCHANGED <<files, index, copies, trash, store, worker, found, requests>>

-----------------------------------------------------------------------------
(* People with a file browser, time, and the end of the process.           *)

HandPuts(p, c) ==
  /\ Happens("hand")
  /\ disk' = [disk EXCEPT ![p] = c]
  /\ touched' = touched \cup {p} /\ young' = young \cup {p}
  /\ UNCHANGED <<index, copies, trash, key, store, worker, pc, found,
                 requests>>

HandDeletes(p) ==
  /\ p \in Present /\ Happens("hand")
  /\ disk' = [disk EXCEPT ![p] = None]
  /\ UNCHANGED <<touched, young, index, copies, trash, key, store, worker, pc,
                 found, requests>>

Settles(p) ==
  /\ p \in young
  /\ young' = young \ {p}
  /\ UNCHANGED <<disk, touched, index, copies, trash, key, store, worker, pc,
                 found, requests, done>>

(* Ten minutes pass; a copy is written and committed in far less.          *)
GraceEnds(i) ==
  /\ i \in fresh
  /\ \A w \in Workers : pc[w] = "commit" => i # CopyId
  /\ fresh' = fresh \ {i}
  /\ UNCHANGED <<files, index, display, trash, key, store, worker, pc, found,
                 requests, done>>

(* The index is disposable: the process restarts with the file it saved,   *)
(* or with nothing.  A file it was moving is not the one the index knows   *)
(* at its new place.                                                       *)
Crash ==
  /\ Happens("crash")
  /\ index' \in {index, [p \in Places |-> None]}
  /\ touched' = touched \cup DOMAIN found.hashed
                  \cup (IF pc["admin"] = "rekey" THEN {op.to} ELSE {})
  /\ store' = Nobody /\ procs' = Nobody
  /\ pc' = [a \in Actors |-> "idle"]
  /\ found' = NoFound /\ pick' = NoPick /\ up' = NoUp
  /\ op' = NoOp /\ drops' = {} /\ doomed' = None
  /\ kick' = [running |-> FALSE, again |-> FALSE]
  /\ UNCHANGED <<disk, young, copies, trash, key>>

-----------------------------------------------------------------------------
WorkerStep(w) ==
  \/ ScanTakes(w) \/ ScanEnds(w) \/ TakesNext(w) \/ NoneLeft(w) \/ Renders(w)
  \/ WritesCopy(w) \/ WriteFails(w) \/ RecordsFailure(w) \/ Commits(w)

UploadStep ==
  \/ ScanTakes("upload") \/ ScanEnds("upload")
  \/ UploadChecks \/ UploadStores \/ Kicks("upload")

AdminStep ==
  \/ RemoveMoves \/ RemovePops \/ DropLooks \/ DropUnlinks \/ Dropped
  \/ MoveMoves \/ MoveRekeys \/ RestoreUnrecords \/ DeleteUnrecords
  \/ ScanTakes("admin") \/ ScanEnds("admin") \/ Kicks("admin")

Requests ==
  \/ \E c \in Contents, p \in Places : BeginUpload(c, Album[p])
  \/ \E p \in Places, t \in Tokens : RemoveRecords(p, t) \/ RestoreMoves(t, p)
  \/ \E p, q \in Places : MoveBegins(p, q)
  \/ \E t \in Tokens : DeleteUnlinks(t)
  \/ \E k \in Keys : SetPipeline(k)

World ==
  \/ \E p \in Places, c \in Contents : HandPuts(p, c)
  \/ \E p \in Places : HandDeletes(p) \/ Settles(p)
  \/ \E i \in Ids : GraceEnds(i)
  \/ Crash

Next ==
  \/ JobStarts \/ KickEnds \/ UploadStep \/ AdminStep \/ Requests \/ World
  \/ \E w \in Workers : WorkerStep(w)

Spec == Init /\ [][Next]_vars

(* The scheduler starts the job every minute; a started step goes on; time *)
(* passes.                                                                 *)
FairSpec ==
  /\ Spec
  /\ WF_vars(JobStarts) /\ WF_vars(KickEnds) /\ WF_vars(UploadStep)
  /\ WF_vars(AdminStep)
  /\ \A w \in Workers : WF_vars(WorkerStep(w))
  /\ \A p \in Places : WF_vars(Settles(p))

-----------------------------------------------------------------------------
Originals(c) ==
  Cardinality({p \in Places : disk[p] = c}) + Cardinality({t \in Tokens : bin[t] = c})

(* Uploading, removing, restoring, moving, scanning and crashing never     *)
(* cost an original, whatever runs alongside: a file is lost only to a     *)
(* hand in the folder or a Delete for good (_unique_name and os.replace    *)
(* under _STORE_LOCK).                                                     *)
OriginalsKept ==
  [][Never({"hand"}) => \/ \A c \in Contents : Originals(c)' >= Originals(c)
                        \/ done'["hand"] > 0 \/ done'["delete"] > done["delete"]]_vars

(* A photo is never in the bin unrecorded: whatever is interrupted, it can *)
(* be listed and restored (_remove_rels).                                  *)
BinRecorded == \A t \in Tokens : bin[t] # None => record[t] # None

InHand == {<<pick.hash, pick.key>>} \cup drops \cup {doomed}

(* A removed photo's copy stops being served: a recent Display copy is one *)
(* a photo shows, one a photo's entry has retired, or one somebody is      *)
(* about to install or drop (process_next, _retire_copy, _remove_rels).    *)
NoStrayCopies ==
  Never({"hand", "crash", "disk", "slow"}) =>
    \A i \in Ids : display[i] # None /\ i \in fresh =>
      \/ i \in Referenced \cup InHand
      \/ \E p \in Indexed : i \in index[p].retired

(* An upload is filed only where its content is not yet: the same photo is *)
(* not stored twice in an album.  (A restored photo, and one put there by  *)
(* hand, are known only after the next scan.)                              *)
NoSecondUpload ==
  [][Never({"hand", "restore"}) /\ pc["upload"] = "store" /\ pc'["upload"] = "kick" =>
       ~\E p \in Present : Album[p] = up.album /\ disk[p] = up.content]_vars

(* The kick of an upload is not lost on a run that is just finishing: a    *)
(* stored photo does not wait for the next minute's job (kick_processing). *)
KickNotLost ==
  /\ pc["upload"] = "idle" /\ up.place \in Pending(key)
  /\ Never({"hand", "crash", "remove"})
  => \E a \in Actors : pc[a] # "idle"

(* What makes a readable file fail: a full disk, or a file taken from      *)
(* under the decoder while its like takes its place.                       *)
Vanishings == {"disk", "move", "remove", "hand"}

Settled(p) ==
  index[p] # None /\ index[p].hash = disk[p] /\
    \/ index[p].copy = <<disk[p], key>> /\ CopyFileExists(index[p])
    \/ index[p].error = key /\ (disk[p] \in Unreadable \/ ~Never(Vanishings))

(* Whatever happened, in the end every photo in the folder has the copy of *)
(* its content under the current settings, or its failure is on record.    *)
PhotosGetReady == <>[](\A p \in Present : Settled(p))

=============================================================================
