------------------------------ MODULE TapSync ------------------------------
(***************************************************************************)
(* The Taps on disk and everybody who writes them: the Brewfather sync     *)
(* (app/brewfather.py), the Admin's Manual overrides (app/admin_ops.py),   *)
(* the archive they both move files into (app/archive.py) and the Tap file *)
(* store underneath (app/tap_store.py), together with what goes wrong:     *)
(* an API outage, a failed download, a disk error in the middle of a job,  *)
(* an unlink that does not unlink, a hand edit, a crash.                   *)
(*                                                                         *)
(* A Tap is an md file and a photo file per Slot and Source.  Every write  *)
(* happens under JOB_LOCK (holder), so one job record is enough: the       *)
(* variables from pc to leaving are the locals of whoever holds the lock.  *)
(* One step is one file operation, because the board and a crash can come  *)
(* between any two; atomic_write makes each of them all-or-nothing.        *)
(***************************************************************************)
EXTENDS Mapping, FiniteSets

CONSTANTS
  NumBatches,      \* Batches in Brewfather
  NumExts,         \* image extensions, in the order image_for tries them
  MaxRev,          \* bound: revisions of a Batch
  BatchStatuses,   \* bound: the statuses a Batch takes
  FetchOrder,      \* the statuses the include_* Settings make sync fetch,
                   \* in the order it sweeps them
  ManualBeers,     \* the Beers an operator types in
  NoFile,          \* no such file
  Damaged,         \* an md file that reads as nobody's Beer
  NotText,         \* an md file that is not UTF-8
  MaxHurt,         \* bound: how often each kind of mishap happens
  MaxKinds         \* bound: how many kinds of mishap happen in one behaviour

Sources   == {"manual", "brewfather"}
Batches   == 1..NumBatches
Exts      == 1..NumExts
NoPic     == 0
Beers     == [id : Batches \cup ManualBeers, rev : 0..MaxRev]
Mishaps   == {"api", "download", "disk", "unlink", "hand", "crash"}

ASSUME TapSyncAssumption ==
  /\ NumBatches \in Nat /\ NumExts \in Nat /\ MaxRev \in Nat \ {0}
  /\ BatchStatuses \subseteq Statuses /\ FetchOrder \in Seq(Statuses)
  /\ {NoFile, Damaged, NotText} \cap Beers = {}
  /\ NoFile # Damaged /\ NoFile # NotText /\ Damaged # NotText
  /\ MaxHurt \in [Mishaps -> Nat] /\ MaxKinds \in Nat

VARIABLES
  cloud,       \* the Batches as Brewfather holds them
  md, img,     \* data/taps: Source -> Slot -> md file, and photo per extension
  oldBeers,    \* data/old_beers: the md files and the photos moved there
  holder,      \* who holds JOB_LOCK: none, sync or admin
  pc,          \* what the holder does next
  sweep,       \* how many statuses the running sync has swept
  fetched,     \* the listing it fetched
  todo,        \* the Slots its current loop has left
  slot, src,   \* the Tap it is working on
  beer, pic,   \* the Beer being written, the extension of its photo
  leaving,     \* the files archive_tap has left to move
  hurt         \* how often each kind of mishap has happened

files  == <<md, img, oldBeers>>
sweeps == <<sweep, fetched>>
target == <<slot, src, beer, pic>>
job    == <<sweeps, todo, target, leaving>>
vars   == <<cloud, files, holder, pc, job, hurt>>

-----------------------------------------------------------------------------
(* The Tap file store.                                                     *)

(* What a hand edit can make of an md file: _load answers a Tap that names *)
(* no Batch for one whose front matter does not parse, and nothing for an  *)
(* OSError; for one that is not UTF-8 it raises, and nobody catches it.    *)
Spoilt         == {Damaged, NotText}
Readable(file) == file \notin {NoFile} \cup Spoilt

HasPhoto(source, s) == \E e \in Exts : img[source][s][e] # NoFile

(* image_for: the first extension in the fixed order that has a file.      *)
ImageExt(source, s) ==
  CHOOSE e \in Exts : /\ img[source][s][e] # NoFile
                      /\ \A f \in Exts : f < e => img[source][s][f] = NoFile

ImageFor(source, s) ==
  IF HasPhoto(source, s) THEN img[source][s][ImageExt(source, s)] ELSE NoFile

OccupiedSlotsOf(source) == {s \in Slots : md[source][s] # NoFile}

(* existing_paths: the md, then the one photo image_for answers.           *)
ExistingPaths(source, s) ==
  (IF md[source][s] # NoFile THEN {"md"} ELSE {})
    \cup (IF HasPhoto(source, s) THEN {"img"} ELSE {})

NoPhotos == [e \in Exts |-> NoFile]

SetPhotos(source, s, photos) == img' = [img EXCEPT ![source][s] = photos]

(* resolve, as the board shows it: existence decides the Source.           *)
Board(s) ==
  LET source == IF md["manual"][s] # NoFile THEN "manual" ELSE "brewfather"
  IN  [source |-> source, md |-> md[source][s], photo |-> ImageFor(source, s)]

-----------------------------------------------------------------------------
(* What one sync wants of a Slot.                                          *)

Desired   == DesiredMap(fetched)
Winner(s) == fetched[Desired[s]]

WantedBeer(s) == [id |-> Desired[s], rev |-> Winner(s).rev]

(* Mutant: any cached Tap is taken for this Batch's.                       *)
IsSameBatchAny(file, b) == Readable(file)

IsSameBatch(file, b) == Readable(file) /\ file.id = b

(* Mutant: the photo half of the freshness check is left out.              *)
IsUnchangedNoPhoto(s) == md["brewfather"][s] = WantedBeer(s)

(* Mutant: the revision is left out of the freshness check.                *)
IsUnchangedAnyRev(s) ==
  /\ IsSameBatch(md["brewfather"][s], Desired[s])
  /\ (Winner(s).pic # NoPic) = HasPhoto("brewfather", s)

IsUnchanged(s) ==
  /\ md["brewfather"][s] = WantedBeer(s)
  /\ (Winner(s).pic # NoPic) = HasPhoto("brewfather", s)

(* A Batch the listing does not hold is a Batch that claims nothing.       *)
Unlisted == [tap |-> NoSlot, teaser |-> FALSE, rev |-> 0,
             status |-> "unknown", pic |-> NoPic]

NoListing == [b \in Batches |-> Unlisted]

(* One sweep of _list_batches: the Batches that have this status now, but  *)
(* not a second copy of one that an earlier sweep saw.                     *)
Swept(listing, status) ==
  [b \in Batches |-> IF listing[b] = Unlisted /\ cloud[b].status = status
                     THEN cloud[b] ELSE listing[b]]

(* What the sweeps would find if Brewfather stood still.                   *)
Listing ==
  [b \in Batches |-> IF \E k \in DOMAIN FetchOrder :
                          FetchOrder[k] = cloud[b].status
                     THEN cloud[b] ELSE Unlisted]

Init ==
  /\ cloud = NoListing
  /\ md = [source \in Sources |-> [s \in Slots |-> NoFile]]
  /\ img = [source \in Sources |-> [s \in Slots |-> NoPhotos]]
  /\ oldBeers = [md |-> {}, img |-> {}]
  /\ holder = "none"
  /\ pc = "idle"
  /\ sweep = 0
  /\ fetched = NoListing
  /\ todo = {}
  /\ slot = NoSlot /\ src = "brewfather"
  /\ beer = NoFile /\ pic = NoPic
  /\ leaving = {}
  /\ hurt = [kind \in Mishaps |-> 0]

(* The lock is released and the job's locals go out of scope.              *)
Release ==
  /\ holder' = "none" /\ pc' = "idle"
  /\ sweep' = 0 /\ fetched' = NoListing /\ todo' = {}
  /\ slot' = NoSlot /\ src' = "brewfather"
  /\ beer' = NoFile /\ pic' = NoPic /\ leaving' = {}

MayHappen(kind) ==
  /\ hurt[kind] < MaxHurt[kind]
  /\ Cardinality({k \in Mishaps \ {kind} : hurt[k] > 0}) < MaxKinds

Mishap(kind) ==
  /\ MayHappen(kind)
  /\ hurt' = [hurt EXCEPT ![kind] = @ + 1]

-----------------------------------------------------------------------------
(* run_sync.                                                               *)

SyncStart ==
  /\ holder = "none"
  /\ holder' = "sync" /\ pc' = "fetch"
  /\ UNCHANGED <<cloud, files, job, hurt>>

(* _list_batches sweeps the API once per status, one after the other.      *)
FetchSweep ==
  /\ pc = "fetch" /\ sweep < Len(FetchOrder)
  /\ fetched' = Swept(fetched, FetchOrder[sweep + 1])
  /\ sweep' = sweep + 1
  /\ UNCHANGED <<cloud, files, holder, pc, todo, target, leaving, hurt>>

FetchDone ==
  /\ pc = "fetch" /\ sweep = Len(FetchOrder)
  /\ todo' = DOMAIN Desired
  /\ pc' = "loop"
  /\ UNCHANGED <<cloud, files, holder, sweeps, target, leaving, hurt>>

FetchFails ==
  /\ pc = "fetch" /\ sweep < Len(FetchOrder)
  /\ Mishap("api")
  /\ Release
  /\ UNCHANGED <<cloud, files>>

SkipUnchanged(s) ==
  /\ pc = "loop" /\ s \in todo /\ IsUnchanged(s)
  /\ todo' = todo \ {s}
  /\ UNCHANGED <<cloud, files, holder, pc, sweeps, target, leaving, hurt>>

(* Neither _is_unchanged nor run_sync expects a UnicodeDecodeError: the    *)
(* sync dies at this Tap, and nothing but the lock is given back.          *)
SyncRaises(s) ==
  /\ pc = "loop" /\ s \in todo /\ md["brewfather"][s] = NotText
  /\ Release
  /\ UNCHANGED <<cloud, files, hurt>>

(* Mutant: the sync writes the Tap the Slot shows, override or not.        *)
WriteTapShown(s) ==
  /\ pc = "loop" /\ s \in todo /\ md["brewfather"][s] # NotText /\ ~IsUnchanged(s)
  /\ todo' = todo \ {s}
  /\ slot' = s /\ src' = Board(s).source
  /\ beer' = WantedBeer(s) /\ pic' = Winner(s).pic
  /\ pc' = "photo"
  /\ UNCHANGED <<cloud, files, holder, sweeps, leaving, hurt>>

WriteTap(s) ==
  /\ pc = "loop" /\ s \in todo /\ md["brewfather"][s] # NotText /\ ~IsUnchanged(s)
  /\ todo' = todo \ {s}
  /\ slot' = s /\ src' = "brewfather"
  /\ beer' = WantedBeer(s) /\ pic' = Winner(s).pic
  /\ pc' = "photo"
  /\ UNCHANGED <<cloud, files, holder, sweeps, leaving, hurt>>

(* Mutant: a photo of this Batch that is on disk is not fetched again.     *)
DownloadedOnce ==
  /\ pc = "photo" /\ pic # NoPic
  /\ pc' = IF HasPhoto(src, slot) /\ IsSameBatch(md[src][slot], beer.id)
           THEN "write" ELSE "sweep"
  /\ UNCHANGED <<cloud, files, holder, job, hurt>>

Downloaded ==
  /\ pc = "photo" /\ pic # NoPic
  /\ pc' = "sweep"
  /\ UNCHANGED <<cloud, files, holder, job, hurt>>

(* A failed download is not an erasure of this same Batch's photo; whose   *)
(* it is the md says, read once more.                                      *)
DownloadFails ==
  /\ pc = "photo" /\ pic # NoPic
  /\ Mishap("download")
  /\ IF md[src][slot] = NotText THEN Release /\ UNCHANGED img
     ELSE /\ IF IsSameBatch(md[src][slot], beer.id) THEN UNCHANGED img
             ELSE SetPhotos(src, slot, NoPhotos)
          /\ pc' = "write"
          /\ UNCHANGED <<holder, job>>
  /\ UNCHANGED <<cloud, md, oldBeers>>

DeletePhoto ==
  /\ pc = "photo" /\ pic = NoPic
  /\ SetPhotos(src, slot, NoPhotos)
  /\ pc' = "write"
  /\ UNCHANGED <<cloud, md, oldBeers, holder, job, hurt>>

ArchiveUndesired ==
  /\ pc = "loop" /\ todo = {}
  /\ todo' = OccupiedSlotsOf("brewfather") \ DOMAIN Desired
  /\ pc' = "archive"
  /\ UNCHANGED <<cloud, files, holder, sweeps, target, leaving, hurt>>

(* Mutant: the files are unlinked before they are copied.                  *)
ArchiveNextUnlinks(s) ==
  /\ pc = "archive" /\ s \in todo /\ \A t \in todo : s <= t
  /\ todo' = todo \ {s}
  /\ slot' = s /\ src' = "brewfather"
  /\ leaving' = ExistingPaths("brewfather", s)
  /\ pc' = "unlink"
  /\ UNCHANGED <<cloud, files, holder, sweeps, beer, pic, hurt>>

ArchiveNext(s) ==
  /\ pc = "archive" /\ s \in todo /\ \A t \in todo : s <= t
  /\ todo' = todo \ {s}
  /\ slot' = s /\ src' = "brewfather"
  /\ leaving' = ExistingPaths("brewfather", s)
  /\ pc' = "copy"
  /\ UNCHANGED <<cloud, files, holder, sweeps, beer, pic, hurt>>

SyncSucceeds ==
  /\ pc = "archive" /\ todo = {}
  /\ Release
  /\ UNCHANGED <<cloud, files, hurt>>

-----------------------------------------------------------------------------
(* The Admin: save_override and clear_override.                            *)

SaveOverride(s, b, p) ==
  /\ holder = "none"
  /\ holder' = "admin" /\ slot' = s /\ src' = "manual"
  /\ beer' = [id |-> b, rev |-> 0] /\ pic' = p
  /\ pc' = IF p = NoPic THEN "write" ELSE "sweep"
  /\ UNCHANGED <<cloud, files, sweeps, todo, leaving, hurt>>

ClearOverride(s) ==
  /\ holder = "none"
  /\ holder' = "admin" /\ slot' = s /\ src' = "manual"
  /\ leaving' = ExistingPaths("manual", s)
  /\ pc' = "copy"
  /\ UNCHANGED <<cloud, files, sweeps, todo, beer, pic, hurt>>

-----------------------------------------------------------------------------
(* save_image, write and archive_tap, for either holder.                   *)

(* Mutant: a photo of another extension stays beside the new one.          *)
SweepNothing ==
  /\ pc = "sweep"
  /\ pc' = "save"
  /\ UNCHANGED <<cloud, files, holder, job, hurt>>

SweepOldPhotos ==
  /\ pc = "sweep"
  /\ SetPhotos(src, slot, [NoPhotos EXCEPT ![pic] = img[src][slot][pic]])
  /\ pc' = "save"
  /\ UNCHANGED <<cloud, md, oldBeers, holder, job, hurt>>

SavePhoto ==
  /\ pc = "save"
  /\ SetPhotos(src, slot, [img[src][slot] EXCEPT ![pic] = beer])
  /\ pc' = "write"
  /\ UNCHANGED <<cloud, md, oldBeers, holder, job, hurt>>

WriteMd ==
  /\ pc = "write"
  /\ md' = [md EXCEPT ![src][slot] = beer]
  /\ IF holder = "sync" THEN pc' = "loop" /\ UNCHANGED <<holder, job>>
     ELSE Release
  /\ UNCHANGED <<cloud, img, oldBeers, hurt>>

NextFile == IF "md" \in leaving THEN "md" ELSE "img"

Content(file) == IF file = "md" THEN md[src][slot] ELSE ImageFor(src, slot)

CopyOut ==
  /\ pc = "copy" /\ leaving # {}
  /\ oldBeers' = [oldBeers EXCEPT ![NextFile] =
                    @ \cup {[source |-> src, slot |-> slot,
                             content |-> Content(NextFile)]}]
  /\ pc' = "unlink"
  /\ UNCHANGED <<cloud, md, img, holder, job, hurt>>

UnlinkMoved ==
  /\ pc = "unlink"
  /\ IF NextFile = "md"
     THEN md' = [md EXCEPT ![src][slot] = NoFile] /\ UNCHANGED img
     ELSE /\ SetPhotos(src, slot, [img[src][slot] EXCEPT
                                     ![ImageExt(src, slot)] = NoFile])
          /\ UNCHANGED md
  /\ leaving' = leaving \ {NextFile}
  /\ pc' = "copy"
  /\ UNCHANGED <<cloud, oldBeers, holder, sweeps, todo, target, hurt>>

Archived ==
  /\ pc = "copy" /\ leaving = {}
  /\ IF holder = "sync" THEN pc' = "archive" /\ UNCHANGED <<holder, job>>
     ELSE Release
  /\ UNCHANGED <<cloud, files, hurt>>

-----------------------------------------------------------------------------
(* The world outside.                                                      *)

BrewerEdits(b, s, st, p) ==
  /\ cloud[b].rev < MaxRev
  /\ cloud' = [cloud EXCEPT ![b] = [tap |-> s, teaser |-> FALSE, status |-> st,
                                    rev |-> @.rev + 1, pic |-> p]]
  /\ UNCHANGED <<files, holder, pc, job, hurt>>

HandDamages(source, s, spoilt) ==
  /\ Readable(md[source][s])
  /\ Mishap("hand")
  /\ md' = [md EXCEPT ![source][s] = spoilt]
  /\ UNCHANGED <<cloud, img, oldBeers, holder, pc, job>>

(* An OSError: the archive logs it and goes on to the next file, any other *)
(* write gives the whole job up.                                           *)
DiskFails ==
  /\ Mishap("disk")
  /\ \/ pc \in {"save", "write"} /\ Release
     \/ /\ pc = "copy" /\ leaving # {}
        /\ leaving' = leaving \ {NextFile}
        /\ UNCHANGED <<holder, pc, sweeps, todo, target>>
  /\ UNCHANGED <<cloud, files>>

(* safe_unlink answers False and nobody asks.                              *)
UnlinkFails ==
  /\ Mishap("unlink")
  /\ \/ /\ pc = "sweep" /\ pc' = "save" /\ UNCHANGED leaving
     \/ /\ pc = "photo" /\ pic = NoPic /\ pc' = "write" /\ UNCHANGED leaving
     \/ pc = "unlink" /\ pc' = "copy" /\ leaving' = leaving \ {NextFile}
  /\ UNCHANGED <<cloud, files, holder, sweeps, todo, target>>

Crash ==
  /\ holder # "none"
  /\ Mishap("crash")
  /\ Release
  /\ UNCHANGED <<cloud, files>>

-----------------------------------------------------------------------------
SyncStep ==
  \/ FetchSweep \/ FetchDone \/ Downloaded \/ DeletePhoto
  \/ ArchiveUndesired \/ SyncSucceeds
  \/ \E s \in Slots : SkipUnchanged(s) \/ SyncRaises(s) \/ WriteTap(s) \/ ArchiveNext(s)

StoreStep ==
  SweepOldPhotos \/ SavePhoto \/ WriteMd \/ CopyOut \/ UnlinkMoved \/ Archived

AdminStep ==
  \E s \in Slots :
    \/ \E b \in ManualBeers, p \in 0..NumExts : SaveOverride(s, b, p)
    \/ ClearOverride(s)

Outside ==
  \/ \E b \in Batches, s \in Slots \cup {NoSlot}, st \in BatchStatuses,
        p \in 0..NumExts : BrewerEdits(b, s, st, p)
  \/ \E source \in Sources, s \in Slots, spoilt \in Spoilt : HandDamages(source, s, spoilt)
  \/ FetchFails \/ DownloadFails \/ DiskFails \/ UnlinkFails \/ Crash

Next == SyncStart \/ SyncStep \/ StoreStep \/ AdminStep \/ Outside

Spec == Init /\ [][Next]_vars

(* The holder of the lock goes on; a sync that is due gets the lock in the *)
(* end, however often the Admin takes it.                                  *)
FairSpec == Spec /\ WF_vars(SyncStep \/ StoreStep) /\ SF_vars(SyncStart)

-----------------------------------------------------------------------------
CloudBatch ==
  [tap : 0..MAX_NUM_TAPS, teaser : {FALSE}, rev : 0..MaxRev,
   status : Statuses, pic : 0..NumExts]

MdFiles == Beers \cup {NoFile} \cup Spoilt
Photos  == Beers \cup {NoFile}

ArchivedFiles(contents) ==
  [source : Sources, slot : Slots, content : contents]

(* The shape of every variable, and which locals are live at which step.   *)
TypeOK ==
  /\ cloud \in [Batches -> CloudBatch]
  /\ md \in [Sources -> [Slots -> MdFiles]]
  /\ img \in [Sources -> [Slots -> [Exts -> Photos]]]
  /\ oldBeers \in [md : SUBSET ArchivedFiles(MdFiles),
                   img : SUBSET ArchivedFiles(Photos)]
  /\ holder \in {"none", "sync", "admin"}
  /\ pc \in {"idle", "fetch", "loop", "photo", "sweep", "save", "write",
             "archive", "copy", "unlink"}
  /\ sweep \in 0..Len(FetchOrder)
  /\ fetched \in [Batches -> CloudBatch]
  /\ todo \subseteq Slots
  /\ slot \in 0..MAX_NUM_TAPS /\ src \in Sources
  /\ beer \in Beers \cup {NoFile} /\ pic \in 0..NumExts
  /\ leaving \subseteq {"md", "img"}
  /\ hurt \in [Mishaps -> Nat]

Unhurt(kinds) == \A kind \in kinds : hurt[kind] = 0

(* save_image promises that a Slot never ends up with two photos and no    *)
(* way to say which one is current: whatever crashes, fails or is edited   *)
(* by hand, every Tap of either Source has at most one photo file, as long *)
(* as unlinks unlink.                                                      *)
OnePhotoPerTap ==
  Unhurt({"unlink"}) =>
    \A source \in Sources, s \in Slots : \A e, f \in Exts :
      (img[source][s][e] # NoFile /\ img[source][s][f] # NoFile) => e = f

(* _store_image keeps a photo only for the Batch it was cached for: when   *)
(* no sync is in the middle of a write, the photo beside a Brewfather Tap  *)
(* is its own Batch's, through every change of claim, failed download and  *)
(* hand edit.  A crash or a disk error between the two writes can break it *)
(* for good: _is_unchanged accepts any photo.                              *)
OwnPhoto ==
  (Unhurt({"disk", "unlink", "crash"}) /\ holder # "sync") =>
    \A s \in Slots : \A e \in Exts :
      LET file == md["brewfather"][s]
          photo == img["brewfather"][s][e]
      IN  (Readable(file) /\ photo # NoFile) => photo.id = file.id

(* ... and it is the photo of the very revision the md describes, if no    *)
(* download ever failed either.                                            *)
CurrentPhoto ==
  (Unhurt({"disk", "unlink", "crash", "download"}) /\ holder # "sync") =>
    \A s \in Slots : \A e \in Exts :
      (Readable(md["brewfather"][s]) /\ img["brewfather"][s][e] # NoFile) =>
         img["brewfather"][s][e] = md["brewfather"][s]

(* When run_sync reports success the Brewfather Taps are what it fetched:  *)
(* every claimed Slot holds its winner at the fetched revision (or was     *)
(* spoilt by hand since), override or no override, and every unclaimed    *)
(* Slot is empty unless archiving it failed.                               *)
SyncLeavesTapsCurrent ==
  [][SyncSucceeds =>
       \A s \in Slots :
         IF s \in DOMAIN Desired
         THEN md["brewfather"][s] \in {WantedBeer(s)} \cup Spoilt
         ELSE md["brewfather"][s] # NoFile => ~Unhurt({"disk", "unlink"})]_vars

(* archive_tap never loses a Tap: an md file leaves taps/ for nothing only *)
(* after its content is in old_beers/, whatever the archive was            *)
(* interrupted by before.                                                  *)
ArchivedBeforeRemoved ==
  [][\A source \in Sources, s \in Slots :
       (Readable(md[source][s]) /\ md'[source][s] = NoFile) =>
         [source |-> source, slot |-> s, content |-> md[source][s]]
            \in oldBeers'.md]_vars

(* The board under an override never changes because of a sync: no fetch,  *)
(* write, archive or failure of one reaches a Manual Tap.                  *)
SyncNeverShowsThroughOverride ==
  [][(holder = "sync" /\ hurt'["hand"] = hurt["hand"]) =>
       \A s \in Slots : md["manual"][s] # NoFile => Board(s)' = Board(s)]_vars

(* A Tap that agrees with what Brewfather holds now.                       *)
Converged(s) ==
  LET wanted == DesiredMap(Listing) IN
  IF s \in DOMAIN wanted
  THEN LET batch == cloud[wanted[s]] IN
       /\ md["brewfather"][s] = [id |-> wanted[s], rev |-> batch.rev]
       /\ HasPhoto("brewfather", s) = (batch.pic # NoPic)
  ELSE md["brewfather"][s] = NoFile

(* A sync that wants this Slot does not die of what it finds there.        *)
GetsPast(s) == s \in DOMAIN DesiredMap(Listing) => md["brewfather"][s] # NotText

(* Once Brewfather and the mishaps come to rest, the periodic sync makes   *)
(* every Slot current and keeps it so: right Batch, right revision, a      *)
(* photo exactly where one is offered, and no Tap nobody claims; a hand    *)
(* edit included, unless it left the file of a claimed Slot not UTF-8:     *)
(* every sync dies of that one, and the other Slots with it.               *)
TapsConverge ==
  <>[](\A s \in Slots : GetsPast(s)) => <>[](\A s \in Slots : Converged(s))
=============================================================================
