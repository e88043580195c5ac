--------------------------- MODULE TapSyncProofs ---------------------------
(***************************************************************************)
(* What TLAPS proves of TapSync, for any number of Slots, Batches, image   *)
(* extensions and revisions and any budget of mishaps, and of Snapshot,    *)
(* for any Snapshots and browsers.  JobOK says which locals of the lock    *)
(* holder are meaningful at which step; every other invariant rests on it. *)
(* In the second half, while an import holds JOB_LOCK the Taps rest        *)
(* (Resting) and the import has done so far exactly what it has taken off  *)
(* its list (ImportInv); while it does not, TapSync's invariant holds.     *)
(***************************************************************************)
EXTENDS Snapshot, WellFoundedInduction, TLAPS

(* The program counters at which the holder works on one Tap.              *)
OnPhoto   == {"photo", "sweep", "save", "write"}
OnArchive == {"copy", "unlink"}

JobOK ==
  /\ (holder = "none") <=> (pc = "idle")
  /\ pc \in {"fetch", "loop", "photo", "archive"} => holder = "sync"
  /\ holder # "admin" => src = "brewfather"
  /\ holder = "admin" => src = "manual"
  /\ pc \in OnPhoto \cup OnArchive => slot \in Slots
  /\ pc \in OnPhoto => beer \in Beers
  /\ (holder = "sync" /\ pc \in {"loop"} \cup OnPhoto) => todo \subseteq DOMAIN Desired
  /\ pc \in {"sweep", "save"} => pic \in Exts
  /\ pc = "unlink" => leaving # {}
  /\ (pc \in OnArchive /\ "md" \in leaving) => md[src][slot] # NoFile
  /\ (pc \in OnArchive /\ "img" \in leaving) => HasPhoto(src, slot)

Inv == TypeOK /\ JobOK

-----------------------------------------------------------------------------
(* Every non-empty set of naturals has a least element.                    *)
LEMMA LeastNat ==
  ASSUME NEW T, T \subseteq Nat, T # {}
  PROVE  \E m \in T : \A k \in T : m <= k
<1>1. PICK m \in T : \A k \in T : ~(<<k, m>> \in OpToRel(<, Nat))
  BY NatLessThanWellFounded, WFMin
<1>2. \A k \in T : ~(k < m)
  BY <1>1 DEF OpToRel
<1>3. \A k \in T : m <= k
  BY <1>2
<1> QED
  BY <1>3

(* image_for answers an extension that has a file.                         *)
LEMMA ImageExtType ==
  ASSUME NEW source \in Sources, NEW s \in Slots, HasPhoto(source, s)
  PROVE  /\ ImageExt(source, s) \in Exts
         /\ img[source][s][ImageExt(source, s)] # NoFile
<1> DEFINE has == {e \in Exts : img[source][s][e] # NoFile}
<1>1. has \subseteq Nat /\ has # {}
  BY TapSyncAssumption DEF HasPhoto, Exts
<1>2. PICK e \in has : \A f \in has : e <= f
  BY <1>1, LeastNat
<1>3. \A f \in Exts : f < e => img[source][s][f] = NoFile
  BY <1>2, TapSyncAssumption DEF Exts
<1>4. \E x \in Exts : /\ img[source][s][x] # NoFile
                      /\ \A f \in Exts : f < x => img[source][s][f] = NoFile
  BY <1>2, <1>3
<1> QED
  BY <1>4 DEF ImageExt

LEMMA ImageForType ==
  ASSUME TypeOK, NEW source \in Sources, NEW s \in Slots
  PROVE  ImageFor(source, s) \in Photos
BY ImageExtType DEF ImageFor, TypeOK, Photos

(* A Slot that is claimed in a listing has a winner: of its claimants of   *)
(* the lowest rank the latest of the newest (MappingLoopsProofs proves     *)
(* that it is the one the loop of desired_map arrives at).                 *)
LEMMA ClaimHasWinner ==
  ASSUME NEW l \in [Batches -> CloudBatch], NEW s \in ClaimedSlots(l, NumBatches)
  PROVE  \E i \in Batches : Wins(l, NumBatches, s, i)
<1> DEFINE rank(i) == StatusRank(l[i].status)
<1> DEFINE C == Claimants(l, NumBatches, s)
<1>1. C # {} /\ C \subseteq Batches
  BY DEF ClaimedSlots, Claimants, Batches
<1>2. \A i \in Batches : l[i].status \in Statuses /\ l[i].rev \in 0..MaxRev
  BY DEF CloudBatch
<1>3. \A i \in Batches : rank(i) \in Nat
  BY <1>2 DEF StatusRank, Statuses
<1>4. \A i \in Batches : i \in Int /\ NumBatches - i \in Nat
  BY TapSyncAssumption DEF Batches
<1>5. \A i \in Batches : l[i].rev \in Int /\ MaxRev - l[i].rev \in Nat
  BY <1>2, TapSyncAssumption
<1> HIDE DEF rank, C
<1>6. PICK b \in C : \A j \in C : rank(b) <= rank(j)
  <2> DEFINE T == {rank(i) : i \in C}
  <2>1. T \subseteq Nat /\ T # {}
    BY <1>1, <1>3
  <2>2. PICK m \in T : \A k \in T : m <= k
    BY <2>1, LeastNat
  <2> QED
    BY <2>2
<1> DEFINE D == {i \in C : rank(i) = rank(b)}
<1>7. PICK d \in D : \A j \in D : MaxRev - l[d].rev <= MaxRev - l[j].rev
  <2> DEFINE T == {MaxRev - l[i].rev : i \in D}
  <2>1. T \subseteq Nat /\ T # {}
    BY <1>1, <1>5
  <2>2. PICK m \in T : \A k \in T : m <= k
    BY <2>1, LeastNat
  <2> QED
    BY <2>2
<1> DEFINE E == {i \in D : l[i].rev = l[d].rev}
<1>8. PICK e \in E : \A j \in E : NumBatches - e <= NumBatches - j
  <2> DEFINE T == {NumBatches - i : i \in E}
  <2>1. T \subseteq Nat /\ T # {}
    BY <1>1, <1>4
  <2>2. PICK m \in T : \A k \in T : m <= k
    BY <2>1, LeastNat
  <2> QED
    BY <2>2
<1>9. ASSUME NEW j \in C \ {e} PROVE Beats(l, e, j)
  <2>1. j \in Batches /\ e \in Batches /\ rank(e) = rank(b) /\ l[e].rev = l[d].rev
    BY <1>1, <1>8
  <2>2. CASE rank(j) # rank(b)
    <3>1. rank(e) < rank(j)
      BY <1>3, <1>6, <2>1, <2>2
    <3> QED
      BY <3>1 DEF Beats, rank
  <2>3. CASE rank(j) = rank(b) /\ l[j].rev # l[d].rev
    <3>1. MaxRev - l[d].rev <= MaxRev - l[j].rev
      BY <1>7, <2>3
    <3>2. l[e].rev > l[j].rev
      BY <1>5, <2>1, <2>3, <3>1, TapSyncAssumption
    <3> QED
      BY <2>1, <2>3, <3>2 DEF Beats, rank
  <2>4. CASE rank(j) = rank(b) /\ l[j].rev = l[d].rev
    <3>1. NumBatches - e <= NumBatches - j
      BY <1>8, <2>4
    <3>2. e > j
      BY <1>4, <2>1, <3>1, TapSyncAssumption
    <3> QED
      BY <2>1, <2>4, <3>2 DEF Beats, rank
  <2> QED
    BY <2>2, <2>3, <2>4
<1>10. e \in C
  BY <1>8
<1> QED
  BY <1>1, <1>9, <1>10 DEF Wins, C

(* desired_map answers Batches of the listing, for the Slots claimed in it. *)
LEMMA DesiredType ==
  ASSUME TypeOK
  PROVE  /\ DOMAIN Desired = ClaimedSlots(fetched, NumBatches)
         /\ \A s \in DOMAIN Desired : s \in Slots /\ Desired[s] \in Batches
<1>1. fetched \in [Batches -> CloudBatch]
  BY DEF TypeOK
<1>2. Len(fetched) = NumBatches
  <2>1. fetched \in Seq(CloudBatch)
    BY <1>1, TapSyncAssumption DEF Batches
  <2> QED
    BY <1>1, <2>1, TapSyncAssumption DEF Batches
<1>3. \A s \in ClaimedSlots(fetched, NumBatches) :
        \E i \in Batches : Wins(fetched, NumBatches, s, i)
  BY <1>1, ClaimHasWinner
<1> QED
  BY <1>2, <1>3 DEF Desired, DesiredMap, Batches, ClaimedSlots

(* What the sync wants of a claimed Slot is a Beer, and its photo an       *)
(* extension or none.                                                      *)
LEMMA WantedType ==
  ASSUME TypeOK, NEW s \in DOMAIN Desired
  PROVE  /\ s \in Slots
         /\ WantedBeer(s) \in Beers
         /\ Winner(s).pic \in 0..NumExts
<1>2. s \in Slots /\ Desired[s] \in Batches
  BY DesiredType
<1>3. fetched[Desired[s]] \in CloudBatch
  BY <1>2 DEF TypeOK
<1> QED
  BY <1>2, <1>3 DEF WantedBeer, Winner, Beers, CloudBatch

LEMMA DesiredSlots ==
  ASSUME TypeOK PROVE DOMAIN Desired \subseteq Slots
BY DesiredType

LEMMA UnlistedType == Unlisted \in CloudBatch /\ NoListing \in [Batches -> CloudBatch]
BY TapSyncAssumption, MaxNumTapsAssumption
   DEF Unlisted, NoListing, CloudBatch, NoSlot, NoPic, Statuses
-----------------------------------------------------------------------------
LEMMA InitInv == Init => Inv
<1> SUFFICES ASSUME Init PROVE Inv
  OBVIOUS
<1> USE TapSyncAssumption, MaxNumTapsAssumption, UnlistedType DEF Init
<1>1. TypeOK
  BY DEF TypeOK, MdFiles, Photos, Sources, Mishaps, NoPhotos, ArchivedFiles,
         NoSlot, NoPic
<1>2. JobOK
  BY DEF JobOK, OnPhoto, OnArchive
<1> QED
  BY <1>1, <1>2 DEF Inv

(* Releasing the lock restores the shape of the job's locals.              *)
LEMMA ReleaseInv ==
  ASSUME Release
  PROVE  /\ holder' \in {"none", "sync", "admin"} /\ pc' = "idle"
         /\ sweep' \in 0..Len(FetchOrder) /\ fetched' \in [Batches -> CloudBatch]
         /\ todo' \subseteq Slots /\ slot' \in 0..MAX_NUM_TAPS /\ src' \in Sources
         /\ beer' \in Beers \cup {NoFile} /\ pic' \in 0..NumExts
         /\ leaving' \subseteq {"md", "img"}
         /\ JobOK'
<1> USE TapSyncAssumption, MaxNumTapsAssumption
<1>1. Len(FetchOrder) \in Nat
  OBVIOUS
<1> QED
  BY <1>1, UnlistedType DEF Release, Sources, NoSlot, NoPic, JobOK, OnPhoto, OnArchive

(* A mishap is counted, and the count stays a number.                      *)
LEMMA MishapType ==
  ASSUME TypeOK, NEW kind \in Mishaps, Mishap(kind)
  PROVE  hurt' \in [Mishaps -> Nat]
BY DEF TypeOK, Mishap

(* Replacing the photos of one Tap by photos keeps img well-shaped.        *)
LEMMA PhotosType ==
  ASSUME TypeOK, NEW source \in Sources, NEW s,
         NEW photos \in [Exts -> Photos], SetPhotos(source, s, photos)
  PROVE  img' \in [Sources -> [Slots -> [Exts -> Photos]]]
BY DEF TypeOK, SetPhotos

LEMMA NoPhotosType == NoPhotos \in [Exts -> Photos]
BY DEF NoPhotos, Photos

(* Every step keeps the invariant.                                         *)
LEMMA NextInv == Inv /\ [Next]_vars => Inv'
<1> SUFFICES ASSUME Inv, [Next]_vars PROVE Inv'
  OBVIOUS
<1> USE TapSyncAssumption, MaxNumTapsAssumption
<1> USE DEF Inv, OnPhoto, OnArchive, files, sweeps, target, job, Sources
<1>0. TypeOK /\ JobOK /\ Len(FetchOrder) \in Nat
  OBVIOUS
<1>1. CASE SyncStart
  <2>1. TypeOK'
    BY <1>1, <1>0 DEF SyncStart, TypeOK
  <2>2. JobOK'
    BY <1>1, <1>0 DEF SyncStart, JobOK, HasPhoto, Desired
  <2> QED
    BY <2>1, <2>2
<1>2. CASE FetchSweep
  <2>1. TypeOK'
    BY <1>2, <1>0 DEF FetchSweep, Swept, TypeOK
  <2>2. JobOK'
    BY <1>2, <1>0 DEF FetchSweep, JobOK, HasPhoto, Desired
  <2> QED
    BY <2>1, <2>2
<1>3. CASE FetchDone
  <2>1. TypeOK'
    BY <1>3, <1>0, DesiredSlots DEF FetchDone, TypeOK
  <2>2. JobOK'
    BY <1>3, <1>0 DEF FetchDone, JobOK, HasPhoto, Desired
  <2> QED
    BY <2>1, <2>2
<1>4. CASE FetchFails
  <2>1. TypeOK'
    BY <1>4, <1>0, ReleaseInv, MishapType DEF FetchFails, TypeOK, Mishaps
  <2>2. JobOK'
    BY <1>4, <1>0, ReleaseInv DEF FetchFails
  <2> QED
    BY <2>1, <2>2
<1>5. ASSUME NEW s \in Slots, SkipUnchanged(s) PROVE Inv'
  <2>1. TypeOK'
    BY <1>5, <1>0 DEF SkipUnchanged, TypeOK
  <2>2. JobOK'
    BY <1>5, <1>0 DEF SkipUnchanged, JobOK, HasPhoto, Desired
  <2> QED
    BY <2>1, <2>2
<1>6. ASSUME NEW s \in Slots, WriteTap(s) PROVE Inv'
  <2>0. WantedBeer(s) \in Beers /\ Winner(s).pic \in 0..NumExts
    BY <1>6, <1>0, WantedType DEF WriteTap, JobOK
  <2>1. TypeOK'
    BY <1>6, <1>0, <2>0 DEF WriteTap, TypeOK, Slots
  <2>2. JobOK'
    BY <1>6, <1>0, <2>0 DEF WriteTap, JobOK, HasPhoto, Desired
  <2> QED
    BY <2>1, <2>2
<1>27. ASSUME NEW s \in Slots, SyncRaises(s) PROVE Inv'
  <2>1. TypeOK'
    BY <1>27, <1>0, ReleaseInv DEF SyncRaises, TypeOK
  <2>2. JobOK'
    BY <1>27, <1>0, ReleaseInv DEF SyncRaises
  <2> QED
    BY <2>1, <2>2
<1>7. CASE Downloaded
  <2>1. TypeOK'
    BY <1>7, <1>0 DEF Downloaded, TypeOK
  <2>2. JobOK'
    BY <1>7, <1>0 DEF Downloaded, JobOK, TypeOK, HasPhoto, Desired, Exts, NoPic
  <2> QED
    BY <2>1, <2>2
<1>8. CASE DownloadFails
  <2>1. TypeOK'
    <3>1. img' \in [Sources -> [Slots -> [Exts -> Photos]]] /\ hurt' \in [Mishaps -> Nat]
      BY <1>8, <1>0, MishapType, PhotosType, NoPhotosType DEF DownloadFails, TypeOK, Mishaps
    <3>2. CASE md[src][slot] = NotText
      BY <1>8, <1>0, <3>1, <3>2, ReleaseInv DEF DownloadFails, TypeOK
    <3>3. CASE md[src][slot] # NotText
      BY <1>8, <1>0, <3>1, <3>3 DEF DownloadFails, TypeOK
    <3> QED
      BY <3>2, <3>3
  <2>2. JobOK'
    BY <1>8, <1>0, ReleaseInv DEF DownloadFails, JobOK, Desired
  <2> QED
    BY <2>1, <2>2
<1>9. CASE DeletePhoto
  <2>1. TypeOK'
    BY <1>9, <1>0, PhotosType, NoPhotosType DEF DeletePhoto, TypeOK
  <2>2. JobOK'
    BY <1>9, <1>0 DEF DeletePhoto, JobOK, Desired
  <2> QED
    BY <2>1, <2>2
<1>10. CASE ArchiveUndesired
  <2>1. TypeOK'
    BY <1>10, <1>0 DEF ArchiveUndesired, OccupiedSlotsOf, TypeOK
  <2>2. JobOK'
    BY <1>10, <1>0 DEF ArchiveUndesired, JobOK, HasPhoto, Desired
  <2> QED
    BY <2>1, <2>2
<1>11. ASSUME NEW s \in Slots, ArchiveNext(s) PROVE Inv'
  <2>1. TypeOK'
    BY <1>11, <1>0 DEF ArchiveNext, ExistingPaths, TypeOK, Slots
  <2>2. JobOK'
    BY <1>11, <1>0 DEF ArchiveNext, ExistingPaths, JobOK, HasPhoto, Desired
  <2> QED
    BY <2>1, <2>2
<1>12. CASE SyncSucceeds
  <2>1. TypeOK'
    BY <1>12, <1>0, ReleaseInv DEF SyncSucceeds, TypeOK
  <2>2. JobOK'
    BY <1>12, <1>0, ReleaseInv DEF SyncSucceeds
  <2> QED
    BY <2>1, <2>2
<1>13. ASSUME NEW s \in Slots, NEW b \in ManualBeers, NEW p \in 0..NumExts,
             SaveOverride(s, b, p)
      PROVE  Inv'
  <2>1. TypeOK'
    BY <1>13, <1>0 DEF SaveOverride, TypeOK, Beers, Slots
  <2>2. JobOK'
    BY <1>13, <1>0 DEF SaveOverride, JobOK, Beers, Exts, NoPic
  <2> QED
    BY <2>1, <2>2
<1>14. ASSUME NEW s \in Slots, ClearOverride(s) PROVE Inv'
  <2>1. TypeOK'
    BY <1>14, <1>0 DEF ClearOverride, ExistingPaths, TypeOK, Slots
  <2>2. JobOK'
    BY <1>14, <1>0 DEF ClearOverride, ExistingPaths, JobOK, HasPhoto, Desired
  <2> QED
    BY <2>1, <2>2
<1>15. CASE SweepOldPhotos
  <2>0. src \in Sources /\ slot \in Slots /\ pic \in Exts
        /\ [NoPhotos EXCEPT ![pic] = img[src][slot][pic]] \in [Exts -> Photos]
    BY <1>15, <1>0, NoPhotosType DEF SweepOldPhotos, TypeOK, JobOK
  <2>1. TypeOK'
    BY <1>15, <1>0, <2>0, PhotosType DEF SweepOldPhotos, TypeOK
  <2>2. JobOK'
    BY <1>15, <1>0 DEF SweepOldPhotos, JobOK, Desired
  <2> QED
    BY <2>1, <2>2
<1>16. CASE SavePhoto
  <2>0. src \in Sources /\ slot \in Slots /\ pic \in Exts
        /\ [img[src][slot] EXCEPT ![pic] = beer] \in [Exts -> Photos]
    BY <1>16, <1>0 DEF SavePhoto, TypeOK, JobOK, Photos
  <2>1. TypeOK'
    BY <1>16, <1>0, <2>0, PhotosType DEF SavePhoto, TypeOK
  <2>2. JobOK'
    BY <1>16, <1>0 DEF SavePhoto, JobOK, Desired
  <2> QED
    BY <2>1, <2>2
<1>17. CASE WriteMd
  <2>1. TypeOK'
    BY <1>17, <1>0, ReleaseInv DEF WriteMd, TypeOK, JobOK, MdFiles
  <2>2. JobOK'
    BY <1>17, <1>0, ReleaseInv DEF WriteMd, JobOK, Desired
  <2> QED
    BY <2>1, <2>2
<1>18. CASE CopyOut
  <2>0. oldBeers' \in [md : SUBSET ArchivedFiles(MdFiles),
                       img : SUBSET ArchivedFiles(Photos)]
    <3>1. slot \in Slots /\ src \in Sources
      BY <1>18, <1>0 DEF CopyOut, TypeOK, JobOK
    <3>2. CASE NextFile = "md"
      <4>1. [source |-> src, slot |-> slot, content |-> Content(NextFile)]
              \in ArchivedFiles(MdFiles)
        BY <3>1, <3>2, <1>0 DEF Content, ArchivedFiles, TypeOK
      <4> QED
        BY <1>18, <1>0, <3>2, <4>1 DEF CopyOut, TypeOK
    <3>3. CASE NextFile = "img"
      <4>1. [source |-> src, slot |-> slot, content |-> Content(NextFile)]
              \in ArchivedFiles(Photos)
        BY <3>1, <3>3, <1>0, ImageForType DEF Content, ArchivedFiles
      <4> QED
        BY <1>18, <1>0, <3>3, <4>1 DEF CopyOut, TypeOK
    <3> QED
      BY <3>2, <3>3 DEF NextFile
  <2>1. TypeOK'
    BY <1>18, <1>0, <2>0 DEF CopyOut, TypeOK
  <2>2. JobOK'
    BY <1>18, <1>0 DEF CopyOut, JobOK, HasPhoto, Desired
  <2> QED
    BY <2>1, <2>2
<1>19. CASE UnlinkMoved
  <2>0. /\ src \in Sources /\ slot \in Slots
        /\ [img[src][slot] EXCEPT ![ImageExt(src, slot)] = NoFile]
             \in [Exts -> Photos]
    BY <1>19, <1>0 DEF UnlinkMoved, TypeOK, JobOK, Photos
  <2>1. TypeOK'
    <3>1. CASE NextFile = "md"
      <4>0. md' = [md EXCEPT ![src][slot] = NoFile] /\ NoFile \in MdFiles
        BY <1>19, <3>1 DEF UnlinkMoved, MdFiles
      <4>1. md' \in [Sources -> [Slots -> MdFiles]]
        BY <4>0, <1>0 DEF TypeOK
      <4>2. UNCHANGED img /\ leaving' \subseteq {"md", "img"}
        BY <1>19, <1>0, <3>1 DEF UnlinkMoved, TypeOK
      <4> QED
        BY <1>19, <1>0, <4>1, <4>2 DEF UnlinkMoved, TypeOK
    <3>2. CASE NextFile # "md"
      BY <1>19, <1>0, <2>0, <3>2, PhotosType DEF UnlinkMoved, TypeOK
    <3> QED
      BY <3>1, <3>2
  <2>2. JobOK'
    BY <1>19, <1>0, <2>0 DEF UnlinkMoved, NextFile, JobOK, HasPhoto, Desired
  <2> QED
    BY <2>1, <2>2
<1>20. CASE Archived
  <2>1. TypeOK'
    BY <1>20, <1>0, ReleaseInv DEF Archived, TypeOK
  <2>2. JobOK'
    BY <1>20, <1>0, ReleaseInv DEF Archived, JobOK, HasPhoto, Desired
  <2> QED
    BY <2>1, <2>2
<1>21. ASSUME NEW b \in Batches, NEW s \in Slots \cup {NoSlot},
             NEW st \in BatchStatuses, NEW p \in 0..NumExts,
             BrewerEdits(b, s, st, p)
      PROVE  Inv'
  <2>0. [tap |-> s, teaser |-> FALSE, status |-> st, rev |-> cloud[b].rev + 1,
         pic |-> p] \in CloudBatch
    <3>1. cloud[b].rev \in 0..MaxRev /\ cloud[b].rev < MaxRev
      BY <1>21, <1>0 DEF BrewerEdits, TypeOK, CloudBatch
    <3>2. cloud[b].rev + 1 \in 0..MaxRev /\ s \in 0..MAX_NUM_TAPS
          /\ st \in Statuses
      BY <3>1 DEF Slots, NoSlot
    <3> QED
      BY <3>2 DEF CloudBatch
  <2>1. TypeOK'
    BY <1>21, <1>0, <2>0 DEF BrewerEdits, TypeOK
  <2>2. JobOK'
    BY <1>21, <1>0 DEF BrewerEdits, JobOK, HasPhoto, Desired
  <2> QED
    BY <2>1, <2>2
<1>22. ASSUME NEW source \in Sources, NEW s \in Slots, NEW spoilt \in Spoilt,
             HandDamages(source, s, spoilt)
      PROVE  Inv'
  <2>1. TypeOK'
    BY <1>22, <1>0, MishapType DEF HandDamages, TypeOK, Mishaps, MdFiles
  <2>2. JobOK'
    BY <1>22, <1>0 DEF HandDamages, Spoilt, JobOK, HasPhoto, Desired, TypeOK
  <2> QED
    BY <2>1, <2>2
<1>23. CASE DiskFails
  <2>1. TypeOK'
    BY <1>23, <1>0, ReleaseInv, MishapType DEF DiskFails, TypeOK, Mishaps
  <2>2. JobOK'
    BY <1>23, <1>0, ReleaseInv DEF DiskFails, NextFile, JobOK, HasPhoto, Desired
  <2> QED
    BY <2>1, <2>2
<1>24. CASE UnlinkFails
  <2>1. TypeOK'
    BY <1>24, <1>0, MishapType DEF UnlinkFails, TypeOK, Mishaps
  <2>2. JobOK'
    BY <1>24, <1>0 DEF UnlinkFails, NextFile, JobOK, HasPhoto, Desired
  <2> QED
    BY <2>1, <2>2
<1>25. CASE Crash
  <2>1. TypeOK'
    BY <1>25, <1>0, ReleaseInv, MishapType DEF Crash, TypeOK, Mishaps
  <2>2. JobOK'
    BY <1>25, <1>0, ReleaseInv DEF Crash
  <2> QED
    BY <2>1, <2>2
<1>26. CASE UNCHANGED vars
  <2>1. TypeOK'
    BY <1>26, <1>0 DEF vars, TypeOK
  <2>2. JobOK'
    BY <1>26, <1>0 DEF vars, JobOK, HasPhoto, Desired
  <2> QED
    BY <2>1, <2>2
<1> QED
  BY <1>1, <1>2, <1>3, <1>4, <1>5, <1>6, <1>7, <1>8, <1>9, <1>10, <1>11,
     <1>12, <1>13, <1>14, <1>15, <1>16, <1>17, <1>18, <1>19, <1>20, <1>21,
     <1>22, <1>23, <1>24, <1>25, <1>26, <1>27
     DEF Next, SyncStep, StoreStep, AdminStep, Outside

(* Every variable keeps its shape, and the locals of the lock holder are   *)
(* meaningful wherever they are used: under TypeOK alone a step could      *)
(* write a Beer it never read.                                             *)
THEOREM Typing == Spec => []TypeOK
<1>1. Spec => []Inv
  BY InitInv, NextInv, PTL DEF Spec
<1> QED
  BY <1>1, PTL DEF Inv
-----------------------------------------------------------------------------
(* The steps that touch a file in taps/.                                   *)
FileStep ==
  \/ DownloadFails \/ DeletePhoto \/ SweepOldPhotos \/ SavePhoto
  \/ WriteMd \/ UnlinkMoved
  \/ \E source \in Sources, s \in Slots, spoilt \in Spoilt : HandDamages(source, s, spoilt)

LEMMA OnlyFileSteps ==
  ASSUME [Next]_vars, ~FileStep PROVE UNCHANGED <<md, img>>
BY DEF Next, SyncStep, StoreStep, AdminStep, Outside, FileStep, vars, files,
       SyncStart, FetchSweep, FetchDone, Downloaded, ArchiveUndesired,
       SyncSucceeds, SkipUnchanged, SyncRaises, WriteTap, ArchiveNext, CopyOut, Archived,
       SaveOverride, ClearOverride, BrewerEdits, FetchFails, DiskFails,
       UnlinkFails, Crash

(* An md file that is about to be unlinked is already in old_beers/.       *)
CopiedOut ==
  (pc = "unlink" /\ "md" \in leaving /\ Readable(md[src][slot])) =>
    [source |-> src, slot |-> slot, content |-> md[src][slot]] \in oldBeers.md

LEMMA CopiedOutKept == Inv /\ CopiedOut /\ [Next]_vars => CopiedOut'
<1> SUFFICES ASSUME Inv, CopiedOut, [Next]_vars, pc' = "unlink",
                    "md" \in leaving', Readable(md'[src'][slot'])
             PROVE  [source |-> src', slot |-> slot', content |-> md'[src'][slot']]
                      \in oldBeers'.md
  BY DEF CopiedOut, Readable
<1> USE DEF files, sweeps, target, job
<1>1. CASE CopyOut
  <2>1. NextFile = "md" /\ Content(NextFile) = md[src][slot]
    BY <1>1 DEF CopyOut, NextFile, Content
  <2>2. oldBeers'.md = oldBeers.md \cup {[source |-> src, slot |-> slot,
                                          content |-> md[src][slot]]}
    BY <1>1, <2>1 DEF CopyOut, Inv, TypeOK
  <2>3. UNCHANGED <<md, src, slot>>
    BY <1>1 DEF CopyOut
  <2> QED
    BY <2>2, <2>3
<1>2. ASSUME NEW source \in Sources, NEW s \in Slots, NEW spoilt \in Spoilt,
             HandDamages(source, s, spoilt)
      PROVE  md'[src'][slot'] = md[src][slot] /\ UNCHANGED <<src, slot, oldBeers, pc, leaving>>
  BY <1>2 DEF HandDamages, Inv, TypeOK, Readable
<1>3. CASE UNCHANGED vars
  BY <1>3 DEF vars, CopiedOut
<1>4. CASE \E b \in Batches, s \in Slots \cup {NoSlot}, st \in BatchStatuses,
              p \in 0..NumExts : BrewerEdits(b, s, st, p)
  BY <1>4 DEF BrewerEdits, CopiedOut
<1>5. \/ CopyOut \/ UNCHANGED vars
      \/ \E source \in Sources, s \in Slots, spoilt \in Spoilt : HandDamages(source, s, spoilt)
      \/ \E b \in Batches, s \in Slots \cup {NoSlot}, st \in BatchStatuses,
            p \in 0..NumExts : BrewerEdits(b, s, st, p)
  BY DEF Next, SyncStep, StoreStep, AdminStep, Outside,
         SyncStart, FetchSweep, FetchDone, Downloaded, DeletePhoto,
         ArchiveUndesired, SyncSucceeds, SkipUnchanged, SyncRaises, WriteTap, ArchiveNext,
         SweepOldPhotos, SavePhoto, WriteMd, UnlinkMoved, Archived,
         SaveOverride, ClearOverride, FetchFails, DownloadFails, DiskFails,
         UnlinkFails, Crash, Release, Inv, JobOK
<1> QED
  BY <1>1, <1>2, <1>3, <1>4, <1>5 DEF CopiedOut

(* What ArchivedBeforeRemoved and SyncNeverShowsThroughOverride say of one *)
(* step; the modules that add more writers cite the two lemmas.            *)
KeptWhenMoved ==
  \A source \in Sources, s \in Slots :
    (Readable(md[source][s]) /\ md'[source][s] = NoFile) =>
      [source |-> source, slot |-> s, content |-> md[source][s]] \in oldBeers'.md

ShownUnderOverride ==
  (holder = "sync" /\ hurt'["hand"] = hurt["hand"]) =>
    \A s \in Slots : md["manual"][s] # NoFile => Board(s)' = Board(s)

LEMMA MovesKeep == Inv /\ CopiedOut /\ [Next]_vars => KeptWhenMoved
<1> SUFFICES ASSUME Inv, CopiedOut, [Next]_vars,
                    NEW source \in Sources, NEW s \in Slots,
                    Readable(md[source][s]), md'[source][s] = NoFile
             PROVE  [source |-> source, slot |-> s, content |-> md[source][s]]
                       \in oldBeers'.md
  BY DEF KeptWhenMoved
<1>1. CASE UnlinkMoved
  <2>1. "md" \in leaving /\ md' = [md EXCEPT ![src][slot] = NoFile]
    BY <1>1 DEF UnlinkMoved, NextFile, Readable
  <2>2. source = src /\ s = slot
    BY <2>1 DEF Inv, TypeOK, Readable
  <2> QED
    BY <1>1, <2>1, <2>2 DEF UnlinkMoved, CopiedOut
<1>2. CASE WriteMd
  BY <1>2, TapSyncAssumption
     DEF WriteMd, Inv, JobOK, TypeOK, OnPhoto, Readable
<1>3. CASE \E x \in Sources, y \in Slots, spoilt \in Spoilt : HandDamages(x, y, spoilt)
  BY <1>3, TapSyncAssumption DEF HandDamages, Spoilt, Inv, TypeOK, Readable
<1>4. CASE UNCHANGED md
  BY <1>4 DEF Readable
<1> QED
  BY <1>1, <1>2, <1>3, <1>4, OnlyFileSteps
     DEF FileStep, DownloadFails, DeletePhoto, SweepOldPhotos, SavePhoto

LEMMA SyncShows == Inv /\ [Next]_vars => ShownUnderOverride
<1> SUFFICES ASSUME Inv, [Next]_vars, holder = "sync",
                    hurt'["hand"] = hurt["hand"],
                    NEW s \in Slots, md["manual"][s] # NoFile
             PROVE  Board(s)' = Board(s)
  BY DEF ShownUnderOverride
<1>1. src = "brewfather"
  BY DEF Inv, JobOK
<1>2. ~ \E source \in Sources, x \in Slots, spoilt \in Spoilt : HandDamages(source, x, spoilt)
  BY DEF HandDamages, Mishap, Inv, TypeOK, Mishaps
<1>3. md'["manual"] = md["manual"]
  BY <1>1, <1>2, OnlyFileSteps
     DEF FileStep, DownloadFails, DeletePhoto, SweepOldPhotos, SavePhoto,
         WriteMd, UnlinkMoved, Inv, TypeOK, Sources
<1>4. img'["manual"] = img["manual"]
  BY <1>1, <1>2, OnlyFileSteps
     DEF FileStep, DownloadFails, DeletePhoto, SweepOldPhotos, SavePhoto,
         WriteMd, UnlinkMoved, SetPhotos, Inv, TypeOK, Sources
<1>5. ImageFor("manual", s)' = ImageFor("manual", s)
  BY <1>4 DEF ImageFor, HasPhoto, ImageExt
<1> QED
  BY <1>3, <1>5 DEF Board

(* archive_tap never loses a Tap: whatever it was interrupted by, an md    *)
(* file that reads leaves taps/ only after old_beers/ holds its content.   *)
THEOREM ArchiveLosesNothing == Spec => ArchivedBeforeRemoved
<1>1. Init => CopiedOut
  BY DEF Init, CopiedOut
<1>2. Spec => [](Inv /\ CopiedOut)
  BY <1>1, InitInv, NextInv, CopiedOutKept, PTL DEF Spec
<1>3. KeptWhenMoved <=> \A source \in Sources, s \in Slots :
        (Readable(md[source][s]) /\ md'[source][s] = NoFile) =>
          [source |-> source, slot |-> s, content |-> md[source][s]] \in oldBeers'.md
  BY DEF KeptWhenMoved
<1> QED
  BY <1>2, <1>3, MovesKeep, PTL DEF Spec, ArchivedBeforeRemoved

(* A sync never changes what a Slot under an override shows: its locals    *)
(* point at the Brewfather Source from the first step to the last.         *)
THEOREM SyncLeavesOverrides == Spec => SyncNeverShowsThroughOverride
<1>1. ShownUnderOverride <=>
        ((holder = "sync" /\ hurt'["hand"] = hurt["hand"]) =>
           \A s \in Slots : md["manual"][s] # NoFile => Board(s)' = Board(s))
  BY DEF ShownUnderOverride
<1> QED
  BY <1>1, SyncShows, InitInv, NextInv, PTL DEF Spec, SyncNeverShowsThroughOverride

-----------------------------------------------------------------------------
(* The photos: at most one per Tap, and the Tap's own.  Both hold between  *)
(* the steps of a job only, so each invariant also says how far the        *)
(* running job has come with its Tap.                                      *)

(* The steps that touch a photo.                                           *)
PhotoStep ==
  \/ DownloadFails \/ DeletePhoto \/ SweepOldPhotos \/ SavePhoto \/ UnlinkMoved

LEMMA OnlyPhotoSteps ==
  ASSUME Inv, [Next]_vars, ~PhotoStep PROVE UNCHANGED img
BY OnlyFileSteps DEF PhotoStep, FileStep, WriteMd, HandDamages

(* No step takes a mishap back.                                            *)
LEMMA MishapsStay ==
  ASSUME Inv, [Next]_vars, NEW kind \in Mishaps, hurt'[kind] = 0
  PROVE  hurt[kind] = 0
<1>1. UNCHANGED hurt \/ \E k \in Mishaps : Mishap(k)
  BY DEF Next, SyncStep, StoreStep, AdminStep, Outside, vars, Mishaps,
       SyncStart, FetchSweep, FetchDone, Downloaded, DeletePhoto,
       ArchiveUndesired, SyncSucceeds, SkipUnchanged, SyncRaises, WriteTap, ArchiveNext,
       SweepOldPhotos, SavePhoto, WriteMd, CopyOut, UnlinkMoved, Archived,
       SaveOverride, ClearOverride, BrewerEdits, HandDamages, FetchFails,
       DownloadFails, DiskFails, UnlinkFails, Crash
<1> QED
  BY <1>1 DEF Mishap, Inv, TypeOK

(* The save of save_image follows its sweep.                               *)
LEMMA SavesAfterSweep ==
  ASSUME Inv, [Next]_vars, pc' = "save"
  PROVE  \/ SweepOldPhotos
         \/ UnlinkFails
         \/ pc = "save" /\ UNCHANGED <<img, src, slot, pic, holder, beer>>
BY DEF Next, SyncStep, StoreStep, AdminStep, Outside, vars, files, sweeps,
       target, job, Inv, JobOK,
       SyncStart, FetchSweep, FetchDone, Downloaded, DeletePhoto,
       ArchiveUndesired, SyncSucceeds, SkipUnchanged, SyncRaises, WriteTap, ArchiveNext,
       SweepOldPhotos, SavePhoto, WriteMd, CopyOut, UnlinkMoved, Archived,
       SaveOverride, ClearOverride, BrewerEdits, HandDamages, FetchFails,
       DownloadFails, DiskFails, UnlinkFails, Crash, Release

AtMostOne(photos) ==
  \A e, f \in Exts : (photos[e] # NoFile /\ photos[f] # NoFile) => e = f

PhotosInv ==
  Unhurt({"unlink"}) =>
    /\ \A source \in Sources, s \in Slots : AtMostOne(img[source][s])
    /\ pc = "save" => \A e \in Exts : e # pic => img[src][slot][e] = NoFile

LEMMA PhotosInvKept == Inv /\ PhotosInv /\ [Next]_vars => PhotosInv'
<1> SUFFICES ASSUME Inv, PhotosInv, [Next]_vars, hurt'["unlink"] = 0
             PROVE  /\ \A source \in Sources, s \in Slots : AtMostOne(img'[source][s])
                    /\ pc' = "save" =>
                         \A e \in Exts : e # pic' => img'[src'][slot'][e] = NoFile
  BY DEF PhotosInv, Unhurt, AtMostOne
<1>1. hurt["unlink"] = 0 /\ ~UnlinkFails
  BY MishapsStay DEF Mishaps, UnlinkFails, Mishap, Inv, TypeOK
<1>2. /\ \A source \in Sources, s \in Slots : AtMostOne(img[source][s])
      /\ pc = "save" => \A e \in Exts : e # pic => img[src][slot][e] = NoFile
  BY <1>1 DEF PhotosInv, Unhurt
<1>3. pc' = "save" => \A e \in Exts : e # pic' => img'[src'][slot'][e] = NoFile
  <2>1. CASE SweepOldPhotos
    <3>1. img' = [img EXCEPT ![src][slot] =
                    [NoPhotos EXCEPT ![pic] = img[src][slot][pic]]]
          /\ UNCHANGED <<src, slot, pic>>
      BY <2>1 DEF SweepOldPhotos, SetPhotos, target, job
    <3>2. src \in Sources /\ slot \in Slots /\ pic \in Exts
      BY <2>1 DEF SweepOldPhotos, Inv, TypeOK, JobOK, OnPhoto
    <3>3. img'[src][slot] = [NoPhotos EXCEPT ![pic] = img[src][slot][pic]]
      BY <3>1, <3>2 DEF Inv, TypeOK
    <3> QED
      BY <3>1, <3>3 DEF NoPhotos
  <2> QED
    BY <2>1, <1>1, <1>2, SavesAfterSweep
<1>4. ASSUME NEW photos, SetPhotos(src, slot, photos), AtMostOne(photos)
      PROVE  \A source \in Sources, s \in Slots : AtMostOne(img'[source][s])
  BY <1>2, <1>4 DEF SetPhotos, Inv, TypeOK
<1>5. \A source \in Sources, s \in Slots : AtMostOne(img'[source][s])
  <2>0. AtMostOne(NoPhotos)
    BY DEF AtMostOne, NoPhotos
  <2>1. CASE DownloadFails
    BY <2>1, <2>0, <1>2, <1>4 DEF DownloadFails
  <2>2. CASE DeletePhoto
    BY <2>2, <2>0, <1>4 DEF DeletePhoto
  <2>3. CASE SweepOldPhotos
    <3>1. AtMostOne([NoPhotos EXCEPT ![pic] = img[src][slot][pic]])
      BY DEF AtMostOne, NoPhotos
    <3> QED
      BY <2>3, <3>1, <1>4 DEF SweepOldPhotos
  <2>4. CASE SavePhoto
    <3>1. AtMostOne([img[src][slot] EXCEPT ![pic] = beer])
      BY <2>4, <1>2 DEF AtMostOne, SavePhoto, Inv, TypeOK, JobOK, OnPhoto
    <3> QED
      BY <2>4, <3>1, <1>4 DEF SavePhoto
  <2>5. CASE UnlinkMoved
    <3>0. src \in Sources /\ slot \in Slots
      BY <2>5 DEF UnlinkMoved, Inv, TypeOK, JobOK, OnArchive
    <3>1. AtMostOne([img[src][slot] EXCEPT ![ImageExt(src, slot)] = NoFile])
      BY <3>0, <1>2 DEF AtMostOne, Inv, TypeOK
    <3> QED
      BY <2>5, <3>1, <1>2, <1>4 DEF UnlinkMoved
  <2> QED
    BY <2>1, <2>2, <2>3, <2>4, <2>5, <1>2, OnlyPhotoSteps DEF PhotoStep
<1> QED
  BY <1>3, <1>5

(* save_image's promise, for every interleaving of jobs, crashes, disk     *)
(* errors, failed downloads and hand edits: no Tap of either Source ever   *)
(* has two photos, as long as unlinks unlink.                              *)
THEOREM NeverTwoPhotos == Spec => []OnePhotoPerTap
<1>1. Init => PhotosInv
  BY DEF Init, PhotosInv, AtMostOne, NoPhotos, Sources
<1>2. Inv /\ PhotosInv => OnePhotoPerTap
  BY DEF PhotosInv, OnePhotoPerTap, AtMostOne
<1> QED
  BY <1>1, <1>2, InitInv, NextInv, PhotosInvKept, PTL DEF Spec
-----------------------------------------------------------------------------
(* A photo goes with a Beer: the same Batch's, and of the same revision    *)
(* too while no download has failed.                                       *)
Match(photo, file) ==
  photo # NoFile =>
    /\ photo.id = file.id
    /\ hurt["download"] = 0 => photo = file

(* A sync that is about to write an md has the photos right for the Beer   *)
(* it writes; every other Tap has them right for the Beer it has.          *)
Writing(s) == holder = "sync" /\ pc = "write" /\ slot = s

PairedInv ==
  Unhurt({"disk", "unlink", "crash"}) =>
    \A s \in Slots, e \in Exts :
      IF Writing(s) THEN Match(img["brewfather"][s][e], beer)
      ELSE Readable(md["brewfather"][s]) =>
             Match(img["brewfather"][s][e], md["brewfather"][s])

(* The steps that lead into or out of the write of an md.                  *)
LEMMA WritingSteps ==
  ASSUME Inv, [Next]_vars, ~FileStep, hurt'["disk"] = 0, hurt'["unlink"] = 0,
         hurt'["crash"] = 0, NEW s \in Slots
  PROVE  Writing(s)' = Writing(s) /\ (Writing(s) => beer' = beer)
<1>1. ~DiskFails /\ ~UnlinkFails /\ ~Crash
  BY DEF DiskFails, UnlinkFails, Crash, Mishap, Inv, TypeOK, Mishaps
<1> QED
  BY <1>1 DEF Next, SyncStep, StoreStep, AdminStep, Outside, FileStep, Writing,
       vars, files, sweeps, target, job, Inv, JobOK,
       SyncStart, FetchSweep, FetchDone, Downloaded, ArchiveUndesired,
       SyncSucceeds, SkipUnchanged, SyncRaises, WriteTap, ArchiveNext, CopyOut, Archived,
       SaveOverride, ClearOverride, BrewerEdits, FetchFails, Release

LEMMA PairedInvKept == Inv /\ PhotosInv /\ PairedInv /\ [Next]_vars => PairedInv'
<1> SUFFICES ASSUME Inv, PhotosInv, PairedInv, [Next]_vars,
                    hurt'["disk"] = 0, hurt'["unlink"] = 0, hurt'["crash"] = 0,
                    NEW s \in Slots, NEW e \in Exts
             PROVE  IF Writing(s)' THEN Match(img["brewfather"][s][e], beer)'
                    ELSE Readable(md'["brewfather"][s]) =>
                         Match(img["brewfather"][s][e], md["brewfather"][s])'
  BY DEF PairedInv, Unhurt, Readable
<1> DEFINE file == md["brewfather"][s]
           photo == img["brewfather"][s][e]
<1>0. hurt'["download"] = 0 => hurt["download"] = 0
  BY MishapsStay DEF Mishaps
<1>1. IF Writing(s) THEN Match(photo, beer)
      ELSE Readable(file) => Match(photo, file)
  BY MishapsStay DEF PairedInv, Unhurt, Mishaps
<1>2. CASE ~FileStep
  BY <1>2, <1>0, <1>1, OnlyFileSteps, WritingSteps DEF Match
<1>3. CASE \E source \in Sources, x \in Slots, spoilt \in Spoilt : HandDamages(source, x, spoilt)
  <2>1. UNCHANGED <<img, pc, holder, slot, beer>>
    BY <1>3 DEF HandDamages, job, target
  <2>2. file' = file \/ ~Readable(file')
    BY <1>3 DEF HandDamages, Inv, TypeOK, Readable, Sources
  <2> QED
    BY <1>0, <1>1, <2>1, <2>2 DEF Match, Writing
<1> DEFINE Work == \/ DownloadFails \/ DeletePhoto \/ SweepOldPhotos
                   \/ SavePhoto \/ WriteMd \/ UnlinkMoved
<1>4. ASSUME Work, ~(src = "brewfather" /\ slot = s)
      PROVE  UNCHANGED <<file, photo>> /\ ~Writing(s) /\ ~Writing(s)'
  <2>0. /\ UNCHANGED md \/ \E x : md' = [md EXCEPT ![src][slot] = x]
        /\ UNCHANGED img \/ \E x : img' = [img EXCEPT ![src][slot] = x]
    BY <1>4 DEF DownloadFails, DeletePhoto, SweepOldPhotos, SavePhoto, WriteMd,
                UnlinkMoved, SetPhotos
  <2>1. UNCHANGED file
    BY <1>4, <2>0 DEF Inv, TypeOK, Sources
  <2>2. UNCHANGED photo
    BY <1>4, <2>0 DEF Inv, TypeOK, Sources
  <2>3. ~Writing(s) /\ ~Writing(s)'
    BY <1>4 DEF DownloadFails, DeletePhoto, SweepOldPhotos, SavePhoto, WriteMd,
                UnlinkMoved, Release, job, target, Inv, JobOK, Writing
  <2> QED
    BY <2>1, <2>2, <2>3
<1>5. CASE Work /\ src = "brewfather" /\ slot = s
  <2>0. holder = "sync"
    BY <1>5 DEF DownloadFails, DeletePhoto, SweepOldPhotos, SavePhoto, WriteMd,
                UnlinkMoved, Inv, TypeOK, JobOK
  <2>1. CASE DownloadFails
    <3>0. CASE md[src][slot] = NotText
      <4>1. ~Writing(s)' /\ file' = NotText
        BY <2>1, <1>5, <3>0 DEF DownloadFails, Release, Writing
      <4> QED
        BY <4>1 DEF Readable, Spoilt
    <3> SUFFICES ASSUME md[src][slot] # NotText
                 PROVE  IF Writing(s)' THEN Match(photo, beer)'
                        ELSE Readable(file)' => Match(photo, file)'
      BY <3>0 DEF Readable
    <3>1. hurt'["download"] # 0 /\ ~Writing(s) /\ Writing(s)' /\ beer' = beer
      BY <2>0, <2>1, <1>5 DEF DownloadFails, Mishap, Writing, Inv, TypeOK,
                              Mishaps, job, target
    <3>2. IsSameBatch(md[src][slot], beer.id) => Match(photo, file)
      BY <3>1, <1>1, <1>5 DEF IsSameBatch
    <3>3. photo' # NoFile => photo'.id = beer.id
      BY <2>1, <1>5, <3>2 DEF DownloadFails, IsSameBatch, Match, SetPhotos,
                              NoPhotos, Inv, TypeOK
    <3> QED
      BY <3>1, <3>3 DEF Match
  <2>2. CASE DeletePhoto
    <3>1. photo' = NoFile
      BY <2>2, <1>5 DEF DeletePhoto, SetPhotos, NoPhotos, Inv, TypeOK
    <3> QED
      BY <3>1 DEF Match
  <2>3. CASE SweepOldPhotos
    <3>1. photo' \in {photo, NoFile} /\ file' = file
      BY <2>3, <1>5 DEF SweepOldPhotos, SetPhotos, NoPhotos, Inv, TypeOK
    <3>2. ~Writing(s) /\ ~Writing(s)' /\ UNCHANGED hurt
      BY <2>3 DEF SweepOldPhotos, Writing
    <3> QED
      BY <3>1, <3>2, <1>1 DEF Match
  <2>4. CASE SavePhoto
    <3>1. e # pic => photo = NoFile
      BY <2>4, <1>5, MishapsStay DEF SavePhoto, PhotosInv, Unhurt, Mishaps
    <3>2. photo' \in {beer, NoFile}
      BY <2>4, <1>5, <3>1 DEF SavePhoto, SetPhotos, Inv, TypeOK
    <3>3. Writing(s)' /\ beer' = beer
      BY <2>0, <2>4, <1>5 DEF SavePhoto, Writing, job, target
    <3> QED
      BY <3>2, <3>3 DEF Match
  <2>5. CASE WriteMd
    <3>1. Writing(s) /\ ~Writing(s)' /\ UNCHANGED <<img, hurt>>
      BY <2>0, <2>5, <1>5 DEF WriteMd, Writing
    <3>2. file' = beer
      BY <2>5, <1>5 DEF WriteMd, Inv, TypeOK
    <3> QED
      BY <3>1, <3>2, <1>1 DEF Match
  <2>6. CASE UnlinkMoved
    <3>1. file' \in {file, NoFile} /\ photo' \in {photo, NoFile}
      BY <2>6, <1>5 DEF UnlinkMoved, SetPhotos, Inv, TypeOK
    <3>2. ~Writing(s) /\ ~Writing(s)' /\ UNCHANGED hurt
      BY <2>6 DEF UnlinkMoved, Writing
    <3> QED
      BY <3>1, <3>2, <1>1 DEF Match, Readable
  <2> QED
    BY <1>5, <2>1, <2>2, <2>3, <2>4, <2>5, <2>6
<1> QED
  <2>1. CASE Work /\ ~(src = "brewfather" /\ slot = s)
    BY <2>1, <1>0, <1>1, <1>4 DEF Match
  <2> QED
    BY <2>1, <1>2, <1>3, <1>5 DEF FileStep

LEMMA PairedAlways == Spec => [](Inv /\ PairedInv)
<1>1. Init => PhotosInv /\ PairedInv
  BY DEF Init, PhotosInv, PairedInv, Writing, Readable, AtMostOne, NoPhotos,
         Sources
<1> QED
  BY <1>1, InitInv, NextInv, PhotosInvKept, PairedInvKept, PTL DEF Spec

(* _store_image's promise, as far as the code keeps it: whenever no sync   *)
(* is in the middle of its work, the photo of a Brewfather Tap belongs to  *)
(* the Batch the Tap shows, through every change of claim, failed download *)
(* and hand edit; crashes, disk errors and stuck unlinks excepted.         *)
THEOREM PhotoIsOwn == Spec => []OwnPhoto
<1>1. Inv /\ PairedInv => OwnPhoto
  BY DEF PairedInv, OwnPhoto, Unhurt, Writing, Match, Readable
<1> QED
  BY <1>1, PairedAlways, PTL

(* ... and it is the photo of the revision shown, if no download failed.   *)
THEOREM PhotoIsCurrent == Spec => []CurrentPhoto
<1>1. Inv /\ PairedInv => CurrentPhoto
  BY DEF PairedInv, CurrentPhoto, Unhurt, Writing, Match, Readable
<1> QED
  BY <1>1, PairedAlways, PTL

-----------------------------------------------------------------------------
(* The outcome of a sync: when run_sync succeeds, the Brewfather Taps are  *)
(* what it fetched.  The invariant is the loop invariant of its two loops, *)
(* over the claimed Slots first and over the Taps nobody claims after      *)
(* that, kept under every hand edit, crash and failure that the lock does  *)
(* not keep out.                                                           *)

Clearing == {"archive"} \cup OnArchive

Current(s) == md["brewfather"][s] \in {WantedBeer(s)} \cup Spoilt

(* Claimed Slots: every one not left to do holds its winner, except the    *)
(* one being written, and that one is about to.                            *)
LoopInv ==
  (holder = "sync" /\ pc \in {"loop"} \cup OnPhoto) =>
    /\ \A s \in DOMAIN Desired \ todo : Current(s) \/ (pc \in OnPhoto /\ s = slot)
    /\ pc \in OnPhoto => slot \in DOMAIN Desired /\ beer = WantedBeer(slot)

(* Unclaimed Slots: every one that is not empty is left to do or being     *)
(* moved; and the move does not reach the claimed ones.                    *)
ClearInv ==
  (holder = "sync" /\ pc \in Clearing) =>
    /\ \A s \in DOMAIN Desired : Current(s) /\ s \notin todo
    /\ pc \in OnArchive => slot \notin DOMAIN Desired
    /\ Unhurt({"disk", "unlink"}) =>
         \A s \in Slots \ DOMAIN Desired :
           md["brewfather"][s] # NoFile =>
             s \in todo \/ (pc \in OnArchive /\ s = slot /\ "md" \in leaving)

CurrentInv == LoopInv /\ ClearInv

(* After the fetch the listing is fixed, and with it what is wanted.       *)
LEMMA WantedFixed ==
  ASSUME UNCHANGED fetched
  PROVE  UNCHANGED Desired /\ \A s : UNCHANGED WantedBeer(s)
BY DEF Desired, WantedBeer, Winner

(* A step that leaves the md files, the listing and the locals alone.      *)
LEMMA IdleStep ==
  ASSUME CurrentInv, UNCHANGED <<md, fetched, holder, pc, todo, slot, beer, leaving, hurt>>
  PROVE  CurrentInv'
BY WantedFixed DEF CurrentInv, LoopInv, ClearInv, Current, Unhurt

LEMMA CurrentInvKept == Inv /\ CurrentInv /\ [Next]_vars => CurrentInv'
<1> SUFFICES ASSUME Inv, CurrentInv, [Next]_vars PROVE CurrentInv'
  OBVIOUS
<1> USE DEF Inv, OnPhoto, OnArchive, Clearing, files, sweeps, target, job
<1>1. ASSUME holder' # "sync" \/ pc' \in {"idle", "fetch"} PROVE CurrentInv'
  BY <1>1 DEF CurrentInv, LoopInv, ClearInv
<1>2. CASE \/ SyncStart \/ FetchSweep \/ FetchFails \/ Crash \/ SyncSucceeds
           \/ \E s \in Slots : SyncRaises(s)
  BY <1>1, <1>2
     DEF SyncStart, FetchSweep, FetchFails, Crash, SyncSucceeds, SyncRaises, Release
<1>3. CASE AdminStep
  BY <1>1, <1>3 DEF AdminStep, SaveOverride, ClearOverride
<1>4. CASE FetchDone
  BY <1>4, WantedFixed DEF FetchDone, CurrentInv, LoopInv, ClearInv
<1>5. ASSUME NEW s \in Slots, SkipUnchanged(s) PROVE CurrentInv'
  BY <1>5, WantedFixed
     DEF SkipUnchanged, IsUnchanged, CurrentInv, LoopInv, ClearInv, Current
<1>6. ASSUME NEW s \in Slots, WriteTap(s) PROVE CurrentInv'
  BY <1>6, WantedFixed DEF WriteTap, JobOK, CurrentInv, LoopInv, ClearInv, Current
<1>7. CASE Downloaded \/ DownloadFails \/ DeletePhoto \/ SweepOldPhotos \/ SavePhoto
  BY <1>1, <1>7, WantedFixed
     DEF Downloaded, DownloadFails, Release, DeletePhoto, SweepOldPhotos, SavePhoto,
         CurrentInv, LoopInv, ClearInv, Current
<1>8. CASE ArchiveUndesired
  BY <1>8, WantedFixed
     DEF ArchiveUndesired, OccupiedSlotsOf, JobOK, CurrentInv, LoopInv, ClearInv, Current
<1>9. ASSUME NEW s \in Slots, ArchiveNext(s) PROVE CurrentInv'
  BY <1>9, WantedFixed
     DEF ArchiveNext, ExistingPaths, JobOK, CurrentInv, LoopInv, ClearInv, Current, Unhurt
<1>10. CASE WriteMd
  BY <1>1, <1>10, WantedFixed
     DEF WriteMd, Release, TypeOK, JobOK, CurrentInv, LoopInv, ClearInv, Current
<1>11. CASE CopyOut
  BY <1>11, WantedFixed
     DEF CopyOut, CurrentInv, LoopInv, ClearInv, Current, Unhurt
<1>12. CASE UnlinkMoved
  <2>1. CASE holder = "sync"
    <3>0. src = "brewfather" /\ slot \in Slots /\ slot \notin DOMAIN Desired
      BY <1>12, <2>1 DEF UnlinkMoved, JobOK, CurrentInv, ClearInv
    <3>1. \A s \in Slots : s # slot => md'["brewfather"][s] = md["brewfather"][s]
      BY <1>12, <3>0 DEF UnlinkMoved, TypeOK, Sources
    <3>2. "md" \in leaving => md'["brewfather"][slot] = NoFile
      BY <1>12, <3>0 DEF UnlinkMoved, NextFile, TypeOK, Sources
    <3>3. /\ UNCHANGED <<fetched, todo, slot, holder, hurt>>
          /\ pc = "unlink" /\ pc' = "copy"
          /\ "md" \notin leaving => md' = md
      BY <1>12 DEF UnlinkMoved, NextFile
    <3>4. DOMAIN Desired \subseteq Slots
      BY DesiredSlots
    <3> QED
      BY <2>1, <3>0, <3>1, <3>2, <3>3, <3>4, WantedFixed
         DEF CurrentInv, LoopInv, ClearInv, Current, Unhurt
  <2> QED
    BY <2>1, <1>1, <1>12 DEF UnlinkMoved
<1>13. CASE Archived
  BY <1>1, <1>13, WantedFixed
     DEF Archived, Release, CurrentInv, LoopInv, ClearInv, Current, Unhurt
<1>14. ASSUME NEW source \in Sources, NEW s \in Slots, NEW spoilt \in Spoilt,
             HandDamages(source, s, spoilt)
       PROVE  CurrentInv'
  BY <1>14, WantedFixed
     DEF HandDamages, TypeOK, Readable, Mishap, Unhurt, CurrentInv, LoopInv, ClearInv, Current
<1>15. CASE DiskFails
  BY <1>1, <1>15, WantedFixed
     DEF DiskFails, Release, Mishap, Mishaps, TypeOK, Unhurt, CurrentInv, LoopInv, ClearInv, Current
<1>16. CASE UnlinkFails
  BY <1>16, WantedFixed
     DEF UnlinkFails, Mishap, Mishaps, TypeOK, Unhurt, CurrentInv, LoopInv, ClearInv, Current
<1>17. CASE \/ UNCHANGED vars
            \/ \E b \in Batches, s \in Slots \cup {NoSlot}, st \in BatchStatuses,
                  p \in 0..NumExts : BrewerEdits(b, s, st, p)
  BY <1>17, IdleStep DEF vars, BrewerEdits
<1> QED
  BY <1>2, <1>3, <1>4, <1>5, <1>6, <1>7, <1>8, <1>9, <1>10, <1>11, <1>12,
     <1>13, <1>14, <1>15, <1>16, <1>17
     DEF Next, SyncStep, StoreStep, Outside

(* run_sync's promise: when it succeeds, every claimed Slot has its winner *)
(* at the fetched revision and every unclaimed one is empty, whatever the  *)
(* Admin, the network and hand edits did around it; only a failed move or  *)
(* a hand edit since can make a difference.                                *)
THEOREM SyncSucceedsCurrent == Spec => SyncLeavesTapsCurrent
<1> DEFINE Done ==
      SyncSucceeds =>
        \A s \in Slots :
          IF s \in DOMAIN Desired
          THEN md["brewfather"][s] \in {WantedBeer(s)} \cup Spoilt
          ELSE md["brewfather"][s] # NoFile => ~Unhurt({"disk", "unlink"})
<1>1. Inv /\ CurrentInv => Done
  BY DEF Inv, JobOK, CurrentInv, ClearInv, Current, SyncSucceeds, Clearing, OnArchive
<1>2. Init => CurrentInv
  BY DEF Init, CurrentInv, LoopInv, ClearInv
<1> QED
  BY <1>1, <1>2, InitInv, NextInv, CurrentInvKept, PTL
     DEF Spec, SyncLeavesTapsCurrent

-----------------------------------------------------------------------------
(* Snapshot                                                                *)


StagedFiles == [by : Browsers, zip : Uploads, whole : BOOLEAN]

Imports ==
  [zip : Uploads, skip : BOOLEAN, by : Browsers,
   left : SUBSET Members, root : SUBSET Exts, swept : BOOLEAN,
   before : [Members -> MdFiles]]

(* The members this import may write.                                      *)
Allowed == {m \in DOMAIN import.zip.files : ~(import.skip /\ m.source = "brewfather")}

(* TapSync's types, and no job under way.                                  *)
Resting ==
  /\ pc = "idle" /\ src = "brewfather"
  /\ cloud \in [Batches -> CloudBatch]
  /\ md \in [Sources -> [Slots -> MdFiles]]
  /\ img \in [Sources -> [Slots -> [Exts -> Photos]]]
  /\ oldBeers \in [md : SUBSET ArchivedFiles(MdFiles),
                   img : SUBSET ArchivedFiles(Photos)]
  /\ sweep \in 0..Len(FetchOrder) /\ fetched \in [Batches -> CloudBatch]
  /\ todo \subseteq Slots /\ slot \in 0..MAX_NUM_TAPS
  /\ beer \in Beers \cup {NoFile} /\ pic \in 0..NumExts
  /\ leaving \subseteq {"md", "img"} /\ hurt \in [Mishaps -> Nat]

RestoredSoFar ==
  \A m \in Members :
    Held(m) = IF m \in Allowed \ import.left THEN import.zip.files[m] ELSE import.before[m]

RootSoFar ==
  /\ (import.swept /\ Unhurt({"unlink"})) =>
       \A e \in Exts \ import.zip.root : placeholder[e] = NoFile
  /\ (import.zip.root # {} /\ import.root = {}) =>
       import.swept /\ \A e \in import.zip.root : placeholder[e] = "snapshot"

ImportInv ==
  /\ import \in Imports
  /\ ValidLayout(import.zip)
  /\ import.left \subseteq Allowed /\ import.root \in {{}, import.zip.root}
  /\ Unhurt({"hand"}) => RestoredSoFar /\ RootSoFar

BoxInv ==
  /\ staged # NoZip => staged \in StagedFiles
  /\ holder # "import" => Inv /\ import = NoZip
  /\ holder = "import" => Resting /\ ImportInv

-----------------------------------------------------------------------------
LEMMA MemberType ==
  ASSUME NEW m \in Members
  PROVE  /\ m.source \in Sources /\ m.slot \in Slots
         /\ m.part # 0 => m.part \in Exts
         /\ m = [source |-> m.source, slot |-> m.slot, part |-> m.part]
BY TapSyncAssumption DEF Members, Exts

LEMMA HeldType ==
  ASSUME md \in [Sources -> [Slots -> MdFiles]],
         img \in [Sources -> [Slots -> [Exts -> Photos]]], NEW m \in Members
  PROVE  Held(m) \in MdFiles
BY MemberType DEF Held, MdFiles, Photos

(* The lock is given back with nothing under way: TapSync goes on.         *)
LEMMA RestingEnds ==
  ASSUME Resting', holder' = "none" PROVE Inv'
BY DEF Resting, Inv, TypeOK, JobOK, OnPhoto, OnArchive, Sources

(* Two steps are TapSync's while an import has the lock.                   *)
LEMMA RestingSteps ==
  ASSUME Resting, holder = "import", Next, hurt'["crash"] = hurt["crash"]
  PROVE  \/ \E b \in Batches, s \in Slots \cup {NoSlot}, st \in BatchStatuses,
               p \in 0..NumExts : BrewerEdits(b, s, st, p)
         \/ \E source \in Sources, s \in Slots, spoilt \in Spoilt :
               HandDamages(source, s, spoilt)
<1>1. ~Crash
  BY DEF Crash, Mishap, Resting, Mishaps
<1> QED
  BY <1>1 DEF Next, SyncStep, StoreStep, AdminStep, Outside, Resting,
     SyncStart, FetchSweep, FetchDone, Downloaded, DeletePhoto,
     ArchiveUndesired, SyncSucceeds, SkipUnchanged, SyncRaises, WriteTap, ArchiveNext,
     SweepOldPhotos, SavePhoto, WriteMd, CopyOut, UnlinkMoved, Archived,
     SaveOverride, ClearOverride, FetchFails, DownloadFails, DiskFails,
     UnlinkFails

LEMMA BoxInit == SnapshotInit => BoxInv
BY InitInv DEF SnapshotInit, BoxInv, Init

-----------------------------------------------------------------------------
(* The steps of TapSync, the end of the process, the operator's hand.      *)
LEMMA TapStepKept ==
  ASSUME BoxInv, TapStep PROVE BoxInv'
<1>1. staged' # NoZip => staged' \in StagedFiles
  BY DEF BoxInv, TapStep, staging
<1>2. CASE holder # "import"
  <2>1. Inv'
    BY <1>2, NextInv DEF BoxInv, TapStep
  <2>2. holder' # "import"
    BY <2>1 DEF Inv, TypeOK
  <2> QED
    BY <1>1, <1>2, <2>1, <2>2 DEF BoxInv, TapStep
<1>3. CASE holder = "import"
  <2>1. Resting /\ ImportInv
    BY <1>3 DEF BoxInv
  <2>2. holder' = "import" /\ UNCHANGED <<import, placeholder>>
    BY <1>3, <2>1, RestingSteps DEF TapStep, BrewerEdits, HandDamages
  <2>3. ASSUME NEW source \in Sources, NEW s \in Slots, NEW spoilt \in Spoilt,
               HandDamages(source, s, spoilt)
        PROVE  Resting' /\ ~Unhurt({"hand"})'
    <3>1. md' \in [Sources -> [Slots -> MdFiles]]
      BY <2>1, <2>3 DEF HandDamages, Resting, MdFiles
    <3>2. hurt' \in [Mishaps -> Nat] /\ hurt'["hand"] # 0
      BY <2>1, <2>3 DEF HandDamages, Mishap, Mishaps, Resting
    <3>3. UNCHANGED <<cloud, img, oldBeers, pc, job>>
      BY <2>3 DEF HandDamages
    <3> QED
      BY <2>1, <3>1, <3>2, <3>3 DEF Resting, Unhurt, job, sweeps, target
  <2>4. ASSUME NEW b \in Batches, NEW s \in Slots \cup {NoSlot},
               NEW st \in BatchStatuses, NEW p \in 0..NumExts, BrewerEdits(b, s, st, p)
        PROVE  Resting' /\ UNCHANGED <<md, img, hurt>>
    <3>1. cloud' \in [Batches -> CloudBatch]
      <4>1. cloud[b].rev \in 0..MaxRev /\ cloud[b].rev + 1 <= MaxRev
        <5>1. cloud[b] \in CloudBatch /\ cloud[b].rev < MaxRev
          BY <2>1, <2>4 DEF BrewerEdits, Resting
        <5>2. cloud[b].rev \in 0..MaxRev /\ MaxRev \in Nat
          BY <5>1, TapSyncAssumption DEF CloudBatch
        <5> QED
          BY <5>1, <5>2
      <4>2. cloud[b].rev + 1 \in 0..MaxRev /\ s \in 0..MAX_NUM_TAPS /\ st \in Statuses
        BY <4>1, TapSyncAssumption, MaxNumTapsAssumption DEF Slots, NoSlot
      <4>3. [tap |-> s, teaser |-> FALSE, status |-> st,
             rev |-> cloud[b].rev + 1, pic |-> p] \in CloudBatch
        BY <4>2 DEF CloudBatch
      <4> QED
        BY <2>1, <2>4, <4>3 DEF BrewerEdits, Resting
    <3> QED
      BY <2>1, <2>4, <3>1 DEF BrewerEdits, Resting, files, job, sweeps, target
  <2>5. Resting' /\ (Unhurt({"hand"})' => Unhurt({"hand"}) /\ UNCHANGED <<md, img, hurt>>)
    BY <1>3, <2>1, <2>3, <2>4, RestingSteps DEF TapStep, Unhurt
  <2>6. ImportInv'
    BY <2>1, <2>2, <2>5
       DEF ImportInv, RestoredSoFar, RootSoFar, Allowed, Held, ValidLayout, Unhurt
  <2> QED
    BY <1>1, <2>2, <2>5, <2>6 DEF BoxInv
<1> QED
  BY <1>2, <1>3

LEMMA BoxDiesKept ==
  ASSUME BoxInv, BoxDies PROVE BoxInv'
<1>1. import' = NoZip /\ staged' = staged /\ holder' = "none"
  BY DEF BoxDies, Crash, Release, taps
<1>2. Inv'
  <2>1. CASE Crash /\ holder = "import"
    BY <2>1, ReleaseInv
       DEF BoxInv, Resting, Crash, Mishap, Mishaps, files, Inv, TypeOK
  <2>2. CASE Crash /\ holder # "import"
    BY <2>2, NextInv DEF BoxInv, Next, Outside
  <2>3. CASE holder = "none" /\ Mishap("crash") /\ UNCHANGED taps
    BY <2>3, MishapType DEF BoxInv, Inv, TypeOK, JobOK, Mishaps, taps, files, job,
       sweeps, target, OnPhoto, OnArchive
  <2> QED
    BY <2>1, <2>2, <2>3 DEF BoxDies
<1> QED
  BY <1>1, <1>2 DEF BoxInv

LEMMA HandPlaceholderKept ==
  ASSUME BoxInv, NEW e \in Exts, HandPlaceholder(e) PROVE BoxInv'
<1> USE DEF HandPlaceholder, taps, staging, files, job, sweeps, target
<1>1. hurt \in [Mishaps -> Nat] => hurt' \in [Mishaps -> Nat] /\ ~Unhurt({"hand"})'
  BY DEF Mishap, Mishaps, Unhurt
<1>2. CASE holder # "import"
  <2>1. Inv'
    BY <1>1, <1>2 DEF BoxInv, Inv, TypeOK, JobOK, HasPhoto, Desired, OnPhoto, OnArchive
  <2> QED
    BY <1>2, <2>1 DEF BoxInv
<1>3. CASE holder = "import"
  <2>1. Resting' /\ ~Unhurt({"hand"})'
    BY <1>1, <1>3 DEF BoxInv, Resting
  <2>2. ImportInv'
    BY <1>3, <2>1 DEF BoxInv, ImportInv, Allowed, ValidLayout
  <2> QED
    BY <1>3, <2>1, <2>2 DEF BoxInv
<1> QED
  BY <1>2, <1>3

-----------------------------------------------------------------------------
(* Staging.                                                                *)
LEMMA TapsStand ==
  ASSUME BoxInv, UNCHANGED <<vars, placeholder, import>>,
         staged' # NoZip => staged' \in StagedFiles
  PROVE  BoxInv'
<1> USE DEF vars, files, job, sweeps, target
<1>1. CASE holder # "import"
  <2>1. Inv'
    BY <1>1, NextInv DEF BoxInv
  <2> QED
    BY <1>1, <2>1 DEF BoxInv
<1>2. CASE holder = "import"
  <2>1. Resting'
    BY <1>2 DEF BoxInv, Resting
  <2>2. ImportInv'
    BY <1>2 DEF BoxInv, ImportInv, RestoredSoFar, RootSoFar, Allowed, Held,
       ValidLayout, Unhurt
  <2> QED
    BY <1>2, <2>1, <2>2 DEF BoxInv
<1> QED
  BY <1>1, <1>2

LEMMA WrittenType ==
  ASSUME BoxInv, NEW b \in Browsers, Written(b) # NoZip
  PROVE  Written(b) \in StagedFiles
BY DEF BoxInv, Written, StagedFiles

LEMMA StageStepKept ==
  ASSUME BoxInv, StageStep PROVE BoxInv'
<1>1. ASSUME NEW b \in Browsers, NEW zip \in Uploads, StageBegins(b, zip)
      PROVE  BoxInv'
  <2>1. staged' \in StagedFiles
    BY <1>1 DEF StageBegins, StagedFiles
  <2> QED
    BY <1>1, <2>1, TapsStand DEF StageBegins
<1>2. ASSUME NEW b \in Browsers, StageEnds(b) PROVE BoxInv'
  <2>1. staged' # NoZip => staged' \in StagedFiles
    BY <1>2, WrittenType DEF StageEnds
  <2> QED
    BY <1>2, <2>1, TapsStand DEF StageEnds
<1>3. ASSUME NEW b \in Browsers, StageBreaks(b) \/ Discard(b) PROVE BoxInv'
  BY <1>3, TapsStand DEF StageBreaks, Discard
<1> QED
  BY <1>1, <1>2, <1>3 DEF StageStep

-----------------------------------------------------------------------------
(* The import.                                                             *)
LEMMA ImportStartsKept ==
  ASSUME BoxInv, NEW b \in Browsers, NEW skip \in BOOLEAN, ImportStarts(b, skip)
  PROVE  BoxInv'
<1>1. Inv /\ holder = "none" /\ staged \in StagedFiles
  BY DEF ImportStarts, EventLoopFree, Opens, BoxInv
<1>2. Resting' /\ UNCHANGED <<md, img, placeholder, staged>> /\ holder' = "import"
  BY <1>1 DEF ImportStarts, TakesUp, Resting, Inv, TypeOK, JobOK, files, job,
     sweeps, target, staging
<1> DEFINE zip == staged.zip
<1>3. zip \in Uploads /\ ValidLayout(zip)
  BY <1>1 DEF ImportStarts, Opens, StagedFiles
<1>4. DOMAIN zip.files \subseteq Members /\ zip.root \subseteq Exts
  BY <1>3, SnapshotAssumption
<1>5. [m \in Members |-> Held(m)] \in [Members -> MdFiles]
  BY <1>1, HeldType DEF Inv, TypeOK
<1>6. import' \in Imports
  BY <1>1, <1>3, <1>4, <1>5 DEF ImportStarts, TakesUp, Imports, StagedFiles
<1>7. /\ import'.zip = zip /\ import'.root = zip.root
      /\ import'.left = Allowed' /\ ~import'.swept
      /\ import'.before = [m \in Members |-> Held(m)]
  BY DEF ImportStarts, TakesUp, Allowed
<1>8. RestoredSoFar'
  BY <1>2, <1>7 DEF RestoredSoFar, Held
<1>9. RootSoFar'
  BY <1>7 DEF RootSoFar
<1>10. ImportInv'
  BY <1>3, <1>6, <1>7, <1>8, <1>9 DEF ImportInv, ValidLayout
<1> QED
  BY <1>1, <1>2, <1>10 DEF BoxInv

LEMMA RestoreTapFileKept ==
  ASSUME BoxInv, NEW m \in Members, RestoreTapFile(m) PROVE BoxInv'
<1> DEFINE content == import.zip.files[m]
           Put == /\ md' \in [Sources -> [Slots -> MdFiles]]
                  /\ img' \in [Sources -> [Slots -> [Exts -> Photos]]]
                  /\ \A n \in Members : Held(n)' = IF n = m THEN content ELSE Held(n)
<1>1. Resting /\ ImportInv /\ holder' = "import"
  BY DEF RestoreTapFile, BoxInv
<1>2. /\ m \in import.left /\ m \in Allowed /\ import.zip \in Uploads
      /\ import' = [import EXCEPT !.left = @ \ {m}] /\ import' \in Imports
  BY <1>1 DEF RestoreTapFile, ImportInv, Imports
<1>3. content \in MdFiles /\ (m.part # 0 => content \in Photos)
  BY <1>2, SnapshotAssumption DEF Allowed, MdFiles, Photos
<1>4. /\ m.source \in Sources /\ m.slot \in Slots /\ (m.part # 0 => m.part \in Exts)
  BY MemberType
<1>5. ASSUME m.part = 0 PROVE Put
  <2>1. md' = [md EXCEPT ![m.source][m.slot] = content] /\ img' = img
    BY <1>5 DEF RestoreTapFile
  <2>2. md' \in [Sources -> [Slots -> MdFiles]]
    BY <1>1, <1>3, <1>4, <2>1 DEF Resting
  <2>3. \A n \in Members : Held(n)' = IF n = m THEN content ELSE Held(n)
    <3>1. SUFFICES ASSUME NEW n \in Members
                   PROVE  Held(n)' = IF n = m THEN content ELSE Held(n)
      OBVIOUS
    <3>2. CASE n.part = 0 /\ n # m
      <4>1. n.source # m.source \/ n.slot # m.slot
        BY <1>5, <3>2, MemberType
      <4> QED
        BY <1>1, <1>4, <2>1, <3>2, <4>1, MemberType DEF Held, Resting
    <3>3. CASE n = m
      BY <1>1, <1>4, <1>5, <2>1, <3>3 DEF Held, Resting
    <3>4. CASE n.part # 0
      BY <1>5, <2>1, <3>4 DEF Held
    <3> QED
      BY <3>2, <3>3, <3>4
  <2> QED
    BY <1>1, <2>1, <2>2, <2>3 DEF Resting
<1>6. ASSUME m.part # 0 PROVE Put
  <2>1. md' = md
        /\ img' = [img EXCEPT ![m.source][m.slot] =
                     [img[m.source][m.slot] EXCEPT ![m.part] = content]]
    BY <1>6 DEF RestoreTapFile, SetPhotos
  <2>2. img' \in [Sources -> [Slots -> [Exts -> Photos]]]
    BY <1>1, <1>3, <1>4, <1>6, <2>1 DEF Resting
  <2>3. \A n \in Members : Held(n)' = IF n = m THEN content ELSE Held(n)
    <3>1. SUFFICES ASSUME NEW n \in Members
                   PROVE  Held(n)' = IF n = m THEN content ELSE Held(n)
      OBVIOUS
    <3>2. CASE n.part # 0 /\ n # m
      <4>1. n.source # m.source \/ n.slot # m.slot \/ n.part # m.part
        BY <3>2, MemberType
      <4> QED
        BY <1>1, <1>4, <1>6, <2>1, <3>2, <4>1, MemberType DEF Held, Resting
    <3>3. CASE n = m
      BY <1>1, <1>4, <1>6, <2>1, <3>3 DEF Held, Resting
    <3>4. CASE n.part = 0
      BY <1>6, <2>1, <3>4 DEF Held
    <3> QED
      BY <3>2, <3>3, <3>4
  <2> QED
    BY <1>1, <2>1, <2>2, <2>3 DEF Resting
<1>7. Put
  BY <1>5, <1>6
<1>8. Resting'
  BY <1>1, <1>7 DEF RestoreTapFile, Resting, job, sweeps, target
<1>9. /\ import'.zip = import.zip /\ import'.skip = import.skip
      /\ import'.left = import.left \ {m} /\ import'.before = import.before
      /\ import'.root = import.root /\ import'.swept = import.swept
  BY <1>1, <1>2 DEF ImportInv, Imports
<1>10. Allowed' = Allowed
  BY <1>9 DEF Allowed
<1>11. RestoredSoFar => RestoredSoFar'
  BY <1>2, <1>7, <1>9, <1>10 DEF RestoredSoFar
<1>12. UNCHANGED <<placeholder, hurt, staged>>
  BY DEF RestoreTapFile, staging
<1>13. ImportInv'
  BY <1>1, <1>2, <1>9, <1>10, <1>11, <1>12
     DEF ImportInv, RootSoFar, Unhurt, ValidLayout
<1> QED
  BY <1>1, <1>8, <1>12, <1>13 DEF BoxInv

LEMMA RootImageKept ==
  ASSUME BoxInv, RestoreRootImage \/ \E stuck \in SUBSET Exts : SweepOtherSpellings(stuck)
  PROVE  BoxInv'
<1> USE DEF vars, files, job, sweeps, target, staging, taps
<1>1. Resting /\ ImportInv /\ UNCHANGED <<taps, staging>>
  BY DEF SweepOtherSpellings, RestoreRootImage, BoxInv
<1>2. /\ holder = "import" /\ holder' = holder
      /\ hurt' = hurt \/ Mishap("unlink")
  BY DEF SweepOtherSpellings, RestoreRootImage
<1>3. /\ hurt' \in [Mishaps -> Nat]
      /\ Unhurt({"hand"})' => Unhurt({"hand"})
      /\ Unhurt({"unlink"})' => hurt' = hurt
  BY <1>1, <1>2 DEF Mishap, Mishaps, Resting, Unhurt
<1>4. Resting'
  BY <1>1, <1>3 DEF Resting
<1>5. /\ import' \in Imports /\ import'.zip = import.zip
      /\ import'.skip = import.skip /\ import'.left = import.left
      /\ import'.before = import.before
      /\ import.zip.root \subseteq Exts
  <2>1. import.zip \in Uploads
    BY <1>1 DEF ImportInv, Imports
  <2> QED
    BY <1>1, <2>1, SnapshotAssumption
       DEF SweepOtherSpellings, RestoreRootImage, ImportInv, Imports
<1>6. RestoredSoFar => RestoredSoFar'
  BY <1>1, <1>5 DEF RestoredSoFar, Allowed, Held
<1>7. import'.root \in {{}, import.zip.root}
  BY <1>1, <1>5 DEF SweepOtherSpellings, RestoreRootImage, ImportInv, Imports
<1>8. Unhurt({"hand"})' => RootSoFar'
  <2>1. ASSUME NEW stuck \in SUBSET Exts, SweepOtherSpellings(stuck) PROVE RootSoFar'
    <3>1. import.root = import.zip.root /\ import'.root # {}
      BY <1>1, <2>1 DEF SweepOtherSpellings, ImportInv, Imports
    <3>2. Unhurt({"unlink"})' => stuck = {}
      BY <1>1, <2>1 DEF SweepOtherSpellings, Mishap, Mishaps, Unhurt, Resting
    <3>3. stuck = {} => \A e \in Exts \ import.zip.root : placeholder'[e] = NoFile
      BY <2>1, <3>1 DEF SweepOtherSpellings
    <3> QED
      BY <1>5, <3>1, <3>2, <3>3 DEF RootSoFar
  <2>2. ASSUME RestoreRootImage, Unhurt({"hand"})' PROVE RootSoFar'
    <3>1. /\ import.root = import.zip.root /\ import'.swept = TRUE
          /\ \A e \in Exts : placeholder'[e] = IF e \in import.root THEN "snapshot"
                                                ELSE placeholder[e]
      BY <1>1, <2>2 DEF RestoreRootImage, ImportInv, Imports
    <3>2. RootSoFar /\ import.swept /\ hurt' = hurt
      BY <1>1, <1>3, <2>2 DEF ImportInv, RestoreRootImage
    <3> QED
      BY <1>5, <3>1, <3>2 DEF RootSoFar, Unhurt
  <2> QED
    BY <2>1, <2>2
<1>9. ImportInv'
  BY <1>1, <1>3, <1>5, <1>6, <1>7, <1>8 DEF ImportInv, Allowed, ValidLayout
<1> QED
  BY <1>1, <1>2, <1>4, <1>9 DEF BoxInv

LEMMA ImportEndsKept ==
  ASSUME BoxInv, ImportEnds \/ ImportFails PROVE BoxInv'
<1> USE DEF ImportEnds, ImportFails, ImportReturns, Mishap, Mishaps
<1>1. Resting /\ holder' = "none" /\ import' = NoZip /\ staged' = NoZip
  BY DEF BoxInv
<1>2. hurt' \in [Mishaps -> Nat]
  BY <1>1 DEF Resting
<1>3. Resting'
  BY <1>1, <1>2 DEF Resting, files, job, sweeps, target
<1> QED
  BY <1>1, <1>3, RestingEnds DEF BoxInv

LEMMA BoxNext == BoxInv /\ [SnapshotNext]_allVars => BoxInv'
<1> SUFFICES ASSUME BoxInv, [SnapshotNext]_allVars PROVE BoxInv'
  OBVIOUS
<1>1. ASSUME NEW b \in Browsers, ImportRefused(b) PROVE BoxInv'
  BY <1>1, TapsStand DEF ImportRefused
<1>2. CASE ImportStep
  BY <1>1, <1>2, ImportStartsKept, RestoreTapFileKept, RootImageKept, ImportEndsKept
     DEF ImportStep
<1>3. CASE UNCHANGED allVars
  BY <1>3, TapsStand DEF allVars, staging, BoxInv
<1> QED
  BY <1>2, <1>3, TapStepKept, StageStepKept, BoxDiesKept, HandPlaceholderKept
     DEF SnapshotNext

LEMMA BoxAlways == SnapshotSpec => []BoxInv
BY BoxInit, BoxNext, PTL DEF SnapshotSpec

-----------------------------------------------------------------------------
(* What a browser is asked about is what an import would take, until       *)
(* another browser's upload has the name: however many browsers upload,    *)
(* break off, discard, import and lose their connection.                   *)
AskedInv == asked \in [Browsers -> Uploads \cup {NoZip}] /\ AskedAboutWhatIsThere

LEMMA AskedKept == BoxInv /\ AskedInv /\ [SnapshotNext]_allVars => AskedInv'
<1> SUFFICES ASSUME BoxInv, AskedInv, [SnapshotNext]_allVars PROVE AskedInv'
  OBVIOUS
<1> USE DEF Told, Untold, Asks
<1>1. ASSUME UNCHANGED asked \/ \E b \in Browsers : Untold(b),
             staged' = NoZip \/ staged' = staged
      PROVE  AskedInv'
  <2>1. \A b \in Browsers : asked'[b] \in {asked[b], NoZip}
    BY <1>1 DEF AskedInv
  <2>2. asked' \in [Browsers -> Uploads \cup {NoZip}]
    BY <1>1 DEF AskedInv
  <2> QED
    BY <1>1, <2>1, <2>2 DEF AskedInv, AskedAboutWhatIsThere
<1>2. ASSUME NEW b \in Browsers, NEW zip \in Uploads, StageBegins(b, zip)
      PROVE  AskedInv'
  <2>1. asked' \in [Browsers -> Uploads \cup {NoZip}] /\ asked'[b] = NoZip
    BY <1>2 DEF StageBegins, AskedInv
  <2>2. staged'.by = b
    BY <1>2 DEF StageBegins
  <2> QED
    BY <2>1, <2>2 DEF AskedInv, AskedAboutWhatIsThere
<1>3. ASSUME NEW b \in Browsers, StageEnds(b) PROVE AskedInv'
  <2>1. CASE ~Opens(Written(b))
    BY <1>1, <1>3, <2>1 DEF StageEnds
  <2>2. CASE Opens(Written(b))
    <3>1. Written(b) \in StagedFiles /\ Written(b).whole
      BY <2>2, WrittenType DEF Opens
    <3>2. staged' = Written(b) /\ asked' = [asked EXCEPT ![b] = Written(b).zip]
      BY <1>3, <2>2 DEF StageEnds
    <3>3. asked' \in [Browsers -> Uploads \cup {NoZip}] /\ asked'[b] = staged'.zip
      BY <3>1, <3>2 DEF AskedInv, StagedFiles
    <3>4. staged # NoZip /\ staged \in StagedFiles
      BY <2>2 DEF Opens, Written, BoxInv
    <3>5. staged'.by # b => staged' = staged
      BY <3>2, <3>4 DEF Written, StagedFiles
    <3>6. \A c \in Browsers : c # b => asked'[c] = asked[c]
      BY <3>2 DEF AskedInv
    <3> QED
      BY <3>1, <3>2, <3>3, <3>5, <3>6 DEF AskedInv, AskedAboutWhatIsThere
  <2> QED
    BY <2>1, <2>2
<1>4. CASE ImportStep
  <2>1. ASSUME ImportEnds PROVE AskedInv'
    <3>1. import.by \in Browsers
      BY <2>1 DEF ImportEnds, BoxInv, ImportInv, Imports
    <3> QED
      BY <1>1, <2>1, <3>1 DEF ImportEnds, ImportReturns
  <2> QED
    BY <1>1, <1>4, <2>1
       DEF ImportStep, ImportRefused, ImportStarts, TakesUp, RestoreTapFile,
           SweepOtherSpellings, RestoreRootImage, ImportFails, ImportReturns, staging
<1>5. CASE StageStep
  BY <1>1, <1>2, <1>3, <1>5 DEF StageStep, StageBreaks, Discard
<1>6. CASE TapStep \/ BoxDies \/ (\E e \in Exts : HandPlaceholder(e)) \/ UNCHANGED allVars
  BY <1>1, <1>6 DEF TapStep, BoxDies, HandPlaceholder, allVars, staging
<1> QED
  BY <1>4, <1>5, <1>6 DEF SnapshotNext

THEOREM QuestionsFit == SnapshotSpec => []AskedAboutWhatIsThere
<1>1. SnapshotInit => AskedInv
  BY DEF SnapshotInit, AskedInv, AskedAboutWhatIsThere
<1>2. AskedInv => AskedAboutWhatIsThere
  BY DEF AskedInv
<1> QED
  BY <1>1, <1>2, BoxInit, BoxNext, AskedKept, PTL DEF SnapshotSpec

(* The one spelling that is left is the one that shows.                    *)
LEMMA RootShows ==
  ASSUME BoxInv, ImportEnds, Unhurt({"hand"}), Unhurt({"unlink"}), import.zip.root # {}
  PROVE  PlaceholderShown = "snapshot"
<1>1. ImportInv /\ RootSoFar /\ import.root = {}
  BY DEF BoxInv, ImportInv, ImportEnds
<1>2. import.zip \in Uploads
  BY <1>1 DEF ImportInv, Imports
<1>3. PICK e \in import.zip.root : e \in Exts
  BY <1>2, SnapshotAssumption
<1>4. import.zip.root = {e}
  BY <1>1, <1>3 DEF ImportInv, ValidLayout
<1>5. placeholder[e] = "snapshot" /\ \A f \in Exts : f # e => placeholder[f] = NoFile
  BY <1>1, <1>4 DEF RootSoFar
<1>6. placeholder[e] # NoFile /\ \A f \in Exts : f < e => f # e
  BY <1>5, <1>3, SnapshotAssumption, TapSyncAssumption DEF Exts
<1> DEFINE shows(x) == /\ placeholder[x] # NoFile
                       /\ \A f \in Exts : f < x => placeholder[f] = NoFile
<1>7. \A x \in Exts : shows(x) <=> x = e
  BY <1>3, <1>5, <1>6
<1>8. (CHOOSE x \in Exts : shows(x)) = e
  <2>1. (CHOOSE x \in Exts : shows(x)) \in Exts /\ shows(CHOOSE x \in Exts : shows(x))
    BY <1>3, <1>7
  <2> QED
    BY <1>7, <2>1
<1> QED
  BY <1>3, <1>5, <1>6, <1>8 DEF PlaceholderShown

(* An import that reports success is a restore, not a wipe, whatever ran   *)
(* beside it.                                                              *)
THEOREM ImportsRestore == SnapshotSpec => ImportIsARestore
<1>1. ASSUME BoxInv, ImportEnds, Unhurt({"hand"})
      PROVE  \A m \in Members :
               Held(m) = IF m \in DOMAIN import.zip.files
                            /\ ~(import.skip /\ m.source = "brewfather")
                         THEN import.zip.files[m] ELSE import.before[m]
  <2>1. RestoredSoFar /\ import.left = {}
    BY <1>1 DEF BoxInv, ImportInv, ImportEnds
  <2> QED
    BY <2>1 DEF RestoredSoFar, Allowed
<1>2. BoxInv =>
        (ImportEnds /\ Unhurt({"hand"}) =>
           /\ \A m \in Members :
                Held(m) = IF m \in DOMAIN import.zip.files
                             /\ ~(import.skip /\ m.source = "brewfather")
                          THEN import.zip.files[m] ELSE import.before[m]
           /\ (import.zip.root # {} /\ Unhurt({"unlink"})) => PlaceholderShown = "snapshot")
  BY <1>1, RootShows
<1> QED
  BY <1>2, BoxAlways, PTL DEF ImportIsARestore, SnapshotSpec

-----------------------------------------------------------------------------
(* TapSync's promises, with imports among its writers.                     *)
Promises == CopiedOut' /\ KeptWhenMoved /\ ShownUnderOverride

LEMMA OneCell ==
  ASSUME NEW x \in Sources, NEW y \in Slots, NEW content,
         md \in [Sources -> [Slots -> MdFiles]],
         md' = md \/ md' = [md EXCEPT ![x][y] = content],
         NEW source \in Sources, NEW s \in Slots
  PROVE  md'[source][s] = md[source][s] \/ md'[source][s] = content
<1>1. CASE source = x /\ s = y
  BY <1>1
<1>2. CASE ~(source = x /\ s = y)
  BY <1>2
<1> QED
  BY <1>1, <1>2

LEMMA FreeSteps ==
  ASSUME BoxInv, CopiedOut, [Next]_vars, holder # "import" PROVE Promises
BY CopiedOutKept, MovesKeep, SyncShows DEF BoxInv, Promises

LEMMA ImportSteps ==
  ASSUME BoxInv, CopiedOut, [SnapshotNext]_allVars, holder = "import" PROVE Promises
<1>1. Resting /\ ImportInv /\ ~EventLoopFree
  BY DEF BoxInv, EventLoopFree
<1>2. CASE TapStep
  <2>1. pc' = "idle"
    BY <1>1, <1>2, RestingSteps DEF TapStep, BrewerEdits, HandDamages, Resting
  <2>2. ASSUME NEW source \in Sources, NEW s \in Slots
        PROVE  md'[source][s] = md[source][s] \/ md'[source][s] \in Spoilt
    <3>1. md' = md \/ \E x \in Sources, y \in Slots, spoilt \in Spoilt :
                         md' = [md EXCEPT ![x][y] = spoilt]
      BY <1>1, <1>2, RestingSteps DEF TapStep, BrewerEdits, HandDamages, files
    <3>2. ASSUME NEW x \in Sources, NEW y \in Slots, NEW spoilt \in Spoilt,
                 md' = [md EXCEPT ![x][y] = spoilt]
          PROVE  md'[source][s] = md[source][s] \/ md'[source][s] = spoilt
      BY <1>1, <3>2, OneCell DEF Resting
    <3> QED
      BY <3>1, <3>2
  <2>3. KeptWhenMoved
    BY <2>2, TapSyncAssumption DEF KeptWhenMoved, Readable, Spoilt
  <2> QED
    BY <2>1, <2>3 DEF Promises, CopiedOut, ShownUnderOverride
<1>3. ASSUME NEW m \in Members, RestoreTapFile(m) PROVE Promises
  <2>1. import.zip.files[m] # NoFile
    <3>1. m \in DOMAIN import.zip.files /\ import.zip \in Uploads
      BY <1>1, <1>3 DEF RestoreTapFile, ImportInv, Imports, Allowed
    <3> QED
      BY <3>1, SnapshotAssumption
  <2>2. pc' = "idle" /\ (md' = md \/ md' = [md EXCEPT ![m.source][m.slot] = import.zip.files[m]])
    BY <1>1, <1>3 DEF RestoreTapFile, Resting
  <2>3. ASSUME NEW source \in Sources, NEW s \in Slots
        PROVE  md'[source][s] = md[source][s] \/ md'[source][s] = import.zip.files[m]
    <3>1. m.source \in Sources /\ m.slot \in Slots
      BY MemberType
    <3>2. md \in [Sources -> [Slots -> MdFiles]]
      BY <1>1 DEF Resting
    <3> DEFINE content == import.zip.files[m]
    <3>3. md' = md \/ md' = [md EXCEPT ![m.source][m.slot] = content]
      BY <2>2
    <3> HIDE DEF content
    <3>4. md'[source][s] = md[source][s] \/ md'[source][s] = content
      BY <3>1, <3>2, <3>3, OneCell
    <3> QED
      BY <3>4 DEF content
  <2>4. KeptWhenMoved
    BY <2>1, <2>3 DEF KeptWhenMoved, Readable
  <2> QED
    BY <2>2, <2>4 DEF Promises, CopiedOut, ShownUnderOverride
<1>4. CASE UNCHANGED md /\ pc' = "idle"
  BY <1>4 DEF Promises, CopiedOut, KeptWhenMoved, ShownUnderOverride, Readable
<1>5. \/ UNCHANGED md /\ pc' = "idle"
      \/ TapStep
      \/ \E m \in Members : RestoreTapFile(m)
  BY <1>1 DEF SnapshotNext, allVars, vars, files, taps, StageStep, StageBegins,
     StageEnds, StageBreaks, Discard, ImportStep, ImportStarts, ImportRefused,
     SweepOtherSpellings, RestoreRootImage, ImportEnds, ImportFails, ImportReturns,
     BoxDies, Crash, Release, HandPlaceholder, Resting
<1> QED
  BY <1>2, <1>3, <1>4, <1>5

(* The steps of others while the lock is free or TapSync's.                *)
LEMMA BesideSteps ==
  ASSUME BoxInv, CopiedOut, holder # "import",
         \/ \E b \in Browsers, skip \in BOOLEAN : ImportStarts(b, skip)
         \/ \E e \in Exts : HandPlaceholder(e)
         \/ holder = "none" /\ UNCHANGED taps
  PROVE  Promises
<1>1. UNCHANGED files /\ UNCHANGED <<pc, job>>
  BY DEF ImportStarts, TakesUp, HandPlaceholder, taps
<1>2. holder = "sync" => hurt'["hand"] # hurt["hand"]
  BY DEF BoxInv, Inv, TypeOK, Mishap, Mishaps, HandPlaceholder, ImportStarts, EventLoopFree
<1> QED
  BY <1>1, <1>2 DEF Promises, CopiedOut, KeptWhenMoved, ShownUnderOverride,
     Readable, files, job, sweeps, target

LEMMA EveryStep == BoxInv /\ CopiedOut /\ [SnapshotNext]_allVars => Promises
<1> SUFFICES ASSUME BoxInv, CopiedOut, [SnapshotNext]_allVars, holder # "import"
             PROVE  Promises
  BY ImportSteps
<1>1. CASE TapStep \/ StageStep \/ UNCHANGED allVars
  BY <1>1, FreeSteps DEF TapStep, StageStep, StageBegins, StageEnds, StageBreaks,
     Discard, allVars
<1>2. CASE ImportStep
  BY <1>2, FreeSteps, BesideSteps DEF ImportStep, ImportRefused, RestoreTapFile,
     SweepOtherSpellings, RestoreRootImage, ImportEnds, ImportFails
<1>3. CASE BoxDies
  BY <1>3, FreeSteps, BesideSteps DEF BoxDies, Next, Outside
<1>4. CASE \E e \in Exts : HandPlaceholder(e)
  BY <1>4, BesideSteps
<1> QED
  BY <1>1, <1>2, <1>3, <1>4 DEF SnapshotNext

LEMMA PromisesAlways == SnapshotSpec => [](BoxInv /\ CopiedOut)
<1>1. SnapshotInit => CopiedOut
  BY DEF SnapshotInit, Init, CopiedOut
<1>2. BoxInv /\ CopiedOut /\ [SnapshotNext]_allVars => CopiedOut'
  BY EveryStep DEF Promises
<1> QED
  BY <1>1, <1>2, BoxInit, BoxNext, PTL DEF SnapshotSpec

(* Nothing is lost on its way to the archive, with imports as well.        *)
THEOREM ImportsLoseNothing == SnapshotSpec => ArchivedBeforeRemoved
<1>1. BoxInv /\ CopiedOut /\ [SnapshotNext]_allVars =>
        \A source \in Sources, s \in Slots :
          (Readable(md[source][s]) /\ md'[source][s] = NoFile) =>
            [source |-> source, slot |-> s, content |-> md[source][s]] \in oldBeers'.md
  BY EveryStep DEF Promises, KeptWhenMoved
<1> QED
  BY <1>1, PromisesAlways, PTL DEF SnapshotSpec, ArchivedBeforeRemoved

(* No sync shows through an override, with imports as well.                *)
THEOREM ImportsLeaveOverrides == SnapshotSpec => SyncNeverShowsThroughOverride
<1>1. BoxInv /\ CopiedOut /\ [SnapshotNext]_allVars =>
        ((holder = "sync" /\ hurt'["hand"] = hurt["hand"]) =>
           \A s \in Slots : md["manual"][s] # NoFile => Board(s)' = Board(s))
  BY EveryStep DEF Promises, ShownUnderOverride
<1> QED
  BY <1>1, PromisesAlways, PTL DEF SnapshotSpec, SyncNeverShowsThroughOverride
=============================================================================
