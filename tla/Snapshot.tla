------------------------------ MODULE Snapshot ------------------------------
(***************************************************************************)
(* Restoring a Snapshot (app/snapshot.py, the routes of app/main.py) on a  *)
(* box whose Taps the sync and the Admin go on writing: TapSync, and one   *)
(* more holder of JOB_LOCK.                                                *)
(*                                                                         *)
(* An upload streams into one fixed file, STAGED_UPLOAD_PATH, and the      *)
(* event loop serves other requests between two chunks: a second browser   *)
(* may begin, break off, discard or import meanwhile.  All else in a       *)
(* route is one step of the event loop, which an override or an import     *)
(* keeps busy until it is done.  Uploads and syncs share nothing, so an    *)
(* upload's steps are taken while no job runs.                             *)
(*                                                                         *)
(* A Snapshot is a record: files, what the Tap files in it hold; root, the *)
(* spellings of the placeholder image it carries; sound, whether every     *)
(* member checks out.  The venue logo is handled like the placeholder and  *)
(* the archived beers like Tap files: they are left out.  config.json and  *)
(* the Brewfather question are SyncGate's; skip stands for the answer.     *)
(* The unlink of STAGED_UPLOAD_PATH itself is taken to work.               *)
(***************************************************************************)
EXTENDS TapSync

CONSTANTS
  Uploads,       \* the Snapshots an operator may upload
  Browsers,      \* who is on the Admin page
  NoZip

VARIABLES
  placeholder,   \* its files: spelling -> whose image it is, or NoFile
  staged,        \* STAGED_UPLOAD_PATH: what it holds, or NoZip
  uploading,     \* the Browsers whose upload is streaming
  asked,         \* Browser -> the Snapshot its page asks about, or NoZip
  import         \* the locals of import_snapshot, or NoZip

taps     == <<cloud, files, holder, pc, job>>
staging  == <<staged, uploading, asked>>
allVars  == <<vars, placeholder, staging, import>>

(* A member of a Snapshot: part 0 is the md, another the photo's extension. *)
Members  == [source : Sources, slot : Slots, part : 0..NumExts]

ASSUME SnapshotAssumption ==
  /\ NoFile # "snapshot"
  /\ \A zip \in Uploads :
       /\ DOMAIN zip.files \subseteq Members /\ zip.root \subseteq Exts
       /\ \A m \in DOMAIN zip.files :
            zip.files[m] \in (IF m.part = 0 THEN MdFiles ELSE Photos) \ {NoFile}

Held(m) == IF m.part = 0 THEN md[m.source][m.slot] ELSE img[m.source][m.slot][m.part]

(* placeholder_path: the first spelling in a fixed order, else the bundled. *)
PlaceholderShown ==
  IF \A e \in Exts : placeholder[e] = NoFile THEN "bundled"
  ELSE placeholder[CHOOSE e \in Exts : /\ placeholder[e] # NoFile
                                      /\ \A f \in Exts : f < e => placeholder[f] = NoFile]

(* _ensure_local_placeholder: every start puts the first spelling back.     *)
Seeded(images) == [images EXCEPT ![1] = IF @ = NoFile THEN "bundled" ELSE @]

EventLoopFree == holder = "none"

SnapshotInit ==
  /\ Init
  /\ placeholder = Seeded([e \in Exts |-> NoFile])
  /\ staged = NoZip /\ import = NoZip
  /\ uploading = {} /\ asked = [b \in Browsers |-> NoZip]

-----------------------------------------------------------------------------
(* stage_snapshot, discard_snapshot.                                       *)

(* The page's question: put up by the answer to its upload (StageEnds), and *)
(* taken down by the next upload, by a cancel and by a restore.            *)
Told(b, zip) == asked' = [asked EXCEPT ![b] = zip]
Untold(b)    == Told(b, NoZip)
Asks(b)      == asked[b] # NoZip

(* Mutant: the page leaves its question up while the next file uploads.    *)
StageBeginsAsking(b, zip) ==
  /\ EventLoopFree /\ b \notin uploading
  /\ staged' = [by |-> b, zip |-> zip, whole |-> FALSE]
  /\ uploading' = uploading \cup {b}
  /\ UNCHANGED <<vars, placeholder, asked, import>>

(* What was staged is unlinked; the upload gets a file of its own.         *)
StageBegins(b, zip) ==
  /\ EventLoopFree /\ b \notin uploading
  /\ staged' = [by |-> b, zip |-> zip, whole |-> FALSE]
  /\ uploading' = uploading \cup {b}
  /\ Untold(b)
  /\ UNCHANGED <<vars, placeholder, import>>

(* The file by that name, once the last chunk of b's upload is written.    *)
Written(b) == IF staged # NoZip /\ staged.by = b THEN [staged EXCEPT !.whole = TRUE] ELSE staged

(* Two spellings of the placeholder are refused.                           *)
ValidLayout(zip) == \A e, f \in zip.root : e = f

(* open_snapshot: half an upload has no directory, so it is no zip.        *)
Opens(file) == file # NoZip /\ file.whole /\ file.zip.sound /\ ValidLayout(file.zip)

(* The name is opened again to be validated, whoever's file has it now.    *)
StageEnds(b) ==
  /\ EventLoopFree /\ b \in uploading
  /\ IF Opens(Written(b)) THEN staged' = Written(b) /\ Told(b, Written(b).zip)
     ELSE staged' = NoZip /\ UNCHANGED asked
  /\ uploading' = uploading \ {b}
  /\ UNCHANGED <<vars, placeholder, import>>

(* The connection is lost: the staged file goes, whoever's it is.          *)
StageBreaks(b) ==
  /\ EventLoopFree /\ b \in uploading
  /\ staged' = NoZip /\ uploading' = uploading \ {b}
  /\ UNCHANGED <<vars, placeholder, asked, import>>

Discard(b) ==
  /\ EventLoopFree /\ Asks(b)
  /\ staged' = NoZip /\ Untold(b)
  /\ UNCHANGED <<vars, placeholder, uploading, import>>

-----------------------------------------------------------------------------
(* import_snapshot.                                                        *)

TakesUp(b, skip) ==
  /\ import' = [zip |-> staged.zip, skip |-> skip, by |-> b,
                left |-> {m \in DOMAIN staged.zip.files : ~(skip /\ m.source = "brewfather")},
                root |-> staged.zip.root, swept |-> FALSE,
                before |-> [m \in Members |-> Held(m)]]
  /\ holder' = "import"
  /\ UNCHANGED <<cloud, files, pc, job, hurt, placeholder, staging>>

(* Mutant: the import does not wait for JOB_LOCK.                          *)
ImportStartsUnlocked(b, skip) == Asks(b) /\ Opens(staged) /\ TakesUp(b, skip)

ImportStarts(b, skip) ==
  /\ EventLoopFree /\ Asks(b) /\ Opens(staged)
  /\ TakesUp(b, skip)

(* No Snapshot, one that asks what b was not asked, or a config.json that  *)
(* does not read: what is staged goes all the same.                        *)
ImportRefused(b) ==
  /\ EventLoopFree /\ Asks(b)
  /\ staged' = NoZip
  /\ UNCHANGED <<vars, placeholder, uploading, asked, import>>

RestoreTapFile(m) ==
  /\ holder = "import" /\ m \in import.left
  /\ import' = [import EXCEPT !.left = @ \ {m}]
  /\ IF m.part = 0
     THEN md' = [md EXCEPT ![m.source][m.slot] = import.zip.files[m]] /\ UNCHANGED img
     ELSE /\ SetPhotos(m.source, m.slot, [img[m.source][m.slot] EXCEPT ![m.part] = import.zip.files[m]])
          /\ UNCHANGED md
  /\ UNCHANGED <<cloud, oldBeers, holder, pc, job, hurt, placeholder, staging>>

(* _sweep_other_spellings: nobody asks safe_unlink whether any are stuck.  *)
SweepOtherSpellings(stuck) ==
  /\ holder = "import" /\ import.root # {} /\ ~import.swept
  /\ IF stuck = {} THEN UNCHANGED hurt ELSE Mishap("unlink")
  /\ import' = [import EXCEPT !.swept = TRUE]
  /\ placeholder' = [e \in Exts |-> IF e \in import.root \cup stuck THEN placeholder[e]
                                    ELSE NoFile]
  /\ UNCHANGED <<taps, staging>>

RestoreRootImage ==
  /\ holder = "import" /\ import.root # {} /\ import.swept
  /\ placeholder' = [e \in Exts |-> IF e \in import.root THEN "snapshot" ELSE placeholder[e]]
  /\ import' = [import EXCEPT !.root = {}]
  /\ UNCHANGED <<vars, staging>>

(* The staged file goes on every path out; the page asks on after a failure. *)
ImportReturns ==
  /\ holder' = "none" /\ import' = NoZip /\ staged' = NoZip
  /\ UNCHANGED <<cloud, files, pc, job, placeholder, uploading>>

ImportEnds ==
  /\ holder = "import" /\ import.left = {} /\ import.root = {}
  /\ ImportReturns /\ Untold(import.by) /\ UNCHANGED hurt

(* A write fails: what is restored by then stays restored.                 *)
ImportFails ==
  /\ holder = "import" /\ (import.left # {} \/ (import.swept /\ import.root # {}))
  /\ Mishap("disk")
  /\ ImportReturns /\ UNCHANGED asked

(* The process ends with every request in it, and starts; pages stay open. *)
BoxDies ==
  /\ Crash \/ (holder = "none" /\ Mishap("crash") /\ UNCHANGED taps)
  /\ import' = NoZip /\ uploading' = {} /\ placeholder' = Seeded(placeholder)
  /\ UNCHANGED <<staged, asked>>

(* An operator drops an image of their own in, in any spelling.            *)
HandPlaceholder(e) ==
  /\ Mishap("hand")
  /\ placeholder' = [placeholder EXCEPT ![e] = "own"]
  /\ UNCHANGED <<taps, staging, import>>

-----------------------------------------------------------------------------
TapStep == Next /\ hurt'["crash"] = hurt["crash"] /\ UNCHANGED <<placeholder, staging, import>>

StageStep ==
  \E b \in Browsers :
    \/ \E zip \in Uploads : StageBegins(b, zip)
    \/ StageEnds(b) \/ StageBreaks(b) \/ Discard(b)

ImportStep ==
  \/ \E b \in Browsers : ImportRefused(b) \/ \E skip \in BOOLEAN : ImportStarts(b, skip)
  \/ \E m \in Members : RestoreTapFile(m)
  \/ \E stuck \in SUBSET Exts : SweepOtherSpellings(stuck)
  \/ RestoreRootImage \/ ImportEnds \/ ImportFails

SnapshotNext ==
  TapStep \/ StageStep \/ ImportStep \/ BoxDies \/ \E e \in Exts : HandPlaceholder(e)

SnapshotSpec == SnapshotInit /\ [][SnapshotNext]_allVars

-----------------------------------------------------------------------------
(* One fixed name serves every page: what a browser is asked about is the  *)
(* very file an import would take, whole, through refused and broken       *)
(* uploads, crashes and imports, until another browser's file has the name *)
(* ("the name is fixed so there is only ever ONE staged Snapshot",         *)
(* snapshot.py STAGED_UPLOAD_PATH).                                        *)
AskedAboutWhatIsThere ==
  \A b \in Browsers :
    (Asks(b) /\ staged # NoZip /\ staged.by = b) => staged.whole /\ staged.zip = asked[b]

(* An import that reports success is a restore, not a wipe: what it was    *)
(* allowed to write holds the Snapshot's content, every other Tap file is  *)
(* as it was before, and the root image the Snapshot carries is the one    *)
(* that shows, unless the unlink of another spelling failed unasked.  No   *)
(* sync, override or other import gets between.                            *)
ImportIsARestore ==
  [][ImportEnds /\ Unhurt({"hand"}) =>
       /\ \A m \in Members :
            Held(m) = IF m \in DOMAIN import.zip.files /\ ~(import.skip /\ m.source = "brewfather")
                      THEN import.zip.files[m] ELSE import.before[m]
       /\ (import.zip.root # {} /\ Unhurt({"unlink"})) => PlaceholderShown = "snapshot"]_allVars

-----------------------------------------------------------------------------
(* What the docs say and the code does not do.                             *)

(* enumerate_entries: every Tap file, and every spelling of a root image.  *)
SnapshotNow ==
  [root  |-> {e \in Exts : placeholder[e] # NoFile}, sound |-> TRUE,
   files |-> [m \in {n \in Members : Held(n) # NoFile} |-> Held(m)]]

(* "Produced and consumed by the admin's export and import" (GLOSSARY.md:  *)
(* 232-233): the box accepts the Snapshot it would produce, at any time.   *)
OwnSnapshotAccepted == ValidLayout(SnapshotNow)
=============================================================================
