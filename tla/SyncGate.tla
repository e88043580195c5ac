----------------------------- MODULE SyncGate -----------------------------
(***************************************************************************)
(* What run_sync reads before it has JOB_LOCK, what it reads again inside, *)
(* and who changes those answers meanwhile.  config.json says whether      *)
(* anybody wants Upcoming previews and holds the Brewfather key; the       *)
(* Admin's Save (config_store.apply_settings) and a Snapshot import        *)
(* (snapshot.import_snapshot) rewrite it, an operator edits it by hand.    *)
(* data/upcoming (app/upcoming_store.py) follows the first answer, the     *)
(* Brewfather Taps follow the second.                                      *)
(*                                                                         *)
(* A thread runs at most one job.  The event loop runs Saves, imports and  *)
(* the Admin's own sync, one after the other; the background threads run   *)
(* syncs only.  The Taps of a sync are one step here: TapSync is about     *)
(* them.                                                                   *)
(***************************************************************************)
EXTENDS Naturals, FiniteSets

CONSTANTS
  Jobs,          \* the background threads: the boot sync and the scheduler's
  Loop,          \* the event loop
  Batches,
  Nobody,        \* nobody holds JOB_LOCK
  KeyFromEnv,    \* BREWFATHER_API_KEY is set in the environment
  MaxHurt        \* bound: how often each kind of event of Mishaps happens

Threads == Jobs \cup {Loop}
Mishaps == {"api", "disk", "hand", "crash", "save", "import", "cloud"}

ASSUME SyncGateAssumption ==
  /\ Loop \notin Jobs /\ Nobody \notin Threads
  /\ KeyFromEnv \in BOOLEAN /\ MaxHurt \in [Mishaps -> Nat]

VARIABLES
  qualify,     \* the Batches upcoming_beers would answer now
  config,      \* config.json: whether it reads, and the two answers in it
  entries,     \* data/upcoming: the Batches that have an entry
  bfTaps,      \* whose Brewfather Taps are on disk: the sync's, a Snapshot's
  lock,        \* JOB_LOCK
  pc,          \* Thread -> what it does next
  todo, keep,  \* the entries the holder has left to write; its keep_ids
  plan,        \* what the import being run will do
  hurt         \* how often each kind of event has happened

locals == <<todo, keep, plan>>
disk   == <<config, entries, bfTaps>>
gateVars == <<qualify, disk, lock, pc, locals, hurt>>

(* A config.json that does not read is the defaults: no previews, no key.  *)
UpcomingWanted == config.reads /\ config.wanted
HasKey         == KeyFromEnv \/ (config.reads /\ config.key)

NoPlan == [wanted |-> FALSE, key |-> "leave", skip |-> TRUE]

GateInit ==
  /\ qualify = {}
  /\ config = [reads |-> TRUE, wanted |-> FALSE, key |-> FALSE]
  /\ entries = {}
  /\ bfTaps = "sync"
  /\ lock = Nobody
  /\ pc = [t \in Threads |-> "idle"]
  /\ todo = {} /\ keep = {}
  /\ plan = NoPlan
  /\ hurt = [kind \in Mishaps |-> 0]

Happens(kind) ==
  /\ hurt[kind] < MaxHurt[kind]
  /\ hurt' = [hurt EXCEPT ![kind] = @ + 1]

Goto(t, where) == pc' = [pc EXCEPT ![t] = where]

Take(t, where) == lock = Nobody /\ lock' = t /\ Goto(t, where)

Free(t, where) == lock' = Nobody /\ Goto(t, where)

(* A sync gives the lock back and its locals go out of scope.              *)
SyncReturns(t) == Free(t, "idle") /\ todo' = {} /\ keep' = {}

-----------------------------------------------------------------------------
(* run_sync before the lock.                                               *)

(* Mutant: only the Admin's Save clears, the sync never does.              *)
SyncBeginsNoClear(t) ==
  /\ pc[t] = "idle"
  /\ Goto(t, "creds")
  /\ UNCHANGED <<qualify, disk, lock, locals, hurt>>

SyncBegins(t) ==
  /\ pc[t] = "idle"
  /\ Goto(t, IF UpcomingWanted THEN "creds" ELSE "waitClear")
  /\ UNCHANGED <<qualify, disk, lock, locals, hurt>>

(* upcoming_store.clear, under the lock, one file after the other.         *)
ClearBegins(t) ==
  /\ \/ pc[t] = "waitClear" /\ Take(t, "clear")
     \/ pc[t] = "saveWait" /\ Take(t, "saveClear")
  /\ UNCHANGED <<qualify, disk, locals, hurt>>

ClearEntry(t, b) ==
  /\ pc[t] \in {"clear", "saveClear"} /\ b \in entries
  /\ entries' = entries \ {b}
  /\ UNCHANGED <<qualify, config, bfTaps, lock, pc, locals, hurt>>

ClearEnds(t) ==
  /\ pc[t] \in {"clear", "saveClear"} /\ entries = {}
  /\ Free(t, IF pc[t] = "clear" THEN "creds" ELSE "idle")
  /\ UNCHANGED <<qualify, disk, locals, hurt>>

ReadCreds(t) ==
  /\ pc[t] = "creds"
  /\ Goto(t, IF HasKey THEN "waitLock" ELSE "idle")
  /\ UNCHANGED <<qualify, disk, lock, locals, hurt>>

-----------------------------------------------------------------------------
(* run_sync inside the lock.                                               *)

SyncLocks(t) ==
  /\ pc[t] = "waitLock" /\ Take(t, "fetch")
  /\ UNCHANGED <<qualify, disk, locals, hurt>>

Fetch(t) ==
  /\ pc[t] = "fetch"
  /\ keep' = qualify
  /\ Goto(t, "taps")
  /\ UNCHANGED <<qualify, disk, lock, todo, plan, hurt>>

(* The write loop and _archive_undesired: every Brewfather Tap is the      *)
(* sync's afterwards.                                                      *)
SyncTaps(t) ==
  /\ pc[t] = "taps"
  /\ bfTaps' = "sync"
  /\ Goto(t, "gate")
  /\ UNCHANGED <<qualify, config, entries, lock, locals, hurt>>

(* Mutant: the gate is not read again inside the lock.                     *)
GateOpen(t) ==
  /\ pc[t] = "gate"
  /\ Goto(t, "write") /\ todo' = keep
  /\ UNCHANGED <<qualify, disk, lock, keep, plan, hurt>>

Gate(t) ==
  /\ pc[t] = "gate"
  /\ IF UpcomingWanted
     THEN Goto(t, "write") /\ todo' = keep /\ UNCHANGED <<lock, keep>>
     ELSE SyncReturns(t)
  /\ UNCHANGED <<qualify, disk, plan, hurt>>

WriteEntry(t, b) ==
  /\ pc[t] = "write" /\ b \in todo
  /\ entries' = entries \cup {b}
  /\ todo' = todo \ {b}
  /\ UNCHANGED <<qualify, config, bfTaps, lock, pc, keep, plan, hurt>>

RebuildBegins(t) ==
  /\ pc[t] = "write" /\ todo = {}
  /\ Goto(t, "rebuild")
  /\ UNCHANGED <<qualify, disk, lock, locals, hurt>>

RebuildRemoves(t, b) ==
  /\ pc[t] = "rebuild" /\ b \in entries \ keep
  /\ entries' = entries \ {b}
  /\ UNCHANGED <<qualify, config, bfTaps, lock, pc, locals, hurt>>

(* Mutant: what no longer qualifies stays, merged with what does.          *)
SyncEndsMerged(t) ==
  /\ pc[t] = "rebuild"
  /\ SyncReturns(t)
  /\ UNCHANGED <<qualify, disk, plan, hurt>>

SyncEnds(t) ==
  /\ pc[t] = "rebuild" /\ entries \subseteq keep
  /\ SyncReturns(t)
  /\ UNCHANGED <<qualify, disk, plan, hurt>>

(* The API answers with an error, or a write does.                         *)
SyncFails(t) ==
  /\ \/ pc[t] = "fetch" /\ Happens("api")
     \/ pc[t] \in {"taps", "write"} /\ Happens("disk")
  /\ SyncReturns(t)
  /\ UNCHANGED <<qualify, disk, plan>>

-----------------------------------------------------------------------------
(* The Admin, on the event loop.                                           *)

(* apply_settings; update_config refuses a config that does not read.      *)
Save(wanted, key) ==
  /\ pc[Loop] = "idle" /\ config.reads /\ Happens("save")
  /\ config' = [config EXCEPT !.wanted = wanted,
                              !.key = IF KeyFromEnv THEN @ ELSE key]
  /\ Goto(Loop, IF UpcomingWanted /\ ~wanted THEN "saveWait" ELSE "idle")
  /\ UNCHANGED <<qualify, entries, bfTaps, lock, locals>>

(* import_snapshot up to the lock: plan_import asks whether to keep        *)
(* syncing when either side has a key the environment does not own.        *)
ImportBegins(wanted, snapshotKey, keepSyncing) ==
  /\ pc[Loop] = "idle" /\ Happens("import")
  /\ LET choose == ~KeyFromEnv /\ (HasKey \/ snapshotKey)
         stops  == choose /\ ~keepSyncing
         fills  == ~stops /\ ~(config.reads /\ config.key) /\ snapshotKey
     IN  plan' = [wanted |-> wanted,
                  key    |-> IF stops THEN "clear"
                             ELSE IF fills THEN "fill" ELSE "leave",
                  skip   |-> KeyFromEnv \/ (choose /\ keepSyncing)]
  /\ Goto(Loop, "waitImport")
  /\ UNCHANGED <<qualify, disk, lock, todo, keep>>

ImportSettings ==
  /\ pc[Loop] = "waitImport" /\ config.reads
  /\ Take(Loop, "restore")
  /\ config' = [config EXCEPT
                  !.wanted = plan.wanted,
                  !.key = CASE KeyFromEnv -> @ [] plan.key = "clear" -> FALSE
                            [] plan.key = "fill" -> TRUE [] OTHER -> @]
  /\ UNCHANGED <<qualify, entries, bfTaps, locals, hurt>>

ImportRefused ==
  /\ pc[Loop] = "waitImport" /\ ~config.reads /\ lock = Nobody
  /\ Goto(Loop, "idle") /\ plan' = NoPlan
  /\ UNCHANGED <<qualify, disk, lock, todo, keep, hurt>>

ImportFiles ==
  /\ pc[Loop] = "restore"
  /\ bfTaps' = IF plan.skip THEN bfTaps ELSE "snapshot"
  /\ Free(Loop, "idle") /\ plan' = NoPlan
  /\ UNCHANGED <<qualify, config, entries, todo, keep, hurt>>

-----------------------------------------------------------------------------
(* The world outside.                                                      *)

BrewerEdits(now) ==
  /\ Happens("cloud")
  /\ qualify' = now
  /\ UNCHANGED <<disk, lock, pc, locals>>

HandEdits(new) ==
  /\ Happens("hand")
  /\ config' = new
  /\ UNCHANGED <<qualify, entries, bfTaps, lock, pc, locals>>

Crash ==
  /\ Happens("crash")
  /\ lock' = Nobody
  /\ pc' = [t \in Threads |-> "idle"]
  /\ todo' = {} /\ keep' = {} /\ plan' = NoPlan
  /\ UNCHANGED <<qualify, disk>>

SyncStep(t) ==
  \/ ClearBegins(t) \/ ClearEnds(t) \/ ReadCreds(t) \/ SyncLocks(t) \/ Fetch(t)
  \/ SyncTaps(t) \/ Gate(t) \/ RebuildBegins(t) \/ SyncEnds(t)
  \/ \E b \in Batches :
       ClearEntry(t, b) \/ WriteEntry(t, b) \/ RebuildRemoves(t, b)

ImportStep == ImportSettings \/ ImportRefused \/ ImportFiles

Configs == [reads : BOOLEAN, wanted : BOOLEAN, key : BOOLEAN]

GateNext ==
  \/ \E t \in Threads : SyncBegins(t) \/ SyncStep(t) \/ SyncFails(t)
  \/ \E wanted, key \in BOOLEAN : Save(wanted, key)
  \/ \E wanted, key, keepSyncing \in BOOLEAN :
       ImportBegins(wanted, key, keepSyncing)
  \/ ImportStep
  \/ \E now \in SUBSET Batches : BrewerEdits(now)
  \/ \E new \in Configs : HandEdits(new)
  \/ Crash

GateSpec == GateInit /\ [][GateNext]_gateVars

(* A thread that runs goes on, a background sync comes round again, and a  *)
(* lock that is free again and again is obtained in the end.               *)
FairSpec ==
  /\ GateSpec
  /\ \A t \in Threads : SF_gateVars(SyncStep(t))
  /\ SF_gateVars(ImportStep)
  /\ \A t \in Jobs : WF_gateVars(SyncBegins(t))

-----------------------------------------------------------------------------
Holding == {"clear", "saveClear", "fetch", "taps", "gate", "write", "rebuild",
            "restore"}
Running == Holding \cup {"idle", "waitClear", "creds", "waitLock"}

(* The shape of every variable, and the lock belongs to the one thread     *)
(* that is where only its holder can be.                                   *)
TypeOK ==
  /\ qualify \subseteq Batches /\ entries \subseteq Batches
  /\ config \in Configs
  /\ bfTaps \in {"sync", "snapshot"}
  /\ lock \in Threads \cup {Nobody}
  /\ pc \in [Threads -> Running \cup {"saveWait", "waitImport"}]
  /\ \A t \in Jobs : pc[t] \in Running \ {"saveClear", "restore"}
  /\ \A t \in Threads : pc[t] \in Holding <=> lock = t
  /\ todo \subseteq Batches /\ keep \subseteq Batches
  /\ plan \in [wanted : BOOLEAN, key : {"clear", "fill", "leave"}, skip : BOOLEAN]
  /\ hurt \in [Mishaps -> Nat]

Unhurt(kinds) == \A kind \in kinds : hurt[kind] = 0

(* apply_settings clears data/upcoming when a Save turns the previews off, *)
(* and no sync fills it again: while nobody wants previews the directory   *)
(* is empty, except until the Save that turned them off has had the lock.  *)
(* The sync that read "wanted" before the Save must not write after it.    *)
GateHonest ==
  (Unhurt({"hand", "crash", "import"}) /\ ~UpcomingWanted /\ entries # {}) =>
    pc[Loop] \in {"saveWait", "saveClear"}

(* "Rebuilt, not merged": a sync that ends with the previews written has   *)
(* left exactly the entries of the listing it fetched.                     *)
RebuiltNotMerged == [][\A t \in Threads : SyncEnds(t) => entries = keep]_gateVars

(* However config.json came to say so, and whatever failed on the way: in  *)
(* the end data/upcoming is empty when nobody wants previews, and is what  *)
(* qualifies when somebody does and the box can sync.                      *)
UpcomingConverges ==
  <>[](IF UpcomingWanted THEN HasKey => entries = qualify ELSE entries = {})
=============================================================================
