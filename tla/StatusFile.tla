----------------------------- MODULE StatusFile -----------------------------
(***************************************************************************)
(* status.json (app/status_store.py): the fields the sync job and the      *)
(* update check write about themselves, each by read, modify and write of  *)
(* the whole file, and the one-time migration that carries the fields of   *)
(* an older config.json over when the app starts.                          *)
(*                                                                         *)
(* The value of a field is the time it was recorded; 0 is "unknown", and   *)
(* for last_sync_error also "no error".                                    *)
(***************************************************************************)
EXTENDS Naturals, FiniteSets

CONSTANTS
  Syncers,     \* the threads that run syncs: boot, scheduler, event loop
  Checkers,    \* the threads that check for updates: scheduler, event loop
  Nobody,      \* nobody holds JOB_LOCK
  NoFile,      \* status.json does not exist; config.json has no old fields
  Damaged,     \* status.json does not read
  KeyFromEnv,  \* the environment holds the user and the key
  MaxNow,      \* bound: the time the clock stops at
  MaxHurt      \* bound: how often each kind of event of Mishaps happens

Threads == Syncers \cup Checkers
Mishaps == {"api", "disk", "config", "hand", "crash", "key", "tap"}

Fields == {"last_sync_success", "last_sync_error", "last_sync_attempt",
           "update_last_check", "update_latest_version"}

ASSUME StatusFileAssumption ==
  /\ KeyFromEnv \in BOOLEAN
  /\ MaxNow \in Nat \ {0} /\ MaxHurt \in [Mishaps -> Nat]
  /\ Nobody \notin Threads /\ NoFile # Damaged
  /\ NoFile \notin [Fields -> Nat] /\ Damaged \notin [Fields -> Nat]

VARIABLES
  status,      \* status.json
  legacy,      \* the Status fields still in config.json
  reads,       \* config.json reads
  storedKey,   \* config.json holds a Brewfather user and key
  phase,       \* where the start-up is
  lock,        \* JOB_LOCK
  pc, kind,    \* Thread -> what it does next, and the outcome it reports
  loaded,      \* Thread -> what update_status has read
  report,      \* Thread -> the changes it was called with
  now, hurt

jobs == <<lock, pc, kind, loaded, report>>
boot == <<legacy, reads, storedKey, phase>>
vars == <<status, boot, jobs, now, hurt>>

Unknown == [f \in Fields |-> 0]
NoLegacy == NoFile

(* brewfather_credentials: a config.json that does not read holds no key.  *)
HasKey == KeyFromEnv \/ (reads /\ storedKey)

(* load_status: a file that is absent or does not read is the defaults.    *)
Loaded == IF status \in {NoFile, Damaged} THEN Unknown ELSE status

(* What update_status is called with.                                      *)
Changes(outcome) ==
  CASE outcome = "skipped" -> [f \in {"last_sync_attempt"} |-> now]
    [] outcome = "failed"  ->
         [f \in {"last_sync_error", "last_sync_attempt"} |-> now]
    [] outcome = "synced"  ->
         [f \in {"last_sync_success", "last_sync_error", "last_sync_attempt"} |->
            IF f = "last_sync_error" THEN 0 ELSE now]
    [] outcome = "found"   ->
         [f \in {"update_last_check", "update_latest_version"} |-> now]
    [] outcome = "error"   -> [f \in {"update_last_check"} |-> now]

NoChanges == [f \in {} |-> 0]

(* dict.update                                                             *)
Updated(old, changes) ==
  [f \in Fields |-> IF f \in DOMAIN changes THEN changes[f] ELSE old[f]]

(* A box whose config.json an older version wrote, and a new one.          *)
Init ==
  /\ status = NoFile
  /\ legacy \in {NoLegacy, [Unknown EXCEPT !["last_sync_success"] = 1,
                                            !["update_last_check"] = 1]}
  /\ reads = TRUE /\ storedKey = TRUE
  /\ phase = "migrate"
  /\ lock = Nobody
  /\ pc = [t \in Threads |-> "idle"] /\ kind = [t \in Threads |-> "none"]
  /\ loaded = [t \in Threads |-> Unknown]
  /\ report = [t \in Threads |-> NoChanges]
  /\ now = 1
  /\ hurt = [m \in Mishaps |-> 0]

Happens(m) ==
  /\ hurt[m] < MaxHurt[m]
  /\ hurt' = [hurt EXCEPT ![m] = @ + 1]

-----------------------------------------------------------------------------
(* Start-up: migrate_legacy_status, before any job runs.                   *)

(* Mutant: an existing status.json is not the authority.                   *)
MigrateOverwrites ==
  /\ phase = "migrate"
  /\ phase' = IF ~reads \/ legacy = NoLegacy THEN "up" ELSE "save"
  /\ UNCHANGED <<status, legacy, reads, storedKey, jobs, now, hurt>>

Migrate ==
  /\ phase = "migrate"
  /\ phase' = CASE ~reads \/ legacy = NoLegacy -> "up"
                [] status # NoFile -> "prune"
                [] OTHER -> "save"
  /\ UNCHANGED <<status, legacy, reads, storedKey, jobs, now, hurt>>

MigrateSaves ==
  /\ phase = "save"
  /\ status' = legacy
  /\ phase' = "prune"
  /\ UNCHANGED <<legacy, reads, storedKey, jobs, now, hurt>>

(* Mutant: the failed write is swallowed and config.json rewritten anyway. *)
MigrateSaveFailsQuietly ==
  /\ phase = "save" /\ Happens("disk")
  /\ phase' = "prune"
  /\ UNCHANGED <<status, legacy, reads, storedKey, jobs, now>>

(* save_status raises, and with it the application's start-up.             *)
MigrateSaveFails ==
  /\ phase = "save" /\ Happens("disk")
  /\ phase' = "dead"
  /\ UNCHANGED <<status, legacy, reads, storedKey, jobs, now>>

(* _prune_legacy_keys tolerates a config.json that does not read or write. *)
Prune ==
  /\ phase = "prune"
  /\ \/ reads /\ legacy' = NoLegacy /\ UNCHANGED hurt
     \/ ~reads /\ UNCHANGED <<legacy, hurt>>
     \/ reads /\ Happens("disk") /\ UNCHANGED legacy
  /\ phase' = "up"
  /\ UNCHANGED <<status, reads, storedKey, jobs, now>>

-----------------------------------------------------------------------------
(* The jobs.                                                               *)

(* run_sync decides about skipping before it takes JOB_LOCK, and reports   *)
(* the skip without it.                                                    *)
SyncBegins(t) ==
  /\ phase = "up" /\ t \in Syncers /\ pc[t] = "idle"
  /\ \/ /\ HasKey
        /\ pc' = [pc EXCEPT ![t] = "waitSync"] /\ UNCHANGED kind
     \/ /\ ~HasKey
        /\ pc' = [pc EXCEPT ![t] = "load"]
        /\ kind' = [kind EXCEPT ![t] = "skipped"]
  /\ UNCHANGED <<status, boot, lock, loaded, report, now, hurt>>

SyncLocks(t) ==
  /\ pc[t] = "waitSync" /\ lock = Nobody
  /\ lock' = t
  /\ pc' = [pc EXCEPT ![t] = "sync"]
  /\ UNCHANGED <<status, boot, kind, loaded, report, now, hurt>>

SyncDone(t) ==
  /\ pc[t] = "sync"
  /\ pc' = [pc EXCEPT ![t] = "load"]
  /\ \/ kind' = [kind EXCEPT ![t] = "synced"] /\ UNCHANGED hurt
     \/ kind' = [kind EXCEPT ![t] = "failed"] /\ Happens("api")
  /\ UNCHANGED <<status, boot, lock, loaded, report, now>>

(* A Tap file that is not text: run_sync raises and records nothing.       *)
SyncRaises(t) ==
  /\ pc[t] = "sync" /\ Happens("tap")
  /\ pc' = [pc EXCEPT ![t] = "idle"]
  /\ lock' = Nobody
  /\ UNCHANGED <<status, boot, kind, loaded, report, now>>

(* check_for_updates asks GitHub first and takes the lock for its report.  *)
CheckDone(t) ==
  /\ phase = "up" /\ t \in Checkers /\ pc[t] = "idle"
  /\ pc' = [pc EXCEPT ![t] = "waitCheck"]
  /\ \/ kind' = [kind EXCEPT ![t] = "found"] /\ UNCHANGED hurt
     \/ kind' = [kind EXCEPT ![t] = "error"] /\ Happens("api")
  /\ UNCHANGED <<status, boot, lock, loaded, report, now>>

CheckLocks(t) ==
  /\ pc[t] = "waitCheck" /\ lock = Nobody
  /\ lock' = t
  /\ pc' = [pc EXCEPT ![t] = "load"]
  /\ UNCHANGED <<status, boot, kind, loaded, report, now, hurt>>

(* update_status: the read ...                                             *)
Load(t) ==
  /\ pc[t] = "load"
  /\ loaded' = [loaded EXCEPT ![t] = Loaded]
  /\ report' = [report EXCEPT ![t] = Changes(kind[t])]
  /\ pc' = [pc EXCEPT ![t] = "store"]
  /\ UNCHANGED <<status, boot, lock, kind, now, hurt>>

(* ... and the write; a job that held the lock gives it back.              *)
Returns(t) ==
  /\ pc' = [pc EXCEPT ![t] = "idle"]
  /\ kind' = [kind EXCEPT ![t] = "none"]
  /\ loaded' = [loaded EXCEPT ![t] = Unknown]
  /\ report' = [report EXCEPT ![t] = NoChanges]
  /\ lock' = IF lock = t THEN Nobody ELSE lock

(* Mutant: an unreadable status.json is refused, as config.json is.        *)
StoreUnlessDamaged(t) ==
  /\ pc[t] = "store"
  /\ status' = IF status = Damaged THEN status
               ELSE Updated(loaded[t], report[t])
  /\ Returns(t)
  /\ UNCHANGED <<boot, now, hurt>>

Store(t) ==
  /\ pc[t] = "store"
  /\ status' = Updated(loaded[t], report[t])
  /\ Returns(t)
  /\ UNCHANGED <<boot, now, hurt>>

StoreFails(t) ==
  /\ pc[t] = "store" /\ Happens("disk")
  /\ Returns(t)
  /\ UNCHANGED <<status, boot, now>>

-----------------------------------------------------------------------------
(* Everything else.                                                        *)

(* A Save stores or clears the key; _coerce drops the old fields with it.  *)
Save(key) ==
  /\ phase = "up" /\ reads
  /\ IF key = storedKey THEN UNCHANGED hurt ELSE Happens("key")
  /\ storedKey' = key
  /\ legacy' = NoLegacy
  /\ UNCHANGED <<status, reads, phase, jobs, now>>

(* The operator deletes or breaks status.json by hand.                     *)
HandDamages(content) ==
  /\ Happens("hand")
  /\ status' = content
  /\ UNCHANGED <<boot, jobs, now>>

(* config.json stops reading for a while (a flaky bind mount).             *)
ConfigFlickers ==
  /\ IF reads THEN Happens("config") ELSE UNCHANGED hurt
  /\ reads' = ~reads
  /\ UNCHANGED <<status, legacy, storedKey, phase, jobs, now>>

Tick ==
  /\ now < MaxNow
  /\ now' = now + 1
  /\ UNCHANGED <<status, boot, jobs, hurt>>

(* The process dies and is started again; so is one that failed to start.  *)
Restart ==
  /\ IF phase = "dead" THEN UNCHANGED hurt ELSE Happens("crash")
  /\ phase' = "migrate"
  /\ lock' = Nobody
  /\ pc' = [t \in Threads |-> "idle"] /\ kind' = [t \in Threads |-> "none"]
  /\ loaded' = [t \in Threads |-> Unknown]
  /\ report' = [t \in Threads |-> NoChanges]
  /\ UNCHANGED <<status, legacy, reads, storedKey, now>>

StartUp == Migrate \/ MigrateSaves \/ Prune

JobStep(t) == SyncLocks(t) \/ SyncDone(t) \/ CheckLocks(t) \/ Load(t) \/ Store(t)

Next ==
  \/ StartUp \/ MigrateSaveFails
  \/ \E t \in Threads :
       SyncBegins(t) \/ CheckDone(t) \/ JobStep(t) \/ StoreFails(t)
         \/ SyncRaises(t)
  \/ \E key \in BOOLEAN : Save(key)
  \/ \E content \in {NoFile, Damaged} : HandDamages(content)
  \/ ConfigFlickers \/ Tick \/ Restart

Spec == Init /\ [][Next]_vars

(* A start-up and a job that run go on, the scheduler comes round again,   *)
(* the container is restarted, and a lock that is free again and again is  *)
(* obtained in the end.                                                    *)
FairSpec ==
  /\ Spec
  /\ WF_vars(StartUp) /\ WF_vars(phase = "dead" /\ Restart)
  /\ \A t \in Threads :
       SF_vars(JobStep(t)) /\ WF_vars(SyncBegins(t)) /\ WF_vars(CheckDone(t))

-----------------------------------------------------------------------------
Unhurt(kinds) == \A m \in kinds : hurt'[m] = 0

(* While no sync is skipped for want of a key (it is in the environment,   *)
(* or in a config.json that reads), no report undoes another: the times    *)
(* status.json holds never go back, whatever syncs, checks, crashes and    *)
(* migrations interleave.                                                  *)
StatusNeverRollsBack ==
  [][Unhurt({"hand"}) /\ (KeyFromEnv \/ Unhurt({"key", "config"})) =>
       \A f \in Fields \ {"last_sync_error"} : Loaded'[f] >= Loaded[f]]_vars

(* "An interruption at any point loses nothing" (status_store.py:132-133): *)
(* a field that is known, in status.json or still in config.json, stays    *)
(* known through migrations, crashes and failed writes.                    *)
Known(f) == Loaded[f] # 0 \/ (legacy # NoLegacy /\ legacy[f] # 0)
MigrationLosesNothing ==
  [][Unhurt({"hand", "key", "config"}) =>
       \A f \in Fields \ {"last_sync_error"} : Known(f) => Known(f)']_vars

(* Status is disposable: whatever was damaged or lost, a box that in   *)
(* the end has its key, in a file that reads, has every field filled again.*)
StatusRegenerates ==
  <>[]HasKey => <>[](\A f \in Fields \ {"last_sync_error"} : Loaded[f] # 0)

-----------------------------------------------------------------------------
=============================================================================
