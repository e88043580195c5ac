-------------------------- MODULE StatusFileProofs --------------------------
(***************************************************************************)
(* No report of a sync or of an update check undoes another, and the       *)
(* migration of an older config.json loses nothing: for any number of      *)
(* threads, any clock, and any budget of what can go wrong.                *)
(***************************************************************************)
EXTENDS StatusFile, TLAPS

Times    == [Fields -> Nat]
Dated    == Fields \ {"last_sync_error"}
Outcomes == {"skipped", "failed", "synced", "found", "error"}

(* Every variable keeps its shape; a job that reports has an outcome.      *)
Typed ==
  /\ status \in Times \cup {NoFile, Damaged}
  /\ legacy \in Times \cup {NoLegacy}
  /\ storedKey \in BOOLEAN /\ reads \in BOOLEAN
  /\ phase \in {"migrate", "save", "prune", "up", "dead"}
  /\ pc \in [Threads -> {"idle", "waitSync", "sync", "waitCheck", "load", "store"}]
  /\ kind \in [Threads -> Outcomes \cup {"none"}]
  /\ loaded \in [Threads -> Times]
  /\ report = [t \in Threads |-> report[t]]
  /\ now \in Nat \ {0}
  /\ hurt \in [Mishaps -> Nat]
  /\ phase = "save" => legacy # NoLegacy
  /\ \A t \in Threads :
       /\ pc[t] \in {"load", "store", "waitCheck"} => kind[t] # "none"
       /\ phase # "up" => pc[t] = "idle"
       /\ \A f \in DOMAIN report[t] : report[t][f] \in Nat

(* No time lies ahead of the clock.                                        *)
Past ==
  /\ \A f \in Dated : Loaded[f] <= now
  /\ legacy # NoLegacy => \A f \in Dated : legacy[f] <= now
  /\ \A t \in Threads : \A f \in Dated :
       /\ loaded[t][f] <= now
       /\ f \in DOMAIN report[t] => report[t][f] <= now

Keyed(h) == KeyFromEnv \/ (h["key"] = 0 /\ h["config"] = 0)
Calm(h)  == h["hand"] = 0 /\ Keyed(h)

(* While no key goes missing, every job that reports holds JOB_LOCK: what it *)
(* has read is what is there, and what it reports is at least as new.      *)
Serial ==
  Calm(hurt) =>
    /\ HasKey /\ status # Damaged
    /\ phase = "save" => status = NoFile
    /\ \A t \in Threads :
         /\ pc[t] \in {"sync", "load", "store"} => lock = t
         /\ pc[t] = "store" =>
              /\ loaded[t] = Loaded
              /\ \A f \in DOMAIN report[t] \cap Dated : report[t][f] >= Loaded[f]

(* The old fields may go once status.json has them all.                    *)
Covered ==
  Calm(hurt) /\ hurt["config"] = 0 =>
    /\ reads
    /\ legacy # NoLegacy /\ (phase \in {"prune", "up"} \/ status # NoFile) =>
         \A f \in Dated : legacy[f] # 0 => Loaded[f] # 0

Inv == Typed /\ Past /\ Serial /\ Covered

-----------------------------------------------------------------------------
(* What a report names is set to now, but for an error that is cleared.    *)
LEMMA ChangesFacts ==
  ASSUME now \in Nat, NEW k \in Outcomes
  PROVE  /\ \A f \in DOMAIN Changes(k) : Changes(k)[f] \in Nat
         /\ \A f \in DOMAIN Changes(k) \cap Dated : Changes(k)[f] = now
<1>1. CASE k = "skipped"
  BY <1>1 DEF Changes
<1>2. CASE k = "failed"
  BY <1>2 DEF Changes
<1>3. CASE k = "synced"
  BY <1>3 DEF Changes, Dated
<1>4. CASE k = "found"
  BY <1>4 DEF Changes
<1>5. CASE k = "error"
  BY <1>5 DEF Changes
<1> QED
  BY <1>1, <1>2, <1>3, <1>4, <1>5 DEF Outcomes

LEMMA LoadedFacts ==
  ASSUME Typed
  PROVE  /\ Loaded \in Times
         /\ status \notin {NoFile, Damaged} => Loaded = status
         /\ status \in {NoFile, Damaged} => Loaded = Unknown
         /\ Unknown \in Times /\ \A f \in Fields : Unknown[f] = 0
BY DEF Typed, Loaded, Unknown, Times

(* What happened has happened.                                             *)
LEMMA HurtGrows ==
  ASSUME Typed, [Next]_vars, NEW m \in Mishaps
  PROVE  hurt[m] \in Nat /\ (hurt'[m] = 0 => hurt[m] = 0)
<1>1. hurt \in [Mishaps -> Nat]
  BY DEF Typed
<1>2. hurt' = hurt \/ \E k \in Mishaps : hurt' = [hurt EXCEPT ![k] = @ + 1]
  BY DEF Next, StartUp, JobStep, Migrate, MigrateSaves, MigrateSaveFails, Prune,
         SyncBegins, CheckDone, SyncLocks, SyncDone, SyncRaises, CheckLocks, Load, Store,
         StoreFails, Save, HandDamages, ConfigFlickers, Tick, Restart, Happens,
         Mishaps, vars
<1> QED
  BY <1>1, <1>2

LEMMA InvInit == Init => Inv
<1> SUFFICES ASSUME Init PROVE Inv
  OBVIOUS
<1> USE StatusFileAssumption DEF Init
<1>1. Unknown \in Times /\ (legacy # NoLegacy => legacy \in Times /\ \A f \in Fields : legacy[f] <= 1)
  BY DEF Unknown, Times, Fields
<1>2. \A t \in Threads : loaded[t] = Unknown /\ report[t] = NoChanges
  OBVIOUS
<1>3. \A f \in Fields : Unknown[f] = 0
  BY DEF Unknown
<1>4. DOMAIN NoChanges = {}
  BY DEF NoChanges
<1>5. hurt \in [Mishaps -> Nat]
  BY DEF Mishaps
<1>6. Typed
  BY <1>1, <1>2, <1>4, <1>5 DEF Typed, NoLegacy
<1>7. Past
  BY <1>1, <1>2, <1>3, <1>4 DEF Past, Loaded, Dated
<1>8. Serial /\ Covered
  BY DEF Serial, Covered, HasKey
<1> QED
  BY <1>6, <1>7, <1>8 DEF Inv

-----------------------------------------------------------------------------
LEMMA TypedNext == Inv /\ [Next]_vars => Typed'
<1> SUFFICES ASSUME Inv, [Next]_vars PROVE Typed'
  OBVIOUS
<1> USE DEF Typed, Inv, Happens
<1>1. ASSUME Migrate \/ MigrateSaveFails \/ Prune PROVE Typed'
  BY <1>1 DEF Migrate, MigrateSaveFails, Prune, jobs, Mishaps
<1>2. ASSUME MigrateSaves PROVE Typed'
  BY <1>2 DEF MigrateSaves, jobs
<1>3. ASSUME NEW t \in Threads,
             SyncBegins(t) \/ SyncLocks(t) \/ CheckLocks(t)
      PROVE  Typed'
  BY <1>3 DEF SyncBegins, SyncLocks, CheckLocks, boot, Outcomes
<1>4. ASSUME NEW t \in Threads, SyncDone(t) \/ CheckDone(t) \/ SyncRaises(t)
      PROVE  Typed'
  BY <1>4 DEF SyncDone, CheckDone, SyncRaises, boot, Outcomes, Mishaps
<1>5. ASSUME NEW t \in Threads, Load(t) PROVE Typed'
  <2>1. kind[t] \in Outcomes
    BY <1>5 DEF Load
  <2>2. \A f \in DOMAIN Changes(kind[t]) : Changes(kind[t])[f] \in Nat
    BY <2>1, ChangesFacts
  <2>3. loaded' \in [Threads -> Times]
    BY <1>5, LoadedFacts DEF Load
  <2>4. /\ report' = [u \in Threads |-> report'[u]]
        /\ \A u \in Threads : \A f \in DOMAIN report'[u] : report'[u][f] \in Nat
    BY <1>5, <2>2 DEF Load
  <2> QED
    BY <1>5, <2>3, <2>4 DEF Load, boot
<1>6. ASSUME NEW t \in Threads, Store(t) \/ StoreFails(t) PROVE Typed'
  <2>1. /\ report' = [u \in Threads |-> report'[u]]
        /\ \A u \in Threads : \A f \in DOMAIN report'[u] : report'[u][f] \in Nat
    <3>1. report' = [report EXCEPT ![t] = NoChanges]
      BY <1>6 DEF Store, StoreFails, Returns
    <3>2. DOMAIN NoChanges = {}
      BY DEF NoChanges
    <3> QED
      BY <3>1, <3>2
  <2>2. loaded' \in [Threads -> Times]
    BY <1>6, LoadedFacts DEF Store, StoreFails, Returns
  <2>3. status' \in Times \cup {NoFile, Damaged}
    <3>1. CASE Store(t)
      BY <3>1 DEF Store, Updated, Times
    <3>2. CASE StoreFails(t)
      BY <3>2 DEF StoreFails
    <3> QED
      BY <1>6, <3>1, <3>2
  <2>4. UNCHANGED boot /\ UNCHANGED now /\ hurt' \in [Mishaps -> Nat]
    BY <1>6 DEF Store, StoreFails, Mishaps
  <2>5. /\ pc' = [pc EXCEPT ![t] = "idle"] /\ kind' = [kind EXCEPT ![t] = "none"]
    BY <1>6 DEF Store, StoreFails, Returns
  <2> QED
    BY <2>1, <2>2, <2>3, <2>4, <2>5 DEF boot
<1>7. ASSUME NEW key \in BOOLEAN, Save(key) PROVE Typed'
  BY <1>7 DEF Save, jobs, Mishaps
<1>8. ASSUME NEW content \in {NoFile, Damaged}, HandDamages(content)
      PROVE  Typed'
  BY <1>8 DEF HandDamages, boot, jobs, Mishaps
<1>9. ASSUME ConfigFlickers \/ Tick PROVE Typed'
  <2>1. CASE ConfigFlickers
    BY <2>1 DEF ConfigFlickers, jobs, Mishaps
  <2>2. CASE Tick
    BY <2>2 DEF Tick, boot, jobs
  <2> QED
    BY <1>9, <2>1, <2>2
<1>10. ASSUME Restart PROVE Typed'
  <2>1. /\ report' = [u \in Threads |-> report'[u]]
        /\ \A u \in Threads : \A f \in DOMAIN report'[u] : report'[u][f] \in Nat
    BY <1>10 DEF Restart, NoChanges
  <2>2. loaded' \in [Threads -> Times]
    BY <1>10, LoadedFacts DEF Restart
  <2> QED
    BY <1>10, <2>1, <2>2 DEF Restart, Mishaps
<1>11. ASSUME UNCHANGED vars PROVE Typed'
  BY <1>11 DEF vars, boot, jobs
<1> QED
  BY <1>1, <1>2, <1>3, <1>4, <1>5, <1>6, <1>7, <1>8, <1>9, <1>10, <1>11
     DEF Next, StartUp, JobStep

-----------------------------------------------------------------------------
(* What a job that stores leaves in the file.                              *)
LEMMA StoreFacts ==
  ASSUME Inv, NEW t \in Threads, Store(t)
  PROVE  /\ status' \in Times /\ Loaded' = status'
         /\ \A f \in Fields : status'[f] = IF f \in DOMAIN report[t]
                                           THEN report[t][f] ELSE loaded[t][f]
<1>1. status' = Updated(loaded[t], report[t])
  BY DEF Store
<1>2. \A f \in DOMAIN report[t] : report[t][f] \in Nat
  BY DEF Inv, Typed
<1>3. loaded[t] \in Times
  BY DEF Inv, Typed
<1>4. status' \in Times
  BY <1>1, <1>2, <1>3 DEF Updated, Times
<1>5. NoFile \notin Times /\ Damaged \notin Times
  BY StatusFileAssumption DEF Times
<1> QED
  BY <1>1, <1>4, <1>5 DEF Loaded, Updated

(* Steps that leave the file, and with it what a reader finds there.       *)
LEMMA SameFile == status' = status => Loaded' = Loaded
BY DEF Loaded

LEMMA PastNext == Inv /\ [Next]_vars => Past'
<1> SUFFICES ASSUME Inv, [Next]_vars PROVE Past'
  OBVIOUS
<1> USE DEF Past, Inv
<1>a. /\ now \in Nat /\ Loaded \in Times /\ Dated \subseteq Fields
      /\ \A f \in Fields : Unknown[f] = 0
      /\ legacy # NoLegacy => legacy \in Times
      /\ \A t \in Threads : loaded[t] \in Times
      /\ \A t \in Threads : \A f \in DOMAIN report[t] : report[t][f] \in Nat
      /\ DOMAIN NoChanges = {}
  BY LoadedFacts DEF Typed, Dated, NoChanges
<1>1. ASSUME Migrate \/ MigrateSaveFails \/ Prune PROVE Past'
  BY <1>1, <1>a, SameFile DEF Migrate, MigrateSaveFails, Prune, jobs
<1>2. ASSUME MigrateSaves PROVE Past'
  <2>1. status' = legacy /\ legacy # NoLegacy /\ UNCHANGED <<legacy, jobs, now>>
    BY <1>2 DEF MigrateSaves, Typed
  <2>2. Loaded' \in {legacy, Unknown}
    BY <2>1 DEF Loaded
  <2> QED
    BY <1>a, <2>1, <2>2 DEF jobs
<1>3. ASSUME NEW t \in Threads,
             SyncBegins(t) \/ SyncLocks(t) \/ CheckLocks(t) \/ SyncDone(t)
               \/ CheckDone(t) \/ SyncRaises(t)
      PROVE  Past'
  BY <1>3, SameFile DEF SyncBegins, SyncLocks, CheckLocks, SyncDone, CheckDone,
                        SyncRaises, boot
<1>4. ASSUME NEW t \in Threads, Load(t) PROVE Past'
  <2>1. kind[t] \in Outcomes
    BY <1>4 DEF Load, Typed
  <2>2. \A f \in DOMAIN Changes(kind[t]) \cap Dated : Changes(kind[t])[f] = now
    BY <1>a, <2>1, ChangesFacts
  <2>3. /\ loaded' = [loaded EXCEPT ![t] = Loaded]
        /\ report' = [report EXCEPT ![t] = Changes(kind[t])]
        /\ UNCHANGED <<status, legacy, now>>
    BY <1>4 DEF Load, boot
  <2>4. \A u \in Threads : loaded'[u] = IF u = t THEN Loaded ELSE loaded[u]
    BY <2>3 DEF Typed
  <2>5. \A u \in Threads : report'[u] = IF u = t THEN Changes(kind[t]) ELSE report[u]
    BY <2>3 DEF Typed
  <2> QED
    BY <1>a, <2>2, <2>3, <2>4, <2>5, SameFile
<1>5. ASSUME NEW t \in Threads, Store(t) \/ StoreFails(t) PROVE Past'
  <2>1. \A f \in Dated : Loaded'[f] <= now
    <3>1. CASE Store(t)
      BY <1>a, <3>1, StoreFacts
    <3>2. CASE StoreFails(t)
      BY <3>2, SameFile DEF StoreFails
    <3> QED
      BY <1>5, <3>1, <3>2
  <2>2. /\ loaded' = [loaded EXCEPT ![t] = Unknown]
        /\ report' = [report EXCEPT ![t] = NoChanges]
        /\ UNCHANGED <<legacy, now>>
    BY <1>5 DEF Store, StoreFails, Returns, boot
  <2>3. \A u \in Threads : loaded'[u] = IF u = t THEN Unknown ELSE loaded[u]
    BY <2>2 DEF Typed
  <2>4. \A u \in Threads : report'[u] = IF u = t THEN NoChanges ELSE report[u]
    BY <2>2 DEF Typed
  <2> QED
    BY <1>a, <2>1, <2>2, <2>3, <2>4
<1>6. ASSUME NEW key \in BOOLEAN, Save(key) PROVE Past'
  BY <1>6, SameFile DEF Save, jobs
<1>7. ASSUME NEW content \in {NoFile, Damaged}, HandDamages(content)
      PROVE  Past'
  <2>1. Loaded' = Unknown
    BY <1>7 DEF HandDamages, Loaded
  <2> QED
    BY <1>7, <1>a, <2>1 DEF HandDamages, boot, jobs
<1>8. ASSUME ConfigFlickers PROVE Past'
  BY <1>8, SameFile DEF ConfigFlickers, jobs
<1>9. ASSUME Tick PROVE Past'
  <2>1. now' = now + 1 /\ UNCHANGED <<status, legacy, loaded, report>>
    BY <1>9 DEF Tick, boot, jobs
  <2>2. Loaded' = Loaded
    BY <2>1, SameFile
  <2>3. \A f \in Dated : Loaded[f] \in Nat
    BY <1>a DEF Times
  <2>4. legacy # NoLegacy => \A f \in Dated : legacy[f] \in Nat
    BY <1>a DEF Times
  <2>5. \A t \in Threads : \A f \in Dated : loaded[t][f] \in Nat
    BY <1>a DEF Times
  <2> QED
    BY <1>a, <2>1, <2>2, <2>3, <2>4, <2>5
<1>10. ASSUME Restart PROVE Past'
  <2>1. /\ loaded' = [u \in Threads |-> Unknown]
        /\ report' = [u \in Threads |-> NoChanges]
        /\ UNCHANGED <<status, legacy, now>>
    BY <1>10 DEF Restart
  <2> QED
    BY <1>a, <2>1, SameFile
<1>11. ASSUME UNCHANGED vars PROVE Past'
  BY <1>11, SameFile DEF vars, boot, jobs
<1> QED
  BY <1>1, <1>2, <1>3, <1>4, <1>5, <1>6, <1>7, <1>8, <1>9, <1>10, <1>11
     DEF Next, StartUp, JobStep

-----------------------------------------------------------------------------
(* A step that something went wrong in is not calm.                        *)
LEMMA NotCalm ==
  ASSUME Inv, NEW m \in Mishaps, Happens(m) PROVE hurt'[m] # 0
BY DEF Inv, Typed, Happens

LEMMA SerialNext == Inv /\ [Next]_vars => Serial'
<1> SUFFICES ASSUME Inv, [Next]_vars, Calm(hurt') PROVE Serial'
  BY DEF Serial
<1>a. Calm(hurt)
  BY HurtGrows DEF Inv, Calm, Keyed, Mishaps
<1>b. /\ HasKey /\ status # Damaged
      /\ phase = "save" => status = NoFile
      /\ \A t \in Threads :
           /\ pc[t] \in {"sync", "load", "store"} => lock = t
           /\ pc[t] = "store" =>
                /\ loaded[t] = Loaded
                /\ \A f \in DOMAIN report[t] \cap Dated : report[t][f] >= Loaded[f]
  BY <1>a DEF Inv, Serial
<1>c. /\ pc \in [Threads -> {"idle", "waitSync", "sync", "waitCheck", "load", "store"}]
      /\ loaded \in [Threads -> Times] /\ report = [t \in Threads |-> report[t]]
      /\ phase # "up" => \A t \in Threads : pc[t] = "idle"
      /\ legacy \in Times \cup {NoLegacy} /\ Damaged \notin Times
      /\ Nobody \notin Threads /\ NoFile # Damaged
  BY StatusFileAssumption DEF Inv, Typed, Times
<1>d. UNCHANGED <<reads, storedKey>> => HasKey'
  BY <1>b DEF HasKey
<1> USE DEF Serial
<1>1. ASSUME Migrate \/ MigrateSaveFails \/ Prune PROVE Serial'
  BY <1>1, <1>b, <1>d, SameFile DEF Migrate, MigrateSaveFails, Prune, jobs
<1>2. ASSUME MigrateSaves PROVE Serial'
  <2>1. /\ status' = legacy /\ legacy # NoLegacy /\ phase' = "prune"
        /\ UNCHANGED <<reads, storedKey>> /\ pc' = pc
        /\ \A t \in Threads : pc[t] = "idle"
    BY <1>2, <1>c DEF MigrateSaves, jobs, Inv, Typed
  <2> QED
    BY <1>b, <1>d, <1>c, <2>1
<1>3. ASSUME NEW t \in Threads, SyncBegins(t) \/ CheckDone(t) PROVE Serial'
  <2>1. /\ UNCHANGED <<status, phase, reads, storedKey, lock, loaded, report>>
        /\ pc' \in {[pc EXCEPT ![t] = "waitSync"], [pc EXCEPT ![t] = "waitCheck"]}
    BY <1>3, <1>b DEF SyncBegins, CheckDone, boot
  <2> QED
    BY <1>b, <1>d, <1>c, <2>1, SameFile
<1>4. ASSUME NEW t \in Threads, SyncLocks(t) \/ CheckLocks(t) PROVE Serial'
  <2>1. /\ UNCHANGED <<status, phase, reads, storedKey, loaded, report>>
        /\ pc' \in {[pc EXCEPT ![t] = "sync"], [pc EXCEPT ![t] = "load"]}
        /\ lock = Nobody /\ lock' = t
    BY <1>4 DEF SyncLocks, CheckLocks, boot
  <2> QED
    BY <1>b, <1>d, <1>c, <2>1, SameFile
<1>5. ASSUME NEW t \in Threads, SyncDone(t) PROVE Serial'
  BY <1>5, <1>b, <1>d, <1>c, SameFile DEF SyncDone, boot
<1>5a. ASSUME NEW t \in Threads, SyncRaises(t) PROVE Serial'
  <2>1. /\ UNCHANGED <<status, phase, reads, storedKey, loaded, report>>
        /\ pc' = [pc EXCEPT ![t] = "idle"] /\ lock = t /\ lock' = Nobody
    BY <1>5a, <1>b DEF SyncRaises, boot
  <2> QED
    BY <1>b, <1>c, <1>d, <2>1, SameFile
<1>6. ASSUME NEW t \in Threads, Load(t) PROVE Serial'
  <2>1. kind[t] \in Outcomes /\ now \in Nat
    BY <1>6 DEF Load, Inv, Typed
  <2>2. \A f \in DOMAIN Changes(kind[t]) \cap Dated :
          Changes(kind[t])[f] = now /\ now >= Loaded[f]
    BY <2>1, ChangesFacts DEF Inv, Past
  <2>3. /\ UNCHANGED <<status, phase, reads, storedKey, lock>>
        /\ loaded' = [loaded EXCEPT ![t] = Loaded]
        /\ report' = [report EXCEPT ![t] = Changes(kind[t])]
        /\ pc' = [pc EXCEPT ![t] = "store"] /\ pc[t] = "load"
    BY <1>6 DEF Load, boot
  <2>4. Loaded' = Loaded
    BY <2>3, SameFile
  <2>5. /\ loaded'[t] = Loaded /\ report'[t] = Changes(kind[t])
        /\ \A u \in Threads : u # t => loaded'[u] = loaded[u] /\ report'[u] = report[u]
                                       /\ pc'[u] = pc[u]
    BY <1>c, <2>3
  <2>6. \A f \in DOMAIN report'[t] \cap Dated : report'[t][f] >= Loaded'[f]
    BY <2>2, <2>4, <2>5
  <2> QED
    BY <1>b, <1>d, <1>c, <2>3, <2>4, <2>5, <2>6
<1>7. ASSUME NEW t \in Threads, Store(t) PROVE Serial'
  <2>1. status' # Damaged
    BY <1>7, <1>c, StoreFacts
  <2>2. /\ UNCHANGED <<phase, reads, storedKey>> /\ pc' = [pc EXCEPT ![t] = "idle"]
        /\ lock = t /\ lock' = Nobody
    BY <1>7, <1>b DEF Store, Returns, boot
  <2>3. phase # "save"
    BY <1>7, <1>c DEF Store
  <2> QED
    BY <1>b, <1>d, <1>c, <2>1, <2>2, <2>3
<1>8. ASSUME NEW t \in Threads, StoreFails(t) PROVE Serial'
  <2>1. /\ UNCHANGED <<status, phase, reads, storedKey>> /\ pc' = [pc EXCEPT ![t] = "idle"]
        /\ lock = t /\ lock' = Nobody
    BY <1>8, <1>b DEF StoreFails, Returns, boot
  <2> QED
    BY <1>b, <1>d, <1>c, <2>1
<1>9. ASSUME NEW key \in BOOLEAN, Save(key) PROVE Serial'
  <2>1. KeyFromEnv \/ key = storedKey
    BY <1>9, NotCalm DEF Save, Calm, Keyed, Mishaps
  <2>2. HasKey'
    BY <1>9, <1>b, <2>1 DEF Save, HasKey
  <2> QED
    BY <1>9, <1>b, <2>2, SameFile DEF Save, jobs
<1>10. ASSUME NEW content \in {NoFile, Damaged}, HandDamages(content)
       PROVE  Serial'
  BY <1>10, NotCalm DEF HandDamages, Calm, Mishaps
<1>11. ASSUME ConfigFlickers \/ Tick PROVE Serial'
  <2>1. HasKey'
    <3>1. CASE ConfigFlickers
      <4>1. KeyFromEnv \/ ~reads
        BY <1>11, <3>1, NotCalm DEF ConfigFlickers, Calm, Keyed, Mishaps
      <4> QED
        BY <1>b, <3>1, <4>1 DEF ConfigFlickers, HasKey
    <3>2. CASE Tick
      BY <1>d, <3>2 DEF Tick, boot
    <3> QED
      BY <1>11, <3>1, <3>2
  <2> QED
    BY <1>11, <1>b, <2>1, SameFile DEF ConfigFlickers, Tick, boot, jobs
<1>12. ASSUME Restart PROVE Serial'
  BY <1>12, <1>b, <1>d DEF Restart
<1>13. ASSUME UNCHANGED vars PROVE Serial'
  BY <1>13, <1>b, <1>d, SameFile DEF vars, boot, jobs
<1> QED
  BY <1>1, <1>2, <1>3, <1>4, <1>5, <1>5a, <1>6, <1>7, <1>8, <1>9, <1>10,
     <1>11, <1>12, <1>13 DEF Next, StartUp, JobStep

(* No report undoes another.                                               *)
LEMMA Forward ==
  ASSUME Inv, [Next]_vars, Calm(hurt'), NEW f \in Dated
  PROVE  Loaded'[f] >= Loaded[f] /\ Loaded[f] \in Nat
<1>a. Calm(hurt)
  BY HurtGrows DEF Inv, Calm, Keyed, Mishaps
<1>b. Loaded[f] \in Nat /\ Unknown[f] = 0 /\ f \in Fields
  BY LoadedFacts DEF Inv, Times, Dated
<1>1. CASE UNCHANGED status
  BY <1>1, <1>b, SameFile
<1>2. CASE MigrateSaves
  <2>1. Loaded = Unknown
    BY <1>2, <1>a DEF MigrateSaves, Inv, Serial, Loaded
  <2>2. legacy \in Times /\ status' = legacy
    BY <1>2 DEF MigrateSaves, Inv, Typed
  <2>3. Loaded' \in {legacy, Unknown}
    BY <2>2 DEF Loaded
  <2> QED
    BY <1>b, <2>1, <2>2, <2>3 DEF Times
<1>3. ASSUME NEW t \in Threads, Store(t) PROVE Loaded'[f] >= Loaded[f]
  <2>1. loaded[t] = Loaded /\ (f \in DOMAIN report[t] => report[t][f] >= Loaded[f])
    BY <1>3, <1>a DEF Store, Inv, Serial
  <2> QED
    BY <1>3, <1>b, <2>1, StoreFacts
<1>4. ASSUME NEW content \in {NoFile, Damaged}, HandDamages(content) PROVE FALSE
  BY <1>4, NotCalm DEF HandDamages, Calm, Mishaps, Inv
<1> QED
  BY <1>1, <1>2, <1>3, <1>4, <1>b
     DEF Next, StartUp, JobStep, Migrate, MigrateSaveFails, Prune, SyncBegins,
         CheckDone, SyncLocks, SyncDone, SyncRaises, CheckLocks, Load, StoreFails, Save,
         ConfigFlickers, Tick, Restart, vars

LEMMA CoveredNext == Inv /\ [Next]_vars => Covered'
<1> SUFFICES ASSUME Inv, [Next]_vars, Calm(hurt'), hurt'["config"] = 0
             PROVE  Covered'
  BY DEF Covered
<1>a. Calm(hurt) /\ hurt["config"] = 0
  BY HurtGrows DEF Inv, Calm, Keyed, Mishaps
<1>b. /\ reads
      /\ legacy # NoLegacy /\ (phase \in {"prune", "up"} \/ status # NoFile) =>
           \A f \in Dated : legacy[f] # 0 => Loaded[f] # 0
  BY <1>a DEF Inv, Covered
<1>c. \A f \in Dated : Loaded'[f] >= Loaded[f] /\ Loaded[f] \in Nat /\ Loaded'[f] \in Nat
  <2>1. ASSUME NEW f \in Dated PROVE Loaded'[f] >= Loaded[f] /\ Loaded[f] \in Nat
    BY Forward
  <2>2. \A f \in Dated : Loaded'[f] \in Nat
    <3>1. Typed'
      BY TypedNext
    <3>2. Loaded' \in Times
      BY <3>1 DEF Typed, Loaded, Unknown, Times
    <3> QED
      BY <3>2 DEF Times, Dated
  <2> QED
    BY <2>1, <2>2
<1>d. \A f \in Dated : Loaded[f] # 0 => Loaded'[f] # 0
  BY <1>c
<1> USE DEF Covered
<1>1. ASSUME Migrate PROVE Covered'
  BY <1>1, <1>b, <1>d DEF Migrate
<1>2. ASSUME MigrateSaves PROVE Covered'
  <2>1. /\ status' = legacy /\ legacy \in Times /\ UNCHANGED <<legacy, reads>>
    BY <1>2 DEF MigrateSaves, Inv, Typed
  <2>2. Loaded' = legacy
    BY <2>1, StatusFileAssumption DEF Loaded, Times
  <2> QED
    BY <1>b, <2>1, <2>2
<1>3. ASSUME MigrateSaveFails PROVE Covered'
  BY <1>3, <1>b, <1>d DEF MigrateSaveFails
<1>4. ASSUME Prune PROVE Covered'
  BY <1>4, <1>b, <1>d DEF Prune
<1>5. ASSUME NEW t \in Threads,
             SyncBegins(t) \/ CheckDone(t) \/ JobStep(t) \/ StoreFails(t)
               \/ SyncRaises(t)
      PROVE  Covered'
  <2>1. UNCHANGED <<legacy, reads, phase>>
    BY <1>5 DEF SyncBegins, CheckDone, JobStep, SyncLocks, SyncDone, SyncRaises, CheckLocks,
                Load, Store, StoreFails, boot
  <2>2. CASE UNCHANGED status
    BY <1>b, <1>d, <2>1, <2>2
  <2>3. CASE Store(t)
    <3>1. phase = "up"
      BY <2>3 DEF Store, Inv, Typed
    <3> QED
      BY <1>b, <1>d, <2>1, <3>1
  <2> QED
    BY <1>5, <2>2, <2>3 DEF SyncBegins, CheckDone, JobStep, SyncLocks, SyncDone,
                            SyncRaises, CheckLocks, Load, StoreFails
<1>6. ASSUME NEW key \in BOOLEAN, Save(key) PROVE Covered'
  BY <1>6, <1>b DEF Save
<1>7. ASSUME NEW content \in {NoFile, Damaged}, HandDamages(content)
      PROVE  Covered'
  BY <1>7, NotCalm DEF HandDamages, Calm, Mishaps, Inv
<1>8. ASSUME ConfigFlickers PROVE Covered'
  BY <1>8, <1>b, NotCalm DEF ConfigFlickers, Mishaps
<1>9. ASSUME Tick PROVE Covered'
  BY <1>9, <1>b, <1>d DEF Tick, boot
<1>10. ASSUME Restart PROVE Covered'
  BY <1>10, <1>b, <1>d DEF Restart
<1>11. ASSUME UNCHANGED vars PROVE Covered'
  BY <1>11, <1>b, <1>d DEF vars, boot
<1> QED
  BY <1>1, <1>2, <1>3, <1>4, <1>5, <1>6, <1>7, <1>8, <1>9, <1>10, <1>11
     DEF Next, StartUp

LEMMA Invariant == Spec => []Inv
<1>1. Inv /\ [Next]_vars => Inv'
  BY TypedNext, PastNext, SerialNext, CoveredNext DEF Inv
<1> QED
  BY <1>1, InvInit, PTL DEF Spec

-----------------------------------------------------------------------------
(* While no key goes missing, the times status.json holds never go back.   *)
THEOREM ReportsNeverUndone == Spec => StatusNeverRollsBack
<1>1. Inv /\ [Next]_vars =>
        (Unhurt({"hand"}) /\ (KeyFromEnv \/ Unhurt({"key", "config"})) =>
           \A f \in Fields \ {"last_sync_error"} : Loaded'[f] >= Loaded[f])
  BY Forward DEF Unhurt, Calm, Keyed, Dated
<1> QED
  BY <1>1, Invariant, PTL DEF Spec, StatusNeverRollsBack

(* A field that is known in status.json or in config.json stays known.     *)
THEOREM NothingForgotten == Spec => MigrationLosesNothing
<1>1. Inv /\ [Next]_vars =>
        (Unhurt({"hand", "key", "config"}) =>
           \A f \in Fields \ {"last_sync_error"} : Known(f) => Known(f)')
  <2> SUFFICES ASSUME Inv, [Next]_vars, Unhurt({"hand", "key", "config"}),
                      NEW f \in Dated, Known(f)
               PROVE  Known(f)'
    BY DEF Dated
  <2>1. Calm(hurt') /\ hurt'["config"] = 0
    BY DEF Unhurt, Calm, Keyed
  <2>2. Loaded'[f] >= Loaded[f] /\ Loaded[f] \in Nat
    BY <2>1, Forward
  <2>3. CASE Loaded[f] # 0
    <3>1. Typed'
      BY TypedNext
    <3>2. Loaded'[f] \in Nat
      BY <3>1 DEF Typed, Loaded, Unknown, Times, Dated
    <3> QED
      BY <2>2, <2>3, <3>2 DEF Known
  <2>4. CASE legacy # NoLegacy /\ legacy[f] # 0 /\ Loaded[f] = 0
    <3>1. phase \notin {"prune", "up"}
      BY <2>1, <2>4, HurtGrows DEF Inv, Covered, Calm, Keyed, Mishaps
    <3>2. legacy' = legacy
      BY <3>1 DEF Next, StartUp, JobStep, Migrate, MigrateSaves,
           MigrateSaveFails, Prune, SyncBegins, CheckDone, SyncLocks, SyncDone,
           SyncRaises, CheckLocks, Load, Store, StoreFails, Save, HandDamages,
           ConfigFlickers, Tick, Restart, vars, boot
    <3> QED
      BY <2>4, <3>2 DEF Known
  <2> QED
    BY <2>3, <2>4 DEF Known
<1> QED
  BY <1>1, Invariant, PTL DEF Spec, MigrationLosesNothing
=============================================================================
