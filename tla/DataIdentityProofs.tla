------------------------ MODULE DataIdentityProofs ------------------------
(***************************************************************************)
(* What TLAPS proves of DataIdentity, for any set of host directories,     *)
(* any number of identifiers and any number of wipes, mounts, crashes and  *)
(* failed writes.  The two alarms rest on two invariants of their own:     *)
(* Remembered says what the container's copy is worth when nothing made a  *)
(* write fail, Fresh that a directory the box has not reported on has an   *)
(* identifier nobody else has.                                             *)
(***************************************************************************)
EXTENDS DataIdentity, TLAPS

Rows   == {"none", "unchanged", "adopted", "first_run", "wiped", "replaced",
           "inconclusive"}
Phases == {"down", "data", "container", "report", "up"}
At(d)  == [dir |-> d, gen |-> gen[d]]

(* Every identifier there is was minted; Never is no directory's state.    *)
TypeOK ==
  /\ minted \in Nat
  /\ ids \in [Dirs -> 0 .. minted] /\ container \in 0 .. minted
  /\ want \in 0 .. minted
  /\ mounted \in Dirs
  /\ gen \in [Dirs -> Nat] /\ gen[Inner] = 0
  /\ last \in [dir : Dirs, gen : Nat]
  /\ last = Never \/ last.gen <= gen[last.dir]
  /\ phase \in Phases /\ row \in Rows
  /\ hurt \in [Mishaps -> Nat]

(* What the start-up has found out, at each of its steps.                  *)
BootOK ==
  /\ phase = "down" => row = "none" /\ verdict = "ok"
  /\ phase \notin {"down", "up"} => verdict = "ok"
  /\ phase = "data" => row \in {"first_run", "wiped"} /\ ids[mounted] = NoId
  /\ phase = "container" => row \in {"first_run", "adopted", "replaced"}
  /\ phase \in {"data", "container"} => want # NoId
  /\ phase \in {"data", "container"} /\ row = "first_run" => want = minted
  /\ phase \in {"data", "container"} /\ row = "wiped" => want = container
  /\ phase = "container" /\ row \in {"adopted", "replaced"} =>
       want = ids[mounted]
  /\ phase = "up" => verdict = IF ~Mapped THEN "not_mapped"
                               ELSE IF row \in {"wiped", "replaced"}
                               THEN "data_replaced" ELSE "ok"

Inv == TypeOK /\ BootOK

(* The container's copy is the identifier of the directory it last         *)
(* recorded; a container that has recorded nothing has none.               *)
Remembered ==
  /\ last = Never => container = NoId
  /\ container = NoId => last = Never
  /\ \A d \in Dirs : last = At(d) => container = ids[d]
  /\ phase = "report" /\ row # "inconclusive" =>
       container = ids[mounted] /\ container # NoId
  /\ phase = "container" /\ row = "first_run" => want = ids[mounted]
  /\ row = "first_run" /\ phase \in {"data", "container"} => container = NoId

(* No boot that calls its directory the same one has found a loss.         *)
Quiet ==
  phase # "down" /\ changed = "same" => row \notin {"wiped", "replaced"}

QuietInv == Unhurt({"disk", "removed"}) => Remembered /\ Quiet

-----------------------------------------------------------------------------
(* A mishap is counted, and no step takes one back.                        *)
LEMMA MishapCounts ==
  ASSUME Inv, NEW m \in Mishaps, Happens(m)
  PROVE  /\ hurt' \in [Mishaps -> Nat] /\ hurt'[m] > 0
         /\ \A k \in Mishaps : hurt'[k] = 0 => hurt[k] = 0
BY DEF Inv, TypeOK, Happens

LEMMA MishapsStay ==
  ASSUME Inv, [Next]_vars
  PROVE  /\ hurt' \in [Mishaps -> Nat]
         /\ \A k \in Mishaps : hurt'[k] = 0 => hurt[k] = 0
<1>1. UNCHANGED hurt \/ \E m \in Mishaps : Happens(m)
  BY DEF Next, Boot, BootUnreadable, WriteData, WriteContainer, WriteFails,
         Report, Stop, Crash, Wipe, Remove, Mount, Recreate, vars, boot,
         Mishaps
<1> QED
  BY <1>1, MishapCounts DEF Inv, TypeOK

LEMMA InitInv == Init => Inv
<1> SUFFICES ASSUME Init PROVE Inv
  OBVIOUS
<1> USE DataIdentityAssumption
<1>1. Never \in [dir : Dirs, gen : Nat]
  BY DEF Never, Dirs, Mishaps
<1>2. TypeOK
  BY <1>1 DEF Init, TypeOK, Dirs, Ids, NoId, Rows, Phases, Mishaps
<1>3. BootOK
  BY DEF Init, BootOK
<1> QED
  BY <1>2, <1>3 DEF Inv

LEMMA NextInv == Inv /\ [Next]_vars => Inv'
<1> SUFFICES ASSUME Inv, [Next]_vars PROVE Inv'
  OBVIOUS
<1> USE DataIdentityAssumption DEF Inv
<1>n. Never \in [dir : Dirs, gen : Nat] /\ Never.dir = Inner
  BY DEF Never, Dirs, Mishaps
<1>h. ASSUME NEW d \in Dirs PROVE [dir |-> d, gen |-> gen[d]] \in [dir : Dirs, gen : Nat]
  BY DEF TypeOK
<1>t. hurt' \in [Mishaps -> Nat]
  BY MishapsStay
<1>1. CASE Boot
  <2> DEFINE r == Row(container, ids[mounted])
  <2>1. r \in Rows \ {"none", "inconclusive"}
    BY DEF Row, Rows
  <2>2. minted' \in Nat /\ minted <= minted' /\ Want(r) \in 0 .. minted'
    BY <1>1, <2>1 DEF Boot, Want, TypeOK
  <2>3. TypeOK'
    BY <1>1, <2>1, <2>2 DEF Boot, TypeOK, AfterRead, world, past, Phases
  <2>4. BootOK'
    BY <1>1, <2>1 DEF Boot, BootOK, TypeOK, AfterRead, Row, Want, world, past, NoId
  <2> QED
    BY <2>3, <2>4
<1>2. CASE BootUnreadable
  BY <1>2, <1>t DEF BootUnreadable, TypeOK, BootOK, world, past, NoId, Rows,
              Phases
<1>3. CASE WriteData
  BY <1>3 DEF WriteData, AfterData, TypeOK, BootOK, world, past, boot, Rows,
              Phases, Mapped
<1>4. CASE WriteContainer
  <2>1. last' \in [dir : Dirs, gen : Nat] /\ last'.gen <= gen'[last'.dir]
    BY <1>4, <1>h DEF WriteContainer, Here, TypeOK
  <2> QED
    BY <1>4, <2>1 DEF WriteContainer, TypeOK, BootOK, boot, Rows, Phases
<1>5. CASE WriteFails
  BY <1>5, <1>t DEF WriteFails, AfterData, TypeOK, BootOK, world, past, boot,
              Rows, Phases
<1>6. CASE Report
  <2>1. CASE row = "inconclusive"
    BY <1>6, <2>1 DEF Report, TypeOK, BootOK, past, Phases, Mapped
  <2>2. CASE row # "inconclusive"
    <3>1. last' = [dir |-> mounted, gen |-> gen[mounted]]
      BY <1>6, <2>2 DEF Report, Here
    <3>2. last' \in [dir : Dirs, gen : Nat] /\ last'.gen <= gen'[last'.dir]
      BY <1>6, <3>1, <1>h DEF Report, TypeOK
    <3> QED
      BY <1>6, <2>2, <3>2 DEF Report, TypeOK, BootOK, Phases, Mapped
  <2> QED
    BY <2>1, <2>2
<1>7. CASE Stop
  BY <1>7 DEF Stop, Off, TypeOK, BootOK, world, past, Rows, Phases, NoId
<1>8. CASE Crash
  BY <1>8, <1>t DEF Crash, Off, TypeOK, BootOK, world, past, Rows, Phases,
              NoId
<1>9. ASSUME NEW d \in HostDirs, Wipe(d) PROVE Inv'
  <2>1. last' = Never \/ last'.gen <= gen'[last'.dir]
    BY <1>9, <1>n DEF Wipe, TypeOK, past, Dirs, Never
  <2>2. TypeOK'
    BY <1>9, <1>t, <2>1 DEF Wipe, TypeOK, past, boot, Dirs, NoId, Never
  <2> QED
    BY <1>9, <2>2 DEF Wipe, BootOK, boot
<1>10. ASSUME NEW d \in HostDirs, Remove(d) PROVE Inv'
  <2>1. TypeOK'
    BY <1>10, <1>t DEF Remove, TypeOK, world, past, boot, Dirs, NoId, Never
  <2> QED
    BY <1>10, <2>1 DEF Remove, BootOK, world, boot
<1>11. ASSUME NEW d \in HostDirs, Mount(d) PROVE Inv'
  BY <1>11, <1>t DEF Mount, TypeOK, BootOK, past, boot, Dirs, Never
<1>12. ASSUME NEW d \in Dirs, Recreate(d) PROVE Inv'
  BY <1>12, <1>t, <1>n DEF Recreate, TypeOK, BootOK, boot, NoId
<1>13. CASE UNCHANGED vars
  BY <1>13 DEF vars, world, past, boot, TypeOK, BootOK, Never, Mapped
<1> QED
  BY <1>1, <1>2, <1>3, <1>4, <1>5, <1>6, <1>7, <1>8, <1>9, <1>10, <1>11,
     <1>12, <1>13 DEF Next

-----------------------------------------------------------------------------
(* NoFalseAlarm.                                                           *)

LEMMA NeverNowhere == ASSUME Inv, NEW d \in Dirs PROVE Never # At(d)
BY DataIdentityAssumption DEF Never, At, Inv, TypeOK, Mishaps

(* What is needed of the past is needed of a past with no failed write.    *)
LEMMA UnhurtBefore ==
  ASSUME Inv, [Next]_vars, NEW kinds \in SUBSET Mishaps, Unhurt(kinds)'
  PROVE  Unhurt(kinds) /\ \A m \in kinds : ~Happens(m)
BY MishapsStay, MishapCounts DEF Unhurt

LEMMA QuietInit == Init => QuietInv
<1> SUFFICES ASSUME Init PROVE Remembered /\ Quiet
  BY DEF QuietInv
<1>1. \A d \in Dirs : last # At(d)
  BY InitInv, NeverNowhere DEF Init
<1> QED
  BY <1>1 DEF Init, Remembered, Quiet

LEMMA QuietNext == Inv /\ QuietInv /\ [Next]_vars => QuietInv'
<1> SUFFICES ASSUME Inv, [Next]_vars, Unhurt({"disk", "removed"})', Remembered, Quiet
             PROVE  Remembered' /\ Quiet'
  BY UnhurtBefore DEF QuietInv, Mishaps
<1>u. ~Happens("disk") /\ ~Happens("removed")
  BY UnhurtBefore DEF Mishaps
<1>t. TypeOK /\ BootOK
  BY DEF Inv
<1>n. \A d \in Dirs : Never # At(d)
  BY NeverNowhere
<1>1. CASE Boot
  <2>1. Here = At(mounted)
    BY DEF Here, At
  <2>2. changed' = "same" => last = Never \/ last = At(mounted)
    BY <1>1, <2>1 DEF Boot, Compared
  <2>3. changed' = "same" => row' \notin {"wiped", "replaced"}
    BY <1>1, <1>t, <2>2 DEF Boot, Row, Remembered, TypeOK, NoId
  <2>4. UNCHANGED <<ids, container, last, mounted>> /\ \A d \in Dirs : At(d)' = At(d)
    BY <1>1 DEF Boot, world, past, At
  <2>5. Remembered'
    BY <1>1, <1>t, <2>4 DEF Boot, Remembered, Row, AfterRead, Want, NoId, TypeOK
  <2> QED
    BY <2>3, <2>5 DEF Quiet
<1>2. CASE BootUnreadable
  BY <1>2 DEF BootUnreadable, Remembered, Quiet, world, past, At
<1>3. CASE WriteData
  <2>1. ids' = [ids EXCEPT ![mounted] = want] /\ mounted \in Dirs
    BY <1>3, <1>t DEF WriteData, TypeOK
  <2>2. UNCHANGED <<last, container, mounted, row, want, changed>> /\ \A d \in Dirs : At(d)' = At(d)
    BY <1>3 DEF WriteData, world, past, boot, At
  <2>3. last # At(mounted)
    BY <1>3, <1>t, <1>n, <2>1 DEF WriteData, Remembered, BootOK
  <2>4. \A d \in Dirs : last' = At(d)' => container' = ids'[d]
    BY <1>t, <2>1, <2>2, <2>3 DEF Remembered, TypeOK
  <2>5. ids'[mounted] = want
    BY <1>t, <2>1 DEF TypeOK
  <2> QED
    BY <1>3, <1>t, <2>2, <2>4, <2>5
       DEF WriteData, AfterData, Remembered, Quiet, BootOK
<1>4. CASE WriteContainer
  <2>1. container' = ids[mounted] /\ container' # NoId
    BY <1>4, <1>t DEF WriteContainer, Remembered, BootOK
  <2>2. last' = At(mounted) /\ UNCHANGED <<ids, mounted>> /\ \A d \in Dirs : At(d)' = At(d)
    BY <1>4 DEF WriteContainer, Here, At
  <2>3. last' # Never /\ \A d \in Dirs : last' = At(d) => d = mounted
    BY <1>t, <1>n, <2>2 DEF At, TypeOK
  <2> QED
    BY <1>4, <1>t, <2>1, <2>2, <2>3
       DEF WriteContainer, Remembered, Quiet, BootOK, boot
<1>5. CASE WriteFails
  BY <1>5, <1>u DEF WriteFails
<1>6. CASE Report
  <2>1. last' = last \/ (row # "inconclusive" /\ last' = At(mounted))
    BY <1>6 DEF Report, Here, At, past
  <2>2. UNCHANGED <<ids, container, mounted, row, changed>> /\ \A d \in Dirs : At(d)' = At(d)
    BY <1>6 DEF Report, At
  <2>3. CASE last' = last
    BY <1>6, <2>2, <2>3 DEF Report, Remembered, Quiet
  <2>4. CASE row # "inconclusive" /\ last' = At(mounted)
    <3>1. last' # Never /\ \A d \in Dirs : last' = At(d) => d = mounted
      BY <1>t, <1>n, <2>4 DEF At, TypeOK
    <3> QED
      BY <1>6, <2>2, <2>4, <3>1 DEF Report, Remembered, Quiet
  <2> QED
    BY <2>1, <2>3, <2>4
<1>7. CASE Stop \/ Crash
  BY <1>7 DEF Stop, Crash, Off, Remembered, Quiet, world, past, At
<1>8. ASSUME NEW d \in HostDirs, Wipe(d) PROVE Remembered' /\ Quiet'
  <2>1. \A e \in Dirs : e # d => ids'[e] = ids[e] /\ At(e)' = At(e)
    BY <1>8, <1>t DEF Wipe, TypeOK, At, Dirs
  <2>2. last' = last /\ UNCHANGED <<container, phase, row, changed, want>>
    BY <1>8 DEF Wipe, past, boot
  <2>3. At(d)' = [dir |-> d, gen |-> gen[d] + 1] /\ gen[d] \in Nat
    BY <1>8, <1>t DEF Wipe, TypeOK, At, Dirs
  <2>4. last # At(d)'
    BY <1>8, <1>t, <2>3, DataIdentityAssumption DEF TypeOK, Never
  <2> QED
    BY <1>8, <2>1, <2>2, <2>4 DEF Wipe, Remembered, Quiet
<1>9. ASSUME NEW d \in HostDirs, Remove(d) PROVE Remembered' /\ Quiet'
  BY <1>9, <1>u DEF Remove
<1>10. ASSUME NEW d \in HostDirs, Mount(d) PROVE Remembered' /\ Quiet'
  BY <1>10 DEF Mount, Remembered, Quiet, past, boot, At
<1>11. ASSUME NEW d \in Dirs, Recreate(d) PROVE Remembered' /\ Quiet'
  BY <1>11, <1>n DEF Recreate, Remembered, Quiet, boot, At
<1>12. CASE UNCHANGED vars
  BY <1>12 DEF vars, world, past, boot, Remembered, Quiet, At
<1> QED
  BY <1>1, <1>2, <1>3, <1>4, <1>5, <1>6, <1>7, <1>8, <1>9, <1>10, <1>11,
     <1>12 DEF Next

(* "The data directory changed" is never a false alarm: a boot that says   *)
(* it is not in the directory this container last recorded.                *)
THEOREM AlarmIsTrue == Spec => []NoFalseAlarm
<1>1. Inv /\ QuietInv => NoFalseAlarm
  BY DEF Inv, BootOK, QuietInv, Quiet, NoFalseAlarm
<1> QED
  BY <1>1, InitInv, NextInv, QuietInit, QuietNext, PTL DEF Spec

(* The start-up writes an identifier only where it has found none.         *)
THEOREM IdentifiersAreKept == Spec => DataIsTheAuthority
<1>1. Inv /\ [Next]_vars =>
        \A d \in Dirs : WriteData => (ids[d] # NoId => ids'[d] = ids[d])
  BY DEF Inv, TypeOK, BootOK, WriteData
<1> QED
  BY <1>1, InitInv, NextInv, PTL DEF Spec, DataIsTheAuthority

-----------------------------------------------------------------------------
(* LossIsNoticed: no failed write, no crash, so every start-up that found  *)
(* out anything has finished what it began.                                *)

(* The directories of which the box has not reported, or is just about to. *)
Unreported(d) ==
  /\ At(d) \notin met
  /\ phase = "down" \/ row = "inconclusive" \/ d # mounted

(* Their identifiers are their own.                                        *)
Fresh ==
  \A d \in Dirs : Unreported(d) /\ ids[d] # NoId =>
    /\ container # ids[d]
    /\ phase \in {"data", "container"} => want # ids[d]
    /\ \A e \in Dirs \ {d} : ids[e] # ids[d]

Recorded ==
  /\ phase = "down" /\ last # Never => container # NoId
  /\ row # "none" /\ last # Never /\ row # "first_run" => container # NoId
  /\ phase = "report" /\ row # "inconclusive" => container # NoId
  /\ phase = "up" /\ row # "inconclusive" => At(mounted) \in met /\ container # NoId

Noticed ==
  phase # "down" /\ changed = "new" /\ row # "inconclusive" =>
    row \in {"wiped", "replaced"}

NoticedInv == Unhurt({"disk", "crash"}) => Fresh /\ Recorded /\ Noticed

LEMMA NoticedInit == Init => NoticedInv
<1> SUFFICES ASSUME Init PROVE Fresh /\ Recorded /\ Noticed
  BY DEF NoticedInv
<1>1. ids \in [Dirs -> 0 .. minted] /\ minted \in Nat
  BY InitInv DEF Inv, TypeOK
<1>2. Fresh
  BY <1>1 DEF Init, Fresh
<1> QED
  BY <1>2 DEF Init, Recorded, Noticed

LEMMA NoticedNext == Inv /\ NoticedInv /\ [Next]_vars => NoticedInv'
<1> SUFFICES ASSUME Inv, [Next]_vars, Unhurt({"disk", "crash"})',
                    Fresh, Recorded, Noticed
             PROVE  Fresh' /\ Recorded' /\ Noticed'
  BY UnhurtBefore DEF NoticedInv, Mishaps
<1>u. ~Happens("disk") /\ ~Happens("crash")
  BY UnhurtBefore DEF Mishaps
<1>t. TypeOK /\ BootOK
  BY DEF Inv
<1>1. CASE Boot
  <2>1. Here = At(mounted) /\ mounted \in Dirs
    BY <1>t DEF Here, At, TypeOK
  <2>2. UNCHANGED <<ids, container, last, met, mounted>> /\ \A d \in Dirs : At(d)' = At(d)
    BY <1>1 DEF Boot, world, past, At
  <2>3. phase = "down" /\ row' \notin {"none", "inconclusive"} /\ phase' \notin {"down", "up"}
    BY <1>1 DEF Boot, Row, AfterRead
  <2>4. ASSUME NEW d \in Dirs, Unreported(d)', ids[d] # NoId
        PROVE  /\ container # ids[d]
               /\ phase' \in {"data", "container"} => want' # ids[d]
               /\ \A e \in Dirs \ {d} : ids[e] # ids[d]
    <3>1. Unreported(d) /\ d # mounted
      BY <2>2, <2>3, <2>4 DEF Unreported
    <3>2. ids[d] # minted + 1
      BY <1>t DEF TypeOK
    <3>3. container # ids[d] /\ \A e \in Dirs \ {d} : ids[e] # ids[d]
      BY <2>4, <3>1 DEF Fresh
    <3> QED
      BY <1>1, <2>1, <3>1, <3>2, <3>3 DEF Boot, Want
  <2>5. Fresh'
    BY <2>2, <2>4 DEF Fresh
  <2>6. ASSUME changed' = "new" PROVE row' \in {"wiped", "replaced"}
    <3>1. last # Never /\ At(mounted) \notin met
      BY <1>1, <2>1, <2>6 DEF Boot, Compared
    <3>2. container # NoId /\ (ids[mounted] # NoId => container # ids[mounted])
      BY <2>1, <2>3, <3>1 DEF Recorded, Fresh, Unreported
    <3> QED
      BY <1>1, <3>2 DEF Boot, Row
  <2>7. Recorded'
    BY <1>1, <2>2, <2>3 DEF Boot, Recorded, Row, AfterRead
  <2> QED
    BY <2>5, <2>6, <2>7 DEF Noticed
<1>2. CASE BootUnreadable
  <2>1. UNCHANGED <<ids, container, last, met, mounted>> /\ \A d \in Dirs : At(d)' = At(d)
    BY <1>2 DEF BootUnreadable, world, past, At
  <2>2. phase = "down" /\ row' = "inconclusive" /\ phase' = "report"
    BY <1>2 DEF BootUnreadable
  <2> QED
    BY <2>1, <2>2 DEF Fresh, Unreported, Recorded, Noticed
<1>3. CASE WriteData
  <2>1. UNCHANGED <<container, last, met, mounted, row, want, changed>>
         /\ \A d \in Dirs : At(d)' = At(d)
    BY <1>3 DEF WriteData, world, past, boot, At
  <2>2. \A d \in Dirs : ids'[d] = IF d = mounted THEN want ELSE ids[d]
    BY <1>3, <1>t DEF WriteData, TypeOK
  <2>3. phase = "data" /\ phase' \in {"container", "report"} /\ row \in {"first_run", "wiped"}
    BY <1>3, <1>t DEF WriteData, AfterData, BootOK
  <2>4. \A d \in Dirs : Unreported(d)' => Unreported(d) /\ d # mounted
    BY <2>1, <2>3 DEF Unreported
  <2>5. Fresh'
    BY <2>1, <2>2, <2>3, <2>4 DEF Fresh
  <2> QED
    BY <1>3, <1>t, <2>1, <2>3, <2>5
       DEF WriteData, AfterData, Recorded, Noticed, BootOK
<1>4. CASE WriteContainer
  <2>1. container' = want /\ want # NoId /\ phase = "container" /\ phase' = "report"
    BY <1>4, <1>t DEF WriteContainer, BootOK
  <2>2. UNCHANGED <<ids, met, mounted, row, changed>> /\ \A d \in Dirs : At(d)' = At(d)
    BY <1>4 DEF WriteContainer, boot, At
  <2> QED
    BY <2>1, <2>2 DEF Fresh, Unreported, Recorded, Noticed
<1>5. CASE WriteFails
  BY <1>5, <1>u DEF WriteFails
<1>6. CASE Report
  <2>1. UNCHANGED <<ids, container, mounted, row, changed>> /\ \A d \in Dirs : At(d)' = At(d)
    BY <1>6 DEF Report, At
  <2>2. met \subseteq met' /\ (row # "inconclusive" => At(mounted) \in met')
    BY <1>6 DEF Report, Here, At, past
  <2>3. phase = "report" /\ phase' = "up" /\ (row = "inconclusive" => last' = last)
    BY <1>6 DEF Report, past
  <2>4. Fresh'
    BY <2>1, <2>2, <2>3 DEF Fresh, Unreported
  <2>5. At(mounted)' = At(mounted)
    BY <1>6 DEF Report, At
  <2> QED
    BY <2>1, <2>2, <2>3, <2>4, <2>5 DEF Recorded, Noticed
<1>7. CASE Stop
  <2>1. UNCHANGED <<ids, container, mounted, last, met>> /\ \A d \in Dirs : At(d)' = At(d)
    BY <1>7 DEF Stop, world, past, At
  <2>2. phase = "up" /\ phase' = "down" /\ row' = "none"
    BY <1>7 DEF Stop, Off
  <2>3. \A d \in Dirs : Unreported(d)' => Unreported(d)
    BY <2>1, <2>2 DEF Unreported, Recorded
  <2>4. last # Never => container # NoId
    BY <1>7, <1>t, <2>2 DEF Recorded, Stop
  <2> QED
    BY <2>1, <2>2, <2>3, <2>4 DEF Fresh, Recorded, Noticed
<1>8. CASE Crash
  BY <1>8, <1>u DEF Crash
<1>9. ASSUME NEW d \in HostDirs, Wipe(d) \/ Remove(d) PROVE Fresh' /\ Recorded' /\ Noticed'
  <2>1. \A e \in Dirs : ids'[e] = (IF e = d THEN NoId ELSE ids[e]) /\ (e # d => At(e)' = At(e))
    BY <1>9, <1>t DEF Wipe, Remove, world, TypeOK, At, Dirs
  <2>2. phase = "down" /\ UNCHANGED <<container, mounted, last, met, phase, row, changed>>
    BY <1>9 DEF Wipe, Remove, world, past, boot
  <2> QED
    BY <2>1, <2>2 DEF Fresh, Unreported, Recorded, Noticed
<1>10. ASSUME NEW d \in HostDirs, Mount(d) PROVE Fresh' /\ Recorded' /\ Noticed'
  BY <1>10 DEF Mount, Fresh, Unreported, Recorded, Noticed, past, boot, At
<1>11. ASSUME NEW d \in Dirs, Recreate(d) PROVE Fresh' /\ Recorded' /\ Noticed'
  <2>1. \A e \in Dirs : ids'[e] = (IF e = Inner THEN NoId ELSE ids[e]) /\ At(e)' = At(e)
    BY <1>11, <1>t DEF Recreate, TypeOK, At, Dirs
  <2>2. phase = "down" /\ container' = NoId /\ last' = Never
        /\ UNCHANGED <<met, phase, row, changed>>
    BY <1>11 DEF Recreate, boot
  <2> QED
    BY <1>t, <2>1, <2>2 DEF Fresh, Unreported, Recorded, Noticed, BootOK
<1>12. CASE UNCHANGED vars
  BY <1>12 DEF vars, world, past, boot, Fresh, Unreported, Recorded, Noticed, At
<1> QED
  BY <1>1, <1>2, <1>3, <1>4, <1>5, <1>6, <1>7, <1>8, <1>9, <1>10, <1>11,
     <1>12 DEF Next

(* Storage that was wiped or swapped under a surviving container is said,  *)
(* at the first boot that can read both identifiers.                       *)
THEOREM LossIsSaid == Spec => []LossIsNoticed
<1>1. Inv /\ NoticedInv => LossIsNoticed
  BY DEF Inv, BootOK, NoticedInv, Noticed, LossIsNoticed
<1> QED
  BY <1>1, InitInv, NextInv, NoticedInit, NoticedNext, PTL DEF Spec
=============================================================================
