---------------------------- MODULE DataIdentity ----------------------------
(***************************************************************************)
(* The start-up durability checks (app/persistence.py): is the data        *)
(* directory mapped, and is it the one this container last saw?  The       *)
(* second question compares an identifier in the data directory with a     *)
(* copy outside it, and makes the two agree again, one write after the     *)
(* other.                                                                  *)
(***************************************************************************)
EXTENDS Naturals

CONSTANTS
  HostDirs,    \* what the operator may have mapped onto the data directory
  Inner,       \* nothing mapped: a directory of the container's own
  MaxId,       \* bound: identifiers ever minted
  MaxHurt      \* bound: how often each kind of event of Mishaps happens

Dirs == HostDirs \cup {Inner}
Mishaps == {"wipe", "mount", "recreate", "read", "disk", "crash", "removed"}

ASSUME DataIdentityAssumption ==
  Inner \notin HostDirs /\ MaxId \in Nat /\ MaxHurt \in [Mishaps -> Nat]

NoId == 0
Ids  == 0 .. MaxId

VARIABLES
  ids,         \* Dirs -> its .data_dir_id, or NoId
  container,   \* the container's own copy, or NoId
  mounted,     \* the data directory
  minted,      \* identifiers minted so far
  gen,         \* Dirs -> how often its contents were lost
  phase,       \* where the start-up is
  row, want,   \* what evaluate_identity recognised; the identifier it writes
  verdict,     \* what the admin page says
  last,        \* history: the directory this container last recorded
  met,         \* history: the directories the box has reported on
  changed,     \* history: how the directory of this boot relates to those
  hurt

past   == <<last, met>>
world  == <<mounted, gen, past>>
boot   == <<row, want, verdict, changed>>
vars   == <<ids, container, minted, world, phase, boot, hurt>>

Here == [dir |-> mounted, gen |-> gen[mounted]]

(* is_data_dir_mapped: the data directory is a mount of the container's.   *)
Mapped == mounted # Inner

(* What last holds while a container has recorded nothing.                *)
Never == [dir |-> Inner, gen |-> MaxHurt["wipe"] + 1]

Compared == IF last \in {Never, Here} THEN "same"
            ELSE IF Here \in met THEN "back" ELSE "new"

(* Directories may come from other boxes, with identifiers of their own.   *)
Init ==
  /\ minted \in Ids
  /\ ids \in [Dirs -> 0 .. minted] /\ ids[Inner] = NoId
  /\ \A d, e \in Dirs : ids[d] = ids[e] => d = e \/ ids[d] = NoId
  /\ \A n \in 1 .. minted : \E d \in Dirs : ids[d] = n
  /\ container = NoId
  /\ mounted \in Dirs
  /\ gen = [d \in Dirs |-> 0]
  /\ phase = "down" /\ row = "none" /\ want = NoId /\ verdict = "ok"
  /\ last = Never /\ met = {} /\ changed = "same"
  /\ hurt = [m \in Mishaps |-> 0]

Happens(m) ==
  /\ hurt[m] < MaxHurt[m]
  /\ hurt' = [hurt EXCEPT ![m] = @ + 1]

-----------------------------------------------------------------------------
(* Mutant: a missing identifier always means a new box.                    *)
RowForgetful(c, d) ==
  CASE c = d /\ c # NoId     -> "unchanged"
    [] c = NoId /\ d # NoId  -> "adopted"
    [] d = NoId              -> "first_run"
    [] OTHER                 -> "replaced"

(* evaluate_identity, from the two identifiers as read.                    *)
Row(c, d) ==
  CASE c = d /\ c # NoId     -> "unchanged"
    [] c = NoId /\ d # NoId  -> "adopted"
    [] c = NoId /\ d = NoId  -> "first_run"
    [] c # NoId /\ d = NoId  -> "wiped"
    [] OTHER                 -> "replaced"

(* Mutant: the warning is given and nothing is reconciled.                 *)
AfterReadOnlyWarns(r) ==
  CASE r = "first_run" -> "data" [] r = "adopted" -> "container" [] OTHER -> "report"

(* Which copy a row writes first.                                          *)
AfterRead(r) ==
  IF r \in {"first_run", "wiped"} THEN "data"
  ELSE IF r \in {"adopted", "replaced"} THEN "container" ELSE "report"

Want(r) ==
  IF r = "first_run" THEN minted + 1
  ELSE IF r = "wiped" THEN container ELSE ids[mounted]

Boot ==
  /\ phase = "down"
  /\ changed' = Compared
  /\ LET r == Row(container, ids[mounted])
     IN  /\ r = "first_run" => minted < MaxId
         /\ row' = r /\ want' = Want(r) /\ phase' = AfterRead(r)
         /\ minted' = IF r = "first_run" THEN minted + 1 ELSE minted
  /\ UNCHANGED <<ids, container, world, verdict, hurt>>

(* Mutant: a copy that does not read is taken for one that is absent.      *)
BootUnreadableIsAbsent ==
  /\ phase = "down" /\ Happens("read")
  /\ container # NoId /\ ids[mounted] # NoId
  /\ changed' = Compared
  /\ row' = "wiped" /\ want' = container /\ phase' = "data"
  /\ UNCHANGED <<ids, container, minted, world, verdict>>

(* A copy that exists and does not read: say nothing, write nothing.       *)
BootUnreadable ==
  /\ phase = "down" /\ Happens("read")
  /\ container # NoId \/ ids[mounted] # NoId
  /\ changed' = Compared
  /\ row' = "inconclusive" /\ want' = NoId /\ phase' = "report"
  /\ UNCHANGED <<ids, container, minted, world, verdict>>

AfterData == IF row = "first_run" THEN "container" ELSE "report"

WriteData ==
  /\ phase = "data"
  /\ ids' = [ids EXCEPT ![mounted] = want]
  /\ phase' = AfterData
  /\ UNCHANGED <<container, minted, world, boot, hurt>>

WriteContainer ==
  /\ phase = "container"
  /\ container' = want /\ last' = Here
  /\ phase' = "report"
  /\ UNCHANGED <<ids, minted, mounted, gen, met, boot, hurt>>

(* _write_identity logs an OSError and goes on.                            *)
WriteFails ==
  /\ phase \in {"data", "container"} /\ Happens("disk")
  /\ phase' = IF phase = "data" THEN AfterData ELSE "report"
  /\ UNCHANGED <<ids, container, minted, world, boot>>

(* _compute: "not mapped" outranks the identifiers.                        *)
Report ==
  /\ phase = "report"
  /\ phase' = "up"
  /\ verdict' = IF ~Mapped THEN "not_mapped"
                ELSE IF row \in {"wiped", "replaced"} THEN "data_replaced"
                ELSE "ok"
  /\ IF row = "inconclusive" THEN UNCHANGED past
     ELSE last' = Here /\ met' = met \cup {Here}
  /\ UNCHANGED <<ids, container, minted, mounted, gen, row, want, changed, hurt>>

-----------------------------------------------------------------------------
(* The container and the host.                                             *)

Off == phase' = "down" /\ row' = "none" /\ want' = NoId /\ verdict' = "ok"
         /\ changed' = "same"

Stop ==
  /\ phase = "up" /\ Off
  /\ UNCHANGED <<ids, container, minted, world, hurt>>

Crash ==
  /\ phase \in {"data", "container", "report"} /\ Happens("crash") /\ Off
  /\ UNCHANGED <<ids, container, minted, world>>

(* The host directory is emptied.                                          *)
Wipe(d) ==
  /\ phase = "down" /\ Happens("wipe")
  /\ ids' = [ids EXCEPT ![d] = NoId]
  /\ gen' = [gen EXCEPT ![d] = @ + 1]
  /\ UNCHANGED <<container, minted, mounted, past, phase, boot>>

(* Somebody deletes .data_dir_id and nothing else.                         *)
Remove(d) ==
  /\ phase = "down" /\ Happens("removed")
  /\ ids' = [ids EXCEPT ![d] = NoId]
  /\ UNCHANGED <<container, minted, world, phase, boot>>

(* The same container finds another host directory at its mount.           *)
Mount(d) ==
  /\ phase = "down" /\ Mapped /\ Happens("mount")
  /\ mounted' = d
  /\ UNCHANGED <<ids, container, minted, gen, past, phase, boot>>

(* docker compose up after an update: its own files are new.               *)
Recreate(d) ==
  /\ phase = "down" /\ Happens("recreate")
  /\ container' = NoId /\ last' = Never
  /\ ids' = [ids EXCEPT ![Inner] = NoId]
  /\ mounted' = d
  /\ UNCHANGED <<minted, gen, met, phase, boot>>

Next ==
  \/ Boot \/ BootUnreadable \/ WriteData \/ WriteContainer \/ WriteFails
  \/ Report \/ Stop \/ Crash
  \/ \E d \in HostDirs : Wipe(d) \/ Remove(d) \/ Mount(d)
  \/ \E d \in Dirs : Recreate(d)

Spec == Init /\ [][Next]_vars

-----------------------------------------------------------------------------
Unhurt(kinds) == \A m \in kinds : hurt[m] = 0

(* "The data directory changed" is never said of the directory this       *)
(* container last recorded while its contents are still there: not after a *)
(* recreate, not after a crash between the two writes, and not twice of    *)
(* one wipe.                                                               *)
NoFalseAlarm ==
  (Unhurt({"disk", "removed"}) /\ verdict = "data_replaced") => changed # "same"

(* A wipe, or a swap for a directory the box has not used before, under a  *)
(* surviving container is said at the first boot that can read both        *)
(* identifiers.  (A directory that was wiped takes the container's         *)
(* identifier, so storage that comes back is silent, by design.)           *)
LossIsNoticed ==
  (Unhurt({"disk", "crash"}) /\ phase = "up" /\ changed = "new"
     /\ row # "inconclusive" /\ Mapped) => verdict = "data_replaced"

(* A directory keeps the identifier it has: the start-up never writes over *)
(* one, whatever the container remembers.                                  *)
DataIsTheAuthority ==
  [][\A d \in Dirs : WriteData => (ids[d] # NoId => ids'[d] = ids[d])]_vars
=============================================================================
