---------------------------- MODULE MappingLoops ----------------------------
(***************************************************************************)
(* The three functions of app/mapping.py that decide what a listing means, *)
(* loop by loop: desired_map, resolve_occupancy (a Completed pass, a       *)
(* Conditioning pass and a merge) and upcoming_beers.  One step is one     *)
(* iteration of one loop.  Mapping says what each loop must have computed. *)
(***************************************************************************)
EXTENDS Mapping

CONSTANTS Batch,      \* the Batches a listing may hold
          MaxLen      \* bound: the longest listing

ASSUME BatchAssumption ==
  Batch \subseteq [tap : Nat, teaser : BOOLEAN, status : Statuses, rev : Nat]
ASSUME MaxLenAssumption == MaxLen \in Nat

VARIABLES
  list,           \* the listing, fixed for the cycle
  manual,         \* manual_slots, the Slots that hold a Manual Tap
  pc,             \* the loop that is running
  i,              \* the position it has reached
  desired,        \* dict of desired_map: Slot -> position of the winner
  completed,      \* dict of the Completed pass
  conditioning,   \* dict of the Conditioning pass
  occupied,       \* what resolve_occupancy returns
  entries         \* what upcoming_beers returns

vars == <<list, manual, pc, i, desired, completed, conditioning, occupied,
          entries>>

Empty == [s \in {} |-> 0]

Put(dict, s, v) ==
  [t \in DOMAIN dict \cup {s} |-> IF t = s THEN v ELSE dict[t]]

Init ==
  /\ \E n \in 0..MaxLen : list \in [1..n -> Batch]
  /\ manual \in SUBSET Slots
  /\ pc = "desired"
  /\ i = 1
  /\ desired = Empty
  /\ completed = Empty
  /\ conditioning = Empty
  /\ occupied = Empty
  /\ entries = {}

-----------------------------------------------------------------------------
(* Mutant: recency alone decides, as it did before statuses were ranked.   *)
FoldDesiredByRecency(dict, s, c) ==
  IF s \notin DOMAIN dict \/ list[c].rev >= list[dict[s]].rev
  THEN Put(dict, s, c) ELSE dict

(* One candidate folded into the dict of desired_map.                      *)
FoldDesired(dict, s, c) ==
  IF s \notin DOMAIN dict THEN Put(dict, s, c)
  ELSE LET e  == dict[s]
           rc == StatusRank(list[c].status)
           re == StatusRank(list[e].status)
           candidateWins == IF rc # re THEN rc < re
                            ELSE list[c].rev >= list[e].rev
       IN  Put(dict, s, IF candidateWins THEN c ELSE e)

(* One claimant of the pass's status folded into its dict.                 *)
PickByRecency(dict, s, c) ==
  IF s \notin DOMAIN dict THEN Put(dict, s, c)
  ELSE IF list[c].rev > list[dict[s]].rev THEN Put(dict, s, c)
  ELSE dict

DesiredStep ==
  /\ pc = "desired"
  /\ i <= Len(list)
  /\ LET s == SlotClaim(list[i]) IN
       desired' = IF s = NoSlot THEN desired ELSE FoldDesired(desired, s, i)
  /\ i' = i + 1
  /\ UNCHANGED <<list, manual, pc, completed, conditioning, occupied, entries>>

CompletedStep ==
  /\ pc = "completed"
  /\ i <= Len(list)
  /\ LET s == SlotClaim(list[i]) IN
       completed' = IF list[i].status = "completed" /\ s # NoSlot
                    THEN PickByRecency(completed, s, i) ELSE completed
  /\ i' = i + 1
  /\ UNCHANGED <<list, manual, pc, desired, conditioning, occupied, entries>>

ConditioningStep ==
  /\ pc = "conditioning"
  /\ i <= Len(list)
  /\ LET s == SlotClaim(list[i]) IN
       conditioning' = IF list[i].status = "conditioning" /\ s # NoSlot
                       THEN PickByRecency(conditioning, s, i)
                       ELSE conditioning
  /\ i' = i + 1
  /\ UNCHANGED <<list, manual, pc, desired, completed, occupied, entries>>

(* Mutant: Manual Taps do not keep a Conditioning Batch off their Slot.    *)
MergePassesNoManual ==
  /\ pc = "merge"
  /\ occupied' = [s \in DOMAIN completed \cup DOMAIN conditioning |->
                    IF s \in DOMAIN completed THEN completed[s]
                    ELSE conditioning[s]]
  /\ pc' = "upcoming"
  /\ i' = 1
  /\ UNCHANGED <<list, manual, desired, completed, conditioning, entries>>

MergePasses ==
  /\ pc = "merge"
  /\ LET filled == {s \in DOMAIN conditioning :
                      s \notin DOMAIN completed /\ s \notin manual}
     IN  occupied' = [s \in DOMAIN completed \cup filled |->
                        IF s \in filled THEN conditioning[s] ELSE completed[s]]
  /\ pc' = "upcoming"
  /\ i' = 1
  /\ UNCHANGED <<list, manual, desired, completed, conditioning, entries>>

(* Mutant: a Completed Batch that lost its Slot is teased for it.          *)
UpcomingStepTeasesPulled ==
  /\ pc = "upcoming"
  /\ i <= Len(list)
  /\ LET s        == SlotClaim(list[i])
         occupant == s \in DOMAIN occupied /\ occupied[s] = i
         teased   == IF s # NoSlot THEN ~occupant ELSE list[i].teaser
     IN  entries' = IF teased THEN entries \cup {[batch |-> i, slot |-> s]}
                    ELSE entries
  /\ i' = i + 1
  /\ UNCHANGED <<list, manual, pc, desired, completed, conditioning, occupied>>

(* The Batch is the occupant, a pulled beer, a bound teaser, an unbound    *)
(* teaser, or nothing.                                                     *)
UpcomingStep ==
  /\ pc = "upcoming"
  /\ i <= Len(list)
  /\ LET s        == SlotClaim(list[i])
         occupant == s \in DOMAIN occupied /\ occupied[s] = i
         teased   == IF s # NoSlot
                     THEN ~occupant /\ list[i].status # "completed"
                     ELSE list[i].teaser
     IN  entries' = IF teased THEN entries \cup {[batch |-> i, slot |-> s]}
                    ELSE entries
  /\ i' = i + 1
  /\ UNCHANGED <<list, manual, pc, desired, completed, conditioning, occupied>>

(* A loop runs out of Batches and the next one starts.                     *)
LoopEnds ==
  /\ pc \in {"desired", "completed", "conditioning", "upcoming"}
  /\ i = Len(list) + 1
  /\ pc' = [desired |-> "completed", completed |-> "conditioning",
            conditioning |-> "merge", upcoming |-> "done"][pc]
  /\ i' = 1
  /\ UNCHANGED <<list, manual, desired, completed, conditioning, occupied,
                 entries>>

Next == \/ DesiredStep \/ CompletedStep \/ ConditioningStep \/ MergePasses
        \/ UpcomingStep \/ LoopEnds

Spec == Init /\ [][Next]_vars

-----------------------------------------------------------------------------
(* What the running loop has computed is the reference for the Batches it  *)
(* has seen: the inductive form of DesiredMapRight.                        *)
Seen(loop) == IF pc = loop THEN i - 1 ELSE Len(list)

DesiredSoFar ==
  /\ DOMAIN desired = ClaimedSlots(list, Seen("desired"))
  /\ \A s \in DOMAIN desired : Wins(list, Seen("desired"), s, desired[s])

PassSoFar(loop, dict, n) ==
  /\ DOMAIN dict = PassSlots(list, n, loop)
  /\ \A s \in DOMAIN dict : WinsPass(list, n, s, loop, dict[s])

(* desired_map gives every claimed Slot to the one claimant that is more   *)
(* complete, then newer, then later than every other: whatever the order   *)
(* the candidates are folded in, no loser is left on a Slot.               *)
DesiredMapRight ==
  /\ DesiredSoFar
  /\ pc # "desired" => desired = DesiredMap(list)

(* resolve_occupancy lets a Conditioning Batch hold a Slot only when no    *)
(* Completed Batch claims it and no Manual Tap stands there, and in each   *)
(* pass keeps the newest claimant.                                         *)
OccupancyRight ==
  /\ pc = "completed" => PassSoFar("completed", completed, i - 1)
  /\ pc = "conditioning" => PassSoFar("conditioning", conditioning, i - 1)
  /\ pc \in {"upcoming", "done"} => occupied = Occupancy(list, manual)

(* Whatever the order the listing comes in, the loops of desired_map and   *)
(* resolve_occupancy compute the reference, and hold it for the Batches    *)
(* they have seen after every turn: no loser is left on a Slot.            *)
LoopsComputeReference == DesiredMapRight /\ OccupancyRight

(* No Batch that asked for a place falls between the two lists: an         *)
(* unfinished Batch that claims a Slot either occupies it or is teased for *)
(* it, and a finished one is never teased for a Slot it lost.              *)
EveryClaimAnswered ==
  pc = "done" =>
    /\ entries = UpcomingBeers(list, occupied)
    /\ \A k \in 1..Len(list) :
         LET s      == SlotClaim(list[k])
             pours  == s \in DOMAIN occupied /\ occupied[s] = k
             teased == \E e \in entries : e.batch = k
         IN  s # NoSlot =>
               (teased <=> (~pours /\ list[k].status # "completed"))

(* The two conflict rules of mapping.py agree: a Batch that holds a Slot   *)
(* for the Occupancy pass is the one desired_map pours there, unless a     *)
(* claimant with the same status and the same revision ties with it.       *)
OccupantPours ==
  pc = "done" =>
    \A s \in DOMAIN occupied :
      \/ desired[s] = occupied[s]
      \/ /\ list[desired[s]].status = list[occupied[s]].status
         /\ list[desired[s]].rev = list[occupied[s]].rev
=============================================================================
