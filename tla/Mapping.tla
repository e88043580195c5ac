------------------------------ MODULE Mapping ------------------------------
(***************************************************************************)
(* The pure half of the Brewfather Source (app/mapping.py): which Batch    *)
(* claims which Slot, which Batch wins a Slot that several claim, which    *)
(* Batch occupies a Slot when Upcoming previews are on, and which Batches  *)
(* are then teased as Upcoming Beers.                                      *)
(*                                                                         *)
(* A listing is the sequence of Batches one fetch returned; a Batch is a   *)
(* record with the fields the decisions read:                              *)
(*   tap     the number in its `tap:X` note token, NoSlot if it has none   *)
(*   teaser  whether its notes carry `upcoming:`                           *)
(*   status  its normalised status label                                   *)
(*   rev     its recency value                                             *)
(* A Batch is named by its position in the listing (the fetch drops a      *)
(* second Batch with an id it has already seen).  The operators below say  *)
(* WHAT the functions of mapping.py return; the loops that compute it are  *)
(* the state machine of MappingLoops, which is shown to compute this.      *)
(***************************************************************************)
EXTENDS Integers, Sequences

CONSTANT MAX_NUM_TAPS      \* the system bound on Slots, not the tap count

ASSUME MaxNumTapsAssumption == MAX_NUM_TAPS \in Nat \ {0}

Slots  == 1..MAX_NUM_TAPS
NoSlot == 0

(* "unknown" is what status_label returns for a missing or odd status.     *)
Statuses == {"completed", "conditioning", "fermenting", "brewing",
             "planning", "unknown"}

(* Lower is more complete; an unrecognised status ranks last.              *)
StatusRank(status) ==
  [completed |-> 0, conditioning |-> 1, fermenting |-> 2, brewing |-> 3,
   planning |-> 4, unknown |-> 5][status]

(* An out-of-range token is ignored: it claims nothing.                    *)
SlotClaim(batch) == IF batch.tap \in Slots THEN batch.tap ELSE NoSlot

-----------------------------------------------------------------------------
(* The Slot conflict of desired_map, among the first n Batches: the more   *)
(* complete status wins, then the newer, and of two equals the LATER.      *)

Claimants(list, n, s) == {i \in 1..n : SlotClaim(list[i]) = s}

Beats(list, i, j) ==
  \/ StatusRank(list[i].status) < StatusRank(list[j].status)
  \/ /\ StatusRank(list[i].status) = StatusRank(list[j].status)
     /\ \/ list[i].rev > list[j].rev
        \/ list[i].rev = list[j].rev /\ i > j

ClaimedSlots(list, n) == {s \in Slots : Claimants(list, n, s) # {}}

Wins(list, n, s, i) ==
  /\ i \in Claimants(list, n, s)
  /\ \A j \in Claimants(list, n, s) \ {i} : Beats(list, i, j)

(* Slot -> the (position of the) Batch that pours there.                   *)
DesiredMap(list) ==
  [s \in ClaimedSlots(list, Len(list)) |->
     CHOOSE i \in 1..Len(list) : Wins(list, Len(list), s, i)]

-----------------------------------------------------------------------------
(* The Occupancy pass.  Each status has a pass of its own; in a pass the   *)
(* newer claimant wins and of two equals the one that was there FIRST.     *)

PassClaimants(list, n, s, status) ==
  {i \in Claimants(list, n, s) : list[i].status = status}

Fresher(list, i, j) ==
  list[i].rev > list[j].rev \/ (list[i].rev = list[j].rev /\ i < j)

WinsPass(list, n, s, status, i) ==
  /\ i \in PassClaimants(list, n, s, status)
  /\ \A j \in PassClaimants(list, n, s, status) \ {i} : Fresher(list, i, j)

PassSlots(list, n, status) ==
  {s \in Slots : PassClaimants(list, n, s, status) # {}}

(* A Slot no Completed Batch claims, and that is not Manual, is left to    *)
(* the Conditioning pass.                                                  *)
OccupiedSlots(list, manual) ==
  PassSlots(list, Len(list), "completed")
    \cup (PassSlots(list, Len(list), "conditioning") \ manual)

Occupancy(list, manual) ==
  [s \in OccupiedSlots(list, manual) |->
     CHOOSE i \in 1..Len(list) :
       WinsPass(list, Len(list), s,
                IF s \in PassSlots(list, Len(list), "completed")
                THEN "completed" ELSE "conditioning", i)]

(* The Upcoming Beers given who occupies what: a Batch bound to a Slot it  *)
(* claims and does not occupy (a Completed loser is not coming up), or an  *)
(* unbound one that claims no Slot and is marked `upcoming:`.              *)
UpcomingBeers(list, occupied) ==
  {[batch |-> i, slot |-> SlotClaim(list[i])] :
     i \in {k \in 1..Len(list) :
              LET s == SlotClaim(list[k]) IN
              IF s = NoSlot THEN list[k].teaser
              ELSE /\ list[k].status # "completed"
                   /\ ~(s \in DOMAIN occupied /\ occupied[s] = k)}}
=============================================================================
