------------------------- MODULE MappingLoopsProofs -------------------------
(***************************************************************************)
(* The loops of mapping.py compute their references for every listing.     *)
(* WinsStep and PassStep say how the winner of a Slot changes when a Batch *)
(* is appended; from them, a Slot that is claimed has a winner, and the    *)
(* dictionary of each loop is the reference for the Batches seen so far.   *)
(***************************************************************************)
EXTENDS MappingLoops, SequenceTheorems, WellFoundedInduction, TLAPS

-----------------------------------------------------------------------------
(* The reference of desired_map.                                           *)

(* What the lemmas need to know of a listing.                              *)
IsListing(l) ==
  /\ Len(l) \in Nat
  /\ \A w \in 1..Len(l) : l[w].status \in Statuses /\ l[w].rev \in Nat

(* Every non-empty set of naturals has a least element.                    *)
LEMMA LeastNat ==
  ASSUME NEW T, T \subseteq Nat, T # {}
  PROVE  \E m \in T : \A k \in T : m <= k
<1>1. PICK m \in T : \A k \in T : ~(<<k, m>> \in OpToRel(<, Nat))
  BY NatLessThanWellFounded, WFMin
<1>2. \A k \in T : ~(k < m)
  BY <1>1 DEF OpToRel
<1>3. \A k \in T : m <= k
  BY <1>2
<1> QED
  BY <1>3

(* A rank is a number: statuses are totally preordered.                    *)
LEMMA RankType ==
  ASSUME NEW st \in Statuses PROVE StatusRank(st) \in 0..5
BY DEF Statuses, StatusRank

(* One more Batch in the listing, and a winner among the earlier ones: the *)
(* new claimant wins if it is as complete and as new, and loses otherwise. *)
LEMMA WinsStep ==
  ASSUME NEW l, IsListing(l), NEW c \in 1..Len(l), NEW s \in Slots,
         NEW e, Wins(l, c - 1, s, e)
  PROVE  /\ SlotClaim(l[c]) # s => Wins(l, c, s, e)
         /\ SlotClaim(l[c]) = s =>
              LET rc == StatusRank(l[c].status)
                  re == StatusRank(l[e].status)
                  candidateWins == IF rc # re THEN rc < re
                                   ELSE l[c].rev >= l[e].rev
              IN  Wins(l, c, s, IF candidateWins THEN c ELSE e)
<1> DEFINE rank(j) == StatusRank(l[j].status)
<1> DEFINE old == Claimants(l, c - 1, s)
<1>1. e \in old /\ \A j \in old \ {e} : Beats(l, e, j)
  BY DEF Wins
<1>2. \A j \in 1..Len(l) : rank(j) \in 0..5 /\ l[j].rev \in Nat
  BY RankType DEF IsListing
<1>3. /\ old \subseteq 1..(c - 1)
      /\ Claimants(l, c, s) = IF SlotClaim(l[c]) = s THEN old \cup {c} ELSE old
  BY DEF Claimants, IsListing
<1>4. CASE SlotClaim(l[c]) # s
  BY <1>1, <1>3, <1>4 DEF Wins
<1>5. CASE SlotClaim(l[c]) = s
  <2> DEFINE candidateWins == IF rank(c) # rank(e) THEN rank(c) < rank(e)
                              ELSE l[c].rev >= l[e].rev
  <2>1. c \in 1..Len(l) /\ e \in 1..Len(l) /\ e < c
    BY <1>1, <1>3 DEF IsListing
  <2>2. CASE candidateWins
    <3>1. Beats(l, c, e)
      BY <1>2, <2>1, <2>2 DEF Beats
    <3>2. ASSUME NEW j \in old \ {e} PROVE Beats(l, c, j)
      <4>1. j \in 1..Len(l) /\ j < c
        BY <1>3 DEF IsListing
      <4>2. Beats(l, e, j)
        BY <1>1
      <4> QED
        BY <1>2, <2>1, <3>1, <4>1, <4>2 DEF Beats
    <3> QED
      BY <1>3, <1>5, <2>1, <2>2, <3>1, <3>2 DEF Wins
  <2>3. CASE ~candidateWins
    <3>1. Beats(l, e, c)
      BY <1>2, <2>1, <2>3 DEF Beats
    <3> QED
      BY <1>1, <1>3, <1>5, <2>3, <3>1 DEF Wins
  <2> QED
    BY <2>2, <2>3, <1>5
<1> QED
  BY <1>4, <1>5

(* The first claimant of a Slot wins it.                                   *)
LEMMA WinsFirst ==
  ASSUME NEW l, IsListing(l), NEW c \in 1..Len(l), NEW s \in Slots,
         Claimants(l, c - 1, s) = {}, SlotClaim(l[c]) = s
  PROVE  Wins(l, c, s, c)
<1>1. Claimants(l, c, s) = {c}
  BY DEF Claimants, IsListing
<1> QED
  BY <1>1 DEF Wins

(* A claimed Slot has a winner, however long the listing.                  *)
LEMMA WinnerExists ==
  ASSUME NEW l, IsListing(l)
  PROVE  \A n \in 0..Len(l) : \A s \in ClaimedSlots(l, n) :
           \E w : Wins(l, n, s, w)
<1> DEFINE bad == {n \in 0..Len(l) : \E s \in ClaimedSlots(l, n) :
                     ~ \E w : Wins(l, n, s, w)}
<1> SUFFICES ASSUME bad # {} PROVE FALSE
  OBVIOUS
<1>1. bad \subseteq Nat
  BY DEF IsListing
<1>2. PICK m \in bad : \A k \in bad : m <= k
  BY <1>1, LeastNat
<1>3. PICK s \in ClaimedSlots(l, m) : ~ \E w : Wins(l, m, s, w)
  BY <1>2
<1>4. m # 0
  BY <1>3 DEF ClaimedSlots, Claimants
<1>5. m \in 1..Len(l) /\ m - 1 \in 0..Len(l) /\ ~(m <= m - 1)
  BY <1>2, <1>4 DEF IsListing
<1>6. m - 1 \notin bad
  BY <1>2, <1>5
<1>7. s \in Slots
  BY <1>3 DEF ClaimedSlots
<1>8. CASE s \in ClaimedSlots(l, m - 1)
  <2>1. PICK e : Wins(l, m - 1, s, e)
    BY <1>5, <1>6, <1>8
  <2> QED
    BY <1>3, <1>5, <1>7, <2>1, WinsStep
<1>9. CASE s \notin ClaimedSlots(l, m - 1)
  <2>1. Claimants(l, m - 1, s) = {}
    BY <1>7, <1>9 DEF ClaimedSlots
  <2>2. SlotClaim(l[m]) = s
    BY <1>3, <1>5, <2>1 DEF ClaimedSlots, Claimants, IsListing
  <2> QED
    BY <1>3, <1>5, <1>7, <2>1, <2>2, WinsFirst
<1> QED
  BY <1>8, <1>9

(* Beats is asymmetric, so a Slot has one winner.                          *)
LEMMA WinnerUnique ==
  ASSUME NEW l, IsListing(l), NEW n \in 0..Len(l), NEW s,
         NEW w, NEW j, Wins(l, n, s, w), Wins(l, n, s, j)
  PROVE  w = j
<1>1. w \in 1..Len(l) /\ j \in 1..Len(l)
  BY DEF Wins, Claimants, IsListing
<1>2. \A k \in {w, j} : StatusRank(l[k].status) \in 0..5
                        /\ l[k].rev \in Nat
  BY <1>1, RankType DEF IsListing
<1>3. w # j => Beats(l, w, j) /\ Beats(l, j, w)
  BY DEF Wins
<1> QED
  BY <1>1, <1>2, <1>3 DEF Beats

(* desired_map answers a claimant of the Slot, and the winning one.        *)
THEOREM DesiredMapWinner ==
  ASSUME NEW l, IsListing(l)
  PROVE  /\ DOMAIN DesiredMap(l) = ClaimedSlots(l, Len(l))
         /\ \A s \in DOMAIN DesiredMap(l) :
              /\ DesiredMap(l)[s] \in 1..Len(l)
              /\ Wins(l, Len(l), s, DesiredMap(l)[s])
<1>1. DOMAIN DesiredMap(l) = ClaimedSlots(l, Len(l))
  BY DEF DesiredMap
<1>2. ASSUME NEW s \in ClaimedSlots(l, Len(l))
      PROVE  /\ DesiredMap(l)[s] \in 1..Len(l)
             /\ Wins(l, Len(l), s, DesiredMap(l)[s])
  <2>1. Len(l) \in 0..Len(l)
    BY DEF IsListing
  <2>2. PICK w : Wins(l, Len(l), s, w)
    BY <2>1, WinnerExists
  <2>3. w \in 1..Len(l)
    BY <2>2 DEF Wins, Claimants
  <2> QED
    BY <2>2, <2>3 DEF DesiredMap
<1> QED
  BY <1>1, <1>2

-----------------------------------------------------------------------------
(* One more Batch, and a winner of a pass among the earlier ones.          *)
LEMMA PassStep ==
  ASSUME NEW l, IsListing(l), NEW c \in 1..Len(l), NEW s, NEW st,
         NEW e, WinsPass(l, c - 1, s, st, e)
  PROVE  /\ e \in 1..Len(l)
         /\ ~(SlotClaim(l[c]) = s /\ l[c].status = st) =>
              WinsPass(l, c, s, st, e)
         /\ SlotClaim(l[c]) = s /\ l[c].status = st =>
              WinsPass(l, c, s, st, IF l[c].rev > l[e].rev THEN c ELSE e)
<1> DEFINE old == PassClaimants(l, c - 1, s, st)
<1> DEFINE now == PassClaimants(l, c, s, st)
<1>1. e \in old /\ \A j \in old \ {e} : Fresher(l, e, j)
  BY DEF WinsPass
<1>2. \A j \in 1..Len(l) : l[j].rev \in Nat
  BY DEF IsListing
<1>3. /\ old \subseteq 1..(c - 1)
      /\ now = IF SlotClaim(l[c]) = s /\ l[c].status = st
               THEN old \cup {c} ELSE old
  BY DEF PassClaimants, Claimants, IsListing
<1>4. /\ c \in 1..Len(l) /\ e \in 1..Len(l) /\ e < c
      /\ \A j \in old : j \in 1..Len(l) /\ j < c
  BY <1>1, <1>3 DEF IsListing
<1>5. CASE ~(SlotClaim(l[c]) = s /\ l[c].status = st)
  BY <1>1, <1>3, <1>4, <1>5 DEF WinsPass
<1>6. CASE SlotClaim(l[c]) = s /\ l[c].status = st
  <2>1. CASE l[c].rev > l[e].rev
    <3>1. \A j \in old : Fresher(l, c, j)
      BY <1>1, <1>2, <1>4, <2>1 DEF Fresher
    <3> QED
      BY <1>3, <1>4, <1>6, <2>1, <3>1 DEF WinsPass
  <2>2. CASE ~(l[c].rev > l[e].rev)
    <3>1. Fresher(l, e, c)
      BY <1>2, <1>4, <2>2 DEF Fresher
    <3> QED
      BY <1>1, <1>3, <1>4, <1>6, <2>2, <3>1 DEF WinsPass
  <2> QED
    BY <2>1, <2>2
<1> QED
  BY <1>4, <1>5, <1>6

(* The first claimant of a pass wins it.                                   *)
LEMMA PassFirst ==
  ASSUME NEW l, IsListing(l), NEW c \in 1..Len(l), NEW s, NEW st,
         PassClaimants(l, c - 1, s, st) = {},
         SlotClaim(l[c]) = s, l[c].status = st
  PROVE  WinsPass(l, c, s, st, c)
<1>1. PassClaimants(l, c, s, st) = {c}
  BY DEF PassClaimants, Claimants, IsListing
<1> QED
  BY <1>1 DEF WinsPass

(* Fresher is asymmetric, so a pass has one winner.                        *)
LEMMA PassUnique ==
  ASSUME NEW l, IsListing(l), NEW n \in 0..Len(l), NEW s, NEW st,
         NEW j, NEW k, WinsPass(l, n, s, st, j), WinsPass(l, n, s, st, k)
  PROVE  j = k
<1>1. j \in 1..Len(l) /\ k \in 1..Len(l)
  BY DEF WinsPass, PassClaimants, Claimants, IsListing
<1>2. l[j].rev \in Nat /\ l[k].rev \in Nat
  BY <1>1 DEF IsListing
<1>3. j # k => Fresher(l, j, k) /\ Fresher(l, k, j)
  BY DEF WinsPass
<1> QED
  BY <1>1, <1>2, <1>3 DEF Fresher

(* A pass with a claimant has a winner, however long the listing.          *)
LEMMA PassWinnerExists ==
  ASSUME NEW l, IsListing(l), NEW st
  PROVE  \A n \in 0..Len(l) : \A s \in PassSlots(l, n, st) :
           \E w : WinsPass(l, n, s, st, w)
<1> DEFINE bad == {n \in 0..Len(l) : \E s \in PassSlots(l, n, st) :
                     ~ \E w : WinsPass(l, n, s, st, w)}
<1> SUFFICES ASSUME bad # {} PROVE FALSE
  OBVIOUS
<1>1. bad \subseteq Nat
  BY DEF IsListing
<1>2. PICK m \in bad : \A k \in bad : m <= k
  BY <1>1, LeastNat
<1>3. PICK s \in PassSlots(l, m, st) : ~ \E w : WinsPass(l, m, s, st, w)
  BY <1>2
<1>4. m # 0
  BY <1>3 DEF PassSlots, PassClaimants, Claimants
<1>5. m \in 1..Len(l) /\ m - 1 \in 0..Len(l) /\ ~(m <= m - 1)
  BY <1>2, <1>4 DEF IsListing
<1>6. m - 1 \notin bad
  BY <1>2, <1>5
<1>7. s \in Slots
  BY <1>3 DEF PassSlots
<1>8. CASE s \in PassSlots(l, m - 1, st)
  <2>1. PICK e : WinsPass(l, m - 1, s, st, e)
    BY <1>5, <1>6, <1>8
  <2> QED
    BY <1>3, <1>5, <2>1, PassStep
<1>9. CASE s \notin PassSlots(l, m - 1, st)
  <2>1. PassClaimants(l, m - 1, s, st) = {}
    BY <1>7, <1>9 DEF PassSlots
  <2>2. SlotClaim(l[m]) = s /\ l[m].status = st
    BY <1>3, <1>5, <2>1 DEF PassSlots, PassClaimants, Claimants, IsListing
  <2> QED
    BY <1>3, <1>5, <2>1, <2>2, PassFirst
<1> QED
  BY <1>8, <1>9

-----------------------------------------------------------------------------
(* The inductive invariant: each dict is right for the Batches its loop    *)
(* has seen, and a loop that has not begun has an empty one.               *)

(* A dict holds positions of the listing; Slots are its keys.              *)
IsDict(dict) == dict \in [DOMAIN dict -> Nat]

Typed ==
  /\ list \in Seq(Batch)
  /\ pc \in {"desired", "completed", "conditioning", "merge", "upcoming", "done"}
  /\ i \in 1..(Len(list) + 1)
  /\ IsDict(desired) /\ IsDict(completed) /\ IsDict(conditioning)

PassesSoFar ==
  /\ pc = "desired" => completed = Empty
  /\ pc \in {"desired", "completed"} => conditioning = Empty
  /\ pc = "completed" => PassSoFar("completed", completed, i - 1)
  /\ pc \in {"conditioning", "merge"} =>
       PassSoFar("completed", completed, Len(list))
  /\ pc = "conditioning" => PassSoFar("conditioning", conditioning, i - 1)
  /\ pc = "merge" => PassSoFar("conditioning", conditioning, Len(list))

(* What is teased when the first n Batches have been looked at.            *)
EntriesUpTo(n) ==
  {[batch |-> k, slot |-> SlotClaim(list[k])] :
     k \in {j \in 1..n :
              LET s == SlotClaim(list[j]) IN
              IF s = NoSlot THEN list[j].teaser
              ELSE /\ list[j].status # "completed"
                   /\ ~(s \in DOMAIN occupied /\ occupied[s] = j)}}

EntriesSoFar ==
  /\ pc \notin {"upcoming", "done"} => entries = {}
  /\ pc = "upcoming" => entries = EntriesUpTo(i - 1)
  /\ pc = "done" => entries = EntriesUpTo(Len(list))

OccupiedRight ==
  pc \in {"upcoming", "done"} => occupied = Occupancy(list, manual)

LoopInv ==
  Typed /\ DesiredSoFar /\ PassesSoFar /\ OccupiedRight /\ EntriesSoFar

(* What the lemmas about listings need.                                    *)
LEMMA ListFacts ==
  ASSUME list \in Seq(Batch)
  PROVE  IsListing(list) /\ Len(list) \in Nat
<1>1. Len(list) \in Nat /\ \A k \in 1..Len(list) : list[k] \in Batch
  OBVIOUS
<1>2. \A b \in Batch : b.status \in Statuses /\ b.rev \in Nat
  BY BatchAssumption
<1> QED
  BY <1>1, <1>2 DEF IsListing

LEMMA LoopInit == Init => LoopInv
<1> SUFFICES ASSUME Init PROVE LoopInv
  OBVIOUS
<1>1. list \in Seq(Batch)
  <2>1. PICK n \in 0..MaxLen : list \in [1..n -> Batch]
    BY DEF Init
  <2>2. n \in Nat
    BY MaxLenAssumption
  <2> QED
    BY <2>1, <2>2, SeqDef
<1>2. Len(list) \in Nat /\ DOMAIN Empty = {} /\ Empty \in [{} -> Nat]
  BY <1>1 DEF Empty
<1>3. Typed
  BY <1>1, <1>2 DEF Init, Typed, IsDict
<1>4. DesiredSoFar
  BY <1>2 DEF Init, DesiredSoFar, Seen, ClaimedSlots, Claimants
<1> QED
  BY <1>3, <1>4 DEF Init, LoopInv, PassesSoFar, OccupiedRight, EntriesSoFar

-----------------------------------------------------------------------------
(* One Batch folded into the dict of desired_map.                          *)
LEMMA DesiredFolds ==
  ASSUME LoopInv, DesiredStep
  PROVE  /\ IsDict(desired')
         /\ DOMAIN desired' = ClaimedSlots(list, i)
         /\ \A s \in DOMAIN desired' : Wins(list, i, s, desired'[s])
<1> DEFINE c == SlotClaim(list[i])
<1>1. IsListing(list) /\ i \in 1..Len(list)
  BY ListFacts DEF LoopInv, Typed, DesiredStep
<1>2. /\ IsDict(desired) /\ DOMAIN desired = ClaimedSlots(list, i - 1)
      /\ \A s \in DOMAIN desired : s \in Slots /\ Wins(list, i - 1, s, desired[s])
  BY DEF LoopInv, Typed, DesiredSoFar, Seen, DesiredStep, ClaimedSlots
<1>3. c \in Slots \/ c = NoSlot
  BY DEF SlotClaim
<1>4. NoSlot \notin Slots
  BY DEF NoSlot, Slots
<1>5. \A s \in Slots : s # c => Claimants(list, i, s) = Claimants(list, i - 1, s)
  BY <1>1 DEF Claimants, IsListing
<1>6. c \in Slots => i \in Claimants(list, i, c)
  BY <1>1 DEF Claimants, IsListing
<1>7. \A s \in DOMAIN desired : s # c => Wins(list, i, s, desired[s])
  BY <1>2, <1>5 DEF Wins
<1>8. CASE c = NoSlot
  <2>1. desired' = desired /\ \A s \in Slots : s # c
    BY <1>4, <1>8 DEF DesiredStep
  <2>2. ClaimedSlots(list, i) = ClaimedSlots(list, i - 1)
    BY <1>5, <2>1 DEF ClaimedSlots
  <2> QED
    BY <1>2, <1>7, <2>1, <2>2
<1>9. CASE c # NoSlot
  <2>1. c \in Slots /\ desired' = FoldDesired(desired, c, i)
    BY <1>3, <1>9 DEF DesiredStep
  <2>2. ClaimedSlots(list, i) = ClaimedSlots(list, i - 1) \cup {c}
    BY <1>5, <1>6, <2>1 DEF ClaimedSlots
  <2>3. PICK w \in Nat : desired' = Put(desired, c, w) /\ Wins(list, i, c, w)
    <3>1. CASE c \notin DOMAIN desired
      <4>1. Claimants(list, i - 1, c) = {}
        BY <1>2, <2>1, <3>1 DEF ClaimedSlots
      <4>2. Wins(list, i, c, i)
        BY <1>1, <2>1, <4>1, WinsFirst
      <4> QED
        BY <1>1, <2>1, <3>1, <4>2 DEF FoldDesired
    <3>2. CASE c \in DOMAIN desired
      <4> DEFINE e  == desired[c]
                 rc == StatusRank(list[i].status)
                 re == StatusRank(list[e].status)
                 candidateWins == IF rc # re THEN rc < re
                                  ELSE list[i].rev >= list[e].rev
      <4>1. Wins(list, i - 1, c, e) /\ e \in Nat
        BY <1>2, <3>2 DEF IsDict
      <4>2. Wins(list, i, c, IF candidateWins THEN i ELSE e)
        BY <1>1, <2>1, <4>1, WinsStep
      <4>3. desired' = Put(desired, c, IF candidateWins THEN i ELSE e)
        BY <2>1, <3>2 DEF FoldDesired
      <4>4. (IF candidateWins THEN i ELSE e) \in Nat
        BY <1>1, <4>1
      <4> HIDE DEF candidateWins, e
      <4> QED
        BY <4>2, <4>3, <4>4
    <3> QED
      BY <3>1, <3>2
  <2>4. /\ DOMAIN desired' = DOMAIN desired \cup {c}
        /\ desired'[c] = w
        /\ \A s \in DOMAIN desired : s # c => desired'[s] = desired[s]
        /\ IsDict(desired')
    BY <1>2, <2>3 DEF Put, IsDict
  <2> QED
    BY <1>2, <1>7, <2>2, <2>3, <2>4
<1> QED
  BY <1>8, <1>9

(* One Batch folded into the dict of a pass.                               *)
LEMMA PassFolds ==
  ASSUME list \in Seq(Batch), i \in 1..Len(list), NEW st, NEW dict, NEW after,
         IsDict(dict), PassSoFar(st, dict, i - 1),
         after = IF list[i].status = st /\ SlotClaim(list[i]) # NoSlot
                 THEN PickByRecency(dict, SlotClaim(list[i]), i) ELSE dict
  PROVE  IsDict(after) /\ PassSoFar(st, after, i)
<1> DEFINE c == SlotClaim(list[i])
<1>1. IsListing(list) /\ i \in 1..Len(list) /\ i \in Nat
  BY ListFacts
<1>2. /\ DOMAIN dict = PassSlots(list, i - 1, st)
      /\ \A s \in DOMAIN dict : WinsPass(list, i - 1, s, st, dict[s])
  BY DEF PassSoFar
<1>3. (c \in Slots \/ c = NoSlot) /\ NoSlot \notin Slots
  BY DEF SlotClaim, NoSlot, Slots
<1>4. \A s \in Slots : ~(c = s /\ list[i].status = st) =>
        PassClaimants(list, i, s, st) = PassClaimants(list, i - 1, s, st)
  BY <1>1 DEF PassClaimants, Claimants, IsListing
<1>5. \A s \in DOMAIN dict : ~(c = s /\ list[i].status = st) =>
        WinsPass(list, i, s, st, dict[s])
  BY <1>2, <1>4 DEF WinsPass, PassSlots
<1>6. CASE ~(list[i].status = st /\ c # NoSlot)
  <2>1. after = dict /\ \A s \in Slots : ~(c = s /\ list[i].status = st)
    BY <1>3, <1>6
  <2>2. PassSlots(list, i, st) = PassSlots(list, i - 1, st)
    BY <1>4, <2>1 DEF PassSlots
  <2>3. DOMAIN dict \subseteq Slots
    BY <1>2 DEF PassSlots
  <2> QED
    BY <1>2, <1>5, <2>1, <2>2, <2>3 DEF PassSoFar
<1>7. CASE list[i].status = st /\ c # NoSlot
  <2>1. c \in Slots /\ after = PickByRecency(dict, c, i)
    BY <1>3, <1>7
  <2>2. i \in PassClaimants(list, i, c, st)
    BY <1>1, <1>7 DEF PassClaimants, Claimants, IsListing
  <2>3. PassSlots(list, i, st) = PassSlots(list, i - 1, st) \cup {c}
    BY <1>4, <2>1, <2>2 DEF PassSlots
  <2>4. CASE c \notin DOMAIN dict
    <3>1. PassClaimants(list, i - 1, c, st) = {}
      BY <1>2, <2>1, <2>4 DEF PassSlots
    <3>2. WinsPass(list, i, c, st, i)
      BY <1>1, <1>7, <3>1, PassFirst
    <3>3. after = Put(dict, c, i)
      BY <2>1, <2>4 DEF PickByRecency
    <3>4. /\ DOMAIN after = DOMAIN dict \cup {c} /\ IsDict(after)
          /\ \A s \in DOMAIN after : after[s] = IF s = c THEN i ELSE dict[s]
      BY <1>1, <3>3 DEF Put, IsDict
    <3> QED
      BY <1>2, <1>5, <2>3, <2>4, <3>2, <3>4 DEF PassSoFar
  <2>5. CASE c \in DOMAIN dict
    <3>1. WinsPass(list, i - 1, c, st, dict[c])
      BY <1>2, <2>5
    <3>2. WinsPass(list, i, c, st,
                   IF list[i].rev > list[dict[c]].rev THEN i ELSE dict[c])
      BY <1>1, <1>7, <3>1, PassStep
    <3>3. /\ DOMAIN after = DOMAIN dict /\ IsDict(after)
          /\ \A s \in DOMAIN after :
               after[s] = IF s # c THEN dict[s]
                          ELSE IF list[i].rev > list[dict[c]].rev THEN i
                               ELSE dict[c]
      BY <1>1, <2>1, <2>5 DEF PickByRecency, Put, IsDict
    <3>4. DOMAIN dict = DOMAIN dict \cup {c}
      BY <2>5
    <3> QED
      BY <1>2, <1>5, <2>3, <3>2, <3>3, <3>4 DEF PassSoFar
  <2> QED
    BY <2>4, <2>5
<1> QED
  BY <1>6, <1>7

(* A dict that has what a reference function has is that function.         *)
LEMMA DesiredIsReference ==
  ASSUME list \in Seq(Batch), IsDict(desired),
         DOMAIN desired = ClaimedSlots(list, Len(list)),
         \A s \in DOMAIN desired : Wins(list, Len(list), s, desired[s])
  PROVE  desired = DesiredMap(list)
<1>1. IsListing(list) /\ Len(list) \in 0..Len(list)
  BY ListFacts
<1>2. /\ DOMAIN DesiredMap(list) = ClaimedSlots(list, Len(list))
      /\ \A s \in DOMAIN DesiredMap(list) :
           Wins(list, Len(list), s, DesiredMap(list)[s])
  BY <1>1, DesiredMapWinner
<1>3. \A s \in DOMAIN desired : desired[s] = DesiredMap(list)[s]
  BY <1>1, <1>2, WinnerUnique
<1>4. DesiredMap(list) = [s \in DOMAIN desired |-> DesiredMap(list)[s]]
  BY DEF DesiredMap
<1> QED
  BY <1>3, <1>4 DEF IsDict

(* The two passes merged are the Occupancy.                                *)
LEMMA MergeIsOccupancy ==
  ASSUME list \in Seq(Batch), IsDict(completed), IsDict(conditioning),
         PassSoFar("completed", completed, Len(list)),
         PassSoFar("conditioning", conditioning, Len(list)), MergePasses
  PROVE  occupied' = Occupancy(list, manual)
<1> DEFINE done   == PassSlots(list, Len(list), "completed")
           filled == {s \in DOMAIN conditioning :
                        s \notin DOMAIN completed /\ s \notin manual}
           status(s) == IF s \in done THEN "completed" ELSE "conditioning"
<1>1. IsListing(list) /\ Len(list) \in 0..Len(list)
  BY ListFacts
<1>2. /\ DOMAIN completed = done
      /\ DOMAIN conditioning = PassSlots(list, Len(list), "conditioning")
      /\ \A s \in done : WinsPass(list, Len(list), s, "completed", completed[s])
      /\ \A s \in DOMAIN conditioning :
           WinsPass(list, Len(list), s, "conditioning", conditioning[s])
  BY DEF PassSoFar
<1>3. DOMAIN completed \cup filled = OccupiedSlots(list, manual)
  BY <1>2 DEF OccupiedSlots
<1>4. ASSUME NEW s \in OccupiedSlots(list, manual)
      PROVE  (IF s \in filled THEN conditioning[s] ELSE completed[s])
               = Occupancy(list, manual)[s]
  <2> DEFINE w == IF s \in filled THEN conditioning[s] ELSE completed[s]
             o == Occupancy(list, manual)[s]
  <2>1. WinsPass(list, Len(list), s, status(s), w)
    BY <1>2, <1>3, <1>4
  <2>2. w \in 1..Len(list)
    BY <2>1 DEF WinsPass, PassClaimants, Claimants
  <2>3. o = CHOOSE k \in 1..Len(list) : WinsPass(list, Len(list), s, status(s), k)
    BY DEF Occupancy
  <2> HIDE DEF w, o
  <2>4. WinsPass(list, Len(list), s, status(s), o)
    BY <2>1, <2>2, <2>3
  <2>5. w = o
    BY <1>1, <2>1, <2>4, PassUnique
  <2> QED
    BY <2>5 DEF w, o
<1>5. occupied' = [s \in DOMAIN completed \cup filled |->
                     IF s \in filled THEN conditioning[s] ELSE completed[s]]
  BY DEF MergePasses
<1>6. Occupancy(list, manual) =
        [s \in OccupiedSlots(list, manual) |-> Occupancy(list, manual)[s]]
  BY DEF Occupancy
<1> HIDE DEF filled
<1> QED
  BY <1>3, <1>4, <1>5, <1>6

(* One more Batch looked at by upcoming_beers.                             *)
LEMMA EntriesGrow ==
  ASSUME list \in Seq(Batch), UpcomingStep, i \in 1..(Len(list) + 1),
         entries = EntriesUpTo(i - 1)
  PROVE  entries' = EntriesUpTo(i)
<1> DEFINE teased(k) == LET s == SlotClaim(list[k]) IN
                        IF s = NoSlot THEN list[k].teaser
                        ELSE /\ list[k].status # "completed"
                             /\ ~(s \in DOMAIN occupied /\ occupied[s] = k)
           entry(k)  == [batch |-> k, slot |-> SlotClaim(list[k])]
<1>1. Len(list) \in Nat /\ i \in 1..Len(list)
  BY ListFacts DEF UpcomingStep
<1>2. entries' = IF teased(i) THEN entries \cup {entry(i)} ELSE entries
  BY DEF UpcomingStep
<1>3. \A n : EntriesUpTo(n) = {entry(k) : k \in {j \in 1..n : teased(j)}}
  BY DEF EntriesUpTo
<1> HIDE DEF teased, entry
<1>4. \A k : k \in 1..i <=> (k \in 1..(i - 1) \/ k = i)
  BY <1>1
<1> QED
  BY <1>2, <1>3, <1>4

-----------------------------------------------------------------------------
LEMMA LoopStep == LoopInv /\ [Next]_vars => LoopInv'
<1> SUFFICES ASSUME LoopInv, [Next]_vars PROVE LoopInv'
  OBVIOUS
<1> USE DEF LoopInv
<1>1. IsListing(list) /\ Len(list) \in Nat /\ i \in Nat
  BY ListFacts DEF Typed
<1>2. CASE DesiredStep
  <2>1. i' - 1 = i
    BY <1>1, <1>2 DEF DesiredStep
  <2>2. Typed' /\ DesiredSoFar'
    BY <1>1, <1>2, <2>1, DesiredFolds
       DEF Typed, DesiredStep, DesiredSoFar, Seen, IsDict
  <2> QED
    BY <1>2, <2>2 DEF DesiredStep, PassesSoFar, OccupiedRight, EntriesSoFar
<1>3. CASE CompletedStep
  <2>1. i' - 1 = i /\ i \in 1..Len(list)
    BY <1>1, <1>3 DEF CompletedStep, Typed
  <2>2. IsDict(completed') /\ PassSoFar("completed", completed', i)
    <3>1. completed' = IF list[i].status = "completed"
                            /\ SlotClaim(list[i]) # NoSlot
                       THEN PickByRecency(completed, SlotClaim(list[i]), i)
                       ELSE completed
      BY <1>3 DEF CompletedStep
    <3> QED
      BY <1>3, <2>1, <3>1, PassFolds DEF CompletedStep, Typed, PassesSoFar
  <2>3. Typed'
    BY <1>1, <1>3, <2>1, <2>2 DEF CompletedStep, Typed, IsDict
  <2>4. DesiredSoFar'
    BY <1>3 DEF CompletedStep, DesiredSoFar, Seen
  <2>5. PassSoFar("completed", completed, i - 1)'
    BY <1>3, <2>1, <2>2 DEF CompletedStep, PassSoFar
  <2> QED
    BY <1>3, <2>3, <2>4, <2>5
       DEF CompletedStep, PassesSoFar, OccupiedRight, EntriesSoFar
<1>4. CASE ConditioningStep
  <2>1. i' - 1 = i /\ i \in 1..Len(list)
    BY <1>1, <1>4 DEF ConditioningStep, Typed
  <2>2. IsDict(conditioning') /\ PassSoFar("conditioning", conditioning', i)
    <3>1. conditioning' = IF list[i].status = "conditioning"
                               /\ SlotClaim(list[i]) # NoSlot
                          THEN PickByRecency(conditioning, SlotClaim(list[i]), i)
                          ELSE conditioning
      BY <1>4 DEF ConditioningStep
    <3> QED
      BY <1>4, <2>1, <3>1, PassFolds DEF ConditioningStep, Typed, PassesSoFar
  <2>3. Typed'
    BY <1>1, <1>4, <2>1, <2>2 DEF ConditioningStep, Typed, IsDict
  <2>4. DesiredSoFar'
    BY <1>4 DEF ConditioningStep, DesiredSoFar, Seen
  <2>5. /\ PassSoFar("completed", completed, Len(list))'
        /\ PassSoFar("conditioning", conditioning, i - 1)'
    BY <1>4, <2>1, <2>2 DEF ConditioningStep, PassSoFar, PassesSoFar
  <2> QED
    BY <1>4, <2>3, <2>4, <2>5
       DEF ConditioningStep, PassesSoFar, OccupiedRight, EntriesSoFar
<1>5. CASE MergePasses
  <2>1. occupied' = Occupancy(list, manual)
    BY <1>5, MergeIsOccupancy DEF MergePasses, Typed, PassesSoFar
  <2>2. Typed' /\ DesiredSoFar'
    BY <1>1, <1>5 DEF MergePasses, Typed, IsDict, DesiredSoFar, Seen
  <2>3. EntriesSoFar'
    BY <1>5 DEF MergePasses, EntriesSoFar, EntriesUpTo
  <2> QED
    BY <1>5, <2>1, <2>2, <2>3 DEF MergePasses, PassesSoFar, OccupiedRight
<1>6. CASE UpcomingStep
  <2>1. i' - 1 = i
    BY <1>1, <1>6 DEF UpcomingStep
  <2>2. entries' = EntriesUpTo(i)
    BY <1>6, EntriesGrow DEF UpcomingStep, Typed, EntriesSoFar
  <2>3. Typed' /\ DesiredSoFar'
    BY <1>1, <1>6 DEF UpcomingStep, Typed, IsDict, DesiredSoFar, Seen
  <2>4. EntriesSoFar'
    BY <1>6, <2>1, <2>2 DEF UpcomingStep, EntriesSoFar, EntriesUpTo
  <2> QED
    BY <1>6, <2>3, <2>4 DEF UpcomingStep, PassesSoFar, OccupiedRight
<1>7. CASE LoopEnds
  <2>1. i - 1 = Len(list)
    BY <1>1, <1>7 DEF LoopEnds
  <2>2. \/ pc = "desired" /\ pc' = "completed"
        \/ pc = "completed" /\ pc' = "conditioning"
        \/ pc = "conditioning" /\ pc' = "merge"
        \/ pc = "upcoming" /\ pc' = "done"
    BY <1>7 DEF LoopEnds
  <2>3. Typed' /\ DesiredSoFar'
    BY <1>1, <1>7, <2>1, <2>2
       DEF LoopEnds, Typed, IsDict, DesiredSoFar, Seen
  <2>4. PassesSoFar'
    <3>1. PassSoFar("completed", Empty, 0) /\ PassSoFar("conditioning", Empty, 0)
      BY DEF PassSoFar, PassSlots, PassClaimants, Claimants, Empty
    <3>2. UNCHANGED <<list, completed, conditioning>> /\ i' - 1 = 0
      BY <1>7 DEF LoopEnds
    <3> QED
      BY <2>1, <2>2, <3>1, <3>2 DEF PassesSoFar, PassSoFar
  <2>5. OccupiedRight' /\ EntriesSoFar'
    BY <1>7, <2>1, <2>2 DEF LoopEnds, OccupiedRight, EntriesSoFar, EntriesUpTo
  <2> QED
    BY <2>3, <2>4, <2>5
<1>8. CASE UNCHANGED vars
  BY <1>8 DEF vars, Typed, IsDict, DesiredSoFar, Seen, PassesSoFar, PassSoFar,
              OccupiedRight, EntriesSoFar, EntriesUpTo
<1> QED
  BY <1>2, <1>3, <1>4, <1>5, <1>6, <1>7, <1>8 DEF Next

LEMMA LoopsInvariant == Spec => []LoopInv
<1> QED
  BY LoopInit, LoopStep, PTL DEF Spec

-----------------------------------------------------------------------------
(* desired_map and resolve_occupancy compute their references, and hold    *)
(* them after every turn for the Batches seen: whatever the order of the   *)
(* listing, no loser is left on a Slot.                                    *)
THEOREM LoopsCorrect == Spec => []LoopsComputeReference
<1>1. LoopInv => LoopsComputeReference
  <2> SUFFICES ASSUME LoopInv PROVE LoopsComputeReference
    OBVIOUS
  <2>1. pc # "desired" => desired = DesiredMap(list)
    BY DesiredIsReference DEF LoopInv, Typed, DesiredSoFar, Seen
  <2> QED
    BY <2>1 DEF LoopInv, LoopsComputeReference, DesiredMapRight, OccupancyRight,
                PassesSoFar, OccupiedRight
<1> QED
  BY <1>1, LoopsInvariant, PTL

(* No claim falls between pouring and teasing in upcoming_beers.           *)
THEOREM ClaimsAnswered == Spec => []EveryClaimAnswered
<1>1. LoopInv => EveryClaimAnswered
  <2> SUFFICES ASSUME LoopInv, pc = "done" PROVE EveryClaimAnswered
    BY DEF EveryClaimAnswered
  <2>1. entries = EntriesUpTo(Len(list))
    BY DEF LoopInv, EntriesSoFar
  <2>2. entries = UpcomingBeers(list, occupied)
    BY <2>1 DEF EntriesUpTo, UpcomingBeers
  <2>3. ASSUME NEW k \in 1..Len(list), SlotClaim(list[k]) # NoSlot
        PROVE  (\E e \in entries : e.batch = k)
                 <=> /\ ~(SlotClaim(list[k]) \in DOMAIN occupied
                            /\ occupied[SlotClaim(list[k])] = k)
                     /\ list[k].status # "completed"
    <3> DEFINE teased(j) == LET s == SlotClaim(list[j]) IN
                            IF s = NoSlot THEN list[j].teaser
                            ELSE /\ list[j].status # "completed"
                                 /\ ~(s \in DOMAIN occupied /\ occupied[s] = j)
               entry(j)  == [batch |-> j, slot |-> SlotClaim(list[j])]
    <3>1. entries = {entry(j) : j \in {m \in 1..Len(list) : teased(m)}}
      BY <2>1 DEF EntriesUpTo
    <3>2. \A j : entry(j).batch = j
      OBVIOUS
    <3>3. teased(k) <=> /\ ~(SlotClaim(list[k]) \in DOMAIN occupied
                               /\ occupied[SlotClaim(list[k])] = k)
                        /\ list[k].status # "completed"
      BY <2>3
    <3> HIDE DEF teased, entry
    <3>4. (\E e \in entries : e.batch = k) <=> teased(k)
      BY <3>1, <3>2
    <3> QED
      BY <3>3, <3>4
  <2> QED
    BY <2>2, <2>3 DEF EveryClaimAnswered
<1> QED
  BY <1>1, LoopsInvariant, PTL

(* The Batch of the Occupancy pass is the one desired_map pours there,     *)
(* unless status and revision tie.                                         *)
THEOREM RulesAgree == Spec => []OccupantPours
<1>1. LoopInv => OccupantPours
  <2> SUFFICES ASSUME LoopInv, pc = "done", NEW s \in DOMAIN occupied,
                      desired[s] # occupied[s]
               PROVE  /\ list[desired[s]].status = list[occupied[s]].status
                      /\ list[desired[s]].rev = list[occupied[s]].rev
    BY DEF OccupantPours
  <2> DEFINE n == Len(list)
             d == desired[s]
             o == occupied[s]
             finished == s \in PassSlots(list, n, "completed")
             st == IF finished THEN "completed" ELSE "conditioning"
  <2>1. IsListing(list) /\ n \in 0..n
    BY ListFacts DEF LoopInv, Typed
  <2>2. /\ s \in OccupiedSlots(list, manual)
        /\ o = CHOOSE k \in 1..n : WinsPass(list, n, s, st, k)
    BY DEF LoopInv, OccupiedRight, Occupancy
  <2>3. s \in Slots /\ s \in PassSlots(list, n, st)
    BY <2>2 DEF OccupiedSlots, PassSlots
  <2>4. WinsPass(list, n, s, st, o)
    <3>1. PICK w : WinsPass(list, n, s, st, w)
      BY <2>1, <2>3, PassWinnerExists
    <3>2. w \in 1..n
      BY <3>1 DEF WinsPass, PassClaimants, Claimants
    <3> HIDE DEF st, n, o
    <3> QED
      BY <2>2, <3>1, <3>2
  <2>5. s \in DOMAIN desired /\ Wins(list, n, s, d)
    BY <2>3 DEF LoopInv, DesiredSoFar, Seen, ClaimedSlots, PassSlots, PassClaimants
  <2>6. /\ d \in 1..n /\ o \in 1..n
        /\ SlotClaim(list[d]) = s /\ SlotClaim(list[o]) = s
        /\ list[o].status = st
    BY <2>4, <2>5 DEF WinsPass, PassClaimants, Wins, Claimants
  <2>7. Beats(list, d, o)
    BY <2>4, <2>5 DEF Wins, WinsPass, PassClaimants
  <2>8. /\ list[d].rev \in Nat /\ list[o].rev \in Nat
        /\ list[d].status \in Statuses
    BY <2>1, <2>6 DEF IsListing
  <2>9. list[d].status = st
    <3>1. list[d].status = "completed" => finished
      BY <2>3, <2>6 DEF PassSlots, PassClaimants, Claimants
    <3>2. StatusRank(list[d].status) <= StatusRank(st)
      <4>1. /\ StatusRank(list[d].status) \in 0..5
            /\ StatusRank(list[o].status) \in 0..5
        BY <2>1, <2>6, RankType DEF IsListing
      <4> QED
        BY <2>6, <2>7, <4>1 DEF Beats
    <3> QED
      BY <2>8, <3>1, <3>2 DEF Statuses, StatusRank
  <2>10. Fresher(list, o, d)
    BY <2>4, <2>5, <2>9 DEF Wins, WinsPass, PassClaimants
  <2>11. /\ list[d].status = list[o].status
         /\ StatusRank(list[d].status) \in 0..5
    BY <2>6, <2>8, <2>9, RankType
  <2>12. list[d].rev >= list[o].rev
    BY <2>7, <2>8, <2>11 DEF Beats
  <2>13. list[o].rev >= list[d].rev
    BY <2>8, <2>10 DEF Fresher
  <2> QED
    BY <2>8, <2>11, <2>12, <2>13
<1> QED
  BY <1>1, LoopsInvariant, PTL
=============================================================================
