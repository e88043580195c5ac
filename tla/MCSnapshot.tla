----------------------------- MODULE MCSnapshot -----------------------------
(* One Slot, one Batch, two browsers.  One Snapshot is sound and carries   *)
(* an override with its photo, a Brewfather Tap without, and a placeholder;*)
(* the other is damaged.                                                   *)
EXTENDS Snapshot, TLC

CONSTANTS m1

Symmetry == Permutations(Browsers)

Conditioning == <<"completed", "conditioning">>

Hurt == [kind \in Mishaps |-> IF kind \in {"disk", "unlink", "hand", "crash"} THEN 1 ELSE 0]

Member(source, part) == [source |-> source, slot |-> 1, part |-> part]

Sound ==
  [files |-> Member("manual", 0) :> [id |-> m1, rev |-> 0]
          @@ Member("manual", 2) :> [id |-> m1, rev |-> 0]
          @@ Member("brewfather", 0) :> [id |-> 1, rev |-> 0],
   root |-> {2}, sound |-> TRUE]

MCUploads == {Sound, [Sound EXCEPT !.sound = FALSE]}
=============================================================================
