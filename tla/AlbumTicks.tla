----------------------------- MODULE AlbumTicks -----------------------------
(***************************************************************************)
(* What ticking an album promises, with no names in it: a Screen shows     *)
(* albums.  Albums.tla, where a tick is a folder name in config.json,      *)
(* implements this specification.  A rename is not visible here at all,    *)
(* except that a name may have been ticked before an album took it.        *)
(***************************************************************************)
EXTENDS Naturals

CONSTANTS Albums,  \* every album there ever is
          Screens  \* the Default profile and the named ones

VARIABLES live,    \* the albums that exist
          shown,   \* what each Screen shows of them
          faults   \* crashes and failed writes so far

vars == <<live, shown, faults>>

Init == live \in SUBSET Albums /\ shown \in [Screens -> SUBSET live] /\ faults = 0

\* One album is shown on more Screens than before, and nothing else changes.
Gains(a) ==
    \A s \in Screens : shown'[s] \in {shown[s], shown[s] \union {a}}

\* A new album starts with the Screens whose ticks already name it.
Appears(a) ==
    /\ a \in Albums \ live
    /\ live' = live \union {a} /\ shown' \in [Screens -> SUBSET live'] /\ Gains(a)
    /\ UNCHANGED faults

Disappears(a) ==
    /\ a \in live
    /\ live' = live \ {a} /\ shown' = [s \in Screens |-> shown[s] \ {a}]
    /\ UNCHANGED faults

\* A rename onto a name that was ticked already.
TakesTickedName(a) ==
    /\ a \in live /\ shown' \in [Screens -> SUBSET live] /\ Gains(a)
    /\ UNCHANGED <<live, faults>>

\* The operator saves what one Screen shows.
Chooses(s) ==
    /\ \E chosen \in SUBSET live : shown' = [shown EXCEPT ![s] = chosen]
    /\ UNCHANGED <<live, faults>>

\* Only a fault takes a tick away unasked, and one album's ticks at most are disturbed.
Fault ==
    /\ faults' = faults + 1
    /\ \/ UNCHANGED shown
       \/ /\ shown' \in [Screens -> SUBSET live]
          /\ \E a \in live : \A s \in Screens : shown'[s] \ {a} = shown[s] \ {a}
    /\ UNCHANGED live

Next ==
    \/ \E a \in Albums : Appears(a) \/ Disappears(a) \/ TakesTickedName(a)
    \/ \E s \in Screens : Chooses(s)
    \/ Fault

Spec == Init /\ [][Next]_vars
=============================================================================
