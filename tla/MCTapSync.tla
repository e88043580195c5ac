----------------------------- MODULE MCTapSync -----------------------------
(* A small instance of TapSync: how often each kind of mishap may happen.  *)
EXTENDS TapSync, TLC

AnyHurt == [kind \in Mishaps |-> 1]

(* The default Settings fetch Completed only.                              *)
Completed == <<"completed">>
=============================================================================
