----------------------------- MODULE MCSyncGate -----------------------------
(* A small instance of SyncGate: how often each outside event happens.     *)
EXTENDS SyncGate

AnyHurt == [[kind \in Mishaps |-> 1] EXCEPT !["save"] = 2, !["cloud"] = 2]
=============================================================================
