---------------------------- MODULE MCStatusFile ----------------------------
(* Small instances of StatusFile: how often each outside event happens.    *)
EXTENDS StatusFile

AnyHurt == [[m \in Mishaps |-> 1] EXCEPT !["key"] = 2]
=============================================================================
