--------------------------- MODULE MCDataIdentity ---------------------------
(* A small instance of DataIdentity: how often each outside event happens. *)
EXTENDS DataIdentity

AnyHurt == [[m \in Mishaps |-> 1] EXCEPT !["mount"] = 2]
=============================================================================
