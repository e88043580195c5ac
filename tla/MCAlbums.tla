------------------------------ MODULE MCAlbums ------------------------------
(* Three names, two Screens and two photos; the Default profile is a Screen. *)
EXTENDS Albums, TLC

CONSTANTS default, tv, n1, n2, n3, p1, p2

Symmetry == Permutations(Photos) \union Permutations(Names \ {FIRST})
=============================================================================
