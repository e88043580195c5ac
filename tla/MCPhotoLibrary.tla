--------------------------- MODULE MCPhotoLibrary ---------------------------
(* Small instances of PhotoLibrary: two places in one album and one in     *)
(* another, what is there at the start, and how often each kind of event   *)
(* happens.                                                                *)
EXTENDS PhotoLibrary

CONSTANTS c1, c2

TwoAlbums == <<"Unsorted", "Unsorted", "Bar">>
SomeDisks == {<<c1, None, None>>, <<c2, None, c1>>, <<c1, None, c1>>, <<c1, c2, None>>}
Once      == [e \in Events |-> 1]
=============================================================================
