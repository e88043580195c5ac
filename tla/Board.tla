------------------------------- MODULE Board -------------------------------
(***************************************************************************)
(* The board payload a screen polls (board.py): what the Tap files, the    *)
(* Upcoming store, the ready photos and the screen's effective settings    *)
(* resolve to.  It is a function of them; nothing is kept between polls.   *)
(*                                                                         *)
(* A state of the server is a record:                                      *)
(*   num_taps, hide_vacant, paginate, page_size, show_upcoming, cap,       *)
(*   rotate, scope, deck, panel, multiple, interval, album_enabled,        *)
(*   album_selection, order, every_turns, photos_per_visit, pair, three_up *)
(*                           the screen's effective settings               *)
(*   manual, brewfather      the Tap files: Slot -> what the file holds    *)
(*   entries                 the Upcoming store: a set of records          *)
(*                           [id, slot, rank, rev], rank the status's      *)
(*   library                 the photo index in file-name order: records   *)
(*                           [id, album, portrait, copy], copy whether its *)
(*                           Display copy is recorded and on disk          *)
(* Names, colours, Attributes and their Visibility are left out.           *)
(***************************************************************************)
EXTENDS Integers, Sequences, FiniteSets, SequencesExt

CONSTANT AllAlbums

NoSlot == 0
NoAlbum == [on |-> FALSE, order |-> "none", photos |-> <<>>]
Vacant == "vacant"

\* S in the order of Precedes: the k-th element has k - 1 others before it.
Sorted(S, Precedes(_, _)) ==
    [k \in 1..Cardinality(S) |->
        CHOOSE e \in S : Cardinality({x \in S : Precedes(x, e)}) = k - 1]

Less(i, j) == i < j

\* What stands at some of the positions of a sequence, in its order.
At(seq, positions) ==
    LET p == Sorted(positions, Less) IN [k \in DOMAIN p |-> seq[p[k]]]

\* resolve_tap: Manual before Brewfather; a file that cannot be read still holds its Slot.
ResolveTap(srv, tap) ==
    IF tap \in DOMAIN srv.manual THEN srv.manual[tap]
    ELSE IF tap \in DOMAIN srv.brewfather THEN srv.brewfather[tap] ELSE Vacant

\* _slot_and_pinned: a Slot beyond the tap count is none.
SlotOf(srv, e) == IF e.slot \in 1..srv.num_taps THEN e.slot ELSE NoSlot
Pinned(srv, e) == SlotOf(srv, e) # NoSlot /\ ResolveTap(srv, SlotOf(srv, e)) = Vacant

\* The sort key of _order_upcoming.
Before(a, b) ==
    \/ a.rank < b.rank
    \/ a.rank = b.rank /\ a.rev > b.rev
    \/ a.rank = b.rank /\ a.rev = b.rev /\ a.id < b.id

UnpinnedBefore(srv, e) == {x \in srv.entries : ~Pinned(srv, x) /\ Before(x, e)}

OrderUpcoming(srv) ==
    Sorted({e \in srv.entries :
              Pinned(srv, e) \/ Cardinality(UnpinnedBefore(srv, e)) < srv.cap}, Before)

\* resolve_upcoming
ResolveUpcoming(srv, e) ==
    LET slot      == SlotOf(srv, e)
        pinned    == Pinned(srv, e)
        crossFade == slot # NoSlot /\ ~pinned /\ srv.rotate
    IN [id |-> e.id, slot |-> slot, pinned |-> pinned, cross_fade |-> crossFade,
        on_surfaces |-> srv.scope = "all" \/ (~pinned /\ ~crossFade)]

Upcoming(srv) ==
    IF ~srv.show_upcoming THEN <<>>
    ELSE LET kept == OrderUpcoming(srv)
         IN [i \in DOMAIN kept |-> ResolveUpcoming(srv, kept[i])]

\* Mutant: hide_vacant_taps hides a Vacant Slot whatever is pinned to it.
HiddenRegardless(srv, upcoming, tap) == ResolveTap(srv, tap) = Vacant /\ srv.hide_vacant

\* A Vacant Slot with something pinned to it is not hidden.
Hidden(srv, upcoming, tap) ==
    /\ ResolveTap(srv, tap) = Vacant /\ srv.hide_vacant
    /\ \A i \in DOMAIN upcoming : ~(upcoming[i].pinned /\ upcoming[i].slot = tap)

\* ready_photos: the selected photos with a Display copy (Shuffle sends them in
\* name order too); Date order is Name order of other keys and is left out.
ReadyPhotos(srv) ==
    SelectSeq(srv.library,
        LAMBDA p : p.copy /\ (srv.album_selection = AllAlbums \/ p.album \in srv.album_selection))

\* resolve_album: the visit plan and the ready photos; no album, no part.  room is
\* how many portraits may share a page.
ResolveAlbum(srv) ==
    IF ~srv.album_enabled THEN NoAlbum
    ELSE [on |-> TRUE, order |-> srv.order, every_turns |-> srv.every_turns,
          photos_per_visit |-> srv.photos_per_visit,
          room |-> IF ~srv.pair THEN 1 ELSE IF srv.three_up THEN 3 ELSE 2,
          photos |-> ReadyPhotos(srv)]

BuildBoard(srv) ==
    LET upcoming == Upcoming(srv) IN
    [taps      |-> [tap \in 1..srv.num_taps |->
                      [beer |-> ResolveTap(srv, tap), hidden |-> Hidden(srv, upcoming, tap)]],
     upcoming  |-> upcoming,
     deck      |-> srv.show_upcoming /\ srv.deck,
     panel     |-> srv.show_upcoming /\ srv.panel,
     multiple  |-> srv.multiple,
     interval  |-> srv.interval,
     paginate  |-> srv.paginate,
     page_size |-> srv.page_size,
     album     |-> ResolveAlbum(srv)]
=============================================================================
