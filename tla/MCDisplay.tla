----------------------------- MODULE MCDisplay -----------------------------
(* A TV moved between six states of a server, picked so that they share    *)
(* layouts, photos and teasers and differ in what the TV must react to.     *)
EXTENDS Display

Beer == [tap \in 1..2 |-> "beer"]

Photo(id, album, portrait, copy) ==
    [id |-> id, album |-> album, portrait |-> portrait, copy |-> copy]

Teaser(id, slot, rank, rev) == [id |-> id, slot |-> slot, rank |-> rank, rev |-> rev]

\* Two taps pour, two photos are upright, one photo has no Display copy yet.
Base ==
    [num_taps |-> 2, hide_vacant |-> FALSE, paginate |-> FALSE, page_size |-> 6,
     show_upcoming |-> FALSE, cap |-> 3, rotate |-> TRUE, scope |-> "overflow",
     deck |-> FALSE, panel |-> FALSE, multiple |-> 2, interval |-> 20,
     manual |-> 2 :> "house", brewfather |-> Beer, entries |-> {},
     album_enabled |-> FALSE, album_selection |-> AllAlbums, order |-> "shuffle",
     every_turns |-> 1, photos_per_visit |-> 2, pair |-> TRUE, three_up |-> FALSE,
     library |-> <<Photo(1, "x", TRUE, TRUE), Photo(2, "x", TRUE, TRUE),
                   Photo(3, "y", FALSE, TRUE), Photo(4, "y", TRUE, FALSE)>>]

\* Two tap pages, an on-deck page and, every second turn, a visit.
Turns ==
    [Base EXCEPT !.num_taps = 3, !.paginate = TRUE, !.page_size = 2,
        !.show_upcoming = TRUE, !.deck = TRUE, !.cap = 2, !.every_turns = 2,
        !.brewfather = [tap \in 1..3 |-> "beer"],
        !.entries = {Teaser(1, 1, 0, 2), Teaser(2, 9, 1, 1), Teaser(3, 2, 2, 1)},
        !.album_enabled = TRUE]

\* Slot 3 is Vacant and hidden, but two Batches are pinned to it; no cap is left for
\* the rest; one album is picked.
Vacants ==
    [Turns EXCEPT !.hide_vacant = TRUE, !.brewfather = Beer, !.cap = 0, !.scope = "all",
        !.interval = 5, !.album_selection = {"x"},
        !.entries = {Teaser(1, 3, 0, 2), Teaser(3, 3, 0, 1), Teaser(2, 9, 0, 3)}]

\* One page; two Batches share an occupied Slot, ten more have none: two too many for
\* the panel, one of them too many for the cap.
Shared ==
    [Base EXCEPT !.show_upcoming = TRUE, !.panel = TRUE, !.cap = 11,
        !.entries = {Teaser(1, 1, 0, 2), Teaser(3, 1, 0, 1), Teaser(2, 9, 1, 1)}
                    \cup {Teaser(id, 9, 2, 1) : id \in 4..12}]

\* The same at the shortest interval.
Faster == [Shared EXCEPT !.interval = 5]

\* Photos only, in Name order, up to three portraits to a page.
Frame == [Base EXCEPT !.album_enabled = TRUE, !.every_turns = 0, !.order = "name", !.three_up = TRUE]

\* Visits in Name order, one photo to a page, over the same taps as Turns.
Named == [Turns EXCEPT !.order = "name", !.pair = FALSE]

MCServer ==
    [turns |-> Turns, named |-> Named, vacants |-> Vacants,
     shared |-> Shared, faster |-> Faster, frame |-> Frame]
=============================================================================
