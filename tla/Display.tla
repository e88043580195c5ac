------------------------------ MODULE Display ------------------------------
(***************************************************************************)
(* A TV: static/js/display.js polling the board that board.py builds.      *)
(*                                                                         *)
(* The server is in one of the states Server[s]; it moves between them     *)
(* freely (an admin save, a sync, an edited file).  The TV is one page in  *)
(* a browser, single-threaded: each timer callback, click and finished     *)
(* load is one step, and each is an operator from the TV's state to the    *)
(* set of states it may leave (the shuffle is random).                     *)
(*                                                                         *)
(* The TV's state is the record tv:                                        *)
(*   shown       state.lastBoard, as ViewOf reads it (NoBoard: none yet)   *)
(*   page        state.currentPage, counted from 1                         *)
(*   overlays    crossFadeOverlays: Slot -> the teaser over it             *)
(*   panel, busy whether the half-board panel is up; upcomingBusy          *)
(*   held        the interval the running hold was derived from, or 0      *)
(*   ticks, turn panelTickCounter and crossFadeTurn, mod CYCLE             *)
(*   feed        album.cfg, album.photos and album.orderKey: an album block*)
(*   pending     album.pendingBoard, or NoBoard                            *)
(*   visiting, plan, turnsShown, shownInVisit, queue, passShown, lastId,   *)
(*   pos, failures, stalled    the fields of `album`; a visit's plan is    *)
(*               forgotten when it ends, and the counters stop at MAX_     *)
(*   loading     the spread whose images are being loaded, or {}           *)
(* The order of the shuffled queue is random wherever it is built or       *)
(* extended, so queue is a set and the next photo any member.              *)
(*                                                                         *)
(* A hold and the half second of its fade are one step (HoldEnds).         *)
(***************************************************************************)
EXTENDS Board

CONSTANTS Server,       \* scene -> server state, as Board.tla describes it
          NoPhoto,
          CYCLE,        \* a common multiple of what ticks and turn are divided by
          MAX_TURNS, MAX_SHOWN, MAX_FAILED  \* no comparison tells larger values apart

MAX_CARDS_PER_PAGE == 8
Scenes == DOMAIN Server

\* The 1.5 s floor and the 500 ms fade fit in the shortest interval, so a hold of
\* 58 % of its own interval is over before the next tick of that interval.
ASSUME IntervalAssumption ==
    \A s \in Scenes : Server[s].interval \in 5..300 /\ 1500 + 500 < 1000 * Server[s].interval

\* What the Settings' bounds allow; the Upcoming store writes one file per Batch.
ASSUME ServerAssumption ==
    \A s \in Scenes :
        /\ Server[s].num_taps \in Nat /\ Server[s].page_size \in Nat \ {0}
        /\ Server[s].cap \in Nat /\ IsFiniteSet(Server[s].entries)
        /\ \A e \in Server[s].entries : e.id \in Int /\ e.rank \in Int /\ e.rev \in Int
        /\ \A e, f \in Server[s].entries : e.id = f.id => e = f

ASSUME CycleAssumption == \A s \in Scenes : CYCLE % Server[s].multiple = 0

VARIABLES server, tv
vars == <<server, tv>>

-----------------------------------------------------------------------------
(* What display.js reads off a board.                                      *)

Chunk(seq, size) ==
    [i \in 1..((Len(seq) + size - 1) \div size) |->
        SubSeq(seq, (i - 1) * size + 1, IF i * size < Len(seq) THEN i * size ELSE Len(seq))]

PageSize(b) ==
    IF b.paginate /\ b.page_size < MAX_CARDS_PER_PAGE THEN b.page_size ELSE MAX_CARDS_PER_PAGE

VisibleTaps(b) == Sorted({i \in DOMAIN b.taps : ~b.taps[i].hidden}, Less)

\* A board with no visible tap has one page with no taps.
TapPages(b) ==
    IF VisibleTaps(b) = <<>> THEN << <<>> >> ELSE Chunk(VisibleTaps(b), PageSize(b))

OverflowTeasers(b) ==
    At(b.upcoming, {i \in DOMAIN b.upcoming : b.upcoming[i].on_surfaces})
DeckTeasers(b) == IF b.deck THEN OverflowTeasers(b) ELSE <<>>
PanelTeasers(b) == IF b.panel THEN OverflowTeasers(b) ELSE <<>>

\* A surface draws the head of its list, teasers.slice(0, MAX_CARDS_PER_PAGE): whose.
CardsOf(teasers) == {teasers[i].id : i \in DOMAIN teasers \cap 1..MAX_CARDS_PER_PAGE}

\* teasers.length > 0
Some(teasers) == DOMAIN teasers # {}

\* The first teaser pinned to a Slot wins the Slot's one card.
PinnedTeasersBySlot(b) ==
    LET Pins(slot) == {i \in DOMAIN b.upcoming : b.upcoming[i].pinned /\ b.upcoming[i].slot = slot}
    IN [slot \in {n \in DOMAIN b.taps : Pins(n) # {}} |-> b.upcoming[Min(Pins(slot))].id]

CrossFadeCandidates(b, slot) ==
    At(b.upcoming, {i \in DOMAIN b.upcoming : b.upcoming[i].cross_fade /\ b.upcoming[i].slot = slot})

\* Everything the page keeps of a board: fullRender builds it anew when the key changed.
ViewOf(b) ==
    LET deck == DeckTeasers(b) IN
    [pages    |-> IF Some(deck) THEN Append(TapPages(b), <<>>) ELSE TapPages(b),
     deckPage |-> IF Some(deck) THEN Len(TapPages(b)) + 1 ELSE 0,
     panelEl  |-> Some(PanelTeasers(b)),
     cards    |-> CardsOf(deck) \cup CardsOf(PanelTeasers(b)),
     pinned   |-> PinnedTeasersBySlot(b),
     fades    |-> [slot \in DOMAIN b.taps |-> CrossFadeCandidates(b, slot)],
     key      |-> <<TapPages(b), b.paginate, b.page_size,
                    [i \in DOMAIN deck |-> deck[i].id],
                    [i \in DOMAIN PanelTeasers(b) |-> PanelTeasers(b)[i].id]>>,
     multiple |-> b.multiple, interval |-> b.interval, album |-> b.album]

\* The settings of a page that has not had a board yet.
NoBoard ==
    [pages |-> <<>>, deckPage |-> 0, panelEl |-> FALSE, cards |-> {}, pinned |-> <<>>, fades |-> <<>>,
     key |-> <<>>, multiple |-> 2, interval |-> 20, album |-> NoAlbum]

\* What a screen that polls in a scene comes to keep.
View == [s \in Scenes |-> ViewOf(BuildBoard(Server[s]))]

Photos(t) == t.feed.photos
PhotoIds(t) == {Photos(t)[i].id : i \in DOMAIN Photos(t)}
Portraits(t) == {Photos(t)[i].id : i \in {j \in DOMAIN Photos(t) : Photos(t)[j].portrait}}

\* albumPlan: the plan, only while there is something to show.
AlbumPlan(t) == t.feed.on /\ Photos(t) # <<>>

UpTo(n, max) == IF n < max THEN n ELSE max

\* One thing after another: every outcome of the first, continued.
Then(outcomes, Continue(_)) == UNION {Continue(t) : t \in outcomes}

-----------------------------------------------------------------------------
(* The upcoming surfaces.                                                  *)

CrossFadeForceEnd(t) == [t EXCEPT !.overlays = <<>>, !.busy = FALSE, !.held = 0]

PanelHide(t) == IF t.panel THEN [t EXCEPT !.panel = FALSE, !.busy = FALSE, !.held = 0] ELSE t

\* Mutant: turning the page leaves the overlays where they are.
ShowPageUnguarded(t, i) ==
    IF i = t.shown.deckPage THEN PanelHide([t EXCEPT !.page = i]) ELSE [t EXCEPT !.page = i]

ShowPage(t, i) ==
    LET turned == [t EXCEPT !.page = i]
        clear  == IF DOMAIN t.overlays \subseteq ToSet(t.shown.pages[i])
                  THEN turned ELSE CrossFadeForceEnd(turned)
    IN IF i = t.shown.deckPage THEN PanelHide(clear) ELSE clear

NextPageOf(t) == (t.page % Len(t.shown.pages)) + 1

PanelTick(t) ==
    LET v    == t.shown
        tick == [t EXCEPT !.ticks = (@ + 1) % CYCLE]
    IN IF /\ v.panelEl /\ tick.ticks % v.multiple = 0
          /\ ~t.busy
          /\ t.page # v.deckPage
       THEN [tick EXCEPT !.busy = TRUE, !.panel = TRUE, !.held = v.interval]
       ELSE tick

\* Every bound Slot of the active page gets its overlay in the same turn.
CrossFadeTick(t) ==
    LET v     == t.shown
        slots == IF v.pages = <<>> THEN {}
                 ELSE {slot \in ToSet(v.pages[t.page]) : v.fades[slot] # <<>>}
    IN IF t.busy \/ slots = {} THEN t
       ELSE [t EXCEPT !.turn = (@ + 1) % CYCLE, !.busy = TRUE, !.held = v.interval,
               !.overlays = [slot \in slots |->
                               v.fades[slot][(t.turn % Len(v.fades[slot])) + 1].id]]

\* Mutant: the cross-fade is served before the panel.
UpcomingTurnFadesFirst(t) == PanelTick(CrossFadeTick(t))

\* upcomingTick: the panel first, or the cross-fade would take its every turn.
UpcomingTurn(t) == CrossFadeTick(PanelTick(t))

-----------------------------------------------------------------------------
(* The photos of a visit.                                                  *)

\* Only portraits share a page.
Most(t, first, budget) == IF first \in Portraits(t) THEN UpTo(t.plan.room, budget) ELSE 1

\* Mutant: a portrait's partners stay in the queue.
UsedUpFirst(first, partners) == {first}

\* What a spread takes out of the rest of the pass.
UsedUp(first, partners) == {first} \cup partners

\* nextPhoto and takeSpread, Shuffle: any queued photo, then as many of the queued
\* portraits as it may share with.  An empty queue starts a new pass, and not with
\* the photo shown last.
ShuffledSpread(t, budget) ==
    LET new    == t.queue = {}
        queue  == IF new THEN PhotoIds(t) ELSE t.queue
        firsts == IF new /\ Cardinality(queue) > 1 THEN queue \ {t.lastId} ELSE queue
        Partners(first) ==
            LET others == (queue \cap Portraits(t)) \ {first}
            IN kSubset(UpTo(Most(t, first, budget) - 1, Cardinality(others)), others)
        Spread(first, partners, last) ==
            [t EXCEPT !.loading   = {first} \cup partners,
                      !.queue     = queue \ UsedUp(first, partners),
                      !.passShown = (IF new THEN {} ELSE @) \cup {first} \cup partners,
                      !.lastId    = last]
    IN UNION {UNION {{Spread(first, partners, last) :
                        last \in IF partners = {} THEN {first} ELSE partners} :
                     partners \in Partners(first)} : first \in firsts}

\* nextPhoto and takeSpread, Name order: the next in the list, which starts over at
\* its end, and the portraits that follow it directly.
OrderedSpread(t, budget) ==
    LET photos == Photos(t)
        at     == {i \in DOMAIN photos : photos[i].id = t.lastId}
        start  == (IF at # {} THEN CHOOSE i \in at : TRUE ELSE t.pos) % Len(photos)
        Nth(k) == ((start + k) % Len(photos)) + 1           \* the k-th from the start
        most   == UpTo(Most(t, photos[Nth(0)].id, budget), Len(photos))
        count  == CHOOSE n \in 1..most :
                    /\ \A k \in 1..(n - 1) : photos[Nth(k)].portrait
                    /\ n < most => ~photos[Nth(n)].portrait
    IN [t EXCEPT !.loading = {photos[Nth(k)].id : k \in 0..(count - 1)},
                 !.lastId = photos[Nth(count - 1)].id, !.pos = Nth(count - 1)]

TakeSpread(t, budget) ==
    IF t.feed.order = "shuffle" THEN ShuffledSpread(t, budget) ELSE {OrderedSpread(t, budget)}

\* The photos this visit may still take; an endless visit has no such limit.
Endless(t) == t.plan.every_turns = 0
Left(t) == UpTo(t.plan.photos_per_visit, Len(Photos(t))) - t.shownInVisit
Budget(t) == IF Endless(t) THEN 3 ELSE Left(t)

NoPlan == [every_turns |-> 0, photos_per_visit |-> 0, room |-> 0]
PlanOf(album) == [every_turns |-> album.every_turns, photos_per_visit |-> album.photos_per_visit,
                  room |-> album.room]

\* startVisit, with the first showNextPhoto it calls: there is a photo to take.
StartVisit(t) ==
    LET visit == [t EXCEPT !.visiting = TRUE, !.plan = PlanOf(t.feed),
                           !.shownInVisit = 0, !.failures = 0]
    IN Then({PanelHide(CrossFadeForceEnd(visit))}, LAMBDA u : TakeSpread(u, Budget(u)))

MaybeStartPhotosOnly(t) ==
    IF /\ AlbumPlan(t) /\ t.feed.every_turns = 0
       /\ ~t.visiting /\ ~t.stalled /\ t.shown # NoBoard
    THEN StartVisit(t) ELSE {t}

FullRender(t) ==
    LET bare == PanelHide(CrossFadeForceEnd(t))
    IN ShowPage(bare, IF t.page > Len(t.shown.pages) THEN 1 ELSE t.page)

ApplyBoard(t, board) ==
    LET applied == [t EXCEPT !.shown = board]
        changed == t.shown = NoBoard \/ board.key # t.shown.key
    IN Then({IF changed THEN FullRender(applied) ELSE applied}, MaybeStartPhotosOnly)

\* Mutant: the board that arrived during the visit is dropped.
PendingLost(t) == {[t EXCEPT !.pending = NoBoard]}

\* endVisit's first half: the board that arrived during the visit shows now.
ApplyPending(t) ==
    IF t.pending = NoBoard THEN {t} ELSE ApplyBoard([t EXCEPT !.pending = NoBoard], t.pending)

EndVisit(t, returnToTaps) ==
    LET over    == [t EXCEPT !.visiting = FALSE, !.plan = NoPlan, !.loading = {}]
        Back(u) == LET counted == [u EXCEPT !.turnsShown = 1]
                   IN IF returnToTaps /\ Len(u.shown.pages) > 1
                      THEN {ShowPage(counted, NextPageOf(counted))} ELSE {counted}
    IN Then(Then(ApplyPending(over), Back), MaybeStartPhotosOnly)

ShowNextPhoto(t) ==
    IF ~AlbumPlan(t) \/ (~Endless(t) /\ Left(t) <= 0) THEN EndVisit(t, TRUE)
    ELSE TakeSpread(t, Budget(t))

\* The rest of the pass after a poll: gone photos have left it, new ones joined it.
Rest(t) == PhotoIds(t) \ t.passShown

\* albumUpdate: the album block of a poll.  Another order makes the old place void;
\* a visit whose photos have all gone ends.
AlbumUpdate(t, album) ==
    LET fed == [t EXCEPT !.feed = album, !.stalled = FALSE]
        Void(u) == IF u.feed.order = t.feed.order THEN {u}
                   ELSE {[u EXCEPT !.queue = {}, !.passShown = {}, !.lastId = NoPhoto, !.pos = 0]}
        Renew(u) == IF u.feed.order # "shuffle" THEN {u}
                    ELSE {[u EXCEPT !.queue = Rest(u), !.passShown = @ \cap PhotoIds(u)]}
        Settled(u) == IF u.visiting /\ ~AlbumPlan(u)
                      THEN EndVisit([u EXCEPT !.pending = NoBoard], FALSE) ELSE {u}
    IN Then(Then(Then({fed}, Void), Renew), Settled)

-----------------------------------------------------------------------------
(* The callbacks.                                                          *)

\* poll: a visit that will end keeps only the newest board for its end.
PollResult(t, board) ==
    Then(AlbumUpdate(t, board.album),
         LAMBDA u : IF u.visiting /\ ~Endless(u) /\ u.shown # NoBoard
                    THEN {[u EXCEPT !.pending = board]} ELSE ApplyBoard(u, board))

\* turnOrVisit and the turn itself, by the timer or by hand.
Turn(t) ==
    IF AlbumPlan(t) /\ t.feed.every_turns > 0 /\ t.turnsShown >= t.feed.every_turns
    THEN StartVisit(t)
    ELSE LET counted == [t EXCEPT !.turnsShown = UpTo(@ + 1, MAX_TURNS)]
         IN {IF Len(t.shown.pages) > 1 THEN ShowPage(counted, NextPageOf(counted))
             ELSE counted}

\* The images of the spread have settled; `good` of them loaded.
Settle(t, good) ==
    IF good # {}
    THEN {[t EXCEPT !.loading = {}, !.failures = 0,
                    !.shownInVisit = UpTo(@ + Cardinality(good), MAX_SHOWN)]}
    ELSE LET failed == [t EXCEPT !.failures = UpTo(@ + Cardinality(t.loading), MAX_FAILED)]
         IN IF failed.failures >= Len(Photos(t))
            THEN EndVisit([failed EXCEPT !.stalled = TRUE], TRUE) ELSE ShowNextPhoto(failed)

Boot ==
    [shown |-> NoBoard, page |-> 1, overlays |-> <<>>, panel |-> FALSE, busy |-> FALSE,
     held |-> 0, ticks |-> 0, turn |-> 0, feed |-> NoAlbum, pending |-> NoBoard,
     visiting |-> FALSE, plan |-> NoPlan, turnsShown |-> 1, shownInVisit |-> 0,
     queue |-> {}, passShown |-> {}, lastId |-> NoPhoto, pos |-> 0, failures |-> 0,
     stalled |-> FALSE, loading |-> {}]

Init == server \in Scenes /\ tv = Boot

ServerChanges == server' \in Scenes \ {server} /\ UNCHANGED tv

Poll == tv' \in PollResult(tv, View[server]) /\ UNCHANGED server

CarouselTick == ~tv.visiting /\ tv' \in Turn(tv) /\ UNCHANGED server

\* nextPage: Enter, a tap or a swipe.
NextPage ==
    /\ tv' \in IF tv.visiting THEN ShowNextPhoto(tv) ELSE Turn(tv)
    /\ UNCHANGED server

\* A dot, or prevPage's swipe back: neither can be reached under the photos.
GoToPage ==
    /\ ~tv.visiting
    /\ \E i \in DOMAIN tv.shown.pages \ {tv.page} : tv' = ShowPage(tv, i)
    /\ UNCHANGED server

\* A hold outlasts a tick only if the interval was shortened while it ran.
UpcomingTick ==
    /\ ~tv.visiting
    /\ tv.busy => tv.shown.interval < tv.held
    /\ tv' = UpcomingTurn(tv)
    /\ UNCHANGED server

HoldEnds ==
    /\ tv.overlays # <<>> \/ tv.panel
    /\ tv' = IF tv.panel THEN PanelHide(tv) ELSE CrossFadeForceEnd(tv)
    /\ UNCHANGED server

PhotoTimer ==
    /\ tv.visiting /\ tv.loading = {}
    /\ tv' \in ShowNextPhoto(tv)
    /\ UNCHANGED server

Loaded ==
    /\ tv.loading # {}
    /\ \E good \in SUBSET tv.loading : tv' \in Settle(tv, good)
    /\ UNCHANGED server

\* The page is loaded again: everything starts over.
Reload == tv' = Boot /\ UNCHANGED server

Next ==
    \/ ServerChanges \/ Poll \/ CarouselTick \/ NextPage \/ GoToPage \/ UpcomingTick
    \/ HoldEnds \/ PhotoTimer \/ Loaded \/ Reload

\* Timers fire, a poll comes round, an image loads or fails.
Spec ==
    /\ Init /\ [][Next]_vars
    /\ WF_vars(Poll) /\ WF_vars(CarouselTick) /\ WF_vars(UpcomingTick)
    /\ WF_vars(HoldEnds) /\ WF_vars(PhotoTimer) /\ WF_vars(Loaded)

-----------------------------------------------------------------------------
(* Nothing is ever drawn where it does not belong: the overlays lie on      *)
(* Slots of the page that is up, the panel never lies over the on-deck      *)
(* page, the two are never up at once, neither is up during a visit, and    *)
(* the interlock is taken exactly while one is up (display.js showPage,     *)
(* panelTick, crossFadeTick, startVisit, fullRender).                       *)
OverlaysInPlace ==
    /\ tv.overlays # <<>> => DOMAIN tv.overlays \subseteq ToSet(tv.shown.pages[tv.page])
    /\ tv.panel => tv.page # tv.shown.deckPage
    /\ ~(tv.panel /\ tv.overlays # <<>>)
    /\ tv.visiting => ~tv.busy
    /\ tv.busy <=> (tv.panel \/ tv.overlays # <<>>)

\* Where a screen that has rendered v can draw a Batch's teaser.
HasAPlace(v, e) ==
    LET OnAPage(slot) == \E i \in DOMAIN v.pages : slot \in ToSet(v.pages[i])
    IN \/ \E slot \in DOMAIN v.pinned : v.pinned[slot] = e.id /\ OnAPage(slot)
       \/ \E slot \in DOMAIN v.fades : OnAPage(slot) /\ \E i \in DOMAIN v.fades[slot] :
                                                     v.fades[slot][i].id = e.id
       \/ e.id \in v.cards

\* The surfaces are full, and of teasers that come before e.
CrowdedOut(srv, v, e) ==
    Cardinality({f \in srv.entries : f.id \in v.cards /\ Before(f, e)}) = MAX_CARDS_PER_PAGE

(* A board waits only behind a visit that will end, and images load only in *)
(* a visit: nothing newer is left waiting once the taps are back            *)
(* (display.js poll, endVisit, albumUpdate, settled).                       *)
BoardWaitsForVisit ==
    /\ tv.pending # NoBoard => tv.visiting /\ ~Endless(tv)
    /\ tv.loading # {} => tv.visiting

(* What is on tap is on the screen, and a Batch that claims a Vacant Slot   *)
(* is drawn whatever the cap and hide_vacant_taps say; of the others no     *)
(* more are drawn than the cap allows, and no fewer when a surface carries  *)
(* the ones bound to no card, but for those it has no room for: a surface   *)
(* draws eight, and the eight come before whoever is left out (board.py     *)
(* _order_upcoming, resolve_upcoming, build_board; display.js fullRender,   *)
(* pinnedTeasersBySlot, crossFadeCandidates).  The second Batch pinned to a *)
(* Slot is drawn only by a surface of scope "all".                          *)
EveryTeaserHasAPlace ==
    \A s \in Scenes : tv.shown = View[s] =>
    LET srv     == Server[s]
        v       == tv.shown
        free    == {e \in srv.entries : ~Pinned(srv, e)}
        drawn   == {e \in free : HasAPlace(v, e)}
        crowded == {e \in free : CrowdedOut(srv, v, e) /\ Cardinality(UnpinnedBefore(srv, e)) < srv.cap}
    IN /\ \A tap \in 1..srv.num_taps :
            (ResolveTap(srv, tap) # Vacant) => \E i \in DOMAIN v.pages : tap \in ToSet(v.pages[i])
       /\ srv.show_upcoming =>
            /\ \A e \in srv.entries : Pinned(srv, e) =>
                 \E i \in DOMAIN v.pages : e.slot \in ToSet(v.pages[i])
            /\ \A e \in srv.entries : Pinned(srv, e) /\ srv.scope = "all" /\ (srv.deck \/ srv.panel) =>
                 HasAPlace(v, e) \/ CrowdedOut(srv, v, e)
            /\ Cardinality(drawn) <= srv.cap
            /\ srv.deck \/ srv.panel =>
                 Cardinality(drawn \cup crowded)
                    = (IF Cardinality(free) < srv.cap THEN Cardinality(free) ELSE srv.cap)

(* Shuffle shows every ready photo once before any comes round again: what  *)
(* is still queued and what was shown are the ready photos, and share none; *)
(* and a photo taken that was shown in this pass before starts a new pass,  *)
(* which only an exhausted one does (display.js nextPhoto, takeSpread,      *)
(* albumUpdate).                                                            *)
ShuffleShowsEachOnce ==
    /\ [](tv.feed.order = "shuffle" =>
            tv.queue \cup tv.passShown = PhotoIds(tv) /\ tv.queue \cap tv.passShown = {})
    /\ [][tv.feed.order = "shuffle" /\ tv'.feed = tv.feed =>
            tv.passShown \subseteq tv'.passShown \/ tv.queue = {}]_vars

(* Once the server stays as it is, the screen comes to show that state and  *)
(* keeps to it, unless it is reloaded for ever: no visit, however its       *)
(* photos fail and whoever taps through it, holds a board back for good     *)
(* (display.js poll, endVisit).                                             *)
NewestBoardShows ==
    \A s \in Scenes :
        <>[](server = s /\ tv.shown # NoBoard) => <>[](tv.shown = View[s])

(* On a screen of one page and no album, every Batch that shares a Slot is  *)
(* cross-faded over it again and again, and the panel has its turns too     *)
(* (display.js upcomingTick, panelTick, crossFadeTick).                     *)
UpcomingTakesTurns ==
    \A s \in {x \in Scenes : Len(View[x].pages) = 1 /\ ~View[x].album.on} :
        <>[](tv.shown = View[s]) =>
            /\ \A slot \in DOMAIN View[s].fades : \A i \in DOMAIN View[s].fades[slot] :
                  []<>(\E o \in DOMAIN tv.overlays : tv.overlays[o] = View[s].fades[slot][i].id)
            /\ View[s].panelEl => []<>tv.panel
=============================================================================
