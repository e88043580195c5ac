--------------------------- MODULE DisplayProofs ---------------------------
(***************************************************************************)
(* Display for any server, however many photos, pages and teasers: what a  *)
(* screen draws is where it belongs, Shuffle shows every photo once, and   *)
(* every tap and teaser that should be drawn has its place.                *)
(*                                                                         *)
(* The operators of Display take one state of the TV to the next, and a    *)
(* callback chains several.  Each has a lemma that says what it keeps, and *)
(* a step of the TV is the chain of them.  What a board offers is a        *)
(* function of the server's state: the second half follows it from the     *)
(* sorted lists of board.py to the pages of display.js.                    *)
(***************************************************************************)
EXTENDS Display, FiniteSetTheorems, FunctionTheorems, SequenceTheorems,
        WellFoundedInduction, TLAPS

Views == {View[s] : s \in Scenes}

TvFields ==
  {"shown", "page", "overlays", "panel", "busy", "held", "ticks", "turn",
   "feed", "pending", "visiting", "plan", "turnsShown", "shownInVisit",
   "queue", "passShown", "lastId", "pos", "failures", "stalled", "loading"}

(* What the fields of a TV's state hold, as far as the proofs need it.     *)
Typed(t) ==
  /\ DOMAIN t = TvFields
  /\ t.shown \in Views \cup {NoBoard} /\ t.pending \in Views \cup {NoBoard}
  /\ t.busy \in BOOLEAN /\ t.panel \in BOOLEAN /\ t.visiting \in BOOLEAN

(* OverlaysInPlace of any state, and the state it is easiest to know of.   *)
InPlace(t) ==
  /\ t.overlays # <<>> =>
       DOMAIN t.overlays \subseteq ToSet(t.shown.pages[t.page])
  /\ t.panel => t.page # t.shown.deckPage
  /\ ~(t.panel /\ t.overlays # <<>>)
  /\ t.visiting => ~t.busy
  /\ t.busy <=> (t.panel \/ t.overlays # <<>>)

Bare(t) == t.overlays = <<>> /\ t.panel = FALSE /\ t.busy = FALSE

(* The pass of a Shuffle: queued and shown are the photos, and share none. *)
Dealt(t) ==
  t.feed.order = "shuffle" =>
    t.queue \cup t.passShown = PhotoIds(t) /\ t.queue \cap t.passShown = {}

(* BoardWaitsForVisit of any state.                                        *)
Waits(t) ==
  /\ t.pending # NoBoard => t.visiting /\ ~Endless(t)
  /\ t.loading # {} => t.visiting

(* What most operators leave alone: the photos of the pass, and the visit. *)
SamePass(t, u) ==
  u.feed = t.feed /\ u.queue = t.queue /\ u.passShown = t.passShown

SameVisit(t, u) ==
  /\ u.visiting = t.visiting /\ u.plan = t.plan
  /\ u.pending = t.pending /\ u.loading = t.loading

(* A photo may have been taken, and a new pass begun only after the last   *)
(* one of the old.                                                         *)
Plays(t, u) ==
  /\ u.feed = t.feed
  /\ t.feed.order = "shuffle" => t.passShown \subseteq u.passShown \/ t.queue = {}

LEMMA SamePassKeeps ==
  ASSUME NEW t, NEW u, SamePass(t, u)
  PROVE  (Dealt(t) => Dealt(u)) /\ Plays(t, u) /\ AlbumPlan(u) = AlbumPlan(t)
BY DEF SamePass, Dealt, Plays, PhotoIds, Photos, AlbumPlan

LEMMA BareInPlace ==
  ASSUME NEW t, Bare(t)
  PROVE  InPlace(t)
BY DEF Bare, InPlace

-----------------------------------------------------------------------------
(* The upcoming surfaces.                                                  *)

LEMMA AllCleared ==
  ASSUME NEW t, Typed(t)
  PROVE  LET u == PanelHide(CrossFadeForceEnd(t)) IN
         /\ Typed(u) /\ Bare(u) /\ SamePass(t, u) /\ SameVisit(t, u)
         /\ u.shown = t.shown /\ u.page = t.page
<1> DEFINE v == CrossFadeForceEnd(t)
<1>1. /\ Typed(v) /\ v.overlays = <<>> /\ v.busy = FALSE /\ SamePass(t, v)
      /\ SameVisit(t, v) /\ v.shown = t.shown /\ v.page = t.page
  BY DEF Typed, TvFields, CrossFadeForceEnd, SamePass, SameVisit
<1> HIDE DEF v
<1>2. QED
  BY <1>1 DEF Typed, TvFields, PanelHide, SamePass, SameVisit, Bare, v

(* showPage: the overlays that lie on Slots of the new page stay.          *)
LEMMA ShowPageKeeps ==
  ASSUME NEW t, Typed(t), InPlace(t), NEW i
  PROVE  LET u == ShowPage(t, i) IN
         /\ Typed(u) /\ InPlace(u) /\ SamePass(t, u) /\ SameVisit(t, u)
         /\ u.shown = t.shown /\ u.page = i
<1> DEFINE turned == [t EXCEPT !.page = i]
           clear  == IF DOMAIN t.overlays \subseteq ToSet(t.shown.pages[i])
                     THEN turned ELSE CrossFadeForceEnd(turned)
<1>1. /\ Typed(turned) /\ SamePass(t, turned) /\ SameVisit(t, turned)
      /\ turned.shown = t.shown /\ turned.page = i
      /\ turned.overlays = t.overlays /\ turned.panel = t.panel
      /\ turned.busy = t.busy
  BY DEF Typed, TvFields, SamePass, SameVisit
<1>2. /\ Typed(clear) /\ SamePass(t, clear) /\ SameVisit(t, clear)
      /\ clear.shown = t.shown /\ clear.page = i /\ clear.panel = t.panel
      /\ clear.overlays # <<>> =>
           DOMAIN clear.overlays \subseteq ToSet(t.shown.pages[i])
      /\ ~(clear.panel /\ clear.overlays # <<>>)
      /\ clear.visiting => ~clear.busy
      /\ clear.busy <=> (clear.panel \/ clear.overlays # <<>>)
  <2> HIDE DEF turned
  <2>1. CASE DOMAIN t.overlays \subseteq ToSet(t.shown.pages[i])
    BY <2>1, <1>1 DEF InPlace, SameVisit
  <2>2. CASE ~(DOMAIN t.overlays \subseteq ToSet(t.shown.pages[i]))
    <3>1. t.overlays # <<>>
      <4>1. DOMAIN <<>> = {}
        OBVIOUS
      <4>2. QED BY <2>2, <4>1
    <3>2. t.panel = FALSE
      BY <3>1 DEF InPlace, Typed
    <3>3. QED
      BY <2>2, <3>2, <1>1
         DEF Typed, TvFields, CrossFadeForceEnd, SamePass, SameVisit
  <2>3. QED BY <2>1, <2>2
<1>3. ShowPage(t, i) = IF i = t.shown.deckPage THEN PanelHide(clear) ELSE clear
  BY DEF ShowPage
<1> HIDE DEF clear
<1>4. CASE i = t.shown.deckPage /\ clear.panel
  <2>1. ShowPage(t, i) = [clear EXCEPT !.panel = FALSE, !.busy = FALSE, !.held = 0]
    BY <1>3, <1>4 DEF PanelHide
  <2>2. QED
    BY <2>1, <1>2, <1>4 DEF Typed, TvFields, SamePass, SameVisit, InPlace
<1>5. CASE ~(i = t.shown.deckPage /\ clear.panel)
  <2>1. ShowPage(t, i) = clear
    BY <1>3, <1>5 DEF PanelHide
  <2>2. QED
    BY <2>1, <1>2, <1>5 DEF InPlace
<1>6. QED BY <1>4, <1>5

LEMMA FullRenderKeeps ==
  ASSUME NEW t, Typed(t)
  PROVE  LET u == FullRender(t) IN
         /\ Typed(u) /\ InPlace(u) /\ SamePass(t, u) /\ SameVisit(t, u)
         /\ u.shown = t.shown
<1> DEFINE bare == PanelHide(CrossFadeForceEnd(t))
           at   == IF t.page > Len(t.shown.pages) THEN 1 ELSE t.page
<1>1. /\ Typed(bare) /\ InPlace(bare) /\ SamePass(t, bare)
      /\ SameVisit(t, bare) /\ bare.shown = t.shown
  BY AllCleared, BareInPlace
<1>2. FullRender(t) = ShowPage(bare, at)
  BY DEF FullRender
<1> HIDE DEF bare, at
<1>3. QED BY <1>1, <1>2, ShowPageKeeps DEF SamePass, SameVisit

(* panelTick: the panel goes up only while nothing else is.                *)
LEMMA PanelTickKeeps ==
  ASSUME NEW t, Typed(t), InPlace(t), t.visiting = FALSE
  PROVE  LET u == PanelTick(t) IN
         /\ Typed(u) /\ InPlace(u) /\ SamePass(t, u) /\ SameVisit(t, u)
<1> DEFINE tick == [t EXCEPT !.ticks = (@ + 1) % CYCLE]
<1>1. /\ Typed(tick) /\ InPlace(tick) /\ SamePass(t, tick)
      /\ SameVisit(t, tick) /\ tick.page = t.page /\ tick.shown = t.shown
      /\ tick.busy = t.busy
  BY DEF Typed, TvFields, InPlace, SamePass, SameVisit
<1>2. \/ PanelTick(t) = tick
      \/ /\ ~t.busy /\ t.page # t.shown.deckPage
         /\ PanelTick(t) = [tick EXCEPT !.busy = TRUE, !.panel = TRUE,
                                        !.held = t.shown.interval]
  BY DEF PanelTick
<1> HIDE DEF tick
<1>3. CASE PanelTick(t) = tick
  BY <1>1, <1>3
<1>4. ASSUME ~t.busy, t.page # t.shown.deckPage,
             PanelTick(t) = [tick EXCEPT !.busy = TRUE, !.panel = TRUE,
                                         !.held = t.shown.interval]
      PROVE  LET u == PanelTick(t) IN
             /\ Typed(u) /\ InPlace(u) /\ SamePass(t, u) /\ SameVisit(t, u)
  <2>1. tick.overlays = <<>>
    BY <1>1, <1>4 DEF InPlace
  <2>2. tick.visiting = FALSE
    BY <1>1 DEF SameVisit
  <2>3. QED
    BY <1>1, <1>4, <2>1, <2>2 DEF Typed, TvFields, InPlace, SamePass, SameVisit
<1>5. QED BY <1>2, <1>3, <1>4

(* crossFadeTick: the overlays go on Slots of the page that is up.         *)
LEMMA CrossFadeTickKeeps ==
  ASSUME NEW t, Typed(t), InPlace(t), t.visiting = FALSE
  PROVE  LET u == CrossFadeTick(t) IN
         /\ Typed(u) /\ InPlace(u) /\ SamePass(t, u) /\ SameVisit(t, u)
<1> DEFINE slots == IF t.shown.pages = <<>> THEN {}
                    ELSE {slot \in ToSet(t.shown.pages[t.page]) :
                            t.shown.fades[slot] # <<>>}
           over  == [slot \in slots |->
                       t.shown.fades[slot][(t.turn % Len(t.shown.fades[slot])) + 1].id]
           next  == (t.turn + 1) % CYCLE
<1>1. CASE t.busy \/ slots = {}
  <2>1. CrossFadeTick(t) = t
    BY <1>1 DEF CrossFadeTick
  <2>2. QED BY <2>1 DEF SamePass, SameVisit
<1>2. CASE ~(t.busy \/ slots = {})
  <2>1. CrossFadeTick(t) = [t EXCEPT !.turn = next, !.busy = TRUE,
                              !.held = t.shown.interval, !.overlays = over]
    BY <1>2 DEF CrossFadeTick
  <2>2. DOMAIN over = slots /\ slots \subseteq ToSet(t.shown.pages[t.page])
    OBVIOUS
  <2>3. over # <<>>
    <3>1. DOMAIN <<>> = {}
      OBVIOUS
    <3>2. QED BY <1>2, <2>2, <3>1
  <2> HIDE DEF over, slots, next
  <2>4. t.panel = FALSE /\ t.overlays = <<>>
    BY <1>2 DEF InPlace, Typed
  <2>5. QED
    BY <2>1, <2>2, <2>3, <2>4 DEF Typed, TvFields, InPlace, SamePass, SameVisit
<1>3. QED BY <1>1, <1>2

-----------------------------------------------------------------------------
(* The photos of a visit.                                                  *)

(* A shuffled spread takes photos out of what is queued, which is all      *)
(* photos when the pass starts, and adds them to what was shown in it.     *)
Queue(t) == IF t.queue = {} THEN PhotoIds(t) ELSE t.queue
Past(t)  == IF t.queue = {} THEN {} ELSE t.passShown

TakesOut(t, u, taken) ==
  \E last : u = [t EXCEPT !.loading = taken, !.queue = Queue(t) \ taken,
                          !.passShown = Past(t) \cup taken, !.lastId = last]

LEMMA ShuffledSpreadForm ==
  ASSUME NEW t, NEW budget, NEW u \in ShuffledSpread(t, budget)
  PROVE  \E taken \in SUBSET Queue(t) : TakesOut(t, u, taken)
<1> DEFINE new    == t.queue = {}
           queue  == IF new THEN PhotoIds(t) ELSE t.queue
           firsts == IF new /\ Cardinality(queue) > 1
                     THEN queue \ {t.lastId} ELSE queue
           Others(first)   == (queue \cap Portraits(t)) \ {first}
           Partners(first) ==
             kSubset(UpTo(Most(t, first, budget) - 1, Cardinality(Others(first))),
                     Others(first))
           Spread(first, partners, last) ==
             [t EXCEPT !.loading   = {first} \cup partners,
                       !.queue     = queue \ UsedUp(first, partners),
                       !.passShown = (IF new THEN {} ELSE t.passShown)
                                       \cup {first} \cup partners,
                       !.lastId    = last]
<1>1. ShuffledSpread(t, budget) =
        UNION {UNION {{Spread(first, partners, last) :
                         last \in IF partners = {} THEN {first} ELSE partners} :
                      partners \in Partners(first)} : first \in firsts}
  BY DEF ShuffledSpread
<1>2. PICK first \in firsts : \E partners \in Partners(first) : \E last :
        u = Spread(first, partners, last)
  <2> HIDE DEF Spread, firsts, Partners
  <2>1. QED BY <1>1
<1>3. PICK partners \in Partners(first) : \E last : u = Spread(first, partners, last)
  BY <1>2
<1>4. PICK last : u = Spread(first, partners, last)
  BY <1>3
<1>5. partners \subseteq queue
  BY <1>3 DEF kSubset
<1>6. first \in queue
  BY <1>2
<1> DEFINE taken == {first} \cup partners
<1>7. taken \in SUBSET queue
  BY <1>5, <1>6
<1>8. TakesOut(t, u, taken)
  <2>1. (IF new THEN {} ELSE t.passShown) \cup {first} \cup partners
          = Past(t) \cup taken
    BY DEF Past
  <2>2. UsedUp(first, partners) = taken /\ queue = Queue(t)
    BY DEF UsedUp, Queue
  <2>3. u = [t EXCEPT !.loading = taken, !.queue = Queue(t) \ taken,
                      !.passShown = Past(t) \cup taken, !.lastId = last]
    BY <1>4, <2>1, <2>2
  <2>4. QED BY <2>3 DEF TakesOut
<1>9. queue = Queue(t)
  BY DEF Queue
<1>10. QED BY <1>7, <1>8, <1>9

LEMMA TakeSpreadKeeps ==
  ASSUME NEW t, Typed(t), InPlace(t), Dealt(t), NEW budget,
         NEW u \in TakeSpread(t, budget)
  PROVE  /\ Typed(u) /\ InPlace(u) /\ Dealt(u) /\ Plays(t, u)
         /\ u.visiting = t.visiting /\ u.plan = t.plan
         /\ u.pending = t.pending /\ u.shown = t.shown
<1>1. CASE t.feed.order = "shuffle"
  <2>1. u \in ShuffledSpread(t, budget)
    BY <1>1 DEF TakeSpread
  <2>2. PICK taken \in SUBSET Queue(t) : TakesOut(t, u, taken)
    BY <2>1, ShuffledSpreadForm
  <2>3. PICK last :
          u = [t EXCEPT !.loading = taken, !.queue = Queue(t) \ taken,
                        !.passShown = Past(t) \cup taken, !.lastId = last]
    BY <2>2 DEF TakesOut
  <2>4. /\ Typed(u) /\ InPlace(u) /\ u.queue = Queue(t) \ taken
        /\ u.passShown = Past(t) \cup taken /\ u.feed = t.feed
        /\ u.visiting = t.visiting /\ u.plan = t.plan
        /\ u.pending = t.pending /\ u.shown = t.shown
    BY <2>3 DEF Typed, TvFields, InPlace
  <2>5. Queue(t) \cup Past(t) = PhotoIds(t) /\ Queue(t) \cap Past(t) = {}
    BY <1>1 DEF Dealt, Queue, Past
  <2>6. PhotoIds(u) = PhotoIds(t)
    BY <2>4 DEF PhotoIds, Photos
  <2>7. Dealt(u)
    BY <2>2, <2>4, <2>5, <2>6 DEF Dealt
  <2>8. Plays(t, u)
    BY <2>4 DEF Plays, Past
  <2>9. QED BY <2>4, <2>7, <2>8
<1>2. CASE t.feed.order # "shuffle"
  <2>1. u = OrderedSpread(t, budget)
    BY <1>2 DEF TakeSpread
  <2>2. \E loading, last, pos :
          u = [t EXCEPT !.loading = loading, !.lastId = last, !.pos = pos]
    BY <2>1 DEF OrderedSpread
  <2>3. PICK loading, last, pos :
          u = [t EXCEPT !.loading = loading, !.lastId = last, !.pos = pos]
    BY <2>2
  <2>4. /\ Typed(u) /\ InPlace(u) /\ SamePass(t, u)
        /\ u.visiting = t.visiting /\ u.plan = t.plan
        /\ u.pending = t.pending /\ u.shown = t.shown
    BY <2>3 DEF Typed, TvFields, InPlace, SamePass
  <2>5. QED BY <2>4, SamePassKeeps
<1>3. QED BY <1>1, <1>2

(* startVisit: the taps are cleared before the first photo is taken.       *)
LEMMA StartVisitKeeps ==
  ASSUME NEW t, Typed(t), Dealt(t), NEW u \in StartVisit(t)
  PROVE  /\ Typed(u) /\ InPlace(u) /\ Dealt(u) /\ Plays(t, u)
         /\ u.visiting = TRUE /\ u.pending = t.pending /\ u.shown = t.shown
<1> DEFINE visit == [t EXCEPT !.visiting = TRUE, !.plan = PlanOf(t.feed),
                              !.shownInVisit = 0, !.failures = 0]
           clear == PanelHide(CrossFadeForceEnd(visit))
<1>1. /\ Typed(visit) /\ SamePass(t, visit) /\ visit.visiting = TRUE
      /\ visit.pending = t.pending /\ visit.shown = t.shown
  BY DEF Typed, TvFields, SamePass
<1>2. u \in TakeSpread(clear, Budget(clear))
  BY DEF StartVisit, Then
<1> HIDE DEF visit
<1>3. /\ Typed(clear) /\ Bare(clear) /\ SamePass(visit, clear)
      /\ SameVisit(visit, clear) /\ clear.shown = visit.shown
  BY <1>1, AllCleared
<1> HIDE DEF clear
<1>4. SamePass(t, clear)
  BY <1>1, <1>3 DEF SamePass
<1>5. InPlace(clear) /\ Dealt(clear)
  BY <1>3, <1>4, BareInPlace, SamePassKeeps
<1>6. /\ Typed(u) /\ InPlace(u) /\ Dealt(u) /\ Plays(clear, u)
      /\ u.visiting = clear.visiting /\ u.pending = clear.pending
      /\ u.shown = clear.shown
  BY <1>2, <1>3, <1>5, TakeSpreadKeeps
<1>7. Plays(t, u)
  BY <1>4, <1>6 DEF SamePass, Plays
<1>8. QED BY <1>1, <1>3, <1>6, <1>7 DEF SameVisit

LEMMA MaybeStartPhotosOnlyKeeps ==
  ASSUME NEW t, Typed(t), InPlace(t), Dealt(t), Waits(t),
         NEW u \in MaybeStartPhotosOnly(t)
  PROVE  /\ Typed(u) /\ InPlace(u) /\ Dealt(u) /\ Waits(u) /\ Plays(t, u)
         /\ u.pending = t.pending /\ u.shown = t.shown
         /\ \/ u = t
            \/ t.visiting = FALSE /\ u.visiting = TRUE /\ AlbumPlan(t)
<1>1. CASE u = t
  BY <1>1 DEF Plays
<1>2. CASE u # t
  <2>1. u \in StartVisit(t) /\ t.visiting = FALSE /\ AlbumPlan(t)
    BY <1>2 DEF MaybeStartPhotosOnly, Typed
  <2>2. /\ Typed(u) /\ InPlace(u) /\ Dealt(u) /\ Plays(t, u)
        /\ u.visiting = TRUE /\ u.pending = t.pending /\ u.shown = t.shown
    BY <2>1, StartVisitKeeps
  <2>3. Waits(u)
    BY <2>1, <2>2 DEF Waits
  <2>4. QED BY <2>1, <2>2, <2>3
<1>3. QED BY <1>1, <1>2

-----------------------------------------------------------------------------
(* Boards, and the ends of visits.                                         *)

(* A board whose key is the last one's is drawn on the pages that are up,  *)
(* so the key must fix them.                                               *)
LEMMA KeyFixesPages ==
  ASSUME NEW v \in Views, NEW w \in Views, v.key = w.key
  PROVE  v.pages = w.pages /\ v.deckPage = w.deckPage
<1> DEFINE Ids(seq) == [i \in DOMAIN seq |-> seq[i].id]
           Key(b) == <<TapPages(b), b.paginate, b.page_size, Ids(DeckTeasers(b)),
                       Ids(PanelTeasers(b))>>
<1>1. PICK s \in Scenes : v = ViewOf(BuildBoard(Server[s]))
  BY DEF Views, View
<1>2. PICK r \in Scenes : w = ViewOf(BuildBoard(Server[r]))
  BY DEF Views, View
<1>3. PICK b : b = BuildBoard(Server[s])
  OBVIOUS
<1>4. PICK c : c = BuildBoard(Server[r])
  OBVIOUS
<1>5. /\ v.pages = (IF Some(DeckTeasers(b)) THEN Append(TapPages(b), <<>>)
                    ELSE TapPages(b))
      /\ v.deckPage = (IF Some(DeckTeasers(b)) THEN Len(TapPages(b)) + 1 ELSE 0)
      /\ v.key = Key(b)
  BY <1>1, <1>3 DEF ViewOf
<1>6. /\ w.pages = (IF Some(DeckTeasers(c)) THEN Append(TapPages(c), <<>>)
                    ELSE TapPages(c))
      /\ w.deckPage = (IF Some(DeckTeasers(c)) THEN Len(TapPages(c)) + 1 ELSE 0)
      /\ w.key = Key(c)
  BY <1>2, <1>4 DEF ViewOf
<1>7. TapPages(b) = TapPages(c) /\ Ids(DeckTeasers(b)) = Ids(DeckTeasers(c))
  <2>1. Key(b) = Key(c)
    BY <1>5, <1>6
  <2> HIDE DEF Ids
  <2>2. QED BY <2>1
<1>8. Some(DeckTeasers(b)) = Some(DeckTeasers(c))
  <2>1. /\ DOMAIN Ids(DeckTeasers(b)) = DOMAIN DeckTeasers(b)
        /\ DOMAIN Ids(DeckTeasers(c)) = DOMAIN DeckTeasers(c)
    OBVIOUS
  <2> HIDE DEF Ids
  <2>2. QED BY <1>7, <2>1 DEF Some
<1> HIDE DEF Key, Ids
<1>9. QED BY <1>5, <1>6, <1>7, <1>8

(* What ApplyBoard and the end of a visit keep of what they are given.     *)
Good(t) == Typed(t) /\ InPlace(t) /\ Dealt(t) /\ Waits(t)

(* Nothing was taken, or one spread for a visit that began just now.       *)
AtMostOneSpread(t, u) ==
  \/ SamePass(t, u)
  \/ Plays(t, u) /\ u.visiting = TRUE /\ AlbumPlan(t)

LEMMA ApplyBoardKeeps ==
  ASSUME NEW t, Good(t), NEW board \in Views, NEW u \in ApplyBoard(t, board)
  PROVE  Good(u) /\ AtMostOneSpread(t, u) /\ u.pending = t.pending
<1> USE DEF Good
<1> DEFINE applied == [t EXCEPT !.shown = board]
           changed == t.shown = NoBoard \/ board.key # t.shown.key
           drawn   == IF changed THEN FullRender(applied) ELSE applied
<1>1. u \in MaybeStartPhotosOnly(drawn)
  BY DEF ApplyBoard, Then
<1>2. /\ Typed(applied) /\ SamePass(t, applied) /\ SameVisit(t, applied)
      /\ applied.shown = board /\ applied.page = t.page
      /\ applied.overlays = t.overlays /\ applied.panel = t.panel
      /\ applied.busy = t.busy
  BY DEF Typed, TvFields, SamePass, SameVisit
<1> HIDE DEF applied
<1>3. /\ Typed(drawn) /\ InPlace(drawn) /\ SamePass(t, drawn)
      /\ SameVisit(t, drawn)
  <2>1. CASE changed
    <3>1. drawn = FullRender(applied)
      BY <2>1
    <3>2. /\ Typed(drawn) /\ InPlace(drawn) /\ SamePass(applied, drawn)
          /\ SameVisit(applied, drawn)
      BY <1>2, <3>1, FullRenderKeeps
    <3>3. QED BY ONLY <1>2, <3>2 DEF SamePass, SameVisit
  <2>2. CASE ~changed
    <3>1. t.shown \in Views /\ t.shown.key = board.key
      BY <2>2 DEF Typed
    <3>2. t.shown.pages = board.pages /\ t.shown.deckPage = board.deckPage
      BY <3>1, KeyFixesPages
    <3>3. InPlace(applied)
      BY <1>2, <3>2 DEF InPlace, SameVisit
    <3>4. QED BY <1>2, <2>2, <3>3
  <2>3. QED BY <2>1, <2>2
<1> HIDE DEF drawn
<1>4. Dealt(drawn) /\ AlbumPlan(drawn) = AlbumPlan(t)
  BY <1>3, SamePassKeeps
<1>5. Waits(drawn)
  BY <1>3 DEF Waits, SameVisit, Endless
<1>6. /\ Typed(u) /\ InPlace(u) /\ Dealt(u) /\ Waits(u) /\ Plays(drawn, u)
      /\ u.pending = drawn.pending
      /\ u = drawn \/ (u.visiting = TRUE /\ AlbumPlan(drawn))
  BY <1>1, <1>3, <1>4, <1>5, MaybeStartPhotosOnlyKeeps
<1>7. AtMostOneSpread(t, u)
  BY <1>3, <1>4, <1>6 DEF AtMostOneSpread, SamePass, Plays
<1>8. QED BY <1>3, <1>6, <1>7 DEF SameVisit

(* endVisit: the waiting board, the next page, and with an album of no     *)
(* turns the next visit, which is the only one to take a photo.            *)
LEMMA EndVisitKeeps ==
  ASSUME NEW t, Typed(t), InPlace(t), Dealt(t), NEW returnToTaps,
         NEW u \in EndVisit(t, returnToTaps)
  PROVE  /\ Good(u) /\ Plays(t, u)
         /\ ~AlbumPlan(t) => SamePass(t, u)
<1> DEFINE over    == [t EXCEPT !.visiting = FALSE, !.plan = NoPlan, !.loading = {}]
           Back(w) == LET counted == [w EXCEPT !.turnsShown = 1]
                      IN IF returnToTaps /\ Len(w.shown.pages) > 1
                         THEN {ShowPage(counted, NextPageOf(counted))}
                         ELSE {counted}
<1>1. EndVisit(t, returnToTaps)
        = Then(Then(ApplyPending(over), Back), MaybeStartPhotosOnly)
  BY DEF EndVisit
<1>2. PICK w \in Then(ApplyPending(over), Back) : u \in MaybeStartPhotosOnly(w)
  BY <1>1 DEF Then
<1>3. PICK v \in ApplyPending(over) : w \in Back(v)
  BY <1>2 DEF Then
<1>4. /\ Typed(over) /\ InPlace(over) /\ SamePass(t, over)
      /\ over.visiting = FALSE /\ over.loading = {}
      /\ over.pending = t.pending
  BY DEF Typed, TvFields, InPlace, SamePass
<1> HIDE DEF over
<1>5. Good(v) /\ AtMostOneSpread(t, v)
  <2>1. Dealt(over) /\ AlbumPlan(over) = AlbumPlan(t) /\ Plays(t, over)
    BY <1>4, SamePassKeeps
  <2>2. CASE over.pending = NoBoard
    <3>1. v = over
      BY <2>2, <1>3 DEF ApplyPending
    <3>2. Waits(over)
      BY <2>2, <1>4 DEF Waits
    <3>3. QED
      BY <3>1, <3>2, <1>4, <2>1 DEF Good, AtMostOneSpread
  <2>3. CASE over.pending # NoBoard
    <3> DEFINE clear == [over EXCEPT !.pending = NoBoard]
    <3>1. v \in ApplyBoard(clear, over.pending)
      BY <2>3, <1>3 DEF ApplyPending
    <3>2. /\ Typed(clear) /\ InPlace(clear) /\ SamePass(over, clear)
          /\ clear.pending = NoBoard /\ clear.loading = {}
      BY <1>4 DEF Typed, TvFields, InPlace, SamePass
    <3>3. over.pending \in Views
      BY <2>3, <1>4 DEF Typed
    <3> HIDE DEF clear
    <3>4. Dealt(clear) /\ AlbumPlan(clear) = AlbumPlan(over)
      BY <3>2, <2>1, SamePassKeeps
    <3>5. Waits(clear)
      BY <3>2 DEF Waits
    <3>6. Good(v) /\ AtMostOneSpread(clear, v)
      BY <3>1, <3>2, <3>3, <3>4, <3>5, ApplyBoardKeeps DEF Good
    <3>7. SamePass(t, clear)
      BY <1>4, <3>2 DEF SamePass
    <3>8. AtMostOneSpread(t, v)
      BY <3>4, <3>6, <3>7, <2>1 DEF AtMostOneSpread, SamePass, Plays
    <3>9. QED BY <3>6, <3>8
  <2>4. QED BY <2>2, <2>3
<1>6. Good(w) /\ SamePass(v, w) /\ SameVisit(v, w)
  <2> DEFINE counted == [v EXCEPT !.turnsShown = 1]
  <2>1. /\ Typed(counted) /\ InPlace(counted) /\ SamePass(v, counted)
        /\ SameVisit(v, counted)
    BY <1>5 DEF Good, Typed, TvFields, InPlace, SamePass, SameVisit
  <2>2. w = counted \/ w = ShowPage(counted, NextPageOf(counted))
    BY <1>3
  <2> HIDE DEF counted
  <2>3. /\ Typed(w) /\ InPlace(w) /\ SamePass(counted, w)
        /\ SameVisit(counted, w)
    <3>1. CASE w = counted
      BY <3>1, <2>1 DEF SamePass, SameVisit
    <3>2. CASE w = ShowPage(counted, NextPageOf(counted))
      BY <3>2, <2>1, ShowPageKeeps
    <3>3. QED BY <2>2, <3>1, <3>2
  <2>4. SamePass(v, w) /\ SameVisit(v, w)
    BY <2>1, <2>3 DEF SamePass, SameVisit
  <2>5. Dealt(w)
    BY <2>4, <1>5, SamePassKeeps DEF Good
  <2>6. Waits(w)
    BY <2>4, <1>5 DEF Good, Waits, SameVisit, Endless
  <2>7. QED BY <2>3, <2>4, <2>5, <2>6 DEF Good
<1>7. /\ Good(u) /\ Plays(w, u)
      /\ u = w \/ (w.visiting = FALSE /\ AlbumPlan(w))
  BY <1>2, <1>6, MaybeStartPhotosOnlyKeeps DEF Good
<1>8. AlbumPlan(w) = AlbumPlan(v)
  BY <1>6, SamePassKeeps
<1>9. CASE SamePass(t, v)
  <2>1. SamePass(t, w)
    BY <1>6, <1>9 DEF SamePass
  <2>2. AlbumPlan(w) = AlbumPlan(t)
    BY <2>1, SamePassKeeps
  <2>3. Plays(t, u)
    BY <1>7, <2>1 DEF SamePass, Plays
  <2>4. QED BY <1>7, <2>1, <2>2, <2>3
<1>10. CASE ~SamePass(t, v)
  <2>1. Plays(t, v) /\ v.visiting = TRUE /\ AlbumPlan(t)
    BY <1>5, <1>10 DEF AtMostOneSpread
  <2>2. u = w
    BY <1>6, <1>7, <2>1 DEF SameVisit
  <2>3. Plays(t, u)
    BY <1>6, <2>1, <2>2 DEF SamePass, Plays
  <2>4. QED BY <1>7, <2>1, <2>3
<1>11. QED BY <1>9, <1>10

LEMMA ShowNextPhotoKeeps ==
  ASSUME NEW t, Good(t), t.visiting = TRUE, NEW u \in ShowNextPhoto(t)
  PROVE  Good(u) /\ Plays(t, u)
<1>1. CASE u \in EndVisit(t, TRUE)
  BY <1>1, EndVisitKeeps DEF Good
<1>2. CASE u \in TakeSpread(t, Budget(t))
  <2>1. /\ Typed(u) /\ InPlace(u) /\ Dealt(u) /\ Plays(t, u)
        /\ u.visiting = t.visiting /\ u.plan = t.plan
        /\ u.pending = t.pending
    BY <1>2, TakeSpreadKeeps DEF Good
  <2>2. Waits(u)
    BY <2>1 DEF Good, Waits, Endless
  <2>3. QED BY <2>1, <2>2 DEF Good
<1>3. QED BY <1>1, <1>2 DEF ShowNextPhoto

(* albumUpdate: whatever the new photos are, the pass is made to fit them, *)
(* and a poll that brings the old ones changes nothing in it.              *)
LEMMA AlbumUpdateKeeps ==
  ASSUME NEW t, Good(t), NEW album, NEW u \in AlbumUpdate(t, album)
  PROVE  Good(u) /\ u.feed = album /\ (album = t.feed => SamePass(t, u))
<1> DEFINE fed == [t EXCEPT !.feed = album, !.stalled = FALSE]
           Void(w) == IF w.feed.order = t.feed.order THEN {w}
                      ELSE {[w EXCEPT !.queue = {}, !.passShown = {},
                                      !.lastId = NoPhoto, !.pos = 0]}
           Renew(w) == IF w.feed.order # "shuffle" THEN {w}
                       ELSE {[w EXCEPT !.queue = Rest(w),
                                       !.passShown = @ \cap PhotoIds(w)]}
           Settled(w) == IF w.visiting /\ ~AlbumPlan(w)
                         THEN EndVisit([w EXCEPT !.pending = NoBoard], FALSE)
                         ELSE {w}
<1>1. AlbumUpdate(t, album) = Then(Then(Then({fed}, Void), Renew), Settled)
  BY DEF AlbumUpdate
<1>2. PICK w \in Then(Then({fed}, Void), Renew) : u \in Settled(w)
  BY <1>1 DEF Then
<1>3. PICK v \in Then({fed}, Void) : w \in Renew(v)
  BY <1>2 DEF Then
<1>4. v \in Void(fed)
  BY <1>3 DEF Then
<1>5. /\ Typed(fed) /\ InPlace(fed) /\ Waits(fed) /\ fed.feed = album
      /\ fed.queue = t.queue /\ fed.passShown = t.passShown
  BY DEF Good, Typed, TvFields, InPlace, Waits, Endless
<1> HIDE DEF fed
<1>6. /\ Typed(v) /\ InPlace(v) /\ Waits(v) /\ v.feed = album
      /\ album = t.feed => SamePass(t, v)
  <2>1. CASE album.order = t.feed.order
    BY <2>1, <1>4, <1>5 DEF SamePass
  <2>2. CASE album.order # t.feed.order
    <3>1. v = [fed EXCEPT !.queue = {}, !.passShown = {}, !.lastId = NoPhoto,
                          !.pos = 0]
      BY <2>2, <1>4, <1>5
    <3>2. QED
      BY <2>2, <3>1, <1>5 DEF Typed, TvFields, InPlace, Waits, Endless
  <2>3. QED BY <2>1, <2>2
<1>7. /\ Typed(w) /\ InPlace(w) /\ Waits(w) /\ Dealt(w) /\ w.feed = album
      /\ album = t.feed => SamePass(t, w)
  <2>1. CASE album.order # "shuffle"
    BY <2>1, <1>3, <1>6 DEF Dealt
  <2>2. CASE album.order = "shuffle"
    <3>1. w = [v EXCEPT !.queue = Rest(v), !.passShown = @ \cap PhotoIds(v)]
      BY <2>2, <1>3, <1>6
    <3>2. /\ Typed(w) /\ InPlace(w) /\ Waits(w) /\ w.feed = album
          /\ w.queue = PhotoIds(v) \ v.passShown
          /\ w.passShown = v.passShown \cap PhotoIds(v)
      BY <3>1, <1>6 DEF Typed, TvFields, InPlace, Waits, Endless, Rest
    <3>3. PhotoIds(w) = PhotoIds(v)
      BY <3>2, <1>6 DEF PhotoIds, Photos
    <3>4. Dealt(w)
      BY <3>2, <3>3 DEF Dealt
    <3>5. ASSUME album = t.feed PROVE SamePass(t, w)
      <4>1. SamePass(t, v) /\ PhotoIds(v) = PhotoIds(t)
        BY <3>5, <1>6 DEF PhotoIds, Photos
      <4>2. /\ t.queue \cup t.passShown = PhotoIds(t)
            /\ t.queue \cap t.passShown = {}
        BY <2>2, <3>5 DEF Good, Dealt
      <4>3. w.queue = t.queue /\ w.passShown = t.passShown
        BY <3>2, <4>1, <4>2 DEF SamePass
      <4>4. QED BY <3>2, <3>5, <4>3 DEF SamePass
    <3>6. QED BY <3>2, <3>4, <3>5
  <2>3. QED BY <2>1, <2>2
<1>8. CASE w.visiting /\ ~AlbumPlan(w)
  <2> DEFINE alone == [w EXCEPT !.pending = NoBoard]
  <2>1. u \in EndVisit(alone, FALSE)
    BY <1>2, <1>8
  <2>2. Typed(alone) /\ InPlace(alone) /\ SamePass(w, alone)
    BY <1>7 DEF Typed, TvFields, InPlace, SamePass
  <2> HIDE DEF alone
  <2>3. Dealt(alone) /\ ~AlbumPlan(alone)
    BY <2>2, <1>7, <1>8, SamePassKeeps
  <2>4. Good(u) /\ SamePass(alone, u)
    BY <2>1, <2>2, <2>3, EndVisitKeeps
  <2>5. QED BY <1>7, <2>2, <2>4 DEF SamePass
<1>9. CASE ~(w.visiting /\ ~AlbumPlan(w))
  <2>1. u = w
    BY <1>2, <1>9
  <2>2. QED BY <1>7, <2>1 DEF Good
<1>10. QED BY <1>8, <1>9

LEMMA PollResultKeeps ==
  ASSUME NEW t, Good(t), NEW board \in Views, NEW u \in PollResult(t, board)
  PROVE  Good(u) /\ (u.feed = t.feed => Plays(t, u))
<1> DEFINE Shows(w) == IF w.visiting /\ ~Endless(w) /\ w.shown # NoBoard
                       THEN {[w EXCEPT !.pending = board]}
                       ELSE ApplyBoard(w, board)
<1>1. PICK w \in AlbumUpdate(t, board.album) : u \in Shows(w)
  BY DEF PollResult, Then
<1>2. /\ Good(w) /\ w.feed = board.album
      /\ board.album = t.feed => SamePass(t, w)
  BY <1>1, AlbumUpdateKeeps
<1>3. Good(u) /\ Plays(w, u)
  <2>1. CASE w.visiting /\ ~Endless(w) /\ w.shown # NoBoard
    <3>1. u = [w EXCEPT !.pending = board]
      BY <1>1, <2>1
    <3>2. Typed(u) /\ InPlace(u) /\ Waits(u) /\ SamePass(w, u)
      BY <1>2, <2>1, <3>1
         DEF Good, Typed, TvFields, InPlace, Waits, Endless, SamePass
    <3>3. QED BY <1>2, <3>2, SamePassKeeps DEF Good
  <2>2. CASE ~(w.visiting /\ ~Endless(w) /\ w.shown # NoBoard)
    <3>1. u \in ApplyBoard(w, board)
      BY <1>1, <2>2
    <3>2. Good(u) /\ AtMostOneSpread(w, u)
      BY <1>2, <3>1, ApplyBoardKeeps
    <3>3. QED BY <3>2, SamePassKeeps DEF AtMostOneSpread
  <2>3. QED BY <2>1, <2>2
<1>4. ASSUME u.feed = t.feed PROVE Plays(t, u)
  <2>1. SamePass(t, w)
    BY <1>2, <1>3, <1>4 DEF Plays
  <2>2. QED BY <1>3, <2>1 DEF Plays, SamePass
<1>5. QED BY <1>3, <1>4

LEMMA TurnKeeps ==
  ASSUME NEW t, Good(t), t.visiting = FALSE, NEW u \in Turn(t)
  PROVE  Good(u) /\ Plays(t, u)
<1>1. CASE u \in StartVisit(t)
  <2>1. /\ Typed(u) /\ InPlace(u) /\ Dealt(u) /\ Plays(t, u)
        /\ u.visiting = TRUE /\ u.pending = t.pending
    BY <1>1, StartVisitKeeps DEF Good
  <2>2. Waits(u)
    BY <2>1 DEF Good, Waits
  <2>3. QED BY <2>1, <2>2 DEF Good
<1>2. CASE u \notin StartVisit(t)
  <2> DEFINE counted == [t EXCEPT !.turnsShown = UpTo(@ + 1, MAX_TURNS)]
  <2>1. u = counted \/ u = ShowPage(counted, NextPageOf(counted))
    BY <1>2 DEF Turn
  <2>2. /\ Typed(counted) /\ InPlace(counted) /\ SamePass(t, counted)
        /\ SameVisit(t, counted)
    BY DEF Good, Typed, TvFields, InPlace, SamePass, SameVisit
  <2> HIDE DEF counted
  <2>3. /\ Typed(u) /\ InPlace(u) /\ SamePass(counted, u)
        /\ SameVisit(counted, u)
    <3>1. CASE u = counted
      BY <3>1, <2>2 DEF SamePass, SameVisit
    <3>2. CASE u = ShowPage(counted, NextPageOf(counted))
      BY <3>2, <2>2, ShowPageKeeps
    <3>3. QED BY <2>1, <3>1, <3>2
  <2>4. SamePass(t, u) /\ SameVisit(t, u)
    BY <2>2, <2>3 DEF SamePass, SameVisit
  <2>5. Waits(u)
    BY <2>4 DEF Good, Waits, SameVisit, Endless
  <2>6. QED BY <2>3, <2>4, <2>5, SamePassKeeps DEF Good
<1>3. QED BY <1>1, <1>2

LEMMA SettleKeeps ==
  ASSUME NEW t, Good(t), t.visiting = TRUE, NEW good, NEW u \in Settle(t, good)
  PROVE  Good(u) /\ Plays(t, u)
<1>1. CASE good # {}
  <2> DEFINE shown == UpTo(t.shownInVisit + Cardinality(good), MAX_SHOWN)
  <2>1. u = [t EXCEPT !.loading = {}, !.failures = 0, !.shownInVisit = shown]
    BY <1>1 DEF Settle
  <2> HIDE DEF shown
  <2>2. Typed(u) /\ InPlace(u) /\ Waits(u) /\ SamePass(t, u)
    BY <2>1 DEF Good, Typed, TvFields, InPlace, Waits, Endless, SamePass
  <2>3. QED BY <2>2, SamePassKeeps DEF Good
<1>2. CASE good = {}
  <2> DEFINE failed == [t EXCEPT !.failures =
                          UpTo(@ + Cardinality(t.loading), MAX_FAILED)]
             void   == [failed EXCEPT !.stalled = TRUE]
  <2>1. u \in EndVisit(void, TRUE) \/ u \in ShowNextPhoto(failed)
    BY <1>2 DEF Settle
  <2>2. /\ Typed(failed) /\ InPlace(failed) /\ Waits(failed)
        /\ SamePass(t, failed) /\ failed.visiting = TRUE
    BY DEF Good, Typed, TvFields, InPlace, Waits, Endless, SamePass
  <2> HIDE DEF failed
  <2>3. Typed(void) /\ InPlace(void) /\ SamePass(failed, void)
    BY <2>2 DEF Typed, TvFields, InPlace, SamePass
  <2> HIDE DEF void
  <2>4. Dealt(failed)
    BY <2>2, SamePassKeeps DEF Good
  <2>5. Dealt(void) /\ SamePass(t, void)
    BY <2>2, <2>3, <2>4, SamePassKeeps DEF SamePass
  <2>6. CASE u \in EndVisit(void, TRUE)
    <3>1. Good(u) /\ Plays(void, u)
      BY <2>3, <2>5, <2>6, EndVisitKeeps
    <3>2. QED BY <2>5, <3>1 DEF SamePass, Plays
  <2>7. CASE u \in ShowNextPhoto(failed)
    <3>1. Good(u) /\ Plays(failed, u)
      BY <2>2, <2>4, <2>7, ShowNextPhotoKeeps DEF Good
    <3>2. QED BY <2>2, <3>1 DEF SamePass, Plays
  <2>8. QED BY <2>1, <2>6, <2>7
<1>3. QED BY <1>1, <1>2

LEMMA UpcomingTurnKeeps ==
  ASSUME NEW t, Good(t), t.visiting = FALSE
  PROVE  LET u == UpcomingTurn(t) IN Good(u) /\ SamePass(t, u)
<1>1. PICK tick : tick = PanelTick(t)
  OBVIOUS
<1>2. /\ Typed(tick) /\ InPlace(tick) /\ SamePass(t, tick)
      /\ SameVisit(t, tick)
  BY <1>1, PanelTickKeeps DEF Good
<1>3. PICK u : u = CrossFadeTick(tick)
  OBVIOUS
<1>4. /\ Typed(u) /\ InPlace(u) /\ SamePass(tick, u) /\ SameVisit(tick, u)
  <2>1. tick.visiting = FALSE
    BY <1>2 DEF SameVisit
  <2>2. QED BY <1>2, <1>3, <2>1, CrossFadeTickKeeps
<1>5. SamePass(t, u) /\ SameVisit(t, u)
  BY <1>2, <1>4 DEF SamePass, SameVisit
<1>6. Waits(u)
  BY <1>5 DEF Good, Waits, SameVisit, Endless
<1>7. u = UpcomingTurn(t)
  BY <1>1, <1>3 DEF UpcomingTurn
<1>8. QED BY <1>4, <1>5, <1>6, <1>7, SamePassKeeps DEF Good

(* The end of a hold takes down whichever of the two is up.                *)
LEMMA HoldEndKeeps ==
  ASSUME NEW t, Good(t), t.overlays # <<>> \/ t.panel,
         NEW u, u = IF t.panel THEN PanelHide(t) ELSE CrossFadeForceEnd(t)
  PROVE  Good(u) /\ SamePass(t, u)
<1>1. Typed(u) /\ Bare(u) /\ SamePass(t, u) /\ SameVisit(t, u)
  <2>1. CASE t.panel
    <3>1. t.overlays = <<>>
      BY <2>1 DEF Good, InPlace
    <3>2. QED
      BY <2>1, <3>1 DEF PanelHide, Good, Typed, TvFields, Bare, SamePass, SameVisit
  <2>2. CASE ~t.panel
    BY <2>2 DEF CrossFadeForceEnd, Good, Typed, TvFields, Bare, SamePass, SameVisit
  <2>3. QED BY <2>1, <2>2
<1>2. Waits(u)
  BY <1>1 DEF Good, Waits, SameVisit, Endless
<1>3. QED BY <1>1, <1>2, BareInPlace, SamePassKeeps DEF Good

LEMMA BootGood == Good(Boot)
<1>1. Typed(Boot) /\ Bare(Boot)
  BY DEF Typed, TvFields, Bare, Boot
<1>2. Dealt(Boot) /\ Waits(Boot)
  BY DEF Dealt, Waits, Boot, NoAlbum
<1>3. QED BY <1>1, <1>2, BareInPlace DEF Good

-----------------------------------------------------------------------------
(* The steps of the TV.                                                    *)

ScreenInv == server \in Scenes /\ Good(tv)

LEMMA StepKeeps ==
  ASSUME ScreenInv, [Next]_vars
  PROVE  Good(tv') /\ (tv'.feed = tv.feed => Plays(tv, tv'))
<1> USE DEF ScreenInv
<1>1. CASE UNCHANGED tv
  BY <1>1 DEF Plays
<1>2. CASE Poll
  <2>1. View[server] \in Views
    BY DEF Views
  <2>2. PICK board : board = View[server]
    OBVIOUS
  <2>3. PICK u : u = tv'
    OBVIOUS
  <2>4. u \in PollResult(tv, board)
    BY <1>2, <2>2, <2>3 DEF Poll
  <2>5. Good(u) /\ (u.feed = tv.feed => Plays(tv, u))
    BY <2>1, <2>2, <2>4, PollResultKeeps
  <2>6. QED BY <2>3, <2>5
<1>3. CASE CarouselTick
  BY <1>3, TurnKeeps DEF CarouselTick, Good, Typed
<1>4. CASE NextPage
  <2>1. CASE tv.visiting
    <3>1. tv.visiting = TRUE /\ tv' \in ShowNextPhoto(tv)
      BY <1>4, <2>1 DEF NextPage, Good, Typed
    <3>2. QED BY <3>1, ShowNextPhotoKeeps
  <2>2. CASE ~tv.visiting
    <3>1. tv.visiting = FALSE /\ tv' \in Turn(tv)
      BY <1>4, <2>2 DEF NextPage, Good, Typed
    <3>2. QED BY <3>1, TurnKeeps
  <2>3. QED BY <2>1, <2>2
<1>5. CASE GoToPage
  <2>1. PICK i : tv' = ShowPage(tv, i)
    BY <1>5 DEF GoToPage
  <2>2. PICK u : u = tv'
    OBVIOUS
  <2>3. Typed(u) /\ InPlace(u) /\ SamePass(tv, u) /\ SameVisit(tv, u)
    BY <2>1, <2>2, ShowPageKeeps DEF Good
  <2>4. Waits(u)
    BY <2>3 DEF Good, Waits, SameVisit, Endless
  <2>5. QED BY <2>2, <2>3, <2>4, SamePassKeeps DEF Good
<1>6. CASE UpcomingTick
  <2>1. tv.visiting = FALSE /\ tv' = UpcomingTurn(tv)
    BY <1>6 DEF UpcomingTick, Good, Typed
  <2>2. Good(tv') /\ SamePass(tv, tv')
    BY <2>1, UpcomingTurnKeeps
  <2>3. QED BY <2>2, SamePassKeeps
<1>7. CASE HoldEnds
  <2>1. Good(tv') /\ SamePass(tv, tv')
    BY <1>7, HoldEndKeeps DEF HoldEnds
  <2>2. QED BY <2>1, SamePassKeeps
<1>8. CASE PhotoTimer
  BY <1>8, ShowNextPhotoKeeps DEF PhotoTimer, Good, Typed
<1>9. CASE Loaded
  <2>1. tv.visiting = TRUE
    BY <1>9 DEF Loaded, Good, Waits, Typed
  <2>2. PICK good : tv' \in Settle(tv, good)
    BY <1>9 DEF Loaded
  <2>3. QED BY <2>1, <2>2, SettleKeeps
<1>10. CASE Reload
  <2>1. tv' = Boot
    BY <1>10 DEF Reload
  <2>2. Boot.feed.order # "shuffle"
    BY DEF Boot, NoAlbum
  <2>3. QED BY <2>1, <2>2, BootGood DEF Plays
<1>11. QED
  BY <1>1, <1>2, <1>3, <1>4, <1>5, <1>6, <1>7, <1>8, <1>9, <1>10
     DEF Next, ServerChanges, vars

LEMMA Screens == Spec => []ScreenInv
<1>1. Init => ScreenInv
  BY BootGood DEF Init, ScreenInv
<1>2. ScreenInv /\ [Next]_vars => ScreenInv'
  <2> SUFFICES ASSUME ScreenInv, [Next]_vars PROVE ScreenInv'
    OBVIOUS
  <2>1. server' \in Scenes
    BY DEF ScreenInv, Next, vars, ServerChanges, Poll, CarouselTick, NextPage,
           GoToPage, UpcomingTick, HoldEnds, PhotoTimer, Loaded, Reload
  <2>2. QED BY <2>1, StepKeeps DEF ScreenInv
<1>3. QED BY <1>1, <1>2, PTL DEF Spec

(* Whatever boards arrive, and whenever, nothing is ever drawn where it    *)
(* does not belong (display.js showPage, panelTick, crossFadeTick,         *)
(* startVisit, fullRender).                                                *)
THEOREM NothingMisplaced == Spec => []OverlaysInPlace
<1>1. ScreenInv => OverlaysInPlace
  BY DEF ScreenInv, Good, InPlace, OverlaysInPlace
<1>2. QED BY <1>1, Screens, PTL

(* A board waits only behind a visit that will end, and images load only   *)
(* in a visit (display.js poll, endVisit, albumUpdate).                    *)
THEOREM NoBoardLeftWaiting == Spec => []BoardWaitsForVisit
<1>1. ScreenInv => BoardWaitsForVisit
  BY DEF ScreenInv, Good, Waits, BoardWaitsForVisit
<1>2. QED BY <1>1, Screens, PTL

(* However the photos change under it and however visits are cut short,    *)
(* Shuffle shows every ready photo once before any comes round again       *)
(* (display.js nextPhoto, takeSpread, albumUpdate).                        *)
THEOREM ShuffleFair == Spec => ShuffleShowsEachOnce
<1> DEFINE Pass == tv.feed.order = "shuffle" =>
                     /\ tv.queue \cup tv.passShown = PhotoIds(tv)
                     /\ tv.queue \cap tv.passShown = {}
           Taking == tv.feed.order = "shuffle" /\ tv'.feed = tv.feed =>
                       tv.passShown \subseteq tv'.passShown \/ tv.queue = {}
<1>1. ScreenInv => Pass
  BY DEF ScreenInv, Good, Dealt
<1>2. ScreenInv /\ [Next]_vars => [Taking]_vars
  BY StepKeeps DEF Plays
<1>3. QED BY <1>1, <1>2, Screens, PTL DEF Spec, ShuffleShowsEachOnce

-----------------------------------------------------------------------------
(* The order of what a board lists: a sorted set is the set, each element  *)
(* at the place its rank says.                                             *)

LEMMA Least ==
  ASSUME NEW T, T \subseteq Nat, T # {}
  PROVE  \E k \in T : \A j \in T : k <= j
<1>1. PICK k \in T : \A j \in T : ~(<<j, k>> \in OpToRel(<, Nat))
  BY NatLessThanWellFounded, WFMin
<1>2. \A j \in T : ~(j < k)
  BY <1>1 DEF OpToRel
<1>3. QED BY <1>2

(* A strict order of all of S, as the set of its pairs.                    *)
Orders(R, S) ==
  /\ \A x \in S : <<x, x>> \notin R
  /\ \A x, y, z \in S : <<x, y>> \in R /\ <<y, z>> \in R => <<x, z>> \in R
  /\ \A x, y \in S : x # y => <<x, y>> \in R \/ <<y, x>> \in R

Ahead(R, S, x) == {y \in S : <<y, x>> \in R}
Rank(R, S) == [x \in S |-> Cardinality(Ahead(R, S, x))]

LEMMA RankType ==
  ASSUME NEW S, IsFiniteSet(S), NEW R, Orders(R, S), NEW x \in S
  PROVE  /\ IsFiniteSet(Ahead(R, S, x))
         /\ Cardinality(Ahead(R, S, x)) \in 0..(Cardinality(S) - 1)
<1>1. Ahead(R, S, x) \in SUBSET (S \ {x})
  BY DEF Ahead, Orders
<1>2. IsFiniteSet(S \ {x}) /\ Cardinality(S \ {x}) = Cardinality(S) - 1
  BY FS_RemoveElement
<1>3. /\ IsFiniteSet(Ahead(R, S, x))
      /\ Cardinality(Ahead(R, S, x)) <= Cardinality(S \ {x})
  BY <1>1, <1>2, FS_Subset
<1>4. Cardinality(S) \in Nat
  BY FS_CardinalityType
<1>5. Cardinality(Ahead(R, S, x)) \in Nat
  BY <1>3, FS_CardinalityType
<1>6. QED
  BY <1>2, <1>3, <1>4, <1>5

LEMMA RankGrows ==
  ASSUME NEW S, IsFiniteSet(S), NEW R, Orders(R, S),
         NEW x \in S, NEW y \in S, <<x, y>> \in R
  PROVE  Cardinality(Ahead(R, S, x)) < Cardinality(Ahead(R, S, y))
<1>1. Ahead(R, S, x) \in SUBSET Ahead(R, S, y) /\ Ahead(R, S, x) # Ahead(R, S, y)
  BY DEF Ahead, Orders
<1>2. IsFiniteSet(Ahead(R, S, y))
  BY RankType
<1>3. /\ Cardinality(Ahead(R, S, x)) <= Cardinality(Ahead(R, S, y))
      /\ Cardinality(Ahead(R, S, x)) # Cardinality(Ahead(R, S, y))
  BY <1>1, <1>2, FS_Subset
<1>4. Cardinality(Ahead(R, S, x)) \in Int /\ Cardinality(Ahead(R, S, y)) \in Int
  BY RankType
<1>5. QED
  BY <1>3, <1>4

(* An element's rank is its place: every place is taken, by one element.   *)
LEMMA RankPlaces ==
  ASSUME NEW S, IsFiniteSet(S), NEW R, Orders(R, S)
  PROVE  Rank(R, S) \in Bijection(S, 0..(Cardinality(S) - 1))
<1> DEFINE n == Cardinality(S)
           T == 0..(n - 1)
<1>1. Rank(R, S) \in [S -> T]
  BY RankType DEF Rank
<1>2. ASSUME NEW x \in S, NEW y \in S, Rank(R, S)[x] = Rank(R, S)[y]
      PROVE  x = y
  <2>1. Cardinality(Ahead(R, S, x)) = Cardinality(Ahead(R, S, y))
    BY <1>2 DEF Rank
  <2>2. Cardinality(Ahead(R, S, x)) \in Int /\ Cardinality(Ahead(R, S, y)) \in Int
    BY RankType
  <2>3. ~(<<x, y>> \in R)
    <3>1. <<x, y>> \in R => Cardinality(Ahead(R, S, x)) < Cardinality(Ahead(R, S, y))
      BY RankGrows
    <3>2. QED BY <2>1, <2>2, <3>1
  <2>4. ~(<<y, x>> \in R)
    <3>1. <<y, x>> \in R => Cardinality(Ahead(R, S, y)) < Cardinality(Ahead(R, S, x))
      BY RankGrows
    <3>2. QED BY <2>1, <2>2, <3>1
  <2>5. QED BY <2>3, <2>4 DEF Orders
<1>3. Rank(R, S) \in Injection(S, T)
  BY <1>1, <1>2, Fun_IsInj
<1>4. n \in Nat
  BY FS_CardinalityType
<1>5. IsFiniteSet(T) /\ Cardinality(T) = n
  <2>1. IsFiniteSet(T) /\ Cardinality(T) = (IF 0 > n - 1 THEN 0 ELSE (n - 1) - 0 + 1)
    BY <1>4, FS_Interval
  <2>2. QED BY <1>4, <2>1
<1>6. Rank(R, S) \in Surjection(S, T)
  BY <1>3, <1>5, FS_Injection
<1>7. QED
  BY <1>3, <1>6 DEF Bijection

LEMMA RankTells ==
  ASSUME NEW S, IsFiniteSet(S), NEW R, Orders(R, S)
  PROVE  /\ \A a, b \in S : Rank(R, S)[a] = Rank(R, S)[b] => a = b
         /\ \A i \in 0..(Cardinality(S) - 1) : \E x \in S : Rank(R, S)[x] = i
         /\ Rank(R, S) \in [S -> 0..(Cardinality(S) - 1)]
<1>1. PICK r, T : r = Rank(R, S) /\ T = 0..(Cardinality(S) - 1)
  OBVIOUS
<1>2. r \in Bijection(S, T)
  BY <1>1, RankPlaces
<1>3. /\ \A a, b \in S : r[a] = r[b] => a = b
      /\ \A i \in T : \E x \in S : r[x] = i
      /\ r \in [S -> T]
  BY ONLY <1>2, Fun_BijectionProperties
<1>4. QED BY <1>1, <1>3

(* As many as the limit allows stand at a place below it.                  *)
LEMMA CountBelow ==
  ASSUME NEW S, IsFiniteSet(S), NEW R, Orders(R, S), NEW c \in Nat
  PROVE  Cardinality({x \in S : Cardinality(Ahead(R, S, x)) < c})
            = (IF Cardinality(S) < c THEN Cardinality(S) ELSE c)
<1> DEFINE n == Cardinality(S)
           m == IF n < c THEN n ELSE c
           K == {x \in S : Cardinality(Ahead(R, S, x)) < c}
           F == [x \in K |-> Rank(R, S)[x]]
           T == 0..(m - 1)
<1>1. n \in Nat /\ m \in Nat
  BY FS_CardinalityType
<1>2. /\ \A a, b \in S : Rank(R, S)[a] = Rank(R, S)[b] => a = b
      /\ \A i \in 0..(n - 1) : \E x \in S : Rank(R, S)[x] = i
      /\ Rank(R, S) \in [S -> 0..(n - 1)]
  BY RankTells
<1>3. \A x \in S : Rank(R, S)[x] = Cardinality(Ahead(R, S, x))
  BY DEF Rank
<1> HIDE DEF n
<1>4. F \in [K -> T]
  BY <1>1, <1>2, <1>3
<1>5. \A a, b \in K : F[a] = F[b] => a = b
  BY <1>2
<1>6. \A i \in T : \E x \in K : F[x] = i
  <2>1. SUFFICES ASSUME NEW i \in T PROVE \E x \in K : F[x] = i
    OBVIOUS
  <2>2. i \in 0..(n - 1) /\ i < c
    BY <1>1
  <2>3. PICK x \in S : Rank(R, S)[x] = i
    BY <1>2, <2>2
  <2>4. x \in K
    BY <1>3, <2>2, <2>3
  <2>5. QED BY <2>3, <2>4
<1> HIDE DEF F
<1>7. F \in Bijection(K, T)
  BY <1>4, <1>5, <1>6, Fun_IsBij
<1>8. IsFiniteSet(K)
  BY FS_Subset
<1>9. Cardinality(T) = Cardinality(K)
  BY <1>7, <1>8, FS_Bijection DEF ExistsBijection
<1>10. Cardinality(T) = m
  <2>1. Cardinality(T) = (IF 0 > m - 1 THEN 0 ELSE (m - 1) - 0 + 1)
    BY <1>1, FS_Interval
  <2>2. QED BY <1>1, <2>1
<1>11. QED
  BY <1>9, <1>10 DEF n

(* Each place of f holds whichever element has that place in R.            *)
Places(f, R, S) ==
  /\ DOMAIN f = 1..Cardinality(S)
  /\ \A k \in 1..Cardinality(S) :
       (\E e \in S : Cardinality(Ahead(R, S, e)) = k - 1) =>
          f[k] \in S /\ Cardinality(Ahead(R, S, f[k])) = k - 1

(* A sorted set is the set, element by element, each where its rank says.  *)
LEMMA SortedIs ==
  ASSUME NEW S, IsFiniteSet(S), NEW R, Orders(R, S),
         NEW f, Places(f, R, S)
  PROVE  /\ DOMAIN f = 1..Cardinality(S)
         /\ \A k \in DOMAIN f : f[k] \in S
         /\ \A e \in S : \E k \in DOMAIN f : f[k] = e
         /\ \A j, k \in DOMAIN f : j < k => <<f[j], f[k]>> \in R
<1> DEFINE n == Cardinality(S)
<1>1. n \in Nat
  BY FS_CardinalityType
<1>2. /\ \A a, b \in S : Rank(R, S)[a] = Rank(R, S)[b] => a = b
      /\ \A i \in 0..(n - 1) : \E x \in S : Rank(R, S)[x] = i
      /\ Rank(R, S) \in [S -> 0..(n - 1)]
  BY RankTells
<1>3. \A x \in S : Rank(R, S)[x] = Cardinality(Ahead(R, S, x))
  BY DEF Rank
<1>4. DOMAIN f = 1..n
  BY DEF Places
<1>5. \A k \in 1..n : (\E e \in S : Cardinality(Ahead(R, S, e)) = k - 1) =>
         f[k] \in S /\ Cardinality(Ahead(R, S, f[k])) = k - 1
  BY DEF Places
<1> HIDE DEF n
<1>6. ASSUME NEW k \in 1..n
      PROVE  f[k] \in S /\ Cardinality(Ahead(R, S, f[k])) = k - 1
  <2>1. k - 1 \in 0..(n - 1)
    BY <1>1
  <2>2. \E x \in S : Cardinality(Ahead(R, S, x)) = k - 1
    BY <1>2, <1>3, <2>1
  <2>3. QED BY <1>5, <2>2
<1>7. ASSUME NEW e \in S PROVE \E k \in 1..n : f[k] = e
  <2>1. PICK i : i = Rank(R, S)[e]
    OBVIOUS
  <2>2. i \in 0..(n - 1)
    BY <1>2, <2>1
  <2>3. i + 1 \in 1..n /\ (i + 1) - 1 = i
    BY <1>1, <2>2
  <2>4. f[i + 1] \in S /\ Rank(R, S)[f[i + 1]] = i
    BY <1>3, <1>6, <2>3
  <2>5. f[i + 1] = e
    BY <1>2, <2>1, <2>4
  <2>6. QED BY <2>3, <2>5
<1>8. ASSUME NEW j \in 1..n, NEW k \in 1..n, j < k PROVE <<f[j], f[k]>> \in R
  <2>1. PICK x, y : x = f[j] /\ y = f[k]
    OBVIOUS
  <2>2. x \in S /\ y \in S
    BY <1>6, <2>1
  <2>3. Cardinality(Ahead(R, S, x)) = j - 1 /\ Cardinality(Ahead(R, S, y)) = k - 1
    BY <1>6, <2>1
  <2>4. ~(k - 1 < j - 1) /\ j - 1 # k - 1
    BY <1>1, <1>8
  <2>5. x # y
    BY <2>3, <2>4
  <2>6. <<y, x>> \in R => k - 1 < j - 1
    BY <2>2, <2>3, RankGrows
  <2>7. <<x, y>> \in R
    BY <2>2, <2>4, <2>5, <2>6 DEF Orders
  <2>8. QED BY <2>1, <2>7
<1>9. QED
  BY <1>4, <1>6, <1>7, <1>8 DEF n

(* The order of the Upcoming store, as the set of its pairs.               *)
Comes(S) == {p \in S \X S : Before(p[1], p[2])}
Entry(e) == e.id \in Int /\ e.rank \in Int /\ e.rev \in Int

(* The sort key of the Upcoming store orders the Batches.                  *)
LEMMA BeforeOrders ==
  ASSUME NEW S, \A e \in S : Entry(e), \A e, f \in S : e.id = f.id => e = f
  PROVE  /\ Orders(Comes(S), S)
         /\ \A e \in S : Ahead(Comes(S), S, e) = {x \in S : Before(x, e)}
<1>1. \A x, y \in S : <<x, y>> \in Comes(S) <=> Before(x, y)
  BY DEF Comes
<1>2. \A x \in S : ~Before(x, x)
  BY DEF Before, Entry
<1>3. \A x, y, z \in S : Before(x, y) /\ Before(y, z) => Before(x, z)
  BY DEF Before, Entry
<1>4. \A x, y \in S : x # y => Before(x, y) \/ Before(y, x)
  BY DEF Before, Entry
<1>5. Orders(Comes(S), S)
  BY <1>1, <1>2, <1>3, <1>4 DEF Orders
<1>6. \A e \in S : Ahead(Comes(S), S, e) = {x \in S : Before(x, e)}
  BY <1>1 DEF Ahead
<1>7. QED BY <1>5, <1>6

\* Sorted's two uses: the Batches in the store's order, and numbers.
Listed(S) == Sorted(S, Before)
Counted(S) == Sorted(S, Less)

LEMMA SortedUpcoming ==
  ASSUME NEW S, IsFiniteSet(S),
         \A e \in S : Entry(e), \A e, f \in S : e.id = f.id => e = f
  PROVE  /\ DOMAIN Listed(S) = 1..Cardinality(S)
         /\ \A k \in DOMAIN Listed(S) : Listed(S)[k] \in S
         /\ \A e \in S : \E k \in DOMAIN Listed(S) : Listed(S)[k] = e
         /\ \A j, k \in DOMAIN Listed(S) : j < k => Before(Listed(S)[j], Listed(S)[k])
<1>1. Orders(Comes(S), S)
  BY BeforeOrders
<1>2. \A e \in S : Ahead(Comes(S), S, e) = {x \in S : Before(x, e)}
  BY BeforeOrders
<1> DEFINE Place(e) == Cardinality({x \in S : Before(x, e)})
<1>3. PICK f : f = Listed(S)
  OBVIOUS
<1>4. f = [k \in 1..Cardinality(S) |-> CHOOSE e \in S : Place(e) = k - 1]
  BY <1>3 DEF Sorted, Listed
<1>5. \A e \in S : Place(e) = Cardinality(Ahead(Comes(S), S, e))
  BY <1>2
<1> HIDE DEF Place
<1>6. /\ DOMAIN f = 1..Cardinality(S)
      /\ \A k \in 1..Cardinality(S) : f[k] = CHOOSE e \in S : Place(e) = k - 1
  BY <1>4
<1>7. \A k \in 1..Cardinality(S) :
         (\E e \in S : Cardinality(Ahead(Comes(S), S, e)) = k - 1) =>
            f[k] \in S /\ Cardinality(Ahead(Comes(S), S, f[k])) = k - 1
  BY <1>5, <1>6
<1>8. /\ \A k \in DOMAIN f : f[k] \in S
      /\ \A e \in S : \E k \in DOMAIN f : f[k] = e
      /\ \A j, k \in DOMAIN f : j < k => Before(f[j], f[k])
  <2>1. Places(f, Comes(S), S)
    BY <1>6, <1>7 DEF Places
  <2>2. /\ \A k \in DOMAIN f : f[k] \in S
        /\ \A e \in S : \E k \in DOMAIN f : f[k] = e
        /\ \A j, k \in DOMAIN f : j < k => <<f[j], f[k]>> \in Comes(S)
    BY <2>1, <1>1, SortedIs, <1>6
  <2>3. \A x, y \in S : <<x, y>> \in Comes(S) => Before(x, y)
    BY DEF Comes
  <2>4. QED BY <2>2, <2>3
<1>9. QED
  BY <1>3, <1>6, <1>8

(* The order of numbers, likewise.                                         *)
Lower(S) == {p \in S \X S : p[1] < p[2]}

LEMMA SortedNumbers ==
  ASSUME NEW S, IsFiniteSet(S), S \subseteq Int
  PROVE  /\ DOMAIN Counted(S) = 1..Cardinality(S)
         /\ \A k \in DOMAIN Counted(S) : Counted(S)[k] \in S
         /\ \A i \in S : \E k \in DOMAIN Counted(S) : Counted(S)[k] = i
         /\ \A j, k \in DOMAIN Counted(S) : j < k => Counted(S)[j] < Counted(S)[k]
<1>1. \A i, j \in S : <<i, j>> \in Lower(S) <=> i < j
  BY DEF Lower
<1>2. Orders(Lower(S), S)
  BY <1>1 DEF Orders
<1>3. \A i \in S : Ahead(Lower(S), S, i) = {j \in S : j < i}
  BY <1>1 DEF Ahead
<1> DEFINE Place(i) == Cardinality({j \in S : j < i})
<1>4. PICK f : f = Counted(S)
  OBVIOUS
<1>5. f = [k \in 1..Cardinality(S) |-> CHOOSE i \in S : Place(i) = k - 1]
  BY <1>4 DEF Sorted, Less, Counted
<1>6. \A i \in S : Place(i) = Cardinality(Ahead(Lower(S), S, i))
  BY <1>3
<1> HIDE DEF Place
<1>7. /\ DOMAIN f = 1..Cardinality(S)
      /\ \A k \in 1..Cardinality(S) : f[k] = CHOOSE i \in S : Place(i) = k - 1
  BY <1>5
<1>8. \A k \in 1..Cardinality(S) :
         (\E i \in S : Cardinality(Ahead(Lower(S), S, i)) = k - 1) =>
            f[k] \in S /\ Cardinality(Ahead(Lower(S), S, f[k])) = k - 1
  BY <1>6, <1>7
<1>9. /\ \A k \in DOMAIN f : f[k] \in S
      /\ \A i \in S : \E k \in DOMAIN f : f[k] = i
      /\ \A j, k \in DOMAIN f : j < k => f[j] < f[k]
  <2>1. Places(f, Lower(S), S)
    BY <1>7, <1>8 DEF Places
  <2>2. IsFiniteSet(S) /\ Orders(Lower(S), S)
    BY <1>2
  <2>3. /\ \A k \in DOMAIN f : f[k] \in S
        /\ \A i \in S : \E k \in DOMAIN f : f[k] = i
        /\ \A j, k \in DOMAIN f : j < k => <<f[j], f[k]>> \in Lower(S)
    BY ONLY <2>1, <2>2, SortedIs
  <2>4. QED BY <1>1, <2>3
<1>10. QED
  BY <1>4, <1>7, <1>9

(* What stands at some positions is just that, in their order.             *)
Takes(at, seq, positions) ==
  \E p :
    /\ DOMAIN at = 1..Cardinality(positions)
    /\ \A k \in DOMAIN at : p[k] \in positions /\ at[k] = seq[p[k]]
    /\ \A i \in positions : \E k \in DOMAIN at : p[k] = i
    /\ \A j, k \in DOMAIN at : j < k => p[j] < p[k]

LEMMA AtIs ==
  ASSUME NEW seq, NEW positions, IsFiniteSet(positions), positions \subseteq Int
  PROVE  Takes(At(seq, positions), seq, positions)
<1>1. PICK p, at : p = Counted(positions) /\ at = At(seq, positions)
  OBVIOUS
<1>2. at = [k \in DOMAIN p |-> seq[p[k]]]
  BY <1>1 DEF At, Counted
<1>3. /\ \A i \in positions : \E k \in DOMAIN p : p[k] = i
      /\ \A k \in DOMAIN p : p[k] \in positions
      /\ \A j, k \in DOMAIN p : j < k => p[j] < p[k]
      /\ DOMAIN p = 1..Cardinality(positions)
  BY <1>1, SortedNumbers
<1>4. DOMAIN at = DOMAIN p /\ \A k \in DOMAIN p : at[k] = seq[p[k]]
  BY ONLY <1>2
<1>5. Takes(at, seq, positions)
  BY ONLY <1>3, <1>4 DEF Takes
<1>6. QED BY <1>1, <1>5

-----------------------------------------------------------------------------
(* Pages, and what is on them.                                             *)

(* The k-th card is on page (k - 1) \div size + 1.                         *)
LEMMA PageOfCard ==
  ASSUME NEW size \in 1..MAX_CARDS_PER_PAGE, NEW n \in Nat, NEW k \in 1..n
  PROVE  LET c == ((k - 1) \div size) + 1
         IN /\ c \in 1..((n + size - 1) \div size)
            /\ (c - 1) * size + 1 \in Nat
            /\ (c - 1) * size + 1 <= k
            /\ k <= c * size
            /\ c * size \in Nat
<1>1. size \in {1, 2, 3, 4, 5, 6, 7, 8}
  BY DEF MAX_CARDS_PER_PAGE
<1>2. CASE size = 1 BY <1>2
<1>3. CASE size = 2 BY <1>3
<1>4. CASE size = 3 BY <1>4
<1>5. CASE size = 4 BY <1>5
<1>6. CASE size = 5 BY <1>6
<1>7. CASE size = 6 BY <1>7
<1>8. CASE size = 7 BY <1>8
<1>9. CASE size = 8 BY <1>9
<1>10. QED
  BY <1>1, <1>2, <1>3, <1>4, <1>5, <1>6, <1>7, <1>8, <1>9

LEMMA ChunkCovers ==
  ASSUME NEW S, NEW seq \in Seq(S), NEW size \in 1..MAX_CARDS_PER_PAGE
  PROVE  /\ Chunk(seq, size) \in Seq(Seq(S))
         /\ \A k \in DOMAIN seq : \E c \in DOMAIN Chunk(seq, size) :
               seq[k] \in ToSet(Chunk(seq, size)[c])
<1> DEFINE n == Len(seq)
           m == (n + size - 1) \div size
           End(c) == IF c * size < n THEN c * size ELSE n
           Page(c) == SubSeq(seq, (c - 1) * size + 1, End(c))
<1>1. n \in Nat /\ DOMAIN seq = 1..n /\ seq \in [1..n -> S]
  BY LenProperties
<1>2. size \in Nat \ {0}
  BY DEF MAX_CARDS_PER_PAGE
<1>3. Chunk(seq, size) = [c \in 1..m |-> Page(c)]
  BY DEF Chunk
<1>4. ASSUME NEW c \in 1..m
      PROVE  /\ Page(c) \in Seq(S)
             /\ Len(Page(c)) = (IF (c - 1) * size + 1 <= End(c)
                                THEN End(c) - ((c - 1) * size + 1) + 1 ELSE 0)
             /\ \A i \in 1..(End(c) - ((c - 1) * size + 1) + 1) :
                   Page(c)[i] = seq[(c - 1) * size + 1 + i - 1]
  <2>1. PICK a, z : a = (c - 1) * size + 1 /\ z = End(c)
    OBVIOUS
  <2>2. c \in Nat \ {0}
    OBVIOUS
  <2>3. c * size \in Nat /\ (c - 1) * size \in Nat
    BY <1>2, <2>2
  <2>4. a \in Nat \ {0} /\ z \in Nat /\ z <= n
    <3>1. PICK x, y : x = (c - 1) * size /\ y = c * size
      OBVIOUS
    <3>2. a = x + 1 /\ z = (IF y < n THEN y ELSE n) /\ x \in Nat /\ y \in Nat
      BY <2>1, <2>3, <3>1
    <3>3. PICK l : l = n
      OBVIOUS
    <3>4. l \in Nat /\ z = (IF y < l THEN y ELSE l)
      BY <1>1, <3>2, <3>3
    <3>5. a \in Nat \ {0}
      BY ONLY <3>2
    <3>6. z \in Nat /\ z <= l
      BY ONLY <3>2, <3>4
    <3>7. QED BY ONLY <3>3, <3>5, <3>6
  <2>5. \A i \in a..z : seq[i] \in S
    BY <1>1, <2>4
  <2>6. /\ SubSeq(seq, a, z) \in Seq(S)
        /\ Len(SubSeq(seq, a, z)) = (IF a <= z THEN z - a + 1 ELSE 0)
        /\ \A i \in 1..(z - a + 1) : SubSeq(seq, a, z)[i] = seq[a + i - 1]
    BY <2>4, <2>5, SubSeqProperties
  <2> HIDE DEF End
  <2>7. QED BY <2>1, <2>6
<1>5. m \in Nat
  BY <1>1, <1>2
<1> HIDE DEF m
<1>6. Chunk(seq, size) \in Seq(Seq(S))
  <2> HIDE DEF Page
  <2>1. \A c \in 1..m : Page(c) \in Seq(S)
    BY <1>4
  <2>2. [c \in 1..m |-> Page(c)] \in Seq(Seq(S))
    BY <1>5, <2>1
  <2>3. QED BY <1>3, <2>2
<1>7. ASSUME NEW k \in 1..n
      PROVE  \E c \in 1..m : seq[k] \in ToSet(Page(c))
  <2>1. PICK c : c = ((k - 1) \div size) + 1
    OBVIOUS
  <2>2. /\ c \in 1..m /\ c * size \in Nat /\ (c - 1) * size + 1 \in Nat
        /\ (c - 1) * size + 1 <= k /\ k <= c * size
    BY <1>1, <2>1, PageOfCard DEF m
  <2>3. PICK a, z : a = (c - 1) * size + 1 /\ z = End(c)
    OBVIOUS
  <2>4. a \in Nat /\ z \in Nat /\ a <= k /\ k <= z
    <3>1. PICK y : y = c * size
      OBVIOUS
    <3>2. z = (IF y < n THEN y ELSE n) /\ y \in Nat /\ k <= y /\ a \in Nat /\ a <= k
      BY <2>2, <2>3, <3>1
    <3>3. k \in Nat /\ k <= n
      BY <1>1
    <3>4. QED BY ONLY <1>1, <3>2, <3>3
  <2>5. PICK p : p = Page(c)
    OBVIOUS
  <2> HIDE DEF Page, End
  <2>6. p \in Seq(S) /\ Len(p) = z - a + 1 /\ p[k - a + 1] = seq[a + (k - a + 1) - 1]
    <3>1. p \in Seq(S) /\ Len(p) = (IF a <= z THEN z - a + 1 ELSE 0)
          /\ \A i \in 1..(z - a + 1) : p[i] = seq[a + i - 1]
      BY <1>4, <2>2, <2>3, <2>5
    <3>2. k - a + 1 \in 1..(z - a + 1)
      BY <2>4
    <3>3. QED BY <2>4, <3>1, <3>2
  <2>7. a + (k - a + 1) - 1 = k /\ k - a + 1 \in 1..(z - a + 1)
    BY <2>4
  <2>8. seq[k] \in ToSet(p)
    BY <2>6, <2>7, LenProperties DEF ToSet
  <2>9. QED BY <2>2, <2>5, <2>8
<1>8. QED
  BY <1>1, <1>3, <1>6, <1>7

(* What ServerAssumption says of one state of the server.                  *)
Fits(srv) ==
  /\ srv.num_taps \in Nat /\ srv.page_size \in Nat \ {0} /\ srv.cap \in Nat
  /\ IsFiniteSet(srv.entries) /\ \A e \in srv.entries : Entry(e)
  /\ \A e, f \in srv.entries : e.id = f.id => e = f

LEMMA VisibleOnAPage ==
  ASSUME NEW b, NEW n \in Nat, DOMAIN b.taps = 1..n, b.page_size \in Nat \ {0},
         NEW i \in 1..n, ~b.taps[i].hidden
  PROVE  \E p \in DOMAIN ViewOf(b).pages : i \in ToSet(ViewOf(b).pages[p])
<1> DEFINE Shown == {j \in DOMAIN b.taps : ~b.taps[j].hidden}
<1>1. IsFiniteSet(1..n)
  BY FS_Interval
<1>2. IsFiniteSet(Shown) /\ Shown \subseteq Int
  BY <1>1, FS_Subset
<1>3. PICK seq : seq = VisibleTaps(b)
  OBVIOUS
<1>4. seq = Counted(Shown)
  BY <1>3 DEF VisibleTaps, Counted
<1>5. i \in Shown
  OBVIOUS
<1> HIDE DEF Shown
<1>6. /\ DOMAIN seq = 1..Cardinality(Shown)
      /\ \A k \in DOMAIN seq : seq[k] \in Int
      /\ \A j \in Shown : \E k \in DOMAIN seq : seq[k] = j
  <2>1. PICK S : S = Shown
    OBVIOUS
  <2>2. IsFiniteSet(S) /\ S \subseteq Int /\ seq = Counted(S)
    BY <1>2, <1>4, <2>1
  <2>3. /\ DOMAIN seq = 1..Cardinality(S)
        /\ \A k \in DOMAIN seq : seq[k] \in S
        /\ \A j \in S : \E k \in DOMAIN seq : seq[k] = j
    BY ONLY <2>2, SortedNumbers
  <2>4. QED BY <2>1, <2>2, <2>3
<1>7. seq \in Seq(Int)
  <2> DEFINE Kth(k) == CHOOSE j \in Shown : Cardinality({x \in Shown : x < j}) = k - 1
  <2>0. seq = [k \in 1..Cardinality(Shown) |-> Kth(k)]
    BY <1>4 DEF Counted, Sorted, Less
  <2> HIDE DEF Kth
  <2>1. seq = [k \in 1..Cardinality(Shown) |-> seq[k]]
    BY <2>0
  <2>2. Cardinality(Shown) \in Nat
    BY <1>2, FS_CardinalityType
  <2>3. [k \in 1..Cardinality(Shown) |-> seq[k]] \in Seq(Int)
    BY <1>6, <2>2
  <2>4. QED BY <2>1, <2>3
<1>8. PICK k \in DOMAIN seq : seq[k] = i
  BY <1>5, <1>6
<1>9. PageSize(b) \in 1..MAX_CARDS_PER_PAGE
  BY DEF PageSize, MAX_CARDS_PER_PAGE
<1>10. PICK pages : pages = Chunk(seq, PageSize(b))
  OBVIOUS
<1>11. pages \in Seq(Seq(Int)) /\ \E p \in DOMAIN pages : i \in ToSet(pages[p])
  BY <1>7, <1>8, <1>9, <1>10, ChunkCovers
<1>12. TapPages(b) = pages
  <2>1. seq # <<>>
    BY <1>8
  <2>2. QED BY <1>3, <1>10, <2>1 DEF TapPages
<1>13. PICK p \in DOMAIN pages : i \in ToSet(pages[p])
  BY <1>11
<1>14. CASE Some(DeckTeasers(b))
  <2>1. ViewOf(b).pages = Append(pages, <<>>)
    BY <1>12, <1>14 DEF ViewOf
  <2>2. Len(pages) \in Nat /\ DOMAIN pages = 1..Len(pages)
    BY <1>11, LenProperties
  <2>3. <<>> \in Seq(Int)
    BY EmptySeq
  <2>4. PICK more : more = Append(pages, <<>>)
    OBVIOUS
  <2>5. /\ more \in Seq(Seq(Int)) /\ Len(more) = Len(pages) + 1
        /\ \A q \in 1..Len(pages) : more[q] = pages[q]
    BY <1>11, <2>3, <2>4, AppendProperties
  <2>6. DOMAIN more = 1..Len(more)
    BY <2>5, LenProperties
  <2>7. p \in DOMAIN more /\ more[p] = pages[p]
    BY <1>13, <2>2, <2>5, <2>6
  <2>8. QED BY <1>13, <2>1, <2>4, <2>7
<1>15. CASE ~Some(DeckTeasers(b))
  <2>1. ViewOf(b).pages = pages
    BY <1>12, <1>15 DEF ViewOf
  <2>2. QED BY <1>13, <2>1
<1>16. QED BY <1>14, <1>15

Kept(srv) ==
  {e \in srv.entries :
     Pinned(srv, e) \/ Cardinality(UnpinnedBefore(srv, e)) < srv.cap}

InOrder(srv, upcoming) ==
  \E kept :
    /\ \A i \in DOMAIN upcoming :
          kept[i] \in srv.entries /\ upcoming[i] = ResolveUpcoming(srv, kept[i])
    /\ \A i, j \in DOMAIN upcoming : i < j => Before(kept[i], kept[j])

(* The board lists the Batches kept of the store, each as it resolves, in  *)
(* the store's order.                                                      *)
LEMMA UpcomingIs ==
  ASSUME NEW srv, Fits(srv), srv.show_upcoming
  PROVE  /\ DOMAIN Upcoming(srv) = 1..Cardinality(Kept(srv))
         /\ IsFiniteSet(DOMAIN Upcoming(srv)) /\ DOMAIN Upcoming(srv) \subseteq Nat
         /\ \A i \in DOMAIN Upcoming(srv) :
               \E e \in Kept(srv) : Upcoming(srv)[i] = ResolveUpcoming(srv, e)
         /\ \A e \in Kept(srv) :
               \E i \in DOMAIN Upcoming(srv) : Upcoming(srv)[i] = ResolveUpcoming(srv, e)
         /\ InOrder(srv, Upcoming(srv))
<1>1. PICK S : S = Kept(srv)
  OBVIOUS
<1>2. S \in SUBSET srv.entries /\ IsFiniteSet(srv.entries)
  BY <1>1 DEF Kept, Fits
<1>3. IsFiniteSet(S)
  BY <1>2, FS_Subset
<1>4. /\ \A e \in S : Entry(e)
      /\ \A e, f \in S : e.id = f.id => e = f
  BY <1>2 DEF Fits
<1>5. PICK seq : seq = Listed(S)
  OBVIOUS
<1>6. /\ DOMAIN seq = 1..Cardinality(S)
      /\ \A k \in DOMAIN seq : seq[k] \in S
      /\ \A e \in S : \E k \in DOMAIN seq : seq[k] = e
      /\ \A j, k \in DOMAIN seq : j < k => Before(seq[j], seq[k])
  BY <1>3, <1>4, <1>5, SortedUpcoming
<1>7. OrderUpcoming(srv) = seq
  BY <1>1, <1>5 DEF OrderUpcoming, Kept, Listed
<1>8. Upcoming(srv) = [i \in DOMAIN seq |-> ResolveUpcoming(srv, seq[i])]
  BY <1>7 DEF Upcoming
<1>9. PICK up : up = Upcoming(srv)
  OBVIOUS
<1>10. DOMAIN up = DOMAIN seq /\ \A i \in DOMAIN seq : up[i] = ResolveUpcoming(srv, seq[i])
  BY <1>8, <1>9
<1>11. Cardinality(S) \in Nat
  BY <1>3, FS_CardinalityType
<1>12. IsFiniteSet(DOMAIN up) /\ DOMAIN up \subseteq Nat
  BY <1>6, <1>10, <1>11, FS_Interval
<1>13. InOrder(srv, up)
  BY <1>2, <1>6, <1>10 DEF InOrder
<1>14. QED
  BY <1>1, <1>6, <1>9, <1>10, <1>12, <1>13

LEMMA ResolveIs ==
  ASSUME NEW srv, NEW e
  PROVE  LET u == ResolveUpcoming(srv, e)
         IN /\ u.id = e.id /\ u.slot = SlotOf(srv, e)
            /\ u.pinned <=> Pinned(srv, e)
            /\ u.cross_fade <=> (SlotOf(srv, e) # NoSlot /\ ~Pinned(srv, e) /\ srv.rotate)
            /\ u.on_surfaces <=> (srv.scope = "all" \/ (~u.pinned /\ ~u.cross_fade))
BY DEF ResolveUpcoming

(* What pours, or has a Batch pinned to it, is not hidden.                 *)
LEMMA NotHidden ==
  ASSUME NEW srv, Fits(srv), NEW tap
  PROVE  /\ ResolveTap(srv, tap) # Vacant => ~Hidden(srv, Upcoming(srv), tap)
         /\ \A e \in srv.entries :
               srv.show_upcoming /\ Pinned(srv, e) /\ SlotOf(srv, e) = tap =>
                  ~Hidden(srv, Upcoming(srv), tap)
<1>1. ResolveTap(srv, tap) # Vacant => ~Hidden(srv, Upcoming(srv), tap)
  BY DEF Hidden
<1>2. ASSUME NEW e \in srv.entries, srv.show_upcoming, Pinned(srv, e),
             SlotOf(srv, e) = tap
      PROVE  ~Hidden(srv, Upcoming(srv), tap)
  <2>1. e \in Kept(srv)
    BY <1>2 DEF Kept
  <2>2. PICK up : up = Upcoming(srv)
    OBVIOUS
  <2>3. PICK i \in DOMAIN up : up[i] = ResolveUpcoming(srv, e)
    BY <1>2, <2>1, <2>2, UpcomingIs
  <2>4. up[i].pinned /\ up[i].slot = tap
    BY <1>2, <2>3, ResolveIs
  <2>5. QED BY <2>2, <2>4 DEF Hidden
<1>3. QED BY <1>1, <1>2

ViewFrom(srv) == ViewOf(BuildBoard(srv))
OnAPage(v, slot) == \E i \in DOMAIN v.pages : slot \in ToSet(v.pages[i])

LEMMA BoardIs ==
  ASSUME NEW srv, NEW b, b = BuildBoard(srv)
  PROVE  /\ DOMAIN b.taps = 1..srv.num_taps
         /\ \A tap \in 1..srv.num_taps :
               b.taps[tap].hidden = Hidden(srv, Upcoming(srv), tap)
         /\ b.upcoming = Upcoming(srv) /\ b.page_size = srv.page_size
         /\ b.deck = (srv.show_upcoming /\ srv.deck)
         /\ b.panel = (srv.show_upcoming /\ srv.panel)
BY DEF BuildBoard

(* What pours is on a page, and so is what is pinned to a Vacant Slot.     *)
LEMMA OnThePages ==
  ASSUME NEW srv, Fits(srv), NEW tap \in 1..srv.num_taps
  PROVE  /\ ResolveTap(srv, tap) # Vacant => OnAPage(ViewFrom(srv), tap)
         /\ \A e \in srv.entries :
               srv.show_upcoming /\ Pinned(srv, e) /\ SlotOf(srv, e) = tap =>
                  OnAPage(ViewFrom(srv), tap)
<1>1. PICK b : b = BuildBoard(srv)
  OBVIOUS
<1>2. PICK n : n = srv.num_taps
  OBVIOUS
<1>3. /\ DOMAIN b.taps = 1..n /\ tap \in 1..n /\ n \in Nat
      /\ b.taps[tap].hidden = Hidden(srv, Upcoming(srv), tap)
      /\ b.page_size \in Nat \ {0}
  BY <1>1, <1>2, BoardIs DEF Fits
<1>4. ~Hidden(srv, Upcoming(srv), tap) => OnAPage(ViewFrom(srv), tap)
  <2>1. SUFFICES ASSUME ~b.taps[tap].hidden PROVE OnAPage(ViewOf(b), tap)
    BY <1>1, <1>3 DEF ViewFrom
  <2>2. QED BY <1>3, <2>1, VisibleOnAPage DEF OnAPage
<1>5. QED
  BY <1>4, NotHidden

(* A teaser drawn is one of the teasers of the board.                      *)
LEMMA DrawnIsListed ==
  ASSUME NEW b, IsFiniteSet(DOMAIN b.upcoming), DOMAIN b.upcoming \subseteq Nat,
         NEW e, HasAPlace(ViewOf(b), e)
  PROVE  \E i \in DOMAIN b.upcoming : b.upcoming[i].id = e.id
<1> DEFINE D == DOMAIN b.upcoming
           IsListed(x) == \E i \in D : b.upcoming[i] = x
<1>1. PICK v : v = ViewOf(b)
  OBVIOUS
<1>2. \A P \in SUBSET D : \A k \in DOMAIN At(b.upcoming, P) : IsListed(At(b.upcoming, P)[k])
  <2>1. SUFFICES ASSUME NEW P \in SUBSET D
                 PROVE  \A k \in DOMAIN At(b.upcoming, P) : IsListed(At(b.upcoming, P)[k])
    OBVIOUS
  <2>2. IsFiniteSet(P) /\ P \subseteq Int
    BY FS_Subset
  <2>3. \A k \in DOMAIN At(b.upcoming, P) : \E i \in P : At(b.upcoming, P)[k] = b.upcoming[i]
    BY <2>2, AtIs DEF Takes
  <2>4. QED BY <2>3
<1>3. /\ \A k \in DOMAIN OverflowTeasers(b) : IsListed(OverflowTeasers(b)[k])
      /\ \A slot : \A k \in DOMAIN CrossFadeCandidates(b, slot) :
            IsListed(CrossFadeCandidates(b, slot)[k])
  BY <1>2 DEF OverflowTeasers, CrossFadeCandidates
<1>4. ASSUME NEW teasers, \A k \in DOMAIN teasers : IsListed(teasers[k]),
             NEW id \in CardsOf(teasers)
      PROVE  \E k \in D : b.upcoming[k].id = id
  BY <1>4 DEF CardsOf
<1>5. CASE e.id \in v.cards
  <2>1. v.cards = CardsOf(DeckTeasers(b)) \cup CardsOf(PanelTeasers(b))
    BY <1>1 DEF ViewOf
  <2>2. /\ \A k \in DOMAIN DeckTeasers(b) : IsListed(DeckTeasers(b)[k])
        /\ \A k \in DOMAIN PanelTeasers(b) : IsListed(PanelTeasers(b)[k])
    BY <1>3 DEF DeckTeasers, PanelTeasers
  <2>3. CASE e.id \in CardsOf(DeckTeasers(b))
    BY <1>4, <2>2, <2>3
  <2>4. CASE e.id \in CardsOf(PanelTeasers(b))
    BY <1>4, <2>2, <2>4
  <2>5. QED BY <1>5, <2>1, <2>3, <2>4
<1>6. CASE \E slot \in DOMAIN v.fades : \E i \in DOMAIN v.fades[slot] :
              v.fades[slot][i].id = e.id
  <2>1. PICK slot \in DOMAIN v.fades : \E i \in DOMAIN v.fades[slot] :
              v.fades[slot][i].id = e.id
    BY <1>6
  <2>2. v.fades[slot] = CrossFadeCandidates(b, slot)
    BY <1>1, <2>1 DEF ViewOf
  <2>3. QED BY <1>3, <2>1, <2>2
<1>7. CASE \E slot \in DOMAIN v.pinned : v.pinned[slot] = e.id
  <2>1. PICK slot \in DOMAIN v.pinned : v.pinned[slot] = e.id
    BY <1>7
  <2>2. PICK pins : pins = {i \in D : b.upcoming[i].pinned /\ b.upcoming[i].slot = slot}
    OBVIOUS
  <2>3. pins # {} /\ v.pinned[slot] = b.upcoming[Min(pins)].id
    BY <1>1, <2>1, <2>2 DEF ViewOf, PinnedTeasersBySlot
  <2>4. Min(pins) \in pins
    <3>1. pins \subseteq Nat
      BY <2>2
    <3>2. \E k \in pins : \A j \in pins : k <= j
      BY <2>3, <3>1, Least
    <3>3. QED BY <3>2 DEF Min
  <2>5. QED BY <2>1, <2>2, <2>3, <2>4
<1>8. QED
  BY <1>1, <1>5, <1>6, <1>7 DEF HasAPlace

-----------------------------------------------------------------------------
(* Where a teaser is drawn.                                                *)

(* The surfaces draw eight teasers, all of them before the i-th listed.    *)
Full(b, cards, i) ==
  \E q :
    /\ \A n \in 1..MAX_CARDS_PER_PAGE : q[n] \in DOMAIN b.upcoming /\ q[n] < i
    /\ \A m, n \in 1..MAX_CARDS_PER_PAGE : m < n => q[m] < q[n]
    /\ cards = {b.upcoming[q[n]].id : n \in 1..MAX_CARDS_PER_PAGE}

(* A teaser the surfaces carry is drawn by one that is on, or comes after  *)
(* as many as one draws.                                                   *)
LEMMA SurfaceDraws ==
  ASSUME NEW b, IsFiniteSet(DOMAIN b.upcoming), DOMAIN b.upcoming \subseteq Nat,
         NEW i \in DOMAIN b.upcoming, b.upcoming[i].on_surfaces,
         NEW e, b.upcoming[i].id = e.id, b.deck \/ b.panel
  PROVE  HasAPlace(ViewOf(b), e) \/ Full(b, ViewOf(b).cards, i)
<1>1. PICK v : v = ViewOf(b)
  OBVIOUS
<1>2. PICK P : P = {j \in DOMAIN b.upcoming : b.upcoming[j].on_surfaces}
  OBVIOUS
<1>3. PICK over : over = OverflowTeasers(b)
  OBVIOUS
<1>4. IsFiniteSet(P) /\ P \subseteq Nat /\ P \subseteq DOMAIN b.upcoming /\ i \in P
  BY <1>2, FS_Subset
<1>5. over = At(b.upcoming, P)
  BY <1>2, <1>3 DEF OverflowTeasers
<1>6. PICK q :
        /\ DOMAIN over = 1..Cardinality(P)
        /\ \A k \in DOMAIN over : q[k] \in P /\ over[k] = b.upcoming[q[k]]
        /\ \A j \in P : \E k \in DOMAIN over : q[k] = j
        /\ \A j, k \in DOMAIN over : j < k => q[j] < q[k]
  <2>1. P \subseteq Int
    BY <1>4
  <2>2. Takes(over, b.upcoming, P)
    BY <1>4, <1>5, <2>1, AtIs
  <2>3. QED BY <2>2 DEF Takes
<1>7. Cardinality(P) \in Nat
  BY <1>4, FS_CardinalityType
<1>8. PICK k \in DOMAIN over : q[k] = i
  BY <1>4, <1>6
<1>9. v.cards = CardsOf(over)
  <2>1. v.cards = CardsOf(DeckTeasers(b)) \cup CardsOf(PanelTeasers(b))
    BY <1>1 DEF ViewOf
  <2>2. CardsOf(<<>>) = {}
    <3>1. DOMAIN <<>> = {}
      OBVIOUS
    <3>2. QED BY <3>1 DEF CardsOf
  <2>3. DeckTeasers(b) = over \/ DeckTeasers(b) = <<>>
    BY <1>3 DEF DeckTeasers
  <2>4. PanelTeasers(b) = over \/ PanelTeasers(b) = <<>>
    BY <1>3 DEF PanelTeasers
  <2>5. DeckTeasers(b) = over \/ PanelTeasers(b) = over
    BY <1>3 DEF DeckTeasers, PanelTeasers
  <2>6. QED BY <2>1, <2>2, <2>3, <2>4, <2>5
<1>10. CASE k <= MAX_CARDS_PER_PAGE
  <2>1. k \in DOMAIN over \cap 1..MAX_CARDS_PER_PAGE /\ over[k].id = e.id
    BY <1>6, <1>7, <1>8, <1>10 DEF MAX_CARDS_PER_PAGE
  <2>2. e.id \in CardsOf(over)
    BY <2>1 DEF CardsOf
  <2>3. QED BY <1>1, <1>9, <2>2 DEF HasAPlace
<1>11. CASE k > MAX_CARDS_PER_PAGE
  <2>1. \A n \in 1..MAX_CARDS_PER_PAGE : n \in DOMAIN over /\ n < k
    BY <1>6, <1>7, <1>8, <1>11 DEF MAX_CARDS_PER_PAGE
  <2>2. DOMAIN over \cap 1..MAX_CARDS_PER_PAGE = 1..MAX_CARDS_PER_PAGE
    BY <2>1
  <2>3. CardsOf(over) = {over[n].id : n \in 1..MAX_CARDS_PER_PAGE}
    BY <2>2 DEF CardsOf
  <2>4. \A n \in 1..MAX_CARDS_PER_PAGE : over[n] = b.upcoming[q[n]]
    BY <1>6, <2>1
  <2>5. CardsOf(over) = {b.upcoming[q[n]].id : n \in 1..MAX_CARDS_PER_PAGE}
    BY <2>3, <2>4
  <2>6. \A n \in 1..MAX_CARDS_PER_PAGE : q[n] \in DOMAIN b.upcoming /\ q[n] < i
    BY <1>4, <1>6, <1>8, <2>1
  <2>7. \A m, n \in 1..MAX_CARDS_PER_PAGE : m < n => q[m] < q[n]
    BY <1>6, <2>1
  <2>8. QED BY <1>1, <1>9, <2>5, <2>6, <2>7 DEF Full
<1>12. QED
  BY <1>6, <1>7, <1>8, <1>10, <1>11 DEF MAX_CARDS_PER_PAGE

(* Eight listed teasers are eight Batches, in the store's order.           *)
LEMMA FullCrowdsOut ==
  ASSUME NEW srv, Fits(srv), srv.show_upcoming,
         NEW b, b.upcoming = Upcoming(srv),
         NEW i \in DOMAIN b.upcoming, NEW e \in srv.entries, b.upcoming[i].id = e.id,
         NEW v, Full(b, v.cards, i)
  PROVE  CrowdedOut(srv, v, e)
<1> DEFINE Eight == 1..MAX_CARDS_PER_PAGE
           C == {f \in srv.entries : f.id \in v.cards /\ Before(f, e)}
<1>1. InOrder(srv, b.upcoming) /\ DOMAIN b.upcoming \subseteq Nat
  BY UpcomingIs
<1>2. PICK kept :
        /\ \A j \in DOMAIN b.upcoming :
              kept[j] \in srv.entries /\ b.upcoming[j] = ResolveUpcoming(srv, kept[j])
        /\ \A j, k \in DOMAIN b.upcoming : j < k => Before(kept[j], kept[k])
  BY <1>1 DEF InOrder
<1>3. \A j \in DOMAIN b.upcoming : b.upcoming[j].id = kept[j].id
  BY <1>2, ResolveIs
<1>4. /\ \A f \in srv.entries : Entry(f)
      /\ \A f, g \in srv.entries : f.id = g.id => f = g
  BY DEF Fits
<1>5. kept[i] = e
  BY <1>2, <1>3, <1>4
<1>6. PICK q :
        /\ \A n \in Eight : q[n] \in DOMAIN b.upcoming /\ q[n] < i
        /\ \A m, n \in Eight : m < n => q[m] < q[n]
        /\ v.cards = {b.upcoming[q[n]].id : n \in Eight}
  BY DEF Full
<1> DEFINE F == [n \in Eight |-> kept[q[n]]]
<1>7. F \in [Eight -> C]
  <2>1. SUFFICES ASSUME NEW n \in Eight PROVE kept[q[n]] \in C
    OBVIOUS
  <2>2. q[n] \in DOMAIN b.upcoming /\ q[n] < i
    BY <1>6
  <2>3. kept[q[n]] \in srv.entries /\ Before(kept[q[n]], e)
    BY <1>2, <1>5, <2>2
  <2>4. b.upcoming[q[n]].id \in v.cards
    BY <1>6
  <2>5. kept[q[n]].id \in v.cards
    BY <1>3, <2>2, <2>4
  <2>6. QED BY <2>3, <2>5
<1>8. \A m, n \in Eight : F[m] = F[n] => m = n
  <2>1. \A f \in srv.entries : ~Before(f, f)
    BY <1>4 DEF Before, Entry
  <2>2. \A m, n \in Eight : m < n => Before(kept[q[m]], kept[q[n]])
    BY <1>2, <1>6
  <2>3. \A m, n \in Eight : m < n => kept[q[m]] # kept[q[n]]
    BY <1>2, <1>6, <2>1, <2>2
  <2>4. \A m, n \in Eight : m < n => F[m] # F[n]
    BY <2>3
  <2>5. \A m, n \in Eight : m # n => m < n \/ n < m
    OBVIOUS
  <2> HIDE DEF F
  <2>6. QED BY <2>4, <2>5
<1>9. \A f \in C : \E n \in Eight : F[n] = f
  <2>1. SUFFICES ASSUME NEW f \in C PROVE \E n \in Eight : kept[q[n]] = f
    OBVIOUS
  <2>2. PICK n \in Eight : f.id = b.upcoming[q[n]].id
    BY <1>6
  <2>3. q[n] \in DOMAIN b.upcoming
    BY <1>6
  <2>4. f.id = kept[q[n]].id /\ kept[q[n]] \in srv.entries
    BY <1>2, <1>3, <2>2, <2>3
  <2>5. QED BY <1>4, <2>4
<1> HIDE DEF F, C
<1>10. F \in Bijection(Eight, C)
  BY <1>7, <1>8, <1>9, Fun_IsBij
<1>11. IsFiniteSet(Eight) /\ Cardinality(Eight) = MAX_CARDS_PER_PAGE
  <2>1. PICK m : m = MAX_CARDS_PER_PAGE
    OBVIOUS
  <2>2. m = 8
    BY <2>1 DEF MAX_CARDS_PER_PAGE
  <2>3. m \in Int /\ 1 \in Int
    BY <2>2
  <2>4. IsFiniteSet(1..m) /\ Cardinality(1..m) = (IF 1 > m THEN 0 ELSE m - 1 + 1)
    BY ONLY <2>3, FS_Interval
  <2>5. QED BY <2>1, <2>2, <2>4
<1>12. Cardinality(Eight) = Cardinality(C)
  BY <1>10, <1>11, FS_Bijection DEF ExistsBijection
<1>13. QED
  BY <1>11, <1>12 DEF C, CrowdedOut

(* A teaser that takes turns with a card is drawn where the card is.       *)
LEMMA CrossFadeDraws ==
  ASSUME NEW b, IsFiniteSet(DOMAIN b.upcoming), DOMAIN b.upcoming \subseteq Nat,
         NEW i \in DOMAIN b.upcoming, b.upcoming[i].cross_fade,
         NEW slot \in DOMAIN b.taps, b.upcoming[i].slot = slot,
         NEW e, b.upcoming[i].id = e.id, OnAPage(ViewOf(b), slot)
  PROVE  HasAPlace(ViewOf(b), e)
<1>1. PICK v : v = ViewOf(b)
  OBVIOUS
<1>2. PICK P : P = {j \in DOMAIN b.upcoming :
                      b.upcoming[j].cross_fade /\ b.upcoming[j].slot = slot}
  OBVIOUS
<1>3. IsFiniteSet(P) /\ P \subseteq Int /\ i \in P
  BY <1>2, FS_Subset
<1>4. PICK fade : fade = At(b.upcoming, P)
  OBVIOUS
<1>5. PICK k \in DOMAIN fade : fade[k] = b.upcoming[i]
  <2>1. Takes(fade, b.upcoming, P)
    BY <1>3, <1>4, AtIs
  <2>2. QED BY <1>3, <2>1 DEF Takes
<1>6. slot \in DOMAIN v.fades /\ v.fades[slot] = fade
  BY <1>1, <1>2, <1>4 DEF ViewOf, CrossFadeCandidates
<1>7. \E j \in DOMAIN v.fades[slot] : v.fades[slot][j].id = e.id
  BY <1>5, <1>6
<1>8. QED BY <1>1, <1>6, <1>7 DEF HasAPlace, OnAPage

(* Of the Batches that claim no Vacant Slot, only those kept are drawn; a  *)
(* surface draws them all, but for those it has no room for.               *)
LEMMA FreePlaced ==
  ASSUME NEW srv, Fits(srv), srv.show_upcoming,
         NEW e \in srv.entries, ~Pinned(srv, e),
         NEW low, low <=> Cardinality(UnpinnedBefore(srv, e)) < srv.cap
  PROVE  /\ HasAPlace(ViewFrom(srv), e) => low
         /\ low /\ (srv.deck \/ srv.panel) =>
               HasAPlace(ViewFrom(srv), e) \/ CrowdedOut(srv, ViewFrom(srv), e)
<1>1. PICK b : b = BuildBoard(srv)
  OBVIOUS
<1>2. /\ b.upcoming = Upcoming(srv) /\ DOMAIN b.taps = 1..srv.num_taps
      /\ srv.deck \/ srv.panel => b.deck \/ b.panel
  BY <1>1, BoardIs
<1>3. /\ IsFiniteSet(DOMAIN b.upcoming) /\ DOMAIN b.upcoming \subseteq Nat
      /\ \A i \in DOMAIN b.upcoming :
            \E f \in Kept(srv) : b.upcoming[i] = ResolveUpcoming(srv, f)
      /\ \A f \in Kept(srv) :
            \E i \in DOMAIN b.upcoming : b.upcoming[i] = ResolveUpcoming(srv, f)
  BY <1>2, UpcomingIs
<1>4. e \in Kept(srv) <=> low
  BY DEF Kept
<1>5. ASSUME HasAPlace(ViewOf(b), e) PROVE e \in Kept(srv)
  <2>1. PICK i \in DOMAIN b.upcoming : b.upcoming[i].id = e.id
    BY <1>3, <1>5, DrawnIsListed
  <2>2. PICK f \in Kept(srv) : b.upcoming[i] = ResolveUpcoming(srv, f)
    BY <1>3
  <2>3. f.id = e.id /\ f \in srv.entries
    BY <2>1, <2>2, ResolveIs DEF Kept
  <2>4. QED BY <2>2, <2>3 DEF Fits
<1>6. ASSUME e \in Kept(srv), srv.deck \/ srv.panel
      PROVE  HasAPlace(ViewOf(b), e) \/ CrowdedOut(srv, ViewOf(b), e)
  <2>1. PICK i \in DOMAIN b.upcoming : b.upcoming[i] = ResolveUpcoming(srv, e)
    BY <1>3, <1>6
  <2>2. PICK u : u = b.upcoming[i]
    OBVIOUS
  <2>3. /\ u.id = e.id /\ u.slot = SlotOf(srv, e) /\ ~u.pinned
        /\ u.cross_fade <=> (SlotOf(srv, e) # NoSlot /\ ~Pinned(srv, e) /\ srv.rotate)
        /\ u.on_surfaces <=> (srv.scope = "all" \/ (~u.pinned /\ ~u.cross_fade))
    BY <2>1, <2>2, ResolveIs
  <2>4. CASE u.on_surfaces
    <3>1. HasAPlace(ViewOf(b), e) \/ Full(b, ViewOf(b).cards, i)
      BY <1>2, <1>3, <1>6, <2>2, <2>3, <2>4, SurfaceDraws
    <3>2. QED BY <1>2, <2>2, <2>3, <3>1, FullCrowdsOut
  <2>5. CASE ~u.on_surfaces
    <3>1. PICK slot : slot = SlotOf(srv, e)
      OBVIOUS
    <3>2. u.cross_fade /\ slot # NoSlot
      BY <2>3, <2>5, <3>1
    <3>3. slot \in 1..srv.num_taps /\ ResolveTap(srv, slot) # Vacant
      BY <3>1, <3>2 DEF SlotOf, Pinned
    <3>4. OnAPage(ViewOf(b), slot)
      BY <1>1, <3>3, OnThePages DEF ViewFrom
    <3>5. QED BY <1>2, <1>3, <2>2, <2>3, <3>1, <3>2, <3>3, <3>4, CrossFadeDraws
  <2>6. QED BY <2>4, <2>5
<1>7. QED BY <1>1, <1>4, <1>5, <1>6 DEF ViewFrom

(* A pinned Batch is on the board, and a surface of scope "all" draws it   *)
(* if it has the room.                                                     *)
LEMMA PinnedPlaced ==
  ASSUME NEW srv, Fits(srv), srv.show_upcoming, NEW e \in srv.entries, Pinned(srv, e)
  PROVE  /\ OnAPage(ViewFrom(srv), e.slot)
         /\ srv.scope = "all" /\ (srv.deck \/ srv.panel) =>
               HasAPlace(ViewFrom(srv), e) \/ CrowdedOut(srv, ViewFrom(srv), e)
<1>1. SlotOf(srv, e) = e.slot /\ e.slot \in 1..srv.num_taps
  BY DEF Pinned, SlotOf
<1>2. OnAPage(ViewFrom(srv), e.slot)
  BY <1>1, OnThePages
<1>3. ASSUME srv.scope = "all", srv.deck \/ srv.panel
      PROVE  HasAPlace(ViewFrom(srv), e) \/ CrowdedOut(srv, ViewFrom(srv), e)
  <2>1. PICK b : b = BuildBoard(srv)
    OBVIOUS
  <2>2. b.upcoming = Upcoming(srv) /\ (b.deck \/ b.panel)
    BY <1>3, <2>1, BoardIs
  <2>3. e \in Kept(srv)
    BY DEF Kept
  <2>4. IsFiniteSet(DOMAIN b.upcoming) /\ DOMAIN b.upcoming \subseteq Nat
    BY <2>2, UpcomingIs
  <2>5. PICK i \in DOMAIN b.upcoming : b.upcoming[i] = ResolveUpcoming(srv, e)
    BY <2>2, <2>3, UpcomingIs
  <2>6. b.upcoming[i].id = e.id /\ b.upcoming[i].on_surfaces
    BY <1>3, <2>5, ResolveIs
  <2>7. HasAPlace(ViewOf(b), e) \/ Full(b, ViewOf(b).cards, i)
    BY <2>2, <2>4, <2>6, SurfaceDraws
  <2>8. HasAPlace(ViewOf(b), e) \/ CrowdedOut(srv, ViewOf(b), e)
    BY <2>2, <2>6, <2>7, FullCrowdsOut
  <2>9. QED BY <2>1, <2>8 DEF ViewFrom
<1>4. QED BY <1>2, <1>3

(* The Batches the cap keeps of those that claim no Vacant Slot, and the   *)
(* ones among them that the surfaces have no room for.                     *)
Drawn(srv, free) == {e \in free : HasAPlace(ViewFrom(srv), e)}
Crowded(srv, free) ==
  {e \in free : CrowdedOut(srv, ViewFrom(srv), e)
                   /\ Cardinality(UnpinnedBefore(srv, e)) < srv.cap}

(* The cap counts the Batches that claim no Vacant Slot, and only those.   *)
LEMMA CapCounts ==
  ASSUME NEW srv, Fits(srv), srv.show_upcoming,
         NEW free, free = {e \in srv.entries : ~Pinned(srv, e)}
  PROVE  /\ Cardinality(Drawn(srv, free)) <= srv.cap
         /\ srv.deck \/ srv.panel =>
               Cardinality(Drawn(srv, free) \cup Crowded(srv, free))
                  = (IF Cardinality(free) < srv.cap THEN Cardinality(free) ELSE srv.cap)
<1>1. IsFiniteSet(free)
  BY FS_Subset DEF Fits
<1>2. /\ \A e \in free : Entry(e)
      /\ \A e, f \in free : e.id = f.id => e = f
  BY DEF Fits
<1>3. /\ Orders(Comes(free), free)
      /\ \A e \in free : Ahead(Comes(free), free, e) = {x \in free : Before(x, e)}
  BY <1>2, BeforeOrders
<1>4. \A e \in free : UnpinnedBefore(srv, e) = Ahead(Comes(free), free, e)
  <2>1. \A e \in free : UnpinnedBefore(srv, e) = {x \in free : Before(x, e)}
    BY DEF UnpinnedBefore
  <2>2. QED BY <1>3, <2>1
<1>5. PICK R, Low : /\ R = Comes(free)
                    /\ Low = {e \in free : Cardinality(UnpinnedBefore(srv, e)) < srv.cap}
  OBVIOUS
<1>6. srv.cap \in Nat /\ Orders(R, free)
  BY <1>3, <1>5 DEF Fits
<1>7. Cardinality(Low) = (IF Cardinality(free) < srv.cap THEN Cardinality(free) ELSE srv.cap)
  <2>1. Low = {e \in free : Cardinality(Ahead(R, free, e)) < srv.cap}
    BY <1>4, <1>5
  <2>2. QED BY <1>1, <1>6, <2>1, CountBelow
<1>8. Drawn(srv, free) \subseteq Low
  BY <1>5, FreePlaced DEF Drawn
<1>9. Cardinality(Drawn(srv, free)) <= srv.cap
  <2>1. IsFiniteSet(Low)
    BY <1>1, <1>5, FS_Subset
  <2>2. Cardinality(Drawn(srv, free)) <= Cardinality(Low)
    BY <1>8, <2>1, FS_Subset
  <2>3. Cardinality(Low) <= srv.cap /\ Cardinality(Low) \in Nat
    BY <1>1, <1>6, <1>7, FS_CardinalityType
  <2>4. Cardinality(Drawn(srv, free)) \in Nat
    BY <1>8, <2>1, FS_Subset, FS_CardinalityType
  <2>5. QED BY <1>6, <2>2, <2>3, <2>4
<1>10. ASSUME srv.deck \/ srv.panel PROVE Low = Drawn(srv, free) \cup Crowded(srv, free)
  <2>1. \A e \in Low : e \in Drawn(srv, free) \/ e \in Crowded(srv, free)
    BY <1>5, <1>10, FreePlaced DEF Drawn, Crowded
  <2>2. Crowded(srv, free) \subseteq Low
    BY <1>5 DEF Crowded
  <2>3. QED BY <1>8, <2>1, <2>2
<1>11. QED BY <1>7, <1>9, <1>10

(* What pours is on the screen; a Batch that claims a Vacant Slot is drawn  *)
(* whatever the cap and hide_vacant_taps say; of the others, as many as the *)
(* cap allows, but for those left out by a full surface (board.py           *)
(* build_board; display.js fullRender, buildDeckEl, buildPanelEl).          *)
THEOREM EveryTeaserPlaced == Spec => []EveryTeaserHasAPlace
<1>1. EveryTeaserHasAPlace
  <2> SUFFICES ASSUME NEW s \in Scenes, tv.shown = View[s]
               PROVE  LET srv     == Server[s]
                          v       == tv.shown
                          free    == {e \in srv.entries : ~Pinned(srv, e)}
                          drawn   == {e \in free : HasAPlace(v, e)}
                          crowded == {e \in free : CrowdedOut(srv, v, e)
                                        /\ Cardinality(UnpinnedBefore(srv, e)) < srv.cap}
                      IN /\ \A tap \in 1..srv.num_taps :
                              (ResolveTap(srv, tap) # Vacant) => OnAPage(v, tap)
                         /\ srv.show_upcoming =>
                              /\ \A e \in srv.entries :
                                   Pinned(srv, e) => OnAPage(v, e.slot)
                              /\ \A e \in srv.entries :
                                   Pinned(srv, e) /\ srv.scope = "all"
                                     /\ (srv.deck \/ srv.panel) =>
                                   HasAPlace(v, e) \/ CrowdedOut(srv, v, e)
                              /\ Cardinality(drawn) <= srv.cap
                              /\ srv.deck \/ srv.panel =>
                                   Cardinality(drawn \cup crowded)
                                      = (IF Cardinality(free) < srv.cap
                                         THEN Cardinality(free) ELSE srv.cap)
    BY DEF EveryTeaserHasAPlace, OnAPage
  <2>1. PICK srv, free : srv = Server[s] /\ free = {e \in srv.entries : ~Pinned(srv, e)}
    OBVIOUS
  <2>2. tv.shown = ViewFrom(srv)
    BY <2>1 DEF View, ViewFrom
  <2>3. Fits(srv)
    BY <2>1, ServerAssumption DEF Fits, Entry
  <2>4. /\ {e \in free : HasAPlace(tv.shown, e)} = Drawn(srv, free)
        /\ {e \in free : CrowdedOut(srv, tv.shown, e)
                           /\ Cardinality(UnpinnedBefore(srv, e)) < srv.cap}
              = Crowded(srv, free)
    BY <2>2 DEF Drawn, Crowded
  <2>5. \A tap \in 1..srv.num_taps : ResolveTap(srv, tap) # Vacant => OnAPage(tv.shown, tap)
    BY <2>2, <2>3, OnThePages
  <2>6. ASSUME srv.show_upcoming, NEW e \in srv.entries, Pinned(srv, e)
        PROVE  /\ OnAPage(tv.shown, e.slot)
               /\ srv.scope = "all" /\ (srv.deck \/ srv.panel) =>
                     HasAPlace(tv.shown, e) \/ CrowdedOut(srv, tv.shown, e)
    BY <2>2, <2>3, <2>6, PinnedPlaced
  <2>7. ASSUME srv.show_upcoming
        PROVE  /\ Cardinality(Drawn(srv, free)) <= srv.cap
               /\ srv.deck \/ srv.panel =>
                     Cardinality(Drawn(srv, free) \cup Crowded(srv, free))
                        = (IF Cardinality(free) < srv.cap THEN Cardinality(free) ELSE srv.cap)
    BY <2>1, <2>3, <2>7, CapCounts
  <2>8. QED
    BY <2>1, <2>4, <2>5, <2>6, <2>7
<1>2. QED
  BY <1>1, PTL
=============================================================================
