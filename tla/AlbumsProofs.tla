---------------------------- MODULE AlbumsProofs ----------------------------
(***************************************************************************)
(* What TLAPS proves of Albums, for any number of names, photos and        *)
(* Screens and any bounds on the runs.                                     *)
(***************************************************************************)
EXTENDS Albums, FiniteSetTheorems, WellFoundedInduction, TLAPS

Folders == [Names -> Ids \union {NoAlbum}]

\* A photo's record in the bin, if it has one.
BinRecords == [Photos -> Records \union {NoRecord}]

RenameOps ==
    [kind : {"rename"}, step : {"tag", "write", "undo", "untag"}, old : Names, new : Names,
     tagged : SUBSET Photos,
     before : [folder : Folders, record : BinRecords, ticks : [Screens -> SUBSET Names]]]
DeleteOps == [kind : {"delete"}, step : {"rmdir", "mark"}, old : Names]
Pages == [screen : Screens, saw : Folders, listed : SUBSET Names, stale : BOOLEAN]

\* The types of the variables TypeOK does not mention, and that an album's number is new.
Typed ==
    /\ TypeOK
    /\ home \in [Photos -> Ids \union {NoAlbum}]
    /\ op \in {NoOp} \union RenameOps \union DeleteOps
    /\ page \in {NoPage} \union Pages
    /\ bearers \in [Names -> SUBSET Ids]
    /\ faults \in Nat
    /\ \A n \in Names : folder[n] <= made
    /\ \A p \in Photos : home[p] <= made

---------------------------------------------------------------------------
\* _follow_renames comes to an end.

\* One step of the recursion, with G in the place of the function it calls.
FollowStep(G, m, seen) ==
    IF m \in Existing \/ renamed[m] = NoName THEN m
    ELSE IF renamed[m] \in seen THEN renamed[m]
    ELSE G[seen \union {renamed[m]}][renamed[m]]

FollowAll(G) == [seen \in SUBSET Names |-> [m \in Names |-> FollowStep(G, m, seen)]]
FollowFn == CHOOSE F : F = FollowAll(F)

\* How many names the walk has yet to see.
Unseen(seen) == Cardinality(Names \ seen)

LEMMA FollowedIs == ASSUME NEW n PROVE Followed(n) = FollowFn[{n}][n]
BY DEF Followed, FollowFn, FollowAll, FollowStep

LEMMA Least ==
    ASSUME NEW T, T \subseteq Nat, T # {}
    PROVE  \E k \in T : \A j \in T : k <= j
<1>1. PICK k \in T : \A j \in T : ~(<<j, k>> \in OpToRel(<, Nat))
  BY NatLessThanWellFounded, WFMin
<1>2. \A j \in T : ~(j < k)
  BY <1>1 DEF OpToRel
<1> QED
  BY <1>2

LEMMA UnseenShrinks ==
    ASSUME NEW seen \in SUBSET Names, NEW n \in Names \ seen
    PROVE  /\ seen \union {n} \in SUBSET Names
           /\ Unseen(seen) \in Nat /\ Unseen(seen \union {n}) \in Nat
           /\ Unseen(seen \union {n}) < Unseen(seen)
<1>1. IsFiniteSet(Names \ seen) /\ n \in Names \ seen
  BY AlbumsAssumption, FS_Subset
<1>2. Names \ (seen \union {n}) = (Names \ seen) \ {n}
  OBVIOUS
<1>3. Cardinality((Names \ seen) \ {n}) = Cardinality(Names \ seen) - 1
  BY <1>1, FS_RemoveElement
<1>4. Cardinality(Names \ seen) \in Nat /\ Cardinality((Names \ seen) \ {n}) \in Nat
  BY <1>1, FS_CardinalityType, FS_RemoveElement
<1> QED
  BY <1>2, <1>3, <1>4 DEF Unseen

LEMMA UnseenIsNat == ASSUME NEW seen \in SUBSET Names PROVE Unseen(seen) \in Nat
BY AlbumsAssumption, FS_Subset, FS_CardinalityType DEF Unseen

\* There is a function the recursion defines, built one depth of recursion at a time.
LEMMA FollowFnExists ==
    ASSUME renamed \in [Names -> Names \union {NoName}]
    PROVE  FollowFn = FollowAll(FollowFn)
<1> DEFINE Right(G, k) == \A m \in Names, seen \in SUBSET Names :
             Unseen(seen) < k => G[seen][m] = FollowStep(G, m, seen)
           Wrong == {k \in Nat : ~\E G : Right(G, k)}
<1>1. ASSUME NEW k \in Nat, NEW G, Right(G, k) PROVE Right(FollowAll(G), k + 1)
  <2> SUFFICES ASSUME NEW m \in Names, NEW seen \in SUBSET Names, Unseen(seen) < k + 1
               PROVE  FollowAll(G)[seen][m] = FollowStep(FollowAll(G), m, seen)
    OBVIOUS
  <2>1. FollowAll(G)[seen][m] = FollowStep(G, m, seen)
    BY DEF FollowAll
  <2>2. CASE m \in Existing \/ renamed[m] = NoName \/ renamed[m] \in seen
    BY <2>1, <2>2 DEF FollowStep
  <2>3. CASE ~(m \in Existing \/ renamed[m] = NoName \/ renamed[m] \in seen)
    <3>1. renamed[m] \in Names \ seen
      BY <2>3
    <3> DEFINE rest == seen \union {renamed[m]}
    <3>2. rest \in SUBSET Names /\ Unseen(rest) < k
      BY <3>1, UnseenShrinks, UnseenIsNat
    <3>3. FollowAll(G)[rest][renamed[m]] = FollowStep(G, renamed[m], rest)
      BY <3>1, <3>2 DEF FollowAll
    <3>4. G[rest][renamed[m]] = FollowStep(G, renamed[m], rest)
      BY <1>1, <3>1, <3>2
    <3> QED
      BY <2>1, <2>3, <3>3, <3>4 DEF FollowStep
  <2> QED
    BY <2>2, <2>3
<1>2. Wrong = {}
  <2> SUFFICES ASSUME Wrong # {} PROVE FALSE
    OBVIOUS
  <2>1. PICK k \in Wrong : \A j \in Wrong : k <= j
    BY Least
  <2>2. Right(Names, 0)
    BY UnseenIsNat
  <2>3. k # 0
    BY <2>1, <2>2
  <2>4. k - 1 \in Nat /\ k - 1 \notin Wrong
    BY <2>1, <2>3
  <2>5. PICK G : Right(G, k - 1)
    BY <2>4
  <2>6. Right(FollowAll(G), (k - 1) + 1)
    BY <1>1, <2>4, <2>5
  <2> HIDE DEF Right
  <2> QED
    BY <2>1, <2>6
<1>3. Unseen({}) \in Nat
  BY UnseenIsNat
<1>4. ASSUME NEW seen \in SUBSET Names PROVE Unseen(seen) < Unseen({}) + 1
  <2>1. Names \ {} = Names /\ Names \ seen \subseteq Names
    OBVIOUS
  <2>2. Unseen(seen) <= Unseen({})
    BY <2>1, AlbumsAssumption, FS_Subset DEF Unseen
  <2> QED
    BY <2>2, UnseenIsNat
<1>5. PICK G : Right(G, Unseen({}) + 1)
  BY <1>2, <1>3
<1>6. \A m \in Names, seen \in SUBSET Names : G[seen][m] = FollowStep(G, m, seen)
  BY <1>4, <1>5
<1>7. \A m \in Names, seen \in SUBSET Names : FollowAll(G)[seen][m] = G[seen][m]
  BY <1>6 DEF FollowAll
<1>8. ASSUME NEW m \in Names, NEW seen \in SUBSET Names
      PROVE  FollowStep(FollowAll(G), m, seen) = FollowStep(G, m, seen)
  BY <1>7 DEF FollowStep
<1>9. FollowAll(FollowAll(G)) = FollowAll(G)
  BY <1>8 DEF FollowAll
<1> QED
  BY <1>9 DEF FollowFn

\* A name that is followed leads to a name.
LEMMA FollowedType ==
    ASSUME renamed \in [Names -> Names \union {NoName}], NEW n \in Names
    PROVE  Followed(n) \in Names
<1> DEFINE Wrong == {k \in Nat : \E m \in Names, seen \in SUBSET Names :
                        Unseen(seen) = k /\ FollowFn[seen][m] \notin Names}
<1>1. \A m \in Names, seen \in SUBSET Names : FollowFn[seen][m] = FollowStep(FollowFn, m, seen)
  BY FollowFnExists DEF FollowAll
<1>2. Wrong = {}
  <2> SUFFICES ASSUME Wrong # {} PROVE FALSE
    OBVIOUS
  <2>1. PICK k \in Wrong : \A j \in Wrong : k <= j
    BY Least
  <2>2. PICK m \in Names, seen \in SUBSET Names : Unseen(seen) = k /\ FollowFn[seen][m] \notin Names
    BY <2>1
  <2>3. FollowStep(FollowFn, m, seen) \notin Names
    BY <1>1, <2>2
  <2>4. renamed[m] \in Names \ seen
    BY <2>3 DEF FollowStep
  <2>5. FollowFn[seen \union {renamed[m]}][renamed[m]] \notin Names
    BY <2>3, <2>4 DEF FollowStep
  <2>6. seen \union {renamed[m]} \in SUBSET Names /\ Unseen(seen \union {renamed[m]}) \in Nat
        /\ Unseen(seen \union {renamed[m]}) < k
    BY <2>2, <2>4, UnseenShrinks
  <2>7. Unseen(seen \union {renamed[m]}) \in Wrong
    BY <2>4, <2>5, <2>6
  <2>8. k <= Unseen(seen \union {renamed[m]}) /\ k \in Nat
    BY <2>1, <2>7
  <2> HIDE DEF Wrong
  <2> QED
    BY <2>6, <2>8
<1>3. {n} \in SUBSET Names
  OBVIOUS
<1> QED
  BY <1>2, <1>3, FollowedIs, UnseenIsNat

---------------------------------------------------------------------------
\* Typing

LEMMA Numbers ==
    /\ NoAlbum \notin Ids /\ Bin \notin Ids /\ Gone \notin Ids /\ Bin # Gone
    /\ 1 \in Ids /\ \A a \in Ids : a \in Nat /\ a >= 1
BY AlbumsAssumption DEF NoAlbum, Bin, Gone, Ids

LEMMA OpShapes ==
    ASSUME op \in {NoOp} \union RenameOps \union DeleteOps
    PROVE  /\ op.kind = "rename" => op \in RenameOps
           /\ op.kind = "delete" => op \in DeleteOps
           /\ op = NoOp => op.kind = "none"
BY DEF NoOp, RenameOps, DeleteOps

LEMMA RecordsAre == \A r \in Records : r # NoRecord
BY AlbumsAssumption DEF Records

LEMMA RetagIs ==
    ASSUME NEW r \in Records, NEW n \in Names
    PROVE  [r EXCEPT !.album = n] = [album |-> n, deleted |-> r.deleted]
BY DEF Records

\* A photo removed from album n.
LEMMA ToBinTyped ==
    ASSUME Typed, NEW n \in Existing, NEW gone \in SUBSET Photos, ToBin(gone, n)
    PROVE  /\ at' \in [Photos -> Ids \union {Bin, Gone}]
           /\ record' \in [Photos -> Records \union {NoRecord}]
           /\ home' \in [Photos -> Ids \union {NoAlbum}]
           /\ \A p \in Photos : at'[p] = Bin <=> record'[p] # NoRecord
           /\ \A p \in Photos : home'[p] <= made
<1>1. [album |-> n, deleted |-> FALSE] \in Records /\ folder[n] \in Ids /\ folder[n] <= made
  BY DEF Existing, Records, Typed, TypeOK
<1> QED
  BY <1>1, RecordsAre DEF ToBin, Typed, TypeOK

\* A folder made under a new number.
LEMMA MakesTyped ==
    ASSUME Typed, NEW n \in Names \ Existing, Makes(n)
    PROVE  /\ folder' \in Folders /\ made' \in Ids /\ bearers' \in [Names -> SUBSET Ids]
           /\ folder'[n] = made' /\ folder'[n] \in Ids
           /\ made' = made + 1 /\ made \in Nat
           /\ \A m \in Names : m # n => folder'[m] = folder[m]
           /\ \A m \in Names : folder'[m] <= made'
           /\ Existing' = Existing \union {n}
           /\ \A m1, m2 \in Existing' : folder'[m1] = folder'[m2] => m1 = m2
<1>1. made \in Nat /\ made + 1 \in Ids
  BY AlbumsAssumption DEF Makes, Typed, TypeOK, Ids
<1>2. folder \in Folders /\ bearers \in [Names -> SUBSET Ids]
  BY DEF Typed, TypeOK, Folders
<1>3. folder' \in Folders /\ bearers' \in [Names -> SUBSET Ids] /\ made' = made + 1
  BY <1>1, <1>2 DEF Makes, Folders
<1>4. \A m \in Names : folder'[m] = IF m = n THEN made + 1 ELSE folder[m]
  BY <1>2 DEF Makes, Folders
<1>5. Existing' = Existing \union {n}
  BY <1>1, <1>4, Numbers DEF Existing
<1>6. \A m \in Names : folder[m] <= made /\ folder[m] \in Nat
  BY <1>2, Numbers DEF Typed, Folders, NoAlbum
<1>7. \A m \in Names : folder'[m] <= made' /\ folder[m] # made + 1
  BY <1>1, <1>3, <1>4, <1>6
<1>8. \A m1, m2 \in Existing : folder[m1] = folder[m2] => m1 = m2
  BY DEF Typed, TypeOK
<1>9. \A m1, m2 \in Existing' : folder'[m1] = folder'[m2] => m1 = m2
  BY <1>4, <1>5, <1>7, <1>8 DEF Existing
<1> QED
  BY <1>1, <1>3, <1>4, <1>5, <1>7, <1>9

\* A folder that gets another name.
LEMMA MovesTyped ==
    ASSUME Typed, NEW old \in Names, NEW new \in Names \ Existing, MovesFolder(old, new), old # new
    PROVE  /\ folder' \in Folders
           /\ folder' = [n \in Names |-> IF n = new THEN folder[old]
                                         ELSE IF n = old THEN NoAlbum ELSE folder[n]]
           /\ \A m \in Names : folder'[m] <= made
           /\ \A m1, m2 \in Existing' : folder'[m1] = folder'[m2] => m1 = m2
           /\ Live' = Live
<1>1. folder \in Folders
  BY DEF Typed, TypeOK, Folders
<1>2. folder' = [n \in Names |-> IF n = new THEN folder[old]
                                  ELSE IF n = old THEN NoAlbum ELSE folder[n]]
  BY <1>1 DEF MovesFolder, Folders
<1>3. folder' \in Folders
  BY <1>1, <1>2 DEF Folders
<1>4. \A m1, m2 \in Existing : folder[m1] = folder[m2] => m1 = m2
  BY DEF Typed, TypeOK
<1>5. \A m \in Names : folder[m] <= made
  BY DEF Typed
<1>6. \A m \in Names : folder'[m] <= made
  BY <1>2, <1>5, Numbers DEF Typed, TypeOK, NoAlbum
<1>7. \A m1, m2 \in Existing' : folder'[m1] = folder'[m2] => m1 = m2
  BY <1>2, <1>4 DEF Existing
<1>8. \A n \in Existing : \E m \in Existing' : folder'[m] = folder[n]
  BY <1>2 DEF Existing
<1>9. \A m \in Existing' : \E n \in Existing : folder[n] = folder'[m]
  BY <1>2 DEF Existing
<1>10. Live' = Live
  BY <1>8, <1>9 DEF Live
<1> QED
  BY <1>2, <1>3, <1>6, <1>7, <1>10

LEMMA InitTyped == Init => Typed
<1> SUFFICES ASSUME Init PROVE Typed
  OBVIOUS
<1> USE AlbumsAssumption, Numbers
<1>1. folder = [n \in Names |-> IF n = FIRST THEN 1 ELSE NoAlbum] /\ folder \in Folders
  BY DEF Init, Folders
<1>2. \A m, n \in Existing : folder[m] = folder[n] => m = n
  BY <1>1 DEF Existing
<1>3. TypeOK
  BY <1>1, <1>2 DEF Init, TypeOK, Folders
<1>4. \A n \in Names : folder[n] <= made
  BY <1>1 DEF Init, NoAlbum
<1>5. bearers \in [Names -> SUBSET Ids]
  BY DEF Init
<1>6. \A p \in Photos : home[p] <= made
  BY DEF Init, NoAlbum
<1> QED
  BY <1>3, <1>4, <1>5, <1>6 DEF Init, Typed

\* Steps between which the folders, the bin and their history stay as they were.
LEMMA SameLibrary ==
    ASSUME Typed, UNCHANGED <<folder, made, notes, at, record, home, bearers>>,
           ticks' \in [Screens -> SUBSET Names],
           renamed' \in [Names -> Names \union {NoName}],
           op' \in {NoOp} \union RenameOps \union DeleteOps,
           page' \in {NoPage} \union Pages, faults' \in Nat
    PROVE  Typed'
BY DEF Typed, TypeOK, Existing

\* ... and those in which only the folders stay.
LEMMA SameFolders ==
    ASSUME Typed, UNCHANGED <<folder, made, bearers, renamed, ticks, page>>,
           notes' \subseteq Ids,
           at' \in [Photos -> Ids \union {Bin, Gone}],
           record' \in [Photos -> Records \union {NoRecord}],
           home' \in [Photos -> Ids \union {NoAlbum}],
           \A p \in Photos : at'[p] = Bin <=> record'[p] # NoRecord,
           \A p \in Photos : home'[p] <= made,
           op' \in {NoOp} \union RenameOps \union DeleteOps, faults' \in Nat
    PROVE  Typed'
BY DEF Typed, TypeOK, Existing

\* ... and those in which folders are moved or dropped.
LEMMA NewFolders ==
    ASSUME Typed, UNCHANGED <<made, notes, record, home, renamed, ticks, page, faults>>,
           folder' \in Folders, bearers' \in [Names -> SUBSET Ids],
           \A n \in Names : folder'[n] <= made,
           \A m, n \in Existing' : folder'[m] = folder'[n] => m = n,
           at' \in [Photos -> Ids \union {Bin, Gone}],
           \A p \in Photos : at'[p] = Bin <=> at[p] = Bin,
           op' \in {NoOp} \union RenameOps \union DeleteOps
    PROVE  Typed'
BY DEF Typed, TypeOK, Folders

LEMMA DropsTyped ==
    ASSUME Typed, NEW n \in Names, folder' = [folder EXCEPT ![n] = NoAlbum]
    PROVE  /\ folder' \in Folders
           /\ \A m \in Names : folder'[m] = IF m = n THEN NoAlbum ELSE folder[m]
           /\ \A m \in Names : folder'[m] <= made
           /\ \A m1, m2 \in Existing' : folder'[m1] = folder'[m2] => m1 = m2
<1>1. folder \in Folders /\ made \in Nat
  BY Numbers DEF Typed, TypeOK, Folders
<1>2. folder' \in Folders /\ \A m \in Names : folder'[m] = IF m = n THEN NoAlbum ELSE folder[m]
  BY <1>1 DEF Folders
<1> QED
  BY <1>1, <1>2 DEF Typed, TypeOK, NoAlbum, Existing

LEMMA NextTyped == Typed /\ [Next]_vars => Typed'
<1> SUFFICES ASSUME Typed, [Next]_vars PROVE Typed'
  OBVIOUS
<1>t. TypeOK /\ page \in {NoPage} \union Pages /\ faults \in Nat /\ made \in Nat
  BY Numbers DEF Typed, TypeOK
<1>o. /\ op \in {NoOp} \union RenameOps \union DeleteOps
      /\ op.kind = "rename" => op \in RenameOps
      /\ op.kind = "delete" => op \in DeleteOps
  BY OpShapes DEF Typed
<1>h. \A p \in Photos : home[p] <= made + 1
  <2>1. \A p \in Photos : home[p] \in Nat /\ home[p] <= made
    BY Numbers DEF Typed, NoAlbum
  <2> QED
    BY <2>1, <1>t
<1>1. ASSUME NEW n \in Names, CreateAlbum(n) PROVE Typed'
  <2>1. Makes(n) /\ n \notin Existing
    BY <1>1 DEF CreateAlbum
  <2>2. UNCHANGED <<notes, at, record, home, ticks, renamed, page, op, faults>>
    BY <1>1 DEF CreateAlbum, Operate
  <2>3. /\ folder' \in Folders /\ made' \in Ids /\ bearers' \in [Names -> SUBSET Ids]
        /\ made' = made + 1
        /\ \A m \in Names : folder'[m] <= made'
        /\ \A m1, m2 \in Existing' : folder'[m1] = folder'[m2] => m1 = m2
    BY <2>1, MakesTyped
  <2> QED
    BY <2>2, <2>3, <1>h, <1>t, <1>o DEF Typed, TypeOK, Folders
<1>2. ASSUME NEW n \in Names, RemovePhotos(n) PROVE Typed'
  <2>1. PICK gone \in SUBSET Photos : ToBin(gone, n) /\ n \in Existing
    BY <1>2 DEF RemovePhotos
  <2>2. UNCHANGED <<folder, made, bearers, renamed, ticks, page, notes, op, faults>>
    BY <1>2 DEF RemovePhotos, Operate
  <2> QED
    BY <2>1, <2>2, <1>t, <1>o, ToBinTyped, SameFolders DEF TypeOK
<1>3. ASSUME NEW n \in Names, DeleteRemoves(n) PROVE Typed'
  <2>1. n \in Existing /\ ToBin({p \in Photos : at[p] = folder[n]}, n)
    BY <1>3 DEF DeleteRemoves
  <2>2. UNCHANGED <<folder, made, bearers, renamed, ticks, page, notes, faults>>
    BY <1>3 DEF DeleteRemoves, Operate
  <2>3. op' \in DeleteOps
    BY <1>3 DEF DeleteRemoves, DeleteOps
  <2> QED
    BY <2>1, <2>2, <2>3, <1>t, ToBinTyped, SameFolders DEF TypeOK
<1>4. ASSUME NEW n \in Names, HandNote(n) PROVE Typed'
  <2>1. notes' \subseteq Ids
    BY <1>4, <1>t DEF HandNote, TypeOK, Existing
  <2> QED
    BY <2>1, <1>4, <1>t, <1>o, SameFolders DEF HandNote, Continue, Typed, TypeOK
<1>5. ASSUME NEW n \in Names, HandDelete(n) PROVE Typed'
  <2>1. folder' = [folder EXCEPT ![n] = NoAlbum] /\ folder[n] \in Ids
    BY <1>5, <1>t DEF HandDelete, Existing, TypeOK
  <2>2. /\ at' \in [Photos -> Ids \union {Bin, Gone}]
        /\ \A p \in Photos : at'[p] = Bin <=> at[p] = Bin
    BY <2>1, <1>5, <1>t, Numbers DEF HandDelete, TypeOK
  <2> QED
    BY <2>1, <2>2, <1>5, <1>o, DropsTyped, NewFolders DEF HandDelete, Operate, Typed
<1>6. ASSUME NEW p \in Photos, RestoreRemoved(p) PROVE Typed'
  <2> DEFINE n == record[p].album
  <2>1. record[p] \in Records /\ n \in Names
    BY <1>6, <1>t DEF RestoreRemoved, TypeOK, Records
  <2>2. record' = [record EXCEPT ![p] = NoRecord] /\ at' = [at EXCEPT ![p] = folder'[n]]
    BY <1>6 DEF RestoreRemoved
  <2>3. UNCHANGED <<notes, home, ticks, renamed, page, op, faults>>
    BY <1>6 DEF RestoreRemoved, Operate
  <2>4. folder'[n] \in Ids =>
          /\ at' \in [Photos -> Ids \union {Bin, Gone}]
          /\ record' \in [Photos -> Records \union {NoRecord}]
          /\ \A q \in Photos : at'[q] = Bin <=> record'[q] # NoRecord
    BY <2>2, <1>t, Numbers DEF TypeOK
  <2>5. CASE n \in Existing
    <3>1. UNCHANGED <<made, folder, bearers>> /\ folder'[n] \in Ids
      BY <1>6, <2>5, <1>t DEF RestoreRemoved, Existing, TypeOK
    <3> QED
      BY <3>1, <2>3, <2>4, <1>t, <1>o, SameFolders DEF Typed, TypeOK
  <2>6. CASE n \notin Existing
    <3>1. Makes(n)
      BY <1>6, <2>6 DEF RestoreRemoved
    <3> HIDE DEF n
    <3>2. /\ folder' \in Folders /\ made' \in Ids /\ bearers' \in [Names -> SUBSET Ids]
          /\ folder'[n] \in Ids /\ made' = made + 1
          /\ \A m \in Names : folder'[m] <= made'
          /\ \A m1, m2 \in Existing' : folder'[m1] = folder'[m2] => m1 = m2
      BY <3>1, <2>1, <2>6, MakesTyped
    <3>3. \A q \in Photos : home'[q] <= made'
      BY <3>2, <2>3, <1>h
    <3> QED
      BY <3>2, <3>3, <2>3, <2>4, <1>t, <1>o DEF Typed, TypeOK, Folders
  <2> QED
    BY <2>5, <2>6
<1>7. ASSUME NEW p \in Photos, Purge(p) PROVE Typed'
  <2>1. /\ at' \in [Photos -> Ids \union {Bin, Gone}]
        /\ record' \in [Photos -> Records \union {NoRecord}]
        /\ \A q \in Photos : at'[q] = Bin <=> record'[q] # NoRecord
    BY <1>7, <1>t, Numbers DEF Purge, TypeOK
  <2> QED
    BY <2>1, <1>7, <1>t, <1>o, SameFolders DEF Purge, Continue, Typed, TypeOK
<1>8. ASSUME NEW old \in Names, NEW new \in Names, RenameMoves(old, new) PROVE Typed'
  <2>1. MovesFolder(old, new) /\ old # new /\ new \notin Existing /\ folder[old] \in Ids
    BY <1>8, <1>t DEF RenameMoves, Existing, TypeOK
  <2>2. bearers' \in [Names -> SUBSET Ids]
    BY <1>8, <2>1 DEF RenameMoves, Typed
  <2>3. op' \in RenameOps
    BY <1>8, <1>t DEF RenameMoves, RenameOps, TypeOK, Folders, BinRecords
  <2> QED
    BY <2>1, <2>2, <2>3, <1>8, <1>t, MovesTyped, NewFolders DEF RenameMoves, Operate, TypeOK
<1>9. CASE RenameTags
  <2>1. op \in RenameOps
    BY <1>9, <1>o DEF RenameTags, InRename
  <2>2. /\ record' \in [Photos -> Records \union {NoRecord}]
        /\ \A p \in Photos : at[p] = Bin <=> record'[p] # NoRecord
        /\ op' \in RenameOps
    <3>1. CASE ToTag = {}
      BY <3>1, <2>1, <1>9, <1>t DEF RenameTags, TypeOK, RenameOps
    <3>2. ASSUME NEW p \in ToTag, record' = [record EXCEPT ![p].album = op.new],
                 op' = [op EXCEPT !.tagged = @ \union {p}]
          PROVE  /\ record' \in [Photos -> Records \union {NoRecord}]
                 /\ \A q \in Photos : at[q] = Bin <=> record'[q] # NoRecord
                 /\ op' \in RenameOps
      <4>1. p \in Photos /\ record[p] \in Records /\ op.new \in Names
        BY <3>2, <2>1, <1>t DEF ToTag, TypeOK, RenameOps
      <4>2. [record[p] EXCEPT !.album = op.new] \in Records
        BY <4>1 DEF Records
      <4>3. op' \in RenameOps
        BY <3>2, <4>1, <2>1 DEF RenameOps
      <4> QED
        BY <3>2, <4>1, <4>2, <4>3, <1>t, RecordsAre DEF TypeOK
    <3> QED
      BY <3>1, <3>2, <1>9 DEF RenameTags
  <2> QED
    BY <2>2, <1>9, <1>t, SameFolders DEF RenameTags, Continue, Typed, TypeOK
<1>10. CASE RenameWrites
  <2>1. op \in RenameOps
    BY <1>10, <1>o DEF RenameWrites, InRename
  <2>2. \A s \in Screens : Swapped(ticks[s], op.old, op.new) \in SUBSET Names
    BY <2>1, <1>t DEF Swapped, TypeOK, RenameOps
  <2>3. ticks' \in [Screens -> SUBSET Names]
    BY <2>2, <1>10 DEF RenameWrites, NewTicks
  <2>4. renamed' \in [Names -> Names \union {NoName}]
    BY <2>1, <1>10, <1>t DEF RenameWrites, TypeOK, RenameOps
  <2> QED
    BY <2>3, <2>4, <1>10, <1>t, SameLibrary DEF RenameWrites, Continue, library
<1>11. CASE RenameWriteFails
  <2>1. op' \in RenameOps
    BY <1>11, <1>o DEF RenameWriteFails, InRename, RenameOps
  <2> QED
    BY <2>1, <1>11, <1>t, SameLibrary DEF RenameWriteFails, Fails, library, TypeOK
<1>12. CASE UndoMoves
  <2>1. op \in RenameOps /\ op' \in RenameOps
    BY <1>12, <1>o DEF UndoMoves, InRename, RenameOps
  <2>2. op.old \in Names /\ op.new \in Names /\ op.old \notin Existing /\ MovesFolder(op.new, op.old)
    BY <1>12, <2>1 DEF UndoMoves, RenameOps
  <2>3. UNCHANGED <<made, notes, at, record, home, bearers, ticks, renamed, page, faults>>
    BY <1>12 DEF UndoMoves, Continue
  <2>4. /\ folder' \in Folders
        /\ \A m \in Names : folder'[m] <= made
        /\ \A m1, m2 \in Existing' : folder'[m1] = folder'[m2] => m1 = m2
    <3>1. CASE op.new # op.old
      BY <3>1, <2>2, MovesTyped
    <3>2. CASE op.new = op.old
      <4>1. folder' = folder
        BY <3>2, <2>2, <1>t DEF MovesFolder, TypeOK, Existing
      <4> QED
        BY <4>1 DEF Typed, TypeOK, Folders, Existing
    <3> QED
      BY <3>1, <3>2
  <2> QED
    BY <2>1, <2>3, <2>4, NewFolders DEF Typed, TypeOK
<1>13. CASE UndoTags
  <2>1. op \in RenameOps
    BY <1>13, <1>o DEF UndoTags, InRename
  <2>2. /\ record' \in [Photos -> Records \union {NoRecord}]
        /\ \A p \in Photos : at[p] = Bin <=> record'[p] # NoRecord
    <3>1. CASE ToUntag = {}
      BY <3>1, <1>13, <1>t DEF UndoTags, TypeOK
    <3>2. ASSUME NEW p \in ToUntag, record' = [record EXCEPT ![p].album = op.old]
          PROVE  /\ record' \in [Photos -> Records \union {NoRecord}]
                 /\ \A q \in Photos : at[q] = Bin <=> record'[q] # NoRecord
      <4>1. p \in Photos /\ record[p] \in Records /\ op.old \in Names
        BY <3>2, <2>1, <1>t DEF ToUntag, TypeOK, RenameOps
      <4>2. [record[p] EXCEPT !.album = op.old] \in Records
        BY <4>1 DEF Records
      <4> QED
        BY <3>2, <4>1, <4>2, <1>t, RecordsAre DEF TypeOK
    <3> QED
      BY <3>1, <3>2, <1>13 DEF UndoTags
  <2>3. op' \in {NoOp} \union RenameOps \union DeleteOps
    BY <1>13, <2>1 DEF UndoTags
  <2> QED
    BY <2>2, <2>3, <1>13, <1>t, SameFolders DEF UndoTags, Continue, Typed, TypeOK
<1>p. PageStales => page' \in {NoPage} \union Pages
  BY <1>t DEF PageStales, Pages
<1>14. CASE UndoFails
  BY <1>14, <1>t, <1>p, SameLibrary DEF UndoFails, library, TypeOK
<1>15. CASE DeleteDropsFolder
  <2>1. op \in DeleteOps /\ op' \in DeleteOps /\ op.old \in Names
    BY <1>15, <1>o DEF DeleteDropsFolder, InDelete, DeleteOps
  <2>2. folder' = folder \/ folder' = [folder EXCEPT ![op.old] = NoAlbum]
    BY <1>15 DEF DeleteDropsFolder
  <2>3. /\ folder' \in Folders
        /\ \A m \in Names : folder'[m] <= made
        /\ \A m1, m2 \in Existing' : folder'[m1] = folder'[m2] => m1 = m2
    <3>1. CASE folder' = folder
      BY <3>1 DEF Typed, TypeOK, Folders, Existing
    <3> QED
      BY <3>1, <2>1, <2>2, DropsTyped
  <2> QED
    BY <2>1, <2>3, <1>15, NewFolders DEF DeleteDropsFolder, Continue, Typed, TypeOK
<1>16. CASE DeleteMarks
  <2>1. \A p \in Photos : record[p] # NoRecord => [record[p] EXCEPT !.deleted = TRUE] \in Records
    BY <1>t DEF TypeOK, Records
  <2>2. /\ record' \in [Photos -> Records \union {NoRecord}]
        /\ \A p \in Photos : at[p] = Bin <=> record'[p] # NoRecord
    BY <2>1, <1>16, <1>t, RecordsAre DEF DeleteMarks, Marked, TypeOK
  <2> QED
    BY <2>2, <1>16, <1>t, SameFolders DEF DeleteMarks, Continue, Typed, TypeOK
<1>17. ASSUME NEW s \in Screens, OpenPage(s) PROVE Typed'
  <2>1. page' \in Pages
    BY <1>17, <1>t DEF OpenPage, Pages, Existing, TypeOK, Folders
  <2> QED
    BY <2>1, <1>17, <1>t, <1>o, SameLibrary DEF OpenPage, Continue, library, TypeOK
<1>18. ASSUME NEW posted \in SUBSET Names, SaveTicks(posted) PROVE Typed'
  <2>1. {Followed(n) : n \in posted} \in SUBSET Names
    BY <1>t, FollowedType DEF TypeOK
  <2>2. ticks' \in [Screens -> SUBSET Names]
    BY <2>1, <1>18, <1>t DEF SaveTicks, TypeOK
  <2> QED
    BY <2>2, <1>18, <1>t, <1>o, SameLibrary DEF SaveTicks, Operate, library, TypeOK
<1>19. CASE Restart
  BY <1>19, <1>t, <1>p, SameLibrary DEF Restart, Fails, library, TypeOK
<1>20. CASE UNCHANGED vars
  BY <1>20, <1>t, <1>o, SameLibrary DEF vars, TypeOK
<1> QED
  BY <1>1, <1>2, <1>3, <1>4, <1>5, <1>6, <1>7, <1>8, <1>9, <1>10, <1>11, <1>12, <1>13,
     <1>14, <1>15, <1>16, <1>17, <1>18, <1>19, <1>20 DEF Next

\* Two folders are never one album, a photo is in the bin exactly when it has a record
\* there, and names that are followed lead to names.
THEOREM AlbumsTyped == Spec => []TypeOK
BY InitTyped, NextTyped, PTL DEF Spec, Typed

---------------------------------------------------------------------------
\* A rename under way

\* A record the rename has given the new name, and may have to give the old one back.
Retagged(p) ==
    /\ p \in op.tagged
    /\ op.before.record[p] = [album |-> op.old, deleted |-> FALSE]
    /\ record[p] = [album |-> op.new, deleted |-> FALSE]

\* What is left of the state before it, at each of its steps.
RenameInv == op.kind = "rename" =>
    /\ op.old # op.new
    /\ op.before.folder[op.old] # NoAlbum /\ op.before.folder[op.new] = NoAlbum
    /\ op.step # "untag" =>
         folder = [op.before.folder EXCEPT ![op.old] = NoAlbum, ![op.new] = op.before.folder[op.old]]
    /\ op.step = "untag" => folder = op.before.folder
    /\ ticks = op.before.ticks
    /\ \A p \in op.tagged : op.before.record[p] = [album |-> op.old, deleted |-> FALSE]
    /\ \A p \in Photos : Retagged(p) \/ record[p] \in {op.before.record[p], NoRecord}

\* Nothing but its own steps, a purge and a crash happens while an operation is under way.
LEMMA WhileBusy ==
    ASSUME Typed, [Next]_vars, op # NoOp
    PROVE  \/ RenameTags \/ RenameWrites \/ RenameWriteFails \/ UndoMoves \/ UndoTags \/ UndoFails
           \/ DeleteDropsFolder \/ DeleteMarks \/ Restart
           \/ \E p \in Photos : Purge(p)
           \/ UNCHANGED vars
BY DEF Next, CreateAlbum, RemovePhotos, DeleteRemoves, HandNote, HandDelete, RestoreRemoved,
       RenameMoves, OpenPage, SaveTicks, Operate

LEMMA InitRename == Init => RenameInv
BY DEF Init, RenameInv, NoOp

LEMMA RenameBegins ==
    ASSUME Typed, NEW old \in Names, NEW new \in Names, RenameMoves(old, new) PROVE RenameInv'
<1>1. folder \in Folders /\ old \in Existing /\ new \notin Existing
  BY DEF RenameMoves, Typed, TypeOK, Folders
<1>2. op' = [kind |-> "rename", step |-> "tag", old |-> old, new |-> new, tagged |-> {},
             before |-> [folder |-> folder, record |-> record, ticks |-> ticks]]
  BY DEF RenameMoves
<1>3. folder' = [folder EXCEPT ![old] = NoAlbum, ![new] = folder[old]] /\ UNCHANGED <<record, ticks>>
  BY DEF RenameMoves, MovesFolder
<1> QED
  BY <1>1, <1>2, <1>3 DEF RenameInv, Existing

LEMMA NextRename == Typed /\ RenameInv /\ [Next]_vars => RenameInv'
<1> SUFFICES ASSUME Typed, RenameInv, [Next]_vars, op'.kind = "rename" PROVE RenameInv'
  BY DEF RenameInv
<1>o. /\ op \in {NoOp} \union RenameOps \union DeleteOps
      /\ op.kind = "rename" => op \in RenameOps
      /\ op.kind = "delete" => op \in DeleteOps
      /\ op = NoOp => op.kind = "none"
  BY OpShapes DEF Typed
<1>t. folder \in Folders /\ record \in BinRecords
  BY DEF Typed, TypeOK, Folders, BinRecords
<1>1. CASE op = NoOp
  <2>1. \E old, new \in Names : RenameMoves(old, new)
    <3>1. op.kind = "none" /\ NoOp.kind = "none"
      BY <1>1, <1>o DEF NoOp
    <3>2. \A n \in Names : DeleteRemoves(n) => op'.kind = "delete"
      BY DEF DeleteRemoves
    <3>3. [Next]_vars =>
            \/ op' = op \/ op' = NoOp \/ \E n \in Names : DeleteRemoves(n)
            \/ \E old, new \in Names : RenameMoves(old, new)
      BY <3>1 DEF Next, vars, CreateAlbum, RemovePhotos, HandNote, HandDelete, RestoreRemoved,
           Purge, RenameTags, RenameWrites, RenameWriteFails, UndoMoves, UndoTags, UndoFails,
           DeleteDropsFolder, DeleteMarks, OpenPage, SaveTicks, Restart, InRename, InDelete
    <3> QED
      BY <1>1, <3>1, <3>2, <3>3
  <2> QED
    BY <2>1, RenameBegins
<1>2. CASE op.kind = "delete"
  <2>1. op # NoOp
    BY <1>2, <1>o
  <2> QED
    BY <1>2, <1>o, <2>1, WhileBusy DEF RenameTags, RenameWrites, RenameWriteFails, UndoMoves,
       UndoTags, UndoFails, DeleteDropsFolder, DeleteMarks, Restart, Purge, vars, InRename, NoOp,
       DeleteOps
<1>3. CASE op.kind = "rename"
  <2>o. op \in RenameOps /\ op # NoOp
    BY <1>3, <1>o
  <2> USE <1>3 DEF RenameInv
  <2>1. CASE RenameTags
    <3>1. CASE ToTag = {}
      BY <2>1, <3>1, <2>o DEF RenameTags, InRename, RenameOps, Retagged, Continue
    <3>2. ASSUME NEW p \in ToTag, record' = [record EXCEPT ![p].album = op.new],
                 op' = [op EXCEPT !.tagged = @ \union {p}]
          PROVE  RenameInv'
      <4>1. /\ op'.old = op.old /\ op'.new = op.new /\ op'.before = op.before
            /\ op'.step = op.step /\ op'.tagged = op.tagged \union {p}
        BY <3>2, <2>o DEF RenameOps
      <4>2. p \in Photos /\ record[p] \in Records /\ record[p].album = op.old /\ ~record[p].deleted
        BY <3>2, <1>t DEF ToTag, BinRecords
      <4>3. record[p] = [album |-> op.old, deleted |-> FALSE]
        BY <4>2 DEF Records
      <4>4. record'[p] = [album |-> op.new, deleted |-> FALSE]
        <5>1. record'[p] = [record[p] EXCEPT !.album = op.new]
          BY <3>2, <4>2, <1>t DEF BinRecords
        <5>2. op.new \in Names /\ record[p].deleted = FALSE
          BY <2>o, <4>3 DEF RenameOps
        <5> QED
          BY <5>1, <5>2, <4>2, RetagIs
      <4>5. \A q \in Photos : q # p => record'[q] = record[q]
        BY <3>2, <1>t DEF BinRecords
      <4>6. ~Retagged(p) /\ record[p] # NoRecord
        <5>1. op.old # op.new
          OBVIOUS
        <5>2. Retagged(p) => record[p].album = op.new
          BY DEF Retagged
        <5> QED
          BY <4>2, <5>1, <5>2, RecordsAre
      <4>7. \A q \in Photos : Retagged(q)' \/ record'[q] \in {op'.before.record[q], NoRecord}
        BY <4>1, <4>3, <4>4, <4>5, <4>6 DEF Retagged
      <4>8. \A q \in op'.tagged : op'.before.record[q] = [album |-> op'.old, deleted |-> FALSE]
        BY <4>1, <4>2, <4>3, <4>6
      <4> QED
        BY <2>1, <4>1, <4>7, <4>8 DEF RenameTags, InRename
    <3> QED
      BY <3>1, <3>2, <2>1 DEF RenameTags
  <2>2. CASE RenameWriteFails
    BY <2>2, <2>o DEF RenameWriteFails, InRename, RenameOps, Retagged, library
  <2>3. CASE UndoMoves
    <3>1. /\ op'.old = op.old /\ op'.new = op.new /\ op'.before = op.before
          /\ op'.step = "untag" /\ op'.tagged = op.tagged
      BY <2>3, <2>o DEF UndoMoves, RenameOps
    <3>2. folder' = op.before.folder
      <4>1. op.before.folder \in Folders /\ op.old \in Names /\ op.new \in Names
        BY <2>o DEF RenameOps
      <4>2. folder' = [folder EXCEPT ![op.new] = NoAlbum, ![op.old] = folder[op.new]]
        BY <2>3 DEF UndoMoves, MovesFolder
      <4>3. folder = [op.before.folder EXCEPT ![op.old] = NoAlbum, ![op.new] = op.before.folder[op.old]]
        BY <2>3 DEF UndoMoves, InRename
      <4> QED
        BY <4>1, <4>2, <4>3 DEF Folders
    <3> QED
      BY <2>3, <3>1, <3>2 DEF UndoMoves, Retagged
  <2>4. CASE UndoTags
    <3>1. CASE ToUntag = {}
      BY <2>4, <3>1 DEF UndoTags, NoOp
    <3>2. ASSUME NEW p \in ToUntag, record' = [record EXCEPT ![p].album = op.old], UNCHANGED op
          PROVE  RenameInv'
      <4>1. p \in Photos /\ record[p] \in Records /\ record[p].album = op.new /\ p \in op.tagged
        BY <3>2, <2>o, <1>t DEF ToUntag, BinRecords, RenameOps
      <4>2. record'[p] = [album |-> op.old, deleted |-> record[p].deleted]
        BY <3>2, <4>1, <1>t DEF BinRecords, Records
      <4>3. \A q \in Photos : q # p => record'[q] = record[q]
        BY <3>2, <1>t DEF BinRecords
      <4>4. Retagged(p) => record'[p] = op.before.record[p]
        BY <4>2 DEF Retagged
      <4>5. p \in Photos /\ record[p] # NoRecord /\ UNCHANGED op
        BY <3>2, <4>1, RecordsAre
      <4>6. Retagged(p)
        <5>1. op.before.record[p].album = op.old /\ op.old # op.new
          BY <4>1
        <5> QED
          BY <4>1, <4>5, <5>1
      <4>7. \A q \in Photos : Retagged(q)' \/ record'[q] \in {op'.before.record[q], NoRecord}
        BY <4>3, <4>4, <4>5, <4>6 DEF Retagged
      <4> QED
        BY <2>4, <4>5, <4>7 DEF UndoTags
    <3> QED
      BY <3>1, <3>2, <2>4 DEF UndoTags
  <2>5. ASSUME NEW p \in Photos, Purge(p) PROVE RenameInv'
    <3>1. \A q \in Photos : record'[q] \in {record[q], NoRecord}
      BY <2>5, <1>t DEF Purge, BinRecords
    <3>2. UNCHANGED <<op, folder, ticks>>
      BY <2>5 DEF Purge
    <3>3. \A q \in Photos : Retagged(q)' \/ record'[q] \in {op'.before.record[q], NoRecord}
      BY <3>1, <3>2 DEF Retagged
    <3> QED
      BY <3>2, <3>3
  <2>6. CASE UNCHANGED vars
    BY <2>6 DEF vars, Retagged
  <2>7. ~(RenameWrites \/ UndoFails \/ Restart \/ DeleteDropsFolder \/ DeleteMarks)
    BY DEF RenameWrites, UndoFails, Restart, DeleteDropsFolder, DeleteMarks, InDelete, NoOp
  <2> QED
    BY <2>o, <2>1, <2>2, <2>3, <2>4, <2>5, <2>6, <2>7, WhileBusy
<1>4. op = NoOp \/ op.kind = "delete" \/ op.kind = "rename"
  BY <1>o DEF RenameOps, DeleteOps
<1> QED
  BY <1>1, <1>2, <1>3, <1>4

\* A rename ends with the new name everywhere it may be, or with everything as it was.
THEOREM RenameEndsClean == Spec => RenameAllOrNothing
<1> DEFINE Clean ==
      op' = NoOp /\ op.kind = "rename" /\ faults' = faults =>
          /\ \A p \in Photos :
                \/ record'[p] \in {op.before.record[p], NoRecord}
                \/ op.step = "write" /\ ~op.before.record[p].deleted
          /\ op.step = "untag" => folder' = op.before.folder /\ ticks' = op.before.ticks
<1>1. Typed /\ RenameInv /\ [Next]_vars => Clean
  <2> SUFFICES ASSUME Typed, RenameInv, [Next]_vars, op' = NoOp, op.kind = "rename",
                      faults' = faults
               PROVE  Clean
    OBVIOUS
  <2>o. op \in RenameOps /\ op # NoOp /\ faults \in Nat
    BY OpShapes DEF Typed, NoOp
  <2>1. CASE RenameWrites
    <3>1. UNCHANGED record /\ op.step = "write"
      BY <2>1 DEF RenameWrites, InRename, library
    <3>2. \A p \in Photos : Retagged(p) => ~op.before.record[p].deleted
      BY DEF Retagged
    <3> QED
      BY <3>1, <3>2 DEF RenameInv
  <2>2. CASE UndoTags
    <3>1. ToUntag = {} /\ UNCHANGED <<record, folder, ticks>> /\ op.step = "untag"
      BY <2>2, <2>o DEF UndoTags, InRename
    <3>2. ASSUME NEW p \in Photos, Retagged(p) PROVE FALSE
      <4>1. record[p] \in Records /\ record[p].album = op.new /\ p \in op.tagged
        BY <2>o, <3>2 DEF Retagged, Records, RenameOps
      <4> QED
        BY <3>1, <4>1, RecordsAre DEF ToUntag
    <3> QED
      BY <3>1, <3>2 DEF RenameInv
  <2>3. ~(UndoFails \/ Restart \/ RenameWriteFails)
    BY <2>o DEF UndoFails, Restart, RenameWriteFails, Fails
  <2>4. ~(RenameTags \/ UndoMoves \/ DeleteDropsFolder \/ DeleteMarks \/ UNCHANGED vars)
    BY <2>o DEF RenameTags, UndoMoves, DeleteDropsFolder, DeleteMarks, InDelete, vars, NoOp,
                RenameOps
  <2>5. ~\E p \in Photos : Purge(p)
    BY <2>o DEF Purge
  <2> QED
    BY <2>o, <2>1, <2>2, <2>3, <2>4, <2>5, WhileBusy
<1> QED
  BY <1>1, InitTyped, NextTyped, InitRename, NextRename, PTL DEF Spec, RenameAllOrNothing

---------------------------------------------------------------------------
\* The bin

\* While nothing has failed, the record of a photo whose album exists names its folder, or
\* the name a rename is about to take from it.
BinInv == faults = 0 =>
    /\ op.kind = "rename" => op.step \in {"tag", "write"}
    /\ \A p \in Photos, n \in Existing : at[p] = Bin /\ folder[n] = home[p] =>
         \/ record[p] = [album |-> n, deleted |-> FALSE]
         \/ /\ op.kind = "rename" /\ op.step = "tag" /\ n = op.new
            /\ record[p] = [album |-> op.old, deleted |-> FALSE]

LEMMA InitBin == Init => BinInv
BY Numbers DEF Init, BinInv, NoOp

\* Steps that leave the bin, the folders and the operation alone.
LEMMA SameBin ==
    ASSUME BinInv, faults' = 0 => faults = 0,
           UNCHANGED <<folder, home, record, op>>,
           \A p \in Photos : at'[p] = Bin => at[p] = Bin
    PROVE  BinInv'
BY DEF BinInv, Existing

\* Steps outside a rename that only drop folders.
LEMMA FewerFolders ==
    ASSUME BinInv, UNCHANGED <<faults, record, home>>, op.kind # "rename", op'.kind # "rename",
           \A p \in Photos : at'[p] = Bin => at[p] = Bin,
           \A n \in Existing' : n \in Existing /\ folder'[n] = folder[n]
    PROVE  BinInv'
BY DEF BinInv

\* Steps that send photos to the bin.
LEMMA MoreInBin ==
    ASSUME Typed, BinInv, NEW n \in Existing, NEW gone \in SUBSET Photos, ToBin(gone, n),
           UNCHANGED <<faults, folder>>, op.kind # "rename", op'.kind # "rename"
    PROVE  BinInv'
<1>1. \A m \in Existing : folder[m] = folder[n] => m = n
  BY DEF Typed, TypeOK
<1>2. Existing' = Existing
  BY DEF Existing
<1>3. \A p \in Photos : p \in gone => home'[p] = folder[n] /\ record'[p] = [album |-> n, deleted |-> FALSE]
  BY DEF ToBin
<1>4. \A p \in Photos : p \notin gone => home'[p] = home[p] /\ record'[p] = record[p] /\ at'[p] = at[p]
  BY DEF ToBin
<1>5. ASSUME faults = 0, NEW p \in Photos, NEW m \in Existing, at'[p] = Bin, folder[m] = home'[p]
      PROVE  record'[p] = [album |-> m, deleted |-> FALSE]
  <2>1. CASE p \in gone
    BY <1>1, <1>3, <1>5, <2>1
  <2>2. CASE p \notin gone
    BY <1>4, <1>5, <2>2 DEF BinInv
  <2> QED
    BY <2>1, <2>2
<1> QED
  BY <1>2, <1>5 DEF BinInv

LEMMA NextBin == Typed /\ RenameInv /\ BinInv /\ [Next]_vars => BinInv'
<1> SUFFICES ASSUME Typed, RenameInv, BinInv, [Next]_vars, faults' = 0 PROVE BinInv'
  BY DEF BinInv
<1>o. /\ op \in {NoOp} \union RenameOps \union DeleteOps
      /\ op.kind = "rename" => op \in RenameOps
      /\ op.kind = "delete" => op \in DeleteOps
      /\ op = NoOp => op.kind = "none"
      /\ NoOp.kind = "none"
  BY OpShapes DEF Typed, NoOp
<1>t. /\ folder \in Folders /\ record \in BinRecords /\ faults \in Nat
      /\ \A m, n \in Existing : folder[m] = folder[n] => m = n
  BY DEF Typed, TypeOK, Folders, BinRecords
<1>1. ASSUME NEW n \in Names, Makes(n), n \notin Existing, op = NoOp,
             UNCHANGED <<op, home, faults>>,
             \A p \in Photos : at'[p] = Bin => at[p] = Bin /\ record'[p] = record[p]
      PROVE  BinInv'
  <2>1. /\ folder'[n] = made + 1 /\ made \in Nat /\ Existing' = Existing \union {n}
        /\ \A m \in Names : m # n => folder'[m] = folder[m]
    BY <1>1, MakesTyped
  <2>2. \A p \in Photos : home[p] <= made /\ home[p] \in Nat
    BY Numbers DEF Typed, NoAlbum
  <2>3. \A p \in Photos : home[p] # folder'[n]
    BY <2>1, <2>2
  <2> QED
    BY <2>1, <2>3, <1>1, <1>o DEF BinInv, Existing
<1>2. ASSUME NEW n \in Names, CreateAlbum(n) PROVE BinInv'
  BY <1>1, <1>2 DEF CreateAlbum, Operate
<1>3. ASSUME NEW n \in Names, RemovePhotos(n) \/ DeleteRemoves(n) PROVE BinInv'
  <2>1. PICK gone \in SUBSET Photos : ToBin(gone, n) /\ n \in Existing
    BY <1>3 DEF RemovePhotos, DeleteRemoves
  <2>2. UNCHANGED <<faults, folder>> /\ op.kind # "rename" /\ op'.kind # "rename"
    BY <1>3, <1>o DEF RemovePhotos, DeleteRemoves, Operate
  <2> QED
    BY <2>1, <2>2, MoreInBin
<1>4. ASSUME NEW n \in Names, HandNote(n) PROVE BinInv'
  BY <1>4, SameBin DEF HandNote, Continue
<1>5. ASSUME NEW n \in Names, HandDelete(n) PROVE BinInv'
  <2>1. UNCHANGED <<faults, record, home, op>> /\ op = NoOp
    BY <1>5 DEF HandDelete, Operate
  <2>2. \A m \in Existing' : m \in Existing /\ folder'[m] = folder[m]
    BY <1>5, <1>t DEF HandDelete, Existing, Folders
  <2>3. \A p \in Photos : at'[p] = Bin => at[p] = Bin
    BY <1>5, Numbers DEF HandDelete
  <2> QED
    BY <2>1, <2>2, <2>3, <1>o, FewerFolders
<1>6. ASSUME NEW p \in Photos, RestoreRemoved(p) PROVE BinInv'
  <2> DEFINE n == record[p].album
  <2>1. record[p] \in Records /\ n \in Names
    BY <1>6, <1>t DEF RestoreRemoved, BinRecords, Records
  <2>2. UNCHANGED <<op, home, faults>> /\ op = NoOp
    BY <1>6 DEF RestoreRemoved, Operate
  <2>3. folder'[n] \in Ids
    <3>1. CASE n \in Existing
      BY <3>1, <1>6, <1>t DEF RestoreRemoved, Existing, Folders
    <3>2. CASE n \notin Existing
      BY <3>2, <2>1, <1>6, MakesTyped DEF RestoreRemoved
    <3> QED
      BY <3>1, <3>2
  <2>4. at'[p] = folder'[n]
    BY <1>6 DEF RestoreRemoved, Typed, TypeOK
  <2>5. \A q \in Photos : q # p => at'[q] = at[q] /\ record'[q] = record[q]
    BY <1>6, <1>t DEF RestoreRemoved, Typed, TypeOK
  <2>6. \A q \in Photos : at'[q] = Bin => at[q] = Bin /\ record'[q] = record[q]
    BY <2>3, <2>4, <2>5, Numbers
  <2>7. CASE n \in Existing
    <3>1. UNCHANGED <<folder, home, op, faults>> /\ op.kind = "none" /\ Existing' = Existing
      BY <1>6, <1>o, <2>2, <2>7 DEF RestoreRemoved, Existing
    <3> QED
      BY <2>6, <3>1 DEF BinInv
  <2>8. CASE n \notin Existing
    BY <1>1, <1>6, <2>1, <2>2, <2>6, <2>8 DEF RestoreRemoved
  <2> QED
    BY <2>7, <2>8
<1>7. ASSUME NEW p \in Photos, Purge(p) PROVE BinInv'
  <2>1. UNCHANGED <<folder, home, op, faults>>
    BY <1>7 DEF Purge, Continue
  <2>2. \A q \in Photos : at'[q] = Bin => at[q] = Bin /\ q # p
    BY <1>7, Numbers DEF Purge, Typed, TypeOK
  <2>3. \A q \in Photos : q # p => record'[q] = record[q]
    BY <1>7, <1>t DEF Purge, BinRecords
  <2> QED
    BY <2>1, <2>2, <2>3 DEF BinInv, Existing
<1>8. ASSUME NEW old \in Names, NEW new \in Names, RenameMoves(old, new) PROVE BinInv'
  <2>1. MovesFolder(old, new) /\ old # new /\ new \notin Existing /\ old \in Existing /\ op = NoOp
        /\ UNCHANGED <<at, record, home, faults>>
    BY <1>8 DEF RenameMoves, Operate, Existing
  <2>2. folder' = [n \in Names |-> IF n = new THEN folder[old]
                                   ELSE IF n = old THEN NoAlbum ELSE folder[n]]
    BY <2>1, MovesTyped
  <2>3. op'.kind = "rename" /\ op'.step = "tag" /\ op'.old = old /\ op'.new = new
    BY <1>8 DEF RenameMoves
  <2> QED
    BY <1>o, <2>1, <2>2, <2>3 DEF BinInv, Existing
<1>9. CASE RenameTags
  <2>1. op \in RenameOps /\ op.kind = "rename" /\ op.step = "tag"
    BY <1>9, <1>o DEF RenameTags, InRename
  <2>2. folder[op.old] = NoAlbum
    <3>1. op.before.folder \in Folders /\ op.old \in Names /\ op.new \in Names
      BY <2>1 DEF RenameOps
    <3> QED
      BY <2>1, <3>1 DEF RenameInv, Folders
  <2>3. UNCHANGED <<folder, at, home, faults>>
    BY <1>9 DEF RenameTags, Continue
  <2>4. CASE ToTag = {}
    <3>1. op'.kind = "rename" /\ op'.step = "write" /\ UNCHANGED record
      BY <2>4, <2>1, <1>9 DEF RenameTags, RenameOps
    <3>2. \A p \in Photos : record[p] # [album |-> op.old, deleted |-> FALSE]
      <4>1. op.old \in Names /\ [album |-> op.old, deleted |-> FALSE] \in Records
        BY <2>1 DEF RenameOps, Records
      <4> QED
        BY <4>1, <2>4, RecordsAre DEF ToTag
    <3> QED
      BY <3>1, <3>2, <2>3 DEF BinInv, Existing
  <2>5. ASSUME NEW p \in ToTag, record' = [record EXCEPT ![p].album = op.new],
               op' = [op EXCEPT !.tagged = @ \union {p}]
        PROVE  BinInv'
    <3>1. op'.kind = "rename" /\ op'.step = "tag" /\ op'.old = op.old /\ op'.new = op.new
      BY <2>5, <2>1 DEF RenameOps
    <3>2. p \in Photos /\ record[p] \in Records /\ record[p].album = op.old /\ ~record[p].deleted
          /\ op.new \in Names
      BY <2>5, <2>1, <1>t DEF ToTag, BinRecords, RenameOps
    <3>3. record'[p] = [record[p] EXCEPT !.album = op.new]
      BY <2>5, <3>2, <1>t DEF BinRecords
    <3>4. record'[p] = [album |-> op.new, deleted |-> FALSE]
      <4>1. record[p].deleted = FALSE
        BY <3>2 DEF Records
      <4> QED
        BY <3>2, <3>3, <4>1, RetagIs
    <3>5. \A q \in Photos : q # p => record'[q] = record[q]
      BY <2>5, <1>t DEF BinRecords
    <3>6. \A n \in Existing : n # op.old
      BY <2>2 DEF Existing
    <3>7. \A n \in Existing : at[p] = Bin /\ folder[n] = home[p] => n = op.new
      <4>1. ASSUME NEW n \in Existing, record[p] = [album |-> n, deleted |-> FALSE] PROVE FALSE
        BY <4>1, <3>2, <3>6
      <4>2. faults = 0
        BY <2>3
      <4> QED
        BY <4>1, <4>2, <3>2 DEF BinInv
    <3> QED
      BY <2>1, <2>3, <3>1, <3>4, <3>5, <3>7 DEF BinInv, Existing
  <2> QED
    BY <2>4, <2>5, <1>9 DEF RenameTags
<1>10. CASE RenameWrites
  <2>1. op.kind = "rename" /\ op.step = "write" /\ op'.kind = "none"
        /\ UNCHANGED <<folder, at, home, record, faults>>
    BY <1>10, <1>o DEF RenameWrites, InRename, Continue, library
  <2> QED
    BY <2>1 DEF BinInv, Existing
<1>11. ~(RenameWriteFails \/ UndoFails \/ Restart)
  BY <1>t DEF RenameWriteFails, UndoFails, Restart, Fails
<1>12. ~(UndoMoves \/ UndoTags)
  BY DEF UndoMoves, UndoTags, InRename, Continue, BinInv
<1>13. CASE DeleteDropsFolder
  <2>1. op \in DeleteOps /\ op.kind = "delete" /\ op'.kind = "delete" /\ op.old \in Names
    BY <1>13, <1>o DEF DeleteDropsFolder, InDelete, DeleteOps
  <2>2. UNCHANGED <<faults, record, home, at>>
    BY <1>13 DEF DeleteDropsFolder, Continue
  <2>3. \A m \in Existing' : m \in Existing /\ folder'[m] = folder[m]
    BY <1>13, <2>1, <1>t DEF DeleteDropsFolder, Existing, Folders
  <2> QED
    BY <2>1, <2>2, <2>3, FewerFolders
<1>14. CASE DeleteMarks
  <2>1. op.kind = "delete" /\ op'.kind = "none" /\ UNCHANGED <<faults, folder, home, at>>
    BY <1>14, <1>o DEF DeleteMarks, InDelete, Continue
  <2>2. ASSUME NEW p \in Photos, NEW n \in Existing, record[p] = [album |-> n, deleted |-> FALSE]
        PROVE  record'[p] = record[p]
    <3>1. CASE op.old \in Existing
      BY <3>1, <1>14 DEF DeleteMarks, Marked
    <3>2. CASE op.old \notin Existing
      <4>1. record[p].album # op.old
        BY <3>2, <2>2
      <4> QED
        BY <3>2, <4>1, <1>14 DEF DeleteMarks, Marked
    <3> QED
      BY <3>1, <3>2
  <2> QED
    BY <2>1, <2>2 DEF BinInv, Existing
<1>15. ASSUME NEW s \in Screens, OpenPage(s) PROVE BinInv'
  BY <1>15, SameBin DEF OpenPage, Continue, library
<1>16. ASSUME NEW posted \in SUBSET Names, SaveTicks(posted) PROVE BinInv'
  BY <1>16, SameBin DEF SaveTicks, Operate, library
<1>17. CASE UNCHANGED vars
  BY <1>17, SameBin DEF vars
<1> QED
  BY <1>2, <1>3, <1>4, <1>5, <1>6, <1>7, <1>8, <1>9, <1>10, <1>11, <1>12, <1>13, <1>14,
     <1>15, <1>16, <1>17 DEF Next

\* The name a live album has is the one NameOf chooses.
LEMMA NameOfIs ==
    ASSUME Typed, NEW n \in Existing
    PROVE  NameOf(folder[n]) = n
BY DEF NameOf, Typed, TypeOK

\* A removed photo goes back to the album it came from, whatever it is called by now.
THEOREM BinKnowsTheAlbum == Spec => []BinRemembersHome
<1>1. Typed /\ BinInv => BinRemembersHome
  <2> SUFFICES ASSUME Typed, BinInv, op = NoOp, faults = 0, NEW p \in Photos, at[p] = Bin,
                      home[p] \in Live
               PROVE  record[p] = [album |-> NameOf(home[p]), deleted |-> FALSE]
    BY DEF BinRemembersHome
  <2>1. PICK n \in Existing : folder[n] = home[p]
    BY DEF Live
  <2>2. NameOf(home[p]) = n
    BY <2>1, NameOfIs
  <2> QED
    BY <2>1, <2>2 DEF BinInv, NoOp
<1> QED
  BY <1>1, InitTyped, NextTyped, InitRename, NextRename, InitBin, NextBin, PTL DEF Spec

---------------------------------------------------------------------------
\* Albums implements AlbumTicks.

\* The name by which the ticks know the album in folder n.
Called(n) == IF RenamedNow(folder[n]) THEN op.old ELSE n
Shown == [s \in Screens |-> Ticked(s)]

TickedByName ==
    \A s \in Screens : \A a :
        a \in Ticked(s) <=> \E n \in Existing : folder[n] = a /\ Called(n) \in ticks[s]

LEMMA TickedIs == Typed => TickedByName
BY NameOfIs DEF TickedByName, Ticked, Called, Live

LEMMA TickedIsNext == Typed' => TickedByName'
BY TickedIs, PTL

LEMMA ShownIs ==
    /\ Shown \in [Screens -> SUBSET Live]
    /\ \A s \in Screens : Shown[s] = Ticked(s)
BY DEF Shown, Ticked

\* Read as albums, two states show the same if every album is ticked under the name it has.
LEMMA ShownSame ==
    ASSUME Typed, Typed', Live' = Live,
           \A n \in Existing, m \in Existing', s \in Screens :
              folder[n] = folder'[m] => (Called(n) \in ticks[s] <=> Called(m)' \in ticks'[s])
    PROVE  Shown' = Shown
<1>1. ASSUME NEW s \in Screens PROVE Ticked(s)' = Ticked(s)
  <2>1. \A a : a \in Ticked(s) <=> \E n \in Existing : folder[n] = a /\ Called(n) \in ticks[s]
    BY TickedIs DEF TickedByName
  <2>2. \A a : a \in Ticked(s)' <=> \E n \in Existing' : folder'[n] = a /\ Called(n)' \in ticks'[s]
    BY TickedIsNext DEF TickedByName
  <2>3. \A n \in Existing : \E m \in Existing' : folder'[m] = folder[n]
    BY DEF Live
  <2>4. \A m \in Existing' : \E n \in Existing : folder'[m] = folder[n]
    BY DEF Live
  <2> QED
    BY <2>1, <2>2, <2>3, <2>4
<1> QED
  BY <1>1 DEF Shown

\* ... as they do when neither folders nor ticks change, outside a rename or within it.
LEMMA ShownSameFolders ==
    ASSUME Typed, Typed', UNCHANGED <<folder, ticks>>,
           \A a \in Live : RenamedNow(a)' <=> RenamedNow(a),
           op.kind = "rename" => op'.old = op.old
    PROVE  Shown' = Shown /\ Live' = Live
<1>1. Existing' = Existing /\ Live' = Live
  BY DEF Existing, Live
<1>2. \A n \in Existing : Called(n)' = Called(n)
  BY DEF Called, Live, RenamedNow
<1>3. \A m, n \in Existing : folder[n] = folder'[m] => m = n
  BY DEF Typed, TypeOK
<1> QED
  BY <1>1, <1>2, <1>3, ShownSame

LEMMA MakesAppears ==
    ASSUME Typed, Typed', NEW n \in Names \ Existing, Makes(n), op.kind # "rename",
           UNCHANGED <<op, ticks, faults>>
    PROVE  \E a \in Ids : Abstract!Appears(a)
<1> DEFINE a == folder'[n]
<1>1. /\ a \in Ids /\ a = made + 1 /\ made \in Nat /\ Existing' = Existing \union {n}
      /\ \A m \in Names : m # n => folder'[m] = folder[m]
  BY MakesTyped
<1>2. \A m \in Existing : folder[m] # a /\ m # n /\ m \in Names
  <2>1. \A m \in Names : folder[m] \in Nat /\ folder[m] <= made
    BY Numbers DEF Typed, TypeOK, NoAlbum
  <2> QED
    BY <1>1, <2>1 DEF Existing
<1>3. Live' = Live \union {a} /\ a \notin Live
  BY <1>1, <1>2 DEF Live
<1>4. \A m : Called(m) = m /\ Called(m)' = m
  BY DEF Called, RenamedNow
<1>5. ASSUME NEW s \in Screens PROVE Ticked(s)' \in {Ticked(s), Ticked(s) \union {a}}
  <2>1. \A b : b \in Ticked(s) <=> \E m \in Existing : folder[m] = b /\ m \in ticks[s]
    BY <1>4, TickedIs DEF TickedByName
  <2>2. \A b : b \in Ticked(s)' <=> \E m \in Existing' : folder'[m] = b /\ m \in ticks[s]
    BY <1>4, TickedIsNext DEF TickedByName
  <2>3. \A b : b # a => (b \in Ticked(s) <=> b \in Ticked(s)')
    BY <1>1, <1>2, <2>1, <2>2
  <2>4. a \notin Ticked(s)
    BY <1>3 DEF Ticked
  <2> QED
    BY <2>3, <2>4
<1>6. \A s \in Screens : Shown'[s] \in {Shown[s], Shown[s] \union {a}}
  BY <1>5 DEF Shown
<1>7. Shown' \in [Screens -> SUBSET (Live')]
  BY DEF Shown, Ticked
<1> HIDE DEF a
<1>8. Abstract!Appears(a)
  BY <1>1, <1>3, <1>6, <1>7 DEF Abstract!Appears, Abstract!Gains, Shown
<1> QED
  BY <1>1, <1>8

LEMMA DropDisappears ==
    ASSUME Typed, Typed', NEW n \in Existing, folder' = [folder EXCEPT ![n] = NoAlbum],
           op.kind # "rename", op'.kind # "rename", UNCHANGED <<ticks, faults>>
    PROVE  folder[n] \in Ids /\ Abstract!Disappears(folder[n])
<1>1. \A m1, m2 \in Existing : folder[m1] = folder[m2] => m1 = m2
  BY DEF Typed, TypeOK
<1>2. \A m \in Names : folder'[m] = IF m = n THEN NoAlbum ELSE folder[m]
  BY DropsTyped DEF Existing
<1>3. Existing' = Existing \ {n} /\ folder[n] \in Ids
  BY <1>2 DEF Existing, Typed, TypeOK
<1>4. Live' = Live \ {folder[n]} /\ folder[n] \in Live
  BY <1>1, <1>2, <1>3 DEF Live, Existing
<1>5. \A m : Called(m) = m /\ Called(m)' = m
  BY DEF Called, RenamedNow
<1>6. ASSUME NEW s \in Screens PROVE Ticked(s)' = Ticked(s) \ {folder[n]}
  <2>1. \A b : b \in Ticked(s) <=> \E m \in Existing : folder[m] = b /\ m \in ticks[s]
    BY <1>5, TickedIs DEF TickedByName
  <2>2. \A b : b \in Ticked(s)' <=> \E m \in Existing' : folder'[m] = b /\ m \in ticks[s]
    BY <1>5, TickedIsNext DEF TickedByName
  <2>3. \A m \in Existing' : m \in Existing /\ m # n /\ folder'[m] = folder[m]
    BY <1>2, <1>3 DEF Existing
  <2> QED
    BY <1>1, <1>3, <2>1, <2>2, <2>3
<1>7. Shown' = [s \in Screens |-> Shown[s] \ {folder[n]}]
  BY <1>6 DEF Shown
<1> QED
  BY <1>3, <1>4, <1>7 DEF Abstract!Disappears, Shown

\* The end of a rename whose album stays under the name it then has: the others are ticked
\* as before.
LEMMA RenameOver ==
    ASSUME Typed, Typed', RenameInv, op.kind = "rename", op'.kind # "rename",
           UNCHANGED folder,
           \A m \in Existing, s \in Screens : folder[m] # op.before.folder[op.old] =>
              (m \in ticks'[s] <=> m \in ticks[s])
    PROVE  /\ op.before.folder[op.old] \in Live /\ Live' = Live
           /\ \A s \in Screens : \A b :
                b # op.before.folder[op.old] => (b \in Ticked(s) <=> b \in Ticked(s)')
           /\ \A s \in Screens, n \in Existing : folder[n] = op.before.folder[op.old] =>
                /\ folder[n] \in Ticked(s) <=> op.old \in ticks[s]
                /\ folder[n] \in Ticked(s)' <=> n \in ticks'[s]
<1> DEFINE a == op.before.folder[op.old]
<1>1. op \in RenameOps /\ a # NoAlbum
  BY OpShapes DEF Typed, RenameInv
<1>2. a \in Live
  <2>1. op.before.folder \in Folders /\ op.old \in Names /\ op.new \in Names
    BY <1>1 DEF RenameOps
  <2>2. \E n \in Names : folder[n] = a
    BY <2>1 DEF RenameInv, Folders
  <2> QED
    BY <1>1, <2>2 DEF Live, Existing
<1>3. Existing' = Existing /\ Live' = Live
  BY DEF Existing, Live
<1>4. \A n \in Existing : /\ Called(n) = IF folder[n] = a THEN op.old ELSE n
                          /\ Called(n)' = n
  BY DEF Called, RenamedNow
<1>5. \A m, n \in Existing : folder[m] = folder[n] => m = n
  BY DEF Typed, TypeOK
<1>6. \A s \in Screens : \A b : b \in Ticked(s) <=> \E n \in Existing : folder[n] = b /\ Called(n) \in ticks[s]
  BY TickedIs DEF TickedByName
<1>7. \A s \in Screens : \A b : b \in Ticked(s)' <=> \E n \in Existing : folder[n] = b /\ n \in ticks'[s]
  <2>1. \A s \in Screens : \A b :
          b \in Ticked(s)' <=> \E n \in Existing' : folder'[n] = b /\ Called(n)' \in ticks'[s]
    BY TickedIsNext DEF TickedByName
  <2> QED
    BY <2>1, <1>3, <1>4
<1> HIDE DEF a
<1>8. \A s \in Screens : \A b : b # a => (b \in Ticked(s) <=> b \in Ticked(s)')
  BY <1>4, <1>6, <1>7 DEF a
<1>9. \A s \in Screens, n \in Existing : folder[n] = a =>
        /\ folder[n] \in Ticked(s) <=> op.old \in ticks[s]
        /\ folder[n] \in Ticked(s)' <=> n \in ticks'[s]
  BY <1>4, <1>5, <1>6, <1>7
<1> QED
  BY <1>2, <1>3, <1>8, <1>9 DEF a

\* ... when it was cut short, one album may be ticked otherwise: a Fault.
LEMMA RenameCutShort ==
    ASSUME Typed, Typed', RenameInv, op.kind = "rename", op'.kind # "rename",
           UNCHANGED <<folder, ticks>>, faults' = faults + 1
    PROVE  Abstract!Fault
<1> DEFINE a == op.before.folder[op.old]
<1>1. /\ a \in Live /\ Live' = Live
      /\ \A s \in Screens : \A b : b # a => (b \in Ticked(s) <=> b \in Ticked(s)')
  BY RenameOver
<1>2. Shown' \in [Screens -> SUBSET (Live')]
  BY DEF Shown, Ticked
<1>3. \A s \in Screens : Shown'[s] \ {a} = Shown[s] \ {a}
  BY <1>1 DEF Shown
<1> QED
  BY <1>1, <1>2, <1>3 DEF Abstract!Fault, Shown

\* ... and when it is written, it may gain the ticks its new name had.
LEMMA RenameWritten ==
    ASSUME Typed, Typed', RenameInv, RenameWrites
    PROVE  \E a \in Ids : Abstract!TakesTickedName(a)
<1> DEFINE a == op.before.folder[op.old]
<1>1. /\ op \in RenameOps /\ op.kind = "rename" /\ op.step = "write" /\ op'.kind # "rename"
      /\ UNCHANGED <<folder, faults>> /\ ticks' = NewTicks
  BY OpShapes DEF Typed, RenameWrites, InRename, NoOp, library, Continue
<1>2. /\ op.before.folder \in Folders /\ op.old \in Names /\ op.new \in Names
      /\ op.old # op.new /\ a # NoAlbum
  BY <1>1 DEF RenameOps, RenameInv
<1>3. folder[op.new] = a /\ folder[op.old] = NoAlbum /\ op.new \in Existing /\ op.old \notin Existing
  BY <1>1, <1>2 DEF RenameInv, Folders, Existing
<1>4. \A s \in Screens : ticks'[s] = Swapped(ticks[s], op.old, op.new)
  BY <1>1 DEF NewTicks
<1>5. \A s \in Screens : \A m : m \notin {op.old, op.new} => (m \in ticks'[s] <=> m \in ticks[s])
  BY <1>4 DEF Swapped
<1>6. \A s \in Screens : op.old \in ticks[s] => op.new \in ticks'[s]
  BY <1>4 DEF Swapped
<1>7. \A m \in Existing, s \in Screens : folder[m] # a => (m \in ticks'[s] <=> m \in ticks[s])
  BY <1>3, <1>5
<1>8. /\ a \in Live /\ Live' = Live
      /\ \A s \in Screens : \A b : b # a => (b \in Ticked(s) <=> b \in Ticked(s)')
      /\ \A s \in Screens : /\ a \in Ticked(s) <=> op.old \in ticks[s]
                            /\ a \in Ticked(s)' <=> op.new \in ticks'[s]
  BY <1>1, <1>3, <1>7, RenameOver
<1>9. a \in Ids
  BY <1>8 DEF Live, Existing, Typed, TypeOK
<1> HIDE DEF a
<1>10. \A s \in Screens : Ticked(s)' \in {Ticked(s), Ticked(s) \union {a}}
  <2> SUFFICES ASSUME NEW s \in Screens PROVE Ticked(s)' \in {Ticked(s), Ticked(s) \union {a}}
    OBVIOUS
  <2>1. a \in Ticked(s) => a \in Ticked(s)'
    BY <1>6, <1>8
  <2> QED
    BY <1>8, <2>1
<1>11. Shown' \in [Screens -> SUBSET (Live')]
  BY DEF Shown, Ticked
<1>12. \A s \in Screens : Shown'[s] \in {Shown[s], Shown[s] \union {a}}
  BY <1>10 DEF Shown
<1> QED
  BY <1>1, <1>8, <1>9, <1>11, <1>12 DEF Abstract!TakesTickedName, Abstract!Gains, Shown

LEMMA SaveChooses ==
    ASSUME Typed, Typed', NEW posted \in SUBSET Names, SaveTicks(posted)
    PROVE  \E s \in Screens : Abstract!Chooses(s)
<1>1. page \in Pages /\ page.screen \in Screens
  BY DEF SaveTicks, Typed, Pages
<1>2. ticks' = [ticks EXCEPT ![page.screen] = {Followed(n) : n \in posted}]
      /\ UNCHANGED <<folder, op, faults>> /\ op = NoOp
  BY DEF SaveTicks, Operate, library
<1>3. \A s \in Screens : s # page.screen => ticks'[s] = ticks[s]
  BY <1>2 DEF Typed, TypeOK
<1>4. Existing' = Existing /\ Live' = Live
  BY <1>2 DEF Existing, Live
<1>5. \A s \in Screens : s # page.screen => Ticked(s)' = Ticked(s)
  BY <1>2, <1>3, <1>4 DEF Ticked, RenamedNow, NameOf
<1>6. Ticked(page.screen)' \in SUBSET Live
  BY <1>4 DEF Ticked
<1>7. Shown' = [Shown EXCEPT ![page.screen] = Ticked(page.screen)']
  BY <1>1, <1>2, <1>5 DEF Shown, SaveTicks
<1> QED
  BY <1>1, <1>2, <1>4, <1>6, <1>7 DEF Abstract!Chooses, Shown

LEMMA NextImplements ==
    Typed /\ Typed' /\ RenameInv /\ RenameInv' /\ [Next]_vars =>
        Abstract!Next \/ UNCHANGED <<Live, Shown, faults>>
<1> SUFFICES ASSUME Typed, Typed', RenameInv, RenameInv', [Next]_vars
             PROVE  Abstract!Next \/ UNCHANGED <<Live, Shown, faults>>
  OBVIOUS
<1>o. /\ op \in {NoOp} \union RenameOps \union DeleteOps
      /\ op.kind = "rename" => op \in RenameOps
      /\ op.kind = "delete" => op \in DeleteOps
      /\ op = NoOp => op.kind # "rename"
      /\ NoOp.kind # "rename"
  BY OpShapes DEF Typed, NoOp
<1>n. \A e \in Ids : /\ Abstract!Appears(e) => Abstract!Next
                     /\ Abstract!Disappears(e) => Abstract!Next
                     /\ Abstract!TakesTickedName(e) => Abstract!Next
  BY DEF Abstract!Next
<1>f. Abstract!Fault => Abstract!Next
  BY DEF Abstract!Next
\* Steps outside a rename that change neither folders nor ticks.
<1>q. ASSUME UNCHANGED <<folder, ticks, faults>>, op.kind # "rename", op'.kind # "rename"
      PROVE  UNCHANGED <<Live, Shown, faults>>
  BY <1>q, ShownSameFolders DEF RenamedNow
\* Steps within a rename that change neither folders nor ticks.
<1>r. ASSUME UNCHANGED <<folder, ticks>>, op' \in RenameOps, op.kind = "rename",
             op'.old = op.old, op'.before = op.before
      PROVE  UNCHANGED <<Live, Shown>>
  <2>1. op'.kind = "rename"
    BY <1>r DEF RenameOps
  <2> QED
    BY <1>r, <2>1, ShownSameFolders DEF RenamedNow
<1>1. ASSUME NEW n \in Names, CreateAlbum(n) PROVE Abstract!Next
  BY <1>1, <1>o, <1>n, MakesAppears DEF CreateAlbum, Operate
<1>2. ASSUME NEW n \in Names, RemovePhotos(n) \/ DeleteRemoves(n) \/ HandNote(n)
      PROVE  UNCHANGED <<Live, Shown, faults>>
  BY <1>2, <1>o, <1>q DEF RemovePhotos, DeleteRemoves, HandNote, Operate, Continue
<1>3. ASSUME NEW n \in Names, HandDelete(n) PROVE Abstract!Next
  BY <1>3, <1>o, <1>n, DropDisappears DEF HandDelete, Operate
<1>4. ASSUME NEW p \in Photos, RestoreRemoved(p)
      PROVE  Abstract!Next \/ UNCHANGED <<Live, Shown, faults>>
  <2> DEFINE n == record[p].album
  <2>1. n \in Names
    BY <1>4 DEF RestoreRemoved, Typed, TypeOK, Records
  <2>2. UNCHANGED <<op, ticks, faults>> /\ op = NoOp
    BY <1>4 DEF RestoreRemoved, Operate
  <2>3. CASE n \in Existing
    BY <1>4, <1>o, <1>q, <2>2, <2>3 DEF RestoreRemoved
  <2>4. CASE n \notin Existing
    <3>1. Makes(n)
      BY <1>4, <2>4 DEF RestoreRemoved
    <3> HIDE DEF n
    <3> QED
      BY <1>o, <1>n, <2>1, <2>2, <2>4, <3>1, MakesAppears
  <2> QED
    BY <2>3, <2>4
<1>5. ASSUME NEW p \in Photos, Purge(p) PROVE UNCHANGED <<Live, Shown, faults>>
  <2>1. UNCHANGED <<folder, ticks, faults, op>>
    BY <1>5 DEF Purge, Continue
  <2> QED
    BY <2>1, <1>o, <1>q, <1>r
<1>6. ASSUME NEW old \in Names, NEW new \in Names, RenameMoves(old, new)
      PROVE  UNCHANGED <<Live, Shown, faults>>
  <2>1. MovesFolder(old, new) /\ old # new /\ new \notin Existing /\ old \in Existing /\ op = NoOp
        /\ UNCHANGED <<ticks, faults>>
    BY <1>6 DEF RenameMoves, Operate
  <2>2. folder' = [n \in Names |-> IF n = new THEN folder[old]
                                   ELSE IF n = old THEN NoAlbum ELSE folder[n]]
        /\ Live' = Live
    BY <2>1, MovesTyped DEF Existing
  <2>3. op'.kind = "rename" /\ op'.old = old /\ op'.before.folder = folder
    BY <1>6 DEF RenameMoves
  <2>4. \A n \in Existing : Called(n) = n
    BY <2>1, <1>o DEF Called, RenamedNow
  <2>5. \A m \in Existing' : Called(m)' = IF folder'[m] = folder[old] THEN old ELSE m
    BY <2>3 DEF Called, RenamedNow
  <2>6. \A m, n \in Existing : folder[m] = folder[n] => m = n
    BY DEF Typed, TypeOK
  <2>7. \A n \in Existing, m \in Existing' : folder[n] = folder'[m] => Called(n) = Called(m)'
    BY <2>1, <2>2, <2>4, <2>5, <2>6 DEF Existing
  <2> QED
    BY <2>1, <2>2, <2>7, ShownSame
<1>7. CASE RenameTags
  <2>1. op.kind = "rename" /\ op \in RenameOps /\ UNCHANGED <<folder, ticks, faults>>
    BY <1>7, <1>o DEF RenameTags, InRename, Continue
  <2>2. op'.kind = "rename" /\ op'.old = op.old /\ op'.before = op.before
    BY <1>7, <2>1 DEF RenameTags, RenameOps
  <2>3. op' \in RenameOps
    BY <2>2, OpShapes DEF Typed, NoOp, DeleteOps
  <2> QED
    BY <2>1, <2>2, <2>3, <1>r
<1>8. CASE RenameWrites
  BY <1>8, <1>n, RenameWritten
<1>9. CASE RenameWriteFails
  <2>1. op.kind = "rename" /\ op \in RenameOps /\ UNCHANGED <<folder, ticks>> /\ faults' = faults + 1
    BY <1>9, <1>o DEF RenameWriteFails, InRename, Fails, library
  <2>2. op' \in RenameOps /\ op'.old = op.old /\ op'.before = op.before
    BY <1>9, <2>1 DEF RenameWriteFails, RenameOps
  <2>3. UNCHANGED <<Live, Shown>>
    BY <2>1, <2>2, <1>r
  <2> QED
    BY <2>1, <2>3, <1>f DEF Abstract!Fault, Shown
<1>10. CASE UndoMoves
  <2>1. op.kind = "rename" /\ op \in RenameOps /\ op.step = "undo" /\ UNCHANGED <<ticks, faults>>
        /\ op.old \notin Existing /\ MovesFolder(op.new, op.old)
    BY <1>10, <1>o DEF UndoMoves, InRename, Continue
  <2>2. op'.kind = "rename" /\ op'.old = op.old /\ op'.before = op.before
    BY <1>10, <2>1 DEF UndoMoves, RenameOps
  <2>3. op.old \in Names /\ op.new \in Names /\ op.old # op.new
    BY <2>1 DEF RenameOps, RenameInv
  <2>4. folder' = [n \in Names |-> IF n = op.old THEN folder[op.new]
                                   ELSE IF n = op.new THEN NoAlbum ELSE folder[n]]
        /\ Live' = Live
    BY <2>1, <2>3, MovesTyped
  <2>5. folder[op.new] = op.before.folder[op.old]
    BY <2>1, <2>3 DEF RenameInv, RenameOps, Folders
  <2>6. /\ \A n \in Existing : Called(n) = IF folder[n] = folder[op.new] THEN op.old ELSE n
        /\ \A m \in Existing' : Called(m)' = IF folder'[m] = folder[op.new] THEN op.old ELSE m
    BY <2>1, <2>2, <2>5 DEF Called, RenamedNow
  <2>7. \A m, n \in Existing : folder[m] = folder[n] => m = n
    BY DEF Typed, TypeOK
  <2>8. \A n \in Existing, m \in Existing' : folder[n] = folder'[m] => Called(n) = Called(m)'
    BY <2>3, <2>4, <2>6, <2>7 DEF Existing
  <2> QED
    BY <2>1, <2>4, <2>8, ShownSame
<1>11. CASE UndoTags
  <2>1. op.kind = "rename" /\ op \in RenameOps /\ op.step = "untag"
        /\ UNCHANGED <<folder, ticks, faults>> /\ (UNCHANGED op \/ op' = NoOp)
    BY <1>11, <1>o DEF UndoTags, InRename, Continue
  <2>2. CASE UNCHANGED op
    BY <2>1, <2>2, <1>r
  <2>3. CASE op' = NoOp
    <3> DEFINE a == op.before.folder[op.old]
    <3>1. op'.kind # "rename"
      BY <2>3, <1>o
    <3>2. folder[op.old] = a /\ op.old \in Existing
      BY <2>1 DEF RenameInv, Existing, RenameOps
    <3>3. \A s \in Screens : (a \in Ticked(s) <=> op.old \in ticks[s])
                             /\ (a \in Ticked(s)' <=> op.old \in ticks[s])
      BY <2>1, <3>1, <3>2, RenameOver
    <3>4. /\ Live' = Live
          /\ \A s \in Screens : \A b : b # a => (b \in Ticked(s) <=> b \in Ticked(s)')
      BY <2>1, <3>1, RenameOver
    <3> HIDE DEF a
    <3>5. \A s \in Screens : Ticked(s)' = Ticked(s)
      BY <3>3, <3>4
    <3> QED
      BY <2>1, <3>4, <3>5 DEF Shown
  <2> QED
    BY <2>1, <2>2, <2>3
<1>12. CASE UndoFails \/ Restart
  <2>1. UNCHANGED <<folder, ticks>> /\ faults' = faults + 1 /\ op'.kind # "rename"
    BY <1>12, <1>o DEF UndoFails, Restart, Fails, library
  <2>2. CASE op.kind = "rename"
    BY <2>1, <2>2, <1>f, RenameCutShort
  <2>3. CASE op.kind # "rename"
    <3>1. UNCHANGED <<Live, Shown>>
      BY <2>1, <2>3, ShownSameFolders DEF RenamedNow
    <3> QED
      BY <2>1, <3>1, <1>f DEF Abstract!Fault, Shown
  <2> QED
    BY <2>2, <2>3
<1>13. CASE DeleteDropsFolder
  <2>1. op.kind # "rename" /\ op \in DeleteOps /\ UNCHANGED <<ticks, faults>>
    BY <1>13, <1>o DEF DeleteDropsFolder, InDelete, Continue
  <2>2. op'.kind # "rename" /\ op.old \in Names
    BY <1>13, <2>1 DEF DeleteDropsFolder, DeleteOps
  <2>3. CASE UNCHANGED folder
    BY <2>1, <2>2, <2>3, <1>q
  <2>4. CASE folder' # folder
    <3>1. folder' = [folder EXCEPT ![op.old] = NoAlbum]
      BY <1>13, <2>4 DEF DeleteDropsFolder
    <3>2. op.old \in Existing
      BY <2>2, <2>4, <3>1 DEF Existing, Typed, TypeOK
    <3> QED
      BY <2>1, <2>2, <3>1, <3>2, <1>n, DropDisappears
  <2> QED
    BY <2>3, <2>4
<1>14. CASE DeleteMarks
  BY <1>14, <1>o, <1>q DEF DeleteMarks, InDelete, Continue
<1>15. ASSUME NEW s \in Screens, OpenPage(s) PROVE UNCHANGED <<Live, Shown, faults>>
  BY <1>15, <1>o, <1>q DEF OpenPage, Continue, library
<1>16. ASSUME NEW posted \in SUBSET Names, SaveTicks(posted) PROVE Abstract!Next
  BY <1>16, SaveChooses DEF Abstract!Next
<1>17. CASE UNCHANGED vars
  <2>1. UNCHANGED <<folder, ticks, faults, op>>
    BY <1>17 DEF vars
  <2> QED
    BY <2>1, <1>o, <1>q, <1>r
<1> QED
  BY <1>1, <1>2, <1>3, <1>4, <1>5, <1>6, <1>7, <1>8, <1>9, <1>10, <1>11, <1>12, <1>13, <1>14,
     <1>15, <1>16, <1>17 DEF Next

LEMMA InitImplements == Init => Abstract!Init
<1> SUFFICES ASSUME Init PROVE Abstract!Init
  OBVIOUS
<1>1. Live \in SUBSET Ids
  BY InitTyped DEF Typed, TypeOK, Live, Existing
<1> QED
  BY <1>1, ShownIs DEF Init, Abstract!Init, Shown

\* Read as albums, the ticks follow AlbumTicks: a rename is no step at all, and only a fault
\* or a name that was ticked before its album came changes a tick unasked.
THEOREM AlbumsImplementTicks == Spec => TicksMeanAlbums
<1>1. Typed /\ Typed' /\ RenameInv /\ RenameInv' /\ [Next]_vars => [Abstract!Next]_(Abstract!vars)
  BY NextImplements DEF Abstract!vars, Shown
<1> QED
  BY <1>1, InitTyped, NextTyped, InitRename, NextRename, InitImplements, PTL
     DEF Spec, TicksMeanAlbums, Abstract!Spec

---------------------------------------------------------------------------
\* A Save follows the renames since its page was opened.

\* Where names and the albums that have had them are said to agree.
BearInv ==
    /\ \A n \in Existing : folder[n] \in bearers[n]
    /\ \A n \in Names : \A a \in bearers[n] : a <= made
    /\ page # NoPage => \A n \in Names : page.saw[n] # NoAlbum => page.saw[n] \in bearers[n]
    /\ \A n \in Names : renamed[n] # NoName => bearers[n] \intersect bearers[renamed[n]] # {}
    /\ op.kind = "rename" => op.before.folder[op.old] \in bearers[op.old] \intersect bearers[op.new]

LEMMA InitBear == Init => BearInv
<1> SUFFICES ASSUME Init PROVE BearInv
  OBVIOUS
<1>1. \A n \in Names : folder[n] = (IF n = FIRST THEN 1 ELSE NoAlbum)
                       /\ bearers[n] = (IF n = FIRST THEN {1} ELSE {})
  BY DEF Init
<1> QED
  BY <1>1 DEF Init, BearInv, Existing, NoOp

\* Steps that give no album a name.
LEMMA SameBearers ==
    ASSUME Typed, BearInv, UNCHANGED <<bearers, made>>,
           \A n \in Existing' : folder'[n] \in bearers[n],
           page' = page \/ PageStales \/ page'.saw = folder,
           renamed' = renamed \/ \A n \in Names : renamed'[n] = NoName,
           op'.kind = "rename" => op.kind = "rename" /\ op'.old = op.old /\ op'.new = op.new
                                  /\ op'.before = op.before
    PROVE  BearInv'
<1>1. page \in {NoPage} \union Pages
  BY DEF Typed
<1>2. page' # NoPage => \A n \in Names : page'.saw[n] # NoAlbum => page'.saw[n] \in bearers[n]
  <2>1. CASE page' = page \/ PageStales
    BY <1>1, <2>1 DEF PageStales, BearInv, Pages
  <2>2. CASE page'.saw = folder
    BY <2>2 DEF BearInv, Existing
  <2> QED
    BY <2>1, <2>2
<1> QED
  BY <1>2 DEF BearInv

LEMMA MakesBear ==
    ASSUME Typed, BearInv, NEW n \in Names \ Existing, Makes(n), op.kind # "rename",
           UNCHANGED <<op, page, renamed>>
    PROVE  BearInv'
<1>1. /\ folder'[n] = made + 1 /\ made' = made + 1 /\ made \in Nat /\ Existing' = Existing \union {n}
      /\ \A m \in Names : m # n => folder'[m] = folder[m]
  BY MakesTyped
<1>2. \A m \in Names : bearers'[m] = IF m = n THEN bearers[m] \union {made + 1} ELSE bearers[m]
  BY DEF Makes, Typed
<1>3. \A m \in Names : \A a \in bearers[m] : a \in Nat /\ a <= made /\ a <= made + 1
  BY <1>1, Numbers DEF BearInv, Typed
<1>4. \A m \in Names : \A a \in bearers'[m] : a <= made'
  <2>1. made + 1 <= made + 1
    BY <1>1
  <2>2. \A m \in Names : \A a \in bearers'[m] : a \in bearers[m] \/ a = made + 1
    BY <1>2
  <2>3. made' = made + 1
    BY <1>1
  <2> QED
    BY <1>3, <2>1, <2>2, <2>3
<1>5. \A m \in Existing' : folder'[m] \in bearers'[m]
  BY <1>1, <1>2 DEF BearInv, Existing
<1>6. \A m \in Names : renamed[m] \in Names \union {NoName} /\ bearers[m] \subseteq bearers'[m]
  BY <1>2 DEF Typed, TypeOK
<1> QED
  BY <1>4, <1>5, <1>6 DEF BearInv

LEMMA NextBear == Typed /\ Typed' /\ RenameInv /\ BearInv /\ [Next]_vars => BearInv'
<1> SUFFICES ASSUME Typed, Typed', RenameInv, BearInv, [Next]_vars PROVE BearInv'
  OBVIOUS
<1>o. /\ op \in {NoOp} \union RenameOps \union DeleteOps
      /\ op.kind = "rename" => op \in RenameOps
      /\ op.kind = "delete" => op \in DeleteOps
      /\ op = NoOp => op.kind # "rename"
      /\ NoOp.kind # "rename"
  BY OpShapes DEF Typed, NoOp
<1>b. \A n \in Existing : folder[n] \in bearers[n]
  BY DEF BearInv
<1>e. UNCHANGED folder => \A n \in Existing' : folder'[n] \in bearers[n]
  BY <1>b DEF Existing
<1>1. ASSUME NEW n \in Names, CreateAlbum(n) PROVE BearInv'
  BY <1>1, <1>o, MakesBear DEF CreateAlbum, Operate
<1>2. ASSUME NEW n \in Names, RemovePhotos(n) \/ DeleteRemoves(n) \/ HandNote(n) PROVE BearInv'
  <2>1. UNCHANGED <<folder, bearers, made, page, renamed>> /\ op'.kind # "rename"
    BY <1>2, <1>o DEF RemovePhotos, DeleteRemoves, HandNote, Operate
  <2> QED
    BY <2>1, <1>e, SameBearers
<1>3. ASSUME NEW n \in Names, HandDelete(n) PROVE BearInv'
  <2>1. UNCHANGED <<bearers, made, page, renamed>> /\ op'.kind # "rename"
        /\ folder' = [folder EXCEPT ![n] = NoAlbum]
    BY <1>3, <1>o DEF HandDelete, Operate
  <2>2. \A m \in Existing' : m \in Existing /\ folder'[m] = folder[m]
    BY <2>1, DropsTyped DEF Existing
  <2> QED
    BY <2>1, <2>2, <1>b, SameBearers
<1>4. ASSUME NEW p \in Photos, RestoreRemoved(p) PROVE BearInv'
  <2> DEFINE n == record[p].album
  <2>1. n \in Names
    BY <1>4 DEF RestoreRemoved, Typed, TypeOK, Records
  <2>2. UNCHANGED <<op, page, renamed>> /\ op = NoOp
    BY <1>4 DEF RestoreRemoved, Operate
  <2>3. CASE n \in Existing
    <3>1. UNCHANGED <<folder, bearers, made>>
      BY <1>4, <2>3 DEF RestoreRemoved
    <3> QED
      BY <1>e, <1>o, <2>2, <3>1, SameBearers
  <2>4. CASE n \notin Existing
    <3>1. Makes(n)
      BY <1>4, <2>4 DEF RestoreRemoved
    <3> HIDE DEF n
    <3> QED
      BY <1>o, <2>1, <2>2, <2>4, <3>1, MakesBear
  <2> QED
    BY <2>3, <2>4
<1>5. ASSUME NEW p \in Photos, Purge(p) PROVE BearInv'
  <2>1. UNCHANGED <<folder, bearers, made, page, renamed, op>>
    BY <1>5 DEF Purge
  <2> QED
    BY <2>1, <1>e, SameBearers
<1>6. ASSUME NEW old \in Names, NEW new \in Names, RenameMoves(old, new) PROVE BearInv'
  <2>1. MovesFolder(old, new) /\ old # new /\ new \notin Existing /\ old \in Existing
        /\ UNCHANGED <<made, page, renamed>>
        /\ bearers' = [bearers EXCEPT ![new] = @ \union {folder[old]}]
    BY <1>6 DEF RenameMoves, Existing
  <2>2. folder' = [n \in Names |-> IF n = new THEN folder[old]
                                   ELSE IF n = old THEN NoAlbum ELSE folder[n]]
    BY <2>1, MovesTyped DEF Existing
  <2>3. op'.old = old /\ op'.new = new /\ op'.before.folder = folder
    BY <1>6 DEF RenameMoves
  <2>4. \A n \in Names : bearers'[n] = IF n = new THEN bearers[n] \union {folder[old]} ELSE bearers[n]
    BY <2>1 DEF Typed
  <2>5. folder[old] \in bearers[old] /\ folder[old] <= made
    BY <2>1 DEF BearInv, Existing
  <2>6. \A n \in Existing' : folder'[n] \in bearers'[n]
    BY <2>2, <2>4, <1>b DEF Existing
  <2>7. \A n \in Names : renamed[n] \in Names \union {NoName} /\ bearers[n] \subseteq bearers'[n]
    BY <2>4 DEF Typed, TypeOK
  <2>8. op'.before.folder[op'.old] \in bearers'[op'.old] \intersect bearers'[op'.new]
    BY <2>1, <2>3, <2>4, <2>5
  <2> QED
    BY <2>1, <2>4, <2>5, <2>6, <2>7, <2>8 DEF BearInv
<1>7. CASE RenameTags
  <2>1. op.kind = "rename" /\ op \in RenameOps /\ UNCHANGED <<folder, bearers, made, page, renamed>>
    BY <1>7, <1>o DEF RenameTags, InRename
  <2>2. op'.old = op.old /\ op'.new = op.new /\ op'.before = op.before
    BY <1>7, <2>1 DEF RenameTags, RenameOps
  <2> QED
    BY <2>1, <2>2, <1>e, SameBearers
<1>8. CASE RenameWrites
  <2>1. op.kind = "rename" /\ op \in RenameOps /\ op'.kind # "rename"
        /\ UNCHANGED <<folder, bearers, made, page>>
        /\ renamed' = [renamed EXCEPT ![op.old] = op.new]
    BY <1>8, <1>o DEF RenameWrites, InRename, library
  <2>2. \A n \in Names : renamed'[n] = IF n = op.old THEN op.new ELSE renamed[n]
    BY <2>1 DEF Typed, TypeOK
  <2> QED
    BY <2>1, <2>2, <1>e DEF BearInv
<1>9. CASE RenameWriteFails
  <2>1. op.kind = "rename" /\ op \in RenameOps /\ UNCHANGED <<folder, bearers, made, page, renamed>>
    BY <1>9, <1>o DEF RenameWriteFails, InRename, library
  <2>2. op'.old = op.old /\ op'.new = op.new /\ op'.before = op.before
    BY <1>9, <2>1 DEF RenameWriteFails, RenameOps
  <2> QED
    BY <2>1, <2>2, <1>e, SameBearers
<1>10. CASE UndoMoves
  <2>1. op.kind = "rename" /\ op \in RenameOps /\ UNCHANGED <<bearers, made, page, renamed>>
        /\ op.step = "undo" /\ op.old \notin Existing /\ MovesFolder(op.new, op.old)
    BY <1>10, <1>o DEF UndoMoves, InRename
  <2>2. op'.old = op.old /\ op'.new = op.new /\ op'.before = op.before
    BY <1>10, <2>1 DEF UndoMoves, RenameOps
  <2>3. op.old \in Names /\ op.new \in Names /\ op.old # op.new
    BY <2>1 DEF RenameOps, RenameInv
  <2>4. folder' = [n \in Names |-> IF n = op.old THEN folder[op.new]
                                   ELSE IF n = op.new THEN NoAlbum ELSE folder[n]]
    BY <2>1, <2>3, MovesTyped
  <2>5. folder[op.new] = op.before.folder[op.old]
    BY <2>1, <2>3 DEF RenameInv, RenameOps, Folders
  <2>6. folder[op.new] \in bearers[op.old]
    BY <2>1, <2>5 DEF BearInv
  <2>7. \A n \in Existing' : folder'[n] \in bearers[n]
    BY <2>4, <2>6, <1>b DEF Existing
  <2> QED
    BY <2>1, <2>2, <2>7, SameBearers
<1>11. CASE UndoTags
  <2>1. UNCHANGED <<folder, bearers, made, page, renamed>> /\ (UNCHANGED op \/ op'.kind # "rename")
    BY <1>11, <1>o DEF UndoTags
  <2> QED
    BY <2>1, <1>e, SameBearers
<1>12. CASE UndoFails \/ Restart
  <2>1. UNCHANGED <<folder, bearers, made>> /\ op'.kind # "rename" /\ PageStales
        /\ (renamed' = renamed \/ \A n \in Names : renamed'[n] = NoName)
    BY <1>12, <1>o DEF UndoFails, Restart, library
  <2> QED
    BY <2>1, <1>e, SameBearers
<1>13. CASE DeleteDropsFolder
  <2>1. op.kind = "delete" /\ op \in DeleteOps /\ UNCHANGED <<bearers, made, page, renamed>>
    BY <1>13, <1>o DEF DeleteDropsFolder, InDelete
  <2>2. op'.kind # "rename" /\ op.old \in Names
    BY <1>13, <2>1 DEF DeleteDropsFolder, DeleteOps
  <2>3. folder' = folder \/ folder' = [folder EXCEPT ![op.old] = NoAlbum]
    BY <1>13 DEF DeleteDropsFolder
  <2>4. \A m \in Existing' : folder'[m] \in bearers[m]
    <3>1. CASE folder' = [folder EXCEPT ![op.old] = NoAlbum]
      BY <3>1, <2>2, <1>b, DropsTyped DEF Existing
    <3> QED
      BY <3>1, <2>3, <1>e
  <2> QED
    BY <2>1, <2>2, <2>4, SameBearers
<1>14. CASE DeleteMarks
  <2>1. UNCHANGED <<folder, bearers, made, page, renamed>> /\ op'.kind # "rename"
    BY <1>14, <1>o DEF DeleteMarks
  <2> QED
    BY <2>1, <1>e, SameBearers
<1>15. ASSUME NEW s \in Screens, OpenPage(s) PROVE BearInv'
  <2>1. UNCHANGED <<folder, bearers, made, renamed, op>> /\ page'.saw = folder
    BY <1>15 DEF OpenPage, library
  <2> QED
    BY <2>1, <1>e, SameBearers
<1>16. ASSUME NEW posted \in SUBSET Names, SaveTicks(posted) PROVE BearInv'
  <2>1. UNCHANGED <<folder, bearers, made, renamed, op, page>>
    BY <1>16 DEF SaveTicks, library
  <2> QED
    BY <2>1, <1>e, SameBearers
<1>17. CASE UNCHANGED vars
  <2>1. UNCHANGED <<folder, bearers, made, renamed, op, page>>
    BY <1>17 DEF vars
  <2> QED
    BY <2>1, <1>e, SameBearers
<1> QED
  BY <1>1, <1>2, <1>3, <1>4, <1>5, <1>6, <1>7, <1>8, <1>9, <1>10, <1>11, <1>12, <1>13, <1>14,
     <1>15, <1>16, <1>17 DEF Next

\* Every name has meant one album.
Unambiguous == \A n \in Names : \A a, b \in bearers[n] : a = b

\* The names that are folders; a rename on its way counts as not begun.
Named == IF op.kind = "rename" THEN {n \in Names : op.before.folder[n] # NoAlbum} ELSE Existing

\* A rank for names: from a name of positive rank the renames lead to a folder, over names of
\* ever lower rank, and all names the page saw of albums that are still there have one.
Trail(rank) ==
    /\ \A n \in Names : page.saw[n] \in Live => rank[n] > 0
    /\ \A x \in Names : rank[x] > 0 =>
         /\ bearers[x] \intersect Live # {}
         /\ x \in Named \/ (renamed[x] \in Names /\ rank[renamed[x]] > 0 /\ rank[renamed[x]] < rank[x])

TrailInv ==
    Unambiguous /\ page # NoPage /\ ~page.stale => \E rank \in [Names -> Nat] : Trail(rank)

LEMMA InitTrail == Init => TrailInv
BY DEF Init, TrailInv

\* Steps that leave the renames and the page as they are, and drop no folder.
LEMMA SameTrail ==
    ASSUME Typed, Typed', BearInv, TrailInv, UNCHANGED renamed, page' = page \/ PageStales,
           \A n \in Names : bearers[n] \subseteq bearers'[n],
           Live \subseteq Live', \A a \in Live' \ Live : a > made,
           Named \subseteq Named'
    PROVE  TrailInv'
<1> SUFFICES ASSUME Unambiguous', (page # NoPage)', (~page.stale)'
             PROVE  \E rank \in [Names -> Nat] : Trail(rank)'
  BY DEF TrailInv
<1>1. page' = page
  BY DEF PageStales, Typed, Pages
<1>2. Unambiguous
  BY DEF Unambiguous
<1>3. PICK rank \in [Names -> Nat] : Trail(rank)
  BY <1>1, <1>2 DEF TrailInv
<1>4. \A n \in Names : page.saw[n] \in Live' => page.saw[n] \in Live
  <2> SUFFICES ASSUME NEW n \in Names, page.saw[n] \in Live', page.saw[n] > made PROVE FALSE
    OBVIOUS
  <2>1. page.saw[n] \in Ids
    BY DEF Live, Existing, Typed, TypeOK
  <2>2. page.saw[n] \in bearers[n]
    BY <1>1, <2>1, Numbers DEF BearInv
  <2>3. page.saw[n] <= made /\ made \in Nat /\ page.saw[n] \in Nat
    BY <2>1, <2>2, Numbers DEF BearInv, Typed, TypeOK
  <2> QED
    BY <2>3
<1>5. Trail(rank)'
  BY <1>1, <1>3, <1>4 DEF Trail
<1> QED
  BY <1>5

\* A folder is dropped: the names of its album lose their rank.
LEMMA DropTrail ==
    ASSUME Typed, BearInv, TrailInv, NEW n \in Existing, folder' = [folder EXCEPT ![n] = NoAlbum],
           op.kind # "rename", op'.kind # "rename", UNCHANGED <<renamed, page, bearers>>
    PROVE  TrailInv'
<1> SUFFICES ASSUME Unambiguous, page # NoPage, ~page.stale
             PROVE  \E rank \in [Names -> Nat] : Trail(rank)'
  BY DEF TrailInv, Unambiguous
<1> DEFINE a == folder[n]
<1>1. \A m \in Names : folder'[m] = IF m = n THEN NoAlbum ELSE folder[m]
  BY DropsTyped DEF Existing
<1>2. Existing' = Existing \ {n} /\ Named = Existing /\ Named' = Existing' /\ a \in bearers[n]
  BY <1>1 DEF Existing, Named, BearInv
<1>3. Live' = Live \ {a} /\ NoAlbum \notin Live
  <2>1. \A m1, m2 \in Existing : folder[m1] = folder[m2] => m1 = m2
    BY DEF Typed, TypeOK
  <2> QED
    BY <1>1, <1>2, <2>1 DEF Live, Existing
<1>4. PICK rank \in [Names -> Nat] : Trail(rank)
  BY DEF TrailInv
<1> DEFINE less == [x \in Names |-> IF a \in bearers[x] THEN 0 ELSE rank[x]]
<1>5. less \in [Names -> Nat]
  OBVIOUS
<1>6. ASSUME NEW m \in Names, page.saw[m] \in Live' PROVE less[m] > 0
  <2>1. page.saw[m] \in Live /\ page.saw[m] # a /\ page.saw[m] \in bearers[m]
    BY <1>3, <1>6 DEF BearInv
  <2>2. a \notin bearers[m]
    BY <2>1 DEF Unambiguous
  <2> QED
    BY <1>4, <2>1, <2>2 DEF Trail
<1>7. ASSUME NEW x \in Names, less[x] > 0
      PROVE  /\ bearers[x] \intersect Live' # {}
             /\ x \in Named' \/ (renamed[x] \in Names /\ less[renamed[x]] > 0 /\ less[renamed[x]] < less[x])
  <2>1. a \notin bearers[x] /\ rank[x] > 0 /\ less[x] = rank[x]
    BY <1>7
  <2>2. bearers[x] \intersect Live' # {}
    BY <1>3, <1>4, <2>1 DEF Trail
  <2>3. CASE x \in Named
    BY <1>2, <2>1, <2>2, <2>3
  <2>4. CASE x \notin Named
    <3>1. renamed[x] \in Names /\ rank[renamed[x]] > 0 /\ rank[renamed[x]] < rank[x]
      BY <1>4, <2>1, <2>4 DEF Trail
    <3>2. bearers[x] \intersect bearers[renamed[x]] # {}
      BY <3>1, AlbumsAssumption DEF BearInv
    <3>3. a \notin bearers[renamed[x]]
      BY <2>1, <3>1, <3>2 DEF Unambiguous
    <3>4. less[renamed[x]] = rank[renamed[x]]
      BY <3>1, <3>3
    <3> QED
      BY <2>1, <2>2, <3>1, <3>4
  <2> QED
    BY <2>3, <2>4
<1> HIDE DEF less
<1>8. PICK rest \in [Names -> Nat] : rest = less
  BY <1>5
<1>9. Trail(rest)'
  BY <1>6, <1>7, <1>8 DEF Trail
<1> QED
  BY <1>9

\* A rename is written: the new name comes first, what led to the old one now leads to it.
LEMMA WriteTrail ==
    ASSUME Typed, RenameInv, BearInv, TrailInv, RenameWrites
    PROVE  TrailInv'
<1>1. /\ op \in RenameOps /\ op.kind = "rename" /\ op.step = "write" /\ op'.kind # "rename"
      /\ UNCHANGED <<folder, bearers, page>> /\ renamed' = [renamed EXCEPT ![op.old] = op.new]
  BY OpShapes DEF Typed, RenameWrites, InRename, NoOp, library
<1>2. /\ op.old \in Names /\ op.new \in Names /\ op.old # op.new /\ op.before.folder \in Folders
      /\ op.before.folder[op.old] # NoAlbum /\ op.before.folder[op.new] = NoAlbum
      /\ folder = [op.before.folder EXCEPT ![op.old] = NoAlbum, ![op.new] = op.before.folder[op.old]]
  BY <1>1 DEF RenameOps, RenameInv
<1>3. \A m \in Names : folder[m] = IF m = op.new THEN op.before.folder[op.old]
                                   ELSE IF m = op.old THEN NoAlbum ELSE op.before.folder[m]
  BY <1>2 DEF Folders
<1> DEFINE old == op.old
           new == op.new
<1>4. /\ Named' = Existing /\ Live' = Live /\ new \in Existing
      /\ \A m \in Named : m # old => m \in Existing
  BY <1>1, <1>2, <1>3 DEF Named, Existing, Live
<1>5. \A m \in Names : renamed'[m] = IF m = old THEN new ELSE renamed[m]
  BY <1>1 DEF Typed, TypeOK
<1> SUFFICES ASSUME Unambiguous, page # NoPage, ~page.stale
             PROVE  \E rank \in [Names -> Nat] : Trail(rank)'
  BY <1>1 DEF TrailInv, Unambiguous
<1>6. PICK rank \in [Names -> Nat] : Trail(rank)
  BY DEF TrailInv
<1> DEFINE longer == [x \in Names |-> IF x = new THEN 1 ELSE IF rank[x] > 0 THEN rank[x] + 1 ELSE 0]
<1>7. longer \in [Names -> Nat]
  OBVIOUS
<1>8. ASSUME NEW m \in Names, page.saw[m] \in Live PROVE longer[m] > 0
  BY <1>6, <1>8 DEF Trail
<1>9. ASSUME NEW x \in Names, longer[x] > 0
      PROVE  /\ bearers[x] \intersect Live # {}
             /\ x \in Existing \/ (renamed'[x] \in Names /\ longer[renamed'[x]] > 0 /\ longer[renamed'[x]] < longer[x])
  <2>1. CASE x = new
    BY <1>4, <2>1 DEF BearInv, Live
  <2>2. CASE x # new
    <3>1. rank[x] > 0 /\ longer[x] = rank[x] + 1 /\ bearers[x] \intersect Live # {}
      BY <1>6, <1>9, <2>2 DEF Trail
    <3>2. CASE x = old
      <4>1. renamed'[x] = new /\ longer[new] = 1
        BY <1>2, <1>5, <3>2
      <4> QED
        BY <1>2, <3>1, <4>1
    <3>3. CASE x # old /\ x \notin Named
      <4>1. renamed'[x] = renamed[x] /\ renamed[x] \in Names
            /\ rank[renamed[x]] > 0 /\ rank[renamed[x]] < rank[x]
        BY <1>5, <1>6, <3>1, <3>3 DEF Trail
      <4>2. longer[renamed[x]] \in {1, rank[renamed[x]] + 1}
        BY <4>1
      <4> QED
        BY <3>1, <4>1, <4>2
    <3> QED
      BY <1>4, <3>1, <3>2, <3>3
  <2> QED
    BY <2>1, <2>2
<1> HIDE DEF longer
<1>10. PICK led \in [Names -> Nat] : led = longer
  BY <1>7
<1>11. Trail(led)'
  BY <1>1, <1>4, <1>8, <1>9, <1>10 DEF Trail
<1> QED
  BY <1>11

LEMMA MakesTrail ==
    ASSUME Typed, Typed', BearInv, TrailInv, NEW n \in Names \ Existing, Makes(n), op.kind # "rename",
           UNCHANGED <<op, page, renamed>>
    PROVE  TrailInv'
<1>1. /\ folder'[n] = made + 1 /\ made \in Nat /\ Existing' = Existing \union {n}
      /\ \A m \in Names : m # n => folder'[m] = folder[m]
  BY MakesTyped
<1>2. Named = Existing /\ Named' = Existing'
  BY DEF Named
<1>3. Live' = Live \union {made + 1}
  BY <1>1 DEF Live, Existing
<1>4. \A m \in Names : bearers[m] \subseteq bearers'[m]
  BY DEF Makes, Typed
<1>5. made + 1 > made
  BY <1>1
<1>6. \A a \in Live' \ Live : a > made
  BY <1>3, <1>5
<1> QED
  BY <1>1, <1>2, <1>3, <1>4, <1>6, SameTrail

LEMMA NextTrail ==
    Typed /\ Typed' /\ RenameInv /\ BearInv /\ TrailInv /\ [Next]_vars => TrailInv'
<1> SUFFICES ASSUME Typed, Typed', RenameInv, BearInv, TrailInv, [Next]_vars PROVE TrailInv'
  OBVIOUS
<1>o. /\ op \in {NoOp} \union RenameOps \union DeleteOps
      /\ op.kind = "rename" => op \in RenameOps
      /\ op.kind = "delete" => op \in DeleteOps
      /\ op = NoOp => op.kind # "rename"
      /\ NoOp.kind # "rename"
  BY OpShapes DEF Typed, NoOp
<1>s. ASSUME UNCHANGED <<bearers, renamed>>, page' = page \/ PageStales, Live' = Live, Named' = Named
      PROVE  TrailInv'
  BY <1>s, SameTrail
<1>f. ASSUME UNCHANGED <<folder, bearers, renamed, page>>, op.kind # "rename", op'.kind # "rename"
      PROVE  TrailInv'
  <2>1. Live' = Live /\ Named' = Named
    BY <1>f DEF Live, Named, Existing
  <2> QED
    BY <2>1, <1>f, <1>s
<1>1. ASSUME NEW n \in Names, CreateAlbum(n) PROVE TrailInv'
  BY <1>1, <1>o, MakesTrail DEF CreateAlbum, Operate
<1>2. ASSUME NEW n \in Names, RemovePhotos(n) \/ DeleteRemoves(n) \/ HandNote(n) PROVE TrailInv'
  <2>1. UNCHANGED <<folder, bearers, page, renamed>> /\ op.kind # "rename" /\ op'.kind # "rename"
    BY <1>2, <1>o DEF RemovePhotos, DeleteRemoves, HandNote, Operate
  <2> QED
    BY <2>1, <1>f
<1>3. ASSUME NEW n \in Names, HandDelete(n) PROVE TrailInv'
  <2>1. UNCHANGED <<bearers, page, renamed>> /\ op.kind # "rename" /\ op'.kind # "rename"
        /\ n \in Existing /\ folder' = [folder EXCEPT ![n] = NoAlbum]
    BY <1>3, <1>o DEF HandDelete, Operate
  <2> QED
    BY <2>1, DropTrail
<1>4. ASSUME NEW p \in Photos, RestoreRemoved(p) PROVE TrailInv'
  <2> DEFINE n == record[p].album
  <2>1. n \in Names
    BY <1>4 DEF RestoreRemoved, Typed, TypeOK, Records
  <2>2. UNCHANGED <<op, page, renamed>> /\ op = NoOp
    BY <1>4 DEF RestoreRemoved, Operate
  <2>3. CASE n \in Existing
    <3>1. UNCHANGED <<folder, bearers>>
      BY <1>4, <2>3 DEF RestoreRemoved
    <3> QED
      BY <1>f, <1>o, <2>2, <3>1
  <2>4. CASE n \notin Existing
    <3>1. Makes(n)
      BY <1>4, <2>4 DEF RestoreRemoved
    <3> HIDE DEF n
    <3> QED
      BY <1>o, <2>1, <2>2, <2>4, <3>1, MakesTrail
  <2> QED
    BY <2>3, <2>4
<1>5. ASSUME NEW p \in Photos, Purge(p) PROVE TrailInv'
  <2>1. UNCHANGED <<folder, bearers, page, renamed, op>>
    BY <1>5 DEF Purge
  <2>2. Live' = Live /\ Named' = Named
    BY <2>1 DEF Live, Named, Existing
  <2> QED
    BY <2>1, <2>2, <1>s
<1>6. ASSUME NEW old \in Names, NEW new \in Names, RenameMoves(old, new) PROVE TrailInv'
  <2>1. MovesFolder(old, new) /\ old # new /\ new \notin Existing /\ old \in Existing
        /\ UNCHANGED <<page, renamed>> /\ op.kind # "rename"
        /\ bearers' = [bearers EXCEPT ![new] = @ \union {folder[old]}]
    BY <1>6, <1>o DEF RenameMoves, Existing, Operate
  <2>2. Live' = Live
    BY <2>1, MovesTyped DEF Existing
  <2>3. op'.kind = "rename" /\ op'.before.folder = folder
    BY <1>6 DEF RenameMoves
  <2>4. Named = Existing /\ Named' = Existing
    BY <2>1, <2>3 DEF Named, Existing
  <2>5. \A n \in Names : bearers[n] \subseteq bearers'[n]
    BY <2>1 DEF Typed
  <2> QED
    BY <2>1, <2>2, <2>4, <2>5, SameTrail
<1>7. CASE RenameTags \/ RenameWriteFails
  <2>1. op.kind = "rename" /\ op \in RenameOps /\ UNCHANGED <<folder, bearers, page, renamed>>
    BY <1>7, <1>o DEF RenameTags, RenameWriteFails, InRename, library
  <2>2. op'.kind = op.kind /\ op'.before = op.before
    BY <1>7, <2>1 DEF RenameTags, RenameWriteFails, RenameOps
  <2>3. Live' = Live /\ Named' = Named
    BY <2>1, <2>2 DEF Live, Named, Existing
  <2> QED
    BY <2>1, <2>3, <1>s
<1>8. CASE RenameWrites
  BY <1>8, WriteTrail
<1>9. CASE UndoMoves
  <2>1. op.kind = "rename" /\ op \in RenameOps /\ UNCHANGED <<bearers, page, renamed>>
        /\ op.old \notin Existing /\ MovesFolder(op.new, op.old)
    BY <1>9, <1>o DEF UndoMoves, InRename
  <2>2. op'.kind = op.kind /\ op'.before = op.before
    BY <1>9, <2>1 DEF UndoMoves, RenameOps
  <2>3. op.old \in Names /\ op.new \in Names /\ op.old # op.new
    BY <2>1 DEF RenameOps, RenameInv
  <2>4. Live' = Live
    BY <2>1, <2>3, MovesTyped
  <2>5. Named' = Named
    BY <2>1, <2>2 DEF Named
  <2> QED
    BY <2>1, <2>4, <2>5, <1>s
<1>10. CASE UndoTags
  <2>1. op.kind = "rename" /\ op.step = "untag" /\ UNCHANGED <<folder, bearers, page, renamed>>
        /\ (UNCHANGED op \/ op'.kind # "rename")
    BY <1>10, <1>o DEF UndoTags, InRename
  <2>2. Live' = Live /\ Named' = Named
    BY <2>1 DEF Live, Named, Existing, RenameInv
  <2> QED
    BY <2>1, <2>2, <1>s
<1>11. CASE UndoFails \/ Restart
  <2>1. page' = NoPage \/ page'.stale
    BY <1>11 DEF UndoFails, Restart, PageStales, Typed, Pages
  <2> QED
    BY <2>1 DEF TrailInv
<1>12. CASE DeleteDropsFolder
  <2>1. op.kind = "delete" /\ op \in DeleteOps /\ UNCHANGED <<bearers, page, renamed>>
    BY <1>12, <1>o DEF DeleteDropsFolder, InDelete
  <2>2. op'.kind # "rename" /\ op.old \in Names
    BY <1>12, <2>1 DEF DeleteDropsFolder, DeleteOps
  <2>3. folder' = folder \/ folder' = [folder EXCEPT ![op.old] = NoAlbum]
    BY <1>12 DEF DeleteDropsFolder
  <2>4. CASE folder' = folder
    BY <2>1, <2>2, <2>4, <1>f
  <2>5. CASE folder' = [folder EXCEPT ![op.old] = NoAlbum] /\ op.old \in Existing
    BY <2>1, <2>2, <2>5, DropTrail
  <2>6. CASE folder' = [folder EXCEPT ![op.old] = NoAlbum] /\ op.old \notin Existing
    <3>1. folder' = folder
      BY <2>2, <2>6 DEF Existing, Typed, TypeOK
    <3> QED
      BY <3>1, <2>4
  <2> QED
    BY <2>3, <2>4, <2>5, <2>6
<1>13. CASE DeleteMarks
  <2>1. UNCHANGED <<folder, bearers, page, renamed>> /\ op.kind # "rename" /\ op'.kind # "rename"
    BY <1>13, <1>o DEF DeleteMarks, InDelete
  <2> QED
    BY <2>1, <1>f
<1>14. ASSUME NEW s \in Screens, OpenPage(s) PROVE TrailInv'
  <2>1. UNCHANGED <<folder, bearers, renamed>> /\ page'.saw = folder /\ op.kind # "rename" /\ op' = op
    BY <1>14, <1>o DEF OpenPage, library
  <2>2. Named' = Existing /\ Live' = Live /\ NoAlbum \notin Live
    BY <2>1 DEF Named, Existing, Live
  <2>3. PICK rank \in [Names -> Nat] : rank = [x \in Names |-> IF x \in Existing THEN 1 ELSE 0]
    OBVIOUS
  <2>4. \A x \in Existing : bearers[x] \intersect Live # {}
    BY DEF BearInv, Live
  <2>5. Trail(rank)'
    BY <2>1, <2>2, <2>3, <2>4 DEF Trail, Existing, Live
  <2> QED
    BY <2>5 DEF TrailInv
<1>15. ASSUME NEW posted \in SUBSET Names, SaveTicks(posted) PROVE TrailInv'
  <2>1. UNCHANGED <<folder, bearers, renamed, op, page>> /\ op.kind # "rename"
    BY <1>15, <1>o DEF SaveTicks, library, Operate
  <2> QED
    BY <2>1, <1>f
<1>16. CASE UNCHANGED vars
  <2>1. UNCHANGED <<folder, bearers, page, renamed, op>>
    BY <1>16 DEF vars
  <2>2. Live' = Live /\ Named' = Named
    BY <2>1 DEF Live, Named, Existing
  <2> QED
    BY <2>1, <2>2, <1>s
<1> QED
  BY <1>1, <1>2, <1>3, <1>4, <1>5, <1>6, <1>7, <1>8, <1>9, <1>10, <1>11, <1>12, <1>13, <1>14,
     <1>15, <1>16 DEF Next

\* Downhill, the walk ends at a folder, whatever names of no lower rank it has seen.
LEMMA FollowArrives ==
    ASSUME Typed, op = NoOp, NEW rank \in [Names -> Nat], Trail(rank),
           NEW n \in Names, rank[n] > 0
    PROVE  Followed(n) \in Existing
<1> DEFINE Behind(seen, k) == \A y \in seen : rank[y] = 0 \/ rank[y] >= k
           Wrong == {k \in Nat : \E m \in Names, seen \in SUBSET Names :
                        rank[m] = k /\ k > 0 /\ Behind(seen, k) /\ FollowFn[seen][m] \notin Existing}
<1>1. \A m \in Names, seen \in SUBSET Names : FollowFn[seen][m] = FollowStep(FollowFn, m, seen)
  BY FollowFnExists DEF FollowAll, Typed, TypeOK
<1>2. Wrong = {}
  <2> SUFFICES ASSUME Wrong # {} PROVE FALSE
    OBVIOUS
  <2>1. PICK k \in Wrong : \A j \in Wrong : k <= j
    BY Least
  <2>2. PICK m \in Names, seen \in SUBSET Names :
          rank[m] = k /\ k > 0 /\ Behind(seen, k) /\ FollowFn[seen][m] \notin Existing
    BY <2>1
  <2>3. FollowStep(FollowFn, m, seen) \notin Existing /\ m \notin Existing
    <3>1. FollowStep(FollowFn, m, seen) \notin Existing
      BY <1>1, <2>2
    <3> QED
      BY <3>1 DEF FollowStep
  <2>4. m \notin Named
    BY <2>3 DEF Named, NoOp
  <2> DEFINE y == renamed[m]
  <2>5. y \in Names /\ rank[y] > 0 /\ rank[y] < k
    BY <2>2, <2>4 DEF Trail
  <2>6. y \notin seen
    BY <2>2, <2>5
  <2>7. FollowFn[seen \union {y}][y] \notin Existing
    BY <2>3, <2>5, <2>6, AlbumsAssumption DEF FollowStep
  <2>8. Behind(seen \union {y}, rank[y])
    BY <2>2, <2>5
  <2>9. seen \union {y} \in SUBSET Names /\ rank[y] \in Nat
    BY <2>5
  <2> HIDE DEF Behind, y
  <2>10. rank[y] \in Wrong
    BY <2>5, <2>7, <2>8, <2>9
  <2>11. k <= rank[y] /\ k \in Nat
    BY <2>1, <2>10
  <2> HIDE DEF Wrong
  <2> QED
    BY <2>5, <2>9, <2>11
<1>3. {n} \in SUBSET Names /\ Behind({n}, rank[n])
  OBVIOUS
<1> QED
  BY <1>2, <1>3, FollowedIs

\* Where every name has meant one album, the walk stays with the album it began with.
LEMMA FollowKeepsAlbum ==
    ASSUME Typed, BearInv, Unambiguous, NEW n \in Names, NEW a \in bearers[n]
    PROVE  a \in bearers[Followed(n)]
<1> DEFINE Wrong == {k \in Nat : \E m \in Names, seen \in SUBSET Names :
                        Unseen(seen) = k /\ a \in bearers[m] /\ a \notin bearers[FollowFn[seen][m]]}
<1>1. \A m \in Names, seen \in SUBSET Names : FollowFn[seen][m] = FollowStep(FollowFn, m, seen)
  BY FollowFnExists DEF FollowAll, Typed, TypeOK
<1>2. Wrong = {}
  <2> SUFFICES ASSUME Wrong # {} PROVE FALSE
    OBVIOUS
  <2>1. PICK k \in Wrong : \A j \in Wrong : k <= j
    BY Least
  <2>2. PICK m \in Names, seen \in SUBSET Names :
          Unseen(seen) = k /\ a \in bearers[m] /\ a \notin bearers[FollowFn[seen][m]]
    BY <2>1
  <2>3. a \notin bearers[FollowStep(FollowFn, m, seen)]
    BY <1>1, <2>2
  <2> DEFINE y == renamed[m]
  <2>4. m \notin Existing /\ y # NoName /\ y \in Names
    BY <2>2, <2>3 DEF FollowStep, Typed, TypeOK
  <2>5. a \in bearers[y]
    BY <2>2, <2>4 DEF BearInv, Unambiguous
  <2>6. y \in Names \ seen /\ a \notin bearers[FollowFn[seen \union {y}][y]]
    BY <2>3, <2>4, <2>5 DEF FollowStep
  <2>7. seen \union {y} \in SUBSET Names /\ Unseen(seen \union {y}) \in Nat
        /\ Unseen(seen \union {y}) < k
    BY <2>2, <2>6, UnseenShrinks
  <2> HIDE DEF y
  <2>8. Unseen(seen \union {y}) \in Wrong
    BY <2>5, <2>6, <2>7
  <2>9. k <= Unseen(seen \union {y}) /\ k \in Nat
    BY <2>1, <2>8
  <2> HIDE DEF Wrong
  <2> QED
    BY <2>7, <2>9
<1>3. {n} \in SUBSET Names
  OBVIOUS
<1> QED
  BY <1>2, <1>3, FollowedIs, UnseenIsNat

LEMMA OneBearer == Typed /\ NamesUnambiguous => Unambiguous
<1> SUFFICES ASSUME Typed, NamesUnambiguous, NEW n \in Names, NEW a \in bearers[n], NEW b \in bearers[n],
                    a # b
             PROVE  FALSE
  BY DEF Unambiguous
<1>1. IsFiniteSet(Ids)
  BY FS_Interval, AlbumsAssumption DEF Ids
<1>2. IsFiniteSet(bearers[n]) /\ {a, b} \subseteq bearers[n]
  BY <1>1, FS_Subset DEF Typed
<1>3. Cardinality({a, b}) <= Cardinality(bearers[n]) /\ Cardinality(bearers[n]) \in Nat
  BY <1>2, FS_Subset, FS_CardinalityType
<1>4. Cardinality({a, b}) = 2
  <2>1. IsFiniteSet({a}) /\ Cardinality({a}) = 1
    BY FS_Singleton
  <2>2. b \notin {a} /\ {a} \union {b} = {a, b}
    OBVIOUS
  <2>3. Cardinality({a} \union {b}) = Cardinality({a}) + 1
    BY <2>1, <2>2, FS_AddElement
  <2> QED
    BY <2>1, <2>2, <2>3
<1> QED
  BY <1>3, <1>4 DEF NamesUnambiguous

\* What a Save says of albums.
LEMMA SaveFollows ==
    ASSUME Typed, Typed', BearInv, TrailInv, NEW posted \in SUBSET Names, SaveTicks(posted),
           NamesUnambiguous, ~page.stale, \A n \in posted : page.saw[n] # NoAlbum
    PROVE  Ticked(page.screen)' = {page.saw[n] : n \in posted} \intersect Live
<1>1. /\ op = NoOp /\ op' = NoOp /\ page # NoPage /\ UNCHANGED <<folder, page>>
      /\ ticks' = [ticks EXCEPT ![page.screen] = {Followed(n) : n \in posted}]
  BY DEF SaveTicks, Operate, library
<1>2. page.screen \in Screens
  BY <1>1 DEF Typed, Pages
<1>3. ticks'[page.screen] = {Followed(n) : n \in posted}
  BY <1>1, <1>2 DEF Typed, TypeOK
<1>4. Unambiguous
  BY OneBearer
<1>5. PICK rank \in [Names -> Nat] : Trail(rank)
  BY <1>1, <1>4 DEF TrailInv
<1>6. \A n \in posted : page.saw[n] \in Live => Followed(n) \in Existing
  BY <1>1, <1>5, FollowArrives DEF Trail
<1>7. \A n \in posted : Followed(n) \in Names /\ page.saw[n] \in bearers[Followed(n)]
  BY <1>1, <1>4, FollowedType, FollowKeepsAlbum DEF BearInv, Typed, TypeOK
<1>8. \A n \in posted : Followed(n) \in Existing => folder[Followed(n)] = page.saw[n]
  BY <1>4, <1>7 DEF BearInv, Unambiguous
<1>9. \A m : Called(m)' = m
  BY <1>1 DEF Called, RenamedNow, NoOp
<1>10. \A a : a \in Ticked(page.screen)' <=> \E m \in Existing : folder[m] = a /\ m \in ticks'[page.screen]
  <2>1. \A s \in Screens : \A a :
          a \in Ticked(s)' <=> \E m \in Existing' : folder'[m] = a /\ Called(m)' \in ticks'[s]
    BY TickedIsNext DEF TickedByName
  <2>2. \A a : a \in Ticked(page.screen)' <=>
                 \E m \in Existing' : folder'[m] = a /\ Called(m)' \in ticks'[page.screen]
    BY <1>1, <1>2, <2>1 DEF Ticked, Live, Existing, NameOf, RenamedNow
  <2> QED
    BY <1>1, <1>9, <2>2 DEF Existing
<1>11. \A a : (\E m \in Existing : folder[m] = a /\ m \in ticks'[page.screen])
              <=> \E n \in posted : Followed(n) \in Existing /\ page.saw[n] = a
  BY <1>3, <1>8
<1>12. \A n \in posted : Followed(n) \in Existing <=> page.saw[n] \in Live
  BY <1>6, <1>8 DEF Live
<1> QED
  BY <1>10, <1>11, <1>12

\* A Save of an open Settings page says of albums what the page said, whatever was renamed in
\* between, as long as no name has meant two albums.
THEOREM SaveSaysAlbums == Spec => SaveFollowsThePage
<1>1. Typed /\ Typed' /\ BearInv /\ TrailInv /\ [Next]_vars =>
        [\A posted \in SUBSET Names :
            /\ SaveTicks(posted) /\ NamesUnambiguous /\ ~page.stale
            /\ \A n \in posted : page.saw[n] # NoAlbum
            => Ticked(page.screen)' = {page.saw[n] : n \in posted} \intersect Live]_vars
  BY SaveFollows
<1> QED
  BY <1>1, InitTyped, NextTyped, InitRename, NextRename, InitBear, NextBear, InitTrail, NextTrail, PTL
     DEF Spec, SaveFollowsThePage
=============================================================================
