------------------------------- MODULE Albums -------------------------------
(***************************************************************************)
(* Photo albums and the ticks that show them: an album is a folder under   *)
(* photos/, a tick is its name in config.json, and a removed photo's       *)
(* record in the bin keeps the name it came from.  Three places hold a     *)
(* name, so creating, renaming and deleting albums have to keep them in    *)
(* step (admin_ops.py, photo_library.py), also for a Settings page that    *)
(* was opened before a rename, and when a write fails half way.            *)
(*                                                                         *)
(* Albums are numbered in the order they are made; the number is not in    *)
(* the code, it is what the names stand for.  Names that differ in case    *)
(* only, and Unsorted (which no operation here accepts), are left out.     *)
(* The routes' bodies run one at a time on the event loop; only the daily  *)
(* purge of the bin runs beside them.                                      *)
(***************************************************************************)
EXTENDS Naturals, FiniteSets

CONSTANTS Names, Photos, Screens,
          DEFAULT,                 \* the Default profile; the other Screens are named ones
          FIRST,                   \* the name of the album there is at the start
          MAX_ALBUMS, MAX_OPS, MAX_FAULTS,   \* bounds on the runs
          BY_HAND,                 \* whether people also change photos/ by hand
          NoName, NoPage, NoRecord

ASSUME AlbumsAssumption ==
    /\ MAX_ALBUMS \in Nat \ {0} /\ MAX_OPS \in Nat /\ MAX_FAULTS \in Nat /\ BY_HAND \in BOOLEAN
    /\ FIRST \in Names /\ DEFAULT \in Screens /\ NoName \notin Names
    /\ IsFiniteSet(Names) /\ NoRecord \notin [album : Names, deleted : BOOLEAN]

VARIABLES folder,   \* Names -> the album in that folder, or NoAlbum
          made,     \* albums made so far
          notes,    \* albums whose folder holds a file that is not a photo
          at,       \* Photos -> the album it is in, Bin, or Gone
          record,   \* Photos -> its record in the bin, or NoRecord
          home,     \* Photos -> the album it was removed from (not in the code)
          ticks,    \* Screens -> the names ticked, album_selection in config.json
          renamed,  \* _RENAMED_ALBUMS: Names -> the new name, or NoName
          page,     \* the open Settings page, or NoPage
          op,       \* the rename or deletion in progress, or NoOp
          bearers,  \* Names -> every album that has had the name (not in the code)
          ops, faults

library == <<folder, made, notes, at, record, home, bearers>>
vars == <<folder, made, notes, at, record, home, ticks, renamed, page, op, bearers, ops, faults>>

NoAlbum == 0
NoOp == [kind |-> "none", step |-> "none"]
Ids  == 1..MAX_ALBUMS
Bin  == MAX_ALBUMS + 1
Gone == MAX_ALBUMS + 2

\* Albums.list_albums: the names that are folders.
Existing == {n \in Names : folder[n] # NoAlbum}
Live == {folder[n] : n \in Existing}
NameOf(a) == CHOOSE n \in Existing : folder[n] = a

Records == [album : Names, deleted : BOOLEAN]

Init ==
    /\ folder = [n \in Names |-> IF n = FIRST THEN 1 ELSE NoAlbum]
    /\ made = 1 /\ notes = {}
    /\ at = [p \in Photos |-> 1]
    /\ record = [p \in Photos |-> NoRecord] /\ home = [p \in Photos |-> NoAlbum]
    /\ ticks \in [Screens -> SUBSET {FIRST}]
    /\ renamed = [n \in Names |-> NoName]
    /\ page = NoPage /\ op = NoOp
    /\ bearers = [n \in Names |-> IF n = FIRST THEN {1} ELSE {}]
    /\ ops = 0 /\ faults = 0

Operate == op = NoOp /\ ops < MAX_OPS /\ ops' = ops + 1 /\ UNCHANGED faults
Continue == UNCHANGED <<ops, faults>>
Fails == faults < MAX_FAULTS /\ faults' = faults + 1 /\ UNCHANGED ops

---------------------------------------------------------------------------
\* Creating an album, and the folder a restore makes again

Makes(n) ==
    /\ made < MAX_ALBUMS
    /\ made' = made + 1
    /\ folder' = [folder EXCEPT ![n] = made + 1]
    /\ bearers' = [bearers EXCEPT ![n] = @ \union {made + 1}]

\* create_album: 409 when there is one of the name.
CreateAlbum(n) ==
    /\ Operate /\ n \notin Existing /\ Makes(n)
    /\ UNCHANGED <<notes, at, record, home, ticks, renamed, page, op>>

\* restore_removed: back to the album the record names, its folder made again.
RestoreRemoved(p) ==
    /\ Operate /\ at[p] = Bin /\ record[p] # NoRecord
    /\ LET n == record[p].album IN
         /\ IF n \in Existing THEN UNCHANGED <<made, folder, bearers>> ELSE Makes(n)
         /\ at' = [at EXCEPT ![p] = folder'[n]]
    /\ record' = [record EXCEPT ![p] = NoRecord]
    /\ UNCHANGED <<notes, home, ticks, renamed, page, op>>

\* _remove_rels, for the photos `gone` of one album.
ToBin(gone, n) ==
    /\ at' = [p \in Photos |-> IF p \in gone THEN Bin ELSE at[p]]
    /\ record' = [p \in Photos |-> IF p \in gone THEN [album |-> n, deleted |-> FALSE]
                                                 ELSE record[p]]
    /\ home' = [p \in Photos |-> IF p \in gone THEN folder[n] ELSE home[p]]

RemovePhotos(n) ==
    /\ Operate /\ n \in Existing
    /\ \E gone \in SUBSET {p \in Photos : at[p] = folder[n]} : gone # {} /\ ToBin(gone, n)
    /\ UNCHANGED <<folder, made, notes, bearers, ticks, renamed, page, op>>

\* purge_removed (and Empty): _STORE_LOCK is free, whatever else is going on.
StoreLockFree == op.step \in {"none", "write", "undo"}
\* Mutant: the record outlives the photo.
PurgeLeavesRecord(p) ==
    /\ StoreLockFree /\ at[p] = Bin
    /\ at' = [at EXCEPT ![p] = Gone] /\ UNCHANGED record
    /\ Continue
    /\ UNCHANGED <<folder, made, notes, home, bearers, ticks, renamed, page, op>>
Purge(p) ==
    /\ StoreLockFree /\ at[p] = Bin
    /\ at' = [at EXCEPT ![p] = Gone] /\ record' = [record EXCEPT ![p] = NoRecord]
    /\ Continue
    /\ UNCHANGED <<folder, made, notes, home, bearers, ticks, renamed, page, op>>

---------------------------------------------------------------------------
\* admin_ops.rename_album

\* photo_library.rename_album moves the folder and rekeys the index.
MovesFolder(old, new) == folder' = [folder EXCEPT ![old] = NoAlbum, ![new] = folder[old]]

RenameMoves(old, new) ==
    /\ Operate /\ old \in Existing /\ new \notin Existing
    /\ MovesFolder(old, new)
    /\ bearers' = [bearers EXCEPT ![new] = @ \union {folder[old]}]
    /\ op' = [kind |-> "rename", step |-> "tag", old |-> old, new |-> new, tagged |-> {},
              before |-> [folder |-> folder, record |-> record, ticks |-> ticks]]
    /\ UNCHANGED <<made, notes, at, record, home, ticks, renamed, page>>

InRename(step) == op.kind = "rename" /\ op.step = step

\* The records it retags: those that name the old folder, but not a deleted namesake's.
ToTag == {p \in Photos : record[p] # NoRecord /\ record[p].album = op.old /\ ~record[p].deleted}

RenameTags ==
    /\ InRename("tag")
    /\ IF ToTag = {}
       THEN op' = [op EXCEPT !.step = "write"] /\ UNCHANGED record
       ELSE \E p \in ToTag :
              /\ record' = [record EXCEPT ![p].album = op.new]
              /\ op' = [op EXCEPT !.tagged = @ \union {p}]
    /\ Continue
    /\ UNCHANGED <<folder, made, notes, at, home, bearers, ticks, renamed, page>>

\* rename_album.swap, on the Default profile's selection and on every profile's.
Swapped(names, old, new) == {IF n = old THEN new ELSE n : n \in names}
\* Mutant: the profiles keep the old name.
NewTicksOfDefault == [ticks EXCEPT ![DEFAULT] = Swapped(@, op.old, op.new)]
NewTicks == [s \in Screens |-> Swapped(ticks[s], op.old, op.new)]

RenameWrites ==
    /\ InRename("write")
    /\ ticks' = NewTicks
    /\ renamed' = [renamed EXCEPT ![op.old] = op.new]
    /\ op' = NoOp
    /\ Continue
    /\ UNCHANGED <<library, page>>

RenameWriteFails ==
    /\ InRename("write") /\ Fails
    /\ op' = [op EXCEPT !.step = "undo"]
    /\ UNCHANGED <<library, ticks, renamed, page>>

\* The undo: the folder back, then exactly the records that were retagged.
UndoMoves ==
    /\ InRename("undo") /\ op.old \notin Existing
    /\ MovesFolder(op.new, op.old)
    /\ op' = [op EXCEPT !.step = "untag"]
    /\ Continue
    /\ UNCHANGED <<made, notes, at, record, home, bearers, ticks, renamed, page>>

\* Mutant: the undo goes by name, not by the records it retagged.
ToUntagByName == {p \in Photos : record[p] # NoRecord /\ record[p].album = op.new /\ ~record[p].deleted}
ToUntag == {p \in op.tagged : record[p] # NoRecord /\ record[p].album = op.new}
UndoTags ==
    /\ InRename("untag")
    /\ IF ToUntag = {}
       THEN op' = NoOp /\ UNCHANGED record
       ELSE \E p \in ToUntag : record' = [record EXCEPT ![p].album = op.old] /\ UNCHANGED op
    /\ Continue
    /\ UNCHANGED <<folder, made, notes, at, home, bearers, ticks, renamed, page>>

\* An open page knows names that _RENAMED_ALBUMS does not explain.
PageStales == page' = IF page = NoPage THEN NoPage ELSE [page EXCEPT !.stale = TRUE]

\* "could not be moved back": the operator is told to rename it again.  What made the
\* write fail may fail the move too, so this has no bound of its own.
UndoFails ==
    /\ InRename("undo")
    /\ faults' = faults + 1 /\ UNCHANGED ops
    /\ op' = NoOp /\ PageStales
    /\ UNCHANGED <<library, ticks, renamed>>

---------------------------------------------------------------------------
\* photo_library.delete_album

DeleteRemoves(n) ==
    /\ Operate /\ n \in Existing
    /\ ToBin({p \in Photos : at[p] = folder[n]}, n)
    /\ op' = [kind |-> "delete", step |-> "rmdir", old |-> n]
    /\ UNCHANGED <<folder, made, notes, bearers, ticks, renamed, page>>

InDelete(step) == op.kind = "delete" /\ op.step = step

\* os.rmdir succeeds only on an empty folder.
DeleteDropsFolder ==
    /\ InDelete("rmdir")
    /\ folder' = IF folder[op.old] \in notes THEN folder ELSE [folder EXCEPT ![op.old] = NoAlbum]
    /\ op' = [op EXCEPT !.step = "mark"]
    /\ Continue
    /\ UNCHANGED <<made, notes, at, record, home, bearers, ticks, renamed, page>>

\* Mutant: an album whose folder was kept counts as deleted.
MarkedAlways(n) ==
    [p \in Photos |-> IF record[p] # NoRecord /\ record[p].album = n
                      THEN [record[p] EXCEPT !.deleted = TRUE] ELSE record[p]]
Marked(n) ==
    IF n \in Existing THEN record
    ELSE [p \in Photos |-> IF record[p] # NoRecord /\ record[p].album = n
                           THEN [record[p] EXCEPT !.deleted = TRUE] ELSE record[p]]
DeleteMarks ==
    /\ InDelete("mark")
    /\ record' = Marked(op.old)
    /\ op' = NoOp
    /\ Continue
    /\ UNCHANGED <<folder, made, notes, at, home, bearers, ticks, renamed, page>>

---------------------------------------------------------------------------
\* The Settings page: opened at one moment, saved at a later one

\* It lists the folders, and the ticked names that are no folder now.
OpenPage(s) ==
    /\ op = NoOp
    /\ page' = [screen |-> s, saw |-> folder, listed |-> Existing \union ticks[s], stale |-> FALSE]
    /\ page' # page
    /\ Continue
    /\ UNCHANGED <<library, ticks, renamed, op>>

\* Mutant: one rename is followed, not a chain of them.
FollowedOnce(n) == IF n \in Existing \/ renamed[n] = NoName THEN n ELSE renamed[n]
\* _follow_renames, for one name.
Followed(n) ==
    LET F[seen \in SUBSET Names] == [m \in Names |->
          IF m \in Existing \/ renamed[m] = NoName THEN m
          ELSE IF renamed[m] \in seen THEN renamed[m]
          ELSE F[seen \union {renamed[m]}][renamed[m]]]
    IN F[{n}][n]

\* save_settings and save_profile, of the page as it was opened.
SaveTicks(posted) ==
    /\ page # NoPage /\ posted \subseteq page.listed /\ Operate
    /\ ticks' = [ticks EXCEPT ![page.screen] = {Followed(n) : n \in posted}]
    /\ UNCHANGED <<library, renamed, page, op>>

---------------------------------------------------------------------------
\* The environment

\* A person leaves a note in an album's folder.
HandNote(n) ==
    /\ BY_HAND /\ op = NoOp /\ n \in Existing /\ notes' = notes \union {folder[n]} /\ notes' # notes
    /\ Continue
    /\ UNCHANGED <<folder, made, at, record, home, bearers, ticks, renamed, page, op>>

\* A person deletes an album's folder with what is in it.
HandDelete(n) ==
    /\ BY_HAND /\ Operate /\ n \in Existing
    /\ folder' = [folder EXCEPT ![n] = NoAlbum]
    /\ at' = [p \in Photos |-> IF at[p] = folder[n] THEN Gone ELSE at[p]]
    /\ UNCHANGED <<made, notes, record, home, bearers, ticks, renamed, page, op>>

\* The process dies and starts again: only what is on disk, and the browser's page, is left.
Restart ==
    /\ Fails
    /\ op' = NoOp /\ renamed' = [n \in Names |-> NoName]
    /\ PageStales
    /\ UNCHANGED <<library, ticks>>

---------------------------------------------------------------------------

Next ==
    \/ \E n \in Names : CreateAlbum(n) \/ RemovePhotos(n) \/ DeleteRemoves(n) \/ HandNote(n) \/ HandDelete(n)
    \/ \E p \in Photos : RestoreRemoved(p) \/ Purge(p)
    \/ \E old, new \in Names : RenameMoves(old, new)
    \/ RenameTags \/ RenameWrites \/ RenameWriteFails
    \/ UndoMoves \/ UndoTags \/ UndoFails
    \/ DeleteDropsFolder \/ DeleteMarks
    \/ \E s \in Screens : OpenPage(s)
    \/ \E posted \in SUBSET Names : SaveTicks(posted)
    \/ Restart

Spec == Init /\ [][Next]_vars

---------------------------------------------------------------------------
\* Properties

\* A tick is a name on disk and an album to the operator.  While a rename is on its
\* way, the album it is moving still answers to its old name.
RenamedNow(a) == op.kind = "rename" /\ a = op.before.folder[op.old]
Ticked(s) == {a \in Live : (IF RenamedNow(a) THEN op.old ELSE NameOf(a)) \in ticks[s]}

\* Sets, functions and the bin stay within their types, two folders are never one album,
\* and a photo is in the bin exactly when it has a record there.
TypeOK ==
    /\ folder \in [Names -> Ids \union {NoAlbum}] /\ made \in Ids /\ notes \subseteq Ids
    /\ at \in [Photos -> Ids \union {Bin, Gone}]
    /\ record \in [Photos -> Records \union {NoRecord}]
    /\ ticks \in [Screens -> SUBSET Names] /\ renamed \in [Names -> Names \union {NoName}]
    /\ \A m, n \in Existing : folder[m] = folder[n] => m = n
    /\ \A p \in Photos : at[p] = Bin <=> record[p] # NoRecord

\* A removed photo goes back to the album it came from, whatever that album is called by
\* now: while the album's folder exists and no operation is half done, the record names
\* that folder and is not marked as a deleted album's (photo_library.py:1328-1334, 1399-1404).
\* A crash or a failed undo may break it, nothing else.
BinRemembersHome ==
    op = NoOp /\ faults = 0 =>
        \A p \in Photos : at[p] = Bin /\ home[p] \in Live =>
            record[p] = [album |-> NameOf(home[p]), deleted |-> FALSE]

\* A rename ends in one of two ways.  Either it is done, and no record of a photo whose album
\* was deleted was touched, whatever that album was called; or its config write failed, and
\* it leaves folders, ticks and every record still in the bin as they were
\* (admin_ops.py:394-401, photo_library.py:1330-1336, 1399-1404).
RenameAllOrNothing ==
    [][op' = NoOp /\ op.kind = "rename" /\ faults' = faults =>
          /\ \A p \in Photos :
                \/ record'[p] \in {op.before.record[p], NoRecord}
                \/ op.step = "write" /\ ~op.before.record[p].deleted
          /\ op.step = "untag" => folder' = op.before.folder /\ ticks' = op.before.ticks]_vars

\* A Save says of albums what its page said, also when albums were renamed after the page
\* was opened, as long as every name has meant one album only, the names it posts were
\* folders when it was opened, the app kept running and every failed rename was undone
\* (admin_ops.py:189-208, 241-251).
NamesUnambiguous == \A n \in Names : Cardinality(bearers[n]) <= 1
SaveFollowsThePage ==
    [][\A posted \in SUBSET Names :
          /\ SaveTicks(posted) /\ NamesUnambiguous /\ ~page.stale
          /\ \A n \in posted : page.saw[n] # NoAlbum
          =>
              Ticked(page.screen)' = {page.saw[n] : n \in posted} \intersect Live]_vars

\* Read as albums, the ticks follow AlbumTicks: a rename is no step at all, and only a
\* crash or a rename that could not be undone takes a tick away from an album unasked.
Abstract == INSTANCE AlbumTicks WITH
    Albums <- Ids, live <- Live, shown <- [s \in Screens |-> Ticked(s)], faults <- faults
TicksMeanAlbums == Abstract!Spec

=============================================================================
