# tv-taplist: verification project

TLA+ models of tv-taplist's own logic, the TLC runs that check them on small
instances, and the theorems TLAPS proves about them for every value of the
constants. Everything here is translated from the code in `src/app` and
`src/static/js`; line references are to those trees. `PROJECT.json` maps every definition to its lines.

## 1. The system

tv-taplist shows what is on tap on a TV. It is one Python process: a FastAPI
app whose handlers run on one event loop, a background scheduler with a few
jobs, and plain files under `data/`. There is no database; files are the state.

| Component | State | Operations | Interacts through |
|---|---|---|---|
| Brewfather sync (`brewfather.py`) | none of its own | `run_sync` | the Brewfather API, `data/taps`, `data/upcoming`, `status.json`, `JOB_LOCK` |
| Mapping (`mapping.py`) | none | `slot_claim`, `desired_map`, `resolve_occupancy`, `upcoming_beers`, `is_current` | called by the sync |
| Tap store (`tap_store.py`, `atomic.py`) | `data/taps`: an md and a photo per Slot and Source | `write`, `save_image`, `delete_image`, `resolve` | sync, Admin, board |
| Archive (`archive.py`) | `data/old_beers` | `archive_tap` | sync, Admin, cleanup |
| Admin operations (`admin_ops.py`) | the renames of this process | overrides, profiles, album renames and deletions | Tap store, Settings, photos |
| Settings (`config_store.py`) | `config.json` | `load_config`, `update_config`, `apply_settings` | everybody |
| Upcoming store (`upcoming_store.py`) | `data/upcoming` | `write`, `rebuild`, `clear` | sync, `apply_settings`, board |
| Status (`status_store.py`, `update_check.py`) | `status.json` | `update_status`, `migrate_legacy_status`, `check_for_updates` | sync, scheduler |
| Cleanup (`cleanup.py`) | none | `run_cleanup` | archive, photos |
| Photo library (`photo_library.py`) | `data/photos`, its index, processed copies | scan, process, upload, move, remove, purge | scheduler, Admin, board |
| Snapshot (`snapshot.py`) | the staged upload | stage, discard, import, export | Settings, Tap store, archive |
| Data identity (`persistence.py`) | two marker files | `evaluate_identity` | start-up |
| Board (`board.py`) | none | `build_board` | reads everything, without a lock |
| Display (`static/js/display.js`) | the board it shows, page, overlays, album visit | poll, render, carousel, cross-fades, panel, visits | `/api/board` |
| Scheduler (`scheduler.py`), app (`main.py`) | threads | start-up, jobs, routes | everything |

Concurrency. Every route is an `async def` with a synchronous body, so handlers
never interleave with each other, but they do with the scheduler threads (sync
every 15 minutes, update check, cleanup, photo scan every minute), with the
initial sync thread at start-up and with the photo processing thread. `JOB_LOCK`
(an RLock) serialises every writer of taps, archive and Upcoming; the photo
library has locks of its own. The board reads without a lock: it sees the files
between any two writes. Files are written with a temporary file and a rename
(`atomic.py`), so one write is all or nothing; a *job* is not.

What is hard here, and hard to test: what a reader or a crash finds between two
file operations of one job; what happens to a Slot that several Batches claim in
turn while downloads, disks and unlinks fail; a decision read before a lock and
used after it; two rules that must agree on one listing; three places that hold
an album's name; a screen whose timers, loads and polls come in any order.
`hazards` in `PROJECT.json` lists them by line, with the properties that cover
them.

## 2. Modules

| Module | Models | Kind |
|---|---|---|
| `Mapping` | what the decisions of `mapping.py` return | reference definitions |
| `MappingLoops` | the loops of `desired_map`, `resolve_occupancy`, `upcoming_beers`, one iteration per step | state machine |
| `TapSync` (extends `Mapping`) | `run_sync` (Taps), overrides, Tap store, archive, mishaps | state machine |
| `Snapshot` (extends `TapSync`) | the routes that stage, discard and import a Snapshot, the restore of `snapshot.py` | state machine, composed with the sync and the overrides |
| `SyncGate` | `run_sync` (Upcoming and key), `apply_settings`, `import_snapshot`, `upcoming_store.py` | state machine |
| `StatusFile` | `status_store.py`, `update_check.py`, the reports of `run_sync` | state machine |
| `DataIdentity` | `persistence.py` | state machine |
| `PhotoLibrary` | `photo_library.py`, the upload route | state machine |
| `Albums` | albums, their ticks and the bin's records (`admin_ops.py`, `photo_library.py`) | state machine |
| `AlbumTicks` | what ticking an album promises, without names | abstract specification; `Albums` implements it |
| `Settings` | `config.json`: Settings, Display profiles (`config_store.py`, `admin_ops.py`) | state machine |
| `Board` | `board.py`: what the files resolve to | operators |
| `Display` (extends `Board`) | `display.js` polling that board | state machine |
| `MC...` | small instances | for TLC |
| `MappingLoopsProofs` (of `Mapping` too), `TapSyncProofs` (of `Snapshot` too), `ConfigProofs` (of `Settings` and `SyncGate`), `StatusFileProofs`, `DataIdentityProofs`, `AlbumsProofs`, `PhotoLibraryProofs`, `DisplayProofs` (of `Board` too) | theorems | for TLAPS |

`run_sync` is one function and three questions: `TapSync` takes its Tap half
apart file by file, `SyncGate` its decisions before and inside the lock (there
the Taps are one step), `StatusFile` what it reports (there the whole job is one
step). The three share `JOB_LOCK`, and each has every thread that takes it for
the files it is about. All of them give what can go wrong a budget: `MaxHurt`
(`MaxDone` in `PhotoLibrary`) says how often each kind of event happens, and
`MaxKinds`, where there is one, how many kinds happen in one behaviour; `Albums` and `Settings` count their operations (`MAX_OPS`) and faults
(`MAX_FAULTS`, `MAX_GLITCHES`).

### Mapping and MappingLoops

A listing is a sequence of Batches; a Batch is named by its position. `Mapping`
defines *what* comes out (`DesiredMap`, `Occupancy`, `UpcomingBeers`);
`MappingLoops` has the dictionaries and loop counters of the code and is checked
to compute it. The two conflict rules are separate in the code, and `OccupantPours`
says they agree wherever a Slot is not tied: the Batch that occupies it is the
one written there.

### TapSync

A Tap is an md file and a photo per extension; a file is absent (`NoFile`),
unreadable (`Damaged`), not UTF-8 (`NotText`) or holds a Beer, which is a Batch at a
revision. The two spoilt kinds differ: what is unreadable is written anew, of what is
not UTF-8 the job that reads it dies. `holder`
is `JOB_LOCK`. As every job holds the lock from its first write to its last, one
set of locals (`pc` to `leaving`) serves whichever job has it. One step is one
file operation: `SweepOldPhotos`, `SavePhoto` and `WriteMd` are three, `CopyOut`
and `UnlinkMoved` are two per file.

| Action | Code |
|---|---|
| `SyncStart`, `FetchSweep`, `FetchDone`, `FetchFails` | `run_sync` to `desired_map`; `_list_batches` one status at a time |
| `SkipUnchanged`, `WriteTap`, `SyncRaises` | the write loop, `_is_unchanged`, and the `UnicodeDecodeError` nobody catches |
| `Downloaded`, `DownloadFails`, `DeletePhoto` | `_store_image` |
| `SweepOldPhotos`, `SavePhoto`, `WriteMd` | `tap_store.save_image`, `write` |
| `ArchiveUndesired`, `ArchiveNext`, `CopyOut`, `UnlinkMoved`, `Archived` | `_archive_undesired`, `archive_tap` |
| `SaveOverride`, `ClearOverride` | `admin_ops` |
| `BrewerEdits` | Brewfather changes under the sync, between sweeps too |
| `HandDamages`, `DiskFails`, `UnlinkFails`, `Crash` | what can go wrong |

The revision of a Beer stands for `source_revision` (the hash of recency and
mapping version that the md is stamped with); a photo carries the Beer it was
downloaded for. What the operator types is one of `ManualBeers`.

### Snapshot

All of `TapSync`, and one more holder of its lock. The staged upload is one file
(`staged`), whatever number of browsers upload: a record says whose file it is,
what was uploaded and whether all of it has arrived. `uploading` are the browsers
whose request is waiting for its next chunk, which is the only place where a
route lets another one run; `asked` says which file each page has been told about and
asks whether to import (`Told`, `Untold`, `Asks`: the panel of `admin.js`).
`import` holds the locals of `import_snapshot`, with what is still to be
restored and, for the property, what was there before. The credentials and
`config.json` are in `SyncGate`; here `skip` is the answer to its question.

| Action | Code |
|---|---|
| `StageBegins`, `StageEnds`, `StageBreaks` | `stage_snapshot`: unlink and open, the last chunk and the validation, a lost connection |
| `Discard` | `discard_snapshot` |
| `ImportStarts`, `ImportRefused` | `open_snapshot` and the lock, or the refusal: no Snapshot, an unanswered question, a `config.json` that does not read |
| `RestoreTapFile`, `SweepOtherSpellings`, `RestoreRootImage` | `_restore_files`, one atomic write at a time; the sweep's unlinks may fail, and the import goes on |
| `ImportEnds`, `ImportFails` | the return of the route, or the failure of one of those writes |
| `BoxDies` | the end of the process, whose start seeds `placeholder.svg` again |
| `HandPlaceholder` | the operator puts in an image of their own |
| `TapStep` | a step of `TapSync` |

Members are restored in any order (the order of the zip). An upload shares
nothing with a sync, so its steps are taken while no job runs, which leaves out
no order a property could tell apart. What is proved of `TapSync` about photos is
about behaviours without imports (an import may leave two photos of one Tap); what
is proved about the archive and the overrides is proved again with imports.

### SyncGate

`config` is the part of `config.json` that matters here: does it read, does
anybody want previews, has it a key. `entries` is `data/upcoming`, a set of
Batches; `qualify` is what Brewfather would have there now; `bfTaps` says whose
the Brewfather Taps are. A sync reads the gate and the key *before* `JOB_LOCK`
(`SyncBegins`, `ReadCreds`), fetches and writes Taps inside it (`SyncLocks`,
`Fetch`, `SyncTaps`), reads the gate again (`Gate`), and then writes entries
(`WriteEntry`) and removes the others (`RebuildRemoves`). `ClearBegins`,
`ClearEntry` and `ClearEnds` are `upcoming_store.clear` for a sync and for a
Save. `Save` is `apply_settings`; `ImportBegins`, `ImportSettings`,
`ImportRefused` and `ImportFiles` are `import_snapshot`, whose plan is made
before the lock too. `Jobs` are background threads; `Loop` is the event loop,
which runs Saves, imports and the Admin's own sync one after the other.

### StatusFile

A field's value is the time it was recorded. `Load` and `Store` are the two
halves of `update_status`; `report` is what it was called with. `SyncBegins`
decides about a skip and reports it without the lock, as the code does; whether a
key is found (`HasKey`) hangs on `config.json`: one that does not read just then has
none, unless the key comes from the environment (`KeyFromEnv`). `SyncRaises` is a sync
that dies of a Tap file and reports nothing.
`CheckDone` asks GitHub first and `CheckLocks` takes the lock for the report.
`Migrate`, `MigrateSaves`, `MigrateSaveFails` and `Prune` are
`migrate_legacy_status`; they run before any job, again after every `Restart`.

### DataIdentity

`ids` are the identifiers in the host directories, the container has its own
copy; `Row` is the table of `evaluate_identity`, `AfterRead`, `WriteData` and
`WriteContainer` what a row writes and in which order, `Report` the verdict.
`Wipe`, `Remove`, `Mount` and `Recreate` are what a host does to its directories
and containers. `last` is a history variable: what this container really last
had mounted.

### PhotoLibrary

A Place is a path under `photos/`, numbered in the order photos are processed;
`Album` says which folder it is in. A copy id is a content and the Settings it
was built with, as `_copy_id` hashes the two; `display` says what the file of
that name really shows. `touched` are the files the index does not know as they
are (another size or mtime), `young` and `fresh` are the two ages the code asks
about. `store`, `procs` and `LockFree` are the three locks.

| Action | Code |
|---|---|
| `ScanTakes`, `ScanEnds` | `_scan`: the walk and the hashing, then the index under `_LOCK` and the sweep |
| `TakesNext`, `Renders`, `WritesCopy`, `Commits`, `RecordsFailure`, `WriteFails`, `NoneLeft` | `process_next`, for the scheduled job and the kicked thread |
| `Kicks`, `KickEnds` | `kick_processing` |
| `BeginUpload`, `UploadChecks`, `UploadStores` | the upload route and `Upload.commit`, in a pool thread |
| `RemoveRecords`, `RemoveMoves`, `RemovePops`, `DropLooks`, `DropUnlinks`, `Dropped` | `_remove_rels`, `_drop_copy_files_if_unused` |
| `MoveBegins`, `MoveMoves`, `MoveRekeys` | `move_photos` |
| `RestoreMoves`, `RestoreUnrecords` | `restore_removed` |
| `DeleteUnlinks`, `DeleteUnrecords` | `_delete_removed`, for the Admin and the daily purge |
| `SetPipeline` | `set_photo_pipeline` |
| `HandPuts`, `HandDeletes`, `Settles`, `GraceEnds`, `Crash` | people in the folder, time, the end of the process |

Two assumptions about time are in it: a copy is committed within the ten minutes
of grace after it was written (`GraceEnds`), and a removal is over before a copy
of its photo is built from start to end, except as the event `slow`
(`TakesNext`). A request for several photos is several requests here.

### Albums and AlbumTicks

An album is a folder; its name is also in every `album_selection` of
`config.json` and in the record of each photo that was removed from it. `Albums`
numbers the albums, which the code does not, so that a property can say what a
name *means*.

| Action | Code |
|---|---|
| `CreateAlbum`, `RestoreRemoved`, `RemovePhotos`, `Purge` | `photo_library.py`: `create_album`, `restore_removed`, `remove_photos`, the daily purge |
| `RenameMoves`, `RenameTags`, `RenameWrites`, `RenameWriteFails` | `admin_ops.rename_album`, `photo_library.rename_album`: the folder, the records, the ticks |
| `UndoMoves`, `UndoTags`, `UndoFails` | the undo after a config write that failed |
| `DeleteRemoves`, `DeleteDropsFolder`, `DeleteMarks` | `delete_album`: photos to the bin, the folder if it is empty, the records |
| `OpenPage`, `SaveTicks` | the Settings page and its Save, whose ticks are followed through `_RENAMED_ALBUMS` |
| `HandNote`, `HandDelete`, `Restart` | people in `photos/`, the end of the process |

`AlbumTicks` has no names: a Screen shows albums, only a Save of that Screen, the
album's deletion or a fault takes one away, and an album gains Screens only when it takes a name that
was ticked already. `TicksMeanAlbums` is its specification under the mapping
`shown[s]` = the live albums whose name Screen `s` ticks (in the middle of a
rename, the old name still counts).

### Settings

Settings stand for their kind (a bounded number, a unit of two fields, a preset
that owns a scale, a switch, a label, the albums picked or all of them, a credential),
with small domains. `_coerce` is modelled by what it does, in the order it does it:
`Coerced` fills in defaults, clamps, cuts, and lets a preset and a scale agree;
`CoercedProfiles` drops names that are none or taken and keeps whole units.
`UpdateConfig` reads, merges, coerces, writes and answers; `SaveSettings`,
`SaveProfile`, `CreateProfile`, `RenameProfile`, `DeleteProfile` are the routes
through it; `HandEdit` leaves any hand-made file; `FirstRead` is the start-up. A
`glitch` is one read that fails and the next that succeeds, within one request.

Two texts are stripped and then cut, the label and each name of `album_selection`
(`config_store.py:745`, `:823`), so one that is cut just after a space ends in it, and
the next read strips it. `Stripped` says what that read makes of a setting:
`ReadBackAsSaved` and `SavesTouchOnlyTheirOwn` let the two texts lose that space, and
two names that differ by it become one, and nothing else.

### Board and Display

`BuildBoard` is a function of one state of the server: `ResolveTap` (Manual
before Brewfather), `OrderUpcoming` and `ResolveUpcoming` (order, cap, pinned,
cross-fade, scope), `ResolveAlbum` with `ReadyPhotos`. In `Display` the server
moves freely among the states `Server[s]` of the instance.

A TV is one page in a single-threaded browser: each callback is one step, and
each is an operator from `tv` to the set of states it may leave. `tv` keeps what
the page keeps: the view it rendered (`ViewOf` a board: pages, deck page, the cards of
the deck page and the panel, which are the first eight of their list (`CardsOf`), pinned
and cross-faded teasers, render key), overlays, the interlock `busy`, the tick
counters, the album block and the visit. A hold and the half second of its fade
are one step. The order of the shuffled queue is random wherever it is built or
extended, so the queue is a set and the next photo any member of it.

| Action | Code |
|---|---|
| `ServerChanges` | a Save, a sync, an edited file |
| `Poll` | `poll`, `albumUpdate`, `fullRender` or `pendingBoard` |
| `CarouselTick`, `NextPage`, `GoToPage` | the rotation timer, taps and swipes: `showPage`, `startVisit`, `endVisit` |
| `UpcomingTick`, `HoldEnds` | `upcomingTick` (`panelTick`, then `crossFadeTick`), the end of a hold |
| `PhotoTimer`, `Loaded` | `showNextPhoto`, `takeSpread`, and a spread whose images loaded or failed |
| `Reload` | the browser starts again |

`IntervalAssumption` says what makes a hold end before the next tick of its own
interval (the code's minimum interval leaves room for the floor and the fade);
`CycleAssumption` says that the tick counters may be kept modulo `CYCLE`. The
counters of a visit stop at `MAX_TURNS`, `MAX_SHOWN` and `MAX_FAILED`, beyond
which no comparison in the code tells values apart. A visit's plan is forgotten
when it ends; the code keeps it and overwrites it at the next.

## 3. Runs

Passing runs:

| Run | Instance | Shows |
|---|---|---|
| `MappingLoops` | every listing of up to 3 Batches, 2 Slots and a token out of range, statuses and recencies that tie | the loops compute their definitions; no claim falls between pouring and teasing |
| `TapSyncSafety` | 1 Slot, 2 Batches, 2 extensions, 2 revisions; every mishap, one kind in a behaviour | the photo beside a Tap is one, its own and current; a successful sync is exact; the Slot becomes and stays current, unless a hand edit left the claimed file not UTF-8 |
| `Snapshot` | 1 Slot, 1 Batch, two sweeps, overrides, 2 extensions; 2 browsers, one sound and one damaged Snapshot; one mishap (disk, unlink, hand or crash) | the Snapshot a page asks about is the one staged and whole, unless another browser's has the name; an import that succeeds is exactly a restore; nothing is lost on its way to the archive; no sync shows through an override |
| `SyncGate` | one background thread and the event loop, 1 Batch; 2 Saves, 2 edits in Brewfather, one of everything else | `data/upcoming` stays empty after the Save that turned it off; a rebuild is exact; both converge |
| `StatusFile` | a syncing and a checking thread, 2 times | no report undoes another, the migration loses nothing, every field is filled again |
| `DataIdentity` | 2 host directories, one of each event, two remounts | a loss is said at the next boot, and nothing else is |
| `PhotoLibrary` | 2 places in an album and 1 in another, 2 contents of which one does not decode, 2 Settings, 1 bin place; one event of each kind, two kinds together | see below |
| `Albums` | 3 names, 2 photos, 2 Screens; 4 operations, hand edits, one fault and an undo that fails | ticks and removed photos stay with the album they mean, through renames, undos and late Saves; `Albums` implements `AlbumTicks` |
| `Settings` | 2 profiles with 4 spellings, 3 submissions, 2 hand-made files; 3 operations | no operation changes what another profile shows; what a write answers is what is read back; a preset keeps its scale |
| `Display` | 6 server states: two tap pages with a deck and visits, the same in Name order, a hidden Vacant Slot with two claimants, two teasers on one Slot and ten more for the panel's eight cards at two intervals, photos only | nothing is drawn out of place or missing but for what a full surface has no room for; a shuffled pass repeats no photo; the newest board shows in the end; teasers take turns |

`PhotoLibrary` checks that no original is lost but by hand or by Delete
(`OriginalsKept`), that what is in the bin can be listed (`BinRecorded`), that no
recent Display copy outlives the photos that show or retired it
(`NoStrayCopies`), that an upload is not filed twice in an album
(`NoSecondUpload`), that a kick is not lost on a run about to end (`KickNotLost`)
and that every photo ends up with its copy or its failure (`PhotosGetReady`).

Why the bounds are enough. A photo conflict needs two Batches on one Slot and two
extensions; a lost tie needs two claimants, and a third to show that order does
not matter. Slots do not interact but through the loops of a sync, which the
theorems cover for any number. A mishap is there once per kind because a second
of the same kind meets the state the first one left, which the runs reach from
other states too. `PhotoLibrary` takes two kinds together, which is what its
interesting failures need (a removal and a hand edit); the runs of `TapSync` take
one, because their safety properties are theorems for every `MaxKinds` and for
convergence a mishap only has to be over. Revisions are bounded by `MaxRev`: two are a change. In
`SyncGate` two Saves are off and on again, one Batch is an entry to write or to
remove. In `PhotoLibrary` three Places are what a duplicate, a shared copy and
a move need, and `StartDisks` starts with the folders in which they happen. In
`Albums` a name that is left, taken by another album and followed by a late Save
takes three names and four operations; a third Screen or photo behaves like the
second. In `Settings` a hand edit, an operation on one profile and one on another
are three; the fields stand for their kinds, so more of them add nothing. In
`Snapshot` the third browser finds what the second one found, and one Snapshot
carries both Sources, a Tap with and one without a photo, and a root image. The six
scenes of `Display` have one Batch more than the cap and two more than a surface's
eight cards where it matters, and were picked pairwise: each differs from another in one thing
the page must react to (layout, order, interval, cap, hidden Slot, visits), and
the TV is moved between them at any moment.

Runs that end in a violation state a sentence of the repository that the code
does not keep; `findings` quotes each:

| Run | The code |
|---|---|
| `SnapshotOwn` | exports every spelling of the placeholder and imports one only; every start puts the `.svg` back beside an operator's own `.png`, and the box refuses the Snapshot it made |
| `SettingsGlitch` | builds the profiles to write from a read that answers in-memory defaults when it fails, and saves them through one that succeeds: every other profile is gone |

Seen while modelling, and left without a run:

* Sync: exact ties are broken in opposite directions by `desired_map` and
  `resolve_occupancy` (`mapping.py`); a Fermenting Batch can be poured and teased
  at once; a Tap is archived when its Batch changes status between two sweeps
  (`brewfather.py:146`); the new photo is beside the old md until the md is
  written; a sync that aborts leaves what it had written; a Beer another Batch
  replaces is overwritten, not archived; a sync works with the key it read before
  the lock even when an import changed it meanwhile; "Never raises" (the
  docstring of `run_sync`, `brewfather.py:330`) is not kept: a Tap file that is not
  UTF-8 raises out of `_load` (`tap_store.py:301`), which catches `OSError` only, ends
  every sync at that Slot unreported, and fails the board that reads it; a
  download that failed while an older photo of the Batch is there is not tried again, as
  the md has the new revision by then (`brewfather.py:242`).
* Taps: after a crash between the photo and the md, a Slot that goes back to its
  old Batch at the same revision keeps the other Batch's photo for good, because
  `_is_unchanged` looks at the presence of a photo only (`brewfather.py:326`,
  against `:230`). `OwnPhoto` excepts crashes and disk errors.
* Snapshot: a restored Tap photo does not sweep the box's other spelling, which may
  hide it (`snapshot.py:619`); a restored `placeholder.png` is hidden again by the
  `.svg` of the next start (`main.py:167`); one browser's upload can end in, delete
  or be asked about another's file (`main.py:1416`), though never about half of its own; an
  import whose sweep cannot unlink another spelling reports success, and the box's older
  image may go on showing (`snapshot.py:589`);
  the md and the photo in an export may be of different moments, as its docstring
  admits (`snapshot.py:217`).
* Status and identity: a skipped sync reports without `JOB_LOCK`
  (`brewfather.py:376`, `status_store.py:107`), and a `config.json` that does not read
  for a moment is enough for a skip, so a report of the other job may be lost then; a
  failed write in the status migration stops the start-up; a failed first write of the
  identifier makes the next boot say "changed"; a crash between the reconciling write and
  the report swallows the warning.
* Photos: a copy is built from the file as it is now and named after the hash of
  the last scan, so a photo that shares the name may show the other picture
  (`photo_library.py:789`); a copy retired between a removal's snapshot and its
  pop is served for the rest of its grace period; a file moved from under the
  decoder and indexed again before its failure is recorded stays "failed" until
  the Settings or the file change.
* Albums: a name that was renamed away and made again is still followed to the
  renamed album once its folder is gone (`admin_ops.py:192`, `:201`); after an
  undo that failed, a page opened before it holds names nothing explains.
* Settings: a label or the name of a picked album that is cut just after a space is
  saved and answered with the space and read back without it (`config_store.py:745`,
  `:823`).
* Display: of more than eight teasers a surface draws eight, whatever the cap, which goes
  up to 20 and "caps how many upcoming beers are shown at all" (`FAQ.md:321`); an endless visit never takes up a plan with turns
  (`display.js:1182`, `:1277`); the second teaser pinned to one Vacant Slot is
  drawn nowhere when the surfaces have scope "overflow" (`FAQ.md:265`); the render
  key leaves out the Upcoming label; a panel on every turn starves the cross-fade
  (`FAQ.md:315`, `display.js:1144`), and the parity of turns may starve one of two
  teasers on several pages (`FAQ.md:292`); where a shuffled pass meets the next, a
  pair may repeat the last photo as partner (`display.js:1253`).

### Fairness

* `TapSync`: weak fairness of the holder of the lock (the thread goes on), strong
  fairness of `SyncStart` (the scheduler comes every interval; a lock that is
  released again and again is obtained in the end).
* `SyncGate`: strong fairness of each thread's and the import's next step (they
  wait for the same lock), weak fairness of a background sync's beginning. The
  Admin need not do anything.
* `StatusFile`: weak fairness of the start-up, of the restart of a process whose
  start-up died (the container's restart policy) and of the periodic jobs'
  beginnings; strong fairness of a job's step.
* `PhotoLibrary`: weak fairness of the scheduled job's start, of every started
  worker, upload and request, and of a new file's settling. Sweeping needs no
  fairness: no property waits for it.

* `Display`: weak fairness of the page's own timers and callbacks (`Poll`,
  `CarouselTick`, `UpcomingTick`, `HoldEnds`, `PhotoTimer`, `Loaded`), which the
  browser runs while the page is open. Taps, swipes and reloads need not happen.
* `Albums`, `Settings` and `Snapshot` have none: they claim safety only, and every
  step of theirs but a sync's is somebody's request.

Nothing is assumed of the Admin, of Brewfather or of mishaps, whose budgets are
finite.

## 4. Proofs

All theorems hold for every value of the constants (Slots, Batches, extensions,
revisions, threads, directories, names, photos, budgets), from the assumptions named
in the modules only, which TLC evaluates in the runs: `MaxNumTapsAssumption`,
`BatchAssumption`, `MaxLenAssumption`, `TapSyncAssumption`, `SnapshotAssumption`,
`StatusFileAssumption`, those of `SyncGate`, and

* `DataIdentityAssumption`: the container's own directory is no host directory.
* `PhotoAssumption`: the bin has finitely many names; `None` is nothing that a place,
  the index or the bin may hold, `Nobody` no actor.
* `AlbumsAssumption`: finitely many names, among them the first album's; `NoRecord` is
  no record.
* `SettingsAssumption`: `normalize_profile_name` gives a name that it gives again, and
  never "default"; the form posts the whole schema; a file by hand that can be read
  holds parts of the schema, or junk. What cannot be read is `Damaged`, what
  `_coerce` drops (a key that is not in the schema) is not modelled.

* `ServerAssumption` (`Display`): the bounds of the Settings, and one entry per Batch
  in the Upcoming store, which writes one file per Batch; two files with one
  `batch_id`, made by hand, are outside. The other two assumptions of `Display`
  (`IntervalAssumption`, `CycleAssumption`) are about liveness; no proof uses them.

One theorem has a hypothesis of its own, `SavesKeepOff`. `ConfigProofs` extends the
two modules about `config.json`, which share no variable and no constant; the
initial states and steps of `SyncGate` are therefore called `GateInit`, `GateNext`
and `GateSpec`.

What a recursion or a loop computes is proved by taking the least counterexample
(`WFMin` on the naturals), because the library's induction theorems take an operator
and no installed prover can instantiate one; that the recursive functions `Followed`
(`Albums`) and `CoercedProfiles` (`Settings`) exist at all is proved in the same way.

* `MappingLoopsProofs!DesiredMapWinner`: the reference of `desired_map` is well
  defined. `WinsStep` and `WinsFirst` say how the winner changes when a Batch is
  appended; existence follows by taking the least length without a winner
  (`LeastNat`). `TapSyncProofs!ClaimHasWinner` is what a sync needs of it.
* `MappingLoopsProofs!LoopsCorrect`, `ClaimsAnswered`, `RulesAgree`: every listing,
  however long. `LoopInv` says that after each turn of a loop the dictionary is
  the reference for the Batches seen (`DesiredSoFar`, `PassesSoFar`,
  `OccupiedRight`, `EntriesSoFar`); `PassStep` is to the Occupancy pass what
  `WinsStep` is to `desired_map`, and `MergeIsOccupancy` puts the passes together.
* `TapSyncProofs!Typing` (proved, no run spends its time on it): `TypeOK` is not
  inductive alone: `JobOK` adds which
  locals are meaningful at which program counter (a sync works on the Brewfather
  Source, the Admin on the Manual one, what is about to be moved exists).
* `TapSyncProofs!ArchiveLosesNothing`: with `CopiedOut`, an md about to be
  unlinked is in the archive already.
* `TapSyncProofs!SyncLeavesOverrides`: from `JobOK`.
* `TapSyncProofs!NeverTwoPhotos`: `PhotosInv` adds that at the save every
  other spelling is gone.
* `TapSyncProofs!PhotoIsOwn`, `PhotoIsCurrent`: `PairedInv` says that every
  Tap's photo matches its md, except where a sync is about to write the md, and
  that there it matches the Beer being written.
* `TapSyncProofs!SyncSucceedsCurrent`: `LoopInv` and `ClearInv` are the loop
  invariants of the two loops of `run_sync`.
* `TapSyncProofs!QuestionsFit`, `ImportsRestore`: `BoxInv` splits on the holder
  of the lock. While it is not the import, `TapSync`'s own `Inv` holds; while it is,
  the Taps rest (`RestingSteps`: of `TapSync` only Brewfather and a hand go on) and
  `ImportInv` says that what is off the list is restored, everything else is as it
  was, and other spellings are gone once swept, unless an unlink was stuck.
* `TapSyncProofs!ImportsLoseNothing`, `ImportsLeaveOverrides`: `EveryStep` brings the
  two promises of `TapSync` over, a `TapStep` by the lemmas `MovesKeep` and
  `SyncShows` of `TapSyncProofs`, the steps of an import because no md file goes.
* `ConfigProofs!Typing` (proved only, too): inductive as it stands, because it holds the
  exclusiveness of the lock (`pc[t] \in Holding <=> lock = t`).
* `ConfigProofs!RebuildExact`: `RebuildInv` says that a rebuild has written all
  it will keep and that what else is there is still to be removed.
* `ConfigProofs!GateStaysHonest`: `GateInv` adds that a thread past `Gate` saw
  previews wanted, and that whoever turned them off since is waiting for the lock.
* `StatusFileProofs!ReportsNeverUndone`, `NothingForgotten`: `Past` (nothing was
  recorded after now), `Serial` (whoever
  is between its read and its write holds the lock and what the file still says)
  and `Covered` (once the migration has saved, every field `config.json` had a
  value for has one in the file). Both last as long as nobody damages the file or
  takes the key away, by hand or by a `config.json` that does not read; a key from the
  environment (`KeyFromEnv`) makes that half of the premise unnecessary (`Keyed`).

* `DataIdentityProofs!AlarmIsTrue`, `LossIsSaid`, `IdentifiersAreKept`: `Remembered`
  says what the container's copy is worth while no write failed and nothing was
  removed, `Fresh` that a directory the box has not reported on has an identifier
  nobody else has. Each alarm needs one of them; both rest on `BootOK`, which
  says what the start-up has found out at each of its steps.
* `PhotoLibraryProofs`: `Inv` (`Typed` and `Locked`) says which process holds which of
  the three locks, and which locals then mean something; everything else rests on it.
  - `NoOriginalIsLost`: `RoomInv`, where an upload or a move is about to write nothing
    lies, unless a hand put it there.
  - `BinIsRecorded`: `BinInv`, a record is there before the file comes and after it
    went.
  - `NotStoredTwice`: `HashInv`, the index or the scan under way knows every settled
    file's hash, and `UploadInv`, what an upload has checked stays true until it
    stores, because both are inside `_STORE_LOCK`.
  - `KicksAreKept`: `KickInv`, a photo that waits has somebody coming for it.
  - `CopiesAreAccountedFor`: `FiledInv`, every entry has its file or somebody who is
    moving it, and `CopyInv`, a recent copy is shown, retired, about to be installed
    or about to be dropped.
* `AlbumsProofs!AlbumsTyped`, `RenameEndsClean`: `RenameInv` says what a rename has
  done at each of its steps, in terms of what was there before it. `SaveSaysAlbums`:
  `BearInv` (which albums a name has ever meant) and `TrailInv` (as long as no name has
  meant two, following the renames leads to a folder, by a rank of names that falls
  from each to the next).
* `AlbumsProofs!BinKnowsTheAlbum`: `BinInv`, a photo's record has the name its album
  has, or had before the rename under way.
* `AlbumsProofs!AlbumsImplementTicks`: the refinement, step by step: every step of
  `Albums` is a step of `AlbumTicks` under `shown`, or changes nothing that `shown`
  can see; a rename, its undo included, is the latter.
* `ConfigProofs!AnswersAreRead`: `FixedIsGood` and `FixedKeepsGood` say that what
  `_coerce` makes of a value is within bounds and that it leaves such a value alone,
  but for the last space of a cut label or album name (`Stripped`); `ConfigTwice` says
  so of the whole file: the second coercion is the last that does anything.
* `ConfigProofs!SavesKeepOff`: each operation changes the list of profiles in place,
  but for those it is about (`Stays`), the coercions keep that and the order (`Kept`),
  and a screen is then given the same profile (`ChosenSame`) and the same values
  (`EffectiveSame`). The order matters: the first profile whose User-Agent text matches
  wins. The hypothesis `MAX_GLITCHES = 0` cannot be dropped: the run `SettingsGlitch`
  is the counterexample. `OnlyGlitchesReach` says the same without it, of every step
  none of whose reads fails.
* `ConfigProofs!PresetsOwnTheirScales`: `AgreeInv`, a file nobody has edited is one
  that coercion leaves alone, with a preset beside its scale in the Default profile and
  in every profile. Here reads may fail.

* `DisplayProofs!NothingMisplaced`, `NoBoardLeftWaiting`, `ShuffleFair`: one invariant,
  `Good`, of four parts. `Typed`: `tv` has its fields, and the board shown and the one
  held back are views of some server state. `InPlace` is `OverlaysInPlace`, `Dealt` the
  two halves of a shuffled pass, `Waits` that a board waits only behind a visit that
  will end. Each operator from `tv` to its next states has a lemma that says what it
  keeps (`ShowPageKeeps`, `CrossFadeTickKeeps`, `EndVisitKeeps`, ...), and a callback is
  the chain of them. Two lemmas carry the argument. `KeyFixesPages`: a poll whose
  render key did not change leaves the overlays up over another board, so boards with
  one key must have the same pages and the same on-deck page. `AtMostOneSpread`: a
  callback that ends a visit, applies the board that waited and begins the next visit
  takes at most one spread, so a pass cannot be used up and begun anew within one step.
  `InPlace` alone does not survive a poll: the board shown and the one that waits have
  to be views, or one key could stand for two layouts.
  `BoardWaitsForVisit` (the safety half of `NewestBoardShows`) is proved only.
* `DisplayProofs!EveryTeaserPlaced`: true of every view of a server state, so no
  invariant is needed, but the whole way from the files to the pages is. The Upcoming
  order and the order of numbers are total (`BeforeOrders`), an element's rank is a
  bijection to its places (`RankPlaces`), so `Sorted` loses and repeats nothing
  (`SortedIs`), keeps the order, and as many entries as the cap allows have a rank below
  it (`CountBelow`); `Chunk` covers its sequence at every page size (`ChunkCovers`). Then
  `DrawnIsListed` (nothing is drawn that the cap dropped), `CrossFadeDraws` (what takes
  turns with a card is drawn over one that is on a page) and `SurfaceDraws` (what a
  surface carries is among its cards, or eight others are, all listed before it, which by
  `FullCrowdsOut` are eight Batches in the store's order) give `CapCounts`, and
  `OnThePages` the Vacant Slots.

Every safety property of the passing runs is stated by a theorem. Only model-checked:
liveness (`TapsConverge`, `UpcomingConverges`, `StatusRegenerates`, `PhotosGetReady`,
`NewestBoardShows`, `UpcomingTakesTurns`), which needs ENABLED.

## 5. Not modelled

Formatting and value conversion (`beer.py`, `colors.py`, `beer_glass.py`,
`theme.py`, front matter, file-name grammar, the mapping of a Batch's fields), the
decoding of images, authentication, templates, CSS, the Admin's browser code,
deployment scripts, prototypes and demo data. The archive cleanup is
planned, not modelled. In `Snapshot` the streaming of an export, the archived
beers and the venue logo (handled like Tap files and like the placeholder) are
left out, and so is a staged file that cannot be unlinked. Archive names carry a
time of one-second resolution in the code and are unique here. In `SyncGate` an
unlink in `data/upcoming` that fails, in `StatusFile` the switch that turns update
checks off, in `DataIdentity` the demo mode, in `PhotoLibrary` thumbnails, low disk
space at the start of an upload and an unlink that fails are left out. In `Albums`
names that differ in case only and Unsorted, which no operation there accepts; in
`Settings` the single bounds of every field; in `Board` names, colours, glasses
and the Visibility of attributes; in `Display` the clock, the theme, the ticker,
the marquee, the print layout and the drawing itself. A wiped directory takes the
container's identifier by design, so `DataIdentity` does not say that storage
coming back is noticed.

## 6. Plan

Next, in this order:

1. `Cleanup`: the archive of `TapSync` and its age, against a sync that archives.
2. An abstract specification of a synced Slot (`Fetch; Publish`) that `TapSync`
   implements.
3. The streaming of an export in `Snapshot`, with a Tap rewritten between the list
   and the read, and the archived beers.
