# A verification of MLS-Grid-Sync

MLS-Grid-Sync copies listings from the MLS Grid API into Postgres. It fetches pages of records, saves each
record unparsed in `raw_output`, projects those rows into typed tables with a version history, downloads the
images into object storage, and serves the result. Several processes do this at once (a daemon, imports,
workers, maintenance commands, an HTTP server) and they coordinate through the database alone. This
directory holds TLA+ models of those processes, TLC configurations that check them on small instances, and
TLAPS proofs of what matters most for every instance.

Contents: [the system](#1-the-system) · [modules](#2-modules) · [runs](#3-runs-and-bounds) ·
[fairness](#4-fairness) · [proofs](#5-proofs) · [findings](#6-where-code-and-text-disagree) ·
[plan](#7-plan) · [not modelled](#8-not-modelled)

## 1. The system

| Component | Source | State it keeps | Operations |
|---|---|---|---|
| MLS Grid client | `mls/` | rate limiter, retry counters of a request | `FetchPage`, URL building |
| Raw ingest | `sync/raw.go`, `sync/resource.go` | `raw_output` (append-only, unique per source key and revision) | `saveToRawOutput`: one transaction per page, duplicates suppressed, children of a Property split out |
| Sync events and delta cursor | `sync/run.go`, `sync/service.go`, `cmd/sync.go`, `cmd/import.go` | `sync_event` (status, high-water mark) | `RunInitial`, `RunDelta`, `stampOutcome`, `LastSuccessfulHWM`, `SweepStaleRunningEvents` |
| Initial import | `cmd/init.go`, `sync/resource.go` | counters of the workers; the pipeline's channel of one and its error group | sequential, pipelined and skip-paged fetching |
| Cursor-driven processor | `sync/processor/processor.go`, `lock.go` | `processor_cursor`, an advisory lock | `RunPass`: batches, chunks, commit, rollback and replay |
| Record lifecycle | `sync/processor/property.go`, `property_bulk.go` and their siblings | entity row and version rows per key | insert, update, delete, skip; per record and in bulk |
| Child parking | `sync/processor/child_bulk.go`, `property_room.go`, `property_unit_type.go`, `open_house*.go`, `AfterPass` in `property.go` | `parent_listing_key` of rooms, unit types and open houses | set by a child's own transaction if it finds the listing, else NULL; relinked in the listings' AfterPass |
| Reprocess | `cmd/reprocess.go` | the same cursor | reset, then a pass |
| Attachment jobs | `sync/attachment.go`, `attachment_claim.go` | `attachment_job`, `attachment`, `media.attachment_id`, the object store | enqueue, claim, reap, download, succeed, fail, cancel |
| Worker loop | `cmd/worker.go` | counts for `--once`, `--max-jobs` | poll for ever or stop |
| Warm | `cmd/warm.go` | none | repair links, enqueue for chosen listings, cancel the rest |
| Image endpoint | `server/media.go` | none | serve an object, or register a prefetch |
| Storage, search, geo, health, doctor, GraphQL, config, tracing, progress | see `PROJECT.json` | no protocol state | |

How they interact. An ingester writes `raw_output`; a pass reads it in id order behind `processor_cursor` and
writes the typed rows and the cursor in one transaction. A delta run reads and writes `sync_event` around its
paging. The ingester also enqueues attachment jobs after it has projected; the projection of a tombstone
cancels them; workers claim and finish them; `warm` and the image endpoint add to them, and
`warm --exclusive` cancels some. One fetch of Property pages brings media, rooms and unit types with it, so an import or a
daemon runs a chain of passes, one resource after another, each under that resource's lock. The only locks are the advisory lock of a pass, `FOR UPDATE SKIP LOCKED` in
a claim, and the row locks of single statements. Everything else that a process has read may be old when it
is used.

What is hard here, and what makes each part correct:

* *Ingest and projection.* Ids are minted before their page commits; chunks roll back and are replayed; a
  pass may die anywhere; a reset takes no lock. Correct: no saved row is skipped; there is one open
  version per entity and it mirrors the entity; the newest revision wins; history is append-only; however the rows are
  cut into chunks, the result is that of one row at a time.
* *Attachment jobs.* Cancel, reap and finish race over a job whose worker is busy elsewhere for minutes.
  Correct: a finished job is final; a media row links only what a succeeded job of it downloaded; attempts
  count failures and nothing else; enqueueing again adds nothing, as long as one process enqueues at a time; every job ends.
* *Backfill.* `warm` and the endpoint act on what they read some statements ago. Correct: re-running is not
  additive; a worker's job and a chosen listing's job are not cancelled.
* *Delta cursor.* Imports and the daemon overlap, fail half-way and repeat. Correct: no upstream change is
  left behind the cursor, and every change arrives in the end.
* *Skip-paged import.* Workers run ahead of the end of the data, over a feed that may move. Correct: what the
  import returns is whole.
* *Pipelined import.* A producer saves pages and wakes a consumer through a channel of one with a non-blocking send; either
  may fail and cancels the other; another process may hold the lock the consumer waits for. Correct: signals
  that fall together lose no row, the goroutines end, and an import that succeeds has projected everything, as long
  as no other process was saving pages of its resource at the same time.
* *Page requests.* 429s and other failures use different budgets, and one restores the other. Correct: the number of
  requests for a page is bounded.
* *Child parking.* A child's transaction reads which listings exist, and a listing can be committed and
  relinked before that transaction is. Correct: a link names a listing that exists and that the child has named, a linked child stays
  linked, and a parked one is linked in the end.

`PROJECT.json` lists each hazard at its line with the property that covers it.

## 2. Modules

| Module | Models | Extends |
|---|---|---|
| `RecordLifecycle` | the decision for one row and the writes it implies; per record (`Process`) and for a chunk of distinct keys (`ProcessBulk`) | |
| `Projection` | ingesters, passes, reset, crash, lock, cursor | `RecordLifecycle` |
| `SequentialProjection` | the promise: rows applied one at a time in id order; the abstract specification of `Projection` | `RecordLifecycle` |
| `JobQueue` | the promise of the job table: a queue of images to download; an abstract specification | |
| `AttachmentJobs` | the job table and the processes around it; implements `JobQueue` | |
| `Backfill` | `warm` and the image endpoint, composed with all of `AttachmentJobs` | `AttachmentJobs` |
| `SyncRuns` | imports, delta runs, failures and the high-water mark | |
| `SkipPagedImport` | the import with several fetch workers, composed with the daemon of `SyncRuns` | `SyncRuns` |
| `FetchPage` | the budgets of the retry loop around one page request, as operators | |
| `ParkedLinks` | the promise about parent links; an abstract specification | |
| `ChildLinks` | pages that several processes save, and their chains of passes over listings and children, AfterPass included; implements `ParkedLinks` | `RecordLifecycle` |
| `PipelinedImport` | the import's producer and consumer, its retries, and delta daemons next to it | `ChildLinks`, `FetchPage` |
| `RecordLifecycle_proofs`, `Projection_proofs`, `SequentialProjection_proofs`, `AttachmentJobs_proofs`, `Backfill_proofs`, `SyncRuns_proofs`, `ChildLinks_proofs`, `PipelinedImport_proofs` | TLAPS proofs | the modules they prove about |
| `MC*` | values of the constants for TLC | |

Conventions: a database transaction or statement is one step, at the moment it becomes visible; a process's
memory between two of them is a variable; a crash or an error drops that memory. Names are the code's. A definition introduced as "A variant
of X" is a plausible mistake in X. The specification never uses it; substituting it for X shows that
a property notices.

**`RecordLifecycle` / `Projection`.** `raw` is `raw_output`, indexed by id (a UUIDv7 is a number: ordered, and
minted in order). `store[k]` is the entity row and version rows of key `k`. A record's columns are one opaque
value, because the decision only asks whether any differs. A row may be `bad` (its payload does not parse).
`pc`, `mem`, `batch`, `chunk`, `todo` and `work` are the local variables of `runPassWithStats` and the view of its
open transaction. `CommitChunk` makes that view and the cursor visible together (`tryCommitChunk`),
`RollbackChunk` discards it and goes over to `ProcessOne` (the replay), `HaltOnPoison` is the row that fails there.
`AbortPass` is a crash or an error anywhere. `projected` is a history variable: the ids whose projection was ever committed;
its greatest (`Reached`) is the mark of `SequentialProjection`.

**`AttachmentJobs`.** `jobs` is the table, `link` is `media.attachment_id`, `attachments` and `objects` are
attachment rows and stored objects. `published` and `saved` are the revision upstream serves and the one in the newest
payload here; a download returns the bytes of any revision in between. `hand[w][j]` is where worker `w`'s
`processJob` is with job `j`. Time is `LeaseRunsOut`: a claim may become stale at any moment, also
under a worker that is still busy, since no worker renews its lease.
`EnqueueAttachmentJobs` is three steps: collect, read what is covered, insert. `failJob` is two: read
the count, then the guarded update.

`JobQueue` knows no process, lease or claim: entries wait, are taken in batches, lapse, finish or fault, and are withdrawn by listing.
A row maps to its entry (`EntryOf`: `pending` and `retrying` both wait; `failed`, which the code never writes, has no state).
A guarded update that matches no row, the enqueuer's reads and the upload are stutters.

**`Backfill`.** `warm` is the command's program counter and everything it has read: chosen listings, the media it keeps, the
jobs to add, the page of jobs to cancel. Chunked queries are collapsed; `--limit` and `--dry-run`
are the choice of any subset. The synthetic `sync_event` of its jobs is left out.

**`SyncRuns` / `SkipPagedImport`.** `feed` holds the latest modification of each record, in modification order
(the `$orderby`); timestamps are coarser than that order, so that several rows share one. A run holds its filter
(`since`), position, page, greatest timestamp written (`hwm`, 0 for none) and the stamp for an empty run
(`fallback`). Only successful events are kept: others have no mark and no reader. `SkipPagedImport` adds
`nextIdx`, `boundary` and the workers of `paginateConcurrentInit`; a worker takes an index and loads the boundary in two
steps, as the two atomics do.

**`ChildLinks`.** `raw` is what has been given an id of `raw_output`, of all resources in the order of the ids, and `committed` the ids that are in
the table: `MintIds` gives a page its ids (`bulkInsertChunk`), `SavePage` commits it without what others had saved (`ON CONFLICT DO
NOTHING`), `DropPage` loses it, and `minted[p]` is the page in between. Two history variables: `projected`, the ids whose
projection was committed, and `apart`, whether no two processes were ever saving rows of one resource at once. `cursor`
and `lock` are per resource, `store` holds the typed rows and `link` is `parent_listing_key`. `run[p]` is the chain of passes a process is in (`runProcessorPasses`): the
resources still to come, whether the last of it finalizes, the open chunk's rows, and what that chunk's transaction has read: `seen`, the
listings that existed (`bulkExistingParentKeys`), and `unlinked`, whether the child's row had no link. `IsChunk` says which rows a transaction may take: the
next ones after the cursor, each key once, up to `commitBatchSize`; a single row is the per-record path, more are the bulk
path. `AfterPass` sets the links one table at a time, each in a statement of its own.
Passes read and write through `RecordLifecycle`, so a child is inserted, updated, skipped or
tombstoned by the same decision as everything else.

**`PipelinedImport`.** `imp` holds the two goroutines of `fetchProcessAndEnqueuePipelined`. `producer` is fetching a page
(with the two budgets of `FetchPage`), saving it, sending the signal, closing the channel or returning;
`consumer` ranges over the channel, drains, or does the last chain with the relink.
`signal` and `closed` are the channel, `broken` is an error the producer is about to return, `cancelled` the error group's
context. A started import may fail or die and be started again over what is saved. A daemon mints and saves a page of
its delta (`fetched[d]` counts them; one that fails is found again) and runs its chain at every tick. `alone` is a history variable: no other process has run Property passes since the import started.

## 3. Runs and bounds

| Run | Shows | Bounds |
|---|---|---|
| `projection` | `NoRowSkipped`, `StoreConsistent`, `NewestWins`, `AuditTrailKept`, `ReplaysAreIdle` with a pass and a reprocess at once, over a listing that is deleted and comes back; `SequentialProjection` is implemented under resets too | 2 keys, 3 ids, pages of 2, batches of 3, chunks of 2, 1 abort |
| `projection_refines` | the chunked pass implements `SequentialProjection`, poison row and repeated key included; `SavedRowsGetProjected` under fairness | 2 keys, 4 ids, chunks of 3, 1 abort |
| `two_fetchers` | a finding: with two ingesters a row is skipped | 2 ingesters, 3 ids |
| `attachments` | seven properties of the job table, its links and its storage with two workers and one enqueuer | 1 image with 2 revisions, 2 jobs, 2 attempts, 1 lease that runs out under a live worker, 1 abort |
| `attachments_live` | `JobsFinish`: one daemon, one worker that may die; the refinement of `JobQueue` | 1 image with 2 revisions, 2 jobs, 1 abort, 1 lease that runs out under the live worker |
| `shared_photo` | a finding: `LinkedObjectsExist`, which `attachments` finds true of one image, fails | 2 images with the same bytes |
| `backfill` | `BackfillAddsOnce`: warm, request, sync and worker at once | 1 image, 3 jobs, 1 request |
| `warm_keep` | a finding about `warm --exclusive` | 2 images, 2 jobs |
| `sync_runs` | `NoChangeLost` and, under fairness, `ChangesArrive`: an import, a daemon, a failed run | 2 records, 3 modifications, pages of 1, clock 3..4 |
| `skip_paged` | `ImportIsWhole`, `NoChangeLost`: two fetch workers over a feed at rest, next to a daemon | 2 records, 3 modifications, pages of 1; the workers are interchangeable (symmetry) |
| `skip_paged_changes` | a finding: the same over a feed that moves | 3 records, 4 modifications |
| `pipelined_import` | `FetchIsBounded`, `NoneSkipped`, `SuccessIsComplete`, `SuccessLinksRooms`, `NobodyWaitsInVain`; under fairness `ImportEnds`, `ParkedGetLinked`; the refinement of `ParkedLinks` | three deployments: an import and a Property daemon, no failure that upstream does not explain; an import that may fail or die once, beside a daemon of open houses that finds nothing; a Property daemon whose delta holds a bad listing and one of open houses, 1 failure. 2 listings, an edited room, an open house that moves, one that is taken off; 2 starts, transactions of 2 rows, 2 attempts, 1 429 in a row |

Why these are enough to be interesting: three ids over two keys with chunks of two give a chunk that commits, a second one that does
not, and a key in both; four ids with chunks of three give a key twice in a chunk and a poison row behind good
ones. Two jobs of one image are the old and the new revision; with two workers and one premature lease, a job
is held by two workers at once and both report. Two attempts separate "retry" from "failed for good". Records on equal
timestamps, a modification during a page and between runs, and a retry after a failure all fit into two clock
values beyond the import's start. A page size of one makes every record a page boundary. In `pipelined_import` the room comes on the
page with its first listing and is edited by a delta, one open house changes its listing after
it may have been parked, two pages let two signals fall together, one 429 and two attempts give both budgets a step
before they are used up, and a bad listing stops a pass. The import and the Property daemon save pages of the same resource: their
transactions overlap or not, a delta may be saved and projected between two pages of the import, and a page of the
import may commit behind a delta that was projected. There a row is skipped, as in `two_fetchers`; that is the case `apart` is
about, and without that premise the run refutes both `NoneSkipped` and `SuccessIsComplete`. An import that dies or
meets a database error next to a delta (there it fails of upstream's answers only), and all three processes at once are not run; the proofs cover any number of processes and failures.

Bounds that are not the code's: `MaxId`, `MaxJobs`, `MaxTime`, `MaxChanges` (growing tables and the clock);
`MaxAborts`, `MaxFailures` (crashes and errors); `MaxSlow` (leases that run out under a live worker);
`MaxStarts` (how often an import is started), `Deployments` (which processes are in use together; each has its own
`MaxFailures` and its own `Deltas`). Each appears as a guard of the steps it limits, `Deployments` in `Init`.

Assumptions about what is outside the code, made in `SyncRuns`: upstream and this process share one clock; a next link
continues behind the rows that were returned; a record does not change twice at one timestamp (the unique
index could not tell the two apart); no import runs for as long as the month that a first delta reaches
back. `Quiet` in `SkipPagedImport` says whether upstream rests during an import; both values are run. In `PipelinedImport`
each process has the pages it is going to find; a page brings parents and children in one transaction, and is one
insert chunk, so that its ids are consecutive.

## 4. Fairness

* `Projection`: the daemon's ticker (`cmd/sync.go`) calls a pass for ever (WF on `CallRunPass`), a pass runs
  to its end (WF on `RunPass`), waiters of an advisory lock are queued by Postgres (SF on `AcquireLock`), and a page that
  has its ids commits or is lost (WF on `CommitPage`). Upstream, fetching and reprocessing are not fair.
* `AttachmentJobs`: the worker's loop polls for ever and each `processJob` is bounded by timeouts (WF on `RunCycle`);
  an abandoned lease runs out (WF on `LeaseRunsOut`). Failures can use up the attempts, which ends a job too.
* `SyncRuns`: the ticker (WF on each daemon's `RunDelta`). Imports are run by hand and not fair.
* `PipelinedImport`: the two goroutines take their next step, whichever it is (WF), a page that has its ids commits or is lost (WF on
  `DaemonSaves`), a daemon's ticker starts its chain and a chain goes on (WF), and Postgres queues who waits for a resource's lock (SF on
  `AcquireLock`, as two processes contend for it). The code starts a chain only after its delta's fetch has succeeded, so WF on `Tick`
  assumes that fetches succeed again and again: `ParkedGetLinked` is a promise about a daemon that upstream answers. Nothing makes upstream answer well, an operator start a failed import again, or a daemon find a page.
* `Backfill`, `SkipPagedImport`: no fairness; only safety is checked.

## 5. Proofs

`RecordLifecycle_proofs` proves, for every set of keys and values, that the decision's writes keep a key
consistent, only append, and that the bulk path equals the per-record path for distinct keys.

`Projection_proofs` proves `TypeCorrect`, `StoreStaysConsistent` and `AuditTrailIsKept` from one inductive
invariant, `IInv`. `StoreConsistent` alone is not inductive: a commit replaces the store by a transaction's
view, so the view must be consistent as well (`WorkConsistent`) and differ from the committed store only by appended versions
(`WorkAddsToStore`). The latter needs that nobody else commits meanwhile, hence `LockHeld`, and what a pass
reads must be rows, hence `ReadsCommitted`. Nothing is assumed about how many ingesters, passes or
resets there are.

It goes on with a single ingester (`OneIngester`), which is needed: `two_fetchers` violates the first of these with two.
`CursorIsWatermark` is `NoRowSkipped`; the invariant adds `Frontier` (whatever was read or committed lies below
whatever is still to be committed) and `ReadInOrder` (a batch is everything committed up to its end, a chunk a prefix of
the batch). For `NewestIsShown` and `ReplaysChangeNothing`: the rows of a key come in the order of their revisions, and what is projected
is a prefix of them. Every projected row is `Accounted` for: it is older than the current version, or the entity agrees
with it; and the current version was written from a projected row. Both are kept by the store and by an open transaction's view
(`FeedOrder`, `PassOrder`). From the first the newest projected row is what the entity shows; and a replayed
row, accounted for already, is decided as a skip.

`SequentialProjection_proofs` proves the refinement, `ProjectionRefines`, again with one ingester. The mark is the greatest id ever
projected, since the cursor goes back at a reset: then what is processed again changes nothing (a stutter), and a commit that passes the
mark is one `Project` step. The abstract store is a recursive function of ids, the code's a transaction that takes several keys at once or one
row after the other. They meet in `Traces`: a function of ids that starts from a key's rows and shows how a set of rows changes them.
For every set there is one (`TraceExists`, by a least counterexample), and a row
behind the set extends it at its end (`TraceOneMore`). The invariant `WorkIsTraced` says that an open transaction's view of a key is where
the trace over the fresh rows it has applied ends; rows applied before change nothing, and a bulk chunk has one row per key.

`AttachmentJobs_proofs` proves `TypeCorrect`, `FinishedJobsStay`, `LinksAreEarned`, `AttemptsStayBounded` and
`AttemptsAreFailures` for any number of enqueuers, workers, images and jobs, with any number of leases that run
out under a working holder. Each step makes a row `Evolve`: the image stays, a finished row stays, a recorded failure
is what counts as an attempt. Three facts have to be carried along. `RowsInOrder` and `WantedAreSaved`: an insert writes
behind the rows there are and over none. `CountIsCurrent`: the count that `failJob` reads outside its guarded update
is still the row's for as long as the guard holds, because only the holder of a claim records failures.
`LinkingSucceeded`: between the guarded update and the second statement the job stays succeeded
with the worker's bytes, because a finished row is final. `HandsHoldRows`, `JobsAreSaved` and
`FeedInOrder` say that what a worker holds is a row, and its image has bytes to download. The invariant has two parts, `TableInv`
and `EarnedLinks`; the first does not rest on the second, because in `Backfill` only the first is left.

The same module proves `SucceedsWithCurrentBytes`, for any enqueuers and workers: a job is enqueued for a revision
that is saved here, hence published, and whatever a worker holds of a job shows that revision or a later one
(`BytesAreCurrent`). `OneJobEach` needs one enqueuer and payloads with timestamps: a revision that was not covered when it was looked up
is newer than every job that blocks it (`WantsAreNewer`), and until the insert jobs may leave the
blocking statuses and none comes to them. `OwnBytesAreServed` is the other side of `shared_photo`: if no two images have the same
bytes, `LinkedObjectsExist` holds. An attachment row then tells whose object there is, so that a worker which finds one may skip the upload.

`TableIsAQueue` is the refinement of `JobQueue`, again for any number of processes. Init maps to an empty queue, and each step of
`Next` to a step of the queue or a stutter (`NextQueues`, one lemma per action: `ClaimQueues`, `SucceedQueues`, ...). Three parts of the
invariants above carry it: what a worker reports shows the entry's revision or a later one
(`BytesAreCurrent`), the attempt it writes is the row's plus one (`CountIsCurrent`), and what it links is a succeeded entry's
(`LinkingSucceeded`). A report of a lost claim changes no entry. The mutant that returns a lapsed claim with an
attempt counted breaks it.

`Backfill_proofs` proves `BackfillTypes` and, with timestamped payloads, `BackfillIsIdempotent`, next to everything of `AttachmentJobs`.
`TableInv` survives `warm`; `EarnedLinks` does not, as `--exclusive` may cancel a job that a worker has finished in the meantime. The
idempotence counts: an image's jobs of theirs, and the processes that have found none and are about to insert one, are together at most one
more than the requests (`AddsOnce`). A process joins the count only if no job blocks, and then only the others that are about to insert are
in it. Without timestamps a sync inserts such jobs too, and as often as it likes.

`SyncRuns_proofs` proves `TypeCorrect` and `CursorLosesNothing` for any number of imports and daemons. The invariant says of each run
that what it has read lies before its position and what it has not lies behind, in time too; of the tables,
that there is a time `lo` (`CoveredFrom`) from which on everything older than any mark is saved, while what is older than `lo`
is some unfinished import's to bring. A first delta moves `lo` to where it reaches back; that no import outlasts
the month is what connects the two. The module also proves, for skip-paged imports, `SkipTypeCorrect` and, over a feed at rest,
`ImportBringsAll`: each row of the feed has a rank and each index its ranks; an index that was taken is saved or some worker's to save
(`NoPageForgotten`), indices differ (`OwnIndices`), a short page is the last (`ShortIsLast`, a counting lemma), so a
worker that turns back at the boundary leaves an empty page. `SkipPagedLosesNothing` puts the two together: the invariant of the cursor
holds of such an import too. Its workers read and save in no order, so of a run that skips nothing is said until it is done; then
everything in the feed is saved, and that is what a run about to stamp itself has to show (`LeavesNothing`), page by page or not.

`ChildLinks_proofs` proves `ChildTypeCorrect`. Its invariant carries what the refinement needs: what a
transaction saw exists still (`SeenExist`, listings are never removed), what the store shows comes from saved rows
(`StoreShowsHistory`), a linked child has a row (`LinkNeedsRow`), and a chain in hand is one that holds its lock (`ChainsMakeSense`).
It also proves `NothingSkipped`, which is `NoneSkipped` of any processes that run any chains and save any pages. That cursors pass
only what is projected is not inductive. While `apart` holds (`InOrder`): one process at a time is saving rows of a resource (`OneAtATime`); what
it has minted lies above every committed row of that resource (`MintedAbove`), so it lies above the cursor too, which stands at a committed row
(`CursorAtRow`); and an open transaction has taken the first of the unread rows, which new commits do not get between (`ChunkFirst`).

`PipelinedImport_proofs` proves `ImportTypeCorrect`, `FetchBounded`, `ImportSkipsNone`, `ImportComplete`, `RoomsGetLinked`, `WaitsHaveAnEnd` and `LinksRefine`. For `FetchBounded` the
requests so far are bounded by attempts and streak together (`FetchInBudget`). `ImportSkipsNone` is `NothingSkipped` of this system, whose steps are steps of `ChildLinks`. For `ImportComplete`: the pages before the producer's
are saved (`PagesSaved`), a producer that returned without an error is past the last page, and the consumer's last
chain starts only after it, so an empty read of each resource proves the cursor past every row of the import (`ConsumerDone`,
`ChainInHand`, `SuccessPassed`). None of this needs `apart`; that what the cursor has passed was projected does, and is `ImportSkipsNone`. `LinksRefine` is a simulation: every step is a step of `ParkedLinks` or a stutter.

`RoomsGetLinked` is `SuccessLinksRooms`: an import that no other Property pass ran beside leaves no room parked whose listing is there.
The consumer's last chain takes the listings first and relinks in their AfterPass; from then on none is parked (`LastChainLinks`). What it
projects of rooms afterwards cannot park one again: each transaction reads the listings and the child's link while nobody else writes
either (`ReadsAreCurrent`), so a room whose listing exists is linked as it is written. That a chain
goes through the resources in this order and relinks only after listings is `ChainsAreTails`. Daemons of open houses are free to run.

`WaitsHaveAnEnd` is `NobodyWaitsInVain`, the part of the absence of deadlock that is safety. Its invariant adds that a lock
is held in the middle of a pass of its own resource and only there (`LocksHeld`), so the holder
waits for no second lock and no circle forms; that the channel is closed before the producer returns (`ClosedFirst`), so the
consumer's `range` ends; and that a consumer which waits for its chain has one (`ChainIsThere`), ended or not. That
each of these ends is reached takes fairness and is `ImportEnds`, which the run checks.

Assumptions of the proofs are the `ASSUME`s of the modules, evaluated by TLC in every run, and the premises named above: one
ingester (`OneIngester`), one enqueuer, timestamped payloads, images with bytes of their own (`OwnBytes`), a feed at rest that is
shorter than `math.MaxInt64`. `NoneSkipped` and `SuccessIsComplete` carry theirs in their text: pages of a resource are saved one at
a time (`apart`). Where a premise is missing a run shows what happens: `two_fetchers` for `OneIngester` and `apart`,
`shared_photo`, `skip_paged_changes`. Two enqueuers at once can double a job, which no run repeats.

Every invariant and action property that a passing run checks, and all three refinements, are proved. Only model-checked is liveness
(`SavedRowsGetProjected`, `JobsFinish`, `ChangesArrive`, `ImportEnds`, `ParkedGetLinked`), which the proof system does not cover. The
equality of recursive definitions for all inputs would take an induction scheme, which the provers cannot instantiate; the proofs use least counterexamples instead.

## 6. Where code and text disagree

Each of these has a run that exhibits it; `PROJECT.json` quotes the lines.

* Two processes that fetch one resource can make a pass skip a row (`two_fetchers`).
* Two images with equal bytes share one object, and the endpoint looks for the second one elsewhere
  (`shared_photo`).
* `warm --exclusive` cancels the refresh of a stored image of a chosen listing (`warm_keep`).
* A skip-paged import of a feed that changes can leave a record out for good (`skip_paged_changes`).

One more shows in the code without a run: the comment at `cmd/warm.go:237-238` says that a claimed job is left alone, and
the update at `cmd/warm.go:299` cancels by id, whatever has happened to the job since it was read. `CancelPage` in
`Backfill` does what the code does.

## 7. Plan

1. Done: projection (modules, refinement, proofs), attachment jobs (module, proofs), backfill, sync runs and
   skip-paged import (modules, proofs), child links and the pipelined import (modules, refinement, proofs), page requests.
2. Next in the models: the loss of a pass's lock connection as a step of `Projection`, which takes transactions that see
   each other's rows; a reprocess with two parser builds; the order of resources in `init`; `--max-jobs`.
3. Proofs: done for every safety property that holds, for the refinements of `SequentialProjection`, `JobQueue` and
   `ParkedLinks`, and for what of deadlock is safety. Left: the refinement without `OneIngester` fails (`two_fetchers`); a weaker promise
   that several ingesters keep is not stated yet.

## 8. Not modelled

* Payload parsing beyond "parses or not", and column diffs and copies beyond "differs or not".
* In `ChildLinks`, which transaction waits for which row (Postgres ends such a circle by failing one: `PassFails`); a daemon
  finds each of its pages once, one resource stands for media, rooms and unit types, which ride along in the same way, and the lock's connection does not die alone.
* Of `reprocess`, `--from` an id ahead of the cursor (the operator asks for the gap), the audit event, and a parser that
  reads old rows differently.
* The sweep of stale running events: it moves rows between states without a mark or a reader. The order of resources in
  `init`: a loop that stops at the first error. `--max-jobs` and the idle log line of a worker.
* The size cap of the local store; the storage drivers (thin wrappers); Retry-After and the limiter's pace.
* GraphQL, search, geo and health (a read side without protocol state); tracing, progress, logging, configuration.
* Generated code: `ent/` and `graph/generated.go` are nearly all of the repository's lines. They are query builders without a
  protocol of their own; the models rely on the columns and unique indexes of `ent/schema`. That is why the
  lines that the models map to are a small share of all lines and most of those in `sync/`.

`PROJECT.json` gives the reason per component.
