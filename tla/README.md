# Formal models of koharu-suite

koharu-suite archives the posts of Telegram channels. A worker process polls the Bot API,
stores each update durably and turns it into canonical messages with immutable revisions in
PostgreSQL; exports of Telegram Desktop are imported into the same archive; a reconciliation
scan looks for what is missing or contradictory and lets the owner repair it; a media cache
downloads the originals of posts into a content-addressed local store, makes thumbnails of
them, and copies them to a bucket at the owner's command; HTTP servers publish messages, RSS
and media, an archive can be exported in a portable format, and an admin API and web interface
operate the whole.

This directory holds TLA+ models of the parts with protocol-like behaviour, the TLC
configurations that check them, and proofs for TLAPS. Everything is translated from the
source; where a document says something else, the code is modelled and the difference is
recorded as a finding (last section but one).

Paths below are relative to `apps/server/src` of the repository unless they start with `docs/`
or `packages/`.

## Contents

| Module | What it is |
| --- | --- |
| `TelegramIntake` | poller, durable inbox, worker loops, process start and stop |
| `TelegramIntakeProps` | its properties, and the refinement mapping to `OrderedInbox` |
| `OrderedInbox` | abstract: what the intake promises to the archive |
| `TelegramIntakeProofs` | its inductive invariant, the refinement of `OrderedInbox`, what the receipts tell |
| `MessageArchive`, `MessageArchiveProps` | write decision of the archive; Desktop imports in batches |
| `MessageArchiveProofs` | complete runs, that the archive catches up, and what a reader of it may rely on |
| `ScanSchedule` | the scheduled scan: one schedule row, leases, runners (also the abstract view of `Reconciliation`) |
| `ScanFindings` | the life of findings under snapshots and the advisory lock (likewise) |
| `Reconciliation` | the two composed, with requests of owners and operators |
| `ReconciliationProofs` | invariants of findings and schedule, and the theorems that lift them to the composition |
| `MediaCache`, `MediaCacheProps` | plans, staging, publication, settlement, recovery, eviction |
| `MediaLedgerProofs` | what is protected or in use stays; counters, leases, files nobody counts, and types |
| `Sums` | lemmas about sums over finite sets, for byte counters and totals |
| `Thumbnails` | the same protocol for thumbnails, which lease one row at a time |
| `StorageLocations` | copies of a blob on the volume and in the bucket; copy, prune, evict, reconcile |
| `StorageCommands`, `StorageProps` | the queue of commands and the workers that run those operations |
| `StorageProofs` | byte counts, bytes and copies of what is ready, protection, types |
| `MessageReading` | listings, search, feed and contexts read page by page while rows are written |
| `MediaReading` | a media download with fallback between copies, and the accesses it notes |
| `ReadSideProofs` | downloads for every object and range; thumbnails, their counters, leases and uncounted files |
| `PortableArchive` | the portable format: order, schemas, what a coherent archive is |
| `ArchiveValidation`, `ArchiveSamples` | the reader of the format, and the archives it is given |
| `ArchiveProofs` | what the reader calls clean is the archive of its records |
| `MC*` + `*.cfg` | instances for TLC |

A definition whose comment begins with "Mutant" is a variant with a plausible bug. No action
uses it; putting it in place of the definition after it makes TLC reject a property, which
shows that the property is sensitive to that line of the code (`PROJECT.json`, "mutants").

## Inventory of the system

### Modelled, wholly or partly

**Telegram intake** (`telegram/`, `runtime.ts`, `admin/operations.ts`).
State: `telegram_polling_state` (the cursor), `telegram_channel_allowlist`,
`telegram_ingest_tasks`, `telegram_poll_receipts`, `worker_runtime`, a session advisory lock;
in memory the poller's offset and each loop's transaction.
Operations: start (lock, getMe, claim the runtime row, bind the bot), poll, checkpoint, claim
and ingest a task, retry, block, skip, add or disable a channel, heartbeat, stop.
Interactions: Telegram forgets what a request's offset confirms; the lock is held on one
session and the writes happen on others; the worker writes to the archive in its task's
transaction. Hard: a lock lost between assertion and write, replies that get lost, crashes
between any two steps, several loops with `for update skip locked`.
Correct when: nothing confirmed is lost, each channel is applied in order, a block holds its
channel, receipts tell real gaps from false ones, everything is eventually decided.

**Message archive** (`messages/repository.ts`, `messages/source-evidence-coordination.ts`)
and **Telegram Desktop import** (`imports/`).
State: `messages`, `message_revisions`, `message_source_observations`, `import_runs`,
`import_run_observations`, `import_run_coverages`, an import session lock.
Operations: apply a Bot update; start an import, write a batch, declare coverage, close,
interrupt. Interactions: both sources take one transaction-level advisory lock per write.
Hard: updates and exports of one message arrive in any order, Telegram's clock has whole
seconds, imports are repeated, killed, or lose their lock while they write.
Correct when: the archive ends at the version Telegram shows, and a run that says it is
complete is.

**Reading: listings, search, RSS, visibility** (`messages/repository.ts`, `messages/search.ts`,
`messages/rss.ts`, `http/cursor.ts`, `admin/message-visibility-repository.ts`).
State: none but the rows; the reader holds a cursor. Operations: the pages of a channel, of
the latest messages, of a search by relevance or date, of the owner's list; a feed; a message
with its neighbours; hiding and showing. Interactions: rows are stamped by the transactions
that write them, in microseconds; a cursor carries a time in milliseconds.
Hard: every page is a request of its own, and rows come, move and go between them.
Correct when: no message that stays is passed over or shown twice in one version, no page of a
search shows what is newer than the search, each message has the media of its revision.

**Reconciliation: schedule, runner, findings, repairs** (`reconciliation/`).
State: the schedule row with lease owner, token and claimed run; `reconciliation_runs`;
`reconciliation_findings` with state and evidence version; an advisory lock.
Operations: claim, scan, persist, release, requested scan, batch apply, ignore, repair.
Interactions: reads what intake and imports write; driven by the worker's runner, the admin
API and the CLI. Hard: REPEATABLE READ snapshots older than the lock they wait for, leases
that expire under a live holder, decisions taken on a list read earlier.
Correct when: one run per claim and none left running, verdicts rest on evidence, nobody
decides on what they have not seen.

**Media cache: plans, blobs, local store** (`media-cache/ledger-repository.ts`, `worker.ts`,
`blob-store.ts`) and **eviction and maintenance** (`eviction-repository.ts`,
`maintenance-service.ts`).
State: `media_cache_post_plans`, `_objects`, `_blobs`, `_runtime` (byte counters),
protections; a directory of staging files per lease token and content-addressed final files.
Operations: claim, stage, publish, settle, complete, fail, recover, evict, restore, retry,
protect, reconcile orphans. Interactions: files are linked inside a database transaction that
may roll back; posts share contents. Hard: the file system keeps what the database forgets,
leases expire under slow runs, crashes between the two commits of a publication.
Correct when: a ready row has its file, counters are sums, nothing in use is deleted, every
claim ends.

**Thumbnails** (`media-cache/thumbnail-ledger-repository.ts`, `worker.ts`).
State: the thumbnail rows among `media_cache_objects` with a lease and a reservation of their
own, the counters and blobs they share with the plans. Operations: discover, claim, render,
publish, settle, complete, fail, recover, retry, evict. Hard: as for plans; also that the
original may be evicted at any time, and that eviction does not know of staged thumbnails.
Correct when: what is shown is counted, a file nobody counts is somebody's to take back,
reservations are sums.

**Storage locations** (`media-cache/storage-*.ts`) and the **command queue**
(`media-cache/command-queue.ts`, `recache-on-access.ts`).
State: `media_blob_locations` with a mutation lease per blob and backend,
`media_storage_backends` (bytes), beside the older `media_cache_blobs`, `_objects` and
`_runtime`; `media_cache_commands` with lease, token and attempts; the volume and the bucket.
Operations: copy to a backend (migrate all, migrate one, restore), prune a backend to a size,
evict one object, reconcile; enqueue, claim, renew, record, give up. Interactions: each
operation is a chain of transactions with backend calls in between, run under the token of a
command; the media worker publishes and settles at the same time; a reader who finds an
original evicted enqueues its return.
Hard: leases that end in the middle of a call, deletions that were begun and left, commands
that run twice, a bucket that is switched off, bytes that are lost or spoiled.
Correct when: bytes counted are bytes held, ready copies are there, no object loses its last
copy by two operations that each thought there was another, protected objects stay.

**Public media reader** (`media-cache/public-reader.ts`, `backend-aware-reader.ts`,
`http-range.ts`, `access-coalescer.ts`).
State: the open copy and what has been sent; accesses noted and not yet written.
Operations: resolve a range, open the first copy that opens, stream, fall back, cancel; flush
accesses every interval and at the stop. Hard: a copy that fails before, after or at the end of
its bytes, together with a reader who leaves during an open.
Correct when: one copy's bytes arrive from the start of the range, what ends well is whole,
nothing stays open, accesses reach the ledger that eviction consults.

**Portable archive format** (`packages/archive-format`).
State: of one reading. Operations: read entries, manifest, checksums, records and blobs of a
stream that is never held whole; check records handed in by a caller. Hard: a sound archive is
a property of the whole, checked by some forty local checks and maps that forget.
Correct when: clean archives are exactly the coherent ones.

### Not modelled

| Component | Why |
| --- | --- |
| Admin, auth and HTTP application | Single-statement changes and routing, sessions kept by better-auth. The requests that reach a modelled component are actions of it. |
| CLI, configuration, doctor | Argument and environment parsing, read-only diagnosis. |
| Schema and migrations | Tables appear as the variables of the modules that use them; migrations run once under the ORM. |
| Astro client (`packages/koharu-astro`) | An HTTP client with schema validation. Only its walk through the latest messages appears, as a reader of `MessageReading`. |
| Owner Desk (`apps/admin`) | A web interface over the admin API. |

`PROJECT.json` lists the source files of each component and, under "hazards", each place
where something hard to test can go wrong, with the properties that cover it.

## How the models correspond to the code

Common conventions. A database transaction that does nothing but SQL is one action; one that
calls into the file system or waits for a lock in the middle is several, with the lock as a
variable. A process's memory is lost in a crash, the database undoes open transactions and
drops session locks. An advisory lock or row lock that is taken and released within one
action needs no variable. Wall-clock time appears only as "the lease has expired", "the
backoff has elapsed", "the interval has passed", each an action of its own.

### TelegramIntake

`pc[p]` walks through `WorkerRuntime.startOnce` (`locked`, `authed`, `claimed`) and
`TelegramPoller.run` (`idle`, `asking`, `replied`, `recorded`, `fenced`, `checkpoint`). The
interval between `fenced` (lock asserted) and `checkpoint` (row lock of the polling state) is
the one in which a lost session lets a second poller in. `claim[w]` is the open transaction
of a worker loop; the savepoint in `processOne` makes success and failure one step each.
`LoseReply` is a request that reached Telegram and whose answer did not come back. Faults
(`Crash`, `Stop`, `LoseSession`, `WorkerAbort`, `ReplyBelowOffset`) are bounded by `MaxFaults`.

Update ids grow but have gaps (`absent`): an id may go to an update of a type that is not asked
for or to none, and Telegram may number anew after a week without updates. So a jump in the
receipts is the weak sign that docs/goals/G2.2-reconciliation-and-repair.md:71 and 80-82 say it
is. An id below the offset asked for (`ReplyBelowOffset`, a new numbering that fell back) is
refused by `checkpointBatch` (`inbox-repository.ts:90-92`) and ends the poller and its process; a
numbering that stays below the cursor stops the intake until somebody acts, which is left out.

- Importing the legacy cursor at first start is, for the state kept here, `AddChannel` on an
  empty allowlist; it is not separate.
- A process that overruns its 25 s stop deadline exits: `Crash`. A 4xx answer of Telegram
  ends the poller and with it the process: `Stop`.
- Left out: the runtime's start of the other parts (reconciliation runner, media cache),
  rerendering, the display of heartbeats.

### MessageArchive

Versions are numbers, and the fingerprint is the version as the source describes it: for
messages outside `Textual` the two sources produce different fingerprints for one version
(media metadata). `Resolve` is the write decision in the order of the code's branches. A
batch is one step because its transaction holds the advisory lock that every write takes;
the import lock is asserted on another session before and after it, and `LoseLock` may come
in between. `current_revision_number` is always the number of revisions. Left out: messages
of kinds that imports skip without an issue, media rows, channel rows, dry runs; every run
declares coverage of its whole file, which is the hardest case for the coverage property.
A message that cannot be written (`RecoverableTelegramDesktopItemWriteError`) has no action:
nothing in the code throws that error.

### ScanSchedule, ScanFindings, Reconciliation

A lease token is new for every claim and bound to one run, so the run stands for it.
`scanning` is the scan transaction, which locks the schedule row first. Two runners exist at
once only after a worker process has lost its poller session and a second one has started;
the model does not need the reason. A partially completed run counts as completed.

The scan's first statement waits for the advisory lock and thereby takes the REPEATABLE READ
snapshot before the lock is granted: `Begin` records what the transaction will see, `Acquire`
grants the lock, `missed` and `moved` collect what others commit in the meantime, and
`Conflict` is PostgreSQL's refusal to update such a row (40001). (docs/goals/G2.2, 5.7 says
that facts are read again under the lock; with this isolation level the second read sees the
old snapshot. `VerdictsAreFounded` holds all the same because of the conflict rule, so this
is a remark and not a finding.) The evidence behind a finding is abstracted to being there or
not; the scanner gives every evidence version 1, so an ignored finding is never opened again.
Left out: what a repair writes beside the finding, action rows, tombstones, lists, dry runs.

`Reconciliation` conjoins the steps of the two modules that are one transaction in the code
(`BeginScheduled`, `CommitScheduled`, ...) and leaves the other half unchanged elsewhere.

### MediaCache

`ledger` is the advisory lock when a transaction keeps it over file-system work: between
`BeginPublish` and `CommitPublish`, or `BeginFail` and `CommitFail`, or in a recovery.
`twin` holds the staging names that share an inode with the final file of their content: a
rolled-back settlement removes the final file exactly in that case, and the staging name in a
step of its own (`RemoveLinked`, `SettleRolledBack`). `live` holds the tokens
whose lease has not expired; `run[t]` is the memory of a run. Fault kinds: `crash` (of a run
or an evictor), `disk` (an I/O error in a file step), `slow` (a lease expires under a living
holder), `unlink` (it fails before acting), `sync` (the directory sync fails after the unlink).
`LeaseExpires` of a run that is gone is no fault. Left out: discovery of further posts,
policy decisions, tombstones and superseded revisions, partial downloads, the order of the
queue and the choice of eviction victims (any may be chosen). Thumbnails and the locations of
a blob have modules of their own.

### Thumbnails

The ledger and the advisory lock are those of `MediaCache`; a thumbnail leases its own row.
A token stands for one attempt: `maker[t]` is its memory, `stagedThumb[t]` its staging file,
`linkedBy` holds the tokens whose file is the final one. `BeginPublishing` to the commit holds
the lock over the link. Blobs are addressed by content, and two thumbnails may be rendered as the
same bytes (`RenderedAs`). The two unlinks of a cleanup are two steps. An eviction may unlink and
then fail to sync, and an evictor whose claim has expired may unlink later (`outlived`); every
error restores the blob as ready (`UndoEviction`). `CacheOriginal` and `EvictOriginal` are the
plan's life as far as a thumbnail sees it; a tombstoned or superseded message is an original
that is not there.

That a counted thumbnail has its file is therefore not claimed: the code does not ensure it. A
shared content may be taken back by another's rollback (as in `media_rollback`), an unlink whose
sync failed leaves a ready blob without a file, and so does a late evictor. What is claimed is the
other direction: a file that is not counted is the staging file of somebody who takes it back.

What the model shows beside the property: eviction (`eviction-repository.ts:204-213`) spares
the blobs of settling and recovering plans, and a committed thumbnail belongs to a plan that
is ready. It can lose its blob before it settles; then settlement, completion and each
recovery throw (`thumbnail-ledger-repository.ts:244`), its reservation of 1 MiB is not given
back, and since the worker takes the oldest expired lease (`worker-repository.ts:122-138`)
later thumbnails are not recovered either. `ThumbnailsAddUp` does not catch it: counters, leases
and reservations still agree. No document states the contrary, so this is a remark and a hazard,
not a finding.

### StorageLocations, StorageCommands

`loc` and `lease` are the location rows; a token is the worker that drew it together with what
it was drawn for (`by`). `blob`, `evictor`, `object`, `runtimeBytes` are the older ledger,
which some operations keep in step and others leave. `disk` is what a backend holds under the
blob's key, `tainted` the keys whose bytes were lost, spoiled, or deleted by a worker whose
claim had ended. `op[w]` is the operation worker `w` is in: a transaction, a call to a backend and
the failure of one are an action each, so that another worker, the media worker (`Publish`,
`Settle`), the owner (`AdminRetry`, `Protect`) or a fault can come between any two.
`UndoEviction`, `FailCopy` and `VerifySource` are the error paths. `ReconcileLedger` closes a pass
over the local blobs.

`StorageCommands` adds the rows of the queue. A command carries the token of its worker; a
worker checks it between the blobs of an operation (`Superseded`), renews it (an ended lease
is renewed too, as the code does) and records under it. `Crash` forgets the operation and
leaves the row; `ExpireCommand` lets another claim it, until `MaxAttempts` (100 in the code)
makes the next claim give it up.

Remarks, none of which contradicts a property checked here:
- a local prune with a healthy copy in the bucket keeps `media_cache_blobs` ready and takes
  its bytes off `media_cache_runtime`; restoring it to the volume returns early
  (`ledger-repository.ts:1367`), so that counter stays below the truth. `BackendLedgerAddsUp` is
  therefore stated for the backends' counters.
- a reconcile evicts a blob whose local file was pruned although the bucket has it, and sets a
  missing local location ready again when its repair is refused (protected or pinned), which
  is why `ReadyHasBytes` speaks of the bucket. docs/goals/G2.4-s3-compatible-storage.md
  describes both otherwise.
- a deletion that arrives after its claim was lost can take the bytes of the next holder's
  copy: the taint. `BackendLedgerAddsUp` and `ProtectionHolds` do not need the exception.

Left out: the prune the runtime runs by itself to the configured size (`runtime.ts:319-334`),
dry runs, refusals at enqueueing that change nothing, the S3 protocol.

### MessageReading

`rows` are messages with the time of their last change in ticks finer than the milliseconds of
a cursor. `ingest` is an open transaction: rows are stamped when it starts and seen when it
commits. `walk` is the reader: the listing asked for, its cursor, the page being put together
(`SelectPage`, then `AttachMedia` in a statement of its own) and, as a history, what was shown and
what was shown again in its place (`again`). The owner hides and shows messages at any time, whoever
reads what (`SetVisibility`).
Bad or foreign cursors are refused (`RefuseCursor`), answers get lost (`LosePage`). A match is a
score per revision; the search of one or two characters has its window and limit. The clocks
of server and database are taken to agree.

Remarks: a snapshot cut to a millisecond hides what was written in that millisecond before it;
a transaction that began before the snapshot and commits after it shows in a later page
(docs/goals/G2.5-search-and-rss.md:188-191 describes the snapshot more strictly). `NothingNewer`
states what does hold; `NothingIsPassedOver` speaks of messages that matched all the time, and
`NothingComesAgain` of one place in the order, since an edit may move a search hit down.

### MediaReading

A step is what one event does before the process waits again: a file or a bucket answering,
the reader leaving, a timer. `held` are the handles and bodies that are open, `sent` the units
delivered with the copy each came from. `SpoilCopy` and `DelistCopy` are what eviction and
accidents do to copies. A range header is a pair of bounds or blanks, or malformed; every pair
up to the object's size is asked for. A bound is a value and whether it takes more than sixteen
digits (`TooLong`): such a bound is not read and answered by 416 even if the range would do
(`http-range.ts:53-58`, and media-cache-http-range.test.ts:24). Accesses are noted per copy and written once per interval;
a flush that fails, or whose answer is lost, is repeated. Those noted during the closing flush
of a process are lost with it, which is outside the model.

### PortableArchive, ArchiveValidation, ArchiveSamples

An archive is a sequence of elements, as the container reader delivers them: files, zero
blocks, or a fault of the framing. A hash is the content itself. `IsContainer` gives the shapes
that parsing tells apart: records of the six families or what is none, lists, manifests, blobs;
that the archives read have them is `ArchivesAssumption`. Order is by `Arrange`: the i-th element
is the one that fewer than i come before, which needs no recursion and can be reasoned about.
A shard holds so many records and so many bytes, an archive so many entries less the manifest and
the checksum file; the size of a body is the number of its lines or units.
`ArchiveValidation` is the reader event by event with its accumulator of running maps, in both
modes (a container, or records of a caller). A caller hands in its records and, apart from them, the
lengths and hashes of the entries it read; nothing in `validateArchiveModel` can tell that they
belong together. The model takes the caller's word for it, and in this mode a clean verdict is worth
no more than that word. `Coherent` in `PortableArchive` is stated apart from it: the archive is
the one the writer's definitions make of the records in it, and the records refer to each
other as the schemas say. `ArchiveSamples` builds what the writer makes of every subset of a
universe of records and of oddities, and sound archives with one thing changed, raw or with
manifest and checksums made to agree again. Every check that no other one implies is exercised
by some sample. Limits on compressed bytes and on the ratio, and time-outs, appear as `Interrupt`
and `FramingFails`.

## The runs

State counts and times are those of TLC with two workers on a small machine.

| Run | Question and bounds | States |
| --- | --- | --- |
| `intake_fencing` | Two processes with a loop each, one fault (a crash, stop, lost session, failed loop or reply below the offset), two ids of one channel, each of which may be no update, the first failure of a task blocks it, a cursor of none or one before. Two processes and one lost session or crash are the smallest instance in which two pollers hold responses at once; two updates allow one to be confirmed while the other is in flight, and to be of one channel for the order. Invariants, and refinement of `OrderedInbox`. | 1.8 M, 89 s |
| `intake_live` | One process, one loop, two channels, two attempts, one fault, `FairSpec`: a task between failure and retry, and a blocked channel beside a free one. | 259 K, 148 s |
| `archive_imports` | One export imported twice in batches of one message: a message with two edits in one second that the sources describe differently, one they describe alike, one unreadable; any interruption, crash and lost lock at any time (no bound on faults: the world is finite). Two runs of one file are needed for replayed observations. | 2.6 M, 80 s |
| `archive_stale_edit` | Violation, see Findings. | |
| `reconcile` | Two workers and an operator, two scan runs, one finding with evidence versions to 2 so that it can return once, one request, one fault, `FairSpec`. Two workers with a run each let a lease be taken over while its holder lives; the operator's transaction crosses the scan's. | 353 K, 123 s |
| `media_ledger` | Two posts of distinct contents, two runs, one evictor, a protected object, two faults of crash, slow and disk. | 1.06 M, 49 s |
| `media_album` | An album of two originals near the post limit and a post sharing one of its contents; the first original's source may deliver either of two contents; two runs, one of them the Desktop command, so that a crashed run is recovered by a living one; an evictor; one fault of crash, disk, sync or unlink; a failed post is blocked until the owner asks for a retry (`media_ledger` has two attempts). Byte sizes 1 and 2 with limits 3 and 5 make the post limit, the physical limit and restoration by a shared content all reachable. | 303 K, 19 s |
| `media_settles` | Two posts, three tokens (one to crash, one to recover, one spare), two crashes, `FairSpec`. | 11 K, 20 s |
| `media_rollback`, `media_stuck` | Violations, see Findings. | |
| `storage` | One blob mirrored on volume and bucket, two workers, any two of eight requests (one of each kind, two of those that name a backend), two attempts, two faults of six kinds. Two commands are enough for every pair of operations to overlap, a crash and its repetition for each to run again beside the other. | 880 K, 46 s |
| `read_side` | Four scenes that share no state; a behaviour plays one. *Archives*: well over a thousand archives, each read as a container and some as records. *Listings*: three messages of two channels, two published at one time, eleven listings, pages of one and two, two writing transactions, four ticks of two to the millisecond. *Media*: two units, two backends, every range and a bound too long to be read, one fault. *Thumbnails*: two thumbnails of one content, two tokens, one attempt, room for one original and its thumbnail beside another's; with two tokens one may roll back, or be recovered, while the other publishes the same bytes. | 1.7 M, 165 s |

`media_ledger` gives distinct contents because with shared ones `ReadyHasFile` fails
(`media_rollback`). It leaves out `sync` and `unlink`: an error after the unlink is answered
by a restoration that marks a missing file ready, which the documents do not exclude (a later
reconcile reports it); the hazard list keeps it.

`CHECK_DEADLOCK FALSE` stands where the system may rest because the bounded world is used up:
in the intake all updates are decided or blocked, in the archive everything is posted and
imported, in `media_settles` and `media_stuck` every plan is settled and nobody evicts, in
`storage` both commands are done, in `read_side` an archive has been read. The other runs check
deadlock.

`RunSymmetry` and `WorkerSymmetry` are used where runs or workers differ only in their name and
no liveness is checked.

Larger instances that passed and are not kept for their time: two units and two faults of a
download (2.1 M states); four messages of the listings
alone (0.6 M); storage from scratch with one and two faults, with two blobs and tight
capacities, and with three commands; that every command ends, under `FairSpec` of
`StorageCommands`.

## What the runs show

*Intake.* `NothingConfirmedIsLost`: what a request's offset lets Telegram forget is durable.
`ReceiptsAddUp`: receipts chain and account for the tasks. `LossesShowAsJumps`: no loss hides, since
an update the cursor passed unrecorded lies in a jump or before the first request; and the intake
makes no jump of its own, since what lies in one was gone before it was asked for or never was. A
jump alone does not prove a loss. `ChannelOrder`, `OneClaimPerChannel`,
`BlockedHoldsTheChannel`: what `for update skip locked` with the not-exists subquery
achieves. `ImplementsOrderedInbox`: under all of start, stop, crash and takeover the intake is
an inbox that takes up updates in order, decides each once, and loses one only when Telegram
gave it up first. `EveryUpdateIsRecorded`, `EveryTaskIsDecided`: it also gets there.

*Archive.* `ArchiveCatchesUp`: if no update of a message was lost, the archive ends with
Telegram's version in spite of any imports. `CompletedRunsAreComplete`: a completed or covering run
links a non-conflicting observation of every message in its file; the scan relies on that when
it takes unlinked messages in a covered range for absent.

*Reconciliation.* `RunningIsClaimed`, `ScanOwnsItsClaim`, `RunsEnd`: leases, takeovers and
releases never leave two owners, nor a run that nobody ends. `VerdictsAreFounded`: old snapshots do
not overturn newer decisions. `IgnoredAsSeen`: the version check on the owner's decision
tells episodes apart. `GoneIsResolved`: conflicts only delay.

*Media.* `LedgerAddsUp`, `LeasesAreComplete`: the counters moved by differences stay sums.
`ReadyHasFile`, `UncountedFilesAreOwned`, `BlobsOutliveTheirUse`: database and file system do
not drift apart beyond what an owner or a recovery will clean. `ProtectedIsNotDeleted`,
`BindingIsForLife`. `CommittedPlansGetReady`, `ClaimsEnd`: crashes do not strand a plan.
`ThumbnailsAddUp`: counters, reservations and uncounted files of thumbnails, whose originals come
and go and whose contents may be shared.

*Storage.* `BackendLedgerAddsUp`: the bytes counted for a backend are those it holds, whatever
overlaps, fails or runs twice. `ReadyHasBytes`: no reader is sent to a copy that was never
finished. `ReadyObjectsHaveACopy`: two operations on two backends never take both copies.
`ProtectionHolds`: not even a deletion left by a crash touches a protected object.

*Reading.* `WalksAreSound`: no message that stays is passed over or comes twice, page after page.
`DownloadsAreSound`: the bytes that arrive are the bytes asked for, of one copy, a range is refused
only for what it asks or for a bound too long, and nothing stays open or is forgotten. `CleanIsCoherent`, `CoherentIsClean`: the validator accepts
the coherent archives and, unless it is interrupted or meets a limit, no others are refused.

## Fairness

- *Intake* (`Fairness` in `TelegramIntake`). Compose restarts a process that ends, so some
  process takes a free lock; a running process's poller, shutdown and loops go on (weak
  fairness each). Claims are strongly fair per task: a failing task comes back after a
  backoff of a second at least while an idle loop looks every 100 ms, so it cannot take every
  turn. Telegram, the administrator and the faults owe nothing.
- *Reconciliation*. Weak fairness of each process's loop, of each request, of the expiry of dead
  processes' leases and of the interval. Evidence, owners, stops and faults owe nothing.
- *Media*. Strong fairness of a run's and a recovery's steps: PostgreSQL grants the advisory
  lock in the order of requests, so a run that keeps asking gets it although others take it in
  between, and the worker looks for expired plans in every pass. Leases of runs that are gone
  expire. `ReconcileOrphan` is fair only to return tokens to the bounded pool, since real
  tokens never run out. Claims, evictions and retries owe nothing.

The other specifications are checked for safety only.

## Proofs

TLAPS checks these for every value of the constants. The assumptions are the `ASSUME`s of the
modules, which TLC evaluates in the runs: `BoundAssumption`, `ChannelAssumption`, `ProcAssumption`
(intake); `ScanAssumption`, `FindingAssumption`, `ReconciliationAssumption`; `ObjectAssumption`,
`RunAssumption`, `ContentAssumption`, `LimitAssumption` (media cache); and those of
`MessageArchive`, `MessageReading`, `StorageLocations`, `StorageCommands`, `MediaReading`,
`Thumbnails`, `PortableArchive` and `ArchiveValidation`. They say that bounds are numbers, functions have their domains, placeholders are not
members of the sets they stand outside of, sizes and limits are positive, that what is summed or listed (plans, objects, blobs, thumbnails, messages) is finite, and
that what is read as an archive has the shape of one (`IsContainer`), broken or not.

**Intake** (`TelegramIntakeProofs`). The properties are not inductive: that a confirmed update
is recorded depends on the relation of every in-flight response to the cursor. `IInv` adds

- `RowLock`: the row lock is held exactly in `checkpoint`, by a poller whose offset equals the
  cursor, and no offset is ever ahead of the cursor;
- `BatchFollowsCursor`, `AcceptedInBatch`: a response that can still be checkpointed begins at
  the cursor, or what lies between has expired; responses to older offsets cannot be;
- `CursorDivides`: all below the cursor is recorded or expired, nothing above it has a task,
  and Telegram has let go only of what is below it or expired;
- `AttemptsLeft`, `ClaimsAreHeads`, `DecidedAreHeads`: claims and outcomes are at the head of
  their channel, a claimed task is pending and claimed once.

Frame lemmas list the actions that touch the tasks, the poller and the cursor; then there is
one lemma per conjunct, split by action. Theorems: `TypeCorrect`, `ConfirmedIsRecorded`,
`InChannelOrder`, `ClaimsAreExclusive`, `BlockStaysInPlace` (an action property: an outcome
comes from a claim or an administrator's skip, and both are at the head).

Its second part builds on `IInv`. For `ImplementsInbox` it shows what each action does to
the fates the mapping derives (`FateCases`), and then that a checkpoint takes up exactly the
updates between the old and the new cursor, an outcome is decided at the head of its channel,
and every other step leaves the inbox as it is. `ReceiptsAccount` and `LossesAreShown` share the
invariant `Accounts`, the two properties with `Chained` (the cursor is where a receipt left it, or
the first one): a new receipt begins at the cursor, so it is chained to another, overlaps none, and
what lies in its jump has expired or never was by `BatchFollowsCursor`.

**Archive** (`MessageArchiveProofs`). Three invariants, each with one lemma per action.
`Sound` = `TypeOK` and that an import works on messages of a file that was taken. `RunsOK`: each
readable message of a run's file is still to do, in the batch being written, or linked (and
agreed with, while the run is clean), a clean run has no unreadable message, and it declares
coverage when nothing is left to do. It survives the loss of the lock because observations and links only grow. `CatchingUp`,
per message: no observation, revision or export is newer than what Telegram shows, and once
the last update has been applied the current revision is its version. The step from there is
that edit times grow with versions (`ExportsAreNotNewer`), so the write decision answers every
export with matched, stale or conflict.

**Reading the archive** (the second half of `MessageArchiveProofs`). `WalksAreSound` speaks of what
was shown, so `ReadingInv` says how the page in the reader's hands and the cursor relate to it, for
every state of the rows. `ListOK`: the cursor was made for a listing of the same filter and moment
as the one read now; what was shown does not lie after it, the page being read does, and the next
cursor is the page's last place. `ContextOK`: along neighbours, the cursor stands at a message, all
that was shown is before it and the opened page is that message. `EntriesOK`: an entry of a message
that was not written since bears its revision, and a place is never shown twice. `PassedOK`: every
unwritten match that lies before the place reached is among what was shown or on the page. A write
disturbs one message, which leaves `steady` (`OneIsWritten`); every other row keeps its place in
every listing (`UnwrittenStay`). The rest is about order: `Ahead` is a strict total order of places
(score, time, id, backwards towards newer messages), `FirstRows` takes with a row all before it
(`FirstComeFirst`), all rows if they fit (`AllAreTaken`), as many as the limit if they do not
(`LimitIsReached`), which is why a feed that is not full has everything. `AlikeRead`: two listings
that take each other's cursors read the same rows in the same order, so page size and `short` may
change between pages. Theorem: `WalksHold`.

**Reconciliation** (`ReconciliationProofs`). The first part proves two action properties of
`FindingsSpec`. `FindingsInv` = `Shape` (types, versions unbounded) + `History` (what an open
transaction saw of a finding nobody has touched since is on record for that finding, and it saw
its present state) + `Views` (versions only grow, so a version read equal to that of an open
finding was read in this episode). `History` is what makes old snapshots harmless, and it is
exactly the conflict rule that preserves it. The second part proves `ScheduleInv` (types,
`HasToken`, `OneScan`, `ScanOwnsItsClaim`, `RunningIsClaimed`) for `ScheduleSpec`, then that every
step of the composition is a step or a stutter of each part (`ImplementsSchedule`,
`ImplementsFindings`), and so lifts the parts' theorems to the composed `Spec`:
`RunningRunsAreClaimed`, `ScansOwnTheirClaims`, `VerdictsFounded`, `IgnoredSeen`. The last part
(`ReconciliationTypes`) bounds the versions: evidence appears only below the bound, but a scan may
reopen a finding long after its snapshot, so `Room` speaks of the evidence there is, of that in each
open snapshot, and of that which came after it.

**Media cache** (`MediaLedgerProofs`). Its first part has `IInv` = `Books` (types,
`BlobsOutliveTheirUse`, `ProtectedIsNotDeleted`, and `InUse`: an object that has yet to settle
belongs to a plan that eviction spares) + `RunsOK` + `LockOK`. `LockOK` is what a run may rely on:
who holds the advisory lock across file work finds its plan as it was, and a recovery's plan still
without a living lease. `BindingIsForLife` follows, since only a publication binds and it holds
the lock from reading what is bound to binding.

The counters are a different matter: each transaction adds a difference it computed, and the sum
stays right only if the rows it changes are those it computed from. `LInv` therefore adds to
`LedgerAddsUp` and the types:

- `Leases`: a plan has a holder and a reservation exactly while it is leased, and its active
  objects are then all in the one state of its phase (this is more than `LeasesAreComplete`);
- `Work`: per step of a run, which objects its memory names. While the lease is its own they are
  the plan's objects in `downloading`, each staged, set apart or still to do; in a publication
  they are all of them; a settling run names objects in `staging` whose content it staged itself
  unless it has lost the plan;
- `NamesOK` and `UncountedFilesAreOwned`: a shared inode has a staging name, an evictor that removed
  a file has not seen it come back, and every file no counter counts is somebody's to remove.

There are lemmas for what a step of one run does to the work of the others (`RowsAloneOthers`,
`RowsChangeOthers`): a row changes under a run only after its lease has ended, and then `Work`
promises nothing but what it does without a lease. Three theorems come from `IInv`, four from `LInv`.

`ReadyHasFile` is model-checked only (`media_ledger`): it needs distinct contents, working unlinks
and syncs, and evictors that do not outlive a later claim, none of which the code ensures.

**Sums.** `SumFunctionOnSet` of the community modules is a fold. `Sums` proves what it computes on
finite sets (`SumAdd`, `SumRemove`, `SumExcept`, `SumUnion`). No induction theorem is needed: a
least counterexample among the subsets of a finite set exists because strict inclusion is well
founded there (`SmallestSubset`), and without it there is none.

**Storage** (`StorageProofs`). `IInv` has four parts.

- `KeysOK` = `Consistent` (the shape of locations and operations, and `ProtectionHolds`, inductive
  with it) + `QueueOK` + `ReadyHasBytes` + `SettlingHasBytes`: while a worker is between its copy and
  the transaction that settles it under a claim it still has, the bytes are there. Two step relations
  carry it. `Kept(k)`: only a deletion in hand takes good bytes, only a settled copy makes a location
  ready, and a claim to copy stays its worker's until another begins to copy. `GoOn`: a worker
  comes to settle only from its copy.
- `CountsOK`: the counts of the backends are sums. `StepEffects` lists which steps move a location at
  all; each of them moves one, and the count by its size (`OneChanges`, `SetCounts`).
- `CopiesOK`: ready objects and published blobs have a copy that a ledger counts (`CopiesLeft`);
  a published blob has not been claimed by anyone (`PinnedFresh`), a ready object's blob is ready
  or being deleted (`ReadyBacked`). It is stated for one blob over six values (`Fits`), and each
  operation is shown to keep that. A prune and an eviction cannot both believe in the other's copy,
  because each is judged on rows that the one transaction reads and writes.
- `RestOK`: the older counter, the faults and the rows of the queue.

Theorems: `BackendCountsAddUp`, `ReadyObjectsKeepACopy`, `ReadyCopiesHaveBytes`,
`ProtectedBlobsStay`, `StorageTypes`.

**Media downloads** (`ReadSideProofs`). `ExchangeInv`: what is open is what is read
(`HeldIsRead`), what was sent came from one copy (`OneSource`) and is the beginning of the range
(`SentIsRange`), and the status tells how it ended (`Outcome`). `RangesResolve` shows that the
arithmetic of `http-range.ts` names exactly the units a header asks for, whatever the size.
`AccessInv`: an access is written or waiting, also across a flush that fails.

**Thumbnails** (the second half of `ReadSideProofs`). `ThumbnailsAddUp` is inductive with more said
in `ThumbInv`. `ThumbOK`, of a row: it has a token exactly while it is leased, its content is the one
it is rendered as, and that is counted when the row is shown, and while the file it was published
with still has its staging name. `TokenOK`, of a row and
its token: the token stages that row's file or none, and once the row is published its maker
settles, completes or is gone. `MakerOK`, of a worker: who is in a step that works on files under the
lock has the lock and the row it read, who links does so while the blob is not being deleted, a
token under recovery has no living lease. `LinksOK`: a file a token linked has its final name, and no
two tokens made one file, so a cleanup that compares inodes takes back one file and no other token's.
Nothing is said of the file of what is counted (see Thumbnails, above). The steps are split by what
they touch (`Starting`, `Filing`, `Trimming`, `Turning`, `Booking`, `Elsewhere`), and each class has a lemma on
what it leaves alone. The counters use `Sums`.

**Archive format** (`ArchiveProofs`). `CleanIsCoherent` is about the end of a reading, so `ReadingInv`
says what is known on the way there, as long as no issue has been noted: there is a set S of records
such that

- `Known` and `InOrder`: the running maps say of S what was checked so far. A map that keeps only the
  last position, number or key is enough because records come in order, so all of S that
  belongs to one message or revision is numbered without a gap up to that one (`Accepted`);
- `Placement`: the record of rank k in its family stands where the manifest plans the k-th, in the
  shards that come one after another;
- `RecordsRead`: S is what the lines up to here hold, and no line twice.

`TarInv` adds the container: which stage the entries are at, what was hashed (`PayloadInv`); `ModelInv`
the same for a caller's records, which come in the order of their places (`EnvelopesAre`). At the end
`finish` adds its totals, and `EndCoherent` puts together that each shard is a slice of the ordered
records (`EndShards`, `EndSlices`), the entries are the payload of S (`EndPayload`), the manifest is the
one written for S (`EndManifestIs`), the container is the two packed (`EndPack`), the lines hold no other
records (`EndRecords`) and S is sound (`EndSound`). S is then the witness of `Coherent`. `Arranged` and
`ArrangeIs` say what sorting by distinct keys gives: the one ascending sequence of the set. Nothing is
assumed of the containers but their shape: entries may be any, in any order and number, with any
manifest. Theorem: `CleanIsWritten`.

**Only model-checked.** Liveness and fairness (`ENABLED` is out of the prover's reach), the violations,
`ReadyHasFile`, and `CoherentIsClean`, the converse of the last theorem: it
says of each of the checks that it does not refuse what is sound, and is left to the samples.

## Findings

Three runs end in a violation: the code does something other than a document says.

1. `media_rollback` / `ReadyHasFile`. Two posts have the same content. The first links the
   final file, its transaction fails; before its cleanup the second finds the file there,
   commits on it. The cleanup compares inodes only and deletes the file of a ready blob
   (`media-cache/blob-store.ts:313`). docs/goals/G2.3-local-media-cache.md:641 says that in
   either order the final file is not lost.
2. `media_stuck` / `RecoveringEnds`. A failed recovery sets a committed plan to `recovering`;
   the next, successful one replaces the token but not the state, and `completeSettlement`
   accepts only `settling`. The plan is recovered for ever
   (`media-cache/ledger-repository.ts:1233`). The document's state diagram (line 169) leads
   from recovering to settling.
3. `archive_stale_edit` / `CurrentIsNewest`. A delayed Bot edit, applied after an import
   brought a newer version, becomes current (`messages/repository.ts:556`); if the update of
   the newer version is lost, it stays. docs/goals/G2.1-telegram-desktop-import.md:344 says
   that logical time decides. While no update is lost the archive still catches up
   (`ArchiveCatchesUp`).

## Plan

Written in this order, the most consequential protocol first: `TelegramIntake`,
`OrderedInbox`, its proofs; `MediaCache`; `MessageArchive`; `ScanSchedule`, `ScanFindings`,
`Reconciliation`, their proofs; `StorageLocations` with `StorageCommands`; `Thumbnails`;
`MediaReading`, `MessageReading`; the archive format; the proofs about receipts and the inbox,
about imports, storage and downloads; about the media cache, its counters and those of storage;
about thumbnails and readers; about the archive format.

What is left:

1. `MediaCache` discovery, superseded revisions, partial downloads and the order of the queue,
   with thumbnails in the same ledger and a liveness property for both.
2. Pure algorithms against reference definitions: the merging of declared coverage
   (`imports/coverage.ts`), policy decisions (`media-cache/policy.ts`).
3. What a repair of a finding writes, and tombstones in `MessageArchive`.
4. The bootstrap of the single owner.
5. A proof of `CoherentIsClean`, along the same invariant with the checks read the other way.
