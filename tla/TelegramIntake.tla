--------------------------- MODULE TelegramIntake ---------------------------
(***************************************************************************)
(* The intake of Telegram channel posts: one poller at a time, held apart  *)
(* by a PostgreSQL session lock, copies updates from Telegram into a       *)
(* durable task table, and worker loops drain that table, each channel in  *)
(* update order (apps/server/src/telegram, runtime.ts, admin/operations.ts).*)
(*                                                                         *)
(* The environment is part of the model: Telegram numbers its updates with *)
(* gaps, forgets whatever a request's offset confirms and whatever its     *)
(* retention expires, and may answer with ids below the offset; a process  *)
(* may crash, be asked to stop, or lose the database session that holds    *)
(* its lock while it runs on.                                              *)
(***************************************************************************)
EXTENDS Integers, FiniteSets

CONSTANTS
    MaxUpdate,     \* bound: update ids are 1 .. MaxUpdate
    Channels,      \* Telegram channels
    ChannelOf,     \* the channel each update was posted to
    Procs,         \* worker processes that may be started on this database
    NoProc,        \* "no process", in a lock or in the heartbeat row
    Workers,       \* loops of the worker pools, of all processes
    ProcOf,        \* the process each loop belongs to
    MaxAttempts,   \* failures after which a task is blocked (10 in the code)
    BatchLimit,    \* updates in one getUpdates response (100 in the code)
    MaxFaults,     \* bound: crashes, stops, lost sessions, fatal errors, replies below the offset
    FirstCursors   \* cursors to start from: 0, 1 or either

Updates == 1 .. MaxUpdate

\* Offset 0 stands for the null cursor of a bot that was never polled, 1 for that of one whose
\* updates up to the first one here were.
Offsets == 0 .. MaxUpdate + 1

ASSUME BoundAssumption ==
    /\ MaxUpdate \in Nat \ {0}
    /\ MaxAttempts \in Nat \ {0}
    /\ BatchLimit \in Nat \ {0}
    /\ MaxFaults \in Nat
ASSUME CursorAssumption == FirstCursors \subseteq {0, 1}
ASSUME ChannelAssumption == ChannelOf \in [Updates -> Channels]
ASSUME ProcAssumption == NoProc \notin Procs /\ ProcOf \in [Workers -> Procs]

VARIABLES
    (* Telegram *)
    published,     \* the highest update id emitted so far
    oldest,        \* the lowest update id Telegram still holds
    expired,       \* updates retention removed before any request confirmed them
    absent,        \* ids no update of this intake ever had
    (* the database *)
    cursor,        \* telegram_polling_state.next_update_id
    allow,         \* telegram_channel_allowlist, per channel
    task,          \* telegram_ingest_tasks, per update
    attempts,      \* attempt_count of a task
    due,           \* available_at <= now()
    ignored,       \* history: updates a checkpoint passed without a task
    receipts,      \* telegram_poll_receipts
    locker,        \* holder of the poller's session advisory lock
    cursorLock,    \* holder of the row lock on telegram_polling_state
    runtimeOwner,  \* worker_runtime.instance_id
    (* worker processes *)
    pc,            \* where a process's poller is
    offset,        \* TelegramPoller.offset
    batch,         \* the response being handled: its updates, the lowest and the highest of them
    accepted,      \* updates of the batch the allowlist let through
    stopping,      \* the process's abort signals are set
    claim,         \* the task each worker loop holds in its transaction, or 0
    faults         \* faults so far

telegram == <<published, oldest, expired, absent>>
tasks == <<task, attempts, due>>
intake == <<cursor, ignored, receipts>>
locks == <<locker, cursorLock, runtimeOwner>>
poller == <<pc, offset, batch, accepted>>
vars == <<telegram, tasks, intake, allow, locks, poller, stopping, claim, faults>>

\* A poller's life: lock, getMe, claim the heartbeat row, bind the cursor, then the loop
\* idle -> asking -> replied -> recorded -> fenced -> checkpoint -> idle.
Starting == {"locked", "authed", "claimed"}
Loop == {"idle", "asking", "replied", "recorded", "fenced", "checkpoint"}
PCs == {"down", "ended", "draining"} \union Starting \union Loop
Handling == {"replied", "recorded", "fenced", "checkpoint"}

NoBatch == [first |-> 1, last |-> 0, ids |-> {}]
Batches == {b \in [first : Updates, last : 0 .. MaxUpdate, ids : SUBSET Updates] :
                b.ids \subseteq b.first .. b.last}
Ids(b) == b.ids

\* updates.length > 0, and the lowest id is older than the offset the request had.
OlderThanOffset(p) == Ids(batch[p]) # {} /\ offset[p] # 0 /\ batch[p].first < offset[p]

\* What no request can be answered with any more, or ever could.
Missing == expired \union absent

Receipts == [requested : Offsets, first : Updates, last : Updates,
             next : Offsets, accepted : 0 .. MaxUpdate]

TaskStates == {"none", "pending", "blocked", "processed", "skipped"}

\* Not yet processed and not skipped: what processOne's "not exists earlier" looks for.
Live(u) == task[u] \in {"pending", "blocked"}
EarlierInChannel(u) == {v \in Updates : v < u /\ ChannelOf[v] = ChannelOf[u]}
Larger(a, b) == IF a < b THEN b ELSE a
Smaller(a, b) == IF a < b THEN a ELSE b

TypeOK ==
    /\ published \in 0 .. MaxUpdate
    /\ oldest \in 1 .. MaxUpdate + 1
    /\ expired \in SUBSET Updates /\ absent \in SUBSET Updates
    /\ cursor \in Offsets
    /\ allow \in [Channels -> {"absent", "enabled", "disabled"}]
    /\ task \in [Updates -> TaskStates]
    /\ attempts \in [Updates -> 0 .. MaxAttempts]
    /\ due \in [Updates -> BOOLEAN]
    /\ ignored \in SUBSET Updates
    /\ receipts \in SUBSET Receipts
    /\ locker \in Procs \union {NoProc}
    /\ cursorLock \in Procs \union {NoProc}
    /\ runtimeOwner \in Procs \union {NoProc}
    /\ pc \in [Procs -> PCs]
    /\ offset \in [Procs -> Offsets]
    /\ batch \in [Procs -> Batches]
    /\ accepted \in [Procs -> SUBSET Updates]
    /\ stopping \in [Procs -> BOOLEAN]
    /\ claim \in [Workers -> Updates \union {0}]
    /\ faults \in 0 .. MaxFaults

Init ==
    /\ published = 0 /\ oldest = 1 /\ expired = {} /\ absent = {}
    /\ cursor \in FirstCursors /\ ignored = {} /\ receipts = {}
    /\ allow = [c \in Channels |-> "absent"]
    /\ task = [u \in Updates |-> "none"]
    /\ attempts = [u \in Updates |-> 0]
    /\ due = [u \in Updates |-> TRUE]
    /\ locker = NoProc /\ cursorLock = NoProc /\ runtimeOwner = NoProc
    /\ pc = [p \in Procs |-> "down"]
    /\ offset = [p \in Procs |-> 0]
    /\ batch = [p \in Procs |-> NoBatch]
    /\ accepted = [p \in Procs |-> {}]
    /\ stopping = [p \in Procs |-> FALSE]
    /\ claim = [w \in Workers |-> 0]
    /\ faults = 0

-----------------------------------------------------------------------------
(* Telegram.                                                               *)

\* A post or an edit in some channel becomes the next update. Ids before it may go to updates
\* of other types or be passed over when Telegram chooses anew after a long idle time.
Publish ==
    /\ \E id \in published + 1 .. MaxUpdate :
        /\ published' = id
        /\ absent' = absent \union (published + 1 .. id - 1)
    /\ UNCHANGED <<oldest, expired, tasks, intake, allow, locks, poller, stopping, claim, faults>>

\* Retention (24 hours) drops the oldest update nobody confirmed.
Expire ==
    /\ oldest <= published
    /\ expired' = expired \union ({oldest} \ absent)
    /\ oldest' = oldest + 1
    /\ UNCHANGED <<published, absent, tasks, intake, allow, locks, poller, stopping, claim, faults>>

-----------------------------------------------------------------------------
(* Start-up of a worker process: WorkerRuntime.startOnce.                  *)

\* acquirePollerLock: pg_try_advisory_lock on a reserved session.
AcquirePollerLock(p) ==
    /\ pc[p] = "down" /\ locker = NoProc
    /\ locker' = p
    /\ pc' = [pc EXCEPT ![p] = "locked"]
    /\ stopping' = [stopping EXCEPT ![p] = FALSE]
    /\ UNCHANGED <<telegram, tasks, intake, allow, cursorLock, runtimeOwner,
                   offset, batch, accepted, claim, faults>>

\* authenticate: getMe answers, then the lock is asserted on the reserved session.
Authenticate(p) ==
    /\ pc[p] = "locked" /\ locker = p
    /\ pc' = [pc EXCEPT ![p] = "authed"]
    /\ UNCHANGED <<telegram, tasks, intake, allow, locks, offset, batch, accepted,
                   stopping, claim, faults>>

\* heartbeat.claim: an unconditional upsert of the single worker_runtime row.
ClaimRuntime(p) ==
    /\ pc[p] = "authed" /\ ~stopping[p]
    /\ runtimeOwner' = p
    /\ pc' = [pc EXCEPT ![p] = "claimed"]
    /\ UNCHANGED <<telegram, tasks, intake, allow, locker, cursorLock,
                   offset, batch, accepted, stopping, claim, faults>>

\* bindBot: assert the lock, then read the durable cursor under the row lock; the process
\* then starts its poller and its worker loops.
BindBot(p) ==
    /\ pc[p] = "claimed" /\ locker = p /\ cursorLock = NoProc /\ ~stopping[p]
    /\ offset' = [offset EXCEPT ![p] = cursor]
    /\ pc' = [pc EXCEPT ![p] = "idle"]
    /\ UNCHANGED <<telegram, tasks, intake, allow, locks, batch, accepted,
                   stopping, claim, faults>>

\* Start-up stops at an assertion that fails or at a stop request: stop() closes the inbox.
AbortStartup(p) ==
    /\ pc[p] \in Starting
    /\ locker # p \/ stopping[p]
    /\ pc' = [pc EXCEPT ![p] = "down"]
    /\ locker' = IF locker = p THEN NoProc ELSE locker
    /\ UNCHANGED <<telegram, tasks, intake, allow, cursorLock, runtimeOwner,
                   offset, batch, accepted, stopping, claim, faults>>

-----------------------------------------------------------------------------
(* The poll loop: TelegramPoller.run.                                      *)

Goto(p, place) == pc' = [pc EXCEPT ![p] = place]

\* The head of the loop: the lock is asserted before every request.
AssertBeforePoll(p) ==
    /\ pc[p] = "idle" /\ locker = p /\ ~stopping[p]
    /\ Goto(p, "asking")
    /\ UNCHANGED <<telegram, tasks, intake, allow, locks, offset, batch, accepted,
                   stopping, claim, faults>>

\* The oldest updates held, BatchLimit at most, as one response.
Oldest(held) ==
    IF held = {} THEN {NoBatch}
    ELSE {[first |-> f, last |-> l, ids |-> held \intersect (f .. l)] :
              f \in {u \in held : \A v \in held : u <= v},
              l \in {u \in held : Cardinality({v \in held : v <= u}) = Smaller(BatchLimit, Cardinality(held))}}

\* getUpdates reaches Telegram: the offset confirms, and so discards, everything below it.
GetUpdates(p) ==
    /\ pc[p] = "asking"
    /\ oldest' = Larger(oldest, offset[p])
    /\ \E b \in Oldest((oldest' .. published) \ absent) : batch' = [batch EXCEPT ![p] = b]
    /\ Goto(p, "replied")
    /\ UNCHANGED <<published, expired, absent, tasks, intake, allow, locks, offset, accepted,
                   stopping, claim, faults>>

\* The request arrived, the answer did not: requestWithRetry asks again with the same offset.
LoseReply(p) ==
    /\ pc[p] = "asking" /\ oldest < offset[p]
    /\ oldest' = offset[p]
    /\ UNCHANGED <<published, expired, absent, tasks, intake, allow, locks, poller, stopping, claim, faults>>

\* onTelegramSuccess writes last_telegram_success_at in the heartbeat row it must still own.
RecordTelegramSuccess(p) ==
    /\ pc[p] = "replied" /\ runtimeOwner = p
    /\ Goto(p, "recorded")
    /\ UNCHANGED <<telegram, tasks, intake, allow, locks, offset, batch, accepted,
                   stopping, claim, faults>>

AssertBeforeCheckpoint(p) ==
    /\ pc[p] = "recorded" /\ locker = p
    /\ Goto(p, "fenced")
    /\ UNCHANGED <<telegram, tasks, intake, allow, locks, offset, batch, accepted,
                   stopping, claim, faults>>

\* Mutant: the requested offset is not compared with the stored cursor.
CheckpointAnyCursor(p) ==
    /\ pc[p] = "fenced" /\ cursorLock = NoProc
    /\ ~OlderThanOffset(p)
    /\ cursorLock' = p
    /\ accepted' = [accepted EXCEPT ![p] =
            {u \in Ids(batch[p]) : allow[ChannelOf[u]] = "enabled"}]
    /\ Goto(p, "checkpoint")
    /\ UNCHANGED <<telegram, tasks, intake, allow, locker, runtimeOwner, offset, batch,
                   stopping, claim, faults>>

\* Mutant: a response with ids older than the offset is not refused.
CheckpointAnyIds(p) ==
    /\ pc[p] = "fenced" /\ cursorLock = NoProc
    /\ cursor = offset[p]
    /\ cursorLock' = p
    /\ accepted' = [accepted EXCEPT ![p] =
            {u \in Ids(batch[p]) : allow[ChannelOf[u]] = "enabled"}]
    /\ Goto(p, "checkpoint")
    /\ UNCHANGED <<telegram, tasks, intake, allow, locker, runtimeOwner, offset, batch,
                   stopping, claim, faults>>

\* Mutant: the cursor is stored by a transaction of its own, before the tasks.
CursorBeforeTasks(p) ==
    /\ pc[p] = "fenced" /\ cursorLock = NoProc
    /\ cursor = offset[p] /\ ~OlderThanOffset(p)
    /\ cursorLock' = p
    /\ accepted' = [accepted EXCEPT ![p] =
            {u \in Ids(batch[p]) : allow[ChannelOf[u]] = "enabled"}]
    /\ cursor' = IF batch[p] = NoBatch THEN cursor ELSE batch[p].last + 1
    /\ Goto(p, "checkpoint")
    /\ UNCHANGED <<telegram, tasks, ignored, receipts, allow, locker, runtimeOwner, offset,
                   batch, stopping, claim, faults>>

\* checkpointBatch opens its transaction, on another session than the lock's: row lock,
\* comparison of the requested offset with the stored cursor and with the lowest id returned,
\* read of the allowlist.
BeginCheckpoint(p) ==
    /\ pc[p] = "fenced" /\ cursorLock = NoProc
    /\ cursor = offset[p] /\ ~OlderThanOffset(p)
    /\ cursorLock' = p
    /\ accepted' = [accepted EXCEPT ![p] =
            {u \in Ids(batch[p]) : allow[ChannelOf[u]] = "enabled"}]
    /\ Goto(p, "checkpoint")
    /\ UNCHANGED <<telegram, tasks, intake, allow, locker, runtimeOwner, offset, batch,
                   stopping, claim, faults>>

\* The receipt of a batch: what was asked, what came back, how much of it was kept.
Receipt(p, next) ==
    [requested |-> offset[p], first |-> batch[p].first, last |-> batch[p].last,
     next |-> next, accepted |-> Cardinality(accepted[p])]

\* on conflict (bot, checkpoint_offset) do nothing
WithReceipt(p, next) ==
    IF \E r \in receipts : r.next = next THEN receipts ELSE receipts \union {Receipt(p, next)}

\* Mutant: off by one.
CursorOneTooFar(p) == batch[p].last + 2

\* The cursor after a batch: one past its last update, and never lower than before.
NextCursor(p) ==
    IF batch[p].last + 1 > cursor THEN batch[p].last + 1 ELSE cursor

\* The transaction commits tasks, receipt and cursor together; an empty batch changes none.
\* The poller's own offset follows the stored cursor only now.
CommitCheckpoint(p) ==
    LET fresh == {u \in accepted[p] : task[u] = "none"}
        next == NextCursor(p)
    IN
    /\ pc[p] = "checkpoint"
    /\ IF Ids(batch[p]) = {}
       THEN UNCHANGED <<tasks, intake>> /\ offset' = [offset EXCEPT ![p] = cursor]
       ELSE /\ task' = [u \in Updates |-> IF u \in fresh THEN "pending" ELSE task[u]]
            /\ ignored' = ignored \union (Ids(batch[p]) \ accepted[p])
            /\ receipts' = WithReceipt(p, next)
            /\ cursor' = next
            /\ offset' = [offset EXCEPT ![p] = next]
            /\ UNCHANGED <<attempts, due>>
    /\ cursorLock' = NoProc
    /\ Goto(p, "idle")
    /\ batch' = [batch EXCEPT ![p] = NoBatch]
    /\ accepted' = [accepted EXCEPT ![p] = {}]
    /\ UNCHANGED <<telegram, allow, locker, runtimeOwner, stopping, claim, faults>>

\* What makes the loop throw: a failed assertion, a heartbeat row taken over, a cursor that
\* moved, an update older than the offset; and what makes it return: a stop request.
PollerMustEnd(p) ==
    \/ pc[p] = "idle" /\ (locker # p \/ stopping[p])
    \/ pc[p] \in {"asking", "replied"} /\ stopping[p]
    \/ pc[p] = "replied" /\ runtimeOwner # p
    \/ pc[p] = "recorded" /\ locker # p
    \/ pc[p] = "fenced" /\ cursorLock = NoProc /\ (cursor # offset[p] \/ OlderThanOffset(p))

\* The poller's lifetime ends and with it, by monitorLifetime, the process's runtime.
EndPoller(p) ==
    /\ PollerMustEnd(p)
    /\ Goto(p, "ended")
    /\ stopping' = [stopping EXCEPT ![p] = TRUE]
    /\ batch' = [batch EXCEPT ![p] = NoBatch]
    /\ UNCHANGED <<telegram, tasks, intake, allow, locks, offset, accepted, claim, faults>>

-----------------------------------------------------------------------------
(* Stops and faults.                                                       *)

Fault == faults < MaxFaults /\ faults' = faults + 1

\* A signal or a failed part asks the runtime to stop; stopOnce aborts the poller first.
Stop(p) ==
    /\ Fault
    /\ pc[p] \in Starting \union Loop /\ ~stopping[p]
    /\ stopping' = [stopping EXCEPT ![p] = TRUE]
    /\ UNCHANGED <<telegram, tasks, intake, allow, locks, poller, claim>>

\* The heartbeat timer finds the row taken over by another process.
HeartbeatLost(p) ==
    /\ pc[p] \in Loop /\ runtimeOwner # p /\ ~stopping[p]
    /\ stopping' = [stopping EXCEPT ![p] = TRUE]
    /\ UNCHANGED <<telegram, tasks, intake, allow, locks, poller, claim, faults>>

\* workers.stop(): the loops take no further task.
StopWorkers(p) ==
    /\ pc[p] = "ended"
    /\ Goto(p, "draining")
    /\ UNCHANGED <<telegram, tasks, intake, allow, locks, offset, batch, accepted,
                   stopping, claim, faults>>

\* Mutant: the runtime stops without closing the inbox.
StopWithoutUnlock(p) ==
    /\ pc[p] = "draining"
    /\ \A w \in Workers : ProcOf[w] = p => claim[w] = 0
    /\ Goto(p, "down")
    /\ UNCHANGED <<telegram, tasks, intake, allow, locks, offset, batch, accepted,
                   stopping, claim, faults>>

\* Every loop's transaction has ended; inbox.close() unlocks.
FinishStop(p) ==
    /\ pc[p] = "draining"
    /\ \A w \in Workers : ProcOf[w] = p => claim[w] = 0
    /\ Goto(p, "down")
    /\ locker' = IF locker = p THEN NoProc ELSE locker
    /\ UNCHANGED <<telegram, tasks, intake, allow, cursorLock, runtimeOwner,
                   offset, batch, accepted, stopping, claim, faults>>

\* The process dies: PostgreSQL rolls its transactions back and drops its locks.
Crash(p) ==
    /\ Fault
    /\ pc[p] # "down"
    /\ Goto(p, "down")
    /\ locker' = IF locker = p THEN NoProc ELSE locker
    /\ cursorLock' = IF cursorLock = p THEN NoProc ELSE cursorLock
    /\ batch' = [batch EXCEPT ![p] = NoBatch]
    /\ accepted' = [accepted EXCEPT ![p] = {}]
    /\ claim' = [w \in Workers |-> IF ProcOf[w] = p THEN 0 ELSE claim[w]]
    /\ UNCHANGED <<telegram, tasks, intake, allow, runtimeOwner, offset, stopping>>

\* The reserved session dies and the lock with it; the process notices at its next assertion.
LoseSession(p) ==
    /\ Fault
    /\ locker = p
    /\ locker' = NoProc
    /\ UNCHANGED <<telegram, tasks, intake, allow, cursorLock, runtimeOwner, poller,
                   stopping, claim>>

\* Telegram answers with an id below the requested offset: its numbering began again.
ReplyBelowOffset(p) ==
    /\ Fault
    /\ pc[p] = "asking"
    /\ \E u \in Updates \ absent :
        /\ u < offset[p]
        /\ batch' = [batch EXCEPT ![p] = [first |-> u, last |-> u, ids |-> {u}]]
    /\ Goto(p, "replied")
    /\ UNCHANGED <<telegram, tasks, intake, allow, locks, offset, accepted, stopping, claim>>

-----------------------------------------------------------------------------
(* The worker loops: TelegramWorkerPool.processOne.                        *)

\* Mutants: any task of the channel; a blocked task is passed over; a task waits for those of other channels.
ClaimableAnywhere(u) ==
    /\ task[u] = "pending" /\ due[u]
    /\ \A w \in Workers : claim[w] # u
ClaimablePastBlocked(u) ==
    /\ task[u] = "pending" /\ due[u]
    /\ \A v \in EarlierInChannel(u) : task[v] # "pending"
    /\ \A w \in Workers : claim[w] # u
ClaimableWhenAlone(u) ==
    /\ task[u] = "pending" /\ due[u]
    /\ \A v \in Updates : v < u => ~Live(v)
    /\ \A w \in Workers : claim[w] # u

\* The candidate rows: due, unlocked, and the first live task of their channel.
Claimable(u) ==
    /\ task[u] = "pending" /\ due[u]
    /\ \A v \in EarlierInChannel(u) : ~Live(v)
    /\ \A w \in Workers : claim[w] # u

\* for update skip locked, the lowest update first.
Claim(w) ==
    /\ claim[w] = 0
    /\ pc[ProcOf[w]] \in Loop \union {"ended"}
    /\ \E u \in Updates :
        /\ Claimable(u)
        /\ \A v \in Updates : Claimable(v) => u <= v
        /\ claim' = [claim EXCEPT ![w] = u]
    /\ UNCHANGED <<telegram, tasks, intake, allow, locks, poller, stopping, faults>>

Release(w) == claim' = [claim EXCEPT ![w] = 0]

\* The savepoint holds and the transaction commits message and processed_at together.
IngestOk(w) ==
    /\ claim[w] # 0
    /\ task' = [task EXCEPT ![claim[w]] = "processed"]
    /\ Release(w)
    /\ UNCHANGED <<telegram, attempts, due, intake, allow, locks, poller, stopping, faults>>

\* Mutant: the attempt limit is forgotten.
FailForever(w) ==
    /\ claim[w] # 0
    /\ attempts' = [attempts EXCEPT ![claim[w]] = attempts[claim[w]] + 1]
    /\ due' = [due EXCEPT ![claim[w]] = FALSE]
    /\ Release(w)
    /\ UNCHANGED <<telegram, task, intake, allow, locks, poller, stopping, faults>>

\* The savepoint rolls back: one more attempt, a backoff, and at the limit a block.
IngestFail(w) ==
    LET u == claim[w] n == attempts[claim[w]] + 1 IN
    /\ claim[w] # 0
    /\ attempts' = [attempts EXCEPT ![u] = n]
    /\ due' = [due EXCEPT ![u] = FALSE]
    /\ task' = [task EXCEPT ![u] = IF n >= MaxAttempts THEN "blocked" ELSE "pending"]
    /\ Release(w)
    /\ UNCHANGED <<telegram, intake, allow, locks, poller, stopping, faults>>

\* The whole transaction fails (its connection broke): the row lock goes, nothing is
\* written, and the pool's failure stops the process.
WorkerAbort(w) ==
    /\ Fault
    /\ claim[w] # 0
    /\ Release(w)
    /\ stopping' = [stopping EXCEPT ![ProcOf[w]] = TRUE]
    /\ UNCHANGED <<telegram, tasks, intake, allow, locks, poller>>

\* available_at passes.
BackoffElapses(u) ==
    /\ ~due[u]
    /\ due' = [due EXCEPT ![u] = TRUE]
    /\ UNCHANGED <<telegram, task, attempts, intake, allow, locks, poller, stopping, claim, faults>>

-----------------------------------------------------------------------------
(* The administrator: channels and blocked tasks.                          *)

\* channel add: an upsert that leaves an existing row's enabled flag alone. It takes the
\* polling row's lock, so it waits for a checkpoint in progress.
AddChannel(c) ==
    /\ cursorLock = NoProc /\ allow[c] = "absent"
    /\ allow' = [allow EXCEPT ![c] = "enabled"]
    /\ UNCHANGED <<telegram, tasks, intake, locks, poller, stopping, claim, faults>>

SetChannelEnabled(c, enabled) ==
    /\ allow[c] = IF enabled THEN "disabled" ELSE "enabled"
    /\ allow' = [allow EXCEPT ![c] = IF enabled THEN "enabled" ELSE "disabled"]
    /\ UNCHANGED <<telegram, tasks, intake, locks, poller, stopping, claim, faults>>

RetryTask(u) ==
    /\ task[u] = "blocked"
    /\ task' = [task EXCEPT ![u] = "pending"]
    /\ attempts' = [attempts EXCEPT ![u] = 0]
    /\ due' = [due EXCEPT ![u] = TRUE]
    /\ UNCHANGED <<telegram, intake, allow, locks, poller, stopping, claim, faults>>

SkipTask(u) ==
    /\ task[u] = "blocked"
    /\ task' = [task EXCEPT ![u] = "skipped"]
    /\ UNCHANGED <<telegram, attempts, due, intake, allow, locks, poller, stopping, claim, faults>>

-----------------------------------------------------------------------------
Startup(p) == \/ AcquirePollerLock(p) \/ Authenticate(p) \/ ClaimRuntime(p)
              \/ BindBot(p) \/ AbortStartup(p)

Poll(p) == \/ AssertBeforePoll(p) \/ GetUpdates(p) \/ RecordTelegramSuccess(p)
           \/ AssertBeforeCheckpoint(p) \/ BeginCheckpoint(p) \/ CommitCheckpoint(p)
           \/ EndPoller(p)

Shutdown(p) == HeartbeatLost(p) \/ StopWorkers(p) \/ FinishStop(p)

Disturb(p) == Stop(p) \/ Crash(p) \/ LoseSession(p) \/ LoseReply(p) \/ ReplyBelowOffset(p)

Work(w) == Claim(w) \/ IngestOk(w) \/ IngestFail(w)

Administer ==
    \/ \E c \in Channels : AddChannel(c) \/ \E e \in BOOLEAN : SetChannelEnabled(c, e)
    \/ \E u \in Updates : RetryTask(u) \/ SkipTask(u)

Next ==
    \/ Publish \/ Expire
    \/ \E p \in Procs : Startup(p) \/ Poll(p) \/ Shutdown(p) \/ Disturb(p)
    \/ \E w \in Workers : Work(w) \/ WorkerAbort(w)
    \/ \E u \in Updates : BackoffElapses(u)
    \/ Administer

Spec == Init /\ [][Next]_vars

(***************************************************************************)
(* Fairness: a supervisor restarts the process (compose: restart), so that *)
(* some process takes a free lock; the poller, the shutdown and the worker *)
(* loops run as long as their process does; a backoff elapses. Claims are  *)
(* strongly fair per task because a backoff (1 s at least) outlasts the    *)
(* loops' idle delay (100 ms): a failing task cannot take every turn.      *)
(* Telegram, the administrator and the faults owe nothing.                 *)
(***************************************************************************)
Fairness ==
    /\ WF_vars(\E p \in Procs : AcquirePollerLock(p))
    /\ \A p \in Procs : /\ WF_vars(Startup(p) /\ pc[p] # "down")
                        /\ WF_vars(Poll(p))
                        /\ WF_vars(Shutdown(p))
    /\ \A w \in Workers : WF_vars(IngestOk(w) \/ IngestFail(w))
    /\ \A u \in Updates : /\ SF_vars(\E w \in Workers : Claim(w) /\ claim'[w] = u)
                          /\ WF_vars(BackoffElapses(u))

FairSpec == Spec /\ Fairness
=============================================================================
