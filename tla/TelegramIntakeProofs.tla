------------------------ MODULE TelegramIntakeProofs ------------------------
(***************************************************************************)
(* Proofs of the safety of the intake, for any number of updates, channels,*)
(* processes, worker loops, attempts and faults.  The intake then is shown *)
(* to implement OrderedInbox: each step is, under the mapping of           *)
(* TelegramIntakeProps, a step of the inbox or leaves it as it is.  Last,  *)
(* the receipts account for the tasks and tell what was lost.              *)
(***************************************************************************)
EXTENDS TelegramIntakeProps, FiniteSetTheorems, TLAPS

\* The row lock of the polling state is held exactly by the poller inside its checkpoint
\* transaction, which has seen its own offset in the row and no older id in its batch.
RowLock ==
    \A p \in Procs :
        /\ pc[p] = "checkpoint" <=> cursorLock = p
        /\ pc[p] = "checkpoint" => offset[p] = cursor /\ ~OlderThanOffset(p)
        /\ offset[p] <= cursor

\* A response that can still be checkpointed has every update from the cursor to its last one,
\* but for those missing at Telegram. (A response to an older offset can no longer be
\* checkpointed, nor can one with older ids.)
Resumes(p) ==
    /\ cursor <= batch[p].first
    /\ \A u \in Updates : cursor <= u /\ u <= batch[p].last => u \in Ids(batch[p]) \/ u \in Missing
BatchFollowsCursor ==
    \A p \in Procs :
        pc[p] \in Handling /\ offset[p] = cursor /\ Ids(batch[p]) # {} /\ ~OlderThanOffset(p) => Resumes(p)

\* A response leaves out no update between its first and its last.
AcceptedInBatch ==
    \A p \in Procs :
        /\ accepted[p] \subseteq Ids(batch[p])
        /\ pc[p] # "checkpoint" => accepted[p] = {}
        /\ batch[p].first .. batch[p].last \subseteq Ids(batch[p]) \union absent

\* The cursor separates what is decided from what is not yet seen.
CursorDivides ==
    /\ \A u \in Updates : u < cursor => Recorded(u) \/ u \in Missing
    /\ \A u \in Updates : task[u] # "none" => u < cursor
    /\ \A u \in Updates : u < oldest => u < cursor \/ u \in Missing

AttemptsLeft == \A u \in Updates : task[u] \in {"none", "pending"} => attempts[u] < MaxAttempts

\* Only the first live task of a channel is claimed, blocked or decided.
ClaimsAreHeads ==
    /\ \A w \in Workers : claim[w] # 0 =>
        /\ task[claim[w]] = "pending"
        /\ \A v \in EarlierInChannel(claim[w]) : ~Live(v)
    /\ \A w, x \in Workers : w # x /\ claim[w] # 0 => claim[w] # claim[x]
DecidedAreHeads ==
    \A v \in Updates : task[v] \in {"processed", "skipped", "blocked"} =>
        \A u \in EarlierInChannel(v) : ~Live(u)

IInv == /\ TypeOK /\ RowLock /\ BatchFollowsCursor /\ AcceptedInBatch
        /\ CursorDivides /\ AttemptsLeft /\ ClaimsAreHeads /\ DecidedAreHeads

\* The steps that touch the task table, the attempts or the claims.
LEMMA TaskFrame ==
  ASSUME [Next]_vars
  PROVE  \/ UNCHANGED <<task, attempts, claim>>
         \/ \E p \in Procs : CommitCheckpoint(p) \/ Crash(p)
         \/ \E w \in Workers : Claim(w) \/ IngestOk(w) \/ IngestFail(w) \/ WorkerAbort(w)
         \/ \E u \in Updates : RetryTask(u) \/ SkipTask(u)
  BY DEF Next, Startup, Poll, Shutdown, Disturb, Work, Administer, vars, telegram, tasks,
     intake, locks, poller, Publish, Expire, AcquirePollerLock, Authenticate, ClaimRuntime,
     BindBot, AbortStartup, AssertBeforePoll, GetUpdates, LoseReply, RecordTelegramSuccess,
     AssertBeforeCheckpoint, BeginCheckpoint, EndPoller, HeartbeatLost, StopWorkers, FinishStop,
     Stop, LoseSession, ReplyBelowOffset, BackoffElapses, AddChannel, SetChannelEnabled

\* The steps that touch a poller, the cursor or its lock. What is missing stays missing.
LEMMA PollFrame ==
  ASSUME [Next]_vars
  PROVE  \/ /\ UNCHANGED <<pc, offset, cursor, cursorLock, batch, accepted>>
            /\ Missing \subseteq Missing' /\ absent \subseteq absent'
         \/ \E p \in Procs : \/ Startup(p) \/ Poll(p) \/ StopWorkers(p) \/ FinishStop(p) \/ Crash(p)
                             \/ ReplyBelowOffset(p)
  BY DEF Next, Startup, Poll, Shutdown, Disturb, Work, Administer, vars, telegram, tasks,
     intake, locks, poller, Publish, Expire, LoseReply, HeartbeatLost, Stop, LoseSession, Claim,
     IngestOk, IngestFail, WorkerAbort, BackoffElapses, RetryTask, SkipTask, AddChannel,
     SetChannelEnabled, Missing

\* The steps that touch the cursor, what it passed, or what Telegram still holds.
LEMMA CursorFrame ==
  ASSUME [Next]_vars
  PROVE  \/ UNCHANGED <<task, ignored, cursor, oldest, expired, absent>>
         \/ Publish \/ Expire
         \/ \E p \in Procs : GetUpdates(p) \/ LoseReply(p) \/ CommitCheckpoint(p)
         \/ \E w \in Workers : IngestOk(w) \/ IngestFail(w)
         \/ \E u \in Updates : RetryTask(u) \/ SkipTask(u)
  BY DEF Next, Startup, Poll, Shutdown, Disturb, Work, Administer, vars, telegram, tasks,
     intake, locks, poller, AcquirePollerLock, Authenticate, ClaimRuntime, BindBot,
     AbortStartup, AssertBeforePoll, RecordTelegramSuccess, AssertBeforeCheckpoint,
     BeginCheckpoint, EndPoller, HeartbeatLost, StopWorkers, FinishStop, Stop, Crash,
     LoseSession, ReplyBelowOffset, Claim, WorkerAbort, BackoffElapses, AddChannel, SetChannelEnabled

\* The empty response is a batch.
LEMMA NoBatchType == NoBatch \in Batches
  BY BoundAssumption DEF NoBatch, Batches, Updates

\* Telegram's answer: a batch, and all it holds from the oldest update to the batch's last.
LEMMA OldestUpdates ==
  ASSUME NEW held, held \subseteq Updates, NEW b \in Oldest(held)
  PROVE  /\ b \in Batches
         /\ Ids(b) = {} => b = NoBatch
         /\ Ids(b) # {} => /\ b.first \in held /\ b.last \in held
                           /\ \A u \in held : b.first <= u /\ (u <= b.last => u \in Ids(b))
<1>1. CASE held = {}
  <2>1. b = NoBatch
    BY <1>1 DEF Oldest
  <2> QED BY <2>1, NoBatchType DEF NoBatch, Ids
<1>2. CASE held # {}
  <2>1. PICK f \in held, l \in held : /\ \A v \in held : f <= v
                                   /\ b = [first |-> f, last |-> l, ids |-> held \intersect (f .. l)]
    <3> DEFINE Lows == {u \in held : \A v \in held : u <= v}
               Highs == {u \in held : Cardinality({v \in held : v <= u}) = Smaller(BatchLimit, Cardinality(held))}
    <3>1. b \in {[first |-> f, last |-> l, ids |-> held \intersect (f .. l)] : f \in Lows, l \in Highs}
      BY <1>2 DEF Oldest
    <3>2. Highs \subseteq held
      OBVIOUS
    <3> HIDE DEF Highs
    <3> QED BY <3>1, <3>2
  <2>2. f \in Updates /\ l \in 0 .. MaxUpdate
    BY <2>1, BoundAssumption DEF Updates
  <2>3. held \intersect (f .. l) \in SUBSET Updates /\ held \intersect (f .. l) \subseteq f .. l
    OBVIOUS
  <2>4. b \in Batches
    BY <2>1, <2>2, <2>3 DEF Batches
  <2>5. \A u \in held : u <= l => u \in f .. l
    BY <2>1, <2>2 DEF Updates
  <2>6. f \in Ids(b)
    BY <2>1, <2>2 DEF Ids, Updates
  <2> QED BY <2>1, <2>4, <2>5, <2>6 DEF Ids
<1> QED BY <1>1, <1>2

\* The ids of a response are updates.
LEMMA BatchIds ==
  ASSUME TypeOK, NEW p \in Procs
  PROVE  Ids(batch[p]) \subseteq Updates
  <1>1. batch[p] \in Batches
    BY DEF TypeOK
  <1> QED
    BY <1>1, BoundAssumption DEF Batches, Ids, Updates

\* Every step keeps the types; the checkpoint needs its batch to be an interval of updates, a
\* failure that the failing task had attempts left.
LEMMA TypeStep ==
  TypeOK /\ AttemptsLeft /\ ClaimsAreHeads /\ AcceptedInBatch /\ [Next]_vars => TypeOK'
<1> SUFFICES ASSUME TypeOK, AttemptsLeft, ClaimsAreHeads, AcceptedInBatch,
                    [Next]_vars
             PROVE  TypeOK'
  OBVIOUS
<1>1. CASE Publish
  <2>1. PICK id \in published + 1 .. MaxUpdate : published' = id /\ absent' = absent \union (published + 1 .. id - 1)
    BY <1>1 DEF Publish
  <2>2. published \in 0 .. MaxUpdate
    BY DEF TypeOK
  <2>3. published' \in 0 .. MaxUpdate /\ published + 1 .. id - 1 \subseteq Updates
    BY <2>1, <2>2, BoundAssumption DEF Updates
  <2>4. absent' \in SUBSET Updates
    BY <2>1, <2>3 DEF TypeOK
  <2> QED
    BY <1>1, <2>3, <2>4 DEF Publish, TypeOK, tasks, intake, locks, poller
<1>2. CASE Expire
  BY <1>2, BoundAssumption, ProcAssumption DEF Expire, TypeOK, PCs, Starting,
     Loop, TaskStates, Updates, Offsets, tasks, intake, locks, poller
<1>3. ASSUME NEW p \in Procs, AcquirePollerLock(p) PROVE TypeOK'
  BY <1>3 DEF AcquirePollerLock, TypeOK, PCs, Starting, Loop,
     TaskStates, Updates, Offsets, telegram, tasks, intake
<1>4. ASSUME NEW p \in Procs, Authenticate(p) PROVE TypeOK'
  BY <1>4 DEF Authenticate, TypeOK, PCs, Starting, Loop, TaskStates,
     Updates, Offsets, telegram, tasks, intake, locks
<1>5. ASSUME NEW p \in Procs, ClaimRuntime(p) PROVE TypeOK'
  BY <1>5 DEF ClaimRuntime, TypeOK, PCs, Starting, Loop, TaskStates,
     Updates, Offsets, telegram, tasks, intake
<1>6. ASSUME NEW p \in Procs, BindBot(p) PROVE TypeOK'
  BY <1>6 DEF BindBot, TypeOK, PCs, Starting, Loop, TaskStates, Updates,
     Offsets, telegram, tasks, intake, locks
<1>7. ASSUME NEW p \in Procs, AbortStartup(p) PROVE TypeOK'
  BY <1>7 DEF AbortStartup, TypeOK, PCs, Starting, Loop, TaskStates,
     Updates, Offsets, telegram, tasks, intake
<1>8. ASSUME NEW p \in Procs, AssertBeforePoll(p) PROVE TypeOK'
  BY <1>8 DEF AssertBeforePoll, TypeOK, Goto, PCs, Starting, Loop,
     TaskStates, Updates, Offsets, telegram, tasks, intake, locks
<1>9. ASSUME NEW p \in Procs, GetUpdates(p) PROVE TypeOK'
  <2>1. oldest' \in 1 .. MaxUpdate + 1
    BY <1>9, BoundAssumption DEF GetUpdates, TypeOK, Larger, Offsets
  <2>2. batch' \in [Procs -> Batches]
    <3> DEFINE held == (oldest' .. published) \ absent
    <3>1. held \subseteq Updates
      BY <2>1, BoundAssumption DEF TypeOK, Updates
    <3>2. PICK b \in Oldest(held) : batch' = [batch EXCEPT ![p] = b]
      BY <1>9 DEF GetUpdates
    <3>3. b \in Batches
      BY <3>1, <3>2, OldestUpdates
    <3> QED
      BY <3>2, <3>3 DEF TypeOK
  <2> QED
    BY <1>9, <2>1, <2>2 DEF GetUpdates, TypeOK, Goto, PCs, Starting, Loop, TaskStates, Updates,
       Offsets, tasks, intake, locks
<1>10. ASSUME NEW p \in Procs, LoseReply(p) PROVE TypeOK'
  BY <1>10, SMTT(30) DEF LoseReply, TypeOK, PCs, Starting, Loop, TaskStates, Updates,
     Offsets, tasks, intake, locks, poller
<1>11. ASSUME NEW p \in Procs, RecordTelegramSuccess(p) PROVE TypeOK'
  BY <1>11 DEF RecordTelegramSuccess, TypeOK, Goto, PCs,
     Starting, Loop, TaskStates, Updates, Offsets, telegram, tasks, intake, locks
<1>12. ASSUME NEW p \in Procs, AssertBeforeCheckpoint(p) PROVE TypeOK'
  BY <1>12 DEF AssertBeforeCheckpoint, TypeOK, Goto, PCs,
     Starting, Loop, TaskStates, Updates, Offsets, telegram, tasks, intake, locks
<1>13. ASSUME NEW p \in Procs, BeginCheckpoint(p) PROVE TypeOK'
  <2>1. {u \in Ids(batch[p]) : allow[ChannelOf[u]] = "enabled"} \in SUBSET Updates
    BY BatchIds
  <2> QED
    BY <1>13, <2>1 DEF BeginCheckpoint, TypeOK, Goto, PCs, Starting, Loop, TaskStates, Updates,
       Offsets, telegram, tasks, intake
<1>14. ASSUME NEW p \in Procs, CommitCheckpoint(p) PROVE TypeOK'
  <2>1. CASE Ids(batch[p]) = {}
    BY <1>14, <2>1, NoBatchType DEF CommitCheckpoint, TypeOK, Goto, PCs, Starting, Loop,
       TaskStates, Updates, Offsets, telegram, tasks, intake
  <2>2. CASE Ids(batch[p]) # {}
    <3> DEFINE next == NextCursor(p)
    <3>1. batch[p].first \in Updates /\ batch[p].last \in Updates
      BY SMTT(30), <2>2, BoundAssumption DEF TypeOK, Batches, Ids, Updates
    <3>2. next \in Offsets
      BY <3>1, BoundAssumption, SMTT(30) DEF TypeOK, NextCursor, Offsets, Updates
    <3>3. accepted[p] \subseteq Updates
      BY DEF TypeOK
    <3>4. Cardinality(accepted[p]) \in 0 .. MaxUpdate
      <4>1. IsFiniteSet(Updates) /\ Cardinality(Updates) = MaxUpdate
        BY BoundAssumption, FS_Interval DEF Updates
      <4> QED
        BY <3>3, <4>1, FS_Subset, FS_CardinalityType, BoundAssumption
    <3>5. Receipt(p, next) \in Receipts
      BY <3>1, <3>2, <3>4 DEF TypeOK, Receipt, Receipts
    <3>6. receipts' \in SUBSET Receipts
      BY <1>14, <2>2, <3>5 DEF TypeOK, CommitCheckpoint, WithReceipt
    <3>7. batch' \in [Procs -> Batches]
      BY <1>14, NoBatchType DEF CommitCheckpoint, TypeOK
    <3>8. ignored' \in SUBSET Updates
      BY <1>14, <2>2, BatchIds DEF CommitCheckpoint, TypeOK
    <3>9. task' \in [Updates -> TaskStates]
      BY <1>14, <2>2 DEF CommitCheckpoint, TypeOK, TaskStates
    <3> QED
      BY <1>14, <2>2, <3>2, <3>6, <3>7, <3>8, <3>9 DEF CommitCheckpoint, TypeOK, Goto, PCs,
         Starting, Loop, TaskStates, Updates, Offsets, telegram, tasks, intake
  <2> QED
    BY <2>1, <2>2
<1>15. ASSUME NEW p \in Procs, EndPoller(p) PROVE TypeOK'
  <2>1. batch' \in [Procs -> Batches]
    BY <1>15, NoBatchType DEF EndPoller, TypeOK
  <2> QED
    BY <1>15, <2>1 DEF EndPoller, TypeOK, Goto, PCs, Starting, Loop, TaskStates, Updates,
       Offsets, telegram, tasks, intake, locks
<1>16. ASSUME NEW p \in Procs, HeartbeatLost(p) PROVE TypeOK'
  BY <1>16 DEF HeartbeatLost, TypeOK, PCs, Starting, Loop, TaskStates,
     Updates, Offsets, telegram, tasks, intake, locks, poller
<1>17. ASSUME NEW p \in Procs, StopWorkers(p) PROVE TypeOK'
  BY <1>17 DEF StopWorkers, TypeOK, Goto, PCs, Starting, Loop, TaskStates,
     Updates, Offsets, telegram, tasks, intake, locks
<1>18. ASSUME NEW p \in Procs, FinishStop(p) PROVE TypeOK'
  BY <1>18 DEF FinishStop, TypeOK, Goto, PCs, Starting, Loop, TaskStates,
     Updates, Offsets, telegram, tasks, intake
<1>19. ASSUME NEW p \in Procs, Stop(p) PROVE TypeOK'
  BY <1>19, BoundAssumption, ProcAssumption DEF Stop, TypeOK, Fault, PCs,
     Starting, Loop, TaskStates, telegram, tasks, intake, locks, poller
<1>20. ASSUME NEW p \in Procs, Crash(p) PROVE TypeOK'
  <2>1. batch' \in [Procs -> Batches] /\ accepted' \in [Procs -> SUBSET Updates]
    BY <1>20, NoBatchType DEF Crash, TypeOK
  <2>2. claim' \in [Workers -> Updates \union {0}]
    BY <1>20, ProcAssumption DEF Crash, TypeOK
  <2>3. pc' \in [Procs -> PCs] /\ locker' \in Procs \union {NoProc} /\ cursorLock' \in Procs \union {NoProc}
    BY <1>20 DEF Crash, Goto, TypeOK, PCs
  <2>4. faults' \in 0 .. MaxFaults
    BY <1>20, BoundAssumption DEF Crash, Fault, TypeOK
  <2> QED
    BY <1>20, <2>1, <2>2, <2>3, <2>4 DEF Crash, TypeOK, telegram, tasks, intake
<1>21. ASSUME NEW p \in Procs, LoseSession(p) PROVE TypeOK'
  BY SMTT(30), <1>21, BoundAssumption, ProcAssumption DEF LoseSession, TypeOK,
     Fault, PCs, Starting, Loop, TaskStates, Updates, Offsets, telegram, tasks, intake, poller
<1>22. ASSUME NEW w \in Workers, Claim(w) PROVE TypeOK'
  BY SMTT(30), <1>22 DEF Claim, TypeOK, PCs, Starting, Loop, TaskStates, Updates, Offsets,
     telegram, tasks, intake, locks, poller
<1>23. ASSUME NEW w \in Workers, IngestOk(w) PROVE TypeOK'
  BY <1>23 DEF IngestOk, TypeOK, Release, PCs, Starting, Loop, TaskStates,
     Updates, Offsets, telegram, intake, locks, poller
<1>24. ASSUME NEW w \in Workers, IngestFail(w) PROVE TypeOK'
  <2>1. claim[w] \in Updates /\ task[claim[w]] = "pending"
    BY <1>24 DEF IngestFail, TypeOK, ClaimsAreHeads
  <2>2. attempts[claim[w]] + 1 \in 0 .. MaxAttempts
    BY <2>1, BoundAssumption DEF TypeOK, AttemptsLeft
  <2> QED
    BY <1>24, <2>1, <2>2 DEF IngestFail, TypeOK, Release, PCs, Starting, Loop, TaskStates,
       Updates, Offsets, telegram, intake, locks, poller
<1>25. ASSUME NEW w \in Workers, WorkerAbort(w) PROVE TypeOK'
  <2>1. ProcOf[w] \in Procs
    BY ProcAssumption
  <2>2. stopping' \in [Procs -> BOOLEAN]
    BY <1>25, <2>1 DEF WorkerAbort, TypeOK
  <2> QED
    BY <1>25, <2>2, BoundAssumption DEF WorkerAbort, TypeOK, Release, Fault, PCs, Starting,
       Loop, TaskStates, telegram, tasks, intake, locks, poller
<1>26. ASSUME NEW u \in Updates, BackoffElapses(u) PROVE TypeOK'
  BY <1>26 DEF BackoffElapses, TypeOK, PCs, Starting, Loop, TaskStates,
     Updates, Offsets, telegram, intake, locks, poller
<1>27. ASSUME NEW u \in Updates, RetryTask(u) PROVE TypeOK'
  BY SMTT(30), <1>27, BoundAssumption, ProcAssumption DEF RetryTask, TypeOK, PCs,
     Starting, Loop, TaskStates, Updates, Offsets, telegram, intake, locks, poller
<1>28. ASSUME NEW u \in Updates, SkipTask(u) PROVE TypeOK'
  BY <1>28 DEF SkipTask, TypeOK, PCs, Starting, Loop, TaskStates, Updates,
     Offsets, telegram, intake, locks, poller
<1>29. ASSUME NEW c \in Channels, AddChannel(c) PROVE TypeOK'
  BY <1>29 DEF AddChannel, TypeOK, PCs, Starting, Loop, TaskStates,
     Updates, Offsets, telegram, tasks, intake, locks, poller
<1>30. ASSUME NEW c \in Channels, NEW e \in BOOLEAN, SetChannelEnabled(c, e)
      PROVE  TypeOK'
  BY <1>30 DEF SetChannelEnabled, TypeOK, PCs, Starting, Loop, TaskStates, Updates, Offsets,
     telegram, tasks, intake, locks, poller
<1>31. ASSUME NEW p \in Procs, ReplyBelowOffset(p) PROVE TypeOK'
  <2>1. PICK u \in Updates : batch' = [batch EXCEPT ![p] = [first |-> u, last |-> u, ids |-> {u}]]
    BY <1>31 DEF ReplyBelowOffset
  <2>2. [first |-> u, last |-> u, ids |-> {u}] \in Batches
    BY BoundAssumption DEF Batches, Updates
  <2>3. batch' \in [Procs -> Batches]
    BY <2>1, <2>2 DEF TypeOK
  <2>4. faults' \in 0 .. MaxFaults
    BY <1>31, BoundAssumption DEF ReplyBelowOffset, Fault, TypeOK
  <2> QED
    BY <1>31, <2>3, <2>4 DEF ReplyBelowOffset, TypeOK, Goto, PCs, Loop, telegram, tasks, intake, locks
<1>32. CASE UNCHANGED vars
  BY <1>32 DEF vars, TypeOK, PCs, Starting, Loop, TaskStates, Updates, Offsets, telegram, tasks,
     intake, locks, poller
<1> QED
  BY <1>1, <1>2, <1>3, <1>4, <1>5, <1>6, <1>7, <1>8, <1>9, <1>10, <1>11, <1>12, <1>13, <1>14,
     <1>15, <1>16, <1>17, <1>18, <1>19, <1>20, <1>21, <1>22, <1>23, <1>24, <1>25, <1>26, <1>27,
     <1>28, <1>29, <1>30, <1>31, <1>32 DEF Next, Startup, Poll, Shutdown, Disturb, Work, Administer

\* checkpointBatch: the row lock is taken before the cursor is compared and given up with the
\* commit, so the cursor a checkpoint compared is the one it overwrites.
LEMMA RowLockStep ==
  TypeOK /\ RowLock /\ [Next]_vars => RowLock'
<1> SUFFICES ASSUME TypeOK, RowLock, [Next]_vars PROVE RowLock'
  OBVIOUS
<1>1. ASSUME NEW p \in Procs, ReplyBelowOffset(p) PROVE RowLock'
  BY <1>1 DEF ReplyBelowOffset, RowLock, OlderThanOffset, TypeOK, Goto, Fault, Offsets, telegram,
     tasks, intake, locks
<1>2. ASSUME NEW p \in Procs, AcquirePollerLock(p) PROVE RowLock'
  BY <1>2 DEF AcquirePollerLock, RowLock, OlderThanOffset, TypeOK, Starting,
     Offsets, telegram, tasks, intake
<1>3. ASSUME NEW p \in Procs, Authenticate(p) PROVE RowLock'
  BY <1>3 DEF Authenticate, RowLock, OlderThanOffset, TypeOK, Starting, Offsets,
     telegram, tasks, intake, locks
<1>4. ASSUME NEW p \in Procs, ClaimRuntime(p) PROVE RowLock'
  BY <1>4 DEF ClaimRuntime, RowLock, OlderThanOffset, TypeOK, Starting, Offsets,
     telegram, tasks, intake
<1>5. ASSUME NEW p \in Procs, BindBot(p) PROVE RowLock'
  BY <1>5 DEF BindBot, RowLock, OlderThanOffset, TypeOK, Starting, Offsets, telegram, tasks,
     intake, locks
<1>6. ASSUME NEW p \in Procs, AbortStartup(p) PROVE RowLock'
  BY <1>6 DEF AbortStartup, RowLock, OlderThanOffset, TypeOK, Starting, Offsets,
     telegram, tasks, intake
<1>7. ASSUME NEW p \in Procs, AssertBeforePoll(p) PROVE RowLock'
  BY <1>7 DEF AssertBeforePoll, RowLock, OlderThanOffset, TypeOK, Goto, Starting,
     Offsets, telegram, tasks, intake, locks
<1>8. ASSUME NEW p \in Procs, GetUpdates(p) PROVE RowLock'
  BY <1>8 DEF GetUpdates, RowLock, OlderThanOffset, TypeOK, Goto, Starting, Offsets,
     tasks, intake, locks
<1>9. ASSUME NEW p \in Procs, RecordTelegramSuccess(p) PROVE RowLock'
  BY <1>9 DEF RecordTelegramSuccess, RowLock, OlderThanOffset, TypeOK, Goto,
     Starting, Offsets, telegram, tasks, intake, locks
<1>10. ASSUME NEW p \in Procs, AssertBeforeCheckpoint(p) PROVE RowLock'
  BY <1>10 DEF AssertBeforeCheckpoint, RowLock, OlderThanOffset, TypeOK,
     Goto, Starting, Offsets, telegram, tasks, intake, locks
<1>11. ASSUME NEW p \in Procs, BeginCheckpoint(p) PROVE RowLock'
  BY <1>11, ProcAssumption, BoundAssumption DEF BeginCheckpoint,
     RowLock, OlderThanOffset, TypeOK, Goto, Starting, Offsets, telegram, tasks, intake
<1>12. ASSUME NEW p \in Procs, CommitCheckpoint(p) PROVE RowLock'
  <2>1. cursor = offset[p] /\ cursorLock = p /\ cursor \in Int /\ offset \in [Procs -> Int]
    BY <1>12 DEF CommitCheckpoint, RowLock, OlderThanOffset, TypeOK, Offsets
  <2>2. cursor <= cursor' /\ cursor' \in Int /\ offset' = [offset EXCEPT ![p] = cursor']
    BY <1>12, <2>1, BoundAssumption DEF CommitCheckpoint, NextCursor, TypeOK, Batches, intake
  <2>3. \A q \in Procs : offset'[q] <= cursor'
    BY <2>1, <2>2 DEF RowLock
  <2>4. \A q \in Procs : pc'[q] # "checkpoint"
    BY <1>12, <2>1 DEF CommitCheckpoint, Goto, RowLock, TypeOK
  <2>5. cursorLock' = NoProc
    BY <1>12 DEF CommitCheckpoint
  <2> QED
    BY <2>3, <2>4, <2>5, ProcAssumption DEF RowLock
<1>13. ASSUME NEW p \in Procs, EndPoller(p) PROVE RowLock'
  BY <1>13 DEF EndPoller, RowLock, OlderThanOffset, TypeOK, Goto, Starting, Offsets,
     telegram, tasks, intake, locks, PollerMustEnd
<1>14. ASSUME NEW p \in Procs, StopWorkers(p) PROVE RowLock'
  BY <1>14 DEF StopWorkers, RowLock, OlderThanOffset, TypeOK, Goto, Starting, Offsets,
     telegram, tasks, intake, locks
<1>15. ASSUME NEW p \in Procs, FinishStop(p) PROVE RowLock'
  BY <1>15 DEF FinishStop, RowLock, OlderThanOffset, TypeOK, Goto, Starting, Offsets,
     telegram, tasks, intake
<1>16. ASSUME NEW p \in Procs, Crash(p) PROVE RowLock'
  BY <1>16, ProcAssumption, BoundAssumption DEF Crash, RowLock, OlderThanOffset, TypeOK, Goto,
     Fault, Starting, Offsets, telegram, tasks, intake
<1>17. CASE UNCHANGED <<pc, offset, cursor, cursorLock, batch, accepted>>
  BY <1>17 DEF RowLock, OlderThanOffset, TypeOK, Starting, Offsets
<1> QED
  BY <1>1, <1>2, <1>3, <1>4, <1>5, <1>6, <1>7, <1>8, <1>9, <1>10, <1>11, <1>12, <1>13, <1>14,
     <1>15, <1>16, <1>17, PollFrame DEF Startup, Poll

\* The accepted updates are a part of the batch they were read for (the allowlist filter of
\* checkpointBatch).
LEMMA AcceptedStep ==
  TypeOK /\ AcceptedInBatch /\ [Next]_vars => AcceptedInBatch'
<1> SUFFICES ASSUME TypeOK, AcceptedInBatch, [Next]_vars PROVE AcceptedInBatch'
  OBVIOUS
<1>1. ASSUME NEW p \in Procs, ReplyBelowOffset(p) PROVE AcceptedInBatch'
  <2>1. PICK u \in Updates : batch' = [batch EXCEPT ![p] = [first |-> u, last |-> u, ids |-> {u}]]
    BY <1>1 DEF ReplyBelowOffset
  <2>2. u .. u \subseteq {u}
    BY DEF Updates
  <2> QED
    BY <1>1, <2>1, <2>2 DEF ReplyBelowOffset, AcceptedInBatch, TypeOK, Goto, Ids, telegram
<1>2. ASSUME NEW p \in Procs, AcquirePollerLock(p) PROVE AcceptedInBatch'
  BY <1>2 DEF AcquirePollerLock, AcceptedInBatch, TypeOK,
     NoBatch, Ids, Starting, Handling, telegram, tasks, intake
<1>3. ASSUME NEW p \in Procs, Authenticate(p) PROVE AcceptedInBatch'
  BY <1>3 DEF Authenticate, AcceptedInBatch, TypeOK, NoBatch, Ids,
     Starting, Handling, telegram, tasks, intake, locks
<1>4. ASSUME NEW p \in Procs, ClaimRuntime(p) PROVE AcceptedInBatch'
  BY <1>4 DEF ClaimRuntime, AcceptedInBatch, TypeOK, NoBatch, Ids,
     Starting, Handling, telegram, tasks, intake
<1>5. ASSUME NEW p \in Procs, BindBot(p) PROVE AcceptedInBatch'
  BY <1>5 DEF BindBot, AcceptedInBatch, TypeOK, NoBatch, Ids, Starting,
     Handling, telegram, tasks, intake, locks
<1>6. ASSUME NEW p \in Procs, AbortStartup(p) PROVE AcceptedInBatch'
  BY <1>6 DEF AbortStartup, AcceptedInBatch, TypeOK, NoBatch, Ids,
     Starting, Handling, telegram, tasks, intake
<1>7. ASSUME NEW p \in Procs, AssertBeforePoll(p) PROVE AcceptedInBatch'
  BY <1>7 DEF AssertBeforePoll, AcceptedInBatch, TypeOK, NoBatch,
     Goto, Ids, Starting, Handling, telegram, tasks, intake, locks
<1>8. ASSUME NEW p \in Procs, GetUpdates(p) PROVE AcceptedInBatch'
  <2> DEFINE held == (oldest' .. published) \ absent
  <2>1. PICK b \in Oldest(held) : batch' = [batch EXCEPT ![p] = b]
    BY <1>8 DEF GetUpdates
  <2>2. oldest' \in 1 .. MaxUpdate + 1 /\ published \in 0 .. MaxUpdate
    BY <1>8, BoundAssumption DEF GetUpdates, TypeOK, Larger, Offsets
  <2>3. held \subseteq Updates
    BY <2>2, BoundAssumption DEF Updates
  <2>4. b.first .. b.last \subseteq Ids(b) \union absent
    <3>1. CASE Ids(b) = {}
      BY <2>3, <3>1, OldestUpdates DEF NoBatch
    <3>2. CASE Ids(b) # {}
      <4>1. b.first \in held /\ b.last \in held /\ \A u \in held : u <= b.last => u \in Ids(b)
        BY <2>3, <3>2, OldestUpdates
      <4>2. \A u \in b.first .. b.last : u \in oldest' .. published /\ u <= b.last
        BY <2>2, <4>1
      <4> QED BY <4>1, <4>2
    <3> QED BY <3>1, <3>2
  <2>5. accepted[p] = {} /\ accepted' = accepted /\ absent' = absent /\ pc' = [pc EXCEPT ![p] = "replied"]
    BY <1>8 DEF GetUpdates, Goto, AcceptedInBatch
  <2> QED
    BY <2>1, <2>4, <2>5 DEF AcceptedInBatch, TypeOK
<1>9. ASSUME NEW p \in Procs, RecordTelegramSuccess(p) PROVE AcceptedInBatch'
  BY <1>9 DEF RecordTelegramSuccess, AcceptedInBatch,
     TypeOK, NoBatch, Goto, Ids, Starting, Handling, telegram, tasks, intake, locks
<1>10. ASSUME NEW p \in Procs, AssertBeforeCheckpoint(p) PROVE AcceptedInBatch'
  BY <1>10 DEF AssertBeforeCheckpoint, AcceptedInBatch,
     TypeOK, NoBatch, Goto, Ids, Starting, Handling, telegram, tasks, intake, locks
<1>11. ASSUME NEW p \in Procs, BeginCheckpoint(p) PROVE AcceptedInBatch'
  BY <1>11 DEF BeginCheckpoint, AcceptedInBatch, TypeOK, NoBatch,
     Goto, Ids, Starting, Handling, telegram, tasks, intake
<1>12. ASSUME NEW p \in Procs, CommitCheckpoint(p) PROVE AcceptedInBatch'
  BY <1>12 DEF CommitCheckpoint, AcceptedInBatch, TypeOK,
     NoBatch, Goto, Ids, Starting, Handling, telegram, tasks, intake
<1>13. ASSUME NEW p \in Procs, EndPoller(p) PROVE AcceptedInBatch'
  BY <1>13 DEF EndPoller, AcceptedInBatch, TypeOK, NoBatch, Goto, Ids,
     Starting, Handling, PollerMustEnd, telegram, tasks, intake, locks
<1>14. ASSUME NEW p \in Procs, StopWorkers(p) PROVE AcceptedInBatch'
  BY <1>14 DEF StopWorkers, AcceptedInBatch, TypeOK, NoBatch, Goto,
     Ids, Starting, Handling, telegram, tasks, intake, locks
<1>15. ASSUME NEW p \in Procs, FinishStop(p) PROVE AcceptedInBatch'
  BY <1>15 DEF FinishStop, AcceptedInBatch, TypeOK, NoBatch, Goto, Ids,
     Starting, Handling, telegram, tasks, intake
<1>16. ASSUME NEW p \in Procs, Crash(p) PROVE AcceptedInBatch'
  BY <1>16 DEF Crash, AcceptedInBatch, TypeOK, NoBatch, Goto, Fault, Ids,
     Starting, Handling, telegram, tasks, intake
<1>17. CASE UNCHANGED <<pc, offset, cursor, cursorLock, batch, accepted>> /\ absent \subseteq absent'
  BY <1>17 DEF AcceptedInBatch, TypeOK, NoBatch, Ids, Starting, Handling
<1> QED
  BY <1>1, <1>2, <1>3, <1>4, <1>5, <1>6, <1>7, <1>8, <1>9, <1>10, <1>11, <1>12, <1>13, <1>14,
     <1>15, <1>16, <1>17, PollFrame DEF Startup, Poll

\* processOne: a task that may still be claimed has an attempt left before the limit.
LEMMA AttemptsStep ==
  TypeOK /\ AttemptsLeft /\ [Next]_vars => AttemptsLeft'
<1> SUFFICES ASSUME TypeOK, AttemptsLeft, [Next]_vars PROVE AttemptsLeft'
  OBVIOUS
<1>1. ASSUME NEW p \in Procs, CommitCheckpoint(p) PROVE AttemptsLeft'
  <2>1. attempts' = attempts
    BY <1>1 DEF CommitCheckpoint, tasks
  <2>2. \A u \in Updates : task'[u] \in {"none", "pending"} => task[u] \in {"none", "pending"}
    BY <1>1 DEF CommitCheckpoint, tasks
  <2> QED
    BY <2>1, <2>2 DEF AttemptsLeft
<1>2. ASSUME NEW p \in Procs, Crash(p) PROVE AttemptsLeft'
  BY <1>2 DEF Crash, AttemptsLeft, TypeOK, Goto, Fault, telegram, tasks,
     intake
<1>3. ASSUME NEW w \in Workers, Claim(w) PROVE AttemptsLeft'
  BY <1>3 DEF Claim, AttemptsLeft, TypeOK, telegram, tasks, intake, locks,
     poller
<1>4. ASSUME NEW w \in Workers, IngestOk(w) PROVE AttemptsLeft'
  BY <1>4 DEF IngestOk, AttemptsLeft, TypeOK, Release, telegram, intake,
     locks, poller
<1>5. ASSUME NEW w \in Workers, IngestFail(w) PROVE AttemptsLeft'
  BY <1>5, BoundAssumption DEF IngestFail, AttemptsLeft, TypeOK,
     Release, telegram, intake, locks, poller
<1>6. ASSUME NEW w \in Workers, WorkerAbort(w) PROVE AttemptsLeft'
  BY <1>6 DEF WorkerAbort, AttemptsLeft, TypeOK, Release, Fault,
     telegram, tasks, intake, locks, poller
<1>7. ASSUME NEW u \in Updates, RetryTask(u) PROVE AttemptsLeft'
  BY <1>7, BoundAssumption DEF RetryTask, AttemptsLeft, TypeOK,
     telegram, intake, locks, poller
<1>8. ASSUME NEW u \in Updates, SkipTask(u) PROVE AttemptsLeft'
  BY <1>8 DEF SkipTask, AttemptsLeft, TypeOK, telegram, intake, locks,
     poller
<1>9. CASE UNCHANGED <<task, attempts, claim>>
  BY <1>9 DEF AttemptsLeft, TypeOK
<1> QED
  BY <1>1, <1>2, <1>3, <1>4, <1>5, <1>6, <1>7, <1>8, <1>9, TaskFrame

\* run: a response whose offset is still the stored cursor continues it without a gap that
\* Telegram did not make.
LEMMA BatchStep ==
  TypeOK /\ RowLock /\ CursorDivides /\ BatchFollowsCursor /\ [Next]_vars => BatchFollowsCursor'
<1> SUFFICES ASSUME TypeOK, RowLock, CursorDivides, BatchFollowsCursor,
                    [Next]_vars
             PROVE  BatchFollowsCursor'
  OBVIOUS
<1>1. ASSUME NEW p \in Procs, ReplyBelowOffset(p) PROVE BatchFollowsCursor'
  <2>1. PICK u \in Updates : u < offset[p] /\ batch' = [batch EXCEPT ![p] = [first |-> u, last |-> u, ids |-> {u}]]
    BY <1>1 DEF ReplyBelowOffset
  <2>2. OlderThanOffset(p)'
    BY <1>1, <2>1 DEF ReplyBelowOffset, OlderThanOffset, Ids, TypeOK, Updates
  <2> QED
    BY <1>1, <2>1, <2>2 DEF ReplyBelowOffset, BatchFollowsCursor, Resumes, Missing, OlderThanOffset,
       TypeOK, Goto, Ids, telegram, intake
<1>2. ASSUME NEW p \in Procs, AcquirePollerLock(p) PROVE BatchFollowsCursor'
  BY <1>2 DEF AcquirePollerLock, BatchFollowsCursor, Resumes, Missing, OlderThanOffset, TypeOK, Ids,
     Starting, Loop, Handling, telegram, tasks, intake
<1>3. ASSUME NEW p \in Procs, Authenticate(p) PROVE BatchFollowsCursor'
  BY <1>3 DEF Authenticate, BatchFollowsCursor, Resumes, Missing, OlderThanOffset, TypeOK, Ids, Starting,
     Loop, Handling, telegram, tasks, intake, locks
<1>4. ASSUME NEW p \in Procs, ClaimRuntime(p) PROVE BatchFollowsCursor'
  BY <1>4 DEF ClaimRuntime, BatchFollowsCursor, Resumes, Missing, OlderThanOffset, TypeOK, Ids, Starting,
     Loop, Handling, telegram, tasks, intake
<1>5. ASSUME NEW p \in Procs, BindBot(p) PROVE BatchFollowsCursor'
  BY <1>5 DEF BindBot, BatchFollowsCursor, Resumes, Missing, OlderThanOffset, TypeOK, Ids, Starting, Loop,
     Handling, telegram, tasks, intake, locks
<1>6. ASSUME NEW p \in Procs, AbortStartup(p) PROVE BatchFollowsCursor'
  BY <1>6 DEF AbortStartup, BatchFollowsCursor, Resumes, Missing, OlderThanOffset, TypeOK, Ids, Starting,
     Loop, Handling, telegram, tasks, intake
<1>7. ASSUME NEW p \in Procs, AssertBeforePoll(p) PROVE BatchFollowsCursor'
  BY <1>7 DEF AssertBeforePoll, BatchFollowsCursor, Resumes, Missing, OlderThanOffset, TypeOK, Goto,
     Ids, Starting, Loop, Handling, telegram, tasks, intake, locks
<1>8. ASSUME NEW p \in Procs, GetUpdates(p) PROVE BatchFollowsCursor'
  <2>1. oldest' = Larger(oldest, offset[p]) /\ oldest' \in Int /\ Missing' = Missing /\ cursor' = cursor
    BY <1>8, BoundAssumption DEF GetUpdates, TypeOK, Larger, Offsets, Missing, intake
  <2>2. ASSUME NEW q \in Procs, q # p,
               pc'[q] \in Handling, offset'[q] = cursor', Ids(batch'[q]) # {}, ~OlderThanOffset(q)'
        PROVE  Resumes(q)'
    <3>1. pc'[q] = pc[q] /\ offset' = offset /\ batch'[q] = batch[q]
      BY <1>8, <2>2 DEF GetUpdates, Goto, TypeOK
    <3> QED
      BY <2>1, <2>2, <3>1 DEF BatchFollowsCursor, Resumes, OlderThanOffset
  <2>3. ASSUME offset'[p] = cursor', Ids(batch'[p]) # {}
        PROVE  Resumes(p)'
    <3> DEFINE held == (oldest' .. published) \ absent
    <3>1. offset[p] = cursor
      BY <1>8, <2>1, <2>3 DEF GetUpdates
    <3>2. PICK b \in Oldest(held) : batch' = [batch EXCEPT ![p] = b]
      BY <1>8 DEF GetUpdates
    <3>3. batch'[p] = b /\ published \in 0 .. MaxUpdate
      BY <3>2 DEF TypeOK
    <3>4. held \subseteq Updates
      BY <2>1, <3>3, BoundAssumption DEF TypeOK, Updates, Larger, Offsets
    <3>5. b.first \in held /\ b.last \in held /\ \A u \in held : u <= b.last => u \in Ids(b)
      BY <2>3, <3>3, <3>4, OldestUpdates
    <3>6. cursor <= oldest' /\ oldest' <= b.first /\ b.last <= published
      BY <2>1, <3>1, <3>5 DEF Larger, TypeOK, Offsets
    <3>7. ASSUME NEW u \in Updates, cursor <= u, u <= b.last PROVE u \in Ids(b) \/ u \in Missing
      <4>1. CASE u < oldest'
        <5>1. u < oldest /\ ~(u < cursor)
          BY <2>1, <3>1, <3>7, <4>1 DEF Larger, TypeOK, Offsets, Updates
        <5> QED BY <5>1 DEF CursorDivides
      <4>2. CASE ~(u < oldest')
        <5>1. u \in oldest' .. published
          BY <2>1, <3>3, <3>5, <3>6, <3>7, <4>2 DEF Updates
        <5> QED BY <3>5, <3>7, <5>1 DEF Missing
      <4> QED BY <4>1, <4>2
    <3>8. cursor <= b.first
      BY <2>1, <3>5, <3>6 DEF TypeOK, Offsets
    <3> QED
      BY <2>1, <3>3, <3>7, <3>8 DEF Resumes
  <2> QED
    BY <2>2, <2>3 DEF BatchFollowsCursor
<1>9. ASSUME NEW p \in Procs, RecordTelegramSuccess(p) PROVE BatchFollowsCursor'
  BY <1>9 DEF RecordTelegramSuccess, BatchFollowsCursor, Resumes, Missing,
     OlderThanOffset, TypeOK, Goto, Ids, Starting, Loop, Handling, telegram, tasks, intake, locks
<1>10. ASSUME NEW p \in Procs, AssertBeforeCheckpoint(p) PROVE BatchFollowsCursor'
  BY <1>10 DEF AssertBeforeCheckpoint, BatchFollowsCursor, Resumes, Missing,
     OlderThanOffset, TypeOK, Goto, Ids, Starting, Loop, Handling, telegram, tasks, intake, locks
<1>11. ASSUME NEW p \in Procs, BeginCheckpoint(p) PROVE BatchFollowsCursor'
  BY <1>11 DEF BeginCheckpoint, BatchFollowsCursor, Resumes, Missing, OlderThanOffset, TypeOK, Goto,
     Ids, Starting, Loop, Handling, telegram, tasks, intake
<1>12. ASSUME NEW p \in Procs, CommitCheckpoint(p) PROVE BatchFollowsCursor'
  <2>1. \A q \in Procs : q # p => pc'[q] = pc[q] /\ offset'[q] = offset[q] /\ batch'[q] = batch[q]
    BY <1>12 DEF CommitCheckpoint, Goto, TypeOK
  <2>2. pc'[p] \notin Handling /\ Missing' = Missing
    BY <1>12 DEF CommitCheckpoint, Goto, TypeOK, Handling, Missing, telegram
  <2>3. cursor' = cursor \/ cursor < cursor'
    BY <1>12, BoundAssumption DEF CommitCheckpoint, NextCursor, TypeOK, Batches, Offsets, intake
  <2>4. \A q \in Procs : offset[q] <= cursor /\ offset[q] \in Int /\ cursor \in Int /\ cursor' \in Int
    BY <1>12, BoundAssumption DEF RowLock, TypeOK, Offsets, CommitCheckpoint, NextCursor,
       Batches, intake
  <2>5. ASSUME NEW q \in Procs, pc'[q] \in Handling, offset'[q] = cursor', Ids(batch'[q]) # {}, ~OlderThanOffset(q)'
        PROVE  Resumes(q)'
    <3>1. q # p
      BY <2>2, <2>5
    <3>2. cursor' = cursor
      BY <2>1, <2>3, <2>4, <2>5, <3>1
    <3> QED
      BY <2>1, <2>2, <2>5, <3>1, <3>2 DEF BatchFollowsCursor, Resumes, OlderThanOffset
  <2> QED
    BY <2>5 DEF BatchFollowsCursor
<1>13. ASSUME NEW p \in Procs, EndPoller(p) PROVE BatchFollowsCursor'
  BY <1>13 DEF EndPoller, BatchFollowsCursor, Resumes, Missing, OlderThanOffset, TypeOK, Goto, Ids, Starting,
     Loop, Handling, PollerMustEnd, telegram, tasks, intake, locks
<1>14. ASSUME NEW p \in Procs, StopWorkers(p) PROVE BatchFollowsCursor'
  BY <1>14 DEF StopWorkers, BatchFollowsCursor, Resumes, Missing, OlderThanOffset, TypeOK, Goto, Ids,
     Starting, Loop, Handling, telegram, tasks, intake, locks
<1>15. ASSUME NEW p \in Procs, FinishStop(p) PROVE BatchFollowsCursor'
  BY <1>15 DEF FinishStop, BatchFollowsCursor, Resumes, Missing, OlderThanOffset, TypeOK, Goto, Ids,
     Starting, Loop, Handling, telegram, tasks, intake
<1>16. ASSUME NEW p \in Procs, Crash(p) PROVE BatchFollowsCursor'
  BY <1>16 DEF Crash, BatchFollowsCursor, Resumes, Missing, OlderThanOffset, TypeOK, Goto, Fault, Ids, Starting,
     Loop, Handling, telegram, tasks, intake
<1>17. CASE UNCHANGED <<pc, offset, cursor, cursorLock, batch, accepted>> /\ Missing \subseteq Missing'
  BY <1>17 DEF BatchFollowsCursor, Resumes, OlderThanOffset, TypeOK, Ids, Starting, Loop, Handling
<1> QED
  BY <1>1, <1>2, <1>3, <1>4, <1>5, <1>6, <1>7, <1>8, <1>9, <1>10, <1>11, <1>12, <1>13, <1>14,
     <1>15, <1>16, <1>17, PollFrame DEF Startup, Poll

\* checkpointBatch: the cursor moves together with the tasks of everything it passes, and a
\* request confirms no update above it.
LEMMA CursorStep ==
  TypeOK /\ RowLock /\ BatchFollowsCursor /\ AcceptedInBatch /\ ClaimsAreHeads /\ CursorDivides
    /\ [Next]_vars => CursorDivides'
<1> SUFFICES ASSUME TypeOK, RowLock, BatchFollowsCursor, AcceptedInBatch, ClaimsAreHeads,
                    CursorDivides,
                    [Next]_vars
             PROVE  CursorDivides'
  OBVIOUS
<1>1. CASE Expire
  <2>1. oldest' = oldest + 1 /\ Missing' = Missing \union {oldest} /\ oldest \in Int
    BY <1>1, BoundAssumption DEF Expire, TypeOK, Missing
  <2>2. UNCHANGED <<cursor, task, ignored>>
    BY <1>1 DEF Expire, tasks, intake
  <2>3. \A u \in Updates : u < oldest' => u < oldest \/ u = oldest
    BY <2>1 DEF Updates
  <2> QED
    BY <2>1, <2>2, <2>3 DEF CursorDivides, Recorded
<1>10. CASE Publish
  <2>1. UNCHANGED <<cursor, task, ignored, oldest>> /\ Missing \subseteq Missing'
    BY <1>10 DEF Publish, tasks, intake, Missing
  <2> QED
    BY <2>1 DEF CursorDivides, Recorded
<1>2. ASSUME NEW p \in Procs, GetUpdates(p) PROVE CursorDivides'
  <2>1. UNCHANGED <<cursor, task, ignored, Missing>>
    BY <1>2 DEF GetUpdates, tasks, intake, Missing
  <2>2. \A u \in Updates : u < oldest' => u < oldest \/ u < cursor
    BY <1>2 DEF GetUpdates, RowLock, TypeOK, Larger, Offsets, Updates
  <2> QED
    BY <2>1, <2>2 DEF CursorDivides, Recorded
<1>3. ASSUME NEW p \in Procs, LoseReply(p) PROVE CursorDivides'
  <2>1. UNCHANGED <<cursor, task, ignored, Missing>>
    BY <1>3 DEF LoseReply, tasks, intake, Missing
  <2>2. \A u \in Updates : u < oldest' => u < oldest \/ u < cursor
    BY <1>3 DEF LoseReply, RowLock, TypeOK, Larger, Offsets, Updates
  <2> QED
    BY <2>1, <2>2 DEF CursorDivides, Recorded
<1>4. ASSUME NEW p \in Procs, CommitCheckpoint(p) PROVE CursorDivides'
  <2>1. CASE Ids(batch[p]) = {}
    BY <1>4, <2>1 DEF CommitCheckpoint, CursorDivides, Recorded, Missing, telegram, tasks, intake
  <2>2. CASE Ids(batch[p]) # {}
    <3> DEFINE first == batch[p].first last == batch[p].last
    <3>1. first \in Updates /\ last \in Updates /\ first <= last
      BY SMTT(30), <2>2, BoundAssumption DEF TypeOK, Batches, Ids, Updates
    <3>2. cursor <= first /\ \A u \in Updates : cursor <= u /\ u <= last => u \in Ids(batch[p]) \/ u \in Missing
      BY <1>4, <2>2 DEF CommitCheckpoint, RowLock, BatchFollowsCursor, Resumes, Handling
    <3>3. cursor' = last + 1 /\ cursor \in Int
      BY <1>4, <2>2, <3>1, <3>2, BoundAssumption DEF CommitCheckpoint, NextCursor, TypeOK,
         Offsets, Updates
    <3>4. task' = [u \in Updates |-> IF u \in accepted[p] /\ task[u] = "none" THEN "pending" ELSE task[u]]
      BY <1>4, <2>2 DEF CommitCheckpoint
    <3>5. ignored' = ignored \union (Ids(batch[p]) \ accepted[p]) /\ UNCHANGED <<oldest, Missing>>
      BY <1>4, <2>2 DEF CommitCheckpoint, Missing, telegram
    <3>6. accepted[p] \subseteq first .. last
      BY DEF AcceptedInBatch, Ids, TypeOK, Batches
    <3> HIDE DEF first, last
    <3>7. ASSUME NEW u \in Updates, u < cursor' PROVE (Recorded(u) \/ u \in Missing)'
      <4>1. CASE u < cursor
        BY <3>4, <3>5, <4>1 DEF CursorDivides, Recorded
      <4>2. CASE cursor <= u
        <5>1. u \in Ids(batch[p]) \/ u \in Missing
          BY <3>1, <3>2, <3>3, <3>7, <4>2 DEF Updates
        <5> QED
          BY <3>4, <3>5, <5>1 DEF Recorded
      <4> QED BY <3>3, <4>1, <4>2 DEF Updates
    <3>8. ASSUME NEW u \in Updates, task'[u] # "none" PROVE u < cursor'
      <4>1. CASE u \in accepted[p]
        BY <3>1, <3>3, <3>6, <4>1 DEF Updates
      <4>2. CASE u \notin accepted[p]
        BY <3>1, <3>2, <3>3, <3>4, <3>8, <4>2 DEF CursorDivides, Updates
      <4> QED
        BY <4>1, <4>2
    <3>9. \A u \in Updates : u < oldest' => u < cursor' \/ u \in Missing'
      BY <3>1, <3>2, <3>3, <3>5 DEF CursorDivides, Updates
    <3> QED
      BY <3>7, <3>8, <3>9 DEF CursorDivides
  <2> QED
    BY <2>1, <2>2
<1>5. ASSUME NEW w \in Workers, IngestOk(w) PROVE CursorDivides'
  BY <1>5 DEF IngestOk, CursorDivides, Recorded, Missing, TypeOK, Release, telegram,
     intake, locks, poller, TypeOK, ClaimsAreHeads
<1>6. ASSUME NEW w \in Workers, IngestFail(w) PROVE CursorDivides'
  BY <1>6 DEF IngestFail, CursorDivides, Recorded, Missing, TypeOK, Release,
     telegram, intake, locks, poller, TypeOK, ClaimsAreHeads
<1>7. ASSUME NEW u \in Updates, RetryTask(u) PROVE CursorDivides'
  BY <1>7 DEF RetryTask, CursorDivides, Recorded, Missing, TypeOK, telegram,
     intake, locks, poller
<1>8. ASSUME NEW u \in Updates, SkipTask(u) PROVE CursorDivides'
  BY <1>8 DEF SkipTask, CursorDivides, Recorded, Missing, TypeOK, telegram, intake,
     locks, poller
<1>9. CASE UNCHANGED <<task, ignored, cursor, oldest, expired, absent>>
  BY <1>9 DEF CursorDivides, Recorded, Missing, TypeOK
<1> QED
  BY <1>1, <1>2, <1>3, <1>4, <1>5, <1>6, <1>7, <1>8, <1>9, <1>10, CursorFrame

\* processOne: a claimed task stays pending and first of its channel until its transaction
\* ends, because later inserts are above the cursor.
LEMMA ClaimsStep ==
  TypeOK /\ RowLock /\ BatchFollowsCursor /\ AcceptedInBatch /\ CursorDivides /\ ClaimsAreHeads
    /\ [Next]_vars => ClaimsAreHeads'
<1> SUFFICES ASSUME TypeOK, RowLock, BatchFollowsCursor, AcceptedInBatch, CursorDivides,
                    ClaimsAreHeads,
                    [Next]_vars
             PROVE  ClaimsAreHeads'
  OBVIOUS
<1>1. ASSUME NEW p \in Procs, CommitCheckpoint(p) PROVE ClaimsAreHeads'
  <2>1. \A v \in Updates : task'[v] = task[v] \/ (task[v] = "none" /\ task'[v] = "pending")
    <3>1. CASE Ids(batch[p]) = {}
      BY <1>1, <3>1 DEF CommitCheckpoint, tasks, intake
    <3>2. CASE Ids(batch[p]) # {}
      <4>1. task' = [v \in Updates |-> IF v \in accepted[p] /\ task[v] = "none" THEN "pending" ELSE task[v]]
        BY <1>1, <3>2 DEF CommitCheckpoint
      <4> QED
        BY <4>1
    <3> QED
      BY <3>1, <3>2
  <2>2. \A v \in Updates : task'[v] # task[v] => cursor <= v
    <3>1. CASE Ids(batch[p]) = {}
      BY <1>1, <3>1 DEF CommitCheckpoint, tasks
    <3>2. CASE Ids(batch[p]) # {}
      <4>1. cursor <= batch[p].first /\ accepted[p] \subseteq Ids(batch[p])
        BY <1>1, <3>2 DEF CommitCheckpoint, RowLock, BatchFollowsCursor, Resumes, Handling,
           AcceptedInBatch
      <4>2. \A v \in Updates : task'[v] # task[v] => v \in Ids(batch[p])
        BY <1>1, <3>2, <4>1 DEF CommitCheckpoint
      <4>5. batch[p] \in Batches /\ cursor \in Offsets
        BY DEF TypeOK
      <4>3. batch[p].first \in Int /\ batch[p].last \in Int /\ cursor \in Int
        BY <4>5, BoundAssumption DEF Batches, Offsets, Updates
      <4>4. Ids(batch[p]) \subseteq batch[p].first .. batch[p].last
        BY <4>5 DEF Batches, Ids
      <4> QED
        BY <4>1, <4>2, <4>3, <4>4 DEF Updates
    <3> QED
      BY <3>1, <3>2
  <2>3. \A v \in Updates : task[v] # "none" => v < cursor /\ task'[v] = task[v]
    BY <2>1 DEF CursorDivides
  <2>4. \A v \in Updates : \A u \in EarlierInChannel(v) : task[v] # "none" => (Live(u)' => Live(u))
    <3> SUFFICES ASSUME NEW v \in Updates, NEW u \in EarlierInChannel(v), task[v] # "none", Live(u)'
                 PROVE  Live(u)
      OBVIOUS
    <3>1. u \in Updates /\ u < v /\ v < cursor /\ cursor \in Int
      BY <2>3 DEF EarlierInChannel, TypeOK, Offsets
    <3>2. task'[u] = task[u]
      BY <2>2, <3>1 DEF Updates
    <3> QED
      BY <3>2 DEF Live
  <2>5. UNCHANGED claim
    BY <1>1 DEF CommitCheckpoint
  <2> QED
    BY <2>3, <2>4, <2>5 DEF ClaimsAreHeads, TypeOK, EarlierInChannel
<1>2. ASSUME NEW p \in Procs, Crash(p) PROVE ClaimsAreHeads'
  BY <1>2 DEF Crash, ClaimsAreHeads, Live, EarlierInChannel, TypeOK, Goto,
     Fault, telegram, tasks, intake
<1>3. ASSUME NEW w \in Workers, Claim(w) PROVE ClaimsAreHeads'
  <2>1. PICK u \in Updates : Claimable(u) /\ claim' = [claim EXCEPT ![w] = u]
    BY <1>3 DEF Claim
  <2>2. UNCHANGED task
    BY <1>3 DEF Claim, tasks
  <2>3. task[u] = "pending" /\ (\A v \in EarlierInChannel(u) : ~Live(v)) /\ \A x \in Workers : claim[x] # u
    BY <2>1 DEF Claimable
  <2> QED
    BY <2>1, <2>2, <2>3 DEF ClaimsAreHeads, Live, EarlierInChannel, TypeOK
<1>4. ASSUME NEW w \in Workers, IngestOk(w) PROVE ClaimsAreHeads'
  <2>1. claim[w] \in Updates /\ task[claim[w]] = "pending"
    BY <1>4 DEF IngestOk, TypeOK, ClaimsAreHeads
  <2>2. \A v \in Updates : v # claim[w] => task'[v] = task[v]
    BY <1>4 DEF IngestOk, TypeOK
  <2>3. claim' = [claim EXCEPT ![w] = 0]
    BY <1>4 DEF IngestOk, Release
  <2>4. \A v \in Updates : Live(v)' => Live(v)
    BY <2>1, <2>2 DEF Live
  <2>5. \A x \in Workers : claim'[x] # 0 => x # w /\ claim'[x] = claim[x] /\ claim[x] # claim[w]
    BY <2>3 DEF ClaimsAreHeads, TypeOK
  <2> QED
    BY <2>2, <2>4, <2>5 DEF ClaimsAreHeads, TypeOK, EarlierInChannel
<1>5. ASSUME NEW w \in Workers, IngestFail(w) PROVE ClaimsAreHeads'
  <2>1. claim[w] \in Updates /\ task[claim[w]] = "pending"
    BY <1>5 DEF IngestFail, TypeOK, ClaimsAreHeads
  <2>2. \A v \in Updates : v # claim[w] => task'[v] = task[v]
    BY <1>5 DEF IngestFail, TypeOK
  <2>3. claim' = [claim EXCEPT ![w] = 0]
    BY <1>5 DEF IngestFail, Release
  <2>4. \A v \in Updates : Live(v)' => Live(v)
    BY <2>1, <2>2 DEF Live
  <2>5. \A x \in Workers : claim'[x] # 0 => x # w /\ claim'[x] = claim[x] /\ claim[x] # claim[w]
    BY <2>3 DEF ClaimsAreHeads, TypeOK
  <2> QED
    BY <2>2, <2>4, <2>5 DEF ClaimsAreHeads, TypeOK, EarlierInChannel
<1>6. ASSUME NEW w \in Workers, WorkerAbort(w) PROVE ClaimsAreHeads'
  BY <1>6 DEF WorkerAbort, ClaimsAreHeads, Live, EarlierInChannel,
     TypeOK, Release, Fault, telegram, tasks, intake, locks, poller
<1>7. ASSUME NEW u \in Updates, RetryTask(u) PROVE ClaimsAreHeads'
  <2>1. task[u] = "blocked" /\ UNCHANGED claim
    BY <1>7 DEF RetryTask
  <2>2. \A v \in Updates : Live(v)' => Live(v)
    BY <1>7, <2>1 DEF RetryTask, Live, TypeOK
  <2>3. \A v \in Updates : task[v] = "pending" => task'[v] = "pending"
    BY <1>7, <2>1 DEF RetryTask, TypeOK
  <2> QED
    BY <2>1, <2>2, <2>3 DEF ClaimsAreHeads, TypeOK, EarlierInChannel
<1>8. ASSUME NEW u \in Updates, SkipTask(u) PROVE ClaimsAreHeads'
  <2>1. task[u] = "blocked" /\ UNCHANGED claim
    BY <1>8 DEF SkipTask
  <2>2. \A v \in Updates : Live(v)' => Live(v)
    BY <1>8, <2>1 DEF SkipTask, Live, TypeOK
  <2>3. \A v \in Updates : task[v] = "pending" => task'[v] = "pending"
    BY <1>8, <2>1 DEF SkipTask, TypeOK
  <2> QED
    BY <2>1, <2>2, <2>3 DEF ClaimsAreHeads, TypeOK, EarlierInChannel
<1>9. CASE UNCHANGED <<task, attempts, claim>>
  BY <1>9 DEF ClaimsAreHeads, Live, EarlierInChannel, TypeOK
<1> QED
  BY <1>1, <1>2, <1>3, <1>4, <1>5, <1>6, <1>7, <1>8, <1>9, TaskFrame

\* processOne, retryTask, skipTask: only the first live task of a channel is processed, blocked
\* or skipped.
LEMMA DecidedStep ==
  TypeOK /\ RowLock /\ BatchFollowsCursor /\ AcceptedInBatch /\ CursorDivides /\ ClaimsAreHeads /\ DecidedAreHeads
    /\ [Next]_vars => DecidedAreHeads'
<1> SUFFICES ASSUME TypeOK, RowLock, BatchFollowsCursor, AcceptedInBatch, CursorDivides,
                    ClaimsAreHeads, DecidedAreHeads,
                    [Next]_vars
             PROVE  DecidedAreHeads'
  OBVIOUS
<1>1. ASSUME NEW p \in Procs, CommitCheckpoint(p) PROVE DecidedAreHeads'
  <2>1. \A v \in Updates : task'[v] = task[v] \/ (task[v] = "none" /\ task'[v] = "pending")
    <3>1. CASE Ids(batch[p]) = {}
      BY <1>1, <3>1 DEF CommitCheckpoint, tasks, intake
    <3>2. CASE Ids(batch[p]) # {}
      <4>1. task' = [v \in Updates |-> IF v \in accepted[p] /\ task[v] = "none" THEN "pending" ELSE task[v]]
        BY <1>1, <3>2 DEF CommitCheckpoint
      <4> QED
        BY <4>1
    <3> QED
      BY <3>1, <3>2
  <2>2. \A v \in Updates : task'[v] # task[v] => cursor <= v
    <3>1. CASE Ids(batch[p]) = {}
      BY <1>1, <3>1 DEF CommitCheckpoint, tasks
    <3>2. CASE Ids(batch[p]) # {}
      <4>1. cursor <= batch[p].first /\ accepted[p] \subseteq Ids(batch[p])
        BY <1>1, <3>2 DEF CommitCheckpoint, RowLock, BatchFollowsCursor, Resumes, Handling,
           AcceptedInBatch
      <4>2. \A v \in Updates : task'[v] # task[v] => v \in Ids(batch[p])
        BY <1>1, <3>2, <4>1 DEF CommitCheckpoint
      <4>5. batch[p] \in Batches /\ cursor \in Offsets
        BY DEF TypeOK
      <4>3. batch[p].first \in Int /\ batch[p].last \in Int /\ cursor \in Int
        BY <4>5, BoundAssumption DEF Batches, Offsets, Updates
      <4>4. Ids(batch[p]) \subseteq batch[p].first .. batch[p].last
        BY <4>5 DEF Batches, Ids
      <4> QED
        BY <4>1, <4>2, <4>3, <4>4 DEF Updates
    <3> QED
      BY <3>1, <3>2
  <2>3. \A v \in Updates : task[v] # "none" => v < cursor /\ task'[v] = task[v]
    BY <2>1 DEF CursorDivides
  <2>4. \A v \in Updates : \A u \in EarlierInChannel(v) : task[v] # "none" => (Live(u)' => Live(u))
    <3> SUFFICES ASSUME NEW v \in Updates, NEW u \in EarlierInChannel(v), task[v] # "none", Live(u)'
                 PROVE  Live(u)
      OBVIOUS
    <3>1. u \in Updates /\ u < v /\ v < cursor /\ cursor \in Int
      BY <2>3 DEF EarlierInChannel, TypeOK, Offsets
    <3>2. task'[u] = task[u]
      BY <2>2, <3>1 DEF Updates
    <3> QED
      BY <3>2 DEF Live
  <2>5. \A v \in Updates : task'[v] \in {"processed", "skipped", "blocked"} =>
            task[v] \in {"processed", "skipped", "blocked"}
    BY <2>1
  <2> QED
    BY <2>4, <2>5 DEF DecidedAreHeads, EarlierInChannel
<1>2. ASSUME NEW p \in Procs, Crash(p) PROVE DecidedAreHeads'
  BY <1>2 DEF Crash, DecidedAreHeads, Live, EarlierInChannel, TypeOK, Goto,
     Fault, telegram, tasks, intake
<1>3. ASSUME NEW w \in Workers, Claim(w) PROVE DecidedAreHeads'
  BY <1>3 DEF Claim, DecidedAreHeads, Live, EarlierInChannel, TypeOK,
     telegram, tasks, intake, locks, poller
<1>4. ASSUME NEW w \in Workers, IngestOk(w) PROVE DecidedAreHeads'
  <2>1. claim[w] \in Updates /\ task[claim[w]] = "pending" /\ \A v \in EarlierInChannel(claim[w]) : ~Live(v)
    BY <1>4 DEF IngestOk, TypeOK, ClaimsAreHeads
  <2>2. \A v \in Updates : v # claim[w] => task'[v] = task[v]
    BY <1>4 DEF IngestOk, TypeOK
  <2>3. \A v \in Updates : Live(v)' => Live(v)
    BY <2>1, <2>2 DEF Live
  <2> QED
    BY <2>1, <2>2, <2>3 DEF DecidedAreHeads, EarlierInChannel
<1>5. ASSUME NEW w \in Workers, IngestFail(w) PROVE DecidedAreHeads'
  <2>1. claim[w] \in Updates /\ task[claim[w]] = "pending" /\ \A v \in EarlierInChannel(claim[w]) : ~Live(v)
    BY <1>5 DEF IngestFail, TypeOK, ClaimsAreHeads
  <2>2. \A v \in Updates : v # claim[w] => task'[v] = task[v]
    BY <1>5 DEF IngestFail, TypeOK
  <2>3. \A v \in Updates : Live(v)' => Live(v)
    BY <2>1, <2>2 DEF Live
  <2> QED
    BY <2>1, <2>2, <2>3 DEF DecidedAreHeads, EarlierInChannel
<1>6. ASSUME NEW w \in Workers, WorkerAbort(w) PROVE DecidedAreHeads'
  BY <1>6 DEF WorkerAbort, DecidedAreHeads, Live, EarlierInChannel,
     TypeOK, Release, Fault, telegram, tasks, intake, locks, poller
<1>7. ASSUME NEW u \in Updates, RetryTask(u) PROVE DecidedAreHeads'
  <2>1. task[u] = "blocked" /\ \A v \in Updates : v # u => task'[v] = task[v]
    BY <1>7 DEF RetryTask, TypeOK
  <2>2. \A v \in Updates : Live(v)' => Live(v)
    BY <2>1 DEF Live
  <2>3. \A v \in Updates : task'[v] \in {"processed", "skipped", "blocked"} => task[v] \in {"processed", "skipped", "blocked"}
    BY <2>1
  <2> QED
    BY <2>2, <2>3 DEF DecidedAreHeads, EarlierInChannel
<1>8. ASSUME NEW u \in Updates, SkipTask(u) PROVE DecidedAreHeads'
  <2>1. task[u] = "blocked" /\ \A v \in Updates : v # u => task'[v] = task[v]
    BY <1>8 DEF SkipTask, TypeOK
  <2>2. \A v \in Updates : Live(v)' => Live(v)
    BY <2>1 DEF Live
  <2>3. \A v \in Updates : task'[v] \in {"processed", "skipped", "blocked"} => task[v] \in {"processed", "skipped", "blocked"}
    BY <2>1
  <2> QED
    BY <2>2, <2>3 DEF DecidedAreHeads, EarlierInChannel
<1>9. CASE UNCHANGED <<task, attempts, claim>>
  BY <1>9 DEF DecidedAreHeads, Live, EarlierInChannel, TypeOK
<1> QED
  BY <1>1, <1>2, <1>3, <1>4, <1>5, <1>6, <1>7, <1>8, <1>9, TaskFrame

\* A task row changes only when it is inserted, by the loop that claimed it, or by the
\* administrator once it is blocked.
LEMMA OnlyClaimedOrBlockedChange ==
  TypeOK /\ [Next]_vars =>
    \A v \in Updates : task'[v] # task[v] =>
        task[v] \in {"none", "blocked"} \/ \E w \in Workers : claim[w] = v
<1> SUFFICES ASSUME TypeOK,
                    [Next]_vars
             PROVE  \A v \in Updates : task'[v] # task[v] =>
           task[v] \in {"none", "blocked"} \/ \E x \in Workers : claim[x] = v
  OBVIOUS
<1>1. ASSUME NEW p \in Procs, CommitCheckpoint(p) PROVE \A v \in Updates : task'[v] # task[v] =>
           task[v] \in {"none", "blocked"} \/ \E x \in Workers : claim[x] = v
  <2>1. CASE Ids(batch[p]) = {}
    BY <1>1, <2>1 DEF CommitCheckpoint, tasks, intake
  <2>2. CASE Ids(batch[p]) # {}
    <3>1. task' = [x \in Updates |-> IF x \in accepted[p] /\ task[x] = "none" THEN "pending" ELSE task[x]]
      BY <1>1, <2>2 DEF CommitCheckpoint
    <3> QED
      BY <3>1
  <2> QED
    BY <2>1, <2>2
<1>2. ASSUME NEW p \in Procs, Crash(p) PROVE \A v \in Updates : task'[v] # task[v] =>
           task[v] \in {"none", "blocked"} \/ \E x \in Workers : claim[x] = v
  BY <1>2 DEF Crash, TypeOK, telegram, tasks, intake
<1>3. ASSUME NEW w \in Workers, Claim(w) PROVE \A v \in Updates : task'[v] # task[v] =>
           task[v] \in {"none", "blocked"} \/ \E x \in Workers : claim[x] = v
  BY <1>3 DEF Claim, TypeOK, telegram, tasks, intake, locks,
     poller
<1>4. ASSUME NEW w \in Workers, IngestOk(w) PROVE \A v \in Updates : task'[v] # task[v] =>
           task[v] \in {"none", "blocked"} \/ \E x \in Workers : claim[x] = v
  BY <1>4 DEF IngestOk, TypeOK, telegram, intake, locks,
     poller
<1>5. ASSUME NEW w \in Workers, IngestFail(w) PROVE \A v \in Updates : task'[v] # task[v] =>
           task[v] \in {"none", "blocked"} \/ \E x \in Workers : claim[x] = v
  BY <1>5 DEF IngestFail, TypeOK, telegram, intake,
     locks, poller
<1>6. ASSUME NEW w \in Workers, WorkerAbort(w) PROVE \A v \in Updates : task'[v] # task[v] =>
           task[v] \in {"none", "blocked"} \/ \E x \in Workers : claim[x] = v
  BY <1>6 DEF WorkerAbort, TypeOK, telegram, tasks,
     intake, locks, poller
<1>7. ASSUME NEW u \in Updates, RetryTask(u) PROVE \A v \in Updates : task'[v] # task[v] =>
           task[v] \in {"none", "blocked"} \/ \E x \in Workers : claim[x] = v
  BY <1>7 DEF RetryTask, TypeOK, telegram, intake, locks,
     poller
<1>8. ASSUME NEW u \in Updates, SkipTask(u) PROVE \A v \in Updates : task'[v] # task[v] =>
           task[v] \in {"none", "blocked"} \/ \E x \in Workers : claim[x] = v
  BY <1>8 DEF SkipTask, TypeOK, telegram, intake, locks,
     poller
<1>9. CASE UNCHANGED <<task, attempts, claim>>
  BY <1>9 DEF TypeOK
<1> QED
  BY <1>1, <1>2, <1>3, <1>4, <1>5, <1>6, <1>7, <1>8, <1>9, TaskFrame

\* A fresh database with no process running satisfies the inductive invariant.
THEOREM IInvInit == Init => IInv
  <1> SUFFICES ASSUME Init PROVE IInv
    OBVIOUS
  <1>1. TypeOK
    <2>1. cursor \in 0 .. MaxUpdate + 1
      BY BoundAssumption, CursorAssumption DEF Init
    <2> QED
      BY <2>1, NoBatchType, BoundAssumption DEF Init, TypeOK, Offsets, PCs, TaskStates, Updates
  <1>2. RowLock
    <2>1. cursor \in {0, 1}
      BY CursorAssumption DEF Init
    <2> QED
      BY <2>1, ProcAssumption DEF Init, RowLock
  <1>3. BatchFollowsCursor /\ AcceptedInBatch
    BY DEF Init, BatchFollowsCursor, AcceptedInBatch, NoBatch, Ids, Handling
  <1>4. CursorDivides
    BY CursorAssumption DEF Init, CursorDivides, Missing, Updates
  <1>5. AttemptsLeft
    BY BoundAssumption DEF Init, AttemptsLeft
  <1>6. ClaimsAreHeads /\ DecidedAreHeads
    BY DEF Init, ClaimsAreHeads, DecidedAreHeads
  <1> QED
    BY <1>1, <1>2, <1>3, <1>4, <1>5, <1>6 DEF IInv

\* Every step of pollers, worker loops, administrator, Telegram and faults keeps the invariant.
THEOREM IInvStep == IInv /\ [Next]_vars => IInv'
  BY TypeStep, RowLockStep, AcceptedStep, AttemptsStep, BatchStep, CursorStep, ClaimsStep,
     DecidedStep DEF IInv

\* The inductive invariant holds throughout.
THEOREM Invariance == Spec => []IInv
  BY IInvInit, IInvStep, PTL DEF Spec

\* The intake is type correct; above all attempt_count never passes its limit (processOne).
THEOREM TypeCorrect == Spec => []TypeOK
  <1>1. IInv => TypeOK
    BY DEF IInv
  <1> QED
    BY <1>1, Invariance, PTL

\* No request confirms to Telegram an update that is not durable yet (polling.ts run,
\* checkpointBatch), for any number of pollers, lost lock sessions and crashes.
THEOREM ConfirmedIsRecorded == Spec => []NothingConfirmedIsLost
  <1>1. IInv => NothingConfirmedIsLost
    BY DEF IInv, CursorDivides, NothingConfirmedIsLost
  <1> QED
    BY <1>1, Invariance, PTL

\* The updates of a channel are applied or skipped in update order (processOne, checkpointBatch).
THEOREM InChannelOrder == Spec => []ChannelOrder
  <1>1. IInv => ChannelOrder
    BY DEF IInv, DecidedAreHeads, ChannelOrder
  <1> QED
    BY <1>1, Invariance, PTL

\* No two loops work on one channel at a time (for update skip locked plus not exists).
THEOREM ClaimsAreExclusive == Spec => []OneClaimPerChannel
  <1>1. IInv => OneClaimPerChannel
    <2> SUFFICES ASSUME IInv, NEW w \in Workers, NEW x \in Workers, w # x, claim[w] # 0, claim[x] # 0,
                        ChannelOf[claim[w]] = ChannelOf[claim[x]]
                 PROVE  FALSE
      BY DEF OneClaimPerChannel
    <2>1. claim[w] \in Updates /\ claim[x] \in Updates /\ claim[w] # claim[x]
      BY DEF IInv, TypeOK, ClaimsAreHeads
    <2>2. Live(claim[w]) /\ Live(claim[x])
      BY DEF IInv, ClaimsAreHeads, Live
    <2>3. claim[w] \in EarlierInChannel(claim[x]) \/ claim[x] \in EarlierInChannel(claim[w])
      BY <2>1 DEF EarlierInChannel, Updates
    <2> QED
      BY <2>2, <2>3 DEF IInv, ClaimsAreHeads
  <1> QED
    BY <1>1, Invariance, PTL

\* Nothing overtakes a blocked task of its channel (processOne, retryTask, skipTask).
THEOREM BlockStaysInPlace == Spec => BlockedHoldsTheChannel
  <1> DEFINE Keeps == \A u, v \in Updates :
        task[u] = "blocked" /\ task'[u] = "blocked" /\ u \in EarlierInChannel(v)
            => task'[v] = task[v] \/ task[v] = "none"
  <1>1. IInv /\ [Next]_vars => Keeps
    <2> SUFFICES ASSUME IInv, [Next]_vars, NEW u \in Updates, NEW v \in Updates,
                        task[u] = "blocked", task'[u] = "blocked", u \in EarlierInChannel(v),
                        task'[v] # task[v]
                 PROVE  task[v] = "none"
      OBVIOUS
    <2>1. task[v] = "none" \/ (\E w \in Workers : claim[w] = v) \/ task[v] = "blocked"
      BY OnlyClaimedOrBlockedChange DEF IInv
    <2>2. Live(u)
      BY DEF Live
    <2>3. ~(\E w \in Workers : claim[w] = v)
      BY <2>2 DEF IInv, ClaimsAreHeads, Updates
    <2>4. task[v] # "blocked"
      BY <2>2 DEF IInv, DecidedAreHeads
    <2> QED
      BY <2>1, <2>3, <2>4
  <1> QED
    BY <1>1, Invariance, PTL DEF Spec, BlockedHoldsTheChannel

-----------------------------------------------------------------------------
(* The inbox that the intake implements.                                   *)

\* What the mapping makes of the intake: the first update not taken yet, and the fates.
Frontier == IF cursor = 0 THEN 1 ELSE cursor
AllFates == [u \in Updates |-> FateOf(u)]

\* The fate of an update, case by case.
LEMMA FateCases ==
  ASSUME NEW u \in Updates, task[u] \in TaskStates
  PROVE  /\ Live(u) <=> FateOf(u) = "waiting"
         /\ task[u] = "processed" => FateOf(u) = "applied"
         /\ task[u] = "skipped" => FateOf(u) = "skipped"
         /\ task[u] = "none" /\ u \in ignored => FateOf(u) = "ignored"
         /\ task[u] = "none" /\ u \notin ignored /\ u < cursor => FateOf(u) = "lost"
         /\ task[u] = "none" /\ u \notin ignored /\ ~(u < cursor) => FateOf(u) = "unseen"
BY DEF FateOf, Live, TaskStates

LEMMA NextFateCases ==
  ASSUME NEW u \in Updates, task'[u] \in TaskStates
  PROVE  /\ Live(u)' <=> FateOf(u)' = "waiting"
         /\ task'[u] = "processed" => FateOf(u)' = "applied"
         /\ task'[u] = "skipped" => FateOf(u)' = "skipped"
         /\ task'[u] = "none" /\ u \in ignored' => FateOf(u)' = "ignored"
         /\ task'[u] = "none" /\ u \notin ignored' /\ u < cursor' => FateOf(u)' = "lost"
         /\ task'[u] = "none" /\ u \notin ignored' /\ ~(u < cursor') => FateOf(u)' = "unseen"
BY DEF FateOf, Live, TaskStates

\* A database without tasks is an inbox that has taken nothing.
LEMMA InboxInit == Init => Promise!Init
<1> SUFFICES ASSUME Init PROVE Promise!Init
  OBVIOUS
<1>1. cursor \in {0, 1} /\ Missing = {}
  BY CursorAssumption DEF Init, Missing
<1>2. ASSUME NEW u \in Updates PROVE FateOf(u) = "unseen"
  <2>1. task[u] = "none" /\ u \notin ignored /\ ~(u < cursor)
    BY <1>1, BoundAssumption DEF Init, Updates
  <2> QED BY <2>1 DEF FateOf
<1>3. Promise!Updates = Updates
  BY DEF Promise!Updates, Updates
<1>4. [u \in Updates |-> FateOf(u)] = [u \in Promise!Updates |-> "unseen"]
  BY <1>2, <1>3
<1> QED BY <1>1, <1>4 DEF Promise!Init

\* A checkpoint takes up all ids to its new cursor: it has a task for each update it accepted, and
\* those it was not given are missing at Telegram.
LEMMA CheckpointTakes ==
  ASSUME IInv, IInv', NEW p \in Procs, CommitCheckpoint(p), Ids(batch[p]) # {}
  PROVE  Promise!Next
<1> DEFINE next == NextCursor(p)
           first == batch[p].first
           last == batch[p].last
           range == Frontier .. next - 1
           waiting == {u \in range : task'[u] # "none"}
           passed == {u \in range : task'[u] = "none" /\ u \in ignored'}
<1>1. /\ first \in Updates /\ last \in Updates /\ first <= last /\ cursor \in 0 .. MaxUpdate + 1
      /\ Ids(batch[p]) \subseteq first .. last
  <2>1. batch[p] \in Batches /\ cursor \in Offsets
    BY DEF IInv, TypeOK
  <2> QED BY <2>1, BoundAssumption DEF Batches, Ids, Updates, Offsets
<1>2. /\ cursor <= first
      /\ \A u \in Updates : cursor <= u /\ u <= last => u \in Ids(batch[p]) \/ u \in Missing
  <2>1. pc[p] = "checkpoint"
    BY DEF CommitCheckpoint
  <2> QED BY <2>1 DEF IInv, RowLock, BatchFollowsCursor, Resumes, Handling
<1>3. /\ next = last + 1 /\ cursor' = last + 1 /\ Frontier < next /\ Frontier \in 1 .. MaxUpdate + 1
      /\ Frontier <= first /\ cursor <= Frontier /\ (IF cursor = 0 THEN Frontier = 1 ELSE Frontier = cursor) /\ range = Frontier .. last
  BY <1>1, <1>2, BoundAssumption DEF CommitCheckpoint, NextCursor, Frontier, Updates
<1> HIDE DEF next, first, last, range
<1>4. range \subseteq Updates
  BY <1>1, <1>3, BoundAssumption DEF Updates
<1>5. /\ task' = [u \in Updates |-> IF u \in accepted[p] /\ task[u] = "none" THEN "pending" ELSE task[u]]
      /\ ignored' = ignored \union (Ids(batch[p]) \ accepted[p])
      /\ Missing' = Missing
  BY DEF CommitCheckpoint, Missing, telegram
<1>6. accepted[p] \subseteq first .. last
  BY <1>1 DEF IInv, AcceptedInBatch
<1>7. ASSUME NEW u \in range PROVE task[u] = "none" /\ ~(u < cursor) /\ u < cursor'
  <2>1. u \in Updates /\ Frontier <= u /\ u <= last
    BY <1>1, <1>3, <1>4, <1>7 DEF Updates
  <2>2. ~(u < cursor) /\ u < cursor'
    BY <1>1, <1>3, <2>1 DEF Updates
  <2> QED BY <2>1, <2>2 DEF IInv, CursorDivides
<1>8. task \in [Updates -> TaskStates] /\ task' \in [Updates -> TaskStates]
  BY DEF IInv, TypeOK
<1>9. ASSUME NEW u \in Updates, u \in range
      PROVE FateOf(u)' = (IF u \in waiting THEN "waiting" ELSE IF u \in passed THEN "ignored" ELSE "lost")
  <2>1. CASE task'[u] # "none"
    <3>1. Live(u)'
      BY <1>5, <1>7, <1>9, <2>1 DEF Live
    <3> QED BY <1>8, <1>9, <2>1, <3>1, NextFateCases
  <2>2. CASE task'[u] = "none"
    BY <1>7, <1>8, <1>9, <2>2, NextFateCases
  <2> QED BY <2>1, <2>2
<1>10. ASSUME NEW u \in Updates, u \notin range PROVE FateOf(u)' = FateOf(u)
  <2>1. u \notin first .. last
    BY <1>1, <1>3, <1>10 DEF Updates
  <2>2. task'[u] = task[u] /\ (u \in ignored' <=> u \in ignored)
    BY <1>1, <1>5, <1>6, <2>1
  <2>3. u < cursor' <=> u < cursor
    BY <1>1, <1>3, <1>10, BoundAssumption DEF Updates
  <2> QED BY <2>2, <2>3 DEF FateOf
<1>11. range \ (waiting \union passed) \subseteq Missing
  <2> SUFFICES ASSUME NEW u \in range, u \notin waiting, u \notin passed PROVE u \in Missing
    OBVIOUS
  <2>1. u \in Updates /\ cursor <= u /\ u <= last
    BY <1>1, <1>3, <1>4 DEF Updates
  <2>2. u \notin Ids(batch[p])
    BY <1>4, <1>5, <1>7 DEF TypeOK
  <2> QED BY <1>2, <2>1, <2>2
<1>12. Frontier' = next
  BY <1>1, <1>3 DEF Frontier, Updates
<1>13. AllFates' = [u \in Updates |-> IF u \notin range THEN AllFates[u] ELSE IF u \in waiting THEN "waiting"
                                      ELSE IF u \in passed THEN "ignored" ELSE "lost"]
  <2>1. AllFates' = [u \in Updates |-> FateOf(u)']
    BY DEF AllFates
  <2> QED BY <1>9, <1>10, <2>1 DEF AllFates
<1>14. Promise!Take(next, waiting, passed)
  BY <1>3, <1>5, <1>11, <1>12, <1>13 DEF Promise!Take, Promise!Updates, Frontier, AllFates, Updates, range
<1>15. next \in 2 .. MaxUpdate + 1 /\ waiting \in SUBSET range /\ passed \in SUBSET range
  <2>1. next \in 2 .. MaxUpdate + 1
    BY <1>1, <1>3, BoundAssumption DEF Updates
  <2> QED BY <2>1
<1> QED BY <1>14, <1>15 DEF Promise!Next, Frontier, range

\* Only the fate of one update changes.
LEMMA OneFate ==
  ASSUME IInv, IInv', NEW u \in Updates, NEW outcome \in {"applied", "skipped"}, Live(u),
         UNCHANGED <<cursor, ignored, Missing>>,
         task' = [task EXCEPT ![u] = IF outcome = "applied" THEN "processed" ELSE "skipped"],
         \A v \in EarlierInChannel(u) : ~Live(v)
  PROVE  Promise!Next
<1>1. task \in [Updates -> TaskStates] /\ task' \in [Updates -> TaskStates]
  BY DEF IInv, TypeOK
<1>2. FateOf(u)' = outcome
  BY <1>1, NextFateCases
<1>3. \A v \in Updates : v # u => FateOf(v)' = FateOf(v)
  BY <1>1 DEF FateOf
<1>4. AllFates' = [AllFates EXCEPT ![u] = outcome]
  <2>1. AllFates' = [v \in Updates |-> FateOf(v)']
    BY DEF AllFates
  <2> QED BY <1>2, <1>3, <2>1 DEF AllFates
<1>5. AllFates[u] = "waiting" /\ \A v \in Updates : v < u /\ ChannelOf[v] = ChannelOf[u] => AllFates[v] # "waiting"
  BY <1>1, FateCases DEF AllFates, EarlierInChannel
<1>6. Promise!Decide(u, outcome)
  BY <1>4, <1>5 DEF Promise!Decide, Promise!FirstWaiting, Promise!Updates, AllFates, Updates
<1> QED BY <1>6 DEF Promise!Next, Promise!Updates, Updates

\* Every step of the intake is a step of the inbox or none.
LEMMA InboxStep == IInv /\ IInv' /\ [Next]_vars => [Promise!Next]_(Promise!vars)
<1> SUFFICES ASSUME IInv, IInv', [Next]_vars PROVE [Promise!Next]_(Promise!vars)
  OBVIOUS
<1>1. task \in [Updates -> TaskStates] /\ task' \in [Updates -> TaskStates]
  BY DEF IInv, TypeOK
<1>2. ASSUME UNCHANGED <<cursor, Missing, ignored>>, \A u \in Updates : Live(u)' = Live(u) /\ (task'[u] = task[u] \/ Live(u))
      PROVE UNCHANGED Promise!vars
  <2>1. \A u \in Updates : FateOf(u)' = FateOf(u)
    <3> SUFFICES ASSUME NEW u \in Updates PROVE FateOf(u)' = FateOf(u)
      OBVIOUS
    <3>1. CASE task'[u] = task[u]
      BY <1>2, <3>1 DEF FateOf
    <3>2. CASE Live(u)
      BY <1>1, <1>2, <3>2, FateCases, NextFateCases
    <3> QED BY <1>2, <3>1, <3>2
  <2>2. AllFates' = AllFates
    BY <2>1 DEF AllFates
  <2> QED BY <1>2, <2>2 DEF Promise!vars, AllFates
<1>3. CASE UNCHANGED <<task, ignored, cursor, oldest, expired, absent>>
  BY <1>2, <1>3 DEF Live, Missing
<1>4. CASE Expire \/ Publish
  <2>1. UNCHANGED <<task, ignored, cursor>> /\ Missing \subseteq Missing'
    BY <1>4 DEF Expire, Publish, tasks, intake, Missing
  <2>2. Missing' \in SUBSET Updates
    BY DEF IInv, TypeOK, Missing
  <2>3. UNCHANGED <<Frontier, AllFates>>
    BY <2>1 DEF Frontier, AllFates, FateOf
  <2>4. Promise!GiveUp(Missing')
    BY <2>1, <2>3 DEF Promise!GiveUp, Frontier, AllFates
  <2> QED BY <2>2, <2>4 DEF Promise!Next, Promise!Updates, Updates
<1>5. ASSUME NEW p \in Procs, GetUpdates(p) \/ LoseReply(p) PROVE UNCHANGED Promise!vars
  BY <1>2, <1>5 DEF GetUpdates, LoseReply, tasks, intake, Live, Missing
<1>6. ASSUME NEW p \in Procs, CommitCheckpoint(p) PROVE [Promise!Next]_(Promise!vars)
  <2>1. CASE Ids(batch[p]) = {}
    BY <1>2, <1>6, <2>1 DEF CommitCheckpoint, tasks, intake, telegram, Live, Missing
  <2> QED BY <1>6, <2>1, CheckpointTakes
<1>7. ASSUME NEW w \in Workers, IngestOk(w) PROVE Promise!Next
  <2>1. /\ claim[w] \in Updates /\ Live(claim[w]) /\ \A v \in EarlierInChannel(claim[w]) : ~Live(v)
    BY <1>7 DEF IngestOk, IInv, TypeOK, ClaimsAreHeads, Live
  <2> QED BY <1>7, <2>1, OneFate DEF IngestOk, telegram, intake, Missing
<1>8. ASSUME NEW w \in Workers, IngestFail(w) PROVE UNCHANGED Promise!vars
  <2>1. claim[w] \in Updates /\ Live(claim[w])
    BY <1>8 DEF IngestFail, IInv, TypeOK, ClaimsAreHeads, Live
  <2> QED BY <1>1, <1>2, <1>8, <2>1 DEF IngestFail, telegram, intake, Live, Missing
<1>9. ASSUME NEW u \in Updates, RetryTask(u) PROVE UNCHANGED Promise!vars
  BY <1>1, <1>2, <1>9 DEF RetryTask, telegram, intake, Live, Missing
<1>10. ASSUME NEW u \in Updates, SkipTask(u) PROVE Promise!Next
  <2>1. Live(u) /\ \A v \in EarlierInChannel(u) : ~Live(v)
    BY <1>10 DEF SkipTask, Live, IInv, DecidedAreHeads
  <2> QED BY <1>10, <2>1, OneFate DEF SkipTask, telegram, intake, Missing
<1> QED BY <1>3, <1>4, <1>5, <1>6, <1>7, <1>8, <1>9, <1>10, CursorFrame

\* The intake keeps the promise of the ordered inbox: whatever processes, locks, lost sessions,
\* retries and skips do, each update gets one fate, once, and those of a channel in order.
THEOREM ImplementsInbox == Spec => ImplementsOrderedInbox
BY InboxInit, InboxStep, Invariance, PTL DEF Spec, Promise!Spec, ImplementsOrderedInbox

-----------------------------------------------------------------------------
(* The receipts.                                                           *)

\* The cursor is where a receipt left it, or the first; nothing from it on was ignored.
Chained ==
    /\ cursor \in FirstCursors \/ \E q \in receipts : q.next = cursor
    /\ \A u \in ignored : u < cursor
    /\ \A r \in receipts : r.first <= r.last /\ r.next = r.last + 1 /\ r.next <= cursor
Accounts == ReceiptsAddUp /\ LossesShowAsJumps /\ Chained

LEMMA AccountsInit == Init => Accounts
BY CursorAssumption DEF Init, Accounts, ReceiptsAddUp, LossesShowAsJumps, InJump, BeforeAnyRequest, Chained, Updates

\* No step but a checkpoint's commit touches the receipts, the cursor or what has a task.
LEMMA AccountsFrame ==
  ASSUME IInv, [Next]_vars
  PROVE  \/ \E p \in Procs : CommitCheckpoint(p) /\ Ids(batch[p]) # {}
         \/ /\ UNCHANGED <<receipts, cursor, ignored>>
            /\ Missing \subseteq Missing' /\ absent \subseteq absent'
            /\ \A u \in Updates : task'[u] = "none" <=> task[u] = "none"
<1>1. CASE UNCHANGED <<receipts, cursor, ignored, expired, absent, task>>
  BY <1>1 DEF Missing
<1>2. CASE Expire \/ Publish
  BY <1>2 DEF Expire, Publish, tasks, intake, Missing
<1>3. ASSUME NEW w \in Workers, IngestOk(w) \/ IngestFail(w)
      PROVE UNCHANGED <<receipts, cursor, ignored, expired, absent>> /\ \A u \in Updates : task'[u] = "none" <=> task[u] = "none"
  <2>1. claim[w] \in Updates /\ task[claim[w]] = "pending" /\ task \in [Updates -> TaskStates]
    BY <1>3 DEF IngestOk, IngestFail, IInv, TypeOK, ClaimsAreHeads
  <2>2. \E outcome \in {"processed", "blocked", "pending"} : task' = [task EXCEPT ![claim[w]] = outcome]
    BY <1>3 DEF IngestOk, IngestFail
  <2> QED BY <1>3, <2>1, <2>2 DEF IngestOk, IngestFail, telegram, intake
<1>4. ASSUME NEW u \in Updates, RetryTask(u) \/ SkipTask(u)
      PROVE UNCHANGED <<receipts, cursor, ignored, expired, absent>> /\ \A v \in Updates : task'[v] = "none" <=> task[v] = "none"
  BY <1>4 DEF RetryTask, SkipTask, telegram, intake, IInv, TypeOK
<1>5. ASSUME NEW p \in Procs, CommitCheckpoint(p), Ids(batch[p]) = {}
      PROVE UNCHANGED <<receipts, cursor, ignored, expired, absent, task>>
  BY <1>5 DEF CommitCheckpoint, tasks, intake, telegram
<1>6. \/ UNCHANGED receipts \/ Expire \/ Publish
      \/ \E p \in Procs : CommitCheckpoint(p)
      \/ \E w \in Workers : IngestOk(w) \/ IngestFail(w)
      \/ \E u \in Updates : RetryTask(u) \/ SkipTask(u)
  BY DEF Next, Startup, Poll, Shutdown, Disturb, Work, Administer, vars, telegram, tasks,
     intake, locks, poller, Publish, AcquirePollerLock, Authenticate, ClaimRuntime, BindBot,
     AbortStartup, AssertBeforePoll, RecordTelegramSuccess, AssertBeforeCheckpoint, GetUpdates, LoseReply,
     BeginCheckpoint, EndPoller, HeartbeatLost, StopWorkers, FinishStop, Stop, Crash,
     LoseSession, ReplyBelowOffset, Claim, WorkerAbort, BackoffElapses, AddChannel, SetChannelEnabled
<1>7. ASSUME NEW p \in Procs, GetUpdates(p) \/ LoseReply(p)
      PROVE UNCHANGED <<receipts, cursor, ignored, expired, absent, task>>
  BY <1>7 DEF GetUpdates, LoseReply, tasks, intake
<1> QED BY <1>1, <1>2, <1>3, <1>4, <1>5, <1>6, <1>7, CursorFrame DEF Missing

LEMMA AccountsStay ==
  ASSUME IInv, Accounts, UNCHANGED <<receipts, cursor, ignored>>,
         Missing \subseteq Missing', absent \subseteq absent',
         \A u \in Updates : task'[u] = "none" <=> task[u] = "none"
  PROVE  Accounts'
<1>1. \A r \in receipts : r.first .. r.last \subseteq Updates
  BY BoundAssumption DEF IInv, TypeOK, Receipts, Updates
<1>2. \A u \in Updates : Recorded(u)' <=> Recorded(u)
  BY DEF Recorded
<1>3. ASSUME NEW r \in receipts
      PROVE {u \in r.first .. r.last : task'[u] # "none"} = {u \in r.first .. r.last : task[u] # "none"}
  BY <1>1
<1>4. ReceiptsAddUp'
  BY <1>3 DEF Accounts, ReceiptsAddUp
<1>5. LossesShowAsJumps'
  BY <1>2 DEF Accounts, LossesShowAsJumps, InJump, BeforeAnyRequest
<1> QED BY <1>4, <1>5 DEF Accounts, Chained

\* The commit adds one receipt, which begins where the last one ended or after what is missing.
LEMMA AccountsCommit ==
  ASSUME IInv, Accounts, NEW p \in Procs, CommitCheckpoint(p), Ids(batch[p]) # {}
  PROVE  Accounts'
<1> DEFINE first == batch[p].first
           last == batch[p].last
           added == Receipt(p, last + 1)
<1>1. /\ first \in Updates /\ last \in Updates /\ first <= last /\ cursor \in 0 .. MaxUpdate + 1
      /\ Ids(batch[p]) \subseteq first .. last
  <2>1. batch[p] \in Batches /\ cursor \in Offsets
    BY DEF IInv, TypeOK
  <2> QED BY <2>1, BoundAssumption DEF Batches, Ids, Updates, Offsets
<1>2. /\ cursor <= first /\ offset[p] = cursor
      /\ \A u \in Updates : cursor <= u /\ u <= last => u \in Ids(batch[p]) \/ u \in Missing
  <2>1. pc[p] = "checkpoint"
    BY DEF CommitCheckpoint
  <2> QED BY <2>1 DEF IInv, RowLock, BatchFollowsCursor, Resumes, Handling
<1>3. NextCursor(p) = last + 1 /\ cursor < last + 1
  BY <1>1, <1>2, BoundAssumption DEF NextCursor, Updates
<1>4. /\ task' = [u \in Updates |-> IF u \in accepted[p] /\ task[u] = "none" THEN "pending" ELSE task[u]]
      /\ ignored' = ignored \union (Ids(batch[p]) \ accepted[p])
      /\ cursor' = last + 1 /\ Missing' = Missing /\ absent' = absent
      /\ receipts' = WithReceipt(p, last + 1)
  BY <1>3 DEF CommitCheckpoint, Missing, telegram
<1>5. accepted[p] \subseteq first .. last
  BY <1>1 DEF IInv, AcceptedInBatch
<1>6. receipts \subseteq Receipts /\ \A r \in receipts : r.first <= r.last /\ r.next = r.last + 1 /\ r.next <= cursor
  BY DEF IInv, TypeOK, Accounts, Chained
<1>7. receipts' = receipts \union {added}
  BY <1>1, <1>3, <1>4, <1>6 DEF WithReceipt, Updates
<1>8. /\ added.requested = cursor /\ added.first = first /\ added.last = last /\ added.next = last + 1
      /\ added.accepted = Cardinality(accepted[p])
  BY <1>2 DEF Receipt
<1> HIDE DEF added, first, last
<1>9. \A u \in Updates : u >= cursor => task[u] = "none" /\ u \notin ignored
  BY <1>1 DEF IInv, CursorDivides, Accounts, Chained, Updates
<1>10. first .. last \subseteq Updates
  <2>1. first \in 1 .. MaxUpdate /\ last \in 1 .. MaxUpdate
    BY <1>1 DEF Updates
  <2>2. first .. last \subseteq 1 .. MaxUpdate
    BY <2>1, BoundAssumption
  <2> QED BY <2>2 DEF Updates
<1>11. {u \in first .. last : task'[u] # "none"} = accepted[p]
  <2>1. ASSUME NEW u \in first .. last PROVE task'[u] # "none" <=> u \in accepted[p]
    <3>1. u \in Updates /\ u >= cursor
      BY <1>1, <1>2, <1>10, <2>1 DEF Updates
    <3> QED BY <1>4, <1>9, <3>1
  <2> QED BY <1>5, <2>1
<1>12. \A u \in Updates : u < first => (task'[u] = "none" <=> task[u] = "none") /\ (u \in ignored' <=> u \in ignored)
  <2> SUFFICES ASSUME NEW u \in Updates, u < first
               PROVE  (task'[u] = "none" <=> task[u] = "none") /\ (u \in ignored' <=> u \in ignored)
    OBVIOUS
  <2>1. u \notin first .. last
    BY <1>1 DEF Updates
  <2> QED BY <1>1, <1>4, <1>5, <2>1
<1>13. ASSUME NEW r \in receipts
       PROVE  /\ r.first .. r.last \subseteq Updates /\ r.last < first /\ r.first <= MaxUpdate
              /\ r.first \in Nat /\ r.last \in Nat
  <2>1. r \in Receipts /\ r.next = r.last + 1 /\ r.next <= cursor
    BY <1>6, <1>13
  <2>2. r.first \in 1 .. MaxUpdate /\ r.last \in 1 .. MaxUpdate
    BY <2>1 DEF Receipts, Updates
  <2>3. first \in 1 .. MaxUpdate /\ cursor \in 0 .. MaxUpdate + 1 /\ cursor <= first
    BY <1>1, <1>2 DEF Updates
  <2>4. r.last + 1 <= cursor
    BY <2>1
  <2>5. r.last < first
    BY <2>2, <2>3, <2>4, BoundAssumption
  <2>6. r.first .. r.last \subseteq 1 .. MaxUpdate
    BY <2>2, BoundAssumption
  <2> QED BY <2>2, <2>5, <2>6, BoundAssumption DEF Updates
<1>14. ASSUME NEW r \in receipts
       PROVE {u \in r.first .. r.last : task'[u] # "none"} = {u \in r.first .. r.last : task[u] # "none"}
  <2>1. ASSUME NEW u \in r.first .. r.last PROVE task'[u] = "none" <=> task[u] = "none"
    <3>1. u \in Updates /\ u < first
      BY <1>1, <1>13 DEF Updates
    <3> QED BY <1>12, <3>1
  <2> QED BY <2>1
<1>15. ReceiptsAddUp'
  <2>1. \A r \in receipts' :
          /\ r.accepted = Cardinality({u \in r.first .. r.last : task'[u] # "none"})
          /\ r.next = r.last + 1 /\ r.next <= cursor'
    <3> SUFFICES ASSUME NEW r \in receipts'
                 PROVE  /\ r.accepted = Cardinality({u \in r.first .. r.last : task'[u] # "none"})
                        /\ r.next = r.last + 1 /\ r.next <= cursor'
      OBVIOUS
    <3>1. last \in Int /\ cursor \in Int
      BY <1>1, BoundAssumption DEF Updates
    <3>2. CASE r \in receipts
      <4>1. r.accepted = Cardinality({u \in r.first .. r.last : task[u] # "none"})
        BY <3>2 DEF Accounts, ReceiptsAddUp
      <4>2. r.accepted = Cardinality({u \in r.first .. r.last : task'[u] # "none"})
        BY <1>14, <3>2, <4>1
      <4>3. r.next = r.last + 1 /\ r.next <= cursor /\ r.next \in Int
        BY <1>6, <3>2 DEF Receipts, Offsets
      <4> QED BY <1>3, <1>4, <3>1, <4>2, <4>3
    <3>3. CASE r = added
      <4>1. r.accepted = Cardinality({u \in r.first .. r.last : task'[u] # "none"})
        BY <1>8, <1>11, <3>3
      <4>2. r.next = r.last + 1 /\ r.next = cursor'
        BY <1>4, <1>8, <3>3
      <4> QED BY <1>4, <3>1, <4>1, <4>2
    <3> QED BY <1>7, <3>2, <3>3
  <2>2. \A r \in receipts' : r.requested \notin FirstCursors => \E q \in receipts' : q.next = r.requested
    BY <1>7, <1>8 DEF Accounts, ReceiptsAddUp, Chained
  <2>3. \A r, q \in receipts' : r # q => r.last < q.first \/ q.last < r.first
    BY <1>7, <1>8, <1>13 DEF Accounts, ReceiptsAddUp
  <2> QED BY <2>1, <2>2, <2>3 DEF ReceiptsAddUp
<1>16. ASSUME NEW u \in Updates, InJump(u)' PROVE u \in Missing' /\ ~Recorded(u)'
  <2>1. PICK r \in receipts' : r.requested # 0 /\ u \in r.requested .. r.first - 1
    BY <1>16 DEF InJump
  <2>2. CASE r \in receipts
    <3>1. u \in Missing /\ ~Recorded(u)
      BY <2>1, <2>2 DEF Accounts, LossesShowAsJumps, InJump
    <3>2. u < first
      <4>1. r.first \in Nat /\ r.last \in Nat /\ r.last < first /\ r.first <= r.last
        BY <1>6, <1>13, <2>2
      <4>2. r.requested \in Nat /\ first \in Nat
        BY <1>1, <1>6, <2>2 DEF Receipts, Offsets, Updates
      <4>3. u < r.first /\ u \in Nat
        BY <2>1, <4>1, <4>2
      <4> QED BY <4>1, <4>2, <4>3
    <3> QED BY <1>4, <1>12, <3>1, <3>2 DEF Recorded
  <2>3. CASE r = added
    <3>1. cursor <= u /\ u < first /\ u <= last
      BY <1>1, <1>8, <2>1, <2>3 DEF Updates
    <3>2. u \notin Ids(batch[p])
      BY <1>1, <3>1 DEF Updates
    <3>3. u \in Missing
      BY <1>2, <3>1, <3>2
    <3> QED BY <1>1, <1>4, <1>9, <1>12, <3>1, <3>3 DEF Recorded, Updates
  <2> QED BY <1>7, <2>1, <2>2, <2>3
<1>17. ASSUME NEW u \in Updates, u \notin absent', u < cursor', ~Recorded(u)'
       PROVE  InJump(u)' \/ BeforeAnyRequest(u)'
  <2>1. u \notin Ids(batch[p])
    BY <1>1, <1>4, <1>11, <1>17 DEF Recorded
  <2>2. u < first
    <3>1. first .. last \subseteq Ids(batch[p]) \union absent
      BY DEF IInv, AcceptedInBatch, first, last
    <3> QED BY <1>1, <1>4, <1>17, <2>1, <3>1 DEF Updates
  <2>3. ~Recorded(u) /\ u \notin absent
    BY <1>4, <1>12, <1>17, <2>2 DEF Recorded
  <2>4. CASE u < cursor
    <3>1. InJump(u) \/ BeforeAnyRequest(u)
      BY <2>3, <2>4 DEF Accounts, LossesShowAsJumps
    <3> QED BY <1>7, <3>1 DEF InJump, BeforeAnyRequest
  <2>5. CASE ~(u < cursor)
    <3>1. added \in receipts' /\ u \in Nat /\ cursor <= u
      BY <1>1, <1>7, <2>5 DEF Updates
    <3>2. CASE cursor = 0
      BY <1>8, <2>2, <3>1, <3>2 DEF BeforeAnyRequest
    <3>3. CASE cursor # 0
      <4>1. u \in added.requested .. added.first - 1
        BY <1>1, <1>8, <2>2, <3>1 DEF Updates
      <4> QED BY <1>8, <3>1, <3>3, <4>1 DEF InJump
    <3> QED BY <3>2, <3>3
  <2> QED BY <2>4, <2>5
<1>18. Chained'
  <2>1. \A u \in ignored' : u < cursor'
    BY <1>1, <1>3, <1>4 DEF Accounts, Chained, IInv, TypeOK, Updates
  <2>2. \E q \in receipts' : q.next = cursor'
    BY <1>4, <1>7, <1>8
  <2>3. \A r \in receipts' : r.first <= r.last /\ r.next = r.last + 1 /\ r.next <= cursor'
    BY <1>1, <1>3, <1>4, <1>6, <1>7, <1>8 DEF Receipts, Updates
  <2> QED BY <2>1, <2>2, <2>3 DEF Chained
<1> QED BY <1>15, <1>16, <1>17, <1>18 DEF Accounts, LossesShowAsJumps

LEMMA AccountsStep == IInv /\ Accounts /\ [Next]_vars => Accounts'
BY AccountsFrame, AccountsStay, AccountsCommit

\* The poll receipts account for the task table (checkpointBatch), with any number of pollers.
THEOREM ReceiptsAccount == Spec => []ReceiptsAddUp
<1>1. Accounts => ReceiptsAddUp
  BY DEF Accounts
<1> QED BY AccountsInit, AccountsStep, Invariance, <1>1, PTL DEF Spec

\* A jump in the receipts is a loss at Telegram, always and only.
THEOREM LossesAreShown == Spec => []LossesShowAsJumps
<1>1. Accounts => LossesShowAsJumps
  BY DEF Accounts
<1> QED BY AccountsInit, AccountsStep, Invariance, <1>1, PTL DEF Spec
=============================================================================
