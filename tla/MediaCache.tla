----------------------------- MODULE MediaCache -----------------------------
(***************************************************************************)
(* The local media cache: worker runs claim a post plan in the ledger,     *)
(* stage its originals in a directory of their lease token, hard-link them *)
(* to content-addressed final files inside the ledger transaction, settle  *)
(* the staging files and complete the plan; expired leases are recovered;  *)
(* evictors delete final files (apps/server/src/media-cache).              *)
(*                                                                         *)
(* Every ledger transaction takes one advisory lock.  A transaction that   *)
(* calls back into the file system holds it over several steps (ledger);   *)
(* one that does not is a single step.  The database undoes a transaction  *)
(* that fails, the file system does not.                                   *)
(*                                                                         *)
(* Abstracted: every revision is current and not tombstoned; retry delays  *)
(* (available_at) may end at any time; bytes are small numbers; thumbnails *)
(* and the rows of media_blob_locations are left out (the helpers that     *)
(* keep the latter return at once while no backend row exists).            *)
(***************************************************************************)
EXTENDS Integers, FiniteSets, FiniteSetsExt

CONSTANTS
    Plans, Objects,     \* post plans; their original objects (numbers: position order)
    PlanOf,             \* the plan of each object
    Limit,              \* byte limit of an object's kind
    Blobs, Size,        \* contents, named by their hash, and their byte lengths
    Sources,            \* the contents an object's sources may deliver
    Runs, DesktopRuns,  \* lease tokens of worker runs; those of the Desktop import command
    Evictors,           \* eviction runs, each with its token
    Protectable,        \* objects an owner may protect
    PostMax, MaxBytes,  \* per-post and physical byte limits
    MaxAttempts,        \* failures after which a plan is blocked (10 in the code)
    Faults, MaxFaults,  \* the kinds of fault that occur, and a bound on their number
    NoRun, NoBlob, NoPlan

FaultKinds == {"crash", "disk", "slow", "unlink", "sync"}

ASSUME ObjectAssumption ==
    /\ IsFiniteSet(Plans) /\ IsFiniteSet(Objects) /\ Objects \subseteq Nat
    /\ PlanOf \in [Objects -> Plans] /\ Limit \in [Objects -> Nat \ {0}]
ASSUME RunAssumption == DesktopRuns \subseteq Runs /\ NoRun \notin Runs \union Evictors
ASSUME ContentAssumption ==
    /\ NoBlob \notin Blobs /\ NoPlan \notin Plans
    /\ IsFiniteSet(Blobs) /\ Sources \in [Objects -> SUBSET Blobs]
    /\ \A b \in Blobs : Size[b] \in Nat \ {0}
ASSUME LimitAssumption ==
    /\ PostMax \in Nat /\ MaxBytes \in Nat /\ MaxAttempts \in Nat \ {0} /\ MaxFaults \in Nat
    /\ Faults \subseteq FaultKinds /\ Protectable \subseteq Objects

VARIABLES
    (* media_cache_post_plans *)
    plan, holder, reserved, readyOriginal, attempts,
    (* media_cache_objects and their protections *)
    object, bound, protected,
    (* media_cache_blobs; evictLive: the deleting blobs whose lease has not expired *)
    blob, evictor, evictLive,
    (* media_cache_runtime *)
    readyBytes, reservedBytes,
    (* the file system: staging files per token and object, final files, and the *)
    (* staging names that share the inode of the final file of their content     *)
    staged, final, twin,
    (* the advisory lock, when held across file-system work *)
    ledger,
    (* worker runs and their memory; the tokens whose lease has not expired *)
    run, live,
    (* eviction runs: step and blob *)
    epc, target,
    faults

plans == <<plan, holder, reserved, readyOriginal, attempts>>
objects == <<object, bound, protected>>
blobs == <<blob, evictor, evictLive>>
totals == <<readyBytes, reservedBytes>>
db == <<plans, objects, blobs, totals>>
files == <<staged, final, twin>>
runs == <<run, live>>
evictions == <<epc, target>>
vars == <<db, files, ledger, runs, evictions, faults>>

PlanStates == {"discovered", "awaiting_local_source", "staging", "settling", "recovering",
               "ready", "skipped", "retry_wait", "blocked"}
ObjectStates == {"discovered", "awaiting_local_source", "downloading", "staging", "ready",
                 "skipped", "retry_wait", "blocked", "evicted", "integrity_conflict"}
BlobStates == {"none", "ready", "deleting", "evicted"}
PCs == {"idle", "staging", "publishing", "failing", "cleaning", "settling", "recovering", "broken"}

\* A run between transactions knows its plan, the objects left in the loop it is in, the
\* objects it has staging files for, the objects set apart (to be skipped, or in conflict
\* with their bound content), and why it fails.
RunStates == [pc : PCs, job : Plans \union {NoPlan}, todo : SUBSET Objects, list : SUBSET Objects,
              apart : SUBSET Objects, why : {"retry", "skip", "integrity_conflict"}]
Idle == [pc |-> "idle", job |-> NoPlan, todo |-> {}, list |-> {}, apart |-> {}, why |-> "retry"]

Leased == {"staging", "settling", "recovering"}
Inactive == {"blocked", "evicted", "integrity_conflict", "ready", "skipped"}
Retryable == {"blocked", "evicted", "integrity_conflict", "skipped"}
Restorable == {"blocked", "evicted", "retry_wait"}

Of(p) == {o \in Objects : PlanOf[o] = p}
In(p, state) == {o \in Of(p) : object[o] = state}
Active(p) == {o \in Of(p) : object[o] \notin Inactive}
First(S) == CHOOSE o \in S : \A x \in S : o <= x
Smaller(a, b) == IF a < b THEN a ELSE b

\* Total length of the contents in B; total of a per-object length over O.
BlobBytes(B) == SumFunctionOnSet(Size, B)
Bytes(O, length) == SumFunctionOnSet(length, O)

\* An object asks for its known length, or for the limit of its kind.
Reservation == [o \in Objects |-> IF bound[o] \in Blobs THEN Size[bound[o]] ELSE Limit[o]]
BoundBytes == [o \in Objects |-> IF bound[o] \in Blobs THEN Size[bound[o]] ELSE 0]
StagedBytes(t) == [o \in Objects |-> IF staged[t][o] \in Blobs THEN Size[staged[t][o]] ELSE 0]

Fenced(t, p, state) == plan[p] = state /\ holder[p] = t /\ t \in live
Holds(t) == \E p \in Plans : holder[p] = t
Fault(kind) == kind \in Faults /\ faults < MaxFaults /\ faults' = faults + 1
Unlocked == ledger = NoRun

\* A fresh token: no row and no staging file refers to it.
Fresh(t) == run[t].pc = "idle" /\ ~Holds(t) /\ \A o \in Objects : staged[t][o] = NoBlob

TypeOK ==
    /\ plan \in [Plans -> PlanStates] /\ holder \in [Plans -> Runs \union {NoRun}]
    /\ reserved \in [Plans -> Nat] /\ readyOriginal \in [Plans -> Nat]
    /\ attempts \in [Plans -> 0 .. MaxAttempts]
    /\ object \in [Objects -> ObjectStates] /\ bound \in [Objects -> Blobs \union {NoBlob}]
    /\ protected \in SUBSET Objects
    /\ blob \in [Blobs -> BlobStates] /\ evictor \in [Blobs -> Evictors \union {NoRun}]
    /\ evictLive \in SUBSET Blobs
    /\ readyBytes \in Nat /\ reservedBytes \in Nat
    /\ staged \in [Runs -> [Objects -> Blobs \union {NoBlob}]]
    /\ final \in SUBSET Blobs /\ twin \in SUBSET (Runs \X Objects)
    /\ ledger \in Runs \union {NoRun}
    /\ run \in [Runs -> RunStates] /\ live \in SUBSET Runs
    /\ epc \in [Evictors -> {"idle", "unlinking", "completing", "restoring"}]
    /\ target \in [Evictors -> Blobs \union {NoBlob}]
    /\ faults \in 0 .. MaxFaults

\* Discovery created a plan per post: runnable, or waiting for the Desktop command.
Init ==
    /\ plan \in [Plans -> {"discovered", "awaiting_local_source"}]
    /\ \A p \in Plans : plan[p] = "awaiting_local_source" => DesktopRuns # {}
    /\ holder = [p \in Plans |-> NoRun] /\ reserved = [p \in Plans |-> 0]
    /\ readyOriginal = [p \in Plans |-> 0] /\ attempts = [p \in Plans |-> 0]
    /\ object = [o \in Objects |-> plan[PlanOf[o]]]
    /\ bound = [o \in Objects |-> NoBlob] /\ protected = {}
    /\ blob = [b \in Blobs |-> "none"] /\ evictor = [b \in Blobs |-> NoRun] /\ evictLive = {}
    /\ readyBytes = 0 /\ reservedBytes = 0
    /\ staged = [t \in Runs |-> [o \in Objects |-> NoBlob]] /\ final = {} /\ twin = {}
    /\ ledger = NoRun
    /\ run = [t \in Runs |-> Idle] /\ live = {}
    /\ epc = [e \in Evictors |-> "idle"] /\ target = [e \in Evictors |-> NoBlob]
    /\ faults = 0

-----------------------------------------------------------------------------
(* How a run moves on.                                                     *)

EndRun(t) == run' = [run EXCEPT ![t] = Idle]
Goto(t, step, todo) == run' = [run EXCEPT ![t].pc = step, ![t].todo = todo]
Loop(t) == run' = [run EXCEPT ![t].todo = @ \ {First(@)}]

\* The catch block of processPlan, with the disposition classifyPlanFailure chose.
FailAs(t, disposition, conflict) ==
    run' = [run EXCEPT ![t].pc = "failing", ![t].todo = {}, ![t].apart = conflict,
                       ![t].why = disposition]

\* Mutant: the reservation of the plan stays.
ReleaseKeepingBytes(p, state) ==
    /\ plan' = [plan EXCEPT ![p] = state]
    /\ holder' = [holder EXCEPT ![p] = NoRun]
    /\ live' = live \ {holder[p]}
    /\ UNCHANGED <<reserved, reservedBytes>>

\* A plan leaves its lease, at the state that also its active objects take.
Release(p, state) ==
    /\ plan' = [plan EXCEPT ![p] = state]
    /\ holder' = [holder EXCEPT ![p] = NoRun]
    /\ live' = live \ {holder[p]}
    /\ reserved' = [reserved EXCEPT ![p] = 0]
    /\ reservedBytes' = reservedBytes - reserved[p]

\* Mutant: attempts are counted past the limit.
UncappedAttempts(p) == attempts[p] + 1

MoreAttempts(p) == Smaller(attempts[p] + 1, MaxAttempts)
RetryState(n) == IF n >= MaxAttempts THEN "blocked" ELSE "retry_wait"

-----------------------------------------------------------------------------
(* Claiming and staging a plan (processPlan).                              *)

\* The reservation a claim takes: what the active objects may need, capped by what the
\* post limit leaves.
Request(p) == Smaller(Bytes(Active(p), Reservation), PostMax - readyOriginal[p])

ClaimableStates(t) == {"discovered", "retry_wait"}
                      \union (IF t \in DesktopRuns THEN {"awaiting_local_source"} ELSE {})

ClaimPostPlan(t, p) ==
    /\ Unlocked /\ Fresh(t)
    /\ plan[p] \in ClaimableStates(t) /\ reserved[p] = 0 /\ attempts[p] < MaxAttempts
    /\ Active(p) # {}
    /\ \A o \in Active(p) : object[o] \in ClaimableStates(t) /\ Reservation[o] <= Limit[o]
    /\ readyOriginal[p] < PostMax
    /\ readyBytes + reservedBytes + Request(p) <= MaxBytes
    /\ plan' = [plan EXCEPT ![p] = "staging"]
    /\ holder' = [holder EXCEPT ![p] = t] /\ live' = live \union {t}
    /\ reserved' = [reserved EXCEPT ![p] = Request(p)]
    /\ reservedBytes' = reservedBytes + Request(p)
    /\ object' = [o \in Objects |-> IF o \in Active(p) THEN "downloading" ELSE object[o]]
    /\ run' = [run EXCEPT ![t] = [Idle EXCEPT !.pc = "staging", !.job = p, !.todo = Active(p)]]
    /\ UNCHANGED <<readyOriginal, attempts, bound, protected, blobs, readyBytes, files, ledger,
                   evictions, faults>>

\* What the post limit leaves for the next object; the loop counts from zero.
Remaining(t) == PostMax - Bytes(run[t].list, StagedBytes(t))

Staging(t) == run[t].pc = "staging" /\ run[t].todo # {}

\* One of the object's sources delivers content within the limits.
StageObject(t) ==
    /\ Staging(t)
    /\ LET o == First(run[t].todo) IN
       \E b \in Sources[o] :
          /\ Size[b] <= Smaller(Limit[o], Remaining(t))
          /\ staged' = [staged EXCEPT ![t][o] = b]
          /\ run' = [run EXCEPT ![t].todo = @ \ {o}, ![t].list = @ \union {o}]
    /\ UNCHANGED <<db, final, twin, ledger, live, evictions, faults>>

\* Every source of the object fails for good (or exceeds the kind limit): it is to be skipped.
SourceUnavailable(t) ==
    /\ Staging(t)
    /\ LET o == First(run[t].todo) IN
       run' = [run EXCEPT ![t].todo = @ \ {o}, ![t].apart = @ \union {o}]
    /\ UNCHANGED <<db, files, ledger, live, evictions, faults>>

\* The content exceeds what the post limit leaves: the whole plan is to be skipped.
PostLimitReached(t) ==
    /\ Staging(t)
    /\ LET o == First(run[t].todo) IN
       \/ Remaining(t) <= 0
       \/ \E b \in Sources[o] : Remaining(t) < Limit[o] /\ Size[b] > Remaining(t)
    /\ FailAs(t, "skip", {})
    /\ UNCHANGED <<db, files, ledger, live, evictions, faults>>

\* A transient source error, a full disk, an abort.
StagingFails(t) ==
    /\ Staging(t)
    /\ FailAs(t, "retry", {})
    /\ UNCHANGED <<db, files, ledger, live, evictions, faults>>

AllStaged(t) == run[t].pc = "staging" /\ run[t].todo = {}

NothingStaged(t) ==
    /\ AllStaged(t) /\ run[t].list = {}
    /\ FailAs(t, "skip", {})
    /\ UNCHANGED <<db, files, ledger, live, evictions, faults>>

\* One transaction per object to skip, each fenced by the lease.
SkipClaimedObject(t) ==
    /\ Unlocked /\ AllStaged(t) /\ run[t].list # {} /\ run[t].apart # {}
    /\ LET o == First(run[t].apart) IN
       IF Fenced(t, run[t].job, "staging") /\ object[o] = "downloading"
       THEN /\ object' = [object EXCEPT ![o] = "skipped"]
            /\ run' = [run EXCEPT ![t].apart = @ \ {o}]
       ELSE FailAs(t, "retry", {}) /\ UNCHANGED object
    /\ UNCHANGED <<plans, bound, protected, blobs, totals, files, ledger, live, evictions, faults>>

-----------------------------------------------------------------------------
(* Publication (recordPublishedObjects and blob-store publish).            *)

ReadyToPublish(t) == Unlocked /\ AllStaged(t) /\ run[t].list # {} /\ run[t].apart = {}

\* The contents a run offers, and those of them the ledger does not count yet.
Offered(t) == {staged[t][o] : o \in run[t].list}
\* Mutants: contents already on disk are counted again; a changed content is not noticed.
CountedAgain(t) == Offered(t)
ConflictsIgnored(t) == {}
Added(t) == {b \in Offered(t) : blob[b] # "ready"}
Conflicts(t) == {o \in run[t].list : bound[o] \notin {NoBlob, staged[t][o]}}

PublicationAllowed(t, p) ==
    /\ In(p, "downloading") = run[t].list /\ Active(p) = run[t].list
    /\ \A o \in run[t].list : Size[staged[t][o]] <= Smaller(Reservation[o], Limit[o])
    /\ readyOriginal[p] + Bytes(run[t].list, StagedBytes(t)) <= PostMax
    /\ \A b \in Offered(t) : blob[b] # "deleting"
    /\ readyBytes + BlobBytes(Added(t)) <= MaxBytes

BeginPublish(t) ==
    /\ ReadyToPublish(t)
    /\ Fenced(t, run[t].job, "staging") /\ Conflicts(t) = {} /\ PublicationAllowed(t, run[t].job)
    /\ ledger' = t
    /\ Goto(t, "publishing", run[t].list)
    /\ UNCHANGED <<db, files, live, evictions, faults>>

PublishRefused(t) ==
    /\ ReadyToPublish(t)
    /\ LET p == run[t].job IN
       IF Fenced(t, p, "staging") /\ Conflicts(t) # {}
       THEN FailAs(t, "integrity_conflict", {First(Conflicts(t))})
       ELSE /\ ~(Fenced(t, p, "staging") /\ PublicationAllowed(t, p))
            /\ FailAs(t, "retry", {})
    /\ UNCHANGED <<db, files, ledger, live, evictions, faults>>

Publishing(t) == run[t].pc = "publishing"

\* link(staging, final); a final file that is already there is verified and kept.
LinkFile(t) ==
    /\ Publishing(t) /\ run[t].todo # {}
    /\ LET o == First(run[t].todo)
           b == staged[t][o] IN
       /\ final' = final \union {b}
       /\ twin' = IF b \in final THEN twin ELSE twin \union {<<t, o>>}
    /\ Loop(t)
    /\ UNCHANGED <<db, staged, ledger, live, evictions, faults>>

\* Objects of any plan whose content is back are ready again, unless their plan would exceed
\* the post limit.
Returning(t) == {o \in Objects : bound[o] \in Added(t) /\ object[o] \in Restorable}
PendingBytes(t, p) == IF p = run[t].job THEN Bytes(run[t].list, StagedBytes(t)) ELSE 0
Restored(t) ==
    {o \in Returning(t) :
        LET p == PlanOf[o] IN
        readyOriginal[p] + Bytes(Returning(t) \intersect Of(p), BoundBytes) + PendingBytes(t, p)
            <= PostMax}

WithRestored(t) == [o \in Objects |-> IF o \in Restored(t) THEN "ready" ELSE object[o]]
RestoredBytes(t, p) == Bytes(Restored(t) \intersect Of(p), BoundBytes)

\* A plan all of whose originals are ready or skipped after the restoration is ready itself.
Completed(t) ==
    {p \in Plans : /\ Restored(t) \intersect Of(p) # {}
                   /\ \A o \in Of(p) : WithRestored(t)[o] \in {"ready", "skipped"}}

\* The check constraint on media_cache_post_plans, for the plans the restoration adds to.
WithinBudget(t) ==
    \A p \in Plans : Restored(t) \intersect Of(p) # {} =>
        readyOriginal[p] + RestoredBytes(t, p) + reserved[p] <= PostMax

CommitPublish(t) ==
    /\ Publishing(t) /\ run[t].todo = {} /\ t \in live /\ WithinBudget(t)
    /\ LET p == run[t].job
           items == run[t].list IN
       /\ plan' = [q \in Plans |-> IF q = p THEN "settling"
                                   ELSE IF q \in Completed(t) THEN "ready" ELSE plan[q]]
       /\ attempts' = [q \in Plans |-> IF q \in Completed(t) THEN 0 ELSE attempts[q]]
       /\ readyOriginal' = [q \in Plans |-> readyOriginal[q] + RestoredBytes(t, q)]
       /\ object' = [o \in Objects |-> IF o \in items THEN "staging" ELSE WithRestored(t)[o]]
       /\ bound' = [o \in Objects |-> IF o \in items THEN staged[t][o] ELSE bound[o]]
       /\ blob' = [b \in Blobs |-> IF b \in Offered(t) THEN "ready" ELSE blob[b]]
       /\ readyBytes' = readyBytes + BlobBytes(Added(t))
       /\ Goto(t, "settling", items)
    /\ ledger' = NoRun
    /\ UNCHANGED <<holder, reserved, protected, evictor, evictLive, reservedBytes, files, live,
                   evictions, faults>>

\* The transaction rolls back; the links made so far stay.
PublishRollsBack(t) ==
    /\ Publishing(t)
    /\ \/ Fault("disk")
       \/ run[t].todo = {} /\ ~(t \in live /\ WithinBudget(t)) /\ UNCHANGED faults
    /\ ledger' = NoRun
    /\ FailAs(t, "retry", {})
    /\ UNCHANGED <<db, files, live, evictions>>

-----------------------------------------------------------------------------
(* Settling the staging files of a token (blob-store settle).              *)

DropStaged(t, o) == staged' = [staged EXCEPT ![t][o] = NoBlob] /\ twin' = twin \ {<<t, o>>}

\* db_committed: the final file must be there; the staging name goes.
SettleCommitted(t, o) == staged[t][o] \in final /\ DropStaged(t, o) /\ UNCHANGED final

\* Mutant: the inodes are not compared, and the final file is left.
NoInode(t, o) == FALSE
SameInode(t, o) == <<t, o>> \in twin

\* db_rolled_back: a final file with the inode of the staging file goes first, then the staging name.
RemoveLinked(t, o) ==
    /\ staged[t][o] # NoBlob /\ SameInode(t, o)
    /\ final' = final \ {staged[t][o]} /\ twin' = twin \ {<<t, o>>} /\ UNCHANGED staged
SettleRolledBack(t, o) == staged[t][o] # NoBlob /\ ~SameInode(t, o) /\ DropStaged(t, o) /\ UNCHANGED final

\* Mutant: a run that lost its lease cleans up as if nothing had been committed.
SettleFileByLease(t) ==
    /\ run[t].pc = "settling" /\ run[t].todo # {}
    /\ LET o == First(run[t].todo) IN
       \/ t \in live /\ SettleCommitted(t, o) /\ Loop(t)
       \/ t \notin live /\ RemoveLinked(t, o) /\ UNCHANGED run
       \/ t \notin live /\ SettleRolledBack(t, o) /\ Loop(t)
    /\ UNCHANGED <<db, ledger, live, evictions, faults>>

\* After the commit, and outside any transaction.
SettleFile(t) ==
    /\ run[t].pc = "settling" /\ run[t].todo # {}
    /\ LET o == First(run[t].todo) IN
       IF staged[t][o] \in final
       THEN SettleCommitted(t, o) /\ Loop(t)
       ELSE EndRun(t) /\ UNCHANGED files
    /\ UNCHANGED <<db, ledger, live, evictions, faults>>

CompleteSettlement(t) ==
    /\ Unlocked /\ run[t].pc = "settling" /\ run[t].todo = {}
    /\ LET p == run[t].job
           items == In(p, "staging") IN
       IF /\ Fenced(t, p, "settling") /\ items # {} /\ Active(p) = items
          /\ \A o \in items : blob[bound[o]] = "ready"
          /\ readyOriginal[p] + Bytes(items, BoundBytes) <= PostMax
       THEN /\ Release(p, "ready")
            /\ readyOriginal' = [readyOriginal EXCEPT ![p] = @ + Bytes(items, BoundBytes)]
            /\ object' = [o \in Objects |-> IF o \in items THEN "ready" ELSE object[o]]
       ELSE UNCHANGED <<plan, holder, live, reserved, reservedBytes, readyOriginal, object>>
    /\ EndRun(t)
    /\ UNCHANGED <<attempts, bound, protected, blobs, readyBytes, files, ledger, evictions, faults>>

-----------------------------------------------------------------------------
(* A run that fails (failClaimedPostPlan, its cleanup callback inside).    *)

Failing(t) == Unlocked /\ run[t].pc = "failing"
Complete(p) == In(p, "downloading") # {} /\ Active(p) = In(p, "downloading")
MayFail(t, p) == Fenced(t, p, "staging") /\ Complete(p) /\ run[t].apart \subseteq Active(p)

BeginFail(t) ==
    /\ Failing(t) /\ MayFail(t, run[t].job)
    /\ ledger' = t
    /\ Goto(t, "cleaning", run[t].list)
    /\ UNCHANGED <<db, files, live, evictions, faults>>

FailRefused(t) ==
    /\ Failing(t) /\ ~MayFail(t, run[t].job)
    /\ EndRun(t)
    /\ UNCHANGED <<db, files, ledger, live, evictions, faults>>

Cleaning(t) == run[t].pc = "cleaning"

CleanFile(t) ==
    /\ Cleaning(t) /\ run[t].todo # {}
    /\ LET o == First(run[t].todo) IN
       \/ RemoveLinked(t, o) /\ UNCHANGED run
       \/ SettleRolledBack(t, o) /\ Loop(t)
    /\ UNCHANGED <<db, ledger, live, evictions, faults>>

\* A run of the Desktop command gives its plan back untried; the worker counts the attempt.
AwaitsSource(t) == t \in DesktopRuns /\ run[t].why = "retry"

FailedState(t, p) ==
    CASE AwaitsSource(t) -> "awaiting_local_source"
      [] run[t].why = "integrity_conflict" -> "blocked"
      [] run[t].why = "skip" -> "skipped"
      [] OTHER -> RetryState(MoreAttempts(p))

CommitFail(t) ==
    /\ Cleaning(t) /\ run[t].todo = {} /\ t \in live
    /\ LET p == run[t].job IN
       /\ Release(p, FailedState(t, p))
       /\ attempts' = IF AwaitsSource(t) THEN attempts ELSE [attempts EXCEPT ![p] = MoreAttempts(p)]
       /\ object' = [o \in Objects |-> IF o \in run[t].apart THEN "integrity_conflict"
                                       ELSE IF o \in Active(p) THEN FailedState(t, p)
                                       ELSE object[o]]
    /\ ledger' = NoRun
    /\ EndRun(t)
    /\ UNCHANGED <<readyOriginal, bound, protected, blobs, readyBytes, files, evictions, faults>>

\* The staging files cleaned so far are gone; the plan stays leased.
FailRollsBack(t) ==
    /\ Cleaning(t)
    /\ \/ Fault("disk")
       \/ run[t].todo = {} /\ t \notin live /\ UNCHANGED faults
    /\ ledger' = NoRun
    /\ EndRun(t)
    /\ UNCHANGED <<db, files, live, evictions>>

-----------------------------------------------------------------------------
(* Recovery of an expired lease (recoverPlan, recoverExpiredPostPlan).     *)

\* Mutants: the query for expired plans leaves out the committed ones, or the claimed ones.
ExpiredClaims(p) == plan[p] \in {"staging", "recovering"} /\ holder[p] # NoRun /\ holder[p] \notin live
ExpiredCommits(p) == plan[p] \in {"settling", "recovering"} /\ holder[p] # NoRun /\ holder[p] \notin live

Expired(p) == plan[p] \in Leased /\ holder[p] # NoRun /\ holder[p] \notin live
Precommit(p) == plan[p] = "staging" \/ (plan[p] = "recovering" /\ In(p, "downloading") # {})
Phase(p) == IF Precommit(p) THEN "downloading" ELSE "staging"
StagedFiles(t) == {o \in Objects : staged[t][o] # NoBlob}

BeginRecover(t, p) ==
    /\ Unlocked /\ Fresh(t) /\ Expired(p)
    /\ ledger' = t /\ live' = live \union {t}
    /\ run' = [run EXCEPT ![t] = [Idle EXCEPT
                  !.pc = "recovering", !.job = p, !.list = StagedFiles(holder[p]),
                  !.todo = IF Precommit(p) THEN StagedFiles(holder[p]) ELSE In(p, "staging")]]
    /\ UNCHANGED <<db, files, evictions, faults>>

Recovering(t) == run[t].pc = "recovering"
Consistent(p) == In(p, Phase(p)) # {} /\ Active(p) = In(p, Phase(p))

\* What recoverFilesystem finds of one object under the expired token h.
Adoptable(t, h, o) ==
    IF o \in run[t].list THEN staged[h][o] = bound[o] /\ bound[o] \in final
                         ELSE bound[o] \in final

RecoverFile(t) ==
    /\ Recovering(t) /\ run[t].todo # {}
    /\ Consistent(run[t].job) /\ run[t].list \subseteq In(run[t].job, Phase(run[t].job))
    /\ LET p == run[t].job
           h == holder[p]
           o == First(run[t].todo) IN
       \/ Precommit(p) /\ RemoveLinked(h, o) /\ UNCHANGED run
       \/ Precommit(p) /\ SettleRolledBack(h, o) /\ Loop(t)
       \/ /\ ~Precommit(p) /\ Adoptable(t, h, o)
          /\ IF o \in run[t].list THEN SettleCommitted(h, o) ELSE UNCHANGED files
          /\ Loop(t)
    /\ UNCHANGED <<db, ledger, live, evictions, faults>>

RecoverBreaks(t) ==
    /\ Recovering(t)
    /\ LET p == run[t].job
           o == First(run[t].todo) IN
       \/ Fault("disk")
       \/ /\ \/ run[t].todo = {} /\ t \notin live
             \/ ~(Consistent(p) /\ run[t].list \subseteq In(p, Phase(p)))
             \/ /\ run[t].todo # {}
                /\ IF Precommit(p) THEN staged[holder[p]][o] = NoBlob
                                   ELSE ~Adoptable(t, holder[p], o)
          /\ UNCHANGED faults
    /\ ledger' = NoRun
    /\ run' = [run EXCEPT ![t].pc = "broken"]
    /\ UNCHANGED <<db, files, live, evictions>>

\* A precommit plan goes back to be retried.
CommitRecoverRetry(t) ==
    /\ Recovering(t) /\ run[t].todo = {} /\ t \in live /\ Consistent(run[t].job)
    /\ LET p == run[t].job
           local == holder[p] \in DesktopRuns
           state == IF local THEN "awaiting_local_source" ELSE RetryState(MoreAttempts(p)) IN
       /\ Precommit(p)
       /\ plan' = [plan EXCEPT ![p] = state] /\ holder' = [holder EXCEPT ![p] = NoRun]
       /\ live' = live \ {t}
       /\ reserved' = [reserved EXCEPT ![p] = 0] /\ reservedBytes' = reservedBytes - reserved[p]
       /\ attempts' = IF local THEN attempts ELSE [attempts EXCEPT ![p] = MoreAttempts(p)]
       /\ object' = [o \in Objects |-> IF o \in In(p, "downloading") THEN state ELSE object[o]]
    /\ ledger' = NoRun
    /\ EndRun(t)
    /\ UNCHANGED <<readyOriginal, bound, protected, blobs, readyBytes, files, evictions, faults>>

\* A postcommit plan passes to the new token, its state unchanged.
CommitRecoverSettle(t) ==
    /\ Recovering(t) /\ run[t].todo = {} /\ t \in live /\ Consistent(run[t].job)
    /\ ~Precommit(run[t].job)
    /\ holder' = [holder EXCEPT ![run[t].job] = t]
    /\ ledger' = NoRun
    /\ Goto(t, "settling", {})
    /\ UNCHANGED <<plan, reserved, readyOriginal, attempts, objects, blobs, totals, files, live,
                   evictions, faults>>

\* markExpiredRecoveryFailed; the new token never held anything.
MarkRecoveryFailed(t) ==
    /\ Unlocked /\ run[t].pc = "broken"
    /\ LET p == run[t].job
           busy == In(p, "downloading") \union In(p, "staging") IN
       IF t \in live /\ Expired(p) /\ busy # {}
       THEN /\ plan' = [plan EXCEPT ![p] = "recovering"]
            /\ attempts' = [attempts EXCEPT ![p] = MoreAttempts(p)]
       ELSE UNCHANGED <<plan, attempts>>
    /\ live' = live \ {t}
    /\ EndRun(t)
    /\ UNCHANGED <<holder, reserved, readyOriginal, objects, blobs, totals, files, ledger,
                   evictions, faults>>

-----------------------------------------------------------------------------
(* Time and crashes of runs.                                               *)

\* The lease of a run that is no longer there runs out; so does, as a fault, that of a slow one.
LeaseExpires(t) ==
    /\ t \in live
    /\ IF run[t].pc = "idle" THEN UNCHANGED faults ELSE Fault("slow")
    /\ live' = live \ {t}
    /\ UNCHANGED <<db, files, ledger, run, evictions>>

\* The connection goes with the process, and with it an open transaction.
CrashRun(t) ==
    /\ run[t].pc # "idle" /\ Fault("crash")
    /\ ledger' = IF ledger = t THEN NoRun ELSE ledger
    /\ live' = IF Holds(t) THEN live ELSE live \ {t}
    /\ EndRun(t)
    /\ UNCHANGED <<db, files, evictions>>

-----------------------------------------------------------------------------
(* Eviction (MediaCacheEvictionService.evict).                             *)

\* Mutant: a plan in recovery does not pin its blobs.
PinnedBySettling(b) == \E o \in Objects : bound[o] = b /\ plan[PlanOf[o]] = "settling"

Pinned(b) == \E o \in Objects : bound[o] = b /\ plan[PlanOf[o]] \in {"settling", "recovering"}
Protected(b) == \E o \in protected : bound[o] = b

ClaimEviction(e, b) ==
    /\ Unlocked /\ epc[e] = "idle"
    /\ blob[b] = "ready" \/ (blob[b] = "deleting" /\ b \notin evictLive)
    /\ ~Pinned(b) /\ ~Protected(b)
    /\ blob' = [blob EXCEPT ![b] = "deleting"]
    /\ evictor' = [evictor EXCEPT ![b] = e] /\ evictLive' = evictLive \union {b}
    /\ epc' = [epc EXCEPT ![e] = "unlinking"] /\ target' = [target EXCEPT ![e] = b]
    /\ UNCHANGED <<plans, objects, totals, files, ledger, runs, faults>>

\* No lock is held, and the claim is not looked at again.
RemoveFinal(b) == final' = final \ {b} /\ twin' = {n \in twin : staged[n[1]][n[2]] # b}

Unlink(e) ==
    /\ epc[e] = "unlinking"
    /\ RemoveFinal(target[e])
    /\ epc' = [epc EXCEPT ![e] = "completing"]
    /\ UNCHANGED <<db, staged, ledger, runs, target, faults>>

\* The unlink fails, or the sync of the directory after the unlink does.
UnlinkFails(e) ==
    /\ epc[e] = "unlinking"
    /\ \/ Fault("unlink") /\ UNCHANGED <<final, twin>>
       \/ Fault("sync") /\ RemoveFinal(target[e])
    /\ epc' = [epc EXCEPT ![e] = "restoring"]
    /\ UNCHANGED <<db, staged, ledger, runs, target>>

EvictionEnds(e) == epc' = [epc EXCEPT ![e] = "idle"] /\ target' = [target EXCEPT ![e] = NoBlob]
Claims(e, b) == blob[b] = "deleting" /\ evictor[b] = e

CompleteEviction(e) ==
    /\ Unlocked /\ epc[e] = "completing"
    /\ LET b == target[e]
           gone == {o \in Objects : bound[o] = b /\ object[o] = "ready"} IN
       IF Claims(e, b) /\ b \in evictLive
       THEN /\ object' = [o \in Objects |-> IF o \in gone THEN "evicted" ELSE object[o]]
            /\ readyOriginal' = [p \in Plans |->
                  readyOriginal[p] - Bytes(gone \intersect Of(p), BoundBytes)]
            /\ blob' = [blob EXCEPT ![b] = "evicted"]
            /\ evictor' = [evictor EXCEPT ![b] = NoRun] /\ evictLive' = evictLive \ {b}
            /\ readyBytes' = readyBytes - Size[b]
       ELSE UNCHANGED <<object, readyOriginal, blobs, readyBytes>>
    /\ EvictionEnds(e)
    /\ UNCHANGED <<plan, holder, reserved, attempts, bound, protected, reservedBytes, files, ledger,
                   runs, faults>>

RestoreEviction(e) ==
    /\ Unlocked /\ epc[e] = "restoring"
    /\ LET b == target[e] IN
       IF Claims(e, b)
       THEN /\ blob' = [blob EXCEPT ![b] = "ready"]
            /\ evictor' = [evictor EXCEPT ![b] = NoRun] /\ evictLive' = evictLive \ {b}
       ELSE UNCHANGED blobs
    /\ EvictionEnds(e)
    /\ UNCHANGED <<plans, objects, totals, files, ledger, runs, faults>>

EvictionExpires(b) ==
    /\ b \in evictLive
    /\ IF epc[evictor[b]] = "idle" THEN UNCHANGED faults ELSE Fault("slow")
    /\ evictLive' = evictLive \ {b}
    /\ UNCHANGED <<plans, objects, blob, evictor, totals, files, ledger, runs, evictions>>

CrashEvictor(e) ==
    /\ epc[e] # "idle" /\ Fault("crash")
    /\ EvictionEnds(e)
    /\ UNCHANGED <<db, files, ledger, runs>>

-----------------------------------------------------------------------------
(* The owner (admin-service, object-policy-service) and maintenance.       *)

\* A retry of one object takes all originals with it when none of the post is ready.
AdminRetry(o) ==
    LET p == PlanOf[o]
        partial == readyOriginal[p] > 0
        again == IF partial THEN {o} ELSE Of(p) IN
    /\ Unlocked /\ object[o] \in Retryable /\ reserved[p] = 0
    /\ \A x \in Of(p) : object[x] \in Retryable \union (IF partial THEN {"ready"} ELSE {})
    /\ object' = [x \in Objects |-> IF x \in again THEN "retry_wait" ELSE object[x]]
    /\ plan' = [plan EXCEPT ![p] = "retry_wait"] /\ attempts' = [attempts EXCEPT ![p] = 0]
    /\ UNCHANGED <<holder, reserved, readyOriginal, bound, protected, blobs, totals, files, ledger,
                   runs, evictions, faults>>

\* Mutant: protection does not look at the blob.
ProtectAnyway(o) ==
    /\ Unlocked /\ o \in Protectable \ protected
    /\ protected' = protected \union {o}
    /\ UNCHANGED <<plans, object, bound, blobs, totals, files, ledger, runs, evictions, faults>>

Protect(o) ==
    /\ Unlocked /\ o \in Protectable \ protected
    /\ bound[o] \in Blobs => blob[bound[o]] # "deleting"
    /\ protected' = protected \union {o}
    /\ UNCHANGED <<plans, object, bound, blobs, totals, files, ledger, runs, evictions, faults>>

\* The owner lifts a protection, or it reaches its expiry.
Unprotect(o) ==
    /\ Unlocked /\ o \in protected
    /\ protected' = protected \ {o}
    /\ UNCHANGED <<plans, object, bound, blobs, totals, files, ledger, runs, evictions, faults>>

\* Maintenance rolls back what an old token left that no plan refers to any more.
StaleLease(t, o) == staged[t][o] # NoBlob /\ ~Holds(t)
ReconcileOrphan(t, o) ==
    /\ StaleLease(t, o)
    /\ RemoveLinked(t, o) \/ SettleRolledBack(t, o)
    /\ UNCHANGED <<db, ledger, runs, evictions, faults>>

-----------------------------------------------------------------------------
RunStep(t) ==
    \/ StageObject(t) \/ SourceUnavailable(t) \/ PostLimitReached(t) \/ StagingFails(t)
    \/ NothingStaged(t) \/ SkipClaimedObject(t)
    \/ BeginPublish(t) \/ PublishRefused(t) \/ LinkFile(t) \/ CommitPublish(t)
    \/ PublishRollsBack(t)
    \/ SettleFile(t) \/ CompleteSettlement(t)
    \/ BeginFail(t) \/ FailRefused(t) \/ CleanFile(t) \/ CommitFail(t) \/ FailRollsBack(t)

RecoveryStep(t) ==
    \/ \E p \in Plans : BeginRecover(t, p)
    \/ RecoverFile(t) \/ RecoverBreaks(t) \/ CommitRecoverRetry(t) \/ CommitRecoverSettle(t)
    \/ MarkRecoveryFailed(t)

EvictorStep(e) ==
    \/ \E b \in Blobs : ClaimEviction(e, b)
    \/ Unlink(e) \/ UnlinkFails(e) \/ CompleteEviction(e) \/ RestoreEviction(e)

Environment ==
    \/ \E t \in Runs : LeaseExpires(t) \/ CrashRun(t)
    \/ \E b \in Blobs : EvictionExpires(b)
    \/ \E e \in Evictors : CrashEvictor(e)

Administration ==
    \/ \E o \in Objects : AdminRetry(o) \/ Protect(o) \/ Unprotect(o)
    \/ \E t \in Runs, o \in Objects : ReconcileOrphan(t, o)

Next ==
    \/ \E t \in Runs : (\E p \in Plans : ClaimPostPlan(t, p)) \/ RunStep(t) \/ RecoveryStep(t)
    \/ \E e \in Evictors : EvictorStep(e)
    \/ Environment \/ Administration

Spec == Init /\ [][Next]_vars

\* A run that has begun goes on, and PostgreSQL grants the advisory lock in the order of the
\* requests; the worker looks for expired plans in every pass; the lease of a run that is gone
\* runs out.  Nothing promises that a plan is claimed, a blob evicted or a retry asked for.
\* (The last conjunct only returns tokens to the bounded pool: real tokens do not run out.)
FairSpec ==
    /\ Spec
    /\ \A t \in Runs :
        /\ SF_vars(RunStep(t)) /\ SF_vars(RecoveryStep(t))
        /\ WF_vars(run[t].pc = "idle" /\ LeaseExpires(t))
        /\ WF_vars(run[t].pc = "idle" /\ \E o \in Objects : ReconcileOrphan(t, o))
=============================================================================
