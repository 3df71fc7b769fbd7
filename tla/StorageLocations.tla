-------------------------- MODULE StorageLocations --------------------------
(***************************************************************************)
(* Where the bytes of a media blob are: the ledger of locations on the     *)
(* local volume and the S3 bucket, and the operations that copy a blob     *)
(* between them, prune it from one, evict it and reconcile the local       *)
(* ledger.  Every operation is a sequence of transactions under the media  *)
(* cache advisory lock with backend calls in between.  The older ledger    *)
(* (media_cache_blobs, media_cache_objects, media_cache_runtime) is kept   *)
(* beside it; each blob has one object here, whose post is its own plan.   *)
(***************************************************************************)
EXTENDS Integers, FiniteSets, FiniteSetsExt

CONSTANTS
    Blobs,          \* content hashes
    NoBlob,
    Size,           \* their byte lengths
    MaxBytes,       \* capacity of each backend
    Workers,        \* processes that run storage operations
    NoWorker,
    Start,          \* the sets of blobs that may be mirrored at the start
    Protectable,    \* blobs whose object the owner may protect
    MaxPruneBatch,  \* blobs one prune removes
    Faults,         \* what may go wrong: "crash", "slow", "io", "corrupt", "lost", "unset"
    MaxFaults       \* bound on the number of times

ASSUME SizesArePositive == Size \in [Blobs -> Nat \ {0}] /\ IsFiniteSet(Blobs)
ASSUME NamesAreDistinct == NoWorker \notin Workers /\ NoBlob \notin Blobs
ASSUME StartIsBlobs == Start \subseteq SUBSET Blobs
ASSUME BoundsAreNumbers == MaxPruneBatch \in Nat /\ MaxFaults \in Nat

Backends == {"local", "s3"}
Other(b) == IF b = "local" THEN "s3" ELSE "local"

ASSUME CapacitiesAreBytes == MaxBytes \in [Backends -> Nat]

VARIABLES
    loc,            \* media_blob_locations: state per backend and blob
    lease,          \* its mutation owner, token (the worker that drew it) and whether it is unexpired
    readyBytes,     \* media_storage_backends.ready_bytes
    s3On,           \* the S3 backend is enabled, readable and writable
    blob,           \* media_cache_blobs: state
    evictor,        \* the worker whose eviction token the blob carries
    runtimeBytes,   \* media_cache_runtime.ready_bytes
    object,         \* media_cache_objects: state of the blob's object
    pinned,         \* blobs whose plan is settling
    protected,      \* blobs with an active object protection
    disk,           \* what the backend holds under the blob's key
    op,             \* the operation each worker is in
    faults,         \* faults so far
    tainted         \* keys whose bytes went without a claim: lost, spoiled, or deleted too late

ledger == <<loc, lease, readyBytes>>
legacy == <<blob, evictor, runtimeBytes, object>>
owner == <<s3On, pinned, protected>>
physical == <<disk, tainted>>
storageVars == <<ledger, legacy, owner, physical, op, faults>>

LocationStates == {"none", "copying", "ready", "deleting", "evicted", "missing", "corrupt"}
BlobStates == {"none", "ready", "deleting", "evicted"}
ObjectStates == {"pending", "ready", "evicted"}
Kinds == {"none", "migrate", "migrate_object", "restore", "prune", "evict", "reconcile"}
NoLease == [who |-> NoWorker, by |-> "none", live |-> FALSE]
Idle == [kind |-> "none", pc |-> "idle", to |-> "local", k |-> NoBlob, todo |-> {}, target |-> 0,
         why |-> "none", left |-> MaxPruneBatch]

StorageTypeOK ==
    /\ loc \in [Backends -> [Blobs -> LocationStates]]
    /\ lease \in [Backends -> [Blobs -> [who : Workers \union {NoWorker},
                                         by : {"none", "copy", "prune", "evict"}, live : BOOLEAN]]]
    /\ readyBytes \in [Backends -> Nat] /\ runtimeBytes \in Nat /\ s3On \in BOOLEAN
    /\ blob \in [Blobs -> BlobStates]
    /\ evictor \in [Blobs -> Workers \union {NoWorker}]
    /\ object \in [Blobs -> ObjectStates]
    /\ pinned \subseteq Blobs /\ protected \subseteq Blobs
    /\ disk \in [Backends -> [Blobs -> {"absent", "good", "bad"}]]
    /\ DOMAIN op = Workers /\ \A w \in Workers : op[w].kind \in Kinds /\ op[w].todo \subseteq Blobs
    /\ faults \in 0 .. MaxFaults /\ tainted \subseteq Backends \X Blobs

\* A blob was never published, or is settled with a copy on both backends.
StorageInit ==
    \E mirrored \in Start :
        LET on(k, then, else) == IF k \in mirrored THEN then ELSE else
            held == SumFunctionOnSet(Size, mirrored) IN
        /\ loc = [b \in Backends |-> [k \in Blobs |-> on(k, "ready", "none")]]
        /\ lease = [b \in Backends |-> [k \in Blobs |-> NoLease]]
        /\ readyBytes = [b \in Backends |-> held] /\ runtimeBytes = held /\ s3On = TRUE
        /\ blob = [k \in Blobs |-> on(k, "ready", "none")] /\ evictor = [k \in Blobs |-> NoWorker]
        /\ object = [k \in Blobs |-> on(k, "ready", "pending")]
        /\ pinned = {} /\ protected = {}
        /\ disk = [b \in Backends |-> [k \in Blobs |-> on(k, "good", "absent")]]
        /\ op = [w \in Workers |-> Idle] /\ faults = 0 /\ tainted = {}

-----------------------------------------------------------------------------
Enabled(b) == b = "local" \/ s3On
Physical(b, k) == loc[b][k] \in {"ready", "deleting"}
PhysicalBytes(b) == SumFunctionOnSet(Size, {k \in Blobs : Physical(b, k)})
Own(w, b, k, by) == lease[b][k].who = w /\ lease[b][k].by = by
Fresh(w, by) == [who |-> w, by |-> by, live |-> TRUE]
PruneOwned(b, k) == loc[b][k] = "deleting" /\ lease[b][k].by = "prune"
\* The eviction lease of a blob is the one on its local location.
EvictionLive(k) == Own(evictor[k], "local", k, "evict") /\ lease["local"][k].live

SetLoc(b, k, state, l) ==
    /\ loc' = [loc EXCEPT ![b][k] = state]
    /\ lease' = [lease EXCEPT ![b][k] = l]
AddBytes(b, n) == readyBytes' = [readyBytes EXCEPT ![b] = @ + n]

At(w, kinds, pc) == op[w].kind \in kinds /\ op[w].pc = pc
Goto(w, pc) == op' = [op EXCEPT ![w].pc = pc]
Take(w, k, pc) == op' = [op EXCEPT ![w].k = k, ![w].pc = pc]
Finish(w, outcome) == op' = [op EXCEPT ![w] = [Idle EXCEPT !.kind = op[w].kind, !.pc = outcome]]
\* On to the next blob of the list.
Skip(w, k) == op' = [op EXCEPT ![w].todo = @ \ {k}, ![w].k = NoBlob, ![w].pc = "claim"]

Fault(f) == f \in Faults /\ faults < MaxFaults /\ faults' = faults + 1
Working == UNCHANGED <<owner, faults>>
Thinking == UNCHANGED <<ledger, legacy, owner, physical, faults>>

-----------------------------------------------------------------------------
(* Copying a blob to a backend: PostgresStorageOperationService.           *)

Source(w) == Other(op[w].to)
Target(w) == op[w].to
Migrating == {"migrate", "migrate_object"}
Copying == Migrating \union {"restore"}

\* The blobs ready on the source and not on the target, or the blob of the object that was named.
ListCandidates(w) ==
    /\ At(w, Migrating, "list")
    /\ LET listed == IF op[w].kind = "migrate"
                     THEN {k \in Blobs : loc[Source(w)][k] = "ready" /\ loc[Target(w)][k] # "ready"}
                     ELSE {k \in {op[w].k} : blob[k] # "none"} IN
       IF s3On /\ (op[w].kind = "migrate" \/ listed # {})
       THEN op' = [op EXCEPT ![w].todo = listed, ![w].pc = "claim"]
       ELSE Finish(w, "failed")
    /\ Thinking

CopyBlocked(b, k) ==
    \/ loc[b][k] = "copying" /\ lease[b][k].live
    \/ loc[b][k] = "deleting"
    \/ readyBytes[b] + Size[k] > MaxBytes[b]

TakeCopy(w, k) ==
    /\ SetLoc(Target(w), k, "copying", Fresh(w, "copy"))
    /\ Take(w, k, "copy")
    /\ UNCHANGED <<readyBytes, legacy, physical>> /\ Working

MigrateNext(w) ==
    /\ At(w, Migrating, "claim") /\ op[w].todo # {}
    /\ \E k \in op[w].todo :
        \/ /\ s3On /\ loc[Target(w)][k] # "ready" /\ loc[Source(w)][k] = "ready"
           /\ ~CopyBlocked(Target(w), k)
           /\ TakeCopy(w, k)
        \/ /\ \/ loc[Target(w)][k] = "ready"
              \/ s3On /\ loc[Source(w)][k] # "ready" /\ op[w].kind = "migrate"
              \/ s3On /\ loc[Source(w)][k] = "ready" /\ CopyBlocked(Target(w), k)
           /\ Skip(w, k) /\ Thinking

\* A backend was switched off, or the location named is not readable.
MigrateRefused(w) ==
    /\ At(w, Migrating, "claim")
    /\ \E k \in op[w].todo :
        /\ loc[Target(w)][k] # "ready"
        /\ ~s3On \/ (loc[Source(w)][k] # "ready" /\ op[w].kind = "migrate_object")
    /\ Finish(w, "failed") /\ Thinking

\* Done, though blobs that were busy or too large are left.
MigrateEnds(w) ==
    /\ At(w, Migrating, "claim") /\ op[w].todo = {}
    /\ Finish(w, "succeeded") /\ Thinking

ClaimRestore(w) ==
    /\ At(w, {"restore"}, "list")
    /\ LET k == op[w].k IN
       \/ /\ blob[k] # "none" /\ loc[Target(w)][k] # "ready"
          /\ s3On /\ loc[Source(w)][k] = "ready" /\ ~CopyBlocked(Target(w), k)
          /\ TakeCopy(w, k)
       \/ /\ blob[k] # "none" /\ Enabled(Target(w))
          /\ \/ loc[Target(w)][k] = "ready"
             \/ s3On /\ loc[Source(w)][k] = "ready" /\ CopyBlocked(Target(w), k)
          /\ Finish(w, "succeeded") /\ Thinking
       \/ /\ \/ blob[k] = "none" \/ ~Enabled(Target(w))
             \/ loc[Target(w)][k] # "ready" /\ (~s3On \/ loc[Source(w)][k] # "ready")
          /\ Finish(w, "failed") /\ Thinking

Put(b, k) == disk' = [disk EXCEPT ![b][k] = "good"] /\ tainted' = tainted \ {<<b, k>>}

\* What a read of the source finds: nothing under the key, or bytes with another length or hash.
NotFound(b, k) == disk[b][k] = "absent"
Corrupt(b, k) == disk[b][k] = "bad"
\* A key that holds other bytes is never replaced; it fails the check after the put.
Conflict(b, k) == Corrupt(b, k)

\* The source is read and hashed while the target is written.
Copy(w) ==
    /\ At(w, Copying, "copy")
    /\ LET k == op[w].k IN
       \/ /\ NotFound(Source(w), k) /\ Goto(w, "abandon") /\ UNCHANGED physical
       \/ /\ ~NotFound(Source(w), k) /\ (Corrupt(Source(w), k) \/ Conflict(Target(w), k))
          /\ Goto(w, "verify") /\ UNCHANGED physical
       \/ /\ ~NotFound(Source(w), k) /\ ~Corrupt(Source(w), k) /\ ~Conflict(Target(w), k)
          /\ Put(Target(w), k) /\ Goto(w, "settle")
    /\ UNCHANGED <<ledger, legacy>> /\ Working

\* The call fails, its bytes written or not.
CopyFails(w) ==
    /\ At(w, Copying, "copy") /\ Fault("io")
    /\ \/ UNCHANGED physical
       \/ /\ ~NotFound(Source(w), op[w].k) /\ ~Corrupt(Source(w), op[w].k)
          /\ ~Conflict(Target(w), op[w].k) /\ Put(Target(w), op[w].k)
    /\ Goto(w, "abandon") /\ UNCHANGED <<ledger, legacy, owner>>

\* After an integrity error the source is read once more, to tell which side is at fault.
VerifySource(w) ==
    /\ At(w, Copying, "verify")
    /\ LET found == disk[Source(w)][op[w].k]
           why == IF found = "good" THEN "target" ELSE IF found = "bad" THEN "source" ELSE "none" IN
       op' = [op EXCEPT ![w].why = why, ![w].pc = "abandon"]
    /\ Thinking

HoldsCopy(w, k) == loc[Target(w)][k] = "copying" /\ Own(w, Target(w), k, "copy")
Settleable(w, k) ==
    HoldsCopy(w, k) /\ Enabled(Target(w)) /\ (Target(w) = "local" => blob[k] # "deleting")

\* A copy on the local volume brings the older ledger's blob and its object back.
RestoreLegacy(k) ==
    IF blob[k] = "ready" THEN UNCHANGED legacy
    ELSE /\ blob' = [blob EXCEPT ![k] = "ready"] /\ evictor' = [evictor EXCEPT ![k] = NoWorker]
         /\ object' = [object EXCEPT ![k] = IF @ = "evicted" THEN "ready" ELSE @]
         /\ runtimeBytes' = runtimeBytes + Size[k]

\* Fenced by the token alone: whatever became of the source meanwhile, the target has the bytes.
FinalizeCopy(w) ==
    /\ At(w, Copying, "settle")
    /\ LET k == op[w].k IN
       /\ Settleable(w, k)
       /\ SetLoc(Target(w), k, "ready", NoLease) /\ AddBytes(Target(w), Size[k])
       /\ IF Target(w) = "local" THEN RestoreLegacy(k) ELSE UNCHANGED legacy
       /\ IF op[w].kind = "restore" THEN Finish(w, "succeeded") ELSE Skip(w, k)
    /\ UNCHANGED physical /\ Working

FinalizeFails(w) ==
    /\ At(w, Copying, "settle") /\ ~Settleable(w, op[w].k)
    /\ Goto(w, "abandon") /\ Thinking

SpoiledSource(w, k) == op[w].why = "source" /\ loc[Source(w)][k] = "ready"

\* The claim is given up under its token; a corrupt source is taken off its backend, not off the
\* older ledger.
FailCopy(w) ==
    /\ At(w, Copying, "abandon")
    /\ LET k == op[w].k
           from == Source(w)
           held == HoldsCopy(w, k)
           given == IF op[w].why = "target" THEN "corrupt" ELSE "missing" IN
       /\ loc' = [loc EXCEPT ![Target(w)][k] = IF held THEN given ELSE @,
                             ![from][k] = IF SpoiledSource(w, k) THEN "corrupt" ELSE @]
       /\ lease' = [lease EXCEPT ![Target(w)][k] = IF held THEN NoLease ELSE @,
                                 ![from][k] = IF SpoiledSource(w, k) THEN NoLease ELSE @]
       /\ AddBytes(from, IF SpoiledSource(w, k) THEN -Size[k] ELSE 0)
    /\ Finish(w, "failed")
    /\ UNCHANGED <<legacy, physical>> /\ Working

-----------------------------------------------------------------------------
(* Pruning a backend: PostgresStoragePruneService.                         *)

Prunable(b, k) ==
    /\ loc[b][k] = "ready" \/ (loc[b][k] = "deleting" /\ ~lease[b][k].live)
    /\ k \notin protected \union pinned
    /\ ~(loc[Other(b)][k] = "copying" /\ lease[Other(b)][k].live)

Candidates(b) == {k \in Blobs : Prunable(b, k)}
\* Deletions somebody left come first.
NextPruned(b) ==
    LET begun == {k \in Candidates(b) : loc[b][k] = "deleting"} IN
    IF begun # {} THEN begun ELSE Candidates(b)

OverTarget(w) == readyBytes[Target(w)] > op[w].target

ClaimPrune(w) ==
    /\ At(w, {"prune"}, "claim")
    /\ \/ /\ Enabled(Target(w)) /\ OverTarget(w)
          /\ \E k \in NextPruned(Target(w)) :
                /\ SetLoc(Target(w), k, "deleting", Fresh(w, "prune"))
                /\ op' = [op EXCEPT ![w].k = k, ![w].pc = "delete", ![w].left = @ - 1]
          /\ UNCHANGED <<readyBytes, legacy, physical>> /\ Working
       \/ /\ Enabled(Target(w)) /\ (OverTarget(w) /\ op[w].left > 0 => Candidates(Target(w)) = {})
          /\ Finish(w, "succeeded") /\ Thinking
       \/ ~Enabled(Target(w)) /\ Finish(w, "failed") /\ Thinking

\* A deletion by a worker that no longer holds its claim taints the key.
Remove(w, b, k, by) ==
    /\ disk' = [disk EXCEPT ![b][k] = "absent"]
    /\ tainted' = IF Own(w, b, k, by) /\ loc[b][k] = "deleting" THEN tainted
                  ELSE tainted \union {<<b, k>>}

PruneDelete(w) ==
    /\ At(w, {"prune"}, "delete")
    /\ Remove(w, Target(w), op[w].k, "prune") /\ Goto(w, "finalize")
    /\ UNCHANGED <<ledger, legacy>> /\ Working

\* Mutant: after an error the location is given back, as an eviction does.
PruneGivesBack(w) ==
    /\ At(w, {"prune"}, "delete") /\ Fault("io")
    /\ Remove(w, Target(w), op[w].k, "prune") \/ UNCHANGED physical
    /\ SetLoc(Target(w), op[w].k, "ready", NoLease) /\ UNCHANGED readyBytes
    /\ Finish(w, "failed")
    /\ UNCHANGED <<legacy, owner>>

\* The call fails with the blob deleted or not; the claim stays until its lease ends.
PruneDeleteFails(w) ==
    /\ At(w, {"prune"}, "delete") /\ Fault("io")
    /\ Remove(w, Target(w), op[w].k, "prune") \/ UNCHANGED physical
    /\ Finish(w, "failed")
    /\ UNCHANGED <<ledger, legacy, owner>>

HealthyElsewhere(b, k) == loc[Other(b)][k] = "ready" /\ Enabled(Other(b))

PruneHolds(w, b, k) ==
    /\ loc[b][k] = "deleting" /\ Own(w, b, k, "prune") /\ lease[b][k].live
    /\ Enabled(b) /\ readyBytes[b] >= Size[k]
    /\ b = "local" => runtimeBytes >= Size[k]

\* Mutant: the objects are kept whether another copy is healthy or not.
NeverLast(b, k) == FALSE
\* The last healthy copy takes the blob and its ready object with it, unless its plan is settling.
LastCopy(b, k) == ~HealthyElsewhere(b, k) /\ k \notin pinned

FinalizeLogicalEviction(k) ==
    /\ blob' = [blob EXCEPT ![k] = "evicted"]
    /\ evictor' = [evictor EXCEPT ![k] = NoWorker]
    /\ object' = [object EXCEPT ![k] = IF @ = "ready" THEN "evicted" ELSE @]

\* Only the local disk is counted in the cache's own counter, too.
LeaveRuntime(b, k) == runtimeBytes' = runtimeBytes - (IF b = "local" THEN Size[k] ELSE 0)

FinalizePrune(w) ==
    /\ At(w, {"prune"}, "finalize")
    /\ LET k == op[w].k
           b == Target(w) IN
       /\ PruneHolds(w, b, k)
       /\ SetLoc(b, k, "evicted", NoLease) /\ AddBytes(b, -Size[k])
       /\ LeaveRuntime(b, k)
       /\ IF LastCopy(b, k) THEN FinalizeLogicalEviction(k) ELSE UNCHANGED <<blob, evictor, object>>
       /\ IF readyBytes[b] - Size[k] <= op[w].target THEN Finish(w, "succeeded")
          ELSE Take(w, NoBlob, "claim")
    /\ UNCHANGED physical /\ Working

PruneStale(w) ==
    /\ At(w, {"prune"}, "finalize") /\ ~PruneHolds(w, Target(w), op[w].k)
    /\ Finish(w, "failed") /\ Thinking

-----------------------------------------------------------------------------
(* Evicting a blob: MediaCacheEvictionService, for a command and for the   *)
(* repairs of a reconciliation, which swallows its errors.                 *)

Evicting == {"evict", "reconcile"}
GiveUp(w) == IF op[w].kind = "evict" THEN Finish(w, "failed")
             ELSE op' = [op EXCEPT ![w].todo = @ \ {op[w].k}, ![w].k = NoBlob, ![w].pc = "check"]

StartEvict(w) ==
    /\ At(w, {"evict"}, "start")
    /\ LET k == op[w].k IN
       \/ object[k] = "ready" /\ Goto(w, "claim")
       \/ object[k] = "evicted" /\ Finish(w, "succeeded")
       \/ object[k] = "pending" /\ Finish(w, "failed")
    /\ Thinking

Evictable(k) ==
    /\ blob[k] = "ready" \/ (blob[k] = "deleting" /\ ~EvictionLive(k))
    /\ k \notin protected \union pinned
    /\ ~PruneOwned("local", k)

\* The local location is taken over a copy under way, and its bytes counted if nobody did.
ClaimLocal(w, k) ==
    /\ SetLoc("local", k, "deleting", Fresh(w, "evict"))
    /\ AddBytes("local", IF Physical("local", k) THEN 0 ELSE Size[k])
DropLocal(k) == SetLoc("local", k, "evicted", NoLease) /\ AddBytes("local", -Size[k])
GiveBackLocal(k) == SetLoc("local", k, "ready", NoLease)

ClaimEviction(w) ==
    /\ At(w, Evicting, "claim")
    /\ LET k == op[w].k IN
       \/ /\ Evictable(k)
          /\ blob' = [blob EXCEPT ![k] = "deleting"] /\ evictor' = [evictor EXCEPT ![k] = w]
          /\ ClaimLocal(w, k) /\ Goto(w, "unlink")
          /\ UNCHANGED <<runtimeBytes, object, physical>> /\ Working
       \/ ~Evictable(k) /\ GiveUp(w) /\ Thinking

Unlink(w) ==
    /\ At(w, Evicting, "unlink")
    /\ Remove(w, "local", op[w].k, "evict") /\ Goto(w, "complete")
    /\ UNCHANGED <<ledger, legacy>> /\ Working

UnlinkFails(w) ==
    /\ At(w, Evicting, "unlink") /\ Fault("io")
    /\ Goto(w, "undo") /\ UNCHANGED <<ledger, legacy, owner, physical>>

EvictionHeld(w, k) == blob[k] = "deleting" /\ evictor[k] = w
LocationHeld(w, k) == loc["local"][k] = "deleting" /\ Own(w, "local", k, "evict")
Completable(w, k) ==
    /\ EvictionHeld(w, k) /\ LocationHeld(w, k) /\ lease["local"][k].live
    /\ runtimeBytes >= Size[k] /\ readyBytes["local"] >= Size[k]

CompleteEviction(w) ==
    /\ At(w, Evicting, "complete")
    /\ LET k == op[w].k IN
       \/ /\ Completable(w, k)
          /\ blob' = [blob EXCEPT ![k] = "evicted"] /\ evictor' = [evictor EXCEPT ![k] = NoWorker]
          /\ object' = [object EXCEPT ![k] = IF @ = "ready" THEN "evicted" ELSE @]
          /\ runtimeBytes' = runtimeBytes - Size[k]
          /\ DropLocal(k)
          /\ IF op[w].kind = "evict" THEN Finish(w, "succeeded") ELSE GiveUp(w)
          /\ UNCHANGED physical /\ Working
       \/ ~Completable(w, k) /\ GiveUp(w) /\ Thinking

\* After a failed unlink the claim is given back, even past its lease.
UndoEviction(w) ==
    /\ At(w, Evicting, "undo")
    /\ LET k == op[w].k IN
       IF EvictionHeld(w, k) /\ LocationHeld(w, k)
       THEN /\ blob' = [blob EXCEPT ![k] = "ready"] /\ evictor' = [evictor EXCEPT ![k] = NoWorker]
            /\ GiveBackLocal(k)
       ELSE UNCHANGED <<blob, evictor, loc, lease>>
    /\ GiveUp(w)
    /\ UNCHANGED <<readyBytes, runtimeBytes, object, physical>> /\ Working

-----------------------------------------------------------------------------
(* Reconciling the ledgers with the local volume: MediaCacheMaintenance.   *)

ListReadyBlobs(w) ==
    /\ At(w, {"reconcile"}, "list")
    /\ op' = [op EXCEPT ![w].todo = {k \in Blobs : blob[k] = "ready"}, ![w].pc = "check"]
    /\ Thinking

\* A blob whose local file is missing or spoiled is evicted, wherever else its bytes are.
CheckBlob(w) ==
    /\ At(w, {"reconcile"}, "check")
    /\ \E k \in op[w].todo :
        IF disk["local"][k] = "good" THEN op' = [op EXCEPT ![w].todo = @ \ {k}]
        ELSE Take(w, k, "claim")
    /\ Thinking

\* Locations with an operation under way, and those pruned on purpose, are left alone.
Settled(k) ==
    /\ blob[k] # "none"
    /\ ~(loc["local"][k] \in {"copying", "deleting"} /\ lease["local"][k].live)
    /\ ~PruneOwned("local", k)
    /\ ~(blob[k] = "ready" /\ loc["local"][k] = "evicted")

\* Mutant: the sum is not taken again after the locations were set.
StaleSum(now) == readyBytes["local"]
LocalSum(now) == SumFunctionOnSet(Size, {k \in Blobs : now[k] \in {"ready", "deleting"}})

ReconcileLocations ==
    LET now == [k \in Blobs |-> IF Settled(k) THEN blob[k] ELSE loc["local"][k]]
        left == [who |-> NoWorker, by |-> "evict", live |-> FALSE] IN
    /\ loc' = [loc EXCEPT !["local"] = now]
    /\ lease' = [lease EXCEPT !["local"] =
           [k \in Blobs |-> IF ~Settled(k) THEN lease["local"][k]
                            ELSE IF blob[k] = "deleting" THEN [left EXCEPT !.who = evictor[k]]
                            ELSE NoLease]]
    /\ readyBytes' = [readyBytes EXCEPT !["local"] = LocalSum(now)]

ExpectedBytes == SumFunctionOnSet(Size, {k \in Blobs : blob[k] \in {"ready", "deleting"}})

\* Once the repairs are done, both ledgers are set right in one transaction.
ReconcileLedger(w) ==
    /\ At(w, {"reconcile"}, "check") /\ op[w].todo = {}
    /\ ReconcileLocations /\ runtimeBytes' = ExpectedBytes
    /\ Finish(w, "succeeded")
    /\ UNCHANGED <<blob, evictor, object, physical>> /\ Working

-----------------------------------------------------------------------------
(* The media worker and the owner, each in one transaction.                *)

Publishable(k) ==
    /\ object[k] = "pending" /\ k \notin pinned /\ blob[k] # "deleting"
    /\ ~PruneOwned("local", k) /\ disk["local"][k] # "bad"
    /\ runtimeBytes + (IF blob[k] = "ready" THEN 0 ELSE Size[k]) <= MaxBytes["local"]

\* recordPublished: the file is linked inside the transaction that counts it.
Publish(k) ==
    /\ Publishable(k)
    /\ Put("local", k)
    /\ blob' = [blob EXCEPT ![k] = "ready"] /\ evictor' = [evictor EXCEPT ![k] = NoWorker]
    /\ runtimeBytes' = runtimeBytes + (IF blob[k] = "ready" THEN 0 ELSE Size[k])
    /\ SetLoc("local", k, "ready", NoLease)
    /\ AddBytes("local", IF Physical("local", k) THEN 0 ELSE Size[k])
    /\ pinned' = pinned \union {k}
    /\ UNCHANGED <<object, s3On, protected, op, faults>>

\* The plan of the published blob commits.
Settle(k) ==
    /\ k \in pinned /\ pinned' = pinned \ {k}
    /\ object' = [object EXCEPT ![k] = "ready"]
    /\ UNCHANGED <<ledger, blob, evictor, runtimeBytes, physical, s3On, protected, op, faults>>

\* The owner has an evicted object fetched again.
AdminRetry(k) ==
    /\ object[k] = "evicted" /\ object' = [object EXCEPT ![k] = "pending"]
    /\ UNCHANGED <<ledger, blob, evictor, runtimeBytes, physical, owner, op, faults>>

\* Mutant: only the older ledger is asked whether the blob is being deleted.
NotEvicted(k) == blob[k] # "deleting"
NotDeleting(k) == blob[k] # "deleting" /\ \A b \in Backends : loc[b][k] # "deleting"

Protect(k) ==
    /\ k \in Protectable \ protected /\ NotDeleting(k)
    /\ protected' = protected \union {k}
    /\ UNCHANGED <<ledger, legacy, physical, s3On, pinned, op, faults>>

\* Withdrawn, or run out.
Unprotect(k) ==
    /\ k \in protected /\ protected' = protected \ {k}
    /\ UNCHANGED <<ledger, legacy, physical, s3On, pinned, op, faults>>

-----------------------------------------------------------------------------
(* What may go wrong.                                                      *)

Busy(w) == op[w].pc \notin {"idle", "succeeded", "failed"}

\* The worker is still about the step that its claim on the location covers.
Active(b, k) ==
    \E w \in Workers :
        /\ lease[b][k].who = w /\ op[w].k = k
        /\ CASE lease[b][k].by = "copy" -> At(w, Copying, op[w].pc) /\ Target(w) = b
             [] lease[b][k].by = "prune" -> At(w, {"prune"}, op[w].pc) /\ Target(w) = b
             [] OTHER -> At(w, Evicting, op[w].pc)

\* A claim runs out, under a worker that is still about it only as a fault.
ExpireLocation(b, k) ==
    /\ lease[b][k].live /\ lease' = [lease EXCEPT ![b][k].live = FALSE]
    /\ IF Active(b, k) THEN Fault("slow") ELSE UNCHANGED faults
    /\ UNCHANGED <<loc, readyBytes, legacy, owner, physical, op>>

\* Bytes are lost or spoiled on a volume or in the bucket.
Lose(b, k) ==
    /\ disk[b][k] = "good"
    /\ \/ Fault("lost") /\ disk' = [disk EXCEPT ![b][k] = "absent"]
       \/ Fault("corrupt") /\ disk' = [disk EXCEPT ![b][k] = "bad"]
    /\ tainted' = tainted \union {<<b, k>>}
    /\ UNCHANGED <<ledger, legacy, owner, op>>

\* A start of the service with the bucket configured or not: PostgresStorageLedger.bootstrap.
Bootstrap ==
    /\ Fault("unset") /\ s3On' = ~s3On
    /\ readyBytes' = [b \in Backends |-> PhysicalBytes(b)]
    /\ UNCHANGED <<loc, lease, legacy, pinned, protected, physical, op>>

-----------------------------------------------------------------------------
OperationStep(w) ==
    \/ ListCandidates(w) \/ MigrateNext(w) \/ MigrateRefused(w) \/ MigrateEnds(w)
    \/ ClaimRestore(w) \/ Copy(w) \/ CopyFails(w) \/ VerifySource(w)
    \/ FinalizeCopy(w) \/ FinalizeFails(w) \/ FailCopy(w)
    \/ ClaimPrune(w) \/ PruneDelete(w) \/ PruneDeleteFails(w) \/ FinalizePrune(w) \/ PruneStale(w)
    \/ StartEvict(w) \/ ClaimEviction(w) \/ Unlink(w) \/ UnlinkFails(w)
    \/ CompleteEviction(w) \/ UndoEviction(w)
    \/ ListReadyBlobs(w) \/ CheckBlob(w) \/ ReconcileLedger(w)

OwnerStep(k) == Publish(k) \/ Settle(k) \/ AdminRetry(k) \/ Protect(k) \/ Unprotect(k)
Mishap(b, k) == ExpireLocation(b, k) \/ Lose(b, k)
=============================================================================
