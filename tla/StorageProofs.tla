---------------------------- MODULE StorageProofs ----------------------------
(***************************************************************************)
(* What the storage operations keep, for any blobs, workers, commands,     *)
(* capacities and faults: the byte counts of the backends, the bytes and   *)
(* the copies of what is ready, and protected objects.                     *)
(***************************************************************************)
EXTENDS StorageProps, Sums

Steps == {"idle", "succeeded", "failed", "list", "claim", "start", "copy", "verify", "settle",
          "abandon", "delete", "finalize", "unlink", "complete", "undo", "check"}
Operations ==
    [kind : Kinds, pc : Steps, to : Backends, k : Blobs \union {NoBlob}, todo : SUBSET Blobs,
     target : Nat, why : {"none", "target", "source"}, left : Int]
Leases == [who : Workers \union {NoWorker}, by : {"none", "copy", "prune", "evict"}, live : BOOLEAN]
Asked ==
    {q \in [kind : Kinds \ {"none"}, to : Backends, k : Blobs \union {NoBlob}, target : Nat] :
        q.kind \in {"migrate_object", "restore", "evict"} => q.k \in Blobs}
Queued ==
    {q \in [state : {"pending", "running", "succeeded", "failed"}, attempts : 0 .. MaxAttempts, request : Asked] :
        q.state = "pending" => q.attempts = 0}

LocationsOK ==
    /\ loc \in [Backends -> [Blobs -> LocationStates]]
    /\ lease \in [Backends -> [Blobs -> Leases]]
    /\ blob \in [Blobs -> BlobStates]
    /\ evictor \in [Blobs -> Workers \union {NoWorker}]
    /\ disk \in [Backends -> [Blobs -> {"absent", "good", "bad"}]]
    /\ protected \subseteq Blobs
\* From its first claim on, or because it was asked for, an operation is about a blob.
NamesBlob(o) ==
    \/ o.pc \in {"copy", "verify", "settle", "abandon", "delete", "finalize", "unlink", "complete", "undo"}
    \/ o.pc = "list" /\ o.kind \in {"migrate_object", "restore"}
    \/ o.pc \in {"start", "claim"} /\ o.kind \in Evicting
OperationsOK ==
    /\ op \in [Workers -> Operations]
    /\ \A w \in Workers : NamesBlob(op[w]) => op[w].k \in Blobs
QueueOK == cmd \in [Commands -> {NoCommand} \union Queued]

-----------------------------------------------------------------------------
LEMMA StartsInShape == Init => LocationsOK /\ OperationsOK /\ QueueOK
<1> SUFFICES ASSUME Init PROVE LocationsOK /\ OperationsOK /\ QueueOK
  OBVIOUS
<1>1. PICK mirrored \in Start :
        /\ loc = [b \in Backends |-> [k \in Blobs |-> IF k \in mirrored THEN "ready" ELSE "none"]]
        /\ lease = [b \in Backends |-> [k \in Blobs |-> NoLease]]
        /\ blob = [k \in Blobs |-> IF k \in mirrored THEN "ready" ELSE "none"]
        /\ evictor = [k \in Blobs |-> NoWorker]
        /\ disk = [b \in Backends |-> [k \in Blobs |-> IF k \in mirrored THEN "good" ELSE "absent"]]
        /\ op = [w \in Workers |-> Idle] /\ protected = {}
  BY DEF Init, StorageInit
<1>2. LocationsOK
  BY <1>1 DEF LocationsOK, Leases, NoLease, LocationStates, BlobStates
<1>3. Idle \in Operations
  BY BoundsAreNumbers DEF Idle, Operations, Kinds, Steps, Backends
<1>4. ~NamesBlob(Idle)
  BY DEF NamesBlob, Idle
<1> QED BY <1>1, <1>2, <1>3, <1>4 DEF OperationsOK, QueueOK, Init

-----------------------------------------------------------------------------
\* How a step leaves a worker: only a copy that wrote its bytes is about to be settled.
Onward(w) ==
    /\ OperationsOK'
    /\ \A v \in Workers : op'[v].pc = "settle" => op'[v] = op[v]

LEMMA Moves ==
  ASSUME OperationsOK, NEW w \in Workers, NEW r \in Operations, op' = [op EXCEPT ![w] = r], r.pc # "settle",
         NamesBlob(r) => r.k \in Blobs
  PROVE  Onward(w)
BY DEF OperationsOK, Onward

LEMMA GotoGoesOn ==
  ASSUME OperationsOK, NEW w \in Workers, NEW pc \in Steps \ {"settle"}, Goto(w, pc), NamesBlob(op[w])
  PROVE  Onward(w)
<1> DEFINE r == [op[w] EXCEPT !.pc = pc]
<1>1. r \in Operations /\ r.pc = pc /\ r.k \in Blobs
  BY DEF OperationsOK, Operations
<1>2. op' = [op EXCEPT ![w] = r]
  BY DEF Goto
<1> HIDE DEF r
<1> QED BY <1>1, <1>2, Moves

LEMMA TakeGoesOn ==
  ASSUME OperationsOK, NEW w \in Workers, NEW pc \in Steps \ {"settle"}, NEW k \in Blobs \union {NoBlob}, Take(w, k, pc),
         k \in Blobs \/ (pc = "claim" /\ op[w].kind = "prune")
  PROVE  Onward(w)
<1> DEFINE r == [op[w] EXCEPT !.k = k, !.pc = pc]
<1>1. r \in Operations /\ r.pc = pc /\ r.k = k /\ r.kind = op[w].kind
  BY DEF OperationsOK, Operations
<1>2. op' = [op EXCEPT ![w] = r]
  BY DEF Take
<1> HIDE DEF r
<1>3. NamesBlob(r) => r.k \in Blobs
  BY <1>1 DEF NamesBlob, Evicting
<1> QED BY <1>1, <1>2, <1>3, Moves

LEMMA FinishGoesOn ==
  ASSUME OperationsOK, NEW w \in Workers, NEW outcome \in {"succeeded", "failed"}, Finish(w, outcome)
  PROVE  Onward(w)
<1> DEFINE r == [Idle EXCEPT !.kind = op[w].kind, !.pc = outcome]
<1>1. Idle \in Operations /\ op[w].kind \in Kinds /\ outcome \in Steps
  BY BoundsAreNumbers DEF Idle, OperationsOK, Operations, Kinds, Backends, Steps
<1>2. r \in Operations /\ r.pc = outcome
  BY <1>1 DEF Operations
<1>3. op' = [op EXCEPT ![w] = r]
  BY DEF Finish
<1> HIDE DEF r
<1> QED BY <1>2, <1>3, Moves DEF NamesBlob

LEMMA SkipGoesOn ==
  ASSUME OperationsOK, NEW w \in Workers, NEW k, Skip(w, k), op[w].kind \notin Evicting
  PROVE  Onward(w)
<1> DEFINE r == [op[w] EXCEPT !.todo = @ \ {k}, !.k = NoBlob, !.pc = "claim"]
<1>1. r \in Operations /\ r.pc = "claim" /\ r.kind = op[w].kind
  BY ZenonT(60) DEF OperationsOK, Operations, Steps
<1>2. op' = [op EXCEPT ![w] = r]
  BY DEF Skip
<1> HIDE DEF r
<1> QED BY <1>1, <1>2, Moves DEF NamesBlob

LEMMA GiveUpGoesOn ==
  ASSUME OperationsOK, NEW w \in Workers, GiveUp(w)
  PROVE  Onward(w)
<1>1. CASE op[w].kind = "evict"
  BY <1>1, FinishGoesOn DEF GiveUp
<1>2. CASE op[w].kind # "evict"
  <2> DEFINE r == [op[w] EXCEPT !.todo = @ \ {op[w].k}, !.k = NoBlob, !.pc = "check"]
  <2>1. r \in Operations /\ r.pc = "check"
    BY ZenonT(60) DEF OperationsOK, Operations, Steps
  <2>2. op' = [op EXCEPT ![w] = r]
    BY <1>2 DEF GiveUp
  <2> HIDE DEF r
  <2> QED BY <2>1, <2>2, Moves DEF NamesBlob
<1> QED BY <1>1, <1>2

LEMMA OperationGoesOn ==
  ASSUME OperationsOK, LocationsOK, NEW w \in Workers, OperationStep(w)
  PROVE  Onward(w) \/ (Copy(w) /\ Goto(w, "settle") /\ OperationsOK')
<1> USE DEF Operations, Kinds, Backends, Steps
<1>1. CASE ListCandidates(w)
  <2>1. CASE \E outcome \in {"failed"} : Finish(w, outcome)
    BY <2>1, FinishGoesOn
  <2>2. ASSUME NEW S \in SUBSET Blobs, op' = [op EXCEPT ![w].todo = S, ![w].pc = "claim"]
        PROVE  Onward(w)
    <3> DEFINE r == [op[w] EXCEPT !.todo = S, !.pc = "claim"]
    <3>1. r \in Operations /\ r.pc = "claim" /\ r.kind = op[w].kind
      BY ZenonT(60) DEF OperationsOK
    <3>2. op' = [op EXCEPT ![w] = r]
      BY <2>2
    <3>3. op[w].kind \notin Evicting
      BY <1>1 DEF ListCandidates, At, Migrating, Evicting
    <3> HIDE DEF r
    <3> QED BY <3>1, <3>2, <3>3, Moves DEF NamesBlob
  <2>3. CASE op[w].kind = "migrate"
    <3>1. {k \in Blobs : loc[Source(w)][k] = "ready" /\ loc[Target(w)][k] # "ready"} \in SUBSET Blobs
      OBVIOUS
    <3> QED BY <1>1, <2>1, <2>2, <2>3, <3>1 DEF ListCandidates
  <2>4. CASE op[w].kind # "migrate"
    <3>1. {k \in {op[w].k} : blob[k] # "none"} \in SUBSET Blobs
      BY <1>1, <2>4 DEF OperationsOK, ListCandidates, At, Migrating, NamesBlob
    <3> QED BY <1>1, <2>1, <2>2, <2>4, <3>1 DEF ListCandidates
  <2> QED BY <2>3, <2>4
<1>2. CASE MigrateNext(w)
  BY <1>2, TakeGoesOn, SkipGoesOn DEF MigrateNext, TakeCopy, OperationsOK, At, Migrating, Evicting
<1>3. CASE MigrateRefused(w)
  BY <1>3, FinishGoesOn DEF MigrateRefused
<1>4. CASE MigrateEnds(w)
  BY <1>4, FinishGoesOn DEF MigrateEnds
<1>5. CASE ClaimRestore(w)
  BY <1>5, FinishGoesOn, TakeGoesOn DEF ClaimRestore, TakeCopy, OperationsOK, At, NamesBlob
<1>6. CASE Copy(w)
  <2>1. CASE Goto(w, "settle")
    <3>1. [op[w] EXCEPT !.pc = "settle"] \in Operations /\ [op[w] EXCEPT !.pc = "settle"].k = op[w].k
      BY DEF OperationsOK
    <3>2. op[w].k \in Blobs
      BY <1>6 DEF Copy, At, OperationsOK, NamesBlob
    <3> QED BY <1>6, <2>1, <3>1, <3>2 DEF Goto, OperationsOK
  <2> QED BY <1>6, <2>1, GotoGoesOn DEF Copy, At, NamesBlob
<1>7. CASE CopyFails(w)
  BY <1>7, GotoGoesOn DEF CopyFails, At, NamesBlob
<1>8. CASE VerifySource(w)
  <2>1. ASSUME NEW why \in {"none", "target", "source"}, op' = [op EXCEPT ![w].why = why, ![w].pc = "abandon"]
        PROVE  Onward(w)
    <3> DEFINE r == [op[w] EXCEPT !.why = why, !.pc = "abandon"]
    <3>1. r \in Operations /\ r.pc = "abandon" /\ r.k = op[w].k
      BY ZenonT(60) DEF OperationsOK
    <3>2. op' = [op EXCEPT ![w] = r]
      BY <2>1
    <3>3. op[w].k \in Blobs
      BY <1>8 DEF VerifySource, At, NamesBlob, OperationsOK
    <3> HIDE DEF r
    <3> QED BY <3>1, <3>2, <3>3, Moves
  <2> QED BY <1>8, <2>1 DEF VerifySource
<1>9. CASE FinalizeCopy(w)
  BY <1>9, FinishGoesOn, SkipGoesOn DEF FinalizeCopy, At, Copying, Migrating, Evicting
<1>10. CASE FinalizeFails(w)
  BY <1>10, GotoGoesOn DEF FinalizeFails, At, NamesBlob
<1>11. CASE FailCopy(w)
  BY <1>11, FinishGoesOn DEF FailCopy
<1>12. CASE ClaimPrune(w)
  <2>1. ASSUME NEW k \in Blobs, op' = [op EXCEPT ![w].k = k, ![w].pc = "delete", ![w].left = @ - 1]
        PROVE  Onward(w)
    <3> DEFINE r == [op[w] EXCEPT !.k = k, !.pc = "delete", !.left = @ - 1]
    <3>1. r \in Operations /\ r.pc = "delete" /\ r.k = k
      <4>1. op[w] \in Operations /\ op[w].left - 1 \in Int
        BY DEF OperationsOK
      <4> QED BY <4>1
    <3>2. op' = [op EXCEPT ![w] = r]
      BY <2>1
    <3> QED BY <3>1, <3>2, Moves
  <2> QED BY <1>12, <2>1, FinishGoesOn DEF ClaimPrune, NextPruned, Candidates
<1>13. CASE PruneDelete(w)
  BY <1>13, GotoGoesOn DEF PruneDelete, At, NamesBlob
<1>14. CASE PruneDeleteFails(w)
  BY <1>14, FinishGoesOn DEF PruneDeleteFails
<1>15. CASE FinalizePrune(w)
  BY <1>15, FinishGoesOn, TakeGoesOn DEF FinalizePrune, FinalizeLogicalEviction, LeaveRuntime, At
<1>16. CASE PruneStale(w)
  BY <1>16, FinishGoesOn DEF PruneStale
<1>17. CASE StartEvict(w)
  BY <1>17, FinishGoesOn, GotoGoesOn DEF StartEvict, At, NamesBlob, Evicting
<1>18. CASE ClaimEviction(w)
  BY <1>18, GiveUpGoesOn, GotoGoesOn DEF ClaimEviction, At, NamesBlob
<1>19. CASE Unlink(w)
  BY <1>19, GotoGoesOn DEF Unlink, At, NamesBlob
<1>20. CASE UnlinkFails(w)
  BY <1>20, GotoGoesOn DEF UnlinkFails, At, NamesBlob
<1>21. CASE CompleteEviction(w)
  BY <1>21, FinishGoesOn, GiveUpGoesOn DEF CompleteEviction
<1>22. CASE UndoEviction(w)
  BY <1>22, GiveUpGoesOn DEF UndoEviction
<1>23. CASE ListReadyBlobs(w)
  <2> DEFINE r == [op[w] EXCEPT !.todo = {k \in Blobs : blob[k] = "ready"}, !.pc = "check"]
  <2>1. r \in Operations /\ r.pc = "check"
    BY ZenonT(60) DEF OperationsOK
  <2>2. op' = [op EXCEPT ![w] = r]
    BY <1>23 DEF ListReadyBlobs
  <2> HIDE DEF r
  <2> QED BY <2>1, <2>2, Moves DEF NamesBlob
<1>24. CASE CheckBlob(w)
  <2>1. ASSUME NEW k, op' = [op EXCEPT ![w].todo = @ \ {k}]
        PROVE  Onward(w)
    <3> DEFINE r == [op[w] EXCEPT !.todo = @ \ {k}]
    <3>1. r \in Operations /\ r.pc = op[w].pc /\ op[w].pc = "check" /\ r.kind = op[w].kind
      BY <1>24 DEF OperationsOK, CheckBlob, At
    <3>2. op' = [op EXCEPT ![w] = r]
      BY <2>1
    <3> HIDE DEF r
    <3> QED BY <3>1, <3>2, Moves DEF NamesBlob
  <2> QED BY <1>24, <2>1, TakeGoesOn DEF CheckBlob, OperationsOK
<1>25. CASE ReconcileLedger(w)
  BY <1>25, FinishGoesOn DEF ReconcileLedger
<1> QED BY <1>1, <1>2, <1>3, <1>4, <1>5, <1>6, <1>7, <1>8, <1>9, <1>10, <1>11, <1>12, <1>13, <1>14, <1>15,
           <1>16, <1>17, <1>18, <1>19, <1>20, <1>21, <1>22, <1>23, <1>24, <1>25 DEF OperationStep

-----------------------------------------------------------------------------
\* The key of the blob in the bucket is unspoiled.
KeyGood(k) == <<"s3", k>> \notin tainted => disk["s3"][k] = "good"
\* A worker has written its copy into the bucket and still holds the claim for it.
Settling(w, k) ==
    /\ At(w, Copying, "settle") /\ Target(w) = "s3" /\ op[w].k = k
    /\ HoldsCopy(w, k)
SettlingHasBytes == \A w \in Workers, k \in Blobs : Settling(w, k) => KeyGood(k)

(* What every step does to a key: only a deletion in hand takes its bytes; only a settled copy  *)
(* makes it ready; and a claim to copy stays its worker's until another begins to copy.         *)
Kept(k) ==
    /\ loc["s3"][k] # "deleting" /\ KeyGood(k) => KeyGood(k)'
    /\ loc'["s3"][k] = "ready" => loc["s3"][k] = "ready" \/ \E w \in Workers : Settling(w, k)
    /\ loc'["s3"][k] = "copying" =>
         \/ /\ loc["s3"][k] = "copying" /\ lease'["s3"][k].who = lease["s3"][k].who
            /\ lease'["s3"][k].by = lease["s3"][k].by
         \/ \A w \in Workers : lease'["s3"][k].who = w => op'[w].pc = "copy"
AllKept == LocationsOK' /\ ProtectionHolds' /\ \A k \in Blobs : Kept(k)

Consistent == LocationsOK /\ OperationsOK /\ ProtectionHolds

LEMMA CalmKeeps ==
  ASSUME Consistent, UNCHANGED <<ledger, legacy, owner, physical>>
  PROVE  AllKept
BY DEF Consistent, LocationsOK, ProtectionHolds, ledger, legacy, owner, physical, AllKept, Kept, KeyGood

LEMMA PutKeeps ==
  ASSUME Consistent, NEW b \in Backends, NEW k, Put(b, k), UNCHANGED <<ledger, legacy, owner>>
  PROVE  AllKept /\ (k \in Blobs /\ b = "s3" => KeyGood(k)')
BY DEF Put, Consistent, LocationsOK, ProtectionHolds, ledger, legacy, owner, AllKept, Kept, KeyGood, Backends

LEMMA RemoveKeeps ==
  ASSUME Consistent, NEW w, NEW b \in Backends, NEW k, NEW by, Remove(w, b, k, by), UNCHANGED <<ledger, legacy, owner>>
  PROVE  AllKept
BY DEF Remove, Consistent, LocationsOK, ProtectionHolds, ledger, legacy, owner, AllKept, Kept, KeyGood, Backends

LEMMA TakeCopyKeeps ==
  ASSUME Consistent, NEW w \in Workers, NEW k, TakeCopy(w, k)
  PROVE  AllKept
<1>1. op'[w].pc = "copy"
  <2>1. [op[w] EXCEPT !.k = k, !.pc = "copy"].pc = "copy"
    BY DEF Consistent, OperationsOK, Operations
  <2> QED BY <2>1 DEF TakeCopy, Take, Consistent, OperationsOK
<1>2. /\ loc' = [loc EXCEPT ![Target(w)][k] = "copying"]
      /\ lease' = [lease EXCEPT ![Target(w)][k] = Fresh(w, "copy")]
      /\ UNCHANGED <<blob, evictor, protected, disk, tainted>>
  BY DEF TakeCopy, SetLoc, legacy, physical, Working, owner
<1>3. Fresh(w, "copy") \in Leases /\ Fresh(w, "copy").who = w
  BY DEF Fresh, Leases
<1>4. LocationsOK'
  BY <1>2, <1>3 DEF Consistent, LocationsOK, LocationStates
<1>5. ProtectionHolds'
  BY <1>2 DEF Consistent, LocationsOK, ProtectionHolds, Backends
<1>6. ASSUME NEW x \in Blobs PROVE Kept(x)
  <2>1. CASE loc'["s3"][x] = loc["s3"][x] /\ lease'["s3"][x] = lease["s3"][x]
    BY <1>2, <2>1 DEF Kept, KeyGood
  <2>2. CASE loc'["s3"][x] = "copying" /\ lease'["s3"][x] = Fresh(w, "copy")
    BY <1>1, <1>2, <1>3, <2>2 DEF Kept, KeyGood
  <2> QED BY <1>2, <2>1, <2>2 DEF Consistent, LocationsOK, Backends
<1> QED BY <1>4, <1>5, <1>6 DEF AllKept

\* A location that is set, with the older ledger's blob beside it; neither begins a deletion of a
\* protected blob.
BlobKept ==
    /\ blob' \in [Blobs -> BlobStates] /\ evictor' \in [Blobs -> Workers \union {NoWorker}]
    /\ \A k \in protected : blob'[k] = "deleting" => blob[k] = "deleting"

LEMMA SetKeeps ==
  ASSUME Consistent, BlobKept, UNCHANGED <<protected, physical>>,
         NEW b \in Backends, NEW k, NEW state \in LocationStates \ {"copying"}, NEW l \in Leases,
         SetLoc(b, k, state, l),
         state = "deleting" => k \notin protected,
         b = "s3" /\ state = "ready" => \E w \in Workers : Settling(w, k)
  PROVE  AllKept
<1>1. /\ loc' = [loc EXCEPT ![b][k] = state] /\ lease' = [lease EXCEPT ![b][k] = l]
      /\ UNCHANGED <<protected, disk, tainted>>
  BY DEF SetLoc, physical
<1>2. LocationsOK'
  BY <1>1 DEF Consistent, LocationsOK, BlobKept
<1>3. ProtectionHolds'
  BY <1>1 DEF Consistent, LocationsOK, ProtectionHolds, BlobKept
<1>4. ASSUME NEW x \in Blobs PROVE Kept(x)
  <2>1. CASE loc'["s3"][x] = loc["s3"][x] /\ lease'["s3"][x] = lease["s3"][x]
    BY <1>1, <2>1 DEF Kept, KeyGood
  <2>2. CASE b = "s3" /\ x = k /\ loc'["s3"][x] = state
    BY <1>1, <2>2 DEF Kept, KeyGood
  <2> QED BY <1>1, <2>1, <2>2 DEF Consistent, LocationsOK, Backends
<1> QED BY <1>2, <1>3, <1>4 DEF AllKept

LEMMA FailCopyKeeps ==
  ASSUME Consistent, NEW w \in Workers, FailCopy(w)
  PROVE  AllKept
<1> DEFINE k == op[w].k
           from == Source(w)
           b == Target(w)
           held == HoldsCopy(w, k)
<1>1. PICK given \in {"corrupt", "missing"} :
        /\ loc' = [loc EXCEPT ![b][k] = IF held THEN given ELSE @,
                              ![from][k] = IF SpoiledSource(w, k) THEN "corrupt" ELSE @]
        /\ lease' = [lease EXCEPT ![b][k] = IF held THEN NoLease ELSE @,
                                  ![from][k] = IF SpoiledSource(w, k) THEN NoLease ELSE @]
        /\ UNCHANGED <<blob, evictor, protected, disk, tainted>>
  BY DEF FailCopy, legacy, physical, Working, owner
<1>2. b \in Backends /\ from \in Backends /\ b # from
  BY DEF Consistent, OperationsOK, Operations, Source, Target, Other, Backends
<1>3. NoLease \in Leases
  BY DEF NoLease, Leases
<1>4. LocationsOK'
  <2>1. loc' \in [Backends -> [Blobs -> LocationStates]]
    <3>1. CASE held
      BY <1>1, <1>2, <3>1 DEF Consistent, LocationsOK, LocationStates
    <3>2. CASE ~held
      <4>1. loc' = [loc EXCEPT ![from][k] = IF SpoiledSource(w, k) THEN "corrupt" ELSE @]
        BY <1>1, <1>2, <3>2 DEF Consistent, LocationsOK
      <4> QED BY <1>2, <4>1 DEF Consistent, LocationsOK, LocationStates
    <3> QED BY <3>1, <3>2
  <2>2. lease' \in [Backends -> [Blobs -> Leases]]
    BY <1>1, <1>2, <1>3, ZenonT(60) DEF Consistent, LocationsOK
  <2> QED BY <1>1, <2>1, <2>2 DEF Consistent, LocationsOK
<1>5. ProtectionHolds'
  BY <1>1, <1>2 DEF Consistent, LocationsOK, ProtectionHolds
<1>6. ASSUME NEW x \in Blobs PROVE Kept(x)
  <2>1. \/ loc'["s3"][x] = loc["s3"][x] /\ lease'["s3"][x] = lease["s3"][x]
        \/ loc'["s3"][x] \in {"corrupt", "missing"}
    BY <1>1, <1>2 DEF Consistent, LocationsOK, Backends
  <2> QED BY <1>1, <2>1 DEF Kept, KeyGood
<1> QED BY <1>4, <1>5, <1>6 DEF AllKept

LEMMA ReconcileLedgerKeeps ==
  ASSUME Consistent, NEW w \in Workers, ReconcileLedger(w)
  PROVE  AllKept
<1> DEFINE now == [k \in Blobs |-> IF Settled(k) THEN blob[k] ELSE loc["local"][k]]
<1>1. PICK l \in [Blobs -> Leases] :
        /\ loc' = [loc EXCEPT !["local"] = now] /\ lease' = [lease EXCEPT !["local"] = l]
        /\ UNCHANGED <<blob, evictor, protected, disk, tainted>>
  <2> DEFINE left == [who |-> NoWorker, by |-> "evict", live |-> FALSE]
             l == [k \in Blobs |-> IF ~Settled(k) THEN lease["local"][k]
                                   ELSE IF blob[k] = "deleting" THEN [left EXCEPT !.who = evictor[k]]
                                   ELSE NoLease]
  <2>1. ASSUME NEW k \in Blobs PROVE l[k] \in Leases
    <3>1. \A v \in Workers \union {NoWorker} : [left EXCEPT !.who = v] \in Leases
      BY DEF Leases
    <3>2. NoLease \in Leases
      BY DEF NoLease, Leases
    <3> QED BY <3>1, <3>2 DEF Consistent, LocationsOK, Backends
  <2>2. l \in [Blobs -> Leases]
    BY <2>1
  <2>3. /\ loc' = [loc EXCEPT !["local"] = now] /\ lease' = [lease EXCEPT !["local"] = l]
        /\ UNCHANGED <<blob, evictor, protected, disk, tainted>>
    BY DEF ReconcileLedger, ReconcileLocations, physical, Working, owner
  <2> QED BY <2>2, <2>3
<1>2. now \in [Blobs -> LocationStates]
  BY DEF Consistent, LocationsOK, BlobStates, LocationStates, Backends
<1>3. LocationsOK'
  <2>1. loc' \in [Backends -> [Blobs -> LocationStates]] /\ lease' \in [Backends -> [Blobs -> Leases]]
    BY <1>1, <1>2 DEF Consistent, LocationsOK
  <2> QED BY <1>1, <2>1 DEF Consistent, LocationsOK
<1>4. ProtectionHolds'
  BY <1>1 DEF Consistent, LocationsOK, ProtectionHolds, Backends
<1>5. ASSUME NEW x \in Blobs PROVE Kept(x)
  <2>1. loc'["s3"][x] = loc["s3"][x] /\ lease'["s3"][x] = lease["s3"][x]
    BY <1>1 DEF Consistent, LocationsOK, Backends
  <2> QED BY <1>1, <2>1 DEF Kept, KeyGood
<1> QED BY <1>3, <1>4, <1>5 DEF AllKept

LEMMA CopyingKeeps ==
  ASSUME Consistent, NEW w \in Workers,
         \/ ListCandidates(w) \/ MigrateNext(w) \/ MigrateRefused(w) \/ MigrateEnds(w)
         \/ ClaimRestore(w) \/ Copy(w) \/ CopyFails(w) \/ VerifySource(w)
         \/ FinalizeCopy(w) \/ FinalizeFails(w) \/ FailCopy(w)
  PROVE  AllKept
<1>1. Target(w) \in Backends /\ NoLease \in Leases
  BY DEF Consistent, OperationsOK, Operations, Target, NoLease, Leases
<1>2. CASE UNCHANGED <<ledger, legacy, owner, physical>>
  BY <1>2, CalmKeeps
<1>3. CASE \E k \in Blobs \union {NoBlob} : TakeCopy(w, k)
  BY <1>3, TakeCopyKeeps
<1>4. CASE ListCandidates(w) \/ MigrateRefused(w) \/ MigrateEnds(w) \/ VerifySource(w) \/ FinalizeFails(w)
  BY <1>2, <1>4 DEF ListCandidates, MigrateRefused, MigrateEnds, VerifySource, FinalizeFails, Thinking
<1>5. CASE MigrateNext(w)
  <2>1. op[w].todo \subseteq Blobs
    BY DEF Consistent, OperationsOK, Operations
  <2> QED BY <1>2, <1>3, <1>5, <2>1 DEF MigrateNext, Thinking
<1>6. CASE ClaimRestore(w)
  <2>1. op[w].k \in Blobs \union {NoBlob}
    BY DEF Consistent, OperationsOK, Operations
  <2> QED BY <1>2, <1>3, <1>6, <2>1 DEF ClaimRestore, Thinking
<1>7. CASE Copy(w)
  <2>1. Put(Target(w), op[w].k) \/ UNCHANGED physical
    BY <1>7 DEF Copy
  <2>2. UNCHANGED <<ledger, legacy, owner>>
    BY <1>7 DEF Copy, Working
  <2> QED BY <1>1, <1>2, <2>1, <2>2, PutKeeps
<1>8. CASE CopyFails(w)
  <2>1. (Put(Target(w), op[w].k) \/ UNCHANGED physical) /\ UNCHANGED <<ledger, legacy, owner>>
    BY <1>8 DEF CopyFails
  <2> QED BY <1>1, <1>2, <2>1, PutKeeps
<1>9. CASE FinalizeCopy(w)
  <2>1. /\ SetLoc(Target(w), op[w].k, "ready", NoLease) /\ UNCHANGED <<protected, physical>>
        /\ RestoreLegacy(op[w].k) \/ UNCHANGED legacy
    BY <1>9 DEF FinalizeCopy, Working, owner
  <2>2. BlobKept
    BY <2>1 DEF RestoreLegacy, legacy, BlobKept, Consistent, LocationsOK, BlobStates
  <2>3. Target(w) = "s3" => Settling(w, op[w].k)
    BY <1>9 DEF FinalizeCopy, Settleable, Settling
  <2>4. "ready" \in LocationStates \ {"copying"}
    BY DEF LocationStates
  <2> QED BY <1>1, <2>1, <2>2, <2>3, <2>4, SetKeeps
<1>10. CASE FailCopy(w)
  BY <1>10, FailCopyKeeps
<1> QED BY <1>4, <1>5, <1>6, <1>7, <1>8, <1>9, <1>10

LEMMA PruningKeeps ==
  ASSUME Consistent, NEW w \in Workers,
         ClaimPrune(w) \/ PruneDelete(w) \/ PruneDeleteFails(w) \/ FinalizePrune(w) \/ PruneStale(w)
  PROVE  AllKept
<1>1. Target(w) \in Backends /\ NoLease \in Leases /\ Fresh(w, "prune") \in Leases
  BY DEF Consistent, OperationsOK, Operations, Target, NoLease, Fresh, Leases
<1>2. CASE UNCHANGED <<ledger, legacy, owner, physical>>
  BY <1>2, CalmKeeps
<1>3. CASE ClaimPrune(w)
  <2>1. ASSUME NEW k \in Blobs, Prunable(Target(w), k), SetLoc(Target(w), k, "deleting", Fresh(w, "prune")),
               UNCHANGED <<legacy, physical>>, Working
        PROVE  AllKept
    <3>1. BlobKept /\ UNCHANGED <<protected, physical>> /\ k \notin protected
      BY <2>1 DEF BlobKept, Consistent, LocationsOK, legacy, owner, Working, Prunable
    <3>2. "deleting" \in LocationStates \ {"copying"} /\ "deleting" # "ready"
      BY DEF LocationStates
    <3> QED BY <1>1, <2>1, <3>1, <3>2, SetKeeps
  <2> QED BY <1>2, <1>3, <2>1 DEF ClaimPrune, NextPruned, Candidates, Thinking
<1>4. CASE PruneDelete(w)
  BY <1>1, <1>4, RemoveKeeps DEF PruneDelete, Working
<1>5. CASE PruneDeleteFails(w)
  BY <1>1, <1>2, <1>5, RemoveKeeps DEF PruneDeleteFails
<1>6. CASE FinalizePrune(w)
  <2>1. /\ SetLoc(Target(w), op[w].k, "evicted", NoLease) /\ UNCHANGED <<protected, physical>>
        /\ \/ /\ blob' = [blob EXCEPT ![op[w].k] = "evicted"]
              /\ evictor' = [evictor EXCEPT ![op[w].k] = NoWorker]
           \/ UNCHANGED <<blob, evictor>>
    BY <1>6 DEF FinalizePrune, FinalizeLogicalEviction, LeaveRuntime, Working, owner
  <2>2. BlobKept
    BY <2>1 DEF BlobKept, Consistent, LocationsOK, BlobStates
  <2>3. "evicted" \in LocationStates \ {"copying"} /\ "evicted" # "deleting" /\ "evicted" # "ready"
    BY DEF LocationStates
  <2> QED BY <1>1, <2>1, <2>2, <2>3, SetKeeps
<1>7. CASE PruneStale(w)
  BY <1>2, <1>7 DEF PruneStale, Thinking
<1> QED BY <1>3, <1>4, <1>5, <1>6, <1>7

LEMMA EvictingKeeps ==
  ASSUME Consistent, NEW w \in Workers,
         \/ StartEvict(w) \/ ClaimEviction(w) \/ Unlink(w) \/ UnlinkFails(w)
         \/ CompleteEviction(w) \/ UndoEviction(w)
  PROVE  AllKept
<1> DEFINE k == op[w].k
<1>1. /\ "local" \in Backends /\ "local" # "s3" /\ NoLease \in Leases /\ Fresh(w, "evict") \in Leases
      /\ {"ready", "deleting", "evicted"} \subseteq LocationStates \ {"copying"}
      /\ {"ready", "deleting", "evicted"} \subseteq BlobStates
  BY DEF NoLease, Fresh, Leases, Backends, LocationStates, BlobStates
<1>2. CASE UNCHANGED <<ledger, legacy, owner, physical>>
  BY <1>2, CalmKeeps
<1>3. ASSUME NEW state \in {"ready", "deleting", "evicted"}, NEW l \in Leases, NEW v \in Workers \union {NoWorker},
             SetLoc("local", k, state, l), UNCHANGED <<protected, physical>>,
             state = "deleting" => k \notin protected,
             blob' = [blob EXCEPT ![k] = state], evictor' = [evictor EXCEPT ![k] = v]
      PROVE  AllKept
  <2>1. BlobKept
    BY <1>1, <1>3 DEF BlobKept, Consistent, LocationsOK
  <2> QED BY <1>1, <1>3, <2>1, SetKeeps
<1>4. CASE StartEvict(w) \/ UnlinkFails(w)
  BY <1>2, <1>4 DEF StartEvict, UnlinkFails, Thinking
<1>5. CASE ClaimEviction(w)
  BY <1>1, <1>2, <1>3, <1>5 DEF ClaimEviction, ClaimLocal, Evictable, Working, Thinking, owner
<1>6. CASE Unlink(w)
  BY <1>1, <1>6, RemoveKeeps DEF Unlink, Working
<1>7. CASE CompleteEviction(w)
  BY <1>1, <1>2, <1>3, <1>7 DEF CompleteEviction, DropLocal, Working, Thinking, owner
<1>8. CASE UndoEviction(w)
  <2>1. CASE UNCHANGED <<blob, evictor, loc, lease, protected, physical>>
    BY <2>1 DEF Consistent, LocationsOK, ProtectionHolds, physical, AllKept, Kept, KeyGood
  <2> QED BY <1>1, <1>3, <1>8, <2>1 DEF UndoEviction, GiveBackLocal, Working, owner
<1> QED BY <1>4, <1>5, <1>6, <1>7, <1>8

LEMMA OperationKeeps ==
  ASSUME Consistent, NEW w \in Workers, OperationStep(w)
  PROVE  AllKept
<1>1. CASE ListReadyBlobs(w) \/ CheckBlob(w)
  BY <1>1, CalmKeeps DEF ListReadyBlobs, CheckBlob, Thinking
<1> QED BY <1>1, CopyingKeeps, PruningKeeps, EvictingKeeps, ReconcileLedgerKeeps DEF OperationStep

\* The media worker and the owner.
LEMMA OwnerKeeps ==
  ASSUME Consistent, NEW k \in Blobs, OwnerStep(k)
  PROVE  AllKept
<1>1. CASE Publish(k)
  <2>1. /\ Put("local", k) /\ SetLoc("local", k, "ready", NoLease) /\ UNCHANGED protected
        /\ blob' = [blob EXCEPT ![k] = "ready"] /\ evictor' = [evictor EXCEPT ![k] = NoWorker]
    BY <1>1 DEF Publish
  <2>2. NoLease \in Leases
    BY DEF NoLease, Leases
  <2>3. LocationsOK'
    BY <2>1, <2>2 DEF Put, SetLoc, Consistent, LocationsOK, LocationStates, BlobStates
  <2>4. ProtectionHolds'
    BY <2>1 DEF Put, SetLoc, Consistent, LocationsOK, ProtectionHolds
  <2>5. \A x \in Blobs : Kept(x)
    BY <2>1 DEF Put, SetLoc, Consistent, LocationsOK, Kept, KeyGood, Backends
  <2> QED BY <2>3, <2>4, <2>5 DEF AllKept
<1>2. CASE Settle(k) \/ AdminRetry(k)
  BY <1>2 DEF Settle, AdminRetry, ledger, physical, owner, Consistent, LocationsOK, ProtectionHolds, AllKept, Kept, KeyGood
<1>3. CASE Protect(k) \/ Unprotect(k)
  BY <1>3 DEF Protect, Unprotect, NotDeleting, ledger, legacy, physical, Consistent, LocationsOK, ProtectionHolds, AllKept, Kept, KeyGood
<1> QED BY <1>1, <1>2, <1>3 DEF OwnerStep

LEMMA MishapKeeps ==
  ASSUME Consistent, NEW b \in Backends, NEW k \in Blobs, Mishap(b, k)
  PROVE  AllKept
<1>1. CASE ExpireLocation(b, k)
  <2>1. /\ lease' = [lease EXCEPT ![b][k].live = FALSE]
        /\ UNCHANGED <<loc, blob, evictor, protected, disk, tainted>>
    BY <1>1 DEF ExpireLocation, legacy, owner, physical
  <2>2. lease' \in [Backends -> [Blobs -> Leases]]
    <3>1. [lease[b][k] EXCEPT !.live = FALSE] \in Leases
      <4>1. lease[b][k] \in Leases
        BY DEF Consistent, LocationsOK
      <4> QED BY <4>1 DEF Leases
    <3> QED BY <2>1, <3>1 DEF Consistent, LocationsOK
  <2>3. ASSUME NEW x \in Blobs PROVE lease'["s3"][x].who = lease["s3"][x].who /\ lease'["s3"][x].by = lease["s3"][x].by
    BY <2>1 DEF Consistent, LocationsOK, Leases, Backends
  <2> QED BY <2>1, <2>2, <2>3 DEF Consistent, LocationsOK, ProtectionHolds, AllKept, Kept, KeyGood
<1>2. CASE Lose(b, k)
  <2>1. /\ UNCHANGED <<loc, lease, blob, evictor, protected>> /\ tainted' = tainted \union {<<b, k>>}
        /\ \E found \in {"absent", "bad"} : disk' = [disk EXCEPT ![b][k] = found]
    BY <1>2 DEF Lose, ledger, legacy, owner
  <2>2. LocationsOK' /\ ProtectionHolds'
    BY <2>1 DEF Consistent, LocationsOK, ProtectionHolds
  <2>3. ASSUME NEW x \in Blobs PROVE Kept(x)
    BY <2>1 DEF Consistent, LocationsOK, Kept, KeyGood
  <2> QED BY <2>2, <2>3 DEF AllKept
<1> QED BY <1>1, <1>2 DEF Mishap

-----------------------------------------------------------------------------
(* Every step of the queue and its workers.                                *)

\* A command's request is one of the requests, or a public read's.
LEMMA BeginsInShape ==
  ASSUME OperationsOK, QueueOK, NEW w \in Workers, NEW c \in Commands, cmd[c].state # "none", Begin(w, cmd[c].request)
  PROVE  Onward(w)
<1> DEFINE q == cmd[c].request
           r == [Idle EXCEPT !.kind = q.kind, !.pc = FirstStep(q.kind), !.to = q.to, !.k = q.k, !.target = q.target]
<1>1. q \in Asked
  BY DEF QueueOK, NoCommand, Queued
<1>2. q.kind \in Kinds /\ q.to \in Backends /\ q.k \in Blobs \union {NoBlob} /\ q.target \in Nat
  BY <1>1 DEF Asked
<1>3. FirstStep(q.kind) \in {"list", "claim", "start"}
  BY DEF FirstStep
<1>4. Idle \in Operations
  BY BoundsAreNumbers DEF Idle, Operations, Kinds, Steps, Backends
<1>5. r \in Operations /\ r.pc # "settle" /\ r.pc = FirstStep(q.kind) /\ r.kind = q.kind /\ r.k = q.k
  BY <1>2, <1>3, <1>4 DEF Operations, Steps
<1>6. op' = [op EXCEPT ![w] = r]
  BY DEF Begin
<1> HIDE DEF r
<1>7. NamesBlob(r) => r.k \in Blobs
  BY <1>1, <1>2, <1>5 DEF NamesBlob, Evicting, FirstStep, Asked, Kinds
<1> QED BY <1>5, <1>6, <1>7, Moves

LEMMA QueueShape ==
  ASSUME QueueOK, OperationsOK, Next
  PROVE  QueueOK'
<1>1. CASE UNCHANGED cmd
  BY <1>1 DEF QueueOK
<1>2. ASSUME NEW c \in Commands, NEW r \in Asked, Enqueue(c, r) PROVE QueueOK'
  <2>1. [state |-> "pending", attempts |-> 0, request |-> r] \in Queued
    BY <1>2, QueueAssumption DEF Queued
  <2> QED BY <1>2, <2>1 DEF Enqueue, QueueOK
<1>3. ASSUME NEW c \in Commands, NEW k \in Blobs, RecacheOnAccess(c, k) PROVE QueueOK'
  <2>1. [kind |-> "restore", to |-> "local", k |-> k, target |-> 0] \in Asked
    BY DEF Asked, Kinds, Backends
  <2> QED BY <1>2, <1>3, <2>1 DEF RecacheOnAccess
<1>4. Requests \subseteq Asked
  BY QueueAssumption DEF Asked
<1>5. ASSUME NEW c \in Commands, cmd[c] # NoCommand, NEW state \in {"running", "succeeded", "failed"}
      PROVE  [cmd[c] EXCEPT !.state = state] \in Queued
  <2>1. cmd[c] \in Queued
    BY <1>5 DEF QueueOK
  <2> QED BY <2>1 DEF Queued
<1>6. Fail(GivenUp) \in [Commands -> {NoCommand} \union Queued]
  <2>1. ASSUME NEW c \in GivenUp PROVE c \in Commands /\ cmd[c] # NoCommand
    BY <2>1 DEF GivenUp, Expired, NoCommand
  <2> QED BY <1>5, <2>1 DEF Fail, QueueOK
<1>7. ASSUME NEW w \in Workers, ClaimCommand(w) PROVE QueueOK'
  <2>1. PICK c \in Commands :
          /\ Claimable(c) /\ cmd' = [Fail(GivenUp) EXCEPT ![c].state = "running", ![c].attempts = @ + 1]
    BY <1>7 DEF ClaimCommand
  <2>2. c \notin GivenUp /\ cmd[c] # NoCommand
    BY <2>1, QueueAssumption DEF Claimable, GivenUp, Expired, NoCommand, QueueOK, Queued
  <2>3. cmd[c] \in Queued /\ Fail(GivenUp)[c] = cmd[c]
    BY <2>2 DEF QueueOK, Fail
  <2>4. [cmd[c] EXCEPT !.state = "running", !.attempts = @ + 1] \in Queued
    <3>1. cmd[c].attempts + 1 \in 0 .. MaxAttempts
      BY <2>1, <2>3, QueueAssumption DEF Claimable, Queued
    <3> QED BY <2>3, <3>1 DEF Queued
  <2>5. cmd' = [Fail(GivenUp) EXCEPT ![c] = [cmd[c] EXCEPT !.state = "running", !.attempts = @ + 1]]
    BY <1>6, <2>1, <2>3
  <2> QED BY <1>6, <2>4, <2>5 DEF QueueOK
<1>8. ASSUME NEW w \in Workers, Record(w) PROVE QueueOK'
  <2>1. ASSUME NEW c \in Commands, Holds(w, c) PROVE [cmd[c] EXCEPT !.state = op[w].pc] \in Queued
    <3>1. cmd[c] # NoCommand /\ op[w].pc \in {"succeeded", "failed"}
      BY <1>8, <2>1 DEF Holds, NoCommand, Record
    <3> QED BY <1>5, <3>1
  <2> QED BY <1>8, <2>1 DEF Record, QueueOK
<1> QED BY <1>1, <1>2, <1>3, <1>4, <1>6, <1>7, <1>8 DEF Next, Aside, Run, Renew, Superseded, Crash, ExpireCommand,
           GiveUpCommands, queueVars, storageVars, QueueOK

\* What a step does to the operations: a worker comes to settle its copy only by writing it.
GoOn == /\ OperationsOK'
        /\ \A w \in Workers : op'[w].pc = "settle" => op'[w] = op[w] \/ (Copy(w) /\ Goto(w, "settle"))

LEMMA StepGoesOn ==
  ASSUME Consistent, QueueOK, [Next]_vars
  PROVE  GoOn
<1>1. CASE UNCHANGED op
  BY <1>1 DEF Consistent, OperationsOK, GoOn
<1>2. CASE \E w \in Workers : Onward(w)
  BY <1>2 DEF Onward, GoOn
<1>3. ASSUME NEW w \in Workers, Run(w) PROVE GoOn
  <2>1. CASE Copy(w) /\ Goto(w, "settle") /\ OperationsOK'
    <3>1. \A v \in Workers : v # w => op'[v] = op[v]
      BY <2>1 DEF Goto, Consistent, OperationsOK
    <3> QED BY <2>1, <3>1 DEF GoOn
  <2> QED BY <1>2, <1>3, <2>1, OperationGoesOn DEF Run, Consistent
<1>4. ASSUME NEW w \in Workers, ClaimCommand(w) PROVE GoOn
  BY <1>2, <1>4, BeginsInShape DEF ClaimCommand, Claimable, Expired, Consistent
<1>5. ASSUME NEW w \in Workers, Superseded(w) PROVE GoOn
  BY <1>2, <1>5, FinishGoesOn DEF Superseded, Consistent
<1>6. ASSUME NEW w \in Workers, op' = [op EXCEPT ![w] = Idle] PROVE GoOn
  <2>1. Idle \in Operations /\ Idle.pc # "settle" /\ ~NamesBlob(Idle)
    BY BoundsAreNumbers DEF Idle, Operations, Kinds, Steps, Backends, NamesBlob
  <2> QED BY <1>2, <1>6, <2>1, Moves DEF Consistent
<1>7. CASE \E w \in Workers : Record(w) \/ Crash(w)
  BY <1>6, <1>7 DEF Record, Crash
<1>8. CASE UNCHANGED vars
  BY <1>1, <1>8 DEF vars, storageVars
<1>9. CASE \/ \E c \in Commands, k \in Blobs : RecacheOnAccess(c, k)
           \/ \E c \in Commands : ExpireCommand(c) \/ \E r \in Requests : Enqueue(c, r)
           \/ \E w \in Workers : GiveUpCommands(w) \/ Renew(w)
  BY <1>1, <1>9 DEF RecacheOnAccess, ExpireCommand, Enqueue, GiveUpCommands, Renew, storageVars
<1>10. CASE \/ \E k \in Blobs : Aside(OwnerStep(k)) \/ \E b \in Backends : Aside(Mishap(b, k))
            \/ Aside(Bootstrap)
  BY <1>1, <1>10 DEF Aside, OwnerStep, Publish, Settle, AdminRetry, Protect, Unprotect, Mishap, ExpireLocation, Lose, Bootstrap
<1> QED BY <1>3, <1>4, <1>5, <1>7, <1>8, <1>9, <1>10 DEF Next

LEMMA StepKeeps ==
  ASSUME Consistent, [Next]_vars
  PROVE  AllKept
<1>1. CASE UNCHANGED <<ledger, legacy, owner, physical>>
  BY <1>1, CalmKeeps
<1>2. CASE \E w \in Workers : Run(w)
  BY <1>2, OperationKeeps DEF Run
<1>3. CASE \E k \in Blobs : Aside(OwnerStep(k)) \/ \E b \in Backends : Aside(Mishap(b, k))
  BY <1>3, OwnerKeeps, MishapKeeps DEF Aside
<1>4. CASE Aside(Bootstrap)
  BY <1>4 DEF Aside, Bootstrap, legacy, physical, Consistent, LocationsOK, ProtectionHolds, AllKept, Kept, KeyGood
<1>5. CASE \E w \in Workers : ClaimCommand(w) \/ Record(w) \/ Crash(w) \/ Superseded(w)
  BY <1>1, <1>5 DEF ClaimCommand, Record, Crash, Superseded, Thinking
<1>6. CASE UNCHANGED storageVars
  BY <1>1, <1>6 DEF storageVars
<1>7. CASE \E c \in Commands : ExpireCommand(c)
  BY <1>1, <1>7 DEF ExpireCommand
<1>8. CASE \/ \E c \in Commands, k \in Blobs : RecacheOnAccess(c, k)
           \/ \E c \in Commands, r \in Requests : Enqueue(c, r)
           \/ \E w \in Workers : GiveUpCommands(w) \/ Renew(w)
  BY <1>6, <1>8 DEF RecacheOnAccess, Enqueue, GiveUpCommands, Renew
<1> QED BY <1>2, <1>3, <1>4, <1>5, <1>6, <1>7, <1>8 DEF Next, vars

-----------------------------------------------------------------------------
KeysOK == Consistent /\ QueueOK /\ ReadyHasBytes /\ SettlingHasBytes

LEMMA StartsWithKeys == Init => KeysOK
<1> SUFFICES ASSUME Init PROVE KeysOK
  OBVIOUS
<1>1. LocationsOK /\ OperationsOK /\ QueueOK
  BY StartsInShape
<1>2. protected = {} /\ \A w \in Workers : op[w] = Idle
  BY DEF Init, StorageInit
<1>3. SettlingHasBytes
  BY <1>2 DEF SettlingHasBytes, Settling, At, Idle
<1>4. ReadyHasBytes
  BY DEF Init, StorageInit, ReadyHasBytes, Backends
<1> QED BY <1>1, <1>2, <1>3, <1>4 DEF KeysOK, Consistent, ProtectionHolds

\* A copy that has been written leaves good bytes under the key.
LEMMA CopyPuts ==
  ASSUME Consistent, NEW w \in Workers, NEW k \in Blobs, Copy(w), Goto(w, "settle"), op[w].k = k, Target(w) = "s3"
  PROVE  KeyGood(k)'
<1>1. ~Goto(w, "abandon") /\ ~Goto(w, "verify")
  <2>1. \A pc \in Steps : [op[w] EXCEPT !.pc = pc].pc = pc
    BY DEF Consistent, OperationsOK, Operations
  <2> QED BY <2>1 DEF Goto, Consistent, OperationsOK, Steps
<1>2. Put(Target(w), k)
  BY <1>1 DEF Copy
<1> QED BY <1>2 DEF Put, KeyGood, Consistent, LocationsOK, Backends

LEMMA NextKeepsKeys == KeysOK /\ [Next]_vars => KeysOK'
<1> SUFFICES ASSUME KeysOK, [Next]_vars PROVE KeysOK'
  OBVIOUS
<1>1. AllKept /\ GoOn
  BY StepKeeps, StepGoesOn DEF KeysOK
<1>2. QueueOK'
  BY QueueShape DEF KeysOK, Consistent, vars, QueueOK, queueVars
<1>3. ASSUME NEW k \in Blobs, NEW w \in Workers, Settling(w, k)
      PROVE  loc["s3"][k] = "copying" /\ KeyGood(k)
  BY <1>3 DEF KeysOK, SettlingHasBytes, Settling, HoldsCopy
<1>4. ASSUME NEW k \in Blobs, loc'["s3"][k] = "ready" PROVE KeyGood(k)'
  <2>1. CASE loc["s3"][k] = "ready"
    BY <1>1, <2>1 DEF AllKept, Kept, KeysOK, ReadyHasBytes, KeyGood
  <2>2. CASE \E w \in Workers : Settling(w, k)
    BY <1>1, <1>3, <2>2 DEF AllKept, Kept
  <2> QED BY <1>1, <1>4, <2>1, <2>2 DEF AllKept, Kept
<1>5. ASSUME NEW w \in Workers, NEW k \in Blobs, Settling(w, k)' PROVE KeyGood(k)'
  <2>1. /\ op'[w].pc = "settle" /\ op'[w].k = k /\ op'[w].to = "s3" /\ op'[w].kind \in Copying
        /\ loc'["s3"][k] = "copying" /\ lease'["s3"][k].who = w /\ lease'["s3"][k].by = "copy"
    BY <1>5 DEF Settling, At, Target, HoldsCopy, Own
  <2>2. CASE op'[w] = op[w]
    <3>1. /\ loc["s3"][k] = "copying" /\ lease["s3"][k].who = w /\ lease["s3"][k].by = "copy"
      BY <1>1, <2>1 DEF AllKept, Kept
    <3>2. Settling(w, k)
      BY <2>1, <2>2, <3>1 DEF Settling, At, Target, HoldsCopy, Own
    <3> QED BY <1>1, <1>3, <3>2 DEF AllKept, Kept
  <2>3. CASE Copy(w) /\ Goto(w, "settle")
    <3>1. op[w].k = k /\ Target(w) = "s3"
      BY <2>1, <2>3 DEF Goto, Target, KeysOK, Consistent, OperationsOK, Operations
    <3> QED BY <2>3, <3>1, CopyPuts DEF KeysOK
  <2> QED BY <1>1, <2>1, <2>2, <2>3 DEF GoOn
<1>6. ReadyHasBytes' /\ SettlingHasBytes'
  BY <1>4, <1>5 DEF ReadyHasBytes, KeyGood, SettlingHasBytes
<1> QED BY <1>1, <1>2, <1>6 DEF AllKept, GoOn, KeysOK, Consistent

-----------------------------------------------------------------------------
(* The steps that change a location, a byte count, a blob or an object.    *)

BeginsCopy(w) ==
    \E k \in Blobs : /\ TakeCopy(w, k) /\ loc[Source(w)][k] = "ready"
                     /\ loc[Target(w)][k] \notin {"ready", "deleting"}
ClaimsPrune(w) ==
    \E k \in Blobs : /\ Prunable(Target(w), k)
                     /\ SetLoc(Target(w), k, "deleting", Fresh(w, "prune"))
                     /\ UNCHANGED <<readyBytes, legacy, owner, physical>>
ClaimsEviction(w) ==
    LET k == op[w].k IN
    /\ Evictable(k) /\ ClaimLocal(w, k)
    /\ blob' = [blob EXCEPT ![k] = "deleting"] /\ evictor' = [evictor EXCEPT ![k] = w]
    /\ UNCHANGED <<runtimeBytes, object, owner, physical>>
CompletesEviction(w) ==
    LET k == op[w].k IN
    /\ Completable(w, k) /\ DropLocal(k)
    /\ blob' = [blob EXCEPT ![k] = "evicted"] /\ evictor' = [evictor EXCEPT ![k] = NoWorker]
    /\ object' = [object EXCEPT ![k] = IF @ = "ready" THEN "evicted" ELSE @]
    /\ runtimeBytes' = runtimeBytes - Size[k]
    /\ UNCHANGED <<owner, physical>>
TakesBack(w) ==
    LET k == op[w].k IN
    /\ EvictionHeld(w, k) /\ LocationHeld(w, k) /\ GiveBackLocal(k)
    /\ blob' = [blob EXCEPT ![k] = "ready"] /\ evictor' = [evictor EXCEPT ![k] = NoWorker]
    /\ UNCHANGED <<readyBytes, runtimeBytes, object, owner, physical>>

\* The blob is known to be one for the steps that name it.
Works(w) == 
    \/ BeginsCopy(w) \/ ClaimsPrune(w) \/ ReconcileLedger(w)
    \/ /\ op[w].k \in Blobs
       /\ \/ FinalizeCopy(w) \/ FailCopy(w) \/ FinalizePrune(w)
          \/ ClaimsEviction(w) \/ CompletesEviction(w) \/ TakesBack(w)
Owns(k) == Publish(k) \/ Settle(k) \/ AdminRetry(k)

\* Every other step leaves both ledgers as they are, but for the liveness of a lease.
Calm ==
    /\ UNCHANGED <<loc, legacy, pinned>>
    /\ \A b \in Backends, k \in Blobs : lease'[b][k].by = lease[b][k].by
    /\ UNCHANGED readyBytes \/ readyBytes' = [b \in Backends |-> PhysicalBytes(b)]

LEMMA OperationEffects ==
  ASSUME Consistent, NEW w \in Workers, OperationStep(w)
  PROVE  Calm \/ Works(w)
<1>1. CASE UNCHANGED <<ledger, legacy, owner>>
  BY <1>1 DEF ledger, owner, Calm
<1>2. op[w].todo \subseteq Blobs /\ (NamesBlob(op[w]) => op[w].k \in Blobs)
  BY DEF Consistent, OperationsOK, Operations
<1>3. CASE \/ ListCandidates(w) \/ MigrateRefused(w) \/ MigrateEnds(w) \/ VerifySource(w) \/ FinalizeFails(w)
           \/ PruneStale(w) \/ StartEvict(w) \/ ListReadyBlobs(w) \/ CheckBlob(w)
  BY <1>1, <1>3 DEF ListCandidates, MigrateRefused, MigrateEnds, VerifySource, FinalizeFails, PruneStale, StartEvict,
     ListReadyBlobs, CheckBlob, Thinking
<1>4. CASE Copy(w) \/ CopyFails(w) \/ PruneDelete(w) \/ PruneDeleteFails(w) \/ Unlink(w) \/ UnlinkFails(w)
  BY <1>1, <1>4 DEF Copy, CopyFails, PruneDelete, PruneDeleteFails, Unlink, UnlinkFails, Working
<1>5. CASE MigrateNext(w)
  BY <1>1, <1>2, <1>5 DEF MigrateNext, Thinking, CopyBlocked, BeginsCopy, Works
<1>6. CASE ClaimRestore(w)
  BY <1>1, <1>2, <1>6 DEF ClaimRestore, At, NamesBlob, Thinking, CopyBlocked, BeginsCopy, Works
<1>7. CASE FinalizeCopy(w) \/ FailCopy(w) \/ FinalizePrune(w)
  BY <1>2, <1>7 DEF FinalizeCopy, FailCopy, FinalizePrune, FinalizeLogicalEviction, LeaveRuntime, At,
                    NamesBlob, Works
<1>8. CASE ClaimPrune(w)
  BY <1>1, <1>8 DEF ClaimPrune, NextPruned, Candidates, Thinking, Working, ClaimsPrune, Works
<1>9. CASE ClaimEviction(w)
  BY <1>1, <1>2, <1>9 DEF ClaimEviction, At, NamesBlob, Thinking, Working, ClaimsEviction, Works
<1>10. CASE CompleteEviction(w)
  BY <1>1, <1>2, <1>10 DEF CompleteEviction, At, NamesBlob, Thinking, Working, CompletesEviction, Works
<1>11. CASE UndoEviction(w)
  BY <1>1, <1>2, <1>11 DEF UndoEviction, At, NamesBlob, Working, TakesBack, Works, ledger, legacy
<1>12. CASE ReconcileLedger(w)
  BY <1>12 DEF Works
<1> QED BY <1>3, <1>4, <1>5, <1>6, <1>7, <1>8, <1>9, <1>10, <1>11, <1>12 DEF OperationStep

LEMMA StepEffects ==
  ASSUME Consistent, [Next]_vars
  PROVE  Calm \/ (\E w \in Workers : Works(w)) \/ \E k \in Blobs : Owns(k)
<1>1. CASE UNCHANGED <<ledger, legacy, owner>>
  BY <1>1 DEF ledger, owner, Calm
<1>2. CASE \E w \in Workers : Run(w)
  BY <1>2, OperationEffects DEF Run
<1>3. CASE \E k \in Blobs : Aside(OwnerStep(k))
  BY <1>3 DEF Aside, OwnerStep, Owns, Protect, Unprotect, ledger, Calm
<1>4. ASSUME NEW k \in Blobs, NEW b \in Backends, Mishap(b, k) PROVE Calm
  <2>1. CASE ExpireLocation(b, k)
    <3>1. lease' = [lease EXCEPT ![b][k].live = FALSE]
      BY <2>1 DEF ExpireLocation
    <3>2. \A c \in Backends, x \in Blobs : lease'[c][x].by = lease[c][x].by
      BY <3>1 DEF Consistent, LocationsOK, Leases
    <3> QED BY <2>1, <3>2 DEF ExpireLocation, owner, Calm
  <2>2. CASE Lose(b, k)
    <3>1. UNCHANGED ledger /\ UNCHANGED legacy /\ UNCHANGED owner
      BY <2>2 DEF Lose
    <3> QED BY <3>1 DEF ledger, owner, Calm
  <2> QED BY <1>4, <2>1, <2>2 DEF Mishap
<1>5. CASE Aside(Bootstrap)
  BY <1>5 DEF Aside, Bootstrap, Calm
<1>6. CASE \E w \in Workers : ClaimCommand(w) \/ Record(w) \/ Crash(w) \/ Superseded(w)
  BY <1>1, <1>6 DEF ClaimCommand, Record, Crash, Superseded, Thinking
<1>7. CASE UNCHANGED storageVars
  BY <1>1, <1>7 DEF storageVars
<1>8. CASE \E c \in Commands : ExpireCommand(c)
  BY <1>1, <1>8 DEF ExpireCommand
<1>9. CASE \/ \E c \in Commands, k \in Blobs : RecacheOnAccess(c, k)
           \/ \E c \in Commands, r \in Requests : Enqueue(c, r)
           \/ \E w \in Workers : GiveUpCommands(w) \/ Renew(w)
  BY <1>7, <1>9 DEF RecacheOnAccess, Enqueue, GiveUpCommands, Renew
<1> QED BY <1>2, <1>3, <1>4, <1>5, <1>6, <1>7, <1>8, <1>9 DEF Next, Aside, vars

-----------------------------------------------------------------------------
(* The bytes that are counted.                                             *)

CountsOK == readyBytes \in [Backends -> Int] /\ BackendLedgerAddsUp

SizeAs(state, k) == IF state \in {"ready", "deleting"} THEN Size[k] ELSE 0
Held(b) == {k \in Blobs : Physical(b, k)}

LEMMA HeldIsFinite ==
  ASSUME NEW b PROVE IsFiniteSet(Held(b)) /\ \A k \in Held(b) : Size[k] \in Nat
BY SizesArePositive, FS_Subset DEF Held

LEMMA PhysicalIsNat == ASSUME NEW b PROVE PhysicalBytes(b) \in Nat
<1>1. PhysicalBytes(b) = SumFunctionOnSet(Size, Held(b))
  BY DEF PhysicalBytes, Held
<1> QED BY <1>1, HeldIsFinite, SumIsNat

\* One location changes what its backend holds by its own size.
LEMMA OneChanges ==
  ASSUME NEW b, NEW k \in Blobs, \A x \in Blobs \ {k} : loc'[b][x] = loc[b][x]
  PROVE  PhysicalBytes(b)' = PhysicalBytes(b) - SizeAs(loc[b][k], k) + SizeAs(loc'[b][k], k)
<1> DEFINE T == Held(b)
           U == {x \in Blobs : loc'[b][x] \in {"ready", "deleting"}}
<1>1. PhysicalBytes(b) = SumFunctionOnSet(Size, T) /\ PhysicalBytes(b)' = SumFunctionOnSet(Size, U)
  BY DEF PhysicalBytes, Held, Physical
<1>2. IsFiniteSet(T) /\ \A x \in Blobs : Size[x] \in Int
  BY HeldIsFinite, SizesArePositive
<1>3. T \subseteq Blobs /\ (k \in T <=> loc[b][k] \in {"ready", "deleting"})
  BY DEF Held, Physical
<1>4. U \ {k} = T \ {k} /\ U \subseteq Blobs /\ (k \in U <=> loc'[b][k] \in {"ready", "deleting"})
  BY DEF Held, Physical
<1>5. SumFunctionOnSet(Size, T) \in Int
  BY <1>2, <1>3, SumIsInt
<1> HIDE DEF T, U
<1>6. CASE k \in T /\ k \in U
  <2>1. T = U
    BY <1>4, <1>6
  <2> QED BY <1>1, <1>2, <1>3, <1>4, <1>5, <1>6, <2>1 DEF SizeAs
<1>7. CASE k \in T /\ k \notin U
  <2>1. U = T \ {k}
    BY <1>4, <1>7
  <2>2. SumFunctionOnSet(Size, U) = SumFunctionOnSet(Size, T) - Size[k]
    BY <1>2, <1>3, <1>7, <2>1, SumRemove
  <2> QED BY <1>1, <1>2, <1>3, <1>4, <1>5, <1>7, <2>2 DEF SizeAs
<1>8. CASE k \notin T /\ k \in U
  <2>1. U = T \union {k}
    BY <1>4, <1>8
  <2>2. SumFunctionOnSet(Size, U) = SumFunctionOnSet(Size, T) + Size[k]
    BY <1>2, <1>3, <1>8, <2>1, SumAdd
  <2> QED BY <1>1, <1>2, <1>3, <1>4, <1>5, <1>8, <2>2 DEF SizeAs
<1>9. CASE k \notin T /\ k \notin U
  <2>1. T = U
    BY <1>4, <1>9
  <2> QED BY <1>1, <1>3, <1>4, <1>5, <1>9, <2>1 DEF SizeAs
<1> QED BY <1>6, <1>7, <1>8, <1>9

\* A location is set and its backend's count moves by the difference.
LEMMA SetCounts ==
  ASSUME LocationsOK, CountsOK, NEW b \in Backends, NEW k \in Blobs, NEW state, NEW l,
         SetLoc(b, k, state, l), AddBytes(b, SizeAs(state, k) - SizeAs(loc[b][k], k))
  PROVE  CountsOK'
<1>1. Size[k] \in Nat
  BY SizesArePositive
<1>2. /\ loc'[b][k] = state
      /\ \A c \in Backends, x \in Blobs : (c # b \/ x # k) => loc'[c][x] = loc[c][x]
  BY DEF SetLoc, LocationsOK
<1>3. SizeAs(state, k) \in Int /\ SizeAs(loc[b][k], k) \in Int
  BY <1>1 DEF SizeAs
<1>4. \A c \in Backends : PhysicalBytes(c) \in Nat
  BY PhysicalIsNat
<1>5. readyBytes' = [readyBytes EXCEPT ![b] = @ + (SizeAs(state, k) - SizeAs(loc[b][k], k))]
  BY DEF AddBytes
<1>6. readyBytes' \in [Backends -> Int]
  BY <1>3, <1>5 DEF CountsOK
<1>7. ASSUME NEW c \in Backends PROVE readyBytes'[c] = PhysicalBytes(c)'
  <2>1. PhysicalBytes(c)' = PhysicalBytes(c) - SizeAs(loc[c][k], k) + SizeAs(loc'[c][k], k)
    BY <1>2, OneChanges
  <2>2. CASE c = b
    BY <1>2, <1>3, <1>4, <1>5, <2>1, <2>2 DEF CountsOK, BackendLedgerAddsUp
  <2>3. CASE c # b
    <3>1. SizeAs(loc[c][k], k) \in Int /\ loc'[c][k] = loc[c][k]
      BY <1>1, <1>2, <2>3 DEF SizeAs
    <3> QED BY <1>4, <1>5, <2>1, <2>3, <3>1 DEF CountsOK, BackendLedgerAddsUp
  <2> QED BY <2>2, <2>3
<1> QED BY <1>6, <1>7 DEF CountsOK, BackendLedgerAddsUp

\* The same where the count needs no change.
LEMMA SetCountsSame ==
  ASSUME LocationsOK, CountsOK, NEW b \in Backends, NEW k \in Blobs, NEW state, NEW l,
         SetLoc(b, k, state, l), UNCHANGED readyBytes, SizeAs(state, k) = SizeAs(loc[b][k], k)
  PROVE  CountsOK'
<1>1. SizeAs(state, k) - SizeAs(loc[b][k], k) = 0 /\ readyBytes[b] \in Int
  BY SizesArePositive DEF SizeAs, CountsOK
<1>2. AddBytes(b, SizeAs(state, k) - SizeAs(loc[b][k], k))
  <2>1. readyBytes' = [readyBytes EXCEPT ![b] = @ + 0]
    BY <1>1 DEF CountsOK
  <2> QED BY <1>1, <2>1 DEF AddBytes
<1> QED BY <1>2, SetCounts

LEMMA FailCopyCounts ==
  ASSUME Consistent, CountsOK, NEW w \in Workers, op[w].k \in Blobs, FailCopy(w)
  PROVE  CountsOK'
<1> DEFINE k == op[w].k
           from == Source(w)
           b == Target(w)
<1>1. b \in Backends /\ from \in Backends /\ b # from /\ Size[k] \in Nat
  BY SizesArePositive DEF Consistent, OperationsOK, Operations, Source, Target, Other, Backends
<1>2. PICK given \in {"corrupt", "missing"} :
        /\ loc' = [loc EXCEPT ![b][k] = IF HoldsCopy(w, k) THEN given ELSE @,
                              ![from][k] = IF SpoiledSource(w, k) THEN "corrupt" ELSE @]
        /\ readyBytes' = [readyBytes EXCEPT ![from] = @ + (IF SpoiledSource(w, k) THEN -Size[k] ELSE 0)]
  BY DEF FailCopy, AddBytes
<1>3. \A c \in Backends : /\ PhysicalBytes(c) \in Nat
                          /\ \A x \in Blobs \ {k} : loc'[c][x] = loc[c][x]
  BY <1>1, <1>2, PhysicalIsNat DEF Consistent, LocationsOK
<1>4. loc'[b][k] = IF HoldsCopy(w, k) THEN given ELSE loc[b][k]
  BY <1>1, <1>2 DEF Consistent, LocationsOK
<1>5. loc'[from][k] = IF SpoiledSource(w, k) THEN "corrupt" ELSE loc[from][k]
  BY <1>1, <1>2 DEF Consistent, LocationsOK
<1>6. readyBytes' \in [Backends -> Int]
  BY <1>1, <1>2 DEF CountsOK
<1>7. ASSUME NEW c \in Backends PROVE readyBytes'[c] = PhysicalBytes(c)'
  <2>1. PhysicalBytes(c)' = PhysicalBytes(c) - SizeAs(loc[c][k], k) + SizeAs(loc'[c][k], k)
    BY <1>3, OneChanges
  <2>2. CASE c = b
    <3>1. SizeAs(loc'[b][k], k) = SizeAs(loc[b][k], k) /\ SizeAs(loc[b][k], k) \in Int
      BY <1>1, <1>4 DEF SizeAs, HoldsCopy
    <3>2. readyBytes'[b] = readyBytes[b]
      BY <1>1, <1>2 DEF CountsOK
    <3>3. readyBytes[b] = PhysicalBytes(b) /\ PhysicalBytes(b) \in Nat
      BY <1>1, <1>3 DEF CountsOK, BackendLedgerAddsUp
    <3> HIDE DEF k, b
    <3> QED BY <2>1, <2>2, <3>1, <3>2, <3>3
  <2>3. CASE c = from
    <3>1. SizeAs(loc'[from][k], k) - SizeAs(loc[from][k], k) = IF SpoiledSource(w, k) THEN -Size[k] ELSE 0
      BY <1>1, <1>5 DEF SizeAs, SpoiledSource
    <3>2. SizeAs(loc'[from][k], k) \in Int /\ SizeAs(loc[from][k], k) \in Int
      BY <1>1 DEF SizeAs
    <3>3. readyBytes'[from] = readyBytes[from] + (SizeAs(loc'[from][k], k) - SizeAs(loc[from][k], k))
      BY <1>1, <1>2, <3>1 DEF CountsOK
    <3>4. readyBytes[from] = PhysicalBytes(from) /\ PhysicalBytes(from) \in Nat
      BY <1>1, <1>3 DEF CountsOK, BackendLedgerAddsUp
    <3> HIDE DEF k, from
    <3> QED BY <2>1, <2>3, <3>2, <3>3, <3>4
  <2>4. c = b \/ c = from
    BY <1>1 DEF Backends
  <2> QED BY <2>2, <2>3, <2>4
<1> QED BY <1>6, <1>7 DEF CountsOK, BackendLedgerAddsUp

LEMMA ReconcileCounts ==
  ASSUME Consistent, CountsOK, NEW w \in Workers, ReconcileLedger(w)
  PROVE  CountsOK'
<1> DEFINE now == [k \in Blobs |-> IF Settled(k) THEN blob[k] ELSE loc["local"][k]]
<1>1. /\ loc' = [loc EXCEPT !["local"] = now]
      /\ readyBytes' = [readyBytes EXCEPT !["local"] = LocalSum(now)]
  BY DEF ReconcileLedger, ReconcileLocations
<1> HIDE DEF now
<1>2. loc'["local"] = now /\ loc'["s3"] = loc["s3"]
  BY <1>1 DEF Consistent, LocationsOK, Backends
<1>3. PhysicalBytes("local")' = LocalSum(now)
  BY <1>2 DEF PhysicalBytes, Physical, LocalSum
<1>4. PhysicalBytes("s3")' = PhysicalBytes("s3")
  BY <1>2 DEF PhysicalBytes, Physical
<1>5. PhysicalBytes("local")' \in Nat
  <2> DEFINE U == {x \in Blobs : now[x] \in {"ready", "deleting"}}
  <2>1. IsFiniteSet(U) /\ \A x \in U : Size[x] \in Nat
    BY SizesArePositive, FS_Subset
  <2>2. SumFunctionOnSet(Size, U) \in Nat
    BY <2>1, SumIsNat
  <2> QED BY <1>3, <2>2 DEF LocalSum
<1>6. readyBytes' \in [Backends -> Int]
  <2>1. LocalSum(now) \in Int
    BY <1>3, <1>5
  <2> QED BY <1>1, <2>1 DEF CountsOK
<1> QED BY <1>1, <1>3, <1>4, <1>6 DEF CountsOK, BackendLedgerAddsUp, Backends

LEMMA WorksCounts ==
  ASSUME Consistent, CountsOK, NEW w \in Workers, Works(w)
  PROVE  CountsOK'
<1> DEFINE k == op[w].k
           b == Target(w)
<1>1. LocationsOK /\ b \in Backends /\ "local" \in Backends /\ (k \in Blobs => Size[k] \in Nat)
  BY SizesArePositive DEF Consistent, OperationsOK, Operations, Target, Backends
<1>2. CASE BeginsCopy(w)
  BY <1>1, <1>2, SetCountsSame DEF BeginsCopy, TakeCopy, SizeAs
<1>3. CASE ClaimsPrune(w)
  BY <1>1, <1>3, SetCountsSame DEF ClaimsPrune, Prunable, SizeAs
<1>4. CASE k \in Blobs /\ FinalizeCopy(w)
  <2>1. SizeAs("ready", k) - SizeAs(loc[b][k], k) = Size[k]
    BY <1>1, <1>4 DEF FinalizeCopy, Settleable, HoldsCopy, SizeAs
  <2> QED BY <1>1, <1>4, <2>1, SetCounts DEF FinalizeCopy
<1>5. CASE k \in Blobs /\ FailCopy(w)
  BY <1>5, FailCopyCounts
<1>6. CASE k \in Blobs /\ FinalizePrune(w)
  <2>1. SizeAs("evicted", k) - SizeAs(loc[b][k], k) = -Size[k]
    BY <1>1, <1>6 DEF FinalizePrune, FinalizeLogicalEviction, LeaveRuntime, PruneHolds, SizeAs
  <2> QED BY <1>1, <1>6, <2>1, SetCounts DEF FinalizePrune, FinalizeLogicalEviction, LeaveRuntime
<1>7. CASE k \in Blobs /\ ClaimsEviction(w)
  <2>1. SizeAs("deleting", k) - SizeAs(loc["local"][k], k) = IF Physical("local", k) THEN 0 ELSE Size[k]
    BY <1>1, <1>7 DEF Physical, SizeAs
  <2> QED BY <1>1, <1>7, <2>1, SetCounts DEF ClaimsEviction, ClaimLocal
<1>8. CASE k \in Blobs /\ CompletesEviction(w)
  <2>1. SizeAs("evicted", k) - SizeAs(loc["local"][k], k) = -Size[k]
    BY <1>1, <1>8 DEF CompletesEviction, Completable, LocationHeld, SizeAs
  <2> QED BY <1>1, <1>8, <2>1, SetCounts DEF CompletesEviction, DropLocal
<1>9. CASE k \in Blobs /\ TakesBack(w)
  BY <1>1, <1>9, SetCountsSame DEF TakesBack, GiveBackLocal, LocationHeld, SizeAs
<1>10. CASE ReconcileLedger(w)
  BY <1>10, ReconcileCounts
<1> QED BY <1>2, <1>3, <1>4, <1>5, <1>6, <1>7, <1>8, <1>9, <1>10 DEF Works

LEMMA NextCounts ==
  ASSUME Consistent, CountsOK, [Next]_vars
  PROVE  CountsOK'
<1>1. CASE Calm
  <2>1. \A b \in Backends : PhysicalBytes(b)' = PhysicalBytes(b)
    BY <1>1 DEF Calm, PhysicalBytes, Physical
  <2>2. \A b \in Backends : PhysicalBytes(b) \in Int
    BY PhysicalIsNat
  <2> QED BY <1>1, <2>1, <2>2 DEF Calm, CountsOK, BackendLedgerAddsUp
<1>2. CASE \E w \in Workers : Works(w)
  BY <1>2, WorksCounts
<1>3. ASSUME NEW k \in Blobs, Publish(k) PROVE CountsOK'
  <2>1. SizeAs("ready", k) - SizeAs(loc["local"][k], k) = IF Physical("local", k) THEN 0 ELSE Size[k]
    BY SizesArePositive DEF Physical, SizeAs
  <2> QED BY <1>3, <2>1, SetCounts DEF Publish, Consistent, Backends
<1>4. CASE \E k \in Blobs : Settle(k) \/ AdminRetry(k)
  BY <1>4 DEF Settle, AdminRetry, ledger, CountsOK, BackendLedgerAddsUp, PhysicalBytes, Physical
<1> QED BY <1>1, <1>2, <1>3, <1>4, StepEffects DEF Owns

-----------------------------------------------------------------------------
(* The copies that are left.                                               *)

ObjectsOK == object \in [Blobs -> ObjectStates] /\ pinned \subseteq Blobs
CopiesLeft == \A k \in Blobs : object[k] = "ready" \/ k \in pinned => HasCopy(k)
\* A published blob waits for its plan untouched: no claim is made on it, and where a prune of
\* the bucket had begun before, the file it was published to is there.
PinnedFresh ==
    \A k \in pinned :
        /\ object[k] = "pending" /\ blob[k] = "ready" /\ ~PruneOwned("local", k)
        /\ loc["s3"][k] = "deleting" => loc["local"][k] \in {"ready", "corrupt"}
ReadyBacked == \A k \in Blobs : object[k] = "ready" => blob[k] \in {"ready", "deleting"}
CopiesOK == ObjectsOK /\ CopiesLeft /\ PinnedFresh /\ ReadyBacked

\* All of it for one blob, from the states of its locations, who holds the local one, the states
\* of the blob and the object and whether its plan is settling.
Fits(local, s3, by, held, state, settling) ==
    /\ state = "ready" \/ settling => {local, s3} \intersect {"ready", "deleting", "corrupt"} # {}
    /\ settling =>
          /\ state = "pending" /\ held = "ready" /\ ~(local = "deleting" /\ by = "prune")
          /\ s3 = "deleting" => local \in {"ready", "corrupt"}
    /\ state = "ready" => held \in {"ready", "deleting"}
CopyOK(k) ==
    Fits(loc["local"][k], loc["s3"][k], lease["local"][k].by, blob[k], object[k], k \in pinned)

LEMMA CopiesOfEach == ObjectsOK => (CopiesOK <=> \A k \in Blobs : CopyOK(k))
<1>1. \A k : HasCopy(k) <=> {loc["local"][k], loc["s3"][k]} \intersect {"ready", "deleting", "corrupt"} # {}
  BY DEF HasCopy, Physical, Backends
<1> QED BY <1>1 DEF ObjectsOK, CopiesOK, CopiesLeft, PinnedFresh, ReadyBacked, PruneOwned, CopyOK, Fits

LEMMA CopiesOfEachNext == ObjectsOK' => (CopiesOK' <=> \A k \in Blobs : CopyOK(k)')
<1>1. \A k : HasCopy(k)' <=> {loc'["local"][k], loc'["s3"][k]} \intersect {"ready", "deleting", "corrupt"} # {}
  BY DEF HasCopy, Physical, Backends
<1> QED BY <1>1 DEF ObjectsOK, CopiesOK, CopiesLeft, PinnedFresh, ReadyBacked, PruneOwned, CopyOK, Fits

\* A step that leaves a blob's locations, its claims' makers and its object alone.
LEMMA Apart ==
  ASSUME NEW k \in Blobs, CopyOK(k), \A b \in Backends : loc'[b][k] = loc[b][k],
         lease'["local"][k].by = lease["local"][k].by, blob'[k] = blob[k], object'[k] = object[k],
         k \in pinned' <=> k \in pinned
  PROVE  CopyOK(k)'
<1>1. (k \in pinned') = (k \in pinned)
  OBVIOUS
<1> QED BY <1>1 DEF CopyOK, Backends

LEMMA WorksOnOne ==
  ASSUME Consistent, ObjectsOK, NEW w \in Workers, op[w].k \in Blobs,
         FinalizeCopy(w) \/ FailCopy(w) \/ FinalizePrune(w) \/ ClaimsEviction(w) \/ CompletesEviction(w) \/ TakesBack(w)
  PROVE  /\ ObjectsOK' /\ pinned' = pinned
         /\ \A x \in Blobs \ {op[w].k} :
               /\ \A b \in Backends : loc'[b][x] = loc[b][x]
               /\ lease'["local"][x] = lease["local"][x] /\ blob'[x] = blob[x] /\ object'[x] = object[x]
<1> DEFINE k == op[w].k
<1>1. Target(w) \in Backends /\ Source(w) \in Backends /\ Source(w) # Target(w) /\ "local" \in Backends
  BY DEF Consistent, OperationsOK, Operations, Source, Target, Other, Backends
<1>2. pinned' = pinned
  BY DEF FinalizeCopy, FailCopy, FinalizePrune, FinalizeLogicalEviction, LeaveRuntime, ClaimsEviction,
         CompletesEviction, TakesBack, Working, owner
<1>3. \/ UNCHANGED <<blob, object>>
      \/ /\ \E v \in BlobStates : blob' = [blob EXCEPT ![k] = v]
         /\ UNCHANGED object \/ \E v \in ObjectStates : object' = [object EXCEPT ![k] = v]
  <2>1. object[k] \in ObjectStates /\ {"ready", "evicted", "deleting"} \subseteq BlobStates
        /\ {"ready", "evicted"} \subseteq ObjectStates
    BY DEF ObjectsOK, ObjectStates, BlobStates
  <2>2. CASE FinalizeCopy(w)
    BY <2>1, <2>2 DEF FinalizeCopy, RestoreLegacy, legacy
  <2>3. CASE FinalizePrune(w)
    BY <2>1, <2>3 DEF FinalizePrune, FinalizeLogicalEviction, LeaveRuntime
  <2>4. CASE FailCopy(w) \/ ClaimsEviction(w) \/ CompletesEviction(w) \/ TakesBack(w)
    BY <2>1, <2>4 DEF FailCopy, ClaimsEviction, CompletesEviction, TakesBack, legacy
  <2> QED BY <2>2, <2>3, <2>4
<1>4. ObjectsOK' /\ \A x \in Blobs \ {k} : blob'[x] = blob[x] /\ object'[x] = object[x]
  BY <1>2, <1>3 DEF ObjectsOK, Consistent, LocationsOK
<1>5. \A x \in Blobs \ {k} : (\A b \in Backends : loc'[b][x] = loc[b][x]) /\ lease'["local"][x] = lease["local"][x]
  <2>1. CASE FailCopy(w)
    BY <1>1, <2>1 DEF FailCopy, Consistent, LocationsOK
  <2>2. ASSUME NEW b \in Backends, NEW state, NEW l, SetLoc(b, k, state, l)
        PROVE  \A x \in Blobs \ {k} : (\A c \in Backends : loc'[c][x] = loc[c][x]) /\ lease'["local"][x] = lease["local"][x]
    BY <1>1, <2>2 DEF SetLoc, Consistent, LocationsOK
  <2> HIDE DEF k
  <2>3. \/ \E b \in Backends, state \in LocationStates, l \in {NoLease, Fresh(w, "evict")} : SetLoc(b, k, state, l)
        \/ FailCopy(w)
    <3>1. {"ready", "evicted", "deleting"} \subseteq LocationStates
      BY DEF LocationStates
    <3> QED BY <1>1, <3>1 DEF FinalizeCopy, FinalizePrune, FinalizeLogicalEviction, LeaveRuntime,
                              ClaimsEviction, ClaimLocal, CompletesEviction, DropLocal,
               TakesBack, GiveBackLocal, k
  <2> QED BY <2>1, <2>2, <2>3
<1> QED BY <1>2, <1>4, <1>5

LEMMA WorksKeepsCopies ==
  ASSUME Consistent, CopiesOK, NEW w \in Workers, Works(w)
  PROVE  CopiesOK'
<1> DEFINE b == Target(w)
<1>1. b \in Backends /\ Source(w) = Other(b) /\ Backends = {"local", "s3"} /\ Other("local") = "s3" /\ Other("s3") = "local"
  BY DEF Consistent, OperationsOK, Operations, Source, Target, Other, Backends
<1>2. ObjectsOK /\ \A x \in Blobs : CopyOK(x)
  BY CopiesOfEach DEF CopiesOK
<1>3. CASE BeginsCopy(w)
  <2>1. PICK x \in Blobs : /\ loc' = [loc EXCEPT ![b][x] = "copying"] /\ lease' = [lease EXCEPT ![b][x] = Fresh(w, "copy")]
                           /\ loc[Source(w)][x] = "ready" /\ loc[b][x] \notin {"ready", "deleting"}
                           /\ UNCHANGED <<blob, object, pinned>>
    BY <1>3 DEF BeginsCopy, TakeCopy, SetLoc, legacy, owner, Working
  <2>2. CopyOK(x)'
    BY <1>1, <1>2, <2>1 DEF CopyOK, Fits, Consistent, LocationsOK
  <2>3. \A y \in Blobs \ {x} : CopyOK(y)'
    BY <1>1, <1>2, <2>1, Apart DEF Consistent, LocationsOK
  <2> QED BY <1>2, <2>1, <2>2, <2>3, CopiesOfEachNext DEF ObjectsOK
<1>4. CASE ClaimsPrune(w)
  <2>1. PICK x \in Blobs : /\ loc' = [loc EXCEPT ![b][x] = "deleting"] /\ lease' = [lease EXCEPT ![b][x] = Fresh(w, "prune")]
                           /\ loc[b][x] \in {"ready", "deleting"} /\ x \notin pinned
                           /\ UNCHANGED <<blob, object, pinned>>
    BY <1>4 DEF ClaimsPrune, Prunable, SetLoc, legacy, owner
  <2>2. CopyOK(x)'
    BY <1>1, <1>2, <2>1 DEF CopyOK, Fits, Consistent, LocationsOK
  <2>3. \A y \in Blobs \ {x} : CopyOK(y)'
    BY <1>1, <1>2, <2>1, Apart DEF Consistent, LocationsOK
  <2> QED BY <1>2, <2>1, <2>2, <2>3, CopiesOfEachNext DEF ObjectsOK
<1>5. CASE ReconcileLedger(w)
  <2>1. UNCHANGED <<blob, object, pinned>>
    BY <1>5 DEF ReconcileLedger, Working, owner
  <2>2. ASSUME NEW x \in Blobs
        PROVE  /\ loc'["s3"][x] = loc["s3"][x]
               /\ ~Settled(x) => loc'["local"][x] = loc["local"][x] /\ lease'["local"][x] = lease["local"][x]
               /\ Settled(x) => loc'["local"][x] = blob[x]
    BY <1>1, <1>5 DEF ReconcileLedger, ReconcileLocations, Consistent, LocationsOK
  <2>3. ASSUME NEW x \in Blobs PROVE CopyOK(x)'
    <3>1. CASE Settled(x)
      BY <1>1, <1>2, <2>1, <2>2, <3>1 DEF CopyOK, Fits
    <3>2. CASE ~Settled(x)
      BY <1>1, <1>2, <2>1, <2>2, <3>2, Apart
    <3> QED BY <3>1, <3>2
  <2> QED BY <1>2, <2>1, <2>3, CopiesOfEachNext DEF ObjectsOK
<1>6. ASSUME NEW k \in Blobs, k = op[w].k, CopyOK(k)',
             FinalizeCopy(w) \/ FailCopy(w) \/ FinalizePrune(w) \/ ClaimsEviction(w) \/ CompletesEviction(w) \/ TakesBack(w)
      PROVE  CopiesOK'
  <2>1. \A x \in Blobs \ {k} : CopyOK(x)'
    BY <1>2, <1>6, WorksOnOne, Apart
  <2>2. ObjectsOK'
    BY <1>2, <1>6, WorksOnOne
  <2> QED BY <1>6, <2>1, <2>2, CopiesOfEachNext
<1> SUFFICES ASSUME NEW k \in Blobs, k = op[w].k,
             FinalizeCopy(w) \/ FailCopy(w) \/ FinalizePrune(w) \/ ClaimsEviction(w) \/ CompletesEviction(w) \/ TakesBack(w)
      PROVE  CopyOK(k)'
  BY <1>3, <1>4, <1>5, <1>6 DEF Works
<1>7. pinned' = pinned /\ CopyOK(k) /\ object[k] \in ObjectStates
  BY <1>2, WorksOnOne DEF ObjectsOK
<1>8. CASE FinalizeCopy(w)
  <2>1. /\ loc'[b][k] = "ready" /\ loc'[Other(b)][k] = loc[Other(b)][k] /\ lease'[b][k] = NoLease
        /\ b = "s3" => lease'["local"][k] = lease["local"][k]
    BY <1>1, <1>8 DEF FinalizeCopy, SetLoc, Consistent, LocationsOK, Other
  <2>2. \/ blob'[k] = blob[k] /\ object'[k] = object[k]
        \/ b = "local" /\ blob[k] # "ready" /\ blob'[k] = "ready"
    BY <1>8 DEF FinalizeCopy, RestoreLegacy, legacy, Consistent, LocationsOK
  <2> QED BY <1>1, <1>7, <2>1, <2>2 DEF CopyOK, Fits
<1>9. CASE FailCopy(w)
  <2> DEFINE held == HoldsCopy(w, k)
  <2>1. PICK given \in {"corrupt", "missing"} :
          /\ loc'[b][k] = (IF held THEN given ELSE loc[b][k])
          /\ loc'[Other(b)][k] = (IF SpoiledSource(w, k) THEN "corrupt" ELSE loc[Other(b)][k])
    BY <1>1, <1>9 DEF FailCopy, Consistent, LocationsOK
  <2>2. loc'["local"][k] = "deleting" => lease'["local"][k] = lease["local"][k]
    <3>1. loc'["local"][k] = "deleting" =>
            IF b = "local" THEN ~held ELSE ~SpoiledSource(w, k)
      BY <1>1, <2>1
    <3> QED BY <1>1, <1>9, <3>1 DEF FailCopy, Consistent, LocationsOK
  <2>3. blob'[k] = blob[k] /\ object'[k] = object[k]
    BY <1>9 DEF FailCopy, legacy
  <2>4. (held => loc[b][k] = "copying") /\ (SpoiledSource(w, k) => loc[Other(b)][k] = "ready")
    BY <1>1 DEF HoldsCopy, SpoiledSource
  <2> HIDE DEF held, b
  <2>5. CASE b = "local"
    BY <1>1, <1>7, <2>1, <2>2, <2>3, <2>4, <2>5 DEF CopyOK, Fits
  <2>6. CASE b = "s3"
    BY <1>1, <1>7, <2>1, <2>2, <2>3, <2>4, <2>6 DEF CopyOK, Fits
  <2> QED BY <1>1, <2>5, <2>6
<1>10. CASE FinalizePrune(w)
  <2>1. /\ loc'[b][k] = "evicted" /\ loc'[Other(b)][k] = loc[Other(b)][k]
        /\ lease'[Other(b)][k] = lease[Other(b)][k]
        /\ loc[b][k] = "deleting" /\ lease[b][k].by = "prune"
    BY <1>1, <1>10 DEF FinalizePrune, FinalizeLogicalEviction, LeaveRuntime, PruneHolds, Own, SetLoc,
                       Consistent, LocationsOK, Other
  <2>2. CASE LastCopy(b, k)
    <3>1. object'[k] # "ready" /\ k \notin pinned
      BY <1>7, <1>10, <2>2 DEF FinalizePrune, FinalizeLogicalEviction, LeaveRuntime, LastCopy, Consistent,
                               LocationsOK, CopiesOK, ObjectsOK
    <3> QED BY <1>7, <3>1 DEF CopyOK, Fits
  <2>3. CASE ~LastCopy(b, k)
    <3>1. blob'[k] = blob[k] /\ object'[k] = object[k]
      BY <1>10, <2>3 DEF FinalizePrune, FinalizeLogicalEviction, LeaveRuntime
    <3>2. CASE loc[Other(b)][k] = "ready"
      BY <1>1, <1>7, <2>1, <3>1, <3>2 DEF CopyOK, Fits
    <3>3. CASE k \in pinned
      <4>1. b = "s3" /\ loc["local"][k] \in {"ready", "corrupt"}
        BY <1>1, <1>7, <2>1, <3>3 DEF CopyOK, Fits
      <4> QED BY <1>1, <1>7, <2>1, <3>1, <3>3, <4>1 DEF CopyOK, Fits
    <3> QED BY <2>3, <3>2, <3>3 DEF LastCopy, HealthyElsewhere
  <2> QED BY <2>2, <2>3
<1>11. CASE ClaimsEviction(w)
  <2>1. loc'["local"][k] = "deleting" /\ blob'[k] = "deleting" /\ object' = object /\ k \notin pinned
    BY <1>11 DEF ClaimsEviction, ClaimLocal, SetLoc, Evictable, Consistent, LocationsOK, Backends
  <2> QED BY <1>1, <1>7, <2>1 DEF CopyOK, Fits
<1>12. CASE CompletesEviction(w)
  <2>1. object'[k] # "ready" /\ blob[k] = "deleting"
    BY <1>7, <1>12 DEF CompletesEviction, Completable, EvictionHeld, CopiesOK, ObjectsOK
  <2> QED BY <1>7, <2>1 DEF CopyOK, Fits
<1>13. CASE TakesBack(w)
  <2>1. loc'["local"][k] = "ready" /\ blob'[k] = "ready" /\ object' = object /\ blob[k] = "deleting"
    BY <1>13 DEF TakesBack, GiveBackLocal, EvictionHeld, SetLoc, Consistent, LocationsOK, Backends
  <2> QED BY <1>1, <1>7, <2>1 DEF CopyOK, Fits
<1> QED BY <1>8, <1>9, <1>10, <1>11, <1>12, <1>13

LEMMA NextKeepsCopies ==
  ASSUME Consistent, CopiesOK, [Next]_vars
  PROVE  CopiesOK'
<1>1. ObjectsOK /\ \A x \in Blobs : CopyOK(x)
  BY CopiesOfEach DEF CopiesOK
<1>2. CASE Calm
  <2>1. \A x \in Blobs : CopyOK(x)'
    BY <1>1, <1>2, Apart DEF Calm, legacy, Backends
  <2> QED BY <1>1, <1>2, <2>1, CopiesOfEachNext DEF Calm, legacy, ObjectsOK
<1>3. CASE \E w \in Workers : Works(w)
  BY <1>3, WorksKeepsCopies
<1>4. ASSUME NEW k \in Blobs, Owns(k) PROVE CopiesOK'
  <2>1. /\ \A x \in Blobs \ {k} : /\ \A b \in Backends : loc'[b][x] = loc[b][x]
                                  /\ lease'["local"][x] = lease["local"][x]
                                  /\ blob'[x] = blob[x] /\ object'[x] = object[x] /\ (x \in pinned' <=> x \in pinned)
        /\ ObjectsOK'
    BY <1>1, <1>4 DEF Owns, Publish, SetLoc, Settle, AdminRetry, ledger, owner, Consistent, LocationsOK, ObjectsOK,
       ObjectStates, Backends
  <2>2. CopyOK(k)'
    <3>1. CASE Publish(k)
      <4>1. loc'["local"][k] = "ready" /\ blob'[k] = "ready" /\ object' = object /\ object[k] = "pending"
        BY <3>1 DEF Publish, Publishable, SetLoc, Consistent, LocationsOK, Backends
      <4> QED BY <4>1 DEF CopyOK, Fits, Backends
    <3>2. CASE Settle(k)
      BY <1>1, <3>2 DEF Settle, ledger, CopyOK, Fits, ObjectsOK
    <3>3. CASE AdminRetry(k)
      BY <1>1, <3>3 DEF AdminRetry, owner, CopyOK, Fits, ObjectsOK
    <3> QED BY <1>4, <3>1, <3>2, <3>3 DEF Owns
  <2>3. \A x \in Blobs \ {k} : CopyOK(x)'
    BY <1>1, <2>1, Apart
  <2> QED BY <2>1, <2>2, <2>3, CopiesOfEachNext
<1> QED BY <1>2, <1>3, <1>4, StepEffects

-----------------------------------------------------------------------------
(* The other variables.                                                    *)

RestOK ==
    /\ runtimeBytes \in Nat /\ s3On \in BOOLEAN
    /\ faults \in 0 .. MaxFaults /\ tainted \subseteq Backends \X Blobs
    /\ holder \in [Commands -> Workers \union {NoWorker}] /\ leased \subseteq Commands

\* What a step may do to the keys, the bucket's switch and the count of faults.
KeyTouched == tainted' = tainted \/ \E b \in Backends, k \in Blobs : tainted' \in {tainted \ {<<b, k>>}, tainted \union {<<b, k>>}}
Aftermath ==
    /\ KeyTouched /\ s3On' \in {s3On, ~s3On}
    /\ faults' = faults \/ \E f \in Faults : Fault(f)

LEMMA RemoveTouches ==
  ASSUME NEW w, NEW b \in Backends, NEW k \in Blobs, NEW by, Remove(w, b, k, by) PROVE KeyTouched
BY DEF Remove, KeyTouched
LEMMA PutTouches == ASSUME NEW b \in Backends, NEW k \in Blobs, Put(b, k) PROVE KeyTouched
BY DEF Put, KeyTouched

LEMMA OperationAftermath ==
  ASSUME Consistent, NEW w \in Workers, OperationStep(w)
  PROVE  Aftermath
<1> DEFINE k == op[w].k
<1>1. Target(w) \in Backends /\ "local" \in Backends /\ (NamesBlob(op[w]) => k \in Blobs)
  BY DEF Consistent, OperationsOK, Operations, Target, Backends
<1>2. CASE UNCHANGED <<owner, faults>> /\ UNCHANGED physical
  BY <1>2 DEF owner, physical, Aftermath, KeyTouched
<1>3. CASE \/ ListCandidates(w) \/ MigrateRefused(w) \/ MigrateEnds(w) \/ VerifySource(w) \/ FinalizeFails(w)
           \/ PruneStale(w) \/ StartEvict(w) \/ ListReadyBlobs(w) \/ CheckBlob(w)
  BY <1>2, <1>3 DEF ListCandidates, MigrateRefused, MigrateEnds, VerifySource, FinalizeFails, PruneStale, StartEvict,
     ListReadyBlobs, CheckBlob, Thinking
<1>4. CASE MigrateNext(w) \/ ClaimRestore(w) \/ ClaimPrune(w) \/ FinalizeCopy(w) \/ FailCopy(w) \/ FinalizePrune(w)
  BY <1>2, <1>4 DEF MigrateNext, ClaimRestore, TakeCopy, ClaimPrune, FinalizeCopy, FailCopy, FinalizePrune,
                    FinalizeLogicalEviction, LeaveRuntime, Thinking, Working
<1>5. CASE ClaimEviction(w) \/ CompleteEviction(w) \/ UndoEviction(w) \/ ReconcileLedger(w)
  BY <1>2, <1>5 DEF ClaimEviction, CompleteEviction, UndoEviction, ReconcileLedger, Thinking, Working
<1>6. ASSUME UNCHANGED owner, faults' = faults \/ Fault("io"), KeyTouched \/ UNCHANGED physical PROVE Aftermath
  BY <1>6 DEF Aftermath, owner, physical, KeyTouched, Fault
<1>7. CASE Copy(w)
  BY <1>1, <1>6, <1>7, PutTouches DEF Copy, Working, At, NamesBlob
<1>8. CASE CopyFails(w)
  BY <1>1, <1>6, <1>8, PutTouches DEF CopyFails, At, NamesBlob
<1>9. CASE PruneDelete(w) \/ Unlink(w)
  BY <1>1, <1>6, <1>9, RemoveTouches DEF PruneDelete, Unlink, Working, At, NamesBlob
<1>10. CASE PruneDeleteFails(w) \/ UnlinkFails(w)
  BY <1>1, <1>6, <1>10, RemoveTouches DEF PruneDeleteFails, UnlinkFails, At, NamesBlob
<1> QED BY <1>3, <1>4, <1>5, <1>7, <1>8, <1>9, <1>10 DEF OperationStep

LEMMA StepAftermath ==
  ASSUME Consistent, [Next]_vars
  PROVE  Aftermath
<1>1. CASE UNCHANGED owner /\ UNCHANGED physical /\ (faults' = faults \/ \E f \in Faults : Fault(f))
  BY <1>1 DEF owner, physical, Aftermath, KeyTouched
<1>2. CASE \E w \in Workers : Run(w)
  BY <1>2, OperationAftermath DEF Run
<1>3. ASSUME NEW k \in Blobs, OwnerStep(k) PROVE Aftermath
  <2>1. "local" \in Backends
    BY DEF Backends
  <2>2. CASE Publish(k)
    BY <2>1, <2>2, PutTouches DEF Publish, Aftermath
  <2> QED BY <1>3, <2>2 DEF OwnerStep, Settle, AdminRetry, Protect, Unprotect, owner, physical, Aftermath, KeyTouched
<1>4. ASSUME NEW k \in Blobs, NEW b \in Backends, Mishap(b, k) PROVE Aftermath
  BY <1>4 DEF Mishap, ExpireLocation, Lose, Fault, owner, physical, Aftermath, KeyTouched
<1>5. CASE Aside(Bootstrap)
  BY <1>5 DEF Aside, Bootstrap, Fault, physical, Aftermath, KeyTouched
<1>6. CASE \E w \in Workers : ClaimCommand(w) \/ Record(w) \/ Crash(w) \/ Superseded(w)
  BY <1>1, <1>6 DEF ClaimCommand, Record, Crash, Superseded, Thinking, Fault
<1>7. CASE UNCHANGED storageVars
  BY <1>1, <1>7 DEF storageVars
<1>8. CASE \E c \in Commands : ExpireCommand(c)
  BY <1>1, <1>8 DEF ExpireCommand, Fault
<1>9. CASE \/ \E c \in Commands, k \in Blobs : RecacheOnAccess(c, k)
           \/ \E c \in Commands, r \in Requests : Enqueue(c, r)
           \/ \E w \in Workers : GiveUpCommands(w) \/ Renew(w)
  BY <1>7, <1>9 DEF RecacheOnAccess, Enqueue, GiveUpCommands, Renew
<1> QED BY <1>2, <1>3, <1>4, <1>5, <1>6, <1>7, <1>8, <1>9 DEF Next, Aside, vars

LEMMA RuntimeCounts ==
  ASSUME Consistent, runtimeBytes \in Nat, [Next]_vars
  PROVE  runtimeBytes' \in Nat
<1>1. \A k \in Blobs : Size[k] \in Nat
  BY SizesArePositive
<1>2. CASE Calm
  BY <1>2 DEF Calm, legacy
<1>3. ASSUME NEW w \in Workers, Works(w) PROVE runtimeBytes' \in Nat
  <2>1. CASE ReconcileLedger(w)
    <3> DEFINE T == {k \in Blobs : blob[k] \in {"ready", "deleting"}}
    <3>1. IsFiniteSet(T) /\ \A k \in T : Size[k] \in Nat
      BY SizesArePositive, FS_Subset
    <3>2. SumFunctionOnSet(Size, T) \in Nat
      BY <3>1, SumIsNat
    <3> QED BY <2>1, <3>2 DEF ReconcileLedger, ExpectedBytes
  <2>2. CASE op[w].k \in Blobs /\ FinalizePrune(w)
    BY <1>1, <2>2 DEF FinalizePrune, FinalizeLogicalEviction, LeaveRuntime, PruneHolds
  <2>3. CASE op[w].k \in Blobs /\ CompletesEviction(w)
    BY <1>1, <2>3 DEF CompletesEviction, Completable
  <2>4. CASE op[w].k \in Blobs /\ FinalizeCopy(w)
    BY <1>1, <2>4 DEF FinalizeCopy, RestoreLegacy, legacy
  <2>5. CASE BeginsCopy(w) \/ ClaimsPrune(w) \/ FailCopy(w) \/ ClaimsEviction(w) \/ TakesBack(w)
    BY <2>5 DEF BeginsCopy, TakeCopy, ClaimsPrune, FailCopy, ClaimsEviction, TakesBack, legacy
  <2> QED BY <1>3, <2>1, <2>2, <2>3, <2>4, <2>5 DEF Works
<1>4. CASE \E k \in Blobs : Owns(k)
  BY <1>1, <1>4 DEF Owns, Publish, Settle, AdminRetry
<1> QED BY <1>2, <1>3, <1>4, StepEffects

LEMMA QueueKeepsShape ==
  ASSUME RestOK, [Next]_vars
  PROVE  holder' \in [Commands -> Workers \union {NoWorker}] /\ leased' \subseteq Commands
<1>1. CASE UNCHANGED <<holder, leased>>
  BY <1>1 DEF RestOK
<1>2. \A S : Release(S) \in [Commands -> Workers \union {NoWorker}]
  BY DEF Release, RestOK
<1>3. ASSUME NEW w \in Workers, ClaimCommand(w) \/ GiveUpCommands(w) \/ Renew(w) \/ Record(w) \/ Crash(w)
      PROVE  holder' \in [Commands -> Workers \union {NoWorker}] /\ leased' \subseteq Commands
  <2>1. Claimed(w) \subseteq Commands
    BY DEF Claimed
  <2>2. CASE ClaimCommand(w)
    <3>1. PICK c \in Commands : holder' = [Release(GivenUp) EXCEPT ![c] = w] /\ leased' = leased \union {c}
      BY <2>2 DEF ClaimCommand
    <3> QED BY <1>2, <3>1 DEF RestOK
  <2>3. CASE GiveUpCommands(w) \/ Renew(w) \/ Record(w) \/ Crash(w)
    BY <1>2, <2>1, <2>3 DEF GiveUpCommands, Renew, Record, Crash, RestOK
  <2> QED BY <1>3, <2>2, <2>3
<1>4. CASE \E c \in Commands : ExpireCommand(c)
  BY <1>4 DEF ExpireCommand, RestOK
<1>5. CASE \/ \E c \in Commands, k \in Blobs : RecacheOnAccess(c, k)
           \/ \E c \in Commands, r \in Requests : Enqueue(c, r)
  BY <1>1, <1>5 DEF RecacheOnAccess, Enqueue
<1>6. CASE UNCHANGED queueVars
  BY <1>1, <1>6 DEF queueVars
<1> QED BY <1>3, <1>4, <1>5, <1>6 DEF Next, Aside, Run, Superseded, vars

LEMMA NextKeepsRest ==
  ASSUME Consistent, RestOK, [Next]_vars
  PROVE  RestOK'
<1>1. Aftermath
  BY StepAftermath
<1>2. faults' \in 0 .. MaxFaults
  BY <1>1, BoundsAreNumbers DEF Aftermath, Fault, RestOK
<1>3. tainted' \subseteq Backends \X Blobs
  BY <1>1 DEF Aftermath, KeyTouched, RestOK
<1>4. s3On' \in BOOLEAN
  BY <1>1, Zenon DEF Aftermath, RestOK
<1> QED BY <1>2, <1>3, <1>4, RuntimeCounts, QueueKeepsShape DEF RestOK

-----------------------------------------------------------------------------
(* The inductive invariant.                                                *)

IInv == KeysOK /\ CountsOK /\ CopiesOK /\ RestOK

LEMMA Starts == Init => IInv
<1> SUFFICES ASSUME Init PROVE IInv
  OBVIOUS
<1>1. PICK mirrored \in Start :
        /\ loc = [b \in Backends |-> [k \in Blobs |-> IF k \in mirrored THEN "ready" ELSE "none"]]
        /\ readyBytes = [b \in Backends |-> SumFunctionOnSet(Size, mirrored)]
        /\ runtimeBytes = SumFunctionOnSet(Size, mirrored) /\ s3On = TRUE
        /\ blob = [k \in Blobs |-> IF k \in mirrored THEN "ready" ELSE "none"]
        /\ object = [k \in Blobs |-> IF k \in mirrored THEN "ready" ELSE "pending"]
        /\ pinned = {} /\ faults = 0 /\ tainted = {}
  BY DEF Init, StorageInit
<1>2. mirrored \subseteq Blobs
  BY StartIsBlobs
<1>3. IsFiniteSet(mirrored) /\ \A k \in mirrored : Size[k] \in Nat
  BY <1>2, SizesArePositive, FS_Subset
<1>4. SumFunctionOnSet(Size, mirrored) \in Nat
  BY <1>3, SumIsNat
<1>5. ASSUME NEW b \in Backends PROVE PhysicalBytes(b) = SumFunctionOnSet(Size, mirrored)
  <2>1. {k \in Blobs : Physical(b, k)} = mirrored
    BY <1>1, <1>2 DEF Physical
  <2> QED BY <2>1 DEF PhysicalBytes
<1>6. CountsOK
  BY <1>1, <1>4, <1>5 DEF CountsOK, BackendLedgerAddsUp
<1>7. CopiesOK
  BY <1>1 DEF CopiesOK, ObjectsOK, ObjectStates, CopiesLeft, HasCopy, Physical, PinnedFresh, ReadyBacked, Backends
<1>8. RestOK
  BY <1>1, <1>4, BoundsAreNumbers DEF RestOK, Init
<1> QED BY <1>6, <1>7, <1>8, StartsWithKeys DEF IInv

LEMMA NextKeepsIInv == IInv /\ [Next]_vars => IInv'
BY NextKeepsKeys, NextCounts, NextKeepsCopies, NextKeepsRest DEF IInv, KeysOK

\* A backend's count of ready bytes is the sum of the sizes of the blobs it holds, whatever copies,
\* prunes, evictions, undone evictions, publications and reconciliations overlap.
THEOREM BackendCountsAddUp == Spec => []BackendLedgerAddsUp
<1>1. IInv => BackendLedgerAddsUp
  BY DEF IInv, CountsOK
<1> QED BY Starts, NextKeepsIInv, <1>1, PTL DEF Spec

\* No ready object is left without a copy: a prune, eviction or reconciliation that takes the last
\* one takes the object with it, and a plan that settles finds its blob where it was published.
THEOREM ReadyObjectsKeepACopy == Spec => []ReadyObjectsHaveACopy
<1>1. IInv => ReadyObjectsHaveACopy
  BY DEF IInv, CopiesOK, CopiesLeft, ReadyObjectsHaveACopy
<1> QED BY Starts, NextKeepsIInv, <1>1, PTL DEF Spec

\* Every variable keeps its type; no count of bytes becomes negative and no command is tried more
\* than the maximum number of times.
THEOREM StorageTypes == Spec => []TypeOK
<1>1. IInv => TypeOK
  <2> SUFFICES ASSUME IInv PROVE TypeOK
    OBVIOUS
  <2>1. \A b \in Backends : readyBytes[b] \in Nat
    BY PhysicalIsNat DEF IInv, CountsOK, BackendLedgerAddsUp
  <2>2. readyBytes \in [Backends -> Nat]
    BY <2>1 DEF IInv, CountsOK
  <2>3. DOMAIN op = Workers /\ \A w \in Workers : op[w].kind \in Kinds /\ op[w].todo \subseteq Blobs
    BY DEF IInv, KeysOK, Consistent, OperationsOK, Operations
  <2>4. ASSUME NEW c \in Commands
        PROVE  /\ cmd[c].state \in {"none", "pending", "running", "succeeded", "failed"}
               /\ cmd[c].attempts \in 0 .. MaxAttempts
    BY QueueAssumption DEF IInv, KeysOK, QueueOK, NoCommand, Queued
  <2>5. StorageTypeOK
    BY <2>2, <2>3 DEF StorageTypeOK, IInv, KeysOK, Consistent, LocationsOK, Leases, CopiesOK, ObjectsOK, RestOK
  <2> QED BY <2>4, <2>5 DEF TypeOK, IInv, RestOK
<1> QED BY Starts, NextKeepsIInv, <1>1, PTL DEF Spec

\* A blob ready in the bucket has its bytes there, however the copies, prunes, retries and crashes
\* of any number of workers fall together, unless they went without a claim.
THEOREM ReadyCopiesHaveBytes == Spec => []ReadyHasBytes
<1>1. IInv => ReadyHasBytes
  BY DEF IInv, KeysOK
<1> QED BY Starts, NextKeepsIInv, <1>1, PTL DEF Spec

\* No backend is ever deleting the blob of a protected object, whoever protects it when.
THEOREM ProtectedBlobsStay == Spec => []ProtectionHolds
<1>1. IInv => ProtectionHolds
  BY DEF IInv, KeysOK, Consistent
<1> QED BY Starts, NextKeepsIInv, <1>1, PTL DEF Spec
=============================================================================
