---------------------------- MODULE StorageProps ----------------------------
(***************************************************************************)
(* What the storage operations must keep, whoever runs them, however often *)
(* and wherever they stop.                                                 *)
(***************************************************************************)
EXTENDS StorageCommands

\* The bytes counted for a backend are those of the blobs it holds, however copies, prunes,
\* evictions and reconciliations overlap, fail half way or run again.
BackendLedgerAddsUp == \A b \in Backends : readyBytes[b] = PhysicalBytes(b)

\* A blob ready in the bucket is there, unless its bytes were lost or removed by a worker whose
\* claim had ended: no reader is sent to a copy that was never finished.
ReadyHasBytes ==
    \A k \in Blobs : loc["s3"][k] = "ready" /\ <<"s3", k>> \notin tainted => disk["s3"][k] = "good"

\* A ready object keeps a copy that a ledger counts, or its last one was found spoiled: a prune of
\* one backend and a prune, eviction or failed copy on the other never leave it with none.
HasCopy(k) == \E b \in Backends : Physical(b, k) \/ loc[b][k] = "corrupt"
ReadyObjectsHaveACopy == \A k \in Blobs : object[k] = "ready" => HasCopy(k)

\* While an object is protected no backend is deleting its blob, not even to finish a deletion
\* that somebody left.
ProtectionHolds ==
    \A k \in protected : blob[k] # "deleting" /\ \A b \in Backends : loc[b][k] # "deleting"
=============================================================================
