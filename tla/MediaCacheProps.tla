-------------------------- MODULE MediaCacheProps --------------------------
(***************************************************************************)
(* What the media cache must keep true (module MediaCache).                *)
(***************************************************************************)
EXTENDS MediaCache

\* The three counters of the ledger are the sums they stand for: the physical bytes of the
\* blobs on disk, the reservations of the plans, and per post the bytes of its ready originals.
\* Every transaction of ledger-repository.ts and eviction-repository.ts updates them by
\* differences computed from rows it read earlier.
LedgerAddsUp ==
    /\ readyBytes = BlobBytes({b \in Blobs : blob[b] \in {"ready", "deleting"}})
    /\ reservedBytes = SumFunctionOnSet(reserved, Plans)
    /\ \A p \in Plans : readyOriginal[p] = Bytes(In(p, "ready"), BoundBytes)

\* A ready object's blob is on disk or being deleted, and the blobs a plan has yet to settle
\* are pinned: they stay ready, whatever evictors do between its two commits.
BlobsOutliveTheirUse ==
    \A o \in Objects :
        /\ object[o] = "ready" => blob[bound[o]] \in {"ready", "deleting"}
        /\ object[o] = "staging" => blob[bound[o]] = "ready"

\* No row says ready while its file is missing.
ReadyHasFile == \A b \in Blobs : blob[b] = "ready" => b \in final

\* A final file the ledger does not count still has a staging name on its inode, so that the
\* owner of that name, or whoever recovers its lease, removes or adopts it.
UncountedFilesAreOwned ==
    \A b \in final : blob[b] \notin {"ready", "deleting"} =>
        \E n \in twin : staged[n[1]][n[2]] = b

\* A blob under an active protection is never being deleted, whichever of protection, claim,
\* publication and eviction came first.
ProtectedIsNotDeleted == \A b \in Blobs : Protected(b) => blob[b] # "deleting"

\* A plan has a lease, a reservation and active objects in the matching state, or none of them.
LeasesAreComplete ==
    \A p \in Plans :
        /\ plan[p] \in Leased <=> holder[p] # NoRun
        /\ plan[p] \in Leased <=> reserved[p] > 0
        /\ plan[p] = "staging" => Complete(p)

\* Once bound to a content, an original never becomes another one.
BindingIsForLife == [][\A o \in Objects : bound[o] # NoBlob => bound'[o] = bound[o]]_vars

\* A plan whose publication was committed becomes ready, whatever crashes and slow runs there
\* are: a recovery adopts it when its own run does not finish it.
CommittedPlansGetReady == \A p \in Plans : plan[p] = "settling" ~> plan[p] = "ready"

\* A claimed plan is given back or published: no lease keeps a reservation for ever.
ClaimsEnd == \A p \in Plans : plan[p] = "staging" ~> plan[p] # "staging"

\* The state diagram of docs/goals/G2.3: recovering leads to settling when the ledger says the
\* blob is committed, to retry_wait otherwise.
RecoveringEnds == \A p \in Plans : plan[p] = "recovering" ~> plan[p] # "recovering"
=============================================================================
