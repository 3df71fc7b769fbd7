------------------------------ MODULE MCStorage ------------------------------
EXTENDS StorageProps, TLC

CONSTANTS k1, w1, w2

OneSize == (k1 :> 1)
Roomy == [b \in {"local", "s3"} |-> 3]

Mirrored == {Blobs}

R(kind, to, k, target) == [kind |-> kind, to |-> to, k |-> k, target |-> target]

\* One request of every kind, and a second of those that name a backend.
EveryKind ==
    {R("migrate", "s3", NoBlob, 0), R("restore", "local", k1, 0),
     R("prune", "local", NoBlob, 0), R("prune", "s3", NoBlob, 0),
     R("evict", "local", k1, 0), R("reconcile", "local", NoBlob, 0)}
AllKinds == EveryKind \union {R("migrate_object", "local", k1, 0), R("restore", "s3", k1, 0)}

WorkerSymmetry == Permutations(Workers)
=============================================================================
