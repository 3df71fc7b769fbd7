--------------------------- MODULE StorageCommands ---------------------------
(***************************************************************************)
(* The queue of media cache commands and the workers that run them.  A     *)
(* worker claims the oldest command, runs its operation (StorageLocations) *)
(* step by step, and records the outcome under the token of its claim; a   *)
(* command whose worker dies is claimed again when its lease has ended, so *)
(* every operation may run more than once, or twice at a time.             *)
(***************************************************************************)
EXTENDS StorageLocations

CONSTANTS
    MaxCommands,   \* bound on the commands enqueued
    MaxAttempts,   \* attempt_count at which a command is given up
    Requests       \* what may be enqueued

Commands == 1 .. MaxCommands

ASSUME QueueAssumption ==
    /\ MaxCommands \in Nat /\ MaxAttempts \in Nat \ {0}
    /\ Requests \subseteq [kind : Kinds \ {"none"}, to : Backends, k : Blobs \union {NoBlob}, target : Nat]
    /\ \A r \in Requests : r.kind \in {"migrate_object", "restore", "evict"} => r.k \in Blobs

VARIABLES
    cmd,       \* media_cache_commands: state, request, attempts
    holder,    \* the worker whose token the command carries, none when it died
    leased     \* commands with an unexpired lease

queueVars == <<cmd, holder, leased>>
vars == <<storageVars, queueVars>>

NoCommand == [state |-> "none", attempts |-> 0]

TypeOK ==
    /\ StorageTypeOK
    /\ \A c \in Commands :
        /\ cmd[c].state \in {"none", "pending", "running", "succeeded", "failed"}
        /\ cmd[c].attempts \in 0 .. MaxAttempts
    /\ holder \in [Commands -> Workers \union {NoWorker}]
    /\ leased \subseteq Commands

Init ==
    /\ StorageInit
    /\ cmd = [c \in Commands |-> NoCommand]
    /\ holder = [c \in Commands |-> NoWorker] /\ leased = {}

-----------------------------------------------------------------------------
Holds(w, c) == cmd[c].state = "running" /\ holder[c] = w
Claimed(w) == {c \in Commands : Holds(w, c)}

\* Commands are numbered in the order they were enqueued in.
Enqueue(c, r) ==
    /\ cmd[c].state = "none" /\ \A d \in 1 .. (c - 1) : cmd[d].state # "none"
    /\ cmd' = [cmd EXCEPT ![c] = [state |-> "pending", attempts |-> 0, request |-> r]]
    /\ UNCHANGED <<storageVars, holder, leased>>

RestoreLive(k) ==
    \E c \in Commands : /\ cmd[c].state \in {"pending", "running"}
                       /\ cmd[c].request.kind = "restore" /\ cmd[c].request.to = "local"
                       /\ cmd[c].request.k = k

\* A public read served from the bucket asks for the local copy back, once at a time.
RecacheOnAccess(c, k) ==
    /\ object[k] = "ready" /\ s3On /\ loc["s3"][k] = "ready" /\ loc["local"][k] # "ready"
    /\ ~RestoreLive(k)
    /\ Enqueue(c, [kind |-> "restore", to |-> "local", k |-> k, target |-> 0])

Expired(c) == cmd[c].state = "running" /\ c \notin leased
\* Mutant: a command is tried for ever.
ClaimableForEver(c) == cmd[c].state = "pending" \/ Expired(c)
Claimable(c) == cmd[c].state = "pending" \/ (Expired(c) /\ cmd[c].attempts < MaxAttempts)

FirstStep(kind) ==
    CASE kind \in {"migrate", "migrate_object", "restore", "reconcile"} -> "list"
      [] kind = "prune" -> "claim"
      [] OTHER -> "start"

Begin(w, r) ==
    op' = [op EXCEPT ![w] = [Idle EXCEPT !.kind = r.kind, !.pc = FirstStep(r.kind), !.to = r.to,
                                         !.k = r.k, !.target = r.target]]

\* Commands tried too often are given up first, then the oldest claimable one is taken.
GivenUp == {c \in Commands : Expired(c) /\ cmd[c].attempts >= MaxAttempts}
Fail(S) == [c \in Commands |-> IF c \in S THEN [cmd[c] EXCEPT !.state = "failed"] ELSE cmd[c]]
Release(S) == [c \in Commands |-> IF c \in S THEN NoWorker ELSE holder[c]]

ClaimCommand(w) ==
    /\ op[w] = Idle
    /\ \E c \in Commands :
        /\ Claimable(c) /\ \A d \in 1 .. (c - 1) : ~Claimable(d)
        /\ cmd' = [Fail(GivenUp) EXCEPT ![c].state = "running", ![c].attempts = @ + 1]
        /\ holder' = [Release(GivenUp) EXCEPT ![c] = w]
        /\ leased' = leased \union {c}
        /\ Begin(w, cmd[c].request)
    /\ UNCHANGED <<ledger, legacy, owner, physical, faults>>

GiveUpCommands(w) ==
    /\ op[w] = Idle /\ GivenUp # {} /\ ~\E c \in Commands : Claimable(c)
    /\ cmd' = Fail(GivenUp) /\ holder' = Release(GivenUp)
    /\ UNCHANGED <<storageVars, leased>>

\* Every minute, and between the steps of an operation; a lease that has ended is renewed too.
Renew(w) ==
    /\ \E c \in Claimed(w) \ leased : leased' = leased \union {c}
    /\ UNCHANGED <<storageVars, cmd, holder>>

\* An operation that finds its command taken stops before its next claim.
Superseded(w) ==
    /\ op[w].pc \in {"list", "claim"} /\ op[w].kind # "evict" /\ Claimed(w) = {}
    /\ op[w].kind = "reconcile" => op[w].pc = "list"
    /\ Finish(w, "failed") /\ Thinking /\ UNCHANGED queueVars

Run(w) == OperationStep(w) /\ UNCHANGED queueVars

\* The outcome is recorded under the token; a worker that lost its claim records nothing.
Record(w) ==
    /\ op[w].pc \in {"succeeded", "failed"}
    /\ cmd' = [c \in Commands |-> IF Holds(w, c) THEN [cmd[c] EXCEPT !.state = op[w].pc] ELSE cmd[c]]
    /\ holder' = Release(Claimed(w)) /\ leased' = leased \ Claimed(w)
    /\ op' = [op EXCEPT ![w] = Idle]
    /\ UNCHANGED <<ledger, legacy, owner, physical, faults>>

\* A worker dies, or is stopped and leaves its command running.
Crash(w) ==
    /\ op[w] # Idle /\ Fault("crash")
    /\ op' = [op EXCEPT ![w] = Idle] /\ holder' = Release(Claimed(w))
    /\ UNCHANGED <<ledger, legacy, owner, physical, cmd, leased>>

Abandoned(c) == cmd[c].state = "running" /\ holder[c] = NoWorker

\* A lease ends; under a worker that is still at it only as a fault.
ExpireCommand(c) ==
    /\ c \in leased /\ leased' = leased \ {c}
    /\ IF Abandoned(c) THEN UNCHANGED faults ELSE Fault("slow")
    /\ UNCHANGED <<ledger, legacy, owner, physical, op, cmd, holder>>

-----------------------------------------------------------------------------
Aside(step) == step /\ UNCHANGED queueVars

Next ==
    \/ \E c \in Commands, k \in Blobs : RecacheOnAccess(c, k)
    \/ \E c \in Commands : ExpireCommand(c) \/ \E r \in Requests : Enqueue(c, r)
    \/ \E w \in Workers :
        \/ ClaimCommand(w) \/ GiveUpCommands(w) \/ Renew(w) \/ Superseded(w) \/ Run(w)
        \/ Record(w) \/ Crash(w)
    \/ \E k \in Blobs : Aside(OwnerStep(k)) \/ \E b \in Backends : Aside(Mishap(b, k))
    \/ Aside(Bootstrap)

Spec == Init /\ [][Next]_vars

(* A worker that is up goes on with its command and its loop; a lease nobody renews ends.  The  *)
(* owner, the media worker and the faults owe nothing.                                          *)
Loop(w) == ClaimCommand(w) \/ GiveUpCommands(w) \/ Superseded(w) \/ Run(w) \/ Record(w)
AbandonedExpires == \E c \in Commands : Abandoned(c) /\ ExpireCommand(c)

Fairness == (\A w \in Workers : WF_vars(Loop(w))) /\ WF_vars(AbandonedExpires)
FairSpec == Spec /\ Fairness
=============================================================================
