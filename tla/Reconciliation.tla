--------------------------- MODULE Reconciliation ---------------------------
(***************************************************************************)
(* The whole reconciliation: the runners of ScanSchedule scan in the       *)
(* transactions of ScanFindings, beside the scans and batch applies that   *)
(* owners and operators request (app.ts, cli.ts).                          *)
(***************************************************************************)
EXTENDS ScanSchedule, ScanFindings

CONSTANTS
    Operators,   \* requests at a time: Admin HTTP or command line
    Scopes,      \* what a request may cover; a scheduled scan covers every channel
    MaxRequests  \* bound: requested scans and applies

ASSUME ReconciliationAssumption ==
    Scanners = Workers \union Operators /\ Scopes \subseteq SUBSET Findings /\ MaxRequests \in Nat

VARIABLE requests  \* requests so far

vars == <<scheduleVars, findingsVars, requests>>

TypeOK == ScheduleTypeOK /\ FindingsTypeOK /\ requests \in 0 .. MaxRequests

Init == ScheduleInit /\ FindingsInit /\ requests = 0

-----------------------------------------------------------------------------
(* The scheduled scan: the runner and its transaction step together.       *)

BeginScheduled(w) == BeginScan(w) /\ Begin(w, Findings) /\ UNCHANGED requests
CommitScheduled(w) == CommitScan(w) /\ Commit(w, {}) /\ UNCHANGED requests
ConflictScheduled(w) ==
    /\ lock = w /\ Conflict(w)
    /\ FailScan(w) /\ Rollback(w) /\ UNCHANGED requests
InterruptScheduled(w) == InterruptScan(w) /\ Rollback(w) /\ UNCHANGED requests
CrashProcess(w) ==
    /\ Crash(w)
    /\ IF Open(w) THEN Rollback(w) ELSE UNCHANGED findingsVars
    /\ UNCHANGED requests

AcquireLock(t) == Acquire(t) /\ UNCHANGED <<scheduleVars, requests>>

-----------------------------------------------------------------------------
(* Requests.                                                               *)

Request(o, scope) ==
    /\ requests < MaxRequests /\ requests' = requests + 1
    /\ Begin(o, scope)
    /\ UNCHANGED scheduleVars
PersistScan(o) == Commit(o, {}) /\ UNCHANGED <<scheduleVars, requests>>
Apply(o) ==
    /\ \E repaired \in (SUBSET Fixable(o)) \ {{}} : Commit(o, repaired)
    /\ UNCHANGED <<scheduleVars, requests>>
RequestFails(o) == Rollback(o) /\ UNCHANGED <<scheduleVars, requests>>

-----------------------------------------------------------------------------
Decisions(f) ==
    /\ View(f) \/ IgnoreFinding(f) \/ RepairFinding(f)
    /\ UNCHANGED <<scheduleVars, requests>>
Evidence(f) == (Appear(f) \/ Vanish(f)) /\ UNCHANGED <<scheduleVars, requests>>
Alone(step) == step /\ UNCHANGED <<findingsVars, requests>>

Next ==
    \/ \E w \in Workers :
        \/ Alone(RunnerStep(w))
        \/ BeginScheduled(w) \/ CommitScheduled(w) \/ ConflictScheduled(w)
        \/ InterruptScheduled(w) \/ CrashProcess(w)
    \/ Alone(LeaseExpires) \/ Alone(ComesDue)
    \/ \E t \in Scanners : AcquireLock(t)
    \/ \E o \in Operators :
        \/ \E scope \in Scopes : Request(o, scope)
        \/ PersistScan(o) \/ Apply(o) \/ RequestFails(o)
    \/ \E f \in Findings : Decisions(f) \/ Evidence(f)

Spec == Init /\ [][Next]_vars

(* What a process and a request do unless they are stopped: a scan that waits for the lock gets *)
(* it, a process that is down is restarted.                                                     *)
Loop(w) ==
    \/ Alone(\E r \in ScanRuns : ClaimDue(w, r))
    \/ Alone(RefuseScan(w) \/ SkipScan(w) \/ Release(w) \/ Restart(w))
    \/ BeginScheduled(w) \/ AcquireLock(w)
    \/ CommitScheduled(w) \/ ConflictScheduled(w) \/ InterruptScheduled(w)
Serve(o) == AcquireLock(o) \/ PersistScan(o) \/ Apply(o) \/ RequestFails(o)

(* Loops run on, requests end, time passes, the lease of a dead process with it; evidence,      *)
(* owners, stops and faults owe nothing.                                                        *)
Fairness ==
    /\ WF_vars(Alone(Abandoned /\ LeaseExpires)) /\ WF_vars(Alone(ComesDue))
    /\ \A w \in Workers : WF_vars(Loop(w))
    /\ \A o \in Operators : WF_vars(Serve(o))

FairSpec == Spec /\ Fairness

-----------------------------------------------------------------------------
\* A finding whose evidence is gone for good does not stay open, whatever crashes, lost leases,
\* and conflicting requests its scans meet.
GoneIsResolved ==
    \A f \in Exhaustive : <>[](f \notin evidence) => <>[](finding[f].state # "open")
=============================================================================
