---------------------------- MODULE ScanSchedule ----------------------------
(***************************************************************************)
(* The scheduled reconciliation scan (reconciliation/schedule-repository.ts *)
(* and scheduled-runner.ts): one schedule row with a lease, claimed by the *)
(* runners of the worker processes.  A claim creates a run and binds it to *)
(* a lease token that is never used again; here the token is the run.      *)
(*                                                                         *)
(* The scan is one transaction that keeps the schedule row locked from its *)
(* first statement on, so no renewal, claim or release comes between; what *)
(* it reads and writes is the business of module ScanFindings.  A lease    *)
(* that its holder renews in time never expires; the one of a dead process *)
(* does, and any other expiry counts as a fault (a stalled process, or a   *)
(* scan longer than the lease, whose row lock keeps the renewals out).     *)
(***************************************************************************)
EXTENDS Integers

CONSTANTS
    Workers,    \* worker processes
    ScanRuns,   \* runs, each with its lease token
    NoScan,
    MaxFaults   \* bound: crashes, stops, failed renewals and untimely expiries

ASSUME ScanAssumption == NoScan \notin ScanRuns /\ MaxFaults \in Nat

VARIABLES
    due,       \* next_run_at has passed
    claimed,   \* claimed_run_id, with the lease owner and token of that run
    expired,   \* lease_expires_at has passed
    status,    \* reconciliation_runs.status
    runner,    \* the runner of each process
    faults     \* faults so far

scheduleVars == <<due, claimed, expired, status, runner, faults>>

Outcomes == {"completed", "failed", "interrupted"}
RunnerPCs == {"idle", "claimed", "scanning", "failed", "interrupted", "down"}
Runner == [pc : RunnerPCs, run : ScanRuns \union {NoScan}, stopping : BOOLEAN, aborted : BOOLEAN]
Fresh == [pc |-> "idle", run |-> NoScan, stopping |-> FALSE, aborted |-> FALSE]
Down == [Fresh EXCEPT !.pc = "down"]

ScheduleTypeOK ==
    /\ due \in BOOLEAN /\ expired \in BOOLEAN
    /\ claimed \in ScanRuns \union {NoScan}
    /\ status \in [ScanRuns -> Outcomes \union {"none", "running"}]
    /\ runner \in [Workers -> Runner]
    /\ faults \in 0 .. MaxFaults

ScheduleInit ==
    /\ due = TRUE /\ claimed = NoScan /\ expired = FALSE
    /\ status = [r \in ScanRuns |-> "none"]
    /\ runner = [w \in Workers |-> Fresh]
    /\ faults = 0

Fault == faults < MaxFaults /\ faults' = faults + 1
Goto(w, pc) == runner' = [runner EXCEPT ![w].pc = pc]

\* The row lock of a scan, and the condition that renewals and releases repeat.
RowFree == \A w \in Workers : runner[w].pc # "scanning"
LeaseHeld(w) == claimed = runner[w].run /\ ~expired

\* The loop after a claim has been dealt with: the next poll, or the end of a stopped process.
Onward(w) == IF runner[w].stopping THEN Down ELSE Fresh

-----------------------------------------------------------------------------
\* A token nobody holds: the runs that ended with no trace in a process stand for new ones.
Unused(r) == r # claimed /\ \A w \in Workers : runner[w].run # r

\* Mutants: the claim ignores the row lock, or the expiry; the old run is left running.
ClaimableWhileScanned == due /\ (claimed = NoScan \/ expired)
ClaimableWhenFree == due /\ RowFree /\ claimed = NoScan
Claimable == due /\ RowFree /\ (claimed = NoScan \/ expired)
ClaimOver(r) == [status EXCEPT ![r] = "running"]
Claim(r) == [x \in ScanRuns |-> IF x = r THEN "running"
                                ELSE IF x = claimed THEN "interrupted" ELSE status[x]]

\* An expired claim is taken over: its run ends in the same transaction.  The code throws when
\* that run is not running, which RunningIsClaimed excludes.
ClaimDue(w, r) ==
    /\ runner[w].pc = "idle" /\ Claimable /\ Unused(r)
    /\ claimed # NoScan => status[claimed] = "running"
    /\ claimed' = r /\ expired' = FALSE /\ status' = Claim(r)
    /\ runner' = [runner EXCEPT ![w].pc = "claimed", ![w].run = r]
    /\ UNCHANGED <<due, faults>>

\* The scan transaction locks the schedule row and checks claim, token and expiry.
BeginScan(w) ==
    /\ runner[w].pc = "claimed" /\ RowFree /\ LeaseHeld(w)
    /\ Goto(w, "scanning")
    /\ UNCHANGED <<due, claimed, expired, status, faults>>

Failure(w) == IF runner[w].stopping THEN "interrupted" ELSE "failed"
RefuseScan(w) ==
    /\ runner[w].pc = "claimed" /\ RowFree /\ ~LeaseHeld(w)
    /\ Goto(w, Failure(w))
    /\ UNCHANGED <<due, claimed, expired, status, faults>>

\* A process stopped while it claimed gives the claim back without a scan.
SkipScan(w) ==
    /\ runner[w].pc = "claimed" /\ runner[w].stopping
    /\ Goto(w, "interrupted")
    /\ UNCHANGED <<due, claimed, expired, status, faults>>

\* The end of a run: the row is free again and due an interval later.
EndRun(w, outcome) ==
    /\ status' = [status EXCEPT ![runner[w].run] = outcome]
    /\ claimed' = NoScan /\ expired' = FALSE /\ due' = FALSE
    /\ runner' = [runner EXCEPT ![w] = Onward(w)]

\* The scan commits its findings, its run and the release of the schedule at once, with the
\* token but whatever the time: nobody else could touch the row.
CommitScan(w) ==
    /\ runner[w].pc = "scanning"
    /\ EndRun(w, "completed")
    /\ UNCHANGED faults

\* A failed statement rolls the scan back, an abort signal does at the next look at it.
FailScan(w) ==
    /\ runner[w].pc = "scanning"
    /\ Goto(w, Failure(w))
    /\ UNCHANGED <<due, claimed, expired, status, faults>>
InterruptScan(w) ==
    /\ runner[w].pc = "scanning" /\ (runner[w].stopping \/ runner[w].aborted)
    /\ Goto(w, "interrupted")
    /\ UNCHANGED <<due, claimed, expired, status, faults>>

\* Without the lease the release throws, the runner's loop ends and the process with it.
Release(w) ==
    /\ runner[w].pc \in {"failed", "interrupted"} /\ RowFree
    /\ IF LeaseHeld(w)
       THEN EndRun(w, runner[w].pc)
       ELSE /\ runner' = [runner EXCEPT ![w] = Down]
            /\ UNCHANGED <<due, claimed, expired, status>>
    /\ UNCHANGED faults

-----------------------------------------------------------------------------
(* Time, stops and faults.                                                 *)

\* A renewal that fails aborts the scan.
FailRenewal(w) ==
    /\ runner[w].pc \in {"claimed", "scanning"} /\ ~runner[w].aborted /\ Fault
    /\ runner' = [runner EXCEPT ![w].aborted = TRUE]
    /\ UNCHANGED <<due, claimed, expired, status>>

Stop(w) ==
    /\ runner[w].pc # "down" /\ ~runner[w].stopping /\ Fault
    /\ runner' = [runner EXCEPT ![w] = IF @.pc = "idle" THEN Down ELSE [@ EXCEPT !.stopping = TRUE]]
    /\ UNCHANGED <<due, claimed, expired, status>>

Crash(w) ==
    /\ runner[w].pc # "down" /\ Fault
    /\ runner' = [runner EXCEPT ![w] = Down]
    /\ UNCHANGED <<due, claimed, expired, status>>

Restart(w) ==
    /\ runner[w].pc = "down"
    /\ runner' = [runner EXCEPT ![w] = Fresh]
    /\ UNCHANGED <<due, claimed, expired, status, faults>>

Abandoned == \A w \in Workers : runner[w].run # claimed
LeaseExpires ==
    /\ claimed # NoScan /\ ~expired
    /\ expired' = TRUE
    /\ IF Abandoned THEN UNCHANGED faults ELSE Fault
    /\ UNCHANGED <<due, claimed, status, runner>>

ComesDue ==
    /\ ~due
    /\ due' = TRUE
    /\ UNCHANGED <<claimed, expired, status, runner, faults>>

-----------------------------------------------------------------------------
\* What a process does on its own, whatever the scan's outcome.
RunnerStep(w) ==
    \/ \E r \in ScanRuns : ClaimDue(w, r)
    \/ RefuseScan(w) \/ SkipScan(w) \/ Release(w) \/ Restart(w)
    \/ FailRenewal(w) \/ Stop(w)

ScheduleNext ==
    \/ \E w \in Workers :
        \/ RunnerStep(w)
        \/ BeginScan(w) \/ CommitScan(w) \/ FailScan(w) \/ InterruptScan(w) \/ Crash(w)
    \/ LeaseExpires \/ ComesDue

ScheduleSpec == ScheduleInit /\ [][ScheduleNext]_scheduleVars

-----------------------------------------------------------------------------
\* A run is running exactly when the schedule row claims it: none is left behind by a takeover,
\* and none ends while its scan may still commit (claimDue, scanClaimedRun, finishAndRelease).
RunningIsClaimed == \A r \in ScanRuns : status[r] = "running" <=> claimed = r

\* A scan in progress owns the claim until it commits or rolls back, even when its lease has
\* nominally expired (scanClaimedRun's lock on the schedule row).
ScanOwnsItsClaim == \A w \in Workers : runner[w].pc = "scanning" => claimed = runner[w].run

\* No run stays running for ever, wherever its process dies.
RunsEnd == \A r \in ScanRuns : status[r] = "running" ~> status[r] # "running"
=============================================================================
