---------------------------- MODULE ScanFindings ----------------------------
(***************************************************************************)
(* Findings of the reconciliation and who decides about them               *)
(* (reconciliation/persistence-repository.ts, apply-service.ts,            *)
(* repair-repository.ts).  A finding is a stable key; its evidence is the  *)
(* rows that make the scanner produce that key, written by the intake, the *)
(* imports and the repairs.  A scan opens, reopens and resolves findings;  *)
(* the owner ignores them or has them repaired; a batch apply repairs what *)
(* its own scan finds.                                                     *)
(*                                                                         *)
(* All of them take one advisory lock.  Scans and applies are REPEATABLE   *)
(* READ transactions whose snapshot is taken by their first statement,     *)
(* before the lock is granted: a transaction remembers what it saw, and    *)
(* the rows committed by others since then, which PostgreSQL refuses to    *)
(* update (error 40001).  Under the lock a transaction runs undisturbed by *)
(* other writers of findings, so all it writes is one step at its commit.  *)
(* Decisions of the owner are READ COMMITTED and one step each.            *)
(***************************************************************************)
EXTENDS Integers

CONSTANTS
    Findings,    \* the keys of the candidates a scanner can produce
    Exhaustive,  \* those of the kinds a scan resolves when it does not see them
    Repairable,  \* those of the deterministic repair kinds
    Scanners,    \* actors that run scan transactions
    NoScanner,
    MaxVersion   \* bound: evidence versions

ASSUME FindingAssumption ==
    /\ Repairable \subseteq Exhaustive /\ Exhaustive \subseteq Findings
    /\ NoScanner \notin Scanners /\ MaxVersion \in Nat \ {0}

VARIABLES
    evidence,  \* findings whose evidence is in the database
    finding,   \* reconciliation_findings: state and evidence version
    seen,      \* history: was evidence there or gone since the finding last changed its state
    view,      \* the evidence version the owner last read of each finding
    fresh,     \* history: findings the owner read in their present open episode
    tx,        \* the scan transaction of each actor
    lock       \* holder of the reconciliation lock

findingsVars == <<evidence, finding, seen, view, fresh, tx, lock>>

States == {"absent", "open", "ignored", "resolved"}
Transaction == [pc : {"none", "waiting", "locked"}, scope : SUBSET Findings,
                sees : SUBSET Findings, open : SUBSET Findings,
                missed : SUBSET Findings, moved : SUBSET Findings]
NoTransaction == [pc |-> "none", scope |-> {}, sees |-> {}, open |-> {}, missed |-> {}, moved |-> {}]

FindingsTypeOK ==
    /\ evidence \subseteq Findings /\ fresh \subseteq Findings
    /\ finding \in [Findings -> [state : States, version : 0 .. MaxVersion]]
    /\ seen \in [Findings -> SUBSET {"there", "gone"}]
    /\ view \in [Findings -> 0 .. MaxVersion]
    /\ tx \in [Scanners -> Transaction]
    /\ lock \in Scanners \union {NoScanner}

FindingsInit ==
    /\ evidence = {} /\ fresh = {}
    /\ finding = [f \in Findings |-> [state |-> "absent", version |-> 0]]
    /\ seen = [f \in Findings |-> {"gone"}]
    /\ view = [f \in Findings |-> 0]
    /\ tx = [t \in Scanners |-> NoTransaction]
    /\ lock = NoScanner

-----------------------------------------------------------------------------
(* What a committed step leaves behind.                                    *)

Is(f, state) == finding[f].state = state
Open(t) == tx[t].pc # "none"

\* Open snapshots miss the rows others write.
Missed(T, findings, sources) ==
    [t \in Scanners |-> IF T[t].pc = "none" THEN T[t]
        ELSE [T[t] EXCEPT !.missed = @ \union findings, !.moved = @ \union sources]]

In(f, rows) == IF f \in rows THEN "there" ELSE "gone"

\* The history variables follow every change of evidence and finding.
Witness ==
    seen' = [f \in Findings |->
        IF finding'[f].state = finding[f].state THEN seen[f] \union {In(f, evidence')}
                                                ELSE {In(f, evidence')}]

\* Evidence appears and goes with the intake, the imports and the clock.
Appear(f) ==
    /\ f \notin evidence /\ finding[f].version < MaxVersion
    /\ evidence' = evidence \union {f}
    /\ tx' = Missed(tx, {}, {f})
    /\ UNCHANGED <<finding, view, fresh, lock>>
    /\ Witness
Vanish(f) ==
    /\ f \in evidence
    /\ evidence' = evidence \ {f}
    /\ tx' = Missed(tx, {}, {f})
    /\ UNCHANGED <<finding, view, fresh, lock>>
    /\ Witness

-----------------------------------------------------------------------------
(* Scan transactions.                                                      *)

\* The snapshot is that of the statement that then waits for the lock.
Begin(t, scope) ==
    /\ ~Open(t)
    /\ tx' = [tx EXCEPT ![t] = [pc |-> "waiting", scope |-> scope, sees |-> evidence,
              open |-> {f \in Findings : Is(f, "open")}, missed |-> {}, moved |-> {}]]
    /\ UNCHANGED <<evidence, finding, seen, view, fresh, lock>>

Acquire(t) ==
    /\ tx[t].pc = "waiting" /\ lock = NoScanner
    /\ tx' = [tx EXCEPT ![t].pc = "locked"]
    /\ lock' = t
    /\ UNCHANGED <<evidence, finding, seen, view, fresh>>

Candidates(t) == tx[t].sees \intersect tx[t].scope

\* What the scan concludes from not seeing: only in its scope, only of the kinds it covers wholly.
Absent(t) == (tx[t].open \intersect tx[t].scope \intersect Exhaustive) \ tx[t].sees

\* The rows the transaction updates; one committed by others since the snapshot fails it.
\* Mutant: READ COMMITTED would overwrite them.
Written(t) == Candidates(t) \union Absent(t)
NoConflict(t) == FALSE
Conflict(t) == Written(t) \intersect tx[t].missed # {}

\* Mutants: a recurrence keeps its version, or counts twice.
ReopenedSame(f) == [state |-> "open", version |-> finding[f].version]
ReopenedTwice(f) == [state |-> "open", version |-> finding[f].version + 2]
Reopened(f) == [state |-> "open", version |-> finding[f].version + 1]

\* persistFindingBatch and resolveAbsentExhaustiveFindings.  The scanner gives all evidence
\* version 1, so an ignored finding is never reopened.
Verdict(t, f) ==
    CASE f \in Candidates(t) /\ Is(f, "absent") -> [state |-> "open", version |-> 1]
      [] f \in Candidates(t) /\ Is(f, "resolved") -> Reopened(f)
      [] f \in Absent(t) -> [finding[f] EXCEPT !.state = "resolved"]
      [] OTHER -> finding[f]

\* The findings a batch apply tries to repair: open for it, hence seen by its own scan.  A repair
\* whose source rows moved fails alone, in its savepoint, as one not uniquely proven does.
Fixable(t) ==
    {f \in Repairable \intersect Candidates(t) : Verdict(t, f).state = "open"} \ tx[t].moved

Commit(t, repaired) ==
    /\ tx[t].pc = "locked" /\ ~Conflict(t)
    /\ finding' = [f \in Findings |->
          IF f \in repaired THEN [Verdict(t, f) EXCEPT !.state = "resolved"] ELSE Verdict(t, f)]
    /\ evidence' = evidence \ repaired
    /\ fresh' = fresh \ {f \in Findings : ~Is(f, "open") /\ Verdict(t, f).state = "open"}
    /\ tx' = Missed([tx EXCEPT ![t] = NoTransaction], Written(t), repaired)
    /\ lock' = NoScanner
    /\ UNCHANGED view
    /\ Witness

Rollback(t) ==
    /\ Open(t)
    /\ tx' = [tx EXCEPT ![t] = NoTransaction]
    /\ lock' = IF lock = t THEN NoScanner ELSE lock
    /\ UNCHANGED <<evidence, finding, seen, view, fresh>>

-----------------------------------------------------------------------------
(* The owner reads the list and decides with the version read.             *)

View(f) ==
    /\ ~Is(f, "absent")
    /\ view' = [view EXCEPT ![f] = finding[f].version]
    /\ fresh' = IF Is(f, "open") THEN fresh \union {f} ELSE fresh
    /\ UNCHANGED <<evidence, finding, seen, tx, lock>>

Expected(f) == view[f] = finding[f].version

Decide(f, state) ==
    /\ lock = NoScanner /\ Is(f, "open") /\ Expected(f)
    /\ finding' = [finding EXCEPT ![f].state = state]
    /\ UNCHANGED <<view, fresh, lock>>

IgnoreFinding(f) ==
    /\ Decide(f, "ignored")
    /\ tx' = Missed(tx, {f}, {})
    /\ UNCHANGED evidence
    /\ Witness

\* A repair restores the rows, or resolves what is consistent already.
RepairFinding(f) ==
    /\ f \in Repairable
    /\ Decide(f, "resolved")
    /\ evidence' = evidence \ {f}
    /\ tx' = Missed(tx, {f}, {f} \intersect evidence)
    /\ Witness

FindingsNext ==
    \/ \E f \in Findings :
        Appear(f) \/ Vanish(f) \/ View(f) \/ IgnoreFinding(f) \/ RepairFinding(f)
    \/ \E t \in Scanners :
        \/ \E scope \in SUBSET Findings : Begin(t, scope)
        \/ Acquire(t) \/ Rollback(t)
        \/ \E repaired \in SUBSET Fixable(t) : Commit(t, repaired)

FindingsSpec == FindingsInit /\ [][FindingsNext]_findingsVars

-----------------------------------------------------------------------------
\* A finding is opened, first or again, only when its evidence was there since its last
\* decision, and resolved only when its evidence was gone since it was opened, although a scan
\* decides on a snapshot that may be older than the last decision (persistFindingBatch,
\* resolveAbsentExhaustiveFindings, docs/goals/G2.2 5.2).
VerdictsAreFounded ==
    [][\A f \in Findings : finding'[f].state # finding[f].state =>
        /\ finding'[f].state = "open" => "there" \in seen[f]
        /\ finding'[f].state = "resolved" => "gone" \in seen[f] \union {In(f, evidence')}]_findingsVars

\* Who ignores a finding has seen the episode that is ignored: a version read before the
\* finding was resolved and came back does not pass.  An ignored finding never comes back.
IgnoredAsSeen ==
    [][\A f \in Findings : finding'[f].state = "ignored" /\ finding[f].state # "ignored"
        => f \in fresh]_findingsVars
=============================================================================
