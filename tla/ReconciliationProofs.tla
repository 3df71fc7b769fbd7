------------------------ MODULE ReconciliationProofs ------------------------
(***************************************************************************)
(* The composed reconciliation implements its two parts, the schedule and  *)
(* the findings, for any number of processes, runs, findings and requests. *)
(* What is proved of a part holds of the whole: the runs that are running  *)
(* and the claims agree, a scan keeps its claim, verdicts are founded.     *)
(***************************************************************************)
EXTENDS Reconciliation, TLAPS

-----------------------------------------------------------------------------
(* The findings: verdicts are founded although scans decide on old         *)
(* snapshots, and owners ignore only what they have seen.                  *)

\* Versions need no bound here.
Shape ==
    /\ evidence \subseteq Findings
    /\ finding \in [Findings -> [state : States, version : Nat]]
    /\ seen \in [Findings -> SUBSET {"there", "gone"}]
    /\ view \in [Findings -> Nat]
    /\ tx \in [Scanners -> Transaction]

\* What is there now is on record, and what an open transaction saw is on record for every
\* finding that others have left alone since, whose state it also saw.
History ==
    /\ \A f \in Findings : In(f, evidence) \in seen[f]
    /\ \A t \in Scanners, f \in Findings : Open(t) /\ f \notin tx[t].missed =>
        /\ In(f, tx[t].sees) \in seen[f]
        /\ f \in tx[t].open <=> Is(f, "open")

\* Versions only grow, so the version of an earlier episode is never that of an open one.
Views ==
    \A f \in Findings :
        /\ view[f] <= finding[f].version
        /\ Is(f, "absent") => finding[f].version = 0
        /\ Is(f, "open") /\ view[f] = finding[f].version => f \in fresh

FindingsInv == Shape /\ History /\ Views

-----------------------------------------------------------------------------
LEMMA FindingsInvInit == FindingsInit => FindingsInv
<1> SUFFICES ASSUME FindingsInit PROVE FindingsInv
  OBVIOUS
<1>1. NoTransaction \in Transaction /\ NoTransaction.pc = "none"
  BY DEF NoTransaction, Transaction
<1>2. Shape
  BY <1>1 DEF FindingsInit, Shape, States
<1>3. History
  <2>1. \A f \in Findings : In(f, evidence) \in seen[f]
    BY DEF FindingsInit, In
  <2>2. \A t \in Scanners : ~Open(t)
    BY <1>1 DEF FindingsInit, Open
  <2> QED BY <2>1, <2>2 DEF History
<1>4. Views
  <2> SUFFICES ASSUME NEW f \in Findings
               PROVE  /\ view[f] <= finding[f].version
                      /\ finding[f].state = "absent" /\ finding[f].version = 0
    BY DEF Views, Is
  <2>1. finding[f] = [state |-> "absent", version |-> 0] /\ view[f] = 0
    BY DEF FindingsInit
  <2>2. finding[f].state = "absent" /\ finding[f].version = 0
    BY <2>1
  <2> QED BY <2>1, <2>2
<1> QED BY <1>2, <1>3, <1>4 DEF FindingsInv

\* A step that tells the open transactions which findings it changed keeps the history
\* (Missed, Witness).
LEMMA HistoryKeeps ==
    ASSUME Shape, History,
           NEW T \in [Scanners -> Transaction], \A t \in Scanners : T[t] = tx[t] \/ T[t].pc = "none",
           NEW F \in SUBSET Findings, NEW M \in SUBSET Findings, tx' = Missed(T, F, M),
           \A f \in Findings : finding'[f].state # finding[f].state => f \in F,
           Witness
    PROVE  History' /\ tx' \in [Scanners -> Transaction] /\ seen' \in [Findings -> SUBSET {"there", "gone"}]
<1>1. tx' \in [Scanners -> Transaction]
  <2> SUFFICES ASSUME NEW t \in Scanners PROVE
        (IF T[t].pc = "none" THEN T[t]
         ELSE [T[t] EXCEPT !.missed = @ \union F, !.moved = @ \union M]) \in Transaction
    BY DEF Missed
  <2>1. T[t] \in Transaction
    OBVIOUS
  <2> QED BY <2>1 DEF Transaction
<1>2. seen' \in [Findings -> SUBSET {"there", "gone"}]
  BY DEF Witness, Shape, In
<1>3. \A f \in Findings : In(f, evidence') \in seen'[f]
  BY DEF Witness
<1>4. ASSUME NEW t \in Scanners, NEW f \in Findings, tx'[t].pc # "none", f \notin tx'[t].missed
      PROVE In(f, tx'[t].sees) \in seen'[f] /\ (f \in tx'[t].open <=> finding'[f].state = "open")
  <2>1. T[t].pc # "none" /\ T[t] = tx[t]
    BY <1>4 DEF Missed, Transaction
  <2>2. tx'[t] = [tx[t] EXCEPT !.missed = @ \union F, !.moved = @ \union M]
    BY <2>1 DEF Missed
  <2>3. tx[t] \in Transaction
    BY DEF Shape
  <2>4. tx'[t].sees = tx[t].sees /\ tx'[t].open = tx[t].open /\ f \notin F /\ f \notin tx[t].missed
    BY <1>4, <2>2, <2>3 DEF Transaction
  <2>5. finding'[f].state = finding[f].state /\ seen[f] \subseteq seen'[f]
    BY <2>4 DEF Witness
  <2> QED BY <2>1, <2>4, <2>5 DEF History, Open, Is
<1> QED BY <1>1, <1>2, <1>3, <1>4 DEF History, Open, Is

\* The cases of a verdict (persistFindingBatch, resolveAbsentExhaustiveFindings).
LEMMA VerdictCases ==
    ASSUME Shape, NEW t \in Scanners, NEW f \in Findings
    PROVE  \/ f \in Candidates(t) /\ Is(f, "absent") /\ Verdict(t, f) = [state |-> "open", version |-> 1]
           \/ f \in Candidates(t) /\ Is(f, "resolved") /\ Verdict(t, f) = Reopened(f)
           \/ f \in Absent(t) /\ Verdict(t, f) = [finding[f] EXCEPT !.state = "resolved"]
           \/ /\ ~(f \in Candidates(t) /\ Is(f, "absent")) /\ ~(f \in Candidates(t) /\ Is(f, "resolved"))
              /\ Verdict(t, f) = finding[f]
<1>1. ~(f \in Candidates(t) /\ f \in Absent(t)) /\ ~(Is(f, "absent") /\ Is(f, "resolved"))
  BY DEF Candidates, Absent, Is
<1>2. CASE f \in Candidates(t) /\ Is(f, "absent")
  BY <1>1, <1>2 DEF Verdict
<1>3. CASE f \in Candidates(t) /\ Is(f, "resolved")
  BY <1>1, <1>3 DEF Verdict
<1>4. CASE f \in Absent(t)
  BY <1>1, <1>4 DEF Verdict
<1> QED BY <1>2, <1>3, <1>4 DEF Verdict

\* A step that changes no finding keeps the views.
LEMMA ViewsKeep == ASSUME Views, UNCHANGED <<finding, view, fresh>> PROVE Views'
BY DEF Views, Is

\* Evidence comes and goes (Appear, Vanish).
LEMMA EvidenceStep ==
    ASSUME FindingsInv, NEW f \in Findings, Appear(f) \/ Vanish(f)
    PROVE  FindingsInv'
<1>1. /\ tx' = Missed(tx, {}, {f}) /\ Witness /\ UNCHANGED <<finding, view, fresh>>
      /\ evidence' \in SUBSET (evidence \union {f})
  BY DEF Appear, Vanish
<1>2. History' /\ tx' \in [Scanners -> Transaction] /\ seen' \in [Findings -> SUBSET {"there", "gone"}]
  <2>1. tx \in [Scanners -> Transaction]
    BY DEF FindingsInv, Shape
  <2> QED BY <1>1, <2>1, HistoryKeeps DEF FindingsInv
<1>3. Views'
  BY <1>1, ViewsKeep DEF FindingsInv
<1> QED BY <1>1, <1>2, <1>3 DEF FindingsInv, Shape

\* A scan begins, gets the lock or rolls back; findings and records stay (Begin, Acquire, Rollback).
LEMMA TransactionStep ==
    ASSUME FindingsInv, NEW t \in Scanners,
           (\E scope \in SUBSET Findings : Begin(t, scope)) \/ Acquire(t) \/ Rollback(t)
    PROVE  FindingsInv'
<1> USE DEF FindingsInv
<1>1. UNCHANGED <<evidence, finding, seen, view, fresh>>
  BY DEF Begin, Acquire, Rollback
<1>2. PICK new \in Transaction :
        /\ tx' = [tx EXCEPT ![t] = new]
        /\ \A f \in Findings : new.pc # "none" /\ f \notin new.missed =>
              In(f, new.sees) \in seen[f] /\ (f \in new.open <=> Is(f, "open"))
  <2>1. CASE \E scope \in SUBSET Findings : Begin(t, scope)
    <3> PICK scope \in SUBSET Findings : Begin(t, scope)
      BY <2>1
    <3> DEFINE new == [pc |-> "waiting", scope |-> scope, sees |-> evidence,
                       open |-> {f \in Findings : Is(f, "open")}, missed |-> {}, moved |-> {}]
    <3>1. new \in Transaction
      BY DEF Transaction, Shape
    <3>2. \A f \in Findings : In(f, new.sees) \in seen[f] /\ (f \in new.open <=> Is(f, "open"))
      BY DEF History
    <3>3. tx' = [tx EXCEPT ![t] = new]
      BY DEF Begin
    <3> HIDE DEF new
    <3> QED BY <3>1, <3>2, <3>3
  <2>2. CASE Acquire(t)
    <3> DEFINE new == [tx[t] EXCEPT !.pc = "locked"]
    <3>1. tx[t] \in Transaction
      BY DEF Shape
    <3>2. new \in Transaction /\ new.sees = tx[t].sees /\ new.open = tx[t].open
          /\ new.missed = tx[t].missed
      BY <3>1 DEF Transaction
    <3>3. tx' = [tx EXCEPT ![t] = new] /\ Open(t)
      BY <2>2 DEF Acquire, Open
    <3> HIDE DEF new
    <3> QED BY <3>2, <3>3 DEF History
  <2>3. CASE Rollback(t)
    <3>1. NoTransaction \in Transaction /\ NoTransaction.pc = "none"
      BY DEF NoTransaction, Transaction
    <3> QED BY <2>3, <3>1 DEF Rollback
  <2> QED BY <2>1, <2>2, <2>3
<1>3. Shape'
  BY <1>1, <1>2 DEF Shape
<1>4. History'
  <2>1. \A s \in Scanners : s # t => tx'[s] = tx[s]
    BY <1>2 DEF Shape
  <2>2. tx'[t] = new
    BY <1>2 DEF Shape
  <2> QED BY <1>1, <1>2, <2>1, <2>2 DEF History, Open, Is
<1> QED BY <1>1, <1>3, <1>4, ViewsKeep

\* The owner's decisions (View, IgnoreFinding, RepairFinding).
LEMMA OwnerStep ==
    ASSUME FindingsInv, NEW f \in Findings, View(f) \/ IgnoreFinding(f) \/ RepairFinding(f)
    PROVE  FindingsInv'
<1> USE DEF FindingsInv
<1>t. tx \in [Scanners -> Transaction] /\ finding[f] \in [state : States, version : Nat]
  BY DEF Shape
<1>1. CASE View(f)
  <2>1. UNCHANGED <<evidence, finding, seen, tx>> /\ view' = [view EXCEPT ![f] = finding[f].version]
        /\ fresh' = (IF Is(f, "open") THEN fresh \union {f} ELSE fresh)
    BY <1>1 DEF View
  <2>2. Shape'
    BY <1>t, <2>1 DEF Shape
  <2>3. History'
    BY <2>1 DEF History, Open, Is
  <2>4. Views'
    BY <1>t, <2>1 DEF Views, Is, Shape
  <2> QED BY <2>2, <2>3, <2>4
<1>2. CASE IgnoreFinding(f) \/ RepairFinding(f)
  <2> PICK state \in {"ignored", "resolved"}, M \in SUBSET Findings :
        /\ Decide(f, state) /\ tx' = Missed(tx, {f}, M) /\ Witness
        /\ evidence' \in SUBSET evidence
    <3>1. CASE IgnoreFinding(f)
      BY <3>1 DEF IgnoreFinding
    <3>2. CASE RepairFinding(f)
      BY <3>2 DEF RepairFinding
    <3> QED BY <1>2, <3>1, <3>2
  <2>1. finding' = [finding EXCEPT ![f].state = state] /\ UNCHANGED <<view, fresh>>
    BY DEF Decide
  <2>2. finding' \in [Findings -> [state : States, version : Nat]]
    BY <1>t, <2>1 DEF Shape, States
  <2>3. /\ finding'[f].state = state /\ finding'[f].version = finding[f].version
        /\ \A g \in Findings : g # f => finding'[g] = finding[g]
    BY <1>t, <2>1 DEF Shape
  <2>4. History' /\ tx' \in [Scanners -> Transaction] /\ seen' \in [Findings -> SUBSET {"there", "gone"}]
    BY <1>t, <2>3, HistoryKeeps
  <2>5. Views'
    BY <2>1, <2>3 DEF Views, Is
  <2> QED BY <2>1, <2>2, <2>4, <2>5 DEF Shape
<1> QED BY <1>1, <1>2

\* What a commit may do to a finding: open it on what its snapshot saw, or resolve what its
\* snapshot did not see, in both cases unless others changed it since; or repair it (Commit).
LEMMA CommitCases ==
    ASSUME FindingsInv, NEW t \in Scanners, NEW repaired \in SUBSET Fixable(t), Commit(t, repaired),
           NEW f \in Findings
    PROVE  /\ finding'[f] \in [state : States, version : Nat]
           /\ f \notin Written(t) => finding'[f] = finding[f]
           /\ finding'[f].state = "open" => finding'[f].state = Verdict(t, f).state
           /\ finding'[f].version >= finding[f].version
           /\ finding'[f].state # finding[f].state =>
                /\ finding'[f].state \in {"open", "resolved"}
                /\ finding'[f].state = "open" => "there" \in seen[f] /\ finding'[f].version > view[f]
                /\ finding'[f].state = "resolved" => "gone" \in seen[f] \union {In(f, evidence')}
<1> USE DEF FindingsInv
<1>t. /\ finding[f] \in [state : States, version : Nat] /\ view[f] \in Nat
      /\ view[f] <= finding[f].version /\ tx[t] \in Transaction
      /\ Is(f, "absent") => finding[f].version = 0
  BY DEF Shape, Views
<1>1. finding'[f] = (IF f \in repaired THEN [Verdict(t, f) EXCEPT !.state = "resolved"] ELSE Verdict(t, f))
  BY DEF Commit
<1>2. repaired \subseteq Candidates(t) /\ evidence' = evidence \ repaired /\ Open(t)
      /\ (f \in repaired => Verdict(t, f).state = "open")
  BY DEF Commit, Fixable, Open
<1>3. f \in Written(t) => In(f, tx[t].sees) \in seen[f] /\ (f \in tx[t].open <=> Is(f, "open"))
  BY <1>2 DEF Commit, Conflict, History
<1>4. f \in repaired => In(f, evidence') = "gone"
  BY <1>2 DEF In
<1>5. f \in Candidates(t) => "there" \in seen[f]
  BY <1>3 DEF Candidates, Written, In
<1>6. f \in Absent(t) => "gone" \in seen[f] /\ Is(f, "open")
  BY <1>3 DEF Absent, Written, In
<1>7. CASE f \in Candidates(t) /\ Is(f, "absent") /\ Verdict(t, f) = [state |-> "open", version |-> 1]
  BY <1>t, <1>1, <1>4, <1>5, <1>7 DEF Is, Written, States
<1>8. CASE f \in Candidates(t) /\ Is(f, "resolved") /\ Verdict(t, f) = Reopened(f)
  BY <1>t, <1>1, <1>4, <1>5, <1>8 DEF Is, Written, States, Reopened
<1>9. CASE f \in Absent(t) /\ Verdict(t, f) = [finding[f] EXCEPT !.state = "resolved"]
  <2>1. f \notin repaired
    BY <1>t, <1>2, <1>9
  <2> QED BY <1>t, <1>1, <1>6, <1>9, <2>1 DEF Is, Written, States
<1>10. CASE Verdict(t, f) = finding[f]
  BY <1>t, <1>1, <1>2, <1>4, <1>10 DEF Written, States
<1> QED BY <1>7, <1>8, <1>9, <1>10, VerdictCases

LEMMA CommitStep ==
    ASSUME FindingsInv, NEW t \in Scanners, NEW repaired \in SUBSET Fixable(t), Commit(t, repaired)
    PROVE  FindingsInv'
<1> USE DEF FindingsInv
<1>1. /\ finding' \in [Findings -> [state : States, version : Nat]] /\ evidence' \subseteq Findings
      /\ view' = view
  <2>1. \A f \in Findings : finding'[f] \in [state : States, version : Nat]
    BY CommitCases
  <2> QED BY <2>1 DEF Commit, Shape
<1>2. History' /\ tx' \in [Scanners -> Transaction] /\ seen' \in [Findings -> SUBSET {"there", "gone"}]
  <2> DEFINE T == [tx EXCEPT ![t] = NoTransaction]
             F == Written(t)
             M == repaired
  <2>1. NoTransaction \in Transaction /\ NoTransaction.pc = "none"
    BY DEF NoTransaction, Transaction
  <2>2. T \in [Scanners -> Transaction] /\ \A s \in Scanners : T[s] = tx[s] \/ T[s].pc = "none"
    BY <2>1 DEF Shape
  <2>3. F \in SUBSET Findings /\ M \in SUBSET Findings
    <3>1. tx[t] \in Transaction
      BY DEF Shape
    <3> QED BY <3>1 DEF Written, Candidates, Absent, Fixable, Transaction
  <2>4. tx' = Missed(T, F, M) /\ Witness
    BY DEF Commit
  <2>5. \A f \in Findings : finding'[f].state # finding[f].state => f \in F
    BY CommitCases
  <2> HIDE DEF T, F, M
  <2> QED BY <2>2, <2>3, <2>4, <2>5, HistoryKeeps
<1>3. Views'
  <2> SUFFICES ASSUME NEW f \in Findings
               PROVE  /\ view[f] <= finding'[f].version
                      /\ finding'[f].state = "absent" => finding'[f].version = 0
                      /\ finding'[f].state = "open" /\ view[f] = finding'[f].version => f \in fresh'
    BY <1>1 DEF Views, Is
  <2>1. /\ finding[f].version \in Nat /\ view[f] \in Nat /\ view[f] <= finding[f].version
        /\ finding'[f].version \in Nat
        /\ finding[f].state = "absent" => finding[f].version = 0
        /\ finding[f].state = "open" /\ view[f] = finding[f].version => f \in fresh
    BY <1>1 DEF Shape, Views, Is
  <2>2. fresh' = fresh \ {g \in Findings : ~Is(g, "open") /\ Verdict(t, g).state = "open"}
    BY DEF Commit
  <2>3. CASE finding'[f].state # finding[f].state
    <3>1. finding'[f].version >= finding[f].version /\ finding'[f].state \in {"open", "resolved"}
          /\ (finding'[f].state = "open" => finding'[f].version > view[f])
      BY <2>3, CommitCases
    <3> QED BY <2>1, <3>1
  <2>4. CASE finding'[f].state = finding[f].state
    <3>1. finding'[f] = finding[f] \/ f \in Written(t)
      BY CommitCases
    <3>2. finding'[f].state \in {"open", "absent"} => finding'[f].version = finding[f].version
      <4>1. finding[f] \in [state : States, version : Nat]
        BY DEF Shape
      <4> QED BY <2>4, <4>1, VerdictCases DEF Commit, Is, Reopened
    <3>3. finding'[f].state = "open" /\ f \in fresh => f \in fresh'
      BY <2>2, <2>4 DEF Is
    <3>4. finding'[f].version >= finding[f].version
      BY CommitCases
    <3> QED BY <2>1, <2>4, <3>2, <3>3, <3>4
  <2> QED BY <2>3, <2>4
<1> QED BY <1>1, <1>2, <1>3 DEF Shape

LEMMA FindingsStep == FindingsInv /\ [FindingsNext]_findingsVars => FindingsInv'
<1> SUFFICES ASSUME FindingsInv, [FindingsNext]_findingsVars PROVE FindingsInv'
  OBVIOUS
<1>1. CASE UNCHANGED findingsVars
  BY <1>1 DEF findingsVars, FindingsInv, Shape, History, Views, Open, Is
<1> QED
  BY <1>1, EvidenceStep, OwnerStep, TransactionStep, CommitStep DEF FindingsNext

LEMMA FindingsInvariant == FindingsSpec => []FindingsInv
<1>1. FindingsInit => FindingsInv
  BY FindingsInvInit
<1>2. FindingsInv /\ [FindingsNext]_findingsVars => FindingsInv'
  BY FindingsStep
<1> QED BY <1>1, <1>2, PTL DEF FindingsSpec

-----------------------------------------------------------------------------
\* Only a commit opens a finding, on evidence its snapshot saw; only a commit whose snapshot saw
\* none, or a repair, resolves it (persistFindingBatch, resolveAbsentExhaustiveFindings).
LEMMA StepIsFounded ==
    ASSUME FindingsInv, [FindingsNext]_findingsVars, NEW f \in Findings,
           finding'[f].state # finding[f].state
    PROVE  /\ finding'[f].state = "open" => "there" \in seen[f]
           /\ finding'[f].state = "resolved" => "gone" \in seen[f] \union {In(f, evidence')}
           /\ finding'[f].state = "ignored" => f \in fresh
<1>0. finding' # finding
  OBVIOUS
<1>1. CASE \E t \in Scanners : \E repaired \in SUBSET Fixable(t) : Commit(t, repaired)
  <2> PICK t \in Scanners : \E repaired \in SUBSET Fixable(t) : Commit(t, repaired)
    BY <1>1
  <2> PICK repaired \in SUBSET Fixable(t) : Commit(t, repaired)
    OBVIOUS
  <2> QED BY CommitCases
<1>2. CASE \E g \in Findings : IgnoreFinding(g) \/ RepairFinding(g)
  <2> PICK g \in Findings : IgnoreFinding(g) \/ RepairFinding(g)
    BY <1>2
  <2>1. g = f /\ Is(f, "open") /\ view[f] = finding[f].version
    BY DEF IgnoreFinding, RepairFinding, Decide, Expected, FindingsInv, Shape
  <2>2. f \in fresh
    BY <2>1 DEF FindingsInv, Views
  <2>3. CASE IgnoreFinding(g)
    BY <2>1, <2>2, <2>3 DEF IgnoreFinding, Decide, FindingsInv, Shape
  <2>4. CASE RepairFinding(g)
    BY <2>1, <2>4 DEF RepairFinding, Decide, In, FindingsInv, Shape
  <2> QED BY <2>3, <2>4
<1> QED
  BY <1>0, <1>1, <1>2 DEF FindingsNext, Appear, Vanish, View, Begin, Acquire, Rollback, findingsVars

\* Verdicts are founded for any findings, scopes and concurrent transactions: a scan that waited
\* for the lock with an old snapshot cannot undo a decision made meanwhile.
THEOREM FoundedVerdicts == FindingsSpec => VerdictsAreFounded
<1>1. FindingsInv /\ [FindingsNext]_findingsVars =>
        [\A f \in Findings : finding'[f].state # finding[f].state =>
            /\ finding'[f].state = "open" => "there" \in seen[f]
            /\ finding'[f].state = "resolved" => "gone" \in seen[f] \union {In(f, evidence')}]_findingsVars
  BY StepIsFounded
<1> QED BY <1>1, FindingsInvariant, PTL DEF VerdictsAreFounded, FindingsSpec

\* Who ignores a finding has read it in its present episode (ignoreFinding).
THEOREM IgnoredOnlyAsSeen == FindingsSpec => IgnoredAsSeen
<1>1. FindingsInv /\ [FindingsNext]_findingsVars =>
        [\A f \in Findings : finding'[f].state = "ignored" /\ finding[f].state # "ignored"
            => f \in fresh]_findingsVars
  BY StepIsFounded
<1> QED BY <1>1, FindingsInvariant, PTL DEF IgnoredAsSeen, FindingsSpec

-----------------------------------------------------------------------------
(* The schedule, and the composition of the two.                           *)

Busy == {"claimed", "scanning", "failed", "interrupted"}

\* A process at work has a token, and at most one scan holds the schedule row.
HasToken == \A w \in Workers : runner[w].pc \in Busy => runner[w].run \in ScanRuns
OneScan == \A v, w \in Workers : runner[v].pc = "scanning" /\ runner[w].pc = "scanning" => v = w

ScheduleInv == ScheduleTypeOK /\ HasToken /\ OneScan /\ ScanOwnsItsClaim /\ RunningIsClaimed

-----------------------------------------------------------------------------
\* The row is free of claims before the first run.
LEMMA ScheduleInvInit == ScheduleInit => ScheduleInv
<1> SUFFICES ASSUME ScheduleInit PROVE ScheduleInv
  OBVIOUS
<1>1. Fresh \in Runner /\ Fresh.pc = "idle"
  BY DEF Fresh, Runner, RunnerPCs
<1>2. \A w \in Workers : runner[w].pc = "idle"
  BY <1>1 DEF ScheduleInit
<1>3. ScheduleTypeOK
  <2>1. runner \in [Workers -> Runner]
    BY <1>1 DEF ScheduleInit
  <2>2. status \in [ScanRuns -> Outcomes \union {"none", "running"}]
    BY DEF ScheduleInit
  <2>3. faults \in 0 .. MaxFaults
    BY ScanAssumption DEF ScheduleInit
  <2> QED BY <2>1, <2>2, <2>3 DEF ScheduleInit, ScheduleTypeOK
<1>4. RunningIsClaimed
  BY ScanAssumption DEF ScheduleInit, RunningIsClaimed
<1> QED BY <1>2, <1>3, <1>4 DEF ScheduleInv, HasToken, OneScan, ScanOwnsItsClaim, Busy

\* Ending a run frees the row of it: whoever scans is the one who ends (EndRun).
LEMMA EndRunKeeps ==
    ASSUME ScheduleInv, NEW w \in Workers, NEW outcome \in Outcomes, EndRun(w, outcome),
           UNCHANGED faults, runner[w].pc \in Busy, claimed = runner[w].run,
           runner[w].pc = "scanning" \/ RowFree
    PROVE  ScheduleInv'
<1> USE DEF ScheduleInv
<1>1. runner[w] \in Runner /\ runner[w].run \in ScanRuns
  BY DEF ScheduleTypeOK, HasToken
<1>2. Onward(w) \in Runner /\ Onward(w).pc \in {"idle", "down"} /\ Onward(w).run = NoScan
  BY DEF Onward, Fresh, Down, Runner, RunnerPCs
<1>3. \A v \in Workers : v # w => runner'[v] = runner[v] /\ runner[v].pc # "scanning"
  BY DEF EndRun, OneScan, RowFree, ScheduleTypeOK
<1>4. runner'[w] = Onward(w)
  BY DEF EndRun, ScheduleTypeOK
<1>5. ScheduleTypeOK'
  BY <1>1, <1>2 DEF EndRun, ScheduleTypeOK
<1>6. HasToken' /\ OneScan' /\ ScanOwnsItsClaim'
  BY <1>2, <1>3, <1>4 DEF HasToken, OneScan, ScanOwnsItsClaim, Busy
<1>7. RunningIsClaimed'
  BY <1>1, ScanAssumption DEF EndRun, RunningIsClaimed, ScheduleTypeOK, Outcomes
<1> QED BY <1>5, <1>6, <1>7

\* A step that leaves claims and runs alone, and starts no scan that does not own the claim.
LEMMA RunnerKeeps ==
    ASSUME ScheduleInv, NEW w \in Workers, NEW next \in Runner,
           runner' = [runner EXCEPT ![w] = next], claimed' = claimed, status' = status,
           due' \in BOOLEAN, expired' \in BOOLEAN, faults' \in 0 .. MaxFaults,
           next.pc \in Busy => next.run \in ScanRuns,
           next.pc = "scanning" => (runner[w].pc = "scanning" \/ RowFree) /\ next.run = claimed
    PROVE  ScheduleInv'
<1> USE DEF ScheduleInv
<1>1. runner'[w] = next /\ \A v \in Workers : v # w => runner'[v] = runner[v]
  BY DEF ScheduleTypeOK
<1>2. ScheduleTypeOK'
  BY DEF ScheduleTypeOK
<1>3. HasToken'
  BY <1>1 DEF HasToken
<1>4. OneScan'
  BY <1>1 DEF OneScan, RowFree
<1>5. ScanOwnsItsClaim'
  BY <1>1 DEF ScanOwnsItsClaim
<1>6. RunningIsClaimed'
  BY DEF RunningIsClaimed
<1> QED BY <1>2, <1>3, <1>4, <1>5, <1>6

\* A fault counts up to its bound (Fault).
LEMMA FaultBound == ASSUME faults \in 0 .. MaxFaults, Fault PROVE faults' \in 0 .. MaxFaults
BY ScanAssumption DEF Fault

\* A claim ends the run it takes over and starts its own (claimDue).
LEMMA ClaimKeeps ==
    ASSUME ScheduleInv, NEW w \in Workers, NEW r \in ScanRuns, ClaimDue(w, r)
    PROVE  ScheduleInv'
<1> USE DEF ScheduleInv
<1>1. \A v \in Workers : runner'[v].pc # "scanning"
  BY DEF ClaimDue, Claimable, RowFree, ScheduleTypeOK
<1>2. ScheduleTypeOK'
  BY ZenonT(60) DEF ClaimDue, Claim, ScheduleTypeOK, Outcomes, Runner, RunnerPCs
<1>3. HasToken'
  BY DEF ClaimDue, HasToken, ScheduleTypeOK, Runner
<1>4. RunningIsClaimed'
  BY ScanAssumption DEF ClaimDue, Claim, Unused, RunningIsClaimed, ScheduleTypeOK
<1> QED BY <1>1, <1>2, <1>3, <1>4 DEF OneScan, ScanOwnsItsClaim

\* Each step of the schedule keeps the invariant: claims and endings as above, the others move
\* one process, or time (ScheduleNext).
LEMMA ScheduleStep == ScheduleInv /\ [ScheduleNext]_scheduleVars => ScheduleInv'
<1> SUFFICES ASSUME ScheduleInv, [ScheduleNext]_scheduleVars PROVE ScheduleInv'
  OBVIOUS
<1> USE DEF ScheduleInv
<1>t. /\ ScheduleTypeOK /\ due \in BOOLEAN /\ expired \in BOOLEAN /\ faults \in 0 .. MaxFaults
      /\ \A w \in Workers : runner[w] \in Runner
  BY DEF ScheduleTypeOK
<1>f. Down \in Runner /\ Down.pc = "down" /\ Fresh \in Runner /\ Fresh.pc = "idle"
  BY DEF Down, Fresh, Runner, RunnerPCs
<1>1. ASSUME NEW w \in Workers, NEW r \in ScanRuns, ClaimDue(w, r) PROVE ScheduleInv'
  BY <1>1, ClaimKeeps
<1>2. ASSUME NEW w \in Workers, BeginScan(w) PROVE ScheduleInv'
  <2> DEFINE next == [runner[w] EXCEPT !.pc = "scanning"]
  <2>1. next \in Runner /\ next.pc = "scanning" /\ next.run = claimed /\ next.run \in ScanRuns
    BY <1>2, <1>t DEF BeginScan, LeaseHeld, HasToken, Busy, Runner, RunnerPCs
  <2>2. runner' = [runner EXCEPT ![w] = next]
    BY <1>2 DEF BeginScan, Goto
  <2> HIDE DEF next
  <2> QED BY <1>2, <1>t, <2>1, <2>2, RunnerKeeps DEF BeginScan
<1>3. ASSUME NEW w \in Workers,
             RefuseScan(w) \/ SkipScan(w) \/ FailScan(w) \/ InterruptScan(w) PROVE ScheduleInv'
  <2> PICK pc \in {"failed", "interrupted"} : Goto(w, pc)
    BY <1>3 DEF RefuseScan, SkipScan, FailScan, InterruptScan, Failure
  <2> DEFINE next == [runner[w] EXCEPT !.pc = pc]
  <2>1. next \in Runner /\ next.pc # "scanning" /\ next.run \in ScanRuns
    BY <1>3, <1>t DEF RefuseScan, SkipScan, FailScan, InterruptScan, HasToken, Busy, Runner, RunnerPCs
  <2>2. runner' = [runner EXCEPT ![w] = next]
    BY DEF Goto
  <2>3. UNCHANGED <<due, claimed, expired, status, faults>>
    BY <1>3 DEF RefuseScan, SkipScan, FailScan, InterruptScan
  <2> HIDE DEF next
  <2> QED BY <1>t, <2>1, <2>2, <2>3, RunnerKeeps
<1>4. ASSUME NEW w \in Workers, CommitScan(w) PROVE ScheduleInv'
  <2>1. claimed = runner[w].run /\ runner[w].pc = "scanning"
    BY <1>4 DEF CommitScan, ScanOwnsItsClaim
  <2> QED BY <1>4, <2>1, EndRunKeeps DEF CommitScan, Outcomes, Busy
<1>5. ASSUME NEW w \in Workers, Release(w) PROVE ScheduleInv'
  <2>1. CASE LeaseHeld(w)
    BY <1>5, <2>1, EndRunKeeps DEF Release, LeaseHeld, Outcomes, Busy
  <2>2. CASE ~LeaseHeld(w)
    <3>1. runner' = [runner EXCEPT ![w] = Down] /\ UNCHANGED <<due, claimed, expired, status, faults>>
      BY <1>5, <2>2 DEF Release
    <3> QED BY <1>t, <1>f, <3>1, RunnerKeeps DEF Busy
  <2> QED BY <2>1, <2>2
<1>6. ASSUME NEW w \in Workers, FailRenewal(w) PROVE ScheduleInv'
  <2> DEFINE next == [runner[w] EXCEPT !.aborted = TRUE]
  <2>1. next \in Runner /\ next.pc = runner[w].pc /\ next.run = runner[w].run
    BY <1>t DEF Runner
  <2>2. runner' = [runner EXCEPT ![w] = next] /\ faults' \in 0 .. MaxFaults
    BY <1>6, <1>t, FaultBound DEF FailRenewal
  <2>3. (next.pc \in Busy => next.run \in ScanRuns) /\ (next.pc = "scanning" => next.run = claimed)
    BY <2>1 DEF HasToken, ScanOwnsItsClaim
  <2> HIDE DEF next
  <2> QED BY <1>6, <1>t, <2>1, <2>2, <2>3, RunnerKeeps DEF FailRenewal
<1>7. ASSUME NEW w \in Workers, Stop(w) PROVE ScheduleInv'
  <2> DEFINE next == IF runner[w].pc = "idle" THEN Down ELSE [runner[w] EXCEPT !.stopping = TRUE]
  <2>1. next \in Runner /\ (next.pc = "down" \/ (next.pc = runner[w].pc /\ next.run = runner[w].run))
    BY <1>t, <1>f DEF Runner
  <2>2. runner' = [runner EXCEPT ![w] = next] /\ faults' \in 0 .. MaxFaults
    BY <1>7, <1>t, FaultBound DEF Stop
  <2>3. (next.pc \in Busy => next.run \in ScanRuns) /\ (next.pc = "scanning" => next.run = claimed)
    BY <2>1 DEF HasToken, ScanOwnsItsClaim, Busy
  <2>4. next.pc = "scanning" => runner[w].pc = "scanning"
    BY <2>1
  <2> HIDE DEF next
  <2> QED BY <1>7, <1>t, <2>1, <2>2, <2>3, <2>4, RunnerKeeps DEF Stop
<1>8. ASSUME NEW w \in Workers, Crash(w) PROVE ScheduleInv'
  <2>1. faults' \in 0 .. MaxFaults
    BY <1>8, <1>t, FaultBound DEF Crash
  <2> QED BY <1>8, <1>t, <1>f, <2>1, RunnerKeeps DEF Crash, Busy
<1>9. ASSUME NEW w \in Workers, Restart(w) PROVE ScheduleInv'
  BY <1>9, <1>t, <1>f, RunnerKeeps DEF Restart, Busy
<1>10. ASSUME LeaseExpires \/ ComesDue \/ UNCHANGED scheduleVars PROVE ScheduleInv'
  <2>1. due' \in BOOLEAN /\ expired' \in BOOLEAN /\ UNCHANGED <<claimed, status, runner>>
    BY <1>10, <1>t DEF LeaseExpires, ComesDue, scheduleVars
  <2>2. faults' \in 0 .. MaxFaults
    BY <1>10, <1>t, FaultBound DEF LeaseExpires, ComesDue, scheduleVars
  <2> QED BY <2>1, <2>2 DEF ScheduleTypeOK, HasToken, OneScan, ScanOwnsItsClaim, RunningIsClaimed
<1> QED
  BY <1>1, <1>2, <1>3, <1>4, <1>5, <1>6, <1>7, <1>8, <1>9, <1>10 DEF ScheduleNext, RunnerStep

-----------------------------------------------------------------------------
\* The schedule alone keeps its invariant.
LEMMA ScheduleInvariant == ScheduleSpec => []ScheduleInv
<1>1. ScheduleInit => ScheduleInv
  BY ScheduleInvInit
<1>2. ScheduleInv /\ [ScheduleNext]_scheduleVars => ScheduleInv'
  BY ScheduleStep
<1> QED BY <1>1, <1>2, PTL DEF ScheduleSpec

\* A step of the whole reconciliation is a step of the schedule or leaves it alone: scans,
\* requests and decisions reach the schedule row only through the runner's own steps.
LEMMA StepImplementsSchedule == [Next]_vars => [ScheduleNext]_scheduleVars
<1> SUFFICES ASSUME Next PROVE [ScheduleNext]_scheduleVars
  BY DEF vars, scheduleVars
<1>1. ASSUME NEW w \in Workers,
             \/ Alone(RunnerStep(w)) \/ BeginScheduled(w) \/ CommitScheduled(w)
             \/ ConflictScheduled(w) \/ InterruptScheduled(w) \/ CrashProcess(w)
      PROVE ScheduleNext
  BY <1>1 DEF Alone, BeginScheduled, CommitScheduled, ConflictScheduled, InterruptScheduled,
     CrashProcess, ScheduleNext
<1>2. ASSUME Alone(LeaseExpires) \/ Alone(ComesDue) PROVE ScheduleNext
  BY <1>2 DEF Alone, ScheduleNext
<1>3. ASSUME NEW t \in Scanners, AcquireLock(t) PROVE UNCHANGED scheduleVars
  BY <1>3 DEF AcquireLock
<1>4. ASSUME NEW o \in Operators,
             \/ \E scope \in Scopes : Request(o, scope)
             \/ PersistScan(o) \/ Apply(o) \/ RequestFails(o)
      PROVE UNCHANGED scheduleVars
  BY <1>4 DEF Request, PersistScan, Apply, RequestFails
<1>5. ASSUME NEW f \in Findings, Decisions(f) \/ Evidence(f) PROVE UNCHANGED scheduleVars
  BY <1>5 DEF Decisions, Evidence
<1> QED BY <1>1, <1>2, <1>3, <1>4, <1>5 DEF Next

\* The reconciliation implements its schedule: whatever scans, batch applies and owners do to
\* the findings, the runners claim, scan, release and take over as ScanSchedule has it.
THEOREM ImplementsSchedule == Spec => ScheduleSpec
<1>1. Init => ScheduleInit
  BY DEF Init
<1>2. [Next]_vars => [ScheduleNext]_scheduleVars
  BY StepImplementsSchedule
<1> QED BY <1>1, <1>2, PTL DEF Spec, ScheduleSpec

\* A run is running exactly when the schedule row claims it, for any number of processes,
\* takeovers and faults (claimDue, scanClaimedRun, finishAndRelease).
THEOREM RunningRunsAreClaimed == Spec => []RunningIsClaimed
<1>1. ScheduleInv => RunningIsClaimed
  BY DEF ScheduleInv
<1> QED BY <1>1, ImplementsSchedule, ScheduleInvariant, PTL

\* A scan in progress owns the claim until it ends, even past its lease (scanClaimedRun).
THEOREM ScansOwnTheirClaims == Spec => []ScanOwnsItsClaim
<1>1. ScheduleInv => ScanOwnsItsClaim
  BY DEF ScheduleInv
<1> QED BY <1>1, ImplementsSchedule, ScheduleInvariant, PTL

-----------------------------------------------------------------------------
\* A step of the whole is a step of the findings or leaves them alone.
LEMMA StepImplementsFindings == [Next]_vars => [FindingsNext]_findingsVars
<1> SUFFICES ASSUME Next PROVE [FindingsNext]_findingsVars
  BY DEF vars, findingsVars
<1>1. ASSUME NEW w \in Workers, Alone(RunnerStep(w)) \/ Alone(LeaseExpires) \/ Alone(ComesDue)
      PROVE UNCHANGED findingsVars
  BY <1>1 DEF Alone
<1>2. ASSUME NEW w \in Workers, BeginScheduled(w) \/ CommitScheduled(w) \/ ConflictScheduled(w)
                                \/ InterruptScheduled(w) \/ CrashProcess(w)
      PROVE [FindingsNext]_findingsVars
  <2>1. w \in Scanners /\ Findings \in SUBSET Findings /\ {} \in SUBSET Fixable(w)
    BY ReconciliationAssumption
  <2>2. \/ \E scope \in SUBSET Findings : Begin(w, scope)
        \/ \E repaired \in SUBSET Fixable(w) : Commit(w, repaired)
        \/ Rollback(w) \/ UNCHANGED findingsVars
    BY <1>2, <2>1 DEF BeginScheduled, CommitScheduled, ConflictScheduled, InterruptScheduled, CrashProcess
  <2> QED BY <2>1, <2>2 DEF FindingsNext
<1>3. ASSUME NEW t \in Scanners, AcquireLock(t) PROVE FindingsNext
  BY <1>3 DEF AcquireLock, FindingsNext
<1>4. ASSUME NEW o \in Operators,
             \/ \E scope \in Scopes : Request(o, scope)
             \/ PersistScan(o) \/ Apply(o) \/ RequestFails(o)
      PROVE FindingsNext
  <2>1. o \in Scanners /\ Scopes \subseteq SUBSET Findings /\ {} \in SUBSET Fixable(o)
    BY ReconciliationAssumption
  <2>2. \/ \E scope \in SUBSET Findings : Begin(o, scope)
        \/ \E repaired \in SUBSET Fixable(o) : Commit(o, repaired)
        \/ Rollback(o)
    BY <1>4, <2>1 DEF Request, PersistScan, Apply, RequestFails
  <2> QED BY <2>1, <2>2 DEF FindingsNext
<1>5. ASSUME NEW f \in Findings, Decisions(f) \/ Evidence(f) PROVE FindingsNext
  BY <1>5 DEF Decisions, Evidence, FindingsNext
<1>6. ASSUME Alone(LeaseExpires) \/ Alone(ComesDue) PROVE UNCHANGED findingsVars
  BY <1>6 DEF Alone
<1> QED BY <1>1, <1>2, <1>3, <1>4, <1>5, <1>6 DEF Next

\* The reconciliation implements the decisions about findings: the scheduled scans are scan
\* transactions like those of requests, whatever becomes of their process and lease.
THEOREM ImplementsFindings == Spec => FindingsSpec
<1>1. Init => FindingsInit
  BY DEF Init
<1>2. [Next]_vars => [FindingsNext]_findingsVars
  BY StepImplementsFindings
<1> QED BY <1>1, <1>2, PTL DEF Spec, FindingsSpec

\* No verdict of any scan or apply undoes a decision on outdated evidence (persistFindingBatch,
\* resolveAbsentExhaustiveFindings).
THEOREM VerdictsFounded == Spec => VerdictsAreFounded
BY ImplementsFindings, FoundedVerdicts

\* Nobody ignores an episode that was not read (ignoreFinding).
THEOREM IgnoredSeen == Spec => IgnoredAsSeen
BY ImplementsFindings, IgnoredOnlyAsSeen
-----------------------------------------------------------------------------
(* Types of the whole.  That evidence versions keep to MaxVersion is not   *)
(* the guard of one action: evidence appears only below the bound, and a   *)
(* scan that reopens a finding a long time after its snapshot still has    *)
(* room for it.                                                            *)

Returns(f) == Is(f, "absent") \/ Is(f, "resolved")
Below(f) == finding[f].version < MaxVersion

\* A finding that may be opened has a version left, both for the evidence there is now and for
\* the evidence in a snapshot; so has one whose evidence came after a snapshot.
Room(f) ==
    /\ finding[f].version <= MaxVersion
    /\ f \in evidence /\ Returns(f) => Below(f)
    /\ \A t \in Scanners :
          /\ Open(t) /\ f \notin tx[t].missed
          /\ (f \in tx[t].sees /\ Returns(f)) \/ f \in evidence \ tx[t].sees
          => Below(f)

FindingsTypes == FindingsInv /\ fresh \subseteq Findings /\ lock \in Scanners \union {NoScanner}
                 /\ \A f \in Findings : Room(f)

\* A finding nobody writes keeps its room, unless a scan begins.
LEMMA RoomStays ==
    ASSUME NEW f \in Findings, Room(f), finding'[f] = finding[f],
           f \in evidence' => f \in evidence \/ Below(f),
           \A t \in Scanners : tx'[t].pc # "none" =>
              Open(t) /\ tx'[t].sees = tx[t].sees /\ tx[t].missed \subseteq tx'[t].missed
    PROVE  Room(f)'
<1>1. Below(f)' = Below(f) /\ Returns(f)' = Returns(f)
  BY DEF Below, Returns, Is
<1> QED BY <1>1 DEF Room, Open

\* What Missed leaves of a transaction.
LEMMA MissedFields ==
    ASSUME NEW T \in [Scanners -> Transaction], NEW F \in SUBSET Findings, NEW M \in SUBSET Findings,
           NEW t \in Scanners, Missed(T, F, M)[t].pc # "none"
    PROVE  /\ T[t].pc # "none" /\ Missed(T, F, M)[t].sees = T[t].sees
           /\ Missed(T, F, M)[t].missed = T[t].missed \union F
<1>1. T[t] \in Transaction
  OBVIOUS
<1>2. T[t].pc # "none" /\ Missed(T, F, M)[t] = [T[t] EXCEPT !.missed = @ \union F, !.moved = @ \union M]
  BY DEF Missed
<1> QED BY <1>1, <1>2 DEF Transaction

\* A commit opens what its snapshot leaves room for, and resolves what may come again.
LEMMA CommitLeavesRoom ==
    ASSUME FindingsTypes, NEW t \in Scanners, NEW repaired \in SUBSET Fixable(t), Commit(t, repaired),
           NEW f \in Findings
    PROVE  Room(f)'
<1> DEFINE T == [tx EXCEPT ![t] = NoTransaction]
<1>t. /\ finding[f] \in [state : States, version : Nat] /\ finding \in [Findings -> [state : States, version : Nat]]
      /\ tx \in [Scanners -> Transaction] /\ Room(f) /\ Open(t) /\ MaxVersion \in Nat \ {0}
  BY FindingAssumption DEF FindingsTypes, FindingsInv, Shape, Commit, Open
<1>1. /\ NoTransaction \in Transaction /\ NoTransaction.pc = "none" /\ T \in [Scanners -> Transaction]
      /\ \A s \in Scanners : T[s].pc # "none" => T[s] = tx[s]
  BY <1>t DEF NoTransaction, Transaction
<1>2. Written(t) \in SUBSET Findings /\ repaired \in SUBSET Findings /\ repaired \subseteq Written(t)
  <2>1. tx[t] \in Transaction
    BY <1>t
  <2> QED BY <2>1 DEF Written, Candidates, Absent, Fixable, Transaction
<1>3. \A s \in Scanners : tx'[s].pc # "none" =>
        tx[s].pc # "none" /\ tx'[s].sees = tx[s].sees /\ tx'[s].missed = tx[s].missed \union Written(t)
  <2>1. tx' = Missed(T, Written(t), repaired)
    BY DEF Commit
  <2> HIDE DEF T
  <2>2. \A s \in Scanners : tx'[s].pc # "none" =>
          T[s].pc # "none" /\ tx'[s].sees = T[s].sees /\ tx'[s].missed = T[s].missed \union Written(t)
    BY <1>1, <1>2, <2>1, MissedFields
  <2> QED BY <1>1, <2>2
<1>4. evidence' = evidence \ repaired
      /\ finding'[f] = IF f \in repaired THEN [Verdict(t, f) EXCEPT !.state = "resolved"] ELSE Verdict(t, f)
  BY DEF Commit
<1> HIDE DEF T
<1>5. CASE f \notin Written(t)
  <2>1. finding'[f] = finding[f]
    BY <1>2, <1>4, <1>5 DEF Verdict, Written
  <2> QED BY <1>3, <1>4, <1>t, <2>1, RoomStays DEF Open
<1>6. CASE f \in Written(t)
  <2>1. f \notin tx[t].missed
    BY <1>6 DEF Commit, Conflict
  <2>2. /\ finding'[f].version <= MaxVersion
        /\ f \notin repaired /\ finding'[f].state \in {"absent", "resolved"} =>
              f \notin evidence \/ finding'[f].version < MaxVersion
    <3>1. CASE f \in Candidates(t) /\ Is(f, "absent") /\ Verdict(t, f) = [state |-> "open", version |-> 1]
      BY <1>t, <1>4, <3>1
    <3>2. CASE f \in Candidates(t) /\ Is(f, "resolved") /\ Verdict(t, f) = Reopened(f)
      <4>1. finding[f].version < MaxVersion
        BY <1>t, <2>1, <3>2 DEF Room, Candidates, Returns, Below
      <4>2. finding'[f].version = finding[f].version + 1 /\ (f \notin repaired => finding'[f].state = "open")
        BY <1>4, <3>2 DEF Reopened
      <4> QED BY <1>t, <4>1, <4>2
    <3>3. CASE f \in Absent(t) /\ Verdict(t, f) = [finding[f] EXCEPT !.state = "resolved"]
      <4>1. f \notin evidence \/ finding[f].version < MaxVersion
        BY <1>t, <2>1, <3>3 DEF Room, Absent, Below
      <4>2. finding'[f].version = finding[f].version
        BY <1>4, <1>t, <3>3
      <4> QED BY <1>t, <4>1, <4>2 DEF Room
    <3>4. CASE Verdict(t, f) = finding[f]
      <4>1. finding'[f].version = finding[f].version /\ (f \notin repaired => finding'[f] = finding[f])
        BY <1>4, <1>t, <3>4
      <4> QED BY <1>t, <4>1 DEF Room, Returns, Below, Is
    <3> QED BY <3>1, <3>2, <3>3, <3>4, VerdictCases DEF FindingsTypes, FindingsInv
  <2>3. \A s \in Scanners : tx'[s].pc # "none" => f \in tx'[s].missed
    BY <1>3, <1>6
  <2> QED BY <1>4, <2>2, <2>3 DEF Room, Returns, Below, Is, Open
<1> QED BY <1>5, <1>6

\* Nothing else raises a version.
LEMMA OthersLeaveRoom ==
    ASSUME FindingsTypes, NEW f \in Findings,
           \/ \E g \in Findings : Appear(g) \/ Vanish(g) \/ View(g) \/ IgnoreFinding(g) \/ RepairFinding(g)
           \/ \E t \in Scanners : \/ \E scope \in SUBSET Findings : Begin(t, scope)
                                  \/ Acquire(t) \/ Rollback(t)
    PROVE  Room(f)'
<1>t. /\ finding \in [Findings -> [state : States, version : Nat]] /\ finding[f] \in [state : States, version : Nat]
      /\ tx \in [Scanners -> Transaction] /\ Room(f) /\ \A t \in Scanners : tx[t] \in Transaction
  BY DEF FindingsTypes, FindingsInv, Shape
<1>1. ASSUME NEW g \in Findings, Appear(g) \/ Vanish(g) PROVE Room(f)'
  <2>1. tx' = Missed(tx, {}, {g}) /\ finding' = finding /\ (f \in evidence' => f \in evidence \/ Below(f))
    BY <1>1 DEF Appear, Vanish, Below
  <2>2. \A t \in Scanners : tx'[t].pc # "none" =>
          tx[t].pc # "none" /\ tx'[t].sees = tx[t].sees /\ tx'[t].missed = tx[t].missed \union {}
    <3> SUFFICES ASSUME NEW t \in Scanners, Missed(tx, {}, {g})[t].pc # "none"
                 PROVE  /\ tx[t].pc # "none" /\ Missed(tx, {}, {g})[t].sees = tx[t].sees
                        /\ Missed(tx, {}, {g})[t].missed = tx[t].missed \union {}
      BY <2>1
    <3>1. PICK F : F = {}
      OBVIOUS
    <3>2. PICK M : M = {g}
      OBVIOUS
    <3>3. tx \in [Scanners -> Transaction] /\ F \in SUBSET Findings /\ M \in SUBSET Findings
      BY <1>t, <3>1, <3>2
    <3>4. Missed(tx, F, M)[t].pc # "none"
      BY <3>1, <3>2
    <3>5. /\ tx[t].pc # "none" /\ Missed(tx, F, M)[t].sees = tx[t].sees
          /\ Missed(tx, F, M)[t].missed = tx[t].missed \union F
      BY <3>3, <3>4, MissedFields
    <3> QED BY <3>1, <3>2, <3>5
  <2> QED BY <1>t, <2>1, <2>2, RoomStays DEF Open
<1>2. ASSUME NEW g \in Findings, View(g) PROVE Room(f)'
  BY <1>2, <1>t DEF View, Room, Returns, Below, Is, Open
<1>3. ASSUME NEW g \in Findings, IgnoreFinding(g) \/ RepairFinding(g) PROVE Room(f)'
  <2>1. PICK state \in {"ignored", "resolved"}, M \in SUBSET Findings :
          /\ finding' = [finding EXCEPT ![g].state = state] /\ tx' = Missed(tx, {g}, M)
          /\ evidence' \in SUBSET evidence /\ (state = "resolved" => g \notin evidence')
    <3>1. CASE IgnoreFinding(g)
      BY <3>1 DEF IgnoreFinding, Decide
    <3>2. CASE RepairFinding(g)
      BY <3>2 DEF RepairFinding, Decide
    <3> QED BY <1>3, <3>1, <3>2
  <2>2. \A t \in Scanners : tx'[t].pc # "none" =>
          tx[t].pc # "none" /\ tx'[t].sees = tx[t].sees /\ tx'[t].missed = tx[t].missed \union {g}
    <3> SUFFICES ASSUME NEW t \in Scanners, Missed(tx, {g}, M)[t].pc # "none"
                 PROVE  /\ tx[t].pc # "none" /\ Missed(tx, {g}, M)[t].sees = tx[t].sees
                        /\ Missed(tx, {g}, M)[t].missed = tx[t].missed \union {g}
      BY <2>1
    <3>1. PICK F : F = {g}
      OBVIOUS
    <3>2. tx \in [Scanners -> Transaction] /\ F \in SUBSET Findings /\ M \in SUBSET Findings
      BY <1>t, <3>1
    <3>3. Missed(tx, F, M)[t].pc # "none"
      BY <3>1
    <3>4. /\ tx[t].pc # "none" /\ Missed(tx, F, M)[t].sees = tx[t].sees
          /\ Missed(tx, F, M)[t].missed = tx[t].missed \union F
      BY <3>2, <3>3, MissedFields
    <3> QED BY <3>1, <3>4
  <2>3. CASE f # g
    <3>1. finding'[f] = finding[f]
      BY <1>t, <2>1, <2>3
    <3> QED BY <1>t, <2>1, <2>2, <3>1, RoomStays DEF Open
  <2>4. CASE f = g
    <3>1. finding'[f].version = finding[f].version /\ finding'[f].state = state
      BY <1>t, <2>1, <2>4
    <3> QED BY <1>t, <2>1, <2>2, <2>4, <3>1 DEF Room, Returns, Below, Is, Open
  <2> QED BY <2>3, <2>4
<1>4. ASSUME NEW t \in Scanners, NEW scope \in SUBSET Findings, Begin(t, scope) PROVE Room(f)'
  <2>1. /\ UNCHANGED <<evidence, finding>> /\ tx'[t].sees = evidence
        /\ \A s \in Scanners : s # t => tx'[s] = tx[s]
    BY <1>4, <1>t DEF Begin
  <2> QED BY <1>t, <2>1 DEF Room, Returns, Below, Is, Open
<1>5. ASSUME NEW t \in Scanners, Acquire(t) \/ Rollback(t) PROVE Room(f)'
  <2>1. UNCHANGED <<evidence, finding>>
    BY <1>5 DEF Acquire, Rollback
  <2>2. NoTransaction.pc = "none"
    BY DEF NoTransaction
  <2>3. /\ \A s \in Scanners : s # t => tx'[s] = tx[s]
        /\ tx'[t].pc # "none" => tx[t].pc # "none" /\ tx'[t].sees = tx[t].sees /\ tx'[t].missed = tx[t].missed
    BY <1>5, <1>t, <2>2 DEF Acquire, Rollback, Transaction
  <2> QED BY <1>t, <2>1, <2>3, RoomStays DEF Open
<1> QED BY <1>1, <1>2, <1>3, <1>4, <1>5

LEMMA FindingsTypesStep == FindingsTypes /\ [FindingsNext]_findingsVars => FindingsTypes'
<1> SUFFICES ASSUME FindingsTypes, [FindingsNext]_findingsVars PROVE FindingsTypes'
  OBVIOUS
<1>1. FindingsInv'
  BY FindingsStep DEF FindingsTypes
<1>2. fresh' \subseteq Findings /\ (lock \in Scanners \union {NoScanner})'
  <2>1. fresh \subseteq Findings /\ lock \in Scanners \union {NoScanner}
    BY DEF FindingsTypes
  <2> QED BY <2>1 DEF FindingsNext, findingsVars, Appear, Vanish, View, IgnoreFinding, RepairFinding, Decide,
         Begin, Acquire, Rollback, Commit
<1>3. \A f \in Findings : Room(f)'
  <2>1. CASE UNCHANGED findingsVars
    BY <2>1 DEF findingsVars, FindingsTypes, Room, Returns, Below, Is, Open
  <2>2. CASE \E t \in Scanners : \E repaired \in SUBSET Fixable(t) : Commit(t, repaired)
    BY <2>2, CommitLeavesRoom
  <2> QED BY <2>1, <2>2, OthersLeaveRoom DEF FindingsNext
<1> QED BY <1>1, <1>2, <1>3 DEF FindingsTypes

LEMMA FindingsTypesInvariant == FindingsSpec => []FindingsTypes
<1>1. FindingsInit => FindingsTypes
  <2> SUFFICES ASSUME FindingsInit PROVE FindingsTypes
    OBVIOUS
  <2>1. \A t \in Scanners : tx[t].pc = "none"
    BY DEF FindingsInit, NoTransaction
  <2>2. \A f \in Findings : Room(f)
    BY <2>1, FindingAssumption DEF FindingsInit, Room, Open
  <2> QED BY <2>2, FindingsInvInit DEF FindingsTypes, FindingsInit
<1>2. FindingsTypes /\ [FindingsNext]_findingsVars => FindingsTypes'
  BY FindingsTypesStep
<1> QED BY <1>1, <1>2, PTL DEF FindingsSpec

LEMMA FindingsTypesAre == FindingsTypes => FindingsTypeOK
<1> SUFFICES ASSUME FindingsTypes PROVE FindingsTypeOK
  OBVIOUS
<1>1. \A f \in Findings : /\ finding[f] \in [state : States, version : 0 .. MaxVersion]
                          /\ view[f] \in 0 .. MaxVersion
  <2> SUFFICES ASSUME NEW f \in Findings
               PROVE finding[f] \in [state : States, version : 0 .. MaxVersion] /\ view[f] \in 0 .. MaxVersion
    OBVIOUS
  <2>1. /\ finding[f] \in [state : States, version : Nat] /\ view[f] \in Nat /\ MaxVersion \in Nat
        /\ view[f] <= finding[f].version /\ finding[f].version <= MaxVersion
    BY FindingAssumption DEF FindingsTypes, FindingsInv, Shape, Views, Room
  <2>2. finding[f].version \in 0 .. MaxVersion /\ view[f] \in 0 .. MaxVersion
    BY <2>1
  <2> QED BY <2>1, <2>2
<1> QED BY <1>1 DEF FindingsTypes, FindingsInv, Shape, FindingsTypeOK

\* Every variable of the composed reconciliation keeps to its type: versions to their bound,
\* though a scan may open a finding long after the snapshot that showed it (Reopened), requests to
\* theirs.
THEOREM ReconciliationTypes == Spec => []TypeOK
<1>1. Spec => [](requests \in 0 .. MaxRequests)
  <2>1. Init => requests \in 0 .. MaxRequests
    BY ReconciliationAssumption DEF Init
  <2>2. ASSUME requests \in 0 .. MaxRequests, [Next]_vars PROVE (requests \in 0 .. MaxRequests)'
    <3>1. requests' = requests \/ (requests < MaxRequests /\ requests' = requests + 1)
      BY <2>2 DEF Next, vars, Alone, BeginScheduled, CommitScheduled, ConflictScheduled, InterruptScheduled,
         CrashProcess, AcquireLock, Request, PersistScan, Apply, RequestFails, Decisions, Evidence
    <3> QED BY <2>2, <3>1, ReconciliationAssumption
  <2> QED BY <2>1, <2>2, PTL DEF Spec
<1>2. ScheduleInv /\ FindingsTypes /\ requests \in 0 .. MaxRequests => TypeOK
  BY FindingsTypesAre DEF ScheduleInv, TypeOK
<1> QED BY <1>1, <1>2, ImplementsSchedule, ImplementsFindings, ScheduleInvariant, FindingsTypesInvariant, PTL
=============================================================================
