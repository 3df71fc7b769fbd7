------------------------- MODULE MediaLedgerProofs -------------------------
(***************************************************************************)
(* What the media ledger keeps right, for any posts, contents, runs,       *)
(* evictors, limits and faults.                                            *)
(*                                                                         *)
(* First, from the rows and the advisory lock alone: BlobsOutliveTheirUse, *)
(* ProtectedIsNotDeleted and BindingIsForLife.                             *)
(*                                                                         *)
(* Then LedgerAddsUp, LeasesAreComplete, UncountedFilesAreOwned and        *)
(* TypeOK.  The three counters can only be sums after a step if they were  *)
(* before, and if the rows a transaction changes are those it computed its *)
(* differences from.  That takes: the leases (a plan under a lease has its *)
(* active objects in the one state of its phase), what a run at work       *)
(* relies on (AtWork: the objects in its memory are the objects of its     *)
(* plan, as long as the lease is its own), and the names and files on disk *)
(* (NamesOK: an evictor that removed a file has not seen it come back).    *)
(***************************************************************************)
EXTENDS MediaCacheProps, WellFoundedInduction, Sums

\* The shape of what the argument is about; counters are left open.
RowsOK ==
    /\ plan \in [Plans -> PlanStates] /\ holder \in [Plans -> Runs \union {NoRun}]
    /\ object \in [Objects -> ObjectStates] /\ bound \in [Objects -> Blobs \union {NoBlob}]
    /\ protected \subseteq Objects /\ blob \in [Blobs -> BlobStates]
RunsOK ==
    /\ run \in [Runs -> RunStates] /\ live \subseteq Runs
    /\ \A t \in Runs : run[t].pc # "idle" => run[t].job \in Plans
    /\ staged \in [Runs -> [Objects -> Blobs \union {NoBlob}]]
    /\ ledger \in Runs \union {NoRun}

\* While a run has the advisory lock its plan is as it was when the run took it; a run that has
\* its lease has the staging files of what it staged.
Undisturbed(t) ==
    /\ run[t].pc \in {"publishing", "cleaning", "recovering"} => ledger = t
    /\ run[t].pc \in {"publishing", "cleaning"} => plan[run[t].job] = "staging"
    /\ run[t].pc = "publishing" =>
          /\ run[t].list \subseteq Of(run[t].job) /\ holder[run[t].job] = t
          /\ \A o \in run[t].list : staged[t][o] \in Blobs /\ bound[o] \in {NoBlob, staged[t][o]}
    /\ run[t].pc = "recovering" => holder[run[t].job] \notin live
    /\ run[t].pc = "staging" /\ t \in live /\ holder[run[t].job] = t =>
          \A o \in run[t].list : staged[t][o] \in Blobs
LockOK == \A t \in Runs : Undisturbed(t)

\* Objects that have yet to settle belong to a plan that eviction spares.
InUse ==
    \A o \in Objects :
        /\ object[o] \in {"ready", "staging"} => bound[o] \in Blobs
        /\ object[o] = "staging" => plan[PlanOf[o]] \in {"settling", "recovering"}

Books == RowsOK /\ InUse /\ BlobsOutliveTheirUse /\ ProtectedIsNotDeleted
IInv == Books /\ RunsOK /\ LockOK

-----------------------------------------------------------------------------
LEMMA FirstBelongs == ASSUME NEW S, S \subseteq Nat, S # {} PROVE First(S) \in S
<1> DEFINE R == {ss \in Nat \X Nat : ss[1] < ss[2]}
<1>1. IsWellFoundedOn(R, Nat)
  BY NatLessThanWellFounded DEF OpToRel
<1> HIDE DEF R
<1>2. PICK x \in S : \A y \in S : ~(<<y, x>> \in R)
  BY <1>1, WFMin
<1>3. ASSUME NEW y \in S PROVE x <= y
  <2>1. <<y, x>> \in Nat \X Nat /\ <<y, x>>[1] = y /\ <<y, x>>[2] = x
    OBVIOUS
  <2>2. ~(y < x)
    BY <1>2, <2>1 DEF R
  <2> QED BY <2>2
<1> QED BY <1>3 DEF First

LEMMA FirstObject == ASSUME NEW S, S \subseteq Objects, S # {} PROVE First(S) \in S
BY FirstBelongs, ObjectAssumption

LEMMA Starts == Init => IInv
<1> SUFFICES ASSUME Init PROVE IInv
  OBVIOUS
<1>1. RowsOK
  <2>1. object \in [Objects -> ObjectStates]
    BY ObjectAssumption DEF Init, ObjectStates
  <2> QED BY <2>1 DEF Init, RowsOK, PlanStates, BlobStates
<1>2. RunsOK
  BY DEF Init, RunsOK, RunStates, Idle, PCs
<1>3. \A t \in Runs : run[t].pc = "idle"
  BY DEF Init, Idle
<1>4. \A o \in Objects : object[o] \notin {"ready", "staging"} /\ bound[o] = NoBlob
  BY ObjectAssumption DEF Init
<1> QED BY <1>1, <1>2, <1>3, <1>4, ContentAssumption
        DEF Init, IInv, Books, LockOK, Undisturbed, InUse, BlobsOutliveTheirUse, ProtectedIsNotDeleted, Protected

-----------------------------------------------------------------------------
(* Runs.                                                                   *)

LEMMA RunFields ==
  ASSUME RunsOK, NEW t \in Runs
  PROVE  /\ run[t] \in RunStates /\ run[t].pc \in PCs
         /\ run[t].todo \subseteq Objects /\ run[t].list \subseteq Objects
         /\ run[t].apart \subseteq Objects
         /\ run[t].pc # "idle" => run[t].job \in Plans
BY DEF RunsOK, RunStates

\* What a run does leaves the others undisturbed: it has the lock or nobody has, or it leaves
\* the rows alone; and the staging files it takes away are those of a run without its lease.
LEMMA OthersStay ==
  ASSUME RunsOK, LockOK, NEW t \in Runs, Undisturbed(t)',
         \A x \in Runs : x # t => /\ run'[x] = run[x] /\ (x \in live' => x \in live)
                                  /\ \A q \in Plans : holder'[q] = x => holder[q] = x,
         \A x \in Runs : x # t /\ (run[x].pc = "publishing" \/ (run[x].pc = "staging" /\ x \in live))
                            => staged'[x] = staged[x],
         ledger' = ledger \/ ledger \in {t, NoRun},
         (UNCHANGED <<plan, bound, holder>> /\ live' \subseteq live) \/ ledger \in {t, NoRun}
  PROVE  LockOK'
<1> SUFFICES ASSUME NEW x \in Runs, x # t PROVE Undisturbed(x)'
  BY DEF LockOK
<1>1. Undisturbed(x) /\ x # NoRun
  BY RunAssumption DEF LockOK
<1>0. run[x].pc # "idle" => run[x].job \in Plans
  BY RunFields
<1>2. CASE ledger \in {t, NoRun}
  <2>1. run[x].pc \notin {"publishing", "cleaning", "recovering"}
    BY <1>1, <1>2 DEF Undisturbed
  <2> QED BY <1>0, <1>1, <2>1 DEF Undisturbed
<1>3. CASE ledger \notin {t, NoRun}
  BY <1>0, <1>1, <1>3 DEF Undisturbed
<1> QED BY <1>2, <1>3

\* Steps of evictors, owners and time leave the runs as they are, or nobody has the lock.
LEMMA RunsStay ==
  ASSUME RunsOK, LockOK, UNCHANGED <<run, staged, ledger>>, live' \subseteq live,
         UNCHANGED holder, UNCHANGED <<plan, bound>> \/ Unlocked
  PROVE  RunsOK' /\ LockOK'
<1>1. RunsOK'
  BY DEF RunsOK
<1>2. ASSUME NEW x \in Runs PROVE Undisturbed(x)'
  <2>1. Undisturbed(x) /\ x # NoRun
    BY RunAssumption DEF LockOK
  <2>2. CASE Unlocked
    BY <2>1, <2>2 DEF Undisturbed, Unlocked
  <2>3. CASE UNCHANGED <<plan, bound>>
    BY <2>1, <2>3 DEF Undisturbed
  <2> QED BY <2>2, <2>3
<1> QED BY <1>1, <1>2 DEF LockOK

\* A run that is at none of the steps that Undisturbed speaks of.
Astray == {"idle", "failing", "settling", "broken"}
LEMMA AstrayIsUndisturbed ==
  ASSUME NEW t \in Runs, run'[t].pc \in Astray
  PROVE  Undisturbed(t)'
BY DEF Astray, Undisturbed

\* A run that goes astray, with the rows and the others' files left alone.
LEMMA GoingAstray ==
  ASSUME RunsOK, LockOK, NEW t \in Runs, NEW r \in RunStates, run' = [run EXCEPT ![t] = r],
         r.pc \in Astray, r.pc # "idle" => r.job \in Plans,
         UNCHANGED <<plan, bound, holder>>, live' \subseteq live,
         staged' \in [Runs -> [Objects -> Blobs \union {NoBlob}]],
         \A x \in Runs : x # t => staged'[x] = staged[x],
         ledger' = ledger \/ (ledger = t /\ ledger' = NoRun)
  PROVE  RunsOK' /\ LockOK'
<1>1. RunsOK'
  BY DEF RunsOK
<1>2. run'[t] = r /\ \A x \in Runs : x # t => run'[x] = run[x]
  BY DEF RunsOK
<1>3. Undisturbed(t)'
  BY <1>2, AstrayIsUndisturbed
<1> QED BY <1>1, <1>2, <1>3, OthersStay

-----------------------------------------------------------------------------
(* Staging.                                                                *)

LEMMA StageObjectKeeps == ASSUME IInv, NEW t \in Runs, StageObject(t) PROVE RunsOK' /\ LockOK'
<1>1. run[t].todo # {} /\ run[t].pc = "staging" /\ run[t].todo \subseteq Objects
  BY RunFields DEF IInv, StageObject, Staging
<1> DEFINE o == First(run[t].todo)
<1>2. o \in Objects
  BY <1>1, FirstObject
<1>3. PICK b \in Sources[o] :
        /\ staged' = [staged EXCEPT ![t][o] = b]
        /\ run' = [run EXCEPT ![t].todo = @ \ {o}, ![t].list = @ \union {o}]
  BY DEF StageObject
<1>4. b \in Blobs
  BY <1>2, <1>3, ContentAssumption
<1>5. UNCHANGED <<plan, holder, bound, ledger, live>>
  BY DEF StageObject, db, plans, objects
<1>6. RunsOK'
  <2> DEFINE r == [run[t] EXCEPT !.todo = @ \ {o}, !.list = @ \union {o}]
  <2>1. r \in RunStates /\ r.pc = run[t].pc /\ r.job = run[t].job
    BY <1>2, RunFields DEF IInv, RunStates
  <2>2. run' = [run EXCEPT ![t] = r]
    BY <1>3
  <2> HIDE DEF r
  <2>3. run' \in [Runs -> RunStates]
    BY <2>1, <2>2 DEF IInv, RunsOK
  <2>4. \A x \in Runs : run'[x].pc = run[x].pc /\ run'[x].job = run[x].job
    BY <2>1, <2>2 DEF IInv, RunsOK
  <2>5. staged' \in [Runs -> [Objects -> Blobs \union {NoBlob}]]
    BY <1>2, <1>3, <1>4 DEF IInv, RunsOK
  <2> QED BY <2>3, <2>4, <2>5, <1>5 DEF IInv, RunsOK
<1>7. run'[t].pc = "staging" /\ run'[t].list = run[t].list \union {o} /\ run'[t].job = run[t].job
  BY <1>1, <1>3 DEF IInv, RunsOK, RunStates
<1>8. \A q \in Objects : staged'[t][q] = IF q = o THEN b ELSE staged[t][q]
  BY <1>2, <1>3 DEF IInv, RunsOK
<1>9. run[t].list \subseteq Objects /\ Undisturbed(t)
  BY RunFields DEF IInv, LockOK
<1>10. Undisturbed(t)'
  BY <1>1, <1>2, <1>4, <1>5, <1>7, <1>8, <1>9 DEF Undisturbed
<1>11. \A x \in Runs : x # t => run'[x] = run[x] /\ staged'[x] = staged[x]
  BY <1>3 DEF IInv, RunsOK
<1> QED BY <1>5, <1>6, <1>10, <1>11, OthersStay DEF IInv

LEMMA SourceUnavailableKeeps ==
  ASSUME IInv, NEW t \in Runs, SourceUnavailable(t) PROVE RunsOK' /\ LockOK'
<1>1. run[t].todo # {} /\ run[t].pc = "staging" /\ run[t].todo \subseteq Objects /\ Undisturbed(t)
  BY RunFields DEF IInv, SourceUnavailable, Staging, LockOK
<1> DEFINE o == First(run[t].todo)
<1>2. o \in Objects
  BY <1>1, FirstObject
<1>3. /\ run' = [run EXCEPT ![t].todo = @ \ {o}, ![t].apart = @ \union {o}]
      /\ UNCHANGED <<plan, holder, bound, ledger, live, staged>>
  BY DEF SourceUnavailable, db, plans, objects, files
<1>4. RunsOK'
  <2> DEFINE r == [run[t] EXCEPT !.todo = @ \ {o}, !.apart = @ \union {o}]
  <2>1. r \in RunStates /\ r.pc = run[t].pc /\ r.job = run[t].job
    BY <1>2, RunFields DEF IInv, RunStates
  <2>2. run' = [run EXCEPT ![t] = r]
    BY <1>3
  <2> HIDE DEF r
  <2>3. run' \in [Runs -> RunStates]
    BY <2>1, <2>2 DEF IInv, RunsOK
  <2>4. \A x \in Runs : run'[x].pc = run[x].pc /\ run'[x].job = run[x].job
    BY <2>1, <2>2 DEF IInv, RunsOK
  <2> QED BY <2>3, <2>4, <1>3 DEF IInv, RunsOK
<1>5. run'[t].pc = "staging" /\ run'[t].list = run[t].list /\ run'[t].job = run[t].job
  BY <1>1, <1>3 DEF IInv, RunsOK, RunStates
<1>6. Undisturbed(t)'
  BY <1>1, <1>3, <1>5 DEF Undisturbed
<1>7. \A x \in Runs : x # t => run'[x] = run[x]
  BY <1>3 DEF IInv, RunsOK
<1> QED BY <1>3, <1>4, <1>6, <1>7, OthersStay DEF IInv

LEMMA RunFails ==
  ASSUME IInv, NEW t \in Runs, run[t].pc # "idle", NEW S \in SUBSET Objects,
         \E d \in {"retry", "skip", "integrity_conflict"} : FailAs(t, d, S),
         UNCHANGED <<plan, bound, holder, staged, live>>,
         ledger' = ledger \/ (ledger = t /\ ledger' = NoRun)
  PROVE  RunsOK' /\ LockOK'
<1>1. PICK d \in {"retry", "skip", "integrity_conflict"} : FailAs(t, d, S)
  OBVIOUS
<1> DEFINE r == [run[t] EXCEPT !.pc = "failing", !.todo = {}, !.apart = S, !.why = d]
<1>2. run' = [run EXCEPT ![t] = r]
  BY <1>1 DEF FailAs, IInv, RunsOK, RunStates
<1>3. r \in RunStates /\ r.pc = "failing" /\ r.job = run[t].job
  BY RunFields DEF IInv, RunStates, PCs
<1>4. run[t].job \in Plans
  BY RunFields DEF IInv
<1>5. staged' \in [Runs -> [Objects -> Blobs \union {NoBlob}]]
  BY DEF IInv, RunsOK
<1> HIDE DEF r
<1> QED BY <1>2, <1>3, <1>4, <1>5, GoingAstray DEF IInv, Astray

LEMMA StagingEndsKeeps ==
  ASSUME IInv, NEW t \in Runs, PostLimitReached(t) \/ StagingFails(t) \/ NothingStaged(t)
  PROVE  RunsOK' /\ LockOK'
<1>1. /\ run[t].pc = "staging" /\ UNCHANGED <<plan, bound, holder, staged, live, ledger>>
      /\ FailAs(t, "retry", {}) \/ FailAs(t, "skip", {})
  BY DEF PostLimitReached, StagingFails, NothingStaged, Staging, AllStaged, db, plans, objects, files
<1> QED BY <1>1, RunFails

-----------------------------------------------------------------------------
(* Publication.                                                            *)

LEMMA PublishRefusedKeeps ==
  ASSUME IInv, NEW t \in Runs, PublishRefused(t) PROVE RunsOK' /\ LockOK'
<1>1. run[t].pc = "staging" /\ UNCHANGED <<plan, bound, holder, staged, live, ledger>>
  BY DEF PublishRefused, ReadyToPublish, AllStaged, db, plans, objects, files
<1>2. CASE FailAs(t, "retry", {})
  BY <1>1, <1>2, RunFails
<1>3. CASE Conflicts(t) # {} /\ FailAs(t, "integrity_conflict", {First(Conflicts(t))})
  <2>1. Conflicts(t) \subseteq Objects
    BY RunFields DEF IInv, Conflicts
  <2>2. {First(Conflicts(t))} \in SUBSET Objects
    BY <1>3, <2>1, FirstObject
  <2> QED BY <1>1, <1>3, <2>2, RunFails
<1> QED BY <1>2, <1>3 DEF PublishRefused

LEMMA PublishRollsBackKeeps ==
  ASSUME IInv, NEW t \in Runs, PublishRollsBack(t) PROVE RunsOK' /\ LockOK'
<1>1. /\ run[t].pc = "publishing" /\ UNCHANGED <<plan, bound, holder, staged, live>>
      /\ ledger' = NoRun /\ FailAs(t, "retry", {})
  BY DEF PublishRollsBack, Publishing, db, plans, objects, files
<1>2. ledger = t
  BY <1>1 DEF IInv, LockOK, Undisturbed
<1> QED BY <1>1, <1>2, RunFails

LEMMA BeginPublishKeeps ==
  ASSUME IInv, NEW t \in Runs, BeginPublish(t) PROVE RunsOK' /\ LockOK'
<1> DEFINE r == [run[t] EXCEPT !.pc = "publishing", !.todo = run[t].list]
<1>1. /\ run[t].pc = "staging" /\ Unlocked /\ Undisturbed(t)
      /\ UNCHANGED <<plan, bound, holder, staged, live>> /\ ledger' = t
      /\ Fenced(t, run[t].job, "staging") /\ Conflicts(t) = {}
      /\ In(run[t].job, "downloading") = run[t].list
  BY DEF BeginPublish, ReadyToPublish, AllStaged, PublicationAllowed, db, plans, objects, files, IInv, LockOK
<1>2. run' = [run EXCEPT ![t] = r]
  BY DEF BeginPublish, Goto, IInv, RunsOK, RunStates
<1>3. r \in RunStates /\ r.pc = "publishing" /\ r.job = run[t].job /\ r.list = run[t].list
  BY RunFields DEF IInv, RunStates, PCs
<1>4. run[t].job \in Plans
  BY <1>1, RunFields DEF IInv
<1> HIDE DEF r
<1>5. RunsOK'
  BY <1>1, <1>2, <1>3, <1>4 DEF IInv, RunsOK
<1>6. run'[t] = r /\ \A x \in Runs : x # t => run'[x] = run[x]
  BY <1>2 DEF IInv, RunsOK
<1>7. \A o \in run[t].list : staged[t][o] \in Blobs /\ bound[o] \in {NoBlob, staged[t][o]}
  BY <1>1 DEF Undisturbed, Fenced, Conflicts
<1>8. Undisturbed(t)'
  BY <1>1, <1>3, <1>6, <1>7 DEF Undisturbed, Fenced, In
<1> QED BY <1>1, <1>5, <1>6, <1>8, OthersStay DEF IInv, Unlocked

LEMMA LinkFileKeeps == ASSUME IInv, NEW t \in Runs, LinkFile(t) PROVE RunsOK' /\ LockOK'
<1> DEFINE r == [run[t] EXCEPT !.todo = @ \ {First(run[t].todo)}]
<1>1. /\ run[t].pc = "publishing" /\ Undisturbed(t)
      /\ UNCHANGED <<plan, bound, holder, staged, live, ledger>>
  BY DEF LinkFile, Publishing, db, plans, objects, IInv, LockOK
<1>2. run' = [run EXCEPT ![t] = r]
  BY DEF LinkFile, Loop, IInv, RunsOK, RunStates
<1>3. r \in RunStates /\ r.pc = run[t].pc /\ r.job = run[t].job /\ r.list = run[t].list
  BY RunFields DEF IInv, RunStates
<1> HIDE DEF r
<1>4. RunsOK'
  BY <1>1, <1>2, <1>3 DEF IInv, RunsOK
<1>5. run'[t] = r /\ \A x \in Runs : x # t => run'[x] = run[x]
  BY <1>2 DEF IInv, RunsOK
<1>6. Undisturbed(t)'
  BY <1>1, <1>3, <1>5 DEF Undisturbed
<1> QED BY <1>1, <1>4, <1>5, <1>6, OthersStay DEF IInv

-----------------------------------------------------------------------------
(* Settling, failing.                                                      *)

\* What settling a file does to the staging files.
LEMMA DropKeepsShape ==
  ASSUME RunsOK, NEW t \in Runs, NEW o, DropStaged(t, o)
  PROVE  /\ staged' \in [Runs -> [Objects -> Blobs \union {NoBlob}]]
         /\ \A x \in Runs : x # t => staged'[x] = staged[x]
BY DEF RunsOK, DropStaged

LEMMA SettleFileKeeps == ASSUME IInv, NEW t \in Runs, SettleFile(t) PROVE RunsOK' /\ LockOK'
<1>1. run[t].pc = "settling" /\ UNCHANGED <<plan, bound, holder, live, ledger>>
  BY DEF SettleFile, db, plans, objects
<1>2. \/ EndRun(t) /\ UNCHANGED staged
      \/ Loop(t) /\ DropStaged(t, First(run[t].todo))
  BY DEF SettleFile, SettleCommitted, files
<1>3. /\ staged' \in [Runs -> [Objects -> Blobs \union {NoBlob}]]
      /\ \A x \in Runs : x # t => staged'[x] = staged[x]
  BY <1>2, DropKeepsShape DEF IInv, RunsOK
<1>4. \E r \in RunStates : run' = [run EXCEPT ![t] = r] /\ r.pc \in Astray /\ (r.pc # "idle" => r.job \in Plans)
  <2>1. CASE EndRun(t)
    <3>1. Idle \in RunStates /\ Idle.pc = "idle"
      BY DEF Idle, RunStates, PCs
    <3> QED BY <2>1, <3>1 DEF EndRun, Astray
  <2>2. CASE Loop(t)
    <3> DEFINE r == [run[t] EXCEPT !.todo = @ \ {First(run[t].todo)}]
    <3>1. run' = [run EXCEPT ![t] = r]
      BY <2>2 DEF Loop, IInv, RunsOK, RunStates
    <3>2. r \in RunStates /\ r.pc = "settling" /\ r.job = run[t].job /\ run[t].job \in Plans
      BY <1>1, RunFields DEF IInv, RunStates
    <3> HIDE DEF r
    <3> QED BY <3>1, <3>2 DEF Astray
  <2> QED BY <1>2, <2>1, <2>2
<1> QED BY <1>1, <1>3, <1>4, GoingAstray DEF IInv

\* A run that ends.
LEMMA RunEnds ==
  ASSUME IInv, NEW t \in Runs, EndRun(t), live' \subseteq live, UNCHANGED staged,
         \A q \in Plans : holder'[q] \in {holder[q], NoRun},
         UNCHANGED <<plan, bound, holder>> \/ ledger \in {t, NoRun},
         ledger' = ledger \/ (ledger = t /\ ledger' = NoRun)
  PROVE  RunsOK' /\ LockOK'
<1>1. Idle \in RunStates /\ Idle.pc = "idle" /\ run' = [run EXCEPT ![t] = Idle]
  BY DEF Idle, RunStates, PCs, EndRun
<1>2. RunsOK'
  BY <1>1 DEF IInv, RunsOK
<1>3. run'[t] = Idle /\ \A x \in Runs : x # t => run'[x] = run[x]
  BY <1>1 DEF IInv, RunsOK
<1>4. Undisturbed(t)'
  BY <1>1, <1>3, AstrayIsUndisturbed DEF Astray
<1> QED BY <1>2, <1>3, <1>4, OthersStay, RunAssumption DEF IInv

LEMMA FailingEndsKeeps ==
  ASSUME IInv, NEW t \in Runs, FailRefused(t) \/ FailRollsBack(t) PROVE RunsOK' /\ LockOK'
<1>1. EndRun(t) /\ UNCHANGED <<plan, bound, holder, staged, live>>
  BY DEF FailRefused, FailRollsBack, db, plans, objects, files
<1>2. ledger' = ledger \/ (ledger = t /\ ledger' = NoRun)
  <2>1. CASE FailRefused(t)
    BY <2>1 DEF FailRefused
  <2>2. CASE FailRollsBack(t)
    BY <2>2 DEF FailRollsBack, Cleaning, IInv, LockOK, Undisturbed
  <2> QED BY <2>1, <2>2
<1> QED BY <1>1, <1>2, RunEnds

LEMMA BeginFailKeeps == ASSUME IInv, NEW t \in Runs, BeginFail(t) PROVE RunsOK' /\ LockOK'
<1> DEFINE r == [run[t] EXCEPT !.pc = "cleaning", !.todo = run[t].list]
<1>1. /\ run[t].pc = "failing" /\ Unlocked /\ Undisturbed(t)
      /\ UNCHANGED <<plan, bound, holder, staged, live>> /\ ledger' = t
      /\ plan[run[t].job] = "staging"
  BY DEF BeginFail, Failing, MayFail, Fenced, db, plans, objects, files, IInv, LockOK
<1>2. run' = [run EXCEPT ![t] = r]
  BY DEF BeginFail, Goto, IInv, RunsOK, RunStates
<1>3. r \in RunStates /\ r.pc = "cleaning" /\ r.job = run[t].job /\ run[t].job \in Plans
  BY <1>1, RunFields DEF IInv, RunStates, PCs
<1> HIDE DEF r
<1>4. RunsOK'
  BY <1>1, <1>2, <1>3 DEF IInv, RunsOK
<1>5. run'[t] = r /\ \A x \in Runs : x # t => run'[x] = run[x]
  BY <1>2 DEF IInv, RunsOK
<1>6. Undisturbed(t)'
  BY <1>1, <1>3, <1>5 DEF Undisturbed
<1> QED BY <1>1, <1>4, <1>5, <1>6, OthersStay DEF IInv, Unlocked

\* A final file that is taken back leaves the runs alone.
LEMMA LinkedGoes ==
  ASSUME IInv, NEW t \in Runs, NEW o, RemoveLinked(t, o), UNCHANGED <<db, ledger, runs>>
  PROVE  RunsOK' /\ LockOK'
BY RunsStay DEF RemoveLinked, db, plans, objects, runs, IInv

LEMMA CleanFileKeeps == ASSUME IInv, NEW t \in Runs, CleanFile(t) PROVE RunsOK' /\ LockOK'
<1> DEFINE r == [run[t] EXCEPT !.todo = @ \ {First(run[t].todo)}]
<1>1. /\ run[t].pc = "cleaning" /\ Undisturbed(t)
      /\ UNCHANGED <<db, ledger, live>>
  BY DEF CleanFile, Cleaning, IInv, LockOK
<1>2. CASE RemoveLinked(t, First(run[t].todo)) /\ UNCHANGED run
  BY <1>1, <1>2, LinkedGoes DEF runs
<1>3. CASE SettleRolledBack(t, First(run[t].todo)) /\ Loop(t)
  <2>1. run' = [run EXCEPT ![t] = r] /\ DropStaged(t, First(run[t].todo))
    BY <1>3 DEF SettleRolledBack, Loop, IInv, RunsOK, RunStates
  <2>2. r \in RunStates /\ r.pc = run[t].pc /\ r.job = run[t].job
    BY RunFields DEF IInv, RunStates
  <2> HIDE DEF r
  <2>3. /\ staged' \in [Runs -> [Objects -> Blobs \union {NoBlob}]]
        /\ \A x \in Runs : x # t => staged'[x] = staged[x]
    BY <2>1, DropKeepsShape DEF IInv
  <2>4. RunsOK'
    BY <1>1, <2>1, <2>2, <2>3 DEF IInv, RunsOK
  <2>5. run'[t] = r /\ \A x \in Runs : x # t => run'[x] = run[x]
    BY <2>1 DEF IInv, RunsOK
  <2>6. Undisturbed(t)'
    BY <1>1, <2>2, <2>5 DEF Undisturbed, db, plans
  <2> QED BY <1>1, <2>3, <2>4, <2>5, <2>6, OthersStay DEF IInv, db, plans, objects
<1> QED BY <1>2, <1>3 DEF CleanFile

-----------------------------------------------------------------------------
(* Recovery.                                                               *)

LEMMA BeginRecoverKeeps ==
  ASSUME IInv, NEW t \in Runs, NEW p \in Plans, BeginRecover(t, p) PROVE RunsOK' /\ LockOK'
<1>1. PICK files0 \in SUBSET Objects, left \in SUBSET Objects :
        run' = [run EXCEPT ![t] = [Idle EXCEPT !.pc = "recovering", !.job = p,
                                               !.list = files0, !.todo = left]]
  <2>1. StagedFiles(holder[p]) \in SUBSET Objects /\ In(p, "staging") \in SUBSET Objects
    BY DEF StagedFiles, In, Of
  <2> QED BY <2>1 DEF BeginRecover
<1> DEFINE r == [Idle EXCEPT !.pc = "recovering", !.job = p, !.list = files0, !.todo = left]
<1>2. /\ Unlocked /\ Fresh(t) /\ Expired(p) /\ ledger' = t /\ live' = live \union {t}
      /\ UNCHANGED <<plan, bound, holder, staged>>
  BY DEF BeginRecover, db, plans, objects, files
<1>3. r \in RunStates /\ r.pc = "recovering" /\ r.job = p
  BY DEF Idle, RunStates, PCs
<1>4. run' = [run EXCEPT ![t] = r]
  BY <1>1
<1> HIDE DEF r
<1>5. RunsOK'
  BY <1>2, <1>3, <1>4 DEF IInv, RunsOK
<1>6. run'[t] = r /\ \A x \in Runs : x # t => run'[x] = run[x]
  BY <1>4 DEF IInv, RunsOK
<1>7. holder[p] \notin live'
  BY <1>2 DEF Expired, Fresh, Holds
<1>8. Undisturbed(t)'
  BY <1>2, <1>3, <1>6, <1>7 DEF Undisturbed
<1> QED BY <1>2, <1>5, <1>6, <1>8, OthersStay DEF IInv, Unlocked

LEMMA RecoverFileKeeps == ASSUME IInv, NEW t \in Runs, RecoverFile(t) PROVE RunsOK' /\ LockOK'
<1> DEFINE r == [run[t] EXCEPT !.todo = @ \ {First(run[t].todo)}]
           h == holder[run[t].job]
<1>1. /\ run[t].pc = "recovering" /\ Undisturbed(t) /\ run[t].job \in Plans
      /\ UNCHANGED <<db, ledger, live>>
  BY RunFields DEF RecoverFile, Recovering, IInv, LockOK
<1>2. ledger = t /\ h \notin live
  BY <1>1 DEF Undisturbed
<1>3. CASE RemoveLinked(h, First(run[t].todo)) /\ UNCHANGED run
  BY <1>1, <1>3, RunsStay DEF RemoveLinked, db, plans, objects, IInv
<1>4. CASE Loop(t) /\ (UNCHANGED staged \/ DropStaged(h, First(run[t].todo)))
  <2>1. h \in Runs \union {NoRun}
    BY <1>1 DEF IInv, Books, RowsOK
  <2>2. run' = [run EXCEPT ![t] = r]
    BY <1>4 DEF Loop, IInv, RunsOK, RunStates
  <2>3. r \in RunStates /\ r.pc = run[t].pc /\ r.job = run[t].job
    BY RunFields DEF IInv, RunStates
  <2> HIDE DEF r, h
  <2>4. /\ staged' \in [Runs -> [Objects -> Blobs \union {NoBlob}]]
        /\ \A x \in Runs : x # h => staged'[x] = staged[x]
    BY <1>4, <2>1, RunAssumption DEF IInv, RunsOK, DropStaged
  <2>5. RunsOK'
    BY <1>1, <2>2, <2>3, <2>4 DEF IInv, RunsOK
  <2>6. run'[t] = r /\ \A x \in Runs : x # t => run'[x] = run[x]
    BY <2>2 DEF IInv, RunsOK
  <2>7. Undisturbed(t)'
    BY <1>1, <2>3, <2>6 DEF Undisturbed, db, plans
  <2>8. ASSUME NEW x \in Runs, x # t, run[x].pc = "publishing" \/ (run[x].pc = "staging" /\ x \in live)
        PROVE  staged'[x] = staged[x]
    BY <1>2, <2>4, <2>8 DEF IInv, LockOK, Undisturbed
  <2> QED BY <1>1, <1>2, <2>5, <2>6, <2>7, <2>8, OthersStay DEF IInv, db, plans, objects
<1>5. \/ RemoveLinked(h, First(run[t].todo)) /\ UNCHANGED run
      \/ Loop(t) /\ (UNCHANGED staged \/ DropStaged(h, First(run[t].todo)))
  BY DEF RecoverFile, SettleRolledBack, SettleCommitted, files
<1> QED BY <1>3, <1>4, <1>5

LEMMA RecoverBreaksKeeps ==
  ASSUME IInv, NEW t \in Runs, RecoverBreaks(t) PROVE RunsOK' /\ LockOK'
<1> DEFINE r == [run[t] EXCEPT !.pc = "broken"]
<1>1. /\ run[t].pc = "recovering" /\ run[t].job \in Plans /\ ledger = t /\ ledger' = NoRun
      /\ UNCHANGED <<plan, bound, holder, live, staged>>
  BY RunFields DEF RecoverBreaks, Recovering, db, plans, objects, files, IInv, LockOK, Undisturbed
<1>2. run' = [run EXCEPT ![t] = r]
  BY DEF RecoverBreaks, IInv, RunsOK, RunStates
<1>3. r \in RunStates /\ r.pc = "broken" /\ r.job = run[t].job
  BY RunFields DEF IInv, RunStates, PCs
<1>4. staged' \in [Runs -> [Objects -> Blobs \union {NoBlob}]]
  BY <1>1 DEF IInv, RunsOK
<1> HIDE DEF r
<1> QED BY <1>1, <1>2, <1>3, <1>4, GoingAstray DEF IInv, Astray

LEMMA CrashRunKeeps == ASSUME IInv, NEW t \in Runs, CrashRun(t) PROVE RunsOK' /\ LockOK'
<1>1. EndRun(t) /\ UNCHANGED <<plan, bound, holder, staged>> /\ live' \subseteq live
  BY DEF CrashRun, db, plans, objects, files
<1>2. ledger' = ledger \/ (ledger = t /\ ledger' = NoRun)
  BY DEF CrashRun
<1> QED BY <1>1, <1>2, RunEnds

\* What maintenance rolls back no lease protects, so no run relies on it.
LEMMA ReconcileOrphanKeeps ==
  ASSUME IInv, NEW t \in Runs, NEW o \in Objects, ReconcileOrphan(t, o) PROVE RunsOK' /\ LockOK'
<1>1. ~Holds(t) /\ UNCHANGED <<db, ledger, runs>>
  BY DEF ReconcileOrphan, StaleLease
<1>2. CASE RemoveLinked(t, o)
  BY <1>1, <1>2, LinkedGoes
<1>3. CASE SettleRolledBack(t, o)
  <2>1. DropStaged(t, o) /\ Undisturbed(t) /\ UNCHANGED <<plan, bound, holder, live, ledger, run>>
    BY <1>1, <1>3 DEF SettleRolledBack, db, plans, objects, runs, IInv, LockOK
  <2>2. /\ staged' \in [Runs -> [Objects -> Blobs \union {NoBlob}]]
        /\ \A x \in Runs : x # t => staged'[x] = staged[x]
    BY <2>1, DropKeepsShape DEF IInv
  <2>3. RunsOK'
    BY <2>1, <2>2 DEF IInv, RunsOK
  <2>4. run[t].pc # "idle" => holder[run[t].job] # t
    BY <1>1, RunFields DEF Holds, IInv
  <2>5. Undisturbed(t)'
    BY <2>1, <2>4 DEF Undisturbed
  <2> QED BY <2>1, <2>2, <2>3, <2>5, OthersStay DEF IInv
<1> QED BY <1>2, <1>3 DEF ReconcileOrphan, StaleLease

-----------------------------------------------------------------------------
(* The steps that change the ledger.                                       *)

LEMMA BooksStay ==
  ASSUME Books, UNCHANGED <<plan, holder, object, bound, protected, blob>>
  PROVE  Books'
BY DEF Books, RowsOK, InUse, BlobsOutliveTheirUse, ProtectedIsNotDeleted, Protected

\* A plan that is not pinned has nothing left to settle.
LEMMA NothingToSettle ==
  ASSUME Books, NEW o \in Objects, plan[PlanOf[o]] \notin {"settling", "recovering"}
  PROVE  object[o] # "staging"
BY DEF Books, InUse

\* One plan changes, and with it some of its objects, none of which gets ready or to be settled.
LEMMA PlanSetBack ==
  ASSUME Books, NEW p \in Plans, NEW s \in PlanStates, NEW w,
         w \in {"downloading", "awaiting_local_source", "skipped", "blocked", "retry_wait"},
         plan' = [plan EXCEPT ![p] = s],
         s \in {"settling", "recovering"} \/ \A o \in Of(p) : object[o] # "staging",
         holder' \in [Plans -> Runs \union {NoRun}], UNCHANGED <<bound, protected, blob>>,
         object' \in [Objects -> ObjectStates],
         \A o \in Objects : object'[o] # object[o] => object'[o] \in {w, "integrity_conflict"}
  PROVE  Books'
<1>1. RowsOK'
  BY DEF Books, RowsOK
<1>2. ASSUME NEW o \in Objects, object'[o] \in {"ready", "staging"} PROVE object'[o] = object[o]
  BY <1>2
<1>3. InUse'
  BY <1>2 DEF Books, InUse, Of, RowsOK
<1>4. BlobsOutliveTheirUse'
  BY <1>2 DEF Books, BlobsOutliveTheirUse
<1>5. ProtectedIsNotDeleted'
  BY DEF Books, ProtectedIsNotDeleted, Protected
<1> QED BY <1>1, <1>3, <1>4, <1>5 DEF Books

LEMMA ClaimKeeps == ASSUME IInv, NEW t \in Runs, NEW p \in Plans, ClaimPostPlan(t, p) PROVE IInv'
<1> DEFINE r == [Idle EXCEPT !.pc = "staging", !.job = p, !.todo = Active(p)]
<1>1. /\ Unlocked /\ Fresh(t) /\ plan[p] \in ClaimableStates(t)
      /\ plan' = [plan EXCEPT ![p] = "staging"] /\ holder' = [holder EXCEPT ![p] = t]
      /\ live' = live \union {t} /\ run' = [run EXCEPT ![t] = r]
      /\ object' = [o \in Objects |-> IF o \in Active(p) THEN "downloading" ELSE object[o]]
      /\ UNCHANGED <<bound, protected, blob, staged, ledger>>
  BY DEF ClaimPostPlan, blobs, files
<1>2. plan[p] \notin {"settling", "recovering"}
  BY <1>1 DEF ClaimableStates
<1>3. \A o \in Of(p) : object[o] # "staging"
  BY <1>2, NothingToSettle DEF IInv, Of
<1>4. Books'
  BY <1>1, <1>3, PlanSetBack DEF IInv, Books, RowsOK, ObjectStates, PlanStates
<1>5. r \in RunStates /\ r.pc = "staging" /\ r.job = p /\ r.list = {}
  BY DEF Idle, RunStates, PCs, Active, Of
<1> HIDE DEF r
<1>6. RunsOK'
  BY <1>1, <1>5 DEF IInv, RunsOK
<1>7. run'[t] = r /\ \A x \in Runs : x # t => run'[x] = run[x]
  BY <1>1 DEF IInv, RunsOK
<1>8. Undisturbed(t)'
  BY <1>5, <1>7 DEF Undisturbed
<1>9. LockOK'
  BY <1>1, <1>7, <1>8, OthersStay DEF IInv, Unlocked, Books, RowsOK
<1> QED BY <1>4, <1>6, <1>9 DEF IInv

LEMMA SkipClaimedObjectKeeps ==
  ASSUME IInv, NEW t \in Runs, SkipClaimedObject(t) PROVE IInv'
<1> DEFINE o == First(run[t].apart)
<1>1. /\ Unlocked /\ run[t].pc = "staging" /\ run[t].apart # {} /\ Undisturbed(t)
      /\ UNCHANGED <<plan, holder, bound, protected, blob, staged, ledger, live>>
  BY DEF SkipClaimedObject, AllStaged, plans, blobs, files, IInv, LockOK
<1>2. CASE FailAs(t, "retry", {}) /\ UNCHANGED object
  <2>1. RunsOK' /\ LockOK'
    BY <1>1, <1>2, RunFails
  <2> QED BY <1>1, <1>2, <2>1, BooksStay DEF IInv
<1>3. CASE /\ object[o] = "downloading" /\ object' = [object EXCEPT ![o] = "skipped"]
           /\ run' = [run EXCEPT ![t].apart = @ \ {o}]
  <2>1. object' \in [Objects -> ObjectStates] /\ \A q \in Objects : object'[q] # object[q] => object'[q] = "skipped"
    BY <1>3 DEF IInv, Books, RowsOK, ObjectStates
  <2>2. /\ \A q \in Objects : object'[q] \in {"ready", "staging"} => object'[q] = object[q]
    BY <2>1
  <2>3. Books'
    BY <1>1, <2>1, <2>2 DEF IInv, Books, RowsOK, InUse, BlobsOutliveTheirUse, ProtectedIsNotDeleted, Protected
  <2> DEFINE r == [run[t] EXCEPT !.apart = @ \ {o}]
  <2>4. run' = [run EXCEPT ![t] = r]
    BY <1>3 DEF IInv, RunsOK, RunStates
  <2>5. r \in RunStates /\ r.pc = run[t].pc /\ r.job = run[t].job /\ r.list = run[t].list
    BY RunFields DEF IInv, RunStates
  <2> HIDE DEF r
  <2>6. RunsOK'
    BY <1>1, <2>4, <2>5 DEF IInv, RunsOK
  <2>7. run'[t] = r /\ \A x \in Runs : x # t => run'[x] = run[x]
    BY <2>4 DEF IInv, RunsOK
  <2>8. Undisturbed(t)'
    BY <1>1, <2>5, <2>7 DEF Undisturbed
  <2>9. LockOK'
    BY <1>1, <2>7, <2>8, OthersStay DEF IInv, Unlocked
  <2> QED BY <2>3, <2>6, <2>9 DEF IInv
<1> QED BY <1>2, <1>3 DEF SkipClaimedObject

\* A publication: its objects get contents that are counted, in a plan that is now pinned.
LEMMA CommitPublishKeeps == ASSUME IInv, NEW t \in Runs, CommitPublish(t) PROVE IInv'
<1> DEFINE p == run[t].job
           items == run[t].list
           r == [run[t] EXCEPT !.pc = "settling", !.todo = run[t].list]
<1>1. /\ run[t].pc = "publishing" /\ Undisturbed(t)
      /\ plan' = [q \in Plans |-> IF q = p THEN "settling"
                                  ELSE IF q \in Completed(t) THEN "ready" ELSE plan[q]]
      /\ object' = [o \in Objects |-> IF o \in items THEN "staging" ELSE WithRestored(t)[o]]
      /\ bound' = [o \in Objects |-> IF o \in items THEN staged[t][o] ELSE bound[o]]
      /\ blob' = [b \in Blobs |-> IF b \in Offered(t) THEN "ready" ELSE blob[b]]
      /\ ledger' = NoRun /\ UNCHANGED <<holder, protected, staged, live>>
  BY DEF CommitPublish, Publishing, IInv, LockOK, files
<1>2. run' = [run EXCEPT ![t] = r]
  BY DEF CommitPublish, Goto, IInv, RunsOK, RunStates
<1>3. /\ ledger = t /\ p \in Plans /\ items \subseteq Of(p) /\ plan[p] = "staging"
      /\ \A o \in items : staged[t][o] \in Blobs
  BY <1>1, RunFields DEF IInv, Undisturbed
<1>4. \A o \in items : staged[t][o] \in Offered(t)
  BY DEF Offered
<1>5. \A o \in Objects : WithRestored(t)[o] = object[o]
                         \/ (WithRestored(t)[o] = "ready" /\ bound[o] \in Offered(t) /\ bound[o] \in Blobs)
  <2>1. Restored(t) \subseteq {o \in Objects : bound[o] \in Offered(t)}
    BY DEF Restored, Returning, Added
  <2>2. Offered(t) \subseteq Blobs
    BY <1>3 DEF Offered
  <2> QED BY <2>1, <2>2 DEF WithRestored
<1>6. RowsOK'
  BY <1>1, <1>3, <1>5 DEF IInv, Books, RowsOK, PlanStates, ObjectStates, BlobStates
<1>7. ASSUME NEW o \in Objects
      PROVE  /\ object'[o] \in {"ready", "staging"} => bound'[o] \in Blobs
             /\ object'[o] = "ready" => blob'[bound'[o]] \in {"ready", "deleting"}
             /\ object'[o] = "staging" => blob'[bound'[o]] = "ready" /\ plan'[PlanOf[o]] \in {"settling", "recovering"}
  <2>1. CASE o \in items
    BY <1>1, <1>3, <1>4, <2>1, ObjectAssumption DEF Of
  <2>2. CASE o \notin items /\ WithRestored(t)[o] = object[o]
    <3>1. object'[o] = object[o] /\ bound'[o] = bound[o]
      BY <1>1, <2>2
    <3>2. /\ object[o] \in {"ready", "staging"} => bound[o] \in Blobs
          /\ object[o] = "ready" => blob[bound[o]] \in {"ready", "deleting"}
          /\ object[o] = "staging" => blob[bound[o]] = "ready" /\ plan[PlanOf[o]] \in {"settling", "recovering"}
      BY DEF IInv, Books, InUse, BlobsOutliveTheirUse
    <3>3. object[o] = "staging" => PlanOf[o] \notin Completed(t)
      BY <2>2 DEF Completed, Of
    <3> QED BY <1>1, <3>1, <3>2, <3>3, ObjectAssumption
  <2>3. CASE o \notin items /\ WithRestored(t)[o] = "ready" /\ bound[o] \in Offered(t) /\ bound[o] \in Blobs
    BY <1>1, <2>3
  <2> QED BY <1>5, <2>1, <2>2, <2>3
<1>8. InUse' /\ BlobsOutliveTheirUse'
  BY <1>7 DEF InUse, BlobsOutliveTheirUse
<1>9. ProtectedIsNotDeleted'
  <2> SUFFICES ASSUME NEW b \in Blobs, Protected(b)', blob'[b] = "deleting" PROVE FALSE
    BY DEF ProtectedIsNotDeleted
  <2>1. PICK o \in protected : bound'[o] = b
    BY <1>1 DEF Protected
  <2>2. b \notin Offered(t) /\ blob[b] = "deleting"
    BY <1>1
  <2>3. o \in Objects
    BY DEF IInv, Books, RowsOK
  <2>4. o \notin items
    BY <1>1, <1>4, <2>1, <2>2, <2>3
  <2> QED BY <1>1, <2>1, <2>2, <2>3, <2>4 DEF IInv, Books, ProtectedIsNotDeleted, Protected
<1>10. r \in RunStates /\ r.pc = "settling" /\ r.job = run[t].job
  BY RunFields DEF IInv, RunStates, PCs
<1> HIDE DEF r
<1>11. RunsOK'
  BY <1>1, <1>2, <1>3, <1>10 DEF IInv, RunsOK
<1>12. run'[t] = r /\ \A x \in Runs : x # t => run'[x] = run[x]
  BY <1>2 DEF IInv, RunsOK
<1>13. Undisturbed(t)'
  BY <1>10, <1>12, AstrayIsUndisturbed DEF Astray
<1>14. LockOK'
  BY <1>1, <1>3, <1>12, <1>13, OthersStay DEF IInv
<1> QED BY <1>6, <1>8, <1>9, <1>11, <1>14 DEF IInv, Books

LEMMA CompleteSettlementKeeps ==
  ASSUME IInv, NEW t \in Runs, CompleteSettlement(t) PROVE IInv'
<1> DEFINE p == run[t].job
           items == In(p, "staging")
<1>1. /\ Unlocked /\ EndRun(t) /\ p \in Plans
      /\ UNCHANGED <<bound, protected, blob, staged, ledger>>
  BY RunFields DEF CompleteSettlement, IInv, blobs, files
<1>2. CASE UNCHANGED <<plan, holder, live, object>>
  <2>1. RunsOK' /\ LockOK'
    BY <1>1, <1>2, RunEnds
  <2> QED BY <1>1, <1>2, <2>1, BooksStay DEF IInv
<1>3. CASE /\ Release(p, "ready")
           /\ object' = [o \in Objects |-> IF o \in items THEN "ready" ELSE object[o]]
  <2>1. /\ plan' = [plan EXCEPT ![p] = "ready"] /\ holder' = [holder EXCEPT ![p] = NoRun]
        /\ live' \subseteq live
    BY <1>3 DEF Release
  <2>2. RunsOK' /\ LockOK'
    BY <1>1, <2>1, RunEnds DEF Unlocked, IInv, Books, RowsOK
  <2>3. RowsOK'
    BY <1>1, <1>3, <2>1 DEF IInv, Books, RowsOK, PlanStates, ObjectStates
  <2>4. ASSUME NEW o \in Objects, object'[o] = "staging"
        PROVE  object[o] = "staging" /\ plan'[PlanOf[o]] = plan[PlanOf[o]]
    BY <1>3, <2>1, <2>4, ObjectAssumption DEF In, Of, IInv, Books, RowsOK
  <2>5. ASSUME NEW o \in Objects, object'[o] = "ready"
        PROVE  object[o] \in {"ready", "staging"}
    BY <1>3, <2>5 DEF In
  <2>6. InUse' /\ BlobsOutliveTheirUse' /\ ProtectedIsNotDeleted'
    BY <1>1, <2>4, <2>5 DEF IInv, Books, InUse, BlobsOutliveTheirUse, ProtectedIsNotDeleted, Protected
  <2> QED BY <2>2, <2>3, <2>6 DEF IInv, Books
<1> QED BY <1>2, <1>3 DEF CompleteSettlement

LEMMA FailedStates ==
  ASSUME NEW t \in Runs, NEW p \in Plans
  PROVE  FailedState(t, p) \in {"awaiting_local_source", "skipped", "blocked", "retry_wait"}
BY DEF FailedState, RetryState

\* A plan in its lease is given up: it was staging, so nothing of it is to be settled.
LEMMA CommitFailKeeps == ASSUME IInv, NEW t \in Runs, CommitFail(t) PROVE IInv'
<1> DEFINE p == run[t].job
           s == FailedState(t, p)
<1>1. /\ run[t].pc = "cleaning" /\ EndRun(t) /\ ledger' = NoRun /\ p \in Plans
      /\ plan' = [plan EXCEPT ![p] = s] /\ holder' = [holder EXCEPT ![p] = NoRun]
      /\ live' \subseteq live
      /\ object' = [o \in Objects |-> IF o \in run[t].apart THEN "integrity_conflict"
                                      ELSE IF o \in Active(p) THEN s ELSE object[o]]
      /\ UNCHANGED <<bound, protected, blob, staged>>
  BY RunFields DEF CommitFail, Cleaning, Release, IInv, blobs, files
<1>2. ledger = t /\ plan[p] = "staging"
  BY <1>1 DEF IInv, LockOK, Undisturbed
<1>3. RunsOK' /\ LockOK'
  BY <1>1, <1>2, RunEnds DEF IInv, Books, RowsOK
<1>4. s \in {"awaiting_local_source", "skipped", "blocked", "retry_wait"}
  BY <1>1, FailedStates
<1> HIDE DEF s
<1>5. \A o \in Of(p) : object[o] # "staging"
  BY <1>2, NothingToSettle DEF IInv, Of
<1>6. Books'
  <2>1. s \in PlanStates /\ s \in ObjectStates /\ "integrity_conflict" \in ObjectStates
    BY <1>4 DEF PlanStates, ObjectStates
  <2>2. object' \in [Objects -> ObjectStates] /\ holder' \in [Plans -> Runs \union {NoRun}]
    BY <1>1, <2>1 DEF IInv, Books, RowsOK
  <2>3. \A o \in Objects : object'[o] # object[o] => object'[o] \in {s, "integrity_conflict"}
    BY <1>1
  <2> QED BY <1>1, <1>4, <1>5, <2>1, <2>2, <2>3, PlanSetBack DEF IInv
<1> QED BY <1>3, <1>6 DEF IInv

LEMMA CommitRecoverRetryKeeps ==
  ASSUME IInv, NEW t \in Runs, CommitRecoverRetry(t) PROVE IInv'
<1> DEFINE p == run[t].job
           s == IF holder[p] \in DesktopRuns THEN "awaiting_local_source" ELSE RetryState(MoreAttempts(p))
<1>1. /\ run[t].pc = "recovering" /\ EndRun(t) /\ ledger' = NoRun /\ p \in Plans
      /\ plan' = [plan EXCEPT ![p] = s] /\ holder' = [holder EXCEPT ![p] = NoRun]
      /\ live' \subseteq live
      /\ object' = [o \in Objects |-> IF o \in In(p, "downloading") THEN s ELSE object[o]]
      /\ Precommit(p) /\ Consistent(p)
      /\ UNCHANGED <<bound, protected, blob, staged>>
  BY RunFields DEF CommitRecoverRetry, Recovering, IInv, blobs, files
<1>2. ledger = t
  BY <1>1 DEF IInv, LockOK, Undisturbed
<1>3. RunsOK' /\ LockOK'
  BY <1>1, <1>2, RunEnds DEF IInv, Books, RowsOK
<1>4. s \in {"awaiting_local_source", "blocked", "retry_wait"}
  BY DEF RetryState
<1> HIDE DEF s
<1>5. \A o \in Of(p) : object[o] # "staging"
  BY <1>1 DEF Consistent, Phase, Active, In, Inactive
<1>6. Books'
  <2>1. s \in PlanStates /\ s \in ObjectStates
    BY <1>4 DEF PlanStates, ObjectStates
  <2>2. object' \in [Objects -> ObjectStates] /\ holder' \in [Plans -> Runs \union {NoRun}]
    BY <1>1, <2>1 DEF IInv, Books, RowsOK
  <2>3. \A o \in Objects : object'[o] # object[o] => object'[o] \in {s, "integrity_conflict"}
    BY <1>1
  <2> QED BY <1>1, <1>4, <1>5, <2>1, <2>2, <2>3, PlanSetBack DEF IInv
<1> QED BY <1>3, <1>6 DEF IInv

LEMMA CommitRecoverSettleKeeps ==
  ASSUME IInv, NEW t \in Runs, CommitRecoverSettle(t) PROVE IInv'
<1> DEFINE r == [run[t] EXCEPT !.pc = "settling", !.todo = {}]
<1>1. /\ run[t].pc = "recovering" /\ run[t].job \in Plans /\ ledger' = NoRun
      /\ holder' = [holder EXCEPT ![run[t].job] = t] /\ run' = [run EXCEPT ![t] = r]
      /\ UNCHANGED <<plan, object, bound, protected, blob, staged, live>>
  BY RunFields DEF CommitRecoverSettle, Recovering, Goto, IInv, RunsOK, RunStates, objects, blobs, files
<1>2. ledger = t
  BY <1>1 DEF IInv, LockOK, Undisturbed
<1>3. Books'
  BY <1>1 DEF IInv, Books, RowsOK, InUse, BlobsOutliveTheirUse, ProtectedIsNotDeleted, Protected
<1>4. r \in RunStates /\ r.pc = "settling" /\ r.job = run[t].job
  BY RunFields DEF IInv, RunStates, PCs
<1> HIDE DEF r
<1>5. RunsOK'
  BY <1>1, <1>4 DEF IInv, RunsOK
<1>6. run'[t] = r /\ \A x \in Runs : x # t => run'[x] = run[x]
  BY <1>1 DEF IInv, RunsOK
<1>7. Undisturbed(t)'
  BY <1>4, <1>6, AstrayIsUndisturbed DEF Astray
<1>8. LockOK'
  BY <1>1, <1>2, <1>6, <1>7, OthersStay DEF IInv, Books, RowsOK
<1> QED BY <1>3, <1>5, <1>8 DEF IInv

LEMMA MarkRecoveryFailedKeeps ==
  ASSUME IInv, NEW t \in Runs, MarkRecoveryFailed(t) PROVE IInv'
<1>1. /\ Unlocked /\ EndRun(t) /\ live' \subseteq live
      /\ plan' = plan \/ plan' = [plan EXCEPT ![run[t].job] = "recovering"]
      /\ UNCHANGED <<holder, object, bound, protected, blob, staged, ledger>>
  BY DEF MarkRecoveryFailed, objects, blobs, files
<1>2. RunsOK' /\ LockOK'
  BY <1>1, RunEnds DEF Unlocked
<1>3. RowsOK' /\ \A q \in Plans : plan'[q] \in {plan[q], "recovering"}
  BY <1>1 DEF IInv, Books, RowsOK, PlanStates
<1>4. Books'
  BY <1>1, <1>3, ObjectAssumption
     DEF IInv, Books, InUse, BlobsOutliveTheirUse, ProtectedIsNotDeleted, Protected
<1> QED BY <1>2, <1>4 DEF IInv

-----------------------------------------------------------------------------
(* Eviction and the owner.                                                 *)

LEMMA ClaimEvictionKeeps ==
  ASSUME IInv, NEW e \in Evictors, NEW b \in Blobs, ClaimEviction(e, b) PROVE IInv'
<1>1. /\ ~Pinned(b) /\ ~Protected(b) /\ blob' = [blob EXCEPT ![b] = "deleting"]
      /\ blob[b] \in {"ready", "deleting"}
      /\ UNCHANGED <<plan, holder, object, bound, protected, run, staged, ledger, live>>
  BY DEF ClaimEviction, plans, objects, files, runs
<1>2. RunsOK' /\ LockOK'
  BY <1>1, RunsStay DEF IInv
<1>3. RowsOK' /\ InUse'
  BY <1>1 DEF IInv, Books, RowsOK, InUse, BlobStates
<1>4. \A o \in Objects : object[o] = "staging" => bound[o] # b
  BY <1>1 DEF Pinned, IInv, Books, InUse
<1>5. \A c \in Blobs : blob'[c] = IF c = b THEN "deleting" ELSE blob[c]
  BY <1>1 DEF IInv, Books, RowsOK
<1>6. BlobsOutliveTheirUse'
  BY <1>1, <1>4, <1>5 DEF IInv, Books, InUse, BlobsOutliveTheirUse
<1>7. ProtectedIsNotDeleted'
  BY <1>1, <1>5 DEF IInv, Books, ProtectedIsNotDeleted, Protected
<1> QED BY <1>2, <1>3, <1>6, <1>7 DEF IInv, Books

LEMMA CompleteEvictionKeeps ==
  ASSUME IInv, NEW e \in Evictors, CompleteEviction(e) PROVE IInv'
<1> DEFINE b == target[e]
<1>1. UNCHANGED <<plan, holder, bound, protected, run, staged, ledger, live>>
  BY DEF CompleteEviction, files, runs
<1>2. RunsOK' /\ LockOK'
  BY <1>1, RunsStay DEF IInv
<1>3. CASE UNCHANGED <<object, blob>>
  BY <1>1, <1>2, <1>3, BooksStay DEF IInv
<1>4. CASE /\ blob[b] = "deleting" /\ blob' = [blob EXCEPT ![b] = "evicted"]
           /\ object' = [o \in Objects |-> IF bound[o] = b /\ object[o] = "ready" THEN "evicted" ELSE object[o]]
  <2>1. RowsOK'
    BY <1>1, <1>4 DEF IInv, Books, RowsOK, BlobStates, ObjectStates
  <2>2. ASSUME NEW o \in Objects, object'[o] \in {"ready", "staging"}
        PROVE  object'[o] = object[o] /\ (object[o] = "ready" => bound[o] # b)
    BY <1>4, <2>2
  <2>3. \A c \in Blobs : c # b => blob'[c] = blob[c]
    BY <1>4 DEF IInv, Books, RowsOK
  <2>4. InUse' /\ BlobsOutliveTheirUse'
    BY <1>1, <1>4, <2>2, <2>3 DEF IInv, Books, InUse, BlobsOutliveTheirUse
  <2>5. ProtectedIsNotDeleted'
    BY <1>1, <1>4 DEF IInv, Books, RowsOK, ProtectedIsNotDeleted, Protected
  <2> QED BY <1>2, <2>1, <2>4, <2>5 DEF IInv, Books
<1>5. \/ UNCHANGED <<object, blob>>
      \/ /\ blob[b] = "deleting" /\ blob' = [blob EXCEPT ![b] = "evicted"]
         /\ object' = [o \in Objects |-> IF bound[o] = b /\ object[o] = "ready" THEN "evicted" ELSE object[o]]
  BY DEF CompleteEviction, Claims, blobs
<1> QED BY <1>3, <1>4, <1>5

LEMMA RestoreEvictionKeeps ==
  ASSUME IInv, NEW e \in Evictors, RestoreEviction(e) PROVE IInv'
<1>1. /\ UNCHANGED <<plan, holder, object, bound, protected, run, staged, ledger, live>>
      /\ UNCHANGED blob \/ blob' = [blob EXCEPT ![target[e]] = "ready"]
  BY DEF RestoreEviction, plans, objects, blobs, files, runs
<1>2. RunsOK' /\ LockOK'
  BY <1>1, RunsStay DEF IInv
<1>3. \A c \in Blobs : blob'[c] \in {blob[c], "ready"}
  BY <1>1 DEF IInv, Books, RowsOK
<1>4. RowsOK' /\ InUse'
  BY <1>1 DEF IInv, Books, RowsOK, InUse, BlobStates
<1>5. BlobsOutliveTheirUse' /\ ProtectedIsNotDeleted'
  BY <1>1, <1>3 DEF IInv, Books, InUse, BlobsOutliveTheirUse, ProtectedIsNotDeleted, Protected
<1> QED BY <1>2, <1>4, <1>5 DEF IInv, Books

LEMMA AdminRetryKeeps == ASSUME IInv, NEW o \in Objects, AdminRetry(o) PROVE IInv'
<1> DEFINE p == PlanOf[o]
<1>1. /\ p \in Plans /\ Unlocked /\ \A x \in Of(p) : object[x] \in Retryable \union {"ready"}
      /\ plan' = [plan EXCEPT ![p] = "retry_wait"]
      /\ UNCHANGED <<holder, bound, protected, blob, run, staged, ledger, live>>
      /\ \E again \in {{o}, Of(p)} : object' = [x \in Objects |-> IF x \in again THEN "retry_wait" ELSE object[x]]
  BY ObjectAssumption DEF AdminRetry, blobs, files, runs
<1>2. RunsOK' /\ LockOK'
  BY <1>1, RunsStay DEF IInv
<1>3. \A x \in Of(p) : object[x] # "staging"
  BY <1>1 DEF Retryable
<1>4. Books'
  BY <1>1, <1>3, PlanSetBack DEF IInv, Books, RowsOK, ObjectStates, PlanStates
<1> QED BY <1>2, <1>4 DEF IInv

LEMMA OwnerKeeps == ASSUME IInv, NEW o \in Objects, Protect(o) \/ Unprotect(o) PROVE IInv'
<1>1. UNCHANGED <<plan, holder, object, bound, blob, run, staged, ledger, live>>
  BY DEF Protect, Unprotect, plans, blobs, files, runs
<1>2. RunsOK' /\ LockOK'
  BY <1>1, RunsStay DEF IInv
<1>3. RowsOK' /\ InUse' /\ BlobsOutliveTheirUse'
  BY <1>1 DEF IInv, Books, RowsOK, InUse, BlobsOutliveTheirUse, Protect, Unprotect
<1>4. ProtectedIsNotDeleted'
  BY <1>1 DEF IInv, Books, ProtectedIsNotDeleted, Protected, Protect, Unprotect
<1> QED BY <1>2, <1>3, <1>4 DEF IInv, Books

-----------------------------------------------------------------------------
LEMMA AsideKeeps ==
  ASSUME IInv,
         \/ \E e \in Evictors : Unlink(e) \/ UnlinkFails(e) \/ CrashEvictor(e)
         \/ \E b \in Blobs : EvictionExpires(b)
         \/ \E t \in Runs : LeaseExpires(t)
         \/ UNCHANGED vars
  PROVE  IInv'
<1>1. /\ UNCHANGED <<plan, holder, object, bound, protected, blob, run, staged, ledger>>
      /\ live' \subseteq live
  BY DEF Unlink, UnlinkFails, CrashEvictor, EvictionExpires, LeaseExpires, vars, db, plans, objects,
         blobs, files, runs
<1> QED BY <1>1, BooksStay, RunsStay DEF IInv

\* The steps that leave the rows alone.
RowsAlone(t) ==
    \/ StageObject(t) \/ SourceUnavailable(t) \/ PostLimitReached(t) \/ StagingFails(t)
    \/ NothingStaged(t) \/ BeginPublish(t) \/ PublishRefused(t) \/ LinkFile(t) \/ PublishRollsBack(t)
    \/ SettleFile(t) \/ BeginFail(t) \/ FailRefused(t) \/ CleanFile(t) \/ FailRollsBack(t)
    \/ \E p \in Plans : BeginRecover(t, p)
    \/ RecoverFile(t) \/ RecoverBreaks(t) \/ CrashRun(t)
    \/ \E o \in Objects : ReconcileOrphan(t, o)

LEMMA RowsAloneKeeps == ASSUME IInv, NEW t \in Runs, RowsAlone(t) PROVE IInv'
<1>1. UNCHANGED db
  BY DEF RowsAlone, StageObject, SourceUnavailable, PostLimitReached, StagingFails, NothingStaged,
         BeginPublish, PublishRefused, LinkFile, PublishRollsBack, SettleFile, BeginFail, FailRefused,
         CleanFile, FailRollsBack, BeginRecover, RecoverFile, RecoverBreaks, CrashRun, ReconcileOrphan, StaleLease
<1>2. Books'
  BY <1>1, BooksStay DEF IInv, db, plans, objects, blobs
<1>3. RunsOK' /\ LockOK'
  BY StageObjectKeeps, SourceUnavailableKeeps, StagingEndsKeeps, BeginPublishKeeps, PublishRefusedKeeps,
     LinkFileKeeps, PublishRollsBackKeeps, SettleFileKeeps, BeginFailKeeps, FailingEndsKeeps,
     CleanFileKeeps, BeginRecoverKeeps, RecoverFileKeeps, RecoverBreaksKeeps, CrashRunKeeps,
     ReconcileOrphanKeeps DEF RowsAlone
<1> QED BY <1>2, <1>3 DEF IInv

\* The steps that change them.
RowsChange(t) ==
    \/ \E p \in Plans : ClaimPostPlan(t, p)
    \/ SkipClaimedObject(t) \/ CommitPublish(t) \/ CompleteSettlement(t) \/ CommitFail(t)
    \/ CommitRecoverRetry(t) \/ CommitRecoverSettle(t) \/ MarkRecoveryFailed(t)

LEMMA StepsAre ==
  ASSUME Next
  PROVE  \/ \E t \in Runs : RowsAlone(t) \/ RowsChange(t)
         \/ \E e \in Evictors : CompleteEviction(e) \/ RestoreEviction(e) \/ \E b \in Blobs : ClaimEviction(e, b)
         \/ \E o \in Objects : AdminRetry(o) \/ Protect(o) \/ Unprotect(o)
         \/ \E e \in Evictors : Unlink(e) \/ UnlinkFails(e) \/ CrashEvictor(e)
         \/ \E b \in Blobs : EvictionExpires(b)
         \/ \E t \in Runs : LeaseExpires(t)
BY DEF Next, RunStep, RecoveryStep, EvictorStep, Environment, Administration, RowsAlone, RowsChange

LEMMA StepKeeps == ASSUME IInv, [Next]_vars PROVE IInv'
<1>1. CASE Next
  <2>1. CASE \E t \in Runs : RowsAlone(t) \/ RowsChange(t)
    BY <2>1, RowsAloneKeeps, ClaimKeeps, SkipClaimedObjectKeeps, CommitPublishKeeps, CompleteSettlementKeeps,
       CommitFailKeeps, CommitRecoverRetryKeeps, CommitRecoverSettleKeeps, MarkRecoveryFailedKeeps
       DEF RowsChange
  <2>2. CASE \E e \in Evictors : CompleteEviction(e) \/ RestoreEviction(e) \/ \E b \in Blobs : ClaimEviction(e, b)
    BY <2>2, CompleteEvictionKeeps, RestoreEvictionKeeps, ClaimEvictionKeeps
  <2>3. CASE \E o \in Objects : AdminRetry(o) \/ Protect(o) \/ Unprotect(o)
    BY <2>3, AdminRetryKeeps, OwnerKeeps
  <2> QED BY <1>1, <2>1, <2>2, <2>3, StepsAre, AsideKeeps
<1>2. CASE UNCHANGED vars
  BY <1>2, AsideKeeps
<1> QED BY <1>1, <1>2

LEMMA Invariance == Spec => []IInv
BY Starts, StepKeeps, PTL DEF Spec

\* A blob under an active protection is never being deleted, for any posts that share it,
\* whichever of protection (object-policy-service.ts), publication and eviction came first.
THEOREM ProtectionIsKept == Spec => []ProtectedIsNotDeleted
<1>1. IInv => ProtectedIsNotDeleted
  BY DEF IInv, Books
<1> QED BY <1>1, Invariance, PTL

\* What a ready object needs is on disk or being deleted, and what a plan has yet to settle stays
\* ready, whatever eviction-repository.ts does between the two commits of a publication.
THEOREM BlobsStayWhileUsed == Spec => []BlobsOutliveTheirUse
<1>1. IInv => BlobsOutliveTheirUse
  BY DEF IInv, Books
<1> QED BY <1>1, Invariance, PTL

\* No step binds an original to another content (recordPublishedObjects).
LEMMA BindingStays == ASSUME IInv, [Next]_vars PROVE \A o \in Objects : bound[o] # NoBlob => bound'[o] = bound[o]
<1>1. ASSUME NEW t \in Runs, CommitPublish(t)
      PROVE  \A o \in Objects : bound[o] # NoBlob => bound'[o] = bound[o]
  <2>1. run[t].pc = "publishing" /\ bound' = [o \in Objects |-> IF o \in run[t].list THEN staged[t][o] ELSE bound[o]]
    BY <1>1 DEF CommitPublish, Publishing
  <2>2. \A o \in run[t].list : bound[o] \in {NoBlob, staged[t][o]}
    BY <2>1 DEF IInv, LockOK, Undisturbed
  <2> QED BY <2>1, <2>2
<1>2. CASE UNCHANGED bound
  BY <1>2
<1>3. ASSUME NEW t \in Runs, RowsAlone(t) PROVE UNCHANGED bound
  BY <1>3 DEF RowsAlone, StageObject, SourceUnavailable, PostLimitReached, StagingFails, NothingStaged,
         BeginPublish, PublishRefused, LinkFile, PublishRollsBack, SettleFile, BeginFail, FailRefused,
         CleanFile, FailRollsBack, BeginRecover, RecoverFile, RecoverBreaks, CrashRun, ReconcileOrphan, StaleLease,
         db, objects
<1>4. ASSUME NEW t \in Runs, RowsChange(t), ~CommitPublish(t) PROVE UNCHANGED bound
  BY <1>4 DEF RowsChange, ClaimPostPlan, SkipClaimedObject, CompleteSettlement, CommitFail,
         CommitRecoverRetry, CommitRecoverSettle, MarkRecoveryFailed, objects
<1>5. ASSUME Next, ~\E t \in Runs : RowsAlone(t) \/ RowsChange(t) PROVE UNCHANGED bound
  BY <1>5, StepsAre DEF CompleteEviction, RestoreEviction, ClaimEviction, AdminRetry, Protect, Unprotect,
         Unlink, UnlinkFails, CrashEvictor, EvictionExpires, LeaseExpires, db, objects
<1>6. CASE UNCHANGED vars
  BY <1>6, <1>2 DEF vars, db, objects
<1> QED BY <1>1, <1>2, <1>3, <1>4, <1>5, <1>6

\* Once bound to a content, an original never becomes another one: not over evictions, retries
\* and sources that deliver something else, for any number of runs of the same plan.
THEOREM BindingLasts == Spec => BindingIsForLife
BY Invariance, BindingStays, PTL DEF Spec, BindingIsForLife

-----------------------------------------------------------------------------
(* Counters, leases, names and files                                        *)

\* A plan in its lease has objects at work in the one state of its phase, and no other active ones.
LeaseOK(p) ==
    /\ plan[p] \in Leased <=> holder[p] # NoRun
    /\ plan[p] \in Leased <=> reserved[p] > 0
    /\ plan[p] \in Leased => Consistent(p)
Leases == \A p \in Plans : LeaseOK(p)

\* The shape of the rest, counters apart from what LedgerAddsUp says of them.
MoreTypes ==
    /\ reserved \in [Plans -> Nat] /\ readyOriginal \in [Plans -> Int]
    /\ attempts \in [Plans -> 0 .. MaxAttempts]
    /\ evictor \in [Blobs -> Evictors \union {NoRun}] /\ evictLive \subseteq Blobs
    /\ final \subseteq Blobs /\ twin \subseteq Runs \X Objects
    /\ epc \in [Evictors -> {"idle", "unlinking", "completing", "restoring"}]
    /\ target \in [Evictors -> Blobs \union {NoBlob}]
    /\ \A e \in Evictors : epc[e] # "idle" => target[e] \in Blobs
    /\ faults \in 0 .. MaxFaults

\* What a run relies on while the lease of its plan is its own, and while it has the lock.
AtWork(t) ==
    /\ run[t].pc # "idle" => \A p \in Plans : holder[p] = t => run[t].job = p
    /\ run[t].pc = "staging" =>
          /\ \A o \in run[t].todo : staged[t][o] = NoBlob
          /\ holder[run[t].job] = t =>
                /\ run[t].todo \union run[t].list \union run[t].apart \subseteq In(run[t].job, "downloading")
                /\ run[t].todo \intersect run[t].list = {} /\ run[t].todo \intersect run[t].apart = {}
                /\ run[t].list \intersect run[t].apart = {}
    /\ run[t].pc \in {"publishing", "cleaning"} => holder[run[t].job] = t
    /\ run[t].pc = "publishing" =>
          /\ run[t].list # {} /\ run[t].list = In(run[t].job, "downloading") /\ run[t].todo \subseteq run[t].list
          /\ \A o \in run[t].list : blob[staged[t][o]] # "deleting"
    /\ run[t].pc = "cleaning" => run[t].apart \subseteq Active(run[t].job)
    /\ run[t].pc = "recovering" => plan[run[t].job] \in Leased
    /\ run[t].pc = "recovering" /\ ~Precommit(run[t].job) =>
          /\ run[t].todo \subseteq In(run[t].job, "staging")
          /\ StagedFiles(holder[run[t].job]) \subseteq run[t].list
          /\ IF run[t].list \subseteq In(run[t].job, "staging")
             THEN StagedFiles(holder[run[t].job]) \subseteq run[t].todo
             ELSE run[t].todo = In(run[t].job, "staging")
    /\ run[t].pc = "settling" =>
          \A o \in run[t].todo : staged[t][o] # NoBlob =>
              /\ holder[run[t].job] = t /\ PlanOf[o] = run[t].job
              /\ object[o] = "staging" /\ bound[o] = staged[t][o]
Work == \A t \in Runs : AtWork(t)

\* A staging name that shares an inode exists; an evictor that removed the file of the blob it
\* claims has not seen it come back.
NamesOK ==
    /\ \A n \in twin : staged[n[1]][n[2]] # NoBlob
    /\ \A e \in Evictors : epc[e] = "completing" /\ Claims(e, target[e]) => target[e] \notin final

LInv == MoreTypes /\ LedgerAddsUp /\ Leases /\ Work /\ NamesOK /\ UncountedFilesAreOwned

\* Nothing is leased, counted or on disk at first.
LEMMA LedgerStarts == Init => LInv
<1> SUFFICES ASSUME Init PROVE LInv
  OBVIOUS
<1>1. MoreTypes
  BY LimitAssumption DEF Init, MoreTypes
<1>2. \A o \in Objects : object[o] \in {"discovered", "awaiting_local_source"}
  BY ObjectAssumption DEF Init
<1>3. {b \in Blobs : blob[b] \in {"ready", "deleting"}} = {} /\ \A p \in Plans : In(p, "ready") = {}
  BY <1>2 DEF Init, In, Of
<1>4. LedgerAddsUp
  <2>1. SumFunctionOnSet(reserved, Plans) = 0
    BY ObjectAssumption, SumOfZeros DEF Init
  <2> QED BY <1>3, <2>1, SumOfNone DEF Init, LedgerAddsUp, BlobBytes, Bytes
<1>5. Leases
  BY DEF Init, Leases, LeaseOK, Leased
<1>6. Work
  BY DEF Init, Work, AtWork, Idle
<1>7. NamesOK /\ UncountedFilesAreOwned
  BY DEF Init, NamesOK, UncountedFilesAreOwned
<1> QED BY <1>1, <1>4, <1>5, <1>6, <1>7 DEF LInv

-----------------------------------------------------------------------------
(* Leases: each step keeps them complete.                                  *)

\* A plan whose lease stays, and whose active objects do.
LEMMA LeaseStays ==
  ASSUME NEW q \in Plans, LeaseOK(q), holder'[q] = holder[q], reserved'[q] = reserved[q],
         plan'[q] = plan[q] \/ (plan[q] \notin Leased /\ plan'[q] \notin Leased),
         plan[q] \in Leased => \A o \in Of(q) : object'[o] = object[o] \/ (object[o] \in Inactive /\ object'[o] \in Inactive)
  PROVE  LeaseOK(q)'
<1>1. CASE plan[q] \notin Leased
  BY <1>1 DEF LeaseOK
<1>2. CASE plan[q] \in Leased
  <2>1. plan'[q] = plan[q]
    BY <1>2
  <2>2. Active(q)' = Active(q) /\ In(q, "downloading")' = In(q, "downloading") /\ In(q, "staging")' = In(q, "staging")
    BY <1>2 DEF Active, In, Of, Inactive
  <2>3. Precommit(q)' <=> Precommit(q)
    BY <2>1, <2>2 DEF Precommit
  <2>4. Consistent(q)' <=> Consistent(q)
    BY <2>2, <2>3 DEF Consistent, Phase
  <2> QED BY <2>1, <2>4 DEF LeaseOK
<1> QED BY <1>1, <1>2

\* A plan that is given back, and the others untouched.
LEMMA LeaseEnds ==
  ASSUME RowsOK, MoreTypes, Leases, NEW p \in Plans, NEW s, s \notin Leased, plan' = [plan EXCEPT ![p] = s],
         holder' = [holder EXCEPT ![p] = NoRun], reserved' = [reserved EXCEPT ![p] = 0],
         \A o \in Objects : o \notin Of(p) => object'[o] = object[o]
  PROVE  Leases'
<1> SUFFICES ASSUME NEW q \in Plans PROVE LeaseOK(q)'
  BY DEF Leases
<1>1. CASE q = p
  BY <1>1 DEF LeaseOK, RowsOK, MoreTypes
<1>2. CASE q # p
  <2>1. \A o \in Of(q) : object'[o] = object[o]
    BY <1>2 DEF Of
  <2>2. plan'[q] = plan[q] /\ holder'[q] = holder[q] /\ reserved'[q] = reserved[q]
    BY <1>2 DEF RowsOK, MoreTypes
  <2> QED BY <2>1, <2>2, LeaseStays DEF Leases
<1> QED BY <1>1, <1>2

\* What a claim asks for, with what it may be compared to.
LEMMA RequestIsPositive ==
  ASSUME RowsOK, MoreTypes, NEW p \in Plans, Active(p) # {}, readyOriginal[p] < PostMax
  PROVE  Request(p) \in Nat \ {0}
<1>1. \A o \in Objects : Reservation[o] \in Nat \ {0}
  BY ObjectAssumption, ContentAssumption DEF Reservation
<1>2. PICK o \in Active(p) : TRUE
  OBVIOUS
<1>3. Active(p) \subseteq Objects /\ IsFiniteSet(Active(p))
  BY ObjectAssumption, FS_Subset DEF Active, Of
<1>4. Bytes(Active(p), Reservation) \in Nat /\ Reservation[o] <= Bytes(Active(p), Reservation)
  <2> HIDE DEF Reservation
  <2>1. \A x \in Active(p) : Reservation[x] \in Nat
    BY <1>1, <1>3
  <2> QED BY <1>3, <2>1, SumIsNat DEF Bytes
<1>5. Reservation[o] \in Nat \ {0}
  BY <1>1, <1>3
<1>6. PostMax - readyOriginal[p] \in Nat \ {0}
  BY LimitAssumption DEF MoreTypes
<1> HIDE DEF Reservation
<1> QED BY <1>4, <1>5, <1>6 DEF Request, Smaller

\* A claim takes a lease on a plan without one, and with it a reservation of at least a byte.
LEMMA ClaimKeepsLeases ==
  ASSUME IInv, LInv, NEW t \in Runs, NEW p \in Plans, ClaimPostPlan(t, p) PROVE Leases' /\ reserved' \in [Plans -> Nat]
<1>1. /\ Active(p) # {} /\ readyOriginal[p] < PostMax
      /\ plan' = [plan EXCEPT ![p] = "staging"] /\ holder' = [holder EXCEPT ![p] = t]
      /\ reserved' = [reserved EXCEPT ![p] = Request(p)]
      /\ object' = [o \in Objects |-> IF o \in Active(p) THEN "downloading" ELSE object[o]]
  BY DEF ClaimPostPlan
<1>2. Request(p) \in Nat \ {0}
  BY <1>1, RequestIsPositive DEF IInv, Books, LInv
<1>3. ASSUME NEW q \in Plans, q # p PROVE LeaseOK(q)'
  <2>1. \A o \in Of(q) : object'[o] = object[o]
    BY <1>1, <1>3 DEF Active, Of
  <2>2. plan'[q] = plan[q] /\ holder'[q] = holder[q] /\ reserved'[q] = reserved[q]
    BY <1>1, <1>3 DEF IInv, Books, LInv, RowsOK, MoreTypes
  <2> QED BY <2>1, <2>2, LeaseStays DEF LInv, Leases
<1>4. LeaseOK(p)'
  <2>1. plan'[p] = "staging" /\ holder'[p] # NoRun /\ reserved'[p] > 0
    BY <1>1, <1>2, RunAssumption DEF IInv, Books, LInv, RowsOK, MoreTypes
  <2>2. Active(p)' = Active(p) /\ In(p, "downloading")' = Active(p)
    BY <1>1 DEF Active, In, Of, Inactive
  <2>3. Consistent(p)'
    BY <1>1, <2>1, <2>2 DEF Consistent, Phase, Precommit
  <2> QED BY <2>1, <2>3 DEF LeaseOK, Leased
<1>5. reserved' \in [Plans -> Nat]
  BY <1>1, <1>2 DEF LInv, MoreTypes
<1> QED BY <1>3, <1>4, <1>5 DEF Leases

\* The objects of a claimed plan are being downloaded, those of a committed plan are staged.
LEMMA ClaimedPlan ==
  ASSUME Leases, NEW p \in Plans, plan[p] = "staging"
  PROVE  In(p, "downloading") # {} /\ Active(p) = In(p, "downloading")
BY DEF Leases, LeaseOK, Consistent, Phase, Precommit, Leased

\* Skipping leaves an object to download: what the run has staged.
LEMMA SkipKeepsLeases == ASSUME IInv, LInv, NEW t \in Runs, SkipClaimedObject(t) PROVE Leases'
<1>1. /\ run[t].pc = "staging" /\ run[t].apart # {} /\ run[t].list # {} /\ UNCHANGED <<plan, holder, reserved>>
      /\ run[t].apart \subseteq Objects /\ run[t].job \in Plans
  BY RunFields DEF SkipClaimedObject, AllStaged, plans, IInv
<1> PICK p \in Plans, o \in run[t].apart : p = run[t].job /\ o = First(run[t].apart)
  BY <1>1, FirstObject
<1>2. CASE UNCHANGED object
  BY <1>1, <1>2, LeaseStays DEF LInv, Leases
<1>3. CASE Fenced(t, p, "staging") /\ object' = [object EXCEPT ![o] = "skipped"]
  <2>2. /\ run[t].list \subseteq In(p, "downloading") /\ o \in In(p, "downloading") /\ o \notin run[t].list
    BY <1>1, <1>3 DEF LInv, Work, AtWork, Fenced
  <2>3. plan[p] = "staging" /\ Active(p) = In(p, "downloading")
    BY <1>1, <1>3, ClaimedPlan DEF LInv, Fenced
  <2>4. \A x \in Objects : object'[x] = IF x = o THEN "skipped" ELSE object[x]
    BY <1>3 DEF IInv, Books, RowsOK
  <2>5. In(p, "downloading")' = In(p, "downloading") \ {o} /\ Active(p)' = Active(p) \ {o}
    BY <2>4 DEF In, Of, Active, Inactive
  <2>6. In(p, "downloading")' # {} /\ Active(p)' = In(p, "downloading")'
    BY <1>1, <2>2, <2>3, <2>5
  <2>7. Consistent(p)'
    BY <1>1, <2>3, <2>6 DEF Consistent, Phase, Precommit
  <2>8. LeaseOK(p)'
    BY <1>1, <2>7 DEF LInv, Leases, LeaseOK
  <2>9. ASSUME NEW q \in Plans, q # p PROVE LeaseOK(q)'
    <3>1. \A x \in Of(q) : object'[x] = object[x]
      BY <2>2, <2>4, <2>9 DEF In, Of
    <3> QED BY <1>1, <3>1, LeaseStays DEF LInv, Leases
  <2> QED BY <2>8, <2>9 DEF Leases
<1> QED BY <1>2, <1>3 DEF SkipClaimedObject

\* A plan whose recovery failed stays leased, in the phase its objects tell.
LEMMA MarkKeepsLeases == ASSUME IInv, LInv, NEW t \in Runs, MarkRecoveryFailed(t) PROVE Leases'
<1>1. run[t].pc = "broken" /\ UNCHANGED <<holder, reserved, object>> /\ run[t].job \in Plans
  BY RunFields DEF MarkRecoveryFailed, objects, IInv
<1> PICK p \in Plans : p = run[t].job
  BY <1>1
<1>2. CASE UNCHANGED plan
  BY <1>1, <1>2, LeaseStays DEF LInv, Leases
<1>3. CASE Expired(p) /\ plan' = [plan EXCEPT ![p] = "recovering"]
  <2>1. ASSUME NEW q \in Plans, q # p PROVE LeaseOK(q)'
    <3>1. plan'[q] = plan[q]
      BY <1>3, <2>1 DEF IInv, Books, RowsOK
    <3> QED BY <1>1, <3>1, LeaseStays DEF LInv, Leases
  <2>2. plan'[p] = "recovering" /\ plan[p] \in Leased /\ LeaseOK(p)
    BY <1>1, <1>3 DEF IInv, Books, RowsOK, Expired, LInv, Leases
  <2>3. \A s : In(p, s)' = In(p, s) /\ Active(p)' = Active(p)
    BY <1>1 DEF In, Active, Of
  <2>4. Precommit(p)' <=> Precommit(p)
    BY <2>2, <2>3 DEF Precommit, LeaseOK, Consistent, Phase, Leased, Active, In, Inactive
  <2>5. Consistent(p)'
    BY <2>2, <2>3, <2>4 DEF LeaseOK, Consistent, Phase
  <2>6. LeaseOK(p)'
    BY <1>1, <2>2, <2>5 DEF LeaseOK, Leased
  <2> QED BY <2>1, <2>6 DEF Leases
<1> QED BY <1>2, <1>3 DEF MarkRecoveryFailed

\* What a publication brings back was given up: it belongs to no plan at work.
LEMMA RestoredAre ==
  ASSUME IInv, LInv, NEW t \in Runs, NEW o \in Restored(t)
  PROVE  /\ o \in Objects /\ object[o] \in Restorable /\ bound[o] \in Added(t)
         /\ object[o] \notin {"ready", "downloading", "staging"}
         /\ plan[PlanOf[o]] \in Leased => object[o] \in Inactive
<1>1. o \in Objects /\ object[o] \in Restorable /\ bound[o] \in Added(t)
  BY DEF Restored, Returning
<1>2. object[o] \notin {"ready", "downloading", "staging"}
  BY <1>1 DEF Restorable
<1>3. ASSUME plan[PlanOf[o]] \in Leased PROVE object[o] \in Inactive
  <2>1. PlanOf[o] \in Plans /\ o \in Of(PlanOf[o])
    BY <1>1, ObjectAssumption DEF Of
  <2>2. Consistent(PlanOf[o])
    BY <1>3, <2>1 DEF LInv, Leases, LeaseOK
  <2> QED BY <1>2, <2>1, <2>2 DEF Consistent, Active, In, Phase
<1> QED BY <1>1, <1>2, <1>3

\* The objects of the published plan go over to be settled together; no other leased plan is touched.
LEMMA PublishKeepsLeases == ASSUME IInv, LInv, NEW t \in Runs, CommitPublish(t) PROVE Leases'
<1> PICK p \in Plans, items \in SUBSET Objects : p = run[t].job /\ items = run[t].list
  BY RunFields DEF CommitPublish, Publishing, IInv
<1>1. /\ run[t].pc = "publishing" /\ UNCHANGED <<holder, reserved>>
      /\ plan' = [q \in Plans |-> IF q = p THEN "settling"
                                  ELSE IF q \in Completed(t) THEN "ready" ELSE plan[q]]
      /\ object' = [o \in Objects |-> IF o \in items THEN "staging" ELSE WithRestored(t)[o]]
  BY RunFields DEF CommitPublish, Publishing, IInv
<1>2. plan[p] = "staging" /\ items # {} /\ items = In(p, "downloading") /\ Active(p) = items
  BY <1>1, ClaimedPlan DEF IInv, LockOK, Undisturbed, LInv, Work, AtWork
<1>3. \A o \in Objects : o \notin items =>
         object'[o] = object[o] \/ (o \in Restored(t) /\ object'[o] = "ready")
  BY <1>1 DEF WithRestored
<1>4. ASSUME NEW q \in Plans, q # p PROVE LeaseOK(q)'
  <2>1. plan[q] \in Leased => q \notin Completed(t)
    <3> SUFFICES ASSUME plan[q] \in Leased, q \in Completed(t) PROVE FALSE
      OBVIOUS
    <3>1. Consistent(q)
      BY DEF LInv, Leases, LeaseOK
    <3>2. PICK o \in Of(q) : object[o] \in {"downloading", "staging"}
      BY <3>1 DEF Consistent, In, Phase
    <3>3. WithRestored(t)[o] = object[o]
      BY <3>2, RestoredAre DEF WithRestored, Of
    <3> QED BY <3>2, <3>3 DEF Completed
  <2>2. plan'[q] = plan[q] \/ (plan[q] \notin Leased /\ plan'[q] \notin Leased)
    BY <1>1, <1>4, <2>1 DEF Leased
  <2>3. ASSUME plan[q] \in Leased, NEW o \in Of(q)
        PROVE  object'[o] = object[o] \/ (object[o] \in Inactive /\ object'[o] \in Inactive)
    <3>1. o \in Objects /\ PlanOf[o] = q /\ o \notin items
      BY <1>2, <1>4 DEF Of, In
    <3> QED BY <1>3, <2>3, <3>1, RestoredAre DEF Inactive
  <2> QED BY <1>1, <2>2, <2>3, LeaseStays DEF LInv, Leases
<1>5. LeaseOK(p)'
  <2>1. \A o \in Of(p) : IF o \in items THEN object'[o] = "staging" ELSE object'[o] \in Inactive
    <3> SUFFICES ASSUME NEW o \in Of(p), o \notin items PROVE object'[o] \in Inactive
      BY <1>1 DEF Of
    <3>1. object[o] \in Inactive /\ o \in Objects
      BY <1>2 DEF Active, Of
    <3> QED BY <1>3, <3>1 DEF Inactive
  <2>2. In(p, "staging")' = items /\ Active(p)' = items /\ In(p, "downloading")' = {}
    BY <1>2, <2>1 DEF In, Active, Of, Inactive
  <2>3. plan'[p] = "settling"
    BY <1>1
  <2>4. Consistent(p)'
    BY <1>2, <2>2, <2>3 DEF Consistent, Phase, Precommit
  <2> QED BY <1>1, <1>2, <2>3, <2>4 DEF LInv, Leases, LeaseOK, Leased
<1> QED BY <1>4, <1>5 DEF Leases

\* The transactions of runs, one by one.
LEMMA RowsChangeKeepsLeases == ASSUME IInv, LInv, NEW t \in Runs, RowsChange(t) PROVE Leases'
<1>1. CASE CompleteSettlement(t)
  <2>1. CASE UNCHANGED <<plan, holder, reserved, object>>
    BY <2>1, LeaseStays DEF LInv, Leases
  <2>2. CASE /\ Release(run[t].job, "ready")
             /\ object' = [o \in Objects |-> IF o \in In(run[t].job, "staging") THEN "ready" ELSE object[o]]
    <3>1. run[t].job \in Plans
      BY <1>1, RunFields DEF CompleteSettlement, IInv
    <3>2. \A o \in Objects : o \notin Of(run[t].job) => object'[o] = object[o]
      BY <2>2 DEF In
    <3>3. "ready" \notin Leased
      BY DEF Leased
    <3> QED BY <2>2, <3>1, <3>2, <3>3, LeaseEnds DEF Release, IInv, Books, LInv
  <2> QED BY <1>1, <2>1, <2>2 DEF CompleteSettlement
<1>2. CASE CommitFail(t)
  <2>1. run[t].job \in Plans /\ run[t].apart \subseteq Active(run[t].job)
    BY <1>2, RunFields DEF CommitFail, Cleaning, IInv, LInv, Work, AtWork
  <2>2. \A o \in Objects : o \notin Of(run[t].job) => object'[o] = object[o]
    BY <1>2, <2>1 DEF CommitFail, Active
  <2>3. FailedState(t, run[t].job) \notin Leased
    BY <2>1, FailedStates DEF Leased
  <2> HIDE DEF FailedState
  <2> QED BY <1>2, <2>1, <2>2, <2>3, LeaseEnds DEF CommitFail, Release, IInv, Books, LInv
<1>3. CASE CommitRecoverRetry(t)
  <2>1. run[t].job \in Plans
    BY <1>3, RunFields DEF CommitRecoverRetry, Recovering, IInv
  <2> DEFINE s == IF holder[run[t].job] \in DesktopRuns THEN "awaiting_local_source"
                  ELSE RetryState(MoreAttempts(run[t].job))
  <2>2. s \notin Leased
    BY DEF RetryState, Leased
  <2>3. /\ plan' = [plan EXCEPT ![run[t].job] = s] /\ holder' = [holder EXCEPT ![run[t].job] = NoRun]
        /\ reserved' = [reserved EXCEPT ![run[t].job] = 0]
        /\ object' = [o \in Objects |-> IF o \in In(run[t].job, "downloading") THEN s ELSE object[o]]
    BY <1>3 DEF CommitRecoverRetry
  <2> HIDE DEF s
  <2>4. \A o \in Objects : o \notin Of(run[t].job) => object'[o] = object[o]
    BY <2>3 DEF In
  <2> QED BY <2>1, <2>2, <2>3, <2>4, LeaseEnds DEF IInv, Books, LInv
<1>4. CASE CommitRecoverSettle(t)
  <2> PICK p \in Plans : p = run[t].job
    BY <1>4, RunFields DEF CommitRecoverSettle, Recovering, IInv
  <2>1. /\ UNCHANGED <<plan, reserved, object>> /\ holder' = [holder EXCEPT ![p] = t]
        /\ ledger = t /\ run[t].pc = "recovering" /\ Consistent(p)
    BY <1>4, RunFields DEF CommitRecoverSettle, Recovering, objects, IInv, LockOK, Undisturbed
  <2>2. ASSUME NEW q \in Plans, q # p PROVE LeaseOK(q)'
    <3>1. holder'[q] = holder[q]
      BY <2>1, <2>2 DEF IInv, Books, RowsOK
    <3> QED BY <2>1, <3>1, LeaseStays DEF LInv, Leases
  <2>3. In(p, "staging") # {} /\ ~Precommit(p)
    BY <1>4, <2>1 DEF CommitRecoverSettle, Consistent, Phase
  <2>4. plan[p] \in {"settling", "recovering"}
    BY <2>1, <2>3 DEF IInv, Books, InUse, In, Of
  <2>5. LeaseOK(p)'
    <3>1. holder'[p] # NoRun /\ LeaseOK(p)
      BY <2>1, RunAssumption DEF IInv, Books, RowsOK, LInv, Leases
    <3>2. Consistent(p)'
      BY <2>1 DEF Consistent, Phase, Precommit, In, Active
    <3> QED BY <2>1, <2>4, <3>1, <3>2 DEF LeaseOK, Leased
  <2> QED BY <2>2, <2>5 DEF Leases
<1> QED BY <1>1, <1>2, <1>3, <1>4, ClaimKeepsLeases, SkipKeepsLeases, PublishKeepsLeases, MarkKeepsLeases
        DEF RowsChange

\* Eviction and a retry of the owner touch no leased plan.
LEMMA EvictionKeepsLeases == ASSUME IInv, LInv, NEW e \in Evictors, CompleteEviction(e) PROVE Leases'
<1>1. UNCHANGED <<plan, holder, reserved>>
  BY DEF CompleteEviction
<1>2. \A o \in Objects : object'[o] = object[o] \/ (object[o] \in Inactive /\ object'[o] \in Inactive)
  BY DEF CompleteEviction, Inactive
<1> QED BY <1>1, <1>2, LeaseStays DEF LInv, Leases, Of

LEMMA RetryKeepsLeases == ASSUME IInv, LInv, NEW o \in Objects, AdminRetry(o) PROVE Leases'
<1> DEFINE p == PlanOf[o]
<1>1. /\ p \in Plans /\ reserved[p] = 0 /\ plan' = [plan EXCEPT ![p] = "retry_wait"] /\ UNCHANGED <<holder, reserved>>
      /\ \A x \in Objects : x \notin Of(p) => object'[x] = object[x]
  BY ObjectAssumption DEF AdminRetry, Of
<1>2. \A q \in Plans : plan'[q] = IF q = p THEN "retry_wait" ELSE plan[q]
  BY <1>1 DEF IInv, Books, RowsOK
<1>3. plan[p] \notin Leased
  BY <1>1 DEF LInv, Leases, LeaseOK
<1>4. ASSUME NEW q \in Plans, q # p PROVE LeaseOK(q)'
  BY <1>1, <1>2, <1>4, LeaseStays DEF LInv, Leases, Of
<1>5. LeaseOK(p)'
  BY <1>1, <1>2, <1>3, LeaseStays DEF LInv, Leases, Leased
<1> QED BY <1>4, <1>5 DEF Leases

\* Every step keeps the leases complete.
LEMMA LeasesKept == ASSUME IInv, LInv, [Next]_vars PROVE Leases'
<1>1. ASSUME UNCHANGED <<plan, holder, reserved, object>> PROVE Leases'
  BY <1>1, LeaseStays DEF LInv, Leases
<1>2. ASSUME NEW t \in Runs, RowsAlone(t) PROVE Leases'
  BY <1>1, <1>2 DEF RowsAlone, StageObject, SourceUnavailable, PostLimitReached, StagingFails, NothingStaged,
         BeginPublish, PublishRefused, LinkFile, PublishRollsBack, SettleFile, BeginFail, FailRefused,
         CleanFile, FailRollsBack, BeginRecover, RecoverFile, RecoverBreaks, CrashRun, ReconcileOrphan, StaleLease,
         db, plans, objects
<1>3. CASE \/ \E e \in Evictors : RestoreEviction(e) \/ \E b \in Blobs : ClaimEviction(e, b)
           \/ \E o \in Objects : Protect(o) \/ Unprotect(o)
           \/ \E e \in Evictors : Unlink(e) \/ UnlinkFails(e) \/ CrashEvictor(e)
           \/ \E b \in Blobs : EvictionExpires(b)
           \/ \E t \in Runs : LeaseExpires(t)
           \/ UNCHANGED vars
  BY <1>1, <1>3 DEF RestoreEviction, ClaimEviction, Protect, Unprotect, Unlink, UnlinkFails, CrashEvictor,
         EvictionExpires, LeaseExpires, vars, db, plans, objects
<1> QED BY <1>2, <1>3, StepsAre, RowsChangeKeepsLeases, EvictionKeepsLeases, RetryKeepsLeases

-----------------------------------------------------------------------------
(* Sums of the ledger.                                                     *)

\* Lengths are numbers, and their totals are.
LEMMA Lengths ==
  /\ \A o \in Objects : BoundBytes[o] \in Nat
  /\ \A O \in SUBSET Objects : IsFiniteSet(O) /\ Bytes(O, BoundBytes) \in Nat
  /\ \A B \in SUBSET Blobs : IsFiniteSet(B) /\ BlobBytes(B) \in Nat
<1>1. \A o \in Objects : BoundBytes[o] \in Nat
  BY ContentAssumption DEF BoundBytes
<1>2. ASSUME NEW O \in SUBSET Objects PROVE IsFiniteSet(O) /\ Bytes(O, BoundBytes) \in Nat
  <2> HIDE DEF BoundBytes
  <2>1. IsFiniteSet(O)
    BY ObjectAssumption, FS_Subset
  <2>2. \A o \in O : BoundBytes[o] \in Nat
    BY <1>1
  <2> QED BY <2>1, <2>2, SumIsNat DEF Bytes
<1>3. ASSUME NEW B \in SUBSET Blobs PROVE IsFiniteSet(B) /\ BlobBytes(B) \in Nat
  <2>1. IsFiniteSet(B)
    BY ContentAssumption, FS_Subset
  <2>2. \A b \in B : Size[b] \in Nat
    BY ContentAssumption
  <2> QED BY <2>1, <2>2, SumIsNat DEF BlobBytes
<1> QED BY <1>1, <1>2, <1>3

LEMMA NextLengths == (\A o \in Objects : BoundBytes[o] \in Nat)'
BY ContentAssumption DEF BoundBytes

\* The bytes of a post: of its originals the set S gets ready, the set G is gone.
LEMMA OriginalsAddUp ==
  ASSUME NEW q \in Plans, readyOriginal[q] = Bytes(In(q, "ready"), BoundBytes),
         NEW S \in SUBSET Objects, NEW G \in SUBSET Objects,
         S \intersect In(q, "ready") = {}, G \subseteq In(q, "ready"),
         In(q, "ready")' = (In(q, "ready") \ G) \union S,
         \A o \in In(q, "ready") \union S : bound'[o] = bound[o],
         readyOriginal'[q] = readyOriginal[q] - Bytes(G, BoundBytes) + Bytes(S, BoundBytes)
  PROVE  readyOriginal'[q] = Bytes(In(q, "ready"), BoundBytes)'
<1> DEFINE R == In(q, "ready") \ G
           f == BoundBytes
           g == BoundBytes'
<1>1. In(q, "ready") \in SUBSET Objects /\ R \in SUBSET Objects /\ R \union S \in SUBSET Objects
  BY DEF In, Of
<1>2. /\ IsFiniteSet(G) /\ IsFiniteSet(S) /\ IsFiniteSet(R) /\ IsFiniteSet(R \union S)
      /\ Bytes(S, f) \in Nat /\ Bytes(R, f) \in Nat /\ Bytes(G, f) \in Nat
  BY <1>1, Lengths
<1>3. \A o \in Objects : f[o] \in Int /\ g[o] \in Int
  BY Lengths, NextLengths
<1>4. \A o \in R \union S : f[o] = g[o]
  BY <1>1 DEF BoundBytes
<1>5. In(q, "ready") = R \union G /\ R \intersect G = {} /\ R \intersect S = {}
  OBVIOUS
<1>6. In(q, "ready")' = R \union S
  OBVIOUS
<1> HIDE DEF R, f, g
<1>7. SumFunctionOnSet(f, R \union G) = SumFunctionOnSet(f, R) + SumFunctionOnSet(f, G)
  BY <1>1, <1>2, <1>3, <1>5, SumUnion
<1>8. SumFunctionOnSet(f, R \union S) = SumFunctionOnSet(f, R) + SumFunctionOnSet(f, S)
  BY <1>1, <1>2, <1>3, <1>5, SumUnion
<1>9. SumFunctionOnSet(f, R \union S) = SumFunctionOnSet(g, R \union S)
  BY <1>2, <1>4, SumsAgree
<1>10. readyOriginal[q] = SumFunctionOnSet(f, R) + SumFunctionOnSet(f, G)
  BY <1>5, <1>7 DEF Bytes, f
<1>11. readyOriginal'[q] = readyOriginal[q] - SumFunctionOnSet(f, G) + SumFunctionOnSet(f, S)
  BY DEF Bytes, f
<1>12. readyOriginal'[q] = SumFunctionOnSet(f, R) + SumFunctionOnSet(f, S)
  BY <1>2, <1>10, <1>11 DEF Bytes
<1>13. Bytes(In(q, "ready"), BoundBytes)' = SumFunctionOnSet(g, R \union S)
  BY <1>6 DEF Bytes, g
<1> QED BY <1>8, <1>9, <1>12, <1>13

\* The same originals are ready, with the same contents.
LEMMA OriginalsStay ==
  ASSUME NEW q \in Plans, readyOriginal[q] = Bytes(In(q, "ready"), BoundBytes),
         In(q, "ready")' = In(q, "ready"), \A o \in In(q, "ready") : bound'[o] = bound[o],
         readyOriginal'[q] = readyOriginal[q]
  PROVE  readyOriginal'[q] = Bytes(In(q, "ready"), BoundBytes)'
<1>1. Bytes({}, BoundBytes) = 0
  BY SumOfNone DEF Bytes
<1>2. In(q, "ready") \in SUBSET Objects
  BY DEF In, Of
<1>3. readyOriginal[q] \in Nat
  BY <1>2, Lengths
<1>4. readyOriginal'[q] = readyOriginal[q] - Bytes({}, BoundBytes) + Bytes({}, BoundBytes)
  BY <1>1, <1>3
<1>5. /\ {} \in SUBSET Objects /\ {} \intersect In(q, "ready") = {} /\ {} \subseteq In(q, "ready")
      /\ In(q, "ready")' = (In(q, "ready") \ {}) \union {}
      /\ \A o \in In(q, "ready") \union {} : bound'[o] = bound[o]
  OBVIOUS
<1> QED BY <1>4, <1>5, OriginalsAddUp

\* The reservations: one plan's changes.
LEMMA ReservationsAddUp ==
  ASSUME reserved \in [Plans -> Nat], reservedBytes = SumFunctionOnSet(reserved, Plans),
         NEW p \in Plans, NEW r \in Nat, reserved' = [reserved EXCEPT ![p] = r],
         reservedBytes' = reservedBytes - reserved[p] + r
  PROVE  reservedBytes' = SumFunctionOnSet(reserved', Plans)
<1> DEFINE f == reserved
           g == reserved'
<1>1. /\ \A y \in Plans : f[y] \in Int /\ g[y] \in Int
      /\ \A y \in Plans \ {p} : f[y] = g[y]
      /\ f[p] = reserved[p] /\ g[p] = r
  OBVIOUS
<1> HIDE DEF f, g
<1>2. SumFunctionOnSet(g, Plans) = SumFunctionOnSet(f, Plans) - f[p] + g[p]
  <2>1. IsFiniteSet(Plans)
    BY ObjectAssumption
  <2>2. /\ \A y \in Plans : f[y] \in Int /\ g[y] \in Int
        /\ \A y \in Plans \ {p} : f[y] = g[y]
    BY <1>1
  <2> QED BY ONLY <2>1, <2>2, p \in Plans, SumExcept
<1> QED BY <1>1, <1>2 DEF f, g

Counted == {b \in Blobs : blob[b] \in {"ready", "deleting"}}

\* The parts of LedgerAddsUp.
ReadyBytesOK == readyBytes = BlobBytes(Counted)
ReservedBytesOK == reservedBytes = SumFunctionOnSet(reserved, Plans)
OriginalBytesOK == \A p \in Plans : readyOriginal[p] = Bytes(In(p, "ready"), BoundBytes)
\* The three counters.
LEMMA LedgerParts == LedgerAddsUp <=> ReadyBytesOK /\ ReservedBytesOK /\ OriginalBytesOK
BY DEF LedgerAddsUp, ReadyBytesOK, ReservedBytesOK, OriginalBytesOK, Counted
LEMMA NextLedgerParts == LedgerAddsUp' <=> ReadyBytesOK' /\ ReservedBytesOK' /\ OriginalBytesOK'
BY DEF LedgerAddsUp, ReadyBytesOK, ReservedBytesOK, OriginalBytesOK, Counted

\* A step that leaves the counters, the blobs and the ready objects alone.
LEMMA LedgerStays ==
  ASSUME LedgerAddsUp, UNCHANGED <<readyBytes, reservedBytes, reserved, readyOriginal, bound>>,
         \A b \in Blobs : blob'[b] = blob[b] \/ (blob[b] \in {"ready", "deleting"} /\ blob'[b] \in {"ready", "deleting"}),
         \A o \in Objects : object'[o] = "ready" <=> object[o] = "ready"
  PROVE  LedgerAddsUp'
<1>1. Counted' = Counted
  BY DEF Counted
<1>2. \A p \in Plans : In(p, "ready")' = In(p, "ready")
  BY DEF In, Of
<1>3. BoundBytes' = BoundBytes
  BY DEF BoundBytes
<1>4. ReadyBytesOK' /\ ReservedBytesOK'
  BY <1>1, LedgerParts DEF ReadyBytesOK, ReservedBytesOK
<1>5. OriginalBytesOK'
  BY <1>2, <1>3, LedgerParts DEF OriginalBytesOK
<1> QED BY <1>4, <1>5, NextLedgerParts

-----------------------------------------------------------------------------
(* The counters, step by step.                                             *)

\* A plan's reservation ends and the counter with it.
LEMMA ReleasedReservation ==
  ASSUME LInv, NEW p \in Plans, reserved' = [reserved EXCEPT ![p] = 0], reservedBytes' = reservedBytes - reserved[p]
  PROVE  ReservedBytesOK'
<1>1. reserved \in [Plans -> Nat] /\ reservedBytes = SumFunctionOnSet(reserved, Plans)
  BY LedgerParts DEF LInv, MoreTypes, ReservedBytesOK
<1>2. reservedBytes \in Int
  BY <1>1, SumIsInt, ObjectAssumption
<1>3. 0 \in Nat /\ reservedBytes' = reservedBytes - reserved[p] + 0
  BY <1>1, <1>2
<1> QED BY <1>1, <1>3, ReservationsAddUp DEF ReservedBytesOK

\* A claim adds its reservation; what it downloads was not ready.
LEMMA ClaimAddsUp ==
  ASSUME IInv, LInv, NEW t \in Runs, NEW p \in Plans, ClaimPostPlan(t, p) PROVE LedgerAddsUp'
<1>1. /\ reserved[p] = 0 /\ Active(p) # {} /\ readyOriginal[p] < PostMax
      /\ reserved' = [reserved EXCEPT ![p] = Request(p)] /\ reservedBytes' = reservedBytes + Request(p)
      /\ object' = [o \in Objects |-> IF o \in Active(p) THEN "downloading" ELSE object[o]]
      /\ UNCHANGED <<readyBytes, readyOriginal, bound, blob>>
  BY DEF ClaimPostPlan, blobs
<1>2. Request(p) \in Nat
  BY <1>1, RequestIsPositive DEF IInv, Books, LInv
<1>3. reserved \in [Plans -> Nat] /\ reservedBytes = SumFunctionOnSet(reserved, Plans)
  BY LedgerParts DEF LInv, MoreTypes, ReservedBytesOK
<1>4. reservedBytes \in Int
  BY <1>3, SumIsInt, ObjectAssumption
<1>5. reservedBytes' = reservedBytes - reserved[p] + Request(p)
  BY <1>1, <1>2, <1>4
<1>6. ReservedBytesOK'
  BY <1>1, <1>2, <1>3, <1>5, ReservationsAddUp DEF ReservedBytesOK
<1>7. ReadyBytesOK'
  BY <1>1, LedgerParts DEF LInv, ReadyBytesOK, Counted
<1>8. \A q \in Plans : In(q, "ready")' = In(q, "ready")
  BY <1>1 DEF In, Of, Active, Inactive
<1>9. OriginalBytesOK'
  BY <1>1, <1>8, LedgerParts, OriginalsStay DEF LInv, OriginalBytesOK
<1> QED BY <1>6, <1>7, <1>9, NextLedgerParts

\* A plan is given back: no original of it was or gets ready.
LEMMA GivenBackAddsUp ==
  ASSUME LInv, NEW p \in Plans, reserved' = [reserved EXCEPT ![p] = 0], reservedBytes' = reservedBytes - reserved[p],
         UNCHANGED <<readyBytes, readyOriginal, bound, blob>>,
         \A o \in Objects : object'[o] = "ready" <=> object[o] = "ready"
  PROVE  LedgerAddsUp'
<1>1. ReservedBytesOK'
  BY ReleasedReservation
<1>2. ReadyBytesOK'
  BY LedgerParts DEF LInv, ReadyBytesOK, Counted
<1>3. \A q \in Plans : In(q, "ready")' = In(q, "ready")
  BY DEF In, Of
<1>4. OriginalBytesOK'
  BY <1>3, LedgerParts, OriginalsStay DEF LInv, OriginalBytesOK
<1> QED BY <1>1, <1>2, <1>4, NextLedgerParts

\* A settlement adds the originals of its own plan.
LEMMA SettlementAddsUp == ASSUME IInv, LInv, NEW t \in Runs, CompleteSettlement(t) PROVE LedgerAddsUp'
<1> PICK p \in Plans, items \in SUBSET Objects : p = run[t].job /\ items = In(p, "staging")
  BY RunFields DEF CompleteSettlement, IInv, In, Of
<1>1. UNCHANGED <<bound, blob, readyBytes>>
  BY DEF CompleteSettlement, blobs
<1>2. CASE UNCHANGED <<reserved, reservedBytes, readyOriginal, object>>
  BY <1>1, <1>2, LedgerStays DEF LInv
<1>3. CASE /\ Release(p, "ready")
           /\ readyOriginal' = [readyOriginal EXCEPT ![p] = @ + Bytes(items, BoundBytes)]
           /\ object' = [o \in Objects |-> IF o \in items THEN "ready" ELSE object[o]]
  <2>1. ReservedBytesOK'
    BY <1>3, ReleasedReservation DEF Release
  <2>2. ReadyBytesOK'
    BY <1>1, LedgerParts DEF LInv, ReadyBytesOK, Counted
  <2>3. OriginalBytesOK'
    <3> SUFFICES ASSUME NEW q \in Plans PROVE readyOriginal'[q] = Bytes(In(q, "ready"), BoundBytes)'
      BY DEF OriginalBytesOK
    <3>1. readyOriginal \in [Plans -> Int] /\ readyOriginal[q] = Bytes(In(q, "ready"), BoundBytes)
      BY LedgerParts DEF LInv, MoreTypes, OriginalBytesOK
    <3>2. CASE q = p
      <4>1. In(p, "ready")' = (In(p, "ready") \ {}) \union items /\ items \intersect In(p, "ready") = {}
        BY <1>3 DEF In, Of
      <4>2. Bytes({}, BoundBytes) = 0 /\ Bytes(items, BoundBytes) \in Nat
        BY SumOfNone, Lengths DEF Bytes
      <4>3. readyOriginal'[p] = readyOriginal[p] - Bytes({}, BoundBytes) + Bytes(items, BoundBytes)
        BY <1>3, <3>1, <3>2, <4>2
      <4>4. {} \in SUBSET Objects /\ {} \subseteq In(p, "ready") /\ \A o \in In(q, "ready") \union items : bound'[o] = bound[o]
        BY <1>1
      <4> QED BY <3>1, <3>2, <4>1, <4>3, <4>4, OriginalsAddUp
    <3>3. CASE q # p
      <4>1. In(q, "ready")' = In(q, "ready")
        BY <1>3, <3>3 DEF In, Of
      <4>2. readyOriginal'[q] = readyOriginal[q]
        BY <1>3, <3>1, <3>3
      <4> QED BY <1>1, <3>1, <4>1, <4>2, OriginalsStay
    <3> QED BY <3>2, <3>3
  <2> QED BY <2>1, <2>2, <2>3, NextLedgerParts
<1> QED BY <1>2, <1>3 DEF CompleteSettlement

\* A publication counts the contents that were not on disk, and the objects of any plan whose content is back.
LEMMA PublishAddsUp == ASSUME IInv, LInv, NEW t \in Runs, CommitPublish(t) PROVE LedgerAddsUp'
<1> PICK p \in Plans, items \in SUBSET Objects : p = run[t].job /\ items = run[t].list
  BY RunFields DEF CommitPublish, Publishing, IInv
<1>1. /\ run[t].pc = "publishing" /\ UNCHANGED <<reserved, reservedBytes>>
      /\ readyOriginal' = [q \in Plans |-> readyOriginal[q] + RestoredBytes(t, q)]
      /\ object' = [o \in Objects |-> IF o \in items THEN "staging" ELSE WithRestored(t)[o]]
      /\ bound' = [o \in Objects |-> IF o \in items THEN staged[t][o] ELSE bound[o]]
      /\ blob' = [b \in Blobs |-> IF b \in Offered(t) THEN "ready" ELSE blob[b]]
      /\ readyBytes' = readyBytes + BlobBytes(Added(t))
  BY DEF CommitPublish, Publishing
<1>2. /\ items = In(p, "downloading") /\ \A o \in items : staged[t][o] \in Blobs /\ blob[staged[t][o]] # "deleting"
  BY <1>1 DEF IInv, LockOK, Undisturbed, LInv, Work, AtWork
<1>3. ReservedBytesOK'
  BY <1>1, LedgerParts DEF LInv, ReservedBytesOK
<1>4. ReadyBytesOK'
  <2>1. /\ Counted \in SUBSET Blobs /\ Added(t) \in SUBSET Blobs /\ Counted \intersect Added(t) = {}
        /\ Counted' = Counted \union Added(t)
    BY <1>1, <1>2 DEF Counted, Added, Offered
  <2>2. IsFiniteSet(Counted) /\ IsFiniteSet(Added(t)) /\ \A b \in Counted \union Added(t) : Size[b] \in Int
    BY <2>1, Lengths, ContentAssumption
  <2>3. BlobBytes(Counted \union Added(t)) = BlobBytes(Counted) + BlobBytes(Added(t))
    BY <2>1, <2>2, SumUnion DEF BlobBytes
  <2>4. readyBytes = BlobBytes(Counted)
    BY LedgerParts DEF LInv, ReadyBytesOK
  <2>5. readyBytes' = BlobBytes(Counted')
    BY <1>1, <2>1, <2>3, <2>4
  <2> QED BY <2>5 DEF ReadyBytesOK, BlobBytes
<1>5. OriginalBytesOK'
  <2> SUFFICES ASSUME NEW q \in Plans PROVE readyOriginal'[q] = Bytes(In(q, "ready"), BoundBytes)'
    BY DEF OriginalBytesOK
  <2> PICK S \in SUBSET Objects : S = Restored(t) \intersect Of(q)
    BY DEF Of
  <2>1. readyOriginal \in [Plans -> Int] /\ readyOriginal[q] = Bytes(In(q, "ready"), BoundBytes)
    BY LedgerParts DEF LInv, MoreTypes, OriginalBytesOK
  <2>2. Bytes({}, BoundBytes) = 0 /\ Bytes(S, BoundBytes) \in Nat
    BY SumOfNone, Lengths DEF Bytes
  <2>3. readyOriginal'[q] = readyOriginal[q] - Bytes({}, BoundBytes) + Bytes(S, BoundBytes)
    BY <1>1, <2>1, <2>2 DEF RestoredBytes
  <2>4. \A o \in S : o \notin items /\ o \notin In(q, "ready")
    BY <1>2, RestoredAre DEF In
  <2>5. \A o \in In(q, "ready") : o \notin items
    BY <1>2 DEF In
  <2>6. In(q, "ready")' = (In(q, "ready") \ {}) \union S
    <3>1. \A o \in Of(q) : object'[o] = "ready" <=> (o \in S \/ object[o] = "ready")
      BY <1>1, <2>4, <2>5 DEF WithRestored, Of, In
    <3> QED BY <3>1 DEF In, Of
  <2>7. \A o \in In(q, "ready") \union S : bound'[o] = bound[o]
    BY <1>1, <2>4, <2>5 DEF In, Of
  <2>8. {} \in SUBSET Objects /\ {} \subseteq In(q, "ready") /\ S \intersect In(q, "ready") = {}
    BY <2>4
  <2> QED BY <2>1, <2>3, <2>6, <2>7, <2>8, OriginalsAddUp
<1> QED BY <1>3, <1>4, <1>5, NextLedgerParts

\* An eviction takes the bytes of the blob off, and those of its objects off their plans.
LEMMA EvictionAddsUp == ASSUME IInv, LInv, NEW e \in Evictors, CompleteEviction(e) PROVE LedgerAddsUp'
<1>1. PICK b \in Blobs : b = target[e]
  BY DEF CompleteEviction, LInv, MoreTypes
<1> PICK gone \in SUBSET Objects : gone = {o \in Objects : bound[o] = b /\ object[o] = "ready"}
  OBVIOUS
<1>2. UNCHANGED <<reserved, reservedBytes, bound>>
  BY DEF CompleteEviction
<1>3. CASE UNCHANGED <<object, readyOriginal, blob, readyBytes>>
  BY <1>2, <1>3, LedgerStays DEF LInv
<1>4. CASE /\ blob[b] = "deleting"
           /\ object' = [o \in Objects |-> IF o \in gone THEN "evicted" ELSE object[o]]
           /\ readyOriginal' = [p \in Plans |-> readyOriginal[p] - Bytes(gone \intersect Of(p), BoundBytes)]
           /\ blob' = [blob EXCEPT ![b] = "evicted"]
           /\ readyBytes' = readyBytes - Size[b]
  <2>1. ReservedBytesOK'
    BY <1>2, LedgerParts DEF LInv, ReservedBytesOK
  <2>2. ReadyBytesOK'
    <3>1. Counted \in SUBSET Blobs /\ b \in Counted /\ Counted' = Counted \ {b}
      BY <1>4 DEF Counted, IInv, Books, RowsOK
    <3>2. IsFiniteSet(Counted) /\ \A c \in Counted : Size[c] \in Int
      BY <3>1, Lengths, ContentAssumption
    <3>3. BlobBytes(Counted \ {b}) = BlobBytes(Counted) - Size[b]
      BY <3>1, <3>2, SumRemove DEF BlobBytes
    <3>4. readyBytes = BlobBytes(Counted)
      BY LedgerParts DEF LInv, ReadyBytesOK
    <3>5. readyBytes' = BlobBytes(Counted')
      BY <1>4, <3>1, <3>3, <3>4
    <3> QED BY <3>5 DEF ReadyBytesOK, BlobBytes
  <2>3. OriginalBytesOK'
    <3> SUFFICES ASSUME NEW q \in Plans PROVE readyOriginal'[q] = Bytes(In(q, "ready"), BoundBytes)'
      BY DEF OriginalBytesOK
    <3> PICK G \in SUBSET Objects : G = gone \intersect Of(q)
      OBVIOUS
    <3>1. readyOriginal \in [Plans -> Int] /\ readyOriginal[q] = Bytes(In(q, "ready"), BoundBytes)
      BY LedgerParts DEF LInv, MoreTypes, OriginalBytesOK
    <3>2. Bytes({}, BoundBytes) = 0 /\ Bytes(G, BoundBytes) \in Nat
      BY SumOfNone, Lengths DEF Bytes
    <3>3. readyOriginal'[q] = readyOriginal[q] - Bytes(G, BoundBytes) + Bytes({}, BoundBytes)
      BY <1>4, <3>1, <3>2
    <3>4. In(q, "ready")' = (In(q, "ready") \ G) \union {}
      BY <1>4 DEF In, Of
    <3>5. {} \in SUBSET Objects /\ G \subseteq In(q, "ready") /\ {} \intersect In(q, "ready") = {}
          /\ \A o \in In(q, "ready") \union {} : bound'[o] = bound[o]
      BY <1>2 DEF In
    <3> QED BY <3>1, <3>3, <3>4, <3>5, OriginalsAddUp
  <2> QED BY <2>1, <2>2, <2>3, NextLedgerParts
<1> QED BY <1>1, <1>3, <1>4 DEF CompleteEviction, blobs, Claims

\* A retry touches no ready object.
LEMMA RetryAddsUp == ASSUME IInv, LInv, NEW o \in Objects, AdminRetry(o) PROVE LedgerAddsUp'
<1> PICK p \in Plans : p = PlanOf[o]
  BY ObjectAssumption
<1>1. /\ UNCHANGED <<readyBytes, reservedBytes, reserved, readyOriginal, bound, blob>> /\ object[o] \in Retryable
      /\ \A x \in Of(p) : object[x] \in Retryable \union (IF readyOriginal[p] > 0 THEN {"ready"} ELSE {})
      /\ object' = [x \in Objects |-> IF x \in (IF readyOriginal[p] > 0 THEN {o} ELSE Of(p)) THEN "retry_wait" ELSE object[x]]
  BY DEF AdminRetry, totals, blobs
<1>2. \A x \in Objects : object'[x] = "ready" <=> object[x] = "ready"
  BY <1>1 DEF Retryable
<1> QED BY <1>1, <1>2, LedgerStays DEF LInv

\* The transactions of runs, one by one.
LEMMA RowsChangeAddsUp == ASSUME IInv, LInv, NEW t \in Runs, RowsChange(t) PROVE LedgerAddsUp'
<1>1. CASE SkipClaimedObject(t)
  <2>1. UNCHANGED <<readyBytes, reservedBytes, reserved, readyOriginal, bound, blob>>
    BY <1>1 DEF SkipClaimedObject, plans, totals, blobs
  <2>2. object' = object \/ \E o : object[o] = "downloading" /\ object' = [object EXCEPT ![o] = "skipped"]
    BY <1>1 DEF SkipClaimedObject
  <2>3. \A o \in Objects : object'[o] = "ready" <=> object[o] = "ready"
    BY <2>2 DEF IInv, Books, RowsOK
  <2> QED BY <2>1, <2>3, LedgerStays DEF LInv
<1>2. CASE CommitFail(t)
  <2>1. run[t].job \in Plans /\ run[t].apart \subseteq Active(run[t].job)
    BY <1>2, RunFields DEF CommitFail, Cleaning, IInv, LInv, Work, AtWork
  <2>2. /\ object' = [o \in Objects |-> IF o \in run[t].apart THEN "integrity_conflict"
                                       ELSE IF o \in Active(run[t].job) THEN FailedState(t, run[t].job)
                                       ELSE object[o]]
        /\ reserved' = [reserved EXCEPT ![run[t].job] = 0] /\ reservedBytes' = reservedBytes - reserved[run[t].job]
        /\ UNCHANGED <<readyBytes, readyOriginal, bound, blob>>
    BY <1>2 DEF CommitFail, Release, blobs
  <2>3. FailedState(t, run[t].job) # "ready"
    BY <2>1, FailedStates
  <2> HIDE DEF FailedState
  <2>4. \A o \in Objects : object'[o] = "ready" <=> object[o] = "ready"
    BY <2>1, <2>2, <2>3 DEF Active, Inactive
  <2> QED BY <2>1, <2>2, <2>4, GivenBackAddsUp
<1>3. CASE CommitRecoverRetry(t)
  <2> DEFINE s == IF holder[run[t].job] \in DesktopRuns THEN "awaiting_local_source"
                  ELSE RetryState(MoreAttempts(run[t].job))
  <2>1. /\ object' = [o \in Objects |-> IF o \in In(run[t].job, "downloading") THEN s ELSE object[o]]
        /\ reserved' = [reserved EXCEPT ![run[t].job] = 0] /\ reservedBytes' = reservedBytes - reserved[run[t].job]
        /\ UNCHANGED <<readyBytes, readyOriginal, bound, blob>> /\ run[t].job \in Plans
    BY <1>3, RunFields DEF CommitRecoverRetry, Recovering, IInv, blobs
  <2>2. s # "ready"
    BY DEF RetryState
  <2> HIDE DEF s
  <2>3. \A o \in Objects : object'[o] = "ready" <=> object[o] = "ready"
    BY <2>1, <2>2 DEF In
  <2> QED BY <2>1, <2>3, GivenBackAddsUp
<1>4. CASE CommitRecoverSettle(t) \/ MarkRecoveryFailed(t)
  <2>1. UNCHANGED <<readyBytes, reservedBytes, reserved, readyOriginal, bound, blob, object>>
    BY <1>4 DEF CommitRecoverSettle, MarkRecoveryFailed, totals, blobs, objects
  <2> QED BY <2>1, LedgerStays DEF LInv
<1> QED BY <1>1, <1>2, <1>3, <1>4, ClaimAddsUp, SettlementAddsUp, PublishAddsUp DEF RowsChange

\* Every step keeps the counters the sums they stand for.
LEMMA LedgerKept == ASSUME IInv, LInv, [Next]_vars PROVE LedgerAddsUp'
<1>1. ASSUME UNCHANGED <<readyBytes, reservedBytes, reserved, readyOriginal, bound, object, blob>> PROVE LedgerAddsUp'
  BY <1>1, LedgerStays DEF LInv
<1>2. ASSUME NEW t \in Runs, RowsAlone(t) PROVE LedgerAddsUp'
  BY <1>1, <1>2 DEF RowsAlone, StageObject, SourceUnavailable, PostLimitReached, StagingFails, NothingStaged,
         BeginPublish, PublishRefused, LinkFile, PublishRollsBack, SettleFile, BeginFail, FailRefused,
         CleanFile, FailRollsBack, BeginRecover, RecoverFile, RecoverBreaks, CrashRun, ReconcileOrphan, StaleLease,
         db, plans, objects, blobs, totals
<1>3. CASE \/ \E o \in Objects : Protect(o) \/ Unprotect(o)
           \/ \E e \in Evictors : Unlink(e) \/ UnlinkFails(e) \/ CrashEvictor(e)
           \/ \E b \in Blobs : EvictionExpires(b)
           \/ \E t \in Runs : LeaseExpires(t)
           \/ UNCHANGED vars
  BY <1>1, <1>3 DEF Protect, Unprotect, Unlink, UnlinkFails, CrashEvictor,
         EvictionExpires, LeaseExpires, vars, db, plans, objects, blobs, totals
<1>4. ASSUME NEW e \in Evictors, RestoreEviction(e) \/ \E b \in Blobs : ClaimEviction(e, b) PROVE LedgerAddsUp'
  <2>1. UNCHANGED <<readyBytes, reservedBytes, reserved, readyOriginal, bound, object>>
    BY <1>4 DEF RestoreEviction, ClaimEviction, plans, objects, totals
  <2>2. \A b \in Blobs : blob'[b] = blob[b] \/ (blob[b] \in {"ready", "deleting"} /\ blob'[b] \in {"ready", "deleting"})
    BY <1>4 DEF RestoreEviction, ClaimEviction, Claims, blobs, IInv, Books, RowsOK
  <2> QED BY <2>1, <2>2, LedgerStays DEF LInv
<1> QED BY <1>2, <1>3, <1>4, StepsAre, RowsChangeAddsUp, EvictionAddsUp, RetryAddsUp

-----------------------------------------------------------------------------
(* Types.                                                                  *)

RowTypes ==
    /\ reserved \in [Plans -> Nat] /\ readyOriginal \in [Plans -> Int]
    /\ attempts \in [Plans -> 0 .. MaxAttempts]
FileTypes == final \subseteq Blobs /\ twin \subseteq Runs \X Objects
EvictorTypes ==
    /\ evictor \in [Blobs -> Evictors \union {NoRun}] /\ evictLive \subseteq Blobs
    /\ epc \in [Evictors -> {"idle", "unlinking", "completing", "restoring"}]
    /\ target \in [Evictors -> Blobs \union {NoBlob}]
    /\ \A e \in Evictors : epc[e] # "idle" => target[e] \in Blobs
LEMMA TypeParts == MoreTypes <=> RowTypes /\ FileTypes /\ EvictorTypes /\ faults \in 0 .. MaxFaults
BY DEF MoreTypes, RowTypes, FileTypes, EvictorTypes
LEMMA NextTypeParts == MoreTypes' <=> RowTypes' /\ FileTypes' /\ EvictorTypes' /\ (faults \in 0 .. MaxFaults)'
BY DEF MoreTypes, RowTypes, FileTypes, EvictorTypes

LEMMA MoreAttemptsType ==
  ASSUME attempts \in [Plans -> 0 .. MaxAttempts], NEW p \in Plans
  PROVE  MoreAttempts(p) \in 0 .. MaxAttempts
BY LimitAssumption DEF MoreAttempts, Smaller

\* The rows keep their types: originals counted by differences stay whole numbers.
LEMMA RowTypesKept == ASSUME IInv, LInv, [Next]_vars PROVE RowTypes'
<1>1. RowTypes
  BY TypeParts DEF LInv
<1>2. ASSUME UNCHANGED <<reserved, readyOriginal, attempts>> PROVE RowTypes'
  BY <1>1, <1>2 DEF RowTypes
<1>3. ASSUME NEW t \in Runs, RowsAlone(t) PROVE RowTypes'
  BY <1>2, <1>3 DEF RowsAlone, StageObject, SourceUnavailable, PostLimitReached, StagingFails, NothingStaged,
         BeginPublish, PublishRefused, LinkFile, PublishRollsBack, SettleFile, BeginFail, FailRefused,
         CleanFile, FailRollsBack, BeginRecover, RecoverFile, RecoverBreaks, CrashRun, ReconcileOrphan, StaleLease,
         db, plans
<1>4. CASE \/ \E o \in Objects : Protect(o) \/ Unprotect(o)
           \/ \E e \in Evictors : Unlink(e) \/ UnlinkFails(e) \/ CrashEvictor(e)
           \/ \E e \in Evictors : RestoreEviction(e) \/ \E b \in Blobs : ClaimEviction(e, b)
           \/ \E b \in Blobs : EvictionExpires(b)
           \/ \E t \in Runs : LeaseExpires(t)
           \/ UNCHANGED vars
  BY <1>2, <1>4 DEF Protect, Unprotect, Unlink, UnlinkFails, CrashEvictor, RestoreEviction, ClaimEviction,
         EvictionExpires, LeaseExpires, vars, db, plans
<1>5. ASSUME NEW o \in Objects, AdminRetry(o) PROVE RowTypes'
  <2>1. UNCHANGED <<reserved, readyOriginal>> /\ attempts' = [attempts EXCEPT ![PlanOf[o]] = 0]
    BY <1>5 DEF AdminRetry
  <2>2. 0 \in 0 .. MaxAttempts
    BY LimitAssumption
  <2> QED BY <1>1, <2>1, <2>2 DEF RowTypes
<1>6. ASSUME NEW e \in Evictors, CompleteEviction(e) PROVE RowTypes'
  <2>1. UNCHANGED <<reserved, attempts>>
    BY <1>6 DEF CompleteEviction
  <2>2. readyOriginal' = readyOriginal
        \/ \E gone \in SUBSET Objects :
              readyOriginal' = [p \in Plans |-> readyOriginal[p] - Bytes(gone \intersect Of(p), BoundBytes)]
    <3>1. {o \in Objects : bound[o] = target[e] /\ object[o] = "ready"} \in SUBSET Objects
      OBVIOUS
    <3> HIDE DEF Bytes
    <3> QED BY <1>6, <3>1 DEF CompleteEviction
  <2>3. \A gone \in SUBSET Objects : \A p \in Plans : Bytes(gone \intersect Of(p), BoundBytes) \in Int
    <3> TAKE gone \in SUBSET Objects
    <3> TAKE p \in Plans
    <3>1. gone \intersect Of(p) \in SUBSET Objects
      OBVIOUS
    <3> QED BY <3>1, Lengths
  <2>4. ASSUME NEW gone \in SUBSET Objects, readyOriginal' = [p \in Plans |-> readyOriginal[p] - Bytes(gone \intersect Of(p), BoundBytes)]
        PROVE  readyOriginal' \in [Plans -> Int]
    <3>1. \A p \in Plans : readyOriginal[p] - Bytes(gone \intersect Of(p), BoundBytes) \in Int
      <4> TAKE p \in Plans
      <4>1. readyOriginal[p] \in Int
        BY <1>1 DEF RowTypes
      <4>2. Bytes(gone \intersect Of(p), BoundBytes) \in Int
        BY <2>3
      <4> QED BY <4>1, <4>2
    <3> QED BY <2>4, <3>1
  <2> QED BY <1>1, <2>1, <2>2, <2>4 DEF RowTypes
<1>7. ASSUME NEW t \in Runs, RowsChange(t) PROVE RowTypes'
  <2>1. ASSUME NEW p \in Plans, ClaimPostPlan(t, p) PROVE RowTypes'
    BY <1>1, <2>1, ClaimKeepsLeases DEF ClaimPostPlan, RowTypes
  <2>2. CASE SkipClaimedObject(t) \/ CommitRecoverSettle(t)
    BY <1>2, <2>2 DEF SkipClaimedObject, CommitRecoverSettle, plans
  <2>3. CASE CommitPublish(t)
    <3>1. /\ UNCHANGED reserved /\ attempts' = [q \in Plans |-> IF q \in Completed(t) THEN 0 ELSE attempts[q]]
          /\ readyOriginal' = [q \in Plans |-> readyOriginal[q] + RestoredBytes(t, q)]
      BY <2>3 DEF CommitPublish
    <3>2. ASSUME NEW q \in Plans PROVE RestoredBytes(t, q) \in Int
      <4>1. Restored(t) \intersect Of(q) \in SUBSET Objects
        BY DEF Of
      <4> QED BY <4>1, Lengths DEF RestoredBytes
    <3> QED BY <1>1, <3>1, <3>2, LimitAssumption DEF RowTypes
  <2>4. CASE CompleteSettlement(t)
    <3>1. In(run[t].job, "staging") \in SUBSET Objects
      BY DEF In, Of
    <3>2. Bytes(In(run[t].job, "staging"), BoundBytes) \in Int
      BY <3>1, Lengths
    <3>3. /\ UNCHANGED attempts
          /\ reserved' = reserved \/ reserved' = [reserved EXCEPT ![run[t].job] = 0]
          /\ readyOriginal' = readyOriginal
             \/ readyOriginal' = [readyOriginal EXCEPT ![run[t].job] = @ + Bytes(In(run[t].job, "staging"), BoundBytes)]
      BY <2>4 DEF CompleteSettlement, Release
    <3>4. run[t].job \in Plans
      BY <2>4, RunFields DEF CompleteSettlement, IInv
    <3> QED BY <1>1, <3>2, <3>3, <3>4 DEF RowTypes
  <2>5. CASE CommitFail(t) \/ CommitRecoverRetry(t)
    <3>1. run[t].job \in Plans
      BY <2>5, RunFields DEF CommitFail, Cleaning, CommitRecoverRetry, Recovering, IInv
    <3>2. /\ UNCHANGED readyOriginal /\ reserved' = [reserved EXCEPT ![run[t].job] = 0]
          /\ attempts' = attempts \/ attempts' = [attempts EXCEPT ![run[t].job] = MoreAttempts(run[t].job)]
      BY <2>5 DEF CommitFail, CommitRecoverRetry, Release
    <3> QED BY <1>1, <3>1, <3>2, MoreAttemptsType DEF RowTypes
  <2>6. CASE MarkRecoveryFailed(t)
    <3>1. run[t].job \in Plans
      BY <2>6, RunFields DEF MarkRecoveryFailed, IInv
    <3>2. /\ UNCHANGED <<readyOriginal, reserved>>
          /\ attempts' = attempts \/ attempts' = [attempts EXCEPT ![run[t].job] = MoreAttempts(run[t].job)]
      BY <2>6 DEF MarkRecoveryFailed
    <3> QED BY <1>1, <3>1, <3>2, MoreAttemptsType DEF RowTypes
  <2> QED BY <1>7, <2>1, <2>2, <2>3, <2>4, <2>5, <2>6 DEF RowsChange
<1> QED BY <1>3, <1>4, <1>5, <1>6, <1>7, StepsAre

\* What a step does to the files.
LEMMA FileSteps ==
  ASSUME [Next]_vars
  PROVE  \/ \E t \in Runs : StageObject(t)
         \/ \E t \in Runs : LinkFile(t)
         \/ \E t \in Runs : CleanFile(t) \/ SettleFile(t) \/ RecoverFile(t) \/ \E o \in Objects : ReconcileOrphan(t, o)
         \/ \E e \in Evictors : Unlink(e) \/ UnlinkFails(e)
         \/ UNCHANGED files
<1>1. CASE UNCHANGED vars
  BY <1>1 DEF vars, files
<1>2. ASSUME NEW t \in Runs,
             \/ SourceUnavailable(t) \/ PostLimitReached(t) \/ StagingFails(t) \/ NothingStaged(t)
             \/ BeginPublish(t) \/ PublishRefused(t) \/ PublishRollsBack(t) \/ BeginFail(t) \/ FailRefused(t)
             \/ FailRollsBack(t) \/ \E p \in Plans : BeginRecover(t, p)
             \/ RecoverBreaks(t) \/ CrashRun(t)
      PROVE  UNCHANGED files
  BY <1>2 DEF SourceUnavailable, PostLimitReached, StagingFails, NothingStaged, BeginPublish, PublishRefused,
         PublishRollsBack, BeginFail, FailRefused, FailRollsBack, BeginRecover, RecoverBreaks, CrashRun
<1>3. ASSUME NEW t \in Runs, RowsChange(t) PROVE UNCHANGED files
  BY <1>3 DEF RowsChange, ClaimPostPlan, SkipClaimedObject, CommitPublish, CompleteSettlement, CommitFail,
         CommitRecoverRetry, CommitRecoverSettle, MarkRecoveryFailed
<1>4. CASE \/ \E e \in Evictors : CompleteEviction(e) \/ RestoreEviction(e) \/ \E b \in Blobs : ClaimEviction(e, b)
           \/ \E o \in Objects : AdminRetry(o) \/ Protect(o) \/ Unprotect(o)
           \/ \E e \in Evictors : CrashEvictor(e)
           \/ \E b \in Blobs : EvictionExpires(b)
           \/ \E t \in Runs : LeaseExpires(t)
  BY <1>4 DEF CompleteEviction, RestoreEviction, ClaimEviction, AdminRetry, Protect, Unprotect, CrashEvictor,
         EvictionExpires, LeaseExpires
<1> QED BY <1>1, <1>2, <1>3, <1>4, StepsAre DEF RowsAlone

\* What settling does: a staging name goes, or after a rollback first the final file with its inode.
Drops(t, o) ==
    \/ /\ DropStaged(t, o) /\ UNCHANGED final
       /\ staged[t][o] \in Blobs /\ <<t, o>> \in twin => blob[staged[t][o]] \in {"ready", "deleting"}
    \/ RemoveLinked(t, o)

LEMMA RolledBackDrops ==
  ASSUME NEW t, NEW o, RemoveLinked(t, o) \/ SettleRolledBack(t, o) PROVE Drops(t, o)
BY DEF SettleRolledBack, SameInode, Drops

\* Names of staging files only go.
LEMMA NamesOnlyGo ==
  ASSUME RunsOK, NEW h \in Runs, NEW o, Drops(h, o)
  PROVE  /\ \A y \in Runs : y # h => staged'[y] = staged[y]
         /\ \A y \in Runs : \A q \in Objects : staged'[y][q] \in {staged[y][q], NoBlob}
BY DEF RunsOK, Drops, DropStaged, RemoveLinked

\* A step drops names of its own run, or under the lock those of the run it recovers.
LEMMA FileStepsDrop ==
  ASSUME IInv, LInv, NEW t \in Runs,
         CleanFile(t) \/ SettleFile(t) \/ RecoverFile(t) \/ \E o \in Objects : ReconcileOrphan(t, o)
  PROVE  UNCHANGED files \/ \E h \in Runs, o \in Objects : Drops(h, o) /\ (h = t \/ ledger = t)
<1>0. run[t].todo \subseteq Objects
  BY RunFields DEF IInv
<1>1. CASE CleanFile(t)
  <2>1. First(run[t].todo) \in Objects /\ Drops(t, First(run[t].todo))
    BY <1>0, <1>1, FirstObject, RolledBackDrops DEF CleanFile
  <2> QED BY <2>1
<1>2. CASE \E o \in Objects : ReconcileOrphan(t, o)
  BY <1>2, RolledBackDrops DEF ReconcileOrphan, StaleLease
<1>3. CASE SettleFile(t)
  <2> PICK o \in run[t].todo : o = First(run[t].todo)
    BY <1>0, <1>3, FirstObject DEF SettleFile
  <2>1. CASE UNCHANGED files
    BY <2>1
  <2>2. CASE DropStaged(t, o) /\ UNCHANGED final
    <3>1. run[t].pc = "settling" /\ o \in run[t].todo
      BY <1>3 DEF SettleFile
    <3>2. staged[t][o] \in Blobs => blob[staged[t][o]] = "ready"
      BY <1>0, <3>1, ContentAssumption DEF LInv, Work, AtWork, IInv, Books, BlobsOutliveTheirUse
    <3> QED BY <1>0, <2>2, <3>2 DEF Drops
  <2> QED BY <1>3, <2>1, <2>2 DEF SettleFile, SettleCommitted
<1>4. CASE RecoverFile(t)
  <2> PICK o \in run[t].todo, p \in Plans, h \in Runs : o = First(run[t].todo) /\ p = run[t].job /\ h = holder[p]
    <3>1. run[t].pc = "recovering" /\ run[t].job \in Plans /\ First(run[t].todo) \in run[t].todo
      BY <1>0, <1>4, RunFields, FirstObject DEF RecoverFile, Recovering, IInv
    <3>2. plan[run[t].job] \in Leased
      BY <3>1 DEF LInv, Work, AtWork
    <3>3. holder[run[t].job] \in Runs
      BY <3>1, <3>2 DEF LInv, Leases, LeaseOK, IInv, Books, RowsOK
    <3> QED BY <3>1, <3>3
  <2>0. ledger = t
    BY <1>4 DEF RecoverFile, Recovering, IInv, LockOK, Undisturbed
  <2>1. CASE Precommit(p) /\ (RemoveLinked(h, o) \/ SettleRolledBack(h, o))
    BY <1>0, <2>0, <2>1, RolledBackDrops
  <2>2. CASE ~Precommit(p) /\ Adoptable(t, h, o) /\ o \in run[t].list /\ SettleCommitted(h, o)
    <3>1. run[t].todo \subseteq In(p, "staging") /\ staged[h][o] = bound[o]
      BY <1>4, <2>2 DEF LInv, Work, AtWork, RecoverFile, Recovering, Adoptable
    <3>2. object[o] = "staging" /\ blob[bound[o]] = "ready"
      BY <1>0, <3>1 DEF In, IInv, Books, BlobsOutliveTheirUse
    <3> QED BY <1>0, <2>0, <2>2, <3>1, <3>2 DEF Drops, SettleCommitted
  <2>3. CASE UNCHANGED files
    BY <2>3
  <2> QED BY <1>4, <2>1, <2>2, <2>3 DEF RecoverFile
<1> QED BY <1>1, <1>2, <1>3, <1>4

\* Faults stay within their bound.
LEMMA FaultsKept == ASSUME LInv, [Next]_vars PROVE (faults \in 0 .. MaxFaults)'
<1>1. faults \in 0 .. MaxFaults /\ MaxFaults \in Nat
  BY LimitAssumption DEF LInv, MoreTypes
<1>2. UNCHANGED faults \/ \E kind \in FaultKinds : Fault(kind)
  <2>1. ASSUME NEW t \in Runs, RowsAlone(t) \/ RowsChange(t) \/ LeaseExpires(t)
        PROVE  UNCHANGED faults \/ \E kind \in FaultKinds : Fault(kind)
    BY <2>1 DEF RowsAlone, StageObject, SourceUnavailable, PostLimitReached, StagingFails, NothingStaged,
         BeginPublish, PublishRefused, LinkFile, PublishRollsBack, SettleFile, BeginFail, FailRefused,
         CleanFile, FailRollsBack, BeginRecover, RecoverFile, RecoverBreaks, CrashRun, ReconcileOrphan, StaleLease,
         RowsChange, ClaimPostPlan, SkipClaimedObject, CommitPublish, CompleteSettlement, CommitFail,
         CommitRecoverRetry, CommitRecoverSettle, MarkRecoveryFailed, LeaseExpires, FaultKinds
  <2>2. CASE \/ \E e \in Evictors : CompleteEviction(e) \/ RestoreEviction(e) \/ \E b \in Blobs : ClaimEviction(e, b)
             \/ \E o \in Objects : AdminRetry(o) \/ Protect(o) \/ Unprotect(o)
             \/ \E e \in Evictors : Unlink(e) \/ UnlinkFails(e) \/ CrashEvictor(e)
             \/ \E b \in Blobs : EvictionExpires(b)
    BY <2>2 DEF CompleteEviction, RestoreEviction, ClaimEviction, AdminRetry, Protect, Unprotect,
         Unlink, UnlinkFails, CrashEvictor, EvictionExpires, FaultKinds
  <2>3. CASE UNCHANGED vars
    BY <2>3 DEF vars
  <2> QED BY <2>1, <2>2, <2>3, StepsAre
<1> QED BY <1>1, <1>2 DEF Fault

\* Only evictors, and time, touch claims of blobs.
LEMMA EvictorsAlone ==
  ASSUME [Next]_vars
  PROVE  \/ UNCHANGED <<evictor, evictLive, epc, target>>
         \/ \E e \in Evictors : \/ \E b \in Blobs : ClaimEviction(e, b)
                                \/ Unlink(e) \/ UnlinkFails(e) \/ CompleteEviction(e) \/ RestoreEviction(e)
                                \/ CrashEvictor(e)
         \/ \E b \in Blobs : EvictionExpires(b)
<1>1. ASSUME NEW t \in Runs, RowsAlone(t) \/ RowsChange(t) \/ LeaseExpires(t)
      PROVE  UNCHANGED <<evictor, evictLive, epc, target>>
  BY <1>1 DEF RowsAlone, StageObject, SourceUnavailable, PostLimitReached, StagingFails, NothingStaged,
         BeginPublish, PublishRefused, LinkFile, PublishRollsBack, SettleFile, BeginFail, FailRefused,
         CleanFile, FailRollsBack, BeginRecover, RecoverFile, RecoverBreaks, CrashRun, ReconcileOrphan, StaleLease,
         RowsChange, ClaimPostPlan, SkipClaimedObject, CommitPublish, CompleteSettlement, CommitFail,
         CommitRecoverRetry, CommitRecoverSettle, MarkRecoveryFailed, LeaseExpires, db, blobs, evictions
<1>2. ASSUME NEW o \in Objects, AdminRetry(o) \/ Protect(o) \/ Unprotect(o)
      PROVE  UNCHANGED <<evictor, evictLive, epc, target>>
  BY <1>2 DEF AdminRetry, Protect, Unprotect, blobs, evictions
<1>3. CASE UNCHANGED vars
  BY <1>3 DEF vars, db, blobs, evictions
<1> QED BY <1>1, <1>2, <1>3, StepsAre

\* Evictors at work have a blob.
LEMMA EvictorTypesKept == ASSUME IInv, LInv, [Next]_vars PROVE EvictorTypes'
<1>1. EvictorTypes
  BY TypeParts DEF LInv
<1>2. CASE UNCHANGED <<evictor, evictLive, epc, target>>
  BY <1>1, <1>2 DEF EvictorTypes
<1>3. ASSUME NEW e \in Evictors, NEW b \in Blobs, ClaimEviction(e, b) PROVE EvictorTypes'
  BY <1>1, <1>3 DEF EvictorTypes, ClaimEviction
<1>4. ASSUME NEW e \in Evictors, Unlink(e) \/ UnlinkFails(e) PROVE EvictorTypes'
  <2>1. /\ UNCHANGED <<evictor, evictLive, target>> /\ epc[e] = "unlinking"
        /\ \E s \in {"completing", "restoring"} : epc' = [epc EXCEPT ![e] = s]
    BY <1>4 DEF Unlink, UnlinkFails, db, blobs
  <2> QED BY <1>1, <2>1 DEF EvictorTypes
<1>5. ASSUME NEW e \in Evictors, CompleteEviction(e) \/ RestoreEviction(e) \/ CrashEvictor(e) PROVE EvictorTypes'
  <2>1. /\ EvictionEnds(e) /\ evictLive' \subseteq evictLive
        /\ evictor' = evictor \/ evictor' = [evictor EXCEPT ![target[e]] = NoRun]
    BY <1>5 DEF CompleteEviction, RestoreEviction, CrashEvictor, db, blobs
  <2> QED BY <1>1, <2>1 DEF EvictorTypes, EvictionEnds
<1>6. ASSUME NEW b \in Blobs, EvictionExpires(b) PROVE EvictorTypes'
  BY <1>1, <1>6 DEF EvictorTypes, EvictionExpires, evictions
<1> QED BY <1>2, <1>3, <1>4, <1>5, <1>6, EvictorsAlone

FilesInv == FileTypes /\ NamesOK /\ UncountedFilesAreOwned
LEMMA LInvFiles == LInv => FilesInv
BY TypeParts DEF LInv, FilesInv

\* No file moves, and every counted file stays counted.
LEMMA FilesStay ==
  ASSUME FilesInv, UNCHANGED files,
         \A b \in final : blob[b] \in {"ready", "deleting"} => blob'[b] \in {"ready", "deleting"},
         \A e \in Evictors : epc'[e] = "completing" /\ Claims(e, target[e])' =>
             epc[e] = "completing" /\ target'[e] = target[e] /\ Claims(e, target[e])
  PROVE  FilesInv'
<1>1. FileTypes'
  BY DEF FilesInv, FileTypes, files
<1>2. NamesOK'
  BY DEF FilesInv, NamesOK, files
<1>3. UncountedFilesAreOwned'
  BY DEF FilesInv, UncountedFilesAreOwned, files
<1> QED BY <1>1, <1>2, <1>3 DEF FilesInv

\* A run stages under a name that was free.
LEMMA StageKeepsFiles == ASSUME IInv, LInv, NEW t \in Runs, StageObject(t) PROVE FilesInv'
<1>1. run[t].pc = "staging" /\ run[t].todo # {} /\ run[t].todo \subseteq Objects
      /\ UNCHANGED <<final, twin, blob, evictor, epc, target>>
  BY RunFields DEF IInv, StageObject, Staging, db, blobs, evictions
<1> PICK o \in run[t].todo : o = First(run[t].todo)
  BY <1>1, FirstObject
<1>2. PICK b \in Sources[o] : staged' = [staged EXCEPT ![t][o] = b]
  BY DEF StageObject
<1>3. staged[t][o] = NoBlob
  BY <1>1 DEF LInv, Work, AtWork
<1>4. FilesInv
  BY LInvFiles
<1>5. <<t, o>> \notin twin
  BY <1>3, <1>4 DEF FilesInv, NamesOK
<1>6. \A n \in twin : staged'[n[1]][n[2]] = staged[n[1]][n[2]]
  <2> SUFFICES ASSUME NEW n \in twin PROVE staged'[n[1]][n[2]] = staged[n[1]][n[2]]
    OBVIOUS
  <2>1. n \in Runs \X Objects
    BY <1>4 DEF FilesInv, FileTypes
  <2>2. n = <<n[1], n[2]>> /\ n[1] \in Runs /\ n[2] \in Objects
    BY <2>1
  <2>3. n[1] # t \/ n[2] # o
    BY <1>5, <2>2
  <2> QED BY <1>2, <2>2, <2>3 DEF IInv, RunsOK
<1>7. FileTypes'
  BY <1>1, <1>4 DEF FilesInv, FileTypes
<1>8. NamesOK'
  BY <1>1, <1>4, <1>6 DEF FilesInv, NamesOK, Claims
<1>9. UncountedFilesAreOwned'
  BY <1>1, <1>4, <1>6 DEF FilesInv, UncountedFilesAreOwned
<1> QED BY <1>7, <1>8, <1>9 DEF FilesInv

\* A new final file shares the inode of its staging name, and its blob is nobody's to evict.
LEMMA LinkKeepsFiles == ASSUME IInv, LInv, NEW t \in Runs, LinkFile(t) PROVE FilesInv'
<1>1. /\ run[t].pc = "publishing" /\ run[t].todo # {} /\ run[t].todo \subseteq Objects
      /\ UNCHANGED <<staged, blob, evictor, epc, target>>
  BY RunFields DEF IInv, LinkFile, Publishing, db, blobs, evictions
<1> PICK o \in run[t].todo : o = First(run[t].todo)
  BY <1>1, FirstObject
<1> PICK b : b = staged[t][o]
  OBVIOUS
<1>2. final' = final \union {b} /\ twin' = IF b \in final THEN twin ELSE twin \union {<<t, o>>}
  BY DEF LinkFile
<1>3. o \in run[t].list /\ b \in Blobs /\ blob[b] # "deleting"
  BY <1>1 DEF LInv, Work, AtWork, IInv, LockOK, Undisturbed
<1>4. FilesInv
  BY LInvFiles
<1>5. FileTypes'
  BY <1>1, <1>2, <1>3, <1>4 DEF FilesInv, FileTypes
<1>6. NamesOK'
  <2>1. \A n \in twin' : staged[n[1]][n[2]] # NoBlob
    BY <1>2, <1>3, <1>4, ContentAssumption DEF FilesInv, NamesOK
  <2>2. \A e \in Evictors : epc[e] = "completing" /\ Claims(e, target[e]) => target[e] # b
    BY <1>3 DEF Claims
  <2> QED BY <1>1, <1>2, <1>4, <2>1, <2>2 DEF FilesInv, NamesOK, Claims
<1>7. UncountedFilesAreOwned'
  <2> SUFFICES ASSUME NEW c \in final', blob[c] \notin {"ready", "deleting"}
               PROVE  \E n \in twin' : staged[n[1]][n[2]] = c
    BY <1>1 DEF UncountedFilesAreOwned
  <2>1. CASE c \in final
    <3>1. PICK n \in twin : staged[n[1]][n[2]] = c
      BY <1>4, <2>1 DEF FilesInv, UncountedFilesAreOwned
    <3> QED BY <1>2, <3>1
  <2>2. CASE c \notin final
    <3>1. c = b /\ <<t, o>> \in twin'
      BY <1>2, <2>2
    <3> QED BY <3>1
  <2> QED BY <2>1, <2>2
<1> QED BY <1>5, <1>6, <1>7 DEF FilesInv

\* A name that goes is not the last one on an uncounted file, or takes the file with it.
LEMMA DropKeepsFiles ==
  ASSUME IInv, LInv, NEW h \in Runs, NEW o \in Objects, Drops(h, o), UNCHANGED <<blob, evictor, epc, target>>
  PROVE  FilesInv'
<1>1. FilesInv
  BY LInvFiles
<1>2. /\ staged' \in {staged, [staged EXCEPT ![h][o] = NoBlob]} /\ twin' = twin \ {<<h, o>>}
      /\ final' \subseteq final
  BY DEF Drops, DropStaged, RemoveLinked
<1>3. \A n \in twin' : n \in twin /\ staged'[n[1]][n[2]] = staged[n[1]][n[2]]
  <2> SUFFICES ASSUME NEW n \in twin' PROVE n \in twin /\ staged'[n[1]][n[2]] = staged[n[1]][n[2]]
    OBVIOUS
  <2>1. n \in twin /\ n # <<h, o>>
    BY <1>2
  <2>2. n \in Runs \X Objects
    BY <1>1, <2>1 DEF FilesInv, FileTypes
  <2>3. n = <<n[1], n[2]>> /\ n[1] \in Runs /\ n[2] \in Objects
    BY <2>2
  <2>4. n[1] # h \/ n[2] # o
    BY <2>1, <2>3
  <2> QED BY <1>2, <2>1, <2>3, <2>4 DEF IInv, RunsOK
<1>4. FileTypes'
  BY <1>1, <1>2 DEF FilesInv, FileTypes
<1>5. NamesOK'
  BY <1>1, <1>2, <1>3 DEF FilesInv, NamesOK, Claims
<1>6. UncountedFilesAreOwned'
  <2> SUFFICES ASSUME NEW c \in final', blob[c] \notin {"ready", "deleting"}
               PROVE  \E n \in twin' : staged'[n[1]][n[2]] = c
    BY DEF UncountedFilesAreOwned
  <2>1. PICK n \in twin : staged[n[1]][n[2]] = c
    BY <1>1, <1>2 DEF FilesInv, UncountedFilesAreOwned
  <2>2. c \in Blobs
    BY <1>1, <1>2 DEF FilesInv, FileTypes
  <2>3. n # <<h, o>>
    <3> SUFFICES ASSUME n = <<h, o>> PROVE FALSE
      OBVIOUS
    <3>1. staged[h][o] = c
      BY <2>1
    <3> QED BY <2>1, <2>2, <3>1 DEF Drops, RemoveLinked
  <2>4. n \in twin'
    BY <1>2, <2>3
  <2> QED BY <1>3, <2>1, <2>4
<1> QED BY <1>4, <1>5, <1>6 DEF FilesInv

\* An evictor takes the names of the file it removes off their inode.
LEMMA UnlinkKeepsFiles ==
  ASSUME IInv, LInv, NEW e \in Evictors, Unlink(e) \/ UnlinkFails(e) PROVE FilesInv'
<1>1. FilesInv
  BY LInvFiles
<1>2. /\ UNCHANGED <<staged, blob, evictor, target>>
      /\ \/ UNCHANGED <<final, twin>> /\ epc' = [epc EXCEPT ![e] = "restoring"]
         \/ RemoveFinal(target[e]) /\ \E s : epc' = [epc EXCEPT ![e] = s]
  BY DEF Unlink, UnlinkFails, db, blobs
<1>3. final' \subseteq final /\ twin' \subseteq twin
  BY <1>2 DEF RemoveFinal
<1>4. FileTypes'
  BY <1>1, <1>3 DEF FilesInv, FileTypes
<1>5. NamesOK'
  <2>1. \A x \in Evictors : x # e => epc'[x] = epc[x]
    BY <1>2 DEF LInv, MoreTypes
  <2>2. epc'[e] = "completing" => target[e] \notin final'
    BY <1>2 DEF RemoveFinal, LInv, MoreTypes
  <2> QED BY <1>1, <1>2, <1>3, <2>1, <2>2 DEF FilesInv, NamesOK, Claims
<1>6. UncountedFilesAreOwned'
  <2>1. CASE UNCHANGED <<final, twin>>
    BY <1>1, <1>2, <2>1 DEF FilesInv, UncountedFilesAreOwned
  <2>2. CASE RemoveFinal(target[e])
    BY <1>1, <1>2, <2>2 DEF RemoveFinal, FilesInv, UncountedFilesAreOwned
  <2> QED BY <1>2, <2>1, <2>2
<1> QED BY <1>4, <1>5, <1>6 DEF FilesInv

\* A publication takes no content from an evictor that has removed its file.
LEMMA PublishKeepsFiles == ASSUME IInv, LInv, NEW t \in Runs, CommitPublish(t) PROVE FilesInv'
<1>1. /\ UNCHANGED <<files, evictor, epc, target>>
      /\ blob' = [b \in Blobs |-> IF b \in Offered(t) THEN "ready" ELSE blob[b]]
  BY DEF CommitPublish, evictions
<1>2. final \subseteq Blobs /\ \A e \in Evictors : epc[e] # "idle" => target[e] \in Blobs
  BY DEF LInv, MoreTypes
<1>3. \A b \in final : blob[b] \in {"ready", "deleting"} => blob'[b] \in {"ready", "deleting"}
  BY <1>1, <1>2
<1>4. \A e \in Evictors : epc'[e] = "completing" /\ Claims(e, target[e])' =>
             epc[e] = "completing" /\ target'[e] = target[e] /\ Claims(e, target[e])
  BY <1>1, <1>2 DEF Claims
<1> QED BY <1>1, <1>3, <1>4, FilesStay, LInvFiles

\* A blob that leaves the count has no file.
LEMMA EvictionKeepsFiles ==
  ASSUME IInv, LInv, NEW e \in Evictors,
         \/ \E b \in Blobs : ClaimEviction(e, b)
         \/ CompleteEviction(e) \/ RestoreEviction(e) \/ CrashEvictor(e)
  PROVE  FilesInv'
<1>0. /\ final \subseteq Blobs /\ epc \in [Evictors -> {"idle", "unlinking", "completing", "restoring"}]
      /\ target \in [Evictors -> Blobs \union {NoBlob}] /\ blob \in [Blobs -> BlobStates]
      /\ evictor \in [Blobs -> Evictors \union {NoRun}]
      /\ \A x \in Evictors : epc[x] # "idle" => target[x] \in Blobs
  BY DEF LInv, MoreTypes, IInv, Books, RowsOK
<1>1. ASSUME NEW b \in Blobs, ClaimEviction(e, b) PROVE FilesInv'
  <2>1. /\ UNCHANGED files /\ blob' = [blob EXCEPT ![b] = "deleting"] /\ evictor' = [evictor EXCEPT ![b] = e]
        /\ epc' = [epc EXCEPT ![e] = "unlinking"] /\ target' = [target EXCEPT ![e] = b]
    BY <1>1 DEF ClaimEviction
  <2>2. \A c \in final : blob[c] \in {"ready", "deleting"} => blob'[c] \in {"ready", "deleting"}
    BY <1>0, <2>1
  <2>3. ASSUME NEW x \in Evictors, epc'[x] = "completing", Claims(x, target[x])'
        PROVE  epc[x] = "completing" /\ target'[x] = target[x] /\ Claims(x, target[x])
    <3>1. x # e /\ epc[x] = "completing" /\ target'[x] = target[x]
      BY <1>0, <2>1, <2>3
    <3>2. target[x] # b
      BY <1>0, <2>1, <2>3, <3>1 DEF Claims
    <3> QED BY <1>0, <2>1, <2>3, <3>1, <3>2 DEF Claims
  <2> QED BY <2>1, <2>2, <2>3, FilesStay, LInvFiles
<1>2. ASSUME CompleteEviction(e) \/ RestoreEviction(e) \/ CrashEvictor(e) PROVE FilesInv'
  <2> PICK b : b = target[e]
    OBVIOUS
  <2>1. /\ UNCHANGED files /\ EvictionEnds(e)
        /\ \/ UNCHANGED <<blob, evictor>>
           \/ /\ Claims(e, b) /\ evictor' = [evictor EXCEPT ![b] = NoRun]
              /\ \/ epc[e] = "completing" /\ blob' = [blob EXCEPT ![b] = "evicted"]
                 \/ blob' = [blob EXCEPT ![b] = "ready"]
    BY <1>2 DEF CompleteEviction, RestoreEviction, CrashEvictor, db, blobs
  <2>2. epc[e] = "completing" /\ Claims(e, b) => b \notin final
    BY DEF LInv, NamesOK
  <2>3. \A c \in final : blob[c] \in {"ready", "deleting"} => blob'[c] \in {"ready", "deleting"}
    BY <1>0, <2>1, <2>2
  <2>4. ASSUME NEW x \in Evictors, epc'[x] = "completing", Claims(x, target[x])'
        PROVE  epc[x] = "completing" /\ target'[x] = target[x] /\ Claims(x, target[x])
    <3>1. x # e /\ epc[x] = "completing" /\ target'[x] = target[x]
      BY <1>0, <2>1, <2>4 DEF EvictionEnds
    <3>2. target[x] \in Blobs
      BY <1>0, <3>1
    <3> QED BY <1>0, <2>1, <2>4, <3>1, <3>2 DEF Claims
  <2> QED BY <2>1, <2>3, <2>4, FilesStay, LInvFiles
<1> QED BY <1>1, <1>2

\* Every step keeps what is said of names and files.
LEMMA FilesKept == ASSUME IInv, LInv, [Next]_vars PROVE FilesInv'
<1>1. ASSUME UNCHANGED files, UNCHANGED <<blob, evictor, epc, target>> PROVE FilesInv'
  BY <1>1, FilesStay, LInvFiles DEF Claims
<1>2. ASSUME NEW t \in Runs, CleanFile(t) \/ SettleFile(t) \/ RecoverFile(t) \/ \E o \in Objects : ReconcileOrphan(t, o)
      PROVE  FilesInv'
  <2>1. UNCHANGED <<blob, evictor, epc, target>>
    BY <1>2 DEF CleanFile, SettleFile, RecoverFile, ReconcileOrphan, StaleLease, db, blobs, evictions
  <2> QED BY <1>1, <1>2, <2>1, FileStepsDrop, DropKeepsFiles
<1>3. ASSUME NEW t \in Runs, RowsAlone(t) \/ RowsChange(t) \/ LeaseExpires(t), ~CommitPublish(t)
      PROVE  UNCHANGED <<blob, evictor, epc, target>>
  BY <1>3 DEF RowsAlone, StageObject, SourceUnavailable, PostLimitReached, StagingFails, NothingStaged,
         BeginPublish, PublishRefused, LinkFile, PublishRollsBack, SettleFile, BeginFail, FailRefused,
         CleanFile, FailRollsBack, BeginRecover, RecoverFile, RecoverBreaks, CrashRun, ReconcileOrphan, StaleLease,
         RowsChange, ClaimPostPlan, SkipClaimedObject, CompleteSettlement, CommitFail,
         CommitRecoverRetry, CommitRecoverSettle, MarkRecoveryFailed, LeaseExpires, db, blobs, evictions
<1>4. CASE \/ \E o \in Objects : AdminRetry(o) \/ Protect(o) \/ Unprotect(o)
           \/ \E b \in Blobs : EvictionExpires(b)
           \/ UNCHANGED vars
  BY <1>4, <1>1 DEF AdminRetry, Protect, Unprotect, EvictionExpires, vars, db, blobs, evictions, files
<1> QED BY <1>1, <1>2, <1>3, <1>4, StepsAre, FileSteps, StageKeepsFiles, LinkKeepsFiles, UnlinkKeepsFiles,
           PublishKeepsFiles, EvictionKeepsFiles

\* Every step keeps the types.
LEMMA MoreTypesKept == ASSUME IInv, LInv, [Next]_vars PROVE MoreTypes'
BY RowTypesKept, FilesKept, EvictorTypesKept, FaultsKept, NextTypeParts DEF FilesInv

-----------------------------------------------------------------------------
(* Runs at work: what the steps of others leave them.                      *)

\* Rows untouched, and staging files at most taken away.
LEMMA WorkGoesOn ==
  ASSUME NEW x \in Runs, AtWork(x), run'[x] = run[x], UNCHANGED <<plan, holder, object, bound, blob>>,
         run[x].todo \subseteq Objects,
         \A o \in Objects : staged'[x][o] \in {staged[x][o], NoBlob},
         run[x].pc = "publishing" => staged'[x] = staged[x],
         run[x].pc = "recovering" /\ ~Precommit(run[x].job) =>
            \A o \in Objects : staged[holder[run[x].job]][o] = NoBlob => staged'[holder[run[x].job]][o] = NoBlob
  PROVE  AtWork(x)'
<1> DEFINE p == run[x].job
<1>1. CASE run[x].pc = "staging"
  BY <1>1 DEF AtWork, In, Of
<1>2. CASE run[x].pc = "publishing"
  BY <1>2 DEF AtWork, In, Of
<1>3. CASE run[x].pc = "cleaning"
  BY <1>3 DEF AtWork, Active, Of
<1>4. CASE run[x].pc = "recovering"
  <2>1. Precommit(run[x].job)' <=> Precommit(run[x].job)
    BY DEF Precommit, In, Of
  <2>2. In(run[x].job, "staging")' = In(run[x].job, "staging")
    BY DEF In, Of
  <2>3. ~Precommit(run[x].job) => StagedFiles(holder[run[x].job])' \subseteq StagedFiles(holder[run[x].job])
    BY <1>4 DEF StagedFiles
  <2> QED BY <1>4, <2>1, <2>2, <2>3 DEF AtWork
<1>5. CASE run[x].pc = "settling"
  BY <1>5 DEF AtWork
<1>6. CASE run[x].pc \notin {"staging", "publishing", "cleaning", "recovering", "settling"}
  BY <1>6 DEF AtWork
<1> QED BY <1>1, <1>2, <1>3, <1>4, <1>5, <1>6

\* Rows change, but the run keeps its plan and what it works on, or has nothing left to settle.
LEMMA WorkIsLeftAlone ==
  ASSUME NEW x \in Runs, AtWork(x), run'[x] = run[x], staged'[x] = staged[x],
         run[x].pc # "idle" => run[x].job \in Plans, run[x].todo \subseteq Objects,
         run[x].pc \notin {"publishing", "cleaning", "recovering"},
         \A q \in Plans : holder'[q] = x => holder[q] = x,
         \A q \in Plans : holder[q] = x =>
            \/ /\ holder'[q] = x
               /\ \A o \in Of(q) : object[o] \in {"downloading", "staging"} =>
                      object'[o] = object[o] /\ bound'[o] = bound[o]
            \/ /\ holder'[q] # x
               /\ run[x].pc = "settling" => \A o \in run[x].todo : staged[x][o] = NoBlob
  PROVE  AtWork(x)'
<1>1. CASE run[x].pc = "staging"
  <2>1. \A p \in Plans : holder'[p] = x => run'[x].job = p
    BY <1>1 DEF AtWork
  <2>2. holder'[run'[x].job] = x => In(run[x].job, "downloading") \subseteq In(run[x].job, "downloading")'
    BY <1>1 DEF In, Of
  <2> QED BY <1>1, <2>1, <2>2 DEF AtWork
<1>2. CASE run[x].pc = "settling"
  <2>1. \A p \in Plans : holder'[p] = x => run'[x].job = p
    BY <1>2 DEF AtWork
  <2>2. ASSUME NEW o \in run[x].todo, staged[x][o] # NoBlob
        PROVE  holder'[run[x].job] = x /\ PlanOf[o] = run[x].job /\ object'[o] = "staging" /\ bound'[o] = staged[x][o]
    <3>1. holder[run[x].job] = x /\ PlanOf[o] = run[x].job /\ object[o] = "staging" /\ bound[o] = staged[x][o]
      BY <1>2, <2>2 DEF AtWork
    <3>2. o \in Of(run[x].job) /\ run[x].job \in Plans
      BY <1>2, <3>1 DEF Of
    <3> QED BY <1>2, <2>2, <3>1, <3>2
  <2> QED BY <1>2, <2>1, <2>2 DEF AtWork
<1>3. CASE run[x].pc \notin {"staging", "settling"}
  BY <1>3 DEF AtWork
<1> QED BY <1>1, <1>2, <1>3

\* A run at a step that AtWork says little of.
LEMMA Restful ==
  ASSUME NEW t \in Runs, run'[t].pc = "idle" \/ (run'[t].pc \in {"failing", "broken"} /\ \A p \in Plans : holder'[p] = t => run'[t].job = p)
  PROVE  AtWork(t)'
BY DEF AtWork

\* A run writes its own memory only.
LEMMA RunsOfOthers ==
  ASSUME RunsOK, NEW t \in Runs, RowsAlone(t) \/ RowsChange(t), NEW x \in Runs, x # t
  PROVE  run'[x] = run[x]
BY DEF RunsOK, RowsAlone, StageObject, SourceUnavailable, PostLimitReached, StagingFails, NothingStaged,
         BeginPublish, PublishRefused, LinkFile, PublishRollsBack, SettleFile, BeginFail, FailRefused,
         CleanFile, FailRollsBack, BeginRecover, RecoverFile, RecoverBreaks, CrashRun, ReconcileOrphan, StaleLease,
         RowsChange, ClaimPostPlan, SkipClaimedObject, CommitPublish, CompleteSettlement, CommitFail,
         CommitRecoverRetry, CommitRecoverSettle, MarkRecoveryFailed, EndRun, Goto, Loop, FailAs, runs

LEMMA RowsAloneRows == ASSUME NEW t \in Runs, RowsAlone(t) PROVE UNCHANGED <<plan, holder, object, bound, blob, reserved>>
BY DEF RowsAlone, StageObject, SourceUnavailable, PostLimitReached, StagingFails, NothingStaged,
         BeginPublish, PublishRefused, LinkFile, PublishRollsBack, SettleFile, BeginFail, FailRefused,
         CleanFile, FailRollsBack, BeginRecover, RecoverFile, RecoverBreaks, CrashRun, ReconcileOrphan, StaleLease,
         db, plans, objects, blobs

\* While a run recovers a committed plan, the run it recovers from stages nothing.
LEMMA StagesForNobodyElse ==
  ASSUME IInv, LInv, NEW t \in Runs, StageObject(t), NEW x \in Runs, run[x].pc = "recovering", ~Precommit(run[x].job)
  PROVE  holder[run[x].job] # t
<1> SUFFICES ASSUME holder[run[x].job] = t PROVE FALSE
  OBVIOUS
<1>1. run[x].job \in Plans /\ plan[run[x].job] \in Leased
  BY RunFields DEF IInv, LInv, Work, AtWork
<1>2. run[t].pc = "staging" /\ run[t].todo # {}
  BY DEF StageObject, Staging
<1>3. run[t].job = run[x].job
  BY <1>1, <1>2 DEF LInv, Work, AtWork
<1>4. In(run[x].job, "downloading") # {}
  BY <1>2, <1>3 DEF LInv, Work, AtWork
<1>5. Consistent(run[x].job)
  BY <1>1 DEF LInv, Leases, LeaseOK
<1> QED BY <1>4, <1>5 DEF Consistent, Phase, In, Active, Inactive

\* A step that leaves the rows alone takes at most staging files away: its own, or under the lock.
LEMMA RowsAloneOthers ==
  ASSUME IInv, LInv, NEW t \in Runs, RowsAlone(t), NEW x \in Runs, x # t PROVE AtWork(x)'
<1>1. run'[x] = run[x] /\ AtWork(x) /\ run[x].todo \subseteq Objects /\ UNCHANGED <<plan, holder, object, bound, blob>>
  BY RunsOfOthers, RowsAloneRows, RunFields DEF IInv, LInv, Work
<1>2. run[x].pc = "publishing" => ledger = x
  BY DEF IInv, LockOK, Undisturbed
<1>3. run[x].pc = "recovering" => holder[run[x].job] \in Runs
  BY RunFields DEF IInv, Books, RowsOK, LInv, Work, AtWork, Leases, LeaseOK
<1>4. CASE UNCHANGED staged
  BY <1>1, <1>4, WorkGoesOn
<1>5. CASE StageObject(t)
  <2>1. PICK o, b : staged' = [staged EXCEPT ![t][o] = b]
    BY <1>5 DEF StageObject
  <2>2. \A h \in Runs : h # t => staged'[h] = staged[h]
    BY <2>1 DEF IInv, RunsOK
  <2> QED BY <1>1, <1>3, <1>5, <2>2, StagesForNobodyElse, WorkGoesOn
<1>6. ASSUME NEW h \in Runs, NEW o \in Objects, Drops(h, o), h = t \/ ledger = t PROVE AtWork(x)'
  <2>2. \A y \in Runs : \A q \in Objects : staged'[y][q] \in {staged[y][q], NoBlob}
    BY <1>6, NamesOnlyGo DEF IInv
  <2>3. run[x].pc = "publishing" => h # x
    BY <1>2, <1>6
  <2>4. run[x].pc = "publishing" => staged'[x] = staged[x]
    BY <1>6, <2>3, NamesOnlyGo DEF IInv
  <2> QED BY <1>1, <1>3, <2>2, <2>4, WorkGoesOn
<1>7. CASE CleanFile(t) \/ SettleFile(t) \/ RecoverFile(t) \/ \E o \in Objects : ReconcileOrphan(t, o)
  BY <1>4, <1>6, <1>7, FileStepsDrop DEF files
<1>8. CASE \/ SourceUnavailable(t) \/ PostLimitReached(t) \/ StagingFails(t) \/ NothingStaged(t)
           \/ BeginPublish(t) \/ PublishRefused(t) \/ LinkFile(t) \/ PublishRollsBack(t) \/ BeginFail(t)
           \/ FailRefused(t) \/ FailRollsBack(t) \/ (\E p \in Plans : BeginRecover(t, p))
           \/ RecoverBreaks(t) \/ CrashRun(t)
  BY <1>4, <1>8 DEF SourceUnavailable, PostLimitReached, StagingFails, NothingStaged, BeginPublish, PublishRefused,
         LinkFile, PublishRollsBack, BeginFail, FailRefused, FailRollsBack, BeginRecover, RecoverBreaks, CrashRun, files
<1> QED BY <1>5, <1>7, <1>8 DEF RowsAlone

\* A run keeps what it has from a step of another one that changes the rows of another plan only.
LEMMA OtherPlanChanges ==
  ASSUME IInv, LInv, NEW x \in Runs, NEW p \in Plans, holder[p] # x, run'[x] = run[x], UNCHANGED <<staged, bound>>,
         run[x].pc \notin {"publishing", "cleaning", "recovering"},
         \A q \in Plans : q # p => holder'[q] = holder[q],
         holder'[p] # x,
         \A o \in Objects : o \notin Of(p) => object'[o] = object[o]
  PROVE  AtWork(x)'
<1>1. AtWork(x) /\ run[x].todo \subseteq Objects /\ (run[x].pc # "idle" => run[x].job \in Plans)
  BY RunFields DEF IInv, LInv, Work
<1>2. \A q \in Plans : holder'[q] = x => holder[q] = x
  OBVIOUS
<1>3. \A q \in Plans : holder[q] = x => holder'[q] = x /\ \A o \in Of(q) : object'[o] = object[o] /\ bound'[o] = bound[o]
  BY DEF Of
<1> QED BY <1>1, <1>2, <1>3, WorkIsLeftAlone

\* Whoever is recovering a committed plan has adopted all of the expired run's files at the end.
LEMMA AllAdopted ==
  ASSUME IInv, LInv, NEW t \in Runs, run[t].pc = "recovering", run[t].todo = {}, Consistent(run[t].job), ~Precommit(run[t].job)
  PROVE  \A o \in Objects : staged[holder[run[t].job]][o] = NoBlob
<1>1. In(run[t].job, "staging") # {}
  BY DEF Consistent, Phase
<1>2. StagedFiles(holder[run[t].job]) = {}
  BY <1>1 DEF LInv, Work, AtWork
<1> QED BY <1>2 DEF StagedFiles

\* A transaction changes the rows of its own plan, and takes the lease of an expired run that has nothing left to settle.
LEMMA RowsChangeOthers ==
  ASSUME IInv, LInv, NEW t \in Runs, RowsChange(t), NEW x \in Runs, x # t PROVE AtWork(x)'
<1>1. run'[x] = run[x] /\ AtWork(x) /\ run[x].todo \subseteq Objects /\ (run[x].pc # "idle" => run[x].job \in Plans)
  BY RunsOfOthers, RunFields DEF IInv, LInv, Work
<1>2. ledger \in {t, NoRun}
  BY RunAssumption DEF RowsChange, ClaimPostPlan, SkipClaimedObject, CommitPublish, Publishing, CompleteSettlement,
         CommitFail, Cleaning, CommitRecoverRetry, CommitRecoverSettle, Recovering, MarkRecoveryFailed, Unlocked,
         IInv, LockOK, Undisturbed
<1>3. run[x].pc \notin {"publishing", "cleaning", "recovering"}
  BY <1>2, RunAssumption DEF IInv, LockOK, Undisturbed
<1>4. UNCHANGED staged
  BY DEF RowsChange, ClaimPostPlan, SkipClaimedObject, CommitPublish, CompleteSettlement, CommitFail,
         CommitRecoverRetry, CommitRecoverSettle, MarkRecoveryFailed, files
<1>5. x # NoRun /\ holder \in [Plans -> Runs \union {NoRun}]
  BY RunAssumption DEF IInv, Books, RowsOK
<1>6. ASSUME NEW p \in Plans, ClaimPostPlan(t, p) PROVE AtWork(x)'
  <2>1. /\ plan[p] \notin Leased /\ holder' = [holder EXCEPT ![p] = t] /\ UNCHANGED bound
        /\ \A o \in Objects : o \notin Of(p) => object'[o] = object[o]
    BY <1>6 DEF ClaimPostPlan, ClaimableStates, Leased, Active
  <2>2. holder[p] # x
    BY <1>5, <2>1 DEF LInv, Leases, LeaseOK
  <2> QED BY <1>1, <1>3, <1>4, <1>5, <2>1, <2>2, OtherPlanChanges
<1>7. CASE SkipClaimedObject(t)
  <2>0. run[t].job \in Plans /\ run[t].pc = "staging" /\ run[t].apart \subseteq Objects /\ run[t].apart # {}
    BY <1>7, RunFields DEF SkipClaimedObject, AllStaged, IInv
  <2> PICK p \in Plans, o \in run[t].apart : p = run[t].job /\ o = First(run[t].apart)
    BY <2>0, FirstObject
  <2>1. UNCHANGED <<holder, bound>>
    BY <1>7 DEF SkipClaimedObject, plans
  <2>2. CASE UNCHANGED object
    BY <1>1, <1>3, <1>4, <2>1, <2>2, WorkIsLeftAlone
  <2>3. CASE Fenced(t, p, "staging") /\ object' = [object EXCEPT ![o] = "skipped"]
    <3>1. holder[p] = t /\ o \in Of(p)
      BY <2>0, <2>3 DEF Fenced, LInv, Work, AtWork, In
    <3>2. \A y \in Objects : y \notin Of(p) => object'[y] = object[y]
      BY <2>3, <3>1 DEF IInv, Books, RowsOK
    <3> QED BY <1>1, <1>3, <1>4, <2>1, <3>1, <3>2, OtherPlanChanges
  <2> QED BY <1>7, <2>2, <2>3 DEF SkipClaimedObject
<1>8. CASE CommitPublish(t)
  <2>1. /\ UNCHANGED holder /\ run[t].pc = "publishing"
        /\ object' = [o \in Objects |-> IF o \in run[t].list THEN "staging" ELSE WithRestored(t)[o]]
        /\ bound' = [o \in Objects |-> IF o \in run[t].list THEN staged[t][o] ELSE bound[o]]
    BY <1>8 DEF CommitPublish, Publishing
  <2>2. run[t].list = In(run[t].job, "downloading") /\ holder[run[t].job] = t
    BY <2>1 DEF LInv, Work, AtWork
  <2>3. ASSUME NEW q \in Plans, holder[q] = x, NEW o \in Of(q), object[o] \in {"downloading", "staging"}
        PROVE  object'[o] = object[o] /\ bound'[o] = bound[o]
    <3>1. o \notin run[t].list /\ o \in Objects
      BY <2>2, <2>3 DEF In, Of
    <3>2. o \notin Restored(t)
      BY <2>3, RestoredAre
    <3> QED BY <2>1, <3>1, <3>2 DEF WithRestored
  <2> QED BY <1>1, <1>3, <1>4, <2>1, <2>3, WorkIsLeftAlone
<1>9. CASE CompleteSettlement(t)
  <2> PICK p \in Plans : p = run[t].job
    BY <1>9, RunFields DEF CompleteSettlement, IInv
  <2>1. UNCHANGED bound
    BY <1>9 DEF CompleteSettlement
  <2>2. CASE UNCHANGED <<holder, object>>
    BY <1>1, <1>3, <1>4, <2>1, <2>2, WorkIsLeftAlone
  <2>3. CASE /\ holder[p] = t /\ holder' = [holder EXCEPT ![p] = NoRun]
             /\ object' = [o \in Objects |-> IF o \in In(p, "staging") THEN "ready" ELSE object[o]]
    <3>1. \A o \in Objects : o \notin Of(p) => object'[o] = object[o]
      BY <2>3 DEF In
    <3> QED BY <1>1, <1>3, <1>4, <1>5, <2>1, <2>3, <3>1, OtherPlanChanges
  <2> QED BY <1>9, <2>2, <2>3 DEF CompleteSettlement, Release, Fenced
<1>10. CASE CommitFail(t)
  <2> PICK p \in Plans : p = run[t].job
    BY <1>10, RunFields DEF CommitFail, Cleaning, IInv
  <2>1. UNCHANGED bound /\ holder' = [holder EXCEPT ![p] = NoRun] /\ run[t].pc = "cleaning"
    BY <1>10 DEF CommitFail, Release, Cleaning
  <2>2. holder[p] = t /\ run[t].apart \subseteq Active(p)
    BY <2>1 DEF LInv, Work, AtWork
  <2>3. \A o \in Objects : o \notin Of(p) => object'[o] = object[o]
    BY <1>10, <2>2 DEF CommitFail, Active
  <2> QED BY <1>1, <1>3, <1>4, <1>5, <2>1, <2>2, <2>3, OtherPlanChanges
<1>11. CASE CommitRecoverRetry(t)
  <2> PICK p \in Plans : p = run[t].job
    BY <1>11, RunFields DEF CommitRecoverRetry, Recovering, IInv
  <2> DEFINE s == IF holder[p] \in DesktopRuns THEN "awaiting_local_source" ELSE RetryState(MoreAttempts(p))
  <2>1. /\ UNCHANGED bound /\ holder' = [holder EXCEPT ![p] = NoRun] /\ Precommit(p) /\ Consistent(p)
        /\ object' = [o \in Objects |-> IF o \in In(p, "downloading") THEN s ELSE object[o]]
    BY <1>11 DEF CommitRecoverRetry
  <2> HIDE DEF s
  <2>2. \A o \in Objects : o \notin Of(p) => object'[o] = object[o]
    BY <2>1 DEF In
  <2>3. CASE holder[p] # x
    BY <1>1, <1>3, <1>4, <1>5, <2>1, <2>2, <2>3, OtherPlanChanges
  <2>4. CASE holder[p] = x
    <3>1. run[x].pc = "settling" => \A o \in run[x].todo : staged[x][o] = NoBlob
      <4> SUFFICES ASSUME run[x].pc = "settling", NEW o \in run[x].todo, staged[x][o] # NoBlob PROVE FALSE
        OBVIOUS
      <4>1. object[o] = "staging" /\ PlanOf[o] = run[x].job /\ run[x].job = p
        BY <2>4 DEF LInv, Work, AtWork
      <4> QED BY <1>1, <2>1, <4>1 DEF Consistent, Phase, Active, In, Of, Inactive
    <3>2. \A q \in Plans : holder'[q] = x => holder[q] = x
      BY <1>5, <2>1
    <3>3. ASSUME NEW q \in Plans, holder[q] = x
          PROVE  \/ /\ holder'[q] = x
                    /\ \A o \in Of(q) : object[o] \in {"downloading", "staging"} =>
                          object'[o] = object[o] /\ bound'[o] = bound[o]
                 \/ /\ holder'[q] # x
                    /\ run[x].pc = "settling" => \A o \in run[x].todo : staged[x][o] = NoBlob
      <4>1. CASE q = p
        BY <1>5, <2>1, <3>1, <4>1
      <4>2. CASE q # p
        BY <1>5, <2>1, <2>2, <3>3, <4>2 DEF Of
      <4> QED BY <4>1, <4>2
    <3> QED BY <1>1, <1>3, <1>4, <3>2, <3>3, WorkIsLeftAlone
  <2> QED BY <2>3, <2>4
<1>12. CASE CommitRecoverSettle(t)
  <2> PICK p \in Plans : p = run[t].job
    BY <1>12, RunFields DEF CommitRecoverSettle, Recovering, IInv
  <2>1. UNCHANGED <<bound, object>> /\ holder' = [holder EXCEPT ![p] = t]
    BY <1>12 DEF CommitRecoverSettle, objects
  <2>2. \A o \in Objects : staged[holder[p]][o] = NoBlob
    BY <1>12, AllAdopted DEF CommitRecoverSettle, Recovering
  <2>3. \A q \in Plans : holder'[q] = x => holder[q] = x
    BY <1>5, <2>1
  <2>4. ASSUME NEW q \in Plans, holder[q] = x
        PROVE  \/ /\ holder'[q] = x
                  /\ \A o \in Of(q) : object[o] \in {"downloading", "staging"} =>
                        object'[o] = object[o] /\ bound'[o] = bound[o]
               \/ /\ holder'[q] # x
                  /\ run[x].pc = "settling" => \A o \in run[x].todo : staged[x][o] = NoBlob
    BY <1>1, <1>5, <2>1, <2>2, <2>4
  <2> QED BY <1>1, <1>3, <1>4, <2>3, <2>4, WorkIsLeftAlone
<1>13. CASE MarkRecoveryFailed(t)
  <2>1. UNCHANGED <<holder, object, bound>>
    BY <1>13 DEF MarkRecoveryFailed, objects
  <2> QED BY <1>1, <1>3, <1>4, <2>1, WorkIsLeftAlone
<1> QED BY <1>6, <1>7, <1>8, <1>9, <1>10, <1>11, <1>12, <1>13 DEF RowsChange

-----------------------------------------------------------------------------
(* Runs at work: their own steps.                                          *)

\* A run that fails keeps its plan.
LEMMA FailingWork ==
  ASSUME IInv, LInv, NEW t \in Runs, run[t].pc # "idle", UNCHANGED holder,
         \/ \E d, S : FailAs(t, d, S)
         \/ run' = [run EXCEPT ![t].pc = "broken"]
  PROVE  AtWork(t)'
<1>1. run'[t].pc \in {"failing", "broken"} /\ run'[t].job = run[t].job
  <2>0. run \in [Runs -> RunStates]
    BY DEF IInv, RunsOK
  <2>1. ASSUME NEW d, NEW S, FailAs(t, d, S) PROVE run'[t].pc = "failing" /\ run'[t].job = run[t].job
    <3>1. run'[t] = [run[t] EXCEPT !.pc = "failing", !.todo = {}, !.apart = S, !.why = d]
      BY <2>0, <2>1 DEF FailAs
    <3> QED BY <2>0, <3>1 DEF RunStates
  <2>2. CASE run' = [run EXCEPT ![t].pc = "broken"]
    BY <2>0, <2>2 DEF RunStates
  <2> QED BY <2>1, <2>2
<1>2. AtWork(t)
  BY DEF LInv, Work
<1> QED BY <1>1, <1>2, Restful DEF AtWork

\* A run that ends.
LEMMA EndedWork ==
  ASSUME IInv, NEW t \in Runs, EndRun(t) PROVE AtWork(t)'
BY Restful DEF EndRun, Idle, IInv, RunsOK

\* A run that stages the next of its objects, or sets it apart.
LEMMA StagingWork ==
  ASSUME IInv, LInv, NEW t \in Runs, StageObject(t) \/ SourceUnavailable(t) PROVE AtWork(t)'
<1>1. /\ run[t].pc = "staging" /\ run[t].todo # {} /\ run[t].todo \subseteq Objects /\ AtWork(t)
      /\ UNCHANGED <<holder, object>>
  BY RunFields DEF StageObject, SourceUnavailable, Staging, IInv, LInv, Work, db, plans, objects
<1> PICK o \in run[t].todo : o = First(run[t].todo)
  BY <1>1, FirstObject
<1>2. /\ \A x \in Objects : x # o => staged'[t][x] = staged[t][x]
      /\ run'[t].pc = "staging" /\ run'[t].job = run[t].job /\ run'[t].todo = run[t].todo \ {o}
      /\ \/ run'[t].list = run[t].list \union {o} /\ run'[t].apart = run[t].apart
         \/ run'[t].list = run[t].list /\ run'[t].apart = run[t].apart \union {o}
  <2>0. run \in [Runs -> RunStates] /\ staged \in [Runs -> [Objects -> Blobs \union {NoBlob}]]
    BY DEF IInv, RunsOK
  <2>1. CASE StageObject(t)
    <3>1. /\ run' = [run EXCEPT ![t].todo = @ \ {o}, ![t].list = @ \union {o}]
          /\ \E b \in Sources[o] : staged' = [staged EXCEPT ![t][o] = b]
      BY <2>1 DEF StageObject
    <3>2. run'[t] = [run[t] EXCEPT !.todo = @ \ {o}, !.list = @ \union {o}]
      BY <2>0, <3>1
    <3>3. /\ run'[t].pc = run[t].pc /\ run'[t].job = run[t].job /\ run'[t].todo = run[t].todo \ {o}
          /\ run'[t].list = run[t].list \union {o} /\ run'[t].apart = run[t].apart
      BY <2>0, <3>2 DEF RunStates
    <3>4. \A x \in Objects : x # o => staged'[t][x] = staged[t][x]
      BY <2>0, <3>1
    <3> QED BY <1>1, <3>3, <3>4
  <2>2. CASE SourceUnavailable(t)
    <3>1. /\ run' = [run EXCEPT ![t].todo = @ \ {o}, ![t].apart = @ \union {o}] /\ UNCHANGED staged
      BY <2>2 DEF SourceUnavailable, files
    <3>2. run'[t] = [run[t] EXCEPT !.todo = @ \ {o}, !.apart = @ \union {o}]
      BY <2>0, <3>1
    <3>3. /\ run'[t].pc = run[t].pc /\ run'[t].job = run[t].job /\ run'[t].todo = run[t].todo \ {o}
          /\ run'[t].list = run[t].list /\ run'[t].apart = run[t].apart \union {o}
      BY <2>0, <3>2 DEF RunStates
    <3> QED BY <1>1, <3>1, <3>3
  <2> QED BY <2>1, <2>2
<1>3. In(run[t].job, "downloading")' = In(run[t].job, "downloading")
  BY <1>1, <1>2 DEF In, Of
<1>4. \A x \in run'[t].todo : staged'[t][x] = NoBlob
  BY <1>1, <1>2 DEF AtWork
<1>5. \A p \in Plans : holder'[p] = t => run'[t].job = p
  BY <1>1, <1>2 DEF AtWork
<1>6. ASSUME holder'[run'[t].job] = t
      PROVE  /\ run'[t].todo \union run'[t].list \union run'[t].apart \subseteq In(run[t].job, "downloading")
             /\ run'[t].todo \intersect run'[t].list = {} /\ run'[t].todo \intersect run'[t].apart = {}
             /\ run'[t].list \intersect run'[t].apart = {}
  <2>1. holder[run[t].job] = t
    BY <1>1, <1>2, <1>6
  <2>2. /\ run[t].todo \union run[t].list \union run[t].apart \subseteq In(run[t].job, "downloading")
        /\ run[t].todo \intersect run[t].list = {} /\ run[t].todo \intersect run[t].apart = {}
        /\ run[t].list \intersect run[t].apart = {}
    BY <1>1, <2>1 DEF AtWork
  <2> QED BY <1>2, <2>2
<1> QED BY <1>2, <1>3, <1>4, <1>5, <1>6 DEF AtWork

\* The run that takes the lock, and the run that works under it.
LEMMA LockedWork ==
  ASSUME IInv, LInv, NEW t \in Runs, BeginPublish(t) \/ LinkFile(t) \/ BeginFail(t) \/ CleanFile(t)
  PROVE  AtWork(t)'
<1>1. AtWork(t) /\ UNCHANGED <<holder, object, blob>>
  BY DEF BeginPublish, LinkFile, BeginFail, CleanFile, LInv, Work, db, plans, objects, blobs
<1> PICK p : p = run[t].job
  OBVIOUS
<1>2. In(p, "downloading")' = In(p, "downloading") /\ Active(p)' = Active(p)
  BY <1>1 DEF In, Of, Active
<1>3. CASE BeginPublish(t)
  <2>1. /\ run[t].pc = "staging" /\ run[t].list # {} /\ holder[p] = t /\ UNCHANGED staged
        /\ In(p, "downloading") = run[t].list /\ \A o \in run[t].list : blob[staged[t][o]] # "deleting"
    BY <1>3 DEF BeginPublish, ReadyToPublish, AllStaged, Fenced, PublicationAllowed, Offered, files
  <2>2. run'[t].pc = "publishing" /\ run'[t].todo = run[t].list /\ run'[t].list = run[t].list /\ run'[t].job = p
    BY <1>3 DEF BeginPublish, Goto, IInv, RunsOK, RunStates
  <2>3. \A q \in Plans : holder'[q] = t => run'[t].job = q
    BY <1>1, <2>1, <2>2 DEF AtWork
  <2> QED BY <1>1, <1>2, <2>1, <2>2, <2>3 DEF AtWork
<1>4. CASE LinkFile(t)
  <2>1. run[t].pc = "publishing" /\ UNCHANGED staged
    BY <1>4 DEF LinkFile, Publishing
  <2>2. run'[t].pc = "publishing" /\ run'[t].todo \subseteq run[t].todo /\ run'[t].list = run[t].list /\ run'[t].job = p
    BY <1>4, <2>1 DEF LinkFile, Loop, IInv, RunsOK, RunStates
  <2>3. \A q \in Plans : holder'[q] = t => run'[t].job = q
    BY <1>1, <2>1, <2>2 DEF AtWork
  <2> QED BY <1>1, <1>2, <2>1, <2>2, <2>3 DEF AtWork
<1>5. CASE BeginFail(t)
  <2>1. run[t].pc = "failing" /\ holder[p] = t /\ run[t].apart \subseteq Active(p)
    BY <1>5 DEF BeginFail, Failing, MayFail, Fenced
  <2>2. run'[t].pc = "cleaning" /\ run'[t].apart = run[t].apart /\ run'[t].job = p
    BY <1>5 DEF BeginFail, Goto, IInv, RunsOK, RunStates
  <2>3. \A q \in Plans : holder'[q] = t => run'[t].job = q
    BY <1>1, <2>1, <2>2 DEF AtWork
  <2> QED BY <1>1, <1>2, <2>1, <2>2, <2>3 DEF AtWork
<1>6. CASE CleanFile(t)
  <2>1. run[t].pc = "cleaning"
    BY <1>6 DEF CleanFile, Cleaning
  <2>2. run'[t].pc = "cleaning" /\ run'[t].apart = run[t].apart /\ run'[t].job = p
    BY <1>6, <2>1 DEF CleanFile, Loop, IInv, RunsOK, RunStates
  <2>3. \A q \in Plans : holder'[q] = t => run'[t].job = q
    BY <1>1, <2>1, <2>2 DEF AtWork
  <2> QED BY <1>1, <1>2, <2>1, <2>2, <2>3 DEF AtWork
<1> QED BY <1>3, <1>4, <1>5, <1>6

\* A run that settles drops the names of what it published.
LEMMA SettlingWork == ASSUME IInv, LInv, NEW t \in Runs, SettleFile(t) PROVE AtWork(t)'
<1>1. run[t].pc = "settling" /\ run[t].todo # {} /\ run[t].todo \subseteq Objects /\ AtWork(t)
      /\ UNCHANGED <<holder, object, bound>>
  BY RunFields DEF SettleFile, IInv, LInv, Work, db, plans, objects
<1> PICK o \in run[t].todo : o = First(run[t].todo)
  BY <1>1, FirstObject
<1>2. CASE EndRun(t)
  BY <1>2, EndedWork
<1>3. CASE DropStaged(t, o) /\ Loop(t)
  <2>1. run'[t].pc = "settling" /\ run'[t].todo = run[t].todo \ {o} /\ run'[t].job = run[t].job
    BY <1>1, <1>3 DEF Loop, IInv, RunsOK, RunStates
  <2>2. \A x \in Objects : x # o => staged'[t][x] = staged[t][x]
    BY <1>3 DEF DropStaged, IInv, RunsOK
  <2>3. \A q \in Plans : holder'[q] = t => run'[t].job = q
    BY <1>1, <2>1 DEF AtWork
  <2>4. ASSUME NEW x \in run'[t].todo, staged'[t][x] # NoBlob
        PROVE  /\ holder'[run'[t].job] = t /\ PlanOf[x] = run'[t].job
               /\ object'[x] = "staging" /\ bound'[x] = staged'[t][x]
    BY <1>1, <2>1, <2>2, <2>4 DEF AtWork
  <2> QED BY <2>1, <2>3, <2>4 DEF AtWork
<1> QED BY <1>2, <1>3 DEF SettleFile, SettleCommitted

\* Who recovers a committed plan lists what is staged, and has all its objects to look at.
LEMMA RecoveryBegins == ASSUME IInv, LInv, NEW t \in Runs, NEW p \in Plans, BeginRecover(t, p) PROVE AtWork(t)'
<1>1. /\ ~Holds(t) /\ plan[p] \in Leased /\ UNCHANGED <<plan, holder, object, staged>>
  BY DEF BeginRecover, Fresh, Expired, db, plans, objects, files
<1>2. /\ run'[t].pc = "recovering" /\ run'[t].job = p /\ run'[t].list = StagedFiles(holder[p])
      /\ run'[t].todo = IF Precommit(p) THEN StagedFiles(holder[p]) ELSE In(p, "staging")
  BY DEF BeginRecover, Idle, IInv, RunsOK
<1>3. Precommit(p)' = Precommit(p) /\ In(p, "staging")' = In(p, "staging") /\ StagedFiles(holder[p])' = StagedFiles(holder[p])
  BY <1>1 DEF Precommit, In, Of, StagedFiles
<1>4. Precommit(run[t].job)' = Precommit(p) /\ In(run[t].job, "staging")' = In(p, "staging")
      /\ StagedFiles(holder[run[t].job])' = StagedFiles(holder[p])
  BY <1>2, <1>3, <1>1 DEF Precommit, In, Of, StagedFiles
<1> QED BY <1>1, <1>2, <1>4 DEF AtWork, Holds

\* Each name it drops is off both its lists.
LEMMA RecoveryGoesOn == ASSUME IInv, LInv, NEW t \in Runs, RecoverFile(t) PROVE AtWork(t)'
<1> PICK p : p = run[t].job
  OBVIOUS
<1>1. /\ run[t].pc = "recovering" /\ run[t].todo # {} /\ run[t].todo \subseteq Objects /\ AtWork(t) /\ p \in Plans
      /\ Consistent(p) /\ run[t].list \subseteq In(p, Phase(p))
      /\ UNCHANGED <<plan, holder, object, bound>>
  BY RunFields DEF RecoverFile, Recovering, IInv, LInv, Work, db, plans, objects
<1> PICK o \in run[t].todo : o = First(run[t].todo)
  BY <1>1, FirstObject
<1>2. /\ run'[t].pc = "recovering" /\ run'[t].job = p /\ run'[t].list = run[t].list
      /\ run'[t].todo = run[t].todo \ {o} \/ (Precommit(p) /\ run'[t].todo = run[t].todo)
  BY <1>1 DEF RecoverFile, Loop, IInv, RunsOK, RunStates
<1>3. plan[p] \in Leased /\ holder[p] \in Runs
  BY <1>1 DEF AtWork, LInv, Leases, LeaseOK, IInv, Books, RowsOK
<1>4. \A q \in Plans : holder'[q] = t => p = q
  BY <1>1 DEF AtWork
<1>5. /\ Precommit(run[t].job)' = Precommit(p) /\ In(run[t].job, "staging")' = In(p, "staging")
      /\ StagedFiles(holder[run[t].job])' = StagedFiles(holder[p])'
  BY <1>1, <1>2 DEF Precommit, In, Of, StagedFiles
<1>6. CASE Precommit(p)
  BY <1>1, <1>2, <1>3, <1>4, <1>5, <1>6 DEF AtWork
<1>7. CASE ~Precommit(p)
  <2>1. /\ run[t].todo \subseteq In(p, "staging") /\ run[t].list \subseteq In(p, "staging")
        /\ StagedFiles(holder[p]) \subseteq run[t].list /\ StagedFiles(holder[p]) \subseteq run[t].todo
    BY <1>1, <1>7 DEF AtWork, Phase
  <2>2. IF o \in run[t].list THEN DropStaged(holder[p], o) ELSE UNCHANGED staged
    BY <1>7 DEF RecoverFile, SettleCommitted, files
  <2>3. StagedFiles(holder[p])' \subseteq StagedFiles(holder[p]) \ {o}
    <3>1. CASE o \in run[t].list
      BY <1>1, <1>3, <2>2, <3>1 DEF DropStaged, StagedFiles, IInv, RunsOK
    <3>2. CASE o \notin run[t].list
      BY <1>1, <2>1, <2>2, <3>2 DEF StagedFiles
    <3> QED BY <3>1, <3>2
  <2> QED BY <1>1, <1>2, <1>3, <1>4, <1>5, <1>7, <2>1, <2>3 DEF AtWork
<1> QED BY <1>6, <1>7

\* The steps of a run that leave the rows alone, one by one.
LEMMA RowsAloneOwn == ASSUME IInv, LInv, NEW t \in Runs, RowsAlone(t) PROVE AtWork(t)'
<1>1. CASE StageObject(t) \/ SourceUnavailable(t)
  BY <1>1, StagingWork
<1>2. CASE BeginPublish(t) \/ LinkFile(t) \/ BeginFail(t) \/ CleanFile(t)
  BY <1>2, LockedWork
<1>3. CASE SettleFile(t) \/ RecoverFile(t) \/ \E p \in Plans : BeginRecover(t, p)
  BY <1>3, SettlingWork, RecoveryGoesOn, RecoveryBegins
<1>4. CASE PostLimitReached(t) \/ StagingFails(t) \/ NothingStaged(t) \/ PublishRefused(t) \/ PublishRollsBack(t)
           \/ RecoverBreaks(t)
  <2>1. run[t].pc # "idle" /\ UNCHANGED holder
    BY <1>4 DEF PostLimitReached, StagingFails, NothingStaged, PublishRefused, PublishRollsBack, RecoverBreaks,
           Staging, AllStaged, ReadyToPublish, Publishing, Recovering, db, plans
  <2>2. (\E d, S : FailAs(t, d, S)) \/ run' = [run EXCEPT ![t].pc = "broken"]
    BY <1>4 DEF PostLimitReached, StagingFails, NothingStaged, PublishRefused, PublishRollsBack, RecoverBreaks
  <2> QED BY <2>1, <2>2, FailingWork
<1>5. CASE FailRefused(t) \/ FailRollsBack(t) \/ CrashRun(t)
  BY <1>5, EndedWork DEF FailRefused, FailRollsBack, CrashRun
<1>6. CASE \E o \in Objects : ReconcileOrphan(t, o)
  <2> PICK o \in Objects : ReconcileOrphan(t, o)
    BY <1>6
  <2>1. /\ ~Holds(t) /\ AtWork(t) /\ run[t].todo \subseteq Objects /\ run'[t] = run[t]
        /\ UNCHANGED <<plan, holder, object, bound, blob>>
    BY RunFields DEF ReconcileOrphan, StaleLease, db, plans, objects, blobs, runs, IInv, LInv, Work
  <2>2. Drops(t, o)
    BY RolledBackDrops DEF ReconcileOrphan, StaleLease
  <2>3. \A y \in Runs : \A q \in Objects : staged'[y][q] \in {staged[y][q], NoBlob}
    BY <2>2, NamesOnlyGo DEF IInv
  <2>4. run[t].pc # "publishing"
    BY <2>1, RunFields DEF AtWork, Holds, IInv
  <2>5. run[t].pc = "recovering" => holder[run[t].job] \in Runs
    BY RunFields DEF IInv, Books, RowsOK, LInv, Work, AtWork, Leases, LeaseOK
  <2> QED BY <2>1, <2>3, <2>4, <2>5, WorkGoesOn
<1> QED BY <1>1, <1>2, <1>3, <1>4, <1>5, <1>6 DEF RowsAlone

\* A fresh token has no plan and no staging files.
LEMMA ClaimedWork == ASSUME IInv, LInv, NEW t \in Runs, NEW p \in Plans, ClaimPostPlan(t, p) PROVE AtWork(t)'
<1>1. /\ run'[t].pc = "staging" /\ run'[t].job = p /\ run'[t].todo = Active(p) /\ run'[t].list = {} /\ run'[t].apart = {}
  BY DEF ClaimPostPlan, IInv, RunsOK, Idle
<1>2. /\ ~Holds(t) /\ holder' = [holder EXCEPT ![p] = t] /\ UNCHANGED staged /\ \A o \in Objects : staged[t][o] = NoBlob
      /\ object' = [o \in Objects |-> IF o \in Active(p) THEN "downloading" ELSE object[o]]
  BY DEF ClaimPostPlan, Fresh, files
<1>3. Active(p) \subseteq {o \in Of(p) : object'[o] = "downloading"}
  BY <1>2 DEF Active, Of
<1>4. In(run[t].job, "downloading")' = {o \in Of(p) : object'[o] = "downloading"}
  BY <1>1 DEF In, Of
<1>5. \A q \in Plans : holder'[q] = t => run'[t].job = q
  BY <1>1, <1>2 DEF Holds, IInv, Books, RowsOK
<1>6. \A o \in run'[t].todo : staged'[t][o] = NoBlob
  BY <1>1, <1>2 DEF Active, Of
<1> QED BY <1>1, <1>3, <1>4, <1>5, <1>6 DEF AtWork

\* The objects it skips are not those it has staged.
LEMMA SkippingWork == ASSUME IInv, LInv, NEW t \in Runs, SkipClaimedObject(t) PROVE AtWork(t)'
<1>1. /\ run[t].pc = "staging" /\ run[t].todo = {} /\ run[t].apart # {} /\ run[t].apart \subseteq Objects
      /\ UNCHANGED <<holder, staged>> /\ AtWork(t)
  BY RunFields DEF SkipClaimedObject, AllStaged, plans, files, IInv, LInv, Work
<1> PICK p : p = run[t].job
  OBVIOUS
<1> PICK o \in run[t].apart : o = First(run[t].apart)
  BY <1>1, FirstObject
<1>2. CASE FailAs(t, "retry", {})
  BY <1>1, <1>2, FailingWork
<1>3. CASE /\ Fenced(t, p, "staging") /\ object' = [object EXCEPT ![o] = "skipped"]
           /\ run' = [run EXCEPT ![t].apart = @ \ {o}]
  <2>1. /\ run'[t].pc = "staging" /\ run'[t].job = p /\ run'[t].todo = {} /\ run'[t].list = run[t].list
        /\ run'[t].apart = run[t].apart \ {o}
    BY <1>1, <1>3 DEF IInv, RunsOK, RunStates
  <2>2. /\ run[t].list \union run[t].apart \subseteq In(p, "downloading") /\ run[t].list \intersect run[t].apart = {}
    BY <1>1, <1>3 DEF AtWork, Fenced
  <2>3. \A x \in Objects : x # o => object'[x] = object[x]
    BY <1>3 DEF IInv, Books, RowsOK
  <2>4. run'[t].list \union run'[t].apart \subseteq {x \in Of(p) : object'[x] = "downloading"}
    BY <2>1, <2>2, <2>3 DEF In, Of
  <2>5. In(run[t].job, "downloading")' = {x \in Of(p) : object'[x] = "downloading"}
    BY <2>1 DEF In, Of
  <2>6. \A q \in Plans : holder'[q] = t => run'[t].job = q
    BY <1>1, <2>1 DEF AtWork
  <2> QED BY <2>1, <2>2, <2>4, <2>5, <2>6 DEF AtWork
<1> QED BY <1>2, <1>3 DEF SkipClaimedObject

\* What a run has to settle is what it has just bound.
LEMMA CommittedWork == ASSUME IInv, LInv, NEW t \in Runs, CommitPublish(t) PROVE AtWork(t)'
<1> PICK p : p = run[t].job
  OBVIOUS
<1>1. /\ run[t].pc = "publishing" /\ UNCHANGED <<holder, staged>> /\ AtWork(t) /\ run[t].list \subseteq Objects
      /\ object' = [o \in Objects |-> IF o \in run[t].list THEN "staging" ELSE WithRestored(t)[o]]
      /\ bound' = [o \in Objects |-> IF o \in run[t].list THEN staged[t][o] ELSE bound[o]]
  BY RunFields DEF CommitPublish, Publishing, files, IInv, LInv, Work
<1>2. run'[t].pc = "settling" /\ run'[t].job = p /\ run'[t].todo = run[t].list
  BY DEF CommitPublish, Goto, IInv, RunsOK, RunStates
<1>3. holder[p] = t /\ run[t].list = In(p, "downloading")
  BY <1>1 DEF AtWork
<1>4. \A q \in Plans : holder'[q] = t => run'[t].job = q
  BY <1>1, <1>2 DEF AtWork
<1>5. \A o \in run'[t].todo : /\ holder'[p] = t /\ PlanOf[o] = p
                              /\ object'[o] = "staging" /\ bound'[o] = staged'[t][o]
  BY <1>1, <1>2, <1>3 DEF In, Of
<1> QED BY <1>2, <1>4, <1>5 DEF AtWork

\* Who adopts a committed plan has settled its files.
LEMMA AdoptingWork == ASSUME IInv, LInv, NEW t \in Runs, CommitRecoverSettle(t) PROVE AtWork(t)'
<1>1. run[t].pc = "recovering" /\ AtWork(t) /\ holder' = [holder EXCEPT ![run[t].job] = t]
  BY DEF CommitRecoverSettle, Recovering, LInv, Work
<1>2. run'[t].pc = "settling" /\ run'[t].job = run[t].job /\ run'[t].todo = {}
  BY DEF CommitRecoverSettle, Goto, IInv, RunsOK, RunStates
<1>3. \A q \in Plans : holder'[q] = t => run'[t].job = q
  BY <1>1, <1>2 DEF AtWork, IInv, Books, RowsOK
<1> QED BY <1>2, <1>3 DEF AtWork

\* The transactions of runs, one by one.
LEMMA RowsChangeOwn == ASSUME IInv, LInv, NEW t \in Runs, RowsChange(t) PROVE AtWork(t)'
<1>1. CASE CompleteSettlement(t) \/ CommitFail(t) \/ CommitRecoverRetry(t) \/ MarkRecoveryFailed(t)
  BY <1>1, EndedWork DEF CompleteSettlement, CommitFail, CommitRecoverRetry, MarkRecoveryFailed
<1> QED BY <1>1, ClaimedWork, SkippingWork, CommittedWork, AdoptingWork DEF RowsChange

\* Steps of evictors and owners, and time.
LEMMA EvictionWork ==
  ASSUME IInv, LInv, NEW e \in Evictors,
         CompleteEviction(e) \/ RestoreEviction(e) \/ \E b \in Blobs : ClaimEviction(e, b)
  PROVE  Work'
<1>1. Unlocked /\ UNCHANGED <<run, holder, bound, staged>>
  BY DEF CompleteEviction, RestoreEviction, ClaimEviction, plans, objects, runs, files
<1>2. \A o \in Objects : object[o] \in {"downloading", "staging"} => object'[o] = object[o]
  BY DEF CompleteEviction, RestoreEviction, ClaimEviction, objects
<1>3. ASSUME NEW x \in Runs PROVE AtWork(x)'
  <2>1. AtWork(x) /\ run[x].todo \subseteq Objects /\ (run[x].pc # "idle" => run[x].job \in Plans)
    BY RunFields DEF IInv, LInv, Work
  <2>2. run[x].pc \notin {"publishing", "cleaning", "recovering"}
    BY <1>1, RunAssumption DEF Unlocked, IInv, LockOK, Undisturbed
  <2> QED BY <1>1, <1>2, <2>1, <2>2, WorkIsLeftAlone DEF Of
<1> QED BY <1>3 DEF Work

\* The plan of a retry has no lease.
LEMMA RetryWork == ASSUME IInv, LInv, NEW o \in Objects, AdminRetry(o) PROVE Work'
<1> PICK p \in Plans : p = PlanOf[o]
  BY ObjectAssumption
<1>1. Unlocked /\ UNCHANGED <<run, holder, bound, staged>> /\ reserved[p] = 0
  BY DEF AdminRetry, runs, files
<1>2. \A x \in Objects : x \notin Of(p) => object'[x] = object[x]
  BY DEF AdminRetry, Of
<1>3. holder[p] = NoRun
  BY <1>1 DEF LInv, Leases, LeaseOK
<1>4. ASSUME NEW x \in Runs PROVE AtWork(x)'
  <2>1. run[x].pc \notin {"publishing", "cleaning", "recovering"} /\ x # NoRun
    BY <1>1, RunAssumption DEF Unlocked, IInv, LockOK, Undisturbed
  <2> QED BY <1>1, <1>2, <1>3, <2>1, OtherPlanChanges
<1> QED BY <1>4 DEF Work

\* Neither rows nor staging files change.
LEMMA AsideWork ==
  ASSUME IInv, LInv, UNCHANGED <<run, plan, holder, object, bound, blob, staged>> PROVE Work'
<1>1. ASSUME NEW x \in Runs PROVE AtWork(x)'
  <2>1. AtWork(x) /\ run[x].todo \subseteq Objects
    BY RunFields DEF IInv, LInv, Work
  <2> QED BY <2>1, WorkGoesOn
<1> QED BY <1>1 DEF Work

\* Every step keeps what runs at work rely on.
LEMMA WorkKept == ASSUME IInv, LInv, [Next]_vars PROVE Work'
<1>1. ASSUME NEW t \in Runs, RowsAlone(t) \/ RowsChange(t) PROVE Work'
  BY <1>1, RowsAloneOwn, RowsAloneOthers, RowsChangeOwn, RowsChangeOthers DEF Work
<1>2. CASE \E e \in Evictors : CompleteEviction(e) \/ RestoreEviction(e) \/ \E b \in Blobs : ClaimEviction(e, b)
  BY <1>2, EvictionWork
<1>3. CASE \E o \in Objects : AdminRetry(o)
  BY <1>3, RetryWork
<1>4. CASE \/ \E o \in Objects : Protect(o) \/ Unprotect(o)
           \/ \E e \in Evictors : Unlink(e) \/ UnlinkFails(e) \/ CrashEvictor(e)
           \/ \E b \in Blobs : EvictionExpires(b)
           \/ \E t \in Runs : LeaseExpires(t)
           \/ UNCHANGED vars
  <2>1. UNCHANGED <<run, plan, holder, object, bound, blob, staged>>
    BY <1>4 DEF Protect, Unprotect, Unlink, UnlinkFails, CrashEvictor, EvictionExpires, LeaseExpires, vars, db,
           plans, objects, blobs, files, runs
  <2> QED BY <2>1, AsideWork
<1> QED BY <1>1, <1>2, <1>3, <1>4, StepsAre

\* Every step keeps all of it.
LEMMA LedgerStepKeeps == ASSUME IInv, LInv, [Next]_vars PROVE LInv'
<1>1. MoreTypes' /\ FilesInv'
  BY MoreTypesKept, FilesKept
<1>2. LedgerAddsUp' /\ Leases' /\ Work'
  BY LedgerKept, LeasesKept, WorkKept
<1> QED BY <1>1, <1>2 DEF LInv, FilesInv

LEMMA LedgerInvariance == Spec => [](IInv /\ LInv)
BY Starts, LedgerStarts, StepKeeps, LedgerStepKeeps, PTL DEF Spec

\* The physical bytes, the reservations and the original bytes of every post in the ledger are the
\* sums of the rows they stand for, though every transaction of ledger-repository.ts and
\* eviction-repository.ts moves them by differences only.
THEOREM CountersAddUp == Spec => []LedgerAddsUp
<1>1. IInv /\ LInv => LedgerAddsUp
  BY DEF LInv
<1> QED BY <1>1, LedgerInvariance, PTL

\* A plan has a lease, a reservation and active objects being downloaded, or none of them, for any
\* claims, failures, expiries, recoveries and retries (claimPostPlan, recoverExpiredPostPlan).
THEOREM LeasesStayComplete == Spec => []LeasesAreComplete
<1>1. IInv /\ LInv => LeasesAreComplete
  BY ClaimedPlan DEF LInv, LeasesAreComplete, Leases, LeaseOK, Complete
<1> QED BY <1>1, LedgerInvariance, PTL

\* No crash, rollback, full disk or eviction leaves a final file that neither the ledger counts nor a
\* staging name can lead to (blob-store.ts publish and settle).
THEOREM UncountedFilesStayOwned == Spec => []UncountedFilesAreOwned
<1>1. IInv /\ LInv => UncountedFilesAreOwned
  BY DEF LInv
<1> QED BY <1>1, LedgerInvariance, PTL

\* The types, with the counters natural numbers: no release, eviction or rollback takes off more
\* than was put on, and attempts stay within their limit.
THEOREM MediaTypes == Spec => []TypeOK
<1>1. ASSUME IInv, LInv PROVE TypeOK
  <2>1. readyBytes \in Nat
    BY <1>1, Lengths DEF LInv, LedgerAddsUp
  <2>2. reservedBytes \in Nat
    BY <1>1, ObjectAssumption, SumIsNat DEF LInv, LedgerAddsUp, MoreTypes
  <2>3. ASSUME NEW p \in Plans PROVE readyOriginal[p] \in Nat
    <3>1. In(p, "ready") \subseteq Objects
      BY DEF In, Of
    <3> QED BY <1>1, <3>1, Lengths DEF LInv, LedgerAddsUp
  <2>4. readyOriginal \in [Plans -> Nat]
    BY <1>1, <2>3 DEF LInv, MoreTypes
  <2> QED BY <1>1, <2>1, <2>2, <2>4 DEF LInv, MoreTypes, IInv, Books, RowsOK, RunsOK, TypeOK
<1> QED BY <1>1, LedgerInvariance, PTL
=============================================================================
