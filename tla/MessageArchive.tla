--------------------------- MODULE MessageArchive ---------------------------
(***************************************************************************)
(* The archive of channel messages (messages/repository.ts): each message  *)
(* has immutable revisions, the last of which is current.  Two sources     *)
(* write to it: the intake worker applies Bot updates, each message's in   *)
(* update order (module TelegramIntake), and Telegram Desktop imports      *)
(* (imports/telegram-desktop-service.ts) apply the snapshots of an export  *)
(* file in batches, under a session lock that may be lost.                 *)
(*                                                                         *)
(* A message is a number (the file order), a version of it is the number   *)
(* of its edits.  Every write transaction first takes one advisory lock    *)
(* (source-evidence-coordination.ts), so a batch is one step; its messages *)
(* are different, so it is written pointwise.  current_revision_number is  *)
(* always the number of revisions and is not kept apart.  Messages of the  *)
(* kinds an import skips without an issue are left out.                    *)
(***************************************************************************)
EXTENDS Integers, Sequences, FiniteSets

CONSTANTS
    Messages,    \* message ids
    MaxVersion,  \* bound: edits of a message
    Edits,       \* bound: edits of each message
    EditTime,    \* the time of each version of each message, in Telegram's seconds
    Textual,     \* messages that both sources describe alike (media metadata differ)
    Unreadable,  \* messages an import cannot normalise
    Files,       \* export files
    Runs,        \* import runs
    BatchSize,   \* messages in one import transaction (250 in the code)
    NoRun, NoFile

Versions == 0 .. MaxVersion

ASSUME MessageAssumption == Messages \subseteq Nat /\ MaxVersion \in Nat /\ BatchSize \in Nat \ {0}
ASSUME TimeAssumption ==
    /\ Edits \in [Messages -> Versions] /\ EditTime \in [Messages -> [Versions -> Nat]]
    /\ \A m \in Messages : \A v, w \in Versions : v < w => EditTime[m][v] <= EditTime[m][w]
ASSUME RunAssumption == NoRun \notin Runs /\ NoFile \notin Files

VARIABLES
    posted,     \* Telegram: the version each message has, -1 before its publication
    pending,    \* Bot updates of each message that the worker has yet to apply
    lost,       \* Bot updates that expired or were skipped
    exported,   \* the snapshot in each export file, NoFile before it is taken
    revisions,  \* message_revisions: version and source, by revision number
    observed,   \* message_source_observations
    links,      \* import_run_observations: run and message
    row,        \* import_runs.status
    covered,    \* runs with rows in import_run_coverages
    lock,       \* the run whose session holds the import lock
    import      \* the import processes

world == <<posted, pending, lost, exported>>
archive == <<revisions, observed>>
ledger == <<links, row, covered>>
vars == <<world, archive, ledger, lock, import>>

Sources == {"bot", "desktop"}
Resolutions == {"created", "matched", "stale", "conflict"}
PCs == {"new", "batching", "writing", "reporting", "closing", "gone"}

Revision == [version : Versions, source : Sources]
Observation == [source : Sources, message : Messages, version : Versions, resolution : Resolutions]
Import == [pc : PCs, file : Files \union {NoFile}, todo : SUBSET Messages,
           batch : SUBSET Messages, clean : BOOLEAN]

TypeOK ==
    /\ posted \in [Messages -> -1 .. MaxVersion]
    /\ pending \in [Messages -> SUBSET Versions] /\ lost \in [Messages -> SUBSET Versions]
    /\ exported \in [Files -> [Messages -> -1 .. MaxVersion] \union {NoFile}]
    /\ revisions \in [Messages -> Seq(Revision)]
    /\ observed \subseteq Observation
    /\ links \subseteq Runs \X Messages
    /\ row \in [Runs -> {"none", "running", "completed", "partial", "interrupted"}]
    /\ covered \subseteq Runs
    /\ lock \in Runs \union {NoRun}
    /\ import \in [Runs -> Import]

Init ==
    /\ posted = [m \in Messages |-> -1]
    /\ pending = [m \in Messages |-> {}] /\ lost = [m \in Messages |-> {}]
    /\ exported = [f \in Files |-> NoFile]
    /\ revisions = [m \in Messages |-> <<>>] /\ observed = {}
    /\ links = {} /\ row = [r \in Runs |-> "none"] /\ covered = {}
    /\ lock = NoRun
    /\ import = [r \in Runs |-> [pc |-> "new", file |-> NoFile, todo |-> {}, batch |-> {},
                                 clean |-> TRUE]]

-----------------------------------------------------------------------------
(* Telegram.                                                               *)

\* A message is published, or edited: the Bot gets an update for each version.
Post(m) ==
    /\ posted[m] < Edits[m]
    /\ posted' = [posted EXCEPT ![m] = @ + 1]
    /\ pending' = [pending EXCEPT ![m] = @ \union {posted[m] + 1}]
    /\ UNCHANGED <<lost, exported, archive, ledger, lock, import>>

\* An update expires before it is fetched, or an administrator skips its task.
LoseUpdate(m, v) ==
    /\ v \in pending[m]
    /\ pending' = [pending EXCEPT ![m] = @ \ {v}]
    /\ lost' = [lost EXCEPT ![m] = @ \union {v}]
    /\ UNCHANGED <<posted, exported, archive, ledger, lock, import>>

\* An export shows each message in its last version.
Export(f) ==
    /\ exported[f] = NoFile
    /\ exported' = [exported EXCEPT ![f] = posted]
    /\ UNCHANGED <<posted, pending, lost, archive, ledger, lock, import>>

-----------------------------------------------------------------------------
(* The write decision (ingestSnapshotInTransaction).                       *)

\* The content fingerprint: the version, edit time included, as the source describes it.
Fingerprint(m, snapshot) ==
    [version |-> snapshot.version, seenBy |-> IF m \in Textual THEN "any" ELSE snapshot.source]
Matches(m, snapshot) ==
    \E i \in DOMAIN revisions[m] : Fingerprint(m, revisions[m][i]) = Fingerprint(m, snapshot)

Current(m) == revisions[m][Len(revisions[m])]
CurrentTime(m) == EditTime[m][Current(m).version]

\* A version that is no edit carries no time to compare.
Dated(snapshot) == snapshot.version > 0
\* Mutant: the same second counts as later.
NotOlder(m, snapshot) == Dated(snapshot) /\ EditTime[m][snapshot.version] >= CurrentTime(m)
Newer(m, snapshot) == Dated(snapshot) /\ EditTime[m][snapshot.version] > CurrentTime(m)
Older(m, snapshot) == Dated(snapshot) /\ EditTime[m][snapshot.version] < CurrentTime(m)

\* A Bot edit is appended whatever it meets, any other snapshot only when it is the first or newer.
Resolve(m, snapshot) ==
    IF \/ revisions[m] = <<>>
       \/ snapshot.source = "bot" /\ Dated(snapshot)
       \/ snapshot.source = "desktop" /\ ~Matches(m, snapshot) /\ Newer(m, snapshot)
    THEN "created"
    ELSE IF Matches(m, snapshot) THEN "matched"
    ELSE IF snapshot.source = "desktop" /\ Older(m, snapshot) THEN "stale" ELSE "conflict"

\* The source key of an observation: the update id, or message, time and fingerprint.
Earlier(m, snapshot) ==
    {o \in observed : o.source = snapshot.source /\ o.message = m /\ o.version = snapshot.version}
Replayed(m, snapshot) == Earlier(m, snapshot) # {}

Resolution(m, snapshot) ==
    IF Replayed(m, snapshot) THEN (CHOOSE o \in Earlier(m, snapshot) : TRUE).resolution
                             ELSE Resolve(m, snapshot)

\* Write a snapshot of each message in the domain of snapshots.
Ingest(snapshots) ==
    LET fresh == {m \in DOMAIN snapshots : ~Replayed(m, snapshots[m])} IN
    /\ revisions' = [m \in Messages |->
          IF m \in fresh /\ Resolve(m, snapshots[m]) = "created"
          THEN Append(revisions[m], snapshots[m]) ELSE revisions[m]]
    /\ observed' = observed \union
          {[source |-> snapshots[m].source, message |-> m, version |-> snapshots[m].version,
            resolution |-> Resolve(m, snapshots[m])] : m \in fresh}

\* The worker applies the first pending update of a message.
ApplyUpdate(m) ==
    /\ \E v \in pending[m] :
          /\ \A w \in pending[m] : v <= w
          /\ Ingest([n \in {m} |-> [version |-> v, source |-> "bot"]])
          /\ pending' = [pending EXCEPT ![m] = @ \ {v}]
    /\ UNCHANGED <<posted, lost, exported, ledger, lock, import>>

-----------------------------------------------------------------------------
(* Imports (TelegramDesktopImportService.run with apply).                  *)

Contents(f) == {m \in Messages : exported[f][m] >= 0}
Importable(f) == Contents(f) \ Unreadable
Snapshot(r, m) == [version |-> exported[import[r].file][m], source |-> "desktop"]

Goto(r, pc) == import' = [import EXCEPT ![r].pc = pc]
Unlock(r) == lock' = IF lock = r THEN NoRun ELSE lock

\* An import that does not get the lock ends without a row.
StartImport(r, f) ==
    /\ import[r].pc = "new" /\ exported[f] # NoFile /\ lock = NoRun
    /\ lock' = r
    /\ row' = [row EXCEPT ![r] = "running"]
    /\ import' = [import EXCEPT ![r] = [pc |-> "batching", file |-> f, todo |-> Importable(f),
                                        batch |-> {}, clean |-> Contents(f) \cap Unreadable = {}]]
    /\ UNCHANGED <<world, archive, links, covered>>

FirstOf(S) == {m \in S : Cardinality({x \in S : x <= m}) <= BatchSize}

\* The lock is asserted on one session, the batch is written on another.
BeginBatch(r) ==
    /\ import[r].pc = "batching" /\ import[r].todo # {} /\ lock = r
    /\ import' = [import EXCEPT ![r].pc = "writing", ![r].batch = FirstOf(import[r].todo),
                                ![r].todo = @ \ FirstOf(@)]
    /\ UNCHANGED <<world, archive, ledger, lock>>

\* Every message of the batch is linked to the run, replayed or not.
\* Mutant: only the observations the batch creates are linked.
FreshLinks(r) == {<<r, m>> : m \in {n \in import[r].batch : ~Replayed(n, Snapshot(r, n))}}
NewLinks(r) == {<<r, m>> : m \in import[r].batch}

WriteBatch(r) ==
    /\ import[r].pc = "writing"
    /\ Ingest([m \in import[r].batch |-> Snapshot(r, m)])
    /\ links' = links \union NewLinks(r)
    /\ import' = [import EXCEPT ![r].pc = "reporting",
          ![r].clean = @ /\ \A m \in import[r].batch : Resolution(m, Snapshot(r, m)) # "conflict"]
    /\ UNCHANGED <<world, row, covered, lock>>

ReportBatch(r) ==
    /\ import[r].pc = "reporting" /\ lock = r
    /\ import' = [import EXCEPT ![r].pc = "batching", ![r].batch = {}]
    /\ UNCHANGED <<world, archive, ledger, lock>>

\* A clean run records the ranges its operator declared complete (here, all messages).
PersistCoverages(r) ==
    /\ import[r].pc = "batching" /\ import[r].todo = {} /\ lock = r
    /\ covered' = IF import[r].clean THEN covered \union {r} ELSE covered
    /\ Goto(r, "closing")
    /\ UNCHANGED <<world, archive, links, row, lock>>

CloseRun(r) ==
    /\ import[r].pc = "closing"
    /\ row' = [row EXCEPT ![r] = IF import[r].clean THEN "completed" ELSE "partial"]
    /\ Unlock(r) /\ Goto(r, "gone")
    /\ UNCHANGED <<world, archive, links, covered>>

Active(r) == import[r].pc \notin {"new", "gone"}

\* A lost lock, a signal, a changed file, a database error that rolls the batch back.
\* Mutant: the report's own status is written.
InterruptWithReportStatus(r) ==
    /\ Active(r)
    /\ row' = [row EXCEPT ![r] = "fatal"]
    /\ Unlock(r) /\ Goto(r, "gone")
    /\ UNCHANGED <<world, archive, links, covered>>

Interrupt(r) ==
    /\ Active(r)
    /\ row' = [row EXCEPT ![r] = "interrupted"]
    /\ Unlock(r) /\ Goto(r, "gone")
    /\ UNCHANGED <<world, archive, links, covered>>

\* The process dies, or the database does not take its last words.
Crash(r) ==
    /\ Active(r)
    /\ Unlock(r) /\ Goto(r, "gone")
    /\ UNCHANGED <<world, archive, ledger>>

LoseLock ==
    /\ lock # NoRun
    /\ lock' = NoRun
    /\ UNCHANGED <<world, archive, ledger, import>>

-----------------------------------------------------------------------------
ImportStep(r) ==
    \/ \E f \in Files : StartImport(r, f)
    \/ BeginBatch(r) \/ WriteBatch(r) \/ ReportBatch(r) \/ PersistCoverages(r) \/ CloseRun(r)
    \/ Interrupt(r) \/ Crash(r)

Next ==
    \/ \E m \in Messages : Post(m) \/ ApplyUpdate(m) \/ (\E v \in Versions : LoseUpdate(m, v))
    \/ \E f \in Files : Export(f)
    \/ \E r \in Runs : ImportStep(r)
    \/ LoseLock

Spec == Init /\ [][Next]_vars
=============================================================================
