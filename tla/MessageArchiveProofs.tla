------------------------ MODULE MessageArchiveProofs ------------------------
(***************************************************************************)
(* CompletedRunsAreComplete and ArchiveCatchesUp for any messages, edits,  *)
(* edit times, files, runs and batch size; WalksAreSound for any messages, *)
(* listings and page sizes.                                                *)
(***************************************************************************)
EXTENDS MessageArchiveProps, MessageReading, Sums, TLAPS

\* An import works on a file that was taken, and on messages of it.
ImportsHaveFiles ==
    \A r \in Runs : import[r].pc # "new" =>
        /\ import[r].file \in Files /\ exported[import[r].file] # NoFile
        /\ import[r].todo \subseteq Importable(import[r].file)
        /\ import[r].batch \subseteq Importable(import[r].file)
Sound == TypeOK /\ ImportsHaveFiles

-----------------------------------------------------------------------------
(* The write decision.                                                     *)

\* What a write leaves: the archive only grows, and each snapshot is observed.
LEMMA IngestObserves ==
  ASSUME TypeOK, NEW S \in SUBSET Messages, NEW s \in [S -> Revision], Ingest(s)
  PROVE  /\ revisions' \in [Messages -> Seq(Revision)] /\ observed' \subseteq Observation
         /\ observed \subseteq observed'
         /\ \A m \in S : \E o \in observed' :
               /\ o.source = s[m].source /\ o.message = m /\ o.version = s[m].version
               /\ o.resolution = Resolution(m, s[m])
<1> DEFINE fresh == {m \in S : ~Replayed(m, s[m])}
           news == {[source |-> s[m].source, message |-> m, version |-> s[m].version,
                     resolution |-> Resolve(m, s[m])] : m \in fresh}
<1>1. /\ revisions' = [m \in Messages |-> IF m \in fresh /\ Resolve(m, s[m]) = "created"
                                          THEN Append(revisions[m], s[m]) ELSE revisions[m]]
      /\ observed' = observed \union news
  BY DEF Ingest
<1>2. revisions' \in [Messages -> Seq(Revision)]
  BY <1>1 DEF TypeOK
<1>3. news \subseteq Observation
  BY DEF Observation, Revision, Resolve, Resolutions, Sources
<1>4. ASSUME NEW m \in S PROVE \E o \in observed' :
               /\ o.source = s[m].source /\ o.message = m /\ o.version = s[m].version
               /\ o.resolution = Resolution(m, s[m])
  <2>1. CASE Replayed(m, s[m])
    <3> DEFINE o == CHOOSE x \in Earlier(m, s[m]) : TRUE
    <3>1. o \in Earlier(m, s[m])
      BY <2>1 DEF Replayed
    <3>2. Resolution(m, s[m]) = o.resolution
      BY <2>1 DEF Resolution
    <3> HIDE DEF o
    <3> QED BY <1>1, <3>1, <3>2 DEF Earlier
  <2>2. CASE ~Replayed(m, s[m])
    <3>1. [source |-> s[m].source, message |-> m, version |-> s[m].version,
           resolution |-> Resolve(m, s[m])] \in observed'
      BY <1>1, <2>2
    <3> QED BY <2>2, <3>1 DEF Resolution
  <2> QED BY <2>1, <2>2
<1> QED BY <1>1, <1>2, <1>3, <1>4 DEF TypeOK

\* How the revisions of one message change.
LEMMA IngestAppends ==
  ASSUME TypeOK, NEW S \in SUBSET Messages, NEW s \in [S -> Revision], Ingest(s), NEW m \in Messages
  PROVE  \/ revisions'[m] = revisions[m] /\ (m \in S => Replayed(m, s[m]) \/ Resolve(m, s[m]) # "created")
         \/ /\ m \in S /\ ~Replayed(m, s[m]) /\ Resolve(m, s[m]) = "created"
            /\ revisions'[m] = Append(revisions[m], s[m])
BY DEF Ingest, TypeOK

\* The observations that are added are those of the snapshots.
LEMMA IngestAdds ==
  ASSUME TypeOK, NEW S \in SUBSET Messages, NEW s \in [S -> Revision], Ingest(s), NEW o \in observed'
  PROVE  o \in observed \/ \E m \in S : o.source = s[m].source /\ o.message = m /\ o.version = s[m].version
BY DEF Ingest

-----------------------------------------------------------------------------
(* Shape.                                                                  *)

LEMMA ArchiveStartsSound == Init => Sound
BY MessageAssumption, TimeAssumption, RunAssumption
   DEF Init, Sound, TypeOK, ImportsHaveFiles, Import, PCs, Versions

LEMMA UpdateIsASnapshot ==
  ASSUME TypeOK, NEW m \in Messages, NEW v \in pending[m]
  PROVE  [n \in {m} |-> [version |-> v, source |-> "bot"]] \in [{m} -> Revision]
BY DEF TypeOK, Revision, Sources

LEMMA BatchIsOfSnapshots ==
  ASSUME Sound, NEW r \in Runs, import[r].pc = "writing"
  PROVE  /\ import[r].batch \in SUBSET Messages
         /\ [m \in import[r].batch |-> Snapshot(r, m)] \in [import[r].batch -> Revision]
<1>1. import[r].file \in Files /\ exported[import[r].file] # NoFile
      /\ import[r].batch \subseteq Importable(import[r].file)
  BY DEF Sound, ImportsHaveFiles
<1>2. exported[import[r].file] \in [Messages -> -1 .. MaxVersion]
  BY <1>1 DEF Sound, TypeOK
<1>3. ASSUME NEW m \in import[r].batch
      PROVE m \in Messages /\ exported[import[r].file][m] \in 0 .. MaxVersion
  <2>1. m \in Messages /\ exported[import[r].file][m] >= 0
    BY <1>1 DEF Importable, Contents
  <2> QED BY <1>2, <2>1, MessageAssumption
<1> QED BY <1>3 DEF Snapshot, Revision, Versions, Sources

\* A file that was taken stays as it is, and an import keeps to its file.
Narrows(r) ==
    \/ import'[r] = import[r]
    \/ /\ import[r].pc # "new" /\ import'[r].file = import[r].file
       /\ import'[r].todo \subseteq import[r].todo
       /\ import'[r].batch \subseteq import[r].todo \union import[r].batch
FilesStay == \A f \in Files : exported[f] # NoFile => exported'[f] = exported[f]

LEMMA FilesKept ==
  ASSUME ImportsHaveFiles, FilesStay, \A r \in Runs : Narrows(r)
  PROVE  ImportsHaveFiles'
<1> SUFFICES ASSUME NEW r \in Runs, import'[r].pc # "new"
             PROVE  /\ import'[r].file \in Files /\ exported'[import'[r].file] # NoFile
                    /\ import'[r].todo \subseteq Importable(import[r].file)'
                    /\ import'[r].batch \subseteq Importable(import[r].file)'
  BY DEF ImportsHaveFiles
<1>1. import[r].pc # "new" /\ import'[r].file = import[r].file
      /\ import'[r].todo \subseteq import[r].todo
      /\ import'[r].batch \subseteq import[r].todo \union import[r].batch
  BY DEF Narrows
<1>2. /\ import[r].file \in Files /\ exported[import[r].file] # NoFile
      /\ import[r].todo \subseteq Importable(import[r].file)
      /\ import[r].batch \subseteq Importable(import[r].file)
  BY <1>1 DEF ImportsHaveFiles
<1>3. exported'[import[r].file] = exported[import[r].file]
  BY <1>2 DEF FilesStay
<1>4. Importable(import[r].file)' = Importable(import[r].file)
  BY <1>1, <1>3 DEF Importable, Contents
<1> QED BY <1>1, <1>2, <1>3, <1>4

LEMMA SoundStep == Sound /\ [Next]_vars => Sound'
<1> SUFFICES ASSUME Sound, [Next]_vars PROVE Sound'
  OBVIOUS
<1> USE MessageAssumption, TimeAssumption, RunAssumption
<1>1. CASE UNCHANGED vars
  <2>1. TypeOK'
    BY <1>1 DEF vars, world, archive, ledger, Sound, TypeOK
  <2> QED BY <1>1, <2>1, FilesKept DEF vars, world, Sound, FilesStay, Narrows
<1>2. ASSUME NEW m \in Messages, Post(m) PROVE Sound'
  <2>1. posted[m] + 1 \in Versions
    BY <1>2 DEF Post, Sound, TypeOK, Versions
  <2>2. /\ posted' \in [Messages -> -1 .. MaxVersion]
        /\ pending' \in [Messages -> SUBSET Versions]
    <3>1. posted[m] + 1 \in -1 .. MaxVersion
      BY <2>1 DEF Versions
    <3> QED BY <1>2, <2>1, <3>1 DEF Post, Sound, TypeOK
  <2>3. TypeOK'
    BY <1>2, <2>2 DEF Post, archive, ledger, Sound, TypeOK
  <2> QED BY <1>2, <2>3, FilesKept DEF Post, Sound, FilesStay, Narrows
<1>3. ASSUME NEW m \in Messages, ApplyUpdate(m) PROVE Sound'
  <2>1. PICK v \in pending[m] : /\ Ingest([n \in {m} |-> [version |-> v, source |-> "bot"]])
                               /\ pending' = [pending EXCEPT ![m] = @ \ {v}]
    BY <1>3 DEF ApplyUpdate
  <2>2. revisions' \in [Messages -> Seq(Revision)] /\ observed' \subseteq Observation
    <3>1. [n \in {m} |-> [version |-> v, source |-> "bot"]] \in [{m} -> Revision] /\ {m} \in SUBSET Messages
      BY UpdateIsASnapshot DEF Sound
    <3> QED BY <2>1, <3>1, IngestObserves DEF Sound
  <2>3. TypeOK'
    BY <1>3, <2>1, <2>2 DEF ApplyUpdate, ledger, Sound, TypeOK
  <2> QED BY <1>3, <2>3, FilesKept DEF ApplyUpdate, Sound, FilesStay, Narrows
<1>4. ASSUME NEW m \in Messages, NEW v \in Versions, LoseUpdate(m, v) PROVE Sound'
  <2>1. TypeOK'
    BY <1>4 DEF LoseUpdate, archive, ledger, Sound, TypeOK
  <2> QED BY <1>4, <2>1, FilesKept DEF LoseUpdate, Sound, FilesStay, Narrows
<1>5. ASSUME NEW f \in Files, Export(f) PROVE Sound'
  <2>1. FilesStay
    BY <1>5 DEF Export, Sound, TypeOK, FilesStay
  <2>2. TypeOK'
    BY <1>5 DEF Export, archive, ledger, Sound, TypeOK
  <2> QED BY <1>5, <2>1, <2>2, FilesKept DEF Export, Sound, Narrows
<1>6. ASSUME NEW r \in Runs, NEW f \in Files, StartImport(r, f) PROVE Sound'
  <2>1. /\ Importable(f) \subseteq Messages
        /\ import' = [import EXCEPT ![r] = [pc |-> "batching", file |-> f, todo |-> Importable(f),
                                           batch |-> {}, clean |-> Contents(f) \cap Unreadable = {}]]
    BY <1>6 DEF StartImport, Importable, Contents
  <2>2. import' \in [Runs -> Import]
    BY <2>1 DEF Sound, TypeOK, Import, PCs
  <2>3. TypeOK'
    BY <1>6, <2>2 DEF StartImport, world, archive, Sound, TypeOK
  <2>4. ImportsHaveFiles'
    <3>1. exported' = exported /\ exported[f] # NoFile
      BY <1>6 DEF StartImport, world
    <3>2. ASSUME NEW q \in Runs, q # r PROVE import'[q] = import[q]
      BY <2>1, <3>2 DEF Sound, TypeOK
    <3>3. /\ import'[r].file = f /\ import'[r].todo = Importable(f) /\ import'[r].batch = {}
      BY <2>1 DEF Sound, TypeOK
    <3>4. \A g : Importable(g)' = Importable(g)
      BY <3>1 DEF Importable, Contents
    <3> QED BY <3>1, <3>2, <3>3, <3>4 DEF Sound, ImportsHaveFiles
  <2> QED BY <2>3, <2>4 DEF Sound
<1>7. ASSUME NEW r \in Runs, BeginBatch(r) PROVE Sound'
  <2>1. FirstOf(import[r].todo) \subseteq import[r].todo
    BY DEF FirstOf
  <2>2. import[r] \in Import
    BY DEF Sound, TypeOK
  <2>3. /\ import' = [import EXCEPT ![r] = import'[r]] /\ import'[r] \in Import
        /\ import'[r].file = import[r].file
        /\ import'[r].todo = import[r].todo \ FirstOf(import[r].todo)
        /\ import'[r].batch = FirstOf(import[r].todo)
    BY <1>7, <2>1, <2>2 DEF BeginBatch, Import, PCs, Sound, TypeOK
  <2>4. import' \in [Runs -> Import]
    BY <2>3 DEF Sound, TypeOK
  <2>5. TypeOK'
    BY <1>7, <2>4 DEF BeginBatch, world, archive, ledger, Sound, TypeOK
  <2>6. ImportsHaveFiles'
    BY <1>7, <2>1, <2>3, FilesKept DEF BeginBatch, world, Sound, TypeOK, FilesStay, Narrows
  <2> QED BY <2>5, <2>6 DEF Sound
<1>8. ASSUME NEW r \in Runs, WriteBatch(r) PROVE Sound'
  <2>1. revisions' \in [Messages -> Seq(Revision)] /\ observed' \subseteq Observation
    BY <1>8, IngestObserves, BatchIsOfSnapshots DEF Sound, WriteBatch
  <2>2. NewLinks(r) \subseteq Runs \X Messages
    BY <1>8, BatchIsOfSnapshots DEF NewLinks, WriteBatch
  <2>3. import[r] \in Import
    BY DEF Sound, TypeOK
  <2>4. /\ import' = [import EXCEPT ![r] = import'[r]] /\ import'[r] \in Import
        /\ import'[r].file = import[r].file
        /\ import'[r].todo = import[r].todo /\ import'[r].batch = import[r].batch
    BY <1>8, <2>3 DEF WriteBatch, Import, PCs, Sound, TypeOK
  <2>5. import' \in [Runs -> Import]
    BY <2>4 DEF Sound, TypeOK
  <2>6. TypeOK'
    BY <1>8, <2>1, <2>2, <2>5 DEF WriteBatch, world, Sound, TypeOK
  <2>7. ImportsHaveFiles'
    BY <1>8, <2>4, FilesKept DEF WriteBatch, world, Sound, TypeOK, FilesStay, Narrows
  <2> QED BY <2>6, <2>7 DEF Sound
<1>9. ASSUME NEW r \in Runs, ReportBatch(r) \/ PersistCoverages(r) \/ CloseRun(r) \/ Interrupt(r) \/ Crash(r)
      PROVE Sound'
  <2>1. import[r] \in Import /\ import[r].pc # "new"
    BY <1>9 DEF Sound, TypeOK, ReportBatch, PersistCoverages, CloseRun, Interrupt, Crash, Active
  <2> DEFINE Moved == /\ import' = [import EXCEPT ![r] = import'[r]] /\ import'[r] \in Import
                      /\ import'[r].file = import[r].file /\ import'[r].todo = import[r].todo
                      /\ import'[r].batch \in {{}, import[r].batch}
  <2>2. Moved
    <3>1. CASE ReportBatch(r)
      BY <2>1, <3>1 DEF ReportBatch, Import, PCs, Sound, TypeOK
    <3>2. ASSUME NEW pc \in PCs, Goto(r, pc) PROVE Moved
      BY <2>1, <3>2 DEF Goto, Import, Sound, TypeOK
    <3> QED BY <1>9, <3>1, <3>2 DEF PersistCoverages, CloseRun, Interrupt, Crash, PCs
  <2>3. import' \in [Runs -> Import]
    BY <2>2 DEF Sound, TypeOK
  <2>4. UNCHANGED <<world, archive, links>>
    BY <1>9 DEF ReportBatch, PersistCoverages, CloseRun, Interrupt, Crash, ledger
  <2>5. /\ row' \in [Runs -> {"none", "running", "completed", "partial", "interrupted"}]
        /\ covered' \subseteq Runs /\ lock' \in Runs \union {NoRun}
    BY <1>9 DEF ReportBatch, PersistCoverages, CloseRun, Interrupt, Crash, Unlock, ledger, Sound, TypeOK
  <2>6. TypeOK'
    BY <2>3, <2>4, <2>5 DEF world, archive, Sound, TypeOK
  <2>7. ImportsHaveFiles'
    BY <2>1, <2>2, <2>4, FilesKept DEF world, Sound, TypeOK, FilesStay, Narrows
  <2> QED BY <2>6, <2>7 DEF Sound
<1>10. CASE LoseLock
  <2>1. TypeOK'
    BY <1>10 DEF LoseLock, world, archive, ledger, Sound, TypeOK
  <2> QED BY <1>10, <2>1, FilesKept DEF LoseLock, world, Sound, FilesStay, Narrows
<1> QED BY <1>1, <1>2, <1>3, <1>4, <1>5, <1>6, <1>7, <1>8, <1>9, <1>10 DEF Next, ImportStep

\* Type correctness of the archive.
THEOREM ArchiveTypeOK == Spec => []TypeOK
BY ArchiveStartsSound, SoundStep, PTL DEF Spec, Sound

-----------------------------------------------------------------------------
(* Complete runs.                                                          *)

\* A message of a run's file that is linked to the run; by an observation without conflict.
Agreed(r, m) == \E o \in Earlier(m, Snapshot(r, m)) : o.resolution # "conflict"
Linked(r, m) == <<r, m>> \in links

\* What a run has done so far: each message it can read is still to do, in the batch at hand or
\* linked, and as long as the run is clean, without conflict.
Progress(r) ==
    /\ import[r].pc # "new" /\ import[r].clean => Contents(import[r].file) \cap Unreadable = {}
    /\ import[r].pc \in {"batching", "writing", "reporting", "closing"} =>
          \A m \in Importable(import[r].file) :
              \/ m \in import[r].todo
              \/ import[r].pc = "writing" /\ m \in import[r].batch
              \/ Linked(r, m) /\ (import[r].clean => Agreed(r, m))
    /\ import[r].pc = "closing" => import[r].todo = {}
    /\ import[r].pc = "new" => r \notin covered /\ row[r] # "completed"
Complete(r) ==
    r \in covered \/ row[r] = "completed" =>
        \A m \in Contents(import[r].file) : Linked(r, m) /\ Agreed(r, m)
RunsOK == \A r \in Runs : Progress(r) /\ Complete(r)

Grows == observed \subseteq observed' /\ links \subseteq links' /\ FilesStay

LEMMA ArchiveGrows == ASSUME Sound, [Next]_vars PROVE Grows
<1>1. CASE UNCHANGED <<observed, links, exported>>
  BY <1>1 DEF Grows, FilesStay
<1>2. ASSUME NEW m \in Messages, ApplyUpdate(m) PROVE Grows
  <2>1. PICK v \in pending[m] : Ingest([n \in {m} |-> [version |-> v, source |-> "bot"]])
    BY <1>2 DEF ApplyUpdate
  <2>2. [n \in {m} |-> [version |-> v, source |-> "bot"]] \in [{m} -> Revision] /\ {m} \in SUBSET Messages
    BY UpdateIsASnapshot DEF Sound
  <2>3. observed \subseteq observed'
    BY <2>1, <2>2, IngestObserves DEF Sound
  <2> QED BY <1>2, <2>3 DEF ApplyUpdate, ledger, Grows, FilesStay
<1>3. ASSUME NEW f \in Files, Export(f) PROVE Grows
  BY <1>3 DEF Export, archive, ledger, Grows, FilesStay, Sound, TypeOK
<1>4. ASSUME NEW r \in Runs, WriteBatch(r) PROVE Grows
  <2>1. observed \subseteq observed'
    BY <1>4, BatchIsOfSnapshots, IngestObserves DEF WriteBatch, Sound
  <2> QED BY <1>4, <2>1 DEF WriteBatch, world, Grows, FilesStay
<1>5. ASSUME NEW r \in Runs, ImportStep(r), ~WriteBatch(r) PROVE UNCHANGED <<observed, links, exported>>
  BY <1>5 DEF ImportStep, StartImport, BeginBatch, ReportBatch, PersistCoverages, CloseRun, Interrupt, Crash,
     world, archive, ledger
<1>6. ASSUME NEW m \in Messages, Post(m) \/ (\E v \in Versions : LoseUpdate(m, v))
      PROVE UNCHANGED <<observed, links, exported>>
  BY <1>6 DEF Post, LoseUpdate, archive, ledger
<1>7. CASE LoseLock
  BY <1>1, <1>7 DEF LoseLock, world, archive, ledger
<1>8. CASE UNCHANGED vars
  BY <1>1, <1>8 DEF vars, world, archive, ledger
<1> QED BY <1>1, <1>2, <1>3, <1>4, <1>5, <1>6, <1>7, <1>8 DEF Next

\* What was linked and agreed stays so, as long as the run keeps its file.
LEMMA RecordsStay ==
  ASSUME Sound, Grows, NEW r \in Runs, import[r].pc # "new", import'[r].file = import[r].file
  PROVE  /\ Contents(import[r].file)' = Contents(import[r].file)
         /\ Importable(import[r].file)' = Importable(import[r].file)
         /\ \A m \in Messages : (Linked(r, m) => Linked(r, m)') /\ (Agreed(r, m) => Agreed(r, m)')
<1>1. exported'[import[r].file] = exported[import[r].file]
  BY DEF Sound, ImportsHaveFiles, Grows, FilesStay
<1>2. \A m : Snapshot(r, m)' = Snapshot(r, m)
  BY <1>1 DEF Snapshot
<1>3. ASSUME NEW m \in Messages, Agreed(r, m) PROVE Agreed(r, m)'
  <2>1. PICK o \in Earlier(m, Snapshot(r, m)) : o.resolution # "conflict"
    BY <1>3 DEF Agreed
  <2>2. o \in Earlier(m, Snapshot(r, m))'
    BY <1>2, <2>1 DEF Earlier, Grows
  <2> QED BY <2>1, <2>2 DEF Agreed
<1> QED BY <1>1, <1>3 DEF Contents, Importable, Linked, Grows

LEMMA RunsStart == Init => RunsOK
BY DEF Init, RunsOK, Progress, Complete

\* A run that takes no step keeps its progress.
LEMMA OthersStay ==
  ASSUME Sound, Grows, NEW r \in Runs, Progress(r), Complete(r),
         import'[r] = import[r], row'[r] = row[r], r \in covered' <=> r \in covered
  PROVE  Progress(r)' /\ Complete(r)'
<1>1. CASE import[r].pc = "new"
  BY <1>1 DEF Progress, Complete
<1>2. CASE import[r].pc # "new"
  <2>1. /\ Contents(import[r].file)' = Contents(import[r].file)
        /\ Importable(import[r].file)' = Importable(import[r].file)
        /\ \A m \in Messages : (Linked(r, m) => Linked(r, m)') /\ (Agreed(r, m) => Agreed(r, m)')
    BY <1>2, RecordsStay
  <2>2. Contents(import[r].file) \subseteq Messages /\ Importable(import[r].file) \subseteq Messages
    BY DEF Contents, Importable
  <2>3. Progress(r)'
    BY <1>2, <2>1, <2>2 DEF Progress
  <2>4. Complete(r)'
    BY <1>2, <2>1, <2>2 DEF Complete
  <2> QED BY <2>3, <2>4
<1> QED BY <1>1, <1>2

\* A clean run that has nothing left to do has linked its whole file.
LEMMA CleanAndDone ==
  ASSUME NEW r \in Runs, Progress(r), import[r].pc \in {"batching", "closing"}, import[r].todo = {}, import[r].clean
  PROVE  \A m \in Contents(import[r].file) : Linked(r, m) /\ Agreed(r, m)
BY DEF Progress, Importable

LEMMA RunStep ==
  ASSUME Sound, Grows, NEW r \in Runs, Progress(r), Complete(r), ImportStep(r)
  PROVE  Progress(r)' /\ Complete(r)'
<1>1. import[r] \in Import /\ import \in [Runs -> Import]
      /\ row \in [Runs -> {"none", "running", "completed", "partial", "interrupted"}]
  BY DEF Sound, TypeOK
<1>2. ASSUME NEW f \in Files, StartImport(r, f) PROVE Progress(r)' /\ Complete(r)'
  <2>1. /\ import[r].pc = "new" /\ covered' = covered /\ row'[r] = "running"
        /\ import'[r] = [pc |-> "batching", file |-> f, todo |-> Importable(f),
                          batch |-> {}, clean |-> Contents(f) \cap Unreadable = {}]
    BY <1>1, <1>2 DEF StartImport
  <2>2. Contents(f)' = Contents(f) /\ Importable(f)' = Importable(f)
    BY <1>2 DEF StartImport, world, Contents, Importable
  <2>3. import'[r].pc = "batching" /\ import'[r].todo = Importable(f)
        /\ import'[r].file = f /\ import'[r].clean = (Contents(f) \cap Unreadable = {})
    BY <2>1
  <2>4. r \notin covered'
    BY <2>1 DEF Progress
  <2>5. \A m \in Importable(import[r].file)' : m \in import'[r].todo
    BY <2>2, <2>3
  <2>6. Progress(r)'
    BY <2>2, <2>3, <2>5 DEF Progress
  <2> QED BY <2>1, <2>4, <2>6 DEF Complete
<1>3. ASSUME import[r].pc # "new", import'[r].file = import[r].file
      PROVE  /\ Contents(import[r].file)' = Contents(import[r].file)
             /\ Importable(import[r].file)' = Importable(import[r].file)
             /\ Contents(import[r].file) \subseteq Messages /\ Importable(import[r].file) \subseteq Messages
             /\ \A m \in Messages : (Linked(r, m) => Linked(r, m)') /\ (Agreed(r, m) => Agreed(r, m)')
  BY <1>3, RecordsStay DEF Contents, Importable
<1>4. CASE BeginBatch(r)
  <2>1. /\ import[r].pc = "batching" /\ import'[r].pc = "writing" /\ import'[r].file = import[r].file
        /\ import'[r].clean = import[r].clean /\ import'[r].batch = FirstOf(import[r].todo)
        /\ import'[r].todo = import[r].todo \ FirstOf(import[r].todo)
        /\ row' = row /\ covered' = covered
    BY <1>1, <1>4 DEF BeginBatch, Import, ledger
  <2>2. Progress(r)'
    BY <1>3, <2>1 DEF Progress
  <2> QED BY <1>3, <2>1, <2>2 DEF Complete
<1>5. CASE WriteBatch(r)
  <2>1. /\ import[r].pc = "writing" /\ import'[r].pc = "reporting" /\ import'[r].file = import[r].file
        /\ import'[r].todo = import[r].todo
        /\ import'[r].clean = (import[r].clean /\ \A m \in import[r].batch : Resolution(m, Snapshot(r, m)) # "conflict")
        /\ row' = row /\ covered' = covered
    BY <1>1, <1>5 DEF WriteBatch, Import
  <2>2. ASSUME NEW m \in import[r].batch
        PROVE Linked(r, m)' /\ (import'[r].clean => Agreed(r, m)')
    <3>1. Linked(r, m)'
      BY <1>5 DEF WriteBatch, NewLinks, Linked
    <3>2. PICK o \in observed' :
            /\ o.source = Snapshot(r, m).source /\ o.message = m /\ o.version = Snapshot(r, m).version
            /\ o.resolution = Resolution(m, Snapshot(r, m))
      <4> DEFINE s == [n \in import[r].batch |-> Snapshot(r, n)]
      <4>1. /\ import[r].batch \in SUBSET Messages /\ s \in [import[r].batch -> Revision]
            /\ Ingest(s) /\ s[m] = Snapshot(r, m)
        BY <1>5, BatchIsOfSnapshots DEF WriteBatch
      <4> HIDE DEF s
      <4>2. TypeOK
        BY DEF Sound
      <4>3. \A n \in import[r].batch : \E o \in observed' :
               /\ o.source = s[n].source /\ o.message = n /\ o.version = s[n].version
               /\ o.resolution = Resolution(n, s[n])
        BY <4>1, <4>2, IngestObserves
      <4> QED BY <4>1, <4>3
    <3>3. Snapshot(r, m)' = Snapshot(r, m)
      BY <1>5, <2>1 DEF WriteBatch, world, Snapshot
    <3>4. o \in Earlier(m, Snapshot(r, m))'
      BY <3>2, <3>3 DEF Earlier
    <3>5. import'[r].clean => o.resolution # "conflict"
      BY <2>1, <3>2
    <3> QED BY <3>1, <3>4, <3>5 DEF Agreed
  <2>3. Progress(r)'
    BY <1>3, <2>1, <2>2 DEF Progress
  <2> QED BY <1>3, <2>1, <2>3 DEF Complete
<1>6. CASE ReportBatch(r)
  <2>1. /\ import[r].pc = "reporting" /\ import'[r].pc = "batching" /\ import'[r].file = import[r].file
        /\ import'[r].clean = import[r].clean /\ import'[r].todo = import[r].todo
        /\ row' = row /\ covered' = covered
    BY <1>1, <1>6 DEF ReportBatch, Import, ledger
  <2>2. Progress(r)'
    BY <1>3, <2>1 DEF Progress
  <2> QED BY <1>3, <2>1, <2>2 DEF Complete
<1>7. CASE PersistCoverages(r)
  <2>1. /\ import[r].pc = "batching" /\ import'[r].pc = "closing" /\ import'[r].file = import[r].file
        /\ import'[r].clean = import[r].clean /\ import'[r].todo = import[r].todo /\ import[r].todo = {}
        /\ row' = row /\ (r \in covered' => r \in covered \/ import[r].clean)
    BY <1>1, <1>7 DEF PersistCoverages, Goto, Import
  <2>2. Progress(r)'
    BY <1>3, <2>1 DEF Progress
  <2>3. Complete(r)'
    BY <1>3, <2>1, CleanAndDone DEF Complete
  <2> QED BY <2>2, <2>3
<1>8. CASE CloseRun(r)
  <2>1. /\ import[r].pc = "closing" /\ import'[r].pc = "gone" /\ import'[r].file = import[r].file
        /\ import'[r].clean = import[r].clean /\ covered' = covered
        /\ (row'[r] = "completed" => import[r].clean)
    BY <1>1, <1>8 DEF CloseRun, Goto, Import
  <2>2. Progress(r)'
    BY <1>3, <2>1 DEF Progress
  <2>3. import[r].todo = {}
    BY <2>1 DEF Progress
  <2>4. Complete(r)'
    BY <1>3, <2>1, <2>3, CleanAndDone DEF Complete
  <2> QED BY <2>2, <2>4
<1>9. CASE Interrupt(r) \/ Crash(r)
  <2>1. /\ import[r].pc # "new" /\ import'[r].pc = "gone" /\ import'[r].file = import[r].file
        /\ import'[r].clean = import[r].clean /\ covered' = covered
        /\ (row'[r] = "completed" => row[r] = "completed")
    BY <1>1, <1>9 DEF Interrupt, Crash, Active, Goto, Import, ledger
  <2>2. Progress(r)'
    BY <1>3, <2>1 DEF Progress
  <2> QED BY <1>3, <2>1, <2>2 DEF Complete
<1> QED BY <1>2, <1>4, <1>5, <1>6, <1>7, <1>8, <1>9 DEF ImportStep

LEMMA RunsStep == Sound /\ RunsOK /\ [Next]_vars => RunsOK'
<1> SUFFICES ASSUME Sound, RunsOK, [Next]_vars, NEW r \in Runs PROVE Progress(r)' /\ Complete(r)'
  BY DEF RunsOK
<1>1. Grows /\ Progress(r) /\ Complete(r)
  BY ArchiveGrows DEF RunsOK
<1>2. CASE ImportStep(r)
  BY <1>1, <1>2, RunStep
<1>3. ASSUME NEW q \in Runs, q # r, ImportStep(q)
      PROVE import'[r] = import[r] /\ row'[r] = row[r] /\ (r \in covered' <=> r \in covered)
  BY <1>3 DEF ImportStep, StartImport, BeginBatch, WriteBatch, ReportBatch, PersistCoverages, CloseRun,
     Interrupt, Crash, Goto, ledger, Sound, TypeOK
<1>4. CASE UNCHANGED <<import, row, covered>>
  BY <1>1, <1>4, OthersStay
<1>5. UNCHANGED <<import, row, covered>> \/ \E q \in Runs : ImportStep(q)
  BY DEF Next, Post, ApplyUpdate, LoseUpdate, Export, LoseLock, vars, ledger
<1> QED BY <1>1, <1>2, <1>3, <1>4, <1>5, OthersStay

\* A run that declares a range complete, or completes, has linked every message of its file.
THEOREM CompletedMeansComplete == Spec => []CompletedRunsAreComplete
<1>1. RunsOK => CompletedRunsAreComplete
  BY DEF RunsOK, Complete, Linked, Agreed, CompletedRunsAreComplete
<1> QED BY ArchiveStartsSound, SoundStep, RunsStart, RunsStep, <1>1, PTL DEF Spec

-----------------------------------------------------------------------------
(* Catching up with Telegram.                                              *)

\* Everything known of a message is at most as new as the message is, and once the last update was
\* applied, the current revision is the version it announced.
CatchingUp(m) ==
    /\ \A v \in pending[m] \union lost[m] : v <= posted[m]
    /\ \A i \in 1 .. Len(revisions[m]) : revisions[m][i].version <= posted[m]
    /\ \A f \in Files : exported[f] # NoFile => exported[f][m] <= posted[m]
    /\ \A o \in observed : o.source = "bot" /\ o.message = m => o.version <= posted[m] /\ o.version \notin pending[m]
    /\ \/ posted[m] < 0 \/ posted[m] \in pending[m] \union lost[m]
       \/ pending[m] = {} /\ revisions[m] # <<>> /\ Current(m).version = posted[m]

LEMMA CatchingUpStarts == Init => \A m \in Messages : CatchingUp(m)
BY DEF Init, CatchingUp

\* Nothing an export shows displaces the version Telegram shows.
LEMMA ExportsAreNotNewer ==
  ASSUME TypeOK, NEW m \in Messages, NEW s \in Revision, s.source = "desktop", s.version <= posted[m],
         revisions[m] # <<>>, Current(m).version = posted[m]
  PROVE  Resolve(m, s) # "created"
<1>1. Current(m) \in Revision
  BY DEF TypeOK, Current
<1>2. posted[m] \in Versions /\ s.version \in Versions
  BY <1>1 DEF Revision
<1>3. EditTime[m][s.version] <= EditTime[m][posted[m]]
      /\ EditTime[m][s.version] \in Nat /\ EditTime[m][posted[m]] \in Nat
  <2>1. EditTime[m] \in [Versions -> Nat]
    BY TimeAssumption
  <2>2. \A v, w \in Versions : v < w => EditTime[m][v] <= EditTime[m][w]
    BY TimeAssumption
  <2>3. EditTime[m][s.version] \in Nat /\ EditTime[m][posted[m]] \in Nat
    BY <1>2, <2>1
  <2>4. s.version \in Nat /\ posted[m] \in Nat
    BY <1>2 DEF Versions
  <2>5. CASE s.version = posted[m]
    BY <2>3, <2>5
  <2>6. CASE s.version < posted[m]
    BY <1>2, <2>2, <2>3, <2>6
  <2> QED BY <2>4, <2>5, <2>6
<1>4. ~Newer(m, s)
  BY <1>3 DEF Newer, CurrentTime
<1> QED BY <1>4 DEF Resolve

LEMMA CatchingUpStep ==
  ASSUME Sound, NEW m \in Messages, CatchingUp(m), [Next]_vars
  PROVE  CatchingUp(m)'
<1> USE MessageAssumption
<1>1. /\ posted \in [Messages -> -1 .. MaxVersion]
      /\ pending \in [Messages -> SUBSET Versions] /\ lost \in [Messages -> SUBSET Versions]
      /\ revisions \in [Messages -> Seq(Revision)] /\ observed \subseteq Observation
      /\ exported \in [Files -> [Messages -> -1 .. MaxVersion] \union {NoFile}]
  BY DEF Sound, TypeOK
<1>2. CASE UNCHANGED <<world, archive>>
  BY <1>2 DEF world, archive, CatchingUp, Current
<1>3. ASSUME NEW n \in Messages, Post(n) PROVE CatchingUp(m)'
  <2>1. CASE n # m
    <3>1. posted'[m] = posted[m] /\ pending'[m] = pending[m] /\ UNCHANGED <<lost, exported, archive>>
      BY <1>1, <1>3, <2>1 DEF Post
    <3> QED BY <3>1 DEF CatchingUp, Current, archive
  <2>2. CASE n = m
    <3>1. posted'[m] = posted[m] + 1 /\ pending'[m] = pending[m] \union {posted[m] + 1}
          /\ UNCHANGED <<lost, exported, archive>>
      BY <1>1, <1>3, <2>2 DEF Post
    <3>2. posted[m] \in Int /\ \A v \in pending[m] \union lost[m] : v \in Int
      BY <1>1 DEF Versions
    <3>3. \A i \in 1 .. Len(revisions[m]) : revisions[m][i].version \in Int
      <4>1. \A i \in 1 .. Len(revisions[m]) : revisions[m][i] \in Revision
        BY <1>1
      <4> QED BY <4>1 DEF Revision, Versions
    <3>4. \A f \in Files : exported[f] # NoFile => exported[f][m] \in Int
      BY <1>1
    <3>5. \A o \in observed : o.version \in Int
      BY <1>1 DEF Observation, Versions
    <3> QED BY <3>1, <3>2, <3>3, <3>4, <3>5 DEF CatchingUp, archive
  <2> QED BY <2>1, <2>2
<1>4. ASSUME NEW n \in Messages, NEW v \in Versions, LoseUpdate(n, v) PROVE CatchingUp(m)'
  <2>1. /\ pending'[m] \subseteq pending[m] /\ lost[m] \subseteq lost'[m]
        /\ pending'[m] \union lost'[m] = pending[m] \union lost[m]
        /\ UNCHANGED <<posted, exported, archive>>
    BY <1>1, <1>4 DEF LoseUpdate
  <2>2. pending[m] = {} => pending'[m] = {}
    BY <2>1
  <2> QED BY <2>1, <2>2 DEF CatchingUp, Current, archive
<1>5. ASSUME NEW f \in Files, Export(f) PROVE CatchingUp(m)'
  <2>1. \A g \in Files : exported'[g] = exported[g] \/ exported'[g] = posted
    BY <1>1, <1>5 DEF Export
  <2>2. UNCHANGED <<posted, pending, lost, archive>>
    BY <1>5 DEF Export
  <2>3. posted[m] \in Int /\ posted[m] <= posted[m]
    BY <1>1
  <2>4. \A g \in Files : exported'[g] # NoFile => exported'[g][m] <= posted[m]
    BY <2>1, <2>3 DEF CatchingUp
  <2>5. revisions' = revisions /\ observed' = observed /\ Current(m)' = Current(m)
    BY <2>2 DEF archive, Current
  <2> QED BY <2>2, <2>4, <2>5 DEF CatchingUp
<1>6. ASSUME NEW n \in Messages, ApplyUpdate(n) PROVE CatchingUp(m)'
  <2>1. PICK v \in pending[n] :
          /\ \A w \in pending[n] : v <= w
          /\ Ingest([x \in {n} |-> [version |-> v, source |-> "bot"]])
          /\ pending' = [pending EXCEPT ![n] = @ \ {v}]
    BY <1>6 DEF ApplyUpdate
  <2> DEFINE s == [x \in {n} |-> [version |-> v, source |-> "bot"]]
  <2>2. s \in [{n} -> Revision] /\ {n} \in SUBSET Messages /\ s[n] = [version |-> v, source |-> "bot"]
        /\ s[n].version = v /\ s[n].source = "bot" /\ s[n] \in Revision
    BY UpdateIsASnapshot DEF Sound
  <2> HIDE DEF s
  <2>3. Ingest(s) /\ UNCHANGED <<posted, lost, exported>>
    BY <1>6, <2>1 DEF ApplyUpdate, s
  <2>4. \A o \in observed' : o \in observed \/ (o.source = "bot" /\ o.message = n /\ o.version = v)
    BY <2>2, <2>3, IngestAdds DEF Sound
  <2>7. \/ revisions'[m] = revisions[m] /\ (m \in {n} => Replayed(m, s[m]) \/ Resolve(m, s[m]) # "created")
        \/ /\ m \in {n} /\ ~Replayed(m, s[m]) /\ Resolve(m, s[m]) = "created"
           /\ revisions'[m] = Append(revisions[m], s[m])
    <3>1. TypeOK
      BY DEF Sound
    <3>2. ASSUME NEW S \in SUBSET Messages, s \in [S -> Revision]
          PROVE  \/ revisions'[m] = revisions[m] /\ (m \in S => Replayed(m, s[m]) \/ Resolve(m, s[m]) # "created")
                 \/ /\ m \in S /\ ~Replayed(m, s[m]) /\ Resolve(m, s[m]) = "created"
                    /\ revisions'[m] = Append(revisions[m], s[m])
      BY <2>3, <3>1, <3>2, IngestAppends, ZenonT(60)
    <3> QED BY <2>2, <3>2
  <2>5. CASE n # m
    <3>1. revisions'[m] = revisions[m] /\ pending'[m] = pending[m]
      BY <1>1, <2>1, <2>5, <2>7
    <3> QED BY <2>3, <2>4, <2>5, <3>1 DEF CatchingUp, Current
  <2>6. CASE n = m
    <3>1. pending'[m] = pending[m] \ {v} /\ v \in pending[m] /\ v <= posted[m] /\ v \in Versions
      BY <1>1, <2>1, <2>6 DEF CatchingUp
    <3>2. ~Replayed(m, s[n])
      BY <2>2, <2>6, <3>1 DEF CatchingUp, Replayed, Earlier
    <3>3. \/ revisions'[m] = revisions[m] /\ Resolve(m, s[n]) # "created"
          \/ revisions'[m] = Append(revisions[m], s[n])
      BY <2>6, <2>7, <3>2
    <3>4. revisions[m] \in Seq(Revision) /\ revisions'[m] \in Seq(Revision)
      <4>1. revisions[m] \in Seq(Revision) /\ s[n] \in Revision
        BY <1>1, <2>2
      <4>2. CASE revisions'[m] = revisions[m]
        BY <4>1, <4>2
      <4>3. CASE revisions'[m] = Append(revisions[m], s[n])
        BY <4>1, <4>3
      <4> QED BY <3>3, <4>1, <4>2, <4>3
    <3>5. \A i \in 1 .. Len(revisions'[m]) : revisions'[m][i].version <= posted[m]
      <4>1. \A i \in 1 .. Len(revisions[m]) : revisions[m][i].version <= posted[m]
        BY DEF CatchingUp
      <4>2. CASE revisions'[m] = revisions[m]
        BY <4>1, <4>2
      <4>3. CASE revisions'[m] = Append(revisions[m], s[n])
        BY <2>2, <3>1, <3>4, <4>1, <4>3
      <4> QED BY <3>3, <4>2, <4>3
    <3>6. \A o \in observed' : o.source = "bot" /\ o.message = m => o.version <= posted[m] /\ o.version \notin pending'[m]
      BY <2>4, <3>1 DEF CatchingUp
    <3>7. ASSUME posted[m] \notin pending'[m] \union lost[m]
          PROVE  pending'[m] = {} /\ revisions'[m] # <<>> /\ revisions'[m][Len(revisions'[m])].version = posted[m]
      <4>1. v = posted[m] /\ posted[m] \in Versions
        <5>1. posted[m] \in pending[m] \union lost[m] \/ pending[m] = {} \/ posted[m] < 0
          BY DEF CatchingUp
        <5>2. posted[m] \in Int /\ v \in Nat
          BY <1>1, <3>1 DEF Versions
        <5>3. posted[m] \in pending[m]
          BY <3>1, <3>7, <5>1, <5>2
        <5> QED BY <3>1, <3>7, <5>3
      <4>2. \A w \in pending[m] : w \in Versions /\ v <= w /\ w <= posted[m]
        BY <1>1, <2>1, <2>6 DEF CatchingUp
      <4>3. \A w \in pending[m] : w = v
        BY <4>1, <4>2 DEF Versions
      <4>4. pending'[m] = {}
        BY <3>1, <4>3
      <4>5. CASE revisions'[m] = Append(revisions[m], s[n])
        BY <2>2, <3>4, <4>1, <4>4, <4>5, SMTT(30)
      <4>6. CASE revisions'[m] = revisions[m] /\ Resolve(m, s[n]) # "created"
        <5>1. revisions[m] # <<>> /\ ~Dated(s[n])
          BY <2>2, <4>6 DEF Resolve
        <5>2. posted[m] = 0
          BY <2>2, <4>1, <5>1 DEF Dated, Versions
        <5>3. Len(revisions[m]) \in 1 .. Len(revisions[m])
          BY <3>4, <5>1
        <5>4. revisions[m][Len(revisions[m])].version <= 0 /\ revisions[m][Len(revisions[m])].version \in Nat
          <6>1. revisions[m][Len(revisions[m])] \in Revision
            BY <3>4, <5>3
          <6> QED BY <5>2, <5>3, <6>1 DEF CatchingUp, Revision, Versions
        <5> QED BY <4>4, <4>6, <5>1, <5>2, <5>4
      <4> QED BY <3>3, <4>5, <4>6
    <3>8. \A w \in pending'[m] \union lost[m] : w <= posted[m]
      BY <3>1 DEF CatchingUp
    <3> QED BY <2>3, <3>5, <3>6, <3>7, <3>8 DEF CatchingUp, Current
  <2> QED BY <2>5, <2>6
<1>7. ASSUME NEW r \in Runs, WriteBatch(r) PROVE CatchingUp(m)'
  <2> DEFINE s == [n \in import[r].batch |-> Snapshot(r, n)]
  <2>1. /\ import[r].batch \in SUBSET Messages /\ s \in [import[r].batch -> Revision] /\ Ingest(s)
        /\ \A n \in import[r].batch : s[n] = Snapshot(r, n) /\ s[n].source = "desktop" /\ s[n] \in Revision
                                       /\ s[n].version = exported[import[r].file][n]
    BY <1>7, BatchIsOfSnapshots DEF WriteBatch, Snapshot
  <2> HIDE DEF s
  <2>2. UNCHANGED world
    BY <1>7 DEF WriteBatch
  <2>3. import[r].file \in Files /\ exported[import[r].file] # NoFile
    BY <1>7 DEF WriteBatch, Sound, ImportsHaveFiles
  <2>4. m \in import[r].batch => s[m].version <= posted[m] /\ s[m].version \in Versions
    BY <2>1, <2>3 DEF CatchingUp, Revision
  <2>5. \A o \in observed' : o \in observed \/ o.source = "desktop"
    BY <2>1, IngestAdds DEF Sound
  <2>6. \/ revisions'[m] = revisions[m]
        \/ /\ m \in import[r].batch /\ Resolve(m, s[m]) = "created"
           /\ revisions'[m] = Append(revisions[m], s[m])
    <3>1. TypeOK
      BY DEF Sound
    <3>2. ASSUME NEW S \in SUBSET Messages, s \in [S -> Revision]
          PROVE  \/ revisions'[m] = revisions[m] /\ (m \in S => Replayed(m, s[m]) \/ Resolve(m, s[m]) # "created")
                 \/ /\ m \in S /\ ~Replayed(m, s[m]) /\ Resolve(m, s[m]) = "created"
                    /\ revisions'[m] = Append(revisions[m], s[m])
      <4>1. Ingest(s)
        BY <2>1
      <4> QED BY <3>1, <3>2, <4>1, IngestAppends, ZenonT(60)
    <3> QED BY <2>1, <3>2
  <2>7. CASE revisions'[m] = revisions[m]
    BY <2>2, <2>5, <2>7 DEF world, CatchingUp, Current
  <2>8. CASE m \in import[r].batch /\ Resolve(m, s[m]) = "created" /\ revisions'[m] = Append(revisions[m], s[m])
    <3>1. \A i \in 1 .. Len(revisions'[m]) : revisions'[m][i].version <= posted[m]
      BY <1>1, <2>1, <2>4, <2>8 DEF CatchingUp
    <3>2. ~(revisions[m] # <<>> /\ Current(m).version = posted[m])
      BY <2>1, <2>4, <2>8, ExportsAreNotNewer DEF Sound
    <3> QED BY <2>2, <2>5, <3>1, <3>2 DEF world, CatchingUp
  <2> QED BY <2>6, <2>7, <2>8
<1>8. ASSUME NEW r \in Runs, ImportStep(r), ~WriteBatch(r) PROVE UNCHANGED <<world, archive>>
  BY <1>8 DEF ImportStep, StartImport, BeginBatch, ReportBatch, PersistCoverages, CloseRun, Interrupt, Crash
<1>9. CASE LoseLock \/ UNCHANGED vars
  BY <1>2, <1>9 DEF LoseLock, vars
<1> QED BY <1>2, <1>3, <1>4, <1>5, <1>6, <1>7, <1>8, <1>9 DEF Next

\* When no update of a message is pending or was lost, the archive shows what Telegram shows, in
\* whichever order updates and exports were written.
THEOREM CatchesUp == Spec => []ArchiveCatchesUp
<1> DEFINE AllCatchUp == \A m \in Messages : CatchingUp(m)
<1>1. Sound /\ AllCatchUp /\ [Next]_vars => AllCatchUp'
  BY CatchingUpStep
<1>2. Sound /\ AllCatchUp => ArchiveCatchesUp
  <2> SUFFICES ASSUME Sound, NEW m \in Messages, CatchingUp(m), posted[m] >= 0, pending[m] = {}, lost[m] = {}
               PROVE  revisions[m] # <<>> /\ Current(m).version = posted[m]
    BY DEF ArchiveCatchesUp
  <2>1. posted[m] \in Int
    BY DEF Sound, TypeOK
  <2> QED BY <2>1 DEF CatchingUp
<1> QED BY ArchiveStartsSound, SoundStep, CatchingUpStarts, <1>1, <1>2, PTL DEF Spec

-----------------------------------------------------------------------------
(* The walk of a reader through a listing.                                 *)

WalkPhases == {"idle", "asking", "media", "neighbours", "done"}
PageEntries ==
  [id : Posts, revision : 0 .. MaxRevision, media : (0 .. MaxRevision) \union {NoMedia}, key : Places, updated : Nat]
MaybeCursors == Cursors \union {NoCursor}
WalkRecords ==
  [phase : WalkPhases, listing : Listings \union {NoListing}, at : Nat, steady : SUBSET Posts,
   start : MaybeCursors, cursor : MaybeCursors, shown : SUBSET PageEntries, again : SUBSET Posts,
   page : SUBSET PageEntries, next : MaybeCursors]

RowRecords == [revision : 0 .. MaxRevision, createdAt : Nat, updatedAt : Nat, tombstoned : BOOLEAN]
StoreOK ==
  /\ rows \in [Posts -> RowRecords] /\ tick \in Nat
  /\ ingest # NoIngest => /\ ingest \in [post : Posts, at : Nat]
                          /\ rows[ingest.post].revision < MaxRevision

Contextual(w) == Shape(w.listing) = "context"

\* A page is being read, or it is not; a walk that goes on is one of a listing.
PhasesOK(w) ==
  /\ w.phase # "idle" => w.listing \in Listings
  /\ w.phase = "idle" => w.shown = {}
  /\ w.phase \in {"idle", "asking", "done"} => w.page = {} /\ w.next = NoCursor

\* The cursor of a listing is its own, what was shown lies up to it and the page after it.
Continues(w, c) == c.shape = Shape(w.listing) /\ c.filter = CursorFilter(w.listing) /\ c.at = w.at
ListOK(w) == LET l == w.listing IN
  /\ w.start = NoCursor /\ w.phase # "neighbours"
  /\ w.phase \in {"asking", "media"} /\ w.cursor = NoCursor => w.shown = {}
  /\ w.phase \in {"asking", "media"} /\ w.cursor # NoCursor =>
       Continues(w, w.cursor) /\ \A e \in w.shown : ~Ahead(l, w.cursor.key, e.key)
  /\ w.cursor # NoCursor => \A e \in w.page : Ahead(l, w.cursor.key, e.key)
  /\ w.next # NoCursor =>
       /\ Continues(w, w.next) /\ \A e \in w.page : ~Ahead(l, w.next.key, e.key)
       /\ w.cursor # NoCursor => Ahead(l, w.cursor.key, w.next.key)
  /\ l.kind = "feed" => w.phase \in {"asking", "done"} /\ (w.phase = "asking" => w.cursor = NoCursor)

\* The cursor of a walk along neighbours is at a message, which the page shows.
PlaceOf(m) == [score |-> 0, published |-> PublishedAt[m], id |-> m]
ContextOK(w) == LET l == w.listing IN
  /\ w.start # NoCursor /\ w.start.key = PlaceOf(w.start.key.id) /\ w.next = NoCursor
  /\ w.phase = "done" <=> w.cursor = NoCursor
  /\ w.cursor # NoCursor =>
       /\ w.cursor.shape = "context" /\ w.cursor.key = PlaceOf(w.cursor.key.id)
       /\ w.cursor.key = w.start.key \/ Ahead(l, w.start.key, w.cursor.key)
       /\ \A e \in w.shown : Ahead(l, e.key, w.cursor.key)
       /\ \A e \in w.page : e.id = w.cursor.key.id /\ e.key = w.cursor.key
  /\ w.phase \in {"media", "neighbours"} => w.page # {}

\* Nothing came again, and what was read of a message that is as it was.
EntriesOK(w) ==
  /\ w.again = {}
  /\ \A e \in w.shown \union w.page :
       /\ e.media \in {NoMedia, e.revision}
       /\ e.id \in w.steady => e.revision = rows[e.id].revision
       /\ w.listing.kind \in AsOfKinds => e.updated <= w.at
  /\ \A e, f \in w.shown : e.id = f.id /\ e.key = f.key => e = f
  /\ \A e, f \in w.page : e.id = f.id => e = f

\* What the walk has passed was shown, and what the page passes is on it.
Steady(w) == w.steady \intersect RowsOf(w.listing, w.at)
In(S, m) == \E e \in S : e.id = m /\ e.revision = rows[m].revision
Passed(w, m) == LET l == w.listing IN
  /\ w.start # NoCursor => m = w.start.key.id \/ Ahead(l, w.start.key, KeyOf(l, m))
  /\ IF w.cursor = NoCursor THEN w.phase = "done"
     ELSE IF Contextual(w) THEN Ahead(l, KeyOf(l, m), w.cursor.key)
     ELSE ~Ahead(l, w.cursor.key, KeyOf(l, m))
PassedOK(w) ==
  /\ \A m \in Steady(w) : Passed(w, m) => In(w.shown, m)
  /\ w.phase = "media" /\ ~Contextual(w) =>
       \A m \in Steady(w) : w.next = NoCursor \/ ~Ahead(w.listing, w.next.key, KeyOf(w.listing, m)) =>
                              In(w.shown \union w.page, m)

WalkOK(w) ==
  /\ PhasesOK(w) /\ EntriesOK(w)
  /\ w.phase # "idle" => PassedOK(w) /\ IF Contextual(w) THEN ContextOK(w) ELSE ListOK(w)

ReadingInv == StoreOK /\ walk \in WalkRecords /\ WalkOK(walk)

-----------------------------------------------------------------------------
(* The order of a listing is a total order of places.                      *)

LEMMA AheadIrreflexive == ASSUME NEW l, NEW a \in Places PROVE ~Ahead(l, a, a)
<1>1. a.score \in Nat /\ a.published \in Nat /\ a.id \in Nat
  BY ReadingAssumption DEF Places
<1> QED BY <1>1 DEF Ahead, Precedes, NewerTail

LEMMA AheadTransitive ==
  ASSUME NEW l, NEW a \in Places, NEW b \in Places, NEW c \in Places, Ahead(l, a, b), Ahead(l, b, c)
  PROVE  Ahead(l, a, c)
<1>1. /\ a.score \in Nat /\ b.score \in Nat /\ c.score \in Nat
      /\ a.published \in Nat /\ b.published \in Nat /\ c.published \in Nat
      /\ a.id \in Nat /\ b.id \in Nat /\ c.id \in Nat
  BY ReadingAssumption DEF Places
<1> QED BY <1>1 DEF Ahead, Precedes, NewerTail

LEMMA AheadTotal ==
  ASSUME NEW l, NEW a \in Places, NEW b \in Places, a # b
  PROVE  Ahead(l, a, b) \/ Ahead(l, b, a)
<1>1. /\ a.score \in Nat /\ b.score \in Nat /\ a.published \in Nat /\ b.published \in Nat
      /\ a.id \in Nat /\ b.id \in Nat
  BY ReadingAssumption DEF Places
<1>2. a.score # b.score \/ a.published # b.published \/ a.id # b.id
  BY DEF Places
<1> QED BY <1>1, <1>2 DEF Ahead, Precedes, NewerTail

LEMMA AheadAsymmetric ==
  ASSUME NEW l, NEW a \in Places, NEW b \in Places, Ahead(l, a, b) PROVE ~Ahead(l, b, a)
BY AheadIrreflexive, AheadTransitive

LEMMA KeysArePlaces ==
  ASSUME StoreOK, NEW l, NEW m \in Posts PROVE KeyOf(l, m) \in Places /\ KeyOf(l, m).id = m
<1>1. rows[m].revision \in 0 .. MaxRevision
  BY DEF StoreOK, RowRecords
<1>2. Score[m][rows[m].revision] \in Nat
  BY <1>1, ReadingAssumption
<1>3. PublishedAt[m] \in Nat
  BY ReadingAssumption
<1> QED BY <1>2, <1>3 DEF KeyOf, Places

LEMMA KeysOfNeighbours ==
  ASSUME StoreOK, NEW l, l.kind # "relevance", NEW m \in Posts PROVE KeyOf(l, m) = PlaceOf(m)
BY DEF KeyOf, PlaceOf

\* A finite set has a first element in any strict order.
LEMMA FirstExists ==
  ASSUME NEW T, IsFiniteSet(T), T # {}, NEW R,
         \A x \in T : <<x, x>> \notin R,
         \A x, y, z \in T : <<x, y>> \in R /\ <<y, z>> \in R => <<x, z>> \in R
  PROVE  \E m \in T : \A x \in T : <<x, m>> \notin R
<1> DEFINE Before(m) == {x \in T : <<x, m>> \in R}
           C == {Before(m) : m \in T}
<1>0. \A x \in T : Before(x) \in C /\ Before(x) \in SUBSET T
  OBVIOUS
<1>1. C \in SUBSET SUBSET T /\ C # {}
  <2>1. \A V \in C : V \in SUBSET T
    OBVIOUS
  <2>2. C # {}
    BY <1>0
  <2> HIDE DEF C
  <2> QED BY <2>1, <2>2
<1>2. PICK U \in C : \A V \in C : V \subseteq U => V = U
  <2> HIDE DEF C
  <2> QED BY <1>1, SmallestSubset
<1>3. PICK m \in T : U = Before(m)
  OBVIOUS
<1>4. ASSUME NEW x \in T, <<x, m>> \in R PROVE FALSE
  <2>1. Before(x) \subseteq Before(m)
    BY <1>4
  <2>2. Before(x) = Before(m)
    <3>1. Before(x) \in C
      BY <1>0
    <3> HIDE DEF C, Before
    <3> QED BY <2>1, <3>1, <1>2, <1>3
  <2>3. x \in Before(m) /\ x \notin Before(x)
    BY <1>4
  <2> QED BY <2>2, <2>3
<1> QED BY <1>4

LEMMA SmallSets ==
  ASSUME NEW S \in SUBSET Posts
  PROVE  IsFiniteSet(S) /\ Cardinality(S) \in Nat /\ (Cardinality(S) = 0 <=> S = {})
BY ReadingAssumption, FS_Subset, FS_CardinalityType, FS_EmptySet

LEMMA NearestExists ==
  ASSUME StoreOK, NEW l, NEW T \in SUBSET Posts, T # {}
  PROVE  \E m \in T : \A x \in T : ~Ahead(l, KeyOf(l, x), KeyOf(l, m))
<1> DEFINE R == {p \in Posts \X Posts : Ahead(l, KeyOf(l, p[1]), KeyOf(l, p[2]))}
<1>1. \A x, y \in Posts : <<x, y>> \in R <=> Ahead(l, KeyOf(l, x), KeyOf(l, y))
  OBVIOUS
<1>2. \A x \in T : <<x, x>> \notin R
  BY <1>1, KeysArePlaces, AheadIrreflexive
<1>3. \A x, y, z \in T : <<x, y>> \in R /\ <<y, z>> \in R => <<x, z>> \in R
  <2> HIDE DEF R
  <2>1. \A x \in T : KeyOf(l, x) \in Places
    BY KeysArePlaces
  <2> SUFFICES ASSUME NEW x \in T, NEW y \in T, NEW z \in T, <<x, y>> \in R, <<y, z>> \in R
               PROVE  <<x, z>> \in R
    OBVIOUS
  <2>2. Ahead(l, KeyOf(l, x), KeyOf(l, y)) /\ Ahead(l, KeyOf(l, y), KeyOf(l, z))
    BY <1>1
  <2>3. Ahead(l, KeyOf(l, x), KeyOf(l, z))
    BY <2>1, <2>2, AheadTransitive
  <2> QED BY <2>3, <1>1
<1>4. PICK m \in T : \A x \in T : <<x, m>> \notin R
  <2> HIDE DEF R
  <2> QED BY <1>2, <1>3, SmallSets, FirstExists
<1> QED BY <1>1, <1>4

LEMMA FarthestExists ==
  ASSUME StoreOK, NEW l, NEW T \in SUBSET Posts, T # {}
  PROVE  \E m \in T : \A x \in T : ~Ahead(l, KeyOf(l, m), KeyOf(l, x))
<1> DEFINE R == {p \in Posts \X Posts : Ahead(l, KeyOf(l, p[2]), KeyOf(l, p[1]))}
<1>1. \A x, y \in Posts : <<x, y>> \in R <=> Ahead(l, KeyOf(l, y), KeyOf(l, x))
  OBVIOUS
<1>2. \A x \in T : <<x, x>> \notin R
  BY <1>1, KeysArePlaces, AheadIrreflexive
<1>3. \A x, y, z \in T : <<x, y>> \in R /\ <<y, z>> \in R => <<x, z>> \in R
  <2> HIDE DEF R
  <2>1. \A x \in T : KeyOf(l, x) \in Places
    BY KeysArePlaces
  <2> SUFFICES ASSUME NEW x \in T, NEW y \in T, NEW z \in T, <<x, y>> \in R, <<y, z>> \in R
               PROVE  <<x, z>> \in R
    OBVIOUS
  <2>2. Ahead(l, KeyOf(l, y), KeyOf(l, x)) /\ Ahead(l, KeyOf(l, z), KeyOf(l, y))
    BY <1>1
  <2>3. Ahead(l, KeyOf(l, z), KeyOf(l, x))
    BY <2>1, <2>2, AheadTransitive
  <2> QED BY <2>3, <1>1
<1>4. PICK m \in T : \A x \in T : <<x, m>> \notin R
  <2> HIDE DEF R
  <2> QED BY <1>2, <1>3, SmallSets, FirstExists
<1> QED BY <1>1, <1>4

LEMMA KeysDiffer ==
  ASSUME StoreOK, NEW l, NEW x \in Posts, NEW y \in Posts, x # y
  PROVE  Ahead(l, KeyOf(l, x), KeyOf(l, y)) \/ Ahead(l, KeyOf(l, y), KeyOf(l, x))
<1>1. KeyOf(l, x) # KeyOf(l, y)
  BY KeysArePlaces
<1> QED BY <1>1, KeysArePlaces, AheadTotal

LEMMA LastIsLast ==
  ASSUME StoreOK, NEW l, NEW T \in SUBSET Posts, T # {}
  PROVE  LastOf(l, T) \in T /\ \A x \in T : ~Ahead(l, KeyOf(l, LastOf(l, T)), KeyOf(l, x))
<1>1. PICK m \in T : \A x \in T : ~Ahead(l, KeyOf(l, m), KeyOf(l, x))
  BY FarthestExists
<1>2. \A x \in T \ {m} : Ahead(l, KeyOf(l, x), KeyOf(l, m))
  BY <1>1, KeysDiffer
<1>3. LastOf(l, T) \in T /\ \A x \in T \ {LastOf(l, T)} : Ahead(l, KeyOf(l, x), KeyOf(l, LastOf(l, T)))
  BY <1>2 DEF LastOf
<1>4. ASSUME NEW x \in T PROVE ~Ahead(l, KeyOf(l, LastOf(l, T)), KeyOf(l, x))
  <2> DEFINE z == LastOf(l, T)
  <2>1. z \in Posts /\ x \in Posts
    BY <1>3
  <2>2. KeyOf(l, z) \in Places /\ KeyOf(l, x) \in Places
    BY <2>1, KeysArePlaces
  <2>3. CASE x = z
    BY <2>2, <2>3, AheadIrreflexive
  <2>4. CASE x # z
    BY <2>2, <2>4, <1>3, AheadAsymmetric
  <2> QED BY <2>3, <2>4
<1> QED BY <1>3, <1>4

-----------------------------------------------------------------------------
(* What ORDER BY .. LIMIT takes.                                           *)

BeforeIn(l, S, m) == {x \in S : Ahead(l, KeyOf(l, x), KeyOf(l, m))}

LEMMA FirstAre ==
  ASSUME NEW l, NEW S, NEW n, NEW m
  PROVE  m \in FirstRows(l, S, n) <=> m \in S /\ Cardinality(BeforeIn(l, S, m)) < n
BY DEF FirstRows, BeforeIn

\* What comes before one that is taken is taken.
LEMMA FirstComeFirst ==
  ASSUME StoreOK, NEW l, NEW S \in SUBSET Posts, NEW n \in Nat,
         NEW m \in FirstRows(l, S, n), NEW x \in S, Ahead(l, KeyOf(l, x), KeyOf(l, m))
  PROVE  x \in FirstRows(l, S, n)
<1>1. m \in S /\ Cardinality(BeforeIn(l, S, m)) < n
  BY FirstAre
<1>2. \A y \in S : KeyOf(l, y) \in Places
  BY KeysArePlaces
<1>3. BeforeIn(l, S, x) \subseteq BeforeIn(l, S, m)
  <2> SUFFICES ASSUME NEW y \in S, Ahead(l, KeyOf(l, y), KeyOf(l, x))
               PROVE  Ahead(l, KeyOf(l, y), KeyOf(l, m))
    BY DEF BeforeIn
  <2> QED BY <1>1, <1>2, AheadTransitive
<1>4. BeforeIn(l, S, m) \in SUBSET Posts /\ BeforeIn(l, S, x) \in SUBSET Posts
  BY DEF BeforeIn
<1>5. Cardinality(BeforeIn(l, S, x)) <= Cardinality(BeforeIn(l, S, m))
  BY <1>3, <1>4, SmallSets, FS_Subset
<1>6. Cardinality(BeforeIn(l, S, x)) \in Nat /\ Cardinality(BeforeIn(l, S, m)) \in Nat
  BY <1>4, SmallSets
<1>7. Cardinality(BeforeIn(l, S, x)) < n
  BY <1>1, <1>5, <1>6
<1> QED BY <1>7, FirstAre

LEMMA AllAreTaken ==
  ASSUME StoreOK, NEW l, NEW S \in SUBSET Posts, NEW n \in Nat, Cardinality(S) <= n
  PROVE  FirstRows(l, S, n) = S
<1> SUFFICES ASSUME NEW m \in S PROVE Cardinality(BeforeIn(l, S, m)) < n
  BY FirstAre, FirstRows(l, S, n) \subseteq S DEF FirstRows
<1>1. BeforeIn(l, S, m) \in SUBSET (S \ {m})
  BY KeysArePlaces, AheadIrreflexive DEF BeforeIn
<1>2. IsFiniteSet(S \ {m}) /\ Cardinality(S \ {m}) = Cardinality(S) - 1
  BY SmallSets, FS_RemoveElement
<1>3. Cardinality(BeforeIn(l, S, m)) <= Cardinality(S \ {m})
  BY <1>1, <1>2, FS_Subset
<1>4. Cardinality(S) \in Nat /\ Cardinality(BeforeIn(l, S, m)) \in Nat
  BY <1>1, SmallSets
<1> QED BY <1>2, <1>3, <1>4

LEMMA SomeAreTaken ==
  ASSUME StoreOK, NEW l, NEW S \in SUBSET Posts, S # {}, NEW n \in Nat \ {0}
  PROVE  FirstRows(l, S, n) # {}
<1>1. PICK m \in S : \A x \in S : ~Ahead(l, KeyOf(l, x), KeyOf(l, m))
  BY NearestExists
<1>2. BeforeIn(l, S, m) = {}
  BY <1>1 DEF BeforeIn
<1>3. Cardinality(BeforeIn(l, S, m)) < n
  BY <1>2, FS_EmptySet
<1> QED BY <1>3, FirstAre

LEMMA NoneBeforeTheOne ==
  ASSUME StoreOK, NEW l, NEW S \in SUBSET Posts, NEW m \in FirstRows(l, S, 1), NEW x \in S
  PROVE  ~Ahead(l, KeyOf(l, x), KeyOf(l, m))
<1>1. m \in S /\ Cardinality(BeforeIn(l, S, m)) < 1
  BY FirstAre
<1>2. BeforeIn(l, S, m) \in SUBSET Posts
  BY DEF BeforeIn
<1>3. BeforeIn(l, S, m) = {}
  BY <1>1, <1>2, SmallSets
<1> QED BY <1>3 DEF BeforeIn

\* If some are left, as many are taken as may be.
LEMMA LimitIsReached ==
  ASSUME StoreOK, NEW l, NEW S \in SUBSET Posts, NEW n \in Nat \ {0}, FirstRows(l, S, n) # S
  PROVE  Cardinality(FirstRows(l, S, n)) = n
<1> DEFINE T == FirstRows(l, S, n)
<1>1. T \in SUBSET S /\ T \in SUBSET Posts /\ S \ T \in SUBSET Posts /\ S \ T # {}
  BY DEF FirstRows
<1>2. \A x, y \in S : x # y => Ahead(l, KeyOf(l, x), KeyOf(l, y)) \/ Ahead(l, KeyOf(l, y), KeyOf(l, x))
  BY KeysDiffer
<1>3. \A x \in S, m \in T : Ahead(l, KeyOf(l, x), KeyOf(l, m)) => x \in T
  BY FirstComeFirst
<1>a. \A m \in S : m \in T <=> Cardinality(BeforeIn(l, S, m)) < n
  BY FirstAre
<1> HIDE DEF T
<1>4. PICK m \in S \ T : \A x \in S \ T : ~Ahead(l, KeyOf(l, x), KeyOf(l, m))
  BY <1>1, NearestExists
<1>5. BeforeIn(l, S, m) = T
  <2>1. \A x \in S : Ahead(l, KeyOf(l, x), KeyOf(l, m)) => x \in T
    BY <1>4
  <2>2. \A x \in T : Ahead(l, KeyOf(l, x), KeyOf(l, m))
    BY <1>1, <1>2, <1>3, <1>4
  <2> QED BY <2>1, <2>2, <1>1 DEF BeforeIn
<1>6. Cardinality(T) \in Nat /\ ~(Cardinality(T) < n)
  BY <1>a, <1>4, <1>5, <1>1, SmallSets
<1>7. T # {}
  BY <1>6, FS_EmptySet
<1>8. PICK t \in T : \A x \in T : ~Ahead(l, KeyOf(l, t), KeyOf(l, x))
  BY <1>1, <1>7, FarthestExists
<1>9. BeforeIn(l, S, t) \in SUBSET Posts /\ T \subseteq BeforeIn(l, S, t) \cup {t}
  BY <1>1, <1>2, <1>8 DEF BeforeIn
<1>10. IsFiniteSet(BeforeIn(l, S, t)) /\ Cardinality(BeforeIn(l, S, t)) \in Nat
  BY <1>9, SmallSets
<1>11. Cardinality(BeforeIn(l, S, t)) < n
  BY <1>a, <1>1, <1>8
<1>12. /\ IsFiniteSet(BeforeIn(l, S, t) \cup {t})
       /\ Cardinality(BeforeIn(l, S, t) \cup {t}) <= Cardinality(BeforeIn(l, S, t)) + 1
       /\ Cardinality(BeforeIn(l, S, t) \cup {t}) \in Nat
  <2>1. /\ IsFiniteSet(BeforeIn(l, S, t) \cup {t})
        /\ Cardinality(BeforeIn(l, S, t) \cup {t}) =
             IF t \in BeforeIn(l, S, t) THEN Cardinality(BeforeIn(l, S, t)) ELSE Cardinality(BeforeIn(l, S, t)) + 1
    BY <1>10, FS_AddElement
  <2>2. Cardinality(BeforeIn(l, S, t) \cup {t}) \in Nat
    BY <2>1, FS_CardinalityType
  <2> QED BY <2>1, <2>2, <1>10
<1>13. Cardinality(T) <= Cardinality(BeforeIn(l, S, t) \cup {t})
  BY <1>9, <1>12, FS_Subset
<1>14. Cardinality(T) = n
  BY <1>6, <1>10, <1>11, <1>12, <1>13
<1> QED BY <1>14 DEF T

-----------------------------------------------------------------------------
(* Dates, rows and cursors.                                                *)

LEMMA TruncatedIsEarlier ==
  ASSUME NEW t \in Nat PROVE Truncated(t) \in Nat /\ Truncated(t) <= t
<1>1. TicksPerMs \in Nat \ {0}
  BY ReadingAssumption
<1> DEFINE q == t \div TicksPerMs
<1>2. q \in Nat /\ q * TicksPerMs <= t
  BY <1>1, t = TicksPerMs * q + (t % TicksPerMs), t % TicksPerMs \in 0 .. TicksPerMs - 1
<1>3. q * TicksPerMs \in Nat
  BY <1>1, <1>2
<1> QED BY <1>2, <1>3 DEF Truncated

LEMMA RowsArePosts ==
  ASSUME NEW l, NEW at
  PROVE  RowsOf(l, at) \in SUBSET Posts /\ \A m \in RowsOf(l, at) : l.kind \in AsOfKinds => rows[m].updatedAt <= at
BY DEF RowsOf, ChannelRows, LatestRows, SearchRows, AdminRows, FeedRows, InChannels, Visible, Stored, AsOfKinds

LEMMA CursorIsMade ==
  ASSUME NEW l \in Listings, NEW k \in Places, NEW at \in Nat
  PROVE  /\ NextCursor(l, k, at) \in Cursors /\ NextCursor(l, k, at) # NoCursor
         /\ NextCursor(l, k, at).key = k /\ NextCursor(l, k, at).at = at
         /\ NextCursor(l, k, at).shape = Shape(l) /\ NextCursor(l, k, at).filter = CursorFilter(l)
BY ReadingAssumption DEF NextCursor, Cursors

\* Two listings with one cursor read the same rows in the same order.
LEMMA AlikeRead ==
  ASSUME NEW l \in Listings, NEW k \in Listings, Shape(l) = Shape(k), CursorFilter(l) = CursorFilter(k),
         Shape(l) \in {"channel", "latest", "search", "admin"}
  PROVE  /\ l.kind = k.kind
         /\ \A at : RowsOf(l, at) = RowsOf(k, at)
         /\ \A m : KeyOf(l, m) = KeyOf(k, m)
         /\ \A a, b : Ahead(l, a, b) <=> Ahead(k, a, b)
<1>1. l.kind \in Kinds /\ k.kind \in Kinds
  BY ReadingAssumption
<1>2. CASE Shape(l) = "channel"
  <2>1. l.kind = "channel" /\ k.kind = "channel"
    BY <1>1, <1>2, Shape(l) = Shape(k) DEF Shape, Kinds
  <2>2. l.channels = k.channels
    BY <1>2, <2>1, CursorFilter(l) = CursorFilter(k) DEF CursorFilter, Shape
  <2> QED BY <2>1, <2>2 DEF RowsOf, ChannelRows, InChannels, KeyOf, Ahead
<1>3. CASE Shape(l) = "latest"
  <2>1. l.kind = "latest" /\ k.kind = "latest"
    BY <1>1, <1>3, Shape(l) = Shape(k) DEF Shape, Kinds
  <2>2. l.channels = k.channels
    BY <1>3, <2>1, CursorFilter(l) = CursorFilter(k) DEF CursorFilter, Shape, ChannelFilterHash
  <2> QED BY <2>1, <2>2 DEF RowsOf, LatestRows, InChannels, KeyOf, Ahead
<1>4. CASE Shape(l) = "search"
  <2>1. l.kind \in {"newest", "relevance"} /\ k.kind \in {"newest", "relevance"}
    BY <1>1, <1>4, Shape(l) = Shape(k) DEF Shape, Kinds
  <2>2. MessageSearchQueryHash(l) = MessageSearchQueryHash(k)
    BY <1>4, CursorFilter(l) = CursorFilter(k), Shape(l) = Shape(k) DEF CursorFilter
  <2>3. l.channels = k.channels /\ l.from = k.from /\ l.to = k.to /\ l.kind = k.kind
    BY <2>2 DEF MessageSearchQueryHash
  <2> QED BY <2>1, <2>3 DEF RowsOf, SearchRows, LatestRows, InChannels, KeyOf, Ahead
<1>5. CASE Shape(l) = "admin"
  <2>1. l.kind = "admin" /\ k.kind = "admin"
    BY <1>1, <1>5, Shape(l) = Shape(k) DEF Shape, Kinds
  <2>2. <<l.channels, l.visibility>> = <<k.channels, k.visibility>>
    BY <1>5, CursorFilter(l) = CursorFilter(k), Shape(l) = Shape(k) DEF CursorFilter
  <2>3. l.channels = k.channels /\ l.visibility = k.visibility
    BY <2>2
  <2> QED BY <2>1, <2>3 DEF RowsOf, AdminRows, InChannels, KeyOf, Ahead
<1> QED BY <1>2, <1>3, <1>4, <1>5

LEMMA AcceptedAreAlike ==
  ASSUME NEW c, NEW l, c # NoCursor, Accepts(c, l)
  PROVE  c.shape = Shape(l) /\ c.filter = CursorFilter(l) /\ Shape(l) \in {"channel", "latest", "search", "admin"}
<1>1. CASE Shape(l) = "channel"
  BY <1>1 DEF Accepts, DecodeMessageCursor, CursorFilter
<1>2. CASE Shape(l) = "latest"
  BY <1>2 DEF Accepts, DecodeLatestMessageCursor, CursorFilter
<1>3. CASE Shape(l) = "search"
  BY <1>3 DEF Accepts, DecodeMessageSearchCursor, CursorFilter
<1>4. CASE Shape(l) = "admin"
  BY <1>4 DEF Accepts, DecodeAdminMessageCursor, CursorFilter
<1> QED BY <1>1, <1>2, <1>3, <1>4 DEF Accepts

-----------------------------------------------------------------------------
(* A walk begins.                                                          *)

LEMMA NotYetPassed ==
  ASSUME NEW w, NEW m, w.cursor = NoCursor, w.phase # "done" PROVE ~Passed(w, m)
BY DEF Passed

LEMMA SnapshotIsTime == ASSUME StoreOK, NEW l PROVE DatabaseSnapshotAt(l) \in Nat
BY TruncatedIsEarlier DEF DatabaseSnapshotAt, StoreOK

LEMMA SteadyArePosts == ASSUME NEW l PROVE SteadyRows(l) \in SUBSET Posts
BY DEF SteadyRows, Stored

LEMMA NoWalkIsOK == NotReading \in WalkRecords /\ WalkOK(NotReading)
<1>1. NotReading \in WalkRecords
  BY DEF NotReading, WalkRecords, WalkPhases, MaybeCursors
<1>2. PhasesOK(NotReading) /\ EntriesOK(NotReading) /\ NotReading.phase = "idle"
  BY DEF NotReading, PhasesOK, EntriesOK
<1> QED BY <1>1, <1>2 DEF WalkOK

LEMMA AskingIsOK ==
  ASSUME StoreOK, NEW l \in Listings, Shape(l) # "context"
  PROVE  Asking(l, NoCursor) \in WalkRecords /\ WalkOK(Asking(l, NoCursor))
<1> DEFINE w == Asking(l, NoCursor)
<1>1. /\ w.phase = "asking" /\ w.listing = l /\ w.start = NoCursor /\ w.cursor = NoCursor
      /\ w.shown = {} /\ w.again = {} /\ w.page = {} /\ w.next = NoCursor
  BY DEF Asking
<1>2. w \in WalkRecords
  BY SnapshotIsTime, SteadyArePosts DEF Asking, WalkRecords, WalkPhases, MaybeCursors
<1> HIDE DEF w
<1>3. PhasesOK(w) /\ EntriesOK(w)
  BY <1>1 DEF PhasesOK, EntriesOK
<1>4. ~Contextual(w)
  BY <1>1 DEF Contextual
<1>5. PassedOK(w)
  <2>1. \A m : ~Passed(w, m)
    BY <1>1, NotYetPassed
  <2> QED BY <2>1, <1>1 DEF PassedOK
<1>6. ListOK(w)
  BY <1>1 DEF ListOK
<1>7. WalkOK(w)
  BY <1>3, <1>4, <1>5, <1>6 DEF WalkOK
<1> QED BY <1>2, <1>7 DEF w

LEMMA ContextKinds ==
  ASSUME NEW l \in Listings, Shape(l) = "context"
  PROVE  l.kind \in {"older", "newer"} /\ l.kind \notin AsOfKinds
BY ReadingAssumption DEF Shape, Kinds, AsOfKinds

LEMMA AskingContextIsOK ==
  ASSUME StoreOK, NEW l \in Listings, Shape(l) = "context", NEW m \in Posts,
         NEW c, c = NextCursor(l, KeyOf(l, m), 0)
  PROVE  Asking(l, c) \in WalkRecords /\ WalkOK(Asking(l, c))
<1> DEFINE w == Asking(l, c)
<1>0. /\ KeyOf(l, m) \in Places /\ KeyOf(l, m).id = m /\ KeyOf(l, m) = PlaceOf(m)
      /\ \A p \in Posts : KeyOf(l, p) \in Places
  BY KeysArePlaces, KeysOfNeighbours, ContextKinds
<1>c. c \in Cursors /\ c # NoCursor /\ c.key = KeyOf(l, m) /\ c.shape = "context"
  BY <1>0, CursorIsMade
<1>1. /\ w.phase = "asking" /\ w.listing = l /\ w.start = c /\ w.cursor = c
      /\ w.shown = {} /\ w.again = {} /\ w.page = {} /\ w.next = NoCursor
  BY DEF Asking
<1>2. w \in WalkRecords
  BY <1>c, SnapshotIsTime, SteadyArePosts DEF Asking, WalkRecords, WalkPhases, MaybeCursors
<1> HIDE DEF w
<1>3. PhasesOK(w) /\ EntriesOK(w)
  BY <1>1 DEF PhasesOK, EntriesOK
<1>4. Contextual(w)
  BY <1>1 DEF Contextual
<1>5. PassedOK(w)
  <2>1. ASSUME NEW p \in Posts, Passed(w, p) PROVE FALSE
    <3>1. p = m \/ Ahead(l, KeyOf(l, m), KeyOf(l, p))
      BY <2>1, <1>0, <1>1, <1>c DEF Passed
    <3>2. Ahead(l, KeyOf(l, p), KeyOf(l, m))
      BY <2>1, <1>1, <1>c, <1>4 DEF Passed
    <3> QED BY <3>1, <3>2, <1>0, AheadIrreflexive, AheadAsymmetric
  <2>2. Steady(w) \in SUBSET Posts
    BY RowsArePosts DEF Steady
  <2> QED BY <2>1, <2>2, <1>1 DEF PassedOK
<1>6. ContextOK(w)
  BY <1>0, <1>1, <1>c DEF ContextOK
<1>7. WalkOK(w)
  BY <1>3, <1>4, <1>5, <1>6 DEF WalkOK
<1> QED BY <1>2, <1>7 DEF w

-----------------------------------------------------------------------------
(* A page is read.                                                         *)

LEMMA WalkFields ==
  ASSUME NEW w \in WalkRecords
  PROVE  /\ w.phase \in WalkPhases /\ w.listing \in Listings \union {NoListing} /\ w.at \in Nat
         /\ w.steady \in SUBSET Posts /\ w.start \in MaybeCursors /\ w.cursor \in MaybeCursors
         /\ w.shown \in SUBSET PageEntries /\ w.page \in SUBSET PageEntries /\ w.next \in MaybeCursors
         /\ w.again \in SUBSET Posts
BY DEF WalkRecords

LEMMA CursorFields ==
  ASSUME NEW c \in MaybeCursors, c # NoCursor
  PROVE  c \in Cursors /\ c.key \in Places /\ c.key.id \in Posts /\ c.at \in Nat
BY DEF MaybeCursors, Cursors, Places

LEMMA EntryFields ==
  ASSUME NEW e \in PageEntries
  PROVE  e.id \in Posts /\ e.key \in Places /\ e.updated \in Nat
BY DEF PageEntries

LEMMA EntryIsMade ==
  ASSUME StoreOK, NEW l, NEW m \in Posts, NEW e, e = PageEntry(l, m)
  PROVE  /\ e \in PageEntries /\ e.id = m /\ e.key = KeyOf(l, m) /\ e.media = NoMedia
         /\ e.revision = rows[m].revision /\ e.updated <= rows[m].updatedAt /\ rows[m].updatedAt \in Nat
<1>1. KeyOf(l, m) \in Places
  BY KeysArePlaces
<1>2. rows[m].revision \in 0 .. MaxRevision /\ rows[m].updatedAt \in Nat
  BY DEF StoreOK, RowRecords
<1>3. Truncated(rows[m].updatedAt) \in Nat /\ Truncated(rows[m].updatedAt) <= rows[m].updatedAt
  BY <1>2, TruncatedIsEarlier
<1> QED BY <1>1, <1>2, <1>3 DEF PageEntry, PageEntries

LEMMA PageIsOK ==
  ASSUME StoreOK, walk \in WalkRecords, WalkOK(walk),
         NEW l \in Listings, NEW limit \in PageLimits, SelectPage(l, limit)
  PROVE  walk' \in WalkRecords /\ WalkOK(walk')
<1> PICK w : w = walk'
  OBVIOUS
<1> DEFINE k == walk.listing
           found == AfterCursor(l, walk.cursor, RowsOf(l, AsOf))
           taken == FirstRows(l, found, limit)
           key == KeyOf(l, LastOf(l, taken))
<1>t. /\ walk.at \in Nat /\ walk.steady \in SUBSET Posts /\ walk.start \in MaybeCursors
      /\ walk.cursor \in MaybeCursors /\ walk.shown \in SUBSET PageEntries
  BY WalkFields
<1>a. /\ walk.phase = "asking" /\ Shape(l) \notin {"context", "feed"}
      /\ walk.cursor = NoCursor => l = k
      /\ Accepts(walk.cursor, l)
      /\ w.listing = l /\ w.phase = "media" /\ w.page = {PageEntry(l, m) : m \in taken}
      /\ w.next = IF Cardinality(found) > limit THEN NextCursor(l, key, AsOf) ELSE NoCursor
      /\ w.at = walk.at /\ w.steady = walk.steady /\ w.start = walk.start
      /\ w.cursor = walk.cursor /\ w.shown = walk.shown /\ w.again = walk.again
  BY DEF SelectPage, WalkRecords
<1>b. k \in Listings /\ PassedOK(walk) /\ EntriesOK(walk)
      /\ IF Contextual(walk) THEN ContextOK(walk) ELSE ListOK(walk)
  BY <1>a DEF WalkOK, PhasesOK
<1>c. ~Contextual(walk) /\ ListOK(walk)
  <2>1. ASSUME Contextual(walk) PROVE FALSE
    <3>1. walk.cursor # NoCursor /\ walk.cursor.shape = "context"
      BY <2>1, <1>a, <1>b DEF ContextOK
    <3> QED BY <3>1, <1>a, AcceptedAreAlike
  <2> QED BY <2>1, <1>b
<1>d. /\ l.kind = k.kind /\ \A at : RowsOf(l, at) = RowsOf(k, at)
      /\ \A m : KeyOf(l, m) = KeyOf(k, m) /\ \A x, y : Ahead(l, x, y) <=> Ahead(k, x, y)
      /\ Shape(l) = Shape(k) /\ CursorFilter(l) = CursorFilter(k)
  <2>1. CASE walk.cursor = NoCursor
    BY <2>1, <1>a
  <2>2. CASE walk.cursor # NoCursor
    <3>1. walk.cursor.shape = Shape(k) /\ walk.cursor.filter = CursorFilter(k)
      BY <2>2, <1>a, <1>c DEF ListOK, Continues
    <3>2. /\ walk.cursor.shape = Shape(l) /\ walk.cursor.filter = CursorFilter(l)
          /\ Shape(l) \in {"channel", "latest", "search", "admin"}
      BY <2>2, <1>a, AcceptedAreAlike
    <3> QED BY <3>1, <3>2, <1>b, AlikeRead
  <2> QED BY <2>1, <2>2
<1>e. AsOf = walk.at
  BY <1>a, <1>c DEF AsOf, ListOK, Continues
<1>f. /\ found \in SUBSET Posts /\ taken \in SUBSET found /\ taken \in SUBSET Posts
      /\ \A m \in found : /\ m \in RowsOf(l, walk.at)
                          /\ walk.cursor # NoCursor => Ahead(l, walk.cursor.key, KeyOf(l, m))
      /\ \A m \in RowsOf(l, walk.at) :
           m \notin found => walk.cursor # NoCursor /\ ~Ahead(l, walk.cursor.key, KeyOf(l, m))
  BY <1>e, RowsArePosts DEF AfterCursor, FirstRows
<1>g. \A m \in Posts : KeyOf(l, m) \in Places
  BY KeysArePlaces
<1>h. limit \in Nat /\ limit \in Nat \ {0}
  BY ReadingAssumption
<1>j. Cardinality(found) <= limit => taken = found
  <2> HIDE DEF found
  <2> QED BY <1>f, <1>h, AllAreTaken
<1>m. Cardinality(found) \in Nat
  BY <1>f, SmallSets
<1>n. Cardinality(found) > limit =>
        /\ LastOf(l, taken) \in taken /\ \A x \in taken : ~Ahead(l, key, KeyOf(l, x))
        /\ \A x \in found : ~Ahead(l, key, KeyOf(l, x)) => x \in taken
  <2> SUFFICES ASSUME Cardinality(found) > limit
               PROVE  /\ LastOf(l, taken) \in taken /\ \A x \in taken : ~Ahead(l, key, KeyOf(l, x))
                      /\ \A x \in found : ~Ahead(l, key, KeyOf(l, x)) => x \in taken
    OBVIOUS
  <2>1. found # {}
    BY <1>h, <1>m, <1>f, SmallSets
  <2>2. taken # {}
    <3> HIDE DEF found
    <3> QED BY <2>1, <1>f, <1>h, SomeAreTaken
  <2>3. LastOf(l, taken) \in taken /\ \A x \in taken : ~Ahead(l, key, KeyOf(l, x))
    <3> HIDE DEF taken
    <3> QED BY <2>2, <1>f, LastIsLast
  <2>4. ASSUME NEW x \in found, ~Ahead(l, key, KeyOf(l, x)) PROVE x \in taken
    <3>1. x \in Posts /\ LastOf(l, taken) \in Posts /\ LastOf(l, taken) \in taken
      BY <1>f, <2>3
    <3>2. x = LastOf(l, taken) \/ Ahead(l, KeyOf(l, x), key)
      BY <3>1, <2>4, KeysDiffer
    <3>3. CASE Ahead(l, KeyOf(l, x), key)
      <4> PICK m : m = LastOf(l, taken)
        OBVIOUS
      <4>1. m \in FirstRows(l, found, limit) /\ Ahead(l, KeyOf(l, x), KeyOf(l, m))
        BY <3>1, <3>3
      <4>2. x \in FirstRows(l, found, limit)
        <5> HIDE DEF found
        <5> QED BY <4>1, <2>4, <1>f, <1>h, FirstComeFirst
      <4> QED BY <4>2
    <3> QED BY <3>1, <3>2, <3>3
  <2> QED BY <2>3, <2>4
<1>r. /\ \A m \in taken : PageEntry(l, m) \in w.page
      /\ \A e \in w.page : /\ e \in PageEntries /\ e.id \in taken /\ e.key = KeyOf(l, e.id)
                           /\ e.media = NoMedia /\ e.revision = rows[e.id].revision
                           /\ e.updated <= rows[e.id].updatedAt /\ rows[e.id].updatedAt \in Nat /\ e.updated \in Nat
                           /\ e = PageEntry(l, e.id)
  <2>1. \A m \in taken : PageEntry(l, m) \in w.page
    BY <1>a
  <2>2. ASSUME NEW e \in w.page
        PROVE  /\ e \in PageEntries /\ e.id \in taken /\ e.key = KeyOf(l, e.id)
               /\ e.media = NoMedia /\ e.revision = rows[e.id].revision
               /\ e.updated <= rows[e.id].updatedAt /\ rows[e.id].updatedAt \in Nat /\ e.updated \in Nat
               /\ e = PageEntry(l, e.id)
    <3> HIDE DEF found, taken
    <3>1. PICK m \in taken : e = PageEntry(l, m)
      BY <1>a
    <3>2. m \in Posts
      BY <1>f
    <3>3. e \in PageEntries /\ e.id = m /\ e.key = KeyOf(l, m) /\ e.media = NoMedia
          /\ e.revision = rows[m].revision /\ e.updated <= rows[m].updatedAt /\ rows[m].updatedAt \in Nat
      BY <3>1, <3>2, EntryIsMade
    <3> QED BY <3>1, <3>3, EntryFields
  <2> QED BY <2>1, <2>2
<1>s. w.next = NoCursor <=> ~(Cardinality(found) > limit)
  <2>1. CASE Cardinality(found) > limit
    <3>1. key \in Places
      BY <2>1, <1>n, <1>f, <1>g
    <3>2. NextCursor(l, key, walk.at) # NoCursor
      BY <3>1, <1>t, CursorIsMade
    <3> QED BY <2>1, <3>2, <1>a, <1>e
  <2>2. CASE ~(Cardinality(found) > limit)
    BY <2>2, <1>a
  <2> QED BY <2>1, <2>2
<1>u. w.next # NoCursor =>
        /\ w.next \in Cursors /\ w.next.key = key /\ w.next.at = walk.at /\ key \in Places
        /\ w.next.shape = Shape(l) /\ w.next.filter = CursorFilter(l)
  <2> SUFFICES ASSUME w.next # NoCursor
               PROVE  /\ w.next \in Cursors /\ w.next.key = key /\ w.next.at = walk.at /\ key \in Places
                      /\ w.next.shape = Shape(l) /\ w.next.filter = CursorFilter(l)
    OBVIOUS
  <2>1. Cardinality(found) > limit
    BY <1>s
  <2>2. key \in Places
    BY <2>1, <1>n, <1>f, <1>g
  <2>3. w.next = NextCursor(l, key, walk.at)
    BY <2>1, <1>a, <1>e
  <2> QED BY <2>2, <2>3, <1>t, CursorIsMade
<1>1. w \in WalkRecords
  <2>1. walk' = [walk EXCEPT !.listing = l, !.phase = "media", !.page = w.page, !.next = w.next]
    BY <1>a DEF SelectPage
  <2>2. w.page \in SUBSET PageEntries /\ w.next \in MaybeCursors
    BY <1>r, <1>u DEF MaybeCursors
  <2> HIDE DEF found, taken, key
  <2> QED BY <2>1, <2>2 DEF WalkRecords, WalkPhases
<1> HIDE DEF found, taken, key
<1>2. PhasesOK(w)
  BY <1>a DEF PhasesOK
<1>3. EntriesOK(w)
  <2>1. ASSUME NEW e \in w.shown \union w.page
        PROVE  /\ e.media \in {NoMedia, e.revision}
               /\ e.id \in w.steady => e.revision = rows[e.id].revision
               /\ w.listing.kind \in AsOfKinds => e.updated <= w.at
    <3>1. CASE e \in walk.shown
      BY <3>1, <1>a, <1>b, <1>d DEF EntriesOK
    <3>2. CASE e \in w.page
      <4>1. l.kind \in AsOfKinds => rows[e.id].updatedAt <= walk.at
        BY <3>2, <1>r, <1>f, RowsArePosts
      <4>2. l.kind \in AsOfKinds => e.updated <= w.at
        BY <3>2, <4>1, <1>r, <1>a, <1>t
      <4> QED BY <3>2, <4>2, <1>r, <1>a
    <3> QED BY <3>1, <3>2, <1>a
  <2>2. \A e, f \in w.page : e.id = f.id => e = f
    BY <1>r
  <2>3. w.again = {} /\ \A e, f \in w.shown : e.id = f.id /\ e.key = f.key => e = f
    BY <1>a, <1>b DEF EntriesOK
  <2> QED BY <2>1, <2>2, <2>3 DEF EntriesOK
<1>4. ~Contextual(w)
  BY <1>a DEF Contextual
<1>5. ListOK(w)
  <2>1. w.start = NoCursor /\ w.cursor = NoCursor => w.shown = {}
    BY <1>a, <1>c DEF ListOK
  <2>2. w.cursor # NoCursor => Continues(w, w.cursor) /\ \A e \in w.shown : ~Ahead(l, w.cursor.key, e.key)
    BY <1>a, <1>c, <1>d DEF ListOK, Continues
  <2>3. w.cursor # NoCursor => \A e \in w.page : Ahead(l, w.cursor.key, e.key)
    BY <1>a, <1>r, <1>f
  <2>4. ASSUME w.next # NoCursor
        PROVE  /\ Continues(w, w.next) /\ \A e \in w.page : ~Ahead(l, w.next.key, e.key)
               /\ w.cursor # NoCursor => Ahead(l, w.cursor.key, w.next.key)
    <3>1. Continues(w, w.next)
      BY <2>4, <1>u, <1>a DEF Continues
    <3>2. \A e \in w.page : ~Ahead(l, w.next.key, e.key)
      BY <2>4, <1>u, <1>s, <1>n, <1>r
    <3>3. LastOf(l, taken) \in found
      BY <2>4, <1>s, <1>n, <1>f
    <3>4. w.cursor # NoCursor => Ahead(l, w.cursor.key, w.next.key)
      BY <3>3, <2>4, <1>u, <1>f, <1>a DEF key
    <3> QED BY <3>1, <3>2, <3>4
  <2>5. l.kind # "feed"
    BY <1>a, ReadingAssumption DEF Shape, Kinds
  <2>6. w.start = NoCursor
    BY <1>a, <1>c DEF ListOK
  <2> QED BY <2>1, <2>2, <2>3, <2>4, <2>5, <2>6, <1>a DEF ListOK
<1>6. Steady(w) = Steady(walk) /\ \A m \in Steady(w) : m \in RowsOf(l, walk.at) /\ m \in Posts
  BY <1>a, <1>d, RowsArePosts DEF Steady
<1>7. \A m \in Steady(w) : Passed(w, m) => Passed(walk, m)
  BY <1>a, <1>c, <1>4, <1>d DEF Passed
<1>8. \A m \in Steady(w) : Passed(w, m) => In(w.shown, m)
  BY <1>6, <1>7, <1>a, <1>b DEF PassedOK
<1>9. ASSUME NEW m \in Steady(w), w.next = NoCursor \/ ~Ahead(l, w.next.key, KeyOf(l, m))
      PROVE  In(w.shown \union w.page, m)
  <2>1. CASE m \notin found
    <3>1. w.cursor # NoCursor /\ ~Ahead(l, w.cursor.key, KeyOf(l, m))
      BY <2>1, <1>6, <1>f, <1>a
    <3>2. Passed(w, m)
      BY <3>1, <1>4, <1>5, <1>a DEF Passed, ListOK
    <3>3. In(w.shown, m)
      BY <3>2, <1>8
    <3> QED BY <3>3 DEF In
  <2>2. CASE m \in found
    <3>1. m \in taken
      <4>1. CASE w.next = NoCursor
        BY <4>1, <2>2, <1>s, <1>m, <1>h, <1>j
      <4>2. CASE w.next # NoCursor
        BY <4>2, <2>2, <1>9, <1>s, <1>u, <1>n
      <4> QED BY <4>1, <4>2
    <3>2. PICK e \in w.page : e = PageEntry(l, m)
      BY <3>1, <1>r
    <3>3. e.id = m /\ e.revision = rows[m].revision
      BY <3>2, <1>6, EntryIsMade
    <3> QED BY <3>3 DEF In
  <2> QED BY <2>1, <2>2
<1>10. PassedOK(w)
  BY <1>8, <1>9, <1>a DEF PassedOK
<1>11. WalkOK(w)
  BY <1>2, <1>3, <1>4, <1>5, <1>10 DEF WalkOK
<1> QED BY <1>1, <1>11

LEMMA PageChanged ==
  ASSUME walk \in WalkRecords, NEW phase \in WalkPhases, NEW P \in SUBSET PageEntries,
         NEW w, w = [walk EXCEPT !.phase = phase, !.page = P]
  PROVE  w \in WalkRecords
BY DEF WalkRecords

LEMMA OpeningIsOK ==
  ASSUME StoreOK, walk \in WalkRecords, WalkOK(walk), OpenContext
  PROVE  walk' \in WalkRecords /\ WalkOK(walk')
<1> DEFINE l == walk.listing
           m == walk.cursor.key.id
<1>1. CASE m \notin Visible
  BY <1>1, NoWalkIsOK DEF OpenContext
<1>2. CASE m \in Visible
  <2> PICK w : w = walk'
    OBVIOUS
  <2>a. /\ walk.phase = "asking" /\ Contextual(walk)
        /\ w = [walk EXCEPT !.phase = "media", !.page = {PageEntry(l, m)}]
    BY <1>2 DEF OpenContext, Contextual
  <2>b. /\ w.phase = "media" /\ w.page = {PageEntry(l, m)}
        /\ w.listing = l /\ w.at = walk.at /\ w.steady = walk.steady /\ w.start = walk.start
        /\ w.cursor = walk.cursor /\ w.shown = walk.shown /\ w.again = walk.again /\ w.next = walk.next
    BY <2>a DEF WalkRecords
  <2>c. l \in Listings /\ PassedOK(walk) /\ EntriesOK(walk) /\ ContextOK(walk) /\ Contextual(w)
    BY <2>a, <2>b DEF WalkOK, PhasesOK, Contextual
  <2>d. l.kind \notin AsOfKinds /\ l.kind # "relevance" /\ m \in Posts
    BY <2>a, <2>c, ContextKinds, <1>2 DEF Visible, Stored, Contextual
  <2> PICK e : e = PageEntry(l, m)
    OBVIOUS
  <2>e. /\ e \in PageEntries /\ e.id = m /\ e.key = PlaceOf(m) /\ e.media = NoMedia
        /\ e.revision = rows[m].revision
    BY <2>d, EntryIsMade, KeysOfNeighbours
  <2>1. w \in WalkRecords
    <3>1. w.page \in SUBSET PageEntries /\ "media" \in WalkPhases
      BY <2>b, <2>e DEF WalkPhases
    <3>2. w = [walk EXCEPT !.phase = "media", !.page = w.page]
      BY <2>a, <2>b
    <3> QED BY <3>1, <3>2, PageChanged, Zenon
  <2>2. PhasesOK(w)
    BY <2>b, <2>c DEF PhasesOK
  <2>3. EntriesOK(w)
    BY <2>b, <2>c, <2>d, <2>e DEF EntriesOK
  <2>4. ContextOK(w)
    <3>1. walk.cursor # NoCursor /\ walk.cursor.key = PlaceOf(m)
      BY <2>a, <2>c DEF ContextOK
    <3>2. \A f \in w.page : f.id = w.cursor.key.id /\ f.key = w.cursor.key
      BY <3>1, <2>b, <2>e
    <3> HIDE DEF m
    <3> QED BY <3>1, <3>2, <2>a, <2>b, <2>c DEF ContextOK
  <2>5. PassedOK(w)
    <3>1. walk.cursor # NoCursor
      BY <2>a, <2>c DEF ContextOK
    <3>2. \A p : Passed(w, p) => Passed(walk, p)
      BY <3>1, <2>a, <2>b, <2>c DEF Passed
    <3>3. Steady(w) = Steady(walk)
      BY <2>b DEF Steady
    <3> QED BY <3>2, <3>3, <2>b, <2>c DEF PassedOK
  <2>6. WalkOK(w)
    BY <2>2, <2>3, <2>4, <2>5, <2>c DEF WalkOK
  <2> QED BY <2>1, <2>6
<1> QED BY <1>1, <1>2

Attached(e) == [e EXCEPT !.media = e.revision]
AllAttached(P) == {Attached(e) : e \in P}

LEMMA AttachedFields ==
  ASSUME NEW e \in PageEntries
  PROVE  /\ Attached(e) \in PageEntries /\ Attached(e).media = Attached(e).revision
         /\ Attached(e).id = e.id /\ Attached(e).key = e.key
         /\ Attached(e).revision = e.revision /\ Attached(e).updated = e.updated
BY DEF PageEntries, Attached

\* What In says does not depend on the media of an entry.
LEMMA InWithMedia ==
  ASSUME NEW S, NEW P \in SUBSET PageEntries, NEW m, In(S \union P, m)
  PROVE  In(S \union AllAttached(P), m)
<1>1. PICK e \in S \union P : e.id = m /\ e.revision = rows[m].revision
  BY DEF In
<1>2. CASE e \in S
  BY <1>1, <1>2 DEF In
<1>3. CASE e \in P
  <2>1. Attached(e).id = m /\ Attached(e).revision = rows[m].revision
    BY <1>1, <1>3, AttachedFields
  <2>2. Attached(e) \in AllAttached(P)
    BY <1>3 DEF AllAttached
  <2> QED BY <2>1, <2>2 DEF In
<1> QED BY <1>1, <1>2, <1>3

LEMMA WithMedia ==
  ASSUME NEW P \in SUBSET PageEntries, NEW Q, Q = AllAttached(P)
  PROVE  /\ Q \in SUBSET PageEntries
         /\ \A f \in Q : f.media = f.revision /\
              \E e \in P : f = Attached(e) /\ f.id = e.id /\ f.key = e.key
                           /\ f.revision = e.revision /\ f.updated = e.updated
         /\ P # {} => Q # {}
<1>1. \A e \in P : /\ Attached(e) \in PageEntries /\ Attached(e).media = Attached(e).revision
                   /\ Attached(e).id = e.id /\ Attached(e).key = e.key
                   /\ Attached(e).revision = e.revision /\ Attached(e).updated = e.updated
  BY AttachedFields
<1> QED BY <1>1 DEF AllAttached

\* What lies at places not shown yet does not come again.
LEMMA ShownAnew ==
  ASSUME walk \in WalkRecords, walk.again = {}, NEW P, \A e \in P, f \in walk.shown : e.key # f.key
  PROVE  Show(P) = [walk EXCEPT !.shown = @ \union P, !.page = {}]
<1>1. {e.id : e \in {d \in P : \E f \in walk.shown : f.id = d.id /\ f.key = d.key}} = {}
  OBVIOUS
<1>2. PICK R : R = {e.id : e \in {d \in P : \E f \in walk.shown : f.id = d.id /\ f.key = d.key}}
  OBVIOUS
<1>3. Show(P) = [walk EXCEPT !.shown = @ \union P, !.page = {}, !.again = @ \union R]
  BY <1>2, Zenon DEF Show
<1>4. walk.again \union R = walk.again
  BY <1>1, <1>2
<1> QED BY <1>3, <1>4 DEF WalkRecords

LEMMA AttachingIsOK ==
  ASSUME StoreOK, walk \in WalkRecords, WalkOK(walk), AttachMedia
  PROVE  walk' \in WalkRecords /\ WalkOK(walk')
<1> DEFINE l == walk.listing
<1>p. PICK Q : Q = AllAttached(walk.page)
  OBVIOUS
<1> PICK w : w = walk'
  OBVIOUS
<1>t. /\ walk.at \in Nat /\ walk.steady \in SUBSET Posts /\ walk.start \in MaybeCursors
      /\ walk.cursor \in MaybeCursors /\ walk.shown \in SUBSET PageEntries
      /\ walk.page \in SUBSET PageEntries /\ walk.next \in MaybeCursors
  BY WalkFields
<1>a. /\ walk.phase = "media" /\ l \in Listings /\ PassedOK(walk) /\ EntriesOK(walk)
      /\ w = IF Contextual(walk)
             THEN [walk EXCEPT !.phase = "neighbours", !.page = Q]
             ELSE [[walk EXCEPT !.shown = @ \union Q, !.page = {}]
                     EXCEPT !.phase = IF walk.next = NoCursor THEN "done" ELSE "asking",
                            !.cursor = walk.next, !.next = NoCursor]
  <2>1. {[e EXCEPT !.media = e.revision] : e \in walk.page} = Q
    BY <1>p DEF Attached, AllAttached
  <2>2. walk.phase = "media" /\ l \in Listings /\ PassedOK(walk) /\ EntriesOK(walk)
    BY DEF AttachMedia, WalkOK, PhasesOK
  <2>3. ASSUME ~Contextual(walk) PROVE Show(Q) = [walk EXCEPT !.shown = @ \union Q, !.page = {}]
    <3>1. ListOK(walk)
      BY <2>2, <2>3 DEF WalkOK
    <3>2. ASSUME NEW e \in walk.shown, NEW f \in walk.page PROVE e.key # f.key
      <4>1. walk.cursor # NoCursor
        BY <3>1, <3>2, <2>2 DEF ListOK
      <4> QED BY <4>1, <3>1, <3>2, <2>2 DEF ListOK
    <3>3. \A e \in Q : \E f \in walk.page : e.key = f.key
      BY <1>t, <1>p, WithMedia
    <3>4. \A e \in Q, f \in walk.shown : e.key # f.key
      BY <3>2, <3>3
    <3> QED BY <3>4, <2>2, ShownAnew DEF EntriesOK
  <2>4. walk' = IF Contextual(walk)
                THEN [walk EXCEPT !.phase = "neighbours", !.page = Q]
                ELSE [Show(Q) EXCEPT !.phase = IF walk.next = NoCursor THEN "done" ELSE "asking",
                                     !.cursor = walk.next, !.next = NoCursor]
    BY <2>1, Zenon DEF AttachMedia, Contextual
  <2> QED BY <2>2, <2>3, <2>4
<1>q. /\ Q \in SUBSET PageEntries
      /\ \A f \in Q : f.media = f.revision /\
           \E e \in walk.page : f = Attached(e) /\ f.id = e.id /\ f.key = e.key
                                /\ f.revision = e.revision /\ f.updated = e.updated
      /\ walk.page # {} => Q # {}
  BY <1>t, <1>p, WithMedia
<1>b. /\ w.listing = l /\ w.at = walk.at /\ w.steady = walk.steady /\ w.start = walk.start
      /\ w.again = {} /\ walk.again = {}
  BY <1>a DEF WalkRecords, EntriesOK
<1>s. Steady(w) = Steady(walk) /\ \A m \in Steady(w) : m \in Posts
  BY <1>b, RowsArePosts DEF Steady
<1>e. ASSUME NEW f \in Q
      PROVE  /\ f.media \in {NoMedia, f.revision}
             /\ f.id \in w.steady => f.revision = rows[f.id].revision
             /\ w.listing.kind \in AsOfKinds => f.updated <= w.at
  BY <1>a, <1>b, <1>q DEF EntriesOK
<1>o. \A f, g \in Q : f.id = g.id => f = g
  BY <1>a, <1>q DEF EntriesOK
<1>1. CASE Contextual(walk)
  <2>a. /\ w = [walk EXCEPT !.phase = "neighbours", !.page = Q]
        /\ w.phase = "neighbours" /\ w.page = Q
        /\ w.cursor = walk.cursor /\ w.shown = walk.shown /\ w.next = walk.next
    BY <1>a, <1>1 DEF WalkRecords
  <2>b. ContextOK(walk) /\ Contextual(w)
    BY <1>a, <1>b, <1>1 DEF WalkOK, Contextual
  <2>1. w \in WalkRecords
    <3>1. "neighbours" \in WalkPhases
      BY DEF WalkPhases
    <3> QED BY <3>1, <2>a, <1>q, PageChanged, Zenon
  <2>2. PhasesOK(w)
    BY <2>a, <1>a, <1>b DEF PhasesOK
  <2>3. EntriesOK(w)
    BY <2>a, <1>a, <1>b, <1>e, <1>o DEF EntriesOK
  <2>4. ContextOK(w)
    <3>1. walk.cursor # NoCursor /\ walk.page # {}
      BY <1>a, <2>b DEF ContextOK
    <3>2. \A f \in w.page : f.id = w.cursor.key.id /\ f.key = w.cursor.key
      BY <3>1, <2>a, <2>b, <1>q DEF ContextOK
    <3> QED BY <3>1, <3>2, <2>a, <2>b, <1>b, <1>q DEF ContextOK
  <2>5. PassedOK(w)
    <3>1. walk.cursor # NoCursor
      BY <1>a, <2>b DEF ContextOK
    <3>2. \A p : Passed(w, p) => Passed(walk, p)
      BY <3>1, <2>a, <2>b, <1>b, <1>1 DEF Passed
    <3> QED BY <3>2, <1>s, <2>a, <2>b, <1>a DEF PassedOK
  <2>6. WalkOK(w)
    BY <2>2, <2>3, <2>4, <2>5, <2>b DEF WalkOK
  <2> QED BY <2>1, <2>6
<1>2. CASE ~Contextual(walk)
  <2>a. /\ w = [walk EXCEPT !.phase = w.phase, !.shown = w.shown, !.page = {},
                            !.cursor = walk.next, !.next = NoCursor]
        /\ w.phase = IF walk.next = NoCursor THEN "done" ELSE "asking"
        /\ w.shown = walk.shown \union Q /\ w.page = {} /\ w.cursor = walk.next /\ w.next = NoCursor
    BY <1>a, <1>2 DEF WalkRecords
  <2>b. ListOK(walk) /\ ~Contextual(w) /\ l.kind # "feed"
    BY <1>a, <1>b, <1>2 DEF WalkOK, Contextual, ListOK
  <2>c. walk.cursor = NoCursor => walk.shown = {}
    BY <1>a, <2>b DEF ListOK
  <2>1. w \in WalkRecords
    <3>1. w.phase \in WalkPhases /\ w.shown \in SUBSET PageEntries /\ NoCursor \in MaybeCursors
      BY <2>a, <1>t, <1>q DEF WalkPhases, MaybeCursors
    <3>2. {} \in SUBSET PageEntries /\ walk.next \in MaybeCursors
      BY <1>t
    <3> QED BY <3>1, <3>2, <2>a DEF WalkRecords
  <2>2. PhasesOK(w)
    BY <2>a, <1>a, <1>b DEF PhasesOK
  <2>3. EntriesOK(w)
    <3>1. ASSUME NEW e \in walk.shown, NEW f \in Q, e.key = f.key PROVE FALSE
      <4>1. walk.cursor # NoCursor
        BY <3>1, <2>c
      <4>2. ~Ahead(l, walk.cursor.key, e.key)
        BY <4>1, <2>b, <1>a DEF ListOK
      <4>3. Ahead(l, walk.cursor.key, f.key)
        BY <4>1, <2>b, <1>q DEF ListOK
      <4> QED BY <4>2, <4>3, <3>1
    <3>2. \A e, f \in w.shown : e.id = f.id /\ e.key = f.key => e = f
      <4>1. \A e, f \in walk.shown : e.id = f.id /\ e.key = f.key => e = f
        BY <1>a DEF EntriesOK
      <4> QED BY <4>1, <3>1, <2>a, <1>o
    <3>3. ASSUME NEW e \in w.shown
          PROVE  /\ e.media \in {NoMedia, e.revision}
                 /\ e.id \in w.steady => e.revision = rows[e.id].revision
                 /\ w.listing.kind \in AsOfKinds => e.updated <= w.at
      <4>1. CASE e \in walk.shown
        BY <4>1, <1>a, <1>b DEF EntriesOK
      <4> QED BY <4>1, <1>e, <2>a
    <3> QED BY <3>2, <3>3, <2>a, <1>b DEF EntriesOK
  <2>4. ListOK(w)
    <3>1. w.start = NoCursor
      BY <1>b, <2>b DEF ListOK
    <3>2. ASSUME w.cursor # NoCursor
          PROVE  Continues(w, w.cursor) /\ \A e \in w.shown : ~Ahead(l, w.cursor.key, e.key)
      <4>1. Continues(w, w.cursor)
        BY <3>2, <2>a, <2>b, <1>b DEF ListOK, Continues
      <4>2. \A e \in Q : ~Ahead(l, w.cursor.key, e.key)
        BY <3>2, <2>a, <2>b, <1>q DEF ListOK
      <4>3. ASSUME NEW e \in walk.shown PROVE ~Ahead(l, w.cursor.key, e.key)
        <5>1. walk.cursor # NoCursor
          BY <4>3, <2>c
        <5>2. ~Ahead(l, walk.cursor.key, e.key) /\ Ahead(l, walk.cursor.key, w.cursor.key)
          BY <3>2, <5>1, <2>a, <2>b, <1>a DEF ListOK
        <5>3. walk.cursor.key \in Places /\ w.cursor.key \in Places /\ e.key \in Places
          BY <3>2, <5>1, <2>a, <1>t, CursorFields, EntryFields
        <5> QED BY <5>2, <5>3, AheadTransitive
      <4> QED BY <4>1, <4>2, <4>3, <2>a
    <3> QED BY <3>1, <3>2, <2>a, <2>b, <1>b DEF ListOK
  <2>5. PassedOK(w)
    <3>1. ASSUME NEW m \in Steady(w), Passed(w, m) PROVE In(w.shown, m)
      <4>1. walk.next = NoCursor \/ ~Ahead(l, walk.next.key, KeyOf(l, m))
        BY <3>1, <2>a, <2>b, <1>b DEF Passed
      <4>2. In(walk.shown \union walk.page, m)
        BY <4>1, <1>a, <1>s, <1>2 DEF PassedOK
      <4>3. In(walk.shown \union AllAttached(walk.page), m)
        BY <4>2, <1>t, InWithMedia, Zenon
      <4>4. w.shown = walk.shown \union AllAttached(walk.page)
        BY <2>a, <1>p
      <4> QED BY <4>3, <4>4, Zenon
    <3> QED BY <3>1, <2>a DEF PassedOK
  <2>6. WalkOK(w)
    BY <2>2, <2>3, <2>4, <2>5, <2>b DEF WalkOK
  <2> QED BY <2>1, <2>6
<1> QED BY <1>1, <1>2

\* The message that a context was opened at has been shown.
LEMMA OpenedIsShown ==
  ASSUME StoreOK, walk \in WalkRecords, WalkOK(walk), walk.phase = "neighbours", Contextual(walk),
         NEW m \in Steady(walk), ~Ahead(walk.listing, walk.cursor.key, KeyOf(walk.listing, m)),
         walk.start # NoCursor =>
           m = walk.start.key.id \/ Ahead(walk.listing, walk.start.key, KeyOf(walk.listing, m))
  PROVE  In(walk.shown \union walk.page, m)
<1> DEFINE l == walk.listing
<1>1. ContextOK(walk) /\ PassedOK(walk) /\ EntriesOK(walk) /\ l \in Listings
  BY DEF WalkOK, PhasesOK
<1>2. m \in Posts /\ m \in walk.steady
  BY RowsArePosts DEF Steady
<1>3. walk.cursor # NoCursor /\ walk.cursor.key = PlaceOf(walk.cursor.key.id) /\ walk.page # {}
      /\ \A e \in walk.page : e.id = walk.cursor.key.id /\ e.key = walk.cursor.key
  BY <1>1 DEF ContextOK
<1>4. walk.cursor.key \in Places /\ walk.cursor.key.id \in Posts
  BY <1>3, WalkFields, CursorFields
<1>5. KeyOf(l, m) = PlaceOf(m) /\ KeyOf(l, m) \in Places
  BY <1>1, <1>2, ContextKinds, KeysOfNeighbours, KeysArePlaces DEF Contextual
<1>6. CASE m = walk.cursor.key.id
  <2> PICK e \in walk.page : e.id = m
    BY <1>3, <1>6
  <2>1. e.revision = rows[m].revision
    BY <1>1, <1>2 DEF EntriesOK
  <2> QED BY <2>1 DEF In
<1>7. CASE m # walk.cursor.key.id
  <2>1. KeyOf(l, m) # walk.cursor.key
    BY <1>7, <1>5, <1>2, KeysArePlaces
  <2>2. Ahead(l, KeyOf(l, m), walk.cursor.key)
    BY <2>1, <1>4, <1>5, AheadTotal
  <2>3. Passed(walk, m)
    BY <2>2, <1>3 DEF Passed
  <2>4. In(walk.shown, m)
    BY <2>3, <1>1 DEF PassedOK
  <2> QED BY <2>4 DEF In
<1> QED BY <1>6, <1>7

LEMMA NeighbourIsOK ==
  ASSUME StoreOK, walk \in WalkRecords, WalkOK(walk), SelectNeighbour
  PROVE  walk' \in WalkRecords /\ WalkOK(walk')
<1> DEFINE l == walk.listing
           found == AfterCursor(l, walk.cursor, ChannelRows(l))
<1> PICK w : w = walk'
  OBVIOUS
<1>t. /\ walk.at \in Nat /\ walk.steady \in SUBSET Posts /\ walk.start \in MaybeCursors
      /\ walk.cursor \in MaybeCursors /\ walk.shown \in SUBSET PageEntries
      /\ walk.page \in SUBSET PageEntries /\ walk.next \in MaybeCursors
  BY WalkFields
<1>a. walk.phase = "neighbours" /\ l \in Listings /\ PassedOK(walk) /\ EntriesOK(walk)
  <2>1. walk.phase = "neighbours"
    BY DEF SelectNeighbour
  <2> QED BY <2>1 DEF WalkOK, PhasesOK
<1>b. Contextual(walk) /\ ContextOK(walk)
  BY <1>a DEF WalkOK, ListOK
<1>c. /\ walk.start # NoCursor /\ walk.start.key = PlaceOf(walk.start.key.id) /\ walk.next = NoCursor
      /\ walk.cursor # NoCursor
      /\ walk.cursor.shape = "context" /\ walk.cursor.key = PlaceOf(walk.cursor.key.id)
      /\ walk.cursor.key = walk.start.key \/ Ahead(l, walk.start.key, walk.cursor.key)
      /\ \A e \in walk.shown : Ahead(l, e.key, walk.cursor.key)
      /\ \A e \in walk.page : e.id = walk.cursor.key.id /\ e.key = walk.cursor.key
  BY <1>a, <1>b DEF ContextOK
<1>d. walk.start.key \in Places /\ walk.cursor.key \in Places
  BY <1>t, <1>c, CursorFields
<1>k. l.kind \in {"older", "newer"} /\ l.kind # "relevance" /\ l.kind \notin AsOfKinds
  BY <1>a, <1>b, ContextKinds DEF Contextual
<1>f. /\ found \in SUBSET Posts
      /\ \A m \in found : Ahead(l, walk.cursor.key, KeyOf(l, m))
      /\ \A m \in ChannelRows(l) : m \notin found => ~Ahead(l, walk.cursor.key, KeyOf(l, m))
  BY <1>c DEF AfterCursor, ChannelRows, InChannels, Visible, Stored
<1>s. \A m \in Steady(walk) : m \in ChannelRows(l) /\ m \in Posts
  BY <1>k, RowsArePosts DEF Steady, RowsOf
<1>g. ASSUME NEW e \in walk.shown \union walk.page
      PROVE  /\ e.media \in {NoMedia, e.revision}
             /\ e.id \in walk.steady => e.revision = rows[e.id].revision
  BY <1>a DEF EntriesOK
<1>v. ASSUME NEW x \in walk.shown, NEW y \in walk.page PROVE x.key # y.key
  BY <1>v, <1>c, <1>d, AheadIrreflexive
<1>o. walk.again = {} /\ Show(walk.page) = [walk EXCEPT !.shown = @ \union walk.page, !.page = {}]
  BY <1>a, <1>v, ShownAnew DEF EntriesOK
<1>u. ASSUME NEW e \in walk.shown \union walk.page, NEW f \in walk.shown \union walk.page,
             e.id = f.id, e.key = f.key
      PROVE  e = f
  <2>1. \A x \in walk.shown, y \in walk.page : x.key # y.key
    BY <1>v
  <2>2. CASE e \in walk.shown /\ f \in walk.shown
    BY <2>2, <1>u, <1>a DEF EntriesOK
  <2>3. CASE e \in walk.page /\ f \in walk.page
    BY <2>3, <1>u, <1>a DEF EntriesOK
  <2> QED BY <2>1, <2>2, <2>3, <1>u
<1>1. CASE found = {} /\ walk' = [[walk EXCEPT !.shown = @ \union walk.page, !.page = {}]
                                    EXCEPT !.phase = "done", !.cursor = NoCursor]
  <2>a. /\ w.shown = walk.shown \union walk.page /\ w.page = {} /\ w.phase = "done" /\ w.cursor = NoCursor
        /\ w.listing = l /\ w.at = walk.at /\ w.steady = walk.steady /\ w.start = walk.start
        /\ w.next = walk.next /\ w.again = {}
    BY <1>1, <1>o DEF WalkRecords
  <2>b. Contextual(w)
    BY <2>a, <1>b DEF Contextual
  <2>1. w \in WalkRecords
    <3>1. walk.shown \union walk.page \in SUBSET PageEntries /\ {} \in SUBSET PageEntries
          /\ NoCursor \in MaybeCursors /\ "done" \in WalkPhases
      BY <1>t DEF MaybeCursors, WalkPhases
    <3> HIDE DEF found
    <3> QED BY <3>1, <1>1 DEF WalkRecords
  <2>2. PhasesOK(w)
    BY <2>a, <1>a, <1>c DEF PhasesOK
  <2>3. EntriesOK(w)
    BY <2>a, <1>g, <1>u, <1>k DEF EntriesOK
  <2>4. ContextOK(w)
    BY <2>a, <1>c DEF ContextOK
  <2>5. PassedOK(w)
    <3>1. Steady(w) = Steady(walk)
      BY <2>a DEF Steady
    <3>2. ASSUME NEW m \in Steady(w), Passed(w, m) PROVE In(w.shown, m)
      <4>1. m = walk.start.key.id \/ Ahead(l, walk.start.key, KeyOf(l, m))
        BY <3>2, <2>a, <1>c DEF Passed
      <4>2. ~Ahead(l, walk.cursor.key, KeyOf(l, m))
        BY <3>1, <3>2, <1>1, <1>s, <1>f
      <4>3. In(walk.shown \union walk.page, m)
        BY <4>1, <4>2, <3>1, <3>2, <1>a, <1>b, OpenedIsShown
      <4> QED BY <4>3, <2>a
    <3> QED BY <3>2, <2>a DEF PassedOK
  <2>6. WalkOK(w)
    BY <2>2, <2>3, <2>4, <2>5, <2>b DEF WalkOK
  <2> QED BY <2>1, <2>6
<1>2. ASSUME NEW n \in FirstRows(l, found, 1),
             walk' = [[walk EXCEPT !.shown = @ \union walk.page, !.page = {}]
                        EXCEPT !.phase = "asking", !.cursor = NextCursor(l, KeyOf(l, n), 0)]
      PROVE  walk' \in WalkRecords /\ WalkOK(walk')
  <2>n. n \in found /\ n \in Posts
    BY <1>f DEF FirstRows
  <2> PICK c : c = NextCursor(l, KeyOf(l, n), 0)
    OBVIOUS
  <2>k. KeyOf(l, n) \in Places /\ KeyOf(l, n) = PlaceOf(n) /\ KeyOf(l, n).id = n
        /\ Ahead(l, walk.cursor.key, KeyOf(l, n))
    BY <2>n, <1>f, <1>k, KeysArePlaces, KeysOfNeighbours
  <2>c. c \in Cursors /\ c # NoCursor /\ c.key = KeyOf(l, n) /\ c.shape = "context"
    BY <2>k, <1>a, <1>b, CursorIsMade DEF Contextual
  <2>a. /\ w.shown = walk.shown \union walk.page /\ w.page = {} /\ w.phase = "asking" /\ w.cursor = c
        /\ w.listing = l /\ w.at = walk.at /\ w.steady = walk.steady /\ w.start = walk.start
        /\ w.next = walk.next /\ w.again = {}
    BY <1>2, <1>o DEF WalkRecords
  <2>b. Contextual(w)
    BY <2>a, <1>b DEF Contextual
  <2>1. w \in WalkRecords
    <3>1. walk.shown \union walk.page \in SUBSET PageEntries /\ {} \in SUBSET PageEntries
          /\ c \in MaybeCursors /\ "asking" \in WalkPhases
      BY <1>t, <2>c DEF MaybeCursors, WalkPhases
    <3>2. w = [[walk EXCEPT !.shown = @ \union walk.page, !.page = {}] EXCEPT !.phase = "asking", !.cursor = c]
      BY <1>2
    <3> HIDE DEF found
    <3> QED BY <3>1, <3>2 DEF WalkRecords
  <2>2. PhasesOK(w)
    BY <2>a, <1>a, <1>c DEF PhasesOK
  <2>3. EntriesOK(w)
    BY <2>a, <1>g, <1>u, <1>k DEF EntriesOK
  <2>4. ContextOK(w)
    <3>1. c.key = walk.start.key \/ Ahead(l, walk.start.key, c.key)
      BY <2>c, <2>k, <1>c, <1>d, AheadTransitive
    <3>2. \A e \in w.shown : Ahead(l, e.key, c.key)
      <4>1. ASSUME NEW e \in walk.shown PROVE Ahead(l, e.key, c.key)
        <5>1. e.key \in Places
          BY <1>t, EntryFields
        <5> QED BY <5>1, <2>c, <2>k, <1>c, <1>d, AheadTransitive
      <4>2. ASSUME NEW e \in walk.page PROVE Ahead(l, e.key, c.key)
        BY <2>c, <2>k, <1>c
      <4> QED BY <4>1, <4>2, <2>a
    <3>3. c.key = PlaceOf(c.key.id)
      BY <2>c, <2>k
    <3> QED BY <3>1, <3>2, <3>3, <2>a, <2>c, <1>c DEF ContextOK
  <2>5. PassedOK(w)
    <3>1. Steady(w) = Steady(walk)
      BY <2>a DEF Steady
    <3>2. ASSUME NEW m \in Steady(w), Passed(w, m) PROVE In(w.shown, m)
      <4>1. m = walk.start.key.id \/ Ahead(l, walk.start.key, KeyOf(l, m))
        BY <3>2, <2>a, <1>c DEF Passed
      <4>2. Ahead(l, KeyOf(l, m), KeyOf(l, n))
        BY <3>2, <2>a, <2>b, <2>c DEF Passed
      <4>3. m \notin found
        <5> HIDE DEF found
        <5> QED BY <4>2, <1>f, <1>2, NoneBeforeTheOne
      <4>4. ~Ahead(l, walk.cursor.key, KeyOf(l, m))
        BY <4>3, <3>1, <3>2, <1>s, <1>f
      <4>5. In(walk.shown \union walk.page, m)
        BY <4>1, <4>4, <3>1, <3>2, <1>a, <1>b, OpenedIsShown
      <4> QED BY <4>5, <2>a
    <3> QED BY <3>2, <2>a DEF PassedOK
  <2>6. WalkOK(w)
    BY <2>2, <2>3, <2>4, <2>5, <2>b DEF WalkOK
  <2> QED BY <2>1, <2>6
<1>3. PICK opened : opened = Show(walk.page)
  OBVIOUS
<1>4. \/ found = {} /\ walk' = [opened EXCEPT !.phase = "done", !.cursor = NoCursor]
      \/ \E n \in FirstRows(l, found, 1) :
           walk' = [opened EXCEPT !.phase = "asking", !.cursor = NextCursor(l, KeyOf(l, n), 0)]
  BY <1>3, Zenon DEF SelectNeighbour
<1> HIDE DEF found
<1> QED BY <1>1, <1>2, <1>3, <1>4, <1>o, Zenon

LEMMA FeedIsOK ==
  ASSUME StoreOK, walk \in WalkRecords, WalkOK(walk), PollFeed
  PROVE  walk' \in WalkRecords /\ WalkOK(walk')
<1> DEFINE l == walk.listing
           S == FeedRows(l)
           items == FirstRows(l, S, FeedLimit)
           key == KeyOf(l, LastOf(l, items))
<1> PICK w : w = walk'
  OBVIOUS
<1>t. /\ walk.at \in Nat /\ walk.steady \in SUBSET Posts /\ walk.start \in MaybeCursors
      /\ walk.shown \in SUBSET PageEntries
  BY WalkFields
<1>a. /\ walk.phase = "asking" /\ Shape(l) = "feed"
      /\ w.phase = "done" /\ w.shown = {PageEntry(l, m) : m \in items}
      /\ w.cursor = IF Cardinality(items) = FeedLimit THEN NextCursor(l, key, 0) ELSE NoCursor
      /\ w.listing = l /\ w.at = walk.at /\ w.steady = walk.steady /\ w.start = walk.start
      /\ w.page = walk.page /\ w.next = walk.next /\ w.again = walk.again
  BY DEF PollFeed, WalkRecords
<1>b. /\ l \in Listings /\ walk.page = {} /\ walk.next = NoCursor /\ ~Contextual(walk) /\ ListOK(walk)
      /\ walk.again = {}
  BY <1>a DEF WalkOK, PhasesOK, Contextual, EntriesOK
<1>k. l.kind = "feed" /\ l.kind \notin AsOfKinds
  BY <1>a, <1>b, ReadingAssumption DEF Shape, Kinds, AsOfKinds
<1>f. S \in SUBSET Posts /\ items \in SUBSET S /\ items \in SUBSET Posts /\ FeedLimit \in Nat \ {0}
  BY ReadingAssumption DEF FeedRows, InChannels, Visible, Stored, FirstRows
<1>g. \A m \in Posts : KeyOf(l, m) \in Places
  BY KeysArePlaces
<1>h. Cardinality(items) # FeedLimit => items = S
  <2> HIDE DEF S
  <2> QED BY <1>f, LimitIsReached
<1>r. /\ \A m \in items : \E e \in w.shown : e.id = m /\ e.revision = rows[m].revision
      /\ \A e \in w.shown : /\ e \in PageEntries /\ e = PageEntry(l, e.id)
                            /\ e.media = NoMedia /\ e.revision = rows[e.id].revision
  <2> HIDE DEF items
  <2>1. ASSUME NEW m \in items PROVE \E e \in w.shown : e.id = m /\ e.revision = rows[m].revision
    <3> PICK e : e = PageEntry(l, m)
      OBVIOUS
    <3>1. m \in Posts
      BY <1>f
    <3>2. e \in w.shown /\ e.id = m /\ e.revision = rows[m].revision
      BY <3>1, <1>a, EntryIsMade
    <3> QED BY <3>2
  <2>2. ASSUME NEW e \in w.shown
        PROVE  e \in PageEntries /\ e = PageEntry(l, e.id) /\ e.media = NoMedia /\ e.revision = rows[e.id].revision
    <3>1. PICK m \in items : e = PageEntry(l, m)
      BY <1>a
    <3>2. m \in Posts
      BY <1>f
    <3> QED BY <3>1, <3>2, EntryIsMade
  <2> QED BY <2>1, <2>2
<1>c. /\ w.cursor \in MaybeCursors
      /\ Cardinality(items) = FeedLimit =>
           /\ w.cursor # NoCursor /\ w.cursor.key = key /\ key \in Places
           /\ LastOf(l, items) \in items
  <2>1. CASE Cardinality(items) # FeedLimit
    BY <2>1, <1>a DEF MaybeCursors
  <2>2. CASE Cardinality(items) = FeedLimit
    <3>1. items # {}
      BY <2>2, <1>f, SmallSets
    <3>2. LastOf(l, items) \in items
      <4> HIDE DEF items
      <4> QED BY <3>1, <1>f, LastIsLast
    <3>3. key \in Places
      BY <3>2, <1>f, <1>g
    <3>4. w.cursor = NextCursor(l, key, 0)
      BY <2>2, <1>a
    <3>5. w.cursor \in Cursors /\ w.cursor # NoCursor /\ w.cursor.key = key
      <4> HIDE DEF key
      <4> QED BY <3>3, <3>4, <1>b, CursorIsMade
    <3> QED BY <3>2, <3>3, <3>5 DEF MaybeCursors
  <2> QED BY <2>1, <2>2
<1>d. \A x \in S : Cardinality(items) = FeedLimit /\ ~Ahead(l, key, KeyOf(l, x)) => x \in items
  <2> SUFFICES ASSUME NEW x \in S, Cardinality(items) = FeedLimit, ~Ahead(l, key, KeyOf(l, x))
               PROVE  x \in items
    OBVIOUS
  <2> PICK z : z = LastOf(l, items)
    OBVIOUS
  <2>1. x \in Posts /\ z \in Posts /\ z \in items
    BY <1>c, <1>f
  <2>2. x = z \/ Ahead(l, KeyOf(l, x), KeyOf(l, z))
    BY <2>1, KeysDiffer
  <2>3. CASE Ahead(l, KeyOf(l, x), KeyOf(l, z))
    <3> HIDE DEF S
    <3> QED BY <2>1, <2>3, <1>f, FirstComeFirst
  <2> QED BY <2>1, <2>2, <2>3
<1>1. w \in WalkRecords
  <2>1. w.shown \in SUBSET PageEntries /\ "done" \in WalkPhases
    BY <1>r DEF WalkPhases
  <2>2. PICK sh, c : w = [walk EXCEPT !.phase = "done", !.shown = sh, !.cursor = c]
    BY DEF PollFeed
  <2>3. w.shown = sh /\ w.cursor = c
    BY <2>2 DEF WalkRecords
  <2> HIDE DEF items, S, key
  <2> QED BY <2>1, <2>2, <2>3, <1>c DEF WalkRecords
<1> HIDE DEF items, S, key
<1>2. PhasesOK(w)
  BY <1>a, <1>b DEF PhasesOK
<1>3. EntriesOK(w)
  BY <1>a, <1>b, <1>k, <1>r DEF EntriesOK
<1>4. ~Contextual(w)
  BY <1>a DEF Contextual
<1>5. ListOK(w)
  BY <1>a, <1>b, <1>k DEF ListOK
<1>6. PassedOK(w)
  <2>1. ASSUME NEW m \in Steady(w), Passed(w, m) PROVE In(w.shown, m)
    <3>1. m \in S
      BY <1>a, <1>k DEF Steady, RowsOf, S
    <3>2. m \in items
      <4>1. CASE Cardinality(items) # FeedLimit
        BY <4>1, <1>h, <3>1
      <4>2. CASE Cardinality(items) = FeedLimit
        <5>1. ~Ahead(l, key, KeyOf(l, m))
          BY <4>2, <1>c, <2>1, <1>4, <1>a DEF Passed
        <5> QED BY <5>1, <4>2, <3>1, <1>d
      <4> QED BY <4>1, <4>2
    <3> QED BY <3>2, <1>r DEF In
  <2> QED BY <2>1, <1>a DEF PassedOK
<1>7. WalkOK(w)
  BY <1>2, <1>3, <1>4, <1>5, <1>6 DEF WalkOK
<1> QED BY <1>1, <1>7

LEMMA LosingIsOK ==
  ASSUME StoreOK, walk \in WalkRecords, WalkOK(walk), LosePage
  PROVE  walk' \in WalkRecords /\ WalkOK(walk')
<1> DEFINE l == walk.listing
<1>a. walk.phase \in {"media", "neighbours"}
  BY DEF LosePage
<1>b. l \in Listings /\ PassedOK(walk) /\ EntriesOK(walk)
      /\ IF Contextual(walk) THEN ContextOK(walk) ELSE ListOK(walk)
  BY <1>a DEF WalkOK, PhasesOK
<1>1. CASE walk.cursor = NoCursor
  <2>1. Shape(l) # "context"
    BY <1>a, <1>b, <1>1 DEF ContextOK, Contextual
  <2> QED BY <2>1, <1>b, <1>1, AskingIsOK DEF LosePage
<1>2. CASE walk.cursor # NoCursor
  <2> PICK w : w = walk'
    OBVIOUS
  <2>a. /\ w = [walk EXCEPT !.phase = "asking", !.page = {}, !.next = NoCursor]
        /\ w.phase = "asking" /\ w.page = {} /\ w.next = NoCursor
        /\ w.listing = l /\ w.at = walk.at /\ w.steady = walk.steady /\ w.start = walk.start
        /\ w.cursor = walk.cursor /\ w.shown = walk.shown /\ w.again = walk.again
    BY <1>2 DEF LosePage, WalkRecords
  <2>b. Contextual(w) <=> Contextual(walk)
    BY <2>a DEF Contextual
  <2>1. w \in WalkRecords
    BY <2>a DEF WalkRecords, WalkPhases, MaybeCursors
  <2>2. PhasesOK(w)
    BY <2>a, <1>b DEF PhasesOK
  <2>3. EntriesOK(w)
    BY <2>a, <1>b DEF EntriesOK
  <2>4. Contextual(walk) => ContextOK(w)
    BY <2>a, <1>a, <1>b, <1>2 DEF ContextOK
  <2>5. ~Contextual(walk) => ListOK(w)
    BY <2>a, <1>a, <1>b, <1>2 DEF ListOK, Continues
  <2>6. PassedOK(w)
    <3>1. \A p : Passed(w, p) => Passed(walk, p)
      BY <2>a, <2>b, <1>2 DEF Passed
    <3>2. Steady(w) = Steady(walk)
      BY <2>a DEF Steady
    <3> QED BY <3>1, <3>2, <2>a, <1>b DEF PassedOK
  <2>7. WalkOK(w)
    BY <2>2, <2>3, <2>4, <2>5, <2>6, <2>b DEF WalkOK
  <2> QED BY <2>1, <2>7
<1> QED BY <1>1, <1>2

-----------------------------------------------------------------------------
(* The archive is written.                                                 *)

LEMMA SameRows ==
  ASSUME rows' = rows, NEW w, WalkOK(w) PROVE WalkOK(w)'
<1>1. \A l, at : RowsOf(l, at)' = RowsOf(l, at)
  BY DEF RowsOf, ChannelRows, LatestRows, SearchRows, AdminRows, FeedRows, InChannels, Visible, Stored
<1>2. \A l, m : KeyOf(l, m)' = KeyOf(l, m)
  BY DEF KeyOf
<1>3. PassedOK(w) => PassedOK(w)'
  BY <1>1, <1>2 DEF PassedOK, Steady, Passed, In, Contextual
<1>4. EntriesOK(w) => EntriesOK(w)'
  BY DEF EntriesOK
<1>5. PhasesOK(w)' <=> PhasesOK(w)
  BY DEF PhasesOK
<1>6. (ContextOK(w)' <=> ContextOK(w)) /\ (ListOK(w)' <=> ListOK(w)) /\ (Contextual(w)' <=> Contextual(w))
  BY DEF ContextOK, ListOK, Contextual
<1> QED BY <1>3, <1>4, <1>5, <1>6 DEF WalkOK

LEMMA UnwrittenStay ==
  ASSUME NEW p, \A m \in Posts : m # p => rows'[m] = rows[m],
         NEW l, NEW at, NEW m \in Posts, m # p
  PROVE  /\ m \in RowsOf(l, at)' <=> m \in RowsOf(l, at)
         /\ KeyOf(l, m)' = KeyOf(l, m)
<1>1. rows'[m] = rows[m]
  OBVIOUS
<1>2. KeyOf(l, m)' = KeyOf(l, m)
  BY <1>1 DEF KeyOf
<1>3. (m \in Visible' <=> m \in Visible) /\ (m \in Stored' <=> m \in Stored)
  BY <1>1 DEF Visible, Stored
<1>4. m \in RowsOf(l, at)' <=> m \in RowsOf(l, at)
  BY <1>1, <1>3 DEF RowsOf, ChannelRows, LatestRows, SearchRows, AdminRows, FeedRows, InChannels
<1> QED BY <1>2, <1>4

LEMMA WalkIsPrimed == ASSUME NEW w, w = walk', WalkOK(w)' PROVE WalkOK(walk)'
BY DEF WalkOK, PhasesOK, EntriesOK, PassedOK, Steady, Passed, In, Contextual, ContextOK, ListOK, Continues,
       RowsOf, ChannelRows, LatestRows, SearchRows, AdminRows, FeedRows, InChannels, Visible, Stored, KeyOf

LEMMA OneIsWritten ==
  ASSUME walk \in WalkRecords, WalkOK(walk), NEW p, \A m \in Posts : m # p => rows'[m] = rows[m],
         walk' = [walk EXCEPT !.steady = @ \ {p}]
  PROVE  walk' \in WalkRecords /\ WalkOK(walk)'
<1> PICK v : v = walk
  OBVIOUS
<1> PICK w : w = walk'
  OBVIOUS
<1>a. /\ w.steady = v.steady \ {p} /\ w.phase = v.phase /\ w.listing = v.listing /\ w.at = v.at
      /\ w.start = v.start /\ w.cursor = v.cursor /\ w.shown = v.shown /\ w.page = v.page /\ w.next = v.next
      /\ w.again = v.again
  BY DEF WalkRecords
<1>b. w \in WalkRecords
  BY DEF WalkRecords
<1>c. WalkOK(v) /\ v \in WalkRecords
  OBVIOUS
<1>d. v.shown \in SUBSET PageEntries /\ v.page \in SUBSET PageEntries /\ v.steady \in SUBSET Posts
  BY <1>c, WalkFields
<1> PICK l : l = v.listing
  OBVIOUS
<1>1. PhasesOK(w)'
  BY <1>a, <1>c DEF WalkOK, PhasesOK
<1>2. Contextual(w)' <=> Contextual(v)
  BY <1>a DEF Contextual
<1>3. (ContextOK(v) => ContextOK(w)') /\ (ListOK(v) => ListOK(w)')
  BY <1>a DEF ContextOK, ListOK, Continues
<1>4. EntriesOK(w)'
  <2>1. EntriesOK(v)
    BY <1>c DEF WalkOK
  <2>2. ASSUME NEW e \in v.shown \union v.page, e.id \in w.steady PROVE e.revision = rows'[e.id].revision
    <3>1. e.id \in Posts /\ e.id # p /\ e.id \in v.steady
      BY <2>2, <1>a, <1>d
    <3> QED BY <3>1, <2>1 DEF EntriesOK
  <2> QED BY <2>1, <2>2, <1>a DEF EntriesOK
<1>5. ASSUME v.phase # "idle" PROVE PassedOK(w)'
  <2>1. PassedOK(v)
    BY <1>5, <1>c DEF WalkOK
  <2>2. ASSUME NEW m \in Steady(w)'
        PROVE  /\ m \in Steady(v) /\ KeyOf(l, m)' = KeyOf(l, m) /\ rows'[m] = rows[m]
    <3>1. m \in w.steady /\ m \in RowsOf(w.listing, w.at)'
      BY DEF Steady
    <3>2. m \in Posts /\ m # p /\ m \in v.steady
      BY <3>1, <1>a, <1>d
    <3>3. m \in RowsOf(w.listing, w.at)
      BY <3>1, <3>2, UnwrittenStay
    <3> QED BY <3>2, <3>3, <1>a, UnwrittenStay DEF Steady
  <2>3. \A m \in Steady(w)' : Passed(w, m)' => Passed(v, m)
    BY <2>2, <1>a, <1>2 DEF Passed
  <2>4. \A m \in Steady(w)' : \A S : In(S, m) => In(S, m)'
    BY <2>2 DEF In
  <2>5. ASSUME NEW m \in Steady(w)', Passed(w, m)' PROVE In(w.shown, m)'
    <3>1. In(v.shown, m)
      BY <2>1, <2>2, <2>3, <2>5 DEF PassedOK
    <3> QED BY <3>1, <2>4, <1>a
  <2>6. ASSUME w.phase = "media", ~Contextual(w)', NEW m \in Steady(w)',
               w.next = NoCursor \/ ~Ahead(l, w.next.key, KeyOf(l, m)')
        PROVE  In(w.shown \union w.page, m)'
    <3>1. In(v.shown \union v.page, m)
      BY <2>1, <2>2, <2>6, <1>a, <1>2 DEF PassedOK
    <3> QED BY <3>1, <2>4, <1>a
  <2> QED BY <2>5, <2>6, <1>a DEF PassedOK
<1>6. WalkOK(w)'
  BY <1>1, <1>2, <1>3, <1>4, <1>5, <1>a, <1>c DEF WalkOK
<1> QED BY <1>6, <1>b, WalkIsPrimed

-----------------------------------------------------------------------------
(* The invariant.                                                          *)

LEMMA WalkInvInit == ReadingInit => ReadingInv
<1> SUFFICES ASSUME ReadingInit PROVE ReadingInv
  OBVIOUS
<1>1. NotStored \in RowRecords /\ [NotStored EXCEPT !.revision = 1] \in RowRecords
  <2>1. 0 \in 0 .. MaxRevision /\ 1 \in 0 .. MaxRevision
    BY ReadingAssumption
  <2> QED BY <2>1 DEF NotStored, RowRecords
<1>2. rows \in [Posts -> RowRecords]
  BY <1>1 DEF ReadingInit
<1>3. tick \in Nat
  <2>1. 2 * TicksPerMs - 1 \in Nat
    BY ReadingAssumption
  <2> QED BY <2>1 DEF ReadingInit
<1>4. StoreOK
  BY <1>2, <1>3 DEF StoreOK, ReadingInit
<1> QED BY <1>4, NoWalkIsOK DEF ReadingInv, ReadingInit

LEMMA StoreStays == ASSUME StoreOK, walk \in WalkRecords, [ReadingNext]_readingVars PROVE StoreOK'
<1>0. rows \in [Posts -> RowRecords] /\ tick \in Nat /\ MaxRevision \in Nat
  BY ReadingAssumption DEF StoreOK
<1>1. ASSUME NEW m \in Posts, BeginIngest(m) PROVE StoreOK'
  <2>1. ingest' = [post |-> m, at |-> tick] /\ rows' = rows /\ tick' = tick /\ rows[m].revision < MaxRevision
    BY <1>1 DEF BeginIngest
  <2>2. ingest' \in [post : Posts, at : Nat] /\ ingest'.post = m
    BY <2>1, <1>0
  <2> QED BY <1>0, <2>1, <2>2 DEF StoreOK
<1>2. CASE CommitIngest
  <2> PICK p, at : p = ingest.post /\ at = ingest.at
    OBVIOUS
  <2>1. p \in Posts /\ at \in Nat /\ rows[p].revision < MaxRevision /\ rows[p] \in RowRecords
    BY <1>0, <1>2 DEF CommitIngest, StoreOK
  <2> PICK r : r = Ingested(rows[p], at)
    OBVIOUS
  <2>2. rows' = [rows EXCEPT ![p] = r] /\ ingest' = NoIngest /\ tick' = tick
    BY <1>2 DEF CommitIngest
  <2>3. r \in RowRecords
    <3>1. Truncated(at) \in Nat
      BY <2>1, TruncatedIsEarlier
    <3>2. CASE rows[p].revision = 0
      <4>1. 1 \in 0 .. MaxRevision
        BY ReadingAssumption
      <4>2. r = [revision |-> 1, createdAt |-> at, updatedAt |-> at, tombstoned |-> FALSE]
        BY <3>2 DEF Ingested
      <4> QED BY <4>1, <4>2, <2>1 DEF RowRecords
    <3>3. CASE rows[p].revision # 0
      <4> PICK q, n, t : q = rows[p] /\ n = rows[p].revision + 1 /\ t = Truncated(at)
        OBVIOUS
      <4>1. q \in RowRecords /\ t \in Nat
        BY <2>1, <3>1
      <4>2. n \in 0 .. MaxRevision
        BY <2>1, <1>0 DEF RowRecords
      <4>3. r = [q EXCEPT !.revision = n, !.updatedAt = t]
        BY <3>3 DEF Ingested
      <4> QED BY <4>1, <4>2, <4>3 DEF RowRecords
    <3> QED BY <3>2, <3>3
  <2>4. rows' \in [Posts -> RowRecords]
    BY <2>2, <2>3, <1>0
  <2> QED BY <2>2, <2>4, <1>0 DEF StoreOK
<1>3. CASE AbortIngest \/ Tick
  BY <1>3 DEF AbortIngest, Tick, StoreOK
<1>4. ASSUME NEW p \in Posts, NEW hidden \in BOOLEAN, SetVisibility(p, hidden) PROVE StoreOK'
  <2>1. /\ rows' = [rows EXCEPT ![p].tombstoned = hidden, ![p].updatedAt = tick]
        /\ ingest' = ingest /\ tick' = tick
    BY <1>4 DEF SetVisibility
  <2>2. rows' \in [Posts -> RowRecords] /\ \A m \in Posts : rows'[m].revision = rows[m].revision
    BY <2>1, <1>0 DEF RowRecords
  <2> QED BY <2>1, <2>2, <1>0 DEF StoreOK
<1>5. ASSUME NEW l \in Listings, AskList(l) \/ RefuseCursor(l) PROVE StoreOK'
  BY <1>5 DEF AskList, RefuseCursor, StoreOK
<1>6. ASSUME NEW l \in Listings, NEW m \in Posts, AskContext(l, m) PROVE StoreOK'
  BY <1>6 DEF AskContext, StoreOK
<1>7. ASSUME NEW l \in Listings, NEW limit \in PageLimits, SelectPage(l, limit) PROVE StoreOK'
  BY <1>7 DEF SelectPage, StoreOK
<1>8. CASE OpenContext \/ AttachMedia \/ LosePage \/ LeaveWalk
  BY <1>8 DEF OpenContext, AttachMedia, LosePage, LeaveWalk, StoreOK
<1>9. CASE SelectNeighbour \/ PollFeed
  <2>1. rows' = rows /\ ingest' = ingest /\ tick' = tick
    BY <1>9, Zenon DEF SelectNeighbour, PollFeed
  <2> QED BY <2>1 DEF StoreOK
<1>10. CASE UNCHANGED readingVars
  BY <1>10 DEF readingVars, StoreOK
<1> QED BY <1>1, <1>2, <1>3, <1>4, <1>5, <1>6, <1>7, <1>8, <1>9, <1>10 DEF ReadingNext

LEMMA WalkStays ==
  ASSUME ReadingInv, [ReadingNext]_readingVars PROVE walk' \in WalkRecords /\ WalkOK(walk)'
<1>0. StoreOK /\ walk \in WalkRecords /\ WalkOK(walk)
  BY DEF ReadingInv
<1>1. ASSUME rows' = rows, walk' \in WalkRecords /\ WalkOK(walk') PROVE walk' \in WalkRecords /\ WalkOK(walk)'
  <2> PICK w : w = walk'
    OBVIOUS
  <2>1. WalkOK(w)
    BY <1>1
  <2>2. WalkOK(w)'
    BY <1>1, <2>1, SameRows
  <2> QED BY <1>1, <2>2, WalkIsPrimed
<1>2. ASSUME rows' = rows, walk' = walk PROVE walk' \in WalkRecords /\ WalkOK(walk)'
  BY <1>0, <1>1, <1>2
<1>3. ASSUME NEW m \in Posts, BeginIngest(m) PROVE walk' \in WalkRecords /\ WalkOK(walk)'
  BY <1>2, <1>3 DEF BeginIngest
<1>4. CASE AbortIngest \/ Tick \/ UNCHANGED readingVars
  BY <1>2, <1>4 DEF AbortIngest, Tick, readingVars
<1>5. CASE CommitIngest
  <2> PICK p : p = ingest.post
    OBVIOUS
  <2>1. walk' = [walk EXCEPT !.steady = @ \ {p}] /\ rows' = [rows EXCEPT ![p] = Ingested(@, ingest.at)]
    BY <1>5 DEF CommitIngest
  <2>2. \A m \in Posts : m # p => rows'[m] = rows[m]
    BY <2>1, <1>0 DEF StoreOK
  <2> QED BY <2>1, <2>2, <1>0, OneIsWritten
<1>6. ASSUME NEW p \in Posts, NEW hidden \in BOOLEAN, SetVisibility(p, hidden)
      PROVE  walk' \in WalkRecords /\ WalkOK(walk)'
  <2>1. /\ walk' = [walk EXCEPT !.steady = @ \ {p}]
        /\ rows' = [rows EXCEPT ![p].tombstoned = hidden, ![p].updatedAt = tick]
    BY <1>6 DEF SetVisibility
  <2>2. \A m \in Posts : m # p => rows'[m] = rows[m]
    BY <2>1, <1>0 DEF StoreOK
  <2> QED BY <2>1, <2>2, <1>0, OneIsWritten
<1>7. ASSUME NEW l \in Listings, AskList(l) \/ RefuseCursor(l) PROVE walk' \in WalkRecords /\ WalkOK(walk)'
  <2>1. rows' = rows /\ walk' = Asking(l, NoCursor) /\ Shape(l) # "context"
    BY <1>7 DEF AskList, RefuseCursor
  <2> QED BY <2>1, <1>0, <1>1, AskingIsOK
<1>8. ASSUME NEW l \in Listings, NEW m \in Posts, AskContext(l, m) PROVE walk' \in WalkRecords /\ WalkOK(walk)'
  <2> PICK c : c = NextCursor(l, KeyOf(l, m), 0)
    OBVIOUS
  <2>1. rows' = rows /\ walk' = Asking(l, c) /\ Shape(l) = "context"
    BY <1>8 DEF AskContext
  <2>2. Asking(l, c) \in WalkRecords /\ WalkOK(Asking(l, c))
    BY <2>1, <1>0, AskingContextIsOK
  <2> QED BY <2>1, <2>2, <1>1
<1>9. ASSUME NEW l \in Listings, NEW limit \in PageLimits, SelectPage(l, limit)
      PROVE  walk' \in WalkRecords /\ WalkOK(walk)'
  <2>1. rows' = rows
    BY <1>9, Zenon DEF SelectPage
  <2> QED BY <2>1, <1>9, <1>0, <1>1, PageIsOK
<1>10. CASE OpenContext
  <2>1. rows' = rows
    BY <1>10 DEF OpenContext
  <2> QED BY <2>1, <1>10, <1>0, <1>1, OpeningIsOK
<1>11. CASE AttachMedia
  <2>1. rows' = rows
    BY <1>11 DEF AttachMedia
  <2> QED BY <2>1, <1>11, <1>0, <1>1, AttachingIsOK
<1>12. CASE SelectNeighbour
  <2>1. rows' = rows
    BY <1>12, Zenon DEF SelectNeighbour
  <2> QED BY <2>1, <1>12, <1>0, <1>1, NeighbourIsOK
<1>13. CASE PollFeed
  <2>1. rows' = rows
    BY <1>13, Zenon DEF PollFeed
  <2> QED BY <2>1, <1>13, <1>0, <1>1, FeedIsOK
<1>14. CASE LosePage
  <2>1. rows' = rows
    BY <1>14 DEF LosePage
  <2> QED BY <2>1, <1>14, <1>0, <1>1, LosingIsOK
<1>15. CASE LeaveWalk
  <2>1. rows' = rows /\ walk' = NotReading
    BY <1>15 DEF LeaveWalk
  <2> QED BY <2>1, <1>1, NoWalkIsOK
<1> QED BY <1>3, <1>4, <1>5, <1>6, <1>7, <1>8, <1>9, <1>10, <1>11, <1>12, <1>13, <1>14, <1>15 DEF ReadingNext

LEMMA WalkInvNext == ReadingInv /\ [ReadingNext]_readingVars => ReadingInv'
BY StoreStays, WalkStays DEF ReadingInv

LEMMA WalkInvImplies == ReadingInv => WalksAreSound
<1> SUFFICES ASSUME ReadingInv PROVE WalksAreSound
  OBVIOUS
<1>1. WalkOK(walk) /\ EntriesOK(walk) /\ PhasesOK(walk)
  BY DEF ReadingInv, WalkOK
<1>2. NothingIsPassedOver
  <2>1. \A m : Reached(m) <=> Passed(walk, m)
    BY DEF Reached, Passed, Contextual
  <2>2. walk.phase # "idle" => PassedOK(walk)
    BY <1>1 DEF WalkOK
  <2> QED BY <2>1, <2>2 DEF NothingIsPassedOver, PassedOK, Steady, In
<1>3. NothingComesAgain
  BY <1>1 DEF NothingComesAgain, EntriesOK
<1>4. NothingNewer
  BY <1>1 DEF NothingNewer, EntriesOK
<1>5. MediaBelong
  BY <1>1 DEF MediaBelong, EntriesOK
<1> QED BY <1>2, <1>3, <1>4, <1>5 DEF WalksAreSound

\* A reader who follows the cursors of a listing (listMessages, listLatestMessages,
\* searchMessages, getMessageContext, getFeed) has been shown every message that matched all
\* the time and lies before the place reached, none twice in a place, none of a search that
\* began later, and each with the media of its revision, for any messages, listings and page
\* sizes and any number of writes meanwhile.
THEOREM WalksHold == ReadingSpec => []WalksAreSound
<1>1. ReadingInit => ReadingInv
  BY WalkInvInit
<1>2. ReadingInv /\ [ReadingNext]_readingVars => ReadingInv'
  BY WalkInvNext
<1>3. ReadingInv => WalksAreSound
  BY WalkInvImplies
<1> QED BY <1>1, <1>2, <1>3, PTL DEF ReadingSpec
=============================================================================
