------------------------ MODULE MessageArchiveProps ------------------------
(***************************************************************************)
(* What the archive must keep true (module MessageArchive).                *)
(***************************************************************************)
EXTENDS MessageArchive

\* Once every Bot update of a message has been applied and none was lost, the archive shows
\* the version Telegram shows, whichever exports were imported before, between or after the
\* updates, old or new, also when several edits fall in one second
\* (ingestSnapshotInTransaction of messages/repository.ts).
ArchiveCatchesUp ==
    \A m \in Messages :
        posted[m] >= 0 /\ pending[m] = {} /\ lost[m] = {} =>
            revisions[m] # <<>> /\ Current(m).version = posted[m]

\* A run that declares its range complete, or is completed, is linked to an observation without
\* conflict of every message of its file, in spite of interrupted runs, lost locks, unreadable
\* messages and earlier imports of the same messages: the reconciliation scan takes a message
\* without link in a covered range for absent (reconciliation/repository.ts:502-580).
CompletedRunsAreComplete ==
    \A r \in Runs : r \in covered \/ row[r] = "completed" =>
        \A m \in Contents(import[r].file) :
            /\ <<r, m>> \in links
            /\ \E o \in Earlier(m, Snapshot(r, m)) : o.resolution # "conflict"

\* docs/goals/G2.1 (6, consistency): the current revision is decided by logical time; at the
\* latest when no update of the message is pending, no older revision hides a newer one.
CurrentIsNewest ==
    \A m \in Messages : pending[m] = {} => \A i \in DOMAIN revisions[m] :
        EditTime[m][revisions[m][i].version] <= CurrentTime(m)
=============================================================================
