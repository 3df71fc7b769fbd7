-------------------------- MODULE MCMessageArchive --------------------------
EXTENDS MessageArchiveProps, TLC

CONSTANTS f1, r1, r2

\* Message 1 is edited twice in one second, message 2 once.
Times == [m \in Messages |-> [v \in Versions |-> IF v = 0 THEN 0 ELSE IF m = 1 THEN 1 ELSE v]]
\* Message 1 is edited as often as the bound allows, the others never.
FirstEdited == [m \in Messages |-> IF m = 1 THEN MaxVersion ELSE 0]
\* Two edits in different seconds.
SlowTimes == [m \in Messages |-> [v \in Versions |-> v]]

RunSymmetry == Permutations({r1, r2})
=============================================================================
