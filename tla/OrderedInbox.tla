---------------------------- MODULE OrderedInbox ----------------------------
(***************************************************************************)
(* What the intake of Telegram updates promises to the message archive,    *)
(* without processes, locks or retries: updates are taken up in id order,  *)
(* each is given one fate, and the accepted ones of a channel are applied  *)
(* (or skipped by the administrator) in id order. An id may be passed over *)
(* (fate "lost") only when Telegram gave it up before it was taken, or     *)
(* never gave it to an update.                                             *)
(***************************************************************************)
EXTENDS Integers

CONSTANTS
    MaxUpdate,     \* update ids are 1 .. MaxUpdate
    ChannelOf      \* the channel of each update

Updates == 1 .. MaxUpdate
Fates == {"unseen", "waiting", "ignored", "lost", "applied", "skipped"}

VARIABLES
    frontier,      \* the first update not taken yet
    fate,          \* of each update
    gone           \* ids Telegram gave up or left out

vars == <<frontier, fate, gone>>

TypeOK ==
    /\ frontier \in 1 .. MaxUpdate + 1
    /\ fate \in [Updates -> Fates]
    /\ gone \in SUBSET Updates

Init ==
    /\ frontier = 1
    /\ fate = [u \in Updates |-> "unseen"]
    /\ gone = {}

GiveUp(ids) ==
    /\ gone' = gone \union ids
    /\ UNCHANGED <<frontier, fate>>

\* All updates up to the new frontier are decided in one step.
Take(next, waiting, ignored) ==
    /\ frontier < next
    /\ waiting \union ignored \subseteq frontier .. next - 1
    /\ waiting \intersect ignored = {}
    /\ (frontier .. next - 1) \ (waiting \union ignored) \subseteq gone
    /\ frontier' = next
    /\ fate' = [u \in Updates |-> IF u \notin frontier .. next - 1 THEN fate[u]
                                   ELSE IF u \in waiting THEN "waiting"
                                   ELSE IF u \in ignored THEN "ignored" ELSE "lost"]
    /\ UNCHANGED gone

FirstWaiting(u) ==
    /\ fate[u] = "waiting"
    /\ \A v \in Updates : v < u /\ ChannelOf[v] = ChannelOf[u] => fate[v] # "waiting"

Decide(u, outcome) ==
    /\ FirstWaiting(u)
    /\ fate' = [fate EXCEPT ![u] = outcome]
    /\ UNCHANGED <<frontier, gone>>

Next ==
    \/ \E ids \in SUBSET Updates : GiveUp(ids)
    \/ \E u \in Updates, o \in {"applied", "skipped"} : Decide(u, o)
    \/ \E next \in 2 .. MaxUpdate + 1 : \E waiting, ignored \in SUBSET (frontier .. next - 1) :
            Take(next, waiting, ignored)

Spec == Init /\ [][Next]_vars
=============================================================================
