------------------------ MODULE TelegramIntakeProps -------------------------
(***************************************************************************)
(* What the intake promises, stated over the states and steps of           *)
(* TelegramIntake.                                                         *)
(***************************************************************************)
EXTENDS TelegramIntake

\* Passed by the stored cursor: recorded as a task or deliberately ignored.
Recorded(u) == task[u] # "none" \/ u \in ignored

(* An update Telegram no longer holds is in the task table, was ignored by a *)
(* committed checkpoint, fell to Telegram's retention before anybody         *)
(* confirmed it, or never was: a request's offset never confirms what is not *)
(* yet durable (checkpointBatch before this.offset, polling.ts run).         *)
NothingConfirmedIsLost ==
    \A u \in Updates : u < oldest => Recorded(u) \/ u \in Missing

(* A channel's updates are applied in update order: a task is processed only *)
(* when no earlier task of its channel is still pending or blocked, and none *)
(* with an earlier id can appear later (processOne's not-exists subquery     *)
(* together with the cursor comparison of checkpointBatch).                  *)
ChannelOrder ==
    \A v \in Updates : task[v] \in {"processed", "skipped"} =>
        \A u \in EarlierInChannel(v) : ~Live(u)

(* The receipts account for the task table: the kept count of a receipt is   *)
(* the number of tasks in its range, ranges do not overlap, and each receipt *)
(* but the first was asked for at the checkpoint of another.                 *)
ReceiptsAddUp ==
    /\ \A r \in receipts :
        /\ r.accepted = Cardinality({u \in r.first .. r.last : task[u] # "none"})
        /\ r.next = r.last + 1 /\ r.next <= cursor
        /\ r.requested \notin FirstCursors => \E q \in receipts : q.next = r.requested
    /\ \A r, q \in receipts : r # q => r.last < q.first \/ q.last < r.first

(* A jump from the requested to the returned id is the only sign a loss      *)
(* leaves (transport_id_discontinuity), and a weak one: ids may jump without *)
(* a loss. No loss hides (an update the cursor passed unrecorded lies in a   *)
(* jump, or before the first request of all), and the intake makes no jump   *)
(* of its own (what lies in one was gone before it was asked for or never    *)
(* was, and is never recorded late, past its channel's later updates).       *)
InJump(u) == \E r \in receipts : r.requested # 0 /\ u \in r.requested .. r.first - 1
BeforeAnyRequest(u) == \E r \in receipts : r.requested = 0 /\ u < r.first
LossesShowAsJumps ==
    /\ \A u \in Updates : InJump(u) => u \in Missing /\ ~Recorded(u)
    /\ \A u \in Updates \ absent : u < cursor /\ ~Recorded(u) => InJump(u) \/ BeforeAnyRequest(u)

(* Two loops never hold the same task, nor two tasks of one channel.         *)
OneClaimPerChannel ==
    \A w, x \in Workers :
        w # x /\ claim[w] # 0 /\ claim[x] # 0 => ChannelOf[claim[w]] # ChannelOf[claim[x]]

(* A channel blocked by a failing task stays where it is until the           *)
(* administrator acts: while a task is blocked no step gives a later task of *)
(* its channel another outcome.                                              *)
BlockedHoldsTheChannel ==
    [][\A u, v \in Updates :
        task[u] = "blocked" /\ task'[u] = "blocked" /\ u \in EarlierInChannel(v)
            => task'[v] = task[v] \/ task[v] = "none"]_vars

(* The intake implements OrderedInbox: whatever processes, locks, lost       *)
(* sessions and retries do, each update gets one fate, once, and the         *)
(* accepted updates of a channel are applied or skipped in order.            *)
FateOf(u) ==
    LET taken == [pending |-> "waiting", blocked |-> "waiting", processed |-> "applied",
                  skipped |-> "skipped"] IN
    IF task[u] # "none" THEN taken[task[u]]
    ELSE IF u \in ignored THEN "ignored"
    ELSE IF u < cursor THEN "lost" ELSE "unseen"

Promise == INSTANCE OrderedInbox WITH
    frontier <- IF cursor = 0 THEN 1 ELSE cursor,
    fate <- [u \in Updates |-> FateOf(u)],
    gone <- Missing

ImplementsOrderedInbox == Promise!Spec

(* A published update is eventually recorded, unless Telegram expires it.    *)
EveryUpdateIsRecorded ==
    \A u \in Updates : u <= published ~> Recorded(u) \/ u \in Missing

(* A pending task eventually gets an outcome, or an earlier task of its      *)
(* channel stands blocked before it.                                         *)
EveryTaskIsDecided ==
    \A u \in Updates : task[u] = "pending" ~>
        task[u] # "pending" \/ \E v \in EarlierInChannel(u) : task[v] = "blocked"
=============================================================================
