-------------------------- MODULE MCTelegramIntake --------------------------
(* Instances of TelegramIntake for TLC.                                     *)
EXTENDS TelegramIntakeProps, TLC

CONSTANTS c1, c2, p1, p2, w1, w2

\* The updates of one channel, or a channel for each.
TwoChannels == {c1, c2}
Apart == [u \in Updates |-> IF u = 1 THEN c1 ELSE c2]
OneChannel == {c1}
Together == [u \in Updates |-> c1]

\* One process with two loops, or two processes with one loop each.
OneProcess == [w \in Workers |-> p1]
EachProcess == [w \in Workers |-> IF w = w1 THEN p1 ELSE p2]
=============================================================================
