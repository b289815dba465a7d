---------------------------- MODULE MCHeartbeat ----------------------------
(***************************************************************************)
(* Small instances of Heartbeat.                                           *)
(***************************************************************************)
EXTENDS Heartbeat

CONSTANTS e1, e2, s1, s2, l1, l2

\* Two completions of one session, or one each of two.
SameSession == [e \in Events |-> s1]
OwnSession  == [e \in Events |-> IF e = e1 THEN s1 ELSE s2]
=============================================================================
