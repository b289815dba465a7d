------------------------------ MODULE MCSlack -------------------------------
(***************************************************************************)
(* A small instance of SlackQueue: four messages in one session and one in *)
(* another, room for one run, and two places in a queue.                   *)
(***************************************************************************)
EXTENDS SlackQueue

CONSTANTS m1, m2, m3, m4, m5, s1, s2

InSessions == [m \in Messages |-> IF m = m5 THEN s2 ELSE s1]
OneEach    == [s \in Sessions |-> IF s = s1 THEN "followup" ELSE "steer-backlog"]

\* Messages of one session may change their parts.
Alike == Permutations({m1, m2, m3, m4})
=============================================================================
