------------------------------ MODULE MCQueue ------------------------------
(***************************************************************************)
(* Small instances of SessionQueue.                                        *)
(***************************************************************************)
EXTENDS SessionQueue, TLC

CONSTANTS i1, i2, i3, s1, s2

\* All items in one session.
OneSession == [i \in Items |-> s1]

\* Two collect calls of one millisecond, and an interrupt in their session.
CollectAndStop == [i \in Items |-> IF i = i3 THEN "interrupt" ELSE "collect"]
OneBatch       == [i \in Items |-> IF i = i3 THEN None ELSE 1]

\* The two collect calls may change their parts.
Alike == Permutations({i1, i2})

\* Two collect calls in one session, each with a batch of its own, and a steer in
\* another session.
TwoSessions   == [i \in Items |-> IF i = i3 THEN s2 ELSE s1]
CollectOrPost == [i \in Items |-> IF i = i3 THEN "steer" ELSE "collect"]
TwoBatches    == [i \in Items |-> IF i = i1 THEN 1 ELSE IF i = i2 THEN 2 ELSE None]

\* Two of these are called, the others no more: both collect calls, or one of them,
\* the steer and a chat run.
FewInit ==
    /\ Started
    /\ \/ /\ call = [i \in Items |-> IF i = i3 THEN "done" ELSE "none"]
          /\ chat = [s \in Sessions |-> "over"]
       \/ /\ call = [i \in Items |-> IF i = i2 THEN "done" ELSE "none"]
          /\ chat = [s \in Sessions |-> "none"]

FewSpec == FewInit /\ [][Next]_vars /\ Fairness /\ AgentsEnd
=============================================================================
