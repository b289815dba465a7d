----------------------------- MODULE MCOutbound -----------------------------
(***************************************************************************)
(* Small instances of OutboundDelivery.                                    *)
(***************************************************************************)
EXTENDS OutboundInvariant

CONSTANTS p1, p2, d1, d2, x1, k1, s1

\* One durable call and one direct call under the same key, in two processes.
SameKey     == [c \in Callers |-> k1]
OneSession  == [j \in Jobs |-> s1]
DirectInP2  == [c \in Callers |-> IF c = x1 /\ p2 \in Procs THEN p2 ELSE p1]
=============================================================================
