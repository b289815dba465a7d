-------------------------- MODULE ApprovalContract --------------------------
(***************************************************************************)
(* What exec approvals promise.  A call that needs an approval gets one    *)
(* verdict: a decision of an approver, or that it timed out or failed.  An *)
(* approver is told that a decision was applied when it became the         *)
(* verdict, and never else.  A command is run once, when it is free, its   *)
(* call was allowed or may fall back, or its pattern was allowed always.   *)
(***************************************************************************)
EXTENDS Naturals

CONSTANTS Calls, Clicks,
          Free,          \* the calls that need no approval
          FallsBack,     \* the calls that run when their approval times out
          CommandOf, CallOf, DecisionOf

Allows    == {"allow-once", "allow-always"}
Decisions == Allows \cup {"deny"}
Verdicts  == Decisions \cup {"timeout", "error"}

VARIABLES
    verdict,     \* of a call, or "open"
    ran,         \* the calls whose command was started
    confirmed    \* the clicks an approver was told were applied

vars == <<verdict, ran, confirmed>>

Init ==
    /\ verdict = [c \in Calls |-> "open"]
    /\ ran = {}
    /\ confirmed = {}

\* An approver decides and learns so.
Decide(k) ==
    /\ verdict[CallOf[k]] = "open"
    /\ verdict' = [verdict EXCEPT ![CallOf[k]] = DecisionOf[k]]
    /\ confirmed' = confirmed \cup {k}
    /\ UNCHANGED ran

\* Nobody decides in time, the prompt cannot be shown, or the call is aborted.
GiveUp(c) ==
    /\ verdict[c] = "open"
    /\ \E why \in {"timeout", "error"} : verdict' = [verdict EXCEPT ![c] = why]
    /\ UNCHANGED <<ran, confirmed>>

Permitted(c) ==
    \/ c \in Free
    \/ verdict[c] \in Allows
    \/ verdict[c] = "timeout" /\ c \in FallsBack
    \/ \E d \in Calls : CommandOf[d] = CommandOf[c] /\ verdict[d] = "allow-always"

Run(c) ==
    /\ c \notin ran /\ Permitted(c)
    /\ ran' = ran \cup {c}
    /\ UNCHANGED <<verdict, confirmed>>

Next == (\E k \in Clicks : Decide(k)) \/ (\E c \in Calls : GiveUp(c) \/ Run(c))

Spec == Init /\ [][Next]_vars

\* What follows from it: one approver at most decides a call, and its decision is
\* the verdict; and what ran is permitted for ever after.
Truthful ==
    \A k \in confirmed :
        /\ verdict[CallOf[k]] = DecisionOf[k]
        /\ \A other \in confirmed : CallOf[other] = CallOf[k] => other = k

RanPermitted == \A c \in ran : Permitted(c)

TypeOK ==
    /\ verdict \in [Calls -> {"open"} \cup Verdicts]
    /\ ran \in SUBSET Calls
    /\ confirmed \in SUBSET Clicks
=============================================================================
