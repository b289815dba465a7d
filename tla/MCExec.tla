------------------------------- MODULE MCExec -------------------------------
(***************************************************************************)
(* An instance of ExecApproval.  The calls b and b2 of the agent and the   *)
(* request r of the gateway are about one command; b2 is also the name of  *)
(* the call the approved tool makes when b's command is obfuscated.        *)
(***************************************************************************)
EXTENDS ExecApproval

CONSTANTS b, b2, r, cmd, always, once, deny

MCCommandOf == [c \in Calls |-> cmd]
MCTraitsOf  == [c \in Calls |-> IF c = b THEN Traits ELSE {"plain", "untrusted"}]
MCAgainOf   == [c \in Calls |-> IF c = b THEN b2 ELSE None]
MCCallOf    == [k \in Clicks |-> IF k = always THEN b ELSE r]
MCDecisionOf ==
    [k \in Clicks |-> IF k = always THEN "allow-always"
                      ELSE IF k = once THEN "allow-once" ELSE "deny"]
=============================================================================
