---------------------------- MODULE MCSubagents ----------------------------
(***************************************************************************)
(* Instances of SubagentRegistry.  The user's session s spawns a; the agent *)
(* of a spawns b; the steering of a starts c in the session of a.           *)
(***************************************************************************)
EXTENDS SubagentRegistry

CONSTANTS a, b, c, s, sa, sb

MCParentOf      == [r \in Runs |-> IF r = b THEN sa ELSE s]
MCChildOf       == [r \in Runs |-> IF r = b THEN sb ELSE sa]
MCReplacementOf == [r \in Runs |-> IF r = c THEN a ELSE None]

=============================================================================
