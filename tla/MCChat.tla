------------------------------- MODULE MCChat -------------------------------
(***************************************************************************)
(* An instance of ChatRuns.  The sends m and m2 are a message and its      *)
(* retry, from another connection.                                         *)
(***************************************************************************)
EXTENDS ChatRuns

CONSTANTS here, back, m, m2, item, power, chat

MCIdOf      == [w \in Works |-> IF w = m2 THEN m ELSE w]
MCSessionOf == [w \in Works |-> chat]
MCClientOf  == [s \in Sends |-> IF s = m THEN here ELSE back]
=============================================================================
