--------------------------- MODULE GatewayRuntime ---------------------------
(***************************************************************************)
(* runtime.ts, the memory of the gateway: its connections with what they   *)
(* are subscribed to, and its agent runs under their ids, each with a      *)
(* timer that forgets it.                                                  *)
(*                                                                         *)
(* A module of state and of operators on it.  The modules that EXTEND it   *)
(* say when they are called: server.ts, subscriptions.ts, chat.ts and      *)
(* powers.ts in ChatRuns.                                                  *)
(***************************************************************************)
EXTENDS Naturals, FiniteSets

CONSTANTS Clients,       \* connections: a client that comes back is another one
          Sessions,
          Works,         \* what a run is created for
          Ids, IdOf,     \* the id of its run
          SessionOf,     \* and its session
          None

ASSUME RuntimeAssumption ==
    /\ IdOf \in [Works -> Ids]
    /\ SessionOf \in [Works -> Sessions]
    /\ None \notin Works

VARIABLES
    conn,    \* "new", "open", "closing" (readyState is not 1), "gone"
    subs,    \* sessionSubscriptions
    run,     \* the AgentRun of a work
    runs,    \* the map: whose run is found under an id
    timer    \* the works whose run has its cleanup timer still to fire

Status == {"none", "pending", "running", "completed", "error", "cancelled"}

RuntimeTypeOK ==
    /\ conn \in [Clients -> {"new", "open", "closing", "gone"}]
    /\ subs \in [Clients -> SUBSET Sessions]
    /\ run \in [Works -> [status : Status, aborted : BOOLEAN]]
    /\ runs \in [Ids -> Works \cup {None}]
    /\ timer \in SUBSET Works

RuntimeInit ==
    /\ conn = [c \in Clients |-> "new"]
    /\ subs = [c \in Clients |-> {}]
    /\ run = [w \in Works |-> [status |-> "none", aborted |-> FALSE]]
    /\ runs = [i \in Ids |-> None]
    /\ timer = {}

----------------------------------------------------------------------------
\* Clients

Known == {c \in Clients : conn[c] \in {"open", "closing"}}   \* the map clients

\* Mutated form of OtherSubscribers: the client that leaves is counted, too.
MutOtherSubscribers(c, s) == {d \in Clients : conn[d] \in {"open", "closing"} /\ s \in subs[d]}

\* hasOtherSessionSubscribers.
OtherSubscribers(c, s) == {d \in Clients \ {c} : conn[d] = "open" /\ s \in subs[d]}

\* unsubscribe from the last event: the sessions go as well.
Unsubscribed(c) == [subs EXCEPT ![c] = {}]

\* subscribe: nothing happens for a client that is not in the map.
Subscribed(c, s) == IF c \in Known THEN [subs EXCEPT ![c] = @ \cup {s}] ELSE subs

----------------------------------------------------------------------------
\* Runs

Latest(w)  == runs[IdOf[w]]                       \* getRun
Live(v)    == run[v].status \in {"pending", "running"}
Active(w)  == Latest(w) = w /\ Live(w)
RunsOf(s)  == {w \in Works : Latest(w) = w /\ SessionOf[w] = s}   \* getRunsBySession

CreateRun(w) ==
    /\ run' = [run EXCEPT ![w] = [status |-> "pending", aborted |-> FALSE]]
    /\ runs' = [runs EXCEPT ![IdOf[w]] = w]
    /\ timer' = timer \cup {w}

\* updateRun: of whatever run the id stands for, and of none when it is forgotten.
Updated(w, st) ==
    IF Latest(w) = None THEN run ELSE [run EXCEPT ![Latest(w)].status = st]

\* Mutated form of Cancelled: a run that is over is cancelled as well.
MutCancelled(W) ==
    [w \in Works |-> IF w \in W THEN [status |-> "cancelled", aborted |-> TRUE] ELSE run[w]]

\* cancelRun and cancelRunsForSession.
Cancelled(W) ==
    [w \in Works |-> IF w \in W /\ Active(w)
                     THEN [status |-> "cancelled", aborted |-> TRUE] ELSE run[w]]

\* The timer of createRun, after ten minutes: by id, whoever is found there.
Forget(w) ==
    /\ timer' = timer \ {w}
    /\ runs' = [runs EXCEPT ![IdOf[w]] = None]
=============================================================================
