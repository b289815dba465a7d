--------------------------- MODULE ProcessRegistry ---------------------------
(***************************************************************************)
(* The commands a process has started (process-registry.ts): the map of    *)
(* those that run, the map of those that are over, and the children        *)
(* themselves.  ExecApproval starts the commands and takes the exits.      *)
(*                                                                         *)
(* A child is a shell; it is "dead" when the shell is gone, and "closed"   *)
(* when its pipes are closed too, which what it started may delay.  A      *)
(* "boxed" command runs in a container, and has no child to signal.        *)
(***************************************************************************)
EXTENDS Naturals, FiniteSets, Sequences, SequencesExt

CONSTANTS Calls,            \* calls of the exec tool
          MaxRunning,       \* tools.exec.maxRunning
          MaxFinished       \* tools.exec.maxFinished

ASSUME RegistryAssumption ==
    /\ IsFiniteSet(Calls)
    /\ MaxRunning \in Nat \ {0} /\ MaxFinished \in Nat \ {0}

VARIABLES
    child,       \* the child of a call
    exited,      \* the calls whose ProcessSession is marked as exited
    background,  \* the calls whose ProcessSession is marked as backgrounded
    running,     \* runningSessions
    finished,    \* finishedSessions, by endedAt
    nets         \* the calls with a SIGKILL to come from killSession (which does
                 \* nothing, and is dropped here, when the exit is marked first)

registry == <<child, exited, background, running, finished, nets>>

Alive == {"alive", "dead", "boxed"}      \* the end is still to come

RegistryTypeOK ==
    /\ child \in [Calls -> {"none", "closed"} \cup Alive]
    /\ exited \in SUBSET Calls
    /\ background \in SUBSET Calls
    /\ running \in SUBSET Calls /\ Cardinality(running) <= MaxRunning
    /\ finished \in Seq(Calls) /\ Len(finished) <= MaxFinished
    /\ IsInjective(finished)
    /\ nets \in SUBSET Calls

RegistryInit ==
    /\ child = [c \in Calls |-> "none"]
    /\ exited = {}
    /\ background = {}
    /\ running = {}
    /\ finished = <<>>
    /\ nets = {}

----------------------------------------------------------------------------
\* addSession, and the start of the command, on the host ("alive") or in a
\* container ("boxed").  startedAt is set before the awaits of the call, so that
\* whichever of the running may be the oldest.
AddSession(c, as) ==
    /\ child' = [child EXCEPT ![c] = as]
    /\ IF Cardinality(running) < MaxRunning
       THEN running' = running \cup {c}
       ELSE \E oldest \in running : running' = (running \ {oldest}) \cup {c}

\* addSession by a call that is not one of Calls.
Evict(c) ==
    /\ c \in running
    /\ running' = running \ {c}
    /\ UNCHANGED <<child, exited, background, finished, nets>>

\* moveToFinished: the end of a command in the background is kept, the oldest
\* makes room.
MovedToFinished(c) ==
    LET room == IF Len(finished) >= MaxFinished THEN Tail(finished) ELSE finished
    IN IF c \in background THEN Append(Remove(room, c), c) ELSE finished

\* markExited, also a second time.
MarkExited(c) ==
    /\ exited' = exited \cup {c}
    /\ running' = running \ {c}
    /\ finished' = MovedToFinished(c)
    /\ nets' = nets \ {c}
    /\ UNCHANGED background

\* killSession: SIGTERM now, which the shell may ignore, and a net in 3 s.
KillSession(c) ==
    /\ c \in running \ exited
    /\ nets' = nets \cup {c}
    /\ UNCHANGED <<child, exited, background, running, finished>>

\* The net: SIGKILL, and the exit is marked before it is known.
NetKills(c) ==
    /\ c \in nets \ exited
    /\ child' = [child EXCEPT ![c] = IF @ = "alive" THEN "dead" ELSE @]
    /\ MarkExited(c)

\* The shell ends: by itself, by a signal, or by the timeout of the call.
Dies(c) ==
    /\ child[c] = "alive"
    /\ child' = [child EXCEPT ![c] = "dead"]
    /\ UNCHANGED <<exited, background, running, finished, nets>>

\* clearFinished, deleteSession of what is over, and the sweeper, which takes
\* the oldest first.
Clear(c) ==
    /\ Contains(finished, c)
    /\ finished' = Remove(finished, c)
    /\ UNCHANGED <<child, exited, background, running, nets>>

\* A new process knows of no session; the children are detached and live on.
Forget ==
    /\ exited' = {} /\ background' = {} /\ running' = {} /\ finished' = <<>> /\ nets' = {}
    /\ UNCHANGED child
=============================================================================
