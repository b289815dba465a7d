--------------------------- MODULE ChatRunsProofs ---------------------------
(***************************************************************************)
(* Proofs about ChatRuns, for any number of clients, sends, items and      *)
(* powers.  There are two invariants.  The type invariant of the module is *)
(* one.  Books is about one work at a time and relates the map of runs,   *)
(* the cache and the place of the work's handler:                          *)
(*                                                                         *)
(* - a key whose entry is gone has lapsed under every send that used it    *)
(*   (Keyed), so that a handler and another send of its key mean that the  *)
(*   latter's key has lapsed (Alone), and a handler finds its own run in   *)
(*   the map as long as nothing was forgotten (Found, Mapped);             *)
(* - the signal and the status of a run agree, but for an abort before the *)
(*   run is marked as running (Signalled, Unbegun, Noticed, Prompted), so  *)
(*   that the end of a handler tells what happened (Ended).                *)
(***************************************************************************)
EXTENDS ChatRuns, TLAPS

At(w, places) == pc[w] \in places

Places  == {"new", "identity", "think", "verbose", "made", "context", "agent", "prompt",
            "completing", "failing", "over", "answered", "stuck"}
Created == {"think", "verbose", "made", "context", "agent", "prompt", "completing",
            "failing", "over", "stuck"}
Running == Created \ {"over", "stuck"}

Lost(w) == "expired" \in cause[w]

\* What the map finds was created for that id.
Mapped == \A i \in Ids : runs[i] # None => IdOf[runs[i]] = i /\ At(runs[i], Created)

\* A key without an entry has lapsed under its sends.
Keyed == \A s \in Sends : At(s, Created) /\ cache[IdOf[s]] = "none" => Lost(s)

\* Where two sends have one key and one of them is executed, the other's has lapsed.
Alone ==
    \A s, t \in Sends :
        s # t /\ IdOf[s] = IdOf[t] /\ At(s, Created) /\ At(t, Running) => Lost(s)

\* A handler finds its own run.
Found == \A w \in Works : At(w, Running) /\ ~Lost(w) => Latest(w) = w

\* A run with a timer to come is found in the map, and its key has an entry.
Timed ==
    \A w \in timer : Latest(w) = w /\ (w \in Sends => cache[IdOf[w]] # "none")

\* Only works of their kind are in some places.
Placed ==
    \A w \in Works : /\ At(w, {"think", "verbose"}) => w \in Sends
                     /\ w \in Sends => ~At(w, {"made", "context"})
                     /\ At(w, {"completing", "failing"}) => w \in Powers

\* A cancelled run has its signal raised.
Signalled == \A w \in Works : run[w].status = "cancelled" => run[w].aborted

\* Before it is marked as running, a run is pending or cancelled, and then early.
Unbegun ==
    \A s \in Sends :
        At(s, {"think", "verbose"}) /\ ~Lost(s) =>
            /\ run[s].status \in {"pending", "cancelled"}
            /\ run[s].aborted => "early" \in cause[s]

\* Afterwards, a run whose signal was raised is cancelled.
Noticed ==
    \A s \in Sends :
        At(s, {"agent", "prompt"}) /\ "early" \notin cause[s] /\ ~Lost(s) /\ run[s].aborted
            => run[s].status = "cancelled"

\* So is one that was aborted after its prompt.
Prompted ==
    \A w \in Sends \cup Powers :
        At(w, {"prompt"}) /\ ~Lost(w) /\ run[w].aborted => run[w].status = "cancelled"

\* A run that ended well was not aborted, and it is no longer live.
Ended ==
    \A w \in Works :
        /\ ended[w] # "no" => pc[w] = "over"
        /\ w \in Sends \cup Powers /\ ended[w] = "final" /\ ~Lost(w)
               => ~run[w].aborted /\ run[w].status = "completed"
        /\ pc[w] = "completing" /\ ~Lost(w)
               => ~run[w].aborted /\ run[w].status = "completed"
        /\ w \in Sends /\ pc[w] = "over" => ended[w] # "no"

Books == Mapped /\ Keyed /\ Alone /\ Found /\ Timed /\ Placed /\ Signalled /\ Unbegun /\ Noticed
         /\ Prompted /\ Ended

USE DEF TypeOK, RuntimeTypeOK, Status, runtimeVars

----------------------------------------------------------------------------
(* Types.                                                                  *)

LEMMA TypesInitially == Init => TypeOK
  BY RuntimeAssumption, ChatAssumption DEF Init, RuntimeInit

LEMMA UpdatedType ==
  ASSUME TypeOK, NEW w \in Works, NEW st \in Status
  PROVE  Updated(w, st) \in [Works -> [status : Status, aborted : BOOLEAN]]
  <1>1. CASE Latest(w) = None
    BY <1>1 DEF Updated
  <1>2. CASE Latest(w) # None
    <2>1. Latest(w) \in Works
      BY <1>2, RuntimeAssumption DEF Latest
    <2> QED
      BY <1>2, <2>1 DEF Updated
  <1> QED
    BY <1>1, <1>2

LEMMA CancelledType ==
  ASSUME TypeOK, NEW W
  PROVE  Cancelled(W) \in [Works -> [status : Status, aborted : BOOLEAN]]
  BY DEF Cancelled

\* What EndOf is in each case.
LEMMA Ends ==
  ASSUME NEW w \in Works, NEW returned \in BOOLEAN
  PROVE  /\ EndOf(w, returned) \in {"final", "aborted", "error"}
         /\ EndOf(w, returned) = "final" <=> returned /\ Latest(w) # None /\ ~IsCancelled(w)
         /\ EndOf(w, returned) = "error" <=> ~returned /\ ~IsCancelled(w)
  BY DEF EndOf, IsCancelled

LEMMA StatusOfType ==
  ASSUME NEW end PROVE StatusOf(end) \in {"completed", "error"}
  BY DEF StatusOf

LEMMA BlameType ==
  ASSUME TypeOK, NEW W, NEW why \in {"early", "expired", "late", "dropped", "db"}
  PROVE  Blame(W, why) \in [Works -> SUBSET {"early", "expired", "late", "dropped", "db"}]
  BY DEF Blame

LEMMA TypesKept == TypeOK /\ [Next]_vars => TypeOK'
  <1> SUFFICES ASSUME TypeOK, [Next]_vars PROVE TypeOK'
    OBVIOUS
  <1> USE RuntimeAssumption, ChatAssumption
  <1>1. ASSUME NEW c \in Clients, Connect(c) PROVE TypeOK'
    BY <1>1 DEF Connect
  <1>2. ASSUME NEW c \in Clients, NEW s \in Sessions, Subscribe(c, s) PROVE TypeOK'
    BY <1>2 DEF Subscribe, Spend, Subscribed, Known
  <1>3. ASSUME NEW c \in Clients, Unsubscribe(c) PROVE TypeOK'
    BY <1>3 DEF Unsubscribe, Spend, Unsubscribed, Blame
  <1>4. ASSUME NEW c \in Clients, Leave(c) PROVE TypeOK'
    BY <1>4 DEF Leave
  <1>5. ASSUME NEW c \in Clients, CleanUp(c) PROVE TypeOK'
    BY <1>5 DEF CleanUp, Cancel, Cancelled, Blame
  <1>6. ASSUME NEW s \in Sends, Ask(s) PROVE TypeOK'
    BY <1>6 DEF Ask, GoesTo, MayBegin
  <1>7. ASSUME NEW s \in Sends, Accept(s) PROVE TypeOK'
    <2>1. IdOf[s] \in Keys
      BY DEF Keys
    <2>2. RuntimeTypeOK'
      <3>1. subs' \in [Clients -> SUBSET Sessions]
        BY <1>7 DEF Accept, Subscribed
      <3>2. CreateRun(s) => /\ run' \in [Works -> [status : Status, aborted : BOOLEAN]]
                            /\ runs' \in [Ids -> Works \cup {None}]
                            /\ timer' \in SUBSET Works
        BY DEF CreateRun
      <3> QED
        BY <1>7, <3>1, <3>2 DEF Accept
    <2>3. cause' \in [Works -> SUBSET {"early", "expired", "late", "dropped", "db"}]
      <3>1. \/ UNCHANGED cause
            \/ \E A \in {{}, {"late"}}, B \in {{}, {"expired"}} :
                  cause' = [cause EXCEPT ![s] = A \cup B]
        BY <1>7, Zenon DEF Accept
      <3> QED
        BY <3>1
    <2>9. answer' \in [Sends -> {"none", "started", "in_flight", "ok", "error", "failed"}]
      <3>1. \/ answer' = [answer EXCEPT ![s] = cache[IdOf[s]]] \/ answer' = answer
            \/ answer' = [answer EXCEPT ![s] = "started"]
        BY <1>7 DEF Accept
      <3>2. /\ cache[IdOf[s]] \in {"none", "in_flight", "ok", "error"}
            /\ answer \in [Sends -> {"none", "started", "in_flight", "ok", "error", "failed"}]
        BY <2>1
      <3> HIDE DEF TypeOK
      <3> QED
        BY <3>1, <3>2
    <2>4. cache' \in [Keys -> {"none", "in_flight", "ok", "error"}]
      <3>1. CASE UNCHANGED cache
        BY <3>1
      <3>2. CASE cache' = Reserved(s)
        BY <2>1, <3>2 DEF Reserved
      <3> QED
        BY <1>7, <3>1, <3>2 DEF Accept
    <2>5. \E at \in {"answered", "think", "verbose"} : GoesTo(s, at)
      BY <1>7 DEF Accept
    <2>6. pc' \in [Works -> Places]
      BY <2>5 DEF GoesTo, Places
    <2>7. UNCHANGED <<conn, ended, row, spent>>
      BY <1>7 DEF Accept
    <2> QED
      BY <2>2, <2>3, <2>4, <2>6, <2>7, <2>9 DEF Places
  <1>8. ASSUME NEW s \in Sends, Think(s) PROVE TypeOK'
    BY <1>8 DEF Think, GoesTo
  <1>9. ASSUME NEW s \in Sends, ThinkThrows(s) PROVE TypeOK'
    BY <1>9 DEF ThinkThrows, GoesTo, Fault, Spend, Blame
  <1>10. ASSUME NEW s \in Sends, Begin(s) PROVE TypeOK'
    BY <1>10, UpdatedType DEF Begin, GoesTo
  <1>11. ASSUME NEW s \in Works, Prompt(s) PROVE TypeOK'
    BY <1>11 DEF Prompt, GoesTo
  <1>12. ASSUME NEW s \in Sends, ChatEnds(s) PROVE TypeOK'
    <2>1. PICK returned \in BOOLEAN : Finish(s, returned)
      BY <1>12 DEF ChatEnds
    <2>2. EndOf(s, returned) \in {"final", "aborted", "error"}
      BY Ends
    <2>3. run' \in [Works -> [status : Status, aborted : BOOLEAN]]
      BY <2>1, UpdatedType, StatusOfType DEF Finish
    <2>4. cache' \in [Keys -> {"none", "in_flight", "ok", "error"}]
      BY <2>1 DEF Finish, Settled, Keys
    <2> QED
      BY <1>12, <2>1, <2>2, <2>3, <2>4 DEF ChatEnds, Finish, GoesTo
  <1>13. ASSUME NEW i \in Items, LookItem(i) PROVE TypeOK'
    BY <1>13 DEF LookItem, GoesTo, MayBegin
  <1>14. ASSUME NEW i \in Items, TakeItem(i) PROVE TypeOK'
    BY <1>14 DEF TakeItem, GoesTo, CreateRun
  <1>15. ASSUME NEW i \in Items, StartItem(i) PROVE TypeOK'
    BY <1>15, UpdatedType DEF StartItem, GoesTo
  <1>16. ASSUME NEW i \in Items, ItemThrows(i) PROVE TypeOK'
    BY <1>16 DEF ItemThrows, GoesTo, Fault, Spend, Blame
  <1>17. ASSUME NEW i \in Items, ItemEnds(i) PROVE TypeOK'
    <2>1. run' = Updated(i, StatusOf(ended'[i])) /\ i \in Works
      BY <1>17, ChatAssumption DEF ItemEnds
    <2>2. StatusOf(ended'[i]) \in Status
      BY StatusOfType
    <2>3. run' \in [Works -> [status : Status, aborted : BOOLEAN]]
      BY <2>1, <2>2, UpdatedType
    <2>4. ended' \in [Works -> {"no", "final", "aborted", "error"}]
      <3>1. ended \in [Works -> {"no", "final", "aborted", "error"}]
        BY DEF TypeOK
      <3>2. \/ ended' = [ended EXCEPT ![i] = "final"]
            \/ ended' = [ended EXCEPT ![i] = "error"]
        BY <1>17 DEF ItemEnds
      <3> HIDE DEF TypeOK
      <3> QED
        BY <3>1, <3>2
    <2>5. pc' = [pc EXCEPT ![i] = "over"]
      BY <1>17 DEF ItemEnds, GoesTo
    <2>6. UNCHANGED <<conn, subs, runs, timer, cache, answer, row, cause, spent>>
      BY <1>17 DEF ItemEnds
    <2> QED
      BY <2>3, <2>4, <2>5, <2>6
  <1>18. ASSUME NEW p \in Powers, TakePower(p) PROVE TypeOK'
    BY <1>18 DEF TakePower, GoesTo, CreateRun, MayBegin
  <1>19. ASSUME NEW p \in Powers, StartPower(p) PROVE TypeOK'
    <2>1. run' \in [Works -> [status : Status, aborted : BOOLEAN]]
      BY <1>19, UpdatedType DEF StartPower
    <2>2. cause' \in [Works -> SUBSET {"early", "expired", "late", "dropped", "db"}]
      BY <1>19, BlameType DEF StartPower
    <2>3. spent' \in 0 .. MaxSpent /\ row' \in [Powers -> {"none", "running", "completed", "error"}]
      BY <1>19 DEF StartPower, Fault, Spend
    <2> QED
      BY <1>19, <2>1, <2>2, <2>3 DEF StartPower, GoesTo
  <1>20. ASSUME NEW p \in Powers, PowerGoesOn(p) PROVE TypeOK'
    BY <1>20 DEF PowerGoesOn, GoesTo
  <1>21. ASSUME NEW p \in Powers, PowerEnds(p) PROVE TypeOK'
    <2>1. PICK returned \in BOOLEAN :
             /\ run' = run \/ run' = Updated(p, StatusOf(EndOf(p, returned)))
             /\ \E at \in {"over", "completing", "failing"} : GoesTo(p, at)
      BY <1>21 DEF PowerEnds
    <2> DEFINE st == StatusOf(EndOf(p, returned))
    <2>0. st \in {"completed", "error"}
      BY StatusOfType
    <2> HIDE DEF st
    <2>3. run' \in [Works -> [status : Status, aborted : BOOLEAN]]
      <3>1. Updated(p, st) \in [Works -> [status : Status, aborted : BOOLEAN]]
        BY <2>0, UpdatedType
      <3> QED
        BY <2>1, <3>1 DEF st
    <2> QED
      BY <1>21, <2>1, <2>3, SMTT(60) DEF PowerEnds, GoesTo
  <1>27. ASSUME NEW p \in Powers, PowerIsTold(p) PROVE TypeOK'
    <2>1. cause' \in [Works -> SUBSET {"early", "expired", "late", "dropped", "db"}]
      BY <1>27, BlameType DEF PowerIsTold
    <2>2. row' \in [Powers -> {"none", "running", "completed", "error"}]
      <3>1. row' = row \/ \E st \in {"completed", "error"} : row' = [row EXCEPT ![p] = st]
        BY <1>27 DEF PowerIsTold, StatusOf
      <3> QED
        BY <3>1
    <2>3. spent' \in 0 .. MaxSpent
      BY <1>27 DEF PowerIsTold, Fault, Spend
    <2> QED
      BY <1>27, <2>1, <2>2, <2>3 DEF PowerIsTold, GoesTo
  <1>22. ASSUME Abort PROVE TypeOK'
    <2>1. PICK W : Cancel(W)
      BY <1>22 DEF Abort
    <2>2. spent' \in 0 .. MaxSpent
      BY <1>22 DEF Abort, Spend
    <2>3. run' \in [Works -> [status : Status, aborted : BOOLEAN]]
      BY <2>1, CancelledType DEF Cancel
    <2>4. cause' \in [Works -> SUBSET {"early", "expired", "late", "dropped", "db"}]
      BY <2>1, BlameType DEF Cancel
    <2> QED
      BY <1>22, <2>2, <2>3, <2>4 DEF Abort
  <1>23. ASSUME NEW s \in Sends, TimesOut(s) PROVE TypeOK'
    BY <1>23 DEF TimesOut, Spend, Cancel, Cancelled, Blame
  <1>24. ASSUME NEW w \in Works, Forgotten(w) PROVE TypeOK'
    BY <1>24 DEF Forgotten, Forget, Blame
  <1>25. ASSUME NEW k \in Keys, Lapses(k) PROVE TypeOK'
    BY <1>25 DEF Lapses, Blame, Keys
  <1>26. CASE UNCHANGED vars
    BY <1>26 DEF vars
  <1> QED
    BY <1>1, <1>2, <1>3, <1>4, <1>5, <1>6, <1>7, <1>8, <1>9, <1>10, <1>11, <1>12, <1>13, <1>14, <1>15, <1>16, <1>17, <1>18, <1>19, <1>20, <1>21, <1>22, <1>23, <1>24, <1>25, <1>26, <1>27 DEF Next, ChatStep, ItemStep, PowerStep

THEOREM ChatTypes == Spec => []TypeOK
  BY TypesInitially, TypesKept, PTL DEF Spec

----------------------------------------------------------------------------
(* Books.                                                                  *)

HIDE DEF TypeOK, RuntimeTypeOK, Status, runtimeVars

\* The types the steps of the books need.
LEMMA Typed ==
  ASSUME TypeOK
  PROVE  /\ run \in [Works -> [status : Status, aborted : BOOLEAN]]
         /\ runs \in [Ids -> Works \cup {None}]
         /\ pc \in [Works -> Places]
         /\ cache \in [Keys -> {"none", "in_flight", "ok", "error"}]
         /\ ended \in [Works -> {"no", "final", "aborted", "error"}]
         /\ cause \in [Works -> SUBSET {"early", "expired", "late", "dropped", "db"}]
         /\ timer \subseteq Works
  BY DEF TypeOK, RuntimeTypeOK, Places

LEMMA Sorts ==
  /\ IdOf \in [Works -> Ids]
  /\ None \notin Works
  /\ Sends \subseteq Works /\ Items \subseteq Works /\ Powers \subseteq Works
  /\ Sends \cap Items = {} /\ Sends \cap Powers = {}
  /\ \A v, w \in Works : IdOf[v] = IdOf[w] /\ v # w => v \in Sends /\ w \in Sends
  /\ \A s \in Sends : IdOf[s] \in Keys
  BY RuntimeAssumption, ChatAssumption DEF Keys

USE DEF Mapped, Keyed, Alone, Found, Timed, Placed, Signalled, Unbegun, Noticed, Prompted, Ended,
        At, Lost, Created, Running, Latest

LEMMA BooksInitially == Init => Books
  BY Sorts DEF Init, RuntimeInit, Books

\* Cancelling runs, whoever does it.
LEMMA CancelKeeps ==
  ASSUME TypeOK, Books, NEW W, Cancel(W), UNCHANGED <<runs, timer, pc, cache, ended>>
  PROVE  Books'
  <1> USE Sorts, Typed DEF Books
  <1>1. \A w \in Works :
           /\ run'[w] = run[w] \/ run'[w] = [status |-> "cancelled", aborted |-> TRUE]
           /\ run'[w] # run[w] => Live(w)
           /\ run'[w] # run[w] /\ run[w].status = "pending" => "early" \in cause'[w]
    BY DEF Cancel, Cancelled, Blame, Active
  <1>2. \A w \in Works : Lost(w)' <=> Lost(w)
    BY DEF Cancel, Blame
  <1>3. \A w \in Works : "early" \in cause[w] => "early" \in cause'[w]
    BY DEF Cancel, Blame
  <1> HIDE DEF Lost
  <1>4. Mapped' /\ Keyed' /\ Alone' /\ Found' /\ Timed' /\ Placed'
    BY <1>2
  <1>5. Signalled'
    BY <1>1
  <1>6. Unbegun'
    <2> SUFFICES ASSUME NEW s \in Sends, At(s, {"think", "verbose"}), ~Lost(s)
                 PROVE  /\ run'[s].status \in {"pending", "cancelled"}
                        /\ run'[s].aborted => "early" \in cause'[s]
      BY <1>2
    <2>1. /\ run[s].status \in {"pending", "cancelled"}
          /\ run[s].aborted => "early" \in cause[s]
      OBVIOUS
    <2> QED
      BY <1>1, <1>3, <2>1 DEF Live
  <1>7. Noticed'
    BY <1>1, <1>2, <1>3
  <1>8. Prompted'
    BY <1>1, <1>2
  <1>9. Ended'
    BY <1>1, <1>2 DEF Live
  <1> QED
    BY <1>4, <1>5, <1>6, <1>7, <1>8, <1>9

LEMMA UpdatedIs ==
  ASSUME TypeOK, NEW w \in Works, NEW st, NEW v \in Works
  PROVE  /\ Updated(w, st)[v].aborted = run[v].aborted
         /\ v = Latest(w) => Updated(w, st)[v].status = st
         /\ v # Latest(w) => Updated(w, st)[v] = run[v]
  BY Sorts, Typed DEF Updated

\* The end of a handler, whatever its kind.
LEMMA EndKeeps ==
  ASSUME TypeOK, Books, NEW w \in Works, At(w, {"agent", "prompt"}),
         NEW at \in {"over", "completing", "failing"}, GoesTo(w, at),
         at = "over" \/ w \in Powers,
         UNCHANGED <<runs, timer, cause>>,
         cache' = cache \/ (w \in Sends /\ \E x \in {"ok", "error"} :
                                                cache' = [cache EXCEPT ![IdOf[w]] = x]),
         NEW end \in {"no", "final", "aborted", "error"},
         ended' = [ended EXCEPT ![w] = end],
         NEW st \in {"completed", "error"},
         run' = run \/ run' = Updated(w, st),
         end # "no" => at = "over",
         w \in Sends => end # "no",
         ((w \in Sends \cup Powers /\ end = "final") \/ at = "completing") /\ ~Lost(w)
             => st = "completed" /\ run' = Updated(w, st) /\ ~run[w].aborted
  PROVE  Books'
  <1> USE Sorts, Typed DEF Books
  <1>1. \A v \in Works : /\ run'[v].aborted = run[v].aborted
                         /\ v # Latest(w) => run'[v] = run[v]
                         /\ v = Latest(w) => run'[v].status \in {run[v].status, st}
    <2>1. ASSUME NEW v \in Works, run' = Updated(w, st)
          PROVE  /\ run'[v].aborted = run[v].aborted
                 /\ v # Latest(w) => run'[v] = run[v]
                 /\ v = Latest(w) => run'[v].status = st
      BY <2>1, UpdatedIs
    <2> QED
      BY <2>1
  <1>2. \A v \in Works : v = Latest(w) /\ v # w => Lost(v)
    OBVIOUS
  <1>3. pc' = [pc EXCEPT ![w] = at]
    BY DEF GoesTo
  <1>4. \A v \in Works : Lost(v)' <=> Lost(v)
    OBVIOUS
  <1>5. \A s \in Sends : cache[IdOf[s]] # "none" => cache'[IdOf[s]] # "none"
    OBVIOUS
  <1> HIDE DEF Lost
  <1>6. Mapped' /\ Found' /\ Placed'
    BY <1>3, <1>4
  <1>7. Keyed' /\ Timed'
    BY <1>3, <1>4, <1>5
  <1>8. Alone'
    BY <1>3, <1>4
  <1>9. Signalled'
    BY <1>1
  <1>10. Unbegun'
    BY <1>1, <1>2, <1>3, <1>4
  <1>11. Noticed' /\ Prompted'
    <2>1. ASSUME NEW v \in Works, ~Lost(v)', At(v, {"agent", "prompt"})'
          PROVE  ~Lost(v) /\ run'[v] = run[v] /\ At(v, {pc'[v]})
      BY <1>1, <1>2, <1>3, <1>4, <2>1
    <2> QED
      BY <2>1
  <1>12. Ended'
    <2>1. \A v \in Works : ended'[v] # "no" => pc'[v] = "over"
      BY <1>3
    <2>2. \A v \in Sends : pc'[v] = "over" => ended'[v] # "no"
      BY <1>3
    <2>3. ASSUME NEW v \in Works, ~Lost(v),
                 (v \in Sends \cup Powers /\ ended'[v] = "final") \/ pc'[v] = "completing"
          PROVE  ~run'[v].aborted /\ run'[v].status = "completed"
      <3>1. CASE v = w
        <4>1. Latest(w) = w
          BY <2>3, <3>1
        <4>2. run' = Updated(w, st) /\ ~run[w].aborted /\ st = "completed"
          <5>1. (w \in Sends \cup Powers /\ end = "final") \/ at = "completing"
            BY <1>3, <2>3, <3>1
          <5> QED
            BY <2>3, <3>1, <5>1
        <4>3. Updated(w, st)[w].status = st
          BY <4>1, UpdatedIs
        <4> QED
          BY <1>1, <3>1, <4>2, <4>3
      <3>2. CASE v # w
        <4>1. ended'[v] = ended[v] /\ pc'[v] = pc[v] /\ run'[v] = run[v]
          BY <1>1, <1>2, <1>3, <2>3, <3>2
        <4> QED
          BY <2>3, <4>1
      <3> QED
        BY <3>1, <3>2
    <2> QED
      BY <1>4, <2>1, <2>2, <2>3
  <1> QED
    BY <1>6, <1>7, <1>8, <1>9, <1>10, <1>11, <1>12

LEMMA BooksKept == TypeOK /\ Books /\ [Next]_vars => Books'
  <1> SUFFICES ASSUME TypeOK, Books, [Next]_vars PROVE Books'
    OBVIOUS
  <1> USE Sorts, Typed DEF Books, runtimeVars
  <1>1. ASSUME NEW c \in Clients, Connect(c) PROVE Books'
    BY <1>1, SMTT(60) DEF Connect
  <1>2. ASSUME NEW c \in Clients, NEW s \in Sessions, Subscribe(c, s) PROVE Books'
    BY <1>2, SMTT(60) DEF Subscribe, Spend, Subscribed, Known
  <1>3. ASSUME NEW c \in Clients, Unsubscribe(c) PROVE Books'
    BY <1>3, SMTT(60) DEF Unsubscribe, Spend, Unsubscribed, Blame
  <1>4. ASSUME NEW c \in Clients, Leave(c) PROVE Books'
    BY <1>4, SMTT(60) DEF Leave
  <1>5. ASSUME NEW c \in Clients, CleanUp(c) PROVE Books'
    BY <1>5, CancelKeeps DEF CleanUp
  <1>6. ASSUME NEW s \in Sends, Ask(s) PROVE Books'
    BY <1>6, SMTT(60) DEF Ask, GoesTo, MayBegin
  <1>7. ASSUME NEW s \in Sends, Accept(s) PROVE Books'
    <2>1. CASE GoesTo(s, "answered") /\ UNCHANGED <<run, runs, timer, cache, cause>>
      BY <1>7, <2>1 DEF Accept, GoesTo
    <2>2. CASE /\ cache[IdOf[s]] = "none" /\ CreateRun(s) /\ cache' = Reserved(s)
               /\ GoesTo(s, "think") \/ GoesTo(s, "verbose")
      <3>1. At(s, {"identity"}) /\ ended' = ended
        BY <1>7 DEF Accept
      <3>2. PICK at \in {"think", "verbose"} : pc' = [pc EXCEPT ![s] = at]
        BY <2>2 DEF GoesTo
      <3>3. /\ run' = [run EXCEPT ![s] = [status |-> "pending", aborted |-> FALSE]]
            /\ runs' = [runs EXCEPT ![IdOf[s]] = s]
            /\ timer' = timer \cup {s}
            /\ cache' = [cache EXCEPT ![IdOf[s]] = "in_flight"]
        BY <2>2 DEF CreateRun, Reserved
      <3>4. /\ \A w \in Works \ {s} : cause'[w] = cause[w]
            /\ (\E t \in Works : At(t, Running) /\ IdOf[t] = IdOf[s] /\ Lost(t)) => Lost(s)'
        BY <1>7, <2>2, <3>1 DEF Accept, GoesTo, Executing
      <3>5. \A t \in Sends : t # s /\ IdOf[t] = IdOf[s] /\ At(t, Created) => Lost(t)
        BY <2>2
      <3>6. \A t \in Works : t # s /\ IdOf[t] = IdOf[s] => t \in Sends
        OBVIOUS
      <3>7. Mapped' /\ Keyed'
        BY <3>1, <3>2, <3>3, <3>4
      <3>8. Alone'
        <4> SUFFICES ASSUME NEW u \in Sends, NEW t \in Sends, u # t, IdOf[u] = IdOf[t],
                            At(u, Created)', At(t, Running)'
                     PROVE  Lost(u)'
          OBVIOUS
        <4>1. CASE u = s
          <5>1. At(t, Running) /\ Lost(t)
            BY <3>2, <3>5, <4>1
          <5> QED
            BY <3>4, <4>1, <5>1
        <4>2. CASE u # s
          <5>1. At(u, Created)
            BY <3>2, <4>2
          <5>2. CASE t = s
            BY <3>4, <3>5, <4>2, <5>1, <5>2
          <5>3. CASE t # s
            BY <3>2, <3>4, <4>2, <5>1, <5>3
          <5> QED
            BY <5>2, <5>3
        <4> QED
          BY <4>1, <4>2
      <3>9. Found' /\ Timed'
        <4>1. Found'
          BY <3>2, <3>3, <3>4, <3>5, <3>6
        <4>2. Timed'
          BY <2>2, <3>3, <3>6
        <4> QED
          BY <4>1, <4>2
      <3>10. Placed' /\ Signalled' /\ Unbegun'
        BY <3>2, <3>3, <3>4
      <3>11. Noticed' /\ Prompted' /\ Ended'
        BY <3>1, <3>2, <3>3, <3>4
      <3> QED
        BY <3>7, <3>8, <3>9, <3>10, <3>11
    <2> QED
      BY <1>7, <2>1, <2>2 DEF Accept
  <1>8. ASSUME NEW s \in Sends, Think(s) PROVE Books'
    BY <1>8, SMTT(60) DEF Think, GoesTo
  <1>9. ASSUME NEW s \in Sends, ThinkThrows(s) PROVE Books'
    BY <1>9, SMTT(60) DEF ThinkThrows, GoesTo, Fault, Spend, Blame
  <1>10. ASSUME NEW s \in Sends, Begin(s) PROVE Books'
    BY <1>10, SMTT(60) DEF Begin, GoesTo, Updated, Latest
  <1>11. ASSUME NEW s \in Works, Prompt(s) PROVE Books'
    BY <1>11, SMTT(60) DEF Prompt, GoesTo
  <1>12. ASSUME NEW s \in Sends, ChatEnds(s) PROVE Books'
    <2>1. PICK returned \in BOOLEAN :
             Finish(s, returned) /\ (IF returned THEN Returns(s) ELSE Throws(s))
      BY <1>12 DEF ChatEnds
    <2> DEFINE end == EndOf(s, returned)
    <2>2. /\ end \in {"final", "aborted", "error"}
          /\ end = "final" => returned /\ Latest(s) # None /\ ~IsCancelled(s)
      BY Ends
    <2>3. end = "final" /\ ~Lost(s) => ~run[s].aborted
      BY <2>1, <2>2 DEF Returns, IsCancelled
    <2>4. StatusOf(end) \in {"completed", "error"} /\ (end = "final" => StatusOf(end) = "completed")
      BY StatusOfType DEF StatusOf
    <2>5. cache' = [cache EXCEPT ![IdOf[s]] = IF end = "final" THEN "ok" ELSE "error"]
      BY <2>1 DEF Finish, Settled
    <2>6. /\ run' = run \/ run' = Updated(s, StatusOf(end))
          /\ end = "final" => run' = Updated(s, StatusOf(end))
          /\ ended' = [ended EXCEPT ![s] = end]
          /\ GoesTo(s, "over")
      BY <2>1 DEF Finish
    <2>7. At(s, {"agent", "prompt"})
      BY <2>1 DEF Returns, Throws
    <2> HIDE DEF end, Books
    <2> QED
      BY <1>12, <2>2, <2>3, <2>4, <2>5, <2>6, <2>7, EndKeeps DEF ChatEnds
  <1>13. ASSUME NEW i \in Items, LookItem(i) PROVE Books'
    BY <1>13, SMTT(60) DEF LookItem, GoesTo, MayBegin
  <1>14. ASSUME NEW i \in Items, TakeItem(i) PROVE Books'
    BY <1>14, SMTT(60) DEF TakeItem, GoesTo, CreateRun
  <1>15. ASSUME NEW i \in Items, StartItem(i) PROVE Books'
    BY <1>15, SMTT(60) DEF StartItem, GoesTo, Updated, Latest
  <1>16. ASSUME NEW i \in Items, ItemThrows(i) PROVE Books'
    BY <1>16, SMTT(60) DEF ItemThrows, GoesTo, Fault, Spend, Blame
  <1>17. ASSUME NEW i \in Items, ItemEnds(i) PROVE Books'
    <2> DEFINE end == ended'[i]
    <2>1. /\ end \in {"final", "error"} /\ ended' = [ended EXCEPT ![i] = end]
          /\ At(i, {"agent", "prompt"}) /\ GoesTo(i, "over")
          /\ run' = Updated(i, StatusOf(end))
      BY <1>17 DEF ItemEnds, Returns, Throws
    <2>2. StatusOf(end) \in {"completed", "error"} /\ i \notin Sends \cup Powers
      BY StatusOfType, ChatAssumption
    <2> HIDE DEF end, Books
    <2> QED
      BY <1>17, <2>1, <2>2, EndKeeps DEF ItemEnds
  <1>18. ASSUME NEW p \in Powers, TakePower(p) PROVE Books'
    BY <1>18, SMTT(60) DEF TakePower, GoesTo, CreateRun, MayBegin
  <1>19. ASSUME NEW p \in Powers, StartPower(p) PROVE Books'
    BY <1>19, SMTT(60) DEF StartPower, GoesTo, Updated, Latest, Fault, Spend, Blame
  <1>20. ASSUME NEW p \in Powers, PowerGoesOn(p) PROVE Books'
    BY <1>20, SMTT(60) DEF PowerGoesOn, GoesTo
  <1>21. ASSUME NEW p \in Powers, PowerEnds(p) PROVE Books'
    <2>1. PICK returned \in BOOLEAN :
             LET end == EndOf(p, returned)
             IN  /\ IF returned THEN Returns(p) ELSE Throws(p)
                 /\ \/ end = "aborted" /\ GoesTo(p, "over") /\ UNCHANGED run
                    \/ /\ end # "aborted"
                       /\ run' = Updated(p, StatusOf(end))
                       /\ GoesTo(p, IF end = "final" THEN "completing" ELSE "failing")
      BY <1>21 DEF PowerEnds
    <2> DEFINE end == EndOf(p, returned)
    <2>2. /\ end \in {"final", "aborted", "error"}
          /\ end = "final" => returned /\ Latest(p) # None /\ ~IsCancelled(p)
      BY Ends
    <2>3. end = "final" /\ ~Lost(p) => ~run[p].aborted
      BY <2>1, <2>2 DEF Returns, IsCancelled
    <2>4. StatusOf(end) \in {"completed", "error"} /\ (end = "final" => StatusOf(end) = "completed")
      BY StatusOfType DEF StatusOf
    <2>5. At(p, {"agent", "prompt"}) /\ p \notin Sends
      BY <2>1 DEF Returns, Throws
    <2>6. ended' = [ended EXCEPT ![p] = "no"]
      BY <1>21, <2>5 DEF PowerEnds
    <2>7. CASE end = "aborted"
      <3>1. GoesTo(p, "over") /\ run' = run
        BY <2>1, <2>7
      <3> HIDE DEF end, Books
      <3> QED
        BY <1>21, <2>5, <2>6, <3>1, EndKeeps DEF PowerEnds
    <2>8. CASE end = "final"
      <3>1. GoesTo(p, "completing") /\ run' = Updated(p, StatusOf(end))
        BY <2>1, <2>8
      <3> HIDE DEF end, Books
      <3> QED
        BY <1>21, <2>3, <2>4, <2>5, <2>6, <2>8, <3>1, EndKeeps DEF PowerEnds
    <2>9. CASE end = "error"
      <3>1. GoesTo(p, "failing") /\ run' = Updated(p, StatusOf(end))
        BY <2>1, <2>9
      <3> HIDE DEF end, Books
      <3> QED
        BY <1>21, <2>4, <2>5, <2>6, <3>1, EndKeeps DEF PowerEnds
    <2> QED
      BY <2>2, <2>7, <2>8, <2>9
  <1>27. ASSUME NEW p \in Powers, PowerIsTold(p) PROVE Books'
    <2>1. /\ pc' = [pc EXCEPT ![p] = "over"] /\ UNCHANGED <<run, runs, timer, cache>>
          /\ \/ pc[p] = "completing" /\ ended' = [ended EXCEPT ![p] = "final"]
             \/ pc[p] = "failing" /\ ended' = [ended EXCEPT ![p] = "error"]
      BY <1>27 DEF PowerIsTold, GoesTo
    <2>2. \A w \in Works : /\ Lost(w)' <=> Lost(w)
                           /\ "early" \in cause[w] <=> "early" \in cause'[w]
      <3>1. cause' = cause \/ cause' = Blame({p}, "db")
        BY <1>27 DEF PowerIsTold
      <3> QED
        BY <3>1 DEF Blame
    <2> HIDE DEF Lost
    <2>3. Mapped' /\ Keyed' /\ Alone' /\ Found' /\ Timed' /\ Placed' /\ Signalled'
      BY <2>1, <2>2
    <2>4. Unbegun' /\ Noticed' /\ Prompted'
      BY <2>1, <2>2
    <2>5. Ended'
      BY <2>1, <2>2
    <2> QED
      BY <2>3, <2>4, <2>5
  <1>22. ASSUME Abort PROVE Books'
    BY <1>22, CancelKeeps DEF Abort
  <1>23. ASSUME NEW s \in Sends, TimesOut(s) PROVE Books'
    BY <1>23, CancelKeeps DEF TimesOut
  <1>24. ASSUME NEW w \in Works, Forgotten(w) PROVE Books'
    BY <1>24, SMTT(60) DEF Forgotten, Forget, Blame
  <1>25. ASSUME NEW k \in Keys, Lapses(k) PROVE Books'
    BY <1>25, SMTT(60) DEF Lapses, Blame, Keys
  <1>26. CASE UNCHANGED vars
    BY <1>26 DEF vars
  <1> QED
    BY <1>1, <1>2, <1>3, <1>4, <1>5, <1>6, <1>7, <1>8, <1>9, <1>10, <1>11, <1>12, <1>13, <1>14, <1>15, <1>16, <1>17, <1>18, <1>19, <1>20, <1>21, <1>22, <1>23, <1>24, <1>25, <1>26, <1>27 DEF Next, ChatStep, ItemStep, PowerStep

THEOREM ChatBooks == Spec => [](TypeOK /\ Books)
  <1>1. Init => TypeOK /\ Books
    BY TypesInitially, BooksInitially
  <1>2. TypeOK /\ Books /\ [Next]_vars => (TypeOK /\ Books)'
    BY TypesKept, BooksKept
  <1> QED
    BY <1>1, <1>2, PTL DEF Spec

\* A retry starts no second run beside the first (chat.ts:620), whatever the
\* clients, the statements and the timers do.
THEOREM OneRun == Spec => []OneRunPerKey
  <1>1. TypeOK /\ Books => OneRunPerKey
    BY Sorts DEF OneRunPerKey, Executing, Books
  <1> QED
    BY <1>1, ChatBooks, PTL

\* What was aborted does not end as if it had not been (chat.ts:872,
\* powers.ts:309).
THEOREM AbortsStick == Spec => []AbortSticks
  <1>1. TypeOK /\ Books => AbortSticks
    BY Sorts DEF AbortSticks, Books
  <1> QED
    BY <1>1, ChatBooks, PTL

----------------------------------------------------------------------------
(* Ends and orphans.                                                       *)

\* The two properties with a cause at a time.
Agreed ==
    \A s \in Sends :
        pc[s] = "over" /\ "early" \notin cause[s] /\ ~Lost(s) =>
            /\ run[s].status = CASE ended[s] = "final"   -> "completed"
                                 [] ended[s] = "aborted" -> "cancelled"
                                 [] ended[s] = "error"   -> "error"
            /\ run[s].aborted <=> ended[s] = "aborted"
            /\ cache[IdOf[s]] = IF ended[s] = "final" THEN "ok" ELSE "error"

Attended ==
    \A s \in Sends :
        Active(s) /\ ~run[s].aborted /\ ~Watched(SessionOf[s])
            => "late" \in cause[s] \/ "dropped" \in cause[s] \/ Lost(s)

LEMMA Blamed ==
  ASSUME NEW W, NEW why, cause' = Blame(W, why), NEW w \in Works, NEW x
  PROVE  x \in cause'[w] <=> x \in cause[w] \/ (w \in W /\ x = why)
  BY DEF Blame

\* A cancellation changes live runs only.
LEMMA CancelIs ==
  ASSUME TypeOK, NEW W, Cancel(W), NEW w \in Works
  PROVE  /\ run'[w] # run[w] => Live(w)
         /\ w \in W /\ Active(w) => run'[w].aborted
         /\ run'[w].status = run[w].status \/ run'[w].aborted
         /\ run[w].aborted => run'[w].aborted
         /\ Lost(w)' <=> Lost(w)
         /\ "early" \in cause[w] => "early" \in cause'[w]
         /\ "late" \in cause[w] => "late" \in cause'[w]
         /\ "dropped" \in cause[w] => "dropped" \in cause'[w]
  <1>1. cause' = Blame({v \in W : Active(v) /\ run[v].status = "pending"}, "early")
    BY DEF Cancel
  <1>2. \A x : x \in cause[w] => x \in cause'[w]
    BY <1>1, Blamed
  <1>3. "expired" \in cause'[w] => "expired" \in cause[w]
    BY <1>1, Blamed
  <1> QED
    BY <1>2, <1>3, Typed DEF Cancel, Cancelled, Active, Live

\* The end of a power changes nothing of a send.
LEMMA PowerApart ==
  ASSUME TypeOK, Books, NEW p \in Powers, PowerEnds(p) \/ PowerIsTold(p), NEW u \in Sends
  PROVE  run'[u] = run[u] /\ ended'[u] = ended[u] /\ pc'[u] = pc[u] /\ cause'[u] = cause[u]
  <1>1. p # u /\ p \in Works /\ u \in Works
    BY Sorts
  <1>2. CASE PowerEnds(p)
    <2>1. PICK returned \in BOOLEAN :
             /\ \E at \in {"over", "completing", "failing"} : GoesTo(p, at)
             /\ run' = run \/ run' = Updated(p, StatusOf(EndOf(p, returned)))
      BY <1>2 DEF PowerEnds
    <2>2. Latest(p) # u
      BY <1>1, Sorts, Typed DEF Latest, Books, Mapped
    <2>3. Updated(p, StatusOf(EndOf(p, returned)))[u] = run[u]
      BY <1>1, <2>2, UpdatedIs
    <2>4. pc'[u] = pc[u]
      BY <1>1, <2>1, Typed DEF GoesTo
    <2> QED
      BY <1>2, <2>1, <2>3, <2>4 DEF PowerEnds
  <1>3. CASE PowerIsTold(p)
    <2>1. GoesTo(p, "over") /\ run' = run
      BY <1>3 DEF PowerIsTold, runtimeVars
    <2>2. \E end \in {"final", "error"} : ended' = [ended EXCEPT ![p] = end]
      BY <1>3 DEF PowerIsTold
    <2>3. cause' = cause \/ cause' = Blame({p}, "db")
      BY <1>3 DEF PowerIsTold
    <2>4. cause'[u] = cause[u]
      BY <1>1, <2>3, Typed DEF Blame
    <2> QED
      BY <1>1, <2>1, <2>2, <2>4, Typed DEF GoesTo
  <1> QED
    BY <1>2, <1>3

LEMMA AgreeKept == TypeOK /\ Books /\ Agreed /\ [Next]_vars => Agreed'
  <1> SUFFICES ASSUME TypeOK, Books, Agreed, [Next]_vars PROVE Agreed'
    OBVIOUS
  <1> USE Sorts, Typed DEF Books, Agreed, runtimeVars
  <1>1. ASSUME NEW c \in Clients, Connect(c) PROVE Agreed'
    BY <1>1, SMTT(60) DEF Connect
  <1>2. ASSUME NEW c \in Clients, NEW s \in Sessions, Subscribe(c, s) PROVE Agreed'
    BY <1>2, SMTT(60) DEF Subscribe, Spend, Subscribed, Known
  <1>3. ASSUME NEW c \in Clients, Unsubscribe(c) PROVE Agreed'
    <2>1. \A w \in Works : \A x : x \in cause[w] => x \in cause'[w]
      BY <1>3 DEF Unsubscribe, Blame
    <2> QED
      BY <1>3, <2>1, SMTT(60) DEF Unsubscribe, Spend, Unsubscribed
  <1>4. ASSUME NEW c \in Clients, Leave(c) PROVE Agreed'
    BY <1>4, SMTT(60) DEF Leave
  <1>5. ASSUME NEW c \in Clients, CleanUp(c) PROVE Agreed'
    BY <1>5, CancelIs, SMTT(60) DEF Live, CleanUp
  <1>6. ASSUME NEW s \in Sends, Ask(s) PROVE Agreed'
    BY <1>6, SMTT(60) DEF Ask, GoesTo
  <1>7. ASSUME NEW s \in Sends, Accept(s) PROVE Agreed'
    <2>1. CASE GoesTo(s, "answered") /\ UNCHANGED <<run, runs, timer, cache, cause>>
      BY <1>7, <2>1 DEF Accept, GoesTo
    <2>2. CASE /\ cache[IdOf[s]] = "none" /\ CreateRun(s) /\ cache' = Reserved(s)
               /\ GoesTo(s, "think") \/ GoesTo(s, "verbose")
      <3>1. /\ ended' = ended
            /\ \A u \in Works \ {s} : cause'[u] = cause[u]
        BY <1>7, <2>2 DEF Accept
      <3>2. PICK at \in {"think", "verbose"} : pc' = [pc EXCEPT ![s] = at]
        BY <2>2 DEF GoesTo
      <3>3. /\ \A u \in Works \ {s} : run'[u] = run[u]
            /\ cache' = [cache EXCEPT ![IdOf[s]] = "in_flight"]
        BY <2>2 DEF CreateRun, Reserved
      <3>4. \A u \in Sends : u # s /\ IdOf[u] = IdOf[s] /\ At(u, Created) => Lost(u)
        BY <2>2
      <3> QED
        BY <3>1, <3>2, <3>3, <3>4
    <2> QED
      BY <1>7, <2>1, <2>2 DEF Accept
  <1>8. ASSUME NEW s \in Sends, Think(s) PROVE Agreed'
    BY <1>8, SMTT(60) DEF Think, GoesTo
  <1>9. ASSUME NEW s \in Sends, ThinkThrows(s) PROVE Agreed'
    <2>1. \A w \in Works : \A x : x \in cause[w] => x \in cause'[w]
      BY <1>9 DEF ThinkThrows, Blame
    <2> QED
      <3>1. pc' = [pc EXCEPT ![s] = "stuck"] /\ UNCHANGED <<run, cache, ended>>
        BY <1>9 DEF ThinkThrows, GoesTo
      <3> QED
        BY <2>1, <3>1
  <1>10. ASSUME NEW s \in Sends, Begin(s) PROVE Agreed'
    BY <1>10, SMTT(60) DEF Begin, GoesTo, Updated, Latest
  <1>11. ASSUME NEW s \in Works, Prompt(s) PROVE Agreed'
    BY <1>11, SMTT(60) DEF Prompt, GoesTo
  <1>12. ASSUME NEW s \in Sends, ChatEnds(s) PROVE Agreed'
    <2>1. PICK returned \in BOOLEAN :
             Finish(s, returned) /\ (IF returned THEN Returns(s) ELSE Throws(s))
      BY <1>12 DEF ChatEnds
    <2> DEFINE end == EndOf(s, returned)
    <2>2. /\ end \in {"final", "aborted", "error"}
          /\ end = "final" => returned /\ Latest(s) # None /\ ~IsCancelled(s)
          /\ end = "error" => ~IsCancelled(s)
          /\ end = "aborted" /\ ~Lost(s) => IsCancelled(s)
      <3>1. ~Lost(s) => Latest(s) # None
        BY <2>1 DEF Returns, Throws
      <3> QED
        BY <3>1, Ends
    <2>3. /\ cause' = cause
          /\ cache' = [cache EXCEPT ![IdOf[s]] = IF end = "final" THEN "ok" ELSE "error"]
          /\ ended' = [ended EXCEPT ![s] = end]
          /\ pc' = [pc EXCEPT ![s] = "over"]
          /\ run' = IF end = "aborted" THEN run ELSE Updated(s, StatusOf(end))
      BY <1>12, <2>1 DEF ChatEnds, Finish, Settled, GoesTo
    <2>4. StatusOf(end) = IF end = "final" THEN "completed" ELSE "error"
      BY DEF StatusOf
    <2>5. At(s, {"agent", "prompt"})
      BY <2>1 DEF Returns, Throws
    <2> HIDE DEF end
    <2>6. ASSUME NEW u \in Sends, u # s, pc'[u] = "over", "early" \notin cause'[u], ~Lost(u)'
          PROVE  run'[u] = run[u] /\ cache'[IdOf[u]] = cache[IdOf[u]] /\ ended'[u] = ended[u]
      <3>1. At(u, Created) /\ ~Lost(u)
        BY <2>3, <2>6
      <3>2. IdOf[u] # IdOf[s]
        BY <2>5, <2>6, <3>1
      <3>3. Latest(s) # u
        BY <3>2
      <3> QED
        BY <2>3, <2>6, <3>2, <3>3, UpdatedIs
    <2>7. ASSUME "early" \notin cause[s], ~Lost(s)
          PROVE  /\ run'[s].status = CASE end = "final"   -> "completed"
                                        [] end = "aborted" -> "cancelled"
                                        [] end = "error"   -> "error"
                 /\ run'[s].aborted <=> end = "aborted"
      <3>1. Latest(s) = s
        BY <2>5, <2>7
      <3>2. run[s].aborted <=> run[s].status = "cancelled"
        BY <2>5, <2>7
      <3>3. IsCancelled(s) <=> run[s].status = "cancelled"
        BY <3>1 DEF IsCancelled
      <3>4. CASE end = "aborted"
        BY <2>2, <2>3, <2>7, <3>2, <3>3, <3>4
      <3>5. CASE end # "aborted"
        <4>1. run' = Updated(s, StatusOf(end)) /\ ~run[s].aborted
          BY <2>2, <2>3, <3>2, <3>3, <3>5
        <4>2. ~run'[s].aborted /\ run'[s].status = StatusOf(end)
          BY <3>1, <4>1, UpdatedIs
        <4> QED
          BY <2>2, <2>4, <3>5, <4>2
      <3> QED
        BY <3>4, <3>5
    <2> QED
      BY <2>2, <2>3, <2>6, <2>7
  <1>13. ASSUME NEW i \in Items, LookItem(i) PROVE Agreed'
    BY <1>13, SMTT(60) DEF LookItem, GoesTo
  <1>14. ASSUME NEW i \in Items, TakeItem(i) PROVE Agreed'
    BY <1>14, SMTT(60) DEF TakeItem, GoesTo, CreateRun
  <1>15. ASSUME NEW i \in Items, StartItem(i) PROVE Agreed'
    BY <1>15, SMTT(60) DEF StartItem, GoesTo, Updated, Latest
  <1>16. ASSUME NEW i \in Items, ItemThrows(i) PROVE Agreed'
    <2>1. \A w \in Works : \A x : x \in cause[w] => x \in cause'[w]
      BY <1>16 DEF ItemThrows, Blame
    <2> QED
      <3>1. pc' = [pc EXCEPT ![i] = "stuck"] /\ UNCHANGED <<run, cache, ended>>
        BY <1>16 DEF ItemThrows, GoesTo
      <3> QED
        BY <2>1, <3>1
  <1>17. ASSUME NEW i \in Items, ItemEnds(i) PROVE Agreed'
    BY <1>17, SMTT(60) DEF ItemEnds, GoesTo, Updated, Latest, StatusOf
  <1>18. ASSUME NEW p \in Powers, TakePower(p) PROVE Agreed'
    BY <1>18, SMTT(60) DEF TakePower, GoesTo, CreateRun
  <1>19. ASSUME NEW p \in Powers, StartPower(p) PROVE Agreed'
    BY <1>19, SMTT(60) DEF StartPower, GoesTo, Updated, Latest, Fault, Spend, Blame
  <1>20. ASSUME NEW p \in Powers, PowerGoesOn(p) PROVE Agreed'
    BY <1>20, SMTT(60) DEF PowerGoesOn, GoesTo
  <1>21. ASSUME NEW p \in Powers, PowerEnds(p) PROVE Agreed'
    <2>1. \A u \in Sends : /\ run'[u] = run[u] /\ ended'[u] = ended[u] /\ pc'[u] = pc[u]
                           /\ cause'[u] = cause[u]
      BY <1>21, PowerApart
    <2>2. UNCHANGED <<cache>>
      BY <1>21 DEF PowerEnds
    <2> QED
      BY <2>1, <2>2
  <1>27. ASSUME NEW p \in Powers, PowerIsTold(p) PROVE Agreed'
    <2>1. \A u \in Sends : /\ run'[u] = run[u] /\ ended'[u] = ended[u] /\ pc'[u] = pc[u]
                           /\ cause'[u] = cause[u]
      BY <1>27, PowerApart
    <2>2. UNCHANGED <<cache>>
      BY <1>27 DEF PowerIsTold
    <2> QED
      BY <2>1, <2>2
  <1>22. ASSUME Abort PROVE Agreed'
    <2>1. PICK W : Cancel(W)
      BY <1>22 DEF Abort
    <2>2. UNCHANGED <<conn, subs, runs, pc, cache, ended>>
      BY <1>22 DEF Abort
    <2>3. \A u \in Works :
             /\ run'[u] # run[u] => Live(u)
             /\ run'[u].status = run[u].status \/ run'[u].aborted
             /\ run[u].aborted => run'[u].aborted
             /\ Lost(u)' <=> Lost(u)
             /\ "early" \in cause[u] => "early" \in cause'[u]
             /\ "late" \in cause[u] => "late" \in cause'[u]
             /\ "dropped" \in cause[u] => "dropped" \in cause'[u]
      BY <2>1, CancelIs
    <2> QED
      BY <2>2, <2>3 DEF Live
  <1>23. ASSUME NEW s \in Sends, TimesOut(s) PROVE Agreed'
    BY <1>23, CancelIs, SMTT(60) DEF Live, TimesOut
  <1>24. ASSUME NEW w \in Works, Forgotten(w) PROVE Agreed'
    <2>1. \A u \in Works : \A x : x \in cause[u] => x \in cause'[u]
      BY <1>24 DEF Forgotten, Blame
    <2> QED
      <3>1. UNCHANGED <<run, pc, cache, ended>>
        BY <1>24 DEF Forgotten
      <3> QED
        BY <2>1, <3>1
  <1>25. ASSUME NEW k \in Keys, Lapses(k) PROVE Agreed'
    <2>1. \A w \in Works : \A x : x \in cause[w] => x \in cause'[w]
      BY <1>25 DEF Lapses, Blame
    <2>2. \A u \in Sends : IdOf[u] = k /\ At(u, Created) => Lost(u)'
      BY <1>25 DEF Lapses, Blame
    <2>3. UNCHANGED <<conn, subs, run, runs, pc, ended>> /\ \A u \in Sends : IdOf[u] # k => cache'[IdOf[u]] = cache[IdOf[u]]
      BY <1>25 DEF Lapses
    <2> QED
      BY <2>1, <2>2, <2>3
  <1>26. CASE UNCHANGED vars
    BY <1>26 DEF vars
  <1> QED
    BY <1>1, <1>2, <1>3, <1>4, <1>5, <1>6, <1>7, <1>8, <1>9, <1>10, <1>11, <1>12, <1>13, <1>14, <1>15, <1>16, <1>17, <1>18, <1>19, <1>20, <1>21, <1>22, <1>23, <1>24, <1>25, <1>26, <1>27 DEF Next, ChatStep, ItemStep, PowerStep

LEMMA OrphansKept == TypeOK /\ Books /\ Attended /\ [Next]_vars => Attended'
  <1> SUFFICES ASSUME TypeOK, Books, Attended, [Next]_vars PROVE Attended'
    OBVIOUS
  <1> USE Sorts, Typed DEF Books, Attended, runtimeVars, Active, Live, Watched, Known
  <1>1. ASSUME NEW c \in Clients, Connect(c) PROVE Attended'
    BY <1>1, SMTT(60) DEF Connect
  <1>2. ASSUME NEW c \in Clients, NEW s \in Sessions, Subscribe(c, s) PROVE Attended'
    BY <1>2, SMTT(60) DEF Subscribe, Spend, Subscribed, Known
  <1>3. ASSUME NEW c \in Clients, Unsubscribe(c) PROVE Attended'
    <2>1. /\ UNCHANGED <<conn, run, runs, pc>>
          /\ subs' = [subs EXCEPT ![c] = {}]
      BY <1>3 DEF Unsubscribe, Unsubscribed
    <2>2. \A w \in Works : \A x : x \in cause[w] => x \in cause'[w]
      BY <1>3 DEF Unsubscribe, Blame
    <2>3. \A u \in Sends :
             Active(u) /\ SessionOf[u] \in subs[c] /\ (\A d \in Known \ {c} : SessionOf[u] \notin subs[d])
                 => "dropped" \in cause'[u]
      BY <1>3 DEF Unsubscribe, Blame
    <2>4. SUFFICES ASSUME NEW u \in Sends, Active(u)', ~run'[u].aborted, ~Watched(SessionOf[u])',
                          "dropped" \notin cause'[u]
                   PROVE  Active(u) /\ ~run[u].aborted /\ ~Watched(SessionOf[u])
      BY <2>2
    <2>5. Active(u) /\ ~run[u].aborted
      BY <2>1, <2>4
    <2>6. \A d \in Known \ {c} : SessionOf[u] \notin subs[d]
      BY <2>1, <2>4 DEF TypeOK, RuntimeTypeOK
    <2> QED
      BY <2>3, <2>4, <2>5, <2>6
  <1>4. ASSUME NEW c \in Clients, Leave(c) PROVE Attended'
    BY <1>4, SMTT(60) DEF Leave
  <1>5. ASSUME NEW c \in Clients, CleanUp(c) PROVE Attended'
    <2> DEFINE W == UNION {RunsOf(s) : s \in {t \in subs[c] : OtherSubscribers(c, t) = {}}}
    <2>1. Cancel(W)
      BY <1>5 DEF CleanUp
    <2>2. /\ conn[c] = "closing" /\ conn' = [conn EXCEPT ![c] = "gone"]
          /\ subs' = [subs EXCEPT ![c] = {}]
          /\ runs' = runs
      BY <1>5 DEF CleanUp
    <2>3. \A u \in Works :
             /\ run'[u] # run[u] => Live(u)
             /\ u \in W /\ Active(u) => run'[u].aborted
             /\ run'[u].status = run[u].status \/ run'[u].aborted
             /\ run[u].aborted => run'[u].aborted
             /\ Lost(u)' <=> Lost(u)
             /\ "early" \in cause[u] => "early" \in cause'[u]
             /\ "late" \in cause[u] => "late" \in cause'[u]
             /\ "dropped" \in cause[u] => "dropped" \in cause'[u]
      BY <2>1, CancelIs
    <2>4. SUFFICES ASSUME NEW u \in Sends, Active(u)', ~run'[u].aborted, ~Watched(SessionOf[u])'
                   PROVE  Active(u) /\ ~run[u].aborted /\ ~Watched(SessionOf[u])
      BY <2>3
    <2>5. Active(u) /\ ~run[u].aborted
      BY <2>2, <2>3, <2>4
    <2>6. u \notin W
      BY <2>3, <2>4, <2>5
    <2>7. SessionOf[u] \in subs[c] => OtherSubscribers(c, SessionOf[u]) # {}
      BY <2>5, <2>6 DEF RunsOf
    <2>8. SessionOf[u] \notin subs[c]
      BY <2>2, <2>4, <2>7, TypeOK DEF OtherSubscribers, TypeOK, RuntimeTypeOK
    <2> QED
      BY <2>2, <2>4, <2>5, <2>8, SMTT(60) DEF TypeOK, RuntimeTypeOK
  <1>6. ASSUME NEW s \in Sends, Ask(s) PROVE Attended'
    BY <1>6, SMTT(60) DEF Ask, GoesTo
  <1>7. ASSUME NEW s \in Sends, Accept(s) PROVE Attended'
    <2>1. /\ conn' = conn /\ subs' = Subscribed(ClientOf[s], SessionOf[s])
          /\ ClientOf[s] \in Clients /\ SessionOf[s] \in Sessions
      BY <1>7, ChatAssumption, RuntimeAssumption DEF Accept
    <2>2. \A d \in Clients : subs[d] \subseteq subs'[d]
      BY <2>1 DEF Subscribed, TypeOK, RuntimeTypeOK
    <2>3. ClientOf[s] \in Known \/ Watched(SessionOf[s]) => Watched(SessionOf[s])'
      BY <2>1, <2>2 DEF Subscribed, TypeOK, RuntimeTypeOK
    <2>4. \A x : Watched(x) => Watched(x)'
      BY <2>1, <2>2
    <2>5. CASE GoesTo(s, "answered") /\ UNCHANGED <<run, runs, timer, cache, cause>>
      BY <2>1, <2>4, <2>5
    <2>6. CASE /\ cache[IdOf[s]] = "none" /\ CreateRun(s) /\ cache' = Reserved(s)
               /\ GoesTo(s, "think") \/ GoesTo(s, "verbose")
      <3>1. "late" \in cause'[s] \/ Watched(SessionOf[s])'
        BY <1>7, <2>3, <2>6 DEF Accept
      <3>2. \A u \in Works \ {s} : cause'[u] = cause[u] /\ run'[u] = run[u]
                                  /\ (runs'[IdOf[u]] = u => runs[IdOf[u]] = u)
        BY <1>7, <2>6 DEF Accept, CreateRun
      <3>3. SUFFICES ASSUME NEW u \in Sends, u # s, Active(u)', ~run'[u].aborted,
                            ~Watched(SessionOf[u])'
                     PROVE  Active(u) /\ ~run[u].aborted /\ ~Watched(SessionOf[u])
                            /\ cause'[u] = cause[u]
        BY <3>1
      <3>4. u \in Works \ {s}
        BY <3>3, ChatAssumption
      <3>5. ~Watched(SessionOf[u])
        BY <2>4, <3>3
      <3> QED
        BY <3>2, <3>3, <3>4, <3>5
    <2> QED
      BY <1>7, <2>5, <2>6 DEF Accept
  <1>8. ASSUME NEW s \in Sends, Think(s) PROVE Attended'
    BY <1>8, SMTT(60) DEF Think, GoesTo
  <1>9. ASSUME NEW s \in Sends, ThinkThrows(s) PROVE Attended'
    <2>1. \A w \in Works : \A x : x \in cause[w] => x \in cause'[w]
      BY <1>9 DEF ThinkThrows, Blame
    <2> QED
      BY <1>9, <2>1 DEF ThinkThrows, GoesTo, Fault, Spend
  <1>10. ASSUME NEW s \in Sends, Begin(s) PROVE Attended'
    BY <1>10, SMTT(60) DEF Begin, GoesTo, Updated, Latest
  <1>11. ASSUME NEW s \in Works, Prompt(s) PROVE Attended'
    BY <1>11, SMTT(60) DEF Prompt, GoesTo
  <1>12. ASSUME NEW s \in Sends, ChatEnds(s) PROVE Attended'
    <2>1. PICK returned \in BOOLEAN : Finish(s, returned)
      BY <1>12 DEF ChatEnds
    <2>2. /\ UNCHANGED <<conn, subs, runs, cause>>
          /\ run' = run \/ run' = Updated(s, StatusOf(EndOf(s, returned)))
      BY <1>12, <2>1 DEF ChatEnds, Finish
    <2>3. StatusOf(EndOf(s, returned)) \in {"completed", "error"}
      BY StatusOfType
    <2>4. \A u \in Works : /\ run'[u].aborted = run[u].aborted
                           /\ run'[u].status \in {run[u].status, "completed", "error"}
      BY <2>2, <2>3, UpdatedIs
    <2> QED
      BY <2>2, <2>4
  <1>13. ASSUME NEW i \in Items, LookItem(i) PROVE Attended'
    BY <1>13, SMTT(60) DEF LookItem, GoesTo
  <1>14. ASSUME NEW i \in Items, TakeItem(i) PROVE Attended'
    BY <1>14, SMTT(60) DEF TakeItem, GoesTo, CreateRun
  <1>15. ASSUME NEW i \in Items, StartItem(i) PROVE Attended'
    BY <1>15, SMTT(60) DEF StartItem, GoesTo, Updated, Latest
  <1>16. ASSUME NEW i \in Items, ItemThrows(i) PROVE Attended'
    <2>1. \A w \in Works : \A x : x \in cause[w] => x \in cause'[w]
      BY <1>16 DEF ItemThrows, Blame
    <2> QED
      BY <1>16, <2>1 DEF ItemThrows, GoesTo, Fault, Spend
  <1>17. ASSUME NEW i \in Items, ItemEnds(i) PROVE Attended'
    BY <1>17, SMTT(60) DEF ItemEnds, GoesTo, Updated, Latest, StatusOf
  <1>18. ASSUME NEW p \in Powers, TakePower(p) PROVE Attended'
    BY <1>18, SMTT(60) DEF TakePower, GoesTo, CreateRun
  <1>19. ASSUME NEW p \in Powers, StartPower(p) PROVE Attended'
    BY <1>19, SMTT(60) DEF StartPower, GoesTo, Updated, Latest, Fault, Spend, Blame
  <1>20. ASSUME NEW p \in Powers, PowerGoesOn(p) PROVE Attended'
    BY <1>20, SMTT(60) DEF PowerGoesOn, GoesTo
  <1>21. ASSUME NEW p \in Powers, PowerEnds(p) PROVE Attended'
    <2>1. \A u \in Sends : /\ run'[u] = run[u] /\ ended'[u] = ended[u] /\ pc'[u] = pc[u]
                           /\ cause'[u] = cause[u]
      BY <1>21, PowerApart
    <2>2. UNCHANGED <<conn, subs, runs>>
      BY <1>21 DEF PowerEnds
    <2> QED
      BY <2>1, <2>2
  <1>27. ASSUME NEW p \in Powers, PowerIsTold(p) PROVE Attended'
    <2>1. \A u \in Sends : /\ run'[u] = run[u] /\ ended'[u] = ended[u] /\ pc'[u] = pc[u]
                           /\ cause'[u] = cause[u]
      BY <1>27, PowerApart
    <2>2. UNCHANGED <<conn, subs, runs>>
      BY <1>27 DEF PowerIsTold
    <2> QED
      BY <2>1, <2>2
  <1>22. ASSUME Abort PROVE Attended'
    <2>1. PICK W : Cancel(W)
      BY <1>22 DEF Abort
    <2>2. UNCHANGED <<conn, subs, runs, pc, cache, ended>>
      BY <1>22 DEF Abort
    <2>3. \A u \in Works :
             /\ run'[u] # run[u] => Live(u)
             /\ run'[u].status = run[u].status \/ run'[u].aborted
             /\ run[u].aborted => run'[u].aborted
             /\ Lost(u)' <=> Lost(u)
             /\ "early" \in cause[u] => "early" \in cause'[u]
             /\ "late" \in cause[u] => "late" \in cause'[u]
             /\ "dropped" \in cause[u] => "dropped" \in cause'[u]
      BY <2>1, CancelIs
    <2> QED
      BY <2>2, <2>3 DEF Live
  <1>23. ASSUME NEW s \in Sends, TimesOut(s) PROVE Attended'
    BY <1>23, CancelIs, SMTT(60) DEF Live, TimesOut
  <1>24. ASSUME NEW w \in Works, Forgotten(w) PROVE Attended'
    <2>1. \A u \in Works : \A x : x \in cause[u] => x \in cause'[u]
      BY <1>24 DEF Forgotten, Blame
    <2> QED
      <3>1. UNCHANGED <<run, pc, conn, subs>>
        BY <1>24 DEF Forgotten
      <3>2. \A u \in Sends : runs'[IdOf[u]] = u => runs[IdOf[u]] = u
        BY <1>24 DEF Forgotten, Forget
      <3> QED
        BY <2>1, <3>1, <3>2
  <1>25. ASSUME NEW k \in Keys, Lapses(k) PROVE Attended'
    <2>1. \A w \in Works : \A x : x \in cause[w] => x \in cause'[w]
      BY <1>25 DEF Lapses, Blame
    <2>2. \A u \in Sends : IdOf[u] = k /\ At(u, Created) => Lost(u)'
      BY <1>25 DEF Lapses, Blame
    <2>3. UNCHANGED <<conn, subs, run, runs, pc, ended>> /\ \A u \in Sends : IdOf[u] # k => cache'[IdOf[u]] = cache[IdOf[u]]
      BY <1>25 DEF Lapses
    <2> QED
      BY <2>1, <2>2, <2>3
  <1>26. CASE UNCHANGED vars
    BY <1>26 DEF vars
  <1> QED
    BY <1>1, <1>2, <1>3, <1>4, <1>5, <1>6, <1>7, <1>8, <1>9, <1>10, <1>11, <1>12, <1>13, <1>14, <1>15, <1>16, <1>17, <1>18, <1>19, <1>20, <1>21, <1>22, <1>23, <1>24, <1>25, <1>26, <1>27 DEF Next, ChatStep, ItemStep, PowerStep

\* The event, the state of the run, its signal and the answer to a retry say
\* the same of a send's end (chat.ts:706-936), for every order in which aborts,
\* timers and its handler's steps come.
THEOREM EndsAgreed == Spec => []EndsAgree
  <1>1. Init => Agreed
    BY ChatAssumption DEF Init, Agreed
  <1>2. TypeOK /\ Agreed => EndsAgree
    BY DEF EndsAgree, Agreed
  <1> QED
    BY <1>1, <1>2, AgreeKept, ChatBooks, PTL DEF Spec

\* When the last connection to a session is gone, its chat runs have been
\* cancelled (server.ts:359), but for the excuses that NoOrphans names.
THEOREM NoOrphansLeft == Spec => []NoOrphans
  <1>1. Init => Attended
    BY ChatAssumption DEF Init, RuntimeInit, Attended, Active, Live
  <1>2. TypeOK /\ Attended => NoOrphans
    BY DEF NoOrphans, Attended
  <1> QED
    BY <1>1, <1>2, OrphansKept, ChatBooks, PTL DEF Spec
=============================================================================
