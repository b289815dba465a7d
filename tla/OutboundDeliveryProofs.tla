----------------------- MODULE OutboundDeliveryProofs -----------------------
(***************************************************************************)
(* Proofs about OutboundDelivery, for any number of processes, calls, keys *)
(* and sessions, any limits and any set of faults.                         *)
(***************************************************************************)
EXTENDS OutboundInvariant, FiniteSetTheorems, TLAPS

USE DEF Callers, Jobs, Posters, Senders

----------------------------------------------------------------------------
(* The statements map rows to rows.                                        *)

LEMMA JobStatements ==
    ASSUME NEW r \in JobRow
    PROVE  /\ ClaimedJob(r) \in JobRow
           /\ RetriedJob(r) \in JobRow
           /\ RecoveredJob(r) \in JobRow
           /\ CancelledJob(r) \in JobRow
           /\ PurgedJob(r) \in JobRow
           /\ \A why \in SentWhy : SentJob(r, why) \in JobRow
           /\ \A why \in DeadWhy : DeadJob(r, why) \in JobRow
           /\ \A why \in Results, n \in Nat : MarkedJob(r, why, n) \in JobRow
<1> USE DEF JobRow, JobStatus, Why, SentWhy, DeadWhy
<1>1. /\ ClaimedJob(r) \in JobRow
      /\ RecoveredJob(r) \in JobRow
      /\ CancelledJob(r) \in JobRow
      /\ PurgedJob(r) \in JobRow
  <2>1. ClaimedJob(r) \in JobRow    BY DEF ClaimedJob
  <2>2. RecoveredJob(r) \in JobRow  BY DEF RecoveredJob
  <2>3. CancelledJob(r) \in JobRow  BY DEF CancelledJob
  <2>4. PurgedJob(r) \in JobRow     BY DEF PurgedJob
  <2> QED BY <2>1, <2>2, <2>3, <2>4
<1>2. RetriedJob(r) \in JobRow
  <2>1. CASE Exists(r)
    <3>1. r.attempts + 1 \in Nat  OBVIOUS
    <3> QED BY <2>1, <3>1 DEF RetriedJob
  <2> QED BY <2>1 DEF RetriedJob
<1>3. \A why \in SentWhy : SentJob(r, why) \in JobRow
  BY DEF SentJob
<1>4. \A why \in DeadWhy : DeadJob(r, why) \in JobRow
  BY DEF DeadJob
<1>5. ASSUME NEW why \in Results, NEW n \in Nat
      PROVE  MarkedJob(r, why, n) \in JobRow
  <2>1. CASE why \in SentWhy
    BY <2>1, <1>3 DEF MarkedJob
  <2>2. CASE why \in DeadWhy
    BY <2>2, <1>4 DEF MarkedJob
  <2>3. CASE why \notin SentWhy \cup DeadWhy
    <3>1. MarkedJob(r, why, n) = IF n + 1 >= MaxAttempts
                                 THEN DeadJob(r, "exhausted") ELSE RetriedJob(r)
      BY <2>3 DEF MarkedJob
    <3> QED BY <3>1, <1>2, <1>4
  <2> QED BY <2>1, <2>2, <2>3
<1> QED BY <1>1, <1>2, <1>3, <1>4, <1>5

LEMMA ClockStatements ==
    /\ \A r \in JobRow : /\ LapsedJob(r) \in JobRow
                         /\ DueJob(r) \in JobRow
                         /\ ExpiredJob(r) \in JobRow
    /\ \A k \in KeyRow(Owners) : LapsedKey(k) \in KeyRow(Owners)
<1>1. ASSUME NEW r \in JobRow PROVE LapsedJob(r) \in JobRow
  BY DEF LapsedJob, JobRow
<1>2. ASSUME NEW r \in JobRow PROVE DueJob(r) \in JobRow
  BY DEF DueJob, JobRow
<1>3. ASSUME NEW r \in JobRow PROVE ExpiredJob(r) \in JobRow
  BY DEF ExpiredJob, JobRow
<1>4. ASSUME NEW k \in KeyRow(Owners) PROVE LapsedKey(k) \in KeyRow(Owners)
  BY DEF LapsedKey, KeyRow
<1> QED BY <1>1, <1>2, <1>3, <1>4

LEMMA WakeOperations ==
    ASSUME NEW w \in WakeRow
    PROVE  /\ Woken(w) \in WakeRow
           /\ Rested(w) \in WakeRow
           /\ Started(w) \in WakeRow
           /\ Postponed(w) \in WakeRow
           /\ Asleep \in WakeRow
<1>1. Woken(w) \in WakeRow      BY DEF Woken, WakeRow
<1>2. Rested(w) \in WakeRow     BY DEF Rested, WakeRow
<1>3. Started(w) \in WakeRow    BY DEF Started, WakeRow
<1>4. Postponed(w) \in WakeRow  BY DEF Postponed, WakeRow
<1>5. Asleep \in WakeRow        BY DEF Asleep, WakeRow
<1> QED BY <1>1, <1>2, <1>3, <1>4, <1>5

LEMMA EnqueuedIsRow ==
    ASSUME NEW n \in Nat PROVE NoJob \in JobRow /\ EnqueuedJob(n) \in JobRow
  BY DEF JobRow, JobStatus, Why, NoJob, EnqueuedJob

LEMMA KeyStatements ==
    ASSUME NEW k \in KeyRow(Owners), NEW o \in Owners
    PROVE  /\ PendingKey(o) \in KeyRow(Owners)
           /\ RefreshedKey(k, o) \in KeyRow(Owners)
           /\ MarkedKey(k, o) \in KeyRow(Owners)
           /\ ReleasedKey(k, o) \in KeyRow(Owners)
           /\ LookedUpKey(k) \in KeyRow(Owners)
           /\ SeenRow(k, o) \in {"reserved", "already-sent", "inflight", "mine"}
  BY DEF KeyRow, NoKey, PendingKey, RefreshedKey, MarkedKey, ReleasedKey,
         LookedUpKey, SeenRow

----------------------------------------------------------------------------
(* Type correctness.                                                       *)

LEMMA KeyAndOwner ==
    ASSUME TypeInv, NEW s \in Senders, s \in Procs => pc[s] \in WorkPC
    PROVE  Key(s) \in Keys /\ OwnerOf(s) \in Owners
  BY CallersAssumption, PlacementAssumption DEF TypeInv, TypeOK, Key, OwnerOf, Owners

LEMMA Names ==
    /\ "idle" \in PC /\ "sweep" \in PC /\ "claim" \in PC
    /\ "next" \in PC /\ "route" \in PC /\ "insert" \in PC
    /\ "select" \in PC /\ "refresh" \in PC /\ "post" \in PC
    /\ "settle" \in PC /\ "mark" \in PC /\ "rearm" \in PC
    /\ "rest" \in PC /\ "lookup" \in PC /\ "enqueue" \in PC
    /\ "wake" \in PC /\ "dup" \in PC /\ "done" \in PC
    /\ "none" \in Results /\ "delivered" \in Results /\ "failed" \in Results
    /\ "already-sent" \in Results /\ "inflight" \in Results /\ "hook" \in Results
    /\ "no-target" \in Results /\ "not-deliverable" \in Results
    /\ "slow" \in Causes /\ "crash" \in Causes /\ "lostAck" \in Causes
    /\ "db" \in Causes /\ "keyLapse" \in Causes /\ "refresh" \in Causes
  BY DEF PC, PumpPC, CallerPC, Results, Causes

LEMMA TypeInit == Init => TypeInv
<1> SUFFICES ASSUME Init PROVE TypeInv
  OBVIOUS
<1>1. NoJob \in JobRow
  BY EnqueuedIsRow
<1>2. NoKey \in KeyRow(Owners)
  BY DEF NoKey, KeyRow
<1>3. Woken(Asleep) \in WakeRow
  BY DEF Woken, Asleep, WakeRow
<1>4. pc \in [Senders -> PC]
  BY DEF Init, PC, PumpPC, CallerPC
<1>5. 0 \in 0 .. MaxFaults
  BY BoundsAssumption
<1>6. TypeOK
  BY <1>1, <1>2, <1>3, <1>4, <1>5 DEF Init, TypeOK, Results
<1>7. /\ \A p \in Procs : pc[p] \notin WorkPC
      /\ \A c \in Callers : pc[c] # "dup"
  BY CallersAssumption DEF Init, WorkPC
<1> QED BY <1>6, <1>7 DEF TypeInv

LEMMA BornIsNat == Cardinality({j \in Jobs : job[j].status # "absent"}) \in Nat
  BY CallersAssumption, FS_Subset, FS_CardinalityType

LEMMA TypeStep == TypeInv /\ [Next]_vars => TypeInv'
<1> SUFFICES ASSUME TypeInv, [Next]_vars PROVE TypeInv'
  OBVIOUS
<1> USE CallersAssumption, PlacementAssumption, BoundsAssumption, Names
<1> USE DEF TypeInv, TypeOK, WorkPC
<1>pump. ASSUME NEW p \in Procs, TimerFires(p) \/ Crash(p) \/ Restart(p)
         PROVE  TypeInv'
  <2>1. CASE TimerFires(p)
    <3> HIDE DEF WorkPC
    <3>1. PICK w \in WakeRow : wake' = [wake EXCEPT ![p] = w]
      <4>1. wake[p] \in WakeRow
        OBVIOUS
      <4> HIDE DEF TypeInv, TypeOK
      <4>2. \/ wake' = [wake EXCEPT ![p] = Started(wake[p])]
            \/ wake' = [wake EXCEPT ![p] = Postponed(wake[p])]
        BY <2>1 DEF TimerFires
      <4> QED BY <4>1, <4>2, WakeOperations
    <3>2. wake' \in [Procs -> WakeRow]
      BY <3>1
    <3>3. pc' = pc \/ pc' = [pc EXCEPT ![p] = "sweep"]
      BY <2>1 DEF TimerFires
    <3>4. pc' \in [Senders -> PC]
      BY <3>3 DEF PC, PumpPC
    <3>5. UNCHANGED <<job, idem, session, try, res, cur, batch, seen, up, posts, cause, faults>>
      BY <2>1 DEF TimerFires
    <3>6. TypeOK'
      BY <3>2, <3>4, <3>5
    <3>7. \A q \in Procs : pc'[q] \in WorkPC => cur'[q] \in Jobs
      BY <3>3, <3>5 DEF WorkPC
    <3>8. \A c \in Callers : pc'[c] = "dup" => res'[c] \in {"already-sent", "inflight"}
      BY <3>3, <3>5
    <3> QED BY <3>6, <3>7, <3>8
  <2>2. CASE Crash(p)
    <3>1. wake' \in [Procs -> WakeRow]
      BY <2>2, WakeOperations DEF Crash
    <3> QED BY <2>2, <3>1 DEF Crash, Fault, Blame, Key
  <2>3. CASE Restart(p)
    <3>1. job' \in [Jobs -> JobRow]
      BY <2>3, JobStatements DEF Restart
    <3>2. wake' \in [Procs -> WakeRow]
      BY <2>3, WakeOperations DEF Restart
    <3> QED BY <2>3, <3>1, <3>2 DEF Restart
  <2> QED BY <1>pump, <2>1, <2>2, <2>3
<1>send. ASSUME NEW s \in Senders, SendStep(s)
         PROVE  TypeInv'
  <2>0. pc[s] \in {"route", "insert", "select", "refresh", "post", "settle"}
    BY <1>send DEF SendStep, RouteFound, RouteEnds, RouteRetargeted,
       ReserveInsert, ReserveSelect, ReserveRefresh, ReserveFails, Post,
       PostLosesAck, Settle, SettleFails
  <2>a. Key(s) \in Keys /\ OwnerOf(s) \in Owners
    BY <2>0, KeyAndOwner
  <2>b. AfterSettle(s) =>
           /\ pc' \in [Senders -> PC]
           /\ try' \in [Senders -> {1, 2}]
           /\ res' \in [Senders -> Results]
           /\ \A p \in Procs : pc'[p] \in WorkPC => pc[p] \in WorkPC \/ p = s
           /\ \A c \in Callers : pc'[c] = "dup" => pc[c] = "dup" /\ res'[c] = res[c]
    <3> SUFFICES ASSUME AfterSettle(s)
                 PROVE  /\ pc' \in [Senders -> PC]
                        /\ try' \in [Senders -> {1, 2}]
                        /\ res' \in [Senders -> Results]
                        /\ \A p \in Procs : pc'[p] \in WorkPC => pc[p] \in WorkPC \/ p = s
                        /\ \A c \in Callers : pc'[c] = "dup" => pc[c] = "dup" /\ res'[c] = res[c]
      OBVIOUS
    <3>0. AfterSend(s) \in {"mark", "done"}
      BY DEF AfterSend
    <3>1. CASE /\ try' = [try EXCEPT ![s] = 2]
               /\ pc' = [pc EXCEPT ![s] = "route"]
               /\ res' = [res EXCEPT ![s] = "none"]
      BY <3>1, <2>0
    <3>2. CASE /\ try' = try
               /\ pc' = [pc EXCEPT ![s] = AfterSend(s)]
               /\ res' = res \/ res' = [res EXCEPT ![s] = "none"]
      <4>1. CASE res' = res
        BY <3>2, <3>0, <4>1, <2>0
      <4>2. CASE res' = [res EXCEPT ![s] = "none"]
        BY <3>2, <3>0, <4>2, <2>0
      <4> QED BY <3>2, <4>1, <4>2
    <3> QED BY <3>1, <3>2 DEF AfterSettle
  <2>c. AfterReserve(s) \in {"wake", "post"}
    BY DEF AfterReserve
  <2>1. CASE RouteFound(s)
    BY <2>1 DEF RouteFound
  <2>2. CASE RouteEnds(s)
    BY <2>2 DEF RouteEnds, AfterSend
  <2>3. CASE RouteRetargeted(s)
    BY <2>3 DEF RouteRetargeted
  <2>4. CASE ReserveInsert(s)
    <3>1. CASE CanInsert(idem[Key(s)])
      <4>1. /\ idem' = [idem EXCEPT ![Key(s)] = PendingKey(OwnerOf(s))]
            /\ pc' = [pc EXCEPT ![s] = AfterReserve(s)]
        BY <2>4, <3>1 DEF ReserveInsert
      <4>2. idem' \in [Keys -> KeyRow(Owners)]
        BY <4>1, <2>a, KeyStatements
      <4> QED BY <2>4, <2>c, <4>1, <4>2 DEF ReserveInsert
    <3>2. CASE ~CanInsert(idem[Key(s)])
      <4>1. idem' = idem /\ pc' = [pc EXCEPT ![s] = "select"]
        BY <2>4, <3>2 DEF ReserveInsert
      <4> QED BY <2>4, <4>1 DEF ReserveInsert
    <3> QED BY <3>1, <3>2
  <2>5. CASE ReserveSelect(s)
    <3> DEFINE row == SeenRow(idem[Key(s)], OwnerOf(s))
    <3>1. CASE row \in {"already-sent", "inflight"}
      <4>1. /\ res' = res \/ res' = [res EXCEPT ![s] = row]
            /\ s \in DurableCallers => res' = [res EXCEPT ![s] = row]
            /\ pc' = [pc EXCEPT ![s] = AfterRefuse(s)]
        BY <2>5, <3>1 DEF ReserveSelect
      <4>2. \A c \in Callers : pc'[c] = "dup" => res'[c] \in {"already-sent", "inflight"}
        BY <4>1, <3>1 DEF AfterRefuse
      <4>3. AfterRefuse(s) \in {"mark", "dup", "done"} /\ row \in Results
        BY <3>1 DEF AfterRefuse
      <4>4. res' \in [Senders -> Results]
        <5>1. CASE res' = res
          BY <5>1
        <5>2. CASE res' = [res EXCEPT ![s] = row]
          BY <5>2, <4>3
        <5> QED BY <4>1, <5>1, <5>2
      <4> QED BY <2>5, <4>1, <4>2, <4>3, <4>4 DEF ReserveSelect
    <3>2. CASE row \notin {"already-sent", "inflight"}
      <4>1. /\ res' = res
            /\ \/ pc' = [pc EXCEPT ![s] = AfterReserve(s)]
               \/ pc' = [pc EXCEPT ![s] = "refresh"]
        BY <2>5, <3>2 DEF ReserveSelect
      <4>2. CASE pc' = [pc EXCEPT ![s] = AfterReserve(s)]
        BY <2>5, <2>c, <4>1, <4>2 DEF ReserveSelect
      <4>3. CASE pc' = [pc EXCEPT ![s] = "refresh"]
        BY <2>5, <4>1, <4>3 DEF ReserveSelect
      <4> QED BY <4>1, <4>2, <4>3
    <3> QED BY <3>1, <3>2
  <2>6. CASE ReserveRefresh(s)
    <3>1. idem' \in [Keys -> KeyRow(Owners)]
      BY <2>6, <2>a, KeyStatements DEF ReserveRefresh
    <3> QED BY <2>6, <2>a, <3>1 DEF ReserveRefresh, AfterReserve, Blame
  <2>7. CASE ReserveFails(s)
    BY <2>7, <2>a DEF ReserveFails, AfterReserve, Blame, Fault
  <2>8. CASE Post(s)
    <3>1. posts[Key(s)] + 1 \in Nat
      BY <2>a
    <3>2. CASE /\ posts' = [posts EXCEPT ![Key(s)] = posts[Key(s)] + 1]
               /\ res' = [res EXCEPT ![s] = "delivered"]
      BY <2>8, <2>a, <3>1, <3>2 DEF Post
    <3>3. CASE /\ posts' = posts
               /\ res' = [res EXCEPT ![s] = "failed"]
      BY <2>8, <3>3 DEF Post
    <3> QED BY <2>8, <3>2, <3>3 DEF Post
  <2>9. CASE PostLosesAck(s)
    BY <2>9, <2>a DEF PostLosesAck, Fault, Blame
  <2>10. CASE Settle(s)
    <3>1. idem' \in [Keys -> KeyRow(Owners)]
      BY <2>10, <2>a, KeyStatements DEF Settle
    <3> QED BY <2>10, <2>b, <3>1 DEF Settle
  <2>11. CASE SettleFails(s)
    BY <2>11, <2>a, <2>b DEF SettleFails, Fault, Blame
  <2> QED BY <1>send, <2>1, <2>2, <2>3, <2>4, <2>5, <2>6, <2>7, <2>8, <2>9,
             <2>10, <2>11 DEF SendStep
<1>work. ASSUME NEW p \in Procs,
                Sweep(p) \/ Claim(p) \/ CheckSession(p) \/ Mark(p)
                \/ LookAhead(p) \/ EndPass(p) \/ PassThrows(p)
         PROVE  TypeInv'
  <2>1. CASE Sweep(p)
    <3>1. job' \in [Jobs -> JobRow]
      BY <2>1, JobStatements DEF Sweep
    <3> QED BY <2>1, <3>1 DEF Sweep
  <2>2. CASE Claim(p)
    <3>1. job' \in [Jobs -> JobRow]
      BY <2>2, JobStatements DEF Claim
    <3>2. Picked \subseteq Jobs
      BY DEF Picked, Ready
    <3>3. \A j \in Jobs : job[j].attempts \in Nat
      BY DEF JobRow
    <3> QED BY <2>2, <3>1, <3>2, <3>3 DEF Claim
  <2>3. CASE CheckSession(p)
    <3>1. PICK j \in batch[p], dbFails \in BOOLEAN :
             /\ IF dbFails THEN Fault("db") ELSE UNCHANGED faults
             /\ cur' = [cur EXCEPT ![p] = j]
             /\ batch' = [batch EXCEPT ![p] = @ \ {j}]
             /\ IF Deliverable(SessionOf[j]) /\ ~dbFails
                THEN pc' = [pc EXCEPT ![p] = "route"] /\ UNCHANGED res
                ELSE /\ pc' = [pc EXCEPT ![p] = "mark"]
                     /\ res' = [res EXCEPT ![p] = "not-deliverable"]
      BY <2>3, Zenon DEF CheckSession
    <3>2. faults' \in 0 .. MaxFaults
      BY <3>1 DEF Fault
    <3>3. CASE pc' = [pc EXCEPT ![p] = "route"] /\ res' = res
      BY <2>3, <3>1, <3>2, <3>3 DEF CheckSession
    <3>4. CASE /\ pc' = [pc EXCEPT ![p] = "mark"]
               /\ res' = [res EXCEPT ![p] = "not-deliverable"]
      BY <2>3, <3>1, <3>2, <3>4 DEF CheckSession
    <3> QED BY <3>1, <3>3, <3>4
  <2>4. CASE Mark(p)
    <3>1. cur[p] \in Jobs /\ seen[p][cur[p]] \in Nat /\ res[p] \in Results
      BY <2>4 DEF Mark
    <3>2. job' \in [Jobs -> JobRow]
      BY <2>4, <3>1, JobStatements DEF Mark
    <3> QED BY <2>4, <3>1, <3>2 DEF Mark
  <2>5. CASE LookAhead(p)
    BY <2>5 DEF LookAhead
  <2>6. CASE EndPass(p)
    <3>1. wake' \in [Procs -> WakeRow]
      <4>1. \A w \in WakeRow : Rested(Woken(w)) \in WakeRow
        BY WakeOperations
      <4> QED BY <2>6, <4>1, WakeOperations DEF EndPass
    <3> QED BY <2>6, <3>1 DEF EndPass
  <2>7. CASE PassThrows(p)
    <3>1. wake' \in [Procs -> WakeRow]
      <4>1. \A w \in WakeRow : Rested(Woken(w)) \in WakeRow
        BY WakeOperations
      <4> QED BY <2>7, <4>1 DEF PassThrows
    <3> QED BY <2>7, <3>1 DEF PassThrows, Fault
  <2> QED BY <1>work, <2>1, <2>2, <2>3, <2>4, <2>5, <2>6, <2>7
<1>call. ASSUME NEW c \in Callers,
                DurableRoute(c) \/ LookUp(c) \/ Enqueue(c) \/ MarkDuplicate(c)
                \/ WakePump(c) \/ CallThrows(c)
         PROVE  TypeInv'
  <2>a. Key(c) \in Keys /\ OwnerOf(c) \in Owners
    BY KeyAndOwner
  <2>1. CASE DurableRoute(c)
    BY <2>1 DEF DurableRoute
  <2>2. CASE LookUp(c)
    <3>1. idem' \in [Keys -> KeyRow(Owners)]
      BY <2>2, <2>a, KeyStatements DEF LookUp
    <3> QED BY <2>2, <3>1 DEF LookUp, Fault
  <2>3. CASE Enqueue(c)
    <3>1. job' \in [Jobs -> JobRow]
      BY <2>3, BornIsNat, EnqueuedIsRow DEF Enqueue
    <3> QED BY <2>3, <3>1 DEF Enqueue
  <2>4. CASE MarkDuplicate(c)
    <3>1. res[c] \in SentWhy
      BY <2>4 DEF MarkDuplicate, SentWhy
    <3>2. job' \in [Jobs -> JobRow]
      BY <2>4, <3>1, JobStatements DEF MarkDuplicate
    <3> QED BY <2>4, <3>2 DEF MarkDuplicate
  <2>5. CASE WakePump(c)
    <3>1. wake' \in [Procs -> WakeRow]
      BY <2>5, WakeOperations DEF WakePump
    <3> QED BY <2>5, <3>1 DEF WakePump
  <2>6. CASE CallThrows(c)
    BY <2>6 DEF CallThrows, Fault
  <2> QED BY <1>call, <2>1, <2>2, <2>3, <2>4, <2>5, <2>6
<1>clock. ASSUME ClockStep
          PROVE  TypeInv'
  <2>1. ASSUME NEW j \in Jobs, ClaimLapses(j) \/ FallsDue(j) \/ Expires(j)
        PROVE  TypeInv'
    <3>1. job' \in [Jobs -> JobRow]
      <4>1. \/ job' = [job EXCEPT ![j] = LapsedJob(job[j])]
            \/ job' = [job EXCEPT ![j] = DueJob(job[j])]
            \/ job' = [job EXCEPT ![j] = ExpiredJob(job[j])]
        BY <2>1 DEF ClaimLapses, FallsDue, Expires
      <4>2. /\ LapsedJob(job[j]) \in JobRow
            /\ DueJob(job[j]) \in JobRow
            /\ ExpiredJob(job[j]) \in JobRow
        BY ClockStatements
      <4>3. PICK row \in JobRow : job' = [job EXCEPT ![j] = row]
        BY <4>1, <4>2
      <4> QED BY <4>3
    <3>2. faults' \in 0 .. MaxFaults /\ cause' \in [Keys -> SUBSET Causes]
      <4>1. CASE ClaimLapses(j) /\ \E p \in Procs : Holds(p, j)
        <5>1. Fault("slow") /\ cause' = Blame(KeyOf[j], "slow")
          BY <4>1 DEF ClaimLapses
        <5> QED BY <5>1 DEF Fault, Blame
      <4>2. CASE UNCHANGED <<faults, cause>>
        BY <4>2
      <4> QED BY <2>1, <4>1, <4>2 DEF ClaimLapses, FallsDue, Expires
    <3> QED BY <2>1, <3>1, <3>2 DEF ClaimLapses, FallsDue, Expires
  <2>2. ASSUME NEW k \in Keys, KeyLapses(k)
        PROVE  TypeInv'
    <3>1. idem' \in [Keys -> KeyRow(Owners)]
      BY <2>2, ClockStatements DEF KeyLapses
    <3> QED BY <2>2, <3>1 DEF KeyLapses, Fault, Blame
  <2>3. CASE CleanUpKeys
    <3>1. idem' \in [Keys -> KeyRow(Owners)]
      BY <2>3 DEF CleanUpKeys, KeyRow, LookedUpKey, NoKey
    <3> QED BY <2>3, <3>1 DEF CleanUpKeys
  <2>4. CASE CleanUpJobs
    <3>1. job' \in [Jobs -> JobRow]
      BY <2>4, JobStatements DEF CleanUpJobs
    <3> QED BY <2>4, <3>1 DEF CleanUpJobs
  <2> QED BY <1>clock, <2>1, <2>2, <2>3, <2>4 DEF ClockStep
<1>session. ASSUME NEW s \in Sessions, CloseSession(s) \/ CancelJobs(s)
            PROVE  TypeInv'
  <2>1. CASE CloseSession(s)
    BY <2>1 DEF CloseSession
  <2>2. CASE CancelJobs(s)
    <3>1. job' \in [Jobs -> JobRow]
      BY <2>2, JobStatements DEF CancelJobs
    <3> QED BY <2>2, <3>1 DEF CancelJobs
  <2> QED BY <1>session, <2>1, <2>2
<1>stutter. CASE UNCHANGED vars
  BY <1>stutter DEF vars
<1> QED BY <1>pump, <1>send, <1>work, <1>call, <1>clock, <1>session, <1>stutter
        DEF Next, PumpStep, CallStep

\* Every variable keeps its type.
THEOREM TypeCorrect == Spec => []TypeOK
<1>1. TypeInv => TypeOK
  BY DEF TypeInv
<1> QED BY <1>1, TypeInit, TypeStep, PTL DEF Spec

----------------------------------------------------------------------------
(* A job that waits for a pump is on somebody's mind.                      *)

Minded(j) ==
    \/ \E p \in Procs : \/ ~up[p] \/ wake[p].timer \/ wake[p].again
                       \/ pc[p] \notin {"idle", "rest"}
    \/ pc[j] \in {"insert", "select", "refresh", "wake", "dup"}

LEMMA TimerIsSet ==
    ASSUME NEW w \in WakeRow
    PROVE  /\ Woken(w) \in WakeRow /\ Woken(w).timer
           /\ w.timer \/ w.again => Rested(w).timer
           /\ Postponed(w).again
  BY DEF WakeRow, Woken, Rested, Postponed

LEMMA MindedStep ==
    ASSUME TypeInv, NoLostWake, "db" \notin Faults, [Next]_vars
    PROVE  NoLostWake'
<1> SUFFICES ASSUME NEW j \in Jobs, AwaitsPump(job[j])' PROVE Minded(j)'
  BY DEF NoLostWake, Minded
<1> USE CallersAssumption, PlacementAssumption
<1>0. AwaitsPump(job[j]) => Minded(j)
  BY DEF NoLostWake, Minded
<1>t. /\ wake \in [Procs -> WakeRow] /\ up \in [Procs -> BOOLEAN]
      /\ pc \in [Senders -> PC] /\ job \in [Jobs -> JobRow]
  BY DEF TypeInv, TypeOK
<1>now. AwaitsPump(job'[j])
  OBVIOUS
<1>nodb. ~Fault("db")
  BY DEF Fault
<1>fires. ASSUME NEW p \in Procs, TimerFires(p) PROVE Minded(j)'
  <2>1. CASE pc[p] = "idle"
    BY <1>fires, <1>t, <2>1 DEF TimerFires, Minded
  <2>2. CASE pc[p] # "idle"
    BY <1>fires, <1>t, <2>2, TimerIsSet DEF TimerFires, Minded
  <2> QED BY <2>1, <2>2
<1>crash. ASSUME NEW p \in Procs, Crash(p) PROVE Minded(j)'
  BY <1>crash, <1>t DEF Crash, Minded
<1>restart. ASSUME NEW p \in Procs, Restart(p) PROVE Minded(j)'
  BY <1>restart, <1>t, TimerIsSet DEF Restart, Minded
<1>work. ASSUME NEW p \in Procs,
                Sweep(p) \/ Claim(p) \/ CheckSession(p) \/ Mark(p)
         PROVE  Minded(j)'
  <2>1. /\ pc' \in [Senders -> PC]
        /\ pc'[p] \in {"claim", "next", "route", "mark"}
    BY <1>work, <1>t, Names DEF Sweep, Claim, CheckSession, Mark
  <2> QED BY <2>1 DEF Minded
<1>look. ASSUME NEW p \in Procs, LookAhead(p) PROVE Minded(j)'
  <2>1. job' = job /\ pc' = [pc EXCEPT ![p] = "rearm"]
    BY <1>look DEF LookAhead
  <2> QED BY <2>1, <1>t DEF Minded
<1>end. ASSUME NEW p \in Procs, EndPass(p) PROVE Minded(j)'
  <2>1. /\ job' = job /\ up' = up
        /\ pc' = [pc EXCEPT ![p] = "idle"]
        /\ pc[p] \in {"rearm", "rest"}
        /\ wake' = [wake EXCEPT ![p] =
                      Rested(IF pc[p] = "rearm" THEN Woken(wake[p]) ELSE wake[p])]
    BY <1>end DEF EndPass
  <2>2. CASE pc[p] = "rearm" \/ wake[p].timer \/ wake[p].again
    <3>1. wake'[p].timer
      <4>1. CASE pc[p] = "rearm"
        BY <2>1, <4>1, <1>t, TimerIsSet
      <4>2. CASE pc[p] # "rearm" /\ (wake[p].timer \/ wake[p].again)
        BY <2>1, <4>2, <1>t, TimerIsSet
      <4> QED BY <2>2, <4>1, <4>2
    <3> QED BY <3>1 DEF Minded
  <2>3. CASE pc[p] = "rest" /\ ~wake[p].timer /\ ~wake[p].again
    <3>1. \A q \in Senders : q # p => pc'[q] = pc[q]
      BY <2>1, <1>t
    <3>2. \A q \in Procs : q # p => wake'[q] = wake[q]
      BY <2>1, <1>t
    <3>3. p # j
      OBVIOUS
    <3>4. wake'[p].timer \/ up'[p] = up[p]
      BY <2>1
    <3> QED BY <1>0, <2>1, <2>3, <3>1, <3>2, <3>3, <3>4 DEF Minded
  <2> QED BY <2>1, <2>2, <2>3
<1>throws. ASSUME NEW p \in Procs, PassThrows(p) PROVE FALSE
  BY <1>throws, <1>nodb DEF PassThrows
<1>send. ASSUME NEW s \in Senders, SendStep(s) PROVE Minded(j)'
  <2>1. UNCHANGED <<job, up, wake>>
    BY <1>send DEF SendStep, RouteFound, RouteEnds, RouteRetargeted,
       ReserveInsert, ReserveSelect, ReserveRefresh, ReserveFails, Post,
       PostLosesAck, Settle, SettleFails
  <2>2. \A q \in Senders : q # s => pc'[q] = pc[q]
    BY <1>send, <1>t DEF SendStep, RouteFound, RouteEnds, RouteRetargeted,
       ReserveInsert, ReserveSelect, ReserveRefresh, ReserveFails, Post,
       PostLosesAck, Settle, SettleFails, AfterSettle
  <2>3. s \in Procs => pc'[s] \notin {"idle", "rest"}
    BY <1>send, <1>t DEF SendStep, RouteFound, RouteEnds, RouteRetargeted,
       ReserveInsert, ReserveSelect, ReserveRefresh, ReserveFails, Post,
       PostLosesAck, Settle, SettleFails, AfterSettle, AfterSend, AfterReserve,
       AfterRefuse
  <2>4. s \in Jobs => pc'[s] \in {"insert", "select", "refresh", "wake", "dup"}
    BY <1>send, <1>t DEF SendStep, RouteFound, RouteEnds, RouteRetargeted,
       ReserveInsert, ReserveSelect, ReserveRefresh, ReserveFails, Post,
       PostLosesAck, Settle, SettleFails, AfterReserve, AfterRefuse
  <2> QED BY <1>0, <2>1, <2>2, <2>3, <2>4 DEF Minded
<1>wake. ASSUME NEW c \in Callers, WakePump(c) PROVE Minded(j)'
  BY <1>wake, <1>t, TimerIsSet DEF WakePump, Minded
<1>call. ASSUME NEW c \in Callers,
                DurableRoute(c) \/ LookUp(c) \/ Enqueue(c) \/ MarkDuplicate(c)
         PROVE  Minded(j)'
  <2>1. /\ UNCHANGED <<up, wake>>
        /\ \A q \in Senders : q # c => pc'[q] = pc[q]
    BY <1>call, <1>t DEF DurableRoute, LookUp, Enqueue, MarkDuplicate
  <2>2. CASE c # j
    <3>1. job'[j] = job[j]
      BY <1>call, <1>t, <2>2 DEF DurableRoute, LookUp, Enqueue, MarkDuplicate
    <3> QED BY <1>0, <2>1, <2>2, <3>1 DEF Minded
  <2>3. CASE c = j /\ Enqueue(c)
    BY <2>3, <1>t DEF Enqueue, Minded
  <2>4. CASE c = j /\ (DurableRoute(c) \/ LookUp(c))
    <3>1. job' = job /\ pc[c] \in {"route", "lookup"}
      BY <2>4 DEF DurableRoute, LookUp
    <3> QED BY <1>0, <2>1, <2>4, <3>1 DEF Minded
  <2>5. CASE c = j /\ MarkDuplicate(c)
    <3>1. job'[j] = SentJob(job[j], res[j])
      BY <2>5, <1>t DEF MarkDuplicate
    <3>2. job[j] \in JobRow
      BY <1>t
    <3>3. ~AwaitsPump(SentJob(job[j], res[j]))
      BY <3>2 DEF SentJob, AwaitsPump, Claimable, Exists, JobRow
    <3> QED BY <3>1, <3>3
  <2> QED BY <1>call, <2>2, <2>3, <2>4, <2>5
<1>cthrows. ASSUME NEW c \in Callers, CallThrows(c) PROVE FALSE
  BY <1>cthrows, <1>nodb DEF CallThrows
<1>frame. ASSUME UNCHANGED <<pc, up, wake>>, AwaitsPump(job[j]) PROVE Minded(j)'
  BY <1>0, <1>frame DEF Minded
<1>clock. ASSUME ClockStep \/ \E s \in Sessions : CloseSession(s) \/ CancelJobs(s)
          PROVE  Minded(j)'
  <2>1. UNCHANGED <<pc, up, wake>>
    BY <1>clock DEF ClockStep, ClaimLapses, FallsDue, Expires, KeyLapses,
       CleanUpKeys, CleanUpJobs, CloseSession, CancelJobs
  <2>2. \/ job'[j] = job[j]
        \/ job'[j] \in {LapsedJob(job[j]), DueJob(job[j]), ExpiredJob(job[j])}
        \/ job'[j] \in {PurgedJob(job[j]), CancelledJob(job[j])}
    BY <1>clock, <1>t DEF ClockStep, ClaimLapses, FallsDue, Expires, KeyLapses,
       CleanUpKeys, CleanUpJobs, CloseSession, CancelJobs
  <2>3. AwaitsPump(job[j])
    <3>0. job[j] \in JobRow
      BY <1>t
    <3>1. CASE job'[j] \in {LapsedJob(job[j]), DueJob(job[j]), ExpiredJob(job[j])}
      BY <3>0, <3>1 DEF LapsedJob, DueJob, ExpiredJob, AwaitsPump, JobRow
    <3>2. CASE job'[j] \in {PurgedJob(job[j]), CancelledJob(job[j])}
      BY <3>0, <3>2 DEF PurgedJob, CancelledJob, AwaitsPump, Claimable, Active, JobRow
    <3>3. CASE job'[j] = job[j]
      BY <3>3, <1>now DEF AwaitsPump
    <3> QED BY <2>2, <3>1, <3>2, <3>3
  <2> QED BY <1>frame, <2>1, <2>3
<1>stutter. CASE UNCHANGED vars
  BY <1>frame, <1>stutter DEF vars
<1> QED BY <1>fires, <1>crash, <1>restart, <1>work, <1>look, <1>end, <1>throws,
           <1>send, <1>wake, <1>call, <1>cthrows, <1>clock, <1>stutter
        DEF Next, PumpStep, CallStep

\* As long as no statement throws, a job that a pump should still pick up is
\* never forgotten, whatever crashes and restarts.
THEOREM WakeNeverLost ==
    ASSUME "db" \notin Faults PROVE Spec => []NoLostWake
<1>1. Init => NoLostWake
  BY DEF Init, NoLostWake, AwaitsPump, NoJob, Claimable
<1>2. TypeInv /\ NoLostWake /\ [Next]_vars => NoLostWake'
  BY MindedStep
<1> QED BY <1>1, <1>2, TypeInit, TypeStep, PTL DEF Spec


(***************************************************************************)
(* Why a message is posted once: OnceInv of OutboundInvariant is inductive *)
(* for any number of processes, calls, keys and sessions, any limits and   *)
(* any set of faults.  One lemma for each of its conjuncts.                *)
(***************************************************************************)

----------------------------------------------------------------------------
(* What the causes, the owners and the rows allow.                         *)

\* A cause is never forgotten.
LEMMA CauseGrows ==
    ASSUME TypeInv, [Next]_vars, NEW k \in Keys
    PROVE  cause[k] \subseteq cause'[k]
<1>1. \/ cause' = cause
      \/ \E l \in Keys, why \in Causes : cause' = Blame(l, why)
  <2> USE Names
  <2>1. ASSUME NEW p \in Procs, TimerFires(p) \/ Crash(p) \/ Restart(p)
        PROVE  cause' = cause \/ \E l \in Keys, why \in Causes : cause' = Blame(l, why)
    <3>1. pc[p] = "settle" => Key(p) \in Keys
      BY KeyAndOwner DEF WorkPC
    <3> QED BY <2>1, <3>1 DEF TimerFires, Crash, Restart
  <2>2. ASSUME NEW s \in Senders, SendStep(s)
        PROVE  cause' = cause \/ \E l \in Keys, why \in Causes : cause' = Blame(l, why)
    <3>1. pc[s] \in {"route", "insert", "select", "refresh", "post", "settle"}
      BY <2>2 DEF SendStep, RouteFound, RouteEnds, RouteRetargeted,
         ReserveInsert, ReserveSelect, ReserveRefresh, ReserveFails, Post,
         PostLosesAck, Settle, SettleFails
    <3>2. Key(s) \in Keys
      BY <3>1, KeyAndOwner DEF WorkPC
    <3> QED BY <2>2, <3>2 DEF SendStep, RouteFound, RouteEnds, RouteRetargeted,
         ReserveInsert, ReserveSelect, ReserveRefresh, ReserveFails, Post,
         PostLosesAck, Settle, SettleFails
  <2>3. ASSUME ClockStep
        PROVE  cause' = cause \/ \E l \in Keys, why \in Causes : cause' = Blame(l, why)
    <3>1. \A j \in Jobs : KeyOf[j] \in Keys
      BY PlacementAssumption
    <3> QED BY <2>3, <3>1 DEF ClockStep, ClaimLapses, FallsDue, Expires, KeyLapses,
         CleanUpKeys, CleanUpJobs
  <2>4. ASSUME NEW p \in Procs,
               Sweep(p) \/ Claim(p) \/ CheckSession(p) \/ Mark(p)
               \/ LookAhead(p) \/ EndPass(p) \/ PassThrows(p)
        PROVE  cause' = cause
    BY <2>4 DEF Sweep, Claim, CheckSession, Mark, LookAhead, EndPass, PassThrows
  <2>5. ASSUME NEW c \in Callers,
               DurableRoute(c) \/ LookUp(c) \/ Enqueue(c) \/ MarkDuplicate(c)
               \/ WakePump(c) \/ CallThrows(c)
        PROVE  cause' = cause
    BY <2>5 DEF DurableRoute, LookUp, Enqueue, MarkDuplicate, WakePump, CallThrows
  <2>6. ASSUME NEW s \in Sessions, CloseSession(s) \/ CancelJobs(s)
        PROVE  cause' = cause
    BY <2>6 DEF CloseSession, CancelJobs
  <2>7. CASE UNCHANGED vars
    BY <2>7 DEF vars
  <2> QED BY <2>1, <2>2, <2>3, <2>4, <2>5, <2>6, <2>7 DEF Next, PumpStep, CallStep
<1>2. cause \in [Keys -> SUBSET Causes]
  BY DEF TypeInv, TypeOK
<1> QED BY <1>1, <1>2 DEF Blame

\* Every step but a claim can only take a job from a pump.
LEMMA HoldsShrink ==
    ASSUME TypeInv, [Next]_vars, NEW p \in Procs, NEW j \in Jobs, Holds(p, j)'
    PROVE  Holds(p, j) \/ (Claim(p) /\ j \in Picked)
<1> USE DEF Holds, TypeInv, TypeOK
<1>1. CASE UNCHANGED <<cur, batch>>
  BY <1>1
<1>2. ASSUME NEW q \in Procs, Claim(q)
      PROVE  Holds(p, j) \/ (Claim(p) /\ j \in Picked)
  <2>1. CASE q = p
    BY <1>2, <2>1 DEF Claim
  <2>2. CASE q # p
    BY <1>2, <2>2 DEF Claim
  <2> QED BY <2>1, <2>2
<1>3. ASSUME NEW q \in Procs, CheckSession(q)
      PROVE  Holds(p, j)
  <2>1. PICK i \in batch[q] : /\ cur' = [cur EXCEPT ![q] = i]
                              /\ batch' = [batch EXCEPT ![q] = @ \ {i}]
    BY <1>3 DEF CheckSession
  <2> QED BY <2>1
<1>4. ASSUME NEW q \in Procs, Mark(q) \/ PassThrows(q) \/ Crash(q)
      PROVE  Holds(p, j)
  <2>1. /\ cur' = [cur EXCEPT ![q] = None]
        /\ batch' = batch \/ batch' = [batch EXCEPT ![q] = {}]
    BY <1>4 DEF Mark, PassThrows, Crash
  <2>2. None \notin Jobs
    BY CallersAssumption
  <2> QED BY <2>1, <2>2
<1>5. ASSUME NEW q \in Procs,
             TimerFires(q) \/ Restart(q) \/ Sweep(q) \/ LookAhead(q) \/ EndPass(q)
      PROVE  UNCHANGED <<cur, batch>>
  BY <1>5 DEF TimerFires, Restart, Sweep, LookAhead, EndPass
<1>6. ASSUME NEW s \in Senders, SendStep(s)
      PROVE  UNCHANGED <<cur, batch>>
  BY <1>6 DEF SendStep, RouteFound, RouteEnds, RouteRetargeted,
       ReserveInsert, ReserveSelect, ReserveRefresh, ReserveFails, Post,
       PostLosesAck, Settle, SettleFails
<1>7. ASSUME NEW c \in Callers,
             DurableRoute(c) \/ LookUp(c) \/ Enqueue(c) \/ MarkDuplicate(c)
             \/ WakePump(c) \/ CallThrows(c)
      PROVE  UNCHANGED <<cur, batch>>
  BY <1>7 DEF DurableRoute, LookUp, Enqueue, MarkDuplicate, WakePump, CallThrows
<1>8. ASSUME ClockStep \/ \E s \in Sessions : CloseSession(s) \/ CancelJobs(s)
      PROVE  UNCHANGED <<cur, batch>>
  BY <1>8 DEF ClockStep, ClaimLapses, FallsDue, Expires, KeyLapses, CleanUpKeys,
     CleanUpJobs, CloseSession, CancelJobs
<1>9. CASE UNCHANGED vars
  BY <1>9 DEF vars
<1> QED BY <1>1, <1>2, <1>3, <1>4, <1>5, <1>6, <1>7, <1>8, <1>9
        DEF Next, PumpStep, CallStep

\* A job without a row gets none but by its own call.
LEMMA StillAbsent ==
    ASSUME TypeInv, [Next]_vars, NEW c \in Jobs, job[c].status = "absent",
           ~Enqueue(c), \A p \in Procs : ~Holds(p, c)
    PROVE  job'[c].status = "absent"
<1> USE DEF TypeInv, TypeOK
<1>r. job[c] \in JobRow
  OBVIOUS
<1>1. c \notin Picked
  BY DEF Picked, Ready, IsReady, Claimable
<1>2. /\ PurgedJob(job[c]).status = "absent"
      /\ PurgedJob(RecoveredJob(job[c])).status = "absent"
      /\ CancelledJob(job[c]).status = "absent"
      /\ SentJob(job[c], res[c]).status = "absent"
  BY DEF PurgedJob, RecoveredJob, CancelledJob, SentJob, Active, Exists
<1>3. /\ LapsedJob(job[c]).status = "absent"
      /\ DueJob(job[c]).status = "absent"
      /\ ExpiredJob(job[c]).status = "absent"
  BY <1>r DEF LapsedJob, DueJob, ExpiredJob, JobRow
<1>4. ASSUME NEW p \in Procs, Sweep(p) \/ Restart(p) \/ Claim(p)
      PROVE  job'[c].status = "absent"
  BY <1>4, <1>1, <1>2 DEF Sweep, Restart, Claim
<1>5. ASSUME NEW p \in Procs, Mark(p)
      PROVE  job'[c].status = "absent"
  <2>1. cur[p] # c
    BY DEF Holds
  <2> QED BY <1>5, <2>1 DEF Mark
<1>6. ASSUME NEW p \in Procs, TimerFires(p) \/ Crash(p) \/ CheckSession(p)
             \/ LookAhead(p) \/ EndPass(p) \/ PassThrows(p)
      PROVE  job' = job
  BY <1>6 DEF TimerFires, Crash, CheckSession, LookAhead, EndPass, PassThrows
<1>7. ASSUME NEW s \in Senders, SendStep(s)
      PROVE  job' = job
  BY <1>7 DEF SendStep, RouteFound, RouteEnds, RouteRetargeted,
       ReserveInsert, ReserveSelect, ReserveRefresh, ReserveFails, Post,
       PostLosesAck, Settle, SettleFails
<1>8. ASSUME NEW d \in Callers, DurableRoute(d) \/ LookUp(d) \/ WakePump(d) \/ CallThrows(d)
      PROVE  job' = job
  BY <1>8 DEF DurableRoute, LookUp, WakePump, CallThrows
<1>9. ASSUME NEW d \in Callers, Enqueue(d) \/ MarkDuplicate(d)
      PROVE  job'[c].status = "absent"
  BY <1>9, <1>2 DEF Enqueue, MarkDuplicate
<1>10. ASSUME ClockStep
       PROVE  job'[c].status = "absent"
  BY <1>10, <1>2, <1>3, SMTT(60) DEF ClockStep, ClaimLapses, FallsDue, Expires, KeyLapses,
     CleanUpKeys, CleanUpJobs
<1>11. ASSUME NEW s \in Sessions, CloseSession(s) \/ CancelJobs(s)
       PROVE  job'[c].status = "absent"
  BY <1>11, <1>2 DEF CloseSession, CancelJobs
<1>12. CASE UNCHANGED vars
  BY <1>12 DEF vars
<1> QED BY <1>4, <1>5, <1>6, <1>7, <1>8, <1>9, <1>10, <1>11, <1>12
        DEF Next, PumpStep, CallStep

\* A durable call never goes back, and leaves posting to the pump.
LEMMA DurableForward ==
    ASSUME TypeInv, [Next]_vars, NEW c \in Jobs
    PROVE  /\ pc'[c] \in {"route", "lookup", "enqueue"} =>
                 pc[c] \in {"route", "lookup", "enqueue"} /\ ~Enqueue(c)
           /\ pc'[c] \in {"post", "settle"} => pc[c] \in {"post", "settle"}
<1> DEFINE Forward == 
           /\ pc'[c] \in {"route", "lookup", "enqueue"} =>
                 pc[c] \in {"route", "lookup", "enqueue"} /\ ~Enqueue(c)
           /\ pc'[c] \in {"post", "settle"} => pc[c] \in {"post", "settle"}
<1> SUFFICES Forward
  OBVIOUS
<1> USE CallersAssumption DEF TypeInv, TypeOK
<1>0. ASSUME pc'[c] = pc[c] PROVE Forward
  BY <1>0 DEF Enqueue
<1>1. ASSUME NEW p \in Procs,
             TimerFires(p) \/ Restart(p) \/ Sweep(p) \/ Claim(p) \/ CheckSession(p)
             \/ Mark(p) \/ LookAhead(p) \/ EndPass(p) \/ PassThrows(p)
      PROVE  pc'[c] = pc[c]
  BY <1>1 DEF TimerFires, Restart, Sweep, Claim, CheckSession, Mark, LookAhead,
     EndPass, PassThrows
<1>2. ASSUME NEW p \in Procs, Crash(p) PROVE Forward
  <2>1. pc'[c] = "done" \/ pc'[c] = pc[c]
    BY <1>2 DEF Crash
  <2> QED BY <1>0, <2>1
<1>3. ASSUME NEW s \in Senders, SendStep(s) PROVE Forward
  <2>1. CASE s # c
    <3>1. pc'[c] = pc[c]
      BY <1>3, <2>1 DEF SendStep, RouteFound, RouteEnds, RouteRetargeted,
         ReserveInsert, ReserveSelect, ReserveRefresh, ReserveFails, Post,
         PostLosesAck, Settle, SettleFails, AfterSettle
    <3> QED BY <3>1, <1>0
  <2>2. CASE s = c
    <3>1. pc'[c] \in {"select", "refresh", "wake", "dup"}
      BY <1>3, <2>2 DEF SendStep, RouteFound, RouteEnds, RouteRetargeted,
         ReserveInsert, ReserveSelect, ReserveRefresh, ReserveFails, Post,
         PostLosesAck, Settle, SettleFails, AfterReserve, AfterRefuse
    <3> QED BY <3>1
  <2> QED BY <2>1, <2>2
<1>4. ASSUME NEW d \in Callers,
             DurableRoute(d) \/ LookUp(d) \/ Enqueue(d) \/ MarkDuplicate(d)
             \/ WakePump(d) \/ CallThrows(d)
      PROVE  Forward
  <2>1. CASE d # c
    <3>1. pc'[c] = pc[c]
      BY <1>4, <2>1 DEF DurableRoute, LookUp, Enqueue, MarkDuplicate, WakePump, CallThrows
    <3> QED BY <3>1, <1>0
  <2>2. CASE d = c /\ Enqueue(c)
    BY <2>2 DEF Enqueue
  <2>3. CASE d = c /\ (MarkDuplicate(c) \/ WakePump(c) \/ CallThrows(c))
    BY <2>3 DEF MarkDuplicate, WakePump, CallThrows
  <2>4. CASE d = c /\ (DurableRoute(c) \/ LookUp(c))
    BY <2>4 DEF DurableRoute, LookUp, Enqueue
  <2> QED BY <1>4, <2>1, <2>2, <2>3, <2>4
<1>5. ASSUME ClockStep \/ (\E s \in Sessions : CloseSession(s) \/ CancelJobs(s))
             \/ UNCHANGED vars
      PROVE  pc'[c] = pc[c]
  BY <1>5 DEF ClockStep, ClaimLapses, FallsDue, Expires, KeyLapses, CleanUpKeys,
     CleanUpJobs, CloseSession, CancelJobs, vars
<1> HIDE DEF Forward
<1> QED BY <1>0, <1>1, <1>2, <1>3, <1>4, <1>5 DEF Next, PumpStep, CallStep

\* A pump has a job exactly while it works on it.
LEMMA OneJobInHand ==
    ASSUME TypeInv, Bookkeeping, [Next]_vars, NEW p \in Procs
    PROVE  /\ pc'[p] \notin WorkPC => cur'[p] = None
           /\ cur'[p] \notin batch'[p]
<1> DEFINE InHand == /\ pc'[p] \notin WorkPC => cur'[p] = None
                     /\ cur'[p] \notin batch'[p]
<1> SUFFICES InHand
  OBVIOUS
<1> USE CallersAssumption DEF TypeInv, TypeOK
<1>0. /\ pc[p] \notin WorkPC => cur[p] = None
      /\ cur[p] \notin batch[p]
  BY DEF Bookkeeping
<1>1. ASSUME UNCHANGED <<cur, batch>>, pc'[p] = pc[p] \/ pc[p] \notin WorkPC \/ pc'[p] \in WorkPC
      PROVE  InHand
  BY <1>0, <1>1
<1>2. ASSUME NEW q \in Procs, TimerFires(q) \/ Restart(q) \/ Sweep(q) \/ LookAhead(q) \/ EndPass(q)
      PROVE  InHand
  <2>1. /\ UNCHANGED <<cur, batch>>
        /\ pc'[p] = pc[p] \/ (q = p /\ pc[p] \in {"idle", "sweep", "next", "rearm", "rest"})
    BY <1>2 DEF TimerFires, Restart, Sweep, LookAhead, EndPass
  <2> QED BY <1>1, <2>1 DEF WorkPC
<1>3. ASSUME NEW q \in Procs, Claim(q) PROVE InHand
  <2>1. Picked \subseteq Jobs
    BY DEF Picked, Ready
  <2>2. CASE q # p
    BY <1>0, <1>3, <2>2 DEF Claim
  <2>3. CASE q = p
    BY <1>0, <1>3, <2>1, <2>3 DEF Claim, WorkPC
  <2> QED BY <2>2, <2>3
<1>4. ASSUME NEW q \in Procs, CheckSession(q) PROVE InHand
  <2>1. PICK j \in batch[q] : /\ cur' = [cur EXCEPT ![q] = j]
                              /\ batch' = [batch EXCEPT ![q] = @ \ {j}]
    BY <1>4 DEF CheckSession
  <2>2. q # p => pc'[p] = pc[p]
    BY <1>4 DEF CheckSession
  <2>3. pc'[q] \in {"route", "mark"}
    BY <1>4 DEF CheckSession
  <2> QED BY <1>0, <2>1, <2>2, <2>3 DEF WorkPC
<1>5. ASSUME NEW q \in Procs, Mark(q) \/ PassThrows(q) \/ Crash(q) PROVE InHand
  <2>1. CASE q = p
    <3>1. cur'[p] = None /\ batch'[p] \subseteq Jobs
      BY <1>5, <2>1 DEF Mark, PassThrows, Crash
    <3> QED BY <3>1
  <2>2. CASE q # p
    <3>1. cur'[p] = cur[p] /\ batch'[p] = batch[p] /\ pc'[p] = pc[p]
      BY <1>5, <2>2 DEF Mark, PassThrows, Crash
    <3> QED BY <3>1, <1>0
  <2> QED BY <2>1, <2>2
<1>6. ASSUME NEW s \in Senders, SendStep(s) PROVE InHand
  <2>1. UNCHANGED <<cur, batch>>
    BY <1>6 DEF SendStep, RouteFound, RouteEnds, RouteRetargeted,
       ReserveInsert, ReserveSelect, ReserveRefresh, ReserveFails, Post,
       PostLosesAck, Settle, SettleFails
  <2>2. CASE s # p
    <3>1. pc'[p] = pc[p]
      BY <1>6, <2>2 DEF SendStep, RouteFound, RouteEnds, RouteRetargeted,
         ReserveInsert, ReserveSelect, ReserveRefresh, ReserveFails, Post,
         PostLosesAck, Settle, SettleFails, AfterSettle
    <3> QED BY <1>1, <2>1, <3>1
  <2>3. CASE s = p
    <3>1. pc'[p] \in {"insert", "mark", "post", "select", "refresh", "settle", "route"}
      BY <1>6, <2>3 DEF SendStep, RouteFound, RouteEnds, RouteRetargeted,
         ReserveInsert, ReserveSelect, ReserveRefresh, ReserveFails, Post,
         PostLosesAck, Settle, SettleFails, AfterSettle, AfterSend, AfterReserve,
         AfterRefuse
    <3> QED BY <1>1, <2>1, <3>1 DEF WorkPC
  <2> QED BY <2>2, <2>3
<1>7. ASSUME NEW c \in Callers,
             DurableRoute(c) \/ LookUp(c) \/ Enqueue(c) \/ MarkDuplicate(c)
             \/ WakePump(c) \/ CallThrows(c)
      PROVE  InHand
  <2>1. UNCHANGED <<cur, batch>> /\ pc'[p] = pc[p]
    BY <1>7 DEF DurableRoute, LookUp, Enqueue, MarkDuplicate, WakePump, CallThrows
  <2> QED BY <1>1, <2>1
<1>8. ASSUME ClockStep \/ (\E s \in Sessions : CloseSession(s) \/ CancelJobs(s))
             \/ UNCHANGED vars
      PROVE  InHand
  <2>1. UNCHANGED <<cur, batch, pc>>
    BY <1>8 DEF ClockStep, ClaimLapses, FallsDue, Expires, KeyLapses, CleanUpKeys,
       CleanUpJobs, CloseSession, CancelJobs, vars
  <2> QED BY <1>1, <2>1
<1> HIDE DEF InHand
<1> QED BY <1>2, <1>3, <1>4, <1>5, <1>6, <1>7, <1>8 DEF Next, PumpStep, CallStep

\* A direct call is never where only a pump can be.
LEMMA DirectStaysCaller ==
    ASSUME TypeInv, Bookkeeping, [Next]_vars, NEW c \in DirectCallers
    PROVE  pc'[c] \in CallerPC
<1> USE CallersAssumption DEF TypeInv, TypeOK
<1>0. pc[c] \in CallerPC
  BY DEF Bookkeeping
<1>1. ASSUME NEW p \in Procs,
             TimerFires(p) \/ Restart(p) \/ Sweep(p) \/ Claim(p) \/ CheckSession(p)
             \/ Mark(p) \/ LookAhead(p) \/ EndPass(p) \/ PassThrows(p)
      PROVE  pc'[c] = pc[c]
  BY <1>1 DEF TimerFires, Restart, Sweep, Claim, CheckSession, Mark, LookAhead,
     EndPass, PassThrows
<1>2. ASSUME NEW p \in Procs, Crash(p)
      PROVE  pc'[c] \in {pc[c], "done"}
  BY <1>2 DEF Crash
<1>3. ASSUME NEW s \in Senders, SendStep(s)
      PROVE  pc'[c] \in {pc[c], "insert", "select", "refresh", "post", "settle",
                         "route", "done"}
  BY <1>3 DEF SendStep, RouteFound, RouteEnds, RouteRetargeted, ReserveInsert,
     ReserveSelect, ReserveRefresh, ReserveFails, Post, PostLosesAck, Settle,
     SettleFails, AfterSettle, AfterSend, AfterReserve, AfterRefuse
<1>4. ASSUME NEW d \in Callers,
             DurableRoute(d) \/ LookUp(d) \/ Enqueue(d) \/ MarkDuplicate(d)
             \/ WakePump(d) \/ CallThrows(d)
      PROVE  pc'[c] \in {pc[c], "lookup", "done", "enqueue", "insert"}
  BY <1>4 DEF DurableRoute, LookUp, Enqueue, MarkDuplicate, WakePump, CallThrows
<1>5. ASSUME ClockStep \/ (\E s \in Sessions : CloseSession(s) \/ CancelJobs(s))
             \/ UNCHANGED vars
      PROVE  pc'[c] = pc[c]
  BY <1>5 DEF ClockStep, ClaimLapses, FallsDue, Expires, KeyLapses, CleanUpKeys,
     CleanUpJobs, CloseSession, CancelJobs, vars
<1>6. pc'[c] \in {pc[c], "lookup", "done", "enqueue", "insert", "select", "refresh",
                  "post", "settle", "route"}
  BY <1>1, <1>2, <1>3, <1>4, <1>5 DEF Next, PumpStep, CallStep
<1> QED BY <1>0, <1>6 DEF CallerPC

LEMMA BookkeepingStep ==
    ASSUME TypeInv, Bookkeeping, [Next]_vars PROVE Bookkeeping'
<1>1. ASSUME NEW c \in Jobs, pc'[c] \in {"route", "lookup", "enqueue"}
      PROVE  job'[c].status = "absent" /\ \A p \in Procs : ~Holds(p, c)'
  <2>1. pc[c] \in {"route", "lookup", "enqueue"} /\ ~Enqueue(c)
    BY <1>1, DurableForward
  <2>2. job[c].status = "absent" /\ \A p \in Procs : ~Holds(p, c)
    BY <2>1 DEF Bookkeeping
  <2>3. c \notin Picked
    BY <2>2 DEF Picked, Ready, IsReady, Claimable
  <2> QED BY <2>1, <2>2, <2>3, StillAbsent, HoldsShrink
<1>2. ASSUME NEW c \in DurableCallers PROVE pc'[c] \notin {"post", "settle"}
  BY DurableForward DEF Bookkeeping
<1> QED BY <1>1, <1>2, OneJobInHand, DirectStaysCaller DEF Bookkeeping

----------------------------------------------------------------------------
(* A job is with one worker, who knows its attempts.                       *)

\* What nobody can claim or recover.
Firm(r) == r.status \notin Claimable /\ (r.status = "sending" => r.claim = "live")

LEMMA FirmRows ==
    ASSUME NEW r \in JobRow, Firm(r)
    PROVE  /\ ~IsReady(r)
           /\ Firm(PurgedJob(r)) /\ PurgedJob(r).attempts = r.attempts
           /\ RecoveredJob(r) = r
           /\ Firm(CancelledJob(r)) /\ CancelledJob(r).attempts = r.attempts
           /\ Firm(DueJob(r)) /\ DueJob(r).attempts = r.attempts
           /\ Firm(ExpiredJob(r)) /\ ExpiredJob(r).attempts = r.attempts
           /\ \A why \in SentWhy : /\ Firm(SentJob(r, why))
                                   /\ SentJob(r, why).attempts = r.attempts
  BY DEF Firm, JobRow, IsReady, Claimable, PurgedJob, RecoveredJob, CancelledJob,
         DueJob, ExpiredJob, SentJob, Exists

\* Nothing happens to a job that a pump keeps, except behind a lapsed claim.
LEMMA HeldRow ==
    ASSUME TypeInv, Bookkeeping, Exclusive, [Next]_vars,
           NEW j \in Jobs, Swift(j)', NEW p \in Procs, Holds(p, j), Holds(p, j)'
    PROVE  /\ Firm(job'[j]) /\ job'[j].attempts = job[j].attempts
           /\ seen'[p][j] = seen[p][j]
<1> DEFINE Kept == /\ Firm(job'[j]) /\ job'[j].attempts = job[j].attempts
                   /\ seen'[p][j] = seen[p][j]
<1> SUFFICES Kept
  OBVIOUS
<1> USE CallersAssumption
<1>t. /\ job \in [Jobs -> JobRow] /\ seen \in [Procs -> [Jobs -> Nat]]
      /\ cur \in [Procs -> Jobs \cup {None}]
      /\ cause \in [Keys -> SUBSET Causes] /\ KeyOf[j] \in Keys
  BY PlacementAssumption DEF TypeInv, TypeOK
<1>s. Swift(j)
  BY CauseGrows, <1>t DEF Swift
<1>f. Firm(job[j])
  BY <1>s DEF Exclusive, Firm
<1>1. ASSUME job'[j] = job[j] \/ job'[j] \in {PurgedJob(job[j]), CancelledJob(job[j]),
                                              DueJob(job[j]), ExpiredJob(job[j])},
             seen' = seen
      PROVE  Kept
  BY <1>1, <1>t, <1>f, FirmRows
<1>2. ASSUME NEW q \in Procs, Sweep(q) \/ Restart(q) PROVE Kept
  <2>1. job'[j] = PurgedJob(RecoveredJob(job[j])) /\ seen' = seen
    BY <1>2 DEF Sweep, Restart
  <2> QED BY <2>1, <1>1, <1>t, <1>f, FirmRows
<1>3. ASSUME NEW q \in Procs, Claim(q) PROVE Kept
  <2>1. j \notin Picked
    BY <1>t, <1>f, FirmRows DEF Picked, Ready
  <2>2. job'[j] = job[j]
    BY <1>3, <2>1, <1>t DEF Claim
  <2>3. q # p
    <3>1. q = p => cur[p] = None
      BY <1>3 DEF Claim, Bookkeeping, WorkPC
    <3>2. q = p => batch'[p] = Picked /\ cur' = cur
      BY <1>3 DEF Claim, TypeInv, TypeOK
    <3> QED BY <2>1, <3>1, <3>2 DEF Holds
  <2>4. seen'[p] = seen[p]
    BY <1>3, <2>3, <1>t DEF Claim
  <2> QED BY <2>2, <2>4, <1>f
<1>4. ASSUME NEW q \in Procs, Mark(q) PROVE Kept
  <2>1. cur[q] # j
    <3> SUFFICES ASSUME cur[q] = j PROVE FALSE
      OBVIOUS
    <3>1. q = p
      BY <1>s DEF Exclusive, Holds
    <3>2. cur' = [cur EXCEPT ![q] = None] /\ batch' = batch
      BY <1>4 DEF Mark
    <3>3. j \notin batch[p]
      BY <3>1 DEF Bookkeeping
    <3> QED BY <3>1, <3>2, <3>3, <1>t DEF Holds
  <2>2. job'[j] = job[j]
    BY <1>4, <2>1, <1>t DEF Mark
  <2>3. seen'[p][j] = seen[p][j]
    BY <1>4, <2>1, <1>t DEF Mark
  <2> QED BY <2>2, <2>3, <1>f
<1>5. ASSUME NEW c \in Callers, Enqueue(c) PROVE Kept
  <2>1. c # j
    BY <1>5 DEF Enqueue, Bookkeeping
  <2> QED BY <1>1, <1>5, <2>1, <1>t DEF Enqueue
<1>6. ASSUME NEW c \in Callers, MarkDuplicate(c) PROVE Kept
  <2>1. (job'[j] = job[j] \/ (c = j /\ job'[j] = SentJob(job[j], res[c]))) /\ seen' = seen
    BY <1>6, <1>t DEF MarkDuplicate
  <2>2. res[c] \in SentWhy
    BY <1>6 DEF MarkDuplicate, TypeInv, SentWhy
  <2>3. seen' = seen
    BY <1>6 DEF MarkDuplicate
  <2> QED BY <2>1, <2>2, <2>3, <1>1, <1>t, <1>f, FirmRows
<1>7. ASSUME NEW i \in Jobs, ClaimLapses(i) PROVE Kept
  <2>1. i # j
    <3> SUFFICES ASSUME i = j PROVE FALSE
      OBVIOUS
    <3>1. cause' = Blame(KeyOf[j], "slow")
      BY <1>7 DEF ClaimLapses
    <3> QED BY <3>1, <1>t DEF Blame, Swift
  <2> QED BY <1>1, <1>7, <2>1, <1>t DEF ClaimLapses
<1>8. ASSUME NEW i \in Jobs, FallsDue(i) \/ Expires(i) PROVE Kept
  BY <1>1, <1>8, <1>t DEF FallsDue, Expires
<1>9. ASSUME CleanUpJobs \/ CleanUpKeys \/ \E k \in Keys : KeyLapses(k) PROVE Kept
  BY <1>1, <1>9, <1>t DEF CleanUpJobs, CleanUpKeys, KeyLapses
<1>10. ASSUME NEW s \in Sessions, CloseSession(s) \/ CancelJobs(s) PROVE Kept
  BY <1>1, <1>10, <1>t DEF CloseSession, CancelJobs
<1>11. ASSUME NEW q \in Procs, TimerFires(q) \/ Crash(q) \/ CheckSession(q)
              \/ LookAhead(q) \/ EndPass(q) \/ PassThrows(q)
       PROVE  Kept
  BY <1>1, <1>11 DEF TimerFires, Crash, CheckSession, LookAhead, EndPass, PassThrows
<1>12. ASSUME NEW s \in Senders, SendStep(s) PROVE Kept
  BY <1>1, <1>12 DEF SendStep, RouteFound, RouteEnds, RouteRetargeted,
     ReserveInsert, ReserveSelect, ReserveRefresh, ReserveFails, Post,
     PostLosesAck, Settle, SettleFails
<1>13. ASSUME NEW c \in Callers, DurableRoute(c) \/ LookUp(c) \/ WakePump(c) \/ CallThrows(c)
       PROVE  Kept
  BY <1>1, <1>13 DEF DurableRoute, LookUp, WakePump, CallThrows
<1>14. CASE UNCHANGED vars
  BY <1>1, <1>14 DEF vars
<1> HIDE DEF Kept
<1> QED BY <1>2, <1>3, <1>4, <1>5, <1>6, <1>7, <1>8, <1>9, <1>10, <1>11, <1>12,
           <1>13, <1>14
        DEF Next, PumpStep, CallStep, ClockStep

\* Only one pump claims in a step, and what it claims nobody had.
LEMMA ClaimedAlone ==
    ASSUME TypeInv, Exclusive, NEW p \in Procs, Claim(p), NEW j \in Picked, Swift(j)
    PROVE  /\ \A q \in Procs : ~Holds(q, j) /\ (Claim(q) => q = p)
           /\ Firm(job'[j]) /\ job'[j].attempts = job[j].attempts
           /\ seen'[p][j] = job[j].attempts
<1>t. /\ job \in [Jobs -> JobRow] /\ seen \in [Procs -> [Jobs -> Nat]]
      /\ pc \in [Senders -> PC] /\ j \in Jobs
  BY DEF TypeInv, TypeOK, Picked, Ready
<1>1. IsReady(job[j])
  BY DEF Picked, Ready
<1>2. ASSUME NEW q \in Procs PROVE ~Holds(q, j)
  BY <1>1, <1>t DEF Exclusive, IsReady
<1>3. ASSUME NEW q \in Procs, Claim(q) PROVE q = p
  <2>1. pc[q] = "claim" /\ pc'[q] = "next"
    BY <1>3, <1>t DEF Claim
  <2> QED BY <2>1, <1>t DEF Claim
<1>4. job'[j] = ClaimedJob(job[j]) /\ seen'[p][j] = job[j].attempts
  BY <1>t DEF Claim
<1>5. Firm(ClaimedJob(job[j])) /\ ClaimedJob(job[j]).attempts = job[j].attempts
  BY <1>t DEF ClaimedJob, Firm, Claimable, JobRow
<1> QED BY <1>2, <1>3, <1>4, <1>5

LEMMA ExclusiveStep ==
    ASSUME TypeInv, Bookkeeping, Exclusive, [Next]_vars PROVE Exclusive'
<1> SUFFICES ASSUME NEW j \in Jobs, Swift(j)', NEW p \in Procs, Holds(p, j)'
             PROVE  /\ Firm(job'[j])
                    /\ \A q \in Procs : Holds(q, j)' => p = q
  BY DEF Exclusive, Firm
<1>s. Swift(j)
  BY CauseGrows, PlacementAssumption DEF Swift
<1>1. CASE Holds(p, j)
  <2>1. Firm(job'[j])
    BY <1>1, HeldRow
  <2>2. ASSUME NEW q \in Procs, Holds(q, j)' PROVE p = q
    <3>1. CASE Holds(q, j)
      BY <1>1, <1>s, <3>1 DEF Exclusive
    <3>2. CASE Claim(q) /\ j \in Picked
      BY <1>1, <1>s, <3>2, ClaimedAlone
    <3> QED BY <2>2, <3>1, <3>2, HoldsShrink
  <2> QED BY <2>1, <2>2
<1>2. CASE Claim(p) /\ j \in Picked
  <2>1. Firm(job'[j])
    BY <1>2, <1>s, ClaimedAlone
  <2>2. ASSUME NEW q \in Procs, Holds(q, j)' PROVE p = q
    BY <2>2, <1>2, <1>s, ClaimedAlone, HoldsShrink
  <2> QED BY <2>1, <2>2
<1> QED BY <1>1, <1>2, HoldsShrink

\* attempt_count grows by one, at a mark, and below MAX_ATTEMPTS.
LEMMA AttemptsStep ==
    ASSUME TypeInv, Bookkeeping, Counted, [Next]_vars, NEW j \in Jobs, Swift(j)
    PROVE  job'[j].attempts < MaxAttempts
<1> DEFINE Below == job'[j].attempts < MaxAttempts
<1> SUFFICES Below
  OBVIOUS
<1> USE CallersAssumption, BoundsAssumption
<1>t. /\ job \in [Jobs -> JobRow] /\ job[j] \in JobRow /\ seen \in [Procs -> [Jobs -> Nat]]
      /\ res \in [Senders -> Results]
  BY DEF TypeInv, TypeOK
<1>n. job[j].attempts < MaxAttempts /\ job[j].attempts \in Nat
  BY <1>t DEF Counted, JobRow
<1>1. ASSUME job'[j] = job[j] \/ job'[j].attempts = job[j].attempts PROVE Below
  BY <1>1, <1>n
<1>r. /\ \A r \in JobRow : /\ PurgedJob(r).attempts = r.attempts
                           /\ RecoveredJob(r) \in JobRow
                           /\ RecoveredJob(r).attempts = r.attempts
                           /\ CancelledJob(r).attempts = r.attempts
                           /\ ClaimedJob(r).attempts = r.attempts
      /\ \A r \in JobRow : /\ DueJob(r).attempts = r.attempts
                           /\ ExpiredJob(r).attempts = r.attempts
                           /\ LapsedJob(r).attempts = r.attempts
      /\ \A r \in JobRow : \A why \in Why : /\ SentJob(r, why).attempts = r.attempts
                                            /\ DeadJob(r, why).attempts = r.attempts
  <2>1. ASSUME NEW r \in JobRow
        PROVE  /\ PurgedJob(r).attempts = r.attempts
               /\ RecoveredJob(r) \in JobRow
               /\ RecoveredJob(r).attempts = r.attempts
               /\ CancelledJob(r).attempts = r.attempts
               /\ ClaimedJob(r).attempts = r.attempts
    <3>1. PurgedJob(r).attempts = r.attempts     BY DEF PurgedJob, JobRow
    <3>2. RecoveredJob(r).attempts = r.attempts  BY DEF RecoveredJob, JobRow
    <3>3. CancelledJob(r).attempts = r.attempts  BY DEF CancelledJob, JobRow
    <3>4. ClaimedJob(r).attempts = r.attempts    BY DEF ClaimedJob, JobRow
    <3> QED BY <3>1, <3>2, <3>3, <3>4, JobStatements
  <2>2. ASSUME NEW r \in JobRow
        PROVE  /\ DueJob(r).attempts = r.attempts
               /\ ExpiredJob(r).attempts = r.attempts
               /\ LapsedJob(r).attempts = r.attempts
    BY DEF DueJob, ExpiredJob, LapsedJob, JobRow
  <2>3. ASSUME NEW r \in JobRow, NEW why \in Why
        PROVE  SentJob(r, why).attempts = r.attempts /\ DeadJob(r, why).attempts = r.attempts
    BY DEF SentJob, DeadJob, JobRow
  <2> QED BY <2>1, <2>2, <2>3
<1>2. ASSUME NEW p \in Procs, Sweep(p) \/ Restart(p) \/ Claim(p) PROVE Below
  BY <1>1, <1>2, <1>t, <1>r DEF Sweep, Restart, Claim
<1>3. ASSUME NEW p \in Procs, Mark(p) PROVE Below
  <2>1. CASE cur[p] # j
    BY <1>1, <1>3, <1>t, <2>1 DEF Mark
  <2>2. CASE cur[p] = j
    <3>1. job'[j] = MarkedJob(job[j], res[p], job[j].attempts)
      <4>1. seen[p][j] = job[j].attempts
        BY <2>2 DEF Counted, Holds
      <4> QED BY <1>3, <1>t, <2>2, <4>1 DEF Mark
    <3>2. CASE res[p] \in SentWhy
      <4>1. job'[j] = SentJob(job[j], res[p])
        BY <3>1, <3>2 DEF MarkedJob, SentWhy, DeadWhy
      <4>2. res[p] \in Why
        BY <3>2 DEF Why
      <4>3. SentJob(job[j], res[p]).attempts = job[j].attempts
        BY <1>t, <1>r, <4>2
      <4> QED BY <1>1, <4>1, <4>3
    <3>3. CASE res[p] \notin SentWhy /\ res[p] \in DeadWhy
      <4>1. job'[j] = DeadJob(job[j], res[p])
        BY <3>1, <3>3 DEF MarkedJob, SentWhy, DeadWhy
      <4>2. res[p] \in Why
        BY <3>3 DEF Why
      <4>3. DeadJob(job[j], res[p]).attempts = job[j].attempts
        BY <1>t, <1>r, <4>2
      <4> QED BY <1>1, <4>1, <4>3
    <3>4. CASE res[p] \notin SentWhy \cup DeadWhy
      <4>1. job'[j] = IF job[j].attempts + 1 >= MaxAttempts
                      THEN DeadJob(job[j], "exhausted") ELSE RetriedJob(job[j])
        BY <3>1, <3>4 DEF MarkedJob
      <4>2. CASE job[j].attempts + 1 >= MaxAttempts
        <5>1. "exhausted" \in Why
          BY DEF Why, DeadWhy
        <5> QED BY <1>1, <1>t, <1>r, <4>1, <4>2, <5>1
      <4>3. CASE ~(job[j].attempts + 1 >= MaxAttempts)
        <5>1. \/ RetriedJob(job[j]).attempts = job[j].attempts + 1
              \/ RetriedJob(job[j]) = job[j]
          BY <1>t DEF RetriedJob, JobRow
        <5> QED BY <1>n, <4>1, <4>3, <5>1
      <4> QED BY <4>2, <4>3
    <3> QED BY <3>2, <3>3, <3>4
  <2> QED BY <2>1, <2>2
<1>4. ASSUME NEW c \in Callers, Enqueue(c) PROVE Below
  <2>1. CASE c # j
    BY <1>1, <1>4, <1>t, <2>1 DEF Enqueue
  <2>2. CASE c = j
    BY <1>4, <1>t, <2>2 DEF Enqueue, EnqueuedJob, NoJob
  <2> QED BY <2>1, <2>2
<1>5. ASSUME NEW c \in Callers, MarkDuplicate(c) PROVE Below
  <2>1. res[c] \in Why
    BY <1>5 DEF MarkDuplicate, TypeInv, Why, SentWhy
  <2>2. job'[j] = job[j] \/ job'[j] = SentJob(job[j], res[c])
    BY <1>5, <1>t DEF MarkDuplicate
  <2> QED BY <1>1, <1>t, <1>r, <2>1, <2>2
<1>6. ASSUME ClockStep PROVE Below
  <2>1. \/ job'[j] = job[j]
        \/ job'[j] \in {LapsedJob(job[j]), DueJob(job[j]), ExpiredJob(job[j]), PurgedJob(job[j])}
    BY <1>6, <1>t DEF ClockStep, ClaimLapses, FallsDue, Expires, KeyLapses,
       CleanUpKeys, CleanUpJobs
  <2> QED BY <1>1, <1>t, <1>r, <2>1
<1>7. ASSUME NEW s \in Sessions, CloseSession(s) \/ CancelJobs(s) PROVE Below
  BY <1>1, <1>7, <1>t, <1>r DEF CloseSession, CancelJobs
<1>8. ASSUME NEW q \in Procs, TimerFires(q) \/ Crash(q) \/ CheckSession(q)
             \/ LookAhead(q) \/ EndPass(q) \/ PassThrows(q)
      PROVE  job' = job
  BY <1>8 DEF TimerFires, Crash, CheckSession, LookAhead, EndPass, PassThrows
<1>9. ASSUME NEW s \in Senders, SendStep(s) PROVE job' = job
  BY <1>9 DEF SendStep, RouteFound, RouteEnds, RouteRetargeted,
     ReserveInsert, ReserveSelect, ReserveRefresh, ReserveFails, Post,
     PostLosesAck, Settle, SettleFails
<1>10. ASSUME NEW c \in Callers, DurableRoute(c) \/ LookUp(c) \/ WakePump(c) \/ CallThrows(c)
       PROVE  job' = job
  BY <1>10 DEF DurableRoute, LookUp, WakePump, CallThrows
<1>11. CASE UNCHANGED vars
  BY <1>1, <1>11 DEF vars
<1> HIDE DEF Below
<1> QED BY <1>1, <1>2, <1>3, <1>4, <1>5, <1>6, <1>7, <1>8, <1>9, <1>10, <1>11
        DEF Next, PumpStep, CallStep

LEMMA CountedStep ==
    ASSUME TypeInv, Bookkeeping, Exclusive, Counted, [Next]_vars PROVE Counted'
<1> SUFFICES ASSUME NEW j \in Jobs, Swift(j)'
             PROVE  /\ job'[j].attempts < MaxAttempts
                    /\ \A p \in Procs : Holds(p, j)' => seen'[p][j] = job'[j].attempts
  BY DEF Counted
<1>s. Swift(j)
  BY CauseGrows, PlacementAssumption DEF Swift
<1>1. job'[j].attempts < MaxAttempts
  BY <1>s, AttemptsStep
<1>2. ASSUME NEW p \in Procs, Holds(p, j)'
      PROVE  seen'[p][j] = job'[j].attempts
  <2>1. CASE Holds(p, j)
    <3>1. seen[p][j] = job[j].attempts
      BY <1>s, <2>1 DEF Counted
    <3> QED BY <1>2, <2>1, <3>1, HeldRow
  <2>2. CASE Claim(p) /\ j \in Picked
    BY <1>s, <2>2, ClaimedAlone
  <2> QED BY <1>2, <2>1, <2>2, HoldsShrink
<1> QED BY <1>1, <1>2

----------------------------------------------------------------------------
(* The reservation.                                                        *)

Critical == {"select", "refresh", "post", "settle"}

\* Two that post under one key as the same owner are one.
LEMMA OwnersDiffer ==
    ASSUME TypeInv, Bookkeeping, Exclusive, NEW s \in Posters, NEW t \in Posters,
           pc[s] \in WorkPC, pc[t] \in WorkPC, OwnerOf(s) = OwnerOf(t), Key(s) = Key(t),
           Clean(Key(s))
    PROVE  s = t
<1> USE CallersAssumption
<1>1. CASE s \in Procs /\ t \in Procs
  <2>1. cur[s] = cur[t] /\ cur[s] \in Jobs
    BY <1>1 DEF OwnerOf, TypeInv
  <2>2. Swift(cur[s])
    BY <1>1 DEF Clean, Swift, Key
  <2> QED BY <1>1, <2>1, <2>2 DEF Exclusive, Holds
<1>2. CASE s \in Procs /\ t \in DirectCallers
  <2>1. cur[s] \in Jobs /\ cur[s] = t
    BY <1>2 DEF OwnerOf, TypeInv
  <2> QED BY <1>2, <2>1
<1>3. CASE t \in Procs /\ s \in DirectCallers
  <2>1. cur[t] \in Jobs /\ cur[t] = s
    BY <1>3 DEF OwnerOf, TypeInv
  <2> QED BY <1>3, <2>1
<1>4. CASE s \in DirectCallers /\ t \in DirectCallers
  BY <1>4 DEF OwnerOf
<1> QED BY <1>1, <1>2, <1>3, <1>4

\* Nobody's key or owner changes while he is about to send.
LEMMA SameSender ==
    ASSUME TypeInv, Bookkeeping, [Next]_vars, NEW s \in Senders, pc'[s] \in Critical
    PROVE  /\ Key(s)' = Key(s) /\ OwnerOf(s)' = OwnerOf(s)
           /\ pc'[s] = pc[s] \/ SendStep(s)
<1> DEFINE Same == /\ Key(s)' = Key(s) /\ OwnerOf(s)' = OwnerOf(s)
                   /\ pc'[s] = pc[s] \/ SendStep(s)
<1> SUFFICES Same
  OBVIOUS
<1> USE CallersAssumption DEF Critical, TypeInv, TypeOK
<1>1. ASSUME s \in Procs => cur'[s] = cur[s], s \in DirectCallers => try'[s] = try[s],
             pc'[s] = pc[s] \/ SendStep(s)
      PROVE  Same
  BY <1>1 DEF Key, OwnerOf
<1>2. ASSUME NEW p \in Procs,
             TimerFires(p) \/ Restart(p) \/ Sweep(p) \/ Claim(p) \/ LookAhead(p) \/ EndPass(p)
      PROVE  Same
  <2>1. UNCHANGED <<cur, try>> /\ (s # p => pc'[s] = pc[s])
    BY <1>2 DEF TimerFires, Restart, Sweep, Claim, LookAhead, EndPass
  <2>2. s = p => pc'[s] = pc[s]
    BY <1>2 DEF TimerFires, Restart, Sweep, Claim, LookAhead, EndPass
  <2> QED BY <1>1, <2>1, <2>2
<1>3. ASSUME NEW p \in Procs, CheckSession(p) \/ Mark(p) \/ PassThrows(p)
      PROVE  Same
  <2>1. s # p
    BY <1>3 DEF CheckSession, Mark, PassThrows
  <2>2. s \in Procs => cur'[s] = cur[s]
    BY <1>3, <2>1 DEF CheckSession, Mark, PassThrows
  <2>3. try'[s] = try[s] /\ pc'[s] = pc[s]
    BY <1>3, <2>1 DEF CheckSession, Mark, PassThrows
  <2> QED BY <1>1, <2>2, <2>3
<1>4. ASSUME NEW p \in Procs, Crash(p)
      PROVE  Same
  <2>1. s # p /\ pc'[s] = pc[s]
    BY <1>4 DEF Crash
  <2>2. try'[s] = try[s] /\ (s \in Procs => cur'[s] = cur[s])
    BY <1>4, <2>1 DEF Crash
  <2> QED BY <1>1, <2>1, <2>2
<1>5. ASSUME NEW t \in Senders, SendStep(t)
      PROVE  Same
  <2>1. cur' = cur
    BY <1>5 DEF SendStep, RouteFound, RouteEnds, RouteRetargeted, ReserveInsert,
       ReserveSelect, ReserveRefresh, ReserveFails, Post, PostLosesAck, Settle,
       SettleFails
  <2>2. CASE s # t
    <3>1. pc'[s] = pc[s] /\ try'[s] = try[s]
      BY <1>5, <2>2 DEF SendStep, RouteFound, RouteEnds, RouteRetargeted,
         ReserveInsert, ReserveSelect, ReserveRefresh, ReserveFails, Post,
         PostLosesAck, Settle, SettleFails, AfterSettle
    <3> QED BY <1>1, <2>1, <3>1
  <2>3. CASE s = t
    <3>1. try'[s] = try[s]
      BY <1>5, <2>3 DEF SendStep, RouteFound, RouteEnds, RouteRetargeted,
         ReserveInsert, ReserveSelect, ReserveRefresh, ReserveFails, Post,
         PostLosesAck, Settle, SettleFails, AfterSettle
    <3> QED BY <1>1, <1>5, <2>1, <2>3, <3>1
  <2> QED BY <2>2, <2>3
<1>6. ASSUME NEW c \in Callers,
             DurableRoute(c) \/ LookUp(c) \/ Enqueue(c) \/ MarkDuplicate(c)
             \/ WakePump(c) \/ CallThrows(c)
      PROVE  Same
  <2>1. UNCHANGED <<cur, try>> /\ (s # c => pc'[s] = pc[s])
    BY <1>6 DEF DurableRoute, LookUp, Enqueue, MarkDuplicate, WakePump, CallThrows
  <2>2. s # c
    BY <1>6 DEF DurableRoute, LookUp, Enqueue, MarkDuplicate, WakePump, CallThrows
  <2> QED BY <1>1, <2>1, <2>2
<1>7. ASSUME ClockStep \/ (\E x \in Sessions : CloseSession(x) \/ CancelJobs(x))
             \/ UNCHANGED vars
      PROVE  Same
  <2>1. UNCHANGED <<cur, pc, try>>
    BY <1>7 DEF ClockStep, ClaimLapses, FallsDue, Expires, KeyLapses, CleanUpKeys,
       CleanUpJobs, CloseSession, CancelJobs, vars
  <2> QED BY <1>1, <2>1
<1> HIDE DEF Same
<1> QED BY <1>2, <1>3, <1>4, <1>5, <1>6, <1>7 DEF Next, PumpStep, CallStep

\* What may happen to the reservation of a key nothing has befallen: it is
\* taken when there is none, and its owner records what he has posted.
LEMMA KeyStep ==
    ASSUME TypeInv, Reserved, Once, [Next]_vars, NEW k \in Keys, Clean(k), Clean(k)'
    PROVE  \/ idem'[k] = idem[k]
           \/ \E s \in Senders : /\ ReserveInsert(s) /\ Key(s) = k
                                 /\ idem[k].state = "none"
                                 /\ idem'[k] = PendingKey(OwnerOf(s))
           \/ \E s \in Posters : /\ Settle(s) /\ Key(s) = k
                                 /\ idem[k] = PendingKey(OwnerOf(s))
                                 /\ idem'[k].state = "sent"
                                 /\ idem'[k].owner = idem[k].owner
                                 /\ ~idem'[k].stale
<1> DEFINE Taken(s)   == /\ ReserveInsert(s) /\ Key(s) = k
                         /\ idem[k].state = "none"
                         /\ idem'[k] = PendingKey(OwnerOf(s))
           Settled(s) == /\ Settle(s) /\ Key(s) = k
                         /\ idem[k] = PendingKey(OwnerOf(s))
                         /\ idem'[k].state = "sent"
                         /\ idem'[k].owner = idem[k].owner
                         /\ ~idem'[k].stale
           Goal == \/ idem'[k] = idem[k]
                   \/ \E s \in Senders : Taken(s)
                   \/ \E s \in Posters : Settled(s)
<1> SUFFICES Goal
  OBVIOUS
<1>t. /\ idem \in [Keys -> KeyRow(Owners)] /\ idem[k] \in KeyRow(Owners)
      /\ cause \in [Keys -> SUBSET Causes]
  BY DEF TypeInv, TypeOK
<1>n. ~idem[k].stale
  BY DEF Once
<1>1. ASSUME NEW s \in Senders, ReserveInsert(s) PROVE Goal
  <2>0. Key(s) \in Keys
    BY <1>1, KeyAndOwner DEF ReserveInsert, WorkPC
  <2>1. CASE Key(s) # k
    BY <1>1, <1>t, <2>1 DEF ReserveInsert
  <2>2. CASE Key(s) = k /\ ~CanInsert(idem[k])
    BY <1>1, <1>t, <2>2 DEF ReserveInsert
  <2>3. CASE Key(s) = k /\ CanInsert(idem[k])
    <3>1. Taken(s)
      BY <1>1, <1>t, <1>n, <2>0, <2>3 DEF ReserveInsert, CanInsert
    <3> QED BY <3>1
  <2> QED BY <2>1, <2>2, <2>3
<1>2. ASSUME NEW s \in Senders, ReserveRefresh(s) PROVE Goal
  <2>0. pc[s] = "refresh" /\ Key(s) \in Keys /\ OwnerOf(s) \in Owners
    BY <1>2, KeyAndOwner DEF ReserveRefresh, WorkPC
  <2>1. CASE Key(s) # k
    BY <1>2, <1>t, <2>1 DEF ReserveRefresh
  <2>2. CASE Key(s) = k
    <3>1. idem[k].state # "none" /\ idem[k].owner = OwnerOf(s)
      BY <2>0, <2>2 DEF Reserved, WorkPC
    <3>2. idem[k].state # "sent"
      <4>1. cause' = IF idem[k].state = "sent" THEN Blame(k, "refresh") ELSE cause
        BY <1>2, <2>2 DEF ReserveRefresh
      <4> QED BY <4>1, <1>t DEF Blame, Clean
    <3>3. idem'[k] = PendingKey(OwnerOf(s))
      BY <1>2, <1>t, <2>0, <2>2, <3>1 DEF ReserveRefresh, RefreshedKey
    <3>4. idem[k] = PendingKey(OwnerOf(s))
      BY <1>t, <1>n, <3>1, <3>2 DEF KeyRow, PendingKey
    <3> QED BY <3>3, <3>4
  <2> QED BY <2>1, <2>2
<1>3. ASSUME NEW s \in Senders, Settle(s) PROVE Goal
  <2>0. s \in Posters /\ pc[s] = "settle" /\ Key(s) \in Keys /\ OwnerOf(s) \in Owners
    BY <1>3, KeyAndOwner DEF Settle, WorkPC
  <2>1. CASE Key(s) # k
    BY <1>3, <1>t, <2>1 DEF Settle
  <2>2. CASE Key(s) = k
    <3>1. idem[k] = PendingKey(OwnerOf(s))
      BY <2>0, <2>2 DEF Reserved, WorkPC, Posting
    <3>2. CASE res[s] = "delivered"
      <4>1. idem'[k] = MarkedKey(idem[k], OwnerOf(s))
        BY <1>3, <1>t, <2>2, <3>2 DEF Settle
      <4>2. Settled(s)
        BY <1>3, <2>0, <2>2, <3>1, <4>1 DEF MarkedKey, PendingKey
      <4> QED BY <2>0, <4>2
    <3>3. CASE res[s] # "delivered"
      <4>1. idem'[k] = ReleasedKey(idem[k], OwnerOf(s))
        BY <1>3, <1>t, <2>2, <3>3 DEF Settle
      <4> QED BY <3>1, <4>1 DEF ReleasedKey, PendingKey
    <3> QED BY <3>2, <3>3
  <2> QED BY <2>1, <2>2
<1>4. ASSUME NEW s \in Senders,
             RouteFound(s) \/ RouteEnds(s) \/ RouteRetargeted(s) \/ ReserveSelect(s)
             \/ ReserveFails(s) \/ Post(s) \/ PostLosesAck(s) \/ SettleFails(s)
      PROVE  Goal
  BY <1>4 DEF RouteFound, RouteEnds, RouteRetargeted, ReserveSelect, ReserveFails,
     Post, PostLosesAck, SettleFails
<1>5. ASSUME NEW c \in Callers, LookUp(c) PROVE Goal
  <2>1. idem'[k] = idem[k] \/ idem'[k] = LookedUpKey(idem[k])
    BY <1>5, <1>t DEF LookUp
  <2> QED BY <2>1, <1>n DEF LookedUpKey
<1>6. ASSUME NEW c \in Callers,
             DurableRoute(c) \/ Enqueue(c) \/ MarkDuplicate(c) \/ WakePump(c) \/ CallThrows(c)
      PROVE  Goal
  BY <1>6 DEF DurableRoute, Enqueue, MarkDuplicate, WakePump, CallThrows
<1>7. ASSUME NEW p \in Procs,
             TimerFires(p) \/ Restart(p) \/ Crash(p) \/ Sweep(p) \/ Claim(p)
             \/ CheckSession(p) \/ Mark(p) \/ LookAhead(p) \/ EndPass(p) \/ PassThrows(p)
      PROVE  Goal
  BY <1>7 DEF TimerFires, Restart, Crash, Sweep, Claim, CheckSession, Mark,
     LookAhead, EndPass, PassThrows
<1>8. ASSUME NEW l \in Keys, KeyLapses(l) PROVE Goal
  <2>1. l # k
    BY <1>8, <1>t DEF KeyLapses, Blame, Clean
  <2> QED BY <1>8, <1>t, <2>1 DEF KeyLapses
<1>9. CASE CleanUpKeys
  BY <1>9, <1>n DEF CleanUpKeys, LookedUpKey
<1>10. ASSUME (\E j \in Jobs : ClaimLapses(j) \/ FallsDue(j) \/ Expires(j)) \/ CleanUpJobs
              \/ (\E x \in Sessions : CloseSession(x) \/ CancelJobs(x)) \/ UNCHANGED vars
       PROVE  Goal
  BY <1>10 DEF ClaimLapses, FallsDue, Expires, CleanUpJobs, CloseSession, CancelJobs, vars
<1> HIDE DEF Goal
<1> QED BY <1>1, <1>2, <1>3, <1>4, <1>5, <1>6, <1>7, <1>8, <1>9, <1>10
        DEF Next, PumpStep, CallStep, SendStep, ClockStep

LEMMA ReservedStep ==
    ASSUME TypeInv, Bookkeeping, Exclusive, Reserved, Once, [Next]_vars PROVE Reserved'
<1> SUFFICES ASSUME NEW s \in Senders, pc'[s] \in Critical, Clean(Key(s))'
             PROVE  /\ Posting(s)' => idem'[Key(s)'] = PendingKey(OwnerOf(s)')
                    /\ pc'[s] = "select" => idem'[Key(s)'].state # "none"
                    /\ pc'[s] = "refresh" => /\ idem'[Key(s)'].state # "none"
                                             /\ idem'[Key(s)'].owner = OwnerOf(s)'
  BY DEF Reserved, Critical, Posting
<1>same. Key(s)' = Key(s) /\ OwnerOf(s)' = OwnerOf(s) /\ (pc'[s] = pc[s] \/ SendStep(s))
  BY SameSender
<1>pc. pc[s] \in Critical \cup {"route", "insert"}
  BY <1>same DEF Critical, SendStep, RouteFound, RouteEnds, RouteRetargeted,
     ReserveInsert, ReserveSelect, ReserveRefresh, ReserveFails, Post,
     PostLosesAck, Settle, SettleFails
<1>w. pc[s] \in WorkPC /\ Key(s) \in Keys /\ OwnerOf(s) \in Owners
  BY <1>pc, KeyAndOwner DEF Critical, WorkPC
<1> PICK k \in Keys : k = Key(s)
  BY <1>w
<1> DEFINE Safe == /\ pc'[s] \in {"post", "settle"} => idem'[k] = PendingKey(OwnerOf(s))
                   /\ pc'[s] = "select" => idem'[k].state # "none"
                   /\ pc'[s] = "refresh" => /\ idem'[k].state # "none"
                                            /\ idem'[k].owner = OwnerOf(s)
<1> SUFFICES Safe
  BY <1>same DEF Posting
<1>c. Clean(k) /\ Clean(k)'
  BY <1>same, <1>w, CauseGrows DEF Clean
<1>t. /\ idem \in [Keys -> KeyRow(Owners)] /\ idem[k] \in KeyRow(Owners)
      /\ pc \in [Senders -> PC] /\ cause \in [Keys -> SUBSET Causes]
  BY DEF TypeInv, TypeOK
<1>r. /\ Posting(s) => idem[k] = PendingKey(OwnerOf(s))
      /\ pc[s] = "select" => idem[k].state # "none"
      /\ pc[s] = "refresh" => idem[k].state # "none" /\ idem[k].owner = OwnerOf(s)
  BY <1>w, <1>c DEF Reserved
<1>p. pc[s] \in {"post", "settle"} => s \in Posters
  BY CallersAssumption DEF Bookkeeping
<1>1. CASE pc'[s] = pc[s]
  <2>1. CASE idem'[k] = idem[k]
    BY <1>1, <1>r, <1>p, <2>1 DEF Posting
  <2>2. CASE idem[k].state = "none"
    <3>1. ~Posting(s) /\ pc[s] \notin {"select", "refresh"}
      BY <1>r, <2>2 DEF PendingKey
    <3> QED BY <1>1, <1>p, <3>1 DEF Posting
  <2>3. ASSUME NEW t \in Posters, Settle(t), Key(t) = k,
               idem[k] = PendingKey(OwnerOf(t)), idem'[k].state = "sent",
               idem'[k].owner = idem[k].owner
        PROVE  Safe
    <3>1. pc[t] = "settle" /\ pc'[t] \in {"route", "mark", "done"}
      BY <2>3, <1>t DEF Settle, AfterSettle, AfterSend
    <3>2. ~Posting(s)
      <4> SUFFICES ASSUME Posting(s) PROVE FALSE
        OBVIOUS
      <4>1. OwnerOf(s) = OwnerOf(t)
        BY <1>r, <2>3 DEF PendingKey
      <4>2. s = t
        BY <2>3, <3>1, <4>1, <1>w, <1>c, OwnersDiffer DEF Posting, WorkPC
      <4> QED BY <1>1, <3>1, <4>2 DEF Posting
    <3> QED BY <1>1, <1>r, <1>p, <2>3, <3>2 DEF Posting
  <2> QED BY <1>c, <2>1, <2>2, <2>3, KeyStep
<1>2. CASE ReserveInsert(s)
  <2>1. CASE CanInsert(idem[k])
    <3>1. idem'[k] = PendingKey(OwnerOf(s)) /\ pc'[s] \in {"wake", "post"}
      BY <1>2, <1>t, <1>w, <2>1 DEF ReserveInsert, AfterReserve
    <3> QED BY <3>1
  <2>2. CASE ~CanInsert(idem[k])
    <3>1. idem'[k] = idem[k] /\ pc'[s] = "select"
      BY <1>2, <1>t, <2>2 DEF ReserveInsert
    <3> QED BY <2>2, <3>1 DEF CanInsert
  <2> QED BY <2>1, <2>2
<1>3. CASE ReserveSelect(s)
  <2> DEFINE row == SeenRow(idem[k], OwnerOf(s))
  <2>1. idem' = idem /\ idem[k].state # "none"
    BY <1>3, <1>r DEF ReserveSelect
  <2>2. CASE row \in {"already-sent", "inflight"}
    <3>1. pc'[s] \in {"mark", "dup", "done"}
      BY <1>3, <1>t, <2>2 DEF ReserveSelect, AfterRefuse
    <3> QED BY <3>1
  <2>3. CASE row \notin {"already-sent", "inflight"}
    <3>1. idem[k].state = "pending" /\ idem[k].owner = OwnerOf(s) /\ row = "mine"
      BY <2>1, <2>3, <1>t DEF SeenRow, KeyRow
    <3>2. pc'[s] = "refresh"
      BY <1>3, <1>t, <3>1 DEF ReserveSelect
    <3> QED BY <2>1, <3>1, <3>2
  <2> QED BY <2>2, <2>3
<1>4. CASE ReserveRefresh(s)
  <2>1. pc[s] = "refresh" /\ pc'[s] \in {"wake", "post"}
    BY <1>4, <1>t DEF ReserveRefresh, AfterReserve
  <2>2. idem'[k] = PendingKey(OwnerOf(s))
    BY <1>4, <1>t, <1>w, <1>r, <2>1 DEF ReserveRefresh, RefreshedKey
  <2> QED BY <2>1, <2>2
<1>5. CASE ReserveFails(s) \/ PostLosesAck(s) \/ SettleFails(s)
  BY <1>5, <1>t, <1>w, <1>c DEF ReserveFails, PostLosesAck, SettleFails, Blame, Clean
<1>6. CASE Post(s)
  <2>1. idem' = idem /\ Posting(s) /\ pc'[s] = "settle"
    BY <1>6, <1>t DEF Post, Posting
  <2> QED BY <2>1, <1>r
<1>7. CASE Settle(s) \/ RouteFound(s) \/ RouteEnds(s)
  <2>1. pc'[s] \in {"route", "mark", "done", "insert"}
    BY <1>7, <1>t DEF Settle, RouteFound, RouteEnds, AfterSettle, AfterSend
  <2> QED BY <2>1
<1>8. CASE RouteRetargeted(s)
  BY <1>8, <1>1 DEF RouteRetargeted
<1> HIDE DEF Safe
<1> QED BY <1>same, <1>1, <1>2, <1>3, <1>4, <1>5, <1>6, <1>7, <1>8 DEF SendStep

----------------------------------------------------------------------------
(* The record of a post.                                                   *)

\* A message that was just posted is settled next, or its poster dies.
LEMMA SettlesNext ==
    ASSUME TypeInv, [Next]_vars, NEW s \in Posters, pc[s] = "settle"
    PROVE  \/ pc'[s] = "settle" /\ res'[s] = res[s]
           \/ Settle(s) \/ SettleFails(s)
           \/ \E p \in Procs : /\ Crash(p)
                               /\ s = p \/ (s \in DirectCallers /\ pc'[s] = "done")
<1> DEFINE Next1 == \/ pc'[s] = "settle" /\ res'[s] = res[s]
                    \/ Settle(s) \/ SettleFails(s)
                    \/ \E p \in Procs : /\ Crash(p)
                                        /\ s = p \/ (s \in DirectCallers /\ pc'[s] = "done")
<1> SUFFICES Next1
  OBVIOUS
<1> USE CallersAssumption
<1>t. pc \in [Senders -> PC] /\ res \in [Senders -> Results]
  BY DEF TypeInv, TypeOK
<1>1. ASSUME NEW p \in Procs,
             TimerFires(p) \/ Restart(p) \/ Sweep(p) \/ Claim(p) \/ CheckSession(p)
             \/ Mark(p) \/ LookAhead(p) \/ EndPass(p) \/ PassThrows(p)
      PROVE  pc'[s] = pc[s] /\ res'[s] = res[s]
  <2>1. s # p \/ TimerFires(p) \/ Restart(p)
    BY <1>1 DEF Sweep, Claim, CheckSession, Mark, LookAhead, EndPass, PassThrows
  <2>2. CASE s # p
    BY <1>1, <1>t, <2>2 DEF TimerFires, Restart, Sweep, Claim, CheckSession, Mark,
       LookAhead, EndPass, PassThrows
  <2>3. CASE s = p /\ (TimerFires(p) \/ Restart(p))
    BY <1>t, <2>3 DEF TimerFires, Restart
  <2> QED BY <2>1, <2>2, <2>3
<1>2. ASSUME NEW p \in Procs, Crash(p) PROVE Next1
  <2>1. CASE s = p
    BY <1>2, <2>1
  <2>2. CASE s # p
    <3>1. res'[s] = res[s]
      BY <1>2, <1>t, <2>2 DEF Crash
    <3>2. pc'[s] = pc[s] \/ (s \in Callers /\ pc'[s] = "done")
      BY <1>2, <1>t, <2>2 DEF Crash
    <3>3. s \in Callers => s \in DirectCallers
      OBVIOUS
    <3> QED BY <1>2, <3>1, <3>2, <3>3
  <2> QED BY <2>1, <2>2
<1>3. ASSUME NEW t \in Senders, SendStep(t) PROVE Next1
  <2>1. CASE t # s
    <3>1. pc'[s] = pc[s] /\ res'[s] = res[s]
      BY <1>3, <1>t, <2>1 DEF SendStep, RouteFound, RouteEnds, RouteRetargeted,
         ReserveInsert, ReserveSelect, ReserveRefresh, ReserveFails, Post,
         PostLosesAck, Settle, SettleFails, AfterSettle
    <3> QED BY <3>1
  <2>2. CASE t = s
    BY <1>3, <2>2 DEF SendStep, RouteFound, RouteEnds, RouteRetargeted,
       ReserveInsert, ReserveSelect, ReserveRefresh, ReserveFails, Post,
       PostLosesAck
  <2> QED BY <2>1, <2>2
<1>4. ASSUME NEW c \in Callers,
             DurableRoute(c) \/ LookUp(c) \/ Enqueue(c) \/ MarkDuplicate(c)
             \/ WakePump(c) \/ CallThrows(c)
      PROVE  pc'[s] = pc[s] /\ res'[s] = res[s]
  <2>1. c # s
    BY <1>4 DEF DurableRoute, LookUp, Enqueue, MarkDuplicate, WakePump, CallThrows
  <2> QED BY <1>4, <1>t, <2>1 DEF DurableRoute, LookUp, Enqueue, MarkDuplicate,
       WakePump, CallThrows
<1>5. ASSUME ClockStep \/ (\E x \in Sessions : CloseSession(x) \/ CancelJobs(x))
             \/ UNCHANGED vars
      PROVE  pc'[s] = pc[s] /\ res'[s] = res[s]
  BY <1>5 DEF ClockStep, ClaimLapses, FallsDue, Expires, KeyLapses, CleanUpKeys,
     CleanUpJobs, CloseSession, CancelJobs, vars
<1> HIDE DEF Next1
<1>6. pc'[s] = pc[s] /\ res'[s] = res[s] => Next1
  BY DEF Next1
<1> QED BY <1>1, <1>2, <1>3, <1>4, <1>5, <1>6 DEF Next, PumpStep, CallStep

\* A direct call that is over stays so.
LEMMA DoneStays ==
    ASSUME TypeInv, [Next]_vars, NEW c \in DirectCallers, pc[c] = "done"
    PROVE  pc'[c] = "done"
<1> USE CallersAssumption
<1>t. pc \in [Senders -> PC]
  BY DEF TypeInv, TypeOK
<1>1. ASSUME NEW p \in Procs,
             TimerFires(p) \/ Restart(p) \/ Sweep(p) \/ Claim(p) \/ CheckSession(p)
             \/ Mark(p) \/ LookAhead(p) \/ EndPass(p) \/ PassThrows(p) \/ Crash(p)
      PROVE  pc'[c] = "done"
  BY <1>1, <1>t DEF TimerFires, Restart, Sweep, Claim, CheckSession, Mark,
     LookAhead, EndPass, PassThrows, Crash
<1>2. ASSUME NEW t \in Senders, SendStep(t) PROVE pc'[c] = "done"
  <2>1. t # c
    BY <1>2 DEF SendStep, RouteFound, RouteEnds, RouteRetargeted, ReserveInsert,
       ReserveSelect, ReserveRefresh, ReserveFails, Post, PostLosesAck, Settle,
       SettleFails
  <2> QED BY <1>2, <1>t, <2>1 DEF SendStep, RouteFound, RouteEnds, RouteRetargeted,
       ReserveInsert, ReserveSelect, ReserveRefresh, ReserveFails, Post,
       PostLosesAck, Settle, SettleFails, AfterSettle
<1>3. ASSUME NEW d \in Callers,
             DurableRoute(d) \/ LookUp(d) \/ Enqueue(d) \/ MarkDuplicate(d)
             \/ WakePump(d) \/ CallThrows(d)
      PROVE  pc'[c] = "done"
  BY <1>3, <1>t DEF DurableRoute, LookUp, Enqueue, MarkDuplicate, WakePump, CallThrows
<1>4. ASSUME ClockStep \/ (\E x \in Sessions : CloseSession(x) \/ CancelJobs(x))
             \/ UNCHANGED vars
      PROVE  pc'[c] = "done"
  BY <1>4 DEF ClockStep, ClaimLapses, FallsDue, Expires, KeyLapses, CleanUpKeys,
     CleanUpJobs, CloseSession, CancelJobs, vars
<1> QED BY <1>1, <1>2, <1>3, <1>4 DEF Next, PumpStep, CallStep

\* A post on record stays on record.
LEMMA OnRecordStays ==
    ASSUME TypeInv, Bookkeeping, Exclusive, Reserved, Once, [Next]_vars,
           NEW k \in Keys, Clean(k), Clean(k)', OnRecord(k)
    PROVE  OnRecord(k)'
<1> USE CallersAssumption
<1>t. /\ idem \in [Keys -> KeyRow(Owners)] /\ idem[k] \in KeyRow(Owners)
      /\ pc \in [Senders -> PC] /\ cause \in [Keys -> SUBSET Causes]
      /\ try \in [Senders -> {1, 2}]
  BY DEF TypeInv, TypeOK
<1>1. CASE idem[k].state = "sent"
  <2>1. \A s \in Posters : idem[k] # PendingKey(OwnerOf(s))
    BY <1>1 DEF PendingKey
  <2>2. idem[k].state # "none"
    BY <1>1
  <2>3. idem'[k] = idem[k]
    BY <2>1, <2>2, KeyStep
  <2> QED BY <1>1, <2>3 DEF OnRecord
<1>2. ASSUME NEW s \in Posters, pc[s] = "settle", res[s] = "delivered", Key(s) = k
      PROVE  OnRecord(k)'
  <2>r. idem[k] = PendingKey(OwnerOf(s))
    BY <1>2 DEF Reserved, Posting, WorkPC
  <2>o. OwnerOf(s) \in Owners
    BY <1>2, KeyAndOwner DEF WorkPC
  <2>1. CASE Settle(s)
    <3>1. idem'[k] = MarkedKey(idem[k], OwnerOf(s))
      BY <1>2, <1>t, <2>1 DEF Settle
    <3>2. idem'[k].state = "sent"
      BY <2>r, <3>1 DEF MarkedKey, PendingKey
    <3> QED BY <3>2 DEF OnRecord
  <2>2. CASE SettleFails(s)
    BY <1>2, <1>t, <2>2 DEF SettleFails, Blame, Clean
  <2>3. ASSUME pc'[s] = "settle", res'[s] = res[s]
        PROVE  OnRecord(k)'
    <3>1. Key(s)' = k
      BY <1>2, <2>3, SameSender DEF Critical
    <3> QED BY <1>2, <2>3, <3>1 DEF OnRecord
  <2>4. ASSUME NEW p \in Procs, Crash(p), s = p \/ (s \in DirectCallers /\ pc'[s] = "done")
        PROVE  OnRecord(k)'
    <3>1. s # p
      BY <1>2, <1>t, <2>4 DEF Crash, Blame, Clean
    <3>2. s \in DirectCallers /\ pc'[s] = "done"
      BY <2>4, <3>1
    <3>3. idem' = idem
      BY <2>4 DEF Crash
    <3>4. OwnerOf(s) = <<s, try[s]>> /\ try[s] \in {1, 2}
      BY <1>t, <3>2 DEF OwnerOf
    <3> QED BY <2>r, <3>2, <3>3, <3>4 DEF OnRecord, PendingKey
  <2> QED BY <1>2, <2>1, <2>2, <2>3, <2>4, SettlesNext
<1>3. ASSUME NEW c \in DirectCallers, NEW n \in {1, 2}, idem[k].state = "pending",
             idem[k].owner = <<c, n>>, pc[c] = "done"
      PROVE  OnRecord(k)'
  <2>1. pc'[c] = "done"
    BY <1>3, DoneStays
  <2>2. CASE idem'[k] = idem[k]
    BY <1>3, <2>1, <2>2 DEF OnRecord
  <2>3. CASE idem'[k].state = "sent"
    BY <2>3 DEF OnRecord
  <2> QED BY <1>3, <2>2, <2>3, KeyStep
<1> QED BY <1>1, <1>2, <1>3 DEF OnRecord

\* Whoever is about to post a message finds none on record.
LEMMA PostsFirst ==
    ASSUME TypeInv, Bookkeeping, Exclusive, Reserved, NEW s \in Posters,
           pc[s] = "post", Clean(Key(s))
    PROVE  ~OnRecord(Key(s))
<1> USE CallersAssumption
<1>r. idem[Key(s)] = PendingKey(OwnerOf(s))
  BY DEF Reserved, Posting, WorkPC
<1>1. idem[Key(s)].state # "sent"
  BY <1>r DEF PendingKey
<1>2. ASSUME NEW t \in Posters, pc[t] = "settle", Key(t) = Key(s) PROVE FALSE
  <2>1. idem[Key(t)] = PendingKey(OwnerOf(t))
    BY <1>2 DEF Reserved, Posting, WorkPC
  <2>2. OwnerOf(s) = OwnerOf(t)
    BY <1>r, <1>2, <2>1 DEF PendingKey
  <2>3. s = t
    BY <1>2, <2>2, OwnersDiffer DEF WorkPC
  <2> QED BY <1>2, <2>3
<1>3. ASSUME NEW c \in DirectCallers, NEW n \in {1, 2},
             idem[Key(s)].owner = <<c, n>>, pc[c] = "done"
      PROVE  FALSE
  <2>1. OwnerOf(s) = <<c, n>>
    BY <1>r, <1>3 DEF PendingKey
  <2>2. CASE s \in Procs
    BY <2>1, <2>2 DEF OwnerOf
  <2>3. CASE s \in DirectCallers
    BY <1>3, <2>1, <2>3 DEF OwnerOf
  <2> QED BY <2>2, <2>3
<1> QED BY <1>1, <1>2, <1>3 DEF OnRecord

\* Slack gets a message from a post, and from nothing else.
LEMMA PostsStep ==
    ASSUME TypeInv, [Next]_vars, NEW k \in Keys, Clean(k)'
    PROVE  \/ posts'[k] = posts[k]
           \/ \E s \in Posters : /\ pc[s] = "post" /\ Key(s) = k
                                 /\ posts'[k] = posts[k] + 1
                                 /\ pc'[s] = "settle" /\ res'[s] = "delivered"
<1> DEFINE Goal == \/ posts'[k] = posts[k]
                   \/ \E s \in Posters : /\ pc[s] = "post" /\ Key(s) = k
                                         /\ posts'[k] = posts[k] + 1
                                         /\ pc'[s] = "settle" /\ res'[s] = "delivered"
<1> SUFFICES Goal
  OBVIOUS
<1>t. /\ pc \in [Senders -> PC] /\ res \in [Senders -> Results]
      /\ posts \in [Keys -> Nat] /\ cause \in [Keys -> SUBSET Causes]
  BY DEF TypeInv, TypeOK
<1>1. ASSUME NEW s \in Senders, Post(s) PROVE Goal
  <2>1. CASE posts' = posts
    BY <2>1
  <2>2. CASE posts' = [posts EXCEPT ![Key(s)] = @ + 1] /\ res' = [res EXCEPT ![s] = "delivered"]
    <3>1. s \in Posters /\ pc[s] = "post" /\ pc'[s] = "settle" /\ res'[s] = "delivered"
      BY <1>1, <1>t, <2>2 DEF Post
    <3>2. IF Key(s) = k THEN posts'[k] = posts[k] + 1 ELSE posts'[k] = posts[k]
      BY <1>t, <2>2
    <3> QED BY <3>1, <3>2
  <2> QED BY <1>1, <2>1, <2>2 DEF Post
<1>2. ASSUME NEW s \in Senders, PostLosesAck(s) PROVE Goal
  <2>1. Key(s) # k
    BY <1>2, <1>t DEF PostLosesAck, Blame, Clean
  <2> QED BY <1>2, <1>t, <2>1 DEF PostLosesAck
<1>3. ASSUME NEW s \in Senders,
             RouteFound(s) \/ RouteEnds(s) \/ RouteRetargeted(s) \/ ReserveInsert(s)
             \/ ReserveSelect(s) \/ ReserveRefresh(s) \/ ReserveFails(s) \/ Settle(s)
             \/ SettleFails(s)
      PROVE  posts' = posts
  BY <1>3 DEF RouteFound, RouteEnds, RouteRetargeted, ReserveInsert, ReserveSelect,
     ReserveRefresh, ReserveFails, Settle, SettleFails
<1>4. ASSUME NEW p \in Procs,
             TimerFires(p) \/ Restart(p) \/ Crash(p) \/ Sweep(p) \/ Claim(p)
             \/ CheckSession(p) \/ Mark(p) \/ LookAhead(p) \/ EndPass(p) \/ PassThrows(p)
      PROVE  posts' = posts
  BY <1>4 DEF TimerFires, Restart, Crash, Sweep, Claim, CheckSession, Mark,
     LookAhead, EndPass, PassThrows
<1>5. ASSUME NEW c \in Callers,
             DurableRoute(c) \/ LookUp(c) \/ Enqueue(c) \/ MarkDuplicate(c)
             \/ WakePump(c) \/ CallThrows(c)
      PROVE  posts' = posts
  BY <1>5 DEF DurableRoute, LookUp, Enqueue, MarkDuplicate, WakePump, CallThrows
<1>6. ASSUME ClockStep \/ (\E x \in Sessions : CloseSession(x) \/ CancelJobs(x))
             \/ UNCHANGED vars
      PROVE  posts' = posts
  BY <1>6 DEF ClockStep, ClaimLapses, FallsDue, Expires, KeyLapses, CleanUpKeys,
     CleanUpJobs, CloseSession, CancelJobs, vars
<1>7. posts' = posts => Goal
  OBVIOUS
<1> HIDE DEF Goal
<1> QED BY <1>1, <1>2, <1>3, <1>4, <1>5, <1>6, <1>7 DEF Next, PumpStep, CallStep, SendStep

LEMMA OnceStep ==
    ASSUME TypeInv, Bookkeeping, Exclusive, Reserved, Once, [Next]_vars PROVE Once'
<1> SUFFICES ASSUME NEW k \in Keys, Clean(k)'
             PROVE  /\ ~idem'[k].stale
                    /\ posts'[k] <= 1
                    /\ posts'[k] = 1 => OnRecord(k)'
  BY DEF Once
<1>c. Clean(k)
  BY CauseGrows DEF Clean
<1>o. ~idem[k].stale /\ posts[k] <= 1 /\ (posts[k] = 1 => OnRecord(k)) /\ posts[k] \in Nat
  BY <1>c DEF Once, TypeInv, TypeOK
<1>1. ~idem'[k].stale
  <2>1. \A s \in Senders : ~PendingKey(OwnerOf(s)).stale
    BY DEF PendingKey
  <2> QED BY <1>c, <1>o, <2>1, KeyStep
<1>2. CASE posts'[k] = posts[k]
  BY <1>1, <1>2, <1>c, <1>o, OnRecordStays
<1>3. ASSUME NEW s \in Posters, pc[s] = "post", Key(s) = k, posts'[k] = posts[k] + 1,
             pc'[s] = "settle", res'[s] = "delivered"
      PROVE  posts'[k] <= 1 /\ OnRecord(k)'
  <2>1. posts[k] = 0
    BY <1>3, <1>c, <1>o, PostsFirst
  <2>2. Key(s)' = k
    BY <1>3, SameSender DEF Critical
  <2> QED BY <1>3, <2>1, <2>2 DEF OnRecord
<1> QED BY <1>1, <1>2, <1>3, PostsStep

----------------------------------------------------------------------------
LEMMA OnceInit == Init => OnceInv
<1> SUFFICES ASSUME Init PROVE OnceInv
  OBVIOUS
<1> USE CallersAssumption
<1>1. /\ pc = [s \in Senders |-> IF s \in Procs THEN "idle" ELSE "route"]
      /\ cur = [p \in Procs |-> None] /\ batch = [p \in Procs |-> {}]
      /\ job = [j \in Jobs |-> NoJob] /\ idem = [k \in Keys |-> NoKey]
      /\ posts = [k \in Keys |-> 0]
  BY DEF Init
<1>2. \A p \in Procs : pc[p] = "idle" /\ \A j \in Jobs : ~Holds(p, j)
  BY <1>1 DEF Holds
<1>3. \A c \in Callers : pc[c] = "route"
  BY <1>1
<1>4. Bookkeeping
  BY <1>1, <1>2, <1>3 DEF Bookkeeping, NoJob, CallerPC
<1>5. Exclusive
  BY <1>2 DEF Exclusive
<1>6. Counted
  BY <1>1, <1>2, BoundsAssumption DEF Counted, NoJob
<1>7. Reserved
  BY <1>2, <1>3 DEF Reserved, Posting, WorkPC
<1>8. Once
  BY <1>1 DEF Once, NoKey
<1> QED BY <1>4, <1>5, <1>6, <1>7, <1>8, TypeInit DEF OnceInv

LEMMA OnceInvStep == OnceInv /\ [Next]_vars => OnceInv'
  BY TypeStep, BookkeepingStep, ExclusiveStep, CountedStep, ReservedStep, OnceStep
     DEF OnceInv

\* The inductive invariant holds.
THEOREM OnceInvariant == Spec => []OnceInv
  BY OnceInit, OnceInvStep, PTL DEF Spec

\* No message is posted twice under a key that nothing named has befallen.
THEOREM PostedOnce == Spec => []NoUnexplainedDuplicate
<1>1. OnceInv => NoUnexplainedDuplicate
  BY DEF OnceInv, Once, Clean, NoUnexplainedDuplicate, TypeInv, TypeOK
<1> QED BY <1>1, OnceInvariant, PTL

\* Two pumps work on one job only when its claim lapsed under the first.
THEOREM OneWorker == Spec => []OneWorkerPerJob
<1>1. OnceInv => OneWorkerPerJob
  BY DEF OnceInv, Exclusive, Swift, OneWorkerPerJob
<1> QED BY <1>1, OnceInvariant, PTL

\* attempt_count stays below MAX_ATTEMPTS.
THEOREM AttemptsAreBounded == Spec => []AttemptsBounded
<1>1. OnceInv => AttemptsBounded
  BY DEF OnceInv, Counted, Swift, AttemptsBounded
<1> QED BY <1>1, OnceInvariant, PTL

----------------------------------------------------------------------------
(* A closed session is left alone.                                         *)

\* The job's session is closed, and who has the job in hand is about to mark it.
Hushed(j) ==
    /\ session[SessionOf[j]] # "active"
    /\ \A p \in Procs : cur[p] = j => pc[p] = "mark"

\* A pump takes a job in hand in CheckSession alone, which looks at the session
\* first, and leaves "mark" only by giving the job up.
LEMMA HushedStep ==
    ASSUME TypeInv, [Next]_vars, NEW j \in Jobs, Hushed(j)
    PROVE  Hushed(j)'
<1> USE CallersAssumption DEF TypeInv, TypeOK, Hushed
<1>0. SessionOf[j] \in Sessions
  BY PlacementAssumption
<1>1. ASSUME UNCHANGED <<session, cur>>,
             \A p \in Procs : pc'[p] = pc[p] \/ pc[p] # "mark"
      PROVE  Hushed(j)'
  BY <1>1
<1>2. ASSUME NEW q \in Procs,
             TimerFires(q) \/ Restart(q) \/ Sweep(q) \/ Claim(q) \/ LookAhead(q) \/ EndPass(q)
      PROVE  Hushed(j)'
  <2>1. /\ UNCHANGED <<session, cur>>
        /\ \A p \in Procs : pc'[p] = pc[p] \/ pc[p] # "mark"
    BY <1>2 DEF TimerFires, Restart, Sweep, Claim, LookAhead, EndPass
  <2> QED BY <1>1, <2>1
<1>3. ASSUME NEW q \in Procs, CheckSession(q) PROVE Hushed(j)'
  <2>1. PICK i \in batch[q] : /\ cur' = [cur EXCEPT ![q] = i]
                              /\ \/ Deliverable(SessionOf[i])
                                 \/ pc' = [pc EXCEPT ![q] = "mark"]
    BY <1>3 DEF CheckSession
  <2>2. session' = session /\ \A p \in Procs : p # q => pc'[p] = pc[p]
    BY <1>3 DEF CheckSession
  <2>3. i = j => pc'[q] = "mark"
    BY <2>1 DEF Deliverable
  <2> QED BY <2>1, <2>2, <2>3
<1>4. ASSUME NEW q \in Procs, Mark(q) \/ PassThrows(q) \/ Crash(q) PROVE Hushed(j)'
  <2>1. /\ session' = session /\ cur' = [cur EXCEPT ![q] = None]
        /\ \A p \in Procs : p # q => pc'[p] = pc[p]
    BY <1>4 DEF Mark, PassThrows, Crash
  <2> QED BY <2>1
<1>5. ASSUME NEW s \in Senders, SendStep(s) PROVE Hushed(j)'
  <2>1. UNCHANGED <<session, cur>> /\ pc[s] # "mark"
    BY <1>5 DEF SendStep, RouteFound, RouteEnds, RouteRetargeted,
       ReserveInsert, ReserveSelect, ReserveRefresh, ReserveFails, Post,
       PostLosesAck, Settle, SettleFails
  <2>2. \A p \in Procs : p # s => pc'[p] = pc[p]
    BY <1>5 DEF SendStep, RouteFound, RouteEnds, RouteRetargeted,
       ReserveInsert, ReserveSelect, ReserveRefresh, ReserveFails, Post,
       PostLosesAck, Settle, SettleFails, AfterSettle
  <2> QED BY <1>1, <2>1, <2>2
<1>6. ASSUME NEW c \in Callers,
             DurableRoute(c) \/ LookUp(c) \/ Enqueue(c) \/ MarkDuplicate(c)
             \/ WakePump(c) \/ CallThrows(c)
      PROVE  Hushed(j)'
  <2>1. UNCHANGED <<session, cur>> /\ \A p \in Procs : pc'[p] = pc[p]
    BY <1>6 DEF DurableRoute, LookUp, Enqueue, MarkDuplicate, WakePump, CallThrows
  <2> QED BY <1>1, <2>1
<1>7. ASSUME ClockStep \/ UNCHANGED vars PROVE Hushed(j)'
  <2>1. UNCHANGED <<session, cur, pc>>
    BY <1>7 DEF ClockStep, ClaimLapses, FallsDue, Expires, KeyLapses, CleanUpKeys,
       CleanUpJobs, vars
  <2> QED BY <1>1, <2>1
<1>8. ASSUME NEW s \in Sessions, CloseSession(s) \/ CancelJobs(s) PROVE Hushed(j)'
  <2>1. UNCHANGED <<cur, pc>> /\ session'[SessionOf[j]] # "active"
    BY <1>0, <1>8 DEF CloseSession, CancelJobs
  <2> QED BY <2>1
<1> HIDE DEF Hushed
<1> QED BY <1>2, <1>3, <1>4, <1>5, <1>6, <1>7, <1>8 DEF Next, PumpStep, CallStep

\* A job of a closed session on which no pass is at work is never taken to Slack
\* again, for good and under faults of all kinds, although a late mark may bring
\* it back to retry (canDeliverToSession in runOutboundPumpInternal).
THEOREM ClosedSessionsStayQuiet == Spec => ClosedStaysQuiet
<1> SUFFICES ASSUME NEW j \in Jobs
             PROVE  Spec => [](session[SessionOf[j]] # "active" /\ ~AtWork(j)
                        => [](\A p \in Procs : cur[p] = j => pc[p] = "mark"))
  BY DEF ClosedStaysQuiet
<1> DEFINE Closed == session[SessionOf[j]] # "active" /\ ~AtWork(j)
           Silent == \A p \in Procs : cur[p] = j => pc[p] = "mark"
           Hush   == Hushed(j)
<1>1. Closed => Hush
  BY DEF AtWork, Hushed
<1>2. Hush => Silent
  BY DEF Hushed
<1>3. TypeInv /\ Hush /\ [Next]_vars => Hush'
  BY HushedStep
<1> HIDE DEF Closed, Silent, Hush
<1>4. Spec => [](Closed => []Silent)
  BY <1>1, <1>2, <1>3, TypeInit, TypeStep, PTL DEF Spec
<1> QED BY <1>4 DEF Closed, Silent

=============================================================================
