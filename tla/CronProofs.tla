------------------------------ MODULE CronProofs ------------------------------
(***************************************************************************)
(* Proofs about Cron, for any number of jobs, requests and chains, and for *)
(* any schedules, lease, limit of a batch, clock and faults.  The          *)
(* invariant has five parts, inductive together:                           *)
(*                                                                         *)
(* - TypeOK;                                                               *)
(* - Threads: whose a run is, and what a waiting chain or request knows;   *)
(* - Room: every call of armTimer finds a free chain, so that the bound on *)
(*   the chains keeps no behaviour from the model;                         *)
(* - Leases: while a chain holds a job that nobody else touches, the job   *)
(*   is not due before the lease is over, which gives OneHolder;           *)
(* - TimerKept.                                                            *)
(***************************************************************************)
EXTENDS Cron, FiniteSetTheorems, WellFoundedInduction, TLAPS

(* A run belongs to a chain at the head of its batch, with a raw row, or   *)
(* to a request that triggered its job.                                    *)
ChainThreads ==
    \A c \in Chains :
        /\ chain[c].at \in {"told", "set", "running"} => chain[c].due # None
        /\ run[c] # None =>
             /\ chain[c].at = "running" /\ run[c].row = Raw
             /\ chain[c].batch # <<>> /\ run[c].job = Head(chain[c].batch)

RequestThreads ==
    \A r \in Requests :
        /\ run[r] # None =>
             /\ req[r].at = "running" /\ run[r].row \in Seen
             /\ run[r].job = req[r].job
        /\ req[r].at = "patching" => req[r].patch \in Patches
        /\ req[r].at = "idle" <=> req[r].job = None

Threads == ChainThreads /\ RequestThreads

(* The chains in use were taken by the start and by requests that are done. *)
Busy == {c \in Chains : chain[c].at # "idle"}
Served == {r \in Requests : req[r].at = "done"}
Room == Cardinality(Busy) <= Cardinality(Served) + (IF up = "up" THEN 1 ELSE 0)

(* Neither a request nor initializeJobs has to do with a job.              *)
Alone(j) == j \notin revived /\ \A r \in Requests : req[r].job # j

(* A job that is held comes up again only after the lease.                 *)
HasNext(j) == table[j] # None /\ table[j].next # None
Leases ==
    \A c \in Chains, j \in Jobs :
        Holds(c, j) /\ Alone(j) /\ HasNext(j) => chain[c].due <= table[j].next

Inv == TypeOK /\ Threads /\ Room /\ Leases /\ OneHolder /\ TimerKept

----------------------------------------------------------------------------
(* Minimum and maximum.                                                    *)

LEMMA LeastNat ==
  ASSUME NEW T \in SUBSET Nat, T # {}
  PROVE  \E x \in T : \A y \in T : x <= y
  <1> DEFINE R == OpToRel(<, Nat)
  <1>1. PICK x \in T : \A y \in T : ~ (<<y, x>> \in R)
    <2> HIDE DEF R
    <2>1. IsWellFoundedOn(R, Nat)
      BY NatLessThanWellFounded DEF R
    <2> QED
      BY <2>1, WFMin
  <1>2. ASSUME NEW y \in T PROVE x <= y
    <2>1. ~(y < x)
      BY <1>1 DEF OpToRel
    <2> QED
      BY <2>1
  <1> QED
    BY <1>2

LEMMA MinOfNats ==
  ASSUME NEW T \in SUBSET Nat, T # {}
  PROVE  Min(T) \in T /\ \A y \in T : Min(T) <= y
  <1>1. \E x \in T : \A y \in T : x <= y
    BY LeastNat
  <1> QED
    BY <1>1 DEF Min

LEMMA MinOfTwo ==
  ASSUME NEW x \in Int, NEW y \in Int
  PROVE  Min({x, y}) = IF x <= y THEN x ELSE y
  <1>1. \E z \in {x, y} : \A w \in {x, y} : z <= w
    OBVIOUS
  <1>2. Min({x, y}) \in {x, y} /\ \A w \in {x, y} : Min({x, y}) <= w
    BY <1>1 DEF Min
  <1> QED
    BY <1>2

LEMMA MaxOfTwo ==
  ASSUME NEW x \in Int, NEW y \in Int
  PROVE  Max({x, y}) = IF x >= y THEN x ELSE y
  <1>1. \E z \in {x, y} : \A w \in {x, y} : z >= w
    OBVIOUS
  <1>2. Max({x, y}) \in {x, y} /\ \A w \in {x, y} : Max({x, y}) >= w
    BY <1>1 DEF Max
  <1> QED
    BY <1>2

----------------------------------------------------------------------------
(* What the operators of the model return.                                 *)

(* A schedule gives a time after now, or none; a raw row's gives none.     *)
LEMMA NextRunType ==
  ASSUME now \in Nat, NEW kind \in Kinds, NEW value \in Int
  PROVE  NextRun(kind, value) \in MaybeTime
  BY DEF NextRun, MaybeTime, Kinds

LEMMA RawNeverNext == NextRun(Raw.kind, Raw.value) = None
  BY CronAssumption DEF NextRun, Raw, Kinds

LEMMA NewRowType ==
  ASSUME now \in Nat, NEW n \in NewJobs
  PROVE  NewRow(n) \in Row
  <1>1. n \in [kind : Kinds, value : Int, once : BOOLEAN]
    BY CronAssumption
  <1> QED
    BY <1>1, NextRunType DEF NewRow, Row

LEMMA MappedType ==
  ASSUME NEW row \in Row
  PROVE  Mapped(row) \in Seen
  BY DEF Mapped, Row, Seen

(* The chains Arm leaves.                                                  *)
ChainRow == [at : {"idle", "asking", "told", "set", "claiming", "running"},
             due : MaybeTime, batch : Seq(Jobs)]

LEMMA IdleType == Idle \in ChainRow /\ [Idle EXCEPT !.at = "asking"] \in ChainRow
  <1>1. <<>> \in Seq(Jobs)
    OBVIOUS
  <1>2. Idle \in ChainRow
    BY <1>1 DEF Idle, ChainRow, MaybeTime
  <1>3. [Idle EXCEPT !.at = "asking"] = [at |-> "asking", due |-> None, batch |-> <<>>]
    BY DEF Idle
  <1> QED
    BY <1>1, <1>2, <1>3 DEF ChainRow, MaybeTime

LEMMA Arming ==
  ASSUME TypeOK, NEW c \in Chains, Arm(chain, c)
  PROVE  /\ chain' \in [Chains -> ChainRow] /\ timer' = None /\ byHand' = {}
         /\ chain'[c].at = "asking"
         /\ \A x \in Chains : x # c => 
            chain'[x] = chain[x] \/ (chain[x].at = "set" /\ chain'[x] = Idle)
  BY IdleType DEF Arm, TypeOK, ChainRow, Idle

(* The chains a step leaves: nobody takes a job that is not claimed now.   *)
Fewer ==
    \A x \in Chains :
        \/ chain'[x] = chain[x]
        \/ chain'[x].at # "running"
        \/ /\ chain[x].at = "running" /\ chain[x].batch # <<>>
           /\ chain'[x] = [chain[x] EXCEPT !.batch = Tail(@)]

LEMMA ArmingFewer ==
  ASSUME TypeOK, NEW c \in Chains, Arm(chain, c)
  PROVE  Fewer
  BY Arming DEF Fewer, Idle

LEMMA Holding ==
  ASSUME TypeOK, Fewer, NEW c \in Chains, NEW j \in Jobs, Holds(c, j)'
  PROVE  Holds(c, j) /\ chain'[c].due = chain[c].due
  <1>1. chain[c].batch \in Seq(Jobs)
    BY DEF TypeOK
  <1>2. CASE chain'[c] = chain[c]
    BY <1>2 DEF Holds
  <1>3. CASE /\ chain[c].at = "running" /\ chain[c].batch # <<>>
             /\ chain'[c] = [chain[c] EXCEPT !.batch = Tail(@)]
    <2>1. chain[c] \in ChainRow
      BY DEF TypeOK, ChainRow
    <2>2. /\ chain'[c].due = chain[c].due
          /\ chain'[c].batch = Tail(chain[c].batch)
      BY <1>3, <2>1 DEF ChainRow
    <2>3. PICK k \in DOMAIN Tail(chain[c].batch) : Tail(chain[c].batch)[k] = j
      BY <2>2 DEF Holds, ToSet
    <2>4. k + 1 \in DOMAIN chain[c].batch /\ chain[c].batch[k + 1] = j
      BY <1>1, <1>3, <2>3
    <2> QED
      BY <1>3, <2>2, <2>4 DEF Holds, ToSet
  <1> QED
    BY <1>2, <1>3 DEF Fewer, Holds

(* Who arms the timer after a request or after the start finds a free      *)
(* chain.                                                                  *)
LEMMA Finite ==
    /\ IsFiniteSet(Busy) /\ Cardinality(Busy) \in Nat
    /\ IsFiniteSet(Served) /\ Cardinality(Served) \in Nat
  BY CronAssumption, FS_Subset, FS_CardinalityType DEF Busy, Served

LEMMA FreeChainIsFree ==
  ASSUME TypeOK, Room, up # "up" \/ \E r \in Requests : req[r].at = "arming"
  PROVE  FreeChain \in Chains /\ chain[FreeChain].at = "idle"
  <1>1. /\ Cardinality(Busy) \in Nat /\ Cardinality(Served) \in Nat
        /\ Cardinality(Requests) \in Nat /\ Cardinality(Chains) \in Nat
    BY CronAssumption, Finite, FS_CardinalityType
  <1>2. Cardinality(Served) <= Cardinality(Requests)
    BY CronAssumption, FS_Subset DEF Served
  <1>3. ASSUME NEW r \in Requests, req[r].at = "arming"
        PROVE  Cardinality(Served) < Cardinality(Requests)
    <2>1. Served \subseteq Requests /\ r \in Requests \ Served
      BY <1>3 DEF Served
    <2>2. Served # Requests
      BY <2>1
    <2> QED
      BY <2>1, <2>2, <1>1, <1>2, CronAssumption, FS_Subset
  <1>4. Cardinality(Busy) <= Cardinality(Requests)
    BY <1>1, <1>2, <1>3 DEF Room
  <1>5. Cardinality(Busy) < Cardinality(Chains)
    BY <1>1, <1>4, CronAssumption
  <1>6. Busy # Chains
    BY <1>1, <1>5
  <1>7. \E c \in Chains : chain[c].at = "idle"
    BY <1>6 DEF Busy
  <1> QED
    BY <1>7 DEF FreeChain

----------------------------------------------------------------------------
(* What keeps each part of the invariant, whatever else a step does.       *)

LEMMA FinitePrimed ==
    /\ IsFiniteSet(Busy') /\ Cardinality(Busy') \in Nat
    /\ IsFiniteSet(Served') /\ Cardinality(Served') \in Nat
  BY CronAssumption, FS_Subset, FS_CardinalityType DEF Busy, Served

(* A step that takes no chain,                                             *)
LEMMA RoomStays ==
  ASSUME Room, up = "up" => up' = "up",
         \A x \in Chains : chain'[x].at # "idle" => chain[x].at # "idle",
         \A r \in Requests : req[r].at = "done" => req'[r].at = "done"
  PROVE  Room'
  <1>1. Busy' \subseteq Busy /\ Served \subseteq Served'
    BY DEF Busy, Served
  <1>2. Cardinality(Busy') <= Cardinality(Busy)
    BY <1>1, Finite, FS_Subset
  <1>3. Cardinality(Served) <= Cardinality(Served')
    BY <1>1, FinitePrimed, FS_Subset
  <1> QED
    BY <1>2, <1>3, Finite, FinitePrimed DEF Room

(* and one that takes a chain for a request, or for the start.             *)
LEMMA RoomGrows ==
  ASSUME Room, NEW c \in Chains,
         \A x \in Chains : x # c /\ chain'[x].at # "idle" => chain[x].at # "idle",
         \/ up' = up /\ \E r \in Requests : /\ req[r].at = "arming"
                                            /\ req' = [req EXCEPT ![r].at = "done"]
         \/ up # "up" /\ up' = "up" /\ req' = req,
         TypeOK
  PROVE  Room'
  <1>1. Busy' \subseteq Busy \cup {c}
    BY DEF Busy
  <1>2. /\ IsFiniteSet(Busy \cup {c}) /\ Cardinality(Busy \cup {c}) \in Nat
        /\ Cardinality(Busy \cup {c}) <= Cardinality(Busy) + 1
    <2>1. IsFiniteSet(Busy \cup {c})
      BY Finite, FS_AddElement
    <2>2. Cardinality(Busy \cup {c}) = IF c \in Busy THEN Cardinality(Busy)
                                       ELSE Cardinality(Busy) + 1
      BY Finite, FS_AddElement
    <2> QED
      BY <2>1, <2>2, Finite
  <1>3. Cardinality(Busy') <= Cardinality(Busy) + 1
    BY <1>1, <1>2, Finite, FinitePrimed, FS_Subset
  <1>4. ASSUME NEW r \in Requests, req[r].at = "arming", up' = up,
               req' = [req EXCEPT ![r].at = "done"]
        PROVE  Room'
    <2>1. Served' = Served \cup {r} /\ r \notin Served
      BY <1>4 DEF Served, TypeOK
    <2>2. Cardinality(Served') = Cardinality(Served) + 1
      BY <2>1, Finite, FS_AddElement
    <2> QED
      BY <1>3, <1>4, <2>2, Finite, FinitePrimed DEF Room
  <1>5. CASE up # "up" /\ up' = "up" /\ req' = req
    <2>1. Served' = Served
      BY <1>5 DEF Served
    <2> QED
      BY <1>3, <1>5, <2>1, Finite, FinitePrimed DEF Room
  <1> QED
    BY <1>4, <1>5

(* Nobody gives a next run to a job that is held and that he has not to do *)
(* with.                                                                   *)
Calm ==
    \A j \in Jobs : Alone(j)' =>
        /\ Alone(j)
        /\ \/ table'[j] = table[j]
           \/ ~HasNext(j)'
           \/ \A c \in Chains : ~Holds(c, j)

LEMMA LeasesStay ==
  ASSUME TypeOK, Leases, OneHolder, Fewer, Calm
  PROVE  Leases' /\ OneHolder'
  <1>1. Leases'
    <2> SUFFICES ASSUME NEW c \in Chains, NEW j \in Jobs,
                        Holds(c, j)', Alone(j)', HasNext(j)'
                 PROVE  chain'[c].due <= table'[j].next
      BY DEF Leases
    <2>1. Holds(c, j) /\ chain'[c].due = chain[c].due
      BY Holding
    <2>2. Alone(j) /\ table'[j] = table[j]
      BY <2>1 DEF Calm
    <2> QED
      BY <2>1, <2>2 DEF Leases, HasNext
  <1>2. OneHolder'
    <2> SUFFICES ASSUME NEW c \in Chains, NEW d \in Chains, NEW j \in Jobs,
                        c # d, Holds(c, j)', Holds(d, j)', Alone(j)'
                 PROVE  \/ chain'[c].due + Lease <= chain'[d].due
                        \/ chain'[d].due + Lease <= chain'[c].due
      BY DEF OneHolder, Alone
    <2>1. /\ Holds(c, j) /\ chain'[c].due = chain[c].due
          /\ Holds(d, j) /\ chain'[d].due = chain[d].due
      BY Holding
    <2>2. Alone(j)
      BY DEF Calm
    <2> QED
      BY <2>1, <2>2 DEF OneHolder, Alone
  <1> QED
    BY <1>1, <1>2

(* Somebody is about to look for the next job,                             *)
LEMMA TimerLooked ==
  ASSUME \/ \E x \in Chains : chain'[x].at \in {"asking", "claiming", "running"}
         \/ \E r \in Requests : req'[r].at = "arming"
  PROVE  TimerKept'
  BY DEF TimerKept, Watched

(* or no job comes up that was not watched before.                         *)
LEMMA TimerStays ==
  ASSUME TypeOK, Threads, TimerKept, up' = "up" => up = "up", now' \in Nat, now <= now',
         \A j \in Jobs : Awaits(j)' /\ j \notin byHand' =>
             Awaits(j) /\ j \notin byHand /\ table'[j].next = table[j].next,
         \A x \in Chains : chain'[x] = chain[x],
         \A r \in Requests : req[r].at = "arming" => req'[r].at = "arming"
  PROVE  TimerKept'
  <1> SUFFICES ASSUME up' = "up", NEW j \in Jobs, Awaits(j)', j \notin byHand'
               PROVE  Watched(j)'
    BY DEF TimerKept
  <1>1. Awaits(j) /\ Watched(j) /\ table'[j].next = table[j].next
    BY DEF TimerKept
  <1>2. table[j].next \in Nat /\ now \in Nat
    BY <1>1, CronAssumption DEF Awaits, TypeOK, Row, MaybeTime
  <1> DEFINE next == table[j].next
  <1>3. /\ Max({next, now}) = IF next >= now THEN next ELSE now
        /\ Max({next, now'}) = IF next >= now' THEN next ELSE now'
    BY <1>2, MaxOfTwo
  <1>4. Max({next, now}) \in Nat /\ Max({next, now'}) \in Nat
        /\ Max({next, now}) <= Max({next, now'})
    <2> HIDE DEF next
    <2> QED
      BY <1>2, <1>3 DEF next
  <1>5. ASSUME NEW c \in Chains, chain[c].at \in {"told", "set"},
               chain[c].due <= Max({table[j].next, now})
        PROVE  Watched(j)'
    <2>1. chain[c].due \in Nat
      BY <1>5 DEF TypeOK, Threads, ChainThreads, MaybeTime
    <2>2. chain'[c].due <= Max({table'[j].next, now'})
      BY <1>1, <1>4, <1>5, <2>1
    <2> QED
      BY <1>5, <2>2 DEF Watched
  <1> QED
    BY <1>1, <1>5 DEF Watched

----------------------------------------------------------------------------
(* The steps, one by one.                                                  *)

LEMMA Initially == Init => Inv
  <1> SUFFICES ASSUME Init PROVE Inv
    OBVIOUS
  <1>1. TypeOK
    <2>1. now = 0 /\ now \in Nat
      BY DEF Init
    <2>2. \A n \in NewJobs : NewRow(n) \in Row
      BY <2>1, NewRowType
    <2>3. table \in [Jobs -> Row \cup {None}]
      BY <2>2 DEF Init
    <2>4. chain \in [Chains -> ChainRow]
      BY IdleType DEF Init
    <2>5. req \in [Requests ->
             [at : {"idle", "patching", "arming", "running", "done"},
              job : Jobs \cup {None}, patch : Patches \cup {None},
              seen : Seen \cup {None}]]
      BY DEF Init, NoRequest
    <2> QED
      BY <2>1, <2>3, <2>4, <2>5, CronAssumption DEF Init, TypeOK, ChainRow
  <1>2. Threads
    BY DEF Init, Threads, ChainThreads, RequestThreads, Idle, NoRequest, Actors
  <1>3. Room
    <2>1. Busy = {}
      BY DEF Init, Busy, Idle
    <2> QED
      BY <2>1, Finite, FS_EmptySet DEF Room
  <1>4. Leases /\ OneHolder
    BY DEF Init, Leases, OneHolder, Holds, Idle
  <1>5. TimerKept
    BY DEF Init, TimerKept
  <1> QED
    BY <1>1, <1>2, <1>3, <1>4, <1>5 DEF Inv

LEMMA Stuttering ==
  ASSUME Inv, UNCHANGED vars
  PROVE  Inv'
  BY DEF Inv, vars, TypeOK, Threads, ChainThreads, RequestThreads, Room, Busy, Served, Leases, OneHolder, TimerKept,
         Holds, Alone, HasNext, Awaits, Watched

(* A step that has nothing to do with the chains, the runs and the         *)
(* requests.                                                               *)
Aside == UNCHANGED <<chain, run, req, timer, byHand>>

LEMMA AsideKeeps ==
  ASSUME Inv, Aside, TypeOK', up = "up" => up' = "up", Calm
  PROVE  Threads' /\ Room' /\ Leases' /\ OneHolder'
  <1>1. Threads'
    BY DEF Inv, Aside, Threads, ChainThreads, RequestThreads
  <1>2. Room'
    BY RoomStays DEF Inv, Aside
  <1>3. Fewer
    BY DEF Fewer, Aside
  <1> QED
    BY <1>1, <1>2, <1>3, LeasesStay DEF Inv

LEMMA TickKeeps ==
  ASSUME Inv, Tick
  PROVE  Inv'
  <1>1. TypeOK'
    BY CronAssumption DEF Inv, Tick, TypeOK
  <1>2. Aside /\ Calm
    BY DEF Tick, Aside, Calm, Alone
  <1>3. TimerKept'
    BY <1>1, TimerStays, CronAssumption DEF Inv, Tick, Awaits, TypeOK
  <1> QED
    BY <1>1, <1>2, <1>3, AsideKeeps DEF Inv, Tick

LEMMA StartKeeps ==
  ASSUME Inv, Start
  PROVE  Inv'
  <1>1. TypeOK' /\ TimerKept'
    BY DEF Inv, Start, TypeOK, TimerKept
  <1>2. Aside /\ Calm
    BY DEF Start, Aside, Calm, Alone
  <1> QED
    BY <1>1, <1>2, AsideKeeps DEF Inv, Start

LEMMA BootReadKeeps ==
  ASSUME Inv, BootRead
  PROVE  Inv'
  <1>1. TypeOK'
    <2>1. \A j \in Jobs : table[j] # None => Mapped(table[j]) \in Seen
      BY MappedType DEF Inv, TypeOK
    <2>2. boot' \in [Jobs -> Seen \cup {None}]
      BY <2>1 DEF BootRead
    <2> QED
      BY <2>2 DEF Inv, BootRead, TypeOK
  <1>2. Aside /\ Calm /\ TimerKept'
    BY DEF BootRead, Aside, Calm, Alone, TimerKept
  <1> QED
    BY <1>1, <1>2, AsideKeeps DEF Inv, BootRead

LEMMA BootWriteKeeps ==
  ASSUME Inv, NEW j \in Jobs, BootWrite(j)
  PROVE  Inv'
  <1> DEFINE next == NextRun(boot[j].kind, boot[j].value)
  <1>1. next \in MaybeTime
    <2>1. now \in Nat /\ boot[j] \in Seen
      BY CronAssumption DEF Inv, BootWrite, TypeOK
    <2> QED
      BY <2>1, NextRunType DEF Seen
  <1>2. /\ table' = IF table[j] = None \/ next = None THEN table
                    ELSE [table EXCEPT ![j].next = next]
        /\ revived' = IF table' # table /\ \E c \in Chains : Holds(c, j)
                      THEN revived \cup {j} ELSE revived
        /\ boot' = [boot EXCEPT ![j] = None]
        /\ up = "booting" /\ up' = up
    BY DEF BootWrite
  <1> HIDE DEF next
  <1>3. TypeOK'
    <2>1. table' \in [Jobs -> Row \cup {None}]
      <3>1. table \in [Jobs -> Row \cup {None}]
        BY DEF Inv, TypeOK
      <3>2. CASE table[j] # None
        <4>1. [table[j] EXCEPT !.next = next] \in Row
          BY <1>1, <3>1, <3>2 DEF Row
        <4> QED
          BY <1>2, <3>1, <4>1
      <3> QED
        BY <1>2, <3>1, <3>2
    <2>2. boot' \in [Jobs -> Seen \cup {None}] /\ revived' \subseteq Jobs
      BY <1>2 DEF Inv, TypeOK
    <2> QED
      BY <2>1, <2>2 DEF Inv, BootWrite, TypeOK
  <1>4. Aside
    BY DEF BootWrite, Aside
  <1>5. Calm
    <2>1. \A i \in Jobs : i # j => table'[i] = table[i]
      BY <1>2
    <2>2. revived \subseteq revived' /\ req' = req
      BY <1>2, <1>4 DEF Aside
    <2> QED
      BY <1>2, <2>1, <2>2 DEF Calm, Alone
  <1>6. TimerKept'
    BY <1>2 DEF TimerKept
  <1> QED
    BY <1>2, <1>3, <1>4, <1>5, <1>6, AsideKeeps DEF Inv

(* A call of armTimer by a chain whose run, if any, is over.               *)
LEMMA ArmKeeps ==
  ASSUME Inv, NEW c \in Chains, Arm(chain, c),
         \A x \in Chains : run'[x] # None => x # c /\ run'[x] = run[x]
  PROVE  /\ chain' \in [Chains -> ChainRow] /\ timer' = None /\ byHand' = {}
         /\ \A x \in Chains : x # c /\ chain'[x].at # "idle" => chain[x].at # "idle"
         /\ ChainThreads' /\ Fewer /\ TimerKept'
  <1>1. /\ chain' \in [Chains -> ChainRow] /\ timer' = None /\ byHand' = {}
        /\ chain'[c].at = "asking"
        /\ \A x \in Chains : x # c =>
              chain'[x] = chain[x] \/ (chain[x].at = "set" /\ chain'[x] = Idle)
    BY Arming DEF Inv
  <1>2. \A x \in Chains : x # c /\ chain'[x].at # "idle" => chain'[x] = chain[x]
    BY <1>1 DEF Idle
  <1>3. ChainThreads'
    <2>1. \A x \in Chains : run[x] # None => chain[x].at = "running"
      BY DEF Inv, Threads, ChainThreads
    <2>2. \A x \in Chains : run'[x] # None => x # c /\ chain'[x] = chain[x]
      BY <1>1, <2>1
    <2> QED
      BY <1>1, <1>2, <2>2 DEF Inv, Threads, ChainThreads
  <1>4. Fewer /\ TimerKept'
    BY <1>1, ArmingFewer, TimerLooked DEF Inv
  <1> QED
    BY <1>1, <1>2, <1>3, <1>4

LEMMA BootDoneKeeps ==
  ASSUME Inv, BootDone
  PROVE  Inv'
  <1> DEFINE c == FreeChain
  <1>1. c \in Chains /\ chain[c].at = "idle"
    BY FreeChainIsFree DEF Inv, BootDone
  <1>2. /\ Arm(chain, c) /\ up # "up" /\ up' = "up"
        /\ UNCHANGED <<now, table, born, boot, run, req, queued, revived, faults>>
    BY <1>1 DEF BootDone
  <1> HIDE DEF c
  <1>3. \A x \in Chains : run'[x] # None => x # c /\ run'[x] = run[x]
    BY <1>1, <1>2 DEF Inv, Threads, ChainThreads
  <1>4. /\ chain' \in [Chains -> ChainRow] /\ timer' = None /\ byHand' = {}
        /\ \A x \in Chains : x # c /\ chain'[x].at # "idle" => chain[x].at # "idle"
        /\ ChainThreads' /\ Fewer /\ TimerKept'
    BY <1>1, <1>2, <1>3, ArmKeeps
  <1>5. TypeOK' /\ RequestThreads'
    BY <1>2, <1>4 DEF Inv, TypeOK, ChainRow, Threads, RequestThreads
  <1>6. Room'
    BY <1>1, <1>2, <1>4, RoomGrows DEF Inv
  <1>7. Calm
    BY <1>2 DEF Calm, Alone
  <1> QED
    BY <1>4, <1>5, <1>6, <1>7, LeasesStay DEF Inv, Threads

(* A request that goes on, or ends, and has no run afterwards.              *)
ReqRow == [at : {"idle", "patching", "arming", "running", "done"},
           job : Jobs \cup {None}, patch : Patches \cup {None},
           seen : Seen \cup {None}]

LEMMA RequestMoves ==
  ASSUME Inv, NEW r \in Requests, NEW at \in {"arming", "done"},
         req[r].at # "idle", req' = [req EXCEPT ![r].at = at],
         \A x \in Requests : run'[x] # None => x # r /\ run'[x] = run[x]
  PROVE  /\ req' \in [Requests -> ReqRow] /\ RequestThreads'
         /\ \A x \in Requests : req'[x].job = req[x].job
  <1>1. req \in [Requests -> ReqRow]
    BY DEF Inv, TypeOK, ReqRow
  <1>2. \A x \in Requests : x # r => req'[x] = req[x]
    BY <1>1
  <1>3. /\ req'[r].at = at /\ req'[r].job = req[r].job
        /\ req'[r] \in ReqRow
    BY <1>1 DEF ReqRow
  <1>4. req' \in [Requests -> ReqRow]
    <2>1. req' = [x \in Requests |-> req'[x]]
      BY <1>1
    <2> QED
      BY <1>1, <1>2, <1>3, <2>1
  <1>5. RequestThreads'
    BY <1>2, <1>3 DEF Inv, Threads, RequestThreads
  <1> QED
    BY <1>2, <1>3, <1>4, <1>5

LEMMA ArmAfterKeeps ==
  ASSUME Inv, NEW r \in Requests, ArmAfter(r)
  PROVE  Inv'
  <1> DEFINE c == FreeChain
  <1>1. c \in Chains /\ chain[c].at = "idle"
    BY FreeChainIsFree DEF Inv, ArmAfter
  <1>2. /\ Arm(chain, c) /\ req[r].at = "arming"
        /\ req' = [req EXCEPT ![r].at = "done"]
        /\ UNCHANGED <<now, up, table, born, boot, run, queued, revived, faults>>
    BY <1>1 DEF ArmAfter
  <1> HIDE DEF c
  <1>3. \A x \in Chains : run'[x] # None => x # c /\ run'[x] = run[x]
    BY <1>1, <1>2 DEF Inv, Threads, ChainThreads
  <1>4. /\ chain' \in [Chains -> ChainRow] /\ timer' = None /\ byHand' = {}
        /\ \A x \in Chains : x # c /\ chain'[x].at # "idle" => chain[x].at # "idle"
        /\ ChainThreads' /\ Fewer /\ TimerKept'
    BY <1>1, <1>2, <1>3, ArmKeeps
  <1>5. /\ req' \in [Requests -> ReqRow] /\ RequestThreads'
        /\ \A x \in Requests : req'[x].job = req[x].job
    <2>1. run[r] = None
      BY <1>2 DEF Inv, Threads, RequestThreads
    <2> QED
      BY <1>2, <2>1, RequestMoves
  <1>6. Room'
    BY <1>1, <1>2, <1>4, RoomGrows DEF Inv
  <1>7. TypeOK'
    BY <1>2, <1>4, <1>5 DEF Inv, TypeOK, ChainRow, ReqRow
  <1>8. Calm
    BY <1>2, <1>5 DEF Calm, Alone
  <1> QED
    BY <1>4, <1>5, <1>6, <1>7, <1>8, LeasesStay DEF Inv, Threads

LEMMA DieKeeps ==
  ASSUME Inv, Die, faults' \in 0..MaxFaults
  PROVE  Inv'
  <1>1. TypeOK'
    <2>1. \A r \in Requests : req'[r] \in ReqRow
      <3> SUFFICES ASSUME NEW r \in Requests PROVE req'[r] \in ReqRow
        OBVIOUS
      <3>1. req[r] \in ReqRow
        BY DEF Inv, TypeOK, ReqRow
      <3>2. [req[r] EXCEPT !.at = "done"] \in ReqRow
        BY <3>1 DEF ReqRow
      <3> QED
        BY <3>1, <3>2 DEF Die
    <2>2. req' \in [Requests -> ReqRow]
      BY <2>1 DEF Die
    <2>3. chain' \in [Chains -> ChainRow]
      BY IdleType DEF Die
    <2> QED
      BY <2>2, <2>3 DEF Inv, Die, TypeOK, ReqRow, ChainRow
  <1>2. \A r \in Requests : /\ req'[r].job = req[r].job
                            /\ req'[r].at \in {"idle", "done"}
                            /\ req'[r].at = "idle" <=> req[r].at = "idle"
    <2> SUFFICES ASSUME NEW r \in Requests
                 PROVE  /\ req'[r].job = req[r].job
                        /\ req'[r].at \in {"idle", "done"}
                        /\ req'[r].at = "idle" <=> req[r].at = "idle"
      OBVIOUS
    <2>1. req[r] \in ReqRow
      BY DEF Inv, TypeOK, ReqRow
    <2>2. /\ [req[r] EXCEPT !.at = "done"].job = req[r].job
          /\ [req[r] EXCEPT !.at = "done"].at = "done"
      BY <2>1 DEF ReqRow
    <2> QED
      BY <2>2 DEF Die
  <1>3. Threads'
    BY <1>2 DEF Inv, Die, Threads, ChainThreads, RequestThreads, Idle, Actors
  <1>4. Room'
    <2>1. Busy' = {}
      BY DEF Die, Busy, Idle
    <2> QED
      BY <2>1, FinitePrimed, FS_EmptySet DEF Room
  <1>5. Leases' /\ OneHolder' /\ TimerKept'
    BY DEF Die, Leases, OneHolder, TimerKept, Holds, Idle
  <1> QED
    BY <1>1, <1>3, <1>4, <1>5 DEF Inv

LEMMA FaultCounts ==
  ASSUME Inv, NEW f, Fault(f)
  PROVE  faults' \in 0..MaxFaults
  BY CronAssumption DEF Inv, TypeOK, Fault

(* A chain that moves on and holds no job before or afterwards.            *)
LEMMA ChainMoves ==
  ASSUME Inv, NEW c \in Chains, NEW new \in ChainRow,
         chain' = [chain EXCEPT ![c] = new],
         chain[c].at \notin {"idle", "running"}, new.at # "running",
         new.at \in {"told", "set"} => new.due # None,
         UNCHANGED <<up, table, run, req, revived>>
  PROVE  /\ chain' \in [Chains -> ChainRow] /\ chain'[c] = new
         /\ \A x \in Chains : x # c => chain'[x] = chain[x]
         /\ Threads' /\ Room' /\ Leases' /\ OneHolder'
  <1>1. /\ chain'[c] = new /\ chain' \in [Chains -> ChainRow]
        /\ \A x \in Chains : x # c => chain'[x] = chain[x]
    BY DEF Inv, TypeOK, ChainRow
  <1>2. Threads'
    BY <1>1 DEF Inv, Threads, ChainThreads, RequestThreads
  <1>3. Room'
    BY <1>1, RoomStays DEF Inv
  <1>4. Fewer /\ Calm
    BY <1>1 DEF Fewer, Calm, Alone
  <1> QED
    BY <1>1, <1>2, <1>3, <1>4, LeasesStay DEF Inv

LEMMA FindKeeps ==
  ASSUME Inv, NEW c \in Chains, Find(c)
  PROVE  Inv'
  <1> DEFINE times == {table[j].next : j \in {i \in Jobs : Awaits(i)}}
             told == IF times = {} THEN Idle
                     ELSE [Idle EXCEPT !.at = "told", !.due = Min(times)]
  <1>1. times \subseteq Nat
    BY DEF Inv, TypeOK, Awaits, Row, MaybeTime
  <1>2. ASSUME times # {}
        PROVE  /\ Min(times) \in Nat
               /\ \A j \in Jobs : Awaits(j) => Min(times) <= table[j].next
    <2>1. Min(times) \in times /\ \A y \in times : Min(times) <= y
      BY <1>1, <1>2, MinOfNats
    <2> QED
      BY <1>1, <2>1
  <1>3. /\ told \in ChainRow
        /\ times = {} => told.at = "idle"
        /\ times # {} => told.at = "told" /\ told.due = Min(times)
    <2>1. CASE times = {}
      <3>1. told = Idle
        BY <2>1
      <3> QED
        BY <2>1, <3>1, IdleType DEF Idle
    <2>2. CASE times # {}
      <3>1. told = [at |-> "told", due |-> Min(times), batch |-> <<>>]
        BY <2>2 DEF Idle
      <3>2. <<>> \in Seq(Jobs) /\ Min(times) \in MaybeTime
        BY <1>2, <2>2 DEF MaybeTime
      <3> QED
        BY <2>2, <3>1, <3>2 DEF ChainRow
    <2> QED
      BY <2>1, <2>2
  <1>4. /\ chain[c].at = "asking" /\ chain' = [chain EXCEPT ![c] = told]
        /\ UNCHANGED <<now, up, table, born, boot, timer, run, req, queued,
                       byHand, revived, faults>>
    BY DEF Find
  <1> HIDE DEF times, told
  <1>5. /\ chain' \in [Chains -> ChainRow] /\ chain'[c] = told
        /\ Threads' /\ Room' /\ Leases' /\ OneHolder'
    <2>1. told.at \in {"idle", "told"} /\ (told.at = "told" => told.due # None)
      BY <1>2, <1>3, CronAssumption
    <2> QED
      BY <1>3, <1>4, <2>1, ChainMoves
  <1>6. TypeOK'
    BY <1>4, <1>5 DEF Inv, TypeOK, ChainRow
  <1>7. TimerKept'
    <2> SUFFICES ASSUME NEW j \in Jobs, Awaits(j)
                 PROVE  Watched(j)'
      BY <1>4 DEF TimerKept, Awaits
    <2>1. times # {} /\ Min(times) \in Nat /\ Min(times) <= table[j].next
      BY <1>2 DEF times
    <2>2. table[j].next \in Nat /\ now \in Nat
      BY CronAssumption DEF Inv, Awaits, TypeOK, Row, MaybeTime
    <2>3. Min(times) <= Max({table[j].next, now})
      BY <2>1, <2>2, MaxOfTwo
    <2>4. chain'[c].at = "told" /\ chain'[c].due <= Max({table'[j].next, now'})
      BY <1>3, <1>4, <1>5, <2>1, <2>3
    <2> QED
      BY <2>4 DEF Watched
  <1> QED
    BY <1>5, <1>6, <1>7 DEF Inv

LEMMA SetTimerKeeps ==
  ASSUME Inv, NEW c \in Chains, SetTimer(c)
  PROVE  Inv'
  <1> DEFINE wait == Max({chain[c].due - now, 0})
             due == now + Min({wait, MaxDelay})
             new == [chain[c] EXCEPT !.at = "set", !.due = due]
  <1>1. now \in Nat /\ chain[c].due \in Nat /\ MaxDelay \in Nat
        /\ chain[c].at = "told" /\ chain[c] \in ChainRow
    BY CronAssumption
       DEF Inv, SetTimer, TypeOK, ChainRow, Threads, ChainThreads, MaybeTime
  <1>2. due \in Nat /\ \A t \in Nat : t >= now /\ t >= chain[c].due => due <= t
    <2>1. wait = IF chain[c].due - now >= 0 THEN chain[c].due - now ELSE 0
      BY <1>1, MaxOfTwo
    <2>2. wait \in Nat /\ wait <= (IF chain[c].due >= now THEN chain[c].due - now ELSE 0)
      BY <1>1, <2>1
    <2> HIDE DEF wait
    <2>3. Min({wait, MaxDelay}) = IF wait <= MaxDelay THEN wait ELSE MaxDelay
      BY <1>1, <2>2, MinOfTwo
    <2> QED
      BY <1>1, <2>2, <2>3
  <1>3. /\ chain' = [chain EXCEPT ![c] = new] /\ timer' = c
        /\ UNCHANGED <<now, up, table, born, boot, run, req, queued, byHand,
                       revived, faults>>
    BY DEF SetTimer
  <1> HIDE DEF wait, due
  <1>4. new \in ChainRow /\ new.at = "set" /\ new.due = due
    BY <1>1, <1>2 DEF ChainRow, MaybeTime
  <1> HIDE DEF new
  <1>5. /\ chain' \in [Chains -> ChainRow] /\ chain'[c] = new
        /\ \A x \in Chains : x # c => chain'[x] = chain[x]
        /\ Threads' /\ Room' /\ Leases' /\ OneHolder'
    <2>1. new.due # None
      BY <1>2, <1>4, CronAssumption
    <2> QED
      BY <1>1, <1>3, <1>4, <2>1, ChainMoves
  <1>6. TypeOK'
    BY <1>3, <1>5 DEF Inv, TypeOK, ChainRow
  <1>7. TimerKept'
    <2> SUFFICES ASSUME NEW j \in Jobs, Awaits(j), Watched(j)
                 PROVE  Watched(j)'
      BY <1>3 DEF Inv, TimerKept, Awaits
    <2>1. table[j].next \in Nat
      BY CronAssumption DEF Inv, Awaits, TypeOK, Row, MaybeTime
    <2>2. Max({table[j].next, now}) \in Nat /\ Max({table[j].next, now}) >= now
      <3>1. Max({table[j].next, now})
              = IF table[j].next >= now THEN table[j].next ELSE now
        BY <1>1, <2>1, MaxOfTwo
      <3> QED
        BY <1>1, <2>1, <3>1
    <2>3. CASE chain[c].due <= Max({table[j].next, now})
      <3>1. chain'[c].at = "set" /\ chain'[c].due <= Max({table'[j].next, now'})
        BY <1>2, <1>3, <1>4, <1>5, <2>2, <2>3
      <3> QED
        BY <3>1 DEF Watched
    <2>4. CASE ~(chain[c].due <= Max({table[j].next, now}))
      <3>1. \/ \E x \in Chains : /\ x # c
                                 /\ \/ chain[x].at \in {"asking", "claiming", "running"}
                                    \/ /\ chain[x].at \in {"told", "set"}
                                       /\ chain[x].due <= Max({table[j].next, now})
            \/ \E r \in Requests : req[r].at = "arming"
        BY <1>1, <2>4 DEF Watched
      <3> QED
        BY <1>3, <1>5, <3>1 DEF Watched
    <2> QED
      BY <2>3, <2>4
  <1> QED
    BY <1>5, <1>6, <1>7 DEF Inv

LEMMA FireKeeps ==
  ASSUME Inv, NEW c \in Chains, Fire(c)
  PROVE  Inv'
  <1> DEFINE new == [chain[c] EXCEPT !.at = "claiming"]
  <1>1. /\ chain' = [chain EXCEPT ![c] = new] /\ chain[c].at = "set"
        /\ UNCHANGED <<now, up, table, born, boot, timer, run, req, queued,
                       byHand, revived, faults>>
    BY DEF Fire
  <1>2. new \in ChainRow /\ new.at = "claiming"
    <2>1. chain[c] \in ChainRow
      BY DEF Inv, TypeOK, ChainRow
    <2> QED
      BY <2>1 DEF ChainRow
  <1> HIDE DEF new
  <1>3. /\ chain' \in [Chains -> ChainRow] /\ chain'[c] = new
        /\ Threads' /\ Room' /\ Leases' /\ OneHolder'
    BY <1>1, <1>2, ChainMoves
  <1>4. TypeOK'
    BY <1>1, <1>3 DEF Inv, TypeOK, ChainRow
  <1>5. TimerKept'
    BY <1>2, <1>3, TimerLooked
  <1> QED
    BY <1>3, <1>4, <1>5 DEF Inv

(* What a claim takes: some jobs, and due ones.                            *)
LEMMA OldestAreDue ==
  ASSUME Due # {}, NEW S \in Oldest, NEW batch \in SetToSeqs(S)
  PROVE  batch \in Seq(Jobs) /\ batch # <<>> /\ ToSet(batch) \subseteq Due
  <1> DEFINE n == Cardinality(S)
  <1>1. /\ S \subseteq Due /\ Due \subseteq Jobs
        /\ n = Min({BatchLimit, Cardinality(Due)})
    BY DEF Oldest, Due
  <1>2. Cardinality(Due) \in Nat /\ Cardinality(Due) # 0
    <2>1. IsFiniteSet(Due)
      BY <1>1, CronAssumption, FS_Subset
    <2> QED
      BY <2>1, FS_CardinalityType, FS_EmptySet
  <1>3. n \in Nat /\ n >= 1
    <2>1. n = IF BatchLimit <= Cardinality(Due) THEN BatchLimit ELSE Cardinality(Due)
      BY <1>1, <1>2, CronAssumption, MinOfTwo
    <2> HIDE DEF n
    <2> QED
      BY <1>2, <2>1, CronAssumption
  <1>4. batch \in [1..n -> S]
    BY DEF SetToSeqs
  <1> HIDE DEF n
  <1>5. batch \in Seq(Jobs)
    <2>1. batch \in [1..n -> Jobs]
      BY <1>1, <1>4
    <2> QED
      BY <1>3, <2>1
  <1>6. Len(batch) = n
    BY <1>3, <1>4, <1>5
  <1>7. ToSet(batch) \subseteq Due
    BY <1>1, <1>4 DEF ToSet
  <1> QED
    BY <1>3, <1>5, <1>6, <1>7

LEMMA ClaimTakes ==
  ASSUME Inv, NEW c \in Chains, chain[c].at = "claiming",
         NEW batch \in Seq(Jobs), batch # <<>>, ToSet(batch) \subseteq Due,
         table' = Leased(batch),
         chain' = [chain EXCEPT ![c] =
                     [at |-> "running", due |-> now + Lease, batch |-> batch]],
         run' = [run EXCEPT ![c] = Execution(Head(batch))],
         UNCHANGED <<now, up, born, boot, timer, req, queued, byHand, revived, faults>>
  PROVE  Inv'
  <1> DEFINE new == [at |-> "running", due |-> now + Lease, batch |-> batch]
  <1>1. now \in Nat /\ Lease \in Nat /\ Head(batch) \in Jobs
    BY CronAssumption DEF Inv, TypeOK
  <1>2. new \in ChainRow
    BY <1>1 DEF ChainRow, MaybeTime
  <1>3. /\ chain' \in [Chains -> ChainRow] /\ chain'[c] = new
        /\ \A x \in Chains : x # c => chain'[x] = chain[x]
    BY <1>2 DEF Inv, TypeOK, ChainRow
  <1>4. new.at = "running" /\ new.due = now + Lease /\ new.batch = batch
    OBVIOUS
  <1>5. \A j \in Jobs :
          IF j \in ToSet(batch)
          THEN /\ HasNext(j) /\ table[j] \in Row /\ table[j].next \in Nat /\ table[j].next <= now
               /\ table'[j] \in Row /\ table'[j].next = now + Lease
          ELSE table'[j] = table[j]
    <2> SUFFICES ASSUME NEW j \in Jobs
                 PROVE  IF j \in ToSet(batch)
          THEN /\ HasNext(j) /\ table[j] \in Row /\ table[j].next \in Nat /\ table[j].next <= now
               /\ table'[j] \in Row /\ table'[j].next = now + Lease
          ELSE table'[j] = table[j]
      OBVIOUS
    <2>1. CASE j \in ToSet(batch)
      <3>1. /\ table[j] # None /\ table[j].next # None /\ table[j].next <= now
            /\ table'[j] = [table[j] EXCEPT !.next = now + Lease]
        BY <2>1 DEF Due, IsDue, Awaits, Leased
      <3>2. table[j] \in Row /\ now + Lease \in MaybeTime
        BY <1>1, <3>1 DEF Inv, TypeOK, MaybeTime
      <3> QED
        BY <2>1, <3>1, <3>2 DEF HasNext, Row, MaybeTime
    <2>2. CASE j \notin ToSet(batch)
      BY <2>2 DEF Leased
    <2> QED
      BY <2>1, <2>2
  <1> HIDE DEF new
  <1>6. TypeOK'
    <2>1. table' \in [Jobs -> Row \cup {None}]
      <3>1. \A j \in Jobs : table'[j] \in Row \cup {None}
        BY <1>5 DEF Inv, TypeOK
      <3>2. table' = [j \in Jobs |-> table'[j]]
        BY DEF Leased
      <3> QED
        BY <3>1, <3>2
    <2>2. Execution(Head(batch)) \in
            [at : {"enqueue", "settle", "fail"}, job : Jobs, row : Seen \cup {Raw}]
      BY <1>1 DEF Execution
    <2>3. run' \in [Actors -> {None} \cup
            [at : {"enqueue", "settle", "fail"}, job : Jobs, row : Seen \cup {Raw}]]
      BY <2>2 DEF Inv, TypeOK
    <2> QED
      BY <1>3, <2>1, <2>3 DEF Inv, TypeOK, ChainRow
  <1>7. Threads'
    <2>1. /\ run'[c] = Execution(Head(batch))
          /\ \A a \in Actors : a # c => run'[a] = run[a]
      BY DEF Inv, TypeOK, Actors
    <2>2. ChainThreads'
      <3>1. now + Lease # None
        BY <1>1, CronAssumption
      <3> QED
        BY <1>3, <1>4, <2>1, <3>1
           DEF Inv, Threads, ChainThreads, Execution, Actors
    <2>3. RequestThreads'
      <3>1. \A r \in Requests : run'[r] = run[r]
        BY <2>1, CronAssumption DEF Actors
      <3> QED
        BY <3>1 DEF Inv, Threads, RequestThreads
    <2> QED
      BY <2>2, <2>3 DEF Threads
  <1>8. Room'
    BY <1>3, RoomStays DEF Inv
  <1>9. Leases'
    <2> SUFFICES ASSUME NEW d \in Chains, NEW j \in Jobs,
                        Holds(d, j)', Alone(j)', HasNext(j)'
                 PROVE  chain'[d].due <= table'[j].next
      BY DEF Leases
    <2>1. CASE d = c
      <3>1. j \in ToSet(batch)
        BY <1>3, <1>4, <2>1 DEF Holds
      <3> QED
        BY <1>1, <1>3, <1>4, <1>5, <2>1, <3>1
    <2>2. CASE d # c
      <3>1. Holds(d, j) /\ Alone(j) /\ chain'[d] = chain[d]
        BY <1>3, <2>2 DEF Holds, Alone
      <3>2. HasNext(j)
        BY <1>5 DEF HasNext
      <3>3. chain[d].due <= table[j].next
        BY <3>1, <3>2 DEF Inv, Leases
      <3>4. chain[d].due \in Nat
        BY <3>1 DEF Inv, TypeOK, Threads, ChainThreads, Holds, MaybeTime
      <3> QED
        BY <1>1, <1>5, <3>1, <3>3, <3>4
    <2> QED
      BY <2>1, <2>2
  <1>10. OneHolder'
    <2>1. ASSUME NEW d \in Chains, NEW j \in Jobs, d # c,
                 Holds(c, j)', Holds(d, j)', Alone(j)'
          PROVE  chain'[d].due + Lease <= chain'[c].due
      <3>1. j \in ToSet(batch)
        BY <1>3, <1>4, <2>1 DEF Holds
      <3>2. Holds(d, j) /\ Alone(j) /\ chain'[d] = chain[d]
        BY <1>3, <2>1 DEF Holds, Alone
      <3>3. HasNext(j) /\ table[j].next \in Nat /\ table[j].next <= now
        BY <1>5, <3>1
      <3>4. chain[d].due <= table[j].next
        BY <3>2, <3>3 DEF Inv, Leases
      <3>5. chain[d].due \in Nat
        BY <3>2 DEF Inv, TypeOK, Threads, ChainThreads, Holds, MaybeTime
      <3> QED
        BY <1>1, <1>3, <1>4, <3>2, <3>3, <3>4, <3>5
    <2>2. ASSUME NEW d \in Chains, NEW e \in Chains, NEW j \in Jobs,
                 d # c, e # c, d # e, Holds(d, j)', Holds(e, j)', Alone(j)'
          PROVE  \/ chain'[d].due + Lease <= chain'[e].due
                 \/ chain'[e].due + Lease <= chain'[d].due
      <3>1. /\ Holds(d, j) /\ Holds(e, j) /\ Alone(j)
            /\ chain'[d] = chain[d] /\ chain'[e] = chain[e]
        BY <1>3, <2>2 DEF Holds, Alone
      <3> QED
        BY <2>2, <3>1 DEF Inv, OneHolder, Alone
    <2> SUFFICES ASSUME NEW d \in Chains, NEW e \in Chains, NEW j \in Jobs,
                        d # e, Holds(d, j)', Holds(e, j)', Alone(j)'
                 PROVE  \/ chain'[d].due + Lease <= chain'[e].due
                        \/ chain'[e].due + Lease <= chain'[d].due
      BY DEF OneHolder, Alone
    <2> QED
      BY <2>1, <2>2
  <1>11. TimerKept'
    BY <1>3, <1>4, TimerLooked
  <1> QED
    BY <1>6, <1>7, <1>8, <1>9, <1>10, <1>11 DEF Inv

(* The end of a call of onTimer: its chain arms the timer again.           *)
LEMMA ChainArms ==
  ASSUME Inv, NEW c \in Chains, chain[c].at # "idle", Arm(chain, c),
         \/ run' = run /\ run[c] = None
         \/ run' = [run EXCEPT ![c] = None],
         table' \in [Jobs -> Row \cup {None}], Calm, faults' \in 0..MaxFaults,
         UNCHANGED <<now, up, born, boot, req, queued, revived>>
  PROVE  Inv'
  <1>1. /\ run' \in [Actors -> {None} \cup
              [at : {"enqueue", "settle", "fail"}, job : Jobs, row : Seen \cup {Raw}]]
        /\ run'[c] = None
        /\ \A a \in Actors : a # c => run'[a] = run[a]
    BY DEF Inv, TypeOK, Actors
  <1>2. /\ chain' \in [Chains -> ChainRow] /\ timer' = None /\ byHand' = {}
        /\ \A x \in Chains : x # c /\ chain'[x].at # "idle" => chain[x].at # "idle"
        /\ ChainThreads' /\ Fewer /\ TimerKept'
    BY <1>1, ArmKeeps DEF Actors
  <1>3. TypeOK'
    BY <1>1, <1>2 DEF Inv, TypeOK, ChainRow
  <1>4. RequestThreads'
    <2>1. \A r \in Requests : run'[r] = run[r]
      BY <1>1, CronAssumption DEF Actors
    <2> QED
      BY <2>1 DEF Inv, Threads, RequestThreads
  <1>5. Room'
    BY <1>2, RoomStays DEF Inv
  <1> QED
    BY <1>2, <1>3, <1>4, <1>5, LeasesStay DEF Inv, Threads

LEMMA ClaimKeeps ==
  ASSUME Inv, NEW c \in Chains, Claim(c)
  PROVE  Inv'
  <1>1. /\ chain[c].at = "claiming"
        /\ UNCHANGED <<now, up, born, boot, req, queued, revived, faults>>
    BY DEF Claim
  <1>2. CASE Due = {} /\ Arm(chain, c) /\ UNCHANGED <<table, run>>
    <2>1. run[c] = None
      BY <1>1 DEF Inv, Threads, ChainThreads
    <2>2. Calm /\ table' \in [Jobs -> Row \cup {None}] /\ faults' \in 0..MaxFaults
      BY <1>1, <1>2 DEF Inv, TypeOK, Calm, Alone
    <2> QED
      BY <1>1, <1>2, <2>1, <2>2, ChainArms
  <1>3. ASSUME Due # {}, NEW S \in Oldest, NEW batch \in SetToSeqs(S),
               table' = Leased(batch),
               chain' = [chain EXCEPT ![c] =
                    [at |-> "running", due |-> now + Lease, batch |-> batch]],
               run' = [run EXCEPT ![c] = Execution(Head(batch))],
               UNCHANGED <<timer, byHand>>
        PROVE  Inv'
    <2>1. batch \in Seq(Jobs) /\ batch # <<>> /\ ToSet(batch) \subseteq Due
      BY <1>3, OldestAreDue
    <2> QED
      BY <1>1, <1>3, <2>1, ClaimTakes
  <1> QED
    BY <1>2, <1>3 DEF Claim

LEMMA ClaimFailsKeeps ==
  ASSUME Inv, NEW c \in Chains, ClaimFails(c)
  PROVE  Inv'
  <1>1. /\ chain[c].at = "claiming" /\ Arm(chain, c)
        /\ UNCHANGED <<now, up, table, born, boot, run, req, queued, revived>>
    BY DEF ClaimFails
  <1>2. run[c] = None
    BY <1>1 DEF Inv, Threads, ChainThreads
  <1>3. Calm /\ table' \in [Jobs -> Row \cup {None}]
    BY <1>1 DEF Inv, TypeOK, Calm, Alone
  <1>4. faults' \in 0..MaxFaults
    BY FaultCounts DEF ClaimFails
  <1> QED
    BY <1>1, <1>2, <1>3, <1>4, ChainArms

(* executeJob.  A run that goes on to its next step.                       *)
RunRow == [at : {"enqueue", "settle", "fail"}, job : Jobs, row : Seen \cup {Raw}]

LEMMA RunMoves ==
  ASSUME Inv, NEW a \in Actors, run[a] # None, NEW at \in {"settle", "fail"},
         run' = [run EXCEPT ![a].at = at],
         queued' \in [Jobs -> Nat], faults' \in 0..MaxFaults,
         UNCHANGED <<now, up, table, born, boot, timer, chain, req, byHand, revived>>
  PROVE  Inv'
  <1>1. /\ run'[a] = [run[a] EXCEPT !.at = at]
        /\ \A x \in Actors : x # a => run'[x] = run[x]
    BY DEF Inv, TypeOK
  <1>2. run[a] \in RunRow
    BY DEF Inv, TypeOK, RunRow
  <1>3. run'[a] \in RunRow /\ run'[a].job = run[a].job /\ run'[a].row = run[a].row
    BY <1>1, <1>2 DEF RunRow
  <1>4. run' \in [Actors -> {None} \cup RunRow]
    <2>1. run' = [x \in Actors |-> run'[x]]
      BY DEF Inv, TypeOK
    <2>2. \A x \in Actors : run'[x] \in {None} \cup RunRow
      BY <1>1, <1>3 DEF Inv, TypeOK, RunRow
    <2> QED
      BY <2>1, <2>2
  <1>5. TypeOK'
    BY <1>4 DEF Inv, TypeOK, RunRow
  <1>6. \A x \in Actors : run'[x] # None =>
            run[x] # None /\ run'[x].job = run[x].job /\ run'[x].row = run[x].row
    BY <1>1, <1>3
  <1>7. Threads'
    BY <1>6 DEF Inv, Threads, ChainThreads, RequestThreads, Actors
  <1>8. Room'
    BY RoomStays DEF Inv
  <1>9. Fewer /\ Calm
    BY DEF Fewer, Calm, Alone
  <1>10. TimerKept'
    BY DEF Inv, TimerKept, Awaits, Watched
  <1> QED
    BY <1>5, <1>7, <1>8, <1>9, <1>10, LeasesStay DEF Inv

LEMMA EnqueueKeeps ==
  ASSUME Inv, NEW a \in Actors, Enqueue(a)
  PROVE  Inv'
  <1>1. /\ run[a] # None /\ faults' \in 0..MaxFaults
        /\ UNCHANGED <<now, up, table, born, boot, timer, chain, req, byHand, revived>>
    BY DEF Inv, TypeOK, Enqueue
  <1>2. CASE run[a].row.session
    <2>1. /\ run' = [run EXCEPT ![a].at = "settle"]
          /\ queued' = [queued EXCEPT ![run[a].job] = @ + 1]
      BY <1>2 DEF Enqueue
    <2>2. queued' \in [Jobs -> Nat]
      <3>1. run[a].job \in Jobs
        BY <1>1 DEF Inv, TypeOK
      <3> QED
        BY <2>1, <3>1 DEF Inv, TypeOK
    <2> QED
      BY <1>1, <2>1, <2>2, RunMoves
  <1>3. CASE ~run[a].row.session
    <2>1. run' = [run EXCEPT ![a].at = "fail"] /\ queued' \in [Jobs -> Nat]
      BY <1>3 DEF Inv, TypeOK, Enqueue
    <2> QED
      BY <1>1, <2>1, RunMoves
  <1> QED
    BY <1>2, <1>3

LEMMA TryFailsKeeps ==
  ASSUME Inv, NEW a \in Actors, TryFails(a)
  PROVE  Inv'
  <1>1. /\ run[a] # None /\ run' = [run EXCEPT ![a].at = "fail"]
        /\ UNCHANGED <<now, up, table, born, boot, timer, chain, req, byHand, revived>>
    BY DEF TryFails
  <1>2. queued' \in [Jobs -> Nat] /\ faults' \in 0..MaxFaults
    BY FaultCounts DEF Inv, TypeOK, TryFails
  <1> QED
    BY <1>1, <1>2, RunMoves

(* The run of a triggerJob that is over, whatever it wrote.                *)
LEMMA TriggerEnds ==
  ASSUME Inv, NEW a \in Requests, run[a] # None,
         req' = [req EXCEPT ![a].at = "done"], run' = [run EXCEPT ![a] = None],
         table' \in [Jobs -> Row \cup {None}], byHand' \subseteq Jobs,
         faults' \in 0..MaxFaults,
         \A j \in Jobs : j # run[a].job => table'[j] = table[j],
         \A j \in Jobs : j \notin byHand' => j \notin byHand /\ table'[j] = table[j],
         UNCHANGED <<now, up, born, boot, timer, chain, queued, revived>>
  PROVE  Inv'
  <1>1. /\ a \in Actors /\ run'[a] = None
        /\ \A x \in Actors : x # a => run'[x] = run[x]
    BY DEF Inv, TypeOK, Actors
  <1>2. req[a].at = "running" /\ run[a].job = req[a].job
    BY DEF Inv, Threads, RequestThreads
  <1>3. /\ req' \in [Requests -> ReqRow] /\ RequestThreads'
        /\ \A x \in Requests : req'[x].job = req[x].job
    <2>1. \A x \in Requests : run'[x] # None => x # a /\ run'[x] = run[x]
      BY <1>1 DEF Actors
    <2> QED
      BY <1>2, <2>1, RequestMoves
  <1>4. run' \in [Actors -> {None} \cup RunRow]
    BY DEF Inv, TypeOK, RunRow
  <1>5. TypeOK'
    BY <1>3, <1>4 DEF Inv, TypeOK, ReqRow, RunRow
  <1>6. ChainThreads'
    <2>1. \A c \in Chains : run'[c] = run[c]
      BY <1>1, CronAssumption DEF Actors
    <2> QED
      BY <2>1 DEF Inv, Threads, ChainThreads
  <1>7. Room'
    <2>1. \A x \in Requests : req[x].at = "done" => req'[x].at = "done"
      BY DEF Inv, TypeOK
    <2> QED
      BY <2>1, RoomStays DEF Inv
  <1>8. Fewer /\ Calm
    <2>1. \A j \in Jobs : Alone(j)' => Alone(j) /\ j # run[a].job
      BY <1>2, <1>3 DEF Alone
    <2> QED
      BY <2>1 DEF Fewer, Calm
  <1>9. TimerKept'
    <2>1. now' \in Nat /\ now <= now'
      BY CronAssumption DEF Inv, TypeOK
    <2>2. \A j \in Jobs : Awaits(j)' /\ j \notin byHand' =>
           Awaits(j) /\ j \notin byHand /\ table'[j].next = table[j].next
      BY DEF Awaits
    <2>3. \A x \in Requests : req[x].at = "arming" => req'[x].at = "arming"
      BY <1>2 DEF Inv, TypeOK
    <2> QED
      BY <2>1, <2>2, <2>3, TimerStays DEF Inv
  <1> QED
    BY <1>3, <1>5, <1>6, <1>7, <1>8, <1>9, LeasesStay DEF Inv, Threads

(* A run that is over: the next one of the batch, the end of the batch, or *)
(* the end of a request.                                                   *)
LEMMA ReturnKeeps ==
  ASSUME Inv, NEW a \in Actors, run[a] # None, Returns(a),
         table' \in [Jobs -> Row \cup {None}],
         \A j \in Jobs : j # run[a].job => table'[j] = table[j],
         a \in Chains => \/ table' = table \/ table'[run[a].job] = None
                        \/ table'[run[a].job].next = None,
         UNCHANGED <<now, up, born, boot, queued, revived, faults>>
  PROVE  Inv'
  <1>1. run[a] \in RunRow
    BY DEF Inv, TypeOK, RunRow
  <1>2. CASE a \in Chains
    <2>1. Calm
      <3>1. req' = req
        BY <1>2 DEF Returns
      <3> QED
        BY <1>2, <3>1 DEF Calm, Alone, HasNext
    <2>2. /\ chain[a].at = "running" /\ chain[a].batch \in Seq(Jobs)
          /\ chain[a].batch # <<>>
      BY <1>2 DEF Inv, TypeOK, Threads, ChainThreads
    <2>3. CASE Tail(chain[a].batch) = <<>>
      <3>1. Arm(chain, a) /\ run' = [run EXCEPT ![a] = None] /\ req' = req
        BY <1>2, <2>3 DEF Returns
      <3>2. faults' \in 0..MaxFaults
        BY DEF Inv, TypeOK
      <3> QED
        BY <1>2, <2>1, <2>2, <3>1, <3>2, ChainArms
    <2>4. CASE Tail(chain[a].batch) # <<>>
      <3> DEFINE rest == Tail(chain[a].batch)
      <3>1. /\ chain' = [chain EXCEPT ![a].batch = rest]
            /\ run' = [run EXCEPT ![a] = Execution(Head(rest))]
            /\ UNCHANGED <<timer, byHand, req>>
        BY <1>2, <2>4 DEF Returns
      <3>2. rest \in Seq(Jobs) /\ rest # <<>> /\ Head(rest) \in Jobs
        BY <2>2, <2>4
      <3>3. /\ chain'[a] = [chain[a] EXCEPT !.batch = rest]
            /\ \A x \in Chains : x # a => chain'[x] = chain[x]
        BY <1>2, <3>1 DEF Inv, TypeOK
      <3>4. Fewer
        BY <1>2, <2>2, <3>3 DEF Fewer
      <3> HIDE DEF rest
      <3>5. /\ chain'[a] \in ChainRow /\ chain'[a].at = "running"
            /\ chain'[a].due = chain[a].due /\ chain'[a].batch = rest
        <4>1. chain[a] \in ChainRow
          BY <1>2 DEF Inv, TypeOK, ChainRow
        <4> QED
          BY <2>2, <3>2, <3>3, <4>1 DEF ChainRow
      <3>6. chain' \in [Chains -> ChainRow]
        <4>1. chain' = [x \in Chains |-> chain'[x]]
          BY <3>1 DEF Inv, TypeOK
        <4>2. \A x \in Chains : chain'[x] \in ChainRow
          BY <3>3, <3>5 DEF Inv, TypeOK, ChainRow
        <4> QED
          BY <4>1, <4>2
      <3>7. /\ run'[a] = Execution(Head(rest))
            /\ \A x \in Actors : x # a => run'[x] = run[x]
        BY <3>1 DEF Inv, TypeOK
      <3>8. Execution(Head(rest)) \in RunRow
        BY <3>2 DEF Execution, RunRow
      <3>9. run' \in [Actors -> {None} \cup RunRow]
        BY <3>1, <3>8 DEF Inv, TypeOK, RunRow
      <3>10. TypeOK'
        BY <3>1, <3>6, <3>9 DEF Inv, TypeOK, ChainRow, RunRow
      <3>11. ChainThreads'
        <4>1. chain[a].due # None
          BY <1>2, <2>2 DEF Inv, Threads, ChainThreads
        <4>2. /\ run'[a].row = Raw /\ run'[a].job = Head(rest)
          BY <3>7 DEF Execution
        <4>3. \A x \in Chains : x # a => run'[x] = run[x] /\ chain'[x] = chain[x]
          BY <3>3, <3>7 DEF Actors
        <4> QED
          BY <3>2, <3>5, <4>1, <4>2, <4>3 DEF Inv, Threads, ChainThreads
      <3>12. RequestThreads'
        <4>1. \A r \in Requests : run'[r] = run[r]
          BY <1>2, <3>7, CronAssumption DEF Actors
        <4> QED
          BY <3>1, <4>1 DEF Inv, Threads, RequestThreads
      <3>13. Room'
        BY <1>2, <2>2, <3>1, <3>3, <3>5, RoomStays DEF Inv
      <3>14. TimerKept'
        BY <1>2, <3>5, TimerLooked
      <3> QED
        BY <2>1, <3>4, <3>10, <3>11, <3>12, <3>13, <3>14, LeasesStay
           DEF Inv, Threads
    <2> QED
      BY <2>3, <2>4
  <1>3. CASE a \notin Chains
    <2>1. /\ a \in Requests /\ req' = [req EXCEPT ![a].at = "done"]
          /\ run' = [run EXCEPT ![a] = None]
          /\ byHand' = byHand \cup {run[a].job}
          /\ UNCHANGED <<chain, timer>>
      BY <1>3 DEF Returns, Actors
    <2>2. byHand' \subseteq Jobs /\ faults' \in 0..MaxFaults
      BY <1>1, <2>1 DEF Inv, TypeOK, RunRow
    <2>3. \A j \in Jobs : j \notin byHand' => j \notin byHand /\ table'[j] = table[j]
      BY <2>1
    <2> QED
      BY <2>1, <2>2, <2>3, TriggerEnds
  <1> QED
    BY <1>2, <1>3

(* The row a run leaves; a run of a chain, whose row is raw, leaves no     *)
(* next run.                                                               *)
LEMMA RowAfter ==
  ASSUME Inv, NEW j \in Jobs, table[j] # None, NEW row \in Seen \cup {Raw}
  PROVE  /\ Settled(j, row) \in Row \cup {None} /\ Failed(j, row) \in Row \cup {None}
         /\ row = Raw => Settled(j, row) = None /\ Failed(j, row).next = None
  <1> DEFINE next == NextRun(row.kind, row.value)
  <1>1. next \in MaybeTime /\ (row = Raw => next = None)
    <2>1. CASE row = Raw
      BY <2>1, RawNeverNext DEF MaybeTime
    <2>2. CASE row \in Seen /\ row # Raw
      <3>1. now \in Nat
        BY CronAssumption DEF Inv, TypeOK
      <3> QED
        BY <2>2, <3>1, NextRunType DEF Seen
    <2> QED
      BY <2>1, <2>2
  <1>2. /\ [table[j] EXCEPT !.next = next] \in Row
        /\ [table[j] EXCEPT !.next = next].next = next
    <2>1. table[j] \in Row
      BY DEF Inv, TypeOK
    <2> QED
      BY <1>1, <2>1 DEF Row
  <1>3. /\ Settled(j, row) = IF row.once \/ next = None THEN None
                             ELSE [table[j] EXCEPT !.next = next]
        /\ Failed(j, row) = IF row.once THEN None
                            ELSE [table[j] EXCEPT !.next = next]
    BY DEF Settled, Failed
  <1> HIDE DEF next
  <1>4. row = Raw => ~row.once
    BY DEF Raw
  <1> QED
    BY <1>1, <1>2, <1>3, <1>4

LEMMA WritesKeeps ==
  ASSUME Inv, NEW a \in Actors, run[a] # None,
         NEW row \in Row \cup {None},
         table[run[a].job] # None /\ run[a].row = Raw => row = None \/ row.next = None,
         Writes(a, run[a].job, row),
         UNCHANGED <<now, up, born, boot, queued, revived, faults>>
  PROVE  Inv'
  <1> DEFINE j == run[a].job
  <1>1. j \in Jobs
    BY DEF Inv, TypeOK
  <1>2. /\ Returns(a)
        /\ table' = IF table[j] = None THEN table ELSE [table EXCEPT ![j] = row]
    BY DEF Writes
  <1>3. a \in Chains => run[a].row = Raw
    BY DEF Inv, Threads, ChainThreads
  <1>4. /\ table' \in [Jobs -> Row \cup {None}]
        /\ \A i \in Jobs : i # j => table'[i] = table[i]
        /\ table' = table \/ (table'[j] = row /\ table[j] # None)
    BY <1>1, <1>2 DEF Inv, TypeOK
  <1>5. a \in Chains => \/ table' = table \/ table'[j] = None
                        \/ table'[j].next = None
    BY <1>3, <1>4
  <1> QED
    BY <1>2, <1>4, <1>5, ReturnKeeps

LEMMA SettleKeeps ==
  ASSUME Inv, NEW a \in Actors, Settle(a)
  PROVE  Inv'
  <1> DEFINE j == run[a].job
             row == Settled(j, run[a].row)
  <1>1. /\ run[a] # None /\ Writes(a, j, row)
        /\ UNCHANGED <<now, up, born, boot, queued, revived, faults>>
    BY DEF Settle
  <1>2. j \in Jobs /\ run[a].row \in Seen \cup {Raw}
    BY <1>1 DEF Inv, TypeOK
  <1>3. CASE table[j] # None
    <2>1. row \in Row \cup {None} /\ (run[a].row = Raw => row = None)
      BY <1>2, <1>3, RowAfter
    <2> HIDE DEF row
    <2> QED
      BY <1>1, <2>1, WritesKeeps
  <1>4. CASE table[j] = None
    <2>1. Writes(a, j, None)
      BY <1>1, <1>4 DEF Writes
    <2> QED
      BY <1>1, <1>4, <2>1, WritesKeeps
  <1> QED
    BY <1>3, <1>4

LEMMA FailKeeps ==
  ASSUME Inv, NEW a \in Actors, Fail(a)
  PROVE  Inv'
  <1> DEFINE j == run[a].job
             row == Failed(j, run[a].row)
  <1>1. /\ run[a] # None /\ Writes(a, j, row)
        /\ UNCHANGED <<now, up, born, boot, queued, revived, faults>>
    BY DEF Fail
  <1>2. j \in Jobs /\ run[a].row \in Seen \cup {Raw}
    BY <1>1 DEF Inv, TypeOK
  <1>3. CASE table[j] # None
    <2>1. row \in Row \cup {None} /\ (run[a].row = Raw => row.next = None)
      BY <1>2, <1>3, RowAfter
    <2> HIDE DEF row
    <2> QED
      BY <1>1, <2>1, WritesKeeps
  <1>4. CASE table[j] = None
    <2>1. Writes(a, j, None)
      BY <1>1, <1>4 DEF Writes
    <2> QED
      BY <1>1, <1>4, <2>1, WritesKeeps
  <1> QED
    BY <1>3, <1>4

LEMMA FailFailsKeeps ==
  ASSUME Inv, NEW a \in Actors, FailFails(a)
  PROVE  Inv'
  <1>1. /\ run[a] # None /\ run' = [run EXCEPT ![a] = None]
        /\ UNCHANGED <<now, up, table, born, boot, queued, revived>>
    BY DEF FailFails
  <1>2. faults' \in 0..MaxFaults /\ table' \in [Jobs -> Row \cup {None}]
    BY <1>1, FaultCounts DEF Inv, TypeOK, FailFails
  <1>3. CASE a \in Chains
    <2>1. Arm(chain, a) /\ req' = req
      BY <1>3 DEF FailFails
    <2>2. chain[a].at = "running"
      BY <1>1, <1>3 DEF Inv, Threads, ChainThreads
    <2>3. Calm
      BY <1>1, <2>1 DEF Calm, Alone
    <2> QED
      BY <1>1, <1>2, <1>3, <2>1, <2>2, <2>3, ChainArms
  <1>4. CASE a \notin Chains
    <2>1. /\ a \in Requests /\ req' = [req EXCEPT ![a].at = "done"]
          /\ UNCHANGED <<chain, timer, byHand>>
      BY <1>4 DEF FailFails, Actors
    <2>2. byHand' \subseteq Jobs
      BY <2>1 DEF Inv, TypeOK
    <2> QED
      BY <1>1, <1>2, <2>1, <2>2, TriggerEnds
  <1> QED
    BY <1>3, <1>4

(* The requests.                                                           *)
LEMMA Beginning ==
  ASSUME Inv, NEW r \in Requests, NEW at \in {"patching", "arming", "running", "done"},
         NEW j \in Jobs, NEW patch \in Patches \cup {None}, NEW row \in Seen \cup {None},
         at = "patching" => patch \in Patches,
         Begins(r, at, j, patch, row),
         \A a \in Actors : a # r => run'[a] = run[a],
         run'[r] = None \/ (/\ at = "running" /\ run'[r].row \in Seen
                            /\ run'[r].job = j),
         \A i \in Jobs : i # j => table'[i] = table[i],
         UNCHANGED <<up, chain, revived>>
  PROVE  /\ req' \in [Requests -> ReqRow] /\ Threads' /\ Room' /\ Leases' /\ OneHolder'
         /\ \A x \in Requests : req[x].at = "arming" => req'[x].at = "arming"
         /\ req'[r].at = at
  <1> DEFINE new == [at |-> at, job |-> j, patch |-> patch, seen |-> row]
  <1>1. req[r].at = "idle" /\ req' = [req EXCEPT ![r] = new] /\ req[r].job = None
    BY DEF Begins, Inv, Threads, RequestThreads
  <1>2. new \in ReqRow /\ new.at = at /\ new.job = j /\ new.patch = patch
    BY DEF ReqRow
  <1> HIDE DEF new
  <1>3. /\ req' \in [Requests -> ReqRow] /\ req'[r] = new
        /\ \A x \in Requests : x # r => req'[x] = req[x]
    BY <1>1, <1>2 DEF Inv, TypeOK, ReqRow
  <1>4. ChainThreads'
    <2>1. \A c \in Chains : run'[c] = run[c]
      BY CronAssumption DEF Actors
    <2> QED
      BY <2>1 DEF Inv, Threads, ChainThreads
  <1>5. RequestThreads'
    <2>1. j # None
      BY CronAssumption
    <2>2. \A x \in Requests : x # r => run'[x] = run[x]
      BY DEF Actors
    <2> QED
      BY <1>2, <1>3, <2>1, <2>2 DEF Inv, Threads, RequestThreads
  <1>6. \A x \in Requests : req[x].at \in {"arming", "done"} => req'[x] = req[x]
    BY <1>1, <1>3
  <1>7. Room'
    BY <1>6, RoomStays DEF Inv
  <1>8. Fewer /\ Calm
    <2>1. ASSUME NEW i \in Jobs, Alone(i)'
          PROVE  Alone(i) /\ i # j
      <3>1. \A x \in Requests : x # r => req[x].job # i
        BY <1>3, <2>1 DEF Alone
      <3>2. req[r].job # i
        BY <1>1, CronAssumption
      <3> QED
        BY <1>2, <1>3, <2>1, <3>1, <3>2 DEF Alone
    <2> QED
      BY <2>1 DEF Fewer, Calm
  <1> QED
    BY <1>2, <1>3, <1>4, <1>5, <1>6, <1>7, <1>8, LeasesStay DEF Inv, Threads

LEMMA IdleHasNoRun ==
  ASSUME Inv, NEW r \in Requests, req[r].at = "idle"
  PROVE  run[r] = None
  BY DEF Inv, Threads, RequestThreads

LEMMA CreateJobKeeps ==
  ASSUME Inv, NEW r \in Requests, NEW j \in Jobs, NEW n \in NewJobs,
         CreateJob(r, j, n)
  PROVE  Inv'
  <1>1. /\ Begins(r, "arming", j, None, None) /\ req[r].at = "idle"
        /\ table' = [table EXCEPT ![j] = NewRow(n)] /\ born' = born \cup {j}
        /\ UNCHANGED <<now, up, boot, timer, chain, run, queued, byHand, revived,
                       faults>>
    BY DEF CreateJob, Begins
  <1>2. run[r] = None
    BY <1>1, IdleHasNoRun
  <1>3. table' \in [Jobs -> Row \cup {None}]
    <2>1. now \in Nat
      BY CronAssumption DEF Inv, TypeOK
    <2>2. NewRow(n) \in Row
      BY <2>1, NewRowType
    <2> QED
      BY <1>1, <2>2 DEF Inv, TypeOK
  <1>4. \A i \in Jobs : i # j => table'[i] = table[i]
    BY <1>1
  <1>5. /\ req' \in [Requests -> ReqRow] /\ Threads' /\ Room' /\ Leases' /\ OneHolder'
        /\ req'[r].at = "arming"
    BY <1>1, <1>2, <1>4, Beginning
  <1>6. TypeOK'
    BY <1>1, <1>3, <1>5 DEF Inv, TypeOK, ReqRow
  <1>7. TimerKept'
    BY <1>5, TimerLooked
  <1> QED
    BY <1>5, <1>6, <1>7 DEF Inv

LEMMA UpdateJobKeeps ==
  ASSUME Inv, NEW r \in Requests, NEW j \in Jobs, NEW p \in Patches,
         UpdateJob(r, j, p)
  PROVE  Inv'
  <1> DEFINE row == IF (p.kind = None /\ p.value = None) \/ table[j] = None
                    THEN None ELSE Mapped(table[j])
  <1>1. /\ Begins(r, "patching", j, p, row) /\ req[r].at = "idle"
        /\ UNCHANGED <<now, up, table, born, boot, timer, chain, run, queued,
                       byHand, revived, faults>>
    BY DEF UpdateJob, Begins
  <1>2. run[r] = None
    BY <1>1, IdleHasNoRun
  <1>3. row \in Seen \cup {None}
    BY MappedType DEF Inv, TypeOK
  <1> HIDE DEF row
  <1>4. /\ req' \in [Requests -> ReqRow] /\ Threads' /\ Room' /\ Leases' /\ OneHolder'
        /\ \A x \in Requests : req[x].at = "arming" => req'[x].at = "arming"
    BY <1>1, <1>2, <1>3, Beginning
  <1>5. TypeOK'
    BY <1>1, <1>4 DEF Inv, TypeOK, ReqRow
  <1>6. TimerKept'
    <2>1. now' \in Nat /\ now <= now'
      BY <1>1, CronAssumption DEF Inv, TypeOK
    <2> QED
      BY <1>1, <1>4, <2>1, TimerStays DEF Inv, Awaits
  <1> QED
    BY <1>4, <1>5, <1>6 DEF Inv

LEMMA DeleteJobKeeps ==
  ASSUME Inv, NEW r \in Requests, NEW j \in Jobs, DeleteJob(r, j)
  PROVE  Inv'
  <1>1. /\ Begins(r, "done", j, None, None) /\ req[r].at = "idle"
        /\ table' = [table EXCEPT ![j] = None]
        /\ UNCHANGED <<now, up, born, boot, timer, chain, run, queued, byHand,
                       revived, faults>>
    BY DEF DeleteJob, Begins
  <1>2. run[r] = None
    BY <1>1, IdleHasNoRun
  <1>3. /\ table' \in [Jobs -> Row \cup {None}] /\ table'[j] = None
        /\ \A i \in Jobs : i # j => table'[i] = table[i]
    BY <1>1 DEF Inv, TypeOK
  <1>4. /\ req' \in [Requests -> ReqRow] /\ Threads' /\ Room' /\ Leases' /\ OneHolder'
        /\ \A x \in Requests : req[x].at = "arming" => req'[x].at = "arming"
    BY <1>1, <1>2, <1>3, Beginning
  <1>5. TypeOK'
    BY <1>1, <1>3, <1>4 DEF Inv, TypeOK, ReqRow
  <1>6. TimerKept'
    <2>1. now' \in Nat /\ now <= now'
      BY <1>1, CronAssumption DEF Inv, TypeOK
    <2>2. \A i \in Jobs : Awaits(i)' /\ i \notin byHand' =>
             Awaits(i) /\ i \notin byHand /\ table'[i].next = table[i].next
      BY <1>1, <1>3 DEF Awaits
    <2> QED
      BY <1>1, <1>4, <2>1, <2>2, TimerStays DEF Inv
  <1> QED
    BY <1>4, <1>5, <1>6 DEF Inv

LEMMA TriggerJobKeeps ==
  ASSUME Inv, NEW r \in Requests, NEW j \in Jobs, TriggerJob(r, j)
  PROVE  Inv'
  <1> DEFINE new == [at |-> "enqueue", job |-> j, row |-> Mapped(table[j])]
  <1>1. /\ Begins(r, "running", j, None, None) /\ table[j] # None
        /\ run' = [run EXCEPT ![r] = new]
        /\ UNCHANGED <<now, up, table, born, boot, timer, chain, queued, byHand,
                       revived, faults>>
    BY DEF TriggerJob
  <1>2. Mapped(table[j]) \in Seen
    BY <1>1, MappedType DEF Inv, TypeOK
  <1>3. new \in RunRow /\ new.job = j /\ new.row \in Seen
    BY <1>2 DEF RunRow
  <1> HIDE DEF new
  <1>4. /\ run' \in [Actors -> {None} \cup RunRow] /\ run'[r] = new
        /\ \A a \in Actors : a # r => run'[a] = run[a]
    BY <1>1, <1>3 DEF Inv, TypeOK, RunRow, Actors
  <1>5. /\ req' \in [Requests -> ReqRow] /\ Threads' /\ Room' /\ Leases' /\ OneHolder'
        /\ \A x \in Requests : req[x].at = "arming" => req'[x].at = "arming"
    BY <1>1, <1>3, <1>4, Beginning
  <1>6. TypeOK'
    BY <1>1, <1>4, <1>5 DEF Inv, TypeOK, ReqRow, RunRow
  <1>7. TimerKept'
    <2>1. now' \in Nat /\ now <= now'
      BY <1>1, CronAssumption DEF Inv, TypeOK
    <2> QED
      BY <1>1, <1>5, <2>1, TimerStays DEF Inv, Awaits
  <1> QED
    BY <1>5, <1>6, <1>7 DEF Inv

LEMMA PatchKeeps ==
  ASSUME Inv, NEW r \in Requests, Patch(r)
  PROVE  Inv'
  <1> DEFINE j == req[r].job  p == req[r].patch  seen == req[r].seen
             next == NextRun(Or(p.kind, seen.kind), Or(p.value, seen.value))
             row == [kind |-> Or(p.kind, table[j].kind),
                     value |-> Or(p.value, table[j].value),
                     once |-> table[j].once,
                     enabled |-> Or(p.enabled, table[j].enabled),
                     next |-> IF seen = None THEN table[j].next ELSE next]
  <1>1. /\ req[r].at = "patching" /\ req' = [req EXCEPT ![r].at = "arming"]
        /\ table' = IF table[j] = None THEN table ELSE [table EXCEPT ![j] = row]
        /\ UNCHANGED <<now, up, born, boot, timer, chain, run, queued, byHand,
                       revived, faults>>
    BY DEF Patch
  <1>2. /\ j \in Jobs /\ seen \in Seen \cup {None} /\ now \in Nat
        /\ p \in [kind : Kinds \cup {None}, value : Int \cup {None},
                  enabled : BOOLEAN \cup {None}]
    BY <1>1, CronAssumption DEF Inv, TypeOK, Threads, RequestThreads
  <1>3. table' \in [Jobs -> Row \cup {None}]
    <2>1. CASE table[j] # None
      <3>1. table[j] \in Row
        BY <1>2, <2>1 DEF Inv, TypeOK
      <3>2. ASSUME seen # None PROVE next \in MaybeTime
        <4>1. Or(p.kind, seen.kind) \in Kinds /\ Or(p.value, seen.value) \in Int
          BY <1>2, <3>2 DEF Or, Seen
        <4> QED
          BY <1>2, <4>1, NextRunType
      <3>3. /\ Or(p.kind, table[j].kind) \in Kinds
            /\ Or(p.value, table[j].value) \in Int
        BY <1>2, <3>1 DEF Or, Row
      <3>4. Or(p.enabled, table[j].enabled) \in BOOLEAN
        BY <1>2, <3>1 DEF Or, Row
      <3>5. table[j].once \in BOOLEAN /\ table[j].next \in MaybeTime
        BY <3>1 DEF Row
      <3> HIDE DEF next
      <3>6. row \in Row
        BY <3>2, <3>3, <3>4, <3>5 DEF Row
      <3> HIDE DEF row
      <3> QED
        BY <1>1, <2>1, <3>6 DEF Inv, TypeOK
    <2>2. CASE table[j] = None
      BY <1>1, <2>2 DEF Inv, TypeOK
    <2> QED
      BY <2>1, <2>2
  <1>4. \A i \in Jobs : i # j => table'[i] = table[i]
    BY <1>1
  <1> HIDE DEF row, next
  <1>5. run[r] = None
    BY <1>1 DEF Inv, Threads, RequestThreads
  <1>6. /\ req' \in [Requests -> ReqRow] /\ RequestThreads'
        /\ \A x \in Requests : req'[x].job = req[x].job
    BY <1>1, <1>5, RequestMoves
  <1>7. TypeOK'
    BY <1>1, <1>3, <1>6 DEF Inv, TypeOK, ReqRow
  <1>8. ChainThreads'
    BY <1>1 DEF Inv, Threads, ChainThreads
  <1>9. req'[r].at = "arming" /\ \A x \in Requests : x # r => req'[x] = req[x]
    BY <1>1 DEF Inv, TypeOK
  <1>10. Room'
    BY <1>1, <1>9, RoomStays DEF Inv
  <1>11. Fewer /\ Calm
    <2>1. \A i \in Jobs : Alone(i)' => Alone(i) /\ i # j
      BY <1>1, <1>6 DEF Alone
    <2> QED
      BY <1>1, <1>4, <2>1 DEF Fewer, Calm
  <1>12. TimerKept'
    BY <1>9, TimerLooked
  <1> QED
    BY <1>6, <1>7, <1>8, <1>10, <1>11, <1>12, LeasesStay DEF Inv, Threads

----------------------------------------------------------------------------
(* The theorems.                                                           *)

LEMMA StepKeeps == Inv /\ [Next]_vars => Inv'
  <1> SUFFICES ASSUME Inv, [Next]_vars PROVE Inv'
    OBVIOUS
  <1>1. ASSUME Tick \/ Crash \/ Start \/ BootRead \/ BootDone \/ BootFails
        PROVE  Inv'
    <2>1. ASSUME Crash PROVE Inv'
      BY <2>1, FaultCounts, DieKeeps DEF Crash
    <2>2. ASSUME BootFails PROVE Inv'
      BY <2>2, FaultCounts, DieKeeps DEF BootFails
    <2> QED
      BY <1>1, <2>1, <2>2, TickKeeps, StartKeeps, BootReadKeeps, BootDoneKeeps
  <1>2. ASSUME NEW j \in Jobs, BootWrite(j)
        PROVE  Inv'
    BY <1>2, BootWriteKeeps
  <1>3. ASSUME NEW c \in Chains, ArmTimer(c) \/ OnTimer(c)
        PROVE  Inv'
    <2>1. ASSUME FindFails(c) PROVE Inv'
      BY <2>1, FaultCounts, DieKeeps DEF FindFails
    <2> QED
      BY <1>3, <2>1, FindKeeps, SetTimerKeeps, FireKeeps, ClaimKeeps,
         ClaimFailsKeeps DEF ArmTimer, OnTimer
  <1>4. ASSUME NEW a \in Actors, ExecuteJob(a)
        PROVE  Inv'
    BY <1>4, EnqueueKeeps, SettleKeeps, TryFailsKeeps, FailKeeps, FailFailsKeeps
       DEF ExecuteJob
  <1>5. ASSUME NEW r \in Requests, Request(r)
        PROVE  Inv'
    BY <1>5, CreateJobKeeps, UpdateJobKeeps, DeleteJobKeeps, TriggerJobKeeps,
       PatchKeeps, ArmAfterKeeps DEF Request
  <1> QED
    BY <1>1, <1>2, <1>3, <1>4, <1>5, Stuttering DEF Next

LEMMA InvAlways == Spec => []Inv
  BY Initially, StepKeeps, PTL DEF Spec

(* A row of ava_cron_jobs has a kind, a number and a next run or none, a   *)
(* timer belongs to a chain, and a run has a job, whatever happens.        *)
THEOREM CronTyped == Spec => []TypeOK
  <1>1. Inv => TypeOK
    BY DEF Inv
  <1> QED
    BY <1>1, InvAlways, PTL

(* Who is about to arm the timer has a chain to do it with.                *)
FreeWhenNeeded ==
    (up = "booting" \/ \E r \in Requests : req[r].at = "arming")
        => FreeChain \in Chains /\ chain[FreeChain].at = "idle"

(* Every call of armTimer finds a free chain: one for the start and one    *)
(* for each request are enough for all that overlap (cron.ts, armTimer),   *)
(* so that no behaviour of the code is missing for want of a chain.        *)
THEOREM ChainsSuffice == Spec => []FreeWhenNeeded
  <1>1. Inv => FreeWhenNeeded
    BY FreeChainIsFree DEF Inv, FreeWhenNeeded
  <1> QED
    BY <1>1, InvAlways, PTL

(* However many calls of armTimer overlap, answer out of order, fire and   *)
(* clear each other's timers, in spite of refused claims, crashes and      *)
(* restarts, a job that awaits its next run is watched: some timer goes    *)
(* off no later than that run, or somebody is about to look for the next   *)
(* job (armTimer and onTimer).                                             *)
THEOREM TimersAreKept == Spec => []TimerKept
  <1>1. Inv => TimerKept
    BY DEF Inv
  <1> QED
    BY <1>1, InvAlways, PTL

(* Two calls of onTimer that both hold a job nobody else touched took it a *)
(* lease apart (claimDueJobs): no occurrence of a job runs twice within    *)
(* its lease.                                                              *)
THEOREM LeasesKeepApart == Spec => []OneHolder
  <1>1. Inv => OneHolder
    BY DEF Inv
  <1> QED
    BY <1>1, InvAlways, PTL
=============================================================================
