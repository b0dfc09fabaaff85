----------------------------- MODULE LedgerProofs -----------------------------
(***************************************************************************)
(* The cluster implements the capacity ledger, for any nodes, pods,        *)
(* requests, capacities and goroutines.                                    *)
(*                                                                         *)
(* Settles(n), proved in AccountingProofs, says what a step does to one    *)
(* stable node: its account is kept, gains a pod or loses one.  The ledger *)
(* says more: a step is an entry in one account only, and draws no id but  *)
(* the one it enters.  Requests are at least 1, so an account whose        *)
(* counters stay is kept; and no step moves the counters of two nodes.     *)
(***************************************************************************)
EXTENDS AccountingProofs, ClusterLedger

(* Only k's counters may change in this step. *)
OnlyCountersOf(k) == \A n \in Nodes \ {k} : alloc'[n] = alloc[n]

(* A reservation is for a fresh id and moves the counters of one node. *)
LEMMA SchedulerCounters ==
  ASSUME TypeOK, LocalsOK, NEW w \in Workers, SchedulerStep(w)
  PROVE  \/ issued' = issued /\ \E k \in Nodes : OnlyCountersOf(k)
         \/ issued' = issued /\ alloc' = alloc
         \/ \E k \in Nodes, p \in Pods \ issued : HasReserved(w, k, p)
<1>1. CASE ReleaseAfterFailure(w)
  <2>1. worker[w].node \in Nodes
    BY <1>1 DEF ReleaseAfterFailure, LocalsOK
  <2>2. OnlyCountersOf(worker[w].node)
    BY <1>1, <2>1, AllocElsewhere DEF ReleaseAfterFailure, OnlyCountersOf
  <2> QED BY <1>1, <2>1, <2>2 DEF ReleaseAfterFailure
<1>2. CASE QuietWorker(w) \/ WritePod(w) \/ WritePodFails(w) \/ DispatchStart(w)
  BY <1>2 DEF QuietWorker, redisVars, WritePod, WritePodFails, DispatchStart
<1> QED
  BY <1>1, <1>2, WorkerCases

(* A forced removal releases on the victim's node. *)
LEMMA RemovalCounters ==
  ASSUME TypeOK, LocalsOK, NEW x \in Removers, RemovalStep(x)
  PROVE  issued' = issued /\ (alloc' = alloc \/ \E k \in Nodes : OnlyCountersOf(k))
<1>1. CASE ForceRelease(x)
  <2>1. remover[x].rec.node \in Nodes
    BY <1>1 DEF ForceRelease, LocalsOK
  <2>2. OnlyCountersOf(remover[x].rec.node)
    BY <1>1, <2>1, AllocElsewhere DEF ForceRelease, OnlyCountersOf
  <2> QED BY <1>1, <2>1, <2>2 DEF ForceRelease
<1>2. CASE ~ ForceRelease(x)
  BY <1>2
  DEF RemovalStep, PickVictim, PickEvicted, CheckMember, CheckVictimLease, SendStop,
      DeleteRecord, RemovalFails, redisVars
<1> QED
  BY <1>1, <1>2

(* An eviction resets the counters of the node it evicts. *)
LEMMA HealthCounters ==
  ASSUME TypeOK, LocalsOK, NEW m \in Monitors, HealthStep(m)
  PROVE  issued' = issued /\ (alloc' = alloc \/ \E k \in Nodes : OnlyCountersOf(k))
<1>1. CASE Evict(m)
  <2>1. monitor[m].node \in Nodes
    BY <1>1 DEF Evict, LocalsOK
  <2>2. OnlyCountersOf(monitor[m].node)
    BY <1>1, <2>1 DEF Evict, OnlyCountersOf, TypeOK, RedisTypeOK
  <2> QED BY <1>1, <2>1, <2>2 DEF Evict
<1>2. CASE ~ Evict(m)
  BY <1>2
  DEF HealthStep, SweepMember, ProbeLease, ReceiveExpiry, RecheckLease, MonitorFails,
      redisVars
<1> QED
  BY <1>1, <1>2

(* An agent writes and releases on its own node. *)
LEMMA AgentCounters ==
  ASSUME TypeOK, LocalsOK, ReferencesOK, NEW k \in Nodes, AgentStep(k)
  PROVE  issued' = issued /\ (alloc' = alloc \/ OnlyCountersOf(k))
<1>1. CASE PublishCapacity(k)
  BY <1>1 DEF PublishCapacity, OnlyCountersOf, TypeOK, RedisTypeOK
<1>2. CASE ReleaseCapacity(k)
  <2>1. agent[k].rec.node = k
    BY <1>2 DEF ReleaseCapacity, ReferencesOK
  <2> QED BY <1>2, <2>1, AllocElsewhere DEF ReleaseCapacity, OnlyCountersOf
<1>3. CASE ~ PublishCapacity(k) /\ ~ ReleaseCapacity(k)
  BY <1>3
  DEF AgentStep, RegisterStep, ConsumerStep, LeaseStep, redisVars, Boot, ScanPods,
      CountPod, JoinRegistry, FirstHeartbeat, AdoptPod, AdoptWrite, StartConsumer,
      PopCommand, SpawnRead, SpawnWrite, StopRead, ClearIdentity, RemoveRecord,
      StopFails, Heartbeat, LeaseExpires, AgentDies, Deregister
<1> QED
  BY <1>1, <1>2, <1>3

(* No step moves the counters of two nodes, and none draws an id without a
   reservation. *)
LEMMA OneNodeAtATime ==
  ASSUME TypeOK, LocalsOK, ReferencesOK, Next
  PROVE  \/ issued' = issued /\ (alloc' = alloc \/ \E k \in Nodes : OnlyCountersOf(k))
         \/ \E w \in Workers, k \in Nodes, p \in Pods \ issued : HasReserved(w, k, p)
<1>1. LoseExpiry \/ ControlPlaneCrash => issued' = issued /\ alloc' = alloc
  BY DEF LoseExpiry, ControlPlaneCrash
<1> QED
  BY <1>1, SchedulerCounters, RemovalCounters, HealthCounters, AgentCounters DEF Next

(* What a stable node's counters tell about its account. *)
LEMMA CountersTell ==
  ASSUME IInv, NEW n \in Stable, Settles(n)
  PROVE  /\ alloc'[n] = alloc[n] => KeepsAccount(n)
         /\ \A p \in Pods : alloc'[n] = Reserved(n, PodReq(p))[n]
                              => \E q \in Pods : EntersPod(n, q)
         /\ \A p \in Pods : StrikesPod(n, p) =>
              alloc'[n] = [r \in Resources |-> alloc[n][r] - PodReq(p)[r]]
<1>0. /\ n \in Nodes /\ n \in published /\ Held(n) \in SUBSET Pods
      /\ alloc \in [Nodes -> [Resources -> Nat]]
      /\ \A r \in Resources : alloc[n][r] = Demand(Held(n), r)
  BY Disjointness DEF IInv, Stable, StableOK, TypeOK, RedisTypeOK, ExactAccounting
<1>1. \A p \in Pods, r \in Resources : PodReq(p)[r] \in Nat \ {0}
  BY PodReqType
<1>2. \A p \in Pods : Reserved(n, PodReq(p))[n] =
                        [r \in Resources |-> alloc[n][r] + PodReq(p)[r]]
  BY <1>0 DEF Reserved
<1>3. ASSUME NEW p \in Pods, StrikesPod(n, p)
      PROVE  alloc'[n] = [r \in Resources |-> alloc[n][r] - PodReq(p)[r]]
  <2>1. \A r \in Resources : Demand(Held(n), r) >= PodReq(p)[r]
    BY <1>0, <1>3, DemandRemove DEF StrikesPod
  <2>2. alloc'[n] = [r \in Resources |-> IF alloc[n][r] - PodReq(p)[r] < 0 THEN 0
                                         ELSE alloc[n][r] - PodReq(p)[r]]
    BY <1>0, <1>3 DEF StrikesPod, Released
  <2>3. \A r \in Resources : ~ (alloc[n][r] - PodReq(p)[r] < 0)
    BY <1>0, <1>1, <2>1
  <2> QED BY <2>2, <2>3
<1> DEFINE old == alloc[n]["cpu"]
           new == alloc'[n]["cpu"]
<1>4. "cpu" \in Resources /\ old \in Nat
  BY <1>0 DEF Resources
<1>5. ASSUME NEW p \in Pods
      PROVE  /\ alloc'[n] = Reserved(n, PodReq(p))[n] => new \in Int /\ new > old
             /\ EntersPod(n, p) => new \in Int /\ new > old
             /\ StrikesPod(n, p) => new \in Int /\ new < old
  <2> DEFINE k == PodReq(p)["cpu"]
  <2>1. k \in Nat /\ k > 0
    BY <1>1, <1>4
  <2>2. alloc'[n] = Reserved(n, PodReq(p))[n] => new = old + k
    BY <1>2, <1>4
  <2>3. StrikesPod(n, p) => new = old - k
    BY <1>3, <1>4
  <2>4. EntersPod(n, p) => alloc'[n] = Reserved(n, PodReq(p))[n]
    BY DEF EntersPod
  <2> HIDE DEF old, new, k
  <2> QED BY <1>4, <2>1, <2>2, <2>3, <2>4
<1>6. KeepsAccount(n) => new = old
  BY DEF KeepsAccount
<1>7. alloc'[n] = alloc[n] => new = old
  OBVIOUS
<1> HIDE DEF old, new
<1>8. /\ ~ (old > old)
      /\ ~ (old < old)
      /\ \A i \in Int : ~ (i < old /\ i > old)
  BY <1>4
<1>9. alloc'[n] = alloc[n] => KeepsAccount(n)
  BY <1>5, <1>7, <1>8 DEF Settles
<1>10. ASSUME NEW p \in Pods, alloc'[n] = Reserved(n, PodReq(p))[n]
       PROVE  \E q \in Pods : EntersPod(n, q)
  BY <1>5, <1>6, <1>8, <1>10 DEF Settles
<1> QED
  BY <1>3, <1>9, <1>10

(* The ledger's variables in this step, read off the account of each node. *)
LEMMA LedgerReads ==
  /\ [n \in Stable |-> Held(n)]' = [n \in Stable |-> Held(n)']
  /\ [n \in Stable |-> alloc[n]]' = [n \in Stable |-> alloc'[n]]
<1>1. Stable' = Stable
  BY DEF Stable
<1> QED
  BY <1>1

(* A reservation on a stable node is a grant, one on a flaky node only uses up
   its id. *)
LEMMA ReservationGrants ==
  ASSUME IInv, \A n \in Stable : Settles(n),
         NEW w \in Workers, NEW k \in Nodes, NEW p \in Pods \ issued,
         HasReserved(w, k, p)
  PROVE  Ledger!LedgerNext
<1>1. \A n \in Stable \ {k} : KeepsAccount(n)
  BY CountersTell, AllocElsewhere DEF HasReserved, IInv, Stable
<1>2. CASE k \in Stable
  <2>1. PICK q \in Pods : EntersPod(k, q)
    BY <1>2, CountersTell DEF HasReserved
  <2>2. q = p
    BY <2>1 DEF EntersPod, HasReserved
  <2>3. Held(k)' = Held(k) \cup {p}
    BY <2>1, <2>2 DEF EntersPod
  <2>4. [n \in Stable |-> Held(n)'] =
          [[n \in Stable |-> Held(n)] EXCEPT ![k] = Held(k) \cup {p}]
    BY <1>1, <1>2, <2>3 DEF KeepsAccount
  <2>5. alloc'[k] = [r \in Resources |-> alloc[k][r] + PodReq(p)[r]]
    BY DEF HasReserved, Reserved, IInv, TypeOK, RedisTypeOK
  <2>6. [n \in Stable |-> alloc'[n]] =
          [[n \in Stable |-> alloc[n]] EXCEPT ![k] =
             [r \in Resources |-> alloc[k][r] + PodReq(p)[r]]]
    BY <1>1, <1>2, <2>5 DEF KeepsAccount
  <2>7. \A r \in Resources : alloc[k][r] + PodReq(p)[r] <= Total[k][r]
    <3>1. \A r \in Resources : /\ alloc[k][r] \in Nat /\ PodReq(p)[r] \in Nat
                                /\ Total[k][r] \in Nat
                                /\ Total[k][r] - alloc[k][r] >= PodReq(p)[r]
      BY PodReqType, TotalAssumption DEF HasReserved, Fits, IInv, TypeOK, RedisTypeOK
    <3> QED BY <3>1
  <2>8. Ledger!Grant(k, p)
    BY <1>2, <2>4, <2>6, <2>7, LedgerReads DEF Ledger!Grant, HasReserved
  <2> QED BY <1>2, <2>8 DEF Ledger!LedgerNext
<1>3. CASE k \notin Stable
  <2>1. /\ [n \in Stable |-> Held(n)'] = [n \in Stable |-> Held(n)]
        /\ [n \in Stable |-> alloc'[n]] = [n \in Stable |-> alloc[n]]
    BY <1>1, <1>3 DEF KeepsAccount
  <2>2. Ledger!Draw(p)
    BY <2>1, LedgerReads DEF Ledger!Draw, HasReserved
  <2> QED BY <2>2 DEF Ledger!LedgerNext
<1> QED
  BY <1>2, <1>3

(* Without a reservation the ledger sees a return, on one node, or nothing. *)
LEMMA OthersReturn ==
  ASSUME IInv, \A n \in Stable : Settles(n), issued' = issued,
         alloc' = alloc \/ \E k \in Nodes : OnlyCountersOf(k)
  PROVE  Ledger!LedgerNext \/ UNCHANGED Ledger!ledger
<1>0. \A n \in Stable, p \in Pods : ~ EntersPod(n, p)
  BY DEF EntersPod
<1>1. CASE \A n \in Stable : KeepsAccount(n)
  <2>1. /\ [n \in Stable |-> Held(n)'] = [n \in Stable |-> Held(n)]
        /\ [n \in Stable |-> alloc'[n]] = [n \in Stable |-> alloc[n]]
    BY <1>1 DEF KeepsAccount
  <2> QED BY <2>1, LedgerReads DEF Ledger!ledger
<1>2. ASSUME NEW k \in Stable, ~ KeepsAccount(k)
      PROVE  Ledger!LedgerNext
  <2>1. PICK p \in Pods : StrikesPod(k, p)
    BY <1>0, <1>2 DEF Settles
  <2>2. \A n \in Stable \ {k} : KeepsAccount(n)
    BY <1>2, CountersTell DEF OnlyCountersOf, Stable
  <2>3. p \in Held(k) /\ Held(k)' = Held(k) \ {p}
    BY <2>1 DEF StrikesPod
  <2>4. [n \in Stable |-> Held(n)'] =
          [[n \in Stable |-> Held(n)] EXCEPT ![k] = Held(k) \ {p}]
    BY <2>2, <2>3 DEF KeepsAccount
  <2>5. alloc'[k] = [r \in Resources |-> alloc[k][r] - PodReq(p)[r]]
    BY <2>1, CountersTell
  <2>6. [n \in Stable |-> alloc'[n]] =
          [[n \in Stable |-> alloc[n]] EXCEPT ![k] =
             [r \in Resources |-> alloc[k][r] - PodReq(p)[r]]]
    BY <2>2, <2>5 DEF KeepsAccount
  <2>7. Ledger!Return(k, p)
    BY <2>3, <2>4, <2>6, LedgerReads DEF Ledger!Return
  <2> QED BY <2>7 DEF Ledger!LedgerNext
<1> QED
  BY <1>1, <1>2

(* Every step is a step of the ledger or none. *)
LEMMA LedgerStep ==
  ASSUME IInv, [Next]_vars
  PROVE  Ledger!LedgerNext \/ UNCHANGED Ledger!ledger
<1>1. CASE Next
  <2>0. TypeOK /\ LocalsOK /\ ReservationsOK /\ ReferencesOK /\ StableOK
    BY DEF IInv
  <2>1. \A n \in Stable : Settles(n)
    BY <1>1, <2>0, AccountsSettle
  <2> QED BY <1>1, <2>0, <2>1, OneNodeAtATime, ReservationGrants, OthersReturn
<1>2. CASE UNCHANGED vars
  BY <1>2 DEF vars, redisVars, Ledger!ledger, Held, Bound, Returning, InFlight,
              Holding, Stable
<1> QED
  BY <1>1, <1>2

(* In the beginning no account has an entry. *)
LEMMA LedgerStart ==
  ASSUME Init
  PROVE  Ledger!LedgerInit
<1>1. ASSUME NEW n \in Stable
      PROVE  Held(n) = {} /\ alloc[n] = [r \in Resources |-> 0]
  <2>0. n \in Nodes
    BY DEF Stable
  <2>1. Bound(n) = {}
    BY <2>0, NodesAssumption DEF Init, RedisInit, Bound, Absent
  <2>2. InFlight(n) = {} /\ leaked[n] = {}
    BY <2>0 DEF Init, RedisInit, SchedulerInit, InFlight, Holding, IdleWorker
  <2> QED BY <2>0, <2>1, <2>2 DEF Held, Init, RedisInit
<1> QED
  BY <1>1 DEF Ledger!LedgerInit, Init, RedisInit

(* For any nodes, pods, requests, capacities and goroutines: on the nodes whose
   agents do not fail, the interleaved and crashing control plane and its
   scripts implement the sequential ledger (reserveScript, releaseScript and
   all that call them).  Each step is one grant, one return, an id used
   elsewhere or nothing; in particular the clamp at zero never acts. *)
THEOREM LedgerImplemented == Spec => ImplementsLedger
<1> QED
  BY IInvInit, IInvStep, LedgerStart, LedgerStep, PTL
  DEF Spec, ImplementsLedger, Ledger!LedgerSpec
===============================================================================
