----------------------------- MODULE ClusterProofs -----------------------------
(***************************************************************************)
(* Proofs about Cluster, for every set of nodes, pods, deployments and     *)
(* goroutines.                                                             *)
(***************************************************************************)
EXTENDS Cluster, CapacityProofs

(* The records the modules build are of the types they declare. *)
LEMMA IdleTypes ==
  /\ IdleWorker \in WorkerStates
  /\ IdleRemover \in RemoverStates
  /\ IdleMonitor \in MonitorStates
  /\ DownAgent \in AgentStates
  /\ ServingAgent \in AgentStates
  /\ Absent \in PodRecord
<1>1. IdleWorker \in WorkerStates
  <2>1. NothingRead \in [Nodes -> [Resources -> Int]]
    BY DEF NothingRead
  <2>2. 0 \in 0 .. MaxCount
    BY CountAssumption
  <2> QED BY <2>1, <2>2 DEF IdleWorker, WorkerStates
<1>2. Absent \in PodRecord
  BY DEF Absent, PodRecord, Statuses
<1>3. IdleRemover \in RemoverStates
  BY <1>2 DEF IdleRemover, RemoverStates
<1>4. IdleMonitor \in MonitorStates
  BY DEF IdleMonitor, MonitorStates
<1>5. DownAgent \in AgentStates /\ ServingAgent \in AgentStates
  BY <1>2 DEF DownAgent, ServingAgent, AgentStates
<1> QED
  BY <1>1, <1>2, <1>3, <1>4, <1>5

(* HSET of a status keeps a pod record a pod record. *)
LEMMA WithStatusType ==
  ASSUME NEW rec \in PodRecord, NEW s \in Statuses
  PROVE  WithStatus(rec, s) \in PodRecord
  BY DEF WithStatus, PodRecord

(* Reserving and releasing keep the counters natural numbers. *)
LEMMA AllocTypes ==
  ASSUME NEW n \in Nodes, NEW d \in Deps, alloc \in [Nodes -> [Resources -> Nat]]
  PROVE  /\ Reserved(n, Req[d]) \in [Nodes -> [Resources -> Nat]]
         /\ Released(n, Req[d]) \in [Nodes -> [Resources -> Nat]]
<1>1. \A r \in Resources : alloc[n][r] \in Nat /\ Req[d][r] \in Nat
  BY ReqAssumption
<1>2. \A r \in Resources : alloc[n][r] + Req[d][r] \in Nat
  BY <1>1
<1>3. \A r \in Resources : (IF alloc[n][r] - Req[d][r] < 0 THEN 0
                            ELSE alloc[n][r] - Req[d][r]) \in Nat
  BY <1>1
<1> QED
  BY <1>2, <1>3 DEF Reserved, Released

(* A command queue stays a queue of commands. *)
LEMMA SentType ==
  ASSUME NEW n \in Nodes, NEW p \in Pods, NEW t \in {"start", "stop"},
         cmds \in [Nodes -> Seq(Commands)]
  PROVE  Sent(n, t, p) \in [Nodes -> Seq(Commands)]
<1>1. [type |-> t, pod |-> p] \in Commands
  BY DEF Commands
<1> QED
  BY <1>1 DEF Sent

(* A step of a worker respects the types. *)
LEMMA SchedulerTypes ==
  ASSUME TypeOK, LocalsOK, NEW w \in Workers, SchedulerStep(w)
  PROVE  RedisTypeOK' /\ SchedulerTypeOK'
<1>0. worker[w] \in WorkerStates /\ worker \in [Workers -> WorkerStates]
  BY DEF TypeOK, SchedulerTypeOK
<1>a. RedisTypeOK
  BY DEF TypeOK
<1>b. /\ alloc \in [Nodes -> [Resources -> Nat]]
      /\ leaked \in [Nodes -> SUBSET Pods]
      /\ issued \subseteq Pods
      /\ cmds \in [Nodes -> Seq(Commands)]
  BY <1>a DEF RedisTypeOK
<1>1. CASE ScheduleReplicas(w)
  <2>1. PICK d \in Deps, k \in 1 .. MaxCount :
          worker' = [worker EXCEPT ![w] =
                       [IdleWorker EXCEPT !.pc = "members", !.dep = d, !.left = k]]
    BY <1>1 DEF ScheduleReplicas
  <2>2. [IdleWorker EXCEPT !.pc = "members", !.dep = d, !.left = k] \in WorkerStates
    <3>1. k \in 0 .. MaxCount
      BY CountAssumption
    <3>2. NothingRead \in [Nodes -> [Resources -> Int]]
      BY DEF NothingRead
    <3> QED BY <3>1, <3>2 DEF WorkerStates, IdleWorker
  <2> QED BY <1>0, <1>a, <1>1, <2>1, <2>2
          DEF ScheduleReplicas, redisVars, RedisTypeOK, SchedulerTypeOK
<1>2. CASE ReadRegistry(w)
  BY <1>0, <1>a, <1>2
  DEF ReadRegistry, redisVars, WorkerStates, RedisTypeOK, SchedulerTypeOK
<1>3. CASE CheckLease(w)
  <2>1. PICK n \in worker[w].todo :
          LET live == worker[w].live \cup ({n} \cap lease)
              rest == worker[w].todo \ {n}
          IN  worker' = [worker EXCEPT ![w] =
                [@ EXCEPT !.live = live,
                          !.todo = IF rest = {} THEN live ELSE rest,
                          !.pc = IF rest # {} THEN "lease"
                                 ELSE IF live = {} THEN "reserve" ELSE "capacity"]]
    BY <1>3 DEF CheckLease
  <2>2. /\ worker[w].live \cup ({n} \cap lease) \in SUBSET Nodes
        /\ worker[w].todo \ {n} \in SUBSET Nodes
    BY <1>0, <1>a DEF WorkerStates, RedisTypeOK
  <2>3. worker' \in [Workers -> WorkerStates]
    BY <1>0, <2>1, <2>2 DEF WorkerStates
  <2> QED BY <1>a, <1>3, <2>3 DEF CheckLease, redisVars, RedisTypeOK, SchedulerTypeOK
<1>4. CASE ReadCapacity(w)
  <2>1. PICK n \in worker[w].todo :
          LET rest == worker[w].todo \ {n}
              fits == IF Fits(n, Req[worker[w].dep]) THEN {n} ELSE {}
              free == [worker[w].free EXCEPT ![n] =
                         [r \in Resources |-> Total[n][r] - alloc[n][r]]]
          IN  worker' = [worker EXCEPT ![w] =
                [@ EXCEPT !.todo = rest,
                          !.pc = IF rest = {} THEN "reserve" ELSE "capacity",
                          !.cand = worker[w].cand \cup fits,
                          !.free = free]]
    BY <1>4 DEF ReadCapacity
  <2>2. n \in Nodes
    BY <1>0 DEF WorkerStates
  <2> DEFINE rest == worker[w].todo \ {n}
             fits == IF Fits(n, Req[worker[w].dep]) THEN {n} ELSE {}
             free == [worker[w].free EXCEPT ![n] =
                        [r \in Resources |-> Total[n][r] - alloc[n][r]]]
             cand == worker[w].cand \cup fits
  <2>3. free \in [Nodes -> [Resources -> Int]]
    <3>1. [r \in Resources |-> Total[n][r] - alloc[n][r]] \in [Resources -> Int]
      BY <1>b, <2>2, TotalAssumption
    <3> QED BY <1>0, <3>1 DEF WorkerStates
  <2>4. rest \in SUBSET Nodes /\ cand \in SUBSET Nodes
    BY <1>0, <2>2 DEF WorkerStates
  <2>5. worker' = [worker EXCEPT ![w] =
                [@ EXCEPT !.todo = rest,
                          !.pc = IF rest = {} THEN "reserve" ELSE "capacity",
                          !.cand = cand,
                          !.free = free]]
    BY <2>1
  <2> HIDE DEF rest, free, cand
  <2>6. worker' \in [Workers -> WorkerStates]
    BY <1>0, <2>3, <2>4, <2>5 DEF WorkerStates
  <2> QED BY <1>a, <1>4, <2>6 DEF ReadCapacity, redisVars, RedisTypeOK, SchedulerTypeOK
<1>5. CASE Reserve(w)
  <2>1. worker[w].dep \in Deps
    BY <1>5 DEF Reserve, LocalsOK
  <2>2. PICK n \in worker[w].cand :
          \/ /\ alloc' = Reserved(n, Req[worker[w].dep])
             /\ \E p \in Pods \ issued :
                  /\ issued' = issued \cup {p}
                  /\ worker' = [worker EXCEPT ![w] =
                       [@ EXCEPT !.pc = "write", !.node = n, !.pod = p,
                                 !.live = {}, !.cand = {}, !.free = NothingRead]]
          \/ /\ worker' = [worker EXCEPT ![w].cand = @ \ {n}]
             /\ UNCHANGED <<alloc, issued>>
    BY <1>5 DEF Reserve
  <2>3. n \in Nodes
    BY <1>0 DEF WorkerStates
  <2>4. Reserved(n, Req[worker[w].dep]) \in [Nodes -> [Resources -> Nat]]
    BY <1>b, <2>1, <2>3, AllocTypes
  <2>5. alloc' \in [Nodes -> [Resources -> Nat]] /\ issued' \subseteq Pods
    BY <1>b, <2>2, <2>4
  <2>6. NothingRead \in [Nodes -> [Resources -> Int]]
    BY DEF NothingRead
  <2>7. worker' \in [Workers -> WorkerStates]
    <3>1. CASE worker' = [worker EXCEPT ![w].cand = @ \ {n}]
      BY <1>0, <3>1 DEF WorkerStates
    <3>2. ASSUME NEW p \in Pods,
                 worker' = [worker EXCEPT ![w] =
                   [@ EXCEPT !.pc = "write", !.node = n, !.pod = p,
                             !.live = {}, !.cand = {}, !.free = NothingRead]]
          PROVE  worker' \in [Workers -> WorkerStates]
      BY <1>0, <2>3, <2>6, <3>2 DEF WorkerStates
    <3> QED BY <2>2, <3>1, <3>2
  <2> QED BY <1>a, <1>5, <2>5, <2>7 DEF Reserve, nodeKeys, RedisTypeOK, SchedulerTypeOK
<1>6. CASE Unschedulable(w)
  BY <1>0, <1>a, <1>6, IdleTypes
  DEF Unschedulable, redisVars, RedisTypeOK, SchedulerTypeOK
<1>7. CASE AbortPlacement(w)
  BY <1>0, <1>a, <1>7, IdleTypes
  DEF AbortPlacement, redisVars, RedisTypeOK, SchedulerTypeOK
<1>8. CASE WritePod(w)
  <2>1. worker[w].node \in Nodes /\ worker[w].pod \in Pods
    BY <1>8 DEF WritePod, LocalsOK
  <2>2. [exists |-> TRUE, node |-> worker[w].node, status |-> "Pending"] \in PodRecord
    BY <2>1 DEF PodRecord, Statuses
  <2>3. worker' \in [Workers -> WorkerStates]
    BY <1>0, <1>8 DEF WritePod, WorkerStates
  <2> QED BY <1>a, <1>8, <2>1, <2>2, <2>3
          DEF WritePod, nodeKeys, RedisTypeOK, SchedulerTypeOK
<1>9. CASE WritePodFails(w)
  BY <1>0, <1>a, <1>9
  DEF WritePodFails, redisVars, WorkerStates, RedisTypeOK, SchedulerTypeOK
<1>10. CASE ReleaseAfterFailure(w)
  <2>1. worker[w].node \in Nodes /\ worker[w].pod \in Pods /\ worker[w].dep \in Deps
    BY <1>10 DEF ReleaseAfterFailure, LocalsOK
  <2>2. alloc' \in [Nodes -> [Resources -> Nat]]
    <3>1. Released(worker[w].node, Req[worker[w].dep])
            \in [Nodes -> [Resources -> Nat]]
      BY <1>b, <2>1, AllocTypes
    <3> QED BY <1>b, <1>10, <3>1 DEF ReleaseAfterFailure
  <2>3. leaked' \in [Nodes -> SUBSET Pods]
    BY <1>b, <1>10, <2>1 DEF ReleaseAfterFailure
  <2> QED BY <1>0, <1>a, <1>10, <2>2, <2>3, IdleTypes
          DEF ReleaseAfterFailure, nodeKeys, RedisTypeOK, SchedulerTypeOK
<1>11. CASE DispatchStart(w)
  <2>0. [IdleWorker EXCEPT !.pc = "members", !.dep = worker[w].dep,
                            !.left = worker[w].left - 1] \in WorkerStates
         \/ ~(worker[w].left > 1)
    <3>1. worker[w].dep \in Deps
      BY <1>11 DEF DispatchStart, LocalsOK
    <3>2. worker[w].left \in 0 .. MaxCount
      BY <1>0 DEF WorkerStates
    <3>3. worker[w].left > 1 => worker[w].left - 1 \in 0 .. MaxCount
      BY <3>2, CountAssumption
    <3>4. NothingRead \in [Nodes -> [Resources -> Int]]
      BY DEF NothingRead
    <3> QED BY <3>1, <3>3, <3>4 DEF WorkerStates, IdleWorker
  <2>1. worker' \in [Workers -> WorkerStates]
    BY <1>0, <1>11, <2>0, IdleTypes DEF DispatchStart
  <2>2. cmds' \in [Nodes -> Seq(Commands)]
    BY <1>b, <1>11, SentType DEF DispatchStart, LocalsOK
  <2> QED BY <1>a, <1>11, <2>1, <2>2
          DEF DispatchStart, nodeKeys, RedisTypeOK, SchedulerTypeOK
<1> QED
  BY <1>1, <1>2, <1>3, <1>4, <1>5, <1>6, <1>7, <1>8, <1>9, <1>10, <1>11
  DEF SchedulerStep

(* A step of a remover respects the types. *)
LEMMA RemovalTypes ==
  ASSUME TypeOK, LocalsOK, NEW x \in Removers, RemovalStep(x)
  PROVE  RedisTypeOK' /\ RemovalTypeOK'
<1>0. /\ remover \in [Removers -> RemoverStates]
      /\ remover[x] \in RemoverStates
  BY DEF TypeOK, RemovalTypeOK
<1>a. RedisTypeOK
  BY DEF TypeOK
<1>b. /\ pods \in [Pods -> PodRecord]
      /\ alloc \in [Nodes -> [Resources -> Nat]]
      /\ cmds \in [Nodes -> Seq(Commands)]
  BY <1>a DEF RedisTypeOK
<1>c. remover[x].pc # "idle" => remover[x].pod \in Pods /\ remover[x].rec.node \in Nodes
  BY DEF LocalsOK
<1>d. \A p \in Pods, n \in Nodes :
        Released(n, PodReq(p)) \in [Nodes -> [Resources -> Nat]]
  BY <1>b, PodsAssumption, AllocTypes DEF PodReq
<1>1. CASE PickVictim(x) \/ PickEvicted(x)
  <2>1. PICK p \in Pods, c \in {"members", "delete"} :
          remover' = [remover EXCEPT ![x] = [pc |-> c, pod |-> p, rec |-> pods[p]]]
    BY <1>1 DEF PickVictim, PickEvicted
  <2>2. remover' \in [Removers -> RemoverStates]
    BY <1>0, <1>b, <2>1 DEF RemoverStates
  <2>3. UNCHANGED redisVars
    BY <1>1 DEF PickVictim, PickEvicted
  <2> QED BY <1>a, <2>2, <2>3 DEF redisVars, RedisTypeOK, RemovalTypeOK
<1>2. CASE CheckMember(x)
  BY <1>0, <1>a, <1>2 DEF CheckMember, RemoverStates, redisVars, RedisTypeOK, RemovalTypeOK
<1>3. CASE CheckVictimLease(x)
  BY <1>0, <1>a, <1>3
  DEF CheckVictimLease, RemoverStates, redisVars, RedisTypeOK, RemovalTypeOK
<1>4. CASE SendStop(x)
  <2>1. Sent(remover[x].rec.node, "stop", remover[x].pod) \in [Nodes -> Seq(Commands)]
    BY <1>b, <1>c, <1>4, SentType DEF SendStop
  <2> QED BY <1>0, <1>a, <1>4, <2>1, IdleTypes DEF SendStop, RedisTypeOK, RemovalTypeOK
<1>5. CASE ForceRelease(x)
  <2>1. alloc' \in [Nodes -> [Resources -> Nat]]
    BY <1>b, <1>c, <1>d, <1>5 DEF ForceRelease
  <2>2. remover' \in [Removers -> RemoverStates]
    BY <1>0, <1>5 DEF ForceRelease, RemoverStates
  <2> QED BY <1>a, <1>5, <2>1, <2>2 DEF ForceRelease, RedisTypeOK, RemovalTypeOK
<1>6. CASE DeleteRecord(x)
  <2>1. pods' \in [Pods -> PodRecord]
    BY <1>b, <1>6, IdleTypes DEF DeleteRecord
  <2> QED BY <1>0, <1>a, <1>6, <2>1, IdleTypes DEF DeleteRecord, RedisTypeOK, RemovalTypeOK
<1>7. CASE RemovalFails(x)
  BY <1>0, <1>a, <1>7, IdleTypes DEF RemovalFails, redisVars, RedisTypeOK, RemovalTypeOK
<1> QED
  BY <1>1, <1>2, <1>3, <1>4, <1>5, <1>6, <1>7 DEF RemovalStep

(* A step of the health controller respects the types. *)
LEMMA HealthTypes ==
  ASSUME TypeOK, LocalsOK, NEW m \in Monitors, HealthStep(m)
  PROVE  RedisTypeOK' /\ HealthTypeOK'
<1>0. /\ monitor \in [Monitors -> MonitorStates]
      /\ monitor[m] \in MonitorStates
  BY DEF TypeOK, HealthTypeOK
<1>a. RedisTypeOK
  BY DEF TypeOK
<1>1. CASE SweepMember(m)
  BY <1>0, <1>a, <1>1 DEF SweepMember, MonitorStates, redisVars, RedisTypeOK, HealthTypeOK
<1>2. CASE ProbeLease(m)
  BY <1>0, <1>a, <1>2, IdleTypes
  DEF ProbeLease, MonitorStates, redisVars, RedisTypeOK, HealthTypeOK
<1>3. CASE ReceiveExpiry(m)
  BY <1>0, <1>a, <1>3 DEF ReceiveExpiry, MonitorStates, RedisTypeOK, HealthTypeOK
<1>4. CASE RecheckLease(m)
  BY <1>0, <1>a, <1>4, IdleTypes
  DEF RecheckLease, MonitorStates, redisVars, RedisTypeOK, HealthTypeOK
<1>5. CASE Evict(m)
  <2>1. monitor[m].node \in Nodes
    BY <1>5 DEF Evict, LocalsOK
  <2>2. pods' \in [Pods -> PodRecord]
    <3>1. \A p \in Pods : pods[p] \in PodRecord
      BY <1>a DEF RedisTypeOK
    <3>2. \A p \in Pods : WithStatus(pods[p], "Evicted") \in PodRecord
      BY <3>1, WithStatusType DEF Statuses
    <3> QED BY <1>5, <3>1, <3>2 DEF Evict
  <2>3. alloc' \in [Nodes -> [Resources -> Nat]]
    BY <1>a, <1>5, <2>1 DEF Evict, RedisTypeOK
  <2>4. leaked' \in [Nodes -> SUBSET Pods] /\ registry' \subseteq Nodes
    BY <1>a, <1>5, <2>1 DEF Evict, RedisTypeOK
  <2>5. monitor' \in [Monitors -> MonitorStates]
    BY <1>0, <1>5, IdleTypes DEF Evict
  <2> QED BY <1>a, <1>5, <2>2, <2>3, <2>4, <2>5 DEF Evict, RedisTypeOK, HealthTypeOK
<1>6. CASE MonitorFails(m)
  BY <1>0, <1>a, <1>6, IdleTypes DEF MonitorFails, redisVars, RedisTypeOK, HealthTypeOK
<1> QED
  BY <1>1, <1>2, <1>3, <1>4, <1>5, <1>6 DEF HealthStep

(* A step of a node agent respects the types. *)
LEMMA AgentTypes ==
  ASSUME TypeOK, LocalsOK, NEW n \in Nodes, AgentStep(n)
  PROVE  RedisTypeOK' /\ AgentTypeOK'
<1>0. agent \in [Nodes -> AgentStates] /\ agent[n] \in AgentStates
  BY DEF TypeOK, AgentTypeOK
<1>a. RedisTypeOK
  BY DEF TypeOK
<1>b. /\ pods \in [Pods -> PodRecord]
      /\ alloc \in [Nodes -> [Resources -> Nat]]
      /\ cmds \in [Nodes -> Seq(Commands)]
      /\ leaked \in [Nodes -> SUBSET Pods]
  BY <1>a DEF RedisTypeOK
<1>c. agent[n].op # "none" => agent[n].pod \in Pods
  BY DEF LocalsOK
<1>d. PodKeys \in SUBSET Pods /\ Bound(n) \in SUBSET Pods
  BY DEF PodKeys, Bound
<1>e. OpDone(agent[n]) \in AgentStates
  BY <1>0, IdleTypes DEF OpDone, AgentStates
<1>f. \A p \in Pods, s \in Statuses : WithStatus(pods[p], s) \in PodRecord
  BY <1>b, WithStatusType
<1>1. CASE Boot(n)
  BY <1>0, <1>a, <1>1 DEF Boot, AgentStates, redisVars, RedisTypeOK, AgentTypeOK
<1>2. CASE ScanPods(n)
  BY <1>0, <1>a, <1>d, <1>2 DEF ScanPods, AgentStates, redisVars, RedisTypeOK, AgentTypeOK
<1>3. CASE CountPod(n)
  <2>1. PICK p \in agent[n].todo :
          agent' = [agent EXCEPT ![n] =
                      [@ EXCEPT !.todo = agent[n].todo \ {p},
                                !.found = agent[n].found \cup ({p} \cap Bound(n))]]
    BY <1>3 DEF CountPod
  <2>2. agent' \in [Nodes -> AgentStates]
    BY <1>0, <1>d, <2>1 DEF AgentStates
  <2> QED BY <1>a, <1>3, <2>2 DEF CountPod, redisVars, RedisTypeOK, AgentTypeOK
<1>4. CASE PublishCapacity(n)
  <2>1. agent[n].found \in SUBSET Pods
    BY <1>0 DEF AgentStates
  <2>2. [r \in Resources |-> Demand(agent[n].found, r)] \in [Resources -> Nat]
    BY <2>1, DemandType
  <2>3. alloc' \in [Nodes -> [Resources -> Nat]]
    BY <1>b, <1>4, <2>2 DEF PublishCapacity
  <2>4. leaked' \in [Nodes -> SUBSET Pods]
    BY <1>b, <1>4 DEF PublishCapacity
  <2>5. agent' \in [Nodes -> AgentStates]
    BY <1>0, <1>4 DEF PublishCapacity, AgentStates
  <2> QED BY <1>a, <1>4, <2>3, <2>4, <2>5 DEF PublishCapacity, RedisTypeOK, AgentTypeOK
<1>5. CASE JoinRegistry(n)
  BY <1>0, <1>a, <1>5 DEF JoinRegistry, AgentStates, RedisTypeOK, AgentTypeOK
<1>6. CASE FirstHeartbeat(n)
  BY <1>0, <1>a, <1>d, <1>6 DEF FirstHeartbeat, AgentStates, RedisTypeOK, AgentTypeOK
<1>7. CASE AdoptPod(n)
  <2>1. PICK p \in agent[n].todo, next \in {"none", "adopt", "spawn"} :
          \/ agent' = [agent EXCEPT ![n].todo = @ \ {p}]
          \/ agent' = [agent EXCEPT ![n] =
                         [@ EXCEPT !.todo = agent[n].todo \ {p}, !.op = next,
                                   !.pod = IF next = "none" THEN NoPod ELSE p]]
    BY <1>7 DEF AdoptPod
  <2>2. p \in Pods
    BY <1>0 DEF AgentStates
  <2>3. agent' \in [Nodes -> AgentStates]
    <3>1. CASE agent' = [agent EXCEPT ![n].todo = @ \ {p}]
      BY <1>0, <3>1 DEF AgentStates
    <3>2. CASE agent' = [agent EXCEPT ![n] =
                         [@ EXCEPT !.todo = agent[n].todo \ {p}, !.op = next,
                                   !.pod = IF next = "none" THEN NoPod ELSE p]]
      BY <1>0, <2>2, <3>2 DEF AgentStates
    <3> QED BY <2>1, <3>1, <3>2
  <2> QED BY <1>a, <1>7, <2>3 DEF AdoptPod, redisVars, RedisTypeOK, AgentTypeOK
<1>8. CASE AdoptWrite(n)
  <2>1. pods' \in [Pods -> PodRecord]
    BY <1>b, <1>c, <1>f, <1>8 DEF AdoptWrite, Statuses
  <2> QED BY <1>0, <1>a, <1>e, <1>8, <2>1 DEF AdoptWrite, RedisTypeOK, AgentTypeOK
<1>9. CASE StartConsumer(n)
  BY <1>0, <1>a, <1>9 DEF StartConsumer, AgentStates, redisVars, RedisTypeOK, AgentTypeOK
<1>10. CASE PopCommand(n)
  <2>1. cmds[n] \in Seq(Commands) /\ cmds[n] # <<>>
    BY <1>b, <1>10 DEF PopCommand
  <2>2. Head(cmds[n]) \in Commands /\ Tail(cmds[n]) \in Seq(Commands)
    BY <2>1
  <2>3. Head(cmds[n]).pod \in Pods
    BY <2>2 DEF Commands
  <2>4. agent' \in [Nodes -> AgentStates]
    BY <1>0, <1>10, <2>3 DEF PopCommand, AgentStates
  <2>5. cmds' \in [Nodes -> Seq(Commands)]
    BY <1>b, <1>10, <2>2 DEF PopCommand
  <2> QED BY <1>a, <1>10, <2>4, <2>5 DEF PopCommand, RedisTypeOK, AgentTypeOK
<1>11. CASE SpawnRead(n)
  <2>1. [agent[n] EXCEPT !.op = "launch"] \in AgentStates
    BY <1>0 DEF AgentStates
  <2>2. \/ agent' = [agent EXCEPT ![n] = OpDone(agent[n])]
        \/ agent' = [agent EXCEPT ![n] = [agent[n] EXCEPT !.op = "launch"]]
    BY <1>11 DEF SpawnRead
  <2>3. agent' \in [Nodes -> AgentStates]
    BY <1>0, <1>e, <2>1, <2>2
  <2> QED BY <1>a, <1>11, <2>3 DEF SpawnRead, redisVars, RedisTypeOK, AgentTypeOK
<1>12. CASE SpawnWrite(n)
  <2>1. agent[n].pod \in Pods
    BY <1>c, <1>12 DEF SpawnWrite
  <2>2. PICK s \in Statuses :
          \/ pods' = [pods EXCEPT ![agent[n].pod] = WithStatus(pods[agent[n].pod], s)]
          \/ UNCHANGED pods
    BY <1>12 DEF SpawnWrite, Statuses
  <2>3. pods' \in [Pods -> PodRecord]
    BY <1>b, <1>f, <2>1, <2>2
  <2> QED BY <1>0, <1>a, <1>e, <1>12, <2>3 DEF SpawnWrite, RedisTypeOK, AgentTypeOK
<1>13. CASE StopRead(n)
  <2>1. pods[agent[n].pod] \in PodRecord
    BY <1>b, <1>c, <1>13 DEF StopRead
  <2>2. agent' \in [Nodes -> AgentStates]
    BY <1>0, <1>e, <1>13, <2>1 DEF StopRead, AgentStates
  <2> QED BY <1>a, <1>13, <2>2 DEF StopRead, redisVars, RedisTypeOK, AgentTypeOK
<1>14. CASE ClearIdentity(n)
  <2>1. pods' \in [Pods -> PodRecord]
    <3>1. agent[n].pod \in Pods /\ pods[agent[n].pod].status \in Statuses
      BY <1>b, <1>c, <1>14 DEF ClearIdentity, PodRecord
    <3>2. \/ pods' = [pods EXCEPT ![agent[n].pod] =
                         WithStatus(pods[agent[n].pod], pods[agent[n].pod].status)]
          \/ UNCHANGED pods
      BY <1>14 DEF ClearIdentity
    <3> QED BY <1>b, <1>f, <3>1, <3>2
  <2>2. agent' \in [Nodes -> AgentStates]
    BY <1>0, <1>e, <1>14 DEF ClearIdentity, AgentStates
  <2> QED BY <1>a, <1>14, <2>1, <2>2 DEF ClearIdentity, RedisTypeOK, AgentTypeOK
<1>15. CASE ReleaseCapacity(n)
  <2>1. alloc' \in [Nodes -> [Resources -> Nat]]
    <3>1. CASE agent[n].rec.node \in Nodes
      <4>1. agent[n].pod \in Pods /\ DepOf[agent[n].pod] \in Deps
        BY <1>c, <1>15, PodsAssumption DEF ReleaseCapacity
      <4>2. Released(agent[n].rec.node, PodReq(agent[n].pod))
              \in [Nodes -> [Resources -> Nat]]
        BY <1>b, <3>1, <4>1, AllocTypes DEF PodReq
      <4> QED BY <1>b, <1>15, <4>2 DEF ReleaseCapacity
    <3>2. CASE agent[n].rec.node \notin Nodes
      BY <1>a, <1>b, <1>15, <3>2 DEF ReleaseCapacity, Released, RedisTypeOK
    <3> QED BY <3>1, <3>2
  <2>2. agent' \in [Nodes -> AgentStates]
    BY <1>0, <1>15 DEF ReleaseCapacity, AgentStates
  <2> QED BY <1>a, <1>15, <2>1, <2>2 DEF ReleaseCapacity, RedisTypeOK, AgentTypeOK
<1>16. CASE RemoveRecord(n)
  <2>1. pods' \in [Pods -> PodRecord]
    BY <1>b, <1>16, IdleTypes DEF RemoveRecord
  <2> QED BY <1>0, <1>a, <1>e, <1>16, <2>1 DEF RemoveRecord, RedisTypeOK, AgentTypeOK
<1>17. CASE StopFails(n)
  BY <1>0, <1>a, <1>e, <1>17 DEF StopFails, redisVars, RedisTypeOK, AgentTypeOK
<1>18. CASE Heartbeat(n)
  BY <1>0, <1>a, <1>18 DEF Heartbeat, RedisTypeOK, AgentTypeOK
<1>19. CASE LeaseExpires(n)
  BY <1>0, <1>a, <1>19 DEF LeaseExpires, RedisTypeOK, AgentTypeOK
<1>20. CASE AgentDies(n)
  BY <1>0, <1>a, <1>20, IdleTypes DEF AgentDies, redisVars, RedisTypeOK, AgentTypeOK
<1>21. CASE Deregister(n)
  BY <1>0, <1>a, <1>21, IdleTypes DEF Deregister, RedisTypeOK, AgentTypeOK
<1> QED
  BY <1>1, <1>2, <1>3, <1>4, <1>5, <1>6, <1>7, <1>8, <1>9, <1>10, <1>11, <1>12,
     <1>13, <1>14, <1>15, <1>16, <1>17, <1>18, <1>19, <1>20, <1>21
  DEF AgentStep, RegisterStep, ConsumerStep, LeaseStep

--------------------------------------------------------------------------------
(***************************************************************************)
(* What each step does to the locals of the goroutine that takes it, as    *)
(* far as the rest of the invariant looks at them.                         *)
(***************************************************************************)

(* A step that only reads: w holds nothing before it or after it. *)
QuietWorker(w) ==
  /\ worker[w].pc \notin {"write", "rollback", "dispatch"}
  /\ worker'[w].pc \notin {"write", "rollback", "dispatch"}
  /\ worker'[w].pc # "idle" => worker'[w].dep \in Deps
  /\ UNCHANGED redisVars

(* w has reserved p on n. *)
HasReserved(w, n, p) ==
  /\ worker[w].pc = "reserve"
  /\ Fits(n, PodReq(p))
  /\ alloc' = Reserved(n, PodReq(p))
  /\ issued' = issued \cup {p}
  /\ worker'[w].pc = "write"
  /\ worker'[w].node = n
  /\ worker'[w].pod = p
  /\ worker'[w].dep = worker[w].dep
  /\ DepOf[p] = worker[w].dep
  /\ UNCHANGED <<registry, lease, published, expiries, pods, cmds, leaked>>

(* A worker either reads, reserves, or does one of the three things that
   follow a reservation. *)
LEMMA WorkerCases ==
  ASSUME TypeOK, LocalsOK, NEW w \in Workers, SchedulerStep(w)
  PROVE  /\ \A v \in Workers \ {w} : worker'[v] = worker[v]
         /\ \/ QuietWorker(w)
            \/ \E n \in Nodes, p \in Pods \ issued : HasReserved(w, n, p)
            \/ /\ WritePod(w) \/ WritePodFails(w)
               /\ worker'[w].pc = IF WritePod(w) THEN "dispatch" ELSE "rollback"
               /\ worker'[w].node = worker[w].node
               /\ worker'[w].pod = worker[w].pod
               /\ worker'[w].dep = worker[w].dep
            \/ ReleaseAfterFailure(w) /\ worker'[w].pc = "idle"
            \/ /\ DispatchStart(w)
               /\ worker'[w].pc \in {"idle", "members"}
               /\ worker'[w].dep = worker[w].dep \/ worker'[w].pc = "idle"
<1>0. worker \in [Workers -> WorkerStates] /\ worker[w] \in WorkerStates
  BY DEF TypeOK, SchedulerTypeOK
<1>a. worker[w].pc # "idle" => worker[w].dep \in Deps
  BY DEF LocalsOK
<1>1. CASE ScheduleReplicas(w)
  BY <1>0, <1>1 DEF ScheduleReplicas, QuietWorker, IdleWorker
<1>2. CASE ReadRegistry(w)
  BY <1>0, <1>a, <1>2 DEF ReadRegistry, QuietWorker, WorkerStates
<1>3. CASE CheckLease(w)
  BY <1>0, <1>a, <1>3 DEF CheckLease, QuietWorker, WorkerStates
<1>4. CASE ReadCapacity(w)
  BY <1>0, <1>a, <1>4 DEF ReadCapacity, QuietWorker, WorkerStates
<1>5. CASE Reserve(w)
  <2>1. PICK n \in worker[w].cand :
          \/ /\ Fits(n, Req[worker[w].dep])
             /\ alloc' = Reserved(n, Req[worker[w].dep])
             /\ \E p \in Pods \ issued :
                  /\ DepOf[p] = worker[w].dep
                  /\ issued' = issued \cup {p}
                  /\ worker' = [worker EXCEPT ![w] =
                       [@ EXCEPT !.pc = "write", !.node = n, !.pod = p,
                                 !.live = {}, !.cand = {}, !.free = NothingRead]]
          \/ /\ worker' = [worker EXCEPT ![w].cand = @ \ {n}]
             /\ UNCHANGED <<alloc, issued>>
    BY <1>5 DEF Reserve
  <2>2. n \in Nodes
    BY <1>0 DEF WorkerStates
  <2>3. CASE worker' = [worker EXCEPT ![w].cand = @ \ {n}] /\ UNCHANGED <<alloc, issued>>
    BY <1>0, <1>a, <1>5, <2>3
    DEF Reserve, QuietWorker, nodeKeys, redisVars, WorkerStates
  <2>4. ASSUME NEW p \in Pods \ issued,
               Fits(n, Req[worker[w].dep]),
               alloc' = Reserved(n, Req[worker[w].dep]),
               DepOf[p] = worker[w].dep,
               issued' = issued \cup {p},
               worker' = [worker EXCEPT ![w] =
                       [@ EXCEPT !.pc = "write", !.node = n, !.pod = p,
                                 !.live = {}, !.cand = {}, !.free = NothingRead]]
        PROVE  HasReserved(w, n, p) /\ \A v \in Workers \ {w} : worker'[v] = worker[v]
    BY <1>0, <1>5, <2>4 DEF Reserve, HasReserved, PodReq, nodeKeys, WorkerStates
  <2> QED BY <2>1, <2>2, <2>3, <2>4
<1>6. CASE Unschedulable(w) \/ AbortPlacement(w)
  BY <1>0, <1>6 DEF Unschedulable, AbortPlacement, QuietWorker, IdleWorker
<1>7. CASE WritePod(w)
  BY <1>0, <1>7 DEF WritePod, WorkerStates
<1>8. CASE WritePodFails(w)
  <2>1. ~ WritePod(w)
    BY <1>0, <1>8 DEF WritePod, WritePodFails, WorkerStates
  <2> QED BY <1>0, <1>8, <2>1 DEF WritePodFails, WorkerStates
<1>9. CASE ReleaseAfterFailure(w)
  BY <1>0, <1>9 DEF ReleaseAfterFailure, IdleWorker
<1>10. CASE DispatchStart(w)
  BY <1>0, <1>10 DEF DispatchStart, IdleWorker
<1> QED
  BY <1>1, <1>2, <1>3, <1>4, <1>5, <1>6, <1>7, <1>8, <1>9, <1>10 DEF SchedulerStep

(* A step of a worker leaves every goroutine knowing what it works on. *)
LEMMA SchedulerLocals ==
  ASSUME TypeOK, LocalsOK, NEW w \in Workers, SchedulerStep(w),
         UNCHANGED <<remover, monitor, agent>>
  PROVE  LocalsOK'
<1>1. \A v \in Workers :
        /\ worker'[v].pc # "idle" => worker'[v].dep \in Deps
        /\ worker'[v].pc \in {"write", "rollback", "dispatch"} =>
             worker'[v].node \in Nodes /\ worker'[v].pod \in Pods
  BY WorkerCases
  DEF LocalsOK, QuietWorker, HasReserved, WritePod, WritePodFails, DispatchStart
<1> QED
  BY <1>1 DEF LocalsOK

(* Likewise for a remover. *)
LEMMA RemovalLocals ==
  ASSUME TypeOK, LocalsOK, NEW x \in Removers, RemovalStep(x),
         UNCHANGED <<worker, monitor, agent>>
  PROVE  LocalsOK'
<1>0. remover \in [Removers -> RemoverStates] /\ pods \in [Pods -> PodRecord]
  BY DEF TypeOK, RemovalTypeOK, RedisTypeOK
<1>1. \A y \in Removers : remover'[y].pc # "idle" =>
        remover'[y].pod \in Pods /\ remover'[y].rec.node \in Nodes
  BY <1>0
  DEF LocalsOK, RemovalStep, PickVictim, PickEvicted, CheckMember, CheckVictimLease,
      SendStop, ForceRelease, DeleteRecord, RemovalFails, IdleRemover, RemoverStates,
      PodRecord, Readable
<1> QED
  BY <1>1 DEF LocalsOK

(* Likewise for the health controller. *)
LEMMA HealthLocals ==
  ASSUME TypeOK, LocalsOK, NEW m \in Monitors, HealthStep(m),
         UNCHANGED <<worker, remover, agent>>
  PROVE  LocalsOK'
<1>0. /\ monitor \in [Monitors -> MonitorStates]
      /\ registry \subseteq Nodes
      /\ expiries \subseteq Nodes
  BY DEF TypeOK, HealthTypeOK, RedisTypeOK
<1>1. \A k \in Monitors : monitor'[k].pc # "idle" => monitor'[k].node \in Nodes
  BY <1>0
  DEF LocalsOK, HealthStep, SweepMember, ProbeLease, ReceiveExpiry, RecheckLease,
      Evict, MonitorFails, IdleMonitor, MonitorStates
<1> QED
  BY <1>1 DEF LocalsOK

(* The agent goes on with what it was doing, if anything. *)
SameOp(n) ==
  /\ agent'[n].op = agent[n].op
  /\ agent'[n].pod = agent[n].pod
  /\ agent'[n].rec = agent[n].rec

(* The agent moves on to op o with the same pod and the record c. *)
NextOp(n, o, c) ==
  /\ agent[n].op # "none"
  /\ agent'[n].op = o
  /\ agent'[n].pod = agent[n].pod
  /\ agent'[n].rec = c

(* An agent that has finished an operation is free. *)
LEMMA OpDoneFree ==
  ASSUME TypeOK, NEW n \in Nodes, agent' = [agent EXCEPT ![n] = OpDone(agent[n])]
  PROVE  /\ \A k \in Nodes \ {n} : agent'[k] = agent[k]
         /\ agent'[n].op = "none"
  BY DEF TypeOK, AgentTypeOK, OpDone, AgentStates

(* What a node agent works on after a step: nothing, the same as before, a
   pod on record at this node, or the head of its queue. *)
LEMMA AgentCases ==
  ASSUME TypeOK, LocalsOK, NEW n \in Nodes, AgentStep(n)
  PROVE  /\ \A k \in Nodes \ {n} : agent'[k] = agent[k]
         /\ \/ SameOp(n)
            \/ agent'[n].op = "none"
            \/ /\ AdoptPod(n)
               /\ agent'[n].op \in {"adopt", "spawn"}
               /\ agent'[n].pod \in Bound(n)
            \/ /\ PopCommand(n)
               /\ agent'[n].op \in {"spawn", "stop"}
               /\ agent'[n].pod = Head(cmds[n]).pod
            \/ SpawnRead(n) /\ NextOp(n, "launch", agent[n].rec)
            \/ /\ StopRead(n) /\ NextOp(n, "purge", agent[n].rec)
               /\ pods[agent[n].pod].exists /\ ~ Readable(pods[agent[n].pod])
            \/ /\ StopRead(n) /\ NextOp(n, "clear", pods[agent[n].pod])
               /\ Readable(pods[agent[n].pod])
            \/ ClearIdentity(n) /\ NextOp(n, "release", agent[n].rec)
            \/ ReleaseCapacity(n) /\ NextOp(n, "delete", agent[n].rec)
<1>0. agent \in [Nodes -> AgentStates] /\ agent[n] \in AgentStates
  BY DEF TypeOK, AgentTypeOK
<1>1. CASE Boot(n)
  BY <1>0, <1>1 DEF Boot, SameOp, AgentStates
<1>2. CASE ScanPods(n)
  BY <1>0, <1>2 DEF ScanPods, SameOp, AgentStates
<1>3. CASE CountPod(n)
  BY <1>0, <1>3 DEF CountPod, SameOp, AgentStates
<1>4. CASE PublishCapacity(n)
  BY <1>0, <1>4 DEF PublishCapacity, SameOp, AgentStates
<1>5. CASE JoinRegistry(n)
  BY <1>0, <1>5 DEF JoinRegistry, SameOp, AgentStates
<1>6. CASE FirstHeartbeat(n)
  BY <1>0, <1>6 DEF FirstHeartbeat, SameOp, AgentStates
<1>7. CASE AdoptPod(n)
  <2>1. PICK p \in agent[n].todo :
          \/ agent' = [agent EXCEPT ![n].todo = @ \ {p}]
          \/ /\ p \in Bound(n)
             /\ \E next \in {"none", "adopt", "spawn"} :
                  agent' = [agent EXCEPT ![n] =
                    [@ EXCEPT !.todo = agent[n].todo \ {p}, !.op = next,
                              !.pod = IF next = "none" THEN NoPod ELSE p]]
    BY <1>7 DEF AdoptPod
  <2>2. CASE agent' = [agent EXCEPT ![n].todo = @ \ {p}]
    BY <1>0, <2>2 DEF SameOp, AgentStates
  <2>3. ASSUME p \in Bound(n), NEW next \in {"none", "adopt", "spawn"},
               agent' = [agent EXCEPT ![n] =
                 [@ EXCEPT !.todo = agent[n].todo \ {p}, !.op = next,
                           !.pod = IF next = "none" THEN NoPod ELSE p]]
        PROVE  /\ \A k \in Nodes \ {n} : agent'[k] = agent[k]
               /\ \/ agent'[n].op = "none"
                  \/ agent'[n].op \in {"adopt", "spawn"} /\ agent'[n].pod \in Bound(n)
    BY <1>0, <2>3 DEF AgentStates
  <2> QED BY <1>7, <2>1, <2>2, <2>3
<1>8. CASE AdoptWrite(n) \/ SpawnWrite(n) \/ RemoveRecord(n) \/ StopFails(n)
  <2>1. agent' = [agent EXCEPT ![n] = OpDone(agent[n])]
    BY <1>8 DEF AdoptWrite, SpawnWrite, RemoveRecord, StopFails
  <2> QED BY <2>1, OpDoneFree
<1>9. CASE StartConsumer(n)
  BY <1>0, <1>9 DEF StartConsumer, SameOp, AgentStates
<1>10. CASE PopCommand(n)
  BY <1>0, <1>10 DEF PopCommand, AgentStates
<1>11. CASE SpawnRead(n)
  <2>1. CASE agent' = [agent EXCEPT ![n] = OpDone(agent[n])]
    BY <2>1, OpDoneFree
  <2>2. CASE agent' = [agent EXCEPT ![n].op = "launch"]
    BY <1>0, <1>11, <2>2 DEF SpawnRead, NextOp, AgentStates
  <2> QED BY <1>11, <2>1, <2>2 DEF SpawnRead
<1>12. CASE StopRead(n)
  <2>1. \/ agent' = [agent EXCEPT ![n] = OpDone(agent[n])]
        \/ /\ agent' = [agent EXCEPT ![n] = [agent[n] EXCEPT !.op = "purge"]]
           /\ pods[agent[n].pod].exists /\ ~ Readable(pods[agent[n].pod])
        \/ /\ agent' = [agent EXCEPT ![n] =
                          [agent[n] EXCEPT !.op = "clear", !.rec = pods[agent[n].pod]]]
           /\ Readable(pods[agent[n].pod])
    BY <1>12 DEF StopRead
  <2>2. agent[n].op # "none"
    BY <1>12 DEF StopRead
  <2>3. CASE agent' = [agent EXCEPT ![n] = OpDone(agent[n])]
    BY <2>3, OpDoneFree
  <2>4. CASE /\ agent' = [agent EXCEPT ![n] = [agent[n] EXCEPT !.op = "purge"]]
             /\ pods[agent[n].pod].exists /\ ~ Readable(pods[agent[n].pod])
    BY <1>0, <1>12, <2>2, <2>4 DEF NextOp, AgentStates
  <2>5. CASE /\ agent' = [agent EXCEPT ![n] =
                  [agent[n] EXCEPT !.op = "clear", !.rec = pods[agent[n].pod]]]
             /\ Readable(pods[agent[n].pod])
    BY <1>0, <1>12, <2>2, <2>5 DEF NextOp, AgentStates
  <2> QED BY <2>1, <2>3, <2>4, <2>5
<1>13. CASE ClearIdentity(n)
  <2>1. \/ agent' = [agent EXCEPT ![n] = OpDone(agent[n])]
        \/ agent' = [agent EXCEPT ![n].op = "release"]
    BY <1>13 DEF ClearIdentity
  <2>2. agent[n].op # "none"
    BY <1>13 DEF ClearIdentity
  <2>3. CASE agent' = [agent EXCEPT ![n] = OpDone(agent[n])]
    BY <2>3, OpDoneFree
  <2>4. CASE agent' = [agent EXCEPT ![n].op = "release"]
    BY <1>0, <1>13, <2>2, <2>4 DEF NextOp, AgentStates
  <2> QED BY <2>1, <2>3, <2>4
<1>14. CASE ReleaseCapacity(n)
  <2>1. agent' = [agent EXCEPT ![n].op = "delete"] /\ agent[n].op # "none"
    BY <1>14 DEF ReleaseCapacity
  <2> QED BY <1>0, <1>14, <2>1 DEF NextOp, AgentStates
<1>15. CASE Heartbeat(n) \/ LeaseExpires(n)
  BY <1>15 DEF Heartbeat, LeaseExpires, SameOp
<1>16. CASE AgentDies(n) \/ Deregister(n)
  BY <1>0, <1>16 DEF AgentDies, Deregister, DownAgent
<1> QED
  BY <1>1, <1>2, <1>3, <1>4, <1>5, <1>6, <1>7, <1>8, <1>9, <1>10, <1>11, <1>12,
     <1>13, <1>14, <1>15, <1>16
  DEF AgentStep, RegisterStep, ConsumerStep, LeaseStep

(* A step of a node agent leaves every goroutine knowing what it works on. *)
LEMMA AgentLocals ==
  ASSUME TypeOK, LocalsOK, NEW n \in Nodes, AgentStep(n),
         UNCHANGED <<worker, remover, monitor>>
  PROVE  LocalsOK'
<1>1. \A k \in Nodes : agent'[k].op # "none" => agent'[k].pod \in Pods
  <2>1. PopCommand(n) => Head(cmds[n]).pod \in Pods
    <3>1. PopCommand(n) => cmds[n] \in Seq(Commands) /\ cmds[n] # <<>>
      BY DEF TypeOK, RedisTypeOK, PopCommand
    <3>2. PopCommand(n) => Head(cmds[n]) \in Commands
      BY <3>1
    <3> QED BY <3>2 DEF Commands
  <2>2. Bound(n) \subseteq Pods
    BY DEF Bound
  <2> QED BY <2>1, <2>2, AgentCases DEF LocalsOK, SameOp, NextOp
<1> QED
  BY <1>1 DEF LocalsOK

(* The type invariant, with what the goroutines know of their work, is
   preserved by every step. *)
LEMMA TypeStep ==
  TypeOK /\ LocalsOK /\ [Next]_vars => TypeOK' /\ LocalsOK'
<1> SUFFICES ASSUME TypeOK, LocalsOK, [Next]_vars
             PROVE  TypeOK' /\ LocalsOK'
  OBVIOUS
<1>1. ASSUME NEW w \in Workers, SchedulerStep(w), UNCHANGED <<remover, monitor, agent>>
      PROVE  TypeOK' /\ LocalsOK'
  BY <1>1, SchedulerTypes, SchedulerLocals
  DEF TypeOK, RemovalTypeOK, HealthTypeOK, AgentTypeOK
<1>2. ASSUME NEW x \in Removers, RemovalStep(x), UNCHANGED <<worker, monitor, agent>>
      PROVE  TypeOK' /\ LocalsOK'
  BY <1>2, RemovalTypes, RemovalLocals
  DEF TypeOK, SchedulerTypeOK, HealthTypeOK, AgentTypeOK
<1>3. ASSUME NEW m \in Monitors, HealthStep(m), UNCHANGED <<worker, remover, agent>>
      PROVE  TypeOK' /\ LocalsOK'
  BY <1>3, HealthTypes, HealthLocals
  DEF TypeOK, SchedulerTypeOK, RemovalTypeOK, AgentTypeOK
<1>4. CASE LoseExpiry /\ UNCHANGED <<worker, remover, agent>>
  BY <1>4 DEF LoseExpiry, TypeOK, RedisTypeOK, SchedulerTypeOK, RemovalTypeOK,
              HealthTypeOK, AgentTypeOK, LocalsOK
<1>5. ASSUME NEW n \in Nodes, AgentStep(n), UNCHANGED <<worker, remover, monitor>>
      PROVE  TypeOK' /\ LocalsOK'
  BY <1>5, AgentTypes, AgentLocals
  DEF TypeOK, SchedulerTypeOK, RemovalTypeOK, HealthTypeOK
<1>6. CASE ControlPlaneCrash
  <2>1. \A n \in Nodes : InFlight(n) \subseteq Pods
    BY DEF InFlight, Holding, LocalsOK
  <2>2. leaked' \in [Nodes -> SUBSET Pods]
    BY <1>6, <2>1 DEF ControlPlaneCrash, WorkersDie, TypeOK, RedisTypeOK
  <2>3. RedisTypeOK'
    BY <1>6, <2>2 DEF ControlPlaneCrash, TypeOK, RedisTypeOK
  <2>4. SchedulerTypeOK' /\ RemovalTypeOK' /\ HealthTypeOK' /\ AgentTypeOK'
    BY <1>6, IdleTypes
    DEF ControlPlaneCrash, WorkersDie, RemoversDie, MonitorsDie, TypeOK,
        SchedulerTypeOK, RemovalTypeOK, HealthTypeOK, AgentTypeOK
  <2>5. LocalsOK'
    BY <1>6
    DEF ControlPlaneCrash, WorkersDie, RemoversDie, MonitorsDie, LocalsOK,
        IdleWorker, IdleRemover, IdleMonitor
  <2> QED BY <2>3, <2>4, <2>5 DEF TypeOK
<1>7. CASE UNCHANGED vars
  BY <1>7 DEF vars, redisVars, TypeOK, RedisTypeOK, SchedulerTypeOK, RemovalTypeOK,
              HealthTypeOK, AgentTypeOK, LocalsOK
<1> QED
  BY <1>1, <1>2, <1>3, <1>4, <1>5, <1>6, <1>7 DEF Next

(* The initial state is well typed and every goroutine idle. *)
LEMMA TypeInit ==
  Init => TypeOK /\ LocalsOK
<1> SUFFICES ASSUME Init PROVE TypeOK /\ LocalsOK
  OBVIOUS
<1>1. RedisTypeOK
  <2>1. pods \in [Pods -> PodRecord]
    BY IdleTypes DEF Init, RedisInit
  <2>2. cmds \in [Nodes -> Seq(Commands)]
    BY DEF Init, RedisInit
  <2> QED BY <2>1, <2>2 DEF Init, RedisInit, RedisTypeOK
<1>2. SchedulerTypeOK /\ RemovalTypeOK /\ HealthTypeOK /\ AgentTypeOK
  BY IdleTypes
  DEF Init, SchedulerInit, RemovalInit, HealthInit, AgentInit, SchedulerTypeOK,
      RemovalTypeOK, HealthTypeOK, AgentTypeOK
<1>3. LocalsOK
  BY DEF Init, SchedulerInit, RemovalInit, HealthInit, AgentInit, LocalsOK,
         IdleWorker, IdleRemover, IdleMonitor, DownAgent, ServingAgent
<1> QED
  BY <1>1, <1>2, <1>3 DEF TypeOK

(* The keys in Redis and the locals of every goroutine keep their types, in
   particular no counter a capacity script or an agent writes is negative. *)
THEOREM TypeCorrect == Spec => []TypeOK
  BY TypeInit, TypeStep, PTL DEF Spec
================================================================================
