---------------------------- MODULE AccountingProofs ----------------------------
(***************************************************************************)
(* Proof that the capacity counters of a stable node are exact, and that   *)
(* it is never overcommitted, for every set of nodes, pods, deployments    *)
(* and goroutines: IInv of Cluster is inductive.                           *)
(***************************************************************************)
EXTENDS ClusterProofs

(***************************************************************************)
(* Whose pod is whose.                                                     *)
(***************************************************************************)

(* A remover leaves the records alone, or deletes its victim's. *)
LEMMA RemoverPods ==
  ASSUME NEW x \in Removers, RemovalStep(x)
  PROVE  \/ UNCHANGED pods
         \/ DeleteRecord(x) /\ pods' = [pods EXCEPT ![remover[x].pod] = Absent]
  BY DEF RemovalStep, PickVictim, PickEvicted, CheckMember, CheckVictimLease, SendStop,
         ForceRelease, DeleteRecord, RemovalFails, redisVars

(* What an agent does to a record: it sets the status... *)
SetStatus(n, s) ==
  /\ agent[n].op # "none"
  /\ s # "Evicted" \/ s = pods[agent[n].pod].status
  /\ pods' = [pods EXCEPT ![agent[n].pod] = WithStatus(pods[agent[n].pod], s)]

(* ... or deletes it. *)
Deleted(n) ==
  /\ RemoveRecord(n)
  /\ pods' = [pods EXCEPT ![agent[n].pod] = Absent]

(* An agent does nothing else to the records. *)
LEMMA AgentPods ==
  ASSUME TypeOK, LocalsOK, NEW n \in Nodes, AgentStep(n)
  PROVE  UNCHANGED pods \/ Deleted(n) \/ \E s \in Statuses : SetStatus(n, s)
<1>1. CASE AdoptWrite(n)
  BY <1>1 DEF AdoptWrite, SetStatus, Statuses
<1>2. CASE SpawnWrite(n)
  BY <1>2 DEF SpawnWrite, SetStatus, Statuses
<1>3. CASE ClearIdentity(n)
  <2>1. agent[n].op # "none" /\ agent[n].pod \in Pods
    BY <1>3 DEF ClearIdentity, LocalsOK
  <2>2. pods[agent[n].pod] \in PodRecord
    BY <2>1 DEF TypeOK, RedisTypeOK
  <2>3. pods[agent[n].pod].status \in Statuses
    BY <2>2 DEF PodRecord
  <2>4. \/ UNCHANGED pods
        \/ SetStatus(n, pods[agent[n].pod].status)
    BY <1>3, <2>1 DEF ClearIdentity, SetStatus
  <2> QED BY <2>3, <2>4
<1>4. CASE RemoveRecord(n)
  BY <1>4 DEF RemoveRecord, Deleted
<1>5. CASE ~(AdoptWrite(n) \/ SpawnWrite(n) \/ ClearIdentity(n) \/ RemoveRecord(n))
  BY <1>5
  DEF AgentStep, RegisterStep, ConsumerStep, LeaseStep, redisVars, Boot, ScanPods,
      CountPod, PublishCapacity, JoinRegistry, FirstHeartbeat, AdoptPod,
      StartConsumer, PopCommand, SpawnRead, StopRead, ReleaseCapacity, StopFails,
      Heartbeat, LeaseExpires, AgentDies, Deregister
<1> QED
  BY <1>1, <1>2, <1>3, <1>4, <1>5

(* The node of a record is written once, by the worker that reserved it;
   afterwards it can only be deleted. *)
LEMMA RecordNodes ==
  ASSUME TypeOK, LocalsOK, Next, NEW p \in Pods
  PROVE  \/ pods'[p].node \in {pods[p].node, NoNode}
         \/ \E w \in Workers : WritePod(w) /\ p = worker[w].pod
<1>0. pods \in [Pods -> PodRecord]
  BY DEF TypeOK, RedisTypeOK
<1>1. ASSUME NEW w \in Workers, SchedulerStep(w)
      PROVE  UNCHANGED pods \/ WritePod(w)
  BY <1>1, WorkerCases
  DEF QuietWorker, redisVars, HasReserved, WritePodFails, ReleaseAfterFailure, DispatchStart
<1>2. ASSUME NEW w \in Workers, WritePod(w), p # worker[w].pod
      PROVE  pods'[p] = pods[p]
  BY <1>0, <1>2 DEF WritePod
<1>3. ASSUME NEW x \in Removers, RemovalStep(x)
      PROVE  pods'[p].node \in {pods[p].node, NoNode}
  <2>1. CASE UNCHANGED pods
    BY <2>1
  <2>2. CASE pods' = [pods EXCEPT ![remover[x].pod] = Absent]
    BY <1>0, <2>2 DEF Absent
  <2> QED BY <1>3, <2>1, <2>2, RemoverPods
<1>4. ASSUME NEW m \in Monitors, HealthStep(m)
      PROVE  pods'[p].node \in {pods[p].node, NoNode}
  <2>1. CASE Evict(m)
    BY <1>0, <2>1 DEF Evict, WithStatus
  <2>2. CASE ~ Evict(m)
    BY <1>4, <2>2
    DEF HealthStep, SweepMember, ProbeLease, ReceiveExpiry, RecheckLease,
        MonitorFails, redisVars
  <2> QED BY <2>1, <2>2
<1>5. ASSUME NEW n \in Nodes, AgentStep(n)
      PROVE  pods'[p].node \in {pods[p].node, NoNode}
  <2>1. CASE UNCHANGED pods
    BY <2>1
  <2>2. CASE pods' = [pods EXCEPT ![agent[n].pod] = Absent]
    BY <1>0, <2>2 DEF Absent
  <2>3. ASSUME NEW s \in Statuses, SetStatus(n, s)
        PROVE  pods'[p].node \in {pods[p].node, NoNode}
    BY <1>0, <2>3 DEF SetStatus, WithStatus
  <2> QED BY <1>5, <2>1, <2>2, <2>3, AgentPods DEF Deleted
<1>6. LoseExpiry \/ ControlPlaneCrash => UNCHANGED pods
  BY DEF LoseExpiry, ControlPlaneCrash
<1> QED
  BY <1>1, <1>2, <1>3, <1>4, <1>5, <1>6 DEF Next

(* A reservation appears with a fresh id and stays what it was while it is in
   flight. *)
LEMMA Holdings ==
  ASSUME TypeOK, LocalsOK, Next
  PROVE  /\ issued \subseteq issued'
         /\ \A v \in Workers : Holding(v)' =>
              \/ /\ Holding(v)
                 /\ worker'[v].pod = worker[v].pod
                 /\ worker'[v].node = worker[v].node
                 /\ worker'[v].dep = worker[v].dep
              \/ /\ worker'[v].pod \in issued' \ issued
                 /\ worker'[v].dep = DepOf[worker'[v].pod]
                 /\ \A u \in Workers \ {v} : worker'[u] = worker[u]
<1>1. ASSUME NEW w \in Workers, SchedulerStep(w), NEW v \in Workers, Holding(v)'
      PROVE  \/ /\ Holding(v)
                /\ worker'[v].pod = worker[v].pod
                /\ worker'[v].node = worker[v].node
                /\ worker'[v].dep = worker[v].dep
             \/ /\ worker'[v].pod \in issued' \ issued
                /\ worker'[v].dep = DepOf[worker'[v].pod]
                /\ \A u \in Workers \ {v} : worker'[u] = worker[u]
  <2>1. CASE v # w
    BY <1>1, <2>1, WorkerCases DEF Holding
  <2>2. CASE v = w
    BY <1>1, <2>2, WorkerCases
    DEF Holding, QuietWorker, HasReserved, WritePod, WritePodFails
  <2> QED BY <2>1, <2>2
<1>2. ASSUME NEW w \in Workers, SchedulerStep(w)
      PROVE  issued \subseteq issued'
  BY <1>2, WorkerCases
  DEF QuietWorker, redisVars, HasReserved, WritePod, WritePodFails,
      ReleaseAfterFailure, DispatchStart
<1>3. ASSUME NEW x \in Removers, RemovalStep(x) PROVE UNCHANGED issued
  BY <1>3
  DEF RemovalStep, PickVictim, PickEvicted, CheckMember, CheckVictimLease, SendStop,
      ForceRelease, DeleteRecord, RemovalFails, redisVars
<1>4. ASSUME NEW m \in Monitors, HealthStep(m) PROVE UNCHANGED issued
  BY <1>4
  DEF HealthStep, SweepMember, ProbeLease, ReceiveExpiry, RecheckLease, Evict,
      MonitorFails, redisVars
<1>5. ASSUME NEW n \in Nodes, AgentStep(n) PROVE UNCHANGED issued
  BY <1>5
  DEF AgentStep, RegisterStep, ConsumerStep, LeaseStep, redisVars, Boot, ScanPods,
      CountPod, PublishCapacity, JoinRegistry, FirstHeartbeat, AdoptPod, AdoptWrite,
      StartConsumer, PopCommand, SpawnRead, SpawnWrite, StopRead, ClearIdentity,
      ReleaseCapacity, RemoveRecord, StopFails, Heartbeat, LeaseExpires, AgentDies,
      Deregister
<1>6. ControlPlaneCrash => UNCHANGED issued /\ \A v \in Workers : ~ Holding(v)'
  BY DEF ControlPlaneCrash, WorkersDie, Holding, IdleWorker
<1>7. UNCHANGED worker => \A v \in Workers : Holding(v)' = Holding(v)
  BY DEF Holding
<1>8. LoseExpiry => UNCHANGED issued
  BY DEF LoseExpiry
<1> QED
  BY <1>1, <1>2, <1>3, <1>4, <1>5, <1>6, <1>7, <1>8 DEF Next

(* A pod that has left the hands of its worker never returns to one, and a
   pod that belongs to a node goes on belonging to it. *)
LEMMA Persistence ==
  ASSUME TypeOK, LocalsOK, ReservationsOK, Next, NEW p \in Pods
  PROVE  /\ Settled(p) => Settled(p)'
         /\ \A n \in Nodes : At(p, n) => At(p, n)'
         /\ Settled(p) /\ pods[p].node = NoNode => pods'[p].node = NoNode
<1>1. Settled(p) => Settled(p)'
  BY Holdings DEF Settled
<1>2. ASSUME NEW w \in Workers, WritePod(w), p = worker[w].pod PROVE ~ Settled(p)
  BY <1>2 DEF WritePod, Holding, Settled
<1> QED
  BY <1>1, <1>2, RecordNodes DEF At

(* A reservation is lost by the worker that held it, when its rollback fails
   or when the control plane crashes. *)
LEMMA NewlyLeaked ==
  ASSUME TypeOK, LocalsOK, Next, NEW n \in Nodes, NEW p \in leaked'[n] \ leaked[n]
  PROVE  \E w \in Workers :
           /\ Holding(w) /\ p = worker[w].pod /\ worker[w].node = n
           /\ ~ Holding(w)' /\ UNCHANGED pods /\ issued' = issued
<1>0. leaked \in [Nodes -> SUBSET Pods]
  BY DEF TypeOK, RedisTypeOK
<1>1. ASSUME NEW w \in Workers, SchedulerStep(w)
      PROVE  /\ Holding(w) /\ p = worker[w].pod /\ worker[w].node = n
             /\ ~ Holding(w)' /\ UNCHANGED pods /\ issued' = issued
  <2>1. leaked' # leaked
    OBVIOUS
  <2>2. ReleaseAfterFailure(w) /\ worker'[w].pc = "idle"
    BY <1>1, <2>1, WorkerCases
    DEF QuietWorker, redisVars, HasReserved, WritePod, WritePodFails, DispatchStart
  <2>3. leaked' = [leaked EXCEPT ![worker[w].node] =
                      leaked[worker[w].node] \cup {worker[w].pod}]
    BY <2>1, <2>2 DEF ReleaseAfterFailure
  <2>4. worker[w].node = n /\ p = worker[w].pod
    BY <1>0, <2>3
  <2> QED BY <2>2, <2>4 DEF ReleaseAfterFailure, Holding
<1>2. ASSUME NEW x \in Removers, RemovalStep(x) PROVE FALSE
  <2>1. UNCHANGED leaked
    BY <1>2
    DEF RemovalStep, PickVictim, PickEvicted, CheckMember, CheckVictimLease, SendStop,
        ForceRelease, DeleteRecord, RemovalFails, redisVars
  <2> QED BY <2>1
<1>3. ASSUME NEW m \in Monitors, HealthStep(m) PROVE FALSE
  <2>1. CASE Evict(m)
    BY <1>0, <2>1 DEF Evict
  <2>2. CASE ~ Evict(m)
    BY <1>3, <2>2
    DEF HealthStep, SweepMember, ProbeLease, ReceiveExpiry, RecheckLease,
        MonitorFails, redisVars
  <2> QED BY <2>1, <2>2
<1>4. ASSUME NEW k \in Nodes, AgentStep(k) PROVE FALSE
  <2>1. CASE PublishCapacity(k)
    BY <1>0, <2>1 DEF PublishCapacity
  <2>2. CASE ~ PublishCapacity(k)
    <3>1. UNCHANGED leaked
      BY <1>4, <2>2
      DEF AgentStep, RegisterStep, ConsumerStep, LeaseStep, redisVars, Boot, ScanPods,
          CountPod, JoinRegistry, FirstHeartbeat, AdoptPod, AdoptWrite, StartConsumer,
          PopCommand, SpawnRead, SpawnWrite, StopRead, ClearIdentity, ReleaseCapacity,
          RemoveRecord, StopFails, Heartbeat, LeaseExpires, AgentDies, Deregister
    <3> QED BY <3>1
  <2> QED BY <2>1, <2>2
<1>5. CASE LoseExpiry
  BY <1>5 DEF LoseExpiry
<1>6. CASE ControlPlaneCrash
  <2>1. p \in InFlight(n)
    BY <1>0, <1>6 DEF ControlPlaneCrash, WorkersDie
  <2>2. PICK w \in Workers : Holding(w) /\ worker[w].node = n /\ p = worker[w].pod
    BY <2>1 DEF InFlight
  <2>3. ~ Holding(w)' /\ UNCHANGED pods /\ issued' = issued
    BY <1>6 DEF ControlPlaneCrash, WorkersDie, Holding, IdleWorker
  <2> QED BY <2>2, <2>3
<1> QED
  BY <1>1, <1>2, <1>3, <1>4, <1>5, <1>6 DEF Next

(* A reservation in flight or lost stays one for a pod that is not on record. *)
LEMMA ReservationsStep ==
  ASSUME TypeOK, LocalsOK, ReservationsOK, Next
  PROVE  ReservationsOK'
<1>1. \A p \in Pods : pods'[p].node # NoNode => Settled(p)'
  <2> SUFFICES ASSUME NEW p \in Pods, pods'[p].node # NoNode PROVE Settled(p)'
    OBVIOUS
  <2>1. CASE pods[p].node # NoNode
    BY <2>1, Persistence DEF ReservationsOK
  <2>2. CASE pods[p].node = NoNode
    <3>1. PICK w \in Workers : WritePod(w) /\ p = worker[w].pod
      BY <2>2, RecordNodes
    <3>2. Holding(w) /\ p \in issued
      BY <3>1 DEF WritePod, Holding, ReservationsOK
    <3>3. worker' = [worker EXCEPT ![w].pc = "dispatch"] /\ issued' = issued
      BY <3>1 DEF WritePod
    <3>4. ~ Holding(w)' /\ \A v \in Workers \ {w} : worker'[v] = worker[v]
      BY <3>3 DEF Holding, TypeOK, SchedulerTypeOK, WorkerStates
    <3>5. \A v \in Workers : Holding(v)' => worker'[v].pod # p
      BY <3>1, <3>2, <3>4 DEF Holding, ReservationsOK
    <3> QED BY <3>2, <3>3, <3>5 DEF Settled
  <2> QED BY <2>1, <2>2
<1>2. \A w \in Workers : Holding(w)' =>
        /\ worker'[w].pod \in issued'
        /\ worker'[w].dep = DepOf[worker'[w].pod]
  BY Holdings DEF ReservationsOK
<1>3. \A v, w \in Workers :
        Holding(v)' /\ Holding(w)' /\ worker'[v].pod = worker'[w].pod => v = w
  <2> SUFFICES ASSUME NEW v \in Workers, NEW w \in Workers, Holding(v)', Holding(w)',
                      worker'[v].pod = worker'[w].pod, v # w
               PROVE  FALSE
    OBVIOUS
  <2>1. CASE worker'[v].pod \in issued' \ issued
    BY <2>1, Holdings DEF ReservationsOK, Holding
  <2>2. CASE worker'[v].pod \notin issued' \ issued
    BY <2>2, Holdings DEF ReservationsOK
  <2> QED BY <2>1, <2>2
<1>4. \A n \in Nodes : \A p \in leaked'[n] : Settled(p)' /\ pods'[p].node = NoNode
  <2> SUFFICES ASSUME NEW n \in Nodes, NEW p \in leaked'[n]
               PROVE  Settled(p)' /\ pods'[p].node = NoNode
    OBVIOUS
  <2>0. p \in Pods
    BY TypeStep DEF TypeOK, RedisTypeOK
  <2>1. CASE p \in leaked[n]
    <3>1. Settled(p) /\ pods[p].node = NoNode
      BY <2>1 DEF ReservationsOK
    <3>2. ~ \E w \in Workers : WritePod(w) /\ p = worker[w].pod
      BY <3>1 DEF Settled, WritePod, Holding
    <3> QED BY <2>0, <3>1, <3>2, Persistence, RecordNodes
  <2>2. CASE p \notin leaked[n]
    <3>1. PICK w \in Workers :
            /\ Holding(w) /\ p = worker[w].pod
            /\ ~ Holding(w)' /\ UNCHANGED pods /\ issued' = issued
      BY <2>2, NewlyLeaked
    <3>2. p \in issued /\ ~ Settled(p)
      BY <3>1 DEF ReservationsOK, Settled
    <3>3. pods[p].node = NoNode
      BY <2>0, <3>2 DEF ReservationsOK
    <3>4. \A v \in Workers : Holding(v)' => worker'[v].pod # p
      BY <3>1, <3>2, Holdings DEF ReservationsOK
    <3> QED BY <3>1, <3>2, <3>3, <3>4 DEF Settled
  <2> QED BY <2>1, <2>2
<1> QED
  BY <1>1, <1>2, <1>3, <1>4 DEF ReservationsOK

(* A pod on record belongs to the node of its record. *)
LEMMA RecordedAt ==
  ASSUME ReservationsOK, NEW p \in Pods, pods[p].node # NoNode
  PROVE  At(p, pods[p].node)
  BY DEF ReservationsOK, At

(* Every command a step leaves in a queue is for a pod of that node. *)
LEMMA QueueSources ==
  ASSUME TypeOK, LocalsOK, ReferencesOK, Next,
         NEW n \in Nodes, NEW i \in DOMAIN cmds'[n]
  PROVE  At(cmds'[n][i].pod, n)
<1>0. cmds \in [Nodes -> Seq(Commands)] /\ cmds[n] \in Seq(Commands)
  BY DEF TypeOK, RedisTypeOK
<1>1. CASE UNCHANGED cmds
  BY <1>1 DEF ReferencesOK
<1>2. ASSUME NEW k \in Nodes, NEW t \in {"start", "stop"}, NEW p \in Pods,
             At(p, k), cmds' = Sent(k, t, p)
      PROVE  At(cmds'[n][i].pod, n)
  <2>1. CASE n # k
    <3>1. cmds'[n] = cmds[n]
      BY <1>0, <1>2, <2>1 DEF Sent
    <3> QED BY <3>1 DEF ReferencesOK
  <2>2. CASE n = k
    <3>1. cmds'[n] = Append(cmds[n], [type |-> t, pod |-> p])
      BY <1>0, <1>2, <2>2 DEF Sent
    <3>2. CASE i \in DOMAIN cmds[n]
      <4>1. cmds'[n][i] = cmds[n][i]
        BY <1>0, <3>1, <3>2
      <4> QED BY <3>2, <4>1 DEF ReferencesOK
    <3>3. CASE i \notin DOMAIN cmds[n]
      <4>1. cmds'[n][i] = [type |-> t, pod |-> p]
        BY <1>0, <3>1, <3>3
      <4> QED BY <1>2, <2>2, <4>1
    <3> QED BY <3>2, <3>3
  <2> QED BY <2>1, <2>2
<1>3. ASSUME NEW k \in Nodes, PopCommand(k)
      PROVE  At(cmds'[n][i].pod, n)
  <2>1. CASE n # k
    <3>1. cmds'[n] = cmds[n]
      BY <1>0, <1>3, <2>1 DEF PopCommand
    <3> QED BY <3>1 DEF ReferencesOK
  <2>2. CASE n = k
    <3>1. cmds'[n] = Tail(cmds[n]) /\ cmds[n] # <<>>
      BY <1>0, <1>3, <2>2 DEF PopCommand
    <3>2. i + 1 \in DOMAIN cmds[n] /\ cmds'[n][i] = cmds[n][i + 1]
      BY <1>0, <3>1
    <3> QED BY <3>2 DEF ReferencesOK
  <2> QED BY <2>1, <2>2
<1>4. ASSUME NEW w \in Workers, SchedulerStep(w)
      PROVE  At(cmds'[n][i].pod, n)
  <2>1. CASE DispatchStart(w)
    <3>1. /\ worker[w].node \in Nodes /\ worker[w].pod \in Pods
          /\ At(worker[w].pod, worker[w].node)
      BY <2>1 DEF DispatchStart, LocalsOK, ReferencesOK
    <3>2. UNCHANGED cmds \/ cmds' = Sent(worker[w].node, "start", worker[w].pod)
      BY <2>1 DEF DispatchStart
    <3> QED BY <1>1, <1>2, <3>1, <3>2
  <2>2. CASE ~ DispatchStart(w)
    <3>1. UNCHANGED cmds
      BY <1>4, <2>2, WorkerCases
      DEF QuietWorker, redisVars, HasReserved, WritePod, WritePodFails,
          ReleaseAfterFailure
    <3> QED BY <1>1, <3>1
  <2> QED BY <2>1, <2>2
<1>5. ASSUME NEW x \in Removers, RemovalStep(x)
      PROVE  At(cmds'[n][i].pod, n)
  <2>1. CASE SendStop(x)
    <3>1. /\ remover[x].rec.node \in Nodes /\ remover[x].pod \in Pods
          /\ At(remover[x].pod, remover[x].rec.node)
      BY <2>1 DEF SendStop, LocalsOK, ReferencesOK
    <3>2. cmds' = Sent(remover[x].rec.node, "stop", remover[x].pod)
      BY <2>1 DEF SendStop
    <3> QED BY <1>2, <3>1, <3>2
  <2>2. CASE ~ SendStop(x)
    <3>1. UNCHANGED cmds
      BY <1>5, <2>2
      DEF RemovalStep, PickVictim, PickEvicted, CheckMember, CheckVictimLease,
          ForceRelease, DeleteRecord, RemovalFails, redisVars
    <3> QED BY <1>1, <3>1
  <2> QED BY <2>1, <2>2
<1>6. ASSUME NEW m \in Monitors, HealthStep(m) PROVE UNCHANGED cmds
  BY <1>6
  DEF HealthStep, SweepMember, ProbeLease, ReceiveExpiry, RecheckLease, Evict,
      MonitorFails, redisVars
<1>7. ASSUME NEW k \in Nodes, AgentStep(k), ~ PopCommand(k) PROVE UNCHANGED cmds
  BY <1>7
  DEF AgentStep, RegisterStep, ConsumerStep, LeaseStep, redisVars, Boot, ScanPods,
      CountPod, PublishCapacity, JoinRegistry, FirstHeartbeat, AdoptPod, AdoptWrite,
      StartConsumer, SpawnRead, SpawnWrite, StopRead, ClearIdentity,
      ReleaseCapacity, RemoveRecord, StopFails, Heartbeat, LeaseExpires, AgentDies,
      Deregister
<1>8. LoseExpiry \/ ControlPlaneCrash => UNCHANGED cmds
  BY DEF LoseExpiry, ControlPlaneCrash
<1> QED
  BY <1>1, <1>3, <1>4, <1>5, <1>6, <1>7, <1>8 DEF Next

(* A remover keeps its victim, or has just read one. *)
LEMMA RemoverCases ==
  ASSUME TypeOK, Next, NEW y \in Removers, remover'[y].pc # "idle"
  PROVE  \/ /\ remover'[y].pod = remover[y].pod /\ remover'[y].rec = remover[y].rec
            /\ remover[y].pc # "idle"
         \/ remover'[y].rec = pods[remover'[y].pod]
<1>0. remover \in [Removers -> RemoverStates]
  BY DEF TypeOK, RemovalTypeOK
<1>1. CASE remover'[y] = remover[y]
  BY <1>1
<1>2. ASSUME NEW x \in Removers, RemovalStep(x), remover'[y] # remover[y]
      PROVE  \/ /\ remover'[y].pod = remover[y].pod /\ remover'[y].rec = remover[y].rec
                /\ remover[y].pc # "idle"
             \/ remover'[y].rec = pods[remover'[y].pod]
  <2>1. CASE PickVictim(x)
    BY <1>0, <1>2, <2>1 DEF PickVictim
  <2>2. CASE PickEvicted(x)
    BY <1>0, <1>2, <2>2 DEF PickEvicted
  <2>3. CASE CheckMember(x) \/ CheckVictimLease(x) \/ ForceRelease(x)
    BY <1>0, <1>2, <2>3 DEF CheckMember, CheckVictimLease, ForceRelease, RemoverStates
  <2>4. CASE SendStop(x) \/ DeleteRecord(x) \/ RemovalFails(x)
    BY <1>0, <1>2, <2>4 DEF SendStop, DeleteRecord, RemovalFails, IdleRemover
  <2> QED BY <1>2, <2>1, <2>2, <2>3, <2>4 DEF RemovalStep
<1>3. ~ ControlPlaneCrash
  BY DEF ControlPlaneCrash, RemoversDie, IdleRemover
<1> QED
  BY <1>1, <1>2, <1>3 DEF Next

(* What an agent takes up belongs to it, and what it is about to release is a
   reservation on itself. *)
LEMMA AgentSources ==
  ASSUME TypeOK, LocalsOK, ReservationsOK, ReferencesOK, Next, NEW n \in Nodes,
         agent'[n].op # "none"
  PROVE  /\ At(agent'[n].pod, n)
         /\ agent'[n].op \in {"clear", "release", "delete"} => agent'[n].rec.node = n
         /\ agent'[n].op = "purge" => pods[agent'[n].pod].node = NoNode
<1>0. agent \in [Nodes -> AgentStates] /\ agent[n] \in AgentStates
  BY DEF TypeOK, AgentTypeOK
<1>1. CASE SameOp(n)
  BY <1>1 DEF SameOp, ReferencesOK
<1>2. CASE ~ SameOp(n)
  <2>1. AgentStep(n)
    BY <1>2, AgentCases DEF Next, ControlPlaneCrash, SameOp
  <2>2. CASE /\ agent'[n].op \in {"adopt", "spawn"}
             /\ agent'[n].pod \in Bound(n)
    BY <2>2, RecordedAt, NodesAssumption DEF Bound
  <2>3. CASE /\ PopCommand(n)
             /\ agent'[n].op \in {"spawn", "stop"}
             /\ agent'[n].pod = Head(cmds[n]).pod
    <3>1. cmds[n] \in Seq(Commands) /\ cmds[n] # <<>>
      BY <2>3 DEF PopCommand, TypeOK, RedisTypeOK
    <3>2. 1 \in DOMAIN cmds[n] /\ Head(cmds[n]) = cmds[n][1]
      BY <3>1
    <3> QED BY <2>3, <3>2 DEF ReferencesOK
  <2>4. CASE NextOp(n, "launch", agent[n].rec)
    BY <2>4 DEF NextOp, ReferencesOK
  <2>8. CASE /\ NextOp(n, "purge", agent[n].rec)
             /\ ~ Readable(pods[agent[n].pod]) /\ pods[agent[n].pod].exists
    BY <2>8 DEF NextOp, ReferencesOK, Readable
  <2>5. CASE NextOp(n, "clear", pods[agent[n].pod]) /\ Readable(pods[agent[n].pod])
    <3>1. At(agent[n].pod, n)
      BY <2>5 DEF NextOp, ReferencesOK
    <3>2. pods[agent[n].pod].node = n
      BY <2>5, <3>1 DEF At, Readable
    <3> QED BY <2>5, <3>1, <3>2 DEF NextOp
  <2>6. CASE ClearIdentity(n) /\ NextOp(n, "release", agent[n].rec)
    BY <2>6 DEF ClearIdentity, NextOp, ReferencesOK
  <2>7. CASE ReleaseCapacity(n) /\ NextOp(n, "delete", agent[n].rec)
    BY <2>7 DEF ReleaseCapacity, NextOp, ReferencesOK
  <2> QED BY <1>2, <2>1, <2>2, <2>3, <2>4, <2>5, <2>6, <2>7, <2>8, AgentCases
<1> QED
  BY <1>1, <1>2

(* Whatever a goroutine or a queue refers to goes on belonging to the node it
   will act on. *)
LEMMA ReferencesStep ==
  ASSUME TypeOK, LocalsOK, ReservationsOK, ReferencesOK, Next
  PROVE  ReferencesOK'
<1>a. TypeOK' /\ LocalsOK'
  BY TypeStep
<1>b. ReservationsOK'
  BY ReservationsStep
<1>1. ASSUME NEW v \in Workers, worker'[v].pc = "dispatch"
      PROVE  At(worker[v].pod, worker[v].node)'
  <2>0. PICK p \in Pods, n \in Nodes : p = worker'[v].pod /\ n = worker'[v].node
    BY <1>a, <1>1 DEF LocalsOK
  <2>1. At(p, n)'
    <3>1. CASE worker'[v] = worker[v]
      <4>1. At(p, n)
        BY <1>1, <2>0, <3>1 DEF ReferencesOK
      <4> QED BY <4>1, Persistence
    <3>2. CASE worker'[v] # worker[v]
      <4>1. SchedulerStep(v)
        BY <1>1, <3>2, WorkerCases DEF Next, LoseExpiry, ControlPlaneCrash, WorkersDie, IdleWorker
      <4>2. WritePod(v) /\ p = worker[v].pod /\ n = worker[v].node
        BY <1>1, <2>0, <4>1, WorkerCases DEF QuietWorker, HasReserved
      <4>3. pods'[p].node = n
        BY <4>2 DEF WritePod, TypeOK, RedisTypeOK
      <4>4. Settled(p)'
        BY <1>b, <4>3, NodesAssumption DEF ReservationsOK
      <4> QED BY <4>3, <4>4 DEF At
    <3> QED BY <3>1, <3>2
  <2> QED BY <2>0, <2>1 DEF At, Settled
<1>2. ASSUME NEW n \in Nodes, NEW i \in DOMAIN cmds'[n]
      PROVE  At(cmds[n][i].pod, n)'
  <2>1. cmds'[n] \in Seq(Commands)
    BY <1>a DEF TypeOK, RedisTypeOK
  <2>2. cmds'[n][i] \in Commands
    BY <2>1
  <2>3. PICK p \in Pods : p = cmds'[n][i].pod
    BY <2>2 DEF Commands
  <2>4. At(p, n)
    BY <2>3, QueueSources DEF At, Settled
  <2>5. At(p, n)'
    BY <2>4, Persistence
  <2> QED BY <2>3, <2>5 DEF At, Settled
<1>3. ASSUME NEW y \in Removers, remover'[y].pc # "idle"
      PROVE  At(remover[y].pod, remover[y].rec.node)'
  <2>0. PICK p \in Pods, n \in Nodes : p = remover'[y].pod /\ n = remover'[y].rec.node
    BY <1>a, <1>3 DEF LocalsOK
  <2>1. At(p, n)
    <3>1. CASE /\ remover'[y].pod = remover[y].pod /\ remover'[y].rec = remover[y].rec
               /\ remover[y].pc # "idle"
      BY <2>0, <3>1 DEF ReferencesOK
    <3>2. CASE remover'[y].rec = pods[remover'[y].pod]
      BY <2>0, <3>2, RecordedAt, NodesAssumption
    <3> QED BY <1>3, <3>1, <3>2, RemoverCases
  <2>2. At(p, n)'
    BY <2>1, Persistence
  <2> QED BY <2>0, <2>2 DEF At, Settled
<1>4. ASSUME NEW n \in Nodes, agent'[n].op # "none"
      PROVE  /\ At(agent[n].pod, n)'
             /\ agent'[n].op \in {"clear", "release", "delete"} => agent'[n].rec.node = n
             /\ agent'[n].op = "purge" => pods'[agent'[n].pod].node = NoNode
  <2>0. PICK p \in Pods : p = agent'[n].pod
    BY <1>a, <1>4 DEF LocalsOK
  <2>1. /\ At(p, n)
        /\ agent'[n].op \in {"clear", "release", "delete"} => agent'[n].rec.node = n
        /\ agent'[n].op = "purge" => pods[p].node = NoNode
    BY <1>4, <2>0, AgentSources DEF At, Settled
  <2>2. At(p, n)'
    BY <2>1, Persistence
  <2>3. agent'[n].op = "purge" => pods'[p].node = NoNode
    BY <2>1, Persistence DEF At
  <2> QED BY <2>0, <2>1, <2>2, <2>3 DEF At, Settled
<1>5. \A n \in Nodes :
        /\ agent'[n].op \in {"clear", "release", "delete"} => agent'[n].rec.node = n
        /\ agent'[n].op = "purge" => pods'[agent'[n].pod].node = NoNode
  <2> SUFFICES ASSUME NEW n \in Nodes,
                      agent'[n].op \in {"clear", "release", "delete", "purge"}
               PROVE  /\ agent'[n].op \in {"clear", "release", "delete"} =>
                           agent'[n].rec.node = n
                      /\ agent'[n].op = "purge" => pods'[agent'[n].pod].node = NoNode
    OBVIOUS
  <2>1. agent'[n].op # "none"
    OBVIOUS
  <2> QED BY <1>4, <2>1
<1> QED
  BY <1>1, <1>2, <1>3, <1>4, <1>5 DEF ReferencesOK

--------------------------------------------------------------------------------
(***************************************************************************)
(* Nobody takes a stable node for dead.                                    *)
(***************************************************************************)

(* The record of a pod on a stable node is deleted by that node's agent only. *)
LEMMA StableRecord ==
  ASSUME TypeOK, LocalsOK, ReservationsOK, ReferencesOK, StableOK, Next,
         NEW n \in Stable, NEW p \in Pods, pods[p].node = n
  PROVE  pods'[p].node = n \/ (Deleted(n) /\ p = agent[n].pod)
<1>0. pods \in [Pods -> PodRecord] /\ n # NoNode /\ n \in Nodes /\ n \notin Flaky
  BY NodesAssumption DEF TypeOK, RedisTypeOK, Stable
<1>1. Settled(p)
  BY <1>0 DEF ReservationsOK
<1>2. ASSUME NEW w \in Workers, SchedulerStep(w) PROVE pods'[p] = pods[p]
  <2>1. CASE WritePod(w)
    <3>1. p # worker[w].pod
      BY <1>1, <2>1 DEF Settled, WritePod, Holding
    <3> QED BY <1>0, <2>1, <3>1 DEF WritePod
  <2>2. CASE ~ WritePod(w)
    BY <1>2, <2>2, WorkerCases
    DEF QuietWorker, redisVars, HasReserved, WritePodFails, ReleaseAfterFailure,
        DispatchStart
  <2> QED BY <2>1, <2>2
<1>3. ASSUME NEW x \in Removers, RemovalStep(x) PROVE pods'[p] = pods[p]
  <2>1. CASE DeleteRecord(x) /\ pods' = [pods EXCEPT ![remover[x].pod] = Absent]
    <3>1. At(remover[x].pod, remover[x].rec.node) /\ remover[x].rec.node \in Flaky
      BY <2>1 DEF DeleteRecord, ReferencesOK, StableOK
    <3>2. remover[x].pod # p
      BY <1>0, <3>1 DEF At
    <3> QED BY <1>0, <2>1, <3>2
  <2> QED BY <1>3, <2>1, RemoverPods
<1>4. ASSUME NEW m \in Monitors, HealthStep(m) PROVE pods'[p].node = n
  <2>1. CASE Evict(m)
    BY <1>0, <2>1 DEF Evict, WithStatus
  <2>2. CASE ~ Evict(m)
    BY <1>4, <2>2
    DEF HealthStep, SweepMember, ProbeLease, ReceiveExpiry, RecheckLease,
        MonitorFails, redisVars
  <2> QED BY <2>1, <2>2
<1>5. ASSUME NEW k \in Nodes, AgentStep(k)
      PROVE  pods'[p].node = n \/ (Deleted(n) /\ p = agent[n].pod)
  <2>1. CASE UNCHANGED pods
    BY <2>1
  <2>2. CASE Deleted(k)
    <3>1. agent[k].op # "none" /\ At(agent[k].pod, k)
      BY <2>2 DEF Deleted, RemoveRecord, ReferencesOK
    <3>2. CASE agent[k].pod # p
      BY <1>0, <2>2, <3>2 DEF Deleted
    <3>3. CASE agent[k].pod = p
      <4>1. k = n
        BY <1>0, <3>1, <3>3 DEF At
      <4> QED BY <2>2, <3>3, <4>1
    <3> QED BY <3>2, <3>3
  <2>3. ASSUME NEW s \in Statuses, SetStatus(k, s) PROVE pods'[p].node = n
    BY <1>0, <2>3 DEF SetStatus, WithStatus
  <2> QED BY <1>5, <2>1, <2>2, <2>3, AgentPods
<1>6. LoseExpiry \/ ControlPlaneCrash => UNCHANGED pods
  BY DEF LoseExpiry, ControlPlaneCrash
<1> QED
  BY <1>2, <1>3, <1>4, <1>5, <1>6 DEF Next

(* The pods of a stable node are not evicted. *)
LEMMA StableNotEvicted ==
  ASSUME TypeOK, LocalsOK, ReservationsOK, ReferencesOK, StableOK, Next,
         NEW p \in Pods, pods'[p].node \in Stable
  PROVE  pods'[p].status # "Evicted"
<1>0. pods \in [Pods -> PodRecord] /\ NoNode \notin Stable
  BY NodesAssumption DEF TypeOK, RedisTypeOK, Stable
<1>1. CASE pods'[p] = pods[p]
  BY <1>1 DEF StableOK
<1>2. ASSUME NEW w \in Workers, SchedulerStep(w), pods'[p] # pods[p]
      PROVE  pods'[p].status # "Evicted"
  <2>1. WritePod(w)
    BY <1>2, WorkerCases
    DEF QuietWorker, redisVars, HasReserved, WritePodFails, ReleaseAfterFailure,
        DispatchStart
  <2> QED BY <1>0, <1>2, <2>1 DEF WritePod
<1>3. ASSUME NEW x \in Removers, RemovalStep(x), pods'[p] # pods[p]
      PROVE  FALSE
  <2>1. pods' = [pods EXCEPT ![remover[x].pod] = Absent]
    BY <1>3, RemoverPods
  <2>2. pods'[p] = Absent
    BY <1>0, <1>3, <2>1
  <2>3. Absent.node = NoNode
    BY DEF Absent
  <2> QED BY <1>0, <2>2, <2>3
<1>4. ASSUME NEW m \in Monitors, HealthStep(m), pods'[p] # pods[p]
      PROVE  FALSE
  <2>1. Evict(m)
    BY <1>4
    DEF HealthStep, SweepMember, ProbeLease, ReceiveExpiry, RecheckLease,
        MonitorFails, redisVars
  <2>2. monitor[m].node \in Flaky
    BY <2>1 DEF Evict, StableOK
  <2>3. pods'[p] = WithStatus(pods[p], "Evicted") /\ pods[p].node = monitor[m].node
    BY <1>0, <1>4, <2>1 DEF Evict
  <2> QED BY <2>2, <2>3 DEF WithStatus, Stable
<1>5. ASSUME NEW k \in Nodes, AgentStep(k), pods'[p] # pods[p]
      PROVE  pods'[p].status # "Evicted"
  <2>1. CASE Deleted(k)
    <3>1. pods'[p] = Absent
      BY <1>0, <1>5, <2>1 DEF Deleted
    <3>2. Absent.status # "Evicted"
      BY DEF Absent
    <3> QED BY <3>1, <3>2
  <2>2. ASSUME NEW s \in Statuses, SetStatus(k, s)
        PROVE  pods'[p].status # "Evicted"
    <3>1. p = agent[k].pod /\ pods'[p] = WithStatus(pods[p], s)
      BY <1>0, <1>5, <2>2 DEF SetStatus
    <3>2. pods[p].node \in Stable
      BY <3>1 DEF WithStatus
    <3> QED BY <2>2, <3>1, <3>2 DEF SetStatus, WithStatus, StableOK
  <2> QED BY <1>5, <2>1, <2>2, AgentPods
<1>6. LoseExpiry \/ ControlPlaneCrash => UNCHANGED pods
  BY DEF LoseExpiry, ControlPlaneCrash
<1> QED
  BY <1>1, <1>2, <1>3, <1>4, <1>5, <1>6 DEF Next

(* An agent touches no lease but its own, and only a flaky one loses it or
   stops serving. *)
LEMMA AgentKeys ==
  ASSUME TypeOK, LocalsOK, NEW k \in Nodes, AgentStep(k)
  PROVE  /\ registry \subseteq registry' /\ published \subseteq published'
         /\ lease \ {k} \subseteq lease' /\ expiries' \subseteq expiries \cup {k}
         /\ k \notin Flaky =>
              /\ lease \subseteq lease' /\ expiries' = expiries
              /\ agent[k].phase = "serve" => agent'[k].phase = "serve"
<1>0. agent \in [Nodes -> AgentStates] /\ agent[k] \in AgentStates
  BY DEF TypeOK, AgentTypeOK
<1>1. CASE RegisterStep(k)
  <2>1. CASE AdoptWrite(k)
    BY <1>0, <2>1 DEF AdoptWrite, OpDone, AgentStates
  <2>2. CASE ~ AdoptWrite(k)
    BY <1>0, <1>1, <2>2
    DEF RegisterStep, Boot, ScanPods, CountPod, PublishCapacity, JoinRegistry,
        FirstHeartbeat, AdoptPod, StartConsumer, redisVars
  <2> QED BY <2>1, <2>2
<1>2. CASE ConsumerStep(k)
  <2>1. UNCHANGED <<registry, lease, published, expiries>>
    BY <1>2
    DEF ConsumerStep, PopCommand, SpawnRead, SpawnWrite, StopRead, ClearIdentity,
        ReleaseCapacity, RemoveRecord, StopFails, redisVars
  <2>2. OpDone(agent[k]).phase = agent[k].phase
    BY <1>0 DEF OpDone, AgentStates
  <2>3. CASE agent' = [agent EXCEPT ![k] = OpDone(agent[k])]
    BY <1>0, <2>1, <2>2, <2>3
  <2>4. CASE \E o : agent' = [agent EXCEPT ![k].op = o]
    BY <1>0, <2>1, <2>4 DEF AgentStates
  <2>5. CASE PopCommand(k)
    BY <1>0, <2>1, <2>5 DEF PopCommand, AgentStates
  <2>6. CASE StopRead(k)
    BY <1>0, <2>1, <2>2, <2>6 DEF StopRead, AgentStates
  <2> QED BY <1>2, <2>3, <2>4, <2>5, <2>6
          DEF ConsumerStep, SpawnRead, SpawnWrite, ClearIdentity, ReleaseCapacity,
              RemoveRecord, StopFails
<1>3. CASE LeaseStep(k)
  BY <1>0, <1>3
  DEF LeaseStep, Heartbeat, LeaseExpires, AgentDies, Deregister, redisVars
<1> QED
  BY <1>1, <1>2, <1>3 DEF AgentStep

(* A stable node stays registered, leased and serving. *)
LEMMA StablePresence ==
  ASSUME TypeOK, LocalsOK, StableOK, Next
  PROVE  /\ (Stable \subseteq registry \cap lease \cap published)'
         /\ expiries' \subseteq Flaky
         /\ \A n \in Stable : agent'[n].phase = "serve"
<1>0. agent \in [Nodes -> AgentStates]
  BY DEF TypeOK, AgentTypeOK
<1>1. ASSUME NEW w \in Workers, SchedulerStep(w)
      PROVE  UNCHANGED <<registry, lease, published, expiries>>
  BY <1>1, WorkerCases
  DEF QuietWorker, redisVars, nodeKeys, HasReserved, WritePod, WritePodFails,
      ReleaseAfterFailure, DispatchStart
<1>2. ASSUME NEW x \in Removers, RemovalStep(x)
      PROVE  UNCHANGED <<registry, lease, published, expiries>>
  BY <1>2
  DEF RemovalStep, PickVictim, PickEvicted, CheckMember, CheckVictimLease, SendStop,
      ForceRelease, DeleteRecord, RemovalFails, redisVars
<1>3. ASSUME NEW m \in Monitors, HealthStep(m)
      PROVE  /\ Stable \subseteq registry' \cap lease' \cap published'
             /\ expiries' \subseteq Flaky
  BY <1>3
  DEF HealthStep, SweepMember, ProbeLease, ReceiveExpiry, RecheckLease, Evict,
      MonitorFails, redisVars, StableOK, Stable
<1>4. ASSUME NEW k \in Nodes, AgentStep(k)
      PROVE  /\ Stable \subseteq registry' \cap lease' \cap published'
             /\ expiries' \subseteq Flaky
             /\ \A n \in Stable : agent'[n].phase = "serve"
  <2>1. CASE k \in Flaky
    <3>1. \A n \in Stable : agent'[n] = agent[n]
      BY <1>4, <2>1, AgentCases DEF Stable
    <3>2. registry \subseteq registry' /\ published \subseteq published'
      BY <1>4, AgentKeys
    <3>3. lease \ {k} \subseteq lease' /\ expiries' \subseteq expiries \cup {k}
      BY <1>4, AgentKeys
    <3> QED BY <2>1, <3>1, <3>2, <3>3 DEF StableOK, Stable
  <2>2. CASE k \notin Flaky
    <3>1. agent[k].phase = "serve" /\ agent[k] \in AgentStates
      BY <1>0, <2>2 DEF StableOK, Stable
    <3>2. agent'[k].phase = "serve"
      BY <1>4, <2>2, <3>1, AgentKeys
    <3>3. \A n \in Nodes \ {k} : agent'[n] = agent[n]
      BY <1>4, AgentCases
    <3>4. /\ registry \subseteq registry' /\ published \subseteq published'
          /\ lease \subseteq lease' /\ expiries' = expiries
      BY <1>4, <2>2, AgentKeys
    <3> QED BY <3>2, <3>3, <3>4 DEF StableOK, Stable
  <2> QED BY <2>1, <2>2
<1>5. LoseExpiry => /\ UNCHANGED <<registry, lease, published>>
                    /\ expiries' \subseteq expiries
  BY DEF LoseExpiry
<1>6. ControlPlaneCrash => UNCHANGED <<registry, lease, published, expiries, agent>>
  BY DEF ControlPlaneCrash
<1> QED
  BY <1>1, <1>2, <1>3, <1>4, <1>5, <1>6 DEF Next, StableOK

(* A monitor goes on from its first check only with a node without a lease. *)
LEMMA StableMonitors ==
  ASSUME TypeOK, LocalsOK, StableOK, Next, NEW k \in Monitors,
         monitor'[k].pc \in {"recheck", "evict"}
  PROVE  monitor'[k].node \in Flaky
<1>0. monitor \in [Monitors -> MonitorStates]
  BY DEF TypeOK, HealthTypeOK
<1>1. CASE monitor'[k] = monitor[k]
  BY <1>1 DEF StableOK
<1>2. ASSUME NEW m \in Monitors, HealthStep(m), monitor'[k] # monitor[k]
      PROVE  monitor'[k].node \in Flaky
  <2>1. CASE ProbeLease(m)
    <3>1. k = m /\ monitor[m].node \notin lease /\ monitor'[k].node = monitor[m].node
      BY <1>0, <1>2, <2>1 DEF ProbeLease, IdleMonitor, MonitorStates
    <3>2. monitor[m].node \in Nodes
      BY <2>1 DEF ProbeLease, LocalsOK
    <3> QED BY <3>1, <3>2 DEF StableOK, Stable
  <2>2. CASE ReceiveExpiry(m)
    BY <1>0, <1>2, <2>2 DEF ReceiveExpiry, StableOK
  <2>3. CASE RecheckLease(m)
    <3>1. k = m /\ monitor'[k].node = monitor[m].node
      BY <1>0, <1>2, <2>3 DEF RecheckLease, IdleMonitor, MonitorStates
    <3> QED BY <2>3, <3>1 DEF RecheckLease, StableOK
  <2>4. CASE SweepMember(m) \/ Evict(m) \/ MonitorFails(m)
    BY <1>0, <1>2, <2>4 DEF SweepMember, Evict, MonitorFails, IdleMonitor
  <2> QED BY <1>2, <2>1, <2>2, <2>3, <2>4 DEF HealthStep
<1>3. ~ LoseExpiry \/ monitor'[k] = monitor[k]
  BY DEF LoseExpiry
<1>4. ~ ControlPlaneCrash
  BY DEF ControlPlaneCrash, MonitorsDie, IdleMonitor
<1> QED
  BY <1>1, <1>2, <1>3, <1>4 DEF Next

(* A remover acts on its own only on the pods of a node it found dead. *)
LEMMA StableRemovers ==
  ASSUME TypeOK, LocalsOK, StableOK, Next, NEW y \in Removers,
         remover'[y].pc \in {"release", "delete"}
  PROVE  remover'[y].rec.node \in Flaky
<1>0. remover \in [Removers -> RemoverStates] /\ pods \in [Pods -> PodRecord]
  BY DEF TypeOK, RemovalTypeOK, RedisTypeOK
<1>1. CASE remover'[y] = remover[y]
  BY <1>1 DEF StableOK
<1>2. ASSUME NEW x \in Removers, RemovalStep(x), remover'[y] # remover[y]
      PROVE  remover'[y].rec.node \in Flaky
  <2>0. y = x
    BY <1>0, <1>2
    DEF RemovalStep, PickVictim, PickEvicted, CheckMember, CheckVictimLease, SendStop,
        ForceRelease, DeleteRecord, RemovalFails
  <2>1. CASE PickEvicted(x)
    <3>1. PICK p \in Pods :
            /\ Readable(pods[p]) /\ pods[p].status = "Evicted"
            /\ remover' = [remover EXCEPT ![x] =
                             [pc |-> "delete", pod |-> p, rec |-> pods[p]]]
      BY <2>1 DEF PickEvicted
    <3>2. remover'[y].rec = pods[p]
      BY <1>0, <2>0, <3>1
    <3>3. pods[p].node \in Nodes /\ pods[p].node \notin Stable
      BY <1>0, <3>1 DEF Readable, PodRecord, StableOK
    <3> QED BY <3>2, <3>3 DEF Stable
  <2>2. CASE CheckMember(x) \/ CheckVictimLease(x)
    <3>1. remover[x].rec.node \in Nodes /\ remover'[y].rec = remover[x].rec
      BY <1>0, <2>0, <2>2 DEF CheckMember, CheckVictimLease, LocalsOK, RemoverStates
    <3>2. remover[x].rec.node \notin registry \cap lease
      BY <1>0, <2>0, <2>2 DEF CheckMember, CheckVictimLease, RemoverStates
    <3> QED BY <3>1, <3>2 DEF StableOK, Stable
  <2>3. CASE ForceRelease(x)
    <3>1. remover'[y].rec = remover[x].rec
      BY <1>0, <2>0, <2>3 DEF ForceRelease, RemoverStates
    <3> QED BY <2>3, <3>1 DEF ForceRelease, StableOK
  <2>4. CASE PickVictim(x) \/ SendStop(x) \/ DeleteRecord(x) \/ RemovalFails(x)
    BY <1>0, <2>0, <2>4 DEF PickVictim, SendStop, DeleteRecord, RemovalFails, IdleRemover
  <2> QED BY <1>2, <2>1, <2>2, <2>3, <2>4 DEF RemovalStep
<1>3. ~ ControlPlaneCrash
  BY DEF ControlPlaneCrash, RemoversDie, IdleRemover
<1> QED
  BY <1>1, <1>2, <1>3 DEF Next

(* What the agent of a stable node is about to release is still on record. *)
LEMMA StableStops ==
  ASSUME TypeOK, LocalsOK, ReservationsOK, ReferencesOK, StableOK, Next,
         NEW n \in Stable, agent'[n].op \in {"clear", "release", "delete"}
  PROVE  /\ agent'[n].rec.status # "Evicted"
         /\ pods'[agent'[n].pod].node = n
<1>0. n \in Nodes
  BY DEF Stable
<1>1. CASE agent[n].op \in {"clear", "release", "delete"} /\ agent'[n].pod = agent[n].pod
            /\ agent'[n].rec = agent[n].rec
  <2>1. /\ agent[n].rec.status # "Evicted" /\ agent[n].pod \in Pods
        /\ pods[agent[n].pod].node = n
    BY <1>0, <1>1 DEF StableOK, LocalsOK
  <2>2. ~ Deleted(n)
    <3>1. Deleted(n) => agent' = [agent EXCEPT ![n] = OpDone(agent[n])]
      BY DEF Deleted, RemoveRecord
    <3>2. Deleted(n) => agent'[n].op = "none"
      BY <1>0, <3>1, OpDoneFree
    <3> QED BY <3>2
  <2> QED BY <1>1, <2>1, <2>2, StableRecord
<1>2. CASE ~ SameOp(n)
  <2>1. AgentStep(n)
    BY <1>0, <1>2, AgentCases DEF Next, ControlPlaneCrash, SameOp
  <2>2. CASE \/ ClearIdentity(n) /\ NextOp(n, "release", agent[n].rec)
             \/ ReleaseCapacity(n) /\ NextOp(n, "delete", agent[n].rec)
    BY <1>1, <2>2 DEF ClearIdentity, ReleaseCapacity, NextOp
  <2>3. CASE /\ StopRead(n) /\ NextOp(n, "clear", pods[agent[n].pod])
             /\ Readable(pods[agent[n].pod])
    <3>1. At(agent[n].pod, n) /\ agent[n].pod \in Pods
      BY <1>0, <2>3 DEF NextOp, ReferencesOK, LocalsOK
    <3>2. pods[agent[n].pod].node = n
      BY <2>3, <3>1 DEF Readable, At
    <3>3. pods[agent[n].pod].status # "Evicted"
      BY <3>1, <3>2 DEF StableOK
    <3>4. UNCHANGED pods
      BY <2>3 DEF StopRead, redisVars
    <3> QED BY <2>3, <3>2, <3>3, <3>4 DEF NextOp
  <2> QED BY <1>0, <1>2, <2>1, <2>2, <2>3, AgentCases DEF NextOp
<1> QED
  BY <1>1, <1>2 DEF SameOp

(* Nothing takes a stable node for dead in the next state either. *)
LEMMA StableStep ==
  ASSUME TypeOK, LocalsOK, ReservationsOK, ReferencesOK, StableOK, Next
  PROVE  StableOK'
<1>1. \A m \in Monitors :
        monitor'[m].pc \in {"recheck", "evict"} => monitor'[m].node \in Flaky
  BY StableMonitors
<1>2. \A x \in Removers :
        remover'[x].pc \in {"release", "delete"} => remover'[x].rec.node \in Flaky
  BY StableRemovers
<1>3. \A p \in Pods : pods'[p].node \in Stable => pods'[p].status # "Evicted"
  BY StableNotEvicted
<1>4. \A n \in Stable :
        agent'[n].op \in {"clear", "release", "delete"} =>
          /\ agent'[n].rec.status # "Evicted"
          /\ pods'[agent'[n].pod].node = n
  BY StableStops
<1>5. Stable' = Stable
  BY DEF Stable
<1> QED
  BY <1>1, <1>2, <1>3, <1>4, <1>5, StablePresence DEF StableOK

--------------------------------------------------------------------------------
(***************************************************************************)
(* The accounts of a stable node.                                          *)
(***************************************************************************)

(* On a stable node every pod on record holds its reservation. *)
LEMMA StableBound ==
  ASSUME StableOK, NEW n \in Stable
  PROVE  Bound(n) = {p \in Pods : pods[p].node = n}
  BY DEF StableOK, Bound, ConsumesCapacity

(* What is in flight is not settled; what is on record, lost or being stopped
   is. *)
LEMMA Disjointness ==
  ASSUME TypeOK, LocalsOK, ReservationsOK, ReferencesOK, NEW n \in Nodes
  PROVE  /\ Held(n) \subseteq Pods /\ Held(n) \subseteq issued
         /\ \A p \in InFlight(n) : p \in Pods /\ ~ Settled(p)
         /\ \A p \in Bound(n) : Settled(p) /\ pods[p].node = n
         /\ \A p \in leaked[n] : Settled(p) /\ pods[p].node = NoNode
         /\ \A p \in Returning(n) : Settled(p)
<1>1. \A p \in InFlight(n) : p \in Pods /\ ~ Settled(p) /\ p \in issued
  <2> SUFFICES ASSUME NEW p \in InFlight(n) PROVE p \in Pods /\ ~ Settled(p) /\ p \in issued
    OBVIOUS
  <2>1. PICK w \in Workers : Holding(w) /\ p = worker[w].pod
    BY DEF InFlight
  <2> QED BY <2>1 DEF Settled, ReservationsOK, LocalsOK, Holding
<1>2. \A p \in Bound(n) : p \in Pods /\ Settled(p) /\ pods[p].node = n
  BY NodesAssumption DEF Bound, ReservationsOK
<1>3. \A p \in leaked[n] : p \in Pods /\ Settled(p) /\ pods[p].node = NoNode
  BY DEF ReservationsOK, TypeOK, RedisTypeOK
<1>4. \A p \in Returning(n) : Settled(p)
  BY DEF Returning, ReferencesOK, At
<1> QED
  BY <1>1, <1>2, <1>3, <1>4 DEF Held, Settled

(* A pod joins the records of a stable node when its worker writes it, and
   leaves them when the node's agent deletes it. *)
LEMMA BoundCases ==
  ASSUME TypeOK, LocalsOK, ReservationsOK, ReferencesOK, StableOK, Next,
         NEW n \in Stable
  PROVE  \/ Bound(n)' = Bound(n)
         \/ Deleted(n) /\ Bound(n)' = Bound(n) \ {agent[n].pod}
         \/ \E w \in Workers : /\ WritePod(w) /\ worker[w].node = n
                               /\ Bound(n)' = Bound(n) \cup {worker[w].pod}
<1>0. pods \in [Pods -> PodRecord] /\ n # NoNode /\ n \in Nodes
  BY NodesAssumption DEF TypeOK, RedisTypeOK, Stable
<1>a. Bound(n) = {p \in Pods : pods[p].node = n}
  BY StableBound
<1>b. Bound(n)' = {p \in Pods : pods'[p].node = n}
  BY StableStep DEF StableOK, Bound, ConsumesCapacity
<1>1. CASE Deleted(n)
  <2>1. agent[n].op # "none"
    BY <1>1 DEF Deleted, RemoveRecord
  <2>2. agent[n].pod \in Pods
    BY <1>0, <2>1 DEF LocalsOK
  <2>3. Absent.node = NoNode
    BY DEF Absent
  <2>4. \A p \in Pods : pods'[p] = IF p = agent[n].pod THEN Absent ELSE pods[p]
    BY <1>0, <1>1, <2>2 DEF Deleted
  <2>5. Bound(n)' = Bound(n) \ {agent[n].pod}
    BY <1>0, <1>a, <1>b, <2>3, <2>4
  <2> QED BY <1>1, <2>5
<1>2. ASSUME NEW w \in Workers, WritePod(w)
      PROVE  \/ Bound(n)' = Bound(n)
             \/ worker[w].node = n /\ Bound(n)' = Bound(n) \cup {worker[w].pod}
  <2>1. worker[w].pod \in Pods /\ ~ Settled(worker[w].pod)
    BY <1>2 DEF WritePod, LocalsOK, Settled, Holding
  <2>2. pods[worker[w].pod].node = NoNode
    BY <2>1 DEF ReservationsOK
  <2>3. \A p \in Pods : pods'[p].node =
                         IF p = worker[w].pod THEN worker[w].node ELSE pods[p].node
    BY <1>0, <1>2, <2>1 DEF WritePod
  <2> QED BY <1>0, <1>a, <1>b, <2>1, <2>2, <2>3
<1>3. CASE ~ Deleted(n) /\ \A w \in Workers : ~ WritePod(w)
  <2>1. \A p \in Pods : pods[p].node = n => pods'[p].node = n
    BY <1>3, StableRecord
  <2>2. \A p \in Pods : pods'[p].node = n => pods[p].node = n
    BY <1>0, <1>3, RecordNodes
  <2> QED BY <1>a, <1>b, <2>1, <2>2
<1> QED
  BY <1>1, <1>2, <1>3

(* The reservations in flight change with the worker that takes a step only. *)
LEMMA InFlightSame ==
  ASSUME NEW n, NEW w \in Workers, \A v \in Workers \ {w} : worker'[v] = worker[v],
         Holding(w)' <=> Holding(w),
         Holding(w) => worker'[w].pod = worker[w].pod /\ worker'[w].node = worker[w].node
  PROVE  InFlight(n)' = InFlight(n)
<1>1. \A v \in Workers : /\ Holding(v)' <=> Holding(v)
                         /\ Holding(v) => /\ worker'[v].pod = worker[v].pod
                                          /\ worker'[v].node = worker[v].node
  BY DEF Holding
<1> QED
  BY <1>1 DEF InFlight

(* A successful reservation puts its pod in flight. *)
LEMMA InFlightJoins ==
  ASSUME NEW n, NEW w \in Workers, \A v \in Workers \ {w} : worker'[v] = worker[v],
         ~ Holding(w), Holding(w)'
  PROVE  InFlight(n)' = IF worker'[w].node = n THEN InFlight(n) \cup {worker'[w].pod}
                        ELSE InFlight(n)
<1>1. \A v \in Workers \ {w} : Holding(v)' <=> Holding(v)
  BY DEF Holding
<1> QED
  BY <1>1 DEF InFlight

(* Recording the pod or rolling back takes it out again. *)
LEMMA InFlightLeaves ==
  ASSUME ReservationsOK, NEW n, NEW w \in Workers,
         \A v \in Workers \ {w} : worker'[v] = worker[v], Holding(w), ~ Holding(w)'
  PROVE  InFlight(n)' = IF worker[w].node = n THEN InFlight(n) \ {worker[w].pod}
                        ELSE InFlight(n)
<1>1. \A v \in Workers \ {w} : /\ Holding(v)' <=> Holding(v)
                               /\ Holding(v) => worker[v].pod # worker[w].pod
  BY DEF Holding, ReservationsOK
<1> QED
  BY <1>1 DEF InFlight

(* A step keeps n's account, enters a new pod into it, or strikes one off. *)
KeepsAccount(n) ==
  Held(n)' = Held(n) /\ alloc'[n] = alloc[n]

EntersPod(n, p) ==
  /\ p \in Pods \ Held(n)
  /\ p \notin issued /\ issued' = issued \cup {p}
  /\ Fits(n, PodReq(p))
  /\ Held(n)' = Held(n) \cup {p}
  /\ alloc'[n] = Reserved(n, PodReq(p))[n]

StrikesPod(n, p) ==
  /\ p \in Held(n)
  /\ Held(n)' = Held(n) \ {p}
  /\ alloc'[n] = Released(n, PodReq(p))[n]

Settles(n) ==
  KeepsAccount(n) \/ \E p \in Pods : EntersPod(n, p) \/ StrikesPod(n, p)

(* Releasing on one node leaves the counters of the others alone. *)
LEMMA AllocElsewhere ==
  ASSUME TypeOK, NEW n \in Nodes, NEW k \in Nodes, n # k, NEW q
  PROVE  Reserved(k, q)[n] = alloc[n] /\ Released(k, q)[n] = alloc[n]
  BY DEF TypeOK, RedisTypeOK, Reserved, Released

(* The scheduler: a reservation enters its pod, writing the record turns it
   from a reservation in flight into one on record, a rollback strikes it off
   or loses it. *)
LEMMA SchedulerAccounts ==
  ASSUME TypeOK, LocalsOK, ReservationsOK, ReferencesOK, StableOK,
         NEW w \in Workers, SchedulerStep(w), UNCHANGED <<remover, monitor, agent>>,
         NEW n \in Stable
  PROVE  Settles(n)
<1>0. n \in Nodes /\ n \in published /\ alloc \in [Nodes -> [Resources -> Nat]]
      /\ leaked \in [Nodes -> SUBSET Pods]
  BY DEF Stable, StableOK, TypeOK, RedisTypeOK
<1>a. \A v \in Workers \ {w} : worker'[v] = worker[v]
  BY WorkerCases
<1>b. Returning(n)' = Returning(n)
  BY DEF Returning
<1>c. UNCHANGED pods => Bound(n)' = Bound(n)
  BY DEF Bound
<1>1. CASE QuietWorker(w)
  <2>1. InFlight(n)' = InFlight(n)
    BY <1>1, <1>a, InFlightSame DEF QuietWorker, Holding
  <2> QED BY <1>1, <1>b, <1>c, <2>1
          DEF QuietWorker, redisVars, Settles, KeepsAccount, Held
<1>2. ASSUME NEW k \in Nodes, NEW p \in Pods \ issued, HasReserved(w, k, p)
      PROVE  Settles(n)
  <2>1. InFlight(n)' = IF k = n THEN InFlight(n) \cup {p} ELSE InFlight(n)
    BY <1>2, <1>a, InFlightJoins DEF HasReserved, Holding
  <2>2. p \notin Held(n)
    BY <1>0, Disjointness
  <2>3. Held(n)' = IF k = n THEN Held(n) \cup {p} ELSE Held(n)
    BY <1>2, <1>b, <1>c, <2>1 DEF HasReserved, Held
  <2>4. CASE k = n
    BY <1>2, <2>2, <2>3, <2>4 DEF HasReserved, Settles, EntersPod
  <2>5. CASE k # n
    BY <1>0, <1>2, <2>3, <2>5, AllocElsewhere DEF HasReserved, Settles, KeepsAccount
  <2> QED BY <2>4, <2>5
<1>3. CASE WritePod(w) /\ worker'[w].pc = "dispatch"
  <2>1. InFlight(n)' = IF worker[w].node = n THEN InFlight(n) \ {worker[w].pod}
                       ELSE InFlight(n)
    BY <1>3, <1>a, InFlightLeaves DEF WritePod, Holding
  <2>2. worker[w].pod \in Pods /\ ~ Settled(worker[w].pod)
    BY <1>3 DEF WritePod, LocalsOK, Settled, Holding
  <2>3. pods[worker[w].pod].node = NoNode
    BY <2>2 DEF ReservationsOK
  <2>4. \A p \in Pods : pods'[p] =
          IF p = worker[w].pod
          THEN [exists |-> TRUE, node |-> worker[w].node, status |-> "Pending"]
          ELSE pods[p]
    BY <1>3, <2>2 DEF WritePod, TypeOK, RedisTypeOK
  <2>5. worker[w].pod \notin Bound(n)
    BY <1>0, <2>3, NodesAssumption DEF Bound
  <2>6. Bound(n)' = IF worker[w].node = n THEN Bound(n) \cup {worker[w].pod}
                    ELSE Bound(n)
    BY <2>2, <2>4, <2>5 DEF Bound, ConsumesCapacity
  <2>7. worker[w].node = n => worker[w].pod \in InFlight(n)
    BY <1>3 DEF InFlight, Holding, WritePod
  <2>8. worker[w].pod \notin Returning(n)
    BY <1>0, <2>2, Disjointness
  <2>9. Held(n)' = Held(n)
    BY <1>3, <1>b, <2>1, <2>6, <2>7, <2>8 DEF WritePod, Held
  <2> QED BY <1>3, <2>9 DEF WritePod, Settles, KeepsAccount
<1>4. CASE /\ WritePodFails(w) /\ worker'[w].pc = "rollback"
           /\ worker'[w].pod = worker[w].pod /\ worker'[w].node = worker[w].node
  <2>1. InFlight(n)' = InFlight(n)
    BY <1>4, <1>a, InFlightSame DEF WritePodFails, Holding
  <2> QED BY <1>4, <1>b, <1>c, <2>1
          DEF WritePodFails, redisVars, Settles, KeepsAccount, Held
<1>5. CASE ReleaseAfterFailure(w) /\ worker'[w].pc = "idle"
  <2>0. /\ worker[w].pod \in Pods /\ worker[w].node \in Nodes /\ Holding(w)
        /\ Req[worker[w].dep] = PodReq(worker[w].pod)
    BY <1>5 DEF ReleaseAfterFailure, LocalsOK, Holding, ReservationsOK, PodReq
  <2>1. InFlight(n)' = IF worker[w].node = n THEN InFlight(n) \ {worker[w].pod}
                       ELSE InFlight(n)
    BY <1>5, <1>a, InFlightLeaves DEF ReleaseAfterFailure, Holding
  <2>2. ~ Settled(worker[w].pod)
    BY <2>0 DEF Settled
  <2>3. worker[w].pod \notin Bound(n) /\ worker[w].pod \notin leaked[n]
    BY <1>0, <2>2, Disjointness
  <2>4. worker[w].node = n => worker[w].pod \in InFlight(n)
    BY <2>0 DEF InFlight
  <2>5. Bound(n)' = Bound(n)
    BY <1>5, <1>c DEF ReleaseAfterFailure
  <2>6. CASE worker[w].node = n
    <3>1. CASE /\ alloc' = Released(n, PodReq(worker[w].pod)) /\ UNCHANGED leaked
      <4>1. Held(n)' = Held(n) \ {worker[w].pod} /\ worker[w].pod \in Held(n)
        BY <1>b, <2>1, <2>3, <2>4, <2>5, <2>6, <3>1 DEF Held
      <4> QED BY <2>0, <3>1, <4>1 DEF Settles, StrikesPod
    <3>2. CASE /\ leaked' = [leaked EXCEPT ![n] = leaked[n] \cup {worker[w].pod}]
               /\ UNCHANGED alloc
      <4>1. Held(n)' = Held(n)
        BY <1>0, <1>b, <2>1, <2>3, <2>4, <2>5, <2>6, <3>2 DEF Held
      <4> QED BY <3>2, <4>1 DEF Settles, KeepsAccount
    <3> QED BY <1>5, <2>0, <2>6, <3>1, <3>2 DEF ReleaseAfterFailure
  <2>7. CASE worker[w].node # n
    <3>1. leaked'[n] = leaked[n]
      BY <1>0, <1>5, <2>0, <2>7 DEF ReleaseAfterFailure
    <3>2. alloc'[n] = alloc[n]
      BY <1>0, <1>5, <2>0, <2>7, AllocElsewhere DEF ReleaseAfterFailure
    <3>3. Held(n)' = Held(n)
      BY <1>b, <2>1, <2>5, <2>7, <3>1 DEF Held
    <3> QED BY <3>2, <3>3 DEF Settles, KeepsAccount
  <2> QED BY <2>6, <2>7
<1>6. CASE DispatchStart(w) /\ worker'[w].pc \in {"idle", "members"}
  <2>1. InFlight(n)' = InFlight(n)
    BY <1>6, <1>a, InFlightSame DEF DispatchStart, Holding
  <2> QED BY <1>6, <1>b, <1>c, <2>1 DEF DispatchStart, Settles, KeepsAccount, Held
<1> QED
  BY <1>1, <1>2, <1>3, <1>4, <1>5, <1>6, WorkerCases

(* What is not a step of the scheduler keeps the account of n if it leaves
   n's counters, records, losses and its agent's removal alone. *)
LEMMA KeepsAccountIf ==
  ASSUME NEW n, UNCHANGED worker, Bound(n)' \ Returning(n)' = Bound(n) \ Returning(n),
         leaked'[n] = leaked[n], alloc'[n] = alloc[n]
  PROVE  Settles(n)
<1>1. InFlight(n)' = InFlight(n)
  BY DEF InFlight, Holding
<1> QED
  BY <1>1 DEF Settles, KeepsAccount, Held

(* Removers and monitors leave a stable node's account alone. *)
LEMMA ControlAccounts ==
  ASSUME TypeOK, LocalsOK, ReservationsOK, ReferencesOK, StableOK, Next,
         NEW n \in Stable, UNCHANGED <<worker, agent>>,
         \/ \E x \in Removers : RemovalStep(x)
         \/ \E m \in Monitors : HealthStep(m)
         \/ LoseExpiry
  PROVE  Settles(n)
<1>0. /\ n \in Nodes /\ n \notin Flaky /\ alloc \in [Nodes -> [Resources -> Nat]]
      /\ leaked \in [Nodes -> SUBSET Pods] /\ agent \in [Nodes -> AgentStates]
      /\ worker \in [Workers -> WorkerStates]
  BY DEF Stable, TypeOK, RedisTypeOK, AgentTypeOK, SchedulerTypeOK
<1>1. Bound(n)' = Bound(n) /\ Returning(n)' = Returning(n)
  <2>1. ~ Deleted(n)
    <3>1. Deleted(n) => /\ agent' = [agent EXCEPT ![n] = OpDone(agent[n])]
                        /\ agent[n].op # "none"
      BY DEF Deleted, RemoveRecord
    <3>2. Deleted(n) => agent'[n].op = "none"
      BY <1>0, <3>1, OpDoneFree
    <3> QED BY <3>1, <3>2
  <2>2. \A w \in Workers : ~ WritePod(w)
    <3> SUFFICES ASSUME NEW w \in Workers, WritePod(w) PROVE FALSE
      OBVIOUS
    <3>1. worker[w].pc = "write" /\ worker' = [worker EXCEPT ![w].pc = "dispatch"]
      BY DEF WritePod
    <3>2. worker'[w].pc = "dispatch"
      BY <1>0, <3>1 DEF WorkerStates
    <3> QED BY <3>1, <3>2
  <2> QED BY <2>1, <2>2, BoundCases DEF Returning
<1>2. ASSUME NEW x \in Removers, RemovalStep(x)
      PROVE  leaked' = leaked /\ alloc'[n] = alloc[n]
  <2>1. CASE ForceRelease(x)
    <3>1. remover[x].rec.node \in Nodes /\ remover[x].rec.node # n
      BY <1>0, <2>1 DEF ForceRelease, StableOK, LocalsOK
    <3>2. Released(remover[x].rec.node, PodReq(remover[x].pod))[n] = alloc[n]
      BY <1>0, <3>1, AllocElsewhere
    <3> QED BY <2>1, <3>2 DEF ForceRelease
  <2>2. CASE ~ ForceRelease(x)
    BY <1>2, <2>2
    DEF RemovalStep, PickVictim, PickEvicted, CheckMember, CheckVictimLease, SendStop,
        DeleteRecord, RemovalFails, redisVars
  <2> QED BY <2>1, <2>2
<1>3. ASSUME NEW m \in Monitors, HealthStep(m)
      PROVE  leaked'[n] = leaked[n] /\ alloc'[n] = alloc[n]
  <2>1. CASE Evict(m)
    <3>1. monitor[m].node # n
      BY <1>0, <2>1 DEF Evict, StableOK
    <3> QED BY <1>0, <2>1, <3>1 DEF Evict
  <2>2. CASE ~ Evict(m)
    BY <1>3, <2>2
    DEF HealthStep, SweepMember, ProbeLease, ReceiveExpiry, RecheckLease,
        MonitorFails, redisVars
  <2> QED BY <2>1, <2>2
<1>4. LoseExpiry => leaked' = leaked /\ alloc' = alloc
  BY DEF LoseExpiry
<1> QED
  BY <1>1, <1>2, <1>3, <1>4, KeepsAccountIf

(* Between the release and the DEL the agent of a stable node does nothing
   but the DEL. *)
LEMMA StableDelete ==
  ASSUME TypeOK, LocalsOK, StableOK, NEW n \in Stable, AgentStep(n), ~ SameOp(n),
         agent[n].op = "delete"
  PROVE  RemoveRecord(n)
<1>0. n \in Nodes /\ n \notin Flaky /\ agent[n].phase = "serve"
  BY DEF Stable, StableOK
<1>1. ~ RegisterStep(n)
  BY <1>0
  DEF RegisterStep, Boot, ScanPods, CountPod, PublishCapacity, JoinRegistry,
      FirstHeartbeat, AdoptPod, AdoptWrite, StartConsumer
<1>2. ~ LeaseStep(n)
  BY <1>0 DEF LeaseStep, Heartbeat, LeaseExpires, AgentDies, Deregister, SameOp
<1>3. ConsumerStep(n) => RemoveRecord(n)
  BY <1>0
  DEF ConsumerStep, PopCommand, SpawnRead, SpawnWrite, StopRead, ClearIdentity,
      ReleaseCapacity, StopFails
<1> QED
  BY <1>1, <1>2, <1>3 DEF AgentStep

(* A node's agent strikes off the pod it has stopped; deleting the record
   afterwards changes nothing any more.  Other agents do not touch it. *)
LEMMA AgentAccounts ==
  ASSUME TypeOK, LocalsOK, ReservationsOK, ReferencesOK, StableOK, Next,
         NEW n \in Stable, NEW k \in Nodes, AgentStep(k),
         UNCHANGED <<worker, remover, monitor>>
  PROVE  Settles(n)
<1>0. /\ n \in Nodes /\ n \notin Flaky /\ alloc \in [Nodes -> [Resources -> Nat]]
      /\ leaked \in [Nodes -> SUBSET Pods] /\ agent \in [Nodes -> AgentStates]
      /\ worker \in [Workers -> WorkerStates] /\ n \in published
  BY DEF Stable, StableOK, TypeOK, RedisTypeOK, AgentTypeOK, SchedulerTypeOK
<1>1. \A w \in Workers : ~ WritePod(w)
  <2> SUFFICES ASSUME NEW w \in Workers, WritePod(w) PROVE FALSE
    OBVIOUS
  <2>1. worker[w].pc = "write" /\ worker' = [worker EXCEPT ![w].pc = "dispatch"]
    BY DEF WritePod
  <2>2. worker'[w].pc = "dispatch"
    BY <1>0, <2>1 DEF WorkerStates
  <2> QED BY <2>1, <2>2
<1>2. CASE PublishCapacity(k)
  <2>1. k # n
    BY <1>2 DEF PublishCapacity, StableOK
  <2>2. alloc'[n] = alloc[n] /\ leaked'[n] = leaked[n]
    BY <1>0, <1>2, <2>1 DEF PublishCapacity
  <2>3. Bound(n)' = Bound(n)
    BY <1>2 DEF PublishCapacity, Bound
  <2>4. Returning(n)' = Returning(n)
    BY <2>1, AgentCases, <1>0 DEF Returning
  <2> QED BY <2>2, <2>3, <2>4, KeepsAccountIf
<1>3. CASE ReleaseCapacity(k)
  <2>1. agent[k].op = "release" /\ agent[k].pod \in Pods /\ agent[k].rec.node = k
    BY <1>3 DEF ReleaseCapacity, LocalsOK, ReferencesOK
  <2>2. UNCHANGED leaked /\ Bound(n)' = Bound(n)
    BY <1>3 DEF ReleaseCapacity, Bound
  <2>3. CASE k # n
    <3>1. alloc'[n] = alloc[n]
      BY <1>0, <1>3, <2>1, <2>3, AllocElsewhere DEF ReleaseCapacity
    <3>2. Returning(n)' = Returning(n)
      BY <2>3, AgentCases, <1>0 DEF Returning
    <3> QED BY <2>2, <3>1, <3>2, KeepsAccountIf
  <2>4. CASE k = n
    <3>1. agent[n].rec.status # "Evicted" /\ pods[agent[n].pod].node = n
      BY <2>1, <2>4 DEF StableOK
    <3>2. agent[n].pod \in Bound(n)
      BY <2>1, <2>4, <3>1, StableBound
    <3>3. alloc' = Released(n, PodReq(agent[n].pod))
      BY <1>3, <2>1, <2>4, <3>1 DEF ReleaseCapacity, ConsumesCapacity
    <3>4. agent' = [agent EXCEPT ![n].op = "delete"]
      BY <1>3, <2>4 DEF ReleaseCapacity
    <3>5. agent'[n].op = "delete" /\ agent'[n].pod = agent[n].pod
      BY <1>0, <3>4 DEF AgentStates
    <3>6. Returning(n) = {} /\ Returning(n)' = {agent[n].pod}
      BY <2>1, <2>4, <3>5 DEF Returning
    <3>7. InFlight(n)' = InFlight(n)
      BY DEF InFlight, Holding
    <3>8. agent[n].pod \notin InFlight(n) /\ agent[n].pod \notin leaked[n]
      BY <1>0, <3>1, <3>2, Disjointness, NodesAssumption
    <3>9. agent[n].pod \in Held(n) /\ Held(n)' = Held(n) \ {agent[n].pod}
      BY <2>2, <3>2, <3>6, <3>7, <3>8 DEF Held
    <3> QED BY <2>1, <2>4, <3>3, <3>9 DEF Settles, StrikesPod
  <2> QED BY <2>3, <2>4
<1>4. CASE ~ PublishCapacity(k) /\ ~ ReleaseCapacity(k)
  <2>1. UNCHANGED <<alloc, leaked>>
    BY <1>4
    DEF AgentStep, RegisterStep, ConsumerStep, LeaseStep, redisVars, Boot, ScanPods,
        CountPod, JoinRegistry, FirstHeartbeat, AdoptPod, AdoptWrite, StartConsumer,
        PopCommand, SpawnRead, SpawnWrite, StopRead, ClearIdentity, RemoveRecord,
        StopFails, Heartbeat, LeaseExpires, AgentDies, Deregister
  <2>2. CASE Deleted(n) /\ Bound(n)' = Bound(n) \ {agent[n].pod}
    <3>1. agent' = [agent EXCEPT ![n] = OpDone(agent[n])] /\ agent[n].op \in {"delete", "purge"}
      BY <2>2 DEF Deleted, RemoveRecord
    <3>2. Returning(n)' = {}
      BY <1>0, <3>1, OpDoneFree DEF Returning
    <3>3. CASE agent[n].op = "delete"
      <4>1. Returning(n) = {agent[n].pod}
        BY <3>3 DEF Returning
      <4>2. Bound(n)' \ Returning(n)' = Bound(n) \ Returning(n)
        BY <2>2, <3>2, <4>1
      <4> QED BY <2>1, <4>2, KeepsAccountIf
    <3>4. CASE agent[n].op = "purge"
      <4>1. Returning(n) = {} /\ agent[n].pod \notin Bound(n)
        BY <1>0, <3>4, NodesAssumption DEF Returning, ReferencesOK, Bound
      <4>2. Bound(n)' \ Returning(n)' = Bound(n) \ Returning(n)
        BY <2>2, <3>2, <4>1
      <4> QED BY <2>1, <4>2, KeepsAccountIf
    <3> QED BY <3>1, <3>3, <3>4
  <2>3. CASE Bound(n)' = Bound(n)
    <3>1. Bound(n) \ Returning(n)' = Bound(n) \ Returning(n)
      <4>1. CASE SameOp(n)
        BY <4>1 DEF SameOp, Returning
      <4>2. CASE ~ SameOp(n)
        <5>1. k = n
          BY <1>0, <4>2, AgentCases DEF SameOp
        <5>2. agent'[n].op # "delete"
          BY <1>0, <1>4, <4>2, <5>1, AgentCases DEF NextOp
        <5>3. CASE agent[n].op # "delete"
          BY <5>2, <5>3 DEF Returning
        <5>4. CASE agent[n].op = "delete"
          <6>1. RemoveRecord(n)
            BY <1>0, <4>2, <5>1, <5>4, StableDelete
          <6>2. /\ agent[n].pod \in Pods /\ pods[agent[n].pod].node = n
                /\ pods' = [pods EXCEPT ![agent[n].pod] = Absent]
            BY <1>0, <5>4, <6>1 DEF StableOK, LocalsOK, RemoveRecord
          <6>3. Absent.node = NoNode /\ pods \in [Pods -> PodRecord]
            BY DEF Absent, TypeOK, RedisTypeOK
          <6>4. pods'[agent[n].pod].node = NoNode
            BY <6>2, <6>3
          <6>5. agent[n].pod \in Bound(n) /\ agent[n].pod \notin Bound(n)'
            BY <1>0, <6>2, <6>4, StableBound, NodesAssumption DEF Bound
          <6> QED BY <2>3, <6>5
        <5> QED BY <5>3, <5>4
      <4> QED BY <4>1, <4>2
    <3> QED BY <2>1, <2>3, <3>1, KeepsAccountIf
  <2> QED BY <1>1, <2>2, <2>3, BoundCases
<1> QED
  BY <1>2, <1>3, <1>4

(* The control plane's crash turns what was in flight into what is lost. *)
LEMMA CrashAccounts ==
  ASSUME TypeOK, ControlPlaneCrash, NEW n \in Stable
  PROVE  Settles(n)
<1>0. n \in Nodes
  BY DEF Stable
<1>1. InFlight(n)' = {}
  BY DEF ControlPlaneCrash, WorkersDie, InFlight, Holding, IdleWorker
<1>2. leaked'[n] = leaked[n] \cup InFlight(n)
  BY <1>0 DEF ControlPlaneCrash, WorkersDie
<1>3. Bound(n)' = Bound(n) /\ Returning(n)' = Returning(n) /\ alloc' = alloc
  BY DEF ControlPlaneCrash, Bound, Returning
<1> QED
  BY <1>1, <1>2, <1>3 DEF Settles, KeepsAccount, Held

(* Whoever takes the step, a stable node's account is kept, gains one pod or
   loses one. *)
LEMMA AccountsSettle ==
  ASSUME TypeOK, LocalsOK, ReservationsOK, ReferencesOK, StableOK, Next,
         NEW n \in Stable
  PROVE  Settles(n)
<1>1. ASSUME NEW w \in Workers, SchedulerStep(w), UNCHANGED <<remover, monitor, agent>>
      PROVE  Settles(n)
  BY <1>1, SchedulerAccounts
<1>2. ASSUME NEW k \in Nodes, AgentStep(k), UNCHANGED <<worker, remover, monitor>>
      PROVE  Settles(n)
  BY <1>2, AgentAccounts
<1>3. ASSUME NEW x \in Removers, RemovalStep(x), UNCHANGED <<worker, monitor, agent>>
      PROVE  Settles(n)
  BY <1>3, ControlAccounts
<1>4. ASSUME NEW m \in Monitors, HealthStep(m), UNCHANGED <<worker, remover, agent>>
      PROVE  Settles(n)
  BY <1>4, ControlAccounts
<1>5. CASE LoseExpiry /\ UNCHANGED <<worker, remover, agent>>
  BY <1>5, ControlAccounts
<1>6. CASE ControlPlaneCrash
  BY <1>6, CrashAccounts
<1> QED BY <1>1, <1>2, <1>3, <1>4, <1>5, <1>6 DEF Next

(* The counters stay exact and within the node's total. *)
LEMMA AccountingStep ==
  ASSUME IInv, Next
  PROVE  ExactAccounting' /\ WithinTotal'
<1>a. TypeOK /\ LocalsOK /\ ReservationsOK /\ ReferencesOK /\ StableOK
  BY DEF IInv
<1>b. Stable' = Stable
  BY DEF Stable
<1> SUFFICES ASSUME NEW n \in Stable
             PROVE  \A r \in Resources : /\ alloc'[n][r] = Demand(Held(n), r)'
                                          /\ alloc'[n][r] <= Total[n][r]
  BY <1>b DEF ExactAccounting, WithinTotal
<1>0. /\ n \in Nodes /\ n \in published /\ Held(n) \in SUBSET Pods
      /\ alloc \in [Nodes -> [Resources -> Nat]]
  BY <1>a, Disjointness DEF Stable, StableOK, TypeOK, RedisTypeOK
<1>1. \A r \in Resources : alloc[n][r] = Demand(Held(n), r) /\ alloc[n][r] <= Total[n][r]
  BY DEF IInv, ExactAccounting, WithinTotal
<1>2. Settles(n)
  BY <1>a, AccountsSettle
<1>3. \A r \in Resources : Demand(Held(n), r)' = Demand(Held(n)', r)
  BY DEF Demand, Units, UnitsOf, PodReq
<1>4. CASE KeepsAccount(n)
  BY <1>1, <1>3, <1>4 DEF KeepsAccount
<1>5. ASSUME NEW p \in Pods, EntersPod(n, p)
      PROVE  \A r \in Resources : /\ alloc'[n][r] = Demand(Held(n)', r)
                                   /\ alloc'[n][r] <= Total[n][r]
  <2>1. p \in Pods \ Held(n) /\ Fits(n, PodReq(p))
    BY <1>5 DEF EntersPod
  <2>2. \A r \in Resources :
           /\ Reserved(n, PodReq(p))[n][r] = Demand(Held(n) \cup {p}, r)
           /\ Demand(Held(n) \cup {p}, r) <= Total[n][r]
    BY <1>0, <1>1, <2>1, ReserveAddsPod
  <2> QED BY <1>5, <2>2 DEF EntersPod
<1>6. ASSUME NEW p \in Pods, StrikesPod(n, p)
      PROVE  \A r \in Resources : /\ alloc'[n][r] = Demand(Held(n)', r)
                                   /\ alloc'[n][r] <= Total[n][r]
  <2>1. p \in Held(n)
    BY <1>6 DEF StrikesPod
  <2>2. \A r \in Resources : Released(n, PodReq(p))[n][r] = Demand(Held(n) \ {p}, r)
    BY <1>0, <1>1, <2>1, ReleaseRemovesPod
  <2>3. \A r \in Resources : alloc'[n][r] = Demand(Held(n)', r)
    BY <1>6, <2>2 DEF StrikesPod
  <2>4. \A r \in Resources : Demand(Held(n) \ {p}, r) <= Demand(Held(n), r)
    BY <1>0, DemandMonotone
  <2>5. \A r \in Resources : /\ Demand(Held(n) \ {p}, r) \in Nat
                              /\ Demand(Held(n), r) \in Nat /\ Total[n][r] \in Nat
    BY <1>0, DemandType, TotalAssumption
  <2>6. \A r \in Resources : Demand(Held(n) \ {p}, r) <= Total[n][r]
    BY <1>1, <2>4, <2>5
  <2> QED BY <1>6, <2>3, <2>6 DEF StrikesPod
<1> QED
  BY <1>2, <1>3, <1>4, <1>5, <1>6 DEF Settles

(* The initial state: nothing is placed. *)
LEMMA IInvInit ==
  Init => IInv
<1> SUFFICES ASSUME Init PROVE IInv
  OBVIOUS
<1>1. TypeOK /\ LocalsOK
  BY TypeInit
<1>2. ReservationsOK
  BY DEF Init, RedisInit, SchedulerInit, ReservationsOK, Holding, IdleWorker, Absent
<1>3. ReferencesOK
  BY DEF Init, RedisInit, SchedulerInit, RemovalInit, AgentInit, ReferencesOK,
         IdleWorker, IdleRemover, DownAgent, ServingAgent
<1>4. StableOK
  <2>1. \A n \in Stable : agent[n].phase = "serve" /\ agent[n].op = "none"
    BY DEF Init, AgentInit, Stable, DownAgent, ServingAgent
  <2>2. \A m \in Monitors : monitor[m].pc = "idle"
    BY DEF Init, HealthInit, IdleMonitor
  <2>3. \A x \in Removers : remover[x].pc = "idle"
    BY DEF Init, RemovalInit, IdleRemover
  <2>4. \A p \in Pods : pods[p].status # "Evicted"
    BY DEF Init, RedisInit, Absent
  <2>5. Stable \subseteq registry \cap lease \cap published /\ expiries \subseteq Flaky
    BY DEF Init, RedisInit, Stable
  <2> QED BY <2>1, <2>2, <2>3, <2>4, <2>5 DEF StableOK
<1>5. \A n \in Stable, r \in Resources : alloc[n][r] = 0 /\ Demand(Held(n), r) = 0
  <2> SUFFICES ASSUME NEW n \in Stable, NEW r \in Resources
               PROVE  alloc[n][r] = 0 /\ Demand(Held(n), r) = 0
    OBVIOUS
  <2>0. n \in Nodes
    BY DEF Stable
  <2>1. Bound(n) = {}
    BY <2>0, NodesAssumption DEF Init, RedisInit, Bound, Absent
  <2>2. InFlight(n) = {} /\ leaked[n] = {}
    BY <2>0 DEF Init, RedisInit, SchedulerInit, InFlight, Holding, IdleWorker
  <2>3. Held(n) = {}
    BY <2>1, <2>2 DEF Held
  <2> QED BY <2>0, <2>3, DemandEmpty DEF Init, RedisInit
<1>6. \A n \in Stable, r \in Resources : Total[n][r] \in Nat
  BY TotalAssumption DEF Stable
<1> QED
  BY <1>1, <1>2, <1>3, <1>4, <1>5, <1>6 DEF IInv, ExactAccounting, WithinTotal

(* The invariant is inductive. *)
LEMMA IInvStep ==
  IInv /\ [Next]_vars => IInv'
<1>1. ASSUME IInv, Next PROVE IInv'
  <2>a. TypeOK /\ LocalsOK /\ ReservationsOK /\ ReferencesOK /\ StableOK
    BY <1>1 DEF IInv
  <2>1. TypeOK' /\ LocalsOK'
    BY <1>1, <2>a, TypeStep
  <2>2. ReservationsOK' /\ ReferencesOK' /\ StableOK'
    BY <1>1, <2>a, ReservationsStep, ReferencesStep, StableStep
  <2>3. ExactAccounting' /\ WithinTotal'
    BY <1>1, AccountingStep
  <2> QED BY <2>1, <2>2, <2>3 DEF IInv
<1>2. ASSUME IInv, UNCHANGED vars PROVE IInv'
  <2>1. TypeOK' /\ LocalsOK'
    BY <1>2, TypeStep DEF IInv
  <2>2. ReservationsOK' /\ ReferencesOK' /\ StableOK'
    BY <1>2
    DEF IInv, vars, redisVars, ReservationsOK, ReferencesOK, StableOK, Settled, At,
        Holding, Stable
  <2>3. ExactAccounting' /\ WithinTotal'
    BY <1>2
    DEF IInv, vars, redisVars, ExactAccounting, WithinTotal, Held, Bound, Returning,
        InFlight, Holding, Demand, Units, UnitsOf, PodReq, Stable
  <2> QED BY <2>1, <2>2, <2>3 DEF IInv
<1> QED
  BY <1>1, <1>2

(* On a node whose agent does not fail, the counters of the capacity hash are
   at all times exactly the demand of what holds capacity there, whatever the
   scheduler's workers, the removers, the health controller, the other nodes
   and crashes of the control plane do meanwhile. *)
THEOREM ExactAccountingHolds == Spec => []ExactAccounting
<1>1. IInv => ExactAccounting
  BY DEF IInv
<1> QED
  BY <1>1, IInvInit, IInvStep, PTL DEF Spec

(* The pods recorded on such a node never ask for more than it has. *)
THEOREM NoOvercommitHolds == Spec => []NoOvercommit
<1>1. IInv => NoOvercommit
  <2> SUFFICES ASSUME IInv, NEW n \in Stable, NEW r \in Resources
               PROVE  Demand(Bound(n) \ Returning(n), r) <= Total[n][r]
    BY DEF NoOvercommit
  <2>1. Held(n) \in SUBSET Pods
    BY Disjointness DEF IInv, Stable
  <2>2. Bound(n) \ Returning(n) \in SUBSET Held(n)
    BY DEF Held
  <2>3. Demand(Bound(n) \ Returning(n), r) <= Demand(Held(n), r)
    BY <2>1, <2>2, DemandMonotone
  <2>4. Demand(Held(n), r) <= Total[n][r]
    BY DEF IInv, ExactAccounting, WithinTotal
  <2>5. /\ Demand(Bound(n) \ Returning(n), r) \in Nat
        /\ Demand(Held(n), r) \in Nat /\ Total[n][r] \in Nat
    BY <2>1, <2>2, DemandType, TotalAssumption DEF Stable
  <2> QED BY <2>3, <2>4, <2>5
<1> QED
  BY <1>1, IInvInit, IInvStep, PTL DEF Spec

(* No agent ever acts, and no command is ever queued for it, on a pod that is on
   record at another node. *)
THEOREM CommandsReachOwnerHolds == Spec => []CommandsReachOwner
<1>1. IInv => CommandsReachOwner
  BY DEF IInv, ReferencesOK, At, CommandsReachOwner
<1> QED
  BY <1>1, IInvInit, IInvStep, PTL DEF Spec
================================================================================
