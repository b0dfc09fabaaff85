-------------------------------- MODULE Cluster --------------------------------
(***************************************************************************)
(* The cluster: the scheduler's workers, the removal and health goroutines *)
(* of the control plane, and the node agents, all over one Redis.          *)
(*                                                                         *)
(* Agents of nodes outside Flaky keep their lease and never fail between   *)
(* two writes.  The control plane may crash at any point on any instance,  *)
(* and any of its writes may fail.                                         *)
(***************************************************************************)
EXTENDS Scheduler, PodRemoval, NodeHealth, NodeAgent

vars == <<redisVars, worker, remover, monitor, agent>>

(* cmd/api-server runs all controllers in one process: they die together. *)
ControlPlaneCrash ==
  /\ WorkersDie
  /\ RemoversDie
  /\ MonitorsDie
  /\ UNCHANGED <<registry, lease, published, alloc, pods, cmds, expiries, issued,
                 agent>>

Init ==
  /\ RedisInit
  /\ SchedulerInit
  /\ RemovalInit
  /\ HealthInit
  /\ AgentInit

Next ==
  \/ \E w \in Workers : SchedulerStep(w) /\ UNCHANGED <<remover, monitor, agent>>
  \/ \E x \in Removers : RemovalStep(x) /\ UNCHANGED <<worker, monitor, agent>>
  \/ \E m \in Monitors : HealthStep(m) /\ UNCHANGED <<worker, remover, agent>>
  \/ LoseExpiry /\ UNCHANGED <<worker, remover, agent>>
  \/ \E n \in Nodes : AgentStep(n) /\ UNCHANGED <<worker, remover, monitor>>
  \/ ControlPlaneCrash

Spec == Init /\ [][Next]_vars

--------------------------------------------------------------------------------

(* Everything keeps its type; in particular the allocation counters are natural
   numbers, however late or repeated a release comes (releaseScript). *)
TypeOK ==
  /\ RedisTypeOK
  /\ SchedulerTypeOK
  /\ RemovalTypeOK
  /\ HealthTypeOK
  /\ AgentTypeOK

Stable == Nodes \ Flaky

(* The pod whose capacity n's agent has returned and whose record it is about
   to delete; its process is stopped. *)
Returning(n) == IF agent[n].op = "delete" THEN {agent[n].pod} ELSE {}

(* Everything that holds capacity of n. *)
Held(n) == (Bound(n) \ Returning(n)) \cup InFlight(n) \cup leaked[n]

(* On a node whose agent does not fail, the counters the Lua scripts maintain
   are exactly the sum of the requests of the pods on record there, of the
   reservations not recorded yet and of those a crash of the control plane
   or a failed rollback lost: no interleaving of placements, rollbacks,
   removals and stop commands counts a pod twice or forgets one. *)
ExactAccounting ==
  \A n \in Stable, r \in Resources : alloc[n][r] = Demand(Held(n), r)

(* The pods on record at such a node never ask for more than it has, however
   many workers place pods at the same time on stale readings. *)
NoOvercommit ==
  \A n \in Stable, r \in Resources :
    Demand(Bound(n) \ Returning(n), r) <= Total[n][r]

(* A command queued for a node, and whatever its agent is working on, concerns a
   pod of that node, or one whose record is gone: SendCommand addresses the node
   that was read with the pod, a restarted agent adopts its own pods only, and
   a record never moves, so no agent stops or releases another node's pod. *)
CommandsReachOwner ==
  \A n \in Nodes :
    /\ \A i \in DOMAIN cmds[n] : pods[cmds[n][i].pod].node \in {n, NoNode}
    /\ agent[n].op # "none" => pods[agent[n].pod].node \in {n, NoNode}

--------------------------------------------------------------------------------
(***************************************************************************)
(* The inductive invariant behind ExactAccounting and NoOvercommit.  What  *)
(* is needed beyond the two: an id is recorded at most once, so a record   *)
(* never moves between nodes; whatever a goroutine or a queue still refers *)
(* to belongs to the node it will act on; and nothing but its own agent    *)
(* and the reserve script touches a stable node's accounts.                *)
(***************************************************************************)

(* The pod was reserved, and is no longer in the hands of a worker. *)
Settled(p) ==
  /\ p \in issued
  /\ \A w \in Workers : Holding(w) => worker[w].pod # p

(* If p is on record at all, it is on record at n, and that is final. *)
At(p, n) == Settled(p) /\ pods[p].node \in {n, NoNode}

(* A goroutine that is in the middle of something knows what it works on. *)
LocalsOK ==
  /\ \A w \in Workers :
       /\ worker[w].pc # "idle" => worker[w].dep \in Deps
       /\ worker[w].pc \in {"write", "rollback", "dispatch"} =>
            worker[w].node \in Nodes /\ worker[w].pod \in Pods
  /\ \A x \in Removers :
       remover[x].pc # "idle" => /\ remover[x].pod \in Pods
                                 /\ remover[x].rec.node \in Nodes
  /\ \A m \in Monitors : monitor[m].pc # "idle" => monitor[m].node \in Nodes
  /\ \A n \in Nodes : agent[n].op # "none" => agent[n].pod \in Pods

(* A reservation in flight or lost is for a pod that is not on record. *)
ReservationsOK ==
  /\ \A p \in Pods : pods[p].node # NoNode => Settled(p)
  /\ \A w \in Workers : Holding(w) =>
       /\ worker[w].pod \in issued
       /\ worker[w].dep = DepOf[worker[w].pod]
  /\ \A v, w \in Workers :
       Holding(v) /\ Holding(w) /\ worker[v].pod = worker[w].pod => v = w
  /\ \A n \in Nodes : \A p \in leaked[n] : Settled(p) /\ pods[p].node = NoNode

(* Whoever refers to a pod will act on the node the pod belongs to. *)
ReferencesOK ==
  /\ \A w \in Workers :
       worker[w].pc = "dispatch" => At(worker[w].pod, worker[w].node)
  /\ \A n \in Nodes : \A i \in DOMAIN cmds[n] : At(cmds[n][i].pod, n)
  /\ \A x \in Removers :
       remover[x].pc # "idle" => At(remover[x].pod, remover[x].rec.node)
  /\ \A n \in Nodes : agent[n].op # "none" => At(agent[n].pod, n)
  /\ \A n \in Nodes :
       agent[n].op \in {"clear", "release", "delete"} => agent[n].rec.node = n
  /\ \A n \in Nodes :
       agent[n].op = "purge" => pods[agent[n].pod].node = NoNode

(* A stable node is never taken for dead, so its pods are never evicted and
   never removed behind its agent's back. *)
StableOK ==
  /\ Stable \subseteq registry \cap lease \cap published
  /\ expiries \subseteq Flaky
  /\ \A n \in Stable : agent[n].phase = "serve"
  /\ \A m \in Monitors :
       monitor[m].pc \in {"recheck", "evict"} => monitor[m].node \in Flaky
  /\ \A x \in Removers :
       remover[x].pc \in {"release", "delete"} => remover[x].rec.node \in Flaky
  /\ \A p \in Pods : pods[p].node \in Stable => pods[p].status # "Evicted"
  /\ \A n \in Stable :
       agent[n].op \in {"clear", "release", "delete"} =>
         /\ agent[n].rec.status # "Evicted"
         /\ pods[agent[n].pod].node = n

WithinTotal == \A n \in Stable, r \in Resources : alloc[n][r] <= Total[n][r]

IInv ==
  /\ TypeOK
  /\ LocalsOK
  /\ ReservationsOK
  /\ ReferencesOK
  /\ StableOK
  /\ ExactAccounting
  /\ WithinTotal
================================================================================
