------------------------------ MODULE NodeHealth ------------------------------
(***************************************************************************)
(* internal/controller/health.go: the node health controller.  Its sweeper *)
(* and its expiry subscriber are two goroutines that both end in           *)
(* EvictNode, whose lease check and whose script are two Redis round trips.*)
(***************************************************************************)
EXTENDS ClusterState

CONSTANT Monitors  \* goroutines of the health controller

VARIABLE monitor   \* each monitor's local variables

MonitorStates ==
  [ pc : {"idle", "probe", "recheck", "evict"}, node : Nodes \cup {NoNode} ]

IdleMonitor == [pc |-> "idle", node |-> NoNode]

(* SweepOnce: a member of the registry it read. *)
SweepMember(m) ==
  /\ monitor[m].pc = "idle"
  /\ \E n \in registry :
       monitor' = [monitor EXCEPT ![m] = [pc |-> "probe", node |-> n]]
  /\ UNCHANGED redisVars

(* Mutant of ProbeLease: the answer is taken the wrong way round. *)
ProbeLeaseInverted(m) ==
  /\ monitor[m].pc = "probe"
  /\ monitor' = [monitor EXCEPT ![m] =
                   IF monitor[m].node \notin lease THEN IdleMonitor
                   ELSE [@ EXCEPT !.pc = "recheck"]]
  /\ UNCHANGED redisVars

(* SweepOnce: EXISTS of its lease. *)
ProbeLease(m) ==
  /\ monitor[m].pc = "probe"
  /\ monitor' = [monitor EXCEPT ![m] =
                   IF monitor[m].node \in lease THEN IdleMonitor
                   ELSE [@ EXCEPT !.pc = "recheck"]]
  /\ UNCHANGED redisVars

(* consumeExpiries: a lease-expired notification arrives. *)
ReceiveExpiry(m) ==
  /\ monitor[m].pc = "idle"
  /\ \E n \in expiries :
       /\ monitor' = [monitor EXCEPT ![m] = [pc |-> "recheck", node |-> n]]
       /\ expiries' = expiries \ {n}
  /\ UNCHANGED <<registry, lease, published, alloc, pods, cmds, issued, leaked>>

(* Pub/Sub keeps nothing for a subscriber that is away. *)
LoseExpiry ==
  /\ \E n \in expiries : expiries' = expiries \ {n}
  /\ UNCHANGED <<registry, lease, published, alloc, pods, cmds, issued, leaked,
                 monitor>>

(* EvictNode: the node may have come back since it was detected. *)
RecheckLease(m) ==
  /\ monitor[m].pc = "recheck"
  /\ monitor' = [monitor EXCEPT ![m] =
                   IF monitor[m].node \in lease THEN IdleMonitor
                   ELSE [@ EXCEPT !.pc = "evict"]]
  /\ UNCHANGED redisVars

(* Mutant of Evict: the pods are not filtered by their node. *)
EvictEverywhere(m) ==
  LET n == monitor[m].node
  IN  /\ monitor[m].pc = "evict"
      /\ pods' = [p \in Pods |-> IF pods[p].exists THEN WithStatus(pods[p], "Evicted")
                                 ELSE pods[p]]
      /\ registry' = registry \ {n}
      /\ monitor' = [monitor EXCEPT ![m] = IdleMonitor]
      /\ UNCHANGED <<lease, published, alloc, cmds, issued, expiries, leaked>>

(* EvictNode: evictScript, atomic over the pods, the capacity hash and the
   registry. It does not look at the lease. *)
Evict(m) ==
  LET n == monitor[m].node
  IN  /\ monitor[m].pc = "evict"
      /\ pods' = [p \in Pods |->
                    IF pods[p].node = n THEN WithStatus(pods[p], "Evicted")
                    ELSE pods[p]]
      /\ alloc' = IF n \in published
                  THEN [alloc EXCEPT ![n] = [r \in Resources |-> 0]]
                  ELSE alloc
      /\ registry' = registry \ {n}
      /\ leaked' = [leaked EXCEPT ![n] = {}]
      /\ monitor' = [monitor EXCEPT ![m] = IdleMonitor]
      /\ UNCHANGED <<lease, published, cmds, issued, expiries>>

(* A Redis error ends the handling of this node. *)
MonitorFails(m) ==
  /\ monitor[m].pc # "idle"
  /\ monitor' = [monitor EXCEPT ![m] = IdleMonitor]
  /\ UNCHANGED redisVars

HealthStep(m) ==
  \/ SweepMember(m)
  \/ ProbeLease(m)
  \/ ReceiveExpiry(m)
  \/ RecheckLease(m)
  \/ Evict(m)
  \/ MonitorFails(m)

MonitorsDie == monitor' = [m \in Monitors |-> IdleMonitor]

HealthTypeOK == monitor \in [Monitors -> MonitorStates]

HealthInit == monitor = [m \in Monitors |-> IdleMonitor]
===============================================================================
