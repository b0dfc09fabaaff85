---------------------------- MODULE ClusterLiveness ----------------------------
(***************************************************************************)
(* The cluster with the fairness its loops provide, and what must          *)
(* eventually happen.                                                      *)
(***************************************************************************)
EXTENDS Cluster

(* RunSweeper ticks for ever and SweepOnce visits every member, so no node is
   left out of infinitely many sweeps. *)
Sweeps(n) ==
  \E m \in Monitors : /\ SweepMember(m)
                      /\ monitor'[m].node = n
                      /\ UNCHANGED <<worker, remover, agent>>

(* What follows for a node that is being looked at. *)
Examines(n) ==
  \E m \in Monitors : /\ monitor[m].node = n
                      /\ ProbeLease(m)
                      /\ UNCHANGED <<worker, remover, agent>>

Rechecks(n) ==
  \E m \in Monitors : /\ monitor[m].node = n
                      /\ RecheckLease(m)
                      /\ UNCHANGED <<worker, remover, agent>>

Evicts(n) ==
  \E m \in Monitors : /\ monitor[m].node = n
                      /\ Evict(m)
                      /\ UNCHANGED <<worker, remover, agent>>

(* A Redis error or a crash of the control plane may end one attempt, or any
   number of them, but not every one: hence strong fairness.  Agents beat and
   consume, and a scheduling call goes on, as long as they run at all; nothing
   forces an agent to start, and nothing forces a lease to expire. *)
Fairness ==
  /\ \A n \in Nodes :
       /\ SF_vars(Sweeps(n))
       /\ SF_vars(Examines(n))
       /\ SF_vars(Rechecks(n))
       /\ SF_vars(Evicts(n))
       /\ WF_vars(Heartbeat(n) /\ UNCHANGED <<worker, remover, monitor>>)
       /\ WF_vars(ConsumerStep(n) /\ UNCHANGED <<worker, remover, monitor>>)
  /\ \A w \in Workers :
       WF_vars(SchedulerStep(w) /\ UNCHANGED <<remover, monitor, agent>>)

FairSpec == Spec /\ Fairness

(* The agent of n is gone for good, and so is its lease. *)
DeadForGood(n) == <>[](n \notin lease /\ agent[n].phase = "down")

(* A dead node is eventually removed from the registry and does not come back,
   although every expiry notification may be lost, any sweep may fail and the
   control plane may crash in the middle of one (health.go, SweepOnce and
   EvictNode). *)
DeadNodeForgotten == \A n \in Nodes : DeadForGood(n) => <>[](n \notin registry)
================================================================================
