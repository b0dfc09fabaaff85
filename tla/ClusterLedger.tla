----------------------------- MODULE ClusterLedger -----------------------------
(***************************************************************************)
(* The cluster implements CapacityLedger on its stable nodes.              *)
(***************************************************************************)
EXTENDS Cluster

Ledger == INSTANCE CapacityLedger WITH
            Hosts   <- Stable,
            Clients <- Pods,
            Kinds   <- Resources,
            Request <- [p \in Pods |-> PodReq(p)],
            Limit   <- Total,
            granted <- [n \in Stable |-> Held(n)],
            counter <- [n \in Stable |-> alloc[n]],
            drawn   <- issued

(* On the nodes whose agents do not fail, every step of every goroutine is a
   grant, a return or nothing to the ledger: allocated_cpu and allocated_mem
   (the capacity scripts) move only together with the pods that hold them, by
   exactly those pods' requests and never past the node's totals; the clamp of
   releaseScript never acts, and neither a rollback, a duplicated stop nor a
   crash returns a reservation twice or hands out an id again. *)
ImplementsLedger == Ledger!LedgerSpec
================================================================================
