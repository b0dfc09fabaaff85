----------------------------- MODULE ClusterClaims -----------------------------
(***************************************************************************)
(* What the repository's comments and documents say of the cluster, and    *)
(* what the code does not keep.  Each is refuted by a run.                 *)
(***************************************************************************)
EXTENDS ClusterLiveness

(* internal/scheduler/scheduler.go, the package comment: "a node's allocations
   can never exceed its totals".  Register counts the pods of its node and
   writes the sums with a plain HSET; a reservation made in between is
   overwritten, and its capacity is given out a second time. *)
NeverOvercommitted ==
  \A n \in Nodes, r \in Resources :
    Demand(Bound(n) \ Returning(n), r) <= Total[n][r]

(* mini-k8s-phasewise-build-manifest.md: after a flap "fresh replicas are
   scheduled normally".  The heartbeat loop renews the lease and never the
   registration, so a node evicted while its agent runs stays out. *)
RejoinsAfterFlap ==
  \A n \in Nodes :
    <>[](n \in lease /\ agent[n].phase = "serve") => []<>(n \in registry)
================================================================================
