------------------------------- MODULE MCCluster -------------------------------
(***************************************************************************)
(* Instances of Cluster for TLC.                                           *)
(***************************************************************************)
EXTENDS ClusterClaims, ClusterLedger, TLC

CONSTANTS p1, p2, p3, small, big

(* Pods of the same deployment, and goroutines that run the same code, are
   interchangeable. *)
Symmetry ==
  Permutations(Pods \ {p3}) \cup Permutations(Workers) \cup Permutations(Removers)

MCDepOf == [p \in Pods |-> IF p = p3 THEN big ELSE small]

(* A node holds two small pods, or one big one, whose demand is the opposite
   way round in the two dimensions. *)
MCReq == [d \in Deps |-> IF d = big THEN [cpu |-> 2, mem |-> 1]
                                    ELSE [cpu |-> 1, mem |-> 1]]

MCTotal == [n \in Nodes |-> IF n = 1 THEN [cpu |-> 2, mem |-> 2]
                                     ELSE [cpu |-> 3, mem |-> 2]]
================================================================================
