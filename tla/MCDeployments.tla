----------------------------- MODULE MCDeployments -----------------------------
(***************************************************************************)
(* The instance of Deployments for TLC.                                    *)
(***************************************************************************)
EXTENDS Deployments

(* Half loaded replicas are the target; they are idle or half as much again is
   asked of them, so that the script wants to go both ways. *)
MCTargets == {2}

MCLoads == {0, 3}
===============================================================================
