----------------------------- MODULE MCSupervisor -----------------------------
(***************************************************************************)
(* The supervisor with its history variable and the claim about it, for    *)
(* TLC.                                                                    *)
(***************************************************************************)
EXTENDS SupervisorClaims, SupervisorRaces
===============================================================================
