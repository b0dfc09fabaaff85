--------------------------- MODULE SupervisorClaims ---------------------------
(***************************************************************************)
(* What a comment of the supervisor says and the code does not keep: a run *)
(* refutes it.                                                             *)
(***************************************************************************)
EXTENDS Supervisor

(* supervisor/health.go, restartIfBackoffElapsed: "a success lands as Running".  If a
   process hung until it was declared failed, or was recorded after the checker
   had read Failed, Spawn finds it alive and writes no status: the pod stays in
   CrashLoopBackOff however well it answers. *)
AnsweringPodIsRunning ==
  \A p \in Pods :
    <>[](/\ phase = "serve" /\ records[p].whole /\ records[p].status # "Evicted"
         /\ ~ Stopping(p) /\ Answers(records[p].proc))
      => []<>(records[p].status = "Running")
===============================================================================
