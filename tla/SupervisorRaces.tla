---------------------------- MODULE SupervisorRaces ----------------------------
(***************************************************************************)
(* Supervisor with a history variable that tells when its goroutines were  *)
(* in each other's way.  Nothing in the code remembers that; it is here to *)
(* say exactly which interleavings cost a pod its "one process".           *)
(***************************************************************************)
EXTENDS Supervisor

VARIABLE tangled  \* pods that met such an interleaving since the agent serves

racesVars == <<vars, tangled>>

(* Between the check that a pod's recorded process is dead, or the search for
   it, and the write that rests on it (Spawn and launch, Stop and
   StopAndRemove). *)
InWindow(t) ==
  thread[t].pc \in {"start", "record", "abandon", "kill", "clear", "delete"}

(* The consumer and the checker are in that window for the same pod. *)
Overlapping ==
  {p \in Pods :
     \A t \in {"consumer", "checker"} : thread[t].pod = p /\ InWindow(t)}

(* A serving agent begins with the orphans it could not scan for. *)
Tangle ==
  tangled' = CASE phase' = "down" -> {}
               [] phase = "orphans" /\ phase' = "serve" ->
                    {process[q].pod : q \in Orphans}
               [] OTHER -> tangled \cup Overlapping'

RacesInit == Init /\ tangled = {}

RacesNext == Next /\ Tangle

RacesSpec == RacesInit /\ [][RacesNext]_racesVars /\ Fairness

(* While the agent serves, a pod has at most one process, unless the orphan scan
   had failed or the consumer and the checker were at the same pod in the window
   between reading its record and writing it: the check in Spawn (IsSameProcess)
   closes every other way to a duplicate, failed writes, lost commands,
   restarts, evictions and records deleted under the agent included.  And each
   process is on its pod's record or in the hands of the goroutine that will put
   it there or kill it, unless it is the control plane that deleted the record
   (forceRemove, deletePodRecords). *)
OnlyRacesDuplicate ==
  phase = "serve" =>
    \A p \in Pods \ tangled :
      /\ Cardinality(ProcessesOf(p)) <= 1
      /\ \A q \in ProcessesOf(p) :
           Dropped(p) \/ records[p].proc = q \/ \E t \in Threads : thread[t].proc = q
================================================================================
