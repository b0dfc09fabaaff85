-------------------------------- MODULE Replicas --------------------------------
(***************************************************************************)
(* The replica controller's delta engine and its callers, for one          *)
(* deployment: the periodic sweep, the subscriber to deployment events     *)
(* (internal/controller/replica.go, internal/events) and the API's         *)
(* schedule handler (internal/api/server.go).  Nothing keeps them apart:   *)
(* each reads the deployment, lists its pod keys, reads those pods and     *)
(* then acts on what it saw.                                               *)
(*                                                                         *)
(* What Scheduler, PodRemoval and NodeAgent model step by step is one step *)
(* here: the placement of a pod, the stop command and its execution, the   *)
(* forced removal, the agent's status writes; so are the HGETALLs that     *)
(* follow one SCAN.  The agents write a pod's status without looking at    *)
(* the one that is there, so an evicted pod may come back.  Pods bounds    *)
(* what the cluster has room for.  An event is a hint to look: it may      *)
(* arrive at any time, and any may be lost.                                *)
(***************************************************************************)
EXTENDS Integers, FiniteSets

CONSTANTS
  Pods,        \* pod ids; numbers, whose order is that of selectVictims
  MaxDesired,  \* bound on the desired count
  Others,      \* goroutines besides the sweep that may be reconciling
  Gone         \* no deployment record

ASSUME PodsAssumption == Pods \subseteq Nat /\ IsFiniteSet(Pods)

ASSUME DesiredAssumption == MaxDesired \in Nat /\ Gone \notin Nat

ASSUME OthersAssumption == IsFiniteSet(Others) /\ "sweeper" \notin Others

VARIABLES
  dep,     \* the deployment's desired_replicas
  pods,    \* status of each pod's record, None if there is none
  stops,   \* pods whose node has a stop command queued
  caller,  \* each caller's local variables
  revived  \* history: live pods that an agent brought back from an eviction

vars == <<dep, pods, stops, caller, revived>>

(* The sweep is one goroutine, the subscriber another, and every schedule
   request that the API serves has its own. *)
Callers == {"sweeper"} \cup Others

None == "none"

(* Pending stands for every status of a pod that counts and does not serve:
   Unschedulable, Failed, CrashLoopBackOff and Pending itself. *)
Statuses == {"Pending", "Running", "Evicted"}

Counts == 0 .. MaxDesired

CallerStates ==
  [ kind : {"none", "sweep", "event", "trigger"},
    pc   : {"idle", "deployment", "scan", "pods", "drop", "create", "remove"},
    want : Counts \cup {Gone},  \* desired_replicas as it was read
    drop : SUBSET Pods,         \* evicted pods whose records are to be deleted
    left : Counts,              \* replicas still to create
    todo : SUBSET Pods ]        \* keys to read, then pods to remove

IdleCaller ==
  [ kind |-> "none", pc |-> "idle", want |-> Gone, drop |-> {}, left |-> 0,
    todo |-> {} ]

Exists(p) == pods[p] # None

(* What a count of replicas is about: an evicted pod runs nowhere. *)
IsLive(status) == status \notin {None, "Evicted"}

Live == {p \in Pods : IsLive(pods[p])}

(* A 64-bit id nobody has heard of; ids are recycled when all trace is gone. *)
Unheard(p) ==
  ~ Exists(p) /\ \A c \in Callers : p \notin caller[c].todo \cup caller[c].drop

(***************************************************************************)
(* Starting a reconciliation.                                              *)
(***************************************************************************)
Begin(c, kind, pc) ==
  /\ caller[c].pc = "idle"
  /\ caller' = [caller EXCEPT ![c] =
                  [IdleCaller EXCEPT !.kind = kind, !.pc = pc]]
  /\ UNCHANGED <<dep, pods, stops, revived>>

(* ReconcileAll scans the deployments; the pods of one it does not find are
   orphans, whatever has happened by the time they are read. *)
Sweep == Begin("sweeper", "sweep", IF dep = Gone THEN "scan" ELSE "deployment")

(* consume: an event names the deployment. *)
ReceiveEvent(c) == Begin(c, "event", "deployment")

(* handleTriggerSchedule. *)
TriggerSchedule(c) == Begin(c, "trigger", "deployment")

(***************************************************************************)
(* The decision, a computation on what was read: seen is the status of     *)
(* each pod, None where there was nothing to read.                         *)
(***************************************************************************)
SeenLive(seen) == {p \in Pods : IsLive(seen[p])}

SeenEvicted(seen) == {p \in Pods : seen[p] = "Evicted"}

StatusPriority(status) == IF status = "Running" THEN 4 ELSE 3

(* selectVictims ranks p before q: the less useful first, then the newer.
   Pods created in the same second are ranked by their random ids. *)
GoesBefore(seen, p, q) ==
  LET s == StatusPriority(seen[p])
      t == StatusPriority(seen[q])
  IN  s < t \/ (s = t /\ p > q)

(* Mutant of SelectVictims: one victim too many. *)
SelectVictimsAndOne(seen, want) ==
  {p \in SeenLive(seen) :
     Cardinality({q \in SeenLive(seen) : GoesBefore(seen, q, p)}) + want
       <= Cardinality(SeenLive(seen))}

(* The head of that ranking, as many as there are too many. *)
SelectVictims(seen, want) ==
  {p \in SeenLive(seen) :
     Cardinality({q \in SeenLive(seen) : GoesBefore(seen, q, p)}) + want
       < Cardinality(SeenLive(seen))}

(* Mutant of Shortfall: one replica too many. *)
ShortfallAndOne(seen, want) ==
  LET n == Cardinality(SeenLive(seen))
  IN  IF n <= want THEN want - n + 1 ELSE 0

(* Mutant of Shortfall: the full count, whatever is there. *)
ShortfallFull(seen, want) == want

(* A surplus is nothing to create: the controller asks which it is, the handler
   leaves that to the first line of ScheduleReplicas. *)
Shortfall(seen, want) ==
  LET n == Cardinality(SeenLive(seen))
  IN  IF n < want THEN want - n ELSE 0

(* A call that has to delete the records in drop, to create k replicas and to
   remove victims, and is done when there is nothing of all that. *)
Acting(drop, k, victims) ==
  [IdleCaller EXCEPT
     !.pc = CASE drop # {} -> "drop"
              [] drop = {} /\ k > 0 -> "create"
              [] drop = {} /\ k = 0 /\ victims # {} -> "remove"
              [] OTHER -> "idle",
     !.drop = drop, !.left = k, !.todo = victims]

(* The delta engine; when the deployment is gone everything that was read goes,
   evicted or not; and handleTriggerSchedule only ever creates. *)
Decision(c, seen) ==
  LET want == caller[c].want
  IN  CASE want = Gone ->
             Acting({}, 0, SeenLive(seen) \cup SeenEvicted(seen))
        [] want # Gone /\ caller[c].kind = "trigger" ->
             Acting({}, Shortfall(seen, want), {})
        [] OTHER ->
             Acting(SeenEvicted(seen), Shortfall(seen, want),
                    SelectVictims(seen, want))

(***************************************************************************)
(* ReconcileDeployment, and the same reads in handleTriggerSchedule.       *)
(***************************************************************************)

(* HGETALL of the deployment.  Without one the controller removes every pod,
   the handler answers 404. *)
ReadDeployment(c) ==
  /\ caller[c].pc = "deployment"
  /\ caller' = [caller EXCEPT ![c] =
                  IF dep = Gone /\ caller[c].kind = "trigger" THEN IdleCaller
                  ELSE [@ EXCEPT !.pc = "scan", !.want = dep]]
  /\ UNCHANGED <<dep, pods, stops, revived>>

(* podsForDeployment, PodsForDeployment, reapOrphanPods: the keys. *)
ScanPods(c) ==
  /\ caller[c].pc = "scan"
  /\ caller' = [caller EXCEPT ![c].todo = {p \in Pods : Exists(p)},
                               ![c].pc = "pods"]
  /\ UNCHANGED <<dep, pods, stops, revived>>

(* The same: the records, some of which may be gone by now. *)
ReadPods(c) ==
  /\ caller[c].pc = "pods"
  /\ LET seen == [p \in Pods |-> IF p \in caller[c].todo THEN pods[p] ELSE None]
     IN  caller' = [caller EXCEPT ![c] = Decision(c, seen)]
  /\ UNCHANGED <<dep, pods, stops, revived>>

(* The records of the pods in S are deleted, with all that refers to them. *)
Forget(S) ==
  /\ pods' = [p \in Pods |-> IF p \in S THEN None ELSE pods[p]]
  /\ stops' = stops \ S
  /\ revived' = revived \ S

(* deletePodRecords. *)
DropEvicted(c) ==
  /\ caller[c].pc = "drop"
  /\ Forget(caller[c].drop)
  /\ caller' = [caller EXCEPT ![c] = Acting({}, caller[c].left, caller[c].todo)]
  /\ UNCHANGED dep

(* ScheduleReplicas: one replica is placed and recorded. *)
CreatePod(c) ==
  /\ caller[c].pc = "create"
  /\ \E p \in Pods :
       /\ Unheard(p)
       /\ pods' = [pods EXCEPT ![p] = "Pending"]
  /\ caller' = [caller EXCEPT ![c] = Acting({}, caller[c].left - 1, {})]
  /\ UNCHANGED <<dep, stops, revived>>

(* ScheduleReplicas: no node has room for another pod. *)
Unschedulable(c) ==
  /\ caller[c].pc = "create"
  /\ \A p \in Pods : ~ Unheard(p)
  /\ caller' = [caller EXCEPT ![c] = IdleCaller]
  /\ UNCHANGED <<dep, pods, stops, revived>>

(* removePods: the victim's node is live and gets a stop command. *)
SendStop(c) ==
  /\ caller[c].pc = "remove"
  /\ \E p \in caller[c].todo :
       /\ stops' = IF Exists(p) THEN stops \cup {p} ELSE stops
       /\ caller' = [caller EXCEPT ![c] = Acting({}, 0, caller[c].todo \ {p})]
  /\ UNCHANGED <<dep, pods, revived>>

(* removePods: the node is not live, forceRemove deletes the record. *)
ForceRemove(c) ==
  /\ caller[c].pc = "remove"
  /\ \E p \in caller[c].todo :
       /\ Forget({p})
       /\ caller' = [caller EXCEPT ![c] = Acting({}, 0, caller[c].todo \ {p})]
  /\ UNCHANGED dep

(* removePods goes on after a victim it could not remove. *)
SkipVictim(c) ==
  /\ caller[c].pc = "remove"
  /\ \E p \in caller[c].todo :
       caller' = [caller EXCEPT ![c] = Acting({}, 0, caller[c].todo \ {p})]
  /\ UNCHANGED <<dep, pods, stops, revived>>

(* A Redis error ends the call. *)
CallFails(c) ==
  /\ caller[c].pc # "idle"
  /\ caller' = [caller EXCEPT ![c] = IdleCaller]
  /\ UNCHANGED <<dep, pods, stops, revived>>

(* What a call does next when nothing fails. *)
Proceed(c) ==
  \/ ReadDeployment(c)
  \/ ScanPods(c)
  \/ ReadPods(c)
  \/ DropEvicted(c)
  \/ CreatePod(c)
  \/ Unschedulable(c)
  \/ SendStop(c)
  \/ ForceRemove(c)

(***************************************************************************)
(* The deployment's writers and the agents.                                *)
(***************************************************************************)

(* A create, a scale request or the autoscaler. *)
SetDesired ==
  /\ dep' \in 1 .. MaxDesired
  /\ UNCHANGED <<pods, stops, caller, revived>>

(* Nothing in the repository deletes a deployment, but the controller is
   written for it. *)
DeleteDeployment ==
  /\ dep # Gone
  /\ dep' = Gone
  /\ UNCHANGED <<pods, stops, caller, revived>>

(* HSET of a status over the one that is there, Evicted included.  Where the
   record is gone it leaves a hash that nobody can parse. *)
SetStatus(p, status) ==
  /\ Exists(p)
  /\ pods' = [pods EXCEPT ![p] = status]
  /\ revived' = IF pods[p] = "Evicted" THEN revived \cup {p} ELSE revived
  /\ UNCHANGED <<dep, stops, caller>>

(* launch: by a start command, by the health checker or at startup, whatever
   happened to the pod since Spawn read it. *)
PodStarts(p) == SetStatus(p, "Running")

(* checkPod and restartIfBackoffElapsed: it does not answer, or is tried again. *)
PodFails(p) == SetStatus(p, "Pending")

(* evictScript, on a pod of a node that is taken for dead. *)
EvictPod(p) ==
  /\ p \in Live
  /\ pods' = [pods EXCEPT ![p] = "Evicted"]
  /\ revived' = revived \ {p}
  /\ UNCHANGED <<dep, stops, caller>>

(* StopAndRemove. *)
ExecuteStop(p) ==
  /\ p \in stops
  /\ Forget({p})
  /\ UNCHANGED <<dep, caller>>

(* The agent that popped the command dies, or StopAndRemove fails. *)
LoseStop(p) ==
  /\ p \in stops
  /\ stops' = stops \ {p}
  /\ UNCHANGED <<dep, pods, caller, revived>>

(* cmd/api-server dies, and all callers with it. *)
ControlPlaneCrash ==
  /\ caller' = [c \in Callers |-> IdleCaller]
  /\ UNCHANGED <<dep, pods, stops, revived>>

Init ==
  /\ dep = Gone
  /\ pods = [p \in Pods |-> None]
  /\ stops = {}
  /\ caller = [c \in Callers |-> IdleCaller]
  /\ revived = {}

Next ==
  \/ Sweep
  \/ \E c \in Others : ReceiveEvent(c) \/ TriggerSchedule(c)
  \/ \E c \in Callers : Proceed(c) \/ SkipVictim(c) \/ CallFails(c)
  \/ SetDesired
  \/ DeleteDeployment
  \/ \E p \in Pods : \/ PodStarts(p) \/ PodFails(p) \/ EvictPod(p)
                     \/ ExecuteStop(p) \/ LoseStop(p)
  \/ ControlPlaneCrash

Spec == Init /\ [][Next]_vars

(* The sweep never stops ticking, a call goes on while its process lives, and
   a live agent executes the commands in its queue. *)
Fairness ==
  /\ WF_vars(Sweep)
  /\ \A c \in Callers : WF_vars(Proceed(c))
  /\ \A p \in Pods : WF_vars(ExecuteStop(p))

FairSpec == Spec /\ Fairness

--------------------------------------------------------------------------------

(* Everything keeps its type; in particular no call sets out to create more
   replicas than a count that was desired (ReconcileDeployment). *)
TypeOK ==
  /\ dep \in Counts \cup {Gone}
  /\ pods \in [Pods -> Statuses \cup {None}]
  /\ stops \subseteq Pods
  /\ caller \in [Callers -> CallerStates]
  /\ revived \subseteq Live

(* The replicas that running calls have decided to create and have not yet. *)
Underway == {x \in Callers \X (1 .. MaxDesired) : x[2] <= caller[x[1]].left}

(* Reconciliations that run at the same time act on the same stale count and
   may create too many replicas (ReconcileDeployment, handleTriggerSchedule):
   with those still to come there is one full set for each of them, however
   often they run, fail and crash, because whoever starts later sees what is
   there.  What goes beyond that are pods that had been counted out as evicted
   and that an agent brought back. *)
OvershootBounded ==
  Cardinality(Live \ revived) + Cardinality(Underway)
    <= Cardinality(Callers) * MaxDesired

(* Nothing from outside happens to the replicas in this step: the desired count
   stays, no event and no schedule request comes in, no node is evicted, and no
   call, command or process of the control plane is lost. *)
Undisturbed ==
  /\ dep' = dep
  /\ \A c \in Others : ~ ReceiveEvent(c) /\ ~ TriggerSchedule(c)
  /\ \A c \in Callers : ~ SkipVictim(c) /\ ~ CallFails(c)
  /\ \A p \in Pods : ~ EvictPod(p) /\ ~ LoseStop(p)
  /\ ~ ControlPlaneCrash

Settled ==
  /\ Cardinality(Live) = IF dep = Gone THEN 0 ELSE dep
  /\ \A p \in Pods : pods[p] # "Evicted"

(* After any storm of scaling, evictions, lost events, duplicated and lost stop
   commands and crashes, the sweep alone brings the number of replicas to the
   desired one and leaves it there, although pods keep failing and restarting,
   those that had been evicted among them (ReconcileAll, ReconcileDeployment). *)
Converges == <>[][Undisturbed]_vars => <>[]Settled
================================================================================
