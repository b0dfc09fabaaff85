------------------------------ MODULE PodRemoval ------------------------------
(***************************************************************************)
(* internal/controller/replica.go, the removal half: the goroutines that   *)
(* run removePods on a surplus or orphaned pod, and the deletion of the    *)
(* records of evicted pods.  Which pods are victims is decided by the      *)
(* delta engine; here any readable pod may be one.  A remover works on the *)
(* record it read earlier, however old that is by now.                     *)
(***************************************************************************)
EXTENDS ClusterState

CONSTANT Removers  \* goroutines that may be removing pods

VARIABLE remover   \* each remover's local variables

RemoverStates ==
  [ pc  : {"idle", "members", "lease", "send", "release", "delete"},
    pod : Pods \cup {NoPod},
    rec : PodRecord ]               \* the record as podsForDeployment read it

IdleRemover == [pc |-> "idle", pod |-> NoPod, rec |-> Absent]

(* podsForDeployment or reapOrphanPods reads a pod that is to be removed. *)
PickVictim(x) ==
  /\ remover[x].pc = "idle"
  /\ \E p \in Pods :
       /\ Readable(pods[p])
       /\ remover' = [remover EXCEPT ![x] =
                        [pc |-> "members", pod |-> p, rec |-> pods[p]]]
  /\ UNCHANGED redisVars

(* ReconcileDeployment reads an evicted pod: its record is deleted without
   asking the node and without a release. *)
PickEvicted(x) ==
  /\ remover[x].pc = "idle"
  /\ \E p \in Pods :
       /\ Readable(pods[p])
       /\ pods[p].status = "Evicted"
       /\ remover' = [remover EXCEPT ![x] =
                        [pc |-> "delete", pod |-> p, rec |-> pods[p]]]
  /\ UNCHANGED redisVars

(* Mutant of CheckMember: the pod is removed without asking its node. *)
CheckMemberForced(x) ==
  /\ remover[x].pc = "members"
  /\ remover' = [remover EXCEPT ![x].pc = "release"]
  /\ UNCHANGED redisVars

(* LiveNodes, as far as the victim's node is concerned: in the registry? *)
CheckMember(x) ==
  /\ remover[x].pc = "members"
  /\ remover' = [remover EXCEPT ![x].pc =
                   IF remover[x].rec.node \in registry THEN "lease" ELSE "release"]
  /\ UNCHANGED redisVars

(* LiveNodes, as far as the victim's node is concerned: lease present? *)
CheckVictimLease(x) ==
  /\ remover[x].pc = "lease"
  /\ remover' = [remover EXCEPT ![x].pc =
                   IF remover[x].rec.node \in lease THEN "send" ELSE "release"]
  /\ UNCHANGED redisVars

(* The node is live: it is asked to stop the pod. *)
SendStop(x) ==
  /\ remover[x].pc = "send"
  /\ CanSend(remover[x].rec.node)
  /\ cmds' = Sent(remover[x].rec.node, "stop", remover[x].pod)
  /\ remover' = [remover EXCEPT ![x] = IdleRemover]
  /\ UNCHANGED <<registry, lease, published, expiries, alloc, pods, issued, leaked>>

(* forceRemove, first half: the release, judged by the status read earlier. *)
ForceRelease(x) ==
  /\ remover[x].pc = "release"
  /\ alloc' = IF ConsumesCapacity(remover[x].rec.status)
              THEN Released(remover[x].rec.node, PodReq(remover[x].pod))
              ELSE alloc
  /\ remover' = [remover EXCEPT ![x].pc = "delete"]
  /\ UNCHANGED <<registry, lease, published, expiries, pods, cmds, issued, leaked>>

(* forceRemove, second half, and deletePodRecords: the DEL. *)
DeleteRecord(x) ==
  /\ remover[x].pc = "delete"
  /\ pods' = [pods EXCEPT ![remover[x].pod] = Absent]
  /\ remover' = [remover EXCEPT ![x] = IdleRemover]
  /\ UNCHANGED <<registry, lease, published, expiries, alloc, cmds, issued, leaked>>

(* A Redis error ends the removal of this victim where it is. *)
RemovalFails(x) ==
  /\ remover[x].pc # "idle"
  /\ remover' = [remover EXCEPT ![x] = IdleRemover]
  /\ UNCHANGED redisVars

RemovalStep(x) ==
  \/ PickVictim(x)
  \/ PickEvicted(x)
  \/ CheckMember(x)
  \/ CheckVictimLease(x)
  \/ SendStop(x)
  \/ ForceRelease(x)
  \/ DeleteRecord(x)
  \/ RemovalFails(x)

RemoversDie == remover' = [x \in Removers |-> IdleRemover]

RemovalTypeOK == remover \in [Removers -> RemoverStates]

RemovalInit == remover = [x \in Removers |-> IdleRemover]
===============================================================================
