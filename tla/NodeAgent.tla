------------------------------- MODULE NodeAgent -------------------------------
(***************************************************************************)
(* A node agent as the rest of the cluster sees it: cmd/node-agent/main.go *)
(* (the order of start and shutdown), internal/node (registration and the  *)
(* lease) and internal/supervisor's command consumer with the Redis side   *)
(* of Spawn and StopAndRemove.  Whether a workload process is alive is not *)
(* part of this module: where the code asks, both answers are possible.    *)
(***************************************************************************)
EXTENDS ClusterState

VARIABLE agent   \* each agent's local variables

AgentStates ==
  [ phase : {"down", "scan", "count", "join", "lease", "adopt",
             "serve"},
    op    : {"none", "adopt", "spawn", "launch", "stop", "purge", "clear", "release",
             "delete"},
    todo  : SUBSET Pods,            \* keys of a scan still to be read
    found : SUBSET Pods,            \* pods ReconcileAllocations has counted
    pod   : Pods \cup {NoPod},      \* the pod op works on
    rec   : PodRecord ]             \* its record as StopAndRemove read it

DownAgent ==
  [phase |-> "down", op |-> "none", todo |-> {}, found |-> {},
   pod |-> NoPod, rec |-> Absent]

ServingAgent == [DownAgent EXCEPT !.phase = "serve"]

(* ScanKeys of the pod pattern. *)
PodKeys == {p \in Pods : pods[p].exists}

OpDone(a) == [a EXCEPT !.op = "none", !.pod = NoPod, !.rec = Absent]

(***************************************************************************)
(* Start: Register, the first Heartbeat, ReconcileOnStartup.               *)
(***************************************************************************)
Boot(n) ==
  /\ agent[n].phase = "down"
  /\ agent' = [agent EXCEPT ![n].phase = "scan"]
  /\ UNCHANGED redisVars

(* ReconcileAllocations: SCAN. *)
ScanPods(n) ==
  /\ agent[n].phase = "scan"
  /\ agent' = [agent EXCEPT ![n] = [@ EXCEPT !.phase = "count", !.todo = PodKeys]]
  /\ UNCHANGED redisVars

(* ReconcileAllocations: HGETALL of one key; counts the pods on record here
   that consume capacity. *)
CountPod(n) ==
  /\ agent[n].phase = "count"
  /\ \E p \in agent[n].todo :
       agent' = [agent EXCEPT ![n] =
                   [@ EXCEPT !.todo = agent[n].todo \ {p},
                             !.found = agent[n].found \cup ({p} \cap Bound(n))]]
  /\ UNCHANGED redisVars

(* Register: HSET of the whole capacity hash, the counted sums included. *)
PublishCapacity(n) ==
  /\ agent[n].phase = "count"
  /\ agent[n].todo = {}
  /\ alloc' = [alloc EXCEPT ![n] =
                 [r \in Resources |-> Demand(agent[n].found, r)]]
  /\ published' = published \cup {n}
  /\ leaked' = [leaked EXCEPT ![n] = {}]
  /\ agent' = [agent EXCEPT ![n] = [@ EXCEPT !.phase = "join", !.found = {}]]
  /\ UNCHANGED <<registry, lease, pods, cmds, issued, expiries>>

(* Register: SADD to the registry, last. *)
JoinRegistry(n) ==
  /\ agent[n].phase = "join"
  /\ registry' = registry \cup {n}
  /\ agent' = [agent EXCEPT ![n].phase = "lease"]
  /\ UNCHANGED <<lease, published, alloc, pods, cmds, issued, leaked, expiries>>

(* The first Heartbeat, then the keys ReconcileOnStartup scans. *)
FirstHeartbeat(n) ==
  /\ agent[n].phase = "lease"
  /\ lease' = lease \cup {n}
  /\ agent' = [agent EXCEPT ![n] = [@ EXCEPT !.phase = "adopt", !.todo = PodKeys]]
  /\ UNCHANGED <<registry, published, alloc, pods, cmds, issued, leaked, expiries>>

(* Mutant of AdoptPod: any pod that holds capacity anywhere is respawned. *)
AdoptForeignPod(n) ==
  /\ agent[n].phase = "adopt"
  /\ agent[n].op = "none"
  /\ \E p \in agent[n].todo :
       agent' = [agent EXCEPT ![n] =
                   [@ EXCEPT !.todo = agent[n].todo \ {p}, !.op = "spawn", !.pod = p]]
  /\ UNCHANGED redisVars

(* ReconcileOnStartup: one key.  A pod of this node that is not evicted is
   adopted (at most its status is corrected to Running) or respawned. *)
AdoptPod(n) ==
  /\ agent[n].phase = "adopt"
  /\ agent[n].op = "none"
  /\ \E p \in agent[n].todo :
       \/ /\ p \notin Bound(n)
          /\ agent' = [agent EXCEPT ![n].todo = @ \ {p}]
       \/ /\ p \in Bound(n)
          /\ \E next \in {"none", "adopt", "spawn"} :
               agent' = [agent EXCEPT ![n] =
                           [@ EXCEPT !.todo = agent[n].todo \ {p}, !.op = next,
                                     !.pod = IF next = "none" THEN NoPod ELSE p]]
  /\ UNCHANGED redisVars

(* ReconcileOnStartup: HSET of Running for an adopted pod; a failed HSET is
   only logged. *)
AdoptWrite(n) ==
  /\ agent[n].op = "adopt"
  /\ \/ pods' = [pods EXCEPT ![agent[n].pod] = WithStatus(@, "Running")]
     \/ UNCHANGED pods
  /\ agent' = [agent EXCEPT ![n] = OpDone(@)]
  /\ UNCHANGED <<registry, lease, published, alloc, cmds, issued, leaked, expiries>>

(* The consumer starts once every key was handled. *)
StartConsumer(n) ==
  /\ agent[n].phase = "adopt"
  /\ agent[n].op = "none"
  /\ agent[n].todo = {}
  /\ agent' = [agent EXCEPT ![n].phase = "serve"]
  /\ UNCHANGED redisVars

(***************************************************************************)
(* The command consumer: one command at a time, popped before it is acted  *)
(* upon.                                                                   *)
(***************************************************************************)
PopCommand(n) ==
  /\ agent[n].phase = "serve"
  /\ agent[n].op = "none"
  /\ cmds[n] # <<>>
  /\ agent' = [agent EXCEPT ![n] =
       [@ EXCEPT !.op = IF Head(cmds[n]).type = "start" THEN "spawn" ELSE "stop",
                 !.pod = Head(cmds[n]).pod]]
  /\ cmds' = [cmds EXCEPT ![n] = Tail(@)]
  /\ UNCHANGED <<registry, lease, published, alloc, pods, issued, leaked, expiries>>

(* Spawn reads the pod.  A missing or unreadable one, a deleted deployment,
   a port that cannot be had and a process that is already running all end
   it; its status is not looked at. *)
SpawnRead(n) ==
  /\ agent[n].op = "spawn"
  /\ \/ agent' = [agent EXCEPT ![n] = OpDone(@)]
     \/ /\ Readable(pods[agent[n].pod])
        /\ agent' = [agent EXCEPT ![n].op = "launch"]
  /\ UNCHANGED redisVars

(* launch records the new process as Running, or markFailedIfSpawnFails
   records Failed, on whatever is at the key by now; or the HSET fails. *)
SpawnWrite(n) ==
  /\ agent[n].op = "launch"
  /\ \/ \E s \in {"Running", "Failed"} :
          pods' = [pods EXCEPT ![agent[n].pod] = WithStatus(@, s)]
     \/ UNCHANGED pods
  /\ agent' = [agent EXCEPT ![n] = OpDone(@)]
  /\ UNCHANGED <<registry, lease, published, alloc, cmds, issued, leaked, expiries>>

(* StopAndRemove reads the pod; one that cannot be parsed is only deleted. *)
StopRead(n) ==
  LET rec == pods[agent[n].pod]
  IN  /\ agent[n].op = "stop"
      /\ agent' = [agent EXCEPT ![n] =
                     IF ~ rec.exists THEN OpDone(@)
                     ELSE IF ~ Readable(rec) THEN [@ EXCEPT !.op = "purge"]
                     ELSE [@ EXCEPT !.op = "clear", !.rec = rec]]
      /\ UNCHANGED redisVars

(* Stop: the process is terminated, then its identity is cleared by an HSET
   that recreates a record deleted since Stop read it.  A record that was
   gone when Stop read it is left alone; one that has become unreadable ends
   the operation. *)
ClearIdentity(n) ==
  LET rec == pods[agent[n].pod]
  IN  /\ agent[n].op = "clear"
      /\ \/ /\ pods' = [pods EXCEPT ![agent[n].pod] = WithStatus(@, rec.status)]
            /\ agent' = [agent EXCEPT ![n].op = "release"]
         \/ /\ ~ rec.exists
            /\ agent' = [agent EXCEPT ![n].op = "release"]
            /\ UNCHANGED pods
         \/ /\ rec.exists /\ ~ Readable(rec)
            /\ agent' = [agent EXCEPT ![n] = OpDone(@)]
            /\ UNCHANGED pods
      /\ UNCHANGED <<registry, lease, published, alloc, cmds, issued, leaked,
                     expiries>>

(* releaseCapacity, judged by the status StopAndRemove read at its start. *)
ReleaseCapacity(n) ==
  LET rec == agent[n].rec
  IN  /\ agent[n].op = "release"
      /\ alloc' = IF ConsumesCapacity(rec.status)
                  THEN Released(rec.node, PodReq(agent[n].pod)) ELSE alloc
      /\ agent' = [agent EXCEPT ![n].op = "delete"]
      /\ UNCHANGED <<registry, lease, published, pods, cmds, issued, leaked,
                     expiries>>

(* Mutant of RemoveRecord: the record is left behind. *)
RemoveRecordSkipped(n) ==
  /\ agent[n].op \in {"delete", "purge"}
  /\ agent' = [agent EXCEPT ![n] = OpDone(@)]
  /\ UNCHANGED redisVars

(* The DEL that ends StopAndRemove. *)
RemoveRecord(n) ==
  /\ agent[n].op \in {"delete", "purge"}
  /\ pods' = [pods EXCEPT ![agent[n].pod] = Absent]
  /\ agent' = [agent EXCEPT ![n] = OpDone(@)]
  /\ UNCHANGED <<registry, lease, published, alloc, cmds, issued, leaked, expiries>>

(* A Redis error ends a stop where it is.  Only a flaky node fails between
   the release and the DEL. *)
StopFails(n) ==
  /\ \/ agent[n].op \in {"stop", "purge", "clear", "release"}
     \/ agent[n].op = "delete" /\ n \in Flaky
  /\ agent' = [agent EXCEPT ![n] = OpDone(@)]
  /\ UNCHANGED redisVars

(***************************************************************************)
(* The lease, and the ways an agent goes away.                             *)
(***************************************************************************)

(* RunHeartbeatLoop: SET with the TTL.  It never registers again. *)
Heartbeat(n) ==
  /\ agent[n].phase \in {"adopt", "serve"}
  /\ lease' = lease \cup {n}
  /\ UNCHANGED <<registry, published, alloc, pods, cmds, issued, leaked, agent,
                 expiries>>

(* The TTL passes without a refresh: the agent is dead, stalled or cut off. *)
LeaseExpires(n) ==
  /\ n \in Flaky
  /\ n \in lease
  /\ lease' = lease \ {n}
  /\ expiries' = expiries \cup {n}
  /\ UNCHANGED <<registry, published, alloc, pods, cmds, issued, leaked, agent>>

(* A crash, or an error that makes run() return. *)
AgentDies(n) ==
  /\ n \in Flaky
  /\ agent[n].phase # "down"
  /\ agent' = [agent EXCEPT ![n] = DownAgent]
  /\ UNCHANGED redisVars

(* Deregister on a clean shutdown: the DEL of the lease raises no expiry
   notification, and the node stays in the registry. *)
Deregister(n) ==
  /\ n \in Flaky
  /\ agent[n].phase \in {"adopt", "serve"}
  /\ lease' = lease \ {n}
  /\ agent' = [agent EXCEPT ![n] = DownAgent]
  /\ UNCHANGED <<registry, published, alloc, pods, cmds, issued, leaked, expiries>>

RegisterStep(n) ==
  \/ Boot(n)
  \/ ScanPods(n)
  \/ CountPod(n)
  \/ PublishCapacity(n)
  \/ JoinRegistry(n)
  \/ FirstHeartbeat(n)
  \/ AdoptPod(n)
  \/ AdoptWrite(n)
  \/ StartConsumer(n)

ConsumerStep(n) ==
  \/ PopCommand(n)
  \/ SpawnRead(n)
  \/ SpawnWrite(n)
  \/ StopRead(n)
  \/ ClearIdentity(n)
  \/ ReleaseCapacity(n)
  \/ RemoveRecord(n)
  \/ StopFails(n)

LeaseStep(n) ==
  \/ Heartbeat(n)
  \/ LeaseExpires(n)
  \/ AgentDies(n)
  \/ Deregister(n)

AgentStep(n) == RegisterStep(n) \/ ConsumerStep(n) \/ LeaseStep(n)

AgentTypeOK == agent \in [Nodes -> AgentStates]

AgentInit == agent = [n \in Nodes |-> IF n \in Flaky THEN DownAgent ELSE ServingAgent]
================================================================================
