----------------------------- MODULE ClusterState -----------------------------
(***************************************************************************)
(* The keys of the cluster's Redis database that placement, removal, node  *)
(* registration and eviction share, and the two capacity scripts that run  *)
(* atomically inside Redis (internal/capacity, internal/schema).           *)
(*                                                                         *)
(* The control plane and the node agents have no other shared state, so    *)
(* every action of the modules that extend this one is one Redis command   *)
(* or one script, and what a goroutine remembers between two of them is in *)
(* a variable of its own module.                                           *)
(***************************************************************************)
EXTENDS Integers, FiniteSets, Sequences

CONSTANTS
  Nodes,    \* node ids; numbers, so that their order stands for string order
  Pods,     \* the pod ids newPodID may draw
  Deps,     \* deployments
  DepOf,    \* the deployment in a pod's key: [Pods -> Deps]
  Req,      \* a deployment's request: [Deps -> [Resources -> 1..]]
  Total,    \* a node's configured capacity: [Nodes -> [Resources -> 1..]]
  Flaky,    \* nodes whose agent may crash, stall, lose its lease or fail a write
  NoNode,   \* the node_id of a record that has none
  NoPod,    \* no pod
  MaxQueue  \* bound on the length of a command queue

(* The two dimensions every request and every node is measured in. *)
Resources == {"cpu", "mem"}

(* Pending, Running, Failed and Evicted as in schema.go; CrashLoopBackOff,
   which only the health checker writes, behaves as Failed for everything
   modelled here. "" is the status of a record that has no such field. *)
Statuses == {"Pending", "Running", "Failed", "Evicted", ""}

ASSUME NodesAssumption == Nodes \subseteq Nat /\ NoNode \notin Nodes

ASSUME FiniteAssumption == IsFiniteSet(Nodes) /\ IsFiniteSet(Pods)

ASSUME PodsAssumption == NoPod \notin Pods /\ DepOf \in [Pods -> Deps]

(* Validate (api/validate.go) requires requests of at least 1, and
   NewRegistrar (node/node.go) positive capacities. *)
ASSUME ReqAssumption == Req \in [Deps -> [Resources -> Nat \ {0}]]

ASSUME TotalAssumption == Total \in [Nodes -> [Resources -> Nat \ {0}]]

ASSUME FlakyAssumption == Flaky \subseteq Nodes

ASSUME QueueAssumption == MaxQueue \in Nat

VARIABLES
  registry,   \* nodes:registry, the set of registered nodes
  lease,      \* the nodes whose node:<id>:status key exists
  published,  \* the nodes that have a node:<id>:capacity hash
  alloc,      \* allocated_cpu and allocated_mem of those hashes
  pods,       \* pod:<deployment>:<id> hashes
  cmds,       \* node:<id>:commands lists
  expiries,   \* lease-expired notifications on their way to the subscriber
  issued,     \* pod ids drawn so far: a 64-bit random id is never drawn twice
  leaked      \* per node, pods whose reservation nobody will give back (ghost)

redisVars ==
  <<registry, lease, published, alloc, pods, cmds, expiries, issued, leaked>>

(***************************************************************************)
(* Pod records.  HSET on a key that was deleted meanwhile creates a record *)
(* that holds only the fields of that HSET: it has no node_id and no       *)
(* cpu_request, so MapToPod fails on it and every reader skips it.         *)
(***************************************************************************)
PodRecord == [exists : BOOLEAN, node : Nodes \cup {NoNode}, status : Statuses]

Absent == [exists |-> FALSE, node |-> NoNode, status |-> ""]

(* MapToPod succeeds: the record exists and is complete. *)
Readable(rec) == rec.exists /\ rec.node # NoNode

(* schema.ConsumesCapacity: only Evicted gives the reservation up. *)
ConsumesCapacity(status) == status # "Evicted"

(* HSET pod status s, on whatever is at the key now. *)
WithStatus(rec, s) == [exists |-> TRUE, node |-> rec.node, status |-> s]

PodReq(p) == Req[DepOf[p]]

(* The pods on record at n that hold a reservation there. *)
Bound(n) == {p \in Pods : pods[p].node = n /\ ConsumesCapacity(pods[p].status)}

(***************************************************************************)
(* Demand(S, r) is the sum of the requests for r of the pods in S, written *)
(* as the number of units they ask for: unit i of pod p is the pair <<p,i>>*)
(***************************************************************************)
UnitsOf(p, r) == {p} \X (1 .. PodReq(p)[r])

Units(S, r) == UNION {UnitsOf(p, r) : p \in S}

Demand(S, r) == Cardinality(Units(S, r))

(***************************************************************************)
(* The capacity scripts.                                                   *)
(***************************************************************************)

(* Mutant of Fits: the processor is not looked at. *)
FitsMemoryOnly(n, req) ==
  n \in published /\ Total[n]["mem"] - alloc[n]["mem"] >= req["mem"]

(* reserveScript: mutates nothing unless the request fits in both. *)
Fits(n, req) ==
  /\ n \in published
  /\ \A r \in Resources : Total[n][r] - alloc[n][r] >= req[r]

Reserved(n, req) ==
  [alloc EXCEPT ![n] = [r \in Resources |-> alloc[n][r] + req[r]]]

(* Mutant of Released: no clamp. *)
ReleasedUnclamped(n, req) ==
  IF n \notin published THEN alloc ELSE
  [alloc EXCEPT ![n] = [r \in Resources |-> alloc[n][r] - req[r]]]

(* releaseScript: a node without a capacity hash is left alone, and an
   allocation is clamped at zero. *)
Released(n, req) ==
  IF n \notin published THEN alloc ELSE
  [alloc EXCEPT ![n] = [r \in Resources |->
                          IF alloc[n][r] - req[r] < 0 THEN 0
                          ELSE alloc[n][r] - req[r]]]

(* SendCommand: RPUSH on the node's list. *)
CanSend(n) == Len(cmds[n]) < MaxQueue

Sent(n, type, p) == [cmds EXCEPT ![n] = Append(@, [type |-> type, pod |-> p])]

Commands == [type : {"start", "stop"}, pod : Pods]

RedisTypeOK ==
  /\ registry \subseteq Nodes
  /\ lease \subseteq Nodes
  /\ published \subseteq Nodes
  /\ alloc \in [Nodes -> [Resources -> Nat]]
  /\ pods \in [Pods -> PodRecord]
  /\ cmds \in [Nodes -> Seq(Commands)]
  /\ expiries \subseteq Nodes
  /\ issued \subseteq Pods
  /\ leaked \in [Nodes -> SUBSET Pods]

(* Nodes that are not flaky were registered by an earlier, quiet start; a
   flaky node joins when its agent boots. *)
RedisInit ==
  /\ registry = Nodes \ Flaky
  /\ lease = Nodes \ Flaky
  /\ published = Nodes \ Flaky
  /\ alloc = [n \in Nodes |-> [r \in Resources |-> 0]]
  /\ pods = [p \in Pods |-> Absent]
  /\ cmds = [n \in Nodes |-> <<>>]
  /\ expiries = {}
  /\ issued = {}
  /\ leaked = [n \in Nodes |-> {}]
===============================================================================
