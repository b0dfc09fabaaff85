# Verification of mini-k8s

mini-k8s is a small orchestrator written in Go. Its processes share no memory: the
control plane (`cmd/api-server`) and one agent per node (`cmd/node-agent`) talk through
one Redis database. Most of what can go wrong in it is therefore an interleaving of Redis
commands issued by goroutines that each remember something they read earlier. This
directory models those goroutines in TLA+, checks them with TLC and proves their
safety properties with TLAPS.

## 1. The system

| Component | Source | State it keeps | Operations |
|---|---|---|---|
| Capacity scripts | `internal/capacity` | `node:<id>:capacity` counters | atomic reserve, release |
| Scheduler | `internal/scheduler` | locals of each placement | LiveNodes, bestFitOrder, scheduleOne, rollback |
| Replica controller | `internal/controller/replica.go` | locals of each reconcile | delta engine, removePods, forceRemove, orphan reaping |
| Node health controller | `internal/controller/health.go` | locals of sweeper and subscriber | SweepOnce, EvictNode, evictScript |
| Autoscaler | `internal/controller/autoscale.go` | none (one script) | autoscaleScript |
| API and store | `internal/api` | `deployment:<name>` hashes | Apply, SetDesiredReplicas, trigger-schedule |
| Node registrar | `internal/node` | registry, lease, capacity hash | Register, Heartbeat, Deregister |
| Supervisor | `internal/supervisor` | pod records, processes | command consumer, Spawn, Stop, health checker, startup reconcile |
| Ingress | `internal/ingress` | nginx configuration | Sync, debounce, reload |


How they interact. The API server, the replica, health and autoscaling controllers and the
ingress run as goroutines of `cmd/api-server`; the registrar and the supervisor run in
`cmd/node-agent`. A placement is: the replica controller finds a deficit, the scheduler
reads the registry, leases and capacities, reserves capacity with a script, writes the pod
record and pushes a `start` command on the node's list; the agent's consumer pops it, starts
a process and writes its pid to the record. A removal is the reverse: a `stop` command, or,
if the node is gone, `forceRemove` in the control plane. Three further writers work on the
same keys without a lock: the health controller evicts, a restarting agent recomputes its
counters and adopts its pods, and the agent's health checker restarts processes.

What is hard, and what each part has to keep:

- *Accounting.* Reservation and record are two commands, and so are release and deletion.
  Any of them may fail or be the last before a crash. The counters must be the sum of what
  is placed, and a node must not be given more than it has (`ExactAccounting`,
  `NoOvercommit`).
- *Ownership.* Commands wait in queues while pods are evicted, deleted and replaced. No agent
  may act on another node's pod (`CommandsReachOwner`).
- *Failure detection.* Leases expire, notifications are lost, nodes flap. A dead node must
  go (`DeadNodeForgotten`), one that is back should return (`RejoinsAfterFlap`).
- *Processes.* A process exists before its pid is recorded; three goroutines may spawn the
  same pod, and the control plane may evict it or delete its record meanwhile. After a
  restart there is one process per pod (`StartupLeavesOneProcess`), a
  second one needs a particular overlap (`OnlyRacesDuplicate`), and a dead one is replaced
  (`DeadProcessReplaced`).
- *Desired count.* Edits, manual scaling and the autoscaler write one record
  (`OnlyStaleScaleLeavesBounds`, `ReturnsToBounds`).
- *Actual count.* The sweep, the event subscriber and the API's schedule handler compare one
  count with one deployment at the same time, each with its own readings. They may create
  too many replicas, but only so many (`OvershootBounded`; evicted pods that their agent
  brings back come on top), and the count must come to the
  desired one when only the sweep is left (`Converges`).
- *Routing.* Nothing announces that a pod serves. The configuration must follow all the same
  (`RoutesFollow`), without a reload that is not needed (`ReloadsCease`), which rests on the
  controller's memory of what it wrote (`CacheMatchesFile`, `RememberedIsLoaded`).

`PROJECT.json` lists each hazard at its source line with the properties aimed at it.

## 2. Modules

| Module | Models | Extends |
|---|---|---|
| `ClusterState` | the shared keys; the reserve and release scripts | |
| `Scheduler` | `ScheduleReplicas` as one step per Redis round trip | `ClusterState` |
| `PodRemoval` | `removePods`, `forceRemove`, `reapOrphanPods`, `deletePodRecords` | `ClusterState` |
| `NodeHealth` | sweeper, expiry subscriber, `EvictNode`, `evictScript` | `ClusterState` |
| `NodeAgent` | `Register`, heartbeats, startup adoption, the command consumer's effect on records and capacity, crash, `Deregister` | `ClusterState` |
| `Cluster` | all of these over one Redis; safety properties; the inductive invariant | the four above |
| `ClusterLiveness`, `ClusterClaims` | fairness and liveness; claims the code does not keep | `Cluster` |
| `CapacityLedger` | the abstract specification of capacity: grants and returns, one at a time | |
| `ClusterLedger` | the refinement mapping from the cluster to the ledger | `Cluster` |
| `Replicas` | one deployment's delta engine with its three callers, `selectVictims`, orphan reaping | |
| `Ingress` | `watch`, `Run`, `Sync`, `write`, `reload` | |
| `Supervisor`, `SupervisorClaims` | one node's processes: `ReconcileOnStartup`, `killOrphans`, `Spawn`, `launch`, `Stop`, `StopAndRemove`, the health checker | |
| `SupervisorRaces` | a history variable: which pods two goroutines were at together | `Supervisor` |
| `Deployments` | one deployment's record: `Apply`, `SetDesiredReplicas`, `autoscaleScript` | |
| `MCCluster`, `MCSupervisor`, `MCDeployments` | constants and symmetry for TLC | |
| `CapacityProofs`, `ClusterProofs`, `AccountingProofs` | sums of requests; theorems about `Cluster` | |
| `LedgerProofs` | the cluster implements `CapacityLedger` | `AccountingProofs`, `ClusterLedger` |
| `DeploymentProofs` | theorems about `Deployments` | |
| `SupervisorProofs` | theorems about `Supervisor` and `SupervisorRaces` | |
| `ReplicaProofs` | theorems about `Replicas` | |
| `IngressProofs` | theorems about `Ingress` | |

**Grain.** A Redis command or a script is one action. Whatever a Go function remembers
between two commands is in a record that belongs to its goroutine (`worker`, `remover`,
`monitor`, `agent`, `thread`, `request`), whose `pc` names the command that comes next. A
crash empties these records and leaves Redis, and the processes, as they are.

**Correspondence of the state.** `registry` is `nodes:registry`, `lease` the nodes whose
`node:<id>:status` key exists, `published` and `alloc` the `node:<id>:capacity` hashes,
`pods` and `records` the `pod:<deployment>:<id>` hashes, `cmds` the command lists, `dep` the
`deployment:<name>` hash. `expiries` holds key-space notifications on their way. `issued` and
`leaked` are ghosts: the ids drawn so far, and reservations lost by a crash of the control
plane or a failed rollback, which the code itself does not track. So are `revived` in
`Replicas`, the live pods that an agent brought back from an eviction, and in `Supervisor` the
stages `unsent` and `dropped` of a pod whose record the control plane deleted itself.

**Behaviour of Redis that matters.** `HSET` on a key deleted meanwhile creates a partial
record, which `MapToPod` rejects (`Readable`, `whole`). `BLPOP` removes a command before it
is carried out. `SCAN` gives keys that are read one by one later. A lease that was renewed
cannot expire, but one that was not may go at any moment.

**Actions.** Every action carries the name of the Go function or of the round trip it
stands for; `map` in `PROJECT.json` gives the lines. A few words on those that are not
obvious:

- `Scheduler!Reserve` tries the best candidate of those that are left by `Before`, an
  exact integer form of the score of `bestFitOrder`, with the readings the worker took before. A failed
  reservation removes the candidate and the next one is tried.
- `WritePodFails` keeps the reservation in the worker's hands until `ReleaseAfterFailure`
  gives it back or fails to.
- `NodeAgent!ScanPods`, `CountPod` and `PublishCapacity` are `ReconcileAllocations` and the
  `HSET` of `Register`: the counters are overwritten with a sum taken over several reads.
- `Supervisor!SpawnRead` to `RecordIdentity` are `Spawn` and `launch`, shared by the
  goroutines `main`, `consumer` and `checker`; a process lives from `StartProcess` on and is
  on record only after `RecordIdentity`.
- `Replicas` composes at a coarser grain: a placement, a stop command, its execution and a
  forced removal, which `Scheduler`, `PodRemoval` and `NodeAgent` take apart, are one step each, and
  what is kept apart are the readings on which the callers decide (`ReadDeployment`,
  `ScanPods`, `ReadPods`) and the acts that follow. `Sweep` finds the deployment or not when it starts;
  if not, it will treat every pod it reads later as an orphan, as `reapOrphanPods` does with
  its older `known`. `PodStarts` and `PodFails` are the agent's `HSET`s of a status, on whatever
  status is there.
- `Supervisor!EvictRecord` and `DropRecord` are what `evictScript`, `forceRemove` and
  `deletePodRecords` do to the node's records, at any moment: the control plane does so when it
  takes the node for dead, and the node's agent may be well. `ScanFails` is also the end of a
  scan that left a process alone because its environment could not be read (`readPodMarker`).
- `Ingress!ReadPod` reads one record, so a rebuild mixes readings of different moments;
  `ReadFails` drops a backend silently, as the `continue` in `backends` does. `unloaded` is a
  ghost: the reload that was due has failed.
- `SupervisorRaces!tangled` is a ghost too: it gets a pod when the consumer and the checker
  are both between a reading of its record and the write that rests on it.
- `Deployments` keeps the timestamps as ages up to the longer cooldown; `Tick` lets them
  grow, those a handler holds in a read copy included.

## 3. What is checked

| Run | Instance | Result |
|---|---|---|
| `placement` | 2 stable nodes, 3 pods of 2 shapes, 2 workers, crashes of the control plane | `ExactAccounting`, `NoOvercommit`, `ImplementsLedger` hold |
| `removal` | 1 stable node, 2 pods, 1 worker, 2 removers, queues of 2 | `ExactAccounting`, `ImplementsLedger` hold |
| `flapping` | a stable and a flaky node, 2 pods, a worker, a monitor | `ExactAccounting`, `CommandsReachOwner` hold |
| `takeover` | 1 flaky node, all goroutines | `TypeOK` holds: no counter becomes negative |
| `eviction` | 1 flaky node, a worker, a monitor, fairness | `DeadNodeForgotten` holds |
| `supervisor` | 1 pod, 2 processes, threshold 2, all three goroutines, fairness | `TypeOK`, `OnlyRacesDuplicate`, `StartupLeavesOneProcess`, `DeadProcessReplaced` hold |
| `deployments` | 2 handlers, the autoscaler, counts up to 2, fairness | `TypeOK`, `OnlyStaleScaleLeavesBounds`, `ReturnsToBounds` hold |
| `replicas` | room for 2 pods, the sweep and one event or schedule request at a time, desired count 1, 2 or no deployment, fairness | `TypeOK`, `OvershootBounded`, `Converges` hold |
| `ingress` | 2 pods, fairness | `CacheMatchesFile`, `RememberedIsLoaded`, `RoutesFollow`, `ReloadsCease` hold |
| `overcommit` | 1 flaky node, 3 pods, a worker | `NeverOvercommitted` is violated |
| `rejoin` | 1 flaky node, a monitor, fairness | `RejoinsAfterFlap` is violated |
| `stuck_backoff` | 1 pod, 3 processes, fairness | `AnsweringPodIsRunning` is violated |

**The refinement.** `CapacityLedger` knows neither goroutines nor messages: a pod id is
granted its request on one host, at most once in its life and only if it fits; a grant is returned at
most once; the counters move by exactly that. `ClusterLedger` maps `granted` to `Held`, which is
what is on record, in a worker's hands or leaked, and `counter` to the allocation
hashes. `ImplementsLedger` is stronger than `ExactAccounting`, which compares two totals in a state: it
says that each single step of each goroutine changes them together, by one pod, and that an id never
comes back.

**What some of the properties that hold say about the code.**

- `OnlyRacesDuplicate`. `spawn.go:88-89` wants that a pod "must never be spawned twice". That
  is not so: the consumer can handle a start or stop command while the checker
  restarts the same pod, and both act on a check that the other has overtaken. The run shows that this
  overlap, and a failed scan of `/proc` at startup, are the only ways: outside the
  window between the check and the write there is one process at most, whatever is evicted or
  deleted meanwhile. And somebody knows the process, with one exception: `forceRemove`
  (`replica.go:382`) and `deletePodRecords` (`replica.go:239`) delete the record of a pod that may be
  running, and until the agent starts again its process is in no record (`Dropped`). An eviction
  alone leaves the record in place. Each part of the window (`InWindow`) is needed; without any one of them TLC finds a
  duplicate or a lost process.
- `StartupLeavesOneProcess`. Evictions and deletions may hit a pod while it is adopted or spawned.
  An evicted pod's process is not adopted and ends as an orphan, unless the eviction comes
  after the adoption; a record deleted after the adoption leaves the one process there is.
- `OvershootBounded`. `server.go:279-281` says that repeated calls "converge instead of piling
  on duplicate replicas". Calls that overlap do pile up, one full set for each goroutine
  that reconciles, and no more, since a call that begins later counts what it finds. The bound is on
  what is there and what running calls have still to create (`Underway`), and of the former on
  the pods that count as live without a detour. An eviction takes a pod out of the count, it is
  replaced, and a late write of its agent (`spawn.go:173`, `supervisor/health.go:137,171`) puts it
  back: such pods (`revived`) come on top, and TLC finds the bound violated if they are counted.
- `Converges`. After that, and after evictions, lost events, lost stop commands and crashes, the
  sweep alone reaches the desired count. The property needs the end of events and schedule
  requests: as long as they come, the sweep and the subscriber may choose
  different victims (a pod that starts or fails in between changes the order of
  `selectVictims`), remove both, and create replacements, for ever.
- `RememberedIsLoaded`. `Sync` skips a rebuild that gives what it wrote last. That is right because
  the memory is empty after a restart: a control plane that dies between the write and the
  reload leaves a file Nginx has not seen, and its successor writes and reloads it again. Only a reload that
  failed is not made up for (section 8).
- `RoutesFollow`. Events are not needed: the resync alone brings the file in step with the pods that
  serve. Nginx follows, except after a reload that failed (section 8).

**Bounds, and why they are enough.**

- Two nodes are needed for a wrong node to act on; a stable and a flaky one, for the failures of one to
  disturb the other. `flapping` has both. With one node the rest of a race fits in the
  state space. Capacities let a node hold two small pods or one big one, so that
  reservations fail, and the two shapes make processor and memory run out separately.
- Two workers make readings stale; two removers duplicate stop commands, with `MaxQueue = 2`
  so that both are queued. `MaxCount` bounds the replicas of one scheduling call.
- Two processes make a duplicate: the one that the record names and one that is being
  spawned, or one in the hands of each of two goroutines. A process that is dead and that nobody refers
  to stands for a new one, so the bound limits how many are in use at a time, not how many there have
  been. Where it keeps the checker from starting one the liveness property says so
  (`Exhausted`). The safety theorems of section 5 hold for any number. `stuck_backoff` has three.
- `Threshold = 2`: one failed probe is not decisive, so a count survives in the record, where a success
  or a restart clears it, and it may be stale in the checker's hands.
- Counts up to 2 give the bounds 1..1, 1..2 and 2..2, between which an edit can move, and
  loads on both sides of the target move the count both ways; cooldowns of 1 and 2 tell
  every comparison of the script apart. The theorems of section 5 hold for all values.
- In `replicas` two callers with a desired count of 2 may have four pods between them, there or
  still to be created. There is room for two only, but the property adds what the calls have
  decided to create, so a third set would show. The desired count moves between 1 and 2, which
  gives victims to choose among; with the deployment deleted and
  created again every pod may become an orphan. One goroutine besides the sweep plays the
  subscriber and the schedule handler in turn. A pod id is used again when no caller refers to it.
- Two pods let a rebuild read one before and one after a change. No counter is bounded in
  `Ingress`.
- Ids are drawn once (`issued`), so a run ends when they are used up, and goes on with
  removals, heartbeats and sweeps; no run switches the deadlock check off.

Symmetry is used in the safety runs only: over pods of one shape, over goroutines that run the
same code. Nodes are not symmetric: their order breaks ties.

For each property of a passing run `PROJECT.json` names a mutant, a definition next to the
original with a plausible mistake in it, under which TLC finds the property violated.

**What the three violations show.**

- `overcommit`. An agent restarts and counts its pods. Before it writes the sums, the
  scheduler reserves capacity on the node, which still has its old registration and capacity
  hash. The agent's `HSET` (`node/node.go:86`) overwrites the reservation, and the same
  capacity is reserved again: the package comment of `scheduler.go` says that this cannot happen.
- `rejoin`. A lease lapses, the monitor evicts the node, and the agent, which only paused,
  renews the lease for ever. `RunHeartbeatLoop` does not register, so the scheduler does
  not see the node again until its agent is restarted.
- `stuck_backoff`. A process hangs until it is declared failed; the checker writes
  `CrashLoopBackOff` and calls `Spawn`, which finds the process alive and returns without
  writing a status. When the process answers again nothing makes the pod `Running`.

## 4. Fairness

*Monitor* (`ClusterLiveness`): the sweeper ticks for ever and visits every member. A Redis
error or a crash of the control plane may end any number of attempts, but not every one:
strong fairness on the steps an error competes with. Heartbeats, the
command consumer and a scheduling call get weak fairness: they run as long as their process does.
Nothing is assumed of notifications, of agents starting, of leases expiring, or of removals.

*Supervisor*: the checker ticks while the agent serves, visits every pod and goes on with
what it began; strong fairness on the steps of a restart, for the same reason as above. Nothing is
assumed of the consumer or of startup, nor that the agent stays up: the property ends when it does not.
That processes stop exiting by themselves is a premise of `DeadProcessReplaced`; without it
nothing can be promised. The delays of the backoff are left out, because they only postpone.

*Deployments*: time passes and the autoscaler runs on a timer; strong fairness
because a deployment is evaluated again and again and not always without telemetry. Nothing is
assumed of requests; `ReturnsToBounds` has their end as a premise.

*Replicas*: weak fairness for the sweep's ticker, for the next command of a call and for
the stop commands in the queue of a live agent. Events, schedule requests and status changes
get none. `Converges` has as a premise that from some time on no error, crash, eviction or lost
command interferes; it holds of what was going on at that moment, whatever state that is.

*Ingress*: weak fairness for the resync ticker and for the next step of a rebuild, which is one
goroutine of a running process. Nothing is assumed of events, of the debounce timer, or of reloads succeeding.

## 5. What is proved

| Theorem | Module | Statement |
|---|---|---|
| `TypeCorrect` | `ClusterProofs` | `Spec => []TypeOK` |
| `ExactAccountingHolds` | `AccountingProofs` | `Spec => []ExactAccounting` |
| `NoOvercommitHolds` | `AccountingProofs` | `Spec => []NoOvercommit` |
| `CommandsReachOwnerHolds` | `AccountingProofs` | `Spec => []CommandsReachOwner` |
| `LedgerImplemented` | `LedgerProofs` | `Spec => ImplementsLedger` |
| `DeploymentTypeCorrect` | `DeploymentProofs` | `Spec => []TypeOK` |
| `BoundsLeftOnlyByStaleScale` | `DeploymentProofs` | `Spec => OnlyStaleScaleLeavesBounds` |
| `SupervisorTypeCorrect` | `SupervisorProofs` | `Spec => []TypeOK` |
| `StartupReconciles` | `SupervisorProofs` | `Spec => StartupLeavesOneProcess` |
| `RacesAlone` | `SupervisorProofs` | `RacesSpec => []OnlyRacesDuplicate` |
| `ReplicaTypeCorrect` | `ReplicaProofs` | `Spec => []TypeOK` |
| `OvershootIsBounded` | `ReplicaProofs` | `Spec => []OvershootBounded` |
| `VictimsAreTheSurplus` | `ReplicaProofs` | `selectVictims` takes exactly the surplus, the least useful first |
| `CacheCorrect` | `IngressProofs` | `Spec => []CacheMatchesFile` |
| `SkippingIsSafe` | `IngressProofs` | `Spec => []RememberedIsLoaded` |

Every safety property of section 3 that holds is among them. They hold for every value of
the constants that satisfies the `ASSUME`s of the modules: finite sets of nodes, pods,
workers and callers of any size, any number of other goroutines, any positive requests and
capacities, any failure threshold, desired count and queue bound. Every inductive invariant below was
checked with TLC on small instances before it was proved.

**The argument for the cluster.** `ExactAccounting` alone is not inductive. `IInv` adds:

- `LocalsOK`: a goroutine that is past its first step has a pod, a node and a deployment;
- `ReservationsOK`: a reservation in flight or lost is for a pod that is not on record,
  two workers never hold the same one, and what is on record was reserved. Without it a pod could
  be counted in two of the three parts of `Held`, and the sums would not add up;
- `ReferencesOK`: whatever a queue, a remover or an agent refers to belongs to the node it
  will act on, or is gone. `CommandsReachOwner` follows. It holds because a record's node
  is written once (`RecordNodes`) and an id is never drawn twice;
- `StableOK`: nobody takes a stable node for dead, so only its own agent deletes and
  releases, and what that releases is still on record;
- `WithinTotal`: the counter is within the capacity, which the reserve script establishes and
  from which, with `ExactAccounting`, `NoOvercommit` follows.

`Demand` is a sum over a set of pods. It is defined as the cardinality of a set of units,
a pod that asks for 3 contributing 3 of them, so that the facts about sums
(`CapacityProofs`) are facts about the cardinality of disjoint unions and no recursion is involved.

**The argument for the refinement.** Under `IInv` each action of `Cluster` does one of three things to the
accounts of a stable node: nothing, enter one pod that was never issued and that fits
(`Reserve`), or take one pod off (`Settles`). The lemmas behind `ExactAccounting` say which, action by
action, and that at most one node is touched (`OneNodeAtATime`). It remains that the mapped counter
and the mapped set of grants move in the same step: since every request is at least
1, a counter that did not move means an account that did not move (`CountersTell`).

**The argument for deployments.** `Ordered` (the minimum is not above the maximum, in the
record and in every specification and copy a handler holds) makes every clamp land within
the bounds it was given. These are the record's own in `FinishApply` and in the script,
and in `FinishScale` unless they changed in between.

**The argument for the supervisor.** The invariant relates four things that the
code keeps apart: the records, the processes, the goroutines' locals and the startup's map `owned`.

- `MarkersOK`: a live process carries its pod's marker, and whoever names it, a record or a
  goroutine that started it, is of that pod. It holds because a process that is started is
  named nowhere (`Fresh`).
- `NewOK`: nothing exists for a pod the scheduler has not placed yet, so its first `HSET` writes
  over nothing.
- `StartupOK`: a live process in `owned` is the only one of its pod there; the pod is off the
  list and not being spawned; and a whole record names the process, or the control plane deleted it. A
  pod is taken off the list before its process enters
  the map, and `main` spawns only pods with none in it. When no orphan is left, every
  live process is in `owned`: `StartupReconciles`. No assumption
  is made on where the predecessor died.
- `WholeOK`: a record that the control plane deleted never becomes whole again, whatever `HSET`s
  come late. `Spawn` therefore starts nothing more for its pod, which is why a deletion costs the
  pod its record but not its "one process".
- `ServingOK`: for a pod that met no race, there is one process at most; it is on its whole
  record, held by the goroutine that started it, or left by a deletion; and a
  goroutine in its window is right about what it read (no process left, or only the one it holds). The first check of `Spawn` establishes this, and
  another goroutine could only spoil it from its own window at the same pod, which is what
  `tangled` records: `RacesAlone`.

Most actions change neither an identity nor a window; they are treated once (`Quiet`).
The others have a lemma each.

**The argument for replicas.** A bound on the sum over all callers is not
inductive: what a caller may still create depends on what it counted, which others have
overtaken. But a caller never overtakes itself. `SharesOK` says that the standing pods, those
that are live and were not revived, can be
shared out among the callers so that each one's share, with what it has still to create, is within
`MaxDesired`, and that a caller that has listed the keys will see its own share. The existential
quantifier stands for the creator, which no part of the code remembers. When a caller decides,
the shortfall is at most the desired count less its share. The bound on the total is
then a count of fibres (`Fibres`), by an injection into pairs of caller and number.
`VictimsAreTheSurplus` is proved in the same way, without induction: ranks are an injection
into as many numbers as there are pods, hence onto.

**The argument for ingress.** `CacheMatchesFile` and `RememberedIsLoaded` are inductive
together: the file changes only in the write that also sets the memory, a write that fails leaves
both, and after a write the reload comes next unless a restart clears the memory.

**Only model-checked:** the liveness properties (`DeadNodeForgotten`, `DeadProcessReplaced`,
`ReturnsToBounds`, `Converges`, `RoutesFollow`, `ReloadsCease`), whose fairness and `ENABLED`
are outside what the prover handles, and the violations, which are traces.

## 6. Limits of the model

- Nodes are *stable* or *flaky*. `ExactAccounting` and `NoOvercommit` speak of stable nodes, whose
  agent neither fails between two writes nor loses its lease. For a flaky node they are
  false, as `overcommit` shows. The control plane may crash in all runs, and all its writes may fail.
- A command that returns an error has had no effect. A reply that is lost after its
  command took effect is not modelled.
- In `Cluster` the agent's health checker is left out, and `Failed` stands for
  `CrashLoopBackOff` too; neither touches capacity. The checker is in `Supervisor`, which in turn has no
  counters and no leases: an eviction or a deletion may come at any time.
- In `Replicas` the capacity of nodes is not counted: a placement succeeds while there is a pod id
  left (`Pods` is the room there is) and `Unschedulable` otherwise. Of the statuses only `Running`
  and `Evicted` are told apart from the rest, and ids stand for the order of creation: `selectVictims`
  is modelled as a total order with these two levels, of which the code's priorities are a refinement.
- Keys found by `SCAN` are a set. Redis may return a key twice (`client.go:256-271` does not remove
  duplicates), and `ReconcileAllocations` would then count the pod twice.
- The order in `Scheduler` is the code's score although the properties need no more than some
  order: it is kept so that the traces are those of the code.
- In `Ingress` a pod keeps its host port, and a configuration is the set of pods it names, so that a
  rebuild which differs in the order of the backends alone, which the sort at `ingress.go:215-220`
  prevents, is no difference here.
- Host ports, delays of the backoff and telemetry samples are left out. A process is
  a pair of pid and start time, which is what `IsSameProcess` compares, so a reused pid is another process.
- `StatusUnschedulable` is declared in `schema.go` and never written.

## 7. Not modelled, and the plan

`internal/api/dashboard.go`, the load generator and the examples change no state;
configuration and logging carry no property; the Windows files repeat the Linux ones.
The telemetry collector samples `/proc` into a list per pod that nobody else writes; the
autoscaler's model takes any content of these lists as input.

Left to do, in this order:

1. Host ports in `Supervisor`: two Spawns that choose the same one (section 8).
2. Replies that are lost after their command took effect.
3. That `Before`, the integer form of the score in `Scheduler`, orders candidates totally: for the
   prover it is a product of four unknowns.

## 8. Other deviations met while modelling

Most were found as counterexamples of TLC on the models above. They are of the kind of the
three in section 3, and are described here instead of being kept as runs.

- *Interrupted removal.* `consumer.go:93-96` says that a crash between release and deletion
  "leaves the pod present but over-counted rather than absent and under-counted". The release
  comes first (`consumer.go:121`), so the pod is present and **not** counted, until the agent's
  next start recomputes the sums. `replica.go:373-375` says the same of `forceRemove`.
- *Eviction of a live node.* `controller/health.go:188-189`: "A node that re-registered
  between detection and now is alive again." The check (`:190`) and the script are two round trips and the script does
  not look at the lease.
- *An evicted pod runs again.* Manifest line 417: "its evicted pods stay evicted". `launch`
  writes `Running` over whatever status there is (`spawn.go:173`), and a start command or a
  `Spawn` under way outlives the eviction; the health checker's writes (`supervisor/health.go:137,171`)
  do the same with `Failed` and `CrashLoopBackOff`. If it was replaced meanwhile there are more replicas
  than desired, until the next sweep.
- *A pod stranded on a dead node.* A node evicted after the reservation and before the write
  of the record (`scheduler.go:204`) gets a `Pending` pod that nobody evicts again, while manifest
  lines 411-413 expect that the next delta "sees the missing replicas".
- *A process without an owner.* `spawn.go:79-80` refuses to spawn a deleted pod because that
  "would create a process nothing owns". A stop that deletes the record while the checker is past
  that check creates one (`spawn.go:173`).
- *A record deleted under its process.* `forceRemove` and `deletePodRecords` act on a node that was
  taken for dead when it was looked at. If its agent is well, the process they leave runs on with no
  record, answers on its port, and is killed as an orphan only when the agent starts again.
- *Inherited failures.* `launch` does not reset `consecutive_failures`, so failures counted
  while a pod had no process count against the next one, and one missed probe can
  condemn it, which `supervisor/health.go:121-123` says must not happen.
- *The orphan scan and the new process.* When the read after a successful `Spawn` fails
  (`reconcile.go:118`) the new pid is missing from the map and `killOrphans` terminates it; the
  comment (`:116-117`) says that the read is there to avoid it.
- *Desired count out of bounds.* Manifest line 475: it "never leaves `[min, max]`";
  `server.go:180-182` says so of manual scaling. A scale request that overlaps an edit clamps to
  the old bounds (`store.go:125`). `OnlyStaleScaleLeavesBounds` says that this is the only way.
- *An edit loses a scaling decision.* `store.go:69-72` wants the count to survive an edit; `Apply` writes
  the whole record from its earlier read (`store.go:108`) and undoes what the autoscaler did in between.
- *An edit loses a cooldown.* For the same reason it writes back an older
  `last_scale_up_at` (`store.go:100`), and the next scale-up need not wait (`README.md:150`).
- *Two processes for one pod.* See `OnlyRacesDuplicate` in section 3. The second write of the
  pid wins, and the other process runs unnoticed until the agent restarts and takes it for an orphan.
- *One port for two pods.* `spawn.go:275-277` gives each pod a port of its own by reading the
  ports on record, but a port is on record only after the process runs, so two `Spawn`s may choose the
  same one; the pod whose process cannot listen keeps it (`spawn.go:98`). Not modelled.
- *The autoscaler does not rest.* The average is rounded down before the ratio is taken
  (`autoscale.go:92`). With 51 units of work and a target of 50, one replica is at 51, so two are wanted; two
  are at 25, so one is wanted, and so on at the pace of the cooldowns. `README.md:435` of the
  repository speaks of "anti-flapping guardrails".
- *A failed reload is forgotten.* `lastWritten` is set before the reload (`ingress.go:175`), so the
  next rebuild finds nothing changed and Nginx keeps the old configuration until the
  backends change again or somebody reloads it. The comment on `reload` wants this for a
  missing Nginx; a reload that timed out is treated the same.
- *A young deployment's pods are reaped.* The sweep reads the pods after the deployments. The
  pods of a deployment created in between are not `known` and are removed as orphans
  (`replica.go:408`), and created again by the next sweep.
