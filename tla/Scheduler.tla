------------------------------- MODULE Scheduler -------------------------------
(***************************************************************************)
(* internal/scheduler: the goroutines that run ScheduleReplicas.  The      *)
(* replica controller's sweeper and its event subscriber and the API's     *)
(* schedule handler each run it on their own, so several placements        *)
(* interleave.  A worker reads the registry, then each lease, then each    *)
(* capacity hash, and tries to reserve on what it saw, best fit first.     *)
(***************************************************************************)
EXTENDS ClusterState

CONSTANTS
  Workers,   \* goroutines that may be running ScheduleReplicas
  MaxCount,  \* bound on the replicas one call asks for
  NoDep      \* no deployment

ASSUME WorkersAssumption == IsFiniteSet(Workers) /\ NoDep \notin Deps

ASSUME CountAssumption == MaxCount \in Nat \ {0}

VARIABLE worker  \* each worker's local variables

WorkerStates ==
  [ pc   : {"idle", "members", "lease", "capacity", "reserve", "write",
            "rollback", "dispatch"},
    dep  : Deps \cup {NoDep},
    left : 0 .. MaxCount,           \* replicas still to place
    todo : SUBSET Nodes,            \* nodes the current loop has yet to read
    live : SUBSET Nodes,            \* result of LiveNodes
    cand : SUBSET Nodes,            \* candidates not tried yet
    free : [Nodes -> [Resources -> Int]],  \* their headroom as it was read
    node : Nodes \cup {NoNode},     \* where the reservation was made
    pod  : Pods \cup {NoPod} ]      \* the id of the pod it was made for

NothingRead == [n \in Nodes |-> [r \in Resources |-> 0]]

IdleWorker ==
  [pc |-> "idle", dep |-> NoDep, left |-> 0, todo |-> {}, live |-> {},
   cand |-> {}, free |-> NothingRead, node |-> NoNode, pod |-> NoPod]

(* A worker that reserved and has neither recorded the pod nor rolled back. *)
Holding(w) == worker[w].pc \in {"write", "rollback"}

(* The pods a worker has reserved capacity for on n but not recorded yet. *)
InFlight(n) ==
  {worker[w].pod : w \in {v \in Workers : Holding(v) /\ worker[v].node = n}}

(***************************************************************************)
(* Best fit.  The score of a candidate is the sum over the dimensions of   *)
(* leftover / total, compared here by cross-multiplication; ties go to the *)
(* smaller node id.                                                        *)
(***************************************************************************)
Leftover(free, n, d, r) == free[n][r] - Req[d][r]

ScoreNum(free, n, d) ==
  Leftover(free, n, d, "cpu") * Total[n]["mem"]
    + Leftover(free, n, d, "mem") * Total[n]["cpu"]

ScoreDen(n) == Total[n]["cpu"] * Total[n]["mem"]

Before(free, m, n, d) ==
  LET a == ScoreNum(free, m, d) * ScoreDen(n)
      b == ScoreNum(free, n, d) * ScoreDen(m)
  IN  a < b \/ (a = b /\ m <= n)

(* The head of bestFitOrder's list among the candidates not tried yet. *)
IsBestFit(cand, free, n, d) ==
  n \in cand /\ \A m \in cand : Before(free, n, m, d)

(***************************************************************************)
(* Actions.                                                                *)
(***************************************************************************)
nodeKeys == <<registry, lease, published, expiries>>

ScheduleReplicas(w) ==
  /\ worker[w].pc = "idle"
  /\ \E d \in Deps, k \in 1 .. MaxCount :
       worker' = [worker EXCEPT ![w] =
                    [IdleWorker EXCEPT !.pc = "members", !.dep = d, !.left = k]]
  /\ UNCHANGED redisVars

(* LiveNodes: SMEMBERS of the registry. *)
ReadRegistry(w) ==
  /\ worker[w].pc = "members"
  /\ worker' = [worker EXCEPT ![w] =
                   [@ EXCEPT !.pc = IF registry = {} THEN "reserve" ELSE "lease",
                             !.todo = registry, !.live = {}]]
  /\ UNCHANGED redisVars

(* LiveNodes: EXISTS of one member's lease. *)
CheckLease(w) ==
  /\ worker[w].pc = "lease"
  /\ \E n \in worker[w].todo :
       LET live == worker[w].live \cup ({n} \cap lease)
           rest == worker[w].todo \ {n}
       IN  worker' = [worker EXCEPT ![w] =
             [@ EXCEPT !.live = live,
                       !.todo = IF rest = {} THEN live ELSE rest,
                       !.pc = IF rest # {} THEN "lease"
                              ELSE IF live = {} THEN "reserve" ELSE "capacity"]]
  /\ UNCHANGED redisVars

(* bestFitOrder: HGETALL of one live node's capacity, in the order of their
   ids; a node without a hash or without headroom is no candidate. *)
ReadCapacity(w) ==
  /\ worker[w].pc = "capacity"
  /\ \E n \in worker[w].todo :
       LET rest == worker[w].todo \ {n}
           fits == IF Fits(n, Req[worker[w].dep]) THEN {n} ELSE {}
           free == [worker[w].free EXCEPT ![n] =
                      [r \in Resources |-> Total[n][r] - alloc[n][r]]]
       IN  /\ \A m \in worker[w].todo : n <= m
           /\ worker' = [worker EXCEPT ![w] =
                [@ EXCEPT !.todo = rest,
                          !.pc = IF rest = {} THEN "reserve" ELSE "capacity",
                          !.cand = worker[w].cand \cup fits,
                          !.free = free]]
  /\ UNCHANGED redisVars

(* scheduleOne: reserve on the best candidate left.  The script is the gate,
   the headroom read earlier only orders the attempts.  newPodID draws the
   new pod's id right after a successful reservation. *)
Reserve(w) ==
  /\ worker[w].pc = "reserve"
  /\ \E n \in worker[w].cand :
       /\ IsBestFit(worker[w].cand, worker[w].free, n, worker[w].dep)
       /\ \/ /\ Fits(n, Req[worker[w].dep])
             /\ alloc' = Reserved(n, Req[worker[w].dep])
             /\ \E p \in Pods \ issued :
                  /\ DepOf[p] = worker[w].dep
                  /\ issued' = issued \cup {p}
                  /\ worker' = [worker EXCEPT ![w] =
                       [@ EXCEPT !.pc = "write", !.node = n, !.pod = p,
                                 !.live = {}, !.cand = {}, !.free = NothingRead]]
          \/ /\ ~ Fits(n, Req[worker[w].dep])
             /\ worker' = [worker EXCEPT ![w].cand = @ \ {n}]
             /\ UNCHANGED <<alloc, issued>>
  /\ UNCHANGED <<nodeKeys, pods, cmds, leaked>>

(* No candidate is left: ScheduleReplicas stops, whatever is left to place. *)
Unschedulable(w) ==
  /\ worker[w].pc = "reserve"
  /\ worker[w].cand = {}
  /\ worker' = [worker EXCEPT ![w] = IdleWorker]
  /\ UNCHANGED redisVars

(* A Redis error before anything is reserved ends the call. *)
AbortPlacement(w) ==
  /\ worker[w].pc \in {"members", "lease", "capacity", "reserve"}
  /\ worker' = [worker EXCEPT ![w] = IdleWorker]
  /\ UNCHANGED redisVars

(* HSET of the new pod's record. *)
WritePod(w) ==
  /\ worker[w].pc = "write"
  /\ pods' = [pods EXCEPT ![worker[w].pod] =
                [exists |-> TRUE, node |-> worker[w].node, status |-> "Pending"]]
  /\ worker' = [worker EXCEPT ![w].pc = "dispatch"]
  /\ UNCHANGED <<nodeKeys, alloc, cmds, issued, leaked>>

(* Mutant of WritePodFails: the error is returned without the rollback. *)
WritePodFailsUndone(w) ==
  /\ worker[w].pc = "write"
  /\ worker' = [worker EXCEPT ![w] = IdleWorker]
  /\ UNCHANGED redisVars

(* newPodID or the HSET failed: the reservation has to be undone. *)
WritePodFails(w) ==
  /\ worker[w].pc = "write"
  /\ worker' = [worker EXCEPT ![w].pc = "rollback"]
  /\ UNCHANGED redisVars

(* releaseAfterFailure; the error is returned, so the call ends. *)
ReleaseAfterFailure(w) ==
  /\ worker[w].pc = "rollback"
  /\ \/ /\ alloc' = Released(worker[w].node, Req[worker[w].dep])
        /\ UNCHANGED leaked
     \/ /\ leaked' = [leaked EXCEPT ![worker[w].node] = @ \cup {worker[w].pod}]
        /\ UNCHANGED alloc
  /\ worker' = [worker EXCEPT ![w] = IdleWorker]
  /\ UNCHANGED <<nodeKeys, pods, cmds, issued>>

(* Mutant of DispatchStart: a start command that is lost undoes the reservation,
   although the pod is on record. *)
DispatchStartUndone(w) ==
  /\ worker[w].pc = "dispatch"
  /\ worker' = [worker EXCEPT ![w] = IdleWorker]
  /\ \/ /\ CanSend(worker[w].node)
        /\ cmds' = Sent(worker[w].node, "start", worker[w].pod)
        /\ UNCHANGED alloc
     \/ /\ alloc' = Released(worker[w].node, Req[worker[w].dep])
        /\ UNCHANGED cmds
  /\ UNCHANGED <<nodeKeys, pods, issued, leaked>>

(* The start command, whose loss is only logged; then the next replica. *)
DispatchStart(w) ==
  LET n == worker[w].node
      more == worker[w].left > 1
  IN  /\ worker[w].pc = "dispatch"
      /\ \/ CanSend(n) /\ cmds' = Sent(n, "start", worker[w].pod)
         \/ UNCHANGED cmds
      /\ worker' = [worker EXCEPT ![w] =
                      IF more THEN [IdleWorker EXCEPT !.pc = "members",
                                       !.dep = worker[w].dep,
                                       !.left = worker[w].left - 1]
                      ELSE IdleWorker]
      /\ UNCHANGED <<nodeKeys, alloc, pods, issued, leaked>>

SchedulerStep(w) ==
  \/ ScheduleReplicas(w)
  \/ ReadRegistry(w)
  \/ CheckLease(w)
  \/ ReadCapacity(w)
  \/ Reserve(w)
  \/ Unschedulable(w)
  \/ AbortPlacement(w)
  \/ WritePod(w)
  \/ WritePodFails(w)
  \/ ReleaseAfterFailure(w)
  \/ DispatchStart(w)

(* The workers' part of a control plane crash: every goroutine is gone, and
   with it the only knowledge of a reservation not yet recorded. *)
WorkersDie ==
  /\ worker' = [w \in Workers |-> IdleWorker]
  /\ leaked' = [n \in Nodes |-> leaked[n] \cup InFlight(n)]

SchedulerTypeOK == worker \in [Workers -> WorkerStates]

SchedulerInit == worker = [w \in Workers |-> IdleWorker]
================================================================================
