------------------------------ MODULE Supervisor ------------------------------
(***************************************************************************)
(* internal/supervisor on one node: the records of its pods and the        *)
(* processes behind them.  Three goroutines of the agent work on both:     *)
(* "main" reconciles at startup, then "consumer" (RunCommandConsumer) and  *)
(* "checker" (RunHealthChecker) run side by side.  Spawn is code all three *)
(* of them share.  Between two Redis commands of one goroutine the others  *)
(* may take any step.                                                      *)
(*                                                                         *)
(* A process stands for a pair of pid and start time, so it is never       *)
(* confused with another one.  Of the control plane there is what it does  *)
(* to the records and the queue; whether the node's lease has expired and  *)
(* the capacity counters are in Cluster, host ports are left out.          *)
(***************************************************************************)
EXTENDS Integers, FiniteSets, Sequences

CONSTANTS
  Pods,       \* pods placed on this node
  Procs,      \* processes; one that is dead and forgotten stands for a new one
  NoPod,      \* no pod
  NoProc,     \* pid 0
  Threshold,  \* HealthConfig.FailureThreshold
  MaxQueue    \* bound on the length of the command queue

ASSUME SupervisorAssumption ==
  /\ NoPod \notin Pods /\ NoProc \notin Procs
  /\ Threshold \in Nat \ {0} /\ MaxQueue \in Nat

VARIABLES
  phase,    \* of the agent: down, adopt, orphans, serve
  records,  \* pod:<deployment>:<id> hashes
  process,  \* the workload processes
  cmds,     \* node:<id>:commands
  stage,    \* how far the control plane is with a pod
  thread,   \* the goroutines' local variables
  todo,     \* keys ReconcileOnStartup has yet to read
  owned     \* its map of processes that pods own

vars == <<phase, records, process, cmds, stage, thread, todo, owned>>

Threads == {"main", "consumer", "checker"}

(* A pod is recorded, then its start is sent.  If the control plane deletes the
   record itself, the start may still be to come. *)
Stages == {"new", "recorded", "sent", "unsent", "dropped"}

(* whole: the scheduler's fields are there, so MapToPod succeeds and node_id
   is this node.  An HSET on a deleted key makes a record that is not. *)
Records ==
  [ exists   : BOOLEAN,
    whole    : BOOLEAN,
    status   : {"", "Pending", "Running", "Failed", "CrashLoopBackOff", "Evicted"},
    proc     : Procs \cup {NoProc},
    failures : 0 .. Threshold ]

Absent ==
  [exists |-> FALSE, whole |-> FALSE, status |-> "", proc |-> NoProc, failures |-> 0]

(* A hung process is alive and does not answer on its port.  pod is the marker
   in its environment. *)
Processes == [state : {"up", "hung", "dead"}, pod : Pods \cup {NoPod}]

NoProcess == [state |-> "dead", pod |-> NoPod]

ThreadStates ==
  [ pc   : {"idle", "spawn", "start", "record", "abandon", "mark", "fix", "reread",
            "stop", "find", "kill", "clear", "delete", "probe", "restart"},
    pod  : Pods \cup {NoPod},
    proc : Procs \cup {NoProc},      \* the process it starts, kills or probes
    failures : 0 .. Threshold ]      \* the count it read with the record

IdleThread == [pc |-> "idle", pod |-> NoPod, proc |-> NoProc, failures |-> 0]

Alive(q) == q # NoProc /\ process[q].state # "dead"

ProcessesOf(p) == {q \in Procs : Alive(q) /\ process[q].pod = p}

(* The control plane deleted the record, without the agent: a process it named
   is nobody's until the agent starts again. *)
Dropped(p) == stage[p] \in {"unsent", "dropped"}

(* Nothing refers to q any more: it can stand for a process yet to come. *)
Fresh(q) ==
  /\ process[q].state = "dead"
  /\ q \notin owned
  /\ \A p \in Pods : records[p].proc # q
  /\ \A t \in Threads : thread[t].proc # q

Goto(t, pc) == thread' = [thread EXCEPT ![t].pc = pc]

Finish(t) == thread' = [thread EXCEPT ![t] = IdleThread]

Killed(q) == [process EXCEPT ![q] = NoProcess]

(* HSET status on whatever is at the key. *)
Marked(p, s) == [records EXCEPT ![p] = [@ EXCEPT !.exists = TRUE, !.status = s]]

(***************************************************************************)
(* Spawn.                                                                  *)
(***************************************************************************)

(* Mutant of SpawnRead: the recorded process is not looked at. *)
SpawnReadUnchecked(t) ==
  /\ thread[t].pc = "spawn"
  /\ IF records[thread[t].pod].whole THEN Goto(t, "start") ELSE Finish(t)
  /\ UNCHANGED <<phase, records, process, cmds, stage, todo, owned>>

(* Spawn reads the deployment and the pod.  Either may be gone or unreadable;
   a pod whose recorded process is alive needs no other.  main goes on to
   re-read the record after a success. *)
SpawnRead(t) ==
  LET p == thread[t].pod
  IN  /\ thread[t].pc = "spawn"
      /\ \/ Finish(t)
         \/ /\ records[p].whole /\ Alive(records[p].proc)
            /\ IF t = "main" THEN Goto(t, "reread") ELSE Finish(t)
         \/ /\ records[p].whole /\ ~ Alive(records[p].proc)
            /\ Goto(t, "start")
      /\ UNCHANGED <<phase, records, process, cmds, stage, todo, owned>>

(* launch: the process starts. *)
StartProcess(t) ==
  /\ thread[t].pc = "start"
  /\ \E q \in Procs :
       /\ Fresh(q)
       /\ process' = [process EXCEPT ![q] =
                        [state |-> "up", pod |-> thread[t].pod]]
       /\ thread' = [thread EXCEPT ![t] = [@ EXCEPT !.pc = "record", !.proc = q]]
  /\ UNCHANGED <<phase, records, cmds, stage, todo, owned>>

(* launch: no executable, no process, or one that exits at once. *)
StartFails(t) ==
  /\ thread[t].pc = "start"
  /\ Goto(t, "mark")
  /\ UNCHANGED <<phase, records, process, cmds, stage, todo, owned>>

(* launch: HSET of the identity and Running. *)
RecordIdentity(t) ==
  /\ thread[t].pc = "record"
  /\ records' = [records EXCEPT ![thread[t].pod] =
                   [@ EXCEPT !.exists = TRUE, !.status = "Running",
                             !.proc = thread[t].proc]]
  /\ IF t = "main"
     THEN thread' = [thread EXCEPT ![t] = [@ EXCEPT !.pc = "reread", !.proc = NoProc]]
     ELSE Finish(t)
  /\ UNCHANGED <<phase, process, cmds, stage, todo, owned>>

(* launch: the process is gone before its start time is read, or the HSET
   fails, and what was started is terminated. *)
RecordFails(t) ==
  /\ thread[t].pc = "record"
  /\ Goto(t, "abandon")
  /\ UNCHANGED <<phase, records, process, cmds, stage, todo, owned>>

AbandonProcess(t) ==
  /\ thread[t].pc = "abandon"
  /\ process' = Killed(thread[t].proc)
  /\ thread' = [thread EXCEPT ![t] = [@ EXCEPT !.pc = "mark", !.proc = NoProc]]
  /\ UNCHANGED <<phase, records, cmds, stage, todo, owned>>

(* markFailedIfSpawnFails; a failed HSET is only logged. *)
MarkFailed(t) ==
  /\ thread[t].pc = "mark"
  /\ records' \in {records, Marked(thread[t].pod, "Failed")}
  /\ Finish(t)
  /\ UNCHANGED <<phase, process, cmds, stage, todo, owned>>

SpawnStep(t) ==
  \/ SpawnRead(t)
  \/ StartProcess(t)
  \/ StartFails(t)
  \/ RecordIdentity(t)
  \/ RecordFails(t)
  \/ AbandonProcess(t)
  \/ MarkFailed(t)

(***************************************************************************)
(* ReconcileOnStartup, in the main goroutine.                              *)
(***************************************************************************)
Boot ==
  /\ phase = "down"
  /\ phase' = "adopt"
  /\ todo' = {p \in Pods : records[p].exists}
  /\ UNCHANGED <<records, process, cmds, stage, thread, owned>>

(* Mutant of AdoptPod: the identity is not verified. *)
AdoptPodUnverified(p) ==
  /\ phase = "adopt"
  /\ thread["main"].pc = "idle"
  /\ p \in todo
  /\ todo' = todo \ {p}
  /\ owned' = owned \cup IF records[p].whole THEN {records[p].proc} ELSE {}
  /\ UNCHANGED <<phase, records, process, cmds, stage, thread>>

(* One key: a record of this node, unless it is evicted, is adopted if its
   process is alive, and spawned again if not. *)
AdoptPod(p) ==
  LET r == records[p]
      ours == r.whole /\ r.status # "Evicted"
  IN  /\ phase = "adopt"
      /\ thread["main"].pc = "idle"
      /\ p \in todo
      /\ todo' = todo \ {p}
      /\ owned' = owned \cup IF ours /\ Alive(r.proc) THEN {r.proc} ELSE {}
      /\ IF ~ ours \/ (Alive(r.proc) /\ r.status = "Running") THEN UNCHANGED thread
         ELSE thread' = [thread EXCEPT !["main"] =
                [@ EXCEPT !.pod = p, !.pc = IF Alive(r.proc) THEN "fix" ELSE "spawn"]]
      /\ UNCHANGED <<phase, records, process, cmds, stage>>

(* The live process is the truth: the status becomes Running, or the HSET
   fails and that is logged. *)
FixStatus ==
  /\ thread["main"].pc = "fix"
  /\ records' \in {records, Marked(thread["main"].pod, "Running")}
  /\ Finish("main")
  /\ UNCHANGED <<phase, process, cmds, stage, todo, owned>>

(* After a Spawn: the new pid is read back, if Redis answers. *)
RereadPid ==
  /\ thread["main"].pc = "reread"
  /\ owned' \in {owned, owned \cup ({records[thread["main"].pod].proc} \ {NoProc})}
  /\ Finish("main")
  /\ UNCHANGED <<phase, records, process, cmds, stage, todo>>

ScanProcesses ==
  /\ phase = "adopt"
  /\ todo = {}
  /\ thread["main"].pc = "idle"
  /\ phase' = "orphans"
  /\ UNCHANGED <<records, process, cmds, stage, thread, todo, owned>>

(* Mutant of Orphans: a process is spared if its pod owns any process. *)
OrphansByPod ==
  {q \in Procs : Alive(q) /\ process[q].pod \notin {process[o].pod : o \in owned}}

(* killOrphans: processes that carry the marker and are not in the map. *)
Orphans == {q \in Procs : Alive(q) /\ q \notin owned}

KillOrphan ==
  /\ phase = "orphans"
  /\ \E q \in Orphans : process' = Killed(q)
  /\ UNCHANGED <<phase, records, cmds, stage, thread, todo, owned>>

(* No orphan is left: the consumer and the checker start. *)
StartServing ==
  /\ phase = "orphans"
  /\ Orphans = {}
  /\ phase' = "serve"
  /\ owned' = {}
  /\ UNCHANGED <<records, process, cmds, stage, thread, todo>>

(* /proc cannot be read, which is logged, or not the environment of a process,
   which is then left alone: the orphans that are left stay until the next
   startup. *)
ScanFails ==
  /\ phase = "orphans"
  /\ phase' = "serve"
  /\ owned' = {}
  /\ UNCHANGED <<records, process, cmds, stage, thread, todo>>

(* An error or a crash: every goroutine is gone, the processes stay. *)
AgentDies ==
  /\ phase # "down"
  /\ phase' = "down"
  /\ thread' = [t \in Threads |-> IdleThread]
  /\ todo' = {}
  /\ owned' = {}
  /\ UNCHANGED <<records, process, cmds, stage>>

StartupStep ==
  \/ Boot
  \/ \E p \in Pods : AdoptPod(p)
  \/ FixStatus
  \/ RereadPid
  \/ ScanProcesses
  \/ KillOrphan
  \/ StartServing
  \/ ScanFails
  \/ AgentDies

(***************************************************************************)
(* RunCommandConsumer.                                                     *)
(***************************************************************************)
PopCommand ==
  /\ phase = "serve"
  /\ thread["consumer"].pc = "idle"
  /\ cmds # <<>>
  /\ thread' = [thread EXCEPT !["consumer"] =
       [@ EXCEPT !.pod = Head(cmds).pod,
                 !.pc = IF Head(cmds).type = "start" THEN "spawn" ELSE "stop"]]
  /\ cmds' = Tail(cmds)
  /\ UNCHANGED <<phase, records, process, stage, todo, owned>>

(* StopAndRemove reads the record; one that cannot be parsed is deleted. *)
StopRead ==
  LET r == records[thread["consumer"].pod]
  IN  /\ thread["consumer"].pc = "stop"
      /\ IF ~ r.exists THEN Finish("consumer")
         ELSE Goto("consumer", IF r.whole THEN "find" ELSE "delete")
      /\ UNCHANGED <<phase, records, process, cmds, stage, todo, owned>>

(* Stop reads it again and looks for the process. *)
FindProcess ==
  LET r == records[thread["consumer"].pod]
  IN  /\ thread["consumer"].pc = "find"
      /\ IF ~ r.exists THEN Goto("consumer", "delete")
         ELSE IF ~ r.whole THEN Finish("consumer")
         ELSE thread' = [thread EXCEPT !["consumer"] =
                [@ EXCEPT !.pc = IF Alive(r.proc) THEN "kill" ELSE "clear",
                          !.proc = IF Alive(r.proc) THEN r.proc ELSE NoProc]]
      /\ UNCHANGED <<phase, records, process, cmds, stage, todo, owned>>

(* terminate: SIGTERM, and SIGKILL after the grace period. *)
KillProcess ==
  /\ thread["consumer"].pc = "kill"
  /\ process' = Killed(thread["consumer"].proc)
  /\ thread' = [thread EXCEPT !["consumer"] = [@ EXCEPT !.pc = "clear", !.proc = NoProc]]
  /\ UNCHANGED <<phase, records, cmds, stage, todo, owned>>

(* Stop: HSET of pid 0. *)
ClearIdentity ==
  /\ thread["consumer"].pc = "clear"
  /\ records' = [records EXCEPT ![thread["consumer"].pod] =
                   [@ EXCEPT !.exists = TRUE, !.proc = NoProc]]
  /\ Goto("consumer", "delete")
  /\ UNCHANGED <<phase, process, cmds, stage, todo, owned>>

DeleteRecord ==
  /\ thread["consumer"].pc = "delete"
  /\ records' = [records EXCEPT ![thread["consumer"].pod] = Absent]
  /\ Finish("consumer")
  /\ UNCHANGED <<phase, process, cmds, stage, todo, owned>>

(* A Redis error ends the removal where it is. *)
StopFails ==
  /\ thread["consumer"].pc \in {"stop", "find", "clear", "delete"}
  /\ Finish("consumer")
  /\ UNCHANGED <<phase, records, process, cmds, stage, todo, owned>>

ConsumerStep ==
  \/ PopCommand
  \/ StopRead
  \/ FindProcess
  \/ KillProcess
  \/ ClearIdentity
  \/ DeleteRecord
  \/ StopFails
  \/ SpawnStep("consumer")

(***************************************************************************)
(* RunHealthChecker.                                                       *)
(***************************************************************************)

(* Mutant of CheckPod: a pod that failed is not looked at any more. *)
CheckPodOnce(p) ==
  /\ phase = "serve"
  /\ thread["checker"].pc = "idle"
  /\ records[p].whole
  /\ records[p].status \notin {"Failed", "CrashLoopBackOff", "Evicted"}
  /\ thread' = [thread EXCEPT !["checker"] =
                  [pc |-> "probe", pod |-> p, proc |-> records[p].proc,
                   failures |-> records[p].failures]]
  /\ UNCHANGED <<phase, records, process, cmds, stage, todo, owned>>

(* CheckOnce reads one pod; an evicted one is the control plane's.  A failed pod
   whose backoff has not elapsed is left alone; the others are probed. *)
CheckPod(p) ==
  LET failed == records[p].status \in {"Failed", "CrashLoopBackOff"}
  IN  /\ phase = "serve"
      /\ thread["checker"].pc = "idle"
      /\ records[p].whole /\ records[p].status # "Evicted"
      /\ thread' = [thread EXCEPT !["checker"] =
           IF failed THEN [IdleThread EXCEPT !.pc = "restart", !.pod = p]
           ELSE [pc |-> "probe", pod |-> p, proc |-> records[p].proc,
                 failures |-> records[p].failures]]
      /\ UNCHANGED <<phase, records, process, cmds, stage, todo, owned>>

Answers(q) == q # NoProc /\ process[q].state = "up"

(* podHealthy, then a success clears the count if it is not zero already. *)
ProbeSucceeds ==
  /\ thread["checker"].pc = "probe"
  /\ Answers(thread["checker"].proc)
  /\ records' = IF thread["checker"].failures = 0 THEN records
                ELSE [records EXCEPT ![thread["checker"].pod] =
                        [@ EXCEPT !.exists = TRUE, !.failures = 0]]
  /\ Finish("checker")
  /\ UNCHANGED <<phase, process, cmds, stage, todo, owned>>

(* podHealthy fails: the count read earlier goes up by one, and the pod is
   declared Failed when it reaches the threshold.  Beyond the threshold the
   count is not told apart. *)
ProbeFails ==
  LET declared == thread["checker"].failures + 1 >= Threshold
      r == records[thread["checker"].pod]
  IN  /\ thread["checker"].pc = "probe"
      /\ ~ Answers(thread["checker"].proc)
      /\ records' = [records EXCEPT ![thread["checker"].pod] =
           [r EXCEPT !.exists = TRUE,
                     !.failures = IF declared THEN Threshold
                                  ELSE thread["checker"].failures + 1,
                     !.status = IF declared THEN "Failed" ELSE r.status]]
      /\ Finish("checker")
      /\ UNCHANGED <<phase, process, cmds, stage, todo, owned>>

(* restartIfBackoffElapsed: the attempt is recorded, then Spawn. *)
RestartPod ==
  /\ thread["checker"].pc = "restart"
  /\ records' = [records EXCEPT ![thread["checker"].pod] =
                   [@ EXCEPT !.exists = TRUE, !.status = "CrashLoopBackOff",
                             !.failures = 0]]
  /\ thread' = [thread EXCEPT !["checker"] = [@ EXCEPT !.pc = "spawn"]]
  /\ UNCHANGED <<phase, process, cmds, stage, todo, owned>>

(* A Redis error ends the check of this pod. *)
CheckFails ==
  /\ thread["checker"].pc \in {"probe", "restart"}
  /\ Finish("checker")
  /\ UNCHANGED <<phase, records, process, cmds, stage, todo, owned>>

CheckerStep ==
  \/ \E p \in Pods : CheckPod(p)
  \/ ProbeSucceeds
  \/ ProbeFails
  \/ RestartPod
  \/ CheckFails
  \/ SpawnStep("checker")

(***************************************************************************)
(* The control plane and the workloads.                                    *)
(***************************************************************************)

(* scheduleOne records a new pod, then queues its start, unless that fails; the
   record may be gone by then. *)
PlacePod(p) ==
  /\ stage[p] = "new"
  /\ records' = [records EXCEPT ![p] =
                   [Absent EXCEPT !.exists = TRUE, !.whole = TRUE, !.status = "Pending"]]
  /\ stage' = [stage EXCEPT ![p] = "recorded"]
  /\ UNCHANGED <<phase, process, cmds, thread, todo, owned>>

QueueStart(p) ==
  /\ stage[p] \in {"recorded", "unsent"}
  /\ Len(cmds) < MaxQueue
  /\ cmds' = Append(cmds, [type |-> "start", pod |-> p])
  /\ stage' = [stage EXCEPT ![p] = IF @ = "recorded" THEN "sent" ELSE "dropped"]
  /\ UNCHANGED <<phase, records, process, thread, todo, owned>>

QueueStop(p) ==
  /\ records[p].whole
  /\ Len(cmds) < MaxQueue
  /\ cmds' = Append(cmds, [type |-> "stop", pod |-> p])
  /\ UNCHANGED <<phase, records, process, stage, thread, todo, owned>>

(* evictScript: the node was taken for dead.  Its agent may be well, and then
   writes over the status as it would have anyway. *)
EvictRecord(p) ==
  /\ records[p].whole /\ records[p].status # "Evicted"
  /\ records' = Marked(p, "Evicted")
  /\ UNCHANGED <<phase, process, cmds, stage, thread, todo, owned>>

(* forceRemove, for a node taken for dead, and deletePodRecords, for an evicted
   pod: both act on what was read before, so whatever is at the key goes. *)
DropRecord(p) ==
  /\ stage[p] # "new" /\ records[p].exists
  /\ records' = [records EXCEPT ![p] = Absent]
  /\ stage' = [stage EXCEPT ![p] =
                 IF @ \in {"recorded", "unsent"} THEN "unsent" ELSE "dropped"]
  /\ UNCHANGED <<phase, process, cmds, thread, todo, owned>>

ProcessExits(q) ==
  /\ Alive(q)
  /\ process' = Killed(q)
  /\ UNCHANGED <<phase, records, cmds, stage, thread, todo, owned>>

ProcessHangs(q) ==
  /\ process[q].state = "up"
  /\ process' = [process EXCEPT ![q].state = "hung"]
  /\ UNCHANGED <<phase, records, cmds, stage, thread, todo, owned>>

ProcessRecovers(q) ==
  /\ process[q].state = "hung"
  /\ process' = [process EXCEPT ![q].state = "up"]
  /\ UNCHANGED <<phase, records, cmds, stage, thread, todo, owned>>

Environment ==
  \/ \E p \in Pods : PlacePod(p) \/ QueueStart(p) \/ QueueStop(p)
  \/ \E p \in Pods : EvictRecord(p) \/ DropRecord(p)
  \/ \E q \in Procs : ProcessExits(q) \/ ProcessHangs(q) \/ ProcessRecovers(q)

Init ==
  /\ phase = "down"
  /\ records = [p \in Pods |-> Absent]
  /\ process = [q \in Procs |-> NoProcess]
  /\ cmds = <<>>
  /\ stage = [p \in Pods |-> "new"]
  /\ thread = [t \in Threads |-> IdleThread]
  /\ todo = {}
  /\ owned = {}

Next ==
  \/ StartupStep \/ SpawnStep("main")
  \/ ConsumerStep
  \/ CheckerStep
  \/ Environment

Spec == Init /\ [][Next]_vars

-------------------------------------------------------------------------------

(* Everything keeps its type; in particular only processes, and never pid 0, are
   taken for owned at startup (ReconcileOnStartup). *)
TypeOK ==
  /\ phase \in {"down", "adopt", "orphans", "serve"}
  /\ records \in [Pods -> Records]
  /\ process \in [Procs -> Processes]
  /\ cmds \in Seq([type : {"start", "stop"}, pod : Pods])
  /\ stage \in [Pods -> Stages]
  /\ thread \in [Threads -> ThreadStates]
  /\ todo \subseteq Pods
  /\ owned \subseteq Procs

(* When the agent has looked at all processes and begins to serve, wherever its
   predecessor died, whatever that had started and not recorded, and whatever
   was evicted or deleted in the meantime, no pod has two processes, and each
   is the one its pod's record names unless the control plane deleted that
   record (ReconcileOnStartup). *)
StartupLeavesOneProcess ==
  [][StartServing =>
       \A q \in Procs : Alive(q) =>
         /\ ProcessesOf(process[q].pod) = {q}
         /\ Dropped(process[q].pod) \/ records[process[q].pod].proc = q]_vars

(***************************************************************************)
(* The loops go on while the agent serves.  A Redis error or a failed exec *)
(* may spoil any number of attempts, but not all of them: hence strong     *)
(* fairness for the steps an error competes with.                          *)
(***************************************************************************)
SpawnProceeds(t) == SpawnRead(t) /\ thread'[t].pc # "idle"

Fairness ==
  /\ \A p \in Pods : SF_vars(CheckPod(p))
  /\ SF_vars(ProbeFails) /\ SF_vars(RestartPod)
  /\ SF_vars(SpawnProceeds("checker"))
  /\ SF_vars(StartProcess("checker")) /\ SF_vars(RecordIdentity("checker"))
  /\ WF_vars(CheckerStep)

Stopping(p) ==
  \/ \E i \in DOMAIN cmds : cmds[i] = [type |-> "stop", pod |-> p]
  \/ /\ thread["consumer"].pod = p
     /\ thread["consumer"].pc \in {"stop", "find", "kill", "clear", "delete"}

(* The bound Procs is in the checker's way: nothing is left to stand for the
   process it is about to start. *)
Exhausted == thread["checker"].pc = "start" /\ \A q \in Procs : ~ Fresh(q)

(* Once processes no longer exit by themselves, a pod whose process is gone, or
   that never got one because its start command was lost, gets a process and
   has it on record, unless somebody asks for its removal, the control plane
   evicts it or deletes its record, or the agent stops (RunHealthChecker). *)
DeadProcessReplaced ==
  <>[][\A q \in Procs : ~ ProcessExits(q)]_vars =>
    \A p \in Pods :
      (/\ phase = "serve" /\ records[p].whole /\ records[p].status # "Evicted"
       /\ ~ Alive(records[p].proc))
        ~> (\/ phase # "serve" \/ Stopping(p) \/ Dropped(p)
            \/ records[p].status = "Evicted"
            \/ Exhausted \/ Alive(records[p].proc))
===============================================================================
