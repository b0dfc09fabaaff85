--------------------------- MODULE SupervisorProofs ---------------------------
(***************************************************************************)
(* The supervisor of one node, for any pods, processes and threshold: type *)
(* correctness, what the reconciliation at startup leaves behind, and the  *)
(* only ways in which a serving agent can give a pod a second process.     *)
(***************************************************************************)
EXTENDS SupervisorRaces, FiniteSetTheorems, SequenceTheorems, TLAPS

(***************************************************************************)
(* The inductive invariant.                                                *)
(***************************************************************************)

(* A goroutine that is at work knows for which pod. *)
LocalsOK == \A t \in Threads : thread[t].pc # "idle" => thread[t].pod \in Pods

(* main works during the adoption, the two others while the agent serves. *)
PhasesOK ==
  /\ phase # "adopt" => thread["main"].pc = "idle"
  /\ phase # "serve" => /\ thread["consumer"] = IdleThread
                        /\ thread["checker"] = IdleThread
  /\ phase \notin {"adopt", "orphans"} => owned = {}

(* A live process carries the marker of its pod, and the record or the
   goroutine that names it is that pod's. *)
MarkersOK ==
  /\ \A q \in Procs : Alive(q) => process[q].pod \in Pods
  /\ \A p \in Pods : Alive(records[p].proc) => process[records[p].proc].pod = p
  /\ \A t \in Threads :
       thread[t].pc \in {"record", "abandon"} =>
         /\ thread[t].proc \in Procs
         /\ Alive(thread[t].proc) => process[thread[t].proc].pod = thread[t].pod

(* The scheduler's fields are not in a record that is not there, and do not come
   back once the control plane deleted it. *)
WholeOK == \A p \in Pods : records[p].whole => records[p].exists /\ ~ Dropped(p)

(* Nothing exists for a pod the scheduler has not placed. *)
NewOK ==
  \A p \in Pods : stage[p] = "new" =>
    /\ ~ records[p].whole
    /\ ProcessesOf(p) = {}
    /\ \A t \in Threads : thread[t].pc # "idle" => thread[t].pod # p
    /\ \A i \in DOMAIN cmds : cmds[i].pod # p

(* main is at a pod for which it may yet find a process. *)
Respawning == thread["main"].pc \in {"spawn", "start", "record", "abandon", "reread"}

(* At startup: a pod main is at work on was taken off the list, and its record
   is whole unless the control plane deleted it.  What is in the map and alive is
   the only process of its pod there, main is not to find another, and it is what
   a whole record names, again unless the control plane deleted that. *)
StartupOK ==
  /\ phase = "adopt" /\ thread["main"].pc # "idle" =>
       /\ Dropped(thread["main"].pod) \/ records[thread["main"].pod].whole
       /\ thread["main"].pod \notin todo
  /\ \A q \in owned : Alive(q) =>
       /\ Dropped(process[q].pod) \/ (/\ records[process[q].pod].proc = q
                                     /\ records[process[q].pod].whole)
       /\ process[q].pod \notin todo
       /\ Respawning => thread["main"].pod # process[q].pod
       /\ \A r \in owned : Alive(r) /\ process[r].pod = process[q].pod => r = q

(* While the agent serves, for a pod that met no race: there is one process at
   most; it is on its whole record, in the hands of the goroutine that started
   it, or left over from a record the control plane deleted; and whoever is
   about to start one, or to forget the old one, is right that there is none. *)
UntangledOK(p) ==
  /\ \E o : ProcessesOf(p) \subseteq {o}
  /\ \A q \in ProcessesOf(p) :
       \/ Dropped(p)
       \/ records[p].proc = q /\ records[p].whole
       \/ \E t \in Threads : /\ thread[t].pod = p /\ thread[t].proc = q
                             /\ thread[t].pc \in {"record", "abandon"}
  /\ \A t \in Threads : thread[t].pod = p =>
       /\ thread[t].pc \in {"start", "clear"} => ProcessesOf(p) = {}
       /\ thread[t].pc = "delete" => Dropped(p) \/ ProcessesOf(p) = {}
       /\ thread[t].pc \in {"record", "abandon", "kill"} =>
            ProcessesOf(p) \subseteq {thread[t].proc}
       /\ thread[t].pc \in {"start", "record", "abandon"} =>
            Dropped(p) \/ records[p].whole

ServingOK ==
  phase = "serve" => /\ Overlapping \subseteq tangled
                     /\ \A p \in Pods \ tangled : UntangledOK(p)

(* Without the history variable, which says nothing about the startup. *)
StartupInv ==
  TypeOK /\ LocalsOK /\ PhasesOK /\ MarkersOK /\ WholeOK /\ NewOK /\ StartupOK

IInv == StartupInv /\ ServingOK

--------------------------------------------------------------------------------
(***************************************************************************)
(* Types.                                                                  *)
(***************************************************************************)

LEMMA IdleTypes ==
  /\ IdleThread \in ThreadStates /\ NoProcess \in Processes /\ Absent \in Records
  /\ IdleThread.pc = "idle" /\ IdleThread.proc = NoProc
  /\ Absent.proc = NoProc /\ ~ Absent.whole /\ ~ Absent.exists
  /\ NoProcess.state = "dead"
  BY SupervisorAssumption
  DEF IdleThread, ThreadStates, NoProcess, Processes, Absent, Records

(* One goroutine's variables, or one record, get a new value. *)
LEMMA ThreadUpdate ==
  ASSUME thread \in [Threads -> ThreadStates], LocalsOK, NEW t \in Threads,
         NEW s \in ThreadStates, s.pc # "idle" => s.pod \in Pods,
         thread' = [thread EXCEPT ![t] = s]
  PROVE  thread' \in [Threads -> ThreadStates] /\ LocalsOK'
  BY DEF LocalsOK

LEMMA GotoUpdate ==
  ASSUME thread \in [Threads -> ThreadStates], LocalsOK, NEW t \in Threads,
         thread[t].pod \in Pods, Goto(t, "find") \/ Goto(t, "delete")
  PROVE  thread' \in [Threads -> ThreadStates] /\ LocalsOK'
<1>1. PICK c \in {"find", "delete"} : thread' = [thread EXCEPT ![t] =
                                           [thread[t] EXCEPT !.pc = c]]
  BY DEF Goto
<1>2. /\ [thread[t] EXCEPT !.pc = c] \in ThreadStates
      /\ [thread[t] EXCEPT !.pc = c].pod = thread[t].pod
  BY DEF ThreadStates
<1> QED
  BY <1>1, <1>2, ThreadUpdate

LEMMA RecordUpdate ==
  ASSUME records \in [Pods -> Records], NEW p, NEW r, p \in Pods => r \in Records,
         records' = [records EXCEPT ![p] = r]
  PROVE  records' \in [Pods -> Records]
  OBVIOUS

(* Spawn, whoever runs it. *)
LEMMA SpawnTypes ==
  ASSUME TypeOK, LocalsOK, NEW t \in Threads, SpawnStep(t)
  PROVE  TypeOK' /\ LocalsOK'
<1>0. /\ records \in [Pods -> Records] /\ process \in [Procs -> Processes]
      /\ thread \in [Threads -> ThreadStates]
      /\ thread[t].pc # "idle" => thread[t].pod \in Pods
  BY DEF TypeOK, LocalsOK
<1> USE IdleTypes
<1>1. CASE SpawnRead(t)
  <2>1. thread' \in [Threads -> ThreadStates]
    BY <1>0, <1>1 DEF SpawnRead, Goto, Finish, ThreadStates
  <2>2. LocalsOK'
    BY <1>0, <1>1 DEF SpawnRead, Goto, Finish, ThreadStates, LocalsOK
  <2> QED BY <1>1, <2>1, <2>2 DEF SpawnRead, TypeOK
<1>2. CASE StartProcess(t)
  <2>1. thread' \in [Threads -> ThreadStates] /\ LocalsOK'
    <3>1. PICK q \in Procs :
            thread' = [thread EXCEPT ![t] = [thread[t] EXCEPT !.pc = "record", !.proc = q]]
      BY <1>2 DEF StartProcess
    <3>2. [thread[t] EXCEPT !.pc = "record", !.proc = q] \in ThreadStates
      BY <1>0 DEF ThreadStates
    <3> QED BY <1>0, <1>2, <3>1, <3>2, ThreadUpdate DEF StartProcess, ThreadStates
  <2>2. process' \in [Procs -> Processes]
    BY <1>0, <1>2 DEF StartProcess, Processes
  <2> QED BY <1>2, <2>1, <2>2 DEF StartProcess, TypeOK
<1>3. CASE StartFails(t)
  <2>1. thread' \in [Threads -> ThreadStates] /\ LocalsOK'
    BY <1>0, <1>3 DEF StartFails, Goto, ThreadStates, LocalsOK
  <2> QED BY <1>3, <2>1 DEF StartFails, TypeOK
<1>4. CASE RecordIdentity(t)
  <2>1. thread' \in [Threads -> ThreadStates] /\ LocalsOK'
    <3> DEFINE next == IF t = "main"
                       THEN [thread[t] EXCEPT !.pc = "reread", !.proc = NoProc]
                       ELSE IdleThread
    <3>1. thread' = [thread EXCEPT ![t] = next]
      BY <1>4 DEF RecordIdentity, Finish
    <3>2. next \in ThreadStates /\ (next.pc # "idle" => next.pod \in Pods)
      BY <1>0, <1>4 DEF RecordIdentity, ThreadStates
    <3> QED BY <1>0, <3>1, <3>2, ThreadUpdate
  <2>2. records' \in [Pods -> Records]
    BY <1>0, <1>4 DEF RecordIdentity, ThreadStates, Records
  <2> QED BY <1>4, <2>1, <2>2 DEF RecordIdentity, TypeOK
<1>5. CASE RecordFails(t)
  <2>1. thread' \in [Threads -> ThreadStates] /\ LocalsOK'
    BY <1>0, <1>5 DEF RecordFails, Goto, ThreadStates, LocalsOK
  <2> QED BY <1>5, <2>1 DEF RecordFails, TypeOK
<1>6. CASE AbandonProcess(t)
  <2>1. thread' \in [Threads -> ThreadStates] /\ LocalsOK'
    BY <1>0, <1>6 DEF AbandonProcess, ThreadStates, LocalsOK
  <2>2. process' \in [Procs -> Processes]
    BY <1>0, <1>6 DEF AbandonProcess, Killed
  <2> QED BY <1>6, <2>1, <2>2 DEF AbandonProcess, TypeOK
<1>7. CASE MarkFailed(t)
  <2>1. thread' \in [Threads -> ThreadStates] /\ LocalsOK'
    BY <1>0, <1>7 DEF MarkFailed, Finish, LocalsOK
  <2>2. records' \in [Pods -> Records]
    <3>1. thread[t].pod \in Pods =>
            [records[thread[t].pod] EXCEPT !.exists = TRUE, !.status = "Failed"] \in Records
      BY <1>0 DEF Records
    <3> QED BY <1>0, <1>7, <3>1, RecordUpdate DEF MarkFailed, Marked
  <2> QED BY <1>7, <2>1, <2>2 DEF MarkFailed, TypeOK
<1> QED
  BY <1>1, <1>2, <1>3, <1>4, <1>5, <1>6, <1>7 DEF SpawnStep

(* The reconciliation at startup; in particular pid 0 is never owned. *)
LEMMA StartupTypes ==
  ASSUME TypeOK, LocalsOK, StartupStep
  PROVE  TypeOK' /\ LocalsOK'
<1>0. /\ records \in [Pods -> Records] /\ process \in [Procs -> Processes]
      /\ thread \in [Threads -> ThreadStates] /\ "main" \in Threads
      /\ thread["main"].pc # "idle" => thread["main"].pod \in Pods
      /\ owned \subseteq Procs /\ todo \subseteq Pods
  BY DEF TypeOK, LocalsOK, Threads
<1>a. \A p \in Pods : records[p].proc \in Procs \cup {NoProc}
  BY <1>0 DEF Records
<1> USE IdleTypes
<1>1. CASE Boot
  BY <1>1 DEF Boot, TypeOK, LocalsOK
<1>2. ASSUME NEW p \in Pods, AdoptPod(p) PROVE TypeOK' /\ LocalsOK'
  <2>1. owned' \subseteq Procs
    BY <1>0, <1>a, <1>2 DEF AdoptPod, Alive
  <2>2. \A c \in {"fix", "spawn"} :
          /\ [thread["main"] EXCEPT !.pod = p, !.pc = c] \in ThreadStates
          /\ [thread["main"] EXCEPT !.pod = p, !.pc = c].pod = p
    BY <1>0 DEF ThreadStates
  <2>3. thread' \in [Threads -> ThreadStates] /\ LocalsOK'
    <3>1. \/ UNCHANGED thread
          \/ \E c \in {"fix", "spawn"} : thread' = [thread EXCEPT !["main"] =
                                 [thread["main"] EXCEPT !.pod = p, !.pc = c]]
      BY <1>2 DEF AdoptPod
    <3>2. CASE UNCHANGED thread
      BY <1>0, <3>2 DEF LocalsOK
    <3> QED BY <1>0, <2>2, <3>1, <3>2, ThreadUpdate
  <2>4. todo' \subseteq Pods
    BY <1>0, <1>2 DEF AdoptPod
  <2> QED BY <1>2, <2>1, <2>2, <2>3, <2>4 DEF AdoptPod, TypeOK
<1>3. CASE FixStatus
  <2>1. thread' \in [Threads -> ThreadStates] /\ LocalsOK'
    BY <1>0, <1>3 DEF FixStatus, Finish, LocalsOK
  <2>2. records' \in [Pods -> Records]
    <3>1. thread["main"].pod \in Pods =>
            [records[thread["main"].pod] EXCEPT !.exists = TRUE, !.status = "Running"]
              \in Records
      BY <1>0 DEF Records
    <3> QED BY <1>0, <1>3, <3>1, RecordUpdate DEF FixStatus, Marked
  <2> QED BY <1>3, <2>1, <2>2 DEF FixStatus, TypeOK
<1>4. CASE RereadPid
  <2>1. thread' \in [Threads -> ThreadStates] /\ LocalsOK'
    BY <1>0, <1>4 DEF RereadPid, Finish, LocalsOK
  <2>2. owned' \subseteq Procs
    BY <1>0, <1>a, <1>4 DEF RereadPid
  <2> QED BY <1>4, <2>1, <2>2 DEF RereadPid, TypeOK
<1>5. CASE ScanProcesses
  BY <1>5 DEF ScanProcesses, TypeOK, LocalsOK
<1>6. CASE KillOrphan
  <2>1. process' \in [Procs -> Processes]
    BY <1>0, <1>6 DEF KillOrphan, Killed
  <2> QED BY <1>6, <2>1 DEF KillOrphan, TypeOK, LocalsOK
<1>7. CASE StartServing \/ ScanFails
  BY <1>7 DEF StartServing, ScanFails, TypeOK, LocalsOK
<1>8. CASE AgentDies
  BY <1>8 DEF AgentDies, TypeOK, LocalsOK
<1> QED
  BY <1>1, <1>2, <1>3, <1>4, <1>5, <1>6, <1>7, <1>8 DEF StartupStep

(* The command consumer, apart from Spawn. *)
LEMMA ConsumerTypes ==
  ASSUME TypeOK, LocalsOK,
         \/ PopCommand \/ StopRead \/ FindProcess \/ KillProcess
         \/ ClearIdentity \/ DeleteRecord \/ StopFails
  PROVE  TypeOK' /\ LocalsOK'
<1>0. /\ records \in [Pods -> Records] /\ process \in [Procs -> Processes]
      /\ thread \in [Threads -> ThreadStates] /\ "consumer" \in Threads
      /\ thread["consumer"].pc # "idle" => thread["consumer"].pod \in Pods
      /\ cmds \in Seq([type : {"start", "stop"}, pod : Pods])
  BY DEF TypeOK, LocalsOK, Threads
<1> USE IdleTypes
<1>1. CASE PopCommand
  <2>1. /\ Head(cmds) \in [type : {"start", "stop"}, pod : Pods]
        /\ Tail(cmds) \in Seq([type : {"start", "stop"}, pod : Pods])
    BY <1>0, <1>1, HeadTailProperties DEF PopCommand
  <2>2. Head(cmds).pod \in Pods
    BY <2>1
  <2>3. thread' \in [Threads -> ThreadStates] /\ LocalsOK'
    BY <1>0, <1>1, <2>2 DEF PopCommand, ThreadStates, LocalsOK
  <2> QED BY <1>1, <2>1, <2>3 DEF PopCommand, TypeOK
<1>2. CASE StopRead
  <2>1. thread' \in [Threads -> ThreadStates] /\ LocalsOK'
    <3>1. PICK c \in {"find", "delete"} : \/ Finish("consumer")
                                          \/ Goto("consumer", c)
      BY <1>2 DEF StopRead
    <3>2. Goto("consumer", c) => thread' \in [Threads -> ThreadStates] /\ LocalsOK'
      BY <1>0, <1>2, GotoUpdate DEF StopRead
    <3>3. Finish("consumer") => thread' \in [Threads -> ThreadStates] /\ LocalsOK'
      BY <1>0, ThreadUpdate DEF Finish
    <3> QED BY <3>1, <3>2, <3>3
  <2> QED BY <1>2, <2>1 DEF StopRead, TypeOK
<1>3. CASE FindProcess
  <2>0. records[thread["consumer"].pod].proc \in Procs \cup {NoProc}
    BY <1>0, <1>3 DEF FindProcess, Records
  <2> DEFINE next(c, q) == [thread["consumer"] EXCEPT !.pc = c, !.proc = q]
  <2>1. \A c \in {"kill", "clear"}, q \in Procs \cup {NoProc} :
          next(c, q) \in ThreadStates /\ next(c, q).pod = thread["consumer"].pod
    BY <1>0 DEF ThreadStates
  <2>2. Finish("consumer") => thread' \in [Threads -> ThreadStates] /\ LocalsOK'
    BY <1>0, ThreadUpdate DEF Finish
  <2>3. Goto("consumer", "delete") => thread' \in [Threads -> ThreadStates] /\ LocalsOK'
    BY <1>0, <1>3, GotoUpdate DEF FindProcess
  <2>4. \/ Finish("consumer") \/ Goto("consumer", "delete")
        \/ \E c \in {"kill", "clear"}, q \in Procs \cup {NoProc} :
             thread' = [thread EXCEPT !["consumer"] = next(c, q)]
    BY <1>3, <2>0 DEF FindProcess
  <2>5. thread["consumer"].pod \in Pods
    BY <1>0, <1>3 DEF FindProcess
  <2> HIDE DEF next
  <2>6. thread' \in [Threads -> ThreadStates] /\ LocalsOK'
    BY <1>0, <2>1, <2>2, <2>3, <2>4, <2>5, ThreadUpdate
  <2> QED BY <1>3, <2>6 DEF FindProcess, TypeOK
<1>4. CASE KillProcess
  <2>1. thread' \in [Threads -> ThreadStates] /\ LocalsOK'
    BY <1>0, <1>4 DEF KillProcess, ThreadStates, LocalsOK
  <2>2. process' \in [Procs -> Processes]
    BY <1>0, <1>4 DEF KillProcess, Killed
  <2> QED BY <1>4, <2>1, <2>2 DEF KillProcess, TypeOK
<1>5. CASE ClearIdentity
  <2>1. thread' \in [Threads -> ThreadStates] /\ LocalsOK'
    BY <1>0, <1>5 DEF ClearIdentity, Goto, ThreadStates, LocalsOK
  <2>2. records' \in [Pods -> Records]
    BY <1>0, <1>5 DEF ClearIdentity, Records
  <2> QED BY <1>5, <2>1, <2>2 DEF ClearIdentity, TypeOK
<1>6. CASE DeleteRecord
  <2>1. thread' \in [Threads -> ThreadStates] /\ LocalsOK'
    BY <1>0, <1>6 DEF DeleteRecord, Finish, LocalsOK
  <2>2. records' \in [Pods -> Records]
    BY <1>0, <1>6 DEF DeleteRecord
  <2> QED BY <1>6, <2>1, <2>2 DEF DeleteRecord, TypeOK
<1>7. CASE StopFails
  <2>1. thread' \in [Threads -> ThreadStates] /\ LocalsOK'
    BY <1>0, <1>7 DEF StopFails, Finish, LocalsOK
  <2> QED BY <1>7, <2>1 DEF StopFails, TypeOK
<1> QED
  BY <1>1, <1>2, <1>3, <1>4, <1>5, <1>6, <1>7

(* The health checker, apart from Spawn: the failure count never passes the
   threshold. *)
LEMMA CheckerTypes ==
  ASSUME TypeOK, LocalsOK,
         \/ \E p \in Pods : CheckPod(p)
         \/ ProbeSucceeds \/ ProbeFails \/ RestartPod \/ CheckFails
  PROVE  TypeOK' /\ LocalsOK'
<1>0. /\ records \in [Pods -> Records] /\ "checker" \in Threads
      /\ thread \in [Threads -> ThreadStates]
      /\ thread["checker"].pc # "idle" => thread["checker"].pod \in Pods
      /\ thread["checker"].failures \in 0 .. Threshold
  BY DEF TypeOK, LocalsOK, Threads, ThreadStates
<1>a. Threshold \in Nat \ {0}
  BY SupervisorAssumption
<1>b. 0 \in 0 .. Threshold
  BY <1>a
<1> USE IdleTypes
<1>1. ASSUME NEW p \in Pods, CheckPod(p) PROVE TypeOK' /\ LocalsOK'
  <2>0. /\ records[p].proc \in Procs \cup {NoProc}
        /\ records[p].failures \in 0 .. Threshold
    BY <1>0 DEF Records
  <2>1. thread' \in [Threads -> ThreadStates]
    BY <1>0, <1>1, <2>0 DEF CheckPod, IdleThread, ThreadStates
  <2>2. LocalsOK'
    BY <1>0, <1>1 DEF CheckPod, IdleThread, LocalsOK
  <2> QED BY <1>1, <2>1, <2>2 DEF CheckPod, TypeOK
<1>2. CASE ProbeSucceeds
  <2>1. thread' \in [Threads -> ThreadStates] /\ LocalsOK'
    BY <1>0, <1>2 DEF ProbeSucceeds, Finish, LocalsOK
  <2>2. records' \in [Pods -> Records]
    <3>1. thread["checker"].pod \in Pods =>
            [records[thread["checker"].pod] EXCEPT !.exists = TRUE, !.failures = 0]
              \in Records
      BY <1>0, <1>b DEF Records
    <3> QED BY <1>0, <1>2, <3>1, RecordUpdate DEF ProbeSucceeds
  <2> QED BY <1>2, <2>1, <2>2 DEF ProbeSucceeds, TypeOK
<1>3. CASE ProbeFails
  <2>1. thread' \in [Threads -> ThreadStates] /\ LocalsOK'
    BY <1>0, <1>3 DEF ProbeFails, Finish, LocalsOK
  <2>2. (IF thread["checker"].failures + 1 >= Threshold THEN Threshold
         ELSE thread["checker"].failures + 1) \in 0 .. Threshold
    BY <1>0, <1>a
  <2>3. records' \in [Pods -> Records]
    <3> DEFINE r == records[thread["checker"].pod]
               declared == thread["checker"].failures + 1 >= Threshold
               k == IF declared THEN Threshold ELSE thread["checker"].failures + 1
               s == IF declared THEN "Failed" ELSE r.status
    <3>1. records' = [records EXCEPT ![thread["checker"].pod] =
                        [r EXCEPT !.exists = TRUE, !.failures = k, !.status = s]]
      BY <1>3 DEF ProbeFails
    <3>2. k \in 0 .. Threshold /\ s \in {r.status, "Failed"}
      BY <2>2
    <3> HIDE DEF k, s
    <3>3. thread["checker"].pod \in Pods =>
            [r EXCEPT !.exists = TRUE, !.failures = k, !.status = s] \in Records
      BY <1>0, <3>2 DEF Records
    <3> HIDE DEF r
    <3> QED BY <1>0, <3>1, <3>3, RecordUpdate
  <2> QED BY <1>3, <2>1, <2>3 DEF ProbeFails, TypeOK
<1>4. CASE RestartPod
  <2>1. thread' \in [Threads -> ThreadStates] /\ LocalsOK'
    BY <1>0, <1>4 DEF RestartPod, ThreadStates, LocalsOK
  <2>2. records' \in [Pods -> Records]
    <3>1. thread["checker"].pod \in Pods =>
            [records[thread["checker"].pod] EXCEPT
               !.exists = TRUE, !.status = "CrashLoopBackOff", !.failures = 0] \in Records
      BY <1>0, <1>b DEF Records
    <3> QED BY <1>0, <1>4, <3>1, RecordUpdate DEF RestartPod
  <2> QED BY <1>4, <2>1, <2>2 DEF RestartPod, TypeOK
<1>5. CASE CheckFails
  <2>1. thread' \in [Threads -> ThreadStates] /\ LocalsOK'
    BY <1>0, <1>5 DEF CheckFails, Finish, LocalsOK
  <2> QED BY <1>5, <2>1 DEF CheckFails, TypeOK
<1> QED
  BY <1>1, <1>2, <1>3, <1>4, <1>5

(* The control plane and the workloads. *)
LEMMA EnvironmentTypes ==
  ASSUME TypeOK, LocalsOK, Environment
  PROVE  TypeOK' /\ LocalsOK'
<1>0. /\ records \in [Pods -> Records] /\ process \in [Procs -> Processes]
      /\ cmds \in Seq([type : {"start", "stop"}, pod : Pods])
      /\ stage \in [Pods -> Stages]
  BY DEF TypeOK, Stages
<1>a. Threshold \in Nat \ {0}
  BY SupervisorAssumption
<1>1. ASSUME NEW p \in Pods, PlacePod(p) PROVE TypeOK' /\ LocalsOK'
  <2>1. [Absent EXCEPT !.exists = TRUE, !.whole = TRUE, !.status = "Pending"] \in Records
    <3>1. 0 \in 0 .. Threshold /\ NoProc \in Procs \cup {NoProc}
      BY <1>a
    <3> QED BY <3>1 DEF Records, Absent
  <2>2. records' \in [Pods -> Records]
    BY <1>0, <1>1, <2>1, RecordUpdate DEF PlacePod
  <2>3. stage' \in [Pods -> Stages]
    BY <1>0, <1>1 DEF PlacePod, Stages
  <2> QED BY <1>1, <2>2, <2>3 DEF PlacePod, TypeOK, LocalsOK, Stages
<1>2. ASSUME NEW p \in Pods, QueueStart(p) \/ QueueStop(p) PROVE TypeOK' /\ LocalsOK'
  <2>1. /\ [type |-> "start", pod |-> p] \in [type : {"start", "stop"}, pod : Pods]
        /\ [type |-> "stop", pod |-> p] \in [type : {"start", "stop"}, pod : Pods]
    OBVIOUS
  <2>2. cmds' \in Seq([type : {"start", "stop"}, pod : Pods])
    <3>1. \E c \in [type : {"start", "stop"}, pod : Pods] : cmds' = Append(cmds, c)
      BY <1>2, <2>1 DEF QueueStart, QueueStop
    <3> QED BY <1>0, <3>1, AppendProperties
  <2>3. stage' \in [Pods -> Stages]
    BY <1>0, <1>2 DEF QueueStart, QueueStop, Stages
  <2> QED BY <1>2, <2>2, <2>3 DEF QueueStart, QueueStop, TypeOK, LocalsOK, Stages
<1>3. ASSUME NEW q \in Procs, ProcessExits(q) \/ ProcessHangs(q) \/ ProcessRecovers(q)
      PROVE  TypeOK' /\ LocalsOK'
  <2>1. process' \in [Procs -> Processes]
    BY <1>0, <1>3, IdleTypes
    DEF ProcessExits, ProcessHangs, ProcessRecovers, Killed, Processes
  <2> QED BY <1>3, <2>1 DEF ProcessExits, ProcessHangs, ProcessRecovers, TypeOK, LocalsOK
<1>4. ASSUME NEW p \in Pods, EvictRecord(p) PROVE TypeOK' /\ LocalsOK'
  <2>1. [records[p] EXCEPT !.exists = TRUE, !.status = "Evicted"] \in Records
    BY <1>0 DEF Records
  <2>2. records' \in [Pods -> Records]
    BY <1>0, <1>4, <2>1, RecordUpdate DEF EvictRecord, Marked
  <2> QED BY <1>4, <2>2 DEF EvictRecord, TypeOK, LocalsOK
<1>5. ASSUME NEW p \in Pods, DropRecord(p) PROVE TypeOK' /\ LocalsOK'
  <2>1. records' \in [Pods -> Records]
    BY <1>0, <1>5, IdleTypes, RecordUpdate DEF DropRecord
  <2>2. stage' \in [Pods -> Stages]
    BY <1>0, <1>5 DEF DropRecord, Stages
  <2> QED BY <1>5, <2>1, <2>2 DEF DropRecord, TypeOK, LocalsOK, Stages
<1> QED
  BY <1>1, <1>2, <1>3, <1>4, <1>5 DEF Environment

LEMMA TypeStep ==
  ASSUME TypeOK, LocalsOK, [Next]_vars
  PROVE  TypeOK' /\ LocalsOK'
<1>1. CASE StartupStep \/ SpawnStep("main")
  BY <1>1, StartupTypes, SpawnTypes DEF Threads
<1>2. CASE ConsumerStep
  BY <1>2, ConsumerTypes, SpawnTypes DEF ConsumerStep, Threads
<1>3. CASE CheckerStep
  BY <1>3, CheckerTypes, SpawnTypes DEF CheckerStep, Threads
<1>4. CASE Environment
  BY <1>4, EnvironmentTypes
<1>5. CASE UNCHANGED vars
  BY <1>5 DEF vars, TypeOK, LocalsOK
<1> QED
  BY <1>1, <1>2, <1>3, <1>4, <1>5 DEF Next

LEMMA TypeInit ==
  ASSUME Init
  PROVE  TypeOK /\ LocalsOK
  BY IdleTypes DEF Init, TypeOK, LocalsOK, Stages

(* For any pods, processes and threshold the supervisor's state keeps its type;
   only processes are ever taken for owned (ReconcileOnStartup). *)
THEOREM SupervisorTypeCorrect == Spec => []TypeOK
<1> QED
  BY TypeInit, TypeStep, PTL DEF Spec

--------------------------------------------------------------------------------
(***************************************************************************)
(* Most steps touch neither what a record says about identity nor what the *)
(* goroutines rely on inside their windows.                                *)
(***************************************************************************)
SameIdentities ==
  \A p \in Pods : /\ records'[p].proc = records[p].proc
                  /\ records'[p].whole = records[p].whole
                  /\ records[p].exists => records'[p].exists

(* Processes may die or hang, none is started. *)
NoBirths ==
  \A q \in Procs : process'[q].state # "dead" =>
    process[q].state # "dead" /\ process'[q].pod = process[q].pod

Holds(t) == thread[t].pc \in {"record", "abandon"}

(* t goes on outside the windows, with a pod that has been placed. *)
QuietMove(t) ==
  \/ thread'[t] = thread[t]
  \/ ~ Holds(t) /\ thread'[t] = IdleThread
  \/ /\ ~ Holds(t) /\ ~ InWindow(t)'
     /\ thread'[t].pod \in Pods /\ stage[thread'[t].pod] # "new"
     /\ IF t = "main" THEN /\ thread[t].pc \in {"spawn", "start"}
                           /\ thread'[t].pod = thread[t].pod
        ELSE phase = "serve"

Quiet ==
  /\ SameIdentities
  /\ NoBirths
  /\ UNCHANGED <<phase, todo, owned>>
  /\ \A p \in Pods : stage'[p] = "new" => stage[p] = "new"
  /\ \A p \in Pods : Dropped(p)' <=> Dropped(p)
  /\ \A p \in Pods, i \in DOMAIN cmds' : stage'[p] = "new" => cmds'[i].pod # p
  /\ \A t \in Threads : QuietMove(t)

LEMMA AliveIn ==
  ASSUME TypeOK
  PROVE  /\ \A q \in Procs : Alive(q) <=> process[q].state # "dead"
         /\ \A p \in Pods : Alive(records[p].proc) => records[p].proc \in Procs
         /\ \A t \in Threads : Alive(thread[t].proc) => thread[t].proc \in Procs
  BY SupervisorAssumption DEF TypeOK, Alive, Records, ThreadStates

LEMMA QuietStartup ==
  ASSUME StartupInv, Quiet
  PROVE  PhasesOK' /\ MarkersOK' /\ WholeOK' /\ NewOK' /\ StartupOK'
<1>0. TypeOK /\ LocalsOK /\ PhasesOK /\ MarkersOK /\ WholeOK /\ NewOK /\ StartupOK
  BY DEF StartupInv
<1>1. PhasesOK'
  BY <1>0, IdleTypes DEF Quiet, QuietMove, PhasesOK, Threads
<1>2. MarkersOK'
  <2>1. \A q \in Procs : Alive(q)' => process'[q].pod \in Pods
    BY <1>0 DEF Quiet, NoBirths, MarkersOK, Alive
  <2>2. \A p \in Pods : Alive(records[p].proc)' => process'[records'[p].proc].pod = p
    <3> SUFFICES ASSUME NEW p \in Pods, Alive(records[p].proc)'
                 PROVE  process'[records'[p].proc].pod = p
      OBVIOUS
    <3>1. records'[p].proc = records[p].proc /\ records[p].proc \in Procs \cup {NoProc}
      BY <1>0 DEF Quiet, SameIdentities, TypeOK, Records
    <3>2. /\ records[p].proc \in Procs /\ records[p].proc # NoProc
          /\ process'[records[p].proc].state # "dead"
      BY <3>1 DEF Alive
    <3>3. Alive(records[p].proc)
      BY <3>2 DEF Quiet, NoBirths, Alive
    <3> QED BY <1>0, <3>1, <3>2, <3>3 DEF Quiet, NoBirths, MarkersOK
  <2>3. ASSUME NEW t \in Threads, Holds(t)'
        PROVE  /\ thread'[t].proc \in Procs
               /\ Alive(thread[t].proc)' =>
                    process'[thread'[t].proc].pod = thread'[t].pod
    <3>1. thread'[t] = thread[t]
      BY <2>3, IdleTypes DEF Quiet, QuietMove, Holds, InWindow
    <3> QED BY <1>0, <2>3, <3>1 DEF Quiet, NoBirths, MarkersOK, Alive, Holds
  <2> QED BY <2>1, <2>2, <2>3 DEF MarkersOK, Holds
<1>3. NewOK'
  <2> SUFFICES ASSUME NEW p \in Pods, stage'[p] = "new"
               PROVE  /\ ~ records'[p].whole
                      /\ ProcessesOf(p)' = {}
                      /\ \A t \in Threads : thread'[t].pc # "idle" => thread'[t].pod # p
                      /\ \A i \in DOMAIN cmds' : cmds'[i].pod # p
    BY DEF NewOK
  <2>1. stage[p] = "new"
    BY DEF Quiet
  <2>2. ~ records'[p].whole
    BY <1>0, <2>1 DEF Quiet, SameIdentities, NewOK
  <2>3. ProcessesOf(p)' = {}
    BY <1>0, <2>1 DEF Quiet, NoBirths, NewOK, ProcessesOf, Alive
  <2>4. \A t \in Threads : thread'[t].pc # "idle" => thread'[t].pod # p
    BY <1>0, <2>1, IdleTypes DEF Quiet, QuietMove, NewOK
  <2> QED BY <2>2, <2>3, <2>4 DEF Quiet
<1>4. StartupOK'
  <2>0. QuietMove("main") /\ "main" \in Threads
    BY DEF Quiet, Threads
  <2>1. thread'["main"].pc # "idle" => /\ thread["main"].pc # "idle"
                                       /\ thread'["main"].pod = thread["main"].pod
    BY <2>0, IdleTypes DEF QuietMove
  <2>2. phase' = "adopt" /\ thread'["main"].pc # "idle" =>
          /\ Dropped(thread["main"].pod)' \/ records'[thread'["main"].pod].whole
          /\ thread'["main"].pod \notin todo'
    <3> SUFFICES ASSUME phase' = "adopt", thread'["main"].pc # "idle"
                 PROVE  /\ Dropped(thread["main"].pod)' \/ records'[thread'["main"].pod].whole
                        /\ thread'["main"].pod \notin todo'
      OBVIOUS
    <3> DEFINE p == thread["main"].pod
    <3>1. /\ thread'["main"].pod = p /\ p \in Pods /\ phase = "adopt"
          /\ Dropped(p) \/ records[p].whole
          /\ p \notin todo
      BY <1>0, <2>0, <2>1 DEF Quiet, StartupOK, LocalsOK
    <3>2. Dropped(thread["main"].pod)' <=> Dropped(p)
      BY <3>1 DEF Quiet, Dropped
    <3> QED BY <3>1, <3>2 DEF Quiet, SameIdentities
  <2>3. Respawning' => Respawning
    BY <2>0, IdleTypes DEF QuietMove, Respawning
  <2>4. \A q \in owned' : Alive(q)' =>
          /\ q \in owned /\ Alive(q)
          /\ process'[q].pod = process[q].pod /\ process[q].pod \in Pods
    BY <1>0 DEF Quiet, TypeOK, NoBirths, Alive, MarkersOK
  <2>5. ASSUME NEW q \in owned', Alive(q)'
        PROVE  /\ Dropped(process[q].pod)' \/ (/\ records'[process'[q].pod].proc = q
                                                /\ records'[process'[q].pod].whole)
               /\ process'[q].pod \notin todo'
               /\ Respawning' => thread'["main"].pod # process'[q].pod
               /\ \A r \in owned' :
                    Alive(r)' /\ process'[r].pod = process'[q].pod => r = q
    <3>1. Dropped(process[q].pod)' <=> Dropped(process[q].pod)
      BY <2>4, <2>5 DEF Quiet, Dropped
    <3>2. /\ records'[process[q].pod].proc = records[process[q].pod].proc
          /\ records'[process[q].pod].whole = records[process[q].pod].whole
      BY <2>4, <2>5 DEF Quiet, SameIdentities
    <3>3. Respawning' => thread'["main"].pod = thread["main"].pod
      BY <2>1 DEF Respawning
    <3>4. /\ Dropped(process[q].pod) \/ (/\ records[process[q].pod].proc = q
                                         /\ records[process[q].pod].whole)
          /\ process[q].pod \notin todo
          /\ Respawning => thread["main"].pod # process[q].pod
      BY <1>0, <2>4, <2>5 DEF StartupOK
    <3>5. \A r \in owned' : Alive(r)' /\ process'[r].pod = process'[q].pod => r = q
      BY <1>0, <2>4, <2>5 DEF StartupOK
    <3> QED BY <2>3, <2>4, <2>5, <3>1, <3>2, <3>3, <3>4, <3>5 DEF Quiet
  <2> QED BY <2>2, <2>5 DEF StartupOK
<1>5. WholeOK'
  BY <1>0 DEF Quiet, SameIdentities, WholeOK
<1> QED
  BY <1>1, <1>2, <1>3, <1>4, <1>5

(* The pods that met a race only get more while the agent serves. *)
LEMMA TangleGrows ==
  ASSUME TypeOK, Tangle, phase = "serve", phase' = "serve"
  PROVE  tangled' = tangled \cup Overlapping'
  BY DEF Tangle

LEMMA QuietServing ==
  ASSUME StartupInv, ServingOK, Quiet, Tangle
  PROVE  ServingOK'
<1> SUFFICES ASSUME phase' = "serve" PROVE ServingOK'
  BY DEF ServingOK
<1>0. TypeOK /\ LocalsOK /\ PhasesOK /\ MarkersOK /\ phase = "serve"
  BY DEF StartupInv, Quiet
<1>1. tangled' = tangled \cup Overlapping'
  BY <1>0, TangleGrows
<1> SUFFICES ASSUME NEW p \in Pods \ tangled' PROVE UntangledOK(p)'
  BY <1>1 DEF ServingOK
<1>2. UntangledOK(p)
  BY <1>0, <1>1 DEF ServingOK
<1>3. ProcessesOf(p)' \subseteq ProcessesOf(p)
  BY DEF Quiet, NoBirths, ProcessesOf, Alive
<1>4. \A t \in Threads : Holds(t) => thread'[t] = thread[t]
  BY DEF Quiet, QuietMove
<1>5. \A t \in Threads : InWindow(t)' => thread'[t] = thread[t]
  BY IdleTypes DEF Quiet, QuietMove, InWindow
<1>6. records'[p].proc = records[p].proc /\ records'[p].whole = records[p].whole
  BY DEF Quiet, SameIdentities
<1>d. Dropped(p)' <=> Dropped(p)
  BY DEF Quiet
<1>7. \A q \in ProcessesOf(p)' :
        \/ Dropped(p)'
        \/ records'[p].proc = q /\ records'[p].whole
        \/ \E t \in Threads : /\ thread'[t].pod = p /\ thread'[t].proc = q
                              /\ thread'[t].pc \in {"record", "abandon"}
  BY <1>2, <1>3, <1>4, <1>6, <1>d DEF UntangledOK, Holds
<1>8. \A t \in Threads : thread'[t].pod = p =>
        /\ thread'[t].pc \in {"start", "clear"} => ProcessesOf(p)' = {}
        /\ thread'[t].pc = "delete" => Dropped(p)' \/ ProcessesOf(p)' = {}
        /\ thread'[t].pc \in {"record", "abandon", "kill"} =>
             ProcessesOf(p)' \subseteq {thread'[t].proc}
        /\ thread'[t].pc \in {"start", "record", "abandon"} =>
             Dropped(p)' \/ records'[p].whole
  BY <1>2, <1>3, <1>5, <1>6, <1>d DEF UntangledOK, InWindow
<1>9. \E o : ProcessesOf(p)' \subseteq {o}
  BY <1>2, <1>3 DEF UntangledOK
<1> QED
  BY <1>7, <1>8, <1>9 DEF UntangledOK

--------------------------------------------------------------------------------
(***************************************************************************)
(* The quiet steps.                                                        *)
(***************************************************************************)

(* Only t moves. *)
Alone(t) == \A u \in Threads \ {t} : thread'[u] = thread[u]

(* What a step leaves alone when it is about goroutine t's variables and about
   the fields of records that say nothing of identity. *)
LEMMA QuietIf ==
  ASSUME StartupInv, NEW t \in Threads, Alone(t), QuietMove(t), SameIdentities,
         UNCHANGED <<phase, process, stage, todo, owned, cmds>>
  PROVE  Quiet
<1>1. NoBirths
  BY DEF NoBirths
<1>2. \A p \in Pods, i \in DOMAIN cmds' : stage'[p] = "new" => cmds'[i].pod # p
  BY DEF StartupInv, NewOK
<1> QED
  BY <1>1, <1>2 DEF Quiet, Alone, QuietMove, Dropped

(* A busy goroutine ends its work or goes on outside the windows. *)
LEMMA QuietMoveIf ==
  ASSUME StartupInv, NEW t \in Threads, thread[t].pc # "idle", ~ Holds(t),
         \/ Finish(t)
         \/ /\ Goto(t, "mark") \/ Goto(t, "reread")
            /\ t = "main" \/ phase = "serve"
            /\ thread[t].pc \in {"spawn", "start"}
         \/ Goto(t, "find") /\ t = "consumer"
         \/ Goto(t, "spawn") /\ t = "checker"
  PROVE  Alone(t) /\ QuietMove(t)
<1>0. thread \in [Threads -> ThreadStates] /\ thread[t].pod \in Pods
  BY DEF StartupInv, TypeOK, LocalsOK
<1>1. Alone(t)
  BY <1>0 DEF Finish, Goto, Alone
<1>2. stage[thread[t].pod] # "new"
  BY <1>0 DEF StartupInv, NewOK
<1>3. t # "main" => phase = "serve"
  BY IdleTypes DEF StartupInv, PhasesOK, Threads
<1>4. CASE Finish(t)
  <2>1. ~ Holds(t) /\ thread'[t] = IdleThread
    BY <1>0, <1>4 DEF Finish
  <2> QED BY <1>1, <2>1 DEF QuietMove
<1>5. ASSUME NEW c \in {"mark", "reread", "find", "spawn"}, Goto(t, c),
             t = "main" => thread[t].pc \in {"spawn", "start"}
      PROVE  QuietMove(t)
  <2>1. thread'[t].pc = c /\ thread'[t].pod = thread[t].pod
    BY <1>0, <1>5 DEF Goto, ThreadStates
  <2> QED BY <1>0, <1>2, <1>3, <1>5, <2>1 DEF QuietMove, InWindow
<1> QED
  BY <1>1, <1>4, <1>5

(* The fields of a record that say nothing of identity. *)
LEMMA SameIdentitiesIf ==
  ASSUME TypeOK, NEW p,
         \/ UNCHANGED records
         \/ \E s : records' = [records EXCEPT ![p] =
                          [records[p] EXCEPT !.exists = TRUE, !.status = s]]
         \/ \E k : records' = [records EXCEPT ![p] =
                          [records[p] EXCEPT !.exists = TRUE, !.failures = k]]
         \/ \E k, s : records' = [records EXCEPT ![p] =
                          [records[p] EXCEPT !.exists = TRUE, !.failures = k, !.status = s]]
         \/ \E k, s : records' = [records EXCEPT ![p] =
                          [records[p] EXCEPT !.exists = TRUE, !.status = s, !.failures = k]]
  PROVE  SameIdentities
<1>0. records \in [Pods -> Records]
  BY DEF TypeOK
<1>1. ASSUME NEW r, records' = [records EXCEPT ![p] = r],
             p \in Pods => r.proc = records[p].proc /\ r.whole = records[p].whole /\ r.exists
      PROVE  SameIdentities
  BY <1>0, <1>1 DEF SameIdentities
<1>2. ASSUME NEW s,
             records' = [records EXCEPT ![p] = [records[p] EXCEPT !.exists = TRUE, !.status = s]]
      PROVE  SameIdentities
  <2>1. p \in Pods =>
          LET r == [records[p] EXCEPT !.exists = TRUE, !.status = s]
          IN  r.proc = records[p].proc /\ r.whole = records[p].whole /\ r.exists
    BY <1>0 DEF Records
  <2> QED BY <1>1, <1>2, <2>1
<1>3. ASSUME NEW k,
             records' = [records EXCEPT ![p] = [records[p] EXCEPT !.exists = TRUE, !.failures = k]]
      PROVE  SameIdentities
  <2>1. p \in Pods =>
          LET r == [records[p] EXCEPT !.exists = TRUE, !.failures = k]
          IN  r.proc = records[p].proc /\ r.whole = records[p].whole /\ r.exists
    BY <1>0 DEF Records
  <2> QED BY <1>1, <1>3, <2>1
<1>4. ASSUME NEW k, NEW s,
             records' = [records EXCEPT ![p] =
                          [records[p] EXCEPT !.exists = TRUE, !.failures = k, !.status = s]]
      PROVE  SameIdentities
  <2>1. p \in Pods =>
          LET r == [records[p] EXCEPT !.exists = TRUE, !.failures = k, !.status = s]
          IN  r.proc = records[p].proc /\ r.whole = records[p].whole /\ r.exists
    BY <1>0 DEF Records
  <2> QED BY <1>1, <1>4, <2>1
<1>5. ASSUME NEW k, NEW s,
             records' = [records EXCEPT ![p] =
                          [records[p] EXCEPT !.exists = TRUE, !.status = s, !.failures = k]]
      PROVE  SameIdentities
  <2>1. p \in Pods =>
          LET r == [records[p] EXCEPT !.exists = TRUE, !.status = s, !.failures = k]
          IN  r.proc = records[p].proc /\ r.whole = records[p].whole /\ r.exists
    BY <1>0 DEF Records
  <2> QED BY <1>1, <1>5, <2>1
<1>6. UNCHANGED records => SameIdentities
  BY DEF SameIdentities
<1> QED
  BY <1>2, <1>3, <1>4, <1>5, <1>6

(* Spawn up to the start of the process and after its failure. *)
LEMMA SpawnQuiet ==
  ASSUME StartupInv, NEW t \in Threads,
         \/ SpawnRead(t) /\ ~ Goto(t, "start")
         \/ StartFails(t)
         \/ MarkFailed(t)
  PROVE  Quiet
<1>0. TypeOK /\ (t # "main" /\ thread[t].pc # "idle" => phase = "serve")
  BY IdleTypes DEF StartupInv, PhasesOK, Threads
<1>1. CASE SpawnRead(t) /\ ~ Goto(t, "start")
  <2>1. Alone(t) /\ QuietMove(t)
    BY <1>1, QuietMoveIf DEF SpawnRead, Holds
  <2> QED BY <1>0, <1>1, <2>1, QuietIf, SameIdentitiesIf DEF SpawnRead
<1>2. CASE StartFails(t)
  <2>1. Alone(t) /\ QuietMove(t)
    BY <1>0, <1>2, QuietMoveIf DEF StartFails, Holds
  <2> QED BY <1>0, <1>2, <2>1, QuietIf, SameIdentitiesIf DEF StartFails
<1>3. CASE MarkFailed(t)
  <2>1. Alone(t) /\ QuietMove(t)
    BY <1>3, QuietMoveIf DEF MarkFailed, Holds
  <2>2. SameIdentities
    BY <1>0, <1>3, SameIdentitiesIf DEF MarkFailed, Marked
  <2> QED BY <1>3, <2>1, <2>2, QuietIf DEF MarkFailed
<1> QED
  BY <1>1, <1>2, <1>3

(* The correction of a status at startup. *)
LEMMA FixQuiet ==
  ASSUME StartupInv, FixStatus
  PROVE  Quiet
<1>0. TypeOK /\ "main" \in Threads
  BY DEF StartupInv, Threads
<1>1. Alone("main") /\ QuietMove("main")
  BY <1>0, QuietMoveIf DEF FixStatus, Holds
<1>2. SameIdentities
  BY <1>0, SameIdentitiesIf DEF FixStatus, Marked
<1> QED
  BY <1>0, <1>1, <1>2, QuietIf DEF FixStatus

(* The consumer takes a command, or gives a removal up. *)
LEMMA ConsumerQuiet ==
  ASSUME StartupInv,
         \/ PopCommand
         \/ StopRead /\ ~ Goto("consumer", "delete")
         \/ FindProcess /\ Finish("consumer")
         \/ StopFails
  PROVE  Quiet
<1>0. TypeOK /\ "consumer" \in Threads /\ NewOK
  BY DEF StartupInv, Threads
<1>1. CASE PopCommand
  <2>1. cmds \in Seq([type : {"start", "stop"}, pod : Pods]) /\ cmds # <<>>
    BY <1>0, <1>1 DEF TypeOK, PopCommand
  <2>2. /\ Head(cmds) = cmds[1] /\ 1 \in DOMAIN cmds
        /\ Head(cmds) \in [type : {"start", "stop"}, pod : Pods]
    <3>1. Len(cmds) \in Nat /\ Len(cmds) # 0 /\ DOMAIN cmds = 1 .. Len(cmds)
      BY <2>1, EmptySeq
    <3>2. 1 \in DOMAIN cmds
      BY <3>1
    <3>3. Head(cmds) = cmds[1]
      OBVIOUS
    <3> QED BY <2>1, <3>2, <3>3, HeadTailProperties
  <2>3. Head(cmds).pod \in Pods /\ stage[Head(cmds).pod] # "new"
    BY <1>0, <2>2 DEF NewOK
  <2>4. \A i \in DOMAIN Tail(cmds) : \E j \in DOMAIN cmds : Tail(cmds)[i] = cmds[j]
    BY <2>1
  <2>5. thread \in [Threads -> ThreadStates]
    BY <1>0 DEF TypeOK
  <2>6. /\ Alone("consumer") /\ thread'["consumer"].pod = Head(cmds).pod
        /\ thread'["consumer"].pc \in {"spawn", "stop"}
    BY <1>0, <1>1, <2>5 DEF PopCommand, Alone, ThreadStates
  <2>7. QuietMove("consumer")
    BY <1>1, <2>3, <2>6 DEF PopCommand, QuietMove, Holds, InWindow
  <2>8. \A p \in Pods, i \in DOMAIN cmds' : stage'[p] = "new" => cmds'[i].pod # p
    BY <1>0, <1>1, <2>4 DEF PopCommand, NewOK
  <2>9. SameIdentities /\ NoBirths
    BY <1>1 DEF PopCommand, SameIdentities, NoBirths
  <2> QED BY <1>1, <2>6, <2>7, <2>8, <2>9 DEF Quiet, PopCommand, Alone, QuietMove, Dropped
<1>2. CASE StopRead /\ ~ Goto("consumer", "delete")
  <2>1. Alone("consumer") /\ QuietMove("consumer")
    BY <1>0, <1>2, QuietMoveIf DEF StopRead, Holds
  <2> QED BY <1>0, <1>2, <2>1, QuietIf, SameIdentitiesIf DEF StopRead
<1>3. CASE FindProcess /\ Finish("consumer")
  <2>1. Alone("consumer") /\ QuietMove("consumer")
    BY <1>0, <1>3, QuietMoveIf DEF FindProcess, Holds
  <2> QED BY <1>0, <1>3, <2>1, QuietIf, SameIdentitiesIf DEF FindProcess
<1>4. CASE StopFails
  <2>1. Alone("consumer") /\ QuietMove("consumer")
    BY <1>0, <1>4, QuietMoveIf DEF StopFails, Holds
  <2> QED BY <1>0, <1>4, <2>1, QuietIf, SameIdentitiesIf DEF StopFails
<1> QED
  BY <1>1, <1>2, <1>3, <1>4

(* Probes and the decision to restart. *)
LEMMA CheckerQuiet ==
  ASSUME StartupInv,
         \/ \E p \in Pods : CheckPod(p)
         \/ ProbeSucceeds \/ ProbeFails \/ RestartPod \/ CheckFails
  PROVE  Quiet
<1>0. TypeOK /\ "checker" \in Threads /\ thread \in [Threads -> ThreadStates]
  BY DEF StartupInv, Threads, TypeOK
<1>1. ASSUME NEW p \in Pods, CheckPod(p) PROVE Quiet
  <2>1. stage[p] # "new"
    BY <1>1 DEF CheckPod, StartupInv, NewOK
  <2>2. /\ Alone("checker") /\ thread'["checker"].pod = p
        /\ thread'["checker"].pc \in {"restart", "probe"}
    BY <1>0, <1>1 DEF CheckPod, Alone, IdleThread
  <2>3. QuietMove("checker")
    BY <1>1, <2>1, <2>2 DEF CheckPod, QuietMove, Holds, InWindow
  <2> QED BY <1>0, <1>1, <2>2, <2>3, QuietIf, SameIdentitiesIf DEF CheckPod
<1>2. CASE ProbeSucceeds
  <2>1. Alone("checker") /\ QuietMove("checker")
    BY <1>0, <1>2, QuietMoveIf DEF ProbeSucceeds, Holds
  <2>2. SameIdentities
    BY <1>0, <1>2, SameIdentitiesIf DEF ProbeSucceeds
  <2> QED BY <1>0, <1>2, <2>1, <2>2, QuietIf DEF ProbeSucceeds
<1>3. CASE ProbeFails
  <2>1. Alone("checker") /\ QuietMove("checker")
    BY <1>0, <1>3, QuietMoveIf DEF ProbeFails, Holds
  <2>2. SameIdentities
    BY <1>0, <1>3, SameIdentitiesIf DEF ProbeFails
  <2> QED BY <1>0, <1>3, <2>1, <2>2, QuietIf DEF ProbeFails
<1>4. CASE RestartPod
  <2>1. Alone("checker") /\ QuietMove("checker")
    BY <1>0, <1>4, QuietMoveIf DEF RestartPod, Holds, Goto
  <2>2. SameIdentities
    BY <1>0, <1>4, SameIdentitiesIf DEF RestartPod
  <2> QED BY <1>0, <1>4, <2>1, <2>2, QuietIf DEF RestartPod
<1>5. CASE CheckFails
  <2>1. Alone("checker") /\ QuietMove("checker")
    BY <1>0, <1>5, QuietMoveIf DEF CheckFails, Holds
  <2> QED BY <1>0, <1>5, <2>1, QuietIf, SameIdentitiesIf DEF CheckFails
<1> QED
  BY <1>1, <1>2, <1>3, <1>4, <1>5

(* Commands are queued for placed pods only, an eviction touches no identity;
   processes die, hang and recover. *)
LEMMA EnvironmentQuiet ==
  ASSUME StartupInv,
         \/ \E p \in Pods : QueueStart(p) \/ QueueStop(p) \/ EvictRecord(p)
         \/ \E q \in Procs : ProcessExits(q) \/ ProcessHangs(q) \/ ProcessRecovers(q)
         \/ KillOrphan
         \/ UNCHANGED vars
  PROVE  Quiet
<1>0. TypeOK /\ NewOK
  BY DEF StartupInv
<1>1. ASSUME NEW p \in Pods, QueueStart(p) \/ QueueStop(p) PROVE Quiet
  <2>1. /\ \A r \in Pods : stage'[r] = "new" => stage[r] = "new"
        /\ \A r \in Pods : Dropped(r)' <=> Dropped(r)
        /\ stage'[p] # "new"
    BY <1>0, <1>1 DEF QueueStart, QueueStop, NewOK, TypeOK, Dropped
  <2>2. PICK c \in [type : {"start", "stop"}, pod : Pods] :
          cmds' = Append(cmds, c) /\ c.pod = p
    BY <1>1 DEF QueueStart, QueueStop
  <2>3. cmds \in Seq([type : {"start", "stop"}, pod : Pods])
    BY <1>0 DEF TypeOK
  <2>4. \A i \in DOMAIN cmds' : cmds'[i] = c \/ \E j \in DOMAIN cmds : cmds'[i] = cmds[j]
    BY <2>2, <2>3
  <2>5. \A r \in Pods, i \in DOMAIN cmds' : stage'[r] = "new" => cmds'[i].pod # r
    BY <1>0, <2>1, <2>2, <2>4 DEF NewOK
  <2> QED BY <1>1, <2>1, <2>5
          DEF Quiet, QueueStart, QueueStop, SameIdentities, NoBirths, QuietMove
<1>2. ASSUME UNCHANGED <<phase, records, cmds, stage, thread, todo, owned>>, NoBirths
      PROVE  Quiet
  BY <1>0, <1>2 DEF Quiet, SameIdentities, QuietMove, NewOK, Dropped
<1>3. ASSUME NEW q \in Procs, ProcessExits(q) \/ ProcessHangs(q) \/ ProcessRecovers(q)
      PROVE  NoBirths
  BY <1>0, <1>3, IdleTypes
  DEF ProcessExits, ProcessHangs, ProcessRecovers, Killed, NoBirths, Alive, TypeOK, Processes
<1>4. KillOrphan => NoBirths
  BY <1>0, IdleTypes DEF KillOrphan, Killed, NoBirths, TypeOK
<1>5. UNCHANGED vars => NoBirths
  BY DEF vars, NoBirths
<1>6. ASSUME NEW p \in Pods, EvictRecord(p) PROVE Quiet
  <2>1. SameIdentities
    BY <1>0, <1>6, SameIdentitiesIf DEF EvictRecord, Marked
  <2> QED BY <1>0, <1>6, <2>1
          DEF Quiet, EvictRecord, NoBirths, QuietMove, NewOK, Dropped
<1> QED
  BY <1>1, <1>2, <1>3, <1>4, <1>5, <1>6
  DEF ProcessExits, ProcessHangs, ProcessRecovers, KillOrphan, vars

(* A step that leaves records and stages alone, starts nothing the map knows of
   and takes main no nearer to a process. *)
LEMMA StartupKept ==
  ASSUME StartupInv, UNCHANGED <<phase, records, stage, todo, owned>>,
         \A q \in owned : Alive(q)' => Alive(q) /\ process'[q].pod = process[q].pod,
         thread'["main"].pc # "idle" => /\ thread["main"].pc # "idle"
                                        /\ thread'["main"].pod = thread["main"].pod,
         Respawning' => Respawning
  PROVE  StartupOK'
<1>0. StartupOK
  BY DEF StartupInv
<1>1. \A p : Dropped(p)' <=> Dropped(p)
  BY DEF Dropped
<1>2. phase' = "adopt" /\ thread'["main"].pc # "idle" =>
        /\ Dropped(thread["main"].pod)' \/ records'[thread'["main"].pod].whole
        /\ thread'["main"].pod \notin todo'
  BY <1>0 DEF StartupOK, Dropped
<1>3. Respawning' => thread'["main"].pod = thread["main"].pod
  BY DEF Respawning
<1>4. ASSUME NEW q \in owned', Alive(q)'
      PROVE  /\ Dropped(process[q].pod)' \/ (/\ records'[process'[q].pod].proc = q
                                              /\ records'[process'[q].pod].whole)
             /\ process'[q].pod \notin todo'
             /\ Respawning' => thread'["main"].pod # process'[q].pod
             /\ \A r \in owned' :
                  Alive(r)' /\ process'[r].pod = process'[q].pod => r = q
  <2>1. q \in owned /\ Alive(q) /\ process'[q].pod = process[q].pod
    BY <1>4
  <2>2. Dropped(process[q].pod)' <=> Dropped(process[q].pod)
    BY <2>1 DEF Dropped
  <2>3. /\ Dropped(process[q].pod) \/ (/\ records[process[q].pod].proc = q
                                       /\ records[process[q].pod].whole)
        /\ process[q].pod \notin todo
        /\ Respawning => thread["main"].pod # process[q].pod
    BY <1>0, <2>1 DEF StartupOK
  <2>4. \A r \in owned' : Alive(r)' /\ process'[r].pod = process'[q].pod => r = q
    BY <1>0, <2>1 DEF StartupOK
  <2> QED BY <1>3, <2>1, <2>2, <2>3, <2>4
<1> QED
  BY <1>2, <1>4 DEF StartupOK

--------------------------------------------------------------------------------
(***************************************************************************)
(* A goroutine enters a window or goes on in it: only its own variables    *)
(* change.                                                                 *)
(***************************************************************************)
Advance(t) ==
  /\ Alone(t)
  /\ thread[t].pc # "idle" /\ thread'[t].pc # "idle"
  /\ thread'[t].pod = thread[t].pod
  /\ Holds(t)' => Holds(t) /\ thread'[t].proc = thread[t].proc
  /\ t = "main" => thread[t].pc \in {"spawn", "start", "record", "abandon"}
  /\ UNCHANGED <<phase, records, process, cmds, stage, todo, owned>>

LEMMA AdvanceStartup ==
  ASSUME StartupInv, NEW t \in Threads, Advance(t)
  PROVE  PhasesOK' /\ MarkersOK' /\ WholeOK' /\ NewOK' /\ StartupOK'
<1>0. TypeOK /\ LocalsOK /\ PhasesOK /\ MarkersOK /\ WholeOK /\ NewOK /\ StartupOK
  BY DEF StartupInv
<1>1. PhasesOK'
  BY <1>0, IdleTypes DEF Advance, Alone, PhasesOK, Threads
<1>2. MarkersOK'
  <2>1. ASSUME NEW u \in Threads, Holds(u)'
        PROVE  /\ thread'[u].proc \in Procs
               /\ Alive(thread[u].proc)' => process'[thread'[u].proc].pod = thread'[u].pod
    <3>1. Holds(u) /\ thread'[u].proc = thread[u].proc /\ thread'[u].pod = thread[u].pod
      BY <2>1 DEF Advance, Alone, Holds
    <3> QED BY <1>0, <3>1 DEF Advance, MarkersOK, Alive, Holds
  <2>2. /\ \A q \in Procs : Alive(q)' => process'[q].pod \in Pods
        /\ \A p \in Pods : Alive(records[p].proc)' => process'[records'[p].proc].pod = p
    BY <1>0 DEF Advance, MarkersOK, Alive
  <2> QED BY <2>1, <2>2 DEF MarkersOK, Holds
<1>3. WholeOK'
  BY <1>0 DEF Advance, WholeOK, Dropped
<1>4. NewOK'
  BY <1>0 DEF Advance, Alone, NewOK, ProcessesOf, Alive
<1>5. StartupOK'
  <2>1. /\ thread'["main"].pc # "idle" => /\ thread["main"].pc # "idle"
                                          /\ thread'["main"].pod = thread["main"].pod
        /\ Respawning' => Respawning
    BY DEF Advance, Alone, Threads, Respawning
  <2> QED BY <2>1, StartupKept DEF Advance, Alive
<1> QED
  BY <1>1, <1>2, <1>3, <1>4, <1>5

(* While the agent serves, main is done, and of the two others only one is in a
   window for a pod that met no race. *)
LEMMA Solo ==
  ASSUME StartupInv, ServingOK, phase = "serve", NEW p \in Pods \ tangled,
         NEW t \in Threads, InWindow(t), thread[t].pod = p,
         NEW u \in Threads \ {t}, thread[u].pod = p
  PROVE  ~ InWindow(u)
<1>1. thread["main"].pc = "idle"
  BY DEF StartupInv, PhasesOK
<1>2. t # "main" /\ (u = "main" => ~ InWindow(u))
  BY <1>1, IdleTypes DEF InWindow
<1>3. p \notin Overlapping
  BY DEF ServingOK
<1> QED
  BY <1>2, <1>3 DEF Overlapping, Threads

(* The same of the state after a step. *)
LEMMA SoloAfter ==
  ASSUME StartupInv, phase = "serve", phase' = "serve", Tangle,
         NEW p \in Pods \ tangled',
         NEW t \in Threads, Alone(t), thread[t].pc # "idle",
         InWindow(t)', thread'[t].pod = p,
         NEW u \in Threads \ {t}, thread[u].pod = p
  PROVE  ~ InWindow(u)
<1>1. thread["main"].pc = "idle"
  BY DEF StartupInv, PhasesOK
<1>2. t # "main" /\ (u = "main" => ~ InWindow(u))
  BY <1>1, IdleTypes DEF InWindow
<1>3. p \notin Overlapping'
  BY TangleGrows DEF StartupInv
<1>4. InWindow(u)' <=> InWindow(u)
  BY DEF Alone, InWindow
<1> QED
  BY <1>2, <1>3, <1>4 DEF Overlapping, Threads, Alone

(* A pod that t is not at work on keeps what holds for it, if the step leaves
   its record and its processes alone. *)
LEMMA OthersUntangled ==
  ASSUME NEW p \in Pods, UntangledOK(p), NEW t \in Threads, Alone(t),
         thread[t].pod # p, thread'[t].pod # p,
         records'[p] = records[p], stage' = stage, ProcessesOf(p)' = ProcessesOf(p)
  PROVE  UntangledOK(p)'
  BY DEF UntangledOK, Alone, Dropped

(* What has to be seen to of the pod t is at work on. *)
LEMMA OwnUntangled ==
  ASSUME NEW p \in Pods, NEW t \in Threads, Alone(t),
         \A u \in Threads \ {t} : thread[u].pod = p => ~ InWindow(u),
         \E o : ProcessesOf(p)' \subseteq {o},
         \A q \in ProcessesOf(p)' :
            \/ Dropped(p)'
            \/ records'[p].proc = q /\ records'[p].whole
            \/ Holds(t)' /\ thread'[t].pod = p /\ thread'[t].proc = q,
         thread'[t].pod = p =>
           /\ thread'[t].pc \in {"start", "clear"} => ProcessesOf(p)' = {}
           /\ thread'[t].pc = "delete" => Dropped(p)' \/ ProcessesOf(p)' = {}
           /\ thread'[t].pc \in {"record", "abandon", "kill"} =>
                ProcessesOf(p)' \subseteq {thread'[t].proc}
           /\ thread'[t].pc \in {"start", "record", "abandon"} =>
                Dropped(p)' \/ records'[p].whole
  PROVE  UntangledOK(p)'
<1>1. ASSUME NEW q \in ProcessesOf(p)'
      PROVE  \/ Dropped(p)'
             \/ records'[p].proc = q /\ records'[p].whole
             \/ \E u \in Threads : /\ thread'[u].pod = p /\ thread'[u].proc = q
                                   /\ thread'[u].pc \in {"record", "abandon"}
  BY <1>1 DEF Holds
<1>2. ASSUME NEW u \in Threads, thread'[u].pod = p
      PROVE  /\ thread'[u].pc \in {"start", "clear"} => ProcessesOf(p)' = {}
             /\ thread'[u].pc = "delete" => Dropped(p)' \/ ProcessesOf(p)' = {}
             /\ thread'[u].pc \in {"record", "abandon", "kill"} =>
                  ProcessesOf(p)' \subseteq {thread'[u].proc}
             /\ thread'[u].pc \in {"start", "record", "abandon"} =>
                  Dropped(p)' \/ records'[p].whole
  <2>1. CASE u = t
    BY <1>2, <2>1
  <2>2. CASE u # t
    BY <1>2, <2>2 DEF Alone, InWindow
  <2> QED BY <2>1, <2>2
<1> QED
  BY <1>1, <1>2 DEF UntangledOK

(* Before a step into the window: the only process of the pod is the one on its
   whole record, unless the control plane deleted that. *)
LEMMA OnlyRecorded ==
  ASSUME NEW p \in Pods, UntangledOK(p), NEW t \in Threads, ~ Holds(t),
         \A u \in Threads \ {t} : thread[u].pod = p => ~ InWindow(u)
  PROVE  \A q \in ProcessesOf(p) :
           Dropped(p) \/ (records[p].proc = q /\ records[p].whole)
  BY DEF UntangledOK, Holds, InWindow

LEMMA AdvanceServing ==
  ASSUME StartupInv, ServingOK, Tangle, NEW t \in Threads, Advance(t), InWindow(t)',
         ~ Holds(t) \/ Holds(t)',
         \/ Holds(t)
         \/ ~ records[thread[t].pod].whole /\ thread'[t].pc = "delete"
         \/ /\ records[thread[t].pod].whole /\ ~ Alive(records[thread[t].pod].proc)
            /\ thread'[t].pc \in {"start", "clear"}
         \/ /\ records[thread[t].pod].whole /\ thread'[t].pc = "kill"
            /\ thread'[t].proc = records[thread[t].pod].proc
  PROVE  ServingOK'
<1> SUFFICES ASSUME phase' = "serve" PROVE ServingOK'
  BY DEF ServingOK
<1>0. phase = "serve" /\ tangled' = tangled \cup Overlapping'
  BY TangleGrows DEF StartupInv, Advance
<1> SUFFICES ASSUME NEW p \in Pods \ tangled' PROVE UntangledOK(p)'
  BY <1>0 DEF ServingOK
<1>1. UntangledOK(p) /\ p \in Pods \ tangled
  BY <1>0 DEF ServingOK
<1>2. /\ records'[p] = records[p] /\ ProcessesOf(p)' = ProcessesOf(p) /\ Alone(t)
      /\ stage' = stage /\ (Dropped(p)' <=> Dropped(p))
  BY DEF Advance, ProcessesOf, Alive, Dropped
<1>d. /\ records[p].whole => ~ Dropped(p)
      /\ \E o : ProcessesOf(p)' \subseteq {o}
  BY <1>1, <1>2 DEF StartupInv, WholeOK, UntangledOK
<1>3. CASE thread[t].pod # p
  BY <1>1, <1>2, <1>3, OthersUntangled DEF Advance
<1>4. CASE thread[t].pod = p
  <2>1. \A u \in Threads \ {t} : thread[u].pod = p => ~ InWindow(u)
    BY <1>0, <1>2, <1>4, SoloAfter DEF Advance
  <2>2. CASE Holds(t)
    <3>0. InWindow(t) /\ thread[t].pod = p /\ thread'[t].pod = p
      BY <1>4, <2>2 DEF Holds, InWindow, Advance
    <3>1. /\ Dropped(p) \/ records[p].whole
          /\ ProcessesOf(p) \subseteq {thread[t].proc}
      BY <1>1, <2>2, <3>0 DEF UntangledOK, Holds
    <3>2. Holds(t)' /\ thread'[t].proc = thread[t].proc
      BY <2>2 DEF Advance
    <3> QED BY <1>2, <1>d, <2>1, <3>0, <3>1, <3>2, OwnUntangled DEF Holds
  <2>3. CASE ~ Holds(t)
    <3>1. \A q \in ProcessesOf(p) :
            Dropped(p) \/ (records[p].proc = q /\ records[p].whole)
      BY <1>1, <2>1, <2>3, OnlyRecorded
    <3>2. ~ Holds(t)'
      BY <2>3 DEF Advance
    <3>3. /\ thread'[t].pc \in {"start", "clear"} => ProcessesOf(p) = {}
          /\ thread'[t].pc = "delete" => Dropped(p) \/ ProcessesOf(p) = {}
      BY <1>4, <1>d, <2>3, <3>1 DEF ProcessesOf
    <3>4. thread'[t].pc = "kill" => ProcessesOf(p) \subseteq {thread'[t].proc}
      BY <1>4, <1>d, <2>3, <3>1
    <3>5. thread'[t].pc = "start" => records[p].whole
      BY <1>4, <2>3
    <3> QED BY <1>2, <1>d, <2>1, <3>1, <3>2, <3>3, <3>4, <3>5, OwnUntangled DEF Holds
  <2> QED BY <2>2, <2>3
<1> QED
  BY <1>3, <1>4

(* t goes on to c: what Goto means for a busy goroutine. *)
LEMMA GotoMeans ==
  ASSUME StartupInv, NEW t \in Threads, thread[t].pc # "idle",
         NEW c \in {"start", "abandon", "delete"}, Goto(t, c)
  PROVE  /\ Alone(t) /\ thread'[t].pc = c
         /\ thread'[t].pod = thread[t].pod /\ thread'[t].proc = thread[t].proc
<1>1. thread \in [Threads -> ThreadStates]
  BY DEF StartupInv, TypeOK
<1> QED
  BY <1>1 DEF Goto, Alone, ThreadStates

(* The check in Spawn finds the recorded process dead, and the record of a new
   process fails. *)
LEMMA SpawnAdvances ==
  ASSUME StartupInv, NEW t \in Threads,
         (SpawnRead(t) /\ Goto(t, "start")) \/ RecordFails(t)
  PROVE  /\ PhasesOK' /\ MarkersOK' /\ WholeOK' /\ NewOK' /\ StartupOK'
         /\ ServingOK /\ Tangle => ServingOK'
<1>1. CASE SpawnRead(t) /\ Goto(t, "start")
  <2>1. /\ Alone(t) /\ thread'[t].pc = "start" /\ thread[t].pc = "spawn"
        /\ thread'[t].pod = thread[t].pod
        /\ UNCHANGED <<phase, records, process, cmds, stage, todo, owned>>
    BY <1>1, GotoMeans DEF SpawnRead
  <2>2. Advance(t) /\ InWindow(t)' /\ ~ Holds(t)
    BY <2>1 DEF Advance, InWindow, Holds
  <2>3. \/ thread'[t] = IdleThread
        \/ thread'[t].pc = "reread"
        \/ records[thread[t].pod].whole /\ ~ Alive(records[thread[t].pod].proc)
    <3>1. thread \in [Threads -> ThreadStates]
      BY DEF StartupInv, TypeOK
    <3> QED BY <1>1, <3>1 DEF SpawnRead, Finish, Goto, ThreadStates
  <2>4. records[thread[t].pod].whole /\ ~ Alive(records[thread[t].pod].proc)
    BY <2>1, <2>3, IdleTypes
  <2> QED BY <2>1, <2>2, <2>4, AdvanceStartup, AdvanceServing
<1>2. CASE RecordFails(t)
  <2>1. /\ Alone(t) /\ thread'[t].pc = "abandon" /\ thread[t].pc = "record"
        /\ thread'[t].pod = thread[t].pod /\ thread'[t].proc = thread[t].proc
        /\ UNCHANGED <<phase, records, process, cmds, stage, todo, owned>>
    BY <1>2, GotoMeans DEF RecordFails
  <2>2. Advance(t) /\ InWindow(t)' /\ Holds(t) /\ Holds(t)'
    BY <2>1 DEF Advance, InWindow, Holds
  <2> QED BY <2>2, AdvanceStartup, AdvanceServing
<1> QED
  BY <1>1, <1>2

(* StopAndRemove comes to delete a record that is not whole; Stop finds the
   recorded process, or that there is none. *)
LEMMA StopAdvances ==
  ASSUME StartupInv,
         \/ StopRead /\ Goto("consumer", "delete")
         \/ FindProcess /\ ~ Finish("consumer")
  PROVE  /\ PhasesOK' /\ MarkersOK' /\ WholeOK' /\ NewOK' /\ StartupOK'
         /\ ServingOK /\ Tangle => ServingOK'
<1> DEFINE p == thread["consumer"].pod
<1>0. /\ "consumer" \in Threads /\ thread \in [Threads -> ThreadStates]
      /\ thread["consumer"].pc # "idle" => p \in Pods
      /\ WholeOK
  BY DEF StartupInv, TypeOK, LocalsOK, Threads
<1>1. CASE StopRead /\ Goto("consumer", "delete")
  <2>1. /\ Alone("consumer") /\ thread'["consumer"].pc = "delete"
        /\ thread["consumer"].pc = "stop" /\ thread'["consumer"].pod = p
        /\ UNCHANGED <<phase, records, process, cmds, stage, todo, owned>>
    BY <1>0, <1>1, GotoMeans DEF StopRead
  <2>2. Advance("consumer") /\ InWindow("consumer")' /\ ~ Holds("consumer")
    BY <2>1 DEF Advance, InWindow, Holds
  <2>3. \/ thread'["consumer"] = IdleThread
        \/ thread'["consumer"].pc = "find"
        \/ ~ records[p].whole
    BY <1>0, <1>1 DEF StopRead, Finish, Goto, ThreadStates
  <2>4. ~ records[p].whole
    BY <2>1, <2>3, IdleTypes
  <2> QED BY <1>0, <2>1, <2>2, <2>4, AdvanceStartup, AdvanceServing
<1>2. CASE FindProcess /\ Goto("consumer", "delete") /\ ~ records[p].exists
  <2>1. /\ Alone("consumer") /\ thread'["consumer"].pc = "delete"
        /\ thread["consumer"].pc = "find" /\ thread'["consumer"].pod = p
        /\ UNCHANGED <<phase, records, process, cmds, stage, todo, owned>>
    BY <1>0, <1>2, GotoMeans DEF FindProcess
  <2>2. Advance("consumer") /\ InWindow("consumer")' /\ ~ Holds("consumer")
    BY <2>1 DEF Advance, InWindow, Holds
  <2>3. ~ records[p].whole
    BY <1>0, <1>2, <2>1 DEF WholeOK
  <2> QED BY <1>0, <2>1, <2>2, <2>3, AdvanceStartup, AdvanceServing
<1>3. ASSUME FindProcess, records[p].whole, NEW c, NEW q,
             c = (IF Alive(records[p].proc) THEN "kill" ELSE "clear"),
             q = (IF Alive(records[p].proc) THEN records[p].proc ELSE NoProc),
             thread' = [thread EXCEPT !["consumer"] =
                          [thread["consumer"] EXCEPT !.pc = c, !.proc = q]]
      PROVE  /\ PhasesOK' /\ MarkersOK' /\ WholeOK' /\ NewOK' /\ StartupOK'
             /\ ServingOK /\ Tangle => ServingOK'
  <2>1. /\ Alone("consumer") /\ thread'["consumer"].pc = c
        /\ thread["consumer"].pc = "find" /\ thread'["consumer"].pod = p
        /\ thread'["consumer"].proc = q
        /\ UNCHANGED <<phase, records, process, cmds, stage, todo, owned>>
    BY <1>0, <1>3 DEF FindProcess, Alone, ThreadStates
  <2>2. c \in {"kill", "clear"}
    BY <1>3
  <2>3. Advance("consumer") /\ InWindow("consumer")' /\ ~ Holds("consumer")
    BY <2>1, <2>2 DEF Advance, InWindow, Holds
  <2>4. \/ records[p].whole /\ ~ Alive(records[p].proc) /\ c = "clear"
        \/ records[p].whole /\ c = "kill" /\ q = records[p].proc
    BY <1>3
  <2> QED BY <1>0, <2>1, <2>3, <2>4, AdvanceStartup, AdvanceServing
<1> QED
  <2>1. CASE FindProcess /\ ~ Finish("consumer")
    <3>1. \/ Goto("consumer", "delete") /\ ~ records[p].exists
          \/ records[p].whole /\ thread' = [thread EXCEPT !["consumer"] =
               [thread["consumer"] EXCEPT
                  !.pc = IF Alive(records[p].proc) THEN "kill" ELSE "clear",
                  !.proc = IF Alive(records[p].proc) THEN records[p].proc ELSE NoProc]]
      BY <2>1 DEF FindProcess
    <3> QED BY <1>2, <1>3, <2>1, <3>1
  <2> QED BY <1>1, <2>1

--------------------------------------------------------------------------------
(***************************************************************************)
(* Processes are started and terminated.                                   *)
(***************************************************************************)

(* The process a goroutine starts is none that anything refers to. *)
LEMMA StartMeans ==
  ASSUME StartupInv, NEW t \in Threads, NEW q \in Procs, Fresh(q),
         thread[t].pc = "start",
         process' = [process EXCEPT ![q] = [state |-> "up", pod |-> thread[t].pod]],
         thread' = [thread EXCEPT ![t] = [thread[t] EXCEPT !.pc = "record", !.proc = q]]
  PROVE  /\ Alone(t) /\ thread'[t].pc = "record" /\ thread'[t].proc = q
         /\ thread'[t].pod = thread[t].pod /\ thread[t].pod \in Pods
         /\ process'[q].pod = thread[t].pod /\ process'[q].state # "dead"
         /\ \A o \in Procs \ {q} : process'[o] = process[o]
         /\ \A p \in Pods : ProcessesOf(p)' =
              IF p = thread[t].pod THEN ProcessesOf(p) \cup {q} ELSE ProcessesOf(p)
<1>0. /\ thread \in [Threads -> ThreadStates] /\ process \in [Procs -> Processes]
      /\ thread[t].pod \in Pods
  BY DEF StartupInv, TypeOK, LocalsOK
<1>1. /\ Alone(t) /\ thread'[t].pc = "record" /\ thread'[t].proc = q
      /\ thread'[t].pod = thread[t].pod
  BY <1>0 DEF Alone, ThreadStates
<1>2. /\ process'[q].pod = thread[t].pod /\ process'[q].state # "dead"
      /\ \A o \in Procs \ {q} : process'[o] = process[o]
  BY <1>0
<1>3. q # NoProc /\ q \notin UNION {ProcessesOf(p) : p \in Pods}
  BY SupervisorAssumption DEF ProcessesOf, Alive, Fresh
<1>4. \A p \in Pods : ProcessesOf(p)' =
        IF p = thread[t].pod THEN ProcessesOf(p) \cup {q} ELSE ProcessesOf(p)
  BY <1>2, <1>3 DEF ProcessesOf, Alive
<1> QED
  BY <1>0, <1>1, <1>2, <1>4

LEMMA StartProcessOK ==
  ASSUME StartupInv, NEW t \in Threads, StartProcess(t)
  PROVE  /\ PhasesOK' /\ MarkersOK' /\ WholeOK' /\ NewOK' /\ StartupOK'
         /\ ServingOK /\ Tangle => ServingOK'
<1>0. TypeOK /\ LocalsOK /\ PhasesOK /\ MarkersOK /\ WholeOK /\ NewOK /\ StartupOK
  BY DEF StartupInv
<1>1. PICK q \in Procs :
        /\ Fresh(q)
        /\ process' = [process EXCEPT ![q] = [state |-> "up", pod |-> thread[t].pod]]
        /\ thread' = [thread EXCEPT ![t] = [thread[t] EXCEPT !.pc = "record", !.proc = q]]
  BY DEF StartProcess
<1>2. thread[t].pc = "start" /\ UNCHANGED <<phase, records, cmds, stage, todo, owned>>
  BY DEF StartProcess
<1>3. /\ Alone(t) /\ thread'[t].pc = "record" /\ thread'[t].proc = q
      /\ thread'[t].pod = thread[t].pod /\ thread[t].pod \in Pods
      /\ process'[q].pod = thread[t].pod /\ process'[q].state # "dead"
      /\ \A o \in Procs \ {q} : process'[o] = process[o]
      /\ \A p \in Pods : ProcessesOf(p)' =
           IF p = thread[t].pod THEN ProcessesOf(p) \cup {q} ELSE ProcessesOf(p)
  BY <1>1, <1>2, StartMeans
<1>4. /\ q \notin owned /\ \A p \in Pods : records[p].proc # q
      /\ \A u \in Threads : thread[u].proc # q
  BY <1>1 DEF Fresh
<1>5. PhasesOK'
  BY <1>0, <1>2, <1>3, IdleTypes DEF Alone, PhasesOK, Threads
<1>6. MarkersOK'
  <2>1. \A o \in Procs : Alive(o)' => process'[o].pod \in Pods
    BY <1>0, <1>3 DEF MarkersOK, Alive
  <2>2. \A p \in Pods : Alive(records[p].proc)' => process'[records'[p].proc].pod = p
    <3> SUFFICES ASSUME NEW p \in Pods, Alive(records[p].proc)'
                 PROVE  process'[records'[p].proc].pod = p
      OBVIOUS
    <3>1. records'[p].proc = records[p].proc /\ records[p].proc \in Procs \cup {NoProc}
      BY <1>0, <1>2 DEF TypeOK, Records
    <3>2. records[p].proc \in Procs \ {q} /\ process'[records[p].proc].state # "dead"
      BY <1>4, <3>1 DEF Alive
    <3> QED BY <1>0, <1>3, <3>1, <3>2 DEF MarkersOK, Alive
  <2>3. ASSUME NEW u \in Threads, Holds(u)'
        PROVE  /\ thread'[u].proc \in Procs
               /\ Alive(thread[u].proc)' => process'[thread'[u].proc].pod = thread'[u].pod
    <3>1. CASE u = t
      BY <1>3, <3>1
    <3>2. CASE u # t
      <4>1. thread'[u] = thread[u] /\ Holds(u)
        BY <1>3, <2>3, <3>2 DEF Alone, Holds
      <4>2. thread[u].proc \in Procs \ {q}
        BY <1>0, <1>4, <4>1 DEF MarkersOK, Holds
      <4> QED BY <1>0, <1>3, <4>1, <4>2 DEF MarkersOK, Alive, Holds
    <3> QED BY <3>1, <3>2
  <2> QED BY <2>1, <2>2, <2>3 DEF MarkersOK, Holds
<1>7. WholeOK'
  BY <1>0, <1>1, <1>2 DEF WholeOK, Dropped
<1>8. NewOK'
  <2>1. stage[thread[t].pod] # "new"
    BY <1>0, <1>2, <1>3 DEF NewOK
  <2> QED BY <1>0, <1>2, <1>3, <2>1 DEF Alone, NewOK
<1>9. StartupOK'
  <2>1. /\ thread'["main"].pc # "idle" => /\ thread["main"].pc # "idle"
                                          /\ thread'["main"].pod = thread["main"].pod
        /\ Respawning' => Respawning
    BY <1>2, <1>3 DEF Alone, Threads, Respawning
  <2>2. \A o \in owned : Alive(o)' => Alive(o) /\ process'[o].pod = process[o].pod
    BY <1>0, <1>3, <1>4 DEF TypeOK, Alive
  <2> QED BY <1>2, <2>1, <2>2, StartupKept
<1>10. ASSUME ServingOK, Tangle PROVE ServingOK'
  <2> SUFFICES ASSUME phase' = "serve" PROVE ServingOK'
    BY DEF ServingOK
  <2>0. phase = "serve" /\ tangled' = tangled \cup Overlapping'
    BY <1>0, <1>2, <1>10, TangleGrows
  <2> SUFFICES ASSUME NEW p \in Pods \ tangled' PROVE UntangledOK(p)'
    BY <2>0 DEF ServingOK
  <2>1. UntangledOK(p) /\ p \in Pods \ tangled
    BY <1>10, <2>0 DEF ServingOK
  <2>2. records'[p] = records[p] /\ stage' = stage /\ (Dropped(p)' <=> Dropped(p))
    BY <1>2 DEF Dropped
  <2>3. CASE thread[t].pod # p
    BY <1>3, <2>1, <2>2, <2>3, OthersUntangled
  <2>4. CASE thread[t].pod = p
    <3>1. \A u \in Threads \ {t} : thread[u].pod = p => ~ InWindow(u)
      BY <1>2, <1>3, <1>10, <2>0, <2>4, SoloAfter DEF InWindow
    <3>2. ProcessesOf(p) = {} /\ (Dropped(p) \/ records[p].whole)
      BY <1>2, <2>1, <2>4 DEF UntangledOK
    <3>3. ProcessesOf(p)' = {q}
      BY <1>3, <2>4, <3>2
    <3> QED BY <1>3, <2>2, <2>4, <3>1, <3>2, <3>3, OwnUntangled DEF Holds
  <2> QED BY <2>3, <2>4
<1> QED
  BY <1>5, <1>6, <1>7, <1>8, <1>9, <1>10

(* A goroutine kills the process it started and could not record, or found. *)
Terminate(t) ==
  /\ thread[t].pc \in {"abandon", "kill"}
  /\ Alone(t) /\ thread'[t].pod = thread[t].pod
  /\ thread'[t].pc \in {"mark", "clear"}
  /\ process' = Killed(thread[t].proc)
  /\ UNCHANGED <<phase, records, cmds, stage, todo, owned>>

LEMMA TerminateOK ==
  ASSUME StartupInv, NEW t \in Threads, Terminate(t)
  PROVE  /\ PhasesOK' /\ MarkersOK' /\ WholeOK' /\ NewOK' /\ StartupOK'
         /\ ServingOK /\ Tangle => ServingOK'
<1>0. /\ TypeOK /\ LocalsOK /\ PhasesOK /\ MarkersOK /\ WholeOK /\ NewOK /\ StartupOK
      /\ thread[t].pod \in Pods /\ process \in [Procs -> Processes]
  BY DEF StartupInv, TypeOK, LocalsOK, Terminate
<1>1. /\ NoBirths
      /\ \A p \in Pods : ProcessesOf(p)' = ProcessesOf(p) \ {thread[t].proc}
  BY <1>0, IdleTypes DEF Terminate, Killed, NoBirths, ProcessesOf, Alive
<1>2. PhasesOK'
  BY <1>0, IdleTypes DEF Terminate, Alone, PhasesOK, Threads
<1>3. MarkersOK'
  <2>1. \A q \in Procs : Alive(q)' => process'[q].pod \in Pods
    BY <1>0, <1>1 DEF NoBirths, MarkersOK, Alive
  <2>2. \A p \in Pods : Alive(records[p].proc)' => process'[records'[p].proc].pod = p
    <3> SUFFICES ASSUME NEW p \in Pods, Alive(records[p].proc)'
                 PROVE  process'[records'[p].proc].pod = p
      OBVIOUS
    <3>1. records'[p].proc = records[p].proc /\ records[p].proc \in Procs \cup {NoProc}
      BY <1>0 DEF Terminate, TypeOK, Records
    <3>2. /\ records[p].proc \in Procs /\ records[p].proc # NoProc
          /\ process'[records[p].proc].state # "dead"
      BY <3>1 DEF Alive
    <3> QED BY <1>0, <1>1, <3>1, <3>2 DEF NoBirths, MarkersOK, Alive
  <2>3. ASSUME NEW u \in Threads, Holds(u)'
        PROVE  /\ thread'[u].proc \in Procs
               /\ Alive(thread[u].proc)' => process'[thread'[u].proc].pod = thread'[u].pod
    <3>1. thread'[u] = thread[u]
      BY <2>3 DEF Terminate, Alone, Holds
    <3> QED BY <1>0, <1>1, <2>3, <3>1 DEF NoBirths, MarkersOK, Alive, Holds
  <2> QED BY <2>1, <2>2, <2>3 DEF MarkersOK, Holds
<1>4. WholeOK'
  BY <1>0 DEF Terminate, WholeOK, Dropped
<1>5. NewOK'
  BY <1>0, <1>1 DEF Terminate, Alone, NewOK
<1>6. StartupOK'
  <2>1. /\ thread'["main"].pc # "idle" => /\ thread["main"].pc # "idle"
                                          /\ thread'["main"].pod = thread["main"].pod
        /\ Respawning' => Respawning
    BY DEF Terminate, Alone, Threads, Respawning
  <2>2. \A q \in owned : Alive(q)' => Alive(q) /\ process'[q].pod = process[q].pod
    BY <1>0, <1>1 DEF NoBirths, Alive, TypeOK
  <2> QED BY <2>1, <2>2, StartupKept DEF Terminate
<1>7. ASSUME ServingOK, Tangle PROVE ServingOK'
  <2> SUFFICES ASSUME phase' = "serve" PROVE ServingOK'
    BY DEF ServingOK
  <2>0. phase = "serve" /\ tangled' = tangled \cup Overlapping'
    BY <1>0, <1>7, TangleGrows DEF Terminate
  <2> SUFFICES ASSUME NEW p \in Pods \ tangled' PROVE UntangledOK(p)'
    BY <2>0 DEF ServingOK
  <2>1. UntangledOK(p) /\ p \in Pods \ tangled
    BY <1>7, <2>0 DEF ServingOK
  <2>2. /\ records'[p] = records[p] /\ Alone(t) /\ thread'[t].pod = thread[t].pod
        /\ Dropped(p)' <=> Dropped(p)
    BY DEF Terminate, Dropped
  <2>3. CASE thread[t].pod # p
    <3>1. \A q \in ProcessesOf(p)' : q \in ProcessesOf(p)
      BY <1>1
    <3> QED BY <2>1, <2>2, <2>3, <3>1 DEF UntangledOK, Alone
  <2>4. CASE thread[t].pod = p
    <3>1. \A u \in Threads \ {t} : thread[u].pod = p => ~ InWindow(u)
      BY <1>7, <2>0, <2>1, <2>4, Solo DEF InWindow, Terminate
    <3>2. ProcessesOf(p) \subseteq {thread[t].proc}
      BY <2>1, <2>4 DEF UntangledOK, Terminate
    <3>3. ProcessesOf(p)' = {}
      BY <1>1, <3>2
    <3> QED BY <2>2, <2>4, <3>1, <3>3, OwnUntangled DEF Terminate
  <2> QED BY <2>3, <2>4
<1> QED
  BY <1>2, <1>3, <1>4, <1>5, <1>6, <1>7

LEMMA Terminates ==
  ASSUME StartupInv, NEW t \in Threads,
         AbandonProcess(t) \/ (KillProcess /\ t = "consumer")
  PROVE  Terminate(t)
<1>1. thread \in [Threads -> ThreadStates]
  BY DEF StartupInv, TypeOK
<1>2. CASE AbandonProcess(t)
  BY <1>1, <1>2 DEF AbandonProcess, Terminate, Alone, ThreadStates
<1>3. CASE KillProcess /\ t = "consumer"
  BY <1>1, <1>3 DEF KillProcess, Terminate, Alone, ThreadStates
<1> QED
  BY <1>2, <1>3

--------------------------------------------------------------------------------
(***************************************************************************)
(* The identity on a record changes.                                       *)
(***************************************************************************)

(* launch records the process it started: the only one of its pod. *)
LEMMA RecordIdentityOK ==
  ASSUME StartupInv, NEW t \in Threads, RecordIdentity(t)
  PROVE  /\ PhasesOK' /\ MarkersOK' /\ WholeOK' /\ NewOK' /\ StartupOK'
         /\ ServingOK /\ Tangle => ServingOK'
<1> DEFINE p == thread[t].pod
           q == thread[t].proc
<1>0. /\ TypeOK /\ LocalsOK /\ PhasesOK /\ MarkersOK /\ WholeOK /\ NewOK /\ StartupOK
      /\ records \in [Pods -> Records] /\ thread \in [Threads -> ThreadStates]
  BY DEF StartupInv, TypeOK
<1>1. /\ thread[t].pc = "record" /\ p \in Pods /\ q \in Procs
      /\ Alive(q) => process[q].pod = p
      /\ UNCHANGED <<phase, process, cmds, stage, todo, owned>>
  BY <1>0 DEF RecordIdentity, LocalsOK, MarkersOK
<1>2. /\ records'[p].exists /\ records'[p].proc = q
      /\ records'[p].whole = records[p].whole
      /\ \A o \in Pods \ {p} : records'[o] = records[o]
  BY <1>0, <1>1 DEF RecordIdentity, Records
<1>3. /\ Alone(t) /\ ~ InWindow(t)'
      /\ IF t = "main" THEN thread'[t].pc = "reread" /\ thread'[t].pod = p
         ELSE thread'[t] = IdleThread
  <2>1. CASE t = "main"
    <3>1. thread' = [thread EXCEPT ![t] = [thread[t] EXCEPT !.pc = "reread", !.proc = NoProc]]
      BY <2>1 DEF RecordIdentity
    <3> QED BY <1>0, <2>1, <3>1 DEF Alone, InWindow, ThreadStates
  <2>2. CASE t # "main"
    <3>1. thread' = [thread EXCEPT ![t] = IdleThread]
      BY <2>2 DEF RecordIdentity, Finish
    <3> QED BY <1>0, <2>2, <3>1, IdleTypes DEF Alone, InWindow
  <2> QED BY <2>1, <2>2
<1>4. PhasesOK'
  BY <1>0, <1>1, <1>3, IdleTypes DEF Alone, PhasesOK, Threads
<1>5. MarkersOK'
  <2>1. \A o \in Procs : Alive(o)' => process'[o].pod \in Pods
    BY <1>0, <1>1 DEF MarkersOK, Alive
  <2>2. \A o \in Pods : Alive(records[o].proc)' => process'[records'[o].proc].pod = o
    BY <1>0, <1>1, <1>2 DEF MarkersOK, Alive
  <2>3. ASSUME NEW u \in Threads, Holds(u)'
        PROVE  /\ thread'[u].proc \in Procs
               /\ Alive(thread[u].proc)' => process'[thread'[u].proc].pod = thread'[u].pod
    <3>1. thread'[u] = thread[u]
      BY <1>3, <2>3 DEF Alone, Holds, InWindow
    <3> QED BY <1>0, <1>1, <2>3, <3>1 DEF MarkersOK, Alive, Holds
  <2> QED BY <2>1, <2>2, <2>3 DEF MarkersOK, Holds
<1>6. WholeOK'
  BY <1>0, <1>1, <1>2 DEF WholeOK, Dropped
<1>7. NewOK'
  <2>1. \A u \in Threads : thread'[u].pc # "idle" =>
          thread[u].pc # "idle" /\ thread'[u].pod = thread[u].pod
    BY <1>1, <1>3, IdleTypes DEF Alone
  <2>2. \A o \in Pods : records'[o].whole = records[o].whole
    BY <1>2
  <2> QED BY <1>0, <1>1, <2>1, <2>2 DEF NewOK, ProcessesOf, Alive
<1>8. StartupOK'
  <2>1. CASE t = "main"
    <3>1. phase = "adopt"
      BY <1>0, <1>1, <2>1, IdleTypes DEF PhasesOK
    <3>2. (Dropped(p) \/ records[p].whole) /\ p \notin todo
      BY <1>0, <1>1, <2>1, <3>1 DEF StartupOK
    <3>3. \A o \in owned : Alive(o) => process[o].pod # p /\ process[o].pod \in Pods
      BY <1>0, <1>1, <2>1 DEF StartupOK, MarkersOK, TypeOK, Respawning
    <3>4. thread'["main"].pc = "reread" /\ thread'["main"].pod = p
      BY <1>3, <2>1
    <3>5. ASSUME NEW o \in owned', Alive(o)'
          PROVE  /\ Dropped(process[o].pod)' \/ (/\ records'[process'[o].pod].proc = o
                                                  /\ records'[process'[o].pod].whole)
                 /\ process'[o].pod \notin todo'
                 /\ process'[o].pod # p
                 /\ \A i \in owned' :
                      Alive(i)' /\ process'[i].pod = process'[o].pod => i = o
      <4>1. o \in owned /\ Alive(o) /\ process'[o] = process[o]
        BY <1>1, <3>5 DEF Alive
      <4>2. records'[process[o].pod] = records[process[o].pod]
        BY <1>2, <3>3, <4>1
      <4>3. Dropped(process[o].pod)' <=> Dropped(process[o].pod)
        BY <1>1, <4>1 DEF Dropped
      <4>4. /\ Dropped(process[o].pod) \/ (/\ records[process[o].pod].proc = o
                                           /\ records[process[o].pod].whole)
            /\ process[o].pod \notin todo
        BY <1>0, <4>1 DEF StartupOK
      <4>5. \A i \in owned' : Alive(i)' /\ process'[i].pod = process'[o].pod => i = o
        BY <1>0, <1>1, <4>1 DEF StartupOK, Alive
      <4> QED BY <1>1, <3>3, <4>1, <4>2, <4>3, <4>4, <4>5
    <3>6. (Dropped(thread["main"].pod)' \/ records'[p].whole) /\ p \notin todo'
      BY <1>1, <1>2, <3>2, <3>4 DEF Dropped
    <3> QED BY <3>4, <3>5, <3>6 DEF StartupOK
  <2>2. CASE t # "main"
    <3>1. phase = "serve" /\ owned = {}
      BY <1>0, <1>1, <2>2, IdleTypes DEF PhasesOK, Threads
    <3> QED BY <1>1, <3>1 DEF StartupOK
  <2> QED BY <2>1, <2>2
<1>9. ASSUME ServingOK, Tangle PROVE ServingOK'
  <2> SUFFICES ASSUME phase' = "serve" PROVE ServingOK'
    BY DEF ServingOK
  <2>0. phase = "serve" /\ tangled' = tangled \cup Overlapping'
    BY <1>0, <1>1, <1>9, TangleGrows
  <2>1. t # "main" /\ thread'[t] = IdleThread
    BY <1>0, <1>1, <1>3, <2>0, IdleTypes DEF PhasesOK
  <2> SUFFICES ASSUME NEW o \in Pods \ tangled' PROVE UntangledOK(o)'
    BY <2>0 DEF ServingOK
  <2>2. UntangledOK(o) /\ o \in Pods \ tangled
    BY <1>9, <2>0 DEF ServingOK
  <2>3. /\ ProcessesOf(o)' = ProcessesOf(o) /\ stage' = stage
        /\ Dropped(o)' <=> Dropped(o)
    BY <1>1 DEF ProcessesOf, Alive, Dropped
  <2>4. thread'[t].pod # o
    BY <2>1, SupervisorAssumption DEF IdleThread
  <2>5. CASE p # o
    BY <1>2, <1>3, <2>2, <2>3, <2>4, <2>5, OthersUntangled
  <2>6. CASE p = o
    <3>1. \A u \in Threads \ {t} : thread[u].pod = o => ~ InWindow(u)
      BY <1>1, <1>9, <2>0, <2>2, <2>6, Solo DEF InWindow
    <3>2. ProcessesOf(o) \subseteq {q} /\ (Dropped(o) \/ records[o].whole)
      BY <1>1, <2>2, <2>6 DEF UntangledOK
    <3> HIDE DEF p, q
    <3> QED BY <1>2, <1>3, <2>3, <2>4, <2>6, <3>1, <3>2, OwnUntangled
  <2> QED BY <2>5, <2>6
<1> QED
  BY <1>4, <1>5, <1>6, <1>7, <1>8, <1>9

(* Stop forgets the identity, StopAndRemove deletes the record: for a pod that
   met no race, nothing is left that they could lose and the control plane had
   not lost before. *)
LEMMA ForgetOK ==
  ASSUME StartupInv, ClearIdentity \/ DeleteRecord
  PROVE  /\ PhasesOK' /\ MarkersOK' /\ WholeOK' /\ NewOK' /\ StartupOK'
         /\ ServingOK /\ Tangle => ServingOK'
<1> DEFINE p == thread["consumer"].pod
<1>0. /\ TypeOK /\ LocalsOK /\ PhasesOK /\ MarkersOK /\ WholeOK /\ NewOK /\ StartupOK
      /\ records \in [Pods -> Records] /\ thread \in [Threads -> ThreadStates]
      /\ "consumer" \in Threads
  BY DEF StartupInv, TypeOK, Threads
<1>1. /\ thread["consumer"].pc \in {"clear", "delete"} /\ p \in Pods
      /\ UNCHANGED <<phase, process, cmds, stage, todo, owned>>
  BY <1>0 DEF ClearIdentity, DeleteRecord, LocalsOK
<1>2. /\ records'[p].proc = NoProc
      /\ records'[p].whole => records[p].whole /\ records'[p].exists
      /\ \A o \in Pods \ {p} : records'[o] = records[o]
  <2>1. CASE ClearIdentity
    BY <1>0, <1>1, <2>1 DEF ClearIdentity, Records
  <2>2. CASE DeleteRecord
    BY <1>0, <1>1, <2>2, IdleTypes DEF DeleteRecord
  <2> QED BY <2>1, <2>2
<1>3. /\ Alone("consumer")
      /\ \/ thread'["consumer"] = IdleThread
         \/ thread'["consumer"].pc = "delete" /\ thread'["consumer"].pod = p
  <2>1. CASE ClearIdentity
    BY <1>0, <1>1, <2>1, GotoMeans DEF ClearIdentity
  <2>2. CASE DeleteRecord
    BY <1>0, <2>2 DEF DeleteRecord, Finish, Alone
  <2> QED BY <2>1, <2>2
<1>4. phase = "serve" /\ owned = {} /\ thread["main"].pc = "idle"
  BY <1>0, <1>1, IdleTypes DEF PhasesOK
<1>5. PhasesOK'
  BY <1>0, <1>1, <1>3, <1>4 DEF Alone, PhasesOK, Threads
<1>6. MarkersOK'
  <2>1. \A q \in Procs : Alive(q)' => process'[q].pod \in Pods
    BY <1>0, <1>1 DEF MarkersOK, Alive
  <2>2. \A o \in Pods : Alive(records[o].proc)' => process'[records'[o].proc].pod = o
    BY <1>0, <1>1, <1>2 DEF MarkersOK, Alive
  <2>3. ASSUME NEW u \in Threads, Holds(u)'
        PROVE  /\ thread'[u].proc \in Procs
               /\ Alive(thread[u].proc)' => process'[thread'[u].proc].pod = thread'[u].pod
    <3>1. thread'[u] = thread[u]
      BY <1>3, <2>3, IdleTypes DEF Alone, Holds
    <3> QED BY <1>0, <1>1, <2>3, <3>1 DEF MarkersOK, Alive, Holds
  <2> QED BY <2>1, <2>2, <2>3 DEF MarkersOK, Holds
<1>7. WholeOK'
  BY <1>0, <1>1, <1>2 DEF WholeOK, Dropped
<1>8. NewOK'
  <2>1. \A u \in Threads : thread'[u].pc # "idle" =>
          thread[u].pc # "idle" /\ thread'[u].pod = thread[u].pod
    BY <1>1, <1>3, IdleTypes DEF Alone
  <2>2. \A o \in Pods : records'[o].whole => records[o].whole
    BY <1>2
  <2> QED BY <1>0, <1>1, <2>1, <2>2 DEF NewOK, ProcessesOf, Alive
<1>9. StartupOK'
  BY <1>1, <1>4 DEF StartupOK
<1>10. ASSUME ServingOK, Tangle PROVE ServingOK'
  <2>0. tangled' = tangled \cup Overlapping'
    BY <1>0, <1>1, <1>4, <1>10, TangleGrows
  <2> SUFFICES ASSUME NEW o \in Pods \ tangled' PROVE UntangledOK(o)'
    BY <2>0 DEF ServingOK
  <2>1. UntangledOK(o) /\ o \in Pods \ tangled
    BY <1>4, <1>10, <2>0 DEF ServingOK
  <2>2. /\ ProcessesOf(o)' = ProcessesOf(o) /\ stage' = stage
        /\ Dropped(o)' <=> Dropped(o)
    BY <1>1 DEF ProcessesOf, Alive, Dropped
  <2>3. CASE p # o
    <3>1. thread'["consumer"].pod # o
      BY <1>3, <2>3, SupervisorAssumption DEF IdleThread
    <3> QED BY <1>0, <1>2, <1>3, <2>1, <2>2, <2>3, <3>1, OthersUntangled
  <2>4. CASE p = o
    <3>1. \A u \in Threads \ {"consumer"} : thread[u].pod = o => ~ InWindow(u)
      BY <1>0, <1>1, <1>4, <1>10, <2>1, <2>4, Solo DEF InWindow
    <3>2. /\ Dropped(o) \/ ProcessesOf(o) = {}
          /\ \E i : ProcessesOf(o) \subseteq {i}
      BY <1>0, <1>1, <2>1, <2>4 DEF UntangledOK
    <3>3. thread'["consumer"].pc \in {"idle", "delete"}
      BY <1>3, IdleTypes
    <3> QED BY <1>0, <1>3, <2>2, <3>1, <3>2, <3>3, OwnUntangled
  <2> QED BY <2>3, <2>4
<1> QED
  BY <1>5, <1>6, <1>7, <1>8, <1>9, <1>10

(* A step of the control plane on the record and the stage of p: either nothing
   at startup is about p, or p counts as dropped. *)
LEMMA StartupKeptElsewhere ==
  ASSUME StartupInv, NEW p \in Pods,
         UNCHANGED <<phase, process, thread, todo, owned>>,
         \A o \in Pods \ {p} : /\ records'[o] = records[o]
                               /\ Dropped(o)' <=> Dropped(o),
         \/ Dropped(p)'
         \/ /\ \A q \in owned : Alive(q) => process[q].pod # p
            /\ thread["main"].pc # "idle" => thread["main"].pod # p
  PROVE  StartupOK'
<1>0. StartupOK /\ TypeOK /\ MarkersOK /\ LocalsOK /\ "main" \in Threads
  BY DEF StartupInv, Threads
<1>1. Respawning' <=> Respawning
  BY DEF Respawning
<1>2. phase' = "adopt" /\ thread'["main"].pc # "idle" =>
        /\ Dropped(thread["main"].pod)' \/ records'[thread'["main"].pod].whole
        /\ thread'["main"].pod \notin todo'
  <2> SUFFICES ASSUME phase = "adopt", thread["main"].pc # "idle"
               PROVE  /\ Dropped(thread["main"].pod)' \/ records'[thread["main"].pod].whole
                      /\ thread["main"].pod \notin todo
    OBVIOUS
  <2>1. /\ Dropped(thread["main"].pod) \/ records[thread["main"].pod].whole
        /\ thread["main"].pod \notin todo /\ thread["main"].pod \in Pods
    BY <1>0 DEF StartupOK, LocalsOK
  <2>2. CASE thread["main"].pod = p
    <3>1. Dropped(thread["main"].pod)'
      BY <2>2 DEF Dropped
    <3> QED BY <2>1, <3>1
  <2>3. CASE thread["main"].pod # p
    <3>1. Dropped(thread["main"].pod)' <=> Dropped(thread["main"].pod)
      BY <2>1, <2>3 DEF Dropped
    <3> QED BY <2>1, <2>3, <3>1
  <2> QED BY <2>2, <2>3
<1>3. ASSUME NEW q \in owned', Alive(q)'
      PROVE  /\ Dropped(process[q].pod)' \/ (/\ records'[process'[q].pod].proc = q
                                              /\ records'[process'[q].pod].whole)
             /\ process'[q].pod \notin todo'
             /\ Respawning' => thread'["main"].pod # process'[q].pod
             /\ \A r \in owned' :
                  Alive(r)' /\ process'[r].pod = process'[q].pod => r = q
  <2>1. q \in owned /\ Alive(q) /\ process[q].pod \in Pods
    BY <1>0, <1>3 DEF Alive, MarkersOK, TypeOK
  <2>2. /\ Dropped(process[q].pod) \/ (/\ records[process[q].pod].proc = q
                                       /\ records[process[q].pod].whole)
        /\ process[q].pod \notin todo
        /\ Respawning => thread["main"].pod # process[q].pod
    BY <1>0, <2>1 DEF StartupOK
  <2>3. \A r \in owned' : Alive(r)' /\ process'[r].pod = process'[q].pod => r = q
    BY <1>0, <2>1 DEF StartupOK, Alive
  <2>4. Dropped(process[q].pod)' \/ (/\ records'[process[q].pod].proc = q
                                     /\ records'[process[q].pod].whole)
    <3>1. CASE process[q].pod = p
      BY <2>1, <3>1 DEF Dropped
    <3>2. CASE process[q].pod # p
      <4>1. Dropped(process[q].pod)' <=> Dropped(process[q].pod)
        BY <2>1, <3>2 DEF Dropped
      <4> QED BY <2>1, <2>2, <3>2, <4>1
    <3> QED BY <3>1, <3>2
  <2> QED BY <1>1, <2>2, <2>3, <2>4
<1> QED
  BY <1>2, <1>3 DEF StartupOK

(* The scheduler records a new pod: it writes over nothing. *)
LEMMA PlacePodOK ==
  ASSUME StartupInv, NEW p \in Pods, PlacePod(p)
  PROVE  /\ PhasesOK' /\ MarkersOK' /\ WholeOK' /\ NewOK' /\ StartupOK'
         /\ ServingOK /\ Tangle => ServingOK'
<1>0. /\ TypeOK /\ LocalsOK /\ PhasesOK /\ MarkersOK /\ WholeOK /\ NewOK /\ StartupOK
      /\ records \in [Pods -> Records] /\ stage \in [Pods -> Stages]
  BY DEF StartupInv, TypeOK, Stages
<1>1. /\ stage[p] = "new" /\ stage'[p] = "recorded"
      /\ \A o \in Pods \ {p} : stage'[o] = stage[o]
      /\ UNCHANGED <<phase, process, cmds, thread, todo, owned>>
  BY <1>0 DEF PlacePod
<1>2. /\ records'[p].proc = NoProc /\ records'[p].exists /\ records'[p].whole
      /\ \A o \in Pods \ {p} : records'[o] = records[o]
  BY <1>0 DEF PlacePod, Absent
<1>d. ~ Dropped(p)' /\ \A o \in Pods \ {p} : Dropped(o)' <=> Dropped(o)
  BY <1>1 DEF Dropped
<1>3. /\ ProcessesOf(p) = {}
      /\ \A t \in Threads : thread[t].pc # "idle" => thread[t].pod # p
  BY <1>0, <1>1 DEF NewOK
<1>4. PhasesOK'
  BY <1>0, <1>1 DEF PhasesOK
<1>5. MarkersOK'
  BY <1>0, <1>1, <1>2 DEF MarkersOK, Alive
<1>6. WholeOK'
  BY <1>0, <1>1, <1>2 DEF WholeOK, Dropped
<1>7. NewOK'
  BY <1>0, <1>1, <1>2 DEF NewOK, ProcessesOf, Alive
<1>8. StartupOK'
  <2>1. \A q \in owned : Alive(q) => process[q].pod \in Pods \ {p}
    BY <1>0, <1>3 DEF TypeOK, MarkersOK, ProcessesOf
  <2>2. thread["main"].pc # "idle" => thread["main"].pod \in Pods \ {p}
    BY <1>0, <1>3 DEF LocalsOK, Threads
  <2> QED BY <1>0, <1>2, <1>d, <2>1, <2>2, StartupKeptElsewhere, <1>1 DEF Alive
<1>9. ASSUME ServingOK, Tangle PROVE ServingOK'
  <2> SUFFICES ASSUME phase' = "serve" PROVE ServingOK'
    BY DEF ServingOK
  <2>0. phase = "serve" /\ tangled' = tangled \cup Overlapping'
    BY <1>0, <1>1, <1>9, TangleGrows
  <2> SUFFICES ASSUME NEW o \in Pods \ tangled' PROVE UntangledOK(o)'
    BY <2>0 DEF ServingOK
  <2>1. UntangledOK(o)
    BY <1>9, <2>0 DEF ServingOK
  <2>2. ProcessesOf(o)' = ProcessesOf(o)
    BY <1>1 DEF ProcessesOf, Alive
  <2>3. CASE o # p
    <3>1. Dropped(o)' <=> Dropped(o)
      BY <1>d, <2>3
    <3> QED BY <1>1, <1>2, <2>1, <2>2, <2>3, <3>1 DEF UntangledOK
  <2>4. CASE o = p
    <3>1. ProcessesOf(o)' = {}
      BY <1>3, <2>2, <2>4
    <3> QED BY <1>1, <1>2, <2>4, <3>1 DEF UntangledOK
  <2> QED BY <2>3, <2>4
<1> QED
  BY <1>4, <1>5, <1>6, <1>7, <1>8, <1>9

(* The control plane deletes a record under the agent: what the record named is
   still the only process of its pod. *)
LEMMA DropRecordOK ==
  ASSUME StartupInv, NEW p \in Pods, DropRecord(p)
  PROVE  /\ PhasesOK' /\ MarkersOK' /\ WholeOK' /\ NewOK' /\ StartupOK'
         /\ ServingOK /\ Tangle => ServingOK'
<1>0. /\ TypeOK /\ LocalsOK /\ PhasesOK /\ MarkersOK /\ WholeOK /\ NewOK /\ StartupOK
      /\ records \in [Pods -> Records] /\ stage \in [Pods -> Stages]
  BY DEF StartupInv, TypeOK, Stages
<1>1. /\ stage'[p] \in {"unsent", "dropped"}
      /\ \A o \in Pods \ {p} : stage'[o] = stage[o]
      /\ UNCHANGED <<phase, process, cmds, thread, todo, owned>>
  BY <1>0 DEF DropRecord
<1>2. /\ records'[p].proc = NoProc /\ ~ records'[p].whole
      /\ \A o \in Pods \ {p} : records'[o] = records[o]
  BY <1>0, IdleTypes DEF DropRecord
<1>d. Dropped(p)' /\ \A o \in Pods \ {p} : Dropped(o)' <=> Dropped(o)
  BY <1>1 DEF Dropped
<1>4. PhasesOK'
  BY <1>0, <1>1 DEF PhasesOK
<1>5. MarkersOK'
  BY <1>0, <1>1, <1>2 DEF MarkersOK, Alive
<1>6. WholeOK'
  BY <1>0, <1>2, <1>d DEF WholeOK
<1>7. NewOK'
  BY <1>0, <1>1, <1>2 DEF NewOK, ProcessesOf, Alive
<1>8. StartupOK'
  <2>1. /\ \A q \in owned : Alive(q) => process[q].pod \in Pods
        /\ thread["main"].pc # "idle" => thread["main"].pod \in Pods
    BY <1>0 DEF TypeOK, MarkersOK, LocalsOK, Threads
  <2> QED BY <1>0, <1>1, <1>2, <1>d, <2>1, StartupKeptElsewhere
<1>9. ASSUME ServingOK, Tangle PROVE ServingOK'
  <2> SUFFICES ASSUME phase' = "serve" PROVE ServingOK'
    BY DEF ServingOK
  <2>0. phase = "serve" /\ tangled' = tangled \cup Overlapping'
    BY <1>0, <1>1, <1>9, TangleGrows
  <2> SUFFICES ASSUME NEW o \in Pods \ tangled' PROVE UntangledOK(o)'
    BY <2>0 DEF ServingOK
  <2>1. UntangledOK(o)
    BY <1>9, <2>0 DEF ServingOK
  <2>2. ProcessesOf(o)' = ProcessesOf(o)
    BY <1>1 DEF ProcessesOf, Alive
  <2>3. CASE o # p
    <3>1. Dropped(o)' <=> Dropped(o)
      BY <1>d, <2>3
    <3> QED BY <1>1, <1>2, <2>1, <2>2, <2>3, <3>1 DEF UntangledOK
  <2>4. CASE o = p
    BY <1>1, <1>d, <2>1, <2>2, <2>4 DEF UntangledOK
  <2> QED BY <2>3, <2>4
<1> QED
  BY <1>4, <1>5, <1>6, <1>7, <1>8, <1>9

--------------------------------------------------------------------------------
(***************************************************************************)
(* The reconciliation at startup.                                          *)
(***************************************************************************)

(* A record is adopted: its pod was on the list, so nothing of it is in the map
   yet. *)
LEMMA AdoptPodOK ==
  ASSUME StartupInv, NEW p \in Pods, AdoptPod(p)
  PROVE  /\ PhasesOK' /\ MarkersOK' /\ WholeOK' /\ NewOK' /\ StartupOK'
         /\ ServingOK'
<1>0. /\ TypeOK /\ LocalsOK /\ PhasesOK /\ MarkersOK /\ WholeOK /\ NewOK /\ StartupOK
      /\ thread \in [Threads -> ThreadStates] /\ "main" \in Threads /\ owned \subseteq Procs
  BY DEF StartupInv, TypeOK, Threads
<1>1. /\ phase = "adopt" /\ thread["main"].pc = "idle" /\ p \in todo /\ todo' = todo \ {p}
      /\ UNCHANGED <<phase, records, process, cmds, stage>>
  BY DEF AdoptPod
<1>2. \A q \in owned' : q \in owned \/ (q = records[p].proc /\ Alive(q) /\ records[p].whole)
  BY DEF AdoptPod
<1>3. /\ Alone("main")
      /\ \/ thread'["main"] = thread["main"]
         \/ /\ thread'["main"].pod = p /\ records[p].whole
            /\ \/ thread'["main"].pc = "fix"
               \/ thread'["main"].pc = "spawn" /\ ~ Alive(records[p].proc)
  <2>1. CASE UNCHANGED thread
    BY <2>1 DEF Alone
  <2>2. ASSUME NEW c, c = (IF Alive(records[p].proc) THEN "fix" ELSE "spawn"),
               records[p].whole,
               thread' = [thread EXCEPT !["main"] =
                            [thread["main"] EXCEPT !.pod = p, !.pc = c]]
        PROVE  /\ Alone("main") /\ thread'["main"].pod = p /\ records[p].whole
               /\ \/ thread'["main"].pc = "fix"
                  \/ thread'["main"].pc = "spawn" /\ ~ Alive(records[p].proc)
    <3>1. Alone("main") /\ thread'["main"].pod = p /\ thread'["main"].pc = c
      BY <1>0, <2>2 DEF Alone, ThreadStates
    <3> QED BY <2>2, <3>1
  <2> QED BY <2>1, <2>2 DEF AdoptPod
<1>4. PhasesOK'
  BY <1>0, <1>1, <1>3 DEF Alone, PhasesOK, Threads
<1>5. MarkersOK'
  <2>1. ASSUME NEW u \in Threads, Holds(u)'
        PROVE  /\ thread'[u].proc \in Procs
               /\ Alive(thread[u].proc)' => process'[thread'[u].proc].pod = thread'[u].pod
    <3>1. thread'[u] = thread[u]
      BY <1>3, <2>1 DEF Alone, Holds
    <3> QED BY <1>0, <1>1, <2>1, <3>1 DEF MarkersOK, Alive, Holds
  <2> QED BY <1>0, <1>1, <2>1 DEF MarkersOK, Alive, Holds
<1>6. WholeOK'
  BY <1>0, <1>1 DEF WholeOK, Dropped
<1>7. NewOK'
  <2>1. thread'["main"] # thread["main"] => stage[p] # "new"
    BY <1>0, <1>3 DEF NewOK
  <2> QED BY <1>0, <1>1, <1>3, <2>1 DEF NewOK, ProcessesOf, Alive, Alone
<1>8. StartupOK'
  <2>1. thread'["main"].pc # "idle" =>
          /\ thread'["main"].pod = p /\ records[p].whole
          /\ thread'["main"].pc # "fix" =>
               thread'["main"].pc = "spawn" /\ ~ Alive(records[p].proc)
    BY <1>1, <1>3
  <2>2. \A q \in owned' : Alive(q)' =>
          /\ Alive(q) /\ process'[q] = process[q]
          /\ \/ q \in owned /\ process[q].pod # p
             \/ q = records[p].proc /\ records[p].whole /\ process[q].pod = p
    <3> SUFFICES ASSUME NEW q \in owned', Alive(q)'
                 PROVE  /\ Alive(q) /\ process'[q] = process[q]
                        /\ \/ q \in owned /\ process[q].pod # p
                           \/ q = records[p].proc /\ records[p].whole /\ process[q].pod = p
      OBVIOUS
    <3>0. Alive(q) /\ process'[q] = process[q]
      BY <1>1 DEF Alive
    <3>1. q \in owned => process[q].pod # p
      BY <1>0, <1>1, <3>0 DEF StartupOK
    <3>2. q = records[p].proc => process[q].pod = p
      BY <1>0, <3>0 DEF MarkersOK
    <3> QED BY <1>2, <3>0, <3>1, <3>2
  <2>3. ASSUME NEW q \in owned', Alive(q)'
        PROVE  /\ Dropped(process[q].pod)' \/ (/\ records'[process'[q].pod].proc = q
                                                /\ records'[process'[q].pod].whole)
               /\ process'[q].pod \notin todo'
               /\ Respawning' => thread'["main"].pod # process'[q].pod
               /\ \A r \in owned' :
                    Alive(r)' /\ process'[r].pod = process'[q].pod => r = q
    <3>0. Dropped(process[q].pod)' <=> Dropped(process[q].pod)
      BY <1>1, <2>2, <2>3 DEF Dropped
    <3>1. CASE q \in owned /\ process[q].pod # p
      <4>1. /\ Dropped(process[q].pod) \/ (/\ records[process[q].pod].proc = q
                                           /\ records[process[q].pod].whole)
            /\ process[q].pod \notin todo
        BY <1>0, <2>2, <2>3, <3>1 DEF StartupOK
      <4>2. Respawning' => thread'["main"].pod # process[q].pod
        BY <2>1, <3>1 DEF Respawning
      <4>3. \A r \in owned' : Alive(r)' /\ process'[r].pod = process'[q].pod => r = q
        BY <1>0, <2>2, <2>3, <3>1 DEF StartupOK
      <4> QED BY <1>1, <2>2, <2>3, <3>0, <4>1, <4>2, <4>3
    <3>2. CASE q = records[p].proc /\ records[p].whole /\ process[q].pod = p
      <4>1. ~ Respawning'
        BY <2>1, <2>2, <2>3, <3>2 DEF Respawning
      <4>2. \A r \in owned' : Alive(r)' /\ process'[r].pod = process'[q].pod => r = q
        BY <2>2, <2>3, <3>2
      <4> QED BY <1>1, <2>2, <2>3, <3>2, <4>1, <4>2
    <3> QED BY <2>2, <2>3, <3>1, <3>2
  <2> QED BY <1>1, <2>1, <2>3 DEF StartupOK
<1>9. ServingOK'
  BY <1>1 DEF ServingOK
<1> QED
  BY <1>4, <1>5, <1>6, <1>7, <1>8, <1>9

(* The process of a pod that was spawned again is read back. *)
LEMMA RereadPidOK ==
  ASSUME StartupInv, RereadPid
  PROVE  /\ PhasesOK' /\ MarkersOK' /\ WholeOK' /\ NewOK' /\ StartupOK'
         /\ ServingOK'
<1> DEFINE p == thread["main"].pod
<1>0. /\ TypeOK /\ LocalsOK /\ PhasesOK /\ MarkersOK /\ WholeOK /\ NewOK /\ StartupOK
      /\ thread \in [Threads -> ThreadStates] /\ "main" \in Threads
  BY DEF StartupInv, TypeOK, Threads
<1>1. /\ thread["main"].pc = "reread" /\ phase = "adopt" /\ p \in Pods
      /\ Dropped(p) \/ records[p].whole
      /\ p \notin todo /\ Respawning
      /\ UNCHANGED <<phase, records, process, cmds, stage, todo>>
  BY <1>0, IdleTypes DEF RereadPid, PhasesOK, LocalsOK, StartupOK, Respawning
<1>2. Alone("main") /\ thread'["main"] = IdleThread
  BY <1>0 DEF RereadPid, Finish, Alone
<1>3. \A q \in owned' : q \in owned \/ q = records[p].proc
  BY DEF RereadPid
<1>4. PhasesOK'
  BY <1>0, <1>1, <1>2 DEF Alone, PhasesOK, Threads
<1>5. MarkersOK'
  <2>1. ASSUME NEW u \in Threads, Holds(u)'
        PROVE  /\ thread'[u].proc \in Procs
               /\ Alive(thread[u].proc)' => process'[thread'[u].proc].pod = thread'[u].pod
    <3>1. thread'[u] = thread[u]
      BY <1>2, <2>1, IdleTypes DEF Alone, Holds
    <3> QED BY <1>0, <1>1, <2>1, <3>1 DEF MarkersOK, Alive, Holds
  <2> QED BY <1>0, <1>1, <2>1 DEF MarkersOK, Alive, Holds
<1>6. WholeOK'
  BY <1>0, <1>1 DEF WholeOK, Dropped
<1>7. NewOK'
  BY <1>0, <1>1, <1>2, IdleTypes DEF NewOK, ProcessesOf, Alive, Alone
<1>8. StartupOK'
  <2>1. \A q \in owned' : Alive(q)' =>
          /\ Alive(q) /\ process'[q] = process[q]
          /\ \/ q \in owned /\ process[q].pod # p
             \/ q = records[p].proc /\ process[q].pod = p
    <3> SUFFICES ASSUME NEW q \in owned', Alive(q)'
                 PROVE  /\ Alive(q) /\ process'[q] = process[q]
                        /\ \/ q \in owned /\ process[q].pod # p
                           \/ q = records[p].proc /\ process[q].pod = p
      OBVIOUS
    <3>0. Alive(q) /\ process'[q] = process[q]
      BY <1>1 DEF Alive
    <3>1. q \in owned => process[q].pod # p
      BY <1>0, <1>1, <3>0 DEF StartupOK
    <3>2. q = records[p].proc => process[q].pod = p
      BY <1>0, <1>1, <3>0 DEF MarkersOK
    <3> QED BY <1>3, <3>0, <3>1, <3>2
  <2>2. ~ Respawning' /\ thread'["main"].pc = "idle"
    BY <1>2, IdleTypes DEF Respawning
  <2>3. ASSUME NEW q \in owned', Alive(q)'
        PROVE  /\ Dropped(process[q].pod)' \/ (/\ records'[process'[q].pod].proc = q
                                                /\ records'[process'[q].pod].whole)
               /\ process'[q].pod \notin todo'
               /\ \A r \in owned' :
                    Alive(r)' /\ process'[r].pod = process'[q].pod => r = q
    <3>0. Dropped(process[q].pod)' <=> Dropped(process[q].pod)
      BY <1>1, <2>1, <2>3 DEF Dropped
    <3>1. CASE q \in owned /\ process[q].pod # p
      <4>1. /\ Dropped(process[q].pod) \/ (/\ records[process[q].pod].proc = q
                                           /\ records[process[q].pod].whole)
            /\ process[q].pod \notin todo
        BY <1>0, <2>1, <2>3, <3>1 DEF StartupOK
      <4>2. \A r \in owned' : Alive(r)' /\ process'[r].pod = process'[q].pod => r = q
        BY <1>0, <2>1, <2>3, <3>1 DEF StartupOK
      <4> QED BY <1>1, <2>1, <2>3, <3>0, <4>1, <4>2
    <3>2. CASE q = records[p].proc /\ process[q].pod = p
      <4>1. \A r \in owned' : Alive(r)' /\ process'[r].pod = process'[q].pod => r = q
        BY <2>1, <2>3, <3>2
      <4> QED BY <1>1, <2>1, <2>3, <3>0, <3>2, <4>1
    <3> QED BY <2>1, <2>3, <3>1, <3>2
  <2> QED BY <2>2, <2>3 DEF StartupOK
<1>9. ServingOK'
  BY <1>1 DEF ServingOK
<1> QED
  BY <1>4, <1>5, <1>6, <1>7, <1>8, <1>9

(* The phases of the agent follow each other, or it dies. *)
LEMMA PhaseOK ==
  ASSUME StartupInv,
         Boot \/ ScanProcesses \/ StartServing \/ ScanFails \/ AgentDies
  PROVE  PhasesOK' /\ MarkersOK' /\ WholeOK' /\ NewOK' /\ StartupOK'
<1>0. /\ TypeOK /\ LocalsOK /\ PhasesOK /\ MarkersOK /\ WholeOK /\ NewOK /\ StartupOK
      /\ "main" \in Threads
  BY DEF StartupInv, Threads
<1>1. /\ UNCHANGED <<records, process, cmds, stage>>
      /\ \A t \in Threads : thread'[t] = thread[t] \/ thread'[t] = IdleThread
      /\ phase' # "serve" =>
           thread'["consumer"] = IdleThread /\ thread'["checker"] = IdleThread
  BY <1>0 DEF Boot, ScanProcesses, StartServing, ScanFails, AgentDies, PhasesOK, Threads
<1>2. /\ thread'["main"].pc = "idle"
      /\ phase' \notin {"adopt", "orphans"} => owned' = {}
      /\ owned' \in {owned, {}}
      /\ owned' = {} \/ todo' = todo
  <2>1. CASE Boot
    BY <1>0, <2>1, IdleTypes DEF Boot, PhasesOK
  <2>2. CASE ScanProcesses
    BY <2>2 DEF ScanProcesses
  <2>3. CASE StartServing \/ ScanFails
    BY <1>0, <2>3, IdleTypes DEF StartServing, ScanFails, PhasesOK
  <2>4. CASE AgentDies
    BY <1>0, <2>4, IdleTypes DEF AgentDies
  <2> QED BY <2>1, <2>2, <2>3, <2>4
<1>3. PhasesOK'
  BY <1>1, <1>2 DEF PhasesOK
<1>4. MarkersOK'
  BY <1>0, <1>1, IdleTypes DEF MarkersOK, Alive
<1>5. WholeOK'
  BY <1>0, <1>1 DEF WholeOK, Dropped
<1>6. NewOK'
  BY <1>0, <1>1, IdleTypes DEF NewOK, ProcessesOf, Alive
<1>7. StartupOK'
  <2>1. ~ Respawning'
    BY <1>2 DEF Respawning
  <2>2. \A q \in owned' : /\ q \in owned /\ todo' = todo
                           /\ (Alive(q)' <=> Alive(q)) /\ process'[q] = process[q]
    BY <1>1, <1>2 DEF Alive
  <2>3. \A q \in owned' : Dropped(process[q].pod)' <=> Dropped(process[q].pod)
    BY <1>1 DEF Dropped
  <2> QED BY <1>0, <1>1, <1>2, <2>1, <2>2, <2>3 DEF StartupOK
<1> QED
  BY <1>3, <1>4, <1>5, <1>6, <1>7

(* A serving agent begins with the processes it adopted, one for each pod, and
   the orphans of pods it takes for tangled. *)
LEMMA PhaseServing ==
  ASSUME StartupInv, Tangle,
         Boot \/ ScanProcesses \/ StartServing \/ ScanFails \/ AgentDies
  PROVE  ServingOK'
<1>1. CASE Boot \/ ScanProcesses \/ AgentDies
  BY <1>1 DEF Boot, ScanProcesses, AgentDies, ServingOK
<1>2. CASE StartServing \/ ScanFails
  <2>0. /\ TypeOK /\ PhasesOK /\ MarkersOK /\ StartupOK
        /\ phase = "orphans" /\ phase' = "serve"
        /\ UNCHANGED <<records, process, thread, stage>>
    BY <1>2 DEF StartupInv, StartServing, ScanFails
  <2>1. tangled' = {process[q].pod : q \in Orphans}
    BY <2>0 DEF Tangle
  <2>2. \A t \in Threads : thread[t].pc = "idle"
    BY <2>0, IdleTypes DEF PhasesOK, Threads
  <2>3. Overlapping' = {}
    BY <2>0, <2>2 DEF Overlapping, InWindow, Threads
  <2>4. ASSUME NEW p \in Pods \ tangled', NEW q \in ProcessesOf(p)
        PROVE  /\ Dropped(p) \/ (records[p].proc = q /\ records[p].whole)
               /\ ProcessesOf(p) \subseteq {q}
    <3>1. q \in Procs /\ Alive(q) /\ process[q].pod = p
      BY <2>4 DEF ProcessesOf
    <3>2. ProcessesOf(p) \subseteq owned
      BY <2>1, <3>1 DEF Orphans, ProcessesOf
    <3>3. \A r \in ProcessesOf(p) : Alive(r) /\ process[r].pod = process[q].pod
      BY <3>1 DEF ProcessesOf
    <3> QED BY <2>0, <2>4, <3>1, <3>2, <3>3 DEF StartupOK
  <2>5. \A p \in Pods : /\ ProcessesOf(p)' = ProcessesOf(p)
                        /\ Dropped(p)' <=> Dropped(p)
    BY <2>0 DEF ProcessesOf, Alive, Dropped
  <2>6. \A p \in Pods \ tangled' : \E o : ProcessesOf(p)' \subseteq {o}
    BY <2>4, <2>5
  <2>7. \A p \in Pods \ tangled' : UntangledOK(p)'
    BY <2>0, <2>2, <2>4, <2>5, <2>6 DEF UntangledOK
  <2> QED BY <2>3, <2>7 DEF ServingOK
<1> QED
  BY <1>1, <1>2

--------------------------------------------------------------------------------
(***************************************************************************)
(* Every step preserves the invariant.                                     *)
(***************************************************************************)
LEMMA SpawnOK ==
  ASSUME StartupInv, NEW t \in Threads, SpawnStep(t)
  PROVE  /\ PhasesOK' /\ MarkersOK' /\ WholeOK' /\ NewOK' /\ StartupOK'
         /\ ServingOK /\ Tangle => ServingOK'
<1>1. CASE (SpawnRead(t) /\ Goto(t, "start")) \/ RecordFails(t)
  BY <1>1, SpawnAdvances
<1>2. CASE (SpawnRead(t) /\ ~ Goto(t, "start")) \/ StartFails(t) \/ MarkFailed(t)
  <2>1. Quiet
    BY <1>2, SpawnQuiet
  <2> QED BY <2>1, QuietStartup, QuietServing
<1>3. CASE StartProcess(t)
  BY <1>3, StartProcessOK
<1>4. CASE RecordIdentity(t)
  BY <1>4, RecordIdentityOK
<1>5. CASE AbandonProcess(t)
  BY <1>5, Terminates, TerminateOK
<1> QED
  BY <1>1, <1>2, <1>3, <1>4, <1>5 DEF SpawnStep

LEMMA PartsStep ==
  ASSUME StartupInv, [Next]_vars
  PROVE  /\ PhasesOK' /\ MarkersOK' /\ WholeOK' /\ NewOK' /\ StartupOK'
         /\ ServingOK /\ Tangle => ServingOK'
<1> USE DEF Threads
<1>q. Quiet => /\ PhasesOK' /\ MarkersOK' /\ WholeOK' /\ NewOK' /\ StartupOK'
               /\ ServingOK /\ Tangle => ServingOK'
  BY QuietStartup, QuietServing
<1>1. CASE StartupStep
  <2>1. CASE Boot \/ ScanProcesses \/ StartServing \/ ScanFails \/ AgentDies
    BY <2>1, PhaseOK, PhaseServing
  <2>2. ASSUME NEW p \in Pods, AdoptPod(p)
        PROVE  /\ PhasesOK' /\ MarkersOK' /\ WholeOK' /\ NewOK' /\ StartupOK'
               /\ ServingOK'
    BY <2>2, AdoptPodOK
  <2>3. CASE RereadPid
    BY <2>3, RereadPidOK
  <2>4. CASE FixStatus \/ KillOrphan
    BY <1>q, <2>4, FixQuiet, EnvironmentQuiet
  <2> QED BY <1>1, <2>1, <2>2, <2>3, <2>4 DEF StartupStep
<1>2. CASE \E t \in Threads : SpawnStep(t)
  BY <1>2, SpawnOK
<1>3. CASE ConsumerStep
  <2>1. CASE \/ PopCommand
             \/ StopRead /\ ~ Goto("consumer", "delete")
             \/ FindProcess /\ Finish("consumer")
             \/ StopFails
    BY <1>q, <2>1, ConsumerQuiet
  <2>2. CASE \/ StopRead /\ Goto("consumer", "delete")
             \/ FindProcess /\ ~ Finish("consumer")
    BY <2>2, StopAdvances
  <2>3. CASE KillProcess
    BY <2>3, Terminates, TerminateOK
  <2>4. CASE ClearIdentity \/ DeleteRecord
    BY <2>4, ForgetOK
  <2>5. CASE SpawnStep("consumer")
    BY <1>2, <2>5
  <2> QED BY <1>3, <2>1, <2>2, <2>3, <2>4, <2>5 DEF ConsumerStep
<1>4. CASE CheckerStep
  <2>1. CASE SpawnStep("checker")
    BY <1>2, <2>1
  <2>2. CASE \/ \E p \in Pods : CheckPod(p)
             \/ ProbeSucceeds \/ ProbeFails \/ RestartPod \/ CheckFails
    BY <1>q, <2>2, CheckerQuiet
  <2> QED BY <1>4, <2>1, <2>2 DEF CheckerStep
<1>5. CASE Environment
  <2>1. ASSUME NEW p \in Pods, PlacePod(p)
        PROVE  /\ PhasesOK' /\ MarkersOK' /\ WholeOK' /\ NewOK' /\ StartupOK'
               /\ ServingOK /\ Tangle => ServingOK'
    BY <2>1, PlacePodOK
  <2>2. ASSUME NEW p \in Pods, DropRecord(p)
        PROVE  /\ PhasesOK' /\ MarkersOK' /\ WholeOK' /\ NewOK' /\ StartupOK'
               /\ ServingOK /\ Tangle => ServingOK'
    BY <2>2, DropRecordOK
  <2>3. CASE \/ \E p \in Pods : QueueStart(p) \/ QueueStop(p) \/ EvictRecord(p)
             \/ \E q \in Procs : ProcessExits(q) \/ ProcessHangs(q) \/ ProcessRecovers(q)
    BY <1>q, <2>3, EnvironmentQuiet
  <2> QED BY <1>5, <2>1, <2>2, <2>3 DEF Environment
<1>6. CASE UNCHANGED vars
  BY <1>q, <1>6, EnvironmentQuiet
<1> QED
  BY <1>1, <1>2, <1>3, <1>4, <1>5, <1>6 DEF Next

LEMMA StartupInvStep ==
  ASSUME StartupInv, [Next]_vars
  PROVE  StartupInv'
<1>1. TypeOK' /\ LocalsOK'
  BY TypeStep DEF StartupInv
<1> QED
  BY <1>1, PartsStep DEF StartupInv

LEMMA StartupInvInit ==
  ASSUME Init
  PROVE  StartupInv
<1>1. TypeOK /\ LocalsOK
  BY TypeInit
<1>2. /\ \A p \in Pods : records[p] = Absent
      /\ \A q \in Procs : process[q] = NoProcess
      /\ \A t \in Threads : thread[t] = IdleThread
      /\ phase = "down" /\ cmds = <<>> /\ owned = {}
  BY DEF Init
<1>3. \A q \in Procs : ~ Alive(q)
  BY <1>2, IdleTypes DEF Alive
<1>4. PhasesOK /\ WholeOK
  BY <1>2, IdleTypes DEF PhasesOK, WholeOK, Threads
<1>5. MarkersOK
  BY <1>2, <1>3, IdleTypes DEF MarkersOK, Alive
<1>6. NewOK
  BY <1>2, <1>3, IdleTypes DEF NewOK, ProcessesOf
<1>7. StartupOK
  BY <1>2 DEF StartupOK
<1> QED
  BY <1>1, <1>4, <1>5, <1>6, <1>7 DEF StartupInv

(* What a serving agent begins with. *)
LEMMA NothingButRecorded ==
  ASSUME StartupInv, StartServing
  PROVE  \A q \in Procs : Alive(q) =>
           /\ ProcessesOf(process[q].pod) = {q}
           /\ Dropped(process[q].pod) \/ records[process[q].pod].proc = q
<1>1. StartupOK /\ \A q \in Procs : Alive(q) => q \in owned
  BY DEF StartServing, Orphans, StartupInv
<1> SUFFICES ASSUME NEW q \in Procs, Alive(q)
             PROVE  /\ ProcessesOf(process[q].pod) = {q}
                    /\ Dropped(process[q].pod) \/ records[process[q].pod].proc = q
  OBVIOUS
<1>2. \A r \in ProcessesOf(process[q].pod) : r = q
  BY <1>1 DEF StartupOK, ProcessesOf
<1>3. q \in ProcessesOf(process[q].pod)
  BY DEF ProcessesOf
<1> QED
  BY <1>1, <1>2, <1>3 DEF StartupOK

(* However often the agent dies, whatever a predecessor left started and not
   recorded, and whatever the control plane evicts or deletes meanwhile: when
   ReconcileOnStartup has scanned the processes and the agent begins to serve,
   no pod has two, and each is the one its pod's record names unless the control
   plane deleted that record. *)
THEOREM StartupReconciles == Spec => StartupLeavesOneProcess
<1>1. Init => StartupInv
  BY StartupInvInit
<1>2. StartupInv /\ [Next]_vars => StartupInv'
  BY StartupInvStep
<1>3. StartupInv /\ [Next]_vars =>
        [StartServing =>
           \A q \in Procs : Alive(q) =>
             /\ ProcessesOf(process[q].pod) = {q}
             /\ Dropped(process[q].pod) \/ records[process[q].pod].proc = q]_vars
  BY NothingButRecorded
<1> QED
  BY <1>1, <1>2, <1>3, PTL DEF Spec, StartupLeavesOneProcess

LEMMA ServingStep ==
  ASSUME IInv, [RacesNext]_racesVars
  PROVE  IInv'
<1>1. CASE RacesNext
  BY <1>1, StartupInvStep, PartsStep DEF IInv, RacesNext
<1>2. CASE UNCHANGED racesVars
  <2>1. UNCHANGED vars /\ UNCHANGED tangled
    BY <1>2 DEF racesVars
  <2>2. StartupInv'
    BY <2>1, StartupInvStep DEF IInv
  <2>3. ServingOK'
    BY <2>1 DEF IInv, ServingOK, vars, Overlapping, InWindow, UntangledOK, ProcessesOf, Alive,
                Dropped
  <2> QED BY <2>2, <2>3 DEF IInv
<1> QED
  BY <1>1, <1>2

(* The invariant says what the property says. *)
LEMMA InvariantMeans ==
  ASSUME IInv
  PROVE  OnlyRacesDuplicate
<1> SUFFICES ASSUME phase = "serve", NEW p \in Pods \ tangled
             PROVE  /\ Cardinality(ProcessesOf(p)) <= 1
                    /\ \A q \in ProcessesOf(p) :
                         Dropped(p) \/ records[p].proc = q
                           \/ \E t \in Threads : thread[t].proc = q
  BY DEF OnlyRacesDuplicate
<1>1. UntangledOK(p)
  BY DEF IInv, ServingOK
<1>2. \E o : ProcessesOf(p) \subseteq {o}
  BY <1>1 DEF UntangledOK
<1>3. Cardinality(ProcessesOf(p)) <= 1
  <2>1. PICK o : ProcessesOf(p) \subseteq {o}
    BY <1>2
  <2>2. ProcessesOf(p) = {} \/ ProcessesOf(p) = {o}
    BY <2>1
  <2>3. Cardinality({}) = 0 /\ Cardinality({o}) = 1
    BY FS_EmptySet, FS_Singleton
  <2> QED BY <2>2, <2>3
<1> QED
  BY <1>1, <1>3 DEF UntangledOK

(* While the agent serves, a pod that met no race between the consumer and the
   checker, and had no orphan that the scan missed, has at most one process,
   evicted or deleted under the agent or not; and unless the control plane
   deleted its record, the process is on it or in the hands of a goroutine
   (Spawn, launch, Stop, StopAndRemove). *)
THEOREM RacesAlone == RacesSpec => []OnlyRacesDuplicate
<1>1. RacesInit => IInv
  <2> SUFFICES ASSUME RacesInit PROVE IInv
    OBVIOUS
  <2>1. StartupInv
    BY StartupInvInit DEF RacesInit
  <2>2. ServingOK
    BY DEF RacesInit, Init, ServingOK
  <2> QED BY <2>1, <2>2 DEF IInv
<1>2. IInv /\ [RacesNext]_racesVars => IInv'
  BY ServingStep
<1>3. IInv => OnlyRacesDuplicate
  BY InvariantMeans
<1> QED
  BY <1>1, <1>2, <1>3, PTL DEF RacesSpec

(* What holds of Spec holds with the history variable as well: it forbids
   nothing that the supervisor does not forbid. *)
LEMMA HistoryImplements == RacesSpec => Spec
<1>1. RacesInit => Init
  BY DEF RacesInit
<1>2. [RacesNext]_racesVars => [Next]_vars
  BY DEF RacesNext, racesVars
<1> QED
  BY <1>1, <1>2, PTL DEF RacesSpec, Spec
================================================================================
