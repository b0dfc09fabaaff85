-------------------------------- MODULE Ingress --------------------------------
(***************************************************************************)
(* internal/ingress: the controller that keeps Nginx's upstreams in step   *)
(* with the pods that serve.  One goroutine (Run) waits for a debounced    *)
(* change or for the resync ticker and rebuilds everything (Sync); another *)
(* one (watch) turns deployment events into a change.  Pods come and go,   *)
(* and start to serve, without any event at all.                           *)
(*                                                                         *)
(* A configuration is the set of pods it routes to, each of which keeps its*)
(* host port: backends and Render sort what the scan returns, so its order *)
(* leaves no trace.                                                        *)
(***************************************************************************)
CONSTANTS
  Pods,    \* pods that may exist
  Nothing  \* the empty lastWritten of a new controller, and no file

ASSUME NothingAssumption == \A S \in SUBSET Pods : S # Nothing

VARIABLES
  pods,         \* status of each pod's record
  watching,     \* watch has a subscription
  changed,      \* the one-slot channel from watch to Run
  debounce,     \* the debounce timer is armed
  pc,           \* where Run is
  todo,         \* pod keys Sync has yet to read
  found,        \* backends Sync has read so far
  lastWritten,  \* as in Controller
  file,         \* the configuration on disk
  loaded,       \* the configuration Nginx works with
  unloaded      \* the reload of the file was tried in vain (history)

loopVars == <<changed, debounce, pc, todo, found, lastWritten>>

vars == <<pods, watching, loopVars, file, loaded, unloaded>>

(* A record with status Running and a host port serves; any other one waits. *)
Statuses == {"none", "waiting", "serving"}

Serving == {p \in Pods : pods[p] = "serving"}

(***************************************************************************)
(* watch.                                                                  *)
(***************************************************************************)
Subscribe ==
  /\ ~ watching
  /\ pc # "boot"
  /\ watching' = TRUE
  /\ UNCHANGED <<pods, loopVars, file, loaded, unloaded>>

SubscriptionCloses ==
  /\ watching
  /\ watching' = FALSE
  /\ UNCHANGED <<pods, loopVars, file, loaded, unloaded>>

(* An event arrives; a full channel already stands for a rebuild to come. *)
ReceiveEvent ==
  /\ watching
  /\ changed' = TRUE
  /\ UNCHANGED <<pods, watching, debounce, pc, todo, found, lastWritten,
                 file, loaded, unloaded>>

(***************************************************************************)
(* Run's select.                                                           *)
(***************************************************************************)
TakeChange ==
  /\ pc = "select"
  /\ changed
  /\ changed' = FALSE
  /\ debounce' = TRUE
  /\ UNCHANGED <<pods, watching, pc, todo, found, lastWritten,
                 file, loaded, unloaded>>

DebounceFires ==
  /\ pc = "select"
  /\ debounce
  /\ debounce' = FALSE
  /\ pc' = "scan"
  /\ UNCHANGED <<pods, watching, changed, todo, found, lastWritten,
                 file, loaded, unloaded>>

(* Mutant of Resync: without an event there is nothing to do. *)
ResyncOnEvent ==
  /\ pc = "select"
  /\ changed
  /\ pc' = "scan"
  /\ changed' = FALSE
  /\ UNCHANGED <<pods, watching, debounce, todo, found, lastWritten,
                 file, loaded, unloaded>>

Resync ==
  /\ pc = "select"
  /\ pc' = "scan"
  /\ UNCHANGED <<pods, watching, changed, debounce, todo, found, lastWritten,
                 file, loaded, unloaded>>

(***************************************************************************)
(* Sync.                                                                   *)
(***************************************************************************)

(* Sync returns, with or without an error: Run waits again. *)
SyncReturns ==
  /\ pc' = "select"
  /\ todo' = {}
  /\ found' = {}
  /\ UNCHANGED <<pods, watching, changed, debounce>>

(* Run calls Sync once before it starts to watch. *)
ScanKeys ==
  /\ pc \in {"boot", "scan"}
  /\ pc' = "read"
  /\ todo' = {p \in Pods : pods[p] # "none"}
  /\ found' = {}
  /\ UNCHANGED <<pods, watching, changed, debounce, lastWritten,
                 file, loaded, unloaded>>

ScanFails ==
  /\ pc \in {"boot", "scan"}
  /\ SyncReturns
  /\ UNCHANGED <<lastWritten, file, loaded, unloaded>>

ReadPod(p) ==
  /\ pc = "read"
  /\ p \in todo
  /\ todo' = todo \ {p}
  /\ found' = found \cup ({p} \cap Serving)
  /\ UNCHANGED <<pods, watching, changed, debounce, pc, lastWritten,
                 file, loaded, unloaded>>

(* backends skips a pod it cannot read, and Sync goes on without it. *)
ReadFails(p) ==
  /\ pc = "read"
  /\ p \in todo
  /\ todo' = todo \ {p}
  /\ UNCHANGED <<pods, watching, changed, debounce, pc, found, lastWritten,
                 file, loaded, unloaded>>

(* The rebuild gave what was written last: no reload. *)
SkipUnchanged ==
  /\ pc = "read" /\ todo = {}
  /\ found = lastWritten
  /\ SyncReturns
  /\ UNCHANGED <<lastWritten, file, loaded, unloaded>>

(* Mutant of WriteConfig: what was written is not remembered. *)
WriteConfigForgotten ==
  /\ pc = "read" /\ todo = {}
  /\ found # lastWritten
  /\ pc' = "reload"
  /\ file' = found
  /\ UNCHANGED <<pods, watching, changed, debounce, todo, found, lastWritten,
                 loaded, unloaded>>

(* Mutant of WriteConfig: Sync returns without the reload. *)
WriteConfigOnly ==
  /\ pc = "read" /\ todo = {}
  /\ found # lastWritten
  /\ file' = found
  /\ lastWritten' = found
  /\ unloaded' = FALSE
  /\ SyncReturns
  /\ UNCHANGED loaded

(* write renames the complete file over the old one. *)
WriteConfig ==
  /\ pc = "read" /\ todo = {}
  /\ found # lastWritten
  /\ pc' = "reload"
  /\ file' = found
  /\ lastWritten' = found
  /\ unloaded' = FALSE
  /\ UNCHANGED <<pods, watching, changed, debounce, todo, found, loaded>>

(* Mutant of WriteFails: lastWritten is set before the write. *)
WriteFailsRemembered ==
  /\ pc = "read" /\ todo = {}
  /\ found # lastWritten
  /\ lastWritten' = found
  /\ SyncReturns
  /\ UNCHANGED <<file, loaded, unloaded>>

WriteFails ==
  /\ pc = "read" /\ todo = {}
  /\ found # lastWritten
  /\ SyncReturns
  /\ UNCHANGED <<lastWritten, file, loaded, unloaded>>

Reload ==
  /\ pc = "reload"
  /\ loaded' = file
  /\ unloaded' = FALSE
  /\ SyncReturns
  /\ UNCHANGED <<lastWritten, file>>

(* The command fails, is not there, or is given up after reloadTimeout, by
   which time Nginx may have followed it or not. *)
ReloadFails ==
  /\ pc = "reload"
  /\ loaded' \in {loaded, file}
  /\ unloaded' = TRUE
  /\ SyncReturns
  /\ UNCHANGED <<lastWritten, file>>

(* What the loop does next when nothing fails. *)
Proceed ==
  \/ ScanKeys
  \/ \E p \in Pods : ReadPod(p)
  \/ SkipUnchanged
  \/ WriteConfig
  \/ Reload

(***************************************************************************)
(* The surroundings.                                                       *)
(***************************************************************************)

(* The schedulers, agents and controllers write the pods' records. *)
PodChanges(p) ==
  /\ pods' \in {[pods EXCEPT ![p] = s] : s \in Statuses \ {pods[p]}}
  /\ UNCHANGED <<watching, loopVars, file, loaded, unloaded>>

(* Somebody else restarts or reloads Nginx, at any moment. *)
NginxRestarts ==
  /\ file # Nothing
  /\ loaded' = file
  /\ unloaded' = FALSE
  /\ UNCHANGED <<pods, watching, loopVars, file>>

(* cmd/api-server dies and starts again; the file stays. *)
ControlPlaneRestarts ==
  /\ pc' = "boot"
  /\ watching' = FALSE
  /\ changed' = FALSE
  /\ debounce' = FALSE
  /\ todo' = {}
  /\ found' = {}
  /\ lastWritten' = Nothing
  /\ UNCHANGED <<pods, file, loaded, unloaded>>

Init ==
  /\ pods = [p \in Pods |-> "none"]
  /\ watching = FALSE
  /\ changed = FALSE
  /\ debounce = FALSE
  /\ pc = "boot"
  /\ todo = {}
  /\ found = {}
  /\ lastWritten = Nothing
  /\ file = Nothing
  /\ loaded = Nothing
  /\ unloaded = FALSE

Next ==
  \/ Subscribe
  \/ SubscriptionCloses
  \/ ReceiveEvent
  \/ TakeChange
  \/ DebounceFires
  \/ Resync
  \/ Proceed
  \/ ScanFails
  \/ WriteFails
  \/ ReloadFails
  \/ \E p \in Pods : ReadFails(p) \/ PodChanges(p)
  \/ NginxRestarts
  \/ ControlPlaneRestarts

Spec == Init /\ [][Next]_vars

(* The ticker goes off again and again and Sync comes to an end; events, the
   debounce timer and Nginx are not relied upon. *)
Fairness == WF_vars(Resync) /\ WF_vars(Proceed)

FairSpec == Spec /\ Fairness

--------------------------------------------------------------------------------

(* What Sync relies on to leave Nginx alone: a controller that remembers having
   written a configuration remembers the one that is on disk, through failed
   scans, writes and reloads and the restarts in between (lastWritten is "the
   last configuration successfully written"). *)
CacheMatchesFile == lastWritten # Nothing => lastWritten = file

(* Why it may leave Nginx alone: the configuration it remembers is the one that
   Nginx works with, or Sync has yet to ask for the reload, or that was tried in
   vain.  A control plane that died between the write and the reload has
   forgotten the write, so its successor writes and reloads again (Sync). *)
RememberedIsLoaded ==
  lastWritten # Nothing => loaded = lastWritten \/ unloaded \/ pc = "reload"

(* The pods stay as they are, Redis and the disk answer, and the control plane
   stays up. *)
Undisturbed ==
  /\ pods' = pods
  /\ ~ ScanFails /\ ~ WriteFails /\ ~ ControlPlaneRestarts
  /\ \A p \in Pods : ~ ReadFails(p)

(* Once the pods stop changing, the file lists exactly those that serve and
   Nginx routes by it, unless the reload that was due failed: with every event
   lost, any pod skipped by any earlier rebuild, and any write or control plane
   lost before (Run, Sync). *)
RoutesFollow ==
  <>[][Undisturbed]_vars => <>[](file = Serving /\ (loaded = file \/ unloaded))

(* And then Nginx is left alone: a rebuild that gives the same configuration
   writes and reloads nothing, events and resyncs notwithstanding (Sync). *)
ReloadsCease == <>[][Undisturbed]_vars => <>[](pc # "reload")
================================================================================
