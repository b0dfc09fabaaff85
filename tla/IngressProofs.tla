---------------------------- MODULE IngressProofs -----------------------------
(***************************************************************************)
(* What the ingress controller remembers of its own writes is true, for    *)
(* every set of pods and however scans, writes, reloads and processes fail.*)
(***************************************************************************)
EXTENDS Ingress, TLAPS

(* Both facts together, which each other's steps rest on: a skipped rebuild
   leaves Nginx with what was remembered, a reload loads what is on disk. *)
Remembers == CacheMatchesFile /\ RememberedIsLoaded

(* The steps that touch neither the files nor the memory and go nowhere from a
   pending reload. *)
Inert ==
  /\ UNCHANGED <<lastWritten, file, loaded, unloaded>>
  /\ pc # "reload" \/ pc' = pc

LEMMA InertRemembers ==
  ASSUME Remembers, Inert
  PROVE  Remembers'
  BY DEF Remembers, Inert, CacheMatchesFile, RememberedIsLoaded

(* watch, and Run's select. *)
LEMMA WatchInert ==
  ASSUME \/ Subscribe \/ SubscriptionCloses \/ ReceiveEvent
         \/ TakeChange \/ DebounceFires \/ Resync
  PROVE  Inert
  BY DEF Subscribe, SubscriptionCloses, ReceiveEvent, TakeChange, DebounceFires,
         Resync, Inert, loopVars

(* Sync up to the comparison, and where it ends without a write. *)
LEMMA ScanInert ==
  ASSUME \/ ScanKeys \/ ScanFails \/ SkipUnchanged \/ WriteFails
         \/ \E p \in Pods : ReadPod(p) \/ ReadFails(p)
  PROVE  Inert
  BY DEF ScanKeys, ScanFails, SkipUnchanged, WriteFails, ReadPod, ReadFails, Inert

(* The write and the two outcomes of the reload. *)
LEMMA WriteRemembers ==
  ASSUME Remembers, WriteConfig \/ Reload \/ ReloadFails
  PROVE  Remembers'
  <1>1. CASE WriteConfig
    BY <1>1 DEF WriteConfig, Remembers, CacheMatchesFile, RememberedIsLoaded
  <1>2. CASE Reload
    BY <1>2 DEF Reload, Remembers, CacheMatchesFile, RememberedIsLoaded
  <1>3. CASE ReloadFails
    BY <1>3 DEF ReloadFails, Remembers, CacheMatchesFile, RememberedIsLoaded
  <1> QED
    BY <1>1, <1>2, <1>3

(* The records, Nginx and the control plane change on their own. *)
LEMMA SurroundingsRemember ==
  ASSUME Remembers, \/ \E p \in Pods : PodChanges(p)
                    \/ NginxRestarts \/ ControlPlaneRestarts
  PROVE  Remembers'
  <1>1. CASE \E p \in Pods : PodChanges(p)
    BY <1>1, InertRemembers DEF PodChanges, Inert, loopVars
  <1>2. CASE NginxRestarts
    BY <1>2 DEF NginxRestarts, Remembers, CacheMatchesFile, RememberedIsLoaded,
                loopVars
  <1>3. CASE ControlPlaneRestarts
    BY <1>3 DEF ControlPlaneRestarts, Remembers, CacheMatchesFile,
                RememberedIsLoaded
  <1> QED
    BY <1>1, <1>2, <1>3

LEMMA RemembersStep ==
  ASSUME Remembers, [Next]_vars
  PROVE  Remembers'
  <1>1. CASE \/ Subscribe \/ SubscriptionCloses \/ ReceiveEvent
             \/ TakeChange \/ DebounceFires \/ Resync
    BY <1>1, WatchInert, InertRemembers
  <1>2. CASE \/ ScanKeys \/ ScanFails \/ SkipUnchanged \/ WriteFails
             \/ \E p \in Pods : ReadPod(p) \/ ReadFails(p)
    BY <1>2, ScanInert, InertRemembers
  <1>3. CASE WriteConfig \/ Reload \/ ReloadFails
    BY <1>3, WriteRemembers
  <1>4. CASE \/ \E p \in Pods : PodChanges(p)
             \/ NginxRestarts \/ ControlPlaneRestarts
    BY <1>4, SurroundingsRemember
  <1>5. CASE UNCHANGED vars
    BY <1>5, InertRemembers DEF Inert, vars, loopVars
  <1> QED
    BY <1>1, <1>2, <1>3, <1>4, <1>5 DEF Next, Proceed

LEMMA RemembersInit ==
  ASSUME Init
  PROVE  Remembers
  BY DEF Init, Remembers, CacheMatchesFile, RememberedIsLoaded

(* For any pods: a configuration the controller remembers having written is the
   one on disk, whatever failed or restarted since (Sync). *)
THEOREM CacheCorrect == Spec => []CacheMatchesFile
  <1>1. Remembers => CacheMatchesFile
    BY DEF Remembers
  <1> QED
    BY <1>1, RemembersInit, RemembersStep, PTL DEF Spec

(* For any pods: a rebuild that is skipped leaves Nginx with the configuration
   it gave, unless the reload is due or failed (Sync). *)
THEOREM SkippingIsSafe == Spec => []RememberedIsLoaded
  <1>1. Remembers => RememberedIsLoaded
    BY DEF Remembers
  <1> QED
    BY <1>1, RemembersInit, RemembersStep, PTL DEF Spec
===============================================================================
