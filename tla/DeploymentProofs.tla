--------------------------- MODULE DeploymentProofs ---------------------------
(***************************************************************************)
(* Type correctness of Deployments, and the only way in which the desired  *)
(* count can leave the bounds.                                             *)
(***************************************************************************)
EXTENDS Deployments, TLAPS

(* Whatever is clamped ends up between the bounds (clamp). *)
LEMMA ClampBounds ==
  ASSUME NEW v \in Int, NEW lo \in Int, NEW hi \in Int, lo <= hi
  PROVE  /\ Clamp(v, lo, hi) \in Int
         /\ lo <= Clamp(v, lo, hi) /\ Clamp(v, lo, hi) <= hi
  BY DEF Clamp

(* Even if the bounds are the wrong way round, clamp stays below their maximum. *)
LEMMA ClampType ==
  ASSUME NEW v \in Int, NEW lo \in 1 .. Limit, NEW hi \in 1 .. Limit
  PROVE  Clamp(v, lo, hi) \in 0 .. Limit
  BY DeploymentsAssumption DEF Clamp

(* An age stays an age as time passes. *)
LEMMA OlderType ==
  ASSUME NEW d \in Deployment
  PROVE  /\ Older(d) \in Deployment
         /\ Older(d).exists = d.exists /\ Older(d).desired = d.desired
         /\ Older(d).min = d.min /\ Older(d).max = d.max
  <1>1. LongAgo \in Nat
    BY DeploymentsAssumption DEF LongAgo
  <1>2. \A a \in Ages : NextAge(a) \in Ages
    BY <1>1 DEF NextAge, Ages, Never
  <1> QED
    BY <1>2 DEF Older, Deployment

(* The ratio the script computes is a number (autoscaleScript). *)
LEMMA RatioType ==
  ASSUME NEW d \in Deployment, d.target > 0, NEW observed \in Nat
  PROVE  CeilDiv(d.desired * observed, d.target) \in Int
  <1>1. d.target \in Nat \ {0}
    <2>1. d.target \in Targets \cup {0}
      BY DEF Deployment
    <2>2. d.target # 0
      OBVIOUS
    <2> QED
      BY <2>1, <2>2, DeploymentsAssumption
  <1>2. d.desired \in Nat
    BY DeploymentsAssumption DEF Deployment
  <1>3. d.desired * observed \in Nat
    BY <1>2
  <1>4. \A a \in Nat, b \in Nat \ {0} : CeilDiv(a, b) \in Int
    BY DEF CeilDiv
  <1> QED
    BY <1>1, <1>3, <1>4

(* The script leaves a well formed record and does not touch the bounds; if they
   are the right way round the count stays where it is or ends up between them. *)
LEMMA AutoscaledType ==
  ASSUME NEW d \in Deployment, d.target > 0, NEW observed \in Nat
  PROVE  /\ Autoscaled(d, observed) \in Deployment
         /\ Autoscaled(d, observed).exists = d.exists
         /\ Autoscaled(d, observed).min = d.min /\ Autoscaled(d, observed).max = d.max
         /\ d.min <= d.max =>
              \/ Autoscaled(d, observed).desired = d.desired
              \/ /\ d.min <= Autoscaled(d, observed).desired
                 /\ Autoscaled(d, observed).desired <= d.max
  <1> DEFINE w == Wanted(d, observed)
  <1>1. d.min \in 1 .. Limit /\ d.max \in 1 .. Limit
    BY DEF Deployment
  <1>2. w \in 0 .. Limit
    BY <1>1, RatioType, ClampType DEF Wanted
  <1>3. d.min <= d.max => d.min <= w /\ w <= d.max
    <2> DEFINE ratio == CeilDiv(d.desired * observed, d.target)
    <2>1. ratio \in Int
      BY RatioType
    <2>2. d.min \in Int /\ d.max \in Int
      BY <1>1
    <2> HIDE DEF ratio
    <2>3. d.min <= d.max => d.min <= Clamp(ratio, d.min, d.max)
                            /\ Clamp(ratio, d.min, d.max) <= d.max
      BY <2>1, <2>2, ClampBounds
    <2> QED
      BY <2>3 DEF Wanted, ratio
  <1>4. 0 \in Ages
    BY DeploymentsAssumption DEF Ages, LongAgo, Never
  <1> HIDE DEF w
  <1>5. Autoscaled(d, observed) \in
          {d, [d EXCEPT !.desired = w, !.sinceUp = 0],
              [d EXCEPT !.desired = w, !.sinceDown = 0]}
    BY DEF Autoscaled, w
  <1> QED
    BY <1>2, <1>3, <1>4, <1>5 DEF Deployment

(* Apply writes a well formed record. *)
LEMMA AppliedType ==
  ASSUME NEW s \in ValidSpecs \cup {NoSpec}, NEW read \in Deployment, NEW d \in Deployment
  PROVE  /\ Applied(s, read, d) \in Deployment
         /\ Applied(s, read, d).min = s.min /\ Applied(s, read, d).max = s.max
         /\ s.min <= s.max /\ s.min <= Applied(s, read, d).desired
         /\ Applied(s, read, d).desired <= s.max
  <1>1. /\ s.min \in 1 .. Limit /\ s.max \in 1 .. Limit /\ s.min <= s.max
        /\ s.target \in Targets \cup {0}
    BY DeploymentsAssumption DEF ValidSpecs, NoSpec
  <1>2. /\ read.desired \in Int /\ read.sinceUp \in Ages /\ read.sinceDown \in Ages
        /\ d.sinceUp \in Ages /\ d.sinceDown \in Ages
    BY DeploymentsAssumption DEF Deployment
  <1>3. /\ Clamp(read.desired, s.min, s.max) \in 0 .. Limit
        /\ s.min <= Clamp(read.desired, s.min, s.max)
        /\ Clamp(read.desired, s.min, s.max) <= s.max
    <2>1. s.min \in Int /\ s.max \in Int
      BY <1>1
    <2>2. Clamp(read.desired, s.min, s.max) \in 0 .. Limit
      BY <1>1, <1>2, ClampType
    <2> QED
      BY <1>1, <1>2, <2>1, <2>2, ClampBounds
  <1> QED
    BY <1>1, <1>2, <1>3, DeploymentsAssumption DEF Applied, Deployment

(* The record of no deployment is well formed. *)
LEMMA AbsentType == Absent \in Deployment
  BY DeploymentsAssumption DEF Absent, Deployment, Ages, LongAgo, Never

-------------------------------------------------------------------------------

(* Every step keeps the types. *)
LEMMA TypeInductive == TypeOK /\ [Next]_vars => TypeOK'
  <1> SUFFICES ASSUME TypeOK, [Next]_vars PROVE TypeOK'
    OBVIOUS
  <1>0. Idle \in RequestStates
    BY AbsentType, DeploymentsAssumption DEF Idle, RequestStates, NoSpec
  <1>1. ASSUME NEW r \in Requests, BeginApply(r) PROVE TypeOK'
    <2>1. PICK s \in ValidSpecs : request' =
            [request EXCEPT ![r] = [Idle EXCEPT !.pc = "apply", !.spec = s, !.read = dep]]
      BY <1>1 DEF BeginApply
    <2>2. [Idle EXCEPT !.pc = "apply", !.spec = s, !.read = dep] \in RequestStates
      BY <1>0 DEF TypeOK, RequestStates
    <2> QED
      BY <1>1, <2>1, <2>2 DEF BeginApply, TypeOK
  <1>2. ASSUME NEW r \in Requests, FinishApply(r) PROVE TypeOK'
    <2>1. /\ request[r].spec \in ValidSpecs \cup {NoSpec}
          /\ request[r].read \in Deployment /\ dep \in Deployment
      BY DEF TypeOK, RequestStates
    <2> QED
      BY <1>0, <1>2, <2>1, AppliedType DEF FinishApply, TypeOK
  <1>3. ASSUME NEW r \in Requests, BeginScale(r) PROVE TypeOK'
    <2>1. PICK n \in 0 .. Limit + 1 : request' =
            [request EXCEPT ![r] = [Idle EXCEPT !.pc = "scale", !.desired = n, !.read = dep]]
      BY <1>3 DEF BeginScale
    <2>2. [Idle EXCEPT !.pc = "scale", !.desired = n, !.read = dep] \in RequestStates
      BY <1>0 DEF TypeOK, RequestStates
    <2> QED
      BY <1>3, <2>1, <2>2 DEF BeginScale, TypeOK
  <1>4. ASSUME NEW r \in Requests, FinishScale(r) PROVE TypeOK'
    <2>1. /\ request[r].desired \in Int /\ request[r].read.min \in 1 .. Limit
          /\ request[r].read.max \in 1 .. Limit
      BY DeploymentsAssumption DEF TypeOK, RequestStates, Deployment
    <2>2. dep' \in Deployment
      BY <1>4, <2>1, ClampType DEF FinishScale, TypeOK, Deployment
    <2> QED
      BY <1>0, <1>4, <2>2 DEF FinishScale, TypeOK
  <1>5. ASSUME NEW r \in Requests, RequestFails(r) PROVE TypeOK'
    BY <1>0, <1>5 DEF RequestFails, TypeOK
  <1>6. ASSUME NEW observed \in Loads, Evaluate(observed) PROVE TypeOK'
    <2>1. dep \in Deployment /\ dep.target > 0 /\ observed \in Nat
      BY <1>6, DeploymentsAssumption DEF Evaluate, TypeOK
    <2>2. Autoscaled(dep, observed) \in Deployment
      BY <2>1, AutoscaledType
    <2> QED
      BY <1>6, <2>2 DEF Evaluate, TypeOK
  <1>7. CASE Tick
    <2>1. dep' \in Deployment
      BY <1>7, OlderType DEF Tick, TypeOK
    <2>2. ASSUME NEW r \in Requests PROVE request'[r] \in RequestStates
      <3>1. Older(request[r].read) \in Deployment
        BY OlderType DEF TypeOK, RequestStates
      <3>2. request'[r] = [request[r] EXCEPT !.read = Older(request[r].read)]
        BY <1>7 DEF Tick, TypeOK, RequestStates
      <3> QED
        BY <3>1, <3>2 DEF TypeOK, RequestStates
    <2> QED
      BY <1>7, <2>1, <2>2 DEF Tick, TypeOK
  <1>8. CASE UNCHANGED vars
    BY <1>8 DEF vars, TypeOK
  <1> QED
    BY <1>1, <1>2, <1>3, <1>4, <1>5, <1>6, <1>7, <1>8 DEF Next, RequestStep

(* In every reachable state the deployment's record and what the handlers hold
   of it are well formed; in particular no race of requests and autoscaler
   makes the desired count negative or more than the API's limit. *)
THEOREM DeploymentTypeCorrect == Spec => []TypeOK
  <1>1. Init => TypeOK
    BY AbsentType, DeploymentsAssumption
    DEF Init, TypeOK, RequestStates, Idle, NoSpec
  <1> QED
    BY <1>1, TypeInductive, PTL DEF Spec

-------------------------------------------------------------------------------

(* The bounds on record are the right way round: Validate sees to it, and they
   are only ever written together. *)
Ordered == dep.min <= dep.max

(* Apply writes a count within the bounds it writes. *)
LEMMA ApplyBounds ==
  ASSUME TypeOK, NEW r \in Requests, FinishApply(r)
  PROVE  Ordered' /\ WithinBounds'
  <1>1. /\ request[r].spec \in ValidSpecs \cup {NoSpec}
        /\ request[r].read \in Deployment /\ dep \in Deployment
    BY DEF TypeOK, RequestStates
  <1> QED
    BY <1>1, AppliedType DEF FinishApply, Ordered, WithinBounds

(* A scale request leaves the bounds alone, and keeps them if they are still
   those it read. *)
LEMMA ScaleBounds ==
  ASSUME TypeOK, Ordered, NEW r \in Requests, FinishScale(r)
  PROVE  /\ Ordered'
         /\ request[r].read.min = dep.min /\ request[r].read.max = dep.max => WithinBounds'
  <1> DEFINE n == Clamp(request[r].desired, request[r].read.min, request[r].read.max)
  <1>1. dep' = [dep EXCEPT !.desired = n]
    BY DEF FinishScale
  <1> HIDE DEF n
  <1>2. dep'.desired = n /\ dep'.min = dep.min /\ dep'.max = dep.max
    BY <1>1 DEF TypeOK, Deployment
  <1>3. ASSUME request[r].read.min = dep.min, request[r].read.max = dep.max
        PROVE  dep.min <= n /\ n <= dep.max
    <2>1. /\ request[r].desired \in Int /\ dep.min \in Int /\ dep.max \in Int
          /\ dep.min <= dep.max
      BY DeploymentsAssumption DEF TypeOK, RequestStates, Deployment, Ordered
    <2>2. n = Clamp(request[r].desired, dep.min, dep.max)
      BY <1>3 DEF n
    <2> QED
      BY <2>1, <2>2, ClampBounds
  <1> QED
    BY <1>2, <1>3 DEF Ordered, WithinBounds

(* The autoscaler's script never takes the count out of the bounds. *)
LEMMA EvaluateBounds ==
  ASSUME TypeOK, Ordered, NEW observed \in Loads, Evaluate(observed)
  PROVE  Ordered' /\ (WithinBounds => WithinBounds')
  <1>1. dep \in Deployment /\ dep.target > 0 /\ observed \in Nat
    BY DeploymentsAssumption DEF Evaluate, TypeOK
  <1>2. /\ dep'.exists = dep.exists /\ dep'.min = dep.min /\ dep'.max = dep.max
        /\ \/ dep'.desired = dep.desired
           \/ dep.min <= dep'.desired /\ dep'.desired <= dep.max
    BY <1>1, AutoscaledType DEF Evaluate, Ordered
  <1> QED
    BY <1>2 DEF Ordered, WithinBounds

(* The steps that do not write a count do not move it against the bounds. *)
LEMMA QuietBounds ==
  ASSUME TypeOK, Ordered, Tick \/ UNCHANGED dep
  PROVE  Ordered' /\ (WithinBounds => WithinBounds')
  <1>1. /\ dep'.exists = dep.exists /\ dep'.desired = dep.desired
        /\ dep'.min = dep.min /\ dep'.max = dep.max
    BY OlderType DEF Tick, TypeOK
  <1> QED
    BY <1>1 DEF Ordered, WithinBounds

(* For any number of handlers, any limit, telemetry and cooldowns: the desired
   count leaves the bounds only when a scale request writes a count clamped to
   bounds that have changed since it read them. *)
THEOREM BoundsLeftOnlyByStaleScale == Spec => OnlyStaleScaleLeavesBounds
  <1> DEFINE Stale(r) == /\ FinishScale(r)
                         /\ \/ request[r].read.min # dep.min
                            \/ request[r].read.max # dep.max
             Allowed == WithinBounds /\ ~ WithinBounds' => \E r \in Requests : Stale(r)
  <1>1. Init => TypeOK
    BY AbsentType, DeploymentsAssumption DEF Init, TypeOK, RequestStates, Idle, NoSpec
  <1>3. Init => Ordered
    BY DEF Init, Ordered, Absent
  <1>2. TypeOK /\ Ordered /\ [Next]_vars => Ordered' /\ [Allowed]_vars
    <2> SUFFICES ASSUME TypeOK, Ordered, [Next]_vars PROVE Ordered' /\ Allowed
      OBVIOUS
    <2>1. ASSUME NEW r \in Requests, BeginApply(r) \/ BeginScale(r) \/ RequestFails(r)
          PROVE  Ordered' /\ Allowed
      BY <2>1, QuietBounds DEF BeginApply, BeginScale, RequestFails
    <2>2. ASSUME NEW r \in Requests, FinishApply(r) PROVE Ordered' /\ Allowed
      BY <2>2, ApplyBounds
    <2>3. ASSUME NEW r \in Requests, FinishScale(r) PROVE Ordered' /\ Allowed
      BY <2>3, ScaleBounds
    <2>4. ASSUME NEW observed \in Loads, Evaluate(observed) PROVE Ordered' /\ Allowed
      BY <2>4, EvaluateBounds
    <2>5. CASE Tick \/ UNCHANGED vars
      BY <2>5, QuietBounds DEF vars
    <2> QED
      BY <2>1, <2>2, <2>3, <2>4, <2>5 DEF Next, RequestStep
  <1> QED
    BY <1>1, <1>2, <1>3, TypeInductive, PTL DEF Spec, OnlyStaleScaleLeavesBounds
===============================================================================
