------------------------------ MODULE Deployments ------------------------------
(***************************************************************************)
(* The record of one deployment and its writers: the handlers of the API   *)
(* server, each a read followed by a write (internal/api/store.go), and    *)
(* the autoscaler, one script (internal/controller/autoscale.go).          *)
(*                                                                         *)
(* last_scale_up_at and last_scale_down_at are kept as the time since.     *)
(* The telemetry lists are reduced to the average the script takes of      *)
(* them.  Nothing deletes a deployment.  The event that every writer       *)
(* publishes when it is done changes nothing that is stored.               *)
(***************************************************************************)
EXTENDS Integers

CONSTANTS
  Requests,      \* handlers of POST /deployments and of scale requests
  Limit,         \* maxReplicaCount, and the bound on what is asked for
  Targets,       \* values of target_cpu_percentage
  Loads,         \* averages of the telemetry, in the same unit
  UpCooldown,    \* AutoscaleConfig.ScaleUpCooldown
  DownCooldown   \* AutoscaleConfig.ScaleDownCooldown

ASSUME DeploymentsAssumption ==
  /\ Limit \in Nat \ {0}
  /\ Targets \subseteq Nat \ {0}
  /\ Loads \subseteq Nat
  /\ UpCooldown \in Nat /\ DownCooldown \in Nat

VARIABLES
  dep,      \* deployment:<name>
  request   \* the handlers' local variables

vars == <<dep, request>>

(* Ages are told apart up to the longer cooldown. *)
LongAgo == IF UpCooldown < DownCooldown THEN DownCooldown ELSE UpCooldown

(* No such field in the record. *)
Never == LongAgo + 1

Ages == 0 .. Never

Deployment ==
  [ exists : BOOLEAN, min : 1 .. Limit, max : 1 .. Limit, target : Targets \cup {0},
    desired : 0 .. Limit, sinceUp : Ages, sinceDown : Ages ]

Absent ==
  [ exists |-> FALSE, min |-> 1, max |-> 1, target |-> 0,
    desired |-> 0, sinceUp |-> Never, sinceDown |-> Never ]

(* What Validate lets through. *)
ValidSpecs ==
  {s \in [min : 1 .. Limit, max : 1 .. Limit, target : Targets] : s.min <= s.max}

NoSpec == [min |-> 1, max |-> 1, target |-> 0]

RequestStates ==
  [ pc : {"idle", "apply", "scale"},
    spec : ValidSpecs \cup {NoSpec},  \* of the apply
    desired : 0 .. Limit + 1,         \* of the scale
    read : Deployment ]               \* what Get returned

Idle == [pc |-> "idle", spec |-> NoSpec, desired |-> 0, read |-> Absent]

Clamp(v, lo, hi) == IF v < lo THEN lo ELSE IF v > hi THEN hi ELSE v

(***************************************************************************)
(* The API server.                                                         *)
(***************************************************************************)

(* handleCreateDeployment: Validate, then Apply reads the record. *)
BeginApply(r) ==
  /\ request[r].pc = "idle"
  /\ \E s \in ValidSpecs :
       request' = [request EXCEPT ![r] = [Idle EXCEPT !.pc = "apply", !.spec = s, !.read = dep]]
  /\ UNCHANGED dep

(* Mutant of Applied: the desired count of an existing deployment is kept as
   it is. *)
AppliedUnclamped(s, read, d) ==
  [ exists |-> TRUE, min |-> s.min, max |-> s.max, target |-> s.target,
    desired |-> IF read.exists THEN read.desired ELSE s.min,
    sinceUp |-> IF read.sinceUp = Never THEN d.sinceUp ELSE read.sinceUp,
    sinceDown |-> IF read.sinceDown = Never THEN d.sinceDown ELSE read.sinceDown ]

(* The record d after Apply's HSET.  DeploymentToMap leaves out a timestamp that
   was not there, so the field keeps what it has. *)
Applied(s, read, d) ==
  [ exists |-> TRUE, min |-> s.min, max |-> s.max, target |-> s.target,
    desired |-> IF read.exists THEN Clamp(read.desired, s.min, s.max) ELSE s.min,
    sinceUp |-> IF read.sinceUp = Never THEN d.sinceUp ELSE read.sinceUp,
    sinceDown |-> IF read.sinceDown = Never THEN d.sinceDown ELSE read.sinceDown ]

FinishApply(r) ==
  /\ request[r].pc = "apply"
  /\ dep' = Applied(request[r].spec, request[r].read, dep)
  /\ request' = [request EXCEPT ![r] = Idle]

(* handleScaleDeployment: SetDesiredReplicas reads the record, or there is
   none and the answer is 404. *)
BeginScale(r) ==
  /\ request[r].pc = "idle"
  /\ dep.exists
  /\ \E n \in 0 .. Limit + 1 :
       request' = [request EXCEPT ![r] =
                     [Idle EXCEPT !.pc = "scale", !.desired = n, !.read = dep]]
  /\ UNCHANGED dep

FinishScale(r) ==
  /\ request[r].pc = "scale"
  /\ dep' = [dep EXCEPT !.desired =
               Clamp(request[r].desired, request[r].read.min, request[r].read.max)]
  /\ request' = [request EXCEPT ![r] = Idle]

(* The write fails and the handler answers 500. *)
RequestFails(r) ==
  /\ request[r].pc # "idle"
  /\ request' = [request EXCEPT ![r] = Idle]
  /\ UNCHANGED dep

RequestStep(r) ==
  \/ BeginApply(r)
  \/ FinishApply(r)
  \/ BeginScale(r)
  \/ FinishScale(r)
  \/ RequestFails(r)

(***************************************************************************)
(* The autoscaler.                                                         *)
(***************************************************************************)

CeilDiv(a, b) == (a + b - 1) \div b

(* Mutant of Wanted: the lower bound is forgotten. *)
WantedUnfloored(d, observed) ==
  Clamp(CeilDiv(d.desired * observed, d.target), 0, d.max)

(* Mutant of Wanted: the upper bound is forgotten. *)
WantedUncapped(d, observed) ==
  LET ratio == CeilDiv(d.desired * observed, d.target)
  IN  IF ratio < d.min THEN d.min ELSE ratio

(* The replicas that would bring the observed average to the target. *)
Wanted(d, observed) == Clamp(CeilDiv(d.desired * observed, d.target), d.min, d.max)

(* autoscaleScript, when some pod has telemetry: what it leaves in d. *)
Autoscaled(d, observed) ==
  LET wanted == Wanted(d, observed)
  IN  IF wanted > d.desired /\ d.sinceUp >= UpCooldown
      THEN [d EXCEPT !.desired = wanted, !.sinceUp = 0]
      ELSE IF wanted < d.desired /\ d.sinceUp >= DownCooldown
                                 /\ d.sinceDown >= DownCooldown
           THEN [d EXCEPT !.desired = wanted, !.sinceDown = 0]
           ELSE d

(* Without a deployment, a target or telemetry it does nothing. *)
Evaluate(observed) ==
  /\ dep.exists
  /\ dep.target > 0
  /\ dep' = Autoscaled(dep, observed)
  /\ UNCHANGED request

(* A unit of time passes, for the timestamps the handlers hold as well. *)
NextAge(a) == IF a < LongAgo THEN a + 1 ELSE a

Older(d) == [d EXCEPT !.sinceUp = NextAge(@), !.sinceDown = NextAge(@)]

Tick ==
  /\ dep' = Older(dep)
  /\ request' = [r \in Requests |-> [request[r] EXCEPT !.read = Older(@)]]

Init ==
  /\ dep = Absent
  /\ request = [r \in Requests |-> Idle]

Next ==
  \/ \E r \in Requests : RequestStep(r)
  \/ \E observed \in Loads : Evaluate(observed)
  \/ Tick

Spec == Init /\ [][Next]_vars

-------------------------------------------------------------------------------

(* Everything keeps its type; in particular the desired count stays within what
   the API admits, whoever computes it (Apply, SetDesiredReplicas and
   autoscaleScript). *)
TypeOK ==
  /\ dep \in Deployment
  /\ request \in [Requests -> RequestStates]

WithinBounds == dep.exists => dep.min <= dep.desired /\ dep.desired <= dep.max

(* Whatever edits, scale requests and the autoscaler do to each other, the desired
   count leaves the bounds in one way only: a scale request writes a count
   clamped to bounds that have changed since it read them (Apply,
   SetDesiredReplicas and autoscaleScript all clamp). *)
OnlyStaleScaleLeavesBounds ==
  [][WithinBounds /\ ~ WithinBounds' =>
       \E r \in Requests :
         /\ FinishScale(r)
         /\ \/ request[r].read.min # dep.min
            \/ request[r].read.max # dep.max]_vars

(* Time passes, and the autoscaler runs on a timer; it cannot be that no pod has
   telemetry whenever it does. *)
Fairness ==
  /\ WF_vars(Tick)
  /\ SF_vars(\E observed \in Loads : Evaluate(observed))

FairSpec == Spec /\ Fairness

(* However requests raced, once they end the autoscaler brings the desired count
   back into the bounds, cooldowns notwithstanding (autoscaleScript). *)
ReturnsToBounds ==
  <>[](\A r \in Requests : request[r].pc = "idle") => <>[]WithinBounds
===============================================================================
