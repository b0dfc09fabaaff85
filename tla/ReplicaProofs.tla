----------------------------- MODULE ReplicaProofs -----------------------------
(***************************************************************************)
(* The replica controller and its callers, for any number of pods, any     *)
(* desired count and any number of goroutines that reconcile at the same   *)
(* time: type correctness and the bound on the replicas they create        *)
(* together.                                                               *)
(***************************************************************************)
EXTENDS Replicas, Functions, FiniteSetTheorems, TLAPS

(***************************************************************************)
(* The inductive invariant.                                                *)
(***************************************************************************)

(* Who is creating has something left to create. *)
CreatorsOK == \A c \in Callers : caller[c].pc = "create" => caller[c].left > 0

(* A live pod that was never counted out. *)
Standing(p) == IsLive(pods[p]) /\ p \notin revived

(* Those of them that c created, according to creator. *)
Created(creator, c) == {p \in Pods : Standing(p) /\ creator[p] = c}

(* Each caller, in all the calls it ever made, has created or is about to create
   no more than one full set of the pods that stand now: when it counts, it sees
   its own. *)
WithinShare(creator) ==
  \A c \in Callers :
    /\ caller[c].pc = "pods" => Created(creator, c) \subseteq caller[c].todo
    /\ Cardinality(Created(creator, c)) + caller[c].left <= MaxDesired

(* Nothing in the code remembers who created a pod; it is enough that the pods
   can be shared out among the callers. *)
SharesOK == \E creator \in [Pods -> Callers] : WithinShare(creator)

IInv == TypeOK /\ CreatorsOK /\ SharesOK

--------------------------------------------------------------------------------
(***************************************************************************)
(* Counting.                                                               *)
(***************************************************************************)

(* A set no larger than n can be numbered. *)
LEMMA Numbering ==
  ASSUME NEW F, IsFiniteSet(F), NEW n \in Nat, Cardinality(F) <= n
  PROVE  \E g \in [F -> 1 .. n] : \A s, u \in F : g[s] = g[u] => s = u
<1> DEFINE k == Cardinality(F)
<1>1. k \in Nat /\ ExistsBijection(1 .. k, F)
  BY FS_CardinalityType
<1>2. PICK b : b \in Bijection(1 .. k, F)
  BY <1>1 DEF ExistsBijection
<1>3. b \in [1 .. k -> F] /\ \A s \in F : \E i \in 1 .. k : b[i] = s
  BY <1>2 DEF Bijection, Injection, Surjection
<1> DEFINE g == [s \in F |-> CHOOSE i \in 1 .. k : b[i] = s]
<1>4. \A s \in F : g[s] \in 1 .. k /\ b[g[s]] = s
  BY <1>3
<1>5. \A i \in 1 .. k : i \in 1 .. n
  BY <1>1
<1> HIDE DEF k
<1>6. g \in [F -> 1 .. n]
  BY <1>4, <1>5
<1>7. \A s, u \in F : g[s] = g[u] => s = u
  BY <1>4
<1> HIDE DEF g
<1> QED
  BY <1>6, <1>7

(* If f sends to each element t of T at most n - w[t] elements of S, then S and
   the w[t] together are at most n for each of T's elements. *)
LEMMA Fibres ==
  ASSUME NEW S, IsFiniteSet(S), NEW T, IsFiniteSet(T), NEW n \in Nat,
         NEW f \in [S -> T], NEW w \in [T -> 0 .. n],
         \A t \in T : Cardinality({s \in S : f[s] = t}) + w[t] <= n
  PROVE  Cardinality(S) + Cardinality({x \in T \X (1 .. n) : x[2] <= w[x[1]]})
           <= Cardinality(T) * n
<1> DEFINE F(t) == {s \in S : f[s] = t}
           Numbers(t, g) == g \in [F(t) -> 1 .. n - w[t]]
                            /\ \A s, u \in F(t) : g[s] = g[u] => s = u
           G(t) == CHOOSE g : Numbers(t, g)
           h == [s \in S |-> <<f[s], w[f[s]] + G(f[s])[s]>>]
           A == T \X (1 .. n)
           U == {x \in T \X (1 .. n) : x[2] <= w[x[1]]}
<1>1. ASSUME NEW t \in T PROVE Numbers(t, G(t))
  <2>1. IsFiniteSet(F(t)) /\ Cardinality(F(t)) \in Nat
    BY FS_Subset, FS_CardinalityType
  <2>2. n - w[t] \in Nat /\ Cardinality(F(t)) <= n - w[t]
    BY <2>1
  <2> HIDE DEF F
  <2>3. \E g \in [F(t) -> 1 .. n - w[t]] : \A s, u \in F(t) : g[s] = g[u] => s = u
    BY <2>1, <2>2, Numbering
  <2>4. \E g : Numbers(t, g)
    BY <2>3
  <2> HIDE DEF Numbers
  <2> QED BY <2>4
<1>2. \A s \in S : s \in F(f[s]) /\ f[s] \in T /\ w[f[s]] \in 0 .. n
  OBVIOUS
<1> HIDE DEF G
<1>3. \A s \in S : G(f[s])[s] \in 1 .. n - w[f[s]]
  BY <1>1, <1>2
<1>4. \A s \in S : /\ h[s] = <<f[s], w[f[s]] + G(f[s])[s]>>
                   /\ w[f[s]] + G(f[s])[s] \in 1 .. n
                   /\ ~ (w[f[s]] + G(f[s])[s] <= w[f[s]])
  BY <1>2, <1>3
<1>5. \A s \in S : h[s] \in A \ U
  BY <1>2, <1>4
<1>6. h \in [S -> A \ U]
  BY <1>5
<1>7. ASSUME NEW s \in S, NEW u \in S, h[s] = h[u] PROVE s = u
  <2>1. f[s] = f[u] /\ w[f[s]] + G(f[s])[s] = w[f[s]] + G(f[s])[u]
    BY <1>4, <1>7
  <2>2. G(f[s])[s] = G(f[s])[u]
    BY <1>2, <1>3, <2>1
  <2>3. u \in F(f[s]) /\ s \in F(f[s])
    BY <1>2, <2>1
  <2> QED BY <1>1, <1>2, <2>2, <2>3
<1>8. h \in Injection(S, A \ U)
  BY <1>6, <1>7 DEF Injection, IsInjective
<1>9. IsFiniteSet(1 .. n) /\ Cardinality(1 .. n) = n
  BY FS_Interval
<1>10. IsFiniteSet(A) /\ Cardinality(A) = Cardinality(T) * n
  BY <1>9, FS_Product
<1>11. U \in SUBSET A
  OBVIOUS
<1> HIDE DEF h, A, U
<1>12. /\ IsFiniteSet(A \ U) /\ A \cap U = U
       /\ Cardinality(A \ U) = Cardinality(A) - Cardinality(A \cap U)
  BY <1>10, <1>11, FS_Difference
<1>13. Cardinality(S) <= Cardinality(A \ U)
  BY <1>8, <1>12, FS_Injection
<1>14. /\ Cardinality(S) \in Nat /\ Cardinality(U) \in Nat
       /\ Cardinality(A) \in Nat
  BY <1>10, <1>11, FS_Subset, FS_CardinalityType
<1>15. Cardinality(S) + Cardinality(U) <= Cardinality(A)
  BY <1>12, <1>13, <1>14
<1> QED
  BY <1>10, <1>15 DEF U

--------------------------------------------------------------------------------
(***************************************************************************)
(* Types.                                                                  *)
(***************************************************************************)
LEMMA IdleType ==
  /\ IdleCaller \in CallerStates
  /\ IdleCaller.pc = "idle" /\ IdleCaller.left = 0
  BY DesiredAssumption DEF IdleCaller, CallerStates, Counts

(* What a call goes on with. *)
LEMMA ActingType ==
  ASSUME NEW drop \in SUBSET Pods, NEW k \in Counts, NEW victims \in SUBSET Pods
  PROVE  /\ Acting(drop, k, victims) \in CallerStates
         /\ Acting(drop, k, victims).left = k
         /\ Acting(drop, k, victims).pc = "create" => k > 0
         /\ Acting(drop, k, victims).pc # "pods"
<1> DEFINE c == CASE drop # {} -> "drop"
                  [] drop = {} /\ k > 0 -> "create"
                  [] drop = {} /\ k = 0 /\ victims # {} -> "remove"
                  [] OTHER -> "idle"
<1>1. c \in {"drop", "create", "remove", "idle"} /\ (c = "create" => k > 0)
  <2>1. CASE drop # {}
    BY <2>1
  <2>2. CASE drop = {} /\ k > 0
    BY <2>2
  <2>3. CASE drop = {} /\ k = 0 /\ victims # {}
    BY <2>3
  <2>4. CASE ~ (drop # {}) /\ ~ (drop = {} /\ k > 0) /\ ~ (drop = {} /\ k = 0 /\ victims # {})
    BY <2>4
  <2> QED BY <2>1, <2>2, <2>3, <2>4
<1>2. Acting(drop, k, victims) =
        [IdleCaller EXCEPT !.pc = c, !.drop = drop, !.left = k, !.todo = victims]
  BY DEF Acting
<1> HIDE DEF c
<1>3. Acting(drop, k, victims) =
        [ kind |-> "none", pc |-> c, want |-> Gone, drop |-> drop, left |-> k,
          todo |-> victims ]
  BY <1>2 DEF IdleCaller
<1> QED
  BY <1>1, <1>3 DEF CallerStates

(* What is missing is between nothing and the desired count. *)
LEMMA ShortfallType ==
  ASSUME NEW seen, NEW want \in Counts
  PROVE  /\ Shortfall(seen, want) \in Counts
         /\ \/ Shortfall(seen, want) = 0
            \/ Shortfall(seen, want) + Cardinality(SeenLive(seen)) = want
<1>1. IsFiniteSet(SeenLive(seen))
  BY FS_Subset, PodsAssumption DEF SeenLive
<1>2. Cardinality(SeenLive(seen)) \in Nat
  BY <1>1, FS_CardinalityType
<1> QED
  BY <1>2, DesiredAssumption DEF Shortfall, Counts

(* What a call decides to do. *)
LEMMA DecisionMeans ==
  ASSUME TypeOK, NEW c \in Callers, NEW seen
  PROVE  /\ Decision(c, seen) \in CallerStates
         /\ Decision(c, seen).pc = "create" => Decision(c, seen).left > 0
         /\ Decision(c, seen).pc # "pods"
         /\ \/ Decision(c, seen).left = 0
            \/ Decision(c, seen).left + Cardinality(SeenLive(seen)) \in Counts
<1> DEFINE want == caller[c].want
<1>0. want \in Counts \cup {Gone}
  BY DEF TypeOK, CallerStates
<1>1. /\ SeenLive(seen) \in SUBSET Pods /\ SeenEvicted(seen) \in SUBSET Pods
      /\ SelectVictims(seen, want) \in SUBSET Pods
      /\ {} \in SUBSET Pods /\ 0 \in Counts
  BY DesiredAssumption DEF SeenLive, SeenEvicted, SelectVictims, Counts
<1>2. PICK drop \in SUBSET Pods, victims \in SUBSET Pods, k \in Counts :
        /\ Decision(c, seen) = Acting(drop, k, victims)
        /\ k = 0 \/ (want \in Counts /\ k + Cardinality(SeenLive(seen)) = want)
  <2>1. CASE want = Gone
    <3>1. Decision(c, seen) = Acting({}, 0, SeenLive(seen) \cup SeenEvicted(seen))
      BY <2>1 DEF Decision
    <3> QED BY <1>1, <3>1
  <2>2. CASE want # Gone /\ caller[c].kind = "trigger"
    <3>1. Decision(c, seen) = Acting({}, Shortfall(seen, want), {})
      BY <2>2 DEF Decision
    <3> QED BY <1>0, <1>1, <2>2, <3>1, ShortfallType
  <2>3. CASE want # Gone /\ caller[c].kind # "trigger"
    <3>1. Decision(c, seen) = Acting(SeenEvicted(seen), Shortfall(seen, want),
                                     SelectVictims(seen, want))
      BY <2>3 DEF Decision
    <3> QED BY <1>0, <1>1, <2>3, <3>1, ShortfallType
  <2> QED BY <2>1, <2>2, <2>3
<1> HIDE DEF want
<1> QED
  BY <1>2, ActingType

(* The local variables of one caller change. *)
LEMMA CallerUpdate ==
  ASSUME TypeOK, CreatorsOK, NEW c \in Callers, NEW s \in CallerStates,
         s.pc = "create" => s.left > 0,
         caller' = [caller EXCEPT ![c] = s]
  PROVE  /\ caller' \in [Callers -> CallerStates] /\ CreatorsOK'
         /\ caller'[c] = s /\ \A d \in Callers \ {c} : caller'[d] = caller[d]
  BY DEF TypeOK, CreatorsOK

(* The records of the pods in S are gone, and no pod is live that was not. *)
LEMMA ForgetMeans ==
  ASSUME TypeOK, NEW S, Forget(S)
  PROVE  /\ pods' \in [Pods -> Statuses \cup {None}] /\ stops' \subseteq Pods
         /\ revived' \subseteq Live'
         /\ \A p \in Pods : Standing(p)' => Standing(p)
  BY DEF TypeOK, Forget, IsLive, Standing, Live

(* No record changes. *)
LEMMA SameStanding ==
  ASSUME UNCHANGED <<pods, revived>>
  PROVE  Live' = Live /\ \A p \in Pods : Standing(p)' => Standing(p)
  BY DEF Live, Standing, IsLive

(* A caller ends its call, or goes on in it without counting and creating. *)
Winds(c, s) ==
  /\ s \in CallerStates /\ s.left <= caller[c].left
  /\ s.pc # "pods" /\ (s.pc = "create" => s.left > 0)
  /\ caller' = [caller EXCEPT ![c] = s]

LEMMA CallerLeft ==
  ASSUME TypeOK
  PROVE  \A c \in Callers : /\ caller[c] \in CallerStates
                            /\ caller[c].left \in Counts /\ caller[c].left \in Nat
                            /\ caller[c].left >= 0
                            /\ caller[c].todo \in SUBSET Pods
                            /\ caller[c].drop \in SUBSET Pods
  BY DesiredAssumption DEF TypeOK, CallerStates, Counts

(* The steps of a call other than the listing of the keys, the decision and the
   creation of a pod. *)
LEMMA CallWinds ==
  ASSUME TypeOK, NEW c \in Callers,
         \/ ReadDeployment(c) \/ DropEvicted(c) \/ Unschedulable(c)
         \/ SendStop(c) \/ ForceRemove(c) \/ SkipVictim(c) \/ CallFails(c)
  PROVE  /\ \E s : Winds(c, s)
         /\ dep' = dep
         /\ pods' \in [Pods -> Statuses \cup {None}] /\ stops' \subseteq Pods
         /\ revived' \subseteq Live'
         /\ \A p \in Pods : Standing(p)' => Standing(p)
<1>0. /\ caller[c] \in CallerStates
      /\ caller[c].left \in Counts /\ 0 <= caller[c].left /\ caller[c].left <= caller[c].left
      /\ caller[c].todo \in SUBSET Pods /\ caller[c].drop \in SUBSET Pods
      /\ 0 \in Counts /\ {} \in SUBSET Pods
      /\ pods \in [Pods -> Statuses \cup {None}] /\ stops \subseteq Pods
      /\ revived \subseteq Live
  BY CallerLeft, DesiredAssumption DEF TypeOK, Counts
<1>1. ASSUME caller' = [caller EXCEPT ![c] = IdleCaller] PROVE Winds(c, IdleCaller)
  BY <1>0, <1>1, IdleType DEF Winds
<1>2. ASSUME NEW drop \in SUBSET Pods, NEW k \in Counts, NEW victims \in SUBSET Pods,
             k <= caller[c].left,
             caller' = [caller EXCEPT ![c] = Acting(drop, k, victims)]
      PROVE  Winds(c, Acting(drop, k, victims))
  BY <1>2, ActingType DEF Winds
<1>3. CASE ReadDeployment(c)
  <2>1. dep \in Counts \cup {Gone}
    BY DEF TypeOK
  <2> DEFINE s == [caller[c] EXCEPT !.pc = "scan", !.want = dep]
  <2>2. s \in CallerStates /\ s.left = caller[c].left /\ s.pc = "scan"
    BY <1>0, <2>1 DEF CallerStates
  <2>3. caller' = [caller EXCEPT ![c] = s] \/ caller' = [caller EXCEPT ![c] = IdleCaller]
    BY <1>3 DEF ReadDeployment
  <2> HIDE DEF s
  <2>4. \E u : Winds(c, u)
    BY <1>0, <1>1, <2>2, <2>3 DEF Winds
  <2> QED BY <1>0, <1>3, <2>4, SameStanding DEF ReadDeployment
<1>4. CASE DropEvicted(c)
  <2>1. \E u : Winds(c, u)
    BY <1>0, <1>2, <1>4 DEF DropEvicted
  <2> QED BY <1>4, <2>1, ForgetMeans DEF DropEvicted
<1>5. CASE Unschedulable(c) \/ CallFails(c)
  <2>1. \E u : Winds(c, u)
    BY <1>1, <1>5 DEF Unschedulable, CallFails
  <2> QED BY <1>0, <1>5, <2>1, SameStanding DEF Unschedulable, CallFails
<1>6. ASSUME NEW p \in caller[c].todo,
             caller' = [caller EXCEPT ![c] = Acting({}, 0, caller[c].todo \ {p})]
      PROVE  \E u : Winds(c, u)
  <2>1. caller[c].todo \ {p} \in SUBSET Pods
    BY <1>0
  <2>2. Winds(c, Acting({}, 0, caller[c].todo \ {p}))
    BY <1>0, <1>2, <1>6, <2>1
  <2> QED BY <2>2
<1>7. CASE SendStop(c)
  <2>1. \E u : Winds(c, u)
    BY <1>6, <1>7 DEF SendStop
  <2>2. stops' \subseteq Pods
    BY <1>0, <1>7 DEF SendStop
  <2> QED BY <1>0, <1>7, <2>1, <2>2, SameStanding DEF SendStop
<1>8. CASE ForceRemove(c)
  <2>1. \E u : Winds(c, u)
    BY <1>6, <1>8 DEF ForceRemove
  <2> QED BY <1>8, <2>1, ForgetMeans DEF ForceRemove
<1>9. CASE SkipVictim(c)
  <2>1. \E u : Winds(c, u)
    BY <1>6, <1>9 DEF SkipVictim
  <2> QED BY <1>0, <1>9, <2>1, SameStanding DEF SkipVictim
<1> QED
  BY <1>3, <1>4, <1>5, <1>7, <1>8, <1>9

(* A call begins. *)
LEMMA BeginWinds ==
  ASSUME TypeOK, NEW c \in Callers, NEW kind, kind \in {"sweep", "event", "trigger"},
         NEW at, at \in {"scan", "deployment"}, Begin(c, kind, at)
  PROVE  (\E s : Winds(c, s)) /\ UNCHANGED <<dep, pods, stops, revived>>
<1> DEFINE s == [IdleCaller EXCEPT !.kind = kind, !.pc = at]
<1>1. s \in CallerStates /\ s.left = IdleCaller.left /\ s.pc = at
  BY IdleType DEF CallerStates
<1>2. s.left = 0
  BY <1>1, IdleType
<1>3. caller' = [caller EXCEPT ![c] = s]
  BY DEF Begin
<1>4. 0 <= caller[c].left
  BY CallerLeft
<1>5. s.left <= caller[c].left
  BY <1>2, <1>4
<1> HIDE DEF s
<1> QED
  BY <1>1, <1>3, <1>5 DEF Winds, Begin

--------------------------------------------------------------------------------
(***************************************************************************)
(* Every step keeps the shares.                                            *)
(***************************************************************************)

(* The sets counted are finite. *)
LEMMA CreatedFinite ==
  ASSUME NEW creator, NEW c
  PROVE  /\ IsFiniteSet(Created(creator, c))
         /\ Cardinality(Created(creator, c)) \in Nat
<1>1. Created(creator, c) \in SUBSET Pods
  BY DEF Created
<1>2. IsFiniteSet(Created(creator, c))
  BY <1>1, FS_Subset, PodsAssumption
<1> QED
  BY <1>2, FS_CardinalityType

(* Less is live, nobody has more to create, and nobody has begun to count. *)
LEMMA SharesKept ==
  ASSUME TypeOK, TypeOK', SharesOK,
         \A p \in Pods : Standing(p)' => Standing(p),
         \A c \in Callers :
           /\ caller'[c].left <= caller[c].left
           /\ caller'[c].pc = "pods" => caller'[c] = caller[c]
  PROVE  SharesOK'
<1>1. PICK creator \in [Pods -> Callers] : WithinShare(creator)
  BY DEF SharesOK
<1>2. ASSUME NEW c \in Callers
      PROVE  /\ caller'[c].pc = "pods" => Created(creator, c)' \subseteq caller'[c].todo
             /\ Cardinality(Created(creator, c)') + caller'[c].left <= MaxDesired
  <2>1. Created(creator, c)' \in SUBSET Created(creator, c)
    BY DEF Created
  <2>2. /\ Cardinality(Created(creator, c)') <= Cardinality(Created(creator, c))
        /\ Cardinality(Created(creator, c)') \in Nat
    BY <2>1, CreatedFinite, FS_Subset, FS_CardinalityType
  <2>3. Cardinality(Created(creator, c)) \in Nat
    BY CreatedFinite
  <2>4. caller[c].left \in Nat /\ caller'[c].left \in Nat
    BY DesiredAssumption DEF TypeOK, CallerStates, Counts
  <2>5. Cardinality(Created(creator, c)) + caller[c].left <= MaxDesired
    BY <1>1 DEF WithinShare
  <2>6. Cardinality(Created(creator, c)') + caller'[c].left <= MaxDesired
    BY <2>2, <2>3, <2>4, <2>5, DesiredAssumption
  <2> QED BY <1>1, <2>1, <2>6 DEF WithinShare
<1>3. WithinShare(creator)'
  BY <1>2 DEF WithinShare
<1> QED
  BY <1>3 DEF SharesOK

LEMMA WindsOK ==
  ASSUME IInv, NEW c \in Callers, NEW s, Winds(c, s), dep' = dep,
         pods' \in [Pods -> Statuses \cup {None}], stops' \subseteq Pods,
         revived' \subseteq Live',
         \A p \in Pods : Standing(p)' => Standing(p)
  PROVE  IInv'
<1>0. TypeOK /\ CreatorsOK /\ SharesOK
  BY DEF IInv
<1>1. /\ s \in CallerStates /\ s.left <= caller[c].left /\ s.pc # "pods"
      /\ s.pc = "create" => s.left > 0
      /\ caller' = [caller EXCEPT ![c] = s]
  BY DEF Winds
<1>2. /\ caller' \in [Callers -> CallerStates] /\ CreatorsOK'
      /\ caller'[c] = s /\ \A d \in Callers \ {c} : caller'[d] = caller[d]
  BY <1>0, <1>1, CallerUpdate
<1>3. TypeOK'
  BY <1>0, <1>2 DEF TypeOK
<1>4. \A d \in Callers : caller[d].left <= caller[d].left
  BY <1>0, CallerLeft
<1>5. \A d \in Callers : /\ caller'[d].left <= caller[d].left
                         /\ caller'[d].pc = "pods" => caller'[d] = caller[d]
  BY <1>1, <1>2, <1>4
<1>6. SharesOK'
  BY <1>0, <1>3, <1>5, SharesKept
<1> QED
  BY <1>2, <1>3, <1>6 DEF IInv

(* Steps that are not a caller's. *)
LEMMA OutsideOK ==
  ASSUME IInv, dep' \in Counts \cup {Gone},
         pods' \in [Pods -> Statuses \cup {None}], stops' \subseteq Pods,
         revived' \subseteq Live',
         \A p \in Pods : Standing(p)' => Standing(p),
         caller' = caller \/ caller' = [c \in Callers |-> IdleCaller]
  PROVE  IInv'
<1>0. TypeOK /\ CreatorsOK /\ SharesOK
  BY DEF IInv
<1>1. \A c \in Callers : caller'[c] = caller[c] \/ caller'[c] = IdleCaller
  OBVIOUS
<1>2. TypeOK' /\ CreatorsOK'
  BY <1>0, IdleType DEF TypeOK, CreatorsOK
<1>3. \A c \in Callers : caller[c].left <= caller[c].left /\ 0 <= caller[c].left
  BY <1>0, CallerLeft
<1>4. \A c \in Callers : /\ caller'[c].left <= caller[c].left
                         /\ caller'[c].pc = "pods" => caller'[c] = caller[c]
  BY <1>1, <1>3, IdleType
<1>5. SharesOK'
  BY <1>0, <1>2, <1>4, SharesKept
<1> QED
  BY <1>2, <1>5 DEF IInv

(* When the keys are listed, the pods c created and that are live are there. *)
LEMMA ScanOK ==
  ASSUME IInv, NEW c \in Callers, ScanPods(c)
  PROVE  IInv'
<1>0. TypeOK /\ CreatorsOK /\ SharesOK /\ caller \in [Callers -> CallerStates]
  BY DEF IInv, TypeOK
<1>1. UNCHANGED <<dep, pods, stops, revived>>
  BY DEF ScanPods
<1> DEFINE s == [caller[c] EXCEPT !.todo = {p \in Pods : Exists(p)}, !.pc = "pods"]
<1>2. caller' = [caller EXCEPT ![c] = s]
  BY <1>0 DEF ScanPods
<1>3. /\ s \in CallerStates /\ s.left = caller[c].left /\ s.pc = "pods"
      /\ s.todo = {p \in Pods : Exists(p)}
  BY <1>0 DEF CallerStates
<1> HIDE DEF s
<1>4. /\ caller' \in [Callers -> CallerStates] /\ CreatorsOK'
      /\ caller'[c] = s /\ \A d \in Callers \ {c} : caller'[d] = caller[d]
  BY <1>0, <1>2, <1>3, CallerUpdate
<1>5. TypeOK'
  BY <1>0, <1>1, <1>4, SameStanding DEF TypeOK
<1>6. PICK creator \in [Pods -> Callers] : WithinShare(creator)
  BY <1>0 DEF SharesOK
<1>7. \A d \in Callers : Created(creator, d)' = Created(creator, d)
  BY <1>1 DEF Created, Standing
<1>8. Created(creator, c) \subseteq s.todo
  BY <1>3 DEF Created, Standing, IsLive, Exists
<1>9. WithinShare(creator)'
  BY <1>3, <1>4, <1>6, <1>7, <1>8 DEF WithinShare
<1> QED
  BY <1>4, <1>5, <1>9 DEF IInv, SharesOK

(* What c decides to create is what is missing at least of its own. *)
LEMMA ReadPodsOK ==
  ASSUME IInv, NEW c \in Callers, ReadPods(c)
  PROVE  IInv'
<1>0. TypeOK /\ CreatorsOK /\ SharesOK
  BY DEF IInv
<1>1. caller[c].pc = "pods" /\ UNCHANGED <<dep, pods, stops, revived>>
  BY DEF ReadPods
<1> DEFINE seen == [p \in Pods |-> IF p \in caller[c].todo THEN pods[p] ELSE None]
           s == Decision(c, seen)
<1>2. caller' = [caller EXCEPT ![c] = s]
  BY DEF ReadPods
<1>3. SeenLive(seen) = {p \in Pods : p \in caller[c].todo /\ IsLive(pods[p])}
  BY DEF SeenLive, IsLive
<1>4. /\ s \in CallerStates /\ s.pc # "pods" /\ (s.pc = "create" => s.left > 0)
      /\ s.left = 0 \/ s.left + Cardinality(SeenLive(seen)) \in Counts
  BY <1>0, DecisionMeans
<1> HIDE DEF seen, s
<1>5. /\ caller' \in [Callers -> CallerStates] /\ CreatorsOK'
      /\ caller'[c] = s /\ \A d \in Callers \ {c} : caller'[d] = caller[d]
  BY <1>0, <1>2, <1>4, CallerUpdate
<1>6. TypeOK'
  BY <1>0, <1>1, <1>5, SameStanding DEF TypeOK
<1>7. PICK creator \in [Pods -> Callers] : WithinShare(creator)
  BY <1>0 DEF SharesOK
<1>8. \A d \in Callers : Created(creator, d)' = Created(creator, d)
  BY <1>1 DEF Created, Standing
<1>9. Cardinality(Created(creator, c)) + s.left <= MaxDesired
  <2>1. Created(creator, c) \in SUBSET SeenLive(seen)
    BY <1>1, <1>3, <1>7 DEF WithinShare, Created, Standing
  <2>2. IsFiniteSet(SeenLive(seen)) /\ Cardinality(SeenLive(seen)) \in Nat
    <3>1. SeenLive(seen) \in SUBSET Pods
      BY DEF SeenLive
    <3> QED BY <3>1, FS_Subset, FS_CardinalityType, PodsAssumption
  <2>3. Cardinality(Created(creator, c)) <= Cardinality(SeenLive(seen))
    BY <2>1, <2>2, FS_Subset
  <2>4. Cardinality(Created(creator, c)) + caller[c].left <= MaxDesired
    BY <1>7 DEF WithinShare
  <2>5. Cardinality(Created(creator, c)) \in Nat /\ caller[c].left \in Nat
    BY <1>0, CreatedFinite, CallerLeft
  <2>6. s.left \in Nat
    BY <1>4, DesiredAssumption DEF CallerStates, Counts
  <2>7. CASE s.left = 0
    BY <2>4, <2>5, <2>7, DesiredAssumption
  <2>8. CASE s.left + Cardinality(SeenLive(seen)) \in Counts
    BY <2>2, <2>3, <2>5, <2>6, <2>8, DesiredAssumption DEF Counts
  <2> QED BY <1>4, <2>7, <2>8
<1>10. WithinShare(creator)'
  BY <1>4, <1>5, <1>7, <1>8, <1>9 DEF WithinShare
<1> QED
  BY <1>5, <1>6, <1>10 DEF IInv, SharesOK

(* A pod c creates goes from what c had left to its share. *)
LEMMA CreateOK ==
  ASSUME IInv, NEW c \in Callers, CreatePod(c)
  PROVE  IInv'
<1>0. /\ TypeOK /\ CreatorsOK /\ SharesOK /\ pods \in [Pods -> Statuses \cup {None}]
      /\ caller[c].left \in Nat /\ caller[c].left > 0 /\ caller[c].left \in Counts
  BY CallerLeft DEF IInv, TypeOK, CreatorsOK, CreatePod
<1>1. PICK p \in Pods : Unheard(p) /\ pods' = [pods EXCEPT ![p] = "Pending"]
  BY DEF CreatePod
<1> DEFINE k == caller[c].left - 1
           s == Acting({}, k, {})
<1>2. caller' = [caller EXCEPT ![c] = s] /\ UNCHANGED <<dep, stops, revived>>
  BY DEF CreatePod
<1>3. k \in Counts /\ k + 1 = caller[c].left /\ k \in Nat
  BY <1>0, DesiredAssumption DEF Counts
<1> HIDE DEF k
<1>4. /\ s \in CallerStates /\ s.left = k /\ s.pc # "pods"
      /\ s.pc = "create" => s.left > 0
  BY <1>3, ActingType
<1> HIDE DEF s
<1>5. /\ caller' \in [Callers -> CallerStates] /\ CreatorsOK'
      /\ caller'[c] = s /\ \A d \in Callers \ {c} : caller'[d] = caller[d]
  BY <1>0, <1>2, <1>4, CallerUpdate
<1>6. TypeOK'
  BY <1>0, <1>1, <1>2, <1>5 DEF TypeOK, Statuses, Live, IsLive, None, Unheard, Exists
<1>7. PICK creator \in [Pods -> Callers] : WithinShare(creator)
  BY <1>0 DEF SharesOK
<1> DEFINE next == [creator EXCEPT ![p] = c]
<1>8. next \in [Pods -> Callers]
  BY <1>7
<1>9. ~ IsLive(pods[p]) /\ p \notin revived /\ revived' = revived
      /\ \A o \in Pods \ {p} : pods'[o] = pods[o]
  BY <1>0, <1>1, <1>2 DEF Unheard, Exists, IsLive, Live, TypeOK
<1>10. \A d \in Callers \ {c} : Created(next, d)' = Created(creator, d)
  BY <1>0, <1>1, <1>7, <1>9 DEF Created, Standing
<1>11. /\ Created(next, c)' = Created(creator, c) \cup {p}
       /\ p \notin Created(creator, c)
  BY <1>0, <1>1, <1>7, <1>9 DEF Created, Standing, IsLive, None
<1>12. Cardinality(Created(next, c)') + s.left <= MaxDesired
  <2>1. /\ Cardinality(Created(next, c)') = Cardinality(Created(creator, c)) + 1
        /\ Cardinality(Created(creator, c)) \in Nat
    BY <1>11, CreatedFinite, FS_AddElement
  <2>2. Cardinality(Created(creator, c)) + caller[c].left <= MaxDesired
    BY <1>7 DEF WithinShare
  <2> QED BY <1>0, <1>3, <1>4, <2>1, <2>2, DesiredAssumption
<1> HIDE DEF next
<1>13. WithinShare(next)'
  <2>1. ASSUME NEW d \in Callers
        PROVE  /\ caller'[d].pc = "pods" => Created(next, d)' \subseteq caller'[d].todo
               /\ Cardinality(Created(next, d)') + caller'[d].left <= MaxDesired
    <3>1. CASE d = c
      BY <1>4, <1>5, <1>12, <3>1
    <3>2. CASE d # c
      BY <1>5, <1>7, <1>10, <3>2 DEF WithinShare
    <3> QED BY <3>1, <3>2
  <2> QED BY <2>1 DEF WithinShare
<1> QED
  BY <1>5, <1>6, <1>8, <1>13 DEF IInv, SharesOK

--------------------------------------------------------------------------------

LEMMA CallerStep ==
  ASSUME IInv, NEW c \in Callers, Proceed(c) \/ SkipVictim(c) \/ CallFails(c)
  PROVE  IInv'
<1>1. CASE ScanPods(c)
  BY <1>1, ScanOK
<1>2. CASE ReadPods(c)
  BY <1>2, ReadPodsOK
<1>3. CASE CreatePod(c)
  BY <1>3, CreateOK
<1>4. CASE \/ ReadDeployment(c) \/ DropEvicted(c) \/ Unschedulable(c)
           \/ SendStop(c) \/ ForceRemove(c) \/ SkipVictim(c) \/ CallFails(c)
  <2>1. TypeOK
    BY DEF IInv
  <2>2. /\ \E s : Winds(c, s)
        /\ dep' = dep
        /\ pods' \in [Pods -> Statuses \cup {None}] /\ stops' \subseteq Pods
         /\ revived' \subseteq Live'
        /\ \A p \in Pods : Standing(p)' => Standing(p)
    BY <1>4, <2>1, CallWinds
  <2> QED BY <2>2, WindsOK
<1> QED
  BY <1>1, <1>2, <1>3, <1>4 DEF Proceed

LEMMA BeginStep ==
  ASSUME IInv, Sweep \/ \E c \in Others : ReceiveEvent(c) \/ TriggerSchedule(c)
  PROVE  IInv'
<1>0. /\ TypeOK /\ pods \in [Pods -> Statuses \cup {None}] /\ stops \subseteq Pods
      /\ revived \subseteq Live
  BY DEF IInv, TypeOK
<1>1. PICK c \in Callers, kind \in {"sweep", "event", "trigger"},
           at \in {"scan", "deployment"} : Begin(c, kind, at)
  BY DEF Sweep, ReceiveEvent, TriggerSchedule, Callers
<1>2. (\E s : Winds(c, s)) /\ UNCHANGED <<dep, pods, stops, revived>>
  BY <1>0, <1>1, BeginWinds
<1> QED
  BY <1>0, <1>2, WindsOK, SameStanding

LEMMA OutsideStep ==
  ASSUME IInv,
         \/ SetDesired \/ DeleteDeployment
         \/ \E p \in Pods : \/ PodStarts(p) \/ PodFails(p) \/ EvictPod(p)
                            \/ ExecuteStop(p) \/ LoseStop(p)
         \/ ControlPlaneCrash
         \/ UNCHANGED vars
  PROVE  IInv'
<1>0. /\ TypeOK /\ pods \in [Pods -> Statuses \cup {None}] /\ stops \subseteq Pods
      /\ revived \subseteq Live
      /\ dep \in Counts \cup {Gone}
  BY DEF IInv, TypeOK
<1>1. CASE SetDesired \/ DeleteDeployment
  <2>1. dep' \in Counts \cup {Gone}
    BY <1>1, DesiredAssumption DEF SetDesired, DeleteDeployment, Counts
  <2> QED BY <1>0, <1>1, <2>1, OutsideOK, SameStanding DEF SetDesired, DeleteDeployment
<1>2. ASSUME NEW p \in Pods, PodStarts(p) \/ PodFails(p) \/ EvictPod(p) PROVE IInv'
  <2>1. PICK s \in Statuses : pods' = [pods EXCEPT ![p] = s] /\ UNCHANGED <<dep, stops, caller>>
    BY <1>2 DEF PodStarts, PodFails, EvictPod, SetStatus, Statuses
  <2>2. pods' \in [Pods -> Statuses \cup {None}]
    BY <1>0, <2>1
  <2>3. revived' \subseteq Live' /\ \A o \in Pods : Standing(o)' => Standing(o)
    BY <1>0, <1>2 DEF PodStarts, PodFails, EvictPod, SetStatus, IsLive, Live, None,
                      Standing, Exists
  <2> QED BY <1>0, <2>1, <2>2, <2>3, OutsideOK
<1>3. ASSUME NEW p \in Pods, ExecuteStop(p) PROVE IInv'
  BY <1>0, <1>3, ForgetMeans, OutsideOK DEF ExecuteStop
<1>4. ASSUME NEW p \in Pods, LoseStop(p) PROVE IInv'
  <2>1. stops' \subseteq Pods
    BY <1>0, <1>4 DEF LoseStop
  <2> QED BY <1>0, <1>4, <2>1, OutsideOK, SameStanding DEF LoseStop
<1>5. CASE ControlPlaneCrash \/ UNCHANGED vars
  BY <1>0, <1>5, OutsideOK, SameStanding DEF ControlPlaneCrash, vars
<1> QED
  BY <1>1, <1>2, <1>3, <1>4, <1>5

LEMMA InvStep ==
  ASSUME IInv, [Next]_vars
  PROVE  IInv'
  BY CallerStep, BeginStep, OutsideStep DEF Next

LEMMA InvInit ==
  ASSUME Init
  PROVE  IInv
<1>1. TypeOK /\ CreatorsOK
  BY IdleType DEF Init, TypeOK, CreatorsOK
<1>2. \A p \in Pods : ~ IsLive(pods[p])
  BY DEF Init, IsLive, None
<1> DEFINE creator == [p \in Pods |-> "sweeper"]
<1>3. creator \in [Pods -> Callers]
  BY DEF Callers
<1>4. \A c \in Callers : Created(creator, c) = {}
  BY <1>2 DEF Created, Standing
<1>5. \A c \in Callers : caller[c] = IdleCaller
  BY DEF Init
<1> HIDE DEF creator
<1>6. WithinShare(creator)
  <2>1. Cardinality({}) = 0 /\ 0 + 0 <= MaxDesired
    BY FS_EmptySet, DesiredAssumption
  <2> QED BY <1>4, <1>5, <2>1, IdleType DEF WithinShare
<1> QED
  BY <1>1, <1>3, <1>6 DEF IInv, SharesOK

(* One share for each caller. *)
LEMMA SharesBound ==
  ASSUME IInv
  PROVE  OvershootBounded
<1>1. PICK creator \in [Pods -> Callers] : WithinShare(creator)
  BY DEF IInv, SharesOK
<1> DEFINE L == Live \ revived
           f == [p \in L |-> creator[p]]
           w == [c \in Callers |-> caller[c].left]
<1>2. L \in SUBSET Pods /\ IsFiniteSet(L)
  BY FS_Subset, PodsAssumption DEF Live
<1>3. IsFiniteSet(Callers)
  BY OthersAssumption, FS_Singleton, FS_Union DEF Callers
<1>4. f \in [L -> Callers]
  BY <1>1, <1>2
<1>5. w \in [Callers -> 0 .. MaxDesired]
  BY CallerLeft DEF IInv, Counts
<1>6. ASSUME NEW c \in Callers
      PROVE  Cardinality({p \in L : f[p] = c}) + w[c] <= MaxDesired
  <2>1. {p \in L : f[p] = c} = Created(creator, c)
    BY DEF Live, Created, Standing
  <2>2. Cardinality(Created(creator, c)) + caller[c].left <= MaxDesired
    BY <1>1 DEF WithinShare
  <2> HIDE DEF f
  <2> QED BY <2>1, <2>2
<1>7. Underway = {x \in Callers \X (1 .. MaxDesired) : x[2] <= w[x[1]]}
  BY DEF Underway
<1> HIDE DEF f, w, L
<1>8. Cardinality(L)
        + Cardinality({x \in Callers \X (1 .. MaxDesired) : x[2] <= w[x[1]]})
          <= Cardinality(Callers) * MaxDesired
  BY <1>2, <1>3, <1>4, <1>5, <1>6, Fibres, DesiredAssumption
<1> QED
  BY <1>7, <1>8 DEF OvershootBounded, L

(* For any pods, desired counts and callers the state keeps its type: no call sets
   out to create more replicas than a count that was desired (ReconcileDeployment,
   handleTriggerSchedule). *)
THEOREM ReplicaTypeCorrect == Spec => []TypeOK
<1>1. IInv => TypeOK
  BY DEF IInv
<1> QED
  BY <1>1, InvInit, InvStep, PTL DEF Spec

(* However many callers reconcile at the same time on counts that are stale, and
   however often calls fail, nodes are evicted, events and stop commands are lost
   and the control plane crashes, there is never more than one full set of replicas
   for each caller, live or still to be created, apart from evicted pods that an agent brought back
   after they had been counted out (ReconcileDeployment, handleTriggerSchedule). *)
THEOREM OvershootIsBounded == Spec => []OvershootBounded
<1>1. IInv => OvershootBounded
  BY SharesBound
<1> QED
  BY <1>1, InvInit, InvStep, PTL DEF Spec

--------------------------------------------------------------------------------
(***************************************************************************)
(* The choice of the victims.                                              *)
(***************************************************************************)

(* The ranking is a strict total order. *)
LEMMA RankingIsTotal ==
  ASSUME NEW seen, NEW p \in Pods, NEW q \in Pods
  PROVE  /\ ~ GoesBefore(seen, p, p)
         /\ p # q => GoesBefore(seen, p, q) \/ GoesBefore(seen, q, p)
         /\ \A o \in Pods : GoesBefore(seen, o, q) /\ GoesBefore(seen, q, p) =>
              GoesBefore(seen, o, p)
<1>1. \A o \in Pods : StatusPriority(seen[o]) \in {3, 4} /\ o \in Nat
  BY PodsAssumption DEF StatusPriority
<1> QED
  BY <1>1 DEF GoesBefore

(* How many pods go before p. *)
Before(seen, p) == {q \in SeenLive(seen) : GoesBefore(seen, q, p)}

(* Who goes before has the smaller rank, and ranks are below the number of pods. *)
LEMMA RanksGrow ==
  ASSUME NEW seen
  PROVE  /\ IsFiniteSet(SeenLive(seen)) /\ Cardinality(SeenLive(seen)) \in Nat
         /\ \A p \in SeenLive(seen) :
              /\ Cardinality(Before(seen, p)) \in Nat
              /\ Cardinality(Before(seen, p)) < Cardinality(SeenLive(seen))
         /\ \A p, q \in SeenLive(seen) : GoesBefore(seen, q, p) =>
              Cardinality(Before(seen, q)) < Cardinality(Before(seen, p))
<1> DEFINE L == SeenLive(seen)
<1>0. L \in SUBSET Pods /\ IsFiniteSet(L) /\ Cardinality(L) \in Nat
  <2>1. L \in SUBSET Pods
    BY DEF SeenLive
  <2> QED BY <2>1, FS_Subset, FS_CardinalityType, PodsAssumption
<1> HIDE DEF L
<1>1. \A p \in L : /\ Before(seen, p) \in SUBSET L /\ IsFiniteSet(Before(seen, p))
                   /\ Cardinality(Before(seen, p)) \in Nat
  <2>1. \A p \in L : Before(seen, p) \in SUBSET L
    BY DEF Before, L
  <2> QED BY <1>0, <2>1, FS_Subset, FS_CardinalityType
<1>2. ASSUME NEW p \in L PROVE Cardinality(Before(seen, p)) < Cardinality(L)
  <2>1. p \notin Before(seen, p)
    BY <1>0, RankingIsTotal DEF Before
  <2>2. /\ Cardinality(Before(seen, p)) <= Cardinality(L)
        /\ Cardinality(L) # Cardinality(Before(seen, p))
    BY <1>0, <1>1, <2>1, FS_Subset
  <2> QED BY <1>0, <1>1, <2>2
<1>3. ASSUME NEW p \in L, NEW q \in L, GoesBefore(seen, q, p)
      PROVE  Cardinality(Before(seen, q)) < Cardinality(Before(seen, p))
  <2>1. q \in Before(seen, p) /\ q \notin Before(seen, q)
    BY <1>0, <1>3, RankingIsTotal DEF Before, L
  <2>2. Before(seen, q) \in SUBSET Before(seen, p)
    BY <1>0, <1>3, RankingIsTotal DEF Before, L
  <2>3. /\ Cardinality(Before(seen, q)) <= Cardinality(Before(seen, p))
        /\ Cardinality(Before(seen, p)) # Cardinality(Before(seen, q))
    BY <1>1, <2>1, <2>2, FS_Subset
  <2> QED BY <1>1, <2>3
<1> QED
  BY <1>0, <1>1, <1>2, <1>3 DEF L

LEMMA FirstNumbers ==
  ASSUME NEW n \in Nat
  PROVE  IsFiniteSet(0 .. n - 1) /\ Cardinality(0 .. n - 1) = n
<1>1. 0 \in Int /\ n - 1 \in Int
  OBVIOUS
<1>2. /\ IsFiniteSet(0 .. n - 1)
      /\ Cardinality(0 .. n - 1) = IF 0 > n - 1 THEN 0 ELSE (n - 1) - 0 + 1
  BY <1>1, FS_Interval
<1>3. (IF 0 > n - 1 THEN 0 ELSE (n - 1) - 0 + 1) = n
  OBVIOUS
<1> QED
  BY <1>2, <1>3

(* A set whose elements an injection numbers 0 .. n - 1, n being its size, has k
   elements below k. *)
LEMMA Below ==
  ASSUME NEW L, IsFiniteSet(L), NEW k \in Nat, k <= Cardinality(L),
         NEW r \in [L -> 0 .. Cardinality(L) - 1],
         \A p, q \in L : r[p] = r[q] => p = q
  PROVE  Cardinality({p \in L : r[p] < k}) = k
<1> DEFINE n == Cardinality(L)
           V == {p \in L : r[p] < k}
           s == [p \in V |-> r[p]]
<1>0. n \in Nat
  BY FS_CardinalityType
<1>1. IsFiniteSet(0 .. n - 1) /\ Cardinality(0 .. n - 1) = n
  BY <1>0, FirstNumbers
<1>2. r \in Injection(L, 0 .. n - 1)
  BY DEF Injection, IsInjective
<1>3. r \in Surjection(L, 0 .. n - 1)
  BY <1>1, <1>2, FS_Injection
<1>4. \A i \in 0 .. n - 1 : \E p \in L : r[p] = i
  BY <1>3 DEF Surjection
<1>5. \A i \in 0 .. k - 1 : i \in 0 .. n - 1 /\ i < k
  BY <1>0
<1>6. \A p \in V : s[p] \in 0 .. k - 1
  BY <1>0
<1>7. \A i \in 0 .. k - 1 : \E p \in V : s[p] = i
  BY <1>4, <1>5
<1>8. s \in Bijection(V, 0 .. k - 1)
  BY <1>6, <1>7 DEF Bijection, Injection, Surjection, IsInjective
<1>9. IsFiniteSet(0 .. k - 1) /\ Cardinality(0 .. k - 1) = k /\ IsFiniteSet(V)
  BY FirstNumbers, FS_Subset
<1>10. Cardinality(0 .. k - 1) = Cardinality(V)
  BY <1>8, <1>9, FS_Bijection DEF ExistsBijection
<1> QED
  BY <1>9, <1>10

(* selectVictims chooses exactly as many pods as there are too many, whatever
   their statuses and ids, and nobody is spared who goes before a victim: no
   Running pod is removed while another one is left that does not serve. *)
THEOREM VictimsAreTheSurplus ==
  ASSUME NEW seen, NEW want \in Nat
  PROVE  /\ Cardinality(SelectVictims(seen, want)) =
              IF want < Cardinality(SeenLive(seen))
              THEN Cardinality(SeenLive(seen)) - want ELSE 0
         /\ \A p \in SelectVictims(seen, want), q \in SeenLive(seen) :
              GoesBefore(seen, q, p) => q \in SelectVictims(seen, want)
<1> DEFINE L == SeenLive(seen)
           n == Cardinality(L)
           r == [p \in L |-> Cardinality(Before(seen, p))]
<1>1. /\ IsFiniteSet(L) /\ n \in Nat /\ L \in SUBSET Pods
      /\ \A p \in L : r[p] \in Nat /\ r[p] < n
      /\ \A p, q \in L : GoesBefore(seen, q, p) => r[q] < r[p]
  BY RanksGrow DEF SeenLive
<1>2. SelectVictims(seen, want) = {p \in L : r[p] + want < n}
  BY DEF SelectVictims, Before
<1> HIDE DEF r, L
<1>3. \A p, q \in L : r[p] = r[q] => p = q
  <2> SUFFICES ASSUME NEW p \in L, NEW q \in L, r[p] = r[q], p # q PROVE FALSE
    OBVIOUS
  <2>1. GoesBefore(seen, p, q) \/ GoesBefore(seen, q, p)
    BY <1>1, RankingIsTotal
  <2> QED BY <1>1, <2>1
<1>4. ASSUME want < n PROVE Cardinality(SelectVictims(seen, want)) = n - want
  <2> DEFINE k == n - want
  <2>1. k \in Nat /\ k <= n
    BY <1>1, <1>4
  <2>2. r \in [L -> 0 .. n - 1]
    <3>1. \A p \in L : r[p] \in 0 .. n - 1
      BY <1>1
    <3> QED BY <3>1 DEF r
  <2>3. {p \in L : r[p] + want < n} = {p \in L : r[p] < k}
    BY <1>1
  <2>4. Cardinality({p \in L : r[p] < k}) = k
    BY <1>1, <1>3, <2>1, <2>2, Below
  <2> QED BY <1>2, <2>3, <2>4
<1>5. ASSUME ~ (want < n) PROVE Cardinality(SelectVictims(seen, want)) = 0
  <2>1. {p \in L : r[p] + want < n} = {}
    BY <1>1, <1>5
  <2> QED BY <1>2, <2>1, FS_EmptySet
<1>6. ASSUME NEW p \in SelectVictims(seen, want), NEW q \in L, GoesBefore(seen, q, p)
      PROVE  q \in SelectVictims(seen, want)
  BY <1>1, <1>2, <1>6
<1> QED
  BY <1>4, <1>5, <1>6 DEF L
================================================================================
