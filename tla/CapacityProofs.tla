----------------------------- MODULE CapacityProofs -----------------------------
(***************************************************************************)
(* What Demand, the sum of the requests of a set of pods, does when a pod  *)
(* joins or leaves the set.  The library's induction theorems are of no    *)
(* use to the installed provers, so the sum is measured as the cardinality *)
(* of a set of units and everything follows from facts on finite sets.     *)
(***************************************************************************)
EXTENDS ClusterState, FiniteSetTheorems, TLAPS

(* A request is a positive number in both dimensions. *)
LEMMA PodReqType ==
  ASSUME NEW p \in Pods, NEW r \in Resources
  PROVE  PodReq(p)[r] \in Nat /\ PodReq(p)[r] > 0
  BY PodsAssumption, ReqAssumption DEF PodReq

(* A pod asks for as many units as its request says. *)
LEMMA UnitsOfCardinality ==
  ASSUME NEW p \in Pods, NEW r \in Resources
  PROVE  IsFiniteSet(UnitsOf(p, r)) /\ Cardinality(UnitsOf(p, r)) = PodReq(p)[r]
<1> DEFINE k == PodReq(p)[r]
<1>1. k \in Nat /\ k > 0
  BY PodReqType
<1> HIDE DEF k
<1>2. IsFiniteSet(1 .. k) /\ Cardinality(1 .. k) = k
  <2>1. 1 \in Int /\ k \in Int /\ ~(1 > k) /\ k - 1 + 1 = k
    BY <1>1
  <2> QED BY <2>1, FS_Interval
<1>3. IsFiniteSet({p}) /\ Cardinality({p}) = 1
  BY FS_Singleton
<1>4. IsFiniteSet({p} \X (1 .. k)) /\ Cardinality({p} \X (1 .. k)) = 1 * k
  BY <1>2, <1>3, FS_Product
<1> QED
  BY <1>1, <1>4 DEF UnitsOf, k

(* Finitely many pods ask for finitely many units. *)
LEMMA UnitsFinite ==
  ASSUME NEW S \in SUBSET Pods, NEW r \in Resources
  PROVE  IsFiniteSet(Units(S, r))
<1> DEFINE f == [p \in S |-> UnitsOf(p, r)]
           T == {UnitsOf(p, r) : p \in S}
<1>1. IsFiniteSet(S)
  BY FiniteAssumption, FS_Subset
<1>2. f \in Surjection(S, T)
  BY DEF Surjection
<1>3. IsFiniteSet(T)
  <2> HIDE DEF f, T
  <2> QED BY <1>1, <1>2, FS_Surjection
<1>4. \A U \in T : IsFiniteSet(U)
  BY UnitsOfCardinality
<1>5. IsFiniteSet(UNION T)
  <2> HIDE DEF T
  <2> QED BY <1>3, <1>4, FS_UNION
<1> QED
  BY <1>5 DEF Units

(* The sum is a natural number. *)
LEMMA DemandType ==
  ASSUME NEW S \in SUBSET Pods, NEW r \in Resources
  PROVE  Demand(S, r) \in Nat
  BY UnitsFinite, FS_CardinalityType DEF Demand

(* No pods, no demand. *)
LEMMA DemandEmpty ==
  ASSUME NEW r \in Resources
  PROVE  Demand({}, r) = 0
<1>1. Units({}, r) = {}
  BY DEF Units
<1> QED
  BY <1>1, FS_EmptySet DEF Demand

(* A pod that joins a set adds its request to the sum. *)
LEMMA DemandAdd ==
  ASSUME NEW S \in SUBSET Pods, NEW p \in Pods, p \notin S, NEW r \in Resources
  PROVE  Demand(S \cup {p}, r) = Demand(S, r) + PodReq(p)[r]
<1> DEFINE A == Units(S, r)
           B == UnitsOf(p, r)
<1>1. IsFiniteSet(A)
  BY UnitsFinite
<1>2. IsFiniteSet(B) /\ Cardinality(B) = PodReq(p)[r]
  BY UnitsOfCardinality
<1>3. A \cap B = {}
  BY DEF Units, UnitsOf
<1>4. Units(S \cup {p}, r) = A \cup B
  BY DEF Units
<1> HIDE DEF A, B
<1>5. Cardinality(A \cup B) = Cardinality(A) + Cardinality(B) - Cardinality(A \cap B)
  BY <1>1, <1>2, FS_Union
<1>6. Cardinality(A \cap B) = 0
  BY <1>3, FS_EmptySet
<1>7. Cardinality(A) \in Nat /\ Cardinality(B) \in Nat
  BY <1>1, <1>2, FS_CardinalityType
<1>8. Cardinality(A \cup B) = Cardinality(A) + PodReq(p)[r]
  <2> HIDE DEF PodReq
  <2> QED BY <1>2, <1>5, <1>6, <1>7
<1> QED
  BY <1>4, <1>8 DEF Demand, A

(* A pod that leaves a set takes its request from the sum. *)
LEMMA DemandRemove ==
  ASSUME NEW S \in SUBSET Pods, NEW p \in S, NEW r \in Resources
  PROVE  /\ Demand(S \ {p}, r) = Demand(S, r) - PodReq(p)[r]
         /\ Demand(S, r) >= PodReq(p)[r]
<1>1. (S \ {p}) \cup {p} = S
  OBVIOUS
<1>2. Demand(S, r) = Demand(S \ {p}, r) + PodReq(p)[r]
  BY <1>1, DemandAdd
<1>3. Demand(S \ {p}, r) \in Nat /\ PodReq(p)[r] \in Nat
  BY DemandType, PodReqType
<1> QED
  BY <1>2, <1>3

(* A smaller set asks for no more. *)
LEMMA DemandMonotone ==
  ASSUME NEW T \in SUBSET Pods, NEW S \in SUBSET T, NEW r \in Resources
  PROVE  Demand(S, r) <= Demand(T, r)
<1>1. Units(S, r) \subseteq Units(T, r)
  BY DEF Units
<1>2. IsFiniteSet(Units(T, r))
  BY UnitsFinite
<1> QED
  BY <1>1, <1>2, FS_Subset DEF Demand

(* reserveScript gives the demand of a set that includes the new pod, and
   stays within the node's total. *)
LEMMA ReserveAddsPod ==
  ASSUME NEW n \in Nodes, NEW S \in SUBSET Pods, NEW p \in Pods \ S,
         alloc \in [Nodes -> [Resources -> Nat]],
         \A r \in Resources : alloc[n][r] = Demand(S, r),
         Fits(n, PodReq(p))
  PROVE  \A r \in Resources :
           /\ Reserved(n, PodReq(p))[n][r] = Demand(S \cup {p}, r)
           /\ Demand(S \cup {p}, r) <= Total[n][r]
<1> TAKE r \in Resources
<1>1. Demand(S \cup {p}, r) = Demand(S, r) + PodReq(p)[r]
  BY DemandAdd
<1>2. Reserved(n, PodReq(p))[n][r] = alloc[n][r] + PodReq(p)[r]
  BY DEF Reserved
<1>3. Total[n][r] - alloc[n][r] >= PodReq(p)[r]
  BY DEF Fits
<1>4. Total[n][r] \in Nat /\ PodReq(p)[r] \in Nat /\ alloc[n][r] \in Nat
  BY TotalAssumption, PodReqType
<1> QED
  BY <1>1, <1>2, <1>3, <1>4

(* releaseScript gives the demand of the set without the pod: when the
   counter is exact the clamp at zero never bites. *)
LEMMA ReleaseRemovesPod ==
  ASSUME NEW n \in Nodes, NEW S \in SUBSET Pods, NEW p \in S, n \in published,
         alloc \in [Nodes -> [Resources -> Nat]],
         \A r \in Resources : alloc[n][r] = Demand(S, r)
  PROVE  \A r \in Resources :
           Released(n, PodReq(p))[n][r] = Demand(S \ {p}, r)
<1> TAKE r \in Resources
<1>1. /\ Demand(S \ {p}, r) = Demand(S, r) - PodReq(p)[r]
      /\ Demand(S, r) >= PodReq(p)[r]
  BY DemandRemove
<1>2. Released(n, PodReq(p))[n][r] = IF alloc[n][r] - PodReq(p)[r] < 0 THEN 0
                                     ELSE alloc[n][r] - PodReq(p)[r]
  BY DEF Released
<1>3. PodReq(p)[r] \in Nat /\ alloc[n][r] \in Nat
  BY PodReqType
<1> QED
  BY <1>1, <1>2, <1>3
================================================================================
