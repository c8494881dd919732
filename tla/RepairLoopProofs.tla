------------------------- MODULE RepairLoopProofs -------------------------
(***************************************************************************)
(* Proofs about RepairLoop, for any set of contracts and patches, any      *)
(* number of detectors and any sizes of the population.                    *)
(***************************************************************************)
EXTENDS RepairLoop, FiniteSetTheorems, FunctionTheorems, ProofLibrary

---------------------------------------------------------------------------
(* Dominance and the Pareto front *)

(* What the detectors find. *)
Findings == [AST -> [Detectors -> 0 .. MaxVul]]

(* An individual has a contract, with a count for every detector. *)
LEMMA HardType ==
  ASSUME vulnerable \in Findings, NEW p \in Individual
  PROVE  p.ast \in AST /\ \A d \in Detectors : Hard(p)[d] \in Nat
<1>1. p.ast \in AST
  BY RepairAssumption DEF Individual, original
<1>2. vulnerable[p.ast] \in [Detectors -> 0 .. MaxVul]
  BY <1>1 DEF Findings
<1>3. \A d \in Detectors : vulnerable[p.ast][d] \in 0 .. MaxVul
  BY <1>2
<1> QED BY <1>1, <1>3, RepairAssumption DEF Hard

(* Dominance is a strict partial order. *)
LEMMA DominatesOrder ==
  ASSUME vulnerable \in Findings,
         NEW p \in Individual, NEW q \in Individual, NEW r \in Individual
  PROVE  /\ ~dominates(p, p)
         /\ dominates(p, q) /\ dominates(q, r) => dominates(p, r)
<1>1. \A d \in Detectors : Hard(p)[d] \in Nat /\ Hard(q)[d] \in Nat /\ Hard(r)[d] \in Nat
  BY HardType
<1>2. ~dominates(p, p)
  BY <1>1 DEF dominates
<1>3. ASSUME dominates(p, q), dominates(q, r)
      PROVE  dominates(p, r)
  <2>1. \A d \in Detectors : Hard(p)[d] <= Hard(q)[d] /\ Hard(q)[d] <= Hard(r)[d]
    BY <1>3 DEF dominates
  <2>2. PICK d \in Detectors : Hard(p)[d] < Hard(q)[d]
    BY <1>3 DEF dominates
  <2>3. Hard(p)[d] < Hard(r)[d]
    BY <1>1, <2>1, <2>2
  <2>4. \A e \in Detectors : Hard(p)[e] <= Hard(r)[e]
    BY <1>1, <2>1
  <2> QED BY <2>3, <2>4 DEF dominates
<1> QED BY <1>2, <1>3

(* Taking away what is not smaller leaves fewer. *)
LEMMA SmallerCardinality ==
  ASSUME NEW S, IsFiniteSet(S), NEW T \in SUBSET S, NEW x \in S, x \notin T
  PROVE  IsFiniteSet(T) /\ Cardinality(T) < Cardinality(S)
<1>1. IsFiniteSet(T) /\ Cardinality(T) <= Cardinality(S) /\ Cardinality(T) # Cardinality(S)
  BY FS_Subset
<1>2. Cardinality(T) \in Nat /\ Cardinality(S) \in Nat
  BY <1>1, FS_CardinalityType
<1> QED BY <1>1, <1>2

(* In a finite set whatever is dominated is dominated by a member of the   *)
(* front: take the dominator that has the fewest dominators itself.        *)
LEMMA DominatedByFront ==
  ASSUME vulnerable \in Findings,
         NEW E \in SUBSET Individual, IsFiniteSet(E), NEW q \in E
  PROVE  \E m \in Nondominated(E) : m = q \/ dominates(m, q)
<1> DEFINE Above(x) == {y \in E : dominates(y, x)}
           D == {m \in E : m = q \/ dominates(m, q)}
           C == {n \in Nat : \E m \in D : n = Cardinality(Above(m))}
<1>1. \A m \in E : IsFiniteSet(Above(m)) /\ Cardinality(Above(m)) \in Nat
  <2> TAKE m \in E
  <2>1. Above(m) \in SUBSET E
    OBVIOUS
  <2> QED BY <2>1, FS_Subset, FS_CardinalityType
<1>2. C \subseteq Nat /\ C # {}
  <2>1. q \in D
    OBVIOUS
  <2>2. Cardinality(Above(q)) \in C
    BY <1>1, <2>1
  <2> QED BY <2>2
<1>3. PICK n \in C : \A k \in C : n <= k
  <2> HIDE DEF C
  <2> QED BY <1>2, LeastNumber
<1>4. PICK m \in D : n = Cardinality(Above(m))
  OBVIOUS
<1>5. ASSUME NEW x \in E, dominates(x, m)
      PROVE  FALSE
  <2>1. x \in D
    BY <1>5, DominatesOrder
  <2>2. Cardinality(Above(x)) \in C
    BY <1>1, <2>1
  <2>3. Above(x) \in SUBSET Above(m)
    BY <1>5, DominatesOrder
  <2>4. x \in Above(m) /\ x \notin Above(x)
    BY <1>5, DominatesOrder
  <2>5. Cardinality(Above(x)) < Cardinality(Above(m))
    <3> HIDE DEF Above, D, C
    <3> QED BY <1>1, <2>3, <2>4, SmallerCardinality, <1>4 DEF D
  <2>6. Cardinality(Above(m)) <= Cardinality(Above(x))
    BY <1>3, <1>4, <2>2
  <2> HIDE DEF Above
  <2> QED BY <1>1, <2>5, <2>6
<1>6. m \in Nondominated(E)
  BY <1>5 DEF Nondominated
<1> QED BY <1>6

(* Adding one candidate to the front of what was judged gives the front of *)
(* both: a candidate dominated by somebody who left the front is dominated *)
(* by somebody in it.                                                      *)
LEMMA AddIsFront ==
  ASSUME vulnerable \in Findings,
         NEW E \in SUBSET Individual, IsFiniteSet(E), NEW c \in Individual
  PROVE  AddTo(Nondominated(E), c) = Nondominated(E \cup {c})
<1>1. \A q \in E : \E m \in Nondominated(E) : m = q \/ dominates(m, q)
  BY DominatedByFront
<1>2. Nondominated(E) \subseteq E /\ \A p \in Nondominated(E) : \A q \in E : ~dominates(q, p)
  BY DEF Nondominated
<1>3. CASE \E x \in Nondominated(E) : dominates(x, c)
  <2>1. PICK x \in Nondominated(E) : dominates(x, c)
    BY <1>3
  <2>2. ASSUME NEW p \in Nondominated(E)
        PROVE  ~dominates(c, p)
    BY <1>2, <2>1, DominatesOrder
  <2>3. Nondominated(E \cup {c}) = Nondominated(E)
    BY <1>2, <2>1, <2>2 DEF Nondominated
  <2> QED BY <1>3, <2>3 DEF AddTo
<1>4. CASE \A x \in Nondominated(E) : ~dominates(x, c)
  <2>1. ASSUME NEW q \in E, dominates(q, c)
        PROVE  FALSE
    <3>1. PICK m \in Nondominated(E) : m = q \/ dominates(m, q)
      BY <1>1
    <3>2. m \in Individual /\ q \in Individual
      BY <1>2
    <3>3. dominates(m, c)
      BY <2>1, <3>1, <3>2, DominatesOrder
    <3> QED BY <1>4, <3>3
  <2>2. ~dominates(c, c)
    BY DominatesOrder
  <2>3. Nondominated(E \cup {c}) = {x \in Nondominated(E) : ~dominates(c, x)} \cup {c}
    BY <2>1, <2>2 DEF Nondominated
  <2> QED BY <1>4, <2>3 DEF AddTo
<1> QED BY <1>3, <1>4

(* Updating the front of what was judged, candidate by candidate, gives    *)
(* the front of everything, whatever the order.                            *)
LEMMA FrontsEnd ==
  ASSUME vulnerable \in Findings,
         NEW J \in SUBSET Individual, IsFiniteSet(J),
         NEW S \in SUBSET Individual, IsFiniteSet(S), NEW o \in Orders(S)
  PROVE  Fronts(Nondominated(J), o)[Cardinality(S)] = Nondominated(J \cup S)
<1> DEFINE n == Cardinality(S)
           Seen(k) == J \cup {o[i] : i \in 1 .. k}
           D == {0} \cup DOMAIN o
           step(h, k) == IF k = 0 THEN Nondominated(J) ELSE AddTo(h[k - 1], o[k])
           body(h) == [k \in D |-> step(h, k)]
           f == CHOOSE h : h = body(h)
           e == [k \in D |-> Nondominated(Seen(k))]
<1>1. n \in Nat
  BY FS_CardinalityType
<1>2. o \in [1 .. n -> S] /\ \A s \in S : \E i \in 1 .. n : o[i] = s
  BY DEF Orders, Bijection, Injection, Surjection
<1>3. D = 0 .. n
  BY <1>1, <1>2
<1>4. ASSUME NEW k \in 1 .. n
      PROVE  AddTo(Nondominated(Seen(k - 1)), o[k]) = Nondominated(Seen(k))
  <2>1. k - 1 \in Nat /\ k - 1 <= n /\ o[k] \in Individual
    BY <1>1, <1>2
  <2>2. Seen(k - 1) \in SUBSET Individual
    BY <1>1, <1>2, <2>1
  <2>3. IsFiniteSet(Seen(k - 1))
    <3>1. {o[i] : i \in 1 .. k - 1} \in SUBSET S
      BY <1>1, <1>2, <2>1
    <3> QED BY <3>1, FS_Subset, FS_Union
  <2>4. Seen(k) = Seen(k - 1) \cup {o[k]}
    <3>1. 1 .. k = (1 .. k - 1) \cup {k}
      BY <1>1
    <3> QED BY <3>1, Zenon
  <2> HIDE DEF Seen
  <2> QED BY <2>1, <2>2, <2>3, <2>4, AddIsFront
<1>5. Seen(0) = J
  OBVIOUS
<1> HIDE DEF D, Seen
<1>6. e = body(e)
  <2>1. ASSUME NEW k \in D PROVE e[k] = step(e, k)
    <3>1. CASE k = 0
      BY <1>5, <3>1
    <3>2. CASE k # 0
      <4>1. k \in 1 .. n /\ k - 1 \in D
        BY <1>1, <1>3, <3>2
      <4>2. e[k - 1] = Nondominated(Seen(k - 1)) /\ e[k] = Nondominated(Seen(k))
        BY <4>1, Zenon
      <4>3. AddTo(e[k - 1], o[k]) = e[k]
        BY <1>4, <4>1, <4>2
      <4> HIDE DEF e
      <4> QED BY <3>2, <4>3
    <3> QED BY <3>1, <3>2
  <2> QED BY <2>1, Zenon
<1>7. f = body(f)
  BY <1>6, Zenon
<1>8. Fronts(Nondominated(J), o) = f
  BY Zenon DEF Fronts, D
<1> HIDE DEF f, e
<1> DEFINE T == {k \in D : f[k] = Nondominated(Seen(k))}
<1>9. 0 \in T
  <2>1. 0 \in D
    BY <1>1, <1>3
  <2>2. f[0] = step(f, 0)
    BY <1>7, <2>1, Zenon
  <2> QED BY <1>5, <2>1, <2>2
<1>10. ASSUME NEW k \in 1 .. n, k - 1 \in T
       PROVE  k \in T
  <2>1. k \in D /\ k # 0 /\ f[k - 1] = Nondominated(Seen(k - 1))
    BY <1>1, <1>3, <1>10
  <2>2. f[k] = step(f, k)
    BY <1>7, <2>1, Zenon
  <2>3. step(f, k) = AddTo(Nondominated(Seen(k - 1)), o[k])
    BY <2>1
  <2> QED BY <1>4, <2>1, <2>2, <2>3, Zenon
<1> HIDE DEF T
<1>11. \A k \in 0 .. n : k \in T
  BY <1>1, <1>9, <1>10, UpFromZero
<1>12. n \in T
  BY <1>1, <1>11
<1>13. Seen(n) = J \cup S
  BY <1>2 DEF Seen
<1> QED BY <1>8, <1>12, <1>13 DEF T

---------------------------------------------------------------------------
(* The selection of the parents *)

(* Without ties the order of selBest is a strict total order. *)
LEMMA LtOrder ==
  ASSUME vulnerable \in Findings,
         NEW p \in Individual, NEW q \in Individual, NEW r \in Individual
  PROVE  /\ ~lt(p, p)
         /\ lt(p, q) /\ lt(q, r) => lt(p, r)
         /\ Hard(p) # Hard(q) => lt(p, q) \/ lt(q, p)
<1>0. \A d \in Detectors : d \in Int
  BY RepairAssumption DEF Detectors
<1>1. \A d \in Detectors : Hard(p)[d] \in Nat /\ Hard(q)[d] \in Nat /\ Hard(r)[d] \in Nat
  BY HardType
<1>2. ~lt(p, p)
  BY <1>1 DEF lt
<1>3. ASSUME lt(p, q), lt(q, r)
      PROVE  lt(p, r)
  <2>1. PICK d \in Detectors : /\ Hard(q)[d] < Hard(p)[d]
                               /\ \A e \in Detectors : e < d => Hard(q)[e] = Hard(p)[e]
    BY <1>3 DEF lt
  <2>2. PICK f \in Detectors : /\ Hard(r)[f] < Hard(q)[f]
                               /\ \A e \in Detectors : e < f => Hard(r)[e] = Hard(q)[e]
    BY <1>3 DEF lt
  <2>3. CASE d <= f
    <3>1. Hard(r)[d] < Hard(p)[d]
      BY <1>0, <1>1, <2>1, <2>2, <2>3
    <3>2. \A e \in Detectors : e < d => Hard(r)[e] = Hard(p)[e]
      BY <1>0, <2>1, <2>2, <2>3
    <3> QED BY <3>1, <3>2 DEF lt
  <2>4. CASE f < d
    <3>1. Hard(r)[f] < Hard(p)[f]
      BY <1>0, <1>1, <2>1, <2>2, <2>4
    <3>2. \A e \in Detectors : e < f => Hard(r)[e] = Hard(p)[e]
      BY <1>0, <2>1, <2>2, <2>4
    <3> QED BY <3>1, <3>2 DEF lt
  <2> QED BY <1>0, <2>3, <2>4
<1>4. ASSUME Hard(p) # Hard(q)
      PROVE  lt(p, q) \/ lt(q, p)
  <2> DEFINE D == {d \in Detectors : Hard(p)[d] # Hard(q)[d]}
  <2>1. D \subseteq Nat
    BY RepairAssumption DEF Detectors
  <2>2. D # {}
    <3>1. Hard(p) \in [Detectors -> 0 .. MaxVul] /\ Hard(q) \in [Detectors -> 0 .. MaxVul]
      BY HardType DEF Findings, Hard
    <3> QED BY <1>4, <3>1
  <2>3. PICK d \in D : \A e \in D : d <= e
    <3> HIDE DEF D
    <3> QED BY <2>1, <2>2, LeastNumber
  <2>4. \A e \in Detectors : e < d => Hard(p)[e] = Hard(q)[e]
    BY <1>0, <2>3
  <2>5. Hard(p)[d] < Hard(q)[d] \/ Hard(q)[d] < Hard(p)[d]
    BY <1>1
  <2> QED BY <2>4, <2>5 DEF lt
<1> QED BY <1>2, <1>3, <1>4

(* selBest selects among the given ones, and without ties no more than it  *)
(* is asked for: the ones better than a selected one are fewer than k, and *)
(* a different number for each.                                            *)
LEMMA BestBounded ==
  ASSUME vulnerable \in Findings,
         NEW S \in SUBSET Individual, IsFiniteSet(S), NEW k \in Nat,
         \A p, q \in S : ~Tied(p, q)
  PROVE  Best(S, k) \subseteq S /\ Cardinality(Best(S, k)) <= k
<1> DEFINE Better(p) == {q \in S : lt(p, q)}
           B == Best(S, k)
           f == [p \in B |-> Cardinality(Better(p))]
<1>1. \A p \in S : IsFiniteSet(Better(p)) /\ Cardinality(Better(p)) \in Nat
  <2> TAKE p \in S
  <2>1. Better(p) \in SUBSET S
    OBVIOUS
  <2> QED BY <2>1, FS_Subset, FS_CardinalityType
<1>2. B \subseteq S /\ \A p \in B : Cardinality(Better(p)) < k
  BY DEF Best
<1>3. ASSUME NEW p \in B, NEW q \in B, p # q, lt(p, q)
      PROVE  Cardinality(Better(q)) < Cardinality(Better(p))
  <2>1. Better(q) \in SUBSET Better(p)
    BY <1>2, <1>3, LtOrder
  <2>2. q \in Better(p) /\ q \notin Better(q)
    BY <1>2, <1>3, LtOrder
  <2>3. IsFiniteSet(Better(p))
    BY <1>1, <1>2
  <2> HIDE DEF Better
  <2> QED BY <2>1, <2>2, <2>3, SmallerCardinality
<1>4. \A p, q \in B : p # q => f[p] # f[q]
  <2> SUFFICES ASSUME NEW p \in B, NEW q \in B, p # q
               PROVE  Cardinality(Better(p)) # Cardinality(Better(q))
    OBVIOUS
  <2>1. lt(p, q) \/ lt(q, p)
    BY <1>2, LtOrder DEF Tied
  <2>2. Cardinality(Better(q)) < Cardinality(Better(p)) \/ Cardinality(Better(p)) < Cardinality(Better(q))
    BY <1>3, <2>1
  <2> HIDE DEF Better
  <2> QED BY <1>1, <1>2, <2>2
<1>5. f \in [B -> 0 .. k - 1]
  <2>1. \A p \in B : Cardinality(Better(p)) \in 0 .. k - 1
    <3> HIDE DEF Better, B
    <3> QED BY <1>1, <1>2
  <2> HIDE DEF Better, B
  <2> QED BY <2>1
<1>6. f \in Injection(B, 0 .. k - 1)
  <2> HIDE DEF f, B
  <2> QED BY <1>4, <1>5 DEF Injection, IsInjective
<1>7. IsFiniteSet(0 .. k - 1) /\ Cardinality(0 .. k - 1) = k
  BY FS_Interval
<1>8. Cardinality(B) <= Cardinality(0 .. k - 1)
  <2> HIDE DEF f, B
  <2> QED BY <1>6, <1>7, FS_Injection
<1> QED BY <1>2, <1>7, <1>8

---------------------------------------------------------------------------
(* Types *)

(* The initial state has the right types. *)
LEMMA InitType == Init => TypeOK
<1> SUFFICES ASSUME Init PROVE TypeOK
  OBVIOUS
<1>1. asked \in Requests /\ phase = "closed"
  BY DEF Init, Source!Init, Requests, Random
<1> QED
  BY <1>1 DEF Init, TypeOK, Asking, Evaluating, InLoop, Individual

(* What is received is finite, and so is what the loop selects from it. *)
LEMMA Finite ==
  ASSUME TypeOK, SearchInv
  PROVE  /\ IsFiniteSet(Everything) /\ Everything \subseteq Individual
         /\ Cardinality(received) \in Nat
         /\ Cardinality(Everything) = Cardinality(received) + 1
         /\ pc \in InLoop =>
              /\ IsFiniteSet(candidates) /\ Cardinality(candidates) \in Nat
              /\ IsFiniteSet(population)
         /\ pc \in InLoop \ {"head"} => IsFiniteSet(parents)
<1>1. IsFiniteSet(received) /\ received \subseteq Patch
  BY DEF TypeOK, SearchInv
<1>2. original \notin received
  BY <1>1, OriginalAssumption
<1>3. IsFiniteSet(Everything) /\ Cardinality(Everything) = Cardinality(received) + 1
  BY <1>1, <1>2, FS_AddElement DEF Everything
<1>4. Everything \subseteq Individual
  BY <1>1 DEF Everything, Individual
<1>5. Cardinality(received) \in Nat
  BY <1>1, FS_CardinalityType
<1>6. ASSUME pc \in InLoop
      PROVE  candidates \in SUBSET Everything /\ population \in SUBSET Everything
  BY <1>6 DEF SearchInv, LoopPart
<1>7. ASSUME pc \in InLoop \ {"head"}
      PROVE  parents \in SUBSET population
  BY <1>7 DEF SearchInv, ParentPart
<1> QED BY <1>3, <1>4, <1>5, <1>6, <1>7, FS_Subset, FS_CardinalityType

(* Whatever the order of the candidates, the updated front is that of      *)
(* everything received.                                                    *)
LEMMA FrontAfter ==
  ASSUME TypeOK, SearchInv, pc = "head", NEW o \in Orders(candidates)
  PROVE  Fronts(front, o)[Cardinality(candidates)] = Nondominated(Everything)
<1>1. /\ candidates \subseteq Everything /\ Judged = Everything \ candidates
      /\ front = Nondominated(Judged)
  BY DEF SearchInv, LoopPart, InLoop, Judged, Pending
<1>2. IsFiniteSet(candidates)
  BY Finite DEF InLoop
<1>3. IsFiniteSet(Judged) /\ Judged \in SUBSET Individual /\ candidates \in SUBSET Individual
  BY <1>1, Finite, FS_Subset
<1>4. vulnerable \in Findings
  BY DEF TypeOK, Findings
<1>5. Fronts(Nondominated(Judged), o)[Cardinality(candidates)] = Nondominated(Judged \cup candidates)
  BY <1>2, <1>3, <1>4, FrontsEnd
<1>6. Judged \cup candidates = Everything
  BY <1>1
<1> QED BY <1>1, <1>5, <1>6, Zenon

(* A judged generation: the front is that of everything received, the      *)
(* count is the number of patches received, and whatever is plausible is   *)
(* among the candidates.                                                   *)
LEMMA JudgeFacts ==
  ASSUME TypeOK, SearchInv, Judge
  PROVE  /\ pc = "head" /\ front' = Nondominated(Everything)
         /\ tried' = Cardinality(received)
         /\ Plausible(candidates) = Plausible(Everything)
<1>1. pc = "head" /\ pc \in InLoop /\ Pending = {}
  BY DEF Judge, Pending, InLoop
<1>2. /\ candidates \subseteq Everything /\ Judged = Everything \ candidates
      /\ Plausible(Judged) = {}
      /\ tried + Cardinality(candidates) + Cardinality(Pending) = Cardinality(received)
  BY <1>1 DEF SearchInv, LoopPart, Judged
<1>3. front' = Nondominated(Everything)
  <2>1. PICK o \in Orders(candidates) : front' = Fronts(front, o)[Cardinality(candidates)]
    BY DEF Judge
  <2> QED BY <1>1, <2>1, FrontAfter
<1>4. tried' = Cardinality(received)
  BY <1>1, <1>2, FS_EmptySet, Finite DEF Judge, TypeOK
<1>5. Plausible(candidates) = Plausible(Everything)
  BY <1>2 DEF Plausible
<1> QED BY <1>1, <1>3, <1>4, <1>5

(* Every request the loop makes is one the source knows. *)
LEMMA RequestType ==
  ASSUME NEW p \in Individual
  PROVE  /\ Random \in Requests /\ Crossover \in Requests
         /\ Mutate(p.ast) \in Requests /\ Mutate(Ori) \in Requests
<1>1. p.ast \in AST /\ Ori \in AST
  BY RepairAssumption DEF Individual, original
<1> QED BY <1>1 DEF Requests

(* The part of TypeOK about the session with the source, and the rest. *)
SourceType == phase \in {"closed", "busy", "ready"} /\ asked \in Requests
LoopType ==
  /\ vulnerable \in Findings
  /\ untargeted \in BOOLEAN /\ numInit \in NumInits /\ maxTrial \in MaxTrials
  /\ pc \in Asking \cup Evaluating \cup InLoop \cup {"done"}
  /\ population \subseteq Individual /\ candidates \subseteq Individual
  /\ parents \subseteq Individual /\ front \subseteq Individual
  /\ asking \in Individual /\ current \in Individual
  /\ tried \in Int
  /\ result \subseteq Individual
  /\ outcome \in {"none", "returned", "cancelled", "raised", "replaced", "concurrent"}
  /\ received \subseteq Patch
  /\ main \in {"waiting", "closed", "raised"}

(* What the loop does to its session: nothing, or one of its operations. *)
SourceMove ==
  \/ UNCHANGED sourceVars
  \/ Source!Open \/ Source!GiveNothing \/ Source!Stop
  \/ \E r \in Requests : Source!Ask(r)
  \/ \E p \in Patch : Source!Give(p)

(* Every step of the loop makes one move in the session with the source. *)
LEMMA StepIsSourceMove ==
  ASSUME TypeOK, Next
  PROVE  SourceMove
<1>1. \A p \in Individual : Mutate(p.ast) \in Requests /\ Mutate(Ori) \in Requests
  BY RequestType
<1>2. original \in Individual
  BY DEF Individual
<1>3. CASE Start
  BY <1>1, <1>2, <1>3 DEF Start, NothingToRepair, OpenSource, FirstPatch, NoMoreInitial,
     GatherInitial, GatherNothing, SecondPatch, SecondEvaluated, NoSecond, Receive, SourceMove
<1>4. CASE Generation
  <2>1. CASE AskParent
    <3>1. PICK p \in Best(parents, 1) : Source!Ask(Mutate(p.ast))
      BY <2>1 DEF AskParent
    <3>2. p \in Individual
      BY DEF TypeOK, Best
    <3> QED BY <1>1, <3>1, <3>2 DEF SourceMove
  <2>2. CASE Generation /\ ~AskParent
    BY <2>2 DEF Generation, ReportPlausible, GiveUp, BeginMutate, MutantReceived, MutantEvaluated,
       NoMutant, NoSource, ParentsDone, CandidatesEvaluated, Receive, SourceMove
  <2> QED BY <1>4, <2>1, <2>2
<1>5. CASE BeginCrossover
  <2>1. Crossover \in Requests
    BY <1>2, RequestType
  <2> QED BY <1>5, <2>1 DEF BeginCrossover, SourceMove
<1>6. CASE Failure
  BY <1>6 DEF Failure, ComparisonRaises, SelectionRaises, CrossoverRaises, EvaluationRaises,
     SourceRaises, SourceMove
<1>7. CASE Timeout \/ MainEnds
  BY <1>7 DEF Timeout, MainEnds, SourceMove
<1> QED BY <1>3, <1>4, <1>5, <1>6, <1>7 DEF Next

(* A move in the session keeps its types. *)
LEMMA SourceTypeStep ==
  ASSUME SourceType, SourceMove
  PROVE  SourceType'
<1>1. Random \in Requests
  BY DEF Requests
<1> QED
  BY <1>1 DEF SourceMove, SourceType, sourceVars, Source!Open, Source!GiveNothing, Source!Stop,
     Source!Ask, Source!Give

(* How repair ends keeps the types. *)
LEMMA EndType ==
  ASSUME LoopType, NEW how \in {"returned", "cancelled", "raised", "replaced", "concurrent"},
         NEW found \in SUBSET Individual, End(how, found),
         population' \subseteq Individual, candidates' \subseteq Individual,
         parents' \subseteq Individual, front' \subseteq Individual,
         asking' \in Individual, current' \in Individual, tried' \in Int
  PROVE  LoopType'
  BY DEF LoopType, End, inputVars, Findings

(* The loop keeps the types of its variables. *)
LEMMA LoopTypeStep ==
  ASSUME TypeOK, SearchInv, Next, LoopType
  PROVE  LoopType'
<1>1. original \in Individual /\ Patch \subseteq Individual
  BY DEF Individual
<1>2. \A S, k : Best(S, k) \subseteq S
  BY DEF Best
<1>3. ASSUME NEW new \in SUBSET Individual, EnterLoop(new)
      PROVE  LoopType'
  <2>1. CASE \E p, q \in population' : Tied(p, q)
    BY <1>1, <1>3, <2>1, EndType DEF EnterLoop, Raise, LoopType
  <2>2. CASE ~ \E p, q \in population' : Tied(p, q)
    BY <1>1, <1>3, <2>2 DEF EnterLoop, Keep, LoopType, InLoop, inputVars, endVars, Findings
  <2> QED BY <2>1, <2>2
<1>4. ASSUME NEW p \in Patch, NEW next \in Evaluating, Receive(p, next)
      PROVE  LoopType'
  BY <1>1, <1>4 DEF Receive, Keep, LoopType, inputVars, endVars, Findings
<1>5. CASE Start
  <2>1. CASE NothingToRepair
    BY <1>1, <2>1, EndType DEF NothingToRepair, LoopType, loopVars
  <2>2. CASE OpenSource
    BY <2>2 DEF OpenSource, LoopType, loopVars, Keep, inputVars, endVars, Asking, Findings
  <2>3. CASE FirstPatch \/ SecondPatch
    BY <1>4, <2>3 DEF FirstPatch, SecondPatch, Evaluating
  <2>4. CASE NoMoreInitial \/ GatherNothing \/ SecondEvaluated \/ NoSecond
    BY <1>3, <2>4 DEF NoMoreInitial, GatherNothing, SecondEvaluated, NoSecond, LoopType
  <2>5. CASE GatherInitial
    <3>1. CASE numInit > 2
      BY <2>5, <3>1, EndType DEF GatherInitial, LoopType
    <3>2. CASE ~(numInit > 2)
      BY <2>5, <3>2 DEF GatherInitial, LoopType, Keep, inputVars, endVars, Asking, Findings
    <3> QED BY <3>1, <3>2
  <2> QED BY <1>5, <2>1, <2>2, <2>3, <2>4, <2>5 DEF Start
<1>6. ASSUME Judge
      PROVE  front' \subseteq Individual /\ tried' \in Int
  <2>1. front' = Nondominated(Everything) /\ tried' = Cardinality(received)
    BY <1>6, JudgeFacts
  <2>2. Everything \subseteq Individual /\ Cardinality(received) \in Nat
    BY Finite
  <2> QED BY <2>1, <2>2 DEF Nondominated
<1>7. ASSUME NEW p \in Individual, RemoveParent(p)
      PROVE  LoopType'
  <2>1. CASE population' = {}
    BY <1>7, <2>1, EndType DEF RemoveParent, ReturnNothing, LoopType
  <2>2. CASE population' # {}
    BY <1>7, <2>2 DEF RemoveParent, Keep, LoopType, inputVars, endVars, InLoop, Findings
  <2> QED BY <2>1, <2>2
<1>8. ASSUME NextGeneration, Select
      PROVE  /\ population' \subseteq Individual /\ parents' \subseteq Individual
             /\ candidates' \subseteq Individual
  BY <1>2, <1>8 DEF Select, Selections, LoopType
<1>9. CASE Generation
  <2>1. CASE ReportPlausible
    BY <1>6, <2>1, EndType DEF ReportPlausible, Plausible, LoopType
  <2>2. CASE GiveUp
    BY <1>6, <2>2, EndType DEF GiveUp, ReturnNothing, LoopType
  <2>3. CASE BeginMutate
    BY <1>6, <1>8, <2>3 DEF BeginMutate, NextGeneration, Select, Keep, LoopType, inputVars,
       endVars, InLoop, Findings
  <2>4. CASE AskParent
    BY <1>2, <2>4 DEF AskParent, Keep, LoopType, inputVars, endVars, InLoop, Findings
  <2>5. CASE MutantReceived
    BY <1>4, <2>5 DEF MutantReceived, Evaluating
  <2>6. CASE MutantEvaluated
    BY <2>6 DEF MutantEvaluated, Keep, LoopType, inputVars, endVars, InLoop, Findings
  <2>7. CASE NoMutant
    BY <1>7, <2>7 DEF NoMutant, LoopType
  <2>8. CASE NoSource
    BY <1>2, <1>7, <2>8 DEF NoSource, LoopType
  <2>9. CASE ParentsDone \/ CandidatesEvaluated
    BY <2>9 DEF ParentsDone, CandidatesEvaluated, Keep, LoopType, loopVars, inputVars, endVars,
       InLoop, Findings
  <2> QED
    BY <1>9, <2>1, <2>2, <2>3, <2>4, <2>5, <2>6, <2>7, <2>8, <2>9 DEF Generation
<1>10. CASE BeginCrossover
  BY <1>6, <1>8, <1>10 DEF BeginCrossover, NextGeneration, Select, Keep, LoopType, inputVars,
     endVars, InLoop, Findings
<1>11. CASE Failure
  BY <1>6, <1>11, EndType DEF Failure, ComparisonRaises, SelectionRaises, CrossoverRaises,
     EvaluationRaises, SourceRaises, Raise, NextGeneration, loopVars, LoopType
<1>12. CASE Timeout
  BY <1>12, EndType DEF Timeout, loopVars, LoopType
<1>13. CASE MainEnds
  BY <1>13 DEF MainEnds, LoopType, inputVars, loopVars, endVars, Findings
<1> QED BY <1>5, <1>9, <1>10, <1>11, <1>12, <1>13 DEF Next

(* Every step keeps the types. *)
LEMMA TypeStep ==
  ASSUME TypeOK, SearchInv, [Next]_vars
  PROVE  TypeOK'
<1>1. SourceType /\ LoopType
  BY DEF TypeOK, SourceType, LoopType, Findings
<1>2. CASE Next
  <2>1. SourceType' /\ LoopType'
    BY <1>1, <1>2, StepIsSourceMove, SourceTypeStep, LoopTypeStep
  <2> QED BY <2>1 DEF TypeOK, SourceType, LoopType, Findings
<1>3. CASE UNCHANGED vars
  BY <1>3 DEF TypeOK, vars, inputVars, loopVars, endVars, sourceVars
<1> QED BY <1>2, <1>3

---------------------------------------------------------------------------
(* The session and the patches received *)

(* A patch just received was not received before: the source gives fresh   *)
(* ones only.                                                              *)
LEMMA ReceiveFresh ==
  ASSUME TypeOK, SearchInv, NEW p \in Patch, NEW next, Receive(p, next)
  PROVE  /\ p \notin Everything /\ given' = received'
         /\ received' = received \cup {p} /\ Everything' = Everything \cup {p}
         /\ Cardinality(received') = Cardinality(received) + 1
         /\ IsFiniteSet(received')
<1>1. phase = "busy" /\ \A q \in given : p.space = q.space => p.num # q.num /\ p.ast # q.ast
  BY DEF Receive, Source!Give, Source!Fresh
<1>2. given = received /\ IsFiniteSet(received)
  BY <1>1 DEF SearchInv
<1>3. p \notin received
  BY <1>1, <1>2
<1>4. p \notin Everything
  BY <1>3, OriginalAssumption DEF Everything
<1>5. received' = received \cup {p} /\ given' = given \cup {p}
  BY DEF Receive, Source!Give
<1>6. Cardinality(received') = Cardinality(received) + 1 /\ IsFiniteSet(received')
  BY <1>2, <1>3, <1>5, FS_AddElement
<1> QED BY <1>2, <1>4, <1>5, <1>6 DEF Everything

(* A patch is received at one of three awaits. *)
Receives ==
  \E p \in Patch :
    \/ pc = "first" /\ Receive(p, "evalFirst")
    \/ pc = "second" /\ Receive(p, "evalSecond")
    \/ pc = "asked" /\ Receive(p, "evalMutant")

(* Nothing is received, and the session is not opened. *)
Silent ==
  /\ UNCHANGED received
  /\ \/ UNCHANGED sourceVars \/ Source!GiveNothing \/ Source!Stop
     \/ \E r : Source!Ask(r)

(* A step opens the session, receives a patch or leaves what was received  *)
(* alone.                                                                  *)
LEMMA ReceivesOrSilent ==
  ASSUME Next
  PROVE  OpenSource \/ Receives \/ Silent
<1>1. CASE Start
  BY <1>1 DEF Start, NothingToRepair, FirstPatch, NoMoreInitial, GatherInitial,
     GatherNothing, SecondPatch, SecondEvaluated, NoSecond, EnterLoop, Raise, End, Silent, Receives
<1>2. CASE Generation
  BY <1>2 DEF Generation, ReportPlausible, GiveUp, ReturnNothing, BeginMutate, Select, AskParent,
     MutantReceived, MutantEvaluated, NoMutant, NoSource, RemoveParent, ParentsDone,
     CandidatesEvaluated, End, Silent, Receives
<1>3. CASE BeginCrossover \/ Failure \/ Timeout \/ MainEnds
  BY <1>3 DEF BeginCrossover, Select, Failure, ComparisonRaises, SelectionRaises, CrossoverRaises,
     EvaluationRaises, SourceRaises, Timeout, MainEnds, Raise, End, Silent
<1> QED BY <1>1, <1>2, <1>3 DEF Next

(* The open session gave exactly what the loop received. *)
LEMMA SessionStep ==
  ASSUME TypeOK, SearchInv, Next
  PROVE  /\ IsFiniteSet(received')
         /\ phase' # "closed" => given' = received'
<1>1. CASE OpenSource
  BY <1>1 DEF OpenSource, Source!Open, SearchInv, InitialPart
<1>2. CASE Receives
  BY <1>2, ReceiveFresh DEF Receives
<1>3. CASE Silent
  BY <1>3 DEF Silent, sourceVars, Source!GiveNothing, Source!Stop, Source!Ask, SearchInv
<1> QED BY <1>1, <1>2, <1>3, ReceivesOrSilent

(* What the detectors find and the arguments of repair never change. *)
LEMMA InputsFixed ==
  ASSUME Next
  PROVE  UNCHANGED inputVars
<1> USE DEF Keep, End, Raise
<1>1. CASE Start
  BY <1>1 DEF Start, NothingToRepair, OpenSource, FirstPatch, NoMoreInitial, GatherInitial,
     GatherNothing, SecondPatch, SecondEvaluated, NoSecond, EnterLoop, Receive
<1>2. CASE Generation
  BY <1>2 DEF Generation, ReportPlausible, GiveUp, ReturnNothing, BeginMutate,
     Select, AskParent, MutantReceived, MutantEvaluated, NoMutant, NoSource,
     RemoveParent, ParentsDone, CandidatesEvaluated, Receive
<1>3. CASE BeginCrossover \/ Failure \/ Timeout \/ MainEnds
  BY <1>3 DEF BeginCrossover, Select, Failure, ComparisonRaises,
     SelectionRaises, CrossoverRaises, EvaluationRaises, SourceRaises, Timeout, MainEnds
<1> QED BY <1>1, <1>2, <1>3 DEF Next

(* Until repair ends it has no outcome. *)
LEMMA OutcomeStep ==
  ASSUME SearchInv, Next
  PROVE  pc' # "done" => outcome' = "none"
<1> USE DEF SearchInv, Keep, endVars, End
<1>1. CASE Start
  BY <1>1 DEF Start, NothingToRepair, OpenSource, FirstPatch, NoMoreInitial, GatherInitial,
     GatherNothing, SecondPatch, SecondEvaluated, NoSecond, EnterLoop, Raise, Receive
<1>2. CASE Generation
  BY <1>2 DEF Generation, ReportPlausible, GiveUp, ReturnNothing, BeginMutate, Judge,
     NextGeneration, Select, AskParent, MutantReceived, MutantEvaluated, NoMutant, NoSource,
     RemoveParent, ParentsDone, CandidatesEvaluated, Receive
<1>3. CASE BeginCrossover \/ Failure \/ Timeout \/ MainEnds
  BY <1>3 DEF BeginCrossover, NextGeneration, Judge, Select, Failure, ComparisonRaises,
     SelectionRaises, CrossoverRaises, EvaluationRaises, SourceRaises, Timeout, MainEnds, Raise
<1> QED BY <1>1, <1>2, <1>3 DEF Next

---------------------------------------------------------------------------
(* The parts of SearchInv *)

Parts == InitialPart /\ LoopPart /\ ParentPart

(* Nothing is required of the search once it has ended. *)
LEMMA DoneParts ==
  ASSUME pc' = "done"
  PROVE  Parts'
  BY DEF Parts, InitialPart, LoopPart, ParentPart, InLoop

(* What is plausible, and what is dominated, is fixed by the contracts. *)
LEMMA SameFitness ==
  ASSUME UNCHANGED vulnerable, NEW J, Judged' = J
  PROVE  /\ Plausible(Judged)' = Plausible(J)
         /\ Nondominated(Judged)' = Nondominated(J)
  BY DEF Plausible, isPatchPlausible, Nondominated, dominates, Hard

(* The loop is entered with everything received as candidates. *)
LEMMA EnterLoopParts ==
  ASSUME TypeOK, SearchInv, EnterLoop(received), pc \notin InLoop \cup {"done"}
  PROVE  Parts'
<1>1. CASE \E p, q \in population' : Tied(p, q)
  BY <1>1, DoneParts DEF EnterLoop, Raise, End
<1>2. CASE ~ \E p, q \in population' : Tied(p, q)
  <2>1. /\ pc' = "head" /\ candidates' = Everything' /\ population' = Everything'
        /\ UNCHANGED <<vulnerable, received, front>> /\ tried' = -1
    BY <1>2 DEF EnterLoop, Keep, inputVars, Everything
  <2>2. Pending' = {} /\ Judged' = {}
    BY <2>1 DEF Pending, Judged
  <2>3. Plausible(Judged)' = {} /\ Nondominated(Judged)' = {} /\ front' = {}
    BY <2>1, <2>2, SameFitness DEF Plausible, Nondominated, SearchInv, InitialPart
  <2>4. tried' + Cardinality(candidates') + Cardinality(Pending') = Cardinality(received')
    BY <2>1, <2>2, Finite, FS_EmptySet DEF Everything
  <2>5. LoopPart'
    BY <2>1, <2>2, <2>3, <2>4 DEF LoopPart, Everything
  <2>6. InitialPart' /\ ParentPart'
    BY <2>1 DEF InitialPart, ParentPart, InLoop
  <2> QED BY <2>5, <2>6 DEF Parts
<1> QED BY <1>1, <1>2

(* The initial population is gathered. *)
LEMMA StartParts ==
  ASSUME TypeOK, SearchInv, Start
  PROVE  Parts'
<1>1. CASE NothingToRepair
  BY <1>1, DoneParts DEF NothingToRepair, End
<1>2. CASE OpenSource
  BY <1>2 DEF OpenSource, Keep, loopVars, SearchInv, Parts, InitialPart, LoopPart, ParentPart, InLoop
<1>3. CASE FirstPatch
  <2>1. PICK p \in Patch : Receive(p, "evalFirst") /\ pc = "first"
    BY <1>3 DEF FirstPatch
  <2> QED
    BY <2>1 DEF Receive, SearchInv, Parts, InitialPart, LoopPart, ParentPart, InLoop
<1>4. CASE NoMoreInitial
  BY <1>4, EnterLoopParts DEF NoMoreInitial, SearchInv, InitialPart, InLoop
<1>5. CASE GatherInitial
  <2>1. CASE numInit > 2
    BY <1>5, <2>1, DoneParts DEF GatherInitial, End
  <2>2. CASE ~(numInit > 2)
    <3>1. pc' = "second" /\ pc = "evalFirst" /\ candidates' = {current} /\ numInit > 1
          /\ UNCHANGED <<numInit, received, current, front>>
      BY <1>5, <2>2 DEF GatherInitial, Keep, inputVars
    <3>2. Cardinality(candidates') = 1
      BY <3>1, FS_Singleton
    <3> QED
      BY <3>1, <3>2 DEF SearchInv, Parts, InitialPart, LoopPart, ParentPart, InLoop, Pending
  <2> QED BY <2>1, <2>2
<1>6. CASE GatherNothing
  BY <1>6, EnterLoopParts DEF GatherNothing, SearchInv, InitialPart, InLoop
<1>7. CASE SecondPatch
  <2>1. PICK p \in Patch : Receive(p, "evalSecond") /\ pc = "second"
    BY <1>7 DEF SecondPatch
  <2> QED
    BY <2>1 DEF Receive, Keep, inputVars, SearchInv, Parts, InitialPart, LoopPart, ParentPart,
       InLoop, Pending
<1>8. CASE SecondEvaluated
  BY <1>8, EnterLoopParts DEF SecondEvaluated, SearchInv, InitialPart, InLoop, Pending
<1>9. CASE NoSecond
  BY <1>9, EnterLoopParts DEF NoSecond, SearchInv, InitialPart, InLoop, Pending
<1> QED
  BY <1>1, <1>2, <1>3, <1>4, <1>5, <1>6, <1>7, <1>8, <1>9 DEF Start

(* The selection leaves somebody and takes no more parents than it may. *)
LEMMA SelectFacts ==
  ASSUME TypeOK, SearchInv, pc = "head", Select
  PROVE  /\ population' \subseteq population /\ population' # {}
         /\ parents' \subseteq population' /\ Cardinality(parents') <= NumParents
<1>1. pc \in InLoop
  BY DEF InLoop
<1>2. population # {} /\ population \in SUBSET Individual /\ IsFiniteSet(population)
  BY <1>1, Finite DEF SearchInv, LoopPart, TypeOK
<1>3. population' \in Selections(population)
  BY DEF Select
<1>4. population' \in SUBSET population
  BY <1>3 DEF Selections
<1>5. IsFiniteSet(population')
  BY <1>2, <1>4, FS_Subset
<1>6. population' # {}
  <2>1. Cardinality(population) \in Nat /\ Cardinality(population) # 0
    BY <1>2, FS_EmptySet, FS_CardinalityType
  <2>2. Cardinality(population') # 0
    BY <1>3, <2>1, RepairAssumption DEF Selections
  <2> QED BY <2>2, FS_EmptySet
<1>7. vulnerable \in Findings
  BY DEF TypeOK, Findings
<1>8. \A p, q \in population' : ~Tied(p, q)
  BY <1>4 DEF Select
<1>9. parents' = Best(population', NumParents)
  BY DEF Select
<1>10. population' \in SUBSET Individual /\ NumParents \in Nat
  BY <1>2, <1>4, RepairAssumption
<1> QED BY <1>4, <1>5, <1>6, <1>7, <1>8, <1>9, <1>10, BestBounded

(* A new generation begins. *)
LEMMA SelectParts ==
  ASSUME TypeOK, SearchInv, NextGeneration, Select, pc' \in {"parent", "crossing", "evaluate"}
  PROVE  Parts'
<1>1. /\ pc = "head" /\ front' = Nondominated(Everything)
      /\ tried' = Cardinality(received)
      /\ Plausible(Everything) = {}
  BY JudgeFacts DEF NextGeneration
<1>2. /\ population' \subseteq population /\ population' # {}
      /\ parents' \subseteq population' /\ Cardinality(parents') <= NumParents
  BY <1>1, SelectFacts
<1>3. candidates' = {} /\ UNCHANGED <<vulnerable, maxTrial, received>>
  BY DEF Select, Keep, inputVars
<1>4. Pending' = {} /\ Judged' = Everything /\ Everything' = Everything
  BY <1>3 DEF Pending, Judged, Everything
<1>5. population \subseteq Everything
  BY <1>1 DEF SearchInv, LoopPart, InLoop
<1>6. LoopPart'
  <2>1. Plausible(Judged)' = {} /\ front' = Nondominated(Judged)'
    BY <1>1, <1>3, <1>4, SameFitness
  <2>2. tried' + Cardinality(candidates') + Cardinality(Pending') = Cardinality(received')
    BY <1>1, <1>3, <1>4, FS_EmptySet, Finite
  <2> QED BY <1>2, <1>3, <1>4, <1>5, <2>1, <2>2 DEF LoopPart
<1>7. ParentPart'
  <2>1. Cardinality(candidates') + Cardinality(parents') <= NumParents
    <3>1. IsFiniteSet(parents') /\ Cardinality(parents') \in Nat
      <4>1. parents' \in SUBSET population
        BY <1>2
      <4>2. IsFiniteSet(population)
        BY <1>1, Finite DEF InLoop
      <4> QED BY <4>1, <4>2, FS_Subset, FS_CardinalityType
    <3> QED BY <1>2, <1>3, <3>1, FS_EmptySet
  <2>2. maxTrial' # NoLimit => tried' < maxTrial'
    <3>1. maxTrial # NoLimit => maxTrial \in Nat
      BY RepairAssumption DEF TypeOK
    <3>2. tried' \in Nat
      BY <1>1, Finite
    <3> QED BY <1>3, <3>1, <3>2 DEF NextGeneration, TrialsUsedUp
  <2> QED BY <1>2, <1>3, <2>1, <2>2 DEF ParentPart
<1>8. InitialPart'
  BY DEF InitialPart, InLoop
<1> QED BY <1>6, <1>7, <1>8 DEF Parts

(* A mutant is received for a parent. *)
LEMMA MutantReceivedParts ==
  ASSUME TypeOK, SearchInv, MutantReceived
  PROVE  Parts'
<1>1. PICK p \in Patch : Receive(p, "evalMutant") /\ pc = "asked"
  BY DEF MutantReceived
<1>2. pc' = "evalMutant" /\ current' = p
      /\ UNCHANGED <<vulnerable, maxTrial, population, candidates, parents, asking, front, tried>>
  BY <1>1 DEF Receive, Keep, inputVars
<1>3. /\ p \notin Everything /\ Everything' = Everything \cup {p}
      /\ Cardinality(received') = Cardinality(received) + 1
  BY <1>1, ReceiveFresh
<1>4. Pending = {} /\ Pending' = {p}
  BY <1>1, <1>2 DEF Pending
<1>5. /\ candidates \subseteq Everything /\ population \subseteq Everything
      /\ population # {} /\ Plausible(Judged) = {} /\ front = Nondominated(Judged)
      /\ tried + Cardinality(candidates) + Cardinality(Pending) = Cardinality(received)
  BY <1>1 DEF SearchInv, LoopPart, InLoop
<1>6. Judged' = Judged
  BY <1>2, <1>3, <1>4, <1>5 DEF Judged
<1>7. LoopPart'
  <2>1. Plausible(Judged)' = {} /\ front' = Nondominated(Judged)'
    BY <1>2, <1>5, <1>6, SameFitness
  <2>2. Cardinality(candidates) \in Nat /\ tried \in Int
    BY <1>1, Finite DEF InLoop, TypeOK
  <2>3. Cardinality(Pending) = 0 /\ Cardinality(Pending') = 1
    BY <1>4, FS_EmptySet, FS_Singleton
  <2>4. tried' + Cardinality(candidates') + Cardinality(Pending') = Cardinality(received')
    BY <1>2, <1>3, <1>5, <2>2, <2>3
  <2> QED BY <1>2, <1>3, <1>4, <1>5, <2>1, <2>4 DEF LoopPart
<1>8. ParentPart'
  BY <1>1, <1>2 DEF SearchInv, ParentPart, InLoop
<1>9. InitialPart'
  BY <1>2 DEF InitialPart, InLoop
<1> QED BY <1>7, <1>8, <1>9 DEF Parts

(* ... and becomes a candidate; its parent stays in the population. *)
LEMMA MutantEvaluatedParts ==
  ASSUME TypeOK, SearchInv, MutantEvaluated
  PROVE  Parts'
<1>1. /\ pc = "evalMutant" /\ pc' = "parent" /\ candidates' = candidates \cup {current}
      /\ parents' = parents \ {asking}
      /\ UNCHANGED <<vulnerable, maxTrial, population, front, tried, received>>
  BY DEF MutantEvaluated, Keep, inputVars
<1>2. Pending = {current} /\ Pending' = {} /\ Everything' = Everything
  BY <1>1 DEF Pending, Everything
<1>3. /\ candidates \cup Pending \cup population \subseteq Everything
      /\ candidates \cap Pending = {} /\ population # {}
      /\ Plausible(Judged) = {} /\ front = Nondominated(Judged)
      /\ tried + Cardinality(candidates) + Cardinality(Pending) = Cardinality(received)
  BY <1>1 DEF SearchInv, LoopPart, InLoop
<1>4. /\ parents \subseteq population /\ asking \in parents
      /\ Cardinality(candidates) + Cardinality(parents) <= NumParents
      /\ maxTrial # NoLimit => tried < maxTrial
  BY <1>1 DEF SearchInv, ParentPart, InLoop
<1>5. Judged' = Judged
  BY <1>1, <1>2 DEF Judged
<1>6. /\ IsFiniteSet(candidates) /\ IsFiniteSet(parents)
      /\ Cardinality(candidates) \in Nat /\ Cardinality(parents) \in Nat
  BY <1>1, Finite, FS_CardinalityType DEF InLoop
<1>7. /\ Cardinality(candidates') = Cardinality(candidates) + 1
      /\ Cardinality(parents') = Cardinality(parents) - 1
  BY <1>1, <1>2, <1>3, <1>4, <1>6, FS_AddElement, FS_RemoveElement
<1>8. LoopPart'
  <2>1. Plausible(Judged)' = {} /\ front' = Nondominated(Judged)'
    BY <1>1, <1>3, <1>5, SameFitness
  <2>2. Cardinality(Pending) = 1 /\ Cardinality(Pending') = 0
    BY <1>2, FS_EmptySet, FS_Singleton
  <2>3. tried' + Cardinality(candidates') + Cardinality(Pending') = Cardinality(received')
    BY <1>1, <1>3, <1>6, <1>7, <2>2 DEF TypeOK
  <2> QED BY <1>1, <1>2, <1>3, <2>1, <2>3 DEF LoopPart
<1>9. ParentPart'
  <2>1. parents' \subseteq population' /\ asking \in population' \ parents'
    BY <1>1, <1>4
  <2>2. Cardinality(candidates') + Cardinality(parents') <= NumParents
    BY <1>4, <1>6, <1>7
  <2> QED BY <1>1, <1>4, <2>1, <2>2 DEF ParentPart
<1>10. InitialPart'
  BY <1>1 DEF InitialPart, InLoop
<1> QED BY <1>8, <1>9, <1>10 DEF Parts

(* A parent without a mutant leaves. *)
LEMMA RemoveParentParts ==
  ASSUME TypeOK, SearchInv, pc \in {"parent", "asked"}, NEW p \in parents, RemoveParent(p)
  PROVE  Parts'
<1>1. CASE population' = {}
  BY <1>1, DoneParts DEF RemoveParent, ReturnNothing, End
<1>2. CASE population' # {}
  <2>1. /\ pc' = "parent" /\ population' = population \ {p} /\ parents' = parents \ {p}
        /\ UNCHANGED <<vulnerable, maxTrial, candidates, front, tried, received>>
    BY <1>2 DEF RemoveParent, Keep, inputVars
  <2>2. Pending = {} /\ Pending' = {} /\ Everything' = Everything /\ Judged' = Judged
    BY <2>1 DEF Pending, Everything, Judged
  <2>3. LoopPart'
    <3>1. Plausible(Judged)' = Plausible(Judged) /\ Nondominated(Judged)' = Nondominated(Judged)
      BY <2>1, <2>2, SameFitness
    <3> QED BY <1>2, <2>1, <2>2, <3>1 DEF SearchInv, LoopPart, InLoop
  <2>4. ParentPart'
    <3>1. /\ parents \subseteq population
          /\ candidates # {} => population \ parents # {}
          /\ Cardinality(candidates) + Cardinality(parents) <= NumParents
          /\ maxTrial # NoLimit => tried < maxTrial
      BY DEF SearchInv, ParentPart, InLoop
    <3>2. population' \ parents' = population \ parents
      BY <2>1, <3>1
    <3>3. /\ IsFiniteSet(parents) /\ Cardinality(parents) \in Nat
          /\ Cardinality(candidates) \in Nat
      BY Finite, FS_CardinalityType DEF InLoop
    <3>4. Cardinality(parents') = Cardinality(parents) - 1
      BY <2>1, <3>3, FS_RemoveElement
    <3>5. Cardinality(candidates') + Cardinality(parents') <= NumParents
      BY <2>1, <3>1, <3>3, <3>4, RepairAssumption
    <3> QED BY <2>1, <3>1, <3>2, <3>5 DEF ParentPart
  <2>5. InitialPart'
    BY <2>1 DEF InitialPart, InLoop
  <2> QED BY <2>3, <2>4, <2>5 DEF Parts
<1> QED BY <1>1, <1>2

(* The loop over the generations. *)
LEMMA GenerationParts ==
  ASSUME TypeOK, SearchInv, Generation
  PROVE  Parts'
<1>1. \A S, k : Best(S, k) \subseteq S
  BY DEF Best
<1>2. CASE ReportPlausible \/ GiveUp
  BY <1>2, DoneParts DEF ReportPlausible, GiveUp, ReturnNothing, End
<1>3. CASE BeginMutate
  BY <1>3, SelectParts DEF BeginMutate
<1>4. CASE AskParent
  <2>1. /\ pc = "parent" /\ pc' = "asked" /\ asking' \in parents
        /\ UNCHANGED <<vulnerable, maxTrial, population, candidates, parents, current, front,
                       tried, received>>
    BY <1>1, <1>4 DEF AskParent, Keep, inputVars
  <2>2. Pending = {} /\ Pending' = {} /\ Everything' = Everything /\ Judged' = Judged
    BY <2>1 DEF Pending, Everything, Judged
  <2>3. Plausible(Judged)' = Plausible(Judged) /\ Nondominated(Judged)' = Nondominated(Judged)
    BY <2>1, <2>2, SameFitness
  <2> QED BY <2>1, <2>2, <2>3 DEF SearchInv, Parts, InitialPart, LoopPart, ParentPart, InLoop
<1>5. CASE MutantReceived
  BY <1>5, MutantReceivedParts
<1>6. CASE MutantEvaluated
  BY <1>6, MutantEvaluatedParts
<1>7. CASE NoMutant
  <2>1. pc = "asked" /\ asking \in parents /\ RemoveParent(asking)
    BY <1>7 DEF NoMutant, SearchInv, ParentPart, InLoop
  <2> QED BY <2>1, RemoveParentParts
<1>8. CASE NoSource
  BY <1>1, <1>8, RemoveParentParts DEF NoSource
<1>9. CASE ParentsDone \/ CandidatesEvaluated
  <2>1. /\ pc \in {"parent", "evaluate"} /\ pc' \in {"evaluate", "head"}
        /\ pc' = "head" => population' = population \cup candidates
        /\ pc' = "evaluate" => population' = population
        /\ UNCHANGED <<vulnerable, maxTrial, candidates, parents, front, tried, received>>
    BY <1>9 DEF ParentsDone, CandidatesEvaluated, Keep, inputVars, loopVars
  <2>2. Pending = {} /\ Pending' = {} /\ Everything' = Everything /\ Judged' = Judged
    BY <2>1 DEF Pending, Everything, Judged
  <2>3. Plausible(Judged)' = Plausible(Judged) /\ Nondominated(Judged)' = Nondominated(Judged)
    BY <2>1, <2>2, SameFitness
  <2> QED BY <2>1, <2>2, <2>3 DEF SearchInv, Parts, InitialPart, LoopPart, ParentPart, InLoop
<1> QED
  BY <1>2, <1>3, <1>4, <1>5, <1>6, <1>7, <1>8, <1>9 DEF Generation

(* SearchInv is inductive. *)
LEMMA SearchStep ==
  ASSUME TypeOK, SearchInv, [Next]_vars
  PROVE  SearchInv'
<1>1. CASE Next
  <2>1. Parts'
    <3>1. CASE Start
      BY <3>1, StartParts
    <3>2. CASE Generation
      BY <3>2, GenerationParts
    <3>3. CASE BeginCrossover
      BY <3>3, SelectParts DEF BeginCrossover
    <3>4. CASE Failure \/ Timeout
      BY <3>4, DoneParts DEF Failure, ComparisonRaises, SelectionRaises, CrossoverRaises,
         EvaluationRaises, SourceRaises, Timeout, Raise, End
    <3>5. CASE MainEnds
      BY <3>5, DoneParts DEF MainEnds
    <3> QED BY <1>1, <3>1, <3>2, <3>3, <3>4, <3>5 DEF Next
  <2> QED BY <1>1, <2>1, SessionStep, OutcomeStep DEF SearchInv, Parts
<1>2. CASE UNCHANGED vars
  <2>1. Pending' = Pending /\ Everything' = Everything /\ Judged' = Judged
    BY <1>2 DEF vars, inputVars, loopVars, Pending, Everything, Judged
  <2>2. Plausible(Judged)' = Plausible(Judged) /\ Nondominated(Judged)' = Nondominated(Judged)
    BY <1>2, <2>1, SameFitness DEF vars, inputVars
  <2> QED
    BY <1>2, <2>1, <2>2 DEF vars, inputVars, loopVars, endVars, sourceVars, SearchInv,
       InitialPart, LoopPart, ParentPart
<1> QED BY <1>1, <1>2

(* The search begins in a state that satisfies SearchInv. *)
LEMMA SearchInit == Init => SearchInv
<1> SUFFICES ASSUME Init PROVE SearchInv
  OBVIOUS
<1>1. IsFiniteSet(received)
  BY FS_EmptySet DEF Init
<1>2. phase = "closed"
  BY DEF Init, Source!Init
<1> QED
  BY <1>1, <1>2 DEF Init, SearchInv, InitialPart, LoopPart, ParentPart, InLoop

(* The types of the search are kept, and the bookkeeping that ties the     *)
(* coroutine's variables to the patches it received holds at every await.  *)
THEOREM SearchCorrect == Spec => [](TypeOK /\ SearchInv)
<1>1. Init => TypeOK /\ SearchInv
  BY InitType, SearchInit
<1>2. TypeOK /\ SearchInv /\ [Next]_vars => (TypeOK /\ SearchInv)'
  BY TypeStep, SearchStep
<1> QED BY <1>1, <1>2, PTL DEF Spec

(* Every variable of the search keeps its type. *)
THEOREM TypeCorrect == Spec => []TypeOK
<1>1. TypeOK /\ SearchInv => TypeOK
  OBVIOUS
<1> QED BY <1>1, SearchCorrect, PTL

---------------------------------------------------------------------------
(* The invariants *)

(* A new generation always finds somebody to mutate, whatever was removed  *)
(* from the population.                                                    *)
THEOREM PopulationCorrect == Spec => []PopulationNotEmpty
<1>1. TypeOK /\ SearchInv => PopulationNotEmpty
  BY DEF SearchInv, LoopPart, PopulationNotEmpty, InLoop
<1> QED BY <1>1, SearchCorrect, PTL

(* num_patch_tried is the number of patches received, at every judgement.  *)
THEOREM TriesCorrect == Spec => []TriesCounted
<1>1. TypeOK /\ SearchInv => TriesCounted
  <2> SUFFICES ASSUME TypeOK, SearchInv, pc = "head"
               PROVE  tried + Cardinality(candidates) = Cardinality(received)
    BY DEF TriesCounted
  <2>1. tried + Cardinality(candidates) + Cardinality(Pending) = Cardinality(received)
    BY DEF SearchInv, LoopPart, InLoop
  <2>2. Cardinality(Pending) = 0
    BY FS_EmptySet DEF Pending
  <2>3. Cardinality(candidates) \in Nat /\ tried \in Int
    BY Finite DEF InLoop, TypeOK
  <2> QED BY <2>1, <2>2, <2>3
<1> QED BY <1>1, SearchCorrect, PTL

(* The front carried from generation to generation becomes the Pareto      *)
(* front of everything received, in whatever order the candidates are      *)
(* added: nothing is lost by forgetting dominated ones.                    *)
THEOREM FrontCorrect == Spec => []FrontExact
<1>1. TypeOK /\ SearchInv => FrontExact
  BY FrontAfter DEF FrontExact
<1> QED BY <1>1, SearchCorrect, PTL

(* maxTrial is overshot by less than one generation: TrialsBounded is kept *)
(* by a step that receives nothing, and a mutant is only received for a    *)
(* parent that has not had one.                                            *)
THEOREM TrialsCorrect == Spec => []TrialsBounded
<1>1. Init => TrialsBounded
  <2> SUFFICES ASSUME Init PROVE Cardinality(received) <= numInit
    BY DEF TrialsBounded
  <2>1. Cardinality(received) = 0
    BY FS_EmptySet DEF Init
  <2> QED BY <2>1, RepairAssumption DEF Init
<1>2. TypeOK /\ SearchInv /\ TrialsBounded /\ [Next]_vars => TrialsBounded'
  <2> SUFFICES ASSUME TypeOK, SearchInv, TrialsBounded, [Next]_vars
               PROVE  TrialsBounded'
    OBVIOUS
  <2>1. numInit \in Nat \ {0} /\ (maxTrial # NoLimit => maxTrial \in Nat)
    BY RepairAssumption DEF TypeOK
  <2>2. CASE Receives /\ Next
    <3>1. PICK p \in Patch :
             \/ pc = "first" /\ Receive(p, "evalFirst")
             \/ pc = "second" /\ Receive(p, "evalSecond")
             \/ pc = "asked" /\ Receive(p, "evalMutant")
      BY <2>2 DEF Receives
    <3>2. UNCHANGED <<numInit, maxTrial>>
      BY <3>1 DEF Receive, Keep, inputVars
    <3>3. Cardinality(received') = Cardinality(received) + 1 /\ Cardinality(received) \in Nat
      BY <3>1, ReceiveFresh, Finite
    <3>4. CASE pc = "first"
      <4>1. Cardinality(received) = 0
        BY <3>4, FS_EmptySet DEF SearchInv, InitialPart
      <4> QED BY <2>1, <3>2, <3>3, <4>1 DEF TrialsBounded
    <3>5. CASE pc = "second"
      <4>1. Cardinality(received) = 1 /\ numInit > 1
        BY <3>5, FS_Singleton DEF SearchInv, InitialPart
      <4> QED BY <2>1, <3>2, <3>3, <4>1 DEF TrialsBounded
    <3>6. CASE pc = "asked"
      <4>1. /\ Cardinality(candidates) + Cardinality(parents) <= NumParents
            /\ asking \in parents /\ (maxTrial # NoLimit => tried < maxTrial)
        BY <3>6 DEF SearchInv, ParentPart, InLoop
      <4>2. tried + Cardinality(candidates) + Cardinality(Pending) = Cardinality(received)
        BY <3>6 DEF SearchInv, LoopPart, InLoop
      <4>3. Cardinality(Pending) = 0
        BY <3>6, FS_EmptySet DEF Pending
      <4>4. IsFiniteSet(parents) /\ Cardinality(candidates) \in Nat /\ tried \in Int
        BY <3>6, Finite DEF InLoop, TypeOK
      <4>5. Cardinality(parents) \in Nat /\ Cardinality(parents) # 0
        BY <4>1, <4>4, FS_EmptySet, FS_CardinalityType
      <4>6. maxTrial # NoLimit => Cardinality(received') < maxTrial + NumParents
        BY <2>1, <3>3, <4>1, <4>2, <4>3, <4>4, <4>5, RepairAssumption
      <4> QED BY <3>2, <4>6 DEF TrialsBounded
    <3> QED BY <3>1, <3>4, <3>5, <3>6
  <2>3. CASE UNCHANGED <<received, numInit, maxTrial>>
    BY <2>3 DEF TrialsBounded
  <2>4. CASE Next /\ ~Receives
    <3>1. UNCHANGED received
      BY <2>4, ReceivesOrSilent DEF OpenSource, Silent
    <3>2. UNCHANGED <<numInit, maxTrial>>
      BY <2>4, InputsFixed DEF inputVars
    <3> QED BY <2>3, <3>1, <3>2
  <2> QED
    BY <2>2, <2>3, <2>4 DEF vars, inputVars
<1> QED BY <1>1, <1>2, SearchCorrect, PTL DEF Spec

(* A population is only emptied when no parent was given a mutant, so that *)
(* nothing received is unjudged.                                           *)
LEMMA EmptiedUnjudged ==
  ASSUME TypeOK, SearchInv, pc \in {"parent", "asked"}, NEW p \in parents,
         population \ {p} = {}
  PROVE  Plausible(Everything) = {}
<1>1. /\ parents \subseteq population /\ (candidates # {} => population \ parents # {})
      /\ Plausible(Judged) = {}
  BY DEF SearchInv, ParentPart, LoopPart, InLoop
<1>2. candidates = {}
  BY <1>1
<1>3. Judged = Everything
  BY <1>2 DEF Judged, Pending
<1> QED BY <1>1, <1>3

(* Once repair has ended only main goes on. *)
LEMMA DoneOnlyMainEnds ==
  ASSUME Next, pc = "done"
  PROVE  MainEnds
  BY DEF Next, Start, NothingToRepair, OpenSource, FirstPatch, NoMoreInitial, GatherInitial,
     GatherNothing, SecondPatch, SecondEvaluated, NoSecond, Generation, ReportPlausible, GiveUp,
     BeginMutate, NextGeneration, Judge, AskParent, MutantReceived, MutantEvaluated, NoMutant,
     NoSource, ParentsDone, CandidatesEvaluated, BeginCrossover, Failure, ComparisonRaises,
     SelectionRaises, CrossoverRaises, EvaluationRaises, SourceRaises, Timeout, Asking, Evaluating

(* An outcome "returned" comes with exactly the plausible ones. *)
LEMMA ReturnStep ==
  ASSUME TypeOK, SearchInv, Next, pc # "done", outcome' = "returned"
  PROVE  result' = Plausible(Everything)
<1>1. outcome = "none"
  BY DEF SearchInv
<1>2. pc' = "done"
  BY OutcomeStep
<1>3. CASE NothingToRepair
  <2>1. Everything = {original} /\ result' = {original}
    BY <1>3 DEF NothingToRepair, End, SearchInv, InitialPart, Everything
  <2>2. isPatchPlausible(original)
    BY <1>3, RepairAssumption DEF NothingToRepair, Clean, isPatchPlausible, Hard, original
  <2> QED BY <2>1, <2>2 DEF Plausible
<1>4. CASE ReportPlausible
  BY <1>4, JudgeFacts DEF ReportPlausible, End
<1>5. CASE GiveUp
  BY <1>5, JudgeFacts DEF GiveUp, ReturnNothing, End
<1>6. ASSUME NEW p \in parents, pc \in {"parent", "asked"}, RemoveParent(p)
      PROVE  result' = Plausible(Everything)
  <2>1. population' = {}
    BY <1>2, <1>6 DEF RemoveParent
  <2>2. result' = {} /\ population \ {p} = {}
    BY <1>6, <2>1 DEF RemoveParent, ReturnNothing, End
  <2> QED BY <1>6, <2>2, EmptiedUnjudged
<1>7. CASE NoMutant
  <2>1. pc = "asked" /\ asking \in parents /\ RemoveParent(asking)
    BY <1>7 DEF NoMutant, SearchInv, ParentPart, InLoop
  <2> QED BY <1>6, <2>1
<1>8. CASE NoSource
  <2>1. \E p \in parents : RemoveParent(p)
    BY <1>8 DEF NoSource, Best
  <2> QED BY <1>6, <1>8, <2>1 DEF NoSource
<1>9. CASE \/ OpenSource \/ FirstPatch \/ NoMoreInitial \/ GatherInitial \/ GatherNothing
          \/ SecondPatch \/ SecondEvaluated \/ NoSecond
  BY <1>1, <1>9 DEF OpenSource, FirstPatch, NoMoreInitial, GatherInitial, GatherNothing,
     SecondPatch, SecondEvaluated, NoSecond, EnterLoop, Receive, Raise, End, Keep, endVars
<1>10. CASE \/ BeginMutate \/ BeginCrossover \/ AskParent \/ MutantReceived \/ MutantEvaluated
           \/ ParentsDone \/ CandidatesEvaluated
  BY <1>1, <1>10 DEF BeginMutate, BeginCrossover, Select, AskParent, MutantReceived,
     MutantEvaluated, ParentsDone, CandidatesEvaluated, Receive, Keep, endVars
<1>11. CASE Failure \/ Timeout
  BY <1>11 DEF Failure, ComparisonRaises, SelectionRaises, CrossoverRaises, EvaluationRaises,
     SourceRaises, Timeout, Raise, End
<1>12. CASE MainEnds
  BY <1>12 DEF MainEnds
<1> QED
  BY <1>3, <1>4, <1>5, <1>7, <1>8, <1>9, <1>10, <1>11, <1>12 DEF Next, Start, Generation

(* When repair returns, it returns exactly the plausible ones among all    *)
(* it received and the original.                                           *)
THEOREM ReportCorrect == Spec => []ReportsPlausible
<1>1. Init => ReportsPlausible
  BY DEF Init, ReportsPlausible
<1>2. TypeOK /\ SearchInv /\ ReportsPlausible /\ [Next]_vars => ReportsPlausible'
  <2> SUFFICES ASSUME TypeOK, SearchInv, ReportsPlausible, [Next]_vars, outcome' = "returned"
               PROVE  result' = Plausible(Everything)'
    BY DEF ReportsPlausible
  <2>1. CASE pc # "done" /\ Next
    <3>1. result' = Plausible(Everything)
      BY <2>1, ReturnStep
    <3>2. UNCHANGED received
      <4>1. outcome = "none" /\ outcome' # outcome
        BY <2>1 DEF SearchInv
      <4> QED
        BY <2>1, <4>1, ReceivesOrSilent DEF Receives, Receive, Keep, endVars, OpenSource, Silent
    <3>3. UNCHANGED vulnerable
      BY <2>1, InputsFixed DEF inputVars
    <3> QED
      BY <3>1, <3>2, <3>3 DEF Plausible, isPatchPlausible, Hard, Everything
  <2>2. CASE pc = "done" /\ Next
    <3>1. MainEnds
      BY <2>2, DoneOnlyMainEnds
    <3> QED
      BY <3>1 DEF MainEnds, inputVars, endVars, ReportsPlausible, Plausible, isPatchPlausible,
         Hard, Everything
  <2>3. CASE UNCHANGED vars
    BY <2>3 DEF vars, inputVars, endVars, ReportsPlausible, Plausible, isPatchPlausible,
       Hard, Everything
  <2> QED BY <2>1, <2>2, <2>3
<1> QED BY <1>1, <1>2, SearchCorrect, PTL DEF Spec

(* At every await, only the generation in progress has plausible patches.  *)
LEMMA InProgress ==
  ASSUME TypeOK, SearchInv, pc # "done"
  PROVE  Plausible(received) \subseteq candidates \cup {current}
<1>1. CASE pc \in InLoop
  <2>1. Plausible(Judged) = {} /\ Pending \subseteq {current}
    BY <1>1 DEF SearchInv, LoopPart, Pending
  <2> QED BY <2>1 DEF Plausible, Judged, Everything
<1>2. CASE pc \notin InLoop
  <2>1. pc \in {"original", "first", "second", "evalFirst", "evalSecond"}
    BY <1>2 DEF TypeOK, Asking, Evaluating, InLoop
  <2>2. received \subseteq candidates \cup {current}
    BY <2>1 DEF SearchInv, InitialPart, Pending
  <2> QED BY <2>2 DEF Plausible
<1> QED BY <1>1, <1>2

(* The finally clause only replaces an empty result that is right. *)
LEMMA ReplacedStep ==
  ASSUME TypeOK, SearchInv, Next, pc # "done", outcome' = "replaced"
  PROVE  Plausible(Everything) = {}
<1>1. outcome = "none"
  BY DEF SearchInv
<1>2. pc' = "done"
  BY OutcomeStep
<1>3. CASE GiveUp
  BY <1>3, JudgeFacts DEF GiveUp
<1>4. ASSUME NEW p \in parents, pc \in {"parent", "asked"}, RemoveParent(p)
      PROVE  Plausible(Everything) = {}
  <2>1. population \ {p} = {}
    BY <1>2, <1>4 DEF RemoveParent
  <2> QED BY <1>4, <2>1, EmptiedUnjudged
<1>5. CASE NoMutant
  <2>1. pc = "asked" /\ asking \in parents /\ RemoveParent(asking)
    BY <1>5 DEF NoMutant, SearchInv, ParentPart, InLoop
  <2> QED BY <1>4, <2>1
<1>6. CASE NoSource
  <2>1. \E p \in parents : RemoveParent(p)
    BY <1>6 DEF NoSource, Best
  <2> QED BY <1>4, <1>6, <2>1 DEF NoSource
<1>7. CASE Start
  BY <1>1, <1>7 DEF Start, NothingToRepair, OpenSource, FirstPatch, NoMoreInitial, GatherInitial,
     GatherNothing, SecondPatch, SecondEvaluated, NoSecond, EnterLoop, Receive, Raise, End, Keep,
     endVars
<1>8. CASE \/ ReportPlausible \/ BeginMutate \/ BeginCrossover \/ AskParent \/ MutantReceived
          \/ MutantEvaluated \/ ParentsDone \/ CandidatesEvaluated
  BY <1>1, <1>8 DEF ReportPlausible, End, BeginMutate, BeginCrossover, Select, AskParent,
     MutantReceived, MutantEvaluated, ParentsDone, CandidatesEvaluated, Receive, Keep, endVars
<1>9. CASE Failure \/ Timeout
  BY <1>9 DEF Failure, ComparisonRaises, SelectionRaises, CrossoverRaises, EvaluationRaises,
     SourceRaises, Timeout, Raise, End
<1>10. CASE MainEnds
  BY <1>10 DEF MainEnds
<1> QED BY <1>3, <1>5, <1>6, <1>7, <1>8, <1>9, <1>10 DEF Next, Generation

(* A step that ends repair keeps the generation in progress, or begins it. *)
LEMMA EndKeeps ==
  ASSUME TypeOK, SearchInv, Next, pc # "done",
         outcome' \in {"raised", "cancelled", "concurrent"}
  PROVE  candidates \cup {current} \subseteq candidates' \cup {current'}
<1>1. outcome = "none"
  BY DEF SearchInv
<1>2. ASSUME NEW new, EnterLoop(new), candidates \subseteq new
      PROVE  candidates \cup {current} \subseteq candidates' \cup {current'}
  BY <1>2 DEF EnterLoop
<1>3. CASE Start
  <2>1. pc = "evalFirst" => candidates = {}
    BY DEF SearchInv, InitialPart
  <2>2. CASE NoMoreInitial \/ GatherNothing \/ SecondEvaluated \/ NoSecond
    BY <1>2, <2>1, <2>2 DEF NoMoreInitial, GatherNothing, SecondEvaluated, NoSecond
  <2>3. CASE GatherInitial
    BY <2>1, <2>3 DEF GatherInitial
  <2>4. CASE NothingToRepair \/ OpenSource \/ FirstPatch \/ SecondPatch
    BY <1>1, <2>4 DEF NothingToRepair, OpenSource, FirstPatch, SecondPatch, Receive, End, Keep,
       endVars
  <2> QED BY <1>3, <2>2, <2>3, <2>4 DEF Start
<1>4. CASE Generation
  BY <1>1, <1>4 DEF Generation, ReportPlausible, GiveUp, ReturnNothing, BeginMutate, Select,
     AskParent, MutantReceived, MutantEvaluated, NoMutant, NoSource, RemoveParent, ParentsDone,
     CandidatesEvaluated, Receive, End, Keep, endVars
<1>5. CASE BeginCrossover
  BY <1>1, <1>5 DEF BeginCrossover, Select, Keep, endVars
<1>6. CASE Failure \/ Timeout
  BY <1>6 DEF Failure, ComparisonRaises, SelectionRaises, CrossoverRaises, EvaluationRaises,
     SourceRaises, Timeout, loopVars
<1>7. CASE MainEnds
  BY <1>7 DEF MainEnds
<1> QED BY <1>3, <1>4, <1>5, <1>6, <1>7 DEF Next

(* However repair ends without returning, only plausible patches of the    *)
(* generation in progress are lost, and an exception of the finally clause *)
(* replaces an empty result only (CR.py:408-445, 481-489 and 514-535).     *)
THEOREM LossCorrect == Spec => []LossBounded
<1>1. Init => LossBounded
  BY DEF Init, LossBounded
<1>2. TypeOK /\ SearchInv /\ LossBounded /\ [Next]_vars => LossBounded'
  <2> SUFFICES ASSUME TypeOK, SearchInv, LossBounded, [Next]_vars
               PROVE  LossBounded'
    OBVIOUS
  <2>1. CASE pc # "done" /\ Next
    <3>1. CASE outcome' = "none"
      BY <3>1 DEF LossBounded
    <3>2. CASE outcome' # "none"
      <4>1. UNCHANGED received
        <5>1. outcome = "none" /\ outcome' # outcome
          BY <2>1, <3>2 DEF SearchInv
        <5> QED
          BY <2>1, <5>1, ReceivesOrSilent DEF Receives, Receive, Keep, endVars, OpenSource, Silent
      <4>2. UNCHANGED vulnerable
        BY <2>1, InputsFixed DEF inputVars
      <4>3. Plausible(received)' = Plausible(received) /\ Plausible(Everything)' = Plausible(Everything)
        BY <4>1, <4>2 DEF Plausible, isPatchPlausible, Hard, Everything
      <4>4. Plausible(received) \subseteq candidates \cup {current}
        BY <2>1, InProgress
      <4> QED BY <2>1, <4>3, <4>4, EndKeeps, ReplacedStep DEF LossBounded
    <3> QED BY <3>1, <3>2
  <2>2. CASE pc = "done" /\ Next
    <3>1. MainEnds
      BY <2>2, DoneOnlyMainEnds
    <3> QED
      BY <3>1 DEF MainEnds, inputVars, endVars, loopVars, LossBounded, Plausible,
         isPatchPlausible, Hard, Everything
  <2>3. CASE UNCHANGED vars
    BY <2>3 DEF vars, inputVars, endVars, loopVars, LossBounded, Plausible, isPatchPlausible,
       Hard, Everything
  <2> QED BY <2>1, <2>2, <2>3
<1> QED BY <1>1, <1>2, SearchCorrect, PTL DEF Spec
===========================================================================
