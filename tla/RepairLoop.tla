---------------------------- MODULE RepairLoop ----------------------------
(***************************************************************************)
(* The genetic search of CR.repair, as the coroutine that CLI.main runs    *)
(* with a timeout, and the patch source it consumes (PatchSource).  pc is  *)
(* the await at which the coroutine is suspended; "head" is the top of the *)
(* loop and "parent" the top of the loop over the parents.                 *)
(*                                                                         *)
(* An individual is a patch.  Its fitness is the number of targeted        *)
(* vulnerabilities each detector finds in its contract, fewer being        *)
(* better.  The remaining objectives are only looked at on a tie, and      *)
(* looking at them raises: gas_dominates reads gas_info, which is never    *)
(* set, and dominates reads profiling, which is not defined.               *)
(***************************************************************************)
EXTENDS Integers, FiniteSets, Functions

CONSTANTS
  AST,         \* the contracts
  Ori,         \* the original contract
  Patch,       \* what the patch source can yield
  NumDetectors,
  MaxVul,      \* bound: targeted vulnerabilities a detector can find
  Remaining,   \* num_remaining of the repair target, 0 from the command line
  NumInits,    \* the values of num_init_population
  MaxSize,     \* maxSzPopulation
  NumParents,  \* how many individuals selBest takes, 4 in the code
  MaxTrials,   \* the values of maxTrial; NoLimit is None
  NoLimit

ASSUME RepairAssumption ==
  /\ Ori \in AST
  /\ \A p \in Patch : p.ast \in AST
  /\ NumDetectors \in Nat \ {0} /\ MaxVul \in Nat /\ Remaining \in Nat
  /\ NumInits \subseteq Nat \ {0} /\ MaxSize \in Nat \ {0} /\ NumParents \in Nat \ {0}
  /\ MaxTrials \subseteq Nat \cup {NoLimit} /\ NoLimit \notin Nat

VARIABLES
  \* what the detectors find, fixed by the contract
  vulnerable,  \* per contract and detector, the targeted vulnerabilities
  untargeted,  \* the original contract has vulnerabilities, none of them targeted
  numInit,     \* option num-init-population
  maxTrial,    \* argument of repair
  \* the coroutine
  pc,
  population,  \* populations
  candidates,  \* newPatchCandidates
  parents,     \* offspringParents still to be mutated
  asking,      \* the parent p being mutated
  current,     \* the patch being evaluated on its own
  front,       \* paretofront
  tried,       \* num_patch_tried
  result,      \* what repair returned
  outcome,     \* "none", "returned", "cancelled", or how it raised: "raised",
               \* "concurrent", or "replaced" by the finally clause
  received,    \* history: every patch obtained from the source
  \* CLI.main
  main,        \* "waiting", or how main ended: "closed" or "raised"
  \* the patch source
  phase, asked, answer, given

inputVars == <<vulnerable, untargeted, numInit, maxTrial>>
loopVars == <<population, candidates, parents, asking, current, front, tried>>
endVars == <<result, outcome>>
sourceVars == <<phase, asked, answer, given>>
vars == <<inputVars, pc, loopVars, endVars, received, main, sourceVars>>

---------------------------------------------------------------------------
(* The patch source *)

Random == [type |-> "random", base |-> Ori]
Crossover == [type |-> "crossover-onepoint", base |-> Ori]
Mutate(b) == [type |-> "mutate", base |-> b]
Requests == {Random, Crossover} \cup {Mutate(b) : b \in AST}

Source == INSTANCE PatchSource WITH First <- Random

---------------------------------------------------------------------------
(* Individuals and their fitness *)

Detectors == 1 .. NumDetectors
original == [space |-> 0, num |-> 0, base |-> Ori, ast |-> Ori]
Individual == Patch \cup {original}

\* Patches come from an sm process, the original does not.
ASSUME OriginalAssumption == original \notin Patch

Hard(p) == vulnerable[p.ast]
Tied(p, q) == p # q /\ Hard(p) = Hard(q)

\* Pareto dominance on the detectors.
dominates(p, q) ==
  /\ \A d \in Detectors : Hard(p)[d] <= Hard(q)[d]
  /\ \E d \in Detectors : Hard(p)[d] < Hard(q)[d]

\* The order by which selBest sorts: by the first detector that differs.
lt(q, p) ==
  \E d \in Detectors :
    /\ Hard(p)[d] < Hard(q)[d]
    /\ \A e \in Detectors : e < d => Hard(p)[e] = Hard(q)[e]

isPatchPlausible(p) == \A d \in Detectors : Hard(p)[d] <= Remaining
Plausible(S) == {p \in S : isPatchPlausible(p)}

\* selBest: the k best.
Best(S, k) == {p \in S : Cardinality({q \in S : lt(p, q)}) < k}

\* selNSGA2: an individual is only kept if all that dominate it are.  Which
\* ones of a front are kept when not all fit (by crowding) is left open.
Selections(S) ==
  {T \in SUBSET S :
     /\ Cardinality(T) = IF Cardinality(S) < MaxSize THEN Cardinality(S) ELSE MaxSize
     /\ \A t \in T : \A x \in S : dominates(x, t) => x \in T}

\* ParetoFront.update takes the candidates one after the other: one that is not
\* dominated by a member joins, and those it dominates leave.
AddTo(F, c) ==
  IF \E x \in F : dominates(x, c) THEN F ELSE {x \in F : ~dominates(c, x)} \cup {c}

\* The orders in which the candidates may have come, and the fronts that an
\* update passes through.
Orders(S) == Bijection(1 .. Cardinality(S), S)
Fronts(F, order) ==
  LET f[k \in {0} \cup DOMAIN order] == IF k = 0 THEN F ELSE AddTo(f[k - 1], order[k])
  IN  f

\* The Pareto front of a set.
Nondominated(S) == {p \in S : \A q \in S : ~dominates(q, p)}

---------------------------------------------------------------------------
(* How the coroutine ends *)

\* The awaits at which the coroutine can be suspended.
Asking == {"first", "second", "asked", "crossing"}
Evaluating == {"original", "evalFirst", "evalSecond", "evalMutant", "evaluate"}

\* Inside the try statement.
InLoop == {"head", "parent", "asked", "evalMutant", "evaluate", "crossing"}

\* The finally clause compares every member of the front with the original,
\* which raises on a tie; the original itself is one unless it is dominated.
FinallyRaises(F) == \E x \in F : Hard(x) = Hard(original)

End(how, found) ==
  /\ pc' = "done" /\ outcome' = how /\ result' = found
  /\ UNCHANGED <<inputVars, received, main>>

Raise == End("raised", {})

\* "All individuals can't be further mutated", or maxTrial is reached.  What the
\* finally clause raises replaces the empty list that was to be returned.
ReturnNothing(F) == End(IF FinallyRaises(F) THEN "replaced" ELSE "returned", {})

Keep == UNCHANGED <<inputVars, endVars, main>>

---------------------------------------------------------------------------
(* The initial population *)

\* A detector or the gas ranker fails, or - when python checks assertions - the
\* one on soft_values, which is given two values, length and gas, for one weight.
EvaluationRaises ==
  /\ pc \in Evaluating
  /\ Raise
  /\ UNCHANGED <<loopVars, sourceVars>>

Clean(a) == \A d \in Detectors : vulnerable[a][d] = 0

\* The original contract has no vulnerability at all.
NothingToRepair ==
  /\ pc = "original"
  /\ Clean(Ori) /\ ~untargeted
  /\ End("returned", {original})
  /\ UNCHANGED <<loopVars, sourceVars>>

\* The generator object is made and asked for a first patch.
OpenSource ==
  /\ pc = "original"
  /\ ~Clean(Ori) \/ untargeted
  /\ Source!Open
  /\ pc' = "first"
  /\ Keep /\ UNCHANGED <<loopVars, received>>

\* A patch is yielded to the coroutine, which evaluates it.
Receive(p, next) ==
  /\ Source!Give(p)
  /\ current' = p /\ received' = received \cup {p}
  /\ pc' = next
  /\ Keep
  /\ UNCHANGED <<population, candidates, parents, asking, front, tried>>

FirstPatch == pc = "first" /\ \E p \in Patch : Receive(p, "evalFirst")

\* Slip: the original contract is not among the first candidates.
EnterLoop_NoOriginal(new) ==
  /\ population' = new \cup {original}
  /\ candidates' = new
  /\ tried' = -1
  /\ IF \E p, q \in population' : Tied(p, q)
       THEN Raise
       ELSE pc' = "head" /\ Keep /\ UNCHANGED received
  /\ UNCHANGED <<parents, asking, current, front>>

\* The first individuals and the original; sorting them raises on a tie.
EnterLoop(new) ==
  /\ population' = new \cup {original}
  /\ candidates' = population'
  /\ tried' = -1
  /\ IF \E p, q \in population' : Tied(p, q)
       THEN Raise
       ELSE pc' = "head" /\ Keep /\ UNCHANGED received
  /\ UNCHANGED <<parents, asking, current, front>>

\* num_init_population is one: nothing to gather.
NoMoreInitial ==
  /\ pc = "evalFirst" /\ numInit = 1
  /\ EnterLoop({current})
  /\ UNCHANGED sourceVars

\* The tasks of the gather start one after the other.  The first one is
\* suspended inside the generator; a second asend on a running generator
\* raises, and so does the gather.
GatherInitial ==
  /\ pc = "evalFirst" /\ numInit > 1
  /\ Source!Ask(Mutate(Ori))
  /\ candidates' = {current}
  /\ IF numInit > 2 THEN End("concurrent", {})
                    ELSE pc' = "second" /\ Keep /\ UNCHANGED received
  /\ UNCHANGED <<population, parents, asking, current, front, tried>>

\* The generator finds its processes gone and ends at once, for all tasks.
GatherNothing ==
  /\ pc = "evalFirst" /\ numInit > 1
  /\ Source!Stop
  /\ EnterLoop({current})

SecondPatch == pc = "second" /\ \E p \in Patch : Receive(p, "evalSecond")

SecondEvaluated ==
  /\ pc = "evalSecond"
  /\ EnterLoop(candidates \cup {current})
  /\ UNCHANGED sourceVars

NoSecond ==
  /\ pc = "second"
  /\ Source!GiveNothing \/ Source!Stop
  /\ EnterLoop(candidates)

---------------------------------------------------------------------------
(* One generation *)

\* The statistics, the front and the sort compare the new candidates with each
\* other and with the front; which pairs they meet depends on the order.
MayRaise == \E c \in candidates : \E x \in candidates \cup front : Tied(c, x)

ComparisonRaises ==
  /\ pc = "head" /\ MayRaise
  /\ Raise
  /\ UNCHANGED <<loopVars, sourceVars>>

\* A candidate is compared with a member it is tied with only if an earlier one
\* has not driven that member out.
MeetsTie(F, order) == \E k \in DOMAIN order : \E x \in Fronts(F, order)[k - 1] : Tied(order[k], x)

\* Slip: num_patch_tried counts generations.
Judge_Generations ==
  /\ pc = "head"
  /\ \E order \in Orders(candidates) :
       /\ ~MeetsTie(front, order)
       /\ front' = Fronts(front, order)[Cardinality(candidates)]
  /\ tried' = tried + 1

\* The candidates are recorded, in the front and in the count.
Judge ==
  /\ pc = "head"
  /\ \E order \in Orders(candidates) :
       /\ ~MeetsTie(front, order)
       /\ front' = Fronts(front, order)[Cardinality(candidates)]
  /\ tried' = tried + Cardinality(candidates)

ReportPlausible ==
  /\ Judge
  /\ Plausible(candidates) # {}
  /\ End("returned", Plausible(candidates))
  /\ UNCHANGED <<population, candidates, parents, asking, current, sourceVars>>

\* Slip: the check is made before the last generation is counted.
TrialsUsedUp_Late == maxTrial # NoLimit /\ tried >= maxTrial
TrialsUsedUp == maxTrial # NoLimit /\ tried' >= maxTrial

\* Slip: maxTrial is looked at before the candidates are.
GiveUp_First ==
  /\ Judge
  /\ TrialsUsedUp
  /\ ReturnNothing(front')
  /\ UNCHANGED <<population, candidates, parents, asking, current, sourceVars>>

GiveUp ==
  /\ Judge
  /\ Plausible(candidates) = {} /\ TrialsUsedUp
  /\ ReturnNothing(front')
  /\ UNCHANGED <<population, candidates, parents, asking, current, sourceVars>>

\* Slip: whether a candidate is plausible is not looked at.
NextGeneration_Unchecked == Judge /\ ~TrialsUsedUp
NextGeneration ==
  /\ Judge
  /\ Plausible(candidates) = {} /\ ~TrialsUsedUp

\* Two individuals of the population are tied: selNSGA2 raises.
SelectionRaises ==
  /\ NextGeneration
  /\ \E p, q \in population : Tied(p, q)
  /\ Raise
  /\ UNCHANGED <<population, candidates, parents, asking, current, sourceVars>>

\* The population is cut, the best are the parents.
Select ==
  /\ \A p, q \in population : ~Tied(p, q)
  /\ population' \in Selections(population)
  /\ parents' = Best(population', NumParents)
  /\ candidates' = {}
  /\ Keep
  /\ UNCHANGED <<asking, current, received>>

BeginMutate ==
  /\ NextGeneration /\ Select
  /\ pc' = "parent"
  /\ UNCHANGED sourceVars

\* A crossover request for the first pair of parents, if there are two.
BeginCrossover ==
  /\ NextGeneration /\ Select
  /\ IF Cardinality(parents') > 1
       THEN pc' = "crossing" /\ Source!Ask(Crossover)
       ELSE pc' = "evaluate" /\ UNCHANGED sourceVars

\* ... but the generator has ended.
CrossoverRaises ==
  /\ NextGeneration
  /\ phase = "closed"
  /\ \E T \in Selections(population) : Cardinality(Best(T, NumParents)) > 1
  /\ Raise
  /\ UNCHANGED <<population, candidates, parents, asking, current, sourceVars>>

\* Slip: the individual is sent instead of its mutation sequence.
AskParent_Individual ==
  /\ pc = "parent"
  /\ \E p \in Best(parents, 1) :
       /\ Source!Ask(Mutate(p))
       /\ asking' = p
  /\ pc' = "asked"
  /\ Keep /\ UNCHANGED <<population, candidates, parents, current, front, tried, received>>

\* The parents are mutated one after the other, best first.
AskParent ==
  /\ pc = "parent"
  /\ \E p \in Best(parents, 1) :
       /\ Source!Ask(Mutate(p.ast))
       /\ asking' = p
  /\ pc' = "asked"
  /\ Keep /\ UNCHANGED <<population, candidates, parents, current, front, tried, received>>

MutantReceived == pc = "asked" /\ \E p \in Patch : Receive(p, "evalMutant")

\* Slip: the mutant takes its parent's place.
MutantEvaluated_Replaces ==
  /\ pc = "evalMutant"
  /\ candidates' = candidates \cup {current}
  /\ population' = population \ {asking}
  /\ parents' = parents \ {asking}
  /\ pc' = "parent"
  /\ Keep /\ UNCHANGED <<asking, current, front, tried, received, sourceVars>>

MutantEvaluated ==
  /\ pc = "evalMutant"
  /\ candidates' = candidates \cup {current}
  /\ parents' = parents \ {asking}
  /\ pc' = "parent"
  /\ Keep /\ UNCHANGED <<population, asking, current, front, tried, received, sourceVars>>

\* Slip: an empty population is not noticed.
RemoveParent_KeepsOn(p) ==
  /\ population' = population \ {p}
  /\ parents' = parents \ {p}
  /\ pc' = "parent" /\ Keep /\ UNCHANGED received
  /\ UNCHANGED <<candidates, asking, current, front, tried>>

\* Slip: the parent stays in the population.
RemoveParent_Stays(p) ==
  /\ parents' = parents \ {p}
  /\ pc' = "parent" /\ Keep /\ UNCHANGED received
  /\ UNCHANGED <<population, candidates, asking, current, front, tried>>

\* A parent without a mutant is taken out of the population.
RemoveParent(p) ==
  /\ population' = population \ {p}
  /\ parents' = parents \ {p}
  /\ IF population' = {} THEN ReturnNothing(front)
                         ELSE pc' = "parent" /\ Keep /\ UNCHANGED received
  /\ UNCHANGED <<candidates, asking, current, front, tried>>

\* The answer is empty, or the generator ends.
NoMutant ==
  /\ pc = "asked"
  /\ Source!GiveNothing \/ Source!Stop
  /\ RemoveParent(asking)

\* ... or has ended before.
NoSource ==
  /\ pc = "parent" /\ phase = "closed"
  /\ \E p \in Best(parents, 1) : RemoveParent(p)
  /\ UNCHANGED sourceVars

ParentsDone ==
  /\ pc = "parent" /\ parents = {}
  /\ pc' = "evaluate"
  /\ Keep /\ UNCHANGED <<loopVars, received, sourceVars>>

\* The candidates, evaluated once more, join the population.
CandidatesEvaluated ==
  /\ pc = "evaluate"
  /\ population' = population \cup candidates
  /\ pc' = "head"
  /\ Keep
  /\ UNCHANGED <<candidates, parents, asking, current, front, tried, received, sourceVars>>

---------------------------------------------------------------------------
(* Failures, the timeout and the end *)

\* The generator raises; to a first or a crossover request its end is an
\* error too.
SourceRaises ==
  /\ pc \in Asking /\ phase = "busy"
  /\ Source!Stop
  /\ Raise
  /\ UNCHANGED loopVars

\* wait_for: the task is cancelled at its await, and the generator with it
\* when that is where it waits.
Timeout ==
  /\ pc \in Asking \cup Evaluating
  /\ End(IF pc \in InLoop /\ FinallyRaises(front) THEN "raised" ELSE "cancelled", {})
  /\ IF pc \in Asking THEN Source!Stop ELSE UNCHANGED sourceVars
  /\ UNCHANGED loopVars

\* The task is run to its end a second time, which raises what it raised;
\* only otherwise are the asynchronous generators shut down.
MainEnds ==
  /\ pc = "done" /\ main = "waiting"
  /\ \/ /\ outcome \in {"returned", "cancelled"}
        /\ main' = "closed" /\ Source!Stop
     \/ /\ outcome \notin {"returned", "cancelled"}
        /\ main' = "raised" /\ UNCHANGED sourceVars
  /\ UNCHANGED <<inputVars, pc, loopVars, endVars, received>>

Init ==
  /\ vulnerable \in [AST -> [Detectors -> 0 .. MaxVul]]
  /\ untargeted \in BOOLEAN /\ (untargeted => Clean(Ori))
  /\ numInit \in NumInits /\ maxTrial \in MaxTrials
  /\ pc = "original" /\ main = "waiting"
  /\ population = {original} /\ candidates = {} /\ parents = {}
  /\ asking = original /\ current = original
  /\ front = {} /\ tried = 0
  /\ result = {} /\ outcome = "none" /\ received = {}
  /\ Source!Init

Start ==
  \/ NothingToRepair \/ OpenSource \/ FirstPatch
  \/ NoMoreInitial \/ GatherInitial \/ GatherNothing
  \/ SecondPatch \/ SecondEvaluated \/ NoSecond

Generation ==
  \/ ReportPlausible \/ GiveUp \/ BeginMutate
  \/ AskParent \/ MutantReceived \/ MutantEvaluated \/ NoMutant \/ NoSource
  \/ ParentsDone \/ CandidatesEvaluated

Failure == ComparisonRaises \/ SelectionRaises \/ CrossoverRaises \/ EvaluationRaises \/ SourceRaises

Next == Start \/ Generation \/ BeginCrossover \/ Failure \/ Timeout \/ MainEnds

Spec == Init /\ [][Next]_vars

\* The event loop resumes the coroutine, evaluations end, and the patch
\* source answers a mutate request.  The random choice of the operator does
\* not choose crossover for ever.
FairSpec ==
  /\ Spec
  /\ WF_vars(Generation \/ Failure) /\ WF_vars(MainEnds)
  /\ SF_vars(BeginMutate)

---------------------------------------------------------------------------
(* Properties *)

Everything == received \cup {original}

\* Types of the variables.
TypeOK ==
  /\ vulnerable \in [AST -> [Detectors -> 0 .. MaxVul]]
  /\ untargeted \in BOOLEAN /\ numInit \in NumInits /\ maxTrial \in MaxTrials
  /\ pc \in Asking \cup Evaluating \cup InLoop \cup {"done"}
  /\ population \subseteq Individual /\ candidates \subseteq Individual
  /\ parents \subseteq Individual /\ front \subseteq Individual
  /\ asking \in Individual /\ current \in Individual
  /\ tried \in Int
  /\ result \subseteq Individual
  /\ outcome \in {"none", "returned", "cancelled", "raised", "replaced", "concurrent"}
  /\ received \subseteq Patch
  /\ main \in {"waiting", "closed", "raised"}
  /\ phase \in {"closed", "busy", "ready"} /\ asked \in Requests

\* When repair returns, it returns exactly the plausible ones among all it has
\* obtained and the original: no plausible patch is lost in a generation that
\* ends early because the population is empty or maxTrial is reached, and no
\* other patch is reported.
ReportsPlausible == outcome = "returned" => result = Plausible(Everything)

\* However repair ends instead, by a tie, a failing detector or source, or the
\* timeout, no plausible patch of an earlier generation is lost with it; and an
\* exception of the finally clause never stands in for a patch.
LossBounded ==
  /\ outcome \in {"raised", "cancelled", "concurrent"} =>
       Plausible(received) \subseteq candidates \cup {current}
  /\ outcome = "replaced" => Plausible(Everything) = {}

\* A new generation finds somebody to mutate: the assertion "No offspring
\* parents being chosen!" does not fail, whatever was removed.
PopulationNotEmpty == pc = "head" => population # {}

\* num_patch_tried is the number of patches obtained from the source: it starts
\* at -1 because the first candidates include the original.
TriesCounted == pc = "head" => tried + Cardinality(candidates) = Cardinality(received)

\* maxTrial is overshot by less than a generation.
TrialsBounded ==
  maxTrial # NoLimit =>
    \/ Cardinality(received) <= numInit
    \/ Cardinality(received) < maxTrial + NumParents

\* Whatever the order in which the candidates are added, the front kept from
\* generation to generation becomes the Pareto front of all that was evaluated,
\* the original included.
FrontExact ==
  pc = "head" =>
    \A order \in Orders(candidates) :
      Fronts(front, order)[Cardinality(candidates)] = Nondominated(Everything)

\* What is received and not yet a candidate, and what is past its generation.
Pending == IF pc \in {"evalFirst", "evalSecond", "evalMutant"} THEN {current} ELSE {}
Judged == Everything \ (candidates \cup Pending)

\* Before the loop: everything received is a candidate or being evaluated.
InitialPart ==
  /\ pc \in {"original", "first", "evalFirst"} => candidates = {}
  /\ pc \in {"original", "first"} => received = {}
  /\ pc \in {"evalFirst", "second"} => received = {current}
  /\ pc \in {"second", "evalSecond"} => Cardinality(candidates) = 1 /\ numInit > 1
  /\ pc \in {"second", "evalSecond"} => received = candidates \cup Pending
  /\ pc \notin InLoop \cup {"done"} => front = {}

\* In the loop: what was judged was not plausible and is in the front unless it
\* is dominated, and the tries not yet counted are the candidates.
LoopPart ==
  pc \in InLoop =>
    /\ candidates \cup Pending \cup population \subseteq Everything
    /\ candidates \cap Pending = {} /\ population # {}
    /\ Plausible(Judged) = {} /\ front = Nondominated(Judged)
    /\ tried + Cardinality(candidates) + Cardinality(Pending) = Cardinality(received)

\* While the parents are mutated: one that was given a mutant stays in the
\* population, and every parent left may still add one try.
ParentPart ==
  pc \in InLoop \ {"head"} =>
    /\ parents \subseteq population
    /\ candidates # {} => population \ parents # {}
    /\ Cardinality(candidates) + Cardinality(parents) <= NumParents
    /\ pc \in {"asked", "evalMutant"} => asking \in parents
    /\ maxTrial # NoLimit => tried < maxTrial

\* The state of the search is what it needs to be for the invariants above to
\* be kept by every step: the coroutine's variables, the patches it received
\* and those the open session gave agree at every await.
SearchInv ==
  /\ IsFiniteSet(received)
  /\ phase # "closed" => given = received
  /\ pc # "done" => outcome = "none"
  /\ InitialPart /\ LoopPart /\ ParentPart

\* A search that has begun ends, unless it waits for a crossover.
Ends == (pc = "head") ~> (main # "waiting" \/ pc = "crossing")

---------------------------------------------------------------------------
(* What a comment of the repository says, and the code does not do *)

\* SolidityM.py:104: "Can only send sm one request each time": the lock makes
\* concurrent requests of the consumer wait for each other.
Serialised == outcome # "concurrent"
===========================================================================
