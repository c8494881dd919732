# A verification project for SCRepair

SCRepair repairs Solidity contracts by genetic search. A Python program (`src/*.py`) keeps a population
of patched contracts and asks a *patch source* for new ones; the patch source drives several Node
processes (`src/sm`), one per mutation space, that mutate the contract's AST. This directory models the
parts of the program whose correctness depends on the order of events or on index arithmetic, checks
them with TLC on small instances, and proves every safety property it checks of the program with TLAPS,
for all instances.

## 1. Inventory

| Component | State | Operations | Talks to |
|---|---|---|---|
| `SolidityM.py` patch source | the processes, `unconsumedPatches`, the request in service, `/tmp/terminate_all` | start, send a request to every process, wait for the first answer, tell the others to stop, gather, queue, yield, kill | consumer by `asend`; sm by pipes and by the file |
| sm line handler (`GenMutations.ts`) | the handler's locals, `numProcessed` | read a line, search, write patch files, answer | host; generator |
| `RandomMutationSequenceGenerator.ts` | `ast_DistMap` (ASTs seen), `dist_ast_infoMap` (bases with their fault space) | one iteration of the search, add a known AST | polls `/tmp/terminate_all` |
| Mutations (`InsertionM`, `DeletionM`, `ReplacementM`, `MovementM`) | none | apply, `updateASTPath`, `reverseUpdateASTPath`, draw at random | generator |
| `MutationSequence.ts` | list of mutations | `updatePath`, `reverseUpdatePath`, `rebasePath` | mutations |
| Fault space (`InterestedSpace`, `generateFaultSpace`) | none | the nodes a specifier names | generator |
| `ASTNodeSpace.ts` | pools of nodes by type and scope | sample a node | mutations |
| `CR.py` repair loop | population, candidates, parents, Pareto front, trial counter | build the population, select, mutate, cross over, evaluate | patch source, detection, ranking |
| Fitness (`CR.py`) | objective values | dominance | repair loop |
| `IN.py`, `ETC.py`, `Slither.py`, `tc` | outcomes of the detectors | run detectors concurrently, compile, lock, run test files and tests, pair outcomes with files | repair loop |
| `GR.py`, `CLI.py` | none / the repair task | gas estimate; timeout and cancellation | - |

`aleth` (a vendored Ethereum client) and the build scripts are left aside.

**What is hard here.** Several processes search at once; the first answer makes the host create a file
that all the others poll; every process must still answer every request, and answers of losers are
queued for later requests. Processes may die, the consumer may cancel at every await, a new session may
find the file of an old one, and exhausted spaces make the host repeat a request. In sm, suspicious
nodes are *paths* carried through any sequence of insertions, deletions, replacements and movements; a
wrong index silently moves a repair to another statement. The repair loop removes individuals while it
mutates parents selected from them, returns from inside nested loops, may be cancelled at every await,
and compares individuals by code that raises on a tie. All patches of a generation are evaluated at
once, under one lock. `PROJECT.json` lists each hazard at its line.

**What makes the parts correct.**
The patch source: an answer fits its request, nothing is yielded twice or lost, no search is stopped by a
stale file, no process gets a second request, every request is answered, nobody survives the session.
The mutations: a path follows its node, forwards and backwards; a movement goes where it was drawn; the
AST stays a tree; the search is finite.
The fault space: exactly the nodes the detectors blame, inside functions, without the parts of calls that
move Ether. The repair loop: when it returns, it reports every plausible patch it obtained; when it raises
or is cancelled, it loses none of an earlier generation; somebody is left to mutate, trials are counted,
the front is exact, the search ends. The detection: the load is bounded, files are skipped only if
irrelevant, outcomes belong to their files, a failure blocks nobody.

## 2. Modules

| Module | Models |
|---|---|
| `PatchSource` | abstract specification: what the consumer may rely on |
| `SmProtocol` | host + sm line handler + search loop + the file, composed |
| `MCSmProtocol` | instances for TLC |
| `SmProtocolProofs` | type correctness, the invariant of the rounds and what follows from it |
| `SmPromiseProofs` | no process survives, nothing is discarded, where the patches are, and the refinement of `PatchSource` |
| `MutationPaths` | the path algebra of the four mutations, as pure operators |
| `MutationPathsProofs` | round trips and injectivity, for all paths and all sequences |
| `FaultTracking` | one mutant as it grows: AST, fault space and mutation sequence |
| `MCFaultTracking` | a function body with nested blocks |
| `FaultTrackingProofs` | all properties of `FaultTracking`, for all trees |
| `FaultSpace`, `MCFaultSpace` | the walk over the AST that makes a fault space of the interested spaces |
| `FaultSpaceProofs` | the walk collects exactly the mutable nodes, for all trees and specifiers |
| `RepairLoop`, `MCRepairLoop` | `CR.repair` as `CLI.main` runs it, composed with `PatchSource` as its environment |
| `RepairLoopProofs` | all invariants of `RepairLoop` |
| `Detection`, `MCDetection` | the concurrent evaluation of patches: Slither, compiler, lock, `tc`, fitness |
| `DetectionProofs` | all invariants of `Detection` |
| `ProofLibrary` | induction over intervals, elements of a sequence after `InsertAt` and `RemoveAt` |
| `SharedMachine` | `SmProtocol` beside a second program that uses the same `/tmp/terminate_all` |

`SmProtocol` is shown to implement `PatchSource` (`KeepsPromise`), and `RepairLoop` consumes an instance of
`PatchSource`: what is checked of the loop rests on the promise, not on a second model of the protocol.

Operators with a suffix (`Launch_KeepsFile`, `DeletionReverse_After`, ...) and a comment that begins with
"Slip" are not part of the specifications: each is what a plausible programming error would make of the
definition that follows it, and is used to see that a property would notice.

### SmProtocol and the code

`hostPc` is the await or yield at which the coroutine `__patchSource` is suspended: `starting` (155-182),
`dispatch` (184-217, no await in between until the drain), `drain` (217), `wait` (222,
`FIRST_COMPLETED`), `gather` (229), `collect` (234-281, one step per answer in the order of the spaces),
`ready` (the yields), `closed`. `Close` is the `finally` with `killAllProcesses`; it is part of every
step that raises, ends or is cancelled. `CancelStarting` is separate because `killAllProcesses` itself
raises there: a space has no `proc` yet, so the processes already started keep running.
`pc[s]` is where the handler of a request line is: `idle`, `next` (the loop of the generator's `next`),
`respond`. One iteration of the loop is one of `Terminate`, `NothingToPick`, `BaseDrained`, `Draw`.

Abstractions:
- An AST stands for the contract and for its mutation sequence. Which mutation is drawn, whether the
  mutant compiles, whether it uses the mutation types of the space and whether its fault space is empty
  are nondeterministic. `FaultTracking` looks inside.
- A mutate request is matched to queued patches by its JSON text. The text includes the fault specifier;
  the model identifies a mutate request by its base. For the original individual CR.py:364-365 and 469-475
  may send two texts, the specifier given on the command line and the one computed from the detection; a
  queued answer to the one is then not used for the other. The program leaves it in the queue, where the
  model hands it out.
- `NumPatched` is `num_patched`; the program asks for one, the code handles any number.
- `RejectionIsFatal`: what an unhandled promise rejection does depends on the Node version (`engines`
  says `>=8.9`), so both are allowed.
- Simplification (off by default) and the distance bound (the option is never given a value) are left
  out. `g.terminateNow`, `SIGUSR2` and `/tmp/terminate_<pid>` never take effect in the search and are
  left out too.
- `Exit` is the environment: a process that ends by itself, with any status. It is the one external
  definition.

### MutationPaths, FaultTracking and the code

A path step is a property with its index; the code uses two strings for an array property and one
otherwise. `null` is the empty set. `DeletionM.updateASTPath` asks the AST whether the parent is an
array; here the property says so (`ArrayProps`). `MovementM` is a deletion and an insertion: the
constructor converts its destination forwards (`Destination`), `fromMutation` converts it backwards, and
`Move` in `FaultTracking` does both, as the generator does.

`FaultTracking` keeps the AST as a heap of nodes with identity, which the program does not have, so that
"the path still leads to its node" can be said. Each action is a whole step of the generator: the
mutation drawn, applied, the fault space carried over (`NewFaults`), the sequence extended. New nodes
are left childless: nothing below a new node is ever in the fault space. The guard of `Replace` only
looks at the node itself, as `astNodeContainsNonEmptyBlock` does. The restriction of a movement to one
function is not modelled: the instance is one function body. `rebasePath` and `updatePath` are operators
of `MutationPaths`; the run applies them to every path of every mutant. `updatePath`, `reverseUpdatePath` and
`NodeAtIn` loop in the code and are recursive functions here, so that they can be proved about. The original
AST is any tree (`OriAssumption`: no node is a child twice, every node has its path among `OriPaths`, a set
given by the instance because the set of all paths is infinite). `Possibilities` is what may still be done
to a mutant: a path of the original with a type of mutation that is left for it.

### FaultSpace and the code

`generateFaultSpace` is a traversal with a counter (`fnDepth`) and a visitor that answers whether to
descend. `todo` is the call stack of `visitWithPath` unrolled: nodes to visit and nodes to leave. There is
one action per visitor: `VisitContract`, `VisitFunction`, `VisitOther` (`generalVisitorFn`) and `Exit`.
Interested spaces are sets of conditions, so that a `ConjunctInterestedSpace` is a set and a single space
a singleton; the two methods `isNodeInterested` (used to prune) and `isNodeInExactScope` (used to
collect) differ as in the code. Positions (line, column) are only compared and are one number. The
reference `Mutable` is the set of nodes by definition, without a traversal. The tree is given by `Parent`
(parents have smaller numbers) and `Kids`, the order in which the traversal meets the children; `Line` is a
node with all above it. The assumptions on the constants are what the parser guarantees: a node lies inside its
parent, functions are found in contracts and contracts in the file.

### RepairLoop and the code

`pc` is the await of `CR.repair`: `original` (329), `first` (359), `evalFirst` (360), `second` and
`evalSecond` (364, the task of the gather that gets into the generator), `head` (388), `parent` (466),
`asked` (473 in `mutatePatch`), `evalMutant` (473 in `evaluatePopulation`), `crossing` (503), `evaluate`
(509). An individual is a patch; its fitness comes from `vulnerable`, the number of targeted
vulnerabilities each detector finds in the contract, which is fixed by the contract because evaluation
repeats (473 and 509) and detectors are taken to be deterministic. Ties: two individuals with the same
hard values are compared by `dominates` or `__eq__` only through the undefined name `profiling` (132, 161;
with assertions enabled, the assertions on `gas_info` fail first), so a comparison on a tie raises.

DEAP is modelled by what the loop uses: `selNSGA2` keeps a non-dominated prefix of the size asked for
(`Selections`), `selBest` the best by lexicographic order. `ParetoFront.update` takes the candidates one
after the other (`AddTo`, `Fronts`): each is compared with the members of the front as its predecessors
left it, so a candidate tied with a member raises unless an earlier one has driven that member out
(`MeetsTie`). The statistics over the candidates (394), and the sort of the plausible ones (416), compare
candidates with each other; which pairs they meet depends on the order, hence `MayRaise` allows and does
not force the exception. The order of the candidates is left open (`Orders`). With `num_remaining` 0 two
plausible patches of one generation are tied, so that one of these comparisons may raise instead of both
being reported.

`FinallyRaises` is the tie in the `finally` clause, where it replaces the empty result (`"replaced"`) or the
cancellation. `Timeout` cancels at any await; inside the generator the cancellation ends the generator.
`MainEnds` is the `finally` clause of `CLI.main`.

With assertions enabled (no `-O`), the one in `__soft_setValues` (CR.py:62) fails at every evaluation,
since CR.py:568 hands it two values (length and gas) for one weight. This is a behaviour of the model
(`EvaluationRaises`) and not the only one, because the program can be run without assertions.

### Detection and the code

`stage[p]` is where `ETC.detect` is for patch `p`. Setting `os.environ['R']` to the patch's source and
forking the compiler are one step (`Build`), since asyncio forks before its first suspension; that the
compiler sees the patch's own source is thereby assumed, not checked. `queue` is the FIFO of
`asyncio.Lock`, its head the holder; a release lets the next one in (`Tail`). In `tc`, `pMap` starts files in order up to its limit, each file runs
its tests one after the other. `Report` flattens and zips as the code does. `NoLocations`: without
modified locations `--LOCSTR` is not passed, and `tc` parses the empty string, which raises.

### SharedMachine and the code

The other program only creates and removes the file at its own lines 153, 226 and 232; the observed one is
`SmProtocol` unchanged, except that its own `unlink` raises when the other one has removed the file.

## 3. Runs

| Run | Instance | Shows |
|---|---|---|
| `search` | 2 spaces, original + 2 mutants (symmetric), batches of 2, no exits | types; `NoPrematureAbort`, `OneOutstanding`, `PatchesConserved`, `RandomNeverEmpty`, `NoIdenticalPatches`; the protocol implements `PatchSource` (`KeepsPromise`) |
| `exits` | 2 spaces, 1 mutant, exits, fatal rejections, batches of 1 | `RoundInv`, `NoSurvivor`, `NothingDiscarded` and `DeliveryInv` with processes dying anywhere; `RoundEnds`, `MutateAnswered` under fairness |
| `fault_tracking` | `{ a; if (..) { b; c; } }`, at most 3 suspicious nodes, at most 4 mutations | `FaultsResolve`, `ReverseTracks`, `RebaseTracks`, `OnePlace`, `MoveAsDrawn`, `KeepsUndisturbed`, `Shrinks` |
| `fault_space` | 2 contracts, 3 functions, a modifier, an Ether call, an emit; some 1900 specifications of up to two spaces | `FaultSpaceExact`, `DepthIsPosition`; `WalkInv` |
| `repair` | 3 mutants, 2 detectors, the 175 landscapes of `Representative`, 1 to 3 initial individuals, population 2, 2 parents, `maxTrial` 1, 2 or none | `ReportsPlausible`, `LossBounded`, `PopulationNotEmpty`, `TriesCounted`, `TrialsBounded`, `FrontExact`; `SearchInv`; `Ends` under fairness |
| `detection` | 2 patches, 2 files with 1 or 2 tests, limit 1 | `LoadBounded`, `FilterExact`, `OutcomesPaired`; `DetectInv`; `DetectionsEnd` under fairness |
| `empty_answer` | violation | an empty answer does not mean that the individual cannot be mutated any more |
| `crossover` | violation | a crossover request is never answered |
| `all_exhausted` | violation | with an empty fault space the first request is repeated for ever |
| `concurrent_asend` | violation | concurrent requests for the initial population are not serialised, they raise |
| `pairing` | violation | a file with two tests shifts the outcomes of the others |
| `shared_machine` | violation | another run on the machine makes the first answer empty |

`RoundInv`, `DeliveryInv`, `SearchInv`, `DetectInv` and `WalkInv` are the inductive invariants of section 4. The
runs check them on reachable states, and a mutant of the code breaks each of them.

**Bounds.** Two spaces are enough for a winner and a loser, for a loser that answers before it sees the
file and one that gives up, and for one process dying while the other goes on. Two mutants are needed
for batches, for a queue with patches of two requests and for a second base; the runs with exits and
with fairness use one mutant, which still gives a queue, an exhausted base and a repeated request.
Sessions follow each other without a bound; the ASTs known grow within a session, so the state space is
finite. For `fault_tracking`, four mutations give every ordered combination of two structural changes
followed by a movement into or out of a changed array, and three entries give a target, a node below it
and a bystander; the statements are at depth 1 and 3. It may stop (`CHECK_DEADLOCK FALSE`) because a
mutant without a possibility is the end of its line.

For `repair`, three mutants and a population of two make selection drop somebody, two parents make one of
them be removed while the other still waits or has just been given a mutant, and landscapes with ties
are among those checked. Findings of 0 to 2 and 0 to 1 (at most 2 in all) give a front member that is driven out
by a candidate that is not plausible itself, with a later candidate tied with it; `Representative` takes one
of the landscapes that differ by a renaming of the mutants only. What is found never changes, so this
constraint selects whole behaviours and is sound for `Ends` too. `maxTrial` 1 is passed by the initial population already, 2 by a generation. One and two
initial individuals are the cases that work, three the one that raises. For `detection`, a limit of one
with two files makes a file wait, two patches make one wait for the lock; the ranges are one that ends
where the other one is, none at all, and unknown. For `fault_space`, the locations enumerate ranges that
begin in one function and end in another, split the Ether call, or lie inside one node. `repair`,
`detection` and `fault_space` end, hence `CHECK_DEADLOCK FALSE`.

**Fairness.** `FairSpec` has weak fairness of the host's steps, since asyncio resumes a coroutine whose
awaitable is done, and of each process's steps, since the operating system schedules it and the loop polls the
file on every iteration. A search ends because each AST is drawn once and the set of ASTs is finite (a
base has finitely many mutations, each drawn once). Nothing forces the consumer to ask or to close, and
nothing forces a crash. In `RepairLoop` the steps of a generation are weakly fair: evaluations end and the
patch source answers a mutate request (`RoundEnds`, `MutateAnswered`). `BeginMutate` is strongly fair:
the operator is drawn with `rng.random() >= p_crossover` in every generation, so mutation is chosen
again and again unless `p_crossover` is 1. No fairness is given to an answer of a crossover, for there is
none (`crossover`), and `Ends` excepts that wait. In `Detection` every step of a detection is weakly fair:
child processes end and the lock is FIFO.

**Findings.** The six violations are disagreements between the code and what its comments say; each is
described in `PROJECT.json`. (1) A search that was told to stop answers `SpaceExhasutedForAST`, and the
host hands an empty tuple to `CR.py`, which removes the individual. (2) `CR.py` sends `crossover-onepoint`
requests, the handler throws for them. (3) `AllSpaceExhasuted` from every space makes the host loop. (4) The initial population is gathered by
concurrent `asend` calls, the second of which raises, because the lock of `patchSource` is inside the
generator. (5) Outcomes per test are zipped with files. (6) `/tmp/terminate_all` is shared by all runs on
a machine.

## 4. Proofs

Every invariant and every action property of the passing runs is a theorem, and so is the refinement of
`PatchSource`; the runs show them on one instance, the theorems for all values of the constants that satisfy
the assumptions. The invariants are seldom inductive. Each module has one strengthening, a conjunction of
named parts; its proof has one step per action, and the properties follow from it without looking at the
actions again.

### The protocol

`SmProtocolProofs` and `SmPromiseProofs`: any number of spaces, any set of ASTs, any batch size, any number
of exits. The only assumption is `ConstantsAssumption` (at least one space, the original contract is an AST).

- `TypeCorrect`: `Spec => []TypeOK`.
- `RoundCorrect`: `Spec => []RoundInv`. Neither `NoPrematureAbort` nor `OneOutstanding` is inductive:
  that a process which finds the file is in a round with an answer needs that the file exists only while
  answers are gathered; that a new request finds every process idle needs that in `collect` a process
  still in `results` has its one answer on the pipe and one already processed has none, which needs that
  every running process is among the readers. `RoundInv` is this chain, one conjunct per phase of the
  host. The host's actions move the invariant from one phase to the next, and a process's actions only move
  one request from `stdin` to the handler to `stdout` (`Load` is unchanged, `QuietStep`). `AbortCorrect` and
  `OutstandingCorrect` follow.
- `SurvivorCorrect` and `DiscardCorrect`: `NoSurvivor` and `NothingDiscarded`.
- `DeliveryCorrect`: `Spec => []DeliveryInv`. That no patch is handed out twice (`PatchesConserved`) needs to
  know where every patch is: found by a handler, on a pipe, queued in the host, or delivered, in one place
  only (`PlacePart`, `FoundPart`), with numbers below the counter of its process and with an AST the process
  knows. That an answer fits its request needs that queued patches fit the request they were made for and
  that a process in the round has that request in hand (`FitPart`). That a random request is never answered
  with nothing needs that an answer which was not cut short has a patch or says that the space is exhausted,
  and that there is one in every round, the winner's (`UsefulPart`). `ConservedCorrect`, `RandomCorrect` and
  `IdenticalCorrect` follow.
- `PromiseCorrect`: `Spec => KeepsPromise`. The mapping turns the state of the host into the phase of
  `PatchSource`. Accepting a request, answering, opening and closing a session map to the abstract actions,
  everything else to a stutter; the guards of the abstract answer are what `DeliveryInv` provides.

### Paths and faults

`MutationPathsProofs`: paths of any length, arrays of any size (`PropsAssumption`: array properties are
properties).

- `InsertionRoundTrip`, `DeletionRoundTrip`, `MoveRoundTrip` and their union `UpdateRoundTrip`: if a
  mutation has a counterpart `q` for `p`, its reverse sends `q` to `p`. The cases are the comparisons of
  the code (`>=`, `>`, `- 1 >=`, `+ 1 >`); the one that needs care is an element before the deleted one,
  where "not at or below the target" excludes equality of the indices (`SiblingFacts`).
- `DeletionReverseRoundTrip` and `MoveReachesPlaceDrawn`: the other way round, for array elements.
- `UpdateInjective`: no two paths are sent to one.
- `UpdateSequence` and `UndoSequence`: a *trail* is a path followed through a sequence, one path per
  mutation; `updatePath` computes its end from its beginning and `reverseUpdatePath` its beginning from its end.

`FaultTrackingProofs`: any tree, any fault space, any length of sequence.

- `TrackCorrect`: entries and mutations stay well formed (`TrackInv`: paths are never the root's, some
  type remains, the sequence consists of mutations with a destination). `MoveCorrect` (`MoveAsDrawn`) and
  `KeepsCorrect` (`KeepsUndisturbed`) follow.
- `TrailCorrect`: every entry has a trail from its original path to its present one (`TrailInv`). With
  `UndoSequence` this gives `ReverseCorrect`, and with the two halves of the trail `RebaseCorrect`.
- `NodeCorrect`: `NodeInv`, the AST is a tree and every path leads to its node. This is where the index
  arithmetic meets the tree. A path `Follows` a walk, the nodes it goes through; in a tree only one path leads
  to a node (`SamePath`), so a path goes through the changed array exactly if it begins with the path of the
  parent and its property (`AtArray`), which is what the code compares. A mutation changes one row of children
  (`Changed`): `PutTree`, `TakeTree` and `ReplaceTree` say that the new heap is a tree again and that the
  updated path leads to the same node as before; a movement is a deletion that leaves its node without a
  place, then an insertion of it; replacing a node first adds one without a place. `ResolveCorrect`,
  `TypeCorrect` and `PlaceCorrect` follow.
- `ShrinksCorrect`: the possibilities of a mutant are a proper subset of those it was made from, because the
  target loses a type, no entry with another path has the same origin (`OriginPath`, since `updatePath` gives
  one path), and they are finite.

`FaultSpaceProofs`: any tree, positions and specifiers that satisfy `TreeAssumption`, `LocAssumption`,
`GrammarAssumption` and `SpecifierAssumption`.

- `WalkCorrect`: `WalkInv`. What is on the stack to be left after a node is exactly what is above it
  (`StackPart`), which ties `fnDepth` to the position; the walk only went below nodes that may be changed
  (`AbovePart`); collected are the mutable nodes but those still to come. Where the walk does not descend,
  nothing mutable is lost because a space with a node in its exact scope is interested in all nodes above it.
  `TypeCorrect`, `DepthCorrect` (`DepthIsPosition`) and `FaultSpaceCorrect` (`FaultSpaceExact`) follow.

### The loop and the detection

`RepairLoopProofs`: any number of detectors and individuals, any landscape, any limit, any environment that is
`PatchSource` (`RepairAssumption`; `OriginalAssumption`: the original contract is not one of the patches, which
come from a process).

- `SearchCorrect`: `SearchInv`. While the loop runs, no judged patch is plausible and the front is the
  non-dominated part of what was judged; the tries not yet counted are the candidates; while parents are
  mutated, they are in the population, one that was given a mutant stays there, and each one left may add
  one try. So somebody is left when the last parent is removed, the trial counter passes its limit by less than the number of
  parents, and the patches the patch source gave are those the coroutine accounts for.
- `FrontCorrect`: `FrontExact`, in whatever order the candidates are added. Adding one candidate to the
  front of a finite set gives the front of the larger set, ties or not (`AddIsFront`: what is dominated is
  dominated by a member of the front); the fronts of one update follow by induction (`FrontsEnd`).
- `ReportCorrect` and `LossCorrect`: what is reported when `repair` returns, and what may be lost when it
  does not. A population is only emptied when no parent was given a mutant (`EmptiedUnjudged`), and at
  every await the plausible ones are in the generation in progress (`InProgress`).
- `TypeCorrect`, `PopulationCorrect`, `TriesCorrect` and `TrialsCorrect` follow, one for each invariant.

`DetectionProofs`: any number of patches, files and tests, any limit (`DetectionAssumption`).

- `DetectCorrect`: `DetectInv`. Who waits or tests is in the queue once, and only its head tests
  (`LockPart`); the state of a file fits the stage of its detection, and a file has as many outcomes as it
  ran tests (`FilePart`); what was reported stays what `tc` returned (`ResultPart`).
- `TypeCorrect`, `LoadCorrect`, `FilterCorrect` and `PairedCorrect` follow. `PairedCorrect` needs that
  flattening sequences of length one is the identity on their elements, by induction over the files.

### Induction

The library's induction theorems take an operator as parameter, which the provers cannot instantiate.
`ProofLibrary` derives what is needed from the existence of a least element instead: the property is a *set* of
numbers (`UpTo`, `UpToStrong`, `UpFromZero`, `DownToZero`). Trails, walks, the line of a node above, flattening, and
the recursive functions of `MutationPaths` and `FaultTracking` are reasoned about in this way.

**Only model-checked:** liveness, which is out of the prover's reach (`RoundEnds`, `MutateAnswered`, `Ends`,
`DetectionsEnd`), and the six violations. `SharedMachine` has no property but its violation. `Mutable` and
`Possibilities` are definitions the proofs relate the code to; that they are the right ones is for the reader.

## 5. Plan

Modelled and checked: `SmProtocol`, `PatchSource`, `MutationPaths`, `FaultTracking`, `FaultSpace`, `RepairLoop`,
`Detection`, `SharedMachine`. Proved: their safety properties and the refinement. What is left:

1. `FaultTracking` ends: `Shrinks` bounds a sequence by the possibilities of the original; state that
   bound (`Len(seq)` plus what is left is at most what there was) as an invariant and prove it.
2. `RepairLoop` relies on `PatchSource` for its environment: prove that with `SmProtocol` in its place the
   loop keeps `ReportsPlausible`, by the refinement.

## 6. Not modelled

Compilation through solc, the parsing of contracts and of specifier strings, Slither's output, gas
estimation, logging and option tables are I/O or third-party code. `MutateMutationSequence`, `mutate.ts`
and the `rebase` methods of the mutations are not reached from the program's entry points; nor are
`fastFail` (`detectPatch` is only called with `False`), the trace of program counters in `exec2.ts`, and what
the soft objectives and gas would decide on a tie, since looking at them raises. `ASTNodeSpace` samples
nodes at random; the models let any node be drawn. Which range a mutation reports as modified
(`modifiedLocations`) is any set in `Detection`. `--targetVul` decides which findings count as targeted,
which `vulnerable` and `untargeted` already separate.
