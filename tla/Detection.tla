----------------------------- MODULE Detection -----------------------------
(***************************************************************************)
(* The evaluation of the individuals of a generation: CR.evaluatePopulation*)
(* runs all detectors on all of them concurrently.  Slither is one await;  *)
(* the test-case detector (ETC.py) compiles the contract in a child        *)
(* process that inherits the contract through the environment variable R,  *)
(* takes a lock and runs the test files with tc (exec.ts, exec2.ts), a     *)
(* Node process that runs a limited number of files at once, each test by  *)
(* one call of testeth.                                                    *)
(***************************************************************************)
EXTENDS Naturals, Sequences, FiniteSets, SequencesExt

CONSTANTS
  Patches,   \* the individuals evaluated together
  NumFiles,  \* test files, in the order of paths_tc
  MaxTests,  \* bound: tests in a file
  Limit,     \* concurrency limit of tc
  Covered,   \* the coverage a file may carry: a set of ranges, or NoInfo
  Modified,  \* the modified locations a patch may carry, or NoInfo
  Findings,  \* how many vulnerabilities Slither may find
  NoInfo

\* A range of positions, its end included.
CodeRange == {r \in [start : Nat, end : Nat] : r.start <= r.end}

ASSUME DetectionAssumption ==
  /\ NumFiles \in Nat \ {0} /\ MaxTests \in Nat \ {0} /\ Limit \in Nat \ {0}
  /\ Findings \subseteq Nat
  /\ \A c \in Covered \cup Modified : c = NoInfo \/ c \subseteq CodeRange

Files == 1 .. NumFiles

VARIABLES
  \* the inputs
  tests,      \* how many tests a file holds
  covered,    \* CoveredStatementLocation of a file
  modified,   \* ModifiedLocations of a patch
  \* ETC.detect
  stage,      \* where ETC.detect is
  queue,      \* ctxManagerExecTC: its holder, and who waits for it
  \* tc
  state,      \* per patch and file: "queued", "running", "done", "NotRelevant"
  outcomes,   \* per patch and file: what its tests returned so far
  \* the results
  report,     \* per patch: the outcomes paired with the files
  findings,   \* per patch: what Slither found; NoInfo while it runs
  fitness     \* per patch; NoInfo before the evaluation ends

inputVars == <<tests, covered, modified>>
tcVars == <<state, outcomes>>
resultVars == <<report, findings, fitness>>
vars == <<inputVars, stage, queue, tcVars, resultVars>>

---------------------------------------------------------------------------
(* The filter by location *)

\* Slip: only the start of a is looked at.
locationIntersect_OneSided(a, b) == a.start >= b.start /\ a.start <= b.end

\* Start of a is inside b, or start of b is inside a.
locationIntersect(a, b) ==
  \/ a.start >= b.start /\ a.start <= b.end
  \/ b.start >= a.start /\ b.start <= a.end

\* Nothing that the file covers was modified.
NotRelevant(p, f) ==
  /\ covered[f] # NoInfo
  /\ \A x \in covered[f] : ~\E y \in modified[p] : locationIntersect(x, y)

---------------------------------------------------------------------------
(* ETC.detect *)

\* The environment variable R is set and the compiler forked with it, without
\* a suspension between: the contract compiled is the patch's own.
Build(p) ==
  /\ stage[p] = "new"
  /\ stage' = [stage EXCEPT ![p] = "building"]
  /\ UNCHANGED <<inputVars, queue, tcVars, resultVars>>

\* The bytecode is there: ask for the lock.
Built(p) ==
  /\ stage[p] = "building"
  /\ stage' = [stage EXCEPT ![p] = "waiting"]
  /\ queue' = Append(queue, p)
  /\ UNCHANGED <<inputVars, tcVars, resultVars>>

\* The compiler fails or returns nothing.
BuildFails(p) ==
  /\ stage[p] = "building"
  /\ stage' = [stage EXCEPT ![p] = "failed"]
  /\ UNCHANGED <<inputVars, queue, tcVars, resultVars>>

\* Slip: the lock is not used.
Holds_Anyone(p) == p \in ToSet(queue)
Holds(p) == queue # <<>> /\ Head(queue) = p

\* The lock is acquired and tc started.
StartTests(p) ==
  /\ stage[p] = "waiting" /\ Holds(p)
  /\ modified[p] # NoInfo
  /\ stage' = [stage EXCEPT ![p] = "testing"]
  /\ UNCHANGED <<inputVars, queue, tcVars, resultVars>>

\* Slip: the lock is kept when tc fails.
TcFails_KeepsLock(p) ==
  /\ stage' = [stage EXCEPT ![p] = "failed"]
  /\ state' = [state EXCEPT ![p] = [f \in Files |-> IF @[f] = "running" THEN "killed" ELSE @[f]]]
  /\ UNCHANGED <<inputVars, queue, outcomes, resultVars>>

\* tc ends with an error, and its tests with it; the lock is released.
TcFails(p) ==
  /\ stage' = [stage EXCEPT ![p] = "failed"]
  /\ state' = [state EXCEPT ![p] = [f \in Files |-> IF @[f] = "running" THEN "killed" ELSE @[f]]]
  /\ queue' = Tail(queue)
  /\ UNCHANGED <<inputVars, outcomes, resultVars>>

\* The modified locations are not known: tc is started without LOCSTR, and
\* parsing the empty string raises.
NoLocations(p) ==
  /\ stage[p] = "waiting" /\ Holds(p)
  /\ modified[p] = NoInfo
  /\ TcFails(p)

---------------------------------------------------------------------------
(* tc *)

Running(p) == {f \in Files : state[p][f] = "running"}

\* pMap takes the next file when one of its slots is free.  A file that does
\* not cover what was modified is not run.
StartFile(p, f) ==
  /\ stage[p] = "testing" /\ state[p][f] = "queued"
  /\ \A g \in 1 .. f - 1 : state[p][g] # "queued"
  /\ Cardinality(Running(p)) < Limit
  /\ state' = [state EXCEPT ![p][f] = IF NotRelevant(p, f) THEN "NotRelevant" ELSE "running"]
  /\ UNCHANGED <<inputVars, stage, queue, outcomes, resultVars>>

\* Slip: the end of the file is noticed one test late.
RunTest_OneMore(p, f, rst) ==
  /\ state[p][f] = "running"
  /\ outcomes' = [outcomes EXCEPT ![p][f] = Append(@, rst)]
  /\ state' = [state EXCEPT ![p][f] = IF Len(outcomes[p][f]) = tests[f] THEN "done" ELSE @]
  /\ UNCHANGED <<inputVars, stage, queue, resultVars>>

\* testeth on the next test of the file: exit status 0, or 200 and 201.
RunTest(p, f, rst) ==
  /\ state[p][f] = "running"
  /\ outcomes' = [outcomes EXCEPT ![p][f] = Append(@, rst)]
  /\ state' = [state EXCEPT ![p][f] = IF Len(outcomes[p][f]) + 1 = tests[f] THEN "done" ELSE @]
  /\ UNCHANGED <<inputVars, stage, queue, resultVars>>

\* Any other exit status is an error.
TestThrows(p, f) ==
  /\ state[p][f] = "running"
  /\ TcFails(p)

---------------------------------------------------------------------------
(* The results *)

\* Slip: files without a result are left out before pairing.
tcRsts_Compact(p) ==
  FlattenSeq([f \in Files |-> IF state[p][f] = "NotRelevant" THEN <<>> ELSE outcomes[p][f]])

\* What tc prints: the outcomes of the files, flattened.
tcRsts(p) ==
  FlattenSeq([f \in Files |-> IF state[p][f] = "NotRelevant" THEN <<"NotRelevant">>
                                                             ELSE outcomes[p][f]])

\* All files are through: the lock is released and the outcomes are paired
\* with the files, the surplus being dropped.
Report(p) ==
  /\ stage[p] = "testing"
  /\ \A f \in Files : state[p][f] \in {"done", "NotRelevant"}
  /\ report' = [report EXCEPT ![p] = [f \in {g \in Files : g <= Len(tcRsts(p))} |-> tcRsts(p)[f]]]
  /\ queue' = Tail(queue)
  /\ stage' = [stage EXCEPT ![p] = "done"]
  /\ UNCHANGED <<inputVars, tcVars, findings, fitness>>

SlitherDone(p) ==
  /\ findings[p] = NoInfo
  /\ \E n \in Findings : findings' = [findings EXCEPT ![p] = n]
  /\ UNCHANGED <<inputVars, stage, queue, tcVars, report, fitness>>

FailedTestCases(p) == {f \in DOMAIN report[p] : report[p][f] = "fail"}

\* problemDectionScore, negated, per detector.
Score(p) == <<findings[p], Cardinality(FailedTestCases(p))>>

\* Every detector is through with every patch.
AssignFitness ==
  /\ \A p \in Patches : stage[p] = "done" /\ findings[p] # NoInfo /\ fitness[p] = NoInfo
  /\ fitness' = [p \in Patches |-> Score(p)]
  /\ UNCHANGED <<inputVars, stage, queue, tcVars, report, findings>>

---------------------------------------------------------------------------
Init ==
  /\ tests \in [Files -> 1 .. MaxTests]
  /\ covered \in [Files -> Covered]
  /\ modified \in [Patches -> Modified]
  /\ stage = [p \in Patches |-> "new"] /\ queue = <<>>
  /\ state = [p \in Patches |-> [f \in Files |-> "queued"]]
  /\ outcomes = [p \in Patches |-> [f \in Files |-> <<>>]]
  /\ report = [p \in Patches |-> <<>>]
  /\ findings = [p \in Patches |-> NoInfo] /\ fitness = [p \in Patches |-> NoInfo]

Detect(p) ==
  \/ Build(p) \/ Built(p) \/ BuildFails(p) \/ StartTests(p) \/ NoLocations(p) \/ Report(p)
  \/ \E f \in Files :
       StartFile(p, f) \/ TestThrows(p, f) \/ \E rst \in {"pass", "fail"} : RunTest(p, f, rst)

Next == AssignFitness \/ \E p \in Patches : Detect(p) \/ SlitherDone(p)

Spec == Init /\ [][Next]_vars

\* Child processes end, and the event loop resumes what waits for them.
FairSpec == Spec /\ \A p \in Patches : WF_vars(Detect(p))

---------------------------------------------------------------------------
(* Properties *)

Outcome == {"pass", "fail"}

\* Types of the variables.
TypeOK ==
  /\ tests \in [Files -> 1 .. MaxTests]
  /\ covered \in [Files -> Covered] /\ modified \in [Patches -> Modified]
  /\ stage \in [Patches -> {"new", "building", "waiting", "testing", "done", "failed"}]
  /\ queue \in Seq(Patches)
  /\ state \in [Patches -> [Files -> {"queued", "running", "done", "NotRelevant", "killed"}]]
  /\ outcomes \in [Patches -> [Files -> Seq(Outcome)]]
  /\ \A p \in Patches : \A f \in Files : Len(outcomes[p][f]) <= tests[f]
  /\ DOMAIN report = Patches
  /\ \A p \in Patches : report[p] \in {<<>>} \cup [Files -> Outcome \cup {"NotRelevant"}]
  /\ findings \in [Patches -> Findings \cup {NoInfo}]
  /\ fitness \in [Patches -> {NoInfo} \cup (Findings \X Nat)]

\* Over all patches evaluated at once, no more than Limit files are being run:
\* the lock is held until tc has ended, and tc keeps to its limit.
LoadBounded ==
  Cardinality({pf \in Patches \X Files : state[pf[1]][pf[2]] = "running"}) <= Limit

Positions(S) == UNION {r.start .. r.end : r \in S}

\* A file is left out exactly if it is known to cover no modified position.
FilterExact ==
  \A p \in Patches : \A f \in Files :
    state[p][f] # "queued" =>
      (state[p][f] = "NotRelevant"
         <=> covered[f] # NoInfo /\ Positions(covered[f]) \cap Positions(modified[p]) = {})

\* The files with a failing test.
Failing(p) == {f \in Files : "fail" \in ToSet(outcomes[p][f])}

\* If every file holds one test, in whatever order the files ended and whichever
\* were left out, the failures reported are those of the files, and the fitness
\* counts them.
OutcomesPaired ==
  (\A f \in Files : tests[f] = 1) =>
    \A p \in Patches :
      /\ stage[p] = "done" => FailedTestCases(p) = Failing(p)
      /\ fitness[p] # NoInfo => fitness[p] = <<findings[p], Cardinality(Failing(p))>>

\* Who waits for the lock or holds it is in the queue, once, and tc only runs
\* for the holder.
LockPart ==
  /\ \A p \in Patches : stage[p] \in {"waiting", "testing"} <=> p \in ToSet(queue)
  /\ \A i, j \in 1 .. Len(queue) : queue[i] = queue[j] => i = j
  /\ \A p \in Patches : stage[p] = "testing" => Holds(p)

\* How far a file is, and what its tests returned, fits how far the detection
\* is.
FileFits(p, f) ==
  /\ stage[p] \in {"new", "building", "waiting"} => state[p][f] = "queued"
  /\ stage[p] = "done" => state[p][f] \in {"done", "NotRelevant"}
  /\ state[p][f] = "running" => stage[p] = "testing" /\ Len(outcomes[p][f]) < tests[f]
  /\ state[p][f] = "done" => Len(outcomes[p][f]) = tests[f]
  /\ state[p][f] \in {"queued", "NotRelevant"} => outcomes[p][f] = <<>>
  /\ state[p][f] # "queued" => (state[p][f] = "NotRelevant" <=> NotRelevant(p, f))
  /\ stage[p] = "testing" \/ state[p][f] # "queued" => modified[p] # NoInfo

\* So it is with all files, and tc keeps to its limit.
FilePart ==
  \A p \in Patches : Cardinality(Running(p)) <= Limit /\ \A f \in Files : FileFits(p, f)

\* What is reported stays what tc returned, and the fitness what was reported.
ResultFits(p) ==
  /\ stage[p] = "done" =>
       report[p] = [f \in {g \in Files : g <= Len(tcRsts(p))} |-> tcRsts(p)[f]]
  /\ fitness[p] # NoInfo => stage[p] = "done" /\ findings[p] # NoInfo /\ fitness[p] = Score(p)

ResultPart == \A p \in Patches : ResultFits(p)

\* The inductive invariant behind the others.
DetectInv == LockPart /\ FilePart /\ ResultPart

\* Every detection ends, also when others fail while they hold the lock.
DetectionsEnd == \A p \in Patches : <>(stage[p] \in {"done", "failed"})

---------------------------------------------------------------------------
(* What a comment of the repository says, and the code does not do *)

\* ETC.py:103: "When fastFail is False, this results a dict of
\* {path_test_case: bool}": a file is reported as failed if a test of it failed.
OutcomePerFile ==
  \A p \in Patches : stage[p] = "done" => FailedTestCases(p) = Failing(p)
============================================================================
