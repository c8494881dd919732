---------------------------- MODULE SmProtocol ----------------------------
(***************************************************************************)
(* The patch source of SCRepair: SolidityM.py (the host) drives one sm     *)
(* process per mutation space over stdin/stdout.  A request is broadcast   *)
(* to every running process; the first answer makes the host create the    *)
(* file /tmp/terminate_all, which the search loops of the other processes  *)
(* poll, so that every process answers every request.  Answers that the    *)
(* consumer (the genetic search of CR.py) did not get yet are queued.      *)
(*                                                                         *)
(* An AST stands for a mutated contract, and for the mutation sequence     *)
(* that produces it.  What sm's generator knows is kept as two sets per    *)
(* process: the ASTs it has seen, and those it can still mutate.  Which    *)
(* mutation is drawn, whether the mutant compiles and whether it uses the  *)
(* mutation types of the space are nondeterministic.                       *)
(***************************************************************************)
EXTENDS Naturals, Sequences, FiniteSets, SequencesExt

CONSTANTS
  N,                \* number of mutation spaces, hence of sm processes
  AST,              \* the contracts the generators can reach
  Ori,              \* the original contract
  NumPatched,       \* num_patched: mutants asked for by a random request
  FaultSpaceEmpty,  \* no node of the original contract is in the fault space
  RejectionIsFatal, \* Node >= 15: an unhandled rejection ends the process
  MaxExits          \* bound: processes that may end unexpectedly in a session

ASSUME ConstantsAssumption ==
  /\ N \in Nat \ {0}
  /\ Ori \in AST
  /\ NumPatched \in Nat \ {0}
  /\ FaultSpaceEmpty \in BOOLEAN
  /\ RejectionIsFatal \in BOOLEAN
  /\ MaxExits \in Nat

VARIABLES
  \* the host (one generator object of SolidityM.__patchSource)
  hostPc,       \* where the coroutine is suspended
  request,      \* the request being served (requestObj, jsonStr)
  readers,      \* the processes written to, then those being read (readTasks)
  results,      \* the answers of this round still to be processed (rs)
  gotHax,       \* some answer of this round was AllSpaceExhasuted
  unconsumed,   \* unconsumedPatches
  reply,        \* the tuple yielded last
  delivered,    \* history: every patch yielded in this session
  \* the file system
  terminateAll, \* /tmp/terminate_all exists
  \* the sm processes
  status,       \* "none", "running", or how the process ended
  stdin,        \* request lines not read yet
  stdout,       \* answer lines not read yet
  pc,           \* where the line handler is
  job,          \* the request being handled
  outcome,      \* what genSeqs has returned so far, if not a list
  found,        \* the mutants found for it (rstMutations)
  known,        \* ast_DistMap: every AST seen
  live,         \* dist_ast_infoMap: the ASTs that can still be a base
  numProcessed, \* patches written so far; names the next file
  aborted       \* history: processes that gave up this round on terminate_all

hostVars == <<hostPc, request, readers, results, gotHax, unconsumed, reply, delivered>>
genVars == <<outcome, found, known, live, numProcessed>>
smVars == <<status, stdin, stdout, pc, job, genVars>>
vars == <<hostVars, terminateAll, smVars, aborted>>

Spaces == 1 .. N

---------------------------------------------------------------------------
(* Requests, answers and patches *)

\* "base" only matters for a mutate request.
Random == [type |-> "random", base |-> Ori]
Crossover == [type |-> "crossover-onepoint", base |-> Ori]
Mutate(b) == [type |-> "mutate", base |-> b]
Requests == {Random, Crossover} \cup {Mutate(b) : b \in AST}

\* A mutation sequence found by the generator: a base plus one mutation.
Mutant == [base : AST, ast : AST]

\* PatchInfo: the file <num>.sol in the directory of the space.
Patch == [space : Spaces, num : Nat, base : AST, ast : AST]

Response == [Result : {"Success", "SpaceExhasutedForAST", "AllSpaceExhasuted"},
             patches : Seq(Patch)]

Entry == [payload : Patch, json : Requests]

Running == {s \in Spaces : status[s] = "running"}

\* A read of the process's stdout returns: a line, or end of file.
Answered(s) == stdout[s] # <<>> \/ status[s] # "running"

HasPatch == \E i \in 1 .. Len(unconsumed) : unconsumed[i].json = request
\* Slip: the head of the queue, whatever it was generated for.
FirstPatch_AnyRequest == 1
FirstPatch == SelectInSeq(unconsumed, LAMBDA e : e.json = request)

---------------------------------------------------------------------------
(* The host *)

\* What a session holds is gone with it: the locals of the generator object,
\* the pipes and the memory of the processes.
ClearSession ==
  /\ request' = Random
  /\ readers' = {} /\ results' = {} /\ gotHax' = FALSE
  /\ unconsumed' = <<>> /\ reply' = <<>> /\ delivered' = {}
  /\ stdin' = [s \in Spaces |-> <<>>]
  /\ stdout' = [s \in Spaces |-> <<>>]
  /\ pc' = [s \in Spaces |-> "idle"]
  /\ job' = [s \in Spaces |-> Random]
  /\ outcome' = [s \in Spaces |-> "none"]
  /\ found' = [s \in Spaces |-> <<>>]
  /\ known' = [s \in Spaces |-> {}]
  /\ live' = [s \in Spaces |-> {}]
  /\ numProcessed' = [s \in Spaces |-> 0]
  /\ aborted' = {}

\* Slip: the processes are not killed.
Close_NoKill ==
  /\ hostPc' = "closed"
  /\ ClearSession
  /\ UNCHANGED <<status, terminateAll>>

\* finally: killAllProcesses().  The file /tmp/terminate_all
\* stays if it was there.
Close ==
  /\ hostPc' = "closed"
  /\ status' = [s \in Spaces |-> IF status[s] = "running" THEN "killed" ELSE status[s]]
  /\ ClearSession
  /\ UNCHANGED terminateAll

\* Slip: a stale /tmp/terminate_all is not removed.
Launch_KeepsFile ==
  /\ hostPc = "closed"
  /\ hostPc' = "starting"
  /\ status' = [s \in Spaces |-> "none"]
  /\ ClearSession
  /\ UNCHANGED terminateAll

\* A new generator object: a stale /tmp/terminate_all of an earlier session
\* is removed before any process starts.
Launch ==
  /\ hostPc = "closed"
  /\ hostPc' = "starting"
  /\ status' = [s \in Spaces |-> "none"]
  /\ ClearSession
  /\ terminateAll' = FALSE

\* One process per space, in order.  The generator of a started process
\* knows the original contract.
StartProcess(s) ==
  /\ hostPc = "starting"
  /\ status[s] = "none" /\ \A t \in Spaces : t < s => status[t] # "none"
  /\ status' = [status EXCEPT ![s] = "running"]
  /\ known' = [known EXCEPT ![s] = {Ori}]
  /\ live' = [live EXCEPT ![s] = IF FaultSpaceEmpty THEN {} ELSE {Ori}]
  /\ hostPc' = IF s = N THEN "dispatch" ELSE "starting"
  /\ UNCHANGED <<request, readers, results, gotHax, unconsumed, reply, delivered,
                 terminateAll, stdin, stdout, pc, job, outcome, found, numProcessed, aborted>>

\* The consumer sends the next request.  It can only name the original
\* contract or a patch it was given.
Ask(r) ==
  /\ hostPc = "ready"
  /\ r.type = "mutate" => r.base = Ori \/ \E p \in delivered : p.ast = r.base
  /\ request' = r
  /\ hostPc' = "dispatch"
  /\ UNCHANGED <<readers, results, gotHax, unconsumed, reply, delivered,
                 terminateAll, smVars, aborted>>

\* Slip: the yielded patch stays in the queue.
Deliver_Keeps ==
  /\ reply' = <<unconsumed[FirstPatch].payload>>
  /\ delivered' = delivered \cup {unconsumed[FirstPatch].payload}
  /\ hostPc' = "ready"
  /\ UNCHANGED <<request, readers, results, gotHax, unconsumed, terminateAll, smVars, aborted>>

\* Yield the first queued patch that was generated for the same request.
Deliver ==
  /\ reply' = <<unconsumed[FirstPatch].payload>>
  /\ delivered' = delivered \cup {unconsumed[FirstPatch].payload}
  /\ unconsumed' = RemoveAt(unconsumed, FirstPatch)
  /\ hostPc' = "ready"
  /\ UNCHANGED <<request, readers, results, gotHax, terminateAll, smVars, aborted>>

DispatchQueued ==
  /\ hostPc = "dispatch" /\ HasPatch
  /\ Deliver

\* checkIfProcessesOkay: a process ended with an error.
DispatchRaises ==
  /\ hostPc = "dispatch" /\ ~HasPatch
  /\ \E s \in Spaces : status[s] = "exit1"
  /\ Close

\* No process is left: the generator ends.
DispatchEnds ==
  /\ hostPc = "dispatch" /\ ~HasPatch
  /\ \A s \in Spaces : status[s] = "exit0"
  /\ Close

\* The request is written to every running process.
DispatchSend ==
  /\ hostPc = "dispatch" /\ ~HasPatch
  /\ Running # {} /\ \A s \in Spaces : status[s] # "exit1"
  /\ stdin' = [s \in Spaces |-> IF s \in Running THEN Append(stdin[s], request)
                                                 ELSE stdin[s]]
  /\ readers' = Running
  /\ hostPc' = "drain"
  /\ UNCHANGED <<request, results, gotHax, unconsumed, reply, delivered,
                 terminateAll, status, stdout, pc, job, genVars, aborted>>

\* The writes are flushed; the processes still running are read.
Drained ==
  /\ hostPc = "drain" /\ Running # {}
  /\ readers' = Running
  /\ hostPc' = "wait"
  /\ UNCHANGED <<request, results, gotHax, unconsumed, reply, delivered,
                 terminateAll, smVars, aborted>>

\* A process died before it was flushed to: drain may raise, and waiting
\* for no reader at all does.
DrainRaises ==
  /\ hostPc = "drain" /\ readers \ Running # {}
  /\ Close

\* FIRST_COMPLETED: tell the others to stop.
FirstCompleted ==
  /\ hostPc = "wait"
  /\ \E s \in readers : Answered(s)
  /\ terminateAll' = TRUE
  /\ hostPc' = "gather"
  /\ UNCHANGED <<request, readers, results, gotHax, unconsumed, reply, delivered,
                 smVars, aborted>>

\* Slip: only the answers that are there already are gathered.
Gathered_Early ==
  /\ hostPc = "gather"
  /\ terminateAll' = FALSE
  /\ results' = {s \in readers : Answered(s)}
  /\ readers' = {} /\ gotHax' = FALSE /\ aborted' = {}
  /\ hostPc' = "collect"
  /\ UNCHANGED <<request, unconsumed, reply, delivered, smVars>>

\* Slip: /tmp/terminate_all is not removed at the end of a round.
Gathered_KeepsFile ==
  /\ hostPc = "gather"
  /\ \A s \in readers : Answered(s)
  /\ results' = readers /\ readers' = {} /\ gotHax' = FALSE /\ aborted' = {}
  /\ hostPc' = "collect"
  /\ UNCHANGED <<request, unconsumed, reply, delivered, terminateAll, smVars>>

\* Every reader is through.
Gathered ==
  /\ hostPc = "gather"
  /\ \A s \in readers : Answered(s)
  /\ terminateAll' = FALSE
  /\ results' = readers /\ readers' = {} /\ gotHax' = FALSE /\ aborted' = {}
  /\ hostPc' = "collect"
  /\ UNCHANGED <<request, unconsumed, reply, delivered, smVars>>

\* The answers are processed in the order of the spaces.
IsNextResult(s) == s \in results /\ \A t \in results : s <= t

CollectResult(s) ==
  /\ hostPc = "collect" /\ IsNextResult(s) /\ stdout[s] # <<>>
  /\ LET r == Head(stdout[s]) IN
       /\ gotHax' = (gotHax \/ r.Result = "AllSpaceExhasuted")
       /\ unconsumed' = unconsumed \o [i \in 1 .. Len(r.patches) |->
                                         [payload |-> r.patches[i], json |-> request]]
  /\ stdout' = [stdout EXCEPT ![s] = Tail(@)]
  /\ results' = results \ {s}
  /\ UNCHANGED <<hostPc, request, readers, reply, delivered,
                 terminateAll, status, stdin, pc, job, genVars, aborted>>

\* Unexpected empty output from sm
CollectRaises(s) ==
  /\ hostPc = "collect" /\ IsNextResult(s) /\ stdout[s] = <<>>
  /\ Close

\* The round is over: yield a patch for the request, or nothing, or - when
\* nothing came and some space is exhausted - send the same request again.
FinishWithPatch ==
  /\ hostPc = "collect" /\ results = {} /\ HasPatch
  /\ Deliver

\* Slip: AllSpaceExhasuted is treated like an empty answer.
FinishEmpty_IgnoresHax ==
  /\ hostPc = "collect" /\ results = {} /\ ~HasPatch
  /\ hostPc' = "ready" /\ reply' = <<>>
  /\ UNCHANGED <<request, readers, results, gotHax, unconsumed, delivered,
                 terminateAll, smVars, aborted>>

FinishEmpty ==
  /\ hostPc = "collect" /\ results = {} /\ ~HasPatch
  /\ hostPc' = IF gotHax THEN "dispatch" ELSE "ready"
  /\ reply' = IF gotHax THEN reply ELSE <<>>
  /\ UNCHANGED <<request, readers, results, gotHax, unconsumed, delivered,
                 terminateAll, smVars, aborted>>

\* The task is cancelled, or the generator closed, at an await or a yield.
Cancel ==
  /\ hostPc \in {"drain", "wait", "gather", "ready"}
  /\ Close

\* ... during start-up: killAllProcesses itself raises (a space has no
\* 'proc' yet), so the processes already started keep running.
CancelStarting ==
  /\ hostPc = "starting"
  /\ hostPc' = "closed"
  /\ UNCHANGED <<request, readers, results, gotHax, unconsumed, reply, delivered,
                 terminateAll, smVars, aborted>>

---------------------------------------------------------------------------
(* An sm process: the line handler of genMutations *)

\* The generator records an AST it has never seen.  It can be a base if it has
\* nodes left in its fault space, whether or not it compiles.
addKnownAST(s, c) ==
  /\ known' = [known EXCEPT ![s] = @ \cup {c}]
  /\ \E b \in {{}, {c}} : live' = [live EXCEPT ![s] = @ \cup b]

\* A request line is read.  The base AST of a mutate request is made known
\* to the generator, as a base if its fault space is not empty.
ReadLine(s) ==
  /\ status[s] = "running" /\ pc[s] = "idle" /\ stdin[s] # <<>>
  /\ LET r == Head(stdin[s]) IN
       /\ r.type # "crossover-onepoint"
       /\ job' = [job EXCEPT ![s] = r]
       /\ IF r.type = "mutate" /\ r.base \notin known[s]
            THEN addKnownAST(s, r.base)
            ELSE UNCHANGED <<known, live>>
  /\ stdin' = [stdin EXCEPT ![s] = Tail(@)]
  /\ pc' = [pc EXCEPT ![s] = "next"]
  /\ UNCHANGED <<hostVars, terminateAll, status, stdout, outcome, found, numProcessed, aborted>>

\* Any other request type: the asynchronous handler throws and never answers.
RejectLine(s) ==
  /\ status[s] = "running" /\ pc[s] = "idle" /\ stdin[s] # <<>>
  /\ Head(stdin[s]).type = "crossover-onepoint"
  /\ stdin' = [stdin EXCEPT ![s] = Tail(@)]
  /\ status' = IF RejectionIsFatal THEN [status EXCEPT ![s] = "exit1"] ELSE status
  /\ UNCHANGED <<hostVars, terminateAll, stdout, pc, job, genVars, aborted>>

Searching(s) == status[s] = "running" /\ pc[s] = "next"

\* Slip: the handler returns without an answer.
Terminate_Silently(s) ==
  /\ Searching(s) /\ terminateAll
  /\ pc' = [pc EXCEPT ![s] = "idle"]
  /\ aborted' = aborted \cup {s}
  /\ UNCHANGED <<hostVars, terminateAll, status, stdin, stdout, job, genVars>>

\* One iteration of the search loop, when /tmp/terminate_all exists.
Terminate(s) ==
  /\ Searching(s) /\ terminateAll
  /\ pc' = [pc EXCEPT ![s] = "respond"]
  /\ aborted' = aborted \cup {s}
  /\ UNCHANGED <<hostVars, terminateAll, status, stdin, stdout, job, genVars>>

\* The bases an iteration may draw from.
Pickable(s) == IF job[s].type = "random" THEN live[s] ELSE live[s] \cap {job[s].base}

\* Slip: an exhausted requested AST is reported as an exhausted space.
NothingToPick_AllDone(s) ==
  /\ Searching(s) /\ ~terminateAll /\ Pickable(s) = {}
  /\ outcome' = [outcome EXCEPT ![s] = "AllSpaceExhasuted"]
  /\ pc' = [pc EXCEPT ![s] = "respond"]
  /\ UNCHANGED <<hostVars, terminateAll, status, stdin, stdout, job, found, known, live,
                 numProcessed, aborted>>

\* No base to draw from: the whole space is exhausted for a random request,
\* the requested AST for a mutate request.
NothingToPick(s) ==
  /\ Searching(s) /\ ~terminateAll /\ Pickable(s) = {}
  /\ outcome' = [outcome EXCEPT ![s] = IF job[s].type = "random" THEN "AllSpaceExhasuted" ELSE @]
  /\ pc' = [pc EXCEPT ![s] = "respond"]
  /\ UNCHANGED <<hostVars, terminateAll, status, stdin, stdout, job, found, known, live,
                 numProcessed, aborted>>

\* The chosen base has no mutation left.  A random search goes on.
BaseDrained(s, b) ==
  /\ Searching(s) /\ ~terminateAll /\ b \in Pickable(s)
  /\ live' = [live EXCEPT ![s] = @ \ {b}]
  /\ IF job[s].type = "random"
       THEN UNCHANGED <<outcome, pc>>
       ELSE /\ outcome' = [outcome EXCEPT ![s] = IF live[s] = {b} THEN "AllSpaceExhasuted" ELSE @]
            /\ pc' = [pc EXCEPT ![s] = "respond"]
  /\ UNCHANGED <<hostVars, terminateAll, status, stdin, stdout, job, found, known,
                 numProcessed, aborted>>

\* Slip: a random request is served with one mutant more than asked for.
Wanted_Plus(s) == IF job[s].type = "random" THEN NumPatched + 1 ELSE 1

\* How many mutants genSeqs looks for.
Wanted(s) == IF job[s].type = "random" THEN NumPatched ELSE 1

\* Slip: the new AST is not recorded in ast_DistMap.
Draw_Forgets(s, b, c) ==
  /\ Searching(s) /\ ~terminateAll /\ b \in Pickable(s)
  /\ c \notin known[s]
  /\ found' = [found EXCEPT ![s] = Append(@, [base |-> b, ast |-> c])]
  /\ pc' = IF Len(found[s]) + 1 < Wanted(s) THEN pc ELSE [pc EXCEPT ![s] = "respond"]
  /\ UNCHANGED <<hostVars, terminateAll, status, stdin, stdout, job, outcome, known, live,
                 numProcessed, aborted>>

\* A mutation of b gives an AST never seen before (a seen one is skipped).
\* It becomes a base if its fault space is not empty, and an answer if it
\* compiles to new code and uses the required mutation types.
Draw(s, b, c) ==
  /\ Searching(s) /\ ~terminateAll /\ b \in Pickable(s)
  /\ c \notin known[s]
  /\ addKnownAST(s, c)
  /\ \/ UNCHANGED <<found, pc>>
     \/ /\ found' = [found EXCEPT ![s] = Append(@, [base |-> b, ast |-> c])]
        /\ pc' = IF Len(found[s]) + 1 < Wanted(s) THEN pc ELSE [pc EXCEPT ![s] = "respond"]
  /\ UNCHANGED <<hostVars, terminateAll, status, stdin, stdout, job, outcome,
                 numProcessed, aborted>>

\* Slip: files are numbered from one less.
WrittenPatches_OffByOne(s) ==
  [i \in 1 .. Len(found[s]) |->
     [space |-> s, num |-> numProcessed[s] + i - 2,
      base |-> found[s][i].base, ast |-> found[s][i].ast]]

\* The patches of an answer, each with the file it is written to.
WrittenPatches(s) ==
  [i \in 1 .. Len(found[s]) |->
     [space |-> s, num |-> numProcessed[s] + i - 1,
      base |-> found[s][i].base, ast |-> found[s][i].ast]]

\* The locals of the handler are gone.
HandlerReturns(s) ==
  /\ pc' = [pc EXCEPT ![s] = "idle"]
  /\ job' = [job EXCEPT ![s] = Random]
  /\ outcome' = [outcome EXCEPT ![s] = "none"]
  /\ found' = [found EXCEPT ![s] = <<>>]

RespondExhausted(s) ==
  /\ status[s] = "running" /\ pc[s] = "respond"
  /\ outcome[s] = "AllSpaceExhasuted" \/ (job[s].type = "mutate" /\ found[s] = <<>>)
  /\ stdout' = [stdout EXCEPT ![s] = Append(@,
       [Result |-> IF outcome[s] = "AllSpaceExhasuted" THEN "AllSpaceExhasuted"
                                                       ELSE "SpaceExhasutedForAST",
        patches |-> <<>>])]
  /\ HandlerReturns(s)
  /\ UNCHANGED <<hostVars, terminateAll, status, stdin, known, live, numProcessed, aborted>>

\* Slip: numProcessed is not advanced, so files are overwritten.
RespondSuccess_SameFile(s) ==
  /\ status[s] = "running" /\ pc[s] = "respond"
  /\ outcome[s] = "none" /\ (job[s].type = "mutate" => found[s] # <<>>)
  /\ stdout' = [stdout EXCEPT ![s] = Append(@,
       [Result |-> "Success", patches |-> WrittenPatches(s)])]
  /\ HandlerReturns(s)
  /\ UNCHANGED <<hostVars, terminateAll, status, stdin, known, live, numProcessed, aborted>>

RespondSuccess(s) ==
  /\ status[s] = "running" /\ pc[s] = "respond"
  /\ outcome[s] = "none" /\ (job[s].type = "mutate" => found[s] # <<>>)
  /\ stdout' = [stdout EXCEPT ![s] = Append(@,
       [Result |-> "Success", patches |-> WrittenPatches(s)])]
  /\ numProcessed' = [numProcessed EXCEPT ![s] = @ + Len(found[s])]
  /\ HandlerReturns(s)
  /\ UNCHANGED <<hostVars, terminateAll, status, stdin, known, live, aborted>>

\* The process ends by itself or is killed from outside, with any status.
Exit(s) ==
  /\ status[s] = "running"
  /\ Cardinality({t \in Spaces : status[t] \in {"exit0", "exit1"}}) < MaxExits
  /\ \E code \in {"exit0", "exit1"} : status' = [status EXCEPT ![s] = code]
  /\ UNCHANGED <<hostVars, terminateAll, stdin, stdout, pc, job, genVars, aborted>>

---------------------------------------------------------------------------
\* The state of a session that has not started: the locals of the generator
\* object, the pipes and the memory of the processes.
EmptySession ==
  /\ request = Random
  /\ readers = {} /\ results = {} /\ gotHax = FALSE
  /\ unconsumed = <<>> /\ reply = <<>> /\ delivered = {}
  /\ stdin = [s \in Spaces |-> <<>>]
  /\ stdout = [s \in Spaces |-> <<>>]
  /\ pc = [s \in Spaces |-> "idle"]
  /\ job = [s \in Spaces |-> Random]
  /\ outcome = [s \in Spaces |-> "none"]
  /\ found = [s \in Spaces |-> <<>>]
  /\ known = [s \in Spaces |-> {}]
  /\ live = [s \in Spaces |-> {}]
  /\ numProcessed = [s \in Spaces |-> 0]
  /\ aborted = {}

\* No session yet; an earlier run may have left the file behind.
Init ==
  /\ hostPc = "closed"
  /\ status = [s \in Spaces |-> "none"]
  /\ EmptySession
  /\ terminateAll \in BOOLEAN

HostStep ==
  \/ \E s \in Spaces : StartProcess(s)
  \/ DispatchQueued \/ DispatchRaises \/ DispatchEnds \/ DispatchSend
  \/ Drained \/ DrainRaises \/ FirstCompleted \/ Gathered
  \/ \E s \in Spaces : CollectResult(s) \/ CollectRaises(s)
  \/ FinishWithPatch \/ FinishEmpty

ConsumerStep == (\E r \in Requests : Ask(r)) \/ Launch \/ Cancel \/ CancelStarting

Iterate(s) ==
  \/ Terminate(s) \/ NothingToPick(s)
  \/ \E b \in AST : BaseDrained(s, b)
  \/ \E b, c \in AST : Draw(s, b, c)

Handle(s) == ReadLine(s) \/ RejectLine(s) \/ RespondExhausted(s) \/ RespondSuccess(s)

SmStep(s) == Handle(s) \/ Iterate(s)

Next == HostStep \/ ConsumerStep \/ \E s \in Spaces : SmStep(s) \/ Exit(s)

Spec == Init /\ [][Next]_vars

\* The coroutine resumes when what it awaits is there, and the processes are
\* scheduled; a search ends because a base has finitely many mutations, each
\* drawn once.  Nothing forces the consumer to ask or anybody to crash.
FairSpec == Spec /\ WF_vars(HostStep) /\ \A s \in Spaces : WF_vars(SmStep(s))

---------------------------------------------------------------------------
(* Properties *)

\* Types of the variables.
TypeOK ==
  /\ hostPc \in {"closed", "starting", "dispatch", "drain", "wait", "gather", "collect", "ready"}
  /\ request \in Requests
  /\ readers \subseteq Spaces /\ results \subseteq Spaces /\ aborted \subseteq Spaces
  /\ gotHax \in BOOLEAN /\ terminateAll \in BOOLEAN
  /\ unconsumed \in Seq(Entry)
  /\ reply \in Seq(Patch)
  /\ delivered \subseteq Patch
  /\ status \in [Spaces -> {"none", "running", "exit0", "exit1", "killed"}]
  /\ stdin \in [Spaces -> Seq(Requests)]
  /\ stdout \in [Spaces -> Seq(Response)]
  /\ pc \in [Spaces -> {"idle", "next", "respond"}]
  /\ job \in [Spaces -> Requests]
  /\ outcome \in [Spaces -> {"none", "AllSpaceExhasuted"}]
  /\ found \in [Spaces -> Seq(Mutant)]
  /\ known \in [Spaces -> SUBSET AST]
  /\ live \in [Spaces -> SUBSET AST]
  /\ numProcessed \in [Spaces -> Nat]

\* A process gives up a search on /tmp/terminate_all only in a round in which
\* another process has answered without giving up, or has died: the file is
\* never left over from an earlier round, session or crash (SolidityM.py
\* removes it on start and after every round).
NoPrematureAbort ==
  aborted # {} =>
    /\ hostPc = "gather"
    /\ \E s \in readers \ aborted : Answered(s)

\* Requests of a process that are unread, in hand, or answered and not read.
Load(s) == Len(stdin[s]) + (IF pc[s] = "idle" THEN 0 ELSE 1) + Len(stdout[s])

\* "Can only send sm one request each time" (SolidityM.py:104): a process never
\* has a second request while one is unread, in hand or answered but not
\* collected, and none at all while the generator is suspended at a yield.
OneOutstanding ==
  \A s \in Running :
    Load(s) <= IF hostPc \in {"drain", "wait", "gather", "collect"} THEN 1 ELSE 0

\* The inductive invariant behind the two: the file exists only while answers
\* are gathered (or after a session), every running process is read, a process
\* whose answer is still to be processed has answered, one processed is idle.
RoundInv ==
  /\ hostPc \notin {"gather", "closed"} => ~terminateAll
  /\ hostPc # "gather" => aborted = {}
  /\ hostPc = "gather" => \E s \in readers \ aborted : Answered(s)
  /\ hostPc \in {"drain", "wait", "gather"} =>
       Running \subseteq readers /\ \A s \in Running : Load(s) <= 1
  /\ hostPc = "collect" =>
       \A s \in Running : IF s \in results THEN Load(s) <= 1 /\ stdout[s] # <<>>
                                           ELSE Load(s) = 0
  /\ hostPc \in {"dispatch", "ready"} => \A s \in Running : Load(s) = 0
  /\ hostPc \in {"closed", "starting"} => \A s \in Spaces : Load(s) = 0

PathOf(p) == <<p.space, p.num>>
Queued == {PathOf(unconsumed[i].payload) : i \in 1 .. Len(unconsumed)}
Given == {PathOf(p) : p \in delivered}
Piped(s) == UNION {{PathOf(p) : p \in ToSet(r.patches)} : r \in ToSet(stdout[s])}

\* Every patch file a live process has written is in exactly one place: on
\* the pipe, in unconsumedPatches (once), or in the consumer's hands.
PatchesConserved ==
  hostPc # "closed" =>
    /\ \A i, j \in 1 .. Len(unconsumed) :
         PathOf(unconsumed[i].payload) = PathOf(unconsumed[j].payload) => i = j
    /\ Queued \cap Given = {}
    /\ \A s \in Running :
         /\ Piped(s) \cap (Queued \cup Given) = {}
         /\ {s} \X (0 .. numProcessed[s] - 1)
              = Piped(s) \cup {q \in Queued \cup Given : q[1] = s}

\* An empty answer is only ever given to a mutate request: CR.py indexes the
\* answer to its first, random, request without looking ("Assume patchGen
\* never exhausted here").
RandomNeverEmpty ==
  hostPc = "ready" /\ reply = <<>> => request.type = "mutate"

\* A process never yields the same contract twice in a session ("This command
\* doesn't generate two identical smart contracts").
NoIdenticalPatches ==
  \A p, q \in delivered : p.space = q.space /\ p.ast = q.ast => p = q

\* The patch source keeps the promises of PatchSource: every request is
\* answered by one fresh patch that fits it, or, a mutate request only, by
\* nothing.
Promise == INSTANCE PatchSource WITH
  First <- Random,
  phase <- CASE hostPc = "closed" -> "closed"
             [] hostPc = "ready" -> "ready"
             [] OTHER -> "busy",
  asked <- request, answer <- reply, given <- delivered

KeepsPromise == Promise!Spec

\* Once closed, no sm process of a completely started session survives.
NoSurvivor ==
  hostPc = "closed" =>
    \/ \A s \in Spaces : status[s] # "running"
    \/ \E s \in Spaces : status[s] = "none"

\* Finding the space exhausted makes genSeqs drop the batch it has begun.  The
\* program asks for batches of one, and then there is never anything to drop.
NothingDiscarded ==
  NumPatched = 1 =>
    \A s \in Spaces :
      pc[s] = "respond" /\ outcome[s] = "AllSpaceExhasuted" => found[s] = <<>>

\* The patches of the answer on the pipe, and all patches of a space that are
\* somewhere between the process and the consumer.
Answer(s) == IF stdout[s] = <<>> THEN <<>> ELSE Head(stdout[s]).patches
PipedPatches(s) == {Answer(s)[i] : i \in 1 .. Len(Answer(s))}
QueuedPatches == {unconsumed[i].payload : i \in 1 .. Len(unconsumed)}
Out(s) == {p \in delivered \cup QueuedPatches \cup PipedPatches(s) : p.space = s}

\* The locals of a line handler belong to the request it handles.
HandlerPart ==
  \A s \in Spaces :
    /\ pc[s] = "idle" => found[s] = <<>>
    /\ pc[s] # "respond" => outcome[s] = "none"
    /\ pc[s] # "idle" => job[s].type # "crossover-onepoint"
    /\ job[s].type = "mutate" => \A i \in 1 .. Len(found[s]) : found[s][i].base = job[s].base
    /\ NumPatched = 1 /\ pc[s] = "next" => found[s] = <<>>

\* Between sessions nothing is queued; answers are awaited in a round only.
SessionPart ==
  /\ hostPc \in {"closed", "starting"} =>
       /\ request = Random /\ reply = <<>> /\ delivered = {} /\ unconsumed = <<>>
       /\ \A s \in Spaces : numProcessed[s] = 0
  /\ hostPc = "starting" => status[N] = "none"
  /\ hostPc \notin {"drain", "wait", "gather"} => readers = {}
  /\ hostPc # "collect" => results = {}

\* A patch is in one place only, and files and contracts of a space are never
\* repeated.
PlacePart ==
  /\ \A i, j \in 1 .. Len(unconsumed) : unconsumed[i].payload = unconsumed[j].payload => i = j
  /\ QueuedPatches \cap delivered = {}
  /\ \A s \in Spaces :
       /\ Len(stdout[s]) <= 1
       /\ \A i \in 1 .. Len(Answer(s)) : Answer(s)[i].space = s
       /\ \A i, j \in 1 .. Len(Answer(s)) : Answer(s)[i] = Answer(s)[j] => i = j
       /\ PipedPatches(s) \cap (QueuedPatches \cup delivered) = {}
       /\ \A p \in Out(s) : p.num < numProcessed[s] /\ p.ast \in known[s]
       /\ \A p, q \in Out(s) : p.num = q.num \/ p.ast = q.ast => p = q
       /\ status[s] = "running" => \A n \in 0 .. numProcessed[s] - 1 : \E p \in Out(s) : p.num = n

\* What is found but not written yet is known to the generator, and new.
FoundPart ==
  \A s \in Spaces :
    /\ \A i, j \in 1 .. Len(found[s]) : found[s][i].ast = found[s][j].ast => i = j
    /\ \A i \in 1 .. Len(found[s]) :
         found[s][i].ast \in known[s] /\ \A p \in Out(s) : p.ast # found[s][i].ast

\* What is queued fits the request it was made for.
QueueFits ==
  \A i \in 1 .. Len(unconsumed) : Promise!Fits(unconsumed[i].payload, unconsumed[i].json)

\* What a process has in hand, or has answered, is for the request.
InStep(s) ==
  /\ \A i \in 1 .. Len(stdin[s]) : stdin[s][i] = request
  /\ pc[s] # "idle" => job[s] = request
  /\ stdout[s] # <<>> => request.type # "crossover-onepoint"
  /\ \A i \in 1 .. Len(Answer(s)) : Promise!Fits(Answer(s)[i], request)

FitPart == QueueFits /\ \A s \in readers \cup results : InStep(s)

\* Unless a mutation was asked for, an answer that was not cut short says that
\* the space is exhausted or has a patch ...
IsUseful(r) == r.Result = "AllSpaceExhasuted" \/ r.patches # <<>>
ReaderUseful(s) ==
  /\ pc[s] = "respond" => found[s] # <<>> \/ outcome[s] = "AllSpaceExhasuted"
  /\ stdout[s] # <<>> => IsUseful(Head(stdout[s]))

\* ... and there is such an answer in every round.
RoundUseful ==
  \/ gotHax \/ HasPatch
  \/ \E s \in results : stdout[s] = <<>> \/ IsUseful(Head(stdout[s]))

UsefulPart ==
  request.type # "mutate" =>
    /\ \A s \in readers \ aborted : ReaderUseful(s)
    /\ hostPc = "collect" => RoundUseful

\* The inductive invariant behind the promises: every patch between a process
\* and the consumer is where it should be, once, and for the request it was
\* made for.
DeliveryInv == HandlerPart /\ SessionPart /\ PlacePart /\ FoundPart /\ FitPart /\ UsefulPart

\* Creating /tmp/terminate_all ends the round: every process answers or dies.
RoundEnds ==
  (hostPc = "gather" /\ request.type # "crossover-onepoint") ~> (hostPc # "gather")

\* Every mutate request is answered, or the session ends, although an
\* AllSpaceExhasuted answer makes the host send the request again.
MutateAnswered ==
  (hostPc = "dispatch" /\ request.type = "mutate") ~> (hostPc \in {"ready", "closed"})

---------------------------------------------------------------------------
(* What comments of the repository say, and the code does not do *)

\* CR.py:482: an empty answer "indicates the population can't be further
\* mutated": no process can mutate the requested base any more.
EmptyMeansExhausted ==
  hostPc = "ready" /\ reply = <<>> => \A s \in Running : request.base \notin live[s]

\* GenMutations.ts:96: "Support mutate or crossover operations".
CrossoverAnswered ==
  (hostPc = "dispatch" /\ request.type = "crossover-onepoint") ~> (hostPc \in {"ready", "closed"})

\* RandomMutationSequenceGenerator.ts:131: "Nothing can be further done": when
\* every space is exhausted the consumer is told, or the generator ends.
RandomAnswered ==
  (hostPc = "dispatch" /\ request.type = "random") ~> (hostPc \in {"ready", "closed"})
===========================================================================
