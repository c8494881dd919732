------------------------- MODULE SmProtocolProofs -------------------------
(***************************************************************************)
(* Proofs about SmProtocol, for any number of mutation spaces, any set of  *)
(* contracts and any number of mutants per random request.                 *)
(***************************************************************************)
EXTENDS SmProtocol, ProofLibrary

(* The host finds a queued patch whenever there is one for its request. *)
LEMMA FirstPatchIndex ==
  ASSUME TypeOK, HasPatch
  PROVE  /\ FirstPatch \in 1 .. Len(unconsumed)
         /\ unconsumed[FirstPatch] \in Entry
         /\ unconsumed[FirstPatch].json = request
<1> DEFINE I == {i \in 1 .. Len(unconsumed) : unconsumed[i].json = request}
<1>1. I \subseteq Nat /\ I # {}
  <2>1. Len(unconsumed) \in Nat
    BY LenProperties DEF TypeOK
  <2>2. I # {}
    BY Zenon DEF HasPatch
  <2> QED BY <2>1, <2>2
<1>2. \E x \in I : \A y \in I : x <= y
  BY <1>1, LeastNumber, Zenon
<1>3. Min(I) \in I
  BY <1>2, Zenon DEF Min
<1>4. FirstPatch = Min(I)
  BY <1>1, Zenon DEF FirstPatch, SelectInSeq
<1> QED
  BY <1>3, <1>4 DEF TypeOK

---------------------------------------------------------------------------
(* Type correctness *)

(* The values ClearSession and EmptySession give are well typed. *)
LEMMA EmptyTypes ==
  /\ Random \in Requests
  /\ \A S : <<>> \in Seq(S) /\ [s \in Spaces |-> <<>>] \in [Spaces -> Seq(S)]
  /\ [s \in Spaces |-> "idle"] \in [Spaces -> {"idle", "next", "respond"}]
  /\ [s \in Spaces |-> Random] \in [Spaces -> Requests]
  /\ [s \in Spaces |-> "none"] \in [Spaces -> {"none", "AllSpaceExhasuted"}]
  /\ [s \in Spaces |-> {}] \in [Spaces -> SUBSET AST]
  /\ [s \in Spaces |-> 0] \in [Spaces -> Nat]
<1>1. Random \in Requests
  BY DEF Requests
<1>2. \A S : <<>> \in Seq(S)
  BY EmptySeq
<1> QED
  BY <1>1, <1>2

(* Ending a session keeps the types. *)
LEMMA CloseType == TypeOK /\ Close => TypeOK'
<1> SUFFICES ASSUME TypeOK, Close PROVE TypeOK'
  OBVIOUS
<1>1. status' \in [Spaces -> {"none", "running", "exit0", "exit1", "killed"}]
  BY DEF TypeOK, Close
<1> QED
  BY <1>1, EmptyTypes DEF TypeOK, Close, ClearSession

(* Yielding a queued patch keeps the types. *)
LEMMA DeliverType == TypeOK /\ HasPatch /\ Deliver => TypeOK'
<1> SUFFICES ASSUME TypeOK, HasPatch, Deliver PROVE TypeOK'
  OBVIOUS
<1>1. unconsumed[FirstPatch].payload \in Patch
  BY FirstPatchIndex DEF Entry
<1>2. unconsumed' \in Seq(Entry)
  BY FirstPatchIndex, RemoveAtElements DEF TypeOK, Deliver, WithoutAt
<1>3. reply' \in Seq(Patch)
  BY <1>1 DEF Deliver
<1> QED
  BY <1>1, <1>2, <1>3 DEF TypeOK, Deliver, smVars, genVars

(* The steps of the host keep the types. *)
LEMMA HostType == TypeOK /\ HostStep => TypeOK'
<1> SUFFICES ASSUME TypeOK, HostStep PROVE TypeOK'
  OBVIOUS
<1> USE ConstantsAssumption
<1>1. CASE \E s \in Spaces : StartProcess(s)
  BY <1>1 DEF TypeOK, StartProcess
<1>2. CASE DispatchQueued
  BY <1>2, DeliverType DEF DispatchQueued
<1>3. CASE DispatchRaises
  BY <1>3, CloseType DEF DispatchRaises
<1>4. CASE DispatchEnds
  BY <1>4, CloseType DEF DispatchEnds
<1>5. CASE DispatchSend
  <2>1. stdin' \in [Spaces -> Seq(Requests)]
    BY <1>5, AppendProperties DEF TypeOK, DispatchSend
  <2> QED
    BY <1>5, <2>1 DEF TypeOK, DispatchSend, genVars, Running
<1>6. CASE Drained
  BY <1>6 DEF TypeOK, Drained, smVars, genVars, Running
<1>7. CASE DrainRaises
  BY <1>7, CloseType DEF DrainRaises
<1>8. CASE FirstCompleted
  BY <1>8 DEF TypeOK, FirstCompleted, smVars, genVars
<1>9. CASE Gathered
  BY <1>9 DEF TypeOK, Gathered, smVars, genVars
<1>10. ASSUME NEW s \in Spaces, CollectResult(s)
       PROVE  TypeOK'
  <2> DEFINE r == Head(stdout[s])
             new == [i \in 1 .. Len(r.patches) |->
                       [payload |-> r.patches[i], json |-> request]]
  <2>1. stdout[s] \in Seq(Response) /\ stdout[s] # <<>>
    BY <1>10 DEF TypeOK, CollectResult
  <2>2. r \in Response /\ Tail(stdout[s]) \in Seq(Response)
    BY <2>1, HeadTailProperties
  <2>3. r.patches \in Seq(Patch)
    BY <2>2 DEF Response
  <2>4. \A i \in 1 .. Len(r.patches) : r.patches[i] \in Patch
    BY <2>3, ElementOfSeq
  <2>5. new \in Seq(Entry)
    <3>1. Len(r.patches) \in Nat
      BY <2>3
    <3>2. \A i \in 1 .. Len(r.patches) :
             [payload |-> r.patches[i], json |-> request] \in Entry
      BY <2>4 DEF TypeOK, Entry
    <3> QED BY <3>1, <3>2, IsASeq
  <2>6. unconsumed' \in Seq(Entry)
    BY <1>10, <2>5, ConcatProperties DEF TypeOK, CollectResult
  <2> QED
    BY <1>10, <2>2, <2>6 DEF TypeOK, CollectResult, genVars
<1>11. CASE \E s \in Spaces : CollectRaises(s)
  BY <1>11, CloseType DEF CollectRaises
<1>12. CASE FinishWithPatch
  BY <1>12, DeliverType DEF FinishWithPatch
<1>13. CASE FinishEmpty
  BY <1>13, EmptySeq DEF TypeOK, FinishEmpty, smVars, genVars
<1> QED
  BY <1>1, <1>2, <1>3, <1>4, <1>5, <1>6, <1>7, <1>8, <1>9, <1>10, <1>11, <1>12, <1>13
  DEF HostStep

(* The steps of the consumer keep the types. *)
LEMMA ConsumerType == TypeOK /\ ConsumerStep => TypeOK'
<1> SUFFICES ASSUME TypeOK, ConsumerStep PROVE TypeOK'
  OBVIOUS
<1>1. CASE \E r \in Requests : Ask(r)
  BY <1>1 DEF TypeOK, Ask, smVars, genVars
<1>2. CASE Launch
  BY <1>2, EmptyTypes DEF TypeOK, Launch, ClearSession
<1>3. CASE Cancel
  BY <1>3, CloseType DEF Cancel
<1>4. CASE CancelStarting
  BY <1>4 DEF TypeOK, CancelStarting, smVars, genVars
<1> QED
  BY <1>1, <1>2, <1>3, <1>4 DEF ConsumerStep

(* Reading and answering a request keep the types. *)
LEMMA HandleType == ASSUME NEW s \in Spaces PROVE TypeOK /\ Handle(s) => TypeOK'
<1> SUFFICES ASSUME TypeOK, Handle(s) PROVE TypeOK'
  OBVIOUS
<1>0. Random \in Requests
  BY DEF Requests
<1>1. CASE ReadLine(s)
  <2>1. Head(stdin[s]) \in Requests /\ Tail(stdin[s]) \in Seq(Requests)
    BY <1>1, HeadTailProperties DEF TypeOK, ReadLine
  <2>2. Head(stdin[s]).base \in AST
    BY <2>1, ConstantsAssumption DEF Requests, Random, Crossover, Mutate
  <2>3. known' \in [Spaces -> SUBSET AST] /\ live' \in [Spaces -> SUBSET AST]
    <3>1. CASE UNCHANGED <<known, live>>
      BY <3>1 DEF TypeOK
    <3>2. CASE /\ known' = [known EXCEPT ![s] = @ \cup {Head(stdin[s]).base}]
               /\ \E b \in {{}, {Head(stdin[s]).base}} : live' = [live EXCEPT ![s] = @ \cup b]
      <4>1. PICK b \in {{}, {Head(stdin[s]).base}} : live' = [live EXCEPT ![s] = @ \cup b]
        BY <3>2
      <4>2. b \subseteq AST
        BY <2>2
      <4> QED BY <2>2, <3>2, <4>1, <4>2 DEF TypeOK
    <3> QED BY <1>1, <3>1, <3>2 DEF ReadLine, addKnownAST
  <2> QED
    BY <1>1, <2>1, <2>3 DEF TypeOK, ReadLine, hostVars
<1>2. CASE RejectLine(s)
  <2>1. Tail(stdin[s]) \in Seq(Requests)
    BY <1>2, HeadTailProperties DEF TypeOK, RejectLine
  <2> QED
    BY <1>2, <2>1 DEF TypeOK, RejectLine, hostVars, genVars
<1>3. CASE RespondExhausted(s)
  <2>1. stdout' \in [Spaces -> Seq(Response)]
    <3> DEFINE a == [Result |-> IF outcome[s] = "AllSpaceExhasuted" THEN "AllSpaceExhasuted"
                                                                  ELSE "SpaceExhasutedForAST",
                     patches |-> <<>>]
    <3>1. a \in Response
      BY EmptySeq DEF Response
    <3>2. Append(stdout[s], a) \in Seq(Response)
      BY <3>1, AppendProperties DEF TypeOK
    <3> QED
      BY <1>3, <3>2 DEF TypeOK, RespondExhausted
  <2> QED
    BY <1>0, <1>3, <2>1, EmptySeq DEF TypeOK, RespondExhausted, HandlerReturns, hostVars
<1>4. CASE RespondSuccess(s)
  <2>1. found[s] \in Seq(Mutant) /\ numProcessed[s] \in Nat
    BY DEF TypeOK
  <2>2. WrittenPatches(s) \in Seq(Patch)
    <3>1. \A i \in 1 .. Len(found[s]) :
             [space |-> s, num |-> numProcessed[s] + i - 1,
              base |-> found[s][i].base, ast |-> found[s][i].ast] \in Patch
      <4> TAKE i \in 1 .. Len(found[s])
      <4>1. found[s][i] \in Mutant /\ i \in Nat \ {0}
        BY <2>1, ElementOfSeq, LenProperties
      <4>2. numProcessed[s] + i - 1 \in Nat
        BY <2>1, <4>1
      <4> QED BY <4>1, <4>2 DEF Mutant, Patch
    <3>2. Len(found[s]) \in Nat
      BY <2>1
    <3> QED BY <3>1, <3>2, IsASeq DEF WrittenPatches
  <2>3. stdout' \in [Spaces -> Seq(Response)]
    <3>1. [Result |-> "Success", patches |-> WrittenPatches(s)] \in Response
      BY <2>2 DEF Response
    <3>2. Append(stdout[s], [Result |-> "Success", patches |-> WrittenPatches(s)])
             \in Seq(Response)
      BY <3>1, AppendProperties DEF TypeOK
    <3> QED
      BY <1>4, <3>2 DEF TypeOK, RespondSuccess
  <2>4. numProcessed' \in [Spaces -> Nat]
    BY <1>4, <2>1 DEF TypeOK, RespondSuccess
  <2> QED
    BY <1>0, <1>4, <2>3, <2>4, EmptySeq DEF TypeOK, RespondSuccess, HandlerReturns, hostVars
<1> QED
  BY <1>1, <1>2, <1>3, <1>4 DEF Handle

(* An iteration of the search keeps the types. *)
LEMMA IterateType == ASSUME NEW s \in Spaces PROVE TypeOK /\ Iterate(s) => TypeOK'
<1> SUFFICES ASSUME TypeOK, Iterate(s) PROVE TypeOK'
  OBVIOUS
<1>1. CASE Terminate(s)
  BY <1>1 DEF TypeOK, Terminate, hostVars, genVars
<1>2. CASE NothingToPick(s)
  BY <1>2 DEF TypeOK, NothingToPick, hostVars
<1>3. ASSUME NEW b \in AST, BaseDrained(s, b)
      PROVE  TypeOK'
  BY <1>3 DEF TypeOK, BaseDrained, hostVars
<1>4. ASSUME NEW b \in AST, NEW c \in AST, Draw(s, b, c)
      PROVE  TypeOK'
  <2>1. Append(found[s], [base |-> b, ast |-> c]) \in Seq(Mutant)
    BY AppendProperties DEF TypeOK, Mutant
  <2>2. found' \in [Spaces -> Seq(Mutant)]
    BY <1>4, <2>1 DEF TypeOK, Draw
  <2>3. known' \in [Spaces -> SUBSET AST] /\ live' \in [Spaces -> SUBSET AST]
    BY <1>4 DEF TypeOK, Draw, addKnownAST
  <2>4. pc' \in [Spaces -> {"idle", "next", "respond"}]
    BY <1>4 DEF TypeOK, Draw
  <2> QED
    BY <1>4, <2>2, <2>3, <2>4 DEF TypeOK, Draw, hostVars
<1> QED
  BY <1>1, <1>2, <1>3, <1>4 DEF Iterate

(* Every step keeps the types. *)
LEMMA TypeStep == TypeOK /\ [Next]_vars => TypeOK'
<1> SUFFICES ASSUME TypeOK, [Next]_vars PROVE TypeOK'
  OBVIOUS
<1>1. CASE \E s \in Spaces : SmStep(s)
  BY <1>1, HandleType, IterateType DEF SmStep
<1>2. CASE \E s \in Spaces : Exit(s)
  BY <1>2 DEF TypeOK, Exit, hostVars, genVars
<1>3. CASE UNCHANGED vars
  BY <1>3 DEF TypeOK, vars, hostVars, smVars, genVars
<1> QED
  BY <1>1, <1>2, <1>3, HostType, ConsumerType DEF Next

(* The variables keep their types, whatever the processes, the consumer and *)
(* unexpected exits do: the invariant every other proof starts from.        *)
THEOREM TypeCorrect == Spec => []TypeOK
<1>1. Init => TypeOK
  <2> SUFFICES ASSUME Init PROVE TypeOK
    OBVIOUS
  <2>1. /\ hostPc = "closed" /\ terminateAll \in BOOLEAN
        /\ status \in [Spaces -> {"none", "running", "exit0", "exit1", "killed"}]
    BY DEF Init
  <2>2. EmptySession
    BY DEF Init
  <2> QED
    BY <2>1, <2>2, EmptyTypes DEF EmptySession, TypeOK
<1> QED
  BY <1>1, TypeStep, PTL DEF Spec

---------------------------------------------------------------------------
(* The round protocol *)

(* The load of a process is a natural number. *)
LEMMA LoadType == TypeOK => \A s \in Spaces : Load(s) \in Nat
  BY LenProperties DEF TypeOK, Load

(* The load of an idle and of a busy process. *)
LEMMA LoadCases ==
  ASSUME TypeOK, NEW s \in Spaces
  PROVE  /\ Len(stdin[s]) \in Nat /\ Len(stdout[s]) \in Nat
         /\ pc[s] = "idle" => Load(s) = Len(stdin[s]) + Len(stdout[s])
         /\ pc[s] # "idle" => Load(s) = Len(stdin[s]) + 1 + Len(stdout[s])
<1>1. Len(stdin[s]) \in Nat /\ Len(stdout[s]) \in Nat
  BY LenProperties DEF TypeOK
<1>2. CASE pc[s] = "idle"
  BY <1>1, <1>2 DEF Load
<1>3. CASE pc[s] # "idle"
  BY <1>1, <1>3 DEF Load
<1> QED BY <1>1, <1>2, <1>3

(* What a load of zero, of at most one, and a moved request say of its parts. *)
LEMMA SumZero ==
  ASSUME NEW a \in Nat, NEW b \in Nat
  PROVE  (a + b = 0 => a = 0 /\ b = 0) /\ a + 1 + b # 0
OBVIOUS

(* A load of at most one with an answer is that answer. *)
LEMMA SumOne ==
  ASSUME NEW a \in Nat, NEW b \in Nat, b >= 1
  PROVE  (a + b <= 1 => a = 0 /\ b = 1) /\ ~(a + 1 + b <= 1)
OBVIOUS

(* A request handled becomes an answer. *)
LEMMA SumMoved ==
  ASSUME NEW a \in Nat, NEW b \in Nat
  PROVE  a + 1 + b = a + (b + 1)
OBVIOUS

(* An answer makes a load. *)
LEMMA SumPositive ==
  ASSUME NEW a \in Nat, NEW b \in Nat, a >= 1
  PROVE  a + b \in Nat /\ a + b >= 1
OBVIOUS

(* The load depends on the pipes and the handler only. *)
LEMMA LoadSame == UNCHANGED <<stdin, stdout, pc>> => \A s \in Spaces : Load(s)' = Load(s)
  BY DEF Load

(* Ending a session establishes the invariant. *)
LEMMA CloseRound == Close => RoundInv'
<1> SUFFICES ASSUME Close PROVE RoundInv'
  OBVIOUS
<1>1. \A s \in Spaces : Load(s)' = 0
  BY EmptySeq DEF Close, ClearSession, Load
<1> QED
  BY <1>1 DEF RoundInv, Close, ClearSession

(* Yielding a patch preserves the invariant. *)
LEMMA DeliverRound ==
  ASSUME RoundInv, Deliver, hostPc # "gather", hostPc # "closed", \A s \in Running : Load(s) = 0
  PROVE  RoundInv'
<1>1. \A s \in Spaces : Load(s)' = Load(s)
  BY LoadSame DEF Deliver, smVars
<1>2. Running' = Running
  BY DEF Deliver, smVars, Running
<1> QED
  BY <1>1, <1>2 DEF RoundInv, Deliver, Running

(* The steps of the host preserve the invariant. *)
LEMMA HostRound == TypeOK /\ RoundInv /\ HostStep => RoundInv'
<1> SUFFICES ASSUME TypeOK, RoundInv, HostStep PROVE RoundInv'
  OBVIOUS
<1>1. CASE \E s \in Spaces : StartProcess(s)
  <2>1. \A s \in Spaces : Load(s)' = Load(s)
    BY <1>1, LoadSame DEF StartProcess
  <2> QED
    BY <1>1, <2>1 DEF RoundInv, StartProcess, Running
<1>2. CASE DispatchQueued
  BY <1>2, DeliverRound DEF DispatchQueued, RoundInv
<1>3. CASE DispatchRaises \/ DispatchEnds \/ DrainRaises \/ \E s \in Spaces : CollectRaises(s)
  BY <1>3, CloseRound DEF DispatchRaises, DispatchEnds, DrainRaises, CollectRaises
<1>4. CASE DispatchSend
  <2>1. \A s \in Running : Load(s)' = 1
    <3> TAKE s \in Running
    <3>1. s \in Spaces /\ Load(s) = 0 /\ stdin[s] \in Seq(Requests) /\ request \in Requests
      BY <1>4 DEF DispatchSend, RoundInv, Running, TypeOK
    <3>2. stdin'[s] = Append(stdin[s], request)
      BY <1>4, <3>1 DEF DispatchSend
    <3>3. Len(stdin'[s]) = Len(stdin[s]) + 1
      BY <3>1, <3>2, AppendProperties
    <3>4. Len(stdin[s]) \in Nat /\ Len(stdout[s]) \in Nat
      BY <3>1, LenProperties DEF TypeOK
    <3> QED
      <4>0. pc[s] = "idle" /\ Load(s) = Len(stdin[s]) + Len(stdout[s])
        BY <3>1, <3>4, LoadCases, SumZero
      <4>1. Len(stdin[s]) = 0 /\ pc[s] = "idle" /\ Len(stdout[s]) = 0
        BY <3>1, <3>4, <4>0, SumZero
      <4>2. Len(stdin'[s]) = 1 /\ pc'[s] = "idle" /\ Len(stdout'[s]) = 0
        BY <1>4, <3>3, <4>1 DEF DispatchSend
      <4> QED BY <4>2 DEF Load
  <2>2. Running' = Running /\ readers' = Running /\ hostPc' = "drain"
    BY <1>4 DEF DispatchSend, Running
  <2> QED
    BY <1>4, <2>1, <2>2 DEF RoundInv, DispatchSend
<1>5. CASE Drained
  <2>1. \A s \in Spaces : Load(s)' = Load(s)
    BY <1>5, LoadSame DEF Drained, smVars
  <2> QED
    BY <1>5, <2>1 DEF RoundInv, Drained, Running, smVars
<1>6. CASE FirstCompleted
  <2>1. \A s \in Spaces : Load(s)' = Load(s)
    BY <1>6, LoadSame DEF FirstCompleted, smVars
  <2> QED
    BY <1>6, <2>1 DEF RoundInv, FirstCompleted, Running, Answered, smVars
<1>7. CASE Gathered
  <2>1. \A s \in Spaces : Load(s)' = Load(s)
    BY <1>7, LoadSame DEF Gathered, smVars
  <2> QED
    BY <1>7, <2>1 DEF RoundInv, Gathered, Running, Answered, smVars
<1>8. ASSUME NEW s \in Spaces, CollectResult(s)
      PROVE  RoundInv'
  <2>1. \A t \in Spaces \ {s} : Load(t)' = Load(t) /\ stdout'[t] = stdout[t]
    BY <1>8 DEF CollectResult, Load, TypeOK
  <2>2. s \in Running => Load(s)' = 0
    <3> SUFFICES ASSUME s \in Running PROVE Load(s)' = 0
      OBVIOUS
    <3>1. Load(s) <= 1 /\ stdout[s] # <<>> /\ stdout[s] \in Seq(Response)
      BY <1>8 DEF RoundInv, CollectResult, IsNextResult, TypeOK
    <3>2. Len(stdout[s]) >= 1 /\ Len(stdout'[s]) = Len(stdout[s]) - 1
      BY <1>8, <3>1, HeadTailProperties, EmptySeq, LenProperties DEF CollectResult, TypeOK
    <3>3. Len(stdin[s]) \in Nat /\ Len(stdout[s]) \in Nat
      BY <3>1, LenProperties DEF TypeOK
    <3> QED
      <4>1. pc[s] = "idle" => Len(stdin[s]) = 0 /\ Len(stdout[s]) = 1
        <5> SUFFICES ASSUME pc[s] = "idle" PROVE Len(stdin[s]) = 0 /\ Len(stdout[s]) = 1
          OBVIOUS
        <5>1. Len(stdin[s]) + Len(stdout[s]) <= 1
          BY <3>1, LoadCases, Zenon
        <5> QED BY <3>2, <3>3, <5>1, SumOne
      <4>2. pc[s] = "idle"
        <5> SUFFICES ASSUME pc[s] # "idle" PROVE FALSE
          OBVIOUS
        <5>1. Len(stdin[s]) + 1 + Len(stdout[s]) <= 1
          BY <3>1, LoadCases, Zenon
        <5> QED BY <3>2, <3>3, <5>1, SumOne
      <4>3. Len(stdin'[s]) = 0 /\ pc'[s] = "idle" /\ Len(stdout'[s]) = 0
        BY <1>8, <3>2, <4>1, <4>2 DEF CollectResult
      <4> QED BY <4>3 DEF Load
  <2>3. Running' = Running /\ results' = results \ {s} /\ hostPc' = "collect" /\ hostPc = "collect"
    BY <1>8 DEF CollectResult, Running
  <2> QED
    BY <1>8, <2>1, <2>2, <2>3 DEF RoundInv, CollectResult, Running
<1>9. CASE FinishWithPatch
  BY <1>9, DeliverRound DEF FinishWithPatch, RoundInv
<1>10. CASE FinishEmpty
  <2>1. \A s \in Spaces : Load(s)' = Load(s)
    BY <1>10, LoadSame DEF FinishEmpty, smVars
  <2> QED
    BY <1>10, <2>1 DEF RoundInv, FinishEmpty, Running, smVars
<1> QED
  BY <1>1, <1>2, <1>3, <1>4, <1>5, <1>6, <1>7, <1>8, <1>9, <1>10 DEF HostStep

(* The steps of the consumer preserve the invariant. *)
LEMMA ConsumerRound == RoundInv /\ ConsumerStep => RoundInv'
<1> SUFFICES ASSUME RoundInv, ConsumerStep PROVE RoundInv'
  OBVIOUS
<1>1. CASE \E r \in Requests : Ask(r)
  <2>1. \A s \in Spaces : Load(s)' = Load(s)
    BY <1>1, LoadSame DEF Ask, smVars
  <2> QED
    BY <1>1, <2>1 DEF RoundInv, Ask, Running, smVars
<1>2. CASE Launch
  <2>1. \A s \in Spaces : Load(s)' = 0
    BY <1>2, EmptySeq DEF Launch, ClearSession, Load
  <2> QED
    BY <1>2, <2>1 DEF RoundInv, Launch, ClearSession
<1>3. CASE Cancel
  BY <1>3, CloseRound DEF Cancel
<1>4. CASE CancelStarting
  <2>1. \A s \in Spaces : Load(s)' = Load(s)
    BY <1>4, LoadSame DEF CancelStarting, smVars
  <2> QED
    BY <1>4, <2>1 DEF RoundInv, CancelStarting
<1> QED
  BY <1>1, <1>2, <1>3, <1>4 DEF ConsumerStep

(* A step of one process that leaves the host, the file and the statuses    *)
(* alone, keeps its load and takes no answer back, preserves the invariant. *)
LEMMA QuietStep ==
  ASSUME NEW s \in Spaces, TypeOK, RoundInv,
         UNCHANGED <<hostVars, terminateAll, status, aborted>>,
         Load(s)' = Load(s), stdout[s] # <<>> => stdout'[s] # <<>>,
         \A t \in Spaces \ {s} : Load(t)' = Load(t) /\ stdout'[t] = stdout[t]
  PROVE  RoundInv'
<1>1. Running' = Running /\ Running \subseteq Spaces /\ readers \subseteq Spaces
  BY DEF Running, TypeOK
<1>2. \A t \in Spaces : /\ Load(t)' = Load(t)
                        /\ stdout[t] # <<>> => stdout'[t] # <<>>
                        /\ Answered(t) => Answered(t)'
  BY DEF Answered
<1>3. UNCHANGED <<hostPc, readers, results, terminateAll, aborted>>
  BY DEF hostVars
<1> QED
  BY <1>1, <1>2, <1>3 DEF RoundInv

(* The load of a process through each of its steps. *)
LEMMA HandleLoad ==
  ASSUME NEW s \in Spaces, TypeOK, ReadLine(s) \/ RespondExhausted(s) \/ RespondSuccess(s)
  PROVE  /\ Load(s)' = Load(s)
         /\ stdout[s] # <<>> => stdout'[s] # <<>>
         /\ \A t \in Spaces \ {s} : Load(t)' = Load(t) /\ stdout'[t] = stdout[t]
<1>0. Len(stdin[s]) \in Nat /\ Len(stdout[s]) \in Nat /\ stdout[s] \in Seq(Response)
  BY LenProperties DEF TypeOK
<1>1. CASE ReadLine(s)
  <2>1. Len(stdin'[s]) = Len(stdin[s]) - 1
    BY <1>1, HeadTailProperties DEF TypeOK, ReadLine
  <2>2. pc[s] = "idle" /\ pc'[s] = "next" /\ stdout' = stdout
    BY <1>1 DEF TypeOK, ReadLine
  <2>3. Load(s)' = Load(s)
    BY <1>0, <2>1, <2>2 DEF Load
  <2> QED
    BY <1>1, <2>2, <2>3 DEF TypeOK, ReadLine, Load
<1>2. CASE RespondExhausted(s) \/ RespondSuccess(s)
  <2>1. PICK a : stdout' = [stdout EXCEPT ![s] = Append(@, a)]
    BY <1>2 DEF RespondExhausted, RespondSuccess
  <2>2. stdout'[s] = Append(stdout[s], a)
    BY <2>1 DEF TypeOK
  <2>3. Len(stdout'[s]) = Len(stdout[s]) + 1 /\ stdout'[s] # <<>>
    <3>1. stdout[s] \in Seq(Response \cup {a})
      BY <1>0, SeqMonotonic
    <3> QED BY <2>2, <3>1, AppendProperties
  <2>4. pc[s] = "respond" /\ pc' = [pc EXCEPT ![s] = "idle"] /\ stdin' = stdin
    BY <1>2 DEF RespondExhausted, RespondSuccess, HandlerReturns
  <2>5. pc'[s] = "idle"
    BY <2>4 DEF TypeOK
  <2>6. Load(s)' = Load(s)
    <3>1. Load(s) = Len(stdin[s]) + 1 + Len(stdout[s])
      BY <2>4, LoadCases
    <3>2. Load(s)' = Len(stdin[s]) + (Len(stdout[s]) + 1)
      BY <1>0, <2>3, <2>4, <2>5 DEF Load
    <3> QED BY <1>0, <3>1, <3>2, SumMoved
  <2> QED
    BY <2>1, <2>3, <2>4, <2>6 DEF TypeOK, Load
<1> QED BY <1>1, <1>2

(* Reading and answering a request preserve the invariant. *)
LEMMA HandleRound ==
  ASSUME NEW s \in Spaces, TypeOK, RoundInv, Handle(s)
  PROVE  RoundInv'
<1>1. CASE ReadLine(s) \/ RespondExhausted(s) \/ RespondSuccess(s)
  <2>1. UNCHANGED <<hostVars, terminateAll, status, aborted>>
    BY <1>1 DEF ReadLine, RespondExhausted, RespondSuccess
  <2> QED BY <1>1, <2>1, HandleLoad, QuietStep
<1>2. CASE RejectLine(s)
  <2>1. /\ UNCHANGED <<hostPc, readers, results, terminateAll, aborted, stdout, pc>>
        /\ Running' \subseteq Running
    BY <1>2 DEF RejectLine, hostVars, Running, TypeOK
  <2>2. Load(s)' = Load(s) - 1 /\ \A t \in Spaces \ {s} : Load(t)' = Load(t)
    <3>1. Len(stdin'[s]) = Len(stdin[s]) - 1 /\ Len(stdin[s]) \in Nat /\ Len(stdout[s]) \in Nat
      BY <1>2, HeadTailProperties, LenProperties DEF TypeOK, RejectLine
    <3> QED
      BY <1>2, <2>1, <3>1 DEF RejectLine, Load, TypeOK
  <2>3. s \in Running /\ Load(s) >= 1 /\ Load(s)' \in Nat
    <3>1. Len(stdin[s]) >= 1 /\ Len(stdout[s]) \in Nat
      BY <1>2, EmptySeq, LenProperties DEF TypeOK, RejectLine
    <3>2. s \in Running /\ pc[s] = "idle"
      BY <1>2 DEF RejectLine, Running
    <3>3. Load(s) = Len(stdin[s]) + Len(stdout[s])
      BY <3>1, <3>2 DEF Load
    <3>4. Len(stdin[s]) \in Nat
      BY LenProperties DEF TypeOK
    <3>5. Load(s) \in Nat /\ Load(s) >= 1
      <4>1. Len(stdin[s]) + Len(stdout[s]) \in Nat /\ Len(stdin[s]) + Len(stdout[s]) >= 1
        BY <3>1, <3>4, SumPositive
      <4> QED BY <3>3, <4>1, Zenon
    <3>6. Load(s)' \in Nat
      BY <2>2, <3>5
    <3> QED BY <3>2, <3>5, <3>6
  <2>4. \A t \in Spaces : Answered(t) => Answered(t)'
    BY <2>1 DEF Answered, Running
  <2>5. Load(s) \in Nat /\ Running \subseteq Spaces /\ readers \subseteq Spaces
    BY LoadType DEF Running, TypeOK
  <2>6. \A t \in Spaces : Load(t) \in Nat
    BY LoadType
  <2>7. hostPc \notin {"closed", "starting", "dispatch", "ready"}
    BY <2>3, <2>5 DEF RoundInv
  <2> QED
    BY <2>1, <2>2, <2>3, <2>4, <2>5, <2>6, <2>7 DEF RoundInv
<1> QED BY <1>1, <1>2 DEF Handle

(* An iteration of the search preserves the invariant. *)
LEMMA IterateRound ==
  ASSUME NEW s \in Spaces, TypeOK, RoundInv, Iterate(s)
  PROVE  RoundInv'
<1>1. CASE Terminate(s)
  <2>1. \A t \in Spaces : Load(t)' = Load(t)
    BY <1>1 DEF Terminate, Searching, Load, TypeOK
  <2>2. s \in Running /\ Load(s) >= 1 + Len(stdout[s]) /\ Len(stdout[s]) \in Nat
    <3>1. Len(stdin[s]) \in Nat /\ Len(stdout[s]) \in Nat
      BY LenProperties DEF TypeOK
    <3>2. s \in Running /\ pc[s] = "next"
      BY <1>1 DEF Terminate, Searching, Running
    <3> QED BY <3>1, <3>2 DEF Load
  <2>3. hostPc = "gather"
    BY <1>1, <2>2, LoadType DEF RoundInv, Terminate
  <2>4. ~Answered(s)
    <3>1. Len(stdout[s]) = 0
      BY <2>2, <2>3, LoadType DEF RoundInv
    <3> QED BY <2>2, <3>1, EmptySeq DEF Answered, Running, TypeOK
  <2>5. UNCHANGED <<hostPc, readers, results, terminateAll, status, stdout>> /\ aborted' = aborted \cup {s}
    BY <1>1 DEF Terminate, hostVars
  <2>6. Running' = Running /\ Running \subseteq Spaces
    BY <2>5 DEF Running
  <2>7. \E t \in readers' \ aborted' : Answered(t)'
    BY <2>3, <2>4, <2>5 DEF RoundInv, Answered
  <2> QED
    BY <2>1, <2>3, <2>5, <2>6, <2>7 DEF RoundInv
<1>2. CASE Iterate(s) /\ ~Terminate(s)
  <2>1. UNCHANGED <<hostVars, terminateAll, status, stdin, stdout, aborted>> /\ Searching(s)
    BY <1>2 DEF Iterate, NothingToPick, BaseDrained, Draw
  <2>2. pc' = pc \/ pc' = [pc EXCEPT ![s] = "respond"]
    BY <1>2 DEF Iterate, NothingToPick, BaseDrained, Draw
  <2>3. \A t \in Spaces : Load(t)' = Load(t)
    BY <2>1, <2>2 DEF Load, Searching, TypeOK
  <2> QED BY <2>1, <2>3, QuietStep
<1> QED BY <1>1, <1>2

(* Every step preserves the invariant. *)
LEMMA RoundStep == TypeOK /\ RoundInv /\ [Next]_vars => RoundInv'
<1> SUFFICES ASSUME TypeOK, RoundInv, [Next]_vars PROVE RoundInv'
  OBVIOUS
<1>1. CASE \E s \in Spaces : SmStep(s)
  BY <1>1, HandleRound, IterateRound DEF SmStep
<1>2. ASSUME NEW s \in Spaces, Exit(s)
      PROVE  RoundInv'
  <2>1. /\ UNCHANGED <<hostPc, readers, results, terminateAll, aborted, stdin, stdout, pc>>
        /\ Running' \subseteq Running
    BY <1>2 DEF Exit, hostVars, Running, TypeOK
  <2>2. \A t \in Spaces : Load(t)' = Load(t) /\ (Answered(t) => Answered(t)')
    BY <2>1, LoadSame DEF Answered, Running
  <2>3. readers \subseteq Spaces /\ Running \subseteq Spaces
    BY DEF TypeOK, Running
  <2> QED BY <2>1, <2>2, <2>3 DEF RoundInv
<1>3. CASE UNCHANGED vars
  BY <1>3, LoadSame DEF RoundInv, vars, hostVars, smVars, Running, Answered
<1> QED
  BY <1>1, <1>2, <1>3, HostRound, ConsumerRound DEF Next

(* The inductive invariant of the request rounds holds: /tmp/terminate_all  *)
(* exists only while the answers of a round are gathered, or after a session *)
(* has ended.                                                               *)
THEOREM RoundCorrect == Spec => []RoundInv
<1>1. Init => RoundInv
  <2> SUFFICES ASSUME Init PROVE RoundInv
    OBVIOUS
  <2>1. \A s \in Spaces : Load(s) = 0
    BY EmptySeq DEF Init, EmptySession, Load
  <2> QED BY <2>1 DEF Init, EmptySession, RoundInv
<1> QED
  BY <1>1, RoundStep, TypeCorrect, PTL DEF Spec

(* No search is given up on a /tmp/terminate_all that another process's     *)
(* answer, or death, in the same round did not cause.                       *)
THEOREM AbortCorrect == Spec => []NoPrematureAbort
<1>1. RoundInv => NoPrematureAbort
  BY DEF RoundInv, NoPrematureAbort
<1> QED BY <1>1, RoundCorrect, PTL

(* No process ever has two requests, and none while the consumer has the    *)
(* turn: "Can only send sm one request each time".                          *)
THEOREM OutstandingCorrect == Spec => []OneOutstanding
<1>1. TypeOK /\ RoundInv => OneOutstanding
  BY LoadType DEF TypeOK, RoundInv, OneOutstanding, Running
<1> QED BY <1>1, TypeCorrect, RoundCorrect, PTL


===========================================================================
