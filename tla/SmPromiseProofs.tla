-------------------------- MODULE SmPromiseProofs --------------------------
(***************************************************************************)
(* Proofs about what SmProtocol promises to its consumer: what becomes of  *)
(* the patches, and that the protocol implements PatchSource.              *)
(***************************************************************************)
EXTENDS SmProtocolProofs

(* What a request in hand, or to be read, adds to the load. *)
LEMMA SumBusy ==
  ASSUME NEW a \in Nat, NEW b \in Nat
  PROVE  /\ a >= 1 => a + b >= 1 /\ a + b >= 1 + b /\ a + b \in Nat
         /\ a + 1 + b >= 1 /\ a + 1 + b >= 1 + b /\ a + 1 + b \in Nat
OBVIOUS

(* A process only works in a round: one that handles a request, or has one  *)
(* to read, is among those read, has no other request and no answer.        *)
LEMMA BusyInRound ==
  ASSUME TypeOK, RoundInv, NEW s \in Spaces, status[s] = "running",
         pc[s] # "idle" \/ stdin[s] # <<>>
  PROVE  /\ hostPc \in {"drain", "wait", "gather"} /\ s \in readers
         /\ stdout[s] = <<>> /\ Load(s) = 1
         /\ pc[s] # "idle" => stdin[s] = <<>>
         /\ pc[s] = "idle" => Len(stdin[s]) = 1
<1>1. /\ stdin[s] \in Seq(Requests) /\ stdout[s] \in Seq(Response)
      /\ Len(stdin[s]) \in Nat /\ Len(stdout[s]) \in Nat
  BY LenProperties DEF TypeOK
<1>2. stdin[s] # <<>> => Len(stdin[s]) >= 1
  BY <1>1, EmptySeq
<1>3. /\ pc[s] = "idle" => Load(s) = Len(stdin[s]) + Len(stdout[s])
      /\ pc[s] # "idle" => Load(s) = Len(stdin[s]) + 1 + Len(stdout[s])
  BY LoadCases
<1>4. Load(s) >= 1 /\ Load(s) >= 1 + Len(stdout[s]) /\ Load(s) \in Nat
  <2>1. CASE pc[s] = "idle"
    BY <1>1, <1>2, <1>3, <2>1, SumBusy, Zenon
  <2>2. CASE pc[s] # "idle"
    BY <1>1, <1>3, <2>2, SumBusy, Zenon
  <2> QED BY <2>1, <2>2
<1>5. s \in Running
  BY DEF Running
<1>6. hostPc \notin {"dispatch", "ready", "closed", "starting"}
  BY <1>4, <1>5 DEF RoundInv
<1>7. hostPc # "collect"
  <2> SUFFICES ASSUME hostPc = "collect" PROVE FALSE
    OBVIOUS
  <2>1. Load(s) <= 1 /\ stdout[s] # <<>>
    BY <1>4, <1>5 DEF RoundInv
  <2>2. Len(stdout[s]) >= 1
    BY <1>1, <2>1, EmptySeq
  <2> QED BY <1>1, <1>4, <2>1, <2>2
<1>8. hostPc \in {"drain", "wait", "gather"}
  BY <1>6, <1>7 DEF TypeOK
<1>9. s \in readers /\ Load(s) <= 1
  BY <1>5, <1>8 DEF RoundInv
<1>10. Len(stdout[s]) = 0 /\ Load(s) = 1
  BY <1>1, <1>4, <1>9
<1>11. /\ pc[s] # "idle" => Len(stdin[s]) = 0
       /\ pc[s] = "idle" => Len(stdin[s]) = 1
  BY <1>1, <1>3, <1>10
<1> QED BY <1>1, <1>8, <1>9, <1>10, <1>11, EmptySeq

(* A process without load is idle, and its pipes are empty. *)
LEMMA Unloaded ==
  ASSUME TypeOK, NEW s \in Spaces, Load(s) = 0
  PROVE  pc[s] = "idle" /\ stdin[s] = <<>> /\ stdout[s] = <<>>
<1>1. /\ stdin[s] \in Seq(Requests) /\ stdout[s] \in Seq(Response)
      /\ Len(stdin[s]) \in Nat /\ Len(stdout[s]) \in Nat
  BY LenProperties DEF TypeOK
<1>2. pc[s] = "idle"
  BY <1>1, LoadCases, SumZero, Zenon
<1>3. Len(stdin[s]) + Len(stdout[s]) = 0
  BY <1>2, LoadCases, Zenon
<1>4. Len(stdin[s]) = 0 /\ Len(stdout[s]) = 0
  BY <1>1, <1>3, SumZero, Zenon
<1> QED BY <1>1, <1>2, <1>4, EmptySeq

---------------------------------------------------------------------------
(* The handlers *)

(* A step changes the handler of one process at most. *)
LEMMA CloseHandler == ClearSession => HandlerPart'
  BY EmptySeq DEF ClearSession, HandlerPart, Random

(* The steps of the host and of the consumer leave the handlers alone or    *)
(* reset them.                                                              *)
LEMMA HostHandler ==
  ASSUME HostStep \/ ConsumerStep
  PROVE  ClearSession \/ UNCHANGED <<pc, job, outcome, found>>
<1>1. CASE HostStep
  BY <1>1 DEF HostStep, StartProcess, DispatchQueued, Deliver, DispatchRaises, DispatchEnds,
     DispatchSend, Drained, DrainRaises, FirstCompleted, Gathered, CollectResult, CollectRaises,
     FinishWithPatch, FinishEmpty, Close, smVars, genVars
<1>2. CASE ConsumerStep
  BY <1>2 DEF ConsumerStep, Ask, Launch, Cancel, CancelStarting, Close, smVars, genVars
<1> QED BY <1>1, <1>2

(* Every step keeps the locals of the handlers in order. *)
LEMMA HandlerStep ==
  ASSUME TypeOK, HandlerPart, [Next]_vars
  PROVE  HandlerPart'
<1>1. CASE HostStep \/ ConsumerStep
  <2>1. CASE UNCHANGED <<pc, job, outcome, found>>
    BY <2>1 DEF HandlerPart
  <2> QED BY <1>1, <2>1, HostHandler, CloseHandler
<1>2. CASE UNCHANGED vars \/ \E s \in Spaces : Exit(s)
  <2>1. UNCHANGED <<pc, job, outcome, found>>
    BY <1>2, ZenonT(30) DEF vars, smVars, genVars, Exit
  <2> QED BY <2>1 DEF HandlerPart
<1>3. ASSUME NEW s \in Spaces, SmStep(s)
      PROVE  HandlerPart'
  <2> DEFINE Fine(t) ==
        /\ pc[t] = "idle" => found[t] = <<>>
        /\ pc[t] # "respond" => outcome[t] = "none"
        /\ pc[t] # "idle" => job[t].type # "crossover-onepoint"
        /\ job[t].type = "mutate" => \A i \in 1 .. Len(found[t]) : found[t][i].base = job[t].base
        /\ NumPatched = 1 /\ pc[t] = "next" => found[t] = <<>>
  <2>0. \A t \in Spaces : Fine(t)
    BY DEF HandlerPart
  <2>1. \A t \in Spaces \ {s} :
           /\ pc'[t] = pc[t] /\ job'[t] = job[t]
           /\ found'[t] = found[t] /\ outcome'[t] = outcome[t]
    BY <1>3, ZenonT(30) DEF SmStep, Handle, Iterate, ReadLine, RejectLine, RespondExhausted, RespondSuccess,
       HandlerReturns, Terminate, NothingToPick, BaseDrained, Draw, genVars, TypeOK
  <2>2. Fine(s)'
    <3>1. CASE ReadLine(s)
      <4>1. /\ pc[s] = "idle" /\ pc'[s] = "next" /\ found' = found /\ outcome' = outcome
            /\ job'[s].type # "crossover-onepoint"
        BY <3>1 DEF ReadLine, TypeOK
      <4> QED BY <2>0, <4>1, EmptySeq
    <3>2. CASE RejectLine(s)
      BY <2>0, <3>2 DEF RejectLine, genVars
    <3>3. CASE RespondExhausted(s) \/ RespondSuccess(s)
      <4>1. pc'[s] = "idle" /\ job'[s] = Random /\ outcome'[s] = "none" /\ found'[s] = <<>>
        BY <3>3 DEF RespondExhausted, RespondSuccess, HandlerReturns, TypeOK
      <4> QED BY <4>1 DEF Random
    <3>4. CASE Terminate(s)
      BY <2>0, <3>4 DEF Terminate, Searching, genVars, TypeOK
    <3>5. CASE NothingToPick(s)
      BY <2>0, <3>5 DEF NothingToPick, Searching, TypeOK
    <3>6. CASE \E b \in AST : BaseDrained(s, b)
      BY <2>0, <3>6 DEF BaseDrained, Searching, TypeOK
    <3>7. ASSUME NEW b \in AST, NEW c \in AST, Draw(s, b, c)
          PROVE  Fine(s)'
      <4>1. pc[s] = "next" /\ job' = job /\ outcome' = outcome /\ b \in Pickable(s)
        BY <3>7 DEF Draw, Searching
      <4>2. CASE UNCHANGED <<found, pc>>
        BY <2>0, <4>1, <4>2
      <4>3. CASE /\ found' = [found EXCEPT ![s] = Append(@, [base |-> b, ast |-> c])]
                 /\ pc' = IF Len(found[s]) + 1 < Wanted(s) THEN pc ELSE [pc EXCEPT ![s] = "respond"]
        <5>1. found[s] \in Seq(Mutant) /\ [base |-> b, ast |-> c] \in Mutant
          BY DEF TypeOK, Mutant
        <5>2. found'[s] = Append(found[s], [base |-> b, ast |-> c])
          BY <4>3 DEF TypeOK
        <5>3. job[s].type = "mutate" => b = job[s].base
          BY <4>1 DEF Pickable
        <5>4. job[s].type = "mutate" =>
                 \A i \in 1 .. Len(found'[s]) : found'[s][i].base = job[s].base
          BY <2>0, <5>1, <5>2, <5>3, AppendProperties
        <5>5. pc'[s] \in {"next", "respond"}
          BY <4>1, <4>3 DEF TypeOK
        <5>6. NumPatched = 1 => pc'[s] = "respond"
          <6> SUFFICES ASSUME NumPatched = 1 PROVE pc'[s] = "respond"
            OBVIOUS
          <6>1. Wanted(s) = 1
            BY DEF Wanted
          <6>2. Len(found[s]) \in Nat
            BY <5>1, LenProperties
          <6> QED BY <4>3, <6>1, <6>2 DEF TypeOK
        <5> QED BY <2>0, <4>1, <5>4, <5>5, <5>6
      <4> QED BY <3>7, <4>2, <4>3 DEF Draw
    <3> QED
      BY <1>3, <3>1, <3>2, <3>3, <3>4, <3>5, <3>6, <3>7 DEF SmStep, Handle, Iterate
  <2> QED
    BY <2>0, <2>1, <2>2 DEF HandlerPart
<1> QED BY <1>1, <1>2, <1>3 DEF Next

---------------------------------------------------------------------------
(* The session *)

(* A session that is over holds nothing. *)
LEMMA ClearSessionPart ==
  ASSUME ClearSession, hostPc' \in {"closed", "starting"},
         hostPc' = "starting" => status'[N] = "none"
  PROVE  SessionPart'
  BY DEF ClearSession, SessionPart

(* The host keeps to its session. *)
LEMMA SessionStep ==
  ASSUME TypeOK, RoundInv, SessionPart, [Next]_vars
  PROVE  SessionPart'
<1>0. N \in Spaces
  BY ConstantsAssumption DEF Spaces
<1>1. CASE Close
  BY <1>1, ClearSessionPart DEF Close
<1>2. CASE Launch
  BY <1>0, <1>2, ClearSessionPart DEF Launch
<1>3. ASSUME NEW s \in Spaces, StartProcess(s)
      PROVE  SessionPart'
  BY <1>0, <1>3 DEF StartProcess, SessionPart, TypeOK
<1>4. CASE DispatchQueued \/ FinishWithPatch
  BY <1>4 DEF DispatchQueued, FinishWithPatch, Deliver, SessionPart
<1>5. CASE DispatchSend \/ Drained \/ FirstCompleted \/ Gathered \/ FinishEmpty
  BY <1>5 DEF DispatchSend, Drained, FirstCompleted, Gathered, FinishEmpty, SessionPart
<1>6. CASE \E s \in Spaces : CollectResult(s)
  BY <1>6 DEF CollectResult, SessionPart
<1>7. CASE \E r \in Requests : Ask(r)
  BY <1>7 DEF Ask, SessionPart
<1>8. CASE CancelStarting
  BY <1>8 DEF CancelStarting, SessionPart, smVars, genVars
<1>9. CASE UNCHANGED <<hostVars, numProcessed>> /\ \A s \in Spaces : status[s] = "none" => status'[s] = "none"
  BY <1>0, <1>9 DEF SessionPart, hostVars
<1>10. ASSUME NEW s \in Spaces, SmStep(s)
       PROVE  SessionPart'
  <2>1. CASE RespondSuccess(s)
    <3>1. hostPc \in {"drain", "wait", "gather"}
      BY <2>1, BusyInRound DEF RespondSuccess
    <3> QED BY <2>1, <3>1 DEF RespondSuccess, SessionPart, hostVars
  <2>2. CASE SmStep(s) /\ ~RespondSuccess(s)
    <3>1. UNCHANGED <<hostVars, numProcessed>>
      BY <2>2 DEF SmStep, Handle, Iterate, ReadLine, RejectLine, RespondExhausted,
         Terminate, NothingToPick, BaseDrained, Draw, genVars
    <3>2. \A t \in Spaces : status[t] = "none" => status'[t] = "none"
      BY <2>2 DEF SmStep, Handle, Iterate, ReadLine, RejectLine, RespondExhausted,
         Terminate, NothingToPick, BaseDrained, Draw, TypeOK
    <3> QED BY <1>9, <3>1, <3>2
  <2> QED BY <1>10, <2>1, <2>2
<1>11. CASE UNCHANGED vars \/ \E s \in Spaces : Exit(s)
  <2>1. UNCHANGED <<hostVars, numProcessed>>
    BY <1>11 DEF vars, smVars, genVars, Exit
  <2>2. \A t \in Spaces : status[t] = "none" => status'[t] = "none"
    BY <1>11 DEF vars, smVars, Exit, TypeOK
  <2> QED BY <1>9, <2>1, <2>2
<1> QED
  BY <1>1, <1>2, <1>3, <1>4, <1>5, <1>6, <1>7, <1>8, <1>10, <1>11
  DEF Next, HostStep, ConsumerStep, DispatchRaises, DispatchEnds, DrainRaises, CollectRaises, Cancel

(* The locals of the handlers and the session are in order. *)
LEMMA HandlerCorrect == Spec => [](HandlerPart /\ SessionPart)
<1>1. Init => HandlerPart /\ SessionPart
  BY EmptySeq DEF Init, EmptySession, HandlerPart, SessionPart, Random
<1>2. TypeOK /\ RoundInv /\ HandlerPart /\ SessionPart /\ [Next]_vars
        => (HandlerPart /\ SessionPart)'
  BY HandlerStep, SessionStep
<1> QED BY <1>1, <1>2, TypeCorrect, RoundCorrect, PTL DEF Spec

(* Once closed, no sm process of a completely started session survives: the *)
(* only way to leave some running is to be cancelled while they are started. *)
THEOREM SurvivorCorrect == Spec => []NoSurvivor
<1>0. N \in Spaces
  BY ConstantsAssumption DEF Spaces
<1>1. Init => NoSurvivor
  BY DEF Init, NoSurvivor
<1>2. TypeOK /\ SessionPart /\ NoSurvivor /\ [Next]_vars => NoSurvivor'
  <2> SUFFICES ASSUME TypeOK, SessionPart, NoSurvivor, [Next]_vars, hostPc' = "closed"
               PROVE  \/ \A s \in Spaces : status'[s] # "running"
                      \/ \E s \in Spaces : status'[s] = "none"
    BY DEF NoSurvivor
  <2>1. CASE Close
    BY <2>1 DEF Close
  <2>2. CASE CancelStarting
    BY <1>0, <2>2 DEF CancelStarting, SessionPart, smVars
  <2>3. CASE HostStep \/ ConsumerStep
    BY <2>1, <2>2, <2>3 DEF HostStep, StartProcess, DispatchQueued, Deliver, DispatchRaises,
       DispatchEnds, DispatchSend, Drained, DrainRaises, FirstCompleted, Gathered, CollectResult,
       CollectRaises, FinishWithPatch, FinishEmpty, ConsumerStep, Ask, Launch, Cancel
  <2>4. CASE UNCHANGED vars \/ \E s \in Spaces : SmStep(s) \/ Exit(s)
    <3>1. hostPc' = hostPc
      BY <2>4 DEF vars, hostVars, SmStep, Handle, Iterate, ReadLine, RejectLine, RespondExhausted,
         RespondSuccess, Terminate, NothingToPick, BaseDrained, Draw, Exit
    <3>2. \A s \in Spaces : /\ status[s] = "none" => status'[s] = "none"
                            /\ status'[s] = "running" => status[s] = "running"
      <4>1. CASE UNCHANGED vars \/ \E s \in Spaces : Exit(s)
        BY <4>1 DEF vars, smVars, Exit, TypeOK
      <4>2. CASE \E s \in Spaces : SmStep(s)
        <5>1. PICK s \in Spaces : SmStep(s)
          BY <4>2
        <5>2. \/ UNCHANGED status
              \/ status[s] = "running" /\ status' = [status EXCEPT ![s] = "exit1"]
          BY <5>1 DEF SmStep, Handle, Iterate, ReadLine, RejectLine, RespondExhausted,
             RespondSuccess, Terminate, NothingToPick, BaseDrained, Draw
        <5> QED BY <5>2 DEF TypeOK
      <4> QED BY <2>4, <4>1, <4>2
    <3> QED BY <3>1, <3>2 DEF NoSurvivor
  <2> QED BY <2>3, <2>4 DEF Next
<1> QED BY <1>1, <1>2, TypeCorrect, HandlerCorrect, PTL DEF Spec

(* With batches of one, finding the space exhausted drops nothing. *)
THEOREM DiscardCorrect == Spec => []NothingDiscarded
<1>1. Init => NothingDiscarded
  BY DEF Init, EmptySession, NothingDiscarded
<1>2. TypeOK /\ HandlerPart /\ NothingDiscarded /\ [Next]_vars => NothingDiscarded'
  <2> SUFFICES ASSUME TypeOK, HandlerPart, NothingDiscarded, [Next]_vars, NumPatched = 1,
                      NEW t \in Spaces, pc'[t] = "respond", outcome'[t] = "AllSpaceExhasuted"
               PROVE  found'[t] = <<>>
    BY DEF NothingDiscarded
  <2>1. CASE pc[t] = "respond" /\ outcome[t] = "AllSpaceExhasuted" /\ found'[t] = found[t]
    BY <2>1 DEF NothingDiscarded
  <2>2. CASE pc[t] = "next" /\ found'[t] = found[t]
    BY <2>2 DEF HandlerPart
  <2>3. CASE HostStep \/ ConsumerStep
    <3>1. CASE ClearSession
      BY <3>1 DEF ClearSession
    <3> QED BY <2>1, <2>3, <3>1, HostHandler
  <2>4. CASE UNCHANGED vars \/ \E s \in Spaces : Exit(s)
    BY <2>1, <2>4 DEF vars, smVars, genVars, Exit
  <2>5. ASSUME NEW s \in Spaces, SmStep(s)
        PROVE  found'[t] = <<>>
    <3>1. CASE ReadLine(s) \/ RejectLine(s)
      BY <2>1, <3>1 DEF ReadLine, RejectLine, genVars, TypeOK
    <3>2. CASE RespondExhausted(s) \/ RespondSuccess(s)
      BY <2>1, <3>2 DEF RespondExhausted, RespondSuccess, HandlerReturns, TypeOK
    <3>3. CASE Terminate(s) \/ NothingToPick(s) \/ \E b \in AST : BaseDrained(s, b)
      BY <2>1, <2>2, <3>3 DEF Terminate, NothingToPick, BaseDrained, Searching, genVars, TypeOK
    <3>4. ASSUME NEW b \in AST, NEW c \in AST, Draw(s, b, c)
          PROVE  found'[t] = <<>>
      BY <2>1, <3>4 DEF Draw, Searching, TypeOK, HandlerPart
    <3> QED BY <2>5, <3>1, <3>2, <3>3, <3>4 DEF SmStep, Handle, Iterate
  <2> QED BY <2>3, <2>4, <2>5 DEF Next
<1> QED BY <1>1, <1>2, TypeCorrect, HandlerCorrect, PTL DEF Spec

---------------------------------------------------------------------------
(* Where the patches are *)

(* The answer on a pipe is a sequence of patches. *)
LEMMA AnswerType ==
  ASSUME TypeOK, NEW s \in Spaces
  PROVE  Answer(s) \in Seq(Patch) /\ Len(Answer(s)) \in Nat
<1>1. CASE stdout[s] = <<>>
  BY <1>1, EmptySeq, LenProperties DEF Answer
<1>2. CASE stdout[s] # <<>>
  <2>1. Head(stdout[s]) \in Response
    BY <1>2, HeadTailProperties DEF TypeOK
  <2> QED BY <1>2, <2>1, LenProperties DEF Answer, Response
<1> QED BY <1>1, <1>2

(* With nothing on the way there is nothing to lose. *)
LEMMA NothingOnTheWay ==
  ASSUME delivered' = {}, unconsumed' = <<>>,
         \A s \in Spaces : stdout'[s] = <<>> /\ found'[s] = <<>> /\ numProcessed'[s] = 0
  PROVE  PlacePart' /\ FoundPart'
<1>1. QueuedPatches' = {}
  BY EmptySeq DEF QueuedPatches
<1>2. \A s \in Spaces : Answer(s)' = <<>>
  BY DEF Answer
<1>3. \A s \in Spaces : PipedPatches(s)' = {}
  BY <1>2, EmptySeq DEF PipedPatches
<1>4. \A s \in Spaces : Out(s)' = {}
  BY <1>1, <1>3 DEF Out
<1>5. \A s \in Spaces : Len(stdout'[s]) = 0 /\ Len(Answer(s)') = 0 /\ Len(found'[s]) = 0
  BY <1>2, EmptySeq
<1>6. Len(unconsumed') = 0
  BY EmptySeq
<1> QED BY <1>1, <1>2, <1>3, <1>4, <1>5, <1>6 DEF PlacePart, FoundPart

(* The places depend on the queue, the pipes and the patches given. *)
LEMMA SamePlaces ==
  ASSUME UNCHANGED <<delivered, unconsumed>>, \A s \in Spaces : Answer(s)' = Answer(s)
  PROVE  /\ QueuedPatches' = QueuedPatches
         /\ \A s \in Spaces : PipedPatches(s)' = PipedPatches(s) /\ Out(s)' = Out(s)
<1>1. QueuedPatches' = QueuedPatches
  BY DEF QueuedPatches
<1>2. \A s \in Spaces : PipedPatches(s)' = PipedPatches(s)
  BY DEF PipedPatches
<1> QED BY <1>1, <1>2 DEF Out

(* A step that moves no patch. *)
LEMMA QuietPlaces ==
  ASSUME PlacePart, UNCHANGED <<delivered, unconsumed, numProcessed>>,
         \A s \in Spaces : /\ Answer(s)' = Answer(s) /\ Len(stdout'[s]) <= 1
                           /\ known[s] \subseteq known'[s]
                           /\ status'[s] = "running" => status[s] = "running"
  PROVE  PlacePart'
  BY SamePlaces DEF PlacePart

(* Yielding a patch moves it from the queue to the consumer. *)
LEMMA DeliverMoves ==
  ASSUME TypeOK, PlacePart, HasPatch, Deliver
  PROVE  /\ unconsumed[FirstPatch].payload \in QueuedPatches
         /\ QueuedPatches' = QueuedPatches \ {unconsumed[FirstPatch].payload}
         /\ delivered' = delivered \cup {unconsumed[FirstPatch].payload}
         /\ \A i, j \in 1 .. Len(unconsumed') :
              unconsumed'[i].payload = unconsumed'[j].payload => i = j
<1> DEFINE k == FirstPatch
           n == Len(unconsumed)
           p == unconsumed[k].payload
           old(j) == IF j < k THEN j ELSE j + 1
<1>1. k \in 1 .. n /\ n \in Nat /\ unconsumed \in Seq(Entry)
  BY FirstPatchIndex, LenProperties DEF TypeOK
<1>2. unconsumed' = RemoveAt(unconsumed, k) /\ delivered' = delivered \cup {p}
  BY DEF Deliver
<1> HIDE DEF k
<1>3. /\ Len(unconsumed') = n - 1
      /\ \A j \in 1 .. n - 1 : unconsumed'[j] = unconsumed[old(j)]
  <2>1. WithoutAt(Entry, unconsumed, k, unconsumed')
    BY <1>1, <1>2, RemoveAtElements
  <2> QED BY <2>1 DEF WithoutAt
<1>4. \A i, j \in 1 .. n : unconsumed[i].payload = unconsumed[j].payload => i = j
  BY DEF PlacePart
<1>5. \A j \in 1 .. n - 1 : old(j) \in 1 .. n /\ old(j) # k
  BY <1>1
<1>6. \A m \in 1 .. n : m # k => \E j \in 1 .. n - 1 : old(j) = m
  <2> SUFFICES ASSUME NEW m \in 1 .. n, m # k PROVE \E j \in 1 .. n - 1 : old(j) = m
    OBVIOUS
  <2>1. CASE m < k
    <3>1. m \in 1 .. n - 1 /\ old(m) = m
      BY <1>1, <2>1
    <3> QED BY <3>1
  <2>2. CASE k < m
    <3>1. m - 1 \in 1 .. n - 1 /\ old(m - 1) = m
      BY <1>1, <2>2
    <3> QED BY <3>1
  <2> QED BY <1>1, <2>1, <2>2
<1>7. \A i, j \in 1 .. n - 1 : old(i) = old(j) => i = j
  BY <1>1
<1>8. \A i, j \in 1 .. Len(unconsumed') : unconsumed'[i].payload = unconsumed'[j].payload => i = j
  <2> HIDE DEF old
  <2> SUFFICES ASSUME NEW i \in 1 .. n - 1, NEW j \in 1 .. n - 1,
                      unconsumed'[i].payload = unconsumed'[j].payload
               PROVE  i = j
    BY <1>3
  <2>1. unconsumed[old(i)].payload = unconsumed[old(j)].payload
    BY <1>3
  <2>2. old(i) = old(j)
    BY <1>4, <1>5, <2>1
  <2> QED BY <1>7, <2>2
<1>9. QueuedPatches' = QueuedPatches \ {p}
  <2> HIDE DEF old
  <2>1. ASSUME NEW x \in QueuedPatches'
        PROVE  x \in QueuedPatches \ {p}
    <3>1. PICK j \in 1 .. n - 1 : x = unconsumed'[j].payload
      BY <1>3 DEF QueuedPatches
    <3>2. x = unconsumed[old(j)].payload /\ old(j) \in 1 .. n /\ old(j) # k
      BY <1>3, <1>5, <3>1
    <3> QED BY <1>1, <1>4, <3>2 DEF QueuedPatches
  <2>2. ASSUME NEW x \in QueuedPatches, x # p
        PROVE  x \in QueuedPatches'
    <3>1. PICK m \in 1 .. n : x = unconsumed[m].payload
      BY DEF QueuedPatches
    <3>2. PICK j \in 1 .. n - 1 : old(j) = m
      BY <1>6, <2>2, <3>1
    <3>3. x = unconsumed'[j].payload
      BY <1>3, <3>1, <3>2
    <3> QED BY <1>3, <3>3 DEF QueuedPatches
  <2> QED BY <2>1, <2>2
<1>10. p \in QueuedPatches
  BY <1>1 DEF QueuedPatches
<1> QED BY <1>2, <1>8, <1>9, <1>10 DEF k

(* It stays the only one of its file and contract. *)
LEMMA DeliverPlaces ==
  ASSUME TypeOK, PlacePart, HasPatch, Deliver
  PROVE  PlacePart' /\ \A s \in Spaces : Out(s)' = Out(s)
<1>1. \A s \in Spaces : Answer(s)' = Answer(s)
  BY DEF Deliver, smVars, Answer
<1>2. \A s \in Spaces : PipedPatches(s)' = PipedPatches(s)
  BY <1>1 DEF PipedPatches
<1>3. QueuedPatches' \cup delivered' = QueuedPatches \cup delivered
  BY DeliverMoves
<1>4. \A s \in Spaces : Out(s)' = Out(s)
  BY <1>2, <1>3 DEF Out
<1>5. QueuedPatches' \cap delivered' = {}
  BY DeliverMoves DEF PlacePart
<1>6. UNCHANGED <<stdout, numProcessed, known, status>>
  BY DEF Deliver, smVars, genVars
<1>7. PlacePart'
  BY <1>1, <1>2, <1>3, <1>4, <1>5, <1>6, DeliverMoves DEF PlacePart
<1> QED BY <1>4, <1>7

(* Nothing is left of a pipe with one line once it is read. *)
LEMMA TailOfOne ==
  ASSUME NEW S, NEW q \in Seq(S), q # <<>>, Len(q) <= 1
  PROVE  Tail(q) = <<>>
<1>1. Len(q) \in Nat /\ Len(q) # 0
  BY EmptySeq, LenProperties
<1>2. Len(q) = 1
  BY <1>1
<1>3. Tail(q) \in Seq(S) /\ Len(Tail(q)) = Len(q) - 1
  BY HeadTailProperties
<1>4. Len(Tail(q)) = 0
  BY <1>2, <1>3
<1> QED BY <1>3, <1>4, EmptySeq

(* Collecting an answer moves its patches from the pipe to the queue. *)
LEMMA CollectMoves ==
  ASSUME TypeOK, PlacePart, NEW s \in Spaces, CollectResult(s)
  PROVE  /\ stdout'[s] = <<>> /\ \A t \in Spaces \ {s} : stdout'[t] = stdout[t]
         /\ Len(unconsumed') = Len(unconsumed) + Len(Answer(s))
         /\ \A i \in 1 .. Len(unconsumed) : unconsumed'[i] = unconsumed[i]
         /\ \A i \in 1 .. Len(Answer(s)) :
              unconsumed'[Len(unconsumed) + i] = [payload |-> Answer(s)[i], json |-> request]
<1> DEFINE new == [i \in 1 .. Len(Answer(s)) |-> [payload |-> Answer(s)[i], json |-> request]]
<1>1. stdout[s] \in Seq(Response) /\ stdout[s] # <<>> /\ Len(stdout[s]) <= 1
  BY DEF CollectResult, TypeOK, PlacePart
<1>2. Tail(stdout[s]) = <<>>
  BY <1>1, TailOfOne, Zenon
<1>3. stdout'[s] = <<>> /\ \A t \in Spaces \ {s} : stdout'[t] = stdout[t]
  BY <1>2 DEF CollectResult, TypeOK
<1>4. unconsumed' = unconsumed \o new
  BY <1>1 DEF CollectResult, Answer
<1>5. Answer(s) \in Seq(Patch) /\ Len(Answer(s)) \in Nat
  BY AnswerType
<1>6. new \in Seq(Entry) /\ Len(new) = Len(Answer(s))
  <2>1. \A i \in 1 .. Len(Answer(s)) : [payload |-> Answer(s)[i], json |-> request] \in Entry
    BY <1>5, ElementOfSeq DEF TypeOK, Entry
  <2> QED BY <1>5, <2>1, IsASeq
<1>7. unconsumed \in Seq(Entry) /\ Len(unconsumed) \in Nat
  BY LenProperties DEF TypeOK
<1>8. \A i \in 1 .. Len(Answer(s)) : new[i] = [payload |-> Answer(s)[i], json |-> request]
  OBVIOUS
<1> HIDE DEF new
<1>9. /\ Len(unconsumed \o new) = Len(unconsumed) + Len(new)
      /\ \A j \in 1 .. Len(unconsumed) + Len(new) :
           (unconsumed \o new)[j] =
              IF j <= Len(unconsumed) THEN unconsumed[j] ELSE new[j - Len(unconsumed)]
  BY <1>6, <1>7, ConcatProperties
<1>10. \A i \in 1 .. Len(unconsumed) : unconsumed'[i] = unconsumed[i]
  BY <1>4, <1>5, <1>6, <1>7, <1>9
<1>11. \A i \in 1 .. Len(Answer(s)) :
          unconsumed'[Len(unconsumed) + i] = [payload |-> Answer(s)[i], json |-> request]
  <2> SUFFICES ASSUME NEW i \in 1 .. Len(Answer(s))
               PROVE  (unconsumed \o new)[Len(unconsumed) + i] = new[i]
    BY <1>4, <1>8
  <2>1. /\ Len(unconsumed) + i \in 1 .. Len(unconsumed) + Len(new)
        /\ ~(Len(unconsumed) + i <= Len(unconsumed))
        /\ Len(unconsumed) + i - Len(unconsumed) = i
    BY <1>5, <1>6, <1>7
  <2> QED BY <1>9, <2>1
<1> QED BY <1>3, <1>4, <1>6, <1>9, <1>10, <1>11

(* Nothing is duplicated or lost on the way to the queue. *)
LEMMA CollectPlaces ==
  ASSUME TypeOK, PlacePart, NEW s \in Spaces, CollectResult(s)
  PROVE  PlacePart' /\ \A t \in Spaces : Out(t)' = Out(t)
<1> DEFINE n == Len(unconsumed)
           k == Len(Answer(s))
<1>1. n \in Nat /\ k \in Nat
  BY AnswerType, LenProperties DEF TypeOK
<1>2. /\ Len(unconsumed') = n + k
      /\ \A i \in 1 .. n : unconsumed'[i] = unconsumed[i]
      /\ \A i \in 1 .. k : unconsumed'[n + i].payload = Answer(s)[i]
  <2>1. ASSUME NEW i \in 1 .. k PROVE unconsumed'[n + i].payload = Answer(s)[i]
    <3>1. unconsumed'[n + i] = [payload |-> Answer(s)[i], json |-> request]
      BY CollectMoves
    <3> QED BY <3>1
  <2> QED BY <2>1, CollectMoves
<1>3. \A j \in 1 .. n + k : j \in 1 .. n \/ \E i \in 1 .. k : j = n + i
  <2> HIDE DEF n, k
  <2> SUFFICES ASSUME NEW j \in 1 .. n + k, j \notin 1 .. n PROVE \E i \in 1 .. k : j = n + i
    OBVIOUS
  <2>1. j - n \in 1 .. k /\ j = n + (j - n)
    BY <1>1
  <2> QED BY <2>1
<1>4. \A i \in 1 .. n : i \in 1 .. n + k
  BY <1>1
<1>5. \A i \in 1 .. k : n + i \in 1 .. n + k
  BY <1>1
<1> HIDE DEF n, k
<1>6. QueuedPatches' = QueuedPatches \cup PipedPatches(s)
  <2>1. \A x : x \in QueuedPatches' <=> \E j \in 1 .. n + k : x = unconsumed'[j].payload
    BY <1>2 DEF QueuedPatches
  <2>2. \A x : x \in QueuedPatches <=> \E j \in 1 .. n : x = unconsumed[j].payload
    BY DEF QueuedPatches, n
  <2>3. \A x : x \in PipedPatches(s) <=> \E j \in 1 .. k : x = Answer(s)[j]
    BY DEF PipedPatches, k
  <2>4. ASSUME NEW x \in QueuedPatches' PROVE x \in QueuedPatches \cup PipedPatches(s)
    BY <1>2, <1>3, <2>1, <2>2, <2>3
  <2>5. ASSUME NEW x \in QueuedPatches \cup PipedPatches(s) PROVE x \in QueuedPatches'
    BY <1>2, <1>4, <1>5, <2>1, <2>2, <2>3
  <2> QED BY <2>4, <2>5
<1>7. Answer(s)' = <<>> /\ \A t \in Spaces \ {s} : Answer(t)' = Answer(t)
  BY CollectMoves DEF Answer
<1>8. PipedPatches(s)' = {} /\ \A t \in Spaces \ {s} : PipedPatches(t)' = PipedPatches(t)
  BY <1>7, EmptySeq DEF PipedPatches
<1>9. UNCHANGED <<delivered, numProcessed, known, status>>
  BY DEF CollectResult, genVars
<1>10. \A t \in Spaces : \A x \in PipedPatches(t) : x.space = t
  BY DEF PlacePart, PipedPatches
<1>11. \A t \in Spaces : Out(t)' = Out(t)
  BY <1>6, <1>8, <1>9, <1>10 DEF Out
<1>12. \A i, j \in 1 .. n + k : unconsumed'[i].payload = unconsumed'[j].payload => i = j
  <2>1. \A i, j \in 1 .. n : unconsumed[i].payload = unconsumed[j].payload => i = j
    BY DEF PlacePart, n
  <2>2. \A i, j \in 1 .. k : Answer(s)[i] = Answer(s)[j] => i = j
    BY DEF PlacePart, k
  <2>3. \A i \in 1 .. n, j \in 1 .. k : unconsumed[i].payload # Answer(s)[j]
    <3> TAKE i \in 1 .. n, j \in 1 .. k
    <3>1. unconsumed[i].payload \in QueuedPatches
      BY DEF QueuedPatches, n
    <3>2. Answer(s)[j] \in PipedPatches(s)
      BY DEF PipedPatches, k
    <3> QED BY <3>1, <3>2 DEF PlacePart
  <2> SUFFICES ASSUME NEW i \in 1 .. n + k, NEW j \in 1 .. n + k,
                      unconsumed'[i].payload = unconsumed'[j].payload
               PROVE  i = j
    OBVIOUS
  <2>4. CASE i \in 1 .. n /\ j \in 1 .. n
    BY <1>2, <2>1, <2>4
  <2>5. CASE i \in 1 .. n /\ \E b \in 1 .. k : j = n + b
    BY <1>2, <2>3, <2>5
  <2>6. CASE j \in 1 .. n /\ \E a \in 1 .. k : i = n + a
    BY <1>2, <2>3, <2>6
  <2>7. CASE (\E a \in 1 .. k : i = n + a) /\ (\E b \in 1 .. k : j = n + b)
    BY <1>2, <2>2, <2>7
  <2> QED BY <1>3, <2>4, <2>5, <2>6, <2>7
<1>13. \A t \in Spaces : Len(stdout'[t]) <= 1
  BY CollectMoves, EmptySeq DEF PlacePart
<1>14. \A t \in Spaces \ {s} : PipedPatches(t) \cap PipedPatches(s) = {}
  BY <1>10
<1>15. QueuedPatches' \cap delivered' = {}
  BY <1>6, <1>9 DEF PlacePart
<1>16. \A t \in Spaces : PipedPatches(t)' \cap (QueuedPatches' \cup delivered') = {}
  BY <1>6, <1>8, <1>9, <1>14 DEF PlacePart
<1>17. \A t \in Spaces :
          /\ \A i \in 1 .. Len(Answer(t)') : Answer(t)'[i].space = t
          /\ \A i, j \in 1 .. Len(Answer(t)') : Answer(t)'[i] = Answer(t)'[j] => i = j
  BY <1>7, EmptySeq DEF PlacePart
<1>18. PlacePart'
  BY <1>2, <1>9, <1>11, <1>12, <1>13, <1>15, <1>16, <1>17 DEF PlacePart
<1> QED BY <1>11, <1>18

(* What is on the way are patches. *)
LEMMA OutType ==
  ASSUME TypeOK, NEW s \in Spaces
  PROVE  Out(s) \subseteq Patch
<1>1. QueuedPatches \subseteq Patch
  <2>1. \A i \in 1 .. Len(unconsumed) : unconsumed[i] \in Entry
    BY ElementOfSeq DEF TypeOK
  <2> QED BY <2>1 DEF QueuedPatches, Entry
<1>2. PipedPatches(s) \subseteq Patch
  <2>1. \A i \in 1 .. Len(Answer(s)) : Answer(s)[i] \in Patch
    BY AnswerType, ElementOfSeq
  <2> QED BY <2>1 DEF PipedPatches
<1> QED BY <1>1, <1>2 DEF Out, TypeOK

(* One line on an empty pipe. *)
LEMMA OneLine ==
  ASSUME NEW r
  PROVE  Append(<<>>, r) # <<>> /\ Len(Append(<<>>, r)) = 1 /\ Head(Append(<<>>, r)) = r
<1>1. Append(<<>>, r) = <<r>>
  OBVIOUS
<1>2. <<r>> # <<>> /\ Len(<<r>>) = 1 /\ Head(<<r>>) = r
  OBVIOUS
<1> QED BY <1>1, <1>2

(* An answer is put on the empty pipe. *)
LEMMA RespondMoves ==
  ASSUME TypeOK, RoundInv, NEW s \in Spaces, status[s] = "running", pc[s] = "respond",
         NEW r \in Response, stdout' = [stdout EXCEPT ![s] = Append(@, r)]
  PROVE  /\ stdout[s] = <<>> /\ Answer(s) = <<>> /\ PipedPatches(s) = {}
         /\ stdout'[s] # <<>> /\ Len(stdout'[s]) = 1 /\ Head(stdout'[s]) = r
         /\ Answer(s)' = r.patches
         /\ \A t \in Spaces \ {s} : stdout'[t] = stdout[t] /\ Answer(t)' = Answer(t)
<1>1. stdout[s] = <<>>
  BY BusyInRound
<1>2. Answer(s) = <<>> /\ PipedPatches(s) = {}
  BY <1>1, EmptySeq DEF Answer, PipedPatches
<1>3. stdout'[s] = Append(<<>>, r) /\ \A t \in Spaces \ {s} : stdout'[t] = stdout[t]
  BY <1>1 DEF TypeOK
<1>4. stdout'[s] # <<>> /\ Len(stdout'[s]) = 1 /\ Head(stdout'[s]) = r
  BY <1>3, OneLine, Zenon
<1>5. Answer(s)' = r.patches /\ \A t \in Spaces \ {s} : Answer(t)' = Answer(t)
  BY <1>3, <1>4 DEF Answer
<1> QED BY <1>1, <1>2, <1>3, <1>4, <1>5, Zenon

(* The files written for an answer. *)
LEMMA WrittenFacts ==
  ASSUME TypeOK, NEW s \in Spaces
  PROVE  /\ WrittenPatches(s) \in Seq(Patch) /\ Len(WrittenPatches(s)) = Len(found[s])
         /\ Len(found[s]) \in Nat /\ numProcessed[s] \in Nat
         /\ \A i \in 1 .. Len(found[s]) :
              /\ WrittenPatches(s)[i].space = s
              /\ WrittenPatches(s)[i].num = numProcessed[s] + i - 1
              /\ WrittenPatches(s)[i].base = found[s][i].base
              /\ WrittenPatches(s)[i].ast = found[s][i].ast
<1>1. found[s] \in Seq(Mutant) /\ numProcessed[s] \in Nat /\ Len(found[s]) \in Nat
  BY LenProperties DEF TypeOK
<1>2. \A i \in 1 .. Len(found[s]) :
         [space |-> s, num |-> numProcessed[s] + i - 1,
          base |-> found[s][i].base, ast |-> found[s][i].ast] \in Patch
  <2> TAKE i \in 1 .. Len(found[s])
  <2>1. found[s][i] \in Mutant /\ i \in Nat \ {0}
    BY <1>1, ElementOfSeq
  <2>2. numProcessed[s] + i - 1 \in Nat
    BY <1>1, <2>1
  <2> QED BY <2>1, <2>2 DEF Mutant, Patch
<1>3. WrittenPatches(s) \in Seq(Patch) /\ Len(WrittenPatches(s)) = Len(found[s])
  BY <1>1, <1>2, IsASeq DEF WrittenPatches
<1>4. \A i \in 1 .. Len(found[s]) :
        WrittenPatches(s)[i] = [space |-> s, num |-> numProcessed[s] + i - 1,
                                base |-> found[s][i].base, ast |-> found[s][i].ast]
  BY DEF WrittenPatches
<1>5. \A i \in 1 .. Len(found[s]) :
        /\ WrittenPatches(s)[i].space = s
        /\ WrittenPatches(s)[i].num = numProcessed[s] + i - 1
        /\ WrittenPatches(s)[i].base = found[s][i].base
        /\ WrittenPatches(s)[i].ast = found[s][i].ast
  <2> TAKE i \in 1 .. Len(found[s])
  <2>1. WrittenPatches(s)[i] = [space |-> s, num |-> numProcessed[s] + i - 1,
                                base |-> found[s][i].base, ast |-> found[s][i].ast]
    BY <1>4, Zenon
  <2> QED BY <2>1
<1> QED BY <1>1, <1>3, <1>5, Zenon

(* The patches of an answer are new: their files are numbered on, and their *)
(* contracts were not seen before.                                          *)
LEMMA RespondPlaces ==
  ASSUME TypeOK, RoundInv, PlacePart, FoundPart, NEW s \in Spaces, RespondSuccess(s)
  PROVE  PlacePart' /\ \A t \in Spaces \ {s} : Out(t)' = Out(t)
<1> DEFINE W == WrittenPatches(s)
           n == numProcessed[s]
           k == Len(found[s])
           r == [Result |-> "Success", patches |-> W]
<1>1. /\ W \in Seq(Patch) /\ Len(W) = k /\ k \in Nat /\ n \in Nat
      /\ \A i \in 1 .. k : W[i].space = s /\ W[i].num = n + i - 1 /\ W[i].ast = found[s][i].ast
  BY WrittenFacts
<1>2. r \in Response
  BY <1>1 DEF Response
<1>3. /\ status[s] = "running" /\ pc[s] = "respond" /\ stdout' = [stdout EXCEPT ![s] = Append(@, r)]
      /\ UNCHANGED <<delivered, unconsumed, known, status>>
      /\ numProcessed' = [numProcessed EXCEPT ![s] = n + k]
  BY DEF RespondSuccess, hostVars
<1>4. n + k \in Nat /\ numProcessed'[s] = n + k
      /\ \A t \in Spaces \ {s} : numProcessed'[t] = numProcessed[t]
  BY <1>1, <1>3 DEF TypeOK
<1> HIDE DEF W, n, k
<1>5. /\ PipedPatches(s) = {} /\ Len(stdout'[s]) = 1 /\ Answer(s)' = W
      /\ \A t \in Spaces \ {s} : stdout'[t] = stdout[t] /\ Answer(t)' = Answer(t)
  BY <1>2, <1>3, RespondMoves
<1> DEFINE New == {W[i] : i \in 1 .. k}
<1>6. QueuedPatches' = QueuedPatches
  BY <1>3 DEF QueuedPatches
<1>7. PipedPatches(s)' = New /\ \A t \in Spaces \ {s} : PipedPatches(t)' = PipedPatches(t)
  BY <1>1, <1>5 DEF PipedPatches
<1>8. \A x \in New : x.space = s /\ x.num \in n .. n + k - 1 /\ x.ast \in known[s]
  <2> SUFFICES ASSUME NEW i \in 1 .. k
               PROVE  W[i].space = s /\ W[i].num \in n .. n + k - 1 /\ W[i].ast \in known[s]
    OBVIOUS
  <2>1. found[s][i].ast \in known[s]
    BY DEF FoundPart, k
  <2>2. n + i - 1 \in n .. n + k - 1
    BY <1>1
  <2> QED BY <1>1, <2>1, <2>2
<1>9. Out(s)' = Out(s) \cup New /\ \A t \in Spaces \ {s} : Out(t)' = Out(t)
  BY <1>3, <1>5, <1>6, <1>7, <1>8 DEF Out
<1>10. \A p \in Out(s) : p.num \in 0 .. n - 1 /\ p.ast \in known[s]
  <2>1. \A p \in Out(s) : p.num \in Nat
    BY OutType DEF Patch
  <2>2. \A p \in Out(s) : p.num < n /\ p.ast \in known[s]
    BY DEF PlacePart, n
  <2> QED BY <1>1, <2>1, <2>2
<1>11. \A i, j \in 1 .. k : W[i].num = W[j].num \/ W[i].ast = W[j].ast => i = j
  <2>1. \A i, j \in 1 .. k : found[s][i].ast = found[s][j].ast => i = j
    BY DEF FoundPart, k
  <2>2. \A i, j \in 1 .. k : n + i - 1 = n + j - 1 => i = j
    BY <1>1
  <2> QED BY <1>1, <2>1, <2>2
<1>12. \A p \in Out(s), i \in 1 .. k : p.num # W[i].num /\ p.ast # W[i].ast
  <2> TAKE p \in Out(s), i \in 1 .. k
  <2>1. p.ast # found[s][i].ast
    BY DEF FoundPart, k
  <2>2. p.num \in 0 .. n - 1 /\ W[i].num = n + i - 1
    BY <1>1, <1>10
  <2>3. p.num # W[i].num
    BY <1>1, <2>2
  <2> QED BY <1>1, <2>1, <2>3
<1>13. \A p, q \in Out(s)' : p.num = q.num \/ p.ast = q.ast => p = q
  <2>1. \A p, q \in Out(s) : p.num = q.num \/ p.ast = q.ast => p = q
    BY DEF PlacePart
  <2> QED BY <1>9, <1>11, <1>12, <2>1
<1>14. \A p \in Out(s)' : p.num < n + k /\ p.ast \in known[s]
  BY <1>1, <1>8, <1>9, <1>10
<1>15. New \cap (QueuedPatches \cup delivered) = {}
  <2> SUFFICES ASSUME NEW i \in 1 .. k, W[i] \in QueuedPatches \cup delivered
               PROVE  FALSE
    OBVIOUS
  <2>1. W[i] \in Out(s)
    BY <1>1 DEF Out
  <2> QED BY <1>12, <2>1
<1>16. \A m \in 0 .. n + k - 1 : \E p \in Out(s)' : p.num = m
  <2> TAKE m \in 0 .. n + k - 1
  <2>1. CASE m \in 0 .. n - 1
    <3>1. \E p \in Out(s) : p.num = m
      BY <1>3, <2>1 DEF PlacePart, n
    <3> QED BY <1>9, <3>1
  <2>2. CASE m \notin 0 .. n - 1
    <3>1. m - n + 1 \in 1 .. k /\ n + (m - n + 1) - 1 = m
      BY <1>1, <2>2
    <3>2. W[m - n + 1].num = m /\ W[m - n + 1] \in New
      BY <1>1, <3>1
    <3> QED BY <1>9, <3>2
  <2> QED BY <2>1, <2>2
<1> HIDE DEF New
<1>17. /\ \A i \in 1 .. Len(Answer(s)') : Answer(s)'[i].space = s
       /\ \A i, j \in 1 .. Len(Answer(s)') : Answer(s)'[i] = Answer(s)'[j] => i = j
  BY <1>1, <1>5, <1>11
<1>18. PlacePart'
  <2>1. ASSUME NEW t \in Spaces, t # s
        PROVE  /\ Len(stdout'[t]) <= 1
               /\ \A i \in 1 .. Len(Answer(t)') : Answer(t)'[i].space = t
               /\ \A i, j \in 1 .. Len(Answer(t)') : Answer(t)'[i] = Answer(t)'[j] => i = j
               /\ PipedPatches(t)' \cap (QueuedPatches' \cup delivered') = {}
               /\ \A p \in Out(t)' : p.num < numProcessed'[t] /\ p.ast \in known'[t]
               /\ \A p, q \in Out(t)' : p.num = q.num \/ p.ast = q.ast => p = q
               /\ status'[t] = "running" =>
                    \A m \in 0 .. numProcessed'[t] - 1 : \E p \in Out(t)' : p.num = m
    BY <1>3, <1>4, <1>5, <1>6, <1>7, <1>9, <2>1 DEF PlacePart
  <2>2. /\ Len(stdout'[s]) <= 1
        /\ PipedPatches(s)' \cap (QueuedPatches' \cup delivered') = {}
        /\ \A p \in Out(s)' : p.num < numProcessed'[s] /\ p.ast \in known'[s]
        /\ \A m \in 0 .. numProcessed'[s] - 1 : \E p \in Out(s)' : p.num = m
    <3>1. Len(stdout'[s]) <= 1
      BY <1>5
    <3>2. PipedPatches(s)' \cap (QueuedPatches' \cup delivered') = {}
      BY <1>3, <1>6, <1>7, <1>15, Zenon
    <3>3. \A p \in Out(s)' : p.num < numProcessed'[s] /\ p.ast \in known'[s]
      BY <1>3, <1>4, <1>14, Zenon
    <3>4. \A m \in 0 .. numProcessed'[s] - 1 : \E p \in Out(s)' : p.num = m
      <4>1. numProcessed'[s] - 1 = n + k - 1
        BY <1>1, <1>4
      <4> QED BY <1>16, <4>1, Zenon
    <3> QED BY <3>1, <3>2, <3>3, <3>4, Zenon
  <2>3. /\ \A i, j \in 1 .. Len(unconsumed') : unconsumed'[i].payload = unconsumed'[j].payload => i = j
        /\ QueuedPatches' \cap delivered' = {}
    BY <1>3, <1>6 DEF PlacePart
  <2> QED BY <1>13, <1>17, <2>1, <2>2, <2>3 DEF PlacePart
<1> QED BY <1>9, <1>18

(* What was found stays new as long as no patch is written. *)
LEMMA FoundKept ==
  ASSUME FoundPart,
         \A t \in Spaces :
           /\ known[t] \subseteq known'[t]
           /\ found'[t] = <<>> \/ (found'[t] = found[t] /\ Out(t)' = Out(t))
  PROVE  FoundPart'
<1> SUFFICES ASSUME NEW t \in Spaces
             PROVE  /\ \A i, j \in 1 .. Len(found'[t]) : found'[t][i].ast = found'[t][j].ast => i = j
                    /\ \A i \in 1 .. Len(found'[t]) :
                         /\ found'[t][i].ast \in known'[t]
                         /\ \A p \in Out(t)' : p.ast # found'[t][i].ast
  BY Zenon DEF FoundPart
<1>1. CASE found'[t] = <<>>
  <2>1. Len(found'[t]) = 0
    BY <1>1, EmptySeq
  <2>2. 1 .. Len(found'[t]) = {}
    BY <2>1
  <2> QED BY <2>2, Zenon
<1>2. CASE found'[t] = found[t] /\ Out(t)' = Out(t)
  BY <1>2 DEF FoundPart
<1> QED BY <1>1, <1>2

(* A mutant that is found is new to the generator. *)
LEMMA DrawFound ==
  ASSUME TypeOK, RoundInv, PlacePart, FoundPart,
         NEW s \in Spaces, NEW b \in AST, NEW c \in AST, Draw(s, b, c)
  PROVE  PlacePart' /\ FoundPart'
<1>1. /\ UNCHANGED <<delivered, unconsumed, numProcessed, stdout, status>>
      /\ c \notin known[s] /\ known' = [known EXCEPT ![s] = @ \cup {c}]
  BY DEF Draw, addKnownAST, hostVars
<1>2. \A t \in Spaces : known[t] \subseteq known'[t]
  BY <1>1 DEF TypeOK
<1>3. c \in known'[s]
  BY <1>1 DEF TypeOK
<1>4. \A t \in Spaces : Answer(t)' = Answer(t)
  BY <1>1 DEF Answer
<1>5. \A t \in Spaces : Len(stdout'[t]) <= 1
  BY <1>1 DEF PlacePart
<1>6. PlacePart'
  BY <1>1, <1>2, <1>4, <1>5, QuietPlaces
<1>7. \A t \in Spaces : Out(t)' = Out(t)
  BY <1>1, <1>4, SamePlaces
<1>8. CASE UNCHANGED found
  BY <1>2, <1>6, <1>7, <1>8, FoundKept
<1>9. CASE found' = [found EXCEPT ![s] = Append(@, [base |-> b, ast |-> c])]
  <2> DEFINE m == [base |-> b, ast |-> c]
             k == Len(found[s])
  <2>1. found[s] \in Seq(Mutant) /\ m \in Mutant /\ m.ast = c
    BY DEF TypeOK, Mutant
  <2>2. found'[s] = Append(found[s], m) /\ \A t \in Spaces \ {s} : found'[t] = found[t]
    BY <1>9 DEF TypeOK
  <2> HIDE DEF m
  <2>3. /\ k \in Nat /\ Len(found'[s]) = k + 1 /\ found'[s][k + 1] = m
        /\ \A i \in 1 .. k : found'[s][i] = found[s][i]
    BY <2>1, <2>2, AppendProperties, LenProperties
  <2>4. \A p \in Out(s) : p.ast # c
    BY <1>1 DEF PlacePart
  <2>5. \A i \in 1 .. k : found[s][i].ast \in known[s] /\ found[s][i].ast # c
    BY <1>1 DEF FoundPart
  <2> HIDE DEF k
  <2>6. \A i \in 1 .. k + 1 : i \in 1 .. k \/ i = k + 1
    BY <2>3
  <2>7. ASSUME NEW i \in 1 .. k + 1
        PROVE  /\ found'[s][i].ast \in known'[s]
               /\ \A p \in Out(s)' : p.ast # found'[s][i].ast
    <3>1. CASE i \in 1 .. k
      BY <1>2, <1>7, <2>3, <3>1 DEF FoundPart, k
    <3>2. CASE i = k + 1
      BY <1>3, <1>7, <2>1, <2>3, <2>4, <3>2
    <3> QED BY <2>6, <3>1, <3>2
  <2>8. ASSUME NEW i \in 1 .. k + 1, NEW j \in 1 .. k + 1, found'[s][i].ast = found'[s][j].ast
        PROVE  i = j
    <3>1. CASE i \in 1 .. k /\ j \in 1 .. k
      BY <2>3, <2>8, <3>1 DEF FoundPart, k
    <3>2. CASE i = k + 1 /\ j \in 1 .. k
      BY <2>1, <2>3, <2>5, <2>8, <3>2
    <3>3. CASE j = k + 1 /\ i \in 1 .. k
      BY <2>1, <2>3, <2>5, <2>8, <3>3
    <3> QED BY <2>6, <3>1, <3>2, <3>3
  <2>9. ASSUME NEW t \in Spaces, t # s
        PROVE  /\ \A i, j \in 1 .. Len(found'[t]) : found'[t][i].ast = found'[t][j].ast => i = j
               /\ \A i \in 1 .. Len(found'[t]) :
                    /\ found'[t][i].ast \in known'[t]
                    /\ \A p \in Out(t)' : p.ast # found'[t][i].ast
    BY <1>2, <1>7, <2>2, <2>9 DEF FoundPart
  <2>10. FoundPart'
    BY <2>3, <2>7, <2>8, <2>9 DEF FoundPart
  <2> QED BY <1>6, <2>10
<1>10. FoundPart'
  BY <1>8, <1>9 DEF Draw
<1> QED BY <1>6, <1>10

(* Every step keeps every patch in one place. *)
LEMMA PlaceStep ==
  ASSUME TypeOK, RoundInv, HandlerPart, SessionPart, PlacePart, FoundPart, [Next]_vars
  PROVE  PlacePart' /\ FoundPart'
<1>1. CASE ClearSession
  <2>1. delivered' = {} /\ unconsumed' = <<>>
    BY <1>1 DEF ClearSession
  <2>2. \A t \in Spaces : stdout'[t] = <<>> /\ found'[t] = <<>> /\ numProcessed'[t] = 0
    BY <1>1 DEF ClearSession
  <2> QED BY <2>1, <2>2, NothingOnTheWay, Zenon
<1>2. ASSUME NEW s \in Spaces, StartProcess(s)
      PROVE  PlacePart' /\ FoundPart'
  <2>1. /\ hostPc = "starting"
        /\ UNCHANGED <<delivered, unconsumed, stdout, found, numProcessed>>
    BY <1>2 DEF StartProcess
  <2>2. ASSUME NEW t \in Spaces
        PROVE  stdout[t] = <<>> /\ pc[t] = "idle"
    <3>1. Load(t) = 0
      BY <2>1 DEF RoundInv
    <3> QED BY <3>1, Unloaded, Zenon
  <2>3. \A t \in Spaces : found[t] = <<>>
    BY <2>2 DEF HandlerPart
  <2>4. delivered = {} /\ unconsumed = <<>> /\ \A t \in Spaces : numProcessed[t] = 0
    BY <2>1 DEF SessionPart
  <2> QED BY <2>1, <2>2, <2>3, <2>4, NothingOnTheWay
<1>3. CASE HasPatch /\ Deliver
  <2>1. UNCHANGED <<known, found>>
    BY <1>3 DEF Deliver, smVars, genVars
  <2> QED BY <1>3, <2>1, DeliverPlaces, FoundKept
<1>4. CASE /\ UNCHANGED <<delivered, unconsumed, numProcessed, stdout, found>>
           /\ \A t \in Spaces : /\ known[t] \subseteq known'[t]
                                /\ status'[t] = "running" => status[t] = "running"
  <2>1. \A t \in Spaces : Answer(t)' = Answer(t)
    BY <1>4 DEF Answer
  <2>2. \A t \in Spaces : Out(t)' = Out(t)
    BY <1>4, <2>1, SamePlaces
  <2>3. \A t \in Spaces : Len(stdout'[t]) <= 1
    BY <1>4 DEF PlacePart
  <2> QED BY <1>4, <2>1, <2>2, <2>3, QuietPlaces, FoundKept
<1>5. CASE HostStep
  <2>1. CASE DispatchSend \/ Drained \/ FirstCompleted \/ Gathered \/ FinishEmpty
    BY <1>4, <2>1 DEF DispatchSend, Drained, FirstCompleted, Gathered, FinishEmpty, smVars, genVars
  <2>2. ASSUME NEW s \in Spaces, CollectResult(s)
        PROVE  PlacePart' /\ FoundPart'
    <3>1. UNCHANGED <<known, found>>
      BY <2>2 DEF CollectResult, genVars
    <3> QED BY <2>2, <3>1, CollectPlaces, FoundKept
  <2> QED BY <1>1, <1>2, <1>3, <1>5, <2>1, <2>2 DEF HostStep, DispatchQueued, DispatchRaises,
             DispatchEnds, DrainRaises, CollectRaises, FinishWithPatch, Close
<1>6. CASE ConsumerStep
  <2>1. CASE (\E r \in Requests : Ask(r)) \/ CancelStarting
    BY <1>4, <2>1 DEF Ask, CancelStarting, smVars, genVars
  <2> QED BY <1>1, <1>6, <2>1 DEF ConsumerStep, Launch, Cancel, Close
<1>7. CASE UNCHANGED vars \/ \E s \in Spaces : Exit(s)
  <2>1. UNCHANGED <<delivered, unconsumed, numProcessed, stdout, found, known>>
    BY <1>7 DEF vars, hostVars, smVars, genVars, Exit
  <2>2. \A t \in Spaces : status'[t] = "running" => status[t] = "running"
    BY <1>7 DEF vars, smVars, Exit, TypeOK
  <2> QED BY <1>4, <2>1, <2>2
<1>8. ASSUME NEW s \in Spaces, SmStep(s)
      PROVE  PlacePart' /\ FoundPart'
  <2>1. CASE RespondSuccess(s)
    <3>1. PlacePart' /\ \A t \in Spaces \ {s} : Out(t)' = Out(t)
      BY <2>1, RespondPlaces
    <3>2. found'[s] = <<>> /\ known' = known /\ \A t \in Spaces \ {s} : found'[t] = found[t]
      BY <2>1 DEF RespondSuccess, HandlerReturns, TypeOK
    <3> QED BY <3>1, <3>2, FoundKept
  <2>2. CASE RespondExhausted(s)
    <3> DEFINE r == [Result |-> IF outcome[s] = "AllSpaceExhasuted" THEN "AllSpaceExhasuted"
                                                                    ELSE "SpaceExhasutedForAST",
                     patches |-> <<>>]
    <3>1. r \in Response /\ r.patches = <<>>
      BY EmptySeq DEF Response
    <3>2. /\ status[s] = "running" /\ pc[s] = "respond"
          /\ stdout' = [stdout EXCEPT ![s] = Append(@, r)]
          /\ UNCHANGED <<delivered, unconsumed, numProcessed, known, status>>
      BY <2>2 DEF RespondExhausted, hostVars
    <3>3. found'[s] = <<>> /\ \A t \in Spaces \ {s} : found'[t] = found[t]
      BY <2>2 DEF RespondExhausted, HandlerReturns, TypeOK
    <3> HIDE DEF r
    <3>4. /\ Answer(s) = <<>> /\ Answer(s)' = <<>> /\ Len(stdout'[s]) = 1
          /\ \A t \in Spaces \ {s} : stdout'[t] = stdout[t] /\ Answer(t)' = Answer(t)
      BY <3>1, <3>2, RespondMoves
    <3>5. \A t \in Spaces : Answer(t)' = Answer(t)
      BY <3>4
    <3>6. \A t \in Spaces : Len(stdout'[t]) <= 1
      <4>1. Len(stdout'[s]) <= 1
        BY <3>4
      <4>2. \A t \in Spaces \ {s} : Len(stdout'[t]) <= 1
        BY <3>4 DEF PlacePart
      <4> QED BY <4>1, <4>2, Zenon
    <3>7. \A t \in Spaces : Out(t)' = Out(t)
      BY <3>2, <3>5, SamePlaces
    <3>8. PlacePart'
      BY <3>2, <3>5, <3>6, QuietPlaces
    <3>9. FoundPart'
      BY <3>2, <3>3, <3>7, FoundKept
    <3> QED BY <3>8, <3>9
  <2>3. CASE ReadLine(s) \/ RejectLine(s) \/ Terminate(s) \/ NothingToPick(s)
             \/ \E b \in AST : BaseDrained(s, b)
    <3>1. UNCHANGED <<delivered, unconsumed, numProcessed, stdout, found>>
      BY <2>3 DEF ReadLine, RejectLine, Terminate, NothingToPick, BaseDrained, hostVars, genVars
    <3>2. \A t \in Spaces : known[t] \subseteq known'[t]
      <4>1. known' = known \/ \E c : known' = [known EXCEPT ![s] = @ \cup {c}]
        BY <2>3 DEF ReadLine, RejectLine, Terminate, NothingToPick, BaseDrained, addKnownAST, genVars
      <4> QED BY <4>1 DEF TypeOK
    <3>3. \A t \in Spaces : status'[t] = "running" => status[t] = "running"
      BY <2>3 DEF ReadLine, RejectLine, Terminate, NothingToPick, BaseDrained, TypeOK
    <3> QED BY <1>4, <3>1, <3>2, <3>3
  <2> QED BY <1>8, <2>1, <2>2, <2>3, DrawFound DEF SmStep, Handle, Iterate
<1> QED BY <1>5, <1>6, <1>7, <1>8 DEF Next

(* Every patch is in one place, and files and contracts never repeat. *)
LEMMA PlaceCorrect == Spec => [](PlacePart /\ FoundPart)
<1>1. Init => PlacePart /\ FoundPart
  <2> SUFFICES ASSUME Init PROVE PlacePart /\ FoundPart
    OBVIOUS
  <2>1. QueuedPatches = {} /\ delivered = {}
    BY EmptySeq DEF QueuedPatches, Init, EmptySession
  <2>2. \A s \in Spaces : stdout[s] = <<>> /\ Answer(s) = <<>> /\ found[s] = <<>>
    BY DEF Init, EmptySession, Answer
  <2>3. \A s \in Spaces : PipedPatches(s) = {}
    BY <2>2, EmptySeq DEF PipedPatches
  <2>4. \A s \in Spaces : Out(s) = {}
    BY <2>1, <2>3 DEF Out
  <2>5. \A s \in Spaces : Len(stdout[s]) = 0 /\ Len(Answer(s)) = 0 /\ Len(found[s]) = 0
    BY <2>2, EmptySeq
  <2>6. Len(unconsumed) = 0 /\ \A s \in Spaces : status[s] = "none"
    BY EmptySeq DEF Init, EmptySession
  <2> QED BY <2>1, <2>2, <2>3, <2>4, <2>5, <2>6 DEF PlacePart, FoundPart
<1>2. /\ TypeOK /\ RoundInv /\ HandlerPart /\ SessionPart
      /\ PlacePart /\ FoundPart /\ [Next]_vars
      => (PlacePart /\ FoundPart)'
  BY PlaceStep
<1> QED BY <1>1, <1>2, TypeCorrect, RoundCorrect, HandlerCorrect, PTL DEF Spec

---------------------------------------------------------------------------
(* What an answer is for *)

(* A process stays in step when its request moves on, and its answer stays  *)
(* or is read.                                                              *)
LEMMA InStepKept ==
  ASSUME NEW t \in Spaces, InStep(t), request' = request,
         stdin'[t] = stdin[t] \/ stdin'[t] = <<>>,
         pc'[t] # "idle" => job'[t] = request,
         stdout'[t] = stdout[t] \/ stdout'[t] = <<>>
  PROVE  InStep(t)'
<1>1. \A i \in 1 .. Len(stdin'[t]) : stdin'[t][i] = request
  BY EmptySeq DEF InStep
<1>2. CASE stdout'[t] = stdout[t]
  <2>1. Answer(t)' = Answer(t)
    BY <1>2 DEF Answer
  <2> QED BY <1>1, <1>2, <2>1 DEF InStep
<1>3. CASE stdout'[t] = <<>>
  <2>1. Answer(t)' = <<>>
    BY <1>3 DEF Answer
  <2> QED BY <1>1, <1>3, <2>1, EmptySeq DEF InStep
<1> QED BY <1>2, <1>3

(* A process without load is in step with every request. *)
LEMMA UnloadedInStep ==
  ASSUME NEW t \in Spaces, pc'[t] = "idle", stdout'[t] = <<>>,
         \A i \in 1 .. Len(stdin'[t]) : stdin'[t][i] = request'
  PROVE  InStep(t)'
<1>1. Answer(t)' = <<>>
  BY DEF Answer
<1> QED BY <1>1, EmptySeq DEF InStep

(* What was written for a request fits it. *)
LEMMA WrittenFits ==
  ASSUME TypeOK, HandlerPart, NEW s \in Spaces, pc[s] # "idle", job[s] = request
  PROVE  \A i \in 1 .. Len(found[s]) : Promise!Fits(WrittenPatches(s)[i], request)
<1> TAKE i \in 1 .. Len(found[s])
<1>1. WrittenPatches(s)[i].base = found[s][i].base
  BY WrittenFacts
<1>2. request.type \in {"random", "mutate", "crossover-onepoint"}
  BY DEF TypeOK, Requests, Random, Crossover, Mutate
<1>3. request.type # "crossover-onepoint"
  BY DEF HandlerPart
<1>4. request.type = "mutate" => found[s][i].base = request.base
  BY DEF HandlerPart
<1> QED BY <1>1, <1>2, <1>3, <1>4 DEF Promise!Fits

(* The steps of a process keep it in step with the request it is read for. *)
LEMMA FitSm ==
  ASSUME TypeOK, RoundInv, HandlerPart, SessionPart, FitPart, NEW s \in Spaces, SmStep(s)
  PROVE  FitPart'
<1>1. UNCHANGED <<unconsumed, request, readers, results>>
  BY DEF SmStep, Handle, Iterate, ReadLine, RejectLine, RespondExhausted, RespondSuccess,
     Terminate, NothingToPick, BaseDrained, Draw, hostVars
<1>2. QueueFits'
  BY <1>1 DEF FitPart, QueueFits
<1>3. readers \cup results \subseteq Spaces
  BY DEF TypeOK
<1>4. ASSUME NEW t \in readers \cup results, t # s
      PROVE  InStep(t)'
  <2>1. /\ stdin'[t] = stdin[t] /\ stdout'[t] = stdout[t]
        /\ pc'[t] = pc[t] /\ job'[t] = job[t]
    BY <1>3, <1>4 DEF SmStep, Handle, Iterate, ReadLine, RejectLine, RespondExhausted, RespondSuccess,
       HandlerReturns, Terminate, NothingToPick, BaseDrained, Draw, TypeOK
  <2>2. InStep(t) /\ t \in Spaces
    BY <1>3 DEF FitPart
  <2>3. pc'[t] # "idle" => job'[t] = request
    BY <2>1, <2>2 DEF InStep
  <2> QED BY <1>1, <2>1, <2>2, <2>3, InStepKept
<1>5. ASSUME s \in readers \cup results
      PROVE  InStep(s)'
  <2>1. InStep(s)
    BY <1>5 DEF FitPart
  <2>2. CASE ReadLine(s) \/ RejectLine(s)
    <3>1. status[s] = "running" /\ pc[s] = "idle" /\ stdin[s] # <<>>
      BY <2>2 DEF ReadLine, RejectLine
    <3>2. Len(stdin[s]) = 1 /\ stdin[s] \in Seq(Requests)
      BY <3>1, BusyInRound DEF TypeOK
    <3>3. Tail(stdin[s]) = <<>>
      <4>1. Len(stdin[s]) <= 1
        BY <3>2
      <4> QED BY <3>1, <3>2, <4>1, TailOfOne, Zenon
    <3>4. Head(stdin[s]) = request
      <4>1. Head(stdin[s]) = stdin[s][1]
        OBVIOUS
      <4>2. 1 \in 1 .. Len(stdin[s])
        BY <3>2
      <4> QED BY <2>1, <4>1, <4>2 DEF InStep
    <3>5. stdin'[s] = <<>> /\ stdout'[s] = stdout[s]
      BY <2>2, <3>3 DEF ReadLine, RejectLine, TypeOK
    <3>6. pc'[s] # "idle" => job'[s] = request
      BY <2>2, <3>1, <3>4 DEF ReadLine, RejectLine, TypeOK
    <3> QED BY <1>1, <2>1, <3>5, <3>6, InStepKept
  <2>3. CASE Iterate(s)
    <3>1. pc[s] # "idle" /\ UNCHANGED <<stdin, stdout, job>>
      BY <2>3 DEF Iterate, Terminate, NothingToPick, BaseDrained, Draw, Searching
    <3>2. job'[s] = request
      BY <2>1, <3>1 DEF InStep
    <3> QED BY <1>1, <2>1, <3>1, <3>2, InStepKept
  <2>4. CASE RespondExhausted(s) \/ RespondSuccess(s)
    <3>1. status[s] = "running" /\ pc[s] = "respond" /\ pc'[s] = "idle" /\ stdin' = stdin
      BY <2>4 DEF RespondExhausted, RespondSuccess, HandlerReturns, TypeOK
    <3>2. job[s] = request /\ \A i \in 1 .. Len(stdin[s]) : stdin[s][i] = request
      BY <2>1, <3>1 DEF InStep
    <3>3. request.type # "crossover-onepoint"
      BY <3>1, <3>2 DEF HandlerPart
    <3>4. \A i \in 1 .. Len(Answer(s)') : Promise!Fits(Answer(s)'[i], request)
      <4>1. CASE RespondExhausted(s)
        <5> DEFINE r == [Result |-> IF outcome[s] = "AllSpaceExhasuted" THEN "AllSpaceExhasuted"
                                                                        ELSE "SpaceExhasutedForAST",
                         patches |-> <<>>]
        <5>1. r \in Response /\ r.patches = <<>>
          BY EmptySeq DEF Response
        <5>2. stdout' = [stdout EXCEPT ![s] = Append(@, r)]
          BY <4>1 DEF RespondExhausted
        <5> HIDE DEF r
        <5>3. Answer(s)' = <<>>
          BY <3>1, <5>1, <5>2, RespondMoves
        <5> QED BY <5>3, EmptySeq
      <4>2. CASE RespondSuccess(s)
        <5> DEFINE r == [Result |-> "Success", patches |-> WrittenPatches(s)]
        <5>1. r \in Response /\ r.patches = WrittenPatches(s)
          BY WrittenFacts DEF Response
        <5>2. stdout' = [stdout EXCEPT ![s] = Append(@, r)]
          BY <4>2 DEF RespondSuccess
        <5> HIDE DEF r
        <5>3. Answer(s)' = WrittenPatches(s)
          BY <3>1, <5>1, <5>2, RespondMoves
        <5>4. Len(WrittenPatches(s)) = Len(found[s])
          BY WrittenFacts
        <5>5. \A i \in 1 .. Len(found[s]) : Promise!Fits(WrittenPatches(s)[i], request)
          BY <3>1, <3>2, WrittenFits
        <5> QED BY <5>3, <5>4, <5>5, Zenon
      <4> QED BY <2>4, <4>1, <4>2
    <3> QED BY <1>1, <3>1, <3>2, <3>3, <3>4 DEF InStep
  <2> QED BY <2>2, <2>3, <2>4 DEF SmStep, Handle
<1> QED BY <1>1, <1>2, <1>4, <1>5 DEF FitPart

(* A step of the host that leaves the processes alone. *)
LEMMA FitQuiet ==
  ASSUME TypeOK, FitPart, request' = request, QueueFits',
         readers' \cup results' \subseteq readers \cup results,
         UNCHANGED <<stdin, stdout, pc, job>>
  PROVE  FitPart'
<1> SUFFICES ASSUME NEW t \in readers' \cup results' PROVE InStep(t)'
  BY DEF FitPart
<1>1. InStep(t) /\ t \in Spaces
  BY DEF FitPart, TypeOK
<1>2. pc'[t] # "idle" => job'[t] = request
  BY <1>1 DEF InStep
<1> QED BY <1>1, <1>2, InStepKept

(* What is queued fits, whichever patch is taken out. *)
LEMMA DeliverFits ==
  ASSUME TypeOK, FitPart, HasPatch, Deliver
  PROVE  QueueFits'
<1>1. /\ FirstPatch \in 1 .. Len(unconsumed) /\ Len(unconsumed) \in Nat
      /\ unconsumed \in Seq(Entry)
  BY FirstPatchIndex, LenProperties DEF TypeOK
<1>2. unconsumed' = RemoveAt(unconsumed, FirstPatch)
  BY DEF Deliver
<1>3. /\ Len(unconsumed') = Len(unconsumed) - 1
      /\ \A j \in 1 .. Len(unconsumed) - 1 :
           unconsumed'[j] = IF j < FirstPatch THEN unconsumed[j] ELSE unconsumed[j + 1]
  <2>1. WithoutAt(Entry, unconsumed, FirstPatch, unconsumed')
    BY <1>1, <1>2, RemoveAtElements
  <2> QED BY <2>1, Zenon DEF WithoutAt
<1> SUFFICES ASSUME NEW j \in 1 .. Len(unconsumed) - 1
             PROVE  Promise!Fits(unconsumed'[j].payload, unconsumed'[j].json)
  BY <1>3, Zenon DEF QueueFits
<1>4. \E m \in 1 .. Len(unconsumed) : unconsumed'[j] = unconsumed[m]
  <2>1. j \in 1 .. Len(unconsumed) /\ j + 1 \in 1 .. Len(unconsumed)
    BY <1>1
  <2> QED BY <1>3, <2>1
<1> QED BY <1>4 DEF FitPart, QueueFits

(* A collected answer is queued for the request it was made for. *)
LEMMA CollectFits ==
  ASSUME TypeOK, PlacePart, FitPart, NEW s \in Spaces, CollectResult(s)
  PROVE  FitPart'
<1> DEFINE n == Len(unconsumed)
           k == Len(Answer(s))
<1>1. n \in Nat /\ k \in Nat
  BY AnswerType, LenProperties DEF TypeOK
<1>2. /\ Len(unconsumed') = n + k
      /\ \A i \in 1 .. n : unconsumed'[i] = unconsumed[i]
      /\ \A i \in 1 .. k : unconsumed'[n + i] = [payload |-> Answer(s)[i], json |-> request]
  BY CollectMoves
<1>3. /\ hostPc = "collect" /\ s \in results /\ results' = results \ {s}
      /\ UNCHANGED <<request, readers, stdin, pc, job>>
  BY DEF CollectResult, IsNextResult
<1>4. \A i \in 1 .. k : Promise!Fits(Answer(s)[i], request)
  BY <1>3 DEF FitPart, InStep
<1> HIDE DEF n, k
<1>5. QueueFits'
  <2> SUFFICES ASSUME NEW j \in 1 .. n + k
               PROVE  Promise!Fits(unconsumed'[j].payload, unconsumed'[j].json)
    BY <1>2, Zenon DEF QueueFits
  <2>1. CASE j \in 1 .. n
    BY <1>2, <2>1 DEF FitPart, QueueFits, n
  <2>2. CASE j \notin 1 .. n
    <3>1. j - n \in 1 .. k /\ n + (j - n) = j
      BY <1>1, <2>2
    <3>2. unconsumed'[j] = [payload |-> Answer(s)[j - n], json |-> request]
      BY <1>2, <3>1
    <3>3. unconsumed'[j].payload = Answer(s)[j - n] /\ unconsumed'[j].json = request
      BY <3>2
    <3> QED BY <1>4, <3>1, <3>3, Zenon
  <2> QED BY <2>1, <2>2
<1>6. \A t \in Spaces : stdout'[t] = stdout[t] \/ stdout'[t] = <<>>
  BY CollectMoves
<1>7. ASSUME NEW t \in readers' \cup results'
      PROVE  InStep(t)'
  <2>1. InStep(t) /\ t \in Spaces
    BY <1>3 DEF FitPart, TypeOK
  <2>2. pc'[t] # "idle" => job'[t] = request
    BY <1>3, <2>1 DEF InStep
  <2> QED BY <1>3, <1>6, <2>1, <2>2, InStepKept
<1> QED BY <1>5, <1>7 DEF FitPart

(* With nothing queued and nobody read there is nothing to fit. *)
LEMMA FitEmpty ==
  ASSUME unconsumed' = <<>>, readers' = {}, results' = {}
  PROVE  FitPart'
<1>1. QueueFits'
  BY EmptySeq DEF QueueFits
<1> QED BY <1>1 DEF FitPart

(* Every step keeps every answer with its request. *)
LEMMA FitStep ==
  ASSUME TypeOK, RoundInv, HandlerPart, SessionPart, PlacePart, FitPart, [Next]_vars
  PROVE  FitPart'
<1>1. CASE ClearSession
  BY <1>1, FitEmpty DEF ClearSession
<1>2. UNCHANGED unconsumed => QueueFits'
  BY DEF FitPart, QueueFits
<1>3. ASSUME NEW s \in Spaces, StartProcess(s) PROVE FitPart'
  <2>1. UNCHANGED <<unconsumed, request, readers, results, stdin, stdout, pc, job>>
    BY <1>3 DEF StartProcess
  <2> QED BY <1>2, <2>1, FitQuiet
<1>4. CASE DispatchSend
  <2>1. /\ hostPc = "dispatch" /\ readers' = Running /\ results' = results
        /\ UNCHANGED <<unconsumed, request, stdout, pc>>
    BY <1>4 DEF DispatchSend
  <2>2. results = {}
    BY <2>1 DEF SessionPart
  <2>3. ASSUME NEW t \in Running PROVE InStep(t)'
    <3>1. t \in Spaces /\ Load(t) = 0
      BY <2>1 DEF RoundInv, Running
    <3>2. pc[t] = "idle" /\ stdin[t] = <<>> /\ stdout[t] = <<>>
      BY <3>1, Unloaded, Zenon
    <3>3. stdin'[t] = Append(<<>>, request)
      BY <1>4, <3>1, <3>2 DEF DispatchSend
    <3>4. Append(<<>>, request) = <<request>>
      OBVIOUS
    <3>5. \A i \in 1 .. Len(<<request>>) : <<request>>[i] = request
      OBVIOUS
    <3>6. \A i \in 1 .. Len(stdin'[t]) : stdin'[t][i] = request'
      BY <2>1, <3>3, <3>4, <3>5, Zenon
    <3> QED BY <2>1, <3>1, <3>2, <3>6, UnloadedInStep
  <2> QED BY <1>2, <2>1, <2>2, <2>3 DEF FitPart
<1>5. CASE Drained
  <2>1. /\ readers' = Running /\ hostPc = "drain"
        /\ UNCHANGED <<unconsumed, request, results, stdin, stdout, pc, job>>
    BY <1>5 DEF Drained, smVars
  <2>2. Running \subseteq readers
    BY <2>1 DEF RoundInv
  <2> QED BY <1>2, <2>1, <2>2, FitQuiet
<1>6. CASE FirstCompleted \/ Gathered \/ FinishEmpty \/ CancelStarting
  <2>1. /\ readers' \cup results' \subseteq readers \cup results
        /\ UNCHANGED <<unconsumed, request, stdin, stdout, pc, job>>
    BY <1>6 DEF FirstCompleted, Gathered, FinishEmpty, CancelStarting, smVars
  <2> QED BY <1>2, <2>1, FitQuiet
<1>7. CASE \E r \in Requests : Ask(r)
  <2>1. readers' = {} /\ results' = {} /\ UNCHANGED unconsumed
    BY <1>7 DEF Ask, SessionPart
  <2> QED BY <1>2, <2>1 DEF FitPart
<1>8. CASE UNCHANGED vars \/ \E s \in Spaces : Exit(s)
  <2>1. UNCHANGED <<unconsumed, request, readers, results, stdin, stdout, pc, job>>
    BY <1>8 DEF vars, hostVars, smVars, Exit
  <2> QED BY <1>2, <2>1, FitQuiet
<1>9. CASE HasPatch /\ Deliver
  <2>1. UNCHANGED <<request, readers, results, stdin, stdout, pc, job>>
    BY <1>9 DEF Deliver, smVars
  <2> QED BY <1>9, <2>1, DeliverFits, FitQuiet
<1>10. CASE HostStep \/ ConsumerStep
  BY <1>1, <1>3, <1>4, <1>5, <1>6, <1>7, <1>9, <1>10, CollectFits
  DEF HostStep, ConsumerStep, DispatchQueued, DispatchRaises, DispatchEnds, DrainRaises,
      CollectRaises, FinishWithPatch, Launch, Cancel, Close
<1> QED BY <1>8, <1>10, FitSm DEF Next

---------------------------------------------------------------------------
(* What an answer says *)

(* What is left to be read stays useful when nothing of it is lost. *)
LEMMA UsefulKept ==
  ASSUME UsefulPart, request' = request,
         readers' \ aborted' \subseteq readers \ aborted,
         \A t \in readers' \ aborted' : request.type # "mutate" /\ ReaderUseful(t) => ReaderUseful(t)',
         hostPc' = "collect" => hostPc = "collect" /\ (RoundUseful => RoundUseful')
  PROVE  UsefulPart'
  BY Zenon DEF UsefulPart

(* With nobody read, and outside of a round, nothing is expected. *)
LEMMA UsefulEmpty ==
  ASSUME readers' = {}, hostPc' # "collect"
  PROVE  UsefulPart'
  BY DEF UsefulPart

(* A step that changes none of the processes read keeps them useful. *)
LEMMA ReaderSame ==
  ASSUME NEW t, pc'[t] = "respond" => pc[t] = "respond", stdout'[t] = stdout[t],
         UNCHANGED <<found, outcome>>, ReaderUseful(t)
  PROVE  ReaderUseful(t)'
  BY DEF ReaderUseful

(* An answer that has a patch, or says that the space is exhausted, leaves  *)
(* a patch to yield or a reason to ask again.                               *)
LEMMA CollectUseful ==
  ASSUME TypeOK, PlacePart, NEW s \in Spaces, CollectResult(s), RoundUseful
  PROVE  RoundUseful'
<1>1. /\ hostPc = "collect" /\ s \in results /\ results' = results \ {s} /\ stdout[s] # <<>>
      /\ request' = request /\ gotHax' = (gotHax \/ Head(stdout[s]).Result = "AllSpaceExhasuted")
  BY DEF CollectResult, IsNextResult
<1>2. Len(unconsumed) \in Nat /\ Len(Answer(s)) \in Nat /\ Answer(s) \in Seq(Patch)
  BY AnswerType, LenProperties DEF TypeOK
<1>3. Len(unconsumed') = Len(unconsumed) + Len(Answer(s))
  BY CollectMoves
<1>4. HasPatch => HasPatch'
  <2> SUFFICES ASSUME NEW i \in 1 .. Len(unconsumed), unconsumed[i].json = request
               PROVE  HasPatch'
    BY DEF HasPatch
  <2>1. unconsumed'[i] = unconsumed[i]
    BY CollectMoves
  <2>2. i \in 1 .. Len(unconsumed')
    BY <1>2, <1>3
  <2> QED BY <1>1, <2>1, <2>2 DEF HasPatch
<1>5. Answer(s) # <<>> => HasPatch'
  <2> SUFFICES ASSUME Answer(s) # <<>> PROVE HasPatch'
    OBVIOUS
  <2>1. 1 \in 1 .. Len(Answer(s))
    BY <1>2, EmptySeq
  <2>2. unconsumed'[Len(unconsumed) + 1] = [payload |-> Answer(s)[1], json |-> request]
    BY <2>1, CollectMoves
  <2>3. unconsumed'[Len(unconsumed) + 1].json = request'
    BY <1>1, <2>2
  <2>4. Len(unconsumed) + 1 \in 1 .. Len(unconsumed')
    BY <1>2, <1>3, <2>1
  <2> QED BY <2>3, <2>4 DEF HasPatch
<1>6. CASE gotHax \/ HasPatch
  BY <1>1, <1>4, <1>6 DEF RoundUseful
<1>7. ASSUME NEW t \in results, stdout[t] = <<>> \/ IsUseful(Head(stdout[t]))
      PROVE  RoundUseful'
  <2>1. CASE t = s
    <3>1. Head(stdout[s]).Result = "AllSpaceExhasuted" \/ Answer(s) # <<>>
      BY <1>1, <1>7, <2>1 DEF IsUseful, Answer
    <3> QED BY <1>1, <1>5, <3>1 DEF RoundUseful
  <2>2. CASE t # s
    <3>1. t \in results' /\ stdout'[t] = stdout[t]
      BY <1>1, <2>2, CollectMoves DEF TypeOK
    <3> QED BY <1>7, <3>1 DEF RoundUseful, IsUseful
  <2> QED BY <2>1, <2>2
<1> QED BY <1>6, <1>7 DEF RoundUseful

(* An answer that is not cut short is useful. *)
LEMMA RespondUseful ==
  ASSUME TypeOK, RoundInv, HandlerPart, FitPart, NEW s \in readers, s \in Spaces,
         RespondExhausted(s) \/ RespondSuccess(s), request.type # "mutate", ReaderUseful(s)
  PROVE  ReaderUseful(s)'
<1>1. status[s] = "running" /\ pc[s] = "respond" /\ pc'[s] = "idle"
  BY DEF RespondExhausted, RespondSuccess, HandlerReturns, TypeOK
<1>2. job[s] = request /\ (found[s] # <<>> \/ outcome[s] = "AllSpaceExhasuted")
  BY <1>1 DEF FitPart, InStep, ReaderUseful
<1>3. CASE RespondExhausted(s)
  <2> DEFINE r == [Result |-> IF outcome[s] = "AllSpaceExhasuted" THEN "AllSpaceExhasuted"
                                                                  ELSE "SpaceExhasutedForAST",
                   patches |-> <<>>]
  <2>1. outcome[s] = "AllSpaceExhasuted"
    BY <1>2, <1>3 DEF RespondExhausted
  <2>2. r \in Response /\ r.Result = "AllSpaceExhasuted"
    BY <2>1, EmptySeq DEF Response
  <2>3. stdout' = [stdout EXCEPT ![s] = Append(@, r)]
    BY <1>3 DEF RespondExhausted
  <2> HIDE DEF r
  <2>4. Head(stdout'[s]) = r
    BY <1>1, <2>2, <2>3, RespondMoves
  <2> QED BY <1>1, <2>2, <2>4 DEF ReaderUseful, IsUseful
<1>4. CASE RespondSuccess(s)
  <2> DEFINE r == [Result |-> "Success", patches |-> WrittenPatches(s)]
  <2>1. found[s] # <<>> /\ found[s] \in Seq(Mutant)
    BY <1>2, <1>4 DEF RespondSuccess, TypeOK
  <2>2. /\ WrittenPatches(s) \in Seq(Patch) /\ Len(WrittenPatches(s)) = Len(found[s])
    BY WrittenFacts
  <2>3. WrittenPatches(s) # <<>>
    BY <2>1, <2>2, EmptySeq
  <2>4. r \in Response /\ r.patches # <<>>
    BY <2>2, <2>3 DEF Response
  <2>5. stdout' = [stdout EXCEPT ![s] = Append(@, r)]
    BY <1>4 DEF RespondSuccess
  <2> HIDE DEF r
  <2>6. Head(stdout'[s]) = r
    BY <1>1, <2>4, <2>5, RespondMoves
  <2> QED BY <1>1, <2>4, <2>6 DEF ReaderUseful, IsUseful
<1> QED BY <1>3, <1>4

(* The steps of the processes keep their answers useful. *)
LEMMA UsefulSm ==
  ASSUME TypeOK, RoundInv, HandlerPart, FitPart, UsefulPart, NEW s \in Spaces, SmStep(s)
  PROVE  UsefulPart'
<1>1. UNCHANGED <<hostPc, request, readers, results, gotHax, unconsumed>>
  BY DEF SmStep, Handle, Iterate, ReadLine, RejectLine, RespondExhausted, RespondSuccess,
     Terminate, NothingToPick, BaseDrained, Draw, hostVars
<1>2. readers \subseteq Spaces
  BY DEF TypeOK
<1>3. aborted \subseteq aborted'
  BY DEF SmStep, Handle, Iterate, ReadLine, RejectLine, RespondExhausted, RespondSuccess,
     Terminate, NothingToPick, BaseDrained, Draw
<1>4. ASSUME hostPc' = "collect"
      PROVE  RoundUseful => RoundUseful'
  <2>1. hostPc = "collect"
    BY <1>1, <1>4
  <2>2. ~(status[s] = "running" /\ pc[s] # "idle")
    BY <2>1, BusyInRound
  <2>3. ReadLine(s) \/ RejectLine(s)
    BY <2>2 DEF SmStep, Handle, Iterate, RespondExhausted, RespondSuccess,
       Terminate, NothingToPick, BaseDrained, Draw, Searching
  <2>4. stdout' = stdout
    BY <2>3 DEF ReadLine, RejectLine
  <2> QED BY <1>1, <2>4 DEF RoundUseful, HasPatch
<1>5. ASSUME NEW t \in readers \ aborted', t # s, ReaderUseful(t)
      PROVE  ReaderUseful(t)'
  <2>1. /\ stdout'[t] = stdout[t] /\ pc'[t] = pc[t]
        /\ found'[t] = found[t] /\ outcome'[t] = outcome[t]
    BY <1>2, <1>5 DEF SmStep, Handle, Iterate, ReadLine, RejectLine, RespondExhausted, RespondSuccess,
       HandlerReturns, Terminate, NothingToPick, BaseDrained, Draw, genVars, TypeOK
  <2> QED BY <1>5, <2>1 DEF ReaderUseful
<1>6. ASSUME s \in readers \ aborted', request.type # "mutate", ReaderUseful(s)
      PROVE  ReaderUseful(s)'
  <2>1. pc[s] # "idle" => job[s].type = "random"
    <3>1. pc[s] # "idle" => job[s] = request
      BY <1>6 DEF FitPart, InStep
    <3>2. request.type \in {"random", "mutate", "crossover-onepoint"}
      BY DEF TypeOK, Requests, Random, Crossover, Mutate
    <3> QED BY <1>6, <3>1, <3>2 DEF HandlerPart
  <2>2. CASE ReadLine(s) \/ RejectLine(s)
    <3>1. stdout' = stdout /\ UNCHANGED <<found, outcome>> /\ pc'[s] # "respond"
      BY <2>2 DEF ReadLine, RejectLine, genVars, TypeOK
    <3> QED BY <1>6, <3>1, ReaderSame
  <2>3. CASE RespondExhausted(s) \/ RespondSuccess(s)
    BY <1>6, <2>3, RespondUseful
  <2>4. CASE Terminate(s)
    BY <1>6, <2>4 DEF Terminate
  <2>5. CASE NothingToPick(s)
    <3>1. stdout' = stdout /\ outcome'[s] = "AllSpaceExhasuted"
      BY <2>1, <2>5 DEF NothingToPick, Searching, TypeOK
    <3> QED BY <1>6, <3>1 DEF ReaderUseful
  <2>6. CASE \E b \in AST : BaseDrained(s, b)
    <3>1. stdout' = stdout /\ UNCHANGED <<found, outcome, pc>>
      BY <2>1, <2>6 DEF BaseDrained, Searching
    <3> QED BY <1>6, <3>1, ReaderSame
  <2>7. ASSUME NEW b \in AST, NEW c \in AST, Draw(s, b, c)
        PROVE  ReaderUseful(s)'
    <3>1. stdout' = stdout /\ outcome' = outcome
      BY <2>7 DEF Draw
    <3>2. CASE UNCHANGED <<found, pc>>
      BY <1>6, <3>1, <3>2, ReaderSame
    <3>3. CASE found' = [found EXCEPT ![s] = Append(@, [base |-> b, ast |-> c])]
      <4>1. found[s] \in Seq(Mutant) /\ [base |-> b, ast |-> c] \in Mutant
        BY DEF TypeOK, Mutant
      <4>2. found'[s] = Append(found[s], [base |-> b, ast |-> c])
        BY <3>3 DEF TypeOK
      <4>3. found'[s] # <<>>
        BY <4>1, <4>2, AppendProperties
      <4> QED BY <1>6, <3>1, <4>3 DEF ReaderUseful
    <3> QED BY <2>7, <3>2, <3>3 DEF Draw
  <2> QED BY <2>2, <2>3, <2>4, <2>5, <2>6, <2>7 DEF SmStep, Handle, Iterate
<1>7. \A t \in readers' \ aborted' :
         request.type # "mutate" /\ ReaderUseful(t) => ReaderUseful(t)'
  BY <1>1, <1>5, <1>6
<1> QED BY <1>1, <1>3, <1>4, <1>7, UsefulKept

(* Every step keeps the answers useful. *)
LEMMA UsefulStep ==
  ASSUME TypeOK, RoundInv, HandlerPart, SessionPart, PlacePart, FitPart, UsefulPart, [Next]_vars
  PROVE  UsefulPart'
<1>1. CASE ClearSession /\ hostPc' # "collect"
  BY <1>1, UsefulEmpty DEF ClearSession
<1>2. ASSUME NEW s \in Spaces, StartProcess(s) PROVE UsefulPart'
  BY <1>2, UsefulEmpty DEF StartProcess, SessionPart
<1>3. CASE (\E r \in Requests : Ask(r)) \/ CancelStarting
  BY <1>3, UsefulEmpty DEF Ask, CancelStarting, SessionPart
<1>4. CASE /\ UNCHANGED <<request, stdout, pc, found, outcome, aborted>>
           /\ readers' \subseteq readers /\ hostPc' # "collect"
  <2>1. \A t \in readers' \ aborted' : ReaderUseful(t) => ReaderUseful(t)'
    BY <1>4, ReaderSame
  <2>2. readers' \ aborted' \subseteq readers \ aborted
    BY <1>4
  <2> QED BY <1>4, <2>1, <2>2, UsefulKept
<1>5. CASE DispatchQueued \/ FinishWithPatch \/ FinishEmpty \/ FirstCompleted
  BY <1>4, <1>5 DEF DispatchQueued, FinishWithPatch, Deliver, FinishEmpty, FirstCompleted,
     smVars, genVars
<1>6. CASE DispatchSend
  <2>1. hostPc = "dispatch" /\ readers' = Running /\ hostPc' = "drain" /\ UNCHANGED <<stdout, pc>>
    BY <1>6 DEF DispatchSend
  <2>2. ASSUME NEW t \in Running PROVE ReaderUseful(t)'
    <3>1. t \in Spaces /\ Load(t) = 0
      BY <2>1 DEF RoundInv, Running
    <3>2. pc[t] = "idle" /\ stdout[t] = <<>>
      BY <3>1, Unloaded, Zenon
    <3> QED BY <2>1, <3>2 DEF ReaderUseful
  <2> QED BY <2>1, <2>2 DEF UsefulPart
<1>7. CASE Drained
  <2>1. Running \subseteq readers
    BY <1>7 DEF Drained, RoundInv
  <2> QED BY <1>4, <1>7, <2>1 DEF Drained, smVars, genVars
<1>8. CASE Gathered
  <2>1. /\ hostPc = "gather" /\ readers' = {} /\ results' = readers
        /\ UNCHANGED <<request, stdout>>
    BY <1>8 DEF Gathered, smVars
  <2>2. PICK s \in readers \ aborted : Answered(s)
    BY <2>1 DEF RoundInv
  <2>3. ASSUME request.type # "mutate" PROVE RoundUseful'
    <3>1. stdout[s] = <<>> \/ IsUseful(Head(stdout[s]))
      BY <2>2, <2>3 DEF UsefulPart, ReaderUseful
    <3> QED BY <2>1, <2>2, <3>1 DEF RoundUseful, IsUseful
  <2> QED BY <2>1, <2>3 DEF UsefulPart
<1>9. ASSUME NEW s \in Spaces, CollectResult(s) PROVE UsefulPart'
  <2>1. hostPc = "collect" /\ UNCHANGED <<hostPc, request, readers>>
    BY <1>9 DEF CollectResult
  <2>2. readers' = {}
    BY <2>1 DEF SessionPart
  <2>3. RoundUseful => RoundUseful'
    BY <1>9, CollectUseful
  <2> QED BY <2>1, <2>2, <2>3 DEF UsefulPart
<1>10. CASE UNCHANGED vars \/ \E s \in Spaces : Exit(s)
  <2>1. UNCHANGED <<hostVars, stdout, pc, found, outcome, aborted>>
    BY <1>10 DEF vars, smVars, genVars, Exit
  <2>2. UNCHANGED <<hostPc, request, readers, results, gotHax, unconsumed>>
    BY <2>1 DEF hostVars
  <2>3. \A t \in readers' \ aborted' : ReaderUseful(t) => ReaderUseful(t)'
    BY <2>1, ReaderSame
  <2>4. RoundUseful => RoundUseful'
    BY <2>1, <2>2 DEF RoundUseful, HasPatch
  <2> QED BY <2>1, <2>2, <2>3, <2>4, UsefulKept
<1>11. CASE HostStep
  BY <1>1, <1>2, <1>5, <1>6, <1>7, <1>8, <1>9, <1>11
  DEF HostStep, DispatchRaises, DispatchEnds, DrainRaises, CollectRaises, Close
<1>12. CASE ConsumerStep
  BY <1>1, <1>3, <1>12 DEF ConsumerStep, Launch, Cancel, Close
<1> QED BY <1>10, <1>11, <1>12, UsefulSm DEF Next

---------------------------------------------------------------------------
(* The promises *)

(* Every patch between a process and the consumer is where it should be,    *)
(* once, and for the request it was made for: the inductive invariant.      *)
THEOREM DeliveryCorrect == Spec => []DeliveryInv
<1>1. Init => FitPart /\ UsefulPart
  BY EmptySeq DEF Init, EmptySession, FitPart, QueueFits, UsefulPart
<1>2. /\ TypeOK /\ RoundInv /\ HandlerPart /\ SessionPart /\ PlacePart
      /\ FitPart /\ UsefulPart /\ [Next]_vars
      => (FitPart /\ UsefulPart)'
  BY FitStep, UsefulStep
<1>3. HandlerPart /\ SessionPart /\ PlacePart /\ FoundPart /\ FitPart /\ UsefulPart => DeliveryInv
  BY DEF DeliveryInv
<1> QED BY <1>1, <1>2, <1>3, TypeCorrect, RoundCorrect, HandlerCorrect, PlaceCorrect, PTL DEF Spec

(* A process never yields the same contract twice in a session. *)
THEOREM IdenticalCorrect == Spec => []NoIdenticalPatches
<1>1. TypeOK /\ PlacePart => NoIdenticalPatches
  <2> SUFFICES ASSUME TypeOK, PlacePart, NEW p \in delivered, NEW q \in delivered,
                      p.space = q.space, p.ast = q.ast
               PROVE  p = q
    BY DEF NoIdenticalPatches
  <2>1. p.space \in Spaces
    BY DEF TypeOK, Patch
  <2>2. p \in Out(p.space) /\ q \in Out(p.space)
    BY DEF Out
  <2> QED BY <2>1, <2>2 DEF PlacePart
<1> QED BY <1>1, TypeCorrect, PlaceCorrect, PTL

(* CR.py's first, random, request is never answered by nothing. *)
THEOREM RandomCorrect == Spec => []RandomNeverEmpty
<1>1. Init => RandomNeverEmpty
  BY DEF Init, RandomNeverEmpty
<1>2. TypeOK /\ UsefulPart /\ RandomNeverEmpty /\ [Next]_vars => RandomNeverEmpty'
  <2> SUFFICES ASSUME TypeOK, UsefulPart, RandomNeverEmpty, [Next]_vars,
                      hostPc' = "ready", reply' = <<>>
               PROVE  request'.type = "mutate"
    BY DEF RandomNeverEmpty
  <2>1. CASE Deliver
    BY <2>1 DEF Deliver
  <2>2. CASE FinishEmpty
    <3>1. /\ hostPc = "collect" /\ results = {} /\ ~HasPatch /\ ~gotHax /\ request' = request
      BY <2>2 DEF FinishEmpty
    <3>2. ~RoundUseful
      BY <3>1 DEF RoundUseful
    <3> QED BY <3>1, <3>2 DEF UsefulPart
  <2>3. CASE HostStep \/ ConsumerStep
    BY <2>1, <2>2, <2>3 DEF HostStep, StartProcess, DispatchQueued, DispatchRaises,
       DispatchEnds, DispatchSend, Drained, DrainRaises, FirstCompleted, Gathered, CollectResult,
       CollectRaises, FinishWithPatch, Close, ConsumerStep, Ask, Launch, Cancel, CancelStarting
  <2>4. CASE UNCHANGED hostVars
    BY <2>4 DEF hostVars, RandomNeverEmpty
  <2>5. CASE UNCHANGED vars \/ \E s \in Spaces : SmStep(s) \/ Exit(s)
    <3>1. UNCHANGED hostVars
      BY <2>5 DEF vars, SmStep, Handle, Iterate, ReadLine, RejectLine, RespondExhausted,
         RespondSuccess, Terminate, NothingToPick, BaseDrained, Draw, Exit
    <3> QED BY <2>4, <3>1
  <2> QED BY <2>3, <2>5 DEF Next
<1>3. DeliveryInv => UsefulPart
  BY DEF DeliveryInv
<1> QED BY <1>1, <1>2, <1>3, TypeCorrect, DeliveryCorrect, PTL DEF Spec

(* What a pipe with one line holds. *)
LEMMA SetOfOne ==
  ASSUME NEW S, NEW q \in Seq(S), q # <<>>, Len(q) <= 1
  PROVE  ToSet(q) = {Head(q)}
<1>1. Len(q) \in Nat /\ Len(q) # 0
  BY EmptySeq, LenProperties
<1>2. DOMAIN q = 1 .. 1
  BY <1>1
<1>3. DOMAIN q = {1} /\ q[1] = Head(q)
  BY <1>2
<1> QED BY <1>3 DEF ToSet

(* The files on a pipe are those of its only answer. *)
LEMMA PipedPaths ==
  ASSUME TypeOK, PlacePart, NEW s \in Spaces
  PROVE  Piped(s) = {PathOf(p) : p \in PipedPatches(s)}
<1>1. stdout[s] \in Seq(Response) /\ Len(stdout[s]) \in Nat /\ Len(stdout[s]) <= 1
  BY LenProperties DEF TypeOK, PlacePart
<1>2. Answer(s) \in Seq(Patch) /\ Len(Answer(s)) \in Nat
  BY AnswerType
<1>3. CASE stdout[s] = <<>>
  <2>1. PipedPatches(s) = {}
    BY <1>3, EmptySeq DEF PipedPatches, Answer
  <2>2. ToSet(stdout[s]) = {}
    BY <1>3 DEF ToSet
  <2> QED BY <2>1, <2>2 DEF Piped
<1>4. CASE stdout[s] # <<>>
  <2>3. ToSet(stdout[s]) = {Head(stdout[s])}
    BY <1>1, <1>4, SetOfOne, Zenon
  <2>4. Head(stdout[s]).patches = Answer(s)
    BY <1>4 DEF Answer
  <2>5. DOMAIN Answer(s) = 1 .. Len(Answer(s))
    BY <1>2
  <2>6. ToSet(Answer(s)) = PipedPatches(s)
    BY <2>5, Zenon DEF ToSet, PipedPatches
  <2>7. Piped(s) = UNION {{PathOf(p) : p \in PipedPatches(s)}}
    <3>1. Piped(s) = UNION {{PathOf(p) : p \in ToSet(r.patches)} : r \in {Head(stdout[s])}}
      BY <2>3, Zenon DEF Piped
    <3> QED BY <2>4, <2>6, <3>1
  <2> QED BY <2>7
<1> QED BY <1>3, <1>4

(* A file names the patch written to it, wherever the patch is. *)
LEMMA PathNamesPatch ==
  ASSUME TypeOK, PlacePart, NEW s \in Spaces, NEW p \in Patch, NEW q \in Patch,
         p \in delivered \cup QueuedPatches \cup PipedPatches(s),
         q \in delivered \cup QueuedPatches \cup PipedPatches(s),
         p.space = s, PathOf(p) = PathOf(q)
  PROVE  p = q
<1>1. q.space = s /\ p.num = q.num
  BY DEF PathOf
<1>2. p \in Out(s) /\ q \in Out(s)
  BY <1>1 DEF Out
<1> QED BY <1>1, <1>2 DEF PlacePart

(* Every patch file a live process has written is on its pipe, queued once  *)
(* or given, and in one of these places only.                               *)
THEOREM ConservedCorrect == Spec => []PatchesConserved
<1>1. TypeOK /\ PlacePart => PatchesConserved
  <2> SUFFICES ASSUME TypeOK, PlacePart PROVE PatchesConserved
    OBVIOUS
  <2>1. QueuedPatches \subseteq Patch /\ delivered \subseteq Patch
    <3>1. \A i \in 1 .. Len(unconsumed) : unconsumed[i] \in Entry
      BY ElementOfSeq DEF TypeOK
    <3> QED BY <3>1 DEF QueuedPatches, Entry, TypeOK
  <2>2. \A s \in Spaces : PipedPatches(s) \subseteq Patch
    <3> TAKE s \in Spaces
    <3>1. \A i \in 1 .. Len(Answer(s)) : Answer(s)[i] \in Patch
      BY AnswerType, ElementOfSeq
    <3> QED BY <3>1 DEF PipedPatches
  <2>3. \A p \in Patch : p.space \in Spaces /\ p.num \in Nat
    BY DEF Patch
  <2>4. Queued = {PathOf(p) : p \in QueuedPatches}
    BY DEF Queued, QueuedPatches
  <2>5. ASSUME NEW p \in QueuedPatches \cup delivered, NEW q \in QueuedPatches \cup delivered,
               PathOf(p) = PathOf(q)
        PROVE  p = q
    <3>1. p \in Patch /\ q \in Patch /\ p.space \in Spaces
      BY <2>1, <2>3
    <3> QED BY <2>5, <3>1, PathNamesPatch
  <2>6. \A i, j \in 1 .. Len(unconsumed) :
          PathOf(unconsumed[i].payload) = PathOf(unconsumed[j].payload) => i = j
    <3> TAKE i, j \in 1 .. Len(unconsumed)
    <3> HAVE PathOf(unconsumed[i].payload) = PathOf(unconsumed[j].payload)
    <3>1. unconsumed[i].payload \in QueuedPatches /\ unconsumed[j].payload \in QueuedPatches
      BY DEF QueuedPatches
    <3>2. unconsumed[i].payload = unconsumed[j].payload
      BY <2>5, <3>1
    <3> QED BY <3>2 DEF PlacePart
  <2>7. Queued \cap Given = {}
    <3> SUFFICES ASSUME NEW p \in QueuedPatches, NEW q \in delivered, PathOf(p) = PathOf(q)
                 PROVE  FALSE
      BY <2>4 DEF Given
    <3> QED BY <2>5 DEF PlacePart
  <2>8. ASSUME NEW s \in Running
        PROVE  /\ Piped(s) \cap (Queued \cup Given) = {}
               /\ {s} \X (0 .. numProcessed[s] - 1)
                    = Piped(s) \cup {q \in Queued \cup Given : q[1] = s}
    <3>1. s \in Spaces /\ status[s] = "running" /\ numProcessed[s] \in Nat
      BY DEF Running, TypeOK
    <3>2. Piped(s) = {PathOf(p) : p \in PipedPatches(s)}
      BY <3>1, PipedPaths
    <3>3. \A p \in PipedPatches(s) : p.space = s
      BY <3>1 DEF PlacePart, PipedPatches
    <3>4. Piped(s) \cap (Queued \cup Given) = {}
      <4> SUFFICES ASSUME NEW p \in PipedPatches(s), NEW q \in QueuedPatches \cup delivered,
                          PathOf(p) = PathOf(q)
                   PROVE  FALSE
        BY <2>4, <3>2 DEF Given
      <4>1. p \in Patch /\ q \in Patch
        BY <2>1, <2>2, <3>1
      <4>2. p = q
        BY <3>1, <3>3, <4>1, PathNamesPatch
      <4> QED BY <3>1, <4>2 DEF PlacePart
    <3>5. Piped(s) \cup {q \in Queued \cup Given : q[1] = s} = {PathOf(p) : p \in Out(s)}
      <4>1. \A p : PathOf(p)[1] = p.space
        BY DEF PathOf
      <4>2. {q \in Queued \cup Given : q[1] = s}
              = {PathOf(p) : p \in {x \in QueuedPatches \cup delivered : x.space = s}}
        BY <2>4, <4>1 DEF Given
      <4> QED BY <3>2, <3>3, <4>2 DEF Out
    <3>6. {PathOf(p) : p \in Out(s)} = {s} \X (0 .. numProcessed[s] - 1)
      <4>1. ASSUME NEW p \in Out(s) PROVE PathOf(p) \in {s} \X (0 .. numProcessed[s] - 1)
        <5>1. p.space = s /\ p.num \in Nat /\ p.num < numProcessed[s]
          BY <2>3, <3>1, OutType DEF PlacePart, Out
        <5>2. p.num \in 0 .. numProcessed[s] - 1
          BY <3>1, <5>1
        <5> QED BY <5>1, <5>2 DEF PathOf
      <4>2. ASSUME NEW m \in 0 .. numProcessed[s] - 1
            PROVE  \E p \in Out(s) : PathOf(p) = <<s, m>>
        <5>1. PICK p \in Out(s) : p.num = m
          BY <3>1 DEF PlacePart
        <5>2. p.space = s
          BY DEF Out
        <5> QED BY <5>1, <5>2 DEF PathOf
      <4>3. \A x \in {s} \X (0 .. numProcessed[s] - 1) :
               \E m \in 0 .. numProcessed[s] - 1 : x = <<s, m>>
        OBVIOUS
      <4> QED BY <4>1, <4>2, <4>3
    <3> QED BY <3>4, <3>5, <3>6
  <2> QED BY <2>6, <2>7, <2>8 DEF PatchesConserved
<1> QED BY <1>1, TypeCorrect, PlaceCorrect, PTL

---------------------------------------------------------------------------
(* The refinement *)

(* A patch that is yielded fits the request and is new to the consumer. *)
LEMMA DeliverGives ==
  ASSUME TypeOK, PlacePart, FitPart, HasPatch, Deliver, hostPc \in {"dispatch", "collect"}
  PROVE  \E p \in delivered' : Promise!Give(p)
<1> DEFINE p == unconsumed[FirstPatch].payload
<1>1. /\ FirstPatch \in 1 .. Len(unconsumed) /\ unconsumed[FirstPatch] \in Entry
      /\ unconsumed[FirstPatch].json = request
  BY FirstPatchIndex
<1>2. Promise!Fits(p, request)
  BY <1>1 DEF FitPart, QueueFits
<1>3. /\ reply' = <<p>> /\ delivered' = delivered \cup {p} /\ hostPc' = "ready"
      /\ request' = request
  BY DEF Deliver
<1>4. p \in QueuedPatches /\ p \notin delivered /\ p \in Patch
  BY <1>1, DeliverMoves DEF PlacePart, Entry
<1> HIDE DEF p
<1>5. Promise!Fresh(p)
  <2> SUFFICES ASSUME NEW q \in delivered, p.space = q.space
               PROVE  p.num # q.num /\ p.ast # q.ast
    BY DEF Promise!Fresh
  <2>1. p.space \in Spaces
    BY <1>4 DEF Patch
  <2>2. p \in Out(p.space) /\ q \in Out(p.space)
    BY <1>4 DEF Out
  <2>3. p # q
    BY <1>4
  <2> QED BY <2>1, <2>2, <2>3 DEF PlacePart
<1>6. Promise!Give(p)
  BY <1>2, <1>3, <1>5 DEF Promise!Give
<1> QED BY <1>3, <1>6

(* The patch source implements PatchSource: every request is answered by    *)
(* one fresh patch that fits it or, a mutate request only, by nothing.      *)
THEOREM PromiseCorrect == Spec => KeepsPromise
<1>1. Init => Promise!Init
  BY DEF Init, EmptySession, Promise!Init
<1>2. /\ TypeOK /\ SessionPart /\ PlacePart /\ FitPart /\ UsefulPart /\ [Next]_vars
      => [Promise!Next]_(Promise!vars)
  <2> SUFFICES ASSUME TypeOK, SessionPart, PlacePart, FitPart, UsefulPart, [Next]_vars
               PROVE  Promise!Next \/ UNCHANGED Promise!vars
    OBVIOUS
  <2>1. CASE Close
    <3>1. Promise!Stop
      BY <2>1 DEF Close, ClearSession, Promise!Stop
    <3> QED BY <3>1 DEF Promise!Next
  <2>2. CASE Launch
    <3>1. Promise!Open
      BY <2>2 DEF Launch, ClearSession, Promise!Open
    <3> QED BY <3>1 DEF Promise!Next
  <2>3. CASE CancelStarting
    <3>1. Promise!Stop
      BY <2>3 DEF CancelStarting, SessionPart, Promise!Stop
    <3> QED BY <3>1 DEF Promise!Next
  <2>4. ASSUME NEW r \in Requests, Ask(r) PROVE Promise!Next
    <3>1. Promise!Ask(r)
      BY <2>4 DEF Ask, Promise!Ask
    <3> QED BY <3>1 DEF Promise!Next
  <2>5. CASE DispatchQueued \/ FinishWithPatch
    <3>1. HasPatch /\ Deliver /\ hostPc \in {"dispatch", "collect"}
      BY <2>5 DEF DispatchQueued, FinishWithPatch
    <3> QED BY <3>1, DeliverGives DEF Promise!Next
  <2>6. CASE FinishEmpty
    <3>1. CASE gotHax
      BY <2>6, <3>1 DEF FinishEmpty, Promise!vars
    <3>2. CASE ~gotHax
      <4>1. ~RoundUseful /\ hostPc = "collect"
        BY <2>6, <3>2 DEF FinishEmpty, RoundUseful
      <4>2. request.type = "mutate"
        BY <4>1 DEF UsefulPart
      <4>3. Promise!GiveNothing
        BY <2>6, <3>2, <4>2 DEF FinishEmpty, Promise!GiveNothing
      <4> QED BY <4>3 DEF Promise!Next
    <3> QED BY <3>1, <3>2
  <2>7. CASE (\E s \in Spaces : StartProcess(s)) \/ DispatchSend \/ Drained \/ FirstCompleted
             \/ Gathered \/ \E s \in Spaces : CollectResult(s)
    BY <2>7 DEF StartProcess, DispatchSend, Drained, FirstCompleted, Gathered, CollectResult,
       Promise!vars
  <2>8. CASE UNCHANGED vars \/ \E s \in Spaces : SmStep(s) \/ Exit(s)
    <3>1. UNCHANGED hostVars
      BY <2>8 DEF vars, SmStep, Handle, Iterate, ReadLine, RejectLine, RespondExhausted,
         RespondSuccess, Terminate, NothingToPick, BaseDrained, Draw, Exit
    <3> QED BY <3>1 DEF hostVars, Promise!vars
  <2>9. CASE HostStep
    BY <2>1, <2>5, <2>6, <2>7, <2>9
    DEF HostStep, DispatchRaises, DispatchEnds, DrainRaises, CollectRaises
  <2>10. CASE ConsumerStep
    BY <2>1, <2>2, <2>3, <2>4, <2>10 DEF ConsumerStep, Cancel
  <2> QED BY <2>8, <2>9, <2>10 DEF Next
<1>3. DeliveryInv => SessionPart /\ PlacePart /\ FitPart /\ UsefulPart
  BY DEF DeliveryInv
<1> QED
  BY <1>1, <1>2, <1>3, TypeCorrect, DeliveryCorrect, PTL DEF Spec, KeepsPromise, Promise!Spec
===========================================================================
