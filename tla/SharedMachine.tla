--------------------------- MODULE SharedMachine ---------------------------
(***************************************************************************)
(* Two runs of SCRepair on one machine.  The patch source of SmProtocol is *)
(* observed; of the other one only what it does to /tmp/terminate_all is   *)
(* modelled.  The lock of patchSource keeps the coroutines of one program  *)
(* apart, but not two programs.                                            *)
(***************************************************************************)
EXTENDS SmProtocol

CONSTANTS a1, a2  \* the mutants the generators can reach
AllAST == {Ori, a1, a2}

VARIABLE other  \* the other host: "closed", "serving", or "gather" after a first answer

sharedVars == <<vars, other>>

\* The other host removes a stale file, starts, and gets requests to serve.
OtherLaunch ==
  /\ other = "closed"
  /\ other' = "serving" /\ terminateAll' = FALSE

\* One of its processes has answered.
OtherFirstCompleted ==
  /\ other = "serving"
  /\ other' = "gather" /\ terminateAll' = TRUE

\* All of them have.  Its unlink raises if the file is gone.
OtherGathered ==
  /\ other = "gather"
  /\ other' = IF terminateAll THEN "serving" ELSE "closed"
  /\ terminateAll' = FALSE

\* It is cancelled, and leaves the file behind if it is there.
OtherCancelled ==
  /\ other # "closed"
  /\ other' = "closed" /\ UNCHANGED terminateAll

\* The unlink of the observed host finds no file.
UnlinkRaises ==
  /\ hostPc = "gather" /\ ~terminateAll
  /\ \A s \in readers : Answered(s)
  /\ Close

SharedNext ==
  \/ /\ Next /\ UNCHANGED other
     /\ hostPc = "gather" /\ hostPc' = "collect" => terminateAll
  \/ UnlinkRaises /\ UNCHANGED other
  \/ /\ OtherLaunch \/ OtherFirstCompleted \/ OtherGathered \/ OtherCancelled
     /\ UNCHANGED <<hostVars, smVars, aborted>>

SharedSpec == Init /\ other = "closed" /\ [][SharedNext]_sharedVars

---------------------------------------------------------------------------
(* What a comment of the repository says, and two programs do not keep to *)

\* CR.py:358: "Assume patchGen never exhausted here": the first answer of a
\* session is a patch, as no search ends before it finds one.
FirstIsPatch ==
  hostPc = "ready" /\ delivered = {} => reply # <<>>
============================================================================
