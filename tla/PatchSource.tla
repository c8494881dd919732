---------------------------- MODULE PatchSource ----------------------------
(***************************************************************************)
(* What the patch source promises to its consumer, the genetic search of   *)
(* CR.py: an asynchronous generator of patches.  It is sent a request and  *)
(* yields a tuple with at most one patch; how many sm processes search for *)
(* it, in which order they answer and what is queued cannot be seen.       *)
(***************************************************************************)
EXTENDS Naturals, Sequences

CONSTANTS
  Requests,  \* what can be asked
  Patch,     \* what can be yielded
  First      \* the request every session begins with

VARIABLES
  phase,     \* "closed"; "busy" serving a request; "ready" for the next one
  asked,     \* the request served last
  answer,    \* the tuple yielded last
  given      \* the patches yielded in this session

vars == <<phase, asked, answer, given>>

\* The patch answers the request: a mutate request is answered by a mutation
\* of the base it names.
Fits(p, r) ==
  \/ r.type = "random"
  \/ r.type = "mutate" /\ p.base = r.base

\* The patch is new: its file was not handed out before, and the process that
\* made it has not handed out the same contract before.
Fresh(p) ==
  \A q \in given : p.space = q.space => p.num # q.num /\ p.ast # q.ast

Init ==
  /\ phase = "closed" /\ asked = First
  /\ answer = <<>> /\ given = {}

Open ==
  /\ phase = "closed"
  /\ phase' = "busy" /\ asked' = First
  /\ answer' = <<>> /\ given' = {}

Ask(r) ==
  /\ phase = "ready"
  /\ phase' = "busy" /\ asked' = r
  /\ UNCHANGED <<answer, given>>

Give(p) ==
  /\ phase = "busy" /\ Fits(p, asked) /\ Fresh(p)
  /\ phase' = "ready"
  /\ answer' = <<p>> /\ given' = given \cup {p}
  /\ UNCHANGED asked

\* Nothing can be yielded for a mutate request only.
GiveNothing ==
  /\ phase = "busy" /\ asked.type = "mutate"
  /\ phase' = "ready" /\ answer' = <<>>
  /\ UNCHANGED <<asked, given>>

\* The session ends: cancelled, failed or out of processes.
Stop ==
  /\ phase' = "closed" /\ asked' = First
  /\ answer' = <<>> /\ given' = {}

Next ==
  \/ Open \/ GiveNothing \/ Stop
  \/ \E r \in Requests : Ask(r)
  \/ \E p \in given' : Give(p)

Spec == Init /\ [][Next]_vars
============================================================================
