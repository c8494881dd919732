---------------------------- MODULE FaultSpace ----------------------------
(***************************************************************************)
(* Which nodes of a contract sm may mutate: generateFaultSpace walks the   *)
(* AST, collects the nodes inside functions that are in the exact scope of *)
(* an interested space (the contracts, functions, locations and node types *)
(* the detectors blame), and does not descend into what no space is        *)
(* interested in, into the parts of calls that move Ether, nor into emit   *)
(* statements.                                                             *)
(*                                                                         *)
(* Lines and columns are one number each, since they are only compared.    *)
(***************************************************************************)
EXTENDS Naturals, Sequences, FiniteSets, SequencesExt

CONSTANTS
  Type,       \* the AST: the type of its nodes 1 .. n, in the order visited
  Parent,     \* the parent of every node, 0 for the root
  Kids,       \* the children of every node, in the order visited
  Name,       \* the name of a contract or function
  Loc,        \* [start, end] of every node
  EtherCalls, \* the calls of send, transfer, call, delegatecall and callcode
  Specifiers, \* bound: the sets of interested spaces to be looked at
  Undefined   \* no specifier: every space is interested

Nodes == DOMAIN Type
Root == 1

locInclude(loc, inLoc) == loc.start >= inLoc.start /\ loc.end <= inLoc.end

\* The path to a node: itself and all above it.
Line[n \in Nodes] == {n} \cup IF n = Root THEN {} ELSE Line[Parent[n]]

ASSUME TreeAssumption ==
  /\ Type \in Seq(STRING) /\ Type # <<>>
  /\ Parent[Root] = 0 /\ \A n \in Nodes \ {Root} : Parent[n] \in 1 .. n - 1
  /\ Kids \in [Nodes -> Seq(Nodes)]
  /\ \A n \in Nodes : /\ \A i, j \in DOMAIN Kids[n] : Kids[n][i] = Kids[n][j] => i = j
                      /\ ToSet(Kids[n]) = {m \in Nodes : Parent[m] = n}

\* A node lies inside its parent.
ASSUME LocAssumption ==
  /\ Loc \in [Nodes -> [start : Nat, end : Nat]]
  /\ \A n \in Nodes : Loc[n].start <= Loc[n].end
  /\ \A n \in Nodes \ {Root} : locInclude(Loc[n], Loc[Parent[n]])

\* A file is made of contracts, and functions are only found there.
ASSUME GrammarAssumption ==
  /\ Type[Root] = "SourceUnit"
  /\ \A n \in Nodes : Type[n] = "ContractDefinition" => Parent[n] = Root
  /\ \A n \in Nodes : Type[n] = "FunctionDefinition" => Type[Parent[n]] = "ContractDefinition"
  /\ EtherCalls \subseteq {n \in Nodes : Type[n] = "FunctionCall"}

\* What the specifier parser makes.
ASSUME SpecifierAssumption ==
  /\ Undefined \in Specifiers
  /\ \A specifier \in Specifiers \ {Undefined} : \A space \in specifier : \A x \in space :
       /\ x.of \in {"contract", "location", "type"}
       /\ x.of = "location" => x.loc \in [start : Nat, end : Nat]

VARIABLES
  spaces,    \* interestedSpace
  todo,      \* the nodes to visit and the functions to exit, next first
  fnDepth,
  faultSpace

vars == <<spaces, todo, fnDepth, faultSpace>>

---------------------------------------------------------------------------
(* Interested spaces: a conjunction (a set) of contracts, locations, types *)

\* Slip: only the start of a is looked at.
locationIntersect_OneSided(a, b) == a.start >= b.start /\ a.start <= b.end

locationIntersect(a, b) ==
  \/ a.start >= b.start /\ a.start <= b.end
  \/ b.start >= a.start /\ b.start <= a.end

Around(n, type) == {m \in Line[n] : Type[m] = type}

\* InterestedContract: the contract and the function on the way to the node
\* are the ones named; no functions named (null) is the empty set.
InContract(space, n, outsideFunction) ==
  \A c \in Around(n, "ContractDefinition") :
    /\ Name[c] = space.contract
    /\ space.functions # {} =>
         IF Around(n, "FunctionDefinition") = {}
           THEN outsideFunction
           ELSE \A f \in Around(n, "FunctionDefinition") : Name[f] \in space.functions

isNodeInterested(space, n) ==
  \A x \in space :
    CASE x.of = "contract" -> InContract(x, n, TRUE)
      [] x.of = "location" -> locationIntersect(Loc[n], x.loc)
      [] x.of = "type" -> TRUE

isNodeInExactScope(space, n) ==
  \A x \in space :
    CASE x.of = "contract" -> InContract(x, n, FALSE)
      [] x.of = "location" -> locInclude(Loc[n], x.loc)
      [] x.of = "type" -> Type[n] = x.type

Interested(n) == spaces = Undefined \/ \E space \in spaces : isNodeInterested(space, n)
Exact(n) == spaces = Undefined \/ \E space \in spaces : isNodeInExactScope(space, n)

---------------------------------------------------------------------------
(* visitWithPath *)

Enter(n) == [node |-> n, exit |-> FALSE]
Leave(n) == [node |-> n, exit |-> TRUE]

\* The next thing to do is to visit the node.
Visiting(n) == todo # <<>> /\ Head(todo) = Enter(n)

\* The visitor's result: go on with the children, then leave the node.
Descend(n) ==
  todo' = [i \in DOMAIN Kids[n] |-> Enter(Kids[n][i])] \o <<Leave(n)>> \o Tail(todo)
Prune == todo' = Tail(todo)

VisitContract(n) ==
  /\ Visiting(n) /\ Type[n] = "ContractDefinition"
  /\ IF Interested(n) THEN Descend(n) ELSE Prune
  /\ UNCHANGED <<spaces, fnDepth, faultSpace>>

\* Slip: fnDepth is increased for every function, left for those visited.
VisitFunction_AlwaysCounts(n) ==
  /\ Visiting(n) /\ Type[n] = "FunctionDefinition"
  /\ fnDepth' = fnDepth + 1
  /\ IF Interested(n) THEN Descend(n) ELSE Prune
  /\ UNCHANGED <<spaces, faultSpace>>

VisitFunction(n) ==
  /\ Visiting(n) /\ Type[n] = "FunctionDefinition"
  /\ IF Interested(n)
       THEN fnDepth' = fnDepth + 1 /\ Descend(n)
       ELSE Prune /\ UNCHANGED fnDepth
  /\ UNCHANGED <<spaces, faultSpace>>

\* What is not visited: parts of a call that moves Ether, and emit statements.
Preserved(n) ==
  \/ fnDepth # 0 /\ Parent[n] \in EtherCalls
  \/ Type[n] = "EmitStatement"

\* Slip: nodes outside functions are collected too.
Collected_Anywhere(n) == ~Preserved(n) /\ Exact(n)

Collected(n) == ~Preserved(n) /\ fnDepth # 0 /\ Exact(n)

\* generalVisitorFn
VisitOther(n) ==
  /\ Visiting(n) /\ Type[n] \notin {"ContractDefinition", "FunctionDefinition"}
  /\ faultSpace' = IF Collected(n) THEN faultSpace \cup {n} ELSE faultSpace
  /\ IF Collected(n) \/ (~Preserved(n) /\ Interested(n)) THEN Descend(n) ELSE Prune
  /\ UNCHANGED <<spaces, fnDepth>>

\* Slip: there is no exit handler.
Exit_Nothing(n) ==
  /\ todo # <<>> /\ Head(todo) = Leave(n)
  /\ Prune
  /\ UNCHANGED <<spaces, fnDepth, faultSpace>>

\* The exit handler of a function; the others do nothing.
Exit(n) ==
  /\ todo # <<>> /\ Head(todo) = Leave(n)
  /\ fnDepth' = IF Type[n] = "FunctionDefinition" THEN fnDepth - 1 ELSE fnDepth
  /\ Prune
  /\ UNCHANGED <<spaces, faultSpace>>

Init ==
  /\ spaces \in Specifiers
  /\ todo = <<Enter(Root)>> /\ fnDepth = 0 /\ faultSpace = {}

Next == \E n \in Nodes : VisitContract(n) \/ VisitFunction(n) \/ VisitOther(n) \/ Exit(n)

Spec == Init /\ [][Next]_vars

---------------------------------------------------------------------------
(* Properties *)

\* Types of the variables.  fnDepth does not become negative.
TypeOK ==
  /\ spaces \in Specifiers
  /\ todo \in Seq([node : Nodes, exit : BOOLEAN])
  /\ fnDepth \in 0 .. 1
  /\ faultSpace \subseteq Nodes

InFunction(n) == Around(n, "FunctionDefinition") \ {n} # {}

\* The nodes a mutation may be made at: inside a function, neither in an emit
\* statement nor in the parts of a call that moves Ether, and in the exact
\* scope of an interested space.
Mutable ==
  {n \in Nodes :
     /\ Type[n] # "FunctionDefinition" /\ InFunction(n)
     /\ \A m \in Line[n] : Type[m] # "EmitStatement" /\ Parent[m] \notin EtherCalls
     /\ Exact(n)}

\* Nothing is lost where the walk does not descend: a node in the exact scope
\* of a space is below nodes which that space is interested in.
FaultSpaceExact == todo = <<>> => faultSpace = Mutable

\* fnDepth tells whether the node visited next is inside a function, whichever
\* functions were walked through or passed over before.
DepthIsPosition ==
  \A n \in Nodes : Visiting(n) => (fnDepth # 0 <=> InFunction(n))

\* The nodes that will be left from place i on.
Leaving(i) == {todo[j].node : j \in {k \in i .. Len(todo) : todo[k].exit}}

\* What is to be left after a node is exactly what is above it, nothing comes
\* twice, and fnDepth counts the functions to be left.
StackPart ==
  /\ \A i \in 1 .. Len(todo) : Leaving(i + 1) = Line[todo[i].node] \ {todo[i].node}
  /\ \A i, j \in 1 .. Len(todo) : todo[i].node = todo[j].node => i = j
  /\ fnDepth = IF \E n \in Leaving(1) : Type[n] = "FunctionDefinition" THEN 1 ELSE 0

\* The walk only went below nodes that may be changed.
AbovePart ==
  \A n \in Leaving(1) : Type[n] # "EmitStatement" /\ (InFunction(n) => Parent[n] \notin EtherCalls)

\* The nodes the walk has yet to come to, or below.
Coming == {n \in Nodes : \E i \in 1 .. Len(todo) : ~todo[i].exit /\ todo[i].node \in Line[n]}

\* The inductive invariant behind the others: so far, exactly the mutable nodes
\* were collected, whatever was passed over.
WalkInv == StackPart /\ AbovePart /\ faultSpace = Mutable \ Coming
===========================================================================
