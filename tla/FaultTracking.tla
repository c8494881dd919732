--------------------------- MODULE FaultTracking ---------------------------
(***************************************************************************)
(* One mutant of sm as it grows, mutation by mutation: its AST, and the    *)
(* fault space RandomMutationSequenceGenerator carries along as paths into *)
(* it, each with the types of mutation still allowed there.                *)
(*                                                                         *)
(* The AST is kept as a heap: the kind of every node and, for every        *)
(* property, its children in order.  A node's identity is what the paths   *)
(* are judged by; the program has no such identity.  Kinds: "Block" (array *)
(* property statements), "IfStatement" (one trueBody),                     *)
(* "ExpressionStatement" (one expression) and "Expression".                *)
(***************************************************************************)
EXTENDS MutationPaths, FiniteSets

CONSTANTS
  OriKind,        \* the original AST: the kind of its nodes 1 .. n, 1 the root
  OriKids,        \* and their children
  OriPaths,       \* the paths of its nodes below the root
  MutationTypes,  \* possibleMutationTypes of the process
  MaxMutations,   \* bound: mutations in the sequence
  MaxFaults       \* bound: nodes in the fault space

Kinds == {"Block", "IfStatement", "ExpressionStatement", "Expression"}

Root == 1
Nothing == 0  \* what a path leads to that leads nowhere

\* Where a step leads from a node.
Child(k, n, s) ==
  IF n # Nothing /\ s.idx < Len(k[n][s.prop]) THEN k[n][s.prop][s.idx + 1] ELSE Nothing

NodeAtIn(k, path) ==
  LET at[i \in 0 .. Len(path)] == IF i = 0 THEN Root ELSE Child(k, at[i - 1], path[i])
  IN  at[Len(path)]

\* No node is a child twice.
OneParent(k) ==
  \A a, b \in DOMAIN k, p, q \in Props : \A i \in DOMAIN k[a][p], j \in DOMAIN k[b][q] :
    k[a][p][i] = k[b][q][j] => a = b /\ p = q /\ i = j

ASSUME OriAssumption ==
  /\ OriKind \in Seq(Kinds) /\ Root \in DOMAIN OriKind
  /\ OriKids \in [DOMAIN OriKind -> [Props -> Seq(DOMAIN OriKind \ {Root})]] /\ OneParent(OriKids)
  /\ OriPaths \subseteq Path
  /\ \A n \in DOMAIN OriKind \ {Root} : \E p \in OriPaths : NodeAtIn(OriKids, p) = n
  /\ MutationTypes \subseteq {"InsertionM", "DeletionM", "ReplacementM", "MovementM"}
  /\ MaxMutations \in Nat /\ MaxFaults \in Nat

VARIABLES
  kind,    \* the kind of every node made so far
  kids,    \* its children: for every property a sequence of nodes
  faults,  \* FaultSpaceInfo: path, remaining types; node and origin are the
           \* node the path stands for, and its path in the original AST
  seq      \* the mutation sequence of the mutant

vars == <<kind, kids, faults, seq>>

\* getASTNodeFromPath
NodeAt(path) == NodeAtIn(kids, path)

\* A new node; what is below it is never in the fault space, and left out.
Childless == [p \in Props |-> <<>>]

\* Bound: an index of an array of a mutant.
MaxIndex == Len(OriKind) + MaxMutations
PathOf(n) == CHOOSE p \in OriPaths : NodeAtIn(OriKids, p) = n

\* generateFaultSpace: some nodes below the root, according to the specifier.
Init ==
  /\ kind = OriKind /\ kids = OriKids /\ seq = <<>>
  /\ \E ns \in SUBSET (DOMAIN OriKind \ {Root}) :
       /\ Cardinality(ns) <= MaxFaults
       /\ faults = {[path |-> PathOf(n), remaining |-> MutationTypes,
                     node |-> n, origin |-> PathOf(n)] : n \in ns}

---------------------------------------------------------------------------
(* Application of a mutation to the AST: Array.splice, lodash_unset, update *)

Parent(path) == NodeAt(Front(path))

\* Slip: the fault at the target keeps the type of the mutation.
StillAllowed_KeepsType(f, m) == f.remaining

\* The target of a mutation loses its type.
StillAllowed(f, m) ==
  IF f.path = targetNodePath(m) THEN f.remaining \ {m.type} ELSE f.remaining

\* An entry after a mutation; none if its path has no counterpart.
Carried(f, m, renamed) ==
  {[f EXCEPT !.path = p, !.remaining = StillAllowed(f, m), !.node = renamed[f.node]]
     : p \in updateASTPath(m, f.path)}

\* The fault space of the mutant: what is carried over and still allows a type.
NewFaults(m, renamed) ==
  {g \in UNION {Carried(f, m, renamed) : f \in faults} : g.remaining # {}}

Same == [n \in DOMAIN kind |-> n]

\* The generator draws a mutation for a fault that still allows its type.
Allows(f, type) == Len(seq) < MaxMutations /\ f \in faults /\ type \in f.remaining

Extend(type, arg, renamed) ==
  LET m == [type |-> type, arg |-> arg] IN
    /\ seq' = Append(seq, m)
    /\ faults' = NewFaults(m, renamed)

\* A new expression statement in an array of a suspicious node.
Insert(f, prop, i) ==
  /\ Allows(f, "InsertionM") /\ prop \in ArrayProps
  /\ LET n == NodeAt(f.path)  new == Len(kind) + 1 IN
       /\ kind[n] = "Block" /\ i <= Len(kids[n][prop])
       /\ kind' = Append(kind, "ExpressionStatement")
       /\ kids' = Append([kids EXCEPT ![n][prop] = InsertAt(@, i + 1, new)], Childless)
       /\ Extend("InsertionM", [node |-> f.path, prop |-> prop, idx |-> i], Same)

\* deletableFaultSpace: an expression statement that is an element of an array.
Deletable(f) ==
  kind[NodeAt(f.path)] = "ExpressionStatement" /\ f.path[Len(f.path)].prop \in ArrayProps

\* The AST without the node at the path (DeletionM.apply).
Without(path) ==
  LET s == path[Len(path)] IN [kids EXCEPT ![Parent(path)][s.prop] = RemoveAt(@, s.idx + 1)]

Delete(f) ==
  /\ Allows(f, "DeletionM") /\ Deletable(f)
  /\ kids' = Without(f.path)
  /\ Extend("DeletionM", f.path, Same)
  /\ UNCHANGED kind

\* A node of another kind in place of a suspicious one, unless that is a
\* block with statements.
Replace(f, k) ==
  /\ Allows(f, "ReplacementM")
  /\ LET n == NodeAt(f.path)  s == f.path[Len(f.path)]  new == Len(kind) + 1 IN
       /\ ~(kind[n] = "Block" /\ kids[n]["statements"] # <<>>)
       /\ kind' = Append(kind, k)
       /\ kids' = Append([kids EXCEPT ![Parent(f.path)][s.prop][s.idx + 1] = new], Childless)
       /\ Extend("ReplacementM", f.path, [Same EXCEPT ![n] = new])

\* Slip: the node is inserted at the destination and not taken out.
Moved_Copies(m) ==
  LET put == MoveInsertion(m) IN
    [kids EXCEPT ![NodeAtIn(Without(m.from), put.node)][put.prop] =
       InsertAt(@, put.idx + 1, NodeAt(m.from))]

\* The AST with the node at its destination (MovementM.apply).
Moved(m) ==
  LET put == MoveInsertion(m) IN
    [Without(m.from) EXCEPT ![NodeAtIn(Without(m.from), put.node)][put.prop] =
       InsertAt(@, put.idx + 1, NodeAt(m.from))]

\* A suspicious expression statement is taken to an array of another
\* suspicious node.  The place is drawn in the AST without the statement, and
\* one that would put it back where it was is skipped.
Move(f, g, prop, i) ==
  /\ Allows(f, "MovementM") /\ Allows(g, "MovementM") /\ Deletable(f) /\ prop \in ArrayProps
  /\ \E p \in DeletionUpdate(f.path, g.path) :
       LET n == NodeAtIn(Without(f.path), p)
           ins == [node |-> p, prop |-> prop, idx |-> i]
           m == fromMutation(f.path, ins)
       IN /\ kind[n] = "Block" /\ i <= Len(Without(f.path)[n][prop])
          /\ Location(ins) # f.path
          /\ kids' = Moved(m)
          /\ Extend("MovementM", m, Same)
  /\ UNCHANGED kind

Next ==
  \E f \in faults :
    \/ Delete(f)
    \/ \E k \in {"ExpressionStatement", "Expression", "Block"} : Replace(f, k)
    \/ \E prop \in ArrayProps, i \in 0 .. MaxIndex :
         Insert(f, prop, i) \/ \E g \in faults : Move(f, g, prop, i)

Spec == Init /\ [][Next]_vars

---------------------------------------------------------------------------
(* Properties *)

Nodes == 1 .. Len(kind)

\* Types of the variables.
TypeOK ==
  /\ kind \in Seq(Kinds)
  /\ DOMAIN kids = Nodes
  /\ \A n \in Nodes, p \in Props : kids[n][p] \in Seq(Nodes)
  /\ \A f \in faults : /\ f.path \in Path /\ f.origin \in Path
                       /\ f.remaining \subseteq MutationTypes /\ f.node \in Nodes
  /\ Len(seq) <= MaxMutations

\* Every path of the fault space leads to the node it stands for, whatever
\* mutations came before (an assertion of getFaultSpaceInfoNodePair only asks
\* that it leads to some node).  So no two entries share a path either, and
\* "New mutation is not in original remaining mutation array" cannot fail.
FaultsResolve == \A f \in faults : NodeAt(f.path) = f.node

\* Undoing the whole sequence takes every path of the fault space back to the
\* path it had in the original AST (MutationSequence.reverseUpdatePath).
ReverseTracks == \A f \in faults : reverseUpdatePath(seq, f.path) = {f.origin}

\* Going by way of the original AST loses nothing: a path of the fault space
\* rebased to an earlier mutant of the same sequence is where undoing only the
\* mutations made since then puts it, and rebased to the mutant itself it is
\* the path the generator carried along (rebasePath, updatePath).
RebaseTracks ==
  \A f \in faults : \A k \in 0 .. Len(seq) :
    rebasePath(f.path, seq, SubSeq(seq, 1, k)) = reverseUpdatePath(SubSeq(seq, k + 1, Len(seq)), f.path)

\* The AST stays a tree: no node has two places, and a suspicious one has one.
\* A movement neither duplicates a node nor loses it.
OnePlace ==
  /\ OneParent(kids)
  /\ \A f \in faults : \E n \in Nodes, p \in Props : f.node \in ToSet(kids[n][p])

\* A movement puts the statement where the insertion was drawn, although it is
\* rebuilt from the deletion and from the place in the AST before the deletion,
\* whose assertions (MovementM.ts:57 and 77) never fail.
MoveAsDrawn ==
  \A f, g \in faults : \A i \in 0 .. MaxIndex, prop \in ArrayProps :
    Deletable(f) =>
      \A p \in DeletionUpdate(f.path, g.path) :
        LET ins == [node |-> p, prop |-> prop, idx |-> i]
            m == fromMutation(f.path, ins)
        IN Destination(m) # {} /\ MoveInsertion(m) = ins

\* The last mutation may have taken the entry away: it is the target, deleted
\* or out of types, or below a target that is deleted, replaced or moved.
MayLose(f, m) ==
  \/ f.path = targetNodePath(m) /\ (m.type = "DeletionM" \/ f.remaining = {m.type})
  \/ /\ m.type # "InsertionM" /\ f.path # targetNodePath(m)
     /\ arrStartsWithArr(f.path, targetNodePath(m))

LosesOnlyDisturbed ==
  \A f \in faults : (\A g \in faults' : g.origin # f.origin) => MayLose(f, seq'[Len(seq')])

\* No undisturbed node leaves the fault space of the mutants.
KeepsUndisturbed == [][LosesOnlyDisturbed]_vars

\* What may still be done to the mutant.
Possibilities == UNION {{f.origin} \X f.remaining : f \in faults}

\* Every mutation uses up a possibility: the length of a mutation sequence is
\* bounded by the fault space although max-mutation-sequences-length never is
\* given, so the search of a process is finite.
Shrinks == [][Cardinality(Possibilities') < Cardinality(Possibilities)]_vars
============================================================================
