--------------------------- MODULE MutationPaths ---------------------------
(***************************************************************************)
(* How a mutation of sm moves the paths of the nodes it leaves alone.  A   *)
(* mutant is kept as a sequence of mutations, and a suspicious node as a   *)
(* path, so every mutation can tell where a path of the old AST is in the  *)
(* new one (updateASTPath) and back (reverseUpdateASTPath).                *)
(*                                                                         *)
(* A path is the sequence of its steps from the root; a step is a property *)
(* with the index in it, which is 0 for a property that is not an array    *)
(* (the code has two strings, or one).  Where the code returns null for a  *)
(* path that has no counterpart, an operator here returns the empty set,   *)
(* otherwise the set with the one counterpart.                             *)
(***************************************************************************)
EXTENDS Integers, Sequences, SequencesExt

CONSTANTS
  Props,      \* the properties of AST nodes that hold nodes
  ArrayProps  \* those that are arrays

ASSUME PropsAssumption == ArrayProps \subseteq Props

Step == [prop : Props, idx : Nat]
Path == Seq(Step)

\* The path begins with the other one.
arrStartsWithArr(path, start) ==
  Len(start) <= Len(path) /\ \A i \in 1 .. Len(start) : path[i] = start[i]

\* The path goes through the property of the node.
Through(path, node, prop) ==
  Len(path) > Len(node) /\ arrStartsWithArr(path, node) /\ path[Len(node) + 1].prop = prop

Shift(path, k, n) == [path EXCEPT ![k] = [prop |-> path[k].prop, idx |-> path[k].idx + n]]

---------------------------------------------------------------------------
(* InsertionM: a new element of an array of a node, at an index *)

Insertion == [node : Path, prop : Props, idx : Nat]

\* Where the new element is.
Location(ins) == Append(ins.node, [prop |-> ins.prop, idx |-> ins.idx])

\* Slip: the element at the index itself is not moved.
InsertionUpdate_After(ins, path) ==
  LET k == Len(ins.node) + 1 IN
    IF Through(path, ins.node, ins.prop) /\ path[k].idx > ins.idx THEN Shift(path, k, 1) ELSE path

\* Slip: the elements are moved the wrong way.
InsertionUpdate_Back(ins, path) ==
  LET k == Len(ins.node) + 1 IN
    IF Through(path, ins.node, ins.prop) /\ path[k].idx >= ins.idx THEN Shift(path, k, -1) ELSE path

InsertionUpdate(ins, path) ==
  LET k == Len(ins.node) + 1 IN
    IF Through(path, ins.node, ins.prop) /\ path[k].idx >= ins.idx THEN Shift(path, k, 1) ELSE path

InsertionReverse(ins, path) ==
  LET k == Len(ins.node) + 1 IN
    IF Through(path, ins.node, ins.prop) /\ path[k].idx - 1 >= ins.idx
      THEN Shift(path, k, -1) ELSE path

---------------------------------------------------------------------------
(* DeletionM: the node at a path is taken out *)

\* The path goes through the array the target is an element of.
Sibling(path, target) ==
  /\ target[Len(target)].prop \in ArrayProps
  /\ Through(path, Front(target), target[Len(target)].prop)

DeletionUpdate(target, path) ==
  LET k == Len(target) IN
    IF arrStartsWithArr(path, target) THEN {}
    ELSE IF Sibling(path, target) /\ path[k].idx > target[k].idx THEN {Shift(path, k, -1)}
    ELSE {path}

\* Slip: the element that took the place of the target is not moved back.
DeletionReverse_After(target, path) ==
  LET k == Len(target) IN
    IF Sibling(path, target) /\ path[k].idx > target[k].idx THEN Shift(path, k, 1) ELSE path

DeletionReverse(target, path) ==
  LET k == Len(target) IN
    IF Sibling(path, target) /\ path[k].idx + 1 > target[k].idx THEN Shift(path, k, 1) ELSE path

---------------------------------------------------------------------------
(* ReplacementM: another node in place of the one at a path.  What was      *)
(* below it has no counterpart.                                            *)

ReplacementUpdate(target, path) ==
  IF arrStartsWithArr(path, target) /\ Len(path) # Len(target) THEN {} ELSE {path}

---------------------------------------------------------------------------
(* MovementM: a deletion followed by an insertion of the deleted node.  The *)
(* destination is given in the AST before the deletion.                    *)

Movement == [from : Path, node : Path, prop : Props, idx : Nat]

\* The destination once the node is out; none inside the node itself.
Destination(m) == DeletionUpdate(m.from, Location(m))

\* A location, read as an insertion.
InsertionAt(path) ==
  [node |-> Front(path), prop |-> path[Len(path)].prop, idx |-> path[Len(path)].idx]

MoveInsertion(m) == InsertionAt(CHOOSE path \in Destination(m) : TRUE)

\* Slip: the moved node is treated like a deleted one.
MoveUpdate_Loses(m, path) ==
  {InsertionUpdate(MoveInsertion(m), q) : q \in DeletionUpdate(m.from, path)}

MoveUpdate(m, path) ==
  IF path = m.from THEN {Location(MoveInsertion(m))}
  ELSE {InsertionUpdate(MoveInsertion(m), q) : q \in DeletionUpdate(m.from, path)}

MoveReverse(m, path) ==
  IF path = Location(MoveInsertion(m)) THEN m.from
  ELSE DeletionReverse(m.from, InsertionReverse(MoveInsertion(m), path))

\* The movement made of a deletion and of an insertion into what is left.
fromMutation(target, ins) ==
  LET path == DeletionReverse(target, Location(ins)) IN
    [from |-> target, node |-> Front(path), prop |-> path[Len(path)].prop,
     idx |-> path[Len(path)].idx]

---------------------------------------------------------------------------
(* A mutation of any type, and sequences of them *)

\* The node a mutation counts for in the fault space.
targetNodePath(m) ==
  CASE m.type = "InsertionM" -> m.arg.node
    [] m.type = "MovementM" -> m.arg.from
    [] OTHER -> m.arg

updateASTPath(m, path) ==
  CASE m.type = "InsertionM" -> {InsertionUpdate(m.arg, path)}
    [] m.type = "DeletionM" -> DeletionUpdate(m.arg, path)
    [] m.type = "ReplacementM" -> ReplacementUpdate(m.arg, path)
    [] m.type = "MovementM" -> MoveUpdate(m.arg, path)

reverseUpdateASTPath(m, path) ==
  CASE m.type = "InsertionM" -> {InsertionReverse(m.arg, path)}
    [] m.type = "DeletionM" -> {DeletionReverse(m.arg, path)}
    [] m.type = "ReplacementM" -> ReplacementUpdate(m.arg, path)
    [] m.type = "MovementM" -> {MoveReverse(m.arg, path)}

\* Slip: the mutations are undone in the order they were made.
reverseUpdatePath_Forwards(seq, path) ==
  FoldLeft(LAMBDA paths, m : UNION {reverseUpdateASTPath(m, p) : p \in paths}, {path}, seq)

\* before[k]: where the path is once all but the first k mutations are undone.
reverseUpdatePath(seq, path) ==
  LET before[k \in 0 .. Len(seq)] ==
        IF k = Len(seq) THEN {path} ELSE UNION {reverseUpdateASTPath(seq[k + 1], p) : p \in before[k + 1]}
  IN  before[0]

\* after[k]: where it is after the first k mutations.
updatePath(seq, path) ==
  LET after[k \in 0 .. Len(seq)] ==
        IF k = 0 THEN {path} ELSE UNION {updateASTPath(seq[k], p) : p \in after[k - 1]}
  IN  after[Len(seq)]

\* Slip: the path is taken for one of the original AST.
rebasePath_NotUndone(path, from, to) == updatePath(to, path)

\* A path of one mutant, in another mutant: by way of the original AST.
rebasePath(path, from, to) == UNION {updatePath(to, p) : p \in reverseUpdatePath(from, path)}
============================================================================
