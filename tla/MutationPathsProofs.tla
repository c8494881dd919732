------------------------ MODULE MutationPathsProofs ------------------------
(***************************************************************************)
(* Proofs about the path algebra, for AST paths of any length and arrays   *)
(* of any size: what a mutation does to a path, its reverse undoes.        *)
(***************************************************************************)
EXTENDS MutationPaths, ProofLibrary

---------------------------------------------------------------------------
(* Sequences *)

(* The first and the last part of a path, and a path made of them. *)
LEMMA FrontFacts ==
  ASSUME NEW t \in Path, t # <<>>
  PROVE  /\ Len(t) \in Nat \ {0} /\ t[Len(t)] \in Step
         /\ Front(t) \in Path /\ Len(Front(t)) = Len(t) - 1
         /\ \A i \in 1 .. Len(t) - 1 : Front(t)[i] = t[i]
<1>1. Len(t) \in Nat \ {0} /\ t[Len(t)] \in Step
  BY EmptySeq, LenProperties, ElementOfSeq DEF Path
<1> DEFINE n == Len(t) - 1
           u == SubSeq(t, 1, n)
<1>2. n \in Nat /\ \A i \in 1 .. n : t[i] \in Step
  BY <1>1, ElementOfSeq DEF Path
<1>3. Front(t) = u
  BY DEF Front
<1> HIDE DEF n
<1>4. /\ u \in Seq(Step)
      /\ Len(u) = IF 1 <= n THEN n - 1 + 1 ELSE 0
      /\ \A i \in 1 .. n - 1 + 1 : u[i] = t[1 + i - 1]
  BY <1>2, SubSeqProperties
<1> HIDE DEF u
<1>5. Len(u) = n
  BY <1>2, <1>4
<1>6. ASSUME NEW i \in 1 .. n
      PROVE  u[i] = t[i]
  <2>1. i \in 1 .. n - 1 + 1 /\ 1 + i - 1 = i
    BY <1>2
  <2> QED BY <2>1, <1>4
<1> QED BY <1>1, <1>3, <1>4, <1>5, <1>6 DEF Path, n

(* Append extends a path by one step. *)
LEMMA AppendFacts ==
  ASSUME NEW t \in Path, NEW s \in Step
  PROVE  /\ Append(t, s) \in Path /\ Append(t, s) # <<>>
         /\ Len(Append(t, s)) = Len(t) + 1 /\ Len(t) \in Nat
         /\ Append(t, s)[Len(t) + 1] = s
         /\ \A i \in 1 .. Len(t) : Append(t, s)[i] = t[i]
  BY DEF Path

(* Paths with the same steps are equal. *)
LEMMA PathEqual ==
  ASSUME NEW p \in Path, NEW q \in Path, Len(p) = Len(q),
         \A i \in 1 .. Len(p) : p[i] = q[i]
  PROVE  p = q
  BY SeqEqual DEF Path

(* Taking a path apart and putting it together again. *)
LEMMA AppendFront ==
  ASSUME NEW t \in Path, t # <<>>
  PROVE  Append(Front(t), [prop |-> t[Len(t)].prop, idx |-> t[Len(t)].idx]) = t
<1>1. [prop |-> t[Len(t)].prop, idx |-> t[Len(t)].idx] = t[Len(t)]
  BY FrontFacts DEF Step
<1>2. /\ Append(Front(t), t[Len(t)]) \in Path
      /\ Len(Append(Front(t), t[Len(t)])) = Len(t)
      /\ \A i \in 1 .. Len(t) : Append(Front(t), t[Len(t)])[i] = t[i]
  <2> DEFINE f == Front(t)
             s == t[Len(t)]
  <2>1. /\ f \in Path /\ s \in Step /\ Len(f) = Len(t) - 1 /\ Len(t) \in Nat \ {0}
        /\ \A i \in 1 .. Len(t) - 1 : f[i] = t[i]
    BY FrontFacts
  <2>2. s = t[Len(t)]
    OBVIOUS
  <2> HIDE DEF f, s
  <2>3. /\ Append(f, s) \in Path /\ Len(Append(f, s)) = Len(f) + 1
        /\ Append(f, s)[Len(f) + 1] = s
        /\ \A i \in 1 .. Len(f) : Append(f, s)[i] = f[i]
    BY <2>1, AppendFacts
  <2>4. /\ Append(f, s) \in Path /\ Len(Append(f, s)) = Len(t)
        /\ \A i \in 1 .. Len(t) : Append(f, s)[i] = t[i]
    BY <2>1, <2>2, <2>3
  <2> QED BY <2>4 DEF f, s
<1> QED BY <1>1, <1>2, PathEqual

(* The first part of an extended path is the path. *)
LEMMA FrontAppend ==
  ASSUME NEW t \in Path, NEW s \in Step
  PROVE  Front(Append(t, s)) = t
<1> DEFINE a == Append(t, s)
<1>1. /\ a \in Path /\ a # <<>> /\ Len(a) = Len(t) + 1 /\ Len(t) \in Nat
      /\ \A i \in 1 .. Len(t) : a[i] = t[i]
  BY AppendFacts
<1> HIDE DEF a
<1>2. /\ Front(a) \in Path /\ Len(Front(a)) = Len(t)
      /\ \A i \in 1 .. Len(t) : Front(a)[i] = t[i]
  <2>1. /\ Front(a) \in Path /\ Len(Front(a)) = Len(a) - 1
        /\ \A i \in 1 .. Len(a) - 1 : Front(a)[i] = a[i]
    BY <1>1, FrontFacts
  <2> QED BY <1>1, <2>1
<1>3. Front(a) = t
  BY <1>1, <1>2, PathEqual
<1> QED BY <1>3 DEF a

---------------------------------------------------------------------------
(* Shift *)

(* A shift changes the index of one step of the path. *)
LEMMA ShiftFacts ==
  ASSUME NEW p \in Path, NEW k \in 1 .. Len(p), NEW n \in Int, p[k].idx + n \in Nat
  PROVE  /\ Shift(p, k, n) \in Path /\ Len(Shift(p, k, n)) = Len(p)
         /\ Shift(p, k, n)[k] = [prop |-> p[k].prop, idx |-> p[k].idx + n]
         /\ \A i \in 1 .. Len(p) : i # k => Shift(p, k, n)[i] = p[i]
<1>1. p[k] \in Step
  BY DEF Path
<1>2. [prop |-> p[k].prop, idx |-> p[k].idx + n] \in Step
  BY <1>1 DEF Step
<1> QED BY <1>2, ExceptSeq DEF Shift, Path

(* A shift by one is undone by the opposite shift. *)
LEMMA ShiftBack ==
  ASSUME NEW p \in Path, NEW k \in 1 .. Len(p), NEW n \in Int, NEW m \in Int,
         n + m = 0, p[k].idx + n \in Nat
  PROVE  Shift(Shift(p, k, n), k, m) = p
<1> DEFINE q == Shift(p, k, n)
<1>1. p[k] \in Step
  BY DEF Path
<1>2. /\ q \in Path /\ Len(q) = Len(p)
      /\ q[k] = [prop |-> p[k].prop, idx |-> p[k].idx + n]
      /\ \A i \in 1 .. Len(p) : i # k => q[i] = p[i]
  BY ShiftFacts
<1> HIDE DEF q
<1>3. q[k].idx + m = p[k].idx /\ q[k].idx + m \in Nat /\ q[k].prop = p[k].prop /\ p[k].idx \in Nat /\ k \in 1 .. Len(q)
  BY <1>1, <1>2 DEF Step
<1>4. /\ Shift(q, k, m) \in Path /\ Len(Shift(q, k, m)) = Len(q)
      /\ Shift(q, k, m)[k] = [prop |-> q[k].prop, idx |-> q[k].idx + m]
      /\ \A i \in 1 .. Len(q) : i # k => Shift(q, k, m)[i] = q[i]
  BY <1>2, <1>3, ShiftFacts, Zenon
<1>5. Shift(q, k, m)[k] = p[k]
  BY <1>1, <1>3, <1>4 DEF Step
<1>6. Shift(q, k, m) = p
  BY <1>2, <1>4, <1>5, PathEqual
<1> QED BY <1>6 DEF q

(* A shift at the step after a node does not change whether a path goes     *)
(* through the property of the node.                                       *)
LEMMA ShiftThrough ==
  ASSUME NEW p \in Path, NEW node \in Path, NEW prop, NEW n \in Int,
         Len(node) + 1 \in 1 .. Len(p), p[Len(node) + 1].idx + n \in Nat
  PROVE  Through(Shift(p, Len(node) + 1, n), node, prop) <=> Through(p, node, prop)
<1> DEFINE k == Len(node) + 1
           q == Shift(p, k, n)
<1>1. /\ q \in Path /\ Len(q) = Len(p)
      /\ q[k] = [prop |-> p[k].prop, idx |-> p[k].idx + n]
      /\ \A i \in 1 .. Len(p) : i # k => q[i] = p[i]
  BY ShiftFacts
<1>2. Len(node) \in Nat /\ Len(p) \in Nat
  BY DEF Path
<1>3. q[k].prop = p[k].prop
  BY <1>1
<1> HIDE DEF q
<1> QED BY <1>1, <1>2, <1>3 DEF Through, arrStartsWithArr, q

---------------------------------------------------------------------------
(* Insertion *)

(* What an insertion does to a path is undone by its reverse, and no path   *)
(* of the old AST is sent to the place of the new element                  *)
(* (InsertionM.updateASTPath, reverseUpdateASTPath).                       *)
THEOREM InsertionRoundTrip ==
  ASSUME NEW ins \in Insertion, NEW p \in Path
  PROVE  /\ InsertionUpdate(ins, p) \in Path
         /\ InsertionReverse(ins, InsertionUpdate(ins, p)) = p
         /\ InsertionUpdate(ins, p) # Location(ins)
<1> DEFINE node == ins.node
           k == Len(node) + 1
           s == [prop |-> ins.prop, idx |-> ins.idx]
<1>1. node \in Path /\ ins.prop \in Props /\ ins.idx \in Nat /\ s \in Step /\ Len(node) \in Nat
  BY DEF Insertion, Step, Path
<1>2. /\ Location(ins) \in Path /\ Len(Location(ins)) = k
      /\ Location(ins)[k] = s /\ \A i \in 1 .. Len(node) : Location(ins)[i] = node[i]
  BY <1>1, AppendFacts DEF Location
<1>3. CASE Through(p, node, ins.prop) /\ p[k].idx >= ins.idx
  <2> DEFINE q == Shift(p, k, 1)
  <2>1. k \in 1 .. Len(p) /\ p[k] \in Step
    BY <1>1, <1>3, ElementOfSeq DEF Through, Path
  <2>2. p[k].idx \in Nat /\ p[k].idx + 1 \in Nat
    BY <2>1 DEF Step
  <2>3. q \in Path /\ q[k] = [prop |-> p[k].prop, idx |-> p[k].idx + 1]
    BY <2>1, <2>2, ShiftFacts
  <2>4. Through(q, node, ins.prop)
    BY <1>1, <1>3, <2>1, <2>2, ShiftThrough
  <2>5. Shift(q, k, -1) = p
    BY <2>1, <2>2, ShiftBack
  <2>6. q = InsertionUpdate(ins, p)
    BY <1>3 DEF InsertionUpdate
  <2> HIDE DEF q
  <2>7. q[k].idx - 1 >= ins.idx /\ q[k].idx # ins.idx
    BY <1>1, <1>3, <2>2, <2>3
  <2>8. InsertionReverse(ins, q) = p
    BY <2>4, <2>5, <2>7 DEF InsertionReverse
  <2>9. q # Location(ins)
    BY <1>2, <2>7
  <2> QED BY <2>3, <2>6, <2>8, <2>9
<1>4. CASE ~ (Through(p, node, ins.prop) /\ p[k].idx >= ins.idx)
  <2>1. InsertionUpdate(ins, p) = p
    BY <1>4 DEF InsertionUpdate
  <2>2. Through(p, node, ins.prop) => k \in 1 .. Len(p) /\ p[k] \in Step
    BY <1>1, ElementOfSeq DEF Through, Path
  <2>3. ~ (Through(p, node, ins.prop) /\ p[k].idx - 1 >= ins.idx)
    BY <1>1, <1>4, <2>2 DEF Step
  <2>4. InsertionReverse(ins, p) = p
    BY <2>3 DEF InsertionReverse
  <2>5. Through(Location(ins), node, ins.prop) /\ Location(ins)[k].idx = ins.idx
    BY <1>1, <1>2 DEF Through, arrStartsWithArr
  <2>6. p # Location(ins)
    BY <1>1, <1>4, <2>5
  <2> QED BY <2>1, <2>4, <2>6
<1> QED BY <1>3, <1>4

---------------------------------------------------------------------------
(* Deletion *)

(* A path through the array of a deleted node, when it is not at or below   *)
(* the node, has another index there.                                      *)
LEMMA SiblingFacts ==
  ASSUME NEW t \in Path, t # <<>>, NEW p \in Path, Sibling(p, t)
  PROVE  /\ Len(t) \in 1 .. Len(p) /\ p[Len(t)] \in Step /\ t[Len(t)] \in Step
         /\ p[Len(t)].prop = t[Len(t)].prop
         /\ arrStartsWithArr(p, t) <=> p[Len(t)].idx = t[Len(t)].idx
<1>1. /\ Len(t) \in Nat \ {0} /\ t[Len(t)] \in Step /\ Len(Front(t)) = Len(t) - 1
      /\ \A i \in 1 .. Len(t) - 1 : Front(t)[i] = t[i]
  BY FrontFacts
<1>2. /\ Len(p) \in Nat /\ Len(p) > Len(t) - 1 /\ p[Len(t) - 1 + 1].prop = t[Len(t)].prop
      /\ \A i \in 1 .. Len(t) - 1 : p[i] = t[i]
  BY <1>1 DEF Sibling, Through, arrStartsWithArr, Path
<1>3. Len(t) \in 1 .. Len(p) /\ Len(t) - 1 + 1 = Len(t) /\ Len(t) <= Len(p)
  BY <1>1, <1>2
<1>4. p[Len(t)] \in Step
  BY <1>3, ElementOfSeq DEF Path
<1>5. p[Len(t)].idx = t[Len(t)].idx <=> p[Len(t)] = t[Len(t)]
  BY <1>1, <1>2, <1>3, <1>4 DEF Step
<1>6. arrStartsWithArr(p, t) <=> p[Len(t)] = t[Len(t)]
  BY <1>1, <1>2, <1>3 DEF arrStartsWithArr
<1> QED BY <1>1, <1>2, <1>3, <1>4, <1>5, <1>6

(* A shift at the deleted element's index keeps a path in its array. *)
LEMMA ShiftSibling ==
  ASSUME NEW t \in Path, t # <<>>, NEW p \in Path, Sibling(p, t), NEW n \in Int,
         p[Len(t)].idx + n \in Nat
  PROVE  Sibling(Shift(p, Len(t), n), t)
<1>1. Len(t) \in 1 .. Len(p)
  BY SiblingFacts
<1>2. Front(t) \in Path /\ Len(Front(t)) + 1 = Len(t) /\ Len(t) \in Nat
  BY FrontFacts
<1>3. Through(Shift(p, Len(Front(t)) + 1, n), Front(t), t[Len(t)].prop)
        <=> Through(p, Front(t), t[Len(t)].prop)
  BY <1>1, <1>2, ShiftThrough
<1> QED BY <1>2, <1>3 DEF Sibling

(* What a deletion does to a path that survives it is undone by its reverse *)
(* (DeletionM.updateASTPath, reverseUpdateASTPath).                        *)
THEOREM DeletionRoundTrip ==
  ASSUME NEW t \in Path, t # <<>>, NEW p \in Path, NEW q \in DeletionUpdate(t, p)
  PROVE  q \in Path /\ DeletionReverse(t, q) = p
<1> DEFINE k == Len(t)
<1>1. ~ arrStartsWithArr(p, t)
  BY DEF DeletionUpdate
<1>2. CASE Sibling(p, t) /\ p[k].idx > t[k].idx
  <2>1. q = Shift(p, k, -1)
    BY <1>1, <1>2 DEF DeletionUpdate
  <2>2. k \in 1 .. Len(p) /\ p[k] \in Step /\ t[k] \in Step
    BY <1>2, SiblingFacts
  <2>3. p[k].idx \in Nat /\ t[k].idx \in Nat /\ p[k].idx + (-1) \in Nat
    BY <1>2, <2>2 DEF Step
  <2>4. q \in Path /\ q[k].idx = p[k].idx - 1
    <3>1. q \in Path /\ q[k] = [prop |-> p[k].prop, idx |-> p[k].idx + (-1)]
      BY <2>1, <2>2, <2>3, ShiftFacts
    <3> QED BY <2>3, <3>1
  <2>5. Sibling(q, t)
    BY <1>2, <2>1, <2>3, ShiftSibling
  <2>6. Shift(q, k, 1) = p
    BY <2>1, <2>2, <2>3, ShiftBack
  <2>7. q[k].idx + 1 > t[k].idx
    BY <1>2, <2>3, <2>4
  <2> QED BY <2>4, <2>5, <2>6, <2>7 DEF DeletionReverse
<1>3. CASE ~ (Sibling(p, t) /\ p[k].idx > t[k].idx)
  <2>1. q = p
    BY <1>1, <1>3 DEF DeletionUpdate
  <2>2. ~ (Sibling(p, t) /\ p[k].idx + 1 > t[k].idx)
    BY <1>1, <1>3, SiblingFacts DEF Step
  <2> QED BY <2>1, <2>2 DEF DeletionReverse
<1> QED BY <1>2, <1>3

(* Conversely, a path of the AST without an array element comes from exactly *)
(* one path of the AST with it: what MovementM.fromMutation relies on when *)
(* it turns a place drawn after the deletion into one before it.           *)
THEOREM DeletionReverseRoundTrip ==
  ASSUME NEW t \in Path, t # <<>>, t[Len(t)].prop \in ArrayProps, NEW p \in Path
  PROVE  /\ DeletionReverse(t, p) \in Path /\ Len(DeletionReverse(t, p)) = Len(p)
         /\ DeletionUpdate(t, DeletionReverse(t, p)) = {p}
<1> DEFINE k == Len(t)
<1>1. CASE Sibling(p, t) /\ p[k].idx + 1 > t[k].idx
  <2> DEFINE q == Shift(p, k, 1)
  <2>1. DeletionReverse(t, p) = q
    BY <1>1 DEF DeletionReverse
  <2>2. k \in 1 .. Len(p) /\ p[k] \in Step /\ t[k] \in Step
    BY <1>1, SiblingFacts
  <2>3. p[k].idx \in Nat /\ t[k].idx \in Nat /\ p[k].idx + 1 \in Nat
    BY <2>2 DEF Step
  <2>4. q \in Path /\ q[k].idx = p[k].idx + 1 /\ Len(q) = Len(p)
    <3>1. /\ q \in Path /\ Len(q) = Len(p)
          /\ q[k] = [prop |-> p[k].prop, idx |-> p[k].idx + 1]
      BY <2>2, <2>3, ShiftFacts
    <3> QED BY <3>1
  <2>5. Sibling(q, t)
    BY <1>1, <2>3, ShiftSibling
  <2>6. Shift(q, k, -1) = p
    BY <2>2, <2>3, ShiftBack
  <2> HIDE DEF q
  <2>7. q[k].idx > t[k].idx /\ q[k].idx # t[k].idx
    BY <1>1, <2>3, <2>4
  <2>8. ~ arrStartsWithArr(q, t)
    BY <2>4, <2>5, <2>7, SiblingFacts
  <2>9. DeletionUpdate(t, q) = {p}
    BY <2>5, <2>6, <2>7, <2>8 DEF DeletionUpdate
  <2> QED BY <2>1, <2>4, <2>9
<1>2. CASE ~ (Sibling(p, t) /\ p[k].idx + 1 > t[k].idx)
  <2>1. DeletionReverse(t, p) = p
    BY <1>2 DEF DeletionReverse
  <2>2. CASE Sibling(p, t)
    <3>1. p[k].idx < t[k].idx /\ p[k].idx # t[k].idx /\ ~ (p[k].idx > t[k].idx)
      BY <1>2, <2>2, SiblingFacts DEF Step
    <3>2. ~ arrStartsWithArr(p, t)
      BY <2>2, <3>1, SiblingFacts
    <3> QED BY <2>1, <3>1, <3>2 DEF DeletionUpdate
  <2>3. CASE ~ Sibling(p, t)
    <3>1. ~ arrStartsWithArr(p, t)
      <4>1. SUFFICES ASSUME arrStartsWithArr(p, t)
                     PROVE  Sibling(p, t)
        BY <2>3
      <4>2. /\ k \in Nat \ {0} /\ Len(Front(t)) = k - 1
            /\ \A i \in 1 .. k - 1 : Front(t)[i] = t[i]
        BY FrontFacts
      <4>3. Len(p) \in Nat
        BY DEF Path
      <4>4. k <= Len(p) /\ p[k] = t[k] /\ \A i \in 1 .. k - 1 : p[i] = Front(t)[i]
        BY <4>1, <4>2, <4>3 DEF arrStartsWithArr
      <4>5. Len(p) > Len(Front(t)) /\ Len(Front(t)) <= Len(p) /\ Len(Front(t)) + 1 = k
        BY <4>2, <4>3, <4>4
      <4>6. Through(p, Front(t), t[k].prop)
        BY <4>2, <4>4, <4>5 DEF Through, arrStartsWithArr
      <4> QED BY <4>6 DEF Sibling
    <3> QED BY <2>1, <2>3, <3>1 DEF DeletionUpdate
  <2> QED BY <2>1, <2>2, <2>3
<1> QED BY <1>1, <1>2

---------------------------------------------------------------------------
(* Movement *)

(* A location is a path, and an insertion can be read from it. *)
LEMMA LocationFacts ==
  ASSUME NEW ins \in Insertion
  PROVE  Location(ins) \in Path /\ Location(ins) # <<>> /\ InsertionAt(Location(ins)) = ins
<1> DEFINE s == [prop |-> ins.prop, idx |-> ins.idx]
           a == Append(ins.node, s)
<1>1. ins.node \in Path /\ s \in Step
  BY DEF Insertion, Step
<1>2. a \in Path /\ a # <<>> /\ a[Len(a)] = s /\ Front(a) = ins.node
  <2>1. /\ a \in Path /\ a # <<>> /\ Len(a) = Len(ins.node) + 1 /\ a[Len(ins.node) + 1] = s
    BY <1>1, AppendFacts
  <2>2. Front(a) = ins.node
    BY <1>1, FrontAppend
  <2> HIDE DEF a
  <2> QED BY <2>1, <2>2
<1>3. Location(ins) = a
  BY DEF Location
<1> HIDE DEF a
<1>4. InsertionAt(a) = [node |-> ins.node, prop |-> ins.prop, idx |-> ins.idx]
  BY <1>2 DEF InsertionAt
<1> QED BY <1>2, <1>3, <1>4 DEF Insertion

(* A movement puts the node where the insertion was drawn in the AST without *)
(* the node, although it is given by the place in the AST before the       *)
(* deletion; neither assertion of MovementM can fail on the way.           *)
THEOREM MoveReachesPlaceDrawn ==
  ASSUME NEW t \in Path, t # <<>>, t[Len(t)].prop \in ArrayProps, NEW ins \in Insertion
  PROVE  /\ Destination(fromMutation(t, ins)) = {Location(ins)}
         /\ MoveInsertion(fromMutation(t, ins)) = ins
<1> DEFINE loc == Location(ins)
           ori == DeletionReverse(t, loc)
           m == fromMutation(t, ins)
<1>1. loc \in Path /\ loc # <<>> /\ InsertionAt(loc) = ins
  BY LocationFacts
<1>2. ori \in Path /\ Len(ori) = Len(loc) /\ DeletionUpdate(t, ori) = {loc}
  BY <1>1, DeletionReverseRoundTrip
<1>3. m.from = t /\ m.node = Front(ori) /\ m.prop = ori[Len(ori)].prop /\ m.idx = ori[Len(ori)].idx
  BY DEF fromMutation
<1> HIDE DEF m, ori, loc
<1>4. ori # <<>>
  BY <1>1, <1>2, EmptySeq DEF Path
<1>5. Location(m) = ori
  BY <1>2, <1>3, <1>4, AppendFront DEF Location
<1>6. Destination(m) = {loc}
  BY <1>2, <1>3, <1>5 DEF Destination
<1>7. MoveInsertion(m) = ins
  BY <1>1, <1>6 DEF MoveInsertion
<1> QED BY <1>6, <1>7 DEF m, loc

(* A deletion keeps the length of a path that survives it. *)
LEMMA DeletionLength ==
  ASSUME NEW t \in Path, t # <<>>, NEW p \in Path, NEW q \in DeletionUpdate(t, p)
  PROVE  Len(q) = Len(p)
<1>1. CASE Sibling(p, t) /\ p[Len(t)].idx > t[Len(t)].idx
  <2>1. q = Shift(p, Len(t), -1)
    BY <1>1 DEF DeletionUpdate
  <2>2. Len(t) \in 1 .. Len(p) /\ p[Len(t)] \in Step /\ t[Len(t)] \in Step
    BY <1>1, SiblingFacts
  <2>3. -1 \in Int /\ p[Len(t)].idx + (-1) \in Nat
    BY <1>1, <2>2 DEF Step
  <2>4. Len(Shift(p, Len(t), -1)) = Len(p)
    BY <2>2, <2>3, ShiftFacts, Zenon
  <2> QED BY <2>1, <2>4
<1>2. CASE ~ (Sibling(p, t) /\ p[Len(t)].idx > t[Len(t)].idx)
  BY <1>2 DEF DeletionUpdate
<1> QED BY <1>1, <1>2

(* The second half of a movement that has a destination is an insertion. *)
LEMMA MoveInsertionType ==
  ASSUME NEW m \in Movement, m.from # <<>>, Destination(m) # {}
  PROVE  MoveInsertion(m) \in Insertion
<1> DEFINE s == [prop |-> m.prop, idx |-> m.idx]
           d == CHOOSE path \in Destination(m) : TRUE
<1>1. m.from \in Path /\ m.node \in Path /\ s \in Step
  BY DEF Movement, Step
<1>2. Location(m) \in Path /\ Location(m) # <<>>
  BY <1>1, AppendFacts DEF Location
<1>3. d \in DeletionUpdate(m.from, Location(m))
  BY DEF Destination
<1>4. MoveInsertion(m) = InsertionAt(d)
  BY DEF MoveInsertion
<1> HIDE DEF d
<1>5. d \in Path /\ Len(d) = Len(Location(m))
  BY <1>1, <1>2, <1>3, DeletionRoundTrip, DeletionLength
<1>6. d # <<>>
  BY <1>2, <1>5, EmptySeq DEF Path
<1>7. Front(d) \in Path /\ d[Len(d)] \in Step
  BY <1>5, <1>6, FrontFacts
<1>8. InsertionAt(d) \in Insertion
  BY <1>7 DEF InsertionAt, Insertion, Step
<1> QED BY <1>4, <1>8

(* What a movement does to a path is undone by its reverse, the path of the *)
(* moved node included (MovementM.updateASTPath, reverseUpdateASTPath).    *)
THEOREM MoveRoundTrip ==
  ASSUME NEW m \in Movement, m.from # <<>>, Destination(m) # {}, NEW p \in Path,
         NEW q \in MoveUpdate(m, p)
  PROVE  q \in Path /\ MoveReverse(m, q) = p
<1> DEFINE ins == MoveInsertion(m)
<1>1. ins \in Insertion /\ m.from \in Path
  BY MoveInsertionType DEF Movement
<1>2. CASE p = m.from
  <2>1. q = Location(ins)
    BY <1>2 DEF MoveUpdate
  <2> QED BY <1>1, <1>2, <2>1, LocationFacts DEF MoveReverse
<1>3. CASE p # m.from
  <2>1. PICK d \in DeletionUpdate(m.from, p) : q = InsertionUpdate(ins, d)
    BY <1>3 DEF MoveUpdate
  <2>2. d \in Path /\ DeletionReverse(m.from, d) = p
    BY <1>1, DeletionRoundTrip
  <2>3. q \in Path /\ InsertionReverse(ins, q) = d /\ q # Location(ins)
    BY <1>1, <2>1, <2>2, InsertionRoundTrip
  <2> QED BY <2>2, <2>3 DEF MoveReverse
<1> QED BY <1>2, <1>3

---------------------------------------------------------------------------
(* Every mutation *)

\* The mutations sm makes: one that takes a node out never has the root for
\* its target, and a movement has a destination.
Mutations ==
  [type : {"InsertionM"}, arg : Insertion]
    \cup [type : {"DeletionM", "ReplacementM"}, arg : Path \ {<<>>}]
    \cup [type : {"MovementM"}, arg : {m \in Movement : m.from # <<>> /\ Destination(m) # {}}]

(* Undoing a mutation takes every path it did not lose back to where it     *)
(* was: the step of MutationSequence.reverseUpdatePath.                    *)
THEOREM UpdateRoundTrip ==
  ASSUME NEW m \in Mutations, NEW p \in Path, NEW q \in updateASTPath(m, p)
  PROVE  q \in Path /\ reverseUpdateASTPath(m, q) = {p}
<1>1. CASE m \in [type : {"InsertionM"}, arg : Insertion]
  <2>1. m.type = "InsertionM" /\ m.arg \in Insertion
    BY <1>1
  <2>2. q = InsertionUpdate(m.arg, p) /\ reverseUpdateASTPath(m, q) = {InsertionReverse(m.arg, q)}
    BY <2>1 DEF updateASTPath, reverseUpdateASTPath
  <2> QED BY <2>1, <2>2, InsertionRoundTrip
<1>2. CASE m \in [type : {"DeletionM", "ReplacementM"}, arg : Path \ {<<>>}]
  <2>1. m.type \in {"DeletionM", "ReplacementM"} /\ m.arg \in Path /\ m.arg # <<>>
    BY <1>2
  <2>2. CASE m.type = "DeletionM"
    <3>1. /\ q \in DeletionUpdate(m.arg, p)
          /\ reverseUpdateASTPath(m, q) = {DeletionReverse(m.arg, q)}
      BY <2>2 DEF updateASTPath, reverseUpdateASTPath
    <3> QED BY <2>1, <3>1, DeletionRoundTrip
  <2>3. CASE m.type = "ReplacementM"
    <3>1. /\ q \in ReplacementUpdate(m.arg, p)
          /\ reverseUpdateASTPath(m, q) = ReplacementUpdate(m.arg, q)
      BY <2>3 DEF updateASTPath, reverseUpdateASTPath
    <3>2. q = p /\ ReplacementUpdate(m.arg, p) = {p}
      BY <3>1 DEF ReplacementUpdate
    <3> QED BY <3>1, <3>2
  <2> QED BY <2>1, <2>2, <2>3
<1>3. CASE m \in [type : {"MovementM"},
                  arg : {x \in Movement : x.from # <<>> /\ Destination(x) # {}}]
  <2>1. m.type = "MovementM" /\ m.arg \in Movement /\ m.arg.from # <<>> /\ Destination(m.arg) # {}
    BY <1>3
  <2>2. q \in MoveUpdate(m.arg, p) /\ reverseUpdateASTPath(m, q) = {MoveReverse(m.arg, q)}
    BY <2>1 DEF updateASTPath, reverseUpdateASTPath
  <2> QED BY <2>1, <2>2, MoveRoundTrip
<1> QED BY <1>1, <1>2, <1>3 DEF Mutations

(* A mutation never sends two paths to one: the fault space of a mutant has *)
(* no two entries for one node.                                            *)
THEOREM UpdateInjective ==
  ASSUME NEW m \in Mutations, NEW p1 \in Path, NEW p2 \in Path,
         updateASTPath(m, p1) \cap updateASTPath(m, p2) # {}
  PROVE  p1 = p2
<1>1. PICK q : q \in updateASTPath(m, p1) /\ q \in updateASTPath(m, p2)
  OBVIOUS
<1>2. reverseUpdateASTPath(m, q) = {p1} /\ reverseUpdateASTPath(m, q) = {p2}
  BY <1>1, UpdateRoundTrip
<1> QED BY <1>2

---------------------------------------------------------------------------
(* Sequences of mutations *)

(* A path has one counterpart at most. *)
LEMMA UpdateUnique ==
  ASSUME NEW m \in Mutations, NEW p, NEW q \in updateASTPath(m, p)
  PROVE  updateASTPath(m, p) = {q}
<1>1. CASE m \in [type : {"InsertionM"}, arg : Insertion]
  BY <1>1 DEF updateASTPath
<1>2. CASE m \in [type : {"DeletionM", "ReplacementM"}, arg : Path \ {<<>>}]
  BY <1>2 DEF updateASTPath, DeletionUpdate, ReplacementUpdate
<1>3. CASE m \in [type : {"MovementM"},
                  arg : {x \in Movement : x.from # <<>> /\ Destination(x) # {}}]
  <2>1. q \in MoveUpdate(m.arg, p) /\ updateASTPath(m, p) = MoveUpdate(m.arg, p)
    BY <1>3 DEF updateASTPath
  <2>2. DeletionUpdate(m.arg.from, p) = {} \/ \E d : DeletionUpdate(m.arg.from, p) = {d}
    BY DEF DeletionUpdate
  <2> HIDE DEF DeletionUpdate
  <2> QED BY <2>1, <2>2 DEF MoveUpdate
<1> QED BY <1>1, <1>2, <1>3 DEF Mutations

(* The path is followed through the sequence: t[k] is where it is after k   *)
(* mutations.                                                              *)
Trail(s, t) ==
  t[0] \in Path /\ \A k \in 1 .. Len(s) : t[k] \in updateASTPath(s[k], t[k - 1])

(* Every place on the way is a path. *)
LEMMA TrailPaths ==
  ASSUME NEW s \in Seq(Mutations), NEW t, Trail(s, t)
  PROVE  \A k \in 0 .. Len(s) : t[k] \in Path
<1> DEFINE T == {k \in 0 .. Len(s) : t[k] \in Path}
<1>1. Len(s) \in Nat
  BY LenProperties
<1>2. 0 \in T
  BY <1>1 DEF Trail
<1>3. ASSUME NEW k \in 1 .. Len(s), k - 1 \in T
      PROVE  k \in T
  <2>1. s[k] \in Mutations /\ t[k - 1] \in Path /\ t[k] \in updateASTPath(s[k], t[k - 1])
    BY <1>3, ElementOfSeq DEF Trail
  <2>2. t[k] \in Path
    BY <2>1, UpdateRoundTrip
  <2> QED BY <1>1, <2>2
<1> HIDE DEF T
<1>4. \A k \in 0 .. Len(s) : k \in T
  BY <1>1, <1>2, <1>3, UpFromZero
<1> QED BY <1>4 DEF T

(* updatePath follows the trail to its end. *)
THEOREM UpdateSequence ==
  ASSUME NEW s \in Seq(Mutations), NEW t, Trail(s, t)
  PROVE  updatePath(s, t[0]) = {t[Len(s)]}
<1> DEFINE n == Len(s)
           step(h, k) == IF k = 0 THEN {t[0]} ELSE UNION {updateASTPath(s[k], p) : p \in h[k - 1]}
           body(h) == [k \in 0 .. n |-> step(h, k)]
           f == CHOOSE h : h = body(h)
           e == [k \in 0 .. n |-> {t[k]}]
<1>1. n \in Nat
  BY LenProperties
<1>2. ASSUME NEW k \in 1 .. n
      PROVE  updateASTPath(s[k], t[k - 1]) = {t[k]}
  <2>1. s[k] \in Mutations /\ t[k] \in updateASTPath(s[k], t[k - 1])
    BY ElementOfSeq DEF Trail
  <2> QED BY <2>1, UpdateUnique, Zenon
<1>3. e = body(e)
  <2>1. ASSUME NEW k \in 0 .. n PROVE e[k] = step(e, k)
    <3>1. CASE k = 0
      BY <3>1
    <3>2. CASE k # 0
      <4>1. k \in 1 .. n /\ k - 1 \in 0 .. n
        BY <1>1, <3>2
      <4>2. e[k - 1] = {t[k - 1]} /\ e[k] = {t[k]}
        BY <4>1, Zenon
      <4>3. updateASTPath(s[k], t[k - 1]) = {t[k]}
        BY <1>2, <4>1, Zenon
      <4> HIDE DEF e
      <4>4. step(e, k) = UNION {updateASTPath(s[k], p) : p \in {t[k - 1]}}
        BY <3>2, <4>2
      <4>5. UNION {updateASTPath(s[k], p) : p \in {t[k - 1]}} = updateASTPath(s[k], t[k - 1])
        OBVIOUS
      <4> QED BY <4>2, <4>3, <4>4, <4>5, Zenon
    <3> QED BY <3>1, <3>2
  <2> QED BY <2>1, Zenon
<1>4. f = body(f)
  BY <1>3, Zenon
<1>5. updatePath(s, t[0]) = f[n]
  BY Zenon DEF updatePath
<1> HIDE DEF f, e
<1> DEFINE T == {k \in 0 .. n : f[k] = {t[k]}}
<1>6. 0 \in T
  <2>1. 0 \in 0 .. n
    BY <1>1
  <2> QED BY <1>4, <2>1, Zenon
<1>7. ASSUME NEW k \in 1 .. n, k - 1 \in T
      PROVE  k \in T
  <2>1. k \in 0 .. n /\ k # 0 /\ f[k - 1] = {t[k - 1]}
    BY <1>1, <1>7
  <2>2. f[k] = step(f, k)
    BY <1>4, <2>1, Zenon
  <2>3. step(f, k) = UNION {updateASTPath(s[k], p) : p \in {t[k - 1]}}
    BY <2>1
  <2>4. UNION {updateASTPath(s[k], p) : p \in {t[k - 1]}} = updateASTPath(s[k], t[k - 1])
    OBVIOUS
  <2>5. updateASTPath(s[k], t[k - 1]) = {t[k]}
    BY <1>2, Zenon
  <2> QED BY <2>1, <2>2, <2>3, <2>4, <2>5, Zenon
<1> HIDE DEF T
<1>8. \A k \in 0 .. n : k \in T
  BY <1>1, <1>6, <1>7, UpFromZero
<1>9. n \in T
  BY <1>1, <1>8
<1> QED BY <1>5, <1>9 DEF T

(* reverseUpdatePath follows it back to its beginning. *)
THEOREM UndoSequence ==
  ASSUME NEW s \in Seq(Mutations), NEW t, Trail(s, t)
  PROVE  reverseUpdatePath(s, t[Len(s)]) = {t[0]}
<1> DEFINE n == Len(s)
           undo(h, k) == UNION {reverseUpdateASTPath(s[k + 1], p) : p \in h[k + 1]}
           step(h, k) == IF k = n THEN {t[n]} ELSE undo(h, k)
           body(h) == [k \in 0 .. n |-> step(h, k)]
           f == CHOOSE h : h = body(h)
           e == [k \in 0 .. n |-> {t[k]}]
<1>1. n \in Nat
  BY LenProperties
<1>2. ASSUME NEW k \in 0 .. n - 1
      PROVE  UNION {reverseUpdateASTPath(s[k + 1], p) : p \in {t[k + 1]}} = {t[k]}
  <2>1. k + 1 \in 1 .. n /\ k \in 0 .. n /\ k = (k + 1) - 1
    BY <1>1
  <2>2. s[k + 1] \in Mutations /\ t[k] \in Path /\ t[k + 1] \in updateASTPath(s[k + 1], t[k])
    BY <2>1, ElementOfSeq, TrailPaths DEF Trail
  <2>3. reverseUpdateASTPath(s[k + 1], t[k + 1]) = {t[k]}
    BY <2>2, UpdateRoundTrip, Zenon
  <2>4. UNION {reverseUpdateASTPath(s[k + 1], p) : p \in {t[k + 1]}} = reverseUpdateASTPath(s[k + 1], t[k + 1])
    OBVIOUS
  <2> QED BY <2>3, <2>4, Zenon
<1>3. e = body(e)
  <2>1. ASSUME NEW k \in 0 .. n PROVE e[k] = step(e, k)
    <3>1. CASE k = n
      BY <3>1
    <3>2. CASE k # n
      <4>1. k \in 0 .. n - 1 /\ k + 1 \in 0 .. n
        BY <1>1, <3>2
      <4>2. e[k + 1] = {t[k + 1]} /\ e[k] = {t[k]}
        BY <4>1, Zenon
      <4> HIDE DEF e
      <4>3. undo(e, k) = {t[k]}
        BY <1>2, <4>1, <4>2, Zenon
      <4> HIDE DEF undo
      <4> QED BY <3>2, <4>2, <4>3
    <3> QED BY <3>1, <3>2
  <2> QED BY <2>1, Zenon
<1>4. f = body(f)
  BY <1>3, Zenon
<1>5. reverseUpdatePath(s, t[n]) = f[0]
  BY Zenon DEF reverseUpdatePath
<1> HIDE DEF f, e
<1> DEFINE T == {k \in 0 .. n : f[k] = {t[k]}}
<1>6. n \in T
  <2>1. n \in 0 .. n
    BY <1>1
  <2> QED BY <1>4, <2>1, Zenon
<1>7. ASSUME NEW k \in 0 .. n - 1, k + 1 \in T
      PROVE  k \in T
  <2>1. k \in 0 .. n /\ k # n /\ f[k + 1] = {t[k + 1]}
    BY <1>1, <1>7
  <2>2. f[k] = step(f, k)
    BY <1>4, <2>1, Zenon
  <2>3. undo(f, k) = {t[k]}
    BY <1>2, <2>1, Zenon
  <2> HIDE DEF undo
  <2> QED BY <2>1, <2>2, <2>3
<1> HIDE DEF T
<1>8. \A k \in 0 .. n : k \in T
  BY <1>1, <1>6, <1>7, DownToZero
<1>9. 0 \in T
  BY <1>1, <1>8
<1> QED BY <1>5, <1>9 DEF T

============================================================================
