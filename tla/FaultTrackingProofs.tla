------------------------ MODULE FaultTrackingProofs ------------------------
(***************************************************************************)
(* Proofs about FaultTracking, for any original AST, any fault space and   *)
(* mutation sequences of any length.                                       *)
(***************************************************************************)
EXTENDS FaultTracking, MutationPathsProofs, FiniteSetTheorems

\* An entry of the fault space: its path is not the root's, and some type of
\* mutation is still allowed (unless the process allows none at all).
Entry(f) ==
  /\ f = [path |-> f.path, remaining |-> f.remaining, node |-> f.node, origin |-> f.origin]
  /\ f.path \in Path /\ f.path # <<>>
  /\ f.remaining # {} \/ MutationTypes = {}

\* What every step preserves: entries are well formed, and so are the mutations
\* that led here.
TrackInv ==
  /\ \A f \in faults : Entry(f) /\ f.remaining \subseteq MutationTypes
  /\ seq \in Seq(Mutations)

(* An insertion keeps the length of a path. *)
LEMMA InsertionLength ==
  ASSUME NEW ins \in Insertion, NEW p \in Path
  PROVE  Len(InsertionUpdate(ins, p)) = Len(p)
<1> DEFINE k == Len(ins.node) + 1
           q == InsertionUpdate(ins, p)
<1>1. CASE Through(p, ins.node, ins.prop) /\ p[k].idx >= ins.idx
  <2>1. q = Shift(p, k, 1)
    BY <1>1 DEF InsertionUpdate
  <2>2. k \in 1 .. Len(p) /\ p[k] \in Step
    BY <1>1, ElementOfSeq DEF Through, Insertion, Path
  <2>3. 1 \in Int /\ p[k].idx + 1 \in Nat
    BY <2>2 DEF Step
  <2>4. Len(Shift(p, k, 1)) = Len(p)
    BY <2>2, <2>3, ShiftFacts, Zenon
  <2> QED BY <2>1, <2>4
<1>2. CASE ~ (Through(p, ins.node, ins.prop) /\ p[k].idx >= ins.idx)
  BY <1>2 DEF InsertionUpdate
<1> QED BY <1>1, <1>2

(* A mutation never makes the path of a node below the root the root's. *)
LEMMA UpdateNonEmpty ==
  ASSUME NEW m \in Mutations, NEW p \in Path, p # <<>>, NEW q \in updateASTPath(m, p)
  PROVE  q \in Path /\ q # <<>>
<1>1. q \in Path /\ reverseUpdateASTPath(m, q) = {p}
  BY UpdateRoundTrip
<1>2. Len(p) \in Nat \ {0}
  BY FrontFacts
<1>3. CASE m \in [type : {"InsertionM"}, arg : Insertion]
  <2>1. m.type = "InsertionM" /\ m.arg \in Insertion
    BY <1>3
  <2>2. q = InsertionUpdate(m.arg, p)
    BY <2>1 DEF updateASTPath
  <2>3. Len(q) = Len(p)
    BY <2>1, <2>2, InsertionLength
  <2> QED BY <1>1, <1>2, <2>3, EmptySeq
<1>4. CASE m \in [type : {"DeletionM", "ReplacementM"}, arg : Path \ {<<>>}]
  <2>1. m.type \in {"DeletionM", "ReplacementM"} /\ m.arg \in Path /\ m.arg # <<>>
    BY <1>4
  <2>2. CASE m.type = "DeletionM"
    <3>1. q \in DeletionUpdate(m.arg, p)
      BY <2>2 DEF updateASTPath
    <3>2. Len(q) = Len(p)
      BY <2>1, <3>1, DeletionLength
    <3> QED BY <1>1, <1>2, <3>2, EmptySeq
  <2>3. CASE m.type = "ReplacementM"
    <3>1. q = p
      BY <2>3 DEF updateASTPath, ReplacementUpdate
    <3> QED BY <1>1, <3>1
  <2> QED BY <2>1, <2>2, <2>3
<1>5. CASE m \in [type : {"MovementM"},
                  arg : {x \in Movement : x.from # <<>> /\ Destination(x) # {}}]
  <2>1. m.type = "MovementM" /\ m.arg \in Movement /\ m.arg.from # <<>> /\ Destination(m.arg) # {}
    BY <1>5
  <2> DEFINE ins == MoveInsertion(m.arg)
  <2>2. ins \in Insertion /\ m.arg.from \in Path
    BY <2>1, MoveInsertionType DEF Movement
  <2>3. q \in MoveUpdate(m.arg, p)
    BY <2>1 DEF updateASTPath
  <2>4. CASE p = m.arg.from
    <3>1. q = Location(ins)
      BY <2>3, <2>4 DEF MoveUpdate
    <3> QED BY <2>2, <3>1, LocationFacts
  <2>5. CASE p # m.arg.from
    <3>1. PICK d \in DeletionUpdate(m.arg.from, p) : q = InsertionUpdate(ins, d)
      BY <2>3, <2>5 DEF MoveUpdate
    <3>2. d \in Path /\ Len(d) = Len(p)
      BY <2>1, <2>2, DeletionRoundTrip, DeletionLength
    <3>3. Len(q) = Len(p)
      BY <2>2, <3>1, <3>2, InsertionLength
    <3> QED BY <1>1, <1>2, <3>3, EmptySeq
  <2> QED BY <2>4, <2>5
<1> QED BY <1>3, <1>4, <1>5 DEF Mutations

(* The movement made of a drawn deletion and insertion is well formed. *)
LEMMA fromMutationType ==
  ASSUME NEW t \in Path, t # <<>>, t[Len(t)].prop \in ArrayProps, NEW ins \in Insertion
  PROVE  fromMutation(t, ins) \in {m \in Movement : m.from # <<>> /\ Destination(m) # {}}
<1> DEFINE loc == Location(ins)
           ori == DeletionReverse(t, loc)
<1>1. loc \in Path /\ loc # <<>>
  BY LocationFacts
<1>2. ori \in Path /\ Len(ori) = Len(loc)
  BY <1>1, DeletionReverseRoundTrip
<1>3. fromMutation(t, ins) = [from |-> t, node |-> Front(ori), prop |-> ori[Len(ori)].prop,
                              idx |-> ori[Len(ori)].idx]
  BY DEF fromMutation
<1> HIDE DEF ori, loc
<1>4. ori # <<>>
  BY <1>1, <1>2, EmptySeq DEF Path
<1>5. Front(ori) \in Path /\ ori[Len(ori)] \in Step
  BY <1>2, <1>4, FrontFacts
<1>6. fromMutation(t, ins) \in Movement /\ fromMutation(t, ins).from # <<>>
  BY <1>3, <1>5 DEF Movement, Step
<1>7. Destination(fromMutation(t, ins)) # {}
  BY MoveReachesPlaceDrawn
<1> QED BY <1>6, <1>7

(* Every step appends a well formed mutation and updates the fault space    *)
(* by it.                                                                  *)
LEMMA NextExtends ==
  ASSUME TrackInv, Next
  PROVE  \E m \in Mutations : \E renamed :
           seq' = Append(seq, m) /\ faults' = NewFaults(m, renamed)
<1>1. PICK f \in faults :
        \/ Delete(f)
        \/ \E k \in {"ExpressionStatement", "Expression", "Block"} : Replace(f, k)
        \/ \E prop \in ArrayProps, i \in 0 .. MaxIndex :
             Insert(f, prop, i) \/ \E g \in faults : Move(f, g, prop, i)
  BY DEF Next
<1>2. f.path \in Path /\ f.path # <<>>
  BY DEF TrackInv, Entry
<1>3. CASE Delete(f)
  <2> DEFINE m == [type |-> "DeletionM", arg |-> f.path]
  <2>1. seq' = Append(seq, m) /\ faults' = NewFaults(m, Same)
    BY <1>3 DEF Delete, Extend
  <2>2. m \in Mutations
    BY <1>2 DEF Mutations
  <2> QED BY <2>1, <2>2
<1>4. ASSUME NEW k, Replace(f, k)
      PROVE  \E m \in Mutations : \E renamed :
               seq' = Append(seq, m) /\ faults' = NewFaults(m, renamed)
  <2> DEFINE m == [type |-> "ReplacementM", arg |-> f.path]
             r == [Same EXCEPT ![NodeAt(f.path)] = Len(kind) + 1]
  <2>1. seq' = Append(seq, m) /\ faults' = NewFaults(m, r)
    BY <1>4 DEF Replace, Extend
  <2>2. m \in Mutations
    BY <1>2 DEF Mutations
  <2> QED BY <2>1, <2>2
<1>5. ASSUME NEW prop \in ArrayProps, NEW i \in 0 .. MaxIndex, Insert(f, prop, i)
      PROVE  \E m \in Mutations : \E renamed :
               seq' = Append(seq, m) /\ faults' = NewFaults(m, renamed)
  <2> DEFINE ins == [node |-> f.path, prop |-> prop, idx |-> i]
             m == [type |-> "InsertionM", arg |-> ins]
  <2>1. seq' = Append(seq, m) /\ faults' = NewFaults(m, Same)
    BY <1>5 DEF Insert, Extend
  <2>2. ins \in Insertion
    BY <1>2, PropsAssumption DEF Insertion
  <2>3. m \in Mutations
    BY <2>2 DEF Mutations
  <2> QED BY <2>1, <2>3
<1>6. ASSUME NEW prop \in ArrayProps, NEW i \in 0 .. MaxIndex, NEW g \in faults,
             Move(f, g, prop, i)
      PROVE  \E m \in Mutations : \E renamed :
               seq' = Append(seq, m) /\ faults' = NewFaults(m, renamed)
  <2>1. PICK p \in DeletionUpdate(f.path, g.path) :
          Extend("MovementM", fromMutation(f.path, [node |-> p, prop |-> prop, idx |-> i]), Same)
    BY <1>6 DEF Move
  <2>2. g.path \in Path
    BY DEF TrackInv, Entry
  <2>3. p \in Path
    BY <1>2, <2>2, DeletionRoundTrip
  <2> DEFINE ins == [node |-> p, prop |-> prop, idx |-> i]
             m == [type |-> "MovementM", arg |-> fromMutation(f.path, ins)]
  <2>4. ins \in Insertion
    BY <2>3, PropsAssumption DEF Insertion
  <2>5. f.path[Len(f.path)].prop \in ArrayProps
    BY <1>6 DEF Move, Deletable
  <2>6. fromMutation(f.path, ins) \in {x \in Movement : x.from # <<>> /\ Destination(x) # {}}
    BY <1>2, <2>4, <2>5, fromMutationType
  <2>7. m \in Mutations
    BY <2>6 DEF Mutations
  <2>8. seq' = Append(seq, m) /\ faults' = NewFaults(m, Same)
    BY <2>1 DEF Extend
  <2> QED BY <2>7, <2>8
<1> QED BY <1>1, <1>3, <1>4, <1>5, <1>6

(* The entries of a mutant's fault space come from its base's. *)
LEMMA NewFaultsFrom ==
  ASSUME NEW m, NEW renamed, NEW g \in NewFaults(m, renamed), \A f \in faults : Entry(f)
  PROVE  \E f \in faults : \E p \in updateASTPath(m, f.path) :
           /\ g = [path |-> p, remaining |-> StillAllowed(f, m),
                   node |-> renamed[f.node], origin |-> f.origin]
           /\ g.remaining # {}
<1>1. PICK f \in faults : \E p \in updateASTPath(m, f.path) :
        /\ g = [f EXCEPT !.path = p, !.remaining = StillAllowed(f, m), !.node = renamed[f.node]]
        /\ g.remaining # {}
  BY DEF NewFaults, Carried
<1>2. PICK p \in updateASTPath(m, f.path) :
        /\ g = [f EXCEPT !.path = p, !.remaining = StillAllowed(f, m), !.node = renamed[f.node]]
        /\ g.remaining # {}
  BY <1>1
<1>3. f = [path |-> f.path, remaining |-> f.remaining, node |-> f.node, origin |-> f.origin]
  BY DEF Entry
<1>4. g = [path |-> p, remaining |-> StillAllowed(f, m), node |-> renamed[f.node], origin |-> f.origin]
  BY <1>2, <1>3
<1> QED BY <1>2, <1>4

---------------------------------------------------------------------------
(* Paths and the nodes they lead to *)

\* k is an AST of N nodes; Root, which is 1, is nobody's child.
Heap(k, N) == N \in Nat \ {0} /\ k \in [1 .. N -> [Props -> Seq(2 .. N)]]

\* w is the nodes a path goes through.
Walk(k, p, w) == w[0] = Root /\ \A i \in 1 .. Len(p) : w[i] = Child(k, w[i - 1], p[i])

\* w is the nodes of a path that leads somewhere.
Follows(k, p, w) ==
  /\ w[0] = Root
  /\ \A i \in 1 .. Len(p) : /\ p[i].idx + 1 \in 1 .. Len(k[w[i - 1]][p[i].prop])
                            /\ w[i] = k[w[i - 1]][p[i].prop][p[i].idx + 1]

(* Every path goes through some nodes. *)
LEMMA WalkExists ==
  ASSUME NEW k, NEW p \in Path
  PROVE  \E w : Walk(k, p, w)
<1> DEFINE Part(w, n) == w[0] = Root /\ \A i \in 1 .. n : w[i] = Child(k, w[i - 1], p[i])
           T == {n \in 0 .. Len(p) : \E w : Part(w, n)}
<1>1. Len(p) \in Nat
  BY LenProperties DEF Path
<1>2. 0 \in T
  <2> DEFINE r == [i \in {0} |-> Root]
  <2>1. Part(r, 0)
    OBVIOUS
  <2> HIDE DEF Part, r
  <2>2. \E w : Part(w, 0)
    BY <2>1, Zenon
  <2> QED BY <1>1, <2>2
<1>3. ASSUME NEW n \in 1 .. Len(p), n - 1 \in T
      PROVE  n \in T
  <2>1. PICK v : Part(v, n - 1)
    BY <1>3
  <2> DEFINE w == [i \in 0 .. n |-> IF i = n THEN Child(k, v[n - 1], p[n]) ELSE v[i]]
  <2>2. w[0] = Root
    BY <2>1
  <2>3. ASSUME NEW i \in 1 .. n PROVE w[i] = Child(k, w[i - 1], p[i])
    <3>1. w[i - 1] = v[i - 1]
      OBVIOUS
    <3>2. CASE i = n
      <4>1. w[n] = Child(k, v[n - 1], p[n])
        <5>1. n \in 0 .. n
          OBVIOUS
        <5> QED BY <5>1, Zenon
      <4> HIDE DEF w
      <4> QED BY <3>1, <3>2, <4>1, Zenon
    <3>3. CASE i # n
      <4>1. i \in 1 .. n - 1 /\ w[i] = v[i]
        BY <3>3
      <4>2. v[i] = Child(k, v[i - 1], p[i])
        BY <2>1, <4>1, Zenon
      <4> HIDE DEF w
      <4> QED BY <3>1, <4>1, <4>2, Zenon
    <3> QED BY <3>2, <3>3
  <2> HIDE DEF w
  <2>4. Part(w, n)
    BY <2>2, <2>3, Zenon
  <2> HIDE DEF Part
  <2> QED BY <1>1, <2>4
<1> HIDE DEF T
<1>4. \A n \in 0 .. Len(p) : n \in T
  BY <1>1, <1>2, <1>3, UpFromZero
<1>5. Len(p) \in T
  BY <1>1, <1>4
<1>6. PICK w : Part(w, Len(p))
  BY <1>5, Zenon DEF T
<1> QED BY <1>6, Zenon DEF Walk

(* getASTNodeFromPath is the last of them. *)
LEMMA NodeAtWalk ==
  ASSUME NEW k, NEW p \in Path, NEW w, Walk(k, p, w)
  PROVE  NodeAtIn(k, p) = w[Len(p)]
<1> DEFINE n == Len(p)
           step(h, i) == IF i = 0 THEN Root ELSE Child(k, h[i - 1], p[i])
           body(h) == [i \in 0 .. n |-> step(h, i)]
           f == CHOOSE h : h = body(h)
           e == [i \in 0 .. n |-> w[i]]
<1>1. n \in Nat
  BY LenProperties DEF Path
<1>2. e = body(e)
  <2>1. ASSUME NEW i \in 0 .. n PROVE e[i] = step(e, i)
    <3>1. CASE i = 0
      BY <3>1 DEF Walk
    <3>2. CASE i # 0
      <4>1. i \in 1 .. n /\ i - 1 \in 0 .. n
        BY <1>1, <3>2
      <4>2. e[i - 1] = w[i - 1] /\ e[i] = w[i]
        BY <4>1, Zenon
      <4>3. w[i] = Child(k, w[i - 1], p[i])
        BY <4>1, Zenon DEF Walk
      <4> HIDE DEF e
      <4> QED BY <3>2, <4>2, <4>3, Zenon
    <3> QED BY <3>1, <3>2
  <2> QED BY <2>1, Zenon
<1>3. f = body(f)
  BY <1>2, Zenon
<1>4. NodeAtIn(k, p) = f[n]
  BY Zenon DEF NodeAtIn
<1> HIDE DEF f, e
<1> DEFINE T == {i \in 0 .. n : f[i] = w[i]}
<1>5. 0 \in T
  <2>1. 0 \in 0 .. n
    BY <1>1
  <2>2. f[0] = Root
    BY <1>3, <2>1, Zenon
  <2> QED BY <2>1, <2>2 DEF Walk
<1>6. ASSUME NEW i \in 1 .. n, i - 1 \in T
      PROVE  i \in T
  <2>1. i \in 0 .. n /\ i # 0 /\ f[i - 1] = w[i - 1]
    BY <1>1, <1>6
  <2>2. f[i] = step(f, i)
    BY <1>3, <2>1, Zenon
  <2>3. w[i] = Child(k, w[i - 1], p[i])
    BY Zenon DEF Walk
  <2> QED BY <2>1, <2>2, <2>3, Zenon
<1> HIDE DEF T
<1>7. \A i \in 0 .. n : i \in T
  BY <1>1, <1>5, <1>6, UpFromZero
<1>8. n \in T
  BY <1>1, <1>7
<1> QED BY <1>4, <1>8 DEF T

(* The empty path leads to the root. *)
LEMMA RootPath == \A k : NodeAtIn(k, <<>>) = Root
<1> SUFFICES ASSUME NEW k PROVE NodeAtIn(k, <<>>) = Root
  OBVIOUS
<1>1. <<>> \in Path /\ Len(<<>>) = 0
  BY EmptySeq DEF Path
<1>2. PICK w : Walk(k, <<>>, w)
  BY <1>1, WalkExists, Zenon
<1>3. NodeAtIn(k, <<>>) = w[0]
  BY <1>1, <1>2, NodeAtWalk
<1> QED BY <1>2, <1>3 DEF Walk

(* The nodes of a path that leads somewhere are nodes of the AST. *)
LEMMA FollowsNodes ==
  ASSUME NEW k, NEW N, Heap(k, N), NEW p \in Path, NEW w, Follows(k, p, w)
  PROVE  \A i \in 0 .. Len(p) : w[i] \in 1 .. N
<1> DEFINE T == {i \in 0 .. Len(p) : w[i] \in 1 .. N}
<1>1. Len(p) \in Nat
  BY LenProperties DEF Path
<1>2. 0 \in T
  BY <1>1 DEF Follows, Root, Heap
<1>3. ASSUME NEW i \in 1 .. Len(p), i - 1 \in T
      PROVE  i \in T
  <2>1. p[i] \in Step
    BY ElementOfSeq DEF Path
  <2> DEFINE ns == k[w[i - 1]][p[i].prop]
  <2>2. ns \in Seq(2 .. N)
    BY <1>3, <2>1 DEF Heap, Step
  <2>3. p[i].idx + 1 \in 1 .. Len(ns) /\ w[i] = ns[p[i].idx + 1]
    BY DEF Follows
  <2> HIDE DEF ns
  <2>4. w[i] \in 2 .. N
    BY <2>2, <2>3, ElementOfSeq
  <2> QED BY <1>1, <2>4
<1> HIDE DEF T
<1>4. \A i \in 0 .. Len(p) : i \in T
  BY <1>1, <1>2, <1>3, UpFromZero
<1> QED BY <1>4 DEF T

(* The path leads to the last one. *)
LEMMA FollowsTo ==
  ASSUME NEW k, NEW N, Heap(k, N), NEW p \in Path, NEW w, Follows(k, p, w)
  PROVE  NodeAtIn(k, p) = w[Len(p)] /\ w[Len(p)] \in 1 .. N
<1>1. Len(p) \in Nat
  BY LenProperties DEF Path
<1>2. ASSUME NEW i \in 1 .. Len(p) PROVE w[i] = Child(k, w[i - 1], p[i])
  <2>1. i - 1 \in 0 .. Len(p)
    BY <1>1
  <2>2. w[i - 1] \in 1 .. N
    BY <2>1, FollowsNodes
  <2>6. w[i - 1] # Nothing
    BY <2>2 DEF Nothing, Heap
  <2>3. p[i] \in Step
    BY ElementOfSeq DEF Path
  <2> DEFINE ns == k[w[i - 1]][p[i].prop]
  <2>4. p[i].idx \in Nat /\ p[i].idx + 1 \in 1 .. Len(ns) /\ w[i] = ns[p[i].idx + 1]
    BY <2>3 DEF Follows, Step
  <2>5. p[i].idx < Len(ns)
    <3> HIDE DEF ns
    <3>1. p[i].idx + 1 <= Len(ns) /\ p[i].idx \in Nat
      BY <2>4
    <3>2. Len(ns) \in Nat
      <4>1. ns \in Seq(2 .. N)
        <5>1. p[i].prop \in Props
          BY <2>3 DEF Step
        <5> QED BY <2>2, <5>1 DEF Heap, ns
      <4> QED BY <4>1, LenProperties
    <3> QED BY <3>1, <3>2
  <2> QED BY <2>4, <2>5, <2>6, Zenon DEF Child
<1>3. Walk(k, p, w)
  BY <1>2 DEF Walk, Follows
<1> QED BY <1>1, <1>3, NodeAtWalk, FollowsNodes

(* And a path that leads to a node goes through nodes. *)
LEMMA NodeFollows ==
  ASSUME NEW k, NEW N, Heap(k, N), NEW p \in Path, NodeAtIn(k, p) # Nothing
  PROVE  \E w : Follows(k, p, w)
<1>1. Len(p) \in Nat
  BY LenProperties DEF Path
<1>2. PICK w : Walk(k, p, w)
  BY WalkExists
<1>3. w[Len(p)] # Nothing
  BY <1>2, NodeAtWalk
<1> DEFINE T == {i \in 0 .. Len(p) : w[i] # Nothing}
<1>4. Len(p) \in T
  BY <1>1, <1>3
<1>5. ASSUME NEW i \in 0 .. Len(p) - 1, i + 1 \in T
      PROVE  i \in T
  <2>1. i + 1 \in 1 .. Len(p) /\ (i + 1) - 1 = i /\ i \in 0 .. Len(p) /\ w[i + 1] # Nothing
    BY <1>1, <1>5
  <2>2. w[i + 1] = Child(k, w[i], p[i + 1])
    BY <1>2, <2>1 DEF Walk
  <2>3. w[i] # Nothing
    BY <2>1, <2>2, Zenon DEF Child
  <2> QED BY <2>1, <2>3
<1> HIDE DEF T
<1>6. \A i \in 0 .. Len(p) : i \in T
  BY <1>1, <1>4, <1>5, DownToZero
<1> DEFINE ns(i) == k[w[i - 1]][p[i].prop]
           U == {i \in 0 .. Len(p) : w[i] \in 1 .. N}
<1>7. ASSUME NEW i \in 1 .. Len(p), i - 1 \in U
      PROVE  /\ p[i].idx + 1 \in 1 .. Len(ns(i)) /\ w[i] = ns(i)[p[i].idx + 1]
             /\ w[i] \in 1 .. N
  <2>1. i \in T
    BY <1>1, <1>6
  <2>2. w[i] # Nothing /\ w[i] = Child(k, w[i - 1], p[i])
    BY <1>2, <2>1 DEF T, Walk
  <2>3. p[i].idx < Len(ns(i)) /\ w[i] = ns(i)[p[i].idx + 1]
    BY <2>2, Zenon DEF Child
  <2>4. p[i] \in Step
    BY ElementOfSeq DEF Path
  <2>5. p[i].idx \in Nat /\ ns(i) \in Seq(2 .. N)
    BY <1>7, <2>4 DEF Step, Heap
  <2> HIDE DEF ns, U
  <2>6. Len(ns(i)) \in Nat
    BY <2>5, LenProperties
  <2>7. p[i].idx + 1 \in 1 .. Len(ns(i))
    BY <2>3, <2>5, <2>6
  <2>8. w[i] \in 2 .. N
    BY <2>3, <2>5, <2>7, ElementOfSeq
  <2> QED BY <2>3, <2>7, <2>8
<1>8. 0 \in U
  BY <1>1, <1>2 DEF Walk, Root, Heap
<1>9. \A i \in 1 .. Len(p) : i - 1 \in U => i \in U
  BY <1>1, <1>7
<1> HIDE DEF U
<1>10. \A i \in 0 .. Len(p) : i \in U
  BY <1>1, <1>8, <1>9, UpFromZero
<1>11. ASSUME NEW i \in 1 .. Len(p)
       PROVE  p[i].idx + 1 \in 1 .. Len(ns(i)) /\ w[i] = ns(i)[p[i].idx + 1]
  <2>1. i - 1 \in U
    BY <1>1, <1>10
  <2> QED BY <1>7, <2>1, Zenon
<1> QED BY <1>2, <1>11 DEF Follows, Walk

(* One step of a path. *)
LEMMA FollowsStep ==
  ASSUME NEW k, NEW N, Heap(k, N), NEW p \in Path, NEW w, Follows(k, p, w), NEW i \in 1 .. Len(p)
  PROVE  /\ p[i] = [prop |-> p[i].prop, idx |-> p[i].idx] /\ p[i].prop \in Props /\ p[i].idx \in Nat
         /\ w[i - 1] \in 1 .. N /\ w[i] \in 2 .. N
         /\ k[w[i - 1]][p[i].prop] \in Seq(2 .. N)
         /\ p[i].idx + 1 \in 1 .. Len(k[w[i - 1]][p[i].prop])
         /\ w[i] = k[w[i - 1]][p[i].prop][p[i].idx + 1]
<1> DEFINE ns == k[w[i - 1]][p[i].prop]
<1>0. Len(p) \in Nat
  BY LenProperties DEF Path
<1>1. p[i] \in Step
  BY ElementOfSeq DEF Path
<1>2. p[i] = [prop |-> p[i].prop, idx |-> p[i].idx] /\ p[i].prop \in Props /\ p[i].idx \in Nat
  BY <1>1 DEF Step
<1>3. i - 1 \in 0 .. Len(p)
  BY <1>0
<1>4. w[i - 1] \in 1 .. N
  BY <1>3, FollowsNodes
<1>5. ns \in Seq(2 .. N)
  BY <1>2, <1>4 DEF Heap
<1>6. p[i].idx + 1 \in 1 .. Len(ns) /\ w[i] = ns[p[i].idx + 1]
  BY DEF Follows
<1> HIDE DEF ns
<1>7. w[i] \in 2 .. N
  BY <1>5, <1>6, ElementOfSeq
<1> QED BY <1>2, <1>4, <1>5, <1>6, <1>7 DEF ns

Steps(k, N, p, w) ==
  \A i \in 1 .. Len(p) :
    /\ p[i] = [prop |-> p[i].prop, idx |-> p[i].idx] /\ p[i].prop \in Props /\ p[i].idx \in Nat
    /\ w[i - 1] \in 1 .. N /\ w[i] \in 2 .. N
    /\ k[w[i - 1]][p[i].prop] \in Seq(2 .. N)
    /\ p[i].idx + 1 \in 1 .. Len(k[w[i - 1]][p[i].prop])
    /\ w[i] = k[w[i - 1]][p[i].prop][p[i].idx + 1]

(* All its steps. *)
LEMMA FollowsSteps ==
  ASSUME NEW k, NEW N, Heap(k, N), NEW p \in Path, NEW w, Follows(k, p, w)
  PROVE  Steps(k, N, p, w)
<1>1. ASSUME NEW i \in 1 .. Len(p)
      PROVE  /\ p[i] = [prop |-> p[i].prop, idx |-> p[i].idx] /\ p[i].prop \in Props /\ p[i].idx \in Nat
             /\ w[i - 1] \in 1 .. N /\ w[i] \in 2 .. N
             /\ k[w[i - 1]][p[i].prop] \in Seq(2 .. N)
             /\ p[i].idx + 1 \in 1 .. Len(k[w[i - 1]][p[i].prop])
             /\ w[i] = k[w[i - 1]][p[i].prop][p[i].idx + 1]
  BY FollowsStep
<1> QED BY <1>1, Zenon DEF Steps

(* A child's place. *)
LEMMA OnlyPlace ==
  ASSUME NEW k, OneParent(k), NEW a \in DOMAIN k, NEW b \in DOMAIN k, NEW p \in Props, NEW q \in Props,
         NEW i \in DOMAIN k[a][p], NEW j \in DOMAIN k[b][q], k[a][p][i] = k[b][q][j]
  PROVE  a = b /\ p = q /\ i = j
BY DEF OneParent

(* In a tree only one path leads to a node. *)
LEMMA SamePath ==
  ASSUME NEW k, NEW N, Heap(k, N), OneParent(k),
         NEW p \in Path, NEW w, Follows(k, p, w), NEW a \in 0 .. Len(p),
         NEW r \in Path, NEW v, Follows(k, r, v), NEW b \in 0 .. Len(r), w[a] = v[b]
  PROVE  a = b /\ \A i \in 1 .. a : p[i] = r[i]
<1> DEFINE Good(c) == \A d \in 0 .. Len(r) : w[c] = v[d] => c = d /\ \A i \in 1 .. c : p[i] = r[i]
           T == {c \in 0 .. Len(p) : Good(c)}
<1>1. Len(p) \in Nat /\ Len(r) \in Nat
  BY LenProperties DEF Path
<1>2. w[0] = Root /\ v[0] = Root /\ Root = 1
  BY DEF Follows, Root
<1>3. 0 \in T
  <2>1. ASSUME NEW d \in 0 .. Len(r), w[0] = v[d] PROVE d = 0
    <3>1. CASE d # 0
      <4>1. d \in 1 .. Len(r)
        BY <1>1, <3>1
      <4>2. v[d] \in 2 .. N
        BY <4>1, FollowsStep
      <4> QED BY <1>2, <2>1, <4>2
    <3> QED BY <3>1
  <2>2. \A i \in 1 .. 0 : p[i] = r[i]
    OBVIOUS
  <2>3. Good(0)
    BY <2>1, <2>2
  <2>4. 0 \in 0 .. Len(p)
    BY <1>1
  <2> HIDE DEF Good
  <2> QED BY <2>3, <2>4
<1>4. ASSUME NEW c \in 1 .. Len(p), c - 1 \in T
      PROVE  c \in T
  <2>1. ASSUME NEW d \in 0 .. Len(r), w[c] = v[d]
        PROVE  c = d /\ \A i \in 1 .. c : p[i] = r[i]
    <3> DEFINE x == w[c - 1]
               y == v[d - 1]
               ns == k[x][p[c].prop]
               ms == k[y][r[d].prop]
    <3>1. /\ p[c] = [prop |-> p[c].prop, idx |-> p[c].idx] /\ p[c].prop \in Props /\ p[c].idx \in Nat
          /\ x \in 1 .. N /\ w[c] \in 2 .. N /\ ns \in Seq(2 .. N)
          /\ p[c].idx + 1 \in 1 .. Len(ns) /\ w[c] = ns[p[c].idx + 1]
      BY FollowsStep
    <3>2. d # 0
      <4>1. w[c] \in 2 .. N
        BY <3>1, Zenon
      <4> HIDE DEF x, y, ns, ms
      <4> QED BY <1>2, <2>1, <4>1
    <3>3. d \in 1 .. Len(r)
      BY <1>1, <3>2
    <3>4. /\ r[d] = [prop |-> r[d].prop, idx |-> r[d].idx] /\ r[d].prop \in Props /\ r[d].idx \in Nat
          /\ y \in 1 .. N /\ ms \in Seq(2 .. N)
          /\ r[d].idx + 1 \in 1 .. Len(ms) /\ v[d] = ms[r[d].idx + 1]
      BY <3>3, FollowsStep
    <3>5. DOMAIN k = 1 .. N
      BY DEF Heap
    <3>6. x = y /\ p[c].prop = r[d].prop /\ p[c].idx + 1 = r[d].idx + 1
      <4>1. p[c].idx + 1 \in DOMAIN ns /\ r[d].idx + 1 \in DOMAIN ms
        <5> HIDE DEF ns, ms
        <5> QED BY <3>1, <3>4, LenProperties
      <4>2. ns[p[c].idx + 1] = ms[r[d].idx + 1]
        BY <2>1, <3>1, <3>4, Zenon
      <4>3. x \in DOMAIN k /\ y \in DOMAIN k /\ p[c].prop \in Props /\ r[d].prop \in Props
        BY <3>1, <3>4, <3>5, Zenon
      <4> HIDE DEF x, y
      <4> QED BY <4>1, <4>2, <4>3, OnlyPlace DEF ns, ms
    <3> HIDE DEF ns, ms
    <3>7. p[c] = r[d]
      <4>1. p[c].idx = r[d].idx
        <5>1. p[c].idx \in Nat /\ r[d].idx \in Nat /\ p[c].idx + 1 = r[d].idx + 1
          BY <3>1, <3>4, <3>6, Zenon
        <5> QED BY <5>1
      <4> QED BY <3>1, <3>4, <3>6, <4>1, Zenon
    <3>8. d - 1 \in 0 .. Len(r) /\ Good(c - 1)
      <4>1. d - 1 \in 0 .. Len(r)
        BY <1>1, <3>3
      <4> QED BY <1>4, <4>1, Zenon
    <3>9. c - 1 = d - 1 /\ \A i \in 1 .. c - 1 : p[i] = r[i]
      BY <3>6, <3>8 DEF x, y
    <3>10. c = d
      BY <3>9
    <3>11. ASSUME NEW i \in 1 .. c PROVE p[i] = r[i]
      <4>1. CASE i = c
        BY <3>7, <3>10, <4>1
      <4>2. CASE i # c
        <5>1. i \in 1 .. c - 1
          BY <4>2
        <5> QED BY <3>9, <5>1
      <4> QED BY <4>1, <4>2
    <3> QED BY <3>10, <3>11
  <2>2. Good(c)
    BY <2>1
  <2>3. c \in 0 .. Len(p)
    BY <1>1
  <2> HIDE DEF Good
  <2> QED BY <2>2, <2>3
<1> HIDE DEF T
<1>5. \A c \in 0 .. Len(p) : c \in T
  BY <1>1, <1>3, <1>4, UpFromZero
<1>6. a \in T
  BY <1>5
<1>7. Good(a)
  BY <1>6 DEF T
<1> QED BY <1>7

(* A path through an array of a node: where it comes to the node. *)
LEMMA AtArray ==
  ASSUME NEW k, NEW N, Heap(k, N), OneParent(k),
         NEW p \in Path, NEW w, Follows(k, p, w), NEW i \in 1 .. Len(p),
         NEW node \in Path, NEW v, Follows(k, node, v), NEW P
  PROVE  (w[i - 1] = v[Len(node)] /\ p[i].prop = P) <=> (i = Len(node) + 1 /\ Through(p, node, P))
<1>1. Len(p) \in Nat /\ Len(node) \in Nat
  BY LenProperties DEF Path
<1>2. i - 1 \in 0 .. Len(p) /\ Len(node) \in 0 .. Len(node)
  BY <1>1
<1>3. ASSUME w[i - 1] = v[Len(node)], p[i].prop = P
      PROVE  i = Len(node) + 1 /\ Through(p, node, P)
  <2>1. i - 1 = Len(node) /\ \A j \in 1 .. i - 1 : p[j] = node[j]
    BY <1>2, <1>3, SamePath
  <2>2. i = Len(node) + 1 /\ Len(p) > Len(node) /\ Len(node) <= Len(p)
    BY <1>1, <2>1
  <2> QED BY <1>3, <2>1, <2>2 DEF Through, arrStartsWithArr
<1>4. ASSUME i = Len(node) + 1, Through(p, node, P)
      PROVE  w[i - 1] = v[Len(node)] /\ p[i].prop = P
  <2>1. Len(node) <= Len(p) /\ \A j \in 1 .. Len(node) : p[j] = node[j]
    BY <1>1, <1>4 DEF Through, arrStartsWithArr
  <2> DEFINE T == {j \in 0 .. Len(node) : w[j] = v[j]}
  <2>2. 0 \in T
    BY <1>1 DEF Follows
  <2>3. ASSUME NEW j \in 1 .. Len(node), j - 1 \in T
        PROVE  j \in T
    <3>1. j \in 1 .. Len(p) /\ p[j] = node[j] /\ w[j - 1] = v[j - 1] /\ j \in 0 .. Len(node)
      BY <1>1, <2>1, <2>3
    <3>2. w[j] = k[w[j - 1]][p[j].prop][p[j].idx + 1]
      BY <3>1, Zenon DEF Follows
    <3>3. v[j] = k[v[j - 1]][node[j].prop][node[j].idx + 1]
      BY Zenon DEF Follows
    <3> QED BY <3>1, <3>2, <3>3
  <2> HIDE DEF T
  <2>4. \A j \in 0 .. Len(node) : j \in T
    BY <1>1, <2>2, <2>3, UpFromZero
  <2>5. w[Len(node)] = v[Len(node)]
    BY <1>2, <2>4 DEF T
  <2>6. i - 1 = Len(node) /\ p[i].prop = P
    BY <1>1, <1>4 DEF Through
  <2> QED BY <2>5, <2>6
<1> QED BY <1>3, <1>4

---------------------------------------------------------------------------
(* Changes of the AST *)

\* Only the children in one property of one node are changed.
Changed(k, k2, N, n, P, ms) ==
  Heap(k2, N) /\ \A a \in 1 .. N, Q \in Props : k2[a][Q] = IF a = n /\ Q = P THEN ms ELSE k[a][Q]

\* A node that is nobody's child.
NoPlace(k, x) == \A a \in DOMAIN k, Q \in Props : \A i \in DOMAIN k[a][Q] : k[a][Q][i] # x

\* q is the path p with the index that leads to the same child as before.
Adjusted(p, w, n, P, ms, q) ==
  /\ Len(q) = Len(p)
  /\ \A i \in 1 .. Len(p) :
       IF w[i - 1] = n /\ p[i].prop = P
         THEN q[i].prop = P /\ q[i].idx + 1 \in 1 .. Len(ms) /\ ms[q[i].idx + 1] = w[i]
         ELSE q[i] = p[i]

(* An adjusted path goes through the same nodes as before. *)
LEMMA FollowsChanged ==
  ASSUME NEW k, NEW N, Heap(k, N), NEW k2, NEW n, NEW P, NEW ms, Changed(k, k2, N, n, P, ms),
         NEW p \in Path, NEW w, Follows(k, p, w), NEW q, Adjusted(p, w, n, P, ms, q)
  PROVE  Follows(k2, q, w)
<1>0. ASSUME NEW i \in 1 .. Len(p)
      PROVE  /\ p[i] = [prop |-> p[i].prop, idx |-> p[i].idx] /\ p[i].prop \in Props /\ p[i].idx \in Nat
             /\ w[i - 1] \in 1 .. N /\ w[i] \in 2 .. N
             /\ k[w[i - 1]][p[i].prop] \in Seq(2 .. N)
             /\ p[i].idx + 1 \in 1 .. Len(k[w[i - 1]][p[i].prop])
             /\ w[i] = k[w[i - 1]][p[i].prop][p[i].idx + 1]
  BY FollowsStep
<1>1. ASSUME NEW i \in 1 .. Len(q)
      PROVE  /\ q[i].idx + 1 \in 1 .. Len(k2[w[i - 1]][q[i].prop])
             /\ w[i] = k2[w[i - 1]][q[i].prop][q[i].idx + 1]
  <2>0. i \in 1 .. Len(p)
    BY DEF Adjusted
  <2>1. /\ p[i].prop \in Props /\ w[i - 1] \in 1 .. N
        /\ p[i].idx + 1 \in 1 .. Len(k[w[i - 1]][p[i].prop])
        /\ w[i] = k[w[i - 1]][p[i].prop][p[i].idx + 1]
    BY <1>0, <2>0, Zenon
  <2>2. k2[w[i - 1]][p[i].prop] = IF w[i - 1] = n /\ p[i].prop = P THEN ms ELSE k[w[i - 1]][p[i].prop]
    BY <2>1, Zenon DEF Changed
  <2>3. CASE w[i - 1] = n /\ p[i].prop = P
    <3>1. q[i].prop = P /\ q[i].idx + 1 \in 1 .. Len(ms) /\ ms[q[i].idx + 1] = w[i]
      BY <2>0, <2>3, Zenon DEF Adjusted
    <3>2. k2[w[i - 1]][q[i].prop] = ms
      BY <2>2, <2>3, <3>1, Zenon
    <3> QED BY <3>1, <3>2, Zenon
  <2>4. CASE ~(w[i - 1] = n /\ p[i].prop = P)
    <3>1. q[i] = p[i]
      BY <2>0, <2>4, Zenon DEF Adjusted
    <3>2. k2[w[i - 1]][p[i].prop] = k[w[i - 1]][p[i].prop]
      BY <2>2, <2>4, Zenon
    <3> QED BY <2>1, <3>1, <3>2, Zenon
  <2> QED BY <2>3, <2>4
<1>2. w[0] = Root
  BY DEF Follows
<1> QED BY <1>1, <1>2, Zenon DEF Follows

(* A heap's row of children. *)
LEMMA RowFacts ==
  ASSUME NEW k, NEW N, Heap(k, N), NEW n \in 1 .. N, NEW P \in Props
  PROVE  /\ DOMAIN k = 1 .. N /\ k[n][P] \in Seq(2 .. N)
         /\ Len(k[n][P]) \in Nat /\ DOMAIN k[n][P] = 1 .. Len(k[n][P])
<1>1. DOMAIN k = 1 .. N /\ k[n][P] \in Seq(2 .. N)
  BY DEF Heap
<1> QED BY <1>1, LenProperties

Distinct(ns) == \A i, j \in 1 .. Len(ns) : ns[i] = ns[j] => i = j
Lacks(ns, x) == \A i \in 1 .. Len(ns) : ns[i] # x

(* No child comes twice in a row. *)
LEMMA RowInjective ==
  ASSUME NEW k, NEW N, Heap(k, N), OneParent(k), NEW n \in 1 .. N, NEW P \in Props
  PROVE  Distinct(k[n][P])
<1>1. n \in DOMAIN k /\ DOMAIN k[n][P] = 1 .. Len(k[n][P])
  BY RowFacts
<1>2. ASSUME NEW i \in DOMAIN k[n][P], NEW j \in DOMAIN k[n][P], k[n][P][i] = k[n][P][j]
      PROVE  i = j
  BY <1>1, <1>2, OnlyPlace
<1> QED BY <1>1, <1>2 DEF Distinct

\* The children in ms are those of ns, or x, and none comes twice.
Row(ns, x, ms) ==
  /\ \A i, j \in DOMAIN ms : ms[i] = ms[j] => i = j
  /\ \A i \in DOMAIN ms : ms[i] = x \/ \E j \in DOMAIN ns : ms[i] = ns[j]

(* An element put into a sequence where it is not yet. *)
LEMMA InsertRow ==
  ASSUME NEW S, NEW ns \in Seq(S), NEW x \in S, NEW i \in 1 .. Len(ns) + 1,
         Distinct(ns), Lacks(ns, x)
  PROVE  Row(ns, x, InsertAt(ns, i, x))
<1> DEFINE ms == InsertAt(ns, i, x)
           from(j) == IF j < i THEN j ELSE j - 1
<1>1. Len(ns) \in Nat /\ DOMAIN ns = 1 .. Len(ns)
  BY LenProperties
<1>2. /\ ms \in Seq(S) /\ Len(ms) = Len(ns) + 1
      /\ \A j \in 1 .. i - 1 : ms[j] = ns[j]
      /\ ms[i] = x
      /\ \A j \in i + 1 .. Len(ns) + 1 : ms[j] = ns[j - 1]
  <2>1. WithAt(S, ns, i, x, ms)
    BY InsertAtElements
  <2> HIDE DEF ms
  <2> QED BY <2>1, Zenon DEF WithAt
<1>3. DOMAIN ms = 1 .. Len(ns) + 1
  BY <1>2, LenProperties
<1> HIDE DEF ms
<1>4. ASSUME NEW j \in DOMAIN ms, j # i
      PROVE  from(j) \in 1 .. Len(ns) /\ ms[j] = ns[from(j)]
  BY <1>1, <1>2, <1>3, <1>4
<1>5. ms[i] = x
  BY <1>1, <1>2
<1>6. ASSUME NEW a \in DOMAIN ms, NEW b \in DOMAIN ms, ms[a] = ms[b]
      PROVE  a = b
  <2>1. CASE a # i /\ b # i
    <3>1. from(a) = from(b)
      <4>1. /\ from(a) \in 1 .. Len(ns) /\ ms[a] = ns[from(a)]
            /\ from(b) \in 1 .. Len(ns) /\ ms[b] = ns[from(b)]
        BY <1>4, <2>1
      <4> HIDE DEF from
      <4> QED BY <1>6, <4>1 DEF Distinct
    <3> QED BY <1>1, <1>3, <2>1, <3>1
  <2>2. CASE a = i /\ b # i
    <3>1. from(b) \in 1 .. Len(ns) /\ ms[b] = ns[from(b)]
      BY <1>4, <2>2
    <3> HIDE DEF from
    <3> QED BY <1>5, <1>6, <2>2, <3>1 DEF Lacks
  <2>3. CASE a # i /\ b = i
    <3>1. from(a) \in 1 .. Len(ns) /\ ms[a] = ns[from(a)]
      BY <1>4, <2>3
    <3> HIDE DEF from
    <3> QED BY <1>5, <1>6, <2>3, <3>1 DEF Lacks
  <2> QED BY <2>1, <2>2, <2>3
<1>7. ASSUME NEW a \in DOMAIN ms
      PROVE  ms[a] = x \/ \E j \in DOMAIN ns : ms[a] = ns[j]
  <2>1. CASE a # i
    <3>1. from(a) \in 1 .. Len(ns) /\ ms[a] = ns[from(a)]
      BY <1>4, <2>1
    <3> HIDE DEF from
    <3> QED BY <1>1, <3>1
  <2> QED BY <1>5, <2>1
<1> QED BY <1>6, <1>7 DEF Row, ms

(* One taken out: it is not there any more. *)
LEMMA RemoveRow ==
  ASSUME NEW S, NEW ns \in Seq(S), NEW i \in 1 .. Len(ns), NEW x, Distinct(ns)
  PROVE  /\ Row(ns, x, RemoveAt(ns, i))
         /\ \A a \in DOMAIN RemoveAt(ns, i) : RemoveAt(ns, i)[a] # ns[i]
<1> DEFINE ms == RemoveAt(ns, i)
           from(j) == IF j < i THEN j ELSE j + 1
<1>1. Len(ns) \in Nat /\ DOMAIN ns = 1 .. Len(ns)
  BY LenProperties
<1>2. /\ ms \in Seq(S) /\ Len(ms) = Len(ns) - 1
      /\ \A j \in 1 .. Len(ns) - 1 : ms[j] = IF j < i THEN ns[j] ELSE ns[j + 1]
  <2>1. WithoutAt(S, ns, i, ms)
    BY RemoveAtElements
  <2> HIDE DEF ms
  <2> QED BY <2>1, Zenon DEF WithoutAt
<1>3. DOMAIN ms = 1 .. Len(ns) - 1
  BY <1>2, LenProperties
<1> HIDE DEF ms
<1>4. ASSUME NEW j \in DOMAIN ms
      PROVE  from(j) \in 1 .. Len(ns) /\ from(j) # i /\ ms[j] = ns[from(j)]
  BY <1>1, <1>2, <1>3
<1>5. \A a, b \in DOMAIN ms : from(a) = from(b) => a = b
  BY <1>1, <1>3
<1> HIDE DEF from
<1>6. \A a, b \in DOMAIN ms : ms[a] = ms[b] => a = b
  BY <1>4, <1>5 DEF Distinct
<1>7. \A a \in DOMAIN ms : \E j \in DOMAIN ns : ms[a] = ns[j]
  BY <1>1, <1>4
<1>8. \A a \in DOMAIN ms : ms[a] # ns[i]
  BY <1>4 DEF Distinct
<1> QED BY <1>6, <1>7, <1>8 DEF Row, ms

(* One put in place of another. *)
LEMMA ReplaceRow ==
  ASSUME NEW S, NEW ns \in Seq(S), NEW x \in S, NEW i \in 1 .. Len(ns),
         Distinct(ns), Lacks(ns, x)
  PROVE  Row(ns, x, [ns EXCEPT ![i] = x])
<1> DEFINE ms == [ns EXCEPT ![i] = x]
<1>1. Len(ns) \in Nat /\ DOMAIN ns = 1 .. Len(ns)
  BY LenProperties
<1>2. DOMAIN ms = 1 .. Len(ns) /\ ms[i] = x /\ \A j \in 1 .. Len(ns) : j # i => ms[j] = ns[j]
  BY <1>1
<1> HIDE DEF ms
<1>3. \A a, b \in DOMAIN ms : ms[a] = ms[b] => a = b
  BY <1>2 DEF Distinct, Lacks
<1>4. \A a \in DOMAIN ms : ms[a] = x \/ \E j \in DOMAIN ns : ms[a] = ns[j]
  BY <1>1, <1>2
<1> QED BY <1>3, <1>4 DEF Row, ms

(* A tree stays one if the new children are old ones there or had no place, *)
(* and none comes twice.                                                   *)
LEMMA ChangedTree ==
  ASSUME NEW k, NEW N, Heap(k, N), OneParent(k), NEW k2, NEW n \in 1 .. N, NEW P \in Props, NEW ms,
         Changed(k, k2, N, n, P, ms), NEW x, NoPlace(k, x), Row(k[n][P], x, ms)
  PROVE  OneParent(k2)
<1>1. DOMAIN k = 1 .. N /\ DOMAIN k2 = 1 .. N
  BY DEF Heap, Changed
<1>2. ASSUME NEW a \in 1 .. N, NEW Q \in Props, NEW i \in DOMAIN k2[a][Q], ~(a = n /\ Q = P),
             NEW j \in DOMAIN ms, k2[a][Q][i] = ms[j]
      PROVE  FALSE
  <2>1. k2[a][Q] = k[a][Q]
    BY <1>2, Zenon DEF Changed
  <2>0. a \in DOMAIN k /\ n \in DOMAIN k /\ i \in DOMAIN k[a][Q]
    BY <1>1, <1>2, <2>1
  <2>2. CASE ms[j] = x
    <3>1. k[a][Q][i] # x
      BY <2>0 DEF NoPlace
    <3> QED BY <1>2, <2>1, <2>2, <3>1
  <2>3. ASSUME NEW l \in DOMAIN k[n][P], ms[j] = k[n][P][l] PROVE FALSE
    <3>1. k[a][Q][i] = k[n][P][l]
      BY <1>2, <2>1, <2>3, Zenon
    <3>2. a = n /\ Q = P
      BY <2>0, <3>1, OnlyPlace
    <3> QED BY <1>2, <3>2
  <2> QED BY <1>2, <2>2, <2>3 DEF Row
<1>3. ASSUME NEW a \in 1 .. N, NEW b \in 1 .. N, NEW Q \in Props, NEW R \in Props,
             NEW i \in DOMAIN k2[a][Q], NEW j \in DOMAIN k2[b][R], k2[a][Q][i] = k2[b][R][j]
      PROVE  a = b /\ Q = R /\ i = j
  <2>1. /\ k2[a][Q] = IF a = n /\ Q = P THEN ms ELSE k[a][Q]
        /\ k2[b][R] = IF b = n /\ R = P THEN ms ELSE k[b][R]
    BY Zenon DEF Changed
  <2>2. CASE a = n /\ Q = P
    <3>1. CASE b = n /\ R = P
      <4>1. i \in DOMAIN ms /\ j \in DOMAIN ms /\ ms[i] = ms[j]
        BY <1>3, <2>1, <2>2, <3>1, Zenon
      <4> QED BY <2>2, <3>1, <4>1, Zenon DEF Row
    <3>2. CASE ~(b = n /\ R = P)
      <4>1. i \in DOMAIN ms /\ k2[b][R][j] = ms[i]
        BY <1>3, <2>1, <2>2, Zenon
      <4> QED BY <1>2, <3>2, <4>1, Zenon
    <3> QED BY <3>1, <3>2
  <2>3. CASE ~(a = n /\ Q = P)
    <3>1. CASE b = n /\ R = P
      <4>1. j \in DOMAIN ms /\ k2[a][Q][i] = ms[j]
        BY <1>3, <2>1, <3>1, Zenon
      <4> QED BY <1>2, <2>3, <4>1, Zenon
    <3>2. CASE ~(b = n /\ R = P)
      <4>1. k2[a][Q] = k[a][Q] /\ k2[b][R] = k[b][R]
        BY <2>1, <2>3, <3>2, Zenon
      <4>2. a \in DOMAIN k /\ b \in DOMAIN k
        BY <1>1
      <4>3. i \in DOMAIN k[a][Q] /\ j \in DOMAIN k[b][R] /\ k[a][Q][i] = k[b][R][j]
        BY <1>3, <4>1
      <4> QED BY <4>2, <4>3, OnlyPlace
    <3> QED BY <3>1, <3>2
  <2> QED BY <2>2, <2>3
<1> QED BY <1>1, <1>3 DEF OneParent

\* ms has the elements of ns, from e on one place later.
Parted(ns, e, ms) ==
  \A b \in 1 .. Len(ns) :
    /\ b >= e => b + 1 \in 1 .. Len(ms) /\ ms[b + 1] = ns[b]
    /\ ~(b >= e) => b \in 1 .. Len(ms) /\ ms[b] = ns[b]

(* Where the old elements are after one was put in, or taken out. *)
LEMMA AfterInsert ==
  ASSUME NEW S, NEW ns \in Seq(S), NEW e \in 1 .. Len(ns) + 1, NEW x \in S,
         NEW ms, ms = InsertAt(ns, e, x)
  PROVE  Parted(ns, e, ms)
<1> SUFFICES ASSUME NEW b \in 1 .. Len(ns)
             PROVE  /\ b >= e => b + 1 \in 1 .. Len(ms) /\ ms[b + 1] = ns[b]
                    /\ ~(b >= e) => b \in 1 .. Len(ms) /\ ms[b] = ns[b]
  BY Zenon DEF Parted
<1>1. Len(ns) \in Nat
  BY LenProperties
<1>2. WithAt(S, ns, e, x, ms)
  BY InsertAtElements
<1>3. /\ Len(ms) = Len(ns) + 1
      /\ \A j \in 1 .. e - 1 : ms[j] = ns[j]
      /\ \A j \in e + 1 .. Len(ns) + 1 : ms[j] = ns[j - 1]
  BY <1>2, Zenon DEF WithAt
<1>4. CASE b >= e
  <2>1. b + 1 \in e + 1 .. Len(ns) + 1 /\ (b + 1) - 1 = b /\ b + 1 \in 1 .. Len(ns) + 1
    BY <1>1, <1>4
  <2>2. ms[b + 1] = ns[b]
    BY <1>3, <2>1
  <2> QED BY <1>3, <1>4, <2>1, <2>2
<1>5. CASE ~(b >= e)
  <2>1. b \in 1 .. e - 1 /\ b \in 1 .. Len(ns) + 1
    BY <1>1, <1>5
  <2>2. ms[b] = ns[b]
    BY <1>3, <2>1
  <2> QED BY <1>3, <1>5, <2>1, <2>2
<1> QED BY <1>4, <1>5

\* The element of a sequence at a place.
Has(ms, e, x) == e \in 1 .. Len(ms) /\ ms[e] = x

(* The new element is where it was put. *)
LEMMA InsertedElement ==
  ASSUME NEW S, NEW ns \in Seq(S), NEW e \in 1 .. Len(ns) + 1, NEW x \in S,
         NEW ms, ms = InsertAt(ns, e, x)
  PROVE  Has(ms, e, x)
<1>1. WithAt(S, ns, e, x, ms)
  BY InsertAtElements
<1>2. Len(ns) \in Nat
  BY LenProperties
<1> QED BY <1>1, <1>2 DEF Has, WithAt

\* ms has the elements of ns but the one at e, those after it one place earlier.
Closed(ns, e, ms) ==
  \A b \in 1 .. Len(ns) \ {e} :
    /\ b > e => b - 1 \in 1 .. Len(ms) /\ ms[b - 1] = ns[b]
    /\ ~(b > e) => b \in 1 .. Len(ms) /\ ms[b] = ns[b]

LEMMA AfterRemove ==
  ASSUME NEW S, NEW ns \in Seq(S), NEW e \in 1 .. Len(ns), NEW ms, ms = RemoveAt(ns, e)
  PROVE  Closed(ns, e, ms)
<1> SUFFICES ASSUME NEW b \in 1 .. Len(ns) \ {e}
             PROVE  /\ b > e => b - 1 \in 1 .. Len(ms) /\ ms[b - 1] = ns[b]
                    /\ ~(b > e) => b \in 1 .. Len(ms) /\ ms[b] = ns[b]
  BY Zenon DEF Closed
<1>1. Len(ns) \in Nat
  BY LenProperties
<1>2. WithoutAt(S, ns, e, ms)
  BY RemoveAtElements
<1>3. /\ Len(ms) = Len(ns) - 1
      /\ \A j \in 1 .. Len(ns) - 1 : ms[j] = IF j < e THEN ns[j] ELSE ns[j + 1]
  BY <1>2, Zenon DEF WithoutAt
<1>4. CASE b > e
  <2>1. b - 1 \in 1 .. Len(ns) - 1 /\ ~(b - 1 < e) /\ (b - 1) + 1 = b
    BY <1>1, <1>4
  <2>2. ms[b - 1] = ns[b]
    BY <1>3, <2>1
  <2> QED BY <1>3, <1>4, <2>1, <2>2
<1>5. CASE ~(b > e)
  <2>1. b \in 1 .. Len(ns) - 1 /\ b < e
    BY <1>1, <1>5
  <2>2. ms[b] = ns[b]
    BY <1>3, <2>1
  <2> QED BY <1>3, <1>5, <2>1, <2>2
<1> QED BY <1>4, <1>5

(* The path InsertionM.updateASTPath gives goes through the same nodes. *)
LEMMA InsertFollows ==
  ASSUME NEW k, NEW N, Heap(k, N), OneParent(k), NEW node \in Path, NEW P \in Props, NEW d \in Nat,
         NEW v, Follows(k, node, v),
         NEW n, n = v[Len(node)], NEW ns, ns = k[n][P], d <= Len(ns), NEW x \in 2 .. N,
         NEW k2, Changed(k, k2, N, n, P, InsertAt(ns, d + 1, x)),
         NEW p \in Path, NEW w, Follows(k, p, w)
  PROVE  Follows(k2, InsertionUpdate([node |-> node, prop |-> P, idx |-> d], p), w)
<1>5. Steps(k, N, p, w)
  BY FollowsSteps
<1> DEFINE ins == [node |-> node, prop |-> P, idx |-> d]
           ms == InsertAt(ns, d + 1, x)
           c == Len(node) + 1
           q == InsertionUpdate(ins, p)
<1>1. ins \in Insertion /\ Len(node) \in Nat /\ Len(p) \in Nat
  BY LenProperties DEF Insertion, Path
<1>0. q = IF Through(p, node, P) /\ p[c].idx >= d THEN Shift(p, c, 1) ELSE p
  BY DEF InsertionUpdate, q, c
<1>2. n \in 1 .. N
  BY <1>1, FollowsTo
<1>3. ns \in Seq(2 .. N) /\ Len(ns) \in Nat
  BY <1>1, <1>2, RowFacts
<1>4. ASSUME NEW a \in Nat, a + 1 \in 1 .. Len(ns)
      PROVE  /\ a >= d => a + 2 \in 1 .. Len(ms) /\ ms[a + 2] = ns[a + 1]
             /\ ~(a >= d) => a + 1 \in 1 .. Len(ms) /\ ms[a + 1] = ns[a + 1]
  <2>1. /\ d + 1 \in 1 .. Len(ns) + 1 /\ (a + 1) + 1 = a + 2
        /\ (a + 1 >= d + 1) <=> (a >= d)
    BY <1>3
  <2>2. Parted(ns, d + 1, ms)
    BY <1>3, <2>1, AfterInsert
  <2> HIDE DEF ms
  <2> QED BY <1>4, <2>1, <2>2 DEF Parted
<1> HIDE DEF ms, q, c
<1>6. ASSUME NEW i \in 1 .. Len(p)
      PROVE  IF w[i - 1] = n /\ p[i].prop = P
               THEN q[i].prop = P /\ q[i].idx + 1 \in 1 .. Len(ms) /\ ms[q[i].idx + 1] = w[i]
               ELSE q[i] = p[i]
  <2>1. (w[i - 1] = n /\ p[i].prop = P) <=> (i = c /\ Through(p, node, P))
    BY AtArray DEF c
  <2>2. CASE w[i - 1] = n /\ p[i].prop = P
    <3>1. /\ p[i].idx \in Nat /\ p[i].idx + 1 \in 1 .. Len(k[w[i - 1]][p[i].prop])
          /\ w[i] = k[w[i - 1]][p[i].prop][p[i].idx + 1]
      BY <1>5, Zenon DEF Steps
    <3>2. p[i].idx \in Nat /\ p[i].idx + 1 \in 1 .. Len(ns) /\ w[i] = ns[p[i].idx + 1]
      BY <2>2, <3>1
    <3>3. i = c /\ Through(p, node, P)
      BY <2>1, <2>2
    <3>4. CASE p[i].idx >= d
      <4>1. q = Shift(p, i, 1)
        BY <1>0, <3>3, <3>4
      <4>2. q[i] = [prop |-> p[i].prop, idx |-> p[i].idx + 1]
        BY <3>2, <4>1, ShiftFacts
      <4>3. q[i].prop = P /\ q[i].idx + 1 = p[i].idx + 2
        BY <2>2, <3>2, <4>2
      <4>4. p[i].idx + 2 \in 1 .. Len(ms) /\ ms[p[i].idx + 2] = w[i]
        BY <1>4, <3>2, <3>4
      <4> QED BY <2>2, <4>3, <4>4
    <3>5. CASE ~(p[i].idx >= d)
      <4>1. q = p
        BY <1>0, <3>3, <3>5
      <4>2. p[i].idx + 1 \in 1 .. Len(ms) /\ ms[p[i].idx + 1] = w[i]
        BY <1>4, <3>2, <3>5
      <4> QED BY <2>2, <4>1, <4>2
    <3> QED BY <3>4, <3>5
  <2>3. CASE ~(w[i - 1] = n /\ p[i].prop = P)
    <3>1. CASE Through(p, node, P) /\ p[c].idx >= d
      <4>1. q = Shift(p, c, 1) /\ c \in 1 .. Len(p) /\ i # c
        BY <1>0, <1>1, <2>1, <2>3, <3>1 DEF Through, c
      <4>2. p[c] \in Step
        BY <4>1, ElementOfSeq DEF Path
      <4>3. 1 \in Int /\ p[c].idx + 1 \in Nat
        BY <4>2 DEF Step
      <4>4. Shift(p, c, 1)[i] = p[i]
        BY <4>1, <4>3, ShiftFacts
      <4> QED BY <2>3, <4>1, <4>4
    <3>2. CASE ~(Through(p, node, P) /\ p[c].idx >= d)
      <4>1. q = p
        BY <1>0, <3>2
      <4> QED BY <2>3, <4>1
    <3> QED BY <3>1, <3>2
  <2> QED BY <2>2, <2>3
<1>7. q \in Path /\ Len(q) = Len(p)
  BY <1>1, InsertionLength, InsertionRoundTrip DEF q
<1>8. Adjusted(p, w, n, P, ms, q)
  BY <1>6, <1>7, Zenon DEF Adjusted
<1>9. Changed(k, k2, N, n, P, ms)
  BY DEF ms
<1>10. Follows(k2, q, w)
  BY <1>8, <1>9, FollowsChanged
<1> QED BY <1>10 DEF q

(* So does the one DeletionM.updateASTPath gives. *)
LEMMA DeleteFollows ==
  ASSUME NEW k, NEW N, Heap(k, N), OneParent(k), NEW t \in Path, t # <<>>, t[Len(t)].prop \in ArrayProps,
         NEW v, Follows(k, Front(t), v), NEW n, n = v[Len(Front(t))], NEW ns, ns = k[n][t[Len(t)].prop],
         t[Len(t)].idx + 1 \in 1 .. Len(ns),
         NEW k2, Changed(k, k2, N, n, t[Len(t)].prop, RemoveAt(ns, t[Len(t)].idx + 1)),
         NEW p \in Path, NEW w, Follows(k, p, w), NEW q \in DeletionUpdate(t, p)
  PROVE  Follows(k2, q, w)
<1> DEFINE node == Front(t)
           c == Len(t)
           P == t[c].prop
           d == t[c].idx
           ms == RemoveAt(ns, d + 1)
<1>1. /\ node \in Path /\ Len(node) + 1 = c /\ c \in Nat /\ Len(p) \in Nat
      /\ P \in Props /\ d \in Nat
  <2>1. /\ Len(t) \in Nat \ {0} /\ t[Len(t)] \in Step
        /\ Front(t) \in Path /\ Len(Front(t)) = Len(t) - 1
    BY FrontFacts
  <2>2. Len(p) \in Nat
    BY LenProperties DEF Path
  <2>3. P \in Props /\ d \in Nat
    BY <2>1 DEF Step
  <2> QED BY <2>1, <2>2, <2>3
<1>2. n \in 1 .. N
  BY <1>1, FollowsTo
<1>3. ns \in Seq(2 .. N) /\ Len(ns) \in Nat
  BY <1>1, <1>2, RowFacts
<1>4. ASSUME NEW a \in Nat, a + 1 \in 1 .. Len(ns), a # d
      PROVE  /\ a > d => a \in 1 .. Len(ms) /\ ms[a] = ns[a + 1]
             /\ ~(a > d) => a + 1 \in 1 .. Len(ms) /\ ms[a + 1] = ns[a + 1]
  <2>1. /\ a + 1 # d + 1 /\ (a + 1) - 1 = a
        /\ (a + 1 > d + 1) <=> (a > d)
    BY <1>1, <1>4
  <2>2. Closed(ns, d + 1, ms)
    BY <1>3, AfterRemove
  <2> HIDE DEF ms, d
  <2> QED BY <1>4, <2>1, <2>2 DEF Closed
<1>5. Sibling(p, t) <=> Through(p, node, P)
  BY DEF Sibling
<1>6. ASSUME NEW i \in 1 .. Len(p)
      PROVE  IF w[i - 1] = n /\ p[i].prop = P
               THEN q[i].prop = P /\ q[i].idx + 1 \in 1 .. Len(ms) /\ ms[q[i].idx + 1] = w[i]
               ELSE q[i] = p[i]
  <2>1. (w[i - 1] = n /\ p[i].prop = P) <=> (i = c /\ Sibling(p, t))
    BY <1>1, <1>5, AtArray
  <2>2. CASE w[i - 1] = n /\ p[i].prop = P
    <3>1. /\ p[i] = [prop |-> p[i].prop, idx |-> p[i].idx] /\ p[i].prop \in Props /\ p[i].idx \in Nat
          /\ w[i - 1] \in 1 .. N /\ w[i] \in 2 .. N
          /\ k[w[i - 1]][p[i].prop] \in Seq(2 .. N)
          /\ p[i].idx + 1 \in 1 .. Len(k[w[i - 1]][p[i].prop])
          /\ w[i] = k[w[i - 1]][p[i].prop][p[i].idx + 1]
      BY FollowsStep
    <3>2. p[i].idx \in Nat /\ p[i].idx + 1 \in 1 .. Len(ns) /\ w[i] = ns[p[i].idx + 1]
      BY <2>2, <3>1
    <3>3. i = c /\ Sibling(p, t) /\ ~arrStartsWithArr(p, t)
      BY <2>1, <2>2 DEF DeletionUpdate
    <3>4. p[i].idx # d
      BY <3>3, SiblingFacts
    <3>5. CASE p[i].idx > d
      <4>1. q = Shift(p, i, -1)
        BY <3>3, <3>5 DEF DeletionUpdate
      <4>2. -1 \in Int /\ p[i].idx + (-1) \in Nat /\ p[i].idx + (-1) = p[i].idx - 1
        BY <1>1, <3>2, <3>5
      <4>3. q[i] = [prop |-> p[i].prop, idx |-> p[i].idx + (-1)]
        BY <4>1, <4>2, ShiftFacts
      <4>4. q[i].prop = P /\ q[i].idx + 1 = p[i].idx
        BY <2>2, <3>2, <4>2, <4>3
      <4>5. p[i].idx \in 1 .. Len(ms) /\ ms[p[i].idx] = w[i]
        BY <1>4, <3>2, <3>4, <3>5
      <4> HIDE DEF ms
      <4> QED BY <2>2, <4>4, <4>5
    <3>6. CASE ~(p[i].idx > d)
      <4>1. q = p
        BY <3>3, <3>6 DEF DeletionUpdate
      <4>2. p[i].idx + 1 \in 1 .. Len(ms) /\ ms[p[i].idx + 1] = w[i]
        BY <1>4, <3>2, <3>4, <3>6
      <4> HIDE DEF ms
      <4> QED BY <2>2, <4>1, <4>2
    <3> QED BY <3>5, <3>6
  <2>3. CASE ~(w[i - 1] = n /\ p[i].prop = P)
    <3>1. CASE Sibling(p, t) /\ p[c].idx > d
      <4>1. q = Shift(p, c, -1) /\ i # c
        BY <2>1, <2>3, <3>1 DEF DeletionUpdate
      <4>2. c \in 1 .. Len(p) /\ p[c] \in Step
        BY <3>1, SiblingFacts
      <4>3. -1 \in Int /\ p[c].idx + (-1) \in Nat
        BY <1>1, <3>1, <4>2 DEF Step
      <4>4. Shift(p, c, -1)[i] = p[i]
        BY <4>1, <4>2, <4>3, ShiftFacts
      <4> QED BY <2>3, <4>1, <4>4
    <3>2. CASE ~(Sibling(p, t) /\ p[c].idx > d)
      <4>1. q = p
        BY <3>2 DEF DeletionUpdate
      <4> QED BY <2>3, <4>1
    <3> QED BY <3>1, <3>2
  <2> QED BY <2>2, <2>3
<1>7. Len(q) = Len(p)
  BY DeletionLength
<1> HIDE DEF ms
<1>8. Adjusted(p, w, n, P, ms, q)
  BY <1>6, <1>7, Zenon DEF Adjusted
<1>9. Changed(k, k2, N, n, P, ms)
  BY DEF ms
<1> QED BY <1>8, <1>9, FollowsChanged

(* The way to a node leads through its parent. *)
LEMMA FollowsFront ==
  ASSUME NEW k, NEW t \in Path, t # <<>>, NEW v, Follows(k, t, v)
  PROVE  Follows(k, Front(t), v)
<1>1. /\ Len(t) \in Nat \ {0} /\ Len(Front(t)) = Len(t) - 1
      /\ \A i \in 1 .. Len(t) - 1 : Front(t)[i] = t[i]
  BY FrontFacts
<1>2. ASSUME NEW i \in 1 .. Len(Front(t))
      PROVE  i \in 1 .. Len(t) /\ Front(t)[i] = t[i]
  BY <1>1
<1>3. ASSUME NEW i \in 1 .. Len(t)
      PROVE  t[i].idx + 1 \in 1 .. Len(k[v[i - 1]][t[i].prop]) /\ v[i] = k[v[i - 1]][t[i].prop][t[i].idx + 1]
  BY Zenon DEF Follows
<1>4. ASSUME NEW i \in 1 .. Len(Front(t))
      PROVE  /\ Front(t)[i].idx + 1 \in 1 .. Len(k[v[i - 1]][Front(t)[i].prop])
             /\ v[i] = k[v[i - 1]][Front(t)[i].prop][Front(t)[i].idx + 1]
  <2>1. i \in 1 .. Len(t) /\ Front(t)[i] = t[i]
    BY <1>2, Zenon
  <2> QED BY <1>3, <2>1, Zenon
<1>5. v[0] = Root
  BY DEF Follows
<1> QED BY <1>4, <1>5, Zenon DEF Follows

(* And from the parent a step leads to the node. *)
LEMMA FollowsAppend ==
  ASSUME NEW k, NEW N, Heap(k, N), NEW p \in Path, NEW w, Follows(k, p, w), NEW s \in Step, NEW x,
         Has(k[w[Len(p)]][s.prop], s.idx + 1, x)
  PROVE  NodeAtIn(k, Append(p, s)) = x
<1> DEFINE a == Append(p, s)
           v == [i \in 0 .. Len(p) + 1 |-> IF i = Len(p) + 1 THEN x ELSE w[i]]
<1>1. /\ a \in Path /\ Len(a) = Len(p) + 1 /\ Len(p) \in Nat /\ a[Len(p) + 1] = s
      /\ \A i \in 1 .. Len(p) : a[i] = p[i]
  BY AppendFacts
<1>2. v[0] = w[0] /\ v[Len(p) + 1] = x /\ \A i \in 0 .. Len(p) : v[i] = w[i]
  BY <1>1
<1> HIDE DEF a, v
<1>3. ASSUME NEW i \in 1 .. Len(a)
      PROVE  /\ a[i].idx + 1 \in 1 .. Len(k[v[i - 1]][a[i].prop])
             /\ v[i] = k[v[i - 1]][a[i].prop][a[i].idx + 1]
  <2>1. CASE i = Len(p) + 1
    <3>1. a[i] = s /\ v[i] = x /\ i - 1 = Len(p) /\ Len(p) \in 0 .. Len(p)
      BY <1>1, <1>2, <2>1
    <3>2. v[i - 1] = w[Len(p)]
      BY <1>2, <3>1
    <3> QED BY <3>1, <3>2 DEF Has
  <2>2. CASE i # Len(p) + 1
    <3>1. i \in 1 .. Len(p) /\ i \in 0 .. Len(p) /\ i - 1 \in 0 .. Len(p)
      BY <1>1, <2>2
    <3>2. a[i] = p[i] /\ v[i] = w[i] /\ v[i - 1] = w[i - 1]
      BY <1>1, <1>2, <3>1
    <3>3. p[i].idx + 1 \in 1 .. Len(k[w[i - 1]][p[i].prop]) /\ w[i] = k[w[i - 1]][p[i].prop][p[i].idx + 1]
      BY <3>1, Zenon DEF Follows
    <3> QED BY <3>2, <3>3
  <2> QED BY <2>1, <2>2
<1>4. v[0] = Root
  BY <1>2 DEF Follows
<1>5. Follows(k, a, v) /\ v[Len(p) + 1] = x
  BY <1>2, <1>3, <1>4, Zenon DEF Follows
<1>6. NodeAtIn(k, a) = v[Len(a)]
  BY <1>1, <1>5, FollowsTo
<1> QED BY <1>1, <1>5, <1>6 DEF a

(* A replacement leaves the other nodes where they are, and the new one is *)
(* at the target.                                                          *)
LEMMA ReplaceFollows ==
  ASSUME NEW k, NEW N, Heap(k, N), OneParent(k), NEW t \in Path, t # <<>>,
         NEW v, Follows(k, Front(t), v), NEW n, n = v[Len(Front(t))], NEW P, P = t[Len(t)].prop,
         NEW ns, ns = k[n][P], NEW d, d = t[Len(t)].idx, d + 1 \in 1 .. Len(ns), NEW x \in 2 .. N,
         NEW ms, ms = [ns EXCEPT ![d + 1] = x], NEW k2, Changed(k, k2, N, n, P, ms),
         NEW p \in Path, NEW w, Follows(k, p, w), NEW q \in ReplacementUpdate(t, p), p # t
  PROVE  Follows(k2, q, w)
<1>1. q = p /\ ~(arrStartsWithArr(p, t) /\ Len(p) # Len(t))
  BY DEF ReplacementUpdate
<1>2. /\ Len(t) \in Nat \ {0} /\ t[Len(t)] \in Step
      /\ Front(t) \in Path /\ Len(Front(t)) = Len(t) - 1
      /\ \A i \in 1 .. Len(t) - 1 : Front(t)[i] = t[i]
  BY FrontFacts
<1>3. P \in Props /\ d \in Nat /\ Len(p) \in Nat /\ Len(Front(t)) + 1 = Len(t)
  BY <1>2, LenProperties DEF Step, Path
<1>4. n \in 1 .. N
  BY <1>2, FollowsTo
<1>5. ns \in Seq(2 .. N) /\ Len(ns) \in Nat
  BY <1>3, <1>4, RowFacts
<1>6. DOMAIN ns = 1 .. Len(ns) /\ Len(ms) = Len(ns) /\ \A j \in 1 .. Len(ns) : j # d + 1 => ms[j] = ns[j]
  <2> DEFINE e == d + 1
             S == 2 .. N
  <2>1. ns \in Seq(S) /\ e \in 1 .. Len(ns) /\ x \in S /\ ms = [ns EXCEPT ![e] = x]
    BY <1>5
  <2> HIDE DEF e, S
  <2>2. DOMAIN ns = 1 .. Len(ns)
    BY <2>1, LenProperties
  <2>3. /\ Len([ns EXCEPT ![e] = x]) = Len(ns)
        /\ \A j \in 1 .. Len(ns) : [ns EXCEPT ![e] = x][j] = IF j = e THEN x ELSE ns[j]
    BY ONLY <2>1, ExceptSeq
  <2>4. Len(ms) = Len(ns) /\ \A j \in 1 .. Len(ns) : j # e => ms[j] = ns[j]
    BY ONLY <2>1, <2>3
  <2> QED BY <2>2, <2>4 DEF e
<1>7. Steps(k, N, p, w)
  BY FollowsSteps
<1>8. ASSUME NEW i \in 1 .. Len(p)
      PROVE  IF w[i - 1] = n /\ p[i].prop = P
               THEN p[i].prop = P /\ p[i].idx + 1 \in 1 .. Len(ms) /\ ms[p[i].idx + 1] = w[i]
               ELSE p[i] = p[i]
  <2>1. CASE w[i - 1] = n /\ p[i].prop = P
    <3>1. /\ p[i] = [prop |-> p[i].prop, idx |-> p[i].idx] /\ p[i].idx \in Nat
          /\ p[i].idx + 1 \in 1 .. Len(k[w[i - 1]][p[i].prop])
          /\ w[i] = k[w[i - 1]][p[i].prop][p[i].idx + 1]
      BY <1>7, Zenon DEF Steps
    <3>2. p[i].idx + 1 \in 1 .. Len(ns) /\ w[i] = ns[p[i].idx + 1]
      BY <2>1, <3>1
    <3>3. (w[i - 1] = n /\ p[i].prop = P) <=> (i = Len(Front(t)) + 1 /\ Through(p, Front(t), P))
      BY <1>2, AtArray
    <3>4. i = Len(t) /\ Through(p, Front(t), P)
      BY <1>3, <2>1, <3>3
    <3>5. ASSUME p[i].idx = d PROVE FALSE
      <4>1. t[Len(t)] = [prop |-> P, idx |-> d]
        BY <1>2 DEF Step
      <4>2. p[Len(t)] = t[Len(t)]
        BY <2>1, <3>1, <3>4, <3>5, <4>1
      <4>3. Len(t) <= Len(p) /\ \A j \in 1 .. Len(t) - 1 : p[j] = t[j]
        BY <1>2, <1>3, <3>4 DEF Through, arrStartsWithArr
      <4>4. \A j \in 1 .. Len(t) : p[j] = t[j]
        BY <1>2, <4>2, <4>3
      <4>5. Len(p) = Len(t)
        BY <1>1, <4>3, <4>4 DEF arrStartsWithArr
      <4> QED BY <4>4, <4>5, PathEqual
    <3>6. p[i].idx + 1 # d + 1
      <4>1. p[i].idx \in Nat /\ d \in Nat /\ p[i].idx # d
        BY <1>3, <3>1, <3>5, Zenon
      <4> QED BY ONLY <4>1
    <3> QED BY <1>6, <2>1, <3>2, <3>6
  <2> QED BY <2>1
<1>9. Adjusted(p, w, n, P, ms, p)
  BY <1>8, Zenon DEF Adjusted
<1> QED BY <1>1, <1>9, FollowsChanged

(* A path comes to its node only at its end. *)
LEMMA OwnPath ==
  ASSUME NEW k, NEW N, Heap(k, N), OneParent(k), NEW p \in Path, NEW w, Follows(k, p, w),
         NEW i \in 1 .. Len(p)
  PROVE  w[i - 1] # w[Len(p)]
<1>1. Len(p) \in Nat
  BY LenProperties DEF Path
<1>2. i - 1 \in 0 .. Len(p) /\ Len(p) \in 0 .. Len(p) /\ i - 1 # Len(p)
  BY <1>1
<1> QED BY <1>2, SamePath

LEMMA ReplacedFollows ==
  ASSUME NEW k, NEW N, Heap(k, N), OneParent(k), NEW t \in Path, t # <<>>,
         NEW v, Follows(k, Front(t), v), NEW n, n = v[Len(Front(t))], NEW P, P = t[Len(t)].prop,
         NEW ns, ns = k[n][P], NEW d, d = t[Len(t)].idx, d + 1 \in 1 .. Len(ns), NEW x \in 2 .. N,
         NEW ms, ms = [ns EXCEPT ![d + 1] = x], NEW k2, Changed(k, k2, N, n, P, ms)
  PROVE  NodeAtIn(k2, t) = x
<1>2. /\ Len(t) \in Nat \ {0} /\ t[Len(t)] \in Step
      /\ Front(t) \in Path /\ Len(Front(t)) = Len(t) - 1
      /\ \A i \in 1 .. Len(t) - 1 : Front(t)[i] = t[i]
  BY FrontFacts
<1>3. P \in Props /\ d \in Nat /\ Len(Front(t)) + 1 = Len(t) /\ Len(t) \in Nat
  BY <1>2 DEF Step
<1>4. n \in 1 .. N
  BY <1>2, FollowsTo
<1>5. ns \in Seq(2 .. N) /\ Len(ns) \in Nat
  BY <1>3, <1>4, RowFacts
<1>6. Len(ms) = Len(ns) /\ ms[d + 1] = x
  BY <1>5
<1>7. k2[n][P] = ms /\ Heap(k2, N)
  BY <1>3, <1>4 DEF Changed
<1>8. ASSUME NEW i \in 1 .. Len(Front(t)) PROVE ~(v[i - 1] = n /\ Front(t)[i].prop = P)
  <2>1. v[i - 1] # v[Len(Front(t))]
    BY <1>2, OwnPath
  <2> QED BY <2>1
<1>9. Adjusted(Front(t), v, n, P, ms, Front(t))
  BY <1>8, Zenon DEF Adjusted
<1>10. Follows(k2, Front(t), v)
  BY <1>2, <1>9, FollowsChanged
<1> DEFINE s == t[Len(t)]
<1>11. s \in Step /\ Has(k2[v[Len(Front(t))]][s.prop], s.idx + 1, x)
  BY <1>2, <1>6, <1>7 DEF Has
<1>12. Append(Front(t), s) = t
  <2>1. s = [prop |-> s.prop, idx |-> s.idx]
    BY <1>2 DEF Step
  <2> QED BY <2>1, AppendFront
<1> HIDE DEF s
<1> DEFINE node == Front(t)
<1>13. node \in Path /\ Follows(k2, node, v) /\ Has(k2[v[Len(node)]][s.prop], s.idx + 1, x)
  BY <1>2, <1>10, <1>11
<1> HIDE DEF node
<1>14. NodeAtIn(k2, Append(node, s)) = x
  BY <1>7, <1>11, <1>13, FollowsAppend
<1> QED BY <1>12, <1>14 DEF node

(* A function on 1 .. N is a sequence. *)
LEMMA FunctionSeq ==
  ASSUME NEW N \in Nat, NEW R, NEW k \in [1 .. N -> R]
  PROVE  k \in Seq(R) /\ Len(k) = N
<1>1. k \in UNION {[1 .. m -> R] : m \in Nat}
  BY Zenon
<1>2. k \in Seq(R)
  BY <1>1, SeqDef
<1> QED BY <1>2, LenProperties

(* The children in one property of one node are set. *)
LEMMA ChangeRow ==
  ASSUME NEW k, NEW N, Heap(k, N), NEW n \in 1 .. N, NEW P \in Props, NEW ms \in Seq(2 .. N)
  PROVE  Changed(k, [k EXCEPT ![n][P] = ms], N, n, P, ms)
<1> DEFINE k2 == [k EXCEPT ![n][P] = ms]
<1>1. N \in Nat \ {0} /\ k \in [1 .. N -> [Props -> Seq(2 .. N)]]
  BY DEF Heap
<1> DEFINE R == Seq(2 .. N)
<1>2. ms \in R /\ k \in [1 .. N -> [Props -> R]]
  BY <1>1
<1> HIDE DEF R
<1>3. k2 \in [1 .. N -> [Props -> R]]
  BY <1>2
<1>4. \A a \in 1 .. N, Q \in Props : k2[a][Q] = IF a = n /\ Q = P THEN ms ELSE k[a][Q]
  BY <1>2
<1>5. Heap(k2, N)
  BY <1>1, <1>3 DEF Heap, R
<1> QED BY <1>4, <1>5 DEF Changed

(* A new node without children. *)
LEMMA GrownHeap ==
  ASSUME NEW k, NEW N, Heap(k, N)
  PROVE  /\ Heap(Append(k, Childless), N + 1)
         /\ \A a \in 1 .. N : Append(k, Childless)[a] = k[a]
         /\ Append(k, Childless)[N + 1] = Childless
<1> DEFINE g == Append(k, Childless)
           R == [Props -> Seq(2 .. N + 1)]
<1>1. N \in Nat \ {0} /\ k \in [1 .. N -> [Props -> Seq(2 .. N)]]
  BY DEF Heap
<1>2. \A s \in Seq(2 .. N) : s \in Seq(2 .. N + 1)
  BY <1>1
<1>3. ASSUME NEW a \in 1 .. N PROVE k[a] \in R
  <2>1. k[a] \in [Props -> Seq(2 .. N)]
    BY <1>1
  <2> HIDE DEF R
  <2> QED BY <1>2, <2>1 DEF R
<1>4. Childless \in R
  BY EmptySeq DEF Childless
<1> HIDE DEF R
<1>5. DOMAIN k = 1 .. N /\ k \in [1 .. N -> R]
  BY <1>1, <1>3
<1>6. k \in Seq(R) /\ Len(k) = N
  BY <1>1, <1>5, FunctionSeq
<1> HIDE DEF g
<1>8. /\ g \in Seq(R) /\ Len(g) = Len(k) + 1
      /\ \A i \in 1 .. Len(k) : g[i] = k[i]
      /\ g[Len(k) + 1] = Childless
  BY <1>4, <1>6, AppendProperties DEF g
<1>9. g \in [1 .. N + 1 -> R]
  BY <1>6, <1>8, LenProperties
<1>10. Heap(g, N + 1)
  BY <1>1, <1>9 DEF Heap, R
<1> QED BY <1>6, <1>8, <1>10 DEF g

(* It has no place, and the tree is a tree with the same paths. *)
LEMMA GrownTree ==
  ASSUME NEW k, NEW N, Heap(k, N), OneParent(k)
  PROVE  OneParent(Append(k, Childless)) /\ NoPlace(Append(k, Childless), N + 1)
<1> DEFINE g == Append(k, Childless)
<1>1. /\ Heap(g, N + 1) /\ (\A a \in 1 .. N : g[a] = k[a]) /\ g[N + 1] = Childless
  BY GrownHeap
<1> HIDE DEF g
<1>2. N \in Nat \ {0} /\ DOMAIN k = 1 .. N /\ DOMAIN g = 1 .. N + 1
  BY <1>1 DEF Heap
<1>3. ASSUME NEW a \in DOMAIN g, NEW Q \in Props, NEW i \in DOMAIN g[a][Q]
      PROVE  a \in DOMAIN k /\ g[a][Q] = k[a][Q] /\ i \in DOMAIN k[a][Q] /\ g[a][Q][i] \in 2 .. N
  <2>1. a # N + 1
    <3>1. CASE a = N + 1
      <4>1. g[a][Q] = <<>>
        BY <1>1, <3>1 DEF Childless
      <4>2. DOMAIN g[a][Q] = {}
        BY <4>1
      <4> QED BY <4>2
    <3> QED BY <3>1
  <2>2. a \in 1 .. N
    BY <1>2, <2>1
  <2>3. g[a][Q] = k[a][Q]
    BY <1>1, <2>2
  <2>4. k[a][Q] \in Seq(2 .. N)
    BY <2>2, RowFacts
  <2>5. i \in 1 .. Len(k[a][Q])
    BY <2>3, <2>4, LenProperties
  <2>6. k[a][Q][i] \in 2 .. N
    BY <2>4, <2>5, ElementOfSeq
  <2> QED BY <1>2, <2>2, <2>3, <2>6
<1>4. ASSUME NEW a \in DOMAIN g, NEW b \in DOMAIN g, NEW Q \in Props, NEW S \in Props,
             NEW i \in DOMAIN g[a][Q], NEW j \in DOMAIN g[b][S], g[a][Q][i] = g[b][S][j]
      PROVE  a = b /\ Q = S /\ i = j
  <2>1. a \in DOMAIN k /\ g[a][Q] = k[a][Q] /\ i \in DOMAIN k[a][Q]
    BY <1>3, Zenon
  <2>2. b \in DOMAIN k /\ g[b][S] = k[b][S] /\ j \in DOMAIN k[b][S]
    BY <1>3, Zenon
  <2>3. k[a][Q][i] = k[b][S][j]
    BY <1>4, <2>1, <2>2
  <2> QED BY <2>1, <2>2, <2>3, OnlyPlace
<1>5. OneParent(g)
  BY <1>4, Zenon DEF OneParent
<1>6. ASSUME NEW a \in DOMAIN g, NEW Q \in Props, NEW i \in DOMAIN g[a][Q] PROVE g[a][Q][i] # N + 1
  <2>1. g[a][Q][i] \in 2 .. N
    BY <1>3, Zenon
  <2> QED BY <1>2, <2>1
<1>7. NoPlace(g, N + 1)
  BY <1>6, Zenon DEF NoPlace
<1> QED BY <1>5, <1>7 DEF g

LEMMA GrownFollows ==
  ASSUME NEW k, NEW N, Heap(k, N), NEW p \in Path, NEW w, Follows(k, p, w)
  PROVE  Follows(Append(k, Childless), p, w)
<1> DEFINE g == Append(k, Childless)
<1>1. \A a \in 1 .. N : g[a] = k[a]
  BY GrownHeap
<1> HIDE DEF g
<1>2. Steps(k, N, p, w)
  BY FollowsSteps
<1>3. ASSUME NEW i \in 1 .. Len(p)
      PROVE  p[i].idx + 1 \in 1 .. Len(g[w[i - 1]][p[i].prop]) /\ w[i] = g[w[i - 1]][p[i].prop][p[i].idx + 1]
  <2>1. /\ w[i - 1] \in 1 .. N /\ p[i].idx + 1 \in 1 .. Len(k[w[i - 1]][p[i].prop])
        /\ w[i] = k[w[i - 1]][p[i].prop][p[i].idx + 1]
    BY <1>2, Zenon DEF Steps
  <2>2. g[w[i - 1]] = k[w[i - 1]]
    BY <1>1, <2>1, Zenon
  <2> QED BY <2>1, <2>2, Zenon
<1>4. Follows(g, p, w)
  BY <1>3, Zenon DEF Follows
<1> QED BY <1>4 DEF g

LEMMA ChangeGrown ==
  ASSUME NEW k, NEW N, Heap(k, N), NEW n \in 1 .. N, NEW P \in Props, NEW ms \in Seq(2 .. N + 1)
  PROVE  Changed(Append(k, Childless), Append([k EXCEPT ![n][P] = ms], Childless), N + 1, n, P, ms)
<1> DEFINE g == Append(k, Childless)
           R == [Props -> Seq(2 .. N + 1)]
           e == [k EXCEPT ![n][P] = ms]
           k2 == Append(e, Childless)
<1>1. /\ Heap(g, N + 1) /\ (\A a \in 1 .. N : g[a] = k[a]) /\ g[N + 1] = Childless
  BY GrownHeap
<1>2. N \in Nat \ {0} /\ DOMAIN k = 1 .. N /\ k \in [1 .. N -> [Props -> Seq(2 .. N)]]
  BY DEF Heap
<1>3. ASSUME NEW a \in 1 .. N PROVE k[a] \in R
  <2>1. g \in [1 .. N + 1 -> R] /\ a \in 1 .. N + 1
    BY <1>1, <1>2 DEF Heap
  <2> HIDE DEF R, g
  <2> QED BY <1>1, <2>1
<1>4. Childless \in R
  BY EmptySeq DEF Childless
<1> DEFINE M == Seq(2 .. N + 1)
<1>5. k \in [1 .. N -> [Props -> M]] /\ ms \in M /\ R = [Props -> M]
  BY <1>2, <1>3
<1> HIDE DEF M
<1>6. e \in [1 .. N -> [Props -> M]]
  BY <1>5
<1>7. \A a \in 1 .. N, Q \in Props : e[a][Q] = IF a = n /\ Q = P THEN ms ELSE k[a][Q]
  BY <1>5
<1> HIDE DEF R, e, g
<1>8. e \in [1 .. N -> R] /\ N \in Nat
  BY <1>2, <1>5, <1>6
<1>9. e \in Seq(R) /\ Len(e) = N
  BY <1>8, FunctionSeq
<1>10. /\ k2 \in Seq(R) /\ Len(k2) = Len(e) + 1
       /\ \A i \in 1 .. Len(e) : k2[i] = e[i]
       /\ k2[Len(e) + 1] = Childless
  BY <1>4, <1>9, AppendProperties
<1> HIDE DEF k2
<1>11. k2 \in [1 .. N + 1 -> R] /\ k2[N + 1] = Childless /\ \A i \in 1 .. N : k2[i] = e[i]
  BY <1>9, <1>10, LenProperties
<1>12. Heap(k2, N + 1)
  BY <1>2, <1>11 DEF Heap, R
<1>13. ASSUME NEW a \in 1 .. N + 1, NEW Q \in Props
       PROVE  k2[a][Q] = IF a = n /\ Q = P THEN ms ELSE g[a][Q]
  <2>1. CASE a = N + 1
    BY <1>1, <1>2, <1>11, <2>1
  <2>2. CASE a # N + 1
    <3>1. a \in 1 .. N
      BY <1>2, <2>2
    <3>2. k2[a] = e[a] /\ g[a] = k[a] /\ e[a][Q] = IF a = n /\ Q = P THEN ms ELSE k[a][Q]
      BY <1>1, <1>7, <1>11, <3>1, Zenon
    <3> QED BY <3>2, Zenon
  <2> QED BY <2>1, <2>2
<1> QED BY <1>12, <1>13, Zenon DEF Changed, g, k2, e

---------------------------------------------------------------------------
(* What each mutation does to the tree *)

\* What the nodes p leads to in k and q leads to in k2 are the same.
SameNode(k, p, k2, q) == NodeAtIn(k, p) # Nothing => NodeAtIn(k2, q) = NodeAtIn(k, p)

\* k2 is k without the node at t, k with x put in by an insertion, k with x
\* instead of the node at t.
Taken(k, k2, N, t) ==
  /\ Heap(k2, N) /\ OneParent(k2) /\ NoPlace(k2, NodeAtIn(k, t)) /\ NodeAtIn(k, t) \in 2 .. N
  /\ \A p \in Path : \A q \in DeletionUpdate(t, p) : SameNode(k, p, k2, q)
PutIn(k, k2, N, ins, x) ==
  /\ Heap(k2, N) /\ OneParent(k2) /\ NodeAtIn(k2, Location(ins)) = x
  /\ \A p \in Path : SameNode(k, p, k2, InsertionUpdate(ins, p))
Replaced(k, k2, N, t, x) ==
  /\ Heap(k2, N) /\ OneParent(k2) /\ NodeAtIn(k2, t) = x
  /\ \A p \in Path : p # t => \A q \in ReplacementUpdate(t, p) : SameNode(k, p, k2, q)

(* The place of a node in the array of its parent. *)
LEMMA PlaceOf ==
  ASSUME NEW k, NEW N, Heap(k, N), NEW t \in Path, t # <<>>, NodeAtIn(k, t) # Nothing,
         NEW n, n = NodeAtIn(k, Front(t)), NEW P, P = t[Len(t)].prop, NEW d, d = t[Len(t)].idx
  PROVE  /\ n \in 1 .. N /\ P \in Props /\ d \in Nat /\ k[n][P] \in Seq(2 .. N)
         /\ d + 1 \in 1 .. Len(k[n][P]) /\ k[n][P][d + 1] = NodeAtIn(k, t) /\ NodeAtIn(k, t) \in 2 .. N
<1>1. PICK v : Follows(k, t, v)
  BY NodeFollows
<1>2. Follows(k, Front(t), v)
  BY <1>1, FollowsFront
<1>3. Len(t) \in Nat \ {0} /\ t[Len(t)] \in Step /\ Front(t) \in Path /\ Len(Front(t)) = Len(t) - 1
  BY FrontFacts
<1>4. n = v[Len(Front(t))] /\ n \in 1 .. N
  BY <1>2, <1>3, FollowsTo
<1>5. P \in Props /\ d \in Nat
  BY <1>3 DEF Step
<1>6. k[n][P] \in Seq(2 .. N)
  BY <1>4, <1>5, RowFacts
<1>7. Steps(k, N, t, v)
  BY <1>1, FollowsSteps
<1>8. Len(t) \in 1 .. Len(t) /\ Len(t) - 1 = Len(Front(t))
  BY <1>3
<1>9. /\ v[Len(t)] \in 2 .. N
      /\ t[Len(t)].idx + 1 \in 1 .. Len(k[v[Len(t) - 1]][t[Len(t)].prop])
      /\ v[Len(t)] = k[v[Len(t) - 1]][t[Len(t)].prop][t[Len(t)].idx + 1]
  BY <1>7, <1>8, Zenon DEF Steps
<1>10. NodeAtIn(k, t) = v[Len(t)]
  BY <1>1, FollowsTo
<1> QED BY <1>4, <1>5, <1>6, <1>8, <1>9, <1>10

(* A node without a place is put into an array. *)
LEMMA PutTree ==
  ASSUME NEW k, NEW N, Heap(k, N), OneParent(k), NEW x \in 2 .. N, NoPlace(k, x),
         NEW node \in Path, NEW n, n = NodeAtIn(k, node), n # Nothing,
         NEW P \in Props, NEW d \in Nat, d <= Len(k[n][P]),
         NEW k2, Changed(k, k2, N, n, P, InsertAt(k[n][P], d + 1, x))
  PROVE  PutIn(k, k2, N, [node |-> node, prop |-> P, idx |-> d], x)
<1> DEFINE ins == [node |-> node, prop |-> P, idx |-> d]
           ns == k[n][P]
<1>1. PICK v : Follows(k, node, v)
  BY NodeFollows
<1>2. n = v[Len(node)] /\ n \in 1 .. N
  BY <1>1, FollowsTo
<1>3. ns \in Seq(2 .. N) /\ Len(ns) \in Nat /\ DOMAIN ns = 1 .. Len(ns) /\ DOMAIN k = 1 .. N
  BY <1>2, RowFacts
<1>4. d + 1 \in 1 .. Len(ns) + 1
  BY <1>3
<1>5. Distinct(ns)
  BY <1>2, RowInjective
<1>6. Lacks(ns, x)
  <2>1. \A i \in DOMAIN ns : ns[i] # x
    BY <1>2, <1>3 DEF NoPlace
  <2> QED BY <1>3, <2>1 DEF Lacks
<1> DEFINE e == d + 1
           ms == InsertAt(ns, e, x)
<1>7. Row(ns, x, ms)
  <2> HIDE DEF ns, e
  <2> QED BY <1>3, <1>4, <1>5, <1>6, InsertRow DEF e
<1>8. Changed(k, k2, N, n, P, ms)
  OBVIOUS
<1>9. OneParent(k2)
  <2> HIDE DEF ms
  <2> QED BY <1>2, <1>7, <1>8, ChangedTree
<1>10. Heap(k2, N)
  BY <1>8 DEF Changed
<1>11. ASSUME NEW p \in Path PROVE SameNode(k, p, k2, InsertionUpdate(ins, p))
  <2> SUFFICES ASSUME NodeAtIn(k, p) # Nothing PROVE NodeAtIn(k2, InsertionUpdate(ins, p)) = NodeAtIn(k, p)
    BY DEF SameNode
  <2>1. PICK w : Follows(k, p, w)
    BY NodeFollows
  <2>2. Follows(k2, InsertionUpdate(ins, p), w)
    BY <1>1, <1>2, <2>1, InsertFollows
  <2>3. ins \in Insertion
    BY DEF Insertion
  <2>4. InsertionUpdate(ins, p) \in Path /\ Len(InsertionUpdate(ins, p)) = Len(p)
    BY <2>3, InsertionLength, InsertionRoundTrip
  <2>5. NodeAtIn(k, p) = w[Len(p)]
    BY <2>1, FollowsTo
  <2> DEFINE q == InsertionUpdate(ins, p)
  <2> HIDE DEF q
  <2>6. q \in Path /\ Follows(k2, q, w) /\ Len(q) = Len(p)
    BY <2>2, <2>4 DEF q
  <2>7. NodeAtIn(k2, q) = w[Len(q)]
    BY <1>10, <2>6, FollowsTo
  <2> QED BY <2>5, <2>6, <2>7 DEF q
<1>12. NodeAtIn(k2, Location(ins)) = x
  <2>0. Len(node) \in Nat
    BY LenProperties DEF Path
  <2>1. InsertionUpdate(ins, node) = node
    BY <2>0 DEF InsertionUpdate, Through
  <2>2. Follows(k2, InsertionUpdate(ins, node), v)
    BY <1>1, <1>2, InsertFollows
  <2> DEFINE s == [prop |-> P, idx |-> d]
  <2>3. s \in Step
    BY DEF Step
  <2>4. k2[n][P] = ms
    BY <1>2, <1>8 DEF Changed
  <2>5. Has(ms, e, x)
    <3>1. e \in 1 .. Len(ns) + 1
      BY <1>4
    <3> QED BY <1>3, <3>1, InsertedElement
  <2>6. Has(k2[v[Len(node)]][s.prop], s.idx + 1, x)
    <3> HIDE DEF ms
    <3> QED BY <1>2, <2>4, <2>5
  <2>7. Location(ins) = Append(node, s)
    BY DEF Location
  <2> HIDE DEF s
  <2>8. NodeAtIn(k2, Append(node, s)) = x
    BY <1>10, <2>1, <2>2, <2>3, <2>6, FollowsAppend
  <2> QED BY <2>7, <2>8
<1> QED BY <1>9, <1>10, <1>11, <1>12 DEF PutIn

(* A node is taken out of an array: it has no place any more. *)
LEMMA TakeTree ==
  ASSUME NEW k, NEW N, Heap(k, N), OneParent(k), NEW t \in Path, t # <<>>, t[Len(t)].prop \in ArrayProps,
         NodeAtIn(k, t) # Nothing, NEW n, n = NodeAtIn(k, Front(t)),
         NEW k2, Changed(k, k2, N, n, t[Len(t)].prop, RemoveAt(k[n][t[Len(t)].prop], t[Len(t)].idx + 1))
  PROVE  Taken(k, k2, N, t)
<1> DEFINE P == t[Len(t)].prop
           d == t[Len(t)].idx
           ns == k[n][P]
           node == Front(t)
<1>1. PICK v : Follows(k, t, v)
  BY NodeFollows
<1>2. Follows(k, node, v)
  BY <1>1, FollowsFront
<1>3. /\ Len(t) \in Nat \ {0} /\ t[Len(t)] \in Step
      /\ Front(t) \in Path /\ Len(Front(t)) = Len(t) - 1
      /\ \A i \in 1 .. Len(t) - 1 : Front(t)[i] = t[i]
  BY FrontFacts
<1>4. n = v[Len(node)] /\ n \in 1 .. N
  BY <1>2, <1>3, FollowsTo
<1>5. P \in Props /\ d \in Nat
  BY <1>3 DEF Step
<1>6. ns \in Seq(2 .. N) /\ Len(ns) \in Nat /\ DOMAIN ns = 1 .. Len(ns) /\ DOMAIN k = 1 .. N
  BY <1>4, <1>5, RowFacts
<1>7. Steps(k, N, t, v)
  BY <1>1, FollowsSteps
<1>8. d + 1 \in 1 .. Len(ns) /\ v[Len(t)] = ns[d + 1] /\ v[Len(t)] \in 2 .. N
  <2>1. Len(t) \in 1 .. Len(t) /\ Len(t) - 1 = Len(node)
    BY <1>3
  <2>2. /\ v[Len(t)] \in 2 .. N
        /\ t[Len(t)].idx + 1 \in 1 .. Len(k[v[Len(t) - 1]][t[Len(t)].prop])
        /\ v[Len(t)] = k[v[Len(t) - 1]][t[Len(t)].prop][t[Len(t)].idx + 1]
    BY <1>7, <2>1, Zenon DEF Steps
  <2> QED BY <1>4, <2>1, <2>2
<1>9. NodeAtIn(k, t) = ns[d + 1]
  BY <1>1, <1>8, FollowsTo
<1>10. Distinct(ns)
  BY <1>4, <1>5, RowInjective
<1> DEFINE e == d + 1
           ms == RemoveAt(ns, e)
<1>11. Row(ns, Root, RemoveAt(ns, e)) /\ \A a \in DOMAIN RemoveAt(ns, e) : RemoveAt(ns, e)[a] # ns[e]
  <2>1. e \in 1 .. Len(ns)
    BY <1>8
  <2> HIDE DEF ns, e
  <2> QED BY <1>6, <1>10, <2>1, RemoveRow
<1>12. NoPlace(k, Root)
  <2>1. ASSUME NEW a \in DOMAIN k, NEW Q \in Props, NEW i \in DOMAIN k[a][Q] PROVE k[a][Q][i] # Root
    <3>0. a \in 1 .. N
      BY <1>6
    <3>1. k[a][Q] \in Seq(2 .. N) /\ DOMAIN k[a][Q] = 1 .. Len(k[a][Q])
      BY <3>0, RowFacts
    <3>2. k[a][Q][i] \in 2 .. N
      BY <3>1, ElementOfSeq
    <3> QED BY <3>2 DEF Root
  <2> QED BY <2>1, Zenon DEF NoPlace
<1>13. Changed(k, k2, N, n, P, ms)
  OBVIOUS
<1>14. OneParent(k2)
  <2>1. Row(ns, Root, ms)
    BY <1>11
  <2> HIDE DEF ms
  <2> QED BY <1>4, <1>5, <1>12, <1>13, <2>1, ChangedTree
<1>15. Heap(k2, N)
  BY <1>13 DEF Changed
<1>16. NoPlace(k2, NodeAtIn(k, t))
  <2>1. ASSUME NEW a \in DOMAIN k2, NEW Q \in Props, NEW i \in DOMAIN k2[a][Q], k2[a][Q][i] = ns[e]
        PROVE  FALSE
    <3>0. a \in 1 .. N
      BY <1>15 DEF Heap
    <3>1. k2[a][Q] = IF a = n /\ Q = P THEN ms ELSE k[a][Q]
      BY <1>13, <3>0, Zenon DEF Changed
    <3>2. CASE a = n /\ Q = P
      <4>1. k2[a][Q] = RemoveAt(ns, e)
        BY <3>1, <3>2
      <4> HIDE DEF ns, e
      <4> QED BY <1>11, <2>1, <4>1
    <3>3. CASE ~(a = n /\ Q = P)
      <4>1. k[a][Q][i] = k[n][P][e] /\ i \in DOMAIN k[a][Q] /\ e \in DOMAIN k[n][P]
        BY <1>6, <1>8, <2>1, <3>1, <3>3
      <4>2. a \in DOMAIN k /\ n \in DOMAIN k
        BY <1>4, <1>6, <3>0
      <4> HIDE DEF e, P
      <4>3. a = n /\ Q = P
        BY <1>5, <4>1, <4>2, OnlyPlace
      <4> QED BY <3>3, <4>3
    <3> QED BY <3>2, <3>3
  <2> QED BY <1>9, <2>1, Zenon DEF NoPlace
<1>17. ASSUME NEW p \in Path, NEW q \in DeletionUpdate(t, p) PROVE SameNode(k, p, k2, q)
  <2> SUFFICES ASSUME NodeAtIn(k, p) # Nothing PROVE NodeAtIn(k2, q) = NodeAtIn(k, p)
    BY DEF SameNode
  <2>1. PICK w : Follows(k, p, w)
    BY NodeFollows
  <2>2. Follows(k2, q, w)
    BY <1>2, <1>4, <1>8, <2>1, DeleteFollows
  <2>3. q \in Path /\ Len(q) = Len(p)
    BY DeletionLength, DeletionRoundTrip
  <2>4. NodeAtIn(k, p) = w[Len(p)]
    BY <2>1, FollowsTo
  <2>5. NodeAtIn(k2, q) = w[Len(q)]
    BY <1>15, <2>2, <2>3, FollowsTo
  <2> QED BY <2>3, <2>4, <2>5
<1> QED BY <1>8, <1>9, <1>14, <1>15, <1>16, <1>17, Zenon DEF Taken

(* A node without a place takes the place of another. *)
LEMMA ReplaceTree ==
  ASSUME NEW k, NEW N, Heap(k, N), OneParent(k), NEW x \in 2 .. N, NoPlace(k, x),
         NEW t \in Path, t # <<>>, NodeAtIn(k, t) # Nothing, NEW n, n = NodeAtIn(k, Front(t)),
         NEW k2, Changed(k, k2, N, n, t[Len(t)].prop, [k[n][t[Len(t)].prop] EXCEPT ![t[Len(t)].idx + 1] = x])
  PROVE  Replaced(k, k2, N, t, x)
<1> DEFINE P == t[Len(t)].prop
           d == t[Len(t)].idx
           ns == k[n][P]
           node == Front(t)
<1>1. PICK v : Follows(k, t, v)
  BY NodeFollows
<1>2. Follows(k, node, v)
  BY <1>1, FollowsFront
<1>3. /\ Len(t) \in Nat \ {0} /\ t[Len(t)] \in Step
      /\ Front(t) \in Path /\ Len(Front(t)) = Len(t) - 1
      /\ \A i \in 1 .. Len(t) - 1 : Front(t)[i] = t[i]
  BY FrontFacts
<1>4. n = v[Len(node)] /\ n \in 1 .. N
  BY <1>2, <1>3, FollowsTo
<1>5. P \in Props /\ d \in Nat
  BY <1>3 DEF Step
<1>6. ns \in Seq(2 .. N) /\ Len(ns) \in Nat /\ DOMAIN ns = 1 .. Len(ns) /\ DOMAIN k = 1 .. N
  BY <1>4, <1>5, RowFacts
<1>7. Steps(k, N, t, v)
  BY <1>1, FollowsSteps
<1>8. d + 1 \in 1 .. Len(ns)
  <2>1. Len(t) \in 1 .. Len(t) /\ Len(t) - 1 = Len(node)
    BY <1>3
  <2>2. t[Len(t)].idx + 1 \in 1 .. Len(k[v[Len(t) - 1]][t[Len(t)].prop])
    BY <1>7, <2>1, Zenon DEF Steps
  <2> QED BY <1>4, <2>1, <2>2
<1>9. Distinct(ns)
  BY <1>4, <1>5, RowInjective
<1>10. Lacks(ns, x)
  <2>1. \A i \in DOMAIN ns : ns[i] # x
    BY <1>4, <1>5, <1>6 DEF NoPlace
  <2> QED BY <1>6, <2>1 DEF Lacks
<1> DEFINE e == d + 1
           ms == [ns EXCEPT ![e] = x]
<1>11. Row(ns, x, ms)
  <2>1. e \in 1 .. Len(ns)
    BY <1>8
  <2> HIDE DEF ns, e
  <2> QED BY <1>6, <1>9, <1>10, <2>1, ReplaceRow
<1>12. Changed(k, k2, N, n, P, ms)
  OBVIOUS
<1>13. OneParent(k2)
  <2> HIDE DEF ms
  <2> QED BY <1>4, <1>5, <1>11, <1>12, ChangedTree
<1>14. Heap(k2, N)
  BY <1>12 DEF Changed
<1>a. P = t[Len(t)].prop /\ ns = k[n][P] /\ d = t[Len(t)].idx /\ ms = [ns EXCEPT ![d + 1] = x]
  OBVIOUS
<1>b. Follows(k, Front(t), v) /\ n = v[Len(Front(t))] /\ d + 1 \in 1 .. Len(ns)
  BY <1>2, <1>4, <1>8
<1> HIDE DEF P, d, ns, e, ms
<1>15. NodeAtIn(k2, t) = x
  BY <1>a, <1>b, <1>12, ReplacedFollows
<1>16. ASSUME NEW p \in Path, p # t, NEW q \in ReplacementUpdate(t, p) PROVE SameNode(k, p, k2, q)
  <2> SUFFICES ASSUME NodeAtIn(k, p) # Nothing PROVE NodeAtIn(k2, q) = NodeAtIn(k, p)
    BY DEF SameNode
  <2>1. PICK w : Follows(k, p, w)
    BY NodeFollows
  <2>2. Follows(k2, q, w)
    <3>1. p # t /\ p \in Path /\ q \in ReplacementUpdate(t, p)
      BY <1>16
    <3> QED BY <1>a, <1>b, <1>12, <2>1, <3>1, ReplaceFollows, SMTT(30)
  <2>3. q \in Path /\ Len(q) = Len(p)
    BY DEF ReplacementUpdate
  <2>4. NodeAtIn(k, p) = w[Len(p)]
    BY <2>1, FollowsTo
  <2>5. NodeAtIn(k2, q) = w[Len(q)]
    BY <1>14, <2>2, <2>3, FollowsTo
  <2> QED BY <2>3, <2>4, <2>5
<1> QED BY <1>13, <1>14, <1>15, <1>16, Zenon DEF Replaced

(* The paths of a tree with a new node lead where they led. *)
LEMMA GrownNode ==
  ASSUME NEW k, NEW N, Heap(k, N), NEW p \in Path, NodeAtIn(k, p) # Nothing
  PROVE  NodeAtIn(Append(k, Childless), p) = NodeAtIn(k, p) /\ NodeAtIn(k, p) \in 1 .. N
<1>1. PICK w : Follows(k, p, w)
  BY NodeFollows
<1>2. NodeAtIn(k, p) = w[Len(p)] /\ w[Len(p)] \in 1 .. N
  BY <1>1, FollowsTo
<1> DEFINE g == Append(k, Childless)
<1>3. Heap(g, N + 1) /\ Follows(g, p, w)
  BY <1>1, GrownHeap, GrownFollows
<1> HIDE DEF g
<1>4. NodeAtIn(g, p) = w[Len(p)]
  BY <1>3, FollowsTo
<1> QED BY <1>2, <1>4 DEF g

(* The row of an array after a node is taken out, or put in. *)
LEMMA TakenRow ==
  ASSUME NEW S, NEW ns \in Seq(S), NEW e \in 1 .. Len(ns)
  PROVE  RemoveAt(ns, e) \in Seq(S)
BY RemoveAtElements DEF WithoutAt

LEMMA PutRow ==
  ASSUME NEW S, NEW ns \in Seq(S), NEW e \in 1 .. Len(ns) + 1, NEW x \in S
  PROVE  InsertAt(ns, e, x) \in Seq(S)
BY InsertAtElements DEF WithAt

(* A node is taken out of an array (DeletionM). *)
LEMMA DeleteTree ==
  ASSUME NEW k, NEW N, Heap(k, N), OneParent(k), NEW t \in Path, t # <<>>, t[Len(t)].prop \in ArrayProps,
         NodeAtIn(k, t) # Nothing, NEW n, n = NodeAtIn(k, Front(t)),
         NEW P, P = t[Len(t)].prop, NEW d, d = t[Len(t)].idx,
         NEW k2, k2 = [k EXCEPT ![n][P] = RemoveAt(k[n][P], d + 1)]
  PROVE  Taken(k, k2, N, t)
<1> DEFINE ms == RemoveAt(k[n][P], d + 1)
<1>1. /\ n \in 1 .. N /\ P \in Props /\ d \in Nat /\ k[n][P] \in Seq(2 .. N)
      /\ d + 1 \in 1 .. Len(k[n][P]) /\ k[n][P][d + 1] = NodeAtIn(k, t) /\ NodeAtIn(k, t) \in 2 .. N
  BY PlaceOf
<1>2. ms \in Seq(2 .. N)
  BY <1>1, TakenRow
<1>3. Changed(k, k2, N, n, P, ms)
  <2> HIDE DEF ms
  <2>1. Changed(k, [k EXCEPT ![n][P] = ms], N, n, P, ms)
    BY <1>1, <1>2, ChangeRow
  <2> QED BY <2>1 DEF ms
<1> QED BY <1>3, TakeTree

(* A node without a place is put into an array (the second half of         *)
(* MovementM).                                                             *)
LEMMA PlaceTree ==
  ASSUME NEW k, NEW N, Heap(k, N), OneParent(k), NEW x \in 2 .. N, NoPlace(k, x),
         NEW node \in Path, NEW n, n = NodeAtIn(k, node), n # Nothing,
         NEW P \in Props, NEW d \in Nat, d <= Len(k[n][P]),
         NEW k2, k2 = [k EXCEPT ![n][P] = InsertAt(k[n][P], d + 1, x)]
  PROVE  PutIn(k, k2, N, [node |-> node, prop |-> P, idx |-> d], x)
<1> DEFINE ms == InsertAt(k[n][P], d + 1, x)
<1>1. n \in 1 .. N
  BY GrownNode
<1>2. k[n][P] \in Seq(2 .. N) /\ Len(k[n][P]) \in Nat
  BY <1>1, RowFacts
<1>3. d + 1 \in 1 .. Len(k[n][P]) + 1
  BY <1>2
<1>4. ms \in Seq(2 .. N)
  BY <1>2, <1>3, PutRow
<1>5. Changed(k, k2, N, n, P, ms)
  <2> HIDE DEF ms
  <2>1. Changed(k, [k EXCEPT ![n][P] = ms], N, n, P, ms)
    BY <1>1, <1>4, ChangeRow
  <2> QED BY <2>1 DEF ms
<1> QED BY <1>5, PutTree

(* A new node is put into an array (InsertionM). *)
LEMMA InsertTree ==
  ASSUME NEW k, NEW N, Heap(k, N), OneParent(k), NEW node \in Path, NEW n, n = NodeAtIn(k, node),
         n # Nothing, NEW P \in Props, NEW d \in Nat, d <= Len(k[n][P]),
         NEW k2, k2 = Append([k EXCEPT ![n][P] = InsertAt(k[n][P], d + 1, N + 1)], Childless)
  PROVE  PutIn(k, k2, N + 1, [node |-> node, prop |-> P, idx |-> d], N + 1)
<1> DEFINE ins == [node |-> node, prop |-> P, idx |-> d]
           g == Append(k, Childless)
           ms == InsertAt(k[n][P], d + 1, N + 1)
<1>1. n \in 1 .. N /\ N \in Nat \ {0}
  BY GrownNode DEF Heap
<1>2. /\ Heap(g, N + 1) /\ (\A a \in 1 .. N : g[a] = k[a]) /\ g[N + 1] = Childless
  BY GrownHeap
<1>3. OneParent(g) /\ NoPlace(g, N + 1)
  BY GrownTree
<1>4. NodeAtIn(g, node) = n
  BY GrownNode
<1>5. k[n][P] \in Seq(2 .. N + 1) /\ Len(k[n][P]) \in Nat
  <2>1. k[n][P] \in Seq(2 .. N)
    BY <1>1, RowFacts
  <2> QED BY <1>1, <2>1
<1>6. ms \in Seq(2 .. N + 1)
  <2>1. N + 1 \in 2 .. N + 1 /\ d + 1 \in 1 .. Len(k[n][P]) + 1
    BY <1>1, <1>5
  <2> QED BY <1>5, <2>1, PutRow
<1>7. Changed(g, k2, N + 1, n, P, ms)
  <2> HIDE DEF ms
  <2>1. Changed(Append(k, Childless), Append([k EXCEPT ![n][P] = ms], Childless), N + 1, n, P, ms)
    BY <1>1, <1>6, ChangeGrown
  <2> QED BY <2>1 DEF ms
<1>8. g[n] = k[n] /\ N + 1 \in 2 .. N + 1
  <2>1. N + 1 \in 2 .. N + 1
    BY <1>1
  <2> HIDE DEF g
  <2> QED BY <1>1, <1>2, <2>1, Zenon
<1> DEFINE x == N + 1
<1>9. PutIn(g, k2, x, ins, x)
  <2>1. /\ Heap(g, x) /\ OneParent(g) /\ x \in 2 .. x /\ NoPlace(g, x) /\ n = NodeAtIn(g, node)
        /\ d <= Len(g[n][P]) /\ Changed(g, k2, x, n, P, InsertAt(g[n][P], d + 1, x))
    BY <1>2, <1>3, <1>4, <1>7, <1>8
  <2> HIDE DEF g, x
  <2> QED BY <2>1, PutTree
<1>10. ASSUME NEW p \in Path PROVE SameNode(k, p, k2, InsertionUpdate(ins, p))
  <2>1. NodeAtIn(k, p) # Nothing => NodeAtIn(g, p) = NodeAtIn(k, p)
    BY GrownNode
  <2> HIDE DEF g, ins
  <2> QED BY <1>9, <2>1, Zenon DEF SameNode, PutIn
<1> QED BY <1>9, <1>10, Zenon DEF PutIn

(* A new node takes the place of another (ReplacementM). *)
LEMMA ReplaceByNew ==
  ASSUME NEW k, NEW N, Heap(k, N), OneParent(k), NEW t \in Path, t # <<>>, NodeAtIn(k, t) # Nothing,
         NEW n, n = NodeAtIn(k, Front(t)), NEW P, P = t[Len(t)].prop, NEW d, d = t[Len(t)].idx,
         NEW k2, k2 = Append([k EXCEPT ![n][P] = [k[n][P] EXCEPT ![d + 1] = N + 1]], Childless)
  PROVE  Replaced(k, k2, N + 1, t, N + 1)
<1> DEFINE g == Append(k, Childless)
           ms == [k[n][P] EXCEPT ![d + 1] = N + 1]
           x == N + 1
<1>1. /\ n \in 1 .. N /\ P \in Props /\ d \in Nat /\ k[n][P] \in Seq(2 .. N)
      /\ d + 1 \in 1 .. Len(k[n][P]) /\ k[n][P][d + 1] = NodeAtIn(k, t) /\ NodeAtIn(k, t) \in 2 .. N
  BY PlaceOf
<1>2. Front(t) \in Path /\ n # Nothing
  BY <1>1, FrontFacts DEF Nothing
<1>3. N \in Nat \ {0}
  BY DEF Heap
<1>4. /\ Heap(g, x) /\ (\A a \in 1 .. N : g[a] = k[a])
  BY GrownHeap
<1>5. OneParent(g) /\ NoPlace(g, x)
  BY GrownTree
<1>6. NodeAtIn(g, Front(t)) = n
  BY <1>2, GrownNode
<1>7. NodeAtIn(g, t) # Nothing
  BY GrownNode
<1>8. ms \in Seq(2 .. N + 1)
  <2>1. k[n][P] \in Seq(2 .. N + 1) /\ N + 1 \in 2 .. N + 1
    BY <1>1, <1>3
  <2> DEFINE S == 2 .. N + 1
             ns == k[n][P]
             e == d + 1
  <2>2. ns \in Seq(S) /\ x \in S /\ e \in 1 .. Len(ns)
    BY <1>1, <2>1
  <2> HIDE DEF S, ns, x, e
  <2>3. [ns EXCEPT ![e] = x] \in Seq(S)
    BY <2>2, ExceptSeq
  <2> QED BY <2>3 DEF S, ns, x, e
<1>9. Changed(g, k2, x, n, P, ms)
  <2> HIDE DEF ms
  <2>1. Changed(Append(k, Childless), Append([k EXCEPT ![n][P] = ms], Childless), N + 1, n, P, ms)
    BY <1>1, <1>8, ChangeGrown
  <2> QED BY <2>1 DEF ms
<1>10. Replaced(g, k2, x, t, x)
  <2>0. x \in 2 .. x
    BY <1>3
  <2>1. g[n] = k[n]
    <3> HIDE DEF g
    <3> QED BY <1>1, <1>4, Zenon
  <2>2. Changed(g, k2, x, n, t[Len(t)].prop, [g[n][t[Len(t)].prop] EXCEPT ![t[Len(t)].idx + 1] = x])
    BY <1>9, <2>1
  <2> HIDE DEF g, x
  <2> QED BY <1>4, <1>5, <1>6, <1>7, <2>0, <2>2, ReplaceTree
<1>11. ASSUME NEW p \in Path, p # t, NEW q \in ReplacementUpdate(t, p) PROVE SameNode(k, p, k2, q)
  <2>1. NodeAtIn(k, p) # Nothing => NodeAtIn(g, p) = NodeAtIn(k, p)
    BY GrownNode
  <2>2. SameNode(g, p, k2, q)
    BY <1>10, <1>11, Zenon DEF Replaced
  <2> HIDE DEF g
  <2> QED BY <2>1, <2>2, Zenon DEF SameNode
<1> QED BY <1>10, <1>11, Zenon DEF Replaced, x

(* Two paths that lead to one node are the same. *)
LEMMA NodePath ==
  ASSUME NEW k, NEW N, Heap(k, N), OneParent(k), NEW p \in Path, NEW q \in Path,
         NodeAtIn(k, p) # Nothing, NodeAtIn(k, q) = NodeAtIn(k, p)
  PROVE  p = q
<1>1. PICK w : Follows(k, p, w)
  BY NodeFollows
<1>2. PICK v : Follows(k, q, v)
  BY NodeFollows
<1>3. w[Len(p)] = v[Len(q)]
  BY <1>1, <1>2, FollowsTo
<1>4. Len(p) \in 0 .. Len(p) /\ Len(q) \in 0 .. Len(q)
  BY LenProperties DEF Path
<1>5. Len(p) = Len(q) /\ \A i \in 1 .. Len(p) : p[i] = q[i]
  BY <1>1, <1>2, <1>3, <1>4, SamePath
<1> QED BY <1>5, PathEqual

---------------------------------------------------------------------------
(* The invariant *)

(* The nodes of the original AST below its root have paths. *)
LEMMA PathOfType ==
  ASSUME NEW n \in DOMAIN OriKind \ {Root}
  PROVE  PathOf(n) \in Path /\ PathOf(n) # <<>> /\ NodeAtIn(OriKids, PathOf(n)) = n
<1>1. PathOf(n) \in OriPaths /\ NodeAtIn(OriKids, PathOf(n)) = n
  BY OriAssumption, Zenon DEF PathOf
<1>2. PathOf(n) \in Path
  BY <1>1, OriAssumption, Zenon
<1>3. PathOf(n) # <<>>
  BY <1>1, RootPath, Zenon
<1> QED BY <1>1, <1>2, <1>3

(* The initial fault space is well formed. *)
LEMMA InitTrack ==
  ASSUME Init
  PROVE  TrackInv
<1>1. PICK ns \in SUBSET (DOMAIN OriKind \ {Root}) :
        faults = {[path |-> PathOf(n), remaining |-> MutationTypes,
                   node |-> n, origin |-> PathOf(n)] : n \in ns}
  BY DEF Init
<1>2. ASSUME NEW f \in faults
      PROVE  Entry(f) /\ f.remaining \subseteq MutationTypes
  <2>1. PICK n \in ns : f = [path |-> PathOf(n), remaining |-> MutationTypes,
                             node |-> n, origin |-> PathOf(n)]
    BY <1>1
  <2>2. PathOf(n) \in Path /\ PathOf(n) # <<>>
    BY PathOfType
  <2> HIDE DEF PathOf
  <2> QED BY <2>1, <2>2 DEF Entry
<1>3. seq \in Seq(Mutations)
  BY EmptySeq DEF Init
<1> QED BY <1>2, <1>3 DEF TrackInv

(* Every mutation keeps the fault space and the sequence well formed. *)
LEMMA NextTrack ==
  ASSUME TrackInv, [Next]_vars
  PROVE  TrackInv'
<1>1. CASE UNCHANGED vars
  BY <1>1 DEF TrackInv, Entry, vars
<1>2. CASE Next
  <2>0. PICK m \in Mutations : \E renamed :
          seq' = Append(seq, m) /\ faults' = NewFaults(m, renamed)
    BY <1>2, NextExtends
  <2>1. PICK renamed : seq' = Append(seq, m) /\ faults' = NewFaults(m, renamed)
    BY <2>0
  <2>2. ASSUME NEW g \in faults'
        PROVE  Entry(g) /\ g.remaining \subseteq MutationTypes
    <3>1. PICK f \in faults : \E p \in updateASTPath(m, f.path) :
            /\ g = [path |-> p, remaining |-> StillAllowed(f, m),
                    node |-> renamed[f.node], origin |-> f.origin]
            /\ g.remaining # {}
      BY <2>1, NewFaultsFrom DEF TrackInv
    <3>2. PICK p \in updateASTPath(m, f.path) :
            /\ g = [path |-> p, remaining |-> StillAllowed(f, m),
                    node |-> renamed[f.node], origin |-> f.origin]
            /\ g.remaining # {}
      BY <3>1
    <3>3. f.path \in Path /\ f.path # <<>> /\ f.remaining \subseteq MutationTypes
      BY DEF TrackInv, Entry
    <3>4. p \in Path /\ p # <<>>
      BY <3>3, UpdateNonEmpty
    <3>5. g.path = p /\ g.remaining \subseteq f.remaining
      BY <3>2 DEF StillAllowed
    <3>6. g = [path |-> g.path, remaining |-> g.remaining, node |-> g.node, origin |-> g.origin]
      BY <3>2
    <3> QED BY <3>2, <3>3, <3>4, <3>5, <3>6 DEF Entry
  <2>3. seq' \in Seq(Mutations)
    BY <2>1, AppendProperties DEF TrackInv
  <2>4. (\A f \in faults : Entry(f) /\ f.remaining \subseteq MutationTypes)'
    BY <2>2 DEF Entry
  <2> QED BY <2>3, <2>4 DEF TrackInv
<1> QED BY <1>1, <1>2

(* The entries and the mutations stay well formed in every mutant. *)
THEOREM TrackCorrect == Spec => []TrackInv
<1>1. Init => TrackInv
  BY InitTrack
<1>2. TrackInv /\ [Next]_vars => TrackInv'
  BY NextTrack
<1> QED BY <1>1, <1>2, PTL DEF Spec

---------------------------------------------------------------------------
(* The properties *)

(* A movement puts the statement where the insertion was drawn, and the     *)
(* assertions of MovementM never fail.                                     *)
THEOREM MoveCorrect == Spec => []MoveAsDrawn
<1>1. ASSUME TrackInv
      PROVE  MoveAsDrawn
  <2>1. SUFFICES ASSUME NEW f \in faults, NEW g \in faults, NEW i \in 0 .. MaxIndex,
                        NEW prop \in ArrayProps, Deletable(f),
                        NEW p \in DeletionUpdate(f.path, g.path)
                 PROVE  LET ins == [node |-> p, prop |-> prop, idx |-> i]
                            m == fromMutation(f.path, ins)
                        IN Destination(m) # {} /\ MoveInsertion(m) = ins
    BY DEF MoveAsDrawn
  <2> DEFINE ins == [node |-> p, prop |-> prop, idx |-> i]
  <2>2. f.path \in Path /\ f.path # <<>> /\ g.path \in Path
    BY <1>1 DEF TrackInv, Entry
  <2>3. f.path[Len(f.path)].prop \in ArrayProps
    BY <2>1 DEF Deletable
  <2>4. p \in Path
    BY <2>2, DeletionRoundTrip
  <2>5. ins \in Insertion
    BY <2>4, PropsAssumption DEF Insertion
  <2>6. /\ Destination(fromMutation(f.path, ins)) = {Location(ins)}
        /\ MoveInsertion(fromMutation(f.path, ins)) = ins
    BY <2>2, <2>3, <2>5, MoveReachesPlaceDrawn
  <2> QED BY <2>6
<1> QED BY <1>1, TrackCorrect, PTL

(* The type of a path a mutation loses: it is at or below its target. *)
LEMMA LostPaths ==
  ASSUME NEW m \in Mutations, NEW p \in Path, updateASTPath(m, p) = {}
  PROVE  /\ m.type # "InsertionM" /\ arrStartsWithArr(p, targetNodePath(m))
         /\ p = targetNodePath(m) => m.type = "DeletionM"
<1>1. m.type \in {"InsertionM", "DeletionM", "ReplacementM", "MovementM"}
  BY DEF Mutations
<1>2. CASE m.type = "InsertionM"
  BY <1>2 DEF updateASTPath
<1>3. CASE m.type = "DeletionM"
  BY <1>3 DEF updateASTPath, DeletionUpdate, targetNodePath
<1>4. CASE m.type = "ReplacementM"
  BY <1>4 DEF updateASTPath, ReplacementUpdate, targetNodePath
<1>5. CASE m.type = "MovementM"
  <2>1. MoveUpdate(m.arg, p) = {} /\ targetNodePath(m) = m.arg.from
    BY <1>5 DEF updateASTPath, targetNodePath
  <2>2. p # m.arg.from /\ DeletionUpdate(m.arg.from, p) = {}
    BY <2>1 DEF MoveUpdate
  <2> QED BY <1>5, <2>1, <2>2 DEF DeletionUpdate
<1> QED BY <1>1, <1>2, <1>3, <1>4, <1>5

(* A mutation has an entry for its target, which allows its type. *)
LEMMA NextUses ==
  ASSUME Next
  PROVE  \E f \in faults : \E m : \E renamed :
           /\ faults' = NewFaults(m, renamed)
           /\ m.type \in f.remaining /\ targetNodePath(m) = f.path
<1>1. PICK f \in faults :
        \/ Delete(f)
        \/ \E k \in {"ExpressionStatement", "Expression", "Block"} : Replace(f, k)
        \/ \E prop \in ArrayProps, i \in 0 .. MaxIndex :
             Insert(f, prop, i) \/ \E g \in faults : Move(f, g, prop, i)
  BY DEF Next
<1> DEFINE Uses(m, renamed) ==
             /\ faults' = NewFaults(m, renamed)
             /\ m.type \in f.remaining /\ targetNodePath(m) = f.path
<1>2. ASSUME Delete(f)
      PROVE  \E m : \E renamed : Uses(m, renamed)
  <2> DEFINE m == [type |-> "DeletionM", arg |-> f.path]
  <2>1. Uses(m, Same)
    BY <1>2 DEF Delete, Extend, Allows, targetNodePath
  <2> QED BY <2>1
<1>3. ASSUME NEW k, Replace(f, k)
      PROVE  \E m : \E renamed : Uses(m, renamed)
  <2> DEFINE m == [type |-> "ReplacementM", arg |-> f.path]
             r == [Same EXCEPT ![NodeAt(f.path)] = Len(kind) + 1]
  <2>1. Uses(m, r)
    BY <1>3 DEF Replace, Extend, Allows, targetNodePath
  <2> QED BY <2>1
<1>4. ASSUME NEW prop, NEW i, Insert(f, prop, i)
      PROVE  \E m : \E renamed : Uses(m, renamed)
  <2> DEFINE m == [type |-> "InsertionM", arg |-> [node |-> f.path, prop |-> prop, idx |-> i]]
  <2>1. Uses(m, Same)
    BY <1>4 DEF Insert, Extend, Allows, targetNodePath
  <2> QED BY <2>1
<1>5. ASSUME NEW prop, NEW i, NEW g, Move(f, g, prop, i)
      PROVE  \E m : \E renamed : Uses(m, renamed)
  <2>1. PICK p \in DeletionUpdate(f.path, g.path) :
          Extend("MovementM", fromMutation(f.path, [node |-> p, prop |-> prop, idx |-> i]), Same)
    BY <1>5 DEF Move
  <2> DEFINE a == fromMutation(f.path, [node |-> p, prop |-> prop, idx |-> i])
             m == [type |-> "MovementM", arg |-> a]
  <2>2. a.from = f.path
    BY DEF fromMutation
  <2>3. "MovementM" \in f.remaining
    BY <1>5 DEF Move, Allows
  <2>4. faults' = NewFaults(m, Same)
    BY <2>1 DEF Extend
  <2> HIDE DEF a
  <2>5. Uses(m, Same)
    BY <2>2, <2>3, <2>4 DEF targetNodePath
  <2> QED BY <2>5
<1> QED BY <1>1, <1>2, <1>3, <1>4, <1>5

(* Some mutation is allowed in every state that has a step. *)
LEMMA NextAllows ==
  ASSUME TrackInv, Next
  PROVE  MutationTypes # {}
<1>1. PICK f \in faults : f.remaining # {}
  BY NextUses
<1> QED BY <1>1 DEF TrackInv

(* No node leaves the fault space but the target of a mutation, or one      *)
(* below a target that is taken away.                                      *)
THEOREM KeepsCorrect == Spec => KeepsUndisturbed
<1>1. ASSUME TrackInv, Next
      PROVE  LosesOnlyDisturbed
  <2>0. PICK m \in Mutations : \E renamed :
          seq' = Append(seq, m) /\ faults' = NewFaults(m, renamed)
    BY <1>1, NextExtends
  <2>1. PICK renamed : seq' = Append(seq, m) /\ faults' = NewFaults(m, renamed)
    BY <2>0
  <2>2. seq'[Len(seq')] = m
    BY <1>1, <2>1, AppendProperties DEF TrackInv
  <2>3. ASSUME NEW f \in faults, \A g \in faults' : g.origin # f.origin
        PROVE  MayLose(f, m)
    <3>1. /\ Entry(f)
          /\ f = [path |-> f.path, remaining |-> f.remaining, node |-> f.node, origin |-> f.origin]
      BY <1>1 DEF TrackInv, Entry
    <3>2. f.path \in Path /\ f.remaining # {}
      BY <1>1, <3>1, NextAllows DEF Entry
    <3>3. CASE updateASTPath(m, f.path) = {}
      BY <3>2, <3>3, LostPaths DEF MayLose
    <3>4. CASE updateASTPath(m, f.path) # {}
      <4>1. PICK p \in updateASTPath(m, f.path) : TRUE
        BY <3>4
      <4> DEFINE h == [f EXCEPT !.path = p, !.remaining = StillAllowed(f, m),
                                !.node = renamed[f.node]]
      <4>2. h.origin = f.origin /\ h.remaining = StillAllowed(f, m)
        BY <3>1
      <4>3. h \in Carried(f, m, renamed)
        BY DEF Carried
      <4> HIDE DEF h
      <4>4. h \notin NewFaults(m, renamed)
        BY <2>1, <2>3, <4>2
      <4>5. h.remaining = {}
        BY <4>3, <4>4 DEF NewFaults
      <4> QED BY <3>2, <4>2, <4>5 DEF StillAllowed, MayLose
    <3> QED BY <3>3, <3>4
  <2> QED BY <2>2, <2>3 DEF LosesOnlyDisturbed
<1>2. TrackInv /\ [Next]_vars => [LosesOnlyDisturbed]_vars
  BY <1>1
<1> QED BY <1>2, TrackCorrect, PTL DEF Spec, KeepsUndisturbed

---------------------------------------------------------------------------
(* The way of a path through the mutation sequence *)

\* Every entry was carried along from its path in the original AST, one
\* mutation after the other.
TrailInv ==
  \A f \in faults : \E t : Trail(seq, t) /\ t[0] = f.origin /\ t[Len(seq)] = f.path

(* A trail goes on with the next mutation. *)
LEMMA TrailAppend ==
  ASSUME NEW s \in Seq(Mutations), NEW m \in Mutations, NEW t, Trail(s, t),
         NEW p \in updateASTPath(m, t[Len(s)])
  PROVE  \E u : Trail(Append(s, m), u) /\ u[0] = t[0] /\ u[Len(s) + 1] = p
<1> DEFINE n == Len(s)
           u == [k \in 0 .. n + 1 |-> IF k = n + 1 THEN p ELSE t[k]]
<1>1. /\ n \in Nat /\ Len(Append(s, m)) = n + 1 /\ Append(s, m)[n + 1] = m
      /\ \A k \in 1 .. n : Append(s, m)[k] = s[k]
  BY LenProperties, AppendProperties
<1>2. u[0] = t[0] /\ u[n + 1] = p /\ u[n] = t[n]
  BY <1>1
<1>3. ASSUME NEW k \in 1 .. n + 1
      PROVE  u[k] \in updateASTPath(Append(s, m)[k], u[k - 1])
  <2>1. CASE k = n + 1
    <3>1. k - 1 = n
      BY <1>1, <2>1
    <3> HIDE DEF u
    <3> QED BY <1>1, <1>2, <2>1, <3>1
  <2>2. CASE k # n + 1
    <3>1. k \in 1 .. n /\ u[k] = t[k] /\ u[k - 1] = t[k - 1]
      BY <1>1, <2>2
    <3> HIDE DEF u
    <3>2. t[k] \in updateASTPath(s[k], t[k - 1]) /\ Append(s, m)[k] = s[k]
      BY <1>1, <3>1 DEF Trail
    <3> QED BY <3>1, <3>2
  <2> QED BY <2>1, <2>2
<1> HIDE DEF u
<1>4. Trail(Append(s, m), u)
  BY <1>1, <1>2, <1>3 DEF Trail
<1> QED BY <1>2, <1>4

(* A part of the sequence has a part of the trail. *)
LEMMA TrailPart ==
  ASSUME NEW s \in Seq(Mutations), NEW t, Trail(s, t),
         NEW j \in 0 .. Len(s), NEW k \in j .. Len(s)
  PROVE  /\ SubSeq(s, j + 1, k) \in Seq(Mutations) /\ Len(SubSeq(s, j + 1, k)) = k - j
         /\ \E u : Trail(SubSeq(s, j + 1, k), u) /\ u[0] = t[j] /\ u[k - j] = t[k]
<1> DEFINE r == SubSeq(s, j + 1, k)
           u == [i \in 0 .. k - j |-> t[i + j]]
<1>1. Len(s) \in Nat /\ j \in Nat /\ k \in Nat /\ j <= k /\ k <= Len(s) /\ k - j \in Nat
  BY LenProperties
<1>2. r \in Seq(Mutations) /\ Len(r) = k - j /\ \A i \in 1 .. k - j : r[i] = s[i + j]
  BY <1>1, ElementOfSeq, SubSeqProperties
<1>3. u[0] = t[j] /\ u[k - j] = t[k]
  BY <1>1
<1>4. ASSUME NEW i \in 1 .. k - j
      PROVE  u[i] \in updateASTPath(r[i], u[i - 1])
  <2>1. i + j \in 1 .. Len(s) /\ (i + j) - 1 = (i - 1) + j /\ i \in 0 .. k - j /\ i - 1 \in 0 .. k - j
    BY <1>1
  <2>2. u[i] = t[i + j] /\ u[i - 1] = t[(i + j) - 1]
    BY <2>1
  <2>3. t[i + j] \in updateASTPath(s[i + j], t[(i + j) - 1])
    BY <2>1, Zenon DEF Trail
  <2> HIDE DEF u, r
  <2> QED BY <1>2, <2>2, <2>3
<1>5. t[j] \in Path
  BY TrailPaths
<1> HIDE DEF u, r
<1>6. Trail(r, u)
  BY <1>2, <1>3, <1>4, <1>5 DEF Trail
<1> QED BY <1>2, <1>3, <1>6 DEF r

(* Every mutation prolongs the trails of the entries it keeps. *)
LEMMA NextTrail ==
  ASSUME TrackInv, TrailInv, [Next]_vars
  PROVE  TrailInv'
<1>1. CASE UNCHANGED vars
  BY <1>1 DEF TrailInv, Trail, vars
<1>2. CASE Next
  <2>0. PICK m \in Mutations : \E renamed :
          seq' = Append(seq, m) /\ faults' = NewFaults(m, renamed)
    BY <1>2, NextExtends
  <2>1. PICK renamed : seq' = Append(seq, m) /\ faults' = NewFaults(m, renamed)
    BY <2>0
  <2>2. seq \in Seq(Mutations) /\ Len(seq') = Len(seq) + 1
    BY <2>1, AppendProperties DEF TrackInv
  <2>3. ASSUME NEW g \in faults'
        PROVE  \E u : Trail(seq', u) /\ u[0] = g.origin /\ u[Len(seq')] = g.path
    <3>1. PICK f \in faults : \E p \in updateASTPath(m, f.path) :
            /\ g = [path |-> p, remaining |-> StillAllowed(f, m),
                    node |-> renamed[f.node], origin |-> f.origin]
            /\ g.remaining # {}
      BY <2>1, NewFaultsFrom DEF TrackInv
    <3>2. PICK p \in updateASTPath(m, f.path) :
            g = [path |-> p, remaining |-> StillAllowed(f, m),
                 node |-> renamed[f.node], origin |-> f.origin]
      BY <3>1
    <3>3. g.path = p /\ g.origin = f.origin
      BY <3>2
    <3>4. PICK t : Trail(seq, t) /\ t[0] = f.origin /\ t[Len(seq)] = f.path
      BY DEF TrailInv
    <3>5. p \in updateASTPath(m, t[Len(seq)])
      BY <3>4
    <3>6. \E u : Trail(Append(seq, m), u) /\ u[0] = t[0] /\ u[Len(seq) + 1] = p
      BY <2>2, <3>4, <3>5, TrailAppend, Zenon
    <3> QED BY <2>1, <2>2, <3>3, <3>4, <3>6
  <2> QED BY <2>3 DEF TrailInv
<1> QED BY <1>1, <1>2

(* Every entry of every mutant has its trail. *)
THEOREM TrailCorrect == Spec => [](TrackInv /\ TrailInv)
<1>1. Init => TrailInv
  <2> SUFFICES ASSUME Init, NEW f \in faults
               PROVE  \E t : Trail(seq, t) /\ t[0] = f.origin /\ t[Len(seq)] = f.path
    BY DEF TrailInv
  <2>1. seq = <<>> /\ Len(seq) = 0
    BY DEF Init
  <2>2. f.origin = f.path /\ f.path \in Path
    BY InitTrack DEF Init, TrackInv, Entry
  <2> DEFINE t == [k \in {0} |-> f.path]
  <2>3. t[0] = f.path
    OBVIOUS
  <2> HIDE DEF t
  <2>4. Trail(seq, t)
    BY <2>1, <2>2, <2>3 DEF Trail
  <2> QED BY <2>1, <2>2, <2>3, <2>4
<1>2. TrackInv /\ TrailInv /\ [Next]_vars => TrailInv'
  BY NextTrail
<1> QED BY TrackCorrect, <1>1, <1>2, PTL DEF Spec

(* Undoing a whole mutation sequence takes every path of the fault space   *)
(* back to its path in the original AST, for sequences of any length.      *)
THEOREM ReverseCorrect == Spec => []ReverseTracks
<1>1. TrackInv /\ TrailInv => ReverseTracks
  <2> SUFFICES ASSUME TrackInv, TrailInv, NEW f \in faults
               PROVE  reverseUpdatePath(seq, f.path) = {f.origin}
    BY DEF ReverseTracks
  <2>1. PICK t : Trail(seq, t) /\ t[0] = f.origin /\ t[Len(seq)] = f.path
    BY DEF TrailInv
  <2>2. reverseUpdatePath(seq, t[Len(seq)]) = {t[0]}
    BY <2>1, UndoSequence DEF TrackInv
  <2> QED BY <2>1, <2>2
<1> QED BY TrailCorrect, <1>1, PTL

(* Rebasing a path to any earlier mutant of the sequence, by way of the     *)
(* original AST, is undoing the mutations made since then.                 *)
THEOREM RebaseCorrect == Spec => []RebaseTracks
<1>1. TrackInv /\ TrailInv => RebaseTracks
  <2> SUFFICES ASSUME TrackInv, TrailInv, NEW f \in faults, NEW k \in 0 .. Len(seq)
               PROVE  rebasePath(f.path, seq, SubSeq(seq, 1, k))
                        = reverseUpdatePath(SubSeq(seq, k + 1, Len(seq)), f.path)
    BY DEF RebaseTracks
  <2> DEFINE n == Len(seq)
             since == SubSeq(seq, k + 1, n)
             upto == SubSeq(seq, 1, k)
  <2>0. seq \in Seq(Mutations) /\ n \in Nat
    BY LenProperties DEF TrackInv
  <2>1. PICK t : Trail(seq, t) /\ t[0] = f.origin /\ t[n] = f.path
    BY DEF TrailInv
  <2>2. reverseUpdatePath(seq, f.path) = {t[0]}
    BY <2>0, <2>1, UndoSequence
  <2>3. rebasePath(f.path, seq, upto) = updatePath(upto, t[0])
    BY <2>2 DEF rebasePath
  <2>4. updatePath(upto, t[0]) = {t[k]}
    <3>1. 0 \in 0 .. n /\ k \in 0 .. n /\ 0 + 1 = 1 /\ k - 0 = k
      BY <2>0
    <3>2. upto \in Seq(Mutations) /\ Len(upto) = k
      BY <2>0, <2>1, <3>1, TrailPart
    <3>3. \E u : Trail(upto, u) /\ u[0] = t[0] /\ u[k] = t[k]
      BY <2>0, <2>1, <3>1, TrailPart
    <3> HIDE DEF upto
    <3>4. PICK u : Trail(upto, u) /\ u[0] = t[0] /\ u[k] = t[k]
      BY <3>3
    <3> QED BY <3>2, <3>4, UpdateSequence
  <2>5. reverseUpdatePath(since, f.path) = {t[k]}
    <3>1. k \in 0 .. n /\ n \in k .. n
      BY <2>0
    <3>2. since \in Seq(Mutations) /\ Len(since) = n - k
      BY <2>0, <2>1, <3>1, TrailPart
    <3>3. \E u : Trail(since, u) /\ u[0] = t[k] /\ u[n - k] = t[n]
      BY <2>0, <2>1, <3>1, TrailPart
    <3> HIDE DEF since
    <3>4. PICK u : Trail(since, u) /\ u[0] = t[k] /\ u[n - k] = t[n]
      BY <3>3
    <3>5. reverseUpdatePath(since, u[Len(since)]) = {u[0]}
      BY <3>2, <3>4, UndoSequence
    <3> QED BY <2>1, <3>2, <3>4, <3>5
  <2> QED BY <2>3, <2>4, <2>5
<1> QED BY TrailCorrect, <1>1, PTL
---------------------------------------------------------------------------
(* The nodes of the fault space *)

\* The AST is a tree, and every entry's path leads to its node.
NodeInv ==
  /\ kind \in Seq(Kinds)
  /\ Heap(kids, Len(kind)) /\ OneParent(kids)
  /\ \A f \in faults : f.node \in Nodes /\ f.origin \in Path /\ NodeAt(f.path) = f.node
  /\ Len(seq) <= MaxMutations

(* The original AST is a tree, and its nodes' paths lead to them. *)
LEMMA InitNode ==
  ASSUME Init
  PROVE  NodeInv
<1>1. PICK ns \in SUBSET (DOMAIN OriKind \ {Root}) :
        faults = {[path |-> PathOf(n), remaining |-> MutationTypes,
                   node |-> n, origin |-> PathOf(n)] : n \in ns}
  BY DEF Init
<1>2. kind = OriKind /\ kids = OriKids /\ seq = <<>>
  BY DEF Init
<1>3. OriKind \in Seq(Kinds) /\ 1 \in DOMAIN OriKind /\ DOMAIN OriKind = 1 .. Len(OriKind) /\ Len(OriKind) \in Nat
  BY OriAssumption, LenProperties DEF Root
<1>4. Len(OriKind) \in Nat \ {0} /\ DOMAIN OriKind \ {Root} = 2 .. Len(OriKind)
  BY <1>3 DEF Root
<1>5. OriKids \in [1 .. Len(OriKind) -> [Props -> Seq(2 .. Len(OriKind))]]
  BY <1>3, <1>4, OriAssumption
<1>6. Heap(kids, Len(kind)) /\ OneParent(kids) /\ kind \in Seq(Kinds)
  BY <1>2, <1>3, <1>4, <1>5, OriAssumption DEF Heap
<1>7. ASSUME NEW f \in faults
      PROVE  f.node \in Nodes /\ f.origin \in Path /\ NodeAt(f.path) = f.node
  <2>1. PICK n \in ns : f = [path |-> PathOf(n), remaining |-> MutationTypes,
                             node |-> n, origin |-> PathOf(n)]
    BY <1>1
  <2>2. PathOf(n) \in Path /\ NodeAtIn(OriKids, PathOf(n)) = n
    BY PathOfType
  <2>3. f.node = n /\ f.path = PathOf(n) /\ f.origin = PathOf(n)
    BY <2>1
  <2>4. n \in 1 .. Len(kind)
    BY <1>2, <1>3
  <2> QED BY <1>2, <2>2, <2>3, <2>4 DEF NodeAt, Nodes
<1>8. Len(seq) <= MaxMutations
  BY <1>2, OriAssumption
<1> QED BY <1>6, <1>7, <1>8 DEF NodeInv

(* A mutation that leaves a tree, and whose path updates lead to the nodes. *)
LEMMA NodeStep ==
  ASSUME TrackInv, NodeInv, NEW m, NEW renamed,
         seq' = Append(seq, m), Len(seq) < MaxMutations, faults' = NewFaults(m, renamed),
         kind' \in Seq(Kinds), Heap(kids', Len(kind')), OneParent(kids'),
         \A f \in faults : \A q \in updateASTPath(m, f.path) :
           renamed[f.node] \in 1 .. Len(kind') /\ NodeAtIn(kids', q) = renamed[f.node]
  PROVE  NodeInv'
<1>1. ASSUME NEW g \in faults'
      PROVE  g.node \in 1 .. Len(kind') /\ g.origin \in Path /\ NodeAtIn(kids', g.path) = g.node
  <2>1. PICK f \in faults : \E p \in updateASTPath(m, f.path) :
          /\ g = [path |-> p, remaining |-> StillAllowed(f, m),
                  node |-> renamed[f.node], origin |-> f.origin]
          /\ g.remaining # {}
    BY NewFaultsFrom DEF TrackInv
  <2>2. PICK p \in updateASTPath(m, f.path) :
          g = [path |-> p, remaining |-> StillAllowed(f, m), node |-> renamed[f.node], origin |-> f.origin]
    BY <2>1
  <2>3. g.path = p /\ g.node = renamed[f.node] /\ g.origin = f.origin
    BY <2>2
  <2>4. f.origin \in Path
    BY DEF NodeInv
  <2> QED BY <2>3, <2>4
<1>2. Len(seq') <= MaxMutations
  <2>1. Len(seq') = Len(seq) + 1 /\ Len(seq) \in Nat
    BY AppendProperties, LenProperties DEF TrackInv
  <2> QED BY <2>1, OriAssumption
<1>3. (\A f \in faults : f.node \in Nodes /\ f.origin \in Path /\ NodeAt(f.path) = f.node)'
  BY <1>1 DEF Nodes, NodeAt
<1> QED BY <1>2, <1>3 DEF NodeInv

(* An entry's path and node. *)
LEMMA EntryNode ==
  ASSUME TrackInv, NodeInv, NEW f \in faults
  PROVE  /\ f.path \in Path /\ f.path # <<>> /\ f.node \in 1 .. Len(kind)
         /\ NodeAtIn(kids, f.path) = f.node /\ f.node # Nothing /\ Same[f.node] = f.node
<1>1. f.path \in Path /\ f.path # <<>> /\ f.node \in 1 .. Len(kind) /\ NodeAtIn(kids, f.path) = f.node
  BY DEF TrackInv, Entry, NodeInv, Nodes, NodeAt
<1>2. DOMAIN kind = 1 .. Len(kind) /\ Len(kind) \in Nat
  BY LenProperties DEF NodeInv
<1> QED BY <1>1, <1>2 DEF Same, Nothing

(* A new node's kind. *)
LEMMA KindGrows ==
  ASSUME NodeInv, NEW k \in Kinds, kind' = Append(kind, k)
  PROVE  kind' \in Seq(Kinds) /\ Len(kind') = Len(kind) + 1 /\ Len(kind) \in Nat
  BY AppendProperties, LenProperties DEF NodeInv

LEMMA InsertNode ==
  ASSUME TrackInv, NodeInv, NEW f \in faults, NEW prop \in ArrayProps, NEW i \in 0 .. MaxIndex,
         Insert(f, prop, i)
  PROVE  NodeInv'
<1> DEFINE N == Len(kind)
           ins == [node |-> f.path, prop |-> prop, idx |-> i]
           m == [type |-> "InsertionM", arg |-> ins]
<1>1. /\ f.path \in Path /\ f.path # <<>> /\ f.node \in 1 .. Len(kind)
      /\ NodeAtIn(kids, f.path) = f.node /\ f.node # Nothing /\ Same[f.node] = f.node
  BY EntryNode
<1>2. /\ i <= Len(kids[f.node][prop]) /\ kind' = Append(kind, "ExpressionStatement")
      /\ kids' = Append([kids EXCEPT ![f.node][prop] = InsertAt(@, i + 1, N + 1)], Childless)
      /\ seq' = Append(seq, m) /\ faults' = NewFaults(m, Same) /\ Len(seq) < MaxMutations
  BY <1>1 DEF Insert, Extend, Allows, NodeAt
<1>3. kind' \in Seq(Kinds) /\ Len(kind') = N + 1 /\ N \in Nat
  BY <1>2, KindGrows DEF Kinds
<1>4. prop \in Props /\ i \in Nat
  BY PropsAssumption
<1>5. Heap(kids, N) /\ OneParent(kids)
  BY DEF NodeInv
<1>6. kids' = Append([kids EXCEPT ![f.node][prop] = InsertAt(kids[f.node][prop], i + 1, N + 1)], Childless)
  BY <1>2
<1>7. PutIn(kids, kids', N + 1, ins, N + 1)
  <2> HIDE DEF N
  <2> QED BY <1>1, <1>2, <1>4, <1>5, <1>6, InsertTree
<1>8. ASSUME NEW h \in faults, NEW q \in updateASTPath(m, h.path)
      PROVE  Same[h.node] \in 1 .. Len(kind') /\ NodeAtIn(kids', q) = Same[h.node]
  <2>1. /\ h.path \in Path /\ h.path # <<>> /\ h.node \in 1 .. Len(kind)
        /\ NodeAtIn(kids, h.path) = h.node /\ h.node # Nothing /\ Same[h.node] = h.node
    BY EntryNode
  <2>2. q = InsertionUpdate(ins, h.path)
    BY DEF updateASTPath
  <2> HIDE DEF ins
  <2>3. NodeAtIn(kids', q) = h.node
    BY <1>7, <2>1, <2>2, Zenon DEF PutIn, SameNode
  <2>4. h.node \in 1 .. Len(kind')
    BY <1>3, <2>1
  <2> QED BY <2>1, <2>3, <2>4
<1>9. Heap(kids', Len(kind')) /\ OneParent(kids')
  BY <1>3, <1>7 DEF PutIn
<1> HIDE DEF m
<1> QED BY <1>2, <1>3, <1>8, <1>9, NodeStep

LEMMA ReplaceNode ==
  ASSUME TrackInv, NodeInv, NEW f \in faults, NEW k \in Kinds, Replace(f, k)
  PROVE  NodeInv'
<1> DEFINE N == Len(kind)
           t == f.path
           P == t[Len(t)].prop
           d == t[Len(t)].idx
           n == NodeAtIn(kids, Front(t))
           m == [type |-> "ReplacementM", arg |-> t]
           r == [Same EXCEPT ![f.node] = N + 1]
<1>1. /\ f.path \in Path /\ f.path # <<>> /\ f.node \in 1 .. Len(kind)
      /\ NodeAtIn(kids, f.path) = f.node /\ f.node # Nothing /\ Same[f.node] = f.node
  BY EntryNode
<1>2. /\ kind' = Append(kind, k)
      /\ kids' = Append([kids EXCEPT ![n][P][d + 1] = N + 1], Childless)
      /\ seq' = Append(seq, m) /\ faults' = NewFaults(m, r) /\ Len(seq) < MaxMutations
  BY <1>1 DEF Replace, Extend, Allows, NodeAt, Parent
<1>3. kind' \in Seq(Kinds) /\ Len(kind') = N + 1 /\ N \in Nat
  BY <1>2, KindGrows
<1>4. Heap(kids, N) /\ OneParent(kids)
  BY DEF NodeInv
<1>5. kids' = Append([kids EXCEPT ![n][P] = [kids[n][P] EXCEPT ![d + 1] = N + 1]], Childless)
  BY <1>2
<1>6. Replaced(kids, kids', N + 1, t, N + 1)
  <2>1. t \in Path /\ t # <<>> /\ NodeAtIn(kids, t) # Nothing
    BY <1>1
  <2> HIDE DEF N, t
  <2> QED BY <1>4, <1>5, <2>1, ReplaceByNew
<1>7. ASSUME NEW h \in faults, NEW q \in updateASTPath(m, h.path)
      PROVE  r[h.node] \in 1 .. Len(kind') /\ NodeAtIn(kids', q) = r[h.node]
  <2>1. /\ h.path \in Path /\ h.path # <<>> /\ h.node \in 1 .. Len(kind)
        /\ NodeAtIn(kids, h.path) = h.node /\ h.node # Nothing /\ Same[h.node] = h.node
    BY EntryNode
  <2>2. q \in ReplacementUpdate(t, h.path)
    BY DEF updateASTPath
  <2>3. DOMAIN Same = 1 .. N
    BY LenProperties DEF Same, NodeInv
  <2>4. CASE h.path = t
    <3>1. q = t
      BY <2>2, <2>4 DEF ReplacementUpdate
    <3>2. h.node = f.node
      BY <1>1, <2>1, <2>4
    <3>3. r[h.node] = N + 1
      BY <1>1, <2>3, <3>2
    <3>4. NodeAtIn(kids', t) = N + 1
      BY <1>6, Zenon DEF Replaced
    <3> HIDE DEF r
    <3> QED BY <1>3, <3>1, <3>3, <3>4
  <2>5. CASE h.path # t
    <3>1. h.node # f.node
      BY <1>1, <1>4, <2>1, <2>5, NodePath
    <3>2. r[h.node] = h.node
      BY <2>1, <2>3, <3>1
    <3>3. NodeAtIn(kids', q) = h.node
      BY <1>6, <2>1, <2>2, <2>5, Zenon DEF Replaced, SameNode
    <3>4. h.node \in 1 .. Len(kind')
      BY <1>3, <2>1
    <3> HIDE DEF r
    <3> QED BY <3>2, <3>3, <3>4
  <2> QED BY <2>4, <2>5
<1>8. Heap(kids', Len(kind')) /\ OneParent(kids')
  BY <1>3, <1>6 DEF Replaced
<1> HIDE DEF m, r
<1> QED BY <1>2, <1>3, <1>7, <1>8, NodeStep

(* What is left once an entry's statement is taken out. *)
LEMMA WithoutTree ==
  ASSUME TrackInv, NodeInv, NEW f \in faults, Deletable(f)
  PROVE  Taken(kids, Without(f.path), Len(kind), f.path)
<1> DEFINE t == f.path
           P == t[Len(t)].prop
           d == t[Len(t)].idx
           n == NodeAtIn(kids, Front(t))
<1>1. /\ f.path \in Path /\ f.path # <<>> /\ f.node \in 1 .. Len(kind)
      /\ NodeAtIn(kids, f.path) = f.node /\ f.node # Nothing /\ Same[f.node] = f.node
  BY EntryNode
<1>2. t[Len(t)].prop \in ArrayProps
  BY DEF Deletable
<1>3. Without(t) = [kids EXCEPT ![n][P] = RemoveAt(kids[n][P], d + 1)]
  BY DEF Without, Parent, NodeAt
<1>4. Heap(kids, Len(kind)) /\ OneParent(kids)
  BY DEF NodeInv
<1>5. t \in Path /\ t # <<>> /\ NodeAtIn(kids, t) # Nothing
  BY <1>1
<1> DEFINE k2 == Without(t)
<1> HIDE DEF t, k2
<1>6. k2 = [kids EXCEPT ![n][P] = RemoveAt(kids[n][P], d + 1)]
  BY <1>3 DEF k2
<1>7. Taken(kids, k2, Len(kind), t)
  BY <1>2, <1>4, <1>5, <1>6, DeleteTree
<1> QED BY <1>7 DEF k2, t

LEMMA DeleteNode ==
  ASSUME TrackInv, NodeInv, NEW f \in faults, Delete(f)
  PROVE  NodeInv'
<1> DEFINE t == f.path
           m == [type |-> "DeletionM", arg |-> t]
<1>1. /\ Deletable(f) /\ kids' = Without(t) /\ kind' = kind
      /\ seq' = Append(seq, m) /\ faults' = NewFaults(m, Same) /\ Len(seq) < MaxMutations
  BY DEF Delete, Extend, Allows
<1>2. Taken(kids, kids', Len(kind), t)
  BY <1>1, WithoutTree
<1>3. kind' \in Seq(Kinds)
  BY <1>1 DEF NodeInv
<1>4. ASSUME NEW h \in faults, NEW q \in updateASTPath(m, h.path)
      PROVE  Same[h.node] \in 1 .. Len(kind') /\ NodeAtIn(kids', q) = Same[h.node]
  <2>1. /\ h.path \in Path /\ h.path # <<>> /\ h.node \in 1 .. Len(kind)
        /\ NodeAtIn(kids, h.path) = h.node /\ h.node # Nothing /\ Same[h.node] = h.node
    BY EntryNode
  <2>2. q \in DeletionUpdate(t, h.path)
    BY DEF updateASTPath
  <2>3. NodeAtIn(kids', q) = h.node
    BY <1>2, <2>1, <2>2, Zenon DEF Taken, SameNode
  <2> QED BY <1>1, <2>1, <2>3
<1>5. Heap(kids', Len(kind')) /\ OneParent(kids')
  BY <1>1, <1>2 DEF Taken
<1> HIDE DEF m
<1> QED BY <1>1, <1>3, <1>4, <1>5, NodeStep

LEMMA MoveNode ==
  ASSUME TrackInv, NodeInv, NEW f \in faults, NEW g \in faults, NEW prop \in ArrayProps,
         NEW i \in 0 .. MaxIndex, Move(f, g, prop, i)
  PROVE  NodeInv'
<1> DEFINE t == f.path
           N == Len(kind)
           k1 == Without(t)
<1>1. Deletable(f) /\ kind' = kind /\ Len(seq) < MaxMutations
  BY DEF Move, Allows
<1>2. PICK p \in DeletionUpdate(t, g.path) :
        LET n == NodeAtIn(k1, p)
            ins == [node |-> p, prop |-> prop, idx |-> i]
            m == fromMutation(t, ins)
        IN  /\ i <= Len(k1[n][prop])
            /\ kids' = Moved(m)
            /\ Extend("MovementM", m, Same)
  BY DEF Move
<1> DEFINE n == NodeAtIn(k1, p)
           ins == [node |-> p, prop |-> prop, idx |-> i]
           mv == fromMutation(t, ins)
           m == [type |-> "MovementM", arg |-> mv]
<1>3. i <= Len(k1[n][prop]) /\ kids' = Moved(mv) /\ seq' = Append(seq, m) /\ faults' = NewFaults(m, Same)
  BY <1>2 DEF Extend
<1>4. /\ f.path \in Path /\ f.path # <<>> /\ f.node \in 1 .. Len(kind)
      /\ NodeAtIn(kids, f.path) = f.node /\ f.node # Nothing /\ Same[f.node] = f.node
  BY EntryNode
<1>5. /\ g.path \in Path /\ g.path # <<>> /\ g.node \in 1 .. Len(kind)
      /\ NodeAtIn(kids, g.path) = g.node /\ g.node # Nothing /\ Same[g.node] = g.node
  BY EntryNode
<1>6. Taken(kids, k1, N, t)
  BY <1>1, WithoutTree
<1>7. /\ Heap(k1, N) /\ OneParent(k1) /\ NoPlace(k1, f.node) /\ f.node \in 2 .. N
      /\ \A a \in Path : \A q \in DeletionUpdate(t, a) : SameNode(kids, a, k1, q)
  BY <1>4, <1>6 DEF Taken
<1>8. p \in Path /\ prop \in Props /\ i \in Nat
  BY <1>4, <1>5, PropsAssumption, DeletionRoundTrip
<1>9. n = g.node /\ n # Nothing
  <2> HIDE DEF k1
  <2> QED BY <1>5, <1>7, Zenon DEF SameNode
<1>10. ins \in Insertion /\ t[Len(t)].prop \in ArrayProps
  BY <1>1, <1>8 DEF Insertion, Deletable
<1>11. MoveInsertion(mv) = ins
  <2> HIDE DEF ins
  <2> QED BY <1>4, <1>10, MoveReachesPlaceDrawn
<1>12. mv.from = t
  BY DEF fromMutation
<1>13. kids' = [k1 EXCEPT ![n][prop] = InsertAt(k1[n][prop], i + 1, f.node)]
  <2> DEFINE put == MoveInsertion(mv)
             w == Without(mv.from)
  <2>1. kids' = [w EXCEPT ![NodeAtIn(w, put.node)][put.prop] =
                   InsertAt(w[NodeAtIn(w, put.node)][put.prop], put.idx + 1, NodeAt(mv.from))]
    <3> HIDE DEF mv
    <3> QED BY <1>3 DEF Moved
  <2>2. w = k1 /\ NodeAt(mv.from) = f.node
    BY <1>4, <1>12 DEF NodeAt
  <2>3. put.node = p /\ put.prop = prop /\ put.idx = i
    BY <1>11
  <2> HIDE DEF put, w, k1
  <2> QED BY <2>1, <2>2, <2>3
<1>14. PutIn(k1, kids', N, ins, f.node)
  <2> HIDE DEF k1, N
  <2> QED BY <1>3, <1>7, <1>8, <1>9, <1>13, PlaceTree
<1>15. kind' \in Seq(Kinds)
  BY <1>1 DEF NodeInv
<1> HIDE DEF mv, ins, k1
<1>16. ASSUME NEW h \in faults, NEW q \in updateASTPath(m, h.path)
       PROVE  Same[h.node] \in 1 .. Len(kind') /\ NodeAtIn(kids', q) = Same[h.node]
  <2>1. /\ h.path \in Path /\ h.path # <<>> /\ h.node \in 1 .. Len(kind)
        /\ NodeAtIn(kids, h.path) = h.node /\ h.node # Nothing /\ Same[h.node] = h.node
    BY EntryNode
  <2>2. q \in MoveUpdate(mv, h.path)
    BY DEF updateASTPath
  <2>3. CASE h.path = t
    <3>1. q = Location(ins)
      BY <1>11, <1>12, <2>2, <2>3 DEF MoveUpdate
    <3>2. NodeAtIn(kids', q) = f.node
      BY <1>14, <3>1, Zenon DEF PutIn
    <3>3. h.node = f.node
      BY <1>4, <2>1, <2>3
    <3> QED BY <1>1, <2>1, <3>2, <3>3
  <2>4. CASE h.path # t
    <3>1. PICK a \in DeletionUpdate(t, h.path) : q = InsertionUpdate(ins, a)
      BY <1>11, <1>12, <2>2, <2>4 DEF MoveUpdate
    <3>2. NodeAtIn(k1, a) = h.node
      BY <1>7, <2>1, <3>1, Zenon DEF SameNode
    <3>3. a \in Path
      BY <1>4, <2>1, <3>1, DeletionRoundTrip
    <3>4. NodeAtIn(kids', q) = h.node
      BY <1>14, <2>1, <3>1, <3>2, <3>3, Zenon DEF PutIn, SameNode
    <3> QED BY <1>1, <2>1, <3>4
  <2> QED BY <2>3, <2>4
<1>17. Heap(kids', Len(kind')) /\ OneParent(kids')
  BY <1>1, <1>14 DEF PutIn
<1> HIDE DEF m
<1> QED BY <1>1, <1>3, <1>15, <1>16, <1>17, NodeStep

(* Every mutation leaves a tree in which the paths lead to the nodes. *)
LEMMA NextNode ==
  ASSUME TrackInv, NodeInv, [Next]_vars
  PROVE  NodeInv'
<1>1. CASE UNCHANGED vars
  BY <1>1 DEF NodeInv, Nodes, NodeAt, vars
<1>2. CASE Next
  <2>1. PICK f \in faults :
          \/ Delete(f)
          \/ \E k \in {"ExpressionStatement", "Expression", "Block"} : Replace(f, k)
          \/ \E prop \in ArrayProps, i \in 0 .. MaxIndex :
               Insert(f, prop, i) \/ \E g \in faults : Move(f, g, prop, i)
    BY <1>2 DEF Next
  <2>2. ASSUME NEW k \in {"ExpressionStatement", "Expression", "Block"}, Replace(f, k)
        PROVE  NodeInv'
    <3>1. k \in Kinds
      BY DEF Kinds
    <3> QED BY <2>2, <3>1, ReplaceNode
  <2> QED BY <2>1, <2>2, DeleteNode, InsertNode, MoveNode
<1> QED BY <1>1, <1>2

(* The AST of every mutant is a tree, and every path of its fault space     *)
(* leads to the node it stands for.                                        *)
THEOREM NodeCorrect == Spec => [](TrackInv /\ NodeInv)
<1>1. Init => TrackInv /\ NodeInv
  BY InitTrack, InitNode
<1>2. TrackInv /\ NodeInv /\ [Next]_vars => (TrackInv /\ NodeInv)'
  BY NextTrack, NextNode
<1> QED BY <1>1, <1>2, PTL DEF Spec

(* After any mutations every path of the fault space leads to the node it   *)
(* stands for, in ASTs of any shape: getFaultSpaceInfoNodePair never finds  *)
(* a path that leads nowhere, or a mutation applied to the wrong node.     *)
THEOREM ResolveCorrect == Spec => []FaultsResolve
<1>1. NodeInv => FaultsResolve
  BY DEF NodeInv, FaultsResolve
<1> QED BY <1>1, NodeCorrect, PTL

(* The variables have their types in every mutant. *)
THEOREM TypeCorrect == Spec => []TypeOK
<1>1. ASSUME TrackInv, NodeInv PROVE TypeOK
  <2>1. kind \in Seq(Kinds) /\ Len(seq) <= MaxMutations /\ Heap(kids, Len(kind))
    BY <1>1 DEF NodeInv
  <2>2. DOMAIN kids = Nodes /\ \A n \in Nodes, p \in Props : kids[n][p] \in Seq(2 .. Len(kind))
    BY <2>1 DEF Heap, Nodes
  <2>3. ASSUME NEW n \in Nodes, NEW p \in Props PROVE kids[n][p] \in Seq(Nodes)
    <3>1. kids[n][p] \in Seq(2 .. Len(kind))
      BY <2>2
    <3> QED BY <3>1 DEF Nodes
  <2>4. ASSUME NEW f \in faults
        PROVE  /\ f.path \in Path /\ f.origin \in Path
               /\ f.remaining \subseteq MutationTypes /\ f.node \in Nodes
    BY <1>1 DEF TrackInv, Entry, NodeInv
  <2> QED BY <2>1, <2>2, <2>3, <2>4 DEF TypeOK
<1> QED BY <1>1, NodeCorrect, PTL

(* The AST stays a tree, and a suspicious node has a place in it: no        *)
(* mutation duplicates a node or loses one of the fault space.             *)
THEOREM PlaceCorrect == Spec => []OnePlace
<1>1. ASSUME TrackInv, NodeInv PROVE OnePlace
  <2>1. ASSUME NEW f \in faults
        PROVE  \E n \in Nodes, p \in Props : f.node \in ToSet(kids[n][p])
    <3> DEFINE t == f.path
               n == NodeAtIn(kids, Front(t))
               P == t[Len(t)].prop
               d == t[Len(t)].idx
    <3>1. /\ f.path \in Path /\ f.path # <<>> /\ f.node \in 1 .. Len(kind)
          /\ NodeAtIn(kids, f.path) = f.node /\ f.node # Nothing /\ Same[f.node] = f.node
      BY <1>1, EntryNode
    <3>2. Heap(kids, Len(kind)) /\ t \in Path /\ t # <<>> /\ NodeAtIn(kids, t) = f.node /\ f.node # Nothing
      BY <1>1, <3>1 DEF NodeInv
    <3>3. /\ n \in 1 .. Len(kind) /\ P \in Props /\ d \in Nat /\ kids[n][P] \in Seq(2 .. Len(kind))
          /\ d + 1 \in 1 .. Len(kids[n][P]) /\ kids[n][P][d + 1] = NodeAtIn(kids, t)
          /\ NodeAtIn(kids, t) \in 2 .. Len(kind)
      <4> HIDE DEF t
      <4> QED BY <3>2, PlaceOf
    <3> HIDE DEF n, P, d
    <3>4. d + 1 \in DOMAIN kids[n][P] /\ kids[n][P][d + 1] = f.node
      BY <3>2, <3>3, LenProperties
    <3>5. f.node \in ToSet(kids[n][P])
      BY <3>4 DEF ToSet
    <3> QED BY <3>3, <3>5 DEF Nodes
  <2> QED BY <1>1, <2>1 DEF OnePlace, NodeInv
<1> QED BY <1>1, NodeCorrect, PTL

---------------------------------------------------------------------------
(* What may still be done *)

(* Entries of one origin have one path. *)
LEMMA OriginPath ==
  ASSUME TrackInv, TrailInv, NEW f \in faults, NEW h \in faults, f.origin = h.origin
  PROVE  f.path = h.path
<1>1. PICK t : Trail(seq, t) /\ t[0] = f.origin /\ t[Len(seq)] = f.path
  BY DEF TrailInv
<1>2. PICK u : Trail(seq, u) /\ u[0] = h.origin /\ u[Len(seq)] = h.path
  BY DEF TrailInv
<1>3. updatePath(seq, t[0]) = {t[Len(seq)]}
  BY <1>1, UpdateSequence DEF TrackInv
<1>4. updatePath(seq, u[0]) = {u[Len(seq)]}
  BY <1>2, UpdateSequence DEF TrackInv
<1> QED BY <1>1, <1>2, <1>3, <1>4

(* A possibility. *)
LEMMA Possible ==
  ASSUME NEW f \in faults, NEW x \in f.remaining
  PROVE  <<f.origin, x>> \in Possibilities
<1>1. <<f.origin, x>> \in {f.origin} \X f.remaining
  OBVIOUS
<1> QED BY <1>1, Zenon DEF Possibilities

(* A mutation adds none, and takes one away. *)
LEMMA NextLess ==
  ASSUME TrackInv, TrailInv, Next
  PROVE  Possibilities' \subseteq Possibilities /\ Possibilities' # Possibilities
<1>1. PICK f \in faults : \E m : \E renamed :
        /\ faults' = NewFaults(m, renamed)
        /\ m.type \in f.remaining /\ targetNodePath(m) = f.path
  BY NextUses
<1>2. PICK m, renamed :
        /\ faults' = NewFaults(m, renamed)
        /\ m.type \in f.remaining /\ targetNodePath(m) = f.path
  BY <1>1
<1>3. ASSUME NEW g \in faults'
      PROVE  \E h \in faults : g.origin = h.origin /\ g.remaining = StillAllowed(h, m)
  <2>1. PICK h \in faults : \E p \in updateASTPath(m, h.path) :
          /\ g = [path |-> p, remaining |-> StillAllowed(h, m),
                  node |-> renamed[h.node], origin |-> h.origin]
          /\ g.remaining # {}
    BY <1>2, NewFaultsFrom DEF TrackInv
  <2>2. PICK p : g = [path |-> p, remaining |-> StillAllowed(h, m),
                      node |-> renamed[h.node], origin |-> h.origin]
    BY <2>1
  <2>3. g.origin = h.origin /\ g.remaining = StillAllowed(h, m)
    BY <2>2
  <2> QED BY <2>3
<1>4. ASSUME NEW z \in Possibilities'
      PROVE  z \in Possibilities /\ z # <<f.origin, m.type>>
  <2>1. PICK g \in faults' : z \in {g.origin} \X g.remaining
    BY Zenon DEF Possibilities
  <2>2. PICK x \in g.remaining : z = <<g.origin, x>>
    BY <2>1
  <2>3. PICK h \in faults : g.origin = h.origin /\ g.remaining = StillAllowed(h, m)
    BY <1>3
  <2>4. x \in h.remaining /\ (h.path = targetNodePath(m) => x # m.type)
    BY <2>2, <2>3 DEF StillAllowed
  <2>5. z \in Possibilities
    BY <2>2, <2>3, <2>4, Possible
  <2>6. ASSUME z = <<f.origin, m.type>> PROVE FALSE
    <3>1. f.origin = h.origin /\ x = m.type
      BY <2>2, <2>3, <2>6
    <3>2. f.path = h.path
      BY <3>1, OriginPath
    <3> QED BY <1>2, <2>4, <3>1, <3>2
  <2> QED BY <2>5, <2>6
<1>5. <<f.origin, m.type>> \in Possibilities
  BY <1>2, Possible
<1> QED BY <1>4, <1>5

(* There are only finitely many at the beginning. *)
LEMMA InitFinite ==
  ASSUME Init
  PROVE  IsFiniteSet(Possibilities)
<1>1. PICK ns \in SUBSET (DOMAIN OriKind \ {Root}) :
        faults = {[path |-> PathOf(n), remaining |-> MutationTypes,
                   node |-> n, origin |-> PathOf(n)] : n \in ns}
  BY DEF Init
<1> DEFINE D == DOMAIN OriKind
           place == [n \in D |-> PathOf(n)]
           R == {place[n] : n \in D}
<1>2. IsFiniteSet(D)
  <2>1. D = 1 .. Len(OriKind) /\ Len(OriKind) \in Nat
    BY OriAssumption, LenProperties
  <2> QED BY <2>1, FS_Interval
<1>3. IsFiniteSet(R)
  <2>1. place \in Surjection(D, R)
    BY DEF Surjection
  <2> HIDE DEF D, place, R
  <2> QED BY <1>2, <2>1, FS_Surjection
<1>4. IsFiniteSet(MutationTypes)
  <2> DEFINE A == {"InsertionM"} \cup {"DeletionM"}
             B == {"ReplacementM"} \cup {"MovementM"}
  <2>1. IsFiniteSet(A) /\ IsFiniteSet(B)
    BY FS_Singleton, FS_Union
  <2>2. MutationTypes \in SUBSET (A \cup B)
    BY OriAssumption
  <2> HIDE DEF A, B
  <2> QED BY <2>1, <2>2, FS_Union, FS_Subset
<1>5. IsFiniteSet(R \X MutationTypes)
  <2> HIDE DEF R
  <2> QED BY <1>3, <1>4, FS_Product
<1>6. ASSUME NEW z \in Possibilities PROVE z \in R \X MutationTypes
  <2>1. PICK f \in faults : z \in {f.origin} \X f.remaining
    BY Zenon DEF Possibilities
  <2>2. PICK n \in ns : f = [path |-> PathOf(n), remaining |-> MutationTypes,
                             node |-> n, origin |-> PathOf(n)]
    BY <1>1
  <2>3. f.origin = place[n] /\ n \in D /\ f.remaining = MutationTypes
    BY <2>2
  <2>4. f.origin \in R
    <3> HIDE DEF D, place
    <3> QED BY <2>3
  <2> HIDE DEF R
  <2> QED BY <2>1, <2>3, <2>4
<1> HIDE DEF R
<1>7. Possibilities \in SUBSET (R \X MutationTypes)
  BY <1>6
<1> QED BY <1>5, <1>7, FS_Subset

(* Every mutation uses up a possibility of the finitely many the original   *)
(* fault space has, so a mutation sequence cannot grow for ever.           *)
THEOREM ShrinksCorrect == Spec => Shrinks
<1> DEFINE Less == Cardinality(Possibilities') < Cardinality(Possibilities)
           Finite == IsFiniteSet(Possibilities)
<1>1. Init => Finite
  BY InitFinite
<1>2. TrackInv /\ TrailInv /\ Finite /\ [Next]_vars => Finite' /\ [Less]_vars
  <2>1. CASE UNCHANGED vars
    BY <2>1 DEF vars, Possibilities
  <2>2. ASSUME TrackInv, TrailInv, Finite, Next
        PROVE  Finite' /\ Less
    <3> DEFINE S == Possibilities
               T == Possibilities'
    <3>1. T \in SUBSET S /\ T # S /\ IsFiniteSet(S)
      BY <2>2, NextLess
    <3> HIDE DEF S, T
    <3>2. /\ IsFiniteSet(T) /\ Cardinality(T) <= Cardinality(S)
          /\ Cardinality(S) = Cardinality(T) => S = T
      BY <3>1, FS_Subset
    <3>3. Cardinality(S) \in Nat /\ Cardinality(T) \in Nat
      BY <3>1, <3>2, FS_CardinalityType
    <3>4. Cardinality(T) < Cardinality(S)
      BY <3>1, <3>2, <3>3
    <3> QED BY <3>2, <3>4 DEF S, T
  <2> HIDE DEF Less, Finite
  <2> QED BY <2>1, <2>2
<1> QED BY <1>1, <1>2, TrailCorrect, PTL DEF Spec, Shrinks


============================================================================
