------------------------- MODULE FaultSpaceProofs --------------------------
(***************************************************************************)
(* Proofs about FaultSpace, for any contract and any interested spaces.    *)
(***************************************************************************)
EXTENDS FaultSpace, ProofLibrary

(* The nodes are numbered from the root, parents first. *)
LEMMA NodesNumbered ==
  /\ Len(Type) \in Nat /\ Nodes = 1 .. Len(Type) /\ Root \in Nodes /\ Root = 1 /\ Nodes \subseteq Nat
  /\ \A n \in Nodes : n # Root => Parent[n] \in Nodes /\ Parent[n] \in 1 .. n - 1 /\ Parent[n] < n
<1>1. Len(Type) \in Nat /\ Nodes = 1 .. Len(Type) /\ Len(Type) # 0
  BY TreeAssumption, LenProperties, EmptySeq DEF Nodes
<1> QED BY <1>1, TreeAssumption DEF Root

(* g gives the lines of the first m nodes. *)
Lines(g, m) ==
  /\ DOMAIN g = 1 .. m
  /\ \A i \in 1 .. m : g[i] = {i} \cup IF i = Root THEN {} ELSE g[Parent[i]]

(* There are such lines. *)
LEMMA LinesExist == \E g : Lines(g, Len(Type))
<1> DEFINE T == {m \in Nodes : \E g : Lines(g, m)}
<1>1. 1 \in T
  <2>1. Lines([i \in 1 .. 1 |-> {1}], 1)
    BY DEF Lines, Root
  <2> QED BY <2>1, NodesNumbered
<1>2. ASSUME NEW m \in 2 .. Len(Type), m - 1 \in T
      PROVE  m \in T
  <2>1. m \in Nodes /\ m # Root /\ m \in Nat /\ m >= 2
    BY NodesNumbered
  <2>2. PICK g : Lines(g, m - 1)
    BY <1>2
  <2> DEFINE h == [i \in 1 .. m |-> IF i = m THEN {m} \cup g[Parent[m]] ELSE g[i]]
  <2>3. ASSUME NEW i \in 1 .. m
        PROVE  h[i] = {i} \cup IF i = Root THEN {} ELSE h[Parent[i]]
    <3>1. i \in Nodes
      BY <2>1, NodesNumbered
    <3>2. CASE i = m
      <4>1. Parent[m] \in 1 .. m - 1
        BY <2>1, NodesNumbered
      <4>2. h[Parent[m]] = g[Parent[m]]
        BY <2>1, <4>1
      <4>3. h[m] = {m} \cup g[Parent[m]]
        BY <2>1
      <4> QED BY <2>1, <3>2, <4>2, <4>3
    <3>3. CASE i # m
      <4>1. i \in 1 .. m - 1 /\ h[i] = g[i]
        BY <2>1, <3>3
      <4>2. g[i] = {i} \cup IF i = Root THEN {} ELSE g[Parent[i]]
        BY <2>2, <4>1 DEF Lines
      <4>3. i # Root => h[Parent[i]] = g[Parent[i]]
        BY <2>1, <3>1, <4>1, NodesNumbered
      <4> QED BY <4>1, <4>2, <4>3
    <3> QED BY <3>2, <3>3
  <2>4. Lines(h, m)
    BY <2>3 DEF Lines
  <2> HIDE DEF h
  <2> QED BY <2>1, <2>4
<1> HIDE DEF T
<1>3. \A m \in 1 .. Len(Type) : m \in T
  BY <1>1, <1>2, NodesNumbered, UpTo
<1>4. Len(Type) \in 1 .. Len(Type)
  BY NodesNumbered
<1> QED BY <1>3, <1>4 DEF T

(* What the line of a node is. *)
LEMMA LineDef ==
  \A n \in Nodes : Line[n] = {n} \cup IF n = Root THEN {} ELSE Line[Parent[n]]
<1> DEFINE body(g) == [n \in Nodes |-> {n} \cup IF n = Root THEN {} ELSE g[Parent[n]]]
<1>1. PICK g : Lines(g, Len(Type))
  BY LinesExist
<1>2. \A n \in Nodes : g[n] = body(g)[n]
  BY <1>1, NodesNumbered DEF Lines
<1> DEFINE e == [n \in Nodes |-> g[n]]
<1>3. body(e) = body(g)
  <2>1. \A n \in Nodes : n # Root => e[Parent[n]] = g[Parent[n]]
    BY NodesNumbered
  <2> QED BY <2>1
<1>4. e = body(g)
  BY <1>2, Zenon
<1>5. \E h : h = body(h)
  BY <1>3, <1>4, Zenon
<1>6. Line = body(Line)
  BY <1>5, Zenon DEF Line
<1> HIDE DEF e
<1> QED BY <1>6, Zenon

(* The root and the other nodes. *)
LEMMA LineFacts ==
  /\ Line[Root] = {Root}
  /\ \A n \in Nodes : n \in Line[n]
  /\ \A n \in Nodes : n # Root => Parent[n] \in Nodes /\ Line[n] = {n} \cup Line[Parent[n]]
<1>1. Line[Root] = {Root}
  BY LineDef, NodesNumbered
<1> QED BY <1>1, LineDef, NodesNumbered

(* The nodes of a line are its node or have smaller numbers. *)
LEMMA LineBelow ==
  \A n \in Nodes : Line[n] \subseteq Nodes /\ Root \in Line[n] /\ \A m \in Line[n] : m <= n
<1> DEFINE T == {n \in Nodes : Line[n] \subseteq Nodes /\ Root \in Line[n] /\ \A m \in Line[n] : m <= n}
<1>1. ASSUME NEW n \in 1 .. Len(Type), \A k \in 1 .. n - 1 : k \in T
      PROVE  n \in T
  <2>1. n \in Nodes
    BY NodesNumbered
  <2>2. CASE n = Root
    BY <2>1, <2>2, LineFacts, NodesNumbered
  <2>3. CASE n # Root
    <3>1. Parent[n] \in T /\ Parent[n] < n /\ Parent[n] \in Nodes
      BY <1>1, <2>1, <2>3, NodesNumbered
    <3>2. Line[n] = {n} \cup Line[Parent[n]]
      BY <2>1, <2>3, LineFacts
    <3>3. \A m \in Line[Parent[n]] : m \in Nodes /\ m <= n
      BY <2>1, <3>1, NodesNumbered
    <3> QED BY <2>1, <3>1, <3>2, <3>3, NodesNumbered
  <2> QED BY <2>2, <2>3
<1> HIDE DEF T
<1>2. \A n \in 1 .. Len(Type) : n \in T
  BY <1>1, NodesNumbered, UpToStrong
<1> QED BY <1>2, NodesNumbered DEF T

(* A strict ancestor is on the parent's line, and a node not on it. *)
LEMMA StrictLine ==
  ASSUME NEW n \in Nodes, n # Root
  PROVE  Line[n] \ {n} = Line[Parent[n]] /\ n \notin Line[Parent[n]]
<1>1. Parent[n] \in Nodes /\ Parent[n] < n /\ n \in Nat /\ Parent[n] \in Nat
  BY NodesNumbered
<1>2. \A m \in Line[Parent[n]] : m <= Parent[n] /\ m \in Nat
  BY <1>1, LineBelow, NodesNumbered
<1>3. n \notin Line[Parent[n]]
  BY <1>1, <1>2
<1> QED BY <1>3, LineFacts

(* The lines of the nodes on a line are parts of it, and inside each other. *)
LEMMA LineParts ==
  \A n \in Nodes : \A m \in Line[n] :
    Line[m] \subseteq Line[n] /\ locInclude(Loc[n], Loc[m])
<1> DEFINE T == {n \in Nodes : \A m \in Line[n] :
                   Line[m] \subseteq Line[n] /\ locInclude(Loc[n], Loc[m])}
<1>1. ASSUME NEW n \in 1 .. Len(Type), \A k \in 1 .. n - 1 : k \in T
      PROVE  n \in T
  <2>1. n \in Nodes
    BY NodesNumbered
  <2>2. Line[n] \subseteq Line[n] /\ locInclude(Loc[n], Loc[n])
    BY <2>1, LocAssumption DEF locInclude
  <2>3. CASE n = Root
    BY <2>1, <2>2, <2>3, LineFacts
  <2>4. CASE n # Root
    <3>1. Parent[n] \in T /\ Parent[n] \in Nodes /\ Line[n] = {n} \cup Line[Parent[n]]
      BY <1>1, <2>1, <2>4, NodesNumbered, LineFacts
    <3>2. ASSUME NEW m \in Line[Parent[n]]
          PROVE  Line[m] \subseteq Line[n] /\ locInclude(Loc[n], Loc[m])
      <4>1. Line[m] \subseteq Line[Parent[n]] /\ locInclude(Loc[Parent[n]], Loc[m]) /\ m \in Nodes
        BY <3>1, LineBelow
      <4>2. locInclude(Loc[n], Loc[Parent[n]])
        BY <2>1, <2>4, LocAssumption
      <4>3. Loc[n] \in [start : Nat, end : Nat] /\ Loc[m] \in [start : Nat, end : Nat]
            /\ Loc[Parent[n]] \in [start : Nat, end : Nat]
        BY <2>1, <3>1, <4>1, LocAssumption
      <4>4. locInclude(Loc[n], Loc[m])
        BY <4>1, <4>2, <4>3, SMTT(30) DEF locInclude
      <4> QED BY <3>1, <4>1, <4>4
    <3> QED BY <2>1, <2>2, <3>1, <3>2
  <2> QED BY <2>3, <2>4
<1> HIDE DEF T
<1>2. \A n \in 1 .. Len(Type) : n \in T
  BY <1>1, NodesNumbered, UpToStrong
<1> QED BY <1>2, NodesNumbered DEF T

(* Of two nodes on a line, one is on the line of the other. *)
LEMMA LineOrdered ==
  \A n \in Nodes : \A m, k \in Line[n] : m \in Line[k] \/ k \in Line[m]
<1> DEFINE T == {n \in Nodes : \A m, k \in Line[n] : m \in Line[k] \/ k \in Line[m]}
<1>1. ASSUME NEW n \in 1 .. Len(Type), \A k \in 1 .. n - 1 : k \in T
      PROVE  n \in T
  <2>1. n \in Nodes
    BY NodesNumbered
  <2>2. CASE n = Root
    BY <2>1, <2>2, LineFacts
  <2>3. CASE n # Root
    <3>1. Parent[n] \in T /\ Line[n] = {n} \cup Line[Parent[n]]
      BY <1>1, <2>1, <2>3, NodesNumbered, LineFacts
    <3>2. \A m, k \in Line[Parent[n]] : m \in Line[k] \/ k \in Line[m]
      BY <3>1
    <3>3. \A m, k \in Line[n] : m \in Line[k] \/ k \in Line[m]
      BY <3>1, <3>2
    <3> QED BY <2>1, <3>3
  <2> QED BY <2>2, <2>3
<1> HIDE DEF T
<1>2. \A n \in 1 .. Len(Type) : n \in T
  BY <1>1, NodesNumbered, UpToStrong
<1> QED BY <1>2, NodesNumbered DEF T
---------------------------------------------------------------------------
(* Contracts and functions *)

(* Above a contract is only the root. *)
LEMMA ContractLine ==
  ASSUME NEW c \in Nodes, Type[c] = "ContractDefinition"
  PROVE  c # Root /\ Parent[c] = Root /\ Line[c] = {c, Root}
<1>1. c # Root /\ Parent[c] = Root
  BY GrammarAssumption
<1> QED BY <1>1, LineFacts

(* Above a function are only a contract and the root. *)
LEMMA FunctionLine ==
  ASSUME NEW f \in Nodes, Type[f] = "FunctionDefinition"
  PROVE  \E c \in Nodes : /\ f # Root /\ Parent[f] = c /\ Type[c] = "ContractDefinition"
                          /\ Line[f] = {f, c, Root}
<1>1. f # Root
  BY GrammarAssumption
<1>2. Parent[f] \in Nodes /\ Type[Parent[f]] = "ContractDefinition"
  BY <1>1, GrammarAssumption, NodesNumbered
<1>3. Line[f] = {f} \cup Line[Parent[f]]
  BY <1>1, LineFacts
<1>4. Line[Parent[f]] = {Parent[f], Root}
  BY <1>2, ContractLine
<1>5. Line[f] = {f, Parent[f], Root}
  BY <1>3, <1>4
<1> QED BY <1>1, <1>2, <1>5

(* Functions and contracts are not inside functions. *)
LEMMA NotNested ==
  ASSUME NEW n \in Nodes, Type[n] \in {"ContractDefinition", "FunctionDefinition"}
  PROVE  ~InFunction(n)
<1>1. CASE Type[n] = "ContractDefinition"
  BY <1>1, ContractLine, GrammarAssumption DEF InFunction, Around
<1>2. CASE Type[n] = "FunctionDefinition"
  <2>1. PICK c \in Nodes : Type[c] = "ContractDefinition" /\ Line[n] = {n, c, Root}
    BY <1>2, FunctionLine
  <2> QED BY <2>1, GrammarAssumption DEF InFunction, Around
<1> QED BY <1>1, <1>2

(* A node that is not inside a function, above one that is, is not a part of *)
(* a call that moves Ether.                                                  *)
LEMMA EtherOutside ==
  ASSUME NEW n \in Nodes, InFunction(n), NEW m \in Line[n], ~InFunction(m)
  PROVE  Parent[m] \notin EtherCalls
<1>1. PICK f \in Line[n] : Type[f] = "FunctionDefinition"
  BY DEF InFunction, Around
<1>2. f \in Nodes /\ m \in Nodes
  BY <1>1, LineBelow
<1>3. m \in Line[f]
  <2>1. m \in Line[f] \/ f \in Line[m]
    BY <1>1, LineOrdered
  <2>2. f \in Line[m] => f = m
    BY <1>1 DEF InFunction, Around
  <2> QED BY <1>2, <2>1, <2>2, LineFacts
<1>4. PICK c \in Nodes : /\ Parent[f] = c /\ Type[c] = "ContractDefinition"
                         /\ Line[f] = {f, c, Root}
  BY <1>1, <1>2, FunctionLine
<1>5. Parent[c] = Root /\ Parent[Root] = 0
  BY <1>4, ContractLine, TreeAssumption
<1>6. Parent[m] \in {c, Root, 0}
  BY <1>3, <1>4, <1>5
<1>7. 0 \notin Nodes
  BY NodesNumbered
<1> QED BY <1>4, <1>6, <1>7, GrammarAssumption

---------------------------------------------------------------------------
(* The interested spaces *)

(* If a node is in the exact scope of a condition, the condition is          *)
(* interested in all nodes above.                                            *)
LEMMA ContractAbove ==
  ASSUME NEW n \in Nodes, NEW m \in Line[n], NEW x, InContract(x, n, FALSE)
  PROVE  InContract(x, m, TRUE)
<1>1. Line[m] \subseteq Line[n]
  BY LineParts
<1>2. \A type : Around(m, type) \subseteq Around(n, type)
  BY <1>1 DEF Around
<1> SUFFICES ASSUME NEW c \in Around(m, "ContractDefinition")
             PROVE  /\ Name[c] = x.contract
                    /\ x.functions # {} =>
                         IF Around(m, "FunctionDefinition") = {}
                           THEN TRUE
                           ELSE \A f \in Around(m, "FunctionDefinition") : Name[f] \in x.functions
  BY DEF InContract
<1>3. c \in Around(n, "ContractDefinition")
  BY <1>2
<1>4. /\ Name[c] = x.contract
      /\ x.functions # {} =>
           IF Around(n, "FunctionDefinition") = {}
             THEN FALSE
             ELSE \A f \in Around(n, "FunctionDefinition") : Name[f] \in x.functions
  BY <1>3 DEF InContract
<1>5. Around(m, "FunctionDefinition") \subseteq Around(n, "FunctionDefinition")
  BY <1>2
<1> HIDE DEF Around
<1> QED BY <1>4, <1>5

(* A range that includes a node intersects all nodes above. *)
LEMMA LocationAbove ==
  ASSUME NEW n \in Nodes, NEW m \in Line[n], NEW loc \in [start : Nat, end : Nat],
         locInclude(Loc[n], loc)
  PROVE  locationIntersect(Loc[m], loc)
<1>1. m \in Nodes /\ locInclude(Loc[n], Loc[m])
  BY LineBelow, LineParts
<1>2. /\ Loc[n] \in [start : Nat, end : Nat] /\ Loc[m] \in [start : Nat, end : Nat]
      /\ Loc[n].start <= Loc[n].end
  BY <1>1, LocAssumption
<1> QED BY <1>1, <1>2 DEF locInclude, locationIntersect

(* Nothing in the exact scope is below a node no space is interested in. *)
LEMMA ScopeBelow ==
  ASSUME spaces \in Specifiers, NEW n \in Nodes, NEW m \in Line[n], Exact(n)
  PROVE  Interested(m)
<1>1. CASE spaces = Undefined
  BY <1>1 DEF Interested
<1>2. CASE spaces # Undefined
  <2>1. PICK space \in spaces : isNodeInExactScope(space, n)
    BY <1>2 DEF Exact
  <2>2. ASSUME NEW x \in space
        PROVE  CASE x.of = "contract" -> InContract(x, m, TRUE)
                 [] x.of = "location" -> locationIntersect(Loc[m], x.loc)
                 [] x.of = "type" -> TRUE
    <3>1. /\ x.of \in {"contract", "location", "type"}
          /\ x.of = "location" => x.loc \in [start : Nat, end : Nat]
      BY <1>2, SpecifierAssumption
    <3>2. CASE x.of = "contract"
      <4>1. InContract(x, n, FALSE)
        BY <2>1, <3>2 DEF isNodeInExactScope
      <4> QED BY <3>2, <4>1, ContractAbove
    <3>3. CASE x.of = "location"
      <4>1. locInclude(Loc[n], x.loc)
        BY <2>1, <3>3 DEF isNodeInExactScope
      <4> QED BY <3>1, <3>3, <4>1, LocationAbove
    <3>4. CASE x.of = "type"
      BY <3>4
    <3> QED BY <3>1, <3>2, <3>3, <3>4
  <2>3. isNodeInterested(space, m)
    BY <2>2 DEF isNodeInterested
  <2> QED BY <2>3 DEF Interested
<1> QED BY <1>1, <1>2

(* Nothing mutable is lost below a node that is passed over. *)
LEMMA PassedOver ==
  ASSUME spaces \in Specifiers, NEW n \in Nodes, NEW m \in Line[n], n \in Mutable
  PROVE  Interested(m) /\ Type[m] # "EmitStatement" /\ Parent[m] \notin EtherCalls
BY ScopeBelow DEF Mutable

---------------------------------------------------------------------------
(* The stack of the walk *)

(* Between a node and one above it is a child of the latter. *)
LEMMA ChildOnWay ==
  \A x \in Nodes : \A n \in Line[x] \ {x} : \E c \in Line[x] : c \in Nodes /\ Parent[c] = n
<1> DEFINE T == {x \in Nodes : \A n \in Line[x] \ {x} : \E c \in Line[x] : c \in Nodes /\ Parent[c] = n}
<1>1. ASSUME NEW x \in 1 .. Len(Type), \A k \in 1 .. x - 1 : k \in T
      PROVE  x \in T
  <2>1. x \in Nodes
    BY NodesNumbered
  <2>2. CASE x = Root
    BY <2>1, <2>2, LineFacts
  <2>3. CASE x # Root
    <3>1. Parent[x] \in T /\ Line[x] = {x} \cup Line[Parent[x]] /\ x \in Line[x]
      BY <1>1, <2>1, <2>3, NodesNumbered, LineFacts
    <3>2. ASSUME NEW n \in Line[x] \ {x}
          PROVE  \E c \in Line[x] : c \in Nodes /\ Parent[c] = n
      <4>1. CASE n = Parent[x]
        BY <2>1, <3>1, <4>1
      <4>2. CASE n # Parent[x]
        <5>1. n \in Line[Parent[x]] \ {Parent[x]}
          BY <3>1, <4>2
        <5>2. PICK c \in Line[Parent[x]] : c \in Nodes /\ Parent[c] = n
          BY <3>1, <5>1
        <5> QED BY <3>1, <5>2
      <4> QED BY <4>1, <4>2
    <3> QED BY <2>1, <3>2
  <2> QED BY <2>2, <2>3
<1> HIDE DEF T
<1>2. \A x \in 1 .. Len(Type) : x \in T
  BY <1>1, NodesNumbered, UpToStrong
<1> QED BY <1>2, NodesNumbered DEF T

Item == [node : Nodes, exit : BOOLEAN]

(* The fields of what is on the stack. *)
LEMMA ItemFields ==
  \A n : /\ Enter(n).node = n /\ Enter(n).exit = FALSE /\ ~Enter(n).exit
         /\ Leave(n).node = n /\ Leave(n).exit = TRUE /\ Leave(n).exit
<1>1. \A n : /\ Enter(n).node = n /\ Enter(n).exit = FALSE
             /\ Leave(n).node = n /\ Leave(n).exit = TRUE
  BY DEF Enter, Leave
<1> QED BY <1>1, Zenon

(* What the definitions of the walk say of single places. *)
LEMMA Places ==
  /\ \A i, n : n \in Leaving(i) <=> \E j \in i .. Len(todo) : todo[j].exit /\ todo[j].node = n
  /\ \A n : n \in Coming <=>
       n \in Nodes /\ \E i \in 1 .. Len(todo) : ~todo[i].exit /\ todo[i].node \in Line[n]
BY DEF Leaving, Coming

(* The stack after its top was taken off. *)
LEMMA PruneItems ==
  ASSUME TypeOK, todo # <<>>, Prune
  PROVE  /\ todo' \in Seq(Item) /\ Len(todo) \in Nat /\ Len(todo) >= 1
         /\ Len(todo') = Len(todo) - 1
         /\ \A i \in 1 .. Len(todo) - 1 : todo'[i] = todo[i + 1]
         /\ Head(todo) = todo[1]
<1>1. todo \in Seq(Item)
  BY DEF TypeOK, Item
<1>2. Len(todo) \in Nat /\ Len(todo) # 0 /\ Head(todo) = todo[1]
  BY <1>1, LenProperties, EmptySeq
<1> QED BY <1>1, <1>2, HeadTailProperties DEF Prune

(* The stack after a node was replaced by its children and its exit. *)
LEMMA DescendItems ==
  ASSUME TypeOK, todo # <<>>, NEW n \in Nodes, Descend(n)
  PROVE  LET k == Len(Kids[n]) IN
         /\ todo' \in Seq(Item) /\ Len(todo) \in Nat /\ Len(todo) >= 1 /\ k \in Nat
         /\ Len(todo') = Len(todo) + k
         /\ \A i \in 1 .. k : Kids[n][i] \in Nodes /\ todo'[i] = Enter(Kids[n][i])
         /\ todo'[k + 1] = Leave(n)
         /\ \A i \in 2 .. Len(todo) : todo'[i + k] = todo[i]
         /\ Head(todo) = todo[1]
<1> DEFINE k == Len(Kids[n])
           a == [i \in DOMAIN Kids[n] |-> Enter(Kids[n][i])]
           b == <<Leave(n)>>
           c == Tail(todo)
<1>1. todo \in Seq(Item)
  BY DEF TypeOK, Item
<1>2. Len(todo) \in Nat /\ Len(todo) # 0 /\ Head(todo) = todo[1]
  BY <1>1, LenProperties, EmptySeq
<1>3. c \in Seq(Item) /\ Len(c) = Len(todo) - 1 /\ \A i \in 1 .. Len(todo) - 1 : c[i] = todo[i + 1]
  BY <1>1, HeadTailProperties
<1>4. Kids[n] \in Seq(Nodes)
  BY TreeAssumption
<1>5. k \in Nat /\ DOMAIN Kids[n] = 1 .. k /\ \A i \in 1 .. k : Kids[n][i] \in Nodes
  BY <1>4, LenProperties, ElementOfSeq
<1>6. a \in Seq(Item) /\ Len(a) = k /\ \A i \in 1 .. k : a[i] = Enter(Kids[n][i])
  <2>1. a = [i \in 1 .. k |-> Enter(Kids[n][i])]
    BY <1>5
  <2>2. \A i \in 1 .. k : Enter(Kids[n][i]) \in Item
    BY <1>5 DEF Enter, Item
  <2> HIDE DEF k
  <2> QED BY <1>5, <2>1, <2>2, IsASeq
<1>7. b \in Seq(Item) /\ Len(b) = 1 /\ b[1] = Leave(n)
  BY DEF Leave, Item
<1>8. todo' = a \o b \o c
  BY DEF Descend
<1> HIDE DEF a, b, c, k
<1>9. /\ a \o b \in Seq(Item) /\ Len(a \o b) = k + 1
      /\ \A i \in 1 .. k : (a \o b)[i] = Enter(Kids[n][i])
      /\ (a \o b)[k + 1] = Leave(n)
  <2>1. /\ a \o b \in Seq(Item) /\ Len(a \o b) = Len(a) + Len(b)
        /\ \A i \in 1 .. Len(a) + Len(b) : (a \o b)[i] = IF i <= Len(a) THEN a[i] ELSE b[i - Len(a)]
    BY <1>6, <1>7, ConcatProperties
  <2>2. (k + 1) - k = 1 /\ ~(k + 1 <= k) /\ k + 1 \in 1 .. k + 1
    BY <1>5
  <2> QED BY <1>5, <1>6, <1>7, <2>1, <2>2
<1> DEFINE d == a \o b
<1> HIDE DEF d
<1>10. /\ d \in Seq(Item) /\ Len(d) = k + 1 /\ \A i \in 1 .. k : d[i] = Enter(Kids[n][i])
       /\ d[k + 1] = Leave(n) /\ todo' = d \o c
  BY <1>8, <1>9 DEF d
<1>11. /\ d \o c \in Seq(Item) /\ Len(d \o c) = Len(d) + Len(c)
       /\ \A i \in 1 .. Len(d) + Len(c) : (d \o c)[i] = IF i <= Len(d) THEN d[i] ELSE c[i - Len(d)]
  BY <1>3, <1>10, ConcatProperties
<1>12. Len(d \o c) = Len(todo) + k
  BY <1>2, <1>3, <1>5, <1>10, <1>11
<1>13. \A i \in 1 .. k + 1 : i <= Len(d) /\ i \in 1 .. Len(d) + Len(c)
  BY <1>2, <1>3, <1>5, <1>10
<1>14. \A i \in 2 .. Len(todo) :
         /\ ~(i + k <= Len(d)) /\ (i + k) - Len(d) = i - 1 /\ i + k \in 1 .. Len(d) + Len(c)
         /\ i - 1 \in 1 .. Len(todo) - 1 /\ (i - 1) + 1 = i
  BY <1>2, <1>3, <1>5, <1>10
<1>15. \A i \in 2 .. Len(todo) : (d \o c)[i + k] = todo[i]
  BY <1>3, <1>11, <1>14
<1>16. \A i \in 1 .. k + 1 : (d \o c)[i] = d[i]
  BY <1>11, <1>13
<1>17. k + 1 \in 1 .. k + 1 /\ \A i \in 1 .. k : i \in 1 .. k + 1
  BY <1>5
<1>18. /\ \A i \in 1 .. k : todo'[i] = Enter(Kids[n][i])
       /\ todo'[k + 1] = Leave(n)
  BY <1>10, <1>16, <1>17
<1> QED BY <1>2, <1>5, <1>10, <1>11, <1>12, <1>15, <1>18 DEF k

(* The top of the stack, and what is to be left below it. *)
LEMMA TopFacts ==
  ASSUME TypeOK, StackPart, todo # <<>>
  PROVE  /\ Len(todo) \in Nat /\ 1 \in 1 .. Len(todo) /\ todo[1] \in Item /\ Head(todo) = todo[1]
         /\ Leaving(2) = Line[todo[1].node] \ {todo[1].node}
         /\ Leaving(1) = IF todo[1].exit THEN {todo[1].node} \cup Leaving(2) ELSE Leaving(2)
<1>1. todo \in Seq(Item)
  BY DEF TypeOK, Item
<1>2. Len(todo) \in Nat /\ 1 \in 1 .. Len(todo) /\ Head(todo) = todo[1] /\ todo[1] \in Item
  BY <1>1, LenProperties, EmptySeq, ElementOfSeq
<1>3. Leaving(2) = Line[todo[1].node] \ {todo[1].node}
  <2>1. Leaving(1 + 1) = Line[todo[1].node] \ {todo[1].node}
    BY <1>2 DEF StackPart
  <2>2. 1 + 1 = 2
    OBVIOUS
  <2> QED BY <2>1, <2>2
<1>4. \A j : j \in 1 .. Len(todo) <=> j = 1 \/ j \in 2 .. Len(todo)
  BY <1>2
<1>5. todo[1].exit \in BOOLEAN
  BY <1>2 DEF Item
<1>6. ASSUME NEW n
      PROVE  n \in Leaving(1) <=> n \in Leaving(2) \/ (todo[1].exit /\ todo[1].node = n)
  BY <1>2, <1>4, Places
<1> QED BY <1>2, <1>3, <1>5, <1>6

(* What is to be left after the top was taken off. *)
LEMMA PruneLeaving ==
  ASSUME TypeOK, todo # <<>>, Prune
  PROVE  \A i \in Nat : i >= 1 => Leaving(i)' = Leaving(i + 1)
<1> SUFFICES ASSUME NEW i \in Nat, i >= 1 PROVE Leaving(i)' = Leaving(i + 1)
  OBVIOUS
<1>1. /\ Len(todo) \in Nat /\ Len(todo) >= 1 /\ Len(todo') = Len(todo) - 1
      /\ \A j \in 1 .. Len(todo) - 1 : todo'[j] = todo[j + 1]
  BY PruneItems
<1>2. ASSUME NEW n
      PROVE  n \in Leaving(i)' <=> \E j \in i .. Len(todo') : todo'[j].exit /\ todo'[j].node = n
  BY DEF Leaving
<1>3. \A j \in i .. Len(todo') : j + 1 \in i + 1 .. Len(todo) /\ todo'[j] = todo[j + 1]
  BY <1>1
<1>4. ASSUME NEW j \in i + 1 .. Len(todo)
      PROVE  j - 1 \in i .. Len(todo') /\ todo'[j - 1] = todo[j]
  <2>1. j - 1 \in i .. Len(todo') /\ j - 1 \in 1 .. Len(todo) - 1 /\ (j - 1) + 1 = j
    BY <1>1
  <2> QED BY <1>1, <2>1
<1>5. ASSUME NEW n PROVE n \in Leaving(i)' <=> n \in Leaving(i + 1)
  <2>1. n \in Leaving(i + 1) <=> \E j \in i + 1 .. Len(todo) : todo[j].exit /\ todo[j].node = n
    BY Places
  <2>2. ASSUME NEW j \in i .. Len(todo'), todo'[j].exit /\ todo'[j].node = n
        PROVE  n \in Leaving(i + 1)
    <3>1. j + 1 \in i + 1 .. Len(todo) /\ todo[j + 1].exit /\ todo[j + 1].node = n
      BY <1>3, <2>2
    <3> QED BY <2>1, <3>1
  <2>3. ASSUME NEW j \in i + 1 .. Len(todo), todo[j].exit /\ todo[j].node = n
        PROVE  n \in Leaving(i)'
    <3>1. j - 1 \in i .. Len(todo') /\ todo'[j - 1].exit /\ todo'[j - 1].node = n
      BY <1>4, <2>3
    <3> QED BY <1>2, <3>1
  <2> QED BY <1>2, <2>1, <2>2, <2>3
<1> QED BY <1>5

(* What is to be left after a node was replaced by its children and its exit. *)
LEMMA DescendLeaving ==
  ASSUME TypeOK, todo # <<>>, NEW n \in Nodes, Descend(n)
  PROVE  LET k == Len(Kids[n]) IN
         /\ \A i \in 1 .. k + 1 : Leaving(i)' = {n} \cup Leaving(2)
         /\ \A i \in 2 .. Len(todo) + 1 : Leaving(i + k)' = Leaving(i)
<1> DEFINE k == Len(Kids[n])
<1>1. /\ Len(todo) \in Nat /\ Len(todo) >= 1 /\ k \in Nat /\ Len(todo') = Len(todo) + k
      /\ \A i \in 1 .. k : todo'[i] = Enter(Kids[n][i])
      /\ todo'[k + 1] = Leave(n)
      /\ \A i \in 2 .. Len(todo) : todo'[i + k] = todo[i]
  BY DescendItems
<1> HIDE DEF k
<1>2. ASSUME NEW i, NEW m
      PROVE  m \in Leaving(i)' <=> \E j \in i .. Len(todo') : todo'[j].exit /\ todo'[j].node = m
  BY DEF Leaving
<1>3. /\ \A i \in 1 .. k : ~todo'[i].exit
      /\ todo'[k + 1].exit /\ todo'[k + 1].node = n
  BY <1>1, ItemFields, Zenon
<1>4. ASSUME NEW i \in 2 .. Len(todo) + 1 PROVE Leaving(i + k)' = Leaving(i)
  <2>1. \A j \in i .. Len(todo) : j + k \in i + k .. Len(todo') /\ todo'[j + k] = todo[j]
    BY <1>1
  <2>2. ASSUME NEW j \in i + k .. Len(todo')
        PROVE  j - k \in i .. Len(todo) /\ todo[j - k] = todo'[j]
    <3>1. j - k \in i .. Len(todo) /\ j - k \in 2 .. Len(todo) /\ (j - k) + k = j
      BY <1>1
    <3> QED BY <1>1, <3>1
  <2>3. ASSUME NEW m PROVE m \in Leaving(i + k)' <=> m \in Leaving(i)
    <3>1. m \in Leaving(i) <=> \E j \in i .. Len(todo) : todo[j].exit /\ todo[j].node = m
      BY Places
    <3>2. m \in Leaving(i + k)' <=> \E j \in i + k .. Len(todo') : todo'[j].exit /\ todo'[j].node = m
      BY <1>2
    <3>3. ASSUME NEW j \in i .. Len(todo), todo[j].exit /\ todo[j].node = m
          PROVE  m \in Leaving(i + k)'
      <4>1. j + k \in i + k .. Len(todo') /\ todo'[j + k].exit /\ todo'[j + k].node = m
        BY <2>1, <3>3
      <4> QED BY <3>2, <4>1
    <3>4. ASSUME NEW j \in i + k .. Len(todo'), todo'[j].exit /\ todo'[j].node = m
          PROVE  m \in Leaving(i)
      <4>1. j - k \in i .. Len(todo) /\ todo[j - k].exit /\ todo[j - k].node = m
        BY <2>2, <3>4
      <4> QED BY <3>1, <4>1
    <3> QED BY <3>1, <3>2, <3>3, <3>4
  <2> QED BY <2>3
<1>5. ASSUME NEW i \in 1 .. k + 1 PROVE Leaving(i)' = {n} \cup Leaving(2)
  <2>1. Leaving(2 + k)' = Leaving(2)
    BY <1>1, <1>4
  <2>2. ASSUME NEW m PROVE m \in Leaving(i)' <=> m = n \/ m \in Leaving(2 + k)'
    <3>1. \A j \in i .. Len(todo') : j \in 1 .. k \/ j = k + 1 \/ j \in 2 + k .. Len(todo')
      BY <1>1
    <3>2. k + 1 \in i .. Len(todo')
      BY <1>1
    <3>3. \A j \in 2 + k .. Len(todo') : j \in i .. Len(todo')
      BY <1>1
    <3>4. m \in Leaving(2 + k)' <=> \E j \in 2 + k .. Len(todo') : todo'[j].exit /\ todo'[j].node = m
      BY <1>2
    <3>5. m \in Leaving(i)' <=> \E j \in i .. Len(todo') : todo'[j].exit /\ todo'[j].node = m
      BY <1>2
    <3> QED BY <1>3, <3>1, <3>2, <3>3, <3>4, <3>5
  <2> QED BY <2>1, <2>2
<1> QED BY <1>4, <1>5 DEF k

(* Taking the top off keeps the stack in order. *)
LEMMA PruneStack ==
  ASSUME TypeOK, StackPart, todo # <<>>, Prune,
         fnDepth' = IF todo[1].exit /\ Type[todo[1].node] = "FunctionDefinition"
                      THEN fnDepth - 1 ELSE fnDepth
  PROVE  StackPart'
<1>1. /\ Len(todo) \in Nat /\ Len(todo) >= 1 /\ Len(todo') = Len(todo) - 1
      /\ \A i \in 1 .. Len(todo) - 1 : todo'[i] = todo[i + 1]
  BY PruneItems
<1>2. /\ todo[1] \in Item /\ Leaving(2) = Line[todo[1].node] \ {todo[1].node}
      /\ Leaving(1) = IF todo[1].exit THEN {todo[1].node} \cup Leaving(2) ELSE Leaving(2)
  BY TopFacts
<1>3. \A i \in Nat : i >= 1 => Leaving(i)' = Leaving(i + 1)
  BY PruneLeaving
<1>4. ASSUME NEW i \in 1 .. Len(todo')
      PROVE  Leaving(i + 1)' = Line[todo'[i].node] \ {todo'[i].node}
  <2>1. i + 1 \in 1 .. Len(todo) /\ todo'[i] = todo[i + 1] /\ i + 1 \in Nat /\ i + 1 >= 1
    BY <1>1
  <2>2. Leaving(i + 1)' = Leaving((i + 1) + 1)
    BY <1>3, <2>1
  <2>3. Leaving((i + 1) + 1) = Line[todo[i + 1].node] \ {todo[i + 1].node}
    BY <2>1 DEF StackPart
  <2> QED BY <2>1, <2>2, <2>3
<1>5. ASSUME NEW i \in 1 .. Len(todo'), NEW j \in 1 .. Len(todo'), todo'[i].node = todo'[j].node
      PROVE  i = j
  <2>1. /\ i + 1 \in 1 .. Len(todo) /\ j + 1 \in 1 .. Len(todo)
        /\ todo'[i] = todo[i + 1] /\ todo'[j] = todo[j + 1]
    BY <1>1
  <2>2. i + 1 = j + 1
    BY <1>5, <2>1 DEF StackPart
  <2> QED BY <1>1, <2>2
<1>6. Leaving(1)' = Leaving(2)
  BY <1>3
<1>7. fnDepth' = IF \E n \in Leaving(1)' : Type[n] = "FunctionDefinition" THEN 1 ELSE 0
  <2>1. fnDepth = IF \E n \in Leaving(1) : Type[n] = "FunctionDefinition" THEN 1 ELSE 0
    BY DEF StackPart
  <2>2. CASE todo[1].exit /\ Type[todo[1].node] = "FunctionDefinition"
    <3>1. todo[1].node \in Nodes /\ todo[1].node \in Leaving(1)
      BY <1>2, <2>2 DEF Item
    <3>2. fnDepth' = 0
      BY <2>1, <2>2, <3>1
    <3>3. ~InFunction(todo[1].node)
      BY <2>2, <3>1, NotNested
    <3>4. ~\E n \in Leaving(2) : Type[n] = "FunctionDefinition"
      BY <1>2, <3>3 DEF InFunction, Around
    <3> QED BY <1>6, <3>2, <3>4
  <2>3. CASE ~(todo[1].exit /\ Type[todo[1].node] = "FunctionDefinition")
    <3>1. (\E n \in Leaving(1) : Type[n] = "FunctionDefinition")
            <=> \E n \in Leaving(2) : Type[n] = "FunctionDefinition"
      BY <1>2, <2>3
    <3> QED BY <1>6, <2>1, <2>3, <3>1
  <2> QED BY <2>2, <2>3
<1> QED BY <1>4, <1>5, <1>7 DEF StackPart

(* A child is nowhere on the stack while its parent is at the top. *)
LEMMA ChildrenFresh ==
  ASSUME TypeOK, StackPart, NEW n \in Nodes, Visiting(n),
         NEW c \in Nodes, Parent[c] = n, NEW i \in 1 .. Len(todo)
  PROVE  todo[i].node # c
<1> SUFFICES ASSUME todo[i].node = c PROVE FALSE
  OBVIOUS
<1>1. /\ 1 \in 1 .. Len(todo) /\ todo[1] = Enter(n) /\ todo[1].node = n /\ ~todo[1].exit
      /\ Len(todo) \in Nat /\ Leaving(2) = Line[n] \ {n}
  BY TopFacts, ItemFields DEF Visiting
<1>2. c # Root /\ n < c /\ Line[c] \ {c} = Line[n] /\ n \in Line[n]
  BY NodesNumbered, StrictLine, LineFacts, TreeAssumption
<1>3. n \in Leaving(i + 1)
  BY <1>2 DEF StackPart
<1>4. PICK j \in i + 1 .. Len(todo) : todo[j].exit /\ todo[j].node = n
  BY <1>3, Places
<1>5. j \in 1 .. Len(todo) /\ j # 1
  BY <1>1, <1>4
<1> QED BY <1>1, <1>4, <1>5 DEF StackPart

(* Replacing a node by its children and its exit keeps the stack in order. *)
LEMMA DescendStack ==
  ASSUME TypeOK, StackPart, NEW n \in Nodes, Visiting(n), Descend(n),
         fnDepth' = IF Type[n] = "FunctionDefinition" THEN fnDepth + 1 ELSE fnDepth
  PROVE  StackPart' /\ Leaving(1)' = {n} \cup Leaving(1)
<1> DEFINE k == Len(Kids[n])
<1>0. todo # <<>>
  BY DEF Visiting
<1>1. /\ Len(todo) \in Nat /\ Len(todo) >= 1 /\ k \in Nat /\ Len(todo') = Len(todo) + k
      /\ \A i \in 1 .. k : Kids[n][i] \in Nodes /\ todo'[i] = Enter(Kids[n][i])
      /\ todo'[k + 1] = Leave(n)
      /\ \A i \in 2 .. Len(todo) : todo'[i + k] = todo[i]
  BY <1>0, DescendItems
<1>2. /\ todo[1].node = n /\ Leaving(2) = Line[n] \ {n} /\ Leaving(1) = Leaving(2)
  BY <1>0, TopFacts, ItemFields DEF Visiting
<1>3. /\ \A i \in 1 .. k + 1 : Leaving(i)' = {n} \cup Leaving(2)
      /\ \A i \in 2 .. Len(todo) + 1 : Leaving(i + k)' = Leaving(i)
  BY <1>0, DescendLeaving
<1>4. /\ \A i \in 1 .. k : Parent[Kids[n][i]] = n
      /\ \A i, j \in 1 .. k : Kids[n][i] = Kids[n][j] => i = j
  <2>1. Kids[n] \in Seq(Nodes) /\ DOMAIN Kids[n] = 1 .. k
    BY TreeAssumption, LenProperties
  <2>2. \A i \in 1 .. k : Kids[n][i] \in ToSet(Kids[n])
    BY <2>1, Zenon DEF ToSet
  <2>3. /\ \A i, j \in DOMAIN Kids[n] : Kids[n][i] = Kids[n][j] => i = j
        /\ ToSet(Kids[n]) = {m \in Nodes : Parent[m] = n}
    BY TreeAssumption
  <2> QED BY <2>1, <2>2, <2>3
<1> HIDE DEF k
<1>5. \A i \in 1 .. Len(todo') : i \in 1 .. k \/ i = k + 1 \/ (i - k \in 2 .. Len(todo) /\ i = (i - k) + k)
  BY <1>1
<1>6. {n} \cup Leaving(2) = Line[n]
  BY <1>2, LineFacts
<1>7. ASSUME NEW i \in 1 .. Len(todo')
      PROVE  Leaving(i + 1)' = Line[todo'[i].node] \ {todo'[i].node}
  <2>1. CASE i \in 1 .. k
    <3> DEFINE c == Kids[n][i]
    <3>1. todo'[i].node = c /\ c \in Nodes /\ Parent[c] = n
      BY <1>1, <1>4, <2>1, ItemFields
    <3>2. c # Root
      BY <3>1, NodesNumbered, TreeAssumption
    <3>3. Line[c] \ {c} = Line[n]
      BY <3>1, <3>2, StrictLine
    <3>4. i + 1 \in 1 .. k + 1
      BY <1>1, <2>1
    <3>5. Leaving(i + 1)' = Line[n]
      BY <1>3, <1>6, <3>4
    <3> QED BY <3>1, <3>3, <3>5
  <2>2. CASE i = k + 1
    <3>1. todo'[i].node = n
      BY <1>1, <2>2, ItemFields
    <3>2. i + 1 = 2 + k /\ 2 \in 2 .. Len(todo) + 1
      BY <1>1, <2>2
    <3>3. Leaving(i + 1)' = Leaving(2)
      BY <1>3, <3>2
    <3> QED BY <1>2, <3>1, <3>3
  <2>3. CASE i - k \in 2 .. Len(todo) /\ i = (i - k) + k
    <3> DEFINE j == i - k
    <3>1. /\ j \in 2 .. Len(todo) /\ j \in 1 .. Len(todo) /\ j + 1 \in 2 .. Len(todo) + 1
          /\ i + 1 = (j + 1) + k /\ i = j + k
      BY <1>1, <2>3
    <3> HIDE DEF j
    <3>2. todo'[i] = todo[j]
      BY <1>1, <3>1
    <3>3. Leaving(i + 1)' = Leaving(j + 1)
      BY <1>3, <3>1
    <3> QED BY <3>1, <3>2, <3>3 DEF StackPart
  <2> QED BY <1>5, <2>1, <2>2, <2>3
<1>8. ASSUME NEW i \in 1 .. Len(todo'), NEW j \in 1 .. Len(todo'), i < j
      PROVE  todo'[i].node # todo'[j].node
  <2>0. i \in Int /\ j \in Int /\ k \in Nat
    BY <1>1
  <2>1. ASSUME NEW h \in 1 .. Len(todo'), h \in 1 .. k
        PROVE  /\ todo'[h].node = Kids[n][h] /\ Kids[n][h] \in Nodes /\ Kids[n][h] # n
               /\ \A l \in 1 .. Len(todo) : todo[l].node # Kids[n][h]
    <3>1. todo'[h].node = Kids[n][h] /\ Kids[n][h] \in Nodes /\ Parent[Kids[n][h]] = n
      BY <1>1, <1>4, <2>1, ItemFields
    <3>2. Kids[n][h] # n
      BY <3>1, NodesNumbered, TreeAssumption, SMTT(30)
    <3> QED BY <3>1, <3>2, ChildrenFresh
  <2>2. todo'[k + 1].node = n
    BY <1>1, ItemFields
  <2>3. ASSUME NEW h \in 1 .. Len(todo'), h - k \in 2 .. Len(todo), h = (h - k) + k
        PROVE  todo'[h] = todo[h - k] /\ h - k \in 1 .. Len(todo) /\ h - k # 1
    BY <1>1, <2>3
  <2>4. CASE i \in 1 .. k /\ j \in 1 .. k
    <3>1. Kids[n][i] # Kids[n][j]
      BY <1>4, <1>8, <2>0, <2>4
    <3> QED BY <2>1, <2>4, <3>1
  <2>5. CASE i \in 1 .. k /\ j = k + 1
    BY <2>1, <2>2, <2>5
  <2>6. CASE i \in 1 .. k /\ j - k \in 2 .. Len(todo) /\ j = (j - k) + k
    BY <2>1, <2>3, <2>6
  <2>7. CASE i = k + 1 /\ j - k \in 2 .. Len(todo) /\ j = (j - k) + k
    <3>1. todo'[j] = todo[j - k] /\ j - k \in 1 .. Len(todo) /\ j - k # 1
      BY <2>3, <2>7
    <3>2. 1 \in 1 .. Len(todo)
      BY <1>1
    <3>3. todo[j - k].node # n
      BY <1>2, <3>1, <3>2 DEF StackPart
    <3> QED BY <2>2, <2>7, <3>1, <3>3
  <2>8. CASE /\ i - k \in 2 .. Len(todo) /\ i = (i - k) + k
             /\ j - k \in 2 .. Len(todo) /\ j = (j - k) + k
    <3>1. /\ todo'[j] = todo[j - k] /\ j - k \in 1 .. Len(todo)
          /\ todo'[i] = todo[i - k] /\ i - k \in 1 .. Len(todo)
      BY <2>3, <2>8
    <3>2. i - k # j - k
      BY <1>8, <2>0
    <3>3. todo[i - k].node # todo[j - k].node
      BY <3>1, <3>2 DEF StackPart
    <3> QED BY <3>1, <3>3
  <2>9. \/ i \in 1 .. k /\ j \in 1 .. k
        \/ i \in 1 .. k /\ j = k + 1
        \/ i \in 1 .. k /\ j - k \in 2 .. Len(todo) /\ j = (j - k) + k
        \/ i = k + 1 /\ j - k \in 2 .. Len(todo) /\ j = (j - k) + k
        \/ /\ i - k \in 2 .. Len(todo) /\ i = (i - k) + k
           /\ j - k \in 2 .. Len(todo) /\ j = (j - k) + k
    BY <1>1, <1>8
  <2> QED BY <2>4, <2>5, <2>6, <2>7, <2>8, <2>9
<1>9. ASSUME NEW i \in 1 .. Len(todo'), NEW j \in 1 .. Len(todo'), todo'[i].node = todo'[j].node
      PROVE  i = j
  <2>1. i \in Int /\ j \in Int /\ ~(i < j) /\ ~(j < i)
    BY <1>1, <1>8, <1>9
  <2> QED BY <2>1
<1>10. Leaving(1)' = {n} \cup Leaving(1)
  BY <1>1, <1>2, <1>3
<1>11. fnDepth' = IF \E m \in Leaving(1)' : Type[m] = "FunctionDefinition" THEN 1 ELSE 0
  <2>1. fnDepth = IF \E m \in Leaving(1) : Type[m] = "FunctionDefinition" THEN 1 ELSE 0
    BY DEF StackPart
  <2>2. CASE Type[n] = "FunctionDefinition"
    <3>1. ~\E m \in Leaving(1) : Type[m] = "FunctionDefinition"
      BY <1>2, <2>2, NotNested DEF InFunction, Around
    <3> QED BY <1>10, <2>1, <2>2, <3>1
  <2>3. CASE Type[n] # "FunctionDefinition"
    BY <1>10, <2>1, <2>3
  <2> QED BY <2>2, <2>3
<1> QED BY <1>7, <1>9, <1>10, <1>11 DEF StackPart

---------------------------------------------------------------------------
(* What is still to come *)

(* Taking the top off leaves all that is not at or below it. *)
LEMMA PruneComing ==
  ASSUME TypeOK, todo # <<>>, Prune
  PROVE  /\ Coming' \subseteq Coming
         /\ \A x \in Coming \ Coming' : ~todo[1].exit /\ todo[1].node \in Line[x]
<1>1. /\ Len(todo) \in Nat /\ Len(todo) >= 1 /\ Len(todo') = Len(todo) - 1
      /\ \A i \in 1 .. Len(todo) - 1 : todo'[i] = todo[i + 1]
  BY PruneItems
<1>2. ASSUME NEW x
      PROVE  x \in Coming' <=>
               x \in Nodes /\ \E i \in 1 .. Len(todo') : ~todo'[i].exit /\ todo'[i].node \in Line[x]
  BY DEF Coming
<1>3. ASSUME NEW x \in Coming' PROVE x \in Coming
  <2>1. PICK i \in 1 .. Len(todo') : ~todo'[i].exit /\ todo'[i].node \in Line[x]
    BY <1>2
  <2>2. i + 1 \in 1 .. Len(todo) /\ todo'[i] = todo[i + 1]
    BY <1>1
  <2> QED BY <1>2, <2>1, <2>2, Places
<1>4. ASSUME NEW x \in Coming, x \notin Coming'
      PROVE  ~todo[1].exit /\ todo[1].node \in Line[x]
  <2>1. PICK i \in 1 .. Len(todo) : ~todo[i].exit /\ todo[i].node \in Line[x]
    BY Places
  <2>2. CASE i = 1
    BY <2>1, <2>2
  <2>3. CASE i # 1
    <3>1. i - 1 \in 1 .. Len(todo') /\ i - 1 \in 1 .. Len(todo) - 1 /\ (i - 1) + 1 = i
      BY <1>1, <2>3
    <3>2. todo'[i - 1] = todo[i]
      BY <1>1, <3>1
    <3>3. x \in Nodes
      BY Places
    <3> QED BY <1>2, <1>4, <2>1, <3>1, <3>2, <3>3
  <2> QED BY <2>2, <2>3
<1> QED BY <1>3, <1>4

(* Going on with the children, only the node itself is done. *)
LEMMA DescendComing ==
  ASSUME TypeOK, StackPart, NEW n \in Nodes, Visiting(n), Descend(n)
  PROVE  Coming' = Coming \ {n}
<1> DEFINE k == Len(Kids[n])
<1>0. todo # <<>>
  BY DEF Visiting
<1>1. /\ Len(todo) \in Nat /\ Len(todo) >= 1 /\ k \in Nat /\ Len(todo') = Len(todo) + k
      /\ \A i \in 1 .. k : Kids[n][i] \in Nodes /\ todo'[i] = Enter(Kids[n][i])
      /\ todo'[k + 1] = Leave(n)
      /\ \A i \in 2 .. Len(todo) : todo'[i + k] = todo[i]
  BY <1>0, DescendItems
<1>2. /\ 1 \in 1 .. Len(todo) /\ todo[1].node = n /\ ~todo[1].exit
      /\ Leaving(2) = Line[n] \ {n}
  BY <1>0, TopFacts, ItemFields DEF Visiting
<1>3. \A c \in Nodes : Parent[c] = n <=> \E i \in 1 .. k : Kids[n][i] = c
  <2>1. Kids[n] \in Seq(Nodes) /\ DOMAIN Kids[n] = 1 .. k
    BY TreeAssumption, LenProperties
  <2>2. ToSet(Kids[n]) = {Kids[n][i] : i \in 1 .. k}
    BY <2>1, Zenon DEF ToSet
  <2>3. ToSet(Kids[n]) = {m \in Nodes : Parent[m] = n}
    BY TreeAssumption
  <2> HIDE DEF k
  <2> QED BY <2>2, <2>3
<1> HIDE DEF k
<1>4. ASSUME NEW x
      PROVE  x \in Coming' <=>
               x \in Nodes /\ \E i \in 1 .. Len(todo') : ~todo'[i].exit /\ todo'[i].node \in Line[x]
  BY DEF Coming
<1>5. ASSUME NEW x \in Coming' PROVE x \in Coming \ {n}
  <2>1. PICK i \in 1 .. Len(todo') : ~todo'[i].exit /\ todo'[i].node \in Line[x]
    BY <1>4
  <2>2. x \in Nodes
    BY <1>4
  <2>3. i \in 1 .. k \/ i = k + 1 \/ (i - k \in 2 .. Len(todo) /\ i = (i - k) + k)
    BY <1>1
  <2>4. CASE i \in 1 .. k
    <3> DEFINE c == Kids[n][i]
    <3>1. c \in Nodes /\ Parent[c] = n /\ c \in Line[x]
      BY <1>1, <1>3, <2>1, <2>4, ItemFields
    <3>2. c # Root /\ n < c
      BY <3>1, NodesNumbered, TreeAssumption
    <3> HIDE DEF c
    <3>3. n \in Line[c] /\ Line[c] \subseteq Line[x]
      BY <2>2, <3>1, <3>2, LineFacts, LineParts
    <3>4. x \in Coming
      BY <1>2, <2>2, <3>3, Places
    <3>5. x # n
      BY <2>2, <3>1, <3>2, LineBelow, NodesNumbered
    <3> QED BY <3>4, <3>5
  <2>5. CASE i = k + 1
    BY <1>1, <2>1, <2>5, ItemFields, Zenon
  <2>6. CASE i - k \in 2 .. Len(todo) /\ i = (i - k) + k
    <3> DEFINE j == i - k
    <3>1. j \in 2 .. Len(todo) /\ j \in 1 .. Len(todo) /\ j # 1 /\ i = j + k
      BY <1>1, <2>6
    <3> HIDE DEF j
    <3>2. todo'[i] = todo[j]
      BY <1>1, <3>1
    <3>3. x \in Coming
      BY <2>1, <2>2, <3>1, <3>2, Places
    <3>4. ASSUME x = n PROVE FALSE
      <4>1. todo[j].node \in Line[n] /\ ~todo[j].exit
        BY <2>1, <3>2, <3>4
      <4>2. todo[j].node # n
        BY <1>2, <3>1 DEF StackPart
      <4>3. todo[j].node \in Leaving(2)
        BY <1>2, <4>1, <4>2
      <4>4. PICK h \in 2 .. Len(todo) : todo[h].exit /\ todo[h].node = todo[j].node
        BY <4>3, Places
      <4>5. h = j
        <5>1. h \in 1 .. Len(todo)
          BY <1>1
        <5> QED BY <3>1, <4>4, <5>1 DEF StackPart
      <4> QED BY <4>1, <4>4, <4>5
    <3> QED BY <3>3, <3>4
  <2> QED BY <2>3, <2>4, <2>5, <2>6
<1>6. ASSUME NEW x \in Coming, x # n PROVE x \in Coming'
  <2>1. PICK i \in 1 .. Len(todo) : ~todo[i].exit /\ todo[i].node \in Line[x]
    BY Places
  <2>2. x \in Nodes
    BY Places
  <2>3. CASE i = 1
    <3>1. n \in Line[x] \ {x}
      BY <1>2, <1>6, <2>1, <2>3
    <3>2. PICK c \in Line[x] : c \in Nodes /\ Parent[c] = n
      BY <2>2, <3>1, ChildOnWay
    <3>3. PICK j \in 1 .. k : Kids[n][j] = c
      BY <1>3, <3>2
    <3>4. todo'[j].node = c /\ ~todo'[j].exit
      BY <1>1, <3>3, ItemFields, Zenon
    <3>5. j \in 1 .. Len(todo')
      BY <1>1
    <3> QED BY <1>4, <2>2, <3>2, <3>4, <3>5
  <2>4. CASE i # 1
    <3>1. i \in 2 .. Len(todo) /\ i + k \in 1 .. Len(todo')
      BY <1>1, <2>4
    <3>2. todo'[i + k] = todo[i]
      BY <1>1, <3>1
    <3> QED BY <1>4, <2>1, <2>2, <3>1, <3>2
  <2> QED BY <2>3, <2>4
<1> QED BY <1>5, <1>6

---------------------------------------------------------------------------
(* The steps of the walk *)

(* fnDepth tells whether the node at the top is inside a function. *)
LEMMA DepthTells ==
  ASSUME TypeOK, StackPart, NEW n \in Nodes, Visiting(n)
  PROVE  /\ fnDepth # 0 <=> InFunction(n)
         /\ Leaving(1) = Line[n] \ {n}
         /\ todo # <<>> /\ todo[1].node = n /\ ~todo[1].exit
<1>1. /\ todo # <<>> /\ todo[1].node = n /\ ~todo[1].exit /\ Leaving(1) = Leaving(2)
      /\ Leaving(2) = Line[n] \ {n}
  BY TopFacts, ItemFields DEF Visiting
<1>2. fnDepth = IF \E m \in Leaving(1) : Type[m] = "FunctionDefinition" THEN 1 ELSE 0
  BY DEF StackPart
<1> QED BY <1>1, <1>2 DEF InFunction, Around

(* What is collected is what is mutable. *)
LEMMA CollectsMutable ==
  ASSUME TypeOK, StackPart, AbovePart, NEW n \in Nodes, Visiting(n),
         Type[n] # "FunctionDefinition"
  PROVE  Collected(n) <=> n \in Mutable
<1>1. (fnDepth # 0 <=> InFunction(n)) /\ Leaving(1) = Line[n] \ {n}
  BY DepthTells
<1>2. ASSUME n \in Mutable PROVE Collected(n)
  BY <1>1, <1>2, LineFacts DEF Mutable, Collected, Preserved
<1>3. ASSUME Collected(n) PROVE n \in Mutable
  <2>1. InFunction(n) /\ Exact(n) /\ Type[n] # "EmitStatement" /\ Parent[n] \notin EtherCalls
    BY <1>1, <1>3 DEF Collected, Preserved
  <2>2. ASSUME NEW m \in Line[n], m # n
        PROVE  Type[m] # "EmitStatement" /\ Parent[m] \notin EtherCalls
    <3>1. Type[m] # "EmitStatement" /\ (InFunction(m) => Parent[m] \notin EtherCalls)
      BY <1>1, <2>2 DEF AbovePart
    <3>2. ~InFunction(m) => Parent[m] \notin EtherCalls
      BY <2>1, EtherOutside
    <3> QED BY <3>1, <3>2
  <2> QED BY <2>1, <2>2 DEF Mutable
<1> QED BY <1>2, <1>3

(* What is mutable does not change during the walk. *)
LEMMA MutableStays ==
  ASSUME spaces' = spaces
  PROVE  Mutable' = Mutable
BY DEF Mutable, Exact

(* Passing over a node below which nothing is mutable. *)
LEMMA PruneWalk ==
  ASSUME TypeOK, WalkInv, NEW n \in Nodes, Visiting(n), Prune,
         UNCHANGED <<spaces, fnDepth, faultSpace>>,
         \A x \in Nodes : n \in Line[x] => x \notin Mutable
  PROVE  TypeOK' /\ WalkInv'
<1>1. StackPart /\ AbovePart /\ faultSpace = Mutable \ Coming
  BY DEF WalkInv
<1>2. todo # <<>> /\ todo[1].node = n /\ ~todo[1].exit
  BY <1>1, DepthTells
<1>3. StackPart'
  BY <1>1, <1>2, PruneStack
<1>4. Leaving(1)' = Leaving(2) /\ Leaving(2) \subseteq Leaving(1)
  BY <1>1, <1>2, PruneLeaving, TopFacts
<1>5. AbovePart'
  BY <1>1, <1>4 DEF AbovePart, InFunction, Around
<1>6. Coming' \subseteq Coming /\ \A x \in Coming \ Coming' : x \notin Mutable
  <2>1. Coming \subseteq Nodes
    BY DEF Coming
  <2> QED BY <1>2, <2>1, PruneComing
<1>7. faultSpace' = Mutable' \ Coming'
  BY <1>1, <1>6, MutableStays
<1>8. todo' \in Seq([node : Nodes, exit : BOOLEAN])
  BY <1>2, PruneItems DEF Item
<1> QED BY <1>3, <1>5, <1>7, <1>8 DEF TypeOK, WalkInv

(* Going on with the children of a node that may be changed. *)
LEMMA DescendWalk ==
  ASSUME TypeOK, WalkInv, NEW n \in Nodes, Visiting(n), Descend(n), spaces' = spaces,
         fnDepth' = IF Type[n] = "FunctionDefinition" THEN fnDepth + 1 ELSE fnDepth,
         faultSpace' = faultSpace \cup {x \in {n} : x \in Mutable},
         Type[n] # "EmitStatement", InFunction(n) => Parent[n] \notin EtherCalls
  PROVE  TypeOK' /\ WalkInv'
<1>1. StackPart /\ AbovePart /\ faultSpace = Mutable \ Coming
  BY DEF WalkInv
<1>2. StackPart' /\ Leaving(1)' = {n} \cup Leaving(1)
  BY <1>1, DescendStack
<1>3. AbovePart'
  BY <1>1, <1>2 DEF AbovePart, InFunction, Around
<1>4. Coming' = Coming \ {n}
  BY <1>1, DescendComing
<1>5. faultSpace' = Mutable' \ Coming'
  BY <1>1, <1>4, MutableStays
<1>6. todo' \in Seq([node : Nodes, exit : BOOLEAN])
  BY DescendItems DEF Item, Visiting
<1>7. fnDepth' \in 0 .. 1
  BY <1>2 DEF StackPart
<1>8. faultSpace' \subseteq Nodes
  BY DEF TypeOK
<1> QED BY <1>2, <1>3, <1>5, <1>6, <1>7, <1>8 DEF TypeOK, WalkInv

(* Leaving a node. *)
LEMMA ExitWalk ==
  ASSUME TypeOK, WalkInv, NEW n \in Nodes, Exit(n)
  PROVE  TypeOK' /\ WalkInv'
<1>1. StackPart /\ AbovePart /\ faultSpace = Mutable \ Coming
  BY DEF WalkInv
<1>2. todo # <<>> /\ Prune /\ UNCHANGED <<spaces, faultSpace>> /\ Head(todo) = Leave(n)
  BY DEF Exit
<1>3. todo[1].node = n /\ todo[1].exit
  BY <1>1, <1>2, TopFacts, ItemFields
<1>4. StackPart'
  BY <1>1, <1>2, <1>3, PruneStack DEF Exit
<1>5. Leaving(1)' = Leaving(2) /\ Leaving(2) \subseteq Leaving(1)
  BY <1>1, <1>2, PruneLeaving, TopFacts
<1>6. AbovePart'
  BY <1>1, <1>5 DEF AbovePart, InFunction, Around
<1>7. Coming' = Coming
  BY <1>2, <1>3, PruneComing
<1>8. faultSpace' = Mutable' \ Coming'
  BY <1>1, <1>2, <1>7, MutableStays
<1>9. todo' \in Seq([node : Nodes, exit : BOOLEAN])
  BY <1>2, PruneItems DEF Item
<1>10. fnDepth' \in 0 .. 1
  BY <1>4 DEF StackPart
<1> QED BY <1>2, <1>4, <1>6, <1>8, <1>9, <1>10 DEF TypeOK, WalkInv

(* Visiting a contract or a function. *)
LEMMA VisitOuter ==
  ASSUME TypeOK, WalkInv, NEW n \in Nodes, VisitContract(n) \/ VisitFunction(n)
  PROVE  TypeOK' /\ WalkInv'
<1>1. /\ Visiting(n) /\ Type[n] \in {"ContractDefinition", "FunctionDefinition"}
      /\ UNCHANGED <<spaces, faultSpace>> /\ spaces \in Specifiers
  BY DEF VisitContract, VisitFunction, TypeOK
<1>2. ~InFunction(n) /\ n \notin Mutable
  BY <1>1, NotNested DEF Mutable
<1>3. CASE Interested(n)
  <2>1. Descend(n) /\ fnDepth' = IF Type[n] = "FunctionDefinition" THEN fnDepth + 1 ELSE fnDepth
    BY <1>3 DEF VisitContract, VisitFunction
  <2>2. faultSpace' = faultSpace \cup {x \in {n} : x \in Mutable}
    BY <1>1, <1>2
  <2> QED BY <1>1, <1>2, <2>1, <2>2, DescendWalk
<1>4. CASE ~Interested(n)
  <2>1. Prune /\ fnDepth' = fnDepth
    BY <1>4 DEF VisitContract, VisitFunction
  <2>2. \A x \in Nodes : n \in Line[x] => x \notin Mutable
    BY <1>1, <1>4, PassedOver
  <2> QED BY <1>1, <2>1, <2>2, PruneWalk
<1> QED BY <1>3, <1>4

(* Visiting any other node. *)
LEMMA VisitInner ==
  ASSUME TypeOK, WalkInv, NEW n \in Nodes, VisitOther(n)
  PROVE  TypeOK' /\ WalkInv'
<1>1. /\ Visiting(n) /\ Type[n] \notin {"ContractDefinition", "FunctionDefinition"}
      /\ UNCHANGED <<spaces, fnDepth>> /\ spaces \in Specifiers
  BY DEF VisitOther, TypeOK
<1>2. StackPart /\ AbovePart
  BY DEF WalkInv
<1>3. (Collected(n) <=> n \in Mutable) /\ (fnDepth # 0 <=> InFunction(n))
  BY <1>1, <1>2, CollectsMutable, DepthTells
<1>4. faultSpace' = faultSpace \cup {x \in {n} : x \in Mutable}
  BY <1>3 DEF VisitOther
<1>5. CASE Collected(n) \/ (~Preserved(n) /\ Interested(n))
  <2>1. Descend(n) /\ ~Preserved(n)
    BY <1>5 DEF VisitOther, Collected
  <2>2. Type[n] # "EmitStatement" /\ (InFunction(n) => Parent[n] \notin EtherCalls)
    BY <1>3, <2>1 DEF Preserved
  <2> QED BY <1>1, <1>4, <2>1, <2>2, DescendWalk
<1>6. CASE ~(Collected(n) \/ (~Preserved(n) /\ Interested(n)))
  <2>1. Prune /\ (Preserved(n) \/ ~Interested(n)) /\ n \notin Mutable
    BY <1>3, <1>6 DEF VisitOther
  <2>2. \A x \in Nodes : n \in Line[x] => x \notin Mutable
    BY <1>1, <2>1, PassedOver DEF Preserved
  <2>3. faultSpace' = faultSpace
    BY <1>4, <2>1
  <2> QED BY <1>1, <2>1, <2>2, <2>3, PruneWalk
<1> QED BY <1>5, <1>6

(* Before the walk, all nodes are still to come. *)
LEMMA InitWalk ==
  ASSUME Init
  PROVE  TypeOK /\ WalkInv
<1>1. Root \in Nodes /\ Enter(Root) \in Item
  BY NodesNumbered DEF Enter, Item
<1>2. /\ todo \in Seq(Item) /\ Len(todo) = 1 /\ todo[1] = Enter(Root)
      /\ spaces \in Specifiers /\ fnDepth = 0 /\ faultSpace = {}
  BY <1>1 DEF Init
<1>3. todo[1].node = Root /\ ~todo[1].exit
  BY <1>2, ItemFields
<1>4. \A i \in Nat : i >= 1 => Leaving(i) = {}
  <2> SUFFICES ASSUME NEW i \in Nat, i >= 1, NEW n \in Leaving(i) PROVE FALSE
    OBVIOUS
  <2>1. PICK j \in i .. Len(todo) : todo[j].exit
    BY Places
  <2>2. j = 1
    BY <1>2
  <2> QED BY <1>3, <2>1, <2>2
<1>5. StackPart
  <2>1. \A i \in 1 .. Len(todo) : i = 1
    BY <1>2
  <2>2. Leaving(1 + 1) = Line[todo[1].node] \ {todo[1].node}
    BY <1>3, <1>4, LineFacts
  <2>3. ~\E n \in Leaving(1) : Type[n] = "FunctionDefinition"
    BY <1>4
  <2> QED BY <1>2, <2>1, <2>2, <2>3 DEF StackPart
<1>6. AbovePart
  BY <1>4 DEF AbovePart
<1>7. Mutable \subseteq Coming
  <2>1. ASSUME NEW n \in Nodes PROVE n \in Coming
    <3>1. Root \in Line[n] /\ 1 \in 1 .. Len(todo)
      BY <1>2, LineBelow
    <3> QED BY <1>3, <3>1, Places
  <2> QED BY <2>1 DEF Mutable
<1> QED BY <1>2, <1>5, <1>6, <1>7 DEF TypeOK, WalkInv, Item

---------------------------------------------------------------------------
(* The properties *)

(* The stack of visitWithPath stays in order, and at every moment of the walk *)
(* exactly the mutable nodes among those passed have been collected.          *)
THEOREM WalkCorrect == Spec => [](TypeOK /\ WalkInv)
<1>1. Init => TypeOK /\ WalkInv
  BY InitWalk
<1>2. TypeOK /\ WalkInv /\ [Next]_vars => (TypeOK /\ WalkInv)'
  <2> SUFFICES ASSUME TypeOK, WalkInv, [Next]_vars PROVE TypeOK' /\ WalkInv'
    OBVIOUS
  <2>1. CASE Next
    BY <2>1, VisitOuter, VisitInner, ExitWalk DEF Next
  <2>2. CASE UNCHANGED vars
    <3>1. Mutable' = Mutable /\ Coming' = Coming /\ \A i : Leaving(i)' = Leaving(i)
      BY <2>2, MutableStays DEF vars, Coming, Leaving
    <3>2. TypeOK'
      BY <2>2 DEF vars, TypeOK
    <3>3. StackPart'
      BY <2>2, <3>1 DEF vars, WalkInv, StackPart
    <3>4. AbovePart'
      BY <3>1 DEF WalkInv, AbovePart, InFunction, Around
    <3> QED BY <2>2, <3>1, <3>2, <3>3, <3>4 DEF vars, WalkInv
  <2> QED BY <2>1, <2>2
<1> QED BY <1>1, <1>2, PTL DEF Spec

(* fnDepth is 0 or 1: it is never counted down below 0, whichever functions   *)
(* were entered or passed over.                                               *)
THEOREM TypeCorrect == Spec => []TypeOK
BY WalkCorrect, PTL

(* fnDepth tells whether the node visited next is inside a function.          *)
THEOREM DepthCorrect == Spec => []DepthIsPosition
<1>1. TypeOK /\ WalkInv => DepthIsPosition
  BY DepthTells DEF WalkInv, DepthIsPosition
<1> QED BY <1>1, WalkCorrect, PTL

(* For every contract and every set of interested spaces, generateFaultSpace  *)
(* returns exactly the mutable nodes, although it prunes by intersection and  *)
(* collects by inclusion.                                                     *)
THEOREM FaultSpaceCorrect == Spec => []FaultSpaceExact
<1>1. TypeOK /\ WalkInv => FaultSpaceExact
  <2> SUFFICES ASSUME WalkInv, todo = <<>> PROVE faultSpace = Mutable
    BY DEF FaultSpaceExact
  <2>1. Coming = {}
    BY Places
  <2> QED BY <2>1 DEF WalkInv
<1> QED BY <1>1, WalkCorrect, PTL

============================================================================
