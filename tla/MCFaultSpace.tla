--------------------------- MODULE MCFaultSpace ---------------------------
(* A file with two contracts:                                              *)
(*   contract A { modifier m { x; }                                        *)
(*                function f { a.transfer(v); emit E(w); if (c) { s; } }   *)
(*                function g { t; } }                                      *)
(*   contract B { function f { u; } }                                      *)
EXTENDS FaultSpace

\* A node: its type, its parent, its name, the tokens it spans.
node(type, parent, name, start, end) ==
  [type |-> type, parent |-> parent, name |-> name, loc |-> [start |-> start, end |-> end]]

Source ==
  << node("SourceUnit", 0, "", 1, 12),
     node("ContractDefinition", 1, "A", 1, 10),
     node("ModifierDefinition", 2, "m", 2, 2),
     node("ExpressionStatement", 3, "", 2, 2),
     node("FunctionDefinition", 2, "f", 3, 8),
     node("Block", 5, "", 4, 8),
     node("FunctionCall", 6, "", 4, 5),
     node("MemberAccess", 7, "", 4, 4),
     node("Identifier", 7, "", 5, 5),
     node("EmitStatement", 6, "", 6, 6),
     node("Identifier", 10, "", 6, 6),
     node("IfStatement", 6, "", 7, 8),
     node("Identifier", 12, "", 7, 7),
     node("ExpressionStatement", 12, "", 8, 8),
     node("FunctionDefinition", 2, "g", 9, 10),
     node("ExpressionStatement", 15, "", 10, 10),
     node("ContractDefinition", 1, "B", 11, 12),
     node("FunctionDefinition", 17, "f", 11, 12),
     node("ExpressionStatement", 18, "", 12, 12) >>

Types == [n \in DOMAIN Source |-> Source[n].type]
Parents == [n \in DOMAIN Source |-> Source[n].parent]
Children == [n \in DOMAIN Source |-> SetToSortSeq({m \in DOMAIN Source : Source[m].parent = n}, <)]
Names == [n \in DOMAIN Source |-> Source[n].name]
Locs == [n \in DOMAIN Source |-> Source[n].loc]
TransferCalls == {7}

\* What the specifier parser makes: contracts, locations, types in contracts.
Contracts == [of : {"contract"}, contract : {"A", "B"}, functions : {{}, {"f"}, {"g"}}]
Locations ==
  {[of |-> "location", loc |-> [start |-> a, end |-> b]] : a \in 1 .. 12, b \in {1, 4, 5, 8, 11, 12}}
NodeTypes == [of : {"type"}, type : {"Identifier", "ExpressionStatement"}]
Spaces ==
  {{x} : x \in Contracts \cup NodeTypes \cup {l \in Locations : l.loc.start <= l.loc.end}}
    \cup {{c, t} : c \in Contracts, t \in NodeTypes}

\* At most two specifiers, none of them, or no specification at all.
SomeSpecifiers == {Undefined, {}} \cup {{x, y} : x, y \in Spaces}
===========================================================================
