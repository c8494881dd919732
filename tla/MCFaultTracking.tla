-------------------------- MODULE MCFaultTracking --------------------------
(* A function body of two statements, the second one an if statement:       *)
(*   { a; if (...) { b; c; } }                                             *)
EXTENDS FaultTracking

AllProps == {"statements", "trueBody", "expression"}
Arrays == {"statements"}
AllTypes == {"InsertionM", "DeletionM", "ReplacementM", "MovementM"}

Kids(prop, ns) == [p \in AllProps |-> IF p = prop THEN ns ELSE <<>>]

BodyKind == <<"Block", "ExpressionStatement", "Expression", "IfStatement", "Block",
              "ExpressionStatement", "ExpressionStatement">>
BodyKids == <<Kids("statements", <<2, 4>>), Kids("expression", <<3>>), Kids("", <<>>),
              Kids("trueBody", <<5>>), Kids("statements", <<6, 7>>), Kids("", <<>>), Kids("", <<>>)>>
BodyPaths == UNION {[1 .. n -> [prop : AllProps, idx : 0 .. 1]] : n \in 1 .. 4}
============================================================================
