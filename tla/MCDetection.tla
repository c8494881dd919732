---------------------------- MODULE MCDetection ----------------------------
(* A small instance of Detection for TLC. *)
EXTENDS Detection

range(a, b) == [start |-> a, end |-> b]

\* The modified range is at the end of the covered one; the empty set is the
\* original contract's.
SomeCovered == {NoInfo, {range(1, 2)}}
SomeModified == {NoInfo, {}, {range(2, 2)}}
============================================================================
