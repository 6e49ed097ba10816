------------------------------ MODULE MCOperator ------------------------------
(* Instances of Operator for TLC. *)
EXTENDS Operator, TLC

\* Request ids, key ids and slots are interchangeable.
Symmetry == Permutations(Requests) \cup Permutations(Ids) \cup Permutations(Handlers)
=============================================================================
