------------------------------ MODULE MCApiKeys ------------------------------
(* Instances of ApiKeys for TLC. *)
EXTENDS ApiKeys, TLC

\* Key ids and slots are interchangeable.
Symmetry == Permutations(Ids) \cup Permutations(Handlers)
=============================================================================
