--------------------------- MODULE MCAdminAccess ---------------------------
(* Instances of AdminAccess for TLC. *)
EXTENDS AdminAccess, TLC

\* Public keys and slots are interchangeable.
Symmetry == Permutations(Users) \cup Permutations(Handlers)
=============================================================================
