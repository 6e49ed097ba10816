----------------------------- MODULE MCAnchoring -----------------------------
(* Instances of Anchoring for TLC. *)
EXTENDS AnchoringProperties, TLC

\* Request ids and slots are interchangeable.
Symmetry == Permutations(Requests) \cup Permutations(Handlers)
=============================================================================
