---------------------------- MODULE MCStepStore ----------------------------
(* Two owners and anonymous requests, whose runs and calls share ids.      *)
EXTENDS StepStoreProperties, TLC

Symmetry == Permutations(Workers) \cup Permutations(Owners)
=============================================================================
