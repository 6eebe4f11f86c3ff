------------------------- MODULE MCGranuleProtocol -------------------------
(* Instances of GranuleProtocol for TLC: the sets are model values given by the cfg. *)
EXTENDS GranuleRefinement, TLC

Symmetry == Permutations(Workers) \cup Permutations(Objects) \cup Permutations(Granules)
=============================================================================
