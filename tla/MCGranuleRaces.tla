---------------------------- MODULE MCGranuleRaces ----------------------------
(* Instances of GranuleRaces for TLC: the sets are model values given by the cfg. *)
EXTENDS GranuleRaces, TLC

Symmetry == Permutations(Workers) \cup Permutations(Objects)
              \cup Permutations(Granules) \cup Permutations(Slots)
=============================================================================
