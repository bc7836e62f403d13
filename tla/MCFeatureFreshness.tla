------------------------ MODULE MCFeatureFreshness -------------------------
(* A small instance of the freshness path for TLC.                         *)
EXTENDS FeatureFreshness, TLC

MCLags   == {0, 2}
Symmetry == Permutations(Features)
=============================================================================
