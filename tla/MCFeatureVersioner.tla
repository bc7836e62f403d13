------------------------- MODULE MCFeatureVersioner -------------------------
(* Small instances of the versioner for TLC. *)
EXTENDS FeatureVersioner

CONSTANTS scanned, empty

(* A scan that finds data, and one that raises. *)
MCContents == {scanned, empty}
=============================================================================
