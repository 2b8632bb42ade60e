--------------------------- MODULE MCNoiseDetection ---------------------------
(* An instance of NoiseDetection for TLC. *)
EXTENDS NoiseDetection

TwoRules == {"r1", "r2"}
================================================================================
