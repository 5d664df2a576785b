--------------------------- MODULE MCTrafficCapture ---------------------------
(* Small instances of TrafficCapture for TLC. *)
EXTENDS TrafficCapture, TLC

RequestSymmetry == Permutations(Requests)
===============================================================================
