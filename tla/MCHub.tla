-------------------------------- MODULE MCHub ---------------------------------
(***************************************************************************)
(* Hub for TLC.  Requests and offers are interchangeable in the safety     *)
(* runs; the liveness runs do without symmetry.                            *)
(***************************************************************************)
EXTENDS Hub, TLC

Symmetry == Permutations(Requests) \cup Permutations(Offers)

===============================================================================
