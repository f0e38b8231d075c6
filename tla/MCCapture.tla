------------------------------ MODULE MCCapture ------------------------------
(***************************************************************************)
(* Instances of Capture. The endpoints are interchangeable, and so are the   *)
(* probers.                                                                 *)
(***************************************************************************)
EXTENDS Capture, TLC

Symmetry == Permutations(Endpoint) \cup Permutations(Prober)
=============================================================================
