----------------------------- MODULE MCBrManager ----------------------------
(***************************************************************************)
(* BrManager for TLC: addresses are interchangeable, and so are requests.  *)
(***************************************************************************)
EXTENDS BrManager, TLC

Symmetry == Permutations(Addr) \cup Permutations(Req)
=============================================================================
