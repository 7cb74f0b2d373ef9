---------------------------- MODULE MCBrReference ---------------------------
(***************************************************************************)
(* Instances of BrReference for TLC: one link, and two calls of Acquire or *)
(* Occupy after the establishment.  Two are enough for a reference to be   *)
(* taken at one end while the other one negotiates, and for an occupied    *)
(* connection to defer the update of a reference taken meanwhile.          *)
(***************************************************************************)
EXTENDS BrReference

MCMaxCalls == 2
=============================================================================
