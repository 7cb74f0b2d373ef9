------------------------------- MODULE MCLooper -----------------------------
(***************************************************************************)
(* Looper for TLC: the two loopers of LooperInit, and two messages with    *)
(* the same code for the first of them.                                    *)
(***************************************************************************)
EXTENDS Looper

CONSTANTS l1, l2

MCLoops == <<l1, l2>>
MCHome == [m \in Message |-> l1]
MCWhat == [m \in Message |-> 1]
=============================================================================
