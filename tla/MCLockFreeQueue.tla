--------------------------- MODULE MCLockFreeQueue --------------------------
(***************************************************************************)
(* LockFreeQueue for TLC: a ring in which several threads hold slots and   *)
(* slots are reused, and counters that come round after one operation.     *)
(***************************************************************************)
EXTENDS LockFreeQueue
=============================================================================
