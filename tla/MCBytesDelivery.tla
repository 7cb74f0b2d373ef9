--------------------------- MODULE MCBytesDelivery --------------------------
(***************************************************************************)
(* BytesDelivery for TLC: several lanes for the order in which items are   *)
(* served, and one lane for liveness.                                      *)
(***************************************************************************)
EXTENDS BytesDelivery, TLC

MCLane == {<<0, LOW>>, <<1, HIGH>>, <<2, HIGH>>}
MCLaneLow == {<<1, LOW>>}
Symmetry == Permutations(Poster) \cup Permutations(Task)
=============================================================================
