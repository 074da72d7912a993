----------------------------- MODULE MCSpeaking -----------------------------
(***************************************************************************)
(* A small instance of Speaking for TLC.                                   *)
(***************************************************************************)
EXTENDS Speaking, TLC

\* Peers are only compared for equality.
Symmetry == Permutations(Peers)
=============================================================================
