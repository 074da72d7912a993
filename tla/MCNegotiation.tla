---------------------------- MODULE MCNegotiation ----------------------------
(***************************************************************************)
(* Small instances of Negotiation for TLC.                                 *)
(***************************************************************************)
EXTENDS NegotiationSubscription, TLC

\* Tracks are only compared for equality.
Symmetry == Permutations(Tracks)
=============================================================================
