------------------------------ MODULE MCEngine ------------------------------
(***************************************************************************)
(* Small instances of Engine for TLC.                                      *)
(***************************************************************************)
EXTENDS EngineMembership, TLC

\* Identities and room names are only compared for equality.
Symmetry == Permutations(Users) \cup Permutations(Rooms)
=============================================================================
