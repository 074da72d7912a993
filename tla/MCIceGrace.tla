----------------------------- MODULE MCIceGrace -----------------------------
(***************************************************************************)
(* A small instance of IceGrace for TLC.                                   *)
(***************************************************************************)
EXTENDS IceGrace, TLC
=============================================================================
