------------------------------ MODULE MCReport ------------------------------
(***************************************************************************)
(* Small instances of Report for TLC.  The liveness property rules out     *)
(* symmetry, so there is nothing to instantiate but the constants.         *)
(***************************************************************************)
EXTENDS ReportDelivery
=============================================================================
