------------------------------ MODULE MCSession ------------------------------
(***************************************************************************)
(* Small instances of Session for TLC.  Its frames and messages are        *)
(* strings, so there is nothing to instantiate but the bounds.             *)
(***************************************************************************)
EXTENDS Session
=============================================================================
