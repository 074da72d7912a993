---------------------------- MODULE MCForwarding ----------------------------
(***************************************************************************)
(* A small instance of Forwarding for TLC.                                 *)
(***************************************************************************)
EXTENDS ForwardingSubscription, TLC
=============================================================================
