----------------------------- MODULE MCGateway ------------------------------
(***************************************************************************)
(* The instance of Gateway: one Start racing Remove and Replace, over a    *)
(* small LS client.                                                        *)
(***************************************************************************)
EXTENDS Gateway

=============================================================================
