------------------------------ MODULE MCWsV5 --------------------------------
(***************************************************************************)
(* The instance of WsV5.                                                   *)
(***************************************************************************)
EXTENDS WsV5

=============================================================================
