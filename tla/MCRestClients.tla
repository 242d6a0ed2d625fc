---------------------------- MODULE MCRestClients ----------------------------
(***************************************************************************)
(* The instance of RestClients.                                            *)
(***************************************************************************)
EXTENDS RestClients

CONSTANTS c1, c2

MCCallers == {c1, c2}

=============================================================================
