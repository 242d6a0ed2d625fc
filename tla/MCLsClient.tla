----------------------------- MODULE MCLsClient -----------------------------
(***************************************************************************)
(* The instances of LsClient. Routes are interchangeable: nothing in the   *)
(* registry or in the client orders them.                                  *)
(***************************************************************************)
EXTENDS LsClient

LOCAL INSTANCE TLC

Symmetry == Permutations(Keys)

=============================================================================
