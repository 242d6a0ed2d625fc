----------------------------- MODULE MCKisFeed ------------------------------
(***************************************************************************)
(* The instances of KisFeed.                                               *)
(***************************************************************************)
EXTENDS KisFeed

=============================================================================
