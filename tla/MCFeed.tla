------------------------------- MODULE MCFeed -------------------------------
(* The instance of Feed for TLC: a unit is a quarter of a token's life. *)
EXTENDS Feed
=============================================================================
