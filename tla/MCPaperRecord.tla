---------------------------- MODULE MCPaperRecord ----------------------------
(* An instance of PaperRecord for TLC. *)
EXTENDS PaperRecord

TwoPolicies == {"jev", "hold"}
OneStop     == {"aborted"}
BothFeeds   == {"databento", "tradovate"}
=============================================================================
