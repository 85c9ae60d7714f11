----------------------------- MODULE MCPaperDay -----------------------------
(* The instance of PaperDay for TLC: a tick is five minutes, the day shorter. *)
EXTENDS PaperDay
=============================================================================
