--------------------------- MODULE MCPaperExecutor ---------------------------
(* The instance of PaperExecutor for TLC. *)
EXTENDS PaperExecutor

\* With the long position an executor may start with, reversals as well.
ShortOnly == {-1, 0}
=============================================================================
