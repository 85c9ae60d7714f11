---------------------------- MODULE MCPaperBook ----------------------------
EXTENDS PaperBook

MCAnswers == [jev |-> {"BUY", "SELL", "HOLD"}, base |-> {"BUY"}]
MCMoves == {-1, 1}

\* A rehearsal without filters, a rehearsal with both, a live session that may start late.
MCSettings == {[live |-> FALSE, warmup |-> 0, agree |-> 1, hold |-> 0],
               [live |-> FALSE, warmup |-> 0, agree |-> 2, hold |-> 3],
               [live |-> TRUE,  warmup |-> 2, agree |-> 1, hold |-> 0]}
=============================================================================
