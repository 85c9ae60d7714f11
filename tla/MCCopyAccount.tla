---------------------------- MODULE MCCopyAccount ----------------------------
(* Instances of CopyAccount for TLC. *)
EXTENDS CopyAccount, TLC

CONSTANTS Long, Short   \* model values: the code treats both sides alike

LongOnly  == {0, Long}
BothSides == {0, Long, Short}
Mirror    == Permutations({Long, Short})
KillPolls == {"clear", "paused"}
Clear     == {"clear"}

\* What goes wrong at the broker and with time.
Faulty  == {"timeout", "fill", "stray"}
\* The same up to the end of the day, the bracket's fills aside.
EndOfDay == {"timeout", "stray", "eod", "ledger"}
\* A day that does not end and on which all orders are the copier's own.
MidDay  == AllEvents \ {"eod", "stray"}
OwnersAll == {"timeout", "flattenAll"}
Fills   == {"fill"}
=============================================================================
