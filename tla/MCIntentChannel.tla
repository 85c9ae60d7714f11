-------------------------- MODULE MCIntentChannel --------------------------
(* Values for the model-checking runs of IntentChannel. *)
EXTENDS IntentChannel

AllSides == {-1, 0, 1}
LongOnly == {0, 1}
=============================================================================
