----------------------------- MODULE MCOsoEntry -----------------------------
(* An instance of OsoEntry for TLC. *)
EXTENDS OsoEntry

\* The exchange as it should be, and mixes of oddities: what a quirk allows
\* includes what goes without it, so the larger mixes stand for the smaller.
Odd     == {{}, {"resting"}, {"lag", "late", "resting"}, Quirks}
=============================================================================
