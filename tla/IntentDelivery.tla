--------------------------- MODULE IntentDelivery ---------------------------
(***************************************************************************)
(* What the link from the paper session to one account of the copy daemon  *)
(* promises, whatever is lost, delayed, repeated or restarted in between:  *)
(* only a position change that a paper run really made is acted on, and it *)
(* is acted on at most once.  It does not promise that every change is     *)
(* acted on, nor the order of the acts of two runs.                        *)
(***************************************************************************)
EXTENDS Naturals

CONSTANTS MaxBoot,   \* paper runs
          MaxSeq     \* position changes of one run

Boots   == 1 .. MaxBoot
Signals == Boots \X (1 .. MaxSeq)

VARIABLES run,       \* the paper run that is alive
          changes,   \* changes[b]: how many position changes run b has made
          acts       \* acts[<<b, n>>]: how often change n of run b was acted on

vars == <<run, changes, acts>>

Init ==
  /\ run = 1
  /\ changes = [b \in Boots |-> 0]
  /\ acts = [s \in Signals |-> 0]

\* The live paper run changes its position.
Change ==
  /\ changes[run] < MaxSeq
  /\ changes' = [changes EXCEPT ![run] = @ + 1]
  /\ UNCHANGED <<run, acts>>

\* A new paper run replaces the old one.
NewRun ==
  /\ run < MaxBoot
  /\ run' = run + 1
  /\ UNCHANGED <<changes, acts>>

\* The account acts on a change it has not acted on before.
Act(s) ==
  /\ s[2] <= changes[s[1]]
  /\ acts[s] = 0
  /\ acts' = [acts EXCEPT ![s] = 1]
  /\ UNCHANGED <<run, changes>>

Next ==
  \/ Change
  \/ NewRun
  \/ \E s \in Signals : Act(s)

Spec == Init /\ [][Next]_vars
=============================================================================
