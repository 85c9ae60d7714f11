------------------------------ MODULE OsoEntry ------------------------------
(***************************************************************************)
(* The copy daemon's broker adapter (copytrade/broker.py) against the      *)
(* exchange: enter with its _recover and _settle, flatten and sweep, one   *)
(* broker call a step.                                                     *)
(*                                                                         *)
(* An entry is a limit parent (IOC) with two children, TP and SL, of which *)
(* one cancels the other.  The parent fills, fills partly or expires; a    *)
(* child fills and closes the position.  A POST may fail, be refused, or   *)
(* time out with its order placed or not; a read may fail.  What one entry *)
(* asks for is Qty contracts long: the code is symmetric in the side.      *)
(*                                                                         *)
(* What is not known of the exchange is quirks, chosen once: "lag", the    *)
(* position list shows a fill late; "orphans", a child whose position is   *)
(* gone or never was can still fill; "late", the POST of an entry that     *)
(* timed out reaches the exchange after the adapter has looked for it;     *)
(* "resting", a parent is matched some time after it was placed.           *)
(* Prices, fills' reporting, the ledger's rows and the block after a       *)
(* captcha or a refused token (entries are then misses) are left out.      *)
(***************************************************************************)
EXTENDS Integers, FiniteSets

CONSTANTS Exchanges,   \* the mixes of quirks to look at
          Qty,         \* contracts of one entry
          MaxEntries,  \* bound: calls of enter
          MaxPolls,    \* bound: extra reads inside SETTLE_S, VERIFY_S, FLAT_WAIT_S
          MaxFaults    \* bound: calls that fail or time out

Quirks == {"lag", "orphans", "late", "resting"}

ASSUME OsoAssumption ==
  /\ Exchanges \subseteq SUBSET Quirks
  /\ Qty \in Nat \ {0} /\ MaxEntries \in Nat \ {0}
  /\ MaxPolls \in Nat /\ MaxFaults \in Nat

Entries == 1 .. MaxEntries
Orders  == Entries \X {"entry", "tp", "sl"}
States  == {"none", "live", "filled", "dead"}
Parent(e) == <<e, "entry">>
Kids(e)   == {<<e, "tp">>, <<e, "sl">>}

VARIABLES
  quirks,         \* what this exchange does
  orders, filled, \* orders at the exchange; contracts filled of each entry
  pos, shown,     \* the position, and the one /position/list shows
  wire,           \* entries whose POST is still on its way
  at,             \* the call the adapter is at
  entry,          \* the number of the last entry
  m,              \* the locals of enter, flatten and sweep
  ack,            \* what the last operation reported
  faults

exchange == <<orders, filled, pos, shown, wire>>
vars == <<quirks, exchange, at, entry, m, ack, faults>>
\* Unchanged by a step of the adapter.
fixed == <<quirks, entry>>

\* status: the parent's as last read.  tries, attempt: reads and liquidations
\* so far.  readOk: the children were read once.  side, flipped: flatten's.
\* todo, sweepFor: what sweep has to cancel, and for whom.
Locals == [status |-> "unread", tries |-> 0, attempt |-> 0, readOk |-> FALSE,
           side |-> 0, flipped |-> FALSE, todo |-> {}, sweepFor |-> "sweep"]

Init ==
  /\ quirks \in Exchanges
  /\ orders = [o \in Orders |-> "none"] /\ filled = [e \in Entries |-> 0]
  /\ pos = 0 /\ shown = 0 /\ wire = {}
  /\ at = "idle" /\ entry = 0 /\ m = Locals /\ ack = "none"
  /\ faults = 0

Live  == {o \in Orders : orders[o] = "live"}
Shown == IF "lag" \in quirks THEN shown ELSE pos
Size  == IF Shown < 0 THEN -Shown ELSE Shown
Sign(n) == IF n > 0 THEN 1 ELSE IF n < 0 THEN -1 ELSE 0

Fault   == faults < MaxFaults /\ faults' = faults + 1
NoFault == UNCHANGED faults

\* The call the adapter makes next.  A placed parent that does not rest is
\* matched before it.
At(call) ==
  /\ at = call
  /\ "resting" \in quirks \/ \A e \in Entries : orders[Parent(e)] # "live"

Go(where, x) == at' = where /\ m' = x /\ UNCHANGED ack
Done(result) == at' = "idle" /\ m' = Locals /\ ack' = result

-----------------------------------------------------------------------------
(* What requests do at the exchange. *)

\* The children of a parent that ended unfilled may stay or go.
Childless(e, os) == {os, [o \in Orders |-> IF o \in Kids(e) THEN "dead" ELSE os[o]]}

Place(e) == orders' = [o \in Orders |-> IF o[1] = e THEN "live" ELSE orders[o]]

Cancel(o) ==
  LET dead == [orders EXCEPT ![o] = "dead"] IN
  IF orders[o] # "live" THEN UNCHANGED orders     \* TooLate
  ELSE orders' \in IF o[2] = "entry" THEN Childless(o[1], dead) ELSE {dead}

\* The parent: IOC, all, some or nothing.
Match(e) ==
  /\ orders[Parent(e)] = "live"
  /\ \E q \in 0 .. Qty :
       LET os == [orders EXCEPT ![Parent(e)] = IF q = Qty THEN "filled" ELSE "dead"] IN
       /\ filled' = [filled EXCEPT ![e] = q]
       /\ pos' = pos + q
       /\ orders' \in IF q = 0 THEN Childless(e, os) ELSE {os}
  /\ UNCHANGED <<shown, wire>>

\* A child fills and cancels its sibling.
KidFills(e) ==
  LET q == IF filled[e] = 0 THEN Qty ELSE filled[e] IN
  /\ orders[Parent(e)] # "live"
  /\ (pos >= q /\ filled[e] # 0) \/ "orphans" \in quirks
  /\ pos' = pos - q
  /\ \E k \in Kids(e) :
       /\ orders[k] = "live"
       /\ orders' = [o \in Orders |-> IF o = k THEN "filled"
                                      ELSE IF o \in Kids(e) THEN "dead" ELSE orders[o]]
  /\ UNCHANGED <<filled, shown, wire>>

Arrives(e) ==
  /\ e \in wire /\ wire' = wire \ {e} /\ Place(e)
  /\ UNCHANGED <<filled, pos, shown>>

Shows ==
  /\ "lag" \in quirks /\ shown # pos /\ shown' = pos
  /\ UNCHANGED <<orders, filled, pos, wire>>

Exchange ==
  /\ Shows \/ (\E e \in Entries : Match(e) \/ KidFills(e) \/ Arrives(e))
  /\ UNCHANGED <<quirks, at, entry, m, ack, faults>>

-----------------------------------------------------------------------------
(* Decisions of the adapter. *)

\* Mutant of Again: no end to the reads.
AgainForever(n) == m.tries <= n
Again(n) == m.tries < n
Retry == Go(at, [m EXCEPT !.tries = @ + 1])

Flattening == Go("flatFirst", Locals)
Sweeping(who) == Go("sweepRead", [m EXCEPT !.tries = 0, !.sweepFor = who])

\* Mutant of Unknown: a POST that timed out was not placed.
UnknownIsMiss == Done("missed")
\* _recover: look for the order, never POST again.
Unknown == Go("look", Locals)

\* Mutant of Bracketed: one child is enough.
BracketedByOne(n) == n >= 1
Bracketed(n) == n = 2

\* Mutant of ReadBackFlat: the read-back is not looked at.
ReadBackAny == TRUE
ReadBackFlat == Shown = 0

\* Mutant of ToCancel: the children are left to the exchange.
ToCancelParents == {o \in Live : o[2] = "entry"}
ToCancel == Live

\* What follows sweep: enter's check, an entry that did not fill, flatten, or
\* the executor.
SweepEnds(swept) ==
  CASE m.sweepFor = "check"    -> IF swept THEN Go("post", Locals) ELSE Done("stale")
    [] m.sweepFor = "unfilled" -> Done(IF swept THEN "missed" ELSE "orphans")
    [] m.sweepFor = "flat"     -> Done(IF swept /\ ~m.flipped THEN "flat" ELSE "failed")
    [] m.sweepFor = "sweep"    -> Done(IF swept THEN "swept" ELSE "failed")

-----------------------------------------------------------------------------
(* The executor calls: enter and sweep when it has read the account flat.   *)
(* Any failure but a miss or a refusal halts it or makes it flatten first.  *)

Enter ==
  /\ at = "idle" /\ entry < MaxEntries /\ Shown = 0
  /\ ack \notin {"notFlat", "stale", "ambiguous", "orphans", "failed"}
  /\ entry' = entry + 1
  /\ at' = "checkPos" /\ m' = Locals /\ ack' = "none"
  /\ NoFault /\ UNCHANGED <<quirks, exchange>>

FlattenCall ==
  /\ at = "idle"
  /\ at' = "flatFirst" /\ m' = Locals /\ ack' = "none"
  /\ NoFault /\ UNCHANGED <<quirks, exchange, entry>>

SweepCall ==
  /\ at = "idle" /\ Shown = 0
  /\ at' = "sweepRead" /\ m' = Locals /\ ack' = "none"
  /\ NoFault /\ UNCHANGED <<quirks, exchange, entry>>

-----------------------------------------------------------------------------
(* enter *)

CheckPos ==
  /\ At("checkPos")
  /\ \/ NoFault /\ IF Shown # 0 THEN Done("notFlat") ELSE Go("checkOrders", m)
     \/ Fault /\ Done("missed")
  /\ UNCHANGED <<exchange, fixed>>

CheckOrders ==
  /\ At("checkOrders")
  /\ \/ NoFault /\ IF Live # {} THEN Sweeping("check") ELSE Go("post", m)
     \/ Fault /\ Done("missed")
  /\ UNCHANGED <<exchange, fixed>>

\* placeoso: accepted, refused (failureReason, 4xx, p-ticket, 429; or the
\* account or contract could not be read before it), or a timeout, a 5xx, an
\* answer without an order id.
Post ==
  /\ At("post")
  /\ \/ NoFault /\ Place(entry) /\ Go("status", m) /\ UNCHANGED wire
     \/ NoFault /\ Done("refused") /\ UNCHANGED <<orders, wire>>
     \/ /\ Fault /\ Unknown
        /\ \/ Place(entry) /\ UNCHANGED wire
           \/ UNCHANGED <<orders, wire>>
           \/ "late" \in quirks /\ wire' = wire \cup {entry} /\ UNCHANGED orders
  /\ UNCHANGED <<filled, pos, shown, fixed>>

\* _recover: two looks for the clOrdId, then is the account flat and empty?
Look ==
  /\ At("look")
  /\ \/ /\ NoFault
        /\ IF orders[Parent(entry)] # "none" THEN Go("status", Locals)
           ELSE IF Again(1) THEN Retry ELSE Go("lookPos", Locals)
     \/ Fault /\ Flattening
  /\ UNCHANGED <<exchange, fixed>>

LookPos ==
  /\ At("lookPos")
  /\ \/ NoFault /\ IF Shown # 0 THEN Flattening ELSE Go("lookOrders", m)
     \/ Fault /\ Flattening
  /\ UNCHANGED <<exchange, fixed>>

LookOrders ==
  /\ At("lookOrders")
  /\ \/ NoFault /\ IF Live # {} THEN Flattening ELSE Done("missed")
     \/ Fault /\ Flattening
  /\ UNCHANGED <<exchange, fixed>>

\* _settle: poll the parent until it is terminal or SETTLE_S are over.
Status ==
  /\ At("status")
  /\ LET read(s) == [m EXCEPT !.status = s, !.tries = 0] IN
     \/ /\ NoFault
        /\ IF orders[Parent(entry)] # "live" THEN Go("readPos", read(orders[Parent(entry)]))
           ELSE IF Again(MaxPolls) THEN Retry ELSE Go("cancelParent", read("live"))
     \/ Fault /\ IF Again(MaxPolls) THEN Retry ELSE Go("cancelParent", read("unread"))
  /\ UNCHANGED <<exchange, fixed>>

\* Still resting: cancel it.  The answer is not looked at.
CancelParent ==
  /\ At("cancelParent")
  /\ \/ NoFault /\ Cancel(Parent(entry)) /\ Go("readPos", m)
     \/ Fault /\ (Cancel(Parent(entry)) \/ UNCHANGED orders) /\ Flattening
  /\ UNCHANGED <<filled, pos, shown, wire, fixed>>

\* The position decides: not filled, ambiguous, partly filled or filled.
ReadPos ==
  /\ At("readPos")
  /\ \/ /\ NoFault
        /\ \/ m.status = "filled" /\ Size # Qty /\ Again(3) /\ Retry
           \/ /\ ~(m.status = "filled" /\ Size # Qty /\ Again(3))
              /\ CASE Shown = 0   -> IF m.status = "dead" THEN Sweeping("unfilled")
                                                          ELSE Done("ambiguous")
                   [] Shown = Qty -> Go("modify", Locals)
                   [] OTHER       -> Flattening
     \/ Fault /\ Flattening
  /\ UNCHANGED <<exchange, fixed>>

\* modifyorder on both children: it may be refused, or end in a dead child.
Modify ==
  /\ At("modify")
  /\ Go("verify", m)
  /\ \/ NoFault /\ UNCHANGED orders
     \/ Fault /\ \E k \in Kids(entry) : Cancel(k)
  /\ UNCHANGED <<filled, pos, shown, wire, fixed>>

\* Both children live?  A read that fails says nothing.
Verify ==
  /\ At("verify")
  /\ \/ /\ NoFault
        /\ IF Bracketed(Cardinality(Live \cap Kids(entry))) THEN Done("ok")
           ELSE IF Again(MaxPolls) THEN Go(at, [m EXCEPT !.tries = @ + 1, !.readOk = TRUE])
           ELSE Flattening
     \/ /\ Fault
        /\ IF Again(MaxPolls) THEN Retry
           ELSE IF m.readOk THEN Flattening ELSE Done("unverified")
  /\ UNCHANGED <<exchange, fixed>>

-----------------------------------------------------------------------------
(* flatten *)

FlatFirst ==
  /\ At("flatFirst")
  /\ \/ NoFault /\ IF Shown = 0 THEN Go("flatBack", m)
                   ELSE Go("liquidate", [m EXCEPT !.side = Sign(Shown), !.attempt = 1])
     \/ Fault /\ Go("flatBack", m)
  /\ UNCHANGED <<exchange, fixed>>

\* liquidateposition: done, unknown (the read-back decides), refused (no wait),
\* or an error that ends the loop.
Liquidate ==
  /\ At("liquidate")
  /\ \/ NoFault /\ pos' = 0 /\ Go("liqRead", [m EXCEPT !.tries = 0])
     \/ Fault /\ pos' \in {0, pos} /\ Go("liqRead", [m EXCEPT !.tries = 0])
     \/ Fault /\ UNCHANGED pos /\ Go("liqRead", [m EXCEPT !.tries = MaxPolls])
     \/ Fault /\ UNCHANGED pos /\ Go("flatBack", m)
  /\ UNCHANGED <<orders, filled, shown, wire, fixed>>

\* Poll flat for FLAT_WAIT_S: the other side is liquidated once and reported.
LiqRead ==
  /\ At("liqRead")
  /\ \/ /\ NoFault
        /\ IF Shown = 0 THEN Go("flatBack", m)
           ELSE IF Again(MaxPolls) THEN Retry
           ELSE IF Sign(Shown) # m.side THEN Go("liqFlip", [m EXCEPT !.flipped = TRUE])
           ELSE IF m.attempt < 3 THEN Go("liquidate", [m EXCEPT !.attempt = @ + 1])
           ELSE Go("flatBack", m)
     \/ Fault /\ Go("flatBack", m)
  /\ UNCHANGED <<exchange, fixed>>

LiqFlip ==
  /\ At("liqFlip")
  /\ (NoFault /\ pos' = 0) \/ (Fault /\ pos' \in {0, pos})
  /\ Go("flatBack", m)
  /\ UNCHANGED <<orders, filled, shown, wire, fixed>>

\* Only a read-back that shows flat lets the orders be cancelled.
FlatBack ==
  /\ At("flatBack")
  /\ \/ NoFault /\ IF ReadBackFlat THEN Sweeping("flat") ELSE Done("failed")
     \/ Fault /\ Done("failed")
  /\ UNCHANGED <<exchange, fixed>>

-----------------------------------------------------------------------------
(* sweep *)

SweepRead ==
  /\ At("sweepRead")
  /\ \/ /\ NoFault
        /\ IF ToCancel = {} THEN Go("sweepCheck", m)
                            ELSE Go("sweepCancel", [m EXCEPT !.todo = ToCancel])
     \/ Fault /\ SweepEnds(FALSE)
  /\ UNCHANGED <<exchange, fixed>>

\* One cancelorder: done or too late, unknown or refused, or an error.
SweepCancel ==
  /\ At("sweepCancel")
  /\ \E o \in m.todo :
       LET rest == [m EXCEPT !.todo = @ \ {o}]
           next == Go(IF rest.todo = {} THEN "sweepCheck" ELSE at, rest)
       IN \/ NoFault /\ Cancel(o) /\ next
          \/ Fault /\ (Cancel(o) \/ UNCHANGED orders) /\ next
          \/ Fault /\ UNCHANGED orders /\ SweepEnds(FALSE)
  /\ UNCHANGED <<filled, pos, shown, wire, fixed>>

SweepCheck ==
  /\ At("sweepCheck")
  /\ \/ /\ NoFault
        /\ IF Live = {} THEN SweepEnds(TRUE) ELSE IF Again(2) THEN Retry ELSE SweepEnds(FALSE)
     \/ Fault /\ SweepEnds(FALSE)
  /\ UNCHANGED <<exchange, fixed>>

-----------------------------------------------------------------------------
Adapter ==
  \/ CheckPos \/ CheckOrders \/ Post \/ Look \/ LookPos \/ LookOrders
  \/ Status \/ CancelParent \/ ReadPos \/ Modify \/ Verify
  \/ FlatFirst \/ Liquidate \/ LiqRead \/ LiqFlip \/ FlatBack
  \/ SweepRead \/ SweepCancel \/ SweepCheck

Next == Enter \/ FlattenCall \/ SweepCall \/ Adapter \/ Exchange

Spec == Init /\ [][Next]_vars

\* Calls return (HTTP_TIMEOUT_S), an IOC order ends, fills are shown and late
\* requests arrive; an executor that owes a flatten calls it again.
Fairness ==
  /\ WF_vars(Adapter) /\ SF_vars(FlattenCall)
  /\ WF_vars(Shows /\ UNCHANGED <<quirks, at, entry, m, ack, faults>>)
  /\ \A e \in Entries :
       /\ WF_vars(Match(e) /\ UNCHANGED <<quirks, at, entry, m, ack, faults>>)
       /\ WF_vars(Arrives(e) /\ UNCHANGED <<quirks, at, entry, m, ack, faults>>)

FairSpec == Spec /\ Fairness

-----------------------------------------------------------------------------
(* Properties. *)

Calls == {"idle", "checkPos", "checkOrders", "post", "look", "lookPos",
          "lookOrders", "status", "cancelParent", "readPos", "modify", "verify",
          "flatFirst", "liquidate", "liqRead", "liqFlip", "flatBack",
          "sweepRead", "sweepCancel", "sweepCheck"}
Acks == {"none", "ok", "unverified", "missed", "refused", "notFlat", "stale",
         "ambiguous", "orphans", "flat", "failed", "swept"}
Contracts == -Qty * MaxEntries .. Qty * MaxEntries

\* Every variable has its type; in particular every loop of reads ends.
TypeOK ==
  /\ quirks \in Exchanges
  /\ orders \in [Orders -> States] /\ filled \in [Entries -> 0 .. Qty]
  /\ pos \in Contracts /\ shown \in Contracts /\ wire \subseteq Entries
  /\ at \in Calls /\ entry \in 0 .. MaxEntries /\ ack \in Acks
  /\ m.status \in States \cup {"unread"} /\ m.tries \in 0 .. (IF MaxPolls > 3 THEN MaxPolls ELSE 3)
  /\ m.attempt \in 0 .. 3 /\ m.side \in {-1, 0, 1} /\ m.todo \subseteq Orders
  /\ faults \in 0 .. MaxFaults

\* An exchange that does as it should, or, for the first entry of an account
\* that was flat, one that does only these odd things.
Ordinary(odd) == quirks = {} \/ (entry = 1 /\ quirks \subseteq odd)

\* An entry reported as a miss or a refusal has left no position and no order
\* of its own: the executor goes on as if it had never been sent
\* (executor/broker.py:31 "a normal miss"; broker.py:311, 408, 458).  It rests
\* on the exchange: see quirks.
MissLeavesNothing ==
  ack \in {"missed", "refused"} /\ Ordinary({"resting"}) =>
    pos = 0 /\ \A o \in Live : o[1] # entry

\* What the broker reports is so: an entry reported as filled holds its size with
\* both children live, even if they could fill while they were modified and looked
\* at; a flatten that reports success leaves a flat account without live orders,
\* whatever timed out, was refused or filled on the way.
AckIsTrue ==
  [][/\ ack' = "ok" /\ ack # "ok" /\ Ordinary({"lag", "resting", "late"})
          => pos' = Qty /\ \A k \in Kids(entry) : orders'[k] = "live"
     /\ ack' = "flat" /\ ack # "flat" /\ quirks = {}
          => pos' = 0 /\ \A o \in Orders : orders'[o] # "live"]_vars

\* "Never cancel protective orders while a position may exist" (broker.py:550).
ProtectedWhileHeld ==
  [][quirks = {} /\ m'.todo # m.todo =>
       \A e \in Entries : \A k \in Kids(e) :
         orders[k] = "live" /\ orders'[k] = "dead" => pos = 0]_vars

\* However the exchange behaves, an executor that flattens again and again
\* ends flat with no live order.
FlattenSettles == <>[](pos = 0 /\ Live = {})
=============================================================================
