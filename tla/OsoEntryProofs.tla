--------------------------- MODULE OsoEntryProofs ---------------------------
(***************************************************************************)
(* The broker adapter of the copy daemon, for any size, number of entries, *)
(* polls and faults, and any exchanges: every variable keeps its type, an  *)
(* entry reported as a miss has left nothing, what is reported as filled   *)
(* or flat is so, and no protective order is cancelled while a position    *)
(* exists, each under the quirks its property names.  Without quirks the   *)
(* account holds one entry or none, and flatten and sweep only close.      *)
(*                                                                         *)
(* The adapter never holds more than what its last reads told it, so the   *)
(* argument is what those reads still mean when it acts on them.  They do  *)
(* because nothing at the exchange can change them: the orders of an entry *)
(* not sent yet do not exist (Unposted), a parent that is no longer live   *)
(* never fills again (Lives), without resting parents none is live when    *)
(* the adapter makes a call (LiveParent), and a flat account's children    *)
(* have nothing to close.                                                  *)
(***************************************************************************)
EXTENDS OsoEntry, FiniteSetTheorems, TLAPS

Sweep     == at \in {"sweepRead", "sweepCancel", "sweepCheck"}
Unsent    == {"checkPos", "checkOrders", "post"}
Looking   == {"lookPos", "lookOrders"}
Posted    == {"look", "lookPos", "lookOrders", "status", "cancelParent", "readPos",
              "modify", "verify"}
NoOrders(e) == \A o \in Orders : o[1] = e => orders[o] = "none"

Reads == IF MaxPolls > 3 THEN MaxPolls ELSE 3
LocalsType == [status : States \cup {"unread"}, tries : 0 .. Reads, attempt : 0 .. 3,
               readOk : BOOLEAN, side : {-1, 0, 1}, flipped : BOOLEAN,
               todo : SUBSET Orders, sweepFor : {"check", "unfilled", "flat", "sweep"}]

Types ==
  /\ quirks \in Exchanges
  /\ orders \in [Orders -> States] /\ filled \in [Entries -> 0 .. Qty]
  /\ pos \in Int /\ shown \in Int /\ wire \subseteq Entries
  /\ at \in Calls /\ entry \in 0 .. MaxEntries /\ ack \in Acks
  /\ m \in LocalsType /\ faults \in 0 .. MaxFaults

-----------------------------------------------------------------------------
(* The orders of an entry.                                                 *)

\* An entry to come has no orders.
Ahead == \A e \in Entries : e > entry => NoOrders(e) /\ e \notin wire

\* What has been sent comes to life once: a parent that ended does not come back, its
\* children do not fill before, and one that filled has cancelled the other.
Lives ==
  \A e \in Entries :
    /\ e \in wire \/ orders[Parent(e)] = "none" => NoOrders(e)
    /\ orders[Parent(e)] \in {"none", "live"} =>
         filled[e] = 0 /\ \A k \in Kids(e) : orders[k] # "filled"
    /\ \A k, l \in Kids(e) : orders[k] = "filled" /\ k # l => orders[l] \notin {"live", "filled"}

\* An entry that is not sent yet has no orders.
Unposted ==
  /\ at \in Unsent \/ (Sweep /\ m.sweepFor = "check") =>
       entry > 0 /\ NoOrders(entry) /\ entry \notin wire
  /\ at \in Posted \/ (Sweep /\ m.sweepFor = "unfilled") => entry > 0

\* A report belongs to no call.
Answered == ack # "none" => at = "idle"

Matched == {e \in Entries : orders[Parent(e)] \in {"filled", "dead"}}
Exited  == {e \in Entries : \E k \in Kids(e) : orders[k] = "filled"}

\* The position is at most what was bought, and short by what orphans sold.
Bounded ==
  /\ pos <= Qty * Cardinality(Matched) /\ pos >= -(Qty * Cardinality(Exited))
  /\ shown \in Contracts

-----------------------------------------------------------------------------
(* The first entry.                                                        *)

\* Until the adapter gives up its first entry the account holds what that entry
\* bought, or nothing once a child has filled; a late position list shows one of them.
Held == IF \E k \in Kids(1) : orders[k] = "filled" THEN 0 ELSE filled[1]

First ==
  /\ entry = 0 => pos = 0 /\ shown = 0
  /\ /\ entry = 1 /\ "orphans" \notin quirks
     /\ at \in Unsent \cup Posted \/ (Sweep /\ m.sweepFor = "check")
     => /\ pos = Held /\ shown \in {0, filled[1]}
        /\ at \in {"modify", "verify"} => filled[1] = Qty

-----------------------------------------------------------------------------
(* A miss.                                                                 *)

Plain == quirks = {} \/ (entry <= 1 /\ quirks \subseteq {"resting"})

LiveParent ==
  \A e \in Entries : orders[Parent(e)] = "live" =>
    e = entry /\ (quirks = {} => at \in {"status", "look"})

Misses ==
  /\ wire = {} /\ LiveParent
  /\ at \in Unsent \cup Looking \/ (Sweep /\ m.sweepFor = "check") => pos = 0
  /\ at \in Looking => NoOrders(entry)
  /\ at = "look" /\ orders[Parent(entry)] = "none" => pos = 0
  /\ at = "readPos" /\ m.status = "dead" => orders[Parent(entry)] # "live"
  /\ Sweep /\ m.sweepFor = "unfilled" => pos = 0 /\ orders[Parent(entry)] # "live"
  /\ ack \in {"missed", "refused"} =>
       at = "idle" /\ pos = 0 /\ \A o \in Live : o[1] # entry

-----------------------------------------------------------------------------
(* An exchange that does as it should.                                     *)

Proper ==
  /\ Sweep => pos = 0
  /\ at \in {"post"} \cup Posted => \A o \in Live : o[1] = entry
  /\ at \in {"modify", "verify"} /\ (\A k \in Kids(entry) : orders[k] = "live") => pos = Qty

OInv == Types /\ Ahead /\ Lives /\ Unposted /\ Answered /\ Bounded /\ First /\ (Plain => Misses)
        /\ (quirks = {} => Proper)

-----------------------------------------------------------------------------
(* Orders.                                                                 *)

LEMMA OrderFacts ==
  /\ \A e \in Entries : Parent(e) \in Orders /\ Parent(e)[1] = e /\ Parent(e)[2] = "entry"
  /\ \A e \in Entries : \A k \in Kids(e) : k \in Orders /\ k[1] = e /\ k[2] # "entry"
  /\ \A o \in Orders : /\ o[1] \in Entries
                       /\ o = Parent(o[1]) \/ o \in Kids(o[1])
                       /\ o[2] = "entry" => o = Parent(o[1])
  BY DEF Parent, Kids, Orders

LEMMA OthersParent ==
  ASSUME NEW e \in Entries, NEW f \in Entries
  PROVE  Parent(e) \notin Kids(f) /\ (Parent(e) = Parent(f) => e = f)
         /\ (e # f => \A k \in Kids(e) : k \notin Kids(f))
  BY OrderFacts

\* What an entry without orders has.
LEMMA Nothing ==
  ASSUME NEW e \in Entries, NoOrders(e)
  PROVE  orders[Parent(e)] = "none" /\ \A k \in Kids(e) : orders[k] = "none"
  BY OrderFacts DEF NoOrders

\* Orders that end: none is filled by it, and an entry without orders has none.
Shrinks ==
  /\ orders' \in [Orders -> States]
  /\ \A p \in Orders :
       \/ orders'[p] = orders[p]
       \/ /\ orders'[p] = "dead" /\ orders[p] # "filled" /\ ~NoOrders(p[1])
          /\ p[2] = "entry" => orders[p] = "live"

\* A cancel ends the order, if it is live, and at most the children of its entry.
LEMMA CancelShrinks ==
  ASSUME Types, Lives, NEW o \in Orders, Cancel(o)
  PROVE  Shrinks /\ orders'[o] # "live"
<1> DEFINE dead == [orders EXCEPT ![o] = "dead"]
           bare == [p \in Orders |-> IF p \in Kids(o[1]) THEN "dead" ELSE dead[p]]
<1>1. orders \in [Orders -> States] /\ "dead" \in States /\ o[1] \in Entries
  BY OrderFacts DEF Types, States
<1>2. dead \in [Orders -> States] /\ bare \in [Orders -> States]
  BY <1>1
<1>3. dead[o] = "dead" /\ \A p \in Orders : p # o => dead[p] = orders[p]
  BY <1>1
<1>4. \A p \in Orders : bare[p] = IF p \in Kids(o[1]) THEN "dead" ELSE dead[p]
  OBVIOUS
<1>5. CASE orders[o] # "live"
  BY <1>1, <1>5 DEF Cancel, Shrinks
<1>6. CASE orders[o] = "live"
  <2>1. ~NoOrders(o[1])
    BY <1>6 DEF NoOrders
  <2>2. orders' = dead \/ (o[2] = "entry" /\ orders' = bare)
    BY <1>6 DEF Cancel, Childless
  <2> HIDE DEF dead, bare
  <2>3. CASE orders' = dead
    BY <1>2, <1>3, <1>6, <2>1, <2>3 DEF Shrinks
  <2>4. CASE o[2] = "entry" /\ orders' = bare
    <3>1. o = Parent(o[1]) /\ o \notin Kids(o[1])
      BY <1>1, <2>4, OrderFacts, OthersParent
    <3>2. \A k \in Kids(o[1]) : orders[k] # "filled" /\ k[1] = o[1] /\ k[2] # "entry"
      BY <1>1, <1>6, <3>1, OrderFacts DEF Lives
    <3>3. orders'[o] = "dead"
      BY <1>3, <1>4, <2>4, <3>1
    <3>4. ASSUME NEW p \in Orders, p \in Kids(o[1])
          PROVE  orders'[p] = "dead" /\ orders[p] # "filled" /\ ~NoOrders(p[1]) /\ p[2] # "entry"
      BY <1>4, <2>1, <2>4, <3>2, <3>4
    <3>5. ASSUME NEW p \in Orders, p \notin Kids(o[1]), p # o
          PROVE  orders'[p] = orders[p]
      BY <1>3, <1>4, <2>4, <3>5
    <3>6. Shrinks
      BY <1>2, <1>6, <2>1, <2>4, <3>3, <3>4, <3>5 DEF Shrinks
    <3> QED
      BY <1>1, <3>1, <3>3, <3>6
  <2> QED
    BY <2>2, <2>3, <2>4
<1> QED
  BY <1>5, <1>6

LEMMA StaysShrunk ==
  ASSUME Types, UNCHANGED orders
  PROVE  Shrinks
  BY DEF Types, Shrinks

\* Nothing is known less of the orders when some of them end.
LEMMA ShrinkKeeps ==
  ASSUME Types, Ahead, Lives, Shrinks, UNCHANGED <<filled, wire, entry>>
  PROVE  /\ Ahead' /\ Lives'
         /\ \A e \in Entries : NoOrders(e) => NoOrders(e)'
         /\ \A p \in Orders : (orders'[p] = "filled") <=> (orders[p] = "filled")
         /\ \A p \in Orders : orders'[p] = "live" => orders[p] = "live"
         /\ \A p \in Orders : orders'[p] = "none" => orders[p] = "none"
<1>1. \A e \in Entries : NoOrders(e) => NoOrders(e)'
  BY DEF Shrinks, NoOrders
<1>2. /\ \A p \in Orders : (orders'[p] = "filled") <=> (orders[p] = "filled")
      /\ \A p \in Orders : orders'[p] = "live" => orders[p] = "live"
      /\ \A p \in Orders : orders'[p] = "none" => orders[p] = "none"
  BY DEF Shrinks
<1>3. Ahead'
  BY <1>1 DEF Ahead
<1>4. Lives'
  <2> SUFFICES ASSUME NEW e \in Entries
               PROVE  /\ e \in wire \/ orders'[Parent(e)] = "none" => NoOrders(e)'
                      /\ orders'[Parent(e)] \in {"none", "live"} =>
                           filled[e] = 0 /\ \A k \in Kids(e) : orders'[k] # "filled"
                      /\ \A k, l \in Kids(e) : orders'[k] = "filled" /\ k # l =>
                           orders'[l] \notin {"live", "filled"}
    BY DEF Lives
  <2>1. Parent(e) \in Orders /\ Kids(e) \subseteq Orders
    BY OrderFacts
  <2>2. e \in wire \/ orders'[Parent(e)] = "none" => NoOrders(e)'
    BY <1>1, <1>2, <2>1 DEF Lives
  <2>3. orders'[Parent(e)] \in {"none", "live"} =>
          filled[e] = 0 /\ \A k \in Kids(e) : orders'[k] # "filled"
    BY <1>2, <2>1 DEF Lives
  <2>4. \A k, l \in Kids(e) : orders'[k] = "filled" /\ k # l =>
          orders'[l] \notin {"live", "filled"}
    BY <1>2, <2>1 DEF Lives
  <2> QED
    BY <2>2, <2>3, <2>4
<1> QED
  BY <1>1, <1>2, <1>3, <1>4

-----------------------------------------------------------------------------
(* How much can be held.                                                   *)

LEMMA EntriesFinite ==
  /\ IsFiniteSet(Entries) /\ Cardinality(Entries) = MaxEntries
  /\ \A S \in SUBSET Entries :
       IsFiniteSet(S) /\ Cardinality(S) \in Nat /\ Cardinality(S) <= MaxEntries
<1>1. MaxEntries \in Nat /\ ~(1 > MaxEntries + 1) /\ 1 \in Int /\ MaxEntries \in Int
  BY OsoAssumption
<1>2. IsFiniteSet(Entries) /\ Cardinality(Entries) = IF 1 > MaxEntries THEN 0 ELSE MaxEntries - 1 + 1
  BY <1>1, FS_Interval DEF Entries
<1>3. Cardinality(Entries) = MaxEntries
  BY <1>1, <1>2
<1>4. \A S \in SUBSET Entries :
        IsFiniteSet(S) /\ Cardinality(S) \in Nat /\ Cardinality(S) <= MaxEntries
  BY <1>2, <1>3, FS_Subset, FS_CardinalityType
<1> QED
  BY <1>2, <1>3, <1>4

LEMMA Products ==
  /\ \A i \in Nat : Qty * i \in Nat /\ Qty * (i + 1) = Qty * i + Qty
  /\ \A i, j \in Nat : i <= j => Qty * i <= Qty * j
  /\ Qty \in Nat /\ Qty > 0
  BY OsoAssumption

\* Both sets are sets of entries, so the position stays within TypeOK's contracts.
LEMMA BoundsPosition ==
  ASSUME Types, Bounded
  PROVE  pos \in Contracts
<1> DEFINE a == Cardinality(Matched)
           b == Cardinality(Exited)
<1>1. a \in Nat /\ a <= MaxEntries /\ b \in Nat /\ b <= MaxEntries /\ MaxEntries \in Nat
  BY EntriesFinite, OsoAssumption DEF Matched, Exited
<1>2. pos <= Qty * a /\ pos >= -(Qty * b) /\ pos \in Int
  BY DEF Bounded, Types
<1> HIDE DEF a, b
<1> DEFINE x == Qty * a
           y == Qty * b
           z == Qty * MaxEntries
<1>3. x \in Nat /\ y \in Nat /\ z \in Nat /\ x <= z /\ y <= z
  BY <1>1, Products
<1>4. -Qty * MaxEntries = -z
  BY OsoAssumption
<1>5. pos <= x /\ pos >= -y
  BY <1>2
<1> HIDE DEF x, y, z
<1>6. pos \in -z .. z
  BY <1>2, <1>3, <1>5
<1> QED
  BY <1>4, <1>6 DEF Contracts, z

\* More parents matched, or a flat account, is within the bounds.
LEMMA BoundsCalm ==
  ASSUME Types, Bounded, pos' \in {pos, 0}, shown' \in Contracts, Matched \subseteq Matched',
         Matched' \subseteq Entries, Exited' = Exited
  PROVE  Bounded'
<1> DEFINE a == Cardinality(Matched)
           c == Cardinality(Matched')
           b == Cardinality(Exited)
<1>1. a \in Nat /\ c \in Nat /\ b \in Nat /\ a <= c
  BY EntriesFinite, FS_Subset DEF Exited
<1>2. pos <= Qty * a /\ pos >= -(Qty * b) /\ pos \in Int
  BY DEF Bounded, Types
<1> HIDE DEF a, b, c
<1> DEFINE x == Qty * a
           y == Qty * b
           z == Qty * c
<1>3. x \in Nat /\ y \in Nat /\ z \in Nat /\ x <= z
  BY <1>1, Products
<1>4. pos <= x /\ pos >= -y
  BY <1>2
<1> HIDE DEF x, y, z
<1>5. pos' <= z /\ pos' >= -y
  BY <1>2, <1>3, <1>4
<1>6. pos' <= Qty * c /\ pos' >= -(Qty * b)
  BY <1>5 DEF y, z
<1> QED
  BY <1>6 DEF Bounded, b, c

\* One more parent matched buys at most Qty, one more child sells at most Qty.
LEMMA BoundsMove ==
  ASSUME Types, Bounded, UNCHANGED shown, NEW e \in Entries, NEW q \in 0 .. Qty,
         \/ /\ pos' = pos + q /\ e \notin Matched /\ Matched' = Matched \cup {e}
            /\ Exited' = Exited
         \/ /\ pos' = pos - q /\ e \notin Exited /\ Exited' = Exited \cup {e}
            /\ Matched' = Matched
  PROVE  Bounded'
<1> DEFINE a == Cardinality(Matched)
           c == Cardinality(Matched')
           b == Cardinality(Exited)
           d == Cardinality(Exited')
<1>1. IsFiniteSet(Matched) /\ IsFiniteSet(Exited) /\ a \in Nat /\ b \in Nat
  BY EntriesFinite DEF Matched, Exited
<1>2. pos <= Qty * a /\ pos >= -(Qty * b) /\ pos \in Int
  BY DEF Bounded, Types
<1>3. \/ pos' = pos + q /\ c = a + 1 /\ d = b
      \/ pos' = pos - q /\ d = b + 1 /\ c = a
  BY <1>1, FS_AddElement
<1> HIDE DEF a, b, c, d
<1> DEFINE x == Qty * a
           y == Qty * b
<1>4. x \in Nat /\ y \in Nat /\ Qty * (a + 1) = x + Qty /\ Qty * (b + 1) = y + Qty /\ Qty \in Nat
  BY <1>1, Products
<1>5. pos <= x /\ pos >= -y
  BY <1>2
<1>6. (c = a => Qty * c = x) /\ (d = b => Qty * d = y)
  OBVIOUS
<1>7. (c = a + 1 => Qty * c = x + Qty) /\ (d = b + 1 => Qty * d = y + Qty)
  BY <1>4
<1> HIDE DEF x, y
<1> DEFINE u == Qty * c
           v == Qty * d
<1>8. \/ pos' = pos + q /\ u = x + Qty /\ v = y
      \/ pos' = pos - q /\ v = y + Qty /\ u = x
  BY <1>3, <1>6, <1>7
<1> HIDE DEF u, v
<1>9. pos' <= u /\ pos' >= -v
  BY <1>2, <1>4, <1>5, <1>8
<1>10. pos' <= Qty * c /\ pos' >= -(Qty * d)
  BY <1>9 DEF u, v
<1> QED
  BY <1>10 DEF Bounded, c, d, Contracts

-----------------------------------------------------------------------------
(* A step of the adapter that sends nothing: orders may end, the position  *)
(* may be liquidated, and it goes from one call to another.                *)

CheckSweep    == Sweep /\ m.sweepFor = "check"
UnfilledSweep == Sweep /\ m.sweepFor = "unfilled"
NoneLive      == \A e \in Entries : orders[Parent(e)] # "live"

\* Where a call may come from, and what was read before it.
Allowed ==
  /\ at' \in Unsent \/ CheckSweep' => at \in Unsent \/ CheckSweep
  /\ at' \in Posted => at \in Posted \/ (at = "post" /\ at' = "look")
  /\ at' = "look" => at \in {"look", "post"}
  /\ at' \in Looking => at \in Looking \/ (at = "look" /\ orders[Parent(entry)] = "none")
  /\ at' = "readPos" /\ m'.status = "dead" => orders'[Parent(entry)] # "live"
  /\ Sweep' => \/ Sweep /\ m'.sweepFor = m.sweepFor
               \/ Shown = 0 \/ at = "checkOrders"
  /\ UnfilledSweep' => \/ UnfilledSweep
                       \/ at = "readPos" /\ m.status = "dead" /\ Shown = 0
  /\ at' = "post" => at = "post" \/ Live = {}
  /\ at' \in {"modify", "verify"} => at \in {"modify", "verify"} \/ Shown = Qty
  /\ ack' # "none" => at' = "idle"
  /\ ack' \in {"missed", "refused"} =>
          \/ at \in Unsent \cup Looking
          \/ UnfilledSweep /\ Live = {}

LEMMA CalmKeeps ==
  ASSUME OInv, Types', Shrinks, UNCHANGED <<filled, shown, wire, quirks, entry>>,
         pos' = pos \/ (pos' = 0 /\ at' \in {"liqRead", "flatBack"}),
         quirks = {} => NoneLive,
         Allowed
  PROVE  OInv'
<1>1. /\ Types /\ Ahead /\ Lives /\ Unposted /\ Bounded /\ First
      /\ (Plain => Misses) /\ (quirks = {} => Proper)
  BY DEF OInv
<1>2. /\ Ahead' /\ Lives'
      /\ \A e \in Entries : NoOrders(e) => NoOrders(e)'
      /\ \A p \in Orders : (orders'[p] = "filled") <=> (orders[p] = "filled")
      /\ \A p \in Orders : orders'[p] = "live" => orders[p] = "live"
      /\ \A p \in Orders : orders'[p] = "none" => orders[p] = "none"
  BY <1>1, ShrinkKeeps
<1>3. Live' \subseteq Live
  BY <1>2 DEF Live
<1>4. Bounded'
  <2>1. Exited' = Exited /\ Exited' \subseteq Entries
    BY <1>2, OrderFacts DEF Exited
  <2>2. Matched \subseteq Matched'
    <3>1. ASSUME NEW e \in Matched PROVE orders'[Parent(e)] \in {"filled", "dead"}
      BY OrderFacts DEF Matched, Shrinks
    <3> QED
      BY <3>1 DEF Matched
  <2>3. Matched' \subseteq Entries /\ shown' \in Contracts /\ pos' \in {pos, 0}
    BY <1>1 DEF Matched, Bounded, Contracts
  <2> QED
    BY <1>1, <2>1, <2>2, <2>3, BoundsCalm
<1>5. entry > 0 => entry \in Entries
  BY <1>1, OsoAssumption DEF Types, Entries
<1>6. Unposted'
  <2>1. at' \in Unsent \/ CheckSweep' => entry > 0 /\ NoOrders(entry)' /\ entry \notin wire
    BY <1>1, <1>2, <1>5 DEF Allowed, Unposted, CheckSweep
  <2>2. at' \in Posted \/ UnfilledSweep' => entry > 0
    BY <1>1 DEF Allowed, Unposted, UnfilledSweep, Posted, Unsent
  <2> QED
    BY <2>1, <2>2 DEF Unposted, CheckSweep, UnfilledSweep
<1>7. First'
  <2>1. entry = 0 => pos' = 0 /\ shown' = 0
    BY <1>1 DEF First
  <2>2. 1 \in Entries
    BY OsoAssumption DEF Entries
  <2>3. Held' = Held
    BY <1>2, <2>2, OrderFacts DEF Held
  <2>4. ASSUME entry = 1, "orphans" \notin quirks, at' \in Unsent \cup Posted \/ CheckSweep'
        PROVE  /\ pos' = Held' /\ shown' \in {0, filled'[1]}
               /\ at' \in {"modify", "verify"} => filled'[1] = Qty
    <3>1. at \in Unsent \cup Posted \/ CheckSweep
      BY <2>4 DEF Allowed, Unsent
    <3>2. /\ pos = Held /\ shown \in {0, filled[1]}
          /\ at \in {"modify", "verify"} => filled[1] = Qty
      BY <1>1, <2>4, <3>1 DEF First, CheckSweep
    <3>3. pos' = pos
      BY <2>4 DEF Unsent, Posted, CheckSweep, Sweep
    <3>4. Shown = Qty => filled[1] = Qty
      BY <3>2, Products DEF Shown, Held
    <3> QED
      BY <2>3, <3>2, <3>3, <3>4 DEF Allowed
  <2> QED
    BY <2>1, <2>4 DEF First, CheckSweep
<1>8. ASSUME Plain PROVE Misses'
  <2>1. Misses /\ Shown = pos
    BY <1>1, <1>8 DEF Plain, Shown
  <2>2. wire' = {} /\ LiveParent'
    BY <1>2, <2>1, OrderFacts DEF Misses, LiveParent, NoneLive
  <2>3. at' \in Unsent \cup Looking \/ CheckSweep' => pos' = 0
    <3>1. ASSUME at' \in Unsent \cup Looking \/ CheckSweep' PROVE pos = 0
      BY <2>1, <3>1 DEF Allowed, Misses, CheckSweep
    <3> QED
      BY <3>1
  <2>4. at' \in Looking => NoOrders(entry)'
    <3>1. ASSUME at' \in Looking PROVE NoOrders(entry) /\ entry \in Entries
      <4>1. at \in Looking \/ (at = "look" /\ orders[Parent(entry)] = "none")
        BY <3>1 DEF Allowed
      <4>2. entry \in Entries
        BY <1>1, <1>5, <4>1 DEF Unposted, Posted, Looking
      <4> QED
        BY <1>1, <2>1, <4>1, <4>2 DEF Misses, Lives
    <3> QED
      BY <1>2, <3>1
  <2>a. at \in Posted \cup Unsent \/ UnfilledSweep => entry \in Entries
    BY <1>1, <1>5 DEF Unposted, UnfilledSweep
  <2>5. ASSUME at' = "look", orders'[Parent(entry)] = "none" PROVE pos' = 0
    <3>1. at \in {"look", "post"} /\ pos' = pos
      BY <2>5 DEF Allowed
    <3>2. entry \in Entries
      BY <2>a, <3>1 DEF Posted, Unsent
    <3>3. orders[Parent(entry)] = "none"
      BY <1>2, <2>5, <3>2, OrderFacts
    <3> QED
      BY <2>1, <3>1, <3>3 DEF Misses, Unsent
  <2>6. at' = "readPos" /\ m'.status = "dead" => orders'[Parent(entry)] # "live"
    BY DEF Allowed
  <2>7. ASSUME UnfilledSweep' PROVE pos' = 0 /\ orders'[Parent(entry)] # "live"
    <3>1. pos' = pos
      BY <2>7 DEF UnfilledSweep, Sweep
    <3>2. UnfilledSweep \/ (at = "readPos" /\ m.status = "dead" /\ Shown = 0)
      BY <2>7 DEF Allowed
    <3>3. pos = 0 /\ orders[Parent(entry)] # "live"
      BY <2>1, <3>2 DEF Misses, UnfilledSweep
    <3>4. entry \in Entries
      BY <2>a, <3>2 DEF Posted
    <3> QED
      BY <1>2, <3>1, <3>3, <3>4, OrderFacts
  <2>8. ASSUME ack' \in {"missed", "refused"}
        PROVE  at' = "idle" /\ pos' = 0 /\ \A o \in Live' : o[1] # entry
    <3>1. at' = "idle" /\ pos' = pos
      BY <2>8 DEF Allowed
    <3>2. CASE at \in Unsent \cup Looking
      <4>1. entry \in Entries
        BY <2>a, <3>2 DEF Posted, Looking
      <4>2. pos = 0 /\ NoOrders(entry)
        BY <1>1, <2>1, <3>2 DEF Misses, Unposted
      <4>3. NoOrders(entry)'
        BY <1>2, <4>1, <4>2
      <4> QED
        BY <3>1, <4>2, <4>3 DEF NoOrders, Live
    <3>3. CASE UnfilledSweep /\ Live = {}
      BY <1>3, <2>1, <3>1, <3>3 DEF Misses, UnfilledSweep
    <3> QED
      BY <2>8, <3>2, <3>3 DEF Allowed
  <2> QED
    BY <2>2, <2>3, <2>4, <2>5, <2>6, <2>7, <2>8 DEF Misses, CheckSweep, UnfilledSweep
<1>9. ASSUME quirks = {} PROVE Proper'
  <2>1. Proper /\ Shown = pos /\ Misses
    BY <1>1, <1>9 DEF Shown, Plain
  <2>2. Sweep' => pos' = 0
    BY <2>1 DEF Allowed, Proper, Misses, Unsent
  <2>3. at' \in {"post"} \cup Posted => \A o \in Live' : o[1] = entry
    <3>1. at' \in {"post"} \cup Posted => at \in {"post"} \cup Posted \/ Live = {}
      BY DEF Allowed
    <3> QED
      BY <1>3, <2>1, <3>1 DEF Proper
  <2>4. ASSUME at' \in {"modify", "verify"}, \A k \in Kids(entry) : orders'[k] = "live"
        PROVE  pos' = Qty
    <3>1. pos' = pos /\ at \in Posted
      BY <2>4 DEF Allowed, Posted
    <3>2. entry \in Entries
      BY <1>1, <1>5, <3>1 DEF Unposted
    <3>3. \A k \in Kids(entry) : orders[k] = "live"
      BY <1>2, <2>4, <3>2, OrderFacts
    <3> QED
      BY <2>1, <2>4, <3>1, <3>3 DEF Allowed, Proper
  <2> QED
    BY <2>2, <2>3, <2>4 DEF Proper
<1>10. (Plain' => Plain) /\ (quirks' = quirks) /\ Types'
  BY DEF Plain
<1>11. Answered'
  BY DEF Allowed, Answered
<1> QED
  BY <1>2, <1>4, <1>6, <1>7, <1>8, <1>9, <1>10, <1>11 DEF OInv

-----------------------------------------------------------------------------
(* The adapter's steps.                                                    *)

LEMMA LocalsTyped ==
  /\ Locals \in LocalsType /\ Locals.sweepFor = "sweep" /\ Locals.status = "unread"
  /\ \A x \in LocalsType :
       /\ \A n \in 0 .. Reads : [x EXCEPT !.tries = n] \in LocalsType
       /\ \A n \in 0 .. 3 : [x EXCEPT !.attempt = n] \in LocalsType
       /\ \A s \in {-1, 0, 1} : [x EXCEPT !.side = s] \in LocalsType
       /\ \A s \in States : [x EXCEPT !.status = s] \in LocalsType
       /\ \A s \in SUBSET Orders : [x EXCEPT !.todo = s] \in LocalsType
       /\ [x EXCEPT !.status = "unread"] \in LocalsType
       /\ [x EXCEPT !.readOk = TRUE] \in LocalsType
       /\ [x EXCEPT !.flipped = TRUE] \in LocalsType
       /\ \A w \in {"check", "unfilled", "flat", "sweep"} : [x EXCEPT !.sweepFor = w] \in LocalsType
<1>1. Reads \in Nat /\ Reads >= 3 /\ Reads >= MaxPolls
  BY OsoAssumption DEF Reads
<1>2. Locals \in LocalsType /\ Locals.sweepFor = "sweep" /\ Locals.status = "unread"
  BY <1>1 DEF Locals, LocalsType
<1>3. ASSUME NEW x \in LocalsType
      PROVE  /\ \A n \in 0 .. Reads : [x EXCEPT !.tries = n] \in LocalsType
             /\ \A n \in 0 .. 3 : [x EXCEPT !.attempt = n] \in LocalsType
             /\ \A s \in {-1, 0, 1} : [x EXCEPT !.side = s] \in LocalsType
             /\ \A s \in States : [x EXCEPT !.status = s] \in LocalsType
  BY DEF LocalsType
<1>4. ASSUME NEW x \in LocalsType
      PROVE  /\ \A s \in SUBSET Orders : [x EXCEPT !.todo = s] \in LocalsType
             /\ [x EXCEPT !.status = "unread"] \in LocalsType
             /\ [x EXCEPT !.readOk = TRUE] \in LocalsType
             /\ [x EXCEPT !.flipped = TRUE] \in LocalsType
             /\ \A w \in {"check", "unfilled", "flat", "sweep"} :
                  [x EXCEPT !.sweepFor = w] \in LocalsType
  BY DEF LocalsType
<1> QED
  BY <1>2, <1>3, <1>4

\* Another read is one more, and there is an end to them.
LEMMA RetryTyped ==
  ASSUME Types, Again(1) \/ Again(MaxPolls) \/ Again(3) \/ Again(2)
  PROVE  /\ [m EXCEPT !.tries = @ + 1] \in LocalsType
         /\ [m EXCEPT !.tries = @ + 1].sweepFor = m.sweepFor
         /\ [m EXCEPT !.tries = @ + 1].status = m.status
         /\ [m EXCEPT !.tries = @ + 1].todo = m.todo
<1> DEFINE n == m.tries + 1
<1>1. m \in LocalsType /\ m.tries \in Nat
  BY DEF Types, LocalsType
<1>2. n \in 0 .. Reads
  BY <1>1, OsoAssumption DEF Again, Reads
<1>3. [m EXCEPT !.tries = @ + 1] = [m EXCEPT !.tries = n]
  OBVIOUS
<1> HIDE DEF n
<1> DEFINE x == [m EXCEPT !.tries = n]
<1>4. x \in LocalsType
  BY <1>1, <1>2, LocalsTyped
<1>5. x.sweepFor = m.sweepFor /\ x.status = m.status /\ x.todo = m.todo
  BY <1>1 DEF LocalsType
<1> QED
  BY <1>3, <1>4, <1>5

LEMMA SweepLocals ==
  ASSUME Types, NEW w \in {"check", "unfilled", "flat", "sweep"}
  PROVE  LET x == [m EXCEPT !.tries = 0, !.sweepFor = w]
         IN  x \in LocalsType /\ x.sweepFor = w
<1> DEFINE y == [m EXCEPT !.tries = 0]
           x == [m EXCEPT !.tries = 0, !.sweepFor = w]
<1>1. m \in LocalsType /\ 0 \in 0 .. Reads
  BY OsoAssumption DEF Types, Reads
<1>2. y \in LocalsType /\ x = [y EXCEPT !.sweepFor = w]
  BY <1>1, LocalsTyped
<1> HIDE DEF y
<1>3. [y EXCEPT !.sweepFor = w] \in LocalsType
  BY <1>2, LocalsTyped
<1>4. [y EXCEPT !.sweepFor = w].sweepFor = w
  BY <1>2 DEF LocalsType
<1> QED
  BY <1>2, <1>3, <1>4

\* A step of the adapter that leaves the exchange alone.
LEMMA QuietKeeps ==
  ASSUME OInv, UNCHANGED <<orders, filled, pos, shown, wire, quirks, entry>>,
         at' \in Calls, ack' \in Acks, m' \in LocalsType, faults' \in 0 .. MaxFaults,
         quirks = {} => NoneLive, Allowed
  PROVE  OInv'
<1>1. Types /\ Types'
  BY DEF OInv, Types
<1>2. Shrinks
  BY <1>1, StaysShrunk
<1> QED
  BY <1>1, <1>2, CalmKeeps

LEMMA Calling ==
  ASSUME NEW c, At(c)
  PROVE  at = c /\ (quirks = {} => NoneLive)
  BY DEF At, NoneLive

LEMMA FaultTyped ==
  ASSUME Types, Fault \/ NoFault
  PROVE  faults' \in 0 .. MaxFaults
  BY OsoAssumption DEF Types, Fault, NoFault

LEMMA Framed ==
  ASSUME UNCHANGED <<exchange, fixed>>
  PROVE  UNCHANGED <<orders, filled, pos, shown, wire, quirks, entry>>
  BY DEF exchange, fixed

\* The reads before an entry is sent.
LEMMA ChecksKeep ==
  ASSUME OInv, CheckPos \/ CheckOrders
  PROVE  OInv'
<1>1. Types /\ ack = "none"
  BY Calling DEF OInv, Answered, CheckPos, CheckOrders
<1>2. /\ UNCHANGED <<exchange, fixed>> /\ faults' \in 0 .. MaxFaults /\ at \in Unsent
      /\ quirks = {} => NoneLive
  BY <1>1, FaultTyped, Calling DEF CheckPos, CheckOrders, Unsent
<1>3. \/ ack' \in {"notFlat", "missed"} /\ at' = "idle" /\ m' = Locals
      \/ at' = "checkOrders" /\ m' = m /\ ack' = ack /\ at = "checkPos"
      \/ at' = "sweepRead" /\ m' = [m EXCEPT !.tries = 0, !.sweepFor = "check"] /\ ack' = ack
         /\ at = "checkOrders"
      \/ at' = "post" /\ m' = m /\ ack' = ack /\ Live = {}
  BY Calling DEF CheckPos, CheckOrders, Go, Done, Sweeping
<1>4. at' \in Calls /\ ack' \in Acks
  BY <1>1, <1>3 DEF Calls, Acks
<1> DEFINE x == [m EXCEPT !.tries = 0, !.sweepFor = "check"]
<1>5. x \in LocalsType /\ x.sweepFor = "check"
  BY <1>1, SweepLocals
<1>6. m' \in LocalsType /\ (at' = "sweepRead" => m'.sweepFor = "check")
  BY <1>1, <1>3, <1>5, LocalsTyped DEF Types
<1> HIDE DEF x
<1>7. Allowed
  BY <1>1, <1>2, <1>3, <1>6
     DEF Allowed, Unsent, Posted, Looking, CheckSweep, UnfilledSweep, Sweep
<1> QED
  BY <1>2, <1>4, <1>6, <1>7, Framed, QuietKeeps

\* Looking for an order after a POST that timed out.
LEMMA LooksKeep ==
  ASSUME OInv, Look \/ LookPos \/ LookOrders
  PROVE  OInv'
<1>1. Types /\ ack = "none"
  BY Calling DEF OInv, Answered, Look, LookPos, LookOrders
<1>2. /\ UNCHANGED <<exchange, fixed>> /\ faults' \in 0 .. MaxFaults
      /\ at \in Looking \cup {"look"}
      /\ quirks = {} => NoneLive
  BY <1>1, FaultTyped, Calling DEF Look, LookPos, LookOrders, Looking
<1>3. \/ ack' = "missed" /\ at' = "idle" /\ m' = Locals /\ at = "lookOrders"
      \/ at' = "flatFirst" /\ m' = Locals /\ ack' = ack
      \/ at' = "status" /\ m' = Locals /\ ack' = ack
      \/ at' = "look" /\ at = "look" /\ Again(1) /\ m' = [m EXCEPT !.tries = @ + 1] /\ ack' = ack
      \/ at' = "lookPos" /\ m' = Locals /\ ack' = ack /\ at = "look" /\ orders[Parent(entry)] = "none"
      \/ at' = "lookOrders" /\ m' = m /\ ack' = ack /\ at = "lookPos"
  BY Calling DEF Look, LookPos, LookOrders, Go, Done, Flattening, Retry
<1>4. at' \in Calls /\ ack' \in Acks
  BY <1>1, <1>3 DEF Calls, Acks
<1>5. m' \in LocalsType
  BY <1>1, <1>3, RetryTyped, LocalsTyped DEF Types
<1>6. Allowed
  BY <1>1, <1>2, <1>3 DEF Allowed, Unsent, Posted, Looking, CheckSweep, UnfilledSweep, Sweep
<1> QED
  BY <1>2, <1>4, <1>5, <1>6, Framed, QuietKeeps

LEMMA EntrySent ==
  ASSUME OInv, at \in Posted \cup Unsent
  PROVE  entry \in Entries
  BY OsoAssumption DEF OInv, Types, Unposted, Entries

\* Polling the parent.
LEMMA StatusKeeps ==
  ASSUME OInv, Status
  PROVE  OInv'
<1>1. Types /\ ack = "none" /\ at = "status" /\ entry \in Entries
  BY Calling, EntrySent DEF OInv, Answered, Status, Posted
<1>2. /\ UNCHANGED <<exchange, fixed>> /\ faults' \in 0 .. MaxFaults
      /\ quirks = {} => NoneLive
  BY <1>1, FaultTyped, Calling DEF Status
<1> DEFINE read(s) == [m EXCEPT !.status = s, !.tries = 0]
           s0 == orders[Parent(entry)]
<1>3. \/ at' = "readPos" /\ m' = read(s0) /\ s0 # "live" /\ ack' = ack
      \/ at' = "status" /\ Again(MaxPolls) /\ m' = [m EXCEPT !.tries = @ + 1] /\ ack' = ack
      \/ at' = "cancelParent" /\ m' \in {read("live"), read("unread")} /\ ack' = ack
  BY <1>1 DEF Status, Go, Retry
<1>4. at' \in Calls /\ ack' \in Acks
  BY <1>1, <1>3 DEF Calls, Acks
<1>5. \A s \in States \cup {"unread"} : read(s) \in LocalsType
  <2> SUFFICES ASSUME NEW s \in States \cup {"unread"} PROVE read(s) \in LocalsType
    OBVIOUS
  <2> DEFINE y == [m EXCEPT !.status = s]
  <2>1. m \in LocalsType /\ 0 \in 0 .. Reads
    BY <1>1, OsoAssumption DEF Types, Reads
  <2>2. y \in LocalsType
    BY <2>1, LocalsTyped
  <2>3. read(s) = [y EXCEPT !.tries = 0]
    OBVIOUS
  <2> HIDE DEF y
  <2> QED
    BY <2>1, <2>2, <2>3, LocalsTyped
<1>6. s0 \in States /\ "live" \in States
  BY <1>1, OrderFacts DEF Types, States
<1> HIDE DEF read
<1>7. m' \in LocalsType
  BY <1>1, <1>3, <1>5, <1>6, RetryTyped
<1>8. at' = "readPos" => orders'[Parent(entry)] # "live"
  BY <1>2, <1>3 DEF exchange
<1>9. UNCHANGED entry /\ ack' = "none" /\ at' \in {"readPos", "status", "cancelParent"}
  BY <1>1, <1>2, <1>3 DEF fixed
<1>10. Allowed
  BY <1>1, <1>8, <1>9 DEF Allowed, Unsent, Posted, Looking, CheckSweep, UnfilledSweep, Sweep
<1> QED
  BY <1>2, <1>4, <1>7, <1>10, Framed, QuietKeeps

\* The position decides.
LEMMA ReadPosKeeps ==
  ASSUME OInv, ReadPos
  PROVE  OInv'
<1>1. Types /\ ack = "none" /\ at = "readPos" /\ entry \in Entries /\ Qty # 0
  BY Calling, EntrySent, OsoAssumption DEF OInv, Answered, ReadPos, Posted
<1>2. /\ UNCHANGED <<exchange, fixed>> /\ faults' \in 0 .. MaxFaults
      /\ quirks = {} => NoneLive
  BY <1>1, FaultTyped, Calling DEF ReadPos
<1> DEFINE x == [m EXCEPT !.tries = 0, !.sweepFor = "unfilled"]
<1>3. \/ /\ at' = "readPos" /\ Again(3) /\ m' = [m EXCEPT !.tries = @ + 1] /\ ack' = ack
         /\ m.status = "filled"
      \/ at' = "sweepRead" /\ m' = x /\ ack' = ack /\ m.status = "dead" /\ Shown = 0
      \/ at' = "idle" /\ m' = Locals /\ ack' = "ambiguous"
      \/ at' = "modify" /\ m' = Locals /\ ack' = ack /\ Shown = Qty
      \/ at' = "flatFirst" /\ m' = Locals /\ ack' = ack
  BY <1>1 DEF ReadPos, Go, Retry, Done, Sweeping, Flattening
<1>4. at' \in Calls /\ ack' \in Acks
  BY <1>1, <1>3 DEF Calls, Acks
<1>5. x \in LocalsType /\ x.sweepFor = "unfilled"
  BY <1>1, SweepLocals
<1> HIDE DEF x
<1>6. m' \in LocalsType /\ (at' = "sweepRead" => m'.sweepFor = "unfilled")
      /\ (at' = "readPos" => m'.status = "filled")
  BY <1>1, <1>3, <1>5, RetryTyped, LocalsTyped
<1>7. Allowed
  BY <1>1, <1>3, <1>6 DEF Allowed, Unsent, Posted, Looking, CheckSweep, UnfilledSweep, Sweep
<1> QED
  BY <1>2, <1>4, <1>6, <1>7, Framed, QuietKeeps

\* Are both children live?
LEMMA VerifyKeeps ==
  ASSUME OInv, Verify
  PROVE  OInv'
<1>1. Types /\ ack = "none" /\ at = "verify"
  BY Calling DEF OInv, Answered, Verify
<1>2. /\ UNCHANGED <<exchange, fixed>> /\ faults' \in 0 .. MaxFaults
      /\ quirks = {} => NoneLive
  BY <1>1, FaultTyped, Calling DEF Verify
<1> DEFINE y == [m EXCEPT !.tries = @ + 1]
<1>3. \/ ack' \in {"ok", "unverified"} /\ at' = "idle" /\ m' = Locals
      \/ /\ at' = "verify" /\ Again(MaxPolls) /\ ack' = ack
         /\ m' = y \/ m' = [m EXCEPT !.tries = @ + 1, !.readOk = TRUE]
      \/ at' = "flatFirst" /\ m' = Locals /\ ack' = ack
  BY <1>1 DEF Verify, Go, Retry, Done, Flattening
<1>4. at' \in Calls /\ ack' \in Acks
  BY <1>1, <1>3 DEF Calls, Acks
<1>5. [m EXCEPT !.tries = @ + 1, !.readOk = TRUE] = [y EXCEPT !.readOk = TRUE]
  OBVIOUS
<1>6. Again(MaxPolls) => y \in LocalsType
  BY <1>1, RetryTyped
<1> HIDE DEF y
<1>7. m' \in LocalsType
  BY <1>3, <1>5, <1>6, LocalsTyped
<1>8. Allowed
  BY <1>1, <1>3 DEF Allowed, Unsent, Posted, Looking, CheckSweep, UnfilledSweep, Sweep
<1> QED
  BY <1>2, <1>4, <1>7, <1>8, Framed, QuietKeeps

\* The calls that start a flatten or a sweep.
LEMMA CallsKeep ==
  ASSUME OInv, FlattenCall \/ SweepCall
  PROVE  OInv'
<1>1. Types /\ at = "idle" /\ UNCHANGED <<quirks, exchange, entry>> /\ ack' = "none" /\ m' = Locals
  BY DEF OInv, FlattenCall, SweepCall
<1>2. faults' \in 0 .. MaxFaults
  BY <1>1, FaultTyped DEF FlattenCall, SweepCall
<1>3. quirks = {} => NoneLive
  <2>1. quirks = {} => Plain /\ LiveParent
    BY DEF OInv, Plain, Misses
  <2> QED
    BY <1>1, <2>1 DEF LiveParent, NoneLive
<1>4. \/ at' = "flatFirst"
      \/ at' = "sweepRead" /\ Shown = 0
  BY DEF FlattenCall, SweepCall
<1>5. at' \in Calls /\ ack' \in Acks /\ m' \in LocalsType /\ m'.sweepFor = "sweep"
  BY <1>1, <1>4, LocalsTyped DEF Calls, Acks
<1>6. Allowed
  BY <1>1, <1>4, <1>5 DEF Allowed, Unsent, Posted, Looking, CheckSweep, UnfilledSweep, Sweep
<1>7. UNCHANGED <<orders, filled, pos, shown, wire, quirks, entry>>
  BY <1>1 DEF exchange
<1> QED
  BY <1>2, <1>3, <1>5, <1>6, <1>7, QuietKeeps

\* flatten's reads.
LEMMA FlatReadsKeep ==
  ASSUME OInv, FlatFirst \/ LiqRead \/ FlatBack
  PROVE  OInv'
<1>1. Types /\ ack = "none" /\ at \in {"flatFirst", "liqRead", "flatBack"}
  BY Calling DEF OInv, Answered, FlatFirst, LiqRead, FlatBack
<1>2. /\ UNCHANGED <<exchange, fixed>> /\ faults' \in 0 .. MaxFaults
      /\ quirks = {} => NoneLive
  BY <1>1, FaultTyped, Calling DEF FlatFirst, LiqRead, FlatBack
<1> DEFINE side == [m EXCEPT !.side = Sign(Shown), !.attempt = 1]
           next == [m EXCEPT !.attempt = @ + 1]
           flip == [m EXCEPT !.flipped = TRUE]
           swept == [m EXCEPT !.tries = 0, !.sweepFor = "flat"]
<1>3. \/ at' = "flatBack" /\ m' = m /\ ack' = ack
      \/ at' = "liquidate" /\ m' = side /\ ack' = ack
      \/ at' = "liqRead" /\ Again(MaxPolls) /\ m' = [m EXCEPT !.tries = @ + 1] /\ ack' = ack
      \/ at' = "liqFlip" /\ m' = flip /\ ack' = ack
      \/ at' = "liquidate" /\ m' = next /\ m.attempt < 3 /\ ack' = ack
      \/ at' = "sweepRead" /\ m' = swept /\ Shown = 0 /\ ack' = ack
      \/ at' = "idle" /\ ack' = "failed" /\ m' = Locals
  BY Calling DEF FlatFirst, LiqRead, FlatBack, Go, Retry, Done, Sweeping, ReadBackFlat
<1>4. at' \in Calls /\ ack' \in Acks
  BY <1>1, <1>3 DEF Calls, Acks
<1>5. swept \in LocalsType /\ swept.sweepFor = "flat"
  BY <1>1, SweepLocals
<1>6. m \in LocalsType /\ flip \in LocalsType
  BY <1>1, LocalsTyped DEF Types
<1>7. m.attempt < 3 => next \in LocalsType
  <2> DEFINE n == m.attempt + 1
  <2>1. m.attempt \in 0 .. 3
    BY <1>6 DEF LocalsType
  <2>2. m.attempt < 3 => n \in 0 .. 3
    BY <2>1
  <2>3. next = [m EXCEPT !.attempt = n]
    OBVIOUS
  <2> HIDE DEF n
  <2> QED
    BY <1>6, <2>2, <2>3, LocalsTyped
<1>8. side \in LocalsType
  <2> DEFINE y == [m EXCEPT !.side = Sign(Shown)]
  <2>1. Sign(Shown) \in {-1, 0, 1}
    BY DEF Sign
  <2>2. y \in LocalsType
    BY <1>6, <2>1, LocalsTyped
  <2>3. side = [y EXCEPT !.attempt = 1] /\ 1 \in 0 .. 3
    OBVIOUS
  <2> HIDE DEF y
  <2> QED
    BY <2>2, <2>3, LocalsTyped
<1> HIDE DEF side, next, flip, swept
<1>9. m' \in LocalsType /\ (at' = "sweepRead" => m'.sweepFor = "flat")
  BY <1>1, <1>3, <1>5, <1>6, <1>7, <1>8, RetryTyped, LocalsTyped
<1>10. Allowed
  BY <1>1, <1>3, <1>9 DEF Allowed, Unsent, Posted, Looking, CheckSweep, UnfilledSweep, Sweep
<1> QED
  BY <1>2, <1>4, <1>9, <1>10, Framed, QuietKeeps

\* What follows a sweep.
LEMMA EndsTyped ==
  ASSUME Types, NEW swept \in BOOLEAN, SweepEnds(swept)
  PROVE  /\ m' \in LocalsType /\ at' \in {"idle", "post"} /\ ack' \in Acks
         /\ ack' # "none" => at' = "idle" \/ ack' = ack
         /\ at' = "post" => swept /\ m.sweepFor = "check" /\ ack' = ack
         /\ ack' = "missed" => (swept /\ m.sweepFor = "unfilled") \/ ack' = ack
         /\ ack' = "refused" => ack' = ack
<1>1. m.sweepFor \in {"check", "unfilled", "flat", "sweep"} /\ ack \in Acks
  BY DEF Types, LocalsType
<1>2. \/ at' = "post" /\ m' = Locals /\ ack' = ack /\ swept /\ m.sweepFor = "check"
      \/ at' = "idle" /\ m' = Locals /\ ack' \in {"stale", "orphans", "flat", "failed", "swept"}
      \/ at' = "idle" /\ m' = Locals /\ ack' = "missed" /\ swept /\ m.sweepFor = "unfilled"
  BY <1>1 DEF SweepEnds, Go, Done
<1> QED
  BY <1>1, <1>2, LocalsTyped DEF Acks

LEMMA SweepReadsKeep ==
  ASSUME OInv, SweepRead \/ SweepCheck
  PROVE  OInv'
<1>a. at \in {"sweepRead", "sweepCheck"}
  BY DEF SweepRead, SweepCheck, At
<1>1. Types /\ ack = "none" /\ at \in {"sweepRead", "sweepCheck"} /\ m \in LocalsType
  BY <1>a DEF OInv, Answered, Types
<1>2. /\ UNCHANGED <<exchange, fixed>> /\ faults' \in 0 .. MaxFaults
      /\ quirks = {} => NoneLive
  BY <1>1, FaultTyped, Calling DEF SweepRead, SweepCheck
<1> DEFINE sweeps == [m EXCEPT !.todo = ToCancel]
<1>3. \/ at' = "sweepCheck" /\ m' = m /\ ack' = ack
      \/ at' = "sweepCancel" /\ m' = sweeps /\ ack' = ack
      \/ at' = "sweepCheck" /\ Again(2) /\ m' = [m EXCEPT !.tries = @ + 1] /\ ack' = ack
      \/ SweepEnds(TRUE) /\ Live = {}
      \/ SweepEnds(FALSE)
  BY Calling DEF SweepRead, SweepCheck, Go, Retry
<1>4. ToCancel \in SUBSET Orders
  BY DEF ToCancel, Live
<1>5. sweeps \in LocalsType
  BY <1>1, <1>4, LocalsTyped
<1>6. sweeps.sweepFor = m.sweepFor
  BY <1>1 DEF LocalsType
<1> HIDE DEF sweeps
<1>7. CASE /\ at' \in {"sweepCheck", "sweepCancel"} /\ ack' = ack
           /\ m' \in LocalsType /\ m'.sweepFor = m.sweepFor
  <2>1. at' \in Calls /\ ack' \in Acks
    BY <1>1, <1>7 DEF Calls, Acks
  <2>2. Allowed
    BY <1>1, <1>7 DEF Allowed, Unsent, Posted, Looking, CheckSweep, UnfilledSweep, Sweep
  <2> QED
    BY <1>2, <1>7, <2>1, <2>2, Framed, QuietKeeps
<1>8. ASSUME NEW swept \in BOOLEAN, SweepEnds(swept), swept => Live = {}
      PROVE  OInv'
  <2>1. /\ m' \in LocalsType /\ at' \in {"idle", "post"} /\ ack' \in Acks
        /\ ack' # "none" => at' = "idle"
        /\ at' = "post" => Live = {} /\ m.sweepFor = "check"
        /\ ack' = "missed" => Live = {} /\ m.sweepFor = "unfilled"
        /\ ack' # "refused"
    BY <1>1, <1>8, EndsTyped
  <2>2. at' \in Calls
    BY <2>1 DEF Calls
  <2>3. Allowed
    BY <1>1, <2>1 DEF Allowed, Unsent, Posted, Looking, CheckSweep, UnfilledSweep, Sweep
  <2> QED
    BY <1>2, <2>1, <2>2, <2>3, Framed, QuietKeeps
<1> QED
  BY <1>1, <1>3, <1>5, <1>6, <1>7, <1>8, RetryTyped

-----------------------------------------------------------------------------
(* The adapter's requests.                                                 *)

LEMMA CancelParentKeeps ==
  ASSUME OInv, CancelParent
  PROVE  OInv'
<1>1. Types /\ Lives /\ ack = "none" /\ at = "cancelParent" /\ entry \in Entries
  BY Calling, EntrySent DEF OInv, Answered, CancelParent, Posted
<1>2. /\ UNCHANGED <<filled, pos, shown, wire, fixed>> /\ faults' \in 0 .. MaxFaults
      /\ quirks = {} => NoneLive
  BY <1>1, FaultTyped, Calling DEF CancelParent
<1>3. \/ Cancel(Parent(entry)) /\ at' = "readPos" /\ m' = m /\ ack' = ack
      \/ at' = "flatFirst" /\ m' = Locals /\ ack' = ack /\ (Cancel(Parent(entry)) \/ UNCHANGED orders)
  BY DEF CancelParent, Go, Flattening
<1>4. Shrinks /\ (at' = "readPos" => orders'[Parent(entry)] # "live")
  BY <1>1, <1>3, CancelShrinks, StaysShrunk, OrderFacts
<1>5. UNCHANGED <<filled, pos, shown, wire, quirks, entry>>
  BY <1>2 DEF fixed
<1>6. at' \in Calls /\ ack' \in Acks /\ m' \in LocalsType
  BY <1>1, <1>3, LocalsTyped DEF Calls, Acks, Types
<1>7. Types'
  BY <1>1, <1>2, <1>4, <1>5, <1>6 DEF Types, Shrinks
<1>8. Allowed
  BY <1>1, <1>3, <1>4, <1>5 DEF Allowed, Unsent, Posted, Looking, CheckSweep, UnfilledSweep, Sweep
<1> QED
  BY <1>2, <1>4, <1>5, <1>7, <1>8, CalmKeeps

\* Modifying the children.
LEMMA ModifyKeeps ==
  ASSUME OInv, Modify
  PROVE  OInv'
<1>1. Types /\ Lives /\ ack = "none" /\ at = "modify" /\ entry \in Entries
  BY Calling, EntrySent DEF OInv, Answered, Modify, Posted
<1>2. /\ UNCHANGED <<filled, pos, shown, wire, fixed>> /\ faults' \in 0 .. MaxFaults
      /\ quirks = {} => NoneLive
  BY <1>1, FaultTyped, Calling DEF Modify
<1>3. at' = "verify" /\ m' = m /\ ack' = ack
  BY DEF Modify, Go
<1>4. Shrinks
  <2>1. UNCHANGED orders \/ \E k \in Kids(entry) : Cancel(k)
    BY DEF Modify
  <2>2. ASSUME NEW k \in Kids(entry), Cancel(k) PROVE Shrinks
    BY <1>1, <2>2, CancelShrinks, OrderFacts
  <2> QED
    BY <1>1, <2>1, <2>2, StaysShrunk
<1>5. UNCHANGED <<filled, pos, shown, wire, quirks, entry>>
  BY <1>2 DEF fixed
<1>6. Types'
  BY <1>1, <1>2, <1>3, <1>4, <1>5 DEF Types, Shrinks, Calls
<1>7. Allowed
  BY <1>1, <1>3 DEF Allowed, Unsent, Posted, Looking, CheckSweep, UnfilledSweep, Sweep
<1> QED
  BY <1>2, <1>4, <1>5, <1>6, <1>7, CalmKeeps

\* Liquidating the position.
LEMMA LiquidatesKeep ==
  ASSUME OInv, Liquidate \/ LiqFlip
  PROVE  OInv'
<1>1. Types /\ ack = "none" /\ at \in {"liquidate", "liqFlip"} /\ m \in LocalsType
  BY Calling DEF OInv, Answered, Liquidate, LiqFlip, Types
<1>2. /\ UNCHANGED <<orders, filled, shown, wire, fixed>> /\ faults' \in 0 .. MaxFaults
      /\ quirks = {} => NoneLive
  BY <1>1, FaultTyped, Calling DEF Liquidate, LiqFlip
<1>3. /\ pos' \in {0, pos} /\ at' \in {"liqRead", "flatBack"} /\ ack' = ack
      /\ m' \in {m, [m EXCEPT !.tries = 0], [m EXCEPT !.tries = MaxPolls]}
  BY DEF Liquidate, LiqFlip, Go
<1>4. UNCHANGED <<orders, filled, shown, wire, quirks, entry>>
  BY <1>2 DEF fixed
<1>5. 0 \in 0 .. Reads /\ MaxPolls \in 0 .. Reads
  BY OsoAssumption DEF Reads
<1>6. m' \in LocalsType
  <2>1. [m EXCEPT !.tries = 0] \in LocalsType
    BY <1>1, <1>5, LocalsTyped
  <2>2. [m EXCEPT !.tries = MaxPolls] \in LocalsType
    BY <1>1, <1>5, LocalsTyped
  <2> QED
    BY <1>1, <1>3, <2>1, <2>2
<1>7. at' \in Calls /\ ack' \in Acks /\ pos' \in Int
  BY <1>1, <1>3 DEF Types, Calls, Acks
<1>8. Types'
  BY <1>1, <1>2, <1>4, <1>6, <1>7 DEF Types
<1>9. Allowed
  BY <1>1, <1>3 DEF Allowed, Unsent, Posted, Looking, CheckSweep, UnfilledSweep, Sweep
<1>10. Shrinks
  BY <1>1, <1>4, StaysShrunk
<1> QED
  BY <1>2, <1>3, <1>4, <1>8, <1>9, <1>10, CalmKeeps

\* Cancelling what a sweep found.
LEMMA SweepCancelKeeps ==
  ASSUME OInv, SweepCancel
  PROVE  OInv'
<1>1. Types /\ Lives /\ ack = "none" /\ at = "sweepCancel" /\ m \in LocalsType /\ m.todo \subseteq Orders
  BY Calling DEF OInv, Answered, SweepCancel, Types, LocalsType
<1>2. UNCHANGED <<filled, pos, shown, wire, quirks, entry>>
  BY DEF SweepCancel, fixed
<1>3. quirks = {} => NoneLive
  BY Calling DEF SweepCancel
<1>4. PICK o \in m.todo :
        LET rest == [m EXCEPT !.todo = @ \ {o}]
            next == Go(IF rest.todo = {} THEN "sweepCheck" ELSE at, rest)
        IN \/ NoFault /\ Cancel(o) /\ next
           \/ Fault /\ (Cancel(o) \/ UNCHANGED orders) /\ next
           \/ Fault /\ UNCHANGED orders /\ SweepEnds(FALSE)
  BY DEF SweepCancel
<1> DEFINE left == m.todo \ {o}
           rest == [m EXCEPT !.todo = left]
<1>5. \/ at' \in {"sweepCheck", "sweepCancel"} /\ m' = rest /\ ack' = ack
      \/ SweepEnds(FALSE)
  BY <1>1, <1>4 DEF Go
<1>6. Shrinks /\ faults' \in 0 .. MaxFaults
  <2>1. Cancel(o) \/ UNCHANGED orders
    BY <1>4
  <2>2. Fault \/ NoFault
    BY <1>4
  <2>3. o \in Orders
    BY <1>1
  <2> QED
    BY <1>1, <2>1, <2>2, <2>3, CancelShrinks, StaysShrunk, FaultTyped
<1>7. left \in SUBSET Orders
  BY <1>1
<1> HIDE DEF left
<1>8. rest \in LocalsType
  BY <1>1, <1>7, LocalsTyped
<1>9. rest.sweepFor = m.sweepFor
  BY <1>1 DEF LocalsType
<1> HIDE DEF rest
<1>10. CASE at' \in {"sweepCheck", "sweepCancel"} /\ m' = rest /\ ack' = ack
  <2>1. at' \in Calls /\ ack' \in Acks /\ m' \in LocalsType
    BY <1>1, <1>8, <1>10 DEF Calls, Acks
  <2>2. Types'
    BY <1>1, <1>2, <1>6, <2>1 DEF Types, Shrinks
  <2>3. Allowed
    BY <1>1, <1>9, <1>10 DEF Allowed, Unsent, Posted, Looking, CheckSweep, UnfilledSweep, Sweep
  <2> QED
    BY <1>2, <1>3, <1>6, <2>2, <2>3, CalmKeeps
<1>11. CASE SweepEnds(FALSE)
  <2>1. /\ m' \in LocalsType /\ at' = "idle" /\ ack' \in Acks
        /\ ack' \notin {"missed", "refused"}
    BY <1>1, <1>11, EndsTyped
  <2>2. Types'
    BY <1>1, <1>2, <1>6, <2>1 DEF Types, Shrinks, Calls
  <2>3. Allowed
    BY <1>1, <2>1 DEF Allowed, Unsent, Posted, Looking, CheckSweep, UnfilledSweep, Sweep
  <2> QED
    BY <1>2, <1>3, <1>6, <2>2, <2>3, CalmKeeps
<1> QED
  BY <1>5, <1>10, <1>11

\* An entry's orders come to life.
LEMMA PlaceKeeps ==
  ASSUME Types, Ahead, Lives, Bounded, NEW e \in Entries, NoOrders(e), ~(e > entry), Place(e),
         wire' = wire \ {e}, UNCHANGED <<filled, pos, shown, entry>>
  PROVE  /\ orders' \in [Orders -> States] /\ Ahead' /\ Lives' /\ Bounded' /\ Held' = Held
         /\ \A f \in Entries : f # e /\ NoOrders(f) => NoOrders(f)'
         /\ \A o \in Orders : orders'[o] = "live" => o[1] = e \/ orders[o] = "live"
         /\ orders'[Parent(e)] = "live"
<1>1. /\ orders' = [o \in Orders |-> IF o[1] = e THEN "live" ELSE orders[o]]
      /\ orders \in [Orders -> States] /\ "live" \in States
  BY DEF Place, Types, States
<1>2. /\ \A o \in Orders : orders'[o] = IF o[1] = e THEN "live" ELSE orders[o]
      /\ orders' \in [Orders -> States]
  BY <1>1
<1>3. /\ \A f \in Entries : f # e /\ NoOrders(f) => NoOrders(f)'
      /\ \A o \in Orders : orders'[o] = "live" => o[1] = e \/ orders[o] = "live"
      /\ orders'[Parent(e)] = "live" /\ \A k \in Kids(e) : orders'[k] = "live"
  BY <1>2, OrderFacts DEF NoOrders
<1>4. Ahead'
  BY <1>3 DEF Ahead
<1>5. orders[Parent(e)] = "none" /\ \A k \in Kids(e) : orders[k] = "none"
  BY Nothing
<1>6. ASSUME NEW f \in Entries, f # e
      PROVE  orders'[Parent(f)] = orders[Parent(f)] /\ \A k \in Kids(f) : orders'[k] = orders[k]
  BY <1>2, <1>6, OrderFacts
<1>7. Lives'
  <2> SUFFICES ASSUME NEW f \in Entries
               PROVE  /\ f \in wire' \/ orders'[Parent(f)] = "none" => NoOrders(f)'
                      /\ orders'[Parent(f)] \in {"none", "live"} =>
                           filled[f] = 0 /\ \A k \in Kids(f) : orders'[k] # "filled"
                      /\ \A k, l \in Kids(f) : orders'[k] = "filled" /\ k # l =>
                           orders'[l] \notin {"live", "filled"}
    BY DEF Lives
  <2>1. CASE f = e
    BY <1>3, <1>5, <2>1 DEF Lives
  <2>2. CASE f # e
    BY <1>3, <1>6, <2>2 DEF Lives
  <2> QED
    BY <2>1, <2>2
<1>8. Matched' = Matched /\ Exited' = Exited
  <2>1. ASSUME NEW f \in Entries
        PROVE  /\ (orders'[Parent(f)] \in {"filled", "dead"}) <=> (orders[Parent(f)] \in {"filled", "dead"})
               /\ (\E k \in Kids(f) : orders'[k] = "filled") <=> (\E k \in Kids(f) : orders[k] = "filled")
    BY <1>3, <1>5, <1>6
  <2> QED
    BY <2>1 DEF Matched, Exited
<1>9. Bounded'
  BY <1>8 DEF Bounded
<1>10. Held' = Held
  <2>1. 1 \in Entries
    BY OsoAssumption DEF Entries
  <2>2. (\E k \in Kids(1) : orders'[k] = "filled") <=> (\E k \in Kids(1) : orders[k] = "filled")
    BY <1>8, <2>1 DEF Exited
  <2> QED
    BY <2>2 DEF Held
<1> QED
  BY <1>2, <1>3, <1>4, <1>7, <1>9, <1>10

\* A POST whose order is placed.
LEMMA PlacedKeeps ==
  ASSUME OInv, at = "post", UNCHANGED <<filled, pos, shown, wire, quirks, entry>>, Place(entry),
         at' \in {"status", "look"}, ack' = "none", m' \in LocalsType, faults' \in 0 .. MaxFaults
  PROVE  OInv'
<1>1. /\ Types /\ Ahead /\ Lives /\ Unposted /\ Bounded /\ First
      /\ (Plain => Misses) /\ (quirks = {} => Proper)
  BY DEF OInv
<1>2. entry \in Entries /\ NoOrders(entry) /\ entry \notin wire /\ ~(entry > entry)
  BY <1>1, EntrySent DEF Unposted, Unsent, Types, Entries
<1>3. wire' = wire \ {entry}
  BY <1>2
<1>4. /\ orders' \in [Orders -> States] /\ Ahead' /\ Lives' /\ Bounded' /\ Held' = Held
      /\ \A o \in Orders : orders'[o] = "live" => o[1] = entry \/ orders[o] = "live"
      /\ orders'[Parent(entry)] = "live"
  BY <1>1, <1>2, <1>3, PlaceKeeps
<1>5. Types' /\ Answered'
  BY <1>1, <1>4 DEF Types, Answered, Calls, Acks
<1>6. Unposted'
  BY <1>1 DEF Unposted, Unsent, Posted, Sweep
<1>7. First'
  BY <1>1, <1>4 DEF First, Unsent, Posted
<1>8. ASSUME Plain PROVE Misses'
  <2>1. Misses
    BY <1>1, <1>8
  <2>2. LiveParent'
    <3> SUFFICES ASSUME NEW e \in Entries, orders'[Parent(e)] = "live"
                 PROVE  e = entry
      BY DEF LiveParent
    <3> QED
      BY <1>4, <2>1, OrderFacts DEF Misses, LiveParent
  <2> QED
    BY <1>4, <2>1, <2>2 DEF Misses, Unsent, Looking, Sweep
<1>9. ASSUME quirks = {} PROVE Proper'
  BY <1>1, <1>4, <1>9 DEF Proper, Sweep, Live
<1> QED
  BY <1>4, <1>5, <1>6, <1>7, <1>8, <1>9 DEF OInv, Plain

LEMMA PostKeeps ==
  ASSUME OInv, Post
  PROVE  OInv'
<1>1. /\ Types /\ Ahead /\ Lives /\ Unposted /\ Bounded /\ First
      /\ ack = "none" /\ at = "post"
  BY Calling DEF OInv, Answered, Post
<1>2. /\ UNCHANGED <<filled, pos, shown, quirks, entry>> /\ faults' \in 0 .. MaxFaults
      /\ quirks = {} => NoneLive
  BY <1>1, FaultTyped, Calling DEF Post, fixed, Unknown
<1>3. \/ Place(entry) /\ at' = "status" /\ m' = m /\ ack' = ack /\ UNCHANGED wire
      \/ Place(entry) /\ at' = "look" /\ m' = Locals /\ ack' = ack /\ UNCHANGED wire
      \/ at' = "idle" /\ m' = Locals /\ ack' = "refused" /\ UNCHANGED <<orders, wire>>
      \/ at' = "look" /\ m' = Locals /\ ack' = ack /\ UNCHANGED <<orders, wire>>
      \/ /\ at' = "look" /\ m' = Locals /\ ack' = ack /\ UNCHANGED orders
         /\ "late" \in quirks /\ wire' = wire \cup {entry}
  BY DEF Post, Go, Done, Unknown
<1>4. m' \in LocalsType
  BY <1>1, <1>3, LocalsTyped DEF Types
<1>5. CASE Place(entry) /\ at' \in {"status", "look"} /\ ack' = "none" /\ UNCHANGED wire
  BY <1>1, <1>2, <1>4, <1>5, PlacedKeeps
<1>6. CASE /\ UNCHANGED <<orders, wire>>
           /\ \/ at' = "idle" /\ ack' = "refused"
              \/ at' = "look" /\ ack' = "none"
  <2>1. at' \in Calls /\ ack' \in Acks
    BY <1>6 DEF Calls, Acks
  <2>2. Allowed
    BY <1>1, <1>6 DEF Allowed, Unsent, Posted, Looking, CheckSweep, UnfilledSweep, Sweep
  <2> QED
    BY <1>2, <1>4, <1>6, <2>1, <2>2, QuietKeeps
<1>7. CASE /\ at' = "look" /\ ack' = "none" /\ UNCHANGED orders
           /\ "late" \in quirks /\ wire' = wire \cup {entry}
  <2>1. entry \in Entries /\ NoOrders(entry) /\ entry \in 0 .. MaxEntries
    BY <1>1, EntrySent DEF Unposted, Unsent, Types
  <2>2. Types'
    BY <1>1, <1>2, <1>4, <1>7, <2>1 DEF Types, Calls, Acks
  <2>3. ~(entry > entry) /\ UNCHANGED <<orders, entry>>
    BY <1>2, <1>7, <2>1
  <2>4. Ahead' /\ Lives'
    <3>1. Ahead'
      BY <1>1, <1>7, <2>3 DEF Ahead, NoOrders
    <3>2. Lives'
      BY <1>1, <1>2, <1>7, <2>1 DEF Lives, NoOrders
    <3> QED
      BY <3>1, <3>2
  <2>5. Unposted' /\ Answered' /\ Bounded'
    BY <1>1, <1>2, <1>7 DEF Unposted, Unsent, Posted, Sweep, Answered, Bounded, Matched, Exited
  <2>6. First'
    BY <1>1, <1>2, <1>7 DEF First, Held, Unsent, Posted, Sweep
  <2>7. ~Plain' /\ quirks' # {}
    BY <1>2, <1>7 DEF Plain
  <2> QED
    BY <2>2, <2>4, <2>5, <2>6, <2>7 DEF OInv
<1>8. \/ Place(entry) /\ at' \in {"status", "look"} /\ ack' = "none" /\ UNCHANGED wire
      \/ /\ UNCHANGED <<orders, wire>>
         /\ \/ at' = "idle" /\ ack' = "refused"
            \/ at' = "look" /\ ack' = "none"
      \/ /\ at' = "look" /\ ack' = "none" /\ UNCHANGED orders
         /\ "late" \in quirks /\ wire' = wire \cup {entry}
  <2> HIDE DEF Place
  <2> QED
    BY <1>1, <1>3
<1> QED
  BY <1>5, <1>6, <1>7, <1>8

-----------------------------------------------------------------------------
(* The exchange's steps.                                                   *)

\* A live parent ends, as its fill says.
LEMMA MatchOrders ==
  ASSUME Types, Lives, NEW e \in Entries, orders[Parent(e)] = "live", NEW q \in 0 .. Qty,
         LET os == [orders EXCEPT ![Parent(e)] = IF q = Qty THEN "filled" ELSE "dead"]
         IN  orders' \in IF q = 0 THEN Childless(e, os) ELSE {os}
  PROVE  /\ orders' \in [Orders -> States] /\ orders'[Parent(e)] \in {"filled", "dead"}
         /\ \A k \in Kids(e) : orders'[k] \in {orders[k], "dead"}
         /\ \A o \in Orders : o[1] # e => orders'[o] = orders[o]
<1> DEFINE end == IF q = Qty THEN "filled" ELSE "dead"
           os == [orders EXCEPT ![Parent(e)] = end]
           bare == [o \in Orders |-> IF o \in Kids(e) THEN "dead" ELSE os[o]]
<1>1. /\ orders \in [Orders -> States] /\ "dead" \in States /\ end \in States
      /\ end \in {"filled", "dead"}
  BY DEF Types, States
<1>2. orders' \in {os, bare}
  BY DEF Childless
<1>3. Parent(e) \in Orders /\ Parent(e) \notin Kids(e) /\ Parent(e)[1] = e
  BY OrderFacts, OthersParent
<1> HIDE DEF end
<1>4. os \in [Orders -> States] /\ bare \in [Orders -> States]
  BY <1>1
<1>5. os[Parent(e)] = end /\ \A o \in Orders : o # Parent(e) => os[o] = orders[o]
  BY <1>1, <1>3
<1>6. \A o \in Orders : bare[o] = IF o \in Kids(e) THEN "dead" ELSE os[o]
  OBVIOUS
<1> HIDE DEF os, bare
<1>7. \A k \in Kids(e) : k \in Orders /\ k # Parent(e)
  BY <1>3, OrderFacts
<1>8. \A o \in Orders : o[1] # e => o # Parent(e) /\ o \notin Kids(e)
  BY <1>3, OrderFacts
<1>9. CASE orders' = os
  BY <1>1, <1>4, <1>5, <1>7, <1>8, <1>9
<1>10. CASE orders' = bare
  BY <1>1, <1>3, <1>4, <1>5, <1>6, <1>7, <1>8, <1>10
<1> QED
  BY <1>2, <1>9, <1>10

LEMMA MatchKeeps ==
  ASSUME OInv, NEW e \in Entries, Match(e), UNCHANGED <<quirks, at, entry, m, ack, faults>>
  PROVE  OInv'
<1>1. /\ Types /\ Ahead /\ Lives /\ Unposted /\ Answered /\ Bounded /\ First
      /\ (Plain => Misses) /\ (quirks = {} => Proper)
  BY DEF OInv
<1>2. PICK q \in 0 .. Qty :
        LET os == [orders EXCEPT ![Parent(e)] = IF q = Qty THEN "filled" ELSE "dead"] IN
        /\ filled' = [filled EXCEPT ![e] = q] /\ pos' = pos + q
        /\ orders' \in IF q = 0 THEN Childless(e, os) ELSE {os}
  BY DEF Match
<1>3. orders[Parent(e)] = "live" /\ UNCHANGED <<shown, wire>>
  BY DEF Match
<1>4. /\ orders' \in [Orders -> States] /\ orders'[Parent(e)] \in {"filled", "dead"}
      /\ \A k \in Kids(e) : orders'[k] \in {orders[k], "dead"}
      /\ \A o \in Orders : o[1] # e => orders'[o] = orders[o]
  BY <1>1, <1>2, <1>3, MatchOrders
<1>5. /\ filled \in [Entries -> 0 .. Qty] /\ filled' \in [Entries -> 0 .. Qty] /\ filled'[e] = q
      /\ \A f \in Entries : f # e => filled'[f] = filled[f]
  BY <1>1, <1>2 DEF Types
<1>6. pos' = pos + q /\ pos \in Int /\ q \in Int
  BY <1>1, <1>2 DEF Types
<1>7. /\ ~NoOrders(e) /\ ~NoOrders(e)' /\ e \notin wire /\ e <= entry
      /\ filled[e] = 0 /\ \A k \in Kids(e) : orders[k] # "filled" /\ orders'[k] # "filled"
  <2>1. ~NoOrders(e) /\ ~NoOrders(e)'
    BY <1>3, <1>4, OrderFacts DEF NoOrders
  <2>2. ~(e > entry) /\ e \in Int /\ entry \in Int
    BY <1>1, <2>1 DEF Ahead, Types, Entries
  <2> QED
    BY <1>1, <1>3, <1>4, <2>1, <2>2 DEF Lives
<1>8. Types'
  BY <1>1, <1>3, <1>4, <1>5, <1>6 DEF Types
<1>9. \A f \in Entries : f # e =>
        /\ orders'[Parent(f)] = orders[Parent(f)] /\ \A k \in Kids(f) : orders'[k] = orders[k]
        /\ (NoOrders(f) => NoOrders(f)')
  BY <1>4, OrderFacts DEF NoOrders
<1>10. Ahead'
  BY <1>1, <1>3, <1>7, <1>9 DEF Ahead
<1>11. Lives'
  <2> SUFFICES ASSUME NEW f \in Entries
               PROVE  /\ f \in wire' \/ orders'[Parent(f)] = "none" => NoOrders(f)'
                      /\ orders'[Parent(f)] \in {"none", "live"} =>
                           filled'[f] = 0 /\ \A k \in Kids(f) : orders'[k] # "filled"
                      /\ \A k, l \in Kids(f) : orders'[k] = "filled" /\ k # l =>
                           orders'[l] \notin {"live", "filled"}
    BY DEF Lives
  <2>1. CASE f = e
    BY <1>3, <1>4, <1>7, <2>1
  <2>2. CASE f # e
    BY <1>1, <1>3, <1>5, <1>9, <2>2 DEF Lives
  <2> QED
    BY <2>1, <2>2
<1>12. Unposted'
  <2>1. ASSUME entry > 0, NoOrders(entry) PROVE NoOrders(entry)'
    <3>1. entry \in Entries
      BY <1>1, <2>1 DEF Types, Entries
    <3> QED
      BY <1>7, <1>9, <2>1, <3>1
  <2> QED
    BY <1>1, <1>3, <2>1 DEF Unposted, Sweep
<1>13. Bounded'
  <2>1. e \notin Matched
    BY <1>3 DEF Matched
  <2>2. Matched' = Matched \cup {e}
    BY <1>4, <1>9 DEF Matched
  <2>3. Exited' = Exited
    BY <1>7, <1>9 DEF Exited
  <2>4. UNCHANGED shown
    BY <1>3
  <2> QED
    BY <1>1, <1>6, <2>1, <2>2, <2>3, <2>4, BoundsMove
<1>14. First'
  <2>1. entry # 0
    BY <1>1, <1>7 DEF Types, Entries
  <2>2. ASSUME entry = 1, "orphans" \notin quirks,
               at \in Unsent \cup Posted \/ (Sweep /\ m.sweepFor = "check")
        PROVE  /\ pos' = Held' /\ shown' \in {0, filled'[1]}
               /\ at \in {"modify", "verify"} => filled'[1] = Qty
    <3>1. e = 1
      BY <1>7, <2>2 DEF Entries
    <3>2. pos = Held /\ shown \in {0, filled[1]} /\ (at \in {"modify", "verify"} => filled[1] = Qty)
      BY <1>1, <2>2 DEF First
    <3>3. Held = 0 /\ Held' = q /\ filled[1] = 0 /\ filled'[1] = q
      BY <1>5, <1>7, <3>1 DEF Held
    <3> QED
      BY <1>3, <1>6, <3>2, <3>3, Products
  <2> QED
    BY <2>1, <2>2 DEF First, Sweep
<1>15. ASSUME Plain PROVE Misses'
  <2>1. Misses /\ e = entry /\ wire = {} /\ LiveParent
    BY <1>1, <1>3, <1>15 DEF Misses, LiveParent
  <2>2. /\ at \notin Unsent \cup Looking /\ ~(Sweep /\ m.sweepFor = "check")
        /\ ~(Sweep /\ m.sweepFor = "unfilled")
    BY <1>1, <1>3, <1>7, <2>1 DEF Misses, Unposted
  <2>3. ack \notin {"missed", "refused"}
    <3>1. Parent(e) \in Live /\ Parent(e)[1] = e
      BY <1>3, OrderFacts DEF Live
    <3> QED
      BY <2>1, <3>1 DEF Misses
  <2>4. LiveParent'
    <3>1. \A f \in Entries : orders'[Parent(f)] = "live" => orders[Parent(f)] = "live"
      BY <1>3, <1>9
    <3> QED
      BY <2>1, <3>1 DEF LiveParent
  <2> QED
    BY <1>3, <1>4, <2>1, <2>2, <2>3, <2>4 DEF Misses, Sweep
<1>16. ASSUME quirks = {} PROVE Proper'
  <2>1. at \in {"status", "look"} /\ Proper
    BY <1>1, <1>3, <1>16 DEF Misses, LiveParent, Plain
  <2>2. Live' \subseteq Live
    <3>1. ASSUME NEW o \in Orders, orders'[o] = "live" PROVE orders[o] = "live"
      <4>1. CASE o[1] = e
        BY <1>3, <1>4, <3>1, <4>1, OrderFacts
      <4>2. CASE o[1] # e
        BY <1>4, <3>1, <4>2
      <4> QED
        BY <4>1, <4>2
    <3> QED
      BY <3>1 DEF Live
  <2> QED
    BY <2>1, <2>2 DEF Proper, Sweep
<1>17. (Plain' => Plain) /\ Answered' /\ quirks' = quirks
  BY <1>1 DEF Plain, Answered
<1> QED
  BY <1>8, <1>10, <1>11, <1>12, <1>13, <1>14, <1>15, <1>16, <1>17 DEF OInv

\* A child fills: its position is gone, and so is its sibling.
LEMMA KidFillsKeeps ==
  ASSUME OInv, NEW e \in Entries, KidFills(e), UNCHANGED <<quirks, at, entry, m, ack, faults>>
  PROVE  OInv'
<1>1. /\ Types /\ Ahead /\ Lives /\ Unposted /\ Answered /\ Bounded /\ First
      /\ (Plain => Misses) /\ (quirks = {} => Proper)
  BY DEF OInv
<1> DEFINE q == IF filled[e] = 0 THEN Qty ELSE filled[e]
<1>2. /\ pos' = pos - q /\ UNCHANGED <<filled, shown, wire>>
      /\ (pos >= q /\ filled[e] # 0) \/ "orphans" \in quirks
  BY DEF KidFills
<1>3. filled[e] \in 0 .. Qty /\ q \in 0 .. Qty /\ q > 0 /\ pos \in Int
  BY <1>1, Products DEF Types
<1>4. filled[e] # 0 => q = filled[e]
  OBVIOUS
<1> HIDE DEF q
<1>5. PICK k \in Kids(e) :
        /\ orders[k] = "live"
        /\ orders' = [o \in Orders |-> IF o = k THEN "filled"
                                       ELSE IF o \in Kids(e) THEN "dead" ELSE orders[o]]
  BY DEF KidFills
<1>6. /\ orders \in [Orders -> States] /\ "filled" \in States /\ "dead" \in States
      /\ k \in Orders /\ k[1] = e /\ Parent(e) \notin Kids(e) /\ Parent(e) \in Orders
      /\ \A l \in Kids(e) : l \in Orders
  BY <1>1, OrderFacts, OthersParent DEF Types, States
<1>7. /\ orders' \in [Orders -> States]
      /\ orders'[k] = "filled" /\ orders'[Parent(e)] = orders[Parent(e)]
      /\ \A l \in Kids(e) : l # k => orders'[l] = "dead"
      /\ \A o \in Orders : o[1] # e => orders'[o] = orders[o]
  <2>1. orders' \in [Orders -> States]
    BY <1>5, <1>6
  <2>2. \A o \in Orders : orders'[o] = IF o = k THEN "filled"
                                       ELSE IF o \in Kids(e) THEN "dead" ELSE orders[o]
    BY <1>5
  <2>3. \A o \in Orders : o[1] # e => o \notin Kids(e)
    BY OrderFacts
  <2> QED
    BY <1>6, <2>1, <2>2, <2>3
<1>8. /\ ~NoOrders(e) /\ e \notin wire /\ e <= entry /\ orders[Parent(e)] # "none"
      /\ orders[Parent(e)] # "live"
  <2>1. ~NoOrders(e)
    BY <1>5, <1>6 DEF NoOrders
  <2>2. ~(e > entry) /\ e \in Int /\ entry \in Int
    BY <1>1, <2>1 DEF Ahead, Types, Entries
  <2> QED
    BY <1>1, <2>1, <2>2 DEF Lives, KidFills
<1>9. \A l \in Kids(e) : orders[l] # "filled"
  BY <1>1, <1>5 DEF Lives
<1>10. Types'
  BY <1>1, <1>2, <1>3, <1>7 DEF Types
<1>11. \A f \in Entries : f # e =>
        /\ orders'[Parent(f)] = orders[Parent(f)] /\ \A l \in Kids(f) : orders'[l] = orders[l]
        /\ (NoOrders(f) => NoOrders(f)')
  BY <1>7, OrderFacts DEF NoOrders
<1>12. Ahead'
  BY <1>1, <1>2, <1>8, <1>11 DEF Ahead
<1>13. Lives'
  <2> SUFFICES ASSUME NEW f \in Entries
               PROVE  /\ f \in wire' \/ orders'[Parent(f)] = "none" => NoOrders(f)'
                      /\ orders'[Parent(f)] \in {"none", "live"} =>
                           filled'[f] = 0 /\ \A l \in Kids(f) : orders'[l] # "filled"
                      /\ \A l, n \in Kids(f) : orders'[l] = "filled" /\ l # n =>
                           orders'[n] \notin {"live", "filled"}
    BY DEF Lives
  <2>1. CASE f = e
    <3>1. \A l, n \in Kids(e) : orders'[l] = "filled" /\ l # n => orders'[n] \notin {"live", "filled"}
      BY <1>7
    <3>2. e \notin wire' /\ orders'[Parent(e)] \notin {"none", "live"}
      BY <1>2, <1>7, <1>8
    <3> QED
      BY <2>1, <3>1, <3>2
  <2>2. CASE f # e
    BY <1>1, <1>2, <1>11, <2>2 DEF Lives
  <2> QED
    BY <2>1, <2>2
<1>14. Unposted'
  <2>1. ASSUME entry > 0, NoOrders(entry) PROVE NoOrders(entry)'
    <3>1. entry \in Entries
      BY <1>1, <2>1 DEF Types, Entries
    <3> QED
      BY <1>8, <1>11, <2>1, <3>1
  <2> QED
    BY <1>1, <1>2, <2>1 DEF Unposted, Sweep
<1>15. Bounded'
  <2>1. e \notin Exited
    BY <1>9 DEF Exited
  <2>2. Matched' = Matched
    BY <1>7, <1>11 DEF Matched
  <2>3. Exited' = Exited \cup {e}
    <3>1. ASSUME NEW f \in Entries
          PROVE  (\E l \in Kids(f) : orders'[l] = "filled")
                   <=> f = e \/ \E l \in Kids(f) : orders[l] = "filled"
      BY <1>7, <1>11
    <3> QED
      BY <3>1 DEF Exited
  <2>4. UNCHANGED shown
    BY <1>2
  <2> QED
    BY <1>1, <1>2, <1>3, <2>1, <2>2, <2>3, <2>4, BoundsMove
<1>16. First'
  <2>1. entry # 0
    BY <1>1, <1>8 DEF Types, Entries
  <2>2. ASSUME entry = 1, "orphans" \notin quirks,
               at \in Unsent \cup Posted \/ (Sweep /\ m.sweepFor = "check")
        PROVE  /\ pos' = Held' /\ shown' \in {0, filled'[1]}
               /\ at \in {"modify", "verify"} => filled'[1] = Qty
    <3>1. e = 1
      BY <1>8, <2>2 DEF Entries
    <3>2. pos = Held /\ shown \in {0, filled[1]} /\ (at \in {"modify", "verify"} => filled[1] = Qty)
      BY <1>1, <2>2 DEF First
    <3>3. Held = filled[1] /\ Held' = 0 /\ q = filled[1]
      BY <1>2, <1>4, <1>7, <1>9, <2>2, <3>1 DEF Held
    <3> QED
      BY <1>2, <1>3, <3>2, <3>3
  <2> QED
    BY <2>1, <2>2 DEF First, Sweep
<1>17. "orphans" \notin quirks => pos > 0
  BY <1>2, <1>3
<1>18. ASSUME Plain PROVE Misses'
  <2>1. Misses /\ pos # 0
    BY <1>1, <1>3, <1>17, <1>18 DEF Plain
  <2>2. /\ at \notin Unsent \cup Looking /\ ~(Sweep /\ m.sweepFor = "check")
        /\ ~(Sweep /\ m.sweepFor = "unfilled") /\ ack \notin {"missed", "refused"}
        /\ ~(at = "look" /\ orders[Parent(entry)] = "none")
    <3>1. at \notin Unsent \cup Looking /\ ~(Sweep /\ m.sweepFor = "check")
      BY <2>1 DEF Misses
    <3> QED
      BY <2>1, <3>1 DEF Misses
  <2>3. \A f \in Entries : orders'[Parent(f)] = orders[Parent(f)]
    BY <1>7, <1>11
  <2>4. LiveParent'
    BY <2>1, <2>3 DEF Misses, LiveParent
  <2>5. at = "readPos" \/ at = "look" => entry \in Entries
    BY EntrySent DEF Posted
  <2>6. ~(at = "look" /\ orders'[Parent(entry)] = "none")
    BY <2>2, <2>3, <2>5
  <2>7. at = "readPos" /\ m.status = "dead" => orders'[Parent(entry)] # "live"
    BY <2>1, <2>3, <2>5 DEF Misses
  <2> QED
    BY <1>2, <2>1, <2>2, <2>4, <2>6, <2>7 DEF Misses, Sweep
<1>19. ASSUME quirks = {} PROVE Proper'
  <2>1. Proper /\ pos # 0
    BY <1>1, <1>3, <1>17, <1>19
  <2>2. ~Sweep
    BY <2>1 DEF Proper
  <2>3. Live' \subseteq Live
    <3>1. ASSUME NEW o \in Orders, orders'[o] = "live" PROVE orders[o] = "live"
      <4>1. CASE o[1] = e
        BY <1>6, <1>7, <3>1, <4>1, OrderFacts
      <4>2. CASE o[1] # e
        BY <1>7, <3>1, <4>2
      <4> QED
        BY <4>1, <4>2
    <3> QED
      BY <3>1 DEF Live
  <2>4. ASSUME at \in {"modify", "verify"} PROVE ~\A l \in Kids(entry) : orders'[l] = "live"
    <3>1. \A o \in Live : o[1] = entry
      BY <2>1, <2>4 DEF Proper, Posted
    <3>2. k \in Live /\ k \in Kids(entry)
      BY <1>5, <1>6, <3>1 DEF Live
    <3> QED
      BY <1>7, <3>2
  <2> QED
    BY <2>1, <2>2, <2>3, <2>4 DEF Proper, Sweep
<1>20. (Plain' => Plain) /\ Answered' /\ quirks' = quirks
  BY <1>1 DEF Plain, Answered
<1> QED
  BY <1>10, <1>12, <1>13, <1>14, <1>15, <1>16, <1>18, <1>19, <1>20 DEF OInv

\* A POST that timed out arrives.
LEMMA ArrivesKeeps ==
  ASSUME OInv, NEW e \in Entries, Arrives(e), UNCHANGED <<quirks, at, entry, m, ack, faults>>
  PROVE  OInv'
<1>1. /\ Types /\ Ahead /\ Lives /\ Unposted /\ Answered /\ Bounded /\ First
      /\ (Plain => Misses)
  BY DEF OInv
<1>2. e \in wire /\ wire' = wire \ {e} /\ Place(e) /\ UNCHANGED <<filled, pos, shown>>
  BY DEF Arrives
<1>3. NoOrders(e) /\ ~(e > entry)
  BY <1>1, <1>2 DEF Lives, Ahead
<1>4. /\ orders' \in [Orders -> States] /\ Ahead' /\ Lives' /\ Bounded' /\ Held' = Held
      /\ \A f \in Entries : f # e /\ NoOrders(f) => NoOrders(f)'
  BY <1>1, <1>2, <1>3, PlaceKeeps
<1>5. Types' /\ Answered'
  BY <1>1, <1>2, <1>4 DEF Types, Answered
<1>6. Unposted'
  <2>1. ASSUME entry > 0, NoOrders(entry), entry \notin wire PROVE NoOrders(entry)' /\ entry \notin wire'
    <3>1. entry \in Entries
      BY <1>1, <2>1 DEF Types, Entries
    <3> QED
      BY <1>2, <1>4, <2>1, <3>1
  <2> QED
    BY <1>1, <2>1 DEF Unposted, Sweep
<1>7. First'
  BY <1>1, <1>2, <1>4 DEF First, Sweep
<1>8. ~Plain' /\ quirks' # {}
  <2>1. ~Plain
    BY <1>1, <1>2 DEF Misses
  <2> QED
    BY <2>1 DEF Plain
<1> QED
  BY <1>4, <1>5, <1>6, <1>7, <1>8 DEF OInv

\* A late position list catches up.
LEMMA ShowsKeeps ==
  ASSUME OInv, Shows, UNCHANGED <<quirks, at, entry, m, ack, faults>>
  PROVE  OInv'
<1>1. /\ Types /\ Ahead /\ Lives /\ Unposted /\ Answered /\ Bounded /\ First
  BY DEF OInv
<1>2. "lag" \in quirks /\ shown' = pos /\ UNCHANGED <<orders, filled, pos, wire>>
  BY DEF Shows
<1>3. Types' /\ Ahead' /\ Lives' /\ Unposted' /\ Answered'
  BY <1>1, <1>2 DEF Types, Ahead, Lives, NoOrders, Unposted, Sweep, Answered
<1>4. Bounded'
  <2>1. pos \in Contracts
    BY <1>1, BoundsPosition
  <2> QED
    BY <1>1, <1>2, <2>1 DEF Bounded, Matched, Exited
<1>5. First'
  <2>1. Held' = Held /\ Held \in {0, filled[1]}
    BY <1>2 DEF Held
  <2> QED
    BY <1>1, <1>2, <2>1 DEF First, Sweep
<1>6. ~Plain' /\ quirks' # {}
  BY <1>2 DEF Plain
<1> QED
  BY <1>3, <1>4, <1>5, <1>6 DEF OInv

\* The next entry.
LEMMA EnterKeeps ==
  ASSUME OInv, Enter
  PROVE  OInv'
<1>1. /\ Types /\ Ahead /\ Lives /\ Unposted /\ Bounded /\ First
      /\ (Plain => Misses)
  BY DEF OInv
<1>2. /\ at = "idle" /\ entry < MaxEntries /\ Shown = 0 /\ entry' = entry + 1
      /\ at' = "checkPos" /\ m' = Locals /\ ack' = "none"
      /\ UNCHANGED <<quirks, orders, filled, pos, shown, wire>>
  BY DEF Enter, exchange
<1>3. entry \in Nat /\ entry' \in Entries /\ entry' > 0 /\ entry' > entry
      /\ entry' \in 0 .. MaxEntries
  BY <1>1, <1>2, OsoAssumption DEF Types, Entries
<1>4. Types' /\ Answered'
  <2>1. faults' \in 0 .. MaxFaults
    BY <1>1, FaultTyped DEF Enter
  <2> QED
    BY <1>1, <1>2, <1>3, <2>1, LocalsTyped DEF Types, Answered, Calls, Acks
<1>5. NoOrders(entry') /\ entry' \notin wire
  BY <1>1, <1>3 DEF Ahead
<1>6. \A e \in Entries : e > entry' => e > entry
  BY <1>2, <1>3 DEF Entries
<1>7. Ahead' /\ Lives' /\ Bounded'
  <2>1. Ahead'
    BY <1>1, <1>2, <1>6 DEF Ahead, NoOrders
  <2>2. Lives'
    BY <1>1, <1>2 DEF Lives, NoOrders
  <2>3. Bounded'
    BY <1>1, <1>2 DEF Bounded, Matched, Exited
  <2> QED
    BY <2>1, <2>2, <2>3
<1>8. NoOrders(entry)'
  BY <1>2, <1>5 DEF NoOrders
<1>9. Unposted'
  BY <1>2, <1>3, <1>5, <1>8 DEF Unposted, Sweep, Posted
<1>10. First'
  <2>1. ASSUME entry = 0
        PROVE  pos' = Held' /\ shown' \in {0, filled'[1]}
    <3>1. 1 \in Entries /\ 1 = entry'
      BY <1>2, <1>3, <2>1
    <3>2. orders[Parent(1)] = "none" /\ \A k \in Kids(1) : orders[k] = "none"
      BY <1>5, <3>1, Nothing
    <3>3. filled[1] = 0
      BY <1>1, <3>1, <3>2 DEF Lives
    <3>4. Held' = 0
      BY <1>2, <3>2, <3>3 DEF Held
    <3> QED
      BY <1>1, <1>2, <2>1, <3>4 DEF First
  <2>2. entry' # 0 /\ (entry' = 1 => entry = 0)
    BY <1>2, <1>3
  <2> QED
    BY <1>2, <2>1, <2>2 DEF First
<1>11. ASSUME Plain' PROVE Misses'
  <2>1. quirks = {} \/ (entry = 0 /\ quirks \subseteq {"resting"})
    BY <1>2, <1>3, <1>11 DEF Plain
  <2>2. Plain /\ Misses /\ pos = 0
    BY <1>1, <1>2, <2>1 DEF Plain, Shown
  <2>3. \A e \in Entries : orders[Parent(e)] # "live"
    <3>1. 0 \notin Entries
      BY DEF Entries
    <3> QED
      BY <1>2, <2>1, <2>2, <3>1 DEF Misses, LiveParent
  <2>4. LiveParent'
    BY <1>2, <2>3 DEF LiveParent
  <2> QED
    BY <1>2, <2>2, <2>4 DEF Misses, Looking, Sweep
<1>12. Proper'
  BY <1>2 DEF Proper, Sweep, Posted
<1> QED
  BY <1>4, <1>7, <1>9, <1>10, <1>11, <1>12 DEF OInv

-----------------------------------------------------------------------------
(* The invariant.                                                          *)

LEMMA InitOInv == Init => OInv
<1> SUFFICES ASSUME Init PROVE OInv
  OBVIOUS
<1>1. /\ quirks \in Exchanges /\ orders = [o \in Orders |-> "none"]
      /\ filled = [e \in Entries |-> 0] /\ pos = 0 /\ shown = 0 /\ wire = {} /\ faults = 0
      /\ at = "idle" /\ entry = 0 /\ m = Locals /\ ack = "none"
  BY DEF Init
<1>2. Types
  <2>1. 0 \in 0 .. Qty /\ 0 \in 0 .. MaxEntries /\ 0 \in 0 .. MaxFaults /\ "none" \in States
    BY OsoAssumption DEF States
  <2>2. orders \in [Orders -> States] /\ filled \in [Entries -> 0 .. Qty]
    BY <1>1, <2>1
  <2> QED
    BY <1>1, <2>1, <2>2, LocalsTyped DEF Types, Calls, Acks
<1>3. /\ \A o \in Orders : orders[o] = "none"
      /\ \A e \in Entries : filled[e] = 0
  BY <1>1
<1>4. \A e \in Entries : /\ NoOrders(e) /\ orders[Parent(e)] = "none"
                         /\ \A k \in Kids(e) : orders[k] = "none"
  BY <1>3, Nothing DEF NoOrders
<1>5. Ahead /\ Lives
  BY <1>1, <1>3, <1>4 DEF Ahead, Lives
<1>6. Unposted /\ Answered /\ First /\ Proper
  BY <1>1 DEF Unposted, Unsent, Posted, Sweep, Answered, First, Proper
<1>7. Bounded
  <2>1. Matched = {} /\ Exited = {}
    BY <1>4 DEF Matched, Exited
  <2>2. Cardinality({}) = 0
    BY FS_EmptySet
  <2>3. Qty \in Nat /\ Qty * 0 = 0
    BY Products
  <2>4. 0 \in Contracts
    <3> DEFINE z == Qty * MaxEntries
    <3>1. z \in Nat
      BY OsoAssumption, Products
    <3>2. -Qty * MaxEntries = -z
      BY OsoAssumption
    <3> HIDE DEF z
    <3>3. 0 \in -z .. z
      BY <3>1
    <3> QED
      BY <3>2, <3>3 DEF Contracts, z
  <2> QED
    BY <1>1, <2>1, <2>2, <2>3, <2>4 DEF Bounded
<1>8. Misses
  BY <1>1, <1>4 DEF Misses, LiveParent, Unsent, Looking, Sweep
<1> QED
  BY <1>2, <1>5, <1>6, <1>7, <1>8 DEF OInv

LEMMA StepOInv == OInv /\ [Next]_vars => OInv'
<1> SUFFICES ASSUME OInv, [Next]_vars PROVE OInv'
  OBVIOUS
<1>1. CASE Enter
  BY <1>1, EnterKeeps
<1>2. CASE FlattenCall \/ SweepCall
  BY <1>2, CallsKeep
<1>3. CASE Adapter
  BY <1>3, ChecksKeep, LooksKeep, StatusKeeps, ReadPosKeeps, VerifyKeeps, FlatReadsKeep,
     SweepReadsKeep, CancelParentKeeps, ModifyKeeps, LiquidatesKeep, SweepCancelKeeps, PostKeeps
     DEF Adapter
<1>4. CASE Exchange
  <2>1. UNCHANGED <<quirks, at, entry, m, ack, faults>>
    BY <1>4 DEF Exchange
  <2>2. CASE Shows
    BY <2>1, <2>2, ShowsKeeps
  <2>3. ASSUME NEW e \in Entries, Match(e) PROVE OInv'
    BY <2>1, <2>3, MatchKeeps
  <2>4. ASSUME NEW e \in Entries, KidFills(e) PROVE OInv'
    BY <2>1, <2>4, KidFillsKeeps
  <2>5. ASSUME NEW e \in Entries, Arrives(e) PROVE OInv'
    BY <2>1, <2>5, ArrivesKeeps
  <2> QED
    BY <1>4, <2>2, <2>3, <2>4, <2>5 DEF Exchange
<1>5. CASE UNCHANGED vars
  BY <1>5 DEF vars, exchange, OInv, Types, Ahead, NoOrders, Lives, Unposted, Sweep, Answered, Bounded,
     Matched, Exited, First, Held, Plain, Misses, LiveParent, Live, Proper
<1> QED
  BY <1>1, <1>2, <1>3, <1>4, <1>5 DEF Next

LEMMA Invariant == Spec => []OInv
<1> QED
  BY InitOInv, StepOInv, PTL DEF Spec

-----------------------------------------------------------------------------
(* What the runs check.                                                    *)

\* Every variable of the adapter and the exchange has its type; its loops of reads
\* end, and the position never leaves what the entries could have bought or sold
\* (copytrade/broker.py).
THEOREM TypeCorrect == Spec => []TypeOK
<1>1. OInv => TypeOK
  <2> SUFFICES ASSUME OInv PROVE TypeOK
    OBVIOUS
  <2>1. Types /\ Bounded
    BY DEF OInv
  <2>2. pos \in Contracts /\ shown \in Contracts
    BY <2>1, BoundsPosition DEF Bounded
  <2>3. /\ m.status \in States \cup {"unread"} /\ m.tries \in 0 .. Reads
        /\ m.attempt \in 0 .. 3 /\ m.side \in {-1, 0, 1} /\ m.todo \subseteq Orders
    BY <2>1 DEF Types, LocalsType
  <2> QED
    BY <2>1, <2>2, <2>3 DEF Types, TypeOK, Reads
<1> QED
  BY <1>1, Invariant, PTL

\* An entry reported as a miss or as refused has left no position and no order of
\* its own, for an exchange that does as it should, or for the first entry of one
\* that matches late (broker.py:311, 408, 458).
THEOREM MissIsNothing == Spec => []MissLeavesNothing
<1>1. OInv => MissLeavesNothing
  <2> SUFFICES ASSUME OInv, ack \in {"missed", "refused"}, Ordinary({"resting"})
               PROVE  pos = 0 /\ \A o \in Live : o[1] # entry
    BY DEF MissLeavesNothing
  <2>1. Plain
    BY DEF Ordinary, Plain
  <2> QED
    BY <2>1 DEF OInv, Misses
<1> QED
  BY <1>1, Invariant, PTL

\* Two children and two of them live: each is.
LEMMA BothLive ==
  ASSUME NEW e \in Entries, Cardinality(Live \cap Kids(e)) = 2
  PROVE  \A k \in Kids(e) : orders[k] = "live"
<1> SUFFICES ASSUME NEW k \in Kids(e), orders[k] # "live" PROVE FALSE
  OBVIOUS
<1>1. PICK l \in Kids(e) : Kids(e) = {k, l}
  BY DEF Kids
<1>2. Live \cap Kids(e) \subseteq {l}
  BY <1>1 DEF Live
<1>3. IsFiniteSet({l}) /\ Cardinality({l}) = 1
  BY FS_Singleton
<1>4. Cardinality(Live \cap Kids(e)) \in Nat /\ Cardinality(Live \cap Kids(e)) <= 1
  BY <1>2, <1>3, FS_Subset, FS_CardinalityType
<1> QED
  BY <1>4

\* Only the last look reports an entry as filled, and a flatten as flat.
LEMMA Reports ==
  ASSUME OInv, Next
  PROVE  /\ ack' = "ok" /\ ack # "ok" =>
              at = "verify" /\ Cardinality(Live \cap Kids(entry)) = 2 /\ UNCHANGED <<pos, orders>>
         /\ ack' = "flat" /\ ack # "flat" => Sweep /\ Live = {} /\ UNCHANGED <<pos, orders>>
<1> DEFINE Said == ack' \in {"ok", "flat"} /\ ack' # ack
<1>1. Types
  BY DEF OInv
<1>2. CASE Enter \/ FlattenCall \/ SweepCall
  BY <1>2 DEF Enter, FlattenCall, SweepCall
<1>3. CASE CheckPos \/ CheckOrders \/ Post \/ Look \/ LookPos \/ LookOrders
  <2>1. ~Said
    BY <1>3 DEF CheckPos, CheckOrders, Post, Look, LookPos, LookOrders, Go, Done, Retry,
       Sweeping, Flattening, Unknown
  <2> QED
    BY <2>1
<1>4. CASE Status \/ CancelParent \/ ReadPos \/ Modify
  <2>1. ~Said
    BY <1>4 DEF Status, CancelParent, ReadPos, Modify, Go, Done, Retry, Sweeping, Flattening
  <2> QED
    BY <2>1
<1>5. CASE FlatFirst \/ Liquidate \/ LiqRead \/ LiqFlip \/ FlatBack
  <2>1. ~Said
    BY <1>5 DEF FlatFirst, Liquidate, LiqRead, LiqFlip, FlatBack, Go, Done, Retry, Sweeping,
       ReadBackFlat
  <2> QED
    BY <2>1
<1>6. CASE Verify
  <2>1. at = "verify" /\ UNCHANGED <<pos, orders>>
    BY <1>6 DEF Verify, At, exchange
  <2>2. Said => ack' = "ok" /\ Cardinality(Live \cap Kids(entry)) = 2
    BY <1>6 DEF Verify, Go, Done, Retry, Flattening, Bracketed
  <2> QED
    BY <2>1, <2>2
<1>7. ASSUME NEW swept \in BOOLEAN, SweepEnds(swept)
      PROVE  Said => swept /\ ack' = "flat"
  <2>1. m.sweepFor \in {"check", "unfilled", "flat", "sweep"}
    BY <1>1 DEF Types, LocalsType
  <2> QED
    BY <1>7, <2>1 DEF SweepEnds, Go, Done
<1>8. CASE SweepRead \/ SweepCheck
  <2>1. Sweep /\ UNCHANGED <<pos, orders>>
    BY <1>8 DEF SweepRead, SweepCheck, At, Sweep, exchange
  <2>2. \/ ack' = ack
        \/ SweepEnds(TRUE) /\ Live = {}
        \/ SweepEnds(FALSE)
    BY <1>8 DEF SweepRead, SweepCheck, Go, Retry
  <2> QED
    BY <1>7, <2>1, <2>2
<1>9. CASE SweepCancel
  <2>1. ack' = ack \/ SweepEnds(FALSE)
    BY <1>9 DEF SweepCancel, Go
  <2> QED
    BY <1>7, <2>1
<1>10. CASE Exchange
  BY <1>10 DEF Exchange
<1> HIDE DEF Said
<1> QED
  BY <1>2, <1>3, <1>4, <1>5, <1>6, <1>8, <1>9, <1>10 DEF Next, Adapter

\* What the broker reports is so: a filled entry holds its size with both children
\* live, for an exchange that does as it should, or for the first entry of one whose
\* orders rest, arrive or show late; a flatten that succeeded has left an account
\* flat and without live orders (broker.py's enter and flatten).
THEOREM Reported == Spec => AckIsTrue
<1>1. ASSUME OInv, Next
      PROVE  /\ ack' = "ok" /\ ack # "ok" /\ Ordinary({"lag", "resting", "late"})
                  => pos' = Qty /\ \A k \in Kids(entry) : orders'[k] = "live"
             /\ ack' = "flat" /\ ack # "flat" /\ quirks = {}
                  => pos' = 0 /\ \A o \in Orders : orders'[o] # "live"
  <2>1. ASSUME ack' = "ok", ack # "ok", Ordinary({"lag", "resting", "late"})
        PROVE  pos' = Qty /\ \A k \in Kids(entry) : orders'[k] = "live"
    <3>1. at = "verify" /\ Cardinality(Live \cap Kids(entry)) = 2 /\ UNCHANGED <<pos, orders>>
      BY <1>1, <2>1, Reports
    <3>2. entry \in Entries
      BY <1>1, <3>1, EntrySent DEF Posted
    <3>3. \A k \in Kids(entry) : orders[k] = "live"
      BY <3>1, <3>2, BothLive
    <3>4. CASE quirks = {}
      BY <1>1, <3>1, <3>3, <3>4 DEF OInv, Proper
    <3>5. CASE entry = 1 /\ "orphans" \notin quirks
      <4>1. pos = Held /\ filled[1] = Qty
        BY <1>1, <3>1, <3>5 DEF OInv, First, Posted
      <4>2. Held = filled[1]
        BY <3>3, <3>5 DEF Held
      <4> QED
        BY <3>1, <3>3, <4>1, <4>2
    <3> QED
      BY <2>1, <3>4, <3>5 DEF Ordinary
  <2>2. ASSUME ack' = "flat", ack # "flat", quirks = {}
        PROVE  pos' = 0 /\ \A o \in Orders : orders'[o] # "live"
    <3>1. Sweep /\ Live = {} /\ UNCHANGED <<pos, orders>>
      BY <1>1, <2>2, Reports
    <3>2. pos = 0
      BY <1>1, <2>2, <3>1 DEF OInv, Proper
    <3> QED
      BY <3>1, <3>2 DEF Live
  <2> QED
    BY <2>1, <2>2
<1>2. OInv /\ [Next]_vars =>
        [/\ ack' = "ok" /\ ack # "ok" /\ Ordinary({"lag", "resting", "late"})
              => pos' = Qty /\ \A k \in Kids(entry) : orders'[k] = "live"
         /\ ack' = "flat" /\ ack # "flat" /\ quirks = {}
              => pos' = 0 /\ \A o \in Orders : orders'[o] # "live"]_vars
  BY <1>1
<1> QED
  BY <1>2, Invariant, PTL DEF Spec, AckIsTrue

\* Children end by a step of a sweep only, unless the adapter modifies or matches them.
LEMMA Ends ==
  ASSUME OInv, Next, quirks = {}, NEW k \in Orders, orders[k] = "live", orders'[k] = "dead"
  PROVE  m' = m \/ Sweep
<1>1. CASE Enter \/ FlattenCall \/ SweepCall
  BY <1>1 DEF Enter, FlattenCall, SweepCall, exchange
<1>2. CASE CheckPos \/ CheckOrders \/ Look \/ LookPos \/ LookOrders \/ Status \/ ReadPos \/ Verify
  BY <1>2 DEF CheckPos, CheckOrders, Look, LookPos, LookOrders, Status, ReadPos, Verify, exchange
<1>3. CASE FlatFirst \/ Liquidate \/ LiqRead \/ LiqFlip \/ FlatBack
  BY <1>3 DEF FlatFirst, Liquidate, LiqRead, LiqFlip, FlatBack, exchange
<1>4. CASE SweepRead \/ SweepCancel \/ SweepCheck
  BY <1>4 DEF SweepRead, SweepCancel, SweepCheck, At, Sweep
<1>5. CASE Post
  <2>1. Place(entry) \/ UNCHANGED orders
    BY <1>5 DEF Post
  <2>2. orders'[k] = "live" \/ orders'[k] = orders[k]
    BY <2>1 DEF Place
  <2> QED
    BY <2>2
<1>6. CASE CancelParent
  <2>1. at = "cancelParent" /\ NoneLive
    BY <1>6, Calling DEF CancelParent
  <2>2. entry \in Entries
    BY <2>1, EntrySent DEF Posted
  <2>3. Cancel(Parent(entry)) \/ UNCHANGED orders
    BY <1>6 DEF CancelParent
  <2>4. UNCHANGED orders
    BY <2>1, <2>2, <2>3 DEF NoneLive, Cancel
  <2> QED
    BY <2>4
<1>7. CASE Modify
  BY <1>7 DEF Modify, Go
<1>8. CASE Exchange
  BY <1>8 DEF Exchange
<1> QED
  BY <1>1, <1>2, <1>3, <1>4, <1>5, <1>6, <1>7, <1>8 DEF Next, Adapter

\* What a sweep cancels protects nothing: no child it ends has a position
\* (broker.py:550).
THEOREM Protected == Spec => ProtectedWhileHeld
<1>1. ASSUME OInv, Next, quirks = {}, m'.todo # m.todo, NEW e \in Entries, NEW k \in Kids(e),
             orders[k] = "live", orders'[k] = "dead"
      PROVE  pos = 0
  <2>1. k \in Orders
    BY OrderFacts
  <2>2. Sweep
    BY <1>1, <2>1, Ends
  <2> QED
    BY <1>1, <2>2 DEF OInv, Proper
<1>2. OInv /\ [Next]_vars =>
        [quirks = {} /\ m'.todo # m.todo =>
           \A e \in Entries : \A k \in Kids(e) :
             orders[k] = "live" /\ orders'[k] = "dead" => pos = 0]_vars
  BY <1>1
<1> QED
  BY <1>2, Invariant, PTL DEF Spec, ProtectedWhileHeld

-----------------------------------------------------------------------------
(* What an account holds between calls: CopyAccount takes the outcomes of  *)
(* enter and flatten from here.                                            *)

\* On an exchange that does as it should the account holds what its last entry filled,
\* or nothing: never short, never two entries at once, and no other entry's order can
\* close what is held, whatever failed, timed out or filled on the way.
HoldsOneEntry ==
  quirks = {} =>
    \/ pos = 0
    \/ entry > 0 /\ pos = filled[entry] /\ \A o \in Live : o[1] = entry

\* There a flatten and a sweep only close: the position stays or goes, never turns, and
\* no order comes to life, so a flatten that fails leaves what it found or nothing.
FlattenOnlyCloses ==
  [][quirks = {} /\ at \in {"flatFirst", "liquidate", "liqRead", "liqFlip", "flatBack",
                            "sweepRead", "sweepCancel", "sweepCheck"}
       => pos' \in {0, pos} /\ Live' \subseteq Live]_vars

Calmer == pos' \in {0, pos} /\ filled' = filled /\ (entry' = entry \/ pos' = 0) /\ Live' \subseteq Live

\* The adapter's own steps add no contract and, but for a POST, no order.
LEMMA AdapterCalms ==
  ASSUME OInv, quirks = {}, Adapter \/ Enter \/ FlattenCall \/ SweepCall \/ UNCHANGED vars
  PROVE  Calmer \/ (at = "post" /\ pos' = 0)
<1>1. Types /\ Lives /\ Misses
  BY DEF OInv, Plain
<1>2. ASSUME UNCHANGED exchange, entry' = entry PROVE Calmer
  BY <1>2 DEF exchange, Calmer, Live
<1>3. ASSUME NEW o \in Orders, Cancel(o) \/ UNCHANGED orders, UNCHANGED <<pos, filled, entry>>
      PROVE  Calmer
  <2>1. Shrinks
    BY <1>1, <1>3, CancelShrinks, StaysShrunk
  <2>2. \A p \in Orders : orders'[p] = "live" => orders[p] = "live"
    BY <2>1 DEF Shrinks
  <2> QED
    BY <1>3, <2>2 DEF Calmer, Live
<1>4. CASE FlattenCall \/ SweepCall \/ UNCHANGED vars
  BY <1>2, <1>4 DEF FlattenCall, SweepCall, vars
<1>5. CASE Enter
  <2>1. pos = 0
    BY <1>5 DEF Enter, Shown
  <2> QED
    BY <1>5, <2>1 DEF Enter, exchange, Calmer, Live
<1>6. CASE CheckPos \/ CheckOrders \/ Look \/ LookPos \/ LookOrders \/ Status \/ ReadPos \/ Verify
  BY <1>2, <1>6 DEF CheckPos, CheckOrders, Look, LookPos, LookOrders, Status, ReadPos, Verify, fixed
<1>7. CASE FlatFirst \/ LiqRead \/ FlatBack \/ SweepRead \/ SweepCheck
  BY <1>2, <1>7 DEF FlatFirst, LiqRead, FlatBack, SweepRead, SweepCheck, fixed
<1>8. CASE Liquidate \/ LiqFlip
  <2>1. pos' \in {0, pos} /\ UNCHANGED <<orders, filled, entry>>
    BY <1>8 DEF Liquidate, LiqFlip, fixed
  <2> QED
    BY <2>1 DEF Calmer, Live
<1>9. CASE Post
  <2>1. at = "post" /\ pos' = pos
    BY <1>9 DEF Post, At
  <2>2. pos = 0
    BY <1>1, <2>1 DEF Misses, Unsent
  <2> QED
    BY <2>1, <2>2
<1>10. CASE CancelParent \/ Modify
  <2>1. entry \in Entries
    BY <1>10, EntrySent, Calling DEF CancelParent, Modify, Posted
  <2>2. \E o \in Orders : Cancel(o) \/ UNCHANGED orders
    BY <1>10, <2>1, OrderFacts DEF CancelParent, Modify
  <2>3. UNCHANGED <<pos, filled, entry>>
    BY <1>10 DEF CancelParent, Modify, fixed
  <2> QED
    BY <1>3, <2>2, <2>3
<1>11. CASE SweepCancel
  <2>1. m.todo \subseteq Orders
    BY <1>1 DEF Types, LocalsType
  <2>2. \E o \in Orders : Cancel(o) \/ UNCHANGED orders
    BY <1>11, <2>1 DEF SweepCancel
  <2>3. UNCHANGED <<pos, filled, entry>>
    BY <1>11 DEF SweepCancel, fixed
  <2> QED
    BY <1>3, <2>2, <2>3
<1> QED
  BY <1>4, <1>5, <1>6, <1>7, <1>8, <1>9, <1>10, <1>11 DEF Adapter

\* The exchange's steps: a child closes all there is, and only an entry under way fills.
LEMMA ExchangeCalms ==
  ASSUME OInv, HoldsOneEntry, quirks = {}, Exchange
  PROVE  \/ Calmer
         \/ /\ at \in {"status", "look"} /\ entry' = entry /\ entry > 0
            /\ pos' = filled'[entry] /\ \A o \in Live' : o[1] = entry
<1>1. /\ Types /\ Lives /\ Misses /\ Proper /\ UNCHANGED entry
      /\ \A e \in Entries : filled[e] \in 0 .. Qty
  BY DEF OInv, Plain, Exchange, Types
<1>2. CASE Shows
  BY <1>1, <1>2 DEF Shows, Calmer, Live
<1>3. ASSUME NEW e \in Entries, Match(e)
      PROVE  /\ at \in {"status", "look"} /\ entry' = entry /\ entry > 0
             /\ pos' = filled'[entry] /\ \A o \in Live' : o[1] = entry
  <2>1. PICK q \in 0 .. Qty :
          LET os == [orders EXCEPT ![Parent(e)] = IF q = Qty THEN "filled" ELSE "dead"] IN
          /\ filled' = [filled EXCEPT ![e] = q] /\ pos' = pos + q
          /\ orders' \in IF q = 0 THEN Childless(e, os) ELSE {os}
    BY <1>3 DEF Match
  <2>2. orders[Parent(e)] = "live"
    BY <1>3 DEF Match
  <2>3. /\ orders'[Parent(e)] \in {"filled", "dead"}
        /\ \A k \in Kids(e) : orders'[k] \in {orders[k], "dead"}
        /\ \A o \in Orders : o[1] # e => orders'[o] = orders[o]
    BY <1>1, <2>1, <2>2, MatchOrders
  <2>4. e = entry /\ at \in {"status", "look"} /\ filled[e] = 0 /\ entry > 0
    BY <1>1, <2>2 DEF Misses, LiveParent, Lives, Entries
  <2>5. pos = 0
    BY <2>4 DEF HoldsOneEntry
  <2>6. filled'[e] = q /\ pos' = q
    BY <1>1, <2>1, <2>5 DEF Types
  <2>7. ASSUME NEW o \in Orders, orders'[o] = "live", o[1] # entry PROVE FALSE
    <3>1. orders[o] = "live"
      BY <2>3, <2>4, <2>7
    <3> QED
      BY <1>1, <2>4, <2>7, <3>1 DEF Proper, Posted, Live
  <2> QED
    BY <1>1, <2>4, <2>6, <2>7 DEF Live
<1>4. ASSUME NEW e \in Entries, KidFills(e) PROVE Calmer
  <2>1. /\ pos >= filled[e] /\ filled[e] # 0 /\ pos' = pos - filled[e]
        /\ UNCHANGED filled
    BY <1>4 DEF KidFills
  <2>2. PICK k \in Kids(e) :
          /\ orders[k] = "live"
          /\ orders' = [o \in Orders |-> IF o = k THEN "filled"
                                         ELSE IF o \in Kids(e) THEN "dead" ELSE orders[o]]
    BY <1>4 DEF KidFills
  <2>3. k \in Live /\ k[1] = e
    BY <2>2, OrderFacts DEF Live
  <2>4. pos # 0
    BY <1>1, <2>1
  <2>5. e = entry /\ pos = filled[e]
    BY <2>3, <2>4 DEF HoldsOneEntry
  <2>6. pos' = 0
    BY <1>1, <2>1, <2>5
  <2>7. Live' \subseteq Live
    <3>1. \A o \in Orders : orders'[o] = "live" => orders[o] = "live"
      BY <2>2
    <3> QED
      BY <3>1 DEF Live
  <2> QED
    BY <1>1, <2>1, <2>6, <2>7 DEF Calmer
<1>5. ASSUME NEW e \in Entries, Arrives(e) PROVE FALSE
  BY <1>1, <1>5 DEF Arrives, Misses
<1> QED
  BY <1>2, <1>3, <1>4, <1>5 DEF Exchange

\* Calm steps keep the position within its entry, an entry's fill brings it from nothing.
LEMMA StepHolds ==
  ASSUME OInv, HoldsOneEntry, [Next]_vars
  PROVE  HoldsOneEntry'
<1>1. quirks' = quirks
  <2>1. CASE Adapter
    BY <2>1 DEF Adapter, CheckPos, CheckOrders, Post, Look, LookPos, LookOrders, Status, CancelParent,
       ReadPos, Modify, Verify, FlatFirst, Liquidate, LiqRead, LiqFlip, FlatBack, SweepRead,
       SweepCancel, SweepCheck, fixed
  <2>2. CASE Enter \/ FlattenCall \/ SweepCall \/ Exchange \/ UNCHANGED vars
    BY <2>2 DEF Enter, FlattenCall, SweepCall, Exchange, vars
  <2> QED
    BY <2>1, <2>2 DEF Next
<1> SUFFICES ASSUME quirks = {}
             PROVE  \/ pos' = 0
                    \/ entry' > 0 /\ pos' = filled'[entry'] /\ \A o \in Live' : o[1] = entry'
  BY <1>1 DEF HoldsOneEntry
<1>2. CASE Calmer
  BY <1>2 DEF Calmer, HoldsOneEntry
<1>3. CASE ~Calmer
  <2>1. CASE Exchange
    BY <1>3, <2>1, ExchangeCalms
  <2>2. CASE Adapter \/ Enter \/ FlattenCall \/ SweepCall \/ UNCHANGED vars
    BY <1>3, <2>2, AdapterCalms
  <2> QED
    BY <2>1, <2>2 DEF Next
<1> QED
  BY <1>2, <1>3

\* Whatever enter, flatten and sweep met on the way, the account of an exchange as it
\* should be holds one entry's contracts or none, and only that entry's orders live.
THEOREM HeldIsOne == Spec => []HoldsOneEntry
<1>1. Init => HoldsOneEntry
  BY DEF Init, HoldsOneEntry
<1>2. OInv /\ HoldsOneEntry /\ [Next]_vars => HoldsOneEntry'
  BY StepHolds
<1> QED
  BY <1>1, <1>2, Invariant, PTL DEF Spec

\* There flatten and sweep_orders only take away: a failed flatten leaves what it found
\* or nothing, and no new order.
THEOREM OnlyCloses == Spec => FlattenOnlyCloses
<1> DEFINE Closing == at \in {"flatFirst", "liquidate", "liqRead", "liqFlip", "flatBack",
                              "sweepRead", "sweepCancel", "sweepCheck"}
<1>1. ASSUME OInv, HoldsOneEntry, Next, quirks = {}, Closing
      PROVE  pos' \in {0, pos} /\ Live' \subseteq Live
  <2>1. at \notin {"post", "status", "look"}
    BY <1>1
  <2>2. CASE Exchange
    BY <1>1, <2>1, <2>2, ExchangeCalms DEF Calmer
  <2>3. CASE Adapter \/ Enter \/ FlattenCall \/ SweepCall
    BY <1>1, <2>1, <2>3, AdapterCalms DEF Calmer
  <2> QED
    BY <1>1, <2>2, <2>3 DEF Next
<1>2. OInv /\ HoldsOneEntry /\ [Next]_vars =>
        [quirks = {} /\ Closing => pos' \in {0, pos} /\ Live' \subseteq Live]_vars
  BY <1>1
<1> QED
  BY <1>2, HeldIsOne, Invariant, PTL DEF Spec, FlattenOnlyCloses
=============================================================================
