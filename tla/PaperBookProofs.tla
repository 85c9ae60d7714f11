-------------------------- MODULE PaperBookProofs --------------------------
(***************************************************************************)
(* For any policies, answers, rows, batches, settings, delays, fills and   *)
(* cancellations of a session: every variable keeps its type, no position  *)
(* outlives a row that hit its stop or its target, the announced target is *)
(* the position Jev's book has or is about to have, a session that has     *)
(* ended is flat, and a recorded day replays to the backtest's trades.     *)
(*                                                                         *)
(* Flatness needs little (IInv).  Exits and target rest on one fact about  *)
(* time: no row is appended that is later than the next event, so whatever *)
(* happens, an order's fill included, happens at the last row, and every   *)
(* book has by then looked at each row before it (BInv).                   *)
(*                                                                         *)
(* The replay is a simulation (RInv): at every moment each book is the     *)
(* backtest's over the decisions and rows so far, and nothing the backtest *)
(* has read can change, since every row to come is later.                  *)
(***************************************************************************)
EXTENDS PaperBook, TLAPS, FiniteSetTheorems, SequenceTheorems, WellFoundedInduction

Row == [ts : Int, bid : Int]

AllFlat == target = 0 /\ \A p \in Policies : book[p].pos.side = 0

\* A session that has not seen a row has done nothing, and a closed one waits for
\* nothing: the strengthening that makes ClosedMeansFlat inductive.
IInv ==
    /\ rows \in Seq(Row) /\ buf \in Seq(Row)
    /\ rows = <<>> => AllFlat /\ fills = {} /\ asking = 0
    /\ closed => AllFlat /\ asking = 0

-----------------------------------------------------------------------------
(* The book.                                                               *)

\* Looking for exits leaves a flat book flat, with the trades it had.
LEMMA CheckExitsFlat ==
    ASSUME NEW bk, NEW rs, NEW upto, bk.pos.side = 0
    PROVE  /\ CheckExits(bk, rs, upto).pos.side = 0
           /\ CheckExits(bk, rs, upto).trades = bk.trades
<1>1. CheckExits(bk, rs, upto) = BookOf(bk.pos, NextWatch(bk.watch, upto), bk.trades)
  BY Zenon DEF CheckExits
<1> QED
  BY <1>1 DEF BookOf

\* Flattening leaves any book flat.
LEMMA FlattenFlat ==
    ASSUME NEW bk, NEW rs, NEW last
    PROVE  Flatten(bk, rs, last).pos.side = 0
<1> DEFINE swept == CheckExits(bk, rs, last)
<1>1. CASE swept.pos.side = 0
  BY <1>1, Zenon DEF Flatten
<1>2. CASE swept.pos.side # 0
  <2>1. Flatten(bk, rs, last) = Close(swept, rs, last, Touch(rs, last, swept.pos.side), "eod")
    BY <1>2, Zenon DEF Flatten
  <2>2. Flatten(bk, rs, last).pos = Flat
    BY <2>1 DEF Close, BookOf
  <2> QED
    BY <2>2 DEF Flat
<1> QED
  BY <1>1, <1>2

\* Rows up to a time are a prefix of the rows.
LEMMA RowAtBounds ==
    ASSUME NEW rs \in Seq(Row), NEW t
    PROVE  RowAt(rs, t) \in 0 .. Len(rs)
<1> DEFINE S == {i \in DOMAIN rs : rs[i].ts <= t}
<1>1. DOMAIN rs = 1 .. Len(rs) /\ Len(rs) \in Nat
  OBVIOUS
<1>2. IsFiniteSet(1 .. Len(rs)) /\ Cardinality(1 .. Len(rs)) = Len(rs)
  BY <1>1, FS_Interval
<1>3. S \subseteq 1 .. Len(rs)
  BY <1>1
<1>4. IsFiniteSet(S) /\ Cardinality(S) <= Len(rs)
  BY <1>2, <1>3, FS_Subset
<1>5. Cardinality(S) \in Nat
  BY <1>4, FS_CardinalityType
<1> QED
  BY <1>1, <1>4, <1>5 DEF RowAt

-----------------------------------------------------------------------------
(* The steps.                                                              *)

LEMMA BatchesAreRows ==
    ASSUME rows \in Seq(Row), NEW b \in Batches
    PROVE  b \in Seq(Row)
<1>1. \A r \in Row : RowsAfter(r) \subseteq Row
  BY RowAssumption DEF RowsAfter, Row
<1>2. FirstRows \subseteq Row
  BY RowAssumption DEF FirstRows, Row
<1>3. ASSUME rows # <<>> PROVE rows[Len(rows)] \in Row
  BY <1>3
<1> DEFINE firsts == IF rows = <<>> THEN FirstRows ELSE RowsAfter(rows[Len(rows)])
<1>4. firsts \subseteq Row
  BY <1>1, <1>2, <1>3
<1>5. CASE \E r \in firsts : b = <<r>>
  BY <1>4, <1>5
<1>6. CASE \E r \in firsts : \E s \in RowsAfter(r) : b = <<r, s>>
  BY <1>1, <1>4, <1>6
<1> QED
  BY <1>5, <1>6 DEF Batches

LEMMA Initially == Init => IInv
<1> SUFFICES ASSUME Init PROVE IInv
  OBVIOUS
<1>1. \A p \in Policies : book[p].pos.side = 0
  BY DEF Init, NewBook, BookOf, Flat
<1> QED
  BY <1>1 DEF Init, NewDay, IInv, AllFlat

\* Closing flattens every book.
LEMMA CloseFlattens ==
    ASSUME NEW last, CloseSession(last)
    PROVE  AllFlat'
  BY FlattenFlat DEF CloseSession, AllFlat

LEMMA ReceiveStep == IInv /\ Receive => IInv'
<1> SUFFICES ASSUME IInv, Receive PROVE IInv'
  OBVIOUS
<1>1. buf' \in Seq(Row)
  BY BatchesAreRows DEF IInv, Receive
<1> QED
  BY <1>1 DEF IInv, Receive, Idle, AllFlat

LEMMA AbsorbStep == IInv /\ Absorb => IInv'
<1> SUFFICES ASSUME IInv, Absorb PROVE IInv'
  OBVIOUS
<1> DEFINE k == RowAt(buf, NextEvent)
           day == rows \o SubSeq(buf, 1, k)
           new == [p \in Policies |-> CheckExits(book[p], day, Len(day))]
<1>1. rows' = day /\ buf' = SubSeq(buf, k + 1, Len(buf)) /\ book' = new
      /\ target' = TargetAfterExits(new)
      /\ UNCHANGED <<fills, asking, closed>> /\ ~closed
  BY DEF Absorb, Appended
<1>2. k \in 0 .. Len(buf)
  BY RowAtBounds DEF IInv
<1>3. SubSeq(buf, 1, k) \in Seq(Row) /\ buf' \in Seq(Row)
  BY <1>1, <1>2 DEF IInv
<1>4. rows' \in Seq(Row)
  BY <1>1, <1>3 DEF IInv
<1>5. ASSUME rows' = <<>> PROVE AllFlat' /\ fills' = {} /\ asking' = 0
  <2> DEFINE s == SubSeq(buf, 1, k)
  <2>a. s \in Seq(Row) /\ rows \in Seq(Row) /\ rows \o s = <<>>
    BY <1>1, <1>3, <1>5 DEF IInv
  <2>b. Len(rows) + Len(s) = 0 /\ Len(rows) \in Nat /\ Len(s) \in Nat
    <3> HIDE DEF s
    <3>1. Len(rows \o s) = Len(rows) + Len(s)
      BY <2>a
    <3> QED
      BY <2>a, <3>1
  <2>1. rows = <<>>
    BY <2>a, <2>b
  <2>2. \A p \in Policies : new[p].pos.side = 0
    BY <2>1, CheckExitsFlat DEF IInv, AllFlat
  <2>3. target' = 0
    BY <1>1, <2>1 DEF IInv, AllFlat, TargetAfterExits
  <2> QED
    BY <1>1, <2>1, <2>2, <2>3 DEF IInv, AllFlat
<1> QED
  BY <1>1, <1>3, <1>4, <1>5 DEF IInv

\* The steps that leave rows and buf alone and close nothing need a session with rows.
LEMMA EngineStep ==
    ASSUME IInv, FireFills \/ SkipDecision \/ Ask \/ Answer \/ DataEnds \/ Cancel
    PROVE  IInv'
<1>1. CASE FireFills
  BY <1>1 DEF IInv, FireFills, Due, Drain
<1>2. CASE SkipDecision
  BY <1>2 DEF IInv, SkipDecision, AllFlat
<1>3. CASE Ask
  BY <1>3 DEF IInv, Ask, AtDecision, DecisionRow, Due
<1>4. CASE Answer
  BY <1>4 DEF IInv, Answer
<1>5. CASE DataEnds
  BY <1>5 DEF IInv, DataEnds, AllFlat
<1>6. CASE Cancel
  <2>1. <<>> \in Seq(Row)
    OBVIOUS
  <2> QED
    BY <1>6, <2>1 DEF IInv, Cancel, AllFlat
<1> QED
  BY <1>1, <1>2, <1>3, <1>4, <1>5, <1>6

LEMMA ClosingStep ==
    ASSUME IInv, FireEnd \/ FinishClose \/ FinishEmpty
    PROVE  IInv'
<1>1. CASE FireEnd
  <2>1. AllFlat'
    BY <1>1, CloseFlattens DEF FireEnd
  <2> QED
    BY <1>1, <2>1 DEF IInv, FireEnd, Due
<1>2. CASE FinishClose
  <2>1. AllFlat'
    BY <1>2, CloseFlattens DEF FinishClose
  <2> QED
    BY <1>2, <2>1 DEF IInv, FinishClose, Drain
<1>3. CASE FinishEmpty
  BY <1>3 DEF IInv, FinishEmpty, AllFlat
<1> QED
  BY <1>1, <1>2, <1>3

LEMMA Inductive == IInv /\ [Next]_vars => IInv'
<1> SUFFICES ASSUME IInv, [Next]_vars PROVE IInv'
  OBVIOUS
<1>1. CASE Receive
  BY <1>1, ReceiveStep
<1>2. CASE Absorb
  BY <1>2, AbsorbStep
<1>3. CASE FireFills \/ SkipDecision \/ Ask \/ Answer \/ DataEnds \/ Cancel
  BY <1>3, EngineStep
<1>4. CASE FireEnd \/ FinishClose \/ FinishEmpty
  BY <1>4, ClosingStep
<1>5. CASE UNCHANGED vars
  BY <1>5 DEF IInv, AllFlat, vars
<1> QED
  BY <1>1, <1>2, <1>3, <1>4, <1>5 DEF Next

-----------------------------------------------------------------------------

\* However the session ends - the clock, the data, a signal inside a decision -
\* no book stays open and flat is announced (Engine._close_session, finish).
THEOREM ClosedFlat == Spec => []ClosedMeansFlat
<1>1. IInv => ClosedMeansFlat
  BY DEF IInv, AllFlat, ClosedMeansFlat
<1> QED
  BY <1>1, Initially, Inductive, PTL DEF Spec
-----------------------------------------------------------------------------
(* Minima, and rows in order.                                              *)

Below == {p \in Nat \X Nat : p[1] < p[2]}

\* A set of natural numbers that is not empty has a least element.
LEMMA LeastNatural ==
    ASSUME NEW S, S \subseteq Nat, S # {}
    PROVE  \E x \in S : \A y \in S : x <= y
<1>1. IsWellFoundedOn(Below, Nat)
  BY NatLessThanWellFounded DEF OpToRel, Below
<1>2. PICK x \in S : \A y \in S : ~(<<y, x>> \in Below)
  BY <1>1, WFMin
<1>3. ASSUME NEW y \in S, y < x PROVE FALSE
  <2>1. <<y, x>> \in Below
    BY <1>3 DEF Below
  <2> QED
    BY <1>2, <2>1
<1> QED
  BY <1>3

\* SetMin finds it.
LEMMA SetMinIs ==
    ASSUME NEW S, S \subseteq Nat, S # {}
    PROVE  SetMin(S) \in S /\ \A y \in S : SetMin(S) <= y
  BY LeastNatural DEF SetMin

Timed == [ts : 0 .. MaxTs, bid : Int]
Climbs(s) == \A i, j \in DOMAIN s : i < j => s[i].ts < s[j].ts

LEMMA IntervalSize ==
    ASSUME NEW n \in Nat
    PROVE  IsFiniteSet(1 .. n) /\ Cardinality(1 .. n) = n
<1>1. 1 \in Int /\ n \in Int /\ ~(1 > n + 1)
  OBVIOUS
<1>2. IsFiniteSet(1 .. n) /\ Cardinality(1 .. n) = IF 1 > n THEN 0 ELSE n - 1 + 1
  BY <1>1, FS_Interval
<1> QED
  BY <1>2

LEMMA TimedTyped ==
    ASSUME NEW rs \in Seq(Timed), NEW i \in DOMAIN rs
    PROVE  rs[i] \in Timed /\ rs[i].ts \in 0 .. MaxTs /\ rs[i].ts \in Int /\ rs[i].bid \in Int
<1>1. rs[i] \in Timed
  OBVIOUS
<1> QED
  BY <1>1, RowAssumption DEF Timed

LEMMA RowsTyped == ASSUME NEW rs \in Seq(Timed) PROVE rs \in Seq(Row)
<1>1. Timed \subseteq Row
  BY RowAssumption DEF Timed, Row
<1> QED
  BY <1>1

\* The rows up to a time are all the rows, when none is later.
LEMMA RowAtAll ==
    ASSUME NEW rs \in Seq(Timed), NEW t, \A i \in DOMAIN rs : rs[i].ts <= t
    PROVE  RowAt(rs, t) = Len(rs)
<1>1. {i \in DOMAIN rs : rs[i].ts <= t} = 1 .. Len(rs)
  OBVIOUS
<1>2. Len(rs) \in Nat
  OBVIOUS
<1>3. Cardinality(1 .. Len(rs)) = Len(rs)
  BY <1>2, IntervalSize
<1> QED
  BY <1>1, <1>3 DEF RowAt

\* They are the first rows, when the rows are in order.
LEMMA RowAtFirst ==
    ASSUME NEW rs \in Seq(Timed), Climbs(rs), NEW t \in Int, NEW i \in 1 .. RowAt(rs, t)
    PROVE  i \in DOMAIN rs /\ rs[i].ts <= t
<1> DEFINE S == {j \in DOMAIN rs : rs[j].ts <= t}
<1>1. DOMAIN rs = 1 .. Len(rs) /\ Len(rs) \in Nat
  OBVIOUS
<1>a. \A j \in DOMAIN rs : rs[j].ts \in Int
  BY TimedTyped
<1>2. IsFiniteSet(1 .. Len(rs)) /\ Cardinality(1 .. Len(rs)) = Len(rs)
  BY <1>1, IntervalSize
<1>3. IsFiniteSet(S) /\ Cardinality(S) <= Len(rs) /\ Cardinality(S) \in Nat
  BY <1>1, <1>2, FS_Subset, FS_CardinalityType
<1>4. i \in 1 .. Len(rs) /\ i <= Cardinality(S)
  BY <1>1, <1>3 DEF RowAt
<1>5. ASSUME rs[i].ts > t PROVE FALSE
  <2>1. S \subseteq 1 .. i - 1
    <3>1. ASSUME NEW j \in S PROVE j < i
      <4>1. j \in DOMAIN rs /\ rs[j].ts <= t
        OBVIOUS
      <4>2. ~(i < j) /\ j # i
        BY <1>1, <1>a, <1>4, <1>5, <4>1 DEF Climbs
      <4> QED
        BY <1>1, <1>4, <4>1, <4>2
    <3> QED
      BY <1>1, <3>1
  <2>2. IsFiniteSet(1 .. i - 1) /\ Cardinality(1 .. i - 1) = i - 1
    BY <1>4, FS_Interval
  <2>3. Cardinality(S) <= i - 1
    BY <2>1, <2>2, FS_Subset
  <2> QED
    BY <1>3, <1>4, <2>3
<1> QED
  BY <1>1, <1>a, <1>4, <1>5

-----------------------------------------------------------------------------
(* The book, of any rows in order.                                         *)

Trade == [side : {-1, 0, 1}, entry : 0 .. MaxTs, entryPx : Int,
          exit : 0 .. MaxTs, exitPx : Int, reason : {"stop", "target", "jev", "eod"}]
Books == [pos : Positions, watch : Nat, trades : Seq(Trade)]

LEMMA FlatTyped == Flat \in Positions /\ Flat.side = 0
  BY RowAssumption DEF Flat, Positions

LEMMA BookTyped ==
    ASSUME NEW pos \in Positions, NEW w \in Nat, NEW tr \in Seq(Trade)
    PROVE  /\ BookOf(pos, w, tr) \in Books
           /\ BookOf(pos, w, tr).pos = pos /\ BookOf(pos, w, tr).watch = w
           /\ BookOf(pos, w, tr).trades = tr
  BY DEF BookOf, Books

LEMMA TouchTyped ==
    ASSUME NEW rs \in Seq(Timed), NEW i \in DOMAIN rs, NEW side
    PROVE  Touch(rs, i, side) \in Int
  BY TimedTyped DEF Touch

\* Closing books one trade and leaves the book flat.
LEMMA CloseTyped ==
    ASSUME NEW bk \in Books, NEW rs \in Seq(Timed), NEW i \in DOMAIN rs, NEW px \in Int,
           NEW reason \in {"stop", "target", "jev", "eod"}
    PROVE  LET c == Close(bk, rs, i, px, reason)
           IN  /\ c \in Books /\ c.pos = Flat /\ c.watch = bk.watch
               /\ Len(c.trades) = Len(bk.trades) + 1
<1> DEFINE tr == [side |-> bk.pos.side, entry |-> bk.pos.ts, entryPx |-> bk.pos.px,
                  exit |-> rs[i].ts, exitPx |-> px, reason |-> reason]
<1>1. bk.pos \in Positions /\ bk.watch \in Nat /\ bk.trades \in Seq(Trade) /\ rs[i] \in Timed
  BY DEF Books
<1>2. tr \in Trade
  BY <1>1 DEF Positions, Trade, Timed
<1>3. Close(bk, rs, i, px, reason) = BookOf(Flat, bk.watch, Append(bk.trades, tr))
  BY DEF Close
<1> HIDE DEF tr
<1> DEFINE q == Append(bk.trades, tr)
<1>4. q \in Seq(Trade) /\ Len(q) = Len(bk.trades) + 1
  BY <1>1, <1>2
<1>a. Flat \in Positions
  BY FlatTyped
<1> HIDE DEF q
<1>5. /\ BookOf(Flat, bk.watch, q) \in Books /\ BookOf(Flat, bk.watch, q).pos = Flat
      /\ BookOf(Flat, bk.watch, q).watch = bk.watch /\ BookOf(Flat, bk.watch, q).trades = q
  BY <1>1, <1>4, <1>a DEF BookOf, Books
<1> QED
  BY <1>3, <1>4, <1>5 DEF q

NoHit(rs, i, pos) == ~StopHit(rs, i, pos) /\ ~TargetHit(rs, i, pos)

\* CheckExits up to the last row leaves the next row to watch, and either a flat
\* book with one more trade, or the position, which no row it looked at has hit.
LEMMA ExitsChecked ==
    ASSUME NEW bk \in Books, NEW rs \in Seq(Timed), bk.watch \in 1 .. Len(rs) + 1
    PROVE  LET c == CheckExits(bk, rs, Len(rs))
           IN  /\ c \in Books /\ c.watch = Len(rs) + 1
               /\ \/ /\ c.pos = bk.pos /\ c.trades = bk.trades
                     /\ bk.pos.side # 0 => \A i \in bk.watch .. Len(rs) : NoHit(rs, i, bk.pos)
                  \/ /\ c.pos = Flat /\ bk.pos.side # 0 /\ Len(c.trades) = Len(bk.trades) + 1
<1> DEFINE upto == Len(rs)
           hits == {i \in bk.watch .. upto : StopHit(rs, i, bk.pos) \/ TargetHit(rs, i, bk.pos)}
           seen == BookOf(bk.pos, NextWatch(bk.watch, upto), bk.trades)
           k    == CHOOSE i \in hits : \A j \in hits : i <= j
           c    == CheckExits(bk, rs, Len(rs))
<1>1. bk.pos \in Positions /\ bk.watch \in Nat /\ bk.trades \in Seq(Trade) /\ upto \in Nat
  BY DEF Books
<1>2. NextWatch(bk.watch, upto) = upto + 1
  BY <1>1 DEF NextWatch
<1>3. seen \in Books /\ seen.pos = bk.pos /\ seen.watch = upto + 1 /\ seen.trades = bk.trades
  BY <1>1, <1>2, BookTyped
<1>4. CASE bk.pos.side = 0 \/ hits = {}
  <2>1. c = seen
    BY <1>4, Zenon DEF CheckExits
  <2> QED
    BY <1>3, <1>4, <2>1 DEF NoHit
<1>5. CASE bk.pos.side # 0 /\ hits # {}
  <2>1. hits \subseteq Nat /\ hits \subseteq DOMAIN rs
    BY <1>1
  <2>2. k \in hits
    BY <1>5, <2>1, LeastNatural
  <2>3. k \in DOMAIN rs
    BY <2>1, <2>2
  <2>4. \/ c = Close(seen, rs, k, Touch(rs, k, bk.pos.side), "stop")
        \/ c = Close(seen, rs, k, bk.pos.px + bk.pos.side * Target, "target")
    BY <1>5, Zenon DEF CheckExits
  <2>5. Touch(rs, k, bk.pos.side) \in Int /\ bk.pos.px + bk.pos.side * Target \in Int
    BY <1>1, <2>3, TouchTyped, FilterAssumption DEF Positions
  <2> HIDE DEF k, seen, c
  <2>a. ASSUME NEW px \in Int, NEW reason \in {"stop", "target", "jev", "eod"},
               c = Close(seen, rs, k, px, reason)
        PROVE  /\ c \in Books /\ c.pos = Flat /\ c.watch = seen.watch
               /\ Len(c.trades) = Len(seen.trades) + 1
    BY <1>3, <2>3, <2>a, CloseTyped
  <2>6. /\ c \in Books /\ c.pos = Flat /\ c.watch = seen.watch
        /\ Len(c.trades) = Len(seen.trades) + 1
    BY <2>4, <2>5, <2>a
  <2> QED
    BY <1>3, <1>5, <2>6 DEF c
<1> QED
  BY <1>4, <1>5

\* Once every row is seen, looking again finds nothing.
LEMMA NothingLeft ==
    ASSUME NEW bk \in Books, NEW n \in Nat, NEW upto \in 0 .. n, NEW rs, bk.watch = n + 1
    PROVE  CheckExits(bk, rs, upto) = bk
<1>1. {i \in bk.watch .. upto : StopHit(rs, i, bk.pos) \/ TargetHit(rs, i, bk.pos)} = {}
  OBVIOUS
<1>2. NextWatch(bk.watch, upto) = bk.watch
  BY DEF NextWatch
<1>3. CheckExits(bk, rs, upto) = BookOf(bk.pos, NextWatch(bk.watch, upto), bk.trades)
  BY <1>1, Zenon DEF CheckExits
<1>4. bk = [pos |-> bk.pos, watch |-> bk.watch, trades |-> bk.trades]
  BY DEF Books
<1> QED
  BY <1>2, <1>3, <1>4 DEF BookOf

\* An order that fills at the last row leaves a book on its side, entered there or
\* there already.
LEMMA GoTyped ==
    ASSUME NEW bk \in Books, NEW rs \in Seq(Timed), rs # <<>>, bk.watch = Len(rs) + 1,
           NEW side \in {-1, 1}, NEW t, RowAt(rs, t + Latency) = Len(rs)
    PROVE  LET g == Go(bk, rs, side, t)
           IN  /\ g \in Books /\ g.watch = Len(rs) + 1 /\ g.pos.side = side
               /\ g.pos = bk.pos \/ g.pos.ts = rs[Len(rs)].ts
<1> DEFINE f     == RowAt(rs, t + Latency)
           swept == CheckExits(bk, rs, f)
           px    == Touch(rs, f, -side)
           out   == IF swept.pos.side = 0 THEN swept ELSE Close(swept, rs, f, px, "jev")
           pos   == [side |-> side, px |-> px, ts |-> rs[f].ts]
           g     == Go(bk, rs, side, t)
<1>1. f = Len(rs) /\ Len(rs) \in Nat /\ f \in DOMAIN rs
  OBVIOUS
<1>2. swept = bk
  BY <1>1, NothingLeft
<1>3. px \in Int /\ pos \in Positions
  <2>1. px \in Int
    BY <1>1, TouchTyped
  <2>2. rs[f] \in Timed
    BY <1>1
  <2> QED
    BY <2>1, <2>2 DEF Positions, Timed
<1>4. out.trades \in Seq(Trade)
  <2>1. bk.trades \in Seq(Trade)
    BY DEF Books
  <2>2. Close(bk, rs, f, px, "jev") \in Books
    BY <1>1, <1>3, CloseTyped
  <2>3. Close(bk, rs, f, px, "jev").trades \in Seq(Trade)
    BY <2>2 DEF Books
  <2> QED
    BY <1>2, <2>1, <2>3
<1>5. g = IF side = bk.pos.side THEN bk
          ELSE IF side = swept.pos.side THEN swept
          ELSE BookOf(pos, f + 1, out.trades)
  BY Zenon DEF Go
<1>6. pos.side = side /\ pos.ts = rs[f].ts
  OBVIOUS
<1> HIDE DEF f, swept, px, out, pos, g
<1> DEFINE tr == out.trades
           w  == f + 1
<1>7. tr \in Seq(Trade) /\ w \in Nat /\ w = Len(rs) + 1
  BY <1>1, <1>4
<1> HIDE DEF tr, w
<1>8. BookOf(pos, w, tr) \in Books /\ BookOf(pos, w, tr).pos = pos /\ BookOf(pos, w, tr).watch = w
  BY <1>3, <1>7 DEF BookOf, Books
<1>9. g = IF side = bk.pos.side THEN bk
          ELSE IF side = swept.pos.side THEN swept ELSE BookOf(pos, w, tr)
  BY <1>5 DEF w, tr
<1> QED
  BY <1>1, <1>2, <1>6, <1>7, <1>8, <1>9 DEF g

\* Flattening at the last row.
LEMMA FlattenTyped ==
    ASSUME NEW bk \in Books, NEW rs \in Seq(Timed), bk.watch = Len(rs) + 1,
           bk.pos.side # 0 => rs # <<>>
    PROVE  LET c == Flatten(bk, rs, Len(rs)) IN c \in Books /\ c.watch = Len(rs) + 1
<1> DEFINE last == Len(rs)
           swept == CheckExits(bk, rs, last)
<1>1. last \in Nat /\ swept = bk
  BY NothingLeft
<1>2. CASE bk.pos.side = 0
  BY <1>1, <1>2, Zenon DEF Flatten
<1>3. CASE bk.pos.side # 0
  <2>1. Flatten(bk, rs, last) = Close(bk, rs, last, Touch(rs, last, bk.pos.side), "eod")
    BY <1>1, <1>3, Zenon DEF Flatten
  <2>2. last \in DOMAIN rs
    BY <1>3
  <2> QED
    BY <2>1, <2>2, CloseTyped, TouchTyped
<1> QED
  BY <1>2, <1>3

-----------------------------------------------------------------------------
(* The invariant of the engine.  The rows it has appended are in order and *)
(* none is later than the next event, so an order fills at the last of     *)
(* them and every book has looked at all of them.  An order fills by the   *)
(* next decision, so no policy has two in flight and none is while the     *)
(* policies are asked.                                                     *)

Said     == {"BUY", "SELL", "HOLD"}
Decision == [t : Int, row : Nat, warm : BOOLEAN, answer : [Policies -> Said]]
Order    == [at : Nat, policy : Policies, side : {-1, 1}, send : Nat]

InOrder ==
    /\ rows \in Seq(Timed) /\ buf \in Seq(Timed)
    /\ Climbs(rows) /\ Climbs(buf)
    /\ \A i \in DOMAIN rows, j \in DOMAIN buf : rows[i].ts < buf[j].ts

NoRowAfter(t) == \A i \in DOMAIN rows : rows[i].ts <= t

NoneTooFar ==
    /\ NoRowAfter(EndNs)
    /\ gi <= GridLen => NoRowAfter(Grid(gi))
    /\ asking # 0 => NoRowAfter(asking)
    /\ \A f \in fills : NoRowAfter(f.at)

InFlight ==
    /\ gi \in 1 .. GridLen + 1
    /\ \A f \in fills : f \in Order /\ f.at = f.send + Latency /\ f.at <= Grid(gi)
    /\ \A f, g \in fills : f.policy = g.policy => f = g
    /\ asking # 0 => fills = {} /\ gi > 1 /\ asking = Grid(gi - 1)

Watched ==
    /\ book \in [Policies -> Books]
    /\ \A p \in Policies : book[p].watch = Len(rows) + 1

PlainTypes ==
    /\ set \in Settings /\ closed \in BOOLEAN /\ warmUntil \in Nat
    /\ decisions \in Seq(Decision) /\ phase \in {"feeding", "finishing"}
    /\ target \in {-1, 0, 1} /\ cancels \in 0 .. MaxCancels

BInv == IInv /\ InOrder /\ NoneTooFar /\ InFlight /\ Watched /\ PlainTypes
        /\ NoMissedExit /\ TargetFollowsBook

USE DEF NoRowAfter

LEMMA GridTimes ==
    /\ EndNs \in Nat
    /\ \A k \in Nat \ {0} : Grid(k) \in Nat \ {0} /\ Grid(k + 1) = Grid(k) + Cadence
<1>1. \A n \in Nat : n * Cadence \in Nat /\ (n + 1) * Cadence = n * Cadence + Cadence
  BY ClockAssumption
<1>2. EndNs \in Nat
  BY <1>1, ClockAssumption DEF EndNs
<1>3. ASSUME NEW k \in Nat \ {0}
      PROVE  Grid(k) \in Nat \ {0} /\ Grid(k + 1) = Grid(k) + Cadence
  <2>1. k - 1 \in Nat /\ (k - 1) + 1 = k /\ (k + 1) - 1 = k
    OBVIOUS
  <2> DEFINE a == (k - 1) * Cadence
             b == k * Cadence
  <2>2. a \in Nat /\ b = a + Cadence
    BY <1>1, <2>1
  <2>3. Grid(k) = Start + a /\ Grid(k + 1) = Start + b
    BY <2>1 DEF Grid
  <2> HIDE DEF a, b
  <2> QED
    BY <2>2, <2>3, ClockAssumption
<1> QED
  BY <1>2, <1>3

\* The next event is not later than the end, the next decision or any fill.
LEMMA NextEventIs ==
    ASSUME InFlight
    PROVE  /\ NextEvent \in Nat /\ NextEvent <= EndNs
           /\ gi <= GridLen => NextEvent <= Grid(gi)
           /\ \A f \in fills : NextEvent <= f.at
<1> DEFINE S == {EndNs} \cup {f.at : f \in fills} \cup (IF gi <= GridLen THEN {Grid(gi)} ELSE {})
<1>1. S \subseteq Nat
  BY GridTimes, ClockAssumption DEF InFlight, Order
<1>2. SetMin(S) \in S /\ \A y \in S : SetMin(S) <= y
  BY <1>1, SetMinIs
<1>3. NextEvent = SetMin(S)
  BY DEF NextEvent
<1>4. EndNs \in S /\ (gi <= GridLen => Grid(gi) \in S) /\ \A f \in fills : f.at \in S
  OBVIOUS
<1> HIDE DEF S
<1> QED
  BY <1>1, <1>2, <1>3, <1>4

-----------------------------------------------------------------------------
(* Rows.                                                                   *)

LEMMA AppendedRows ==
    ASSUME InOrder, NEW k \in 0 .. Len(buf),
           rows' = rows \o SubSeq(buf, 1, k), buf' = SubSeq(buf, k + 1, Len(buf))
    PROVE  /\ InOrder'
           /\ Len(rows') = Len(rows) + k
           /\ \A i \in DOMAIN rows : i \in DOMAIN rows' /\ rows'[i] = rows[i]
           /\ \A i \in DOMAIN rows' : i \in DOMAIN rows \/ \E j \in 1 .. k : rows'[i] = buf[j]
<1>1. rows \in Seq(Timed) /\ buf \in Seq(Timed)
  BY DEF InOrder
<1>2. SubSeq(buf, 1, k) \in Seq(Timed) /\ Len(SubSeq(buf, 1, k)) = k
      /\ \A i \in 1 .. k : SubSeq(buf, 1, k)[i] = buf[i]
  BY <1>1
<1>3. buf' \in Seq(Timed) /\ Len(buf') = Len(buf) - k /\ \A i \in 1 .. Len(buf) - k : buf'[i] = buf[k + i]
  BY <1>1
<1> DEFINE s == SubSeq(buf, 1, k)
<1> HIDE DEF s
<1>4. rows' \in Seq(Timed) /\ Len(rows') = Len(rows) + k
      /\ \A i \in 1 .. Len(rows) + k : rows'[i] = IF i <= Len(rows) THEN rows[i] ELSE s[i - Len(rows)]
  BY <1>1, <1>2 DEF s
<1>5. \A i \in 1 .. Len(rows) + k :
        rows'[i] = IF i <= Len(rows) THEN rows[i] ELSE buf[i - Len(rows)]
  BY <1>1, <1>2, <1>4 DEF s
<1>6. \A i \in DOMAIN buf : buf[i].ts \in Int
  BY <1>1, TimedTyped
<1>7. \A i \in DOMAIN rows : rows[i].ts \in Int
  BY <1>1, TimedTyped
<1>d. /\ DOMAIN rows = 1 .. Len(rows) /\ DOMAIN buf = 1 .. Len(buf)
      /\ DOMAIN rows' = 1 .. Len(rows) + k /\ DOMAIN buf' = 1 .. Len(buf) - k
      /\ Len(rows) \in Nat /\ Len(buf) \in Nat
  <2>1. DOMAIN rows = 1 .. Len(rows) /\ DOMAIN buf = 1 .. Len(buf)
        /\ Len(rows) \in Nat /\ Len(buf) \in Nat
    BY <1>1
  <2>2. DOMAIN rows' = 1 .. Len(rows')
    BY <1>4
  <2>3. DOMAIN buf' = 1 .. Len(buf')
    BY <1>3
  <2> QED
    BY <1>3, <1>4, <2>1, <2>2, <2>3
<1>8. Climbs(rows')
  <2> SUFFICES ASSUME NEW i \in 1 .. Len(rows) + k, NEW j \in 1 .. Len(rows) + k, i < j
               PROVE  rows'[i].ts < rows'[j].ts
    BY <1>d DEF Climbs
  <2>1. CASE j <= Len(rows)
    BY <1>1, <1>5, <2>1 DEF InOrder, Climbs
  <2>2. CASE i <= Len(rows) /\ j > Len(rows)
    <3>1. i \in DOMAIN rows /\ j - Len(rows) \in DOMAIN buf
      BY <1>1, <2>2
    <3> QED
      BY <1>1, <1>5, <2>2, <3>1 DEF InOrder
  <2>3. CASE i > Len(rows)
    <3>1. i - Len(rows) \in DOMAIN buf /\ j - Len(rows) \in DOMAIN buf /\ i - Len(rows) < j - Len(rows)
      BY <1>1, <2>3
    <3>2. rows'[i] = buf[i - Len(rows)] /\ rows'[j] = buf[j - Len(rows)]
      BY <1>1, <1>5, <2>3
    <3> QED
      BY <3>1, <3>2 DEF InOrder, Climbs
  <2> QED
    BY <1>1, <2>1, <2>2, <2>3
<1>9. Climbs(buf')
  <2> SUFFICES ASSUME NEW i \in 1 .. Len(buf) - k, NEW j \in 1 .. Len(buf) - k, i < j
               PROVE  buf'[i].ts < buf'[j].ts
    BY <1>d DEF Climbs
  <2>1. k + i \in DOMAIN buf /\ k + j \in DOMAIN buf /\ k + i < k + j
    BY <1>1
  <2> QED
    BY <1>3, <2>1 DEF InOrder, Climbs
<1>10. \A i \in DOMAIN rows', j \in DOMAIN buf' : rows'[i].ts < buf'[j].ts
  <2> SUFFICES ASSUME NEW i \in 1 .. Len(rows) + k, NEW j \in 1 .. Len(buf) - k
               PROVE  rows'[i].ts < buf[k + j].ts
    BY <1>3, <1>d
  <2>1. k + j \in DOMAIN buf
    BY <1>1
  <2>2. CASE i <= Len(rows)
    <3>1. i \in DOMAIN rows
      BY <1>1, <2>2
    <3> QED
      BY <1>1, <1>5, <2>1, <2>2, <3>1 DEF InOrder
  <2>3. CASE i > Len(rows)
    <3>1. i - Len(rows) \in DOMAIN buf /\ i - Len(rows) < k + j
      BY <1>1, <2>3
    <3> QED
      BY <1>1, <1>5, <2>1, <2>3, <3>1 DEF InOrder, Climbs
  <2> QED
    BY <1>1, <2>2, <2>3
<1>11. \A i \in DOMAIN rows : i \in DOMAIN rows' /\ rows'[i] = rows[i]
  BY <1>1, <1>4, <1>5
<1>12. \A i \in DOMAIN rows' : i \in DOMAIN rows \/ \E j \in 1 .. k : rows'[i] = buf[j]
  <2> SUFFICES ASSUME NEW i \in 1 .. Len(rows) + k, i \notin DOMAIN rows
               PROVE  \E j \in 1 .. k : rows'[i] = buf[j]
    BY <1>d
  <2>1. i > Len(rows) /\ i - Len(rows) \in 1 .. k
    BY <1>1
  <2> QED
    BY <1>5, <2>1
<1> QED
  BY <1>3, <1>4, <1>8, <1>9, <1>10, <1>11, <1>12 DEF InOrder

\* A batch continues the rows.
LEMMA BatchesContinue ==
    ASSUME InOrder, NEW b \in Batches
    PROVE  /\ b \in Seq(Timed) /\ Climbs(b) /\ b # <<>>
           /\ \A i \in DOMAIN rows, j \in DOMAIN b : rows[i].ts < b[j].ts
<1>1. rows \in Seq(Timed)
  BY DEF InOrder
<1>2. ASSUME NEW r \in Timed, NEW q \in RowsAfter(r) PROVE q \in Timed /\ r.ts < q.ts
  <2>1. PICK t \in {u \in r.ts + 1 .. r.ts + 1 + MaxGap : u <= MaxTs}, m \in Moves :
             q = [ts |-> t, bid |-> r.bid + m]
    BY <1>2 DEF RowsAfter
  <2>2. r.ts \in 0 .. MaxTs /\ r.bid \in Int
    BY DEF Timed
  <2>3. t \in 0 .. MaxTs /\ r.ts < t /\ r.bid + m \in Int
    BY <2>2, RowAssumption
  <2> QED
    BY <2>1, <2>3 DEF Timed
<1>3. FirstRows \subseteq Timed
  <2>1. ASSUME NEW t \in FirstTs PROVE [ts |-> t, bid |-> FirstBid] \in Timed
    <3>1. t \in 0 .. MaxTs /\ FirstBid \in Int
      BY RowAssumption
    <3> QED
      BY <3>1 DEF Timed
  <2> QED
    BY <2>1 DEF FirstRows
<1> DEFINE firsts == IF rows = <<>> THEN FirstRows ELSE RowsAfter(rows[Len(rows)])
<1>4. ASSUME NEW r \in firsts PROVE r \in Timed /\ \A i \in DOMAIN rows : rows[i].ts < r.ts
  <2>1. CASE rows = <<>>
    BY <1>3, <1>4, <2>1
  <2>2. CASE rows # <<>>
    <3>1. Len(rows) \in DOMAIN rows /\ rows[Len(rows)] \in Timed /\ DOMAIN rows = 1 .. Len(rows)
      BY <1>1, <2>2
    <3>2. r \in Timed /\ rows[Len(rows)].ts < r.ts
      BY <1>2, <1>4, <2>2, <3>1
    <3>3. \A i \in DOMAIN rows : rows[i].ts \in Int
      BY <1>1, TimedTyped
    <3>4. ASSUME NEW i \in DOMAIN rows PROVE rows[i].ts < r.ts
      <4>1. i = Len(rows) \/ rows[i].ts < rows[Len(rows)].ts
        BY <1>1, <3>1, <3>4 DEF InOrder, Climbs
      <4>2. r.ts \in Int
        BY <3>2, RowAssumption DEF Timed
      <4> QED
        BY <3>1, <3>2, <3>3, <4>1, <4>2
    <3> QED
      BY <3>2, <3>4
  <2> QED
    BY <2>1, <2>2
<1> HIDE DEF firsts
<1>5. CASE \E r \in firsts : b = <<r>>
  BY <1>4, <1>5 DEF Climbs
<1>6. ASSUME NEW r \in firsts, NEW q \in RowsAfter(r), b = <<r, q>>
      PROVE  /\ b \in Seq(Timed) /\ Climbs(b) /\ b # <<>>
             /\ \A i \in DOMAIN rows, j \in DOMAIN b : rows[i].ts < b[j].ts
  <2>1. r \in Timed /\ q \in Timed /\ r.ts < q.ts /\ \A i \in DOMAIN rows : rows[i].ts < r.ts
    BY <1>2, <1>4
  <2>2. r.ts \in 0 .. MaxTs /\ q.ts \in 0 .. MaxTs
    BY <2>1 DEF Timed
  <2>3. r.ts \in Int /\ q.ts \in Int /\ \A i \in DOMAIN rows : rows[i].ts \in Int
    BY <1>1, <2>2, TimedTyped, RowAssumption
  <2>4. b \in Seq(Timed) /\ DOMAIN b = 1 .. 2 /\ b[1] = r /\ b[2] = q
    BY <1>6, <2>1
  <2>5. ASSUME NEW i \in 1 .. 2, NEW j \in 1 .. 2, i < j PROVE i = 1 /\ j = 2
    BY <2>5
  <2>6. Climbs(b)
    BY <2>1, <2>4, <2>5 DEF Climbs
  <2>7. ASSUME NEW i \in DOMAIN rows, NEW j \in DOMAIN b PROVE rows[i].ts < b[j].ts
    <3>1. rows[i].ts < r.ts /\ (j = 1 \/ j = 2)
      BY <2>1, <2>4
    <3> QED
      BY <2>1, <2>3, <2>4, <3>1
  <2> QED
    BY <1>6, <2>4, <2>6, <2>7
<1> QED
  BY <1>5, <1>6 DEF Batches, firsts

-----------------------------------------------------------------------------
(* The orders a decision sends.                                            *)

\* A policy that is asked says one of the three: a decision past the warm-up leaves
\* at least one answer to go by.
LEMMA ActionTyped ==
    ASSUME NEW opts, NEW ds \in Seq(Decision), ds # <<>>, NEW p \in Policies, NEW t, NEW pos
    PROVE  Action(opts, p, ds, t, pos) \in Said
<1> DEFINE n    == Len(ds)
           W    == {i \in DOMAIN ds : ds[i].warm}
           skip == Cardinality(W)
           m    == n - skip
           mine == [i \in 1 .. m |-> ds[skip + i].answer[p]]
<1>1. n \in Nat /\ n >= 1 /\ DOMAIN ds = 1 .. n /\ \A i \in 1 .. n : ds[i] \in Decision
  OBVIOUS
<1>2. CASE ds[n].warm
  BY <1>2, Zenon DEF Action, Said
<1>3. CASE ~ds[n].warm
  <2>1. W \subseteq 1 .. n - 1
    BY <1>1, <1>3
  <2>2. IsFiniteSet(1 .. n - 1) /\ Cardinality(1 .. n - 1) = n - 1
    BY <1>1, IntervalSize
  <2>3. skip \in Nat /\ skip <= n - 1
    BY <2>1, <2>2, FS_Subset, FS_CardinalityType
  <2> HIDE DEF W, skip
  <2>4. m \in Nat /\ m >= 1
    BY <1>1, <2>3
  <2>5. ASSUME NEW i \in 1 .. m PROVE ds[skip + i].answer[p] \in Said
    <3>1. skip + i \in 1 .. n
      BY <1>1, <2>3
    <3> DEFINE e == ds[skip + i]
    <3>2. e \in Decision
      BY <1>1, <3>1
    <3> HIDE DEF e
    <3>3. e.answer \in [Policies -> Said]
      BY <3>2 DEF Decision
    <3> QED
      BY <3>3 DEF e
  <2> HIDE DEF m
  <2>6. mine \in Seq(Said) /\ Len(mine) = m
    BY <2>4, <2>5
  <2>7. mine[m] \in Said
    BY <2>4, <2>5
  <2>8. Action(opts, p, ds, t, pos) = IF p = Jev THEN Gate(opts, mine, t, pos) ELSE mine[Len(mine)]
    BY <1>3, Zenon DEF Action, m, skip, W
  <2> HIDE DEF mine
  <2>9. Gate(opts, mine, t, pos) \in {mine[Len(mine)], "HOLD"}
    BY Zenon DEF Gate
  <2>10. "HOLD" \in Said
    BY DEF Said
  <2> QED
    BY <2>6, <2>7, <2>8, <2>9, <2>10
<1> QED
  BY <1>2, <1>3

\* A decision's orders fill by the next decision, one of each policy at most.
LEMMA OrdersTyped ==
    ASSUME PlainTypes, NEW ds \in Seq(Decision), ds # <<>>, NEW t \in Nat, NEW d \in Delays
    PROVE  /\ \A f \in OrdersOf(ds, t, t + d) :
                 f \in Order /\ f.at = f.send + Latency /\ t <= f.at /\ f.at <= t + Cadence
           /\ \A f, g \in OrdersOf(ds, t, t + d) : f.policy = g.policy => f = g
<1> DEFINE act(p)  == Action(set, p, ds, t, book[p].pos)
           s(p)    == IF p = Jev THEN t + d ELSE t
           order(p) == [at |-> s(p) + Latency, policy |-> p, side |-> SideOf[act(p)],
                        send |-> s(p)]
           Q == {q \in Policies : SendsOrder(act(q), book[q].pos.side)}
<1>1. d \in Nat /\ Latency \in Nat /\ d + Latency <= Cadence /\ Latency <= Cadence /\ Cadence \in Nat
  BY ClockAssumption
<1>2. ASSUME NEW p \in Policies
      PROVE  s(p) \in Nat /\ t <= s(p) /\ s(p) + Latency \in Nat /\ s(p) + Latency <= t + Cadence
  BY <1>1
<1>3. ASSUME NEW q \in Q PROVE q \in Policies /\ SideOf[act(q)] \in {-1, 1}
  <2>1. q \in Policies /\ act(q) \in Said /\ act(q) # "HOLD"
    BY ActionTyped DEF SendsOrder
  <2>2. act(q) = "BUY" \/ act(q) = "SELL"
    BY <2>1 DEF Said
  <2> HIDE DEF act
  <2> QED
    BY <2>1, <2>2 DEF SideOf
<1>4. OrdersOf(ds, t, t + d) = {order(p) : p \in Q}
  BY DEF OrdersOf
<1> HIDE DEF Q, act, s
<1>5. ASSUME NEW q \in Q
      PROVE  /\ order(q) \in Order /\ order(q).at = order(q).send + Latency
             /\ t <= order(q).at /\ order(q).at <= t + Cadence
  BY <1>1, <1>2, <1>3 DEF Order
<1>6. \A q \in Q : order(q).policy = q
  OBVIOUS
<1> HIDE DEF order
<1> QED
  BY <1>4, <1>5, <1>6

-----------------------------------------------------------------------------
(* The steps preserve BInv.                                                *)

LEMMA StartsB == Init => BInv
<1> SUFFICES ASSUME Init PROVE BInv
  OBVIOUS
<1>1. IInv
  BY Initially
<1>2. rows = <<>> /\ buf = <<>> /\ fills = {} /\ asking = 0 /\ gi = 1 /\ target = 0 /\ ~closed
  BY DEF Init, NewDay
<1>3. <<>> \in Seq(Timed) /\ Len(<<>>) = 0 /\ DOMAIN <<>> = {}
  OBVIOUS
<1>4. InOrder
  BY <1>2, <1>3 DEF InOrder, Climbs
<1>5. NoneTooFar
  BY <1>2, <1>3 DEF NoneTooFar
<1>6. InFlight
  BY <1>2, ClockAssumption DEF InFlight
<1>7. NewBook \in Books /\ NewBook.watch = 1 /\ NewBook.pos.side = 0
  <2> DEFINE none == <<>>
  <2>1. none \in Seq(Trade) /\ 1 \in Nat
    OBVIOUS
  <2>2. NewBook = BookOf(Flat, 1, none)
    BY DEF NewBook
  <2> HIDE DEF none
  <2>3. /\ BookOf(Flat, 1, none) \in Books /\ BookOf(Flat, 1, none).pos = Flat
        /\ BookOf(Flat, 1, none).watch = 1
    BY <2>1, FlatTyped, BookTyped
  <2> QED
    BY <2>2, <2>3, FlatTyped
<1>8. book = [p \in Policies |-> NewBook]
  BY DEF Init
<1>9. Watched
  BY <1>2, <1>3, <1>7, <1>8 DEF Watched
<1>10. PlainTypes
  <2>1. decisions \in Seq(Decision)
    BY DEF Init
  <2>2. /\ set \in Settings /\ closed = FALSE /\ warmUntil = 0 /\ phase = "feeding"
        /\ target = 0 /\ cancels = 0
    BY DEF Init
  <2>3. closed \in BOOLEAN /\ phase \in {"feeding", "finishing"}
    BY <2>2, Zenon
  <2>4. warmUntil \in Nat /\ target \in {-1, 0, 1} /\ cancels \in 0 .. MaxCancels
    BY <2>2, CancelsAssumption
  <2> QED
    BY <2>1, <2>2, <2>3, <2>4, Zenon DEF PlainTypes
<1>11. NoMissedExit
  BY <1>7, <1>8 DEF NoMissedExit
<1>12. TargetFollowsBook
  BY <1>2, <1>7, <1>8, PolicyAssumption DEF TargetFollowsBook
<1> QED
  BY <1>1, <1>4, <1>5, <1>6, <1>9, <1>10, <1>11, <1>12 DEF BInv

\* What a step that leaves the rows, the books and the orders alone keeps.
LEMMA KeepsBooks ==
    ASSUME BInv, UNCHANGED <<rows, book>>
    PROVE  Watched' /\ NoMissedExit'
  BY DEF BInv, Watched, NoMissedExit

LEMMA KeepsTarget ==
    ASSUME BInv, UNCHANGED <<book, fills, target, closed>>
    PROVE  TargetFollowsBook'
  BY DEF BInv, TargetFollowsBook

LEMMA ReceiveB ==
    ASSUME BInv, Receive
    PROVE  BInv'
<1>1. IInv' /\ IInv
  BY ReceiveStep DEF BInv
<1>2. UNCHANGED <<set, rows, book, fills, decisions, asking, phase, closed, target, cancels>>
      /\ asking = 0
  BY DEF Receive, Idle
<1>3. PICK b \in Batches :
          LET late == rows = <<>> /\ set.warmup > 0 /\ b[1].ts > OpenNs
          IN  /\ buf' = b
              /\ warmUntil' = IF late THEN b[1].ts + set.warmup ELSE warmUntil
              /\ gi' = IF late THEN 1 + Cardinality({k \in 1 .. GridLen : Grid(k) < b[1].ts})
                               ELSE gi
  BY DEF Receive
<1>4. b \in Seq(Timed) /\ Climbs(b) /\ b # <<>>
      /\ \A i \in DOMAIN rows, j \in DOMAIN b : rows[i].ts < b[j].ts
  BY BatchesContinue DEF BInv
<1>5. InOrder'
  BY <1>2, <1>3, <1>4 DEF BInv, InOrder, Climbs
<1>6. Cardinality({k \in 1 .. GridLen : Grid(k) < b[1].ts}) \in 0 .. GridLen
  <2>1. IsFiniteSet(1 .. GridLen) /\ Cardinality(1 .. GridLen) = GridLen
    BY IntervalSize, ClockAssumption
  <2>2. {k \in 1 .. GridLen : Grid(k) < b[1].ts} \subseteq 1 .. GridLen
    OBVIOUS
  <2> QED
    BY <2>1, <2>2, FS_Subset, FS_CardinalityType
<1>7. gi' \in 1 .. GridLen + 1 /\ (gi' = gi \/ rows = <<>>)
  BY <1>3, <1>6, ClockAssumption DEF BInv, InFlight
<1>8. rows = <<>> => fills = {} /\ \A i \in DOMAIN rows : FALSE
  BY <1>1 DEF IInv
<1>9. NoneTooFar'
  BY <1>2, <1>7, <1>8 DEF BInv, NoneTooFar
<1>10. InFlight'
  BY <1>2, <1>7, <1>8 DEF BInv, InFlight
<1>11. warmUntil' \in Nat
  <2>1. b[1] \in Timed
    BY <1>4
  <2>2. b[1].ts \in Nat
    BY <2>1, RowAssumption DEF Timed
  <2>3. set.warmup \in Nat
    BY FilterAssumption DEF BInv, PlainTypes
  <2> QED
    BY <1>3, <2>2, <2>3 DEF BInv, PlainTypes
<1>12. PlainTypes'
  BY <1>2, <1>11 DEF BInv, PlainTypes
<1> QED
  BY <1>1, <1>2, <1>5, <1>9, <1>10, <1>12, KeepsBooks, KeepsTarget DEF BInv

LEMMA SkipB ==
    ASSUME BInv, SkipDecision
    PROVE  BInv'
<1>1. IInv /\ IInv'
  BY EngineStep DEF BInv
<1>2. /\ UNCHANGED <<set, rows, buf, warmUntil, book, fills, decisions, asking, phase,
                     closed, target, cancels>>
      /\ gi' = gi + 1 /\ gi <= GridLen /\ Len(rows) = 0
  BY DEF SkipDecision, AtDecision, DecisionRow
<1>3. rows = <<>>
  BY <1>2 DEF BInv, InOrder
<1>4. fills = {} /\ asking = 0
  BY <1>1, <1>3 DEF IInv
<1>5. InOrder' /\ PlainTypes'
  BY <1>2 DEF BInv, InOrder, PlainTypes, Climbs
<1>6. NoneTooFar'
  BY <1>2, <1>3, <1>4 DEF NoneTooFar
<1>7. InFlight'
  BY <1>2, <1>4, ClockAssumption DEF BInv, InFlight
<1> QED
  BY <1>1, <1>2, <1>5, <1>6, <1>7, KeepsBooks, KeepsTarget DEF BInv

\* A decision is asked for once no order is left that fills by it: none is in flight.
LEMMA AskB ==
    ASSUME BInv, Ask
    PROVE  BInv'
<1>1. IInv'
  BY EngineStep DEF BInv
<1>2. /\ UNCHANGED <<set, rows, buf, warmUntil, book, fills, decisions, phase, closed,
                     target, cancels>>
      /\ gi' = gi + 1 /\ gi <= GridLen /\ asking' = Grid(gi) /\ NextEvent = Grid(gi)
      /\ \A f \in fills : f.at # Grid(gi)
  BY DEF Ask, AtDecision
<1>3. gi \in Nat \ {0} /\ Grid(gi) \in Nat \ {0} /\ Grid(gi + 1) = Grid(gi) + Cadence
      /\ gi + 1 \in 1 .. GridLen + 1 /\ (gi + 1) - 1 = gi
  BY <1>2, GridTimes, ClockAssumption DEF BInv, InFlight
<1>4. fills = {}
  <2>1. ASSUME NEW f \in fills PROVE FALSE
    <3>1. f.at \in Nat /\ f.at <= Grid(gi) /\ NextEvent <= f.at
      BY NextEventIs DEF BInv, InFlight, Order
    <3> QED
      BY <1>2, <1>3, <3>1
  <2> QED
    BY <2>1
<1>5. NoRowAfter(Grid(gi)) /\ NoRowAfter(EndNs)
  BY <1>2 DEF BInv, NoneTooFar
<1>6. \A i \in DOMAIN rows : rows[i].ts \in Int
  BY TimedTyped DEF BInv, InOrder
<1>7. NoRowAfter(Grid(gi + 1))
  BY <1>3, <1>5, <1>6, ClockAssumption
<1>8. NoneTooFar'
  BY <1>2, <1>4, <1>5, <1>7 DEF NoneTooFar
<1>9. InFlight'
  BY <1>2, <1>3, <1>4, ClockAssumption DEF InFlight
<1>10. InOrder' /\ PlainTypes'
  BY <1>2 DEF BInv, InOrder, PlainTypes, Climbs
<1> QED
  BY <1>1, <1>2, <1>8, <1>9, <1>10, KeepsBooks, KeepsTarget DEF BInv

LEMMA DataEndsB ==
    ASSUME BInv, DataEnds
    PROVE  BInv'
<1>1. IInv'
  BY EngineStep DEF BInv
<1>2. /\ UNCHANGED <<set, rows, buf, gi, warmUntil, book, fills, decisions, asking,
                     closed, target, cancels>>
      /\ phase' = "finishing"
  BY DEF DataEnds
<1>3. InOrder' /\ NoneTooFar' /\ InFlight' /\ PlainTypes'
  BY <1>2 DEF BInv, InOrder, NoneTooFar, InFlight, PlainTypes, Climbs
<1> QED
  BY <1>1, <1>2, <1>3, KeepsBooks, KeepsTarget DEF BInv

LEMMA CancelB ==
    ASSUME BInv, Cancel
    PROVE  BInv'
<1>1. IInv'
  BY EngineStep DEF BInv
<1>2. /\ UNCHANGED <<set, rows, gi, warmUntil, book, fills, decisions, closed, target>>
      /\ cancels' = cancels + 1 /\ cancels < MaxCancels
      /\ phase' = "finishing" /\ buf' = <<>> /\ asking' = 0
  BY DEF Cancel
<1>3. <<>> \in Seq(Timed) /\ DOMAIN <<>> = {}
  OBVIOUS
<1>4. InOrder'
  BY <1>2, <1>3 DEF BInv, InOrder, Climbs
<1>5. NoneTooFar' /\ InFlight'
  BY <1>2 DEF BInv, NoneTooFar, InFlight
<1>6. PlainTypes'
  BY <1>2, CancelsAssumption DEF BInv, PlainTypes
<1> QED
  BY <1>1, <1>2, <1>4, <1>5, <1>6, KeepsBooks, KeepsTarget DEF BInv

LEMMA FinishEmptyB ==
    ASSUME BInv, FinishEmpty
    PROVE  BInv'
<1>1. IInv /\ IInv'
  BY ClosingStep DEF BInv
<1>2. /\ UNCHANGED <<set, rows, buf, gi, warmUntil, book, fills, decisions, asking, phase,
                     target, cancels>>
      /\ closed' = TRUE /\ rows = <<>>
  BY DEF FinishEmpty
<1>3. InOrder' /\ NoneTooFar' /\ InFlight' /\ PlainTypes'
  BY <1>2 DEF BInv, InOrder, NoneTooFar, InFlight, PlainTypes, Climbs
<1>4. AllFlat /\ fills = {}
  BY <1>1, <1>2 DEF IInv
<1>5. TargetFollowsBook'
  BY <1>2, <1>4, PolicyAssumption DEF TargetFollowsBook, AllFlat
<1> QED
  BY <1>1, <1>2, <1>3, <1>5, KeepsBooks DEF BInv

\* A row reached in its turn is not later than anything still to come.
LEMMA AbsorbB ==
    ASSUME BInv, Absorb
    PROVE  BInv'
<1> DEFINE k   == RowAt(buf, NextEvent)
           day == rows \o SubSeq(buf, 1, k)
           new == [p \in Policies |-> CheckExits(book[p], day, Len(day))]
<1>1. IInv'
  BY AbsorbStep DEF BInv
<1>2. /\ rows' = day /\ buf' = SubSeq(buf, k + 1, Len(buf)) /\ book' = new
      /\ target' = TargetAfterExits(new)
      /\ UNCHANGED <<set, gi, warmUntil, fills, decisions, asking, phase, closed, cancels>>
      /\ asking = 0 /\ ~closed
  BY DEF Absorb, Appended
<1>3. buf \in Seq(Timed) /\ Climbs(buf) /\ rows \in Seq(Timed) /\ InOrder /\ InFlight
  BY DEF BInv, InOrder
<1>4. k \in 0 .. Len(buf)
  BY RowAtBounds DEF BInv, IInv
<1>5. /\ InOrder'
      /\ Len(rows') = Len(rows) + k
      /\ \A i \in DOMAIN rows : i \in DOMAIN rows' /\ rows'[i] = rows[i]
      /\ \A i \in DOMAIN rows' : i \in DOMAIN rows \/ \E j \in 1 .. k : rows'[i] = buf[j]
  BY <1>2, <1>3, <1>4, AppendedRows
<1>6. NextEvent \in Nat
  BY <1>3, NextEventIs
<1>7. \A j \in 1 .. k : j \in DOMAIN buf /\ buf[j].ts <= NextEvent
  BY <1>3, <1>6, RowAtFirst
<1>8. rows' \in Seq(Timed) /\ Len(rows') \in Nat /\ Len(rows) \in Nat
      /\ DOMAIN rows = 1 .. Len(rows) /\ DOMAIN rows' = 1 .. Len(rows')
  BY <1>3, <1>5 DEF InOrder
<1> DEFINE next == NextEvent
<1> HIDE DEF k, next
<1>9. ASSUME NEW t \in Nat, next <= t, NoRowAfter(t)
      PROVE  NoRowAfter(t)'
  <2> SUFFICES ASSUME NEW i \in DOMAIN rows' PROVE rows'[i].ts <= t
    OBVIOUS
  <2>1. CASE i \in DOMAIN rows
    BY <1>5, <1>9, <2>1
  <2>2. CASE \E j \in 1 .. k : rows'[i] = buf[j]
    <3>1. PICK j \in 1 .. k : rows'[i] = buf[j]
      BY <2>2
    <3>2. buf[j].ts \in Int /\ buf[j].ts <= next
      BY <1>3, <1>7, TimedTyped DEF next
    <3> QED
      BY <1>6, <1>9, <3>1, <3>2 DEF next
  <2> QED
    BY <1>5, <2>1, <2>2
<1>10. NoneTooFar'
  <2>1. EndNs \in Nat /\ (gi <= GridLen => Grid(gi) \in Nat) /\ \A f \in fills : f.at \in Nat
    <3>1. gi \in Nat \ {0} /\ \A f \in fills : f \in Order
      BY <1>3, ClockAssumption DEF InFlight
    <3>2. Grid(gi) \in Nat
      BY <3>1, GridTimes
    <3>3. \A f \in fills : f.at \in Nat
      BY <3>1 DEF Order
    <3> QED
      BY <3>2, <3>3, GridTimes
  <2>2. next <= EndNs /\ (gi <= GridLen => next <= Grid(gi)) /\ \A f \in fills : next <= f.at
    BY <1>3, NextEventIs DEF next
  <2>3. NoRowAfter(EndNs)'
    BY <1>9, <2>1, <2>2 DEF BInv, NoneTooFar
  <2>4. ASSUME gi <= GridLen PROVE NoRowAfter(Grid(gi))'
    <3> DEFINE g == Grid(gi)
    <3>1. g \in Nat /\ next <= g /\ NoRowAfter(g) /\ g' = g
      BY <1>2, <2>1, <2>2, <2>4 DEF BInv, NoneTooFar, Grid
    <3> HIDE DEF g
    <3>2. \A i \in DOMAIN rows' : rows'[i].ts <= g
      BY <1>9, <3>1
    <3> QED
      BY <3>1, <3>2 DEF g
  <2>5. ASSUME NEW f \in fills PROVE \A i \in DOMAIN rows' : rows'[i].ts <= f.at
    <3>1. f.at \in Nat /\ next <= f.at /\ NoRowAfter(f.at)
      BY <2>1, <2>2 DEF BInv, NoneTooFar
    <3> QED
      BY <1>9, <3>1
  <2> QED
    BY <1>2, <2>3, <2>4, <2>5 DEF NoneTooFar
<1>11. InFlight'
  BY <1>2, <1>3 DEF InFlight, Grid
<1>12. ASSUME NEW p \in Policies
       PROVE  LET c == book'[p]
              IN  /\ c \in Books /\ c.watch = Len(rows') + 1
                  /\ \/ /\ c.pos = book[p].pos /\ c.trades = book[p].trades
                        /\ book[p].pos.side # 0 =>
                             \A i \in Len(rows) + 1 .. Len(rows') : NoHit(rows', i, book[p].pos)
                     \/ /\ c.pos = Flat /\ Len(c.trades) = Len(book[p].trades) + 1
  <2>1. book[p] \in Books /\ book[p].watch = Len(rows) + 1
    BY DEF BInv, Watched
  <2>2. book[p].watch \in 1 .. Len(rows') + 1
    BY <1>4, <1>5, <1>8, <2>1
  <2> DEFINE bk == book[p]
             rs == rows'
             c  == CheckExits(bk, rs, Len(rs))
  <2>3. book'[p] = c
    BY <1>2
  <2>4. bk \in Books /\ rs \in Seq(Timed) /\ bk.watch \in 1 .. Len(rs) + 1
    BY <1>8, <2>1, <2>2
  <2>a. bk.watch = Len(rows) + 1
    BY <2>1
  <2> HIDE DEF bk, rs
  <2>5. /\ c \in Books /\ c.watch = Len(rs) + 1
        /\ \/ /\ c.pos = bk.pos /\ c.trades = bk.trades
              /\ bk.pos.side # 0 => \A i \in bk.watch .. Len(rs) : NoHit(rs, i, bk.pos)
           \/ /\ c.pos = Flat /\ bk.pos.side # 0 /\ Len(c.trades) = Len(bk.trades) + 1
    BY <2>4, ExitsChecked
  <2> HIDE DEF c
  <2> QED
    BY <2>3, <2>5, <2>a DEF bk, rs
<1>13. Watched'
  BY <1>2, <1>12 DEF Watched
<1>14. NoMissedExit'
  <2> SUFFICES ASSUME NEW p \in Policies, book'[p].pos.side # 0, NEW i \in DOMAIN rows',
                      rows'[i].ts > book'[p].pos.ts
               PROVE  NoHit(rows', i, book'[p].pos)
    BY DEF NoMissedExit, NoHit
  <2>1. /\ book'[p].pos = book[p].pos
        /\ \A j \in Len(rows) + 1 .. Len(rows') : NoHit(rows', j, book[p].pos)
    BY <1>12, FlatTyped
  <2>2. CASE i \in DOMAIN rows
    <3>1. rows'[i] = rows[i]
      BY <1>5, <2>2
    <3>2. NoHit(rows, i, book[p].pos)
      BY <2>1, <2>2, <3>1 DEF BInv, NoMissedExit, NoHit
    <3> QED
      BY <2>1, <3>1, <3>2 DEF NoHit, StopHit, TargetHit, Gain, Touch
  <2>3. CASE i \notin DOMAIN rows
    <3>1. i \in Len(rows) + 1 .. Len(rows')
      BY <1>8, <2>3
    <3> QED
      BY <2>1, <3>1
  <2> QED
    BY <2>2, <2>3
<1>15. TargetFollowsBook'
  <2> DEFINE sent == {f \in fills : f.policy = Jev}
  <2>1. IF sent = {} THEN target = book[Jev].pos.side ELSE \E f \in sent : target = f.side
    BY <1>2 DEF BInv, TargetFollowsBook
  <2>2. OrderPending(Jev) <=> sent # {}
    BY DEF OrderPending
  <2>a. target' = IF Len(book'[Jev].trades) > Len(book[Jev].trades) /\ ~OrderPending(Jev)
                  THEN 0 ELSE target
    BY <1>2 DEF TargetAfterExits
  <2>3. CASE sent # {}
    <3>1. target' = target
      BY <2>2, <2>3, <2>a
    <3> QED
      BY <1>2, <2>1, <2>3, <3>1 DEF TargetFollowsBook
  <2>4. CASE sent = {}
    <3>1. \/ book'[Jev].pos = book[Jev].pos /\ book'[Jev].trades = book[Jev].trades
          \/ book'[Jev].pos = Flat /\ Len(book'[Jev].trades) = Len(book[Jev].trades) + 1
      BY <1>12, PolicyAssumption
    <3>2. Len(book[Jev].trades) \in Nat
      BY PolicyAssumption DEF BInv, Watched, Books
    <3>3. target' = book'[Jev].pos.side
      BY <2>1, <2>2, <2>4, <2>a, <3>1, <3>2, FlatTyped
    <3> QED
      BY <1>2, <2>4, <3>3 DEF TargetFollowsBook
  <2> QED
    BY <2>3, <2>4
<1>16. PlainTypes'
  <2>1. target' \in {-1, 0, 1}
    BY <1>2 DEF BInv, PlainTypes, TargetAfterExits
  <2> QED
    BY <1>2, <2>1 DEF BInv, PlainTypes
<1> QED
  BY <1>1, <1>5, <1>10, <1>11, <1>13, <1>14, <1>15, <1>16 DEF BInv

\* The orders of one time fill at the last row, one of each policy.
LEMMA FillsB ==
    ASSUME BInv, FireFills
    PROVE  BInv'
<1> DEFINE t   == SetMin({f.at : f \in fills})
           now == {f \in fills : f.at = t}
<1>1. IInv /\ IInv'
  BY EngineStep DEF BInv
<1>2. /\ UNCHANGED <<set, rows, buf, gi, warmUntil, decisions, asking, phase, closed, target,
                     cancels>>
      /\ fills # {} /\ fills' = fills \ now /\ ~closed /\ asking = 0
      /\ book' = [p \in Policies |->
                    IF \E f \in now : f.policy = p
                    THEN LET f == CHOOSE f \in now : f.policy = p
                         IN  Go(book[p], rows, f.side, f.send)
                    ELSE book[p]]
  BY DEF FireFills, Due, Drain
<1> HIDE DEF t
<1>3. now \subseteq fills
  OBVIOUS
<1> HIDE DEF now
<1>4. rows # <<>> /\ rows \in Seq(Timed) /\ Climbs(rows) /\ Len(rows) \in DOMAIN rows
      /\ DOMAIN rows = 1 .. Len(rows)
  BY <1>1, <1>2 DEF IInv, BInv, InOrder
<1>5. ASSUME NEW p \in Policies
      PROVE  LET c == book'[p]
             IN  /\ c \in Books /\ c.watch = Len(rows) + 1
                 /\ c.pos = book[p].pos \/ c.pos.ts = rows[Len(rows)].ts
                 /\ \/ \E f \in now : f.policy = p /\ c.pos.side = f.side
                    \/ c = book[p] /\ \A f \in now : f.policy # p
  <2>1. book[p] \in Books /\ book[p].watch = Len(rows) + 1
    BY DEF BInv, Watched
  <2>2. CASE \E f \in now : f.policy = p
    <3> DEFINE f == CHOOSE f \in now : f.policy = p
    <3>1. f \in now /\ f.policy = p
      BY <2>2
    <3>2. book'[p] = Go(book[p], rows, f.side, f.send)
      BY <1>2, <2>2
    <3> HIDE DEF f
    <3>3. f.side \in {-1, 1} /\ f.at = f.send + Latency /\ NoRowAfter(f.at)
      BY <1>3, <3>1 DEF BInv, InFlight, NoneTooFar, Order
    <3>4. RowAt(rows, f.send + Latency) = Len(rows)
      BY <1>4, <3>3, RowAtAll
    <3> DEFINE g == Go(book[p], rows, f.side, f.send)
    <3>5. /\ g \in Books /\ g.watch = Len(rows) + 1 /\ g.pos.side = f.side
          /\ g.pos = book[p].pos \/ g.pos.ts = rows[Len(rows)].ts
      BY <1>4, <2>1, <3>3, <3>4, GoTyped
    <3> HIDE DEF g
    <3> QED
      BY <3>1, <3>2, <3>5 DEF g
  <2>3. CASE ~\E f \in now : f.policy = p
    BY <1>2, <2>1, <2>3
  <2> QED
    BY <2>2, <2>3
<1>6. Watched'
  BY <1>2, <1>5 DEF Watched
<1>7. NoMissedExit'
  <2> SUFFICES ASSUME NEW p \in Policies, book'[p].pos.side # 0, NEW i \in DOMAIN rows,
                      rows[i].ts > book'[p].pos.ts
               PROVE  NoHit(rows, i, book'[p].pos)
    BY <1>2 DEF NoMissedExit, NoHit
  <2>1. CASE book'[p].pos = book[p].pos
    BY <2>1 DEF BInv, NoMissedExit, NoHit
  <2>2. CASE book'[p].pos.ts = rows[Len(rows)].ts
    <3>1. i = Len(rows) \/ rows[i].ts < rows[Len(rows)].ts
      BY <1>4 DEF Climbs
    <3>2. rows[i].ts \in Int /\ rows[Len(rows)].ts \in Int
      BY <1>4, TimedTyped
    <3> QED
      BY <2>2, <3>1, <3>2
  <2> QED
    BY <1>5, <2>1, <2>2
<1>8. TargetFollowsBook'
  <2> DEFINE sent == {f \in fills : f.policy = Jev}
  <2>1. IF sent = {} THEN target = book[Jev].pos.side ELSE \E f \in sent : target = f.side
    BY <1>2 DEF BInv, TargetFollowsBook
  <2>2. CASE \E f \in now : f.policy = Jev
    <3>1. PICK f \in now : f.policy = Jev /\ book'[Jev].pos.side = f.side
      BY <1>5, <2>2, PolicyAssumption
    <3>2. \A g \in sent : g = f
      BY <1>3, <3>1 DEF BInv, InFlight
    <3>3. target = f.side
      BY <1>3, <2>1, <3>1, <3>2
    <3>4. {g \in fills' : g.policy = Jev} = {}
      BY <1>2, <3>1, <3>2
    <3> QED
      BY <1>2, <3>1, <3>3, <3>4 DEF TargetFollowsBook
  <2>3. CASE ~\E f \in now : f.policy = Jev
    <3>1. book'[Jev] = book[Jev]
      BY <1>5, <2>3, PolicyAssumption
    <3>2. {g \in fills' : g.policy = Jev} = sent
      BY <1>2, <2>3
    <3> QED
      BY <1>2, <2>1, <3>1, <3>2 DEF TargetFollowsBook
  <2> QED
    BY <2>2, <2>3
<1>9. InOrder' /\ PlainTypes'
  BY <1>2 DEF BInv, InOrder, PlainTypes, Climbs
<1>10. NoneTooFar' /\ InFlight'
  BY <1>2 DEF BInv, NoneTooFar, InFlight, Grid
<1> QED
  BY <1>1, <1>6, <1>7, <1>8, <1>9, <1>10 DEF BInv

\* The orders of an answer fill after every row so far and by the next decision.
LEMMA AnswerB ==
    ASSUME BInv, Answer
    PROVE  BInv'
<1>1. IInv /\ IInv'
  BY EngineStep DEF BInv
<1>2. PICK a \in [Policies -> Said], d \in IF set.live THEN Delays ELSE {0} :
          LET warm == Warm(asking)
              ds   == Append(decisions, [t |-> asking, row |-> DecisionRow, warm |-> warm,
                                         answer |-> a])
              new  == OrdersOf(ds, asking, asking + d)
          IN  /\ decisions' = ds
              /\ fills' = fills \cup new
              /\ target' = IF \E f \in new : f.policy = Jev
                           THEN (CHOOSE f \in new : f.policy = Jev).side ELSE target
  BY DEF Answer, Said
<1>3. /\ UNCHANGED <<set, rows, buf, gi, warmUntil, book, phase, closed, cancels>>
      /\ asking # 0 /\ asking' = 0
  BY DEF Answer
<1> DEFINE e   == [t |-> asking, row |-> DecisionRow, warm |-> Warm(asking), answer |-> a]
           ds  == Append(decisions, e)
           new == OrdersOf(ds, asking, asking + d)
<1>4. ~closed /\ fills = {} /\ gi > 1 /\ asking = Grid(gi - 1) /\ NoRowAfter(asking)
      /\ rows \in Seq(Timed)
  BY <1>1, <1>3 DEF IInv, BInv, InFlight, NoneTooFar, InOrder
<1>5. asking \in Nat /\ Grid(gi) = asking + Cadence
  <2>1. gi - 1 \in Nat \ {0} /\ (gi - 1) + 1 = gi
    BY <1>4, ClockAssumption DEF BInv, InFlight
  <2> QED
    BY <1>4, <2>1, GridTimes
<1>6. d \in Delays
  BY ClockAssumption
<1>7. ds \in Seq(Decision) /\ ds # <<>>
  <2>1. DecisionRow \in Nat /\ Warm(asking) \in BOOLEAN
    BY <1>4 DEF DecisionRow, Warm
  <2>2. e \in Decision
    BY <1>5, <2>1 DEF Decision
  <2> HIDE DEF e
  <2>3. decisions \in Seq(Decision)
    BY DEF BInv, PlainTypes
  <2> QED
    BY <2>2, <2>3
<1>8. /\ decisions' = ds /\ fills' = new
      /\ target' = IF \E f \in new : f.policy = Jev
                   THEN (CHOOSE f \in new : f.policy = Jev).side ELSE target
  BY <1>2, <1>4
<1> HIDE DEF ds
<1>9. /\ \A f \in new :
            f \in Order /\ f.at = f.send + Latency /\ asking <= f.at /\ f.at <= asking + Cadence
      /\ \A f, g \in new : f.policy = g.policy => f = g
  BY <1>5, <1>6, <1>7, OrdersTyped DEF BInv
<1> HIDE DEF new
<1>10. InOrder'
  BY <1>3 DEF BInv, InOrder, Climbs
<1>11. NoneTooFar'
  <2>1. \A i \in DOMAIN rows : rows[i].ts \in Int
    BY <1>4, TimedTyped
  <2>2. ASSUME NEW f \in new PROVE NoRowAfter(f.at)
    <3>1. f.at \in Nat /\ asking <= f.at
      BY <1>9, <2>2 DEF Order
    <3> QED
      BY <1>4, <1>5, <2>1, <3>1
  <2> QED
    BY <1>3, <1>8, <2>2 DEF BInv, NoneTooFar, Grid
<1>12. InFlight'
  <2>1. gi' = gi /\ Grid(gi)' = asking + Cadence /\ gi \in 1 .. GridLen + 1
    BY <1>3, <1>5 DEF BInv, InFlight, Grid
  <2> QED
    BY <1>3, <1>8, <1>9, <2>1 DEF InFlight
<1>13. PlainTypes'
  <2>1. target' \in {-1, 0, 1}
    <3>1. target \in {-1, 0, 1}
      BY DEF BInv, PlainTypes
    <3>2. \A f \in new : f.side \in {-1, 1}
      BY <1>9 DEF Order
    <3> QED
      BY <1>8, <3>1, <3>2
  <2> QED
    BY <1>3, <1>7, <1>8, <2>1 DEF BInv, PlainTypes
<1>14. TargetFollowsBook'
  <2>1. target = book[Jev].pos.side
    BY <1>4 DEF BInv, TargetFollowsBook
  <2> DEFINE sent == {f \in new : f.policy = Jev}
  <2>2. CASE \E f \in new : f.policy = Jev
    <3>1. PICK f \in new : f.policy = Jev /\ target' = f.side
      BY <1>8, <2>2
    <3> QED
      BY <1>3, <1>4, <1>8, <3>1 DEF TargetFollowsBook
  <2>3. CASE ~\E f \in new : f.policy = Jev
    <3>1. target' = target /\ {f \in fills' : f.policy = Jev} = {}
      BY <1>8, <2>3
    <3> QED
      BY <1>3, <2>1, <3>1 DEF TargetFollowsBook
  <2> QED
    BY <2>2, <2>3
<1> QED
  BY <1>1, <1>3, <1>10, <1>11, <1>12, <1>13, <1>14, KeepsBooks DEF BInv

\* However a session closes, it is at its last row.
LEMMA ClosesB ==
    ASSUME BInv, FireEnd \/ FinishClose
    PROVE  BInv'
<1>1. IInv /\ IInv'
  BY ClosingStep DEF BInv
<1>2. rows \in Seq(Timed) /\ NoRowAfter(EndNs)
  BY DEF BInv, InOrder, NoneTooFar
<1>3. CloseSession(Len(rows))
      /\ UNCHANGED <<set, rows, buf, gi, warmUntil, fills, decisions, asking, phase, cancels>>
  <2>1. CASE FireEnd
    <3>1. RowAt(rows, EndNs) = Len(rows)
      BY <1>2, RowAtAll
    <3> QED
      BY <2>1, <3>1 DEF FireEnd
  <2>2. CASE FinishClose
    BY <2>2 DEF FinishClose
  <2> QED
    BY <2>1, <2>2
<1>4. /\ closed' = TRUE /\ target' = 0
      /\ book' = [p \in Policies |-> Flatten(book[p], rows, Len(rows))]
  BY <1>3 DEF CloseSession
<1>5. ASSUME NEW p \in Policies
      PROVE  book'[p] \in Books /\ book'[p].watch = Len(rows) + 1 /\ book'[p].pos.side = 0
  <2>1. book[p] \in Books /\ book[p].watch = Len(rows) + 1
    BY DEF BInv, Watched
  <2>2. book[p].pos.side # 0 => rows # <<>>
    BY <1>1 DEF IInv, AllFlat
  <2>3. book'[p] = Flatten(book[p], rows, Len(rows))
    BY <1>4
  <2> QED
    BY <1>2, <2>1, <2>2, <2>3, FlattenTyped, FlattenFlat
<1>6. Watched' /\ NoMissedExit'
  BY <1>3, <1>4, <1>5 DEF Watched, NoMissedExit
<1>7. TargetFollowsBook'
  BY <1>4, <1>5, PolicyAssumption DEF TargetFollowsBook
<1>8. InOrder' /\ NoneTooFar' /\ InFlight'
  BY <1>3 DEF BInv, InOrder, NoneTooFar, InFlight, Climbs, Grid
<1>9. PlainTypes'
  <2>1. closed' \in BOOLEAN /\ target' \in {-1, 0, 1}
    BY <1>4
  <2> QED
    BY <1>3, <2>1, Zenon DEF BInv, PlainTypes
<1> QED
  BY <1>1, <1>6, <1>7, <1>8, <1>9 DEF BInv

LEMMA StillB ==
    ASSUME BInv, UNCHANGED vars
    PROVE  BInv'
<1>1. UNCHANGED <<set, rows, buf, gi, warmUntil, book, fills, decisions, asking, phase,
                  closed, target, cancels>>
  BY DEF vars
<1>2. IInv'
  BY <1>1 DEF BInv, IInv, AllFlat
<1>3. InOrder' /\ NoneTooFar' /\ InFlight' /\ PlainTypes'
  BY <1>1 DEF BInv, InOrder, NoneTooFar, InFlight, PlainTypes, Climbs, Grid
<1> QED
  BY <1>1, <1>2, <1>3, KeepsBooks, KeepsTarget DEF BInv

LEMMA BooksInductive == BInv /\ [Next]_vars => BInv'
<1> SUFFICES ASSUME BInv, [Next]_vars PROVE BInv'
  OBVIOUS
<1>1. CASE Receive \/ Absorb \/ FireFills \/ SkipDecision \/ Ask \/ Answer
  BY <1>1, ReceiveB, AbsorbB, FillsB, SkipB, AskB, AnswerB
<1>2. CASE FireEnd \/ DataEnds \/ Cancel \/ FinishClose \/ FinishEmpty
  BY <1>2, ClosesB, DataEndsB, CancelB, FinishEmptyB
<1>3. CASE UNCHANGED vars
  BY <1>3, StillB
<1> QED
  BY <1>1, <1>2, <1>3 DEF Next

LEMMA BooksHold == Spec => []BInv
  BY StartsB, BooksInductive, PTL DEF Spec

-----------------------------------------------------------------------------

\* Every variable keeps its type (live.Engine, harness.Book): the grid index, the
\* watched row of every book, one of the three sides for every order and target.
THEOREM TypeCorrect == Spec => []TypeOK
<1>1. BInv => TypeOK
  <2> SUFFICES ASSUME BInv PROVE TypeOK
    OBVIOUS
  <2>1. /\ set \in Settings /\ closed \in BOOLEAN /\ warmUntil \in Nat
        /\ phase \in {"feeding", "finishing"} /\ target \in {-1, 0, 1}
        /\ cancels \in 0 .. MaxCancels /\ gi \in 1 .. GridLen + 1
    BY DEF BInv, PlainTypes, InFlight
  <2>2. \A s \in {rows, buf} : \A i \in DOMAIN s : s[i].ts \in 0 .. MaxTs /\ s[i].bid \in Int
    BY TimedTyped DEF BInv, InOrder
  <2>3. ASSUME NEW p \in Policies
        PROVE  book[p].pos \in Positions /\ book[p].watch \in 1 .. Len(rows) + 1
    <3>1. Len(rows) \in Nat
      BY DEF BInv, InOrder
    <3> QED
      BY <3>1 DEF BInv, Watched, Books
  <2>4. \A f \in fills : f.policy \in Policies /\ f.side \in {-1, 1}
    BY DEF BInv, InFlight, Order
  <2>5. asking \in {0} \cup {Grid(k) : k \in 1 .. GridLen}
    <3>1. CASE asking = 0
      BY <3>1
    <3>2. CASE asking # 0
      <4>1. asking = Grid(gi - 1) /\ gi > 1 /\ gi \in 1 .. GridLen + 1
        BY <3>2 DEF BInv, InFlight
      <4>2. gi - 1 \in 1 .. GridLen
        BY <4>1, ClockAssumption
      <4> QED
        BY <4>1, <4>2
    <3> QED
      BY <3>1, <3>2
  <2> QED
    BY <2>1, <2>2, <2>3, <2>4, <2>5 DEF TypeOK
<1> QED
  BY <1>1, BooksHold, PTL

\* No open position has a row behind it that reached its stop or its target: however
\* the rows come in batches and however long an order is on its way, harness.Book
\* looks at each row once, between the order's fill and the next event.
THEOREM ExitsFound == Spec => []NoMissedExit
<1>1. BInv => NoMissedExit
  BY DEF BInv
<1> QED
  BY <1>1, BooksHold, PTL

\* The target the session announces for the Jev book is the position the book has,
\* or that of the one order in flight (Session._intent, Engine._decide).
THEOREM TargetFollows == Spec => []TargetFollowsBook
<1>1. BInv => TargetFollowsBook
  BY DEF BInv
<1> QED
  BY <1>1, BooksHold, PTL

-----------------------------------------------------------------------------
(* The backtest, decision by decision.                                     *)

Step(opts, p, rs, ds, k, before) ==
    IF k = 0 THEN NewBook ELSE Decide(opts, p, rs, SubSeq(ds, 1, k), before)
Unfolds(f, opts, p, rs, ds, n) == f = [k \in 0 .. n |-> Step(opts, p, rs, ds, k, f[k - 1])]

\* Some function is what the recursion of Decided says.
LEMMA UnfoldExists ==
    ASSUME NEW opts, NEW p, NEW rs, NEW ds, NEW n \in Nat
    PROVE  \E f : Unfolds(f, opts, p, rs, ds, n)
<1> DEFINE Bad == {m \in Nat : ~\E f : Unfolds(f, opts, p, rs, ds, m)}
<1> SUFFICES ASSUME Bad # {} PROVE FALSE
  OBVIOUS
<1>1. PICK m \in Bad : \A j \in Bad : m <= j
  <2>1. Bad \subseteq Nat
    OBVIOUS
  <2> HIDE DEF Bad
  <2> QED
    BY <2>1, LeastNatural
<1>2. CASE m = 0
  <2> DEFINE f == [k \in 0 .. 0 |-> NewBook]
  <2>1. \A k \in 0 .. 0 : Step(opts, p, rs, ds, k, f[k - 1]) = NewBook
    BY DEF Step
  <2>2. Unfolds(f, opts, p, rs, ds, 0)
    BY <2>1 DEF Unfolds
  <2> QED
    BY <1>2, <2>2
<1>3. CASE m # 0
  <2>1. m \in Nat /\ m - 1 \in Nat /\ m - 1 \notin Bad
    BY <1>1, <1>3
  <2>2. PICK g : Unfolds(g, opts, p, rs, ds, m - 1)
    BY <2>1
  <2> DEFINE h == [k \in 0 .. m |-> IF k = m THEN Step(opts, p, rs, ds, m, g[m - 1]) ELSE g[k]]
  <2>3. ASSUME NEW k \in 0 .. m PROVE h[k] = Step(opts, p, rs, ds, k, h[k - 1])
    <3>1. CASE k = m
      <4>1. h[k] = Step(opts, p, rs, ds, m, g[m - 1])
        BY <3>1
      <4>2. h[k - 1] = g[m - 1]
        BY <2>1, <3>1
      <4> QED
        BY <3>1, <4>1, <4>2
    <3>2. CASE k # m /\ k # 0
      <4>1. k \in 0 .. m - 1 /\ k - 1 \in 0 .. m /\ k - 1 # m
        BY <2>1, <3>2
      <4>2. h[k] = g[k] /\ h[k - 1] = g[k - 1]
        BY <3>2, <4>1
      <4>3. g[k] = Step(opts, p, rs, ds, k, g[k - 1])
        BY <2>2, <4>1, Zenon DEF Unfolds
      <4> QED
        BY <4>2, <4>3
    <3>3. CASE k # m /\ k = 0
      <4>1. k \in 0 .. m - 1 /\ h[k] = g[k]
        BY <2>1, <3>3
      <4>2. g[k] = Step(opts, p, rs, ds, k, g[k - 1])
        BY <2>2, <4>1, Zenon DEF Unfolds
      <4> QED
        BY <3>3, <4>1, <4>2 DEF Step
    <3> QED
      BY <3>1, <3>2, <3>3
  <2>4. DOMAIN h = 0 .. m /\ h = [k \in 0 .. m |-> h[k]]
    OBVIOUS
  <2> HIDE DEF h
  <2>5. Unfolds(h, opts, p, rs, ds, m)
    BY <2>3, <2>4 DEF Unfolds
  <2> QED
    BY <2>5
<1> QED
  BY <1>2, <1>3

LEMMA DecidedUnfolds ==
    ASSUME NEW opts, NEW p, NEW rs, NEW ds, Len(ds) \in Nat
    PROVE  \E f : Unfolds(f, opts, p, rs, ds, Len(ds)) /\ Decided(opts, p, rs, ds) = f[Len(ds)]
<1> DEFINE step == CHOOSE f : f = [k \in 0 .. Len(ds) |->
                       IF k = 0 THEN NewBook ELSE Decide(opts, p, rs, SubSeq(ds, 1, k), f[k - 1])]
<1>1. Unfolds(step, opts, p, rs, ds, Len(ds))
  BY UnfoldExists DEF Unfolds, Step
<1>2. Decided(opts, p, rs, ds) = step[Len(ds)]
  BY DEF Decided
<1> QED
  BY <1>1, <1>2

\* Before the first decision the book is new.
LEMMA DecidedNone ==
    ASSUME NEW opts, NEW p, NEW rs
    PROVE  Decided(opts, p, rs, <<>>) = NewBook
<1> DEFINE none == <<>>
<1>1. Len(none) = 0
  OBVIOUS
<1>2. PICK f : Unfolds(f, opts, p, rs, none, 0) /\ Decided(opts, p, rs, none) = f[0]
  BY <1>1, DecidedUnfolds
<1>3. 0 \in 0 .. 0
  OBVIOUS
<1>4. f[0] = Step(opts, p, rs, none, 0, f[0 - 1])
  BY <1>2, <1>3, Zenon DEF Unfolds
<1> QED
  BY <1>2, <1>4 DEF Step

FrontOf(ds) == SubSeq(ds, 1, Len(ds) - 1)

LEMMA FrontIs ==
    ASSUME NEW ds \in Seq(Decision), ds # <<>>
    PROVE  /\ FrontOf(ds) \in Seq(Decision) /\ Len(FrontOf(ds)) = Len(ds) - 1
           /\ \A i \in 1 .. Len(ds) - 1 : FrontOf(ds)[i] = ds[i]
           /\ Len(ds) \in Nat \ {0} /\ DOMAIN ds = 1 .. Len(ds)
           /\ DOMAIN FrontOf(ds) = 1 .. Len(ds) - 1
           /\ LastOf(ds) = ds[Len(ds)] /\ LastOf(ds) \in Decision
<1>1. Len(ds) \in Nat \ {0} /\ DOMAIN ds = 1 .. Len(ds)
  OBVIOUS
<1>2. ds[Len(ds)] \in Decision
  BY <1>1
<1>3. /\ FrontOf(ds) \in Seq(Decision) /\ Len(FrontOf(ds)) = Len(ds) - 1
      /\ \A i \in 1 .. Len(ds) - 1 : FrontOf(ds)[i] = ds[i]
  BY <1>1 DEF FrontOf
<1>4. DOMAIN FrontOf(ds) = 1 .. Len(ds) - 1
  BY <1>3
<1> QED
  BY <1>1, <1>2, <1>3, <1>4 DEF LastOf

LEMMA PrefixOfFront ==
    ASSUME NEW ds \in Seq(Decision), ds # <<>>, NEW k \in 0 .. Len(ds) - 1
    PROVE  SubSeq(FrontOf(ds), 1, k) = SubSeq(ds, 1, k)
<1>1. FrontOf(ds) \in Seq(Decision) /\ Len(FrontOf(ds)) = Len(ds) - 1 /\ Len(ds) \in Nat \ {0}
      /\ \A i \in 1 .. Len(ds) - 1 : FrontOf(ds)[i] = ds[i]
  BY FrontIs
<1> DEFINE fr == FrontOf(ds)
           a  == SubSeq(fr, 1, k)
           b  == SubSeq(ds, 1, k)
<1> HIDE DEF fr
<1>2. a \in Seq(Decision) /\ Len(a) = k /\ \A i \in 1 .. k : a[i] = fr[i]
  BY <1>1 DEF fr
<1>3. b \in Seq(Decision) /\ Len(b) = k /\ \A i \in 1 .. k : b[i] = ds[i]
  BY <1>1
<1>4. \A i \in 1 .. k : a[i] = b[i]
  BY <1>1, <1>2, <1>3 DEF fr
<1> HIDE DEF a, b
<1>5. a = b
  BY <1>2, <1>3, <1>4
<1> QED
  BY <1>5 DEF a, b, fr

\* The last decision is made on the book the ones before it left.
LEMMA DecidedLast ==
    ASSUME NEW opts, NEW p, NEW rs, NEW ds \in Seq(Decision), ds # <<>>
    PROVE  Decided(opts, p, rs, ds) = Decide(opts, p, rs, ds, Decided(opts, p, rs, FrontOf(ds)))
<1> DEFINE n == Len(ds)
           m == Len(ds) - 1
           fr == FrontOf(ds)
<1>1. n \in Nat /\ m \in Nat /\ m = n - 1 /\ n # 0 /\ Len(fr) = m
  BY FrontIs
<1>2. PICK f : Unfolds(f, opts, p, rs, ds, n) /\ Decided(opts, p, rs, ds) = f[n]
  BY <1>1, DecidedUnfolds
<1>3. PICK g : Unfolds(g, opts, p, rs, fr, m) /\ Decided(opts, p, rs, fr) = g[m]
  BY <1>1, DecidedUnfolds
<1>4. \A k \in 0 .. n : f[k] = Step(opts, p, rs, ds, k, f[k - 1])
  BY <1>2, Zenon DEF Unfolds
<1>5. \A k \in 0 .. m : g[k] = Step(opts, p, rs, fr, k, g[k - 1])
  BY <1>3, Zenon DEF Unfolds
<1>6. \A k \in 0 .. m : SubSeq(fr, 1, k) = SubSeq(ds, 1, k)
  BY PrefixOfFront
<1> HIDE DEF n, m, fr
<1>7. f[m] = g[m]
  <2> DEFINE Bad == {k \in 0 .. m : f[k] # g[k]}
  <2> SUFFICES ASSUME Bad # {} PROVE FALSE
    BY <1>1
  <2>1. PICK k \in Bad : \A j \in Bad : k <= j
    <3>1. Bad \subseteq Nat
      BY <1>1
    <3> HIDE DEF Bad
    <3> QED
      BY <3>1, LeastNatural
  <2>2. k \in 0 .. m /\ k \in 0 .. n /\ f[k] # g[k]
    BY <1>1
  <2>3. f[k] = Step(opts, p, rs, ds, k, f[k - 1]) /\ g[k] = Step(opts, p, rs, fr, k, g[k - 1])
    BY <1>4, <1>5, <2>2
  <2>4. CASE k = 0
    BY <2>2, <2>3, <2>4 DEF Step
  <2>5. CASE k # 0
    <3>1. k - 1 \in 0 .. m /\ k - 1 \notin Bad
      BY <1>1, <2>1, <2>2, <2>5
    <3>2. f[k - 1] = g[k - 1]
      BY <3>1
    <3> QED
      BY <1>6, <2>2, <2>3, <3>2 DEF Step
  <2> QED
    BY <2>4, <2>5
<1>8. f[n] = Step(opts, p, rs, ds, n, f[n - 1])
  BY <1>1, <1>4
<1>9. SubSeq(ds, 1, n) = ds
  BY <1>1 DEF n
<1> QED
  BY <1>1, <1>2, <1>3, <1>7, <1>8, <1>9 DEF Step, fr

-----------------------------------------------------------------------------
(* What later rows cannot change.                                          *)

\* rs2 continues rs with rows later than t.
Longer(rs, rs2, t) ==
    /\ Len(rs) <= Len(rs2)
    /\ \A i \in DOMAIN rs : rs2[i] = rs[i]
    /\ \A i \in Len(rs) + 1 .. Len(rs2) : t < rs2[i].ts

LEMMA RowAtLonger ==
    ASSUME NEW rs \in Seq(Timed), NEW rs2 \in Seq(Timed), NEW t \in Int, Longer(rs, rs2, t)
    PROVE  RowAt(rs2, t) = RowAt(rs, t)
<1>1. DOMAIN rs = 1 .. Len(rs) /\ DOMAIN rs2 = 1 .. Len(rs2) /\ Len(rs) \in Nat /\ Len(rs2) \in Nat
      /\ Len(rs) <= Len(rs2)
  BY DEF Longer
<1>2. ASSUME NEW i \in DOMAIN rs2, rs2[i].ts <= t PROVE i \in DOMAIN rs
  <2>1. rs2[i].ts \in Int
    BY TimedTyped
  <2>2. ~(i \in Len(rs) + 1 .. Len(rs2))
    BY <1>2, <2>1 DEF Longer
  <2> QED
    BY <1>1, <2>2
<1>3. \A i \in DOMAIN rs : i \in DOMAIN rs2 /\ rs2[i].ts = rs[i].ts
  BY <1>1 DEF Longer
<1>4. {i \in DOMAIN rs2 : rs2[i].ts <= t} = {i \in DOMAIN rs : rs[i].ts <= t}
  BY <1>2, <1>3
<1> QED
  BY <1>4 DEF RowAt

LEMMA LongerSooner ==
    ASSUME NEW rs \in Seq(Timed), NEW rs2 \in Seq(Timed), NEW t \in Int, NEW u \in Int, u <= t,
           Longer(rs, rs2, t)
    PROVE  Longer(rs, rs2, u)
<1>1. Len(rs) \in Nat /\ Len(rs2) \in Nat
  OBVIOUS
<1>2. ASSUME NEW i \in Len(rs) + 1 .. Len(rs2) PROVE u < rs2[i].ts
  <2>1. i \in DOMAIN rs2
    BY <1>1
  <2>2. rs2[i].ts \in Int /\ t < rs2[i].ts
    BY <2>1, TimedTyped DEF Longer
  <2> QED
    BY <2>2
<1> QED
  BY <1>2 DEF Longer

LEMMA RowAtBegan ==
    ASSUME NEW rs \in Seq(Timed), rs # <<>>, NEW t \in Int, rs[1].ts <= t
    PROVE  RowAt(rs, t) \in DOMAIN rs
<1> DEFINE S == {i \in DOMAIN rs : rs[i].ts <= t}
<1>1. DOMAIN rs = 1 .. Len(rs) /\ Len(rs) \in Nat /\ 1 \in S
  OBVIOUS
<1>2. IsFiniteSet(1 .. Len(rs)) /\ Cardinality(1 .. Len(rs)) = Len(rs)
  BY <1>1, IntervalSize
<1>3. IsFiniteSet(S) /\ Cardinality(S) <= Len(rs) /\ Cardinality(S) \in Nat
  BY <1>1, <1>2, FS_Subset, FS_CardinalityType
<1>4. Cardinality(S) # 0
  BY <1>1, <1>3, FS_EmptySet
<1> QED
  BY <1>1, <1>3, <1>4 DEF RowAt

Hits(bk, rs, upto) ==
    {i \in bk.watch .. upto : StopHit(rs, i, bk.pos) \/ TargetHit(rs, i, bk.pos)}
First(S) == CHOOSE i \in S : \A j \in S : i <= j
ExitPx(bk, rs, k) ==
    IF StopHit(rs, k, bk.pos) THEN Touch(rs, k, bk.pos.side)
                              ELSE bk.pos.px + bk.pos.side * Target
ExitReason(bk, rs, k) == IF StopHit(rs, k, bk.pos) THEN "stop" ELSE "target"
Exited(bk, rs, k, w) ==
    Close(BookOf(bk.pos, w, bk.trades), rs, k, ExitPx(bk, rs, k), ExitReason(bk, rs, k))

LEMMA CheckExitsIs ==
    ASSUME NEW bk, NEW rs, NEW upto
    PROVE  CheckExits(bk, rs, upto) =
             IF bk.pos.side = 0 \/ Hits(bk, rs, upto) = {}
             THEN BookOf(bk.pos, NextWatch(bk.watch, upto), bk.trades)
             ELSE Exited(bk, rs, First(Hits(bk, rs, upto)), NextWatch(bk.watch, upto))
<1> DEFINE w == NextWatch(bk.watch, upto)
           k == First(Hits(bk, rs, upto))
<1>1. CASE bk.pos.side = 0 \/ Hits(bk, rs, upto) = {}
  BY <1>1, Zenon DEF CheckExits, Hits
<1>2. CASE ~(bk.pos.side = 0 \/ Hits(bk, rs, upto) = {}) /\ StopHit(rs, k, bk.pos)
  <2>1. CheckExits(bk, rs, upto)
        = Close(BookOf(bk.pos, w, bk.trades), rs, k, Touch(rs, k, bk.pos.side), "stop")
    BY <1>2, Zenon DEF CheckExits, Hits, First
  <2>2. ExitPx(bk, rs, k) = Touch(rs, k, bk.pos.side) /\ ExitReason(bk, rs, k) = "stop"
    BY <1>2, Zenon DEF ExitPx, ExitReason
  <2> QED
    BY <1>2, <2>1, <2>2, Zenon DEF Exited
<1>3. CASE ~(bk.pos.side = 0 \/ Hits(bk, rs, upto) = {}) /\ ~StopHit(rs, k, bk.pos)
  <2>1. CheckExits(bk, rs, upto)
        = Close(BookOf(bk.pos, w, bk.trades), rs, k, bk.pos.px + bk.pos.side * Target, "target")
    BY <1>3, Zenon DEF CheckExits, Hits, First
  <2>2. ExitPx(bk, rs, k) = bk.pos.px + bk.pos.side * Target /\ ExitReason(bk, rs, k) = "target"
    BY <1>3, Zenon DEF ExitPx, ExitReason
  <2> QED
    BY <1>3, <2>1, <2>2, Zenon DEF Exited
<1> QED
  BY <1>1, <1>2, <1>3

\* Books that have not skipped the first row are what a session has.
Kept == {bk \in Books : bk.watch >= 1}

LEMMA FirstIs ==
    ASSUME NEW S, S \subseteq Nat, S # {}
    PROVE  First(S) \in S /\ \A j \in S : First(S) <= j
  BY LeastNatural DEF First

LEMMA KeptTyped ==
    ASSUME NEW bk \in Kept
    PROVE  /\ bk \in Books /\ bk.watch \in Nat /\ bk.watch >= 1 /\ bk.pos \in Positions
           /\ bk.pos.side \in {-1, 0, 1} /\ bk.pos.px \in Int /\ bk.trades \in Seq(Trade)
           /\ bk = BookOf(bk.pos, bk.watch, bk.trades)
<1>1. bk \in Books /\ bk.watch >= 1
  BY DEF Kept
<1>2. bk.pos \in Positions /\ bk.watch \in Nat /\ bk.trades \in Seq(Trade)
      /\ bk = [pos |-> bk.pos, watch |-> bk.watch, trades |-> bk.trades]
  BY <1>1 DEF Books
<1>3. bk.pos.side \in {-1, 0, 1} /\ bk.pos.px \in Int
  BY <1>2 DEF Positions
<1> QED
  BY <1>1, <1>2, <1>3 DEF BookOf

LEMMA KeptBook ==
    ASSUME NEW pos \in Positions, NEW w \in Nat, w >= 1, NEW tr \in Seq(Trade)
    PROVE  BookOf(pos, w, tr) \in Kept
<1>1. BookOf(pos, w, tr) \in Books /\ BookOf(pos, w, tr).watch = w
  BY BookTyped
<1> QED
  BY <1>1 DEF Kept

LEMMA HitsAreRows ==
    ASSUME NEW bk \in Kept, NEW rs \in Seq(Timed), NEW upto \in 0 .. Len(rs)
    PROVE  /\ Hits(bk, rs, upto) \subseteq DOMAIN rs /\ Hits(bk, rs, upto) \subseteq Nat
           /\ Hits(bk, rs, upto) # {} =>
                /\ First(Hits(bk, rs, upto)) \in Hits(bk, rs, upto)
                /\ First(Hits(bk, rs, upto)) \in DOMAIN rs
                /\ \A j \in Hits(bk, rs, upto) : First(Hits(bk, rs, upto)) <= j
<1>1. bk.watch \in Nat /\ bk.watch >= 1 /\ Len(rs) \in Nat /\ DOMAIN rs = 1 .. Len(rs)
  BY KeptTyped
<1>2. Hits(bk, rs, upto) \subseteq DOMAIN rs /\ Hits(bk, rs, upto) \subseteq Nat
  BY <1>1 DEF Hits
<1>3. ASSUME Hits(bk, rs, upto) # {}
      PROVE  /\ First(Hits(bk, rs, upto)) \in Hits(bk, rs, upto)
             /\ \A j \in Hits(bk, rs, upto) : First(Hits(bk, rs, upto)) <= j
  BY <1>2, <1>3, FirstIs
<1> QED
  BY <1>2, <1>3

LEMMA ExitedIs ==
    ASSUME NEW bk \in Kept, NEW rs \in Seq(Timed), NEW k \in DOMAIN rs, NEW w \in Nat, w >= 1
    PROVE  /\ Exited(bk, rs, k, w) \in Kept /\ Exited(bk, rs, k, w).pos = Flat
           /\ Exited(bk, rs, k, w).watch = w
<1>1. /\ bk.pos \in Positions /\ bk.pos.side \in {-1, 0, 1} /\ bk.pos.px \in Int
      /\ bk.trades \in Seq(Trade)
  BY KeptTyped
<1> DEFINE b == BookOf(bk.pos, w, bk.trades)
<1>2. b \in Books /\ b.watch = w
  BY <1>1, BookTyped
<1> HIDE DEF b
<1>3. Touch(rs, k, bk.pos.side) \in Int /\ bk.pos.px + bk.pos.side * Target \in Int
  BY <1>1, TouchTyped, FilterAssumption
<1>4. ExitPx(bk, rs, k) \in Int /\ ExitReason(bk, rs, k) \in {"stop", "target", "jev", "eod"}
  BY <1>3, Zenon DEF ExitPx, ExitReason
<1> DEFINE c == Close(b, rs, k, ExitPx(bk, rs, k), ExitReason(bk, rs, k))
<1>5. c \in Books /\ c.pos = Flat /\ c.watch = b.watch
  BY <1>2, <1>4, CloseTyped
<1>6. c = Exited(bk, rs, k, w)
  BY Zenon DEF b, Exited
<1> HIDE DEF c
<1> QED
  BY <1>2, <1>5, <1>6 DEF Kept

\* Looking for exits gives a book that has looked further, flat or with its position.
LEMMA CheckExitsTyped ==
    ASSUME NEW bk \in Kept, NEW rs \in Seq(Timed), NEW upto \in 0 .. Len(rs)
    PROVE  LET c == CheckExits(bk, rs, upto)
           IN  /\ c \in Kept /\ c.watch = NextWatch(bk.watch, upto)
               /\ c.pos = bk.pos \/ c.pos = Flat
<1> DEFINE c == CheckExits(bk, rs, upto)
           w == NextWatch(bk.watch, upto)
<1>1. bk.watch \in Nat /\ bk.watch >= 1 /\ bk.pos \in Positions /\ bk.trades \in Seq(Trade)
  BY KeptTyped
<1>2. w \in Nat /\ w >= 1
  BY <1>1 DEF NextWatch
<1> HIDE DEF w
<1>3. CASE bk.pos.side = 0 \/ Hits(bk, rs, upto) = {}
  <2>1. c = BookOf(bk.pos, w, bk.trades)
    BY <1>3, CheckExitsIs DEF w
  <2> HIDE DEF c
  <2>2. c \in Kept /\ c.watch = w /\ c.pos = bk.pos
    BY <1>1, <1>2, <2>1, BookTyped, KeptBook
  <2> QED
    BY <2>2 DEF c, w
<1>4. CASE ~(bk.pos.side = 0 \/ Hits(bk, rs, upto) = {})
  <2> DEFINE k == First(Hits(bk, rs, upto))
  <2>1. k \in DOMAIN rs
    BY <1>4, HitsAreRows
  <2>2. c = Exited(bk, rs, k, w)
    BY <1>4, CheckExitsIs DEF w
  <2> HIDE DEF c, k
  <2>3. c \in Kept /\ c.pos = Flat /\ c.watch = w
    BY <1>2, <2>1, <2>2, ExitedIs
  <2> QED
    BY <2>3 DEF c, w
<1> QED
  BY <1>3, <1>4

\* A row reads the same in the longer record.
LEMMA SameRow ==
    ASSUME NEW rs, NEW rs2, NEW i, rs2[i] = rs[i], NEW pos, NEW side
    PROVE  /\ Touch(rs2, i, side) = Touch(rs, i, side)
           /\ StopHit(rs2, i, pos) <=> StopHit(rs, i, pos)
           /\ TargetHit(rs2, i, pos) <=> TargetHit(rs, i, pos)
<1>1. Touch(rs2, i, side) = Touch(rs, i, side) /\ Touch(rs2, i, pos.side) = Touch(rs, i, pos.side)
  BY DEF Touch
<1>2. Gain(rs2, i, pos) = Gain(rs, i, pos)
  BY <1>1 DEF Gain
<1> QED
  BY <1>1, <1>2 DEF StopHit, TargetHit

LEMMA SameExit ==
    ASSUME NEW bk, NEW rs, NEW rs2, NEW k, rs2[k] = rs[k], NEW w
    PROVE  Exited(bk, rs2, k, w) = Exited(bk, rs, k, w)
<1>1. ExitPx(bk, rs2, k) = ExitPx(bk, rs, k) /\ ExitReason(bk, rs2, k) = ExitReason(bk, rs, k)
  BY SameRow DEF ExitPx, ExitReason
<1> QED
  BY <1>1 DEF Exited, Close

\* Exits on rows that both have are the same.
LEMMA CheckExitsLonger ==
    ASSUME NEW bk \in Kept, NEW rs \in Seq(Timed), NEW rs2 \in Seq(Timed),
           Len(rs) <= Len(rs2), \A i \in DOMAIN rs : rs2[i] = rs[i],
           NEW upto \in 0 .. Len(rs)
    PROVE  CheckExits(bk, rs2, upto) = CheckExits(bk, rs, upto)
<1> DEFINE H == Hits(bk, rs, upto)
           w == NextWatch(bk.watch, upto)
<1>1. bk.watch \in Nat /\ bk.watch >= 1 /\ DOMAIN rs = 1 .. Len(rs) /\ Len(rs) \in Nat
  BY KeptTyped
<1>2. \A i \in bk.watch .. upto : rs2[i] = rs[i]
  BY <1>1
<1>3. \A i \in bk.watch .. upto :
        (StopHit(rs2, i, bk.pos) \/ TargetHit(rs2, i, bk.pos))
        <=> (StopHit(rs, i, bk.pos) \/ TargetHit(rs, i, bk.pos))
  BY <1>2, SameRow
<1>4. Hits(bk, rs2, upto) = H
  BY <1>3 DEF Hits
<1>5. CASE bk.pos.side = 0 \/ H = {}
  BY <1>4, <1>5, CheckExitsIs
<1>6. CASE ~(bk.pos.side = 0 \/ H = {})
  <2> DEFINE k == First(H)
  <2>1. k \in DOMAIN rs
    BY <1>6, HitsAreRows
  <2>2. Exited(bk, rs2, k, w) = Exited(bk, rs, k, w)
    BY <2>1, SameExit
  <2>3. CheckExits(bk, rs2, upto) = Exited(bk, rs2, k, w)
    BY <1>4, <1>6, CheckExitsIs
  <2>4. CheckExits(bk, rs, upto) = Exited(bk, rs, k, w)
    BY <1>6, CheckExitsIs
  <2> QED
    BY <2>2, <2>3, <2>4
<1> QED
  BY <1>5, <1>6

\* Looking twice is looking once.
LEMMA CheckExitsTwice ==
    ASSUME NEW bk \in Kept, NEW rs \in Seq(Timed), NEW a \in Nat, NEW b \in 0 .. Len(rs), a <= b
    PROVE  CheckExits(CheckExits(bk, rs, a), rs, b) = CheckExits(bk, rs, b)
<1> DEFINE w  == NextWatch(bk.watch, a)
           v  == NextWatch(bk.watch, b)
           A  == Hits(bk, rs, a)
           B  == Hits(bk, rs, b)
           c  == CheckExits(bk, rs, a)
           d  == CheckExits(c, rs, b)
<1>1. bk.watch \in Nat /\ bk.watch >= 1 /\ bk.pos \in Positions /\ bk.trades \in Seq(Trade)
      /\ Len(rs) \in Nat /\ a \in 0 .. Len(rs) /\ b \in Nat
  BY KeptTyped
<1>2. w \in Nat /\ w >= 1 /\ w = (IF a >= bk.watch THEN a + 1 ELSE bk.watch) /\ NextWatch(w, b) = v
  BY <1>1 DEF NextWatch
<1>3. A \subseteq B
  BY <1>1 DEF Hits
<1> HIDE DEF w, v
<1>4. CASE bk.pos.side = 0 \/ A = {}
  <2>1. c = BookOf(bk.pos, w, bk.trades)
    BY <1>4, CheckExitsIs DEF w
  <2>2. c.pos = bk.pos /\ c.watch = w /\ c.trades = bk.trades
    BY <2>1 DEF BookOf
  <2> HIDE DEF c
  <2>3. CASE bk.pos.side = 0
    <3>1. d = BookOf(bk.pos, v, bk.trades)
      BY <1>2, <2>2, <2>3, CheckExitsIs
    <3>2. CheckExits(bk, rs, b) = BookOf(bk.pos, v, bk.trades)
      BY <2>3, CheckExitsIs DEF v
    <3> QED
      BY <3>1, <3>2 DEF c
  <2>4. CASE bk.pos.side # 0
    <3>1. A = {}
      BY <1>4, <2>4
    <3>2. \A i \in bk.watch .. b :
            (StopHit(rs, i, bk.pos) \/ TargetHit(rs, i, bk.pos)) => i \in w .. b
      BY <1>1, <1>2, <3>1 DEF Hits
    <3>3. w .. b \subseteq bk.watch .. b
      BY <1>1, <1>2
    <3>4. Hits(c, rs, b) = B
      BY <2>2, <3>2, <3>3 DEF Hits
    <3>5. \A k : Exited(c, rs, k, v) = Exited(bk, rs, k, v)
      BY <2>2 DEF Exited, ExitPx, ExitReason
    <3>6. d = IF B = {} THEN BookOf(bk.pos, v, bk.trades) ELSE Exited(c, rs, First(B), v)
      BY <1>2, <2>2, <2>4, <3>4, CheckExitsIs
    <3>7. CheckExits(bk, rs, b)
          = IF B = {} THEN BookOf(bk.pos, v, bk.trades) ELSE Exited(bk, rs, First(B), v)
      BY <2>4, CheckExitsIs DEF v
    <3> HIDE DEF B, d
    <3>8. d = CheckExits(bk, rs, b)
      BY <3>5, <3>6, <3>7
    <3> QED
      BY <3>8 DEF c, d
  <2> QED
    BY <2>3, <2>4
<1>5. CASE ~(bk.pos.side = 0 \/ A = {})
  <2> DEFINE k == First(A)
  <2>1. k \in A /\ k \in DOMAIN rs /\ \A j \in A : k <= j
    BY <1>1, <1>5, HitsAreRows
  <2>2. B # {} /\ First(B) \in B /\ \A j \in B : First(B) <= j
    BY <1>3, <1>5, HitsAreRows
  <2>3. \A j \in B : j \in Nat /\ (j \in A \/ a < j)
    BY <1>1 DEF Hits
  <2>4. k \in B /\ k \in Nat /\ k <= a
    BY <1>1, <1>3, <2>1 DEF Hits
  <2> HIDE DEF A, B, k
  <2>5. First(B) = k
    <3>1. First(B) <= k /\ First(B) \in Nat
      BY <2>2, <2>3, <2>4
    <3>2. k <= First(B)
      BY <1>1, <2>1, <2>2, <2>3, <2>4
    <3> QED
      BY <2>4, <3>1, <3>2
  <2>6. c = Exited(bk, rs, k, w)
    BY <1>5, CheckExitsIs DEF A, k, w
  <2>7. CheckExits(bk, rs, b) = Exited(bk, rs, k, v)
    BY <1>5, <2>2, <2>5, CheckExitsIs DEF B, v
  <2> DEFINE tr == Append(bk.trades, [side |-> bk.pos.side,
                          entry |-> bk.pos.ts, entryPx |-> bk.pos.px, exit |-> rs[k].ts,
                          exitPx |-> ExitPx(bk, rs, k), reason |-> ExitReason(bk, rs, k)])
  <2>8. \A x : Exited(bk, rs, k, x) = BookOf(Flat, x, tr)
    BY DEF Exited, Close, BookOf
  <2> HIDE DEF tr, c
  <2>9. c.pos = Flat /\ c.watch = w /\ c.trades = tr
    BY <2>6, <2>8 DEF BookOf
  <2>10. d = BookOf(Flat, v, tr)
    BY <1>2, <2>9, CheckExitsIs, FlatTyped
  <2> QED
    BY <2>7, <2>8, <2>10 DEF c
<1> QED
  BY <1>4, <1>5

-----------------------------------------------------------------------------
(* Orders and decisions.                                                   *)

LEMMA NewBookIs ==
    /\ NewBook \in Kept /\ NewBook.pos = Flat /\ NewBook.pos.side = 0
    /\ NewBook.watch = 1 /\ NewBook.trades = <<>>
<1> DEFINE none == <<>>
<1>1. none \in Seq(Trade) /\ 1 \in Nat
  OBVIOUS
<1>2. NewBook = BookOf(Flat, 1, none)
  BY DEF NewBook
<1>3. none = <<>>
  OBVIOUS
<1> HIDE DEF none
<1>4. BookOf(Flat, 1, none) \in Books /\ BookOf(Flat, 1, none).pos = Flat
      /\ BookOf(Flat, 1, none).watch = 1 /\ BookOf(Flat, 1, none).trades = none
  BY <1>1, FlatTyped, BookTyped
<1> QED
  BY <1>2, <1>3, <1>4, FlatTyped DEF Kept

Entered(s, rs, side, f) ==
    BookOf([side |-> side, px |-> Touch(rs, f, -side), ts |-> rs[f].ts], f + 1,
           (IF s.pos.side = 0 THEN s ELSE Close(s, rs, f, Touch(rs, f, -side), "jev")).trades)

\* An order to the other side opens a position, whatever the exits left of the old one.
LEMMA GoIs ==
    ASSUME NEW bk \in Kept, NEW rs \in Seq(Timed), NEW side \in {-1, 1}, side # bk.pos.side,
           NEW t, RowAt(rs, t + Latency) \in DOMAIN rs
    PROVE  /\ Go(bk, rs, side, t) = Entered(CheckExits(bk, rs, RowAt(rs, t + Latency)), rs, side,
                                            RowAt(rs, t + Latency))
           /\ Go(bk, rs, side, t) \in Kept
           /\ Go(bk, rs, side, t).watch = RowAt(rs, t + Latency) + 1
<1> DEFINE f   == RowAt(rs, t + Latency)
           s   == CheckExits(bk, rs, f)
           px  == Touch(rs, f, -side)
           out == IF s.pos.side = 0 THEN s ELSE Close(s, rs, f, px, "jev")
           pos == [side |-> side, px |-> px, ts |-> rs[f].ts]
           g   == Go(bk, rs, side, t)
<1>1. f \in DOMAIN rs /\ f \in 0 .. Len(rs) /\ f \in Nat /\ f >= 1
  OBVIOUS
<1>2. g = IF side = bk.pos.side THEN bk
          ELSE IF side = s.pos.side THEN s ELSE BookOf(pos, f + 1, out.trades)
  BY Zenon DEF Go
<1> HIDE DEF f
<1>3. s \in Kept /\ (s.pos = bk.pos \/ s.pos = Flat)
  BY <1>1, CheckExitsTyped
<1>4. side # s.pos.side
  BY <1>3, FlatTyped
<1>5. px \in Int
  BY <1>1, TouchTyped
<1>6. pos \in Positions
  <2>1. rs[f] \in Timed
    BY <1>1
  <2> QED
    BY <1>5, <2>1 DEF Positions, Timed
<1> HIDE DEF s, px, pos, g
<1>7. out.trades \in Seq(Trade)
  <2>1. s \in Books /\ s.trades \in Seq(Trade)
    BY <1>3, KeptTyped
  <2>2. Close(s, rs, f, px, "jev") \in Books
    BY <1>1, <1>5, <2>1, CloseTyped
  <2>3. Close(s, rs, f, px, "jev").trades \in Seq(Trade)
    BY <2>2 DEF Books
  <2> QED
    BY <2>1, <2>3
<1> DEFINE tr == out.trades
           w  == f + 1
<1>8. tr \in Seq(Trade) /\ w \in Nat /\ w >= 1
  BY <1>1, <1>7
<1>9. g = BookOf(pos, w, tr)
  BY <1>2, <1>4
<1>10. g = Entered(s, rs, side, f)
  BY <1>9 DEF Entered, pos, px
<1> HIDE DEF tr, w
<1>11. g \in Kept /\ g.watch = w
  <2>1. BookOf(pos, w, tr) \in Kept
    BY <1>6, <1>8, KeptBook
  <2>2. BookOf(pos, w, tr).watch = w
    BY <1>6, <1>8, BookTyped
  <2> QED
    BY <1>9, <2>1, <2>2
<1> QED
  BY <1>10, <1>11 DEF g, s, w, f

\* It does not matter whether the exits were looked for before.
LEMMA GoSwept ==
    ASSUME NEW bk \in Kept, NEW rs \in Seq(Timed), NEW side \in {-1, 1}, side # bk.pos.side,
           NEW t, RowAt(rs, t + Latency) \in DOMAIN rs,
           NEW a \in 0 .. RowAt(rs, t + Latency)
    PROVE  Go(CheckExits(bk, rs, a), rs, side, t) = Go(bk, rs, side, t)
<1> DEFINE f == RowAt(rs, t + Latency)
           c == CheckExits(bk, rs, a)
<1>1. /\ f \in DOMAIN rs /\ f \in Nat /\ a \in Nat /\ a <= f
      /\ f \in 0 .. Len(rs) /\ a \in 0 .. Len(rs)
  OBVIOUS
<1> HIDE DEF f
<1>2. c \in Kept /\ (c.pos = bk.pos \/ c.pos = Flat)
  BY <1>1, CheckExitsTyped
<1>3. side # c.pos.side
  BY <1>2, FlatTyped
<1>4. CheckExits(c, rs, f) = CheckExits(bk, rs, f)
  BY <1>1, CheckExitsTwice
<1> HIDE DEF c
<1>5. Go(c, rs, side, t) = Entered(CheckExits(c, rs, f), rs, side, f)
  BY <1>1, <1>2, <1>3, GoIs DEF f
<1>6. Go(bk, rs, side, t) = Entered(CheckExits(bk, rs, f), rs, side, f)
  BY <1>1, GoIs DEF f
<1> QED
  BY <1>4, <1>5, <1>6 DEF c

LEMMA GoLonger ==
    ASSUME NEW bk \in Kept, NEW rs \in Seq(Timed), NEW rs2 \in Seq(Timed),
           NEW side \in {-1, 1}, side # bk.pos.side, NEW t \in Int,
           RowAt(rs, t + Latency) \in DOMAIN rs, Longer(rs, rs2, t + Latency)
    PROVE  Go(bk, rs2, side, t) = Go(bk, rs, side, t)
<1> DEFINE f == RowAt(rs, t + Latency)
<1>1. f \in DOMAIN rs /\ f \in 0 .. Len(rs) /\ Len(rs) \in Nat /\ Len(rs2) \in Nat
      /\ DOMAIN rs2 = 1 .. Len(rs2) /\ DOMAIN rs = 1 .. Len(rs) /\ t + Latency \in Int
  BY ClockAssumption
<1>2. RowAt(rs2, t + Latency) = f
  BY <1>1, RowAtLonger
<1>3. Len(rs) <= Len(rs2) /\ (\A i \in DOMAIN rs : rs2[i] = rs[i]) /\ f \in DOMAIN rs2
  BY <1>1 DEF Longer
<1> HIDE DEF f
<1>4. CheckExits(bk, rs2, f) = CheckExits(bk, rs, f)
  BY <1>1, <1>3, CheckExitsLonger
<1>5. rs2[f] = rs[f]
  BY <1>1, <1>3
<1>6. \A s : Entered(s, rs2, side, f) = Entered(s, rs, side, f)
  <2>1. Touch(rs2, f, -side) = Touch(rs, f, -side)
    BY <1>5 DEF Touch
  <2>2. \A s, px : Close(s, rs2, f, px, "jev") = Close(s, rs, f, px, "jev")
    BY <1>5 DEF Close
  <2> QED
    BY <1>5, <2>1, <2>2 DEF Entered
<1>7. Go(bk, rs2, side, t) = Entered(CheckExits(bk, rs2, f), rs2, side, f)
  BY <1>2, <1>3, GoIs
<1>8. Go(bk, rs, side, t) = Entered(CheckExits(bk, rs, f), rs, side, f)
  BY <1>1, GoIs DEF f
<1> QED
  BY <1>4, <1>6, <1>7, <1>8

LEMMA SendsSide ==
    ASSUME NEW act \in Said, NEW side, SendsOrder(act, side)
    PROVE  SideOf[act] \in {-1, 1} /\ SideOf[act] # side /\ act # "HOLD"
<1>1. act = "BUY" \/ act = "SELL"
  BY DEF Said, SendsOrder
<1> QED
  BY <1>1 DEF SideOf, SendsOrder

\* A decision sends an order, or leaves the book as it found it.
LEMMA DecideIs ==
    ASSUME NEW opts, NEW p \in Policies, NEW rs, NEW ds \in Seq(Decision), ds # <<>>, NEW bk
    PROVE  LET found == Found(rs, ds, bk)
               t     == LastOf(ds).t
               act   == Action(opts, p, ds, t, found.pos)
           IN  /\ act \in Said
               /\ SendsOrder(act, found.pos.side)
                     => Decide(opts, p, rs, ds, bk) = Go(found, rs, SideOf[act], t)
               /\ ~SendsOrder(act, found.pos.side) => Decide(opts, p, rs, ds, bk) = found
<1> DEFINE found == Found(rs, ds, bk)
           t     == LastOf(ds).t
           act   == Action(opts, p, ds, t, found.pos)
<1>1. act \in Said
  BY ActionTyped
<1>2. Decide(opts, p, rs, ds, bk) = IF act = "HOLD" THEN found ELSE Go(found, rs, SideOf[act], t)
  BY Zenon DEF Decide
<1> HIDE DEF found, t, act
<1>3. ASSUME SideOf[act] = found.pos.side PROVE Go(found, rs, SideOf[act], t) = found
  BY <1>3, Zenon DEF Go
<1>4. SendsOrder(act, found.pos.side) <=> act # "HOLD" /\ SideOf[act] # found.pos.side
  BY DEF SendsOrder
<1> QED
  BY <1>1, <1>2, <1>3, <1>4 DEF found, t, act

LEMMA FoundLonger ==
    ASSUME NEW bk \in Kept, NEW rs \in Seq(Timed), NEW rs2 \in Seq(Timed),
           NEW ds \in Seq(Decision), ds # <<>>, Longer(rs, rs2, LastOf(ds).t)
    PROVE  Found(rs, ds, bk) \in Kept /\ Found(rs2, ds, bk) = Found(rs, ds, bk)
<1> DEFINE t == LastOf(ds).t
           f == RowAt(rs, t)
<1>1. LastOf(ds) \in Decision
  BY FrontIs
<1>2. t \in Int
  BY <1>1 DEF Decision
<1>3. f \in 0 .. Len(rs)
  <2>1. rs \in Seq(Row)
    BY RowsTyped
  <2> QED
    BY <2>1, RowAtBounds
<1>4. RowAt(rs2, t) = f
  BY <1>2, RowAtLonger
<1> HIDE DEF f
<1>5. CheckExits(bk, rs2, f) = CheckExits(bk, rs, f)
  BY <1>3, CheckExitsLonger DEF Longer
<1>6. CheckExits(bk, rs, f) \in Kept
  BY <1>3, CheckExitsTyped
<1>7. Found(rs, ds, bk) = CheckExits(bk, rs, f) /\ Found(rs2, ds, bk) = CheckExits(bk, rs2, f)
  BY <1>4 DEF Found, f
<1> QED
  BY <1>5, <1>6, <1>7

\* A decision whose order has filled is what it was, once longer records come.
LEMMA DecideLonger ==
    ASSUME NEW opts, NEW p \in Policies, NEW bk \in Kept,
           NEW rs \in Seq(Timed), NEW rs2 \in Seq(Timed),
           NEW ds \in Seq(Decision), ds # <<>>, rs # <<>>, rs[1].ts <= LastOf(ds).t,
           Longer(rs, rs2, LastOf(ds).t + Latency)
    PROVE  /\ Decide(opts, p, rs, ds, bk) \in Kept
           /\ Decide(opts, p, rs2, ds, bk) = Decide(opts, p, rs, ds, bk)
<1> DEFINE t     == LastOf(ds).t
           found == Found(rs, ds, bk)
           act   == Action(opts, p, ds, t, found.pos)
<1>1. LastOf(ds) \in Decision
  BY FrontIs
<1>2. t \in Int /\ t + Latency \in Int /\ t <= t + Latency /\ Longer(rs, rs2, t + Latency)
      /\ rs[1].ts <= t
  BY <1>1, ClockAssumption DEF Decision
<1>3. Longer(rs, rs2, t)
  BY <1>2, LongerSooner
<1>4. found \in Kept /\ Found(rs2, ds, bk) = found
  BY <1>3, FoundLonger
<1>5. RowAt(rs, t + Latency) \in DOMAIN rs
  <2>1. rs[1].ts \in Int
    <3>1. 1 \in DOMAIN rs
      OBVIOUS
    <3> QED
      BY <3>1, TimedTyped
  <2>2. rs[1].ts <= t + Latency
    BY <1>2, <2>1
  <2> QED
    BY <1>2, <2>2, RowAtBegan
<1>6. /\ act \in Said
      /\ SendsOrder(act, found.pos.side)
            => Decide(opts, p, rs, ds, bk) = Go(found, rs, SideOf[act], t)
      /\ ~SendsOrder(act, found.pos.side) => Decide(opts, p, rs, ds, bk) = found
  BY DecideIs
<1>7. /\ SendsOrder(act, found.pos.side)
            => Decide(opts, p, rs2, ds, bk) = Go(found, rs2, SideOf[act], t)
      /\ ~SendsOrder(act, found.pos.side) => Decide(opts, p, rs2, ds, bk) = found
  BY <1>4, DecideIs
<1> HIDE DEF t, found, act
<1>8. CASE SendsOrder(act, found.pos.side)
  <2>1. SideOf[act] \in {-1, 1} /\ SideOf[act] # found.pos.side
    BY <1>6, <1>8, SendsSide
  <2>2. Go(found, rs2, SideOf[act], t) = Go(found, rs, SideOf[act], t)
        /\ Go(found, rs, SideOf[act], t) \in Kept
    BY <1>2, <1>4, <1>5, <2>1, GoLonger, GoIs
  <2> QED
    BY <1>6, <1>7, <1>8, <2>2
<1>9. CASE ~SendsOrder(act, found.pos.side)
  BY <1>4, <1>6, <1>7, <1>9
<1> QED
  BY <1>8, <1>9

\* The rows a decision and its order read are all in rs.
Read(rs, rs2, ds) ==
    \A i \in DOMAIN ds : /\ rs # <<>> /\ rs[1].ts <= ds[i].t
                         /\ Longer(rs, rs2, ds[i].t + Latency)

LEMMA DecidedLonger ==
    ASSUME NEW opts, NEW p \in Policies, NEW rs \in Seq(Timed), NEW rs2 \in Seq(Timed),
           NEW ds \in Seq(Decision), Read(rs, rs2, ds)
    PROVE  Decided(opts, p, rs, ds) \in Kept /\ Decided(opts, p, rs2, ds) = Decided(opts, p, rs, ds)
<1> DEFINE Same(s) == /\ Decided(opts, p, rs, s) \in Kept
                      /\ Decided(opts, p, rs2, s) = Decided(opts, p, rs, s)
           Bad == {n \in Nat : \E s \in Seq(Decision) : Len(s) = n /\ Read(rs, rs2, s) /\ ~Same(s)}
<1> HIDE DEF Same
<1> SUFFICES ASSUME Bad # {} PROVE FALSE
  <2>1. Len(ds) \in Nat
    OBVIOUS
  <2>2. Same(ds)
    BY <2>1
  <2> QED
    BY <2>2 DEF Same
<1>1. PICK n \in Bad : \A j \in Bad : n <= j
  <2>1. Bad \subseteq Nat
    OBVIOUS
  <2> HIDE DEF Bad
  <2> QED
    BY <2>1, LeastNatural
<1>2. PICK s \in Seq(Decision) : Len(s) = n /\ Read(rs, rs2, s) /\ ~Same(s)
  BY <1>1
<1>3. CASE s = <<>>
  <2>1. Same(s)
    BY <1>3, DecidedNone, NewBookIs DEF Same
  <2> QED
    BY <1>2, <2>1
<1>4. CASE s # <<>>
  <2> DEFINE fr == FrontOf(s)
  <2>1. /\ fr \in Seq(Decision) /\ Len(fr) = n - 1 /\ n \in Nat \ {0} /\ n \in DOMAIN s
        /\ DOMAIN fr \subseteq DOMAIN s /\ \A i \in DOMAIN fr : fr[i] = s[i]
        /\ LastOf(s) = s[n]
    <3>1. /\ fr \in Seq(Decision) /\ Len(fr) = Len(s) - 1
          /\ \A i \in 1 .. Len(s) - 1 : fr[i] = s[i]
          /\ Len(s) \in Nat \ {0} /\ DOMAIN s = 1 .. Len(s)
          /\ DOMAIN fr = 1 .. Len(s) - 1 /\ LastOf(s) = s[Len(s)]
      BY <1>4, FrontIs
    <3> HIDE DEF fr
    <3> QED
      BY <1>2, <3>1
  <2> HIDE DEF fr
  <2>2. Read(rs, rs2, fr)
    BY <1>2, <2>1 DEF Read
  <2>3. Same(fr)
    <3>1. n - 1 \in Nat /\ n - 1 \notin Bad
      BY <1>1, <2>1
    <3> QED
      BY <2>1, <2>2, <3>1
  <2>4. rs # <<>> /\ rs[1].ts <= LastOf(s).t /\ Longer(rs, rs2, LastOf(s).t + Latency)
    BY <1>2, <2>1 DEF Read
  <2> DEFINE b == Decided(opts, p, rs, fr)
  <2>5. b \in Kept /\ Decided(opts, p, rs2, fr) = b
    BY <2>3 DEF Same
  <2> HIDE DEF b
  <2>6. Decide(opts, p, rs, s, b) \in Kept /\ Decide(opts, p, rs2, s, b) = Decide(opts, p, rs, s, b)
    BY <1>4, <2>4, <2>5, DecideLonger
  <2>7. /\ Decided(opts, p, rs, s) = Decide(opts, p, rs, s, b)
        /\ Decided(opts, p, rs2, s) = Decide(opts, p, rs2, s, b)
    BY <1>4, <2>5, DecidedLast DEF fr, b
  <2>8. Same(s)
    BY <2>6, <2>7 DEF Same
  <2> QED
    BY <1>2, <2>8
<1> QED
  BY <1>3, <1>4

-----------------------------------------------------------------------------
(* A rehearsal and its backtest.  At every moment of a rehearsal each book *)
(* is the backtest's over the decisions and the rows so far, swept up to   *)
(* the last row; while the last decision's order is in flight, it is the   *)
(* book that decision found.  Nothing that a decision or a fill has read   *)
(* can still change: every row to come is later.                           *)

Rehearsed == ~set.live /\ cancels = 0 /\ warmUntil = 0

\* No row up to t is still to come, and when the feed has been read the rows reach t.
Reached(t) == /\ \A j \in DOMAIN buf : t < buf[j].ts
              /\ buf = <<>> => \E i \in DOMAIN rows : t <= rows[i].ts

\* No row up to t is still to come.
Past(t) == /\ \A j \in DOMAIN buf : t < buf[j].ts
           /\ buf = <<>> => phase = "finishing" \/ \E i \in DOMAIN rows : t <= rows[i].ts

Began(t) == rows # <<>> /\ rows[1].ts <= t

OnTheGrid ==
    /\ phase = "finishing" => buf = <<>>
    /\ \A k \in 1 .. gi - 1 : Reached(Grid(k))
    /\ {decisions[i].t : i \in DOMAIN decisions} =
           {Grid(k) : k \in {j \in 1 .. gi - 1 : Began(Grid(j))}} \ {asking}
    /\ \A i, j \in DOMAIN decisions : i < j => decisions[i].t + Cadence <= decisions[j].t

FoundNow(p)  == Found(rows, decisions, Decided(set, p, rows, FrontOf(decisions)))
ActionNow(p) == Action(set, p, decisions, LastOf(decisions).t, FoundNow(p).pos)
Sends(p)     == SendsOrder(ActionNow(p), FoundNow(p).pos.side)
Swept(bk)    == CheckExits(bk, rows, Len(rows))

Fresh(p)   == decisions = <<>> /\ ~OrderPending(p) /\ book[p] = Swept(NewBook)
Waiting(p) == /\ decisions # <<>> /\ Sends(p) /\ book[p] = Swept(FoundNow(p))
              /\ \E f \in fills : f.policy = p /\ f.send = LastOf(decisions).t
                                               /\ f.side = SideOf[ActionNow(p)]
Settled(p) == /\ decisions # <<>> /\ ~OrderPending(p)
              /\ Sends(p) => Past(LastOf(decisions).t + Latency)
              /\ book[p] = Swept(Decided(set, p, rows, decisions))

Follows == \A p \in Policies : Fresh(p) \/ Waiting(p) \/ Settled(p)

RInv == IF closed THEN ReplayMatchesBacktest ELSE Rehearsed => OnTheGrid /\ Follows

-----------------------------------------------------------------------------
(* A state of a rehearsal.                                                 *)

LEMMA ReachedPast ==
    ASSUME NEW t, Reached(t)
    PROVE  Past(t)
  BY DEF Reached, Past

LEMMA PastSooner ==
    ASSUME BInv, NEW t \in Int, NEW u \in Int, u <= t, Past(t)
    PROVE  Past(u)
<1>1. (\A j \in DOMAIN buf : buf[j].ts \in Int) /\ (\A i \in DOMAIN rows : rows[i].ts \in Int)
  BY TimedTyped DEF BInv, InOrder
<1> QED
  BY <1>1 DEF Past

\* A decision was made at a time of the grid that the rows cover.
LEMMA DecisionTimes ==
    ASSUME BInv, OnTheGrid, NEW i \in DOMAIN decisions
    PROVE  /\ decisions[i] \in Decision /\ decisions[i].t \in Nat
           /\ Began(decisions[i].t) /\ Reached(decisions[i].t)
           /\ decisions[i].t # asking
           /\ \E k \in 1 .. gi - 1 : decisions[i].t = Grid(k)
<1>1. decisions[i] \in Decision
  BY DEF BInv, PlainTypes
<1>2. decisions[i].t \in {decisions[j].t : j \in DOMAIN decisions}
  OBVIOUS
<1>3. PICK k \in {j \in 1 .. gi - 1 : Began(Grid(j))} :
           decisions[i].t = Grid(k) /\ decisions[i].t # asking
  BY <1>2, Zenon DEF OnTheGrid
<1>4. k \in 1 .. gi - 1 /\ Began(Grid(k))
  OBVIOUS
<1>5. gi \in Nat
  BY ClockAssumption DEF BInv, InFlight
<1>6. k \in Nat \ {0}
  BY <1>4, <1>5
<1>7. Grid(k) \in Nat
  BY <1>6, GridTimes
<1>8. Reached(Grid(k))
  BY <1>4 DEF OnTheGrid
<1> QED
  BY <1>1, <1>3, <1>4, <1>7, <1>8

LEMMA LastDecision ==
    ASSUME BInv, OnTheGrid, decisions # <<>>
    PROVE  /\ decisions \in Seq(Decision) /\ Len(decisions) \in DOMAIN decisions
           /\ LastOf(decisions).t \in Nat /\ rows # <<>> /\ rows[1].ts <= LastOf(decisions).t
           /\ Reached(LastOf(decisions).t)
           /\ \A i \in DOMAIN FrontOf(decisions) :
                 /\ i \in DOMAIN decisions /\ FrontOf(decisions)[i] = decisions[i]
                 /\ FrontOf(decisions)[i].t \in Nat /\ rows[1].ts <= FrontOf(decisions)[i].t
                 /\ FrontOf(decisions)[i].t + Latency <= LastOf(decisions).t
<1> DEFINE n  == Len(decisions)
           fr == FrontOf(decisions)
<1>1. decisions \in Seq(Decision)
  BY DEF BInv, PlainTypes
<1>2. /\ n \in Nat \ {0} /\ DOMAIN decisions = 1 .. n /\ LastOf(decisions) = decisions[n]
      /\ DOMAIN fr = 1 .. n - 1 /\ \A i \in 1 .. n - 1 : fr[i] = decisions[i]
  BY <1>1, FrontIs
<1> HIDE DEF n, fr
<1>3. n \in DOMAIN decisions
  BY <1>2
<1>4. decisions[n].t \in Nat /\ Began(decisions[n].t) /\ Reached(decisions[n].t)
  BY <1>3, DecisionTimes
<1>5. ASSUME NEW i \in DOMAIN fr
      PROVE  /\ i \in DOMAIN decisions /\ fr[i] = decisions[i] /\ decisions[i].t \in Nat
             /\ rows[1].ts <= decisions[i].t /\ decisions[i].t + Latency <= decisions[n].t
  <2>1. i \in DOMAIN decisions /\ fr[i] = decisions[i] /\ i < n
    BY <1>2
  <2>2. decisions[i].t \in Nat /\ Began(decisions[i].t)
    BY <2>1, DecisionTimes
  <2>3. decisions[i].t + Cadence <= decisions[n].t
    BY <1>3, <2>1 DEF OnTheGrid
  <2>4. Latency <= Cadence /\ Latency \in Nat /\ Cadence \in Nat
    BY ClockAssumption
  <2>5. decisions[i].t + Latency <= decisions[n].t
    BY <1>4, <2>2, <2>3, <2>4
  <2> QED
    BY <2>1, <2>2, <2>5 DEF Began
<1> QED
  BY <1>1, <1>2, <1>3, <1>4, <1>5 DEF Began, n, fr

\* Later rows change nothing of what the last decision found.
LEMMA FoundStays ==
    ASSUME BInv, OnTheGrid, decisions # <<>>, NEW p \in Policies, NEW rs2 \in Seq(Timed),
           Longer(rows, rs2, LastOf(decisions).t)
    PROVE  /\ Found(rs2, decisions, Decided(set, p, rs2, FrontOf(decisions))) = FoundNow(p)
           /\ FoundNow(p) \in Kept
<1> DEFINE fr == FrontOf(decisions)
           b  == Decided(set, p, rows, fr)
           t  == LastOf(decisions).t
<1>1. rows \in Seq(Timed)
  BY DEF BInv, InOrder
<1>2. decisions \in Seq(Decision) /\ t \in Nat /\ rows # <<>>
  BY LastDecision
<1>3. fr \in Seq(Decision)
  BY <1>2, FrontIs
<1>4. ASSUME NEW i \in DOMAIN fr
      PROVE  rows[1].ts <= fr[i].t /\ Longer(rows, rs2, fr[i].t + Latency)
  <2>1. fr[i].t \in Nat /\ rows[1].ts <= fr[i].t /\ fr[i].t + Latency <= t
    BY LastDecision
  <2>2. fr[i].t + Latency \in Int
    BY <2>1, ClockAssumption
  <2> QED
    BY <1>1, <1>2, <2>1, <2>2, LongerSooner
<1>5. Read(rows, rs2, fr)
  BY <1>2, <1>4 DEF Read
<1> HIDE DEF fr
<1>6. b \in Kept /\ Decided(set, p, rs2, fr) = b
  BY <1>1, <1>3, <1>5, DecidedLonger
<1> HIDE DEF b
<1>7. Found(rows, decisions, b) \in Kept /\ Found(rs2, decisions, b) = Found(rows, decisions, b)
  BY <1>1, <1>2, <1>6, FoundLonger
<1> QED
  BY <1>6, <1>7 DEF FoundNow, fr, b

LEMMA SameRows ==
    ASSUME NEW rs \in Seq(Timed), NEW t
    PROVE  Longer(rs, rs, t)
<1>1. Len(rs) \in Nat
  OBVIOUS
<1> QED
  BY <1>1 DEF Longer

\* What the last decision makes of the book it found.
LEMMA DecidedNow ==
    ASSUME BInv, OnTheGrid, decisions # <<>>, NEW p \in Policies, NEW rs,
           Found(rs, decisions, Decided(set, p, rs, FrontOf(decisions))) = FoundNow(p)
    PROVE  /\ Sends(p) =>
                /\ Decided(set, p, rs, decisions)
                     = Go(FoundNow(p), rs, SideOf[ActionNow(p)], LastOf(decisions).t)
                /\ SideOf[ActionNow(p)] \in {-1, 1}
                /\ SideOf[ActionNow(p)] # FoundNow(p).pos.side
           /\ ~Sends(p) => Decided(set, p, rs, decisions) = FoundNow(p)
<1> DEFINE b     == Decided(set, p, rs, FrontOf(decisions))
           found == Found(rs, decisions, b)
           t     == LastOf(decisions).t
           act   == Action(set, p, decisions, t, found.pos)
<1>1. decisions \in Seq(Decision)
  BY LastDecision
<1>2. Decided(set, p, rs, decisions) = Decide(set, p, rs, decisions, b)
  BY <1>1, DecidedLast
<1> HIDE DEF b
<1>3. /\ act \in Said
      /\ SendsOrder(act, found.pos.side)
            => Decide(set, p, rs, decisions, b) = Go(found, rs, SideOf[act], t)
      /\ ~SendsOrder(act, found.pos.side) => Decide(set, p, rs, decisions, b) = found
  BY <1>1, DecideIs
<1>4. found = FoundNow(p)
  BY DEF b
<1>5. act = ActionNow(p)
  BY <1>4 DEF ActionNow
<1>6. Sends(p) <=> SendsOrder(act, found.pos.side)
  BY <1>4, <1>5 DEF Sends
<1> HIDE DEF found, act
<1>7. Sends(p) => SideOf[act] \in {-1, 1} /\ SideOf[act] # found.pos.side
  BY <1>3, <1>6, SendsSide
<1> QED
  BY <1>2, <1>3, <1>4, <1>5, <1>6, <1>7

\* Later rows change nothing of it either, once the order has filled.
LEMMA DecidedStays ==
    ASSUME BInv, OnTheGrid, decisions # <<>>, NEW p \in Policies, NEW rs2 \in Seq(Timed),
           Longer(rows, rs2, LastOf(decisions).t),
           Sends(p) => Longer(rows, rs2, LastOf(decisions).t + Latency)
    PROVE  /\ Decided(set, p, rs2, decisions) = Decided(set, p, rows, decisions)
           /\ Decided(set, p, rows, decisions) \in Kept
<1> DEFINE t    == LastOf(decisions).t
           side == SideOf[ActionNow(p)]
           fn   == FoundNow(p)
<1>1. rows \in Seq(Timed) /\ t \in Nat /\ rows # <<>> /\ rows[1].ts <= t
  BY LastDecision DEF BInv, InOrder
<1>2. Found(rs2, decisions, Decided(set, p, rs2, FrontOf(decisions))) = fn /\ fn \in Kept
  BY FoundStays
<1>3. Found(rows, decisions, Decided(set, p, rows, FrontOf(decisions))) = fn
  BY DEF FoundNow
<1>4. /\ Sends(p) => Decided(set, p, rs2, decisions) = Go(fn, rs2, side, t)
      /\ ~Sends(p) => Decided(set, p, rs2, decisions) = fn
  BY <1>2, DecidedNow
<1>5. /\ Sends(p) => Decided(set, p, rows, decisions) = Go(fn, rows, side, t)
                     /\ side \in {-1, 1} /\ side # fn.pos.side
      /\ ~Sends(p) => Decided(set, p, rows, decisions) = fn
  BY <1>3, DecidedNow
<1> HIDE DEF side, fn
<1>6. CASE Sends(p)
  <2>1. RowAt(rows, t + Latency) \in DOMAIN rows
    <3>1. 1 \in DOMAIN rows
      BY <1>1
    <3>2. rows[1].ts \in Int
      BY <1>1, <3>1, TimedTyped
    <3>3. rows[1].ts <= t + Latency /\ t + Latency \in Int
      BY <1>1, <3>2, ClockAssumption
    <3> QED
      BY <1>1, <3>3, RowAtBegan
  <2> HIDE DEF t
  <2>2. t \in Int /\ Longer(rows, rs2, t + Latency)
    BY <1>1, <1>6 DEF t
  <2>3. Go(fn, rs2, side, t) = Go(fn, rows, side, t)
    BY <1>1, <1>2, <1>5, <1>6, <2>1, <2>2, GoLonger
  <2>4. Go(fn, rows, side, t) \in Kept
    BY <1>1, <1>2, <1>5, <1>6, <2>1, GoIs
  <2> QED
    BY <1>4, <1>5, <1>6, <2>3, <2>4
<1>7. CASE ~Sends(p)
  BY <1>2, <1>4, <1>5, <1>7
<1> QED
  BY <1>6, <1>7

\* A book swept once more, with more rows.
LEMMA SweptAgain ==
    ASSUME NEW bk \in Kept, NEW rs \in Seq(Timed), NEW rs2 \in Seq(Timed), NEW t,
           Longer(rs, rs2, t)
    PROVE  CheckExits(CheckExits(bk, rs, Len(rs)), rs2, Len(rs2)) = CheckExits(bk, rs2, Len(rs2))
<1>1. /\ Len(rs) \in Nat /\ Len(rs2) \in Nat /\ Len(rs) <= Len(rs2)
      /\ \A i \in DOMAIN rs : rs2[i] = rs[i]
  BY DEF Longer
<1>2. Len(rs) \in 0 .. Len(rs) /\ Len(rs2) \in 0 .. Len(rs2)
  BY <1>1
<1>3. CheckExits(bk, rs, Len(rs)) = CheckExits(bk, rs2, Len(rs))
  BY <1>1, <1>2, CheckExitsLonger
<1> QED
  BY <1>1, <1>2, <1>3, CheckExitsTwice

RCore == OnTheGrid /\ Follows

-----------------------------------------------------------------------------
(* The steps of a rehearsal.                                               *)

\* Two moments of the grid.
LEMMA GridOrder ==
    ASSUME NEW k \in Nat \ {0}, NEW m \in Nat \ {0}, k < m
    PROVE  Grid(k) + Cadence <= Grid(m) /\ Grid(k) # Grid(m)
<1> DEFINE d == m - k
           a == (k - 1) * Cadence
           b == d * Cadence
           c == Cadence
<1>1. d \in Nat \ {0} /\ k - 1 \in Nat /\ m - 1 = (k - 1) + d /\ d - 1 \in Nat
  OBVIOUS
<1>2. c \in Nat \ {0} /\ Start \in Nat
  BY ClockAssumption
<1>3. (m - 1) * c = a + b
  <2> DEFINE x == k - 1
  <2>1. x \in Nat /\ m - 1 = x + d
    BY <1>1
  <2> HIDE DEF x, d, c
  <2>2. (x + d) * c = x * c + d * c
    BY <1>1, <1>2, <2>1
  <2>3. (m - 1) * c = x * c + d * c
    BY <2>1, <2>2
  <2> QED
    BY <2>3 DEF x, c
<1>4. a \in Nat /\ b \in Nat /\ c <= b
  <2> DEFINE y == d - 1
  <2>1. y \in Nat /\ d = y + 1
    BY <1>1
  <2> HIDE DEF y, d, c
  <2>2. (y + 1) * c = y * c + c /\ y * c \in Nat
    BY <1>2, <2>1
  <2>3. d * c = y * c + c
    BY <2>1, <2>2
  <2>4. (k - 1) * c \in Nat
    BY <1>1, <1>2
  <2> QED
    BY <1>2, <2>2, <2>3, <2>4 DEF c
<1>5. Grid(k) = Start + a /\ Grid(m) = Start + (a + b)
  BY <1>3 DEF Grid
<1> HIDE DEF a, b, c
<1>6. c = Cadence
  BY DEF c
<1> QED
  BY <1>2, <1>4, <1>5, <1>6

\* What Absorb does to the rows.
LEMMA AbsorbRows ==
    ASSUME BInv, Absorb
    PROVE  /\ UNCHANGED <<set, gi, warmUntil, fills, decisions, asking, phase, closed, cancels>>
           /\ phase = "feeding" /\ asking = 0 /\ ~closed /\ buf # <<>>
           /\ rows \in Seq(Timed) /\ rows' \in Seq(Timed) /\ Len(rows) < Len(rows')
           /\ \A i \in DOMAIN rows : rows'[i] = rows[i]
           /\ \A i \in Len(rows) + 1 .. Len(rows') : \E j \in DOMAIN buf : rows'[i] = buf[j]
           /\ \A j \in DOMAIN buf' : \E m \in DOMAIN buf : buf'[j] = buf[m]
           /\ \A p \in Policies : book'[p] = CheckExits(book[p], rows', Len(rows'))
<1> DEFINE k   == RowAt(buf, NextEvent)
           day == rows \o SubSeq(buf, 1, k)
           new == [p \in Policies |-> CheckExits(book[p], day, Len(day))]
<1>1. /\ rows' = day /\ buf' = SubSeq(buf, k + 1, Len(buf)) /\ book' = new
      /\ UNCHANGED <<set, gi, warmUntil, fills, decisions, asking, phase, closed, cancels>>
      /\ phase = "feeding" /\ asking = 0 /\ ~closed /\ k > 0
  BY DEF Absorb, Appended
<1>2. buf \in Seq(Timed) /\ rows \in Seq(Timed) /\ InOrder
  BY DEF BInv, InOrder
<1>3. k \in 0 .. Len(buf)
  BY RowAtBounds DEF BInv, IInv
<1>4. /\ InOrder' /\ Len(rows') = Len(rows) + k
      /\ \A i \in DOMAIN rows : i \in DOMAIN rows' /\ rows'[i] = rows[i]
      /\ \A i \in DOMAIN rows' : i \in DOMAIN rows \/ \E j \in 1 .. k : rows'[i] = buf[j]
  BY <1>1, <1>2, <1>3, AppendedRows
<1>5. rows' \in Seq(Timed) /\ Len(rows) \in Nat /\ Len(rows') \in Nat /\ Len(buf) \in Nat
      /\ DOMAIN rows = 1 .. Len(rows) /\ DOMAIN rows' = 1 .. Len(rows')
      /\ DOMAIN buf = 1 .. Len(buf)
  BY <1>2, <1>4 DEF InOrder
<1>6. \A j \in DOMAIN buf' : \E m \in DOMAIN buf : buf'[j] = buf[m]
  <2> DEFINE n == Len(buf)
             s == SubSeq(buf, k + 1, n)
  <2>a. k \in Nat /\ n \in Nat /\ k <= n /\ (n - (k + 1)) + 1 = n - k
    BY <1>3, <1>5
  <2> HIDE DEF k, n
  <2>b. DOMAIN s = 1 .. n - k /\ \A j \in 1 .. n - k : s[j] = buf[(k + 1) + j - 1]
    BY <1>2, <2>a
  <2>1. DOMAIN buf' = 1 .. n - k /\ \A j \in 1 .. n - k : buf'[j] = buf[k + j]
    <3>1. \A j \in 1 .. n - k : (k + 1) + j - 1 = k + j
      BY <2>a
    <3>2. buf' = s
      BY <1>1 DEF n
    <3> QED
      BY <2>b, <3>1, <3>2
  <2>2. \A j \in 1 .. n - k : k + j \in DOMAIN buf
    BY <1>5, <2>a DEF n
  <2> QED
    BY <2>1, <2>2
<1>7. \A p \in Policies : book'[p] = CheckExits(book[p], rows', Len(rows'))
  BY <1>1
<1> HIDE DEF k, day, new
<1>8. Len(rows) < Len(rows') /\ buf # <<>>
  BY <1>1, <1>3, <1>4, <1>5
<1>9. ASSUME NEW i \in Len(rows) + 1 .. Len(rows') PROVE \E j \in DOMAIN buf : rows'[i] = buf[j]
  <2>1. i \in DOMAIN rows' /\ i \notin DOMAIN rows
    BY <1>5
  <2>2. PICK j \in 1 .. k : rows'[i] = buf[j]
    BY <1>4, <2>1
  <2>3. j \in DOMAIN buf
    BY <1>3, <1>5
  <2> QED
    BY <2>2, <2>3
<1> QED
  BY <1>1, <1>2, <1>4, <1>5, <1>6, <1>7, <1>8, <1>9

\* The rows it appends are later than what is past, which stays past.
LEMMA AbsorbPast ==
    ASSUME BInv, Absorb, NEW t \in Int, Past(t)
    PROVE  Longer(rows, rows', t) /\ Past(t)' /\ Reached(t)'
<1>1. /\ Len(rows) < Len(rows') /\ buf # <<>> /\ phase = "feeding"
      /\ rows \in Seq(Timed) /\ rows' \in Seq(Timed)
      /\ \A i \in DOMAIN rows : rows'[i] = rows[i]
      /\ \A i \in Len(rows) + 1 .. Len(rows') : \E j \in DOMAIN buf : rows'[i] = buf[j]
      /\ \A j \in DOMAIN buf' : \E m \in DOMAIN buf : buf'[j] = buf[m]
  BY AbsorbRows
<1>2. \A j \in DOMAIN buf : t < buf[j].ts
  BY DEF Past
<1>3. \A i \in Len(rows) + 1 .. Len(rows') : t < rows'[i].ts
  BY <1>1, <1>2
<1>4. Longer(rows, rows', t)
  <2>1. Len(rows) <= Len(rows')
    BY <1>1
  <2> QED
    BY <1>1, <1>3, <2>1 DEF Longer
<1>5. \A j \in DOMAIN buf' : t < buf'[j].ts
  BY <1>1, <1>2
<1>6. t <= rows'[Len(rows')].ts /\ Len(rows') \in DOMAIN rows'
  <2>1. Len(rows) \in Nat /\ Len(rows') \in Nat /\ DOMAIN rows' = 1 .. Len(rows')
    BY <1>1
  <2>2. Len(rows') \in Len(rows) + 1 .. Len(rows') /\ Len(rows') \in DOMAIN rows'
    BY <1>1, <2>1
  <2>3. t < rows'[Len(rows')].ts /\ rows'[Len(rows')].ts \in Int
    BY <1>1, <1>3, <2>2, TimedTyped
  <2> QED
    BY <2>2, <2>3
<1> QED
  BY <1>4, <1>5, <1>6 DEF Past, Reached

LEMMA AbsorbGrid ==
    ASSUME BInv, OnTheGrid, Absorb
    PROVE  OnTheGrid'
<1>1. UNCHANGED <<gi, decisions, asking, phase>> /\ phase = "feeding" /\ rows \in Seq(Timed)
      /\ rows' \in Seq(Timed) /\ Len(rows) < Len(rows')
      /\ (\A i \in DOMAIN rows : rows'[i] = rows[i])
      /\ \A i \in Len(rows) + 1 .. Len(rows') : \E j \in DOMAIN buf : rows'[i] = buf[j]
  BY AbsorbRows
<1>2. gi \in Nat \ {0}
  BY ClockAssumption DEF BInv, InFlight
<1>3. ASSUME NEW k \in 1 .. gi - 1
      PROVE  Reached(Grid(k))' /\ (Began(Grid(k))' <=> Began(Grid(k))) /\ Grid(k)' = Grid(k)
  <2>a. Reached(Grid(k)) /\ Grid(k) \in Nat
    <3>1. k \in Nat \ {0}
      BY <1>2
    <3> QED
      BY <3>1, GridTimes DEF OnTheGrid
  <2>b. PICK g \in Nat : g = Grid(k)
    BY <2>a
  <2>1. Reached(g) /\ g \in Nat
    BY <2>a, <2>b
  <2>2. Past(g)
    BY <2>1, ReachedPast
  <2>3. Reached(g)'
    BY <2>2, AbsorbPast
  <2>4. Began(g)' <=> Began(g)
    <3>1. CASE rows # <<>>
      <4>1. 1 \in DOMAIN rows /\ rows' # <<>>
        BY <1>1, <3>1
      <4> QED
        BY <1>1, <3>1, <4>1 DEF Began
    <3>2. CASE rows = <<>>
      <4>1. 1 \in Len(rows) + 1 .. Len(rows')
        BY <1>1, <3>2
      <4>2. PICK j \in DOMAIN buf : rows'[1] = buf[j]
        BY <1>1, <4>1
      <4>3. g < buf[j].ts /\ buf[j].ts \in Int
        BY <2>2, TimedTyped DEF Past, BInv, InOrder
      <4>4. ~(rows'[1].ts <= g)
        BY <2>1, <4>2, <4>3
      <4> QED
        BY <3>2, <4>4 DEF Began
    <3> QED
      BY <3>1, <3>2
  <2> QED
    BY <2>b, <2>3, <2>4 DEF Reached, Began, Grid
<1>4. {j \in 1 .. gi - 1 : Began(Grid(j))'} = {j \in 1 .. gi - 1 : Began(Grid(j))}
  BY <1>3
<1>5. {decisions[i].t : i \in DOMAIN decisions} =
          {Grid(k) : k \in {j \in 1 .. gi - 1 : Began(Grid(j))'}} \ {asking}
  BY <1>4 DEF OnTheGrid
<1>6. \A k \in 1 .. gi - 1 : Reached(Grid(k))'
  BY <1>3
<1>7. \A i, j \in DOMAIN decisions : i < j => decisions[i].t + Cadence <= decisions[j].t
  BY DEF OnTheGrid
<1> QED
  BY <1>1, <1>5, <1>6, <1>7 DEF OnTheGrid, Grid, Began

\* Each book is swept over the new rows, as the one it follows.
LEMMA AbsorbFollows ==
    ASSUME BInv, RCore, Absorb
    PROVE  Follows'
<1> SUFFICES ASSUME NEW p \in Policies PROVE (Fresh(p) \/ Waiting(p) \/ Settled(p))'
  BY DEF Follows
<1> DEFINE rs2 == rows'
           t   == LastOf(decisions).t
<1>1. UNCHANGED <<set, fills, decisions>> /\ rows \in Seq(Timed) /\ rs2 \in Seq(Timed)
      /\ book'[p] = CheckExits(book[p], rs2, Len(rs2))
  BY AbsorbRows
<1>2. OnTheGrid /\ (Fresh(p) \/ Waiting(p) \/ Settled(p))
  BY DEF RCore, Follows
<1>3. OrderPending(p)' <=> OrderPending(p)
  BY <1>1 DEF OrderPending
<1>4. ASSUME NEW u \in Int, Past(u) PROVE Longer(rows, rs2, u) /\ Past(u)'
  BY <1>4, AbsorbPast
<1> HIDE DEF rs2
<1>5. ASSUME NEW bk \in Kept, book[p] = Swept(bk), NEW u \in Int, Past(u)
      PROVE  book'[p] = CheckExits(bk, rs2, Len(rs2))
  <2>1. Longer(rows, rs2, u)
    BY <1>4, <1>5
  <2> QED
    BY <1>1, <1>5, <2>1, SweptAgain DEF Swept
<1>6. CASE Fresh(p)
  <2>1. Longer(rows, rs2, -1)
    <3>1. Past(-1)
      BY AbsorbRows, TimedTyped, RowAssumption DEF Past, BInv, InOrder
    <3> QED
      BY <1>4, <3>1
  <2>2. book'[p] = CheckExits(NewBook, rs2, Len(rs2))
    BY <1>1, <1>6, <2>1, NewBookIs, SweptAgain DEF Fresh, Swept
  <2> QED
    BY <1>1, <1>3, <1>6, <2>2 DEF Fresh, Swept, rs2
<1>7. CASE decisions # <<>> /\ (Waiting(p) \/ Settled(p))
  <2>1. t \in Nat /\ Past(t)
    BY <1>2, <1>7, LastDecision, ReachedPast
  <2>2. Longer(rows, rs2, t)
    BY <1>4, <2>1
  <2>3. /\ Found(rs2, decisions, Decided(set, p, rs2, FrontOf(decisions))) = FoundNow(p)
        /\ FoundNow(p) \in Kept
    BY <1>1, <1>2, <1>7, <2>2, FoundStays
  <2>4. FoundNow(p)' = FoundNow(p)
    BY <1>1, <2>3 DEF FoundNow, rs2
  <2>5. ActionNow(p)' = ActionNow(p)
    BY <1>1, <2>4 DEF ActionNow
  <2>6. Sends(p)' <=> Sends(p)
    BY <2>4, <2>5 DEF Sends
  <2>7. CASE Waiting(p)
    <3>1. book'[p] = CheckExits(FoundNow(p), rs2, Len(rs2))
      BY <1>5, <2>1, <2>3, <2>7 DEF Waiting
    <3>2. book'[p] = Swept(FoundNow(p))'
      BY <2>4, <3>1 DEF Swept, rs2
    <3> QED
      BY <1>1, <1>7, <2>5, <2>6, <2>7, <3>2 DEF Waiting
  <2>8. CASE Settled(p)
    <3>a. PICK late \in Int : late = t + Latency
      BY <2>1, ClockAssumption
    <3>1. Sends(p) => Past(late)
      BY <2>8, <3>a DEF Settled
    <3>2. Sends(p) => Longer(rows, rs2, late) /\ Past(late)'
      BY <1>4, <3>1, <3>a
    <3>3. /\ Decided(set, p, rs2, decisions) = Decided(set, p, rows, decisions)
          /\ Decided(set, p, rows, decisions) \in Kept
      BY <1>1, <1>2, <1>7, <2>2, <3>a, <3>2, DecidedStays
    <3> DEFINE b == Decided(set, p, rows, decisions)
    <3>4. b \in Kept /\ book[p] = Swept(b)
      BY <2>8, <3>3 DEF Settled
    <3> HIDE DEF b
    <3>5. book'[p] = CheckExits(b, rs2, Len(rs2))
      BY <1>5, <2>1, <3>4
    <3>6. book'[p] = Swept(Decided(set, p, rows, decisions))'
      BY <1>1, <3>3, <3>5 DEF Swept, rs2, b
    <3>7. Sends(p)' => Past(LastOf(decisions).t + Latency)'
      BY <1>1, <2>6, <3>2, <3>a DEF Past
    <3> QED
      BY <1>1, <1>3, <1>7, <2>8, <3>6, <3>7 DEF Settled
  <2> QED
    BY <1>7, <2>7, <2>8
<1> QED
  BY <1>2, <1>6, <1>7 DEF Waiting, Settled

\* A step that leaves the rows, the books, the orders and the decisions alone, and
\* brings no row that is past.
LEMMA KeepsFollows ==
    ASSUME BInv, RCore, UNCHANGED <<set, rows, book, fills, decisions>>,
           \A t \in Nat : Past(t) => Past(t)'
    PROVE  Follows'
<1> SUFFICES ASSUME NEW p \in Policies PROVE (Fresh(p) \/ Waiting(p) \/ Settled(p))'
  BY DEF Follows
<1>1. OrderPending(p)' <=> OrderPending(p)
  BY DEF OrderPending
<1>2. FoundNow(p)' = FoundNow(p)
  BY DEF FoundNow
<1>3. ActionNow(p)' = ActionNow(p)
  BY <1>2 DEF ActionNow
<1>4. Sends(p)' <=> Sends(p)
  BY <1>2, <1>3 DEF Sends
<1>5. CASE Fresh(p)
  BY <1>1, <1>5 DEF Fresh, Swept
<1>6. CASE Waiting(p)
  BY <1>2, <1>3, <1>4, <1>6 DEF Waiting, Swept
<1>7. CASE Settled(p)
  <2>1. decisions # <<>>
    BY <1>7 DEF Settled
  <2>2. LastOf(decisions).t \in Nat
    BY <2>1, LastDecision DEF RCore
  <2>3. PICK late \in Nat : late = LastOf(decisions).t + Latency
    BY <2>2, ClockAssumption
  <2>4. Sends(p)' => Past(late)'
    BY <1>4, <1>7, <2>3 DEF Settled
  <2>5. Sends(p)' => Past(LastOf(decisions).t + Latency)'
    BY <2>3, <2>4 DEF Past
  <2> QED
    BY <1>1, <1>7, <2>5 DEF Settled, Swept
<1> QED
  BY <1>5, <1>6, <1>7 DEF RCore, Follows

LEMMA ReceiveR ==
    ASSUME BInv, RCore, Receive, gi' = gi
    PROVE  RCore'
<1>1. UNCHANGED <<set, rows, book, fills, decisions, asking, phase>> /\ buf = <<>>
      /\ phase = "feeding"
  BY DEF Receive, Idle
<1>2. PICK b \in Batches : buf' = b
  BY DEF Receive
<1>3. b # <<>> /\ b \in Seq(Timed) /\ rows \in Seq(Timed)
      /\ \A i \in DOMAIN rows, j \in DOMAIN b : rows[i].ts < b[j].ts
  BY BatchesContinue DEF BInv, InOrder
<1>4. (\A j \in DOMAIN b : b[j].ts \in Int) /\ (\A i \in DOMAIN rows : rows[i].ts \in Int)
  BY <1>3, TimedTyped
<1>5. ASSUME NEW t \in Nat, \E i \in DOMAIN rows : t <= rows[i].ts
      PROVE  Past(t)' /\ Reached(t)'
  <2>1. \A j \in DOMAIN b : t < b[j].ts
    BY <1>3, <1>4, <1>5
  <2> QED
    BY <1>2, <1>3, <2>1 DEF Past, Reached
<1>6. Follows'
  <2>1. \A t \in Nat : Past(t) => Past(t)'
    BY <1>1, <1>5 DEF Past
  <2> QED
    BY <1>1, <2>1, KeepsFollows
<1>7. ASSUME NEW k \in 1 .. gi - 1 PROVE Reached(Grid(k))'
  <2>1. k \in Nat \ {0}
    BY ClockAssumption DEF BInv, InFlight
  <2>2. PICK g \in Nat : g = Grid(k)
    BY <2>1, GridTimes
  <2>3. Reached(g)
    BY <2>2 DEF RCore, OnTheGrid
  <2>4. Reached(g)'
    BY <1>1, <1>5, <2>3 DEF Reached
  <2> QED
    BY <2>2, <2>4 DEF Reached, Grid
<1>8. OnTheGrid'
  BY <1>1, <1>7 DEF RCore, OnTheGrid, Began, Grid
<1> QED
  BY <1>6, <1>8 DEF RCore

LEMMA DataEndsR ==
    ASSUME BInv, RCore, DataEnds
    PROVE  RCore'
<1>1. UNCHANGED <<set, rows, buf, book, fills, decisions, asking, gi>> /\ buf = <<>>
      /\ phase' = "finishing"
  BY DEF DataEnds, Idle
<1>2. Follows'
  <2>1. \A t \in Nat : Past(t) => Past(t)'
    BY <1>1 DEF Past
  <2> QED
    BY <1>1, <2>1, KeepsFollows
<1>3. OnTheGrid'
  BY <1>1 DEF RCore, OnTheGrid, Began, Reached, Grid
<1> QED
  BY <1>2, <1>3 DEF RCore

\* An event that is due has every row up to its time behind it.
LEMMA DueReached ==
    ASSUME BInv, OnTheGrid, NEW t \in Nat, Due(t)
    PROVE  Reached(t)
<1>1. rows \in Seq(Timed) /\ buf \in Seq(Timed) /\ Climbs(buf)
  BY DEF BInv, InOrder
<1>2. CASE buf # <<>> /\ Head(buf).ts > t
  <2>1. 1 \in DOMAIN buf /\ Head(buf) = buf[1] /\ DOMAIN buf = 1 .. Len(buf)
    BY <1>1, <1>2
  <2>2. ASSUME NEW j \in DOMAIN buf PROVE t < buf[j].ts
    <3>1. buf[1].ts \in Int /\ buf[j].ts \in Int /\ buf[1].ts > t
      BY <1>1, <1>2, <2>1, TimedTyped
    <3>2. j = 1 \/ buf[1].ts < buf[j].ts
      BY <1>1, <2>1 DEF Climbs
    <3> QED
      BY <3>1, <3>2
  <2> QED
    BY <1>2, <2>2 DEF Reached
<1>3. CASE phase = "finishing" /\ rows # <<>> /\ t <= LastTs
  <2>1. buf = <<>>
    BY <1>3 DEF OnTheGrid
  <2>2. Len(rows) \in DOMAIN rows
    BY <1>1, <1>3
  <2> QED
    BY <1>3, <2>1, <2>2 DEF Reached, LastTs
<1> QED
  BY <1>2, <1>3 DEF Due

\* The next moment of the grid is reached, decided on or not.
LEMMA NextOnGrid ==
    ASSUME BInv, RCore, AtDecision, gi' = gi + 1,
           UNCHANGED <<set, rows, buf, book, fills, decisions, phase>>
    PROVE  /\ Follows' /\ asking = 0 /\ gi \in Nat \ {0} /\ Grid(gi) \in Nat
           /\ \A k \in 1 .. gi : Reached(Grid(k))'
<1>1. gi \in Nat \ {0} /\ asking = 0
  BY ClockAssumption DEF BInv, InFlight, AtDecision, Due
<1>2. PICK g \in Nat : g = Grid(gi)
  BY <1>1, GridTimes
<1>3. Reached(g)
  BY <1>2, DueReached DEF AtDecision, RCore
<1>4. ASSUME NEW k \in 1 .. gi PROVE Reached(Grid(k))'
  <2>1. Reached(Grid(k))
    <3>1. k = gi \/ k \in 1 .. gi - 1
      BY <1>1
    <3> QED
      BY <1>2, <1>3, <3>1 DEF RCore, OnTheGrid
  <2> QED
    BY <2>1 DEF Reached, Grid
<1>5. \A t \in Nat : Past(t) => Past(t)'
  BY DEF Past
<1>6. Follows'
  BY <1>5, KeepsFollows
<1> QED
  BY <1>1, <1>2, <1>4, <1>6

LEMMA SkipR ==
    ASSUME BInv, RCore, SkipDecision
    PROVE  RCore'
<1>1. /\ UNCHANGED <<set, rows, buf, book, fills, decisions, phase, asking>>
      /\ gi' = gi + 1 /\ Len(rows) = 0 /\ AtDecision
  BY DEF SkipDecision, DecisionRow
<1>2. rows = <<>>
  BY <1>1 DEF BInv, InOrder
<1>3. Follows' /\ gi \in Nat \ {0} /\ \A k \in 1 .. gi : Reached(Grid(k))'
  BY <1>1, NextOnGrid
<1>4. (gi + 1) - 1 = gi
  BY <1>3
<1>5. \A g : ~Began(g) /\ ~Began(g)'
  BY <1>1, <1>2 DEF Began
<1>6. {decisions[i].t : i \in DOMAIN decisions} = {}
  BY <1>5 DEF RCore, OnTheGrid
<1>7. {Grid(k) : k \in {j \in 1 .. gi : Began(Grid(j))'}} \ {asking} = {}
  BY <1>1, <1>2 DEF Began
<1>8. OnTheGrid'
  BY <1>1, <1>3, <1>4, <1>6, <1>7 DEF RCore, OnTheGrid, Grid, Began
<1> QED
  BY <1>3, <1>8 DEF RCore

LEMMA AskR ==
    ASSUME BInv, RCore, Ask
    PROVE  RCore'
<1>1. /\ UNCHANGED <<set, rows, buf, book, fills, decisions, phase>>
      /\ gi' = gi + 1 /\ asking' = Grid(gi) /\ AtDecision
  BY DEF Ask
<1>2. Follows' /\ gi \in Nat \ {0} /\ asking = 0 /\ \A k \in 1 .. gi : Reached(Grid(k))'
  BY <1>1, NextOnGrid
<1>3. (gi + 1) - 1 = gi
  BY <1>2
<1> DEFINE G == {Grid(k) : k \in {j \in 1 .. gi - 1 : Began(Grid(j))}}
           H == {Grid(k) : k \in {j \in 1 .. gi : Began(Grid(j))}}
<1>4. \A k \in 1 .. gi - 1 : Grid(k) # 0 /\ Grid(k) # Grid(gi)
  <2>1. \A k \in 1 .. gi - 1 : k \in Nat \ {0} /\ k < gi
    BY <1>2
  <2> QED
    BY <1>2, <2>1, GridTimes, GridOrder
<1>5. H \ {Grid(gi)} = G \ {0}
  <2>1. ASSUME NEW x \in H, x # Grid(gi) PROVE x \in G /\ x # 0
    <3>1. PICK k \in 1 .. gi : Began(Grid(k)) /\ x = Grid(k)
      OBVIOUS
    <3>2. k \in 1 .. gi - 1
      BY <1>2, <2>1, <3>1
    <3> QED
      BY <1>4, <3>1, <3>2
  <2>2. ASSUME NEW x \in G PROVE x \in H /\ x # Grid(gi)
    <3>1. PICK k \in 1 .. gi - 1 : Began(Grid(k)) /\ x = Grid(k)
      OBVIOUS
    <3>2. k \in 1 .. gi
      BY <1>2
    <3> QED
      BY <1>4, <3>1, <3>2
  <2> HIDE DEF G, H
  <2> QED
    BY <2>1, <2>2
<1>6. {decisions[i].t : i \in DOMAIN decisions} = H \ {Grid(gi)}
  BY <1>2, <1>5 DEF RCore, OnTheGrid
<1>7. {decisions[i].t : i \in DOMAIN decisions} =
        {Grid(k) : k \in {j \in 1 .. gi : Began(Grid(j))'}} \ {Grid(gi)}
  BY <1>1, <1>6 DEF Began, Grid
<1>8. OnTheGrid'
  <2>1. \A k \in 1 .. gi' - 1 : Reached(Grid(k))'
    BY <1>1, <1>2, <1>3
  <2>2. {decisions[i].t : i \in DOMAIN decisions}' =
          {Grid(k) : k \in {j \in 1 .. gi' - 1 : Began(Grid(j))'}} \ {asking'}
    BY <1>1, <1>3, <1>7
  <2>3. \A i, j \in DOMAIN decisions' : i < j => decisions'[i].t + Cadence <= decisions'[j].t
    BY <1>1 DEF RCore, OnTheGrid
  <2>4. phase' = "finishing" => buf' = <<>>
    BY <1>1 DEF RCore, OnTheGrid
  <2> QED
    BY <2>1, <2>2, <2>3, <2>4 DEF OnTheGrid, Grid
<1> QED
  BY <1>2, <1>8 DEF RCore

\* An order that fills is the last decision's, and gives the book the backtest has.
LEMMA FillsR ==
    ASSUME BInv, RCore, FireFills
    PROVE  RCore'
<1> DEFINE t   == SetMin({f.at : f \in fills})
           now == {f \in fills : f.at = t}
<1>1. /\ UNCHANGED <<set, rows, buf, gi, decisions, asking, phase>>
      /\ fills # {} /\ fills' = fills \ now /\ ~closed /\ asking = 0
      /\ (Due(t) \/ Drain)
      /\ book' = [p \in Policies |->
                    IF \E f \in now : f.policy = p
                    THEN LET f == CHOOSE f \in now : f.policy = p
                         IN  Go(book[p], rows, f.side, f.send)
                    ELSE book[p]]
  BY DEF FireFills, Due, Drain
<1>2. \A f \in now : f \in fills /\ f.at = t
  OBVIOUS
<1> HIDE DEF t, now
<1>3. rows # <<>> /\ rows \in Seq(Timed) /\ Len(rows) \in DOMAIN rows /\ Len(rows) \in Nat
  BY <1>1 DEF IInv, BInv, InOrder
<1>4. ASSUME NEW f \in now PROVE Past(f.at)' /\ RowAt(rows, f.send + Latency) = Len(rows)
                                 /\ f.side \in {-1, 1}
  <2>1. f.at \in Nat /\ f.at = f.send + Latency /\ NoRowAfter(f.at) /\ f.side \in {-1, 1}
    BY <1>2 DEF BInv, InFlight, NoneTooFar, Order
  <2>2. PICK u \in Nat : u = f.at
    BY <2>1
  <2>3. Past(u)
    <3>1. CASE Due(t)
      <4>1. Due(u)
        BY <1>2, <2>2, <3>1
      <4> QED
        BY <4>1, DueReached, ReachedPast DEF RCore
    <3>2. CASE Drain
      BY <3>2 DEF Drain, Past, RCore, OnTheGrid
    <3> QED
      BY <1>1, <3>1, <3>2
  <2>4. Past(u)'
    BY <1>1, <2>3 DEF Past
  <2>5. RowAt(rows, f.send + Latency) = Len(rows)
    BY <1>3, <2>1, RowAtAll
  <2> QED
    BY <2>1, <2>2, <2>4, <2>5 DEF Past
<1>5. OnTheGrid'
  BY <1>1 DEF RCore, OnTheGrid, Reached, Began, Grid
<1>6. ASSUME NEW p \in Policies PROVE (Fresh(p) \/ Waiting(p) \/ Settled(p))'
  <2> DEFINE fn   == FoundNow(p)
             side == SideOf[ActionNow(p)]
             last == LastOf(decisions).t
  <2>1. FoundNow(p)' = fn
    BY <1>1 DEF FoundNow
  <2>2. ActionNow(p)' = ActionNow(p)
    BY <1>1, <2>1 DEF ActionNow
  <2>3. Sends(p)' <=> Sends(p)
    BY <2>1, <2>2 DEF Sends
  <2>4. CASE \E f \in now : f.policy = p
    <3>1. PICK f \in now : f.policy = p /\ book'[p] = Go(book[p], rows, f.side, f.send)
      BY <1>1, <2>4
    <3>2. OrderPending(p) /\ \A g \in fills : g.policy = p => g = f
      BY <1>2, <3>1 DEF OrderPending, BInv, InFlight
    <3>3. Waiting(p)
      BY <3>2 DEF RCore, Follows, Fresh, Settled
    <3>4. /\ decisions # <<>> /\ Sends(p) /\ book[p] = CheckExits(fn, rows, Len(rows))
          /\ f.send = last /\ f.side = side
      BY <3>2, <3>3 DEF Waiting, Swept
    <3>5. f.at = last + Latency
      BY <1>2, <3>4 DEF BInv, InFlight
    <3>6. RowAt(rows, last + Latency) = Len(rows)
      BY <1>4, <3>4
    <3>7. last \in Nat
      BY <3>4, LastDecision DEF RCore
    <3>8. fn \in Kept /\ Found(rows, decisions, Decided(set, p, rows, FrontOf(decisions))) = fn
      BY <1>3, <3>4, SameRows, FoundStays DEF RCore
    <3>9. /\ Decided(set, p, rows, decisions) = Go(fn, rows, side, last)
          /\ side \in {-1, 1} /\ side # fn.pos.side
      BY <3>4, <3>8, DecidedNow DEF RCore
    <3> DEFINE b == Go(fn, rows, side, last)
    <3> HIDE DEF fn, side, last
    <3>10. b = Go(book[p], rows, side, last)
      BY <1>3, <3>4, <3>6, <3>8, <3>9, GoSwept
    <3>11. b \in Kept /\ b.watch = Len(rows) + 1
      BY <1>3, <3>6, <3>8, <3>9, GoIs
    <3> HIDE DEF b
    <3>12. CheckExits(b, rows, Len(rows)) = b
      <4>1. b \in Books /\ Len(rows) \in 0 .. Len(rows)
        BY <1>3, <3>11, KeptTyped
      <4> QED
        BY <1>3, <3>11, <4>1, NothingLeft
    <3>13. book'[p] = Swept(Decided(set, p, rows, decisions))'
      BY <1>1, <3>1, <3>4, <3>9, <3>10, <3>12 DEF Swept, b
    <3>14. ~OrderPending(p)'
      BY <1>1, <3>1, <3>2 DEF OrderPending
    <3>15. Past(LastOf(decisions).t + Latency)'
      BY <1>1, <1>4, <3>1, <3>5 DEF last, Past
    <3> QED
      BY <1>1, <3>4, <3>13, <3>14, <3>15 DEF Settled
  <2>5. CASE ~\E f \in now : f.policy = p
    <3>1. book'[p] = book[p]
      BY <1>1, <2>5
    <3>2. \A f \in fills : f.policy = p => f \in fills'
      BY <1>1, <2>5
    <3>3. fills' \subseteq fills
      BY <1>1
    <3>4. OrderPending(p)' <=> OrderPending(p)
      BY <3>2, <3>3 DEF OrderPending
    <3>5. CASE Fresh(p)
      BY <1>1, <3>1, <3>4, <3>5 DEF Fresh, Swept
    <3>6. CASE Waiting(p)
      <4>1. PICK f \in fills : f.policy = p /\ f.send = last /\ f.side = side
        BY <3>6 DEF Waiting
      <4>2. f \in fills'
        BY <3>2, <4>1
      <4> QED
        BY <1>1, <2>1, <2>2, <2>3, <3>1, <3>6, <4>1, <4>2 DEF Waiting, Swept
    <3>7. CASE Settled(p)
      <4>1. Sends(p)' => Past(LastOf(decisions).t + Latency)'
        BY <1>1, <2>3, <3>7 DEF Settled, Past
      <4>2. book'[p] = Swept(Decided(set, p, rows, decisions))'
        BY <1>1, <3>1, <3>7 DEF Settled, Swept
      <4> QED
        BY <1>1, <3>4, <3>7, <4>1, <4>2 DEF Settled
    <3> QED
      BY <3>5, <3>6, <3>7 DEF RCore, Follows
  <2> QED
    BY <2>4, <2>5
<1> QED
  BY <1>5, <1>6 DEF RCore, Follows

LEMMA AppendIs ==
    ASSUME NEW ds \in Seq(Decision), NEW e \in Decision
    PROVE  LET next == Append(ds, e)
           IN  /\ next \in Seq(Decision) /\ next # <<>> /\ LastOf(next) = e /\ FrontOf(next) = ds
               /\ Len(ds) \in Nat /\ Len(next) = Len(ds) + 1 /\ DOMAIN next = 1 .. Len(ds) + 1
               /\ DOMAIN ds = 1 .. Len(ds)
               /\ \A i \in DOMAIN ds : next[i] = ds[i]
               /\ next[Len(ds) + 1] = e
<1> DEFINE next == Append(ds, e)
<1>1. /\ next \in Seq(Decision) /\ Len(ds) \in Nat /\ Len(next) = Len(ds) + 1
      /\ DOMAIN next = 1 .. Len(ds) + 1 /\ DOMAIN ds = 1 .. Len(ds)
      /\ next[Len(ds) + 1] = e /\ \A i \in 1 .. Len(ds) : next[i] = ds[i]
  OBVIOUS
<1> HIDE DEF next
<1>2. next # <<>>
  BY <1>1
<1>3. LastOf(next) = e
  BY <1>1 DEF LastOf
<1> DEFINE fr == FrontOf(next)
<1>4. /\ fr \in Seq(Decision) /\ Len(fr) = Len(next) - 1
      /\ \A i \in 1 .. Len(next) - 1 : fr[i] = next[i]
  BY <1>1, <1>2, FrontIs
<1> HIDE DEF fr
<1>5. Len(fr) = Len(ds) /\ \A i \in 1 .. Len(ds) : fr[i] = ds[i]
  BY <1>1, <1>4
<1>6. fr = ds
  BY <1>4, <1>5
<1> QED
  BY <1>1, <1>2, <1>3, <1>6 DEF next, fr

\* The book a decision is made on is the backtest's.
LEMMA BookAtDecision ==
    ASSUME BInv, RCore, fills = {}, NEW p \in Policies
    PROVE  book[p] = CheckExits(Decided(set, p, rows, decisions), rows, Len(rows))
<1>1. ~Waiting(p)
  BY DEF Waiting
<1>2. CASE Fresh(p)
  BY <1>2, DecidedNone DEF Fresh, Swept
<1>3. CASE Settled(p)
  BY <1>3 DEF Settled, Swept
<1> QED
  BY <1>1, <1>2, <1>3 DEF RCore, Follows

LEMMA AnswerR ==
    ASSUME BInv, RCore, Answer, ~set.live
    PROVE  RCore'
<1>1. PICK a \in [Policies -> Said] :
          LET ds   == Append(decisions, [t |-> asking, row |-> DecisionRow,
                                         warm |-> Warm(asking), answer |-> a])
          IN  /\ decisions' = ds
              /\ fills' = fills \cup OrdersOf(ds, asking, asking + 0)
  BY DEF Answer, Said
<1>2. /\ UNCHANGED <<set, rows, buf, gi, book, phase>>
      /\ asking # 0 /\ asking' = 0
  BY DEF Answer
<1>3. /\ fills = {} /\ gi > 1 /\ asking = Grid(gi - 1) /\ NoRowAfter(asking) /\ rows # <<>>
      /\ rows \in Seq(Timed) /\ gi \in Nat /\ gi - 1 \in Nat \ {0}
  BY <1>2, ClockAssumption DEF IInv, BInv, InFlight, NoneTooFar, InOrder
<1>4. asking \in Nat
  BY <1>3, GridTimes
<1> DEFINE e  == [t |-> asking, row |-> DecisionRow, warm |-> Warm(asking), answer |-> a]
           ds == Append(decisions, e)
<1>5. e \in Decision /\ decisions \in Seq(Decision) /\ e.t = asking
  <2>1. DecisionRow \in Nat /\ Warm(asking) \in BOOLEAN
    BY <1>3 DEF DecisionRow, Warm
  <2> QED
    BY <1>4, <2>1 DEF Decision, BInv, PlainTypes
<1>6. decisions' = ds /\ fills' = OrdersOf(ds, asking, asking)
  BY <1>1, <1>3, <1>4
<1> HIDE DEF e
<1>7. /\ ds \in Seq(Decision) /\ ds # <<>> /\ LastOf(ds) = e /\ FrontOf(ds) = decisions
      /\ Len(decisions) \in Nat /\ DOMAIN ds = 1 .. Len(decisions) + 1
      /\ DOMAIN decisions = 1 .. Len(decisions)
      /\ (\A i \in DOMAIN decisions : ds[i] = decisions[i])
      /\ ds[Len(decisions) + 1] = e
  BY <1>5, AppendIs
<1> HIDE DEF ds
<1>8. OnTheGrid'
  <2> DEFINE G == {Grid(k) : k \in {j \in 1 .. gi - 1 : Began(Grid(j))}}
             T == {decisions[i].t : i \in DOMAIN decisions}
  <2>1. 1 \in DOMAIN rows
    BY <1>3
  <2>2. Began(asking)
    BY <1>3, <2>1 DEF Began
  <2>3. asking \in G
    BY <1>3, <2>2
  <2>4. T = G \ {asking}
    BY DEF RCore, OnTheGrid
  <2>5. {ds[i].t : i \in DOMAIN ds} = T \cup {asking}
    <3>1. \A i \in DOMAIN ds : i \in DOMAIN decisions \/ i = Len(decisions) + 1
      BY <1>7
    <3>2. \A i \in DOMAIN decisions : i \in DOMAIN ds
      BY <1>7
    <3>3. Len(decisions) + 1 \in DOMAIN ds
      BY <1>7
    <3> QED
      BY <1>5, <1>7, <3>1, <3>2, <3>3
  <2>6. 0 \notin G
    <3>1. ASSUME NEW k \in 1 .. gi - 1 PROVE Grid(k) # 0
      <4>1. k \in Nat \ {0}
        BY <1>3
      <4> QED
        BY <4>1, GridTimes
    <3> QED
      BY <3>1
  <2> HIDE DEF T
  <2>7. {ds[i].t : i \in DOMAIN ds} = G \ {0}
    BY <2>3, <2>4, <2>5, <2>6
  <2>8. ASSUME NEW i \in DOMAIN ds, NEW j \in DOMAIN ds, i < j
        PROVE  ds[i].t + Cadence <= ds[j].t
    <3>1. i \in DOMAIN decisions
      BY <1>7, <2>8
    <3>2. CASE j \in DOMAIN decisions
      BY <1>7, <2>8, <3>1, <3>2 DEF RCore, OnTheGrid
    <3>3. CASE j \notin DOMAIN decisions
      <4>1. ds[j].t = asking
        BY <1>5, <1>7, <3>3
      <4>2. PICK k \in 1 .. gi - 1 : decisions[i].t = Grid(k) /\ decisions[i].t # asking
        BY <3>1, DecisionTimes DEF RCore
      <4>3. k \in Nat \ {0} /\ k < gi - 1
        BY <1>3, <4>2
      <4>4. Grid(k) + Cadence <= Grid(gi - 1)
        BY <1>3, <4>3, GridOrder
      <4> QED
        BY <1>3, <1>7, <3>1, <4>1, <4>2, <4>4
    <3> QED
      BY <3>2, <3>3
  <2>9. {ds[i].t : i \in DOMAIN ds} =
          {Grid(k) : k \in {j \in 1 .. gi - 1 : Began(Grid(j))'}} \ {0}
    BY <1>2, <2>7 DEF Began, Grid
  <2> QED
    BY <1>2, <1>6, <2>8, <2>9 DEF RCore, OnTheGrid, Reached, Began, Grid
<1>9. ASSUME NEW p \in Policies PROVE (Waiting(p) \/ Settled(p))'
  <2> DEFINE act  == Action(set, p, ds, asking, book[p].pos)
             b    == Decided(set, p, rows, decisions)
  <2>1. book[p] = CheckExits(b, rows, Len(rows))
    BY <1>3, BookAtDecision
  <2>2. book[p] \in Books /\ book[p].watch = Len(rows) + 1
    BY DEF BInv, Watched
  <2>3. RowAt(rows, asking) = Len(rows)
    BY <1>3, RowAtAll
  <2>4. FoundNow(p)' = book[p]
    BY <1>2, <1>5, <1>6, <1>7, <2>1, <2>3 DEF FoundNow, Found
  <2>5. ActionNow(p)' = act
    BY <1>2, <1>5, <1>6, <1>7, <2>4 DEF ActionNow
  <2>6. Sends(p)' <=> SendsOrder(act, book[p].pos.side)
    BY <2>4, <2>5 DEF Sends
  <2>7. CheckExits(book[p], rows, Len(rows)) = book[p]
    BY <1>3, <2>2, NothingLeft
  <2> HIDE DEF b
  <2>8. CASE Sends(p)'
    <3> DEFINE f == [at |-> asking + Latency, policy |-> p, side |-> SideOf[act], send |-> asking]
    <3>1. f \in OrdersOf(ds, asking, asking)
      BY <2>6, <2>8 DEF OrdersOf
    <3>2. f.policy = p /\ f.send = LastOf(decisions').t /\ f.side = SideOf[ActionNow(p)']
      BY <1>5, <1>6, <1>7, <2>5
    <3>3. \E g \in fills' : g.policy = p /\ g.send = LastOf(decisions').t
                                         /\ g.side = SideOf[ActionNow(p)']
      BY <1>6, <3>1, <3>2
    <3>4. book'[p] = Swept(FoundNow(p))'
      BY <1>2, <2>4, <2>7 DEF Swept
    <3> QED
      BY <1>6, <1>7, <2>8, <3>3, <3>4 DEF Waiting
  <2>9. CASE ~Sends(p)'
    <3>1. \A f \in OrdersOf(ds, asking, asking) : f.policy # p
      BY <2>6, <2>9 DEF OrdersOf
    <3>2. ~OrderPending(p)'
      BY <1>6, <3>1 DEF OrderPending
    <3>3. Decided(set, p, rows, ds) = book[p]
      <4>1. Decided(set, p, rows, ds) = Decide(set, p, rows, ds, b)
        BY <1>7, DecidedLast DEF b
      <4>2. Found(rows, ds, b) = book[p]
        BY <1>5, <1>7, <2>1, <2>3 DEF Found
      <4>3. LastOf(ds).t = asking
        BY <1>5, <1>7
      <4>4. Decide(set, p, rows, ds, b) = book[p]
        BY <1>7, <2>6, <2>9, <4>2, <4>3, DecideIs
      <4> QED
        BY <4>1, <4>4
    <3>4. book'[p] = Swept(Decided(set, p, rows, decisions))'
      BY <1>2, <1>6, <2>7, <3>3 DEF Swept
    <3> QED
      BY <1>6, <1>7, <2>9, <3>2, <3>4 DEF Settled
  <2> QED
    BY <2>8, <2>9
<1> QED
  BY <1>8, <1>9 DEF RCore, Follows

-----------------------------------------------------------------------------
(* The end of a rehearsal.                                                 *)

LEMMA GridEnd ==
    /\ Grid(GridLen + 1) = EndNs
    /\ \A k \in 1 .. GridLen : Grid(k) + Cadence <= EndNs /\ Grid(k) < EndNs
<1>1. GridLen + 1 \in Nat \ {0} /\ (GridLen + 1) - 1 = GridLen
  BY ClockAssumption
<1>2. Grid(GridLen + 1) = EndNs
  BY <1>1 DEF Grid, EndNs
<1>3. ASSUME NEW k \in 1 .. GridLen PROVE Grid(k) + Cadence <= EndNs /\ Grid(k) < EndNs
  <2>1. k \in Nat \ {0} /\ k < GridLen + 1
    BY ClockAssumption
  <2>2. Grid(k) + Cadence <= EndNs
    BY <1>1, <1>2, <2>1, GridOrder
  <2>3. Grid(k) \in Nat /\ EndNs \in Nat
    BY <2>1, GridTimes
  <2> QED
    BY <2>2, <2>3, ClockAssumption
<1> QED
  BY <1>2, <1>3

\* The record continues the rows with those the engine has not taken.
LEMMA RecordRows ==
    ASSUME BInv
    PROVE  /\ Record \in Seq(Timed) /\ rows \in Seq(Timed)
           /\ Len(Record) = Len(rows) + Len(buf) /\ Len(rows) \in Nat /\ Len(buf) \in Nat
           /\ DOMAIN rows = 1 .. Len(rows) /\ DOMAIN buf = 1 .. Len(buf)
           /\ DOMAIN Record = 1 .. Len(Record)
           /\ \A i \in DOMAIN rows : Record[i] = rows[i]
           /\ \A j \in DOMAIN buf : Record[Len(rows) + j] = buf[j]
           /\ \A t : (\A j \in DOMAIN buf : t < buf[j].ts) => Longer(rows, Record, t)
<1>1. rows \in Seq(Timed) /\ buf \in Seq(Timed)
  BY DEF BInv, InOrder
<1>2. /\ Record \in Seq(Timed) /\ Len(Record) = Len(rows) + Len(buf)
      /\ Len(rows) \in Nat /\ Len(buf) \in Nat
      /\ DOMAIN rows = 1 .. Len(rows) /\ DOMAIN buf = 1 .. Len(buf)
      /\ DOMAIN Record = 1 .. Len(Record)
  BY <1>1 DEF Record
<1>3. \A i \in 1 .. Len(rows) + Len(buf) :
        Record[i] = IF i <= Len(rows) THEN rows[i] ELSE buf[i - Len(rows)]
  BY <1>1 DEF Record
<1> DEFINE R == Record
<1> HIDE DEF R
<1>4. (\A i \in DOMAIN rows : Record[i] = rows[i])
      /\ \A j \in DOMAIN buf : Record[Len(rows) + j] = buf[j]
  <2>1. ASSUME NEW i \in DOMAIN rows PROVE Record[i] = rows[i]
    BY <1>2, <1>3
  <2>2. ASSUME NEW j \in DOMAIN buf PROVE Record[Len(rows) + j] = buf[j]
    <3>1. Len(rows) + j \in 1 .. Len(rows) + Len(buf) /\ ~(Len(rows) + j <= Len(rows))
          /\ (Len(rows) + j) - Len(rows) = j
      BY <1>2
    <3> QED
      BY <1>3, <3>1
  <2> QED
    BY <2>1, <2>2
<1>5. ASSUME NEW t, \A j \in DOMAIN buf : t < buf[j].ts PROVE Longer(rows, Record, t)
  <2>1. ASSUME NEW i \in Len(rows) + 1 .. Len(Record) PROVE t < Record[i].ts
    <3>1. i - Len(rows) \in DOMAIN buf /\ Len(rows) + (i - Len(rows)) = i
      BY <1>2
    <3>2. Record[i] = buf[i - Len(rows)]
      BY <1>4, <3>1
    <3> QED
      BY <1>5, <3>1, <3>2
  <2>2. Len(rows) <= Len(Record)
    BY <1>2
  <2> QED
    BY <1>4, <2>1, <2>2 DEF Longer
<1> QED
  BY <1>1, <1>2, <1>4, <1>5

\* Whether the rows began by a moment of the grid, and reached it, shows in the record.
LEMMA GridInRecord ==
    ASSUME BInv, OnTheGrid, NEW k \in 1 .. gi - 1
    PROVE  (Record # <<>> /\ Record[1].ts <= Grid(k) /\ Grid(k) <= Record[Len(Record)].ts)
             <=> Began(Grid(k))
<1>1. k \in Nat \ {0}
  BY ClockAssumption DEF BInv, InFlight
<1>2. PICK g \in Nat : g = Grid(k)
  BY <1>1, GridTimes
<1>3. Reached(g)
  BY <1>2 DEF OnTheGrid
<1>4. /\ Record \in Seq(Timed) /\ rows \in Seq(Timed)
      /\ Len(Record) = Len(rows) + Len(buf) /\ Len(rows) \in Nat /\ Len(buf) \in Nat
      /\ DOMAIN rows = 1 .. Len(rows) /\ DOMAIN buf = 1 .. Len(buf)
      /\ DOMAIN Record = 1 .. Len(Record)
      /\ (\A i \in DOMAIN rows : Record[i] = rows[i])
      /\ \A j \in DOMAIN buf : Record[Len(rows) + j] = buf[j]
  BY RecordRows
<1>5. buf \in Seq(Timed) /\ Climbs(rows)
  BY DEF BInv, InOrder
<1>6. CASE rows # <<>>
  <2>1. 1 \in DOMAIN rows /\ Record # <<>> /\ Record[1] = rows[1]
    BY <1>4, <1>6
  <2>2. g <= Record[Len(Record)].ts
    <3>1. CASE buf = <<>>
      <4>1. PICK i \in DOMAIN rows : g <= rows[i].ts
        BY <1>3, <3>1 DEF Reached
      <4>2. Len(buf) = 0
        BY <3>1
      <4>3. Record[Len(Record)] = rows[Len(rows)] /\ Len(rows) \in DOMAIN rows
        BY <1>4, <1>6, <4>2
      <4>4. rows[i].ts \in Int /\ rows[Len(rows)].ts \in Int
        BY <1>4, <4>3, TimedTyped
      <4>5. i = Len(rows) \/ rows[i].ts < rows[Len(rows)].ts
        BY <1>4, <1>5, <4>3 DEF Climbs
      <4> QED
        BY <4>1, <4>3, <4>4, <4>5
    <3>2. CASE buf # <<>>
      <4>a. Len(buf) \in DOMAIN buf
        BY <1>5, <3>2
      <4>b. Record[Len(rows) + Len(buf)] = buf[Len(buf)]
        BY <1>4, <4>a
      <4>1. Len(buf) \in DOMAIN buf /\ Record[Len(Record)] = buf[Len(buf)]
        BY <1>4, <4>a, <4>b
      <4>2. g < buf[Len(buf)].ts /\ buf[Len(buf)].ts \in Int
        BY <1>3, <1>5, <4>1, TimedTyped DEF Reached
      <4> QED
        BY <4>1, <4>2
    <3> QED
      BY <3>1, <3>2
  <2> QED
    BY <1>2, <1>6, <2>1, <2>2 DEF Began
<1>7. CASE rows = <<>>
  <2>1. ASSUME Record # <<>>, Record[1].ts <= g PROVE FALSE
    <3>1. Len(rows) = 0
      BY <1>7
    <3>2. 1 \in DOMAIN buf
      BY <1>4, <2>1, <3>1
    <3>3. Record[1] = buf[1]
      BY <1>4, <3>1, <3>2
    <3>4. g < buf[1].ts /\ buf[1].ts \in Int
      BY <1>3, <1>5, <3>2, TimedTyped DEF Reached
    <3> QED
      BY <2>1, <3>3, <3>4
  <2> QED
    BY <1>2, <1>7, <2>1 DEF Began
<1> QED
  BY <1>6, <1>7

\* A session that ends with nothing in flight, and whose record ends before the next
\* moment of the grid, has decided at each moment the record covers.
LEMMA TimesMatch ==
    ASSUME BInv, OnTheGrid, asking = 0,
           \A k \in gi .. GridLen : Record # <<>> => Record[Len(Record)].ts < Grid(k)
    PROVE  {decisions[i].t : i \in DOMAIN decisions} = Covered(Record)
<1> DEFINE G == {Grid(k) : k \in {j \in 1 .. gi - 1 : Began(Grid(j))}}
<1>1. gi \in Nat \ {0} /\ gi <= GridLen + 1 /\ GridLen \in Nat
  BY ClockAssumption DEF BInv, InFlight
<1>2. {decisions[i].t : i \in DOMAIN decisions} = G \ {0}
  BY DEF OnTheGrid
<1>3. \A k \in 1 .. GridLen : Grid(k) \in Nat \ {0} /\ Start + (k - 1) * Cadence = Grid(k)
  BY GridTimes DEF Grid
<1> DEFINE Cov(t) == Record # <<>> /\ Record[1].ts <= t /\ t <= Record[Len(Record)].ts
<1>4. ASSUME NEW t \in G PROVE t # 0 /\ t \in Covered(Record)
  <2>1. PICK k \in 1 .. gi - 1 : Began(Grid(k)) /\ t = Grid(k)
    OBVIOUS
  <2>2. k \in 1 .. GridLen /\ k - 1 \in 0 .. GridLen - 1
    BY <1>1
  <2>3. Cov(Grid(k))
    BY <2>1, GridInRecord
  <2>4. Start + (k - 1) * Cadence = Grid(k) /\ Grid(k) # 0
    BY <1>3, <2>2
  <2> QED
    BY <2>1, <2>2, <2>3, <2>4 DEF Covered
<1>5. ASSUME NEW t \in Covered(Record) PROVE t \in G
  <2>1. PICK m \in 0 .. GridLen - 1 : t = Start + m * Cadence
    BY DEF Covered
  <2>2. Cov(t)
    BY DEF Covered
  <2>3. PICK k \in 1 .. GridLen : k = m + 1
    BY <1>1
  <2>4. k - 1 = m
    BY <2>3
  <2>5. t = Grid(k)
    BY <2>1, <2>4 DEF Grid
  <2>6. k < gi
    <3>1. ASSUME k >= gi PROVE FALSE
      <4>1. k \in gi .. GridLen
        BY <1>1, <3>1
      <4>2. Record[Len(Record)].ts < Grid(k) /\ Grid(k) <= Record[Len(Record)].ts
        BY <2>2, <2>5, <4>1
      <4>3. Len(Record) \in DOMAIN Record /\ Record \in Seq(Timed)
        BY <2>2, RecordRows
      <4>4. Record[Len(Record)].ts \in Int /\ Grid(k) \in Nat
        BY <1>3, <4>3, TimedTyped
      <4> QED
        BY <4>2, <4>4
    <3> QED
      BY <1>1, <3>1
  <2>7. k \in 1 .. gi - 1
    BY <1>1, <2>6
  <2>8. Began(Grid(k))
    BY <2>2, <2>5, <2>7, GridInRecord
  <2> QED
    BY <2>5, <2>7, <2>8
<1> HIDE DEF G
<1> QED
  BY <1>2, <1>4, <1>5

\* The last decision of a session that ends was at the last moment of the grid.
LEMMA LastIsLatest ==
    ASSUME BInv, OnTheGrid, asking = 0, decisions # <<>>
    PROVE  LastOf(decisions).t + Cadence = Grid(gi) /\ Grid(gi) \in Nat
<1> DEFINE n == Len(decisions)
           t == LastOf(decisions).t
<1>1. n \in DOMAIN decisions /\ t = decisions[n].t /\ t \in Nat /\ rows # <<>> /\ rows[1].ts <= t
      /\ DOMAIN decisions = 1 .. n /\ n \in Nat
  BY LastDecision DEF LastOf
<1> HIDE DEF n, t
<1>2. PICK k \in 1 .. gi - 1 : t = Grid(k)
  BY <1>1, DecisionTimes
<1>3. gi \in Nat /\ k \in Nat \ {0}
  BY ClockAssumption DEF BInv, InFlight
<1>4. PICK m \in Nat \ {0} : m = gi - 1
  BY <1>3
<1>5. m + 1 = gi /\ m \in 1 .. gi - 1 /\ (k = m \/ k < m)
  BY <1>3, <1>4
<1>6. Grid(m) \in Nat \ {0} /\ Grid(gi) = Grid(m) + Cadence
  BY <1>5, GridTimes
<1>7. t <= Grid(m)
  <2>1. CASE k = m
    BY <1>1, <1>2, <2>1
  <2>2. CASE k < m
    <3>1. Grid(k) + Cadence <= Grid(m)
      BY <1>3, <2>2, GridOrder
    <3> QED
      BY <1>1, <1>2, <1>6, <3>1, ClockAssumption
  <2> QED
    BY <1>5, <2>1, <2>2
<1>8. Began(Grid(m))
  <2>1. 1 \in DOMAIN rows /\ rows \in Seq(Timed)
    BY <1>1 DEF BInv, InOrder
  <2>2. rows[1].ts \in Int
    BY <2>1, TimedTyped
  <2> QED
    BY <1>1, <1>6, <1>7, <2>2 DEF Began
<1>9. Grid(m) \in {decisions[i].t : i \in DOMAIN decisions}
  BY <1>5, <1>6, <1>8 DEF OnTheGrid
<1>10. PICK i \in DOMAIN decisions : decisions[i].t = Grid(m)
  BY <1>9
<1>11. t = Grid(m)
  <2>1. CASE i = n
    BY <1>1, <1>10, <2>1
  <2>2. CASE i # n
    <3>1. i < n
      BY <1>1, <2>2
    <3>2. decisions[i].t + Cadence <= decisions[n].t
      BY <1>1, <3>1 DEF OnTheGrid
    <3> QED
      BY <1>1, <1>6, <1>7, <1>10, <3>2, ClockAssumption
  <2> QED
    BY <2>1, <2>2
<1> QED
  BY <1>6, <1>11, ClockAssumption DEF t

LEMMA FlattenIs ==
    ASSUME NEW bk, NEW rs, NEW last
    PROVE  Flatten(bk, rs, last) =
             LET s == CheckExits(bk, rs, last)
             IN  IF s.pos.side = 0 THEN s
                 ELSE Close(s, rs, last, Touch(rs, last, s.pos.side), "eod")
  BY Zenon DEF Flatten

\* Once nothing is in flight and no row up to the next moment of the grid is to come,
\* closing a book gives the backtest's trades.
LEMMA ClosesAsBacktest ==
    ASSUME BInv, RCore, fills = {}, asking = 0, NoRowAfter(Grid(gi)),
           \A j \in DOMAIN buf : Grid(gi) < buf[j].ts, NEW p \in Policies
    PROVE  Flatten(book[p], rows, Len(rows)).trades = Backtest(set, p, Record, decisions).trades
<1> DEFINE b == Decided(set, p, rows, decisions)
           L == Len(rows)
           R == Record
<1>1. book[p] = CheckExits(b, rows, L)
  BY BookAtDecision
<1>2. /\ R \in Seq(Timed) /\ rows \in Seq(Timed) /\ L \in Nat
      /\ DOMAIN rows = 1 .. L /\ \A i \in DOMAIN rows : R[i] = rows[i]
  BY RecordRows
<1>3. PICK g \in Nat : g = Grid(gi)
  BY GridTimes, ClockAssumption DEF BInv, InFlight
<1>4. Longer(rows, R, g)
  BY <1>3, RecordRows
<1>5. CheckExits(book[p], rows, L) = book[p]
  <2>1. book[p] \in Books /\ book[p].watch = L + 1 /\ L \in 0 .. L
    BY <1>2 DEF BInv, Watched
  <2> QED
    BY <1>2, <2>1, NothingLeft
<1> HIDE DEF L, R
<1>6. CASE decisions = <<>>
  <2>1. b = NewBook
    BY <1>6, DecidedNone
  <2>2. NewBook.pos.side = 0 /\ NewBook.trades = <<>>
    BY NewBookIs
  <2>3. book[p].pos.side = 0 /\ book[p].trades = <<>>
    BY <1>1, <2>1, <2>2, CheckExitsFlat
  <2>4. Flatten(book[p], rows, L) = book[p]
    BY <1>5, <2>3, FlattenIs
  <2>5. Backtest(set, p, R, decisions) = Flatten(NewBook, R, 0)
    BY <1>6, <2>1, DecidedNone DEF Backtest
  <2>6. CheckExits(NewBook, R, 0).pos.side = 0 /\ CheckExits(NewBook, R, 0).trades = <<>>
    BY <2>2, CheckExitsFlat
  <2>7. Flatten(NewBook, R, 0).trades = <<>>
    BY <2>6, FlattenIs
  <2> QED
    BY <2>3, <2>4, <2>5, <2>7 DEF L, R
<1>7. CASE decisions # <<>>
  <2> DEFINE t == LastOf(decisions).t
             n == Len(decisions)
  <2>1. t + Cadence = g
    BY <1>3, <1>7, LastIsLatest DEF RCore
  <2>2. n \in DOMAIN decisions /\ DOMAIN decisions = 1 .. n /\ n \in Nat /\ t = decisions[n].t
        /\ t \in Nat /\ rows # <<>> /\ decisions \in Seq(Decision)
    BY <1>7, LastDecision DEF RCore, LastOf
  <2> HIDE DEF t, n
  <2>3. ASSUME NEW i \in DOMAIN decisions
        PROVE  rows[1].ts <= decisions[i].t /\ Longer(rows, R, decisions[i].t + Latency)
    <3>1. decisions[i].t \in Nat /\ Began(decisions[i].t)
      BY DecisionTimes DEF RCore
    <3>2. i = n \/ decisions[i].t + Cadence <= t
      <4>1. i = n \/ i < n
        BY <2>2
      <4> QED
        BY <2>2, <4>1 DEF RCore, OnTheGrid
    <3>3. decisions[i].t + Latency \in Int /\ decisions[i].t + Latency <= g
      <4>1. Latency \in Nat /\ Cadence \in Nat /\ Latency <= Cadence
        BY ClockAssumption
      <4> QED
        BY <2>1, <2>2, <3>1, <3>2, <4>1
    <3> QED
      BY <1>2, <1>4, <3>1, <3>3, LongerSooner DEF Began
  <2>4. Read(rows, R, decisions)
    BY <2>2, <2>3 DEF Read
  <2>5. b \in Kept /\ Decided(set, p, R, decisions) = b
    BY <1>2, <2>2, <2>4, DecidedLonger
  <2> HIDE DEF b
  <2>6. RowAt(R, g) = L
    <3>1. RowAt(rows, g) = L
      BY <1>2, <1>3, RowAtAll DEF L
    <3> QED
      BY <1>2, <1>4, <3>1, RowAtLonger
  <2>7. L \in 0 .. L /\ L \in DOMAIN rows /\ R[L] = rows[L]
    BY <1>2, <2>2 DEF L
  <2>8. CheckExits(b, R, L) = CheckExits(b, rows, L)
    BY <1>2, <1>4, <2>5, <2>7, CheckExitsLonger DEF L, Longer
  <2>9. CheckExits(b, R, L) = book[p]
    BY <1>1, <2>8
  <2>10. Touch(R, L, book[p].pos.side) = Touch(rows, L, book[p].pos.side)
    BY <2>7, SameRow
  <2>11. \A px : Close(book[p], R, L, px, "eod") = Close(book[p], rows, L, px, "eod")
    BY <2>7 DEF Close
  <2>12. Flatten(b, R, L) = Flatten(book[p], rows, L)
    BY <1>5, <2>9, <2>10, <2>11, FlattenIs
  <2>13. Backtest(set, p, R, decisions) = Flatten(b, R, L)
    BY <1>7, <2>1, <2>5, <2>6 DEF Backtest, t
  <2> QED
    BY <2>12, <2>13 DEF L, R
<1> QED
  BY <1>6, <1>7

LEMMA CloseR ==
    ASSUME BInv, RCore, fills = {}, asking = 0, NoRowAfter(Grid(gi)),
           \A j \in DOMAIN buf : Grid(gi) < buf[j].ts,
           \A k \in gi .. GridLen : Record # <<>> => Record[Len(Record)].ts < Grid(k),
           UNCHANGED <<set, rows, buf, decisions>>,
           \A p \in Policies : book'[p].trades = Flatten(book[p], rows, Len(rows)).trades
    PROVE  ReplayMatchesBacktest'
<1>1. {decisions[i].t : i \in DOMAIN decisions} = Covered(Record)
  BY TimesMatch DEF RCore
<1>2. ASSUME NEW p \in Policies
      PROVE  book'[p].trades = Backtest(set, p, Record, decisions).trades
  BY ClosesAsBacktest
<1>3. Record' = Record
  BY DEF Record
<1> QED
  BY <1>1, <1>2, <1>3 DEF ReplayMatchesBacktest

LEMMA FireEndR ==
    ASSUME BInv, RCore, FireEnd
    PROVE  ReplayMatchesBacktest'
<1>1. /\ NextEvent = EndNs /\ (\A f \in fills : f.at # EndNs) /\ Due(EndNs)
      /\ CloseSession(RowAt(rows, EndNs)) /\ UNCHANGED <<set, rows, buf, decisions>>
  BY DEF FireEnd
<1>2. gi \in 1 .. GridLen + 1 /\ GridLen \in Nat
      /\ \A f \in fills : f \in Order /\ f.at <= Grid(gi)
  BY ClockAssumption DEF BInv, InFlight
<1>3. gi = GridLen + 1
  <2>1. ASSUME gi <= GridLen PROVE FALSE
    <3>1. gi \in 1 .. GridLen /\ gi \in Nat \ {0}
      BY <1>2, <2>1
    <3>2. Grid(gi) < EndNs /\ Grid(gi) \in Nat /\ EndNs \in Nat
      BY <3>1, GridEnd, GridTimes
    <3>3. EndNs <= Grid(gi)
      BY <1>1, <2>1, NextEventIs DEF BInv
    <3> QED
      BY <3>2, <3>3
  <2> QED
    BY <1>2, <2>1
<1>4. Grid(gi) = EndNs /\ EndNs \in Nat
  BY <1>3, GridEnd, GridTimes
<1>5. fills = {}
  <2>1. ASSUME NEW f \in fills PROVE FALSE
    <3>1. f.at \in Nat /\ f.at <= EndNs /\ EndNs <= f.at /\ f.at # EndNs
      BY <1>1, <1>2, <1>4, NextEventIs DEF BInv, Order
    <3> QED
      BY <1>4, <3>1
  <2> QED
    BY <2>1
<1>6. NoRowAfter(Grid(gi))
  BY <1>4 DEF BInv, NoneTooFar
<1>7. \A j \in DOMAIN buf : Grid(gi) < buf[j].ts
  BY <1>1, <1>4, DueReached DEF RCore, Reached
<1>8. \A k \in gi .. GridLen : FALSE
  BY <1>2, <1>3
<1>9. RowAt(rows, EndNs) = Len(rows)
  BY <1>4, <1>6, RowAtAll DEF BInv, InOrder
<1>10. \A p \in Policies : book'[p].trades = Flatten(book[p], rows, Len(rows)).trades
  BY <1>1, <1>9 DEF CloseSession
<1>11. asking = 0
  BY <1>1 DEF Due
<1> QED
  BY <1>1, <1>5, <1>6, <1>7, <1>8, <1>10, <1>11, CloseR

LEMMA FinishCloseR ==
    ASSUME BInv, RCore, FinishClose
    PROVE  ReplayMatchesBacktest'
<1>1. /\ phase = "finishing" /\ asking = 0 /\ ~closed /\ rows # <<>> /\ ~Due(NextEvent)
      /\ fills = {} /\ CloseSession(Len(rows)) /\ UNCHANGED <<set, rows, buf, decisions>>
  BY DEF FinishClose, Drain
<1>2. buf = <<>>
  BY <1>1 DEF RCore, OnTheGrid
<1>3. gi \in 1 .. GridLen + 1 /\ GridLen \in Nat
  BY ClockAssumption DEF BInv, InFlight
<1>4. NoRowAfter(Grid(gi))
  <2>1. CASE gi <= GridLen
    BY <2>1 DEF BInv, NoneTooFar
  <2>2. CASE ~(gi <= GridLen)
    <3>1. gi = GridLen + 1
      BY <1>3, <2>2
    <3>2. Grid(gi) = EndNs
      BY <3>1, GridEnd
    <3> QED
      BY <3>2 DEF BInv, NoneTooFar
  <2> QED
    BY <2>1, <2>2
<1>5. Len(Record) = Len(rows) /\ Record[Len(rows)] = rows[Len(rows)] /\ rows[Len(rows)].ts \in Int
  <2>1. Len(buf) = 0
    BY <1>2
  <2>2. Len(rows) \in DOMAIN rows /\ rows \in Seq(Timed)
    BY <1>1 DEF BInv, InOrder
  <2>3. Len(Record) = Len(rows) + Len(buf) /\ Len(rows) \in Nat
        /\ \A i \in DOMAIN rows : Record[i] = rows[i]
    BY RecordRows
  <2>4. rows[Len(rows)].ts \in Int
    BY <2>2, TimedTyped
  <2> QED
    BY <2>1, <2>2, <2>3, <2>4
<1>6. ASSUME NEW k \in gi .. GridLen PROVE Record[Len(Record)].ts < Grid(k)
  <2>1. gi <= GridLen /\ gi \in 1 .. GridLen /\ gi \in Nat \ {0} /\ k \in Nat \ {0}
        /\ (gi = k \/ gi < k)
    BY <1>3
  <2>2. NextEvent \in Nat /\ NextEvent <= Grid(gi) /\ Grid(gi) < EndNs /\ EndNs \in Nat
        /\ Grid(gi) \in Nat /\ Grid(k) \in Nat
    BY <2>1, NextEventIs, GridEnd, GridTimes DEF BInv
  <2>3. ~(NextEvent <= rows[Len(rows)].ts)
    <3>1. NextEvent < EndNs
      BY <2>2
    <3> QED
      BY <1>1, <3>1 DEF Due, LastTs
  <2>4. Grid(gi) <= Grid(k)
    <3>1. CASE gi = k
      BY <2>2, <3>1
    <3>2. CASE gi < k
      <4>1. Grid(gi) + Cadence <= Grid(k)
        BY <2>1, <3>2, GridOrder
      <4> QED
        BY <2>2, <4>1, ClockAssumption
    <3> QED
      BY <2>1, <3>1, <3>2
  <2>5. rows[Len(rows)].ts < Grid(k)
    BY <1>5, <2>2, <2>3, <2>4
  <2> QED
    BY <1>5, <2>5
<1>7. \A p \in Policies : book'[p].trades = Flatten(book[p], rows, Len(rows)).trades
  BY <1>1 DEF CloseSession
<1>8. \A j \in DOMAIN buf : Grid(gi) < buf[j].ts
  BY <1>2
<1> QED
  BY <1>1, <1>4, <1>6, <1>7, <1>8, CloseR

LEMMA FinishEmptyR ==
    ASSUME BInv, RCore, FinishEmpty
    PROVE  ReplayMatchesBacktest'
<1>1. phase = "finishing" /\ rows = <<>> /\ UNCHANGED <<set, rows, buf, decisions, book>>
  BY DEF FinishEmpty
<1>2. buf = <<>> /\ fills = {} /\ asking = 0 /\ \A p \in Policies : book[p].pos.side = 0
  BY <1>1 DEF RCore, OnTheGrid, BInv, IInv, AllFlat
<1>3. Len(Record) = 0 /\ Record \in Seq(Timed)
  <2>1. Len(Record) = Len(rows) + Len(buf) /\ Record \in Seq(Timed)
    BY RecordRows
  <2> QED
    BY <1>1, <1>2, <2>1
<1>4. Record = <<>>
  BY <1>3
<1>5. ASSUME NEW p \in Policies
      PROVE  book'[p].trades = Flatten(book[p], rows, Len(rows)).trades
  <2>1. /\ CheckExits(book[p], rows, Len(rows)).pos.side = 0
        /\ CheckExits(book[p], rows, Len(rows)).trades = book[p].trades
    BY <1>2, CheckExitsFlat
  <2> QED
    BY <1>1, <2>1, FlattenIs
<1>6. NoRowAfter(Grid(gi)) /\ (\A j \in DOMAIN buf : Grid(gi) < buf[j].ts)
  BY <1>1, <1>2
<1> QED
  BY <1>1, <1>2, <1>4, <1>5, <1>6, CloseR

-----------------------------------------------------------------------------
(* A rehearsal, step by step.                                              *)

LEMMA StartsR == Init => RInv
<1> SUFFICES ASSUME Init PROVE RCore
  BY DEF Init, RInv, RCore
<1>1. rows = <<>> /\ buf = <<>> /\ gi = 1 /\ fills = {} /\ decisions = <<>> /\ phase = "feeding"
      /\ book = [p \in Policies |-> NewBook]
  BY DEF Init, NewDay
<1>2. \A k \in 1 .. gi - 1 : FALSE
  BY <1>1
<1>3. DOMAIN decisions = {}
  BY <1>1
<1>4. {j \in 1 .. gi - 1 : Began(Grid(j))} = {}
  BY <1>2
<1>5. {Grid(k) : k \in {j \in 1 .. gi - 1 : Began(Grid(j))}} \ {asking} = {}
      /\ {decisions[i].t : i \in DOMAIN decisions} = {}
  BY <1>3, <1>4
<1>6. OnTheGrid
  BY <1>1, <1>2, <1>3, <1>5 DEF OnTheGrid
<1>7. Swept(NewBook) = NewBook
  <2>1. rows \in Seq(Timed) /\ Len(rows) = 0
    BY <1>1
  <2>2. NewBook \in Books /\ NewBook.watch = 0 + 1
    BY NewBookIs DEF Kept
  <2>3. CheckExits(NewBook, rows, 0) = NewBook
    BY <2>2, NothingLeft
  <2> QED
    BY <2>1, <2>3 DEF Swept
<1>8. \A p \in Policies : Fresh(p)
  BY <1>1, <1>7 DEF Fresh, OrderPending
<1> QED
  BY <1>6, <1>8 DEF RCore, Follows

\* A session that has closed does nothing more.
LEMMA ClosedStays ==
    ASSUME BInv, closed
    PROVE  ~Next
<1>1. asking = 0
  BY DEF BInv, IInv
<1>2. ~Receive /\ ~Absorb /\ ~DataEnds /\ ~FinishEmpty
  BY DEF Receive, Absorb, DataEnds, FinishEmpty, Idle
<1>3. ~FireFills /\ ~SkipDecision /\ ~Ask /\ ~FireEnd /\ ~FinishClose
  BY DEF FireFills, SkipDecision, Ask, FireEnd, FinishClose, AtDecision, Due, Drain
<1>4. ~Answer /\ ~Cancel
  BY <1>1 DEF Answer, Cancel
<1> QED
  BY <1>2, <1>3, <1>4 DEF Next

\* A session that is a rehearsal has always been one.
LEMMA RehearsedBefore ==
    ASSUME BInv, Next, Rehearsed'
    PROVE  Rehearsed /\ ~Cancel /\ (Receive => gi' = gi)
<1>1. ~Cancel
  <2>1. cancels \in Nat
    BY CancelsAssumption DEF BInv, PlainTypes
  <2> QED
    BY <2>1 DEF Cancel, Rehearsed
<1>2. set' = set /\ (~Receive => UNCHANGED <<cancels, warmUntil>>)
  BY <1>1 DEF Next, Receive, Absorb, FireFills, SkipDecision, Ask, Answer, FireEnd, DataEnds,
              FinishClose, FinishEmpty, Cancel
<1>3. ASSUME Receive PROVE UNCHANGED <<cancels, warmUntil, gi>>
  <2>1. PICK b \in Batches :
          LET late == rows = <<>> /\ set.warmup > 0 /\ b[1].ts > OpenNs
          IN  /\ warmUntil' = IF late THEN b[1].ts + set.warmup ELSE warmUntil
              /\ gi' = IF late THEN 1 + Cardinality({k \in 1 .. GridLen : Grid(k) < b[1].ts})
                               ELSE gi
    BY <1>3 DEF Receive
  <2> DEFINE late == rows = <<>> /\ set.warmup > 0 /\ b[1].ts > OpenNs
  <2>2. ~late
    <3>1. SUFFICES ASSUME late PROVE FALSE
      OBVIOUS
    <3>2. warmUntil' = b[1].ts + set.warmup /\ warmUntil' = 0 /\ set.warmup > 0
      BY <2>1, <3>1 DEF Rehearsed
    <3>3. b \in Seq(Timed) /\ b # <<>>
      BY BatchesContinue DEF BInv
    <3>4. 1 \in DOMAIN b
      BY <3>3
    <3>5. b[1].ts \in 0 .. MaxTs
      BY <3>3, <3>4, TimedTyped
    <3>6. set.warmup \in Nat
      BY FilterAssumption DEF BInv, PlainTypes
    <3> QED
      BY <3>2, <3>5, <3>6, RowAssumption
  <2>3. cancels' = cancels
    BY <1>3 DEF Receive
  <2> QED
    BY <2>1, <2>2, <2>3
<1> QED
  BY <1>1, <1>2, <1>3 DEF Rehearsed

LEMMA StillR ==
    ASSUME RInv, UNCHANGED vars
    PROVE  RInv'
<1>1. UNCHANGED <<set, rows, buf, gi, warmUntil, book, fills, decisions, asking, phase,
                  closed, target, cancels>>
  BY DEF vars
<1>2. ReplayMatchesBacktest' <=> ReplayMatchesBacktest
  BY <1>1 DEF ReplayMatchesBacktest, Record
<1>3. Rehearsed' <=> Rehearsed
  BY <1>1 DEF Rehearsed
<1>4. OnTheGrid' <=> OnTheGrid
  BY <1>1 DEF OnTheGrid, Reached, Began, Grid
<1>5. ASSUME NEW p \in Policies
      PROVE  (Fresh(p) \/ Waiting(p) \/ Settled(p))' <=> (Fresh(p) \/ Waiting(p) \/ Settled(p))
  <2>1. FoundNow(p)' = FoundNow(p)
    BY <1>1 DEF FoundNow
  <2>2. ActionNow(p)' = ActionNow(p)
    BY <1>1, <2>1 DEF ActionNow
  <2>3. Sends(p)' <=> Sends(p)
    BY <2>1, <2>2 DEF Sends
  <2>4. Fresh(p)' <=> Fresh(p)
    BY <1>1 DEF Fresh, OrderPending, Swept
  <2>5. Waiting(p)' <=> Waiting(p)
    BY <1>1, <2>1, <2>2, <2>3 DEF Waiting, Swept
  <2>6. Settled(p)' <=> Settled(p)
    BY <1>1, <2>3 DEF Settled, OrderPending, Swept, Past
  <2> QED
    BY <2>4, <2>5, <2>6
<1>6. Follows' <=> Follows
  BY <1>5 DEF Follows
<1> QED
  BY <1>1, <1>2, <1>3, <1>4, <1>6 DEF RInv

LEMMA ReplayInductive == BInv /\ RInv /\ [Next]_vars => RInv'
<1> SUFFICES ASSUME BInv, RInv, [Next]_vars PROVE RInv'
  OBVIOUS
<1>1. CASE UNCHANGED vars
  BY <1>1, StillR
<1>2. CASE Next
  <2>1. ~closed
    BY <1>2, ClosedStays
  <2>2. CASE ~Rehearsed'
    BY <2>2 DEF RInv, ReplayMatchesBacktest, Rehearsed
  <2>3. CASE Rehearsed'
    <3>1. Rehearsed /\ ~Cancel /\ (Receive => gi' = gi)
      BY <1>2, <2>3, RehearsedBefore
    <3>2. RCore /\ ~set.live
      BY <2>1, <3>1 DEF RInv, RCore, Rehearsed
    <3>3. CASE FireEnd \/ FinishClose \/ FinishEmpty
      <4>1. ReplayMatchesBacktest'
        BY <3>2, <3>3, FireEndR, FinishCloseR, FinishEmptyR
      <4>2. closed'
        BY <3>3 DEF FireEnd, FinishClose, FinishEmpty, CloseSession
      <4> QED
        BY <4>1, <4>2 DEF RInv
    <3>4. CASE Receive \/ Absorb \/ FireFills \/ SkipDecision \/ Ask \/ Answer \/ DataEnds
      <4>1. RCore'
        <5>1. Absorb => RCore'
          BY <3>2, AbsorbGrid, AbsorbFollows DEF RCore
        <5> QED
          BY <3>1, <3>2, <3>4, <5>1, ReceiveR, FillsR, SkipR, AskR, AnswerR, DataEndsR
      <4>2. closed' = closed
        BY <3>4 DEF Receive, Absorb, FireFills, SkipDecision, Ask, Answer, DataEnds
      <4> QED
        BY <2>1, <4>1, <4>2 DEF RInv, RCore
    <3> QED
      BY <1>2, <3>1, <3>3, <3>4 DEF Next
  <2> QED
    BY <2>2, <2>3
<1> QED
  BY <1>1, <1>2

\* A recorded day replays to exactly the backtest's trades, whatever the batches it
\* came in (live.py:12), and to the same decisions: the engine decides and fills as
\* the rows come, harness.run_day with the whole record before it.
THEOREM ReplaysBacktest == Spec => []ReplayMatchesBacktest
<1>1. BInv /\ RInv => ReplayMatchesBacktest
  BY DEF RInv, ReplayMatchesBacktest
<1>2. Spec => []RInv
  BY StartsR, BooksHold, ReplayInductive, PTL DEF Spec
<1> QED
  BY <1>1, <1>2, BooksHold, PTL
=============================================================================
