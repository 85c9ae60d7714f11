-------------------------- MODULE PaperRecordProofs --------------------------
(***************************************************************************)
(* The paper record, for any policies, day, number of sessions and faults: *)
(* its types, rows in order and none twice whatever fails, a complete      *)
(* record of every session whose row says that it ended, and, on a feed    *)
(* that cannot replay, totals of the day that count each position once.    *)
(*                                                                         *)
(* What the rows lack is on the queue, in order: a statement there names a *)
(* trade behind those in the rows and before those still to be put, the    *)
(* start comes before anything else, and behind the final status there is  *)
(* only the item that stops the writer.                                    *)
(*                                                                         *)
(* The day's totals are sums over its sessions.  Each session's positions  *)
(* begin behind those of the sessions before it, so the sum of their       *)
(* counts is the count of their union.                                     *)
(***************************************************************************)
EXTENDS PaperRecord, FiniteSetTheorems, TLAPS

Ended    == {"done", "aborted", "crashed"}
Statuses == {"none", "running"} \cup Ended

Events     == [policy : Policies, kind : {"enter", "leave", "reverse"}]
TradeLists == [Policies -> Seq([entry : Nat, exit : Nat])]
RowTypes ==
  [status : Statuses, trades : [Policies -> Seq(Nat)], open : Nat, summary : [Policies -> Int]]

Statements ==
  [op : {"start", "stop"}]
  \cup [op : {"trade"}, policy : Policies, trade : Nat]
  \cup [op : {"open"}, entry : Nat]
  \cup [op : {"summary"}, policy : Policies, trades : Nat]
  \cup [op : {"final"}, status : Ended]

SessionTypes == [at : Nat, pos : [Policies -> Nat], sent : [Policies -> Nat],
                 shown : Nat, closed : BOOLEAN]
Todos == [step : {"nothing", "start", "summary", "stop"}, left : SUBSET Policies,
          status : {"none"} \cup Ended]

Typed ==
  /\ source \in Sources /\ over \in BOOLEAN /\ Len(day) \in 0 .. MaxEvents
  /\ day \in Seq(Events)
  /\ made \in Seq(TradeLists) /\ db \in Seq(RowTypes) /\ Len(db) = Len(made)
  /\ ses \in SessionTypes /\ ses.at \in 0 .. Len(day)
  /\ proc \in {"none", "up", "joining", "leaving"} /\ todo \in Todos
  /\ queue \in Seq(Statements) /\ writer \in {"alive", "stopping", "gone"} /\ view \in RowTypes
  /\ cut \subseteq 1 .. Len(made) /\ fails \in 0 .. MaxFails /\ slips \in 0 .. MaxSlips

\* Where the process is, and what there is without one.
Placed ==
  /\ proc = "none" => writer = "gone" /\ queue = <<>> /\ todo = Nothing
  /\ proc # "none" => Len(made) > 0
  /\ todo.step = "start" => queue = <<>> /\ view = NoRows /\ proc = "up" /\ writer = "alive"
  /\ proc = "up" => todo.step \in {"nothing", "start"}
  /\ proc = "leaving" => todo = Nothing
  /\ todo.step \in {"summary", "stop"} => todo.status \in Ended

-----------------------------------------------------------------------------
(* The books.                                                              *)

\* The trades of a session begin one after the other.
Ordered(trades) ==
  /\ \A k \in DOMAIN trades : trades[k].entry \in 1 .. MaxEvents /\ trades[k].exit \in 1 .. MaxEvents
  /\ \A i, j \in DOMAIN trades : i < j => trades[i].entry < trades[j].entry

Behind(trades, at, pos) ==
  /\ \A k \in DOMAIN trades : trades[k].entry <= at
  /\ pos # 0 => \A k \in DOMAIN trades : trades[k].entry < pos

BooksOrdered ==
  /\ \A s \in 1 .. Len(made), p \in Policies : Ordered(made[s][p])
  /\ proc # "none" => \A p \in Policies : ses.pos[p] <= ses.at /\ Behind(made[Cur][p], ses.at, ses.pos[p])

-----------------------------------------------------------------------------
(* The rows.                                                               *)

Increasing(ns) == \A i, j \in DOMAIN ns : i < j => ns[i] < ns[j]

\* Rows that name trades of the session, in order.
RowOf(row, trades) ==
  /\ row.open <= MaxEvents
  /\ \A p \in Policies :
       /\ Increasing(row.trades[p])
       /\ \A k \in DOMAIN row.trades[p] : row.trades[p][k] \in 1 .. Len(trades[p])
       /\ row.summary[p] \in NoSummary .. Len(trades[p])

\* What the queue holds names trades that were sent, behind those in the rows.
QueueBehind ==
  \A i \in DOMAIN queue :
    /\ queue[i].op = "trade" =>
         /\ queue[i].trade \in 1 .. ses.sent[queue[i].policy]
         /\ \A k \in DOMAIN view.trades[queue[i].policy] :
              view.trades[queue[i].policy][k] < queue[i].trade
         /\ \A j \in DOMAIN queue :
              i < j /\ queue[j].op = "trade" /\ queue[j].policy = queue[i].policy
                => queue[i].trade < queue[j].trade
    /\ queue[i].op = "open" => queue[i].entry <= MaxEvents
    /\ queue[i].op = "summary" => queue[i].trades <= Len(made[Cur][queue[i].policy])

RowsOrdered ==
  /\ \A s \in 1 .. Len(db) : RowOf(db[s], made[s])
  /\ proc # "none" =>
       /\ RowOf(view, made[Cur]) /\ QueueBehind
       /\ \A p \in Policies :
            /\ ses.sent[p] <= Len(made[Cur][p])
            /\ \A k \in DOMAIN view.trades[p] : view.trades[p][k] <= ses.sent[p]

OrderInv == Typed /\ Placed /\ BooksOrdered /\ RowsOrdered

-----------------------------------------------------------------------------
(* A record without failed statements.                                     *)

\* The start is executed before anything else, and once.
Started ==
  /\ view.status = "none" => todo.step = "start" \/ (queue # <<>> /\ queue[1].op = "start")
  /\ \A i \in DOMAIN queue : queue[i].op = "start" => i = 1 /\ view.status = "none"

\* What was sent of a policy's trades is in the rows or on the queue.
NothingLost(p) ==
  LET rows == view.trades[p]
  IN  /\ \A k \in DOMAIN rows : rows[k] = k
      /\ \A n \in Len(rows) + 1 .. ses.sent[p] :
           \E i \in DOMAIN queue : queue[i] = TradeRow(p, n)

\* The position that was shown last is in the rows or on the queue.
ShownLast ==
  \/ view.open = ses.shown /\ \A i \in DOMAIN queue : queue[i].op # "open"
  \/ \E i \in DOMAIN queue :
       /\ queue[i].op = "open" /\ queue[i].entry = ses.shown
       /\ \A j \in DOMAIN queue : i < j => queue[j].op # "open"

\* A session that goes on has no totals, no end, and a writer.
GoesOn ==
  /\ \A i \in DOMAIN queue : queue[i].op \in {"start", "trade", "open"}
  /\ view.summary = Each(NoSummary) /\ view.status \in {"none", "running"}
  /\ db[Cur].status \notin Ended /\ writer = "alive"

\* The end has been put: the final status is on the queue or in the row.
FinalQueued == \E i \in DOMAIN queue : queue[i].op = "final"
Closing == proc \in {"joining", "leaving"}
AllPut == Closing /\ todo.step \in {"nothing", "stop"}

Stopping ==
  /\ todo.step = "summary" => ~FinalQueued /\ view.status \notin Ended
  /\ AllPut => FinalQueued \/ view.status \in Ended
  /\ writer # "alive" => view.status \in Ended /\ AllPut /\ todo.step = "nothing"
  /\ \A i \in DOMAIN queue : queue[i].op = "stop" =>
       /\ todo.step = "nothing"
       /\ \A j \in DOMAIN queue : queue[j].op = "final" => j < i
  /\ \A i, j \in DOMAIN queue : queue[i].op = "final" /\ i < j => queue[j].op # "final"
  /\ FinalQueued => view.status \notin Ended

\* A session that closed its books in time ends with everything on the queue:
\* totals of all its trades, and behind the final status only the stop.
Total(p) == Len(made[Cur][p])
Summed(p) ==
  /\ view.summary[p] \in {NoSummary, Total(p)}
  /\ \A i \in DOMAIN queue : queue[i].op = "summary" /\ queue[i].policy = p => queue[i].trades = Total(p)
  /\ p \notin todo.left =>
       \/ view.summary[p] = Total(p)
       \/ \E i \in DOMAIN queue : queue[i].op = "summary" /\ queue[i].policy = p

EndsWell ==
  /\ \A p \in Policies : ses.pos[p] = 0
  /\ \A p \in Policies : Summed(p)
  /\ todo.step # "summary" => Told /\ todo.left = {}
  /\ \A i, j \in DOMAIN queue : queue[i].op = "final" /\ i < j => queue[j].op = "stop"
  /\ view.status \in Ended => \A i \in DOMAIN queue : queue[i].op = "stop"

Complete(row, trades) ==
  /\ row.open = 0
  /\ \A p \in Policies :
       /\ row.summary[p] = Len(trades[p]) /\ Len(row.trades[p]) = Len(trades[p])
       /\ \A k \in DOMAIN row.trades[p] : row.trades[p][k] = k

EndedRows == \A s \in (1 .. Len(db)) \ cut : db[s].status \in Ended => Complete(db[s], made[s])

\* Nothing but a slip keeps the end of a session from its row.
AllEnd ==
  slips = 0 =>
    /\ \A s \in 1 .. Len(db) : s < Cur \/ proc = "none" => db[s].status \in Ended
    /\ proc = "leaving" => writer = "gone"
    /\ proc # "none" /\ writer = "gone" => db[Cur].status \in Ended

Recording ==
  /\ Started /\ ShownLast /\ \A p \in Policies : NothingLost(p)
  /\ proc = "up" => GoesOn
  /\ Closing => Stopping
  /\ Closing /\ Cur \notin cut => EndsWell

Kept == (proc # "none" => Recording) /\ EndedRows /\ AllEnd

RecordInv == OrderInv /\ (fails = 0 => Kept)

-----------------------------------------------------------------------------
(* Sequences.                                                              *)

LEMMA Appended ==
  ASSUME NEW S, NEW q \in Seq(S), NEW x \in S
  PROVE  /\ Append(q, x) \in Seq(S) /\ Append(q, x) # <<>>
         /\ Len(Append(q, x)) = Len(q) + 1 /\ DOMAIN Append(q, x) = 1 .. Len(q) + 1
         /\ DOMAIN q = 1 .. Len(q) /\ Len(q) \in Nat
         /\ \A i \in DOMAIN q : Append(q, x)[i] = q[i]
         /\ Append(q, x)[Len(q) + 1] = x
  OBVIOUS

LEMMA Behead ==
  ASSUME NEW S, NEW q \in Seq(S), q # <<>>
  PROVE  /\ Tail(q) \in Seq(S) /\ Len(q) \in Nat \ {0}
         /\ DOMAIN q = 1 .. Len(q) /\ DOMAIN Tail(q) = 1 .. Len(q) - 1
         /\ 1 \in DOMAIN q /\ Head(q) = q[1] /\ q[1] \in S
         /\ \A i \in DOMAIN Tail(q) : i + 1 \in DOMAIN q /\ Tail(q)[i] = q[i + 1]
         /\ \A i \in DOMAIN q : i # 1 => i - 1 \in DOMAIN Tail(q) /\ Tail(q)[i - 1] = q[i]
  OBVIOUS

LEMMA Replaced ==
  ASSUME NEW S, NEW q \in Seq(S), NEW n \in 1 .. Len(q), NEW x \in S
  PROVE  /\ [q EXCEPT ![n] = x] \in Seq(S) /\ Len([q EXCEPT ![n] = x]) = Len(q)
         /\ [q EXCEPT ![n] = x][n] = x
         /\ \A i \in 1 .. Len(q) : i # n => [q EXCEPT ![n] = x][i] = q[i]
  OBVIOUS

LEMMA Counted ==
  ASSUME NEW q \in Seq(Nat), NEW n \in Nat, DOMAIN q = 1 .. n, \A k \in 1 .. n : q[k] = k
  PROVE  q = [k \in 1 .. n |-> k]
<1>1. q \in [1 .. n -> Nat]
  OBVIOUS
<1> QED
  BY <1>1

-----------------------------------------------------------------------------
(* Types.                                                                  *)

LEMMA TodoTyped ==
  ASSUME NEW step \in {"nothing", "start", "summary", "stop"}, NEW left \in SUBSET Policies,
         NEW status \in {"none"} \cup Ended
  PROVE  /\ Todo(step, left, status) \in Todos /\ Todo(step, left, status).step = step
         /\ Todo(step, left, status).left = left /\ Todo(step, left, status).status = status
  BY DEF Todo, Todos

LEMMA TypedInit == Init => Typed /\ Placed
<1> SUFFICES ASSUME Init PROVE Typed /\ Placed
  OBVIOUS
<1> USE RecordAssumption DEF RecordAssumption
<1>1. Each(0) \in [Policies -> Nat] /\ Each(<<>>) \in [Policies -> Seq(Nat)]
      /\ Each(NoSummary) \in [Policies -> Int]
  BY DEF Each, NoSummary
<1>2. NewSession(0) \in SessionTypes /\ NewSession(0).at = 0
  BY <1>1 DEF NewSession, SessionTypes
<1>3. NoRows \in RowTypes
  BY <1>1 DEF NoRows, RowTypes, Statuses
<1>4. Nothing \in Todos /\ Nothing.step = "nothing"
  BY TodoTyped DEF Nothing
<1>5. Typed
  <2>1. /\ \A S : <<>> \in Seq(S)
        /\ Len(<<>>) = 0
    OBVIOUS
  <2>5. over \in BOOLEAN
    BY DEF Init
  <2>6. Len(day) \in 0 .. MaxEvents /\ ses.at \in 0 .. Len(day)
    BY <1>2, <2>1 DEF Init
  <2>2. /\ source \in Sources /\ ses \in SessionTypes
        /\ proc \in {"none", "up", "joining", "leaving"} /\ todo \in Todos
        /\ writer \in {"alive", "stopping", "gone"} /\ view \in RowTypes
    BY <1>2, <1>3, <1>4, <2>1 DEF Init
  <2>3. /\ Len(db) = Len(made) /\ cut \subseteq 1 .. Len(made)
        /\ fails \in 0 .. MaxFails /\ slips \in 0 .. MaxSlips
    BY <2>1 DEF Init
  <2>4. /\ day \in Seq(Events) /\ made \in Seq(TradeLists) /\ db \in Seq(RowTypes)
        /\ queue \in Seq(Statements)
    BY <2>1 DEF Init
  <2> QED
    BY <2>2, <2>3, <2>4, <2>5, <2>6 DEF Typed
<1>6. Placed
  BY <1>4 DEF Init, Placed
<1> QED
  BY <1>5, <1>6

LEMMA LeftTyped ==
  ASSUME Typed, Len(made) > 0, NEW P, NEW t \in Nat
  PROVE  /\ Left(P, t) \in TradeLists
         /\ [made EXCEPT ![Cur] = Left(P, t)] \in Seq(TradeLists)
         /\ Len([made EXCEPT ![Cur] = Left(P, t)]) = Len(made)
<1>1. Cur \in 1 .. Len(made) /\ made[Cur] \in TradeLists /\ ses.pos \in [Policies -> Nat]
  BY DEF Typed, Cur, SessionTypes
<1>2. ASSUME NEW p \in Policies
      PROVE  Append(made[Cur][p], [entry |-> ses.pos[p], exit |-> t]) \in Seq([entry : Nat, exit : Nat])
  BY <1>1 DEF TradeLists
<1>3. Left(P, t) \in TradeLists
  BY <1>1, <1>2 DEF Left, TradeLists
<1> QED
  BY <1>1, <1>3, Replaced DEF Typed

LEMMA ClosedTyped ==
  ASSUME Typed, Len(made) > 0, CloseBooks
  PROVE  /\ made' \in Seq(TradeLists) /\ Len(made') = Len(made)
         /\ ses' \in SessionTypes /\ ses'.at = ses.at /\ ses'.pos = Each(0)
         /\ ses'.sent = ses.sent /\ ses'.shown = ses.shown /\ ses'.closed
<1>1. ses.at \in Nat
  BY DEF Typed, SessionTypes
<1>2. made' \in Seq(TradeLists) /\ Len(made') = Len(made)
  BY <1>1, LeftTyped DEF CloseBooks
<1>3. Each(0) \in [Policies -> Nat]
  BY DEF Each
<1> QED
  BY <1>2, <1>3 DEF CloseBooks, Typed, SessionTypes

LEMMA Moved ==
  ASSUME Typed, Len(made) > 0, Feed
  PROVE  /\ Typed'
         /\ \E e \in Events :
              LET t == ses.at + 1 IN
              /\ t \in 1 .. MaxEvents
              /\ made' = IF e.kind = "enter" THEN made
                         ELSE [made EXCEPT ![Cur] = Left({e.policy}, t)]
              /\ ses' = [ses EXCEPT !.at = t, !.pos[e.policy] = IF e.kind = "leave" THEN 0 ELSE t]
<1>1. ses.at \in Nat /\ ses.at \in 0 .. Len(day) /\ Len(day) \in 0 .. MaxEvents /\ MaxEvents \in Nat
      /\ day \in Seq(Events)
  BY RecordAssumption DEF Typed, RecordAssumption
<1>2. PICK e \in NextEvents :
        LET t == ses.at + 1 IN
        /\ day' = IF ses.at = Len(day) THEN Append(day, e) ELSE day
        /\ made' = IF e.kind = "enter" THEN made
                   ELSE [made EXCEPT ![Cur] = Left({e.policy}, t)]
        /\ ses' = [ses EXCEPT !.at = t, !.pos[e.policy] = IF e.kind = "leave" THEN 0 ELSE t]
  BY DEF Feed
<1>3. /\ e \in Events
      /\ ses.at < Len(day) \/ (Len(day) # MaxEvents /\ ses.at = Len(day))
  <2>1. CASE ses.at < Len(day)
    <3>1. e = day[ses.at + 1] /\ ses.at + 1 \in 1 .. Len(day)
      BY <1>1, <2>1 DEF NextEvents
    <3>2. day[ses.at + 1] \in Events
      BY <1>1, <3>1
    <3> QED
      BY <2>1, <3>1, <3>2
  <2>2. CASE ~(ses.at < Len(day))
    <3>1. e \in Events /\ Len(day) # MaxEvents
      BY <1>1, <2>2 DEF NextEvents, Events
    <3> QED
      BY <1>1, <2>2, <3>1
  <2> QED
    BY <2>1, <2>2
<1>4. ses.at + 1 \in 1 .. MaxEvents /\ ses.at + 1 \in Nat
  BY <1>1, <1>3
<1>5. /\ day' \in Seq(Events)
      /\ Len(day') \in 0 .. MaxEvents /\ ses.at + 1 \in 0 .. Len(day')
  <2>1. CASE ses.at = Len(day)
    BY <1>1, <1>2, <1>3, <2>1
  <2>2. CASE ses.at # Len(day)
    BY <1>1, <1>2, <1>3, <2>2
  <2> QED
    BY <2>1, <2>2
<1>6. made' \in Seq(TradeLists) /\ Len(made') = Len(made)
  BY <1>2, <1>4, LeftTyped DEF Typed
<1>7. ses' \in SessionTypes /\ ses'.at = ses.at + 1
  BY <1>2, <1>3, <1>4 DEF Typed, SessionTypes
<1>8. /\ UNCHANGED <<source, over, proc, todo, recorder, cut>> /\ NoSlip
  BY DEF Feed
<1>9. Typed'
  BY <1>5, <1>6, <1>7, <1>8 DEF Typed, recorder, NoSlip, bounds
<1> QED
  BY <1>2, <1>3, <1>4, <1>9

LEMMA StatementsTyped ==
  /\ StartRow \in Statements /\ StopWriter \in Statements
  /\ \A p \in Policies, n \in Nat : TradeRow(p, n) \in Statements /\ SummaryRow(p, n) \in Statements
  /\ \A e \in Nat : OpenRow(e) \in Statements
  /\ \A s \in Ended : FinalRow(s) \in Statements
BY DEF Statements, StartRow, StopWriter, TradeRow, SummaryRow, OpenRow, FinalRow

LEMMA ApplyTyped ==
  ASSUME NEW row \in RowTypes, NEW st \in Statements
  PROVE  Apply(row, st) \in RowTypes
<1>1. CASE st.op = "trade"
  <2>1. st.policy \in Policies /\ st.trade \in Nat
    BY <1>1 DEF Statements
  <2>2. row.trades[st.policy] \in Seq(Nat)
    BY <2>1 DEF RowTypes
  <2>3. Append(row.trades[st.policy], st.trade) \in Seq(Nat)
    BY <2>1, <2>2
  <2>4. Apply(row, st) = [row EXCEPT !.trades[st.policy] = Append(row.trades[st.policy], st.trade)]
    BY <1>1 DEF Apply
  <2> QED
    BY <2>1, <2>3, <2>4 DEF RowTypes
<1>2. CASE st.op = "open"
  <2>1. st.entry \in Nat /\ Apply(row, st) = [row EXCEPT !.open = st.entry]
    BY <1>2 DEF Statements, Apply
  <2> QED
    BY <2>1 DEF RowTypes
<1>3. CASE st.op = "summary"
  <2>1. /\ st.trades \in Nat /\ st.policy \in Policies
        /\ Apply(row, st) = [row EXCEPT !.summary[st.policy] = st.trades]
    BY <1>3 DEF Statements, Apply
  <2>2. row.summary \in [Policies -> Int] /\ st.trades \in Int
    BY <2>1 DEF RowTypes
  <2>3. [row.summary EXCEPT ![st.policy] = st.trades] \in [Policies -> Int]
    BY <2>1, <2>2
  <2>4. Apply(row, st) = [row EXCEPT !.summary = [row.summary EXCEPT ![st.policy] = st.trades]]
    BY <2>1
  <2> QED
    BY <2>3, <2>4 DEF RowTypes
<1>4. CASE st.op = "final"
  <2>1. st.status \in Ended /\ Apply(row, st) \in {row, [row EXCEPT !.status = st.status]}
    BY <1>4 DEF Statements, Apply
  <2> QED
    BY <2>1 DEF RowTypes, Statuses
<1>5. CASE st.op \in {"start", "stop"}
  <2>1. Apply(row, st) \in {row, [row EXCEPT !.status = "running"]}
    BY <1>5 DEF Apply
  <2> QED
    BY <2>1 DEF RowTypes, Statuses
<1> QED
  BY <1>1, <1>2, <1>3, <1>4, <1>5 DEF Statements

TP == Typed /\ Placed

LEMMA StartTyped == ASSUME TP, StartSession PROVE TP'
<1> USE RecordAssumption DEF RecordAssumption
<1>1. /\ proc' = "up" /\ writer' = "alive" /\ queue' = <<>> /\ view' = NoRows
      /\ made' = Append(made, Each(<<>>)) /\ db' = Append(db, NoRows)
      /\ ses' = NewSession(From) /\ todo' = Todo("start", {}, "none")
      /\ UNCHANGED <<source, day, over, cut>> /\ UNCHANGED <<fails, slips>>
  BY DEF StartSession, NoSlip, bounds
<1>2. Each(0) \in [Policies -> Nat] /\ Each(<<>>) \in [Policies -> Seq(Nat)]
      /\ Each(NoSummary) \in [Policies -> Int] /\ Each(<<>>) \in TradeLists
  BY DEF Each, NoSummary, TradeLists
<1>3. NoRows \in RowTypes
  BY <1>2 DEF NoRows, RowTypes, Statuses
<1>4. made' \in Seq(TradeLists) /\ db' \in Seq(RowTypes) /\ Len(made') = Len(db')
      /\ Len(made') = Len(made) + 1
  BY <1>1, <1>2, <1>3, Appended DEF TP, Typed
<1>5. From \in 0 .. Len(day) /\ From \in Nat
  BY DEF TP, Typed, From
<1>6. ses' \in SessionTypes /\ ses'.at \in 0 .. Len(day')
  BY <1>1, <1>2, <1>5 DEF NewSession, SessionTypes
<1>7. todo' \in Todos /\ todo'.step = "start"
  BY <1>1, TodoTyped
<1>8. Len(made) \in Nat
  BY DEF TP, Typed
<1>9. Typed'
  BY <1>1, <1>3, <1>4, <1>6, <1>7, <1>8 DEF TP, Typed
<1> QED
  BY <1>1, <1>4, <1>7, <1>8, <1>9 DEF TP, Placed

LEMMA FeedTyped == ASSUME TP, Feed PROVE TP'
<1>1. Len(made) > 0 /\ proc = "up" /\ Len(made') = Len(made)
  <2>1. proc = "up" /\ Len(made) > 0
    BY DEF TP, Placed, Feed, Idle
  <2>2. Len(db') = Len(db) /\ Len(db') = Len(made') /\ Len(db) = Len(made)
    BY <2>1, Moved DEF TP, Typed, Feed, recorder
  <2> QED
    BY <2>1, <2>2
<1>2. Typed'
  BY <1>1, Moved DEF TP
<1> QED
  BY <1>1, <1>2 DEF TP, Placed, Feed, recorder

\* What closes the books, whatever it does to the process.
LEMMA ClosesTyped ==
  ASSUME TP, proc # "none", CloseBooks, UNCHANGED <<source, day, recorder, fails>>,
         over' \in BOOLEAN, cut' = cut, slips' \in 0 .. MaxSlips, todo' \in Todos,
         proc' \in {"up", "joining", "leaving"}
  PROVE  Typed' /\ Len(made') = Len(made) /\ Len(made) > 0
<1>1. Len(made) > 0
  BY DEF TP, Placed
<1>2. /\ made' \in Seq(TradeLists) /\ Len(made') = Len(made)
      /\ ses' \in SessionTypes /\ ses'.at = ses.at
  BY <1>1, ClosedTyped DEF TP
<1> QED
  BY <1>1, <1>2 DEF TP, Typed, recorder

LEMMA EngineClosesTyped == ASSUME TP, EngineCloses PROVE TP'
<1>1. /\ proc = "up" /\ CloseBooks /\ over' = TRUE /\ UNCHANGED <<source, day, recorder, cut, proc, todo>>
      /\ UNCHANGED <<fails, slips>> /\ todo = Nothing
  BY DEF EngineCloses, NoSlip, bounds, Idle
<1>2. Typed' /\ Len(made') = Len(made)
  BY <1>1, ClosesTyped DEF TP, Typed
<1> QED
  BY <1>1, <1>2 DEF TP, Placed, recorder

LEMMA SlipTyped == ASSUME Typed, Slip PROVE slips' \in 0 .. MaxSlips /\ fails' = fails
  BY RecordAssumption DEF RecordAssumption, Typed, Slip

LEMMA EndsTyped == ASSUME TP, Done \/ Stopped PROVE TP'
<1>1. /\ Idle /\ UNCHANGED <<source, day, over, recorder>>
      /\ \E status \in Ended : EndFlat(status) \/ EndOpen(status)
  BY RecordAssumption DEF RecordAssumption, Done, Stopped, Ended
<1>2. PICK status \in Ended : EndFlat(status) \/ EndOpen(status)
  BY <1>1
<1>3. /\ todo' = Todo("summary", Policies, status) /\ proc' = "joining" /\ proc = "up"
      /\ todo = Nothing
  BY <1>1, <1>2 DEF EndFlat, EndOpen, Ends, Idle
<1>4. todo' \in Todos /\ todo'.step = "summary" /\ todo'.status = status
  <2>1. Policies \in SUBSET Policies /\ status \in {"none"} \cup Ended
    OBVIOUS
  <2> QED
    BY <1>3, <2>1, TodoTyped
<1>5. Typed' /\ Len(made') = Len(made) /\ Len(made) > 0
  <2>1. CASE EndFlat(status)
    BY <1>1, <1>3, <1>4, <2>1, ClosesTyped DEF TP, Typed, EndFlat, NoSlip, bounds
  <2>2. CASE EndOpen(status)
    <3>1. Len(made) > 0 /\ Cur \in 1 .. Len(made)
      BY <1>3 DEF TP, Typed, Placed, Cur
    <3>2. slips' \in 0 .. MaxSlips /\ fails' = fails
      BY <2>2, SlipTyped DEF TP, EndOpen
    <3>3. cut' \subseteq 1 .. Len(made') /\ UNCHANGED <<made, ses>>
      BY <2>2, <3>1 DEF TP, Typed, EndOpen
    <3> QED
      BY <1>1, <1>3, <1>4, <3>1, <3>2, <3>3 DEF TP, Typed, recorder
  <2> QED
    BY <1>2, <2>1, <2>2
<1> QED
  BY <1>1, <1>3, <1>4, <1>5 DEF TP, Placed, recorder

LEMMA JoinedTyped == ASSUME TP, Joined PROVE TP'
<1>1. /\ proc = "joining" /\ proc' = "leaving" /\ CloseBooks /\ todo = Nothing
      /\ UNCHANGED <<source, day, over, recorder, cut, todo>>
      /\ slips' \in 0 .. MaxSlips /\ fails' = fails
  <2>1. slips' \in 0 .. MaxSlips /\ fails' = fails
    <3>1. CASE writer = "gone"
      BY <3>1 DEF TP, Typed, Joined, Joins, NoSlip, bounds
    <3>2. CASE writer # "gone"
      BY <3>2, SlipTyped DEF TP, Joined, Joins
    <3> QED
      BY <3>1, <3>2
  <2> QED
    BY <2>1 DEF Joined
<1>2. Typed' /\ Len(made') = Len(made)
  BY <1>1, ClosesTyped DEF TP, Typed
<1>3. todo'.step = "nothing"
  BY <1>1, TodoTyped DEF Nothing
<1> QED
  BY <1>1, <1>2, <1>3 DEF TP, Placed, recorder

LEMMA DiesTyped == ASSUME TP, Exit \/ Kill PROVE TP'
<1>1. /\ proc' = "none" /\ todo' = Nothing /\ queue' = <<>> /\ view' = NoRows /\ writer' = "gone"
      /\ UNCHANGED <<source, day, over, made, ses, db, cut, fails>> /\ slips' \in 0 .. MaxSlips
  <2>1. CASE Exit
    BY <2>1 DEF TP, Typed, Exit, Dies, NoSlip, bounds
  <2>2. CASE Kill
    BY <2>2, SlipTyped DEF TP, Kill, Dies
  <2> QED
    BY <2>1, <2>2
<1>2. Nothing \in Todos /\ Nothing.step = "nothing"
  BY TodoTyped DEF Nothing
<1>3. NoRows \in RowTypes
  BY DEF NoRows, RowTypes, Statuses, Each, NoSummary
<1>4. Typed'
  <2>1. <<>> \in Seq(Statements)
    OBVIOUS
  <2> QED
    BY <1>1, <1>2, <1>3, <2>1 DEF TP, Typed
<1> QED
  BY <1>1, <1>2, <1>4 DEF TP, Placed

\* A statement is put: what else it may change.
LEMMA QueuedTyped ==
  ASSUME TP, NEW row \in Statements, Queued(row), proc # "none",
         ses' \in SessionTypes, ses'.at = ses.at, todo' \in Todos,
         todo'.step # "start", proc = "up" => todo'.step = "nothing",
         proc = "leaving" => todo' = Nothing,
         todo'.step \in {"summary", "stop"} => todo'.status \in Ended
  PROVE  TP'
<1>1. /\ queue' = Append(queue, row) /\ UNCHANGED <<source, day, over, made, proc, writer, view, db, cut>>
      /\ UNCHANGED <<fails, slips>>
  BY DEF Queued, NoSlip, bounds
<1>2. queue' \in Seq(Statements)
  BY <1>1, Appended DEF TP, Typed
<1>3. Typed'
  BY <1>1, <1>2 DEF TP, Typed
<1> QED
  BY <1>1, <1>3 DEF TP, Placed

LEMMA PutTyped == ASSUME TP, Put PROVE TP'
<1>1. ses \in SessionTypes /\ todo \in Todos /\ made \in Seq(TradeLists)
  BY DEF TP, Typed
<1>n. Nothing \in Todos /\ Nothing.step = "nothing"
  BY TodoTyped DEF Nothing
<1>2. CASE PutStart
  <2>1. proc # "none"
    BY <1>2, <1>n DEF TP, Placed, PutStart
  <2> QED
    BY <1>1, <1>2, <1>n, <2>1, QueuedTyped, StatementsTyped DEF PutStart
<1>3. CASE PutTrade
  <2>1. PICK p \in Policies : Queued(TradeRow(p, NextTrade(p))) /\ ses' = [ses EXCEPT !.sent[p] = @ + 1]
    BY <1>3 DEF PutTrade
  <2>2. TradeRow(p, NextTrade(p)) \in Statements
    BY <1>1, StatementsTyped DEF NextTrade, SessionTypes
  <2>3. ses' \in SessionTypes /\ ses'.at = ses.at
    <3>1. ses.sent \in [Policies -> Nat]
      BY <1>1 DEF SessionTypes
    <3>2. [ses.sent EXCEPT ![p] = @ + 1] \in [Policies -> Nat]
      BY <3>1
    <3>3. ses' = [ses EXCEPT !.sent = [ses.sent EXCEPT ![p] = @ + 1]]
      BY <2>1
    <3> QED
      BY <1>1, <3>2, <3>3 DEF SessionTypes
  <2>4. todo' = todo /\ proc # "none" /\ todo.step # "start"
    BY <1>3 DEF PutTrade
  <2>5. /\ proc = "up" => todo.step = "nothing"
        /\ proc = "leaving" => todo = Nothing
        /\ todo.step \in {"summary", "stop"} => todo.status \in Ended
    BY <2>4 DEF TP, Placed
  <2> QED
    BY <1>1, <2>1, <2>2, <2>3, <2>4, <2>5, QueuedTyped
<1>4. CASE PutOpen
  <2>1. Queued(OpenRow(ses.pos[Jev])) /\ ses' = [ses EXCEPT !.shown = ses.pos[Jev]]
        /\ todo' = todo /\ proc # "none" /\ todo.step # "start"
    BY <1>4 DEF PutOpen
  <2>2. ses.pos[Jev] \in Nat
    BY <1>1, RecordAssumption DEF RecordAssumption, SessionTypes
  <2>3. OpenRow(ses.pos[Jev]) \in Statements
    BY <2>2, StatementsTyped
  <2>4. ses' \in SessionTypes /\ ses'.at = ses.at
    BY <1>1, <2>1, <2>2 DEF SessionTypes
  <2>5. /\ proc = "up" => todo.step = "nothing"
        /\ proc = "leaving" => todo = Nothing
        /\ todo.step \in {"summary", "stop"} => todo.status \in Ended
    BY <2>1 DEF TP, Placed
  <2> QED
    BY <1>1, <2>1, <2>3, <2>4, <2>5, QueuedTyped
<1>5. CASE PutSummary
  <2>1. PICK p \in todo.left : Queued(SummaryRow(p, Len(made[Cur][p])))
                               /\ todo' = [todo EXCEPT !.left = @ \ {p}]
    BY <1>5 DEF PutSummary
  <2>2. ses' = ses /\ proc # "none" /\ todo.step = "summary" /\ proc = "joining" /\ todo.status \in Ended
    BY <1>5, <1>n DEF PutSummary, Settled, TP, Placed, Typed
  <2>3. p \in Policies
    BY <1>1, <2>1 DEF Todos
  <2>4. Cur \in 1 .. Len(made)
    BY <1>1, <2>2 DEF TP, Placed, Cur
  <2>5. Len(made[Cur][p]) \in Nat
    BY <1>1, <2>3, <2>4 DEF TradeLists
  <2>6. SummaryRow(p, Len(made[Cur][p])) \in Statements
    BY <2>3, <2>5, StatementsTyped
  <2>7. todo' \in Todos /\ todo'.step = "summary" /\ todo'.status = todo.status
    BY <1>1, <2>1, <2>2 DEF Todos
  <2> QED
    BY <1>1, <2>1, <2>2, <2>6, <2>7, QueuedTyped
<1>6. CASE PutFinal
  <2>1. /\ Queued(FinalRow(todo.status)) /\ todo' = [todo EXCEPT !.step = "stop"]
        /\ ses' = ses /\ proc # "none" /\ todo.step = "summary"
    BY <1>6 DEF PutFinal, Settled
  <2>2. proc = "joining" /\ todo.status \in Ended
    BY <1>n, <2>1 DEF TP, Placed, Typed
  <2>3. todo' \in Todos /\ todo'.step = "stop" /\ todo'.status = todo.status
    BY <1>1, <2>1 DEF Todos
  <2> QED
    BY <1>1, <2>1, <2>2, <2>3, QueuedTyped, StatementsTyped
<1>7. CASE PutStop
  <2>1. proc # "none"
    BY <1>7, <1>n DEF TP, Placed, PutStop
  <2> QED
    BY <1>1, <1>7, <1>n, <2>1, QueuedTyped, StatementsTyped DEF PutStop
<1> QED
  BY <1>2, <1>3, <1>4, <1>5, <1>6, <1>7 DEF Put

LEMMA ExecuteTyped == ASSUME TP, Execute PROVE TP'
<1>1. /\ writer # "gone" /\ queue # <<>> /\ queue' = Tail(queue)
      /\ view' = view \/ view' = Apply(view, Head(queue))
      /\ writer' = IF Head(queue) = StopWriter THEN "stopping" ELSE writer
      /\ UNCHANGED <<source, day, over, made, ses, proc, todo, db, cut, slips>>
  BY DEF Execute
<1>2. fails' \in 0 .. MaxFails
  BY RecordAssumption DEF RecordAssumption, Execute, TP, Typed
<1>3. queue' \in Seq(Statements) /\ Head(queue) \in Statements
  BY <1>1, Behead DEF TP, Typed
<1>4. view' \in RowTypes
  BY <1>1, <1>3, ApplyTyped DEF TP, Typed
<1>5. Typed'
  BY <1>1, <1>2, <1>3, <1>4 DEF TP, Typed
<1> QED
  BY <1>1, <1>5 DEF TP, Placed

LEMMA CommitTyped == ASSUME TP, Commit PROVE TP'
<1>1. /\ writer # "gone" /\ UNCHANGED <<source, day, over, made, ses, proc, todo, queue, view, cut>>
      /\ writer' = (IF writer = "stopping" THEN "gone" ELSE writer)
      /\ db' = db \/ db' = [db EXCEPT ![Cur] = view]
  BY DEF Commit
<1>2. slips' \in 0 .. MaxSlips /\ fails' = fails
  <2>1. CASE NoSlip
    BY <2>1 DEF TP, Typed, NoSlip, bounds
  <2>2. CASE Slip
    BY <2>2, SlipTyped DEF TP
  <2> QED
    BY <2>1, <2>2 DEF Commit
<1>3. Cur \in 1 .. Len(db)
  BY <1>1 DEF TP, Typed, Placed, Cur
<1>4. db' \in Seq(RowTypes) /\ Len(db') = Len(db)
  <2>1. CASE db' = db
    BY <2>1 DEF TP, Typed
  <2>2. CASE db' = [db EXCEPT ![Cur] = view]
    BY <1>3, <2>2, Replaced DEF TP, Typed
  <2> QED
    BY <1>1, <2>1, <2>2
<1>5. Typed'
  BY <1>1, <1>2, <1>4 DEF TP, Typed
<1> QED
  BY <1>1, <1>5 DEF TP, Placed

LEMMA TypedNext == ASSUME TP, [Next]_vars PROVE TP'
<1>1. CASE UNCHANGED vars
  BY <1>1 DEF vars, recorder, bounds, TP, Typed, Placed
<1> QED
  BY <1>1, StartTyped, FeedTyped, EngineClosesTyped, EndsTyped, PutTyped, JoinedTyped, DiesTyped,
     ExecuteTyped, CommitTyped DEF Next

-----------------------------------------------------------------------------
(* The books.                                                              *)

\* The session a process runs, and its books.
LEMMA Running ==
  ASSUME TP, proc # "none"
  PROVE  /\ Cur \in 1 .. Len(made) /\ Cur \in 1 .. Len(db) /\ made[Cur] \in TradeLists
         /\ ses.pos \in [Policies -> Nat] /\ ses.sent \in [Policies -> Nat]
         /\ ses.at \in Nat /\ ses.at <= MaxEvents /\ ses.shown \in Nat
         /\ \A p \in Policies : /\ made[Cur][p] \in Seq([entry : Nat, exit : Nat])
                                /\ Len(made[Cur][p]) \in Nat
<1>1. Cur \in 1 .. Len(made) /\ Cur \in 1 .. Len(db)
  BY DEF TP, Typed, Placed, Cur
<1>2. made[Cur] \in TradeLists
  BY <1>1 DEF TP, Typed
<1>3. \A p \in Policies : made[Cur][p] \in Seq([entry : Nat, exit : Nat])
  BY <1>2 DEF TradeLists
<1> QED
  BY <1>1, <1>2, <1>3, RecordAssumption DEF RecordAssumption, TP, Typed, SessionTypes

\* Leaving a position at t adds a trade behind the others, and takes none away.
LEMMA LeftOrdered ==
  ASSUME TP, BooksOrdered, proc # "none", NEW P, NEW t \in Nat, ses.at <= t, t <= MaxEvents,
         NEW p \in Policies
  PROVE  /\ Ordered(Left(P, t)[p])
         /\ Len(Left(P, t)[p]) >= Len(made[Cur][p])
         /\ \A k \in DOMAIN Left(P, t)[p] : Left(P, t)[p][k].entry <= ses.at
         /\ \A k \in DOMAIN made[Cur][p] : Left(P, t)[p][k] = made[Cur][p][k]
         /\ p \notin P \/ ses.pos[p] = 0 => Left(P, t)[p] = made[Cur][p]
<1> DEFINE q == made[Cur][p] x == [entry |-> ses.pos[p], exit |-> t] l == Left(P, t)[p]
<1>1. /\ q \in Seq([entry : Nat, exit : Nat]) /\ ses.pos[p] \in Nat /\ ses.at \in Nat
      /\ Cur \in 1 .. Len(made) /\ MaxEvents \in Nat
  BY Running, RecordAssumption DEF RecordAssumption
<1>2. Ordered(q) /\ Behind(q, ses.at, ses.pos[p]) /\ ses.pos[p] <= ses.at
  BY <1>1 DEF BooksOrdered
<1>3. l = IF p \in P /\ ses.pos[p] # 0 THEN Append(q, x) ELSE q
  BY DEF Left
<1>4. CASE p \in P /\ ses.pos[p] # 0
  <2>1. x \in [entry : Nat, exit : Nat] /\ x.entry = ses.pos[p] /\ x.exit = t
    BY <1>1
  <2>n. l = Append(q, x) /\ q \in Seq([entry : Nat, exit : Nat])
    BY <1>1, <1>3, <1>4
  <2> HIDE DEF q, x, l
  <2>2. /\ l = Append(q, x) /\ DOMAIN l = 1 .. Len(q) + 1 /\ DOMAIN q = 1 .. Len(q) /\ Len(q) \in Nat
        /\ Len(l) = Len(q) + 1 /\ l[Len(q) + 1] = x /\ \A i \in DOMAIN q : l[i] = q[i]
    BY <2>1, <2>n, Appended
  <2>3. \A k \in DOMAIN q : /\ q[k].entry \in 1 .. MaxEvents /\ q[k].exit \in 1 .. MaxEvents
                            /\ q[k].entry < ses.pos[p]
    BY <1>2, <1>4 DEF Ordered, Behind
  <2>4. x.entry \in 1 .. MaxEvents /\ x.exit \in 1 .. MaxEvents
    BY <1>1, <1>2, <1>4, <2>1
  <2>5. \A k \in DOMAIN l : l[k].entry \in 1 .. MaxEvents /\ l[k].exit \in 1 .. MaxEvents
    <3> SUFFICES ASSUME NEW k \in DOMAIN l
                 PROVE  l[k].entry \in 1 .. MaxEvents /\ l[k].exit \in 1 .. MaxEvents
      OBVIOUS
    <3>1. CASE k \in DOMAIN q
      BY <2>2, <2>3, <3>1
    <3>2. CASE k = Len(q) + 1
      BY <2>2, <2>4, <3>2
    <3> QED
      BY <2>2, <3>1, <3>2
  <2>6. \A k \in DOMAIN l : l[k].entry <= ses.at
    <3> SUFFICES ASSUME NEW k \in DOMAIN l PROVE l[k].entry <= ses.at
      OBVIOUS
    <3>1. CASE k \in DOMAIN q
      BY <1>2, <2>2, <3>1 DEF Behind
    <3>2. CASE k = Len(q) + 1
      BY <1>2, <2>1, <2>2, <3>2
    <3> QED
      BY <2>2, <3>1, <3>2
  <2>7. \A i, j \in DOMAIN l : i < j => l[i].entry < l[j].entry
    <3> SUFFICES ASSUME NEW i \in DOMAIN l, NEW j \in DOMAIN l, i < j PROVE l[i].entry < l[j].entry
      OBVIOUS
    <3>1. i \in DOMAIN q
      BY <2>2
    <3>2. CASE j \in DOMAIN q
      BY <1>2, <2>2, <3>1, <3>2 DEF Ordered
    <3>3. CASE j = Len(q) + 1
      BY <2>1, <2>2, <2>3, <3>1, <3>3
    <3> QED
      BY <2>2, <3>2, <3>3
  <2>8. Ordered(l)
    BY <2>5, <2>7 DEF Ordered
  <2> QED
    BY <1>1, <1>4, <2>2, <2>6, <2>8 DEF q, l
<1>5. CASE ~(p \in P /\ ses.pos[p] # 0)
  <2>1. l = q /\ Len(q) \in Nat
    BY <1>1, <1>3, <1>5
  <2> QED
    BY <1>2, <2>1 DEF Behind
<1> QED
  BY <1>4, <1>5

\* made' is made, with more trades of the session the process runs.
Grows ==
  /\ Len(made') = Len(made)
  /\ \A s \in 1 .. Len(made), p \in Policies :
       /\ Len(made'[s][p]) >= Len(made[s][p])
       /\ s # Cur => made'[s][p] = made[s][p]
       /\ \A k \in DOMAIN made[s][p] : made'[s][p][k] = made[s][p][k]

LEMMA SameGrows == ASSUME TP, made' = made PROVE Grows
<1>1. ASSUME NEW s \in 1 .. Len(made), NEW p \in Policies PROVE Len(made[s][p]) \in Nat
  <2>1. made[s] \in TradeLists
    BY DEF TP, Typed
  <2>2. made[s][p] \in Seq([entry : Nat, exit : Nat])
    BY <2>1 DEF TradeLists
  <2> QED
    BY <2>2
<1>2. \A s \in 1 .. Len(made), p \in Policies : Len(made[s][p]) >= Len(made[s][p])
  BY <1>1
<1> QED
  BY <1>2 DEF Grows

LEMMA LeftGrows ==
  ASSUME TP, BooksOrdered, proc # "none", NEW P, NEW t \in Nat, ses.at <= t, t <= MaxEvents,
         made' = [made EXCEPT ![Cur] = Left(P, t)]
  PROVE  /\ Grows /\ made'[Cur] = Left(P, t)
         /\ \A s \in 1 .. Len(made') : \A p \in Policies : Ordered(made'[s][p])
<1>1. /\ Cur \in 1 .. Len(made) /\ made'[Cur] = Left(P, t) /\ Len(made') = Len(made)
      /\ \A s \in 1 .. Len(made) : s # Cur => made'[s] = made[s]
  BY Running, LeftTyped, Replaced DEF TP, Typed
<1>2. \A s \in 1 .. Len(made) : \A p \in Policies : Len(made[s][p]) >= Len(made[s][p])
  BY SameGrows, <1>1 DEF Grows
<1>3. ASSUME NEW s \in 1 .. Len(made), NEW p \in Policies
      PROVE  /\ Len(made'[s][p]) >= Len(made[s][p])
             /\ s # Cur => made'[s][p] = made[s][p]
             /\ \A k \in DOMAIN made[s][p] : made'[s][p][k] = made[s][p][k]
             /\ Ordered(made'[s][p])
  <2>1. CASE s = Cur
    BY <1>1, <2>1, LeftOrdered
  <2>2. CASE s # Cur
    <3>0. Len(made[s][p]) \in Nat
      <4>1. made[s] \in TradeLists
        BY DEF TP, Typed
      <4>2. made[s][p] \in Seq([entry : Nat, exit : Nat])
        BY <4>1 DEF TradeLists
      <4> QED
        BY <4>2
    <3> QED
      BY <1>1, <2>2, <3>0 DEF BooksOrdered
  <2> QED
    BY <2>1, <2>2
<1> QED
  BY <1>1, <1>3 DEF Grows

LEMMA ClosesOrdered ==
  ASSUME TP, BooksOrdered, proc # "none", CloseBooks
  PROVE  /\ BooksOrdered' /\ Grows
         /\ made'[Cur] = Left(Policies, ses.at) /\ ses'.at = ses.at /\ ses'.pos = Each(0)
         /\ (\A p \in Policies : ses.pos[p] = 0) =>
              \A p \in Policies : made'[Cur][p] = made[Cur][p]
<1>1. /\ ses.at \in Nat /\ ses.at <= MaxEvents /\ Len(made) > 0 /\ Cur \in 1 .. Len(made)
      /\ ses.at <= ses.at
      /\ made' = [made EXCEPT ![Cur] = Left(Policies, ses.at)]
  BY Running DEF CloseBooks, TP, Placed
<1>2. Grows /\ made'[Cur] = Left(Policies, ses.at)
      /\ \A s \in 1 .. Len(made') : \A p \in Policies : Ordered(made'[s][p])
  BY <1>1, LeftGrows
<1>3. ses'.at = ses.at /\ ses'.pos = Each(0) /\ Cur' = Cur
  BY <1>1, <1>2, ClosedTyped DEF TP, Cur, Grows
<1>4. ASSUME NEW p \in Policies
      PROVE  ses'.pos[p] <= ses'.at /\ ses'.pos[p] = 0 /\ \A k \in DOMAIN made'[Cur][p] : made'[Cur][p][k].entry <= ses.at
  BY <1>1, <1>2, <1>3, LeftOrdered DEF Each
<1>5. BooksOrdered'
  BY <1>2, <1>3, <1>4 DEF BooksOrdered, Behind
<1>6. ASSUME \A p \in Policies : ses.pos[p] = 0, NEW p \in Policies
      PROVE  made'[Cur][p] = made[Cur][p]
  BY <1>1, <1>2, <1>6, LeftOrdered
<1> QED
  BY <1>2, <1>3, <1>5, <1>6

LEMMA FeedOrdered == ASSUME TP, BooksOrdered, Feed PROVE BooksOrdered' /\ Grows
<1>1. proc = "up" /\ proc' = "up" /\ Len(made) > 0
  BY DEF TP, Placed, Feed, Idle
<1> DEFINE t == ses.at + 1
<1>2. PICK e \in Events :
        /\ t \in 1 .. MaxEvents
        /\ made' = IF e.kind = "enter" THEN made ELSE [made EXCEPT ![Cur] = Left({e.policy}, t)]
        /\ ses' = [ses EXCEPT !.at = t, !.pos[e.policy] = IF e.kind = "leave" THEN 0 ELSE t]
  BY <1>1, Moved DEF TP
<1>3. /\ ses.at \in Nat /\ ses.pos \in [Policies -> Nat] /\ e.policy \in Policies
      /\ Cur \in 1 .. Len(made) /\ MaxEvents \in Nat
  BY <1>1, Running, RecordAssumption DEF RecordAssumption, Events
<1>4. t \in Nat /\ ses.at <= t /\ t <= MaxEvents /\ ses.at < t
  BY <1>2, <1>3
<1>5. /\ ses'.at = t
      /\ \A p \in Policies : ses'.pos[p] = IF p = e.policy THEN IF e.kind = "leave" THEN 0 ELSE t
                                           ELSE ses.pos[p]
  BY <1>2, <1>3 DEF TP, Typed, SessionTypes
<1> HIDE DEF t
<1>6. /\ Grows /\ \A s \in 1 .. Len(made') : \A p \in Policies : Ordered(made'[s][p])
  <2>1. CASE made' = made
    BY <2>1, SameGrows DEF BooksOrdered
  <2>2. CASE made' = [made EXCEPT ![Cur] = Left({e.policy}, t)]
    BY <1>1, <1>4, <2>2, LeftGrows
  <2> QED
    BY <1>2, <2>1, <2>2
<1>7. ASSUME NEW p \in Policies
      PROVE  /\ ses'.pos[p] <= t
             /\ \A k \in DOMAIN made'[Cur][p] : made'[Cur][p][k].entry <= ses.at
             /\ p # e.policy => made'[Cur][p] = made[Cur][p]
  <2>1. ses'.pos[p] <= t
    BY <1>1, <1>3, <1>4, <1>5 DEF BooksOrdered
  <2>2. CASE made' = made
    BY <1>1, <2>1, <2>2 DEF BooksOrdered, Behind
  <2>3. CASE made' = [made EXCEPT ![Cur] = Left({e.policy}, t)]
    <3>1. made'[Cur] = Left({e.policy}, t)
      BY <1>1, <1>4, <2>3, LeftGrows
    <3> QED
      BY <1>1, <1>4, <2>1, <3>1, LeftOrdered
  <2> QED
    BY <1>2, <2>2, <2>3
<1>8. ASSUME NEW p \in Policies PROVE Behind(made'[Cur][p], ses'.at, ses'.pos[p])
  <2>1. ASSUME NEW k \in DOMAIN made'[Cur][p] PROVE made'[Cur][p][k].entry <= ses'.at
    <3>1. Ordered(made'[Cur][p]) /\ made'[Cur][p][k].entry \in Nat
      BY <1>3, <1>6 DEF Grows, Ordered
    <3> QED
      BY <1>3, <1>4, <1>5, <1>7, <3>1
  <2>2. ASSUME NEW k \in DOMAIN made'[Cur][p], ses'.pos[p] # 0 PROVE made'[Cur][p][k].entry < ses'.pos[p]
    <3>1. Ordered(made'[Cur][p]) /\ made'[Cur][p][k].entry \in Nat
      BY <1>3, <1>6 DEF Grows, Ordered
    <3>2. CASE p = e.policy
      <4>1. ses'.pos[p] = t /\ made'[Cur][p][k].entry <= ses.at
        BY <1>5, <1>7, <2>2, <3>2
      <4> QED
        BY <1>3, <1>4, <3>1, <4>1
    <3>3. CASE p # e.policy
      BY <1>1, <1>5, <1>7, <2>2, <3>3 DEF BooksOrdered, Behind
    <3> QED
      BY <3>2, <3>3
  <2>3. Cur' = Cur
    BY <1>6 DEF Grows, Cur
  <2> QED
    BY <2>1, <2>2 DEF Behind
<1> QED
  BY <1>5, <1>6, <1>7, <1>8 DEF BooksOrdered, Grows, Cur

LEMMA StartOrdered == ASSUME TP, BooksOrdered, StartSession PROVE BooksOrdered'
<1>1. made' = Append(made, Each(<<>>)) /\ ses'.pos = Each(0) /\ ses'.at = From
  BY DEF StartSession, NewSession
<1>2. Each(<<>>) \in TradeLists
  BY DEF Each, TradeLists
<1>3. /\ Len(made') = Len(made) + 1 /\ Len(made) \in Nat /\ made'[Len(made) + 1] = Each(<<>>)
      /\ \A s \in 1 .. Len(made) : made'[s] = made[s]
  BY <1>1, <1>2, Appended DEF TP, Typed
<1>4. From \in Nat
  BY DEF TP, Typed, From
<1>5. ASSUME NEW p \in Policies
      PROVE  Each(<<>>)[p] = <<>> /\ Ordered(<<>>) /\ ses'.pos[p] = 0
  BY <1>1 DEF Each, Ordered
<1>6. \A p \in Policies : ses'.pos[p] <= ses'.at /\ Behind(made'[Cur'][p], ses'.at, ses'.pos[p])
  BY <1>1, <1>3, <1>4, <1>5 DEF Behind, Cur
<1>7. \A s \in 1 .. Len(made'), p \in Policies : Ordered(made'[s][p])
  <2> SUFFICES ASSUME NEW s \in 1 .. Len(made'), NEW p \in Policies PROVE Ordered(made'[s][p])
    OBVIOUS
  <2>1. CASE s \in 1 .. Len(made)
    BY <1>3, <2>1 DEF BooksOrdered
  <2>2. CASE s = Len(made) + 1
    BY <1>3, <1>5, <2>2
  <2> QED
    BY <1>3, <2>1, <2>2
<1> QED
  BY <1>6, <1>7 DEF BooksOrdered

-----------------------------------------------------------------------------
(* The rows.                                                               *)

LEMMA MadeTyped ==
  ASSUME TP, NEW s \in 1 .. Len(made), NEW p \in Policies
  PROVE  made[s][p] \in Seq([entry : Nat, exit : Nat]) /\ Len(made[s][p]) \in Nat
<1>1. made[s] \in TradeLists
  BY DEF TP, Typed
<1>2. made[s][p] \in Seq([entry : Nat, exit : Nat])
  BY <1>1 DEF TradeLists
<1> QED
  BY <1>2

LEMMA RowTyped ==
  ASSUME NEW row \in RowTypes, NEW p \in Policies
  PROVE  /\ row.trades[p] \in Seq(Nat) /\ Len(row.trades[p]) \in Nat
         /\ DOMAIN row.trades[p] = 1 .. Len(row.trades[p])
         /\ \A k \in DOMAIN row.trades[p] : row.trades[p][k] \in Nat
         /\ row.summary[p] \in Int /\ row.open \in Nat /\ row.status \in Statuses
<1>1. /\ row.trades \in [Policies -> Seq(Nat)] /\ row.summary \in [Policies -> Int] /\ row.open \in Nat
      /\ row.status \in Statuses
  BY DEF RowTypes
<1>2. row.trades[p] \in Seq(Nat)
  BY <1>1
<1>3. row.summary[p] \in Int
  BY <1>1
<1> QED
  BY <1>1, <1>2, <1>3

LEMMA RowGrows ==
  ASSUME TP, TP', Grows, NEW s \in 1 .. Len(made), NEW row \in RowTypes, RowOf(row, made[s])
  PROVE  RowOf(row, made'[s])
<1>1. ASSUME NEW p \in Policies
      PROVE  /\ Len(made[s][p]) \in Nat /\ Len(made'[s][p]) \in Nat
             /\ Len(made'[s][p]) >= Len(made[s][p])
  <2>1. s \in 1 .. Len(made')
    BY DEF Grows
  <2>2. Len(made'[s][p]) \in Nat
    <3>1. made'[s] \in TradeLists
      BY <2>1 DEF TP, Typed
    <3>2. made'[s][p] \in Seq([entry : Nat, exit : Nat])
      BY <3>1 DEF TradeLists
    <3> QED
      BY <3>2
  <2> QED
    BY <2>2, MadeTyped DEF Grows
<1>2. ASSUME NEW p \in Policies
      PROVE  /\ Increasing(row.trades[p])
             /\ \A k \in DOMAIN row.trades[p] : row.trades[p][k] \in 1 .. Len(made'[s][p])
             /\ row.summary[p] \in NoSummary .. Len(made'[s][p])
  <2>1. /\ Increasing(row.trades[p]) /\ row.summary[p] \in NoSummary .. Len(made[s][p])
        /\ \A k \in DOMAIN row.trades[p] : row.trades[p][k] \in 1 .. Len(made[s][p])
    BY DEF RowOf
  <2>2. row.summary[p] \in NoSummary .. Len(made'[s][p])
    BY <1>1, <2>1 DEF NoSummary
  <2>3. ASSUME NEW k \in DOMAIN row.trades[p] PROVE row.trades[p][k] \in 1 .. Len(made'[s][p])
    BY <1>1, <2>1
  <2> QED
    BY <2>1, <2>2, <2>3
<1> QED
  BY <1>2 DEF RowOf

LEMMA FreshRow ==
  ASSUME NEW trades, \A p \in Policies : Len(trades[p]) \in Nat
  PROVE  NoRows \in RowTypes /\ RowOf(NoRows, trades)
<1>1. NoRows \in RowTypes
  BY DEF NoRows, RowTypes, Statuses, Each, NoSummary
<1>2. NoRows.open = 0 /\ \A p \in Policies : NoRows.trades[p] = <<>> /\ NoRows.summary[p] = NoSummary
  BY DEF NoRows, Each
<1>3. \A p \in Policies : NoSummary \in NoSummary .. Len(trades[p])
  BY DEF NoSummary
<1>4. Increasing(<<>>)
  BY DEF Increasing
<1> QED
  BY <1>1, <1>2, <1>3, <1>4, RecordAssumption DEF RowOf, RecordAssumption

\* The books change and the rows do not.
LEMMA RowsStay ==
  ASSUME TP, TP', RowsOrdered, Grows, UNCHANGED <<db, view, queue>>, ses'.sent = ses.sent,
         proc # "none" \/ proc' = "none"
  PROVE  RowsOrdered'
<1>1. /\ \A s \in 1 .. Len(db) : db[s] \in RowTypes
      /\ Len(db) = Len(made) /\ view \in RowTypes /\ Cur' = Cur
  BY DEF TP, Typed, Grows, Cur
<1>2. \A s \in 1 .. Len(db') : RowOf(db'[s], made'[s])
  BY <1>1, RowGrows DEF RowsOrdered
<1>3. ASSUME proc' # "none"
      PROVE  /\ RowOf(view', made'[Cur]) /\ QueueBehind'
             /\ \A p \in Policies :
                  /\ ses'.sent[p] <= Len(made'[Cur][p])
                  /\ \A k \in DOMAIN view'.trades[p] : view'.trades[p][k] <= ses'.sent[p]
  <2>1. Cur \in 1 .. Len(made) /\ proc # "none" /\ Cur \in 1 .. Len(made')
    BY <1>3, Running DEF Grows
  <2>2. RowOf(view', made'[Cur])
    BY <1>1, <2>1, RowGrows DEF RowsOrdered
  <2>3. ASSUME NEW p \in Policies
        PROVE  /\ Len(made[Cur][p]) \in Nat /\ Len(made'[Cur][p]) \in Nat
               /\ Len(made'[Cur][p]) >= Len(made[Cur][p]) /\ ses.sent[p] \in Nat
    <3>1. made'[Cur] \in TradeLists
      BY <2>1 DEF TP, Typed
    <3>2. made'[Cur][p] \in Seq([entry : Nat, exit : Nat])
      BY <3>1 DEF TradeLists
    <3>3. ses.sent[p] \in Nat
      BY <2>1, Running
    <3> QED
      BY <2>1, <3>2, <3>3, MadeTyped DEF Grows
  <2>4. \A p \in Policies :
                  /\ ses'.sent[p] <= Len(made'[Cur][p])
                  /\ \A k \in DOMAIN view'.trades[p] : view'.trades[p][k] <= ses'.sent[p]
    BY <2>1, <2>3 DEF RowsOrdered
  <2>5. QueueBehind'
    <3> SUFFICES ASSUME NEW i \in DOMAIN queue
                 PROVE /\ queue[i].op = "trade" =>
                            /\ queue[i].trade \in 1 .. ses.sent[queue[i].policy]
                            /\ \A k \in DOMAIN view.trades[queue[i].policy] :
                                 view.trades[queue[i].policy][k] < queue[i].trade
                            /\ \A j \in DOMAIN queue :
                                 i < j /\ queue[j].op = "trade" /\ queue[j].policy = queue[i].policy
                                   => queue[i].trade < queue[j].trade
                       /\ queue[i].op = "open" => queue[i].entry <= MaxEvents
                       /\ queue[i].op = "summary" => queue[i].trades <= Len(made'[Cur][queue[i].policy])
      BY <1>1 DEF QueueBehind
    <3>1. queue[i] \in Statements
      BY DEF TP, Typed
    <3>2. QueueBehind
      BY <2>1 DEF RowsOrdered
    <3>3. ASSUME queue[i].op = "summary" PROVE queue[i].trades <= Len(made'[Cur][queue[i].policy])
      <4>1. queue[i].policy \in Policies /\ queue[i].trades \in Nat
        BY <3>1, <3>3 DEF Statements
      <4>2. queue[i].trades <= Len(made[Cur][queue[i].policy])
        BY <3>2, <3>3 DEF QueueBehind
      <4> QED
        BY <2>3, <4>1, <4>2
    <3> QED
      BY <3>2, <3>3 DEF QueueBehind
  <2> QED
    BY <2>2, <2>4, <2>5
<1> QED
  BY <1>1, <1>2, <1>3 DEF RowsOrdered

LEMMA StartRows == ASSUME TP, TP', RowsOrdered, StartSession PROVE RowsOrdered'
<1>1. /\ made' = Append(made, Each(<<>>)) /\ db' = Append(db, NoRows) /\ view' = NoRows /\ queue' = <<>>
      /\ ses'.sent = Each(0) /\ Len(db) = Len(made)
  BY DEF StartSession, NewSession, TP, Typed
<1>2. Each(<<>>) \in TradeLists /\ \A p \in Policies : Each(<<>>)[p] = <<>> /\ Each(0)[p] = 0
  BY DEF Each, TradeLists
<1>3. NoRows \in RowTypes /\ RowOf(NoRows, Each(<<>>))
  BY <1>2, FreshRow
<1>4. /\ Len(made') = Len(made) + 1 /\ Len(made) \in Nat /\ made'[Len(made) + 1] = Each(<<>>)
      /\ \A s \in 1 .. Len(made) : made'[s] = made[s]
  BY <1>1, <1>2, Appended DEF TP, Typed
<1>5. /\ Len(db') = Len(db) + 1 /\ db'[Len(db) + 1] = NoRows
      /\ \A s \in 1 .. Len(db) : db'[s] = db[s]
  BY <1>1, <1>3, Appended DEF TP, Typed
<1>6. ASSUME NEW s \in 1 .. Len(db') PROVE RowOf(db'[s], made'[s])
  <2>1. CASE s \in 1 .. Len(db)
    BY <1>1, <1>4, <1>5, <2>1 DEF RowsOrdered
  <2>2. CASE s = Len(db) + 1
    BY <1>1, <1>3, <1>4, <1>5, <2>2
  <2> QED
    BY <1>1, <1>4, <1>5, <2>1, <2>2
<1>7. Cur' = Len(made) + 1
  BY <1>4 DEF Cur
<1>8. QueueBehind'
  BY <1>1 DEF QueueBehind
<1>9. ASSUME NEW p \in Policies
      PROVE  /\ ses'.sent[p] <= Len(made'[Cur'][p])
             /\ \A k \in DOMAIN view'.trades[p] : view'.trades[p][k] <= ses'.sent[p]
  <2>1. NoRows.trades[p] = <<>>
    BY DEF NoRows, Each
  <2> QED
    BY <1>1, <1>2, <1>4, <1>7, <2>1
<1> QED
  BY <1>1, <1>3, <1>4, <1>6, <1>7, <1>8, <1>9 DEF RowsOrdered

\* A statement is put, of a trade that is the next to be sent.
LEMMA QueuedRows ==
  ASSUME TP, TP', RowsOrdered, proc # "none", NEW row \in Statements, Queued(row),
         \A p \in Policies : ses.sent[p] <= ses'.sent[p] /\ ses'.sent[p] <= Len(made[Cur][p]),
         row.op = "trade" => row.trade \in ses.sent[row.policy] + 1 .. ses'.sent[row.policy],
         row.op = "open" => row.entry <= MaxEvents,
         row.op = "summary" => row.trades <= Len(made[Cur][row.policy])
  PROVE  RowsOrdered'
<1>1. /\ queue' = Append(queue, row) /\ UNCHANGED <<source, day, over, made, proc, writer, view, db, cut>>
      /\ Cur' = Cur
  BY DEF Queued, Cur
<1>2. /\ DOMAIN queue' = 1 .. Len(queue) + 1 /\ DOMAIN queue = 1 .. Len(queue) /\ Len(queue) \in Nat
      /\ queue'[Len(queue) + 1] = row /\ \A i \in DOMAIN queue : queue'[i] = queue[i]
      /\ \A i \in DOMAIN queue : queue[i] \in Statements
  BY <1>1, Appended DEF TP, Typed
<1>3. ASSUME NEW p \in Policies PROVE ses.sent[p] \in Nat /\ ses'.sent[p] \in Nat
  <2>1. ses'.sent \in [Policies -> Nat]
    BY DEF TP, Typed, SessionTypes
  <2> QED
    BY <2>1, Running
<1>4. view \in RowTypes
  BY DEF TP, Typed
<1>5. ASSUME NEW p \in Policies, NEW k \in DOMAIN view.trades[p]
      PROVE  view.trades[p][k] \in Nat /\ view.trades[p][k] <= ses.sent[p] /\ view.trades[p][k] <= ses'.sent[p]
  <2>1. view.trades[p][k] \in Nat
    BY <1>4, RowTyped
  <2> QED
    BY <1>3, <2>1 DEF RowsOrdered
<1>6. QueueBehind
  BY DEF RowsOrdered
<1>7. ASSUME NEW i \in DOMAIN queue, queue[i].op = "trade"
      PROVE  /\ queue[i].policy \in Policies /\ queue[i].trade \in Nat
             /\ queue[i].trade \in 1 .. ses.sent[queue[i].policy]
             /\ queue[i].trade \in 1 .. ses'.sent[queue[i].policy]
  <2>1. queue[i].policy \in Policies /\ queue[i].trade \in Nat
    BY <1>2, <1>7 DEF Statements
  <2>2. queue[i].trade \in 1 .. ses.sent[queue[i].policy]
    BY <1>6, <1>7 DEF QueueBehind
  <2> QED
    BY <1>3, <2>1, <2>2
<1>8. ASSUME row.op = "trade"
      PROVE  /\ row.policy \in Policies /\ row.trade \in Nat
             /\ row.trade \in 1 .. ses'.sent[row.policy] /\ row.trade > ses.sent[row.policy]
  <2>1. row.policy \in Policies /\ row.trade \in Nat
    BY <1>8 DEF Statements
  <2> QED
    BY <1>3, <1>8, <2>1
<1>9. ASSUME NEW i \in DOMAIN queue', queue'[i].op = "trade"
      PROVE  /\ queue'[i].trade \in 1 .. ses'.sent[queue'[i].policy]
             /\ \A k \in DOMAIN view'.trades[queue'[i].policy] :
                  view'.trades[queue'[i].policy][k] < queue'[i].trade
             /\ \A j \in DOMAIN queue' :
                  i < j /\ queue'[j].op = "trade" /\ queue'[j].policy = queue'[i].policy
                    => queue'[i].trade < queue'[j].trade
  <2>1. CASE i \in DOMAIN queue
    <3>1. queue'[i] = queue[i] /\ queue[i].op = "trade"
      BY <1>2, <1>9, <2>1
    <3>2. \A k \in DOMAIN view.trades[queue[i].policy] : view.trades[queue[i].policy][k] < queue[i].trade
      BY <1>6, <2>1, <3>1 DEF QueueBehind
    <3>3. ASSUME NEW j \in DOMAIN queue', i < j, queue'[j].op = "trade", queue'[j].policy = queue'[i].policy
          PROVE  queue'[i].trade < queue'[j].trade
      <4>1. CASE j \in DOMAIN queue
        BY <1>2, <1>6, <2>1, <3>1, <3>3, <4>1 DEF QueueBehind
      <4>2. CASE j = Len(queue) + 1
        <5>1. row.op = "trade" /\ row.policy = queue[i].policy /\ queue'[j] = row
          BY <1>2, <3>1, <3>3, <4>2
        <5> QED
          BY <1>3, <1>7, <1>8, <2>1, <3>1, <5>1
      <4> QED
        BY <1>2, <4>1, <4>2
    <3> QED
      BY <1>1, <1>7, <2>1, <3>1, <3>2, <3>3
  <2>2. CASE i = Len(queue) + 1
    <3>1. queue'[i] = row /\ row.op = "trade"
      BY <1>2, <1>9, <2>2
    <3>2. ASSUME NEW k \in DOMAIN view.trades[row.policy] PROVE view.trades[row.policy][k] < row.trade
      BY <1>3, <1>5, <1>8, <3>1
    <3>3. \A j \in DOMAIN queue' : ~(i < j)
      BY <1>2, <2>2
    <3> QED
      BY <1>1, <1>8, <3>1, <3>2, <3>3
  <2> QED
    BY <1>2, <2>1, <2>2
<1>10. ASSUME NEW i \in DOMAIN queue'
       PROVE  /\ queue'[i].op = "open" => queue'[i].entry <= MaxEvents
              /\ queue'[i].op = "summary" => queue'[i].trades <= Len(made'[Cur'][queue'[i].policy])
  <2>1. CASE i \in DOMAIN queue
    BY <1>1, <1>2, <1>6, <2>1 DEF QueueBehind
  <2>2. CASE i = Len(queue) + 1
    BY <1>1, <1>2, <2>2
  <2> QED
    BY <1>2, <2>1, <2>2
<1>11. QueueBehind'
  BY <1>9, <1>10 DEF QueueBehind
<1> QED
  BY <1>1, <1>5, <1>11 DEF RowsOrdered

LEMMA PutRows == ASSUME TP, TP', BooksOrdered, RowsOrdered, Put PROVE RowsOrdered'
<1>1. proc # "none"
  <2>1. Nothing.step = "nothing"
    BY TodoTyped DEF Nothing
  <2> QED
    BY <2>1 DEF TP, Placed, Put, PutStart, PutTrade, PutOpen, PutSummary, PutFinal, PutStop, Settled
<1>2. ASSUME NEW p \in Policies
      PROVE  ses.sent[p] \in Nat /\ ses.sent[p] <= Len(made[Cur][p]) /\ Len(made[Cur][p]) \in Nat
             /\ ses.sent[p] <= ses.sent[p]
  BY <1>1, Running DEF RowsOrdered
<1>3. CASE PutStart \/ PutStop \/ PutFinal
  <2>1. PICK row \in Statements : Queued(row) /\ row.op \in {"start", "stop", "final"} /\ ses' = ses
    <3>1. CASE PutStart
      BY <3>1, StatementsTyped DEF PutStart, StartRow
    <3>2. CASE PutStop
      BY <3>2, StatementsTyped DEF PutStop, StopWriter
    <3>3. CASE PutFinal
      <4>1. todo.status \in Ended
        BY <3>3 DEF PutFinal, TP, Placed
      <4> QED
        BY <3>3, <4>1, StatementsTyped DEF PutFinal, FinalRow
    <3> QED
      BY <1>3, <3>1, <3>2, <3>3
  <2> QED
    BY <1>1, <1>2, <2>1, QueuedRows
<1>4. CASE PutTrade
  <2>1. PICK p \in Policies : /\ ses.sent[p] < Len(made[Cur][p]) /\ Queued(TradeRow(p, NextTrade(p)))
                              /\ ses' = [ses EXCEPT !.sent[p] = @ + 1]
    BY <1>4 DEF PutTrade
  <2>2. ses.sent \in [Policies -> Nat] /\ NextTrade(p) = ses.sent[p] + 1 /\ NextTrade(p) \in Nat
    BY <1>1, Running DEF NextTrade
  <2>3. ses'.sent = [ses.sent EXCEPT ![p] = @ + 1]
    BY <2>1 DEF TP, Typed, SessionTypes
  <2>4. /\ ses'.sent[p] = ses.sent[p] + 1
        /\ \A q \in Policies : ses.sent[q] <= ses'.sent[q] /\ ses'.sent[q] <= Len(made[Cur][q])
    BY <1>2, <2>1, <2>2, <2>3
  <2> DEFINE row == TradeRow(p, NextTrade(p))
  <2>5. row \in Statements /\ row.op = "trade" /\ row.policy = p /\ row.trade = NextTrade(p)
    BY <2>2, StatementsTyped DEF TradeRow
  <2>6. Queued(row)
    BY <2>1
  <2> HIDE DEF row
  <2>7. row.trade \in ses.sent[row.policy] + 1 .. ses'.sent[row.policy]
    BY <2>2, <2>4, <2>5
  <2> QED
    BY <1>1, <2>4, <2>5, <2>6, <2>7, QueuedRows
<1>5. CASE PutOpen
  <2>1. Queued(OpenRow(ses.pos[Jev])) /\ ses' = [ses EXCEPT !.shown = ses.pos[Jev]]
    BY <1>5 DEF PutOpen
  <2>2. ses'.sent = ses.sent
    BY <2>1 DEF TP, Typed, SessionTypes
  <2>3. ses.pos[Jev] \in Nat /\ ses.pos[Jev] <= MaxEvents
    BY <1>1, Running, RecordAssumption DEF RecordAssumption, BooksOrdered
  <2> DEFINE row == OpenRow(ses.pos[Jev])
  <2>4. row \in Statements /\ row.op = "open" /\ row.entry = ses.pos[Jev] /\ Queued(row)
    BY <2>1, <2>3, StatementsTyped DEF OpenRow
  <2> HIDE DEF row
  <2> QED
    BY <1>1, <1>2, <2>2, <2>3, <2>4, QueuedRows
<1>6. CASE PutSummary
  <2>1. PICK p \in todo.left : Queued(SummaryRow(p, Len(made[Cur][p]))) /\ ses' = ses
    BY <1>6 DEF PutSummary
  <2>2. p \in Policies
    BY <2>1 DEF TP, Typed, Todos
  <2> DEFINE row == SummaryRow(p, Len(made[Cur][p]))
  <2>3. /\ row \in Statements /\ row.op = "summary" /\ row.policy = p /\ row.trades = Len(made[Cur][p])
        /\ Queued(row)
    BY <1>2, <2>1, <2>2, StatementsTyped DEF SummaryRow
  <2> HIDE DEF row
  <2> QED
    BY <1>1, <1>2, <2>1, <2>2, <2>3, QueuedRows
<1> QED
  BY <1>3, <1>4, <1>5, <1>6 DEF Put

-----------------------------------------------------------------------------
(* Executing a statement.                                                  *)

\* What a statement changes in the rows.
LEMMA AppliedTrade ==
  ASSUME NEW row \in RowTypes, NEW st \in Statements, st.op = "trade"
  PROVE  /\ st.policy \in Policies /\ st.trade \in Nat
         /\ Apply(row, st).trades = [row.trades EXCEPT ![st.policy] = Append(row.trades[st.policy], st.trade)]
         /\ Apply(row, st).open = row.open /\ Apply(row, st).summary = row.summary
         /\ Apply(row, st).status = row.status
<1>1. st.policy \in Policies /\ st.trade \in Nat
  BY DEF Statements
<1>2. Apply(row, st) = [row EXCEPT !.trades[st.policy] = Append(row.trades[st.policy], st.trade)]
  BY DEF Apply
<1> QED
  BY <1>1, <1>2 DEF RowTypes

LEMMA AppliedOpen ==
  ASSUME NEW row \in RowTypes, NEW st \in Statements, st.op = "open"
  PROVE  /\ st.entry \in Nat /\ Apply(row, st).open = st.entry
         /\ Apply(row, st).trades = row.trades /\ Apply(row, st).summary = row.summary
         /\ Apply(row, st).status = row.status
<1>1. st.entry \in Nat /\ Apply(row, st) = [row EXCEPT !.open = st.entry]
  BY DEF Statements, Apply
<1> QED
  BY <1>1 DEF RowTypes

LEMMA AppliedSummary ==
  ASSUME NEW row \in RowTypes, NEW st \in Statements, st.op = "summary"
  PROVE  /\ st.policy \in Policies /\ st.trades \in Nat
         /\ Apply(row, st).summary = [row.summary EXCEPT ![st.policy] = st.trades]
         /\ Apply(row, st).trades = row.trades /\ Apply(row, st).open = row.open
         /\ Apply(row, st).status = row.status
<1>1. /\ st.policy \in Policies /\ st.trades \in Nat
      /\ Apply(row, st) = [row EXCEPT !.summary[st.policy] = st.trades]
  BY DEF Statements, Apply
<1> QED
  BY <1>1 DEF RowTypes

LEMMA AppliedStatus ==
  ASSUME NEW row \in RowTypes, NEW st \in Statements, st.op \in {"start", "stop", "final"}
  PROVE  /\ Apply(row, st).trades = row.trades /\ Apply(row, st).open = row.open
         /\ Apply(row, st).summary = row.summary
         /\ st.op = "start" => Apply(row, st).status = "running"
         /\ st.op = "stop" => Apply(row, st).status = row.status
         /\ st.op = "final" => st.status \in Ended
         /\ st.op = "final" /\ row.status # "none" => Apply(row, st).status = st.status
         /\ st.op = "final" /\ row.status = "none" => Apply(row, st).status = "none"
<1>1. CASE st.op = "start"
  <2>1. Apply(row, st) = [row EXCEPT !.status = "running"]
    BY <1>1 DEF Apply
  <2> QED
    BY <1>1, <2>1 DEF RowTypes
<1>2. CASE st.op = "stop"
  BY <1>2 DEF Apply
<1>3. CASE st.op = "final"
  <2>1. st.status \in Ended
    BY <1>3 DEF Statements
  <2>2. CASE row.status = "none"
    BY <1>3, <2>1, <2>2 DEF Apply
  <2>3. CASE row.status # "none"
    <3>1. Apply(row, st) = [row EXCEPT !.status = st.status]
      BY <1>3, <2>3 DEF Apply
    <3> QED
      BY <1>3, <2>1, <2>3, <3>1 DEF RowTypes
  <2> QED
    BY <2>2, <2>3
<1> QED
  BY <1>1, <1>2, <1>3

\* What a step of the writer changes in its rows.
LEMMA Executed ==
  ASSUME TP, Execute
  PROVE  /\ proc # "none" /\ queue # <<>> /\ queue' = Tail(queue) /\ queue[1] \in Statements
         /\ UNCHANGED <<source, day, over, made, ses, proc, todo, db, cut, slips>> /\ view' \in RowTypes
         /\ \A p \in Policies :
              \/ view'.trades[p] = view.trades[p]
              \/ /\ queue[1].op = "trade" /\ queue[1].policy = p
                 /\ view'.trades[p] = Append(view.trades[p], queue[1].trade)
         /\ view'.open = view.open \/ (queue[1].op = "open" /\ view'.open = queue[1].entry)
         /\ \A p \in Policies :
              \/ view'.summary[p] = view.summary[p]
              \/ /\ queue[1].op = "summary" /\ queue[1].policy = p
                 /\ view'.summary[p] = queue[1].trades
<1>1. /\ queue # <<>> /\ queue' = Tail(queue) /\ proc # "none" /\ Head(queue) = queue[1]
      /\ UNCHANGED <<source, day, over, made, ses, proc, todo, db, cut, slips>>
      /\ view' = view \/ view' = Apply(view, queue[1])
  <2>1. queue \in Seq(Statements)
    BY DEF TP, Typed
  <2> QED
    BY <2>1, Behead DEF Execute, TP, Placed
<1>2. queue[1] \in Statements
  BY <1>1, Behead DEF TP, Typed
<1>3. view \in RowTypes /\ Apply(view, queue[1]) \in RowTypes
  BY <1>2, ApplyTyped DEF TP, Typed
<1>4. CASE view' = view
  BY <1>1, <1>2, <1>3, <1>4
<1>5. CASE view' = Apply(view, queue[1])
  <2>1. view.trades \in [Policies -> Seq(Nat)] /\ view.summary \in [Policies -> Int]
    BY <1>3 DEF RowTypes
  <2>2. CASE queue[1].op = "trade"
    <3>1. /\ view'.trades = [view.trades EXCEPT ![queue[1].policy] = Append(view.trades[queue[1].policy], queue[1].trade)]
          /\ view'.open = view.open /\ view'.summary = view.summary
      BY <1>2, <1>3, <1>5, <2>2, AppliedTrade
    <3> QED
      BY <1>1, <1>2, <1>3, <1>5, <2>1, <2>2, <3>1
  <2>3. CASE queue[1].op = "open"
    BY <1>1, <1>2, <1>3, <1>5, <2>3, AppliedOpen
  <2>4. CASE queue[1].op = "summary"
    <3>1. /\ view'.summary = [view.summary EXCEPT ![queue[1].policy] = queue[1].trades]
          /\ view'.open = view.open /\ view'.trades = view.trades
      BY <1>2, <1>3, <1>5, <2>4, AppliedSummary
    <3> QED
      BY <1>1, <1>2, <1>3, <1>5, <2>1, <2>4, <3>1
  <2>5. CASE queue[1].op \in {"start", "stop", "final"}
    BY <1>1, <1>2, <1>3, <1>5, <2>5, AppliedStatus
  <2> QED
    BY <1>2, <2>2, <2>3, <2>4, <2>5 DEF Statements
<1> QED
  BY <1>1, <1>4, <1>5

LEMMA ExecuteRows == ASSUME TP, TP', RowsOrdered, Execute PROVE RowsOrdered'
<1> DEFINE st == queue[1]
<1>1. /\ proc # "none" /\ queue # <<>> /\ queue' = Tail(queue) /\ st \in Statements
      /\ UNCHANGED <<made, ses, proc, db>> /\ view' \in RowTypes /\ view \in RowTypes /\ Cur' = Cur
  BY Executed DEF TP, Typed, Cur
<1>2. /\ RowOf(view, made[Cur]) /\ QueueBehind
      /\ \A p \in Policies :
            /\ ses.sent[p] <= Len(made[Cur][p])
            /\ \A k \in DOMAIN view.trades[p] : view.trades[p][k] <= ses.sent[p]
      /\ \A p \in Policies : ses.sent[p] \in Nat /\ Len(made[Cur][p]) \in Nat
  BY <1>1, Running DEF RowsOrdered
<1>3. /\ 1 \in DOMAIN queue /\ \A i \in DOMAIN queue : queue[i] \in Statements
      /\ \A i \in DOMAIN queue' : i + 1 \in DOMAIN queue /\ queue'[i] = queue[i + 1] /\ 1 < i + 1 /\ i \in Nat
  BY <1>1, Behead DEF TP, Typed
<1>4. ASSUME NEW p \in Policies
      PROVE  /\ Increasing(view'.trades[p])
             /\ \A k \in DOMAIN view'.trades[p] :
                  /\ view'.trades[p][k] \in 1 .. ses.sent[p]
                  /\ \A i \in DOMAIN queue' : queue'[i].op = "trade" /\ queue'[i].policy = p =>
                       view'.trades[p][k] < queue'[i].trade
  <2>1. /\ view.trades[p] \in Seq(Nat) /\ DOMAIN view.trades[p] = 1 .. Len(view.trades[p])
        /\ \A k \in DOMAIN view.trades[p] : view.trades[p][k] \in 1 .. ses.sent[p]
        /\ Increasing(view.trades[p])
    <3>1. /\ view.trades[p] \in Seq(Nat) /\ DOMAIN view.trades[p] = 1 .. Len(view.trades[p])
          /\ \A k \in DOMAIN view.trades[p] : view.trades[p][k] \in Nat
      BY <1>1, RowTyped
    <3>2. /\ Increasing(view.trades[p])
          /\ \A k \in DOMAIN view.trades[p] : view.trades[p][k] \in 1 .. Len(made[Cur][p])
      BY <1>2 DEF RowOf
    <3> QED
      BY <1>2, <3>1, <3>2
  <2>2. CASE view'.trades[p] = view.trades[p]
    <3>1. ASSUME NEW k \in DOMAIN view.trades[p], NEW i \in DOMAIN queue', queue'[i].op = "trade",
                 queue'[i].policy = p
          PROVE  view.trades[p][k] < queue'[i].trade
      BY <1>2, <1>3, <3>1 DEF QueueBehind
    <3> QED
      BY <2>1, <2>2, <3>1
  <2>3. CASE st.op = "trade" /\ st.policy = p /\ view'.trades[p] = Append(view.trades[p], st.trade)
    <3> DEFINE ns == view.trades[p]  n == st.trade
    <3>1. n \in 1 .. ses.sent[p] /\ n \in Nat /\ \A k \in DOMAIN ns : ns[k] < n
      <4>1. /\ queue[1].trade \in 1 .. ses.sent[queue[1].policy]
            /\ \A k \in DOMAIN view.trades[queue[1].policy] : view.trades[queue[1].policy][k] < queue[1].trade
        BY <1>2, <1>3, <2>3 DEF QueueBehind
      <4> QED
        BY <1>2, <2>3, <4>1
    <3>2. /\ DOMAIN view'.trades[p] = 1 .. Len(ns) + 1 /\ Len(ns) \in Nat
          /\ \A k \in DOMAIN ns : view'.trades[p][k] = ns[k]
          /\ view'.trades[p][Len(ns) + 1] = n
      BY <2>1, <2>3, <3>1, Appended
    <3>3. ASSUME NEW i \in DOMAIN queue', queue'[i].op = "trade", queue'[i].policy = p
          PROVE  n < queue'[i].trade /\ \A k \in DOMAIN ns : ns[k] < queue'[i].trade
      BY <1>2, <1>3, <2>3, <3>3 DEF QueueBehind
    <3> HIDE DEF ns, n
    <3>4. Increasing(view'.trades[p])
      <4> SUFFICES ASSUME NEW i \in DOMAIN view'.trades[p], NEW j \in DOMAIN view'.trades[p], i < j
                   PROVE  view'.trades[p][i] < view'.trades[p][j]
        BY DEF Increasing
      <4>1. i \in DOMAIN ns
        BY <2>1, <3>2 DEF ns
      <4>2. CASE j \in DOMAIN ns
        BY <2>1, <3>2, <4>1, <4>2 DEF Increasing, ns
      <4>3. CASE j = Len(ns) + 1
        BY <3>1, <3>2, <4>1, <4>3
      <4>4. j \in DOMAIN ns \/ j = Len(ns) + 1
        BY <2>1, <3>2 DEF ns
      <4> QED
        BY <4>2, <4>3, <4>4
    <3>5. ASSUME NEW k \in DOMAIN view'.trades[p]
          PROVE  /\ view'.trades[p][k] \in 1 .. ses.sent[p]
                 /\ \A i \in DOMAIN queue' : queue'[i].op = "trade" /\ queue'[i].policy = p =>
                       view'.trades[p][k] < queue'[i].trade
      <4>1. CASE k \in DOMAIN ns
        <5>1. ns[k] \in 1 .. ses.sent[p]
          BY <2>1, <4>1 DEF ns
        <5> QED
          BY <3>2, <3>3, <4>1, <5>1
      <4>2. CASE k = Len(ns) + 1
        BY <3>1, <3>2, <3>3, <4>2
      <4> QED
        BY <2>1, <3>2, <4>1, <4>2 DEF ns
    <3> QED
      BY <3>4, <3>5
  <2>4. \/ view'.trades[p] = view.trades[p]
        \/ st.op = "trade" /\ st.policy = p /\ view'.trades[p] = Append(view.trades[p], st.trade)
    BY Executed
  <2> QED
    BY <2>2, <2>3, <2>4
<1>5. view'.open <= MaxEvents
  BY <1>2, <1>3, Executed DEF RowOf, QueueBehind
<1>6. ASSUME NEW p \in Policies PROVE view'.summary[p] \in NoSummary .. Len(made[Cur][p])
  <2>1. CASE view'.summary[p] = view.summary[p]
    BY <1>2, <2>1 DEF RowOf
  <2>2. CASE st.op = "summary" /\ st.policy = p /\ view'.summary[p] = st.trades
    <3>1. st.trades \in Nat /\ st.trades <= Len(made[Cur][p])
      BY <1>1, <1>2, <1>3, <2>2 DEF QueueBehind, Statements
    <3> QED
      BY <1>2, <2>2, <3>1 DEF NoSummary
  <2> QED
    BY <2>1, <2>2, Executed
<1>7. RowOf(view', made[Cur])
  <2>1. ASSUME NEW p \in Policies, NEW k \in DOMAIN view'.trades[p]
        PROVE  view'.trades[p][k] \in 1 .. Len(made[Cur][p])
    BY <1>2, <1>4
  <2> QED
    BY <1>4, <1>5, <1>6, <2>1 DEF RowOf
<1>8. QueueBehind'
  <2> SUFFICES ASSUME NEW i \in DOMAIN queue'
        PROVE  /\ queue'[i].op = "trade" =>
                    /\ queue'[i].trade \in 1 .. ses'.sent[queue'[i].policy]
                    /\ \A k \in DOMAIN view'.trades[queue'[i].policy] :
                         view'.trades[queue'[i].policy][k] < queue'[i].trade
                    /\ \A j \in DOMAIN queue' :
                         i < j /\ queue'[j].op = "trade" /\ queue'[j].policy = queue'[i].policy
                           => queue'[i].trade < queue'[j].trade
               /\ queue'[i].op = "open" => queue'[i].entry <= MaxEvents
               /\ queue'[i].op = "summary" => queue'[i].trades <= Len(made'[Cur'][queue'[i].policy])
    BY DEF QueueBehind
  <2>1. i + 1 \in DOMAIN queue /\ queue'[i] = queue[i + 1]
    BY <1>3
  <2>2. ASSUME queue'[i].op = "trade"
        PROVE  /\ queue'[i].trade \in 1 .. ses'.sent[queue'[i].policy]
               /\ \A k \in DOMAIN view'.trades[queue'[i].policy] :
                    view'.trades[queue'[i].policy][k] < queue'[i].trade
    <3>1. queue'[i].policy \in Policies
      BY <1>3, <2>1, <2>2 DEF Statements
    <3>2. queue'[i].trade \in 1 .. ses'.sent[queue'[i].policy]
      BY <1>1, <1>2, <2>1, <2>2 DEF QueueBehind
    <3> QED
      BY <1>4, <2>2, <3>1, <3>2
  <2>3. ASSUME queue'[i].op = "trade", NEW j \in DOMAIN queue', i < j, queue'[j].op = "trade",
               queue'[j].policy = queue'[i].policy
        PROVE  queue'[i].trade < queue'[j].trade
    <3>1. j + 1 \in DOMAIN queue /\ queue'[j] = queue[j + 1] /\ i + 1 < j + 1
      BY <1>3, <2>3
    <3> QED
      BY <1>2, <2>1, <2>3, <3>1 DEF QueueBehind
  <2>4. /\ queue'[i].op = "open" => queue'[i].entry <= MaxEvents
        /\ queue'[i].op = "summary" => queue'[i].trades <= Len(made'[Cur'][queue'[i].policy])
    BY <1>1, <1>2, <2>1 DEF QueueBehind
  <2> QED
    BY <2>2, <2>3, <2>4
<1>9. \A p \in Policies : \A k \in DOMAIN view'.trades[p] : view'.trades[p][k] <= ses.sent[p]
  BY <1>2, <1>4
<1> QED
  BY <1>1, <1>2, <1>7, <1>8, <1>9 DEF RowsOrdered

LEMMA CommitRows == ASSUME TP, RowsOrdered, Commit PROVE RowsOrdered'
<1>1. /\ proc # "none" /\ UNCHANGED <<made, ses, proc, queue, view>> /\ Cur' = Cur
      /\ db' = db \/ db' = [db EXCEPT ![Cur] = view]
  BY DEF Commit, TP, Placed, Cur
<1>2. /\ db \in Seq(RowTypes) /\ Cur \in 1 .. Len(db) /\ view \in RowTypes /\ RowOf(view, made[Cur])
  BY <1>1, Running DEF RowsOrdered, TP, Typed
<1>3. ASSUME NEW s \in 1 .. Len(db') PROVE RowOf(db'[s], made'[s])
  <2>1. CASE db' = db
    BY <1>1, <1>3, <2>1 DEF RowsOrdered
  <2>2. CASE db' = [db EXCEPT ![Cur] = view]
    BY <1>1, <1>2, <1>3, <2>2, Replaced DEF RowsOrdered
  <2> QED
    BY <1>1, <2>1, <2>2
<1> QED
  BY <1>1, <1>3 DEF RowsOrdered, QueueBehind

-----------------------------------------------------------------------------
(* Order, whatever fails.                                                  *)

LEMMA OrderInit == Init => OrderInv
<1> SUFFICES ASSUME Init PROVE OrderInv
  OBVIOUS
<1>1. Len(made) = 0 /\ Len(db) = 0 /\ proc = "none"
  BY DEF Init
<1> QED
  BY <1>1, TypedInit DEF OrderInv, BooksOrdered, RowsOrdered

LEMMA BooksStay ==
  ASSUME TP, BooksOrdered, made' = made, ses'.pos = ses.pos, ses'.at = ses.at,
         proc # "none" \/ proc' = "none"
  PROVE  BooksOrdered' /\ Grows
BY SameGrows DEF BooksOrdered, Cur

\* Each step keeps the books in order, and takes no trade away.
LEMMA OrderBooks ==
  ASSUME TP, BooksOrdered, Next
  PROVE  BooksOrdered' /\ (~StartSession => Grows)
<1>1. CASE StartSession
  BY <1>1, StartOrdered
<1>2. CASE Feed
  BY <1>2, FeedOrdered
<1>3. CASE EngineCloses \/ Joined \/ (\E status : EndFlat(status) /\ Idle)
  <2>1. proc # "none" /\ CloseBooks
    BY <1>3 DEF EngineCloses, Joined, EndFlat, Idle
  <2> QED
    BY <2>1, ClosesOrdered
<1>4. CASE \E status : EndOpen(status) /\ Idle
  <2>1. proc # "none" /\ made' = made /\ ses' = ses
    BY <1>4 DEF EndOpen, Idle
  <2> QED
    BY <2>1, BooksStay
<1>5. CASE Put
  <2>1. made' = made /\ proc' = proc /\ ses'.pos = ses.pos /\ ses'.at = ses.at
    BY <1>5 DEF TP, Typed, SessionTypes, Put, PutStart, PutTrade, PutOpen, PutSummary, PutFinal, PutStop, Queued
  <2>2. proc # "none"
    <3>1. Nothing.step = "nothing"
      BY TodoTyped DEF Nothing
    <3> QED
      BY <1>5, <3>1 DEF TP, Placed, Put, PutStart, PutTrade, PutOpen, PutSummary, PutFinal, PutStop, Settled
  <2> QED
    BY <2>1, <2>2, BooksStay
<1>6. CASE Exit \/ Kill
  BY <1>6, BooksStay DEF Exit, Kill, Dies
<1>7. CASE Execute \/ Commit
  <2>1. proc # "none" /\ made' = made /\ ses' = ses
    BY <1>7 DEF Execute, Commit, TP, Placed
  <2> QED
    BY <2>1, BooksStay
<1>8. Done \/ Stopped => \E status : (EndFlat(status) \/ EndOpen(status)) /\ Idle
  BY DEF Done, Stopped
<1> QED
  BY <1>1, <1>2, <1>3, <1>4, <1>5, <1>6, <1>7, <1>8 DEF Next

LEMMA OrderNext == ASSUME OrderInv, [Next]_vars PROVE OrderInv'
<1>1. TP /\ TP' /\ BooksOrdered /\ RowsOrdered
  BY TypedNext DEF OrderInv, TP
<1>2. CASE UNCHANGED vars
  BY <1>1, <1>2 DEF vars, recorder, TP, OrderInv, BooksOrdered, RowsOrdered, QueueBehind, Cur
<1>3. ASSUME Next PROVE BooksOrdered' /\ RowsOrdered'
  <2>1. BooksOrdered' /\ (~StartSession => Grows)
    BY <1>1, <1>3, OrderBooks
  <2>2. CASE StartSession
    BY <1>1, <2>1, <2>2, StartRows
  <2>3. CASE Feed \/ EngineCloses \/ Done \/ Stopped \/ Joined
    <3>1. /\ UNCHANGED recorder /\ proc # "none" /\ proc' # "none" /\ ses'.sent = ses.sent
      <4>1. CASE Feed
        <5>1. proc # "none" /\ proc' = proc /\ UNCHANGED recorder
          BY <4>1 DEF Feed, Idle
        <5>2. ses'.sent = ses.sent
          BY <4>1 DEF Feed, TP, Typed, SessionTypes
        <5> QED
          BY <5>1, <5>2
      <4>2. CASE EngineCloses \/ Done \/ Stopped \/ Joined
        <5>1. /\ UNCHANGED recorder /\ proc # "none" /\ proc' # "none"
              /\ CloseBooks \/ ses' = ses
          BY <4>2 DEF EngineCloses, Done, Stopped, Joined, Idle, EndFlat, EndOpen, Ends
        <5>2. CASE CloseBooks
          BY <1>1, <5>1, <5>2, ClosedTyped DEF TP, Placed
        <5> QED
          BY <5>1, <5>2
      <4> QED
        BY <2>3, <4>1, <4>2
    <3>2. ~StartSession
      BY <3>1 DEF StartSession
    <3> QED
      BY <1>1, <2>1, <3>1, <3>2, RowsStay DEF recorder
  <2>4. CASE Put
    BY <1>1, <2>1, <2>4, PutRows
  <2>5. CASE Exit \/ Kill
    <3>1. proc' = "none" /\ UNCHANGED <<made, db>>
      BY <2>5 DEF Exit, Kill, Dies
    <3> QED
      BY <1>1, <2>1, <3>1 DEF RowsOrdered
  <2>6. CASE Execute
    BY <1>1, <2>1, <2>6, ExecuteRows
  <2>7. CASE Commit
    BY <1>1, <2>1, <2>7, CommitRows
  <2> QED
    BY <1>3, <2>2, <2>3, <2>4, <2>5, <2>6, <2>7 DEF Next
<1> QED
  BY <1>1, <1>2, <1>3 DEF OrderInv, TP

LEMMA OrderAlways == Spec => []OrderInv
BY OrderInit, OrderNext, PTL DEF Spec

\* TypeOK, for any policies, feeds and bounds: every trade row names a trade of its
\* session, and no count of trades exceeds them.
THEOREM TypeCorrect == Spec => []TypeOK
<1>1. OrderInv => TypeOK
  <2> SUFFICES ASSUME OrderInv PROVE TypeOK
    OBVIOUS
  <2>1. Typed /\ TP /\ BooksOrdered /\ RowsOrdered
    BY DEF OrderInv, TP
  <2>2. DOMAIN db = 1 .. Len(db) /\ Len(db) = Len(made)
    BY <2>1 DEF Typed
  <2>3. ASSUME NEW s \in Sessions, NEW p \in Policies
        PROVE  /\ \A k \in DOMAIN made[s][p] : made[s][p][k] \in Trade
               /\ \A k \in DOMAIN db[s].trades[p] : db[s].trades[p][k] \in 1 .. Len(made[s][p])
               /\ db[s].open \in 0 .. MaxEvents
               /\ db[s].summary[p] \in NoSummary .. Len(made[s][p])
               /\ db[s].status \in {"none", "running", "done", "aborted", "crashed"}
    <3>1. /\ s \in 1 .. Len(made) /\ db[s] \in RowTypes /\ RowOf(db[s], made[s])
          /\ \A q \in Policies : Ordered(made[s][q])
      BY <2>1, <2>2 DEF Sessions, Typed, RowsOrdered, BooksOrdered
    <3>2. ASSUME NEW k \in DOMAIN made[s][p] PROVE made[s][p][k] \in Trade
      <4>1. made[s][p] \in Seq([entry : Nat, exit : Nat])
        BY <2>1, <3>1, MadeTyped
      <4>2. ASSUME NEW S, NEW q \in Seq(S), NEW n \in DOMAIN q PROVE q[n] \in S
        OBVIOUS
      <4>3. made[s][p][k] \in [entry : Nat, exit : Nat]
        BY <4>1, <4>2
      <4> QED
        BY <3>1, <4>3 DEF Ordered, Trade
    <3>3. db[s].open \in 0 .. MaxEvents
      BY <3>1, RowTyped, RecordAssumption DEF RowOf, RecordAssumption
    <3>4. db[s].status \in {"none", "running", "done", "aborted", "crashed"}
      BY <3>1, RowTyped DEF Statuses, Ended
    <3> QED
      BY <3>1, <3>2, <3>3, <3>4 DEF RowOf
  <2>4. cut \subseteq Sessions
    BY <2>1, <2>2 DEF Typed, Sessions
  <2>5. /\ source \in Sources /\ Len(day) <= MaxEvents
        /\ Len(db) = Len(made) /\ ses.at \in 0 .. Len(day)
    BY <2>1, RecordAssumption DEF Typed, RecordAssumption
  <2>6. /\ over \in BOOLEAN
        /\ proc \in {"none", "up", "joining", "leaving"} /\ writer \in {"alive", "stopping", "gone"}
        /\ fails \in 0 .. MaxFails /\ slips \in 0 .. MaxSlips
    BY <2>1 DEF Typed
  <2> QED
    BY <2>3, <2>4, <2>5, <2>6 DEF TypeOK
<1> QED
  BY <1>1, OrderAlways, PTL

\* RowsInOrder: whatever statements fail, however the process ends and the feed
\* replays, the trade rows of a session are trades it made, in order, none twice.
THEOREM InOrder == Spec => []RowsInOrder
<1>1. OrderInv => RowsInOrder
  <2> SUFFICES ASSUME OrderInv, NEW s \in Sessions, NEW p \in Policies
               PROVE  /\ Range(db[s].trades[p]) \subseteq DOMAIN made[s][p]
                      /\ \A i, j \in DOMAIN db[s].trades[p] : i < j =>
                           /\ db[s].trades[p][i] < db[s].trades[p][j]
                           /\ made[s][p][db[s].trades[p][i]].entry < made[s][p][db[s].trades[p][j]].entry
    BY DEF RowsInOrder
  <2>1. TP /\ s \in 1 .. Len(made) /\ db[s] \in RowTypes /\ RowOf(db[s], made[s]) /\ Ordered(made[s][p])
    BY DEF OrderInv, TP, Typed, Sessions, BooksOrdered, RowsOrdered
  <2>2. DOMAIN made[s][p] = 1 .. Len(made[s][p])
    BY <2>1, MadeTyped
  <2>3. /\ \A k \in DOMAIN db[s].trades[p] : db[s].trades[p][k] \in DOMAIN made[s][p]
        /\ Increasing(db[s].trades[p])
    BY <2>1, <2>2 DEF RowOf
  <2>4. Range(db[s].trades[p]) \subseteq DOMAIN made[s][p]
    BY <2>3 DEF Range
  <2>5. ASSUME NEW i \in DOMAIN db[s].trades[p], NEW j \in DOMAIN db[s].trades[p], i < j
        PROVE  /\ db[s].trades[p][i] < db[s].trades[p][j]
               /\ made[s][p][db[s].trades[p][i]].entry < made[s][p][db[s].trades[p][j]].entry
    <3>1. db[s].trades[p][i] < db[s].trades[p][j]
      BY <2>3, <2>5 DEF Increasing
    <3> QED
      BY <2>1, <2>3, <3>1 DEF Ordered
  <2> QED
    BY <2>4, <2>5
<1> QED
  BY <1>1, OrderAlways, PTL

-----------------------------------------------------------------------------
(* Without failed statements: a session begins, trades and ends.           *)

LEMMA StartKept == ASSUME TP, TP', Kept, StartSession PROVE Kept'
<1>1. /\ proc = "none" /\ proc' = "up" /\ writer' = "alive" /\ queue' = <<>> /\ view' = NoRows
      /\ made' = Append(made, Each(<<>>)) /\ db' = Append(db, NoRows) /\ Len(db) = Len(made)
      /\ ses'.sent = Each(0) /\ ses'.shown = 0 /\ todo' = Todo("start", {}, "none")
      /\ cut' = cut /\ cut \subseteq 1 .. Len(made) /\ slips' = slips
  BY DEF StartSession, NewSession, NoSlip, bounds, TP, Typed
<1>2. /\ \A p \in Policies : NoRows.trades[p] = <<>> /\ Each(0)[p] = 0
      /\ NoRows.open = 0 /\ NoRows.summary = Each(NoSummary) /\ NoRows.status = "none"
  BY DEF NoRows, Each
<1>3. Each(<<>>) \in TradeLists /\ NoRows \in RowTypes
  BY FreshRow DEF Each, TradeLists
<1>4. /\ Len(made') = Len(made) + 1 /\ Len(made) \in Nat /\ Cur' = Len(made) + 1
      /\ \A s \in 1 .. Len(made) : made'[s] = made[s]
  BY <1>1, <1>3, Appended DEF TP, Typed, Cur
<1>5. /\ Len(db') = Len(db) + 1 /\ db'[Len(db) + 1] = NoRows
      /\ \A s \in 1 .. Len(db) : db'[s] = db[s]
  BY <1>1, <1>3, Appended DEF TP, Typed
<1>6. Recording'
  <2>1. Started' /\ ShownLast'
    BY <1>1, <1>2, TodoTyped DEF Started, ShownLast
  <2>2. ASSUME NEW p \in Policies PROVE NothingLost(p)'
    BY <1>1, <1>2 DEF NothingLost
  <2>3. GoesOn'
    BY <1>1, <1>2, <1>4, <1>5 DEF GoesOn, Ended
  <2> QED
    BY <1>1, <2>1, <2>2, <2>3 DEF Recording, Closing
<1>7. EndedRows'
  <2> SUFFICES ASSUME NEW s \in 1 .. Len(db'), s \notin cut', db'[s].status \in Ended
               PROVE  Complete(db'[s], made'[s])
    BY DEF EndedRows
  <2>1. CASE s = Len(db) + 1
    BY <1>2, <1>5, <2>1 DEF Ended
  <2>2. CASE s \in 1 .. Len(db)
    BY <1>1, <1>4, <1>5, <2>2 DEF Kept, EndedRows
  <2> QED
    BY <1>1, <1>4, <1>5, <2>1, <2>2
<1>8. AllEnd'
  BY <1>1, <1>4, <1>5 DEF Kept, AllEnd
<1> QED
  BY <1>6, <1>7, <1>8 DEF Kept

\* The books change, and what is recorded does not.
LEMMA BooksKept ==
  ASSUME Recording, UNCHANGED <<queue, view>>, ses'.sent = ses.sent, ses'.shown = ses.shown,
         todo.step # "start"
  PROVE  Started' /\ ShownLast' /\ \A p \in Policies : NothingLost(p)'
<1>1. Started' /\ ShownLast'
  BY DEF Recording, Started, ShownLast
<1>2. ASSUME NEW p \in Policies PROVE NothingLost(p)'
  BY DEF Recording, NothingLost
<1> QED
  BY <1>1, <1>2

LEMMA RowsKept ==
  ASSUME TP, EndedRows, Grows, db' = db, cut \subseteq cut',
         Cur \notin cut' /\ db[Cur].status \in Ended => \A p \in Policies : made'[Cur][p] = made[Cur][p]
  PROVE  EndedRows'
<1> SUFFICES ASSUME NEW s \in 1 .. Len(db), s \notin cut', db[s].status \in Ended
             PROVE  Complete(db[s], made'[s])
  BY DEF EndedRows
<1>1. Complete(db[s], made[s]) /\ Len(db) = Len(made)
  BY DEF EndedRows, TP, Typed
<1>2. \A p \in Policies : made'[s][p] = made[s][p]
  <2>1. CASE s = Cur
    BY <2>1
  <2>2. CASE s # Cur
    BY <1>1, <2>2 DEF Grows
  <2> QED
    BY <2>1, <2>2
<1> QED
  BY <1>1, <1>2 DEF Complete

LEMMA FeedKept == ASSUME TP, BooksOrdered, Kept, Feed PROVE Kept'
<1>1. /\ proc = "up" /\ proc' = "up" /\ todo = Nothing /\ UNCHANGED <<todo, recorder, cut, slips>>
  BY DEF Feed, Idle, NoSlip, bounds
<1>2. ses'.sent = ses.sent /\ ses'.shown = ses.shown
  BY DEF Feed, TP, Typed, SessionTypes
<1>3. Grows /\ Cur' = Cur
  BY FeedOrdered DEF Grows, Cur
<1>4. Recording /\ GoesOn /\ todo.step # "start"
  BY <1>1, TodoTyped DEF Kept, Recording, Nothing
<1>5. Recording'
  BY <1>1, <1>2, <1>3, <1>4, BooksKept DEF Recording, recorder, GoesOn, Closing
<1>6. EndedRows'
  BY <1>1, <1>3, <1>4, RowsKept DEF Kept, recorder, GoesOn
<1>7. AllEnd'
  BY <1>1, <1>3 DEF Kept, AllEnd, recorder
<1> QED
  BY <1>5, <1>6, <1>7 DEF Kept

LEMMA EngineClosesKept == ASSUME TP, BooksOrdered, Kept, EngineCloses PROVE Kept'
<1>1. /\ proc = "up" /\ proc' = "up" /\ todo = Nothing /\ UNCHANGED <<todo, recorder, cut, slips>>
      /\ CloseBooks /\ Len(made) > 0
  BY DEF EngineCloses, Idle, NoSlip, bounds, TP, Placed
<1>2. ses'.sent = ses.sent /\ ses'.shown = ses.shown
  BY <1>1, ClosedTyped DEF TP
<1>3. Grows /\ Cur' = Cur
  BY <1>1, ClosesOrdered DEF Grows, Cur
<1>4. Recording /\ GoesOn /\ todo.step # "start"
  BY <1>1, TodoTyped DEF Kept, Recording, Nothing
<1>5. Recording'
  BY <1>1, <1>2, <1>3, <1>4, BooksKept DEF Recording, recorder, GoesOn, Closing
<1>6. EndedRows'
  BY <1>1, <1>3, <1>4, RowsKept DEF Kept, recorder, GoesOn
<1>7. AllEnd'
  BY <1>1, <1>3 DEF Kept, AllEnd, recorder
<1> QED
  BY <1>5, <1>6, <1>7 DEF Kept

LEMMA SlipCounted == ASSUME TP, Slip PROVE slips' # 0
  BY DEF TP, Typed, Slip

LEMMA EndsKept == ASSUME TP, BooksOrdered, Kept, Done \/ Stopped PROVE Kept'
<1>1. /\ Idle /\ UNCHANGED recorder
      /\ \E status \in Ended : EndFlat(status) \/ EndOpen(status)
  BY RecordAssumption DEF RecordAssumption, Done, Stopped, Ended
<1>2. PICK status \in Ended : EndFlat(status) \/ EndOpen(status)
  BY <1>1
<1>3. /\ proc = "up" /\ proc' = "joining" /\ todo = Nothing /\ todo' = Todo("summary", Policies, status)
      /\ UNCHANGED <<queue, view, writer, db>> /\ Len(made) > 0
  BY <1>1, <1>2 DEF EndFlat, EndOpen, Ends, Idle, recorder, TP, Placed
<1>4. /\ Grows /\ Cur' = Cur /\ ses'.sent = ses.sent /\ ses'.shown = ses.shown /\ cut \subseteq cut'
      /\ Cur \in cut' \/ \A p \in Policies : ses'.pos[p] = 0
  <2>1. CASE EndFlat(status)
    <3>1. CloseBooks /\ cut' = cut
      BY <2>1 DEF EndFlat
    <3>2. \A p \in Policies : Each(0)[p] = 0
      BY DEF Each
    <3> QED
      BY <1>3, <3>1, <3>2, ClosedTyped, ClosesOrdered DEF TP, Grows, Cur
  <2>2. CASE EndOpen(status)
    BY <1>3, <2>2, SameGrows DEF EndOpen, Cur
  <2> QED
    BY <1>2, <2>1, <2>2
<1>5. todo'.step = "summary" /\ todo'.left = Policies
  BY <1>3, TodoTyped
<1>6. Recording /\ GoesOn /\ todo.step # "start"
  BY <1>3, TodoTyped DEF Kept, Recording, Nothing
<1>7. Stopping'
  BY <1>3, <1>5, <1>6 DEF Stopping, GoesOn, FinalQueued, AllPut, Ended
<1>8. Cur' \notin cut' => EndsWell'
  <2>1. ASSUME NEW p \in Policies PROVE Summed(p)'
    <3>1. view.summary[p] = NoSummary
      BY <1>6 DEF GoesOn, Each
    <3> QED
      BY <1>3, <1>5, <1>6, <3>1 DEF Summed, GoesOn
  <2> QED
    BY <1>3, <1>4, <1>5, <1>6, <2>1 DEF EndsWell, GoesOn, Ended
<1>9. Recording'
  BY <1>3, <1>4, <1>6, <1>7, <1>8, BooksKept DEF Recording
<1>10. EndedRows'
  BY <1>3, <1>4, <1>6, RowsKept DEF Kept, GoesOn
<1>11. AllEnd'
  <2>1. slips' = slips \/ slips' # 0
    BY <1>2, SlipCounted DEF EndFlat, EndOpen, NoSlip, bounds
  <2> QED
    BY <1>3, <1>4, <1>6, <2>1 DEF Kept, AllEnd, GoesOn
<1> QED
  BY <1>9, <1>10, <1>11 DEF Kept

LEMMA JoinedKept == ASSUME TP, BooksOrdered, Kept, Joined PROVE Kept'
<1>1. /\ proc = "joining" /\ proc' = "leaving" /\ CloseBooks /\ todo = Nothing
      /\ UNCHANGED <<recorder, cut, todo>> /\ Len(made) > 0
      /\ (writer = "gone" /\ slips' = slips) \/ slips' # 0
  BY SlipCounted DEF Joined, Joins, NoSlip, bounds, TP, Placed
<1>2. ses'.sent = ses.sent /\ ses'.shown = ses.shown /\ ses'.pos = Each(0)
  BY <1>1, ClosedTyped DEF TP
<1>3. Grows /\ Cur' = Cur
  BY <1>1, ClosesOrdered DEF Grows, Cur
<1>4. Recording /\ Stopping /\ todo.step # "start" /\ todo.step = "nothing" /\ (Cur \notin cut => EndsWell)
  BY <1>1, TodoTyped DEF Kept, Recording, Closing, Nothing
<1>5. Cur \notin cut => \A p \in Policies : made'[Cur][p] = made[Cur][p]
  BY <1>1, <1>4, ClosesOrdered DEF EndsWell
<1>6. Stopping'
  BY <1>1, <1>4 DEF Stopping, recorder, FinalQueued, AllPut, Closing
<1>7. ASSUME Cur \notin cut PROVE EndsWell'
  <2>1. /\ \A p \in Policies : ses'.pos[p] = 0 /\ ses.pos[p] = 0 /\ made'[Cur][p] = made[Cur][p]
        /\ EndsWell
    BY <1>2, <1>4, <1>5, <1>7 DEF EndsWell, Each
  <2>2. ASSUME NEW p \in Policies PROVE Summed(p)'
    BY <1>1, <1>3, <2>1 DEF Summed, EndsWell, Total, recorder
  <2>3. Told' /\ todo'.left = {}
    BY <1>1, <1>2, <1>3, <1>4, <2>1, RecordAssumption DEF EndsWell, Told, RecordAssumption
  <2> QED
    BY <1>1, <2>1, <2>2, <2>3 DEF EndsWell, recorder
<1>8. Recording'
  BY <1>1, <1>2, <1>3, <1>4, <1>6, <1>7, BooksKept DEF Recording, recorder
<1>9. EndedRows'
  BY <1>1, <1>3, <1>5, RowsKept DEF Kept, recorder
<1>10. AllEnd'
  BY <1>1, <1>3 DEF Kept, AllEnd, recorder
<1> QED
  BY <1>8, <1>9, <1>10 DEF Kept

LEMMA DiesKept == ASSUME TP, Kept, Exit \/ Kill PROVE Kept'
<1>1. /\ proc # "none" /\ proc' = "none" /\ UNCHANGED <<made, db, cut>> /\ Cur' = Cur
      /\ (proc = "leaving" /\ slips' = slips) \/ slips' # 0
  BY SlipCounted DEF Exit, Kill, Dies, NoSlip, bounds, Cur
<1>2. AllEnd'
  <2> SUFFICES ASSUME slips' = 0, NEW s \in 1 .. Len(db) PROVE db[s].status \in Ended
    BY <1>1 DEF AllEnd
  <2>1. s < Cur \/ s = Cur
    BY DEF TP, Typed, Cur
  <2> QED
    BY <1>1, <2>1 DEF Kept, AllEnd
<1> QED
  BY <1>1, <1>2 DEF Kept, EndedRows

-----------------------------------------------------------------------------
(* Without failed statements: what is put on the queue.                    *)

\* What a put leaves alone, and where the session is.
LEMMA Puts ==
  ASSUME TP, Kept, Put
  PROVE  /\ proc # "none" /\ Recording /\ Cur' = Cur
         /\ UNCHANGED <<made, proc, writer, view, db, cut, slips>> /\ queue \in Seq(Statements)
         /\ DOMAIN queue = 1 .. Len(queue) /\ Len(queue) \in Nat
<1>1. proc # "none"
  <2>1. Nothing.step = "nothing"
    BY TodoTyped DEF Nothing
  <2> QED
    BY <2>1 DEF TP, Placed, Put, PutStart, PutTrade, PutOpen, PutSummary, PutFinal, PutStop, Settled
<1>2. UNCHANGED <<made, proc, writer, view, db, cut, slips>>
  BY DEF Put, PutStart, PutTrade, PutOpen, PutSummary, PutFinal, PutStop, Queued, NoSlip, bounds
<1>3. queue \in Seq(Statements)
  BY DEF TP, Typed
<1> QED
  BY <1>1, <1>2, <1>3 DEF Kept, Cur

LEMMA PutsStarted ==
  ASSUME TP, Kept, Put, NEW row \in Statements, Queued(row), row.op # "start", todo.step # "start"
  PROVE  Started'
<1>1. /\ queue' = Append(queue, row) /\ Started /\ view' = view /\ queue \in Seq(Statements)
  BY Puts DEF Queued, Recording
<1>2. /\ DOMAIN queue' = 1 .. Len(queue) + 1 /\ DOMAIN queue = 1 .. Len(queue) /\ Len(queue) \in Nat
      /\ queue'[Len(queue) + 1] = row /\ \A i \in DOMAIN queue : queue'[i] = queue[i]
      /\ queue' # <<>>
  BY <1>1, Appended
<1>3. queue # <<>> => 1 \in DOMAIN queue
  BY <1>1
<1>4. view'.status = "none" => queue'[1].op = "start"
  BY <1>1, <1>2, <1>3 DEF Started
<1>5. ASSUME NEW i \in DOMAIN queue', queue'[i].op = "start" PROVE i = 1 /\ view'.status = "none"
  <2>1. i \in DOMAIN queue
    BY <1>2, <1>5
  <2> QED
    BY <1>1, <1>2, <1>5, <2>1 DEF Started
<1> QED
  BY <1>2, <1>4, <1>5 DEF Started

LEMMA PutsShown ==
  ASSUME TP, Kept, Put, NEW row \in Statements, Queued(row), row.op # "open", ses'.shown = ses.shown
  PROVE  ShownLast'
<1>1. /\ queue' = Append(queue, row) /\ ShownLast /\ view' = view /\ queue \in Seq(Statements)
  BY Puts DEF Queued, Recording
<1>2. /\ DOMAIN queue' = 1 .. Len(queue) + 1 /\ DOMAIN queue = 1 .. Len(queue) /\ Len(queue) \in Nat
      /\ queue'[Len(queue) + 1] = row /\ \A i \in DOMAIN queue : queue'[i] = queue[i]
  BY <1>1, Appended
<1>3. CASE view.open = ses.shown /\ \A i \in DOMAIN queue : queue[i].op # "open"
  BY <1>1, <1>2, <1>3 DEF ShownLast
<1>4. ASSUME NEW i \in DOMAIN queue, queue[i].op = "open", queue[i].entry = ses.shown,
             \A j \in DOMAIN queue : i < j => queue[j].op # "open"
      PROVE  ShownLast'
  <2>1. i \in DOMAIN queue' /\ queue'[i] = queue[i]
    BY <1>2
  <2>2. \A j \in DOMAIN queue' : i < j => queue'[j].op # "open"
    BY <1>2, <1>4
  <2> QED
    BY <1>4, <2>1, <2>2 DEF ShownLast
<1> QED
  BY <1>1, <1>3, <1>4 DEF ShownLast

LEMMA PutsLost ==
  ASSUME TP, Kept, Put, NEW row \in Statements, Queued(row), NEW p \in Policies,
         \/ ses'.sent[p] = ses.sent[p]
         \/ ses'.sent[p] = ses.sent[p] + 1 /\ row = TradeRow(p, ses.sent[p] + 1)
  PROVE  NothingLost(p)'
<1>1. /\ queue' = Append(queue, row) /\ NothingLost(p) /\ view' = view /\ queue \in Seq(Statements)
      /\ proc # "none"
  BY Puts DEF Queued, Recording
<1>2. /\ DOMAIN queue' = 1 .. Len(queue) + 1 /\ DOMAIN queue = 1 .. Len(queue) /\ Len(queue) \in Nat
      /\ queue'[Len(queue) + 1] = row /\ \A i \in DOMAIN queue : queue'[i] = queue[i]
  BY <1>1, Appended
<1>3. ses.sent[p] \in Nat /\ Len(view.trades[p]) \in Nat
  BY <1>1, Running, RowTyped DEF TP, Typed
<1>4. ASSUME NEW n \in Len(view.trades[p]) + 1 .. ses'.sent[p]
      PROVE  \E i \in DOMAIN queue' : queue'[i] = TradeRow(p, n)
  <2>1. CASE n \in Len(view.trades[p]) + 1 .. ses.sent[p]
    <3>1. PICK i \in DOMAIN queue : queue[i] = TradeRow(p, n)
      BY <1>1, <2>1 DEF NothingLost
    <3> QED
      BY <1>2, <3>1
  <2>2. CASE n = ses.sent[p] + 1 /\ row = TradeRow(p, ses.sent[p] + 1)
    BY <1>2, <2>2
  <2> QED
    BY <1>3, <1>4, <2>1, <2>2
<1> QED
  BY <1>1, <1>4 DEF NothingLost

LEMMA PutsRows == ASSUME TP, Kept, Put PROVE EndedRows' /\ AllEnd'
BY Puts DEF Kept, EndedRows, AllEnd

\* Until the end is put, what is put is a start, a trade, a position or totals.
LEMMA PutsStopping ==
  ASSUME TP, Kept, Put, NEW row \in Statements, Queued(row), row.op \in {"trade", "open", "summary"},
         todo'.step = todo.step
  PROVE  /\ Closing => Stopping'
         /\ Closing' <=> Closing
<1>1. /\ queue' = Append(queue, row) /\ UNCHANGED <<view, writer, proc>> /\ queue \in Seq(Statements)
      /\ Recording
  BY Puts DEF Queued
<1>2. /\ DOMAIN queue' = 1 .. Len(queue) + 1 /\ DOMAIN queue = 1 .. Len(queue) /\ Len(queue) \in Nat
      /\ queue'[Len(queue) + 1] = row /\ \A i \in DOMAIN queue : queue'[i] = queue[i]
  BY <1>1, Appended
<1>3. \A i \in DOMAIN queue' : queue'[i].op \in {"final", "stop"} => i \in DOMAIN queue
  BY <1>2
<1>4. (FinalQueued' <=> FinalQueued) /\ (AllPut' <=> AllPut) /\ (Closing' <=> Closing)
  <2>1. FinalQueued' <=> FinalQueued
    BY <1>2, <1>3 DEF FinalQueued
  <2> QED
    BY <1>1, <2>1 DEF AllPut, Closing
<1>5. ASSUME Closing PROVE Stopping'
  <2>1. Stopping
    BY <1>1, <1>5 DEF Recording
  <2>2. ASSUME NEW i \in DOMAIN queue', queue'[i].op = "stop"
        PROVE  /\ todo'.step = "nothing"
               /\ \A j \in DOMAIN queue' : queue'[j].op = "final" => j < i
    BY <1>2, <1>3, <2>1, <2>2 DEF Stopping
  <2>3. \A i, j \in DOMAIN queue' : queue'[i].op = "final" /\ i < j => queue'[j].op # "final"
    BY <1>2, <1>3, <2>1 DEF Stopping
  <2>4. /\ todo'.step = "summary" => ~FinalQueued' /\ view'.status \notin Ended
        /\ AllPut' => FinalQueued' \/ view'.status \in Ended
        /\ writer' # "alive" => view'.status \in Ended /\ AllPut' /\ todo'.step = "nothing"
        /\ FinalQueued' => view'.status \notin Ended
    BY <1>1, <1>4, <2>1 DEF Stopping
  <2> QED
    BY <2>2, <2>3, <2>4 DEF Stopping
<1> QED
  BY <1>4, <1>5

LEMMA PutStartKept == ASSUME TP, Kept, PutStart PROVE Kept'
<1>1. Put /\ todo.step = "start" /\ Queued(StartRow) /\ todo' = Nothing /\ ses' = ses
  BY DEF Put, PutStart
<1>2. /\ queue = <<>> /\ view = NoRows /\ proc = "up" /\ writer = "alive" /\ queue' = <<StartRow>>
      /\ UNCHANGED <<made, proc, writer, view, db, cut, slips>> /\ Recording /\ Cur' = Cur
  BY <1>1, Puts DEF TP, Placed, Queued
<1>3. DOMAIN queue' = {1} /\ queue'[1] = StartRow /\ StartRow.op = "start" /\ queue' # <<>>
  BY <1>2 DEF StartRow
<1>4. view.status = "none" /\ DOMAIN queue = {}
  BY <1>2 DEF NoRows
<1>5. Started'
  BY <1>2, <1>3, <1>4 DEF Started
<1>6. ShownLast'
  <2>1. view.open = ses.shown
    BY <1>2, <1>4 DEF Recording, ShownLast
  <2> QED
    BY <1>1, <1>2, <1>3, <2>1 DEF ShownLast
<1>7. \A p \in Policies : NothingLost(p)'
  BY <1>1, PutsLost, StatementsTyped
<1>8. GoesOn'
  BY <1>2, <1>3 DEF Recording, GoesOn
<1> QED
  BY <1>1, <1>2, <1>5, <1>6, <1>7, <1>8, PutsRows DEF Kept, Recording, Closing

\* Before a session told everything, its end is not put.
LEMMA PutsOnWell ==
  ASSUME TP, Kept, Put, Closing, Cur \notin cut, NEW row \in Statements, Queued(row),
         row.op \in {"trade", "open"}, ~Told, ses'.pos = ses.pos, todo' = todo
  PROVE  EndsWell'
<1>1. /\ queue' = Append(queue, row) /\ UNCHANGED <<made, view>> /\ queue \in Seq(Statements)
      /\ EndsWell /\ Stopping /\ Cur' = Cur
  BY Puts DEF Queued, Recording
<1>2. /\ DOMAIN queue' = 1 .. Len(queue) + 1 /\ DOMAIN queue = 1 .. Len(queue) /\ Len(queue) \in Nat
      /\ queue'[Len(queue) + 1] = row /\ \A i \in DOMAIN queue : queue'[i] = queue[i]
  BY <1>1, Appended
<1>3. todo.step = "summary" /\ ~FinalQueued /\ view.status \notin Ended
  BY <1>1 DEF EndsWell, Stopping
<1>4. ASSUME NEW p \in Policies PROVE Summed(p)'
  <2>1. Summed(p)
    BY <1>1 DEF EndsWell
  <2>2. \A i \in DOMAIN queue' : queue'[i].op = "summary" => i \in DOMAIN queue
    BY <1>2
  <2> QED
    BY <1>1, <1>2, <2>1, <2>2 DEF Summed, Total
<1>5. \A i \in DOMAIN queue' : queue'[i].op # "final"
  BY <1>2, <1>3 DEF FinalQueued
<1> QED
  BY <1>1, <1>3, <1>4, <1>5 DEF EndsWell

LEMMA PutTradeKept == ASSUME TP, Kept, PutTrade PROVE Kept'
<1>1. PICK p \in Policies : /\ ses.sent[p] < Len(made[Cur][p]) /\ Queued(TradeRow(p, NextTrade(p)))
                            /\ ses' = [ses EXCEPT !.sent[p] = @ + 1]
  BY DEF PutTrade
<1>2. Put /\ todo.step # "start" /\ todo' = todo /\ proc # "none"
  BY DEF Put, PutTrade
<1>3. ses.sent \in [Policies -> Nat] /\ NextTrade(p) = ses.sent[p] + 1 /\ NextTrade(p) \in Nat
  BY <1>2, Running DEF NextTrade
<1>4. ses'.sent = [ses.sent EXCEPT ![p] = @ + 1] /\ ses'.shown = ses.shown /\ ses'.pos = ses.pos
  BY <1>1 DEF TP, Typed, SessionTypes
<1> DEFINE row == TradeRow(p, ses.sent[p] + 1)
<1>5. row \in Statements /\ row.op = "trade" /\ Queued(row)
  BY <1>1, <1>3, StatementsTyped DEF TradeRow
<1>6. ASSUME NEW q \in Policies
      PROVE  \/ ses'.sent[q] = ses.sent[q]
             \/ ses'.sent[q] = ses.sent[q] + 1 /\ row = TradeRow(q, ses.sent[q] + 1)
  BY <1>3, <1>4
<1> HIDE DEF row
<1>7. Started' /\ ShownLast' /\ \A q \in Policies : NothingLost(q)'
  BY <1>2, <1>4, <1>5, <1>6, PutsStarted, PutsShown, PutsLost
<1>8. ~Told
  <2>1. Len(made[Cur][p]) \in Nat /\ ses.sent[p] \in Nat
    BY <1>2, Running
  <2> QED
    BY <1>1, <2>1 DEF Told
<1>9. /\ UNCHANGED <<made, proc, writer, view, db, cut, slips>> /\ Recording /\ Cur' = Cur
      /\ queue' = Append(queue, row) /\ queue \in Seq(Statements)
  BY <1>2, <1>5, Puts DEF Queued
<1>10. proc = "up" => GoesOn'
  BY <1>5, <1>9, Appended DEF Recording, GoesOn
<1>11. Closing => Stopping' /\ Closing' /\ (Cur \notin cut => EndsWell')
  BY <1>2, <1>4, <1>5, <1>8, PutsStopping, PutsOnWell
<1>12. Recording'
  BY <1>7, <1>9, <1>10, <1>11 DEF Recording, Closing
<1> QED
  BY <1>2, <1>12, PutsRows DEF Kept

LEMMA PutOpenKept == ASSUME TP, Kept, PutOpen PROVE Kept'
<1> DEFINE row == OpenRow(ses.pos[Jev])
<1>1. /\ Put /\ todo.step # "start" /\ todo' = todo /\ proc # "none" /\ ses.shown # ses.pos[Jev]
      /\ Queued(row) /\ ses' = [ses EXCEPT !.shown = ses.pos[Jev]]
  BY DEF Put, PutOpen
<1>2. ses'.sent = ses.sent /\ ses'.shown = ses.pos[Jev] /\ ses'.pos = ses.pos
  BY <1>1 DEF TP, Typed, SessionTypes
<1>3. row \in Statements /\ row.op = "open" /\ row.entry = ses.pos[Jev]
  <2>1. ses.pos[Jev] \in Nat
    BY <1>1, Running, RecordAssumption DEF RecordAssumption
  <2> QED
    BY <2>1, StatementsTyped DEF OpenRow
<1> HIDE DEF row
<1>4. /\ UNCHANGED <<made, proc, writer, view, db, cut, slips>> /\ Recording /\ Cur' = Cur
      /\ queue' = Append(queue, row) /\ queue \in Seq(Statements)
  BY <1>1, Puts DEF Queued
<1>5. Started' /\ \A q \in Policies : NothingLost(q)'
  BY <1>1, <1>2, <1>3, PutsStarted, PutsLost
<1>6. ShownLast'
  <2>1. /\ Len(queue) + 1 \in DOMAIN queue' /\ queue'[Len(queue) + 1] = row
        /\ \A j \in DOMAIN queue' : ~(Len(queue) + 1 < j)
    BY <1>3, <1>4, Appended
  <2> QED
    BY <1>2, <1>3, <2>1 DEF ShownLast
<1>7. proc = "up" => GoesOn'
  BY <1>3, <1>4, Appended DEF Recording, GoesOn
<1>8. Closing => Stopping' /\ Closing' /\ (Cur \notin cut => EndsWell')
  BY <1>1, <1>2, <1>3, PutsStopping, PutsOnWell DEF Told
<1>9. Recording'
  BY <1>4, <1>5, <1>6, <1>7, <1>8 DEF Recording, Closing
<1> QED
  BY <1>1, <1>9, PutsRows DEF Kept

LEMMA PutSummaryKept == ASSUME TP, Kept, PutSummary PROVE Kept'
<1>1. PICK p \in todo.left : /\ Queued(SummaryRow(p, Len(made[Cur][p])))
                             /\ todo' = [todo EXCEPT !.left = @ \ {p}]
  BY DEF PutSummary
<1>2. /\ Put /\ Told /\ todo.step = "summary" /\ ses' = ses /\ proc # "none" /\ p \in Policies
      /\ todo'.step = "summary" /\ todo'.left = todo.left \ {p}
  BY <1>1 DEF Put, PutSummary, Settled, TP, Typed, Todos
<1> DEFINE row == SummaryRow(p, Len(made[Cur][p]))
<1>3. row \in Statements /\ row.op = "summary" /\ row.policy = p /\ row.trades = Total(p) /\ Queued(row)
  BY <1>1, <1>2, Running, StatementsTyped DEF SummaryRow, Total
<1> HIDE DEF row
<1>4. /\ UNCHANGED <<made, proc, writer, view, db, cut, slips>> /\ Recording /\ Cur' = Cur
      /\ queue' = Append(queue, row) /\ queue \in Seq(Statements)
  BY <1>2, <1>3, Puts DEF Queued
<1>5. Started' /\ ShownLast' /\ \A q \in Policies : NothingLost(q)'
  BY <1>2, <1>3, PutsStarted, PutsShown, PutsLost
<1>6. Closing /\ proc # "up"
  BY <1>2 DEF TP, Placed, Typed, Closing
<1>7. Stopping' /\ Closing' /\ Stopping
  BY <1>2, <1>3, <1>4, <1>6, PutsStopping DEF Recording
<1>8. /\ DOMAIN queue' = 1 .. Len(queue) + 1 /\ DOMAIN queue = 1 .. Len(queue) /\ Len(queue) \in Nat
      /\ queue'[Len(queue) + 1] = row /\ \A i \in DOMAIN queue : queue'[i] = queue[i]
  BY <1>3, <1>4, Appended
<1>9. ASSUME Cur \notin cut PROVE EndsWell'
  <2>1. EndsWell
    BY <1>4, <1>6, <1>9 DEF Recording
  <2>2. ASSUME NEW q \in Policies PROVE Summed(q)'
    <3>1. Summed(q) /\ Total(q)' = Total(q)
      BY <1>4, <2>1 DEF EndsWell, Total
    <3>2. view'.summary[q] \in {NoSummary, Total(q)}
      BY <1>4, <3>1 DEF Summed
    <3>3. \A i \in DOMAIN queue' : queue'[i].op = "summary" /\ queue'[i].policy = q => queue'[i].trades = Total(q)
      BY <1>3, <1>8, <3>1 DEF Summed
    <3>4. q \notin todo'.left =>
            \/ view'.summary[q] = Total(q)
            \/ \E i \in DOMAIN queue' : queue'[i].op = "summary" /\ queue'[i].policy = q
      <4>1. CASE q = p
        BY <1>3, <1>8, <4>1
      <4>2. CASE q # p
        <5>1. q \notin todo'.left => q \notin todo.left
          BY <1>2, <4>2
        <5>2. \A i \in DOMAIN queue : i \in DOMAIN queue' /\ queue'[i] = queue[i]
          BY <1>8
        <5> QED
          BY <1>4, <3>1, <5>1, <5>2 DEF Summed
      <4> QED
        BY <4>1, <4>2
    <3> QED
      BY <3>1, <3>2, <3>3, <3>4 DEF Summed
  <2>3. ~FinalQueued' /\ view'.status \notin Ended
    BY <1>2, <1>7 DEF Stopping
  <2> QED
    BY <1>2, <1>4, <2>1, <2>2, <2>3 DEF EndsWell, FinalQueued
<1>10. Recording'
  BY <1>4, <1>5, <1>6, <1>7, <1>9 DEF Recording
<1> QED
  BY <1>2, <1>10, PutsRows DEF Kept

LEMMA PutFinalKept == ASSUME TP, Kept, PutFinal PROVE Kept'
<1> DEFINE row == FinalRow(todo.status)
<1>1. /\ Put /\ Told /\ todo.step = "summary" /\ todo.left = {} /\ ses' = ses /\ proc # "none"
      /\ todo'.step = "stop" /\ todo'.left = {} /\ Queued(row)
  BY DEF Put, PutFinal, Settled, TP, Typed, Todos
<1>2. row \in Statements /\ row.op = "final"
  BY <1>1, StatementsTyped DEF FinalRow, TP, Placed
<1> HIDE DEF row
<1>3. /\ UNCHANGED <<made, proc, writer, view, db, cut, slips>> /\ Recording /\ Cur' = Cur
      /\ queue' = Append(queue, row) /\ queue \in Seq(Statements)
  BY <1>1, Puts DEF Queued
<1>4. Started' /\ ShownLast' /\ \A q \in Policies : NothingLost(q)'
  BY <1>1, <1>2, PutsStarted, PutsShown, PutsLost
<1>5. Closing /\ proc # "up" /\ (Closing' <=> Closing) /\ Stopping
  BY <1>1, <1>3 DEF TP, Placed, Typed, Closing, Recording
<1>6. /\ DOMAIN queue' = 1 .. Len(queue) + 1 /\ DOMAIN queue = 1 .. Len(queue) /\ Len(queue) \in Nat
      /\ queue'[Len(queue) + 1] = row /\ \A i \in DOMAIN queue : queue'[i] = queue[i]
  BY <1>2, <1>3, Appended
<1>7. /\ \A i \in DOMAIN queue : queue[i].op \notin {"final", "stop"}
      /\ view.status \notin Ended /\ writer = "alive"
  BY <1>1, <1>5 DEF Stopping, FinalQueued
<1>8. Stopping'
  <2>1. FinalQueued'
    BY <1>2, <1>6 DEF FinalQueued
  <2>2. \A i, j \in DOMAIN queue' : queue'[i].op = "final" /\ i < j => queue'[j].op # "final"
    BY <1>2, <1>6, <1>7
  <2>3. \A i \in DOMAIN queue' : queue'[i].op # "stop"
    BY <1>2, <1>6, <1>7
  <2> QED
    BY <1>1, <1>3, <1>7, <2>1, <2>2, <2>3 DEF Stopping
<1>9. ASSUME Cur \notin cut PROVE EndsWell'
  <2>1. EndsWell
    BY <1>3, <1>5, <1>9 DEF Recording
  <2>2. ASSUME NEW q \in Policies PROVE Summed(q)'
    <3>1. Summed(q) /\ Total(q)' = Total(q)
      BY <1>3, <2>1 DEF EndsWell, Total
    <3>2. \A i \in DOMAIN queue' : queue'[i].op = "summary" => i \in DOMAIN queue /\ queue'[i] = queue[i]
      BY <1>2, <1>6
    <3>3. \A i \in DOMAIN queue : i \in DOMAIN queue' /\ queue'[i] = queue[i]
      BY <1>6
    <3> QED
      BY <1>1, <1>3, <3>1, <3>2, <3>3 DEF Summed
  <2>3. Told'
    BY <1>1, <1>3 DEF Told
  <2>4. \A i, j \in DOMAIN queue' : queue'[i].op = "final" /\ i < j => queue'[j].op = "stop"
    BY <1>6, <1>7
  <2> QED
    BY <1>1, <1>3, <1>7, <2>1, <2>2, <2>3, <2>4 DEF EndsWell
<1>10. Recording'
  BY <1>3, <1>4, <1>5, <1>8, <1>9 DEF Recording
<1> QED
  BY <1>1, <1>10, PutsRows DEF Kept

LEMMA PutStopKept == ASSUME TP, Kept, PutStop PROVE Kept'
<1>1. /\ Put /\ todo.step = "stop" /\ ses' = ses /\ todo'.step = "nothing" /\ todo'.left = {}
      /\ Queued(StopWriter) /\ StopWriter \in Statements /\ StopWriter.op = "stop"
  BY TodoTyped, StatementsTyped DEF Put, PutStop, Nothing, StopWriter
<1>2. /\ UNCHANGED <<made, proc, writer, view, db, cut, slips>> /\ Recording /\ Cur' = Cur
      /\ queue' = Append(queue, StopWriter) /\ queue \in Seq(Statements) /\ proc # "none"
  BY <1>1, Puts DEF Queued
<1>3. Started' /\ ShownLast' /\ \A q \in Policies : NothingLost(q)'
  BY <1>1, PutsStarted, PutsShown, PutsLost
<1>4. Closing /\ proc # "up" /\ (Closing' <=> Closing) /\ Stopping /\ AllPut /\ AllPut'
  BY <1>1, <1>2 DEF TP, Placed, Typed, Closing, Recording, AllPut
<1>5. /\ DOMAIN queue' = 1 .. Len(queue) + 1 /\ DOMAIN queue = 1 .. Len(queue) /\ Len(queue) \in Nat
      /\ queue'[Len(queue) + 1] = StopWriter /\ \A i \in DOMAIN queue : queue'[i] = queue[i]
  BY <1>1, <1>2, Appended
<1>6. /\ \A i \in DOMAIN queue' : queue'[i].op \notin {"stop"} => i \in DOMAIN queue /\ queue'[i] = queue[i]
      /\ \A i \in DOMAIN queue' : queue'[i].op = "stop" => i = Len(queue) + 1
      /\ writer = "alive"
  <2>1. \A i \in DOMAIN queue : queue[i].op # "stop"
    BY <1>1, <1>4 DEF Stopping
  <2> QED
    BY <1>1, <1>4, <1>5, <2>1 DEF Stopping
<1>7. FinalQueued' <=> FinalQueued
  BY <1>5, <1>6 DEF FinalQueued
<1>8. Stopping'
  <2>1. \A i, j \in DOMAIN queue' : queue'[i].op = "final" /\ i < j => queue'[j].op # "final"
    BY <1>4, <1>5, <1>6 DEF Stopping
  <2>2. ASSUME NEW i \in DOMAIN queue', queue'[i].op = "stop", NEW j \in DOMAIN queue', queue'[j].op = "final"
        PROVE  j < i
    BY <1>5, <1>6, <2>2
  <2>3. /\ todo'.step = "summary" => ~FinalQueued' /\ view'.status \notin Ended
        /\ AllPut' => FinalQueued' \/ view'.status \in Ended
        /\ writer' # "alive" => view'.status \in Ended /\ AllPut' /\ todo'.step = "nothing"
        /\ FinalQueued' => view'.status \notin Ended
    BY <1>1, <1>2, <1>4, <1>6, <1>7 DEF Stopping
  <2> QED
    BY <1>1, <2>1, <2>2, <2>3 DEF Stopping
<1>9. ASSUME Cur \notin cut PROVE EndsWell'
  <2>1. EndsWell
    BY <1>2, <1>4, <1>9 DEF Recording
  <2>2. ASSUME NEW q \in Policies PROVE Summed(q)'
    <3>1. Summed(q) /\ Total(q)' = Total(q) /\ q \notin todo.left
      BY <1>1, <1>2, <2>1 DEF EndsWell, Total
    <3>2. \A i \in DOMAIN queue : i \in DOMAIN queue' /\ queue'[i] = queue[i]
      BY <1>5
    <3> QED
      BY <1>1, <1>2, <1>6, <3>1, <3>2 DEF Summed
  <2>3. Told'
    BY <1>1, <1>2, <2>1 DEF Told, EndsWell
  <2>4. \A i, j \in DOMAIN queue' : queue'[i].op = "final" /\ i < j => queue'[j].op = "stop"
    BY <1>1, <1>5, <1>6, <2>1 DEF EndsWell
  <2>5. view'.status \in Ended => \A i \in DOMAIN queue' : queue'[i].op = "stop"
    BY <1>2, <1>6, <2>1 DEF EndsWell
  <2> QED
    BY <1>1, <1>2, <2>1, <2>2, <2>3, <2>4, <2>5 DEF EndsWell
<1>10. Recording'
  BY <1>2, <1>3, <1>4, <1>8, <1>9 DEF Recording
<1> QED
  BY <1>1, <1>10, PutsRows DEF Kept

-----------------------------------------------------------------------------
(* Without failed statements: what the writer does.                        *)

\* A statement is executed, and nothing is said twice or out of turn.
LEMMA Applies ==
  ASSUME TP, Kept, Execute, fails' = 0, fails = 0
  PROVE  /\ view' = Apply(view, queue[1]) /\ Recording /\ queue[1] \in Statements
         /\ view \in RowTypes /\ view' \in RowTypes /\ proc # "none" /\ Cur' = Cur /\ writer # "gone"
         /\ writer' = IF queue[1] = StopWriter THEN "stopping" ELSE writer
         /\ UNCHANGED <<made, ses, proc, todo, db, cut, slips>>
         /\ 1 \in DOMAIN queue /\ Len(queue) \in Nat /\ DOMAIN queue = 1 .. Len(queue)
         /\ todo.step # "start"
         /\ \A i \in DOMAIN queue' : /\ i \in Nat /\ i + 1 \in DOMAIN queue /\ queue'[i] = queue[i + 1]
                                     /\ 1 < i + 1
         /\ \A i \in DOMAIN queue : i # 1 => i - 1 \in DOMAIN queue' /\ queue'[i - 1] = queue[i]
<1>1. queue \in Seq(Statements) /\ queue # <<>> /\ queue' = Tail(queue)
  BY DEF Execute, TP, Typed
<1>2. /\ 1 \in DOMAIN queue /\ Len(queue) \in Nat /\ DOMAIN queue = 1 .. Len(queue) /\ Head(queue) = queue[1]
      /\ \A i \in DOMAIN queue' : /\ i \in Nat /\ i + 1 \in DOMAIN queue /\ queue'[i] = queue[i + 1]
                                  /\ 1 < i + 1
      /\ \A i \in DOMAIN queue : i # 1 => i - 1 \in DOMAIN queue' /\ queue'[i - 1] = queue[i]
  BY <1>1, Behead
<1>3. view' = Apply(view, queue[1])
  BY <1>2 DEF Execute
<1>4. /\ UNCHANGED <<made, ses, proc, todo, db, cut, slips>> /\ writer # "gone"
      /\ writer' = IF queue[1] = StopWriter THEN "stopping" ELSE writer
  BY <1>2 DEF Execute
<1>5. proc # "none" /\ todo.step # "start"
  BY <1>1, <1>4 DEF TP, Placed
<1>6. view \in RowTypes /\ view' \in RowTypes /\ queue[1] \in Statements
  BY <1>1, <1>2, <1>3, ApplyTyped DEF TP, Typed
<1> QED
  BY <1>2, <1>3, <1>4, <1>5, <1>6 DEF Kept, Cur

\* The first statement is the start, or there was one.
LEMMA ExecuteStarted ==
  ASSUME TP, Kept, Execute, fails' = 0, fails = 0
  PROVE  /\ Started' /\ view'.status # "none"
         /\ queue[1].op = "start" => view.status = "none" /\ view'.status = "running"
         /\ queue[1].op = "final" => view'.status \in Ended
         /\ queue[1].op \notin {"start", "final"} => view'.status = view.status
<1>1. /\ Started /\ 1 \in DOMAIN queue /\ view' = Apply(view, queue[1]) /\ todo.step # "start"
      /\ view \in RowTypes /\ queue[1] \in Statements
  BY Applies DEF Recording
<1>2. /\ view.status = "none" => queue[1].op = "start"
      /\ queue[1].op = "start" => view.status = "none"
  BY <1>1 DEF Started
<1>n. \A i \in DOMAIN queue' : queue'[i].op # "start"
  BY <1>1, Applies DEF Started
<1>3. CASE queue[1].op \in {"start", "final", "stop"}
  <2>1. /\ queue[1].op = "start" => view.status = "none" /\ view'.status = "running"
        /\ queue[1].op = "final" => view'.status \in Ended
        /\ queue[1].op \notin {"start", "final"} => view'.status = view.status
    BY <1>1, <1>2, <1>3, AppliedStatus
  <2>2. view'.status # "none"
    BY <1>2, <1>3, <2>1 DEF Ended
  <2> QED
    BY <1>2, <1>n, <2>1, <2>2 DEF Started
<1>4. CASE queue[1].op \in {"trade", "open", "summary"}
  <2>1. view'.status = view.status
    BY <1>1, <1>4, AppliedTrade, AppliedOpen, AppliedSummary
  <2> QED
    BY <1>2, <1>4, <1>n, <2>1 DEF Started
<1> QED
  BY <1>1, <1>3, <1>4 DEF Statements

\* The trade that is executed is the one behind those in the rows.
LEMMA ExecuteLost ==
  ASSUME TP, RowsOrdered, Kept, Execute, fails' = 0, fails = 0, NEW p \in Policies
  PROVE  NothingLost(p)'
<1> DEFINE ns == view.trades[p]
<1>1. /\ proc # "none" /\ ses' = ses /\ 1 \in DOMAIN queue /\ queue[1] \in Statements
      /\ \A i \in DOMAIN queue : i # 1 => i - 1 \in DOMAIN queue' /\ queue'[i - 1] = queue[i]
      /\ \A i \in DOMAIN queue : i \in Nat /\ (i # 1 => 1 < i)
      /\ view \in RowTypes /\ view' = Apply(view, queue[1])
  BY Applies
<1>2. /\ \A k \in DOMAIN ns : ns[k] = k
      /\ \A n \in Len(ns) + 1 .. ses.sent[p] : \E i \in DOMAIN queue : queue[i] = TradeRow(p, n)
  BY Applies DEF Recording, NothingLost
<1>3. /\ ns \in Seq(Nat) /\ Len(ns) \in Nat /\ DOMAIN ns = 1 .. Len(ns) /\ ses.sent[p] \in Nat
  BY <1>1, RowTyped, Running
<1>4. QueueBehind
  BY <1>1 DEF RowsOrdered
<1>5. CASE queue[1].op = "trade" /\ queue[1].policy = p
  <2> DEFINE n == queue[1].trade
  <2>1. /\ n \in 1 .. ses.sent[p] /\ \A k \in DOMAIN ns : ns[k] < n
    <3>1. /\ queue[1].trade \in 1 .. ses.sent[queue[1].policy]
          /\ \A k \in DOMAIN view.trades[queue[1].policy] :
               view.trades[queue[1].policy][k] < queue[1].trade
      BY <1>1, <1>4, <1>5 DEF QueueBehind
    <3> QED
      BY <1>5, <3>1
  <2>2. n \in Nat /\ n >= Len(ns) + 1
    <3>1. n \in Nat /\ n >= 1
      BY <1>3, <2>1
    <3>2. CASE Len(ns) = 0
      BY <3>1, <3>2
    <3>3. CASE Len(ns) # 0
      <4>1. Len(ns) \in DOMAIN ns
        BY <1>3, <3>3
      <4>2. Len(ns) < n
        BY <1>2, <2>1, <4>1
      <4> QED
        BY <1>3, <3>1, <4>2
    <3> QED
      BY <3>2, <3>3
  <2>3. n = Len(ns) + 1
    <3> SUFFICES ASSUME n > Len(ns) + 1 PROVE FALSE
      BY <1>3, <2>2
    <3> DEFINE m == Len(ns) + 1
    <3>1. m \in Len(ns) + 1 .. ses.sent[p]
      BY <1>3, <2>1, <2>2
    <3>2. PICK i \in DOMAIN queue : queue[i] = TradeRow(p, m)
      BY <1>2, <3>1
    <3>3. queue[i].op = "trade" /\ queue[i].policy = p /\ queue[i].trade = m
      BY <3>2 DEF TradeRow
    <3>4. i # 1
      BY <1>3, <3>3
    <3>5. n < m
      BY <1>1, <1>4, <1>5, <3>3, <3>4 DEF QueueBehind
    <3> QED
      BY <1>3, <2>2, <3>5
  <2>4. view'.trades[p] = Append(ns, n)
    <3>1. view'.trades = [view.trades EXCEPT ![queue[1].policy] = Append(view.trades[queue[1].policy], queue[1].trade)]
      BY <1>1, <1>5, AppliedTrade
    <3>2. view.trades \in [Policies -> Seq(Nat)]
      BY <1>1 DEF RowTypes
    <3> QED
      BY <1>5, <3>1, <3>2
  <2> HIDE DEF n, ns
  <2>5. /\ DOMAIN view'.trades[p] = 1 .. Len(ns) + 1 /\ Len(view'.trades[p]) = Len(ns) + 1
        /\ \A k \in DOMAIN ns : view'.trades[p][k] = ns[k]
        /\ view'.trades[p][Len(ns) + 1] = n
    BY <1>3, <2>2, <2>4, Appended
  <2>6. ASSUME NEW k \in DOMAIN view'.trades[p] PROVE view'.trades[p][k] = k
    <3>1. CASE k \in DOMAIN ns
      BY <1>2, <2>5, <3>1 DEF ns
    <3>2. CASE k = Len(ns) + 1
      BY <2>3, <2>5, <3>2
    <3>3. DOMAIN ns = 1 .. Len(ns) /\ Len(ns) \in Nat
      BY <1>3 DEF ns
    <3> QED
      BY <2>5, <3>1, <3>2, <3>3
  <2>7. ASSUME NEW m \in Len(ns) + 2 .. ses.sent[p]
        PROVE  \E i \in DOMAIN queue' : queue'[i] = TradeRow(p, m)
    <3>1. m \in Len(ns) + 1 .. ses.sent[p] /\ m # n
      BY <1>3, <2>3
    <3>2. PICK i \in DOMAIN queue : queue[i] = TradeRow(p, m)
      BY <1>2, <3>1 DEF ns
    <3>3. i # 1
      BY <3>1, <3>2 DEF TradeRow, n
    <3> QED
      BY <1>1, <3>2, <3>3
  <2>8. ses'.sent[p] = ses.sent[p] /\ Len(view'.trades[p]) + 1 = Len(ns) + 2
    BY <1>1, <1>3, <2>5
  <2> QED
    BY <2>6, <2>7, <2>8 DEF NothingLost
<1>6. CASE ~(queue[1].op = "trade" /\ queue[1].policy = p)
  <2>1. view'.trades[p] = ns
    BY <1>6, Executed
  <2>2. ASSUME NEW m \in Len(ns) + 1 .. ses.sent[p]
        PROVE  \E i \in DOMAIN queue' : queue'[i] = TradeRow(p, m)
    <3>1. PICK i \in DOMAIN queue : queue[i] = TradeRow(p, m)
      BY <1>2
    <3>2. i # 1
      BY <1>6, <3>1 DEF TradeRow
    <3> QED
      BY <1>1, <3>1, <3>2
  <2> QED
    BY <1>1, <1>2, <2>1, <2>2 DEF NothingLost
<1> QED
  BY <1>5, <1>6

LEMMA ExecuteShown ==
  ASSUME TP, Kept, Execute, fails' = 0, fails = 0
  PROVE  ShownLast'
<1>1. /\ ShownLast /\ ses' = ses /\ 1 \in DOMAIN queue /\ queue[1] \in Statements
      /\ \A i \in DOMAIN queue' : /\ i \in Nat /\ i + 1 \in DOMAIN queue /\ queue'[i] = queue[i + 1]
                                  /\ 1 < i + 1
      /\ \A i \in DOMAIN queue : i # 1 => i - 1 \in DOMAIN queue' /\ queue'[i - 1] = queue[i]
      /\ \A i \in DOMAIN queue : i \in Nat
      /\ view' = Apply(view, queue[1]) /\ view \in RowTypes
  BY Applies DEF Recording
<1>2. queue[1].op # "open" => view'.open = view.open
  BY Executed
<1>3. queue[1].op = "open" => view'.open = queue[1].entry
  BY <1>1, AppliedOpen
<1>4. CASE view.open = ses.shown /\ \A i \in DOMAIN queue : queue[i].op # "open"
  BY <1>1, <1>2, <1>4 DEF ShownLast
<1>5. ASSUME NEW i \in DOMAIN queue, queue[i].op = "open", queue[i].entry = ses.shown,
             \A j \in DOMAIN queue : i < j => queue[j].op # "open"
      PROVE  ShownLast'
  <2>1. CASE i = 1
    <3>1. view'.open = ses'.shown
      BY <1>1, <1>3, <1>5, <2>1
    <3>2. \A j \in DOMAIN queue' : queue'[j].op # "open"
      BY <1>1, <1>5, <2>1
    <3> QED
      BY <3>1, <3>2 DEF ShownLast
  <2>2. CASE i # 1
    <3>1. i - 1 \in DOMAIN queue' /\ queue'[i - 1] = queue[i]
      BY <1>1, <2>2
    <3>2. ASSUME NEW j \in DOMAIN queue', i - 1 < j PROVE queue'[j].op # "open"
      <4>1. i < j + 1
        BY <1>1, <3>2
      <4> QED
        BY <1>1, <1>5, <4>1
    <3> QED
      BY <1>1, <1>5, <3>1, <3>2 DEF ShownLast
  <2> QED
    BY <2>1, <2>2
<1> QED
  BY <1>1, <1>4, <1>5 DEF ShownLast

LEMMA ExecuteGoesOn ==
  ASSUME TP, Kept, Execute, fails' = 0, fails = 0, proc = "up"
  PROVE  GoesOn'
<1>1. /\ GoesOn /\ 1 \in DOMAIN queue /\ queue[1] \in Statements /\ UNCHANGED <<db>> /\ Cur' = Cur
      /\ \A i \in DOMAIN queue' : i + 1 \in DOMAIN queue /\ queue'[i] = queue[i + 1]
      /\ writer' = IF queue[1] = StopWriter THEN "stopping" ELSE writer
      /\ view' = Apply(view, queue[1]) /\ view \in RowTypes
  BY Applies DEF Recording
<1>2. queue[1].op \in {"start", "trade", "open"} /\ queue[1] # StopWriter
  BY <1>1 DEF GoesOn, StopWriter
<1>3. view'.summary = view.summary
  BY <1>1, <1>2, AppliedStatus, AppliedTrade, AppliedOpen
<1>4. view'.status \in {"none", "running"}
  BY <1>1, <1>2, ExecuteStarted DEF GoesOn
<1> QED
  BY <1>1, <1>2, <1>3, <1>4 DEF GoesOn

LEMMA ExecuteStopping ==
  ASSUME TP, Kept, Execute, fails' = 0, fails = 0, Closing
  PROVE  Stopping'
<1>1. /\ Stopping /\ 1 \in DOMAIN queue /\ UNCHANGED <<proc, todo>>
      /\ \A i \in DOMAIN queue' : /\ i \in Nat /\ i + 1 \in DOMAIN queue /\ queue'[i] = queue[i + 1]
                                  /\ 1 < i + 1
      /\ \A i \in DOMAIN queue : i # 1 => i - 1 \in DOMAIN queue' /\ queue'[i - 1] = queue[i]
      /\ \A i \in DOMAIN queue : i \in Nat /\ ~(i < 1)
      /\ writer' = IF queue[1] = StopWriter THEN "stopping" ELSE writer
  BY Applies DEF Recording
<1>2. /\ queue[1].op = "start" => view.status = "none" /\ view'.status = "running"
      /\ queue[1].op = "final" => view'.status \in Ended
      /\ queue[1].op \notin {"start", "final"} => view'.status = view.status
  BY ExecuteStarted
<1>3. (AllPut' <=> AllPut) /\ (FinalQueued' => FinalQueued)
  BY <1>1 DEF AllPut, Closing, FinalQueued
<1>4. queue[1].op # "final" => (FinalQueued => FinalQueued') /\ (view.status \in Ended <=> view'.status \in Ended)
  <2>1. ASSUME queue[1].op # "final", NEW i \in DOMAIN queue, queue[i].op = "final" PROVE FinalQueued'
    <3>1. i # 1
      BY <2>1
    <3> QED
      BY <1>1, <2>1, <3>1 DEF FinalQueued
  <2> QED
    BY <1>2, <2>1 DEF FinalQueued, Ended
<1>5. queue[1].op = "final" => ~FinalQueued' /\ FinalQueued
  <2>1. ASSUME queue[1].op = "final", NEW i \in DOMAIN queue' PROVE queue'[i].op # "final"
    BY <1>1, <2>1 DEF Stopping
  <2> QED
    BY <1>1, <2>1 DEF FinalQueued
<1>6. ASSUME writer' # "alive" PROVE view'.status \in Ended /\ AllPut /\ todo.step = "nothing"
  <2>1. CASE writer # "alive"
    <3>1. view.status \in Ended /\ AllPut /\ todo.step = "nothing"
      BY <1>1, <2>1 DEF Stopping
    <3> QED
      BY <1>2, <1>4, <3>1
  <2>2. CASE queue[1] = StopWriter
    <3>1. queue[1].op = "stop" /\ queue[1].op # "final"
      BY <2>2 DEF StopWriter
    <3>2. todo.step = "nothing" /\ ~FinalQueued
      BY <1>1, <3>1 DEF Stopping, FinalQueued
    <3>3. AllPut
      BY <3>2 DEF AllPut
    <3> QED
      BY <1>1, <1>4, <3>1, <3>2, <3>3 DEF Stopping
  <2> QED
    BY <1>1, <1>6, <2>1, <2>2
<1>7. ASSUME NEW i \in DOMAIN queue', queue'[i].op = "stop"
      PROVE  todo'.step = "nothing" /\ \A j \in DOMAIN queue' : queue'[j].op = "final" => j < i
  <2>1. i + 1 \in DOMAIN queue /\ queue[i + 1].op = "stop"
    BY <1>1, <1>7
  <2>2. todo.step = "nothing" /\ \A j \in DOMAIN queue : queue[j].op = "final" => j < i + 1
    BY <1>1, <2>1 DEF Stopping
  <2>3. ASSUME NEW j \in DOMAIN queue', queue'[j].op = "final" PROVE j < i
    <3>1. j + 1 < i + 1
      BY <1>1, <2>2, <2>3
    <3> QED
      BY <1>1, <3>1
  <2> QED
    BY <1>1, <2>2, <2>3
<1>8. ASSUME NEW i \in DOMAIN queue', NEW j \in DOMAIN queue', queue'[i].op = "final", i < j
      PROVE  queue'[j].op # "final"
  <2>1. i + 1 < j + 1
    BY <1>1, <1>8
  <2> QED
    BY <1>1, <1>8, <2>1 DEF Stopping
<1>9. /\ todo'.step = "summary" => ~FinalQueued' /\ view'.status \notin Ended
      /\ FinalQueued' => view'.status \notin Ended
  <2>1. CASE queue[1].op = "final"
    BY <1>1, <1>5, <2>1 DEF Stopping
  <2>2. CASE queue[1].op # "final"
    BY <1>1, <1>3, <1>4, <2>2 DEF Stopping
  <2> QED
    BY <2>1, <2>2
<1>10. AllPut' => FinalQueued' \/ view'.status \in Ended
  BY <1>1, <1>2, <1>3, <1>4 DEF Stopping
<1> QED
  BY <1>1, <1>3, <1>6, <1>7, <1>8, <1>9, <1>10 DEF Stopping

LEMMA ExecuteWell ==
  ASSUME TP, Kept, Execute, fails' = 0, fails = 0, Closing, Cur \notin cut
  PROVE  EndsWell'
<1>1. /\ EndsWell /\ 1 \in DOMAIN queue /\ UNCHANGED <<made, ses, proc, todo>> /\ Cur' = Cur
      /\ \A i \in DOMAIN queue' : /\ i \in Nat /\ i + 1 \in DOMAIN queue /\ queue'[i] = queue[i + 1]
                                  /\ 1 < i + 1
      /\ \A i \in DOMAIN queue : i # 1 => i - 1 \in DOMAIN queue' /\ queue'[i - 1] = queue[i]
      /\ view' = Apply(view, queue[1]) /\ view \in RowTypes /\ queue[1] \in Statements
  BY Applies DEF Recording
<1>2. ASSUME NEW p \in Policies PROVE Summed(p)'
  <2>1. Summed(p) /\ Total(p)' = Total(p)
    BY <1>1 DEF EndsWell, Total
  <2>2. CASE queue[1].op = "summary" /\ queue[1].policy = p
    <3>1. view'.summary = [view.summary EXCEPT ![queue[1].policy] = queue[1].trades]
      BY <1>1, <2>2, AppliedSummary
    <3>2. view.summary \in [Policies -> Int]
      BY <1>1 DEF RowTypes
    <3>3. view'.summary[p] = Total(p)
      BY <1>1, <2>1, <2>2, <3>1, <3>2 DEF Summed
    <3> QED
      BY <1>1, <2>1, <3>3 DEF Summed
  <2>3. CASE ~(queue[1].op = "summary" /\ queue[1].policy = p)
    <3>1. view'.summary[p] = view.summary[p]
      BY <2>3, Executed
    <3>2. \A i \in DOMAIN queue : queue[i].op = "summary" /\ queue[i].policy = p =>
                                    i - 1 \in DOMAIN queue' /\ queue'[i - 1] = queue[i]
      BY <1>1, <2>3
    <3>3. p \notin todo.left =>
            \/ view'.summary[p] = Total(p)
            \/ \E i \in DOMAIN queue' : queue'[i].op = "summary" /\ queue'[i].policy = p
      BY <2>1, <3>1, <3>2 DEF Summed
    <3> QED
      BY <1>1, <2>1, <3>1, <3>3 DEF Summed
  <2> QED
    BY <2>2, <2>3
<1>3. ASSUME NEW i \in DOMAIN queue', NEW j \in DOMAIN queue', queue'[i].op = "final", i < j
      PROVE  queue'[j].op = "stop"
  <2>1. i + 1 < j + 1
    BY <1>1, <1>3
  <2> QED
    BY <1>1, <1>3, <2>1 DEF EndsWell
<1>4. ASSUME view'.status \in Ended, NEW i \in DOMAIN queue' PROVE queue'[i].op = "stop"
  <2>1. CASE queue[1].op = "final"
    BY <1>1, <2>1 DEF EndsWell
  <2>2. CASE queue[1].op # "final"
    <3>1. view.status \in Ended
      BY <1>4, <2>2, ExecuteStarted DEF Ended
    <3> QED
      BY <1>1, <3>1 DEF EndsWell
  <2> QED
    BY <2>1, <2>2
<1> QED
  BY <1>1, <1>2, <1>3, <1>4 DEF EndsWell, Told

LEMMA ExecuteKept == ASSUME TP, RowsOrdered, Kept, Execute, fails' = 0, fails = 0 PROVE Kept'
<1>1. /\ proc # "none" /\ UNCHANGED <<made, ses, proc, todo, db, cut, slips>> /\ Cur' = Cur
      /\ writer # "gone" /\ writer' \in {writer, "stopping"}
  BY Applies
<1>2. Started' /\ ShownLast' /\ \A p \in Policies : NothingLost(p)'
  BY ExecuteStarted, ExecuteShown, ExecuteLost
<1>3. Recording'
  BY <1>1, <1>2, ExecuteGoesOn, ExecuteStopping, ExecuteWell DEF Recording, Closing
<1> QED
  BY <1>1, <1>3 DEF Kept, EndedRows, AllEnd

\* A row that says that the session ended is complete when it is committed.
LEMMA EndedIsWhole ==
  ASSUME TP, RowsOrdered, Recording, proc # "none", Cur \notin cut, view.status \in Ended
  PROVE  Complete(view, made[Cur])
<1>1. EndsWell /\ Stopping
  BY DEF Recording, GoesOn, TP, Typed, Closing, Ended
<1>2. /\ Told /\ todo.left = {} /\ \A p \in Policies : Summed(p) /\ ses.pos[p] = 0
      /\ \A i \in DOMAIN queue : queue[i].op = "stop"
  BY <1>1 DEF EndsWell, Stopping
<1>3. view.open = 0
  BY <1>2, RecordAssumption DEF Recording, ShownLast, Told, RecordAssumption
<1>4. ASSUME NEW p \in Policies
      PROVE  /\ view.summary[p] = Len(made[Cur][p]) /\ Len(view.trades[p]) = Len(made[Cur][p])
             /\ \A k \in DOMAIN view.trades[p] : view.trades[p][k] = k
  <2>1. view.summary[p] = Len(made[Cur][p])
    BY <1>2 DEF Summed, Total
  <2> DEFINE ns == view.trades[p]
  <2>2. /\ Len(ns) \in Nat /\ DOMAIN ns = 1 .. Len(ns) /\ ses.sent[p] \in Nat
        /\ ses.sent[p] = Len(made[Cur][p])
    BY <1>2, RowTyped, Running DEF TP, Typed, Told
  <2>3. /\ \A k \in DOMAIN ns : ns[k] = k /\ ns[k] <= ses.sent[p]
        /\ \A n \in Len(ns) + 1 .. ses.sent[p] : \E i \in DOMAIN queue : queue[i] = TradeRow(p, n)
    BY DEF Recording, NothingLost, RowsOrdered
  <2>4. Len(ns) >= ses.sent[p]
    <3> SUFFICES ASSUME Len(ns) < ses.sent[p] PROVE FALSE
      BY <2>2
    <3>1. Len(ns) + 1 \in Len(ns) + 1 .. ses.sent[p]
      BY <2>2
    <3>2. PICK i \in DOMAIN queue : queue[i] = TradeRow(p, Len(ns) + 1)
      BY <2>3, <3>1
    <3> QED
      BY <1>2, <3>2 DEF TradeRow
  <2>5. Len(ns) <= ses.sent[p]
    <3>1. CASE Len(ns) = 0
      BY <2>2, <3>1
    <3>2. CASE Len(ns) # 0
      <4>1. Len(ns) \in DOMAIN ns
        BY <2>2, <3>2
      <4> QED
        BY <2>3, <4>1
    <3> QED
      BY <3>1, <3>2
  <2> QED
    BY <2>1, <2>2, <2>3, <2>4, <2>5
<1> QED
  BY <1>3, <1>4 DEF Complete

LEMMA CommitKept == ASSUME TP, RowsOrdered, Kept, Commit PROVE Kept'
<1>1. /\ proc # "none" /\ Recording /\ UNCHANGED <<made, ses, proc, todo, queue, view, cut>> /\ Cur' = Cur
      /\ (db' = [db EXCEPT ![Cur] = view] /\ slips' = slips) \/ (db' = db /\ slips' # 0)
      /\ writer # "gone" /\ writer' = IF writer = "stopping" THEN "gone" ELSE writer
  BY SlipCounted DEF Commit, TP, Placed, Kept, NoSlip, bounds, Cur
<1>2. /\ db \in Seq(RowTypes) /\ Cur \in 1 .. Len(db) /\ view \in RowTypes /\ Len(db') = Len(db)
      /\ db'[Cur] \in {db[Cur], view} /\ \A s \in 1 .. Len(db) : s # Cur => db'[s] = db[s]
  <2>1. db \in Seq(RowTypes) /\ Cur \in 1 .. Len(db) /\ view \in RowTypes
    BY <1>1, Running DEF TP, Typed
  <2> QED
    BY <1>1, <2>1, Replaced
<1>3. Recording'
  <2>1. Started' /\ ShownLast'
    BY <1>1 DEF Recording, Started, ShownLast
  <2>2. ASSUME NEW p \in Policies PROVE NothingLost(p)'
    BY <1>1 DEF Recording, NothingLost
  <2>3. proc = "up" => GoesOn'
    BY <1>1, <1>2 DEF Recording, GoesOn, Ended
  <2>4. Closing => Stopping'
    BY <1>1 DEF Recording, Stopping, FinalQueued, AllPut, Closing
  <2>5. Closing /\ Cur \notin cut => EndsWell'
    <3>1. ASSUME NEW p \in Policies PROVE Summed(p)' <=> Summed(p)
      BY <1>1 DEF Summed, Total
    <3> QED
      BY <1>1, <3>1 DEF Recording, EndsWell, Told
  <2> QED
    BY <1>1, <2>1, <2>2, <2>3, <2>4, <2>5 DEF Recording, Closing
<1>4. EndedRows'
  <2> SUFFICES ASSUME NEW s \in 1 .. Len(db), s \notin cut, db'[s].status \in Ended
               PROVE  Complete(db'[s], made[s])
    BY <1>1, <1>2 DEF EndedRows
  <2>1. CASE db'[s] = db[s]
    BY <2>1 DEF Kept, EndedRows
  <2>2. CASE s = Cur /\ db'[s] = view
    BY <1>1, <2>2, EndedIsWhole
  <2> QED
    BY <1>2, <2>1, <2>2
<1>5. AllEnd'
  <2> SUFFICES ASSUME slips' = 0 PROVE AllEnd'
    BY DEF AllEnd
  <2>1. slips = 0 /\ AllEnd /\ db' = [db EXCEPT ![Cur] = view]
    BY <1>1 DEF Kept
  <2>2. \A s \in 1 .. Len(db') : s < Cur => db'[s].status \in Ended
    <3>1. Cur \in Nat
      BY <1>2
    <3> QED
      BY <1>2, <2>1, <3>1 DEF AllEnd
  <2>3. proc # "leaving"
    BY <1>1, <2>1 DEF AllEnd
  <2>4. writer' = "gone" => db'[Cur].status \in Ended
    <3>1. ASSUME writer' = "gone" PROVE view.status \in Ended
      BY <1>1, <3>1 DEF Recording, GoesOn, Stopping, Closing, TP, Typed
    <3> QED
      BY <1>2, <2>1, <3>1, Replaced
  <2> QED
    BY <1>1, <2>2, <2>3, <2>4 DEF AllEnd
<1> QED
  BY <1>1, <1>3, <1>4, <1>5 DEF Kept

LEMMA KeptNext ==
  ASSUME OrderInv, fails = 0 => Kept, [Next]_vars
  PROVE  fails' = 0 => Kept'
<1> SUFFICES ASSUME fails' = 0 PROVE Kept'
  OBVIOUS
<1>1. TP /\ TP' /\ BooksOrdered /\ RowsOrdered
  BY TypedNext DEF OrderInv, TP
<1>2. fails = 0
  <2>1. UNCHANGED fails \/ Execute
    BY DEF Next, StartSession, Feed, EngineCloses, Done, Stopped, EndFlat, EndOpen, Put, PutStart, PutTrade,
           PutOpen, PutSummary, PutFinal, PutStop, Queued, Joined, Joins, Exit, Kill, Commit,
           Slip, NoSlip, bounds, vars
  <2>2. Execute => UNCHANGED fails \/ fails' = fails + 1
    BY DEF Execute
  <2> QED
    BY <1>1, <2>1, <2>2 DEF TP, Typed
<1>3. Kept
  BY <1>2
<1>4. CASE UNCHANGED vars
  <2>1. UNCHANGED <<made, ses, proc, todo, queue, writer, view, db, cut, slips>>
    BY <1>4 DEF vars, recorder, bounds
  <2>2. Recording => Recording'
    <3>1. ASSUME NEW p \in Policies PROVE (NothingLost(p)' <=> NothingLost(p)) /\ (Summed(p)' <=> Summed(p))
      BY <2>1 DEF NothingLost, Summed, Total, Cur
    <3>2. (EndsWell' <=> EndsWell) /\ (Stopping' <=> Stopping) /\ (GoesOn' <=> GoesOn)
      BY <2>1, <3>1 DEF EndsWell, Told, Stopping, FinalQueued, AllPut, Closing, GoesOn, Cur
    <3> QED
      BY <2>1, <3>1, <3>2 DEF Recording, Started, ShownLast, Closing, Cur
  <2> QED
    BY <1>3, <2>1, <2>2 DEF Kept, EndedRows, AllEnd, Cur
<1>5. CASE Next
  BY <1>1, <1>2, <1>3, <1>5, StartKept, FeedKept, EngineClosesKept, EndsKept, JoinedKept, DiesKept,
     PutStartKept, PutTradeKept, PutOpenKept, PutSummaryKept, PutFinalKept, PutStopKept,
     ExecuteKept, CommitKept DEF Next, Put
<1> QED
  BY <1>4, <1>5

LEMMA RecordAlways == Spec => []RecordInv
<1>1. Init => RecordInv
  <2> SUFFICES ASSUME Init PROVE RecordInv
    OBVIOUS
  <2>1. Len(made) = 0 /\ Len(db) = 0 /\ proc = "none"
    BY DEF Init
  <2>2. Kept
    BY <2>1 DEF Kept, EndedRows, AllEnd
  <2> QED
    BY <2>2, OrderInit DEF RecordInv
<1>2. RecordInv /\ [Next]_vars => RecordInv'
  BY OrderNext, KeptNext DEF RecordInv
<1> QED
  BY <1>1, <1>2, PTL DEF Spec

\* EndedIsComplete: as long as no statement failed, for any faults besides, a row that
\* says that its session ended has every trade, totals that match them, and no position.
THEOREM EndedComplete == Spec => []EndedIsComplete
<1>1. RecordInv => EndedIsComplete
  <2> SUFFICES ASSUME RecordInv, fails = 0, NEW s \in Sessions \ cut
               PROVE  /\ slips = 0 /\ (s < Cur \/ proc = "none") => Final(s)
                      /\ Final(s) =>
                           /\ db[s].open = 0 /\ Page(s).final
                           /\ \A p \in Policies :
                                /\ Page(s).trades[p] = [k \in 1 .. Len(made[s][p]) |-> k]
                                /\ Page(s).totals[p] = Len(made[s][p])
    BY DEF EndedIsComplete
  <2>1. TP /\ Kept /\ s \in 1 .. Len(db) /\ s \in 1 .. Len(made) /\ db[s] \in RowTypes
    BY DEF RecordInv, OrderInv, TP, Typed, Sessions
  <2>2. Final(s) <=> db[s].status \in Ended
    BY DEF Final, Ended
  <2>3. slips = 0 /\ (s < Cur \/ proc = "none") => Final(s)
    BY <2>1, <2>2 DEF Kept, AllEnd
  <2>4. ASSUME Final(s)
        PROVE  /\ db[s].open = 0 /\ Page(s).final
               /\ \A p \in Policies :
                    /\ Page(s).trades[p] = [k \in 1 .. Len(made[s][p]) |-> k]
                    /\ Page(s).totals[p] = Len(made[s][p])
    <3>1. Complete(db[s], made[s])
      BY <2>1, <2>2, <2>4 DEF Kept, EndedRows
    <3>2. \A p \in Policies : Len(made[s][p]) \in Nat /\ db[s].summary[p] # NoSummary
      BY <2>1, <3>1, MadeTyped DEF Complete, NoSummary
    <3>3. Jev \in Policies
      BY RecordAssumption DEF RecordAssumption
    <3>4. Page(s).final
      BY <3>2, <3>3 DEF Page
    <3>5. ASSUME NEW p \in Policies
          PROVE  /\ Page(s).trades[p] = [k \in 1 .. Len(made[s][p]) |-> k]
                 /\ Page(s).totals[p] = Len(made[s][p])
      <4>1. Page(s).totals[p] = Len(made[s][p])
        BY <3>1, <3>2, <3>5 DEF Page, Shown, Complete
      <4>2. Page(s).trades[p] = db[s].trades[p]
        BY DEF Page
      <4>3. /\ db[s].trades[p] \in Seq(Nat) /\ DOMAIN db[s].trades[p] = 1 .. Len(made[s][p])
            /\ \A k \in 1 .. Len(made[s][p]) : db[s].trades[p][k] = k
        BY <2>1, <3>1, RowTyped DEF Complete
      <4> QED
        BY <3>2, <3>5, <4>1, <4>2, <4>3, Counted
    <3> QED
      BY <3>1, <3>4, <3>5 DEF Complete
  <2> QED
    BY <2>3, <2>4
<1> QED
  BY <1>1, RecordAlways, PTL

-----------------------------------------------------------------------------
(* The day of a feed that cannot replay: its sessions do not overlap.      *)

\* Each session's positions begin behind those of the sessions before it.
SessionsApart ==
  /\ \A s \in 1 .. Len(made), p \in Policies :
       \A k \in DOMAIN made[s][p] : made[s][p][k].entry <= Len(day)
  /\ \A r, s \in 1 .. Len(made), p \in Policies :
       r < s => \A i \in DOMAIN made[r][p], k \in DOMAIN made[s][p] :
                  made[r][p][i].entry < made[s][p][k].entry

\* The session that runs is where the day is, its open positions behind all that.
AtTheEnd ==
  proc # "none" =>
    /\ ses.at = Len(day)
    /\ \A r \in 1 .. Len(made), p \in Policies :
         r < Cur /\ ses.pos[p] # 0 => \A i \in DOMAIN made[r][p] : made[r][p][i].entry < ses.pos[p]

Apart == source = "tradovate" => SessionsApart /\ AtTheEnd

LEMMA LeftFrom ==
  ASSUME TP, proc # "none", NEW P, NEW t \in Nat, NEW p \in Policies, NEW k \in DOMAIN Left(P, t)[p]
  PROVE  \/ k \in DOMAIN made[Cur][p] /\ Left(P, t)[p][k] = made[Cur][p][k]
         \/ ses.pos[p] # 0 /\ Left(P, t)[p][k].entry = ses.pos[p]
<1> DEFINE q == made[Cur][p] x == [entry |-> ses.pos[p], exit |-> t]
<1>1. q \in Seq([entry : Nat, exit : Nat]) /\ ses.pos[p] \in Nat
  BY Running
<1>2. Left(P, t)[p] = IF p \in P /\ ses.pos[p] # 0 THEN Append(q, x) ELSE q
  BY DEF Left
<1>3. x \in [entry : Nat, exit : Nat] /\ x.entry = ses.pos[p]
  BY <1>1
<1> HIDE DEF x
<1>4. CASE p \in P /\ ses.pos[p] # 0
  <2> HIDE DEF q
  <2>1. /\ Left(P, t)[p] = Append(q, x) /\ k \in 1 .. Len(q) + 1 /\ Len(q) \in Nat
        /\ DOMAIN q = 1 .. Len(q) /\ Append(q, x)[Len(q) + 1] = x
        /\ \A i \in DOMAIN q : Append(q, x)[i] = q[i]
    BY <1>1, <1>2, <1>3, <1>4, Appended
  <2>2. CASE k \in DOMAIN q
    BY <2>1, <2>2 DEF q
  <2>3. CASE k = Len(q) + 1
    BY <1>3, <1>4, <2>1, <2>3
  <2> QED
    BY <2>1, <2>2, <2>3
<1>5. CASE ~(p \in P /\ ses.pos[p] # 0)
  BY <1>2, <1>5
<1> QED
  BY <1>4, <1>5

\* A position that is left belongs to the session that runs, behind those before it.
LEMMA LeftApart ==
  ASSUME TP, TP', BooksOrdered, SessionsApart, AtTheEnd, proc # "none",
         NEW P, NEW t \in Nat, ses.at <= t, t <= MaxEvents,
         made' = [made EXCEPT ![Cur] = Left(P, t)], Len(day) <= Len(day')
  PROVE  SessionsApart'
<1>1. /\ Cur \in 1 .. Len(made) /\ made'[Cur] = Left(P, t) /\ Len(made') = Len(made)
      /\ Len(made) \in Nat
      /\ \A s \in 1 .. Len(made) : s # Cur => made'[s] = made[s]
      /\ \A s \in 1 .. Len(made), p \in Policies : Ordered(made'[s][p])
  <2>1. /\ Cur \in 1 .. Len(made) /\ Len(made) > 0 /\ Len(made) \in Nat /\ made \in Seq(TradeLists)
        /\ Left(P, t) \in TradeLists
    BY Running, LeftTyped DEF TP, Typed
  <2>2. /\ made'[Cur] = Left(P, t) /\ Len(made') = Len(made)
        /\ \A s \in 1 .. Len(made) : s # Cur => made'[s] = made[s]
    BY <2>1, Replaced
  <2>3. \A s \in 1 .. Len(made') : \A p \in Policies : Ordered(made'[s][p])
    BY LeftGrows
  <2> QED
    BY <2>1, <2>2, <2>3
<1>2. Len(day) \in Nat /\ Len(day') \in Nat /\ ses.at = Len(day)
  BY DEF TP, Typed, AtTheEnd
<1>3. ASSUME NEW s \in 1 .. Len(made), NEW p \in Policies, NEW k \in DOMAIN made'[s][p]
      PROVE  made'[s][p][k].entry \in Nat
  BY <1>1 DEF Ordered
<1>4. ASSUME NEW s \in 1 .. Len(made), NEW p \in Policies, NEW k \in DOMAIN made'[s][p]
      PROVE  made'[s][p][k].entry <= Len(day')
  <2>1. made'[s][p][k].entry <= Len(day)
    <3>1. CASE s = Cur
      BY <1>1, <1>2, <3>1, LeftOrdered
    <3>2. CASE s # Cur
      BY <1>1, <3>2 DEF SessionsApart
    <3> QED
      BY <3>1, <3>2
  <2>2. made'[s][p][k].entry \in Nat
    BY <1>3
  <2> QED
    BY <1>2, <2>1, <2>2
<1>5. ASSUME NEW r \in 1 .. Len(made), NEW s \in 1 .. Len(made), NEW p \in Policies, r < s,
             NEW i \in DOMAIN made'[r][p], NEW k \in DOMAIN made'[s][p]
      PROVE  made'[r][p][i].entry < made'[s][p][k].entry
  <2>1. r # Cur /\ made'[r] = made[r]
    <3>1. r # Cur
      BY <1>5 DEF Cur
    <3> QED
      BY <1>1, <3>1
  <2>2. CASE s # Cur
    BY <1>1, <1>5, <2>1, <2>2 DEF SessionsApart
  <2>3. CASE s = Cur
    <3>1. \/ k \in DOMAIN made[Cur][p] /\ Left(P, t)[p][k] = made[Cur][p][k]
          \/ ses.pos[p] # 0 /\ Left(P, t)[p][k].entry = ses.pos[p]
      BY <1>1, <2>3, LeftFrom
    <3>2. CASE k \in DOMAIN made[Cur][p] /\ Left(P, t)[p][k] = made[Cur][p][k]
      BY <1>1, <1>5, <2>1, <2>3, <3>2 DEF SessionsApart
    <3>3. CASE ses.pos[p] # 0 /\ Left(P, t)[p][k].entry = ses.pos[p]
      BY <1>1, <1>5, <2>1, <2>3, <3>3 DEF AtTheEnd
    <3> QED
      BY <3>1, <3>2, <3>3
  <2> QED
    BY <2>2, <2>3
<1> QED
  BY <1>1, <1>4, <1>5 DEF SessionsApart

LEMMA ClosesApart ==
  ASSUME TP, TP', BooksOrdered, SessionsApart, AtTheEnd, proc # "none", CloseBooks, day' = day
  PROVE  SessionsApart' /\ AtTheEnd'
<1>1. /\ ses.at \in Nat /\ ses.at <= MaxEvents /\ ses.at <= ses.at
      /\ made' = [made EXCEPT ![Cur] = Left(Policies, ses.at)]
      /\ Len(day) \in Nat /\ Len(day) <= Len(day')
  BY Running DEF CloseBooks, TP, Typed
<1>2. SessionsApart'
  BY <1>1, LeftApart
<1>3. ses'.at = Len(day') /\ \A p \in Policies : ses'.pos[p] = 0
  BY ClosesOrdered DEF AtTheEnd, Each
<1> QED
  BY <1>2, <1>3 DEF AtTheEnd

LEMMA FeedApart ==
  ASSUME TP, BooksOrdered, SessionsApart, AtTheEnd, Feed
  PROVE  SessionsApart' /\ AtTheEnd'
<1>0. TP'
  BY FeedTyped
<1>1. proc = "up" /\ proc' = "up" /\ Len(made) > 0
  BY DEF TP, Placed, Feed, Idle
<1> DEFINE t == ses.at + 1
<1>2. PICK e \in Events :
        /\ t \in 1 .. MaxEvents
        /\ made' = IF e.kind = "enter" THEN made ELSE [made EXCEPT ![Cur] = Left({e.policy}, t)]
        /\ ses' = [ses EXCEPT !.at = t, !.pos[e.policy] = IF e.kind = "leave" THEN 0 ELSE t]
  <2>1. Typed /\ Len(made) > 0
    BY <1>1 DEF TP
  <2> QED
    BY <2>1, Moved
<1>3. /\ ses.at \in Nat /\ ses.pos \in [Policies -> Nat] /\ e.policy \in Policies
      /\ Cur \in 1 .. Len(made) /\ MaxEvents \in Nat
  BY <1>1, Running, RecordAssumption DEF RecordAssumption, Events
<1>4. t \in Nat /\ ses.at <= t /\ t <= MaxEvents /\ ses.at < t
  BY <1>2, <1>3
<1>5. /\ ses'.at = t
      /\ \A p \in Policies : ses'.pos[p] = IF p = e.policy THEN IF e.kind = "leave" THEN 0 ELSE t
                                           ELSE ses.pos[p]
  BY <1>2, <1>3 DEF TP, Typed, SessionTypes
<1>6. ses.at = Len(day) /\ Len(day') = t /\ Len(day) <= Len(day')
  <2>1. ses.at = Len(day) /\ Len(day) \in Nat
    BY <1>1 DEF AtTheEnd, TP, Typed
  <2>2. \E f : day' = Append(day, f)
    BY <2>1 DEF Feed
  <2>3. Len(day') = Len(day) + 1
    BY <2>2 DEF TP, Typed
  <2> QED
    BY <2>1, <2>3
<1> HIDE DEF t
<1>7. SessionsApart'
  <2>1. CASE made' = made
    <3>1. ASSUME NEW s \in 1 .. Len(made), NEW p \in Policies, NEW k \in DOMAIN made[s][p]
          PROVE  made[s][p][k].entry <= Len(day')
      <4>1. made[s][p][k].entry <= Len(day) /\ made[s][p][k].entry \in Nat
        BY DEF SessionsApart, BooksOrdered, Ordered
      <4> QED
        BY <1>3, <1>4, <1>6, <4>1
    <3> QED
      BY <2>1, <3>1 DEF SessionsApart
  <2>2. CASE made' = [made EXCEPT ![Cur] = Left({e.policy}, t)]
    BY <1>0, <1>1, <1>4, <1>6, <2>2, LeftApart
  <2> QED
    BY <1>2, <2>1, <2>2
<1>8. Len(made') = Len(made) /\ Cur' = Cur
  BY FeedOrdered DEF Grows, Cur
<1>9. ASSUME NEW r \in 1 .. Len(made), NEW p \in Policies, r < Cur, ses'.pos[p] # 0,
             NEW i \in DOMAIN made'[r][p]
      PROVE  made'[r][p][i].entry < ses'.pos[p]
  <2>1. made'[r][p] = made[r][p] /\ i \in DOMAIN made[r][p]
    BY <1>3, <1>9, FeedOrdered DEF Grows
  <2>2. made[r][p][i].entry <= ses.at /\ made[r][p][i].entry \in Nat
    BY <1>6, <2>1 DEF SessionsApart, BooksOrdered, Ordered
  <2>3. CASE p = e.policy
    BY <1>3, <1>4, <1>5, <1>9, <2>1, <2>2, <2>3
  <2>4. CASE p # e.policy
    BY <1>1, <1>5, <1>9, <2>1, <2>4 DEF AtTheEnd
  <2> QED
    BY <2>3, <2>4
<1> QED
  BY <1>5, <1>6, <1>7, <1>8, <1>9 DEF AtTheEnd

\* What the thread puts, the writer and the end of the process leave the books alone.
LEMMA RestSame ==
  ASSUME TP, Put \/ Exit \/ Kill \/ Execute \/ Commit \/ UNCHANGED vars
  PROVE  /\ made' = made /\ day' = day
         /\ proc' # "none" => proc # "none" /\ ses'.at = ses.at /\ ses'.pos = ses.pos
<1>1. CASE Put
  <2>1. made' = made /\ day' = day /\ proc' = proc
    BY <1>1 DEF Put, PutStart, PutTrade, PutOpen, PutSummary, PutFinal, PutStop, Queued
  <2>2. ses' = ses \/ (\E p \in Policies : ses' = [ses EXCEPT !.sent[p] = @ + 1])
        \/ ses' = [ses EXCEPT !.shown = ses.pos[Jev]]
    BY <1>1 DEF Put, PutStart, PutTrade, PutOpen, PutSummary, PutFinal, PutStop
  <2>3. ses'.at = ses.at /\ ses'.pos = ses.pos
    BY <2>2 DEF TP, Typed, SessionTypes
  <2> QED
    BY <2>1, <2>3
<1>2. CASE Exit \/ Kill
  BY <1>2 DEF Exit, Kill, Dies
<1>3. CASE Execute \/ Commit \/ UNCHANGED vars
  BY <1>3 DEF Execute, Commit, vars
<1> QED
  BY <1>1, <1>2, <1>3

LEMMA StartApart ==
  ASSUME TP, TP', SessionsApart, source = "tradovate", StartSession
  PROVE  SessionsApart' /\ AtTheEnd'
<1>1. made' = Append(made, Each(<<>>)) /\ ses'.pos = Each(0) /\ ses'.at = Len(day) /\ day' = day
  BY DEF StartSession, NewSession, From
<1>2. Each(<<>>) \in TradeLists /\ \A p \in Policies : Each(<<>>)[p] = <<>> /\ Each(0)[p] = 0
  BY DEF Each, TradeLists
<1>3. /\ Len(made') = Len(made) + 1 /\ Len(made) \in Nat /\ made'[Len(made) + 1] = Each(<<>>)
      /\ \A s \in 1 .. Len(made) : made'[s] = made[s]
  BY <1>1, <1>2, Appended DEF TP, Typed
<1>4. ASSUME NEW s \in 1 .. Len(made'), NEW p \in Policies, NEW k \in DOMAIN made'[s][p]
      PROVE  s \in 1 .. Len(made) /\ made'[s] = made[s]
  BY <1>2, <1>3
<1>5. SessionsApart'
  BY <1>1, <1>4 DEF SessionsApart
<1>6. AtTheEnd'
  BY <1>1, <1>2 DEF AtTheEnd
<1> QED
  BY <1>5, <1>6

\* The sessions apart, one step further.
LEMMA ApartNext ==
  ASSUME TP, TP', BooksOrdered, Apart, [Next]_vars
  PROVE  Apart'
<1> SUFFICES ASSUME source' = "tradovate" PROVE SessionsApart' /\ AtTheEnd'
  BY DEF Apart
<1>1. source' = source
  <2>1. CASE Put
    BY <2>1 DEF Put, PutStart, PutTrade, PutOpen, PutSummary, PutFinal, PutStop, Queued
  <2>2. CASE StartSession \/ Feed \/ EngineCloses \/ Done \/ Stopped \/ UNCHANGED vars
    <3>1. StartSession \/ EngineCloses \/ Done \/ Stopped => source' = source
      BY DEF StartSession, EngineCloses, Done, Stopped
    <3>2. Feed => source' = source
      BY DEF Feed
    <3>3. UNCHANGED vars => source' = source
      BY DEF vars
    <3> QED
      BY <2>2, <3>1, <3>2, <3>3
  <2>3. CASE Joined \/ Exit \/ Kill \/ Execute \/ Commit
    BY <2>3 DEF Joined, Exit, Kill, Execute, Commit
  <2> QED
    BY <2>1, <2>2, <2>3 DEF Next
<1>2. source = "tradovate" /\ SessionsApart /\ AtTheEnd
  BY <1>1 DEF Apart
<1>3. CASE StartSession
  BY <1>2, <1>3, StartApart
<1>4. CASE Feed
  BY <1>2, <1>4, FeedApart
<1>5. CASE EngineCloses \/ Done \/ Stopped \/ Joined
  <2>1. proc # "none" /\ day' = day
    BY <1>5 DEF EngineCloses, Done, Stopped, Joined, Idle, Settled
  <2>2. CloseBooks \/ (made' = made /\ ses' = ses)
    BY <1>5 DEF EngineCloses, Done, Stopped, Joined, EndFlat, EndOpen
  <2>3. CASE CloseBooks
    BY <1>2, <2>1, <2>3, ClosesApart
  <2>4. CASE made' = made /\ ses' = ses
    <3>1. SessionsApart'
      BY <1>2, <2>1, <2>4 DEF SessionsApart
    <3>2. AtTheEnd'
      BY <1>2, <2>1, <2>4 DEF AtTheEnd, Cur
    <3> QED
      BY <3>1, <3>2
  <2> QED
    BY <2>2, <2>3, <2>4
<1>6. CASE Put \/ Exit \/ Kill \/ Execute \/ Commit \/ UNCHANGED vars
  <2>1. /\ made' = made /\ day' = day
        /\ proc' # "none" => proc # "none" /\ ses'.at = ses.at /\ ses'.pos = ses.pos
    BY <1>6, RestSame
  <2>2. SessionsApart'
    BY <1>2, <2>1 DEF SessionsApart
  <2>3. AtTheEnd'
    BY <1>2, <2>1 DEF AtTheEnd, Cur
  <2> QED
    BY <2>2, <2>3
<1> QED
  BY <1>3, <1>4, <1>5, <1>6 DEF Next

-----------------------------------------------------------------------------
(* The day's totals.  A sum over sessions is a recursive function on sets  *)
(* of sessions; where a session's number counts a set of its own, disjoint *)
(* from the others', the sum counts their union.                           *)

United(E, T) == UNION {E[s] : s \in T}
Disjoint(E, S) == \A r, s \in S : r # s => E[r] \cap E[s] = {}

\* it sums the sizes of E, the way MapThenFoldSet does over the subsets of S.
Sums(it, E, S) ==
  it = [T \in SUBSET S |->
          IF T = {} THEN 0
          ELSE Cardinality(E[CHOOSE s \in T : TRUE]) + it[T \ {CHOOSE s \in T : TRUE}]]

\* One session less takes its own set away.
LEMMA OneLess ==
  ASSUME NEW S, NEW B, IsFiniteSet(B), NEW E \in [S -> SUBSET B],
         Disjoint(E, S),
         NEW T \in SUBSET S, NEW x \in T
  PROVE  /\ Cardinality(E[x]) \in Nat /\ Cardinality(United(E, T)) \in Nat
         /\ Cardinality(United(E, T \ {x})) \in Nat
         /\ Cardinality(United(E, T)) = Cardinality(E[x]) + Cardinality(United(E, T \ {x}))
<1>1. /\ E[x] \in SUBSET B /\ United(E, T) \in SUBSET B /\ United(E, T \ {x}) \in SUBSET B
  BY DEF United
<1>2. IsFiniteSet(E[x]) /\ IsFiniteSet(United(E, T)) /\ IsFiniteSet(United(E, T \ {x}))
  BY <1>1, FS_Subset
<1>3. /\ Cardinality(E[x]) \in Nat /\ Cardinality(United(E, T)) \in Nat
      /\ Cardinality(United(E, T \ {x})) \in Nat
  BY <1>2, FS_CardinalityType
<1>4. United(E, T) = E[x] \cup United(E, T \ {x})
  BY DEF United
<1>5. E[x] \cap United(E, T \ {x}) = {}
  <2> SUFFICES ASSUME NEW b \in E[x], b \in United(E, T \ {x}) PROVE FALSE
    OBVIOUS
  <2>1. PICK s \in T \ {x} : b \in E[s]
    BY DEF United
  <2>2. s \in S /\ x \in S /\ s # x
    OBVIOUS
  <2>3. E[s] \cap E[x] = {}
    BY <2>2 DEF Disjoint
  <2> QED
    BY <2>1, <2>3
<1>6. /\ Cardinality(E[x] \cup United(E, T \ {x}))
           = Cardinality(E[x]) + Cardinality(United(E, T \ {x}))
             - Cardinality(E[x] \cap United(E, T \ {x}))
  BY <1>2, FS_Union
<1>7. Cardinality({}) = 0
  BY FS_EmptySet
<1>8. Cardinality(E[x] \cap United(E, T \ {x})) = 0
  BY <1>5, <1>7
<1>9. Cardinality(United(E, T)) = Cardinality(E[x] \cup United(E, T \ {x}))
  BY <1>4
<1> QED
  BY <1>3, <1>6, <1>8, <1>9

LEMMA SumExists ==
  ASSUME NEW S, NEW B, IsFiniteSet(B), NEW E \in [S -> SUBSET B],
         Disjoint(E, S)
  PROVE  \E it : Sums(it, E, S)
<1> DEFINE it == [T \in SUBSET S |-> Cardinality(United(E, T))]
<1>1. ASSUME NEW T \in SUBSET S
      PROVE  it[T] = IF T = {} THEN 0
                     ELSE Cardinality(E[CHOOSE s \in T : TRUE]) + it[T \ {CHOOSE s \in T : TRUE}]
  <2>1. CASE T = {}
    <3>1. United(E, T) = {}
      BY <2>1 DEF United
    <3>2. Cardinality({}) = 0
      BY FS_EmptySet
    <3> QED
      BY <2>1, <3>1, <3>2
  <2>2. CASE T # {}
    <3>1. PICK x : x = CHOOSE s \in T : TRUE
      OBVIOUS
    <3>2. x \in T /\ T \ {x} \in SUBSET S
      BY <2>2, <3>1
    <3>3. Cardinality(United(E, T)) = Cardinality(E[x]) + Cardinality(United(E, T \ {x}))
      BY <3>2, OneLess
    <3>4. it[T] = Cardinality(United(E, T)) /\ it[T \ {x}] = Cardinality(United(E, T \ {x}))
      BY <3>2
    <3> QED
      BY <2>2, <3>1, <3>3, <3>4
  <2> QED
    BY <2>1, <2>2
<1>2. it = [T \in SUBSET S |->
              IF T = {} THEN 0
              ELSE Cardinality(E[CHOOSE s \in T : TRUE]) + it[T \ {CHOOSE s \in T : TRUE}]]
  BY <1>1
<1>3. Sums(it, E, S)
  BY <1>2 DEF Sums
<1> HIDE DEF it
<1> QED
  BY <1>3

LEMMA SumCounts ==
  ASSUME NEW S, NEW B, IsFiniteSet(B), NEW E \in [S -> SUBSET B],
         Disjoint(E, S)
  PROVE  \A it : IsFiniteSet(S) /\ Sums(it, E, S) => it[S] = Cardinality(United(E, S))
<1>a. ASSUME NEW T \in SUBSET S, NEW x \in T
      PROVE  Cardinality(United(E, T)) = Cardinality(E[x]) + Cardinality(United(E, T \ {x}))
  BY OneLess
<1> SUFFICES ASSUME IsFiniteSet(S), NEW it, Sums(it, E, S) PROVE it[S] = Cardinality(United(E, S))
  OBVIOUS
<1>0. ASSUME NEW T \in SUBSET S
      PROVE  it[T] = IF T = {} THEN 0
                     ELSE Cardinality(E[CHOOSE s \in T : TRUE]) + it[T \ {CHOOSE s \in T : TRUE}]
  BY DEF Sums
<1> DEFINE Wrong == {T \in SUBSET S : it[T] # Cardinality(United(E, T))}
<1>1. SUFFICES ASSUME Wrong # {} PROVE FALSE
  OBVIOUS
<1>2. /\ IsWellFoundedOn(StrictSubsetOrdering(S), SUBSET S)
  BY FS_StrictSubsetOrderingWellFounded, FS_FiniteSubsetsOfFinite
<1>3. PICK T \in Wrong : \A R \in Wrong : ~(<<R, T>> \in StrictSubsetOrdering(S))
  BY <1>1, <1>2, WFMin
<1>4. T # {}
  <2>1. United(E, {}) = {} /\ Cardinality({}) = 0
    BY FS_EmptySet DEF United
  <2> QED
    BY <1>0, <1>3, <2>1
<1>5. PICK x : x = CHOOSE s \in T : TRUE
  OBVIOUS
<1>6. x \in T /\ T \in SUBSET S /\ T \ {x} \in SUBSET S
  BY <1>3, <1>4, <1>5
<1>7. <<T \ {x}, T>> \in StrictSubsetOrdering(S)
  BY <1>6 DEF StrictSubsetOrdering
<1>8. it[T \ {x}] = Cardinality(United(E, T \ {x}))
  BY <1>3, <1>6, <1>7
<1>9. it[T] = Cardinality(E[x]) + it[T \ {x}]
  BY <1>0, <1>4, <1>5, <1>6
<1>10. Cardinality(United(E, T)) = Cardinality(E[x]) + Cardinality(United(E, T \ {x}))
  BY <1>6, <1>a
<1> QED
  BY <1>3, <1>8, <1>9, <1>10

\* The sums policy_stats takes of the rows and of the totals of the sessions in S.
IsTraded(it, p, S) ==
  it = [T \in SUBSET S |-> IF T = {} THEN 0
                           ELSE LET s == CHOOSE s \in T : TRUE
                                IN  Len(db[s].trades[p]) + it[T \ {s}]]
Traded(p, S) == (CHOOSE it : IsTraded(it, p, S))[S]

LEMMA TradedCounts ==
  ASSUME NEW S, IsFiniteSet(S), NEW B, IsFiniteSet(B), NEW E \in [S -> SUBSET B],
         Disjoint(E, S),
         NEW p, \A s \in S : Len(db[s].trades[p]) = Cardinality(E[s])
  PROVE  Traded(p, S) = Cardinality(United(E, S))
<1>1. ASSUME NEW it PROVE IsTraded(it, p, S) <=> Sums(it, E, S)
  <2>1. ASSUME NEW T \in SUBSET S, T # {}
        PROVE  /\ (CHOOSE s \in T : TRUE) \in S
               /\ LET s == CHOOSE s \in T : TRUE IN Len(db[s].trades[p]) = Cardinality(E[s])
    BY <2>1
  <2>2. ASSUME NEW T \in SUBSET S
        PROVE  (IF T = {} THEN 0
                ELSE LET s == CHOOSE s \in T : TRUE IN  Len(db[s].trades[p]) + it[T \ {s}])
               = (IF T = {} THEN 0
                  ELSE Cardinality(E[CHOOSE s \in T : TRUE]) + it[T \ {CHOOSE s \in T : TRUE}])
    BY <2>1
  <2> QED
    BY <2>2 DEF Sums, IsTraded
<1>2. \E it : IsTraded(it, p, S)
  BY <1>1, SumExists
<1>3. PICK it : it = CHOOSE f : IsTraded(f, p, S)
  OBVIOUS
<1>4. IsTraded(it, p, S)
  BY <1>2, <1>3
<1>5. it[S] = Cardinality(United(E, S))
  BY <1>1, <1>4, SumCounts
<1> QED
  BY <1>3, <1>5 DEF Traded

IsSummed(it, p, S) ==
  it = [T \in SUBSET S |-> IF T = {} THEN 0
                           ELSE LET s == CHOOSE s \in T : TRUE
                                IN  db[s].summary[p] + it[T \ {s}]]
SummedUp(p, S) == (CHOOSE it : IsSummed(it, p, S))[S]

LEMMA SummedCounts ==
  ASSUME NEW S, IsFiniteSet(S), NEW B, IsFiniteSet(B), NEW E \in [S -> SUBSET B],
         Disjoint(E, S),
         NEW p, \A s \in S : db[s].summary[p] = Cardinality(E[s])
  PROVE  SummedUp(p, S) = Cardinality(United(E, S))
<1>1. ASSUME NEW it PROVE IsSummed(it, p, S) <=> Sums(it, E, S)
  <2>1. ASSUME NEW T \in SUBSET S, T # {}
        PROVE  /\ (CHOOSE s \in T : TRUE) \in S
               /\ LET s == CHOOSE s \in T : TRUE IN db[s].summary[p] = Cardinality(E[s])
    BY <2>1
  <2>2. ASSUME NEW T \in SUBSET S
        PROVE  (IF T = {} THEN 0
                ELSE LET s == CHOOSE s \in T : TRUE IN  db[s].summary[p] + it[T \ {s}])
               = (IF T = {} THEN 0
                  ELSE Cardinality(E[CHOOSE s \in T : TRUE]) + it[T \ {CHOOSE s \in T : TRUE}])
    BY <2>1
  <2> QED
    BY <2>2 DEF Sums, IsSummed
<1>2. \E it : IsSummed(it, p, S)
  BY <1>1, SumExists
<1>3. PICK it : it = CHOOSE f : IsSummed(f, p, S)
  OBVIOUS
<1>4. IsSummed(it, p, S)
  BY <1>2, <1>3
<1>5. it[S] = Cardinality(United(E, S))
  BY <1>1, <1>4, SumCounts
<1> QED
  BY <1>3, <1>5 DEF SummedUp

LEMMA StatsAre ==
  ASSUME NEW p
  PROVE  Stats(p) = IF Traded(p, OfTheDay) > 0 THEN Traded(p, OfTheDay)
                    ELSE SummedUp(p, {s \in OfTheDay : db[s].summary[p] # NoSummary})
BY DEF Stats, MapThenSumSet, MapThenFoldSet, Traded, IsTraded, SummedUp, IsSummed

\* The positions of a session: as many as its trades, since they begin one after the other.
Positions(trades) == {trades[k].entry : k \in DOMAIN trades}

LEMMA PositionsCounted ==
  ASSUME NEW trades \in Seq([entry : Nat, exit : Nat]), Ordered(trades)
  PROVE  Cardinality(Positions(trades)) = Len(trades) /\ Positions(trades) \in SUBSET (1 .. MaxEvents)
<1> DEFINE n == Len(trades) f == [k \in 1 .. n |-> trades[k].entry]
<1>1. n \in Nat /\ DOMAIN trades = 1 .. n
  OBVIOUS
<1>b. \A k \in DOMAIN trades : trades[k] \in [entry : Nat, exit : Nat]
  <2>1. PICK R : R = [entry : Nat, exit : Nat]
    OBVIOUS
  <2>2. trades \in Seq(R)
    BY <2>1
  <2>3. \A k \in DOMAIN trades : trades[k] \in R
    BY <2>2
  <2> QED
    BY <2>1, <2>3
<1>2. \A k \in 1 .. n : trades[k].entry \in 1 .. MaxEvents /\ trades[k].entry \in Nat
  <2>1. \A k \in 1 .. n : trades[k].entry \in 1 .. MaxEvents
    BY <1>1 DEF Ordered
  <2>2. \A k \in 1 .. n : trades[k].entry \in Nat
    BY <1>1, <1>b
  <2> QED
    BY <2>1, <2>2
<1>3. ASSUME NEW i \in 1 .. n, NEW k \in 1 .. n, f[i] = f[k] PROVE i = k
  <2>1. i < k => trades[i].entry < trades[k].entry
    BY <1>1 DEF Ordered
  <2>2. k < i => trades[k].entry < trades[i].entry
    BY <1>1 DEF Ordered
  <2>3. trades[i].entry = trades[k].entry
    BY <1>3
  <2>4. trades[i].entry \in Nat /\ trades[k].entry \in Nat
    BY <1>2
  <2>5. ~(i < k) /\ ~(k < i)
    BY <2>1, <2>2, <2>3, <2>4
  <2> QED
    BY <1>1, <2>5
<1>4. f \in [1 .. n -> Positions(trades)]
  BY <1>1 DEF Positions
<1>5. f \in Surjection(1 .. n, Positions(trades))
  BY <1>1, <1>4 DEF Surjection, Positions
<1>6. f \in Injection(1 .. n, Positions(trades))
  <2> HIDE DEF f, n
  <2>1. \A i, k \in 1 .. n : f[i] = f[k] => i = k
    BY <1>3
  <2> QED
    BY <1>4, <2>1 DEF Injection, IsInjective
<1>7. ExistsBijection(1 .. n, Positions(trades))
  BY <1>5, <1>6 DEF ExistsBijection, Bijection
<1> QED
  BY <1>1, <1>2, <1>7, FS_CountingElements DEF Positions

LEMMA ApartAlways == Spec => []Apart
<1>1. Init => Apart
  <2> SUFFICES ASSUME Init PROVE Apart
    OBVIOUS
  <2>1. made = <<>> /\ proc = "none" /\ 1 .. Len(made) = {}
    BY DEF Init
  <2> QED
    BY <2>1 DEF Apart, SessionsApart, AtTheEnd
<1>2. RecordInv /\ RecordInv' /\ Apart /\ [Next]_vars => Apart'
  <2> SUFFICES ASSUME RecordInv, RecordInv', Apart, [Next]_vars PROVE Apart'
    OBVIOUS
  <2>1. TP /\ TP' /\ BooksOrdered
    BY DEF RecordInv, OrderInv, TP
  <2> QED
    BY <2>1, ApartNext
<1> QED
  BY <1>1, <1>2, RecordAlways, PTL DEF Spec

DayInv == RecordInv /\ Apart

\* A day whose sessions all ended is the union of their positions, each in one of them.
LEMMA WholeDay ==
  ASSUME DayInv, source = "tradovate", fails = 0, cut = {},
         Cardinality(OfTheDay) = Cur, "running" \notin DayPnl.status
  PROVE  /\ OfTheDay = Sessions /\ IsFiniteSet(Sessions)
         /\ \A s \in Sessions : Complete(db[s], made[s])
<1>1. TP /\ Kept /\ Cur = Len(db) /\ Len(db) \in Nat /\ Sessions = 1 .. Len(db)
  BY DEF DayInv, RecordInv, OrderInv, TP, Typed, Cur, Sessions
<1>2. IsFiniteSet(Sessions) /\ Cardinality(Sessions) = Cur
  <2>1. /\ IsFiniteSet(1 .. Len(db))
        /\ Cardinality(1 .. Len(db)) = IF 1 > Len(db) THEN 0 ELSE Len(db) - 1 + 1
    <3>1. 1 \in Int /\ Len(db) \in Int
      BY <1>1
    <3> QED
      BY <3>1, FS_Interval
  <2> QED
    BY <1>1, <2>1
<1>3. OfTheDay \in SUBSET Sessions
  BY DEF OfTheDay
<1>4. OfTheDay = Sessions
  BY <1>2, <1>3, FS_Subset
<1>5. ASSUME NEW s \in Sessions PROVE Complete(db[s], made[s])
  <2>1. db[s] \in RowTypes
    BY <1>1 DEF TP, Typed
  <2>2. db[s].status \in Statuses
    BY <2>1 DEF RowTypes
  <2>3. db[s].status # "none" /\ db[s].status # "running"
    BY <1>4 DEF OfTheDay, DayPnl
  <2>4. db[s].status \in Ended
    BY <2>2, <2>3 DEF Statuses
  <2> QED
    BY <1>1, <2>4 DEF Kept, EndedRows
<1> QED
  BY <1>2, <1>4, <1>5

\* The positions of the day, by policy, and what the totals say.
LEMMA StatsCount ==
  ASSUME DayInv, source = "tradovate", fails = 0, cut = {},
         Cardinality(OfTheDay) = Cur, "running" \notin DayPnl.status, NEW p \in Policies
  PROVE  LET positions == {t.entry : t \in UNION {Range(made[s][p]) : s \in Sessions}}
         IN  Stats(p) = Cardinality(positions) /\ Cardinality(positions) \in Nat
<1> DEFINE E == [s \in Sessions |-> Positions(made[s][p])] B == 1 .. MaxEvents
<1>1. /\ OfTheDay = Sessions /\ IsFiniteSet(Sessions)
      /\ \A s \in Sessions : Complete(db[s], made[s])
  BY WholeDay
<1>2. TP /\ BooksOrdered /\ SessionsApart /\ Sessions = 1 .. Len(made)
  BY DEF DayInv, Apart, RecordInv, OrderInv, TP, Typed, Sessions
<1>3. ASSUME NEW s \in Sessions
      PROVE  /\ Positions(made[s][p]) \in SUBSET B
             /\ Cardinality(Positions(made[s][p])) = Len(made[s][p]) /\ Len(made[s][p]) \in Nat
             /\ Ordered(made[s][p])
  <2>1. made[s][p] \in Seq([entry : Nat, exit : Nat]) /\ Len(made[s][p]) \in Nat
    BY <1>2, MadeTyped
  <2>2. Ordered(made[s][p])
    BY <1>2 DEF BooksOrdered
  <2> QED
    BY <2>1, <2>2, PositionsCounted
<1>4. E \in [Sessions -> SUBSET B] /\ \A s \in Sessions : E[s] = Positions(made[s][p])
  BY <1>3
<1>5. ASSUME NEW r \in Sessions, NEW s \in Sessions, r < s PROVE E[r] \cap E[s] = {}
  <2> SUFFICES ASSUME NEW b \in Positions(made[r][p]), b \in Positions(made[s][p]) PROVE FALSE
    BY <1>4
  <2>1. PICK i \in DOMAIN made[r][p] : b = made[r][p][i].entry
    BY DEF Positions
  <2>2. PICK k \in DOMAIN made[s][p] : b = made[s][p][k].entry
    BY DEF Positions
  <2>3. made[r][p][i].entry < made[s][p][k].entry
    BY <1>2, <1>5 DEF SessionsApart
  <2>4. b \in Nat
    BY <1>3, <2>1 DEF Ordered
  <2> QED
    BY <2>1, <2>2, <2>3, <2>4
<1>6. Disjoint(E, Sessions)
  <2> SUFFICES ASSUME NEW r \in Sessions, NEW s \in Sessions, r # s PROVE E[r] \cap E[s] = {}
    BY DEF Disjoint
  <2>1. r < s \/ s < r
    BY <1>2
  <2> QED
    BY <1>5, <2>1
<1>7. IsFiniteSet(B)
  BY RecordAssumption, FS_Interval DEF RecordAssumption
<1>8. ASSUME NEW s \in Sessions
      PROVE  /\ Len(db[s].trades[p]) = Cardinality(E[s]) /\ db[s].summary[p] = Cardinality(E[s])
             /\ db[s].summary[p] # NoSummary
  BY <1>1, <1>3, <1>4 DEF Complete, NoSummary
<1>9. {t.entry : t \in UNION {Range(made[s][p]) : s \in Sessions}} = United(E, Sessions)
  <2>1. ASSUME NEW b
        PROVE  b \in {t.entry : t \in UNION {Range(made[s][p]) : s \in Sessions}}
                 <=> \E s \in Sessions : \E k \in DOMAIN made[s][p] : b = made[s][p][k].entry
    BY DEF Range
  <2>2. ASSUME NEW b
        PROVE  b \in United(E, Sessions)
                 <=> \E s \in Sessions : \E k \in DOMAIN made[s][p] : b = made[s][p][k].entry
    BY <1>4 DEF United, Positions
  <2> QED
    BY <2>1, <2>2
<1> HIDE DEF E, B
<1>10. Cardinality(United(E, Sessions)) \in Nat
  <2>1. United(E, Sessions) \in SUBSET B
    BY <1>4 DEF United
  <2>2. IsFiniteSet(United(E, Sessions))
    BY <1>7, <2>1, FS_Subset
  <2> QED
    BY <2>2, FS_CardinalityType
<1>11. {s \in OfTheDay : db[s].summary[p] # NoSummary} = Sessions
  BY <1>1, <1>8
<1>12. Traded(p, Sessions) = Cardinality(United(E, Sessions))
  BY <1>1, <1>4, <1>6, <1>7, <1>8, TradedCounts
<1>13. SummedUp(p, Sessions) = Cardinality(United(E, Sessions))
  BY <1>1, <1>4, <1>6, <1>7, <1>8, SummedCounts
<1>14. Stats(p) = Cardinality(United(E, Sessions))
  BY <1>1, <1>11, <1>12, <1>13, StatsAre
<1> QED
  BY <1>9, <1>10, <1>14

\* DayCountsOnce: on the feed that cannot replay, for any number of restarts and whatever
\* kills them, a day whose sessions all say that they ended has each position once in
\* its P&L and in the report after the close.
THEOREM CountsOnce == Spec => []DayCountsOnce
<1>1. DayInv => DayCountsOnce
  <2> SUFFICES ASSUME DayInv, source = "tradovate", fails = 0, cut = {}, DayPnl.sessions = Cur,
                      Cur > 0, "running" \notin DayPnl.status, NEW p \in Policies
               PROVE  LET positions == {t.entry : t \in UNION {Range(made[s][p]) : s \in Sessions}}
                      IN  /\ DayPnl.trades[p] = Cardinality(positions)
                          /\ CloseTitle.totals[p] = Cardinality(positions)
    BY DEF DayCountsOnce
  <2> DEFINE positions == {t.entry : t \in UNION {Range(made[s][p]) : s \in Sessions}}
  <2>1. Cardinality(OfTheDay) = Cur
    BY DEF DayPnl
  <2>2. Stats(p) = Cardinality(positions) /\ Cardinality(positions) \in Nat
    BY <2>1, StatsCount
  <2> HIDE DEF positions
  <2>3. DayPnl.trades[p] = Stats(p)
    BY DEF DayPnl
  <2>4. CloseTitle.totals[p] = Stats(p)
    <3>1. CASE db[Max(OfTheDay)].status = "done" \/ \E q \in Policies : Stats(q) > 0
      <4>1. CloseTitle.totals = DayPnl.trades
        BY <3>1 DEF CloseTitle
      <4> QED
        BY <2>3, <4>1
    <3>2. CASE ~(db[Max(OfTheDay)].status = "done" \/ \E q \in Policies : Stats(q) > 0)
      <4>1. CloseTitle.totals = Each(0)
        BY <3>2 DEF CloseTitle
      <4>2. CloseTitle.totals[p] = 0
        BY <4>1 DEF Each
      <4>3. ~(Stats(p) > 0)
        BY <3>2
      <4>4. Stats(p) = 0
        BY <2>2, <4>3
      <4> QED
        BY <4>2, <4>4
    <3> QED
      BY <3>1, <3>2
  <2> QED
    BY <2>2, <2>3, <2>4 DEF positions
<1> QED
  BY <1>1, RecordAlways, ApartAlways, PTL DEF DayInv
=============================================================================
