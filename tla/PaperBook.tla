------------------------------ MODULE PaperBook ------------------------------
(***************************************************************************)
(* The paper position: the harness Book, the event-driven engine of a live *)
(* session (live.Engine with the Gated filter), the target the session     *)
(* announces for the Jev book (Session._intent), and the batch backtest    *)
(* (harness.run_day over replay.load_market) the engine must reproduce.    *)
(*                                                                         *)
(* Time is a small integer; a book row is a timestamp and a best bid, the  *)
(* ask one tick above it.  Rows reach the engine in batches cut anywhere,  *)
(* the policies answer anything in Answers, and an order of a live session *)
(* goes out after a delay in Delays.                                       *)
(***************************************************************************)
EXTENDS Integers, Sequences, FiniteSets

CONSTANTS
    Policies,    \* the policies of the session, each with a book of its own
    Jev,         \* the policy behind the filters, the one the session announces
    Answers,     \* Answers[p]: what policy p may answer (HOLD: also unsure)
    Start,       \* the first decision
    Cadence,     \* between two decisions
    GridLen,     \* how many decisions the session has
    Latency,     \* from sending an order to its fill
    Delays,      \* how long Jev may take to answer
    OpenNs,      \* a first row after this is a late start
    Stop,        \* stop and target in ticks (0: off)
    Target,
    Settings,    \* what a session may be run with, records of:
                 \*   live    answer_latency: orders go out when Jev answers
                 \*   warmup  how long a late start holds still (0: it does not)
                 \*   agree   equal confident answers in a row that Gated asks for
                 \*   hold    how long Gated keeps a position
    FirstTs,     \* when the first row may come
    FirstBid,    \* and its bid
    Moves,       \* what the bid may do from row to row
    MaxTs,       \* bound: the last timestamp of a row
    MaxGap,      \* bound: the longest quiet spell
    MaxCancels   \* bound: decisions cancelled by a signal or the deadline

EndNs == Start + GridLen * Cadence

ASSUME ClockAssumption ==
    /\ Start \in Nat \ {0} /\ Cadence \in Nat \ {0} /\ GridLen \in Nat \ {0}
    /\ Latency \in Nat \ {0} /\ Delays \subseteq Nat /\ 0 \in Delays
    /\ \A d \in Delays : d + Latency <= Cadence
ASSUME FilterAssumption ==
    /\ Stop \in Nat /\ Target \in Nat /\ OpenNs \in Nat
    /\ Settings \subseteq [live : BOOLEAN, warmup : Nat, agree : Nat \ {0}, hold : Nat]
ASSUME PolicyAssumption == Jev \in Policies
ASSUME RowAssumption ==
    /\ FirstTs \subseteq 0 .. MaxTs /\ FirstBid \in Int /\ Moves \subseteq Int
    /\ MaxTs \in Nat /\ MaxGap \in Nat
ASSUME CancelsAssumption == MaxCancels \in Nat

VARIABLES
    set,        \* the settings of this session
    rows,       \* LiveDay: the rows appended so far
    buf,        \* the rest of the batch in feed
    gi,         \* index of the next decision of the grid
    warmUntil,  \* end of the warm-up, 0 without one
    book,       \* each policy's harness Book
    fills,      \* the heap of orders in flight
    decisions,  \* each decision made: its time, row, answers
    asking,     \* the decision the engine is awaiting an answer for, or 0
    phase,      \* feeding | finishing
    closed,
    target,     \* the position the session has announced for Jev
    cancels

vars == <<set, rows, buf, gi, warmUntil, book, fills, decisions, asking,
          phase, closed, target, cancels>>

-----------------------------------------------------------------------------
(* The book of one policy (harness.Book).                                  *)

SideOf == [a \in {"BUY", "SELL", "HOLD"} |->
              CASE a = "BUY" -> 1 [] a = "SELL" -> -1 [] OTHER -> 0]
Flat == [side |-> 0, px |-> 0, ts |-> 0]
BookOf(pos, watch, trades) == [pos |-> pos, watch |-> watch, trades |-> trades]
NewBook == BookOf(Flat, 1, <<>>)

RowAt(rs, t) == Cardinality({i \in DOMAIN rs : rs[i].ts <= t})

\* What a position of this side could be sold or bought back at.
Touch(rs, i, side) == IF side = 1 THEN rs[i].bid ELSE rs[i].bid + 1

Gain(rs, i, pos) == pos.side * (Touch(rs, i, pos.side) - pos.px)
StopHit(rs, i, pos) == Stop > 0 /\ Gain(rs, i, pos) <= -Stop
TargetHit(rs, i, pos) == Target > 0 /\ Gain(rs, i, pos) >= Target

Close(bk, rs, i, px, reason) ==
    BookOf(Flat, bk.watch,
           Append(bk.trades, [side |-> bk.pos.side,
                              entry |-> bk.pos.ts, entryPx |-> bk.pos.px,
                              exit |-> rs[i].ts, exitPx |-> px, reason |-> reason]))

\* Where CheckExits goes on after the rows up to upto.
\* Mutant of NextWatch: one row too far.
SkipsARow(watch, upto) == IF upto >= watch THEN upto + 2 ELSE watch
NextWatch(watch, upto) == IF upto >= watch THEN upto + 1 ELSE watch

\* Fires the first stop or target on the rows from watch to upto.
CheckExits(bk, rs, upto) ==
    LET hits == {i \in bk.watch .. upto :
                    StopHit(rs, i, bk.pos) \/ TargetHit(rs, i, bk.pos)}
        seen == BookOf(bk.pos, NextWatch(bk.watch, upto), bk.trades)
        k    == CHOOSE i \in hits : \A j \in hits : i <= j
    IN  IF bk.pos.side = 0 \/ hits = {} THEN seen
        ELSE IF StopHit(rs, k, bk.pos)
             THEN Close(seen, rs, k, Touch(rs, k, bk.pos.side), "stop")
             ELSE Close(seen, rs, k, bk.pos.px + bk.pos.side * Target, "target")

\* A market order sent at t: filled on the book `Latency` later, whatever is left
\* of the position by then.
Go(bk, rs, side, t) ==
    LET f     == RowAt(rs, t + Latency)
        swept == CheckExits(bk, rs, f)
        px    == Touch(rs, f, -side)
        out   == IF swept.pos.side = 0 THEN swept ELSE Close(swept, rs, f, px, "jev")
    IN  IF side = bk.pos.side THEN bk
        ELSE IF side = swept.pos.side THEN swept
        ELSE BookOf([side |-> side, px |-> px, ts |-> rs[f].ts], f + 1, out.trades)

\* Mutant of Flatten: only the stops and targets of the last rows.
LeaveOpen(bk, rs, last) == CheckExits(bk, rs, last)

\* Flat at the touch, at the session end.
Flatten(bk, rs, last) ==
    LET swept == CheckExits(bk, rs, last)
    IN  IF swept.pos.side = 0 THEN swept
        ELSE Close(swept, rs, last, Touch(rs, last, swept.pos.side), "eod")

-----------------------------------------------------------------------------
(* The filter (policies.Gated) over a policy's answers so far, oldest      *)
(* first, for a decision at t with position pos, in a session run with the *)
(* settings opts.                                                          *)

Gate(opts, answers, t, pos) ==
    LET n    == Len(answers)
        last == {answers[i] : i \in (n - opts.agree + 1) .. n}
        held == pos.side = 0 \/ t - pos.ts >= opts.hold
    IN  IF n >= opts.agree /\ Cardinality(last) = 1 /\ held THEN answers[n] ELSE "HOLD"

\* What policy p does at t, given the decisions up to t, of which those of the
\* warm-up, the first ones, were put to nobody.
Action(opts, p, ds, t, pos) ==
    LET skip == Cardinality({i \in DOMAIN ds : ds[i].warm})
        mine == [i \in 1 .. Len(ds) - skip |-> ds[skip + i].answer[p]]
    IN  IF ds[Len(ds)].warm THEN "HOLD"
        ELSE IF p = Jev THEN Gate(opts, mine, t, pos) ELSE mine[Len(mine)]

-----------------------------------------------------------------------------
(* The batch backtest: run_day over the recorded rows.                     *)

LastOf(ds) == ds[Len(ds)]

\* The book policy p finds at the last decision of ds, having had bk before it.
Found(rs, ds, bk) == CheckExits(bk, rs, RowAt(rs, LastOf(ds).t))

\* What it makes of the book at that decision.
Decide(opts, p, rs, ds, bk) ==
    LET found == Found(rs, ds, bk)
        act   == Action(opts, p, ds, LastOf(ds).t, found.pos)
    IN  IF act = "HOLD" THEN found ELSE Go(found, rs, SideOf[act], LastOf(ds).t)

\* One decision after the other.
Decided(opts, p, rs, ds) ==
    LET step[k \in 0 .. Len(ds)] ==
            IF k = 0 THEN NewBook ELSE Decide(opts, p, rs, SubSeq(ds, 1, k), step[k - 1])
    IN  step[Len(ds)]

Backtest(opts, p, rs, ds) ==
    Flatten(Decided(opts, p, rs, ds), rs,
            IF ds = <<>> THEN 0 ELSE RowAt(rs, LastOf(ds).t + Cadence))

\* The decision times load_market keeps: those the recorded rows cover.
Covered(rs) == {t \in {Start + k * Cadence : k \in 0 .. GridLen - 1} :
                  rs # <<>> /\ rs[1].ts <= t /\ t <= rs[Len(rs)].ts}

-----------------------------------------------------------------------------
(* The engine.                                                             *)

Grid(k) == Start + (k - 1) * Cadence
SetMin(S) == CHOOSE x \in S : \A y \in S : x <= y

\* LiveDay: the rows of the day, as they grow, and the row a decision is made on.
NewDay == <<>>
Appended(k) == rows \o SubSeq(buf, 1, k)
DecisionRow == Len(rows)
LastTs == rows[Len(rows)].ts

\* Mutant of NextEvent: orders in flight are no events.
NextEventOfGrid == SetMin({EndNs} \cup (IF gi <= GridLen THEN {Grid(gi)} ELSE {}))

NextEvent == SetMin({EndNs} \cup {f.at : f \in fills}
                            \cup (IF gi <= GridLen THEN {Grid(gi)} ELSE {}))

\* Mutant of OrderPending: any policy's order will do.
AnyOrderPending(p) == fills # {}

OrderPending(p) == \E f \in fills : f.policy = p

Init ==
    /\ set \in Settings
    /\ rows = NewDay /\ buf = <<>> /\ gi = 1 /\ warmUntil = 0
    /\ book = [p \in Policies |-> NewBook]
    /\ fills = {} /\ decisions = <<>> /\ asking = 0
    /\ phase = "feeding" /\ closed = FALSE
    /\ target = 0 /\ cancels = 0

Idle == phase = "feeding" /\ buf = <<>> /\ asking = 0 /\ ~closed

\* The rows that may follow r.
RowsAfter(r) == {[ts |-> t, bid |-> r.bid + m] :
                    t \in {u \in r.ts + 1 .. r.ts + 1 + MaxGap : u <= MaxTs}, m \in Moves}
FirstRows == {[ts |-> t, bid |-> FirstBid] : t \in FirstTs}

\* A batch of the feed: one or two rows that continue the rows so far, so that
\* any cut of the feed into batches is there.
Batches ==
    LET firsts == IF rows = <<>> THEN FirstRows ELSE RowsAfter(rows[Len(rows)])
    IN  {<<r>> : r \in firsts} \cup UNION {{<<r, s>> : s \in RowsAfter(r)} : r \in firsts}

\* feed: a batch arrives; the first row of the session may be late, then the
\* decisions missed are skipped and the next ones only watch.
Receive ==
    /\ Idle
    /\ \E b \in Batches :
          LET late == rows = <<>> /\ set.warmup > 0 /\ b[1].ts > OpenNs
          IN  /\ buf' = b
              /\ warmUntil' = IF late THEN b[1].ts + set.warmup ELSE warmUntil
              /\ gi' = IF late THEN 1 + Cardinality({k \in 1 .. GridLen : Grid(k) < b[1].ts})
                               ELSE gi
    /\ UNCHANGED <<set, rows, book, fills, decisions, asking, phase, closed, target, cancels>>

\* The session announces flat when the Jev book closes and no order is on its way.
TargetAfterExits(new) ==
    IF Len(new[Jev].trades) > Len(book[Jev].trades) /\ ~OrderPending(Jev) THEN 0 ELSE target

\* feed: append the rows up to the next event and look for stops and targets.
Absorb ==
    /\ phase = "feeding" /\ asking = 0 /\ ~closed
    /\ LET k   == RowAt(buf, NextEvent)
           day == Appended(k)
           new == [p \in Policies |-> CheckExits(book[p], day, Len(day))]
       IN  /\ k > 0
           /\ rows' = day
           /\ buf' = SubSeq(buf, k + 1, Len(buf))
           /\ book' = new
           /\ target' = TargetAfterExits(new)
    /\ UNCHANGED <<set, gi, warmUntil, fills, decisions, asking, phase, closed, cancels>>

\* The engine fires the next event once a later row has arrived, or, finishing,
\* once the rows have reached it.
Due(t) ==
    /\ asking = 0 /\ ~closed
    /\ \/ phase = "feeding" /\ buf # <<>> /\ Head(buf).ts > t
       \/ phase = "finishing" /\ rows # <<>> /\ t <= LastTs /\ t < EndNs

\* finish: what is still in flight fills at the last book.
Drain == /\ phase = "finishing" /\ asking = 0 /\ ~closed /\ rows # <<>>
         /\ ~Due(NextEvent)

\* Fill every order of the earliest fill time.
FireFills ==
    /\ fills # {}
    /\ LET t   == SetMin({f.at : f \in fills})
           now == {f \in fills : f.at = t}
       IN  /\ (Due(t) /\ t = NextEvent) \/ Drain
           /\ book' = [p \in Policies |->
                         IF \E f \in now : f.policy = p
                         THEN LET f == CHOOSE f \in now : f.policy = p
                              IN  Go(book[p], rows, f.side, f.send)
                         ELSE book[p]]
           /\ fills' = fills \ now
    /\ UNCHANGED <<set, rows, buf, gi, warmUntil, decisions, asking, phase, closed, target, cancels>>

AtDecision ==
    /\ gi <= GridLen
    /\ NextEvent = Grid(gi)
    /\ \A f \in fills : f.at # Grid(gi)
    /\ Due(Grid(gi))

\* A decision with no row yet is no decision.
SkipDecision ==
    /\ AtDecision /\ DecisionRow = 0
    /\ gi' = gi + 1
    /\ UNCHANGED <<set, rows, buf, warmUntil, book, fills, decisions, asking, phase, closed, target, cancels>>

\* The engine puts the decision to the policies and awaits the answers.
Ask ==
    /\ AtDecision /\ DecisionRow > 0
    /\ gi' = gi + 1
    /\ asking' = Grid(gi)
    /\ UNCHANGED <<set, rows, buf, warmUntil, book, fills, decisions, phase, closed, target, cancels>>

\* Mutant of SendsOrder: HOLD is a side too.
SendsAlways(action, side) == SideOf[action] # side
SendsOrder(action, side) == action # "HOLD" /\ SideOf[action] # side

\* The orders a decision sends: none for a policy already on that side.
OrdersOf(ds, t, send) ==
    {[at |-> (IF p = Jev THEN send ELSE t) + Latency, policy |-> p,
      side |-> SideOf[Action(set, p, ds, t, book[p].pos)],
      send |-> IF p = Jev THEN send ELSE t] :
        p \in {q \in Policies : SendsOrder(Action(set, q, ds, t, book[q].pos), book[q].pos.side)}}

\* Guarded: Jev's call may fail or time out, and is then no answer at all.
Guarded(p) == IF p = Jev THEN Answers[p] \cup {"HOLD"} ELSE Answers[p]

\* During the warm-up of a late start nobody is asked: every policy holds.
Warm(t) == t < warmUntil

Answer ==
    /\ asking # 0
    /\ \E a \in [Policies -> {"BUY", "SELL", "HOLD"}] :
       \E d \in IF set.live THEN Delays ELSE {0} :
          LET warm == Warm(asking)
              ds   == Append(decisions, [t |-> asking, row |-> DecisionRow, warm |-> warm,
                                         answer |-> a])
              new  == OrdersOf(ds, asking, asking + d)
          IN  /\ \A p \in Policies : a[p] \in IF warm THEN {"HOLD"} ELSE Guarded(p)
              /\ warm => d = 0
              /\ decisions' = ds
              /\ fills' = fills \cup new
              /\ target' = IF \E f \in new : f.policy = Jev
                           THEN (CHOOSE f \in new : f.policy = Jev).side ELSE target
    /\ asking' = 0
    /\ UNCHANGED <<set, rows, buf, gi, warmUntil, book, phase, closed, cancels>>

CloseSession(last) ==
    /\ closed' = TRUE
    /\ book' = [p \in Policies |-> Flatten(book[p], rows, last)]
    /\ target' = 0

\* The end of the session is an event of its own.
FireEnd ==
    /\ NextEvent = EndNs /\ \A f \in fills : f.at # EndNs
    /\ Due(EndNs)
    /\ CloseSession(RowAt(rows, EndNs))
    /\ UNCHANGED <<set, rows, buf, gi, warmUntil, fills, decisions, asking, phase, cancels>>

\* The feed ends: a recorded day's last row, an early close, or the deadline or a
\* signal that finds the session waiting for rows.
DataEnds ==
    /\ Idle
    /\ phase' = "finishing"
    /\ UNCHANGED <<set, rows, buf, gi, warmUntil, book, fills, decisions, asking, closed, target, cancels>>

\* SIGTERM, Ctrl-C or the deadline comes while the engine awaits the policies: the
\* decision and the rest of the batch are gone, and the engine finishes.
Cancel ==
    /\ asking # 0 /\ cancels < MaxCancels
    /\ cancels' = cancels + 1
    /\ phase' = "finishing" /\ buf' = <<>> /\ asking' = 0
    /\ UNCHANGED <<set, rows, gi, warmUntil, book, fills, decisions, closed, target>>

\* finish: nothing is due or in flight any more.
FinishClose ==
    /\ Drain /\ fills = {}
    /\ CloseSession(Len(rows))
    /\ UNCHANGED <<set, rows, buf, gi, warmUntil, fills, decisions, asking, phase, cancels>>

\* finish, without a single row: there is nothing to close.
FinishEmpty ==
    /\ phase = "finishing" /\ rows = <<>> /\ ~closed
    /\ closed' = TRUE
    /\ UNCHANGED <<set, rows, buf, gi, warmUntil, book, fills, decisions, asking, phase, target, cancels>>

Next == Receive \/ Absorb \/ FireFills \/ SkipDecision \/ Ask \/ Answer \/ FireEnd
        \/ DataEnds \/ Cancel \/ FinishClose \/ FinishEmpty

Spec == Init /\ [][Next]_vars

-----------------------------------------------------------------------------
(* Properties.                                                             *)

Positions == [side : {-1, 0, 1}, px : Int, ts : 0 .. MaxTs]

TypeOK ==
    /\ set \in Settings /\ closed \in BOOLEAN
    /\ \A s \in {rows, buf} : \A i \in DOMAIN s : s[i].ts \in 0 .. MaxTs /\ s[i].bid \in Int
    /\ gi \in 1 .. GridLen + 1
    /\ warmUntil \in Nat
    /\ \A p \in Policies : book[p].pos \in Positions /\ book[p].watch \in 1 .. Len(rows) + 1
    /\ \A f \in fills : f.policy \in Policies /\ f.side \in {-1, 1}
    /\ asking \in {0} \cup {Grid(k) : k \in 1 .. GridLen}
    /\ phase \in {"feeding", "finishing"}
    /\ target \in {-1, 0, 1} /\ cancels \in 0 .. MaxCancels

\* The day as it was recorded: a session that has ended may have left rows unread.
Record == rows \o buf

\* A recorded day replays to exactly the backtest's trades, whatever the batches it
\* came in (live.py:12), and to the same decisions.
ReplayMatchesBacktest ==
    closed /\ ~set.live /\ cancels = 0 /\ warmUntil = 0 =>
        /\ {decisions[i].t : i \in DOMAIN decisions} = Covered(Record)
        /\ \A p \in Policies : book[p].trades = Backtest(set, p, Record, decisions).trades

\* No position outlives its stop or its target: none of the rows since its entry
\* touched either one.
NoMissedExit ==
    \A p \in Policies : book[p].pos.side # 0 =>
        \A i \in DOMAIN rows : rows[i].ts > book[p].pos.ts =>
            ~StopHit(rows, i, book[p].pos) /\ ~TargetHit(rows, i, book[p].pos)

\* The position the session announces is the one the Jev book has, or will have once
\* the order in flight fills: an exit under a reversing order announces nothing, and
\* the order still fills.
TargetFollowsBook ==
    LET sent == {f \in fills : f.policy = Jev}
    IN  IF closed \/ sent = {} THEN target = book[Jev].pos.side
                              ELSE \E f \in sent : target = f.side

\* However the session ends, no book stays open and flat is announced.
ClosedMeansFlat ==
    closed => target = 0 /\ \A p \in Policies : book[p].pos.side = 0
=============================================================================
