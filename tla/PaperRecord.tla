----------------------------- MODULE PaperRecord -----------------------------
(***************************************************************************)
(* The paper record of one day: the live sessions of the day one after the *)
(* other (live.Session and amain), the queue and the writer thread of      *)
(* paperdb.Recorder, the rows in paper.db, and what the viewer (paperdb)   *)
(* and the Resonant extension (cli.py) read from them.                     *)
(*                                                                         *)
(* The day is a sequence of changes of the policies' books: a position is  *)
(* entered, left or reversed.  It is named by its place in the day, which  *)
(* stands for its time; prices and P&L are left out, so that a total is a  *)
(* count of trades.  A session restarted on Databento replays the day from *)
(* the open, and is taken to decide as the one before it did (live.py:226, *)
(* policies.JsonlCache); one on Tradovate goes on from now, flat.          *)
(*                                                                         *)
(* The session's thread puts one statement after the other on the queue;   *)
(* the writer takes what it finds, and readers see what is committed.      *)
(* Bars, decisions, heartbeats and settings rows are left out.             *)
(***************************************************************************)
EXTENDS Integers, Sequences, FiniteSets, FiniteSetsExt, Functions

CONSTANTS Policies,
          Jev,          \* the policy whose open position is recorded
          Sources,      \* the feed of the day, of {"databento", "tradovate"}
          Stops,        \* what a session that is stopped says: "aborted", "crashed"
          MaxEvents,    \* bound: changes of books in the day
          MaxSessions,  \* bound: sessions of the day
          MaxFails,     \* bound: statements that fail
          MaxSlips      \* bound: kills, commits that fail, joins that time out,
                        \* ends that are interrupted

ASSUME RecordAssumption ==
  /\ IsFiniteSet(Policies) /\ Jev \in Policies
  /\ Sources \subseteq {"databento", "tradovate"} /\ Stops \subseteq {"aborted", "crashed"}
  /\ MaxEvents \in Nat /\ MaxSessions \in Nat /\ MaxFails \in Nat /\ MaxSlips \in Nat

VARIABLES
  source, day, over,  \* the feed, the day's changes so far, whether it is over
  made,     \* the trades of each session, by policy (results[policy].trades)
  ses,      \* the session of the process: its books, what it has put on the queue
  proc,     \* where the process is
  todo,     \* what its thread is still to put there besides trades and position
  queue, writer, view,  \* Recorder.q, its thread, the rows its transaction sees
  db,       \* the committed rows of each session
  cut,      \* history: the sessions whose end found a position and left it
  fails, slips

recorder == <<queue, writer, view, db>>
bounds   == <<fails, slips>>
vars == <<source, day, over, made, ses, proc, todo, recorder, cut, bounds>>

Cur     == Len(made)
Each(x) == [p \in Policies |-> x]

\* A trade row is known by its trade's place in results[policy].trades.
NoSummary == -1
NoRows == [status |-> "none", trades |-> Each(<<>>), open |-> 0,
           summary |-> Each(NoSummary)]

\* at: how far the session is in the day; pos: the entry of each open position
\* (0: flat); sent and shown: paper_sent and paper_open.
NewSession(from) == [at |-> from, pos |-> Each(0), sent |-> Each(0), shown |-> 0,
                     closed |-> FALSE]

Todo(step, left, status) == [step |-> step, left |-> left, status |-> status]
Nothing == Todo("nothing", {}, "none")

Init ==
  /\ source \in Sources /\ day = <<>> /\ over = FALSE
  /\ made = <<>> /\ ses = NewSession(0) /\ proc = "none" /\ todo = Nothing
  /\ queue = <<>> /\ writer = "gone" /\ view = NoRows /\ db = <<>>
  /\ cut = {} /\ fails = 0 /\ slips = 0

Slip   == slips < MaxSlips /\ slips' = slips + 1 /\ UNCHANGED fails
NoSlip == UNCHANGED bounds

-----------------------------------------------------------------------------
(* The books of the session.                                               *)

\* Mutant of Left: a flat book leaves a trade as well.
LeftFlatToo(P, t) ==
  [p \in Policies |->
     IF p \in P THEN Append(made[Cur][p], [entry |-> ses.pos[p], exit |-> t])
                ELSE made[Cur][p]]

\* The trades once the positions of the policies in P are left at t.
Left(P, t) ==
  [p \in Policies |->
     IF p \in P /\ ses.pos[p] # 0
     THEN Append(made[Cur][p], [entry |-> ses.pos[p], exit |-> t])
     ELSE made[Cur][p]]

\* Engine.finish: every book flat at the last row.
CloseBooks ==
  /\ made' = [made EXCEPT ![Cur] = Left(Policies, ses.at)]
  /\ ses' = [ses EXCEPT !.pos = Each(0), !.closed = TRUE]

\* What is closed or open has been put on the queue.
Told == /\ \A p \in Policies : ses.sent[p] = Len(made[Cur][p])
        /\ ses.shown = ses.pos[Jev]

\* Mutant of Settled: the end is recorded without a look at what is unsent.
SettledAnyway == proc # "none" /\ todo.step # "start"
Settled == proc # "none" /\ todo.step # "start" /\ Told
Idle == Settled /\ proc = "up" /\ todo = Nothing

\* Mutant of From: a restarted session replays on every feed.
FromOpen == 0
From == IF source = "databento" THEN 0 ELSE Len(day)

\* A process is started: a new session row, a new writer.
StartSession ==
  /\ proc = "none" /\ Len(db) < MaxSessions
  /\ proc' = "up" /\ writer' = "alive" /\ queue' = <<>> /\ view' = NoRows
  /\ made' = Append(made, Each(<<>>)) /\ db' = Append(db, NoRows)
  /\ ses' = NewSession(From) /\ todo' = Todo("start", {}, "none")
  /\ UNCHANGED <<source, day, over, cut>> /\ NoSlip

Kinds(p) == IF ses.pos[p] = 0 THEN {"enter"} ELSE {"leave", "reverse"}
NextEvents ==
  IF ses.at < Len(day) THEN {day[ses.at + 1]}
  ELSE IF over \/ Len(day) = MaxEvents THEN {}
  ELSE {e \in [policy : Policies, kind : {"enter", "leave", "reverse"}] :
          e.kind \in Kinds(e.policy)}

\* The feed brings the next change of a book, replayed or new.
Feed ==
  /\ Idle /\ ~ses.closed
  /\ \E e \in NextEvents :
       LET t == ses.at + 1 IN
       /\ day' = IF ses.at = Len(day) THEN Append(day, e) ELSE day
       /\ made' = IF e.kind = "enter" THEN made
                  ELSE [made EXCEPT ![Cur] = Left({e.policy}, t)]
       /\ ses' = [ses EXCEPT !.at = t, !.pos[e.policy] = IF e.kind = "leave" THEN 0 ELSE t]
  /\ UNCHANGED <<source, over, proc, todo, recorder, cut>> /\ NoSlip

\* The engine's own end of the session.
EngineCloses ==
  /\ Idle /\ ~ses.closed /\ ses.at = Len(day)
  /\ over' = TRUE
  /\ CloseBooks
  /\ UNCHANGED <<source, day, proc, todo, recorder, cut>> /\ NoSlip

\* end_paper: paper_summary, Recorder.finish and close.
Ends(status) == todo' = Todo("summary", Policies, status) /\ proc' = "joining"

\* end_paper of a session whose books are flat, or made flat first.
EndFlat(status) == Ends(status) /\ CloseBooks /\ UNCHANGED cut /\ NoSlip

\* end_paper when Engine.finish was interrupted or failed.
EndOpen(status) ==
  /\ Slip /\ ~ses.closed
  /\ Ends(status) /\ cut' = cut \cup {Cur}
  /\ UNCHANGED <<made, ses>>

Done ==
  /\ Idle /\ ses.closed
  /\ EndFlat("done")
  /\ UNCHANGED <<source, day, over, recorder>>

\* SIGTERM, Ctrl-C, or a failure of the feed.
Stopped ==
  /\ Idle
  /\ \E status \in Stops : EndFlat(status) \/ EndOpen(status)
  /\ UNCHANGED <<source, day, over, recorder>>

-----------------------------------------------------------------------------
(* The session's thread: what it puts on the queue, one statement a step.  *)

StartRow         == [op |-> "start"]
TradeRow(p, n)   == [op |-> "trade", policy |-> p, trade |-> n]
OpenRow(e)       == [op |-> "open", entry |-> e]
SummaryRow(p, n) == [op |-> "summary", policy |-> p, trades |-> n]
FinalRow(s)      == [op |-> "final", status |-> s]
StopWriter       == [op |-> "stop"]

Queued(row) ==
  /\ queue' = Append(queue, row)
  /\ UNCHANGED <<source, day, over, made, proc, writer, view, db, cut>> /\ NoSlip

PutStart ==
  /\ todo.step = "start" /\ Queued(StartRow)
  /\ todo' = Nothing /\ UNCHANGED ses

\* Mutant of NextTrade: paper_sent counts one trade too few.
NextTradeAgain(p) == IF ses.sent[p] = 0 THEN 1 ELSE ses.sent[p]
NextTrade(p) == ses.sent[p] + 1

\* _paper_trades: every newly closed trade of every policy.
PutTrade ==
  /\ proc # "none" /\ todo.step # "start"
  /\ \E p \in Policies :
       /\ ses.sent[p] < Len(made[Cur][p])
       /\ Queued(TradeRow(p, NextTrade(p)))
       /\ ses' = [ses EXCEPT !.sent[p] = @ + 1]
  /\ UNCHANGED todo

\* _paper_open_position: the Jev position when it is another one.
PutOpen ==
  /\ proc # "none" /\ todo.step # "start"
  /\ \A p \in Policies : ses.sent[p] = Len(made[Cur][p])
  /\ ses.shown # ses.pos[Jev]
  /\ Queued(OpenRow(ses.pos[Jev]))
  /\ ses' = [ses EXCEPT !.shown = ses.pos[Jev]]
  /\ UNCHANGED todo

\* A row of totals per policy, the final status, and the item that stops the writer.
PutSummary ==
  /\ Settled /\ todo.step = "summary"
  /\ \E p \in todo.left :
       /\ Queued(SummaryRow(p, Len(made[Cur][p])))
       /\ todo' = [todo EXCEPT !.left = @ \ {p}]
  /\ UNCHANGED ses

PutFinal ==
  /\ Settled /\ todo.step = "summary" /\ todo.left = {}
  /\ Queued(FinalRow(todo.status))
  /\ todo' = [todo EXCEPT !.step = "stop"] /\ UNCHANGED ses

PutStop ==
  /\ todo.step = "stop" /\ Queued(StopWriter)
  /\ todo' = Nothing /\ UNCHANGED ses

Put == PutStart \/ PutTrade \/ PutOpen \/ PutSummary \/ PutFinal \/ PutStop

\* close() waits until the writer has stopped, or its timeout.
Joins == IF writer = "gone" THEN NoSlip ELSE Slip

\* amain goes on to finish the engine again: books still open are closed only now.
Joined ==
  /\ Settled /\ proc = "joining" /\ todo = Nothing /\ Joins
  /\ CloseBooks
  /\ proc' = "leaving"
  /\ UNCHANGED <<source, day, over, todo, recorder, cut>>

\* What the process has not committed is gone with it.
Dies == proc' = "none" /\ todo' = Nothing /\ queue' = <<>> /\ view' = NoRows /\ writer' = "gone"

\* main: os._exit.
Exit ==
  /\ Settled /\ proc = "leaving"
  /\ Dies /\ NoSlip
  /\ UNCHANGED <<source, day, over, made, ses, db, cut>>

Kill ==
  /\ proc # "none"
  /\ Dies /\ Slip
  /\ UNCHANGED <<source, day, over, made, ses, db, cut>>

-----------------------------------------------------------------------------
(* The writer thread and the rows.                                         *)

Apply(row, st) ==
  CASE st.op = "start"   -> [row EXCEPT !.status = "running"]
    [] st.op = "trade"   -> [row EXCEPT !.trades[st.policy] = Append(@, st.trade)]
    [] st.op = "open"    -> [row EXCEPT !.open = st.entry]
    [] st.op = "summary" -> [row EXCEPT !.summary[st.policy] = st.trades]
    [] st.op = "final" /\ row.status # "none" -> [row EXCEPT !.status = st.status]
    [] OTHER -> row

\* _worker executes what it took; one bad statement loses only itself.
Execute ==
  /\ writer # "gone" /\ queue # <<>>
  /\ queue' = Tail(queue)
  /\ \/ view' = Apply(view, Head(queue)) /\ UNCHANGED fails
     \/ /\ Head(queue).op # "stop" /\ fails < MaxFails /\ fails' = fails + 1
        /\ UNCHANGED view
  /\ writer' = IF Head(queue) = StopWriter THEN "stopping" ELSE writer
  /\ UNCHANGED <<source, day, over, made, ses, proc, todo, db, cut, slips>>

\* It commits what it executed, wherever the queue was empty when it looked; a
\* commit that fails leaves the transaction open, for the next one or for close
\* to roll back.
Commit ==
  /\ writer # "gone" /\ (writer = "stopping" \/ view # db[Cur])
  /\ \/ db' = [db EXCEPT ![Cur] = view] /\ NoSlip
     \/ UNCHANGED db /\ Slip
  /\ writer' = IF writer = "stopping" THEN "gone" ELSE writer
  /\ UNCHANGED <<source, day, over, made, ses, proc, todo, queue, view, cut>>

-----------------------------------------------------------------------------
(* Readers.                                                                *)

Sessions == DOMAIN db
Final(s) == db[s].status \in {"done", "aborted", "crashed"}

\* _live_summary, _policies: what the viewer shows for a policy.
Shown(s, p) ==
  IF \E q \in Policies : db[s].summary[q] # NoSummary THEN db[s].summary[p]
  ELSE Len(db[s].trades[p])

\* get_session: its trades, the totals, and whether they are final.
Page(s) == [trades |-> db[s].trades,
            totals |-> [p \in Policies |-> Shown(s, p)],
            final  |-> \E p \in Policies : db[s].summary[p] # NoSummary]

\* sessions_on, of those that are more than a row for a day without trading.
OfTheDay == {s \in Sessions : db[s].status # "none"}

\* policy_stats: trade rows of all sessions of the day, else their totals.
Stats(p) ==
  LET traded == MapThenSumSet(LAMBDA s : Len(db[s].trades[p]), OfTheDay)
      summed == {s \in OfTheDay : db[s].summary[p] # NoSummary}
  IN  IF traded > 0 THEN traded ELSE MapThenSumSet(LAMBDA s : db[s].summary[p], summed)

\* cmd_pnl of the day: its sessions, how they ended, its totals.
DayPnl == [sessions |-> Cardinality(OfTheDay),
           status   |-> {db[s].status : s \in OfTheDay},
           trades   |-> [p \in Policies |-> Stats(p)]]

\* cmd_close_summary, close_title: the last session's end, unless that is done,
\* and the day's totals, of a day that did not end well only if it traded.
CloseTitle ==
  LET last == db[Max(OfTheDay)].status
      traded == \E p \in Policies : Stats(p) > 0
  IN  [end    |-> IF last = "done" THEN "" ELSE last,
       totals |-> IF last = "done" \/ traded THEN DayPnl.trades ELSE Each(0)]

-----------------------------------------------------------------------------
Next ==
  \/ StartSession \/ Feed \/ EngineCloses \/ Done \/ Stopped \/ Put
  \/ Joined \/ Exit \/ Kill \/ Execute \/ Commit

Spec == Init /\ [][Next]_vars

-----------------------------------------------------------------------------
(* Properties.                                                             *)

Trade == [entry : 1 .. MaxEvents, exit : 1 .. MaxEvents]

TypeOK ==
  /\ source \in Sources /\ over \in BOOLEAN /\ Len(day) <= MaxEvents
  /\ Len(db) = Len(made)
  /\ \A s \in Sessions, p \in Policies :
       /\ \A k \in DOMAIN made[s][p] : made[s][p][k] \in Trade
       /\ \A k \in DOMAIN db[s].trades[p] : db[s].trades[p][k] \in 1 .. Len(made[s][p])
       /\ db[s].open \in 0 .. MaxEvents
       /\ db[s].summary[p] \in NoSummary .. Len(made[s][p])
       /\ db[s].status \in {"none", "running", "done", "aborted", "crashed"}
  /\ ses.at \in 0 .. Len(day) /\ proc \in {"none", "up", "joining", "leaving"}
  /\ writer \in {"alive", "stopping", "gone"} /\ cut \subseteq Sessions
  /\ fails \in 0 .. MaxFails /\ slips \in 0 .. MaxSlips

\* The trade rows of a session are trades it made, in their order and none twice,
\* whatever fails on the way (paper_sent; live.py:774 "every newly closed trade").
RowsInOrder ==
  \A s \in Sessions, p \in Policies :
    LET rows == db[s].trades[p]
        entry(n) == made[s][p][n].entry
    IN  /\ Range(rows) \subseteq DOMAIN made[s][p]
        /\ \A i, j \in DOMAIN rows :
             i < j => rows[i] < rows[j] /\ entry(rows[i]) < entry(rows[j])

\* A session that ended by itself has its end on record, and one whose row says that
\* it ended has its record complete: every trade, totals that match them, and no
\* position shown as open (live.py:1292 "Everything is written by now").  Only
\* statements that failed are missing, or what an interrupted end closed after it.
EndedIsComplete ==
  fails = 0 =>
    \A s \in Sessions \ cut :
      /\ slips = 0 /\ (s < Cur \/ proc = "none") => Final(s)
      /\ Final(s) =>
           /\ db[s].open = 0 /\ Page(s).final
           /\ \A p \in Policies :
                LET made_p == Len(made[s][p])
                IN  /\ Page(s).trades[p] = [k \in 1 .. made_p |-> k]
                    /\ Page(s).totals[p] = made_p

\* Once every session of a day has ended, the day's P&L and the report after the close
\* count each position once, however often the session was restarted, on the feed
\* that cannot replay.  On Databento a restart records what it replays once more,
\* though "the runner writes a new session row, so nothing is counted twice"
\* (resonant-extension/cli.py:1178).
DayCountsOnce ==
  /\ source = "tradovate" /\ fails = 0 /\ cut = {}
  /\ DayPnl.sessions = Cur /\ Cur > 0
  /\ "running" \notin DayPnl.status
  => \A p \in Policies :
       LET positions == {t.entry : t \in UNION {Range(made[s][p]) : s \in Sessions}}
       IN  /\ DayPnl.trades[p] = Cardinality(positions)
           /\ CloseTitle.totals[p] = Cardinality(positions)
=============================================================================
