----------------------------- MODULE CopyAccount -----------------------------
(***************************************************************************)
(* One account of the copy daemon: CopyExecutor (copytrade/executor.py),   *)
(* its rows in the ledger (copytrade/ledger.py), the tasks of the daemon   *)
(* that drive it (copytrade/daemon.py: the account worker, the kill        *)
(* watcher and flatten-all) and the account at the broker.                 *)
(*                                                                         *)
(* Every handler holds the executor's lock from its first line to its last *)
(* and awaits the broker in between.  A step of this model runs from one   *)
(* await to the next; `at` is the await the lock's holder is at (idle: the  *)
(* lock is free), and `then` what its caller does when _flatten returns.   *)
(* While it waits the exchange fills the bracket, the kill watcher or      *)
(* flatten-all set need_flat and queue for the lock, their own flatten is  *)
(* cancelled by a timeout, time passes, or the process dies.               *)
(*                                                                         *)
(* Prices, sizes and times are abstracted: whether a limit is hit, a size  *)
(* is wrong, a quote is missing or a poll is due is a free choice.  How    *)
(* the broker places, settles and closes orders (copytrade/broker.py) is   *)
(* one step with the outcomes it reports.                                  *)
(***************************************************************************)
EXTENDS Integers, FiniteSets

CONSTANTS Sides,       \* the targets and positions that occur: 0 (flat) and sides
          Polls,       \* the kill states the watcher's polls read
          Events,      \* which of AllEvents occur
          Cap,         \* Limits.max_orders: entries of one ET day
          MaxRejects,  \* MAX_REJECTS: rejected entries in a row
          MaxFaults,   \* bound: broker failures, timeouts, stray fills
          MaxCrash,    \* bound: daemon crashes
          MaxDays      \* bound: ET midnights

AllEvents == {"flattenAll", "timeout", "clear", "eod", "fill", "stray", "ledger"}

ASSUME AccountAssumption ==
  /\ Events \subseteq AllEvents
  /\ 0 \in Sides /\ 2 \notin Sides
  /\ Polls \subseteq {"unknown", "clear", "paused", "autonomy_off"}
  /\ Cap \in Nat /\ MaxRejects \in Nat \ {0}
  /\ MaxFaults \in Nat /\ MaxCrash \in Nat /\ MaxDays \in Nat

\* A row needs an entry; a day has at most Cap, and those whose count was lost.
MaxPosts == Cap + MaxFaults
MaxRows  == Cap * (MaxDays + 1) + MaxFaults

NotRead == 2             \* the read cache holds no position
KillStates == Polls \cup {"unknown"}
Halts  == {"no", "day", "all"}
Awaits == {"idle", "hbRead", "exitInfo", "exitSweep", "bracketRead",
           "orphanRead", "orphanSweep", "eodRead", "eodSweep", "eodCheck",
           "exitRead", "entryRead", "precheck", "posted", "readback",
           "flatten", "flatRead", "wdRead", "linkRead"}
Callers == {"done", "stops", "eod", "link", "hb", "intent", "entry",
            "eodFlat", "kill", "all"}

VARIABLES
  acct,     \* CopyExecutor's memory and the account's rows on disk
  mkt,      \* the account at the exchange: position and live orders
  at,       \* the await the lock's holder is at
  then,     \* the caller of _flatten or _native_exit
  killTask, \* kill_flatten waits for the lock
  allTask,  \* flatten_all waits for the lock
  daemonKill,  \* Daemon.kill: the last state the watcher read
  silent,   \* nothing received for HEARTBEAT_LOST_S
  eod,      \* it is past EOD_FLATTEN_ET
  faults, crashes, days   \* what is used of the bounds

vars == <<acct, mkt, at, then, killTask, allTask, daemonKill, silent, eod,
          faults, crashes, days>>

\* Unchanged by a step of the lock's holder.
others == <<killTask, allTask, daemonKill, silent, eod, crashes, days>>
\* Unchanged by the watcher, the owner, the clock and the exchange.
control == <<at, then>>

\* phase: starting and flattening are startup()'s two awaits, killing is the
\* wait of the first kill_flatten, clean is phase \in {killing, ready}.
\* trade is the row of the open copy trade (0: none) and side its side; seen
\* is the read cache; the last five are on disk: the day's halt, the open
\* trade rows, whether an order row is still "sending", the entry rows of the
\* day and the next row id.  strayed is history, no state of the code: a stray
\* order has opened a position since the executor last read it at the exchange.
Fresh == [phase |-> "starting", kill |-> "unknown", need |-> FALSE,
          backoff |-> FALSE, target |-> 0, trade |-> 0, side |-> 0,
          entries |-> 0, rejects |-> 0, reduced |-> FALSE, alerted |-> FALSE,
          hbOk |-> FALSE, linkLost |-> FALSE, eodDone |-> FALSE,
          seen |-> NotRead, strayed |-> FALSE,
          halt |-> "no", open |-> {}, sending |-> FALSE, posts |-> 0,
          nextRow |-> 1]

FlatMkt == [pos |-> 0, orders |-> 0]

Init ==
  /\ acct = Fresh /\ mkt = FlatMkt
  /\ at = "idle" /\ then = "done"
  /\ killTask = FALSE /\ allTask = FALSE /\ daemonKill = "unknown"
  /\ silent = FALSE /\ eod = FALSE
  /\ faults = 0 /\ crashes = 0 /\ days = 0

Ready == acct.phase = "ready"
Clean == acct.phase \in {"killing", "ready"}

\* Something at the broker or on the way to it goes wrong, or nothing does.
Fault   == faults < MaxFaults /\ faults' = faults + 1
NoFault == UNCHANGED faults

\* Mutant of CachedPos: nothing read counts as flat.
CachedPosFlat == IF acct.seen = NotRead THEN 0 ELSE acct.seen

\* The broker's cached position read and what a read leaves: of the exchange,
\* or from the cache as long as it holds a position.
CachedPos == IF acct.seen = NotRead THEN mkt.pos ELSE acct.seen
Saw(x, p) == [x EXCEPT !.seen = p, !.strayed = FALSE]
SawCached(x) ==
  [x EXCEPT !.seen = CachedPos, !.strayed = x.strayed /\ x.seen # NotRead]
\* _invalidate: any action at the broker drops the cache.
Unseen(x) == [x EXCEPT !.seen = NotRead]

-----------------------------------------------------------------------------
(* Pieces of handlers: x is the account so far in this step. *)

\* Mutant of HaltDay: the test for an existing row turned round.
HaltDayInverted(x, why) == IF x.halt # "no" THEN [x EXCEPT !.halt = why] ELSE x

\* The ledger's rows: Kept is what a restart finds of x.
Kept(x) ==
  [Fresh EXCEPT !.halt = x.halt, !.open = x.open, !.sending = x.sending,
                !.posts = x.posts, !.nextRow = x.nextRow]
ActiveHalt(x)     == x.halt # "no"
OrderNew(x)       == [x EXCEPT !.sending = TRUE, !.posts = @ + 1]
OrderUpdate(x)    == [x EXCEPT !.sending = FALSE]
TradeOpen(x)      == [x EXCEPT !.open = @ \cup {x.nextRow}, !.nextRow = @ + 1]
TradeClose(x, id) == [x EXCEPT !.open = @ \ {id}]

\* halt_day: one halt row per episode.
HaltDay(x, why) == IF ActiveHalt(x) THEN x ELSE [x EXCEPT !.halt = why]

\* self.trade = {...} once the entry is read back, whatever self.trade was.
OpenTrade(x) ==
  [TradeOpen(x) EXCEPT !.trade = x.nextRow, !.side = x.target]

\* _close_row, self.trade = None and _reduced = 0.
CloseTrade(x) ==
  [TradeClose(x, x.trade) EXCEPT !.trade = 0, !.side = 0, !.reduced = FALSE]

\* _record_closed_at_entry: a row that is closed as soon as it is opened.
RecordClosedAtEntry(x) == TradeClose(TradeOpen(x), x.nextRow)

\* _flatten_failed: retried by the watchdog after a backoff.
FlattenFailed(x) == [x EXCEPT !.need = TRUE, !.backoff = TRUE]

\* The handler goes on to its next await.
Await(x, where) == acct' = x /\ at' = where /\ then' = "done"

\* The handler returns and the lock is free.
Release(x) == acct' = x /\ at' = "idle" /\ then' = "done"

\* _flatten for a caller that goes on as c; skip is what the caller does
\* when _flatten returns at once because it is backing off.
FlattenThen(x, c, skip) ==
  IF x.need /\ x.backoff
    THEN skip
    ELSE acct' = Unseen(x) /\ at' = "flatten" /\ then' = c

\* _eod_guard: from EOD_FLATTEN_ET until flat.
EodGuard(x) ==
  IF eod /\ ~x.eodDone THEN Await(x, "eodRead") ELSE Release(x)

\* _check_stops, then _eod_guard: the day's loss or profit limit may be hit
\* once something was traded.
CheckStops(x) ==
  \/ EodGuard(x)
  \/ /\ x.halt = "no" /\ x.posts > 0
     /\ LET h == HaltDay(x, "day") IN FlattenThen(h, "eod", EodGuard(h))

\* The last part of _check_position: two reads of a reduced size flatten the
\* rest.
CheckSize(x) ==
  \/ CheckStops([x EXCEPT !.reduced = FALSE])
  \/ /\ ~x.reduced
     /\ CheckStops([x EXCEPT !.reduced = TRUE])
  \/ /\ x.reduced
     /\ FlattenThen(x, "stops", CheckStops(x))

\* _check_position: too large, the siblings are due for a look, or only the
\* size is looked at.
CheckPosition(x) ==
  \/ LET h == HaltDay(x, "day") IN FlattenThen(h, "stops", CheckStops(h))
  \/ Await(x, "bracketRead")
  \/ CheckSize(x)

\* _native_exit up to its sweep; exit_info reads the broker first.
NativeExit(x, c) == acct' = x /\ at' = "exitInfo" /\ then' = c

\* Paper is flat or the other way: the account follows.  Its mutant only
\* follows a paper that is the other way.
DriftedOpposite(x, p) == x.target \notin {0, p}
Drifted(x, p) == x.target # p

\* _reconcile with the position p it has read.
Reconcile(x, p) ==
  \/ /\ p = 0 /\ x.trade # 0
     /\ NativeExit(x, "stops")
  \/ /\ p # 0 /\ (x.trade = 0 \/ p # x.side)
     /\ LET h == HaltDay(x, "day") IN FlattenThen(h, "done", Release(h))
  \/ /\ p # 0 /\ x.trade # 0 /\ p = x.side
     /\ IF Drifted(x, p) THEN FlattenThen(x, "done", Release(x))
                          ELSE CheckPosition(x)
  \/ /\ p = 0 /\ x.trade = 0
     /\ Await(x, "orphanRead") \/ CheckStops(x)

\* on_heartbeat after the new-boot part: link and halt of the link, then the
\* seq; an old heartbeat (seq behind) ends here, any other gives the target.
HeartbeatRest(x) ==
  \E live \in BOOLEAN :
    LET y == [x EXCEPT !.hbOk = live, !.linkLost = @ /\ ~live] IN
    \/ Release(y)
    \/ \E t \in Sides : Await([y EXCEPT !.target = t], "hbRead")

\* gate_reason and the session hours, as far as they are state of this model;
\* a stale or catch-up intent, a disabled account, a dead token, a blocked
\* broker or a missing quote are the free refusal of Gate.
GateOpen(x) ==
  /\ x.kill = "clear" /\ x.halt = "no" /\ x.hbOk /\ ~x.linkLost
  /\ ~eod

\* Mutant of Gate: one entry too many.
GateOffByOne(x) ==
  \/ Release(x)
  \/ /\ GateOpen(x)
     /\ IF x.entries > Cap THEN Release(HaltDay(x, "day"))
                           ELSE Await(x, "precheck")

\* _entry from the catch-up check to broker.enter.
Gate(x) ==
  \/ Release(x)
  \/ /\ GateOpen(x)
     /\ IF x.entries >= Cap THEN Release(HaltDay(x, "day"))
                            ELSE Await(x, "precheck")

\* on_intent after the new-boot part: a duplicate ends here, a replay intent
\* once its target is stored.
IntentRest(x) ==
  \/ Release(x)
  \/ \E t \in Sides : LET y == [x EXCEPT !.target = t] IN
       \/ Release(y)
       \/ Await(y, IF t = 0 THEN "exitRead" ELSE "entryRead")

\* watchdog_tick from the heartbeat check on.
LinkCheck(x) ==
  IF silent THEN Await([x EXCEPT !.linkLost = TRUE, !.hbOk = FALSE], "linkRead")
            ELSE EodGuard(x)

\* _flatten returns to its caller, account x, flat or not.
AfterFlatten(x, flat) ==
  CASE then \in {"done", "kill", "all"} -> Release(x)
    [] then = "stops"   -> CheckStops(x)
    [] then = "eod"     -> EodGuard(x)
    [] then = "link"    -> LinkCheck(x)
    [] then = "hb"      -> HeartbeatRest(x)
    [] then = "intent"  -> IntentRest(x)
    [] then = "entry"   -> IF flat THEN Gate(x) ELSE Release(x)
    [] then = "eodFlat" -> Await(x, IF flat THEN "eodSweep" ELSE "eodCheck")

\* broker.flatten ends flat and swept, or reports that it did not.
BrokerFlat == NoFault /\ mkt' = FlatMkt
BrokerNotFlat ==
  /\ Fault
  /\ mkt' \in {mkt, FlatMkt, [mkt EXCEPT !.pos = 0]}

\* broker.sweep cancels every order.
Sweep == mkt' = [mkt EXCEPT !.orders = 0]

\* startup() returns True: the worker goes on to its loop, through its own
\* kill_flatten when Resonant is paused.
AskKillInTask(x) == [x EXCEPT !.kill = "paused", !.backoff = FALSE]   \* mutant
AskKill(x) == [x EXCEPT !.kill = "paused", !.need = TRUE, !.backoff = FALSE]
StartDone(x) ==
  IF daemonKill = "paused" THEN [AskKill(x) EXCEPT !.phase = "killing"]
                           ELSE [x EXCEPT !.phase = "ready"]

\* _refresh_day when the executor is made: the day's entries are in the rows.
RecountNone == 0    \* mutant
Recount == acct.posts

-----------------------------------------------------------------------------
(* startup: not under the lock, so flatten_all may run beside it. *)

\* It reads the position and the orders; what it finds dirty it flattens.
StartRead ==
  /\ acct.phase = "starting"
  /\ LET dirty == mkt # FlatMkt \/ acct.sending IN
     acct' = IF dirty THEN [acct EXCEPT !.phase = "flattening"]
                      ELSE StartDone([Saw(acct, mkt.pos) EXCEPT !.trade = 0])
  /\ NoFault /\ UNCHANGED <<mkt, control, others>>

\* broker.flatten failed: startup is retried.  Else the open rows are closed,
\* the stuck ones marked unknown.
StartFlatten ==
  /\ acct.phase = "flattening"
  /\ \/ /\ BrokerFlat
        /\ acct' = StartDone([OrderUpdate(Unseen(acct)) EXCEPT !.trade = 0, !.open = {}])
     \/ /\ BrokerNotFlat
        /\ acct' = [Unseen(acct) EXCEPT !.phase = "starting"]
  /\ UNCHANGED <<control, others>>

\* The worker's own kill_flatten, when it starts while Resonant is paused: no
\* timeout cancels this one.
StartKill ==
  /\ acct.phase = "killing" /\ at = "idle"
  /\ acct' = [Unseen(acct) EXCEPT !.phase = "ready", !.backoff = FALSE]
  /\ at' = "flatten" /\ then' = "done"
  /\ NoFault /\ UNCHANGED <<mkt, others>>

-----------------------------------------------------------------------------
(* The worker's handlers: one from the queue, or the tick, at a time. *)

\* on_heartbeat: of a new paper run, or not.  The message may have waited in
\* the queue; its receipt was stamped by the HTTP layer.
HeartbeatStart ==
  /\ Ready /\ at = "idle"
  /\ \/ HeartbeatRest(acct)
     \/ LET x == [acct EXCEPT !.target = 0] IN
        IF x.trade # 0 THEN FlattenThen(x, "hb", HeartbeatRest(x))
                       ELSE HeartbeatRest(x)
  /\ silent' \in {FALSE, silent}
  /\ NoFault
  /\ UNCHANGED <<mkt, killTask, allTask, daemonKill, eod, crashes, days>>

\* on_intent: of a new paper run, or not.
IntentStart ==
  /\ Ready /\ at = "idle"
  /\ \/ IntentRest(acct)
     \/ LET x == [acct EXCEPT !.target = 0] IN
        IF x.trade # 0 THEN FlattenThen(x, "intent", IntentRest(x))
                       ELSE IntentRest(x)
  /\ silent' \in {FALSE, silent}
  /\ NoFault
  /\ UNCHANGED <<mkt, killTask, allTask, daemonKill, eod, crashes, days>>

\* Mutant of TickStart: no look after a kill or flatten-all.
TickNoLook ==
  /\ Ready /\ at = "idle"
  /\ IF acct.need /\ ~acct.backoff THEN FlattenThen(acct, "link", LinkCheck(acct))
                                   ELSE LinkCheck(acct)
  /\ NoFault /\ UNCHANGED <<mkt, others>>

\* watchdog_tick: retry what is owed; look again after a kill or flatten-all.
TickStart ==
  /\ Ready /\ at = "idle"
  /\ IF acct.need /\ ~acct.backoff THEN FlattenThen(acct, "link", LinkCheck(acct))
     ELSE IF (acct.kill = "paused" \/ acct.halt = "all") /\ ~acct.backoff
       THEN Await(acct, "wdRead")
     ELSE LinkCheck(acct)
  /\ NoFault /\ UNCHANGED <<mkt, others>>

WatchdogRead ==
  /\ at = "wdRead"
  /\ \/ /\ NoFault
        /\ LET p == CachedPos
               x == SawCached(acct)
           IN IF p # 0 THEN FlattenThen(x, "link", LinkCheck(x)) ELSE LinkCheck(x)
     \/ Fault /\ LinkCheck(acct)
  /\ UNCHANGED <<mkt, others>>

LinkRead ==
  /\ at = "linkRead"
  /\ \/ /\ NoFault
        /\ LET p == CachedPos
               x == SawCached(acct)
           IN IF p # 0 THEN FlattenThen(x, "done", Release(x)) ELSE Release(x)
     \/ Fault /\ Release(acct)
  /\ UNCHANGED <<mkt, others>>

\* _reconcile's read; when it fails nothing else is looked at.
HeartbeatRead ==
  /\ at = "hbRead"
  /\ \/ NoFault /\ Reconcile(SawCached(acct), CachedPos)
     \/ Fault /\ Release(acct)
  /\ UNCHANGED <<mkt, others>>

\* _native_exit: the row is closed with the child's fill or without, then the
\* orders are swept.
ExitInfo ==
  /\ at = "exitInfo"
  /\ acct' = Unseen(CloseTrade(acct)) /\ at' = "exitSweep"
  /\ NoFault /\ UNCHANGED <<mkt, then, others>>

ExitSweep ==
  /\ at = "exitSweep"
  /\ LET next(x) == IF then = "stops" THEN CheckStops(x) ELSE Release(x) IN
     \/ NoFault /\ Sweep /\ next(Unseen(acct))
     \/ Fault /\ UNCHANGED mkt /\ next(Unseen(HaltDay(acct, "day")))
  /\ UNCHANGED others

\* _check_position's look at the siblings.
BracketRead ==
  /\ at = "bracketRead"
  /\ \/ /\ NoFault
        /\ IF mkt.orders < 2
             THEN LET h == HaltDay(acct, "day") IN
                  FlattenThen(h, "stops", CheckStops(h))
             ELSE CheckSize(acct)
     \/ Fault /\ CheckStops(acct)
  /\ UNCHANGED <<mkt, others>>

\* _poll_orphans: live orders on an account that a fresh read confirms flat.
OrphanRead ==
  /\ at = "orphanRead"
  /\ \/ /\ NoFault
        /\ LET x == IF mkt.orders > 0 THEN Saw(acct, mkt.pos) ELSE acct IN
           IF mkt.orders = 0 THEN CheckStops([x EXCEPT !.alerted = FALSE])
           ELSE IF mkt.pos # 0 THEN CheckStops(x)
           ELSE Await(x, "orphanSweep")
     \/ Fault /\ CheckStops(acct)
  /\ UNCHANGED <<mkt, others>>

OrphanSweep ==
  /\ at = "orphanSweep"
  /\ LET x == Unseen(acct) IN
     \/ NoFault /\ Sweep /\ CheckStops([x EXCEPT !.alerted = FALSE])
     \/ /\ Fault /\ UNCHANGED mkt
        /\ CheckStops(IF x.alerted THEN x
                      ELSE HaltDay([x EXCEPT !.alerted = TRUE], "day"))
  /\ UNCHANGED others

\* _eod_guard's three awaits; a failed read is left for the next tick.
EodRead ==
  /\ at = "eodRead"
  /\ LET x == Saw(acct, mkt.pos) IN
     \/ NoFault /\ IF mkt # FlatMkt
                     THEN FlattenThen(x, "eodFlat", Await(x, "eodCheck"))
                     ELSE Release([x EXCEPT !.eodDone = TRUE])
     \/ Fault /\ Release(acct)
  /\ UNCHANGED <<mkt, others>>

EodSweep ==
  /\ at = "eodSweep"
  /\ (NoFault /\ Sweep) \/ (Fault /\ UNCHANGED mkt)
  /\ Await(Unseen(acct), "eodCheck")
  /\ UNCHANGED others

EodCheck ==
  /\ at = "eodCheck"
  /\ \/ NoFault /\ Release([Saw(acct, mkt.pos) EXCEPT !.eodDone = mkt.pos = 0])
     \/ Fault /\ Release(acct)
  /\ UNCHANGED <<mkt, others>>

\* _exit: a position it cannot read is owed a flatten.
ExitRead ==
  /\ at = "exitRead"
  /\ LET x == Saw(acct, mkt.pos) IN
     \/ /\ NoFault
        /\ IF mkt.pos # 0 THEN FlattenThen(x, "done", Release(x))
           ELSE IF x.trade # 0 THEN NativeExit(x, "done")
           ELSE Release(x)
     \/ Fault /\ Release([acct EXCEPT !.need = TRUE])
  /\ UNCHANGED <<mkt, others>>

\* _entry's first read: there already, the other way (close first), or flat.
EntryRead ==
  /\ at = "entryRead"
  /\ LET x == Saw(acct, mkt.pos) IN
     \/ /\ NoFault
        /\ IF mkt.pos = x.target THEN Release(x)
           ELSE IF mkt.pos = 0 THEN Gate(x)
           ELSE FlattenThen(x, "entry", Release(x))
     \/ Fault /\ Release(acct)
  /\ UNCHANGED <<mkt, others>>

\* broker.enter up to the POST: not flat, stale orders it cannot cancel, a
\* failed read or a blocked broker end it; else the rows are written.
Precheck ==
  /\ at = "precheck"
  /\ LET x == Unseen([acct EXCEPT !.entries = @ + 1]) IN
     \/ /\ mkt.pos # 0
        /\ NoFault /\ UNCHANGED mkt /\ Release(HaltDay(x, "day"))
     \/ /\ mkt.pos = 0 /\ mkt.orders > 0
        /\ Fault /\ UNCHANGED mkt /\ Release(HaltDay(x, "day"))
     \/ Fault /\ UNCHANGED mkt /\ Release([x EXCEPT !.rejects = 0])
     \/ /\ mkt.pos = 0
        /\ NoFault /\ Sweep
        /\ Await(OrderNew(Unseen(acct)), "posted")
  /\ UNCHANGED others

\* What broker.enter reports of the POST, and what is at the exchange then.
Posted ==
  /\ at = "posted"
  /\ LET sent == [acct EXCEPT !.entries = @ + 1]
         x    == OrderUpdate(sent)
     IN \/ \* missed, or partly filled and closed
           /\ NoFault /\ mkt' = FlatMkt
           /\ \E y \in {x, RecordClosedAtEntry(x)} : Release([y EXCEPT !.rejects = 0])
        \/ \* rejected
           /\ NoFault /\ UNCHANGED mkt
           /\ LET r == [x EXCEPT !.rejects = IF @ < MaxRejects THEN @ + 1 ELSE @] IN
              Release(IF r.rejects >= MaxRejects THEN HaltDay(r, "day") ELSE r)
        \/ \* partly filled and not closed: its row is booked closed all the same
           /\ Fault
           /\ \E p \in {0, x.target}, n \in 0 .. 2 :
                mkt' = [pos |-> p, orders |-> n]
           /\ Release(HaltDay([RecordClosedAtEntry(x) EXCEPT !.need = TRUE], "day"))
        \/ \* outcome unknown, read-back failed, orphans; or the bracket missing,
           \* with a row that is booked closed whether the flatten worked or not
           /\ Fault
           /\ \E p \in {0, x.target}, n \in 0 .. 2 :
                mkt' = [pos |-> p, orders |-> n]
           /\ \E y \in {x, sent, RecordClosedAtEntry(x)} : Release(HaltDay(y, "day"))
        \/ \* filled with its bracket
           /\ NoFault /\ mkt' = [pos |-> x.target, orders |-> 2]
           /\ Await([x EXCEPT !.rejects = 0], "readback")
  /\ UNCHANGED others

\* _entry's read-back: the trade row is written, or the account flattened.
Readback ==
  /\ at = "readback"
  /\ LET x == Saw(acct, mkt.pos)
         h == HaltDay(acct, "day")
     IN \/ /\ NoFault
           /\ IF mkt.pos = x.target
                THEN Release(OpenTrade(x))
                ELSE FlattenThen(h, "done", Release(h))
        \/ Fault /\ FlattenThen(h, "done", Release(h))
  /\ UNCHANGED <<mkt, others>>

\* _flatten: broker.flatten, then a fresh read that confirms it.
Flatten ==
  /\ at = "flatten"
  /\ LET x == Unseen(acct) IN
     \/ BrokerFlat /\ acct' = x /\ at' = "flatRead" /\ UNCHANGED then
     \/ BrokerNotFlat /\ AfterFlatten(FlattenFailed(HaltDay(x, "day")), FALSE)
  /\ UNCHANGED others

FlattenRead ==
  /\ at = "flatRead"
  /\ LET x == Saw(acct, mkt.pos) IN
     \/ /\ NoFault
        /\ IF mkt.pos # 0
             THEN AfterFlatten(FlattenFailed(HaltDay(x, "day")), FALSE)
             ELSE LET y == [x EXCEPT !.need = FALSE, !.backoff = FALSE] IN
                  AfterFlatten(IF y.trade # 0 THEN CloseTrade(y) ELSE y, TRUE)
     \/ Fault /\ AfterFlatten(FlattenFailed(acct), FALSE)
  /\ UNCHANGED <<mkt, others>>

-----------------------------------------------------------------------------
(* The kill watcher, the owner, and time. *)

\* kill_state: Resonant's status API, and its database when the API does not
\* answer with a boolean; with neither the state is unknown.
KillState(api, db) == IF api = "unknown" THEN db ELSE api

\* kill_once: on the first paused poll every clean account is asked to
\* flatten, owed before the lock is waited for; the watcher polls again only
\* when that has ended.
KillPoll ==
  /\ ~killTask /\ then # "kill"
  /\ \E new \in {KillState(api, db) : api, db \in Polls} :
       /\ daemonKill' = new
       /\ LET ask == /\ new = "paused" /\ Clean
                     /\ daemonKill # "paused" \/ acct.kill # "paused"
          IN /\ acct' = IF ask THEN AskKill(acct) ELSE [acct EXCEPT !.kill = new]
             /\ killTask' = ask
  /\ NoFault
  /\ UNCHANGED <<mkt, control, allTask, silent, eod, crashes, days>>

KillAcquire ==
  /\ killTask /\ at = "idle"
  /\ killTask' = FALSE
  /\ acct' = Unseen([acct EXCEPT !.backoff = FALSE])
  /\ at' = "flatten" /\ then' = "kill"
  /\ NoFault
  /\ UNCHANGED <<mkt, allTask, daemonKill, silent, eod, crashes, days>>

\* flatten_all: owed before the lock is waited for, halted once it is held.
FlattenAllRequest ==
  /\ "flattenAll" \in Events /\ ~allTask /\ then # "all"
  /\ allTask' = TRUE
  /\ acct' = [acct EXCEPT !.need = TRUE]
  /\ NoFault
  /\ UNCHANGED <<mkt, control, killTask, daemonKill, silent, eod, crashes, days>>

FlattenAllAcquire ==
  /\ allTask /\ at = "idle"
  /\ allTask' = FALSE
  /\ acct' = Unseen([HaltDay(acct, "all") EXCEPT !.backoff = FALSE])
  /\ at' = "flatten" /\ then' = "all"
  /\ NoFault
  /\ UNCHANGED <<mkt, killTask, daemonKill, silent, eod, crashes, days>>

\* _timed: 20 s pass.  A task that waits for a held lock gives up; one that flattens
\* is cancelled at its await, what it asked for done or not.
TimedOut ==
  /\ "timeout" \in Events /\ Fault
  /\ \/ /\ killTask /\ at # "idle" /\ killTask' = FALSE
        /\ UNCHANGED <<acct, mkt, control, allTask>>
     \/ /\ allTask /\ at # "idle" /\ allTask' = FALSE
        /\ UNCHANGED <<acct, mkt, control, killTask>>
     \/ /\ then \in {"kill", "all"}
        /\ mkt' \in IF at = "flatten" THEN {mkt, FlatMkt} ELSE {mkt}
        /\ Release(acct)
        /\ UNCHANGED <<killTask, allTask>>
  /\ UNCHANGED <<daemonKill, silent, eod, crashes, days>>

\* What a row that cannot be booked leaves of a flatten: nothing is owed and no
\* trade is known, though its row is still open.
RowNotBooked(x) ==
  [x EXCEPT !.need = FALSE, !.backoff = FALSE, !.trade = 0, !.side = 0]

\* _safe: a handler fails in the ledger or anywhere else once its broker call
\* has returned; its account is halted and the worker goes on.  flatten-all
\* and the kill watcher let their tasks fail without a halt.
WorkerCrash ==
  /\ "ledger" \in Events /\ Fault /\ at # "idle" /\ then \notin {"kill", "all"}
  /\ \/ UNCHANGED mkt
     \/ at = "flatten" /\ mkt' = FlatMkt
     \/ at = "posted" /\ mkt' = [pos |-> acct.target, orders |-> 2]
  /\ \/ Release(HaltDay(Unseen(acct), "day"))
     \/ /\ at = "flatRead" /\ mkt.pos = 0
        /\ Release(HaltDay(RowNotBooked(Unseen(acct)), "day"))
  /\ UNCHANGED others

\* flatten-all --direct: the owner's own, which the lock refuses unless no
\* daemon runs; the ledger's rows are not touched.
FlattenAllDirect == "flattenAll" \in Events /\ mkt' = FlatMkt

\* The daemon dies and is started again: what it had at the broker is done or
\* not; its memory is gone.  In between the owner may flatten.
Crash ==
  /\ crashes < MaxCrash /\ crashes' = crashes + 1
  /\ acct' = [Kept(acct) EXCEPT !.entries = Recount]
  /\ at' = "idle" /\ then' = "done" /\ killTask' = FALSE /\ allTask' = FALSE
  /\ daemonKill' = "unknown" /\ silent' = FALSE
  /\ \/ UNCHANGED mkt
     \/ (at = "flatten" \/ acct.phase = "flattening") /\ mkt' = FlatMkt
     \/ FlattenAllDirect
     \/ at = "posted" /\ \E n \in 0 .. 2 : mkt' = [pos |-> acct.target, orders |-> n]
  /\ NoFault /\ UNCHANGED <<eod, days>>

\* The owner's clear-halts.
ClearHalts ==
  /\ "clear" \in Events
  /\ ActiveHalt(acct) /\ acct' = [acct EXCEPT !.halt = "no"]
  /\ NoFault /\ UNCHANGED <<mkt, control, others>>

\* _flatten_failed's backoff, the cached read and the heartbeat run out.
BackoffOver ==
  /\ acct.backoff /\ acct' = [acct EXCEPT !.backoff = FALSE]
  /\ NoFault /\ UNCHANGED <<mkt, control, others>>

CacheExpires ==
  /\ acct.seen # NotRead /\ acct' = Unseen(acct)
  /\ NoFault /\ UNCHANGED <<mkt, control, others>>

Silence ==
  /\ ~silent /\ silent' = TRUE
  /\ NoFault
  /\ UNCHANGED <<acct, mkt, control, killTask, allTask, daemonKill, eod, crashes,
                 days>>

EodReached ==
  /\ "eod" \in Events /\ ~eod /\ eod' = TRUE
  /\ NoFault
  /\ UNCHANGED <<acct, mkt, control, killTask, allTask, daemonKill, silent,
                 crashes, days>>

\* _refresh_day at the next handler: midnight between two of them.
DayRolls ==
  /\ days < MaxDays /\ days' = days + 1
  /\ at = "idle" /\ eod' = FALSE
  /\ acct' = [acct EXCEPT !.entries = 0, !.posts = 0, !.rejects = 0, !.halt = "no",
                          !.eodDone = FALSE]
  /\ NoFault
  /\ UNCHANGED <<mkt, control, killTask, allTask, daemonKill, silent, crashes>>

-----------------------------------------------------------------------------
(* The exchange. *)

\* The bracket fills and its sibling is cancelled.
BracketFill ==
  /\ "fill" \in Events /\ mkt.pos # 0 /\ mkt.orders > 0
  /\ mkt' = FlatMkt
  /\ NoFault /\ UNCHANGED <<acct, control, others>>

\* A fill that leaves a sibling, an order that dies, an order that opens a
\* position, the owner's hand.
Stray ==
  /\ "stray" \in Events /\ Fault
  /\ \/ /\ \/ mkt.pos # 0 /\ mkt.orders = 2 /\ mkt' = [pos |-> 0, orders |-> 1]
           \/ mkt.orders > 0 /\ mkt' = [mkt EXCEPT !.orders = @ - 1]
        /\ UNCHANGED acct
     \/ /\ mkt.pos = 0
        /\ \E p \in Sides \ {0} :
             mkt' = [pos |-> p, orders |-> IF mkt.orders > 0 THEN mkt.orders - 1 ELSE 0]
        /\ acct' = [acct EXCEPT !.strayed = TRUE]
  /\ UNCHANGED <<control, others>>

-----------------------------------------------------------------------------
Worker ==
  \/ StartRead \/ StartFlatten \/ StartKill
  \/ HeartbeatStart \/ IntentStart \/ TickStart

Resume ==
  \/ WatchdogRead \/ LinkRead \/ HeartbeatRead \/ ExitInfo \/ ExitSweep
  \/ BracketRead \/ OrphanRead \/ OrphanSweep \/ EodRead \/ EodSweep \/ EodCheck
  \/ ExitRead \/ EntryRead \/ Precheck \/ Posted \/ Readback
  \/ Flatten \/ FlattenRead

Tasks == KillPoll \/ KillAcquire \/ FlattenAllRequest \/ FlattenAllAcquire \/ TimedOut

Environment ==
  \/ Crash \/ ClearHalts \/ BackoffOver \/ CacheExpires \/ Silence \/ EodReached
  \/ DayRolls \/ BracketFill \/ Stray

Next == Worker \/ Resume \/ WorkerCrash \/ Tasks \/ Environment

Spec == Init /\ [][Next]_vars

-----------------------------------------------------------------------------
(* Properties. *)

TypeOK ==
  /\ acct \in [phase : {"starting", "flattening", "killing", "ready"},
               kill : KillStates, need : BOOLEAN, backoff : BOOLEAN,
               target : Sides, trade : 0 .. MaxRows, side : Sides,
               entries : 0 .. MaxPosts, rejects : 0 .. MaxRejects,
               reduced : BOOLEAN, alerted : BOOLEAN, hbOk : BOOLEAN,
               linkLost : BOOLEAN, eodDone : BOOLEAN,
               seen : Sides \cup {NotRead}, strayed : BOOLEAN, halt : Halts,
               open : SUBSET (1 .. MaxRows), sending : BOOLEAN, posts : 0 .. MaxPosts,
               nextRow : 1 .. MaxRows + 1]
  /\ mkt \in [pos : Sides, orders : 0 .. 2]
  /\ at \in Awaits /\ then \in Callers
  /\ killTask \in BOOLEAN /\ allTask \in BOOLEAN /\ daemonKill \in KillStates
  /\ silent \in BOOLEAN /\ eod \in BOOLEAN
  /\ faults \in 0 .. MaxFaults /\ crashes \in 0 .. MaxCrash /\ days \in 0 .. MaxDays

\* The entry orders of a day stay within the cap across restarts, misses and
\* rejects (README.md:149 "the entry cap"; rows are written before the POST).
\* Only a worker crash inside broker.enter loses the count of its entry, until
\* a restart; the day it halts the owner may clear.  The slack is coarser: it
\* allows one entry for every fault so far, whatever it was.
EntriesWithinCap == acct.posts <= Cap + faults

\* An entry that passed the gate before the kill switch came is owed a flatten
\* while it is under way, even when the kill's own task was cancelled
\* (executor.py:664 "`need_flat` is set BEFORE waiting for the lock").
SlippedEntryIsOwed ==
  at \in {"precheck", "posted", "readback"} /\ acct.kill = "paused" => acct.need

\* A handler that placed or closed orders and leaves a position at the
\* exchange has a trade row for it, or the day is halted, or a flatten is owed
\* (README.md:149 "a failed flatten, a read-back mismatch, a bracket missing
\* after a fill" halt the day), or the kill switch is on, under which the
\* watchdog flattens any position it sees.
PositionLeftIsOwned ==
  [][/\ at' = "idle" /\ mkt'.pos # 0 /\ crashes' = crashes
     /\ \/ at = "posted" /\ mkt' # mkt
        \/ at \in {"readback", "flatten", "flatRead"}
     => \/ acct'.trade # 0 \/ acct'.halt # "no"
        \/ acct'.need \/ acct'.kill = "paused"]_vars

\* A trade's row is booked closed only when the exchange is flat, though the
\* read that decides it may be cached and an await comes in between, and
\* whatever else has failed before: only a stray order that opened a position
\* after the last read of the exchange is excused.  A row booked closed as it
\* is opened (executor.py:528), of an entry the broker had to flatten, may be
\* of a position that flatten did not close; it is then on a halted day.
RowClosedOnlyWhenFlat ==
  [][/\ ~(acct.open \subseteq acct'.open) => mkt'.pos = 0 \/ acct.strayed
     /\ acct'.nextRow # acct.nextRow /\ acct'.open = acct.open
          => mkt'.pos = 0 \/ acct'.halt # "no"]_vars

\* flatten_all, ended or cancelled, leaves the account halted (executor.py:675
\* "halt the account for the ET day, then flatten").  It does not: a task that
\* still waits for the lock when its 20 s are over has not halted anything.
FlattenAllHalts ==
  [][(allTask \/ then = "all") /\ ~(allTask' \/ then' = "all") /\ crashes' = crashes
       => acct'.halt # "no"]_vars

\* A trade the executor lets go of has its row closed, so that it counts in
\* the day's realized P&L (README.md:149 "realized + open, from the account's
\* own fill ledger").  It has not when the bracket closed the position and the
\* next entry comes before a heartbeat has seen it: _entry overwrites
\* self.trade.
TradeNotForgotten ==
  [][acct.trade # 0 /\ acct'.trade # acct.trade /\ crashes' = crashes
       => acct.trade \notin acct'.open]_vars

\* What the scheduling gives: asyncio's lock is first in first out, the worker
\* ticks after every message or second, awaits return or time out, the
\* siblings are looked at every ORDER_POLL_S, backoff and cache have deadlines.
Fairness ==
  /\ WF_vars(StartRead) /\ WF_vars(StartFlatten) /\ SF_vars(StartKill)
  /\ WF_vars(Resume)
  /\ SF_vars(TickStart) /\ SF_vars(KillAcquire) /\ SF_vars(FlattenAllAcquire)
  /\ SF_vars(HeartbeatRead /\ at' = "bracketRead")
  /\ WF_vars(BackoffOver) /\ WF_vars(CacheExpires)

FairSpec == Spec /\ Fairness

\* While Resonant stays paused, or nothing is heard from paper, the account ends
\* flat and stays flat, whatever was under way when that began (README.md:159
\* "`paused` flattens every account at once").
AlarmFlattens ==
  <>[](daemonKill = "paused") \/ <>[]silent => <>[](mkt.pos = 0)

\* While heartbeats are handled, and paper stays flat or it is past 15:56 ET, the
\* account ends flat and stays flat.
HeartbeatsFlatten ==
  []<>(at = "hbRead") /\ (<>[](acct.target = 0) \/ <>[]eod) => <>[](mkt.pos = 0)
=============================================================================
