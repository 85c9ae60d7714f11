--------------------------- MODULE PaperExecutor ---------------------------
(***************************************************************************)
(* The single-broker executor (executor/core.py) with the session that     *)
(* arms it (live.Session.set_armed, _flusher, heartbeat, _intent), the     *)
(* link between them, and a broker.                                        *)
(*                                                                         *)
(* Handlers hold one lock from start to end, so they do not interleave     *)
(* with each other: a step is what happens from one call of the broker to  *)
(* the next, and between two steps the account, the owner and the session  *)
(* move.  A call that raises ends its handler: nobody looks at the result  *)
(* of a message's handler, but the watchdog runs in amain's loop and takes *)
(* the process with it.                                                    *)
(*                                                                         *)
(* Contracts are counted in entries (Limits.qty is one unit).  What a      *)
(* private backend does beyond the interface, prices, fills' reports and   *)
(* the alert's wording are left out; that two messages arrive out of order *)
(* is looked at in IntentChannel.                                          *)
(***************************************************************************)
EXTENDS Integers, Sequences

CONSTANTS Sides,      \* sides of the paper position, 0 among them
          MaxOrders,  \* Limits.max_orders: entries of a process
          MaxSeq,     \* bound: intents of one session
          MaxWire,    \* bound: messages on the wire
          MaxFaults   \* bound: lost messages, failing calls, silences, trades by
                      \* hand, restarts of either side, arming again

ASSUME ExecutorAssumption ==
  /\ Sides \subseteq {-1, 0, 1} /\ 0 \in Sides
  /\ MaxOrders \in Nat /\ MaxSeq \in Nat /\ MaxWire \in Nat
  /\ MaxFaults \in Nat

VARIABLES
  live,    \* Session: armed, target, intent_seq, executor_rx, status
  wire,    \* messages POSTed, not yet in a handler
  up,      \* the executor process runs
  ex,      \* Executor: armed, halted, day_halt, need_rearm, last_seq, target, orders
  silent,  \* more than heartbeat_timeout_s since last_hb
  at, m,   \* the call its handler is at, and the handler's locals
  pos,     \* the account's position
  dry,     \* DryRun: entries and flattens are only shown
  offSeen, \* history: off was heard since the halt
  arms, faults \* the owner has armed once; what is used of MaxFaults

exec == <<ex, silent, at, m>>
bounds == <<arms, faults>>
vars == <<live, wire, up, exec, pos, dry, offSeen, bounds>>

Message == [kind : {"heartbeat", "intent"}, seq : 0 .. MaxSeq, target : Sides, armed : BOOLEAN]
Sessions == [armed : BOOLEAN, target : Sides, seq : 0 .. MaxSeq,
             rx : {"none", "fresh", "old"}, status : {"LIVE", "STALE", "CLOSED"}]
Executors == [armed : BOOLEAN, halted : BOOLEAN, dayHalt : BOOLEAN, needRearm : BOOLEAN,
              lastSeq : 0 .. MaxSeq, target : Sides, orders : 0 .. MaxOrders]
Handlers == [who : {"none", "beat", "intent", "watchdog"}, target : Sides, pos : Int,
             then : {"idle", "enter"}]

\* The state of a fresh Executor, of one whose preflight failed (amain), and
\* of a fresh Session.
Fresh == [armed |-> FALSE, halted |-> FALSE, dayHalt |-> FALSE, needRearm |-> FALSE,
          lastSeq |-> 0, target |-> 0, orders |-> 0]
Preflighted == {Fresh, [Fresh EXCEPT !.halted = TRUE, !.needRearm = TRUE]}
NewSession  == [armed |-> FALSE, target |-> 0, seq |-> 0, rx |-> "none", status |-> "LIVE"]

\* who: whose handler it is.  target: a heartbeat's.  pos: as last read.
\* then: where to go on after a flatten.
For(who, t) == [who |-> who, target |-> t, pos |-> 0, then |-> "idle"]
Locals == For("none", 0)

Init ==
  /\ live = NewSession /\ wire = <<>>
  /\ up = TRUE /\ ex \in Preflighted /\ silent = FALSE
  /\ at = "idle" /\ m = Locals
  /\ pos \in {0, 1} /\ dry \in BOOLEAN /\ offSeen = FALSE
  /\ arms = FALSE /\ faults = 0

Fault == faults < MaxFaults /\ faults' = faults + 1 /\ UNCHANGED arms
SideOf(p) == IF p > 0 THEN 1 ELSE IF p < 0 THEN -1 ELSE 0
Oversize(p) == p > 1 \/ p < -1

-----------------------------------------------------------------------------
(* The session and its owner. *)

\* IntentLink: a message is POSTed once, and may be lost.
Post(msg, s) ==
  /\ live' = s
  /\ \/ Len(wire) < MaxWire /\ wire' = Append(wire, msg)
     \/ UNCHANGED wire
Beat(s) == [kind |-> "heartbeat", seq |-> s.seq, target |-> s.target, armed |-> s.armed]

\* set_armed sends a heartbeat at once.
Arm ==
  /\ IF arms THEN Fault ELSE arms' = TRUE /\ UNCHANGED faults
  /\ ~live.armed /\ live.rx # "none" /\ live.status = "LIVE"
  /\ LET s == [live EXCEPT !.armed = TRUE] IN Post(Beat(s), s)
  /\ UNCHANGED <<up, exec, pos, dry, offSeen>>

SetOff == LET s == [live EXCEPT !.armed = FALSE] IN Post(Beat(s), s)
Disarm ==
  /\ live.armed /\ SetOff
  /\ UNCHANGED <<up, exec, pos, dry, offSeen, bounds>>

\* _flusher: the executor has not reported for ten seconds, or the feed is stale.
Flusher ==
  /\ live.armed /\ (live.rx = "old" \/ live.status = "STALE") /\ SetOff
  /\ UNCHANGED <<up, exec, pos, dry, offSeen, bounds>>

\* _beat, every two seconds.
Heartbeat ==
  /\ Len(wire) < MaxWire /\ wire' = Append(wire, Beat(live)) /\ UNCHANGED live
  /\ UNCHANGED <<up, exec, pos, dry, offSeen, bounds>>

\* _intent: the paper position changes.
Intent(t) ==
  /\ t # live.target /\ live.seq < MaxSeq /\ live.status # "CLOSED"
  /\ live' = [live EXCEPT !.target = t, !.seq = @ + 1]
  /\ \/ /\ Len(wire) < MaxWire /\ UNCHANGED bounds
        /\ wire' = Append(wire, [kind |-> "intent", seq |-> live.seq + 1,
                                 target |-> t, armed |-> live.armed])
     \/ UNCHANGED wire /\ Fault
  /\ UNCHANGED <<up, exec, pos, dry, offSeen>>

\* _watchdog: the feed turns stale and comes back.
FeedTurns ==
  /\ \/ live.status = "LIVE" /\ live' = [live EXCEPT !.status = "STALE"] /\ Fault
     \/ live.status = "STALE" /\ live' = [live EXCEPT !.status = "LIVE"] /\ UNCHANGED bounds
  /\ UNCHANGED <<wire, up, exec, pos, dry, offSeen>>

\* run's finally: finish sends paper's exit, then the session disarms.
SessionEnds ==
  /\ live.status # "CLOSED" /\ live.target = 0
  /\ LET s == [live EXCEPT !.status = "CLOSED", !.armed = FALSE] IN Post(Beat(s), s)
  /\ UNCHANGED <<up, exec, pos, dry, offSeen, bounds>>

\* The session process dies; a new one starts with its counters at zero.
SessionRestarts ==
  /\ Fault /\ live' = NewSession /\ UNCHANGED wire
  /\ UNCHANGED <<up, exec, pos, dry, offSeen>>

\* Ten seconds without a report: the executor is down, or its POSTs fail.
ReportsStop ==
  /\ live.rx = "fresh" /\ live' = [live EXCEPT !.rx = "old"]
  /\ \/ ~up /\ UNCHANGED bounds
     \/ up /\ Fault
  /\ UNCHANGED <<wire, up, exec, pos, dry, offSeen>>

-----------------------------------------------------------------------------
(* The executor's decisions. *)

\* Mutant of SetArmed: arming always clears a halt.
ArmClears(x, on) ==
  IF on THEN [x EXCEPT !.armed = TRUE, !.halted = @ /\ (x.armed \/ x.dayHalt)]
  ELSE [x EXCEPT !.armed = FALSE]

\* _set_armed: off is remembered, and the next arming clears the halt, unless
\* it is the day's.
SetArmed(x, on) ==
  IF on THEN [x EXCEPT !.armed = TRUE,
                       !.halted = @ /\ (x.armed \/ x.dayHalt \/ x.needRearm)]
  ELSE [x EXCEPT !.armed = FALSE,
                 !.needRearm = @ /\ ~(x.halted /\ ~x.dayHalt)]

Halt(x, day) == [x EXCEPT !.halted = TRUE, !.needRearm = TRUE, !.dayHalt = @ \/ day]

\* Mutant of SafetyFlatten: only the opposite side is looked at.
SafetyOpposite(p) == m.target * SideOf(p) < 0

\* on_heartbeat: paper is flat and has said so by an intent, but the account
\* is in a position.
SafetyFlatten(p) == m.target = 0 /\ p # 0 /\ ex.target = 0

\* _refuse: what is stale or a catch-up is refused, and an entry while halted
\* or outside the session.
Refused(stale)        == ~ex'.armed \/ stale
MayEnter(stale, outside) == ~Refused(stale) /\ ~ex'.halted /\ ~outside

Go(where, x) == at' = where /\ m' = x
\* The handler ends and lets go of the lock.
Done == Go("idle", Locals)

\* A call raises: a message's handler is gone, the watchdog takes the process.
Raised ==
  /\ Fault /\ Done /\ up' = (m.who # "watchdog")
  /\ UNCHANGED <<live, wire, ex, silent, dry, offSeen>>
Raise == Raised /\ UNCHANGED pos

\* What a step of a handler leaves alone.
Still == UNCHANGED <<live, wire, up, silent, dry>>
\* An operation that halts: what was heard of off before does not count.
Halts(x) == ex' = x /\ offSeen' = FALSE
NoHalt   == UNCHANGED <<ex, offSeen>>

\* halt(flatten=True).
HaltAndFlatten(day) ==
  /\ Halts(Halt(ex, day)) /\ Go("flatten", [m EXCEPT !.then = "idle"])

-----------------------------------------------------------------------------
(* Handlers *)

Hear(msg) ==
  /\ ex' = [SetArmed(ex, msg.armed) EXCEPT
              !.lastSeq = IF msg.kind = "intent" THEN msg.seq ELSE @,
              !.target  = IF msg.kind = "intent" THEN msg.target ELSE @]
  /\ offSeen' = (offSeen \/ ~msg.armed)

\* A message is taken off the wire (server.do_POST, the lock).
Take(kind) ==
  /\ up /\ at = "idle" /\ wire # <<>> /\ Head(wire).kind = kind
  /\ wire' = Tail(wire)
  /\ UNCHANGED <<live, up, pos, dry, bounds>>

\* on_heartbeat to its first await.
TakeHeartbeat ==
  /\ Take("heartbeat") /\ Hear(Head(wire)) /\ silent' = FALSE
  /\ IF ex'.armed /\ ~ex'.halted
       THEN Go("limits", For("beat", Head(wire).target))
       ELSE Done

Old(msg) == msg.seq <= ex.lastSeq

\* on_intent to its first await.
TakeIntent ==
  /\ Take("intent") /\ UNCHANGED silent
  /\ \/ Old(Head(wire)) /\ NoHalt /\ Done
     \/ /\ ~Old(Head(wire)) /\ Hear(Head(wire))
        /\ \E stale, outside \in BOOLEAN :
             LET t == Head(wire).target IN
             IF (t = 0 /\ ~Refused(stale)) \/ (t # 0 /\ MayEnter(stale, outside))
               THEN Go("execute", For("intent", t))
               ELSE Done

\* watchdog_tick to its first await.
WatchdogTick ==
  /\ up /\ at = "idle" /\ ex.armed
  /\ IF silent THEN /\ ex' = [ex EXCEPT !.armed = FALSE]
                    /\ Go("lost", For("watchdog", 0))
     ELSE /\ UNCHANGED ex /\ ~ex.halted
          /\ Go("limits", For("watchdog", 0))
  /\ UNCHANGED <<pos, offSeen, bounds>> /\ Still

\* Mutant of LossHalts: a flat account is not halted.
LossHaltsHeld(p) == IF p # 0 THEN Halt(ex, FALSE) ELSE ex
LossHalts(p)     == Halt(ex, FALSE)

\* Heartbeat loss, once the position is read.
Lost ==
  /\ at = "lost"
  /\ \/ Raise
     \/ /\ Halts(LossHalts(pos))
        /\ IF pos # 0 THEN Go("flatten", m) ELSE Done
        /\ UNCHANGED <<pos, bounds>> /\ Still

\* The position is read, then _check_limits: size, then the day's loss ...
CheckLimits ==
  /\ at = "limits"
  /\ \/ Raise
     \/ /\ IF Oversize(pos) THEN HaltAndFlatten(FALSE)
           ELSE NoHalt /\ Go("account", [m EXCEPT !.pos = pos])
        /\ UNCHANGED <<pos, bounds>> /\ Still

\* ... and what on_heartbeat does after it.
ReadAccount ==
  /\ at = "account"
  /\ \/ Raise
     \/ /\ \/ HaltAndFlatten(TRUE)
           \/ /\ NoHalt
              /\ IF m.who = "beat" /\ SafetyFlatten(m.pos)
                   THEN Go("flatten", m) ELSE Done
        /\ UNCHANGED <<pos, bounds>> /\ Still

AfterRead(p) ==
  IF m.target = 0 THEN IF p # 0 THEN "flatten" ELSE "idle"
  ELSE IF SideOf(p) = m.target THEN "idle"
  ELSE IF p # 0 THEN "flatten" ELSE "enter"

\* Mutant of CapReached: one entry more.
CapPassed  == ex.orders > MaxOrders
CapReached == ex.orders >= MaxOrders

\* Where an entry may still be refused: at the cap, or without a quote.
ToEnter ==
  IF CapReached THEN Halts(Halt(ex, FALSE)) /\ Done
  ELSE NoHalt /\ (Done \/ Go("enter", m))

\* _execute: a read that fails halts here.
Execute ==
  /\ at = "execute"
  /\ \/ Fault /\ Halts(Halt(ex, FALSE)) /\ Done
     \/ /\ UNCHANGED bounds
        /\ CASE AfterRead(pos) = "enter"   -> ToEnter
             [] AfterRead(pos) = "flatten" ->
                  NoHalt /\ Go("flatten", [m EXCEPT !.then = IF m.target = 0 THEN "idle" ELSE "enter"])
             [] OTHER -> NoHalt /\ Done
  /\ UNCHANGED pos /\ Still

\* DryRun: what it would enter or flatten is only shown.
OnlyShown == dry /\ UNCHANGED <<pos, bounds>> /\ NoHalt /\ Done

\* The broker fills an entry.  An account nets it with what it holds (FakeBroker
\* replaces that); an entry that fails, or is missed, may have been filled.
Entered    == ~dry /\ pos' = pos + m.target /\ UNCHANGED bounds
NotEntered == ~dry /\ pos' \in {pos, pos + m.target} /\ Fault

\* The broker flattens, and the bracket may fill at the same time.
Flattened ==
  /\ ~dry
  /\ \/ pos' = 0 /\ UNCHANGED bounds
     \/ pos' = -SideOf(pos) /\ Fault

\* An entry whose call raises is neither counted nor a reason to halt.
Enter ==
  /\ at = "enter"
  /\ \/ ~dry /\ Raised /\ pos' \in {pos, pos + m.target}
     \/ OnlyShown /\ Still
     \/ /\ Entered /\ Still
        /\ ex' = [ex EXCEPT !.orders = @ + 1] /\ UNCHANGED offSeen
        /\ Go("readBack", m)
     \/ /\ NotEntered /\ Still
        /\ Halts(Halt([ex EXCEPT !.orders = @ + 1], FALSE)) /\ Done

\* The position is read back after an entry.
ReadBack ==
  /\ at = "readBack"
  /\ \/ Raise
     \/ /\ IF Oversize(pos) THEN HaltAndFlatten(FALSE)
           ELSE IF SideOf(pos) # m.target THEN Halts(Halt(ex, FALSE)) /\ Done
           ELSE NoHalt /\ Done
        /\ UNCHANGED <<pos, bounds>> /\ Still

\* A halt of _flatten's own does not ask for a new arming.
Flatten ==
  /\ at = "flatten"
  /\ \/ ~dry /\ Raised /\ pos' \in {pos, 0, -SideOf(pos)}
     \/ OnlyShown /\ Still
     \/ Flattened /\ Still /\ NoHalt /\ Go("flatBack", m)
     \/ ~dry /\ UNCHANGED pos /\ Halts([ex EXCEPT !.halted = TRUE]) /\ Done /\ Fault /\ Still

\* Mutant of StillHeld: the broker's answer to the flatten is believed.
AnswerBelieved(p) == FALSE
StillHeld(p)      == p # 0

FlatBack ==
  /\ at = "flatBack"
  /\ \/ Raise
     \/ /\ IF StillHeld(pos) THEN Halts([ex EXCEPT !.halted = TRUE]) /\ Done
           ELSE IF m.then = "enter" THEN ToEnter
           ELSE NoHalt /\ Done
        /\ UNCHANGED <<pos, bounds>> /\ Still

Listen  == TakeHeartbeat \/ TakeIntent
Handler == \/ Lost \/ CheckLimits \/ ReadAccount
           \/ Execute \/ Enter \/ ReadBack \/ Flatten \/ FlatBack

-----------------------------------------------------------------------------
(* What happens around the handlers. *)

\* The session hears from the executor.
OnExecutorStatus == live' = [live EXCEPT !.rx = "fresh"]

\* _push_status, every two seconds and after an intent.
Report ==
  /\ up /\ live.rx # "fresh" /\ OnExecutorStatus
  /\ UNCHANGED <<wire, up, exec, pos, dry, offSeen, bounds>>

\* heartbeat_timeout_s pass without one.
Silence ==
  /\ up /\ ~silent /\ silent' = TRUE /\ Fault
  /\ UNCHANGED <<live, wire, up, ex, at, m, pos, dry, offSeen>>

\* The broker's own bracket closes the position.
BracketExits ==
  /\ pos \in {-1, 1} /\ pos' = 0
  /\ UNCHANGED <<live, wire, up, exec, dry, offSeen, bounds>>

\* Somebody trades the account by hand.
Stray ==
  /\ pos' \in {pos - 1, pos + 1} /\ pos' \in -2 .. 2 /\ Fault
  /\ UNCHANGED <<live, wire, up, exec, dry, offSeen>>

\* The executor process is killed; while it is down POSTs are refused.
Killed ==
  /\ up /\ up' = FALSE /\ Fault
  /\ UNCHANGED <<live, wire, exec, pos, dry, offSeen>>

RefusedPost ==
  /\ ~up /\ wire # <<>> /\ wire' = Tail(wire)
  /\ UNCHANGED <<live, up, exec, pos, dry, offSeen, bounds>>

\* The owner starts it again (amain, preflight).
Starts ==
  /\ ~up /\ up' = TRUE /\ ex' \in Preflighted /\ silent' = FALSE /\ Done
  /\ offSeen' = FALSE
  /\ UNCHANGED <<live, wire, pos, dry, bounds>>

Session == \/ Arm \/ Disarm \/ Flusher \/ Heartbeat \/ (\E t \in Sides : Intent(t))
           \/ FeedTurns \/ SessionEnds \/ SessionRestarts \/ ReportsStop
Around  == Report \/ Silence \/ BracketExits \/ Stray \/ Killed \/ RefusedPost \/ Starts

Next == Session \/ Listen \/ (up /\ Handler) \/ WatchdogTick \/ Around

Spec == Init /\ [][Next]_vars

\* Broker calls return and the executor's loop runs on; nothing is asked of
\* the session.  The lock is fair: watchdog and messages both get it though neither ever end.
Fairness ==
  WF_vars(up /\ Handler) /\ SF_vars(Listen) /\ SF_vars(WatchdogTick)

FairSpec == Spec /\ Fairness

-----------------------------------------------------------------------------
(* Properties *)

\* Every variable has its type; in particular no process counts more than
\* MaxOrders entries.
TypeOK ==
  /\ live \in Sessions /\ wire \in Seq(Message) /\ Len(wire) <= MaxWire
  /\ up \in BOOLEAN /\ silent \in BOOLEAN /\ dry \in BOOLEAN
  /\ ex \in Executors /\ m \in Handlers
  /\ at \in {"idle", "lost", "limits", "account", "execute", "enter", "readBack",
             "flatten", "flatBack"}
  /\ pos \in Int
  /\ offSeen \in BOOLEAN
  /\ arms \in BOOLEAN /\ faults \in 0 .. MaxFaults

\* "Halt ... then refuse entries until re-armed off -> on" (core.py:11), and a
\* day halt holds for the day: a halt goes away only after off was heard
\* since, whichever handler halted, also when the watchdog disarmed meanwhile.
HaltNeedsOffOn ==
  [][ex.halted /\ ~ex'.halted /\ up => offSeen /\ ~ex.dayHalt /\ at = "idle"]_vars

\* No order enters while the executor is halted or disarmed, also in a
\* reversal, where a flatten lies between the check and the entry; and no entry
\* begins on a position: a reversal is flattened and read back first, and a
\* side that is held is not entered again, whatever was lost, restarted or
\* raised before and though the bracket may fill while the flatten is under
\* way and turn the position.  (Only a trade by hand while the entry itself is
\* under way, after the last read, comes as it likes.)
EntersFlatAndArmed ==
  [][at' = "enter" =>
       /\ ex'.armed /\ ~ex'.halted
       /\ \/ pos' = 0
          \/ at = "enter" /\ (Stray \/ UNCHANGED pos)]_vars

\* Paper's exit, once received, flattens the account: by the intent, or, when
\* that was refused as stale or its flatten failed on the way, by a heartbeat
\* of a session that goes on sending them.  Unless it is disarmed or halts.
ReceivedExitFlattens ==
  WF_vars(Heartbeat) =>
    ((up /\ ex.armed /\ ~ex.halted /\ ex.target = 0 /\ live.target = 0 /\ ~dry)
       ~> (pos = 0 \/ ~ex.armed \/ ex.halted \/ ex.target # 0 \/ live.target # 0 \/ ~up))

\* Heartbeats lost while armed (core.py:15): unless one comes, or an intent
\* that says off, the watchdog notices and the account ends halted and flat,
\* or somebody must have traded by hand or a call failed; a call that raises
\* takes the process.
LostBeatsHalt ==
  (up /\ ex.armed /\ silent)
    ~> \/ ~up \/ ~silent \/ (~ex.armed /\ offSeen /\ at = "idle")
       \/ ex.halted /\ at = "idle" /\ (pos = 0 \/ dry \/ faults = MaxFaults)
=============================================================================
