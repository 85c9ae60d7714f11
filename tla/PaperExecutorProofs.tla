------------------------- MODULE PaperExecutorProofs -------------------------
(***************************************************************************)
(* For every cap, number of intents, faults and restarts: PaperExecutor    *)
(* keeps its types and its cap, begins an entry only on a flat account,    *)
(* armed and not halted, whatever failed before, and keeps a halt until    *)
(* off was heard.                                                          *)
(*                                                                         *)
(* The invariant says where the handlers may be: the calls that lead to an *)
(* entry are reached armed and, unless paper goes flat, not halted; and a  *)
(* halt that does not ask for a new arming is one of an armed executor,    *)
(* except for the moment in which the watchdog has disarmed it and reads   *)
(* the position.                                                           *)
(***************************************************************************)
EXTENDS PaperExecutor, TLAPS

\* What the calls of a handler say of its locals.
Placed ==
  /\ at \in {"lost", "limits", "account", "execute"} => m.then = "idle"
  /\ at = "lost" => m.who = "watchdog"
  /\ m.then = "enter" => m.target # 0
  /\ at = "enter" => m.target # 0 /\ ex.orders < MaxOrders

\* The way to an entry is armed and not halted.
OnTheWay == at \in {"execute", "enter"} \/ (at \in {"flatten", "flatBack"} /\ m.then = "enter")
WayArmed == OnTheWay => ex.armed /\ (m.target # 0 => ~ex.halted)

\* A halt is remembered: by need_rearm, by armed, or by the watchdog.
HaltKept ==
  /\ ex.halted => offSeen \/ ex.needRearm \/ ex.armed \/ at = "lost" \/ ~up
  /\ at \in {"flatten", "flatBack", "limits", "account"} => ex.armed \/ ex.needRearm

IInv == TypeOK /\ Placed /\ WayArmed /\ HaltKept

\* _set_armed and halt change these fields of the executor's record.
LEMMA Arming ==
  ASSUME NEW x \in Executors, NEW on \in BOOLEAN
  PROVE  /\ SetArmed(x, on) \in Executors
         /\ SetArmed(x, on).armed = on /\ SetArmed(x, on).orders = x.orders
         /\ x.halted /\ ~SetArmed(x, on).halted => on /\ ~x.armed /\ ~x.dayHalt /\ ~x.needRearm
  <1>1. CASE on = TRUE
    BY <1>1 DEF Executors, SetArmed
  <1>2. CASE on = FALSE
    BY <1>2 DEF Executors, SetArmed
  <1>3. QED
    BY <1>1, <1>2

LEMMA Halting ==
  ASSUME NEW x \in Executors, NEW day \in BOOLEAN
  PROVE  /\ Halt(x, day) \in Executors
         /\ Halt(x, day).halted /\ Halt(x, day).needRearm
         /\ Halt(x, day).armed = x.armed /\ Halt(x, day).orders = x.orders
  BY DEF Executors, Halt

LEMMA FreshTyped ==
  ASSUME NEW x \in Preflighted
  PROVE  x \in Executors /\ (x.halted => x.needRearm)
  <1>1. CASE x = Fresh
    BY <1>1, ExecutorAssumption DEF Fresh, Executors
  <1>2. CASE x = [Fresh EXCEPT !.halted = TRUE, !.needRearm = TRUE]
    <2>1. x.needRearm
      BY <1>2 DEF Fresh
    <2>2. x = [armed |-> FALSE, halted |-> TRUE, dayHalt |-> FALSE, needRearm |-> TRUE,
               lastSeq |-> 0, target |-> 0, orders |-> 0]
      BY <1>2 DEF Fresh
    <2>3. QED
      BY <2>1, <2>2, ExecutorAssumption DEF Executors
  <1>3. QED
    BY <1>1, <1>2 DEF Preflighted

LEMMA LocalsTyped ==
  /\ Locals \in Handlers /\ Locals.then = "idle"
  /\ \A who \in {"beat", "intent", "watchdog"}, t \in Sides :
       For(who, t) \in Handlers /\ For(who, t).then = "idle"
         /\ For(who, t).target = t /\ For(who, t).who = who
  BY ExecutorAssumption DEF Locals, For, Handlers

LEMMA InvInit == Init => IInv
  <1> SUFFICES ASSUME Init PROVE IInv
    OBVIOUS
  <1>1. live \in Sessions
    BY ExecutorAssumption DEF Init, NewSession, Sessions
  <1>2. ex \in Executors /\ (ex.halted => ex.needRearm)
    BY FreshTyped DEF Init
  <1>3. m \in Handlers /\ m.then = "idle"
    BY LocalsTyped DEF Init
  <1>4. wire \in Seq(Message) /\ Len(wire) <= MaxWire
    BY ExecutorAssumption DEF Init
  <1>5. pos \in Int /\ faults \in 0 .. MaxFaults /\ at = "idle" /\ faults = 0
    BY ExecutorAssumption DEF Init
  <1>6. up \in BOOLEAN /\ silent \in BOOLEAN /\ dry \in BOOLEAN /\ offSeen \in BOOLEAN
        /\ arms \in BOOLEAN
    BY DEF Init
  <1>7. TypeOK
    BY <1>1, <1>2, <1>3, <1>4, <1>5, <1>6 DEF TypeOK
  <1>8. Placed /\ WayArmed /\ HaltKept
    BY <1>2, <1>3, <1>5 DEF Placed, WayArmed, OnTheWay, HaltKept
  <1>9. QED
    BY <1>7, <1>8 DEF IInv

-----------------------------------------------------------------------------
(* What happens outside the handlers leaves the executor's state alone. *)

LEMMA FaultTyped ==
  ASSUME TypeOK, Fault
  PROVE  faults' \in 0 .. MaxFaults /\ UNCHANGED arms
  BY ExecutorAssumption DEF TypeOK, Fault

Outside == UNCHANGED <<ex, at, m, offSeen>> /\ (up' => up)

LEMMA OutsideKeeps ==
  ASSUME Placed, WayArmed, HaltKept, TypeOK, Outside
  PROVE  Placed' /\ WayArmed' /\ HaltKept'
  <1>1. Placed'
    BY DEF Placed, Outside
  <1>2. WayArmed'
    BY DEF WayArmed, OnTheWay, Outside
  <1>3. HaltKept'
    BY DEF HaltKept, Outside, TypeOK
  <1>4. QED
    BY <1>1, <1>2, <1>3

\* The session's steps: what they touch is its record and the wire.
Wired == wire' \in Seq(Message) /\ Len(wire') <= MaxWire
Counted == arms' \in BOOLEAN /\ faults' \in 0 .. MaxFaults

LEMMA WireTyped ==
  ASSUME TypeOK
  PROVE  /\ UNCHANGED wire => Wired
         /\ wire # <<>> /\ wire' = Tail(wire) => Wired
         /\ \A msg \in Message : Len(wire) < MaxWire /\ wire' = Append(wire, msg) => Wired
  <1>1. wire \in Seq(Message) /\ Len(wire) \in Nat /\ Len(wire) <= MaxWire /\ MaxWire \in Nat
    BY ExecutorAssumption DEF TypeOK
  <1>2. UNCHANGED wire => Wired
    BY <1>1 DEF Wired
  <1>3. wire # <<>> /\ wire' = Tail(wire) => Wired
    <2> SUFFICES ASSUME wire # <<>>, wire' = Tail(wire) PROVE Wired
      OBVIOUS
    <2>1. Tail(wire) \in Seq(Message) /\ Len(Tail(wire)) = Len(wire) - 1
      BY <1>1
    <2>2. QED
      BY <1>1, <2>1 DEF Wired
  <1>4. ASSUME NEW msg \in Message, Len(wire) < MaxWire, wire' = Append(wire, msg) PROVE Wired
    <2>1. Append(wire, msg) \in Seq(Message) /\ Len(Append(wire, msg)) = Len(wire) + 1
      BY <1>1
    <2>2. QED
      BY <1>1, <1>4, <2>1 DEF Wired
  <1>5. QED
    BY <1>2, <1>3, <1>4

LEMMA CountTyped ==
  ASSUME TypeOK
  PROVE  /\ UNCHANGED bounds => Counted
         /\ Fault => Counted
         /\ arms' = TRUE /\ UNCHANGED faults => Counted
  BY FaultTyped DEF TypeOK, Counted, bounds

LEMMA SessionKeeps ==
  ASSUME IInv, Session
  PROVE  IInv'
  <1> DEFINE Rest == UNCHANGED <<up, ex, silent, at, m, pos, dry, offSeen>>
  <1>0. TypeOK
    BY DEF IInv
  <1>1. ASSUME NEW s \in Sessions PROVE Beat(s) \in Message
    BY DEF Beat, Message, Sessions
  <1>2. ASSUME NEW s \in Sessions, Post(Beat(s), s) PROVE live' \in Sessions /\ Wired
    BY <1>0, <1>1, <1>2, WireTyped DEF Post
  <1>3. /\ [live EXCEPT !.armed = FALSE] \in Sessions
        /\ [live EXCEPT !.armed = TRUE] \in Sessions
        /\ [live EXCEPT !.status = "STALE"] \in Sessions
        /\ [live EXCEPT !.status = "LIVE"] \in Sessions
        /\ [live EXCEPT !.rx = "old"] \in Sessions
    BY <1>0 DEF TypeOK, Sessions
  <1>4. [live EXCEPT !.status = "CLOSED", !.armed = FALSE] \in Sessions
    <2>1. [live EXCEPT !.status = "CLOSED"] \in Sessions
      BY <1>0 DEF TypeOK, Sessions
    <2>2. \A s \in Sessions : [s EXCEPT !.armed = FALSE] \in Sessions
      BY DEF Sessions
    <2>3. QED
      BY <2>1, <2>2
  <1>5. live \in Sessions /\ NewSession \in Sessions
    BY <1>0, ExecutorAssumption DEF TypeOK, Sessions, NewSession
  <1>6. live' \in Sessions /\ Wired /\ Counted /\ Rest
    <2>1. CASE Arm
      BY <2>1, <1>0, <1>2, <1>3, CountTyped DEF Arm, exec
    <2>2. CASE Disarm
      BY <2>2, <1>0, <1>2, <1>3, CountTyped DEF Disarm, SetOff, exec
    <2>3. CASE Flusher
      BY <2>3, <1>0, <1>2, <1>3, CountTyped DEF Flusher, SetOff, exec
    <2>4. CASE Heartbeat
      BY <2>4, <1>0, <1>1, <1>5, WireTyped, CountTyped DEF Heartbeat, exec
    <2>5. ASSUME NEW t \in Sides, Intent(t) PROVE live' \in Sessions /\ Wired /\ Counted /\ Rest
      <3> DEFINE msg == [kind |-> "intent", seq |-> live.seq + 1, target |-> t, armed |-> live.armed]
      <3>1. live.seq + 1 \in 0 .. MaxSeq /\ live.armed \in BOOLEAN
        BY <2>5, <1>5, ExecutorAssumption DEF Intent, Sessions
      <3>2. msg \in Message
        BY <3>1 DEF Message
      <3>3. [live EXCEPT !.target = t, !.seq = live.seq + 1] \in Sessions
        BY <1>5, <3>1 DEF Sessions
      <3>4. live' \in Sessions
        BY <2>5, <3>3 DEF Intent
      <3>5. Wired /\ Counted
        BY <2>5, <1>0, <3>2, WireTyped, CountTyped DEF Intent
      <3>6. QED
        BY <2>5, <3>4, <3>5 DEF Intent, exec
    <2>6. CASE FeedTurns
      BY <2>6, <1>0, <1>3, WireTyped, CountTyped DEF FeedTurns, exec
    <2>7. CASE SessionEnds
      BY <2>7, <1>0, <1>2, <1>4, CountTyped DEF SessionEnds, exec
    <2>8. CASE SessionRestarts
      BY <2>8, <1>0, <1>5, WireTyped, CountTyped DEF SessionRestarts, exec
    <2>9. CASE ReportsStop
      BY <2>9, <1>0, <1>3, WireTyped, CountTyped DEF ReportsStop, exec
    <2>10. QED
      BY <2>1, <2>2, <2>3, <2>4, <2>5, <2>6, <2>7, <2>8, <2>9 DEF Session
  <1>7. TypeOK'
    BY <1>0, <1>6 DEF TypeOK, Wired, Counted
  <1>8. Outside
    BY <1>6 DEF Outside
  <1>9. QED
    BY <1>0, <1>7, <1>8, OutsideKeeps DEF IInv

-----------------------------------------------------------------------------
(* The handlers. *)

\* What every handler's step has to show of the types ...
Places == {"idle", "lost", "limits", "account", "execute", "enter", "readBack",
           "flatten", "flatBack"}
Typed ==
  /\ ex' \in Executors /\ m' \in Handlers /\ at' \in Places
  /\ pos' \in Int /\ offSeen' \in BOOLEAN /\ Counted

LEMMA StillTyped ==
  ASSUME TypeOK, Still, Typed
  PROVE  TypeOK'
  BY DEF TypeOK, Still, Typed, Places, Counted

\* ... and how it ends: idle, with the halt kept, or in a flatten after a halt.
LEMMA EndKeeps ==
  ASSUME at' = "idle", m' = Locals,
         ex'.halted => offSeen' \/ ex'.needRearm \/ ex'.armed \/ ~up'
  PROVE  Placed' /\ WayArmed' /\ HaltKept'
  <1>1. m'.then = "idle"
    BY LocalsTyped
  <1>2. QED
    BY <1>1 DEF Placed, WayArmed, OnTheWay, HaltKept

LEMMA HaltAndFlattenKeeps ==
  ASSUME IInv, NEW day \in BOOLEAN, HaltAndFlatten(day)
  PROVE  /\ Placed' /\ WayArmed' /\ HaltKept'
         /\ ex' \in Executors /\ m' \in Handlers /\ at' \in Places /\ offSeen' \in BOOLEAN
  <1>1. ex \in Executors /\ m \in Handlers
    BY DEF IInv, TypeOK
  <1>2. ex' = Halt(ex, day) /\ offSeen' = FALSE /\ at' = "flatten"
        /\ m' = [m EXCEPT !.then = "idle"]
    BY DEF HaltAndFlatten, Halts, Go
  <1>3. ex' \in Executors /\ ex'.needRearm
    BY <1>1, <1>2, Halting
  <1>4. m' \in Handlers /\ m'.then = "idle"
    BY <1>1, <1>2 DEF Handlers
  <1>5. Placed' /\ WayArmed' /\ HaltKept'
    BY <1>2, <1>3, <1>4 DEF Placed, WayArmed, OnTheWay, HaltKept
  <1>6. QED
    BY <1>2, <1>3, <1>4, <1>5 DEF Places

\* A halt ends the handler.
LEMMA HaltEnds ==
  ASSUME IInv, NEW x \in Executors, NEW day \in BOOLEAN, Halts(Halt(x, day)), Done
  PROVE  /\ Placed' /\ WayArmed' /\ HaltKept'
         /\ ex' \in Executors /\ m' \in Handlers /\ at' \in Places /\ offSeen' \in BOOLEAN
  <1>1. ex' \in Executors /\ ex'.needRearm /\ offSeen' = FALSE
    BY Halting DEF Halts
  <1>2. at' = "idle" /\ m' = Locals
    BY DEF Done, Go
  <1>3. QED
    BY <1>1, <1>2, EndKeeps, LocalsTyped DEF Places

\* Nothing happens, and the handler ends.
LEMMA NoHaltEnds ==
  ASSUME IInv, up, at # "lost", NoHalt, Done
  PROVE  /\ Placed' /\ WayArmed' /\ HaltKept'
         /\ ex' \in Executors /\ m' \in Handlers /\ at' \in Places /\ offSeen' \in BOOLEAN
  <1>1. ex' = ex /\ offSeen' = offSeen /\ at' = "idle" /\ m' = Locals
    BY DEF NoHalt, Done, Go
  <1>2. ex'.halted => offSeen' \/ ex'.needRearm \/ ex'.armed
    BY <1>1 DEF IInv, HaltKept
  <1>3. QED
    BY <1>1, <1>2, EndKeeps, LocalsTyped DEF IInv, TypeOK, Places

\* A call that raises: the watchdog takes the process, and with it the halt
\* it had not yet made.
LEMMA RaisedKeeps ==
  ASSUME IInv, up, Raised, pos' \in Int
  PROVE  IInv'
  <1>1. at' = "idle" /\ m' = Locals /\ ex' = ex /\ offSeen' = offSeen
        /\ up' = (m.who # "watchdog") /\ UNCHANGED <<live, wire, silent, dry>>
    BY DEF Raised, Done, Go
  <1>2. ex'.halted => offSeen' \/ ex'.needRearm \/ ex'.armed \/ ~up'
    BY <1>1 DEF IInv, HaltKept, Placed
  <1>3. Counted
    BY CountTyped DEF IInv, Raised
  <1>4. TypeOK'
    BY <1>1, <1>3, LocalsTyped DEF IInv, TypeOK, Counted
  <1>5. QED
    BY <1>1, <1>2, <1>4, EndKeeps DEF IInv

LEMMA RaiseKeeps ==
  ASSUME IInv, up, Raise
  PROVE  IInv'
  BY RaisedKeeps DEF Raise, IInv, TypeOK

\* The rest of a step's argument.
LEMMA HandlerKeeps ==
  ASSUME IInv, Still, Counted, pos' \in Int,
         Placed' /\ WayArmed' /\ HaltKept',
         ex' \in Executors /\ m' \in Handlers /\ at' \in Places /\ offSeen' \in BOOLEAN
  PROVE  IInv'
  BY StillTyped DEF IInv, Typed

LEMMA LostKeeps ==
  ASSUME IInv, up, Lost
  PROVE  IInv'
  <1>1. ex \in Executors /\ m \in Handlers /\ pos \in Int /\ m.then = "idle"
    BY DEF IInv, TypeOK, Lost, Placed
  <1>2. CASE Raise
    BY <1>2, RaiseKeeps
  <1>3. CASE /\ Halts(LossHalts(pos)) /\ IF pos # 0 THEN Go("flatten", m) ELSE Done
             /\ UNCHANGED <<pos, bounds>> /\ Still
    <2>1. Halts(Halt(ex, FALSE)) /\ Counted /\ pos' \in Int
      BY <1>1, <1>3, CountTyped DEF LossHalts, IInv
    <2>2. CASE pos # 0
      <3>1. ex' \in Executors /\ ex'.needRearm /\ offSeen' = FALSE /\ at' = "flatten" /\ m' = m
        BY <1>1, <1>3, <2>1, <2>2, Halting DEF Halts, Go
      <3>2. Placed' /\ WayArmed' /\ HaltKept'
        BY <1>1, <3>1 DEF Placed, WayArmed, OnTheWay, HaltKept
      <3>3. QED
        BY <1>1, <1>3, <2>1, <3>1, <3>2, HandlerKeeps DEF Places
    <2>3. CASE pos = 0
      BY <1>1, <1>3, <2>1, <2>3, HaltEnds, HandlerKeeps
    <2>4. QED
      BY <2>2, <2>3
  <1>4. QED
    BY <1>2, <1>3 DEF Lost

LEMMA CheckLimitsKeeps ==
  ASSUME IInv, up, CheckLimits
  PROVE  IInv'
  <1>1. /\ ex \in Executors /\ m \in Handlers /\ pos \in Int /\ m.then = "idle"
        /\ offSeen \in BOOLEAN /\ at = "limits"
    BY DEF IInv, TypeOK, CheckLimits, Placed
  <1>2. CASE Raise
    BY <1>2, RaiseKeeps
  <1>3. CASE /\ IF Oversize(pos) THEN HaltAndFlatten(FALSE)
                ELSE NoHalt /\ Go("account", [m EXCEPT !.pos = pos])
             /\ UNCHANGED <<pos, bounds>> /\ Still
    <2>1. Counted /\ pos' \in Int
      BY <1>1, <1>3, CountTyped DEF IInv
    <2>2. CASE Oversize(pos)
      BY <1>3, <2>1, <2>2, HaltAndFlattenKeeps, HandlerKeeps
    <2>3. CASE ~Oversize(pos)
      <3>1. ex' = ex /\ offSeen' = offSeen /\ at' = "account" /\ m' = [m EXCEPT !.pos = pos]
        BY <1>3, <2>3 DEF NoHalt, Go
      <3>2. m' \in Handlers /\ m'.then = "idle"
        BY <1>1, <3>1 DEF Handlers
      <3>3. Placed' /\ WayArmed' /\ HaltKept'
        BY <1>1, <3>1, <3>2 DEF IInv, Placed, WayArmed, OnTheWay, HaltKept
      <3>4. QED
        BY <1>1, <1>3, <2>1, <3>1, <3>2, <3>3, HandlerKeeps DEF Places
    <2>4. QED
      BY <2>2, <2>3
  <1>4. QED
    BY <1>2, <1>3 DEF CheckLimits

LEMMA ReadAccountKeeps ==
  ASSUME IInv, up, ReadAccount
  PROVE  IInv'
  <1>1. /\ ex \in Executors /\ m \in Handlers /\ pos \in Int /\ m.then = "idle"
        /\ offSeen \in BOOLEAN /\ at = "account"
    BY DEF IInv, TypeOK, ReadAccount, Placed
  <1>2. CASE Raise
    BY <1>2, RaiseKeeps
  <1>3. ASSUME UNCHANGED <<pos, bounds>>, Still, HaltAndFlatten(TRUE) PROVE IInv'
    BY <1>1, <1>3, CountTyped, HaltAndFlattenKeeps, HandlerKeeps DEF IInv
  <1>4. ASSUME UNCHANGED <<pos, bounds>>, Still, NoHalt, Go("flatten", m) PROVE IInv'
    <2>1. ex' = ex /\ offSeen' = offSeen /\ at' = "flatten" /\ m' = m
      BY <1>4 DEF NoHalt, Go
    <2>2. Placed' /\ WayArmed' /\ HaltKept'
      BY <1>1, <2>1 DEF IInv, Placed, WayArmed, OnTheWay, HaltKept
    <2>3. QED
      BY <1>1, <1>4, <2>1, <2>2, CountTyped, HandlerKeeps DEF IInv, Places
  <1>5. ASSUME UNCHANGED <<pos, bounds>>, Still, NoHalt, Done PROVE IInv'
    BY <1>1, <1>5, CountTyped, NoHaltEnds, HandlerKeeps DEF IInv
  <1>6. QED
    BY <1>2, <1>3, <1>4, <1>5 DEF ReadAccount

\* Both ways to an entry end here, armed and not halted.
LEMMA ToEnterKeeps ==
  ASSUME IInv, up, at # "lost", ToEnter, ex.armed, ~ex.halted, m.target # 0
  PROVE  /\ Placed' /\ WayArmed' /\ HaltKept'
         /\ ex' \in Executors /\ m' \in Handlers /\ at' \in Places /\ offSeen' \in BOOLEAN
  <1>1. /\ ex \in Executors /\ m \in Handlers /\ offSeen \in BOOLEAN
    BY DEF IInv, TypeOK
  <1>2. CASE CapReached
    BY <1>1, <1>2, HaltEnds DEF ToEnter
  <1>3. CASE ~CapReached /\ NoHalt /\ Go("enter", m)
    <2>1. ex' = ex /\ offSeen' = offSeen /\ at' = "enter" /\ m' = m
      BY <1>3 DEF NoHalt, Go
    <2>2. ex.orders < MaxOrders
      BY <1>1, <1>3, ExecutorAssumption DEF CapReached, Executors
    <2>3. Placed' /\ WayArmed' /\ HaltKept'
      BY <2>1, <2>2 DEF IInv, Placed, WayArmed, OnTheWay, HaltKept
    <2>4. QED
      BY <1>1, <2>1, <2>3 DEF Places
  <1>4. CASE NoHalt /\ Done
    BY <1>4, NoHaltEnds
  <1>5. QED
    BY <1>2, <1>3, <1>4 DEF ToEnter

LEMMA ExecuteKeeps ==
  ASSUME IInv, up, Execute
  PROVE  IInv'
  <1>1. /\ ex \in Executors /\ m \in Handlers /\ pos \in Int /\ m.then = "idle"
        /\ offSeen \in BOOLEAN /\ at = "execute" /\ ex.armed /\ (m.target # 0 => ~ex.halted)
    BY DEF IInv, TypeOK, Execute, Placed, WayArmed, OnTheWay
  <1>2. Still /\ pos' \in Int /\ Counted
    BY <1>1, CountTyped DEF Execute, IInv
  <1>3. CASE Fault /\ Halts(Halt(ex, FALSE)) /\ Done
    BY <1>1, <1>2, <1>3, HaltEnds, HandlerKeeps
  <1>4. CASE UNCHANGED bounds /\ AfterRead(pos) = "enter"
    <2>1. /\ pos' = pos
          /\ \/ ToEnter
             \/ Halts(Halt(ex, FALSE)) /\ Done
      BY <1>4 DEF Execute
    <2>2. m.target # 0 /\ pos = 0
      BY <1>1, <1>4 DEF AfterRead
    <2>3. QED
      BY <1>1, <1>2, <2>1, <2>2, ToEnterKeeps, HaltEnds, HandlerKeeps
  <1>5. CASE UNCHANGED bounds /\ AfterRead(pos) = "flatten"
    <2> DEFINE next == IF m.target = 0 THEN "idle" ELSE "enter"
    <2>1. \/ NoHalt /\ Go("flatten", [m EXCEPT !.then = next])
          \/ Halts(Halt(ex, FALSE)) /\ Done
      BY <1>5 DEF Execute
    <2>2. CASE NoHalt /\ Go("flatten", [m EXCEPT !.then = next])
      <3>1. ex' = ex /\ offSeen' = offSeen /\ at' = "flatten" /\ m' = [m EXCEPT !.then = next]
        BY <2>2 DEF NoHalt, Go
      <3>2. m' \in Handlers /\ m'.then = next /\ m'.target = m.target
        BY <1>1, <3>1 DEF Handlers
      <3>3. Placed' /\ WayArmed' /\ HaltKept'
        BY <1>1, <3>1, <3>2 DEF IInv, Placed, WayArmed, OnTheWay, HaltKept
      <3>4. QED
        BY <1>1, <1>2, <3>1, <3>2, <3>3, HandlerKeeps DEF Places
    <2>3. QED
      BY <1>1, <1>2, <2>1, <2>2, HaltEnds, HandlerKeeps
  <1>6. CASE UNCHANGED bounds /\ AfterRead(pos) = "idle"
    <2>1. \/ NoHalt /\ Done
          \/ Halts(Halt(ex, FALSE)) /\ Done
      BY <1>6 DEF Execute
    <2>2. QED
      BY <1>1, <1>2, <2>1, HaltEnds, NoHaltEnds, HandlerKeeps
  <1>7. AfterRead(pos) \in {"enter", "flatten", "idle"}
    BY DEF AfterRead
  <1>8. QED
    BY <1>3, <1>4, <1>5, <1>6, <1>7 DEF Execute

LEMMA EnterKeeps ==
  ASSUME IInv, up, Enter
  PROVE  IInv'
  <1>1. /\ ex \in Executors /\ m \in Handlers /\ pos \in Int /\ ex.orders < MaxOrders
        /\ offSeen \in BOOLEAN /\ at = "enter" /\ ex.armed /\ ~ex.halted
    BY DEF IInv, TypeOK, Enter, Placed, WayArmed, OnTheWay
  <1>2. Raised \/ (Still /\ Counted)
    BY CountTyped DEF Enter, OnlyShown, Entered, NotEntered, IInv
  <1>3. m.target \in {-1, 0, 1}
    BY <1>1, ExecutorAssumption DEF Handlers
  <1>4. pos' \in Int
    <2>1. pos' = pos \/ pos' = pos + m.target
      BY DEF Enter, OnlyShown, Entered, NotEntered
    <2>2. pos + m.target \in Int
      BY <1>1, <1>3
    <2>3. QED
      BY <1>1, <2>1, <2>2
  <1> DEFINE x == [ex EXCEPT !.orders = @ + 1]
  <1>5. x \in Executors /\ x.halted = ex.halted /\ x.armed = ex.armed
    <2>1. ex.orders + 1 \in 0 .. MaxOrders
      BY <1>1, ExecutorAssumption DEF Executors
    <2>2. \A k \in 0 .. MaxOrders : [ex EXCEPT !.orders = k] \in Executors
      BY <1>1 DEF Executors
    <2>3. x = [ex EXCEPT !.orders = ex.orders + 1]
      OBVIOUS
    <2>4. x.halted = ex.halted /\ x.armed = ex.armed
      BY <1>1 DEF Executors
    <2>5. QED
      BY <2>1, <2>2, <2>3, <2>4
  <1>6. CASE Raised
    BY <1>4, <1>6, RaisedKeeps
  <1>7. CASE Still /\ Counted /\ NoHalt /\ Done
    BY <1>1, <1>4, <1>7, NoHaltEnds, HandlerKeeps
  <1>8. CASE Still /\ Counted /\ ex' = x /\ UNCHANGED offSeen /\ Go("readBack", m)
    <2>1. Placed' /\ WayArmed' /\ HaltKept'
      BY <1>1, <1>5, <1>8 DEF IInv, Placed, WayArmed, OnTheWay, HaltKept, Go
    <2>2. QED
      BY <1>1, <1>4, <1>5, <1>8, <2>1, HandlerKeeps DEF Go, Places
  <1>9. CASE Still /\ Counted /\ Halts(Halt(x, FALSE)) /\ Done
    BY <1>4, <1>5, <1>9, HaltEnds, HandlerKeeps
  <1>10. QED
    BY <1>2, <1>7, <1>8, <1>9, <1>6 DEF Enter, OnlyShown

LEMMA ReadBackKeeps ==
  ASSUME IInv, up, ReadBack
  PROVE  IInv'
  <1>1. ex \in Executors /\ pos \in Int /\ at = "readBack"
    BY DEF IInv, TypeOK, ReadBack
  <1>2. CASE Raise
    BY <1>2, RaiseKeeps
  <1>3. CASE UNCHANGED <<pos, bounds>> /\ Still
             /\ (HaltAndFlatten(FALSE) \/ (Halts(Halt(ex, FALSE)) /\ Done) \/ (NoHalt /\ Done))
    <2>1. Counted /\ pos' \in Int
      BY <1>1, <1>3, CountTyped DEF IInv
    <2>2. QED
      BY <1>1, <1>3, <2>1, HaltAndFlattenKeeps, HaltEnds, NoHaltEnds, HandlerKeeps
  <1>4. QED
    BY <1>2, <1>3 DEF ReadBack

\* A halt of _flatten's own: only armed or an older need_rearm remembers it.
LEMMA OwnHaltEnds ==
  ASSUME IInv, at \in {"flatten", "flatBack"}, Halts([ex EXCEPT !.halted = TRUE]), Done
  PROVE  /\ Placed' /\ WayArmed' /\ HaltKept'
         /\ ex' \in Executors /\ m' \in Handlers /\ at' \in Places /\ offSeen' \in BOOLEAN
  <1>1. ex \in Executors
    BY DEF IInv, TypeOK
  <1>2. ex' = [ex EXCEPT !.halted = TRUE] /\ offSeen' = FALSE /\ at' = "idle" /\ m' = Locals
    BY DEF Halts, Done, Go
  <1>3. ex' \in Executors /\ ex'.armed = ex.armed /\ ex'.needRearm = ex.needRearm
    BY <1>1, <1>2 DEF Executors
  <1>4. ex.armed \/ ex.needRearm
    BY DEF IInv, HaltKept
  <1>5. QED
    BY <1>2, <1>3, <1>4, EndKeeps, LocalsTyped DEF Places

LEMMA FlattenKeeps ==
  ASSUME IInv, up, Flatten
  PROVE  IInv'
  <1>1. /\ ex \in Executors /\ m \in Handlers /\ pos \in Int /\ offSeen \in BOOLEAN
        /\ at = "flatten"
    BY DEF IInv, TypeOK, Flatten
  <1>2. Raised \/ (Still /\ Counted)
    BY CountTyped DEF Flatten, OnlyShown, Flattened, IInv
  <1>3. pos' \in Int
    BY <1>1 DEF Flatten, OnlyShown, Flattened, SideOf
  <1>4. CASE Raised
    BY <1>3, <1>4, RaisedKeeps
  <1>5. CASE Still /\ Counted /\ NoHalt /\ Done
    BY <1>1, <1>3, <1>5, NoHaltEnds, HandlerKeeps
  <1>6. CASE Still /\ Counted /\ NoHalt /\ Go("flatBack", m)
    <2>1. ex' = ex /\ offSeen' = offSeen /\ at' = "flatBack" /\ m' = m
      BY <1>6 DEF NoHalt, Go
    <2>2. Placed' /\ WayArmed' /\ HaltKept'
      BY <1>1, <2>1 DEF IInv, Placed, WayArmed, OnTheWay, HaltKept
    <2>3. QED
      BY <1>1, <1>3, <1>6, <2>1, <2>2, HandlerKeeps DEF Places
  <1>7. CASE Still /\ Counted /\ Halts([ex EXCEPT !.halted = TRUE]) /\ Done
    BY <1>1, <1>3, <1>7, OwnHaltEnds, HandlerKeeps
  <1>8. QED
    BY <1>2, <1>5, <1>6, <1>7, <1>4 DEF Flatten, OnlyShown

LEMMA FlatBackKeeps ==
  ASSUME IInv, up, FlatBack
  PROVE  IInv'
  <1>1. ex \in Executors /\ m \in Handlers /\ pos \in Int /\ at = "flatBack"
    BY DEF IInv, TypeOK, FlatBack
  <1>2. CASE Raise
    BY <1>2, RaiseKeeps
  <1>3. CASE /\ IF StillHeld(pos) THEN Halts([ex EXCEPT !.halted = TRUE]) /\ Done
                ELSE IF m.then = "enter" THEN ToEnter
                ELSE NoHalt /\ Done
             /\ UNCHANGED <<pos, bounds>> /\ Still
    <2>1. Counted /\ pos' = pos /\ pos' \in Int
      BY <1>1, <1>3, CountTyped DEF IInv
    <2>2. CASE StillHeld(pos)
      BY <1>1, <1>3, <2>1, <2>2, OwnHaltEnds, HandlerKeeps
    <2>3. CASE ~StillHeld(pos) /\ m.then = "enter"
      <3>1. m.target # 0 /\ ex.armed /\ ~ex.halted
        BY <1>1, <2>3 DEF IInv, Placed, WayArmed, OnTheWay
      <3>2. QED
        BY <1>1, <1>3, <2>1, <2>3, <3>1, ToEnterKeeps, HandlerKeeps
    <2>4. CASE ~StillHeld(pos) /\ m.then # "enter"
      BY <1>1, <1>3, <2>1, <2>4, NoHaltEnds, HandlerKeeps
    <2>5. QED
      BY <2>2, <2>3, <2>4
  <1>4. QED
    BY <1>2, <1>3 DEF FlatBack

-----------------------------------------------------------------------------
(* Messages, the watchdog, restarts. *)

LEMMA HearKeeps ==
  ASSUME IInv, NEW msg \in Message, Hear(msg)
  PROVE  /\ ex' \in Executors /\ offSeen' \in BOOLEAN
         /\ ex'.armed = msg.armed /\ (ex'.halted /\ ~ex'.armed => offSeen')
         /\ (ex.halted /\ ~ex'.halted => ~ex.armed /\ ~ex.needRearm /\ ~ex.dayHalt)
  <1> DEFINE x == SetArmed(ex, msg.armed)
  <1>1. ex \in Executors /\ offSeen \in BOOLEAN
    BY DEF IInv, TypeOK
  <1>2. /\ msg.armed \in BOOLEAN /\ msg.seq \in 0 .. MaxSeq /\ msg.target \in Sides
    BY DEF Message
  <1>3. /\ x \in Executors /\ x.armed = msg.armed
        /\ (ex.halted /\ ~x.halted => ~ex.armed /\ ~ex.dayHalt /\ ~ex.needRearm)
    BY <1>1, <1>2, Arming
  <1> DEFINE seq == IF msg.kind = "intent" THEN msg.seq ELSE x.lastSeq
             target == IF msg.kind = "intent" THEN msg.target ELSE x.target
  <1>4. ex' = [x EXCEPT !.lastSeq = seq, !.target = target]
    BY DEF Hear
  <1>5. seq \in 0 .. MaxSeq /\ target \in Sides
    BY <1>2, <1>3 DEF Executors
  <1> HIDE DEF x, seq, target
  <1>6. ex' \in Executors /\ ex'.armed = x.armed /\ ex'.halted = x.halted
    BY <1>3, <1>4, <1>5 DEF Executors
  <1>7. offSeen' = (offSeen \/ ~msg.armed)
    BY DEF Hear
  <1>8. QED
    BY <1>1, <1>2, <1>3, <1>6, <1>7

\* Where a halt goes away: off was heard since, and it is not the day's.
LEMMA HearClears ==
  ASSUME IInv, up, at = "idle", NEW msg \in Message, Hear(msg), ex.halted, ~ex'.halted
  PROVE  offSeen /\ ~ex.dayHalt
  BY HearKeeps DEF IInv, HaltKept

LEMMA HeadTyped ==
  ASSUME IInv, wire # <<>>
  PROVE  Head(wire) \in Message
  BY DEF IInv, TypeOK

LEMMA TakeHeartbeatKeeps ==
  ASSUME IInv, TakeHeartbeat
  PROVE  IInv'
  <1> DEFINE msg == Head(wire)
  <1>1. /\ up /\ at = "idle" /\ wire # <<>> /\ wire' = Tail(wire) /\ Hear(msg)
        /\ UNCHANGED <<live, up, pos, dry, bounds>> /\ silent' = FALSE
    BY DEF TakeHeartbeat, Take
  <1>2. msg \in Message /\ msg.target \in Sides
    BY <1>1, HeadTyped DEF Message
  <1>3. Wired /\ Counted
    BY <1>1, WireTyped, CountTyped DEF IInv
  <1>4. /\ ex' \in Executors /\ offSeen' \in BOOLEAN /\ (ex'.halted /\ ~ex'.armed => offSeen')
    BY <1>1, <1>2, HearKeeps
  <1>5. CASE ex'.armed /\ ~ex'.halted
    <2>1. at' = "limits" /\ m' = For("beat", msg.target)
      BY <1>5 DEF TakeHeartbeat, Go
    <2>2. m' \in Handlers /\ m'.then = "idle"
      BY <1>2, <2>1, LocalsTyped
    <2>3. Placed' /\ WayArmed' /\ HaltKept'
      BY <1>5, <2>1, <2>2 DEF Placed, WayArmed, OnTheWay, HaltKept
    <2>4. TypeOK'
      BY <1>1, <1>3, <1>4, <2>1, <2>2 DEF IInv, TypeOK, Wired, Counted
    <2>5. QED
      BY <2>3, <2>4 DEF IInv
  <1>6. CASE ~(ex'.armed /\ ~ex'.halted)
    <2>1. at' = "idle" /\ m' = Locals
      BY <1>6 DEF TakeHeartbeat, Done, Go
    <2>2. Placed' /\ WayArmed' /\ HaltKept'
      BY <1>4, <2>1, EndKeeps
    <2>3. TypeOK'
      BY <1>1, <1>3, <1>4, <2>1, LocalsTyped DEF IInv, TypeOK, Wired, Counted
    <2>4. QED
      BY <2>2, <2>3 DEF IInv
  <1>7. QED
    BY <1>5, <1>6

LEMMA TakeIntentKeeps ==
  ASSUME IInv, TakeIntent
  PROVE  IInv'
  <1> DEFINE msg == Head(wire)
  <1>1. /\ up /\ at = "idle" /\ wire # <<>> /\ wire' = Tail(wire)
        /\ UNCHANGED <<live, up, pos, dry, bounds, silent>>
    BY DEF TakeIntent, Take
  <1>2. msg \in Message /\ msg.target \in Sides
    BY <1>1, HeadTyped DEF Message
  <1>3. Wired /\ Counted
    BY <1>1, WireTyped, CountTyped DEF IInv
  <1>4. CASE NoHalt /\ Done
    <2>1. /\ Placed' /\ WayArmed' /\ HaltKept'
          /\ ex' \in Executors /\ m' \in Handlers /\ at' \in Places /\ offSeen' \in BOOLEAN
      BY <1>1, <1>4, NoHaltEnds
    <2>2. QED
      BY <1>1, <1>3, <2>1 DEF IInv, TypeOK, Wired, Counted, Places
  <1>5. ASSUME Hear(msg) PROVE /\ ex' \in Executors /\ offSeen' \in BOOLEAN
                               /\ (ex'.halted /\ ~ex'.armed => offSeen')
    BY <1>2, <1>5, HearKeeps
  <1>6. CASE Hear(msg) /\ Done
    <2>1. at' = "idle" /\ m' = Locals
      BY <1>6 DEF Done, Go
    <2>2. Placed' /\ WayArmed' /\ HaltKept'
      BY <1>5, <1>6, <2>1, EndKeeps
    <2>3. TypeOK'
      BY <1>1, <1>3, <1>5, <1>6, <2>1, LocalsTyped DEF IInv, TypeOK, Wired, Counted
    <2>4. QED
      BY <2>2, <2>3 DEF IInv
  <1>7. CASE /\ Hear(msg) /\ Go("execute", For("intent", msg.target))
             /\ ex'.armed /\ (msg.target # 0 => ~ex'.halted)
    <2>1. at' = "execute" /\ m' = For("intent", msg.target)
      BY <1>7 DEF Go
    <2>2. m' \in Handlers /\ m'.then = "idle" /\ m'.target = msg.target
      BY <1>2, <2>1, LocalsTyped
    <2>3. Placed' /\ WayArmed' /\ HaltKept'
      BY <1>7, <2>1, <2>2 DEF Placed, WayArmed, OnTheWay, HaltKept
    <2>4. TypeOK'
      BY <1>1, <1>3, <1>5, <1>7, <2>1, <2>2 DEF IInv, TypeOK, Wired, Counted
    <2>5. QED
      BY <2>3, <2>4 DEF IInv
  <1>8. \/ NoHalt /\ Done
        \/ Hear(msg) /\ Done
        \/ /\ Hear(msg) /\ Go("execute", For("intent", msg.target))
           /\ ex'.armed /\ (msg.target # 0 => ~ex'.halted)
    BY DEF TakeIntent, MayEnter, Refused
  <1>9. QED
    BY <1>4, <1>6, <1>7, <1>8

LEMMA WatchdogKeeps ==
  ASSUME IInv, WatchdogTick
  PROVE  IInv'
  <1>1. /\ up /\ at = "idle" /\ ex.armed /\ ex \in Executors /\ pos' = pos /\ pos \in Int
        /\ offSeen' = offSeen /\ offSeen \in BOOLEAN /\ Still /\ UNCHANGED bounds
    BY DEF WatchdogTick, IInv, TypeOK
  <1>2. Counted
    BY <1>1, CountTyped DEF IInv
  <1>3. CASE silent
    <2>1. ex' = [ex EXCEPT !.armed = FALSE] /\ at' = "lost" /\ m' = For("watchdog", 0)
      BY <1>3 DEF WatchdogTick, Go
    <2>2. ex' \in Executors
      BY <1>1, <2>1 DEF Executors
    <2>3. m' \in Handlers /\ m'.then = "idle" /\ m'.who = "watchdog"
      BY <2>1, LocalsTyped, ExecutorAssumption
    <2>4. Placed' /\ WayArmed' /\ HaltKept'
      BY <2>1, <2>3 DEF Placed, WayArmed, OnTheWay, HaltKept
    <2>5. QED
      BY <1>1, <1>2, <2>1, <2>2, <2>3, <2>4, HandlerKeeps DEF Places
  <1>4. CASE ~silent
    <2>1. ex' = ex /\ at' = "limits" /\ m' = For("watchdog", 0)
      BY <1>4 DEF WatchdogTick, Go
    <2>2. m' \in Handlers /\ m'.then = "idle"
      BY <2>1, LocalsTyped, ExecutorAssumption
    <2>3. Placed' /\ WayArmed' /\ HaltKept'
      BY <1>1, <2>1, <2>2 DEF IInv, Placed, WayArmed, OnTheWay, HaltKept
    <2>4. QED
      BY <1>1, <1>2, <2>1, <2>2, <2>3, HandlerKeeps DEF Places
  <1>5. QED
    BY <1>3, <1>4

LEMMA AroundKeeps ==
  ASSUME IInv, Around
  PROVE  IInv'
  <1>1. TypeOK /\ pos \in Int
    BY DEF IInv, TypeOK
  <1>2. ASSUME NEW lv, lv = live \/ lv = [live EXCEPT !.rx = "fresh"] PROVE lv \in Sessions
    BY <1>1, <1>2 DEF TypeOK, Sessions
  <1>3. CASE Report
    <2>1. live' \in Sessions /\ Wired /\ Counted
      BY <1>1, <1>2, <1>3, WireTyped, CountTyped DEF Report, OnExecutorStatus
    <2>2. TypeOK' /\ Outside
      BY <1>1, <1>3, <2>1 DEF Report, TypeOK, Outside, Wired, Counted, exec
    <2>3. QED
      BY <1>1, <2>2, OutsideKeeps DEF IInv
  <1>4. CASE Silence \/ Killed
    <2>1. Counted
      BY <1>1, <1>4, CountTyped DEF Silence, Killed
    <2>2. TypeOK'
      BY <1>1, <1>4, <2>1 DEF Silence, Killed, TypeOK, Counted, exec
    <2>3. Outside
      BY <1>4, <2>1 DEF Silence, Killed, Outside, exec
    <2>4. QED
      BY <1>1, <2>2, <2>3, OutsideKeeps DEF IInv
  <1>5. CASE BracketExits \/ Stray
    <2>1. Counted /\ pos' \in Int
      BY <1>1, <1>5, CountTyped DEF BracketExits, Stray
    <2>2. UNCHANGED <<live, wire, up, ex, silent, at, m, dry, offSeen>>
      BY <1>5 DEF BracketExits, Stray, exec
    <2>3. TypeOK'
      BY <1>1, <2>1, <2>2 DEF TypeOK, Counted
    <2>4. Outside
      BY <2>2 DEF Outside
    <2>5. QED
      BY <1>1, <2>3, <2>4, OutsideKeeps DEF IInv
  <1>6. CASE RefusedPost
    <2>1. Counted /\ Wired
      BY <1>1, <1>6, CountTyped, WireTyped DEF RefusedPost
    <2>2. TypeOK' /\ Outside
      BY <1>1, <1>6, <2>1 DEF RefusedPost, TypeOK, Outside, Wired, Counted, exec
    <2>3. QED
      BY <1>1, <2>2, OutsideKeeps DEF IInv
  <1>7. CASE Starts
    <2>1. Counted /\ Wired
      BY <1>1, <1>7, CountTyped, WireTyped DEF Starts
    <2>2. ex' \in Executors /\ (ex'.halted => ex'.needRearm) /\ at' = "idle" /\ m' = Locals
      BY <1>7, FreshTyped DEF Starts, Done, Go
    <2>3. TypeOK'
      BY <1>1, <1>7, <2>1, <2>2, LocalsTyped DEF Starts, TypeOK, Wired, Counted
    <2>4. QED
      BY <2>2, <2>3, EndKeeps DEF IInv
  <1>8. QED
    BY <1>3, <1>4, <1>5, <1>6, <1>7 DEF Around

-----------------------------------------------------------------------------

LEMMA Inductive == IInv /\ [Next]_vars => IInv'
  <1> SUFFICES ASSUME IInv, [Next]_vars PROVE IInv'
    OBVIOUS
  <1>1. CASE Session
    BY <1>1, SessionKeeps
  <1>2. CASE Listen
    BY <1>2, TakeHeartbeatKeeps, TakeIntentKeeps DEF Listen
  <1>3. CASE up /\ Handler
    BY <1>3, LostKeeps, CheckLimitsKeeps, ReadAccountKeeps, ExecuteKeeps, EnterKeeps,
       ReadBackKeeps, FlattenKeeps, FlatBackKeeps DEF Handler
  <1>4. CASE WatchdogTick
    BY <1>4, WatchdogKeeps
  <1>5. CASE Around
    BY <1>5, AroundKeeps
  <1>6. CASE UNCHANGED vars
    <2>1. UNCHANGED <<live, wire, up, ex, silent, at, m, pos, dry, offSeen, arms, faults>>
      BY <1>6 DEF vars, exec, bounds
    <2>2. TypeOK'
      BY <2>1 DEF IInv, TypeOK
    <2>3. Placed' /\ WayArmed' /\ HaltKept'
      BY <2>1 DEF IInv, Placed, WayArmed, OnTheWay, HaltKept
    <2>4. QED
      BY <2>2, <2>3 DEF IInv
  <1>7. QED
    BY <1>1, <1>2, <1>3, <1>4, <1>5, <1>6 DEF Next

\* Every variable keeps its type, and no process makes more than MaxOrders
\* entries, whatever fails.
THEOREM TypeCorrect == Spec => []TypeOK
  <1>1. IInv => TypeOK
    BY DEF IInv
  <1>2. QED
    BY InvInit, Inductive, <1>1, PTL DEF Spec

\* A step that gets to an entry leaves an account that was just read flat.
Begun == at' = "enter" /\ at # "enter"

LEMMA BegunFlat ==
  ASSUME IInv, Next, Begun
  PROVE  pos' = 0
  <1>1. pos \in Int /\ m \in Handlers
    BY DEF IInv, TypeOK
  <1>2. CASE Session
    BY <1>2 DEF Begun, Session, Arm, Disarm, Flusher, Heartbeat, Intent, FeedTurns,
       SessionEnds, SessionRestarts, ReportsStop, exec
  <1>3. CASE Around
    BY <1>3 DEF Begun, Around, Report, Silence, BracketExits, Stray, Killed,
       RefusedPost, Starts, exec, Done, Go
  <1>4. CASE Listen
    BY <1>4 DEF Begun, Listen, TakeHeartbeat, TakeIntent, Done, Go
  <1>5. CASE WatchdogTick
    BY <1>5 DEF Begun, WatchdogTick, Go
  <1>6. CASE Lost \/ CheckLimits \/ ReadAccount \/ ReadBack
    BY <1>6 DEF Begun, Lost, CheckLimits, ReadAccount, ReadBack, Raise, Raised,
       HaltAndFlatten, Done, Go, Placed, IInv
  <1>7. CASE Execute
    <2>1. pos' = pos /\ AfterRead(pos) = "enter"
      BY <1>7 DEF Begun, Execute, Done, Go
    <2>2. QED
      BY <1>1, <2>1 DEF AfterRead
  <1>8. CASE Enter
    BY <1>8 DEF Begun, Enter
  <1>9. CASE Flatten
    BY <1>9 DEF Begun, Flatten, Raised, OnlyShown, Done, Go
  <1>10. CASE FlatBack
    <2>1. pos' = pos /\ ~StillHeld(pos)
      BY <1>10 DEF Begun, FlatBack, Raise, Raised, Done, Go
    <2>2. QED
      BY <1>1, <2>1 DEF StillHeld
  <1>11. QED
    BY <1>2, <1>3, <1>4, <1>5, <1>6, <1>7, <1>8, <1>9, <1>10 DEF Next, Handler

\* While an entry is under way only a trade by hand moves the account.
LEMMA UnderWay ==
  ASSUME IInv, Next, at = "enter", at' = "enter"
  PROVE  pos' = 0 \/ Stray \/ UNCHANGED pos
  <1>1. CASE Session
    BY <1>1 DEF Session, Arm, Disarm, Flusher, Heartbeat, Intent, FeedTurns,
       SessionEnds, SessionRestarts, ReportsStop
  <1>2. CASE Around
    BY <1>2 DEF Around, Report, Silence, BracketExits, Killed, RefusedPost, Starts
  <1>3. CASE Listen \/ WatchdogTick
    BY <1>3 DEF Listen, TakeHeartbeat, TakeIntent, Take, WatchdogTick
  <1>4. CASE Handler
    <2>1. Enter
      BY <1>4 DEF Handler, Lost, CheckLimits, ReadAccount, Execute, ReadBack, Flatten, FlatBack
    <2>2. QED
      BY <2>1 DEF Enter, Raised, OnlyShown, Done, Go
  <1>5. QED
    BY <1>1, <1>2, <1>3, <1>4 DEF Next

\* An entry begins only armed, not halted and on a flat account, whatever
\* failed, and only a trade by hand moves the account before its order.
THEOREM Entries == Spec => EntersFlatAndArmed
  <1> DEFINE Flat == pos' = 0 \/ (at = "enter" /\ (Stray \/ UNCHANGED pos))
             Good == at' = "enter" => ex'.armed /\ ~ex'.halted /\ Flat
  <1>1. ASSUME IInv', at' = "enter" PROVE ex'.armed /\ ~ex'.halted
    BY <1>1 DEF IInv, Placed, WayArmed, OnTheWay
  <1>2. ASSUME IInv, Next, at' = "enter" PROVE Flat
    BY <1>2, BegunFlat, UnderWay DEF Begun
  <1>3. IInv /\ IInv' /\ [Next]_vars => [Good]_vars
    BY <1>1, <1>2
  <1>4. [][Good]_vars => EntersFlatAndArmed
    BY PTL DEF EntersFlatAndArmed
  <1>5. QED
    BY InvInit, Inductive, <1>3, <1>4, PTL DEF Spec

\* A halt of a running executor goes away only where a message is heard,
\* after off was heard since, and never when it is the day's.
THEOREM HaltsHold == Spec => HaltNeedsOffOn
  <1> DEFINE Cleared == ex.halted /\ ~ex'.halted /\ up
  <1>1. ASSUME IInv, Next, Cleared PROVE offSeen /\ ~ex.dayHalt /\ at = "idle"
    <2>1. ex \in Executors
      BY <1>1 DEF IInv, TypeOK
    <2>2. ex' # ex
      BY <1>1
    <2>3. CASE Listen
      <3>1. up /\ at = "idle" /\ wire # <<>> /\ Hear(Head(wire))
        BY <2>2, <2>3 DEF Listen, TakeHeartbeat, TakeIntent, Take, NoHalt
      <3>2. QED
        BY <1>1, <3>1, HearClears, HeadTyped
    <2>4. CASE Session
      BY <2>2, <2>4 DEF Session, Arm, Disarm, Flusher, Heartbeat, Intent, FeedTurns,
         SessionEnds, SessionRestarts, ReportsStop, exec
    <2>5. CASE Around
      BY <1>1, <2>2, <2>5 DEF Around, Report, Silence, BracketExits, Stray, Killed,
         RefusedPost, Starts, exec
    <2>6. CASE WatchdogTick
      <3>1. ex' = [ex EXCEPT !.armed = FALSE]
        BY <2>2, <2>6 DEF WatchdogTick
      <3>2. QED
        BY <1>1, <2>1, <3>1 DEF Executors
    <2>7. CASE up /\ Handler
      <3>1. \/ \E day \in BOOLEAN : ex' = Halt(ex, day)
            \/ ex' = [ex EXCEPT !.orders = @ + 1]
            \/ ex' = Halt([ex EXCEPT !.orders = @ + 1], FALSE)
            \/ ex' = [ex EXCEPT !.halted = TRUE]
        BY <2>2, <2>7 DEF Handler, Lost, CheckLimits, ReadAccount, Execute, Enter, ReadBack,
           Flatten, FlatBack, OnlyShown, Raise, Raised, HaltAndFlatten, Halts, NoHalt, LossHalts, ToEnter
      <3>2. ex'.halted
        BY <1>1, <2>1, <3>1 DEF Halt, Executors
      <3>3. QED
        BY <1>1, <3>2
    <2>8. QED
      BY <1>1, <2>3, <2>4, <2>5, <2>6, <2>7 DEF Next
  <1>2. IInv /\ [Next]_vars => [Cleared => offSeen /\ ~ex.dayHalt /\ at = "idle"]_vars
    BY <1>1
  <1>3. QED
    BY InvInit, Inductive, <1>2, PTL DEF Spec, HaltNeedsOffOn
=============================================================================
