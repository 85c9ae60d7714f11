--------------------------- MODULE PaperDayProofs ---------------------------
(***************************************************************************)
(* For every schedule, grace, cooldown and cap, and any number of faults   *)
(* and commands: recover acts at most RECOVER_MAX times a day, a cooldown  *)
(* apart, starts nothing that the owner has stopped before its checks, and *)
(* leaves no day that is down alone for longer than its patience and what  *)
(* the faults cost.                                                        *)
(*                                                                         *)
(* The first two hold because recover's file is written before it acts:    *)
(* every tick in which it acted is counted and none is later than last_at, *)
(* and what its checks found stays so until it writes: time does not pass  *)
(* there.  The last one is an account of the ticks since the day was well: *)
(* a check leaves a day alone only while its latest row is young, has      *)
(* decided lately or recover cools down, and a fault is needed for a       *)
(* session that decided not to decide any more.                            *)
(***************************************************************************)
EXTENDS PaperDay, FiniteSetTheorems, TLAPS

\* The attempts that were made are the ones the file counts.
Counted ==
  /\ now \in Nat /\ rec.count \in Nat /\ rec.count <= RECOVER_MAX
  /\ rec.last \in Int /\ rec.last <= now
  /\ acted \subseteq Nat /\ IsFiniteSet(acted) /\ Cardinality(acted) <= rec.count
  /\ \A s \in acted : s <= rec.last /\ rec.last # None

Spaced == \A s, t \in acted : s < t => t - s >= RECOVER_COOLDOWN_S

\* What the checks found still holds where the attempt is written.
Judged == at = "judged" => AttemptsLeft /\ CooledDown

\* Past its checks, a recover that sees a marker has been overtaken.
Unmarked == at \in {"judged", "kill", "wait", "kick"} => ~stopped \/ raced

IInv == Counted /\ Spaced /\ Judged /\ Unmarked

LEMMA InvInit == Init => IInv
  <1> SUFFICES ASSUME Init PROVE IInv
    OBVIOUS
  <1>1. Cardinality({}) = 0 /\ IsFiniteSet({})
    BY FS_EmptySet
  <1>2. Counted
    BY <1>1, DayAssumption DEF Init, Counted, None
  <1>3. Spaced /\ Judged /\ Unmarked
    BY DEF Init, Spaced, Judged, Unmarked
  <1>4. QED
    BY <1>2, <1>3 DEF IInv

\* What nobody but recover, its checks and the clock change.
LEMMA FramedKeeps ==
  ASSUME IInv, UNCHANGED <<rec, acted>>, now' = now \/ (now' = now + 1 /\ at' = "idle"),
         at' = "judged" => at = "judged" \/ (AttemptsLeft /\ CooledDown /\ now' = now),
         Unmarked'
  PROVE  IInv'
  <1>1. Counted'
    BY DEF IInv, Counted
  <1>2. Spaced'
    BY DEF IInv, Spaced
  <1>3. Judged'
    BY DEF IInv, Judged, AttemptsLeft, CooledDown
  <1>4. QED
    BY <1>1, <1>2, <1>3 DEF IInv

LEMMA RecordsKeeps ==
  ASSUME IInv, RecoverRecords
  PROVE  IInv'
  <1>1. /\ rec' = Attempt /\ acted' = acted \cup {now} /\ now' = now
        /\ at = "judged" /\ at' \in {"kill", "kick"} /\ UNCHANGED <<stopped, raced>>
    BY DEF RecoverRecords
  <1>2. /\ rec'.count = rec.count + 1 /\ rec'.last = now
        /\ rec.count < RECOVER_MAX /\ CooledDown
    BY <1>1 DEF Attempt, IInv, Judged, AttemptsLeft
  <1>3. IsFiniteSet(acted') /\ Cardinality(acted') <= rec.count + 1
    <2>1. IsFiniteSet(acted) /\ Cardinality(acted) <= rec.count
          /\ rec.count \in Nat
      BY DEF IInv, Counted
    <2>2. Cardinality(acted) \in Nat
      BY <2>1, FS_CardinalityType
    <2>3. /\ IsFiniteSet(acted \cup {now})
          /\ Cardinality(acted \cup {now}) =
               IF now \in acted THEN Cardinality(acted) ELSE Cardinality(acted) + 1
      BY <2>1, FS_AddElement
    <2>4. QED
      BY <1>1, <2>1, <2>2, <2>3
  <1>4. Counted'
    BY <1>1, <1>2, <1>3, DayAssumption DEF IInv, Counted, None
  <1>5. Spaced'
    <2> SUFFICES ASSUME NEW s \in acted', NEW t \in acted', s < t
                 PROVE  t - s >= RECOVER_COOLDOWN_S
      BY <1>1, DayAssumption DEF Spaced
    <2>1. \A u \in acted : u \in Nat /\ u <= rec.last /\ rec.last # None /\ rec.last <= now
      BY DEF IInv, Counted
    <2>2. CASE s \in acted /\ t \in acted
      BY <2>2 DEF IInv, Spaced
    <2>3. CASE s \in acted /\ t = now
      <3>1. now - rec.last >= RECOVER_COOLDOWN_S
        BY <1>2, <2>1, <2>3 DEF CooledDown
      <3>2. QED
        BY <2>1, <2>3, <3>1, DayAssumption DEF IInv, Counted
    <2>4. CASE s = now
      BY <1>1, <2>1, <2>4 DEF IInv, Counted
    <2>5. QED
      BY <1>1, <2>2, <2>3, <2>4
  <1>6. Judged' /\ Unmarked'
    BY <1>1 DEF IInv, Judged, Unmarked
  <1>7. QED
    BY <1>4, <1>5, <1>6 DEF IInv

LEMMA Inductive == IInv /\ [Next]_vars => IInv'
  <1> SUFFICES ASSUME IInv, [Next]_vars PROVE IInv'
    OBVIOUS
  <1>1. ASSUME UNCHANGED <<now, rec, acted, at, stopped, raced>> PROVE IInv'
    <2>1. Unmarked'
      BY <1>1 DEF IInv, Unmarked
    <2>2. QED
      BY <1>1, <2>1, FramedKeeps
  <1>2. CASE Calendar \/ Runner
    BY <1>1, <1>2 DEF Calendar, Runner, Boots, BootEnds, Skips, Decides, FallsQuiet, Revives,
       Aborts, Closes, Crashes, Ends, ext
  <1>3. CASE Health
    <2>1. UNCHANGED <<now, rec, acted, stopped, raced>> /\ at' \in {"idle", "recover"}
      BY <1>3 DEF Health
    <2>2. Unmarked'
      BY <2>1 DEF Unmarked
    <2>3. QED
      BY <2>1, <2>2, FramedKeeps
  <1>4. CASE RecoverChecks
    <2>1. /\ UNCHANGED <<now, rec, acted, stopped>> /\ at' \in {"idle", "judged"}
          /\ at' = "judged" => ~stopped /\ AttemptsLeft /\ CooledDown
      BY <1>4 DEF RecoverChecks, Problem
    <2>2. Unmarked'
      BY <2>1 DEF Unmarked
    <2>3. QED
      BY <2>1, <2>2, FramedKeeps
  <1>5. CASE RecoverRecords
    BY <1>5, RecordsKeeps
  <1>6. CASE RecoverKills \/ RecoverWaits \/ RecoverKickstarts \/ RecoverFails
    <2>1. /\ UNCHANGED <<now, rec, acted, stopped, raced>> /\ at' \in {"idle", "wait", "kick"}
          /\ at \in {"judged", "kill", "wait", "kick"}
      BY <1>6 DEF RecoverKills, RecoverWaits, RecoverKickstarts, RecoverFails
    <2>2. Unmarked'
      BY <2>1 DEF IInv, Unmarked
    <2>3. QED
      BY <2>1, <2>2, FramedKeeps
  <1>7. CASE Owner
    <2>1. /\ UNCHANGED <<now, rec, acted, at>>
          /\ (stopped' = TRUE /\ raced' = TRUE) \/ (stopped' = FALSE) \/ UNCHANGED <<stopped, raced>>
      BY <1>7 DEF Owner, AsksStop, StopKills, StopMarks, StopFails, AsksStart, StartKickstarts,
         StartClears, ext
    <2>2. Unmarked'
      BY <2>1 DEF IInv, Unmarked
    <2>3. QED
      BY <2>1, <2>2, FramedKeeps
  <1>8. CASE Tick
    <2>1. now' = now + 1 /\ at = "idle" /\ UNCHANGED <<rec, acted, at, stopped, raced>>
      BY <1>8 DEF Tick, ext
    <2>2. Unmarked'
      BY <2>1 DEF Unmarked
    <2>3. QED
      BY <2>1, <2>2, FramedKeeps
  <1>9. CASE UNCHANGED vars
    BY <1>1, <1>9 DEF vars, ext
  <1>10. QED
    BY <1>2, <1>3, <1>4, <1>5, <1>6, <1>7, <1>8, <1>9 DEF Next, Recover, Over

\* recover acts at most RECOVER_MAX times a day, and a cooldown apart, whatever
\* of it fails and whatever the runner and the owner do meanwhile.
THEOREM Bounded == Spec => []RestartsBounded
  <1>1. IInv => RestartsBounded
    <2> SUFFICES ASSUME IInv PROVE RestartsBounded
      OBVIOUS
    <2>1. Cardinality(acted) \in Nat /\ Cardinality(acted) <= rec.count
          /\ rec.count \in Nat /\ rec.count <= RECOVER_MAX
      BY FS_CardinalityType DEF IInv, Counted
    <2>2. Cardinality(acted) <= RECOVER_MAX
      BY <2>1, DayAssumption
    <2>3. QED
      BY <2>2 DEF IInv, Spaced, RestartsBounded
  <1>2. QED
    BY InvInit, Inductive, <1>1, PTL DEF Spec

\* While the marker of trade_jev_stop holds, nobody but the owner starts the
\* job, except the calendar before the open and a recover that the stop overtook.
THEOREM StopKept == Spec => StopHolds
  <1> DEFINE Started == stopped /\ job = "off" /\ job' = "boot"
  <1>1. ASSUME IInv, Next, Started PROVE owner = "start" \/ raced \/ now = 0
    <2>1. CASE Calendar
      BY <1>1, <2>1 DEF Calendar
    <2>2. CASE Runner
      BY <1>1, <2>2 DEF Runner, Boots, BootEnds, Skips, Decides, FallsQuiet, Revives,
         Aborts, Closes, Crashes, Ends
    <2>3. CASE Recover
      <3>1. CASE RecoverChecks \/ RecoverRecords \/ RecoverWaits
        BY <1>1, <3>1 DEF RecoverChecks, RecoverRecords, RecoverWaits, runner
      <3>2. CASE RecoverKills
        BY <1>1, <3>2 DEF RecoverKills, Terminated, Running, runner
      <3>3. CASE RecoverKickstarts
        BY <1>1, <3>3 DEF RecoverKickstarts, IInv, Unmarked
      <3>4. CASE RecoverFails
        BY <1>1, <3>4 DEF RecoverFails, IInv, Unmarked
      <3>5. QED
        BY <2>3, <3>1, <3>2, <3>3, <3>4 DEF Recover
    <2>4. CASE Owner
      <3>1. CASE AsksStop \/ StopMarks \/ StopFails \/ AsksStart \/ StartClears
        BY <1>1, <3>1 DEF AsksStop, StopMarks, StopFails, AsksStart, StartClears, runner
      <3>2. CASE StopKills
        BY <1>1, <3>2 DEF StopKills, Terminated, Running, runner
      <3>3. CASE StartKickstarts
        BY <3>3 DEF StartKickstarts
      <3>4. QED
        BY <2>4, <3>1, <3>2, <3>3 DEF Owner
    <2>5. CASE Health \/ Tick \/ Over
      BY <1>1, <2>5 DEF Health, Tick, Over, runner, vars
    <2>6. QED
      BY <1>1, <2>1, <2>2, <2>3, <2>4, <2>5 DEF Next
  <1>2. IInv /\ [Next]_vars => [Started => owner = "start" \/ raced \/ now = 0]_vars
    BY <1>1
  <1>3. QED
    BY InvInit, Inductive, <1>2, PTL DEF Spec, StopHolds

-----------------------------------------------------------------------------
(* Types.                                                                  *)

Statuses == {"running", "skipped", "aborted", "crashed", "done"}
Senders  == {"none", "recover", "owner"}
Rows == [status : Statuses, started : 0 .. EOD, hb : 0 .. EOD, dec : None .. EOD, by : Senders]
Runs == [mode : {"none", "starting", "replay", "ok", "quiet", "hung"}, row : Nat, term : Senders]

\* The clock, the files and the bounds.
ClockTyped ==
  /\ now \in 0 .. EOD /\ checked \in BOOLEAN /\ stopped \in BOOLEAN /\ raced \in BOOLEAN
  /\ at \in {"idle", "recover", "judged", "kill", "wait", "kick"}
  /\ owner \in {"idle", "stop", "mark", "start", "clear"}
  /\ acted \subseteq 0 .. EOD /\ well \in 0 .. EOD
  /\ commands \in 0 .. MaxOwner /\ faults \in 0 .. MaxFaults

\* The process and the rows, none of which is ever taken away.
RunnerTyped ==
  /\ job \in {"off", "boot", "up"} /\ run \in Runs /\ run.row <= Len(rows)
  /\ rows \in Seq(Rows)

RecTyped ==
  /\ rec \in [count : 0 .. RECOVER_MAX, last : None .. EOD, row : Nat]
  /\ rec.row <= Len(rows)

LEMMA RowTyped ==
  ASSUME now \in 0 .. EOD, NEW s \in Statuses
  PROVE  Row(s) \in Rows
  BY DayAssumption DEF Row, Rows, None, Senders

LEMMA BoundsTyped ==
  ASSUME ClockTyped, UNCHANGED bounds \/ Fault
  PROVE  commands' \in 0 .. MaxOwner /\ faults' \in 0 .. MaxFaults
  BY DayAssumption DEF ClockTyped, bounds, Fault


\* A row that is written again.
LEMMA RowPut ==
  ASSUME NEW q \in Seq(Rows), NEW i, NEW e, i \in DOMAIN q => e \in Rows
  PROVE  [q EXCEPT ![i] = e] \in Seq(Rows) /\ Len([q EXCEPT ![i] = e]) = Len(q)
  <1> DEFINE x == [q EXCEPT ![i] = e]
  <1>1. DOMAIN q = 1 .. Len(q) /\ Len(q) \in Nat /\ \A j \in DOMAIN q : q[j] \in Rows
    OBVIOUS
  <1>2. x \in [1 .. Len(q) -> Rows]
    BY <1>1
  <1> HIDE DEF x
  <1>3. x \in Seq(Rows) /\ Len(x) = Len(q)
    BY <1>1, <1>2
  <1>4. QED
    BY <1>3 DEF x

LEMMA RowFields ==
  ASSUME NEW r \in Rows, NEW t \in 0 .. EOD, NEW d \in None .. EOD, NEW s \in Statuses,
         NEW w \in Senders
  PROVE  /\ [r EXCEPT !.dec = d] \in Rows /\ [r EXCEPT !.hb = t] \in Rows
         /\ [r EXCEPT !.status = s] \in Rows /\ [r EXCEPT !.by = w] \in Rows
  BY DEF Rows

\* The runner's steps.
LEMMA RunnerKeeps ==
  ASSUME ClockTyped, RunnerTyped, Runner \/ Calendar
  PROVE  RunnerTyped' /\ Len(rows) <= Len(rows')
  <1>1. Len(rows) \in Nat /\ DOMAIN rows = 1 .. Len(rows) /\ now \in 0 .. EOD
    BY DEF ClockTyped, RunnerTyped
  <1>2. NoRun \in Runs /\ NoRun.row = 0
    BY DEF NoRun, Runs, Senders
  <1>3. ASSUME NEW s \in Statuses
        PROVE  WithRow(Row(s)) \in Seq(Rows) /\ Len(rows) <= Len(WithRow(Row(s)))
    <2> DEFINE r == Row(s)
    <2>1. r \in Rows
      BY <1>1, RowTyped
    <2> HIDE DEF r
    <2>2. <<r>> \in Seq(Rows) /\ Len(<<r>>) = 1
      BY <2>1
    <2>3. Append(rows, r) \in Seq(Rows) /\ Len(Append(rows, r)) = Len(rows) + 1
      BY <2>1 DEF RunnerTyped
    <2>4. WithRow(r) \in Seq(Rows) /\ Len(rows) <= Len(WithRow(r))
      BY <1>1, <2>2, <2>3 DEF WithRow
    <2>5. QED
      BY <2>4 DEF r
  <1>4. CASE Calendar
    BY <1>4 DEF Calendar, Kickstarted, RunnerTyped
  <1>5. CASE Boots
    <2>1. job' = "up" /\ (rows' = WithRow(Row("running")) \/ rows' = rows)
      BY <1>5 DEF Boots
    <2>2. rows' \in Seq(Rows) /\ Len(rows) <= Len(rows')
      BY <1>1, <1>3, <2>1 DEF Statuses, RunnerTyped
    <2>3. PICK mode \in {"starting", "replay"} :
            run' = [mode |-> mode, row |-> IF rows' = rows THEN 0 ELSE Len(rows'), term |-> "none"]
      BY <1>5 DEF Boots
    <2>4. run' \in Runs /\ run'.row <= Len(rows')
      BY <2>2, <2>3 DEF Runs, Senders
    <2>5. QED
      BY <2>1, <2>2, <2>4 DEF RunnerTyped
  <1>6. CASE BootEnds
    BY <1>6 DEF BootEnds, RunnerTyped
  <1>7. CASE Skips
    <2>1. job' = "off" /\ UNCHANGED run
          /\ rows' = IF rows = <<>> \/ (Len(rows) = 1 /\ rows[1].status = "skipped")
                     THEN <<Row("skipped")>> ELSE rows
      BY <1>7 DEF Skips
    <2>2. <<Row("skipped")>> \in Seq(Rows) /\ Len(<<Row("skipped")>>) = 1
      BY <1>1, RowTyped DEF Statuses
    <2>3. rows' \in Seq(Rows) /\ Len(rows) <= Len(rows')
      BY <1>1, <2>1, <2>2 DEF RunnerTyped
    <2>4. QED
      BY <1>1, <2>1, <2>3 DEF RunnerTyped, Runs
  <1>8. CASE Decides \/ Revives
    <2>1. /\ run' = [run EXCEPT !.mode = "ok"] /\ UNCHANGED job
          /\ \/ rows' = rows
             \/ rows' = [rows EXCEPT ![run.row].dec = now]
             \/ rows' = [rows EXCEPT ![run.row].dec = now, ![run.row].hb = now]
      BY <1>8 DEF Decides, Revives
    <2>2. run' \in Runs /\ run'.row = run.row
      BY <2>1 DEF RunnerTyped, Runs
    <2>3. now \in None .. EOD
      BY <1>1, DayAssumption DEF None
    <2>4. rows' \in Seq(Rows) /\ Len(rows') = Len(rows)
      <3> DEFINE i == run.row
                 d == [rows[i] EXCEPT !.dec = now]
                 q == [rows EXCEPT ![i] = d]
      <3>1. i \in DOMAIN rows => d \in Rows
        <4>1. i \in DOMAIN rows => rows[i] \in Rows
          BY DEF RunnerTyped
        <4>2. QED
          BY <1>1, <2>3, <4>1, RowFields DEF Statuses, Senders
      <3>2. q \in Seq(Rows) /\ Len(q) = Len(rows)
        BY <3>1, RowPut DEF RunnerTyped
      <3> DEFINE h == [q[i] EXCEPT !.hb = now]
                 x == [q EXCEPT ![i] = h]
      <3>3. \/ rows' = rows
            \/ rows' = q
            \/ rows' = x
        BY <2>1
      <3> HIDE DEF q
      <3>4. i \in DOMAIN q => h \in Rows
        <4>1. i \in DOMAIN q => q[i] \in Rows
          BY <3>2
        <4>2. QED
          BY <1>1, <2>3, <4>1, RowFields DEF Statuses, Senders
      <3>5. x \in Seq(Rows) /\ Len(x) = Len(q)
        BY <3>2, <3>4, RowPut
      <3> HIDE DEF x
      <3>6. QED
        BY <3>2, <3>3, <3>5 DEF RunnerTyped
    <2>5. QED
      BY <1>1, <2>1, <2>2, <2>4 DEF RunnerTyped
  <1>9. CASE FallsQuiet
    <2>1. UNCHANGED <<job, rows>> /\ (run' = [run EXCEPT !.mode = "quiet"]
                                      \/ run' = [run EXCEPT !.mode = "hung"])
      BY <1>9 DEF FallsQuiet
    <2>2. run' \in Runs /\ run'.row = run.row
      BY <2>1 DEF RunnerTyped, Runs
    <2>3. QED
      BY <1>1, <2>1, <2>2 DEF RunnerTyped
  <1>10. CASE Aborts \/ Closes \/ Crashes
    <2>1. /\ job' = "off" /\ run' = NoRun
          /\ \/ rows' = rows
             \/ \E s \in Statuses : rows' = [rows EXCEPT ![run.row].status = s,
                                               ![run.row].hb = now, ![run.row].by = run.term]
             \/ \E s \in Statuses : rows' = [rows EXCEPT ![run.row].status = s,
                                               ![run.row].hb = now]
      BY <1>10 DEF Aborts, Closes, Crashes, Ends, Statuses
    <2>2. run.term \in Senders /\ now \in None .. EOD
      BY <1>1, DayAssumption DEF RunnerTyped, Runs, None
    <2>4. rows' \in Seq(Rows) /\ Len(rows') = Len(rows)
      <3>1. ASSUME NEW s \in Statuses,
                   \/ rows' = [rows EXCEPT ![run.row].status = s,
                              ![run.row].hb = now, ![run.row].by = run.term]
                   \/ rows' = [rows EXCEPT ![run.row].status = s, ![run.row].hb = now]
            PROVE  rows' \in Seq(Rows) /\ Len(rows') = Len(rows)
        <4> DEFINE i == run.row
                   w == run.term
                   d == [rows[i] EXCEPT !.status = s]
                   q == [rows EXCEPT ![i] = d]
                   h == [q[i] EXCEPT !.hb = now]
                   x == [q EXCEPT ![i] = h]
                   b == [x[i] EXCEPT !.by = w]
                   y == [x EXCEPT ![i] = b]
        <4>1. rows' = x \/ rows' = y
          BY <3>1
        <4>2. i \in DOMAIN rows => d \in Rows
          <5>1. i \in DOMAIN rows => rows[i] \in Rows
            BY DEF RunnerTyped
          <5>2. QED
            BY <1>1, <2>2, <5>1, RowFields
        <4>3. q \in Seq(Rows) /\ Len(q) = Len(rows)
          BY <4>2, RowPut DEF RunnerTyped
        <4> HIDE DEF q
        <4>4. i \in DOMAIN q => h \in Rows
          <5>1. i \in DOMAIN q => q[i] \in Rows
            BY <4>3
          <5>2. QED
            BY <1>1, <2>2, <5>1, RowFields
        <4>5. x \in Seq(Rows) /\ Len(x) = Len(q)
          BY <4>3, <4>4, RowPut
        <4> HIDE DEF x
        <4>6. i \in DOMAIN x => b \in Rows
          <5>1. i \in DOMAIN x => x[i] \in Rows
            BY <4>5
          <5>2. QED
            BY <1>1, <2>2, <5>1, RowFields
        <4>7. y \in Seq(Rows) /\ Len(y) = Len(x)
          BY <4>5, <4>6, RowPut
        <4> HIDE DEF y
        <4>8. QED
          BY <4>1, <4>3, <4>5, <4>7
      <3>2. QED
        BY <2>1, <3>1 DEF RunnerTyped
    <2>5. job' = "off" /\ run' \in Runs /\ run'.row = 0
      BY <1>2, <2>1
    <2>6. QED
      BY <1>1, <2>4, <2>5 DEF RunnerTyped
  <1>11. QED
    BY <1>4, <1>5, <1>6, <1>7, <1>8, <1>9, <1>10 DEF Runner

LEMMA OthersKeep ==
  ASSUME RunnerTyped, ClockTyped, Tick \/ Recover \/ Owner \/ Health \/ UNCHANGED vars
  PROVE  RunnerTyped' /\ Len(rows) <= Len(rows')
  <1>1. Len(rows) \in Nat /\ now \in 0 .. EOD
    BY DEF ClockTyped, RunnerTyped
  <1>2. ASSUME UNCHANGED rows, job' \in {"off", "boot", "up"},
               run' = run \/ \E w \in {"recover", "owner"} :
                               run' = [run EXCEPT !.term = IF @ = "none" THEN w ELSE @]
        PROVE  RunnerTyped' /\ Len(rows) <= Len(rows')
    <2>1. run' \in Runs /\ run'.row = run.row
      BY <1>2 DEF RunnerTyped, Runs, Senders
    <2>2. QED
      BY <1>1, <1>2, <2>1 DEF RunnerTyped
  <1>3. ASSUME Tick PROVE RunnerTyped' /\ Len(rows) <= Len(rows')
    <2> DEFINE i == run.row
               d == [rows[i] EXCEPT !.hb = now + 1]
               q == [rows EXCEPT ![i] = d]
               v == CASE run.mode = "ok"     -> now + 1
                      [] run.mode = "replay" -> rows[i].started - 1
                      [] OTHER -> rows[i].dec
               h == [q[i] EXCEPT !.dec = v]
               x == [q EXCEPT ![i] = h]
    <2>1. UNCHANGED <<job, run>> /\ now < EOD
      BY <1>3 DEF Tick
    <2>2. now + 1 \in 0 .. EOD /\ now + 1 \in None .. EOD
      BY <1>1, <2>1, DayAssumption DEF None
    <2>3. i \in DOMAIN rows => rows[i] \in Rows
      BY DEF RunnerTyped
    <2>4. i \in DOMAIN rows => v \in None .. EOD
      <3>1. ASSUME i \in DOMAIN rows
            PROVE  rows[i].started - 1 \in None .. EOD /\ rows[i].dec \in None .. EOD
        BY <2>3, <3>1, DayAssumption DEF Rows, None
      <3>2. QED
        BY <2>2, <3>1
    <2>5. i \in DOMAIN rows => d \in Rows
      BY <2>2, <2>3, RowFields DEF Statuses, Senders
    <2>6. q \in Seq(Rows) /\ Len(q) = Len(rows)
      BY <2>5, RowPut DEF RunnerTyped
    <2>7. rows' = rows \/ rows' = x
      <3>1. CASE job # "up" \/ run.row = 0 \/ run.mode = "hung"
        BY <1>3, <3>1 DEF Tick
      <3>2. CASE ~(job # "up" \/ run.row = 0 \/ run.mode = "hung")
        <4>1. rows' = [rows EXCEPT ![run.row].hb = now + 1,
                     ![run.row].dec = CASE run.mode = "ok"     -> now + 1
                                        [] run.mode = "replay" -> rows[run.row].started - 1
                                        [] OTHER -> @]
          BY <1>3, <3>2 DEF Tick
        <4>2. QED
          BY <4>1
      <3>3. QED
        BY <3>1, <3>2
    <2> HIDE DEF v, q
    <2>8. i \in DOMAIN q => h \in Rows
      <3>1. i \in DOMAIN q => i \in DOMAIN rows /\ q[i] \in Rows
        BY <2>6 DEF q
      <3>2. QED
        BY <1>1, <2>4, <3>1, RowFields DEF Statuses, Senders
    <2>9. x \in Seq(Rows) /\ Len(x) = Len(q)
      BY <2>6, <2>8, RowPut
    <2> HIDE DEF x
    <2>10. rows' \in Seq(Rows) /\ Len(rows') = Len(rows)
      BY <2>6, <2>7, <2>9 DEF RunnerTyped
    <2>11. QED
      BY <1>1, <2>1, <2>10 DEF RunnerTyped
  <1>4. ASSUME Recover \/ Owner \/ Health \/ UNCHANGED vars
        PROVE  RunnerTyped' /\ Len(rows) <= Len(rows')
    <2>1. job \in {"off", "boot", "up"}
      BY DEF RunnerTyped
    <2> DEFINE Only == \/ UNCHANGED runner
                       \/ UNCHANGED <<job, run, rows>>
                       \/ Kickstarted /\ UNCHANGED <<run, rows>>
                       \/ Terminated("recover")
                       \/ Terminated("owner")
    <2>a. ASSUME Health \/ UNCHANGED vars PROVE Only
      BY <2>a DEF Health, vars
    <2>b. ASSUME Recover PROVE Only
      BY <2>b DEF Recover, RecoverChecks, RecoverRecords, RecoverKills, RecoverWaits,
         RecoverKickstarts, RecoverFails
    <2>c. ASSUME Owner PROVE Only
      BY <2>c DEF Owner, AsksStop, StopKills, StopMarks, StopFails, AsksStart, StartKickstarts,
         StartClears
    <2>2. Only
      BY <1>4, <2>a, <2>b, <2>c
    <2>3. UNCHANGED rows /\ job' \in {"off", "boot", "up"}
      BY <2>1, <2>2 DEF runner, Kickstarted, Terminated
    <2>4. run' = run \/ \E w \in {"recover", "owner"} :
                               run' = [run EXCEPT !.term = IF @ = "none" THEN w ELSE @]
      BY <2>2 DEF runner, Terminated
    <2>5. QED
      BY <1>2, <2>3, <2>4
  <1>5. QED
    BY <1>3, <1>4

LEMMA ClockKeeps ==
  ASSUME IInv, ClockTyped, [Next]_vars
  PROVE  ClockTyped'
  <1>1. now \in 0 .. EOD
    BY DEF ClockTyped
  <1>2. ASSUME UNCHANGED bounds \/ Fault,
               UNCHANGED <<now, checked, stopped, raced, owner, acted, well, at>>
        PROVE  ClockTyped'
    BY <1>2, BoundsTyped DEF ClockTyped
  <1>3. CASE Calendar \/ Runner
    BY <1>2, <1>3 DEF Calendar, Runner, Boots, BootEnds, Skips, Decides, FallsQuiet, Revives,
       Aborts, Closes, Crashes, Ends, ext, Fault
  <1>4. CASE Health
    <2>1. /\ UNCHANGED bounds \/ Fault
          /\ UNCHANGED <<now, stopped, raced, owner, acted, well>>
          /\ checked' = TRUE /\ at' \in {"idle", "recover"}
      BY <1>4 DEF Health
    <2>2. QED
      BY <2>1, BoundsTyped DEF ClockTyped
  <1>5. CASE Recover
    <2>1. UNCHANGED bounds \/ Fault
      BY <1>5 DEF Recover, RecoverChecks, RecoverRecords, RecoverKills, RecoverWaits,
         RecoverKickstarts, RecoverFails
    <2>2. /\ UNCHANGED <<now, checked, stopped, owner>>
          /\ at' \in {"idle", "judged", "kill", "wait", "kick"}
          /\ raced' = raced \/ raced' = FALSE
          /\ acted' = acted \/ acted' = acted \cup {now}
          /\ well' = well \/ well' = now
      BY <1>5 DEF Recover, RecoverChecks, RecoverRecords, RecoverKills, RecoverWaits,
         RecoverKickstarts, RecoverFails
    <2>3. commands' \in 0 .. MaxOwner /\ faults' \in 0 .. MaxFaults
      BY <2>1, BoundsTyped
    <2>4. acted' \subseteq 0 .. EOD /\ well' \in 0 .. EOD
      BY <1>1, <2>2 DEF ClockTyped
    <2>5. QED
      BY <2>2, <2>3, <2>4 DEF ClockTyped
  <1>6. CASE Owner
    <2>1. commands' \in 0 .. MaxOwner /\ faults' \in 0 .. MaxFaults
      <3>1. UNCHANGED bounds \/ Fault
            \/ (commands < MaxOwner /\ commands' = commands + 1 /\ UNCHANGED faults)
        BY <1>6 DEF Owner, AsksStop, StopKills, StopMarks, StopFails, AsksStart, StartKickstarts,
           StartClears, Command
      <3>2. QED
        BY <3>1, BoundsTyped, DayAssumption DEF ClockTyped
    <2>2. /\ UNCHANGED <<now, checked, at, acted>>
          /\ owner' \in {"idle", "stop", "mark", "start", "clear"}
          /\ stopped' = stopped \/ stopped' = TRUE \/ stopped' = FALSE
          /\ raced' = raced \/ raced' = TRUE
          /\ well' = well \/ well' = now
      BY <1>6 DEF Owner, AsksStop, StopKills, StopMarks, StopFails, AsksStart, StartKickstarts,
         StartClears, Command, ext
    <2>3. well' \in 0 .. EOD
      BY <1>1, <2>2 DEF ClockTyped
    <2>4. QED
      BY <2>1, <2>2, <2>3 DEF ClockTyped
  <1>7. CASE Tick
    <2>1. /\ now < EOD /\ now' = now + 1 /\ checked' = FALSE
          /\ UNCHANGED <<stopped, at, acted, owner, raced, commands, faults>>
          /\ well' = well \/ well' = now + 1
      BY <1>7 DEF Tick, ext, bounds
    <2>2. now' \in 0 .. EOD /\ well' \in 0 .. EOD
      BY <1>1, <2>1, DayAssumption DEF ClockTyped
    <2>3. QED
      BY <2>1, <2>2 DEF ClockTyped
  <1>8. CASE UNCHANGED vars
    BY <1>2, <1>8 DEF vars, ext
  <1>9. QED
    BY <1>3, <1>4, <1>5, <1>6, <1>7, <1>8 DEF Next, Over

\* recover_state.json: only an attempt writes it, and one is left where it does.
LEMMA RecKeeps ==
  ASSUME IInv, ClockTyped, RecTyped, [Next]_vars, Len(rows) \in Nat, Len(rows') \in Nat,
         Len(rows) <= Len(rows')
  PROVE  RecTyped'
  <1>1. CASE RecoverRecords
    <2>1. rec' = [count |-> rec.count + 1, last |-> now, row |-> Len(rows)]
          /\ rec.count < RECOVER_MAX /\ rec.count \in Nat
      BY <1>1 DEF RecoverRecords, Attempt, IInv, Judged, AttemptsLeft, Counted
    <2> DEFINE c == rec.count + 1
               n == Len(rows)
    <2>2. c \in 0 .. RECOVER_MAX /\ now \in None .. EOD /\ n \in Nat /\ n <= Len(rows')
      BY <2>1, DayAssumption DEF ClockTyped, None
    <2>3. rec' = [count |-> c, last |-> now, row |-> n]
      BY <2>1
    <2> HIDE DEF c, n
    <2>4. QED
      BY <2>2, <2>3 DEF RecTyped
  <1>2. CASE rec' = rec
    BY <1>2 DEF RecTyped
  <1>3. QED
    <2>1. rec' = rec \/ RecoverRecords
      BY DEF Next, Calendar, Runner, Boots, BootEnds, Skips, Decides, FallsQuiet, Revives,
         Aborts, Closes, Crashes, Ends, Health, Recover, RecoverChecks, RecoverKills,
         RecoverWaits, RecoverKickstarts, RecoverFails, Owner, AsksStop, StopKills, StopMarks,
         StopFails, AsksStart, StartKickstarts, StartClears, Tick, Over, ext, vars
    <2>2. QED
      BY <1>1, <1>2, <2>1

TypeInv == IInv /\ ClockTyped /\ RunnerTyped /\ RecTyped

LEMMA TypeInvHolds == Spec => []TypeInv
  <1>1. Init => TypeInv
    <2> SUFFICES ASSUME Init PROVE TypeInv
      OBVIOUS
    <2>1. /\ now = 0 /\ checked = FALSE /\ job = "off" /\ run = NoRun /\ rows = <<>>
          /\ stopped = FALSE /\ rec = [count |-> 0, last |-> None, row |-> 0] /\ at = "idle"
          /\ owner = "idle" /\ acted = {} /\ raced = FALSE /\ well = 0
          /\ commands = 0 /\ faults = 0
      BY DEF Init
    <2>2. NoRun \in Runs /\ NoRun.row = 0
      BY DEF NoRun, Runs, Senders
    <2>3. rows \in Seq(Rows) /\ Len(rows) = 0
      BY <2>1
    <2>4. RunnerTyped
      BY <2>1, <2>2, <2>3 DEF RunnerTyped
    <2>5. 0 \in 0 .. EOD /\ 0 \in 0 .. MaxOwner /\ 0 \in 0 .. MaxFaults
          /\ 0 \in 0 .. RECOVER_MAX /\ None \in None .. EOD
      BY DayAssumption DEF None
    <2>6. checked \in BOOLEAN /\ stopped \in BOOLEAN /\ raced \in BOOLEAN
      BY <2>1, Zenon
    <2>7. ClockTyped
      BY <2>1, <2>5, <2>6, Zenon DEF ClockTyped
    <2>8. RecTyped
      BY <2>1, <2>3, <2>5 DEF RecTyped
    <2>9. QED
      BY <2>4, <2>7, <2>8, InvInit DEF TypeInv
  <1>2. TypeInv /\ [Next]_vars => TypeInv'
    <2> SUFFICES ASSUME TypeInv, [Next]_vars PROVE TypeInv'
      OBVIOUS
    <2>1. IInv' /\ ClockTyped'
      BY Inductive, ClockKeeps DEF TypeInv
    <2>2. RunnerTyped' /\ Len(rows) <= Len(rows')
      BY RunnerKeeps, OthersKeep DEF TypeInv, Next, Over
    <2>3. Len(rows) \in Nat /\ Len(rows') \in Nat
      BY <2>2 DEF TypeInv, RunnerTyped
    <2>4. RecTyped'
      BY <2>2, <2>3, RecKeeps DEF TypeInv
    <2>5. QED
      BY <2>1, <2>2, <2>4 DEF TypeInv
  <1>3. QED
    BY <1>1, <1>2, PTL DEF Spec

\* Every variable has its type, and recover_state.json never counts more than
\* RECOVER_MAX attempts: there is one left wherever recover writes it.
THEOREM TypeCorrect == Spec => []TypeOK
  <1>1. TypeInv => TypeOK
    <2> SUFFICES ASSUME TypeInv PROVE TypeOK
      OBVIOUS
    <2>1. Len(rows) \in Nat
      BY DEF TypeInv, RunnerTyped
    <2>2. run \in [mode : {"none", "starting", "replay", "ok", "quiet", "hung"},
                   row : 0 .. Len(rows), term : {"none", "recover", "owner"}]
      BY <2>1 DEF TypeInv, RunnerTyped, Runs, Senders
    <2>3. rec \in [count : 0 .. RECOVER_MAX, last : None .. EOD, row : 0 .. Len(rows)]
      BY <2>1 DEF TypeInv, RecTyped
    <2>4. rows \in Seq([status : {"running", "skipped", "aborted", "crashed", "done"},
                        started : 0 .. EOD, hb : 0 .. EOD, dec : None .. EOD,
                        by : {"none", "recover", "owner"}])
      BY DEF TypeInv, RunnerTyped, Rows, Statuses, Senders
    <2>5. QED
      BY <2>2, <2>3, <2>4 DEF TypeInv, ClockTyped, RunnerTyped, TypeOK
  <1>2. QED
    BY <1>1, TypeInvHolds, PTL
-----------------------------------------------------------------------------
(* A day that is down is attempted again.                                  *)

Since == now - well
Due   == Patience + (1 + STALL_S) * faults

\* The property is about the window, and a recover that has attempts.
Open == rec.count < RECOVER_MAX /\ now <= CHECK_UNTIL

\* The clock of `well`: recover's attempts and the owner's starts move it, so
\* it is not behind a session's start.
Dated ==
  /\ well <= now /\ (now <= CHECK_FROM => well = now) /\ (CHECK_FROM <= now => CHECK_FROM <= well)
  /\ rec.last <= well /\ (rec.last = None => rec.row = 0)
  /\ at \in {"kill", "wait", "kick"} => well = now
  /\ job = "boot" => well = now \/ owner = "clear"
  /\ rows # <<>> => /\ Latest.started <= now /\ Latest.dec <= now
                    /\ owner = "clear" \/ Latest.started <= well

\* The process owns the latest row or none, and a loop hung for a fault; who
\* ended it for the owner also marks the day.
Owned ==
  /\ job # "up" => run = NoRun
  /\ run.row # 0 => run.row = Len(rows) /\ Latest.status = "running"
  /\ run.mode = "hung" => faults >= 1
  /\ run.term = "owner" => stopped \/ owner = "mark"
  /\ owner \in {"start", "clear"} => run.term # "owner"

\* Nothing is on its way that settles this tick.
Settled == checked /\ at = "idle" /\ owner \notin {"mark", "clear"} /\ ~NotRecovers

\* A row that decided, of a session that does not decide now.
Fallen ==
  /\ rows # <<>> /\ Latest.status = "running" /\ Latest.started <= Latest.dec
  /\ ~(job = "up" /\ run.mode = "ok" /\ run.row = Len(rows))

\* The down time is within d: one more before the check, and one that decided has
\* until it counts as stalled.
Within(d) ==
  /\ Since <= 1 + d
  /\ Settled => Since <= d
  /\ Fallen => Since <= now - Latest.dec + d - STALL_S

\* A session that recover asked to end and that hangs has a fault of its own.
Retried ==
  Open => /\ Within(Due)
          /\ run.term = "recover" => well = now \/ (faults >= 1 /\ Within(Due - 1))

RetryInv == Dated /\ Owned /\ Retried

LEMMA PatienceBounds ==
  /\ Patience \in Nat /\ MISSING_AFTER - CHECK_FROM <= Patience
  /\ RECOVER_COOLDOWN_S <= Patience /\ GRACE_S <= Patience /\ CATCH_UP_MAX_S <= Patience
  BY DayAssumption DEF Patience, Later

\* A fault buys a check and the age of a stall.
LEMMA FeeBounds ==
  ASSUME NEW f \in Nat
  PROVE  /\ (1 + STALL_S) * f \in Nat
         /\ f >= 1 => 1 + STALL_S <= (1 + STALL_S) * f
         /\ (1 + STALL_S) * (f + 1) = (1 + STALL_S) * f + 1 + STALL_S
  <1> DEFINE s == 1 + STALL_S
  <1>1. s \in Nat
    BY DayAssumption
  <1>2. s * (f + 1) = s * f + s /\ s * f \in Nat
    BY <1>1
  <1>3. f >= 1 => s <= s * f
    <2> SUFFICES ASSUME f >= 1 PROVE s <= s * f
      OBVIOUS
    <2>1. f - 1 \in Nat /\ f = (f - 1) + 1
      OBVIOUS
    <2>2. s * ((f - 1) + 1) = s * (f - 1) + s /\ s * (f - 1) \in Nat
      BY <1>1, <2>1
    <2>3. QED
      BY <1>1, <2>1, <2>2
  <1>4. QED
    BY <1>1, <1>2, <1>3, DayAssumption

LEMMA Sizes ==
  ASSUME TypeInv
  PROVE  /\ now \in Nat /\ well \in Nat /\ faults \in Nat /\ Len(rows) \in Nat
         /\ rec.count \in Nat /\ rec.last \in Int /\ rec.row \in Nat
         /\ Due \in Nat /\ Since \in Int /\ Patience <= Due
         /\ faults >= 1 => Patience + 1 + STALL_S <= Due
         /\ rows # <<>> => Len(rows) # 0 /\ Latest \in Rows
         /\ rows # <<>> => Latest.started \in Nat /\ Latest.dec \in Int
  <1>1. /\ now \in Nat /\ well \in Nat /\ faults \in Nat /\ Len(rows) \in Nat
        /\ rec.count \in Nat /\ rec.last \in Int /\ rec.row \in Nat
    BY DayAssumption DEF TypeInv, ClockTyped, RunnerTyped, RecTyped, None
  <1>2. /\ Due \in Nat /\ Since \in Int /\ Patience <= Due
        /\ faults >= 1 => Patience + 1 + STALL_S <= Due
    BY <1>1, PatienceBounds, FeeBounds, DayAssumption DEF Due, Since
  <1>3. rows # <<>> => Len(rows) # 0 /\ Latest \in Rows
    BY DEF TypeInv, RunnerTyped, Latest
  <1>4. rows # <<>> => Latest.started \in Nat /\ Latest.dec \in Int
    BY <1>3, DayAssumption DEF Rows, None
  <1>5. QED
    BY <1>1, <1>2, <1>3, <1>4

-----------------------------------------------------------------------------
(* What the runner's steps do to the latest row.                           *)

LEMMA LatestPut ==
  ASSUME TypeInv, rows # <<>>, NEW e, rows' = [rows EXCEPT ![Len(rows)] = e]
  PROVE  rows' # <<>> /\ Len(rows') = Len(rows) /\ Latest' = e
  <1>1. rows \in Seq(Rows) /\ Len(rows) \in DOMAIN rows /\ Len(rows) # 0
    BY DEF TypeInv, RunnerTyped
  <1>2. Len(rows') = Len(rows) /\ rows'[Len(rows)] = e
    BY <1>1
  <1>3. QED
    BY <1>1, <1>2 DEF Latest

LEMMA BootsRow ==
  ASSUME TypeInv, Boots
  PROVE  \/ rows' = rows
         \/ rows' # <<>> /\ Latest' = Row("running")
  <1>1. CASE rows' = WithRow(Row("running"))
    <2> DEFINE r == Row("running")
    <2>1. rows \in Seq(Rows)
      BY DEF TypeInv, RunnerTyped
    <2>2. rows' = <<r>> \/ rows' = Append(rows, r)
      BY <1>1 DEF WithRow
    <2> HIDE DEF r
    <2>3. Len(Append(rows, r)) = Len(rows) + 1 /\ Append(rows, r)[Len(rows) + 1] = r
      BY <2>1
    <2>4. rows' # <<>> /\ rows'[Len(rows')] = r
      <3>1. CASE rows' = <<r>>
        BY <3>1
      <3>2. CASE rows' = Append(rows, r)
        BY <2>1, <2>3, <3>2
      <3>3. QED
        BY <2>2, <3>1, <3>2
    <2>5. QED
      BY <2>4 DEF r, Latest
  <1>2. QED
    BY <1>1 DEF Boots

LEMMA SkipsRow ==
  ASSUME TypeInv, Skips
  PROVE  \/ rows' = rows
         \/ rows' # <<>> /\ Latest' = Row("skipped")
  <1>1. rows' = rows \/ rows' = <<Row("skipped")>>
    BY DEF Skips
  <1>2. QED
    BY <1>1 DEF Latest

\* The first decision, and a loop that comes back.
LEMMA DecidesRow ==
  ASSUME TypeInv, Owned, Decides \/ Revives
  PROVE  \/ run.row = 0 /\ rows' = rows
         \/ /\ run.row = Len(rows) /\ rows # <<>> /\ rows' # <<>> /\ Len(rows') = Len(rows)
            /\ Latest'.status = Latest.status /\ Latest'.started = Latest.started
            /\ Latest'.dec = now
  <1>1. CASE run.row = 0
    BY <1>1 DEF Decides, Revives
  <1>2. CASE run.row # 0
    <2> DEFINE n == Len(rows)
    <2>1. run.row = n /\ rows # <<>> /\ n \in Nat
      BY <1>2 DEF Owned, TypeInv, RunnerTyped
    <2>2. Latest \in Rows /\ n \in DOMAIN rows
      BY <2>1, Sizes DEF TypeInv, RunnerTyped
    <2> DEFINE d == [Latest EXCEPT !.dec = now]
               h == [d EXCEPT !.hb = now]
    <2>3. d.status = Latest.status /\ d.started = Latest.started /\ d.dec = now
          /\ h.status = d.status /\ h.started = d.started /\ h.dec = d.dec
      BY <2>2 DEF Rows
    <2>4. rows' = [rows EXCEPT ![n] = d] \/ rows' = [rows EXCEPT ![n] = h]
      <3>1. CASE Decides
        BY <1>2, <2>1, <3>1 DEF Decides, Latest
      <3>2. CASE Revives
        <4>1. rows' = [rows EXCEPT ![n].dec = now, ![n].hb = now]
          BY <1>2, <2>1, <3>2 DEF Revives
        <4>2. QED
          BY <2>2, <4>1 DEF Latest
      <3>3. QED
        BY <3>1, <3>2
    <2> HIDE DEF d, h
    <2>5. rows' # <<>> /\ Len(rows') = n /\ (Latest' = d \/ Latest' = h)
      BY <2>1, <2>4, LatestPut
    <2>6. QED
      BY <2>1, <2>3, <2>5
  <1>3. QED
    BY <1>1, <1>2

\* The end of a session.
LEMMA EndsRow ==
  ASSUME TypeInv, Owned, Aborts \/ Closes \/ Crashes
  PROVE  \/ rows' = rows /\ (run.row = 0 \/ Fault)
         \/ /\ rows # <<>> /\ rows' # <<>> /\ Len(rows') = Len(rows)
            /\ Latest'.status # "running" /\ Latest'.started = Latest.started
            /\ Latest'.dec = Latest.dec
  <1>1. CASE run.row = 0
    BY <1>1 DEF Aborts, Closes, Crashes, Ends
  <1>2. CASE run.row # 0
    <2> DEFINE n == Len(rows)
    <2>1. run.row = n /\ rows # <<>> /\ n \in Nat
      BY <1>2 DEF Owned, TypeInv, RunnerTyped
    <2>2. Latest \in Rows /\ n \in DOMAIN rows
      BY <2>1, Sizes DEF TypeInv, RunnerTyped
    <2>3. ASSUME NEW s \in {"aborted", "done", "crashed"},
                 \/ rows' = [rows EXCEPT ![n].status = s, ![n].hb = now, ![n].by = run.term]
                 \/ rows' = [rows EXCEPT ![n].status = s, ![n].hb = now]
          PROVE  /\ rows # <<>> /\ rows' # <<>> /\ Len(rows') = Len(rows)
                 /\ Latest'.status # "running" /\ Latest'.started = Latest.started
                 /\ Latest'.dec = Latest.dec
      <3> DEFINE d == [Latest EXCEPT !.status = s]
                 h == [d EXCEPT !.hb = now]
                 b == [h EXCEPT !.by = run.term]
      <3>1. d.status = s /\ d.started = Latest.started /\ d.dec = Latest.dec
        BY <2>2 DEF Rows
      <3>2. h.status = d.status /\ h.started = d.started /\ h.dec = d.dec
        BY <2>2 DEF Rows
      <3>3. b.status = h.status /\ b.started = h.started /\ b.dec = h.dec
        BY <2>2 DEF Rows
      <3>4. rows' = [rows EXCEPT ![n] = h] \/ rows' = [rows EXCEPT ![n] = b]
        BY <2>2, <2>3 DEF Latest
      <3> HIDE DEF d, h, b
      <3>5. rows' # <<>> /\ Len(rows') = n /\ (Latest' = h \/ Latest' = b)
        BY <2>1, <3>4, LatestPut
      <3>6. QED
        BY <2>1, <3>1, <3>2, <3>3, <3>5
    <2>4. \/ rows' = rows /\ Fault
          \/ \E s \in {"aborted", "done", "crashed"} :
               \/ rows' = [rows EXCEPT ![n].status = s, ![n].hb = now, ![n].by = run.term]
               \/ rows' = [rows EXCEPT ![n].status = s, ![n].hb = now]
      BY <1>2, <2>1 DEF Aborts, Closes, Crashes, Ends, Fault
    <2>5. QED
      BY <2>3, <2>4
  <1>3. QED
    BY <1>1, <1>2

\* A tick: a row that is written belongs to a loop that beats.
LEMMA TickRow ==
  ASSUME TypeInv, Owned, Tick
  PROVE  \/ rows' = rows /\ (job # "up" \/ run.row = 0 \/ run.mode = "hung")
         \/ /\ run.row = Len(rows) /\ rows # <<>> /\ rows' # <<>> /\ Len(rows') = Len(rows)
            /\ Latest'.status = Latest.status /\ Latest'.started = Latest.started
            /\ run.mode = "ok" => Latest'.dec = now + 1
            /\ run.mode = "replay" => Latest'.dec = Latest.started - 1
            /\ run.mode \notin {"ok", "replay"} => Latest'.dec = Latest.dec
  <1>1. CASE job # "up" \/ run.row = 0 \/ run.mode = "hung"
    BY <1>1 DEF Tick
  <1>2. CASE ~(job # "up" \/ run.row = 0 \/ run.mode = "hung")
    <2> DEFINE n == Len(rows)
    <2>1. run.row = n /\ rows # <<>> /\ n \in Nat
      BY <1>2 DEF Owned, TypeInv, RunnerTyped
    <2>2. Latest \in Rows /\ n \in DOMAIN rows
      BY <2>1, Sizes DEF TypeInv, RunnerTyped
    <2> DEFINE v == CASE run.mode = "ok"     -> now + 1
                      [] run.mode = "replay" -> rows[n].started - 1
                      [] OTHER -> rows[n].dec
               d == [Latest EXCEPT !.hb = now + 1]
               h == [d EXCEPT !.dec = v]
    <2>3. d.status = Latest.status /\ d.started = Latest.started
      BY <2>2 DEF Rows
    <2>4. h.status = d.status /\ h.started = d.started /\ h.dec = v
      BY <2>2 DEF Rows
    <2>5. rows' = [rows EXCEPT ![n] = h]
      <3>1. rows' = [rows EXCEPT ![n].hb = now + 1,
                       ![n].dec = CASE run.mode = "ok"     -> now + 1
                                    [] run.mode = "replay" -> rows[n].started - 1
                                    [] OTHER -> @]
        BY <1>2, <2>1 DEF Tick
      <3>2. QED
        BY <2>2, <3>1 DEF Latest
    <2>6. /\ run.mode = "ok" => v = now + 1
          /\ run.mode = "replay" => v = Latest.started - 1
          /\ run.mode \notin {"ok", "replay"} => v = Latest.dec
      BY DEF Latest
    <2> HIDE DEF v, d, h
    <2>7. rows' # <<>> /\ Len(rows') = n /\ Latest' = h
      BY <2>1, <2>5, LatestPut
    <2>8. QED
      BY <2>1, <2>3, <2>4, <2>6, <2>7
  <1>3. QED
    BY <1>1, <1>2

\* A SIGTERM ends a job that boots, and is kept by one that runs.
LEMMA TermSent ==
  ASSUME TypeInv, NEW who, Terminated(who)
  PROVE  /\ rows' = rows
         /\ \/ job = "boot" /\ job' = "off" /\ run' = run
            \/ /\ job = "up" /\ job' = job /\ run'.row = run.row /\ run'.mode = run.mode
               /\ run'.term = IF run.term = "none" THEN who ELSE run.term
  <1>1. run \in Runs /\ job \in {"off", "boot", "up"}
    BY DEF TypeInv, RunnerTyped
  <1>2. QED
    BY <1>1 DEF Terminated, Running, Runs

\* What is left of Owned when the process and the row stay.
LEMMA OwnedFrame ==
  ASSUME Owned, UNCHANGED <<run, rows>>, job' = job \/ job # "up", faults <= faults',
         job' = "up" => job = "up", faults \in Nat, faults' \in Nat,
         run.term = "owner" => stopped' \/ owner' = "mark",
         owner' \in {"start", "clear"} => run.term # "owner"
  PROVE  Owned'
  BY DEF Owned, NoRun, Latest

LEMMA OwnedKeeps ==
  ASSUME TypeInv, TypeInv', Owned, [Next]_vars
  PROVE  Owned'
  <1>1. faults \in Nat /\ faults' \in Nat /\ run \in Runs /\ Len(rows) \in Nat
    <2>1. faults' \in Nat
      BY DEF TypeInv, ClockTyped
    <2>2. QED
      BY <2>1, Sizes DEF TypeInv, RunnerTyped
  <1>2. faults <= faults'
    <2>1. CASE Calendar \/ Runner
      <3>1. UNCHANGED bounds \/ Fault
        BY <2>1 DEF Calendar, Runner, Boots, BootEnds, Skips, Decides, FallsQuiet, Revives,
           Aborts, Closes, Crashes, Ends, Fault
      <3>2. QED
        BY <1>1, <3>1 DEF Fault, bounds
    <2>2. CASE Health \/ Recover
      BY <1>1, <2>2 DEF Health, Recover, RecoverChecks, RecoverRecords, RecoverKills,
         RecoverWaits, RecoverKickstarts, RecoverFails, Fault, bounds
    <2>3. CASE Owner
      BY <1>1, <2>3 DEF Owner, AsksStop, StopKills, StopMarks, StopFails, AsksStart,
         StartKickstarts, StartClears, Command, Fault, bounds
    <2>4. CASE Tick \/ Over \/ UNCHANGED vars
      BY <1>1, <2>4 DEF Tick, Over, bounds, vars
    <2>5. QED
      BY <2>1, <2>2, <2>3, <2>4 DEF Next
  <1>3. NoRun.row = 0 /\ NoRun.mode = "none" /\ NoRun.term = "none"
    BY DEF NoRun
  <1>4. ASSUME UNCHANGED <<job, run, rows, stopped, owner>> PROVE Owned'
    BY <1>1, <1>2, <1>4, OwnedFrame DEF Owned
  <1>5. CASE Calendar
    BY <1>1, <1>2, <1>5, OwnedFrame DEF Calendar, Kickstarted, Running, Owned
  <1>6. CASE Boots
    <2>1. /\ job' = "up" /\ UNCHANGED <<stopped, owner>>
          /\ run'.row = (IF rows' = rows THEN 0 ELSE Len(rows')) /\ run'.term = "none"
          /\ run'.mode \in {"starting", "replay"}
      BY <1>6 DEF Boots
    <2>2. run'.row # 0 => Latest'.status = "running"
      BY <1>6, <2>1, BootsRow DEF Row
    <2>3. QED
      BY <2>1, <2>2 DEF Owned
  <1>7. CASE BootEnds
    BY <1>1, <1>2, <1>7, OwnedFrame DEF BootEnds, Owned
  <1>8. CASE Skips
    <2>1. job = "boot" /\ job' = "off" /\ UNCHANGED <<run, stopped, owner>>
      BY <1>8 DEF Skips
    <2>2. QED
      BY <1>3, <2>1 DEF Owned
  <1>9. CASE Decides \/ Revives
    <2>1. /\ job = "up" /\ job' = job /\ UNCHANGED <<stopped, owner>>
          /\ run'.mode = "ok" /\ run'.row = run.row /\ run'.term = run.term
      BY <1>1, <1>9 DEF Decides, Revives, Runs
    <2>2. run'.row # 0 => run'.row = Len(rows') /\ Latest'.status = "running"
      BY <1>9, <2>1, DecidesRow DEF Owned, Latest
    <2>3. QED
      BY <2>1, <2>2 DEF Owned
  <1>10. CASE FallsQuiet
    <2>1. /\ job = "up" /\ job' = job /\ UNCHANGED <<rows, stopped, owner>> /\ faults' = faults + 1
          /\ run'.row = run.row /\ run'.term = run.term
      BY <1>1, <1>10 DEF FallsQuiet, Runs, Fault
    <2>2. QED
      BY <1>1, <2>1 DEF Owned, Latest
  <1>11. CASE Aborts \/ Closes \/ Crashes
    <2>1. job' = "off" /\ run' = NoRun /\ UNCHANGED <<stopped, owner>>
      BY <1>11 DEF Aborts, Closes, Crashes, Ends
    <2>2. QED
      BY <1>3, <2>1 DEF Owned
  <1>12. ASSUME NEW who \in {"recover", "owner"}, Terminated(who),
                who = "owner" => owner = "stop" /\ owner' = "mark",
                who = "recover" => UNCHANGED <<stopped, owner>>
         PROVE  Owned'
    <2>1. CASE job = "boot" /\ job' = "off" /\ run' = run
      <3>1. run = NoRun
        BY <2>1 DEF Owned
      <3>2. QED
        BY <1>3, <2>1, <3>1 DEF Owned
    <2>2. CASE /\ job = "up" /\ job' = job /\ run'.row = run.row /\ run'.mode = run.mode
               /\ run'.term = IF run.term = "none" THEN who ELSE run.term
      <3>1. rows' = rows
        BY <1>12, TermSent
      <3>2. run'.row # 0 => run'.row = Len(rows') /\ Latest'.status = "running"
        BY <2>2, <3>1 DEF Owned, Latest
      <3>3. run'.mode = "hung" => faults' >= 1
        BY <1>1, <1>2, <2>2 DEF Owned
      <3>4. run'.term = "owner" => stopped' \/ owner' = "mark"
        BY <1>12, <2>2 DEF Owned
      <3>5. owner' \in {"start", "clear"} => run'.term # "owner"
        BY <1>12, <2>2 DEF Owned
      <3>6. QED
        BY <2>2, <3>2, <3>3, <3>4, <3>5 DEF Owned
    <2>3. QED
      BY <1>12, <2>1, <2>2, TermSent
  <1>13. CASE Health \/ RecoverChecks \/ RecoverRecords \/ RecoverWaits
    BY <1>4, <1>13 DEF Health, RecoverChecks, RecoverRecords, RecoverWaits, runner
  <1>14. CASE RecoverKills
    BY <1>4, <1>12, <1>14 DEF RecoverKills, runner
  <1>15. ASSUME Kickstarted, UNCHANGED <<run, rows, stopped, owner>> PROVE Owned'
    <2>1. (job' = job \/ job # "up") /\ (job' = "up" => job = "up")
      BY <1>15 DEF Kickstarted, Running
    <2>2. QED
      BY <1>1, <1>2, <1>15, <2>1, OwnedFrame DEF Owned
  <1>16. CASE RecoverKickstarts
    BY <1>15, <1>16 DEF RecoverKickstarts
  <1>17. CASE RecoverFails
    BY <1>4, <1>12, <1>15, <1>17 DEF RecoverFails, runner
  <1>18. CASE AsksStop
    BY <1>1, <1>2, <1>18, OwnedFrame DEF AsksStop, Command, runner, Owned
  <1>19. CASE StopKills
    <2>1. CASE Terminated("owner") /\ owner' = "mark"
      BY <1>12, <1>19, <2>1 DEF StopKills
    <2>2. CASE UNCHANGED runner /\ owner' = "idle"
      BY <1>1, <1>2, <1>19, <2>2, OwnedFrame DEF StopKills, runner, Owned
    <2>3. QED
      BY <1>19, <2>1, <2>2 DEF StopKills
  <1>20. CASE StopMarks
    BY <1>1, <1>2, <1>20, OwnedFrame DEF StopMarks, runner
  <1>21. CASE StopFails
    BY <1>1, <1>2, <1>21, OwnedFrame DEF StopFails, runner, Owned
  <1>22. CASE AsksStart
    <2>1. run = NoRun /\ UNCHANGED <<job, run, rows>>
      BY <1>22 DEF AsksStart, Running, runner, Owned
    <2>2. QED
      BY <1>1, <1>2, <1>3, <2>1, OwnedFrame
  <1>23. CASE StartKickstarts
    <2>1. (job' = job \/ job # "up") /\ (job' = "up" => job = "up")
          /\ UNCHANGED <<run, rows, stopped>> /\ owner = "start" /\ owner' \in {"idle", "clear"}
      BY <1>23 DEF StartKickstarts, Kickstarted, Running
    <2>2. QED
      BY <1>1, <1>2, <2>1, OwnedFrame DEF Owned
  <1>24. CASE StartClears
    BY <1>1, <1>2, <1>24, OwnedFrame DEF StartClears, runner, Owned
  <1>25. CASE Tick
    <2>1. UNCHANGED <<job, run, stopped, owner, faults>>
      BY <1>25 DEF Tick, bounds
    <2>2. run'.row # 0 => run'.row = Len(rows') /\ Latest'.status = "running"
      BY <1>25, <2>1, TickRow DEF Owned, Latest
    <2>3. QED
      BY <2>1, <2>2 DEF Owned
  <1>26. CASE UNCHANGED vars
    BY <1>4, <1>26 DEF vars, runner
  <1>27. QED
    BY <1>5, <1>6, <1>7, <1>8, <1>9, <1>10, <1>11, <1>13, <1>14, <1>16, <1>17, <1>18, <1>19,
       <1>20, <1>21, <1>22, <1>23, <1>24, <1>25, <1>26 DEF Next, Runner, Recover, Owner, Over

LEMMA DatedFrame ==
  ASSUME TypeInv, Dated, UNCHANGED <<now, rec>>, well' = well \/ well' = now,
         at' \in {"kill", "wait", "kick"} => at \in {"kill", "wait", "kick"} \/ well' = now,
         job' = "boot" => job = "boot" \/ owner' = "clear" \/ well' = now,
         owner = "clear" => owner' = "clear" \/ well' = now,
         \/ rows' = rows
         \/ /\ rows' # <<>> /\ Latest'.started = now /\ Latest'.dec = None
            /\ well = now \/ owner' = "clear"
         \/ /\ rows # <<>> /\ Latest'.started = Latest.started
            /\ Latest'.dec \in {Latest.dec, now}
  PROVE  Dated'
  <1>1. now \in Nat /\ well \in Nat /\ rec.last \in Int
        /\ (rows # <<>> => Latest.started \in Nat /\ Latest.dec \in Int)
    BY Sizes
  <1>2. /\ well' <= now' /\ (now' <= CHECK_FROM => well' = now')
        /\ (CHECK_FROM <= now' => CHECK_FROM <= well')
        /\ rec'.last <= well' /\ (rec'.last = None => rec'.row = 0)
    BY <1>1 DEF Dated
  <1>3. at' \in {"kill", "wait", "kick"} => well' = now'
    BY DEF Dated
  <1>4. job' = "boot" => well' = now' \/ owner' = "clear"
    BY DEF Dated
  <1>5. rows' # <<>> => /\ Latest'.started <= now' /\ Latest'.dec <= now'
                        /\ owner' = "clear" \/ Latest'.started <= well'
    <2>1. CASE rows' = rows
      <3>1. rows' # <<>> => Latest' = Latest /\ rows # <<>>
        BY <2>1 DEF Latest
      <3>2. well <= well'
        BY <1>1 DEF Dated
      <3>3. QED
        BY <1>1, <3>1, <3>2 DEF Dated
    <2>2. CASE rows' # <<>> /\ Latest'.started = now /\ Latest'.dec = None
               /\ (well = now \/ owner' = "clear")
      BY <1>1, <2>2 DEF None
    <2>3. CASE rows # <<>> /\ Latest'.started = Latest.started /\ Latest'.dec \in {Latest.dec, now}
      <3>1. well <= well'
        BY <1>1 DEF Dated
      <3>2. QED
        BY <1>1, <2>3, <3>1 DEF Dated
    <2>4. QED
      BY <2>1, <2>2, <2>3
  <1>6. QED
    BY <1>2, <1>3, <1>4, <1>5 DEF Dated

LEMMA DatedKeeps ==
  ASSUME TypeInv, Dated, Owned, [Next]_vars
  PROVE  Dated'
  <1>1. ASSUME UNCHANGED <<now, rec, well, job, rows>>,
               at' \in {"kill", "wait", "kick"} => at \in {"kill", "wait", "kick"},
               owner = "clear" => owner' = "clear"
        PROVE  Dated'
    BY <1>1, DatedFrame
  <1>2. CASE Calendar
    <2>1. well = now /\ UNCHANGED <<now, rec, well, at, rows, owner>>
      BY <1>2, DayAssumption DEF Calendar, ext, Dated
    <2>2. QED
      BY <2>1, DatedFrame
  <1>3. CASE Boots
    <2>1. job = "boot" /\ job' = "up" /\ UNCHANGED <<now, rec, well, at, owner>>
      BY <1>3 DEF Boots, ext
    <2>2. \/ rows' = rows
          \/ rows' # <<>> /\ Latest'.started = now /\ Latest'.dec = None
      BY <1>3, BootsRow DEF Row
    <2>3. QED
      BY <2>1, <2>2, DatedFrame DEF Dated
  <1>4. CASE Skips
    <2>1. job = "boot" /\ job' = "off" /\ UNCHANGED <<now, rec, well, at, owner>>
      BY <1>4 DEF Skips, ext
    <2>2. \/ rows' = rows
          \/ rows' # <<>> /\ Latest'.started = now /\ Latest'.dec = None
      BY <1>4, SkipsRow DEF Row
    <2>3. QED
      BY <2>1, <2>2, DatedFrame DEF Dated
  <1>5. CASE BootEnds
    <2>1. job' # "boot" /\ UNCHANGED <<now, rec, well, at, owner, rows>>
      BY <1>5 DEF BootEnds, ext
    <2>2. QED
      BY <2>1, DatedFrame
  <1>6. CASE Decides \/ Revives
    <2>1. job' # "boot" /\ UNCHANGED <<now, rec, well, at, owner>>
      BY <1>6 DEF Decides, Revives, ext
    <2>2. QED
      BY <1>6, <2>1, DecidesRow, DatedFrame
  <1>7. CASE FallsQuiet
    BY <1>1, <1>7 DEF FallsQuiet, ext
  <1>8. CASE Aborts \/ Closes \/ Crashes
    <2>1. job' # "boot" /\ UNCHANGED <<now, rec, well, at, owner>>
      BY <1>8 DEF Aborts, Closes, Crashes, Ends, ext
    <2>2. QED
      BY <1>8, <2>1, EndsRow, DatedFrame
  <1>9. CASE Health \/ RecoverChecks \/ RecoverWaits
    BY <1>1, <1>9 DEF Health, RecoverChecks, RecoverWaits, runner
  <1>10. CASE RecoverRecords
    <2>1. /\ rec'.last = now /\ UNCHANGED <<now, job, rows, owner>> /\ well' = now
      BY <1>10 DEF RecoverRecords, Attempt, runner
    <2>2. now \in Nat /\ well \in Nat /\ (rows # <<>> => Latest.started \in Nat)
      BY Sizes
    <2>3. rows' # <<>> => Latest' = Latest
      BY <2>1 DEF Latest
    <2>4. /\ well' <= now' /\ (now' <= CHECK_FROM => well' = now')
          /\ (CHECK_FROM <= now' => CHECK_FROM <= well')
          /\ rec'.last <= well' /\ rec'.last # None
      BY <2>1, <2>2 DEF Dated, None
    <2>5. rows' # <<>> => /\ Latest'.started <= now' /\ Latest'.dec <= now'
                          /\ owner' = "clear" \/ Latest'.started <= well'
      BY <2>1, <2>2, <2>3 DEF Dated
    <2>6. QED
      BY <2>1, <2>4, <2>5 DEF Dated
  <1>11. ASSUME Terminated("recover") \/ Terminated("owner"), UNCHANGED <<now, rec, well>>,
                at' \in {"kill", "wait", "kick"} => at \in {"kill", "wait", "kick"},
                owner # "clear" \/ owner' = "clear"
         PROVE  Dated'
    <2>1. rows' = rows /\ (job' = "boot" => job = "boot")
      BY <1>11, TermSent
    <2>2. QED
      BY <1>11, <2>1, DatedFrame
  <1>12. CASE RecoverKills
    BY <1>1, <1>11, <1>12 DEF RecoverKills, runner
  <1>13. CASE RecoverKickstarts
    <2>1. at = "kick" /\ at' = "idle" /\ UNCHANGED <<now, rec, well, owner, rows>>
      BY <1>13 DEF RecoverKickstarts
    <2>2. well' = now
      BY <2>1 DEF Dated
    <2>3. QED
      BY <2>1, <2>2, DatedFrame
  <1>14. CASE RecoverFails
    <2>1. CASE UNCHANGED runner
      BY <1>1, <1>14, <2>1 DEF RecoverFails, runner
    <2>2. CASE at = "kill" /\ Terminated("recover")
      BY <1>11, <1>14, <2>2 DEF RecoverFails
    <2>3. CASE at = "kick" /\ Kickstarted /\ UNCHANGED <<run, rows>>
      <3>1. at' = "idle" /\ UNCHANGED <<now, rec, well, owner, rows>>
        BY <1>14, <2>3 DEF RecoverFails
      <3>2. well' = now
        BY <2>3, <3>1 DEF Dated
      <3>3. QED
        BY <3>1, <3>2, DatedFrame
    <2>4. QED
      BY <1>14, <2>1, <2>2, <2>3 DEF RecoverFails
  <1>15. CASE AsksStop \/ AsksStart
    BY <1>1, <1>15 DEF AsksStop, AsksStart, Command, runner, ext
  <1>16. CASE StopKills
    BY <1>1, <1>11, <1>16 DEF StopKills, runner, ext
  <1>17. CASE StopMarks \/ StopFails
    BY <1>1, <1>17 DEF StopMarks, StopFails, runner, ext
  <1>18. CASE StartKickstarts
    <2>1. /\ UNCHANGED <<now, rec, well, at, rows>> /\ owner = "start"
          /\ owner' = "clear" \/ job' = job
      BY <1>18 DEF StartKickstarts, ext
    <2>2. QED
      BY <2>1, DatedFrame
  <1>19. CASE StartClears
    <2>1. UNCHANGED <<now, rec, at, rows>> /\ well' = now
      BY <1>19 DEF StartClears, runner, ext
    <2>2. QED
      BY <2>1, DatedFrame
  <1>20. CASE Tick
    <2>1. /\ now' = now + 1 /\ UNCHANGED <<rec, at, job, owner>> /\ at = "idle" /\ job # "boot"
          /\ owner = "idle" /\ well' = IF NotRecovers THEN now + 1 ELSE well
      BY <1>20 DEF Tick, ext
    <2>2. now \in Nat /\ well \in Nat /\ rec.last \in Int
          /\ (rows # <<>> => Latest.started \in Nat /\ Latest.dec \in Int)
      BY Sizes
    <2>3. well <= well' /\ well' <= now'
      BY <2>1, <2>2 DEF Dated
    <2>4. /\ (now' <= CHECK_FROM => well' = now')
          /\ (CHECK_FROM <= now' => CHECK_FROM <= well')
      <3>1. now < CHECK_FROM => NotRecovers
        BY DEF NotRecovers
      <3>2. QED
        BY <2>1, <2>2, <3>1, DayAssumption DEF Dated
    <2>5. rec'.last <= well' /\ (rec'.last = None => rec'.row = 0)
      BY <2>1, <2>2, <2>3 DEF Dated, TypeInv, ClockTyped
    <2>6. rows' # <<>> => /\ Latest'.started <= now' /\ Latest'.dec <= now'
                          /\ Latest'.started <= well'
      <3>1. CASE rows' = rows
        <4>1. rows' # <<>> => Latest' = Latest /\ rows # <<>>
          BY <3>1 DEF Latest
        <4>2. QED
          BY <2>1, <2>2, <2>3, <4>1 DEF Dated
      <3>2. CASE /\ rows # <<>> /\ Latest'.started = Latest.started
                 /\ Latest'.dec \in {now + 1, Latest.started - 1, Latest.dec}
        BY <2>1, <2>2, <2>3, <3>2 DEF Dated
      <3>3. QED
        BY <1>20, <3>1, <3>2, TickRow
    <2>7. QED
      BY <2>1, <2>3, <2>4, <2>5, <2>6 DEF Dated
  <1>21. CASE UNCHANGED vars
    BY <1>1, <1>21 DEF vars, runner, ext
  <1>22. QED
    BY <1>2, <1>3, <1>4, <1>5, <1>6, <1>7, <1>8, <1>9, <1>10, <1>12, <1>13, <1>14, <1>15, <1>16,
       <1>17, <1>18, <1>19, <1>20, <1>21 DEF Next, Runner, Recover, Owner, Over

\* The sizes after a step.
LEMMA SizesNext ==
  ASSUME TypeInv'
  PROVE  /\ now' \in Nat /\ well' \in Nat /\ faults' \in Nat /\ rec'.count \in Nat
         /\ rows' # <<>> => Latest'.dec \in Int
  <1>1. /\ now' \in 0 .. EOD /\ well' \in 0 .. EOD /\ faults' \in 0 .. MaxFaults
        /\ rec'.count \in 0 .. RECOVER_MAX
    BY DEF TypeInv, ClockTyped, RecTyped
  <1>2. rows' # <<>> => Latest' \in Rows
    BY DEF TypeInv, RunnerTyped, Latest
  <1>3. rows' # <<>> => Latest'.dec \in Int
    BY <1>2, DayAssumption DEF Rows, None
  <1>4. QED
    BY <1>1, <1>3

\* A fault pays for whatever it does to the process and its row.
LEMMA FaultRetries ==
  ASSUME TypeInv, TypeInv', Dated', Retried, faults' = faults + 1, UNCHANGED <<now, well, rec>>,
         run'.term = "recover" => run.term = "recover" \/ well = now
  PROVE  Retried'
  <1> SUFFICES ASSUME Open'
               PROVE  /\ Within(Due)'
                      /\ run'.term = "recover" =>
                           well' = now' \/ (faults' >= 1 /\ Within(Due - 1)')
    BY DEF Retried
  <1>1. Open
    BY DEF Open
  <1>2. /\ now \in Nat /\ well \in Nat /\ faults \in Nat /\ Due \in Nat
        /\ rows' # <<>> => Latest'.dec \in Int
    BY Sizes, SizesNext
  <1>3. Due' = Due + 1 + STALL_S
    <2>1. (1 + STALL_S) * (faults + 1) = (1 + STALL_S) * faults + 1 + STALL_S
          /\ (1 + STALL_S) * faults \in Nat
      BY <1>2, FeeBounds
    <2>2. Due' = Patience + (1 + STALL_S) * (faults + 1)
      BY DEF Due
    <2>3. QED
      BY <2>1, <2>2, PatienceBounds, DayAssumption DEF Due
  <1>4. Since' = Since /\ Since \in Int
    BY <1>2 DEF Since
  <1>5. rows' # <<>> => Latest'.dec <= now
    BY DEF Dated
  <1>6. ASSUME NEW d \in Int, Since <= 1 + d
        PROVE  /\ Since' <= d + 1 + STALL_S
               /\ Fallen' => Since' <= now' - Latest'.dec + (d + 1 + STALL_S) - STALL_S
    <2>1. Since' <= d + 1 + STALL_S
      BY <1>4, <1>6, DayAssumption
    <2>2. Fallen' => rows' # <<>>
      BY DEF Fallen
    <2>3. QED
      BY <1>2, <1>4, <1>5, <1>6, <2>1, <2>2, DayAssumption
  <1>7. Within(Due)'
    <2>1. Since <= 1 + Due
      BY <1>1 DEF Retried, Within
    <2>2. /\ Since' <= Due'
          /\ Fallen' => Since' <= now' - Latest'.dec + Due' - STALL_S
      BY <1>2, <1>3, <1>6, <2>1
    <2>3. Since' <= 1 + Due'
      BY <1>2, <1>3, <1>4, <2>2, DayAssumption
    <2>4. QED
      BY <2>2, <2>3 DEF Within
  <1>8. ASSUME run'.term = "recover", well # now
        PROVE  faults' >= 1 /\ Within(Due - 1)'
    <2>1. run.term = "recover" /\ Within(Due - 1)
      BY <1>1, <1>8 DEF Retried
    <2> DEFINE d == Due - 1
    <2>2. d \in Int /\ Since <= 1 + d /\ Due' - 1 = d + 1 + STALL_S
      BY <1>2, <1>3, <2>1, DayAssumption DEF Within
    <2> HIDE DEF d
    <2>3. /\ Since' <= Due' - 1
          /\ Fallen' => Since' <= now' - Latest'.dec + (Due' - 1) - STALL_S
      BY <1>6, <2>2
    <2>4. Since' <= 1 + (Due' - 1)
      BY <1>2, <1>3, <1>4, <2>3, DayAssumption
    <2>5. QED
      BY <1>2, <2>3, <2>4 DEF Within
  <1>9. QED
    BY <1>7, <1>8

\* Neither time passes nor a fault happens.
LEMMA StillRetries ==
  ASSUME TypeInv, TypeInv', Dated, Retried, UNCHANGED <<now, well, rec, faults>>,
         Settled' => \/ Settled \/ well = now
                     \/ Open => /\ Since <= Due
                                /\ run'.term = "recover" => Since <= Due - 1,
         Fallen' => Fallen /\ Latest'.dec = Latest.dec,
         run'.term = "recover" => run.term = "recover" \/ well = now
  PROVE  Retried'
  <1> SUFFICES ASSUME Open'
               PROVE  /\ Within(Due)'
                      /\ run'.term = "recover" =>
                           well' = now' \/ (faults' >= 1 /\ Within(Due - 1)')
    BY DEF Retried
  <1>1. Open
    BY DEF Open
  <1>2. now \in Nat /\ well \in Nat /\ faults \in Nat /\ Due \in Nat /\ Due' = Due
        /\ Since' = Since /\ Since \in Int
    BY Sizes DEF Due, Since
  <1>3. ASSUME NEW d \in Int, Within(d), Settled' => Settled \/ Since <= d
        PROVE  /\ Since' <= 1 + d
               /\ Settled' => Since' <= d
               /\ Fallen' => Since' <= now' - Latest'.dec + d - STALL_S
    BY <1>2, <1>3 DEF Within
  <1>4. Within(Due)'
    <2>1. Within(Due)
      BY <1>1 DEF Retried
    <2>2. Settled' => Settled \/ Since <= Due
      BY <1>1, <1>2 DEF Since
    <2>3. QED
      BY <1>2, <1>3, <2>1, <2>2 DEF Within
  <1>5. ASSUME run'.term = "recover", well # now
        PROVE  faults' >= 1 /\ Within(Due - 1)'
    <2>1. faults >= 1 /\ Within(Due - 1)
      BY <1>1, <1>5 DEF Retried
    <2>2. Settled' => Settled \/ Since <= Due - 1
      BY <1>1, <1>5
    <2> DEFINE d == Due - 1
    <2>3. d \in Int /\ d = Due' - 1
      BY <1>2
    <2> HIDE DEF d
    <2>4. /\ Since' <= 1 + d
          /\ Settled' => Since' <= d
          /\ Fallen' => Since' <= now' - Latest'.dec + d - STALL_S
      BY <1>3, <2>1, <2>2, <2>3 DEF d
    <2>5. QED
      BY <2>1, <2>3, <2>4 DEF Within
  <1>6. QED
    BY <1>2, <1>4, <1>5

\* recover attempts it, or the owner starts it.
LEMMA ResetRetries ==
  ASSUME TypeInv, TypeInv', Dated, Retried, UNCHANGED <<now, rows, job, run, faults>>, well' = now,
         rec.count <= rec'.count
  PROVE  Retried'
  <1> SUFFICES ASSUME Open' PROVE Within(Due)'
    BY DEF Retried
  <1>1. Open
    <2>1. rec.count \in Nat /\ rec'.count \in Nat
      BY Sizes, SizesNext
    <2>2. QED
      BY <2>1, DayAssumption DEF Open
  <1>2. /\ now \in Nat /\ well \in Nat /\ Due \in Nat /\ Due' = Due /\ Since' = 0
        /\ rows # <<>> => Latest.dec \in Int
    BY Sizes DEF Due, Since
  <1>3. Fallen' => Fallen /\ Latest' = Latest /\ rows # <<>>
    BY DEF Fallen, Latest
  <1>4. Fallen => Since <= now - Latest.dec + Due - STALL_S
    BY <1>1 DEF Retried, Within
  <1>5. 0 <= Since
    BY <1>2 DEF Since, Dated
  <1>6. Fallen' => Since' <= now' - Latest'.dec + Due' - STALL_S
    BY <1>2, <1>3, <1>4, <1>5, DayAssumption DEF Since
  <1>7. QED
    BY <1>2, <1>6 DEF Within

\* Why a check leaves a day alone that is not well: not for longer than its
\* patience, or because the last decision is not old yet.
LEMMA LeftAlone ==
  ASSUME TypeInv, Dated, Owned, Open, ~NotRecovers, owner # "clear", ~Problem \/ ~CooledDown
  PROVE  Since <= Patience \/ (Fallen /\ now - Latest.dec <= STALL_S)
  <1>1. /\ now \in Nat /\ well \in Nat /\ rec.last \in Int /\ Len(rows) \in Nat /\ rec.row \in Nat
        /\ rows # <<>> => Len(rows) # 0 /\ Latest \in Rows
        /\ rows # <<>> => Latest.started \in Nat /\ Latest.dec \in Int
    BY Sizes
  <1>2. /\ CHECK_FROM <= now /\ now <= CHECK_UNTIL /\ ~stopped
        /\ ~(job = "up" /\ run.mode = "ok") /\ CHECK_FROM <= well
    BY <1>1, DayAssumption DEF Open, NotRecovers, Dated
  <1>3. CASE ~CooledDown
    <2>1. now - rec.last < RECOVER_COOLDOWN_S /\ rec.last <= well
      BY <1>1, <1>3, DayAssumption DEF CooledDown, Dated
    <2>2. QED
      BY <1>1, <2>1, PatienceBounds, DayAssumption DEF Since
  <1>4. CASE ~Problem
    <2>1. /\ ~Down
          /\ rows # <<>> /\ Latest.status = "aborted" => ~AbortedByRecover(Len(rows))
          /\ rows # <<>> /\ Latest.status = "running" => ~Stalled(Latest)
      BY <1>2, <1>4 DEF Problem, InWindow
    <2>2. CASE rows = <<>>
      <3>1. now < MISSING_AFTER
        BY <1>1, <2>1, <2>2, DayAssumption DEF Down
      <3>2. QED
        BY <1>1, <1>2, <3>1, PatienceBounds, DayAssumption DEF Since
    <2>3. CASE rows # <<>> /\ Latest.status # "running"
      <3>1. run.row = 0
        BY <2>3 DEF Owned
      <3>2. Latest.status \in {"skipped", "aborted", "done"}
        BY <1>1, <2>1, <2>3 DEF Rows, Statuses, Down
      <3>3. Latest.status = "aborted" /\ ~(Len(rows) > rec.row)
        BY <2>3, <3>1, <3>2 DEF NotRecovers
      <3>4. rec.last = None
        BY <1>1, <2>1, <2>3, <3>3 DEF AbortedByRecover
      <3>5. QED
        BY <1>1, <2>3, <3>3, <3>4 DEF Dated
    <2>4. CASE rows # <<>> /\ Latest.status = "running"
      <3>1. ~Stalled(Latest) /\ Latest.started <= well
        BY <2>1, <2>4 DEF Dated
      <3>2. CASE Latest.dec = None
        <4>1. now - Later(Latest.started, OPEN) <= GRACE_S
          BY <1>1, <2>4, <3>1, <3>2, DayAssumption DEF Stalled, Later
        <4>2. Later(Latest.started, OPEN) <= well
          BY <1>1, <1>2, <3>1, DayAssumption DEF Later
        <4>3. Later(Latest.started, OPEN) \in Nat
          BY <1>1, <2>4, DayAssumption DEF Later
        <4>4. QED
          BY <1>1, <4>1, <4>2, <4>3, PatienceBounds, DayAssumption DEF Since
      <3>3. CASE Latest.dec # None /\ Latest.dec < Latest.started
        <4>1. now - Latest.started <= CATCH_UP_MAX_S
          BY <1>1, <2>4, <3>1, <3>3, DayAssumption DEF Stalled
        <4>2. QED
          BY <1>1, <2>4, <3>1, <4>1, PatienceBounds, DayAssumption DEF Since
      <3>4. CASE Latest.dec # None /\ Latest.started <= Latest.dec
        <4>1. now - Latest.dec <= STALL_S
          BY <1>1, <2>4, <3>1, <3>4, DayAssumption DEF Stalled
        <4>2. Fallen
          BY <1>2, <2>4, <3>4 DEF Fallen
        <4>3. QED
          BY <4>1, <4>2
      <3>5. QED
        BY <1>1, <2>4, <3>2, <3>3, <3>4
    <2>5. QED
      BY <2>2, <2>3, <2>4
  <1>5. QED
    BY <1>3, <1>4

\* The checks: health's, and recover's own.
LEMMA CheckRetries ==
  ASSUME TypeInv, TypeInv', Dated, Owned, Retried,
         UNCHANGED <<now, well, rec, rows, job, run, stopped, owner, faults>>,
         Settled' => ~Problem \/ ~CooledDown \/ rec.count >= RECOVER_MAX
  PROVE  Retried'
  <1>1. Fallen' => Fallen /\ Latest'.dec = Latest.dec
    BY DEF Fallen, Latest
  <1>2. ASSUME Settled', Open
        PROVE  Since <= Due /\ (run'.term = "recover" => well = now \/ Since <= Due - 1)
    <2>1. ~NotRecovers /\ owner # "clear"
      BY <1>2 DEF Settled, NotRecovers, Latest
    <2>2. rec.count < RECOVER_MAX /\ rec.count \in Nat
      BY <1>2, Sizes DEF Open
    <2>3. ~Problem \/ ~CooledDown
      BY <1>2, <2>2, DayAssumption
    <2>4. Since <= Patience \/ (Fallen /\ now - Latest.dec <= STALL_S)
      BY <1>2, <2>1, <2>3, LeftAlone
    <2>5. /\ now \in Nat /\ well \in Nat /\ faults \in Nat /\ Due \in Nat /\ Since \in Int
          /\ Patience <= Due /\ (faults >= 1 => Patience + 1 + STALL_S <= Due)
          /\ (rows # <<>> => Latest.dec \in Int)
      BY Sizes
    <2>6. ASSUME NEW d \in Int, Within(d), Patience <= d PROVE Since <= d
      <3>1. Fallen => rows # <<>> /\ Since <= now - Latest.dec + d - STALL_S
        BY <2>6 DEF Within, Fallen
      <3>2. QED
        BY <2>4, <2>5, <2>6, <3>1, PatienceBounds, DayAssumption
    <2>7. Since <= Due
      BY <1>2, <2>5, <2>6 DEF Retried
    <2>8. ASSUME run'.term = "recover", well # now PROVE Since <= Due - 1
      <3>1. faults >= 1 /\ Within(Due - 1)
        BY <1>2, <2>8 DEF Retried
      <3>2. Due - 1 \in Int /\ Patience <= Due - 1
        BY <2>5, <3>1, PatienceBounds, DayAssumption
      <3>3. QED
        BY <2>6, <3>1, <3>2
    <2>9. QED
      BY <2>7, <2>8
  <1>3. QED
    BY <1>1, <1>2, StillRetries

\* A tick: a day that was well or left alone is so from the next tick on; one
\* that is down has been judged at this one.
LEMMA TickRetries ==
  ASSUME TypeInv, TypeInv', Dated, Owned, Retried, Tick
  PROVE  Retried'
  <1> SUFFICES ASSUME Open'
               PROVE  /\ Within(Due)'
                      /\ run'.term = "recover" =>
                           well' = now' \/ (faults' >= 1 /\ Within(Due - 1)')
    BY DEF Retried
  <1>1. /\ now' = now + 1 /\ checked' = FALSE /\ at = "idle" /\ owner = "idle"
        /\ UNCHANGED <<job, run, rec, faults>> /\ (InWindow => checked)
        /\ run.term = "none" \/ run.mode = "hung"
        /\ well' = IF NotRecovers THEN now + 1 ELSE well
    BY DEF Tick, ext, bounds
  <1>2. /\ now \in Nat /\ well \in Nat /\ faults \in Nat /\ Due \in Nat /\ Due' = Due
        /\ Patience <= Due /\ (faults >= 1 => Patience + 1 + STALL_S <= Due)
        /\ rows # <<>> => Latest.started \in Nat /\ Latest.dec \in Int
    BY <1>1, Sizes DEF Due
  <1>3. Open /\ well <= now
    BY <1>1, <1>2, DayAssumption DEF Open, Dated
  <1>4. ~Settled'
    BY <1>1 DEF Settled
  <1>5. Since' <= 1 + Since /\ Since' \in Int /\ Since >= 0 /\ Since \in Int
    BY <1>1, <1>2, <1>3 DEF Since
  <1>6. NotRecovers => Since' = 0
    BY <1>1, <1>2 DEF Since
  <1>7. ~NotRecovers => Settled
    <2>1. ASSUME ~NotRecovers PROVE InWindow
      BY <1>2, <1>3, <2>1, DayAssumption DEF NotRecovers, InWindow, Open
    <2>2. QED
      BY <1>1, <2>1 DEF Settled
  <1>8. Fallen' => Fallen /\ Latest'.dec = Latest.dec /\ rows # <<>>
    <2>1. CASE rows' = rows
      BY <1>1, <2>1 DEF Fallen, Latest
    <2>2. CASE /\ run.row = Len(rows) /\ rows # <<>> /\ rows' # <<>> /\ Len(rows') = Len(rows)
               /\ Latest'.status = Latest.status /\ Latest'.started = Latest.started
               /\ run.mode = "ok" => Latest'.dec = now + 1
               /\ run.mode = "replay" => Latest'.dec = Latest.started - 1
               /\ run.mode \notin {"ok", "replay"} => Latest'.dec = Latest.dec
      <3>1. CASE run.mode = "ok"
        <4>1. run.row # 0
          BY <2>2, Sizes
        <4>2. job = "up"
          BY <4>1 DEF Owned, NoRun
        <4>3. ~Fallen'
          BY <1>1, <2>2, <3>1, <4>2 DEF Fallen
        <4>4. QED
          BY <4>3
      <3>2. CASE run.mode = "replay"
        <4>1. ~(Latest'.started <= Latest'.dec)
          BY <1>2, <2>2, <3>2
        <4>2. QED
          BY <4>1 DEF Fallen
      <3>3. CASE run.mode \notin {"ok", "replay"}
        BY <1>1, <2>2, <3>3 DEF Fallen
      <3>4. QED
        BY <3>1, <3>2, <3>3
    <2>3. QED
      BY <2>1, <2>2, TickRow
  <1>9. ASSUME NEW d \in Nat, Within(d)
        PROVE  /\ Since' <= 1 + d
               /\ Fallen' => Since' <= now' - Latest'.dec + d - STALL_S
    <2>1. Since' <= 1 + d
      BY <1>5, <1>6, <1>7, <1>9 DEF Within
    <2>2. Fallen => Since <= now - Latest.dec + d - STALL_S
      BY <1>9 DEF Within
    <2>3. QED
      BY <1>1, <1>2, <1>5, <1>8, <2>1, <2>2, DayAssumption
  <1>10. Within(Due)'
    <2>1. Within(Due)
      BY <1>3 DEF Retried
    <2>2. /\ Since' <= 1 + Due'
          /\ Fallen' => Since' <= now' - Latest'.dec + Due' - STALL_S
      BY <1>2, <1>9, <2>1
    <2>3. QED
      BY <1>4, <2>2 DEF Within
  <1>11. ASSUME run'.term = "recover" PROVE faults' >= 1 /\ Within(Due - 1)'
    <2>1. run.mode = "hung" /\ faults >= 1 /\ run.term = "recover"
      BY <1>1, <1>11 DEF Owned
    <2> DEFINE d == Due - 1
    <2>2. d \in Nat /\ Patience + STALL_S <= d /\ d = Due' - 1
      BY <1>2, <2>1, PatienceBounds, DayAssumption
    <2>3. /\ Since' <= 1 + d
          /\ Fallen' => Since' <= now' - Latest'.dec + d - STALL_S
      <3>1. CASE well = now
        <4>1. Since' <= 1
          BY <1>2, <1>5, <3>1 DEF Since
        <4>2. Fallen' => now' - Latest'.dec >= 1
          <5>1. Fallen' => Latest.dec <= now
            BY <1>8 DEF Dated
          <5>2. QED
            BY <1>1, <1>2, <1>8, <5>1
        <4>3. QED
          BY <1>1, <1>2, <1>5, <1>8, <2>2, <4>1, <4>2, PatienceBounds, DayAssumption
      <3>2. CASE well # now
        <4>1. Within(d)
          BY <1>3, <2>1, <3>2 DEF Retried
        <4> HIDE DEF d
        <4>2. QED
          BY <1>9, <2>2, <4>1
      <3>3. QED
        BY <3>1, <3>2
    <2> HIDE DEF d
    <2>4. QED
      BY <1>1, <1>4, <2>1, <2>2, <2>3 DEF Within
  <1>12. QED
    BY <1>10, <1>11

LEMMA RunnerRetries ==
  ASSUME TypeInv, TypeInv', Dated, Dated', Owned, Retried, Calendar \/ Runner
  PROVE  Retried'
  <1>1. UNCHANGED <<now, well, rec, checked, at, owner, stopped>> /\ run \in Runs
    BY DEF Calendar, Runner, Boots, BootEnds, Skips, Decides, FallsQuiet, Revives,
       Aborts, Closes, Crashes, Ends, ext, TypeInv, RunnerTyped
  <1>2. (run'.term = "recover" => run.term = "recover") /\ NoRun.term = "none"
    BY <1>1 DEF Calendar, Runner, Boots, BootEnds, Skips, Decides, FallsQuiet, Revives,
       Aborts, Closes, Crashes, Ends, Runs, NoRun
  <1>3. ASSUME Fault PROVE Retried'
    BY <1>1, <1>2, <1>3, FaultRetries DEF Fault
  <1>4. faults \in Nat /\ now \in Nat /\ well \in Nat /\ Due \in Nat
    BY Sizes
  <1>5. CASE Calendar
    <2>1. UNCHANGED <<run, rows, faults>> /\ job # "up" /\ job' # "up" /\ now = 0
      BY <1>5 DEF Calendar, Kickstarted, Running, bounds
    <2>2. Fallen' => Fallen /\ Latest'.dec = Latest.dec
      BY <2>1 DEF Fallen, Latest
    <2>3. well = now
      BY <2>1, DayAssumption DEF Dated
    <2>4. QED
      BY <1>1, <1>2, <2>1, <2>2, <2>3, StillRetries
  <1>6. CASE Boots
    <2>1. CASE ~Fault
      <3>1. job = "boot" /\ rows' = WithRow(Row("running")) /\ UNCHANGED faults
        BY <1>6, <2>1 DEF Boots, bounds
      <3>2. well = now \/ owner' = "clear"
        BY <1>1, <3>1 DEF Dated
      <3>3. Fallen' => Fallen /\ Latest'.dec = Latest.dec
        <4>1. CASE rows' = rows
          <5>1. ~(job = "up" /\ run.mode = "ok" /\ run.row = Len(rows))
            BY <3>1
          <5>2. QED
            BY <4>1, <5>1 DEF Fallen, Latest
        <4>2. CASE Latest' = Row("running")
          <5>1. Latest'.started = now /\ Latest'.dec = None
            BY <4>2 DEF Row
          <5>2. QED
            BY <1>4, <5>1 DEF Fallen, None
        <4>3. QED
          BY <1>6, <4>1, <4>2, BootsRow
      <3>4. Settled' => well = now
        BY <3>2 DEF Settled
      <3>5. QED
        BY <1>1, <1>2, <3>1, <3>3, <3>4, StillRetries
    <2>2. QED
      BY <1>3, <2>1
  <1>7. CASE BootEnds
    <2>1. CASE now >= EOD /\ UNCHANGED bounds
      <3>1. ~Open'
        BY <1>1, <1>4, <2>1, DayAssumption DEF Open
      <3>2. QED
        BY <3>1 DEF Retried
    <2>2. QED
      BY <1>3, <1>7, <2>1 DEF BootEnds
  <1>8. CASE Skips \/ FallsQuiet \/ Crashes
    <2>1. CASE Skips \/ FallsQuiet
      BY <1>3, <2>1 DEF Skips, FallsQuiet
    <2>2. CASE Crashes
      BY <1>3, <2>2 DEF Crashes, Fault
    <2>3. QED
      BY <1>8, <2>1, <2>2
  <1>9. CASE Decides \/ Revives
    <2>1. /\ job = "up" /\ job' = job /\ run'.mode = "ok" /\ run'.row = run.row
          /\ run.mode # "ok" /\ UNCHANGED faults
      BY <1>1, <1>9 DEF Decides, Revives, Runs, bounds
    <2>2. ~Settled'
      BY <2>1 DEF Settled, NotRecovers
    <2>3. Fallen' => Fallen /\ Latest'.dec = Latest.dec
      <3>1. CASE rows' = rows
        BY <2>1, <3>1 DEF Fallen, Latest
      <3>2. CASE run.row = Len(rows) /\ Len(rows') = Len(rows)
        BY <2>1, <3>2 DEF Fallen
      <3>3. QED
        BY <1>9, <3>1, <3>2, DecidesRow
    <2>4. QED
      BY <1>1, <1>2, <2>1, <2>2, <2>3, StillRetries
  <1>10. CASE Closes
    <2>1. now >= EOD
      BY <1>10 DEF Closes
    <2>2. ~Open'
      BY <1>1, <1>4, <2>1, DayAssumption DEF Open
    <2>3. QED
      BY <2>2 DEF Retried
  <1>11. CASE Aborts
    <2>1. job = "up" /\ run.term # "none" /\ Ends("aborted") /\ job' = "off" /\ run' = NoRun
      BY <1>11 DEF Aborts, Ends
    <2>2. CASE ~Fault
      <3>1. /\ UNCHANGED faults
            /\ rows' = IF run.row = 0 THEN rows
                       ELSE [rows EXCEPT ![run.row].status = "aborted", ![run.row].hb = now,
                                         ![run.row].by = run.term]
        BY <2>1, <2>2 DEF Ends, bounds
      <3>2. Fallen' => Fallen /\ Latest'.dec = Latest.dec
        <4>1. CASE run.row = 0
          <5>1. rows' = rows /\ (rows # <<>> => Len(rows) # 0)
            BY <3>1, <4>1, Sizes
          <5>2. QED
            BY <4>1, <5>1 DEF Fallen, Latest
        <4>2. CASE run.row # 0
          <5>1. Latest'.status # "running"
            BY <1>11, <2>2, <4>2, EndsRow
          <5>2. QED
            BY <5>1 DEF Fallen
        <4>3. QED
          BY <4>1, <4>2
      <3>3. ASSUME Settled', Open PROVE Since <= Due
        <4>1. ~stopped /\ owner # "mark"
          BY <1>1, <3>3 DEF Settled, NotRecovers
        <4>2. run.term = "recover"
          BY <2>1, <4>1 DEF Owned, TypeInv, RunnerTyped, Runs, Senders
        <4>3. CASE well = now
          BY <1>4, <4>3 DEF Since
        <4>4. CASE well # now
          <5>1. Within(Due - 1)
            BY <3>3, <4>2, <4>4 DEF Retried
          <5>2. QED
            BY <1>4, <5>1 DEF Within, Since
        <4>5. QED
          BY <4>3, <4>4
      <3>4. run'.term # "recover"
        BY <1>2, <2>1
      <3>5. QED
        BY <1>1, <3>1, <3>2, <3>3, <3>4, StillRetries
    <2>3. QED
      BY <1>3, <2>2
  <1>12. QED
    BY <1>5, <1>6, <1>7, <1>8, <1>9, <1>10, <1>11 DEF Runner

LEMMA RetryKeeps ==
  ASSUME TypeInv, TypeInv', Dated, Dated', Owned, Retried, [Next]_vars
  PROVE  Retried'
  <1>1. now \in Nat /\ well \in Nat /\ rec.count \in Nat /\ Due \in Nat /\ run \in Runs
    BY Sizes DEF TypeInv, RunnerTyped
  <1>2. ASSUME UNCHANGED <<now, well, rec, checked, at, stopped, rows, faults>>,
               owner \in {"mark", "clear"} => owner' \in {"mark", "clear"},
               job' = job /\ run'.mode = run.mode /\ run'.row = run.row,
               run'.term = "recover" => run.term = "recover"
        PROVE  Retried'
    <2>1. Fallen' => Fallen /\ Latest'.dec = Latest.dec
      BY <1>2 DEF Fallen, Latest
    <2>2. Settled' => Settled
      BY <1>2 DEF Settled, NotRecovers, Latest
    <2>3. QED
      BY <1>2, <2>1, <2>2, StillRetries
  <1>3. ASSUME ~Settled' \/ well = now, UNCHANGED <<now, well, rec, rows, faults>>,
               job' = job \/ (job # "up" /\ job' # "up"),
               run'.mode = run.mode /\ run'.row = run.row,
               run'.term = "recover" => run.term = "recover" \/ well = now
        PROVE  Retried'
    <2>1. Fallen' => Fallen /\ Latest'.dec = Latest.dec
      BY <1>3 DEF Fallen, Latest
    <2>2. QED
      BY <1>3, <2>1, StillRetries
  <1>4. CASE Health
    <2>1. CASE Fault
      BY <1>4, <2>1, FaultRetries DEF Health, Fault, runner
    <2>2. CASE ~Fault
      <3>1. /\ UNCHANGED <<now, well, rec, rows, job, run, stopped, owner, faults>>
            /\ at' = (IF Problem THEN "recover" ELSE "idle")
        BY <1>4, <2>2 DEF Health, bounds, runner
      <3>2. QED
        BY <3>1, CheckRetries DEF Settled
    <2>3. QED
      BY <2>1, <2>2
  <1>5. CASE RecoverChecks
    <2>1. /\ UNCHANGED <<now, well, rec, rows, job, run, stopped, owner, faults>>
          /\ at' = IF Problem /\ now < EOD /\ AttemptsLeft /\ CooledDown THEN "judged" ELSE "idle"
      BY <1>5 DEF RecoverChecks, bounds, runner
    <2>2. CASE now < EOD
      <3>1. Settled' => ~Problem \/ ~CooledDown \/ rec.count >= RECOVER_MAX
        BY <1>1, <2>1, <2>2, DayAssumption DEF Settled, AttemptsLeft
      <3>2. QED
        BY <2>1, <3>1, CheckRetries
    <2>3. CASE ~(now < EOD)
      <3>1. ~Open'
        BY <1>1, <2>1, <2>3, DayAssumption DEF Open
      <3>2. QED
        BY <3>1 DEF Retried
    <2>4. QED
      BY <2>2, <2>3
  <1>6. CASE RecoverRecords
    <2>1. CASE Fault
      <3>1. /\ UNCHANGED <<now, rows, job, run>> /\ well' = now /\ faults' = faults + 1
            /\ rec'.count = rec.count + 1
        BY <1>6, <2>1 DEF RecoverRecords, Attempt, runner, Fault
      <3>2. ASSUME Open' PROVE Within(Due)'
        <4>1. Open /\ faults \in Nat
          BY <1>1, <3>1, <3>2, Sizes, DayAssumption DEF Open
        <4>2. (1 + STALL_S) * (faults + 1) = (1 + STALL_S) * faults + 1 + STALL_S
              /\ (1 + STALL_S) * faults \in Nat
          BY <4>1, FeeBounds
        <4>3. Due' = Patience + (1 + STALL_S) * (faults + 1)
          BY <3>1 DEF Due
        <4>4. Due' = Due + 1 + STALL_S
          BY <4>2, <4>3, PatienceBounds, DayAssumption DEF Due
        <4>5. Since' = 0
          BY <1>1, <3>1 DEF Since
        <4>6. Fallen' => rows # <<>> /\ Latest' = Latest /\ Latest.dec <= now
          BY <3>1 DEF Fallen, Latest, Dated
        <4>7. rows # <<>> => Latest.dec \in Int
          BY Sizes
        <4>8. Fallen' => Since' <= now' - Latest'.dec + Due' - STALL_S
          BY <1>1, <3>1, <4>4, <4>5, <4>6, <4>7, DayAssumption
        <4>9. Since' <= 1 + Due' /\ Since' <= Due'
          BY <1>1, <4>4, <4>5, DayAssumption
        <4>10. QED
          BY <4>8, <4>9 DEF Within
      <3>3. QED
        BY <3>1, <3>2 DEF Retried
    <2>2. CASE ~Fault
      <3>1. /\ UNCHANGED <<now, rows, job, run, faults>> /\ well' = now
            /\ rec'.count = rec.count + 1
        BY <1>6, <2>2 DEF RecoverRecords, Attempt, runner, bounds
      <3>2. QED
        BY <1>1, <3>1, ResetRetries
    <2>3. QED
      BY <2>1, <2>2
  <1>7. CASE RecoverKills
    <2>1. at = "kill" /\ UNCHANGED <<now, well, rec, rows, faults>> /\ well = now
      BY <1>7, TermSent DEF RecoverKills, runner, bounds, Dated
    <2>2. CASE Terminated("recover")
      BY <1>3, <2>1, <2>2, TermSent
    <2>3. CASE UNCHANGED runner
      BY <1>3, <2>1, <2>3 DEF runner
    <2>4. QED
      BY <1>7, <2>2, <2>3 DEF RecoverKills
  <1>8. CASE RecoverWaits
    <2>1. at = "wait" /\ UNCHANGED <<now, well, rec, rows, job, run>> /\ well = now
      BY <1>8 DEF RecoverWaits, runner, Dated
    <2>2. CASE Fault
      BY <2>1, <2>2, FaultRetries DEF Fault
    <2>3. CASE ~Fault
      <3>1. UNCHANGED faults
        BY <1>8, <2>3 DEF RecoverWaits, bounds
      <3>2. QED
        BY <1>3, <2>1, <3>1
    <2>4. QED
      BY <2>2, <2>3
  <1>9. CASE RecoverKickstarts
    <2>1. /\ at = "kick" /\ UNCHANGED <<now, well, rec, rows, run, faults>> /\ well = now
          /\ job' = job \/ (job # "up" /\ job' # "up")
      BY <1>9 DEF RecoverKickstarts, Kickstarted, Running, bounds, Dated
    <2>2. QED
      BY <1>3, <2>1
  <1>10. CASE RecoverFails
    <2>1. faults' = faults + 1 /\ UNCHANGED <<now, well, rec>>
      BY <1>10 DEF RecoverFails, Fault
    <2>2. run'.term = "recover" => run.term = "recover" \/ well = now
      BY <1>10, TermSent DEF RecoverFails, runner, Dated
    <2>3. QED
      BY <2>1, <2>2, FaultRetries
  <1>11. CASE AsksStop \/ AsksStart
    BY <1>2, <1>11 DEF AsksStop, AsksStart, Command, runner, ext
  <1>12. CASE StopKills
    <2>1. UNCHANGED <<now, well, rec, checked, at, stopped, faults>> /\ owner = "stop"
      BY <1>12 DEF StopKills, ext, bounds
    <2>2. CASE Terminated("owner") /\ owner' = "mark"
      BY <1>3, <2>1, <2>2, TermSent DEF Settled
    <2>3. CASE UNCHANGED runner
      BY <1>2, <2>1, <2>3 DEF runner
    <2>4. QED
      BY <1>12, <2>2, <2>3 DEF StopKills
  <1>13. CASE StopMarks
    <2>1. UNCHANGED <<now, well, rec, rows, job, run, faults>> /\ stopped'
      BY <1>13 DEF StopMarks, runner, ext, bounds
    <2>2. ~Settled'
      BY <2>1 DEF Settled, NotRecovers
    <2>3. QED
      BY <1>3, <2>1, <2>2
  <1>14. CASE StopFails
    BY <1>14, FaultRetries DEF StopFails, Fault, runner, ext
  <1>15. CASE StartKickstarts
    <2>1. CASE Fault
      BY <1>15, <2>1, FaultRetries DEF StartKickstarts, Fault, ext
    <2>2. CASE ~Fault
      <3>1. /\ UNCHANGED <<now, well, rec, rows, run, faults>> /\ owner' = "clear"
            /\ job' = job \/ (job # "up" /\ job' # "up")
        BY <1>15, <2>2 DEF StartKickstarts, Kickstarted, Running, ext, bounds
      <3>2. QED
        BY <1>3, <3>1 DEF Settled
    <2>3. QED
      BY <2>1, <2>2
  <1>16. CASE StartClears
    BY <1>1, <1>16, ResetRetries DEF StartClears, runner, ext, bounds
  <1>17. CASE UNCHANGED vars
    BY <1>2, <1>17 DEF vars, runner, ext, bounds
  <1>18. QED
    BY <1>4, <1>5, <1>6, <1>7, <1>8, <1>9, <1>10, <1>11, <1>12, <1>13, <1>14, <1>15, <1>16, <1>17,
       RunnerRetries, TickRetries DEF Next, Recover, Owner, Over

\* While recover has restarts left, a day that is down is attempted again: after
\* the longest that a check may leave it alone, one check more, and for each
\* fault a check and the age of a stall.
THEOREM Retries == Spec => []DownIsRetried
  <1>1. Init => RetryInv
    <2> SUFFICES ASSUME Init PROVE RetryInv
      OBVIOUS
    <2>1. /\ now = 0 /\ checked = FALSE /\ job = "off" /\ run = NoRun /\ rows = <<>>
          /\ rec = [count |-> 0, last |-> None, row |-> 0] /\ at = "idle"
          /\ owner = "idle" /\ well = 0 /\ faults = 0
      BY DEF Init
    <2>2. Dated
      BY <2>1, DayAssumption DEF Dated, None
    <2>3. Owned
      BY <2>1 DEF Owned, NoRun
    <2>4. Since = 0 /\ Due \in Nat
      <3>1. (1 + STALL_S) * faults \in Nat
        BY <2>1, FeeBounds
      <3>2. QED
        BY <2>1, <3>1, PatienceBounds DEF Since, Due
    <2>5. Within(Due) /\ run.term = "none"
      BY <2>1, <2>4 DEF Within, Settled, Fallen, NoRun
    <2>6. QED
      BY <2>2, <2>3, <2>5 DEF RetryInv, Retried
  <1>2. TypeInv /\ TypeInv' /\ RetryInv /\ [Next]_vars => RetryInv'
    BY DatedKeeps, OwnedKeeps, RetryKeeps DEF RetryInv
  <1>3. TypeInv /\ RetryInv => DownIsRetried
    <2> SUFFICES ASSUME TypeInv, RetryInv, InWindow, rec.count < RECOVER_MAX
                 PROVE  Since <= 1 + Due
      BY Sizes, PatienceBounds, FeeBounds, DayAssumption DEF DownIsRetried, Since, Due
    <2>1. Open
      BY DEF Open, InWindow
    <2>2. QED
      BY <2>1 DEF RetryInv, Retried, Within
  <1>4. QED
    BY TypeInvHolds, <1>1, <1>2, <1>3, PTL DEF Spec
=============================================================================
