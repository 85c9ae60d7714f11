------------------------------ MODULE PaperDay ------------------------------
(***************************************************************************)
(* One trading day of the unattended paper session: the launchd job with   *)
(* run_paper_day.sh and live.amain, the session's row in paper.db (paperdb *)
(* .Recorder), the extension's health check and its recover hook, and the  *)
(* owner's start and stop (resonant-extension/cli.py).                     *)
(*                                                                         *)
(* Time is counted in health checks (five minutes), so one is made at each *)
(* tick of the session window.  What takes seconds is a step of its own:   *)
(* between recover's check, its SIGTERM, the exit it waits for and its     *)
(* kickstart, the runner and the owner move; so they do between the steps  *)
(* of a start or a stop.                                                   *)
(*                                                                         *)
(* launchd's `kill SIGTERM` is taken to reach the Python process, as       *)
(* amain's handler expects.  Trades, settings and the feed are left out;   *)
(* a session decides, or it does not.                                      *)
(***************************************************************************)
EXTENDS Integers, Sequences, FiniteSets

CONSTANTS OPEN, MISSING_AFTER, CHECK_FROM, CHECK_UNTIL, EOD,  \* times of the day
          STALE_S, STALL_S, GRACE_S, CATCH_UP_MAX_S,          \* ages, in ticks
          RECOVER_COOLDOWN_S, RECOVER_MAX,
          MaxOwner,   \* bound: the owner's commands
          MaxFaults   \* bound: what fails

ASSUME DayAssumption ==
  /\ OPEN \in Nat /\ MISSING_AFTER \in Nat /\ CHECK_FROM \in Nat
  /\ CHECK_UNTIL \in Nat /\ EOD \in Nat
  /\ 0 < OPEN /\ OPEN <= CHECK_FROM /\ CHECK_UNTIL < EOD
  /\ STALE_S \in Nat /\ STALL_S \in Nat /\ GRACE_S \in Nat /\ CATCH_UP_MAX_S \in Nat
  /\ RECOVER_COOLDOWN_S \in Nat /\ RECOVER_MAX \in Nat
  /\ MaxOwner \in Nat /\ MaxFaults \in Nat

VARIABLES
  now, checked,     \* the tick, and whether its health check was made
  job, run,         \* launchd's job, and the process in it
  rows,             \* paper_sessions of the day, by started_at
  stopped,          \* the file stopped_day holds today
  rec, at,          \* recover_state.json, and where recover is
  owner,            \* where a command of the owner is
  acted, raced,     \* history: ticks in which recover acted; a stop since its check
  well,             \* history: the last tick with nothing for recover to do
  commands, faults  \* what is used of the bounds

runner == <<job, run, rows>>
ext    == <<rec, at, acted>>
bounds == <<commands, faults>>
vars == <<now, checked, runner, stopped, ext, owner, raced, well, bounds>>

None == -1
Latest == rows[Len(rows)]

\* A session's row: when it started, its last heartbeat and its last decision.
\* by is history: who sent the SIGTERM that ended it.
Row(status) == [status |-> status, started |-> now, hb |-> now, dec |-> None, by |-> "none"]

\* The process: how its event loop does, which row is its own (0: the insert
\* failed), and a SIGTERM it has not answered yet.
NoRun == [mode |-> "none", row |-> 0, term |-> "none"]

Init ==
  /\ now = 0 /\ checked = FALSE
  /\ job = "off" /\ run = NoRun /\ rows = <<>>
  /\ stopped = FALSE
  /\ rec = [count |-> 0, last |-> None, row |-> 0] /\ at = "idle"
  /\ owner = "idle"
  /\ acted = {} /\ raced = FALSE /\ well = 0
  /\ commands = 0 /\ faults = 0

Fault == faults < MaxFaults /\ faults' = faults + 1 /\ UNCHANGED commands

-----------------------------------------------------------------------------
(* launchd and the runner. *)

Running == job # "off"

\* launchctl kickstart: nothing is done to a job that runs.
Kickstarted == IF Running THEN UNCHANGED job ELSE job' = "boot"

\* launchctl kill SIGTERM, which fails without a process: a script that waits
\* or boots is gone, the session has on_sigterm.
Terminated(who) ==
  /\ Running /\ UNCHANGED rows
  /\ IF job = "boot" THEN job' = "off" /\ UNCHANGED run
     ELSE UNCHANGED job /\ run' = [run EXCEPT !.term = IF @ = "none" THEN who ELSE @]

\* The calendar starts the job before the open.
Calendar ==
  /\ now = 0 /\ rows = <<>> /\ Kickstarted /\ ~Running
  /\ UNCHANGED <<now, checked, run, rows, stopped, ext, owner, raced, well, bounds>>

\* A new session's row; the id of the day's first one may be a skipped row's.
WithRow(r) ==
  IF Len(rows) = 1 /\ rows[1].status = "skipped" THEN <<r>> ELSE Append(rows, r)

\* The script reaches amain, which starts its Recorder and the session: late, it
\* catches up first, or warms up.
Boots ==
  /\ job = "boot" /\ now < EOD
  /\ job' = "up"
  /\ \/ rows' = WithRow(Row("running")) /\ UNCHANGED bounds
     \/ UNCHANGED rows /\ Fault       \* the insert fails: the session has no row
  /\ \E mode \in {"starting"} \cup (IF now > OPEN THEN {"replay"} ELSE {}) :
       run' = [mode |-> mode, row |-> IF rows' = rows THEN 0 ELSE Len(rows'), term |-> "none"]
  /\ UNCHANGED <<now, checked, stopped, ext, owner, raced, well>>

\* The script has nothing to do (after 15:55), or fails before the session:
\* no uv, no key, the lock.
BootEnds ==
  /\ job = "boot" /\ job' = "off"
  /\ \/ now >= EOD /\ UNCHANGED bounds
     \/ now < EOD /\ Fault
  /\ UNCHANGED <<now, checked, run, rows, stopped, ext, owner, raced, well>>

\* TRADE_JEV_SOURCE is off, or the credentials are missing (record_skip).
Skips ==
  /\ job = "boot" /\ now < EOD /\ Fault
  /\ job' = "off"
  /\ rows' = IF rows = <<>> \/ (Len(rows) = 1 /\ rows[1].status = "skipped")
             THEN <<Row("skipped")>> ELSE rows
  /\ UNCHANGED <<now, checked, run, stopped, ext, owner, raced, well>>

\* The session decides for the first time, or has caught up.
Decides ==
  /\ job = "up" /\ run.mode \in {"starting", "replay"} /\ run.term = "none"
  /\ now >= OPEN /\ now < EOD
  /\ run' = [run EXCEPT !.mode = "ok"]
  /\ rows' = IF run.row = 0 THEN rows ELSE [rows EXCEPT ![run.row].dec = now]
  /\ UNCHANGED <<now, checked, job, stopped, ext, owner, raced, well, bounds>>

\* The feed goes quiet, or the event loop hangs; and comes back.
FallsQuiet ==
  /\ job = "up" /\ Fault
  /\ \/ run.mode = "ok" /\ run' = [run EXCEPT !.mode = "quiet"]
     \/ run.mode # "hung" /\ run' = [run EXCEPT !.mode = "hung"]
  /\ UNCHANGED <<now, checked, job, rows, stopped, ext, owner, raced, well>>

Revives ==
  /\ job = "up" /\ run.mode \in {"quiet", "hung"} /\ OPEN <= now /\ now < EOD
  /\ run' = [run EXCEPT !.mode = "ok"]
  /\ rows' = IF run.row = 0 THEN rows
             ELSE [rows EXCEPT ![run.row].dec = now, ![run.row].hb = now]
  /\ UNCHANGED <<now, checked, job, stopped, ext, owner, raced, well, bounds>>

\* end_paper, Recorder.finish and close; the write may fail, or its ten
\* seconds pass: the row then stays `running`.
Ends(status) ==
  /\ job' = "off" /\ run' = NoRun
  /\ \/ /\ rows' = IF run.row = 0 THEN rows
                   ELSE [rows EXCEPT ![run.row].status = status, ![run.row].hb = now,
                                     ![run.row].by = run.term]
        /\ UNCHANGED bounds
     \/ run.row # 0 /\ UNCHANGED rows /\ Fault
  /\ UNCHANGED <<now, checked, stopped, ext, owner, raced, well>>

Aborts == job = "up" /\ run.mode # "hung" /\ run.term # "none" /\ Ends("aborted")
Closes == job = "up" /\ run.mode # "hung" /\ run.term = "none" /\ now >= EOD /\ Ends("done")

\* The feed fails, its stream ends early, or the process is killed outright.
Crashes ==
  /\ job = "up" /\ faults < MaxFaults /\ faults' = faults + 1 /\ UNCHANGED commands
  /\ job' = "off" /\ run' = NoRun
  /\ \/ run.mode # "hung" /\ run.row # 0
        /\ \E status \in {"crashed", "done"} :
             rows' = [rows EXCEPT ![run.row].status = status, ![run.row].hb = now]
     \/ UNCHANGED rows
  /\ UNCHANGED <<now, checked, stopped, ext, owner, raced, well>>

-----------------------------------------------------------------------------
(* The health check (session_check). *)

InWindow == CHECK_FROM <= now /\ now <= CHECK_UNTIL

\* down_reason, health_of.
Stale(r) == r.status = "running" /\ now - r.hb > STALE_S
Down ==
  IF rows = <<>> THEN now >= MISSING_AFTER
  ELSE Latest.status = "crashed" \/ Stale(Latest)

\* Mutant of AbortedByRecover: an aborted session is taken for a stopped one.
NeverByRecover(r) == FALSE

\* _aborted_by_recover: it was there when recover last acted.
AbortedByRecover(r) == rec.last # None /\ r <= rec.row

\* stall_reason.
Later(a, b) == IF a > b THEN a ELSE b
Stalled(r) ==
  IF r.dec = None THEN now - Later(r.started, OPEN) > GRACE_S
  ELSE IF r.dec < r.started THEN now - r.started > CATCH_UP_MAX_S
  ELSE now - r.dec > STALL_S

\* Mutant of Problem: the owner's stop is not looked at.
ProblemOnly ==
  /\ InWindow
  /\ \/ Down
     \/ rows # <<>> /\ Latest.status = "running" /\ Stalled(Latest)

Problem ==
  /\ InWindow /\ ~stopped
  /\ \/ Down
     \/ rows # <<>> /\ Latest.status = "aborted" /\ AbortedByRecover(Len(rows))
     \/ rows # <<>> /\ Latest.status = "running" /\ Stalled(Latest)

\* Every five minutes; unhealthy calls recover.  A database that does not open
\* can not tell.
Health ==
  /\ ~checked /\ InWindow /\ at = "idle" /\ checked' = TRUE
  /\ \/ at' = (IF Problem THEN "recover" ELSE "idle") /\ UNCHANGED bounds
     \/ Problem /\ UNCHANGED at /\ Fault
  /\ UNCHANGED <<now, runner, stopped, rec, acted, owner, raced, well>>

-----------------------------------------------------------------------------
(* recover *)

\* Mutant of AttemptsLeft: one more.
OneMoreLeft == rec.count <= RECOVER_MAX

AttemptsLeft == rec.count < RECOVER_MAX

\* Mutant of CooledDown: a restart is made at every check.
AtEveryCheck == TRUE

CooledDown == rec.last = None \/ now - rec.last >= RECOVER_COOLDOWN_S

\* Its checks.
RecoverChecks ==
  /\ at = "recover" /\ raced' = FALSE
  /\ at' = IF Problem /\ now < EOD /\ AttemptsLeft /\ CooledDown
           THEN "judged" ELSE "idle"
  /\ UNCHANGED <<now, checked, runner, stopped, rec, acted, owner, well, bounds>>

\* Mutant of Attempt: the attempt is not counted.
AttemptUncounted == [rec EXCEPT !.last = now, !.row = Len(rows)]

Attempt == [count |-> rec.count + 1, last |-> now, row |-> Len(rows)]

\* It looks at the job, and the attempt is written down before it acts.  A
\* state that does not read is not "running".
RecoverRecords ==
  /\ at = "judged"
  /\ rec' = Attempt /\ acted' = acted \cup {now} /\ well' = now
  /\ \/ at' = (IF Running THEN "kill" ELSE "kick") /\ UNCHANGED bounds
     \/ Running /\ at' = "kick" /\ Fault
  /\ UNCHANGED <<now, checked, runner, stopped, owner, raced>>

RecoverKills ==
  /\ at = "kill"
  /\ \/ Terminated("recover") /\ at' = "wait"
     \/ ~Running /\ UNCHANGED runner /\ at' = "idle"
  /\ UNCHANGED <<now, checked, stopped, rec, acted, owner, raced, well, bounds>>

\* _wait_stopped: up to 20 seconds, which a hung loop outlasts, or a job that
\* the owner has started again.
RecoverWaits ==
  /\ at = "wait"
  /\ \/ ~Running /\ at' = "kick" /\ UNCHANGED bounds
     \/ Running /\ at' = "idle"
        /\ IF run.mode = "hung" \/ run.term = "none" THEN UNCHANGED bounds ELSE Fault
  /\ UNCHANGED <<now, checked, runner, stopped, rec, acted, owner, raced, well>>

RecoverKickstarts ==
  /\ at = "kick" /\ at' = "idle" /\ Kickstarted
  /\ UNCHANGED <<now, checked, run, rows, stopped, rec, acted, owner, raced, well, bounds>>

\* launchctl fails or times out, the job is not loaded, or Resonant's own
\* timeout ends recover; a call that timed out may have gone through.
RecoverFails ==
  /\ at \in {"judged", "kill", "wait", "kick"} /\ at' = "idle" /\ Fault
  /\ \/ UNCHANGED runner
     \/ at = "kill" /\ Terminated("recover")
     \/ at = "kick" /\ Kickstarted /\ UNCHANGED <<run, rows>>
  /\ UNCHANGED <<now, checked, stopped, rec, acted, owner, raced, well>>

-----------------------------------------------------------------------------
(* The owner. *)

Command(where) ==
  /\ owner = "idle" /\ commands < MaxOwner /\ commands' = commands + 1
  /\ owner' = where /\ UNCHANGED faults

\* cmd_stop finds the job running, or has nothing to stop.
AsksStop ==
  /\ Running /\ Command("stop")
  /\ UNCHANGED <<now, checked, runner, stopped, ext, raced, well>>

StopKills ==
  /\ owner = "stop"
  /\ \/ Terminated("owner") /\ owner' = "mark"
     \/ ~Running /\ UNCHANGED runner /\ owner' = "idle"
  /\ UNCHANGED <<now, checked, stopped, ext, raced, well, bounds>>

\* _mark_stopped.
StopMarks ==
  /\ owner = "mark" /\ owner' = "idle" /\ stopped' = TRUE /\ raced' = TRUE
  /\ UNCHANGED <<now, checked, runner, ext, well, bounds>>

\* launchctl kill fails, and the command with it; or it times out, and it may
\* have gone through.
StopFails ==
  /\ owner = "stop" /\ Fault
  /\ \/ UNCHANGED runner /\ owner' = "idle"
     \/ UNCHANGED runner /\ owner' = "mark"
  /\ UNCHANGED <<now, checked, stopped, ext, raced, well>>

\* cmd_start, when the job does not run.
AsksStart ==
  /\ ~Running /\ Command("start")
  /\ UNCHANGED <<now, checked, runner, stopped, ext, raced, well>>

StartKickstarts ==
  /\ owner = "start"
  /\ \/ Kickstarted /\ owner' = "clear" /\ UNCHANGED bounds
     \/ UNCHANGED job /\ owner' \in {"idle", "clear"} /\ Fault
  /\ UNCHANGED <<now, checked, run, rows, stopped, ext, raced, well>>

\* _clear_stopped.
StartClears ==
  /\ owner = "clear" /\ owner' = "idle" /\ stopped' = FALSE /\ well' = now
  /\ UNCHANGED <<now, checked, runner, ext, raced, bounds>>

-----------------------------------------------------------------------------
(* Time passes: a loop that is not hung has beaten and, unless its feed is
   quiet, decided; the commands and the exits of these minutes are over. *)

\* What recover leaves alone: a session that works, that the owner stopped, that
\* is over, a day that was skipped; and a session of the owner's that started
\* in the moment between recover's attempt and its SIGTERM, which nobody then
\* takes for recover's.
NotRecovers ==
  \/ now < CHECK_FROM \/ stopped
  \/ job = "up" /\ run.mode = "ok"
  \/ /\ rows # <<>> /\ (job # "up" \/ run.row = 0)
     /\ \/ Latest.status \in {"done", "skipped"}
        \/ Latest.status = "aborted" /\ (Latest.by = "owner" \/ Len(rows) > rec.row)

Tick ==
  /\ now < EOD /\ now' = now + 1 /\ checked' = FALSE
  /\ (InWindow => checked) /\ at = "idle" /\ owner = "idle" /\ job # "boot"
  /\ run.term = "none" \/ run.mode = "hung"
  /\ rows' = IF job # "up" \/ run.row = 0 \/ run.mode = "hung" THEN rows
             ELSE [rows EXCEPT ![run.row].hb = now + 1,
                     ![run.row].dec = CASE run.mode = "ok"     -> now + 1
                                        [] run.mode = "replay" -> rows[run.row].started - 1
                                        [] OTHER -> @]
  /\ well' = IF NotRecovers THEN now + 1 ELSE well
  /\ UNCHANGED <<job, run, stopped, ext, owner, raced, bounds>>

Over == now = EOD /\ (job = "off" \/ run.mode = "hung") /\ at = "idle" /\ owner = "idle" /\ UNCHANGED vars

Runner  == Boots \/ BootEnds \/ Skips \/ Decides \/ FallsQuiet \/ Revives
           \/ Aborts \/ Closes \/ Crashes
Recover == RecoverChecks \/ RecoverRecords \/ RecoverKills \/ RecoverWaits
           \/ RecoverKickstarts \/ RecoverFails
Owner   == AsksStop \/ StopKills \/ StopMarks \/ StopFails
           \/ AsksStart \/ StartKickstarts \/ StartClears

Next == Calendar \/ Runner \/ Health \/ Recover \/ Owner \/ Tick \/ Over

Spec == Init /\ [][Next]_vars

-----------------------------------------------------------------------------
(* Properties *)

\* Every variable has its type; in particular recover_state.json never counts
\* more than RECOVER_MAX.
TypeOK ==
  /\ now \in 0 .. EOD /\ checked \in BOOLEAN
  /\ job \in {"off", "boot", "up"}
  /\ run \in [mode : {"none", "starting", "replay", "ok", "quiet", "hung"},
              row : 0 .. Len(rows), term : {"none", "recover", "owner"}]
  /\ rows \in Seq([status : {"running", "skipped", "aborted", "crashed", "done"},
                   started : 0 .. EOD, hb : 0 .. EOD, dec : None .. EOD,
                   by : {"none", "recover", "owner"}])
  /\ stopped \in BOOLEAN
  /\ rec \in [count : 0 .. RECOVER_MAX, last : None .. EOD, row : 0 .. Len(rows)]
  /\ at \in {"idle", "recover", "judged", "kill", "wait", "kick"}
  /\ owner \in {"idle", "stop", "mark", "start", "clear"}
  /\ acted \subseteq 0 .. EOD /\ raced \in BOOLEAN /\ well \in 0 .. EOD
  /\ commands \in 0 .. MaxOwner /\ faults \in 0 .. MaxFaults

\* "It restarts at most 3 times per ET day and at most once per 10 min"
\* (the extension's README): also when it fails between its SIGTERM and its
\* kickstart, or is killed, and whatever the owner starts meanwhile.
RestartsBounded ==
  /\ Cardinality(acted) <= RECOVER_MAX
  /\ \A s, t \in acted : s < t => t - s >= RECOVER_COOLDOWN_S

\* After trade_jev_stop the day stays stopped: while stopped_day holds, only the
\* owner starts the job; except the calendar's one start before the open, which
\* does not look, and a recover that was past its checks when the marker was
\* written.
StopHolds ==
  [][stopped /\ job = "off" /\ job' = "boot" => owner = "start" \/ raced \/ now = 0]_vars

\* A day that is down does not stay so unnoticed: while recover has restarts
\* left, a session that died, hangs, stalls, never came or was aborted by a
\* recover that did not finish is attempted again, however these follow each
\* other: after the longest that a day may look well or be left alone, and for
\* each fault a check and the age at which its session counts as stalled.
Patience == Later(MISSING_AFTER - CHECK_FROM,
                  Later(RECOVER_COOLDOWN_S, Later(GRACE_S, CATCH_UP_MAX_S)))

DownIsRetried ==
  InWindow /\ checked /\ at = "idle" /\ ~stopped /\ rec.count < RECOVER_MAX /\ ~NotRecovers
    => now - well <= 1 + Patience + (1 + STALL_S) * faults
=============================================================================
