-------------------------- MODULE CopyAccountProofs --------------------------
(***************************************************************************)
(* For every cap, number of faults, crashes and days: CopyAccount keeps    *)
(* its types, its cap and what it owes the kill switch, books an open      *)
(* trade closed only on a flat exchange (or after a stray order opened a   *)
(* position behind its last read), and leaves no position without an       *)
(* owner.                                                                  *)
(*                                                                         *)
(* Cap and the number of rows rest on what is counted where: an entry is   *)
(* written to the ledger before it is counted in memory, a worker crash    *)
(* in between (a fault) loses the count, a restart takes it from the rows, *)
(* and midnight forgets both.                                              *)
(***************************************************************************)
EXTENDS CopyAccount, TLAPS

\* The executor's memory and rows, their bounds left to Counts and Rows.
Account ==
  [phase : {"starting", "flattening", "killing", "ready"},
   kill : KillStates, need : BOOLEAN, backoff : BOOLEAN,
   target : Sides, trade : Nat, side : Sides,
   entries : Nat, rejects : 0 .. MaxRejects,
   reduced : BOOLEAN, alerted : BOOLEAN, hbOk : BOOLEAN,
   linkLost : BOOLEAN, eodDone : BOOLEAN,
   seen : Sides \cup {NotRead}, strayed : BOOLEAN, halt : Halts,
   open : SUBSET Nat, sending : BOOLEAN, posts : Nat, nextRow : Nat \ {0}]

Typed ==
  /\ acct \in Account
  /\ mkt \in [pos : Sides, orders : 0 .. 2]
  /\ at \in Awaits /\ then \in Callers
  /\ killTask \in BOOLEAN /\ allTask \in BOOLEAN /\ daemonKill \in KillStates
  /\ silent \in BOOLEAN /\ eod \in BOOLEAN
  /\ faults \in 0 .. MaxFaults /\ crashes \in 0 .. MaxCrash /\ days \in 0 .. MaxDays

\* What the earlier days of the run may have entered.
Earlier == Cap * days

\* An entry whose row is written and not yet counted; one whose trade row is
\* still to come.
Uncounted == IF at = "posted" THEN 1 ELSE 0
Unbooked  == IF at \in {"posted", "readback"} THEN 1 ELSE 0

\* posts, the entry rows of the day, against entries, the count in memory.
PostsCounted ==
  /\ acct.posts <= acct.entries + Uncounted + faults
  /\ acct.posts <= Cap + faults /\ acct.entries <= Cap + faults

\* Trade rows against the entries of the days so far.  Each of the four is
\* needed: the count and the rows of the day may each be behind the other.
RowsCounted ==
  LET rows == acct.nextRow - 1 + Unbooked IN
  /\ rows <= Earlier + acct.posts + faults
  /\ rows <= Earlier + acct.entries + Uncounted + faults
  /\ rows <= Earlier + Cap + faults
  /\ rows + acct.entries <= Earlier + Cap + acct.posts + faults

\* The trade and the open rows were numbered by nextRow.
RowsKnown ==
  /\ acct.trade < acct.nextRow
  /\ acct.open \subseteq 1 .. (acct.nextRow - 1)

\* What the awaits of the handlers say.  An entry is under way only below the
\* cap, an entry that is posted was read past the cache, and only flatten_all
\* and a kill run beside the start.
Placed ==
  /\ at \in {"precheck", "posted"} => acct.entries < Cap
  /\ at \in {"precheck", "posted", "readback"} => then = "done"
  /\ at = "posted" => acct.seen = NotRead
  /\ at \notin {"idle", "flatten", "flatRead"} => Ready
  /\ then \notin {"done", "kill", "all"} => Ready
  /\ then \in {"kill", "all"} => at \in {"flatten", "flatRead"}

\* A cached flat is true unless a stray order opened a position since the last
\* read of the exchange, and so is the one _native_exit acts on.
FlatSeen == acct.seen = 0 \/ at = "exitInfo" => mkt.pos = 0 \/ acct.strayed

\* The kill's task was asked for by a pause, and no poll comes in while it runs.
KillAsked == killTask \/ then = "kill" => acct.kill = "paused"

IInv ==
  /\ Typed /\ PostsCounted /\ RowsCounted /\ RowsKnown
  /\ Placed /\ FlatSeen /\ KillAsked /\ SlippedEntryIsOwed

\* flatten_all has halted the account before it flattens, and only the
\* owner's clear-halts takes that back.
AllHalted == then = "all" => acct.halt # "no"
\* What RowClosedOnlyWhenFlat and PositionLeftIsOwned say of one step; the
\* second up to a flatten-all that was cancelled with its halt cleared.
Booked ==
  /\ ~(acct.open \subseteq acct'.open) => mkt'.pos = 0 \/ acct.strayed
  /\ acct'.nextRow # acct.nextRow /\ acct'.open = acct.open
       => mkt'.pos = 0 \/ acct'.halt # "no"

Left ==
  /\ at' = "idle" /\ mkt'.pos # 0 /\ crashes' = crashes
  /\ \/ at = "posted" /\ mkt' # mkt
     \/ at \in {"readback", "flatten", "flatRead"}

Owned == acct'.trade # 0 \/ acct'.halt # "no" \/ acct'.need \/ acct'.kill = "paused"

OwnedUnlessAll == Left => Owned \/ (then = "all" /\ acct'.halt = acct.halt)

HaltedUnlessCleared ==
  then' = "all" => \/ acct'.halt # "no"
                   \/ then = "all" /\ (acct.halt = "no" \/ ClearHalts)

\* What every step is shown to do.
StepOK == IInv' /\ Booked /\ OwnedUnlessAll /\ HaltedUnlessCleared

-----------------------------------------------------------------------------
(* The pieces of the handlers.  They leave the books alone, ask for no      *)
(* less than was asked for, and read nothing.                               *)

SameBooks(x, y) ==
  /\ y.phase = x.phase /\ y.kill = x.kill
  /\ y.entries = x.entries /\ y.posts = x.posts /\ y.nextRow = x.nextRow
  /\ y.trade = x.trade /\ y.side = x.side /\ y.open = x.open

Later(x, y) ==
  /\ y \in Account /\ SameBooks(x, y)
  /\ x.need => y.need
  /\ x.halt # "no" => y.halt # "no"
  /\ y.seen \in {x.seen, NotRead} /\ y.strayed = x.strayed

\* The handler goes on from x, by itself or into _flatten.  It comes to
\* broker.enter only below the cap and while Resonant runs.
Goes(x) ==
  /\ Later(x, acct')
  /\ at' \in Awaits \ {"posted", "readback", "exitInfo", "flatRead"}
  /\ then' \in Callers \ {"kill", "all"}
  /\ at' = "precheck" => then' = "done" /\ acct'.entries < Cap /\ acct'.kill = "clear"

LEMMA LaterTrans ==
  ASSUME NEW x \in Account, NEW y \in Account, NEW z, Later(x, y), Later(y, z)
  PROVE  Later(x, z)
  BY DEF Later, SameBooks

LEMMA GoesOn ==
  ASSUME NEW x \in Account, NEW y, Later(x, y), Goes(y)
  PROVE  Goes(x)
  <1>1. y \in Account
    BY DEF Later
  <1>2. Later(x, acct')
    BY <1>1, LaterTrans DEF Goes
  <1>3. QED
    BY <1>2 DEF Goes

LEMMA SetHalt ==
  ASSUME NEW x \in Account, NEW why \in Halts \ {"no"}
  PROVE  Later(x, HaltDay(x, why)) /\ HaltDay(x, why).halt # "no"
         /\ HaltDay(x, why).need = x.need /\ HaltDay(x, why).seen = x.seen
  BY DEF HaltDay, ActiveHalt, Later, SameBooks, Account, Halts

LEMMA DayIsHalt == "day" \in Halts \ {"no"} /\ "all" \in Halts \ {"no"}
  BY DEF Halts

LEMMA SetUnseen ==
  ASSUME NEW x \in Account
  PROVE  Later(x, Unseen(x)) /\ Unseen(x).seen = NotRead
         /\ Unseen(x).halt = x.halt /\ Unseen(x).need = x.need
  BY DEF Unseen, Later, SameBooks, Account

LEMMA SetFlattenFailed ==
  ASSUME NEW x \in Account
  PROVE  Later(x, FlattenFailed(x)) /\ FlattenFailed(x).need
  BY DEF FlattenFailed, Later, SameBooks, Account

LEMMA Stay ==
  ASSUME NEW x \in Account
  PROVE  Later(x, x)
  BY DEF Later, SameBooks

LEMMA GoAwait ==
  ASSUME NEW x \in Account, NEW w \in Awaits \ {"posted", "readback", "exitInfo", "flatRead"},
         Await(x, w), w = "precheck" => x.entries < Cap /\ x.kill = "clear"
  PROVE  Goes(x)
  BY Stay DEF Await, Goes, Callers

LEMMA GoRelease ==
  ASSUME NEW x \in Account, Release(x)
  PROVE  Goes(x)
  BY Stay DEF Release, Goes, Callers, Awaits

LEMMA GoFlatten ==
  ASSUME NEW x \in Account, NEW c \in Callers \ {"kill", "all"},
         acct' = Unseen(x), at' = "flatten", then' = c
  PROVE  Goes(x)
  BY SetUnseen DEF Goes, Awaits

LEMMA GoEodGuard ==
  ASSUME NEW x \in Account, EodGuard(x)
  PROVE  Goes(x)
  BY GoAwait, GoRelease DEF EodGuard, Awaits

LEMMA GoCheckStops ==
  ASSUME NEW x \in Account, CheckStops(x)
  PROVE  Goes(x)
  <1>1. CASE EodGuard(x)
    BY <1>1, GoEodGuard
  <1>2. ASSUME FlattenThen(HaltDay(x, "day"), "eod", EodGuard(HaltDay(x, "day")))
        PROVE  Goes(x)
    <2> DEFINE h == HaltDay(x, "day")
    <2>1. Later(x, h)
      BY SetHalt, DayIsHalt
    <2>2. h \in Account
      BY <2>1 DEF Later
    <2> HIDE DEF h
    <2>3. Goes(h)
      BY <1>2, <2>2, GoFlatten, GoEodGuard DEF FlattenThen, Callers, h
    <2>4. QED
      BY <2>1, <2>3, GoesOn
  <1>3. QED
    BY <1>1, <1>2 DEF CheckStops

\* A handler that halts the day and flattens before it goes on.
LEMMA GoHaltAndStops ==
  ASSUME NEW x \in Account,
         FlattenThen(HaltDay(x, "day"), "stops", CheckStops(HaltDay(x, "day")))
  PROVE  Goes(x)
  <1> DEFINE h == HaltDay(x, "day")
  <1>1. Later(x, h) /\ h \in Account
    BY SetHalt, DayIsHalt DEF Later
  <1> HIDE DEF h
  <1>2. Goes(h)
    BY <1>1, GoFlatten, GoCheckStops DEF FlattenThen, Callers, h
  <1>3. QED
    BY <1>1, <1>2, GoesOn

LEMMA GoHaltAndRelease ==
  ASSUME NEW x \in Account,
         FlattenThen(HaltDay(x, "day"), "done", Release(HaltDay(x, "day")))
  PROVE  Goes(x) /\ (at' = "idle" => acct'.halt # "no")
  <1> DEFINE h == HaltDay(x, "day")
  <1>1. Later(x, h) /\ h \in Account /\ h.halt # "no"
    BY SetHalt, DayIsHalt DEF Later
  <1> HIDE DEF h
  <1>2. Goes(h)
    BY <1>1, GoFlatten, GoRelease DEF FlattenThen, Callers, h
  <1>3. Goes(x)
    BY <1>1, <1>2, GoesOn
  <1>4. acct'.halt # "no"
    BY <1>1, <1>2 DEF Goes, Later
  <1>5. QED
    BY <1>3, <1>4

LEMMA GoCheckSize ==
  ASSUME NEW x \in Account, CheckSize(x)
  PROVE  Goes(x)
  <1>1. ASSUME NEW r \in BOOLEAN, CheckStops([x EXCEPT !.reduced = r])
        PROVE  Goes(x)
    <2>1. Later(x, [x EXCEPT !.reduced = r]) /\ [x EXCEPT !.reduced = r] \in Account
      BY DEF Later, SameBooks, Account
    <2>2. QED
      BY <1>1, <2>1, GoCheckStops, GoesOn
  <1>2. ASSUME FlattenThen(x, "stops", CheckStops(x))
        PROVE  Goes(x)
    BY <1>2, GoFlatten, GoCheckStops DEF FlattenThen, Callers
  <1>3. QED
    BY <1>1, <1>2 DEF CheckSize

LEMMA GoCheckPosition ==
  ASSUME NEW x \in Account, CheckPosition(x)
  PROVE  Goes(x)
  <1>1. CASE FlattenThen(HaltDay(x, "day"), "stops", CheckStops(HaltDay(x, "day")))
    BY <1>1, GoHaltAndStops
  <1>2. CASE Await(x, "bracketRead")
    BY <1>2, GoAwait DEF Awaits
  <1>3. CASE CheckSize(x)
    BY <1>3, GoCheckSize
  <1>4. QED
    BY <1>1, <1>2, <1>3 DEF CheckPosition

\* _native_exit is entered flat, as far as the handler has read.
GoesToExit(x) ==
  acct' = x /\ at' = "exitInfo" /\ then' \in {"done", "stops"} /\ x.seen = 0 /\ x.trade # 0

LEMMA GoReconcile ==
  ASSUME NEW x \in Account, NEW p \in Sides, x.seen = p, Reconcile(x, p)
  PROVE  Goes(x) \/ GoesToExit(x)
  <1>1. CASE p = 0 /\ x.trade # 0 /\ NativeExit(x, "stops")
    BY <1>1 DEF NativeExit, GoesToExit
  <1>2. CASE FlattenThen(HaltDay(x, "day"), "done", Release(HaltDay(x, "day")))
    BY <1>2, GoHaltAndRelease
  <1>3. CASE IF Drifted(x, p) THEN FlattenThen(x, "done", Release(x)) ELSE CheckPosition(x)
    BY <1>3, GoFlatten, GoRelease, GoCheckPosition DEF FlattenThen, Callers
  <1>4. CASE Await(x, "orphanRead") \/ CheckStops(x)
    BY <1>4, GoAwait, GoCheckStops DEF Awaits
  <1>5. QED
    BY <1>1, <1>2, <1>3, <1>4 DEF Reconcile

LEMMA GoHeartbeatRest ==
  ASSUME NEW x \in Account, HeartbeatRest(x)
  PROVE  Goes(x)
  <1>1. PICK live \in BOOLEAN :
          LET y == [x EXCEPT !.hbOk = live, !.linkLost = @ /\ ~live] IN
          \/ Release(y)
          \/ \E t \in Sides : Await([y EXCEPT !.target = t], "hbRead")
    BY DEF HeartbeatRest
  <1> DEFINE y == [x EXCEPT !.hbOk = live, !.linkLost = @ /\ ~live]
  <1>2. Later(x, y) /\ y \in Account
    <2> DEFINE b == x.linkLost /\ ~live
               z == [x EXCEPT !.hbOk = live, !.linkLost = b]
    <2>1. b \in BOOLEAN /\ y = z
      BY DEF Account
    <2> HIDE DEF b
    <2>2. Later(x, z) /\ z \in Account
      BY <2>1 DEF Later, SameBooks, Account
    <2>3. QED
      BY <2>1, <2>2
  <1> HIDE DEF y
  <1>3. CASE Release(y)
    BY <1>2, <1>3, GoRelease, GoesOn
  <1>4. ASSUME NEW t \in Sides, Await([y EXCEPT !.target = t], "hbRead")
        PROVE  Goes(x)
    <2>1. Later(y, [y EXCEPT !.target = t]) /\ [y EXCEPT !.target = t] \in Account
      BY <1>2 DEF Later, SameBooks, Account
    <2>2. Goes([y EXCEPT !.target = t])
      BY <1>4, <2>1, GoAwait DEF Awaits
    <2>3. QED
      BY <1>2, <2>1, <2>2, GoesOn
  <1>5. QED
    BY <1>1, <1>3, <1>4 DEF y

LEMMA GoGate ==
  ASSUME NEW x \in Account, Gate(x)
  PROVE  Goes(x)
  <1>1. CASE Release(x)
    BY <1>1, GoRelease
  <1>2. CASE GateOpen(x) /\ x.entries >= Cap /\ Release(HaltDay(x, "day"))
    BY <1>2, SetHalt, DayIsHalt, GoRelease, GoesOn DEF Later
  <1>3. CASE GateOpen(x) /\ ~(x.entries >= Cap) /\ Await(x, "precheck")
    <2>1. x.kill = "clear" /\ x.entries < Cap
      BY <1>3, AccountAssumption DEF GateOpen, Account
    <2>2. QED
      BY <1>3, <2>1, GoAwait DEF Awaits
  <1>4. QED
    BY <1>1, <1>2, <1>3 DEF Gate

LEMMA GoIntentRest ==
  ASSUME NEW x \in Account, IntentRest(x)
  PROVE  Goes(x)
  <1>1. CASE Release(x)
    BY <1>1, GoRelease
  <1>2. ASSUME NEW t \in Sides,
               \/ Release([x EXCEPT !.target = t])
               \/ Await([x EXCEPT !.target = t], IF t = 0 THEN "exitRead" ELSE "entryRead")
        PROVE  Goes(x)
    <2> DEFINE y == [x EXCEPT !.target = t]
    <2>1. Later(x, y) /\ y \in Account
      BY DEF Later, SameBooks, Account
    <2> HIDE DEF y
    <2>2. Goes(y)
      BY <1>2, <2>1, GoRelease, GoAwait DEF y, Awaits
    <2>3. QED
      BY <2>1, <2>2, GoesOn
  <1>3. QED
    BY <1>1, <1>2 DEF IntentRest

LEMMA GoLinkCheck ==
  ASSUME NEW x \in Account, LinkCheck(x)
  PROVE  Goes(x)
  <1>1. Later(x, [x EXCEPT !.linkLost = TRUE, !.hbOk = FALSE])
    BY DEF Later, SameBooks, Account
  <1>2. QED
    BY <1>1, GoAwait, GoEodGuard, GoesOn DEF LinkCheck, Later, Awaits

LEMMA GoAfterFlatten ==
  ASSUME NEW x \in Account, NEW flat \in BOOLEAN, then \in Callers, AfterFlatten(x, flat)
  PROVE  /\ Goes(x)
         /\ then \in {"done", "kill", "all"} => at' = "idle" /\ acct' = x /\ then' = "done"
  <1>1. CASE then \in {"done", "kill", "all"}
    BY <1>1, GoRelease DEF AfterFlatten, Release
  <1>2. CASE then \in {"stops", "eod", "link"}
    BY <1>2, GoCheckStops, GoEodGuard, GoLinkCheck DEF AfterFlatten
  <1>3. CASE then \in {"hb", "intent", "entry"}
    BY <1>3, GoHeartbeatRest, GoIntentRest, GoGate, GoRelease DEF AfterFlatten
  <1>4. CASE then = "eodFlat"
    BY <1>4, GoAwait DEF AfterFlatten, Awaits
  <1>5. QED
    BY <1>1, <1>2, <1>3, <1>4 DEF Callers

-----------------------------------------------------------------------------
(* A handler's step, from the account x its pieces start with.              *)

\* x is the account as this step leaves it to the pieces: counted, numbered,
\* and with a cached flat that is true.
Settled(x) ==
  /\ x \in Account /\ x.phase = acct.phase /\ x.kill = acct.kill
  /\ x.posts <= x.entries + faults'
  /\ x.posts <= Cap + faults' /\ x.entries <= Cap + faults'
  /\ x.nextRow - 1 <= Earlier + x.posts + faults'
  /\ x.nextRow - 1 <= Earlier + x.entries + faults'
  /\ x.nextRow - 1 <= Earlier + Cap + faults'
  /\ x.nextRow - 1 + x.entries <= Earlier + Cap + x.posts + faults'
  /\ x.trade < x.nextRow
  /\ x.open \subseteq 1 .. (x.nextRow - 1)
  /\ x.seen = 0 => mkt'.pos = 0 \/ x.strayed

\* What a handler's step may do around the account.
Around ==
  /\ mkt' \in [pos : Sides, orders : 0 .. 2]
  /\ faults' \in 0 .. MaxFaults /\ faults' >= faults
  /\ silent' \in BOOLEAN
  /\ UNCHANGED <<killTask, allTask, daemonKill, eod, crashes, days>>

\* The rows a handler has closed, and the position it leaves.
ClosedFlat(x) ==
  /\ ~(acct.open \subseteq x.open) => mkt'.pos = 0 \/ acct.strayed
  /\ x.nextRow # acct.nextRow /\ x.open = acct.open => mkt'.pos = 0 \/ x.halt # "no"

LeavesOwned(x) ==
  /\ mkt'.pos # 0
  /\ \/ at = "posted" /\ mkt' # mkt
     \/ at \in {"readback", "flatten", "flatRead"}
  => x.trade # 0 \/ x.halt # "no" \/ x.need

LEMMA Arithmetic ==
  ASSUME IInv
  PROVE  /\ Earlier \in Nat /\ Cap \in Nat
         /\ faults \in Nat /\ acct.entries \in Nat /\ acct.posts \in Nat
         /\ acct.nextRow \in Nat /\ acct.trade \in Nat /\ acct.open \subseteq Nat
         /\ acct.rejects \in 0 .. MaxRejects
         /\ MaxRejects \in Nat /\ MaxFaults \in Nat
         /\ days' = days => Earlier' = Earlier
  <1>1. days \in Nat /\ Cap \in Nat
    BY AccountAssumption DEF IInv, Typed
  <1>2. Earlier \in Nat
    BY <1>1 DEF Earlier
  <1>3. days' = days => Earlier' = Earlier
    BY DEF Earlier
  <1>4. QED
    BY <1>1, <1>2, <1>3, AccountAssumption DEF IInv, Typed, Account

LEMMA GoesKeeps ==
  ASSUME IInv, NEW x, Settled(x), Around, Goes(x), ClosedFlat(x),
         LeavesOwned(x) \/ OwnedUnlessAll,
         Ready \/ (at' = "idle" /\ then' = "done")
  PROVE  StepOK
  <1> DEFINE y == acct'
  <1>1. /\ y \in Account /\ SameBooks(x, y)
        /\ x.need => y.need
        /\ x.halt # "no" => y.halt # "no"
        /\ y.seen \in {x.seen, NotRead} /\ y.strayed = x.strayed
    BY DEF Goes, Later
  <1>2. at' \in Awaits /\ at' \notin {"posted", "readback", "exitInfo"}
        /\ then' \in Callers /\ then' \notin {"kill", "all"}
    BY DEF Goes, Awaits, Callers
  <1>3. Uncounted' = 0 /\ Unbooked' = 0 /\ Earlier' = Earlier /\ Earlier \in Nat
    BY <1>2, Arithmetic DEF Uncounted, Unbooked, Around
  <1>4. Typed'
    BY <1>1, <1>2 DEF Around, Typed, IInv
  <1>5. faults \in Nat /\ faults' \in Nat /\ Cap \in Nat
    BY Arithmetic DEF Around
  <1>6. PostsCounted'
    BY <1>1, <1>3, <1>5 DEF PostsCounted, Settled, SameBooks, Account
  <1>7. RowsCounted'
    BY <1>1, <1>3, <1>5 DEF RowsCounted, Settled, SameBooks, Account
  <1>8. RowsKnown'
    BY <1>1 DEF RowsKnown, Settled, SameBooks
  <1>9. Placed'
    BY <1>1, <1>2 DEF Placed, Settled, SameBooks, Ready, Goes
  <1>10. FlatSeen'
    BY <1>1, <1>2, AccountAssumption DEF FlatSeen, Settled, NotRead
  <1>11. KillAsked'
    BY <1>1, <1>2 DEF KillAsked, IInv, Around, Settled, SameBooks
  <1>12. SlippedEntryIsOwed'
    BY <1>2 DEF SlippedEntryIsOwed, Goes
  <1>13. IInv'
    BY <1>4, <1>6, <1>7, <1>8, <1>9, <1>10, <1>11, <1>12 DEF IInv
  <1>14. Booked
    BY <1>1 DEF Booked, ClosedFlat, SameBooks
  <1>15. OwnedUnlessAll
    BY <1>1 DEF OwnedUnlessAll, Left, Owned, LeavesOwned, SameBooks
  <1>16. HaltedUnlessCleared
    BY <1>2 DEF HaltedUnlessCleared
  <1>17. QED
    BY <1>13, <1>14, <1>15, <1>16 DEF StepOK

\* Anything but a post leaves the account settled.
LEMMA StillSettled ==
  ASSUME IInv, Around, NEW x \in Account, at # "posted", SameBooks(acct, x),
         x.seen = 0 => mkt'.pos = 0 \/ x.strayed
  PROVE  Settled(x) /\ ClosedFlat(x)
  <1>1. faults \in Nat /\ faults' \in Nat /\ faults' >= faults
    BY Arithmetic DEF Around
  <1>2. Uncounted = 0 /\ Unbooked \in {0, 1}
    BY DEF Uncounted, Unbooked
  <1>3. /\ acct.posts <= acct.entries + faults'
        /\ acct.posts <= Cap + faults' /\ acct.entries <= Cap + faults'
    BY <1>1, <1>2, Arithmetic DEF IInv, PostsCounted
  <1>4. /\ acct.nextRow - 1 <= Earlier + acct.posts + faults'
        /\ acct.nextRow - 1 <= Earlier + acct.entries + faults'
        /\ acct.nextRow - 1 <= Earlier + Cap + faults'
        /\ acct.nextRow - 1 + acct.entries <= Earlier + Cap + acct.posts + faults'
    BY <1>1, <1>2, Arithmetic DEF IInv, RowsCounted
  <1>5. acct.trade < acct.nextRow /\ acct.open \subseteq 1 .. (acct.nextRow - 1)
    BY DEF IInv, RowsKnown
  <1>6. QED
    BY <1>3, <1>4, <1>5 DEF Settled, SameBooks, ClosedFlat

-----------------------------------------------------------------------------
(* The handlers: one lemma for the starts, one for each await.              *)

LEMMA FaultOrNot ==
  ASSUME IInv
  PROVE  /\ NoFault => faults' \in 0 .. MaxFaults /\ faults' >= faults /\ faults' = faults
         /\ Fault => faults' \in 0 .. MaxFaults /\ faults' >= faults
  BY Arithmetic DEF Fault, NoFault, IInv, Typed

LEMMA AcctTyped ==
  ASSUME IInv
  PROVE  /\ acct \in Account /\ mkt \in [pos : Sides, orders : 0 .. 2]
         /\ at \in Awaits /\ then \in Callers /\ silent \in BOOLEAN
         /\ mkt.pos \in Sides /\ CachedPos \in Sides
         /\ [mkt EXCEPT !.orders = 0] \in [pos : Sides, orders : 0 .. 2]
         /\ FlatMkt \in [pos : Sides, orders : 0 .. 2] /\ FlatMkt.pos = 0
         /\ NotRead # 0
  BY AccountAssumption DEF IInv, Typed, Account, CachedPos, FlatMkt, NotRead

\* The usual handler: the market stays or is swept, and x is read into.
LEMMA HandlerKeeps ==
  ASSUME IInv, NEW x \in Account, at # "posted", SameBooks(acct, x),
         acct.need => x.need, Goes(x),
         \/ x.seen \in {acct.seen, NotRead} /\ x.strayed = acct.strayed
         \/ x.seen = 0 => mkt.pos = 0 \/ x.strayed,
         mkt' = mkt \/ mkt' = [mkt EXCEPT !.orders = 0],
         NoFault \/ Fault, silent' \in BOOLEAN,
         UNCHANGED <<killTask, allTask, daemonKill, eod, crashes, days>>,
         Ready, at \notin {"readback", "flatten", "flatRead"}
  PROVE  StepOK
  <1>1. mkt'.pos = mkt.pos
    BY AcctTyped
  <1>2. Around
    BY FaultOrNot, AcctTyped DEF Around
  <1>3. x.seen = 0 => mkt'.pos = 0 \/ x.strayed
    BY <1>1, AcctTyped DEF IInv, FlatSeen
  <1>4. Settled(x) /\ ClosedFlat(x)
    BY <1>2, <1>3, StillSettled
  <1>5. LeavesOwned(x)
    BY DEF LeavesOwned
  <1>6. QED
    BY <1>2, <1>4, <1>5, GoesKeeps

LEMMA ReadsTyped ==
  ASSUME IInv, NEW p \in Sides \cup {NotRead}
  PROVE  /\ Saw(acct, p) \in Account /\ SameBooks(acct, Saw(acct, p))
         /\ Saw(acct, p).need = acct.need /\ Saw(acct, p).halt = acct.halt
         /\ Saw(acct, p).seen = p
  BY AcctTyped DEF Saw, SameBooks, Account

\* A cached read is the position, unless it is not flat or a stray order came.
LEMMA CachedTyped ==
  ASSUME IInv
  PROVE  LET x == SawCached(acct) IN
         /\ x \in Account /\ SameBooks(acct, x) /\ x.need = acct.need
         /\ x.seen = CachedPos /\ (x.seen = 0 => mkt.pos = 0 \/ x.strayed)
  <1> DEFINE c == CachedPos
             b == acct.strayed /\ acct.seen # NotRead
             x == [acct EXCEPT !.seen = c, !.strayed = b]
  <1>1. c \in Sides /\ b \in BOOLEAN
    BY AcctTyped DEF Account
  <1>2. c = 0 => mkt.pos = 0 \/ b
    BY AcctTyped DEF CachedPos, IInv, FlatSeen
  <1> HIDE DEF c, b
  <1>3. /\ x \in Account /\ SameBooks(acct, x) /\ x.need = acct.need
        /\ x.seen = c /\ x.strayed = b
    BY <1>1, AcctTyped DEF Account, SameBooks
  <1>4. SawCached(acct) = x
    BY DEF SawCached, c, b
  <1> HIDE DEF x
  <1>5. QED
    BY <1>2, <1>3, <1>4 DEF c

LEMMA NewBootTyped ==
  ASSUME IInv
  PROVE  LET x == [acct EXCEPT !.target = 0] IN
         /\ x \in Account /\ SameBooks(acct, x) /\ x.need = acct.need
         /\ x.seen = acct.seen /\ x.strayed = acct.strayed
  BY AcctTyped, AccountAssumption DEF Account, SameBooks

LEMMA HeartbeatStartOK ==
  ASSUME IInv, HeartbeatStart
  PROVE  StepOK
  <1> DEFINE x == [acct EXCEPT !.target = 0]
  <1>1. /\ x \in Account /\ SameBooks(acct, x) /\ x.need = acct.need /\ x.seen = acct.seen
        /\ x.strayed = acct.strayed
    BY NewBootTyped
  <1>2. acct \in Account /\ SameBooks(acct, acct)
    BY AcctTyped DEF SameBooks
  <1> HIDE DEF x
  <1>3. Goes(acct) \/ Goes(x)
    BY <1>1, <1>2, GoHeartbeatRest, GoFlatten DEF HeartbeatStart, FlattenThen, Callers, x
  <1>4. /\ Ready /\ at = "idle" /\ NoFault /\ mkt' = mkt
        /\ silent' \in BOOLEAN
        /\ UNCHANGED <<killTask, allTask, daemonKill, eod, crashes, days>>
    BY AcctTyped DEF HeartbeatStart
  <1>5. QED
    BY <1>1, <1>2, <1>3, <1>4, HandlerKeeps

LEMMA IntentStartOK ==
  ASSUME IInv, IntentStart
  PROVE  StepOK
  <1> DEFINE x == [acct EXCEPT !.target = 0]
  <1>1. /\ x \in Account /\ SameBooks(acct, x) /\ x.need = acct.need /\ x.seen = acct.seen
        /\ x.strayed = acct.strayed
    BY NewBootTyped
  <1>2. acct \in Account /\ SameBooks(acct, acct)
    BY AcctTyped DEF SameBooks
  <1> HIDE DEF x
  <1>3. Goes(acct) \/ Goes(x)
    BY <1>1, <1>2, GoIntentRest, GoFlatten DEF IntentStart, FlattenThen, Callers, x
  <1>4. /\ Ready /\ at = "idle" /\ NoFault /\ mkt' = mkt
        /\ silent' \in BOOLEAN
        /\ UNCHANGED <<killTask, allTask, daemonKill, eod, crashes, days>>
    BY AcctTyped DEF IntentStart
  <1>5. QED
    BY <1>1, <1>2, <1>3, <1>4, HandlerKeeps

LEMMA TickStartOK ==
  ASSUME IInv, TickStart
  PROVE  StepOK
  <1>1. acct \in Account /\ SameBooks(acct, acct)
    BY AcctTyped DEF SameBooks
  <1>2. Goes(acct)
    BY <1>1, GoLinkCheck, GoFlatten, GoAwait DEF TickStart, FlattenThen, Callers, Awaits
  <1>3. /\ Ready /\ at = "idle" /\ NoFault /\ mkt' = mkt
        /\ silent' \in BOOLEAN
        /\ UNCHANGED <<killTask, allTask, daemonKill, eod, crashes, days>>
    BY AcctTyped DEF TickStart, others
  <1>4. QED
    BY <1>1, <1>2, <1>3, HandlerKeeps

\* Every await of a handler but those of _flatten is one of a ready account.
LEMMA AwaitsReady ==
  ASSUME IInv, at \notin {"idle", "flatten", "flatRead"}
  PROVE  Ready
  BY DEF IInv, Placed

\* A step that reads, from the cache or the exchange, and goes on.
LEMMA ReaderTyped ==
  ASSUME IInv, NEW x \in {SawCached(acct), Saw(acct, mkt.pos)}
  PROVE  /\ x \in Account /\ SameBooks(acct, x) /\ x.need = acct.need
         /\ x.seen \in Sides /\ (x.seen = 0 => mkt.pos = 0 \/ x.strayed)
  <1>1. CASE x = SawCached(acct)
    BY <1>1, CachedTyped, AcctTyped
  <1>2. CASE x = Saw(acct, mkt.pos)
    BY <1>2, ReadsTyped, AcctTyped
  <1>3. QED
    BY <1>1, <1>2

LEMMA ReaderKeeps ==
  ASSUME IInv, NEW x \in {SawCached(acct), Saw(acct, mkt.pos)}, Goes(x) \/ Goes(acct),
         mkt' = mkt, NoFault \/ Fault, UNCHANGED others,
         at \notin {"idle", "posted", "readback", "flatten", "flatRead"}
  PROVE  StepOK
  <1>1. /\ x \in Account /\ SameBooks(acct, x) /\ x.need = acct.need
        /\ (x.seen = 0 => mkt.pos = 0 \/ x.strayed)
    BY ReaderTyped
  <1>2. acct \in Account /\ SameBooks(acct, acct)
    BY AcctTyped DEF SameBooks
  <1>3. Ready
    BY AwaitsReady
  <1>4. /\ silent' \in BOOLEAN
        /\ UNCHANGED <<killTask, allTask, daemonKill, eod, crashes, days>>
    BY AcctTyped DEF others
  <1>5. CASE Goes(x)
    BY <1>1, <1>3, <1>4, <1>5, HandlerKeeps
  <1>6. CASE Goes(acct)
    BY <1>2, <1>3, <1>4, <1>6, HandlerKeeps
  <1>7. QED
    BY <1>5, <1>6

LEMMA WatchdogReadOK ==
  ASSUME IInv, WatchdogRead
  PROVE  StepOK
  <1> DEFINE x == SawCached(acct)
  <1>1. acct \in Account /\ x \in Account
    BY AcctTyped, CachedTyped
  <1> HIDE DEF x
  <1>2. Goes(x) \/ Goes(acct)
    BY <1>1, GoLinkCheck, GoFlatten DEF WatchdogRead, FlattenThen, Callers, x
  <1>3. at = "wdRead" /\ mkt' = mkt /\ (NoFault \/ Fault) /\ UNCHANGED others
    BY DEF WatchdogRead
  <1>4. QED
    BY <1>2, <1>3, ReaderKeeps DEF x

LEMMA LinkReadOK ==
  ASSUME IInv, LinkRead
  PROVE  StepOK
  <1> DEFINE x == SawCached(acct)
  <1>1. acct \in Account /\ x \in Account
    BY AcctTyped, CachedTyped
  <1> HIDE DEF x
  <1>2. Goes(x) \/ Goes(acct)
    BY <1>1, GoRelease, GoFlatten DEF LinkRead, FlattenThen, Callers, x
  <1>3. at = "linkRead" /\ mkt' = mkt /\ (NoFault \/ Fault) /\ UNCHANGED others
    BY DEF LinkRead
  <1>4. QED
    BY <1>2, <1>3, ReaderKeeps DEF x

\* The other await a handler may come to: exit_info, on an account read flat.
LEMMA ExitKeeps ==
  ASSUME IInv, NEW x \in {SawCached(acct), Saw(acct, mkt.pos)}, GoesToExit(x),
         mkt' = mkt, NoFault, UNCHANGED others,
         at \notin {"idle", "posted", "readback", "flatten", "flatRead"}
  PROVE  StepOK
  <1>1. mkt.pos = 0 \/ x.strayed
    BY ReaderTyped DEF GoesToExit
  <1>2. /\ acct' \in Account /\ SameBooks(acct, acct') /\ acct' = x
        /\ acct'.need = acct.need /\ acct'.seen = 0
    BY ReaderTyped DEF GoesToExit
  <1>3. at' = "exitInfo" /\ then' \in {"done", "stops"} /\ then' \in Callers /\ at' \in Awaits
    BY DEF GoesToExit, Awaits, Callers
  <1>4. Ready
    BY AwaitsReady
  <1>5. UNCHANGED <<mkt, faults, killTask, allTask, daemonKill, silent, eod, crashes, days>>
    BY DEF others, NoFault
  <1>6. Typed'
    BY <1>2, <1>3, <1>5 DEF IInv, Typed
  <1>7. Uncounted' = 0 /\ Unbooked' = 0 /\ Uncounted = 0 /\ Unbooked = 0 /\ Earlier' = Earlier
    BY <1>3, <1>5, Arithmetic DEF Uncounted, Unbooked
  <1>8. PostsCounted' /\ RowsCounted' /\ RowsKnown'
    BY <1>2, <1>5, <1>7 DEF IInv, PostsCounted, RowsCounted, RowsKnown, SameBooks
  <1>9. Placed' /\ FlatSeen' /\ KillAsked' /\ SlippedEntryIsOwed'
    BY <1>1, <1>2, <1>3, <1>4, <1>5
       DEF IInv, Placed, FlatSeen, KillAsked, SlippedEntryIsOwed, SameBooks, Ready
  <1>10. Booked /\ OwnedUnlessAll /\ HaltedUnlessCleared
    BY <1>2, <1>3 DEF Booked, OwnedUnlessAll, Left, HaltedUnlessCleared, SameBooks
  <1>11. QED
    BY <1>6, <1>8, <1>9, <1>10 DEF IInv, StepOK

LEMMA HeartbeatReadOK ==
  ASSUME IInv, HeartbeatRead
  PROVE  StepOK
  <1> DEFINE x == SawCached(acct)
  <1>1. acct \in Account /\ x \in Account /\ x.seen = CachedPos /\ CachedPos \in Sides
    BY AcctTyped, CachedTyped
  <1>2. at = "hbRead" /\ mkt' = mkt /\ UNCHANGED others
    BY DEF HeartbeatRead
  <1> HIDE DEF x
  <1>3. CASE NoFault /\ Reconcile(x, CachedPos)
    <2>1. Goes(x) \/ GoesToExit(x)
      BY <1>1, <1>3, GoReconcile
    <2>2. QED
      BY <1>2, <1>3, <2>1, ReaderKeeps, ExitKeeps DEF x
  <1>4. CASE Fault /\ Release(acct)
    BY <1>1, <1>2, <1>4, GoRelease, ReaderKeeps
  <1>5. QED
    BY <1>3, <1>4 DEF HeartbeatRead, x

\* _close_row and self.trade = None.
LEMMA ClosedTyped ==
  ASSUME NEW x \in Account
  PROVE  LET y == CloseTrade(x) IN
         /\ y \in Account /\ y.phase = x.phase /\ y.kill = x.kill
         /\ y.entries = x.entries /\ y.posts = x.posts /\ y.nextRow = x.nextRow
         /\ y.trade = 0 /\ y.open = x.open \ {x.trade}
         /\ y.seen = x.seen /\ y.need = x.need /\ y.halt = x.halt
  <1> DEFINE c == TradeClose(x, x.trade)
  <1>1. /\ c \in Account /\ c.phase = x.phase /\ c.kill = x.kill
        /\ c.entries = x.entries /\ c.posts = x.posts /\ c.nextRow = x.nextRow
        /\ c.open = x.open \ {x.trade} /\ c.seen = x.seen /\ c.need = x.need /\ c.halt = x.halt
    BY DEF TradeClose, Account
  <1> HIDE DEF c
  <1>2. CloseTrade(x) = [c EXCEPT !.trade = 0, !.side = 0, !.reduced = FALSE]
    BY DEF CloseTrade, c
  <1>3. 0 \in Sides
    BY AccountAssumption
  <1> DEFINE y == [c EXCEPT !.trade = 0, !.side = 0, !.reduced = FALSE]
  <1>4. y \in Account
    BY <1>1, <1>3 DEF Account
  <1>5. /\ y.phase = c.phase /\ y.kill = c.kill
        /\ y.entries = c.entries /\ y.posts = c.posts /\ y.nextRow = c.nextRow
        /\ y.trade = 0 /\ y.open = c.open
        /\ y.seen = c.seen /\ y.need = c.need /\ y.halt = c.halt
    BY <1>1 DEF Account
  <1>6. QED
    BY <1>1, <1>2, <1>4, <1>5

\* _native_exit closes the row of an account that was read flat.
LEMMA ExitInfoOK ==
  ASSUME IInv, ExitInfo
  PROVE  StepOK
  <1> DEFINE c == CloseTrade(acct)
  <1>1. /\ c \in Account /\ c.phase = acct.phase /\ c.kill = acct.kill
        /\ c.entries = acct.entries /\ c.posts = acct.posts /\ c.nextRow = acct.nextRow
        /\ c.trade = 0 /\ c.open = acct.open \ {acct.trade}
    BY AcctTyped, ClosedTyped
  <1> HIDE DEF c
  <1>2. acct' = Unseen(c)
    BY DEF ExitInfo, c
  <1>3. /\ acct' \in Account /\ acct'.seen = NotRead /\ NotRead # 0
        /\ SameBooks(c, acct')
    BY <1>1, <1>2, SetUnseen, AcctTyped DEF Later
  <1>4. /\ at = "exitInfo" /\ at' = "exitSweep" /\ then' = then
        /\ UNCHANGED <<mkt, faults, killTask, allTask, daemonKill, silent, eod, crashes, days>>
    BY DEF ExitInfo, others, NoFault
  <1>5. Typed'
    BY <1>3, <1>4 DEF IInv, Typed, Awaits
  <1>6. Uncounted' = 0 /\ Unbooked' = 0 /\ Uncounted = 0 /\ Unbooked = 0 /\ Earlier' = Earlier
    BY <1>4, Arithmetic DEF Uncounted, Unbooked
  <1>7. PostsCounted' /\ RowsCounted' /\ RowsKnown'
    BY <1>1, <1>3, <1>4, <1>6, Arithmetic
       DEF IInv, PostsCounted, RowsCounted, RowsKnown, SameBooks
  <1>8. Placed' /\ FlatSeen' /\ KillAsked' /\ SlippedEntryIsOwed'
    BY <1>1, <1>3, <1>4
       DEF IInv, Placed, FlatSeen, KillAsked, SlippedEntryIsOwed, SameBooks, Ready
  <1>9. Booked
    BY <1>1, <1>3, <1>4 DEF Booked, IInv, FlatSeen, SameBooks
  <1>10. OwnedUnlessAll /\ HaltedUnlessCleared
    BY <1>4 DEF OwnedUnlessAll, Left, HaltedUnlessCleared, IInv, Placed
  <1>11. QED
    BY <1>5, <1>7, <1>8, <1>9, <1>10 DEF IInv, StepOK

\* The orders are swept, or cannot be and the day is halted.
LEMMA ExitSweepOK ==
  ASSUME IInv, ExitSweep
  PROVE  StepOK
  <1>1. /\ at = "exitSweep" /\ (NoFault \/ Fault)
        /\ mkt' = mkt \/ mkt' = [mkt EXCEPT !.orders = 0]
    BY DEF ExitSweep, Sweep
  <1>2. /\ silent' \in BOOLEAN
        /\ UNCHANGED <<killTask, allTask, daemonKill, eod, crashes, days>>
    BY AcctTyped DEF ExitSweep, others
  <1>3. Ready
    BY <1>1, AwaitsReady
  <1> DEFINE h == HaltDay(acct, "day")
  <1>4. Later(acct, h) /\ h \in Account
    BY AcctTyped, SetHalt, DayIsHalt DEF Later
  <1>5. PICK x \in {acct, h} : CheckStops(Unseen(x)) \/ Release(Unseen(x))
    BY DEF ExitSweep
  <1>6. x \in Account /\ Later(acct, x)
    BY <1>4, <1>5, AcctTyped, Stay
  <1> HIDE DEF h
  <1>7. Unseen(x) \in Account /\ Later(acct, Unseen(x)) /\ Goes(Unseen(x))
    BY <1>5, <1>6, AcctTyped, SetUnseen, LaterTrans, GoCheckStops, GoRelease DEF Later
  <1>8. QED
    BY <1>1, <1>2, <1>3, <1>7, HandlerKeeps DEF Later

LEMMA BracketReadOK ==
  ASSUME IInv, BracketRead
  PROVE  StepOK
  <1>1. acct \in Account /\ SameBooks(acct, acct) /\ silent \in BOOLEAN
    BY AcctTyped DEF SameBooks
  <1>2. Goes(acct)
    BY <1>1, GoHaltAndStops, GoCheckSize, GoCheckStops DEF BracketRead
  <1>3. at = "bracketRead" /\ mkt' = mkt /\ (NoFault \/ Fault) /\ UNCHANGED others
    BY DEF BracketRead
  <1>4. silent' \in BOOLEAN /\ Ready
        /\ UNCHANGED <<killTask, allTask, daemonKill, eod, crashes, days>>
    BY <1>1, <1>3, AwaitsReady DEF others
  <1>5. QED
    BY <1>1, <1>2, <1>3, <1>4, HandlerKeeps

\* alerted is a field of its own.
LEMMA SetAlerted ==
  ASSUME NEW x \in Account, NEW b \in BOOLEAN
  PROVE  LET y == [x EXCEPT !.alerted = b] IN
         /\ y \in Account /\ Later(x, y)
  BY DEF Account, Later, SameBooks

LEMMA OrphanReadOK ==
  ASSUME IInv, OrphanRead
  PROVE  StepOK
  <1> DEFINE x == IF mkt.orders > 0 THEN Saw(acct, mkt.pos) ELSE acct
             y == [x EXCEPT !.alerted = FALSE]
  <1>1. /\ x \in Account /\ SameBooks(acct, x) /\ x.need = acct.need
        /\ x.seen = mkt.pos \/ x = acct
    BY AcctTyped, ReadsTyped DEF SameBooks
  <1>2. acct \in Account /\ SameBooks(acct, acct) /\ silent \in BOOLEAN
    BY AcctTyped DEF SameBooks
  <1>3. y \in Account /\ Later(x, y)
    BY <1>1, SetAlerted
  <1> HIDE DEF x
  <1>4. Goes(x) \/ Goes(y) \/ Goes(acct)
    BY <1>1, <1>2, <1>3, GoCheckStops, GoAwait DEF OrphanRead, Awaits, x
  <1>5. Goes(x) \/ Goes(acct)
    BY <1>1, <1>3, <1>4, GoesOn
  <1>6. at = "orphanRead" /\ mkt' = mkt /\ (NoFault \/ Fault) /\ UNCHANGED others
    BY DEF OrphanRead
  <1>7. silent' \in BOOLEAN /\ Ready
        /\ UNCHANGED <<killTask, allTask, daemonKill, eod, crashes, days>>
    BY <1>2, <1>6, AwaitsReady DEF others
  <1>8. \/ x.seen \in {acct.seen, NotRead} /\ x.strayed = acct.strayed
        \/ x.seen = 0 => mkt.pos = 0 \/ x.strayed
    BY <1>1
  <1>9. QED
    BY <1>1, <1>2, <1>5, <1>6, <1>7, <1>8, HandlerKeeps

LEMMA OrphanSweepOK ==
  ASSUME IInv, OrphanSweep
  PROVE  StepOK
  <1> DEFINE x == Unseen(acct)
             y == [x EXCEPT !.alerted = FALSE]
             z == [x EXCEPT !.alerted = TRUE]
             h == HaltDay(z, "day")
  <1>1. x \in Account /\ Later(acct, x)
    BY AcctTyped, SetUnseen DEF Later
  <1> HIDE DEF x
  <1>2. y \in Account /\ Later(x, y) /\ z \in Account /\ Later(x, z)
    BY <1>1, SetAlerted
  <1> HIDE DEF z
  <1>3. h \in Account /\ Later(z, h)
    BY <1>2, SetHalt, DayIsHalt DEF Later
  <1>4. CheckStops(y) \/ CheckStops(x) \/ CheckStops(h)
    BY DEF OrphanSweep, x, z
  <1>5. Goes(y) \/ Goes(x) \/ Goes(h)
    BY <1>1, <1>2, <1>3, <1>4, GoCheckStops
  <1>6. Goes(x)
    BY <1>1, <1>2, <1>3, <1>5, GoesOn
  <1>7. /\ at = "orphanSweep" /\ (NoFault \/ Fault)
        /\ mkt' = mkt \/ mkt' = [mkt EXCEPT !.orders = 0]
        /\ silent' = silent
        /\ UNCHANGED <<killTask, allTask, daemonKill, eod, crashes, days>>
    BY DEF OrphanSweep, Sweep, others
  <1>8. silent' \in BOOLEAN /\ Ready
    BY <1>7, AcctTyped, AwaitsReady
  <1>9. QED
    BY <1>1, <1>6, <1>7, <1>8, HandlerKeeps DEF Later

\* Once the end-of-day guard has found the account flat it is done.
LEMMA SetEodDone ==
  ASSUME NEW x \in Account, NEW b \in BOOLEAN
  PROVE  LET y == [x EXCEPT !.eodDone = b] IN
         /\ y \in Account /\ Later(x, y)
  BY DEF Account, Later, SameBooks

LEMMA EodReadOK ==
  ASSUME IInv, EodRead
  PROVE  StepOK
  <1> DEFINE x == Saw(acct, mkt.pos)
             y == [x EXCEPT !.eodDone = TRUE]
  <1>1. acct \in Account /\ x \in Account
    BY AcctTyped, ReadsTyped
  <1>2. y \in Account /\ Later(x, y)
    BY <1>1, SetEodDone
  <1> HIDE DEF x
  <1>3. Goes(x) \/ Goes(y) \/ Goes(acct)
    BY <1>1, <1>2, GoRelease, GoAwait, GoFlatten DEF EodRead, FlattenThen, Callers, Awaits, x
  <1>4. Goes(x) \/ Goes(acct)
    BY <1>1, <1>2, <1>3, GoesOn
  <1>5. at = "eodRead" /\ mkt' = mkt /\ (NoFault \/ Fault) /\ UNCHANGED others
    BY DEF EodRead
  <1>6. QED
    BY <1>4, <1>5, ReaderKeeps DEF x

LEMMA EodSweepOK ==
  ASSUME IInv, EodSweep
  PROVE  StepOK
  <1>1. Unseen(acct) \in Account /\ Later(acct, Unseen(acct))
    BY AcctTyped, SetUnseen DEF Later
  <1>2. Goes(Unseen(acct))
    BY <1>1, GoAwait DEF EodSweep, Awaits
  <1>3. /\ at = "eodSweep" /\ (NoFault \/ Fault)
        /\ mkt' = mkt \/ mkt' = [mkt EXCEPT !.orders = 0]
        /\ silent' = silent
        /\ UNCHANGED <<killTask, allTask, daemonKill, eod, crashes, days>>
    BY DEF EodSweep, Sweep, others
  <1>4. silent' \in BOOLEAN /\ Ready
    BY <1>3, AcctTyped, AwaitsReady
  <1>5. QED
    BY <1>1, <1>2, <1>3, <1>4, HandlerKeeps DEF Later

LEMMA EodCheckOK ==
  ASSUME IInv, EodCheck
  PROVE  StepOK
  <1> DEFINE x == Saw(acct, mkt.pos)
             b == mkt.pos = 0
             y == [x EXCEPT !.eodDone = b]
  <1>1. acct \in Account /\ x \in Account
    BY AcctTyped, ReadsTyped
  <1>2. b \in BOOLEAN
    OBVIOUS
  <1>3. Release([Saw(acct, mkt.pos) EXCEPT !.eodDone = mkt.pos = 0]) \/ Release(acct)
    BY DEF EodCheck
  <1> HIDE DEF x, b
  <1>4. y \in Account /\ Later(x, y)
    BY <1>1, <1>2, SetEodDone
  <1>5. Release(y) \/ Release(acct)
    BY <1>3 DEF x, b
  <1>6. Goes(x) \/ Goes(acct)
    BY <1>1, <1>4, <1>5, GoRelease, GoesOn
  <1>7. at = "eodCheck" /\ mkt' = mkt /\ (NoFault \/ Fault) /\ UNCHANGED others
    BY DEF EodCheck
  <1>8. QED
    BY <1>6, <1>7, ReaderKeeps DEF x

LEMMA ExitReadOK ==
  ASSUME IInv, ExitRead
  PROVE  StepOK
  <1> DEFINE x == Saw(acct, mkt.pos)
             y == [acct EXCEPT !.need = TRUE]
  <1>1. acct \in Account /\ x \in Account /\ x.seen = mkt.pos
    BY AcctTyped, ReadsTyped
  <1>2. y \in Account /\ Later(acct, y)
    BY <1>1 DEF Account, Later, SameBooks
  <1> HIDE DEF x
  <1>3. /\ at = "exitRead" /\ mkt' = mkt /\ (NoFault \/ Fault) /\ UNCHANGED others
    BY DEF ExitRead
  <1>4. CASE NoFault /\ mkt.pos # 0 /\ FlattenThen(x, "done", Release(x))
    BY <1>1, <1>3, <1>4, GoFlatten, GoRelease, ReaderKeeps DEF FlattenThen, Callers, x
  <1>5. CASE NoFault /\ mkt.pos = 0 /\ x.trade # 0 /\ NativeExit(x, "done")
    <2>1. GoesToExit(x)
      BY <1>1, <1>5 DEF NativeExit, GoesToExit
    <2>2. QED
      BY <1>3, <1>5, <2>1, ExitKeeps DEF x
  <1>6. CASE NoFault /\ Release(x)
    BY <1>1, <1>3, <1>6, GoRelease, ReaderKeeps DEF x
  <1>7. CASE Fault /\ Release(y)
    BY <1>1, <1>2, <1>3, <1>7, GoRelease, GoesOn, ReaderKeeps
  <1>8. QED
    BY <1>4, <1>5, <1>6, <1>7 DEF ExitRead, x

LEMMA EntryReadOK ==
  ASSUME IInv, EntryRead
  PROVE  StepOK
  <1> DEFINE x == Saw(acct, mkt.pos)
  <1>1. acct \in Account /\ x \in Account
    BY AcctTyped, ReadsTyped
  <1> HIDE DEF x
  <1>2. Goes(x) \/ Goes(acct)
    BY <1>1, GoRelease, GoGate, GoFlatten DEF EntryRead, FlattenThen, Callers, x
  <1>3. at = "entryRead" /\ mkt' = mkt /\ (NoFault \/ Fault) /\ UNCHANGED others
    BY DEF EntryRead
  <1>4. QED
    BY <1>2, <1>3, ReaderKeeps DEF x

-----------------------------------------------------------------------------
(* An entry under way: counted below the cap, posted, read back.            *)

\* self.entries += 1, once broker.enter has returned.
LEMMA CountEntry ==
  ASSUME IInv, at \in {"precheck", "posted"}, Around
  PROVE  LET x == [acct EXCEPT !.entries = @ + 1] IN
         /\ x \in Account /\ x.phase = acct.phase /\ x.kill = acct.kill
         /\ x.posts = acct.posts /\ x.nextRow = acct.nextRow /\ x.trade = acct.trade
         /\ x.open = acct.open /\ x.need = acct.need /\ x.halt = acct.halt
         /\ x.seen = acct.seen
         /\ x.entries = acct.entries + 1
         /\ x.posts <= x.entries + faults'
         /\ x.posts <= Cap + faults' /\ x.entries <= Cap + faults'
         /\ x.nextRow - 1 + Unbooked <= Earlier + x.posts + faults'
         /\ x.nextRow - 1 + Unbooked <= Earlier + x.entries + faults'
         /\ x.nextRow - 1 + Unbooked <= Earlier + Cap + faults'
         /\ x.nextRow - 1 + Unbooked + x.entries <= Earlier + Cap + x.posts + faults'
  <1>1. acct.entries < Cap
    BY DEF IInv, Placed
  <1>2. faults' \in Nat /\ faults' >= faults
    BY Arithmetic DEF Around
  <1>3. Uncounted \in {0, 1} /\ Unbooked \in {0, 1}
    BY DEF Uncounted, Unbooked
  <1> DEFINE x == [acct EXCEPT !.entries = @ + 1]
  <1>4. /\ x \in Account /\ x.phase = acct.phase /\ x.kill = acct.kill
        /\ x.posts = acct.posts /\ x.nextRow = acct.nextRow /\ x.trade = acct.trade
        /\ x.open = acct.open /\ x.need = acct.need /\ x.halt = acct.halt
        /\ x.seen = acct.seen /\ x.entries = acct.entries + 1
    BY AcctTyped DEF Account
  <1> HIDE DEF x
  <1>5. /\ x.posts <= x.entries + faults'
        /\ x.posts <= Cap + faults' /\ x.entries <= Cap + faults'
    BY <1>1, <1>2, <1>3, <1>4, Arithmetic DEF IInv, PostsCounted
  <1>6. /\ x.nextRow - 1 + Unbooked <= Earlier + x.posts + faults'
        /\ x.nextRow - 1 + Unbooked <= Earlier + x.entries + faults'
        /\ x.nextRow - 1 + Unbooked <= Earlier + Cap + faults'
        /\ x.nextRow - 1 + Unbooked + x.entries <= Earlier + Cap + x.posts + faults'
    BY <1>1, <1>2, <1>3, <1>4, Arithmetic DEF IInv, RowsCounted
  <1>7. QED
    BY <1>4, <1>5, <1>6 DEF x

\* The counted entry is settled, and so is what differs from it only in halt,
\* need, rejects and the like.
LEMMA CountedSettled ==
  ASSUME IInv, at \in {"precheck", "posted"}, Around, NEW y \in Account,
         SameBooks([acct EXCEPT !.entries = @ + 1], y), y.seen = NotRead
  PROVE  Settled(y) /\ ClosedFlat(y)
  <1> DEFINE x == [acct EXCEPT !.entries = @ + 1]
  <1>1. /\ x.phase = acct.phase /\ x.kill = acct.kill
        /\ x.posts = acct.posts /\ x.nextRow = acct.nextRow /\ x.trade = acct.trade
        /\ x.open = acct.open
        /\ x.posts <= x.entries + faults'
        /\ x.posts <= Cap + faults' /\ x.entries <= Cap + faults'
        /\ x.nextRow - 1 + Unbooked <= Earlier + x.posts + faults'
        /\ x.nextRow - 1 + Unbooked <= Earlier + x.entries + faults'
        /\ x.nextRow - 1 + Unbooked <= Earlier + Cap + faults'
        /\ x.nextRow - 1 + Unbooked + x.entries <= Earlier + Cap + x.posts + faults'
        /\ x \in Account
    BY CountEntry
  <1> HIDE DEF x
  <1>2. SameBooks(x, y)
    BY DEF x
  <1>3. Unbooked \in {0, 1} /\ Earlier \in Nat /\ Cap \in Nat /\ faults' \in Nat
    BY Arithmetic DEF Unbooked, Around
  <1>4. x.posts \in Nat /\ x.entries \in Nat /\ x.nextRow \in Nat
    BY <1>1 DEF Account
  <1>5. /\ y.nextRow - 1 <= Earlier + y.posts + faults'
        /\ y.nextRow - 1 <= Earlier + y.entries + faults'
        /\ y.nextRow - 1 <= Earlier + Cap + faults'
        /\ y.nextRow - 1 + y.entries <= Earlier + Cap + y.posts + faults'
    BY <1>1, <1>2, <1>3, <1>4 DEF SameBooks
  <1>6. acct.trade < acct.nextRow /\ acct.open \subseteq 1 .. (acct.nextRow - 1)
    BY DEF IInv, RowsKnown
  <1>7. y.seen # 0
    BY AcctTyped
  <1>8. QED
    BY <1>1, <1>2, <1>5, <1>6, <1>7 DEF Settled, SameBooks, ClosedFlat

LEMMA SetRejects ==
  ASSUME NEW x \in Account, NEW n \in 0 .. MaxRejects
  PROVE  LET y == [x EXCEPT !.rejects = n] IN
         y \in Account /\ Later(x, y) /\ y.seen = x.seen /\ y.halt = x.halt /\ y.need = x.need
                       /\ y.sending = x.sending
  BY DEF Account, Later, SameBooks

\* broker.enter gives up before the POST.
LEMMA PrecheckEnds ==
  ASSUME IInv, at = "precheck", mkt' = mkt, NoFault \/ Fault, UNCHANGED others,
         LET x == Unseen([acct EXCEPT !.entries = @ + 1]) IN
         Release(HaltDay(x, "day")) \/ Release([x EXCEPT !.rejects = 0])
  PROVE  StepOK
  <1> DEFINE c == [acct EXCEPT !.entries = @ + 1]
             x == Unseen(c)
  <1>1. Around
    BY FaultOrNot, AcctTyped DEF Around, others
  <1>2. c \in Account
    BY <1>1, CountEntry
  <1> HIDE DEF c
  <1>3. x \in Account /\ SameBooks(c, x) /\ x.seen = NotRead
    BY <1>2, SetUnseen DEF Later
  <1>4. Release(HaltDay(x, "day")) \/ Release([x EXCEPT !.rejects = 0])
    BY DEF c
  <1>5. 0 \in 0 .. MaxRejects
    BY Arithmetic
  <1> HIDE DEF x
  <1>6. Goes(x)
    BY <1>3, <1>4, <1>5, SetHalt, DayIsHalt, SetRejects, GoRelease, GoesOn DEF Later
  <1>7. Settled(x) /\ ClosedFlat(x)
    BY <1>1, <1>3, CountedSettled DEF c
  <1>8. Ready /\ LeavesOwned(x)
    BY AwaitsReady DEF LeavesOwned
  <1>9. QED
    BY <1>1, <1>6, <1>7, <1>8, GoesKeeps

\* An order row is written "sending" before the POST.
LEMMA OrderNewTyped ==
  ASSUME NEW x \in Account
  PROVE  LET y == OrderNew(x) IN
         /\ y \in Account /\ y.posts = x.posts + 1 /\ y.entries = x.entries
         /\ y.nextRow = x.nextRow /\ y.trade = x.trade /\ y.open = x.open
         /\ y.phase = x.phase /\ y.kill = x.kill /\ y.need = x.need /\ y.seen = x.seen
  <1> DEFINE v == [x EXCEPT !.sending = TRUE]
             n == x.posts + 1
  <1>1. /\ v \in Account /\ v.posts = x.posts /\ v.entries = x.entries
        /\ v.nextRow = x.nextRow /\ v.trade = x.trade /\ v.open = x.open
        /\ v.phase = x.phase /\ v.kill = x.kill /\ v.need = x.need /\ v.seen = x.seen
    BY DEF Account
  <1>2. n \in Nat
    BY DEF Account
  <1>3. OrderNew(x) = [v EXCEPT !.posts = n]
    BY DEF OrderNew, Account
  <1> HIDE DEF v
  <1>4. [v EXCEPT !.posts = n] \in Account
    <2> HIDE DEF n
    <2>1. QED
      BY <1>1, <1>2 DEF Account
  <1>5. QED
    BY <1>1, <1>3, <1>4 DEF Account

\* The rows are written, then the order is posted.
LEMMA PrecheckPosts ==
  ASSUME IInv, at = "precheck", NoFault, Sweep, UNCHANGED others,
         Await(OrderNew(Unseen(acct)), "posted")
  PROVE  StepOK
  <1> DEFINE u == Unseen(acct)
  <1>1. /\ u \in Account /\ SameBooks(acct, u) /\ u.seen = NotRead /\ u.need = acct.need
    BY AcctTyped, SetUnseen DEF Later
  <1> HIDE DEF u
  <1>2. acct' = OrderNew(u) /\ at' = "posted" /\ then' = "done"
    BY DEF Await, u
  <1>3. /\ acct' \in Account /\ acct'.posts = acct.posts + 1 /\ acct'.entries = acct.entries
        /\ acct'.nextRow = acct.nextRow /\ acct'.trade = acct.trade /\ acct'.open = acct.open
        /\ acct'.phase = acct.phase /\ acct'.kill = acct.kill /\ acct'.need = acct.need
        /\ acct'.seen = NotRead
    BY <1>1, <1>2, OrderNewTyped DEF SameBooks
  <1>4. /\ mkt' \in [pos : Sides, orders : 0 .. 2] /\ mkt'.pos = mkt.pos
        /\ UNCHANGED <<faults, killTask, allTask, daemonKill, silent, eod, crashes, days>>
    BY AcctTyped DEF Sweep, NoFault, others
  <1>5. Typed'
    BY <1>2, <1>3, <1>4 DEF IInv, Typed, Awaits, Callers
  <1>6. Uncounted = 0 /\ Unbooked = 0 /\ Uncounted' = 1 /\ Unbooked' = 1 /\ Earlier' = Earlier
    BY <1>2, <1>4, Arithmetic DEF Uncounted, Unbooked
  <1>7. acct.entries < Cap /\ Ready
    BY AwaitsReady DEF IInv, Placed
  <1>8. PostsCounted'
    BY <1>3, <1>4, <1>6, <1>7, Arithmetic DEF IInv, PostsCounted
  <1>9. RowsCounted'
    <2>1. /\ acct.nextRow - 1 <= Earlier + acct.posts + faults
          /\ acct.nextRow - 1 <= Earlier + acct.entries + faults
          /\ acct.nextRow - 1 <= Earlier + Cap + faults
          /\ acct.nextRow - 1 + acct.entries <= Earlier + Cap + acct.posts + faults
      BY <1>6, Arithmetic DEF IInv, RowsCounted
    <2>2. acct.nextRow <= Earlier + Cap + faults
      BY <1>7, <2>1, Arithmetic
    <2>3. QED
      BY <1>3, <1>4, <1>6, <2>1, <2>2, Arithmetic DEF RowsCounted
  <1>10. RowsKnown' /\ Placed' /\ FlatSeen'
    BY <1>2, <1>3, <1>4, <1>7, AcctTyped DEF IInv, RowsKnown, Placed, FlatSeen, Ready
  <1>13. KillAsked' /\ SlippedEntryIsOwed'
    BY <1>1, <1>2, <1>3, <1>4 DEF IInv, KillAsked, SlippedEntryIsOwed
  <1>11. Booked /\ OwnedUnlessAll /\ HaltedUnlessCleared
    BY <1>2, <1>3 DEF Booked, OwnedUnlessAll, Left, HaltedUnlessCleared
  <1>12. QED
    BY <1>5, <1>8, <1>9, <1>10, <1>11, <1>13 DEF IInv, StepOK

LEMMA PrecheckOK ==
  ASSUME IInv, Precheck
  PROVE  StepOK
  <1>1. at = "precheck" /\ UNCHANGED others
    BY DEF Precheck
  <1>2. \/ /\ mkt' = mkt /\ (NoFault \/ Fault)
           /\ LET x == Unseen([acct EXCEPT !.entries = @ + 1]) IN
              Release(HaltDay(x, "day")) \/ Release([x EXCEPT !.rejects = 0])
        \/ NoFault /\ Sweep /\ Await(OrderNew(Unseen(acct)), "posted")
    BY DEF Precheck
  <1>3. QED
    BY <1>1, <1>2, PrecheckEnds, PrecheckPosts

\* broker.enter has returned and the handler with it.
LEMMA PostedReturns ==
  ASSUME IInv, at = "posted", Around,
         NEW c \in Account, Later([acct EXCEPT !.entries = @ + 1], c), Release(c),
         mkt' = mkt \/ mkt'.pos = 0 \/ c.halt # "no"
  PROVE  StepOK
  <1> DEFINE x == [acct EXCEPT !.entries = @ + 1]
  <1>1. x.seen = NotRead
    BY CountEntry DEF IInv, Placed
  <1>2. SameBooks(x, c) /\ c.seen = NotRead
    BY <1>1 DEF Later
  <1>3. Settled(c) /\ ClosedFlat(c)
    BY <1>2, CountedSettled
  <1>4. LeavesOwned(c)
    BY DEF LeavesOwned
  <1>5. Goes(c) /\ Ready
    BY GoRelease, AwaitsReady
  <1>6. QED
    BY <1>3, <1>4, <1>5, GoesKeeps

\* _record_closed_at_entry uses up a row number and leaves no row open.
LEMMA RecordClosedTyped ==
  ASSUME NEW x \in Account
  PROVE  LET y == RecordClosedAtEntry(x) IN
         /\ y \in Account /\ y.nextRow = x.nextRow + 1 /\ y.trade = x.trade
         /\ y.open \subseteq x.open /\ x.open \ {x.nextRow} \subseteq y.open
         /\ y.posts = x.posts /\ y.entries = x.entries
         /\ y.phase = x.phase /\ y.kill = x.kill /\ y.need = x.need /\ y.seen = x.seen
  <1> DEFINE n == x.nextRow + 1
             o == x.open \cup {x.nextRow}
             v == [x EXCEPT !.open = o]
             w == [v EXCEPT !.nextRow = n]
  <1>1. n \in Nat \ {0} /\ o \in SUBSET Nat
    BY DEF Account
  <1>2. TradeOpen(x) = w
    BY DEF TradeOpen, Account
  <1> HIDE DEF n, o
  <1>3. /\ v \in Account /\ v.trade = x.trade /\ v.open = o /\ v.posts = x.posts
        /\ v.entries = x.entries /\ v.phase = x.phase /\ v.kill = x.kill
        /\ v.need = x.need /\ v.seen = x.seen
    BY <1>1 DEF Account
  <1> HIDE DEF v
  <1>4. /\ w \in Account /\ w.nextRow = n /\ w.trade = x.trade /\ w.open = o
        /\ w.posts = x.posts
        /\ w.entries = x.entries /\ w.phase = x.phase /\ w.kill = x.kill
        /\ w.need = x.need /\ w.seen = x.seen
    BY <1>1, <1>3 DEF Account
  <1> HIDE DEF w
  <1>5. RecordClosedAtEntry(x) = [w EXCEPT !.open = w.open \ {x.nextRow}]
    BY <1>2, <1>4 DEF RecordClosedAtEntry, TradeClose, Account
  <1>6. w.open \ {x.nextRow} \in SUBSET Nat
    BY <1>1, <1>4
  <1>7. QED
    BY <1>4, <1>5, <1>6 DEF Account, n, o

\* The entry had to be flattened, and its row is booked closed: the flatten
\* worked, or the day is halted.
LEMMA PostedBooked ==
  ASSUME IInv, at = "posted", Around,
         NEW x \in Account, Later([acct EXCEPT !.entries = @ + 1], x),
         NEW z \in Account, Later(RecordClosedAtEntry(x), z), Release(z),
         mkt'.pos = 0 \/ z.halt # "no"
  PROVE  StepOK
  <1> DEFINE c == [acct EXCEPT !.entries = @ + 1]
             y == RecordClosedAtEntry(x)
  <1>1. /\ c.phase = acct.phase /\ c.kill = acct.kill /\ c.seen = NotRead
        /\ c.posts = acct.posts /\ c.nextRow = acct.nextRow /\ c.trade = acct.trade
        /\ c.open = acct.open
        /\ c.posts <= c.entries + faults'
        /\ c.posts <= Cap + faults' /\ c.entries <= Cap + faults'
        /\ c.nextRow - 1 + Unbooked <= Earlier + c.posts + faults'
        /\ c.nextRow - 1 + Unbooked <= Earlier + c.entries + faults'
        /\ c.nextRow - 1 + Unbooked <= Earlier + Cap + faults'
        /\ c.nextRow - 1 + Unbooked + c.entries <= Earlier + Cap + c.posts + faults'
        /\ c \in Account
    BY CountEntry DEF IInv, Placed
  <1> HIDE DEF c
  <1>2. SameBooks(c, x) /\ x.seen = NotRead
    BY <1>1 DEF Later, c
  <1>3. /\ y \in Account /\ y.nextRow = x.nextRow + 1 /\ y.trade = x.trade
        /\ y.open \subseteq x.open /\ x.open \ {x.nextRow} \subseteq y.open
        /\ y.posts = x.posts /\ y.entries = x.entries
        /\ y.phase = x.phase /\ y.kill = x.kill /\ y.seen = x.seen
    BY RecordClosedTyped
  <1>4. SameBooks(y, z) /\ z.seen = NotRead
    BY <1>2, <1>3 DEF Later
  <1> HIDE DEF y
  <1>5. /\ z.nextRow = x.nextRow + 1 /\ z.trade = x.trade
        /\ z.open \subseteq x.open /\ x.open \ {x.nextRow} \subseteq z.open
        /\ z.posts = x.posts /\ z.entries = x.entries
        /\ z.phase = x.phase /\ z.kill = x.kill
    BY <1>3, <1>4 DEF SameBooks
  <1>6. Unbooked = 1
    BY DEF Unbooked
  <1>7. /\ z.posts \in Nat /\ z.entries \in Nat /\ x.nextRow \in Nat /\ faults' \in Nat
        /\ Earlier \in Nat /\ Cap \in Nat
    BY Arithmetic DEF Account, Around
  <1>8. /\ z.nextRow - 1 <= Earlier + z.posts + faults'
        /\ z.nextRow - 1 <= Earlier + z.entries + faults'
        /\ z.nextRow - 1 <= Earlier + Cap + faults'
        /\ z.nextRow - 1 + z.entries <= Earlier + Cap + z.posts + faults'
        /\ z.posts <= z.entries + faults'
        /\ z.posts <= Cap + faults' /\ z.entries <= Cap + faults'
    BY <1>1, <1>2, <1>5, <1>6, <1>7 DEF SameBooks
  <1>9. x.nextRow = acct.nextRow /\ x.open = acct.open /\ x.trade = acct.trade
        /\ x.phase = acct.phase /\ x.kill = acct.kill
    BY <1>1, <1>2 DEF SameBooks
  <1>10. /\ acct.trade < acct.nextRow /\ acct.open \subseteq 1 .. (acct.nextRow - 1)
         /\ acct.nextRow \in Nat /\ acct.trade \in Nat
    BY Arithmetic DEF IInv, RowsKnown
  <1>11. /\ z.trade < z.nextRow /\ z.open \subseteq 1 .. (z.nextRow - 1)
         /\ acct.open \subseteq z.open
    BY <1>5, <1>9, <1>10
  <1>12. z.seen # 0
    BY <1>4, AcctTyped
  <1>13. Settled(z)
    BY <1>5, <1>8, <1>9, <1>11, <1>12 DEF Settled
  <1>14. ClosedFlat(z) /\ LeavesOwned(z)
    BY <1>11 DEF ClosedFlat, LeavesOwned
  <1>15. QED
    BY <1>13, <1>14, AwaitsReady, GoRelease, GoesKeeps

\* The order filled with its bracket: the handler reads the position back.
LEMMA PostedFilled ==
  ASSUME IInv, at = "posted", Around, NoFault,
         NEW c \in Account, Later([acct EXCEPT !.entries = @ + 1], c), Await(c, "readback")
  PROVE  StepOK
  <1> DEFINE x == [acct EXCEPT !.entries = @ + 1]
  <1>1. /\ x.phase = acct.phase /\ x.kill = acct.kill /\ x.seen = NotRead
        /\ x.posts = acct.posts /\ x.nextRow = acct.nextRow /\ x.trade = acct.trade
        /\ x.open = acct.open /\ x.need = acct.need
        /\ x.posts <= x.entries + faults'
        /\ x.posts <= Cap + faults' /\ x.entries <= Cap + faults'
        /\ x.nextRow - 1 + Unbooked <= Earlier + x.posts + faults'
        /\ x.nextRow - 1 + Unbooked <= Earlier + x.entries + faults'
        /\ x.nextRow - 1 + Unbooked <= Earlier + Cap + faults'
        /\ x.nextRow - 1 + Unbooked + x.entries <= Earlier + Cap + x.posts + faults'
        /\ x \in Account
    BY CountEntry DEF IInv, Placed
  <1> HIDE DEF x
  <1>2. SameBooks(x, c) /\ c.seen = NotRead /\ (x.need => c.need)
    BY <1>1 DEF Later, x
  <1>3. acct' = c /\ at' = "readback" /\ then' = "done"
    BY DEF Await
  <1>4. Typed'
    BY <1>3 DEF IInv, Typed, Around, Awaits, Callers
  <1>5. Uncounted' = 0 /\ Unbooked' = 1 /\ Unbooked = 1 /\ Earlier' = Earlier
    BY <1>3, Arithmetic DEF Uncounted, Unbooked, Around
  <1>6. /\ x.posts \in Nat /\ x.entries \in Nat /\ x.nextRow \in Nat /\ faults' \in Nat
        /\ Earlier \in Nat /\ Cap \in Nat
    BY <1>1, Arithmetic DEF Account, Around
  <1>7. PostsCounted'
    BY <1>1, <1>2, <1>3, <1>5, <1>6 DEF PostsCounted, SameBooks
  <1>8. RowsCounted'
    BY <1>1, <1>2, <1>3, <1>5, <1>6 DEF RowsCounted, SameBooks
  <1>9. RowsKnown' /\ Placed' /\ FlatSeen'
    BY <1>1, <1>2, <1>3, AwaitsReady, AcctTyped
       DEF IInv, RowsKnown, Placed, FlatSeen, SameBooks, Ready
  <1>10. KillAsked' /\ SlippedEntryIsOwed'
    BY <1>1, <1>2, <1>3 DEF IInv, KillAsked, SlippedEntryIsOwed, SameBooks, Around, Placed
  <1>11. Booked /\ OwnedUnlessAll /\ HaltedUnlessCleared
    BY <1>1, <1>2, <1>3 DEF Booked, OwnedUnlessAll, Left, HaltedUnlessCleared, SameBooks
  <1>12. QED
    BY <1>4, <1>7, <1>8, <1>9, <1>10, <1>11 DEF IInv, StepOK

LEMMA SetSending ==
  ASSUME NEW x \in Account
  PROVE  OrderUpdate(x) \in Account /\ Later(x, OrderUpdate(x))
  BY DEF OrderUpdate, Account, Later, SameBooks

LEMMA SetNeed ==
  ASSUME NEW x \in Account
  PROVE  [x EXCEPT !.need = TRUE] \in Account /\ Later(x, [x EXCEPT !.need = TRUE])
  BY DEF Account, Later, SameBooks

LEMMA PostedOK ==
  ASSUME IInv, Posted
  PROVE  StepOK
  <1> DEFINE sent == [acct EXCEPT !.entries = @ + 1]
             x == OrderUpdate(sent)
             Full == [pos |-> x.target, orders |-> 2]
  <1>1. at = "posted" /\ UNCHANGED others /\ Ready
    BY AwaitsReady DEF Posted
  <1>2. sent \in Account
    BY AcctTyped DEF Account
  <1> HIDE DEF sent
  <1>3. x \in Account /\ Later(sent, x)
    BY <1>2, SetSending
  <1>4. x.target \in Sides /\ Full \in [pos : Sides, orders : 0 .. 2]
    BY <1>3 DEF Account
  <1> HIDE DEF x
  <1>5. 0 \in 0 .. MaxRejects /\ [x EXCEPT !.rejects = 0] \in Account
        /\ Later(sent, [x EXCEPT !.rejects = 0])
    BY <1>2, <1>3, Arithmetic, SetRejects, LaterTrans
  <1>6. CASE NoFault /\ mkt' = FlatMkt
             /\ \E y \in {x, RecordClosedAtEntry(x)} : Release([y EXCEPT !.rejects = 0])
    <2>1. Around /\ mkt'.pos = 0
      BY <1>1, <1>6, FaultOrNot, AcctTyped DEF Around, others
    <2>2. CASE Release([x EXCEPT !.rejects = 0])
      BY <1>1, <1>5, <2>1, <2>2, PostedReturns DEF sent
    <2>3. CASE Release([RecordClosedAtEntry(x) EXCEPT !.rejects = 0])
      <3> DEFINE z == [RecordClosedAtEntry(x) EXCEPT !.rejects = 0]
      <3>1. z \in Account /\ Later(RecordClosedAtEntry(x), z)
        BY <1>3, <1>5, RecordClosedTyped, SetRejects
      <3>2. Release(z)
        BY <2>3
      <3> HIDE DEF z
      <3>3. QED
        BY <1>1, <1>3, <2>1, <3>1, <3>2, PostedBooked DEF sent
    <2>4. QED
      BY <1>6, <2>2, <2>3
  <1>7. CASE NoFault /\ mkt' = mkt
             /\ LET r == [x EXCEPT !.rejects = IF @ < MaxRejects THEN @ + 1 ELSE @] IN
                Release(IF r.rejects >= MaxRejects THEN HaltDay(r, "day") ELSE r)
    <2> DEFINE n == IF x.rejects < MaxRejects THEN x.rejects + 1 ELSE x.rejects
               r == [x EXCEPT !.rejects = n]
    <2>1. Around
      BY <1>1, <1>7, FaultOrNot, AcctTyped DEF Around, others
    <2>2. n \in 0 .. MaxRejects
      BY <1>3, Arithmetic DEF Account
    <2>3. [x EXCEPT !.rejects = IF @ < MaxRejects THEN @ + 1 ELSE @] = r
      BY <1>3 DEF Account
    <2> HIDE DEF n
    <2>4. r \in Account /\ Later(sent, r)
      BY <1>2, <1>3, <2>2, SetRejects, LaterTrans
    <2>5. Release(HaltDay(r, "day")) \/ Release(r)
      BY <1>7, <2>3
    <2> HIDE DEF r
    <2>6. HaltDay(r, "day") \in Account /\ Later(sent, HaltDay(r, "day"))
      BY <1>2, <2>4, SetHalt, DayIsHalt, LaterTrans DEF Later
    <2>7. QED
      BY <1>1, <1>7, <2>1, <2>4, <2>5, <2>6, PostedReturns DEF sent
  <1>8. ASSUME Fault, \E p \in {0, x.target}, n \in 0 .. 2 : mkt' = [pos |-> p, orders |-> n]
        PROVE  Around
    <2>1. mkt' \in [pos : Sides, orders : 0 .. 2]
      BY <1>4, <1>8, AccountAssumption
    <2>2. QED
      BY <1>1, <1>8, <2>1, FaultOrNot, AcctTyped DEF Around, others
  <1> DEFINE rec == RecordClosedAtEntry(x)
  <1>9. rec \in Account
    BY <1>3, RecordClosedTyped
  <1>10. ASSUME Around, NEW y \in Account, Later(rec, y), Release(HaltDay(y, "day"))
         PROVE  StepOK
    <2> DEFINE h == HaltDay(y, "day")
    <2>1. h \in Account /\ Later(rec, h) /\ h.halt # "no"
      BY <1>9, <1>10, SetHalt, DayIsHalt, LaterTrans DEF Later
    <2>2. Release(h)
      BY <1>10
    <2> HIDE DEF h
    <2>3. QED
      BY <1>1, <1>3, <1>10, <2>1, <2>2, PostedBooked DEF sent
  <1>11. CASE /\ Fault
              /\ \E p \in {0, x.target}, n \in 0 .. 2 : mkt' = [pos |-> p, orders |-> n]
              /\ Release(HaltDay([RecordClosedAtEntry(x) EXCEPT !.need = TRUE], "day"))
    <2> DEFINE y == [rec EXCEPT !.need = TRUE]
    <2>1. y \in Account /\ Later(rec, y)
      BY <1>9, SetNeed
    <2>2. Release(HaltDay(y, "day"))
      BY <1>11
    <2> HIDE DEF y, rec
    <2>3. QED
      BY <1>8, <1>10, <1>11, <2>1, <2>2
  <1>12. CASE /\ Fault
             /\ \E p \in {0, x.target}, n \in 0 .. 2 : mkt' = [pos |-> p, orders |-> n]
             /\ \E y \in {x, sent, RecordClosedAtEntry(x)} : Release(HaltDay(y, "day"))
    <2>1. Around
      BY <1>8, <1>12
    <2>2. CASE Release(HaltDay(rec, "day"))
      BY <1>9, <1>10, <2>1, <2>2, Stay
    <2>3. ASSUME NEW y \in {x, sent}, Release(HaltDay(y, "day"))
          PROVE  StepOK
      <3>1. y \in Account /\ Later(sent, y)
        BY <1>2, <1>3, <2>3, Stay
      <3>2. HaltDay(y, "day") \in Account /\ Later(sent, HaltDay(y, "day"))
            /\ HaltDay(y, "day").halt # "no"
        BY <1>2, <3>1, SetHalt, DayIsHalt, LaterTrans DEF Later
      <3>3. QED
        BY <1>1, <2>1, <2>3, <3>2, PostedReturns DEF sent
    <2>4. QED
      BY <1>12, <2>2, <2>3
  <1>13. CASE NoFault /\ mkt' = Full /\ Await([x EXCEPT !.rejects = 0], "readback")
    <2>1. Around
      BY <1>1, <1>4, <1>13, FaultOrNot, AcctTyped DEF Around, others
    <2>2. QED
      BY <1>1, <1>5, <1>13, <2>1, PostedFilled DEF sent
  <1>14. QED
    BY <1>6, <1>7, <1>12, <1>13, <1>11 DEF Posted, sent, x

\* The trade row of an entry that was read back.
LEMMA OpenTradeTyped ==
  ASSUME NEW x \in Account
  PROVE  LET y == OpenTrade(x) IN
         /\ y \in Account /\ y.nextRow = x.nextRow + 1 /\ y.trade = x.nextRow
         /\ y.open = x.open \cup {x.nextRow}
         /\ y.posts = x.posts /\ y.entries = x.entries
         /\ y.phase = x.phase /\ y.kill = x.kill /\ y.need = x.need /\ y.seen = x.seen
  <1> DEFINE n == x.nextRow + 1
             o == x.open \cup {x.nextRow}
             v == [x EXCEPT !.open = o]
             w == [v EXCEPT !.nextRow = n]
  <1>1. n \in Nat \ {0} /\ o \in SUBSET Nat /\ x.nextRow \in Nat /\ x.target \in Sides
    BY DEF Account
  <1>2. TradeOpen(x) = w
    BY DEF TradeOpen, Account
  <1> HIDE DEF n, o
  <1>3. /\ v \in Account /\ v.open = o /\ v.posts = x.posts
        /\ v.entries = x.entries /\ v.phase = x.phase /\ v.kill = x.kill
        /\ v.need = x.need /\ v.seen = x.seen
    BY <1>1 DEF Account
  <1> HIDE DEF v
  <1>4. /\ w \in Account /\ w.nextRow = n /\ w.open = o /\ w.posts = x.posts
        /\ w.entries = x.entries /\ w.phase = x.phase /\ w.kill = x.kill
        /\ w.need = x.need /\ w.seen = x.seen
    BY <1>1, <1>3 DEF Account
  <1> HIDE DEF w
  <1>5. OpenTrade(x) = [w EXCEPT !.trade = x.nextRow, !.side = x.target]
    BY <1>2 DEF OpenTrade
  <1>6. QED
    BY <1>1, <1>4, <1>5 DEF Account, n, o

LEMMA ReadbackOK ==
  ASSUME IInv, Readback
  PROVE  StepOK
  <1>1. at = "readback" /\ mkt' = mkt /\ (NoFault \/ Fault) /\ UNCHANGED others /\ Ready
    BY AwaitsReady DEF Readback
  <1>2. Around
    BY <1>1, FaultOrNot, AcctTyped DEF Around, others
  <1>3. CASE FlattenThen(HaltDay(acct, "day"), "done", Release(HaltDay(acct, "day")))
    <2> DEFINE h == HaltDay(acct, "day")
    <2>1. h \in Account /\ Later(acct, h) /\ h.halt # "no" /\ h.seen = acct.seen
      BY AcctTyped, SetHalt, DayIsHalt DEF Later
    <2> HIDE DEF h
    <2>2. Goes(h)
      BY <1>3, <2>1, GoFlatten, GoRelease DEF FlattenThen, Callers, h
    <2>3. h.seen = 0 => mkt'.pos = 0 \/ h.strayed
      BY <1>1, <2>1 DEF IInv, FlatSeen, Later
    <2>4. Settled(h) /\ ClosedFlat(h)
      BY <1>1, <1>2, <2>1, <2>3, StillSettled DEF Later
    <2>5. LeavesOwned(h)
      BY <2>1 DEF LeavesOwned
    <2>6. QED
      BY <1>1, <1>2, <2>2, <2>4, <2>5, GoesKeeps
  <1>4. CASE Release(OpenTrade(Saw(acct, mkt.pos)))
    <2> DEFINE x == Saw(acct, mkt.pos)
               y == OpenTrade(x)
    <2>1. x \in Account /\ SameBooks(acct, x) /\ x.seen = mkt.pos
      BY AcctTyped, ReadsTyped
    <2> HIDE DEF x
    <2>2. /\ y \in Account /\ y.nextRow = x.nextRow + 1 /\ y.trade = x.nextRow
          /\ y.open = x.open \cup {x.nextRow}
          /\ y.posts = x.posts /\ y.entries = x.entries
          /\ y.phase = x.phase /\ y.kill = x.kill /\ y.seen = x.seen
      BY <2>1, OpenTradeTyped
    <2>3. Goes(y)
      BY <1>4, <2>2, GoRelease DEF x
    <2> HIDE DEF y
    <2>4. Uncounted = 0 /\ Unbooked = 1 /\ faults' \in Nat /\ faults' >= faults
      BY <1>1, <1>2, Arithmetic DEF Uncounted, Unbooked, Around
    <2>5. /\ y.posts <= y.entries + faults'
          /\ y.posts <= Cap + faults' /\ y.entries <= Cap + faults'
      BY <2>1, <2>2, <2>4, Arithmetic DEF IInv, PostsCounted, SameBooks
    <2>6. /\ y.nextRow - 1 <= Earlier + y.posts + faults'
          /\ y.nextRow - 1 <= Earlier + y.entries + faults'
          /\ y.nextRow - 1 <= Earlier + Cap + faults'
          /\ y.nextRow - 1 + y.entries <= Earlier + Cap + y.posts + faults'
      BY <2>1, <2>2, <2>4, Arithmetic DEF IInv, RowsCounted, SameBooks
    <2>7. y.trade < y.nextRow /\ y.open \subseteq 1 .. (y.nextRow - 1) /\ y.trade # 0
          /\ acct.open \subseteq y.open /\ y.open # acct.open
      BY <2>1, <2>2, Arithmetic, AcctTyped DEF IInv, RowsKnown, SameBooks, Account
    <2>8. Settled(y)
      BY <1>1, <2>1, <2>2, <2>5, <2>6, <2>7 DEF Settled, SameBooks
    <2>9. ClosedFlat(y) /\ LeavesOwned(y)
      BY <2>7 DEF ClosedFlat, LeavesOwned
    <2>10. QED
      BY <1>1, <1>2, <2>3, <2>8, <2>9, GoesKeeps
  <1>5. QED
    BY <1>3, <1>4 DEF Readback

-----------------------------------------------------------------------------
(* _flatten, for every caller. *)

\* It returns to its caller with x.
LEMMA FlattenReturns ==
  ASSUME IInv, at \in {"flatten", "flatRead"}, Around, NEW x, NEW flat \in BOOLEAN,
         Settled(x), ClosedFlat(x), LeavesOwned(x), AfterFlatten(x, flat)
  PROVE  StepOK
  <1>1. x \in Account /\ then \in Callers
    BY AcctTyped DEF Settled
  <1>2. Goes(x) /\ (then \in {"done", "kill", "all"} => at' = "idle" /\ then' = "done")
    BY <1>1, GoAfterFlatten
  <1>3. Ready \/ (at' = "idle" /\ then' = "done")
    BY <1>2 DEF IInv, Placed
  <1>4. QED
    BY <1>2, <1>3, GoesKeeps

LEMMA NotFlatTyped ==
  ASSUME NEW x \in Account
  PROVE  LET y == FlattenFailed(HaltDay(x, "day")) IN
         /\ y \in Account /\ Later(x, y) /\ y.need /\ y.halt # "no"
  <1> DEFINE h == HaltDay(x, "day")
  <1>1. h \in Account /\ Later(x, h) /\ h.halt # "no"
    BY SetHalt, DayIsHalt DEF Later
  <1> HIDE DEF h
  <1>2. FlattenFailed(h) \in Account /\ Later(h, FlattenFailed(h)) /\ FlattenFailed(h).need
    BY <1>1, SetFlattenFailed DEF Later
  <1>3. QED
    BY <1>1, <1>2, LaterTrans DEF h, Later

\* broker.flatten ended flat; its confirming read follows.
LEMMA FlattenedKeeps ==
  ASSUME IInv, at = "flatten", BrokerFlat, acct' = Unseen(acct), at' = "flatRead",
         then' = then, UNCHANGED others
  PROVE  StepOK
  <1>1. /\ acct' \in Account /\ SameBooks(acct, acct') /\ acct'.seen = NotRead
        /\ acct'.halt = acct.halt /\ NotRead # 0
    BY AcctTyped, SetUnseen DEF Later
  <1>2. /\ mkt' = FlatMkt /\ mkt' \in [pos : Sides, orders : 0 .. 2] /\ mkt'.pos = 0
        /\ UNCHANGED <<faults, killTask, allTask, daemonKill, silent, eod, crashes, days>>
    BY AcctTyped DEF BrokerFlat, NoFault, others
  <1>3. Typed'
    BY <1>1, <1>2 DEF IInv, Typed, Awaits
  <1>4. Uncounted' = 0 /\ Unbooked' = 0 /\ Uncounted = 0 /\ Unbooked = 0 /\ Earlier' = Earlier
    BY <1>2, Arithmetic DEF Uncounted, Unbooked
  <1>5. PostsCounted' /\ RowsCounted' /\ RowsKnown'
    BY <1>1, <1>2, <1>4 DEF IInv, PostsCounted, RowsCounted, RowsKnown, SameBooks
  <1>6. Placed' /\ FlatSeen' /\ KillAsked' /\ SlippedEntryIsOwed'
    BY <1>1, <1>2 DEF IInv, Placed, FlatSeen, KillAsked, SlippedEntryIsOwed, SameBooks, Ready
  <1>7. Booked /\ OwnedUnlessAll /\ HaltedUnlessCleared
    BY <1>1, <1>2 DEF Booked, OwnedUnlessAll, Left, HaltedUnlessCleared
  <1>8. QED
    BY <1>3, <1>5, <1>6, <1>7 DEF IInv, StepOK

LEMMA FlattenOK ==
  ASSUME IInv, Flatten
  PROVE  StepOK
  <1>1. at = "flatten" /\ UNCHANGED others
    BY DEF Flatten
  <1>2. CASE BrokerFlat /\ acct' = Unseen(acct) /\ at' = "flatRead" /\ then' = then
    BY <1>1, <1>2, FlattenedKeeps
  <1>3. CASE BrokerNotFlat /\ AfterFlatten(FlattenFailed(HaltDay(Unseen(acct), "day")), FALSE)
    <2> DEFINE u == Unseen(acct)
               y == FlattenFailed(HaltDay(u, "day"))
    <2>1. u \in Account /\ Later(acct, u) /\ u.seen = NotRead
      BY AcctTyped, SetUnseen DEF Later
    <2> HIDE DEF u
    <2>2. y \in Account /\ Later(u, y) /\ y.need
      BY <2>1, NotFlatTyped
    <2> HIDE DEF y
    <2>3. Later(acct, y) /\ y.seen = NotRead
      BY <2>1, <2>2, AcctTyped, LaterTrans DEF Later
    <2>4. mkt' \in [pos : Sides, orders : 0 .. 2]
      <3>1. [mkt EXCEPT !.pos = 0] \in [pos : Sides, orders : 0 .. 2]
        BY AcctTyped, AccountAssumption
      <3>2. QED
        BY <1>3, <3>1, AcctTyped DEF BrokerNotFlat
    <2>5. Around
      BY <1>1, <1>3, <2>4, FaultOrNot, AcctTyped DEF Around, others, BrokerNotFlat
    <2>6. Settled(y) /\ ClosedFlat(y)
      BY <1>1, <2>2, <2>3, <2>5, AcctTyped, StillSettled DEF Later
    <2>7. LeavesOwned(y)
      BY <2>2 DEF LeavesOwned
    <2>8. QED
      BY <1>1, <1>3, <2>5, <2>6, <2>7, FlattenReturns DEF y, u
  <1>4. QED
    BY <1>1, <1>2, <1>3 DEF Flatten

LEMMA SetConfirmed ==
  ASSUME NEW x \in Account
  PROVE  LET y == [x EXCEPT !.need = FALSE, !.backoff = FALSE] IN
         y \in Account /\ SameBooks(x, y) /\ y.seen = x.seen
  BY DEF Account, SameBooks

LEMMA FlattenReadOK ==
  ASSUME IInv, FlattenRead
  PROVE  StepOK
  <1> DEFINE x == Saw(acct, mkt.pos)
  <1>1. at = "flatRead" /\ mkt' = mkt /\ (NoFault \/ Fault) /\ UNCHANGED others
    BY DEF FlattenRead
  <1>2. Around
    BY <1>1, FaultOrNot, AcctTyped DEF Around, others
  <1>3. x \in Account /\ SameBooks(acct, x) /\ x.seen = mkt.pos /\ acct \in Account
    BY AcctTyped, ReadsTyped
  <1> HIDE DEF x
  <1>4. CASE mkt.pos # 0 /\ AfterFlatten(FlattenFailed(HaltDay(x, "day")), FALSE)
    <2> DEFINE y == FlattenFailed(HaltDay(x, "day"))
    <2>1. y \in Account /\ Later(x, y) /\ y.need
      BY <1>3, NotFlatTyped
    <2> HIDE DEF y
    <2>2. SameBooks(acct, y) /\ y.seen # 0
      BY <1>3, <1>4, <2>1, AcctTyped DEF Later, SameBooks
    <2>3. Settled(y) /\ ClosedFlat(y) /\ LeavesOwned(y)
      BY <1>1, <1>2, <2>1, <2>2, StillSettled DEF LeavesOwned
    <2>4. QED
      BY <1>1, <1>2, <1>4, <2>3, FlattenReturns DEF y
  <1>5. CASE mkt.pos = 0
             /\ LET y == [x EXCEPT !.need = FALSE, !.backoff = FALSE] IN
                AfterFlatten(IF y.trade # 0 THEN CloseTrade(y) ELSE y, TRUE)
    <2> DEFINE y == [x EXCEPT !.need = FALSE, !.backoff = FALSE]
               c == CloseTrade(y)
    <2>1. y \in Account /\ SameBooks(x, y) /\ y.seen = x.seen
      BY <1>3, SetConfirmed
    <2>2. AfterFlatten(c, TRUE) \/ AfterFlatten(y, TRUE)
      BY <1>5
    <2> HIDE DEF y
    <2>3. SameBooks(acct, y)
      BY <1>3, <2>1 DEF SameBooks
    <2>4. mkt'.pos = 0
      BY <1>1, <1>5
    <2>5. Settled(y) /\ ClosedFlat(y) /\ LeavesOwned(y)
      BY <1>1, <1>2, <2>1, <2>3, <2>4, StillSettled DEF LeavesOwned
    <2>6. /\ c \in Account /\ c.phase = y.phase /\ c.kill = y.kill
          /\ c.entries = y.entries /\ c.posts = y.posts /\ c.nextRow = y.nextRow
          /\ c.trade = 0 /\ c.open \subseteq y.open
      BY <2>1, ClosedTyped
    <2> HIDE DEF c
    <2>7. c.trade < c.nextRow
      BY <2>6 DEF Account
    <2>8. Settled(c) /\ ClosedFlat(c) /\ LeavesOwned(c)
      BY <2>4, <2>5, <2>6, <2>7 DEF Settled, ClosedFlat, LeavesOwned
    <2>9. QED
      BY <1>1, <1>2, <2>2, <2>5, <2>8, FlattenReturns
  <1>6. CASE Fault /\ AfterFlatten(FlattenFailed(acct), FALSE)
    <2> DEFINE y == FlattenFailed(acct)
    <2>1. y \in Account /\ Later(acct, y) /\ y.need
      BY <1>3, SetFlattenFailed DEF Later
    <2> HIDE DEF y
    <2>2. y.seen = 0 => mkt'.pos = 0 \/ y.strayed
      BY <1>1, <2>1, AcctTyped DEF IInv, FlatSeen, Later
    <2>3. Settled(y) /\ ClosedFlat(y) /\ LeavesOwned(y)
      BY <1>1, <1>2, <2>1, <2>2, StillSettled DEF LeavesOwned, Later
    <2>4. QED
      BY <1>1, <1>2, <1>6, <2>3, FlattenReturns DEF y
  <1>7. QED
    BY <1>4, <1>5, <1>6 DEF FlattenRead, x

-----------------------------------------------------------------------------
(* Steps beside the lock's holder.  It stays where it is; the books stay or *)
(* lose what was closed.                                                    *)

EnvTyped ==
  /\ mkt' \in [pos : Sides, orders : 0 .. 2]
  /\ killTask' \in BOOLEAN /\ allTask' \in BOOLEAN /\ daemonKill' \in KillStates
  /\ silent' \in BOOLEAN /\ eod' \in BOOLEAN
  /\ faults' \in 0 .. MaxFaults /\ faults' >= faults
  /\ crashes' \in 0 .. MaxCrash

SameCounts ==
  /\ acct' \in Account
  /\ acct'.entries = acct.entries /\ acct'.posts = acct.posts
  /\ acct'.nextRow = acct.nextRow
  /\ acct'.trade \in {0, acct.trade} /\ acct'.open \subseteq acct.open

LEMMA BesideKeeps ==
  ASSUME IInv, EnvTyped, SameCounts, UNCHANGED <<at, then, days>>,
         Ready => acct'.phase = "ready",
         at = "posted" => acct'.seen = NotRead,
         FlatSeen', KillAsked', SlippedEntryIsOwed', Booked,
         then = "all" => acct'.halt # "no" \/ acct.halt = "no" \/ ClearHalts
  PROVE  StepOK
  <1>1. Typed'
    BY DEF IInv, Typed, EnvTyped, SameCounts
  <1>2. Uncounted' = Uncounted /\ Unbooked' = Unbooked /\ Earlier' = Earlier
    BY Arithmetic DEF Uncounted, Unbooked
  <1>3. Uncounted \in {0, 1} /\ Unbooked \in {0, 1} /\ faults' \in Nat /\ faults' >= faults
    BY Arithmetic DEF Uncounted, Unbooked, EnvTyped
  <1>4. PostsCounted'
    BY <1>2, <1>3, Arithmetic DEF IInv, PostsCounted, SameCounts
  <1>5. RowsCounted'
    BY <1>2, <1>3, Arithmetic DEF IInv, RowsCounted, SameCounts
  <1>6. RowsKnown'
    BY Arithmetic DEF IInv, RowsKnown, SameCounts
  <1>7. Placed'
    BY DEF IInv, Placed, SameCounts, Ready
  <1>8. OwnedUnlessAll
    BY DEF OwnedUnlessAll, Left
  <1>9. HaltedUnlessCleared
    BY DEF HaltedUnlessCleared
  <1>10. QED
    BY <1>1, <1>4, <1>5, <1>6, <1>7, <1>8, <1>9 DEF IInv, StepOK

\* A step that leaves the account alone.
LEMMA BesideAcctKeeps ==
  ASSUME IInv, EnvTyped, UNCHANGED <<acct, at, then, days>>,
         mkt'.pos = mkt.pos \/ mkt'.pos = 0, killTask' => killTask
  PROVE  StepOK
  <1>1. SameCounts
    BY AcctTyped DEF SameCounts
  <1>2. FlatSeen'
    BY DEF IInv, FlatSeen
  <1>3. KillAsked' /\ SlippedEntryIsOwed' /\ Booked
    BY DEF IInv, KillAsked, SlippedEntryIsOwed, Booked
  <1>4. QED
    BY <1>1, <1>2, <1>3, BesideKeeps DEF IInv, Placed, Ready

LEMMA EnvStays ==
  ASSUME IInv
  PROVE  /\ killTask \in BOOLEAN /\ allTask \in BOOLEAN /\ daemonKill \in KillStates
         /\ silent \in BOOLEAN /\ eod \in BOOLEAN /\ crashes \in 0 .. MaxCrash
  BY DEF IInv, Typed

LEMMA SilenceOK ==
  ASSUME IInv, Silence
  PROVE  StepOK
  <1>1. EnvTyped /\ UNCHANGED <<acct, at, then, days, killTask, mkt>>
    BY EnvStays, AcctTyped, FaultOrNot DEF Silence, EnvTyped, control
  <1>2. QED
    BY <1>1, BesideAcctKeeps

LEMMA EodReachedOK ==
  ASSUME IInv, EodReached
  PROVE  StepOK
  <1>1. EnvTyped /\ UNCHANGED <<acct, at, then, days, killTask, mkt>>
    BY EnvStays, AcctTyped, FaultOrNot DEF EodReached, EnvTyped, control
  <1>2. QED
    BY <1>1, BesideAcctKeeps

LEMMA BracketFillOK ==
  ASSUME IInv, BracketFill
  PROVE  StepOK
  <1>1. EnvTyped /\ UNCHANGED <<acct, at, then, days, killTask>> /\ mkt'.pos = 0
    BY EnvStays, AcctTyped, FaultOrNot DEF BracketFill, EnvTyped, control, others
  <1>2. QED
    BY <1>1, BesideAcctKeeps

LEMMA StrayOK ==
  ASSUME IInv, Stray
  PROVE  StepOK
  <1>1. mkt.orders \in 0 .. 2
    BY AcctTyped
  <1>2. CASE mkt.orders = 2 /\ mkt' = [pos |-> 0, orders |-> 1] /\ acct' = acct
    <2>1. mkt' \in [pos : Sides, orders : 0 .. 2]
      BY <1>2, AccountAssumption
    <2>2. QED
      BY <1>2, <2>1, EnvStays, FaultOrNot, BesideAcctKeeps
         DEF Stray, EnvTyped, control, others
  <1>3. CASE mkt.orders > 0 /\ mkt' = [mkt EXCEPT !.orders = @ - 1] /\ acct' = acct
    <2>1. mkt.orders - 1 \in 0 .. 2
      BY <1>1, <1>3
    <2>2. mkt' \in [pos : Sides, orders : 0 .. 2]
      BY <1>3, <2>1, AcctTyped
    <2>3. mkt'.pos = mkt.pos
      BY <1>3, AcctTyped
    <2>4. QED
      BY <1>3, <2>2, <2>3, EnvStays, FaultOrNot, BesideAcctKeeps
         DEF Stray, EnvTyped, control, others
  <1>4. CASE /\ \E p \in Sides \ {0} :
                  mkt' = [pos |-> p, orders |-> IF mkt.orders > 0 THEN mkt.orders - 1 ELSE 0]
             /\ acct' = [acct EXCEPT !.strayed = TRUE]
    <2>1. (IF mkt.orders > 0 THEN mkt.orders - 1 ELSE 0) \in 0 .. 2
      BY <1>1
    <2>2. mkt' \in [pos : Sides, orders : 0 .. 2]
      BY <1>4, <2>1
    <2>3. EnvTyped /\ UNCHANGED <<at, then, days, killTask>>
      BY <2>2, EnvStays, FaultOrNot DEF Stray, EnvTyped, control, others
    <2>4. /\ acct' \in Account /\ SameBooks(acct, acct') /\ acct'.need = acct.need
          /\ acct'.seen = acct.seen /\ acct'.halt = acct.halt /\ acct'.strayed = TRUE
      BY <1>4, AcctTyped DEF Account, SameBooks
    <2>5. SameCounts /\ FlatSeen' /\ KillAsked' /\ SlippedEntryIsOwed' /\ Booked
      BY <2>3, <2>4
         DEF IInv, SameCounts, SameBooks, FlatSeen, KillAsked, SlippedEntryIsOwed, Booked
    <2>6. QED
      BY <2>3, <2>4, <2>5, BesideKeeps DEF IInv, Placed, Ready, SameBooks
  <1>5. QED
    BY <1>2, <1>3, <1>4 DEF Stray

\* Steps that only change the account's flags: a halt cleared, a backoff or a
\* cached read that ran out, a flatten asked for.
LEMMA FlagsKeep ==
  ASSUME IInv, EnvTyped, UNCHANGED <<mkt, at, then, days>>, killTask' => killTask,
         acct' \in Account, SameBooks(acct, acct'), acct.need => acct'.need,
         acct'.seen \in {acct.seen, NotRead}, acct'.strayed = acct.strayed,
         then = "all" => acct'.halt # "no" \/ acct.halt = "no" \/ ClearHalts
  PROVE  StepOK
  <1>1. SameCounts
    BY DEF SameCounts, SameBooks
  <1>2. FlatSeen'
    BY AcctTyped DEF IInv, FlatSeen
  <1>3. KillAsked' /\ SlippedEntryIsOwed' /\ Booked
    BY DEF IInv, KillAsked, SlippedEntryIsOwed, Booked, SameBooks
  <1>4. QED
    BY <1>1, <1>2, <1>3, BesideKeeps DEF IInv, Placed, Ready, SameBooks

LEMMA ClearHaltsOK ==
  ASSUME IInv, ClearHalts
  PROVE  StepOK
  <1>1. EnvTyped /\ UNCHANGED <<mkt, at, then, days, killTask>>
    BY EnvStays, AcctTyped, FaultOrNot DEF ClearHalts, EnvTyped, control, others
  <1>2. /\ acct' \in Account /\ SameBooks(acct, acct') /\ acct'.need = acct.need
        /\ acct'.seen = acct.seen /\ acct'.strayed = acct.strayed
    BY AcctTyped DEF ClearHalts, Account, SameBooks, Halts
  <1>3. QED
    BY <1>1, <1>2, FlagsKeep

LEMMA BackoffOverOK ==
  ASSUME IInv, BackoffOver
  PROVE  StepOK
  <1>1. EnvTyped /\ UNCHANGED <<mkt, at, then, days, killTask>>
    BY EnvStays, AcctTyped, FaultOrNot DEF BackoffOver, EnvTyped, control, others
  <1>2. /\ acct' \in Account /\ SameBooks(acct, acct') /\ acct'.need = acct.need
        /\ acct'.seen = acct.seen /\ acct'.halt = acct.halt /\ acct'.strayed = acct.strayed
    BY AcctTyped DEF BackoffOver, Account, SameBooks
  <1>3. QED
    BY <1>1, <1>2, FlagsKeep

LEMMA CacheExpiresOK ==
  ASSUME IInv, CacheExpires
  PROVE  StepOK
  <1>1. EnvTyped /\ UNCHANGED <<mkt, at, then, days, killTask>>
    BY EnvStays, AcctTyped, FaultOrNot DEF CacheExpires, EnvTyped, control, others
  <1>2. /\ acct' \in Account /\ SameBooks(acct, acct') /\ acct'.need = acct.need
        /\ acct'.seen = NotRead /\ acct'.halt = acct.halt /\ acct'.strayed = acct.strayed
    BY AcctTyped, SetUnseen DEF CacheExpires, Later
  <1>3. QED
    BY <1>1, <1>2, FlagsKeep

LEMMA FlattenAllRequestOK ==
  ASSUME IInv, FlattenAllRequest
  PROVE  StepOK
  <1>1. EnvTyped /\ UNCHANGED <<mkt, at, then, days, killTask>>
    BY EnvStays, AcctTyped, FaultOrNot DEF FlattenAllRequest, EnvTyped, control
  <1>2. /\ acct' \in Account /\ SameBooks(acct, acct') /\ acct'.need = TRUE
        /\ acct'.seen = acct.seen /\ acct'.halt = acct.halt /\ acct'.strayed = acct.strayed
    BY AcctTyped DEF FlattenAllRequest, Account, SameBooks
  <1>3. QED
    BY <1>1, <1>2, FlagsKeep

\* What kill_once and the start ask of the account.
LEMMA AskKillTyped ==
  ASSUME NEW x \in Account, "paused" \in KillStates
  PROVE  LET y == AskKill(x) IN
         /\ y \in Account /\ y.phase = x.phase /\ y.kill = "paused" /\ y.need
         /\ y.entries = x.entries /\ y.posts = x.posts
         /\ y.nextRow = x.nextRow /\ y.trade = x.trade /\ y.open = x.open /\ y.seen = x.seen
         /\ y.halt = x.halt /\ y.strayed = x.strayed
  BY DEF AskKill, Account

\* startup() returns True.
LEMMA StartDoneTyped ==
  ASSUME NEW x \in Account, daemonKill \in KillStates
  PROVE  LET y == StartDone(x) IN
         /\ y \in Account /\ y.entries = x.entries /\ y.posts = x.posts
         /\ y.nextRow = x.nextRow /\ y.trade = x.trade /\ y.open = x.open /\ y.seen = x.seen
         /\ y.halt = x.halt /\ y.strayed = x.strayed
         /\ y.kill = x.kill \/ y.kill = "paused"
  <1>1. CASE daemonKill = "paused"
    <2> DEFINE z == AskKill(x)
    <2>1. /\ z \in Account /\ z.kill = "paused"
          /\ z.entries = x.entries /\ z.posts = x.posts
          /\ z.nextRow = x.nextRow /\ z.trade = x.trade /\ z.open = x.open
          /\ z.seen = x.seen /\ z.halt = x.halt /\ z.strayed = x.strayed
      BY <1>1, AskKillTyped
    <2>2. StartDone(x) = [z EXCEPT !.phase = "killing"]
      BY <1>1 DEF StartDone
    <2> HIDE DEF z
    <2>3. QED
      BY <2>1, <2>2 DEF Account
  <1>2. CASE daemonKill # "paused"
    BY <1>2 DEF StartDone, Account
  <1>3. QED
    BY <1>1, <1>2

LEMMA StartReadOK ==
  ASSUME IInv, StartRead
  PROVE  StepOK
  <1> DEFINE s == Saw(acct, mkt.pos)
             x == [s EXCEPT !.trade = 0]
  <1>1. EnvTyped /\ UNCHANGED <<mkt, at, then, days, killTask, faults>>
    BY EnvStays, AcctTyped, FaultOrNot DEF StartRead, EnvTyped, control, others
  <1>2. s \in Account /\ SameBooks(acct, s) /\ s.seen = mkt.pos /\ s.halt = acct.halt
    BY AcctTyped, ReadsTyped
  <1> HIDE DEF s
  <1>3. /\ x \in Account /\ x.entries = acct.entries /\ x.posts = acct.posts
        /\ x.nextRow = acct.nextRow /\ x.trade = 0 /\ x.open = acct.open /\ x.seen = mkt.pos
        /\ x.halt = acct.halt /\ x.kill = acct.kill
    BY <1>2 DEF Account, SameBooks
  <1> HIDE DEF x
  <1>4. acct' = [acct EXCEPT !.phase = "flattening"] \/ acct' = StartDone(x)
    BY DEF StartRead, x, s
  <1>5. /\ SameCounts /\ acct'.open = acct.open
        /\ acct'.seen = mkt.pos \/ (acct'.seen = acct.seen /\ acct'.strayed = acct.strayed)
        /\ acct'.halt = acct.halt /\ (acct'.kill = acct.kill \/ acct'.kill = "paused")
    <2>1. CASE acct' = [acct EXCEPT !.phase = "flattening"]
      BY <2>1, AcctTyped DEF Account, SameCounts
    <2>2. CASE acct' = StartDone(x)
      BY <1>3, <2>2, EnvStays, StartDoneTyped DEF SameCounts
    <2>3. QED
      BY <1>4, <2>1, <2>2
  <1>6. ~Ready
    BY DEF StartRead, Ready
  <1>7. FlatSeen' /\ KillAsked' /\ SlippedEntryIsOwed' /\ Booked
    BY <1>1, <1>5, <1>6
       DEF IInv, Placed, FlatSeen, KillAsked, SlippedEntryIsOwed, Booked, SameCounts
  <1>8. QED
    BY <1>1, <1>5, <1>6, <1>7, BesideKeeps DEF IInv, Placed

LEMMA StartFlattenOK ==
  ASSUME IInv, StartFlatten
  PROVE  StepOK
  <1> DEFINE u == Unseen(acct)
             v == OrderUpdate(u)
             x == [v EXCEPT !.trade = 0, !.open = {}]
  <1>1. [mkt EXCEPT !.pos = 0] \in [pos : Sides, orders : 0 .. 2]
    BY AcctTyped, AccountAssumption
  <1>2. mkt' \in {mkt, FlatMkt, [mkt EXCEPT !.pos = 0]}
    BY DEF StartFlatten, BrokerFlat, BrokerNotFlat
  <1>3. EnvTyped /\ UNCHANGED <<at, then, days, killTask>>
    <2>1. NoFault \/ Fault
      BY DEF StartFlatten, BrokerFlat, BrokerNotFlat
    <2>2. mkt' \in [pos : Sides, orders : 0 .. 2]
      BY <1>1, <1>2, AcctTyped
    <2>3. QED
      BY <2>1, <2>2, EnvStays, FaultOrNot DEF StartFlatten, EnvTyped, control, others
  <1>4. u \in Account /\ SameBooks(acct, u) /\ u.seen = NotRead /\ u.halt = acct.halt
        /\ NotRead # 0
    BY AcctTyped, SetUnseen DEF Later
  <1> HIDE DEF u
  <1>5. /\ v \in Account /\ SameBooks(u, v) /\ v.seen = NotRead /\ v.halt = u.halt
    BY <1>4 DEF OrderUpdate, Account, SameBooks
  <1> HIDE DEF v
  <1>6. /\ x \in Account /\ x.entries = acct.entries /\ x.posts = acct.posts
        /\ x.nextRow = acct.nextRow /\ x.trade = 0 /\ x.open = {} /\ x.seen = NotRead
        /\ x.halt = acct.halt /\ x.kill = acct.kill
    BY <1>4, <1>5 DEF Account, SameBooks
  <1> HIDE DEF x
  <1>7. ~Ready
    BY DEF StartFlatten, Ready
  <1>8. /\ SameCounts /\ acct'.seen = NotRead /\ acct'.halt = acct.halt
        /\ acct'.kill = acct.kill \/ acct'.kill = "paused"
        /\ mkt'.pos = 0 \/ acct'.open = acct.open
    <2>1. CASE BrokerFlat /\ acct' = StartDone(x)
      BY <1>6, <2>1, EnvStays, StartDoneTyped, AcctTyped DEF SameCounts, BrokerFlat
    <2>2. CASE acct' = [u EXCEPT !.phase = "starting"]
      BY <1>4, <2>2 DEF Account, SameCounts, SameBooks
    <2>3. QED
      BY <2>1, <2>2 DEF StartFlatten, x, v, u
  <1>9. FlatSeen' /\ KillAsked' /\ SlippedEntryIsOwed' /\ Booked
    BY <1>3, <1>4, <1>7, <1>8
       DEF IInv, Placed, FlatSeen, KillAsked, SlippedEntryIsOwed, Booked, SameCounts
  <1>10. QED
    BY <1>3, <1>7, <1>8, <1>9, BesideKeeps DEF IInv, Placed

\* The kill watcher's poll.
LEMMA KillPollOK ==
  ASSUME IInv, KillPoll
  PROVE  StepOK
  <1>1. PICK new \in {KillState(api, db) : api, db \in Polls} :
          /\ daemonKill' = new
          /\ LET ask == /\ new = "paused" /\ Clean
                        /\ daemonKill # "paused" \/ acct.kill # "paused"
             IN /\ acct' = IF ask THEN AskKill(acct) ELSE [acct EXCEPT !.kill = new]
                /\ killTask' = ask
    BY DEF KillPoll
  <1>2. new \in KillStates /\ "paused" \in Polls \cup {"paused"}
    BY DEF KillState, KillStates
  <1>3. EnvTyped /\ UNCHANGED <<mkt, at, then, days, faults>> /\ ~killTask /\ then # "kill"
    <2>1. killTask' \in BOOLEAN
      BY <1>1
    <2>2. QED
      BY <1>1, <1>2, <2>1, EnvStays, AcctTyped, FaultOrNot DEF KillPoll, EnvTyped, control, NoFault
  <1>4. CASE new = "paused" /\ Clean /\ (daemonKill # "paused" \/ acct.kill # "paused")
    <2>1. acct' = AskKill(acct) /\ killTask' = TRUE
      BY <1>1, <1>4
    <2>2. /\ acct' \in Account /\ acct'.phase = acct.phase /\ acct'.kill = "paused"
          /\ acct'.need /\ acct'.entries = acct.entries /\ acct'.posts = acct.posts
          /\ acct'.nextRow = acct.nextRow /\ acct'.trade = acct.trade
          /\ acct'.open = acct.open /\ acct'.seen = acct.seen /\ acct'.halt = acct.halt
          /\ acct'.strayed = acct.strayed
      BY <1>2, <1>4, <2>1, AcctTyped, AskKillTyped
    <2>3. FlatSeen' /\ KillAsked' /\ SlippedEntryIsOwed' /\ Booked /\ SameCounts
      BY <1>3, <2>2 DEF IInv, FlatSeen, KillAsked, SlippedEntryIsOwed, Booked, SameCounts
    <2>4. QED
      BY <1>3, <2>2, <2>3, BesideKeeps DEF IInv, Placed, Ready
  <1>5. CASE ~(new = "paused" /\ Clean /\ (daemonKill # "paused" \/ acct.kill # "paused"))
    <2>1. acct' = [acct EXCEPT !.kill = new] /\ killTask' = FALSE
      BY <1>1, <1>5
    <2>2. /\ acct' \in Account /\ acct'.phase = acct.phase /\ acct'.kill = new
          /\ acct'.need = acct.need /\ acct'.entries = acct.entries /\ acct'.posts = acct.posts
          /\ acct'.nextRow = acct.nextRow /\ acct'.trade = acct.trade
          /\ acct'.open = acct.open /\ acct'.seen = acct.seen /\ acct'.halt = acct.halt
          /\ acct'.strayed = acct.strayed
      BY <1>2, <2>1, AcctTyped DEF Account
    <2>3. FlatSeen' /\ KillAsked' /\ Booked /\ SameCounts
      BY <1>3, <2>1, <2>2 DEF IInv, FlatSeen, KillAsked, Booked, SameCounts
    <2>4. SlippedEntryIsOwed'
      BY <1>3, <1>5, <2>2 DEF IInv, Placed, SlippedEntryIsOwed, Clean, Ready
    <2>5. QED
      BY <1>3, <2>2, <2>3, <2>4, BesideKeeps DEF IInv, Placed, Ready
  <1>6. QED
    BY <1>4, <1>5

-----------------------------------------------------------------------------
(* The lock taken for a flatten, and lost by a timeout or a crash. *)

LEMMA TakesLock ==
  ASSUME IInv, at = "idle", at' = "flatten", then' \in {"done", "kill", "all"},
         EnvTyped, UNCHANGED <<mkt, days, faults>>, killTask' => killTask,
         acct' \in Account, acct'.phase = acct.phase \/ acct'.phase = "ready",
         acct'.kill = acct.kill, acct'.entries = acct.entries, acct'.posts = acct.posts,
         acct'.nextRow = acct.nextRow, acct'.trade = acct.trade, acct'.open = acct.open,
         acct'.seen = NotRead,
         then' = "kill" => killTask,
         then' = "all" => acct'.halt # "no"
  PROVE  StepOK
  <1>1. Typed'
    BY DEF IInv, Typed, EnvTyped, Awaits, Callers
  <1>2. Uncounted' = 0 /\ Unbooked' = 0 /\ Uncounted = 0 /\ Unbooked = 0 /\ Earlier' = Earlier
    BY Arithmetic DEF Uncounted, Unbooked
  <1>3. PostsCounted' /\ RowsCounted' /\ RowsKnown'
    BY <1>2 DEF IInv, PostsCounted, RowsCounted, RowsKnown
  <1>4. Placed' /\ FlatSeen' /\ KillAsked' /\ SlippedEntryIsOwed'
    BY AcctTyped DEF IInv, Placed, FlatSeen, KillAsked, SlippedEntryIsOwed, Ready
  <1>5. Booked /\ OwnedUnlessAll /\ HaltedUnlessCleared
    BY DEF Booked, OwnedUnlessAll, Left, HaltedUnlessCleared
  <1>6. QED
    BY <1>1, <1>3, <1>4, <1>5 DEF IInv, StepOK

\* backoff and phase are dropped on the way into _flatten.
LEMMA SetBackoff ==
  ASSUME NEW x \in Account
  PROVE  LET y == [x EXCEPT !.backoff = FALSE]
             z == [x EXCEPT !.phase = "ready", !.backoff = FALSE]
         IN /\ y \in Account /\ SameBooks(x, y) /\ y.halt = x.halt /\ y.seen = x.seen
            /\ z \in Account /\ z.phase = "ready" /\ z.kill = x.kill
            /\ z.entries = x.entries /\ z.posts = x.posts /\ z.nextRow = x.nextRow
            /\ z.trade = x.trade /\ z.open = x.open /\ z.seen = x.seen
  BY DEF Account, SameBooks

LEMMA StartKillOK ==
  ASSUME IInv, StartKill
  PROVE  StepOK
  <1> DEFINE u == Unseen(acct)
             z == [u EXCEPT !.phase = "ready", !.backoff = FALSE]
  <1>1. u \in Account /\ SameBooks(acct, u) /\ u.seen = NotRead
    BY AcctTyped, SetUnseen DEF Later
  <1>2. acct' = z
    BY DEF StartKill
  <1> HIDE DEF u
  <1>3. /\ acct' \in Account /\ acct'.phase = "ready"
        /\ acct'.kill = acct.kill /\ acct'.entries = acct.entries /\ acct'.posts = acct.posts
        /\ acct'.nextRow = acct.nextRow /\ acct'.trade = acct.trade /\ acct'.open = acct.open
        /\ acct'.seen = NotRead
    BY <1>1, <1>2, SetBackoff DEF SameBooks
  <1>4. /\ at = "idle" /\ at' = "flatten" /\ then' = "done"
        /\ EnvTyped /\ UNCHANGED <<mkt, days, faults, killTask>>
    BY EnvStays, AcctTyped, FaultOrNot DEF StartKill, EnvTyped, others
  <1>5. QED
    BY <1>3, <1>4, TakesLock

LEMMA KillAcquireOK ==
  ASSUME IInv, KillAcquire
  PROVE  StepOK
  <1> DEFINE y == [acct EXCEPT !.backoff = FALSE]
  <1>1. y \in Account /\ SameBooks(acct, y)
    BY AcctTyped, SetBackoff
  <1> HIDE DEF y
  <1>2. acct' = Unseen(y)
    BY DEF KillAcquire, y
  <1>3. /\ acct' \in Account /\ SameBooks(acct, acct') /\ acct'.seen = NotRead
    BY <1>1, <1>2, SetUnseen DEF Later, SameBooks
  <1>4. /\ at = "idle" /\ at' = "flatten" /\ then' = "kill" /\ killTask
        /\ EnvTyped /\ UNCHANGED <<mkt, days, faults>>
    BY EnvStays, AcctTyped, FaultOrNot DEF KillAcquire, EnvTyped
  <1>5. QED
    BY <1>3, <1>4, TakesLock DEF SameBooks

LEMMA FlattenAllAcquireOK ==
  ASSUME IInv, FlattenAllAcquire
  PROVE  StepOK
  <1> DEFINE h == HaltDay(acct, "all")
             y == [h EXCEPT !.backoff = FALSE]
  <1>1. h \in Account /\ SameBooks(acct, h) /\ h.halt # "no"
    BY AcctTyped, SetHalt, DayIsHalt DEF Later
  <1> HIDE DEF h
  <1>2. y \in Account /\ SameBooks(h, y) /\ y.halt = h.halt
    BY <1>1, SetBackoff
  <1> HIDE DEF y
  <1>3. acct' = Unseen(y)
    BY DEF FlattenAllAcquire, y, h
  <1>4. /\ acct' \in Account /\ SameBooks(acct, acct') /\ acct'.seen = NotRead
        /\ acct'.halt # "no"
    BY <1>1, <1>2, <1>3, SetUnseen DEF Later, SameBooks
  <1>5. /\ at = "idle" /\ at' = "flatten" /\ then' = "all"
        /\ EnvTyped /\ UNCHANGED <<mkt, days, faults, killTask>>
    BY EnvStays, AcctTyped, FaultOrNot DEF FlattenAllAcquire, EnvTyped
  <1>6. QED
    BY <1>4, <1>5, TakesLock DEF SameBooks

\* _timed: a task that waits gives up, one that flattens is cancelled.
LEMMA TimedOutOK ==
  ASSUME IInv, TimedOut
  PROVE  StepOK
  <1>1. CASE /\ UNCHANGED <<acct, mkt, at, then>>
             /\ \/ killTask' = FALSE /\ allTask' = allTask
                \/ allTask' = FALSE /\ killTask' = killTask
    <2>1. Fault /\ UNCHANGED <<daemonKill, silent, eod, crashes, days>>
      BY DEF TimedOut
    <2>2. EnvTyped
      BY <1>1, <2>1, EnvStays, AcctTyped, FaultOrNot DEF EnvTyped
    <2>3. QED
      BY <1>1, <2>1, <2>2, BesideAcctKeeps
  <1>2. CASE /\ then \in {"kill", "all"}
             /\ mkt' \in IF at = "flatten" THEN {mkt, FlatMkt} ELSE {mkt}
             /\ Release(acct)
             /\ UNCHANGED <<killTask, allTask>>
    <2>1. at \in {"flatten", "flatRead"}
      BY <1>2 DEF IInv, Placed
    <2>2. Around
      BY <1>2, AcctTyped, FaultOrNot DEF TimedOut, Around
    <2>3. acct.seen = 0 => mkt'.pos = 0 \/ acct.strayed
      BY <1>2, AcctTyped DEF IInv, FlatSeen
    <2>4. Settled(acct) /\ ClosedFlat(acct)
      BY <2>1, <2>2, <2>3, AcctTyped, StillSettled DEF SameBooks
    <2>5. Goes(acct) /\ acct' = acct /\ at' = "idle" /\ then' = "done"
      BY <1>2, AcctTyped, GoRelease DEF Release
    <2>6. OwnedUnlessAll
      BY <1>2, <2>5 DEF OwnedUnlessAll, Owned, IInv, KillAsked
    <2>7. QED
      BY <2>2, <2>4, <2>5, <2>6, GoesKeeps
  <1>3. \/ UNCHANGED <<acct, mkt, at, then, allTask>> /\ killTask' = FALSE
        \/ UNCHANGED <<acct, mkt, at, then, killTask>> /\ allTask' = FALSE
        \/ /\ then \in {"kill", "all"}
           /\ mkt' \in IF at = "flatten" THEN {mkt, FlatMkt} ELSE {mkt}
           /\ Release(acct)
           /\ UNCHANGED <<killTask, allTask>>
    BY DEF TimedOut, control
  <1>4. QED
    BY <1>1, <1>2, <1>3

LEMMA WorkerCrashOK ==
  ASSUME IInv, WorkerCrash
  PROVE  StepOK
  <1> DEFINE u == Unseen(acct)
             h == HaltDay(u, "day")
  <1>1. u \in Account /\ SameBooks(acct, u) /\ u.seen = NotRead
    BY AcctTyped, SetUnseen DEF Later
  <1> HIDE DEF u
  <1>2. h \in Account /\ SameBooks(u, h) /\ h.halt # "no" /\ h.seen = NotRead
    BY <1>1, SetHalt, DayIsHalt DEF Later
  <1> HIDE DEF h
  <1>3. SameBooks(acct, h)
    BY <1>1, <1>2 DEF SameBooks
  <1>4. mkt' \in [pos : Sides, orders : 0 .. 2]
    <2>1. [pos |-> acct.target, orders |-> 2] \in [pos : Sides, orders : 0 .. 2]
      BY AcctTyped DEF Account
    <2>2. QED
      BY <2>1, AcctTyped DEF WorkerCrash
  <1>5. Around /\ faults' = faults + 1
    BY <1>4, AcctTyped, FaultOrNot DEF WorkerCrash, Around, others, Fault
  <1>6. Settled(h) /\ ClosedFlat(h)
    <2>1. CASE at # "posted"
      BY <1>2, <1>3, <1>5, <2>1, AcctTyped, StillSettled
    <2>2. CASE at = "posted"
      <3>1. Uncounted = 1 /\ Unbooked = 1 /\ faults' \in Nat
        BY <1>5, <2>2, Arithmetic DEF Uncounted, Unbooked
      <3>2. /\ acct.posts <= acct.entries + faults'
            /\ acct.posts <= Cap + faults' /\ acct.entries <= Cap + faults'
        BY <1>5, <3>1, Arithmetic DEF IInv, PostsCounted
      <3>3. /\ acct.nextRow - 1 <= Earlier + acct.posts + faults'
            /\ acct.nextRow - 1 <= Earlier + acct.entries + faults'
            /\ acct.nextRow - 1 <= Earlier + Cap + faults'
            /\ acct.nextRow - 1 + acct.entries <= Earlier + Cap + acct.posts + faults'
        BY <1>5, <3>1, Arithmetic DEF IInv, RowsCounted
      <3>4. acct.trade < acct.nextRow /\ acct.open \subseteq 1 .. (acct.nextRow - 1)
        BY DEF IInv, RowsKnown
      <3>5. QED
        BY <1>2, <1>3, <1>5, <3>2, <3>3, <3>4, AcctTyped DEF Settled, SameBooks, ClosedFlat
    <2>3. QED
      BY <2>1, <2>2
  <1>7. CASE Release(h)
    <2>1. LeavesOwned(h) /\ Goes(h) /\ at' = "idle" /\ then' = "done"
      BY <1>2, <1>7, GoRelease DEF LeavesOwned, Release
    <2>2. QED
      BY <1>5, <1>6, <2>1, GoesKeeps
  <1>8. CASE at = "flatRead" /\ Release(HaltDay(RowNotBooked(u), "day"))
    <2> DEFINE v == RowNotBooked(u)
               g == HaltDay(v, "day")
    <2>1. /\ v \in Account /\ v.phase = u.phase /\ v.kill = u.kill
          /\ v.entries = u.entries /\ v.posts = u.posts /\ v.nextRow = u.nextRow
          /\ v.trade = 0 /\ v.open = u.open /\ v.seen = u.seen
      BY <1>1, AccountAssumption DEF RowNotBooked, Account
    <2> HIDE DEF v
    <2>2. g \in Account /\ SameBooks(v, g) /\ g.halt # "no" /\ g.seen = NotRead
      BY <1>1, <2>1, SetHalt, DayIsHalt DEF Later
    <2>3. Release(g)
      BY <1>8 DEF v
    <2> HIDE DEF g
    <2>4. /\ g.phase = h.phase /\ g.kill = h.kill
          /\ g.entries = h.entries /\ g.posts = h.posts /\ g.nextRow = h.nextRow
          /\ g.trade = 0 /\ g.open = h.open /\ g.seen # 0
      BY <1>1, <1>2, <2>1, <2>2, AcctTyped DEF SameBooks
    <2>5. 0 < g.nextRow
      BY <2>2 DEF Account
    <2>6. Settled(g) /\ ClosedFlat(g) /\ LeavesOwned(g)
      BY <1>2, <1>6, <2>2, <2>4, <2>5 DEF Settled, ClosedFlat, LeavesOwned
    <2>7. Goes(g) /\ at' = "idle" /\ then' = "done"
      BY <2>2, <2>3, GoRelease DEF Release
    <2>8. QED
      BY <1>5, <2>6, <2>7, GoesKeeps
  <1>9. QED
    BY <1>7, <1>8 DEF WorkerCrash, u, h

LEMMA FreshTyped ==
  /\ Fresh \in Account /\ Fresh.phase = "starting" /\ Fresh.kill = "unknown"
  /\ Fresh.trade = 0 /\ Fresh.seen = NotRead /\ Fresh.entries = 0 /\ Fresh.posts = 0
  /\ Fresh.nextRow = 1 /\ Fresh.open = {} /\ Fresh.need = FALSE
  <1>1. 0 \in Sides /\ 0 \in 0 .. MaxRejects /\ "unknown" \in KillStates /\ "no" \in Halts
    BY AccountAssumption DEF KillStates, Halts
  <1>2. Fresh \in Account
    BY <1>1 DEF Fresh, Account
  <1>3. QED
    BY <1>2 DEF Fresh

\* The daemon dies: what the rows say is what a restart finds.
LEMMA KeptTyped ==
  ASSUME NEW x \in Account
  PROVE  LET y == [Kept(x) EXCEPT !.entries = x.posts] IN
         /\ y \in Account /\ y.phase = "starting" /\ y.kill = "unknown"
         /\ y.entries = x.posts /\ y.posts = x.posts /\ y.nextRow = x.nextRow
         /\ y.trade = 0 /\ y.open = x.open /\ y.seen = NotRead
  <1>1. Fresh \in Account /\ Fresh.phase = "starting" /\ Fresh.kill = "unknown"
        /\ Fresh.trade = 0 /\ Fresh.seen = NotRead
    BY FreshTyped
  <1>2. x.halt \in Halts /\ x.open \in SUBSET Nat /\ x.sending \in BOOLEAN /\ x.posts \in Nat
        /\ x.nextRow \in Nat \ {0}
    BY DEF Account
  <1> DEFINE k == Kept(x)
             h == x.halt
             o == x.open
             d == x.sending
             p == x.posts
             n == x.nextRow
  <1>5. k = [Fresh EXCEPT !.halt = h, !.open = o, !.sending = d, !.posts = p, !.nextRow = n]
    BY DEF Kept
  <1> HIDE DEF k, h, o, d, p, n
  <1>6. h \in Halts /\ o \in SUBSET Nat /\ d \in BOOLEAN /\ p \in Nat /\ n \in Nat \ {0}
    BY <1>2 DEF h, o, d, p, n
  <1>3. /\ k \in Account /\ k.phase = "starting" /\ k.kill = "unknown"
        /\ k.posts = p /\ k.nextRow = n
        /\ k.trade = 0 /\ k.open = o /\ k.seen = NotRead
    BY <1>1, <1>5, <1>6 DEF Account
  <1> DEFINE y == [k EXCEPT !.entries = p]
  <1>7. /\ y \in Account /\ y.phase = k.phase /\ y.kill = k.kill
        /\ y.entries = p /\ y.posts = k.posts /\ y.nextRow = k.nextRow
        /\ y.trade = k.trade /\ y.open = k.open /\ y.seen = k.seen
    BY <1>3, <1>6 DEF Account
  <1>4. QED
    BY <1>3, <1>7 DEF k, p, n, o

LEMMA CrashOK ==
  ASSUME IInv, Crash
  PROVE  StepOK
  <1>1. /\ acct' \in Account /\ acct'.phase = "starting" /\ acct'.kill = "unknown"
        /\ acct'.entries = acct.posts /\ acct'.posts = acct.posts
        /\ acct'.nextRow = acct.nextRow
        /\ acct'.trade = 0 /\ acct'.open = acct.open /\ acct'.seen = NotRead /\ NotRead # 0
    BY AcctTyped, KeptTyped DEF Crash, Recount
  <1>2. mkt' \in [pos : Sides, orders : 0 .. 2]
    <2>1. \A n \in 0 .. 2 :
            [pos |-> acct.target, orders |-> n] \in [pos : Sides, orders : 0 .. 2]
      BY AcctTyped DEF Account
    <2>2. QED
      BY <2>1, AcctTyped DEF Crash, FlattenAllDirect
  <1>3. /\ at' = "idle" /\ then' = "done" /\ killTask' = FALSE /\ allTask' = FALSE
        /\ daemonKill' = "unknown" /\ silent' = FALSE /\ UNCHANGED <<eod, days, faults>>
        /\ crashes' \in 0 .. MaxCrash /\ crashes' # crashes
    BY EnvStays, AccountAssumption DEF Crash, NoFault
  <1>4. Typed'
    BY <1>1, <1>2, <1>3 DEF IInv, Typed, Awaits, Callers, KillStates
  <1>5. /\ Uncounted' = 0 /\ Unbooked' = 0 /\ Uncounted \in {0, 1} /\ Unbooked \in {0, 1}
        /\ Earlier' = Earlier
    BY <1>3, Arithmetic DEF Uncounted, Unbooked
  <1>6. PostsCounted' /\ RowsCounted'
    BY <1>1, <1>3, <1>5, Arithmetic DEF IInv, PostsCounted, RowsCounted
  <1>7. RowsKnown'
    BY <1>1, Arithmetic DEF IInv, RowsKnown, Account
  <1>8. Placed' /\ FlatSeen' /\ KillAsked' /\ SlippedEntryIsOwed'
    BY <1>1, <1>3 DEF Placed, FlatSeen, KillAsked, SlippedEntryIsOwed
  <1>9. Booked /\ OwnedUnlessAll /\ HaltedUnlessCleared
    BY <1>1, <1>3 DEF Booked, OwnedUnlessAll, Left, HaltedUnlessCleared
  <1>10. QED
    BY <1>4, <1>6, <1>7, <1>8, <1>9 DEF IInv, StepOK

\* Midnight: the count and the rows of the day start anew.
LEMMA DayRollsOK ==
  ASSUME IInv, DayRolls
  PROVE  StepOK
  <1> DEFINE y == [acct EXCEPT !.entries = 0, !.posts = 0, !.rejects = 0, !.halt = "no",
                               !.eodDone = FALSE]
  <1>1. 0 \in 0 .. MaxRejects /\ "no" \in Halts
    BY Arithmetic DEF Halts
  <1>2. /\ y \in Account /\ y.phase = acct.phase /\ y.kill = acct.kill
        /\ y.entries = 0 /\ y.posts = 0 /\ y.nextRow = acct.nextRow
        /\ y.trade = acct.trade /\ y.open = acct.open /\ y.seen = acct.seen
        /\ y.strayed = acct.strayed
    BY <1>1, AcctTyped DEF Account
  <1>3. acct' = y /\ at = "idle"
    BY DEF DayRolls
  <1> HIDE DEF y
  <1>4. /\ UNCHANGED <<mkt, at, then, killTask, allTask, daemonKill, silent, crashes, faults>>
        /\ eod' = FALSE
    BY DEF DayRolls, control, NoFault
  <1>5. days' = days + 1 /\ days' \in 0 .. MaxDays /\ days \in Nat
    BY AccountAssumption DEF DayRolls, IInv, Typed
  <1>6. Typed'
    BY <1>2, <1>3, <1>4, <1>5 DEF IInv, Typed
  <1>7. Earlier' = Earlier + Cap
    BY <1>5, Arithmetic DEF Earlier
  <1>8. Uncounted' = 0 /\ Unbooked' = 0 /\ Uncounted = 0 /\ Unbooked = 0
    BY <1>3, <1>4 DEF Uncounted, Unbooked
  <1>9. PostsCounted' /\ RowsCounted'
    BY <1>2, <1>3, <1>4, <1>7, <1>8, Arithmetic DEF IInv, PostsCounted, RowsCounted
  <1>10. RowsKnown' /\ Placed' /\ FlatSeen' /\ KillAsked' /\ SlippedEntryIsOwed'
    BY <1>2, <1>3, <1>4
       DEF IInv, RowsKnown, Placed, FlatSeen, KillAsked, SlippedEntryIsOwed, Ready
  <1>11. Booked /\ OwnedUnlessAll /\ HaltedUnlessCleared
    BY <1>2, <1>3, <1>4 DEF Booked, OwnedUnlessAll, Left, HaltedUnlessCleared, IInv, Placed
  <1>12. QED
    BY <1>6, <1>9, <1>10, <1>11 DEF IInv, StepOK

-----------------------------------------------------------------------------
LEMMA InvInit == Init => IInv
  <1> SUFFICES ASSUME Init PROVE IInv
    OBVIOUS
  <1>1. /\ acct \in Account /\ acct.entries = 0 /\ acct.posts = 0 /\ acct.nextRow = 1
        /\ acct.trade = 0 /\ acct.open = {} /\ acct.seen = NotRead /\ acct.kill = "unknown"
    BY FreshTyped DEF Init
  <1>2. mkt \in [pos : Sides, orders : 0 .. 2]
    BY AccountAssumption DEF Init, FlatMkt
  <1>3. Typed
    <2>1. 0 \in 0 .. MaxFaults /\ 0 \in 0 .. MaxCrash /\ 0 \in 0 .. MaxDays
      BY AccountAssumption
    <2>2. "unknown" \in KillStates
      BY DEF KillStates
    <2>3. /\ at \in Awaits /\ then \in Callers
          /\ killTask \in BOOLEAN /\ allTask \in BOOLEAN /\ daemonKill \in KillStates
          /\ silent \in BOOLEAN /\ eod \in BOOLEAN
      BY <2>2 DEF Init, Awaits, Callers
    <2>4. faults \in 0 .. MaxFaults /\ crashes \in 0 .. MaxCrash /\ days \in 0 .. MaxDays
      BY <2>1 DEF Init
    <2>5. QED
      BY <1>1, <1>2, <2>3, <2>4 DEF Typed
  <1>4. Uncounted = 0 /\ Unbooked = 0 /\ Earlier \in Nat /\ faults = 0 /\ Cap \in Nat
    <2>1. days = 0 /\ Cap \in Nat
      BY AccountAssumption DEF Init
    <2>2. QED
      BY <2>1 DEF Init, Uncounted, Unbooked, Earlier
  <1>5. PostsCounted /\ RowsCounted /\ RowsKnown
    BY <1>1, <1>4 DEF PostsCounted, RowsCounted, RowsKnown
  <1>6. Placed /\ FlatSeen /\ KillAsked /\ SlippedEntryIsOwed
    BY <1>1 DEF Init, FlatMkt, Placed, FlatSeen, KillAsked, SlippedEntryIsOwed
  <1>7. QED
    BY <1>3, <1>5, <1>6 DEF IInv

LEMMA NextOK ==
  ASSUME IInv, Next
  PROVE  StepOK
  <1>1. CASE Worker
    BY <1>1, StartReadOK, StartFlattenOK, StartKillOK, HeartbeatStartOK, IntentStartOK,
       TickStartOK DEF Worker
  <1>2. CASE Resume
    BY <1>2, WatchdogReadOK, LinkReadOK, HeartbeatReadOK, ExitInfoOK, ExitSweepOK,
       BracketReadOK, OrphanReadOK, OrphanSweepOK, EodReadOK, EodSweepOK, EodCheckOK,
       ExitReadOK, EntryReadOK, PrecheckOK, PostedOK, ReadbackOK, FlattenOK, FlattenReadOK
       DEF Resume
  <1>3. CASE WorkerCrash
    BY <1>3, WorkerCrashOK
  <1>4. CASE Tasks
    BY <1>4, KillPollOK, KillAcquireOK, FlattenAllRequestOK, FlattenAllAcquireOK, TimedOutOK
       DEF Tasks
  <1>5. CASE Environment
    BY <1>5, CrashOK, ClearHaltsOK, BackoffOverOK, CacheExpiresOK, SilenceOK, EodReachedOK,
       DayRollsOK, BracketFillOK, StrayOK DEF Environment
  <1>6. QED
    BY <1>1, <1>2, <1>3, <1>4, <1>5 DEF Next

LEMMA StutterOK ==
  ASSUME IInv, UNCHANGED vars
  PROVE  IInv'
  BY DEF vars, IInv, Typed, PostsCounted, RowsCounted, RowsKnown, Placed, FlatSeen, KillAsked,
         SlippedEntryIsOwed, Uncounted, Unbooked, Earlier, Ready

LEMMA Inductive == Spec => []IInv
  <1>1. IInv /\ [Next]_vars => IInv'
    BY NextOK, StutterOK DEF StepOK
  <1>2. QED
    BY <1>1, InvInit, PTL DEF Spec

-----------------------------------------------------------------------------
(* The results. *)

\* Every variable keeps its type, for every bound; what it takes is the bound
\* on the trade rows (ledger.py trade_open), which restarts, lost counts and
\* midnights may not exceed.
THEOREM TypeCorrect == Spec => []TypeOK
  <1>1. IInv => TypeOK
    <2> SUFFICES ASSUME IInv PROVE TypeOK
      OBVIOUS
    <2>1. /\ acct.posts \in 0 .. MaxPosts /\ acct.entries \in 0 .. MaxPosts
      BY Arithmetic DEF IInv, PostsCounted, Typed, MaxPosts
    <2>2. Earlier + Cap + faults <= MaxRows
      <3>1. days \in Nat /\ MaxDays \in Nat /\ days <= MaxDays /\ Cap \in Nat
            /\ faults <= MaxFaults
        BY AccountAssumption DEF IInv, Typed
      <3>2. Cap * (MaxDays + 1) = Cap * MaxDays + Cap /\ Cap * days <= Cap * MaxDays
        BY <3>1
      <3>3. Cap * days \in Nat /\ Cap * MaxDays \in Nat
        BY <3>1
      <3>4. QED
        BY <3>1, <3>2, <3>3, Arithmetic DEF Earlier, MaxRows
    <2>3. Unbooked \in {0, 1} /\ MaxRows \in Int
      BY AccountAssumption DEF Unbooked, MaxRows
    <2>4. acct.nextRow - 1 <= MaxRows
      BY <2>2, <2>3, Arithmetic DEF IInv, RowsCounted
    <2>5. /\ acct.nextRow \in 1 .. MaxRows + 1 /\ acct.trade \in 0 .. MaxRows
          /\ acct.open \in SUBSET (1 .. MaxRows)
      BY <2>3, <2>4, Arithmetic, AcctTyped DEF IInv, RowsKnown, Account
    <2>6. QED
      BY <2>1, <2>5 DEF IInv, Typed, TypeOK, Account
  <1>2. QED
    BY <1>1, Inductive, PTL

\* README.md:149's entry cap holds for every cap and however often the daemon
\* is restarted, up to one entry for each worker crash inside broker.enter.
THEOREM CapHolds == Spec => []EntriesWithinCap
  <1>1. IInv => EntriesWithinCap
    BY DEF IInv, PostsCounted, EntriesWithinCap
  <1>2. QED
    BY <1>1, Inductive, PTL

\* An entry that passed the gate before a pause is owed a flatten
\* (executor.py:664), whatever is cancelled, retried or restarted meanwhile.
THEOREM SlippedOwed == Spec => []SlippedEntryIsOwed
  <1>1. IInv => SlippedEntryIsOwed
    BY DEF IInv
  <1>2. QED
    BY <1>1, Inductive, PTL

\* No trade's row is booked closed while its position is held, though the read
\* that decides it may be cached and whatever has failed before, unless a stray
\* order opened a position since the last read of the exchange; a row booked
\* closed as it is opened (executor.py:528) is of a flat account or of a day
\* that is halted.
THEOREM ClosedOnlyFlat == Spec => RowClosedOnlyWhenFlat
  <1>1. IInv /\ [Next]_vars =>
          [/\ ~(acct.open \subseteq acct'.open) => mkt'.pos = 0 \/ acct.strayed
           /\ acct'.nextRow # acct.nextRow /\ acct'.open = acct.open
                => mkt'.pos = 0 \/ acct'.halt # "no"]_vars
    BY NextOK DEF StepOK, Booked
  <1>2. QED
    BY <1>1, Inductive, PTL DEF Spec, RowClosedOnlyWhenFlat

\* As long as the owner does not clear halts, a handler leaves no position at
\* the exchange without a trade row, a halt or a flatten that is owed.  With
\* clear-halts there is one way: a flatten-all whose halt is cleared while it
\* flattens, whose flatten was confirmed by another task in between, and which
\* is cancelled by its timeout after a stray fill.
THEOREM LeftIsOwned ==
  ASSUME "clear" \notin Events
  PROVE  Spec => PositionLeftIsOwned
  <1>1. Init => AllHalted
    BY DEF Init, AllHalted
  <1>2. IInv /\ AllHalted /\ [Next]_vars => AllHalted'
    <2>1. ASSUME IInv, AllHalted, Next PROVE AllHalted'
      BY <2>1, NextOK DEF StepOK, HaltedUnlessCleared, AllHalted, ClearHalts
    <2>2. ASSUME AllHalted, UNCHANGED vars PROVE AllHalted'
      BY <2>2 DEF AllHalted, vars
    <2>3. QED
      BY <2>1, <2>2
  <1>3. IInv /\ AllHalted /\ [Next]_vars =>
          [/\ at' = "idle" /\ mkt'.pos # 0 /\ crashes' = crashes
           /\ \/ at = "posted" /\ mkt' # mkt
              \/ at \in {"readback", "flatten", "flatRead"}
           => \/ acct'.trade # 0 \/ acct'.halt # "no"
              \/ acct'.need \/ acct'.kill = "paused"]_vars
    BY NextOK DEF StepOK, OwnedUnlessAll, Left, Owned, AllHalted
  <1>4. QED
    BY <1>1, <1>2, <1>3, Inductive, PTL DEF Spec, PositionLeftIsOwned
=============================================================================
