# Verification of trade-jev

trade-jev trades a paper account on NQ futures from the answers of a language
model and, with its copy daemon, repeats paper's positions on real accounts.
This directory holds TLA+ models of the parts where the order of events
decides whether that is right, the TLC configurations that check them and the
TLAPS proofs about them.  Paths below are relative to the repository
(`src/trade_jev/` is shortened to `tj/`).

    tlc -workers 2 -config account_safety.cfg MCCopyAccount
    tlapm IntentChannelProofs.tla

## 1. Inventory

| Component | State | Operations | What makes it hard | What makes it correct |
|---|---|---|---|---|
| Intent link: `live.IntentLink`, `Session._intent`, `Session.heartbeat` | target, intent_seq, boot; a queue of 200; a worker and a beat thread | change the position, beat, POST once | three threads without a lock; a POST is lost, or late | the account comes to paper's position from heartbeats alone; no intent is acted on twice |
| Daemon: `tj/copytrade/daemon.py` | per account a worker, a queue, the latest heartbeat; the kill state | receive, enqueue, worker loop, kill watcher, flatten-all, `_timed` | HTTP threads, coalesced heartbeats, tasks cancelled after 20 s | intents handled in order; a kill reaches every account |
| Copy executor: `tj/copytrade/executor.py` | boot, last_seq, target, trade, need_flat, backoff, halts, counters, link state | startup, on_heartbeat, on_intent, watchdog_tick, kill_flatten, flatten_all | every handler awaits the broker many times under one lock; two tasks wait for the lock and time out; restarts | never more entries than the cap, no position without an owner, an open row closed only when flat, flat after kill, lost link, exit, end of day |
| Ledger: `tj/copytrade/ledger.py` | signals, orders, fills, trades, halts in sqlite | signal_new (unique), day_entries, trade_open/close, halt | what a restart can know | a signal's row is written once; the day's entries survive a restart |
| Broker adapter: `tj/copytrade/broker.py` | read caches, blocks | enter (placeoso, recover, settle, modify, verify), flatten, sweep, reads | POSTs whose outcome is unknown; fills that race cancels and reads | a missed entry leaves nothing; what is reported is so; a bracket is never cancelled under a position |
| Live engine and book: `live.Engine`, `harness.Book`, `policies.Gated` | books, orders in flight, the grid, rows read | feed, fire, decide, finish | a stop fires while an order is in flight; batches cut anywhere; cancelled decisions | live trades are the batch harness's trades; no exit is missed; the target announced is the book's |
| Single-broker executor: `tj/executor/` and `Session.set_armed` | armed, halted, day_halt, need_rearm, last_seq, target, orders | set_armed, on_intent, on_heartbeat, watchdog | arming and halts against messages in any order, calls that raise | no entry while disarmed, halted or in a position; a halt outlives everything but off and on |
| Token store and keep-alive: `tj/tradovate_token.py`, `tj/tradovate_keepalive.py` | store, status, lock file, seeds tried | tick, renew, adopt, write | two processes renew one token, a lost answer, a full disk | one of them renews at a time; the store lapses only after repeated faults |
| Tradovate feed: `tj/tradovate.py` | connection, tokens, backoff, refusals, the chart's decoder | connect, subscribe, reader, renew loop, supervisor | reconnects, history repeated, refused connections | a trade is counted once; a session adopts and does not renew |
| A paper day: launchd job, `run_paper_day.sh`, session row, `resonant-extension/cli.py` start, stop, health, recover | the job, the row, `recover_state.json`, `stopped_day` | start, stop, health, recover | four processes with no lock; recover killed between its steps | restarts are bounded; a day that is down is tried again; a stop holds |
| Paper record: `tj/paperdb.py`, `live.Session`'s rows, the totals of viewer and extension | a queue, a transaction, rows | put, write, commit, finish, read | a writer thread, failed statements and commits, hard exits | rows in order and once, complete when a session says it ended; totals that count once |
| Token upkeep of the copy accounts: `tj/copytrade/tokens.py` | a budget of renewals, a password attempt | renew, log in | nothing shared | (not modelled) |
| Bus, Parquet recorder, viewer API; policies, encoding, settings; offline runs; reports and panel; pages, scripts, plists | files, pages | serve, compute, display | - | (not modelled, or pure) |

How they interact: the engine changes the paper position and calls `_intent`;
the link POSTs intents and heartbeats to the HTTP thread of the copy daemon
(or of the single-broker executor), which queues them; the account's worker
calls its executor, which awaits the broker adapter and writes the ledger.  The
kill watcher's task and the owner's flatten-all call the same executor from
beside the worker.  Tokens reach the session and the adapters through a store
that the keep-alive writes under a file lock.  The session puts its rows on the
queue of a writer thread; the viewer and the extension read what is committed,
and the extension's health check starts and stops the job through launchd.

## 2. Modules

| Module | Models | Used by |
|---|---|---|
| `IntentDelivery` | what the link promises: a change really made is acted on at most once | refined by `IntentChannel` |
| `IntentChannel` | `Session._intent` and the beat thread, the wire, the daemon's queue, the executor's boot, seq and target | `MCIntentChannel`, `IntentChannelProofs` |
| `CopyAccount` | one account: the executor, its rows, the tasks that drive it, the account at the exchange | `MCCopyAccount`, `CopyAccountProofs` |
| `OsoEntry` | the adapter's `enter`, `flatten` and `sweep` call by call, and the exchange | `MCOsoEntry`, `OsoEntryProofs` |
| `PaperBook` | `Book`, `Engine`, `Gated`, the announced target, and the backtest it must reproduce | `MCPaperBook`, `PaperBookProofs` |
| `PaperExecutor` | the single-broker executor, the session that arms it, the wire, a broker | `MCPaperExecutor`, `PaperExecutorProofs` |
| `TokenStore` | the store, its lock and the keep-alive | extended by `Feed` |
| `Feed` | the session's login, renew loop, supervisor and decoder over the store | `MCFeed`, `FeedProofs` |
| `PaperDay` | the day's job, the session's row, health, recover and the owner | `MCPaperDay`, `PaperDayProofs` |
| `PaperRecord` | the recorder's queue and writer, the day's sessions, the totals read back | `MCPaperRecord`, `PaperRecordProofs` |

`MC*` are the instances for TLC, `*Proofs` hold the theorems of section 4.

**IntentChannel.**  `boot`, `target`, `seq` are the Session's.  The engine
thread's `_intent` is three steps (`EngineTarget`, `EngineCount`,
`EngineSend`), the beat thread's heartbeat three (`BeatSeq`, `BeatTarget`,
`BeatSend`): Python evaluates the dictionary in that order and no lock is held.
`link` is `IntentLink.q`; `Post`, `Deliver` and `GiveUp` are its worker; `late`
holds the requests it gave up on that a daemon thread may still handle.
`queue` and `latestHb` are `Worker.queue` and `Worker.latest_hb`: a heartbeat in
the queue is a token.  `HandleHeartbeat` is `on_heartbeat` up to the seq and the
target; `TakeIntent` and `ActOnIntent` are `on_intent` cut where a crash
matters, after the signal's row is committed and before the account acts.
`acts` and `path` are history.  Times, prices and reasons are left out; a stale
intent is one the account may act on or not.

**CopyAccount.**  A step runs from one `await` of a handler to the next.  `at`
names the await the holder of the executor's lock is at, `then` the caller that
goes on when `_flatten` (or `_native_exit`) returns; `acct` is the executor's
memory and the account's rows, `mkt` the position and live orders at the
exchange; `acct.strayed` is history, true while a stray order has opened a
position since the executor last read the exchange.  `killTask` and `allTask` are tasks that wait for the lock;
`need_flat` is set before they wait, as in the code.  `startup` does not take
the lock, so `flatten_all` may run beside it.  A worker that fails in the ledger
between two awaits (`WorkerCrash`, the event `"ledger"`) loses what the handler
still had in memory, or, in a flatten, leaves the row open of a trade already
forgotten (`RowNotBooked`).  Data is abstracted to what the properties tell apart: a
position is a side, orders are a number, a trade is a row number; whether a
limit is hit, a poll is due or a quote is missing is a free choice.

**OsoEntry.**  One step is one call to the exchange and what the adapter does
with its answer up to the next call; `at` is that call, `m` the locals of the
coroutine.  Poll loops that end by the clock (`SETTLE_S`, `VERIFY_S`,
`FLAT_WAIT_S`) end after `MaxPolls` further reads; those that count do it as in
the code.  `sweep` has four callers; `m.sweepFor` says who goes on.  The
exchange is not part of the repository: `orders` and `pos` follow how the code
uses it and what the tests' own exchange does.  What the code does not trust it
for is in `quirks`, a set chosen once: positions shown late, orphaned children
that fill, a timed out POST that arrives late, a parent that rests.  `TypeOK`
and `FlattenSettles` hold for every mix; the other properties name the exchanges
they hold on, and fail on the rest: an adapter that only polls cannot see a
request that is still on its way.

**PaperBook.**  `book[p]` is a harness `Book` (position, the row it watches,
trades), `fills` the heap of orders in flight, `gi` the grid's index, `asking`
the decision that awaits an answer.  `Receive` and `Absorb` are `feed` up to the
next event, `FireFills`, `SkipDecision`, `Ask`, `Answer` and `FireEnd` the
events in the order of `_fire`, `DataEnds`, `Cancel`, `FinishClose` and
`FinishEmpty` the ways a session ends.  Policies answer anything.  `Backtest` is
`run_day` over the recorded rows, a recursive function.

**PaperExecutor.**  Handlers hold one lock from start to end and do not
interleave; a step runs from one broker call to the next (`at`), and between two
steps the account, the owner and the session move (`BracketExits`, `Stray`,
`Arm`, `Disarm`, ...).  A call that raises (`Raised`) ends a message's handler
quietly and takes the process when it was the watchdog's; an entry or a flatten
that raises may have been filled.  A flatten against which the bracket fills
leaves the opposite side (`Flattened`).

**TokenStore, Feed.**  A renewal holds the file lock over its request and reads
the store again under it; the server answers in a step of its own (`Answers`),
so an answer may be lost, unwritable, or outlive its process.  A token is known
by its expiry.  A unit of time is at least `RETRY_S`, one tick of the
keep-alive.  As `tradovate_token.py` does, the model takes a renewed token to
stay usable until its own expiry.  `Feed` adds the session: `Asks` to `Awakes`
are `TradovateAuth`, `Connects` to `Drops` the supervisor, `Dom`, `Trades` and
`Delivers` the decoder with its history marker.  A session ends by being stopped
or killed (`Dies`) or by a refusal that lasts (`GivesUp`); either cuts off a
renewal in flight (`LeavesRequest`).

**PaperDay.**  Time is counted in health checks of five minutes; what takes
seconds (recover's check, SIGTERM, wait, kickstart; the owner's stop and start)
is a step each.  `job` is launchd's, `run` the process, `rows` the session rows,
`rec` `recover_state.json`.  launchd's `kill SIGTERM` is taken to reach the
Python process, as `amain`'s handler expects.

**PaperRecord.**  `made` holds the trades of every session (`results[..].trades`),
`ses` the books and what was put on the queue of them (`paper_sent`,
`paper_open`), `queue` is `Recorder.q`, `view` the rows as the writer's open
transaction sees them, `db` the committed rows.  `Feed`, `EngineCloses`, `Done`,
`Stopped` are the session; the actions of `Put` put one statement each on the
queue, `todo` says what of a start or an end is still to be put.  `Execute` is
the writer with one statement, which may fail, `Commit` its commit, which may
fail and leaves the transaction open; the writer commits a batch, which is
whatever it found, so a commit may come after any statement.  `Exit` and `Kill`
drop what is not committed.  A trade is the places in the day where it began and
ended, its row the number of the trade.  `Page`, `DayPnl` and `CloseTitle` are
the readers.

## 3. Runs

| Run | Question | Bounds |
|---|---|---|
| `channel` | is every change acted on at most once, is the followed target never older than the seq, does the account come to paper's run, seq and target, does the link implement `IntentDelivery` | 2 changes over 1 or 2 paper runs, queues of 1, one late or repeated request and one daemon crash, two faults in all |
| `channel_coalesce` | does a heartbeat never overtake an intent in the daemon's queue | violated, see below |
| `account_safety` | cap, ownership of slipped entries, open rows closed only when flat, whatever failed before | both sides (a symmetry), 1 entry a day, one midnight, every event but the end of the day and stray orders, one fault, one crash |
| `account_live` | kill, lost link, paper's exit and end of day end flat; no position is left unowned | long only, one entry, one fault, the events that end a day |
| `account_flatten_all` | does flatten-all always halt the day | violated, see below |
| `account_forgotten` | is every trade's row closed when the executor lets go of it | violated, see below |
| `oso_entry` | does a miss leave nothing, are reports so, is protection kept, do loops end, does flattening end flat | 2 entries of 2 contracts, 1 further poll, 2 faults, no quirk, resting alone, the three timing quirks, all four |
| `paper_book` | is a replay the backtest, is no exit missed, does the target follow, does a session end flat | 3 decisions, 2 policies, 3 settings, rows in any batches with quiet spells longer than a decision's interval, one cancelled decision |
| `paper_executor` | entries begin only flat, armed, not halted, also when the bracket fills against a flatten; halts hold; exits and lost heartbeats flatten | 3 intents, 1 entry, one message on the wire, 2 faults |
| `paper_day` | are restarts bounded, is a day that is down tried again, does a stop hold | 9 checks, 2 attempts, 2 faults, 1 command of the owner |
| `feed` | are renewers apart, who renews, when does the store lapse, is a trade counted once | 4 units, 1 paste, 3 faults, 1 trade |
| `paper_record` | are rows in order and once, is an ended record complete, does the day count once | 2 events, 2 sessions, 2 policies, 1 failed statement, 1 slip (kill, failed commit, timed out join, interrupted end); sessions that are stopped say `aborted`, which readers treat as they do `crashed` |

Why the bounds are enough.  In the link, a second change is what makes an
earlier message old, and a second run what makes its counters comparable with
those of the first; a queue of one is already full while a message waits.  In
the account, an entry, its exit and a refused second entry need a cap of 1; a
fault is anything that goes wrong at the broker or with time (a failed read, an
order that dies, a timeout, a stray fill, a failing ledger), and a crash may
come at every await with what it had asked the broker done or not.
`account_safety` leaves the stray orders, the one case `RowClosedOnlyWhenFlat`
excuses, to its theorem (`ClosedOnlyFlat` is proved for every set of events) and
to `account_live`, so in the run no open row is closed on a position.  For the
adapter two contracts make a partial fill, and the second entry meets what the
first left; what a quirk allows includes what goes without it, so the larger
mixes stand for the smaller.  In `PaperBook` two decisions make a reversal with
an order in flight, the third follows it; a quiet spell longer than `Cadence`
ends a recorded day with a decision after the engine's last row, which is why the
record is the rows read and the ones left in the batch (`Record`).  In `PaperDay` two attempts are one
more than a cooldown can separate from the cap.  Where a theorem below states
the property, the bounds do not matter.

Deadlock is not checked where a run may use up its faults and days and then
stutters (`CHECK_DEADLOCK FALSE`): the account, the book, the executor, the
record.

### Fairness

`IntentChannel!FairSpec`: each thread goes on: the engine finishes what it
began, the beat thread, the link worker and the account's worker take what they
have (`WF`); a message POSTed again and again is not lost every time (`SF`),
which repeated heartbeats assume of the machine they run on.  None for crashes,
losses or changes.

`CopyAccount!FairSpec`: awaits return (every broker call has a timeout); the
lock is asyncio's, first in first out, so a task that waits gets it although
others take it in between (`SF` of `TickStart`, `KillAcquire`,
`FlattenAllAcquire`, `StartKill`); the siblings of a position are looked at every
`ORDER_POLL_S` of heartbeats; backoff and cache have deadlines.  Heartbeats are
not fair: properties that need them say so.

`OsoEntry!FairSpec`: calls return, an IOC order ends, the position list catches
up, a late request arrives, and an executor that owes a flatten calls it again
(`SF` of `FlattenCall`, carried by `need_flat` in `CopyAccount`).

`PaperExecutor!FairSpec`: a handler that began goes on, the server's thread gets
the lock, the watchdog runs in `amain`'s loop.  `ReceivedExitFlattens` assumes
heartbeats in its own statement.

### What the violated runs show

* `channel_coalesce`: `Daemon._enqueue` keeps one `latest_hb` for all tokens in
  the queue.  With heartbeat, intent, heartbeat queued while the worker is busy,
  the first token handles the second heartbeat; its `seq_last` already counts
  the intent, which is adopted as lost and then skipped as old.  The account
  misses an entry that was received in time.
* `account_flatten_all`: the halt of flatten-all is written only once the lock is
  held.  When its 20 s end before that, the watchdog flattens (need_flat is set)
  but nothing halts the day.
* `account_forgotten`: `_entry` looks at the position, never at `self.trade`.
  When the bracket closed a position and the next intent comes before the next
  heartbeat, the old trade is overwritten; its row stays open and its P&L is
  missing from the day's sum the loss limit is compared with.

### Findings without a run

Met while modelling; a model has them (or names them as an exemption), but no
run of their own shows them.

* **Executor, an uncounted entry.**  `self.entries += 1` comes after
  `broker.enter`.  A ledger error between the two loses the count in memory until the
  rows are read again at the next start; `EntriesWithinCap` allows one entry per
  such fault.
* **Executor, flatten-all cancelled after clear-halts.**  flatten-all asks while
  another flatten runs, gets the lock, the owner's clear-halts takes its halt
  back while it flattens, a stray fill opens a position, and its 20 s end: that
  position has no owner until the next heartbeat.  `PositionLeftIsOwned` holds on
  the instance, and is proved, without clear-halts.
* **Adapter, a partial fill shown late** (`tj/copytrade/broker.py:444`).
  An IOC entry that ends `Canceled` is a miss when the position list does not
  show its partial fill yet, and its bracket is swept; the comment there keeps
  the bracket only of orders that may still be filled.  The tests' exchange
  (`tests/copytrade_fakes.py:154`) fills and lists at once.
* **Single-broker executor, a lost exit** (`tj/executor/core.py:135`).  A
  heartbeat does not move the target, so an exit whose intent was lost is only
  found when heartbeats stop, though `core.py:8` says a heartbeat is enough.
* **Single-broker executor, restarted session** (`tj/executor/core.py:58`).  A
  session that starts again counts its intents from 1; without a boot id they
  are old ones to a running executor.
* **Feed, backoff** (`tj/tradovate.py:1051`).  `_first_data_t` is reset only
  once `_connect` succeeded, so a failed attempt after a healthy connection
  counts as healthy and the backoff starts again from `BACKOFF_S`.
* **Feed, renew loop** (`tj/tradovate.py:450`).  A failed renewal sets
  `expires_at` to schedule the next one, and with it what `ensure_fresh` (line
  425) takes for the token's expiry.
* **Beat thread** (`tj/live.py:837`).  A heartbeat reads `intent_seq` and then
  the target without a lock and may be sent after a later intent: the model's
  `BeatSeq`, `BeatTarget`, `BeatSend`.  `TargetNotOlderThanSeq` shows that the
  executor never stands at a target older than its seq; a target newer than its
  seq it may stand at, until the intent or a later heartbeat comes.
* **Copy executor, a row booked closed in a position**
  (`tj/copytrade/executor.py:528`).  `_record_closed_at_entry` books the row of a
  partial fill, or of a bracket that is missing, as opened and closed also when
  the broker could not close it (`fa.ok` false): its docstring says "that the
  broker closed itself".  The account is halted for the day and, after a partial
  fill, owes a flatten, but the row has an exit and a P&L that never were, and
  the position that remains has no row.  `RowClosedOnlyWhenFlat` asks only for
  the halt there.
* **Single-broker executor, an entry that raises** (`tj/executor/core.py:220`).
  `broker.enter` is awaited without a `try`, and `self.orders += 1` comes after
  it: an entry whose call raises after it was filled is neither counted against
  `max_orders` nor read back, and nothing halts.  `TypeOK` bounds the entries
  that are counted.
* **Copy executor, a row that stays open** (`tj/copytrade/executor.py:219`).  A
  trade whose position was gone at startup, and one flattened by
  `flatten-all --direct` in another process, keeps its row open.
* **Day P&L after a restart on Databento**
  (`resonant-extension/cli.py:1178`).  The new session replays the day from the
  open and records the trades again; the day's totals add both sessions, though
  the docstring and `resonant-extension/README.md` say that nothing is counted
  twice.  `DayCountsOnce` says it of Tradovate, where it holds.
* **Record, an interrupted finish.**  A trade that `Engine.finish` closes only
  after `end_paper` was interrupted is in `results` and never in a row (`cut` in
  `PaperRecord`).
* **Viewer, a failed summary statement.**  Once one summary row exists, the page
  shows no policy whose own row failed.
* **recover and the owner** (`resonant-extension/cli.py:1226`).  A session the
  owner starts between recover's attempt and its SIGTERM is ended by that
  SIGTERM and, having started after the attempt, not taken for recover's: no
  check calls the day down.  `NotRecovers` in `PaperDay` names it.

Two assumptions about programs outside the repository: launchd's SIGTERM reaches
the Python process (`PaperDay`), and a renewed token stays usable until its own
expiry (`TokenStore`).

## 4. Proofs

Every theorem is about the specification the runs check, for every value of the
constants that the module's named assumption allows.  Each one goes through an
inductive invariant that TLC checked on the instance of the run first.

| Module | Theorems | Argument |
|---|---|---|
| `IntentChannelProofs` | `TypeCorrect`, `AtMostOnce`, `TargetIsCurrent`, `KeepsPromise` | `RowBeforeAct`: what was acted on has its signal row, and a row is written once. `HInv`: every message under way, in the link, on the wire, late, queued or coalesced, is honest: its run took its target with the change it names or a later one; so is what the executor stands at. Both together give the refinement of `IntentDelivery` (run by boot, changes by the length of the path): an act is of a change really made, and the first of it |
| `CopyAccountProofs` | `TypeCorrect`, `CapHolds`, `SlippedOwed`, `ClosedOnlyFlat`, `LeftIsOwned` | see below |
| `OsoEntryProofs` | `TypeCorrect`, `MissIsNothing`, `Reported`, `Protected`, `HeldIsOne`, `OnlyCloses` | see below |
| `PaperBookProofs` | `TypeCorrect`, `ClosedFlat`, `ExitsFound`, `TargetFollows`, `ReplaysBacktest` | see below |
| `PaperExecutorProofs` | `TypeCorrect`, `Entries`, `HaltsHold` | where the handlers may be: calls that lead to an entry are reached armed and, unless paper goes flat, not halted; a step that gets to an entry has just read the account flat (`BegunFlat`), and while it is under way only a trade by hand moves the account (`UnderWay`); a halt that asks for no new arming is an armed executor's, but for the moment the watchdog reads the position |
| `PaperDayProofs` | `TypeCorrect`, `Bounded`, `Retries`, `StopKept` | recover's file is written before it acts: every act is counted, none is later than `last_at`, and what its checks found holds until it writes. The types need that, because the file's counter is bounded only by the checks. For `Retries` see below |
| `FeedProofs` | `TypeCorrect`, `Apart`, `Lapses`, `Adopted`, `CountedOnce` | who has a request under way holds the lock; a token that was renewed is about to be replaced by the holder, or the answer was lost. The faults of the run are at least the units the store has been due and not renewed (`Paid`), so a lapse takes as many as `RENEW_BEFORE_S`; a session sends only a token with so little left that one was due. What a chart's history repeats comes before its marker and makes no row (`RowsBehind`) |
| `PaperRecordProofs` | `TypeCorrect`, `InOrder`, `EndedComplete`, `CountsOnce` | see below |

**The copy account.**  `IInv` says what is counted where: posts against the
count in memory, the rows of the day against both (a row is written before it
is counted; a crash of the worker in between loses the count, a restart takes
it from the rows, midnight forgets both), each with one fault for what may be
missing.  `Placed` says where the holder of the lock may be with which
locals, `FlatSeen` that a flat that was read holds unless a stray order opened a
position since that read (a cached read that is served again counts from the
read that filled the cache), `KillAsked` that a request for a flatten outlives its task,
and `SlippedEntryIsOwed` is inductive with these.  `LeftIsOwned` assumes
`"clear" \notin Events`: with clear-halts a flatten-all can leave a position
nobody owns (Findings without a run).

**The adapter.**  What it read must still hold when it acts.  `OInv` says why:
orders of an entry not sent yet do not exist (`Ahead`, `Unposted`), a dead parent
never fills and without resting parents none is live at a call (`Lives`), what
a poll answered is what `m` holds (`Answered`), on an exchange that does not lag
a miss is one (`Plain => Misses`), and without quirks a child dies only when
there is nothing to protect (`quirks = {} => Proper`).  One lemma says which
moves of the exchange are possible between two calls; every action is a case of
it and a fact about control.

`HeldIsOne` and `OnlyCloses` are what `CopyAccount` may take from its broker, for
an exchange without quirks.  The account holds nothing, or what its last entry
filled with that entry's orders alone alive; every step keeps this because it is
calm (`Calmer`: the position stays or goes, no order comes to life), a POST that
finds the account flat, or the fill of the entry under way.  During a flatten or a
sweep only calm steps are left, so one that fails leaves the position it found or
none, and no new order: the outcomes of `BrokerNotFlat`.  (`CopyAccount` counts
orders and leaves out that one of two may remain on a flat account: there it asks
only whether any are left.)  No property of a run is behind these two; TLC
checked them on the exchange of `oso_entry` before the proof.

**The paper book.**  Flatness needs only `IInv`.  `BInv`: no row is appended that
is later than the next event.  So everything, the fill of an order included,
happens at the last row, and each book has looked at every row before it; orders
fill before the next decision, so Jev never has two.

`ReplaysBacktest` is a simulation on top of it (`RInv`).  While a rehearsal goes
on, the decisions made are those at the moments of the grid that the rows cover
(`OnTheGrid`), and each book is the backtest's over the decisions and the rows
so far, swept for exits up to the last row; while the last decision's order is
in flight it is the book that decision found, swept as far (`Follows`).  The
backtest reads the whole record and the engine only what has come: what a
decision, its order's fill or a sweep reads is the same in every longer record
whose further rows are later (`DecidedLonger`, `CheckExitsLonger`), and rows
still to come are later (`Reached`, `Past`).  A sweep made in pieces is the sweep
made at once (`CheckExitsTwice`), which is why batches do not matter.  `Decided`
is a recursive function of the number of decisions; the induction over it is a
least counterexample in `Nat` (`DecidedLast`, `DecidedLonger`).

**A paper day.**  `Retries` bounds how long a day may be down unnoticed, counted
from the last tick with nothing for recover to do (`well`).  A check leaves a day
that is down alone only while nothing is missing yet (`MISSING_AFTER`), its row is
young (`GRACE_S`, `CATCH_UP_MAX_S`), recover cools down, or the session decided
less than `STALL_S` ago.  The first four are `Patience`.  The last one needs a
session that decided and then fell, so each such spell is paid by a fault;
`RetryInv` says so of every state: the time down is within what the faults so
far have paid, less what the last decision is old (`Within`).

**The paper record.**  `OrderInv` holds whatever fails: statements on the queue
name trades that were sent, behind those in the rows and behind each other
(`QueueBehind`), and the trades of a session begin one after the other.
`Kept` is added while no statement failed: a trade that was sent is in the rows
or on the queue (`NothingLost`), so with the order of the queue the next trade
that is executed is the next number, and rows are all numbers up to one; the
position that was put last is the one in the row when nothing is left
(`ShownLast`); a session that goes on has no totals and no end (`GoesOn`); one
that ends puts its final status once, before the item that stops the writer and
after all else, unless its end found a position and left it (`Stopping`,
`EndsWell`).  So a row that says that the session ended was executed with
nothing behind it but the stop, and is whole when it is committed.

`CountsOnce` adds `Apart`: on Tradovate a session starts at the end of the day and
flat, so its positions begin behind those of every session before it.  A day whose
sessions all ended has whole records only, whose numbers of rows and totals are the
sizes of these disjoint sets.  The day's sums are the library's folds, recursive
functions on sets of sessions: one exists that sums sizes (`SumExists`, the size of the
union is one), and any that does gives the size of the union (`SumCounts`, by a
smallest set on which it would not).

What stays with TLC is liveness under fairness, which is out of the prover's
reach: `EventuallyFollows`, `AlarmFlattens`, `HeartbeatsFlatten`,
`FlattenSettles`, `ReceivedExitFlattens`, `LostBeatsHalt`.  Every invariant of a
passing run, and each of their other action properties, is a theorem
(`LeftIsOwned` under its assumption).

## 5. Plan

What is left is to make one refinement of the facts that tie `OsoEntry` to
`CopyAccount`: `MissIsNothing` and `Reported` for what `enter` and `flatten` report,
`HeldIsOne` and `OnlyCloses` for what they leave when they fail.  On an exchange
with quirks they say nothing: there `CopyAccount`'s own `Stray` and the unknown
outcomes of its `Posted` stand for what may happen.

## 6. Not modelled, and why

* `tj/copytrade/tokens.py`: keeps one account's token with a budget of renewals
  and one password attempt; no second actor shares its state.
* `tj/live.py`'s bus and Parquet recorder, `tj/view.py`: outputs; what readers
  conclude from the record is in `PaperRecord`.
* `tj/policies`, `tj/encoding`, settings: pure functions; a policy answers
  anything in `PaperBook`.
* `tj/run.py`, `replay.py`, `data.py`, `metrics.py`, `outputs.py`: offline.  What
  they share with the live engine, the book and `run_day`, is in `PaperBook`.
* The rest of `resonant-extension`: reports and panels.
* Pages, scripts, plists; HTTP parsing, the daemon's status file and publisher.
