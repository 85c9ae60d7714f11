---------------------------- MODULE IntentChannel ----------------------------
(***************************************************************************)
(* The way of an intent from the paper session (live.py) to one account    *)
(* worker of the copy daemon (copytrade/daemon.py, copytrade/executor.py). *)
(*                                                                         *)
(* Three threads of the paper process touch the link: the engine, which    *)
(* changes its target, counts the change and queues an intent; the beat    *)
(* thread, which reads the counter and the target one after the other and  *)
(* queues a heartbeat; and the link worker, which POSTs the queue in order *)
(* and tries every message once.  A POST may be lost, and one that the     *)
(* worker gave up on after its timeout may still be in the hands of a      *)
(* daemon thread, to be received later than its successors.  The daemon    *)
(* queues intents and heartbeat tokens for the account worker, a heartbeat *)
(* token standing for the latest heartbeat received.  Either process may   *)
(* crash and start again.                                                  *)
(*                                                                         *)
(* What the account does with an intent (CopyAccount) is one step here.    *)
(***************************************************************************)
EXTENDS Integers, Sequences, FiniteSets, Functions

CONSTANTS Targets,   \* sides of the paper position, 0 among them
          MaxBoot,   \* bound: paper runs (boot ids)
          MaxSeq,    \* bound: position changes of one run
          MaxMoves,  \* bound: position changes of all runs
          MaxLink,   \* capacity of the link's queue (200 in the code)
          MaxQueue,  \* bound: the account queue (unbounded in the code)
          MaxLate,   \* bound: requests received late, or a second time
          MaxCrash,  \* bound: crashes of the daemon
          MaxFaults  \* bound: late requests and crashes of either side together

ASSUME ChannelAssumption ==
  /\ Targets \subseteq Int
  /\ 0 \in Targets
  /\ MaxBoot \in Nat \ {0}
  /\ MaxSeq \in Nat
  /\ MaxMoves \in Nat
  /\ MaxLink \in Nat
  /\ MaxQueue \in Nat
  /\ MaxLate \in Nat
  /\ MaxCrash \in Nat
  /\ MaxFaults \in Nat

Boots   == 1 .. MaxBoot
Seqs    == 0 .. MaxSeq
Signals == Boots \X (1 .. MaxSeq)

\* An intent has its own seq (from 1); a heartbeat carries the last seq of
\* the run, from 0.
Message == [kind : {"intent", "heartbeat"}, boot : Boots, seq : Seqs,
            target : Targets]
Intent(b, n, t)    == [kind |-> "intent", boot |-> b, seq |-> n, target |-> t]
Heartbeat(b, n, t) == [kind |-> "heartbeat", boot |-> b, seq |-> n,
                       target |-> t]
Nothing == [kind |-> "nothing", boot |-> 0, seq |-> 0, target |-> 0]
\* The ("hb", None) entry of an account queue.
HbToken == [kind |-> "hb", boot |-> 0, seq |-> 0, target |-> 0]
Heartbeats == {m \in Message : m.kind = "heartbeat"}
QueueEntries == {m \in Message : m.kind = "intent"} \cup {HbToken}

VARIABLES
  boot, target, seq,   \* Session.boot, .target, .intent_seq
  engine,              \* where the engine thread is in Session._intent
  beat, beatMsg,       \* where the beat thread is, and what it has read
  link,                \* IntentLink.q
  post,                \* the request the link worker waits for
  late,                \* requests it is done with, still in a daemon thread
  queue, latestHb,     \* Worker.queue, Worker.latest_hb
  exBoot, exSeq,       \* CopyExecutor.boot (0: none), .last_seq
  exTarget,            \* CopyExecutor.target
  clean,               \* the worker has left its startup loop
  busy,                \* the intent whose row is written, not yet acted on
  signals,             \* copy_signals: (boot, seq), on disk
  acts,                \* history: how often each signal was acted on
  path,                \* history: every target of each run, in order
  crashes, lates       \* what is left of the bounds

paperVars  == <<boot, target, seq, engine, beat, beatMsg, link, path>>
wireVars   == <<post, late, lates>>
workerVars == <<queue, latestHb>>
execVars   == <<exBoot, exSeq, exTarget, clean, busy, signals, acts>>
vars == <<paperVars, wireVars, workerVars, execVars, crashes>>

Init ==
  /\ boot = 1 /\ target = 0 /\ seq = 0
  /\ engine = "idle"
  /\ beat = "asleep" /\ beatMsg = Nothing
  /\ link = <<>>
  /\ post = Nothing /\ late = {}
  /\ queue = <<>> /\ latestHb = Nothing
  /\ exBoot = 0 /\ exSeq = 0 /\ exTarget = 0
  /\ clean = FALSE
  /\ busy = Nothing
  /\ signals = {}
  /\ acts = [s \in Signals |-> 0]
  /\ path = [b \in Boots |-> <<>>]
  /\ crashes = 0 /\ lates = 0

-----------------------------------------------------------------------------
(* The paper process *)

\* (Mutant of Send: a queue without its bound.)
SendUnbounded(m) == link' = Append(link, m)

\* IntentLink.send: put_nowait, the message is dropped when the queue is full.
Send(m) == link' = IF Len(link) < MaxLink THEN Append(link, m) ELSE link

Moves == FoldFunction(LAMBDA p, n : n + Len(p), 0, path)

\* Session._intent up to self.target = target.
EngineTarget(t) ==
  /\ engine = "idle"
  /\ seq < MaxSeq /\ Moves < MaxMoves
  /\ t # target
  /\ target' = t
  /\ path' = [path EXCEPT ![boot] = Append(@, t)]
  /\ engine' = "changed"
  /\ UNCHANGED <<boot, seq, beat, beatMsg, link>>
  /\ UNCHANGED <<wireVars, workerVars, execVars, crashes>>

\* self.intent_seq += 1
EngineCount ==
  /\ engine = "changed"
  /\ seq' = seq + 1
  /\ engine' = "counted"
  /\ UNCHANGED <<boot, target, beat, beatMsg, link, path>>
  /\ UNCHANGED <<wireVars, workerVars, execVars, crashes>>

\* self.link.send("/intent", msg)
EngineSend ==
  /\ engine = "counted"
  /\ Send(Intent(boot, seq, target))
  /\ engine' = "idle"
  /\ UNCHANGED <<boot, target, seq, beat, beatMsg, path>>
  /\ UNCHANGED <<wireVars, workerVars, execVars, crashes>>

\* Session.heartbeat in the beat thread: seq_last is read first ...
BeatSeq ==
  /\ beat = "asleep"
  /\ beatMsg' = Heartbeat(boot, seq, 0)
  /\ beat' = "counted"
  /\ UNCHANGED <<boot, target, seq, engine, link, path>>
  /\ UNCHANGED <<wireVars, workerVars, execVars, crashes>>

\* ... then the target ...
BeatTarget ==
  /\ beat = "counted"
  /\ beatMsg' = [beatMsg EXCEPT !.target = target]
  /\ beat' = "built"
  /\ UNCHANGED <<boot, target, seq, engine, link, path>>
  /\ UNCHANGED <<wireVars, workerVars, execVars, crashes>>

\* ... and IntentLink.beat_now queues it.
BeatSend ==
  /\ beat = "built"
  /\ Send(beatMsg)
  /\ beatMsg' = Nothing
  /\ beat' = "asleep"
  /\ UNCHANGED <<boot, target, seq, engine, path>>
  /\ UNCHANGED <<wireVars, workerVars, execVars, crashes>>

\* One more fault is within the bound.
Faulty == boot - 1 + crashes + lates < MaxFaults

\* A daemon thread holds the request the link worker waits for and will
\* handle it when the link is done with it.
Lingers ==
  /\ lates < MaxLate /\ Faulty
  /\ late' = late \cup {post}
  /\ lates' = lates + 1

\* The paper process dies and a new one starts: a new boot id, counters at
\* zero, the queue gone; a request on the wire may still be received.
PaperCrash ==
  /\ boot < MaxBoot /\ Faulty
  /\ boot' = boot + 1 /\ target' = 0 /\ seq' = 0
  /\ engine' = "idle" /\ beat' = "asleep" /\ beatMsg' = Nothing
  /\ link' = <<>>
  /\ post' = Nothing
  /\ \/ UNCHANGED <<late, lates>>
     \/ post # Nothing /\ Lingers
  /\ UNCHANGED <<path, crashes>>
  /\ UNCHANGED <<workerVars, execVars>>

-----------------------------------------------------------------------------
(* The wire *)

\* IntentLink._worker takes the next message and POSTs it.
Post ==
  /\ post = Nothing
  /\ link # <<>>
  /\ post' = Head(link)
  /\ link' = Tail(link)
  /\ UNCHANGED <<boot, target, seq, engine, beat, beatMsg, path, late, lates>>
  /\ UNCHANGED <<workerVars, execVars, crashes>>

\* Daemon.receive and _enqueue: intents are queued, of the heartbeats only
\* the latest is kept, behind a token.
Enqueue(m) ==
  /\ Len(queue) < MaxQueue
  /\ IF m.kind = "heartbeat"
       THEN latestHb' = m /\ queue' = Append(queue, HbToken)
       ELSE queue' = Append(queue, m) /\ UNCHANGED latestHb

Deliver ==
  /\ post # Nothing
  /\ Enqueue(post)
  /\ post' = Nothing
  /\ UNCHANGED <<late, lates>>
  /\ UNCHANGED <<paperVars, execVars, crashes>>

\* A request received twice: what the seq check and copy_signals are for.
DeliverTwice ==
  /\ post # Nothing
  /\ Enqueue(post)
  /\ Lingers
  /\ post' = Nothing
  /\ UNCHANGED <<paperVars, execVars, crashes>>

\* The request fails or times out; it is not tried again.  A daemon thread
\* may already hold it.
GiveUp ==
  /\ post # Nothing
  /\ post' = Nothing
  /\ UNCHANGED <<late, lates>> \/ Lingers
  /\ UNCHANGED <<paperVars, workerVars, execVars, crashes>>

DeliverLate ==
  /\ \E m \in late : Enqueue(m) /\ late' = late \ {m}
  /\ UNCHANGED <<post, lates>>
  /\ UNCHANGED <<paperVars, execVars, crashes>>

-----------------------------------------------------------------------------
(* The account worker *)

\* CopyExecutor.startup succeeded (CopyAccount has what it does).
StartupDone ==
  /\ ~clean
  /\ clean' = TRUE
  /\ UNCHANGED <<exBoot, exSeq, exTarget, busy, signals, acts>>
  /\ UNCHANGED <<paperVars, wireVars, workerVars, crashes>>

\* (Mutant of Known: a new run keeps the counters of the old one.)
KnownOfAnyRun(b) == [seq |-> exSeq, target |-> exTarget]

\* What the executor knows of run b when a message of b arrives: _new_boot
\* forgets the counters of another run.
Known(b) == IF b = exBoot THEN [seq |-> exSeq, target |-> exTarget]
                          ELSE [seq |-> 0, target |-> 0]

\* (Mutants of AfterHeartbeat: an old heartbeat still sets the target; no
\* adoption of a seq that is ahead.)
AfterHeartbeatOldTarget(m) ==
  IF m.seq < Known(m.boot).seq
    THEN [seq |-> Known(m.boot).seq, target |-> m.target]
    ELSE [seq |-> m.seq, target |-> m.target]
AfterHeartbeatNoAdoption(m) ==
  IF m.seq # Known(m.boot).seq
    THEN Known(m.boot)
    ELSE [seq |-> m.seq, target |-> m.target]

\* on_heartbeat: an old one only marks the run, one that is ahead is adopted
\* (an intent was lost), one with the same seq is paper's word on its target.
AfterHeartbeat(m) ==
  IF m.seq < Known(m.boot).seq
    THEN Known(m.boot)
    ELSE [seq |-> m.seq, target |-> m.target]

HandleHeartbeat ==
  /\ clean /\ busy = Nothing
  /\ queue # <<>> /\ Head(queue) = HbToken
  /\ queue' = Tail(queue)
  /\ latestHb' = Nothing
  /\ IF latestHb = Nothing
       THEN UNCHANGED <<exBoot, exSeq, exTarget>>
       ELSE /\ exBoot' = latestHb.boot
            /\ exSeq' = AfterHeartbeat(latestHb).seq
            /\ exTarget' = AfterHeartbeat(latestHb).target
  /\ UNCHANGED <<clean, busy, signals, acts>>
  /\ UNCHANGED <<paperVars, wireVars, crashes>>

\* (Mutant of Refused: the counter alone, copy_signals not asked.)
RefusedByCounter(m) == m.seq <= Known(m.boot).seq

\* on_intent refuses an old seq, and one that copy_signals has.
Refused(m) == m.seq <= Known(m.boot).seq \/ <<m.boot, m.seq>> \in signals

\* on_intent up to the signal row, written before anything is done.
TakeIntent ==
  /\ clean /\ busy = Nothing
  /\ queue # <<>> /\ Head(queue).kind = "intent"
  /\ queue' = Tail(queue)
  /\ exBoot' = Head(queue).boot
  /\ IF Refused(Head(queue))
       THEN /\ exSeq' = Known(Head(queue).boot).seq
            /\ exTarget' = Known(Head(queue).boot).target
            /\ UNCHANGED <<busy, signals>>
       ELSE /\ exSeq' = Head(queue).seq
            /\ exTarget' = Head(queue).target
            /\ busy' = Head(queue)
            /\ signals' = signals \cup {<<Head(queue).boot, Head(queue).seq>>}
  /\ UNCHANGED <<latestHb, clean, acts>>
  /\ UNCHANGED <<paperVars, wireVars, crashes>>

\* _entry or _exit.
ActOnIntent ==
  /\ busy # Nothing
  /\ acts' = [acts EXCEPT ![<<busy.boot, busy.seq>>] = @ + 1]
  /\ busy' = Nothing
  /\ UNCHANGED <<exBoot, exSeq, exTarget, clean, signals>>
  /\ UNCHANGED <<paperVars, wireVars, workerVars, crashes>>

\* The daemon dies and starts again: memory, queues and the requests in its
\* threads are gone, the ledger stays.
DaemonCrash ==
  /\ crashes < MaxCrash /\ Faulty
  /\ crashes' = crashes + 1
  /\ queue' = <<>> /\ latestHb' = Nothing
  /\ post' = Nothing /\ late' = {}
  /\ exBoot' = 0 /\ exSeq' = 0 /\ exTarget' = 0
  /\ clean' = FALSE
  /\ busy' = Nothing
  /\ UNCHANGED <<signals, acts, lates>>
  /\ UNCHANGED paperVars

-----------------------------------------------------------------------------
Next ==
  \/ \E t \in Targets : EngineTarget(t)
  \/ EngineCount \/ EngineSend
  \/ BeatSeq \/ BeatTarget \/ BeatSend
  \/ PaperCrash
  \/ Post \/ Deliver \/ DeliverTwice \/ GiveUp \/ DeliverLate
  \/ StartupDone \/ HandleHeartbeat \/ TakeIntent \/ ActOnIntent
  \/ DaemonCrash

Spec == Init /\ [][Next]_vars

\* The threads: one step of each.
Engine == EngineCount \/ EngineSend
Beat   == BeatSeq \/ BeatTarget \/ BeatSend
Worker == StartupDone \/ HandleHeartbeat \/ TakeIntent \/ ActOnIntent

\* Every thread keeps running, and a request that is sent again and again
\* (heartbeats are, every two seconds) gets through again and again.
Fairness ==
  /\ WF_vars(Engine) /\ WF_vars(Beat) /\ WF_vars(Worker)
  /\ WF_vars(Post) /\ SF_vars(Deliver) /\ SF_vars(DeliverLate)

FairSpec == Spec /\ Fairness

-----------------------------------------------------------------------------
(* Properties *)

\* Every variable has its type (live.py, daemon.py, executor.py as above).
TypeOK ==
  /\ boot \in Boots /\ target \in Targets /\ seq \in Seqs
  /\ engine \in {"idle", "changed", "counted"}
  /\ engine = "changed" => seq < MaxSeq
  /\ engine = "counted" => seq > 0
  /\ beat \in {"asleep", "counted", "built"}
  /\ beatMsg \in Message \cup {Nothing}
  /\ beat # "asleep" => beatMsg \in Heartbeats
  /\ link \in Seq(Message) /\ Len(link) <= MaxLink
  /\ post \in Message \cup {Nothing}
  /\ late \subseteq Message
  /\ queue \in Seq(QueueEntries)
  /\ latestHb \in Heartbeats \cup {Nothing}
  /\ exBoot \in 0 .. MaxBoot /\ exSeq \in Seqs /\ exTarget \in Targets
  /\ clean \in BOOLEAN
  /\ busy \in Message \cup {Nothing}
  /\ signals \subseteq Signals
  /\ acts \in [Signals -> Nat]
  /\ path \in [Boots -> Seq(Targets)]
  /\ crashes \in 0 .. MaxCrash /\ lates \in 0 .. MaxLate

\* The inductive strengthening of ActsAtMostOnce: nothing is acted on, or
\* about to be, whose row is not written, and what is about to be acted on
\* has not been (on_intent writes copy_signals before it acts).
RowBeforeAct ==
  /\ busy # Nothing => /\ <<busy.boot, busy.seq>> \in signals
                       /\ acts[<<busy.boot, busy.seq>>] = 0
  /\ \A s \in Signals : s \notin signals => acts[s] = 0

\* An account acts on a paper signal at most once, through duplicates, late
\* requests, restarts of either side and a crash between the signal row and
\* the order (executor.on_intent writes the row first).
ActsAtMostOnce == \A s \in Signals : acts[s] <= 1

\* The target the executor follows is never older than its last seq says: it
\* is a position the run took with that change or a later one (path holds
\* them), so no late heartbeat brings back a position paper has left
\* (on_heartbeat, on_intent, and the two reads of Session.heartbeat).
TargetNotOlderThanSeq ==
  exBoot # 0 =>
    \/ exSeq = 0 /\ exTarget = 0
    \/ \E n \in DOMAIN path[exBoot] : n >= exSeq /\ path[exBoot][n] = exTarget

\* Once the paper session stops moving, the heartbeats alone bring every
\* account to its run, its seq and its target, whatever was lost before
\* (on_heartbeat adopts).
EventuallyFollows ==
  <>[](exBoot = boot /\ exSeq = seq /\ exTarget = target)

\* The link sends "in order" (live.py:553) and the daemon keeps of the
\* heartbeats "only the latest" (daemon.py:164).  A heartbeat that is handled
\* does not get ahead of an intent that was received before it: it does not
\* move the executor past an intent that waits in the queue in front of the
\* heartbeat's own token.
HeartbeatOvertakesNoIntent ==
  [][latestHb # Nothing /\ latestHb' = Nothing /\ clean' =>
       \A i, j \in DOMAIN queue :
         i < j /\ queue[i].kind = "intent" /\ queue[j] = HbToken
           /\ queue[i].boot = exBoot'
         => queue[i].seq <= exSeq \/ queue[i].seq > exSeq']_vars

\* The promise of the whole link: IntentDelivery, where a run's changes are
\* the targets it took.
Delivery == INSTANCE IntentDelivery WITH
  run <- boot, changes <- [b \in Boots |-> Len(path[b])]
DeliveryPromise == Delivery!Spec
=============================================================================
