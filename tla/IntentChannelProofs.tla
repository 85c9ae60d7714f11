------------------------ MODULE IntentChannelProofs ------------------------
(***************************************************************************)
(* For every number of runs, position changes, crashes and duplicates, and *)
(* every queue size: IntentChannel keeps its types, an account acts on a   *)
(* signal of the paper session at most once, the target it follows is not  *)
(* older than its seq, and the whole link implements IntentDelivery.       *)
(***************************************************************************)
EXTENDS IntentChannel, TLAPS

(***************************************************************************)
(* Facts about the constants and the messages.                             *)
(***************************************************************************)

\* Session._intent and .heartbeat build messages of type Message.
LEMMA MessagesTyped ==
  ASSUME NEW b \in Boots, NEW n \in Seqs, NEW t \in Targets
  PROVE  /\ Intent(b, n, t) \in Message /\ Intent(b, n, t).kind = "intent"
         /\ Heartbeat(b, n, t) \in Message
         /\ Heartbeat(b, n, t).kind = "heartbeat"
         /\ Intent(b, n, t) # Nothing /\ Heartbeat(b, n, t) # Nothing
  BY DEF Intent, Heartbeat, Message, Nothing

\* A queue that drops what does not fit (IntentLink.send) keeps its type.
LEMMA SendTyped ==
  ASSUME link \in Seq(Message), Len(link) <= MaxLink,
         NEW m \in Message, Send(m)
  PROVE  link' \in Seq(Message) /\ Len(link') <= MaxLink
  BY ChannelAssumption DEF Send

\* What _new_boot leaves known of a run is in the types.
LEMMA KnownTyped ==
  ASSUME TypeOK, NEW b \in Boots
  PROVE  Known(b).seq \in Seqs /\ Known(b).target \in Targets
  BY ChannelAssumption DEF Known, TypeOK, Seqs

\* Daemon._enqueue keeps the type of the account queue and of latest_hb.
LEMMA EnqueueTyped ==
  ASSUME TypeOK, NEW m \in Message, Enqueue(m)
  PROVE  queue' \in Seq(QueueEntries) /\ latestHb' \in Heartbeats \cup {Nothing}
  <1>1. m.kind \in {"intent", "heartbeat"}
    BY DEF Message
  <1>2. queue \in Seq(QueueEntries) /\ latestHb \in Heartbeats \cup {Nothing}
    BY DEF TypeOK
  <1>3. HbToken \in QueueEntries
    BY DEF QueueEntries
  <1>4. CASE m.kind = "heartbeat"
    <2>1. m \in Heartbeats
      BY <1>4 DEF Heartbeats
    <2>2. queue' = Append(queue, HbToken) /\ latestHb' = m
      BY <1>4 DEF Enqueue
    <2>3. QED
      BY <1>2, <1>3, <2>1, <2>2
  <1>5. CASE m.kind = "intent"
    <2>1. m \in QueueEntries
      BY <1>5 DEF QueueEntries
    <2>2. queue' = Append(queue, m) /\ latestHb' = latestHb
      BY <1>5 DEF Enqueue
    <2>3. QED
      BY <1>2, <2>1, <2>2
  <1>6. QED
    BY <1>1, <1>4, <1>5

\* The head of the account queue, when it is an intent, is a Message.
LEMMA HeadTyped ==
  ASSUME TypeOK, queue # <<>>
  PROVE  /\ Head(queue) \in QueueEntries
         /\ Tail(queue) \in Seq(QueueEntries)
         /\ Head(queue).kind = "intent" => Head(queue) \in Message
  <1>1. queue \in Seq(QueueEntries)
    BY DEF TypeOK
  <1>2. Head(queue) \in QueueEntries /\ Tail(queue) \in Seq(QueueEntries)
    BY <1>1
  <1>3. QED
    BY <1>2 DEF QueueEntries, HbToken

(***************************************************************************)
(* Type correctness.                                                       *)
(***************************************************************************)

LEMMA TypeInit == Init => TypeOK
  <1> SUFFICES ASSUME Init PROVE TypeOK
    OBVIOUS
  <1>1. acts \in [Signals -> Nat] /\ path \in [Boots -> Seq(Targets)]
    BY DEF Init
  <1>2. link \in Seq(Message) /\ Len(link) <= MaxLink
        /\ queue \in Seq(QueueEntries)
    BY ChannelAssumption DEF Init
  <1>3. boot \in Boots /\ seq \in Seqs /\ target \in Targets
        /\ exBoot \in 0 .. MaxBoot /\ exSeq \in Seqs /\ exTarget \in Targets
        /\ crashes \in 0 .. MaxCrash /\ lates \in 0 .. MaxLate
    BY ChannelAssumption DEF Init, Boots, Seqs
  <1>4. QED
    BY <1>1, <1>2, <1>3 DEF Init, TypeOK

LEMMA TypeStep == TypeOK /\ [Next]_vars => TypeOK'
  <1> SUFFICES ASSUME TypeOK, [Next]_vars PROVE TypeOK'
    OBVIOUS
  <1> USE ChannelAssumption
  <1> USE DEF paperVars, wireVars, workerVars, execVars
  <1>1. ASSUME NEW t \in Targets, EngineTarget(t) PROVE TypeOK'
    BY <1>1 DEF EngineTarget, TypeOK, Seqs, Boots
  <1>2. CASE EngineCount
    BY <1>2 DEF EngineCount, TypeOK, Seqs
  <1>3. CASE EngineSend
    <2>1. Intent(boot, seq, target) \in Message
      BY MessagesTyped DEF TypeOK
    <2>2. link' \in Seq(Message) /\ Len(link') <= MaxLink
      BY <1>3, <2>1, SendTyped DEF EngineSend, TypeOK
    <2>3. QED
      BY <1>3, <2>2 DEF EngineSend, TypeOK
  <1>4. CASE BeatSeq
    <2>1. beatMsg' \in Heartbeats
      BY <1>4, MessagesTyped DEF BeatSeq, TypeOK, Heartbeats
    <2>2. QED
      BY <1>4, <2>1 DEF BeatSeq, TypeOK, Heartbeats
  <1>5. CASE BeatTarget
    <2>1. beatMsg' \in Heartbeats
      BY <1>5 DEF BeatTarget, TypeOK, Heartbeats, Message
    <2>2. QED
      BY <1>5, <2>1 DEF BeatTarget, TypeOK, Heartbeats
  <1>6. CASE BeatSend
    <2>1. beatMsg \in Message
      BY <1>6 DEF BeatSend, TypeOK, Heartbeats
    <2>2. link' \in Seq(Message) /\ Len(link') <= MaxLink
      BY <1>6, <2>1, SendTyped DEF BeatSend, TypeOK
    <2>3. QED
      BY <1>6, <2>2 DEF BeatSend, TypeOK
  <1>7. CASE PaperCrash
    <2>1. late' \subseteq Message /\ lates' \in 0 .. MaxLate
      BY <1>7 DEF PaperCrash, Lingers, TypeOK
    <2>2. QED
      BY <1>7, <2>1 DEF PaperCrash, TypeOK, Boots, Seqs
  <1>8. CASE Post
    <2>1. Head(link) \in Message /\ Tail(link) \in Seq(Message)
          /\ Len(Tail(link)) <= MaxLink
      BY <1>8 DEF Post, TypeOK
    <2>2. QED
      BY <1>8, <2>1 DEF Post, TypeOK
  <1>9. CASE Deliver \/ DeliverTwice
    <2>1. post \in Message /\ Enqueue(post)
      BY <1>9 DEF Deliver, DeliverTwice, TypeOK
    <2>2. queue' \in Seq(QueueEntries) /\ latestHb' \in Heartbeats \cup {Nothing}
      BY <2>1, EnqueueTyped
    <2>3. CASE Deliver
      BY <2>1, <2>2, <2>3 DEF Deliver, TypeOK
    <2>4. CASE DeliverTwice
      <3>1. lates' \in 0 .. MaxLate
        BY <2>4, ChannelAssumption DEF DeliverTwice, Lingers, TypeOK
      <3>2. QED
        BY <2>1, <2>2, <2>4, <3>1 DEF DeliverTwice, Lingers, TypeOK
    <2>5. QED
      BY <1>9, <2>3, <2>4
  <1>10. CASE GiveUp
    BY <1>10 DEF GiveUp, Lingers, TypeOK
  <1>11. CASE DeliverLate
    <2>1. PICK m \in late : Enqueue(m) /\ late' = late \ {m}
      BY <1>11 DEF DeliverLate
    <2>2. m \in Message
      BY <2>1 DEF TypeOK
    <2>3. queue' \in Seq(QueueEntries) /\ latestHb' \in Heartbeats \cup {Nothing}
      BY <2>1, <2>2, EnqueueTyped
    <2>4. QED
      BY <1>11, <2>1, <2>3 DEF DeliverLate, TypeOK
  <1>12. CASE StartupDone
    BY <1>12 DEF StartupDone, TypeOK
  <1>13. CASE HandleHeartbeat
    <2>1. queue' \in Seq(QueueEntries)
      BY <1>13, HeadTyped DEF HandleHeartbeat
    <2>2. exBoot' \in 0 .. MaxBoot /\ exSeq' \in Seqs /\ exTarget' \in Targets
      <3>1. CASE latestHb = Nothing
        BY <1>13, <3>1 DEF HandleHeartbeat, TypeOK
      <3>2. CASE latestHb # Nothing
        <4>1. latestHb \in Message
          BY <3>2 DEF TypeOK, Heartbeats
        <4>2. latestHb.boot \in Boots /\ latestHb.seq \in Seqs
              /\ latestHb.target \in Targets
          BY <4>1 DEF Message
        <4>3. Known(latestHb.boot).seq \in Seqs
              /\ Known(latestHb.boot).target \in Targets
          BY <4>2, KnownTyped
        <4>4. AfterHeartbeat(latestHb).seq \in Seqs
              /\ AfterHeartbeat(latestHb).target \in Targets
          BY <4>2, <4>3 DEF AfterHeartbeat
        <4>5. QED
          BY <1>13, <3>2, <4>2, <4>4 DEF HandleHeartbeat, Boots
      <3>3. QED
        BY <3>1, <3>2
    <2>3. QED
      BY <1>13, <2>1, <2>2 DEF HandleHeartbeat, TypeOK
  <1>14. CASE TakeIntent
    <2> DEFINE m == Head(queue)
    <2>1. m \in Message /\ queue' \in Seq(QueueEntries)
      BY <1>14, HeadTyped DEF TakeIntent
    <2>2. m.boot \in Boots /\ m.seq \in Seqs /\ m.target \in Targets
      BY <2>1 DEF Message
    <2>3. Known(m.boot).seq \in Seqs /\ Known(m.boot).target \in Targets
      BY <2>2, KnownTyped
    <2>4. exBoot' \in 0 .. MaxBoot /\ exSeq' \in Seqs /\ exTarget' \in Targets
      BY <1>14, <2>2, <2>3 DEF TakeIntent, Boots
    <2>5. busy' \in Message \cup {Nothing}
      BY <1>14, <2>1 DEF TakeIntent, TypeOK
    <2>6. signals' \subseteq Signals
      <3>1. ~Refused(m) => <<m.boot, m.seq>> \in Signals
        BY <2>2, <2>3 DEF Refused, Signals, Seqs
      <3>2. QED
        BY <1>14, <3>1 DEF TakeIntent, TypeOK
    <2>7. QED
      BY <1>14, <2>1, <2>4, <2>5, <2>6 DEF TakeIntent, TypeOK
  <1>15. CASE ActOnIntent
    <2>1. acts' \in [Signals -> Nat]
      <3> DEFINE a == <<busy.boot, busy.seq>>
      <3>1. acts' = [acts EXCEPT ![a] = acts[a] + 1] /\ acts \in [Signals -> Nat]
        BY <1>15 DEF ActOnIntent, TypeOK
      <3>2. CASE a \in Signals
        <4>1. acts[a] + 1 \in Nat
          BY <3>1, <3>2
        <4> HIDE DEF a
        <4>2. QED
          BY <3>1, <4>1
      <3>3. CASE a \notin Signals
        <4>1. acts' = acts
          <5> HIDE DEF a
          <5>1. QED
            BY <3>1, <3>3
        <4>2. QED
          BY <3>1, <4>1
      <3>4. QED
        BY <3>2, <3>3
    <2>2. QED
      BY <1>15, <2>1 DEF ActOnIntent, TypeOK
  <1>16. CASE DaemonCrash
    <2>1. queue' \in Seq(QueueEntries)
      BY <1>16 DEF DaemonCrash
    <2>2. exBoot' \in 0 .. MaxBoot /\ exSeq' \in Seqs /\ exTarget' \in Targets
          /\ crashes' \in 0 .. MaxCrash
      BY <1>16 DEF DaemonCrash, TypeOK, Seqs
    <2>3. QED
      BY <1>16, <2>1, <2>2 DEF DaemonCrash, TypeOK
  <1>17. CASE UNCHANGED vars
    BY <1>17 DEF vars, TypeOK
  <1>18. QED
    BY <1>1, <1>2, <1>3, <1>4, <1>5, <1>6, <1>7, <1>8, <1>9, <1>10, <1>11,
       <1>12, <1>13, <1>14, <1>15, <1>16, <1>17 DEF Next

\* The link, the daemon's queues and the executor keep their types in every
\* behaviour.
THEOREM TypeCorrect == Spec => []TypeOK
  <1>1. Init => TypeOK
    BY TypeInit
  <1>2. TypeOK /\ [Next]_vars => TypeOK'
    BY TypeStep
  <1>3. QED
    BY <1>1, <1>2, PTL DEF Spec

(***************************************************************************)
(* At most one act on a signal.                                            *)
(***************************************************************************)

LEMMA RowStep == TypeOK /\ RowBeforeAct /\ [Next]_vars => RowBeforeAct'
  <1> SUFFICES ASSUME TypeOK, RowBeforeAct, [Next]_vars PROVE RowBeforeAct'
    OBVIOUS
  <1>1. CASE UNCHANGED <<busy, signals, acts>>
    BY <1>1 DEF RowBeforeAct
  <1>2. CASE TakeIntent
    <2> DEFINE m == Head(queue)
    <2>1. CASE Refused(m)
      BY <1>1, <1>2, <2>1 DEF TakeIntent
    <2>2. CASE ~Refused(m)
      <3>1. m \in Message
        BY <1>2, HeadTyped DEF TakeIntent
      <3>2. <<m.boot, m.seq>> \in Signals \ signals
        <4>1. Known(m.boot).seq \in Seqs /\ m.boot \in Boots /\ m.seq \in Seqs
          BY <3>1, KnownTyped DEF Message
        <4>2. QED
          BY <2>2, <4>1, ChannelAssumption DEF Refused, Signals, Seqs
      <3>3. acts[<<m.boot, m.seq>>] = 0
        BY <3>2 DEF RowBeforeAct
      <3>4. busy' = m /\ acts' = acts
            /\ signals' = signals \cup {<<m.boot, m.seq>>}
        BY <1>2, <2>2 DEF TakeIntent
      <3>5. QED
        BY <3>3, <3>4 DEF RowBeforeAct
    <2>3. QED
      BY <2>1, <2>2
  <1>3. CASE ActOnIntent
    <2>1. busy' = Nothing /\ signals' = signals
      BY <1>3 DEF ActOnIntent
    <2>2. ASSUME NEW s \in Signals, s \notin signals PROVE acts'[s] = 0
      <3>1. s # <<busy.boot, busy.seq>>
        BY <1>3, <2>2 DEF ActOnIntent, RowBeforeAct
      <3>2. acts'[s] = acts[s]
        BY <1>3, <3>1 DEF ActOnIntent, TypeOK
      <3>3. QED
        BY <2>2, <3>2 DEF RowBeforeAct
    <2>3. QED
      BY <2>1, <2>2 DEF RowBeforeAct
  <1>4. CASE DaemonCrash
    BY <1>4 DEF DaemonCrash, RowBeforeAct
  <1>5. [Next]_vars => \/ UNCHANGED <<busy, signals, acts>>
                      \/ TakeIntent \/ ActOnIntent \/ DaemonCrash
    BY DEF Next, vars, execVars, EngineTarget, EngineCount, EngineSend, BeatSeq,
       BeatTarget, BeatSend, PaperCrash, Post, Deliver, DeliverTwice, GiveUp,
       DeliverLate, StartupDone, HandleHeartbeat
  <1>6. QED
    BY <1>1, <1>2, <1>3, <1>4, <1>5

LEMMA OnceStep ==
  TypeOK /\ RowBeforeAct /\ ActsAtMostOnce /\ [Next]_vars => ActsAtMostOnce'
  <1> SUFFICES ASSUME TypeOK, RowBeforeAct, ActsAtMostOnce, [Next]_vars
               PROVE  ActsAtMostOnce'
    OBVIOUS
  <1>1. CASE acts' = acts
    BY <1>1 DEF ActsAtMostOnce
  <1>2. CASE ActOnIntent
    <2>1. ASSUME NEW s \in Signals PROVE acts'[s] <= 1
      <3>1. acts' = [acts EXCEPT ![<<busy.boot, busy.seq>>]
                                    = acts[<<busy.boot, busy.seq>>] + 1]
        BY <1>2 DEF ActOnIntent
      <3>2. CASE s = <<busy.boot, busy.seq>>
        <4>1. acts[s] = 0
          BY <1>2, <3>2 DEF ActOnIntent, RowBeforeAct
        <4>2. acts'[s] = acts[s] + 1
          BY <3>1, <3>2 DEF TypeOK
        <4>3. QED
          BY <4>1, <4>2
      <3>3. CASE s # <<busy.boot, busy.seq>>
        <4>1. acts'[s] = acts[s]
          BY <3>1, <3>3 DEF TypeOK
        <4>2. QED
          BY <4>1 DEF ActsAtMostOnce
      <3>4. QED
        BY <3>2, <3>3
    <2>2. QED
      BY <2>1 DEF ActsAtMostOnce
  <1>3. [Next]_vars => acts' = acts \/ ActOnIntent
    BY DEF Next, vars, execVars, EngineTarget, EngineCount, EngineSend, BeatSeq,
       BeatTarget, BeatSend, PaperCrash, Post, Deliver, DeliverTwice, GiveUp,
       DeliverLate, StartupDone, HandleHeartbeat, TakeIntent, DaemonCrash
  <1>4. QED
    BY <1>1, <1>2, <1>3

\* Whatever is lost, delayed, repeated or restarted, an account acts on a
\* signal of the paper session at most once, because the signal row is
\* written before the account acts and asked before it is written.
THEOREM AtMostOnce == Spec => []ActsAtMostOnce
  <1>1. Init => RowBeforeAct /\ ActsAtMostOnce
    BY DEF Init, RowBeforeAct, ActsAtMostOnce
  <1>2. TypeOK /\ RowBeforeAct /\ ActsAtMostOnce /\ [Next]_vars
          => RowBeforeAct' /\ ActsAtMostOnce'
    BY RowStep, OnceStep
  <1>3. QED
    BY <1>1, <1>2, TypeCorrect, PTL DEF Spec

(***************************************************************************)
(* The target is never older than the seq says.  Every message under way,  *)
(* wherever it is, names a target that its run took with that change or a  *)
(* later one, or is of a run that has not changed; so the two reads of a   *)
(* heartbeat, the seq first, are in the right order.                       *)
(***************************************************************************)

\* Run b took target t with its n-th change or a later one.
TookSince(b, n, t) ==
  \/ n = 0 /\ t = 0
  \/ \E k \in DOMAIN path[b] : k >= n /\ path[b][k] = t

Honest(m) == TookSince(m.boot, m.seq, m.target)

\* The counter and the target of the run that is alive.
Counted ==
  /\ Len(path[boot]) = IF engine = "changed" THEN seq + 1 ELSE seq
  /\ target = IF path[boot] = <<>> THEN 0 ELSE path[boot][Len(path[boot])]
  /\ \A b \in Boots : b > boot => path[b] = <<>>

\* What the beat thread has read is of this run, and not ahead of it.
BeatRead == beat # "asleep" => beatMsg.boot = boot /\ beatMsg.seq <= Len(path[boot])

\* The messages that can still reach an executor, whole.
UnderWay ==
  (Range(link) \cup Range(queue) \cup late \cup {post, latestHb, busy}
     \cup (IF beat = "built" THEN {beatMsg} ELSE {})) \cap Message

AllHonest == \A m \in UnderWay : Honest(m)

ExecutorHonest == exBoot # 0 => TookSince(exBoot, exSeq, exTarget)

HInv == TypeOK /\ Counted /\ BeatRead /\ AllHonest /\ ExecutorHonest

\* What a queue holds after a message came in, or its first one left.
LEMMA RangeAppend ==
  ASSUME NEW S, NEW s \in Seq(S), NEW m PROVE Range(Append(s, m)) \subseteq Range(s) \cup {m}
  <1>1. SUFFICES ASSUME NEW i \in 1 .. Len(s) + 1
                 PROVE  Append(s, m)[i] \in Range(s) \cup {m}
    BY DEF Range
  <1>2. CASE i = Len(s) + 1
    BY <1>2
  <1>3. CASE i \in 1 .. Len(s)
    BY <1>3 DEF Range
  <1>4. QED
    BY <1>1, <1>2, <1>3

LEMMA RangeHeadTail ==
  ASSUME NEW S, NEW s \in Seq(S), s # <<>>
  PROVE  Head(s) \in Range(s) /\ Range(Tail(s)) \subseteq Range(s)
  <1>1. Len(s) \in Nat /\ Len(s) >= 1 /\ DOMAIN s = 1 .. Len(s)
    OBVIOUS
  <1>2. Head(s) \in Range(s)
    BY <1>1 DEF Range
  <1>3. SUFFICES ASSUME NEW i \in 1 .. Len(s) - 1 PROVE Tail(s)[i] \in Range(s)
    BY <1>1, <1>2 DEF Range
  <1>4. Tail(s)[i] = s[i + 1] /\ i + 1 \in 1 .. Len(s)
    BY <1>1
  <1>5. QED
    BY <1>1, <1>4 DEF Range

\* The path of a run only grows.
LEMMA PathGrows ==
  ASSUME TypeOK, \/ path' = path
                 \/ \E t \in Targets : path' = [path EXCEPT ![boot] = Append(@, t)],
         NEW b \in Boots, NEW n, NEW t, TookSince(b, n, t)
  PROVE  TookSince(b, n, t)'
  <1>1. CASE path' = path
    BY <1>1 DEF TookSince
  <1>2. ASSUME NEW u \in Targets, path' = [path EXCEPT ![boot] = Append(@, u)]
        PROVE  TookSince(b, n, t)'
    <2>1. path[b] \in Seq(Targets) /\ path \in [Boots -> Seq(Targets)]
      BY DEF TypeOK
    <2>2. path'[b] = path[b] \/ path'[b] = Append(path[b], u)
      BY <1>2, <2>1
    <2>3. \A k \in DOMAIN path[b] : k \in DOMAIN path'[b] /\ path'[b][k] = path[b][k]
      BY <2>1, <2>2
    <2>4. QED
      BY <2>3 DEF TookSince
  <1>3. QED
    BY <1>1, <1>2

\* Messages come from nowhere but the engine and the beat.
LEMMA OldMessages ==
  ASSUME HInv, path' = path \/ \E t \in Targets : path' = [path EXCEPT ![boot] = Append(@, t)],
         UnderWay' \subseteq UnderWay
  PROVE  AllHonest'
  <1>1. SUFFICES ASSUME NEW m \in UnderWay PROVE Honest(m)'
    BY DEF AllHonest
  <1>2. m.boot \in Boots
    BY DEF UnderWay, Message
  <1>3. Honest(m)
    BY DEF HInv, AllHonest
  <1>4. QED
    BY <1>2, <1>3, PathGrows DEF HInv, Honest

LEMMA NewMessage ==
  ASSUME HInv, path' = path, NEW n, UnderWay' \subseteq UnderWay \cup {n}, Honest(n)
  PROVE  AllHonest'
  <1>1. SUFFICES ASSUME NEW m \in UnderWay \cup {n} PROVE Honest(m)'
    BY DEF AllHonest
  <1>2. Honest(m)
    BY DEF HInv, AllHonest
  <1>3. QED
    BY <1>2 DEF Honest, TookSince

\* What is received was under way.
LEMMA EnqueueUnderWay ==
  ASSUME TypeOK, NEW m \in UnderWay, Enqueue(m),
         late' \subseteq late \cup {post}, post' = Nothing, UNCHANGED <<link, busy, beat, beatMsg>>
  PROVE  UnderWay' \subseteq UnderWay
  <1>1. queue \in Seq(QueueEntries)
    BY DEF TypeOK
  <1>2. Range(queue') \subseteq Range(queue) \cup {m, HbToken} /\ latestHb' \in {latestHb, m}
    BY <1>1, RangeAppend DEF Enqueue
  <1>3. HbToken \notin Message /\ Nothing \notin Message
    BY DEF Message, HbToken, Nothing
  <1>4. QED
    BY <1>2, <1>3 DEF UnderWay

\* Where each step that makes no message takes those that are.
LEMMA UnderWayKept ==
  ASSUME TypeOK, [Next]_vars, ~EngineSend, ~BeatTarget PROVE UnderWay' \subseteq UnderWay
  <1> USE DEF paperVars, wireVars, workerVars, execVars
  <1>1. Nothing \notin Message /\ HbToken \notin Message
    BY DEF Message, HbToken, Nothing
  <1>2. link \in Seq(Message) /\ queue \in Seq(QueueEntries)
    BY DEF TypeOK
  <1>3. CASE UNCHANGED <<link, queue, late, post, latestHb, busy, beat, beatMsg>>
    BY <1>3 DEF UnderWay
  <1>4. CASE (\E t \in Targets : EngineTarget(t)) \/ EngineCount \/ StartupDone \/ UNCHANGED vars
    BY <1>3, <1>4 DEF EngineTarget, EngineCount, StartupDone, vars
  <1>5. CASE BeatSeq
    BY <1>5 DEF BeatSeq, UnderWay
  <1>6. CASE BeatSend
    <2>1. Range(link') \subseteq Range(link) \cup {beatMsg}
      BY <1>2, <1>6, RangeAppend DEF BeatSend, Send
    <2>2. QED
      BY <1>6, <2>1 DEF BeatSend, UnderWay
  <1>7. CASE PaperCrash
    <2>1. late' \subseteq late \cup {post} /\ link' = <<>> /\ post' = Nothing /\ beat' = "asleep"
          /\ UNCHANGED <<queue, latestHb, busy>>
      BY <1>7 DEF PaperCrash, Lingers
    <2>2. Range(link') = {}
      BY <2>1 DEF Range
    <2>3. QED
      BY <1>1, <2>1, <2>2 DEF UnderWay
  <1>8. CASE Post
    <2>1. post' \in Range(link) /\ Range(link') \subseteq Range(link)
      BY <1>2, <1>8, RangeHeadTail DEF Post
    <2>2. QED
      BY <1>8, <2>1 DEF Post, UnderWay
  <1>9. CASE Deliver \/ DeliverTwice
    <2>1. post \in UnderWay
      BY <1>9 DEF Deliver, DeliverTwice, UnderWay, TypeOK
    <2>2. QED
      BY <1>9, <2>1, EnqueueUnderWay DEF Deliver, DeliverTwice, Lingers
  <1>10. CASE GiveUp
    <2>1. late' \subseteq late \cup {post}
      BY <1>10 DEF GiveUp, Lingers
    <2>2. QED
      BY <1>1, <1>10, <2>1 DEF GiveUp, UnderWay
  <1>11. CASE DeliverLate
    <2>1. PICK m \in late : Enqueue(m) /\ late' = late \ {m}
      BY <1>11 DEF DeliverLate
    <2>2. m \in UnderWay
      BY DEF UnderWay, TypeOK
    <2>3. Range(queue') \subseteq Range(queue) \cup {m, HbToken} /\ latestHb' \in {latestHb, m}
      BY <1>2, <2>1, RangeAppend DEF Enqueue
    <2>4. QED
      BY <1>1, <1>11, <2>1, <2>2, <2>3 DEF DeliverLate, UnderWay
  <1>12. CASE HandleHeartbeat
    <2>1. Range(queue') \subseteq Range(queue)
      BY <1>2, <1>12, RangeHeadTail DEF HandleHeartbeat
    <2>2. QED
      BY <1>1, <1>12, <2>1 DEF HandleHeartbeat, UnderWay
  <1>13. CASE TakeIntent
    <2>1. Range(queue') \subseteq Range(queue) /\ busy' \in {busy} \cup Range(queue)
      BY <1>2, <1>13, RangeHeadTail DEF TakeIntent
    <2>2. QED
      BY <1>13, <2>1 DEF TakeIntent, UnderWay
  <1>14. CASE ActOnIntent
    BY <1>1, <1>14 DEF ActOnIntent, UnderWay
  <1>15. CASE DaemonCrash
    <2>1. Range(queue') = {}
      BY <1>15 DEF DaemonCrash, Range
    <2>2. QED
      BY <1>1, <1>15, <2>1 DEF DaemonCrash, UnderWay
  <1>16. QED
    BY <1>4, <1>5, <1>6, <1>7, <1>8, <1>9, <1>10, <1>11, <1>12, <1>13, <1>14, <1>15 DEF Next

\* The target of the run that is alive was taken with its last change.
LEMMA TargetIsLast ==
  ASSUME TypeOK, Counted, NEW n \in Nat, n <= Len(path[boot])
  PROVE  TookSince(boot, n, target)
  <1>1. path[boot] \in Seq(Targets)
    BY DEF TypeOK
  <1>2. CASE path[boot] = <<>>
    BY <1>1, <1>2 DEF Counted, TookSince
  <1>3. CASE path[boot] # <<>>
    <2>1. Len(path[boot]) \in DOMAIN path[boot]
      BY <1>1, <1>3
    <2>2. QED
      BY <1>3, <2>1 DEF Counted, TookSince
  <1>4. QED
    BY <1>2, <1>3

\* Known: what the executor holds of a run is honest, be it nothing.
LEMMA KnownHonest ==
  ASSUME TypeOK, ExecutorHonest, NEW b \in Boots
  PROVE  TookSince(b, Known(b).seq, Known(b).target)
  BY DEF Known, ExecutorHonest, TookSince, Boots

LEMMA CountedStep == TypeOK /\ Counted /\ [Next]_vars => Counted'
  <1> SUFFICES ASSUME TypeOK, Counted, [Next]_vars PROVE Counted'
    OBVIOUS
  <1> USE DEF paperVars
  <1>1. path \in [Boots -> Seq(Targets)] /\ boot \in Boots /\ seq \in Nat
    BY DEF TypeOK, Seqs
  <1>2. ASSUME NEW t \in Targets, EngineTarget(t) PROVE Counted'
    <2>1. path'[boot] = Append(path[boot], t) /\ boot' = boot /\ seq' = seq /\ target' = t
          /\ engine = "idle" /\ engine' = "changed"
          /\ \A b \in Boots : b # boot => path'[b] = path[b]
      BY <1>1, <1>2 DEF EngineTarget
    <2>2. Len(path'[boot]) = seq + 1 /\ path'[boot] # <<>> /\ path'[boot][seq + 1] = t
      <3> DEFINE s == path[boot]
      <3>1. s \in Seq(Targets) /\ Len(s) = seq
        BY <1>1, <2>1 DEF Counted
      <3> HIDE DEF s
      <3>2. Len(Append(s, t)) = seq + 1 /\ Append(s, t) # <<>>
        BY <3>1
      <3>3. Append(s, t)[Len(s) + 1] = t
        BY <3>1
      <3>4. QED
        BY <2>1, <3>1, <3>2, <3>3 DEF s
    <2>3. \A b \in Boots : b > boot => path'[b] = <<>>
      BY <1>1, <2>1 DEF Counted, Boots
    <2>4. QED
      BY <2>1, <2>2, <2>3 DEF Counted
  <1>3. CASE EngineCount \/ EngineSend
    BY <1>1, <1>3 DEF EngineCount, EngineSend, Counted
  <1>4. CASE PaperCrash
    <2>1. boot' = boot + 1 /\ boot' \in Boots /\ path' = path /\ seq' = 0 /\ target' = 0
          /\ engine' = "idle"
      BY <1>1, <1>4, ChannelAssumption DEF PaperCrash, Boots
    <2>2. path[boot'] = <<>> /\ \A b \in Boots : b > boot' => path[b] = <<>>
      BY <1>1, <2>1 DEF Counted, Boots
    <2>3. QED
      BY <2>1, <2>2 DEF Counted
  <1>5. CASE UNCHANGED <<path, boot, seq, target, engine>>
    BY <1>5 DEF Counted
  <1>6. QED
    BY <1>2, <1>3, <1>4, <1>5 DEF Next, vars, BeatSeq, BeatTarget, BeatSend, Post, Deliver, DeliverTwice,
       GiveUp, DeliverLate, StartupDone, HandleHeartbeat, TakeIntent, ActOnIntent, DaemonCrash

LEMMA PathStep ==
  ASSUME [Next]_vars
  PROVE  path' = path \/ \E t \in Targets : EngineTarget(t)
                           /\ path' = [path EXCEPT ![boot] = Append(@, t)]
  BY DEF Next, vars, paperVars, EngineTarget, EngineCount, EngineSend, BeatSeq, BeatTarget, BeatSend,
     PaperCrash, Post, Deliver, DeliverTwice, GiveUp, DeliverLate, StartupDone, HandleHeartbeat,
     TakeIntent, ActOnIntent, DaemonCrash

LEMMA BeatStep ==
  ASSUME TypeOK, Counted, BeatRead, [Next]_vars, Counted', TypeOK' PROVE BeatRead'
  <1> USE DEF paperVars
  <1>1. path \in [Boots -> Seq(Targets)] /\ boot \in Boots /\ seq \in Nat
    BY DEF TypeOK, Seqs
  <1>2. CASE BeatSeq
    BY <1>1, <1>2 DEF BeatSeq, Heartbeat, Counted, BeatRead
  <1>3. CASE BeatTarget
    <2>1. beatMsg'.boot = beatMsg.boot /\ beatMsg'.seq = beatMsg.seq
      BY <1>3 DEF BeatTarget, TypeOK, Heartbeats, Message
    <2>2. QED
      BY <1>3, <2>1 DEF BeatTarget, BeatRead
  <1>4. CASE BeatSend \/ PaperCrash
    BY <1>4 DEF BeatSend, PaperCrash, BeatRead
  <1>5. ASSUME NEW t \in Targets, EngineTarget(t) PROVE BeatRead'
    <2>1. Len(path'[boot]) = Len(path[boot]) + 1 /\ Len(path[boot]) \in Nat
      BY <1>1, <1>5 DEF EngineTarget
    <2>2. beat # "asleep" => beatMsg.seq \in Nat
      BY DEF TypeOK, Heartbeats, Message, Seqs
    <2>3. QED
      BY <1>5, <2>1, <2>2 DEF EngineTarget, BeatRead
  <1>6. CASE UNCHANGED <<path, boot, beat, beatMsg>>
    BY <1>6 DEF BeatRead
  <1>7. QED
    BY <1>2, <1>3, <1>4, <1>5, <1>6 DEF Next, vars, EngineCount, EngineSend, Post, Deliver, DeliverTwice,
       GiveUp, DeliverLate, StartupDone, HandleHeartbeat, TakeIntent, ActOnIntent, DaemonCrash

LEMMA AllHonestStep == ASSUME HInv, [Next]_vars PROVE AllHonest'
  <1> USE DEF paperVars, wireVars, workerVars, execVars
  <1>1. path \in [Boots -> Seq(Targets)] /\ boot \in Boots /\ seq \in Nat /\ target \in Targets
        /\ link \in Seq(Message)
    BY DEF HInv, TypeOK, Seqs
  <1>2. CASE EngineSend
    <2> DEFINE m == Intent(boot, seq, target)
    <2>1. seq <= Len(path[boot])
      BY <1>1, <1>2 DEF EngineSend, HInv, Counted
    <2>2. Honest(m)
      BY <1>1, <2>1, TargetIsLast DEF HInv, Honest, Intent
    <2>3. Range(link') \subseteq Range(link) \cup {m}
      BY <1>1, <1>2, RangeAppend DEF EngineSend, Send
    <2> HIDE DEF m
    <2>4. UnderWay' \subseteq UnderWay \cup {m}
      BY <1>2, <2>3 DEF EngineSend, UnderWay
    <2>5. QED
      BY <1>2, <2>2, <2>4, NewMessage DEF EngineSend
  <1>3. CASE BeatTarget
    <2>1. beatMsg.boot = boot /\ beatMsg.seq <= Len(path[boot]) /\ beatMsg.seq \in Nat
          /\ beatMsg \in Message
      BY <1>3 DEF BeatTarget, HInv, BeatRead, TypeOK, Heartbeats, Message, Seqs
    <2> DEFINE m == [beatMsg EXCEPT !.target = target]
    <2>2. m.boot = boot /\ m.seq = beatMsg.seq /\ m.target = target
      BY <2>1 DEF Message
    <2> HIDE DEF m
    <2>3. Honest(m)
      BY <2>1, <2>2, TargetIsLast DEF HInv, Honest
    <2>4. UnderWay' \subseteq UnderWay \cup {m}
      BY <1>3 DEF BeatTarget, UnderWay, m
    <2>5. QED
      BY <1>3, <2>3, <2>4, NewMessage DEF BeatTarget
  <1>4. CASE ~EngineSend /\ ~BeatTarget
    BY <1>4, PathStep, UnderWayKept, OldMessages DEF HInv
  <1>5. QED
    BY <1>2, <1>3, <1>4

LEMMA ExecutorStep == ASSUME HInv, [Next]_vars PROVE ExecutorHonest'
  <1> USE DEF execVars
  <1>1. exBoot \in 0 .. MaxBoot
    BY DEF HInv, TypeOK
  <1>2. CASE HandleHeartbeat
    <2>1. CASE latestHb = Nothing
      BY <1>2, <2>1 DEF HandleHeartbeat, paperVars, HInv, ExecutorHonest, TookSince
    <2>2. CASE latestHb # Nothing
      <3>1. latestHb \in UnderWay /\ latestHb.boot \in Boots
        BY <2>2 DEF HInv, TypeOK, UnderWay, Heartbeats, Message
      <3>2. TookSince(latestHb.boot, latestHb.seq, latestHb.target)
        BY <3>1 DEF HInv, AllHonest, Honest
      <3>3. TookSince(latestHb.boot, AfterHeartbeat(latestHb).seq, AfterHeartbeat(latestHb).target)
        BY <3>1, <3>2, KnownHonest DEF AfterHeartbeat, HInv
      <3>4. QED
        BY <1>2, <2>2, <3>3 DEF HandleHeartbeat, paperVars, ExecutorHonest, TookSince
    <2>3. QED
      BY <2>1, <2>2
  <1>3. CASE TakeIntent
    <2> DEFINE m == Head(queue)
    <2>1. m \in Message
      BY <1>3, HeadTyped DEF TakeIntent, HInv
    <2>2. m \in UnderWay
      <3>1. m \in Range(queue)
        BY <1>3, RangeHeadTail DEF TakeIntent, HInv, TypeOK
      <3>2. QED
        BY <2>1, <3>1 DEF UnderWay
    <2>3. TookSince(m.boot, m.seq, m.target) /\ m.boot \in Boots
      BY <2>1, <2>2 DEF HInv, AllHonest, Honest, Message
    <2>4. TookSince(m.boot, Known(m.boot).seq, Known(m.boot).target)
      BY <2>3, KnownHonest DEF HInv
    <2>5. path' = path /\ exBoot' = m.boot
          /\ \/ exSeq' = m.seq /\ exTarget' = m.target
             \/ exSeq' = Known(m.boot).seq /\ exTarget' = Known(m.boot).target
      BY <1>3 DEF TakeIntent, paperVars
    <2> HIDE DEF m
    <2>6. QED
      BY <2>3, <2>4, <2>5 DEF ExecutorHonest, TookSince
  <1>4. CASE DaemonCrash
    BY <1>4 DEF DaemonCrash, ExecutorHonest
  <1>5. CASE UNCHANGED <<exBoot, exSeq, exTarget>>
    <2>1. ASSUME exBoot # 0 PROVE TookSince(exBoot, exSeq, exTarget)'
      <3>1. exBoot \in Boots /\ TookSince(exBoot, exSeq, exTarget)
        BY <1>1, <2>1 DEF HInv, ExecutorHonest, Boots
      <3>2. \A b \in Boots : \A n, t : TookSince(b, n, t) => TookSince(b, n, t)'
        BY PathStep, PathGrows DEF HInv
      <3>3. QED
        BY <1>5, <3>1, <3>2 DEF TookSince
    <2>2. QED
      BY <1>5, <2>1 DEF ExecutorHonest
  <1>6. QED
    BY <1>2, <1>3, <1>4, <1>5 DEF Next, vars, EngineTarget, EngineCount, EngineSend, BeatSeq, BeatTarget,
       BeatSend, PaperCrash, Post, Deliver, DeliverTwice, GiveUp, DeliverLate, StartupDone, ActOnIntent

LEMMA HonestInit == Init => HInv
  <1> SUFFICES ASSUME Init PROVE HInv
    OBVIOUS
  <1>1. path = [b \in Boots |-> <<>>] /\ boot \in Boots
    BY ChannelAssumption DEF Init, Boots
  <1>2. Counted
    BY <1>1 DEF Init, Counted
  <1>3. Nothing \notin Message /\ Range(link) = {} /\ Range(queue) = {}
    BY DEF Init, Message, Nothing, Range
  <1>4. AllHonest
    BY <1>3 DEF Init, AllHonest, UnderWay
  <1>5. QED
    BY <1>2, <1>4, TypeInit DEF Init, HInv, BeatRead, ExecutorHonest

LEMMA HonestStep == HInv /\ [Next]_vars => HInv'
  <1> SUFFICES ASSUME HInv, [Next]_vars PROVE HInv'
    OBVIOUS
  <1>1. TypeOK' /\ Counted'
    BY TypeStep, CountedStep DEF HInv
  <1>2. BeatRead'
    BY <1>1, BeatStep DEF HInv
  <1>3. QED
    BY <1>1, <1>2, AllHonestStep, ExecutorStep DEF HInv

\* Whatever is lost, late or out of order, the executor follows no position that
\* paper has left before the seq it stands at.
THEOREM TargetIsCurrent == Spec => []TargetNotOlderThanSeq
  <1>1. Spec => []HInv
    BY HonestInit, HonestStep, PTL DEF Spec
  <1>2. HInv => TargetNotOlderThanSeq
    BY DEF HInv, ExecutorHonest, TookSince, TargetNotOlderThanSeq
  <1>3. QED
    BY <1>1, <1>2, PTL

(***************************************************************************)
(* The link implements IntentDelivery.  A step of the engine is a Change,  *)
(* a new run a NewRun, an act an Act; every other step stutters.           *)
(***************************************************************************)

LEMMA DeliveryStep ==
  ASSUME HInv, RowBeforeAct, [Next]_vars
  PROVE  [Delivery!Next]_(Delivery!vars)
  <1> USE DEF paperVars, execVars
  <1> DEFINE changes == [b \in Boots |-> Len(path[b])]
  <1>1. path \in [Boots -> Seq(Targets)] /\ boot \in Boots /\ seq \in Nat
    BY DEF HInv, TypeOK, Seqs
  <1>2. ASSUME NEW t \in Targets, EngineTarget(t) PROVE Delivery!Change
    <2>1. /\ path'[boot] = Append(path[boot], t) /\ \A b \in Boots : b # boot => path'[b] = path[b]
          /\ path' \in [Boots -> Seq(Targets)]
      BY <1>1, <1>2 DEF EngineTarget
    <2>2. Len(path[boot]) = seq /\ seq < MaxSeq
      BY <1>2 DEF EngineTarget, HInv, Counted
    <2>3. Len(path'[boot]) = Len(path[boot]) + 1
      BY <1>1, <2>1
    <2>4. changes' = [changes EXCEPT ![boot] = @ + 1]
      BY <1>1, <2>1, <2>3
    <2>5. changes[boot] < MaxSeq
      BY <1>1, <2>2
    <2>6. boot' = boot /\ acts' = acts
      BY <1>2 DEF EngineTarget
    <2>7. QED
      BY <2>4, <2>5, <2>6 DEF Delivery!Change
  <1>3. CASE PaperCrash
    <2>1. boot < MaxBoot /\ boot' = boot + 1 /\ path' = path /\ acts' = acts
      BY <1>3 DEF PaperCrash
    <2>2. changes' = changes
      BY <2>1
    <2> HIDE DEF changes
    <2>3. Delivery!NewRun
      BY <2>1, <2>2 DEF Delivery!NewRun, changes
    <2>4. QED
      BY <2>3 DEF Delivery!Next
  <1>4. CASE ActOnIntent
    <2> DEFINE s == <<busy.boot, busy.seq>>
    <2>1. busy \in Message /\ s \in Signals /\ acts[s] = 0
      BY <1>4 DEF ActOnIntent, HInv, TypeOK, RowBeforeAct
    <2>2. busy.seq <= Len(path[busy.boot])
      <3>1. TookSince(busy.boot, busy.seq, busy.target)
        BY <1>4, <2>1 DEF ActOnIntent, HInv, AllHonest, Honest, UnderWay
      <3>2. busy.seq \in 1 .. MaxSeq /\ busy.boot \in Boots /\ path[busy.boot] \in Seq(Targets)
        BY <1>1, <2>1 DEF Signals
      <3>3. QED
        BY <3>1, <3>2, ChannelAssumption DEF TookSince
    <2>3. s[1] \in Boots /\ s[2] <= changes[s[1]]
      BY <2>1, <2>2 DEF Signals
    <2>4. acts' = [acts EXCEPT ![s] = 1]
      BY <1>4, <2>1 DEF ActOnIntent, HInv, TypeOK
    <2>5. boot' = boot /\ path' = path
      BY <1>4 DEF ActOnIntent
    <2>6. s \in Delivery!Signals
      BY <2>1 DEF Signals, Boots, Delivery!Signals, Delivery!Boots
    <2> HIDE DEF s
    <2>7. Delivery!Act(s)
      BY <2>1, <2>3, <2>4, <2>5 DEF Delivery!Act
    <2>8. QED
      BY <2>6, <2>7 DEF Delivery!Next
  <1>5. CASE UNCHANGED <<boot, path, acts>>
    BY <1>5 DEF Delivery!vars
  <1>6. QED
    BY <1>2, <1>3, <1>4, <1>5 DEF Delivery!Next, Next, vars, EngineCount, EngineSend, BeatSeq, BeatTarget,
       BeatSend, Post, Deliver, DeliverTwice, GiveUp, DeliverLate, StartupDone, HandleHeartbeat,
       TakeIntent, DaemonCrash

\* The whole link, with its threads, its losses and its restarts, keeps the promise
\* of IntentDelivery: the account acts on nothing but a change that a run really
\* made, and not twice.
THEOREM KeepsPromise == Spec => DeliveryPromise
  <1>1. Init => Delivery!Init
    <2> SUFFICES ASSUME Init PROVE Delivery!Init
      OBVIOUS
    <2>1. boot = 1 /\ path = [b \in Boots |-> <<>>] /\ acts = [s \in Signals |-> 0]
      BY DEF Init
    <2>2. [b \in Boots |-> Len(path[b])] = [b \in Boots |-> 0]
      BY <2>1
    <2>3. QED
      BY <2>1, <2>2 DEF Delivery!Init, Delivery!Boots, Delivery!Signals, Boots, Signals
  <1>2. Init => RowBeforeAct
    BY DEF Init, RowBeforeAct
  <1>3. Spec => [](HInv /\ RowBeforeAct)
    <2>1. HInv /\ RowBeforeAct /\ [Next]_vars => HInv' /\ RowBeforeAct'
      BY HonestStep, RowStep DEF HInv
    <2>2. QED
      BY <1>2, <2>1, HonestInit, PTL DEF Spec
  <1>4. HInv /\ RowBeforeAct /\ [Next]_vars => [Delivery!Next]_(Delivery!vars)
    BY DeliveryStep
  <1>5. QED
    BY <1>1, <1>3, <1>4, PTL DEF Spec, DeliveryPromise, Delivery!Spec
=============================================================================
