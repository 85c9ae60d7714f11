----------------------------- MODULE FeedProofs -----------------------------
(***************************************************************************)
(* The token store and the feed, for every number of faults, pastes,       *)
(* trades and units of time.                                               *)
(*                                                                         *)
(* First, that the lock keeps the two renewers apart.  Who has a request   *)
(* under way holds the lock; and a token of the store that was renewed is  *)
(* about to be replaced by the holder, unless the answer was lost.  A      *)
(* write is never refused: no token outlives one that is issued later.     *)
(* Then, that a store lapses only after as many faults as it was due for   *)
(* units, and from that, that a session sends the store's token only after *)
(* a fault; that a trade is counted once; and the types.                   *)
(***************************************************************************)
EXTENDS Feed, FiniteSetTheorems, TLAPS

Typed ==
  /\ now \in Nat /\ lost \in BOOLEAN /\ lock \in {"free"} \cup Renewers
  /\ store \in [exp : Int, renewed : BOOLEAN]
  /\ seed \in [exp : Int, at : Int, newer : BOOLEAN]
  /\ req \in [Renewers -> [pc : {"idle", "sent", "answered", "rejected"},
                           src : {"env", "store"}, exp : Int]]

HoldersAsk == \A r \in Renewers : req[r].pc # "idle" => lock = r

RenewedIsReplaced ==
  store.renewed => \/ lost
                   \/ \E r \in Renewers : req[r].pc = "answered" /\ req[r].src = "store"

NoneOutlives == store.exp <= now + LIFE

Inv == Typed /\ HoldersAsk /\ RenewedIsReplaced /\ NoneOutlives

\* What Inv is about, and what leaves it alone.
core == <<now, store, seed, lock, req, lost>>

USE TokenAssumption DEF TokenAssumption, Renewers

\* The invariant is enough: a second sender, or a second sending, would need the
\* lock another one holds.
LEMMA InvSuffices == Inv => RenewersApart
  BY DEF Inv, Typed, HoldersAsk, RenewedIsReplaced, RenewersApart

LEMMA InvInit == Init => Inv
<1> SUFFICES ASSUME Init PROVE Inv
  OBVIOUS
<1> PICK e \in {None, LIFE} : store = [exp |-> e, renewed |-> FALSE]
  BY DEF Init, TokenInit
<1>1. e \in Int /\ e <= LIFE
  BY DEF None
<1>2. now = 0 /\ lost = FALSE /\ lock = "free" /\ req = [r \in Renewers |-> NoReq]
      /\ seed = [exp |-> None, at |-> 0, newer |-> FALSE]
  BY DEF Init, TokenInit
<1>3. NoReq \in [pc : {"idle", "sent", "answered", "rejected"}, src : {"env", "store"}, exp : Int]
  BY DEF NoReq, None
<1>a. store \in [exp : Int, renewed : BOOLEAN] /\ seed \in [exp : Int, at : Int, newer : BOOLEAN]
  BY <1>1, <1>2 DEF None
<1>b. Typed
  BY <1>2, <1>3, <1>a DEF Typed
<1>4. HoldersAsk /\ RenewedIsReplaced /\ NoneOutlives
  BY <1>1, <1>2 DEF HoldersAsk, RenewedIsReplaced, NoneOutlives, NoReq
<1> QED
  BY <1>b, <1>4 DEF Inv

LEMMA InvStutters == Inv /\ UNCHANGED core => Inv'
  BY DEF Inv, Typed, HoldersAsk, RenewedIsReplaced, NoneOutlives, core

\* Time goes on only while nobody has a request under way.
LEMMA InvTick == Inv /\ Tick => Inv'
  BY DEF Inv, Typed, HoldersAsk, RenewedIsReplaced, NoneOutlives, Tick, files

\* A paste changes .env alone.
LEMMA InvPastes == Inv /\ Pastes => Inv'
<1> SUFFICES ASSUME Inv, Pastes PROVE Inv'
  OBVIOUS
<1>1. New \in Int /\ now \in Int
  BY DEF Inv, Typed, New
<1>2. seed \in [exp : Int, at : Int, newer : BOOLEAN]
  BY DEF Inv, Typed
<1>3. \/ seed' = [exp |-> New, at |-> now, newer |-> TRUE]
      \/ seed' = [seed EXCEPT !.at = now, !.newer = TRUE]
  BY DEF Pastes
<1>4. seed' \in [exp : Int, at : Int, newer : BOOLEAN]
  <2>1. CASE seed' = [exp |-> New, at |-> now, newer |-> TRUE]
    BY <1>1, <2>1
  <2>2. CASE seed' = [seed EXCEPT !.at = now, !.newer = TRUE]
    <3>1. seed' = [exp |-> seed.exp, at |-> now, newer |-> TRUE] /\ seed.exp \in Int
      BY <1>2, <2>2
    <3> QED
      BY <1>1, <3>1
  <2> QED
    BY <1>3, <2>1, <2>2
<1> QED
  BY <1>4 DEF Inv, Typed, HoldersAsk, RenewedIsReplaced, NoneOutlives, Pastes

\* Who finds the lock free sends the token the store has: nobody is about to
\* replace it, so it was not renewed.
LEMMA InvSends ==
  ASSUME NEW r \in Renewers, NEW src \in {"env", "store"}, Inv,
         \/ lock = "free"
         \/ lock = r /\ req[r].src = "env"
         \/ lock = r /\ lost',
         Sends(r, src), lost => lost', lost' \in BOOLEAN, UNCHANGED <<now, store, seed>>
  PROVE  Inv'
  BY DEF Inv, Typed, HoldersAsk, RenewedIsReplaced, NoneOutlives, Sends

\* Who gives the lock back has no answer, or one that is lost, or one that was
\* not for a token of the store.
LEMMA InvReleases ==
  ASSUME NEW r \in Renewers, Inv, lock = r \/ req[r].pc = "idle",
         \/ req[r].pc # "answered" \/ lost'
         \/ req[r].src = "env",
         lock' = IF lock = r THEN "free" ELSE lock,
         req' = [req EXCEPT ![r] = NoReq],
         lost => lost', lost' \in BOOLEAN, UNCHANGED <<now, store, seed>>
  PROVE  Inv'
  BY DEF Inv, Typed, HoldersAsk, RenewedIsReplaced, NoneOutlives, NoReq, None

\* The write replaces the renewed token.
LEMMA InvSaves ==
  ASSUME NEW r \in Renewers, Inv, req[r].pc = "answered", Writes(New),
         lock' = "free", req' = [req EXCEPT ![r] = NoReq], UNCHANGED <<now, lost>>
  PROVE  Inv'
<1>1. New \in Int /\ ~(store.exp > New)
  BY DEF Inv, Typed, NoneOutlives, New
<1>2. store' = [exp |-> New, renewed |-> FALSE] /\ seed' = [seed EXCEPT !.newer = FALSE]
  BY <1>1 DEF Writes
<1>3. NoReq \in [pc : {"idle", "sent", "answered", "rejected"}, src : {"env", "store"}, exp : Int]
  BY DEF NoReq, None
<1>a. Typed'
  <2>1. store' \in [exp : Int, renewed : BOOLEAN] /\ seed' \in [exp : Int, at : Int, newer : BOOLEAN]
    BY <1>1, <1>2 DEF Inv, Typed
  <2> QED
    BY <1>3, <2>1 DEF Inv, Typed
<1>4. HoldersAsk'
  BY DEF Inv, Typed, HoldersAsk, NoReq
<1>5. RenewedIsReplaced' /\ NoneOutlives'
  BY <1>1, <1>2 DEF RenewedIsReplaced, NoneOutlives, New, Inv, Typed
<1> QED
  BY <1>a, <1>4, <1>5 DEF Inv

\* Tradovate's answer is for the holder.
LEMMA InvAnswers == ASSUME NEW r \in Renewers, Inv, Answers(r) PROVE Inv'
<1>1. store' \in [exp : Int, renewed : BOOLEAN] /\ store'.exp = store.exp
  BY DEF Inv, Typed, Answers
<1>2. Typed'
  BY <1>1 DEF Inv, Typed, Answers
<1>3. HoldersAsk'
  BY DEF Inv, Typed, HoldersAsk, Answers
<1>a. NoneOutlives'
  BY <1>1 DEF Inv, Typed, NoneOutlives, Answers
<1>4. RenewedIsReplaced'
  BY DEF Inv, Typed, RenewedIsReplaced, HoldersAsk, Answers
<1> QED
  BY <1>2, <1>3, <1>a, <1>4 DEF Inv

-----------------------------------------------------------------------------
\* Steps of the keep-alive.

\* Looking at the store ends the tick, or sends the store's token.
LEMMA InvFromStore ==
  ASSUME Inv, FromStore, lock = "free" \/ lock = "keepalive",
         \/ req["keepalive"].pc # "answered" \/ lost'
         \/ req["keepalive"].src = "env",
         lock = "free" \/ req["keepalive"].src = "env" \/ lost',
         lost => lost', lost' \in BOOLEAN, UNCHANGED <<now, store, seed>>
  PROVE  Inv'
<1> USE DEF FromStore
<1>1. CASE TickEnds
  <2>1. lock = "keepalive" \/ req["keepalive"].pc = "idle"
    BY DEF Inv, HoldersAsk
  <2> QED
    BY <1>1, <2>1, InvReleases DEF TickEnds
<1>2. CASE Sends("keepalive", "store")
  BY <1>2, InvSends
<1> QED
  BY <1>1, <1>2

\* A failure: the seed's is looked past to the store, the store's ends the tick.
LEMMA InvKeepalive == ASSUME Inv, Keepalive PROVE Inv'
<1>1. CASE KeepaliveTicks
  <2>1. CASE Sends("keepalive", "env") /\ UNCHANGED <<failing, ticked, forced>>
    BY <1>1, <2>1, InvSends DEF KeepaliveTicks, Free, Inv, Typed
  <2>2. CASE FromStore
    BY <1>1, <2>2, InvFromStore DEF KeepaliveTicks, Free, Inv, Typed
  <2> QED
    BY <1>1, <2>1, <2>2 DEF KeepaliveTicks
<1>2. CASE KeepaliveSaves
  BY <1>2, InvSaves DEF KeepaliveSaves, TickEnds, files
<1>3. CASE KeepaliveFails
  <2>1. /\ req["keepalive"].pc \in {"sent", "answered", "rejected"}
        /\ req["keepalive"].pc = "answered" => lost'
        /\ (lost => lost') /\ lost' \in BOOLEAN
    <3>1. Fails("keepalive") /\ lost \in BOOLEAN
      BY <1>3 DEF KeepaliveFails, Inv, Typed
    <3>2. CASE req["keepalive"].pc = "rejected" /\ UNCHANGED lost
      BY <3>1, <3>2
    <3>3. CASE req["keepalive"].pc = "sent" /\ UNCHANGED lost
      BY <3>1, <3>3
    <3>4. CASE req["keepalive"].pc = "answered" /\ lost' = TRUE
      BY <3>1, <3>4
    <3> QED
      BY <3>1, <3>2, <3>3, <3>4, Zenon DEF Fails
  <2>2. lock = "keepalive" /\ UNCHANGED <<now, store, seed>>
    BY <1>3, <2>1 DEF KeepaliveFails, Inv, HoldersAsk
  <2>3. CASE TickEnds
    BY <2>1, <2>2, <2>3, InvReleases DEF TickEnds
  <2>4. CASE req["keepalive"].src = "env" /\ FromStore
    BY <2>1, <2>2, <2>4, InvFromStore
  <2> QED
    BY <1>3, <2>3, <2>4 DEF KeepaliveFails
<1>4. CASE KeepaliveCrashes
  BY <1>4, InvReleases DEF KeepaliveCrashes, WriteFails, TickEnds, Inv, HoldersAsk
<1>5. CASE KeepaliveBusy
  BY <1>5, InvStutters DEF KeepaliveBusy, core
<1>6. CASE KeepaliveDies
  BY <1>6, InvReleases DEF KeepaliveDies, Inv, Typed, HoldersAsk
<1> QED
  BY <1>1, <1>2, <1>3, <1>4, <1>5, <1>6 DEF Keepalive

-----------------------------------------------------------------------------
\* Steps of the session.

LEMMA InvSession == ASSUME Inv, Session PROVE Inv'
<1>1. CASE RefreshSends
  BY <1>1, InvSends DEF RefreshSends, Free, Inv, Typed
<1>2. CASE RefreshSaves
  BY <1>2, InvSaves DEF RefreshSaves, Releases
<1>3. CASE RefreshFails
  <2>1. CASE Fails("session") /\ Releases("session") /\ UNCHANGED <<now, store, seed>>
    BY <2>1, InvReleases DEF Fails, Releases, Inv, Typed, HoldersAsk
  <2>2. CASE UNCHANGED core
    BY <2>2, InvStutters
  <2> QED
    BY <1>3, <2>1, <2>2 DEF RefreshFails, core, files
<1>4. CASE RefreshCrashes
  BY <1>4, InvReleases DEF RefreshCrashes, WriteFails, Releases, Inv, HoldersAsk
<1>5. CASE LeavesRequest
  BY <1>5, InvReleases DEF LeavesRequest, Inv, Typed, HoldersAsk
<1>6. CASE UNCHANGED core
  BY <1>6, InvStutters
<1>7. \/ RefreshSends \/ RefreshSaves \/ RefreshFails \/ RefreshCrashes \/ LeavesRequest
      \/ UNCHANGED core
  BY DEF Session, Starts, Asks, Saved, NotSaved, Unsaved, StillFresh, Awakes, Connects, Subscribes,
         Drops, Dom, Delivers, Dies, GivesUp, core, tokenVars, files
<1> QED
  BY <1>1, <1>2, <1>3, <1>4, <1>5, <1>6, <1>7

LEMMA InvNext == Inv /\ [Next]_vars => Inv'
<1> SUFFICES ASSUME Inv, [Next]_vars PROVE Inv'
  OBVIOUS
<1>1. CASE TokenSteps
  BY <1>1, InvKeepalive, InvAnswers, InvPastes DEF TokenSteps
<1>2. CASE Session
  BY <1>2, InvSession
<1>3. CASE Tick
  BY <1>3, InvTick
<1>4. CASE UNCHANGED core
  BY <1>4, InvStutters
<1> QED
  BY <1>1, <1>2, <1>3, <1>4 DEF Next, Trades, Over, vars, tokenVars, files, core

\* tradovate_token.py, "the lock + adopt-from-store rule keeps renewers apart".
THEOREM Apart == Spec => []RenewersApart
<1>1. Spec => []Inv
  BY InvInit, InvNext, PTL DEF Spec
<1> QED
  BY <1>1, InvSuffices, PTL

-----------------------------------------------------------------------------
(* That a store does not lapse before there were as many faults as it has been
   due for units.  Behind is their number; the faults of the run are at least
   as many, with one more once the keep-alive has ticked in this unit. *)

Behind == now + RENEW_BEFORE_S - store.exp

Paid ==
  HasStore => IF store.exp <= now THEN faults >= RENEW_BEFORE_S
              ELSE Behind >= 0 => faults >= Behind + (IF ticked THEN 1 ELSE 0)

AskedFor == \A r \in Renewers :
  /\ req[r].pc # "idle" /\ req[r].src = "store" => HasStore /\ req[r].exp = store.exp
  /\ req[r].pc = "rejected" => req[r].exp <= now

LInv == Inv /\ faults \in Nat /\ ticked \in BOOLEAN /\ AskedFor /\ Paid

LEMMA LInvSuffices == LInv => LapseTakesFaults
  BY DEF LInv, Inv, Typed, Paid, LapseTakesFaults, Dead

LEMMA LInvInit == Init => LInv
<1> SUFFICES ASSUME Init PROVE LInv
  OBVIOUS
<1> PICK e \in {None, LIFE} : store = [exp |-> e, renewed |-> FALSE]
  BY DEF Init, TokenInit
<1>1. /\ now = 0 /\ faults = 0 /\ ticked = FALSE /\ store.exp \in {None, LIFE}
      /\ \A r \in Renewers : req[r] = NoReq
  BY DEF Init, TokenInit
<1>2. AskedFor
  BY <1>1 DEF AskedFor, NoReq
<1>3. Paid
  BY <1>1 DEF Paid, Behind, HasStore, None
<1> QED
  BY <1>1, <1>2, <1>3, InvInit DEF LInv

\* A step that leaves the store pays for the tick it ends, if the store is due.
LEMMA PaidKept ==
  ASSUME LInv, now' = now, store'.exp = store.exp, faults' \in Nat, faults' >= faults,
         ticked' \in BOOLEAN,
         ticked' => \/ ticked \/ faults' > faults \/ store.exp <= now \/ Behind < 0
                    \/ ~HasStore
  PROVE  Paid'
<1> now \in Int /\ store.exp \in Int /\ faults \in Nat /\ ticked \in BOOLEAN
  BY DEF LInv, Inv, Typed
<1> QED
  BY DEF LInv, Paid, Behind, HasStore

\* A renewed store is not due.
LEMMA PaidSaved ==
  ASSUME LInv, now' = now, store'.exp = New
  PROVE  Paid'
<1> now \in Int
  BY DEF LInv, Inv, Typed
<1> QED
  BY DEF Paid, Behind, New

\* A unit ends when the keep-alive has ticked.
LEMMA LInvTick == LInv /\ Tick => LInv'
<1> SUFFICES ASSUME LInv, Tick PROVE LInv'
  OBVIOUS
<1>1. /\ now' = now + 1 /\ ticked /\ ticked' = FALSE /\ store' = store /\ faults' = faults
      /\ req' = req /\ \A r \in Renewers : req[r].pc = "idle"
  BY DEF Tick, files, bounds
<1>2. now \in Int /\ store.exp \in Int /\ faults \in Nat
  BY DEF LInv, Inv, Typed
<1>3. Paid'
  BY <1>1, <1>2 DEF LInv, Paid, Behind, HasStore
<1>4. AskedFor'
  BY <1>1 DEF AskedFor
<1>5. Inv'
  BY InvTick DEF LInv
<1> QED
  BY <1>1, <1>2, <1>3, <1>4, <1>5 DEF LInv

\* What a request asks for, over its start, its end and the write.
LEMMA AskedSends ==
  ASSUME NEW r \in Renewers, NEW src \in {"env", "store"}, LInv, Sends(r, src),
         src = "store" => HasStore, UNCHANGED <<now, store>>
  PROVE  AskedFor'
  BY DEF LInv, Inv, Typed, AskedFor, Sends, HasStore

LEMMA AskedEnds ==
  ASSUME NEW r \in Renewers, LInv, req' = [req EXCEPT ![r] = NoReq],
         \/ UNCHANGED <<now, store>>
         \/ now' = now /\ req[r].pc # "idle"
  PROVE  AskedFor'
  BY DEF LInv, Inv, Typed, HoldersAsk, AskedFor, NoReq, HasStore

LEMMA AskedAnswers == ASSUME NEW r \in Renewers, LInv, Answers(r) PROVE AskedFor'
<1>1. store'.exp = store.exp /\ now' = now
  BY DEF LInv, Inv, Typed, Answers
<1>3. SUFFICES ASSUME NEW q \in Renewers
               PROVE  /\ req'[q].pc # "idle" /\ req'[q].src = "store" =>
                            HasStore' /\ req'[q].exp = store'.exp
                      /\ req'[q].pc = "rejected" => req'[q].exp <= now'
  BY DEF AskedFor
<1>4. /\ req[q].pc # "idle" /\ req[q].src = "store" => HasStore /\ req[q].exp = store.exp
      /\ req[q].pc = "rejected" => req[q].exp <= now
  BY <1>3 DEF LInv, AskedFor
<1>5. /\ req'[q].src = req[q].src /\ req'[q].exp = req[q].exp
      /\ req'[q].pc # "idle" => req[q].pc # "idle"
      /\ req'[q].pc = "rejected" => req[q].pc = "rejected" \/ req[q].exp <= now
  BY <1>3 DEF LInv, Inv, Typed, Answers
<1>6. req'[q].pc # "idle" /\ req'[q].src = "store" => HasStore' /\ req'[q].exp = store'.exp
  BY <1>1, <1>3, <1>4, <1>5 DEF HasStore
<1>7. req'[q].pc = "rejected" => req'[q].exp <= now'
  BY <1>1, <1>4, <1>5
<1> QED
  BY <1>3, <1>6, <1>7

\* A tick that ends without a renewal ends on a store that is not due, or has
\* lapsed, or with a fault.
LEMMA LInvFromStore ==
  ASSUME LInv, FromStore, Inv', faults' \in Nat, faults' >= faults, UNCHANGED <<now, store>>
  PROVE  AskedFor' /\ Paid' /\ ticked' \in BOOLEAN
<1>1. /\ now \in Int /\ store.exp \in Int /\ ticked \in BOOLEAN
  BY DEF LInv, Inv, Typed
<1>2. CASE TickEnds /\ ~Usable
  <2>1. ~HasStore \/ store.exp <= now
    BY <1>1, <1>2 DEF Usable, Dead
  <2> QED
    BY <1>1, <1>2, <2>1, AskedEnds, PaidKept DEF TickEnds
<1>3. CASE TickEnds /\ Usable /\ ~Due
  <2>1. Behind < 0
    BY <1>1, <1>3 DEF Due, Dead, Behind
  <2> QED
    BY <1>1, <1>3, <2>1, AskedEnds, PaidKept DEF TickEnds
<1>4. CASE Sends("keepalive", "store") /\ Usable /\ ticked' = ticked
  BY <1>1, <1>4, AskedSends, PaidKept DEF Usable
<1> QED
  BY <1>2, <1>3, <1>4 DEF FromStore

LEMMA LInvKeepalive == ASSUME LInv, Keepalive PROVE LInv'
<1>1. Inv'
  BY InvKeepalive DEF LInv
<1>2. /\ faults \in Nat /\ faults' \in Nat /\ faults' >= faults
      /\ Fault => faults' > faults
      /\ ticked \in BOOLEAN /\ now \in Int /\ store.exp \in Int
  <2>1. faults \in Nat /\ ticked \in BOOLEAN /\ now \in Int /\ store.exp \in Int
    BY DEF LInv, Inv, Typed
  <2>2. faults' = faults \/ Fault
    BY DEF Keepalive, KeepaliveTicks, KeepaliveSaves, KeepaliveFails, KeepaliveCrashes, KeepaliveBusy,
           KeepaliveDies, Fails, WriteFails, bounds
  <2> QED
    BY <2>1, <2>2 DEF Fault
<1>3. ASSUME AskedFor', Paid', ticked' \in BOOLEAN PROVE LInv'
  BY <1>1, <1>2, <1>3 DEF LInv
<1>4. CASE KeepaliveTicks
  <2>1. CASE Sends("keepalive", "env") /\ UNCHANGED <<failing, ticked, forced>>
    BY <1>2, <1>3, <1>4, <2>1, AskedSends, PaidKept DEF KeepaliveTicks
  <2>2. CASE FromStore
    BY <1>1, <1>2, <1>3, <1>4, <2>2, LInvFromStore DEF KeepaliveTicks
  <2> QED
    BY <1>4, <2>1, <2>2 DEF KeepaliveTicks
<1>5. CASE KeepaliveSaves
  <2>1. store'.exp = New /\ now' = now
    BY <1>5, <1>2 DEF KeepaliveSaves, Writes, LInv, Inv, NoneOutlives, Typed, New
  <2>2. AskedFor'
    BY <1>5, <2>1, AskedEnds DEF KeepaliveSaves, TickEnds
  <2> QED
    BY <1>3, <1>5, <2>1, <2>2, PaidSaved DEF KeepaliveSaves, TickEnds
<1>6. CASE KeepaliveFails
  <2>1. CASE TickEnds /\ (req["keepalive"].src = "store" \/ ~Usable)
    <3>1. Fault \/ ~HasStore \/ store.exp <= now
      <4>1. CASE req["keepalive"].pc = "rejected" /\ req["keepalive"].src = "store"
        BY <4>1, <1>2 DEF LInv, AskedFor
      <4>2. CASE req["keepalive"].pc # "rejected"
        BY <1>6, <4>2 DEF KeepaliveFails, Fails
      <4>3. CASE ~Usable
        BY <4>3, <1>2 DEF Usable, Dead
      <4> QED
        BY <2>1, <4>1, <4>2, <4>3
    <3>2. Paid'
      BY <1>2, <1>6, <2>1, <3>1, PaidKept DEF KeepaliveFails, TickEnds
    <3>3. AskedFor'
      BY <1>6, <2>1, AskedEnds DEF KeepaliveFails, TickEnds
    <3> QED
      BY <1>3, <2>1, <3>2, <3>3 DEF TickEnds
  <2>2. CASE FromStore
    BY <1>1, <1>2, <1>3, <1>6, <2>2, LInvFromStore DEF KeepaliveFails
  <2>3. req["keepalive"].src \in {"env", "store"}
    BY DEF LInv, Inv, Typed
  <2> QED
    BY <1>6, <2>1, <2>2, <2>3 DEF KeepaliveFails
<1>7. CASE KeepaliveCrashes
  BY <1>2, <1>3, <1>7, AskedEnds, PaidKept DEF KeepaliveCrashes, WriteFails, TickEnds
<1>8. CASE KeepaliveBusy
  <2>1. AskedFor'
    BY <1>8 DEF KeepaliveBusy, LInv, AskedFor, HasStore
  <2> QED
    BY <1>2, <1>3, <1>8, <2>1, PaidKept DEF KeepaliveBusy
<1>9. CASE KeepaliveDies
  BY <1>2, <1>3, <1>9, AskedEnds, PaidKept DEF KeepaliveDies
<1> QED
  BY <1>4, <1>5, <1>6, <1>7, <1>8, <1>9 DEF Keepalive

\* The session renews, or leaves the store and the keep-alive's tick alone.
LEMMA LInvSession == ASSUME LInv, Session PROVE LInv'
<1>1. Inv'
  BY InvSession DEF LInv
<1>2. /\ faults \in Nat /\ ticked \in BOOLEAN /\ now \in Int /\ store.exp \in Int
  BY DEF LInv, Inv, Typed
<1>3. ticked' = ticked /\ now' = now /\ (faults' = faults \/ Fault)
  BY DEF Session, Starts, Asks, Saved, NotSaved, Unsaved, StillFresh, Awakes, Connects, Subscribes,
         Drops, Dom, Delivers, Dies, GivesUp, LeavesRequest, RefreshSends, RefreshSaves, RefreshFails, RefreshCrashes, WriteFails,
         Fails, tokenVars, bounds, keepalive
<1>4. faults' \in Nat /\ faults' >= faults
  BY <1>2, <1>3 DEF Fault
<1>5. AskedFor' /\ Paid'
  <2>1. CASE RefreshSends
    BY <1>2, <1>3, <1>4, <2>1, AskedSends, PaidKept DEF RefreshSends, SkipReason, Expired, Usable, Free
  <2>2. CASE RefreshSaves
    <3>1. store'.exp = New
      BY <1>2, <2>2 DEF RefreshSaves, Writes, LInv, Inv, NoneOutlives, Typed, New
    <3> QED
      BY <1>3, <2>2, <3>1, AskedEnds, PaidSaved DEF RefreshSaves, Releases
  <2>3. CASE Releases("session") /\ store' = store
    BY <1>2, <1>3, <1>4, <2>3, AskedEnds, PaidKept DEF Releases
  <2>4. CASE LeavesRequest
    BY <1>2, <1>3, <1>4, <2>4, AskedEnds, PaidKept DEF LeavesRequest
  <2>5. CASE UNCHANGED <<store, req>>
    <3>1. AskedFor'
      BY <1>3, <2>5 DEF LInv, AskedFor, HasStore
    <3> QED
      BY <1>2, <1>3, <1>4, <2>5, <3>1, PaidKept
  <2>6. \/ RefreshSends \/ RefreshSaves \/ (Releases("session") /\ store' = store) \/ LeavesRequest
        \/ UNCHANGED <<store, req>>
    <3>1. \/ RefreshSends \/ RefreshSaves \/ RefreshFails \/ RefreshCrashes \/ LeavesRequest
          \/ UNCHANGED <<store, req>>
      BY DEF Session, Starts, Asks, Saved, NotSaved, Unsaved, StillFresh, Awakes, Connects, Subscribes,
             Drops, Dom, Delivers, Dies, GivesUp, tokenVars, files
    <3>2. RefreshFails => (Releases("session") /\ store' = store) \/ UNCHANGED <<store, req>>
      BY DEF RefreshFails, files
    <3>3. RefreshCrashes => Releases("session") /\ store' = store
      BY DEF RefreshCrashes
    <3> QED
      BY <3>1, <3>2, <3>3
  <2> QED
    BY <2>1, <2>2, <2>3, <2>4, <2>5, <2>6
<1> QED
  BY <1>1, <1>2, <1>3, <1>4, <1>5 DEF LInv

LEMMA LInvNext == LInv /\ [Next]_vars => LInv'
<1> SUFFICES ASSUME LInv, [Next]_vars PROVE LInv'
  OBVIOUS
<1>1. Inv'
  BY InvNext DEF LInv
<1>2. CASE Keepalive
  BY <1>2, LInvKeepalive
<1>3. ASSUME NEW r \in Renewers, Answers(r) PROVE LInv'
  <2>1. store'.exp = store.exp /\ now' = now /\ ticked' = ticked /\ faults' = faults
    BY <1>3 DEF Answers, keepalive, bounds, LInv, Inv, Typed
  <2> QED
    BY <1>1, <1>3, <2>1, AskedAnswers, PaidKept DEF LInv
<1>4. CASE Session
  BY <1>4, LInvSession
<1>5. CASE Tick
  BY <1>5, LInvTick
<1>6. CASE UNCHANGED <<now, store, req, ticked, faults>>
  <2>1. AskedFor' /\ Paid'
    BY <1>6 DEF LInv, AskedFor, Paid, Behind, HasStore
  <2> QED
    BY <1>1, <1>6, <2>1 DEF LInv
<1> QED
  BY <1>2, <1>3, <1>4, <1>5, <1>6 DEF Next, TokenSteps, Pastes, Trades, Over, vars, tokenVars, files,
                                      keepalive, bounds

\* The keep-alive "renews when under 30 minutes remain" and tries again: when a
\* store lapses, the run has had a fault for each unit of that time.
THEOREM Lapses == Spec => []LapseTakesFaults
<1>1. Spec => []LInv
  BY LInvInit, LInvNext, PTL DEF Spec
<1> QED
  BY <1>1, LInvSuffices, PTL

-----------------------------------------------------------------------------
(* That the session only adopts: it has a token of the store sent when it has *)
(* less than RENEW_MARGIN_S left, so it was due for a unit that was paid.     *)

SInv == LInv /\ SessionOnlyAdopts

LEMMA SessionSendsLate == ASSUME LInv, RefreshSends, ~SeedIsFresh PROVE faults > 0
<1>1. now \in Int /\ store.exp \in Int /\ faults \in Nat /\ ticked \in BOOLEAN
  BY DEF LInv, Inv, Typed
<1>2. Usable /\ ~(HasStore /\ ~Dead(Margin))
  BY DEF RefreshSends, Expired, SkipReason, Adopts
<1>3. HasStore /\ store.exp > now /\ store.exp <= now + RENEW_MARGIN_S
  BY <1>1, <1>2 DEF Usable, Dead, Margin
<1>4. Behind > 0 /\ Behind \in Int
  BY <1>1, <1>3 DEF Behind
<1>5. faults >= Behind + (IF ticked THEN 1 ELSE 0)
  BY <1>1, <1>3, <1>4 DEF LInv, Paid
<1> QED
  BY <1>1, <1>4, <1>5

\* Whatever else happens to the session's request, it is the one that was sent.
LEMMA SessionKept ==
  ASSUME SInv, faults' \in Nat, faults' >= faults,
         \/ req'["session"].pc = "idle"
         \/ req["session"].pc # "idle" /\ req'["session"].src = req["session"].src
  PROVE  SessionOnlyAdopts'
  BY DEF SInv, LInv, SessionOnlyAdopts

LEMMA SInvInit == Init => SInv
<1> SUFFICES ASSUME Init PROVE SInv
  OBVIOUS
<1>1. req["session"].pc = "idle"
  BY DEF Init, TokenInit, NoReq
<1> QED
  BY <1>1, LInvInit DEF SInv, SessionOnlyAdopts

LEMMA SInvNext == SInv /\ [Next]_vars => SInv'
<1> SUFFICES ASSUME SInv, [Next]_vars PROVE SInv'
  OBVIOUS
<1>1. LInv' /\ LInv /\ SessionOnlyAdopts
  BY LInvNext DEF SInv
<1>2. faults' \in Nat /\ faults \in Nat
  BY <1>1 DEF LInv
<1>3. req \in [Renewers -> [pc : {"idle", "sent", "answered", "rejected"},
                            src : {"env", "store"}, exp : Int]]
  BY DEF SInv, LInv, Inv, Typed
<1>4. faults' = faults \/ Fault
  <2>1. CASE TokenSteps
    <3>1. CASE Keepalive
      BY <3>1 DEF Keepalive, KeepaliveTicks, KeepaliveSaves, KeepaliveFails, KeepaliveCrashes,
                  KeepaliveBusy, KeepaliveDies, Fails, WriteFails, bounds
    <3> QED
      BY <2>1, <3>1 DEF TokenSteps, Answers, Pastes, bounds
  <2>2. CASE Session
    BY <2>2 DEF Session, Starts, Asks, Saved, NotSaved, Unsaved, StillFresh, Awakes, Connects, Subscribes,
         Drops, Dom, Delivers, Dies, GivesUp, LeavesRequest, RefreshSends, RefreshSaves, RefreshFails, RefreshCrashes, WriteFails,
         Fails, tokenVars, bounds
  <2>3. CASE Trades \/ Tick \/ Over \/ UNCHANGED vars
    BY <2>3 DEF Trades, Tick, Over, vars, tokenVars, bounds
  <2> QED
    BY <2>1, <2>2, <2>3 DEF Next
<1>5. faults' >= faults
  BY <1>2, <1>4 DEF Fault
<1>6. CASE Keepalive
  <2>1. req'["session"] = req["session"]
    BY <1>3, <1>6 DEF Keepalive, KeepaliveTicks, KeepaliveSaves, KeepaliveFails, KeepaliveCrashes,
                 KeepaliveBusy, KeepaliveDies, FromStore, Sends, TickEnds
  <2> QED
    BY <1>1, <1>2, <1>5, <2>1, SessionKept DEF SInv
<1>7. ASSUME NEW r \in Renewers, Answers(r) PROVE SInv'
  <2>1. \/ req'["session"] = req["session"]
        \/ req["session"].pc # "idle" /\ req'["session"].src = req["session"].src
    BY <1>3, <1>7 DEF Answers
  <2> QED
    BY <1>1, <1>2, <1>5, <2>1, SessionKept DEF SInv
<1>8. CASE RefreshSends
  <2>1. faults > 0 \/ req'["session"].src = "env"
    BY <1>1, <1>3, <1>8, SessionSendsLate DEF RefreshSends, Sends
  <2> QED
    BY <1>1, <1>2, <1>5, <2>1 DEF SInv, SessionOnlyAdopts
<1>9. CASE req' = [req EXCEPT !["session"] = NoReq] \/ req' = req
  <2>1. req'["session"].pc = "idle" \/ req'["session"] = req["session"]
    BY <1>3, <1>9 DEF NoReq
  <2> QED
    BY <1>1, <1>2, <1>5, <2>1, SessionKept DEF SInv
<1>10. CASE Session
  <2>1. \/ RefreshSends \/ req' = [req EXCEPT !["session"] = NoReq] \/ req' = req
    BY <1>10 DEF Session, Starts, Asks, Saved, NotSaved, Unsaved, StillFresh, Awakes, Connects, Subscribes,
         Drops, Dom, Delivers, Dies, GivesUp, LeavesRequest, RefreshSaves, RefreshFails, RefreshCrashes, Releases,
         tokenVars, files
  <2> QED
    BY <1>8, <1>9, <2>1
<1>11. Pastes \/ Trades \/ Tick \/ Over \/ UNCHANGED vars => req' = req
  BY DEF Pastes, Trades, Tick, Over, vars, tokenVars
<1> QED
  BY <1>6, <1>7, <1>9, <1>10, <1>11 DEF Next, TokenSteps

\* tradovate_token.py, "while the keep-alive is healthy the session only ever
\* adopts the store's tokens".
THEOREM Adopted == Spec => []SessionOnlyAdopts
<1>1. Spec => []SInv
  BY SInvInit, SInvNext, PTL DEF Spec
<1> QED
  BY <1>1, PTL DEF SInv

-----------------------------------------------------------------------------
(* The session's request is somebody's: that of the caller who refreshes.     *)

Callers == {"login", "session", "loop"}

CallerAsks ==
  /\ caller \in {"none"} \cup Callers
  /\ req["session"].pc # "idle" => caller # "none"

CInv == Inv /\ CallerAsks

LEMMA CInvInit == Init => CInv
<1> SUFFICES ASSUME Init PROVE CInv
  OBVIOUS
<1>1. req["session"].pc = "idle" /\ caller = "none"
  BY DEF Init, TokenInit, NoReq
<1> QED
  BY <1>1, InvInit DEF CInv, CallerAsks

LEMMA CInvNext == CInv /\ [Next]_vars => CInv'
<1> SUFFICES ASSUME CInv, [Next]_vars PROVE CallerAsks'
  BY InvNext DEF CInv
<1>1. req \in [Renewers -> [pc : {"idle", "sent", "answered", "rejected"},
                            src : {"env", "store"}, exp : Int]]
  BY DEF CInv, Inv, Typed
<1>2. CASE caller' = caller /\ req'["session"] = req["session"]
  BY <1>2 DEF CInv, CallerAsks
<1>3. CASE caller' \in Callers
  BY <1>3 DEF CallerAsks, Callers
<1>4. CASE caller' = "none" /\ req' = [req EXCEPT !["session"] = NoReq]
  BY <1>1, <1>4 DEF CallerAsks, NoReq
<1>5. CASE caller' = "none" /\ req'["session"] = req["session"] /\ req["session"].pc = "idle"
  BY <1>5 DEF CallerAsks
<1>6. CASE Keepalive /\ UNCHANGED feedVars
  <2>1. req'["session"] = req["session"]
    BY <1>1, <1>6 DEF Keepalive, KeepaliveTicks, KeepaliveSaves, KeepaliveFails, KeepaliveCrashes,
                 KeepaliveBusy, KeepaliveDies, FromStore, Sends, TickEnds
  <2> QED
    BY <1>2, <1>6, <2>1 DEF feedVars, auth
<1>7. ASSUME NEW r \in Renewers, Answers(r), UNCHANGED feedVars PROVE CallerAsks'
  <2>1. caller' = caller /\ (req'["session"].pc # "idle" => req["session"].pc # "idle")
    BY <1>1, <1>7 DEF Answers, feedVars, auth
  <2> QED
    BY <2>1 DEF CInv, CallerAsks
<1>8. ASSUME NEW who, NEW out, NEW exp, Comes(who, out, exp) PROVE caller' = "none"
  BY <1>8 DEF Comes
<1>9. CASE Asks
  <2>1. PICK who \in Callers :
          /\ caller = "none"
          /\ \/ Comes(who, "fresh", store.exp) /\ UNCHANGED tokenVars
             \/ Comes(who, "expired", None) /\ UNCHANGED tokenVars
             \/ caller' = who
    BY <1>9 DEF Asks, Wants, Callers
  <2>2. CASE UNCHANGED tokenVars /\ caller' = "none"
    BY <1>2, <2>1, <2>2 DEF tokenVars
  <2> QED
    BY <1>3, <1>8, <2>1, <2>2
<1>10. CASE Saved \/ Unsaved
  <2>1. caller' = "none" /\ req' = [req EXCEPT !["session"] = NoReq]
    BY <1>8, <1>10 DEF Saved, Unsaved, RefreshSaves, RefreshCrashes, Releases
  <2> QED
    BY <1>4, <2>1
<1>11. CASE NotSaved
  <2>1. caller' = "none"
    BY <1>8, <1>11 DEF NotSaved
  <2>2. \/ req' = [req EXCEPT !["session"] = NoReq]
        \/ req' = req /\ req["session"].pc = "idle"
    BY <1>11 DEF NotSaved, RefreshFails, Releases
  <2> QED
    BY <1>4, <1>5, <2>1, <2>2
<1>12. CASE Starts
  BY <1>5, <1>12 DEF Starts, Fresh, tokenVars, CInv, CallerAsks
<1>13. CASE Dies \/ GivesUp
  BY <1>4, <1>13 DEF Dies, GivesUp, LeavesRequest, Fresh
<1>14. CASE StillFresh \/ Awakes \/ Connects \/ Subscribes \/ Drops \/ Dom \/ Delivers
  BY <1>2, <1>14 DEF StillFresh, Awakes, Connects, Subscribes, Drops, Dom, Delivers, auth, tokenVars
<1>15. CASE (Pastes /\ UNCHANGED feedVars) \/ Trades \/ Tick \/ Over \/ UNCHANGED vars
  BY <1>2, <1>15 DEF Pastes, Trades, Tick, Over, vars, tokenVars, feedVars, auth
<1> QED
  BY <1>6, <1>7, <1>9, <1>10, <1>11, <1>12, <1>13, <1>14, <1>15 DEF Next, TokenSteps, Session

-----------------------------------------------------------------------------
(* That a trade is counted once.  What the chart's history repeats comes      *)
(* before the marker and makes no row; after it come the trades from next on, *)
(* and none of those has a row.                                               *)

RowsBehind ==
  /\ \A t \in 1 .. MaxTrades : t > traded => rows[t] = 0
  /\ conn = "up" => /\ chart.next <= traded + 1
                    /\ \A t \in 1 .. MaxTrades : t >= chart.next => rows[t] = 0

TapeTyped ==
  /\ traded \in 0 .. MaxTrades /\ rows \in [1 .. MaxTrades -> Nat]
  /\ chart \in [hist : 0 .. MaxTrades, eoh : BOOLEAN, next : 1 .. MaxTrades + 1]

TInv == CInv /\ TapeTyped /\ RowsBehind /\ TradeOnce

LEMMA TInvInit == Init => TInv
<1> SUFFICES ASSUME Init PROVE TInv
  OBVIOUS
<1>1. traded = 0 /\ rows = [t \in 1 .. MaxTrades |-> 0] /\ chart = NoChart /\ conn = "off"
  BY DEF Init
<1> QED
  BY <1>1, CInvInit, FeedAssumption DEF TInv, TapeTyped, RowsBehind, TradeOnce, NoChart, FeedAssumption

\* A row for the next trade.
LEMMA TInvDelivers == ASSUME TInv, Delivers, CInv' PROVE TInv'
<1> USE FeedAssumption DEF FeedAssumption
<1>1. /\ traded \in 0 .. MaxTrades /\ rows \in [1 .. MaxTrades -> Nat]
      /\ chart.next \in 1 .. MaxTrades + 1 /\ chart.hist \in 0 .. MaxTrades
      /\ chart \in [hist : 0 .. MaxTrades, eoh : BOOLEAN, next : 1 .. MaxTrades + 1]
  BY DEF TInv, TapeTyped
<1>2. conn = "up" /\ conn' = conn /\ traded' = traded
  BY DEF Delivers, line
<1>3. CASE rows' = rows /\ chart'.next = chart.next
           /\ chart' \in [hist : 0 .. MaxTrades, eoh : BOOLEAN, next : 1 .. MaxTrades + 1]
  BY <1>1, <1>2, <1>3 DEF TInv, TapeTyped, RowsBehind, TradeOnce
<1>4. CASE chart.next <= traded /\ chart' = [chart EXCEPT !.next = @ + 1]
           /\ rows' = (IF Live THEN Rowed(chart.next) ELSE rows)
  <2> DEFINE n == chart.next
  <2>1. n \in 1 .. MaxTrades /\ rows[n] = 0
    <3>1. n \in 1 .. MaxTrades
      BY <1>1, <1>4
    <3>2. \A t \in 1 .. MaxTrades : t >= chart.next => rows[t] = 0
      BY <1>2 DEF TInv, RowsBehind
    <3> QED
      BY <3>1, <3>2
  <2>2. rows' = rows \/ rows' = [rows EXCEPT ![n] = 1]
    BY <1>1, <1>4, <2>1 DEF Rowed
  <2>3. /\ rows' \in [1 .. MaxTrades -> Nat]
        /\ \A t \in 1 .. MaxTrades : t # n => rows'[t] = rows[t]
        /\ rows'[n] <= 1
    BY <1>1, <2>1, <2>2
  <2>4. chart' = [hist |-> chart.hist, eoh |-> chart.eoh, next |-> n + 1]
    BY <1>1, <1>4
  <2>5. TapeTyped'
    BY <1>1, <1>2, <2>1, <2>3, <2>4 DEF TapeTyped
  <2>6. chart'.next = n + 1 /\ n <= traded
    BY <1>4, <2>4
  <2> HIDE DEF n
  <2>7. RowsBehind'
    <3>1. \A t \in 1 .. MaxTrades : t > traded => rows[t] = 0
      BY DEF TInv, RowsBehind
    <3>2. \A t \in 1 .. MaxTrades : t >= n => rows[t] = 0
      BY <1>2 DEF TInv, RowsBehind, n
    <3>3. \A t \in 1 .. MaxTrades : t > traded' => rows'[t] = 0
      BY <1>1, <1>2, <2>1, <2>3, <2>6, <3>1
    <3>4. \A t \in 1 .. MaxTrades : t >= chart'.next => rows'[t] = 0
      BY <1>1, <2>1, <2>3, <2>6, <3>2
    <3>5. chart'.next <= traded' + 1
      BY <1>1, <1>2, <2>1, <2>6
    <3> QED
      BY <3>3, <3>4, <3>5 DEF RowsBehind
  <2>8. TradeOnce'
    BY <1>1, <2>1, <2>3 DEF TradeOnce, TInv
  <2> QED
    BY <2>5, <2>7, <2>8 DEF TInv
<1>5. CASE \/ ~chart.eoh /\ rows' = (IF Live THEN Rowed(chart.hist) ELSE rows)
                         /\ chart' = [chart EXCEPT !.hist = 0]
           \/ rows' = rows /\ chart' = [chart EXCEPT !.eoh = TRUE, !.hist = 0]
  <2>1. rows' = rows
    BY <1>5 DEF Live
  <2>2. \/ chart' = [hist |-> 0, eoh |-> chart.eoh, next |-> chart.next]
        \/ chart' = [hist |-> 0, eoh |-> TRUE, next |-> chart.next]
    BY <1>1, <1>5
  <2>3. chart'.next = chart.next
        /\ chart' \in [hist : 0 .. MaxTrades, eoh : BOOLEAN, next : 1 .. MaxTrades + 1]
    <3>1. 0 \in 0 .. MaxTrades /\ chart.eoh \in BOOLEAN
      BY <1>1
    <3>2. CASE chart' = [hist |-> 0, eoh |-> chart.eoh, next |-> chart.next]
      BY <1>1, <3>1, <3>2
    <3>3. CASE chart' = [hist |-> 0, eoh |-> TRUE, next |-> chart.next]
      BY <1>1, <3>1, <3>3
    <3> QED
      BY <2>2, <3>2, <3>3
  <2> QED
    BY <1>3, <2>1, <2>3
<1> QED
  BY <1>4, <1>5 DEF Delivers

LEMMA TInvNext == TInv /\ [Next]_vars => TInv'
<1> USE FeedAssumption DEF FeedAssumption
<1> SUFFICES ASSUME TInv, [Next]_vars, CInv' PROVE TInv'
  BY CInvNext DEF TInv
<1>1. CASE UNCHANGED <<traded, rows, chart>> /\ (conn' # "up" \/ conn = "up")
  BY <1>1 DEF TInv, TapeTyped, RowsBehind, TradeOnce
<1>2. CASE Delivers
  BY <1>2, TInvDelivers
<1>3. CASE UNCHANGED <<traded, rows>> /\ chart' = NoChart /\ conn' # "up"
  BY <1>3 DEF TInv, TapeTyped, RowsBehind, TradeOnce, NoChart
<1>4. CASE /\ UNCHANGED <<traded, rows>>
           /\ chart' = [hist |-> traded, eoh |-> FALSE, next |-> traded + 1] /\ conn' = "up"
  BY <1>4 DEF TInv, TapeTyped, RowsBehind, TradeOnce
<1>5. CASE Trades
  BY <1>5 DEF TInv, TapeTyped, RowsBehind, TradeOnce, Trades, line
<1>6. CASE Subscribes
  <2>1. conn' # "up" \/ chart' = [hist |-> traded, eoh |-> FALSE, next |-> traded + 1]
    BY <1>6 DEF Subscribes, Refuses, Ends, Retries
  <2> QED
    BY <1>1, <1>4, <1>6, <2>1 DEF Subscribes
<1>7. CASE Starts \/ Dies \/ GivesUp \/ Drops
  BY <1>3, <1>7 DEF Starts, Dies, GivesUp, Drops, Fresh, Ends, Retries
<1>8. ASSUME NEW who, NEW out, NEW exp, Comes(who, out, exp),
             who \in Callers
      PROVE  conn' # "up" \/ conn' = conn
  BY <1>8 DEF Comes, Callers, Ends, Retries, line
<1>9. CASE Asks
  <2>1. tape' = tape /\ (conn' # "up" \/ conn' = conn)
    BY <1>8, <1>9 DEF Asks, Callers, line
  <2> QED
    BY <1>1, <2>1 DEF tape
<1>10. CASE Saved \/ NotSaved \/ Unsaved
  <2>1. tape' = tape
    BY <1>10 DEF Saved, NotSaved, Unsaved
  <2>2. req["session"].pc # "idle" => caller \in Callers
    BY DEF TInv, CInv, CallerAsks
  <2>3. conn' # "up" \/ conn' = conn
    <3>1. CASE Saved \/ Unsaved
      BY <1>8, <2>2, <3>1 DEF Saved, Unsaved, RefreshSaves, RefreshCrashes, WriteFails
    <3>2. CASE NotSaved
      BY <1>8, <2>2, <3>2 DEF NotSaved, Callers
    <3> QED
      BY <1>10, <3>1, <3>2
  <2> QED
    BY <1>1, <2>1, <2>3 DEF tape
<1>11. CASE StillFresh \/ Awakes \/ Dom
  BY <1>1, <1>11 DEF StillFresh, Awakes, Dom, tape
<1>12. CASE Connects
  <2>1. tape' = tape /\ conn' # "up"
    BY <1>12 DEF Connects, Refuses, Ends, Retries
  <2> QED
    BY <1>1, <2>1 DEF tape
<1>13. CASE TokenSteps \/ Tick \/ Over \/ UNCHANGED vars
  BY <1>1, <1>13 DEF TokenSteps, Tick, Over, vars, feedVars, tape, line
<1> QED
  BY <1>2, <1>5, <1>6, <1>7, <1>9, <1>10, <1>11, <1>12, <1>13 DEF Next, Session

\* tradovate.TickDecoder: "Everything before the end-of-history marker (`eoh`) is
\* history and ignored", and ticks are "deduped by id".  It can only hold trades
\* older than next, and without the gate one of them would get its second row.
THEOREM CountedOnce == Spec => []TradeOnce
<1>1. Spec => []TInv
  BY TInvInit, TInvNext, PTL DEF Spec
<1> QED
  BY <1>1, PTL DEF TInv

-----------------------------------------------------------------------------
(* The types of all variables.  The bounds of time carry through every expiry, *)
(* wait and wake-up.                                                           *)

Exps == None .. HORIZON + LIFE
Reqs == [pc : {"idle", "sent", "answered", "rejected"}, src : {"env", "store"}, exp : Exps]
Stores == [exp : Exps, renewed : BOOLEAN]
Seeds == [exp : Exps, at : 0 .. HORIZON, newer : BOOLEAN]

TimesTyped ==
  /\ now \in 0 .. HORIZON /\ store \in Stores /\ seed \in Seeds /\ req \in [Renewers -> Reqs]
  /\ lock \in {"free"} \cup Renewers

FlagsTyped ==
  /\ failing \in BOOLEAN /\ ticked \in BOOLEAN /\ forced \in BOOLEAN /\ tried \in BOOLEAN
  /\ lost \in BOOLEAN /\ pastes \in 0 .. MaxPastes /\ faults \in 0 .. MaxFaults

LEMMA TokenTypeIs == TokenTypeOK <=> TimesTyped /\ FlagsTyped
  BY DEF TokenTypeOK, TimesTyped, FlagsTyped, Stores, Seeds, Reqs, Exps

LEMMA NewIsExp == TimesTyped => New \in Exps /\ New \in Nat /\ None \in Exps /\ NoReq \in Reqs
<1> SUFFICES ASSUME TimesTyped PROVE New \in Exps /\ New \in Nat /\ None \in Exps /\ NoReq \in Reqs
  OBVIOUS
<1>1. New \in Exps /\ New \in Nat /\ None \in Exps
  BY DEF TimesTyped, New, Exps, None
<1> QED
  BY <1>1 DEF NoReq, Reqs

LEMMA TimesTypedInit == Init => TimesTyped
<1> SUFFICES ASSUME Init PROVE TimesTyped
  OBVIOUS
<1> PICK e \in {None, LIFE} : store = [exp |-> e, renewed |-> FALSE]
  BY DEF Init, TokenInit
<1>1. e \in Exps /\ None \in Exps /\ 0 \in 0 .. HORIZON
  BY DEF None, Exps
<1>2. now = 0 /\ lock = "free" /\ req = [r \in Renewers |-> NoReq]
      /\ seed = [exp |-> None, at |-> 0, newer |-> FALSE]
  BY DEF Init, TokenInit
<1>3. NoReq \in Reqs
  BY <1>1 DEF NoReq, Reqs
<1>4. store \in Stores /\ seed \in Seeds
  BY <1>1, <1>2 DEF Stores, Seeds
<1> QED
  BY <1>1, <1>2, <1>3, <1>4 DEF TimesTyped

LEMMA TimesSends ==
  ASSUME NEW r \in Renewers, NEW src \in {"env", "store"}, TimesTyped, Sends(r, src),
         UNCHANGED <<now, store, seed>>
  PROVE  TimesTyped'
<1> DEFINE e == IF src = "env" THEN seed.exp ELSE store.exp
           q == [pc |-> "sent", src |-> src, exp |-> e]
<1>1. e \in Exps
  BY DEF TimesTyped, Stores, Seeds
<1>2. q \in Reqs
  BY <1>1 DEF Reqs
<1>3. req' = [req EXCEPT ![r] = q] /\ lock' = r
  BY DEF Sends
<1> HIDE DEF q
<1> QED
  BY <1>2, <1>3 DEF TimesTyped

LEMMA TimesReleases ==
  ASSUME NEW r \in Renewers, TimesTyped, req' = [req EXCEPT ![r] = NoReq],
         lock' \in {"free", lock}, UNCHANGED <<now, store, seed>>
  PROVE  TimesTyped'
  BY NewIsExp DEF TimesTyped

LEMMA TimesSaves ==
  ASSUME NEW r \in Renewers, TimesTyped, Writes(New), lock' = "free",
         req' = [req EXCEPT ![r] = NoReq], UNCHANGED now
  PROVE  TimesTyped'
<1>1. store \in Stores /\ seed \in Seeds /\ req \in [Renewers -> Reqs] /\ now \in 0 .. HORIZON
  BY DEF TimesTyped
<1>2. New \in Exps /\ NoReq \in Reqs
  BY NewIsExp
<1>3. store' \in Stores /\ seed' \in Seeds
  <2>1. CASE UNCHANGED <<store, seed>>
    BY <1>1, <2>1
  <2>2. CASE store' = [exp |-> New, renewed |-> FALSE] /\ seed' = [seed EXCEPT !.newer = FALSE]
    BY <1>1, <1>2, <2>2 DEF Stores, Seeds
  <2> QED
    BY <2>1, <2>2 DEF Writes
<1> QED
  BY <1>1, <1>2, <1>3 DEF TimesTyped

LEMMA TimesAnswers == ASSUME NEW r \in Renewers, TimesTyped, Answers(r) PROVE TimesTyped'
<1>1. store \in Stores /\ req \in [Renewers -> Reqs]
  BY DEF TimesTyped
<1>2. store' \in Stores
  BY <1>1 DEF Answers, Stores
<1>3. req' \in [Renewers -> Reqs]
  <2>1. req' = [req EXCEPT ![r].pc = "answered"] \/ req' = [req EXCEPT ![r].pc = "rejected"]
    BY DEF Answers
  <2>2. req[r] \in Reqs
    BY <1>1
  <2>3. [req[r] EXCEPT !.pc = "answered"] \in Reqs /\ [req[r] EXCEPT !.pc = "rejected"] \in Reqs
    BY <2>2 DEF Reqs
  <2>4. \/ req' = [req EXCEPT ![r] = [req[r] EXCEPT !.pc = "answered"]]
        \/ req' = [req EXCEPT ![r] = [req[r] EXCEPT !.pc = "rejected"]]
    BY <1>1, <2>1
  <2> QED
    BY <1>1, <2>3, <2>4
<1> QED
  BY <1>2, <1>3 DEF TimesTyped, Answers

LEMMA TimesPastes == ASSUME TimesTyped, Pastes PROVE TimesTyped'
<1>1. seed \in Seeds /\ now \in 0 .. HORIZON /\ New \in Exps
  BY NewIsExp DEF TimesTyped
<1>2. \/ seed' = [exp |-> New, at |-> now, newer |-> TRUE]
      \/ seed' = [seed EXCEPT !.at = now, !.newer = TRUE]
  BY DEF Pastes
<1>3. seed' \in Seeds
  <2>1. CASE seed' = [exp |-> New, at |-> now, newer |-> TRUE]
    BY <1>1, <2>1 DEF Seeds
  <2>2. CASE seed' = [seed EXCEPT !.at = now, !.newer = TRUE]
    <3>1. seed' = [exp |-> seed.exp, at |-> now, newer |-> TRUE] /\ seed.exp \in Exps
      BY <1>1, <2>2 DEF Seeds
    <3> QED
      BY <1>1, <3>1 DEF Seeds
  <2> QED
    BY <1>2, <2>1, <2>2
<1> QED
  BY <1>3 DEF TimesTyped, Pastes

LEMMA TimesKeepalive == ASSUME TimesTyped, Keepalive PROVE TimesTyped'
<1>1. ASSUME FromStore, UNCHANGED <<now, store, seed>> PROVE TimesTyped'
  BY <1>1, TimesSends, TimesReleases DEF FromStore, TickEnds
<1>2. CASE KeepaliveTicks
  BY <1>1, <1>2, TimesSends DEF KeepaliveTicks
<1>3. CASE KeepaliveSaves
  BY <1>3, TimesSaves DEF KeepaliveSaves, TickEnds
<1>4. CASE KeepaliveFails
  BY <1>1, <1>4, TimesReleases DEF KeepaliveFails, TickEnds
<1>5. CASE KeepaliveCrashes
  BY <1>5, TimesReleases DEF KeepaliveCrashes, TickEnds
<1>6. CASE KeepaliveBusy
  BY <1>6 DEF KeepaliveBusy, TimesTyped
<1>7. CASE KeepaliveDies
  BY <1>7, TimesReleases DEF KeepaliveDies
<1> QED
  BY <1>2, <1>3, <1>4, <1>5, <1>6, <1>7 DEF Keepalive

LEMMA TimesSession == ASSUME TimesTyped, Session PROVE TimesTyped'
<1>1. CASE RefreshSends
  BY <1>1, TimesSends DEF RefreshSends
<1>2. CASE RefreshSaves
  BY <1>2, TimesSaves DEF RefreshSaves, Releases
<1>3. CASE Releases("session") /\ UNCHANGED <<now, store, seed>>
  BY <1>3, TimesReleases DEF Releases
<1>4. CASE LeavesRequest
  BY <1>4, TimesReleases DEF LeavesRequest
<1>5. CASE UNCHANGED <<now, store, seed, req, lock>>
  BY <1>5 DEF TimesTyped
<1>6. \/ RefreshSends \/ RefreshSaves \/ RefreshFails \/ RefreshCrashes \/ LeavesRequest
      \/ UNCHANGED <<now, store, seed, req, lock>>
  BY DEF Session, Starts, Asks, Saved, NotSaved, Unsaved, StillFresh, Awakes, Connects, Subscribes,
         Drops, Dom, Delivers, Dies, GivesUp, tokenVars, files
<1>7. RefreshFails \/ RefreshCrashes =>
        (Releases("session") /\ UNCHANGED <<now, store, seed>>) \/ UNCHANGED <<now, store, seed, req, lock>>
  BY DEF RefreshFails, RefreshCrashes, files
<1> QED
  BY <1>1, <1>2, <1>3, <1>4, <1>5, <1>6, <1>7

LEMMA TimesNext == TimesTyped /\ [Next]_vars => TimesTyped'
<1> SUFFICES ASSUME TimesTyped, [Next]_vars PROVE TimesTyped'
  OBVIOUS
<1>1. CASE TokenSteps
  BY <1>1, TimesKeepalive, TimesAnswers, TimesPastes DEF TokenSteps
<1>2. CASE Session
  BY <1>2, TimesSession
<1>3. CASE Tick
  BY <1>3 DEF Tick, TimesTyped, files
<1>4. CASE Trades \/ Over \/ UNCHANGED vars
  BY <1>4 DEF TimesTyped, Trades, Over, vars, tokenVars, files
<1> QED
  BY <1>1, <1>2, <1>3, <1>4 DEF Next

\* A fault is counted below its bound, a paste too.
LEMMA FlagsNext == FlagsTyped /\ [Next]_vars => FlagsTyped'
<1> SUFFICES ASSUME FlagsTyped, [Next]_vars PROVE FlagsTyped'
  OBVIOUS
<1>1. Fault => faults' \in 0 .. MaxFaults /\ pastes' = pastes
  BY DEF Fault, FlagsTyped
<1>2. CASE Keepalive
  <2>1. \/ KeepaliveTicks \/ KeepaliveSaves \/ KeepaliveFails \/ KeepaliveCrashes \/ KeepaliveBusy
        \/ KeepaliveDies
    BY <1>2 DEF Keepalive
  <2>2. CASE KeepaliveTicks
    BY <2>2 DEF KeepaliveTicks, FromStore, TickEnds, FlagsTyped, bounds
  <2>3. CASE KeepaliveSaves
    BY <2>3 DEF KeepaliveSaves, TickEnds, FlagsTyped, bounds
  <2>4. CASE KeepaliveFails
    BY <1>1, <2>4 DEF KeepaliveFails, FromStore, TickEnds, Fails, FlagsTyped, bounds
  <2>5. CASE KeepaliveCrashes
    BY <1>1, <2>5 DEF KeepaliveCrashes, TickEnds, WriteFails, FlagsTyped
  <2>6. CASE KeepaliveBusy
    BY <1>1, <2>6 DEF KeepaliveBusy, FlagsTyped
  <2>7. CASE KeepaliveDies
    BY <1>1, <2>7 DEF KeepaliveDies, FlagsTyped
  <2> QED
    BY <2>1, <2>2, <2>3, <2>4, <2>5, <2>6, <2>7
<1>3. ASSUME NEW r \in Renewers, Answers(r) PROVE FlagsTyped'
  BY <1>3 DEF Answers, FlagsTyped, keepalive, bounds
<1>4. CASE Pastes
  <2>1. /\ pastes < MaxPastes /\ pastes' = pastes + 1 /\ tried' = FALSE
        /\ UNCHANGED <<faults, failing, ticked, forced, lost>>
    BY <1>4 DEF Pastes
  <2>2. pastes' \in 0 .. MaxPastes /\ faults' \in 0 .. MaxFaults
    BY <2>1 DEF FlagsTyped
  <2>3. failing' \in BOOLEAN /\ ticked' \in BOOLEAN /\ forced' \in BOOLEAN /\ tried' \in BOOLEAN
        /\ lost' \in BOOLEAN
    BY <2>1, Zenon DEF FlagsTyped
  <2> QED
    BY <2>2, <2>3 DEF FlagsTyped
<1>5. CASE Session
  <2>1. UNCHANGED keepalive
    BY <1>5 DEF Session, Starts, Asks, Saved, NotSaved, Unsaved, StillFresh, Awakes, Connects,
         Subscribes, Drops, Dom, Delivers, Dies, GivesUp, LeavesRequest, RefreshSends, RefreshSaves, RefreshFails,
         RefreshCrashes, tokenVars
  <2>2. UNCHANGED bounds \/ Fault
    BY <1>5 DEF Session, Starts, Asks, Saved, NotSaved, Unsaved, StillFresh, Awakes, Connects,
         Subscribes, Drops, Dom, Delivers, Dies, GivesUp, LeavesRequest, RefreshSends, RefreshSaves, RefreshFails,
         RefreshCrashes, Fails, WriteFails, tokenVars
  <2>3. failing' \in {failing, TRUE, FALSE}
    BY <1>5 DEF Session, Starts, Asks, Saved, NotSaved, Unsaved, StillFresh, Awakes, Connects,
         Subscribes, Drops, Dom, Delivers, Dies, GivesUp, LeavesRequest, RefreshSends, RefreshSaves, RefreshFails,
         RefreshCrashes, tokenVars, files
  <2>4. lost' \in {lost, TRUE, (lost \/ req["session"].pc = "answered")}
    BY <1>5 DEF Session, Starts, Asks, Saved, NotSaved, Unsaved, StillFresh, Awakes, Connects,
         Subscribes, Drops, Dom, Delivers, Dies, GivesUp, LeavesRequest, RefreshSends, RefreshSaves, RefreshFails,
         RefreshCrashes, Fails, WriteFails, tokenVars
  <2> QED
    BY <1>1, <2>1, <2>2, <2>3, <2>4 DEF FlagsTyped, keepalive, bounds
<1>5a. CASE Tick
  BY <1>5a DEF Tick, FlagsTyped, files, bounds
<1>6. CASE Trades \/ Over \/ UNCHANGED vars
  BY <1>6 DEF FlagsTyped, Trades, Over, vars, tokenVars, files, keepalive, bounds
<1> QED
  BY <1>2, <1>3, <1>4, <1>5, <1>5a, <1>6 DEF Next, TokenSteps

LEMMA FlagsInit == Init => FlagsTyped
<1> SUFFICES ASSUME Init PROVE FlagsTyped
  OBVIOUS
<1>1. failing \in BOOLEAN /\ ticked \in BOOLEAN /\ forced \in BOOLEAN /\ tried \in BOOLEAN
      /\ lost \in BOOLEAN
  BY Zenon DEF Init, TokenInit
<1>2. pastes \in 0 .. MaxPastes /\ faults \in 0 .. MaxFaults
  BY DEF Init, TokenInit
<1> QED
  BY <1>1, <1>2 DEF FlagsTyped

Conns == {"off", "login", "auth", "connect", "subscribe", "up", "wait", "dead"}
Later == HORIZON + LIFE + RENEW_RETRY_MAX_S

AuthTyped ==
  /\ access \in [until : Exps, exp : 0 .. Later]
  /\ loop \in None .. Later /\ fails \in 0 .. RENEW_RETRY_MAX_S

LineTyped ==
  /\ conn \in Conns
  /\ wake \in 0 .. HORIZON + BACKOFF_MAX_S /\ delay \in BACKOFF_S .. BACKOFF_MAX_S
  /\ firstData \in None .. HORIZON
  /\ refused \in [n : Nat, since : None .. HORIZON] /\ doms \in BOOLEAN

LEMMA TypeIs == TimesTyped /\ FlagsTyped /\ AuthTyped /\ LineTyped /\ TInv => TypeOK
  BY TokenTypeIs DEF TypeOK, AuthTyped, LineTyped, TInv, TapeTyped, CInv, CallerAsks, Callers, Conns,
                     Later, Exps

LEMMA FreshTyped ==
  ASSUME Fresh, conn' \in Conns PROVE AuthTyped' /\ LineTyped'
<1> USE FeedAssumption DEF FeedAssumption, None
<1>1. access' \in [until : Exps, exp : 0 .. Later]
  BY DEF Fresh, NoAccess, Exps, Later
<1>2. refused' \in [n : Nat, since : None .. HORIZON]
  BY DEF Fresh, NoRefusal
<1>3. /\ loop' \in None .. Later /\ fails' \in 0 .. RENEW_RETRY_MAX_S
      /\ wake' \in 0 .. HORIZON + BACKOFF_MAX_S /\ delay' \in BACKOFF_S .. BACKOFF_MAX_S
      /\ firstData' \in None .. HORIZON
  BY DEF Fresh, Later
<1>4. doms' \in BOOLEAN
  BY DEF Fresh
<1> QED
  BY <1>1, <1>2, <1>3, <1>4 DEF AuthTyped, LineTyped

\* The wait of the supervisor and the next one stay within the backoff's bounds.
LEMMA RetriesTyped ==
  ASSUME LineTyped, now \in 0 .. HORIZON, Retries
  PROVE  /\ conn' \in Conns /\ wake' \in 0 .. HORIZON + BACKOFF_MAX_S
         /\ delay' \in BACKOFF_S .. BACKOFF_MAX_S
  BY FeedAssumption DEF LineTyped, Retries, Doubled, Lesser, FeedAssumption, Conns

LEMMA EndsTyped == ASSUME LineTyped, now \in 0 .. HORIZON, Ends PROVE LineTyped'
<1>1. NoRefusal \in [n : Nat, since : None .. HORIZON]
  BY DEF NoRefusal, None
<1> QED
  BY <1>1, RetriesTyped DEF Ends, LineTyped, Forgiven

LEMMA RefusesTyped == ASSUME LineTyped, now \in 0 .. HORIZON, Refuses PROVE LineTyped'
<1>1. Refusal \in [n : Nat, since : None .. HORIZON] /\ NoRefusal \in [n : Nat, since : None .. HORIZON]
  BY DEF LineTyped, NoRefusal, Refusal, None
<1>2. Retries /\ refused' \in {NoRefusal, Refusal} /\ UNCHANGED <<firstData, doms>>
  BY DEF Refuses
<1> QED
  BY <1>1, <1>2, RetriesTyped DEF LineTyped, Conns

\* The waits of the renew loop double.  The provers know nothing of exponentiation,
\* but a set of k numbers has 2 ^ k subsets.
LEMMA Powers == ASSUME NEW k \in Nat PROVE 2 ^ k \in Nat
<1>1. IsFiniteSet(1 .. k) /\ Cardinality(1 .. k) = k
  <2>1. IsFiniteSet(1 .. k) /\ Cardinality(1 .. k) = IF 1 > k THEN 0 ELSE k - 1 + 1
    BY FS_Interval
  <2> QED
    BY <2>1
<1>2. IsFiniteSet(SUBSET (1 .. k)) /\ Cardinality(SUBSET (1 .. k)) = 2 ^ Cardinality(1 .. k)
  BY <1>1, FS_SUBSET
<1>3. Cardinality(SUBSET (1 .. k)) \in Nat
  BY <1>2, FS_CardinalityType
<1> QED
  BY <1>1, <1>2, <1>3

LEMMA BackoffTyped ==
  ASSUME NEW n \in Nat \ {0} PROVE Backoff(n) \in 0 .. RENEW_RETRY_MAX_S
<1> DEFINE p == 2 ^ (n - 1)
<1>1. p \in Nat
  <2>1. n - 1 \in Nat
    OBVIOUS
  <2> QED
    BY <2>1, Powers
<1> HIDE DEF p
<1>2. Lesser(p, RENEW_RETRY_MAX_S) \in 0 .. RENEW_RETRY_MAX_S
  BY <1>1, FeedAssumption DEF Lesser, FeedAssumption
<1> QED
  BY <1>2 DEF Backoff, p

LEMMA LoopInTyped ==
  ASSUME NEW e \in -1 .. Later, now \in 0 .. HORIZON PROVE LoopIn(e) \in 0 .. Later
  BY FeedAssumption DEF LoopIn, Greater, Later, FeedAssumption

\* What a refresh comes to, for a token that has an expiry.
LEMMA ComesTyped ==
  ASSUME AuthTyped, LineTyped, now \in 0 .. HORIZON,
         NEW who \in Callers, NEW out, NEW exp,
         out \in {"fresh", "unsaved"} => exp \in 0 .. HORIZON + LIFE,
         Comes(who, out, exp)
  PROVE  AuthTyped' /\ LineTyped'
<1> USE FeedAssumption DEF FeedAssumption
<1> DEFINE held == IF out \in {"fresh", "unsaved"} THEN Bearing(exp) ELSE access
           pause == Backoff(fails + 1)
<1>1. /\ access \in [until : Exps, exp : 0 .. Later] /\ loop \in None .. Later
      /\ fails \in 0 .. RENEW_RETRY_MAX_S
  BY DEF AuthTyped
<1>2. held \in [until : Exps, exp : 0 .. Later]
  <2>1. exp \in 0 .. HORIZON + LIFE => Bearing(exp) \in [until : Exps, exp : 0 .. Later]
    BY DEF Bearing, Exps, Later, None
  <2> QED
    BY <1>1, <2>1
<1>3. held.exp \in 0 .. Later /\ held.until \in Exps
  BY <1>2
<1>4. LoopIn(held.exp) \in 0 .. Later
  BY <1>3, LoopInTyped DEF Later
<1>5. pause \in 0 .. RENEW_RETRY_MAX_S
  BY <1>1, BackoffTyped
<1>6. out = "fresh" => LoopIn(exp) \in 0 .. Later
  BY LoopInTyped DEF Later
<1>7. Lesser(fails + 1, RENEW_RETRY_MAX_S) \in 0 .. RENEW_RETRY_MAX_S
  BY <1>1 DEF Lesser
<1>a. 0 .. Later \subseteq None .. Later /\ 0 \in 0 .. RENEW_RETRY_MAX_S
  BY DEF Later, None
<1>8. CASE who = "login"
  <2>1. /\ access' = held
        /\ \/ conn' = "auth" /\ loop' = LoopIn(held.exp)
           \/ conn' = "dead" /\ loop' = loop
        /\ UNCHANGED <<fails, wake, delay, firstData, refused, doms>>
    BY <1>8 DEF Comes
  <2> HIDE DEF held
  <2> QED
    BY <1>1, <1>2, <1>4, <1>a, <2>1 DEF AuthTyped, LineTyped, Conns
<1>9. CASE who = "session"
  <2>1. /\ access' = held /\ UNCHANGED <<loop, fails>>
        /\ \/ conn' = "connect" /\ UNCHANGED <<wake, delay, firstData, refused, doms>>
           \/ Ends
    BY <1>9 DEF Comes
  <2> HIDE DEF held
  <2>2. AuthTyped'
    BY <1>1, <1>2, <2>1 DEF AuthTyped
  <2>3. LineTyped'
    BY <2>1, EndsTyped DEF LineTyped, Conns
  <2> QED
    BY <2>2, <2>3
<1>10. CASE who = "loop"
  <2>1. /\ UNCHANGED line
        /\ \/ out = "fresh" /\ access' = held /\ fails' = 0 /\ loop' = LoopIn(exp)
           \/ /\ access' = [until |-> held.until, exp |-> now + RENEW_MARGIN_S + pause]
              /\ fails' = Lesser(fails + 1, RENEW_RETRY_MAX_S) /\ loop' = now + pause
    BY <1>10 DEF Comes
  <2> HIDE DEF held, pause
  <2>2. now + RENEW_MARGIN_S + pause \in 0 .. Later /\ now + pause \in 0 .. Later
    BY <1>5 DEF Later
  <2>3. access' \in [until : Exps, exp : 0 .. Later]
    BY <1>2, <1>3, <2>1, <2>2
  <2>4. AuthTyped'
    BY <1>6, <1>7, <1>a, <2>1, <2>2, <2>3 DEF AuthTyped
  <2>5. LineTyped'
    BY <2>1 DEF LineTyped, line
  <2> QED
    BY <2>4, <2>5
<1> QED
  BY <1>8, <1>9, <1>10 DEF Callers

FInv == TimesTyped /\ FlagsTyped /\ AuthTyped /\ LineTyped /\ TInv

LEMMA FInvSession ==
  ASSUME FInv, Session PROVE AuthTyped' /\ LineTyped'
<1> USE FeedAssumption DEF FeedAssumption
<1>1. /\ now \in 0 .. HORIZON /\ store \in Stores /\ New \in 0 .. HORIZON + LIFE
      /\ AuthTyped /\ LineTyped
  BY NewIsExp DEF FInv, TimesTyped, New
<1>2. store.exp \in Exps
  BY <1>1 DEF Stores
<1>3. req["session"].pc # "idle" => caller \in Callers
  BY DEF FInv, TInv, CInv, CallerAsks
<1>4. CASE Starts \/ Dies \/ GivesUp
  BY <1>4, FreshTyped DEF Starts, Dies, GivesUp, Conns
<1>5. CASE Asks
  <2>1. PICK who \in Callers :
          \/ Adopts /\ Comes(who, "fresh", store.exp)
          \/ Comes(who, "expired", None)
          \/ UNCHANGED <<access, loop, fails, line>>
    BY <1>5 DEF Asks, Callers
  <2>2. Adopts => store.exp \in 0 .. HORIZON + LIFE
    BY <1>1, <1>2 DEF Adopts, Dead, Margin, Exps
  <2>3. CASE Adopts /\ Comes(who, "fresh", store.exp)
    BY <1>1, <2>2, <2>3, ComesTyped
  <2>4. CASE Comes(who, "expired", None)
    BY <1>1, <2>4, ComesTyped
  <2>5. CASE UNCHANGED <<access, loop, fails, line>>
    BY <1>1, <2>5 DEF AuthTyped, LineTyped, line
  <2> QED
    BY <2>1, <2>3, <2>4, <2>5
<1>6. CASE Saved
  <2>1. store'.exp \in 0 .. HORIZON + LIFE
    <3>1. CASE UNCHANGED store /\ store.exp > New
      BY <1>1, <1>2, <3>1 DEF Exps
    <3>2. CASE store' = [exp |-> New, renewed |-> FALSE]
      BY <1>1, <3>2
    <3> QED
      BY <1>6, <3>1, <3>2 DEF Saved, RefreshSaves, Writes
  <2>2. caller \in Callers /\ Comes(caller, "fresh", store'.exp)
    BY <1>3, <1>6 DEF Saved, RefreshSaves
  <2> QED
    BY <1>1, <2>1, <2>2, ComesTyped
<1>7. CASE NotSaved
  <2>1. PICK who \in Callers : Comes(who, "error", None)
    BY <1>3, <1>7 DEF NotSaved, Callers
  <2> QED
    BY <1>1, <2>1, ComesTyped
<1>8. CASE Unsaved
  <2>1. caller \in Callers /\ Comes(caller, "unsaved", New)
    BY <1>3, <1>8 DEF Unsaved, RefreshCrashes, WriteFails
  <2> QED
    BY <1>1, <2>1, ComesTyped
<1>9. CASE UNCHANGED auth /\ LineTyped'
  BY <1>1, <1>9 DEF auth, AuthTyped
<1>10. CASE StillFresh \/ Awakes
  BY <1>1, <1>9, <1>10 DEF StillFresh, Awakes, LineTyped, Conns, auth
<1>11. CASE Connects
  <2>1. \/ conn' = "subscribe" /\ firstData' = None /\ UNCHANGED <<wake, delay, refused, doms>>
        \/ Refuses \/ Ends
    BY <1>11 DEF Connects
  <2>2. LineTyped'
    BY <1>1, <2>1, RefusesTyped, EndsTyped DEF LineTyped, Conns, None
  <2> QED
    BY <1>9, <1>11, <2>2 DEF Connects
<1>12. CASE Subscribes
  <2>1. \/ conn' = "up" /\ UNCHANGED <<wake, delay, firstData, refused, doms>>
        \/ Refuses \/ Ends
    BY <1>12 DEF Subscribes
  <2>2. LineTyped'
    BY <1>1, <2>1, RefusesTyped, EndsTyped DEF LineTyped, Conns
  <2> QED
    BY <1>9, <1>12, <2>2 DEF Subscribes
<1>13. CASE Drops
  BY <1>1, <1>9, <1>13, EndsTyped DEF Drops
<1>14. CASE Dom
  <2>1. LineTyped'
    BY <1>1, <1>14 DEF Dom, LineTyped, None
  <2> QED
    BY <1>9, <1>14, <2>1 DEF Dom
<1>15. CASE Delivers
  BY <1>1, <1>15 DEF Delivers, AuthTyped, LineTyped, auth, line
<1> QED
  BY <1>4, <1>5, <1>6, <1>7, <1>8, <1>10, <1>11, <1>12, <1>13, <1>14, <1>15 DEF Session

\* Every variable keeps its type, and every time its bound.
THEOREM TypeCorrect == Spec => []TypeOK
<1>1. Init => FInv
  <2> SUFFICES ASSUME Init PROVE FInv
    OBVIOUS
  <2>1. conn = "off" /\ caller = "none" /\ access = NoAccess /\ loop = None /\ fails = 0
        /\ wake = 0 /\ delay = BACKOFF_S /\ firstData = None /\ refused = NoRefusal /\ doms = FALSE
    BY DEF Init
  <2>2. NoAccess \in [until : Exps, exp : 0 .. Later]
        /\ NoRefusal \in [n : Nat, since : None .. HORIZON]
    BY FeedAssumption DEF NoAccess, NoRefusal, Exps, Later, None, FeedAssumption
  <2>3. /\ loop \in None .. Later /\ fails \in 0 .. RENEW_RETRY_MAX_S
        /\ wake \in 0 .. HORIZON + BACKOFF_MAX_S /\ delay \in BACKOFF_S .. BACKOFF_MAX_S
        /\ firstData \in None .. HORIZON
    BY <2>1, FeedAssumption DEF Later, None, FeedAssumption
  <2>4. conn \in Conns /\ doms \in BOOLEAN
    BY <2>1 DEF Conns
  <2>5. AuthTyped /\ LineTyped
    BY <2>1, <2>2, <2>3, <2>4 DEF AuthTyped, LineTyped
  <2> QED
    BY <2>5, TimesTypedInit, FlagsInit, TInvInit DEF FInv
<1>2. FInv /\ [Next]_vars => FInv'
  <2> SUFFICES ASSUME FInv, [Next]_vars PROVE AuthTyped' /\ LineTyped'
    BY TimesNext, FlagsNext, TInvNext DEF FInv
  <2>1. CASE Session
    BY <2>1, FInvSession
  <2>2. CASE TokenSteps \/ Trades \/ Tick \/ Over \/ UNCHANGED vars
    <3>1. UNCHANGED <<auth, line>>
      BY <2>2 DEF TokenSteps, Trades, Tick, Over, vars, feedVars
    <3> QED
      BY <3>1 DEF FInv, AuthTyped, LineTyped, auth, line
  <2> QED
    BY <2>1, <2>2 DEF Next
<1>3. Spec => []FInv
  BY <1>1, <1>2, PTL DEF Spec
<1>4. FInv => TypeOK
  BY TypeIs DEF FInv
<1> QED
  BY <1>3, <1>4, PTL
=============================================================================
