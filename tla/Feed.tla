-------------------------------- MODULE Feed --------------------------------
(***************************************************************************)
(* The live session's market data feed (tradovate.TradovateSource) over    *)
(* the token store: the supervisor that keeps one connection, its backoff, *)
(* the renew loop beside it (TradovateAuth), and what of the chart's       *)
(* trades becomes rows (TickDecoder, _on_dom, _on_trade).                  *)
(*                                                                         *)
(* A connection is one host with one token; the second host and the second *)
(* kind of token that _connect tries are left out, and so are frames,      *)
(* prices, sizes and the classification of trades.                         *)
(***************************************************************************)
EXTENDS TokenStore

CONSTANTS BACKOFF_S, BACKOFF_MAX_S,       \* of the supervisor
          RENEW_RETRY_MAX_S,              \* of the renew loop
          HEALTHY_S, MAX_REFUSALS, REFUSAL_WINDOW_S,
          MaxTrades   \* bound: trades of the market

ASSUME FeedAssumption ==
  /\ BACKOFF_S \in Nat \ {0} /\ BACKOFF_MAX_S \in Nat /\ BACKOFF_S <= BACKOFF_MAX_S
  /\ RENEW_RETRY_MAX_S \in Nat \ {0} /\ HEALTHY_S \in Nat
  /\ MAX_REFUSALS \in Nat /\ REFUSAL_WINDOW_S \in Nat /\ MaxTrades \in Nat

VARIABLES
  conn,          \* where the supervisor is
  caller,        \* who of the session refreshes the token
  access,        \* TradovateAuth: the token's expiry, and expires_at
  loop, fails,   \* _renew_loop: when it wakes, its failures
  wake, delay,   \* the end of the wait, the next one
  firstData,     \* _first_data_t
  refused,       \* _refusals, _first_refusal_t
  doms,          \* dom_updates > 0: then there is a book
  chart,         \* the subscription: its history, its decoder, what is delivered
  traded, rows   \* the market's trades; rows of each

auth == <<caller, access, loop, fails>>
line == <<conn, wake, delay, firstData, refused, doms>>
tape == <<chart, traded, rows>>
feedVars == <<auth, line, tape>>
vars == <<tokenVars, feedVars>>

Lesser(a, b)  == IF a < b THEN a ELSE b
Greater(a, b) == IF a > b THEN a ELSE b
NoChart == [hist |-> 0, eoh |-> FALSE, next |-> 1]
NoAccess == [until |-> None, exp |-> 0]

NoRefusal == [n |-> 0, since |-> None]

Init ==
  /\ TokenInit /\ conn = "off"
  /\ caller = "none" /\ access = NoAccess /\ loop = None /\ fails = 0
  /\ wake = 0 /\ delay = BACKOFF_S /\ firstData = None
  /\ refused = NoRefusal /\ doms = FALSE
  /\ chart = NoChart
  /\ traded = 0 /\ rows = [t \in 1 .. MaxTrades |-> 0]

-----------------------------------------------------------------------------
(* The end of an attempt (_supervisor). *)

\* Mutant of Doubled: without its bound.
Unbounded(d) == 2 * d

Doubled(d) == Lesser(2 * d, BACKOFF_MAX_S)

\* The wait before the next one; data for HEALTHY_S resets the backoff.
Healthy == firstData # None /\ now - firstData >= HEALTHY_S

Retries ==
  /\ conn' = "wait"
  /\ LET d == IF Healthy THEN BACKOFF_S ELSE delay
     IN  wake' = now + d /\ delay' = Doubled(d)

Forgiven == IF Healthy THEN NoRefusal ELSE refused

Ends ==
  /\ Retries /\ refused' = Forgiven
  /\ UNCHANGED <<firstData, doms>>

\* MdRefused: tried again, unless it lasts and no data ever came (GivesUp).
Refusal == [n |-> refused.n + 1, since |-> IF refused.since = None THEN now ELSE refused.since]
Lasting == ~doms /\ Refusal.n >= MAX_REFUSALS /\ now - Refusal.since >= REFUSAL_WINDOW_S

Refuses ==
  /\ ~Lasting /\ Retries
  /\ refused' = IF Healthy THEN NoRefusal ELSE Refusal
  /\ UNCHANGED <<firstData, doms>>

-----------------------------------------------------------------------------
(* The session's tokens: login, ensure_fresh and _renew_loop, one at a time
   (TradovateAuth._lock). *)

Fresh ==
  /\ caller' = "none" /\ access' = NoAccess /\ loop' = None /\ fails' = 0
  /\ wake' = 0 /\ delay' = BACKOFF_S /\ firstData' = None
  /\ refused' = NoRefusal /\ doms' = FALSE
  /\ chart' = NoChart

\* A new session, when token_skip_reason lets it start.
Starts ==
  /\ conn \in {"off", "dead"} /\ caller = "none" /\ ~SkipReason /\ Fresh /\ conn' = "login"
  /\ UNCHANGED <<tokenVars, traded, rows>>

\* stop_renew_loop, or the death of the process: a renewal in flight is cut off
\* with its answer, and its lock is let go.
LeavesRequest ==
  /\ req' = [req EXCEPT !["session"] = NoReq]
  /\ lock' = IF lock = "session" THEN "free" ELSE lock
  /\ lost' = (lost \/ req["session"].pc = "answered")
  /\ UNCHANGED <<now, store, seed, failing, keepalive>>

\* The session ends: stopped or done, or with its process.
Dies ==
  /\ conn # "off" /\ (Fault \/ UNCHANGED bounds)
  /\ conn' = "off" /\ Fresh /\ LeavesRequest
  /\ UNCHANGED <<traded, rows>>

\* A refusal that has lasted is fatal.
GivesUp ==
  /\ IF conn = "connect" /\ access.until <= now THEN UNCHANGED bounds
     ELSE conn \in {"connect", "subscribe"} /\ Fault
  /\ Lasting /\ conn' = "dead" /\ Fresh /\ LeavesRequest
  /\ UNCHANGED <<traded, rows>>

\* What _token_refresh comes to, for whom it was called.  "unsaved": it has the
\* token, and raises for the write.
LoopIn(e) == Greater(now + 1, e - RENEW_MARGIN_S)
Backoff(n)  == Lesser(2 ^ (n - 1), RENEW_RETRY_MAX_S)

Bearing(exp) == [until |-> exp, exp |-> exp]

Comes(who, out, exp) ==
  LET held == IF out \in {"fresh", "unsaved"} THEN Bearing(exp) ELSE access
      pause == Backoff(fails + 1)
  IN
  /\ caller' = "none"
  /\ CASE who = "login" ->
            /\ access' = held
            /\ IF out \in {"fresh", "expired"}
               THEN conn' = "auth" /\ loop' = LoopIn(held.exp)
               ELSE conn' = "dead" /\ UNCHANGED loop
            /\ UNCHANGED <<fails, wake, delay, firstData, refused, doms>>
       [] who = "session" ->
            /\ access' = held /\ UNCHANGED <<loop, fails>>
            /\ IF out = "fresh"
               THEN conn' = "connect" /\ UNCHANGED <<wake, delay, firstData, refused, doms>>
               ELSE Ends
       [] who = "loop" ->
            /\ UNCHANGED line
            /\ IF out = "fresh"
               THEN access' = held /\ fails' = 0 /\ loop' = LoopIn(exp)
               ELSE /\ access' = [until |-> held.until, exp |-> now + RENEW_MARGIN_S + pause]
                    /\ fails' = Lesser(fails + 1, RENEW_RETRY_MAX_S) /\ loop' = now + pause

\* ensure_fresh
NeedsRefresh == access.until = None \/ now >= access.exp - RENEW_MARGIN_S

Wants(who) ==
  /\ caller = "none"
  /\ CASE who = "login"   -> conn = "login"
       [] who = "session" -> conn = "auth" /\ NeedsRefresh
       [] who = "loop"    -> conn \notin {"off", "dead"} /\ loop # None /\ loop <= now

Asks == \E who \in {"login", "session", "loop"} :
  /\ Wants(who) /\ Free /\ UNCHANGED tape
  /\ \/ Adopts /\ Comes(who, "fresh", store.exp) /\ UNCHANGED tokenVars
     \/ Expired /\ Comes(who, "expired", None) /\ UNCHANGED tokenVars
     \/ RefreshSends /\ caller' = who /\ UNCHANGED <<access, loop, fails, line>>

\* The write, or the newer store it found.
Saved == /\ RefreshSaves /\ Comes(caller, "fresh", store'.exp) /\ UNCHANGED tape

NotSaved ==
  /\ RefreshFails /\ UNCHANGED tape
  /\ \/ req["session"].pc # "idle" /\ Comes(caller, "error", None)
     \/ req["session"].pc = "idle"
        /\ \E who \in {"login", "session", "loop"} : Wants(who) /\ Comes(who, "error", None)

Unsaved == RefreshCrashes /\ Comes(caller, "unsaved", New) /\ UNCHANGED tape

StillFresh ==
  /\ conn = "auth" /\ caller = "none" /\ ~NeedsRefresh /\ conn' = "connect"
  /\ UNCHANGED <<tokenVars, auth, wake, delay, firstData, refused, doms, tape>>

-----------------------------------------------------------------------------
(* The connection (_session). *)

Awakes ==
  /\ conn = "wait" /\ wake <= now /\ conn' = "auth" /\ wake' = 0
  /\ UNCHANGED <<tokenVars, auth, delay, firstData, refused, doms, tape>>

\* Authorized, and from then on without data; or refused: the token has expired,
\* or there is no entitlement; or the network fails.
Connects ==
  /\ conn = "connect" /\ UNCHANGED <<auth, tape>>
  /\ \/ /\ access.until > now /\ conn' = "subscribe" /\ firstData' = None
        /\ UNCHANGED <<tokenVars, wake, delay, refused, doms>>
     \/ access.until <= now /\ Refuses /\ UNCHANGED <<tokenVars>>
     \/ Fault /\ (Refuses \/ Ends)
        /\ UNCHANGED <<now, files, req, keepalive, lost>>

\* _subscribe: a new decoder; the chart starts with the last trade.
Subscribes ==
  /\ conn = "subscribe" /\ UNCHANGED <<auth, traded, rows>>
  /\ \/ /\ chart' = [hist |-> traded, eoh |-> FALSE, next |-> traded + 1] /\ conn' = "up"
        /\ UNCHANGED <<tokenVars, wake, delay, firstData, refused, doms>>
     \/ Fault /\ (Refuses \/ Ends) /\ UNCHANGED chart
        /\ UNCHANGED <<now, files, req, keepalive, lost>>

\* A close, a shutdown, a heartbeat that fails, IDLE_S without a frame.
Drops ==
  /\ conn = "up" /\ Fault
  /\ chart' = NoChart /\ Ends
  /\ UNCHANGED <<now, files, req, keepalive, lost, auth, traded, rows>>

\* A book.
Dom ==
  /\ conn = "up" /\ firstData = None /\ firstData' = now /\ doms' = TRUE
  /\ UNCHANGED <<tokenVars, auth, conn, wake, delay, refused, tape>>

-----------------------------------------------------------------------------
(* Trades: one of the market, and what the chart delivers.  After the marker
   each trade comes once, or again (dropped by its id). *)

Trades ==
  /\ traded < MaxTrades /\ traded' = traded + 1
  /\ UNCHANGED <<tokenVars, auth, line, chart, rows>>

Rowed(t) == IF doms THEN [rows EXCEPT ![t] = @ + 1] ELSE rows

\* Mutant of Live: the marker is not waited for.
AlwaysLive == TRUE

Live == chart.eoh

Delivers ==
  /\ conn = "up" /\ UNCHANGED <<tokenVars, auth, line, traded>>
  /\ \/ /\ chart.hist > 0                     \* the history
        /\ rows' = (IF Live THEN Rowed(chart.hist) ELSE rows)
        /\ ~chart.eoh /\ chart' = [chart EXCEPT !.hist = 0]
     \/ /\ ~chart.eoh /\ chart' = [chart EXCEPT !.eoh = TRUE, !.hist = 0]   \* the marker
        /\ UNCHANGED rows
     \/ /\ chart.next <= traded               \* a trade, or one ahead of the marker
        /\ rows' = (IF Live THEN Rowed(chart.next) ELSE rows)
        /\ chart' = [chart EXCEPT !.next = @ + 1]

-----------------------------------------------------------------------------
Tick ==
  /\ now < HORIZON /\ now' = now + 1
  /\ ticked /\ \A r \in Renewers : req[r].pc = "idle"
  /\ conn \in {"off", "dead", "up"} \/ (conn = "wait" /\ wake > now)
  /\ conn \in {"off", "dead"} \/ loop = None \/ loop > now
  /\ ticked' = FALSE
  /\ UNCHANGED <<files, req, forced, tried, lost, bounds, feedVars>>

Over == now = HORIZON /\ ticked /\ UNCHANGED vars

TokenSteps ==
  /\ Keepalive \/ (\E r \in Renewers : Answers(r)) \/ Pastes
  /\ UNCHANGED feedVars

Session == Starts \/ Dies \/ GivesUp \/ Asks \/ Saved \/ NotSaved \/ Unsaved \/ StillFresh
           \/ Awakes \/ Connects \/ Subscribes \/ Drops \/ Dom \/ Delivers

Next == TokenSteps \/ Session \/ Trades \/ Tick \/ Over

Spec == Init /\ [][Next]_vars

-----------------------------------------------------------------------------
(* Properties *)

\* Every variable of the feed and of the token store has its type.
TypeOK ==
  /\ TokenTypeOK
  /\ conn \in {"off", "login", "auth", "connect", "subscribe", "up", "wait", "dead"}
  /\ caller \in {"none", "login", "session", "loop"}
  /\ access \in [until : None .. HORIZON + LIFE, exp : 0 .. HORIZON + LIFE + RENEW_RETRY_MAX_S]
  /\ loop \in None .. HORIZON + LIFE + RENEW_RETRY_MAX_S /\ fails \in 0 .. RENEW_RETRY_MAX_S
  /\ wake \in 0 .. HORIZON + BACKOFF_MAX_S /\ delay \in BACKOFF_S .. BACKOFF_MAX_S
  /\ firstData \in None .. HORIZON
  /\ refused \in [n : Nat, since : None .. HORIZON] /\ doms \in BOOLEAN
  /\ chart \in [hist : 0 .. MaxTrades, eoh : BOOLEAN, next : 1 .. MaxTrades + 1]
  /\ traded \in 0 .. MaxTrades /\ rows \in [1 .. MaxTrades -> Nat]

\* However the connection drops and comes back, and whatever history the chart
\* repeats, a trade is counted once.
TradeOnce == \A t \in 1 .. MaxTrades : rows[t] <= 1
=============================================================================
