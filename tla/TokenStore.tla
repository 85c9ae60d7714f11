----------------------------- MODULE TokenStore -----------------------------
(***************************************************************************)
(* The Tradovate token store (tradovate_token.py) and its two renewers:    *)
(* the keep-alive process (tradovate_keepalive.py) and the live session    *)
(* (tradovate.TradovateAuth in token mode, composed in module Feed).       *)
(*                                                                         *)
(* A renewal holds the file lock over its request to Tradovate, and the    *)
(* store is read again under the lock.  The server answers a request in a  *)
(* step of its own, so an answer can be lost after the token was renewed.  *)
(* As tradovate_token.py assumes, a renewed token stays usable until its   *)
(* own expiry.                                                             *)
(*                                                                         *)
(* Time is counted in units of at least RETRY_S: the keep-alive ticks once *)
(* in each.  Redaction, the text of the status file, and accounts in       *)
(* password mode are left out.                                             *)
(***************************************************************************)
EXTENDS Integers

CONSTANTS LIFE,               \* what the server gives a new token
          RENEW_BEFORE_S,     \* the keep-alive renews with less than this left
          RENEW_MARGIN_S,     \* the session does
          TOKEN_LIFETIME_S,   \* the age at which a pasted token is given up
          HORIZON, MaxPastes, MaxFaults   \* bounds

ASSUME TokenAssumption ==
  /\ LIFE \in Nat /\ RENEW_BEFORE_S \in Nat /\ RENEW_MARGIN_S \in Nat
  /\ TOKEN_LIFETIME_S \in Nat /\ HORIZON \in Nat
  /\ MaxPastes \in Nat /\ MaxFaults \in Nat
  /\ 0 < RENEW_MARGIN_S /\ RENEW_MARGIN_S < RENEW_BEFORE_S /\ RENEW_BEFORE_S < LIFE

VARIABLES
  now,
  store,      \* tradovate_token.json: expirationTime, and whether its token was renewed
  seed,       \* .env: the token's expiry, mtime, and whether that is later than the store's
  failing,    \* tradovate_token_status.json: consecutive_failures > 0
  lock,       \* who holds StoreLock
  req,        \* the renewal each process has under way
  ticked,     \* the keep-alive ticked in this unit
  forced,     \* its first tick, not after a recent write
  tried,      \* it has the seed in _tried
  lost,       \* history: an answer with a new token was lost
  pastes, faults

files     == <<store, seed, failing, lock>>
keepalive == <<ticked, forced, tried>>
bounds    == <<pastes, faults>>
tokenVars == <<now, files, req, keepalive, lost, bounds>>

\* A token is known by the time at which it expires.  One of the store is never
\* the one pasted: what is adopted from .env is renewed first.
None == -1
New == now + LIFE
Renewers == {"keepalive", "session"}
NoReq == [pc |-> "idle", src |-> "store", exp |-> None]

\* The keep-alive has no store yet, or a new one.
TokenInit ==
  /\ now = 0
  /\ store \in {[exp |-> e, renewed |-> FALSE] : e \in {None, LIFE}}
  /\ seed = [exp |-> None, at |-> 0, newer |-> FALSE]
  /\ failing = FALSE /\ lock = "free"
  /\ req = [r \in Renewers |-> NoReq]
  /\ ticked = FALSE /\ forced \in BOOLEAN /\ tried = FALSE
  /\ lost = FALSE
  /\ pastes = 0 /\ faults = 0

Fault == faults < MaxFaults /\ faults' = faults + 1 /\ UNCHANGED pastes

-----------------------------------------------------------------------------
(* Which tokens win. *)

\* TokenSet.dead
Dead(margin) == store.exp <= now + margin
HasStore == store.exp # None
Usable == HasStore /\ ~Dead(0)

\* seed_is_fresh
SeedIsFresh ==
  /\ seed.exp # None
  /\ now - seed.at <= TOKEN_LIFETIME_S
  /\ Usable => seed.newer

\* token_skip_reason
SkipReason == ~Usable /\ ~SeedIsFresh

-----------------------------------------------------------------------------
(* The lock and the request, for both processes. *)

\* Mutant of Free: nobody waits for the lock.
NotLocked == TRUE

Free == lock = "free"

Sends(r, src) ==
  /\ lock' = r
  /\ req' = [req EXCEPT ![r] = [pc |-> "sent", src |-> src,
                                 exp |-> IF src = "env" THEN seed.exp ELSE store.exp]]

Releases(r) == lock' = "free" /\ req' = [req EXCEPT ![r] = NoReq]

\* Tradovate answers renewaccesstoken: a new token, or, of one that has expired,
\* an error.
Answers(r) ==
  /\ req[r].pc = "sent"
  /\ IF req[r].exp > now
     THEN /\ req' = [req EXCEPT ![r].pc = "answered"]
          /\ store' = IF req[r].src = "store" THEN [store EXCEPT !.renewed = TRUE] ELSE store
     ELSE req' = [req EXCEPT ![r].pc = "rejected"] /\ UNCHANGED store
  /\ UNCHANGED <<now, seed, failing, lock, keepalive, lost, bounds>>

\* The request fails: rejected, or the network or a 5xx, with which an answer may
\* be lost.
Fails(r) ==
  \/ req[r].pc = "rejected" /\ UNCHANGED <<lost, bounds>>
  \/ req[r].pc = "sent" /\ Fault /\ UNCHANGED lost
  \/ req[r].pc = "answered" /\ Fault /\ lost' = TRUE

\* The answer is there, but the disk is full.
WriteFails(r) == req[r].pc = "answered" /\ Fault /\ lost' = TRUE

\* write_store: never a token that expires before the store's.
Writes(exp) ==
  IF HasStore /\ store.exp > exp THEN UNCHANGED <<store, seed>>
  ELSE store' = [exp |-> exp, renewed |-> FALSE] /\ seed' = [seed EXCEPT !.newer = FALSE]

-----------------------------------------------------------------------------
(* The keep-alive. *)

TickEnds == ticked' = TRUE /\ forced' = FALSE /\ lock' = "free"
            /\ req' = [req EXCEPT !["keepalive"] = NoReq]

\* Mutant of Due: renewed when it is too late.
DueLate == forced \/ failing \/ Dead(0)

Due == forced \/ failing \/ Dead(RENEW_BEFORE_S)

\* _tick_locked from `store is None` on.
FromStore ==
  IF ~Usable THEN failing' = TRUE /\ TickEnds
  ELSE IF Due THEN Sends("keepalive", "store") /\ UNCHANGED <<failing, ticked, forced>>
  ELSE TickEnds /\ UNCHANGED failing

\* _tick_locked up to its request.
KeepaliveTicks ==
  /\ ~ticked /\ req["keepalive"].pc = "idle" /\ Free
  /\ IF SeedIsFresh /\ ~tried
     THEN Sends("keepalive", "env") /\ UNCHANGED <<failing, ticked, forced>>
     ELSE FromStore
  /\ UNCHANGED <<now, store, seed, tried, lost, bounds>>

\* _persist, record_ok.
KeepaliveSaves ==
  /\ req["keepalive"].pc = "answered"
  /\ Writes(New) /\ failing' = FALSE /\ TickEnds
  /\ UNCHANGED <<now, tried, lost, bounds>>

\* Only a rejection blacklists a seed; a failed seed matters when the store is
\* dead too.
KeepaliveFails ==
  /\ Fails("keepalive")
  /\ IF req["keepalive"].src = "env"
     THEN /\ tried' = (tried \/ req["keepalive"].pc = "rejected")
          /\ IF Usable THEN FromStore ELSE failing' = TRUE /\ TickEnds
     ELSE failing' = TRUE /\ TickEnds /\ UNCHANGED tried
  /\ UNCHANGED <<now, store, seed>>

\* The exception ends the tick in run; the status keeps its count.
KeepaliveCrashes ==
  /\ WriteFails("keepalive") /\ TickEnds
  /\ UNCHANGED <<now, store, seed, failing, tried>>

\* LockTimeout
KeepaliveBusy ==
  /\ ~ticked /\ req["keepalive"].pc = "idle" /\ ~Free /\ Fault
  /\ failing' = TRUE /\ ticked' = TRUE /\ forced' = FALSE
  /\ UNCHANGED <<now, store, seed, lock, req, tried, lost>>

\* The process dies, and with it its lock; launchd starts it again.
KeepaliveDies ==
  /\ Fault
  /\ req' = [req EXCEPT !["keepalive"] = NoReq]
  /\ lock' = IF lock = "keepalive" THEN "free" ELSE lock
  /\ ticked' = FALSE /\ tried' = FALSE /\ forced' \in BOOLEAN
  /\ lost' = (lost \/ req["keepalive"].pc = "answered")
  /\ UNCHANGED <<now, store, seed, failing>>

-----------------------------------------------------------------------------
(* The owner: logs in on the web and pastes the token into .env, or edits
   something else in .env. *)

Pastes ==
  /\ pastes < MaxPastes /\ pastes' = pastes + 1 /\ UNCHANGED faults
  /\ \/ seed' = [exp |-> New, at |-> now, newer |-> TRUE]
     \/ seed.exp # None /\ seed' = [seed EXCEPT !.at = now, !.newer = TRUE]
  /\ tried' = FALSE
  /\ UNCHANGED <<now, store, failing, lock, req, ticked, forced, lost>>

Keepalive == KeepaliveTicks \/ KeepaliveSaves \/ KeepaliveFails \/ KeepaliveCrashes
             \/ KeepaliveBusy \/ KeepaliveDies

-----------------------------------------------------------------------------
(* The session's _token_refresh, from the lock to its outcome. *)

\* Mutant of Margin: the session wants as much left as the keep-alive.
SameMargin == RENEW_BEFORE_S

Margin == RENEW_MARGIN_S

\* select_tokens chooses the store, the seed, or a store that runs out.
Adopts  == HasStore /\ ~Dead(Margin)
Expired == ~Adopts /\ SkipReason

RefreshSends ==
  /\ Free /\ ~Adopts /\ ~Expired
  /\ Sends("session", IF SeedIsFresh THEN "env" ELSE "store")
  /\ UNCHANGED <<now, store, seed, failing, keepalive, lost, bounds>>

RefreshSaves ==
  /\ req["session"].pc = "answered"
  /\ Writes(New) /\ failing' = FALSE /\ Releases("session")
  /\ UNCHANGED <<now, keepalive, lost, bounds>>

RefreshFails ==
  \/ /\ Fails("session") /\ failing' = TRUE /\ Releases("session")
     /\ UNCHANGED <<now, store, seed, keepalive>>
  \/ /\ req["session"].pc = "idle" /\ ~Free /\ Fault      \* LockTimeout
     /\ UNCHANGED <<now, files, req, keepalive, lost>>

RefreshCrashes ==
  /\ WriteFails("session") /\ Releases("session")
  /\ UNCHANGED <<now, store, seed, failing, keepalive>>

-----------------------------------------------------------------------------
(* Properties *)

TokenTypeOK ==
  /\ now \in 0 .. HORIZON
  /\ store \in [exp : None .. HORIZON + LIFE, renewed : BOOLEAN]
  /\ seed \in [exp : None .. HORIZON + LIFE, at : 0 .. HORIZON, newer : BOOLEAN]
  /\ failing \in BOOLEAN /\ lock \in {"free"} \cup Renewers
  /\ req \in [Renewers -> [pc : {"idle", "sent", "answered", "rejected"}, src : {"env", "store"},
                           exp : None .. HORIZON + LIFE]]
  /\ ticked \in BOOLEAN /\ forced \in BOOLEAN /\ tried \in BOOLEAN
  /\ lost \in BOOLEAN
  /\ pastes \in 0 .. MaxPastes /\ faults \in 0 .. MaxFaults

\* "The lock + adopt-from-store rule keeps renewers apart": a token of the store
\* is sent by one of them at a time, and not again once it was renewed, unless
\* the answer never came into the store.
RenewersApart ==
  \A r \in Renewers : req[r].pc = "sent" /\ req[r].src = "store" =>
    /\ ~store.renewed \/ lost
    /\ \A q \in Renewers \ {r} : req[q].pc = "idle"

\* "While the keep-alive is healthy the session only ever adopts the store's
\* tokens": without a fault it sends no token of the store.
SessionOnlyAdopts ==
  req["session"].pc # "idle" /\ req["session"].src = "store" => faults > 0

\* A store does not lapse while the keep-alive renews it: until one has, there
\* have been as many faults as RENEW_BEFORE_S has units, in each of which it is
\* due and tried again, whatever the session and the owner do.  (The faults are
\* counted over the whole run, not one in each of these units.)
LapseTakesFaults == HasStore /\ Dead(0) => faults >= RENEW_BEFORE_S
=============================================================================
