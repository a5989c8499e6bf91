----------------------------- MODULE TokenCache ------------------------------
(***************************************************************************)
(* How the workers come by an access token (lhdn/client.rs, access_token   *)
(* and fetch_token): a token in memory, the same one in SQLite for after a *)
(* restart, and a mutex that lets one caller at a time replace them.  The  *)
(* three workers share one LhdnClient, so each of them is a caller, and    *)
(* whatever a caller holds across an await may be overtaken by the others, *)
(* by the clock, or by a restart of the process.                           *)
(*                                                                         *)
(* Time is in whole ticks.  A step that awaits nothing outside the process *)
(* takes none; an HTTP call takes at most CallMax, a statement on SQLite   *)
(* at most StoreMax.  LHDN counts a token's lifetime from the moment it    *)
(* grants it, the client from the moment it has read the answer.           *)
(***************************************************************************)
EXTENDS Integers

CONSTANTS
  Callers, Nobody,       \* who calls access_token; who holds a free mutex
  Leeway,                \* TOKEN_LEEWAY
  CallMax,               \* REQUEST_TIMEOUT
  StoreMax,              \* the pool's and SQLite's own timeouts (external)
  Lifetimes,             \* the expires_in LHDN may grant
  MaxNow,                \* bound: the clock
  MaxGrants,             \* bound: tokens LHDN grants
  MaxRestarts            \* bound: restarts of the process

ASSUME TokenCacheAssumption ==
  /\ Nobody \notin Callers
  /\ Leeway \in Nat /\ CallMax \in Nat /\ StoreMax \in Nat
  /\ Lifetimes \subseteq Nat
  /\ MaxNow \in Nat /\ MaxGrants \in Nat /\ MaxRestarts \in Nat

\* oauth.rs and client.rs: 60 = 30 + 30.  A token LHDN grants outlives its own
\* way to the request it was fetched for.
ASSUME LeewayCoversTimeouts ==
  /\ Leeway >= CallMax + CallMax
  /\ \A life \in Lifetimes : life > CallMax + StoreMax + CallMax

VARIABLES now, cache, stored, mutex, call, granted, grants, restarts

vars == <<now, cache, stored, mutex, call, granted, grants, restarts>>

\* A CachedToken, by the number of its grant.
Token == [id : 0..MaxGrants, expires_at : Nat]
NoToken == [id |-> 0, expires_at |-> 0]

\* A call to access_token and the request it is for: where it stands, the token
\* in its hands, and when the await it is in ends at the latest.
Step == {"idle", "waiting", "reading", "fetching", "granted", "storing",
         "caching", "sending"}
Call == [step : Step, token : Token, by : Nat]
IdleCall == [step |-> "idle", token |-> NoToken, by |-> 0]

TokenTypeOK ==
  /\ now \in Nat
  /\ cache \in Token /\ stored \in Token
  /\ mutex \in Callers \cup {Nobody}
  /\ call \in [Callers -> Call]
  /\ granted \in [1..MaxGrants -> [at : Nat, life : Nat]]
  /\ grants \in 0..MaxGrants
  /\ restarts \in Nat

Init ==
  /\ now = 0
  /\ cache = NoToken /\ stored = NoToken
  /\ mutex = Nobody
  /\ call = [c \in Callers |-> IdleCall]
  /\ granted = [n \in 1..MaxGrants |-> [at |-> 0, life |-> 0]]
  /\ grants = 0 /\ restarts = 0

-----------------------------------------------------------------------------
is_fresh_OrEqual(t) == t.expires_at - now >= Leeway

\* No token is never fresh.
is_fresh(t) == t.expires_at - now > Leeway

Goes(c, step, token, by) ==
  call' = [call EXCEPT ![c] = [step |-> step, token |-> token, by |-> by]]

\* access_token returns and the request the caller wanted it for is sent.
Sends(c, t) == Goes(c, "sending", t, now + CallMax)

\* The guard on the mutex is dropped when access_token returns, however it does.
Ends(c) ==
  /\ call' = [call EXCEPT ![c] = IdleCall]
  /\ mutex' = Nobody

\* access_token is called: peek_fresh_cache, without the mutex.
Begin(c) ==
  /\ call[c].step = "idle"
  /\ IF is_fresh(cache) THEN Sends(c, cache)
                        ELSE Goes(c, "waiting", NoToken, 0)
  /\ UNCHANGED <<now, cache, stored, mutex, granted, grants, restarts>>

Acquire_Unlocked(c) ==
  /\ call[c].step = "waiting"
  /\ IF is_fresh(cache)
     THEN Sends(c, cache) /\ UNCHANGED mutex
     ELSE Goes(c, "reading", NoToken, now + StoreMax) /\ mutex' = c
  /\ UNCHANGED <<now, cache, stored, granted, grants, restarts>>

\* refresh.lock().await returns, and the cache is looked at again.
Acquire(c) ==
  /\ call[c].step = "waiting"
  /\ mutex = Nobody
  /\ IF is_fresh(cache)
     THEN Sends(c, cache) /\ UNCHANGED mutex
     ELSE Goes(c, "reading", NoToken, now + StoreMax) /\ mutex' = c
  /\ UNCHANGED <<now, cache, stored, granted, grants, restarts>>

\* tokens.get: a stored token that is fresh goes to memory and is returned.
ReadStored(c) ==
  /\ call[c].step = "reading"
  /\ IF is_fresh(stored)
     THEN cache' = stored /\ mutex' = Nobody /\ Sends(c, stored)
     ELSE Goes(c, "fetching", NoToken, now + CallMax) /\ UNCHANGED <<cache, mutex>>
  /\ UNCHANGED <<now, stored, granted, grants, restarts>>

\* LHDN grants a token; its answer is on the way.
Grants(c) ==
  /\ call[c].step = "fetching"
  /\ grants < MaxGrants
  /\ grants' = grants + 1
  /\ \E life \in Lifetimes :
       granted' = [granted EXCEPT ![grants + 1] = [at |-> now, life |-> life]]
  /\ Goes(c, "granted", [id |-> grants + 1, expires_at |-> 0], call[c].by)
  /\ UNCHANGED <<now, cache, stored, mutex, restarts>>

Fetched_MinusNow(c) ==
  /\ call[c].step = "granted"
  /\ LET id == call[c].token.id
     IN  Goes(c, "storing", [id |-> id, expires_at |-> granted[id].life - now],
              now + StoreMax)
  /\ UNCHANGED <<now, cache, stored, mutex, granted, grants, restarts>>

\* fetch_token has read the answer, and counts expires_in from here.
Fetched(c) ==
  /\ call[c].step = "granted"
  /\ LET id == call[c].token.id
     IN  Goes(c, "storing", [id |-> id, expires_at |-> now + granted[id].life],
              now + StoreMax)
  /\ UNCHANGED <<now, cache, stored, mutex, granted, grants, restarts>>

Remember_First(c) ==
  /\ call[c].step = "storing"
  /\ cache' = call[c].token
  /\ Goes(c, "caching", call[c].token, call[c].by)
  /\ UNCHANGED <<now, stored, mutex, granted, grants, restarts>>

Upsert(c) ==
  /\ call[c].step = "storing"
  /\ stored' = call[c].token
  /\ Goes(c, "caching", call[c].token, call[c].by)
  /\ UNCHANGED <<now, cache, mutex, granted, grants, restarts>>

\* The write to the cache, the end of access_token.
Remember(c) ==
  /\ call[c].step = "caching"
  /\ cache' = call[c].token
  /\ Sends(c, call[c].token)
  /\ mutex' = Nobody
  /\ UNCHANGED <<now, stored, granted, grants, restarts>>

FetchFails_Retries(c) ==
  /\ call[c].step \in {"fetching", "granted"}
  /\ Goes(c, "fetching", NoToken, now + CallMax)
  /\ UNCHANGED <<now, cache, stored, mutex, granted, grants, restarts>>

\* The fetch fails: credentials refused, 5xx, no answer, or not a token.
FetchFails(c) ==
  /\ call[c].step \in {"fetching", "granted"}
  /\ Ends(c)
  /\ UNCHANGED <<now, cache, stored, granted, grants, restarts>>

\* get or upsert fails; a token just fetched is dropped with the call.
StorageFails(c) ==
  /\ call[c].step \in {"reading", "storing"}
  /\ Ends(c)
  /\ UNCHANGED <<now, cache, stored, granted, grants, restarts>>

\* The request reached LHDN, or failed; either way the call is over.
Answered(c) ==
  /\ call[c].step = "sending"
  /\ call' = [call EXCEPT ![c] = IdleCall]
  /\ UNCHANGED <<now, cache, stored, mutex, granted, grants, restarts>>

-----------------------------------------------------------------------------
\* Time passes, but no await outlasts its timeout.  Waiting for the mutex has
\* none.
Tick ==
  /\ now < MaxNow
  /\ \A c \in Callers :
       call[c].step \notin {"idle", "waiting"} => now < call[c].by
  /\ now' = now + 1
  /\ UNCHANGED <<cache, stored, mutex, call, granted, grants, restarts>>

\* The process ends and starts again: LhdnClient::new, on the same database.
Restart ==
  /\ restarts < MaxRestarts
  /\ restarts' = restarts + 1
  /\ cache' = NoToken
  /\ mutex' = Nobody
  /\ call' = [c \in Callers |-> IdleCall]
  /\ UNCHANGED <<now, stored, granted, grants>>

Proceeds(c) ==
  \/ ReadStored(c) \/ Grants(c) \/ Fetched(c) \/ Upsert(c) \/ Remember(c)
  \/ FetchFails(c) \/ StorageFails(c) \/ Answered(c)

Next ==
  \/ \E c \in Callers : Begin(c) \/ Acquire(c) \/ Proceeds(c)
  \/ Tick \/ Restart

Spec == Init /\ [][Next]_vars

\* An await that has a timeout ends, and tokio hands its mutex out in the order
\* it was asked for: a caller that finds it free again and again gets it.
FairSpec ==
  /\ Spec
  /\ \A c \in Callers : WF_vars(Proceeds(c)) /\ SF_vars(Acquire(c))

-----------------------------------------------------------------------------
Refreshing == {"reading", "fetching", "granted", "storing", "caching"}

\* LHDN is asked for a token by one caller at a time, who holds the mutex, and
\* only while neither memory nor the store has a fresh one: callers that find
\* the token stale together cost one fetch, not one each.
OneFetchPerExpiry ==
  \A c \in Callers :
    /\ call[c].step \in Refreshing <=> mutex = c
    /\ call[c].step \in {"fetching", "granted", "storing"} =>
         ~is_fresh(cache) /\ ~is_fresh(stored)

\* A request never reaches LHDN with a token that has expired there, although
\* the client counts the lifetime from the answer: oauth.rs refreshes early to
\* avoid "a token that expires mid-flight".  It takes a leeway of two timeouts,
\* one for the fetch and one for the request, and TOKEN_LEEWAY is just that.
Expiry(t) == granted[t.id].at + granted[t.id].life

NeverExpiresInFlight ==
  \A c \in Callers :
    call[c].step = "sending" => Expiry(call[c].token) > call[c].by

\* What memory holds is what a restart will find, so that no restart costs a
\* fetch while a token is fresh; only the caller that has just stored a newer
\* one is ahead of it.
MemoryIsStored ==
  cache \in {NoToken, stored} \/ \E c \in Callers : call[c].step = "caching"

\* No call waits for ever: whoever holds the mutex gives it back, also when the
\* fetch or the store fails.
CallsEnd == \A c \in Callers : call[c].step # "idle" ~> call[c].step = "idle"
=============================================================================
