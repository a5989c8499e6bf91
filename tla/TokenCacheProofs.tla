-------------------------- MODULE TokenCacheProofs ---------------------------
(***************************************************************************)
(* TokenCache for any number of callers, any timeouts, any lifetimes.      *)
(* The mutex gives one fetch per expiry; the leeway, which is two timeouts *)
(* wide, gives that no request outlives its token.                         *)
(***************************************************************************)
EXTENDS TokenCache, TLAPS

-----------------------------------------------------------------------------
(***************************************************************************)
(* Types.  They need one fact besides: the answer a caller is reading is   *)
(* that of a grant.                                                        *)
(***************************************************************************)
AnswerIsOfGrant ==
  \A c \in Callers : call[c].step = "granted" => call[c].token.id \in 1..grants

TypeInv == TokenTypeOK /\ AnswerIsOfGrant

LEMMA NoTokenType == NoToken \in Token /\ IdleCall \in Call
BY TokenCacheAssumption DEF NoToken, Token, IdleCall, Call, Step

LEMMA GoesType ==
  ASSUME TypeInv, NEW c \in Callers, NEW step \in Step, NEW token \in Token,
         NEW by \in Nat, Goes(c, step, token, by), grants' \in Nat, grants' >= grants,
         step = "granted" => token.id \in 1..grants'
  PROVE  call' \in [Callers -> Call] /\ AnswerIsOfGrant'
<1>1. [step |-> step, token |-> token, by |-> by] \in Call
  BY DEF Call
<1>2. call' \in [Callers -> Call]
  BY <1>1 DEF TypeInv, TokenTypeOK, Goes
<1>3. ASSUME NEW d \in Callers, call'[d].step = "granted"
      PROVE  call'[d].token.id \in 1..grants'
  <2>1. CASE d = c
    BY <2>1, <1>3 DEF TypeInv, TokenTypeOK, Goes
  <2>2. CASE d # c
    <3>1. call'[d] = call[d]
      BY <2>2 DEF Goes, TypeInv, TokenTypeOK
    <3>2. call[d].token.id \in 1..grants
      BY <3>1, <1>3 DEF TypeInv, AnswerIsOfGrant
    <3> QED BY <3>1, <3>2 DEF TypeInv, TokenTypeOK
  <2> QED BY <2>1, <2>2
<1> QED BY <1>2, <1>3 DEF AnswerIsOfGrant

LEMMA EndType ==
  ASSUME TypeInv, NEW c \in Callers, call' = [call EXCEPT ![c] = IdleCall],
         UNCHANGED grants
  PROVE  call' \in [Callers -> Call] /\ AnswerIsOfGrant'
BY NoTokenType DEF TypeInv, TokenTypeOK, AnswerIsOfGrant, IdleCall

LEMMA TypeStep == TypeInv /\ [Next]_vars => TypeInv'
<1> SUFFICES ASSUME TypeInv, [Next]_vars PROVE TypeInv'
  OBVIOUS
<1>a. TokenTypeOK /\ AnswerIsOfGrant
  BY DEF TypeInv
<1>b. now \in Nat /\ now + CallMax \in Nat /\ now + StoreMax \in Nat /\ 0 \in Nat
  BY <1>a, TokenCacheAssumption DEF TokenTypeOK
<1>c. /\ cache \in Token /\ stored \in Token /\ NoToken \in Token
      /\ grants \in Nat /\ \A c \in Callers : call[c] \in Call
  BY <1>a, NoTokenType, TokenCacheAssumption DEF TokenTypeOK
<1>d. \A c \in Callers : call[c].token \in Token /\ call[c].by \in Nat
  BY <1>c DEF Call
<1>e. Step = {"idle", "waiting", "reading", "fetching", "granted", "storing",
              "caching", "sending"}
  BY DEF Step
<1>1. ASSUME NEW c \in Callers, Begin(c) PROVE TypeInv'
  <2>1. call' \in [Callers -> Call] /\ AnswerIsOfGrant'
    <3>1. CASE is_fresh(cache)
      BY <1>1, <3>1, <1>b, <1>c, <1>e, GoesType DEF Begin, Sends
    <3>2. CASE ~is_fresh(cache)
      BY <1>1, <3>2, <1>b, <1>c, <1>e, GoesType DEF Begin
    <3> QED BY <3>1, <3>2
  <2> QED BY <2>1, <1>1, <1>a DEF Begin, TypeInv, TokenTypeOK
<1>2. ASSUME NEW c \in Callers, Acquire(c) PROVE TypeInv'
  <2>1. call' \in [Callers -> Call] /\ AnswerIsOfGrant'
    <3>1. CASE is_fresh(cache)
      BY <1>2, <3>1, <1>b, <1>c, <1>e, GoesType DEF Acquire, Sends
    <3>2. CASE ~is_fresh(cache)
      BY <1>2, <3>2, <1>b, <1>c, <1>e, GoesType DEF Acquire
    <3> QED BY <3>1, <3>2
  <2> QED BY <2>1, <1>2, <1>a DEF Acquire, TypeInv, TokenTypeOK
<1>3. ASSUME NEW c \in Callers, ReadStored(c) PROVE TypeInv'
  <2>1. call' \in [Callers -> Call] /\ AnswerIsOfGrant'
    <3>1. CASE is_fresh(stored)
      BY <1>3, <3>1, <1>b, <1>c, <1>e, GoesType DEF ReadStored, Sends
    <3>2. CASE ~is_fresh(stored)
      BY <1>3, <3>2, <1>b, <1>c, <1>e, GoesType DEF ReadStored
    <3> QED BY <3>1, <3>2
  <2> QED BY <2>1, <1>3, <1>a, <1>c DEF ReadStored, TypeInv, TokenTypeOK
<1>4. ASSUME NEW c \in Callers, Grants(c) PROVE TypeInv'
  <2>1. grants' \in 1..MaxGrants /\ grants' = grants + 1
    BY <1>4, <1>a, TokenCacheAssumption DEF Grants, TokenTypeOK
  <2>2. [id |-> grants + 1, expires_at |-> 0] \in Token
    BY <2>1, TokenCacheAssumption DEF Token
  <2>3. call' \in [Callers -> Call] /\ AnswerIsOfGrant'
    BY <1>4, <2>1, <2>2, <1>c, <1>d, <1>e, GoesType DEF Grants
  <2>4. PICK life \in Lifetimes :
          granted' = [granted EXCEPT ![grants + 1] = [at |-> now, life |-> life]]
    BY <1>4 DEF Grants
  <2>5. granted' \in [1..MaxGrants -> [at : Nat, life : Nat]]
    BY <2>1, <2>4, <1>a, TokenCacheAssumption DEF TokenTypeOK
  <2> QED BY <2>1, <2>3, <2>5, <1>4, <1>a DEF Grants, TypeInv, TokenTypeOK
<1>5. ASSUME NEW c \in Callers, Fetched(c) PROVE TypeInv'
  <2>1. call[c].token.id \in 1..MaxGrants
    BY <1>5, <1>a, TokenCacheAssumption DEF Fetched, AnswerIsOfGrant, TokenTypeOK
  <2>2. granted[call[c].token.id].life \in Nat
    BY <2>1, <1>a DEF TokenTypeOK
  <2>3. [id |-> call[c].token.id,
         expires_at |-> now + granted[call[c].token.id].life] \in Token
    BY <2>1, <2>2, <1>b DEF Token
  <2>4. call' \in [Callers -> Call] /\ AnswerIsOfGrant'
    BY <1>5, <2>3, <1>b, <1>c, <1>e, GoesType DEF Fetched
  <2> QED BY <2>4, <1>5, <1>a DEF Fetched, TypeInv, TokenTypeOK
<1>6. ASSUME NEW c \in Callers, Upsert(c) PROVE TypeInv'
  <2>1. call' \in [Callers -> Call] /\ AnswerIsOfGrant'
    BY <1>6, <1>c, <1>d, <1>e, GoesType DEF Upsert
  <2> QED BY <2>1, <1>6, <1>a, <1>d DEF Upsert, TypeInv, TokenTypeOK
<1>7. ASSUME NEW c \in Callers, Remember(c) PROVE TypeInv'
  <2>1. call' \in [Callers -> Call] /\ AnswerIsOfGrant'
    BY <1>7, <1>b, <1>c, <1>d, <1>e, GoesType DEF Remember, Sends
  <2> QED BY <2>1, <1>7, <1>a, <1>d DEF Remember, TypeInv, TokenTypeOK
<1>8. ASSUME NEW c \in Callers, FetchFails(c) PROVE TypeInv'
  <2>1. call' \in [Callers -> Call] /\ AnswerIsOfGrant'
    BY <1>8, EndType DEF FetchFails, Ends
  <2> QED BY <2>1, <1>8, <1>a DEF FetchFails, Ends, TypeInv, TokenTypeOK
<1>9. ASSUME NEW c \in Callers, StorageFails(c) PROVE TypeInv'
  <2>1. call' \in [Callers -> Call] /\ AnswerIsOfGrant'
    BY <1>9, EndType DEF StorageFails, Ends
  <2> QED BY <2>1, <1>9, <1>a DEF StorageFails, Ends, TypeInv, TokenTypeOK
<1>10. ASSUME NEW c \in Callers, Answered(c) PROVE TypeInv'
  <2>1. call' \in [Callers -> Call] /\ AnswerIsOfGrant'
    BY <1>10, EndType DEF Answered
  <2> QED BY <2>1, <1>10, <1>a DEF Answered, TypeInv, TokenTypeOK
<1>11. CASE Tick
  BY <1>11, <1>a DEF Tick, TypeInv, TokenTypeOK, AnswerIsOfGrant
<1>12. CASE Restart
  BY <1>12, <1>a, NoTokenType DEF Restart, TypeInv, TokenTypeOK, AnswerIsOfGrant, IdleCall
<1>13. CASE UNCHANGED vars
  BY <1>13, <1>a DEF vars, TypeInv, TokenTypeOK, AnswerIsOfGrant
<1> QED
  BY <1>1, <1>2, <1>3, <1>4, <1>5, <1>6, <1>7, <1>8, <1>9, <1>10, <1>11,
     <1>12, <1>13 DEF Next, Proceeds

\* Init => TypeInv, and with TypeStep: TypeInv always holds.
LEMMA TypeInvariance == Spec => []TypeInv
<1>1. Init => TypeInv
  BY NoTokenType, TokenCacheAssumption
     DEF Init, TypeInv, TokenTypeOK, AnswerIsOfGrant, IdleCall
<1> QED BY <1>1, TypeStep, PTL DEF Spec

\* The clock, the tokens, the mutex and the calls are well typed in every
\* reachable state.
THEOREM TokenTypeCorrect == Spec => []TokenTypeOK
<1>1. TypeInv => TokenTypeOK
  BY DEF TypeInv
<1> QED BY <1>1, TypeInvariance, PTL

-----------------------------------------------------------------------------
(***************************************************************************)
(* The mutex.  Whoever refreshes holds it, and found memory stale under    *)
(* it; only a holder writes memory or the store, so that what it found     *)
(* stale stays so until it writes a token itself.                          *)
(***************************************************************************)
MutexInv ==
  /\ \A c \in Callers :
       /\ call[c].step \in Refreshing <=> mutex = c
       /\ call[c].step \in Refreshing \ {"caching"} => ~is_fresh(cache)
       /\ call[c].step \in {"fetching", "granted", "storing"} => ~is_fresh(stored)
       /\ call[c].step = "caching" => stored = call[c].token
  /\ MemoryIsStored

\* What Goes does, field by field, and what it leaves alone.
LEMMA GoesMoves ==
  ASSUME TypeInv, NEW c \in Callers, NEW step, NEW token, NEW by,
         Goes(c, step, token, by)
  PROVE  /\ call'[c].step = step /\ call'[c].token = token /\ call'[c].by = by
         /\ \A d \in Callers : d # c => call'[d] = call[d]
BY DEF Goes, TypeInv, TokenTypeOK

LEMMA EndMoves ==
  ASSUME TypeInv, NEW c \in Callers, call' = [call EXCEPT ![c] = IdleCall]
  PROVE  /\ call'[c].step = "idle"
         /\ \A d \in Callers : d # c => call'[d] = call[d]
BY DEF TypeInv, TokenTypeOK, IdleCall

LEMMA MutexStep == TypeInv /\ MutexInv /\ [Next]_vars => MutexInv'
<1> SUFFICES ASSUME TypeInv, MutexInv, [Next]_vars PROVE MutexInv'
  OBVIOUS
<1> USE TokenCacheAssumption DEF MutexInv, MemoryIsStored, Refreshing
<1>1. ASSUME NEW c \in Callers, Begin(c) PROVE MutexInv'
  <2>1. /\ call'[c].step \in {"sending", "waiting"}
        /\ \A d \in Callers : d # c => call'[d] = call[d]
    BY <1>1, GoesMoves DEF Begin, Sends
  <2> QED BY <2>1, <1>1 DEF Begin, is_fresh
<1>2. ASSUME NEW c \in Callers, Acquire(c) PROVE MutexInv'
  <2>1. \A d \in Callers : d # c => call'[d] = call[d]
    BY <1>2, GoesMoves DEF Acquire, Sends
  <2>2. CASE is_fresh(cache)
    <3>1. call'[c].step = "sending" /\ mutex' = Nobody
      BY <1>2, <2>2, GoesMoves DEF Acquire, Sends
    <3> QED BY <3>1, <2>1, <1>2 DEF Acquire, is_fresh
  <2>3. CASE ~is_fresh(cache)
    <3>1. call'[c].step = "reading" /\ mutex' = c
      BY <1>2, <2>3, GoesMoves DEF Acquire
    <3> QED BY <3>1, <2>1, <2>3, <1>2 DEF Acquire, is_fresh
  <2> QED BY <2>2, <2>3
<1>3. ASSUME NEW c \in Callers, ReadStored(c) PROVE MutexInv'
  <2>1. \A d \in Callers : d # c => call'[d] = call[d]
    BY <1>3, GoesMoves DEF ReadStored, Sends
  <2>2. mutex = c /\ call[c].step = "reading"
    BY <1>3 DEF ReadStored
  <2>3. CASE is_fresh(stored)
    <3>1. call'[c].step = "sending" /\ mutex' = Nobody /\ cache' = stored
      BY <1>3, <2>3, GoesMoves DEF ReadStored, Sends
    <3> QED BY <3>1, <2>1, <2>2, <1>3 DEF ReadStored, is_fresh
  <2>4. CASE ~is_fresh(stored)
    <3>1. call'[c].step = "fetching" /\ UNCHANGED <<mutex, cache>>
      BY <1>3, <2>4, GoesMoves DEF ReadStored
    <3> QED BY <3>1, <2>1, <2>2, <2>4, <1>3 DEF ReadStored, is_fresh
  <2> QED BY <2>3, <2>4
<1>4. ASSUME NEW c \in Callers, Grants(c) PROVE MutexInv'
  <2>1. call'[c].step = "granted" /\ \A d \in Callers : d # c => call'[d] = call[d]
    BY <1>4, GoesMoves DEF Grants
  <2> QED BY <2>1, <1>4 DEF Grants, is_fresh
<1>5. ASSUME NEW c \in Callers, Fetched(c) PROVE MutexInv'
  <2>1. call'[c].step = "storing" /\ \A d \in Callers : d # c => call'[d] = call[d]
    BY <1>5, GoesMoves DEF Fetched
  <2> QED BY <2>1, <1>5 DEF Fetched, is_fresh
<1>6. ASSUME NEW c \in Callers, Upsert(c) PROVE MutexInv'
  <2>1. /\ call'[c].step = "caching" /\ call'[c].token = call[c].token
        /\ \A d \in Callers : d # c => call'[d] = call[d]
    BY <1>6, GoesMoves DEF Upsert
  <2>2. \A d \in Callers : d # c => call[d].step \notin Refreshing
    BY <1>6 DEF Upsert
  <2> QED BY <2>1, <2>2, <1>6 DEF Upsert, is_fresh
<1>7. ASSUME NEW c \in Callers, Remember(c) PROVE MutexInv'
  <2>1. call'[c].step = "sending" /\ \A d \in Callers : d # c => call'[d] = call[d]
    BY <1>7, GoesMoves DEF Remember, Sends
  <2>2. \A d \in Callers : d # c => call[d].step \notin Refreshing
    BY <1>7 DEF Remember
  <2> QED BY <2>1, <2>2, <1>7 DEF Remember, is_fresh
<1>8. ASSUME NEW c \in Callers, FetchFails(c) PROVE MutexInv'
  <2>1. call'[c].step = "idle" /\ \A d \in Callers : d # c => call'[d] = call[d]
    BY <1>8, EndMoves DEF FetchFails, Ends
  <2> QED BY <2>1, <1>8 DEF FetchFails, Ends, is_fresh
<1>9. ASSUME NEW c \in Callers, StorageFails(c) PROVE MutexInv'
  <2>1. call'[c].step = "idle" /\ \A d \in Callers : d # c => call'[d] = call[d]
    BY <1>9, EndMoves DEF StorageFails, Ends
  <2> QED BY <2>1, <1>9 DEF StorageFails, Ends, is_fresh
<1>10. ASSUME NEW c \in Callers, Answered(c) PROVE MutexInv'
  <2>1. call'[c].step = "idle" /\ \A d \in Callers : d # c => call'[d] = call[d]
    BY <1>10, EndMoves DEF Answered
  <2> QED BY <2>1, <1>10 DEF Answered, is_fresh
<1>11. CASE Tick
  <2>1. \A t \in Token : ~is_fresh(t) => ~is_fresh(t)'
    BY <1>11 DEF Tick, is_fresh, Token, TypeInv, TokenTypeOK
  <2>2. cache \in Token /\ stored \in Token
    BY DEF TypeInv, TokenTypeOK
  <2>3. (~is_fresh(cache) => ~is_fresh(cache)') /\ (~is_fresh(stored) => ~is_fresh(stored)')
    BY <1>11, <2>1, <2>2 DEF Tick, is_fresh
  <2> QED BY <1>11, <2>3 DEF Tick
<1>12. CASE Restart
  BY <1>12 DEF Restart, IdleCall
<1>13. CASE UNCHANGED vars
  BY <1>13 DEF vars, is_fresh
<1> QED
  BY <1>1, <1>2, <1>3, <1>4, <1>5, <1>6, <1>7, <1>8, <1>9, <1>10, <1>11,
     <1>12, <1>13 DEF Next, Proceeds

LEMMA MutexInvariance == Spec => []MutexInv
<1>1. Init => MutexInv
  BY TokenCacheAssumption DEF Init, MutexInv, MemoryIsStored, IdleCall, Refreshing
<1> QED BY <1>1, MutexStep, TypeInvariance, PTL DEF Spec

\* LHDN is asked for a token by the holder of the mutex alone, and only while
\* neither memory nor the store has a fresh one, however many callers find the
\* token stale at once.
THEOREM OneFetch == Spec => []OneFetchPerExpiry
<1>1. MutexInv => OneFetchPerExpiry
  BY DEF MutexInv, OneFetchPerExpiry, Refreshing
<1> QED BY <1>1, MutexInvariance, PTL

\* Memory never holds a token that a restart would not find.
THEOREM MemoryStored == Spec => []MemoryIsStored
<1>1. MutexInv => MemoryIsStored
  BY DEF MutexInv
<1> QED BY <1>1, MutexInvariance, PTL

-----------------------------------------------------------------------------
(***************************************************************************)
(* The leeway.  The client believes in a token for at most CallMax longer  *)
(* than LHDN does (Known), because that is how old the grant can be when   *)
(* its answer is read.  Every await ends in time (now <= by).              *)
(***************************************************************************)
Known(t) ==
  t = NoToken \/ (t.id \in 1..grants /\ t.expires_at <= Expiry(t) + CallMax)

InTime(c) == call[c].step \notin {"idle", "waiting"} => now <= call[c].by

AnswerIsRecent(c) ==
  /\ call[c].step = "fetching" => call[c].by <= now + CallMax
  /\ call[c].step = "granted" => call[c].by <= granted[call[c].token.id].at + CallMax

FetchedOutlives(c) ==
  call[c].step \in {"storing", "caching"} =>
    /\ call[c].token.id \in 1..grants
    /\ call[c].token.expires_at <= Expiry(call[c].token) + CallMax
    /\ Expiry(call[c].token) > call[c].by + CallMax

SentOutlives(c) ==
  call[c].step = "sending" =>
    /\ call[c].token.id \in 1..grants
    /\ Expiry(call[c].token) > call[c].by

FlightInv ==
  /\ Known(cache) /\ Known(stored)
  /\ \A c \in Callers :
       /\ InTime(c) /\ AnswerIsRecent(c) /\ FetchedOutlives(c) /\ SentOutlives(c)
  /\ \A n \in 1..grants : granted[n].life \in Lifetimes

\* A token that is fresh and known outlives the request it is used for.
LEMMA FreshOutlives ==
  ASSUME TypeInv, NEW t \in Token, Known(t), is_fresh(t)
  PROVE  t.id \in 1..grants /\ Expiry(t) > now + CallMax
<1>1. t # NoToken
  BY TokenCacheAssumption DEF is_fresh, NoToken, TypeInv, TokenTypeOK
<1>2. t.id \in 1..grants /\ t.expires_at <= Expiry(t) + CallMax
  BY <1>1 DEF Known
<1>3. t.expires_at \in Nat /\ now \in Nat /\ t.id \in 1..MaxGrants
  BY <1>2, TokenCacheAssumption DEF TypeInv, TokenTypeOK, Token
<1>4. granted[t.id] \in [at : Nat, life : Nat]
  BY <1>3 DEF TypeInv, TokenTypeOK
<1>5. Expiry(t) \in Nat
  BY <1>4 DEF Expiry
<1> QED
  BY <1>2, <1>3, <1>5, LeewayCoversTimeouts, TokenCacheAssumption DEF is_fresh

\* A step that changes no grant, no clock, neither copy of the token, and one
\* call only, has that call to answer for.
LEMMA OneCallFlight ==
  ASSUME FlightInv, NEW c \in Callers, UNCHANGED <<now, granted, grants>>,
         \A d \in Callers : d # c => call'[d] = call[d],
         Known(cache'), Known(stored'),
         InTime(c)', AnswerIsRecent(c)', FetchedOutlives(c)', SentOutlives(c)'
  PROVE  FlightInv'
BY DEF FlightInv, InTime, AnswerIsRecent, FetchedOutlives, SentOutlives, Known,
       Expiry, NoToken

LEMMA FlightStep == TypeInv /\ FlightInv /\ [Next]_vars => FlightInv'
<1> SUFFICES ASSUME TypeInv, FlightInv, [Next]_vars PROVE FlightInv'
  OBVIOUS
<1>a. /\ now \in Nat /\ CallMax \in Nat /\ StoreMax \in Nat /\ grants \in 0..MaxGrants
      /\ MaxGrants \in Nat /\ cache \in Token /\ stored \in Token
  BY TokenCacheAssumption DEF TypeInv, TokenTypeOK
<1>b. \A c \in Callers : call[c].token \in Token /\ call[c].by \in Nat
  BY DEF TypeInv, TokenTypeOK, Call
<1>c. \A n \in 1..grants : granted[n].at \in Nat /\ granted[n].life \in Nat
  BY <1>a DEF TypeInv, TokenTypeOK
<1>d. Known(cache) /\ Known(stored)
  BY DEF FlightInv
<1>s. ASSUME NEW c \in Callers, NEW t \in Token, Sends(c, t),
             t.id \in 1..grants, Expiry(t) > now + CallMax,
             UNCHANGED <<now, granted, grants>>
      PROVE  /\ InTime(c)' /\ AnswerIsRecent(c)' /\ FetchedOutlives(c)' /\ SentOutlives(c)'
             /\ \A d \in Callers : d # c => call'[d] = call[d]
  <2>1. /\ call'[c].step = "sending" /\ call'[c].token = t /\ call'[c].by = now + CallMax
        /\ \A d \in Callers : d # c => call'[d] = call[d]
    BY <1>s, GoesMoves DEF Sends
  <2> QED
    BY <2>1, <1>s, <1>a
       DEF InTime, AnswerIsRecent, FetchedOutlives, SentOutlives, Expiry
<1>1. ASSUME NEW c \in Callers, Begin(c) PROVE FlightInv'
  <2>1. CASE is_fresh(cache)
    <3>1. cache.id \in 1..grants /\ Expiry(cache) > now + CallMax
      BY <2>1, <1>a, <1>d, FreshOutlives
    <3> QED BY <3>1, <2>1, <1>1, <1>s, <1>a, <1>d, OneCallFlight DEF Begin
  <2>2. CASE ~is_fresh(cache)
    <3>1. call'[c].step = "waiting" /\ \A d \in Callers : d # c => call'[d] = call[d]
      BY <2>2, <1>1, GoesMoves DEF Begin
    <3>2. InTime(c)' /\ AnswerIsRecent(c)' /\ FetchedOutlives(c)' /\ SentOutlives(c)'
      BY <3>1 DEF InTime, AnswerIsRecent, FetchedOutlives, SentOutlives
    <3> QED BY <3>1, <3>2, <1>1, <1>d, OneCallFlight DEF Begin
  <2> QED BY <2>1, <2>2
<1>2. ASSUME NEW c \in Callers, Acquire(c) PROVE FlightInv'
  <2>1. CASE is_fresh(cache)
    <3>1. cache.id \in 1..grants /\ Expiry(cache) > now + CallMax
      BY <2>1, <1>a, <1>d, FreshOutlives
    <3> QED BY <3>1, <2>1, <1>2, <1>s, <1>a, <1>d, OneCallFlight DEF Acquire
  <2>2. CASE ~is_fresh(cache)
    <3>1. /\ call'[c].step = "reading" /\ call'[c].by = now + StoreMax
          /\ \A d \in Callers : d # c => call'[d] = call[d]
      BY <2>2, <1>2, GoesMoves DEF Acquire
    <3>2. InTime(c)' /\ AnswerIsRecent(c)' /\ FetchedOutlives(c)' /\ SentOutlives(c)'
      BY <3>1, <1>2, <1>a DEF Acquire, InTime, AnswerIsRecent, FetchedOutlives, SentOutlives
    <3> QED BY <3>1, <3>2, <1>2, <1>d, OneCallFlight DEF Acquire
  <2> QED BY <2>1, <2>2
<1>3. ASSUME NEW c \in Callers, ReadStored(c) PROVE FlightInv'
  <2>1. CASE is_fresh(stored)
    <3>1. stored.id \in 1..grants /\ Expiry(stored) > now + CallMax
      BY <2>1, <1>a, <1>d, FreshOutlives
    <3> QED BY <3>1, <2>1, <1>3, <1>s, <1>a, <1>d, OneCallFlight DEF ReadStored
  <2>2. CASE ~is_fresh(stored)
    <3>1. /\ call'[c].step = "fetching" /\ call'[c].by = now + CallMax
          /\ \A d \in Callers : d # c => call'[d] = call[d]
      BY <2>2, <1>3, GoesMoves DEF ReadStored
    <3>2. InTime(c)' /\ AnswerIsRecent(c)' /\ FetchedOutlives(c)' /\ SentOutlives(c)'
      BY <3>1, <1>3, <1>a DEF ReadStored, InTime, AnswerIsRecent, FetchedOutlives, SentOutlives
    <3> QED BY <3>1, <3>2, <2>2, <1>3, <1>d, OneCallFlight DEF ReadStored
  <2> QED BY <2>1, <2>2
<1>4. ASSUME NEW c \in Callers, Grants(c) PROVE FlightInv'
  <2>1. PICK life \in Lifetimes :
          granted' = [granted EXCEPT ![grants + 1] = [at |-> now, life |-> life]]
    BY <1>4 DEF Grants
  <2>2. grants' = grants + 1 /\ grants' \in 1..MaxGrants
    BY <1>4, <1>a DEF Grants
  <2>3. /\ granted'[grants'] = [at |-> now, life |-> life]
        /\ \A n \in 1..grants : granted'[n] = granted[n]
    BY <2>1, <2>2, <1>a DEF TypeInv, TokenTypeOK
  <2>4. /\ call'[c].step = "granted" /\ call'[c].token.id = grants + 1
        /\ call'[c].by = call[c].by
        /\ \A d \in Callers : d # c => call'[d] = call[d]
    BY <1>4, GoesMoves DEF Grants
  <2>5. now <= call[c].by /\ UNCHANGED <<now, cache, stored>>
    BY <1>4 DEF Grants, FlightInv, InTime
  <2>6. \A d \in Callers : call[d].step = "granted" => call[d].token.id \in 1..grants
    BY DEF TypeInv, AnswerIsOfGrant
  <2>7. call'[c].by <= now + CallMax
    BY <1>4, <2>4 DEF Grants, FlightInv, AnswerIsRecent
  <2>8. Known(cache)' /\ Known(stored)'
    BY <2>2, <2>3, <2>5, <1>a, <1>d DEF Known, Expiry, NoToken
  <2>9. \A n \in 1..grants' : granted'[n].life \in Lifetimes
    BY <2>2, <2>3, <1>a DEF FlightInv
  <2>10. InTime(c)' /\ AnswerIsRecent(c)' /\ FetchedOutlives(c)' /\ SentOutlives(c)'
    BY <2>2, <2>3, <2>4, <2>5, <2>7
       DEF InTime, AnswerIsRecent, FetchedOutlives, SentOutlives
  <2>11. ASSUME NEW d \in Callers, d # c
         PROVE  InTime(d)' /\ AnswerIsRecent(d)' /\ FetchedOutlives(d)' /\ SentOutlives(d)'
    BY <2>11, <2>2, <2>3, <2>4, <2>5, <2>6, <1>a
       DEF FlightInv, InTime, AnswerIsRecent, FetchedOutlives, SentOutlives, Expiry
  <2> QED BY <2>8, <2>9, <2>10, <2>11 DEF FlightInv
<1>5. ASSUME NEW c \in Callers, Fetched(c) PROVE FlightInv'
  <2> DEFINE g == granted[call[c].token.id]
  <2>1. call[c].token.id \in 1..grants /\ g.at \in Nat /\ g.life \in Nat /\ g.life \in Lifetimes
    BY <1>5, <1>c DEF Fetched, TypeInv, AnswerIsOfGrant, FlightInv
  <2>2. now <= call[c].by /\ call[c].by <= g.at + CallMax
    BY <1>5 DEF Fetched, FlightInv, InTime, AnswerIsRecent
  <2>3. /\ call'[c].step = "storing" /\ call'[c].by = now + StoreMax
        /\ call'[c].token = [id |-> call[c].token.id, expires_at |-> now + g.life]
        /\ \A d \in Callers : d # c => call'[d] = call[d]
    BY <1>5, GoesMoves DEF Fetched
  <2>4. UNCHANGED <<now, cache, stored, granted, grants>>
    BY <1>5 DEF Fetched
  <2>5. g.life > CallMax + StoreMax + CallMax
    BY <2>1, LeewayCoversTimeouts
  <2>6. now + g.life <= g.at + g.life + CallMax /\ g.at + g.life > now + StoreMax + CallMax
    BY <2>1, <2>2, <2>5, <1>a, <1>b
  <2>7. Expiry(call[c].token)' = g.at + g.life
    BY <2>3, <2>4 DEF Expiry
  <2>8. InTime(c)' /\ AnswerIsRecent(c)' /\ SentOutlives(c)'
    BY <2>3, <2>4, <1>a DEF InTime, AnswerIsRecent, SentOutlives
  <2>9. FetchedOutlives(c)'
    BY <2>1, <2>3, <2>4, <2>6, <2>7 DEF FetchedOutlives
  <2> QED BY <2>3, <2>4, <2>8, <2>9, <1>d, OneCallFlight
<1>6. ASSUME NEW c \in Callers, Upsert(c) PROVE FlightInv'
  <2>1. /\ call'[c].step = "caching" /\ call'[c].token = call[c].token
        /\ call'[c].by = call[c].by
        /\ \A d \in Callers : d # c => call'[d] = call[d]
    BY <1>6, GoesMoves DEF Upsert
  <2>2. InTime(c) /\ FetchedOutlives(c) /\ call[c].step = "storing"
    BY <1>6 DEF FlightInv, Upsert
  <2>3. UNCHANGED <<now, cache, granted, grants>> /\ stored' = call[c].token
    BY <1>6 DEF Upsert
  <2>4. Known(stored')
    BY <2>2, <2>3 DEF FetchedOutlives, Known
  <2>5. InTime(c)' /\ AnswerIsRecent(c)' /\ FetchedOutlives(c)' /\ SentOutlives(c)'
    BY <2>1, <2>2, <2>3 DEF InTime, AnswerIsRecent, FetchedOutlives, SentOutlives, Expiry
  <2> QED BY <2>1, <2>3, <2>4, <2>5, <1>d, OneCallFlight
<1>7. ASSUME NEW c \in Callers, Remember(c) PROVE FlightInv'
  <2>1. InTime(c) /\ FetchedOutlives(c) /\ call[c].step = "caching"
    BY <1>7 DEF FlightInv, Remember
  <2>2. UNCHANGED <<now, stored, granted, grants>> /\ cache' = call[c].token
    BY <1>7 DEF Remember
  <2>3. Known(cache')
    BY <2>1, <2>2 DEF FetchedOutlives, Known
  <2>4. call[c].token.id \in 1..grants /\ Expiry(call[c].token) \in Nat
    BY <2>1, <1>c DEF FetchedOutlives, Expiry
  <2>5. Expiry(call[c].token) > now + CallMax
    BY <2>1, <2>4, <1>a, <1>b DEF FetchedOutlives, InTime
  <2> QED BY <2>2, <2>3, <2>4, <2>5, <1>7, <1>b, <1>d, <1>s, OneCallFlight DEF Remember
<1>8. ASSUME NEW c \in Callers, call' = [call EXCEPT ![c] = IdleCall],
             UNCHANGED <<now, cache, stored, granted, grants>>
      PROVE  FlightInv'
  <2>1. call'[c].step = "idle" /\ \A d \in Callers : d # c => call'[d] = call[d]
    BY <1>8, EndMoves
  <2>2. InTime(c)' /\ AnswerIsRecent(c)' /\ FetchedOutlives(c)' /\ SentOutlives(c)'
    BY <2>1 DEF InTime, AnswerIsRecent, FetchedOutlives, SentOutlives
  <2> QED BY <2>1, <2>2, <1>8, <1>d, OneCallFlight
<1>9. ASSUME NEW c \in Callers, FetchFails(c) \/ StorageFails(c) \/ Answered(c)
      PROVE  FlightInv'
  BY <1>8, <1>9 DEF FetchFails, StorageFails, Answered, Ends
<1>10. CASE Tick
  <2>1. ASSUME NEW c \in Callers PROVE InTime(c)'
    BY <1>10, <1>a, <1>b DEF Tick, InTime
  <2>2. ASSUME NEW c \in Callers PROVE AnswerIsRecent(c)'
    BY <1>10, <1>a, <1>b DEF Tick, FlightInv, AnswerIsRecent
  <2> QED
    BY <2>1, <2>2, <1>10
       DEF Tick, FlightInv, Known, FetchedOutlives, SentOutlives, Expiry, NoToken
<1>11. CASE Restart
  BY <1>11
     DEF Restart, FlightInv, Known, InTime, AnswerIsRecent, FetchedOutlives,
         SentOutlives, Expiry, NoToken, IdleCall
<1>12. CASE UNCHANGED vars
  BY <1>12
     DEF vars, FlightInv, Known, InTime, AnswerIsRecent, FetchedOutlives,
         SentOutlives, Expiry, NoToken
<1> QED
  BY <1>1, <1>2, <1>3, <1>4, <1>5, <1>6, <1>7, <1>9, <1>10, <1>11, <1>12
     DEF Next, Proceeds

\* No request reaches LHDN with a token that has expired there, for any
\* timeouts, provided only that the leeway is at least two call timeouts wide.
THEOREM NeverExpires == Spec => []NeverExpiresInFlight
<1>1. Init => FlightInv
  BY TokenCacheAssumption
     DEF Init, FlightInv, Known, InTime, AnswerIsRecent, FetchedOutlives,
         SentOutlives, IdleCall
<1>2. FlightInv => NeverExpiresInFlight
  BY DEF FlightInv, SentOutlives, NeverExpiresInFlight
<1> QED BY <1>1, <1>2, FlightStep, TypeInvariance, PTL DEF Spec

=============================================================================
