-------------------------- MODULE RestClients_proof --------------------------
(***************************************************************************)
(* The token cache that the callers of a REST client share: a request that *)
(* arrives within the client's margin is never rejected for its token, and *)
(* an issued token never replaces one that is still good -- for any number *)
(* of callers, any lifetime and margins, any clock and any bound on calls. *)
(*                                                                         *)
(* And the page loops: each returns every row once, and each turn goes     *)
(* back in time -- for any page size, any length of a day, and whatever    *)
(* trading adds and retries repeat in between.                             *)
(***************************************************************************)
EXTENDS RestClients, SequenceTheorems, WellFoundedInduction, TLAPS

-----------------------------------------------------------------------------
(* The inductive invariant.                                                 *)

Tokens == [exp : Nat, srv : Nat, lag : Nat]
Pcs == {"idle", "limiter", "token", "issuing", "stamped", "wire", "reply",
        "done", "failed"}

\* A call's fields.  What a page loop gathers plays no part in the argument, so
\* only the fields about tokens have types.
CallOK(k) ==
    /\ k = [pc |-> k.pc, plan |-> k.plan, key |-> k.key, all |-> k.all,
            top0 |-> k.top0, token |-> k.token, since |-> k.since,
            tries |-> k.tries, reply |-> k.reply, swallowed |-> k.swallowed]
    /\ k.pc \in Pcs
    /\ k.token \in Tokens
    /\ k.since \in Nat

TokenTypes ==
    /\ client \in {"kis", "ls", "lsV2", "kiwoom", "auth2"}
    /\ now \in Nat
    /\ cache \in Tokens
    /\ mu \in Callers \cup {None}
    /\ call = [c \in Callers |-> call[c]]
    /\ \A c \in Callers : CallOK(call[c])

\* A token's local expiry is never later than what the server granted, moved by
\* the delay of its issue and, at KIS, by the margin already taken off.
Honest(t) ==
    \/ t.exp = 0
    \/ t.exp + (IF client = "kis" THEN KisMargin ELSE 0) <= t.srv + t.lag

\* Who is issuing holds the lock, and nobody holds it while the cache is good.
LockInv ==
    /\ \A c \in Callers : call[c].pc \in {"issuing", "stamped"} => mu = c
    /\ mu # None => ~IsValid(cache)

\* The token on the wire was good, margin included, when it was taken.
WireInv ==
    \A c \in Callers :
        /\ At(c, "stamped") => call[c].since <= now
        /\ At(c, "wire") =>
              call[c].since + Margin < call[c].token.srv + call[c].token.lag

TokenInv == TokenTypes /\ Honest(cache) /\ LockInv /\ WireInv /\ TokenAlive

-----------------------------------------------------------------------------
\* The constants one by one.
LEMMA Constants ==
    /\ Life \in Nat /\ KisMargin \in Nat /\ StoreMargin \in Nat
    /\ TokenExpiryMargin \in Nat
    /\ KisMargin + StoreMargin < Life /\ TokenExpiryMargin < Life
    /\ None \notin Callers
BY RestAssumption

USE Constants

\* The five clients' checks, one by one.
LEMMA ValidByClient ==
    ASSUME TokenTypes, NEW t
    PROVE  /\ client = "kis" => (IsValid(t) <=> t.exp > now + StoreMargin)
           /\ client = "ls" => (IsValid(t) <=> t.exp > now + TokenExpiryMargin)
           /\ client = "lsV2" => (IsValid(t) <=> now < t.exp)
           /\ client = "kiwoom" => (IsValid(t) <=> now < t.exp)
           /\ client = "auth2" => (IsValid(t) <=> t.exp > now + TokenExpiryMargin)
BY DEF IsValid, kisIsValid, lsIsValid, lsV2IsValid, kiwoomIsValid, auth2IsValid

\* A token that a client's own check accepts has its margin left at the server.
LEMMA ValidHasMargin ==
    ASSUME TokenTypes, NEW t \in Tokens, Honest(t), IsValid(t)
    PROVE  now + Margin < t.srv + t.lag
BY ValidByClient DEF TokenTypes, Tokens, Honest, Margin

\* So has a token just issued, however long its answer took.
LEMMA IssuedHasMargin ==
    ASSUME TokenTypes, NEW stamp \in Nat, stamp <= now
    PROVE  LET t == issueToken(stamp)
           IN  /\ t \in Tokens
               /\ Honest(t)
               /\ now + Margin < t.srv + t.lag
BY DEF TokenTypes, Tokens, Honest, issueToken, Margin, kisIssueToken,
       lsIssueToken, lsV2IssueToken, kiwoomIssueToken, refresherToken

\* Time only takes validity away.
LEMMA ValidityEnds ==
    ASSUME TokenTypes, Tick, ~IsValid(cache)
    PROVE  ~IsValid(cache)'
<1>1. /\ client' = client /\ cache' = cache /\ now' = now + 1
      /\ client \in {"kis", "ls", "lsV2", "kiwoom", "auth2"}
      /\ now \in Nat /\ cache.exp \in Nat
  BY DEF TokenTypes, Tokens, Tick
<1>2. /\ client = "kis" => (IsValid(cache)' <=> cache.exp > now + 1 + StoreMargin)
      /\ client = "ls" => (IsValid(cache)' <=> cache.exp > now + 1 + TokenExpiryMargin)
      /\ client = "lsV2" => (IsValid(cache)' <=> now + 1 < cache.exp)
      /\ client = "kiwoom" => (IsValid(cache)' <=> now + 1 < cache.exp)
      /\ client = "auth2" => (IsValid(cache)' <=> cache.exp > now + 1 + TokenExpiryMargin)
  BY <1>1 DEF IsValid, kisIsValid, lsIsValid, lsV2IsValid, kiwoomIsValid, auth2IsValid
<1> QED
  BY <1>1, <1>2, ValidByClient

\* An idle call is a call.
LEMMA IdleOK ==
    /\ CallOK(Idle)
    /\ Idle.pc = "idle" /\ ~Idle.reply.inTime
BY DEF CallOK, Idle, NoToken, NoReply, NoPlan, Plan, Pcs, Tokens

-----------------------------------------------------------------------------
(* Steps that change one caller's call.                                     *)

\* What a call must satisfy by itself.
Sound(k) ==
    /\ CallOK(k)
    /\ k.reply.inTime => k.reply.kind # "rejected"
    /\ k.pc = "stamped" => k.since <= now
    /\ k.pc = "wire" => k.since + Margin < k.token.srv + k.token.lag

\* A caller's step keeps the invariant when its new call is sound, the lock moves
\* only between the caller and nobody, and the cache changes only as it is freed.
LEMMA CallStep ==
    ASSUME TokenInv, NEW c \in Callers, NEW k,
           call' = [call EXCEPT ![c] = k], Sound(k),
           UNCHANGED <<client, now>>,
           k.pc \in {"issuing", "stamped"} => mu' = c,
           \/ UNCHANGED <<cache, mu>>
           \/ UNCHANGED cache /\ mu = c /\ mu' = None
           \/ UNCHANGED cache /\ mu = None /\ mu' = c /\ ~IsValid(cache)
           \/ mu = c /\ mu' = None /\ cache' \in Tokens /\ Honest(cache')
    PROVE  TokenInv'
<1>1. /\ call = [d \in Callers |-> call[d]]
      /\ \A d \in Callers : call'[d] = IF d = c THEN k ELSE call[d]
      /\ call' = [d \in Callers |-> call'[d]]
  BY DEF TokenInv, TokenTypes
<1>2. TokenTypes'
  BY <1>1 DEF TokenInv, TokenTypes, Sound, CallOK
<1>3. Honest(cache)'
  BY DEF TokenInv, Honest
<1>4. LockInv'
  <2>1. cache' = cache => (IsValid(cache)' <=> IsValid(cache))
    BY DEF IsValid, kisIsValid, lsIsValid, lsV2IsValid, kiwoomIsValid, auth2IsValid
  <2> QED
    BY <1>1, <2>1 DEF TokenInv, LockInv
<1>5. Margin' = Margin
  BY DEF Margin
<1>6. WireInv'
  BY <1>1, <1>5 DEF TokenInv, WireInv, At, Sound
<1>7. TokenAlive'
  BY <1>1 DEF TokenInv, TokenAlive, Sound
<1> QED
  BY <1>2, <1>3, <1>4, <1>6, <1>7 DEF TokenInv

\* A call that waits, has failed or has ended holds no token and no lock.
Quiet(k) ==
    /\ CallOK(k)
    /\ k.pc \in {"idle", "limiter", "token", "done", "failed"}
    /\ ~k.reply.inTime

\* The steps that only move a caller, which holds no lock, to such a call.
LEMMA QuietStep ==
    ASSUME TokenInv, NEW c \in Callers, NEW k, Quiet(k),
           call' = [call EXCEPT ![c] = k], UNCHANGED <<client, now, cache>>,
           UNCHANGED mu \/ (mu = c /\ mu' = None)
    PROVE  TokenInv'
<1>1. Sound(k) /\ k.pc \notin {"issuing", "stamped"}
  BY DEF Quiet, Sound
<1> QED
  BY <1>1, CallStep

\* A call that fails.
LEMMA FailStep ==
    ASSUME TokenInv, NEW c \in Callers, Fail(c), UNCHANGED <<client, now, cache>>,
           UNCHANGED mu \/ (mu = c /\ mu' = None)
    PROVE  TokenInv'
<1>1. PICK k : k = [Idle EXCEPT !.pc = "failed", !.plan = call[c].plan]
  OBVIOUS
<1>2. Quiet(k)
  BY <1>1, IdleOK DEF Quiet, CallOK, Pcs
<1> QED
  BY <1>1, <1>2, QuietStep DEF Fail

\* A call that begins.
LEMMA BeginStep ==
    ASSUME TokenInv, NEW c \in Callers, NEW plan, Begin(c, plan)
    PROVE  TokenInv'
<1>1. PICK k : k = [Idle EXCEPT !.pc = FirstStep(plan), !.plan = plan,
                                !.key = IF plan.pager = "kis" THEN Close ELSE 0]
  OBVIOUS
<1>2. Quiet(k)
  BY <1>1, IdleOK DEF Quiet, CallOK, Pcs, FirstStep
<1> QED
  BY <1>1, <1>2, QuietStep DEF Begin

\* An endpoint begins a call or refuses it.
LEMMA EndpointStep ==
    ASSUME TokenInv, NEW c \in Callers, endpoint(c)
    PROVE  TokenInv'
<1>1. (\E plan : Begin(c, plan)) \/ Refuse(c)
  BY DEF endpoint, kisGetPrice, kisPlaceOrder, kisGetBalance, kisMinuteChart,
         kisMarketLater, kisOrdersLater, lsGetPrice, lsGetOrderbook, lsGetBalance,
         lsGetMultiPrices, lsV2GetPrice, lsV2RawGetPrice, lsV2GetOrderbook,
         lsV2GetBalance, lsV2GetMultiPrices, InvestmentWarning, StockByMinute,
         ChartMinute, ChartIntegratedMinute, ChartIntegratedTick, SendRawREST,
         RoundTrip, kisSendREST, lsSendREST, lsV2SendREST, kiwoomSendREST
<1> QED
  BY <1>1, BeginStep, FailStep DEF Refuse

-----------------------------------------------------------------------------
(* The steps of an attempt.                                                 *)

\* Taking a token: a good one goes on the wire, otherwise the lock is taken.
LEMMA GetTokenStep ==
    ASSUME TokenInv, NEW c \in Callers, GetToken(c)
    PROVE  TokenInv'
<1>1. CallOK(call[c]) /\ (call[c].reply.inTime => call[c].reply.kind # "rejected")
      /\ now \in Nat /\ cache \in Tokens
  BY DEF TokenInv, TokenTypes, TokenAlive
<1>2. CASE IsValid(cache)
  <2>1. PICK k : k = [call[c] EXCEPT !.pc = "wire", !.token = cache, !.since = now]
    OBVIOUS
  <2>2. now + Margin < cache.srv + cache.lag
    BY <1>2, ValidHasMargin DEF TokenInv, TokenTypes
  <2>3. Sound(k)
    BY <1>1, <2>1, <2>2 DEF Sound, CallOK, Pcs
  <2>4. call' = [call EXCEPT ![c] = k] /\ k.pc = "wire"
    BY <1>1, <1>2, <2>1 DEF GetToken, Send, CallOK
  <2> QED
    BY <1>2, <2>3, <2>4, CallStep DEF GetToken
<1>3. CASE ~IsValid(cache)
  <2>1. PICK k : k = [call[c] EXCEPT !.pc = "issuing", !.since = now]
    OBVIOUS
  <2>2. Sound(k)
    BY <1>1, <2>1 DEF Sound, CallOK, Pcs
  <2>3. call' = [call EXCEPT ![c] = k] /\ mu' = c /\ mu = None
    BY <1>3, <2>1 DEF GetToken
  <2> QED
    BY <1>3, <2>2, <2>3, CallStep DEF GetToken
<1> QED
  BY <1>2, <1>3

\* The server's grant.
LEMMA StampStep ==
    ASSUME TokenInv, NEW c \in Callers, stampToken(c)
    PROVE  TokenInv'
<1>1. CallOK(call[c]) /\ (call[c].reply.inTime => call[c].reply.kind # "rejected")
      /\ now \in Nat /\ mu = c
  BY DEF TokenInv, TokenTypes, TokenAlive, LockInv, stampToken, At
<1>2. PICK k : k = [call[c] EXCEPT !.pc = "stamped", !.since = now]
  OBVIOUS
<1>3. Sound(k)
  <2>1. CallOK(k) /\ k.pc = "stamped" /\ k.since = now /\ k.reply = call[c].reply
    BY <1>1, <1>2 DEF CallOK, Pcs
  <2> QED
    BY <1>1, <2>1 DEF Sound
<1>4. call' = [call EXCEPT ![c] = k]
  BY <1>2 DEF stampToken
<1> QED
  BY <1>1, <1>3, <1>4, CallStep DEF stampToken

\* The new token is kept and goes on the wire, unchecked.
LEMMA KeepStep ==
    ASSUME TokenInv, NEW c \in Callers, keepToken(c)
    PROVE  TokenInv'
<1>1. /\ CallOK(call[c]) /\ (call[c].reply.inTime => call[c].reply.kind # "rejected")
      /\ now \in Nat /\ mu = c
      /\ call[c].since \in Nat /\ call[c].since <= now
  BY DEF TokenInv, TokenTypes, CallOK, TokenAlive, LockInv, WireInv, keepToken, At
<1>2. /\ cache' \in Tokens /\ Honest(cache')
      /\ now + Margin < cache'.srv + cache'.lag
  BY <1>1, IssuedHasMargin DEF TokenInv, keepToken
<1>3. PICK k : k = [call[c] EXCEPT !.pc = "wire", !.token = cache', !.since = now]
  OBVIOUS
<1>4. Sound(k)
  BY <1>1, <1>2, <1>3 DEF Sound, CallOK, Pcs
<1>5. call' = [call EXCEPT ![c] = k] /\ k.pc = "wire"
  BY <1>1, <1>3 DEF keepToken, Send, CallOK
<1> QED
  BY <1>1, <1>2, <1>4, <1>5, CallStep DEF keepToken

\* The server's answer: only a request outside its margin can be rejected.
LEMMA ServeStep ==
    ASSUME TokenInv, NEW c \in Callers, serve(c)
    PROVE  TokenInv'
<1>1. /\ CallOK(call[c]) /\ now \in Nat /\ Margin \in Nat
      /\ call[c].token.srv \in Nat /\ call[c].token.lag \in Nat /\ call[c].since \in Nat
      /\ call[c].since + Margin < call[c].token.srv + call[c].token.lag
  BY DEF TokenInv, TokenTypes, CallOK, Tokens, WireInv, serve, At, Margin
<1> DEFINE inTime == now - call[c].since + call[c].token.lag <= Margin
<1>2. PICK answer :
        /\ answer.inTime = inTime
        /\ answer.kind = "rejected" => now >= call[c].token.srv
        /\ call' = [call EXCEPT
               ![c].pc = "reply", ![c].token = NoToken, ![c].since = 0,
               ![c].top0 = IF call[c].all = <<>> THEN top ELSE @,
               ![c].reply = answer]
  BY DEF serve, NoReply
<1>3. PICK k : k = [call[c] EXCEPT
               !.pc = "reply", !.token = NoToken, !.since = 0,
               !.top0 = IF call[c].all = <<>> THEN top ELSE @, !.reply = answer]
  OBVIOUS
<1>4. Sound(k)
  <2>1. CallOK(k) /\ k.pc = "reply" /\ k.reply = answer
    BY <1>1, <1>3 DEF CallOK, Pcs, Tokens, NoToken
  <2>2. inTime => ~(now >= call[c].token.srv)
    BY <1>1
  <2> QED
    BY <1>2, <2>1, <2>2 DEF Sound
<1>5. call' = [call EXCEPT ![c] = k] /\ k.pc = "reply"
  BY <1>1, <1>2, <1>3 DEF CallOK
<1> QED
  BY <1>4, <1>5, CallStep DEF serve

\* A builder run again, and the loop's next turn or its result.
LEMMA TurnStep ==
    ASSUME TokenInv, NEW c \in Callers, transportFails(c) \/ answered(c) \/ return(c)
    PROVE  TokenInv'
<1>1. CallOK(call[c]) /\ ~NoReply.inTime /\ NoToken \in Tokens
  BY DEF TokenInv, TokenTypes, NoReply, NoToken, Tokens
<1>2. ASSUME transportFails(c), ~Fail(c)
      PROVE  TokenInv'
  <2>1. PICK k : k = [call[c] EXCEPT !.pc = FirstStep(call[c].plan), !.tries = @ + 1,
                                     !.reply = NoReply, !.token = NoToken, !.since = 0]
    OBVIOUS
  <2>2. Quiet(k)
    BY <1>1, <2>1 DEF Quiet, CallOK, Pcs, FirstStep
  <2>3. call' = [call EXCEPT ![c] = k]
    BY <1>2, <2>1 DEF transportFails
  <2> QED
    BY <1>2, <2>2, <2>3, QuietStep DEF transportFails
<1>3. CASE transportFails(c) /\ Fail(c)
  BY <1>3, FailStep DEF transportFails
<1>4. CASE answered(c)
  <2> DEFINE m == mergePage(call[c], call[c].reply)
  <2>1. PICK pc : pc = IF m.done THEN "done" ELSE FirstStep(call[c].plan)
    OBVIOUS
  <2>2. PICK k : k = [Idle EXCEPT !.pc = pc, !.plan = call[c].plan, !.key = m.key,
                          !.all = m.all, !.top0 = call[c].top0,
                          !.swallowed = call[c].reply.kind = "error"]
    OBVIOUS
  <2>3. call' = [call EXCEPT ![c] = k]
    BY <1>4, <2>1, <2>2, Zenon DEF answered
  <2>4. Quiet(k)
    <3> HIDE DEF m
    <3>1. pc \in {"done", "limiter", "token"}
      BY <2>1 DEF FirstStep
    <3> QED
      BY <2>2, <3>1, IdleOK DEF Quiet, CallOK, Pcs
  <2> QED
    BY <1>4, <2>3, <2>4, QuietStep DEF answered
<1>5. CASE return(c)
  BY <1>5, IdleOK, QuietStep DEF return, Quiet
<1> QED
  BY <1>2, <1>3, <1>4, <1>5

\* The steps of an attempt keep the invariant.
LEMMA AttemptStep ==
    ASSUME TokenInv, NEW c \in Callers, attempt(c)
    PROVE  TokenInv'
<1>1. CASE limiterWait(c)
  <2>1. CASE Fail(c)
    BY <1>1, <2>1, FailStep DEF limiterWait
  <2>2. CASE ~Fail(c)
    <3>1. PICK k : k = [call[c] EXCEPT !.pc = "token"]
      OBVIOUS
    <3>2. CallOK(call[c]) /\ (call[c].reply.inTime => call[c].reply.kind # "rejected")
      BY DEF TokenInv, TokenTypes, TokenAlive
    <3>3. Sound(k) /\ k.pc = "token"
      BY <3>1, <3>2 DEF Sound, CallOK, Pcs
    <3>4. call' = [call EXCEPT ![c] = k]
      BY <1>1, <2>2, <3>1 DEF limiterWait
    <3> QED
      BY <1>1, <3>3, <3>4, CallStep DEF limiterWait
  <2> QED
    BY <2>1, <2>2
<1>2. CASE issueFails(c)
  <2>1. mu = c
    BY <1>2 DEF TokenInv, LockInv, issueFails
  <2> QED
    BY <1>2, <2>1, FailStep DEF issueFails
<1>3. CASE checkError(c) \/ conversionFails(c) \/ candleFails(c)
  BY <1>3, FailStep DEF checkError, conversionFails, candleFails
<1> QED
  BY <1>1, <1>2, <1>3, GetTokenStep, StampStep, KeepStep, ServeStep, TurnStep DEF attempt

-----------------------------------------------------------------------------
(* The steps of the key store, the clock and the market.                    *)

\* A token installed by hand, or none, while nobody holds the lock.
LEMMA StoreStep ==
    ASSUME TokenInv, NEW t, t \in {relativeToken, NoToken}, storeSet(t), client # "kis"
    PROVE  TokenInv'
<1>1. t \in Tokens /\ Honest(t)
  BY DEF TokenInv, TokenTypes, relativeToken, NoToken, Tokens, Honest
<1>2. /\ UNCHANGED <<client, now, mu, call>> /\ mu = None /\ cache' = t
  BY DEF storeSet
<1>3. TokenTypes' /\ Honest(cache)' /\ TokenAlive'
  BY <1>1, <1>2 DEF TokenInv, TokenTypes, CallOK, Honest, TokenAlive
<1>4. LockInv' /\ WireInv'
  BY <1>2 DEF TokenInv, LockInv, WireInv, At, Margin
<1> QED
  BY <1>3, <1>4 DEF TokenInv

\* The clock.
LEMMA TickStep ==
    ASSUME TokenInv, Tick
    PROVE  TokenInv'
<1>1. /\ UNCHANGED <<client, cache, mu, call>> /\ now' = now + 1 /\ now \in Nat
  BY DEF TokenInv, TokenTypes, Tick
<1>2. TokenTypes' /\ Honest(cache)' /\ TokenAlive'
  BY <1>1 DEF TokenInv, TokenTypes, CallOK, Honest, TokenAlive
<1>3. LockInv'
  BY <1>1, ValidityEnds DEF TokenInv, LockInv
<1>4. WireInv'
  <2>1. \A c \in Callers : call[c].since \in Nat
    BY DEF TokenInv, TokenTypes, CallOK
  <2> QED
    BY <1>1, <2>1 DEF TokenInv, WireInv, At, Margin
<1> QED
  BY <1>2, <1>3, <1>4 DEF TokenInv

\* Steps that change nothing a token is about.
LEMMA OtherStep ==
    ASSUME TokenInv, UNCHANGED <<client, now, cache, mu, call>>
    PROVE  TokenInv'
BY DEF TokenInv, TokenTypes, CallOK, Honest, LockInv, WireInv, At, Margin, TokenAlive,
       IsValid, kisIsValid, lsIsValid, lsV2IsValid, kiwoomIsValid, auth2IsValid

-----------------------------------------------------------------------------
(* The theorems.                                                            *)

\* The invariant is inductive.
LEMMA TokenInvStep == TokenInv /\ [Next]_vars => TokenInv'
<1> SUFFICES ASSUME TokenInv, [Next]_vars PROVE TokenInv'
  OBVIOUS
<1>1. ASSUME NEW c \in Callers, endpoint(c) \/ attempt(c) PROVE TokenInv'
  BY <1>1, EndpointStep, AttemptStep
<1>2. CASE \/ lsSetToken \/ lsV2SetToken \/ kiwoomSetToken
           \/ lsClearToken \/ lsV2ClearToken \/ kiwoomClearToken
  BY <1>2, StoreStep DEF lsSetToken, lsV2SetToken, kiwoomSetToken,
                         lsClearToken, lsV2ClearToken, kiwoomClearToken
<1>3. CASE Tick
  BY <1>3, TickStep
<1>4. CASE newRow \/ UNCHANGED vars
  BY <1>4, OtherStep DEF newRow, vars
<1> QED
  BY <1>1, <1>2, <1>3, <1>4 DEF Next

\* It holds in every reachable state.
LEMMA TokenInvAlways == Spec => []TokenInv
<1>1. Init => TokenInv
  <2> SUFFICES ASSUME Init PROVE TokenInv
    OBVIOUS
  <2>1. \A c \in Callers : call[c] = Idle
    BY DEF Init
  <2>2. TokenTypes
    BY <2>1, IdleOK DEF Init, TokenTypes, NoToken, Tokens
  <2>3. Honest(cache) /\ LockInv /\ WireInv /\ TokenAlive
    BY <2>1, IdleOK DEF Init, NoToken, Honest, LockInv, WireInv, At, TokenAlive
  <2> QED
    BY <2>2, <2>3 DEF TokenInv
<1> QED
  BY <1>1, TokenInvStep, PTL DEF Spec

\* No request that arrives within its client's margin is rejected for its token:
\* isValid's margin, whatever the clock, the delay of the issue (issueToken) and
\* the other callers of the shared cache do.
THEOREM TokensStayAlive == Spec => []TokenAlive
<1>1. TokenInv => TokenAlive
  BY DEF TokenInv
<1> QED
  BY <1>1, TokenInvAlways, PTL

\* An issued token never replaces one that is still good: whoever issues has held
\* the key store's lock since it found the cache run out (GetToken), and nothing
\* makes an expired token good again.
THEOREM NeverTwoIssues == Spec => OneIssue
<1>1. TokenInv /\ [Next]_vars =>
        [\A c \in Callers :
            At(c, "stamped") /\ cache' # cache /\ call'[c].pc # "stamped" => ~IsValid(cache)]_vars
  BY DEF TokenInv, LockInv, At
<1> QED
  BY <1>1, TokenInvAlways, PTL DEF Spec, OneIssue

-----------------------------------------------------------------------------
(* Induction on the natural numbers, as a fact about a set.                 *)

\* A set that holds 0 and the successor of each of its numbers holds them all.
LEMMA NatSetInduction ==
    ASSUME NEW S, 0 \in S, \A n \in Nat : n \in S => n + 1 \in S
    PROVE  Nat \subseteq S
<1> DEFINE T == Nat \ S
<1>1. SUFFICES ASSUME T # {} PROVE FALSE
  OBVIOUS
<1>2. PICK R : R = OpToRel(<, Nat)
  OBVIOUS
<1>3. IsWellFoundedOn(R, Nat)
  BY <1>2, NatLessThanWellFounded
<1>4. \A a, b \in Nat : a < b => <<a, b>> \in R
  BY <1>2 DEF OpToRel
<1>5. PICK x \in T : \A y \in T : ~ (<<y, x>> \in R)
  <2>1. T \subseteq Nat
    OBVIOUS
  <2> HIDE DEF T
  <2> QED
    BY <1>1, <1>3, <2>1, WFMin
<1>6. x # 0 /\ x \in Nat /\ x - 1 \in Nat
  BY <1>5
<1>7. x - 1 \in T
  BY <1>5, <1>6
<1>8. <<x - 1, x>> \in R
  <2>1. x - 1 < x
    BY <1>6
  <2> QED
    BY <1>4, <1>6, <2>1
<1> QED
  BY <1>5, <1>7, <1>8

-----------------------------------------------------------------------------
(* Runs of rows.                                                            *)

\* The constants of the pages.
LEMMA PageConstants ==
    PageSize \in Nat /\ PageSize > 1 /\ Close \in Nat /\ Close > 1
BY RestAssumption

\* The smaller of two numbers.
LEMMA LowerOf ==
    ASSUME NEW a \in Nat, NEW b \in Nat
    PROVE  /\ Lower(a, b) \in Nat /\ Lower(a, b) <= a /\ Lower(a, b) <= b
           /\ Lower(a, b) = a \/ Lower(a, b) = b
BY DEF Lower

\* A run upwards.
LEMMA UpRun ==
    ASSUME NEW a \in Nat, NEW m \in Nat
    PROVE  /\ Up(a, m) \in Seq((a + 1)..(a + m)) /\ Len(Up(a, m)) = m
           /\ DOMAIN Up(a, m) = 1..m
           /\ \A i \in 1..m : Up(a, m)[i] = a + i
BY DEF Up

\* Where a run upwards begins.
LEMMA UpHead ==
    ASSUME NEW a \in Nat, NEW m \in Nat, m >= 1
    PROVE  Head(Up(a, m)) = a + 1
<1>1. PICK s : s = Up(a, m)
  OBVIOUS
<1>2. s \in Seq(Nat) /\ s # <<>> /\ s[1] = a + 1
  BY <1>1 DEF Up
<1>3. Head(s) = s[1]
  BY <1>2
<1> QED
  BY <1>1, <1>2, <1>3

\* A run downwards.
LEMMA DownRun ==
    ASSUME NEW b \in Nat, NEW m \in 0..b
    PROVE  /\ Down(b, m) \in Seq((b + 1 - m)..b) /\ Len(Down(b, m)) = m
           /\ DOMAIN Down(b, m) = 1..m
           /\ \A i \in 1..m : Down(b, m)[i] = b + 1 - i
BY DEF Down

\* Two runs upwards that meet are one.
LEMMA UpJoin ==
    ASSUME NEW a \in Nat, NEW m \in Nat, NEW p \in Nat
    PROVE  Up(a, m) \o Up(a + m, p) = Up(a, m + p)
<1>1. PICK s : s = Up(a, m)
  OBVIOUS
<1>2. PICK t : t = Up(a + m, p)
  OBVIOUS
<1>3. /\ s \in Seq(Nat) /\ Len(s) = m /\ t \in Seq(Nat) /\ Len(t) = p
  BY <1>1, <1>2 DEF Up
<1>4. PICK u : u = s \o t
  OBVIOUS
<1>5. /\ u \in Seq(Nat) /\ Len(u) = m + p
      /\ \A i \in 1..m : u[i] = s[i]
      /\ \A i \in (m + 1)..(m + p) : u[i] = t[i - m] /\ i - m \in 1..p
  <2>1. u \in Seq(Nat) /\ Len(u) = m + p
    BY <1>3, <1>4
  <2>2. \A i \in 1..(Len(s) + Len(t)) :
            (s \o t)[i] = IF i <= Len(s) THEN s[i] ELSE t[i - Len(s)]
    BY <1>3, ConcatProperties
  <2>3. \A i \in 1..(m + p) : u[i] = IF i <= m THEN s[i] ELSE t[i - m]
    BY <1>3, <1>4, <2>2
  <2> QED
    BY <2>1, <2>3
<1>6. \A i \in 1..(m + p) : u[i] = a + i
  <2>1. \A i \in 1..m : u[i] = a + i
    BY <1>1, <1>5 DEF Up
  <2>2. ASSUME NEW i \in (m + 1)..(m + p) PROVE u[i] = a + i
    <3>1. u[i] = (a + m) + (i - m)
      BY <1>2, <1>5 DEF Up
    <3> QED
      BY <3>1
  <2>3. ASSUME NEW i \in 1..(m + p), ~(i \in 1..m) PROVE i \in (m + 1)..(m + p)
    BY <2>3
  <2> QED
    BY <2>1, <2>2, <2>3
<1>7. u = [i \in 1..(m + p) |-> a + i]
  BY <1>5, <1>6
<1> QED
  BY <1>1, <1>2, <1>4, <1>7 DEF Up

\* A run downwards reaches one row further.
LEMMA DownAppend ==
    ASSUME NEW b \in Nat, NEW n \in 0..b
    PROVE  Append(Down(b, n), b - n) = Down(b, n + 1)
BY DEF Down

\* A run downwards, read backwards.
LEMMA DownReverse ==
    ASSUME NEW b \in Nat, NEW n \in 0..b
    PROVE  Reverse(Down(b, n)) = Up(b - n, n)
<1>1. PICK s : s = Down(b, n)
  OBVIOUS
<1>2. Len(s) = n /\ \A i \in 1..n : s[i] = b + 1 - i
  BY <1>1, DownRun
<1>3. \A i \in 1..n : s[(n - i) + 1] = (b - n) + i
  BY <1>2
<1> QED
  BY <1>1, <1>2, <1>3 DEF Reverse, Up

\* The rows of a run downwards.
LEMMA DownContains ==
    ASSUME NEW b \in Nat, NEW n \in 0..b, NEW t \in Nat
    PROVE  Contains(Down(b, n), t) <=> b < t + n /\ t <= b
<1>1. PICK s : s = Down(b, n)
  OBVIOUS
<1>2. Len(s) = n /\ \A i \in 1..n : s[i] = b + 1 - i
  BY <1>1, DownRun
<1>3. ASSUME b < t + n, t <= b
      PROVE  \E i \in 1..n : s[i] = t
  <2>1. b + 1 - t \in 1..n /\ b + 1 - (b + 1 - t) = t
    BY <1>3
  <2> QED
    BY <1>2, <2>1
<1>4. ASSUME NEW i \in 1..n, s[i] = t
      PROVE  b < t + n /\ t <= b
  BY <1>2, <1>4
<1> QED
  BY <1>1, <1>2, <1>3, <1>4 DEF Contains

\* What it takes to hold the rows of a set, each once.
LEMMA OnceIs ==
    ASSUME NEW s, NEW S
    PROVE  OnceEach(s, S) <=>
             /\ \A i \in DOMAIN s : s[i] \in S
             /\ \A r \in S : \E i \in DOMAIN s : s[i] = r
             /\ \A i, j \in DOMAIN s : s[i] = s[j] => i = j
<1>1. IsInjective(s) <=> \A i, j \in DOMAIN s : s[i] = s[j] => i = j
  BY DEF IsInjective
<1>2. ASSUME \A i \in DOMAIN s : s[i] \in S, \A r \in S : \E i \in DOMAIN s : s[i] = r
      PROVE  ToSet(s) = S
  <2>1. ToSet(s) \subseteq S
    BY <1>2 DEF ToSet
  <2>2. S \subseteq ToSet(s)
    BY <1>2 DEF ToSet
  <2> QED
    BY <2>1, <2>2
<1>3. ASSUME ToSet(s) = S
      PROVE  /\ \A i \in DOMAIN s : s[i] \in S
             /\ \A r \in S : \E i \in DOMAIN s : s[i] = r
  BY <1>3 DEF ToSet
<1> QED
  BY <1>1, <1>2, <1>3 DEF OnceEach

\* A run holds the rows between its ends, each once.
LEMMA RunsOnce ==
    ASSUME NEW b \in Nat, NEW n \in 0..b
    PROVE  /\ OnceEach(Down(b, n), (b + 1 - n)..b)
           /\ OnceEach(Up(b - n, n), (b + 1 - n)..b)
<1>1. ASSUME NEW s, NEW f, f \in {"up", "down"}, DOMAIN s = 1..n,
             \A i \in 1..n : s[i] = IF f = "up" THEN (b - n) + i ELSE b + 1 - i
      PROVE  OnceEach(s, (b + 1 - n)..b)
  <2>1. \A i \in 1..n : s[i] \in (b + 1 - n)..b
    BY <1>1
  <2>2. ASSUME NEW r \in (b + 1 - n)..b
        PROVE  \E i \in 1..n : s[i] = r
    <3>1. r + n - b \in 1..n /\ (b - n) + (r + n - b) = r
      OBVIOUS
    <3>2. b + 1 - r \in 1..n /\ b + 1 - (b + 1 - r) = r
      OBVIOUS
    <3> QED
      BY <1>1, <3>1, <3>2
  <2>3. \A i, j \in 1..n : s[i] = s[j] => i = j
    BY <1>1
  <2> QED
    <3>1. PICK D : D = 1..n
      OBVIOUS
    <3>2. PICK S : S = (b + 1 - n)..b
      OBVIOUS
    <3>3. DOMAIN s = D /\ \A i \in D : s[i] \in S
      BY <1>1, <2>1, <3>1, <3>2
    <3>4. \A r \in S : \E i \in D : s[i] = r
      BY <2>2, <3>1, <3>2
    <3>5. \A i, j \in D : s[i] = s[j] => i = j
      BY <2>3, <3>1
    <3> QED
      BY <3>2, <3>3, <3>4, <3>5, OnceIs, Zenon
<1>2. OnceEach(Down(b, n), (b + 1 - n)..b)
  <2>1. DOMAIN Down(b, n) = 1..n /\ \A i \in 1..n : Down(b, n)[i] = b + 1 - i
    BY DownRun
  <2> QED
    BY <1>1, <2>1
<1>3. OnceEach(Up(b - n, n), (b + 1 - n)..b)
  <2>1. DOMAIN Up(b - n, n) = 1..n /\ \A i \in 1..n : Up(b - n, n)[i] = (b - n) + i
    BY UpRun
  <2> QED
    BY <1>1, <2>1
<1> QED
  BY <1>2, <1>3

\* Disjoint pages, one after the other, hold the rows of both, each once.
LEMMA OnceJoin ==
    ASSUME NEW A, NEW B, A \cap B = {}, NEW s \in Seq(A), NEW t \in Seq(B),
           OnceEach(s, A), OnceEach(t, B)
    PROVE  s \o t \in Seq(A \cup B) /\ OnceEach(s \o t, A \cup B)
<1>1. PICK m : m = Len(s)
  OBVIOUS
<1>2. PICK p : p = Len(t)
  OBVIOUS
<1>3. PICK u : u = s \o t
  OBVIOUS
<1>4. /\ m \in Nat /\ p \in Nat /\ u \in Seq(A \cup B) /\ DOMAIN u = 1..(m + p)
      /\ \A i \in 1..m : u[i] = s[i] /\ s[i] \in A
      /\ \A i \in (m + 1)..(m + p) : u[i] = t[i - m] /\ i - m \in 1..p
      /\ \A i \in 1..p : u[m + i] = t[i] /\ m + i \in 1..(m + p) /\ t[i] \in B
      /\ DOMAIN s = 1..m /\ DOMAIN t = 1..p
  BY <1>1, <1>2, <1>3
<1>5. /\ \A i \in 1..(m + p) : u[i] \in A \cup B
      /\ \A r \in A \cup B : \E i \in 1..(m + p) : u[i] = r
  <2>1. \A r \in A : \E i \in 1..(m + p) : u[i] = r
    <3> SUFFICES ASSUME NEW r \in A PROVE \E i \in 1..(m + p) : u[i] = r
      OBVIOUS
    <3>1. PICK i \in 1..m : s[i] = r
      BY <1>4 DEF OnceEach, ToSet
    <3>2. i \in 1..(m + p)
      BY <1>4
    <3> QED
      BY <1>4, <3>1, <3>2
  <2>2. \A r \in B : \E i \in 1..(m + p) : u[i] = r
    <3> SUFFICES ASSUME NEW r \in B PROVE \E i \in 1..(m + p) : u[i] = r
      OBVIOUS
    <3>1. PICK i \in 1..p : t[i] = r
      BY <1>4 DEF OnceEach, ToSet
    <3> QED
      BY <1>4, <3>1
  <2>3. \A i \in 1..(m + p) : u[i] \in A \cup B
    BY <1>4
  <2> QED
    BY <2>1, <2>2, <2>3
<1>6. \A i, j \in 1..(m + p) : u[i] = u[j] => i = j
  <2> SUFFICES ASSUME NEW i \in 1..(m + p), NEW j \in 1..(m + p), u[i] = u[j]
               PROVE  i = j
    OBVIOUS
  <2>1. /\ \A a, b \in 1..m : s[a] = s[b] => a = b
        /\ \A a, b \in 1..p : t[a] = t[b] => a = b
    BY <1>4 DEF OnceEach, IsInjective
  <2>2. CASE i <= m /\ j <= m
    BY <1>4, <2>1, <2>2
  <2>3. CASE ~(i <= m) /\ ~(j <= m)
    <3>1. i \in (m + 1)..(m + p) /\ j \in (m + 1)..(m + p)
      BY <1>4, <2>3
    <3>2. i - m = j - m
      BY <1>4, <2>1, <3>1
    <3> QED
      BY <1>4, <3>2
  <2>4. ASSUME NEW a \in 1..m, NEW b \in (m + 1)..(m + p) PROVE u[a] # u[b]
    BY <1>4
  <2> QED
    BY <1>4, <2>2, <2>3, <2>4
<1> QED
  <2>1. PICK D : D = 1..(m + p)
    OBVIOUS
  <2>2. DOMAIN u = D /\ u \in Seq(A \cup B)
    BY <1>4, <2>1
  <2>3. /\ \A i \in D : u[i] \in A \cup B
        /\ \A r \in A \cup B : \E i \in D : u[i] = r
    BY <1>5, <2>1
  <2>4. \A i, j \in D : u[i] = u[j] => i = j
    BY <1>6, <2>1
  <2>5. OnceEach(u, A \cup B)
    BY <2>2, <2>3, <2>4, OnceIs, Zenon
  <2> QED
    BY <1>3, <2>2, <2>5

-----------------------------------------------------------------------------
(* The loop over a page of KIS.                                             *)

\* How many rows a run down from b has with those from row a down, i of them.
Further(b, n, a, i) == IF n < (b - a) + i THEN (b - a) + i ELSE n

\* A page whose first m rows are of the day, from row a downwards.
PageFrom(rows, a, m) ==
    /\ Len(rows) \in Nat /\ m <= Len(rows)
    /\ \A i \in 1..Len(rows) : rows[i].day = "today" <=> i <= m
    /\ \A i \in 1..m : rows[i].t = a + 1 - i

\* A run down from b meets a page that begins at row a, with m rows of the day: what
\* is new in the page makes the run longer, without a gap and without a repetition.
LEMMA Gathered ==
    ASSUME NEW b \in Nat, NEW n \in 0..b, NEW a \in 0..b, NEW m \in 0..a, b <= a + n,
           NEW rows, PageFrom(rows, a, m)
    PROVE  gathered(Down(b, n), rows) = Down(b, Further(b, n, a, m))
<1> SUFFICES ASSUME Len(rows) \in Nat, m <= Len(rows),
                    \A i \in 1..Len(rows) : rows[i].day = "today" <=> i <= m,
                    \A i \in 1..m : rows[i].t = a + 1 - i
             PROVE  gathered(Down(b, n), rows) = Down(b, Further(b, n, a, m))
  BY DEF PageFrom
<1> DEFINE L == Len(rows)
           Closed(i) == Down(b, Further(b, n, a, IF i <= m THEN i ELSE m))
           Loop(f) == f = [i \in 0..L |->
                             IF i = 0 THEN Down(b, n) ELSE addRow(f[i - 1], rows[i])]
           upTo == CHOOSE f : Loop(f)
<1>1. Closed(0) = Down(b, n)
  BY DEF Further
<1>2. ASSUME NEW i \in 1..L PROVE Closed(i) = addRow(Closed(i - 1), rows[i])
  <2>1. CASE i <= m
    <3>1. i \in 1..m /\ i - 1 <= m
      BY <2>1
    <3>2. PICK p : p = Further(b, n, a, i - 1)
      OBVIOUS
    <3>3. PICK t : t = rows[i].t
      OBVIOUS
    <3>4. /\ t = a + 1 - i /\ t \in Nat
          /\ p \in 0..b /\ b <= (p + t)
          /\ Further(b, n, a, i) = IF b < t + p THEN p ELSE p + 1
          /\ ~(b < t + p) => t = b - p
      <4>1. t = a + 1 - i
        BY <3>1, <3>3
      <4>2. t \in Nat /\ i \in Nat /\ i >= 1 /\ i <= a
        BY <3>1, <4>1
      <4>3. p \in 0..b /\ b <= (p + t)
        BY <3>2, <4>1, <4>2 DEF Further
      <4>4. Further(b, n, a, i) = IF b < t + p THEN p ELSE p + 1
        BY <3>2, <4>1, <4>2 DEF Further
      <4> QED
        BY <4>1, <4>2, <4>3, <4>4
    <3>5. t <= b
      BY <3>4
    <3>6. Contains(Down(b, p), t) <=> b < t + p
      BY <3>4, <3>5, DownContains
    <3>7. ~(b < t + p) => Append(Down(b, p), t) = Down(b, p + 1)
      BY <3>4, DownAppend
    <3>8. Closed(i - 1) = Down(b, p) /\ Closed(i) = Down(b, Further(b, n, a, i))
      BY <3>1, <3>2
    <3>9. rows[i].day = "today"
      BY <3>1
    <3> QED
      BY <3>3, <3>4, <3>6, <3>7, <3>8, <3>9 DEF addRow
  <2>2. CASE ~(i <= m)
    <3>1. rows[i].day # "today"
      BY <2>2
    <3>2. Closed(i) = Closed(i - 1)
      <4>1. (IF i <= m THEN i ELSE m) = (IF i - 1 <= m THEN i - 1 ELSE m)
        BY <2>2
      <4> QED
        BY <4>1
    <3> QED
      BY <3>1, <3>2 DEF addRow
  <2> QED
    BY <2>1, <2>2
<1> HIDE DEF Closed
<1>3. Loop([i \in 0..L |-> Closed(i)])
  <2>1. PICK g : g = [i \in 0..L |-> Closed(i)]
    OBVIOUS
  <2>2. \A i \in 0..L : g[i] = IF i = 0 THEN Down(b, n) ELSE addRow(g[i - 1], rows[i])
    BY <1>1, <1>2, <2>1
  <2>3. g = [i \in 0..L |-> IF i = 0 THEN Down(b, n) ELSE addRow(g[i - 1], rows[i])]
    BY <2>1, <2>2
  <2> QED
    BY <2>1, <2>3
<1>4. Loop(upTo)
  BY <1>3
<1>5. PICK f : f = upTo
  OBVIOUS
<1>6. \A i \in 0..L : f[i] = IF i = 0 THEN Down(b, n) ELSE addRow(f[i - 1], rows[i])
  <2>1. f = [i \in 0..L |-> IF i = 0 THEN Down(b, n) ELSE addRow(f[i - 1], rows[i])]
    BY <1>4, <1>5
  <2> QED
    BY <2>1
<1>7. \A i \in Nat : i \in 0..L => f[i] = Closed(i)
  <2> DEFINE S == {i \in Nat : i \in 0..L => f[i] = Closed(i)}
  <2>1. 0 \in S
    BY <1>1, <1>6
  <2>2. ASSUME NEW i \in Nat, i \in S PROVE i + 1 \in S
    <3>1. CASE i + 1 \in 0..L
      <4>1. i \in 0..L /\ f[i] = Closed(i) /\ i + 1 \in 1..L /\ (i + 1) - 1 = i
        BY <2>2, <3>1
      <4>2. f[i + 1] = addRow(f[i], rows[i + 1])
        BY <1>6, <3>1, <4>1
      <4>3. Closed(i + 1) = addRow(Closed(i), rows[i + 1])
        BY <1>2, <4>1
      <4> QED
        BY <4>1, <4>2, <4>3
    <3> QED
      BY <3>1
  <2>3. Nat \subseteq S
    <3> HIDE DEF S
    <3> QED
      BY <2>1, <2>2, NatSetInduction
  <2> QED
    BY <2>3
<1>8. gathered(Down(b, n), rows) = upTo[L]
  BY DEF gathered
<1>9. Closed(L) = Down(b, Further(b, n, a, m))
  <2>1. (IF L <= m THEN L ELSE m) = m
    OBVIOUS
  <2> QED
    BY <2>1 DEF Closed
<1>10. upTo[L] = Closed(L)
  <2>1. L \in Nat /\ L \in 0..L
    OBVIOUS
  <2>2. f[L] = Closed(L)
    BY <1>7, <2>1
  <2> QED
    BY <1>5, <2>2
<1> QED
  BY <1>8, <1>9, <1>10

-----------------------------------------------------------------------------
(* The inductive invariant of the page loops.                               *)

Days == {"plain", "mixed", "holiday"}
Appending == {"t1405", "t8412", "t1302"}
Pagers == {"none", "kis", "t8452", "t8453"} \cup Appending
Working == {"limiter", "token", "issuing", "stamped", "wire", "reply"}

PlanOK(plan) ==
    /\ plan.pager \in Pagers
    /\ plan.pager = "kis" => plan.cont /\ plan.checks

\* The loop has no row yet.
Fresh(k) == k.all = <<>> /\ k.key = IF k.plan.pager = "kis" THEN Close ELSE 0

\* The loop goes on, and has every row from its key on (at KIS, its key included);
\* on a mixed day its key may be a row of the day before, and then it has them all.
KisGoing(k, d, t) ==
    /\ d # "holiday"
    /\ d = "mixed" => t = k.top0
    /\ 1 < k.key /\ k.key < Close
    /\ \/ k.key <= k.top0 /\ k.all = Down(k.top0, k.top0 + 1 - k.key)
       \/ d = "mixed" /\ k.all = Down(k.top0, k.top0)

AppendGoing(k) ==
    LET rest == (k.key + 1)..k.top0
    IN  k.key < k.top0 /\ k.all \in Seq(rest) /\ OnceEach(k.all, rest)
MinutesGoing(k) ==
    1 < k.key /\ k.key <= k.top0 /\ k.all = Up(k.key - 1, k.top0 + 1 - k.key)

\* Ticks after row b, in time order, and one of them for every time there was.
TicksAfter(rows, b, n) ==
    /\ rows \in Seq((b + 1)..n)
    /\ \A i, j \in DOMAIN rows : i < j => rows[i] < rows[j]
    /\ \A r \in (b + 1)..n :
          \E i \in DOMAIN rows : Time("t8453", rows[i]) = Time("t8453", r)
TicksGoing(k) ==
    2 * (k.key - 1) < k.top0 /\ TicksAfter(k.all, 2 * (k.key - 1), k.top0)

Going(k, d, t) ==
    /\ k.plan.cont /\ k.all # <<>>
    /\ k.key \in Nat \ {0} /\ k.top0 \in 1..t
    /\ CASE k.plan.pager = "kis"   -> KisGoing(k, d, t)
         [] k.plan.pager = "t8452" -> MinutesGoing(k)
         [] k.plan.pager = "t8453" -> TicksGoing(k)
         [] OTHER                  -> AppendGoing(k)

\* A reply holds the page asked for, as if no row had come since the first page.
Replied(k, d, t) ==
    LET page == Page(k, d, k.top0)
    IN  /\ k.top0 \in 1..t
        /\ k.all = <<>> => k.top0 = t
        /\ k.reply.rows = page.rows
        /\ k.reply.more = page.more
        /\ k.reply.key = page.key

\* What a finished loop returns.
Result(k, d) ==
    /\ k.plan.pager = "kis" => k.all = IF d = "holiday" THEN <<>> ELSE Up(0, k.top0)
    /\ k.plan.pager \notin {"none", "kis"} /\ ~k.plan.cont =>
          OnceEach(k.all, {r \in 1..k.top0 : r + PageSize > k.top0})
    /\ k.plan.pager \in Appending /\ k.plan.cont => OnceEach(k.all, 1..k.top0)
    /\ k.plan.pager = "t8452" /\ k.plan.cont => k.all = Up(0, k.top0)
    /\ k.plan.pager = "t8453" /\ k.plan.cont => TickOfEachTime(k.all, k.top0)

LoopOK(k, d, t) ==
    /\ PlanOK(k.plan)
    /\ k.pc = "idle" => k.plan.pager = "none"
    /\ k.pc \in {"idle", "failed"} \/ k.plan.pager = "none" => k.all = <<>>
    /\ k.plan.pager # "none" =>
          /\ k.pc \in Working => t \in 1..Close /\ (Fresh(k) \/ Going(k, d, t))
          /\ k.pc = "reply" => IF k.reply.kind = "page" THEN Replied(k, d, t) ELSE ~k.reply.more
          /\ k.pc = "done" /\ ~k.swallowed => Result(k, d)

\* One page loop at a time.
OneLoop ==
    \A c, d \in Callers :
        c # d => call[c].plan.pager = "none" \/ call[d].plan.pager = "none"

PagesInv ==
    /\ day \in Days /\ top \in 0..Close
    /\ OneLoop
    /\ \A c \in Callers : LoopOK(call[c], day, top)

-----------------------------------------------------------------------------
(* KIS.                                                                     *)

\* A page of KIS: the rows of the day from row a downwards, then rows of the day
\* before; a short page has all rows of the day.
KisShape(rows, a, d) ==
    /\ Len(rows) \in 1..PageSize
    /\ \A i \in 1..Len(rows) :
          /\ rows[i].day = "today" <=> d # "holiday" /\ i <= a
          /\ d # "holiday" /\ i <= a => rows[i].t = a + 1 - i
          /\ rows[i].t \in Nat
    /\ d # "holiday" /\ Len(rows) < PageSize => a <= Len(rows)
    /\ d = "plain" => Len(rows) <= a

\* The server's page has that shape, from the hour asked for.
LEMMA KisRows ==
    ASSUME NEW d \in Days, NEW key \in 1..Close, NEW n \in 1..Close,
           NEW a, a = Lower(key, n), NEW rows, rows = KisPage(key, d, n).rows
    PROVE  KisShape(rows, a, d)
<1> USE PageConstants
<1> DEFINE Row == [day : {"today", "past"}, t : Nat]
           Rows(of, m) == [i \in 1..m |-> [day |-> of, t |-> m + 1 - i]]
<1>1. a \in Nat /\ a >= 1
  BY DEF Lower
<1>2. ASSUME NEW of \in {"today", "past"}, NEW m \in Nat
      PROVE  /\ Rows(of, m) \in Seq(Row) /\ Len(Rows(of, m)) = m
             /\ \A i \in 1..m : Rows(of, m)[i].day = of /\ Rows(of, m)[i].t = m + 1 - i
  OBVIOUS
<1> HIDE DEF Rows
<1>3. PICK today : today = IF d = "holiday" THEN <<>> ELSE Rows("today", a)
  OBVIOUS
<1>4. PICK past : past = IF d = "plain" THEN <<>> ELSE Rows("past", Close - 1)
  OBVIOUS
<1>5. PICK p : p = IF d = "holiday" THEN 0 ELSE a
  OBVIOUS
<1>6. PICK q : q = IF d = "plain" THEN 0 ELSE Close - 1
  OBVIOUS
<1>7. /\ p \in Nat /\ q \in Nat /\ p + q >= 1
      /\ d # "holiday" => p = a
      /\ d = "plain" => q = 0
  BY <1>1, <1>5, <1>6 DEF Days
<1>8. /\ today \in Seq(Row) /\ Len(today) = p
      /\ \A i \in 1..p : today[i].day = "today" /\ today[i].t = a + 1 - i
  <2>1. CASE d = "holiday"
    <3>1. today = <<>> /\ p = 0
      BY <1>3, <1>5, <2>1
    <3> QED
      BY <3>1
  <2>2. CASE d # "holiday"
    <3>1. today = Rows("today", a) /\ p = a
      BY <1>3, <1>5, <2>2
    <3> QED
      BY <1>1, <1>2, <3>1
  <2> QED
    BY <2>1, <2>2
<1>9. /\ past \in Seq(Row) /\ Len(past) = q
      /\ \A i \in 1..q : past[i].day = "past"
  <2>1. CASE d = "plain"
    <3>1. past = <<>> /\ q = 0
      BY <1>4, <1>6, <2>1
    <3> QED
      BY <3>1
  <2>2. CASE d # "plain"
    <3>1. past = Rows("past", q) /\ q \in Nat
      BY <1>4, <1>6, <2>2
    <3> QED
      BY <1>2, <3>1
  <2> QED
    BY <2>1, <2>2
<1>10. PICK all : all = today \o past
  OBVIOUS
<1>11. /\ all \in Seq(Row) /\ Len(all) = p + q
       /\ \A i \in 1..(p + q) : all[i] = IF i <= p THEN today[i] ELSE past[i - p]
  <2>1. /\ all \in Seq(Row) /\ Len(all) = Len(today) + Len(past)
        /\ \A i \in 1..(Len(today) + Len(past)) :
              all[i] = IF i <= Len(today) THEN today[i] ELSE past[i - Len(today)]
    <3>1. today \in Seq(Row) /\ past \in Seq(Row)
      BY <1>8, <1>9
    <3> HIDE DEF Row
    <3> QED
      BY ONLY <1>10, <3>1, ConcatProperties
  <2> QED
    BY <1>8, <1>9, <2>1
<1>12. PICK L : L = Lower(PageSize, p + q)
  OBVIOUS
<1>13. /\ L \in 1..PageSize /\ L <= p + q
       /\ L < PageSize => L = p + q
  BY <1>7, <1>12 DEF Lower
<1>14. rows = SubSeq(all, 1, L)
  BY <1>3, <1>4, <1>10, <1>11, <1>12 DEF KisPage, Rows
<1>15. /\ rows = [i \in 1..L |-> all[i]]
       /\ Len(rows) = L
  <2>1. L \in 0..Len(all)
    BY <1>7, <1>11, <1>13
  <2>2. rows = [i \in 1..L |-> all[1 + i - 1]]
    BY <1>11, <1>13, <1>14, <2>1
  <2>3. \A i \in 1..L : 1 + i - 1 = i
    BY <1>13
  <2> QED
    BY <1>13, <2>2, <2>3
<1>16. ASSUME NEW i \in 1..L
       PROVE  /\ rows[i].t \in Nat
              /\ i <= p => rows[i].day = "today" /\ rows[i].t = a + 1 - i
              /\ ~(i <= p) => rows[i].day = "past"
  <2>1. i \in 1..(p + q) /\ rows[i] = all[i] /\ all[i] \in Row
    <3>1. i \in 1..(p + q)
      BY <1>7, <1>13
    <3>2. all[i] \in Row
      <4> HIDE DEF Row
      <4>1. i \in 1..Len(all)
        BY <1>11, <3>1
      <4> QED
        BY <1>11, <4>1
    <3> QED
      BY <1>15, <3>1, <3>2
  <2>2. CASE i <= p
    <3>1. i \in 1..p
      BY <1>7, <2>2
    <3>2. rows[i] = today[i]
      BY <1>11, <2>1, <2>2
    <3> QED
      BY <1>8, <2>1, <2>2, <3>1, <3>2
  <2>3. CASE ~(i <= p)
    <3>1. i - p \in 1..q
      BY <1>7, <2>1, <2>3
    <3>2. rows[i] = past[i - p]
      BY <1>11, <2>1, <2>3
    <3> QED
      BY <1>9, <2>1, <2>3, <3>1, <3>2
  <2> QED
    BY <2>2, <2>3
<1>17. ASSUME NEW i \in 1..L
       PROVE  i <= p <=> d # "holiday" /\ i <= a
  BY <1>1, <1>5, <1>13
<1> QED
  BY <1>7, <1>13, <1>15, <1>16, <1>17 DEF KisShape

\* A turn of KIS's loop over the page it asked for: it ends with the whole day, or with
\* nothing for a day without trading; otherwise it asks for an earlier hour, and has
\* every row from there on.
LEMMA KisTurn ==
    ASSUME NEW d \in Days, NEW t \in 1..Close, NEW k, k.plan.pager = "kis",
           k.top0 \in 1..t, k.all = <<>> => k.top0 = t, Fresh(k) \/ Going(k, d, t),
           NEW page, page.rows = KisPage(k.key, d, k.top0).rows,
           NEW m, m = GetMinuteChart(k, page)
    PROVE  /\ m.done => m.all = IF d = "holiday" THEN <<>> ELSE Up(0, k.top0)
           /\ ~m.done =>
                 /\ d # "holiday" /\ m.all # <<>>
                 /\ m.key \in Nat /\ 1 < m.key /\ m.key < k.key /\ m.key < Close
                 /\ d = "mixed" => t = k.top0
                 /\ \/ m.key <= k.top0 /\ m.all = Down(k.top0, k.top0 + 1 - m.key)
                    \/ d = "mixed" /\ m.all = Down(k.top0, k.top0)
<1> USE PageConstants
<1>1. PICK rows : rows = page.rows
  OBVIOUS
<1>2. PICK b : b = k.top0
  OBVIOUS
<1>3. b \in 1..Close
  BY <1>2
<1>4. k.key \in 1..Close /\ (d = "mixed" => t = b)
  BY <1>2 DEF Fresh, Going, KisGoing
<1>5. PICK a : a = Lower(k.key, b)
  OBVIOUS
<1>6. /\ Len(rows) \in 1..PageSize
      /\ \A i \in 1..Len(rows) :
            /\ rows[i].day = "today" <=> d # "holiday" /\ i <= a
            /\ d # "holiday" /\ i <= a => rows[i].t = a + 1 - i
            /\ rows[i].t \in Nat
      /\ d # "holiday" /\ Len(rows) < PageSize => a <= Len(rows)
      /\ d = "plain" => Len(rows) <= a
  <2>1. rows = KisPage(k.key, d, b).rows
    BY <1>1, <1>2
  <2>2. KisShape(rows, a, d)
    BY <1>3, <1>4, <1>5, <2>1, KisRows
  <2> QED
    BY <2>2 DEF KisShape
<1>7. rows # <<>> /\ Head(rows) = rows[1]
  <2>1. rows # <<>>
    BY <1>6
  <2> QED
    BY <2>1
<1>8. CASE d = "holiday"
  <2>1. rows[1].day # "today"
    BY <1>6, <1>8
  <2>2. m = [all |-> Reverse(k.all), key |-> 0, done |-> TRUE]
    BY <1>1, <1>7, <2>1 DEF GetMinuteChart
  <2>3. k.all = <<>>
    BY <1>8 DEF Fresh, Going, KisGoing
  <2>4. Reverse(<<>>) = <<>>
    BY DEF Reverse
  <2> QED
    BY <1>8, <2>2, <2>3, <2>4
<1>9. CASE d # "holiday"
  <2>1. a \in 1..b /\ (k.key <= b => a = k.key) /\ a <= k.key
    BY <1>3, <1>4, <1>5 DEF Lower
  <2>2. PICK n \in 0..b :
           /\ k.all = Down(b, n) /\ b <= a + n
           /\ \/ n = 0 /\ a = b
              \/ n = b
              \/ n = b + 1 - k.key /\ a = k.key
    <3>1. CASE Fresh(k)
      <4>1. k.all = Down(b, 0) /\ k.key = Close
        BY <3>1 DEF Fresh, Down
      <4> QED
        BY <1>3, <1>5, <4>1 DEF Lower
    <3>2. CASE Going(k, d, t)
      <4>1. \/ k.key <= b /\ k.all = Down(b, b + 1 - k.key)
            \/ k.all = Down(b, b)
        BY <1>2, <3>2 DEF Going, KisGoing
      <4>2. CASE k.key <= b /\ k.all = Down(b, b + 1 - k.key)
        <5>1. b + 1 - k.key \in 0..b /\ a = k.key
          BY <1>3, <1>4, <2>1, <4>2
        <5> QED
          BY <1>3, <1>4, <4>2, <5>1
      <4>3. CASE k.all = Down(b, b)
        BY <1>3, <2>1, <4>3
      <4> QED
        BY <4>1, <4>2, <4>3
    <3> QED
      BY <3>1, <3>2
  <2>3. PICK L : L = Len(rows)
    OBVIOUS
  <2>4. PICK p : p = Lower(a, L)
    OBVIOUS
  <2>5. /\ L \in 1..PageSize /\ p \in 1..a /\ p <= L
        /\ p = a \/ (p = L /\ L <= a)
        /\ L < PageSize => p = a
        /\ \A i \in 1..L : rows[i].day = "today" <=> i <= p
        /\ \A i \in 1..p : rows[i].t = a + 1 - i
    <3>1. L \in 1..PageSize /\ (L < PageSize => a <= L)
      BY <1>6, <1>9, <2>3
    <3>2. /\ p \in 1..a /\ p <= L /\ (p = a \/ (p = L /\ L <= a))
          /\ L < PageSize => p = a
          /\ \A i \in 1..L : i <= p <=> i <= a
      BY <2>1, <2>4, <3>1 DEF Lower
    <3>3. \A i \in 1..L : rows[i].day = "today" <=> i <= p
      BY <1>6, <1>9, <2>3, <3>2
    <3>4. \A i \in 1..p : rows[i].t = a + 1 - i
      <4>1. \A i \in 1..p : i \in 1..L /\ i <= a
        BY <3>1, <3>2
      <4> QED
        BY <1>6, <1>9, <2>3, <4>1
    <3> QED
      BY <3>1, <3>2, <3>3, <3>4
  <2>6. PICK f : f = Further(b, n, a, p)
    OBVIOUS
  <2>7. /\ f \in 1..b /\ n <= f
        /\ p = a => f = b
        /\ n = b => f = b
    BY <1>3, <2>1, <2>2, <2>5, <2>6 DEF Further
  <2>8. gathered(k.all, rows) = Down(b, f)
    <3>1. a \in 0..b /\ p \in 0..a /\ b \in Nat /\ n \in 0..b
      BY <1>3, <2>1, <2>2, <2>5
    <3>2. PageFrom(rows, a, p)
      BY <2>3, <2>5 DEF PageFrom
    <3>3. b <= a + n
      BY <2>2
    <3>4. gathered(Down(b, n), rows) = Down(b, Further(b, n, a, p))
      BY <3>1, <3>2, <3>3, Gathered
    <3> QED
      BY <2>2, <2>6, <3>4
  <2>9. PICK last : last = rows[L].t
    OBVIOUS
  <2>10. last \in Nat /\ (L <= a => last = a + 1 - L)
    BY <1>6, <1>9, <2>3, <2>5, <2>9
  <2>11. Down(b, f) = Down(b, n) <=> f = n
    <3>1. Len(Down(b, f)) = f /\ Len(Down(b, n)) = n
      BY <1>3, <2>2, <2>7, DownRun
    <3> QED
      BY <3>1
  <2>12. PICK stop : stop = (\/ L < PageSize
                             \/ f = n
                             \/ last <= 1
                             \/ last >= k.key)
    OBVIOUS
  <2>13. m = [all |-> IF stop THEN Reverse(Down(b, f)) ELSE Down(b, f),
              key |-> last, done |-> stop]
    <3>1. rows[1].day = "today"
      BY <2>5
    <3>2. Last(page.rows).t = last /\ Len(page.rows) = L
      BY <1>1, <2>3, <2>9 DEF Last
    <3>3. gathered(k.all, page.rows) = Down(b, f) /\ (Down(b, f) = k.all <=> f = n)
      BY <1>1, <2>2, <2>8, <2>11
    <3> QED
      BY <1>1, <1>7, <2>12, <3>1, <3>2, <3>3 DEF GetMinuteChart
  <2>14. CASE stop
    <3>1. f = b
      <4>1. CASE p = a
        BY <2>7, <4>1
      <4>2. CASE p # a
        <5>1. p = L /\ L <= a /\ L = PageSize /\ L < a
          BY <2>1, <2>5, <4>2
        <5>2. last = a + 1 - L /\ 1 < last /\ last < k.key
          <6>1. last = a + 1 - L
            BY <2>10, <5>1
          <6>2. a \in Nat /\ k.key \in Nat /\ a <= k.key
            BY <1>3, <1>4, <2>1
          <6> QED
            BY <5>1, <6>1, <6>2
        <5>3. f = n
          <6>1. ~(L < PageSize) /\ ~(last <= 1) /\ ~(last >= k.key)
            BY <1>4, <2>10, <5>1, <5>2
          <6> QED
            BY <2>12, <2>14, <6>1
        <5>4. n # 0
          BY <2>7, <5>3
        <5>5. n = b
          BY <1>3, <1>4, <2>1, <2>2, <2>6, <5>1, <5>3, <5>4 DEF Further
        <5> QED
          BY <5>3, <5>5
      <4> QED
        BY <4>1, <4>2
    <3>2. Reverse(Down(b, b)) = Up(0, b)
      <4>1. b \in Nat /\ b \in 0..b /\ b - b = 0
        BY <1>3
      <4>2. Reverse(Down(b, b)) = Up(b - b, b)
        BY ONLY <4>1, DownReverse, Zenon
      <4> QED
        BY <4>1, <4>2
    <3> QED
      BY <1>2, <1>9, <2>13, <2>14, <3>1, <3>2
  <2>15. CASE ~stop
    <3>1. 1 < last /\ last < k.key /\ L = PageSize
      BY <1>4, <2>5, <2>10, <2>12, <2>15
    <3>2. m.all = Down(b, f) /\ m.key = last /\ ~m.done
      BY <2>13, <2>15
    <3>3. m.all # <<>>
      BY <1>3, <2>7, <3>2, DownRun
    <3>4. \/ last <= b /\ f = b + 1 - last
          \/ d = "mixed" /\ f = b
      <4>1. CASE L <= a
        <5>1. p = L
          BY <2>1, <2>5, <4>1
        <5>2. last = a + 1 - L
          BY <2>10, <4>1
        <5>3. ASSUME n = b PROVE FALSE
          BY <1>3, <2>7, <2>12, <2>15, <5>3
        <5>4. f = b + 1 - last
          BY <1>3, <1>4, <2>1, <2>2, <2>5, <2>6, <3>1, <5>1, <5>2, <5>3 DEF Further
        <5>5. last <= b
          BY <1>3, <2>1, <2>5, <5>2
        <5> QED
          BY <5>4, <5>5
      <4>2. CASE ~(L <= a)
        <5>1. p = a
          BY <2>5, <4>2
        <5>2. d = "mixed"
          BY <1>6, <1>9, <2>3, <4>2 DEF Days
        <5> QED
          BY <2>7, <5>1, <5>2
      <4> QED
        BY <4>1, <4>2
    <3>5. \/ last <= b /\ m.all = Down(b, b + 1 - last)
          \/ d = "mixed" /\ m.all = Down(b, b)
      BY <3>2, <3>4
    <3>6. last \in Nat /\ last < Close
      BY <1>4, <2>10, <3>1
    <3> QED
      BY <1>2, <1>4, <1>9, <3>1, <3>2, <3>3, <3>5, <3>6
  <2> QED
    BY <2>14, <2>15
<1> QED
  BY <1>8, <1>9

-----------------------------------------------------------------------------
(* LS v2.                                                                   *)

\* The newest row that a request is about, with rows 1..k.top0 at the server.
Newest(k) == IF k.key = 0 THEN k.top0 ELSE Lower(wanted(k.plan.pager, k.key), k.top0)

\* A page of LS v2: the last p of the rows up to the newest; it says whether there
\* are more and where they begin.
LsShape(page, pager, newest, p) ==
    /\ p \in 0..newest /\ p <= PageSize
    /\ page.rows = IF pager \in {"t8412", "t8452", "t8453"}
                   THEN Up(newest - p, p) ELSE Down(newest, p)
    /\ IF page.more
       THEN p = PageSize /\ p < newest /\ page.key = Time(pager, newest - p)
       ELSE p = newest

\* The server's page has that shape.
LEMMA LsRows ==
    ASSUME NEW k, k.plan.pager \in Pagers \ {"none", "kis"}, Newest(k) \in Nat,
           NEW page, page.rows = LsV2Page(k.plan.pager, k.key, k.top0).rows,
           page.more = LsV2Page(k.plan.pager, k.key, k.top0).more,
           page.key = LsV2Page(k.plan.pager, k.key, k.top0).key
    PROVE  LsShape(page, k.plan.pager, Newest(k), Lower(PageSize, Newest(k)))
<1> USE PageConstants
<1>1. PICK n : n = Newest(k)
  OBVIOUS
<1>2. PICK p : p = Lower(PageSize, n)
  OBVIOUS
<1>3. /\ n \in Nat /\ p \in 0..n /\ p <= PageSize
      /\ n > PageSize => p = PageSize /\ p < n
      /\ ~(n > PageSize) => p = n
  BY <1>1, <1>2 DEF Lower
<1>4. /\ page.rows = IF k.plan.pager \in {"t8412", "t8452", "t8453"}
                     THEN Up(n - p, p) ELSE Down(n, p)
      /\ page.more = (n > PageSize)
      /\ page.key = IF n > PageSize THEN Time(k.plan.pager, n - PageSize) ELSE 0
  BY <1>1, <1>2 DEF LsV2Page, Newest
<1>5. LsShape(page, k.plan.pager, n, p)
  <2>1. CASE n > PageSize
    BY <1>3, <1>4, <2>1 DEF LsShape
  <2>2. CASE ~(n > PageSize)
    BY <1>3, <1>4, <2>2 DEF LsShape
  <2> QED
    BY <2>1, <2>2
<1> QED
  BY <1>1, <1>2, <1>5

\* A turn of a loop that appends its pages.
LEMMA AppendTurn ==
    ASSUME NEW k, k.plan.pager \in Appending, k.top0 \in 1..Close,
           Fresh(k) \/ (k.plan.cont /\ k.key \in Nat \ {0} /\ AppendGoing(k)),
           NEW page, page.rows = LsV2Page(k.plan.pager, k.key, k.top0).rows,
           page.more = LsV2Page(k.plan.pager, k.key, k.top0).more,
           page.key = LsV2Page(k.plan.pager, k.key, k.top0).key,
           NEW m, m = appendPage(k, page)
    PROVE  /\ m.done =>
                IF k.plan.cont THEN OnceEach(m.all, 1..k.top0)
                ELSE OnceEach(m.all, {r \in 1..k.top0 : r + PageSize > k.top0})
           /\ ~m.done =>
                /\ k.plan.cont /\ m.all # <<>> /\ m.key \in Nat \ {0}
                /\ k.key # 0 => m.key < k.key
                /\ m.key < k.top0 /\ m.all \in Seq((m.key + 1)..k.top0)
                /\ OnceEach(m.all, (m.key + 1)..k.top0)
<1> USE PageConstants
<1>1. PICK b : b = k.top0
  OBVIOUS
<1>2. PICK n : n = Newest(k)
  OBVIOUS
<1>3. PICK p : p = Lower(PageSize, n)
  OBVIOUS
<1>4. PICK pager : pager = k.plan.pager
  OBVIOUS
<1>5. /\ pager \in Appending /\ pager \notin {"none", "kis", "t8452", "t8453"}
      /\ pager \in Pagers
      /\ wanted(pager, k.key) = k.key /\ Time(pager, n - p) = n - p
  BY <1>4 DEF Appending, Pagers, wanted, Time
<1>6. /\ b \in Nat /\ n \in 1..b
      /\ k.all \in Seq((n + 1)..b) /\ OnceEach(k.all, (n + 1)..b)
      /\ k.key # 0 => n = k.key
      /\ ~k.plan.cont => n = b
  <2>1. CASE Fresh(k)
    <3>1. k.key = 0 /\ k.all = <<>> /\ n = b /\ b \in Nat /\ b >= 1
      BY <1>1, <1>2, <1>4, <1>5, <2>1 DEF Fresh, Newest
    <3>2. k.all \in Seq((n + 1)..b) /\ DOMAIN k.all = {}
      BY <3>1
    <3>3. (n + 1)..b = {}
      BY <3>1
    <3>4. OnceEach(k.all, {})
      BY <3>2, OnceIs
    <3> QED
      BY <3>1, <3>2, <3>3, <3>4
  <2>2. CASE k.plan.cont /\ k.key \in Nat \ {0} /\ AppendGoing(k)
    <3>1. n = k.key /\ k.key \in Nat /\ k.key >= 1 /\ k.key < b /\ b \in Nat
      BY <1>1, <1>2, <1>4, <1>5, <2>2 DEF AppendGoing, Newest, Lower
    <3> QED
      BY <1>1, <2>2, <3>1 DEF AppendGoing
  <2> QED
    BY <2>1, <2>2
<1>7. LsShape(page, pager, n, p)
  <2>1. k.plan.pager \in Pagers \ {"none", "kis"} /\ Newest(k) \in Nat
    BY <1>2, <1>4, <1>5, <1>6
  <2> QED
    BY <1>2, <1>3, <1>4, <2>1, LsRows
<1>8. PICK rows : rows = page.rows
  OBVIOUS
<1>9. p \in 0..n /\ rows \in Seq((n + 1 - p)..n) /\ OnceEach(rows, (n + 1 - p)..n)
  <2>1. p \in 0..n /\ rows \in {Up(n - p, p), Down(n, p)}
    BY <1>7, <1>8 DEF LsShape
  <2>2. n \in Nat /\ n - p \in Nat
    BY <1>6, <2>1
  <2>3. Down(n, p) \in Seq((n + 1 - p)..n)
    BY <2>1, <2>2, DownRun
  <2>4. Up(n - p, p) \in Seq(((n - p) + 1)..((n - p) + p))
    BY <2>1, <2>2, UpRun
  <2>5. (n - p) + 1 = n + 1 - p /\ (n - p) + p = n
    BY <2>1, <2>2
  <2>6. OnceEach(Down(n, p), (n + 1 - p)..n) /\ OnceEach(Up(n - p, p), (n + 1 - p)..n)
    BY <2>1, <2>2, RunsOnce
  <2> QED
    BY <2>1, <2>3, <2>4, <2>5, <2>6
<1>10. PICK all : all = k.all \o rows
  OBVIOUS
<1>11. all \in Seq((n + 1 - p)..b) /\ OnceEach(all, (n + 1 - p)..b)
  <2>1. PICK A : A = (n + 1)..b
    OBVIOUS
  <2>2. PICK B : B = (n + 1 - p)..n
    OBVIOUS
  <2>3. A \cap B = {} /\ A \cup B = (n + 1 - p)..b
    BY <1>6, <1>9, <2>1, <2>2
  <2>4. all \in Seq(A \cup B) /\ OnceEach(all, A \cup B)
    BY <1>6, <1>9, <1>10, <2>1, <2>2, <2>3, OnceJoin
  <2> QED
    BY <2>3, <2>4
<1>12. /\ m.all = all /\ m.key = page.key
       /\ m.done <=> (~k.plan.cont \/ ~page.more \/ page.key = 0)
  BY <1>8, <1>10 DEF appendPage
<1>13. ~page.more => n = p
  BY <1>7 DEF LsShape
<1>14. page.more => page.key = n - p /\ p = PageSize /\ n - p >= 1
  BY <1>5, <1>6, <1>7, <1>9 DEF LsShape
<1>15. ASSUME m.done
       PROVE  IF k.plan.cont THEN OnceEach(all, 1..b)
              ELSE OnceEach(all, {r \in 1..b : r + PageSize > b})
  <2>1. CASE ~k.plan.cont
    <3>1. n = b /\ p \in 0..b /\ (p = b \/ p = PageSize) /\ p <= PageSize
      BY <1>6, <1>7, <1>9, <1>13, <1>14, <2>1 DEF LsShape
    <3>2. {r \in 1..b : r + PageSize > b} = (n + 1 - p)..b
      BY <1>6, <3>1
    <3> QED
      BY <1>11, <2>1, <3>2
  <2>2. CASE k.plan.cont
    <3>1. page.more => page.key # 0
      BY <1>14
    <3>2. n = p
      BY <1>12, <1>13, <1>15, <2>2, <3>1
    <3>3. n + 1 - p = 1
      BY <1>6, <3>2
    <3> QED
      BY <1>11, <2>2, <3>3
  <2> QED
    BY <2>1, <2>2
<1>16. ASSUME ~m.done
       PROVE  /\ k.plan.cont /\ all # <<>> /\ m.key \in Nat \ {0}
              /\ k.key # 0 => m.key < k.key
              /\ m.key < b /\ all \in Seq((m.key + 1)..b)
              /\ OnceEach(all, (m.key + 1)..b)
  <2>1. k.plan.cont /\ page.more
    BY <1>12, <1>16
  <2>2. m.key = n - p /\ p = PageSize /\ n - p >= 1
    BY <1>12, <1>14, <2>1
  <2>3. /\ n - p \in Nat \ {0} /\ (k.key # 0 => n - p < k.key) /\ n - p < b
        /\ n + 1 - p = (n - p) + 1
    <3>1. n \in Nat /\ n <= b /\ b \in Nat /\ p \in Nat /\ p >= 2 /\ (k.key # 0 => n = k.key)
      BY <1>6, <1>9, <2>2
    <3> QED
      BY ONLY <2>2, <3>1
  <2>4. all \in Seq((m.key + 1)..b) /\ OnceEach(all, (m.key + 1)..b)
    BY <1>11, <2>2, <2>3
  <2>5. all # <<>>
    <3>1. b \in (n + 1 - p)..b
      BY <1>6, <2>3
    <3>2. DOMAIN all # {}
      BY <1>11, <3>1, OnceIs
    <3> QED
      BY <3>2
  <2> QED
    BY <2>1, <2>2, <2>3, <2>4, <2>5
<1> QED
  BY <1>1, <1>12, <1>15, <1>16

\* What a turn of t8452's loop promises: its end the result, its next request a strictly
\* earlier minute.
MinutesTurned(k, m) ==
    /\ m.done =>
         IF k.plan.cont THEN m.all = Up(0, k.top0)
         ELSE OnceEach(m.all, {r \in 1..k.top0 : r + PageSize > k.top0})
    /\ ~m.done =>
         /\ k.plan.cont /\ m.all # <<>> /\ m.key \in Nat
         /\ k.key # 0 => m.key < k.key
         /\ 1 < m.key /\ m.key <= k.top0
         /\ m.all = Up(m.key - 1, k.top0 + 1 - m.key)

\* A turn of the loop of t8452, which puts its pages in front.
LEMMA MinutesTurn ==
    ASSUME NEW k, k.plan.pager = "t8452", k.top0 \in 1..Close,
           Fresh(k) \/ (k.plan.cont /\ k.key \in Nat \ {0} /\ MinutesGoing(k)),
           NEW page, page.rows = LsV2Page(k.plan.pager, k.key, k.top0).rows,
           page.more = LsV2Page(k.plan.pager, k.key, k.top0).more,
           page.key = LsV2Page(k.plan.pager, k.key, k.top0).key,
           NEW m, m = prependPage(k, page)
    PROVE  MinutesTurned(k, m)
<1> USE PageConstants
<1>1. PICK b : b = k.top0
  OBVIOUS
<1>2. PICK n : n = Newest(k)
  OBVIOUS
<1>3. PICK p : p = Lower(PageSize, n)
  OBVIOUS
<1>4. /\ b \in Nat /\ n \in 1..b
      /\ k.all = Up(n, b - n)
      /\ k.key # 0 => n = k.key - 1 /\ k.key \in Nat
      /\ ~k.plan.cont => n = b
  <2>1. CASE Fresh(k)
    <3>1. k.key = 0 /\ k.all = <<>> /\ n = b /\ b \in Nat /\ b >= 1
      BY <1>1, <1>2, <2>1 DEF Fresh, Newest
    <3>2. Up(b, 0) = <<>>
      BY DEF Up
    <3> QED
      BY <3>1, <3>2
  <2>2. CASE k.plan.cont /\ k.key \in Nat \ {0} /\ MinutesGoing(k)
    <3>1. wanted("t8452", k.key) = k.key - 1
      BY DEF wanted
    <3>2. /\ k.key \in Nat /\ 1 < k.key /\ k.key <= b /\ b \in Nat
          /\ k.all = Up(k.key - 1, b + 1 - k.key)
      BY <1>1, <2>2 DEF MinutesGoing
    <3>3. n = k.key - 1
      BY <1>1, <1>2, <3>1, <3>2 DEF Newest, Lower
    <3>4. b + 1 - k.key = b - n
      BY <3>2, <3>3
    <3> QED
      BY <2>2, <3>2, <3>3, <3>4
  <2> QED
    BY <2>1, <2>2
<1>5. LsShape(page, "t8452", n, p)
  <2>1. k.plan.pager \in Pagers \ {"none", "kis"} /\ Newest(k) \in Nat
    BY <1>2, <1>4 DEF Pagers
  <2> QED
    BY <1>2, <1>3, <2>1, LsRows
<1>6. /\ p \in 0..n /\ p <= PageSize
      /\ page.rows = Up(n - p, p)
      /\ page.more => p = PageSize /\ p < n
      /\ ~page.more => p = n
  BY <1>5 DEF LsShape
<1>7. PICK a : a = n - p
  OBVIOUS
<1>8. a \in Nat /\ a + p = n /\ p + (b - n) = b - a /\ b - n \in Nat
  BY <1>4, <1>6, <1>7
<1>9. page.rows \o k.all = Up(a, b - a)
  <2>1. PICK q : q = b - n
    OBVIOUS
  <2>2. a \in Nat /\ p \in Nat /\ q \in Nat
    BY <1>4, <1>6, <1>8, <2>1
  <2>3. Up(a, p) \o Up(a + p, q) = Up(a, p + q)
    BY ONLY <2>2, UpJoin, Zenon
  <2> QED
    BY <1>4, <1>6, <1>7, <1>8, <2>1, <2>3
<1>10. /\ m.all = Up(a, b - a)
       /\ m.done <=> (~k.plan.cont \/ ~page.more)
       /\ ~m.done => m.key = Head(page.rows)
  BY <1>9 DEF prependPage, Time
<1>11. ASSUME m.done
       PROVE  IF k.plan.cont THEN m.all = Up(0, b)
              ELSE OnceEach(m.all, {r \in 1..b : r + PageSize > b})
  <2>1. CASE k.plan.cont
    <3>1. a = 0
      BY <1>6, <1>7, <1>10, <1>11, <2>1, <1>4
    <3>2. b - a = b
      BY <1>4, <3>1
    <3> QED
      BY <1>10, <2>1, <3>1, <3>2
  <2>2. CASE ~k.plan.cont
    <3>1. n = b /\ a = b - p /\ b - a = p /\ p \in 0..b /\ p <= PageSize
      BY <1>4, <1>6, <1>7, <2>2
    <3>2. p = PageSize \/ p = b
      BY <1>6, <3>1
    <3>3. {r \in 1..b : r + PageSize > b} = (b + 1 - p)..b
      BY <1>4, <3>1, <3>2
    <3>4. OnceEach(Up(b - p, p), (b + 1 - p)..b)
      BY <1>4, <3>1, RunsOnce
    <3> QED
      BY <1>10, <2>2, <3>1, <3>3, <3>4
  <2> QED
    BY <2>1, <2>2
<1>12. ASSUME ~m.done
       PROVE  /\ k.plan.cont /\ m.all # <<>> /\ m.key \in Nat
              /\ k.key # 0 => m.key < k.key
              /\ 1 < m.key /\ m.key <= b
              /\ m.all = Up(m.key - 1, b + 1 - m.key)
  <2>1. k.plan.cont /\ page.more
    BY <1>10, <1>12
  <2>2. p = PageSize /\ p < n
    BY <1>6, <2>1
  <2>3. m.key = a + 1
    <3>1. page.rows = Up(a, p) /\ p \in Nat /\ p >= 1
      BY <1>6, <1>7, <2>2
    <3>2. Head(Up(a, p)) = a + 1
      BY <1>8, <3>1, UpHead
    <3> QED
      BY <1>10, <1>12, <3>1, <3>2
  <2>4. m.key \in Nat /\ 1 < m.key /\ m.key <= b /\ m.key - 1 = a /\ b + 1 - m.key = b - a
    BY <1>4, <1>6, <1>7, <1>8, <2>2, <2>3
  <2>5. k.key # 0 => m.key < k.key
    BY <1>4, <1>6, <1>7, <2>2, <2>3
  <2>6. m.all # <<>>
    <3>1. b - a \in Nat /\ b - a >= 1
      BY <2>4, <1>4, <1>8
    <3>2. Len(Up(a, b - a)) = b - a
      BY <1>8, <3>1, UpRun
    <3> QED
      BY <1>10, <3>1, <3>2
  <2> QED
    BY <1>10, <2>1, <2>4, <2>5, <2>6
<1> QED
  BY <1>1, <1>11, <1>12 DEF MinutesTurned

\* The time of a tick is half its place, rounded up.
LEMMA Halves ==
    ASSUME NEW r \in Nat
    PROVE  /\ Time("t8453", r) \in Nat
           /\ 2 * Time("t8453", r) = r \/ 2 * Time("t8453", r) = r + 1
BY DEF Time

\* A sequence of one set's elements is one of a larger set's.
LEMMA SeqWiden ==
    ASSUME NEW A, NEW B, A \subseteq B, NEW s \in Seq(A)
    PROVE  s \in Seq(B)
OBVIOUS

\* The ticks before those gathered, put in front of them.
LEMMA TicksJoin ==
    ASSUME NEW n \in Nat, NEW b \in Nat, NEW s, TicksAfter(s, n, b), n <= b,
           NEW a \in Nat, NEW p \in Nat, a + p = n
    PROVE  TicksAfter(Up(a, p) \o s, a, b)
<1>1. PICK u : u = Up(a, p)
  OBVIOUS
<1>2. PICK q : q = Len(s)
  OBVIOUS
<1>3. PICK v : v = u \o s
  OBVIOUS
<1>4. /\ u \in Seq((a + 1)..b) /\ Len(u) = p
      /\ \A i \in 1..p : u[i] = a + i
  <2>1. u \in Seq((a + 1)..(a + p)) /\ Len(u) = p /\ \A i \in 1..p : u[i] = a + i
    BY <1>1, UpRun
  <2>2. (a + 1)..(a + p) \subseteq (a + 1)..b
    OBVIOUS
  <2> QED
    BY <2>1, <2>2
<1>5. /\ s \in Seq((a + 1)..b) /\ q \in Nat /\ DOMAIN s = 1..q
      /\ \A i \in 1..q : s[i] \in (n + 1)..b
      /\ \A i, j \in 1..q : i < j => s[i] < s[j]
      /\ \A r \in (n + 1)..b :
            \E i \in 1..q : Time("t8453", s[i]) = Time("t8453", r)
  <2>1. s \in Seq((n + 1)..b)
    BY DEF TicksAfter
  <2>2. (n + 1)..b \subseteq (a + 1)..b
    OBVIOUS
  <2>3. q \in Nat /\ DOMAIN s = 1..q
    BY <1>2, <2>1
  <2>4. s \in Seq((a + 1)..b)
    BY <2>1, <2>2, SeqWiden
  <2>5. \A i \in 1..q : s[i] \in (n + 1)..b
    BY <2>1, <2>3
  <2>6. /\ \A i, j \in 1..q : i < j => s[i] < s[j]
        /\ \A r \in (n + 1)..b :
              \E i \in 1..q : Time("t8453", s[i]) = Time("t8453", r)
    BY <2>3 DEF TicksAfter
  <2> QED
    BY <2>3, <2>4, <2>5, <2>6
<1>6. /\ v \in Seq((a + 1)..b) /\ DOMAIN v = 1..(p + q)
      /\ \A i \in 1..p : v[i] = u[i]
      /\ \A i \in (p + 1)..(p + q) : v[i] = s[i - p] /\ i - p \in 1..q
      /\ \A i \in 1..q : v[p + i] = s[i] /\ p + i \in 1..(p + q)
  <2>1. /\ v \in Seq((a + 1)..b) /\ Len(v) = Len(u) + Len(s)
        /\ \A i \in 1..(Len(u) + Len(s)) :
              v[i] = IF i <= Len(u) THEN u[i] ELSE s[i - Len(u)]
    BY <1>3, <1>4, <1>5, ConcatProperties
  <2>2. /\ Len(v) = p + q
        /\ \A i \in 1..(p + q) : v[i] = IF i <= p THEN u[i] ELSE s[i - p]
    BY <1>2, <1>4, <2>1
  <2>3. DOMAIN v = 1..(p + q)
    BY <2>1, <2>2
  <2>4. ASSUME NEW i \in (p + 1)..(p + q) PROVE v[i] = s[i - p] /\ i - p \in 1..q
    <3>1. i \in 1..(p + q) /\ ~(i <= p) /\ i - p \in 1..q
      BY <1>5
    <3> QED
      BY <2>2, <3>1
  <2>5. ASSUME NEW i \in 1..p PROVE v[i] = u[i]
    <3>1. i \in 1..(p + q) /\ i <= p
      BY <1>5
    <3> QED
      BY <2>2, <3>1
  <2>6. ASSUME NEW i \in 1..q PROVE v[p + i] = s[i] /\ p + i \in 1..(p + q)
    <3>1. p + i \in (p + 1)..(p + q) /\ (p + i) - p = i
      BY <1>5
    <3>2. v[p + i] = s[(p + i) - p]
      BY <2>4, <3>1
    <3> QED
      BY <3>1, <3>2
  <2> QED
    BY <2>1, <2>3, <2>4, <2>5, <2>6
<1>7. ASSUME NEW i \in 1..(p + q), NEW j \in 1..(p + q), i < j
      PROVE  v[i] < v[j]
  <2>1. CASE j <= p
    <3>1. v[i] = a + i /\ v[j] = a + j
      BY <1>4, <1>5, <1>6, <1>7, <2>1
    <3> QED
      BY <1>5, <1>7, <3>1
  <2>2. CASE i <= p /\ ~(j <= p)
    <3>1. i \in 1..p /\ j \in (p + 1)..(p + q)
      BY <1>5, <2>2
    <3>2. v[i] = a + i /\ v[j] \in (n + 1)..b
      BY <1>4, <1>5, <1>6, <3>1
    <3> QED
      BY <3>1, <3>2
  <2>3. CASE ~(i <= p)
    <3>1. i \in (p + 1)..(p + q) /\ j \in (p + 1)..(p + q) /\ i - p < j - p
      BY <1>5, <1>7, <2>3
    <3>2. /\ v[i] = s[i - p] /\ v[j] = s[j - p]
          /\ i - p \in 1..q /\ j - p \in 1..q
      BY <1>6, <3>1
    <3> QED
      BY <1>5, <3>1, <3>2
  <2> QED
    BY <2>1, <2>2, <2>3
<1>8. ASSUME NEW r \in (a + 1)..b
      PROVE  \E i \in 1..(p + q) : Time("t8453", v[i]) = Time("t8453", r)
  <2>1. CASE r <= n
    <3>1. r - a \in 1..p /\ r - a \in 1..(p + q) /\ a + (r - a) = r
      BY <1>5, <2>1
    <3>2. v[r - a] = r
      BY <1>4, <1>6, <3>1
    <3> QED
      BY <3>1, <3>2
  <2>2. CASE ~(r <= n)
    <3>1. r \in (n + 1)..b
      BY <2>2
    <3>2. PICK i \in 1..q : Time("t8453", s[i]) = Time("t8453", r)
      BY <1>5, <3>1
    <3> QED
      BY <1>6, <3>2
  <2> QED
    BY <2>1, <2>2
<1> QED
  <2>1. /\ \A i, j \in DOMAIN v : i < j => v[i] < v[j]
        /\ \A r \in (a + 1)..b :
              \E i \in DOMAIN v : Time("t8453", v[i]) = Time("t8453", r)
    BY <1>6, <1>7, <1>8
  <2> QED
    BY <1>1, <1>3, <1>6, <2>1 DEF TicksAfter

\* The tick before those gathered is not missed when it has their first time.
LEMMA TicksSame ==
    ASSUME NEW a \in Nat, NEW b \in Nat, NEW s, TicksAfter(s, a, b), a < b
    PROVE  TicksAfter(s, 2 * (Time("t8453", a + 1) - 1), b)
<1>1. PICK c : c = 2 * (Time("t8453", a + 1) - 1)
  OBVIOUS
<1>2. c \in Nat /\ (c = a \/ (c = a - 1 /\ Time("t8453", a) = Time("t8453", a + 1)))
  <2>1. PICK t \in Nat : t = Time("t8453", a + 1)
    BY Halves
  <2>2. 2 * t = a + 1 \/ 2 * t = a + 2
    BY <2>1, Halves
  <2>3. c = 2 * (t - 1)
    BY <1>1, <2>1
  <2>4. PICK u \in Nat : u = Time("t8453", a)
    BY Halves
  <2>5. 2 * u = a \/ 2 * u = a + 1
    BY <2>4, Halves
  <2>6. c \in Nat /\ (c = a \/ (c = a - 1 /\ u = t))
    BY <2>2, <2>3, <2>5
  <2> QED
    BY <2>1, <2>4, <2>6
<1>3. CASE c = a
  BY <1>1, <1>3
<1>4. CASE c = a - 1 /\ Time("t8453", a) = Time("t8453", a + 1)
  <2>1. s \in Seq((c + 1)..b)
    <3>1. (a + 1)..b \subseteq (c + 1)..b
      BY <1>2, <1>4
    <3>2. s \in Seq((a + 1)..b)
      BY DEF TicksAfter
    <3> QED
      BY <3>1, <3>2, SeqWiden
  <2>2. ASSUME NEW r \in (c + 1)..b
        PROVE  \E i \in DOMAIN s : Time("t8453", s[i]) = Time("t8453", r)
    <3>1. r = a \/ r \in (a + 1)..b
      BY <1>2, <1>4
    <3>2. a + 1 \in (a + 1)..b
      OBVIOUS
    <3> QED
      BY <1>4, <3>1, <3>2 DEF TicksAfter
  <2> QED
    BY <1>1, <2>1, <2>2 DEF TicksAfter
<1> QED
  BY <1>2, <1>3, <1>4

\* A turn of the loop of t8453, which puts its pages in front.
LEMMA TicksTurn ==
    ASSUME NEW k, k.plan.pager = "t8453", k.top0 \in 1..Close,
           Fresh(k) \/ (k.plan.cont /\ k.key \in Nat \ {0} /\ TicksGoing(k)),
           NEW page, page.rows = LsV2Page(k.plan.pager, k.key, k.top0).rows,
           page.more = LsV2Page(k.plan.pager, k.key, k.top0).more,
           page.key = LsV2Page(k.plan.pager, k.key, k.top0).key,
           NEW m, m = prependPage(k, page)
    PROVE  /\ m.done =>
                IF k.plan.cont THEN TickOfEachTime(m.all, k.top0)
                ELSE OnceEach(m.all, {r \in 1..k.top0 : r + PageSize > k.top0})
           /\ ~m.done =>
                /\ k.plan.cont /\ m.all # <<>> /\ m.key \in Nat \ {0}
                /\ k.key # 0 => m.key < k.key
                /\ 2 * (m.key - 1) < k.top0
                /\ TicksAfter(m.all, 2 * (m.key - 1), k.top0)
<1> USE PageConstants
<1>1. PICK b : b = k.top0
  OBVIOUS
<1>2. PICK n : n = Newest(k)
  OBVIOUS
<1>3. PICK p : p = Lower(PageSize, n)
  OBVIOUS
<1>4. /\ b \in Nat /\ n \in 0..b /\ b >= 1
      /\ TicksAfter(k.all, n, b)
      /\ k.key # 0 => n = 2 * (k.key - 1) /\ k.key \in Nat
      /\ ~k.plan.cont => n = b /\ k.all = <<>>
  <2>1. CASE Fresh(k)
    <3>1. k.key = 0 /\ k.all = <<>> /\ n = b /\ b \in Nat /\ b >= 1
      BY <1>1, <1>2, <2>1 DEF Fresh, Newest
    <3>2. (b + 1)..b = {} /\ <<>> \in Seq((b + 1)..b) /\ DOMAIN <<>> = {}
      BY <3>1
    <3>3. TicksAfter(<<>>, b, b)
      BY <3>2 DEF TicksAfter
    <3> QED
      BY <3>1, <3>3
  <2>2. CASE k.plan.cont /\ k.key \in Nat \ {0} /\ TicksGoing(k)
    <3>1. wanted("t8453", k.key) = 2 * (k.key - 1)
      BY DEF wanted
    <3>2. /\ k.key \in Nat /\ k.key # 0 /\ b \in Nat /\ b >= 1
          /\ 2 * (k.key - 1) < b
          /\ TicksAfter(k.all, 2 * (k.key - 1), b)
      BY <1>1, <2>2 DEF TicksGoing
    <3>3. n = 2 * (k.key - 1)
      <4>1. n = Lower(2 * (k.key - 1), b)
        BY <1>1, <1>2, <3>1, <3>2 DEF Newest
      <4> QED
        BY <3>2, <4>1 DEF Lower
    <3>4. n \in 0..b
      BY <3>2, <3>3
    <3> QED
      BY <2>2, <3>2, <3>3, <3>4
  <2> QED
    BY <2>1, <2>2
<1>5. LsShape(page, "t8453", n, p)
  <2>1. k.plan.pager \in Pagers \ {"none", "kis"} /\ Newest(k) \in Nat
    BY <1>2, <1>4 DEF Pagers
  <2> QED
    BY <1>2, <1>3, <2>1, LsRows
<1>6. /\ p \in 0..n /\ p <= PageSize
      /\ page.rows = Up(n - p, p)
      /\ page.more => p = PageSize /\ p < n
      /\ ~page.more => p = n
  BY <1>5 DEF LsShape
<1>7. PICK a : a = n - p
  OBVIOUS
<1>8. a \in Nat /\ p \in Nat /\ n \in Nat /\ a + p = n /\ n <= b
  BY <1>4, <1>6, <1>7
<1>9. PICK all : all = page.rows \o k.all
  OBVIOUS
<1>10. TicksAfter(all, a, b)
  BY <1>4, <1>6, <1>7, <1>8, <1>9, TicksJoin
<1>11. /\ m.all = all
       /\ m.done <=> (~k.plan.cont \/ ~page.more)
       /\ ~m.done => m.key = Time("t8453", Head(page.rows))
  BY <1>9 DEF prependPage
<1>12. ASSUME m.done
       PROVE  IF k.plan.cont THEN TickOfEachTime(all, b)
              ELSE OnceEach(all, {r \in 1..b : r + PageSize > b})
  <2>1. CASE k.plan.cont
    <3>1. p = n
      BY <1>6, <1>11, <1>12, <2>1
    <3>2. a = 0
      BY <1>8, <3>1
    <3>3. /\ all \in Seq((0 + 1)..b) /\ TicksAfter(all, 0, b) /\ 0 + 1 = 1
      BY <1>10, <3>2 DEF TicksAfter
    <3>4. \A i \in DOMAIN all : all[i] \in 1..b
      <4>1. PICK S : S = 1..b
        OBVIOUS
      <4>2. all \in Seq(S)
        BY <3>3, <4>1
      <4>3. \A i \in DOMAIN all : all[i] \in S
        BY <4>2
      <4> QED
        BY <4>1, <4>3
    <3> QED
      BY <2>1, <3>3, <3>4 DEF TicksAfter, TickOfEachTime
  <2>2. CASE ~k.plan.cont
    <3>1. n = b /\ a = b - p /\ p \in 0..b /\ p <= PageSize
      BY <1>4, <1>6, <1>7, <2>2
    <3>2. p = PageSize \/ p = b
      BY <1>6, <3>1
    <3>3. {r \in 1..b : r + PageSize > b} = (b + 1 - p)..b
      BY <1>4, <3>1, <3>2
    <3>4. OnceEach(Up(b - p, p), (b + 1 - p)..b)
      BY <1>4, <3>1, RunsOnce
    <3>5. all = Up(b - p, p)
      <4>1. Up(a, p) \in Seq(Nat)
        BY <1>8 DEF Up
      <4>2. PICK s : s = Up(a, p)
        OBVIOUS
      <4>3. s \o <<>> = s
        BY <4>1, <4>2
      <4> QED
        BY <1>4, <1>6, <1>7, <1>9, <2>2, <3>1, <4>2, <4>3
    <3> QED
      BY <2>2, <3>3, <3>4, <3>5
  <2> QED
    BY <2>1, <2>2
<1>13. ASSUME ~m.done
       PROVE  /\ k.plan.cont /\ all # <<>> /\ m.key \in Nat \ {0}
              /\ k.key # 0 => m.key < k.key
              /\ 2 * (m.key - 1) < b
              /\ TicksAfter(all, 2 * (m.key - 1), b)
  <2>1. k.plan.cont /\ page.more
    BY <1>11, <1>13
  <2>2. p = PageSize /\ p < n /\ p >= 2 /\ a >= 1 /\ a < b
    BY <1>4, <1>6, <1>7, <2>1
  <2>3. m.key = Time("t8453", a + 1)
    <3>1. page.rows = Up(a, p) /\ p \in Nat /\ p >= 1
      BY <1>6, <1>7, <1>8, <2>2
    <3>2. Head(Up(a, p)) = a + 1
      BY <1>8, <3>1, UpHead
    <3> QED
      BY <1>11, <1>13, <3>1, <3>2
  <2>4. m.key \in Nat /\ (2 * m.key = a + 1 \/ 2 * m.key = a + 2)
    <3>1. a + 1 \in Nat /\ (a + 1) + 1 = a + 2
      BY <1>8
    <3> QED
      BY <2>3, <3>1, Halves
  <2>5. m.key \in Nat \ {0} /\ 2 * (m.key - 1) < b
    BY <1>4, <1>8, <2>2, <2>4
  <2>6. k.key # 0 => m.key < k.key
    BY <1>4, <1>8, <2>2, <2>4
  <2>7. TicksAfter(all, 2 * (m.key - 1), b)
    BY <1>4, <1>8, <1>10, <2>2, <2>3, TicksSame
  <2>8. all # <<>>
    <3>1. b \in (a + 1)..b
      BY <1>4, <1>8, <2>2
    <3>2. DOMAIN all # {}
      BY <1>10, <3>1 DEF TicksAfter
    <3> QED
      BY <3>2
  <2> QED
    BY <2>1, <2>5, <2>6, <2>7, <2>8
<1> QED
  BY <1>1, <1>11, <1>12, <1>13

-----------------------------------------------------------------------------
(* The steps keep the invariant of the page loops.                          *)

\* A call without a page loop does not depend on the day or on the server's rows.
LEMMA NoLoop ==
    ASSUME NEW k, NEW d, NEW t, NEW e, NEW u, k.plan.pager = "none", LoopOK(k, d, t)
    PROVE  LoopOK(k, e, u)
BY DEF LoopOK

\* A caller's step keeps the invariant when its new call does, begins no second loop,
\* and moves the day and the server's rows only for its own loop.
LEMMA LoopStep ==
    ASSUME TokenTypes, PagesInv, NEW c \in Callers, NEW k,
           call' = [call EXCEPT ![c] = k],
           day' \in Days, top' \in 0..Close, LoopOK(k, day', top'),
           k.plan = call[c].plan \/ k.plan.pager = "none"
             \/ (\A d \in Callers : d # c => call[d].plan.pager = "none"),
           UNCHANGED <<day, top>>
             \/ (\A d \in Callers : d # c => call[d].plan.pager = "none")
    PROVE  PagesInv'
<1>1. \A d \in Callers : call'[d] = IF d = c THEN k ELSE call[d]
  BY DEF TokenTypes
<1>2. OneLoop'
  BY <1>1 DEF PagesInv, OneLoop
<1>3. ASSUME NEW d \in Callers PROVE LoopOK(call'[d], day', top')
  <2>1. CASE d = c
    BY <1>1, <2>1
  <2>2. CASE d # c
    <3>1. call'[d] = call[d] /\ LoopOK(call[d], day, top)
      BY <1>1, <2>2 DEF PagesInv
    <3>2. CASE UNCHANGED <<day, top>>
      BY <3>1, <3>2
    <3>3. CASE call[d].plan.pager = "none"
      BY <3>1, <3>3, NoLoop
    <3> QED
      BY <2>2, <3>2, <3>3
  <2> QED
    BY <2>1, <2>2
<1>4. \A d \in Callers : LoopOK(call[d], day, top)'
  BY <1>3
<1> QED
  BY <1>2, <1>4 DEF PagesInv

\* Waiting, the token, the way to the server: what the loop has stays as it is.
LEMMA MoveStep ==
    ASSUME TokenTypes, PagesInv, NEW c \in Callers, NEW k,
           call' = [call EXCEPT ![c] = k], UNCHANGED <<day, top>>,
           call[c].pc \in Working, k.pc \in Working \ {"reply"},
           k.plan = call[c].plan, k.key = call[c].key, k.all = call[c].all,
           k.top0 = call[c].top0
    PROVE  PagesInv'
<1>1. LoopOK(call[c], day, top) /\ day \in Days /\ top \in 0..Close
  BY DEF PagesInv
<1>2. Fresh(call[c]) => Fresh(k)
  BY DEF Fresh
<1>3. Going(call[c], day, top) => Going(k, day, top)
  BY DEF Going, KisGoing, AppendGoing, MinutesGoing, TicksGoing
<1>4. LoopOK(k, day, top)
  BY <1>1, <1>2, <1>3 DEF LoopOK, Working
<1> QED
  BY <1>1, <1>4, LoopStep

\* A call that fails keeps no row.
LEMMA FailPages ==
    ASSUME TokenTypes, PagesInv, NEW c \in Callers, Fail(c), UNCHANGED <<day, top>>
    PROVE  PagesInv'
<1>1. PICK k : k = [Idle EXCEPT !.pc = "failed", !.plan = call[c].plan]
  OBVIOUS
<1>2. k.pc = "failed" /\ k.plan = call[c].plan /\ k.all = <<>>
  BY <1>1 DEF Idle
<1>3. LoopOK(call[c], day, top) /\ day \in Days /\ top \in 0..Close
  BY DEF PagesInv
<1>4. LoopOK(k, day, top)
  BY <1>2, <1>3 DEF LoopOK, Working
<1> QED
  BY <1>1, <1>2, <1>3, <1>4, LoopStep DEF Fail

\* A call begins: a page loop while every other caller is idle.
LEMMA BeginPages ==
    ASSUME TokenTypes, PagesInv, NEW c \in Callers, NEW plan, PlanOK(plan), Begin(c, plan)
    PROVE  PagesInv'
<1>1. PICK k : k = [Idle EXCEPT !.pc = FirstStep(plan), !.plan = plan,
                                !.key = IF plan.pager = "kis" THEN Close ELSE 0]
  OBVIOUS
<1>2. /\ k.pc \in {"limiter", "token"} /\ k.plan = plan /\ k.all = <<>>
      /\ k.key = IF plan.pager = "kis" THEN Close ELSE 0
  BY <1>1 DEF Idle, FirstStep
<1>3. day' \in Days /\ top' \in 0..Close
  BY PageConstants DEF Begin, PagesInv, Days
<1>4. plan.pager # "none" => top' \in 1..Close
  BY DEF Begin
<1>5. Fresh(k)
  BY <1>2 DEF Fresh
<1>6. LoopOK(k, day', top')
  BY <1>2, <1>4, <1>5 DEF LoopOK, Working
<1>7. plan.pager # "none" => \A d \in Callers : d # c => call[d].plan.pager = "none"
  <2> SUFFICES ASSUME plan.pager # "none", NEW d \in Callers PROVE call[d].plan.pager = "none"
    OBVIOUS
  <2>1. call[d].pc = "idle"
    BY DEF Begin, Alone, At
  <2> QED
    BY <2>1 DEF PagesInv, LoopOK
<1>8. plan.pager = "none" => UNCHANGED <<day, top>>
  BY DEF Begin
<1>9. call' = [call EXCEPT ![c] = k]
  BY <1>1 DEF Begin
<1> QED
  BY <1>2, <1>3, <1>6, <1>7, <1>8, <1>9, LoopStep

\* Every endpoint's plan is one of the invariant's.
LEMMA EndpointPages ==
    ASSUME TokenTypes, PagesInv, NEW c \in Callers, endpoint(c)
    PROVE  PagesInv'
<1>1. (\E plan : PlanOK(plan) /\ Begin(c, plan)) \/ Refuse(c)
  BY DEF endpoint, kisGetPrice, kisPlaceOrder, kisGetBalance, kisMinuteChart,
         kisMarketLater, kisOrdersLater, lsGetPrice, lsGetOrderbook, lsGetBalance,
         lsGetMultiPrices, lsV2GetPrice, lsV2RawGetPrice, lsV2GetOrderbook,
         lsV2GetBalance, lsV2GetMultiPrices, InvestmentWarning, StockByMinute,
         ChartMinute, ChartIntegratedMinute, ChartIntegratedTick, SendRawREST,
         RoundTrip, kisSendREST, lsSendREST, lsV2SendREST, kiwoomSendREST, PlanOK, Plan,
         Pagers, Appending, NoPlan
<1> QED
  BY <1>1, BeginPages, FailPages DEF Refuse

\* The steps that move a call, or fail it.
LEMMA MovePages ==
    ASSUME TokenTypes, PagesInv, NEW c \in Callers,
           \/ limiterWait(c) \/ GetToken(c) \/ stampToken(c) \/ keepToken(c) \/ issueFails(c)
           \/ transportFails(c) \/ checkError(c) \/ conversionFails(c) \/ candleFails(c)
    PROVE  PagesInv'
<1>1. CallOK(call[c]) /\ UNCHANGED <<day, top>>
  BY DEF TokenTypes, limiterWait, GetToken, stampToken, keepToken, issueFails,
         transportFails, checkError, conversionFails, candleFails
<1>2. CASE Fail(c)
  BY <1>1, <1>2, FailPages
<1>3. ASSUME limiterWait(c), ~Fail(c) PROVE PagesInv'
  <2>1. PICK k : k = [call[c] EXCEPT !.pc = "token"]
    OBVIOUS
  <2>2. call' = [call EXCEPT ![c] = k]
    BY <1>3, <2>1 DEF limiterWait
  <2> QED
    BY <1>1, <1>3, <2>1, <2>2, MoveStep DEF limiterWait, At, CallOK, Working
<1>4. ASSUME GetToken(c) PROVE PagesInv'
  <2>1. PICK k : /\ \/ k = [call[c] EXCEPT !.pc = "wire", !.token = cache, !.since = now]
                    \/ k = [call[c] EXCEPT !.pc = "issuing", !.since = now]
                 /\ call' = [call EXCEPT ![c] = k]
    <3>1. CASE IsValid(cache)
      BY <1>4, <3>1 DEF GetToken, Send
    <3>2. CASE ~IsValid(cache)
      BY <1>4, <3>2 DEF GetToken
    <3> QED
      BY <3>1, <3>2
  <2> QED
    BY <1>1, <1>4, <2>1, MoveStep DEF GetToken, At, CallOK, Working
<1>5. ASSUME stampToken(c) PROVE PagesInv'
  <2>1. PICK k : k = [call[c] EXCEPT !.pc = "stamped", !.since = now]
    OBVIOUS
  <2>2. call' = [call EXCEPT ![c] = k]
    BY <1>5, <2>1 DEF stampToken
  <2> QED
    BY <1>1, <1>5, <2>1, <2>2, MoveStep DEF stampToken, At, CallOK, Working
<1>6. ASSUME keepToken(c) PROVE PagesInv'
  <2>1. PICK k : k = [call[c] EXCEPT !.pc = "wire", !.token = cache', !.since = now]
    OBVIOUS
  <2>2. call' = [call EXCEPT ![c] = k]
    BY <1>6, <2>1 DEF keepToken, Send
  <2> QED
    BY <1>1, <1>6, <2>1, <2>2, MoveStep DEF keepToken, At, CallOK, Working
<1>7. ASSUME transportFails(c), ~Fail(c) PROVE PagesInv'
  <2>1. PICK k : k = [call[c] EXCEPT !.pc = FirstStep(call[c].plan), !.tries = @ + 1,
                                     !.reply = NoReply, !.token = NoToken, !.since = 0]
    OBVIOUS
  <2>2. call' = [call EXCEPT ![c] = k]
    BY <1>7, <2>1 DEF transportFails
  <2>3. k.pc \in {"limiter", "token"}
    BY <1>1, <2>1 DEF CallOK, FirstStep
  <2> QED
    BY <1>1, <1>7, <2>1, <2>2, <2>3, MoveStep DEF transportFails, At, CallOK, Working
<1> QED
  BY <1>2, <1>3, <1>4, <1>5, <1>6, <1>7 DEF limiterWait, issueFails, transportFails,
     checkError, conversionFails, candleFails

\* The call returns, and with it the day and the rows that were its loop's.
LEMMA ReturnPages ==
    ASSUME TokenTypes, PagesInv, NEW c \in Callers, return(c)
    PROVE  PagesInv'
<1>1. call' = [call EXCEPT ![c] = Idle]
  BY DEF return
<1>2. /\ Idle.pc = "idle" /\ Idle.plan.pager = "none" /\ Idle.all = <<>>
      /\ PlanOK(Idle.plan)
  BY DEF Idle, NoPlan, Plan, PlanOK, Pagers
<1>3. LoopOK(Idle, day', top')
  BY <1>2 DEF LoopOK
<1>4. day' \in Days /\ top' \in 0..Close
  BY PageConstants DEF return, PagesInv, Days
<1>5. CASE call[c].plan.pager = "none"
  <2>1. UNCHANGED <<day, top>>
    BY <1>5 DEF return
  <2> QED
    BY <1>1, <1>2, <1>3, <1>4, <2>1, LoopStep
<1>6. CASE call[c].plan.pager # "none"
  <2>1. \A d \in Callers : d # c => call[d].plan.pager = "none"
    BY <1>6 DEF PagesInv, OneLoop
  <2> QED
    BY <1>1, <1>2, <1>3, <1>4, <2>1, LoopStep
<1> QED
  BY <1>5, <1>6

\* A row more at the server: only a loop that has its first page sees it, on a plain
\* day, and its later pages lie behind that page.
LEMMA RowPages ==
    ASSUME TokenTypes, PagesInv, newRow
    PROVE  PagesInv'
<1>1. PICK c \in Callers : call[c].all # <<>> /\ ~At(c, "done")
  BY DEF newRow
<1>2. /\ day = "plain" /\ UNCHANGED <<day, call>> /\ top' = top + 1 /\ top < Close
      /\ top \in 0..Close
  BY DEF newRow, PagesInv
<1>3. top' \in 1..Close /\ \A i : i \in 1..top => i \in 1..top'
  BY <1>2, PageConstants
<1>4. LoopOK(call[c], day, top) /\ CallOK(call[c])
  BY DEF PagesInv, TokenTypes
<1>5. call[c].plan.pager # "none" /\ call[c].pc \in Working
  BY <1>1, <1>4 DEF LoopOK, CallOK, Pcs, Working, At
<1>6. Going(call[c], day, top)
  BY <1>1, <1>4, <1>5 DEF LoopOK, Fresh
<1>7. Going(call[c], day, top')
  BY <1>2, <1>3, <1>6 DEF Going, KisGoing
<1>8. call[c].pc = "reply" /\ call[c].reply.kind = "page" => Replied(call[c], day, top')
  BY <1>1, <1>3, <1>4, <1>5 DEF LoopOK, Replied
<1>9. LoopOK(call[c], day, top')
  BY <1>1, <1>3, <1>4, <1>5, <1>7, <1>8 DEF LoopOK, At, Working
<1>10. ASSUME NEW d \in Callers PROVE LoopOK(call[d], day, top')
  <2>1. CASE d = c
    BY <1>9, <2>1
  <2>2. CASE d # c
    <3>1. call[d].plan.pager = "none" /\ LoopOK(call[d], day, top)
      BY <1>5, <2>2 DEF PagesInv, OneLoop
    <3> QED
      BY <3>1, NoLoop
  <2> QED
    BY <2>1, <2>2
<1>11. \A d \in Callers : LoopOK(call[d], day, top)'
  BY <1>2, <1>10
<1> QED
  BY <1>2, <1>3, <1>11 DEF PagesInv, OneLoop

\* The rows that have come since a loop's first page are on none of its later pages.
LEMMA PageSame ==
    ASSUME NEW d, NEW t \in Nat, NEW k, PlanOK(k.plan), k.plan.pager # "none", Going(k, d, t)
    PROVE  Page(k, d, t) = Page(k, d, k.top0)
<1>1. k.key \in Nat /\ k.key # 0 /\ k.top0 \in Nat /\ k.top0 <= t
  BY DEF Going
<1>2. CASE k.plan.pager = "kis"
  <2>1. k.key <= k.top0 \/ t = k.top0
    BY <1>2 DEF Going, KisGoing
  <2>2. Lower(k.key, t) = Lower(k.key, k.top0)
    BY <1>1, <2>1 DEF Lower
  <2>3. KisPage(k.key, d, t) = KisPage(k.key, d, k.top0)
    BY <2>2 DEF KisPage
  <2> QED
    BY <1>2, <2>3 DEF Page
<1>3. CASE k.plan.pager # "kis"
  <2>1. PICK w : w = wanted(k.plan.pager, k.key)
    OBVIOUS
  <2>2. w \in Int /\ w <= k.top0
    <3>1. CASE k.plan.pager = "t8452"
      <4>1. w = k.key - 1 /\ k.key <= k.top0
        BY <2>1, <3>1 DEF wanted, Going, MinutesGoing
      <4> QED
        BY <1>1, <4>1
    <3>2. CASE k.plan.pager = "t8453"
      <4>1. w = 2 * (k.key - 1) /\ 2 * (k.key - 1) < k.top0
        BY <2>1, <3>2 DEF wanted, Going, TicksGoing
      <4> QED
        BY <1>1, <4>1
    <3>3. CASE k.plan.pager \in Appending
      <4>1. w = k.key /\ k.key < k.top0
        BY <2>1, <3>3 DEF wanted, Going, AppendGoing, Appending
      <4> QED
        BY <1>1, <4>1
    <3> QED
      BY <1>3, <3>1, <3>2, <3>3 DEF PlanOK, Pagers
  <2>3. Lower(w, t) = Lower(w, k.top0)
    BY <1>1, <2>2 DEF Lower
  <2>4. LsV2Page(k.plan.pager, k.key, t) = LsV2Page(k.plan.pager, k.key, k.top0)
    BY <1>1, <2>1, <2>3 DEF LsV2Page
  <2> QED
    BY <1>3, <2>4 DEF Page
<1> QED
  BY <1>2, <1>3

\* The server's answer.
LEMMA ServePages ==
    ASSUME TokenTypes, PagesInv, NEW c \in Callers, serve(c)
    PROVE  PagesInv'
<1> DEFINE o == call[c]
           page == Page(o, day, top)
<1>1. CallOK(o) /\ LoopOK(o, day, top) /\ day \in Days /\ top \in 0..Close
      /\ UNCHANGED <<day, top>> /\ o.pc = "wire"
  BY DEF TokenTypes, PagesInv, serve, At
<1>2. PICK answer :
        /\ answer.kind = "page" =>
              answer.rows = page.rows /\ answer.more = page.more /\ answer.key = page.key
        /\ answer.kind # "page" => ~answer.more
        /\ call' = [call EXCEPT
               ![c].pc = "reply", ![c].token = NoToken, ![c].since = 0,
               ![c].top0 = IF call[c].all = <<>> THEN top ELSE @,
               ![c].reply = answer]
  BY DEF serve, NoReply
<1>3. PICK k : k = [o EXCEPT
               !.pc = "reply", !.token = NoToken, !.since = 0,
               !.top0 = IF call[c].all = <<>> THEN top ELSE @, !.reply = answer]
  OBVIOUS
<1>4. /\ k.pc = "reply" /\ k.plan = o.plan /\ k.key = o.key /\ k.all = o.all
      /\ k.top0 = (IF o.all = <<>> THEN top ELSE o.top0) /\ k.reply = answer
  BY <1>1, <1>3 DEF CallOK
<1>5. ASSUME o.plan.pager # "none"
      PROVE  /\ top \in 1..Close
             /\ Fresh(k) \/ Going(k, day, top)
             /\ k.top0 \in 1..top /\ (k.all = <<>> => k.top0 = top)
             /\ Page(k, day, k.top0) = page
  <2>1. top \in 1..Close /\ (Fresh(o) \/ Going(o, day, top))
    BY <1>1, <1>5 DEF LoopOK, Working
  <2>2. Page(k, day, top) = page
    BY <1>4 DEF Page
  <2>3. CASE Fresh(o)
    <3>1. Fresh(k) /\ k.top0 = top
      BY <1>4, <2>3 DEF Fresh
    <3> QED
      BY <1>4, <2>1, <2>2, <3>1
  <2>4. CASE Going(o, day, top)
    <3>1. k.top0 = o.top0 /\ k.all # <<>>
      BY <1>4, <2>4 DEF Going
    <3>2. Going(k, day, top)
      BY <1>4, <2>4, <3>1 DEF Going, KisGoing, AppendGoing, MinutesGoing, TicksGoing
    <3>3. Page(k, day, k.top0) = Page(k, day, top)
      <4>1. PlanOK(k.plan) /\ k.plan.pager # "none" /\ top \in Nat
        BY <1>1, <1>2, <1>4, <1>5, <2>1 DEF LoopOK
      <4> QED
        BY <3>2, <4>1, PageSame
    <3>4. k.top0 \in 1..top
      BY <3>2 DEF Going
    <3> QED
      BY <2>1, <2>2, <3>1, <3>2, <3>3, <3>4
  <2> QED
    BY <2>1, <2>3, <2>4
<1>6. LoopOK(k, day, top)
  <2>1. o.plan.pager # "none" /\ k.reply.kind = "page" => Replied(k, day, top)
    <3> HIDE DEF page
    <3> QED
      BY <1>2, <1>4, <1>5 DEF Replied
  <2> QED
    BY <1>1, <1>2, <1>4, <1>5, <2>1 DEF LoopOK
<1>7. call' = [call EXCEPT ![c] = k]
  BY <1>2, <1>3
<1> QED
  BY <1>1, <1>4, <1>6, <1>7, LoopStep

\* A turn of any loop over the page it asked for ends with the loop's result, or goes
\* on with an earlier key and with all that the invariant asks of it.
LEMMA AnyTurn ==
    ASSUME NEW d \in Days, NEW t \in 1..Close, NEW k, PlanOK(k.plan), k.plan.pager # "none",
           Fresh(k) \/ Going(k, d, t), Replied(k, d, t), NEW m, m = mergePage(k, k.reply),
           NEW n, n.plan = k.plan, n.top0 = k.top0, n.key = m.key, n.all = m.all
    PROVE  /\ m.done => Result(n, d)
           /\ ~m.done => Going(n, d, t) /\ (k.key # 0 => m.key < k.key)
<1> USE PageConstants
<1>1. /\ k.top0 \in 1..t /\ k.top0 \in 1..Close
      /\ k.all = <<>> => k.top0 = t
      /\ k.reply.rows = Page(k, d, k.top0).rows
      /\ k.reply.more = Page(k, d, k.top0).more
      /\ k.reply.key = Page(k, d, k.top0).key
  BY DEF Replied
<1>2. CASE k.plan.pager = "kis"
  <2>1. k.reply.rows = KisPage(k.key, d, k.top0).rows
    BY <1>1, <1>2 DEF Page
  <2>2. m = GetMinuteChart(k, k.reply)
    BY <1>2 DEF mergePage
  <2>3. /\ m.done => m.all = IF d = "holiday" THEN <<>> ELSE Up(0, k.top0)
        /\ ~m.done =>
              /\ d # "holiday" /\ m.all # <<>>
              /\ m.key \in Nat /\ 1 < m.key /\ m.key < k.key /\ m.key < Close
              /\ d = "mixed" => t = k.top0
              /\ \/ m.key <= k.top0 /\ m.all = Down(k.top0, k.top0 + 1 - m.key)
                 \/ d = "mixed" /\ m.all = Down(k.top0, k.top0)
    BY <1>1, <1>2, <2>1, <2>2, KisTurn
  <2>4. k.plan.cont
    BY <1>2 DEF PlanOK
  <2>5. ASSUME ~m.done PROVE Going(n, d, t)
    <3>1. m.key \in Nat \ {0}
      BY <2>3, <2>5
    <3>2. KisGoing(n, d, t)
      BY <2>3, <2>5 DEF KisGoing
    <3> QED
      BY <1>1, <1>2, <2>3, <2>4, <2>5, <3>1, <3>2 DEF Going
  <2>6. ASSUME m.done PROVE Result(n, d)
    BY <1>2, <2>3, <2>6 DEF Result, Appending
  <2> QED
    BY <2>3, <2>5, <2>6
<1>3. CASE k.plan.pager # "kis"
  <2>1. /\ k.reply.rows = LsV2Page(k.plan.pager, k.key, k.top0).rows
        /\ k.reply.more = LsV2Page(k.plan.pager, k.key, k.top0).more
        /\ k.reply.key = LsV2Page(k.plan.pager, k.key, k.top0).key
    BY <1>1, <1>3 DEF Page
  <2>2. CASE k.plan.pager \in Appending
    <3>1. m = appendPage(k, k.reply)
      BY <2>2 DEF mergePage, Appending
    <3>2. Fresh(k) \/ (k.plan.cont /\ k.key \in Nat \ {0} /\ AppendGoing(k))
      BY <2>2 DEF Going, Appending
    <3>3. /\ m.done =>
                IF k.plan.cont THEN OnceEach(m.all, 1..k.top0)
                ELSE OnceEach(m.all, {r \in 1..k.top0 : r + PageSize > k.top0})
          /\ ~m.done =>
                /\ k.plan.cont /\ m.all # <<>> /\ m.key \in Nat \ {0}
                /\ k.key # 0 => m.key < k.key
                /\ m.key < k.top0 /\ m.all \in Seq((m.key + 1)..k.top0)
                /\ OnceEach(m.all, (m.key + 1)..k.top0)
      BY <1>1, <2>1, <2>2, <3>1, <3>2, AppendTurn
    <3>4. ASSUME ~m.done PROVE Going(n, d, t)
      <4>1. AppendGoing(n)
        BY <3>3, <3>4 DEF AppendGoing
      <4> QED
        BY <1>1, <2>2, <3>3, <3>4, <4>1 DEF Going, Appending
    <3>5. ASSUME m.done PROVE Result(n, d)
      BY <2>2, <3>3, <3>5 DEF Result, Appending
    <3> QED
      BY <3>3, <3>4, <3>5
  <2>3. CASE k.plan.pager = "t8452"
    <3>1. m = prependPage(k, k.reply)
      BY <2>3 DEF mergePage
    <3>2. Fresh(k) \/ (k.plan.cont /\ k.key \in Nat \ {0} /\ MinutesGoing(k))
      BY <2>3 DEF Going
    <3>3. MinutesTurned(k, m)
      BY <1>1, <2>1, <2>3, <3>1, <3>2, MinutesTurn
    <3>4. ASSUME ~m.done PROVE Going(n, d, t)
      <4>1. MinutesGoing(n)
        BY <3>3, <3>4 DEF MinutesTurned, MinutesGoing
      <4>2. k.plan.cont /\ m.all # <<>> /\ m.key \in Nat \ {0}
        BY <3>3, <3>4 DEF MinutesTurned
      <4> QED
        BY <1>1, <2>3, <4>1, <4>2 DEF Going
    <3>5. ASSUME m.done PROVE Result(n, d)
      BY <2>3, <3>3, <3>5 DEF Result, Appending, MinutesTurned
    <3> QED
      BY <3>3, <3>4, <3>5 DEF MinutesTurned
  <2>4. CASE k.plan.pager = "t8453"
    <3>1. m = prependPage(k, k.reply)
      BY <2>4 DEF mergePage
    <3>2. Fresh(k) \/ (k.plan.cont /\ k.key \in Nat \ {0} /\ TicksGoing(k))
      BY <2>4 DEF Going
    <3>3. /\ m.done =>
                IF k.plan.cont THEN TickOfEachTime(m.all, k.top0)
                ELSE OnceEach(m.all, {r \in 1..k.top0 : r + PageSize > k.top0})
          /\ ~m.done =>
                /\ k.plan.cont /\ m.all # <<>> /\ m.key \in Nat \ {0}
                /\ k.key # 0 => m.key < k.key
                /\ 2 * (m.key - 1) < k.top0
                /\ TicksAfter(m.all, 2 * (m.key - 1), k.top0)
      BY <1>1, <2>1, <2>4, <3>1, <3>2, TicksTurn
    <3>4. ASSUME ~m.done PROVE Going(n, d, t)
      <4>1. TicksGoing(n)
        BY <3>3, <3>4 DEF TicksGoing
      <4> QED
        BY <1>1, <2>4, <3>3, <3>4, <4>1 DEF Going
    <3>5. ASSUME m.done PROVE Result(n, d)
      BY <2>4, <3>3, <3>5 DEF Result, Appending
    <3> QED
      BY <3>3, <3>4, <3>5
  <2> QED
    BY <1>3, <2>2, <2>3, <2>4 DEF PlanOK, Pagers
<1> QED
  BY <1>2, <1>3

\* The loop's turn.  A business error that no DTO checked ends the loop.
LEMMA AnswerPages ==
    ASSUME TokenTypes, PagesInv, NEW c \in Callers, answered(c)
    PROVE  PagesInv'
<1> DEFINE o == call[c]
<1>1. /\ CallOK(o) /\ LoopOK(o, day, top) /\ day \in Days /\ top \in 0..Close
      /\ UNCHANGED <<day, top>> /\ o.pc = "reply" /\ passed(o)
  BY DEF TokenTypes, PagesInv, answered, At
<1>2. PICK m : m = mergePage(o, o.reply)
  OBVIOUS
<1>3. PICK pc : pc = IF m.done THEN "done" ELSE FirstStep(o.plan)
  OBVIOUS
<1>4. PICK k : k = [Idle EXCEPT !.pc = pc, !.plan = o.plan, !.key = m.key,
                        !.all = m.all, !.top0 = o.top0, !.swallowed = o.reply.kind = "error"]
  OBVIOUS
<1>5. call' = [call EXCEPT ![c] = k]
  BY <1>2, <1>3, <1>4, Zenon DEF answered
<1>6. /\ k.pc = pc /\ k.plan = o.plan /\ k.key = m.key /\ k.all = m.all
      /\ k.top0 = o.top0 /\ (k.swallowed <=> o.reply.kind = "error")
  BY <1>4 DEF Idle
<1>7. IF m.done THEN pc = "done" ELSE pc \in {"limiter", "token"}
  BY <1>3 DEF FirstStep
<1>8. CASE o.plan.pager = "none"
  <2>1. m.all = <<>> /\ m.done
    BY <1>2, <1>8 DEF mergePage
  <2>2. LoopOK(k, day, top)
    BY <1>1, <1>6, <1>7, <1>8, <2>1 DEF LoopOK
  <2> QED
    BY <1>1, <1>5, <1>6, <2>2, LoopStep
<1>9. CASE o.plan.pager # "none" /\ o.reply.kind = "page"
  <2>1. /\ PlanOK(o.plan) /\ top \in 1..Close
        /\ Fresh(o) \/ Going(o, day, top)
        /\ Replied(o, day, top)
    BY <1>1, <1>9 DEF LoopOK, Working
  <2>2. /\ m.done => Result(k, day)
        /\ ~m.done => Going(k, day, top)
    <3> HIDE DEF o
    <3> QED
      BY <1>1, <1>2, <1>6, <1>9, <2>1, AnyTurn
  <2>3. LoopOK(k, day, top)
    BY <1>1, <1>6, <1>7, <1>9, <2>1, <2>2 DEF LoopOK, Working
  <2> QED
    BY <1>1, <1>5, <1>6, <2>3, LoopStep
<1>10. CASE o.plan.pager # "none" /\ o.reply.kind # "page"
  <2>1. ~o.reply.more /\ o.reply.kind = "error" /\ ~o.plan.checks
    BY <1>1, <1>10 DEF LoopOK, passed
  <2>2. PlanOK(o.plan)
    BY <1>1 DEF LoopOK
  <2>3. m.done
    BY <1>2, <1>10, <2>1, <2>2 DEF mergePage, appendPage, prependPage, PlanOK, Pagers, Appending
  <2>4. LoopOK(k, day, top)
    BY <1>1, <1>6, <1>7, <1>10, <2>1, <2>2, <2>3 DEF LoopOK, Working
  <2> QED
    BY <1>1, <1>5, <1>6, <2>4, LoopStep
<1> QED
  BY <1>8, <1>9, <1>10

-----------------------------------------------------------------------------
(* The theorems about the page loops.                                       *)

\* The invariant is inductive, next to that of the tokens.
LEMMA PagesInvStep == TokenInv /\ PagesInv /\ [Next]_vars => PagesInv'
<1> SUFFICES ASSUME TokenInv, PagesInv, [Next]_vars PROVE PagesInv'
  OBVIOUS
<1>1. TokenTypes
  BY DEF TokenInv
<1>2. ASSUME NEW c \in Callers, endpoint(c) PROVE PagesInv'
  BY <1>1, <1>2, EndpointPages
<1>3. ASSUME NEW c \in Callers, attempt(c) PROVE PagesInv'
  BY <1>1, <1>3, MovePages, ServePages, AnswerPages, ReturnPages DEF attempt
<1>4. CASE newRow
  BY <1>1, <1>4, RowPages
<1>5. CASE UNCHANGED <<day, top, call>>
  <2>1. \A c \in Callers : LoopOK(call[c], day, top)'
    BY <1>5 DEF PagesInv
  <2> QED
    BY <1>5, <2>1 DEF PagesInv, OneLoop
<1>6. CASE \/ lsSetToken \/ lsV2SetToken \/ kiwoomSetToken
           \/ lsClearToken \/ lsV2ClearToken \/ kiwoomClearToken \/ Tick \/ UNCHANGED vars
  BY <1>5, <1>6 DEF lsSetToken, lsV2SetToken, kiwoomSetToken, lsClearToken,
     lsV2ClearToken, kiwoomClearToken, storeSet, Tick, vars
<1> QED
  BY <1>2, <1>3, <1>4, <1>6 DEF Next

\* It holds in every reachable state.
LEMMA PagesInvAlways == Spec => []PagesInv
<1>1. Init => PagesInv
  <2> SUFFICES ASSUME Init PROVE PagesInv
    OBVIOUS
  <2>1. \A c \in Callers : call[c] = Idle
    BY DEF Init
  <2>2. /\ Idle.pc = "idle" /\ Idle.plan.pager = "none" /\ Idle.all = <<>>
        /\ PlanOK(Idle.plan)
    BY DEF Idle, NoPlan, Plan, PlanOK, Pagers
  <2>3. \A c \in Callers : LoopOK(call[c], day, top)
    BY <2>1, <2>2 DEF LoopOK
  <2>4. day \in Days /\ top \in 0..Close
    BY PageConstants DEF Init, Days
  <2> QED
    BY <2>1, <2>2, <2>3, <2>4 DEF PagesInv, OneLoop
<1> QED
  BY <1>1, PagesInvStep, TokenInvAlways, PTL DEF Spec

\* A page loop that returns without an error returns every row that existed when its
\* first page was read, each once and in the promised order (GetMinuteChart's seen and
\* sort, the appended and prepended pages of LS v2), for every page size, every length
\* of a day, every retry and every row that trading adds meanwhile.
THEOREM EveryRowOnce == Spec => []RowsOnce
<1>1. PagesInv => RowsOnce
  <2> SUFFICES ASSUME PagesInv, NEW c \in Callers, At(c, "done"), ~call[c].swallowed
               PROVE  \/ call[c].plan.pager = "none"
                      \/ Result(call[c], day)
    BY DEF RowsOnce, Result, Appending
  <2> QED
    BY DEF PagesInv, LoopOK, At
<1> QED
  BY <1>1, PagesInvAlways, PTL

\* A page loop never asks for the page it has, nor for a later one: once its first page
\* is read (key), a turn that does not end it moves to a strictly earlier key.  This is
\* what the loops' stop conditions are for, and what ends them.
PagesGoBack ==
    [][\A c \in Callers :
          answered(c) /\ call'[c].pc # "done" /\ call[c].key # 0 =>
             call'[c].key < call[c].key]_vars

\* The keys of a page loop go strictly back, for every page size and day.
THEOREM LoopsGoBack == Spec => PagesGoBack
<1>1. ASSUME TokenInv, PagesInv, NEW c \in Callers, answered(c), call'[c].pc # "done",
             call[c].key # 0
      PROVE  call'[c].key < call[c].key
  <2> DEFINE o == call[c]
  <2>1. /\ CallOK(o) /\ LoopOK(o, day, top) /\ day \in Days /\ top \in 0..Close
        /\ o.pc = "reply" /\ passed(o) /\ call = [d \in Callers |-> call[d]]
    BY <1>1 DEF TokenInv, TokenTypes, PagesInv, answered, At
  <2>2. PICK m : m = mergePage(o, o.reply)
    OBVIOUS
  <2>3. PICK k : k = [Idle EXCEPT !.pc = IF m.done THEN "done" ELSE FirstStep(o.plan),
                          !.plan = o.plan, !.key = m.key, !.all = m.all, !.top0 = o.top0,
                          !.swallowed = o.reply.kind = "error"]
    OBVIOUS
  <2>4. call' = [call EXCEPT ![c] = k]
    BY <1>1, <2>2, <2>3, Zenon DEF answered
  <2>5. call'[c] = k
    BY <2>1, <2>4
  <2>6. /\ m.done => k.pc = "done"
        /\ k.plan = o.plan /\ k.key = m.key /\ k.all = m.all /\ k.top0 = o.top0
    BY <2>3 DEF Idle
  <2>7. ~m.done
    BY <1>1, <2>5, <2>6
  <2>8. PlanOK(o.plan) /\ o.plan.pager # "none"
    BY <2>1, <2>2, <2>7 DEF LoopOK, mergePage
  <2>9. o.reply.kind = "page"
    <3> SUFFICES ASSUME o.reply.kind # "page" PROVE FALSE
      OBVIOUS
    <3>1. ~o.reply.more /\ ~o.plan.checks
      BY <2>1, <2>8 DEF LoopOK, passed
    <3> QED
      BY <2>2, <2>7, <2>8, <3>1 DEF mergePage, appendPage, prependPage, PlanOK, Pagers, Appending
  <2>10. top \in 1..Close /\ (Fresh(o) \/ Going(o, day, top)) /\ Replied(o, day, top)
    BY <2>1, <2>8, <2>9 DEF LoopOK, Working
  <2>11. m.key < o.key
    <3>1. o.key # 0
      BY <1>1
    <3> HIDE DEF o
    <3> QED
      BY <3>1, <2>1, <2>2, <2>6, <2>7, <2>8, <2>10, AnyTurn
  <2> QED
    BY <2>5, <2>6, <2>11
<1>2. TokenInv /\ PagesInv /\ [Next]_vars =>
        [\A c \in Callers :
            answered(c) /\ call'[c].pc # "done" /\ call[c].key # 0 =>
               call'[c].key < call[c].key]_vars
  BY <1>1
<1> QED
  BY <1>2, TokenInvAlways, PagesInvAlways, PTL DEF Spec, PagesGoBack

=============================================================================
