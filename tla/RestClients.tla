----------------------------- MODULE RestClients -----------------------------
(***************************************************************************)
(* The REST side of the brokers: the four clients (KIS, LS, LS v2, Kiwoom) *)
(* and the auth2 transport.  Every request waits for its rate limiter,     *)
(* takes a bearer token from a cache that all callers share, is sent, and  *)
(* its answer is checked; the chart and list endpoints go on asking for    *)
(* the next page until their loop says stop.  A behaviour follows one      *)
(* client, chosen in Init.                                                 *)
(*                                                                         *)
(* Outside src/ and modelled from its use: the requester (sends, and may   *)
(* run the request builder again), the key store (one lock around "check,  *)
(* issue, keep", as reusetokensource of auth2 has it), the rate limiter    *)
(* (a wait) and the brokers' servers.  Payloads, headers and error texts   *)
(* are left out: a row is its position in time.                            *)
(***************************************************************************)
EXTENDS Naturals, Sequences, FiniteSets, SequencesExt

CONSTANTS
    Callers,            \* goroutines that call the client
    None,
    Life,               \* what the server grants a token (ExpiresIn)
    KisMargin,          \* tokenExpiryMargin of kis
    StoreMargin,        \* the margin kis gives its key store
    TokenExpiryMargin,  \* tokenExpiryMargin of ls, the margin in auth2
    PageSize,           \* rows per page (120 in GetMinuteChart)
    Close,              \* the last row of a day; row 1 is the opening
    MaxCodes,           \* t8407MaxCodes
    MaxTime, MaxCalls, MaxRetries   \* bounds: clock, calls, builder reruns

ASSUME RestAssumption ==
    /\ {Life, KisMargin, StoreMargin, TokenExpiryMargin, PageSize, Close} \subseteq Nat
    /\ {MaxCodes, MaxTime, MaxCalls, MaxRetries} \subseteq Nat
    /\ KisMargin + StoreMargin < Life /\ TokenExpiryMargin < Life
    /\ PageSize > 1 /\ Close > 1 /\ None \notin Callers

VARIABLES
    client,     \* whose code this behaviour runs
    day,        \* the date a chart is asked for ("plain"; "mixed" when KIS's pages run
                \* on into the day before; "holiday" when they hold only that day)
    now,        \* the clock, local and the server's
    cache,      \* the key store's token; exp = 0 when it holds none
    mu,         \* who holds the key store's lock
    top,        \* rows 1..top exist at the server; 0 while nobody asks
    calls,      \* calls begun
    call        \* each caller's call

vars == <<client, day, now, cache, mu, top, calls, call>>

NoToken == [exp |-> 0, srv |-> 0, lag |-> 0]

\* What an endpoint asks of sendREST and does with the answer: a limiter to wait
\* for, a DTO with CheckError, a conversion that can fail, the page loop.
Plan(limited, checks, parses, pager, cont) ==
    [limited |-> limited, checks |-> checks, parses |-> parses,
     pager |-> pager, cont |-> cont]

NoPlan == Plan(FALSE, FALSE, FALSE, "none", FALSE)
NoReply == [kind |-> "none", rows |-> <<>>, more |-> FALSE, key |-> 0, inTime |-> FALSE]

Idle ==
    [pc |-> "idle", plan |-> NoPlan, key |-> 0, all |-> <<>>, top0 |-> 0,
     token |-> NoToken, since |-> 0, tries |-> 0, reply |-> NoReply, swallowed |-> FALSE]

At(c, pc) == call[c].pc = pc
Fail(c) == call' = [call EXCEPT ![c] = [Idle EXCEPT !.pc = "failed", !.plan = call[c].plan]]

-----------------------------------------------------------------------------
(* Tokens.  exp is the client's idea of the expiry, srv the server's, lag   *)
(* the time between the server's stamp and the client's reading of it.      *)

kisIssueToken(stamp) ==
    [exp |-> now + Life - KisMargin, srv |-> stamp + Life, lag |-> now - stamp]
lsIssueToken(stamp) ==
    [exp |-> now + Life, srv |-> stamp + Life, lag |-> now - stamp]
lsV2IssueToken(stamp) ==
    [exp |-> now + Life, srv |-> stamp + Life, lag |-> now - stamp]
\* expires_dt is the server's own absolute time.
kiwoomIssueToken(stamp) ==
    [exp |-> stamp + Life, srv |-> stamp + Life, lag |-> now - stamp]
\* Provider.Parse turns the answer into a token, like the others from ExpiresIn.
refresherToken(stamp) ==
    [exp |-> now + Life, srv |-> stamp + Life, lag |-> now - stamp]

issueToken(stamp) ==
    CASE client = "kis"    -> kisIssueToken(stamp)
      [] client = "ls"     -> lsIssueToken(stamp)
      [] client = "lsV2"   -> lsV2IssueToken(stamp)
      [] client = "kiwoom" -> kiwoomIssueToken(stamp)
      [] client = "auth2"  -> refresherToken(stamp)

kisIsValid(t) == t.exp > now + StoreMargin
\* A mutant: no margin before the expiry.
lsIsValid_NoMargin(t) == t.exp > now
lsIsValid(t) == t.exp > now + TokenExpiryMargin
lsV2IsValid(t) == now < t.exp
kiwoomIsValid(t) == now < t.exp
auth2IsValid(t) == t.exp > now + TokenExpiryMargin

IsValid(t) ==
    CASE client = "kis"    -> kisIsValid(t)
      [] client = "ls"     -> lsIsValid(t)
      [] client = "lsV2"   -> lsV2IsValid(t)
      [] client = "kiwoom" -> kiwoomIsValid(t)
      [] client = "auth2"  -> auth2IsValid(t)

\* The token a request carries; the clock read when it was taken.
Send(c, t) == call' = [call EXCEPT ![c].pc = "wire", ![c].token = t, ![c].since = now]

\* A mutant: the lock is not taken.
GetToken_NoLock(c) ==
    /\ At(c, "token")
    /\ IF IsValid(cache)
       THEN Send(c, cache)
       ELSE call' = [call EXCEPT ![c].pc = "issuing", ![c].since = now]
    /\ UNCHANGED <<client, day, now, cache, mu, top, calls>>

\* Takes the lock and issues only if the cached token has run out.
GetToken(c) ==
    /\ At(c, "token")
    /\ mu = None
    /\ IF IsValid(cache)
       THEN Send(c, cache) /\ UNCHANGED mu
       ELSE /\ mu' = c
            /\ call' = [call EXCEPT ![c].pc = "issuing", ![c].since = now]
    /\ UNCHANGED <<client, day, now, cache, top, calls>>

\* The server grants the token; its answer is on the way back.
stampToken(c) ==
    /\ At(c, "issuing")
    /\ call' = [call EXCEPT ![c].pc = "stamped", ![c].since = now]
    /\ UNCHANGED <<client, day, now, cache, mu, top, calls>>

\* The answer is read: the token is kept, the lock given back.
keepToken(c) ==
    /\ At(c, "stamped")
    /\ cache' = issueToken(call[c].since)
    /\ Send(c, cache')
    /\ mu' = None
    /\ UNCHANGED <<client, day, now, top, calls>>

\* A mutant: an early return leaves the lock taken.
issueFails_KeepsLock(c) ==
    /\ call[c].pc \in {"issuing", "stamped"}
    /\ Fail(c)
    /\ UNCHANGED <<client, day, now, cache, mu, top, calls>>

\* Limiter, transport, business error, empty token or unreadable expiry: the
\* cache keeps what it had and the builder's error ends the call.
issueFails(c) ==
    /\ call[c].pc \in {"issuing", "stamped"}
    /\ mu' = None
    /\ Fail(c)
    /\ UNCHANGED <<client, day, now, cache, top, calls>>

\* The key store's Set and Clear; each call counts against the bound on calls.
storeSet(t) ==
    /\ mu = None
    /\ calls < MaxCalls
    /\ calls' = calls + 1
    /\ cache' = t
    /\ UNCHANGED <<client, day, now, mu, top, call>>

\* A token installed by hand, granted just now, with a relative lifetime.
relativeToken == [exp |-> now + Life, srv |-> now + Life, lag |-> 0]

lsSetToken == client = "ls" /\ storeSet(relativeToken)
lsV2SetToken == client = "lsV2" /\ storeSet(relativeToken)
kiwoomSetToken == client = "kiwoom" /\ storeSet(relativeToken)
lsClearToken == client = "ls" /\ storeSet(NoToken)
lsV2ClearToken == client = "lsV2" /\ storeSet(NoToken)
kiwoomClearToken == client = "kiwoom" /\ storeSet(NoToken)

-----------------------------------------------------------------------------
(* The servers' pages.                                                      *)

\* The newest m of rows 1..n, newest first; and the m rows after row n, in order.
Down(n, m) == [i \in 1..m |-> n + 1 - i]
Up(n, m) == [i \in 1..m |-> n + i]
Lower(a, b) == IF a < b THEN a ELSE b

\* KIS, with rows 1..n of the day: from the hour asked for backwards, that hour
\* included.
KisPage(key, d, n) ==
    LET rows(of, m) == [i \in 1..m |-> [day |-> of, t |-> m + 1 - i]]
        today == IF d = "holiday" THEN <<>> ELSE rows("today", Lower(key, n))
        past  == IF d = "plain" THEN <<>> ELSE rows("past", Close - 1)
        all   == today \o past
    IN  [rows |-> SubSeq(all, 1, Lower(PageSize, Len(all))), more |-> FALSE, key |-> 0]

\* Two ticks may carry the same time; minutes, and the entries of a list, do not.
Time(pager, r) == IF pager = "t8453" THEN (r + 1) \div 2 ELSE r

\* The newest row that a request's cts_time asks for: t8452 and t8453 answer with
\* what lies before that time, the others with that row too.
wanted(pager, key) ==
    CASE pager = "t8452" -> key - 1
      [] pager = "t8453" -> 2 * (key - 1)
      [] OTHER -> key

\* LS v2, with rows 1..n: pages go back in time; the charts' pages are in time
\* order, the others newest first.
LsV2Page(pager, key, n) ==
    LET newest == IF key = 0 THEN n ELSE Lower(wanted(pager, key), n)
        size   == Lower(PageSize, newest)
        more   == newest > PageSize
    IN  [rows |-> IF pager \in {"t8412", "t8452", "t8453"}
                  THEN Up(newest - size, size) ELSE Down(newest, size),
         more |-> more,
         key  |-> IF more THEN Time(pager, newest - PageSize) ELSE 0]

Page(k, d, n) ==
    CASE k.plan.pager = "none" -> [rows |-> <<>>, more |-> FALSE, key |-> 0]
      [] k.plan.pager = "kis"  -> KisPage(k.key, d, n)
      [] OTHER                 -> LsV2Page(k.plan.pager, k.key, n)

-----------------------------------------------------------------------------
(* The page loops: what one page makes of the rows gathered so far, the key *)
(* of the next request, and whether the loop ends.                          *)

\* A mutant: no map of the rows seen.
addRow_All(all, r) == IF r.day = "today" THEN Append(all, r.t) ELSE all

\* A row of the day whose time was not seen is appended.
addRow(all, r) ==
    IF r.day = "today" /\ ~Contains(all, r.t) THEN Append(all, r.t) ELSE all

\* The page, row by row.
gathered(all, rows) ==
    LET upTo[i \in 0..Len(rows)] == IF i = 0 THEN all ELSE addRow(upTo[i - 1], rows[i])
    IN  upTo[Len(rows)]

GetMinuteChart(k, page) ==
    LET all  == gathered(k.all, page.rows)
        last == Last(page.rows).t
        stop == \/ Len(page.rows) < PageSize
                \/ all = k.all
                \/ last <= 1
                \/ last >= k.key
    IN  IF page.rows = <<>> \/ Head(page.rows).day # "today"
        THEN [all |-> Reverse(k.all), key |-> 0, done |-> TRUE]
        ELSE [all |-> IF stop THEN Reverse(all) ELSE all, key |-> last, done |-> stop]

\* t1405, t8412, t1302: pages are appended, the answer names the next key.
appendPage(k, page) ==
    [all |-> k.all \o page.rows, key |-> page.key,
     done |-> ~k.plan.cont \/ ~page.more \/ page.key = 0]

\* t8452, t8453: pages are put in front, the next key is the first row's time.
prependPage(k, page) ==
    LET done == ~k.plan.cont \/ ~page.more
    IN  [all |-> page.rows \o k.all, done |-> done,
         key |-> IF done THEN 0 ELSE Time(k.plan.pager, Head(page.rows))]

mergePage(k, page) ==
    CASE k.plan.pager = "none" -> [all |-> <<>>, key |-> 0, done |-> TRUE]
      [] k.plan.pager = "kis"  -> GetMinuteChart(k, page)
      [] k.plan.pager \in {"t1405", "t8412", "t1302"} -> appendPage(k, page)
      [] k.plan.pager \in {"t8452", "t8453"} -> prependPage(k, page)

-----------------------------------------------------------------------------
(* The endpoints.                                                           *)

FirstStep(plan) == IF plan.limited THEN "limiter" ELSE "token"

\* A bound: a page loop shares only the key store with other calls and takes its
\* tokens as they do, so it runs by itself.
Alone(plan) ==
    \A d \in Callers : ~At(d, "idle") => plan.pager = "none" /\ call[d].plan.pager = "none"

Begin(c, plan) ==
    /\ At(c, "idle")
    /\ calls < MaxCalls
    /\ Alone(plan)
    /\ calls' = calls + 1
    /\ call' = [call EXCEPT ![c] = [Idle EXCEPT
                    !.pc = FirstStep(plan), !.plan = plan,
                    !.key = IF plan.pager = "kis" THEN Close ELSE 0]]
    /\ IF plan.pager = "none" THEN UNCHANGED top ELSE top' \in 1..Close
    /\ IF plan.pager # "kis" THEN UNCHANGED day ELSE day' \in {"plain", "mixed", "holiday"}
    /\ UNCHANGED <<client, now, cache, mu>>

\* An endpoint that returns an error before it asks the server anything.
Refuse(c) ==
    /\ At(c, "idle")
    /\ calls < MaxCalls
    /\ calls' = calls + 1
    /\ Fail(c)
    /\ UNCHANGED <<client, day, now, cache, mu, top>>

\* sendREST of each client: which limiter it resolves, whether the DTO is checked.
kisSendREST(c, parses, pager) == Begin(c, Plan(TRUE, TRUE, parses, pager, TRUE))
lsSendREST(c) == Begin(c, Plan(TRUE, TRUE, FALSE, "none", FALSE))
limiterForTR(tr) == tr \in {"t1102", "t1101", "t8407", "t0424", "t8412", "t1302", "t8452", "t8453"}
lsV2SendREST(c, tr, checks, pager, cont) ==
    Begin(c, Plan(limiterForTR(tr), checks, FALSE, pager, cont))
kiwoomSendREST(c, checks) == Begin(c, Plan(TRUE, checks, FALSE, "none", FALSE))

kisGetPrice(c) == client = "kis" /\ kisSendREST(c, TRUE, "none")
kisPlaceOrder(c) == client = "kis" /\ kisSendREST(c, FALSE, "none")
kisGetBalance(c) == client = "kis" /\ kisSendREST(c, TRUE, "none")
kisMinuteChart(c) == client = "kis" /\ kisSendREST(c, TRUE, "kis")
\* GetOrderbook, GetCandles; CancelOrder, GetOpenOrders, GetOrderHistory.
kisMarketLater(c) == client = "kis" /\ Refuse(c)
kisOrdersLater(c) == client = "kis" /\ Refuse(c)

\* The codes of t8407: how many, and whether each one normalises.
badCodes(n, normal) == n = 0 \/ n > MaxCodes \/ ~normal

lsGetPrice(c) == client = "ls" /\ lsSendREST(c)
lsGetOrderbook(c) == client = "ls" /\ lsSendREST(c)
lsGetBalance(c) == client = "ls" /\ lsSendREST(c)
lsGetMultiPrices(c) ==
    /\ client = "ls"
    /\ \E n \in {0, 1, MaxCodes, MaxCodes + 1}, normal \in BOOLEAN :
          IF badCodes(n, normal) THEN Refuse(c) ELSE lsSendREST(c)

lsV2GetPrice(c) == client = "lsV2" /\ lsV2SendREST(c, "t1102", TRUE, "none", FALSE)
lsV2RawGetPrice(c) == client = "lsV2" /\ lsV2SendREST(c, "t1102", FALSE, "none", FALSE)
lsV2GetOrderbook(c) == client = "lsV2" /\ lsV2SendREST(c, "t1101", TRUE, "none", FALSE)
lsV2GetBalance(c) == client = "lsV2" /\ lsV2SendREST(c, "t0424", TRUE, "none", FALSE)
lsV2GetMultiPrices(c) ==
    /\ client = "lsV2"
    /\ \E n \in {0, 1, MaxCodes, MaxCodes + 1}, normal \in BOOLEAN :
          IF badCodes(n, normal) THEN Refuse(c)
          ELSE lsV2SendREST(c, "t8407", TRUE, "none", FALSE)

InvestmentWarning(c) ==
    client = "lsV2" /\ \E cont \in BOOLEAN : lsV2SendREST(c, "t1405", TRUE, "t1405", cont)
\* The DTOs of the charts and of t1302 have no CheckError.
StockByMinute(c) ==
    client = "lsV2" /\ \E cont \in BOOLEAN : lsV2SendREST(c, "t1302", FALSE, "t1302", cont)
ChartMinute(c) ==
    /\ client = "lsV2"
    /\ \E timeout \in {0, 1}, cont \in BOOLEAN :
          IF timeout <= 0 THEN Refuse(c) ELSE lsV2SendREST(c, "t8412", FALSE, "t8412", cont)
ChartIntegratedMinute(c) ==
    /\ client = "lsV2"
    /\ \E timeout \in {0, 1}, cont \in BOOLEAN :
          IF timeout <= 0 THEN Refuse(c) ELSE lsV2SendREST(c, "t8452", FALSE, "t8452", cont)
ChartIntegratedTick(c) ==
    /\ client = "lsV2"
    /\ \E timeout \in {0, 1}, cont \in BOOLEAN :
          IF timeout <= 0 THEN Refuse(c) ELSE lsV2SendREST(c, "t8453", FALSE, "t8453", cont)

\* The body is decoded as bytes, so nothing is checked.
SendRawREST(c) == client = "kiwoom" /\ kiwoomSendREST(c, FALSE)
RoundTrip(c) == client = "auth2" /\ Begin(c, NoPlan)

-----------------------------------------------------------------------------
(* One attempt.                                                             *)

limiterWait(c) ==
    /\ At(c, "limiter")
    /\ \/ call' = [call EXCEPT ![c].pc = "token"]
       \/ Fail(c)      \* the context ends first
    /\ UNCHANGED <<client, day, now, cache, mu, top, calls>>

\* How long a client's check leaves a request to reach the server, the delay of
\* the token's own issue taken off.
Margin ==
    CASE client = "kis" -> KisMargin + StoreMargin
      [] client \in {"ls", "auth2"} -> TokenExpiryMargin
      [] OTHER -> 0

\* The request reaches the server: a token past its expiry is rejected, otherwise
\* the answer is the page asked for or a business error.
serve(c) ==
    LET k == call[c]
        inTime == now - k.since + k.token.lag <= Margin
        page == Page(k, day, top)
        error(kind) == [NoReply EXCEPT !.kind = kind, !.inTime = inTime]
        answers == IF now >= k.token.srv
                   THEN {error("rejected")}
                   ELSE {error("error"),
                         [kind |-> "page", rows |-> page.rows, more |-> page.more,
                          key |-> page.key, inTime |-> inTime]}
    IN  /\ At(c, "wire")
        /\ \E answer \in answers :
              call' = [call EXCEPT
                  ![c].pc = "reply", ![c].token = NoToken, ![c].since = 0,
                  ![c].top0 = IF k.all = <<>> THEN top ELSE @,
                  ![c].reply = answer]
        /\ UNCHANGED <<client, day, now, cache, mu, top, calls>>

\* The request or its answer is lost, or its timeout ends it: the requester runs
\* the builder again, limiter and token included, or reports the error.
transportFails(c) ==
    /\ call[c].pc \in {"wire", "reply"}
    /\ \/ /\ call[c].tries < MaxRetries
          /\ call' = [call EXCEPT ![c].pc = FirstStep(call[c].plan), ![c].tries = @ + 1,
                                  ![c].reply = NoReply, ![c].token = NoToken, ![c].since = 0]
       \/ Fail(c)
    /\ UNCHANGED <<client, day, now, cache, mu, top, calls>>

\* A DTO without CheckError takes a business error for an empty last page.
passed(k) == k.reply.kind = "page" \/ (k.reply.kind = "error" /\ ~k.plan.checks)

checkError(c) ==
    /\ At(c, "reply")
    /\ ~passed(call[c])
    /\ Fail(c)
    /\ UNCHANGED <<client, day, now, cache, mu, top, calls>>

\* parsePrice, parseHolding: one field that is not a number fails the call.
conversionFails(c) ==
    /\ At(c, "reply")
    /\ passed(call[c]) /\ call[c].plan.parses /\ call[c].plan.pager = "none"
    /\ Fail(c)
    /\ UNCHANGED <<client, day, now, cache, mu, top, calls>>

\* parseMinuteCandle: so does one candle, with the pages already gathered.
candleFails(c) ==
    /\ At(c, "reply")
    /\ passed(call[c]) /\ call[c].plan.pager = "kis"
    /\ call[c].reply.rows # <<>> /\ Head(call[c].reply.rows).day = "today"
    /\ gathered(call[c].all, call[c].reply.rows) # call[c].all
    /\ Fail(c)
    /\ UNCHANGED <<client, day, now, cache, mu, top, calls>>

\* The loop's next turn or its result.
answered(c) ==
    LET k == call[c]
        m == mergePage(k, k.reply)
    IN  /\ At(c, "reply")
        /\ passed(k)
        /\ call' = [call EXCEPT ![c] = [Idle EXCEPT
               !.pc = IF m.done THEN "done" ELSE FirstStep(k.plan),
               !.plan = k.plan, !.key = m.key, !.all = m.all, !.top0 = k.top0,
               !.swallowed = k.reply.kind = "error"]]
        /\ UNCHANGED <<client, day, now, cache, mu, top, calls>>

return(c) ==
    /\ call[c].pc \in {"done", "failed"}
    /\ call' = [call EXCEPT ![c] = Idle]
    /\ IF call[c].plan.pager = "none" THEN UNCHANGED <<day, top>> ELSE day' = "plain" /\ top' = 0
    /\ UNCHANGED <<client, now, cache, mu, calls>>

Tick ==
    /\ now < MaxTime
    /\ now' = now + 1
    /\ UNCHANGED <<client, day, cache, mu, top, calls, call>>

\* Trading goes on while the day's chart is read.
newRow ==
    /\ top < Close
    /\ day = "plain"
    /\ \E c \in Callers : call[c].all # <<>> /\ ~At(c, "done")
    /\ top' = top + 1
    /\ UNCHANGED <<client, day, now, cache, mu, calls, call>>

-----------------------------------------------------------------------------
Init ==
    /\ client \in {"kis", "ls", "lsV2", "kiwoom", "auth2"}
    /\ day = "plain"
    /\ now = 0
    /\ cache = NoToken
    /\ mu = None
    /\ top = 0
    /\ calls = 0
    /\ call = [c \in Callers |-> Idle]

endpoint(c) ==
    \/ kisGetPrice(c) \/ kisPlaceOrder(c) \/ kisGetBalance(c) \/ kisMinuteChart(c)
    \/ kisMarketLater(c) \/ kisOrdersLater(c)
    \/ lsGetPrice(c) \/ lsGetOrderbook(c) \/ lsGetBalance(c) \/ lsGetMultiPrices(c)
    \/ lsV2GetPrice(c) \/ lsV2RawGetPrice(c) \/ lsV2GetOrderbook(c)
    \/ lsV2GetBalance(c) \/ lsV2GetMultiPrices(c)
    \/ InvestmentWarning(c) \/ StockByMinute(c) \/ ChartMinute(c)
    \/ ChartIntegratedMinute(c) \/ ChartIntegratedTick(c)
    \/ SendRawREST(c) \/ RoundTrip(c)

attempt(c) ==
    \/ limiterWait(c) \/ GetToken(c) \/ stampToken(c) \/ keepToken(c) \/ issueFails(c)
    \/ serve(c) \/ transportFails(c) \/ checkError(c) \/ conversionFails(c)
    \/ candleFails(c) \/ answered(c) \/ return(c)

Next ==
    \/ \E c \in Callers : endpoint(c) \/ attempt(c)
    \/ lsSetToken \/ lsV2SetToken \/ kiwoomSetToken
    \/ lsClearToken \/ lsV2ClearToken \/ kiwoomClearToken
    \/ Tick \/ newRow

Spec == Init /\ [][Next]_vars
FairSpec == Spec /\ \A c \in Callers : WF_vars(attempt(c))

-----------------------------------------------------------------------------
(* Properties.                                                              *)

\* A token that a client judged good is one the server still accepts, for every
\* request that arrives within the client's margin (isValid, tokenExpiryMargin):
\* whatever the clock did between the grant, its reading, the check and the
\* arrival, and whoever had put the token into the shared cache.
TokenAlive ==
    \A c \in Callers : call[c].reply.inTime => call[c].reply.kind # "rejected"

\* One token at a time: an issued token never replaces one that is still good, so
\* callers that find the cache expired together cost one request to the issuer.
OneIssue ==
    [][\A c \in Callers :
          At(c, "stamped") /\ cache' # cache /\ call'[c].pc # "stamped" => ~IsValid(cache)]_vars

\* Each row of S, once, in some order.
OnceEach(rows, S) == ToSet(rows) = S /\ IsInjective(rows)

\* Ticks of 1..n in time order, and one of them for every time there was.
TickOfEachTime(rows, n) ==
    /\ \A i \in DOMAIN rows : rows[i] \in 1..n
    /\ \A i, j \in DOMAIN rows : i < j => rows[i] < rows[j]
    /\ \A r \in 1..n : \E i \in DOMAIN rows : Time("t8453", rows[i]) = Time("t8453", r)

\* What a page loop returns without an error: every row that existed when its first
\* page was read, each once, in time order where the function promises it, and
\* nothing for a day without trading -- however trading, retries and page borders
\* fall.  Left out: an answer whose business error no DTO checked (swallowed); and of
\* ticks that share their time across a page border only one is promised.
RowsOnce ==
    \A c \in Callers :
        LET k == call[c]
        IN  At(c, "done") /\ ~k.swallowed =>
            /\ k.plan.pager = "kis" => k.all = IF day = "holiday" THEN <<>> ELSE Up(0, k.top0)
            /\ k.plan.pager \notin {"none", "kis"} /\ ~k.plan.cont =>
                  OnceEach(k.all, {r \in 1..k.top0 : r + PageSize > k.top0})
            /\ k.plan.pager \in {"t1405", "t8412", "t1302"} /\ k.plan.cont =>
                  OnceEach(k.all, 1..k.top0)
            /\ k.plan.pager = "t8452" /\ k.plan.cont => k.all = Up(0, k.top0)
            /\ k.plan.pager = "t8453" /\ k.plan.cont => TickOfEachTime(k.all, k.top0)

\* Every call returns: no failed issue keeps the key store's lock from the others,
\* and no page loop asks for the same page for ever.
CallsEnd ==
    \A c \in Callers : call[c].pc # "idle" ~> call[c].pc = "idle"

=============================================================================
