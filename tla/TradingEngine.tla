--------------------------- MODULE TradingEngine ----------------------------
(***************************************************************************)
(* The trading engine (internal/core/engine/engine.go), its IO worker      *)
(* (internal/core/ioworker) and the broker behind them.                    *)
(*                                                                         *)
(* The engine is one goroutine with one select loop. A handler runs to its *)
(* end before the next event is taken, except that a send to the IO worker *)
(* blocks while the channel is full; what a handler still has to send is   *)
(* kept in signals and toRefresh, and the engine is idle when both are     *)
(* empty. The IO worker is one goroutine too: it makes the blocking REST   *)
(* calls and sends the answers back. Four buffered channels join the two.  *)
(*                                                                         *)
(* The broker is external: it accepts, fills, rejects and cancels orders   *)
(* by itself, and sends execution notices over a websocket that may be     *)
(* down, in which case the notice is lost. REST calls may fail, and a      *)
(* PlaceOrder whose answer is lost may still have placed its order.        *)
(***************************************************************************)
EXTENDS ThemeStrategy

CONSTANTS
    Ticks,        \* the ticks the market may produce
    SellPrices,   \* the prices at which a market sell may execute
    InitialCash,  \* the cash of every account at the start
    DryRun,       \* Config.DryRun
    ActionCap, RefreshCap, ResultCap, BaselineCap,  \* defaultBuf (64)
    MaxActions,   \* bound: orders the engine has in flight to the worker
    MaxRefresh,   \* bound: refreshes the engine has in flight to the worker
    MaxExec,      \* bound: execution notices under way to the engine
    MaxStatus     \* bound: status events under way to the engine

ASSUME ChannelAssumption ==
    /\ ActionCap \in Nat \ {0} /\ RefreshCap \in Nat \ {0}
    /\ ResultCap \in Nat \ {0} /\ BaselineCap \in Nat \ {0}

\* The low request rate that NewChannels relies on (ch.go:25), as the largest
\* load under which the two goroutines cannot block each other. The code does
\* not enforce it.
ASSUME LoadAssumption ==
    /\ MaxActions \in Nat /\ MaxActions <= ActionCap + ResultCap + 1
    /\ MaxRefresh \in Nat /\ MaxRefresh <= RefreshCap + BaselineCap + 1
    /\ MaxActions <= ActionCap \/ MaxRefresh <= BaselineCap
    /\ MaxActions <= ResultCap \/ MaxRefresh <= RefreshCap

ASSUME InputAssumption ==
    /\ Ticks \subseteq TickEvent
    /\ SellPrices \subseteq Nat
    /\ InitialCash \in Int
    /\ DryRun \in BOOLEAN
    /\ MaxExec \in Nat /\ MaxStatus \in Nat

VARIABLES
    prices,      \* engine: pricestore.Store
    orders,      \* engine: ordertracker.Tracker
    balances,    \* engine: balancemgr.Manager
    signals,     \* engine: signals of the current handler not yet dispatched
    toRefresh,   \* engine: accounts the current handler still has to refresh
    actionCh, refreshCh,    \* engine -> worker
    resultCh, baselineCh,   \* worker -> engine
    worker,      \* what the worker is doing
    execCh,      \* broker -> engine: execution notices
    statusCh,    \* broker -> engine: accounts that reported "connected"
    conn,        \* broker: websocket up, per account
    xorders,     \* broker: the orders as they really are
    xbal         \* broker: the balances as they really are

engineVars == <<prices, orders, balances>>
outVars    == <<signals, toRefresh>>
ioVars     == <<actionCh, refreshCh, resultCh, baselineCh, worker>>
brokerVars == <<execCh, statusCh, conn, xorders, xbal>>
vars       == <<engineVars, outVars, ioVars, brokerVars>>

-----------------------------------------------------------------------------
\* Messages and the broker's records.

ActionRequest ==
    [acct : Accounts, code : Codes, side : Sides, qty : Nat, price : Int]

OrderResponse == [id : OrderIds, code : Codes, side : Sides, qty : Nat]

ActionResult ==
    [acct : Accounts, err : {FALSE}, resp : OrderResponse]
        \cup [acct : Accounts, err : {TRUE}]

Snapshot == [OrderIds -> TrackedOrder \cup {Untracked}]

\* Balance and orders of a refresh; hasOrders is baseline.Orders != nil.
BaselineResult ==
    [acct : Accounts, err : {TRUE}]
        \cup [acct : Accounts, err : {FALSE}, bal : AccountBalance,
              hasOrders : {FALSE}]
        \cup [acct : Accounts, err : {FALSE}, bal : AccountBalance,
              hasOrders : {TRUE}, snap : Snapshot]

Idle == [st |-> "idle"]

WorkerState ==
    {Idle}
        \cup [st : {"orders"}, acct : Accounts, bal : AccountBalance]
        \cup [st : {"baseline"}, msg : BaselineResult]
        \cup [st : {"result"}, msg : ActionResult]

XStatus == {"open", "partial", "filled", "rejected", "cancelled"}

XOrder ==
    [acct : Accounts, code : Codes, side : Sides, qty : Nat, price : Int,
     filled : Nat, status : XStatus]

Unplaced ==
    [acct |-> NoAccount, code |-> NoCode, side |-> "none", qty |-> 0,
     price |-> 0, filled |-> 0, status |-> "unplaced"]

Placed(id) == xorders[id].status # "unplaced"

Live(id) == xorders[id].status \in {"open", "partial"}

-----------------------------------------------------------------------------

Init ==
    /\ prices = [c \in Codes |-> NoTick]
    /\ orders = [id \in OrderIds |-> Untracked]
    /\ balances = [a \in Accounts |-> NoBalance]
    /\ signals = NoSignals
    /\ toRefresh = {}
    /\ actionCh = << >> /\ refreshCh = << >>
    /\ resultCh = << >> /\ baselineCh = << >>
    /\ worker = Idle
    /\ execCh = << >>
    /\ statusCh = << >>
    /\ conn = [a \in Accounts |-> FALSE]
    /\ xorders = [id \in OrderIds |-> Unplaced]
    /\ xbal = [a \in Accounts |->
                [set |-> TRUE, cash |-> InitialCash,
                 hold |-> [c \in Codes |-> NoHolding]]]

-----------------------------------------------------------------------------
\* The engine. A handler starts only when the previous one has sent all.

Pending == {i \in Slots : signals[i] # NoSignal}

EngineIdle == Pending = {} /\ toRefresh = {}

\* Orders, and refreshes, between the engine and the worker in either
\* direction. The two load bounds are on these.
ActionsInFlight ==
    Len(actionCh) + Len(resultCh) + (IF worker.st = "result" THEN 1 ELSE 0)

RefreshesInFlight ==
    Len(refreshCh) + Len(baselineCh)
        + (IF worker.st \in {"orders", "baseline"} THEN 1 ELSE 0)

\* Any tick of the market may be next: the tick channel is left out.
handleTick(tick) ==
    LET newPrices == UpdatePrice(prices, tick)
        holders   == FindHoldingWithAccount(balances, tick.code)
    IN  /\ EngineIdle
        /\ ActionsInFlight + ExitSlot <= MaxActions
        /\ prices' = newPrices
        /\ \E holder \in IF holders = {} THEN {NoAccount} ELSE holders :
              signals' = IF DryRun THEN NoSignals
                         ELSE OnTick(newPrices, orders, balances, tick, holder)
        /\ UNCHANGED <<orders, balances, toRefresh, ioVars, brokerVars>>

\* ThemeStrategy.OnExec returns no signals.
handleExec ==
    /\ EngineIdle
    /\ execCh # << >>
    /\ execCh' = Tail(execCh)
    /\ orders' = Apply(orders, Head(execCh))
    /\ balances' = ApplyExec(balances, Head(execCh))
    /\ UNCHANGED <<prices, outVars, ioVars, statusCh, conn, xorders, xbal>>

\* Only "connected" has an effect, so only those events are in statusCh.
handleStatus ==
    /\ EngineIdle
    /\ statusCh # << >>
    /\ RefreshesInFlight + 1 <= MaxRefresh
    /\ statusCh' = Tail(statusCh)
    /\ toRefresh' = {Head(statusCh)}
    /\ UNCHANGED <<engineVars, signals, ioVars, execCh, conn, xorders, xbal>>

handlePoll ==
    /\ EngineIdle
    /\ RefreshesInFlight + Cardinality(Accounts) <= MaxRefresh
    /\ toRefresh' = Accounts
    /\ UNCHANGED <<engineVars, signals, ioVars, brokerVars>>

handleBaseline ==
    /\ EngineIdle
    /\ baselineCh # << >>
    /\ LET b == Head(baselineCh)
       IN  /\ balances' = IF b.err THEN balances
                          ELSE SetBaseline(balances, b.acct, b.bal)
           /\ orders' = IF b.err THEN orders
                        ELSE IF b.hasOrders
                        THEN Reconcile(orders, b.acct, b.snap)
                        ELSE orders
    /\ baselineCh' = Tail(baselineCh)
    /\ UNCHANGED <<prices, outVars, actionCh, refreshCh, resultCh, worker,
                   brokerVars>>

handleResult ==
    /\ EngineIdle
    /\ resultCh # << >>
    /\ LET r == Head(resultCh)
       IN  orders' = IF r.err THEN orders
                     ELSE Register(orders, r.acct, r.resp)
    /\ resultCh' = Tail(resultCh)
    /\ UNCHANGED <<prices, balances, outVars, actionCh, refreshCh, baselineCh,
                   worker, brokerVars>>

\* resolveAccount: an empty account id takes any registered account (Go's
\* map order), an unregistered one none.
resolveAccount(accountID) ==
    IF accountID = NoAccount THEN Accounts ELSE Accounts \cap {accountID}

\* A mutant: the loop over the signals does not advance past one it has sent.
dispatchSignal_Again ==
    /\ \E i \in Pending :
          /\ \A k \in Pending : i <= k
          /\ \E acct \in resolveAccount(signals[i].acct) :
                /\ Len(actionCh) < ActionCap
                /\ actionCh' = Append(actionCh,
                       [acct |-> acct, code |-> signals[i].code,
                        side |-> signals[i].side, qty |-> signals[i].qty,
                        price |-> signals[i].price])
    /\ UNCHANGED <<engineVars, signals, toRefresh, refreshCh, resultCh, baselineCh,
                   worker, brokerVars>>

\* Signals are dispatched in order, one at a time.
dispatchSignal ==
    /\ \E i \in Pending :
          /\ \A k \in Pending : i <= k
          /\ signals' = [signals EXCEPT ![i] = NoSignal]
          /\ IF resolveAccount(signals[i].acct) = {}
             THEN UNCHANGED actionCh
             ELSE \E acct \in resolveAccount(signals[i].acct) :
                    /\ Len(actionCh) < ActionCap
                    /\ actionCh' = Append(actionCh,
                           [acct |-> acct, code |-> signals[i].code,
                            side |-> signals[i].side, qty |-> signals[i].qty,
                            price |-> signals[i].price])
    /\ UNCHANGED <<engineVars, toRefresh, refreshCh, resultCh, baselineCh,
                   worker, brokerVars>>

SendRefresh ==
    /\ Len(refreshCh) < RefreshCap
    /\ \E a \in toRefresh :
          /\ toRefresh' = toRefresh \ {a}
          /\ refreshCh' = Append(refreshCh, a)
    /\ UNCHANGED <<engineVars, signals, actionCh, resultCh, baselineCh,
                   worker, brokerVars>>

-----------------------------------------------------------------------------
\* The broker: external, modelled by what the engine and the worker use.

\* A notice reaches the engine only over a live websocket.
Notify(exec) ==
    execCh' = IF conn[exec.acct] THEN Append(execCh, exec) ELSE execCh

execOf(id, price, qty, remain, status) ==
    [id |-> id, acct |-> xorders[id].acct, code |-> xorders[id].code,
     side |-> xorders[id].side, price |-> price, qty |-> qty,
     remain |-> remain, total |-> xorders[id].qty, status |-> status]

Remaining(id) == xorders[id].qty - xorders[id].filled

\* The broker executes qty of an order, at its limit price if it has one.
Fill(id, qty, price) ==
    LET left == Remaining(id) - qty
        exec == execOf(id, price, qty, left,
                       IF left = 0 THEN "filled" ELSE "partial")
    IN  /\ Live(id)
        /\ Len(execCh) < MaxExec
        /\ qty <= Remaining(id)
        /\ IF xorders[id].side = "buy"
           THEN price = xorders[id].price
           ELSE /\ price \in SellPrices
                /\ qty <= xbal[xorders[id].acct].hold[xorders[id].code].qty
        /\ xorders' = [xorders EXCEPT ![id].filled = @ + qty,
                                      ![id].status = exec.status]
        /\ xbal' = [xbal EXCEPT ![xorders[id].acct] = book(@, exec)]
        /\ Notify(exec)
        /\ UNCHANGED <<engineVars, outVars, ioVars, statusCh, conn>>

\* The broker rejects an untouched order, or the user cancels one elsewhere;
\* the parser knows no code for a cancellation.
EndOrder(id) ==
    /\ Live(id)
    /\ Len(execCh) < MaxExec
    /\ \/ /\ xorders[id].filled = 0
          /\ xorders' = [xorders EXCEPT ![id].status = "rejected"]
          /\ Notify(execOf(id, 0, 0, Remaining(id), "rejected"))
       \/ /\ xorders' = [xorders EXCEPT ![id].status = "cancelled"]
          /\ Notify(execOf(id, 0, 0, Remaining(id), "other"))
    /\ UNCHANGED <<engineVars, outVars, ioVars, statusCh, conn, xbal>>

Disconnect(a) ==
    /\ conn[a]
    /\ conn' = [conn EXCEPT ![a] = FALSE]
    /\ UNCHANGED <<engineVars, outVars, ioVars, execCh, statusCh, xorders,
                   xbal>>

\* The websocket is up again. Base.OnConnect announces the connection to the
\* engine; the KIS broker calls it for the first one only (see KisFeed).
OnConnect(a) ==
    /\ ~conn[a]
    /\ conn' = [conn EXCEPT ![a] = TRUE]
    /\ \/ Len(statusCh) < MaxStatus /\ statusCh' = Append(statusCh, a)
       \/ UNCHANGED statusCh
    /\ UNCHANGED <<engineVars, outVars, ioVars, execCh, xorders, xbal>>

-----------------------------------------------------------------------------
\* The IO worker. Each REST call is one step, and so is sending the answer.

\* handleRefresh, first call: GetBalance.
GetBalance(ok) ==
    /\ worker = Idle
    /\ refreshCh # << >>
    /\ LET a == Head(refreshCh)
       IN  worker' = IF ok
                     THEN [st |-> "orders", acct |-> a, bal |-> xbal[a]]
                     ELSE [st |-> "baseline",
                           msg |-> [acct |-> a, err |-> TRUE]]
    /\ refreshCh' = Tail(refreshCh)
    /\ UNCHANGED <<engineVars, outVars, actionCh, resultCh, baselineCh,
                   brokerVars>>

\* What GetOpenOrders lists for an account.
openOrdersOf(a) ==
    [id \in OrderIds |->
        IF Live(id) /\ xorders[id].acct = a
        THEN [acct |-> a, code |-> xorders[id].code,
              side |-> xorders[id].side, qty |-> xorders[id].qty,
              filled |-> xorders[id].filled, remain |-> Remaining(id),
              status |-> xorders[id].status]
        ELSE Untracked]

\* handleRefresh, second call: GetOpenOrders. A failure still sends the
\* balance, with no orders.
GetOpenOrders(ok) ==
    /\ worker.st = "orders"
    /\ worker' =
         [st |-> "baseline",
          msg |-> IF ok
                  THEN [acct |-> worker.acct, err |-> FALSE,
                        bal |-> worker.bal, hasOrders |-> TRUE,
                        snap |-> openOrdersOf(worker.acct)]
                  ELSE [acct |-> worker.acct, err |-> FALSE,
                        bal |-> worker.bal, hasOrders |-> FALSE]]
    /\ UNCHANGED <<engineVars, outVars, actionCh, refreshCh, resultCh,
                   baselineCh, brokerVars>>

SendBaseline ==
    /\ worker.st = "baseline"
    /\ Len(baselineCh) < BaselineCap
    /\ baselineCh' = Append(baselineCh, worker.msg)
    /\ worker' = Idle
    /\ UNCHANGED <<engineVars, outVars, actionCh, refreshCh, resultCh,
                   brokerVars>>

\* handleAction: PlaceOrder is accepted under a fresh number, and its answer
\* arrives (heard) or is lost.
PlaceOrder(id, heard) ==
    LET req == Head(actionCh)
    IN  /\ worker = Idle
        /\ actionCh # << >>
        /\ ~Placed(id)
        /\ Len(execCh) < MaxExec
        /\ actionCh' = Tail(actionCh)
        /\ xorders' = [xorders EXCEPT ![id] =
                [acct |-> req.acct, code |-> req.code, side |-> req.side,
                 qty |-> req.qty, price |-> req.price, filled |-> 0,
                 status |-> "open"]]
        /\ Notify([id |-> id, acct |-> req.acct, code |-> req.code,
                   side |-> req.side, price |-> 0, qty |-> 0,
                   remain |-> req.qty, total |-> req.qty,
                   status |-> "accepted"])
        /\ worker' =
             [st |-> "result",
              msg |-> IF heard
                      THEN [acct |-> req.acct, err |-> FALSE,
                            resp |-> [id |-> id, code |-> req.code,
                                      side |-> req.side, qty |-> req.qty]]
                      ELSE [acct |-> req.acct, err |-> TRUE]]
        /\ UNCHANGED <<engineVars, outVars, refreshCh, resultCh, baselineCh,
                       statusCh, conn, xbal>>

\* handleAction: PlaceOrder is refused, or never reaches the broker.
PlaceOrderRefused ==
    /\ worker = Idle
    /\ actionCh # << >>
    /\ actionCh' = Tail(actionCh)
    /\ worker' = [st |-> "result",
                  msg |-> [acct |-> Head(actionCh).acct, err |-> TRUE]]
    /\ UNCHANGED <<engineVars, outVars, refreshCh, resultCh, baselineCh,
                   brokerVars>>

SendResult ==
    /\ worker.st = "result"
    /\ Len(resultCh) < ResultCap
    /\ resultCh' = Append(resultCh, worker.msg)
    /\ worker' = Idle
    /\ UNCHANGED <<engineVars, outVars, actionCh, refreshCh, baselineCh,
                   brokerVars>>

-----------------------------------------------------------------------------

Engine ==
    \/ \E tick \in Ticks : handleTick(tick)
    \/ handleExec
    \/ handleStatus
    \/ handlePoll
    \/ handleBaseline
    \/ handleResult
    \/ dispatchSignal
    \/ SendRefresh

Worker ==
    \/ \E ok \in BOOLEAN : GetBalance(ok)
    \/ \E ok \in BOOLEAN : GetOpenOrders(ok)
    \/ SendBaseline
    \/ \E id \in OrderIds, heard \in BOOLEAN : PlaceOrder(id, heard)
    \/ PlaceOrderRefused
    \/ SendResult

Broker ==
    \/ \E id \in OrderIds : \E qty \in 1..Remaining(id) :
          \E price \in SellPrices \cup {xorders[id].price} :
             Fill(id, qty, price)
    \/ \E id \in OrderIds : EndOrder(id)
    \/ \E a \in Accounts : Disconnect(a)
    \/ \E a \in Accounts : OnConnect(a)

Next == Engine \/ Worker \/ Broker

Spec == Init /\ [][Next]_vars

\* Go's select picks at random among the ready cases, so a case that is ready
\* again and again is eventually taken: strong fairness of every handler and
\* of the worker's two requests. A blocked send completes once there is room.
\* The poll ticker never stops, and REST queries do not fail for ever. Nothing
\* is assumed of the market, of the broker, or of the websocket.
Fairness ==
    /\ SF_vars(handleExec) /\ SF_vars(handleBaseline)
    /\ SF_vars(handleResult) /\ SF_vars(handlePoll)
    /\ WF_vars(dispatchSignal) /\ WF_vars(SendRefresh)
    /\ SF_vars(GetBalance(TRUE)) /\ SF_vars(GetOpenOrders(TRUE))
    /\ SF_vars(PlaceOrderRefused
                  \/ \E id \in OrderIds, heard \in BOOLEAN :
                        PlaceOrder(id, heard))
    /\ WF_vars(SendBaseline) /\ WF_vars(SendResult)

FairSpec == Spec /\ Fairness

-----------------------------------------------------------------------------
\* Properties.

\* Every variable has its type; channels stay within their capacities.
TypeOK ==
    /\ prices \in [Codes -> TickEvent \cup {NoTick}]
    /\ orders \in [OrderIds -> TrackedOrder \cup {Untracked}]
    /\ balances \in [Accounts -> AccountBalance]
    /\ signals \in [Slots -> TradeSignal \cup {NoSignal}]
    /\ toRefresh \in SUBSET Accounts
    /\ actionCh \in Seq(ActionRequest) /\ Len(actionCh) <= ActionCap
    /\ refreshCh \in Seq(Accounts) /\ Len(refreshCh) <= RefreshCap
    /\ resultCh \in Seq(ActionResult) /\ Len(resultCh) <= ResultCap
    /\ baselineCh \in Seq(BaselineResult) /\ Len(baselineCh) <= BaselineCap
    /\ worker \in WorkerState
    /\ execCh \in Seq(ExecEvent)
    /\ statusCh \in Seq(Accounts)
    /\ conn \in [Accounts -> BOOLEAN]
    /\ xorders \in [OrderIds -> XOrder \cup {Unplaced}]
    /\ xbal \in [Accounts -> AccountBalance]

\* A view of an order (a tracker entry, or a line of a snapshot) is true of
\* the order as the broker has it in xs, or had it at an earlier time.
TruthfulView(xs, id, view) ==
    /\ xs[id].status # "unplaced"
    /\ view.acct = xs[id].acct
    /\ view.code = xs[id].code
    /\ view.side = xs[id].side
    /\ view.qty = xs[id].qty
    /\ view.filled + view.remain = view.qty
    /\ 0 <= view.filled /\ view.filled <= xs[id].filled
    /\ isTerminal(view.status) => view.status = xs[id].status

\* The same for a notice, a PlaceOrder answer and a baseline under way.
TruthfulExec(xs, e) ==
    /\ xs[e.id].status # "unplaced"
    /\ e.acct = xs[e.id].acct
    /\ e.code = xs[e.id].code
    /\ e.side = xs[e.id].side
    /\ e.total = xs[e.id].qty
    /\ e.remain <= e.total /\ e.total - e.remain <= xs[e.id].filled
    /\ isTerminal(e.status) => e.status = xs[e.id].status

TruthfulResult(xs, r) ==
    ~r.err => /\ xs[r.resp.id].status # "unplaced"
              /\ r.acct = xs[r.resp.id].acct
              /\ r.resp.code = xs[r.resp.id].code
              /\ r.resp.side = xs[r.resp.id].side
              /\ r.resp.qty = xs[r.resp.id].qty

TruthfulBaseline(xs, b) ==
    ~b.err => (b.hasOrders =>
        \A id \in OrderIds : isTracked(b.snap[id]) =>
            TruthfulView(xs, id, b.snap[id]) /\ b.snap[id].acct = b.acct)

TruthfulWorker(xs, w) ==
    /\ w.st = "result" => TruthfulResult(xs, w.msg)
    /\ w.st = "baseline" => TruthfulBaseline(xs, w.msg)

\* Every message under way to the engine is truthful: what makes
\* TrackerTruthful inductive.
MessagesTruthful ==
    /\ \A i \in DOMAIN execCh : TruthfulExec(xorders, execCh[i])
    /\ \A i \in DOMAIN resultCh : TruthfulResult(xorders, resultCh[i])
    /\ \A i \in DOMAIN baselineCh : TruthfulBaseline(xorders, baselineCh[i])
    /\ TruthfulWorker(xorders, worker)

\* The tracker never runs ahead of the broker, whatever races between
\* PlaceOrder answers, notices and snapshots: each tracked order exists under
\* the right account and issue, filled and remaining quantity add up to the
\* order's, no more is counted as filled than the broker filled, and an order
\* the engine holds for finished (and so ignores from then on, traker.go:106)
\* is finished at the broker, in the same way.
TrackerTruthful ==
    \A id \in OrderIds :
        isTracked(orders[id]) => TruthfulView(xorders, id, orders[id])

EngineBlocked ==
    \/ Pending # {} /\ Len(actionCh) = ActionCap
    \/ Pending = {} /\ toRefresh # {} /\ Len(refreshCh) = RefreshCap

WorkerBlocked ==
    \/ worker.st = "result" /\ Len(resultCh) = ResultCap
    \/ worker.st = "baseline" /\ Len(baselineCh) = BaselineCap

\* The engine, blocked in SendAction or SendRefresh, never waits for a worker
\* that is itself blocked in SendResult or SendBaseline, as long as no more
\* orders and refreshes are under way than LoadAssumption admits. Either may
\* be blocked alone.
NoCircularWait == ~(EngineBlocked /\ WorkerBlocked)

\* What makes NoCircularWait inductive: every order and refresh the engine
\* still has to send, or has under way, was admitted within the bounds.
LoadInv ==
    /\ ActionsInFlight + Cardinality(Pending) <= MaxActions
    /\ RefreshesInFlight + Cardinality(toRefresh) <= MaxRefresh

\* Once the broker's orders stop changing, the tracker's open orders become
\* and stay exactly the broker's live orders: lost notices, lost PlaceOrder
\* answers, stale snapshots and entries reopened by a late answer are all
\* repaired by polling (the claim of traker.go:133).
TrackerConverges ==
    \A id \in OrderIds : <>[](isOpen(orders[id]) <=> Live(id))

\* Once the broker's balances stop changing, the engine's balances become and
\* stay equal to them: fills lost with the websocket, counted before a
\* baseline or counted twice around one are repaired (manager.go:52).
BalanceConverges ==
    \A a \in Accounts : <>[](balances[a] = xbal[a])

\* "No duplicate buy while an order for the same issue is unfilled"
\* (theme.go:36): two live buy orders for one issue never coexist. The tracker
\* learns of an order only when the worker has answered, so a second tick in
\* between buys again.
NoDuplicateBuy ==
    \A id1, id2 \in OrderIds :
        /\ Live(id1) /\ Live(id2)
        /\ xorders[id1].side = "buy" /\ xorders[id2].side = "buy"
        /\ xorders[id1].code = xorders[id2].code
        => id1 = id2

\* "Take profit: +2%, stop loss: -1.5%" (theme.go:368): a tick of a held
\* target issue at or past either threshold, measured from its average cost,
\* makes the engine dispatch a sell.
ExitAtThresholds ==
    [][\A tick \in Ticks, a \in Accounts :
          LET h == balances[a].hold[tick.code]
          IN  /\ handleTick(tick)
              /\ ~DryRun /\ isTarget(tick.code)
              /\ h.held /\ h.qty > 0 /\ h.avg > 0
              /\ \/ 1000 * tick.price >= 1020 * h.avg
                 \/ 1000 * tick.price <= 985 * h.avg
              => signals'[ExitSlot].side = "sell"]_vars

=============================================================================
