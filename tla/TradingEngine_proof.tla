------------------------ MODULE TradingEngine_proof -------------------------
(***************************************************************************)
(* Proofs about TradingEngine, for every set of accounts, issues and       *)
(* orders, every theme file, every tick and all channel capacities that    *)
(* satisfy the assumptions of the modules it extends.                      *)
(***************************************************************************)
EXTENDS TradingEngine, FiniteSetTheorems, TLAPS

-----------------------------------------------------------------------------
\* Types of the values the handlers compute.

\* A booked execution leaves a well-typed balance (manager.go, Apply).
LEMMA BookType ==
    ASSUME NEW bal \in AccountBalance, NEW e,
           e.code \in Codes, e.price \in Int, e.qty \in Int
    PROVE  book(bal, e) \in AccountBalance
<1> DEFINE amount == e.price * e.qty
           h == bal.hold[e.code]
<1>1. amount \in Int
  OBVIOUS
<1>2. h \in Holding /\ bal.hold \in [Codes -> Holding] /\ bal.cash \in Int
  BY DEF AccountBalance
<1>3. buyHolding(h, e.qty, amount) \in Holding
  <2>1. h.qty \in Int /\ h.avg \in Int
    BY <1>2 DEF Holding
  <2>2. h.avg * h.qty + amount \in Int /\ h.qty + e.qty \in Int
    BY <2>1, <1>1
  <2>3. h.qty + e.qty > 0 =>
           (h.avg * h.qty + amount) \div (h.qty + e.qty) \in Int
    <3> DEFINE n == h.avg * h.qty + amount
               d == h.qty + e.qty
    <3>1. n \in Int /\ d \in Int
      BY <2>2
    <3> HIDE DEF n, d
    <3>2. d > 0 => n \div d \in Int
      BY <3>1
    <3> QED
      BY <3>2 DEF n, d
  <2> QED
    BY <2>1, <2>2, <2>3 DEF buyHolding, Holding
<1>4. sellHolding(h, e.qty) \in Holding
  BY <1>2 DEF sellHolding, NoHolding, Holding
<1> HIDE DEF amount, h
<1>5. /\ [bal.hold EXCEPT ![e.code] = buyHolding(h, e.qty, amount)]
            \in [Codes -> Holding]
      /\ [bal.hold EXCEPT ![e.code] = sellHolding(h, e.qty)]
            \in [Codes -> Holding]
  BY <1>2, <1>3, <1>4
<1>6. bal.set \in BOOLEAN /\ bal.cash - amount \in Int
        /\ bal.cash + amount \in Int
  BY <1>1, <1>2 DEF AccountBalance
<1> QED
  BY <1>5, <1>6 DEF book, amount, h, AccountBalance

\* Applying a notice keeps the balances well-typed.
LEMMA ApplyExecType ==
    ASSUME NEW bals \in [Accounts -> AccountBalance], NEW e \in ExecEvent
    PROVE  ApplyExec(bals, e) \in [Accounts -> AccountBalance]
<1>1. e.acct \in Accounts /\ e.code \in Codes /\ e.price \in Int
        /\ e.qty \in Int
  BY DEF ExecEvent
<1>2. book(bals[e.acct], e) \in AccountBalance
  BY <1>1, BookType
<1> QED
  BY <1>1, <1>2 DEF ApplyExec

\* The strategy's answer to a tick is a well-typed list of signals.
LEMMA OnTickType ==
    ASSUME NEW ps \in [Codes -> TickEvent \cup {NoTick}], NEW os,
           NEW bals \in [Accounts -> AccountBalance],
           NEW tick \in TickEvent,
           NEW holder \in Accounts \cup {NoAccount}
    PROVE  OnTick(ps, os, bals, tick, holder)
             \in [Slots -> TradeSignal \cup {NoSignal}]
<1>1. holder \in Accounts =>
        ExitSignal(bals, tick, holder) \in TradeSignal \cup {NoSignal}
  BY DEF ExitSignal, TradeSignal, Sides, TickEvent, AccountBalance, Holding
<1>2. ASSUME NEW i \in Rules
      PROVE  BuySignal(ps, os, bals, i) \in TradeSignal \cup {NoSignal}
  <2> DEFINE code == Themes[i][TargetRank]
             price == ps[code].price
  <2>1. code \in Codes
    BY ThemesAssumption DEF Rules, TargetRank
  <2>2. price \in Int
    BY <2>1 DEF TickEvent, NoTick
  <2> HIDE DEF code, price
  <2>3. price > 0 => BuyAmount \div price \in Int
    BY <2>2, ThemesAssumption
  <2> QED
    BY <2>1, <2>2, <2>3
    DEF BuySignal, TradeSignal, Sides, code, price
<1> QED
  BY <1>1, <1>2 DEF OnTick

-----------------------------------------------------------------------------
\* Type correctness.

USE DEF engineVars, outVars, ioVars, brokerVars

\* The tracker's three operations keep its map well-typed.
LEMMA RegisterType ==
    ASSUME NEW os \in Snapshot, NEW a \in Accounts, NEW r \in OrderResponse
    PROVE  Register(os, a, r) \in Snapshot
BY DEF Register, OrderResponse, TrackedOrder, OrderStatus, Snapshot

\* Applying an execution event to a snapshot gives a snapshot.
LEMMA ApplyType ==
    ASSUME NEW os \in Snapshot, NEW e \in ExecEvent
    PROVE  Apply(os, e) \in Snapshot
<1> DEFINE order == entryFor(os, e)
<1>1. order \in TrackedOrder
  BY DEF entryFor, isTracked, Untracked, TrackedOrder, OrderStatus,
         ExecEvent, Snapshot
<1>2. mapExecStatus(e.status) \in OrderStatus
  BY DEF mapExecStatus, ExecEvent, ExecStatus, OrderStatus
<1>3. [order EXCEPT !.status = mapExecStatus(e.status),
                    !.filled = e.total - e.remain,
                    !.remain = e.remain] \in TrackedOrder
  <2>1. e.total - e.remain \in Int /\ e.remain \in Int
    BY DEF ExecEvent
  <2> HIDE DEF order
  <2> QED
    BY <1>1, <1>2, <2>1 DEF TrackedOrder
<1>4. e.id \in OrderIds
  BY DEF ExecEvent
<1> QED
  BY <1>3, <1>4 DEF Apply, Snapshot

\* Reconciling with a baseline gives a snapshot.
LEMMA ReconcileType ==
    ASSUME NEW os \in Snapshot, NEW a \in Accounts, NEW snap \in Snapshot
    PROVE  Reconcile(os, a, snap) \in Snapshot
<1> SUFFICES ASSUME NEW id \in OrderIds
             PROVE  Reconcile(os, a, snap)[id] \in TrackedOrder \cup {Untracked}
  BY DEF Reconcile, Snapshot
<1>1. isTracked(snap[id]) => [snap[id] EXCEPT !.acct = a] \in TrackedOrder
  BY DEF isTracked, Untracked, Snapshot, TrackedOrder
<1> QED
  BY <1>1 DEF Reconcile, Snapshot

\* The types hold at first.
LEMMA InitType == Init => TypeOK
BY ChannelAssumption, InputAssumption
DEF Init, TypeOK, NoSignals, Idle, WorkerState, NoBalance, AccountBalance,
    Holding, NoHolding

\* Every step keeps the types.
LEMMA StepType == TypeOK /\ [Next]_vars => TypeOK'
<1> SUFFICES ASSUME TypeOK, [Next]_vars PROVE TypeOK'
  OBVIOUS
<1> USE DEF TypeOK
<1>1. CASE \E tick \in Ticks : handleTick(tick)
  <2>1. PICK tick \in Ticks : handleTick(tick)
    BY <1>1
  <2>2. tick \in TickEvent
    BY InputAssumption
  <2>3. UpdatePrice(prices, tick) \in [Codes -> TickEvent \cup {NoTick}]
    BY <2>2 DEF UpdatePrice, TickEvent
  <2>4. \A holder \in Accounts \cup {NoAccount} :
          OnTick(UpdatePrice(prices, tick), orders, balances, tick, holder)
            \in [Slots -> TradeSignal \cup {NoSignal}]
    BY <2>2, <2>3, OnTickType
  <2>5. signals' \in [Slots -> TradeSignal \cup {NoSignal}]
    BY <2>1, <2>4 DEF handleTick, FindHoldingWithAccount, NoSignals
  <2> QED
    BY <2>1, <2>3, <2>5 DEF handleTick
<1>2. CASE handleExec
  <2>1. Head(execCh) \in ExecEvent /\ execCh' \in Seq(ExecEvent)
    BY <1>2 DEF handleExec
  <2>2. orders' \in Snapshot
    BY <1>2, <2>1, ApplyType DEF handleExec, Snapshot
  <2>3. balances' \in [Accounts -> AccountBalance]
    BY <1>2, <2>1, ApplyExecType DEF handleExec
  <2> QED
    BY <1>2, <2>1, <2>2, <2>3 DEF handleExec, Snapshot
<1>3. CASE handleStatus
  BY <1>3 DEF handleStatus
<1>4. CASE handlePoll
  BY <1>4 DEF handlePoll
<1>5. CASE handleBaseline
  <2> DEFINE b == Head(baselineCh)
  <2>1. /\ b \in BaselineResult
        /\ baselineCh' \in Seq(BaselineResult)
        /\ Len(baselineCh') <= BaselineCap
    BY <1>5, ChannelAssumption DEF handleBaseline
  <2> HIDE DEF b
  <2>2. ~b.err => b.acct \in Accounts /\ b.bal \in AccountBalance
    BY <2>1 DEF BaselineResult
  <2>3. ~b.err /\ b.hasOrders => b.snap \in Snapshot
    BY <2>1 DEF BaselineResult
  <2>4. orders' \in Snapshot
    BY <1>5, <2>2, <2>3, ReconcileType DEF handleBaseline, Snapshot, b
  <2>5. ~b.err => SetBaseline(balances, b.acct, b.bal)
                    \in [Accounts -> AccountBalance]
    BY <2>2 DEF SetBaseline, AccountBalance
  <2>6. balances' \in [Accounts -> AccountBalance]
    BY <1>5, <2>5 DEF handleBaseline, b
  <2> QED
    BY <1>5, <2>1, <2>4, <2>6 DEF handleBaseline, Snapshot
<1>6. CASE handleResult
  <2> DEFINE r == Head(resultCh)
  <2>1. /\ r \in ActionResult
        /\ resultCh' \in Seq(ActionResult)
        /\ Len(resultCh') <= ResultCap
    BY <1>6, ChannelAssumption DEF handleResult
  <2> HIDE DEF r
  <2>2. ~r.err => r.acct \in Accounts /\ r.resp \in OrderResponse
    BY <2>1 DEF ActionResult
  <2>3. orders' \in Snapshot
    BY <1>6, <2>2, RegisterType DEF handleResult, Snapshot, r
  <2> QED
    BY <1>6, <2>1, <2>3 DEF handleResult, Snapshot
<1>7. CASE dispatchSignal
  <2>1. PICK i \in Pending :
          /\ signals' = [signals EXCEPT ![i] = NoSignal]
          /\ IF resolveAccount(signals[i].acct) = {}
             THEN UNCHANGED actionCh
             ELSE \E acct \in resolveAccount(signals[i].acct) :
                    /\ Len(actionCh) < ActionCap
                    /\ actionCh' = Append(actionCh,
                           [acct |-> acct, code |-> signals[i].code,
                            side |-> signals[i].side, qty |-> signals[i].qty,
                            price |-> signals[i].price])
    BY <1>7 DEF dispatchSignal
  <2>2. signals' \in [Slots -> TradeSignal \cup {NoSignal}]
    BY <2>1
  <2>3. signals[i] \in TradeSignal
    BY DEF Pending
  <2>4. resolveAccount(signals[i].acct) \subseteq Accounts
    BY DEF resolveAccount
  <2>5. \A acct \in Accounts :
          [acct |-> acct, code |-> signals[i].code, side |-> signals[i].side,
           qty |-> signals[i].qty, price |-> signals[i].price]
             \in ActionRequest
    BY <2>3 DEF ActionRequest, TradeSignal
  <2>6. actionCh' \in Seq(ActionRequest) /\ Len(actionCh') <= ActionCap
    <3>1. CASE resolveAccount(signals[i].acct) = {}
      BY <2>1, <3>1
    <3>2. CASE resolveAccount(signals[i].acct) # {}
      <4> DEFINE req(acct) ==
             [acct |-> acct, code |-> signals[i].code,
              side |-> signals[i].side, qty |-> signals[i].qty,
              price |-> signals[i].price]
      <4>1. PICK acct \in Accounts : /\ Len(actionCh) < ActionCap
                                     /\ actionCh' = Append(actionCh, req(acct))
        BY <2>1, <2>4, <3>2
      <4>2. req(acct) \in ActionRequest
        BY <2>5
      <4> HIDE DEF req
      <4> QED
        BY <4>1, <4>2, ChannelAssumption
    <3> QED
      BY <3>1, <3>2
  <2> QED
    BY <1>7, <2>2, <2>6 DEF dispatchSignal
<1>8. CASE SendRefresh
  BY <1>8, ChannelAssumption DEF SendRefresh
<1>9. CASE \E ok \in BOOLEAN : GetBalance(ok)
  <2>1. PICK ok \in BOOLEAN : GetBalance(ok)
    BY <1>9
  <2>2. Head(refreshCh) \in Accounts /\ refreshCh' \in Seq(Accounts)
          /\ Len(refreshCh') <= RefreshCap
    BY <2>1, ChannelAssumption DEF GetBalance
  <2>3. worker' \in WorkerState
    BY <2>1, <2>2 DEF GetBalance, WorkerState, BaselineResult
  <2> QED
    BY <2>1, <2>2, <2>3 DEF GetBalance
<1>10. CASE \E ok \in BOOLEAN : GetOpenOrders(ok)
  <2>1. PICK ok \in BOOLEAN : GetOpenOrders(ok)
    BY <1>10
  <2>2. worker.acct \in Accounts /\ worker.bal \in AccountBalance
    BY <2>1 DEF GetOpenOrders, WorkerState, Idle
  <2>3. openOrdersOf(worker.acct) \in Snapshot
    <3> DEFINE a == worker.acct
    <3>1. a \in Accounts
      BY <2>2
    <3> HIDE DEF a
    <3>2. \A id \in OrderIds : Live(id) =>
             /\ xorders[id] \in XOrder
             /\ xorders[id].status \in OrderStatus
      BY DEF Live, Unplaced, XOrder, OrderStatus
    <3>3. \A id \in OrderIds :
             openOrdersOf(a)[id] \in TrackedOrder \cup {Untracked}
      BY <3>1, <3>2 DEF openOrdersOf, XOrder, TrackedOrder, Remaining
    <3> QED
      BY <3>3 DEF Snapshot, openOrdersOf, a
  <2>4. worker' \in WorkerState
    BY <2>1, <2>2, <2>3 DEF GetOpenOrders, WorkerState, BaselineResult
  <2> QED
    BY <2>1, <2>4 DEF GetOpenOrders
<1>11. CASE SendBaseline
  <2>1. worker.msg \in BaselineResult
    BY <1>11 DEF SendBaseline, WorkerState, Idle
  <2> QED
    BY <1>11, <2>1, ChannelAssumption DEF SendBaseline, WorkerState
<1>12. CASE \E id \in OrderIds, heard \in BOOLEAN : PlaceOrder(id, heard)
  <2>1. PICK id \in OrderIds, heard \in BOOLEAN : PlaceOrder(id, heard)
    BY <1>12
  <2> DEFINE req == Head(actionCh)
  <2>2. /\ req \in ActionRequest
        /\ actionCh' \in Seq(ActionRequest) /\ Len(actionCh') <= ActionCap
    BY <2>1, ChannelAssumption DEF PlaceOrder
  <2> HIDE DEF req
  <2>3. worker' \in WorkerState
    BY <2>1, <2>2
    DEF PlaceOrder, WorkerState, ActionResult, OrderResponse, ActionRequest,
        req
  <2>4. xorders' \in [OrderIds -> XOrder \cup {Unplaced}]
    BY <2>1, <2>2 DEF PlaceOrder, XOrder, XStatus, ActionRequest, req
  <2> DEFINE note == [id |-> id, acct |-> req.acct, code |-> req.code,
                      side |-> req.side, price |-> 0, qty |-> 0,
                      remain |-> req.qty, total |-> req.qty,
                      status |-> "accepted"]
  <2>5. execCh' \in Seq(ExecEvent)
    <3>1. note \in ExecEvent
      BY <2>2 DEF ExecEvent, ExecStatus, ActionRequest
    <3>2. Notify(note)
      BY <2>1 DEF PlaceOrder, req
    <3> HIDE DEF note
    <3> QED
      BY <3>1, <3>2 DEF Notify
  <2> QED
    BY <2>1, <2>2, <2>3, <2>4, <2>5 DEF PlaceOrder
<1>13. CASE PlaceOrderRefused
  <2>1. /\ Head(actionCh) \in ActionRequest
        /\ actionCh' \in Seq(ActionRequest) /\ Len(actionCh') <= ActionCap
    BY <1>13, ChannelAssumption DEF PlaceOrderRefused
  <2>2. worker' \in WorkerState
    BY <1>13, <2>1
    DEF PlaceOrderRefused, WorkerState, ActionResult, ActionRequest
  <2> QED
    BY <1>13, <2>1, <2>2 DEF PlaceOrderRefused
<1>14. CASE SendResult
  <2>1. worker.msg \in ActionResult
    BY <1>14 DEF SendResult, WorkerState, Idle
  <2> QED
    BY <1>14, <2>1, ChannelAssumption DEF SendResult, WorkerState
<1>15. CASE \E id \in OrderIds : \E qty \in 1..Remaining(id) :
              \E price \in SellPrices \cup {xorders[id].price} :
                 Fill(id, qty, price)
  <2>a. PICK id \in OrderIds : \E qty \in 1..Remaining(id) :
               \E price \in SellPrices \cup {xorders[id].price} :
                  Fill(id, qty, price)
    BY <1>15
  <2>b. PICK qty \in 1..Remaining(id) :
               \E price \in SellPrices \cup {xorders[id].price} :
                  Fill(id, qty, price)
    BY <2>a
  <2>1. PICK price \in SellPrices \cup {xorders[id].price} :
               Fill(id, qty, price)
    BY <2>b
  <2>2. xorders[id] \in XOrder
    BY <2>1 DEF Fill, Live, Unplaced
  <2>3. qty \in Nat /\ price \in Int /\ Remaining(id) \in Int
    BY <2>2, InputAssumption DEF Remaining, XOrder
  <2> DEFINE left == Remaining(id) - qty
             exec == execOf(id, price, qty, left,
                            IF left = 0 THEN "filled" ELSE "partial")
  <2>4. exec \in ExecEvent
    BY <2>2, <2>3 DEF execOf, XOrder, ExecEvent, ExecStatus
  <2> HIDE DEF exec
  <2>5. exec.status \in XStatus
    BY DEF exec, execOf, XStatus
  <2>6. /\ xorders' = [xorders EXCEPT ![id].filled = @ + qty,
                                      ![id].status = exec.status]
        /\ xbal' = [xbal EXCEPT ![xorders[id].acct] = book(@, exec)]
        /\ Notify(exec)
        /\ UNCHANGED <<engineVars, outVars, ioVars, statusCh, conn>>
    BY <2>1 DEF Fill, exec
  <2>7. xorders' \in [OrderIds -> XOrder \cup {Unplaced}]
    <3>1. xorders[id].filled + qty \in Nat
      BY <2>2, <2>3 DEF XOrder
    <3> QED
      BY <2>2, <2>5, <2>6, <3>1 DEF XOrder
  <2>8. xbal' \in [Accounts -> AccountBalance]
    <3>1. xorders[id].acct \in Accounts
      BY <2>2 DEF XOrder
    <3>2. book(xbal[xorders[id].acct], exec) \in AccountBalance
      BY <2>4, <3>1, BookType DEF ExecEvent
    <3> QED
      BY <2>6, <3>1, <3>2
  <2>9. execCh' \in Seq(ExecEvent)
    BY <2>4, <2>6 DEF Notify
  <2> QED
    BY <2>6, <2>7, <2>8, <2>9
<1>16. CASE \E id \in OrderIds : EndOrder(id)
  <2>1. PICK id \in OrderIds : EndOrder(id)
    BY <1>16
  <2>2. xorders[id] \in XOrder
    BY <2>1 DEF EndOrder, Live, Unplaced
  <2>3. \A st \in ExecStatus :
          execOf(id, 0, 0, Remaining(id), st) \in ExecEvent
    BY <2>2 DEF execOf, XOrder, ExecEvent, Remaining
  <2>4. PICK st \in {"rejected", "cancelled"}, ev \in {"rejected", "other"} :
          /\ xorders' = [xorders EXCEPT ![id].status = st]
          /\ Notify(execOf(id, 0, 0, Remaining(id), ev))
    BY <2>1 DEF EndOrder
  <2>5. xorders' \in [OrderIds -> XOrder \cup {Unplaced}]
    <3>1. [xorders[id] EXCEPT !.status = st] \in XOrder
      BY <2>2 DEF XOrder, XStatus
    <3> QED
      BY <2>4, <3>1
  <2>6. execCh' \in Seq(ExecEvent)
    <3> DEFINE note == execOf(id, 0, 0, Remaining(id), ev)
    <3>1. note \in ExecEvent /\ Notify(note)
      BY <2>3, <2>4 DEF ExecStatus
    <3> HIDE DEF note
    <3> QED
      BY <3>1 DEF Notify
  <2> QED
    BY <2>1, <2>5, <2>6 DEF EndOrder
<1>17. CASE \E a \in Accounts : Disconnect(a)
  BY <1>17 DEF Disconnect
<1>18. CASE \E a \in Accounts : OnConnect(a)
  <2>1. PICK a \in Accounts : OnConnect(a)
    BY <1>18
  <2>2. conn' \in [Accounts -> BOOLEAN]
    BY <2>1 DEF OnConnect
  <2>3. statusCh' \in Seq(Accounts)
    <3>1. Append(statusCh, a) \in Seq(Accounts)
      OBVIOUS
    <3>2. statusCh' = Append(statusCh, a) \/ statusCh' = statusCh
      BY <2>1 DEF OnConnect
    <3> QED
      BY <3>1, <3>2
  <2> QED
    BY <2>1, <2>2, <2>3 DEF OnConnect
<1>19. CASE UNCHANGED vars
  BY <1>19 DEF vars
<1> QED
  BY <1>1, <1>2, <1>3, <1>4, <1>5, <1>6, <1>7, <1>8, <1>9, <1>10, <1>11,
     <1>12, <1>13, <1>14, <1>15, <1>16, <1>17, <1>18, <1>19
  DEF Next, Engine, Worker, Broker

\* Every reachable state is well-typed and no channel exceeds its capacity.
THEOREM TypeCorrect == Spec => []TypeOK
BY InitType, StepType, PTL DEF Spec

-----------------------------------------------------------------------------
\* The tracker never runs ahead of the broker.

Orders == [OrderIds -> XOrder \cup {Unplaced}]

\* How the broker's orders may change: a placed order stays placed with the
\* same attributes, its fills only grow, and a terminal status is kept.
Advance(xs, ys) ==
    \A id \in OrderIds : xs[id].status # "unplaced" =>
        /\ ys[id].status # "unplaced"
        /\ ys[id].acct = xs[id].acct /\ ys[id].code = xs[id].code
        /\ ys[id].side = xs[id].side /\ ys[id].qty = xs[id].qty
        /\ xs[id].filled <= ys[id].filled
        /\ isTerminal(xs[id].status) => ys[id].status = xs[id].status

\* Every step of the system advances the broker's orders.
LEMMA StepAdvances == TypeOK /\ [Next]_vars => Advance(xorders, xorders')
<1> SUFFICES ASSUME TypeOK, [Next]_vars PROVE Advance(xorders, xorders')
  OBVIOUS
<1>0. \A id \in OrderIds : xorders[id].status # "unplaced" =>
         xorders[id] \in XOrder /\ xorders[id].filled \in Nat
  BY DEF TypeOK, Unplaced, XOrder
<1>1. CASE xorders' = xorders
  BY <1>0, <1>1 DEF Advance
<1>2. CASE \E id \in OrderIds, heard \in BOOLEAN : PlaceOrder(id, heard)
  <2>1. PICK id \in OrderIds, heard \in BOOLEAN : PlaceOrder(id, heard)
    BY <1>2
  <2>2. \A o \in OrderIds : o # id => xorders'[o] = xorders[o]
    BY <2>1 DEF PlaceOrder, TypeOK
  <2>3. xorders[id].status = "unplaced"
    BY <2>1 DEF PlaceOrder, Placed
  <2> QED
    BY <1>0, <2>2, <2>3 DEF Advance
<1>3. CASE \E id \in OrderIds : \E qty \in 1..Remaining(id) :
              \E price \in SellPrices \cup {xorders[id].price} :
                 Fill(id, qty, price)
  <2>1. PICK id \in OrderIds : \E qty \in 1..Remaining(id) :
               \E price \in SellPrices \cup {xorders[id].price} :
                  Fill(id, qty, price)
    BY <1>3
  <2>2. PICK qty \in 1..Remaining(id) :
               \E price \in SellPrices \cup {xorders[id].price} :
                  Fill(id, qty, price)
    BY <2>1
  <2>3. PICK price : Fill(id, qty, price)
    BY <2>2
  <2>4. xorders[id] \in XOrder /\ Live(id)
    BY <2>3 DEF Fill, Live, Unplaced, TypeOK
  <2>5. PICK st \in {"filled", "partial"} :
          xorders' = [xorders EXCEPT ![id].filled = @ + qty,
                                     ![id].status = st]
    BY <2>3 DEF Fill, execOf
  <2>6. /\ \A o \in OrderIds : o # id => xorders'[o] = xorders[o]
        /\ xorders'[id] = [xorders[id] EXCEPT !.filled = @ + qty,
                                              !.status = st]
    BY <2>5 DEF TypeOK
  <2>7. qty \in Nat /\ xorders[id].filled \in Nat
    BY <2>4 DEF XOrder, Remaining
  <2> QED
    <3>1. /\ xorders'[id].filled = xorders[id].filled + qty
          /\ xorders'[id].status = st
          /\ xorders'[id].acct = xorders[id].acct
          /\ xorders'[id].code = xorders[id].code
          /\ xorders'[id].side = xorders[id].side
          /\ xorders'[id].qty = xorders[id].qty
      BY <2>4, <2>6 DEF XOrder
    <3>2. xorders[id].filled <= xorders'[id].filled
      BY <2>7, <3>1
    <3>3. ~isTerminal(xorders[id].status)
      BY <2>4 DEF Live, isTerminal
    <3>4. xorders'[id].status # "unplaced"
      BY <3>1
    <3> QED
      <4> SUFFICES ASSUME NEW o \in OrderIds,
                          xorders[o].status # "unplaced"
                   PROVE  /\ xorders'[o].status # "unplaced"
                          /\ xorders'[o].acct = xorders[o].acct
                          /\ xorders'[o].code = xorders[o].code
                          /\ xorders'[o].side = xorders[o].side
                          /\ xorders'[o].qty = xorders[o].qty
                          /\ xorders[o].filled <= xorders'[o].filled
                          /\ isTerminal(xorders[o].status) =>
                                xorders'[o].status = xorders[o].status
        BY DEF Advance
      <4>1. CASE o = id
        BY <3>1, <3>2, <3>3, <3>4, <4>1
      <4>2. CASE o # id
        BY <1>0, <2>6, <4>2
      <4> QED
        BY <4>1, <4>2
<1>4. CASE \E id \in OrderIds : EndOrder(id)
  <2>1. PICK id \in OrderIds : EndOrder(id)
    BY <1>4
  <2>2. xorders[id] \in XOrder /\ Live(id)
    BY <2>1 DEF EndOrder, Live, Unplaced, TypeOK
  <2>3. PICK st \in {"rejected", "cancelled"} :
          xorders' = [xorders EXCEPT ![id].status = st]
    BY <2>1 DEF EndOrder
  <2>4. /\ \A o \in OrderIds : o # id => xorders'[o] = xorders[o]
        /\ xorders'[id] = [xorders[id] EXCEPT !.status = st]
    BY <2>3 DEF TypeOK
  <2> QED
    BY <1>0, <2>2, <2>4 DEF Advance, Live, isTerminal, XOrder
<1> QED
  BY <1>1, <1>2, <1>3, <1>4
  DEF Next, Engine, Worker, Broker, vars, handleTick, handleExec,
      handleStatus, handlePoll, handleBaseline, handleResult, dispatchSignal,
      SendRefresh, GetBalance, GetOpenOrders, SendBaseline,
      PlaceOrderRefused, SendResult, Disconnect, OnConnect

\* What was true of the broker's orders stays true as they advance.
LEMMA ViewPersists ==
    ASSUME NEW xs \in Orders, NEW ys \in Orders, Advance(xs, ys),
           NEW id \in OrderIds, NEW view \in TrackedOrder,
           TruthfulView(xs, id, view)
    PROVE  TruthfulView(ys, id, view)
<1>1. xs[id] \in XOrder /\ ys[id] \in XOrder
  BY DEF Orders, Advance, TruthfulView, Unplaced
<1>2. xs[id].filled \in Int /\ ys[id].filled \in Int /\ view.filled \in Int
  BY <1>1 DEF XOrder, TrackedOrder
<1> QED
  BY <1>2 DEF Advance, TruthfulView

\* An execution event that was true stays true while the broker's orders advance.
LEMMA ExecPersists ==
    ASSUME NEW xs \in Orders, NEW ys \in Orders, Advance(xs, ys),
           NEW e \in ExecEvent, TruthfulExec(xs, e)
    PROVE  TruthfulExec(ys, e)
<1>0. e.id \in OrderIds
  BY DEF ExecEvent
<1>1. xs[e.id] \in XOrder /\ ys[e.id] \in XOrder
  BY <1>0 DEF Orders, Advance, TruthfulExec, Unplaced
<1>2. /\ xs[e.id].filled \in Int /\ ys[e.id].filled \in Int
      /\ e.total \in Int /\ e.remain \in Int
  BY <1>1 DEF XOrder, ExecEvent
<1> QED
  BY <1>0, <1>2 DEF Advance, TruthfulExec

\* So does the result of a submitted order.
LEMMA ResultPersists ==
    ASSUME NEW xs \in Orders, NEW ys \in Orders, Advance(xs, ys),
           NEW r \in ActionResult, TruthfulResult(xs, r)
    PROVE  TruthfulResult(ys, r)
<1>1. ~r.err => r.resp.id \in OrderIds
  BY DEF ActionResult, OrderResponse
<1> QED
  BY <1>1 DEF Advance, TruthfulResult

\* So does a baseline that was fetched.
LEMMA BaselinePersists ==
    ASSUME NEW xs \in Orders, NEW ys \in Orders, Advance(xs, ys),
           NEW b \in BaselineResult, TruthfulBaseline(xs, b)
    PROVE  TruthfulBaseline(ys, b)
<1> SUFFICES ASSUME ~b.err, b.hasOrders, NEW id \in OrderIds,
                    isTracked(b.snap[id])
             PROVE  TruthfulView(ys, id, b.snap[id])
                      /\ b.snap[id].acct = b.acct
  BY DEF TruthfulBaseline
<1>0. b.snap \in Snapshot
  BY DEF BaselineResult
<1>1. b.snap[id] \in TrackedOrder
  BY <1>0 DEF Snapshot, isTracked, Untracked
<1>2. TruthfulView(xs, id, b.snap[id]) /\ b.snap[id].acct = b.acct
  BY DEF TruthfulBaseline
<1> QED
  BY <1>1, <1>2, ViewPersists

\* So does what a worker holds.
LEMMA WorkerPersists ==
    ASSUME NEW xs \in Orders, NEW ys \in Orders, Advance(xs, ys),
           NEW w \in WorkerState, TruthfulWorker(xs, w)
    PROVE  TruthfulWorker(ys, w)
<1>1. /\ w.st = "result" => w.msg \in ActionResult
      /\ w.st = "baseline" => w.msg \in BaselineResult
  BY DEF WorkerState, Idle
<1> QED
  BY <1>1, ResultPersists, BaselinePersists DEF TruthfulWorker

\* The tracker's operations turn truthful messages into truthful entries.
LEMMA RegisterTruthful ==
    ASSUME NEW xs \in Orders, NEW os \in Snapshot, NEW r \in ActionResult,
           ~r.err, TruthfulResult(xs, r), NEW id \in OrderIds,
           isTracked(os[id]) => TruthfulView(xs, id, os[id]),
           isTracked(Register(os, r.acct, r.resp)[id])
    PROVE  TruthfulView(xs, id, Register(os, r.acct, r.resp)[id])
<1>1. r.resp \in OrderResponse
  BY DEF ActionResult
<1>2. CASE id = r.resp.id
  <2>1. xs[id] \in XOrder
    BY <1>2 DEF TruthfulResult, Orders, Unplaced
  <2>2. xs[id].filled \in Nat /\ xs[id].qty \in Nat
    BY <2>1 DEF XOrder
  <2>3. Register(os, r.acct, r.resp)[id] =
          [acct |-> r.acct, code |-> r.resp.code, side |-> r.resp.side,
           qty |-> r.resp.qty, filled |-> 0, remain |-> r.resp.qty,
           status |-> "open"]
    BY <1>2 DEF Register, Snapshot
  <2> QED
    BY <1>2, <2>2, <2>3 DEF TruthfulResult, TruthfulView, isTerminal
<1>3. CASE id # r.resp.id
  <2>1. Register(os, r.acct, r.resp)[id] = os[id]
    BY <1>3 DEF Register, Snapshot
  <2> QED
    BY <2>1
<1> QED
  BY <1>2, <1>3

\* Applying a true event to a true view of an order gives a true view.
LEMMA ApplyTruthful ==
    ASSUME NEW xs \in Orders, NEW os \in Snapshot, NEW e \in ExecEvent,
           TruthfulExec(xs, e), NEW id \in OrderIds,
           isTracked(os[id]) => TruthfulView(xs, id, os[id]),
           isTracked(Apply(os, e)[id])
    PROVE  TruthfulView(xs, id, Apply(os, e)[id])
<1> DEFINE order == entryFor(os, e)
           new == [order EXCEPT !.status = mapExecStatus(e.status),
                                !.filled = e.total - e.remain,
                                !.remain = e.remain]
<1>0. e.total \in Int /\ e.remain \in Int /\ e.id \in OrderIds
  BY DEF ExecEvent
<1>1. CASE isTerminal(order.status) \/ id # e.id
  <2>1. Apply(os, e)[id] = os[id]
    BY <1>1 DEF Apply, Snapshot
  <2> QED
    BY <2>1
<1>2. CASE ~isTerminal(order.status) /\ id = e.id
  <2>1. Apply(os, e)[id] = new
    BY <1>2 DEF Apply, Snapshot
  <2>2. /\ order \in TrackedOrder
        /\ order.acct = e.acct /\ order.code = e.code
        /\ order.side = e.side /\ order.qty = e.total
    <3>1. CASE isTracked(os[id])
      <4>1. order = os[id] /\ os[id] \in TrackedOrder
        BY <1>2, <3>1 DEF entryFor, Snapshot, isTracked, Untracked
      <4> QED
        BY <1>2, <3>1, <4>1 DEF TruthfulView, TruthfulExec
    <3>2. CASE ~isTracked(os[id])
      BY <1>2, <3>2 DEF entryFor, ExecEvent, TrackedOrder, OrderStatus
    <3> QED
      BY <3>1, <3>2
  <2> HIDE DEF order
  <2>3. /\ new.acct = e.acct /\ new.code = e.code /\ new.side = e.side
        /\ new.qty = e.total /\ new.filled = e.total - e.remain
        /\ new.remain = e.remain /\ new.status = mapExecStatus(e.status)
    BY <2>2 DEF TrackedOrder
  <2> HIDE DEF new
  <2>4. /\ new.filled + new.remain = new.qty
        /\ 0 <= new.filled
    BY <1>0, <2>3 DEF TruthfulExec
  <2>5. isTerminal(new.status) => new.status = xs[id].status
    BY <1>2, <2>3 DEF TruthfulExec, mapExecStatus, isTerminal
  <2> QED
    BY <1>2, <2>1, <2>3, <2>4, <2>5 DEF TruthfulExec, TruthfulView
<1> QED
  BY <1>1, <1>2

\* Reconciling a true view with a true baseline gives a true view.
LEMMA ReconcileTruthful ==
    ASSUME NEW xs \in Orders, NEW os \in Snapshot, NEW b \in BaselineResult,
           ~b.err, b.hasOrders, TruthfulBaseline(xs, b), NEW id \in OrderIds,
           isTracked(os[id]) => TruthfulView(xs, id, os[id]),
           isTracked(Reconcile(os, b.acct, b.snap)[id])
    PROVE  TruthfulView(xs, id, Reconcile(os, b.acct, b.snap)[id])
<1>0. b.snap \in Snapshot
  BY DEF BaselineResult
<1>1. CASE isTracked(b.snap[id]) /\ ~isTracked(os[id])
  <2>1. b.snap[id] \in TrackedOrder
    BY <1>0, <1>1 DEF Snapshot, isTracked, Untracked
  <2>2. TruthfulView(xs, id, b.snap[id]) /\ b.snap[id].acct = b.acct
    BY <1>1 DEF TruthfulBaseline
  <2>3. [b.snap[id] EXCEPT !.acct = b.acct] = b.snap[id]
    BY <2>1, <2>2 DEF TrackedOrder
  <2> QED
    BY <1>1, <2>2, <2>3 DEF Reconcile
<1>2. CASE ~(isTracked(b.snap[id]) /\ ~isTracked(os[id]))
  BY <1>2 DEF Reconcile, isTracked, Untracked
<1> QED
  BY <1>1, <1>2

\* A notice joins the queue only while the websocket is up.
LEMMA NotifyTruthful ==
    ASSUME execCh \in Seq(ExecEvent), NEW xs, NEW e \in ExecEvent,
           Notify(e), TruthfulExec(xs, e),
           \A i \in DOMAIN execCh : TruthfulExec(xs, execCh[i])
    PROVE  \A i \in DOMAIN execCh' : TruthfulExec(xs, execCh'[i])
<1>1. CASE execCh' = execCh
  BY <1>1
<1>2. CASE execCh' = Append(execCh, e)
  <2> SUFFICES ASSUME NEW i \in DOMAIN execCh'
               PROVE  TruthfulExec(xs, execCh'[i])
    OBVIOUS
  <2>1. \/ i \in DOMAIN execCh /\ execCh'[i] = execCh[i]
        \/ execCh'[i] = e
    BY <1>2
  <2> QED
    BY <2>1
<1> QED
  BY <1>1, <1>2 DEF Notify

TruthInv == TypeOK /\ TrackerTruthful /\ MessagesTruthful

\* Views and messages are true at first.
LEMMA InitTruthful == Init => TruthInv
<1> SUFFICES ASSUME Init PROVE TruthInv
  OBVIOUS
<1>1. TypeOK
  BY InitType
<1>2. TrackerTruthful
  BY DEF Init, TrackerTruthful, isTracked, Untracked
<1>3. MessagesTruthful
  BY DEF Init, MessagesTruthful, TruthfulWorker, Idle
<1> QED
  BY <1>1, <1>2, <1>3 DEF TruthInv

\* Everything that was truthful is so of the broker's new orders; each step
\* then adds at most one entry or message, made from truthful ones or from
\* the broker's orders themselves.
LEMMA StepTruthful == TruthInv /\ [Next]_vars => TruthInv'
<1> SUFFICES ASSUME TruthInv, [Next]_vars PROVE TruthInv'
  OBVIOUS
<1> DEFINE xs == xorders'
           OrdersOK(os) == \A id \in OrderIds :
               isTracked(os[id]) => TruthfulView(xs, id, os[id])
           ExecsOK(q) == \A i \in DOMAIN q : TruthfulExec(xs, q[i])
           ResultsOK(q) == \A i \in DOMAIN q : TruthfulResult(xs, q[i])
           BaselinesOK(q) == \A i \in DOMAIN q : TruthfulBaseline(xs, q[i])
<1>0. TypeOK /\ TypeOK'
  BY StepType DEF TruthInv
<1>1. xorders \in Orders /\ xs \in Orders /\ Advance(xorders, xs)
  BY <1>0, StepAdvances DEF TypeOK, Orders
<1>2. OrdersOK(orders)
  <2> SUFFICES ASSUME NEW id \in OrderIds, isTracked(orders[id])
               PROVE  TruthfulView(xs, id, orders[id])
    OBVIOUS
  <2>1. orders[id] \in TrackedOrder
    BY <1>0 DEF TypeOK, isTracked, Untracked
  <2> QED
    BY <1>1, <2>1, ViewPersists DEF TruthInv, TrackerTruthful
<1>3. ExecsOK(execCh)
  BY <1>0, <1>1, ExecPersists DEF TypeOK, TruthInv, MessagesTruthful
<1>4. ResultsOK(resultCh)
  BY <1>0, <1>1, ResultPersists DEF TypeOK, TruthInv, MessagesTruthful
<1>5. BaselinesOK(baselineCh)
  BY <1>0, <1>1, BaselinePersists DEF TypeOK, TruthInv, MessagesTruthful
<1>6. TruthfulWorker(xs, worker)
  BY <1>0, <1>1, WorkerPersists DEF TypeOK, TruthInv, MessagesTruthful
<1> HIDE DEF xs
<1>7. SUFFICES /\ OrdersOK(orders') /\ ExecsOK(execCh')
               /\ ResultsOK(resultCh') /\ BaselinesOK(baselineCh')
               /\ TruthfulWorker(xs, worker')
  BY <1>0 DEF TruthInv, TrackerTruthful, MessagesTruthful, xs
<1> HIDE DEF OrdersOK, ExecsOK, ResultsOK, BaselinesOK
<1>8. CASE UNCHANGED <<orders, execCh, resultCh, baselineCh, worker>>
  BY <1>2, <1>3, <1>4, <1>5, <1>6, <1>8
<1>9. CASE handleExec
  <2> DEFINE e == Head(execCh)
  <2>1. e \in ExecEvent /\ TruthfulExec(xs, e)
    BY <1>0, <1>3, <1>9 DEF TypeOK, handleExec, ExecsOK
  <2>2. ExecsOK(execCh')
    BY <1>0, <1>3, <1>9 DEF TypeOK, handleExec, ExecsOK
  <2> HIDE DEF e
  <2>3. OrdersOK(orders')
    BY <1>0, <1>1, <1>2, <1>9, <2>1, ApplyTruthful
    DEF handleExec, OrdersOK, TypeOK, Snapshot, e
  <2> QED
    BY <1>4, <1>5, <1>6, <1>9, <2>2, <2>3 DEF handleExec
<1>10. CASE handleBaseline
  <2> DEFINE b == Head(baselineCh)
  <2>1. b \in BaselineResult /\ TruthfulBaseline(xs, b)
    BY <1>0, <1>5, <1>10 DEF TypeOK, handleBaseline, BaselinesOK
  <2>2. BaselinesOK(baselineCh')
    BY <1>0, <1>5, <1>10 DEF TypeOK, handleBaseline, BaselinesOK
  <2> HIDE DEF b
  <2>3. orders' = IF b.err THEN orders
                  ELSE IF b.hasOrders THEN Reconcile(orders, b.acct, b.snap)
                  ELSE orders
    BY <1>10 DEF handleBaseline, b
  <2>4. OrdersOK(orders')
    BY <1>0, <1>1, <1>2, <2>1, <2>3, ReconcileTruthful
    DEF OrdersOK, TypeOK, Snapshot
  <2> QED
    BY <1>3, <1>4, <1>6, <1>10, <2>2, <2>4 DEF handleBaseline
<1>11. CASE handleResult
  <2> DEFINE r == Head(resultCh)
  <2>1. r \in ActionResult /\ TruthfulResult(xs, r)
    BY <1>0, <1>4, <1>11 DEF TypeOK, handleResult, ResultsOK
  <2>2. ResultsOK(resultCh')
    BY <1>0, <1>4, <1>11 DEF TypeOK, handleResult, ResultsOK
  <2> HIDE DEF r
  <2>3. orders' = IF r.err THEN orders ELSE Register(orders, r.acct, r.resp)
    BY <1>11 DEF handleResult, r
  <2>4. OrdersOK(orders')
    BY <1>0, <1>1, <1>2, <2>1, <2>3, RegisterTruthful
    DEF OrdersOK, TypeOK, Snapshot
  <2> QED
    BY <1>3, <1>5, <1>6, <1>11, <2>2, <2>4 DEF handleResult
<1>12. CASE \E ok \in BOOLEAN : GetBalance(ok)
  <2>1. TruthfulWorker(xs, worker')
    BY <1>12 DEF GetBalance, TruthfulWorker, TruthfulBaseline
  <2> QED
    BY <1>2, <1>3, <1>4, <1>5, <1>12, <2>1 DEF GetBalance
<1>13. CASE \E ok \in BOOLEAN : GetOpenOrders(ok)
  <2>1. PICK ok \in BOOLEAN : GetOpenOrders(ok)
    BY <1>13
  <2> DEFINE a == worker.acct
             snap == openOrdersOf(a)
  <2>2. ASSUME NEW id \in OrderIds, isTracked(snap[id])
        PROVE  TruthfulView(xs, id, snap[id]) /\ snap[id].acct = a
    <3>1. Live(id) /\ xorders[id].acct = a
      BY <2>2 DEF openOrdersOf, isTracked, Untracked
    <3>2. xorders[id] \in XOrder
      BY <1>1, <3>1 DEF Orders, Live, Unplaced
    <3>3. xorders[id].qty \in Nat /\ xorders[id].filled \in Nat
      BY <3>2 DEF XOrder
    <3>4. snap[id] =
            [acct |-> a, code |-> xorders[id].code,
             side |-> xorders[id].side, qty |-> xorders[id].qty,
             filled |-> xorders[id].filled, remain |-> Remaining(id),
             status |-> xorders[id].status]
      BY <3>1 DEF openOrdersOf
    <3>5. Remaining(id) = xorders[id].qty - xorders[id].filled
      BY DEF Remaining
    <3>6. xs = xorders
      BY <2>1 DEF GetOpenOrders, xs
    <3> HIDE DEF snap
    <3> QED
      BY <3>1, <3>3, <3>4, <3>5, <3>6 DEF TruthfulView, Live
  <2> HIDE DEF snap
  <2>3. TruthfulWorker(xs, worker')
    BY <2>1, <2>2 DEF GetOpenOrders, TruthfulWorker, TruthfulBaseline, snap
  <2> QED
    BY <1>2, <1>3, <1>4, <1>5, <2>1, <2>3 DEF GetOpenOrders
<1>14. CASE SendBaseline
  <2>1. TruthfulBaseline(xs, worker.msg)
    BY <1>6, <1>14 DEF SendBaseline, TruthfulWorker
  <2>2. baselineCh' = Append(baselineCh, worker.msg)
    BY <1>14 DEF SendBaseline
  <2>3. ASSUME NEW i \in DOMAIN baselineCh'
        PROVE  \/ i \in DOMAIN baselineCh /\ baselineCh'[i] = baselineCh[i]
               \/ baselineCh'[i] = worker.msg
    BY <1>0, <2>2 DEF TypeOK
  <2>4. BaselinesOK(baselineCh')
    BY <1>5, <2>1, <2>3 DEF BaselinesOK
  <2>5. TruthfulWorker(xs, worker')
    BY <1>14 DEF SendBaseline, TruthfulWorker, Idle
  <2> QED
    BY <1>2, <1>3, <1>4, <1>14, <2>4, <2>5 DEF SendBaseline
<1>15. CASE \E id \in OrderIds, heard \in BOOLEAN : PlaceOrder(id, heard)
  <2>1. PICK id \in OrderIds, heard \in BOOLEAN : PlaceOrder(id, heard)
    BY <1>15
  <2> DEFINE req == Head(actionCh)
             note == [id |-> id, acct |-> req.acct, code |-> req.code,
                      side |-> req.side, price |-> 0, qty |-> 0,
                      remain |-> req.qty, total |-> req.qty,
                      status |-> "accepted"]
  <2>2. req \in ActionRequest
    BY <1>0, <2>1 DEF PlaceOrder, TypeOK
  <2>3. xs[id] =
          [acct |-> req.acct, code |-> req.code, side |-> req.side,
           qty |-> req.qty, price |-> req.price, filled |-> 0,
           status |-> "open"]
    BY <1>0, <2>1 DEF PlaceOrder, TypeOK, xs
  <2>4. Notify(note)
    BY <2>1 DEF PlaceOrder
  <2>5. worker' =
          [st |-> "result",
           msg |-> IF heard
                   THEN [acct |-> req.acct, err |-> FALSE,
                         resp |-> [id |-> id, code |-> req.code,
                                   side |-> req.side, qty |-> req.qty]]
                   ELSE [acct |-> req.acct, err |-> TRUE]]
    BY <2>1 DEF PlaceOrder
  <2> HIDE DEF req
  <2>6. TruthfulWorker(xs, worker')
    BY <2>3, <2>5 DEF TruthfulWorker, TruthfulResult
  <2>7. note \in ExecEvent /\ TruthfulExec(xs, note)
    BY <2>2, <2>3
    DEF ActionRequest, ExecEvent, ExecStatus, TruthfulExec, isTerminal
  <2> HIDE DEF note
  <2>8. ExecsOK(execCh')
    BY <1>0, <1>3, <2>4, <2>7, NotifyTruthful DEF ExecsOK, TypeOK
  <2> QED
    BY <1>2, <1>4, <1>5, <2>1, <2>6, <2>8 DEF PlaceOrder
<1>16. CASE PlaceOrderRefused
  <2>1. TruthfulWorker(xs, worker')
    BY <1>16 DEF PlaceOrderRefused, TruthfulWorker, TruthfulResult
  <2> QED
    BY <1>2, <1>3, <1>4, <1>5, <1>16, <2>1 DEF PlaceOrderRefused
<1>17. CASE SendResult
  <2>1. TruthfulResult(xs, worker.msg)
    BY <1>6, <1>17 DEF SendResult, TruthfulWorker
  <2>2. resultCh' = Append(resultCh, worker.msg)
    BY <1>17 DEF SendResult
  <2>3. ASSUME NEW i \in DOMAIN resultCh'
        PROVE  \/ i \in DOMAIN resultCh /\ resultCh'[i] = resultCh[i]
               \/ resultCh'[i] = worker.msg
    BY <1>0, <2>2 DEF TypeOK
  <2>4. ResultsOK(resultCh')
    BY <1>4, <2>1, <2>3 DEF ResultsOK
  <2>5. TruthfulWorker(xs, worker')
    BY <1>17 DEF SendResult, TruthfulWorker, Idle
  <2> QED
    BY <1>2, <1>3, <1>5, <1>17, <2>4, <2>5 DEF SendResult
<1>18. CASE \E id \in OrderIds : \E qty \in 1..Remaining(id) :
               \E price \in SellPrices \cup {xorders[id].price} :
                  Fill(id, qty, price)
  <2>1. PICK id \in OrderIds : \E qty \in 1..Remaining(id) :
               \E price \in SellPrices \cup {xorders[id].price} :
                  Fill(id, qty, price)
    BY <1>18
  <2>2. PICK qty \in 1..Remaining(id) :
               \E price \in SellPrices \cup {xorders[id].price} :
                  Fill(id, qty, price)
    BY <2>1
  <2>3. PICK price \in SellPrices \cup {xorders[id].price} :
               Fill(id, qty, price)
    BY <2>2
  <2>4. xorders[id] \in XOrder
    BY <1>1, <2>3 DEF Fill, Live, Orders, Unplaced
  <2>5. /\ xorders[id].qty \in Nat /\ xorders[id].filled \in Nat
        /\ xorders[id].price \in Int
    BY <2>4 DEF XOrder
  <2>6. /\ Remaining(id) = xorders[id].qty - xorders[id].filled
        /\ qty \in Nat /\ price \in Int
    BY <2>5, InputAssumption DEF Remaining
  <2> DEFINE left == Remaining(id) - qty
             st == IF left = 0 THEN "filled" ELSE "partial"
             exec == execOf(id, price, qty, left, st)
  <2>7. left \in Int /\ left = xorders[id].qty - (xorders[id].filled + qty)
    BY <2>5, <2>6
  <2>8. exec = [id |-> id, acct |-> xorders[id].acct,
                code |-> xorders[id].code, side |-> xorders[id].side,
                price |-> price, qty |-> qty, remain |-> left,
                total |-> xorders[id].qty, status |-> st]
    BY DEF execOf
  <2>9. Notify(exec) /\ xs[id] = [xorders[id] EXCEPT !.filled = @ + qty,
                                                     !.status = st]
    BY <1>1, <2>3 DEF Fill, execOf, Orders, xs
  <2>10. exec \in ExecEvent
    BY <2>4, <2>5, <2>6, <2>7, <2>8 DEF XOrder, ExecEvent, ExecStatus
  <2>11. /\ xs[id].acct = xorders[id].acct /\ xs[id].code = xorders[id].code
         /\ xs[id].side = xorders[id].side /\ xs[id].qty = xorders[id].qty
         /\ xs[id].filled = xorders[id].filled + qty /\ xs[id].status = st
    BY <2>4, <2>9 DEF XOrder
  <2> HIDE DEF left
  <2>12. st \in {"filled", "partial"}
    OBVIOUS
  <2> HIDE DEF st, exec
  <2>13. TruthfulExec(xs, exec)
    BY <2>5, <2>6, <2>7, <2>8, <2>11, <2>12 DEF TruthfulExec
  <2>14. ExecsOK(execCh')
    BY <1>0, <1>3, <2>9, <2>10, <2>13, NotifyTruthful DEF ExecsOK, TypeOK
  <2> QED
    BY <1>2, <1>4, <1>5, <1>6, <2>3, <2>14 DEF Fill
<1>19. CASE \E id \in OrderIds : EndOrder(id)
  <2>1. PICK id \in OrderIds : EndOrder(id)
    BY <1>19
  <2>2. xorders[id] \in XOrder
    BY <1>1, <2>1 DEF EndOrder, Live, Orders, Unplaced
  <2>3. xorders[id].qty \in Nat /\ xorders[id].filled \in Nat
    BY <2>2 DEF XOrder
  <2>4. PICK st \in {"rejected", "cancelled"}, ev \in {"rejected", "other"} :
          /\ ev = "rejected" => st = "rejected"
          /\ xorders' = [xorders EXCEPT ![id].status = st]
          /\ Notify(execOf(id, 0, 0, Remaining(id), ev))
    BY <2>1 DEF EndOrder
  <2> DEFINE note == execOf(id, 0, 0, Remaining(id), ev)
  <2>5. note = [id |-> id, acct |-> xorders[id].acct,
                code |-> xorders[id].code, side |-> xorders[id].side,
                price |-> 0, qty |-> 0, remain |-> Remaining(id),
                total |-> xorders[id].qty, status |-> ev]
    BY DEF execOf
  <2>6. Remaining(id) = xorders[id].qty - xorders[id].filled
    BY DEF Remaining
  <2>7. note \in ExecEvent
    BY <2>2, <2>3, <2>5, <2>6 DEF XOrder, ExecEvent, ExecStatus
  <2>8. xs[id] = [xorders[id] EXCEPT !.status = st]
    BY <1>1, <2>4 DEF Orders, xs
  <2>9. /\ xs[id].acct = xorders[id].acct /\ xs[id].code = xorders[id].code
        /\ xs[id].side = xorders[id].side /\ xs[id].qty = xorders[id].qty
        /\ xs[id].filled = xorders[id].filled /\ xs[id].status = st
    BY <2>2, <2>8 DEF XOrder
  <2> HIDE DEF note
  <2>10. TruthfulExec(xs, note)
    BY <2>3, <2>4, <2>5, <2>6, <2>9 DEF TruthfulExec, isTerminal
  <2>11. ExecsOK(execCh')
    BY <1>0, <1>3, <2>4, <2>7, <2>10, NotifyTruthful DEF ExecsOK, TypeOK, note
  <2> QED
    BY <1>2, <1>4, <1>5, <1>6, <2>1, <2>11 DEF EndOrder
<1> QED
  BY <1>8, <1>9, <1>10, <1>11, <1>12, <1>13, <1>14, <1>15, <1>16, <1>17,
     <1>18, <1>19
  DEF Next, Engine, Worker, Broker, vars, handleTick, handleStatus,
      handlePoll, dispatchSignal, SendRefresh, Disconnect, OnConnect

\* The engine's tracker never runs ahead of the broker: every tracked order
\* exists there with the same account, issue, side and quantity, no more is
\* counted as filled than was filled, and an order held for finished is
\* finished, in every order in which PlaceOrder answers, execution notices
\* and snapshots may reach the engine.
THEOREM TruthfulCorrect == Spec => []TrackerTruthful
<1>1. TruthInv => TrackerTruthful
  BY DEF TruthInv
<1> QED
  BY InitTruthful, StepTruthful, <1>1, PTL DEF Spec

=============================================================================
