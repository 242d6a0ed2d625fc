---------------------------- MODULE OrderTracker ----------------------------
(***************************************************************************)
(* The order tracker of internal/core/ordertracker/traker.go: the engine's *)
(* own view of every order, keyed by order number. It has no goroutine and *)
(* no lock; the engine calls it synchronously, so its methods are          *)
(* operators from the old map to the new one.                              *)
(*                                                                         *)
(* The Go map is a total function over OrderIds in which Untracked stands  *)
(* for an absent key. Prices and timestamps of a tracked order are left    *)
(* out: nothing reads them back.                                           *)
(***************************************************************************)
EXTENDS TradingTypes

TrackedOrder ==
    [acct : Accounts, code : Codes, side : Sides,
     qty : Int, filled : Int, remain : Int, status : OrderStatus]

\* The absent map entry.
Untracked ==
    [acct |-> NoAccount, code |-> NoCode, side |-> "none",
     qty |-> 0, filled |-> 0, remain |-> 0, status |-> "untracked"]

isTracked(order) == order.status # "untracked"

isTerminal(status) == status \in {"filled", "cancelled", "rejected"}

\* A mutant: the vendor's "accepted" is not translated.
mapExecStatus_Raw(raw) == raw

mapExecStatus(raw) == IF raw = "accepted" THEN "open" ELSE raw

-----------------------------------------------------------------------------

\* PlaceOrder succeeded: the entry is (over)written, whatever was there.
Register(orders, accountID, resp) ==
    [orders EXCEPT ![resp.id] =
        [acct |-> accountID, code |-> resp.code, side |-> resp.side,
         qty |-> resp.qty, filled |-> 0, remain |-> resp.qty,
         status |-> "open"]]

\* The entry an execution notice is applied to: an unknown order is created
\* from the notice, with no status yet.
entryFor(orders, exec) ==
    IF isTracked(orders[exec.id])
    THEN orders[exec.id]
    ELSE [acct |-> exec.acct, code |-> exec.code, side |-> exec.side,
          qty |-> exec.total, filled |-> 0, remain |-> 0, status |-> "other"]

\* A mutant: RemainQty is taken for the filled quantity.
Apply_SwappedQty(orders, exec) ==
    LET order == entryFor(orders, exec)
    IN  IF isTerminal(order.status)
        THEN orders
        ELSE [orders EXCEPT ![exec.id] =
                [order EXCEPT !.status = mapExecStatus(exec.status),
                              !.filled = exec.remain,
                              !.remain = exec.total - exec.remain]]

\* An execution notice moves the order to the notice's status, except that
\* an order already in a terminal status ignores it.
Apply(orders, exec) ==
    LET order == entryFor(orders, exec)
    IN  IF isTerminal(order.status)
        THEN orders
        ELSE [orders EXCEPT ![exec.id] =
                [order EXCEPT !.status = mapExecStatus(exec.status),
                              !.filled = exec.total - exec.remain,
                              !.remain = exec.remain]]

\* A mutant: a tracked order missing from the snapshot is marked filled
\* instead of being removed.
Reconcile_MarksFilled(orders, accountID, snapshot) ==
    [id \in OrderIds |->
        IF isTracked(snapshot[id]) /\ ~isTracked(orders[id])
        THEN [snapshot[id] EXCEPT !.acct = accountID]
        ELSE IF /\ isTracked(orders[id])
                /\ orders[id].acct = accountID
                /\ ~isTracked(snapshot[id])
                /\ ~isTerminal(orders[id].status)
        THEN [orders[id] EXCEPT !.status = "filled"]
        ELSE orders[id]]

\* A mutant: the loop that drops what the snapshot no longer lists is missing.
Reconcile_AddsOnly(orders, accountID, snapshot) ==
    [id \in OrderIds |->
        IF isTracked(snapshot[id]) /\ ~isTracked(orders[id])
        THEN [snapshot[id] EXCEPT !.acct = accountID]
        ELSE orders[id]]

\* The REST snapshot of one account's open orders: orders it lists and the
\* tracker lacks are added, the account's non-terminal orders it does not
\* list are deleted, and an order known to both is left as it is.
Reconcile(orders, accountID, snapshot) ==
    [id \in OrderIds |->
        IF isTracked(snapshot[id]) /\ ~isTracked(orders[id])
        THEN [snapshot[id] EXCEPT !.acct = accountID]
        ELSE IF /\ isTracked(orders[id])
                /\ orders[id].acct = accountID
                /\ ~isTracked(snapshot[id])
                /\ ~isTerminal(orders[id].status)
        THEN Untracked
        ELSE orders[id]]

-----------------------------------------------------------------------------

isOpen(order) == isTracked(order) /\ ~isTerminal(order.status)

\* accountID "" (NoAccount) searches every account.
HasOpenOrder(orders, accountID, code) ==
    \E id \in OrderIds :
        /\ isOpen(orders[id])
        /\ orders[id].code = code
        /\ accountID \in {NoAccount, orders[id].acct}

=============================================================================
