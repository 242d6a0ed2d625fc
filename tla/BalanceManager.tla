--------------------------- MODULE BalanceManager ---------------------------
(***************************************************************************)
(* The balance manager of internal/core/balancemgr/manager.go: cash and    *)
(* holdings per account, replaced as a whole by a REST baseline and then   *)
(* advanced by execution notices. Like the order tracker it is called      *)
(* synchronously by the engine.                                            *)
(*                                                                         *)
(* An account without a baseline is NoBalance; an absent entry of the      *)
(* Holdings map is NoHolding.                                              *)
(***************************************************************************)
EXTENDS TradingTypes

Holding == [held : BOOLEAN, qty : Int, avg : Int]

NoHolding == [held |-> FALSE, qty |-> 0, avg |-> 0]

AccountBalance == [set : BOOLEAN, cash : Int, hold : [Codes -> Holding]]

NoBalance ==
    [set |-> FALSE, cash |-> 0, hold |-> [c \in Codes |-> NoHolding]]

isExecFill(status) == status \in {"filled", "partial"}

\* A bought quantity joins the position and the average cost is recomputed
\* (integer division, as in Go: both operands are non-negative).
buyHolding(h, qty, amount) ==
    LET newQty == h.qty + qty
    IN  [held |-> TRUE,
         qty  |-> newQty,
         avg  |-> IF newQty > 0 THEN (h.avg * h.qty + amount) \div newQty
                                ELSE h.avg]

\* A sold quantity leaves the position; the entry goes when nothing is left.
sellHolding(h, qty) ==
    IF h.held /\ h.qty - qty > 0 THEN [h EXCEPT !.qty = @ - qty]
                                 ELSE NoHolding

\* One execution booked on one account.
book(bal, exec) ==
    LET amount == exec.price * exec.qty
        h      == bal.hold[exec.code]
    IN  IF exec.side = "buy"
        THEN [set  |-> bal.set,
              cash |-> bal.cash - amount,
              hold |-> [bal.hold EXCEPT ![exec.code] =
                            buyHolding(h, exec.qty, amount)]]
        ELSE [set  |-> bal.set,
              cash |-> bal.cash + amount,
              hold |-> [bal.hold EXCEPT ![exec.code] =
                            sellHolding(h, exec.qty)]]

-----------------------------------------------------------------------------

\* A mutant: an account that has a baseline keeps it.
SetBaseline_Once(balances, accountID, bal) ==
    [balances EXCEPT ![accountID] =
        IF @.set THEN @ ELSE [set |-> TRUE, cash |-> bal.cash, hold |-> bal.hold]]

SetBaseline(balances, accountID, bal) ==
    [balances EXCEPT ![accountID] =
        [set |-> TRUE, cash |-> bal.cash, hold |-> bal.hold]]

\* A notice changes the balance only if it is a fill and the account already
\* has a baseline.
ApplyExec(balances, exec) ==
    IF isExecFill(exec.status) /\ balances[exec.acct].set
    THEN [balances EXCEPT ![exec.acct] = book(@, exec)]
    ELSE balances

\* GetHolding("", code): some account holds the code.
holdsAnywhere(balances, code) ==
    \E a \in Accounts : /\ balances[a].hold[code].held
                        /\ balances[a].hold[code].qty > 0

\* FindHoldingWithAccount: Go iterates its map in any order, so any account
\* with an entry may be the answer.
FindHoldingWithAccount(balances, code) ==
    {a \in Accounts : balances[a].hold[code].held}

=============================================================================
