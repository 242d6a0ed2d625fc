---------------------------- MODULE TradingTypes ----------------------------
(***************************************************************************)
(* The vocabulary shared by the order tracker, the balance manager, the    *)
(* strategy and the engine, reduced to the fields the engine's control     *)
(* flow reads: internal/core/domain/types.go and events.go. (events.go now *)
(* calls TickEvent and ExecEvent TickMsg and ExecMsg; the engine still     *)
(* uses the older names.)                                                  *)
(***************************************************************************)
EXTENDS Integers, Sequences, FiniteSets

CONSTANTS
    Accounts,   \* the accounts registered with the engine
    Codes,      \* issue codes
    OrderIds,   \* order numbers the brokers may assign
    NoAccount,  \* the empty account id ""
    NoCode      \* the code field of an absent order

ASSUME AccountsAssumption ==
    /\ IsFiniteSet(Accounts)
    /\ NoAccount \notin Accounts
    /\ NoCode \notin Codes

Sides == {"buy", "sell"}

\* What domain.OrderStatus can hold here. "other" stands for any raw vendor
\* status that mapExecStatus passes through unchanged.
OrderStatus == {"open", "partial", "filled", "rejected", "cancelled", "other"}

\* What ExecEvent.Status can hold: the four strings the KIS parser produces,
\* and "other" for a vendor code it does not know.
ExecStatus == {"accepted", "partial", "filled", "rejected", "other"}

TickEvent == [code : Codes, price : Int, rate : Int]

\* An execution notice: qty was executed at price, remain of total is left.
ExecEvent ==
    [id : OrderIds, acct : Accounts, code : Codes, side : Sides, price : Int,
     qty : Int, remain : Int, total : Int, status : ExecStatus]

\* What the strategy wants traded. acct "" leaves the account to the engine.
TradeSignal ==
    [acct : Accounts \cup {NoAccount}, code : Codes, side : Sides,
     qty : Nat, price : Int]

NoSignal ==
    [acct |-> NoAccount, code |-> NoCode, side |-> "none", qty |-> 0,
     price |-> 0]

=============================================================================
