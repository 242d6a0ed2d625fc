--------------------------- MODULE ThemeStrategy ----------------------------
(***************************************************************************)
(* The theme strategy of internal/core/strategy/theme.go. A theme is a     *)
(* ranked list of issues; when the change rates of its three leaders all   *)
(* reach their thresholds the leader is bought, and a held leader is sold  *)
(* on a profit or a loss threshold.                                        *)
(*                                                                         *)
(* The strategy has no state of its own: it reads the price store, the     *)
(* order tracker and the balance manager. A theme is a sequence of codes   *)
(* indexed by rank, and rule i is the rule buildDefaultRules makes for     *)
(* theme i. Signals are kept by position: slot i holds the buy of rule i,  *)
(* the last slot the exit of the ticked issue.                             *)
(***************************************************************************)
EXTENDS OrderTracker, BalanceManager

CONSTANTS
    Themes,     \* the theme file: a sequence of themes, leaders first
    BuyAmount   \* the money one buy signal spends (1,000,000 KRW)

ASSUME ThemesAssumption ==
    /\ Themes \in Seq(Seq(Codes))
    /\ BuyAmount \in Nat

RateScale == 10000  \* 1.25% = 12500

\* Percentages are given in tenths of a percent: pctToRate(15) is 1.5%.
pctToRate(tenths) == (tenths * RateScale) \div 10

\* The conditions of buildDefaultRules: minimum change rate per rank.
Conditions == [rank \in 1..3 |-> pctToRate(<<80, 50, 40>>[rank])]

TargetRank == 1
ProfitRate == pctToRate(20)
LossRate == pctToRate(15)

\* buildDefaultRules skips themes with fewer than two stocks.
Rules == {i \in DOMAIN Themes : Len(Themes[i]) >= 2}

\* findStock: the rank exists in the theme.
hasRank(rule, rank) == rank \in DOMAIN Themes[rule]

isStockInTheme(rule, code) ==
    \E rank \in DOMAIN Themes[rule] : Themes[rule][rank] = code

-----------------------------------------------------------------------------
\* The price store of internal/core/pricestore/store.go: the last tick of
\* each code, NoTick before the first.

NoTick == [code |-> NoCode, price |-> 0, rate |-> 0]

UpdatePrice(prices, tick) == [prices EXCEPT ![tick.code] = tick]

hasPrice(prices, code) == prices[code] # NoTick

-----------------------------------------------------------------------------

checkAllConditions(prices, rule) ==
    \A rank \in DOMAIN Conditions :
        /\ hasRank(rule, rank)
        /\ hasPrice(prices, Themes[rule][rank])
        /\ prices[Themes[rule][rank]].rate >= Conditions[rank]

\* generateBuySignals for the rule's single target.
BuySignal(prices, orders, balances, rule) ==
    LET code  == Themes[rule][TargetRank]
        price == prices[code].price
    IN  IF \/ holdsAnywhere(balances, code)
           \/ HasOpenOrder(orders, NoAccount, code)
           \/ price <= 0
           \/ BuyAmount \div price <= 0
        THEN NoSignal
        ELSE [acct |-> NoAccount, code |-> code, side |-> "buy",
              qty |-> BuyAmount \div price, price |-> price]

\* Go's integer division truncates towards zero (d > 0).
quo(n, d) == IF n >= 0 THEN n \div d ELSE -((-n) \div d)

pnlRate(price, avgCost) == quo((price - avgCost) * RateScale, avgCost)

\* findRuleForTarget: some rule buys this code.
isTarget(code) ==
    \E rule \in Rules : Themes[rule][TargetRank] = code

\* checkExitConditions, for the account FindHoldingWithAccount returned.
ExitSignal(balances, tick, accountID) ==
    LET h == balances[accountID].hold[tick.code]
    IN  IF /\ isTarget(tick.code)
           /\ h.held /\ h.qty > 0 /\ h.avg > 0
           /\ \/ pnlRate(tick.price, h.avg) >= ProfitRate
              \/ pnlRate(tick.price, h.avg) <= -LossRate
        THEN [acct |-> accountID, code |-> tick.code, side |-> "sell",
              qty |-> h.qty, price |-> 0]
        ELSE NoSignal

ExitSlot == Len(Themes) + 1

Slots == 1..ExitSlot

NoSignals == [i \in Slots |-> NoSignal]

\* OnTick, given the holder that the map iteration found (NoAccount if none).
OnTick(prices, orders, balances, tick, holder) ==
    [i \in Slots |->
        IF i = ExitSlot
        THEN IF holder = NoAccount THEN NoSignal
                                   ELSE ExitSignal(balances, tick, holder)
        ELSE IF /\ i \in Rules
                /\ isStockInTheme(i, tick.code)
                /\ checkAllConditions(prices, i)
             THEN BuySignal(prices, orders, balances, i)
             ELSE NoSignal]

=============================================================================
