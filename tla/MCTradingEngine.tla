--------------------------- MODULE MCTradingEngine --------------------------
(***************************************************************************)
(* Model-checking instances of TradingEngine: one theme of three issues,   *)
(* whose leader is bought for two units of money at price 1.               *)
(***************************************************************************)
EXTENDS TradingEngine

CONSTANTS s1, s2, s3

MCThemes == << <<s1, s2, s3>> >>

\* The leader rises to its threshold, the others to theirs, and the leader's
\* price triples.
MCTicks ==
    {[code |-> s1, price |-> 1, rate |-> 80000],
     [code |-> s2, price |-> 1, rate |-> 50000],
     [code |-> s3, price |-> 1, rate |-> 40000],
     [code |-> s1, price |-> 3, rate |-> 290000]}

\* The leader is bought at 100 and then trades at 80, a loss of 20%.
MCLossTicks ==
    {[code |-> s1, price |-> 100, rate |-> 80000],
     [code |-> s2, price |-> 1, rate |-> 50000],
     [code |-> s3, price |-> 1, rate |-> 40000],
     [code |-> s1, price |-> 80, rate |-> -140000]}

=============================================================================
