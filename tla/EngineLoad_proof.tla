-------------------------- MODULE EngineLoad_proof --------------------------
(***************************************************************************)
(* The engine and the IO worker never block each other for ever, whatever  *)
(* the capacities of their four channels, while the load stays within      *)
(* LoadAssumption.                                                         *)
(***************************************************************************)
EXTENDS TradingEngine_proof

USE DEF engineVars, outVars, ioVars, brokerVars

\* One more element.
LEMMA LenAppend ==
    ASSUME NEW S, NEW q \in Seq(S), NEW x
    PROVE  Len(Append(q, x)) = Len(q) + 1
<1>1. q \in Seq(S \cup {x}) /\ x \in S \cup {x}
  OBVIOUS
<1> QED
  BY <1>1

\* The bounds a blocked pair would have to exceed.
LEMMA LoadSuffices == TypeOK /\ LoadInv => NoCircularWait
<1> SUFFICES ASSUME TypeOK, LoadInv, EngineBlocked, WorkerBlocked
             PROVE  FALSE
  BY DEF NoCircularWait
<1>1. /\ Len(actionCh) \in Nat /\ Len(resultCh) \in Nat
      /\ Len(refreshCh) \in Nat /\ Len(baselineCh) \in Nat
  BY DEF TypeOK
<1>2. IsFiniteSet(Pending) /\ Cardinality(Pending) \in Nat
        /\ (Pending # {} => Cardinality(Pending) >= 1)
  <2>1. IsFiniteSet(Slots)
    BY FS_Interval, ThemesAssumption DEF Slots, ExitSlot
  <2>2. IsFiniteSet(Pending)
    BY <2>1, FS_Subset DEF Pending
  <2> QED
    BY <2>2, FS_CardinalityType, FS_EmptySet
<1>3. Cardinality(toRefresh) \in Nat
        /\ (toRefresh # {} => Cardinality(toRefresh) >= 1)
  <2>1. IsFiniteSet(toRefresh)
    BY AccountsAssumption, FS_Subset DEF TypeOK
  <2> QED
    BY <2>1, FS_CardinalityType, FS_EmptySet
<1>4. /\ ActionCap \in Nat /\ ResultCap \in Nat
      /\ RefreshCap \in Nat /\ BaselineCap \in Nat
  BY ChannelAssumption
<1>5. CASE worker.st = "result" /\ Len(resultCh) = ResultCap
  <2>1. Len(actionCh) + ResultCap + 1 + Cardinality(Pending) <= MaxActions
    BY <1>5 DEF LoadInv, ActionsInFlight
  <2>2. CASE Pending # {} /\ Len(actionCh) = ActionCap
    BY <1>1, <1>2, <1>4, <2>1, <2>2, LoadAssumption
  <2>3. CASE toRefresh # {} /\ Len(refreshCh) = RefreshCap
    <3>1. RefreshCap + Len(baselineCh) + Cardinality(toRefresh) <= MaxRefresh
      BY <1>1, <1>3, <1>5, <2>3 DEF LoadInv, RefreshesInFlight
    <3> QED
      BY <1>1, <1>2, <1>3, <1>4, <2>1, <2>3, <3>1, LoadAssumption
  <2> QED
    BY <2>2, <2>3 DEF EngineBlocked
<1>6. CASE worker.st = "baseline" /\ Len(baselineCh) = BaselineCap
  <2>1. Len(refreshCh) + BaselineCap + 1 + Cardinality(toRefresh)
          <= MaxRefresh
    BY <1>6 DEF LoadInv, RefreshesInFlight
  <2>2. CASE Pending # {} /\ Len(actionCh) = ActionCap
    <3>1. ActionCap + Len(resultCh) + Cardinality(Pending) <= MaxActions
      BY <1>1, <1>2, <1>6, <2>2 DEF LoadInv, ActionsInFlight
    <3> QED
      BY <1>1, <1>2, <1>3, <1>4, <2>1, <2>2, <3>1, LoadAssumption
  <2>3. CASE toRefresh # {} /\ Len(refreshCh) = RefreshCap
    BY <1>1, <1>3, <1>4, <2>1, <2>3, LoadAssumption
  <2> QED
    BY <2>2, <2>3 DEF EngineBlocked
<1> QED
  BY <1>5, <1>6 DEF WorkerBlocked

\* The load is in order at first.
LEMMA InitLoad == Init => LoadInv
<1> SUFFICES ASSUME Init PROVE LoadInv
  OBVIOUS
<1>1. Pending = {} /\ toRefresh = {}
  BY DEF Init, Pending, NoSignals
<1> QED
  BY <1>1, FS_EmptySet, LoadAssumption
  DEF Init, LoadInv, ActionsInFlight, RefreshesInFlight, Idle

\* Requests are admitted within the bounds and then only move on: from the
\* handler to the request channel, the worker, the reply channel, the engine.
LEMMA StepLoad == TypeOK /\ LoadInv /\ [Next]_vars => LoadInv'
<1> SUFFICES ASSUME TypeOK, LoadInv, [Next]_vars PROVE LoadInv'
  OBVIOUS
<1> DEFINE P == Cardinality(Pending)
           R == Cardinality(toRefresh)
<1>0. TypeOK'
  BY StepType
<1>1. /\ Len(actionCh) \in Nat /\ Len(resultCh) \in Nat
      /\ Len(refreshCh) \in Nat /\ Len(baselineCh) \in Nat
  BY DEF TypeOK
<1>2. IsFiniteSet(Slots) /\ Cardinality(Slots) = ExitSlot /\ ExitSlot \in Nat
  BY FS_Interval, ThemesAssumption DEF Slots, ExitSlot
<1>3. IsFiniteSet(Pending) /\ P \in Nat
  BY <1>2, FS_Subset, FS_CardinalityType DEF Pending
<1>4. IsFiniteSet(toRefresh) /\ R \in Nat
  BY AccountsAssumption, FS_Subset, FS_CardinalityType DEF TypeOK
<1>5. /\ ActionsInFlight + P <= MaxActions
      /\ RefreshesInFlight + R <= MaxRefresh
  BY DEF LoadInv
<1>6. ActionsInFlight \in Nat /\ RefreshesInFlight \in Nat
  BY <1>1 DEF ActionsInFlight, RefreshesInFlight
<1>7. MaxActions \in Nat /\ MaxRefresh \in Nat
  BY LoadAssumption
<1>8. EngineIdle => P = 0 /\ R = 0
  BY FS_EmptySet DEF EngineIdle
<1> HIDE DEF P, R
<1>9. signals' = signals => P' = P
  BY DEF P, Pending
<1>10. CASE UNCHANGED <<signals, toRefresh, ioVars>>
  BY <1>5, <1>9, <1>10 DEF LoadInv, ActionsInFlight, RefreshesInFlight, P, R
<1>11. CASE \E tick \in Ticks : handleTick(tick)
  <2>1. PICK tick \in Ticks : handleTick(tick)
    BY <1>11
  <2>2. Pending' \subseteq Slots
    BY DEF Pending
  <2>3. Cardinality(Pending') \in Nat /\ Cardinality(Pending') <= ExitSlot
    BY <1>2, <2>2, FS_Subset, FS_CardinalityType
  <2>4. ActionsInFlight + ExitSlot <= MaxActions
    BY <2>1 DEF handleTick
  <2>5. ActionsInFlight' = ActionsInFlight
          /\ RefreshesInFlight' = RefreshesInFlight /\ toRefresh' = toRefresh
    BY <2>1 DEF handleTick, ActionsInFlight, RefreshesInFlight
  <2>6. ActionsInFlight' + Cardinality(Pending') <= MaxActions
    BY <1>2, <1>6, <1>7, <2>3, <2>4, <2>5
  <2> QED
    BY <1>5, <2>5, <2>6 DEF LoadInv, R
<1>12. CASE handleStatus
  <2>1. /\ RefreshesInFlight + 1 <= MaxRefresh
        /\ toRefresh' = {Head(statusCh)}
        /\ UNCHANGED <<signals, ioVars>>
    BY <1>12 DEF handleStatus
  <2>2. Cardinality(toRefresh') = 1
    BY <2>1, FS_Singleton
  <2> QED
    BY <1>5, <1>9, <2>1, <2>2
    DEF LoadInv, ActionsInFlight, RefreshesInFlight, P
<1>13. CASE handlePoll
  <2>1. /\ RefreshesInFlight + Cardinality(Accounts) <= MaxRefresh
        /\ toRefresh' = Accounts
        /\ UNCHANGED <<signals, ioVars>>
    BY <1>13 DEF handlePoll
  <2> QED
    BY <1>5, <1>9, <2>1 DEF LoadInv, ActionsInFlight, RefreshesInFlight, P
<1>14. CASE handleBaseline
  <2>1. /\ Len(baselineCh') = Len(baselineCh) - 1
        /\ UNCHANGED <<signals, toRefresh, actionCh, refreshCh, resultCh,
                       worker>>
    BY <1>14 DEF handleBaseline, TypeOK
  <2> QED
    BY <1>1, <1>4, <1>5, <1>7, <1>9, <2>1
    DEF LoadInv, ActionsInFlight, RefreshesInFlight, P, R
<1>15. CASE handleResult
  <2>1. /\ Len(resultCh') = Len(resultCh) - 1
        /\ UNCHANGED <<signals, toRefresh, actionCh, refreshCh, baselineCh,
                       worker>>
    BY <1>15 DEF handleResult, TypeOK
  <2> QED
    BY <1>1, <1>3, <1>5, <1>7, <1>9, <2>1
    DEF LoadInv, ActionsInFlight, RefreshesInFlight, P, R
<1>16. CASE dispatchSignal
  <2>1. PICK i \in Pending :
          /\ signals' = [signals EXCEPT ![i] = NoSignal]
          /\ \/ UNCHANGED actionCh
             \/ \E req : actionCh' = Append(actionCh, req)
    BY <1>16 DEF dispatchSignal
  <2>2. Pending' = Pending \ {i}
    BY <2>1 DEF Pending, TypeOK
  <2>3. Cardinality(Pending') = P - 1
    BY <1>3, <2>2, FS_RemoveElement DEF P
  <2>4. Len(actionCh') <= Len(actionCh) + 1 /\ Len(actionCh') \in Nat
    <3>1. CASE UNCHANGED actionCh
      BY <1>1, <3>1
    <3>2. CASE \E req : actionCh' = Append(actionCh, req)
      <4>1. PICK req : actionCh' = Append(actionCh, req)
        BY <3>2
      <4>2. Len(actionCh') = Len(actionCh) + 1
        BY <4>1, LenAppend DEF TypeOK
      <4> QED
        BY <1>1, <4>2
    <3> QED
      BY <2>1, <3>1, <3>2
  <2>5. UNCHANGED <<toRefresh, refreshCh, resultCh, baselineCh, worker>>
    BY <1>16 DEF dispatchSignal
  <2>6. ActionsInFlight' <= ActionsInFlight + 1 /\ ActionsInFlight' \in Nat
    BY <1>1, <2>4, <2>5 DEF ActionsInFlight
  <2>7. RefreshesInFlight' = RefreshesInFlight
    BY <2>5 DEF RefreshesInFlight
  <2>8. ActionsInFlight' + Cardinality(Pending') <= MaxActions
    <3>1. \A f0, f1, p0, p1, m \in Int :
             f0 + p0 <= m /\ f1 <= f0 + 1 /\ p1 = p0 - 1 => f1 + p1 <= m
      OBVIOUS
    <3>2. Cardinality(Pending') \in Int /\ P \in Int
      BY <1>3, <2>3
    <3>3. /\ ActionsInFlight' \in Int /\ ActionsInFlight \in Int
          /\ MaxActions \in Int
      BY <1>6, <1>7, <2>6
    <3> QED
      BY <1>5, <2>3, <2>6, <3>1, <3>2, <3>3
  <2> QED
    BY <1>5, <2>5, <2>7, <2>8 DEF LoadInv, R
<1>17. CASE SendRefresh
  <2>1. PICK a \in toRefresh : /\ toRefresh' = toRefresh \ {a}
                               /\ refreshCh' = Append(refreshCh, a)
    BY <1>17 DEF SendRefresh
  <2>2. Cardinality(toRefresh') = R - 1
    BY <1>4, <2>1, FS_RemoveElement DEF R
  <2>3. Len(refreshCh') = Len(refreshCh) + 1
    BY <2>1 DEF TypeOK
  <2>4. UNCHANGED <<signals, actionCh, resultCh, baselineCh, worker>>
    BY <1>17 DEF SendRefresh
  <2>5. RefreshesInFlight' = RefreshesInFlight + 1
    BY <1>1, <2>3, <2>4 DEF RefreshesInFlight
  <2>6. RefreshesInFlight' + Cardinality(toRefresh') <= MaxRefresh
    BY <1>4, <1>5, <1>6, <1>7, <2>2, <2>5
  <2>7. ActionsInFlight' = ActionsInFlight
    BY <2>4 DEF ActionsInFlight
  <2> QED
    BY <1>5, <1>9, <2>4, <2>6, <2>7 DEF LoadInv, P
<1>18. ASSUME UNCHANGED <<signals, toRefresh>>,
              ActionsInFlight' = ActionsInFlight,
              RefreshesInFlight' = RefreshesInFlight
       PROVE  LoadInv'
  BY <1>5, <1>9, <1>18 DEF LoadInv, P, R
<1>19. CASE \E ok \in BOOLEAN : GetBalance(ok)
  <2>1. /\ Len(refreshCh') = Len(refreshCh) - 1
        /\ worker.st = "idle" /\ worker'.st \in {"orders", "baseline"}
        /\ UNCHANGED <<outVars, actionCh, resultCh, baselineCh>>
    BY <1>19 DEF GetBalance, TypeOK, Idle
  <2> QED
    BY <1>1, <1>18, <2>1 DEF ActionsInFlight, RefreshesInFlight
<1>20. CASE \E ok \in BOOLEAN : GetOpenOrders(ok)
  <2>1. /\ worker.st = "orders" /\ worker'.st = "baseline"
        /\ UNCHANGED <<outVars, actionCh, refreshCh, resultCh, baselineCh>>
    BY <1>20 DEF GetOpenOrders
  <2> QED
    BY <1>18, <2>1 DEF ActionsInFlight, RefreshesInFlight
<1>21. CASE SendBaseline
  <2>1. /\ Len(baselineCh') = Len(baselineCh) + 1
        /\ worker.st = "baseline" /\ worker'.st = "idle"
        /\ UNCHANGED <<outVars, actionCh, refreshCh, resultCh>>
    BY <1>21 DEF SendBaseline, TypeOK, Idle
  <2> QED
    BY <1>1, <1>18, <2>1 DEF ActionsInFlight, RefreshesInFlight
<1>22. CASE \/ \E id \in OrderIds, heard \in BOOLEAN : PlaceOrder(id, heard)
            \/ PlaceOrderRefused
  <2>1. /\ Len(actionCh') = Len(actionCh) - 1
        /\ worker.st = "idle" /\ worker'.st = "result"
        /\ UNCHANGED <<outVars, refreshCh, resultCh, baselineCh>>
    <3>1. worker = Idle /\ actionCh # << >> /\ actionCh' = Tail(actionCh)
            /\ UNCHANGED <<outVars, refreshCh, resultCh, baselineCh>>
      BY <1>22 DEF PlaceOrder, PlaceOrderRefused
    <3>2. worker'.st = "result"
      <4>1. CASE PlaceOrderRefused
        BY <4>1 DEF PlaceOrderRefused
      <4>2. CASE \E id \in OrderIds, heard \in BOOLEAN : PlaceOrder(id, heard)
        <5>1. PICK id \in OrderIds, heard \in BOOLEAN : PlaceOrder(id, heard)
          BY <4>2
        <5>2. \E m : worker' = [st |-> "result", msg |-> m]
          BY <5>1 DEF PlaceOrder
        <5> QED
          BY <5>2
      <4> QED
        BY <1>22, <4>1, <4>2
    <3>3. Len(actionCh') = Len(actionCh) - 1
      BY <3>1 DEF TypeOK
    <3> QED
      BY <3>1, <3>2, <3>3 DEF Idle
  <2> QED
    BY <1>1, <1>18, <2>1 DEF ActionsInFlight, RefreshesInFlight
<1>23. CASE SendResult
  <2>1. /\ Len(resultCh') = Len(resultCh) + 1
        /\ worker.st = "result" /\ worker'.st = "idle"
        /\ UNCHANGED <<outVars, actionCh, refreshCh, baselineCh>>
    BY <1>23 DEF SendResult, TypeOK, Idle
  <2> QED
    BY <1>1, <1>18, <2>1 DEF ActionsInFlight, RefreshesInFlight
<1>24. CASE handleExec
  BY <1>10, <1>24 DEF handleExec, outVars
<1>25. CASE Engine
  BY <1>11, <1>12, <1>13, <1>14, <1>15, <1>16, <1>17, <1>24, <1>25 DEF Engine
<1>26. CASE Worker
  BY <1>19, <1>20, <1>21, <1>22, <1>23, <1>26 DEF Worker
<1>27. CASE Broker
  <2>1. ASSUME NEW id, NEW qty, NEW price, Fill(id, qty, price)
        PROVE  UNCHANGED <<signals, toRefresh, ioVars>>
    BY <2>1 DEF Fill, outVars
  <2>2. ASSUME NEW id, EndOrder(id) PROVE UNCHANGED <<signals, toRefresh, ioVars>>
    BY <2>2 DEF EndOrder, outVars
  <2>3. ASSUME NEW a, Disconnect(a) \/ OnConnect(a)
        PROVE  UNCHANGED <<signals, toRefresh, ioVars>>
    BY <2>3 DEF Disconnect, OnConnect, outVars
  <2> QED
    BY <1>10, <1>27, <2>1, <2>2, <2>3 DEF Broker
<1>28. CASE UNCHANGED vars
  BY <1>10, <1>28 DEF vars, outVars
<1> QED
  BY <1>25, <1>26, <1>27, <1>28 DEF Next

\* Under the load of LoadAssumption the engine and the IO worker never wait
\* for each other, for all channel capacities.
THEOREM NoCircularWaitCorrect == Spec => []NoCircularWait
<1>1. Init => TypeOK /\ LoadInv
  BY InitType, InitLoad
<1>2. TypeOK /\ LoadInv /\ [Next]_vars => (TypeOK /\ LoadInv)'
  BY StepType, StepLoad
<1>3. TypeOK /\ LoadInv => NoCircularWait
  BY LoadSuffices
<1> QED
  BY <1>1, <1>2, <1>3, PTL DEF Spec

=============================================================================
