---------------------------- MODULE Gateway_proof ----------------------------
(***************************************************************************)
(* The broker gateway: a broker that was removed is never reported to be   *)
(* anything else again, and the gateway uses the LS client only in the     *)
(* ways LsClient allows, so that what is proved of the client holds below  *)
(* the gateway -- for any starters, brokers, routes and limits.            *)
(***************************************************************************)
EXTENDS Gateway, LsClient_proof

-----------------------------------------------------------------------------
(* The brokers of one identifier.                                           *)

Statuses == {"", "created", "starting", "running", "stopped"}

\* A broker is created, then waits to be stored, is registered at most once and
\* removed at most once: one that is waiting or registered was not reported stopped.
GwInv ==
    /\ made \in Nat /\ current \in {0} \union Brokers
    /\ published \in [Brokers -> Statuses]
    /\ \A b \in pending : b \in Brokers /\ b <= made /\ published[b] = ""
    /\ \A b \in Brokers : b > made => published[b] = ""
    /\ current # 0 => published[current] # "stopped" /\ current \notin pending /\ current <= made

\* What a broker's removal promises of its last message.
StaysStopped(b) == published[b] = "stopped" => published'[b] = "stopped"

\* Messages about another broker do not touch a broker that was removed.
LEMMA OnePublished ==
    ASSUME GwInv, NEW b \in Brokers, NEW status \in Statuses, publishLifecycleLocked(b, status)
    PROVE  /\ published' \in [Brokers -> Statuses] /\ published'[b] = status
           /\ \A d \in Brokers : d # b => published'[d] = published[d]
BY DEF GwInv, publishLifecycleLocked

\* Brokers are numbered from one.
LEMMA BrokerNumbers == Brokers \subseteq Nat /\ 0 \notin Brokers /\ MaxBrokers \in Nat
<1>1. MaxBrokers \in Nat
  BY GatewayLimits
<1> QED
  BY <1>1 DEF Brokers

\* The order of numbers, by itself.
LEMMA NotAbove == \A x, y \in Nat : x <= y => ~(x > y)
OBVIOUS

\* The gateway begins in order.
LEMMA GwInitHolds == GwInit => GwInv
<1> SUFFICES ASSUME GwInit PROVE GwInv
  OBVIOUS
<1>1. made = 0 /\ current = 0 /\ pending = {} /\ published = [b \in Brokers |-> ""]
  BY DEF GwInit
<1>2. published \in [Brokers -> Statuses]
  BY <1>1 DEF Statuses
<1> QED
  BY <1>1, <1>2 DEF GwInv

\* Register creates a broker nobody has heard of.
LEMMA CreateHolds ==
    ASSUME GwInv, registerCreate
    PROVE  GwInv' /\ \A b \in Brokers : StaysStopped(b)
<1>1. PICK n : n = made + 1
  OBVIOUS
<1>2. /\ made \in Nat /\ made < MaxBrokers /\ made' = n /\ pending' = pending \union {n}
      /\ current = 0 /\ UNCHANGED <<current, published>>
  BY <1>1 DEF GwInv, registerCreate
<1>3. n \in Brokers /\ n > made /\ n \in Nat
  BY <1>1, <1>2, BrokerNumbers DEF Brokers
<1>4. published[n] = ""
  BY <1>3 DEF GwInv
<1>5. ASSUME NEW b \in pending' PROVE b \in Brokers /\ b <= n /\ published[b] = ""
  <2>1. CASE b = n
    <3>1. n <= n /\ n \in Nat
      BY <1>3
    <3>2. b \in Brokers /\ published[b] = ""
      BY <1>3, <1>4, <2>1
    <3> QED
      BY <2>1, <3>1, <3>2
  <2>2. CASE b # n
    <3>1. b \in Brokers /\ b <= made /\ published[b] = ""
      BY <1>2, <1>5, <2>2 DEF GwInv
    <3>2. b \in Nat
      BY <3>1, BrokerNumbers
    <3>3. b <= made /\ made \in Nat
      BY <1>2, <3>1
    <3>4. b <= n
      BY <1>1, <3>2, <3>3
    <3> QED
      BY <3>1, <3>4
  <2> QED
    BY <2>1, <2>2
<1>6. ASSUME NEW b \in Brokers, b > n PROVE published[b] = ""
  <2>1. b \in Nat /\ b > made
    BY <1>1, <1>2, <1>6, BrokerNumbers
  <2> QED
    BY <2>1 DEF GwInv
<1>7. GwInv'
  BY <1>2, <1>3, <1>5, <1>6 DEF GwInv
<1> QED
  BY <1>2, <1>7 DEF StaysStopped

\* Register stores a broker that was not reported before, or drops it.
LEMMA StoreHolds ==
    ASSUME GwInv, NEW b \in pending, registerStore(b)
    PROVE  GwInv' /\ \A d \in Brokers : StaysStopped(d)
<1>1. b \in Brokers /\ b <= made /\ published[b] = "" /\ b \in Nat /\ b # 0
  <2>1. b \in Brokers /\ b <= made /\ published[b] = ""
    BY DEF GwInv
  <2> QED
    BY <2>1, BrokerNumbers
<1>2. pending' = pending \ {b} /\ UNCHANGED made
  BY DEF registerStore
<1>3. CASE current # 0
  <2>1. UNCHANGED <<current, published>>
    BY <1>3 DEF registerStore
  <2> QED
    BY <1>2, <2>1 DEF GwInv, StaysStopped
<1>4. CASE current = 0
  <2>1. current' = b /\ publishLifecycleLocked(b, "created")
    BY <1>4 DEF registerStore
  <2>2. /\ published' \in [Brokers -> Statuses] /\ published'[b] = "created"
        /\ \A d \in Brokers : d # b => published'[d] = published[d]
    BY <1>1, <2>1, OnePublished DEF Statuses
  <2>3. \A d \in pending' : d \in Brokers /\ d <= made /\ published'[d] = ""
    BY <1>2, <2>2 DEF GwInv
  <2>4. \A d \in Brokers : d > made => published'[d] = ""
    <3>1. b <= made /\ b \in Nat /\ made \in Nat
      BY <1>1 DEF GwInv
    <3>2. ~(b > made)
      BY <3>1
    <3> QED
      BY <2>2, <3>2 DEF GwInv
  <2>5. GwInv'
    BY <1>1, <1>2, <2>1, <2>2, <2>3, <2>4 DEF GwInv
  <2>6. \A d \in Brokers : StaysStopped(d)
    BY <1>1, <2>2 DEF StaysStopped
  <2> QED
    BY <2>5, <2>6
<1> QED
  BY <1>3, <1>4

\* A step of the registered broker: a message about it, which may be its last.
LEMMA CurrentHolds ==
    ASSUME GwInv, current # 0, NEW status \in Statuses \ {""},
           publishLifecycleLocked(current, status), UNCHANGED <<made, pending>>,
           current' = 0 \/ (UNCHANGED current /\ status # "stopped")
    PROVE  GwInv' /\ \A b \in Brokers : StaysStopped(b)
<1>1. PICK b : b = current
  OBVIOUS
<1>2. b \in Brokers /\ published[b] # "stopped" /\ b \notin pending /\ b <= made /\ b \in Nat
  <2>1. b \in Brokers /\ published[b] # "stopped" /\ b \notin pending /\ b <= made
    BY <1>1 DEF GwInv
  <2> QED
    BY <2>1, BrokerNumbers
<1>3. /\ published' \in [Brokers -> Statuses] /\ published'[b] = status
      /\ \A d \in Brokers : d # b => published'[d] = published[d]
  BY <1>1, <1>2, OnePublished
<1>4. \A d \in pending' : d \in Brokers /\ d <= made /\ published'[d] = ""
  BY <1>2, <1>3 DEF GwInv
<1>5. \A d \in Brokers : d > made => published'[d] = ""
  <2>1. b <= made /\ b \in Nat /\ made \in Nat
    BY <1>2 DEF GwInv
  <2>2. ~(b > made)
    BY <2>1, NotAbove
  <2>3. \A d \in Brokers : d > made => published[d] = ""
    BY DEF GwInv
  <2> QED
    BY <1>3, <2>2, <2>3
<1>6. current' = 0 \/ (current' = b /\ status # "stopped")
  BY <1>1
<1>7. GwInv'
  BY <1>2, <1>3, <1>4, <1>5, <1>6 DEF GwInv
<1>8. \A d \in Brokers : StaysStopped(d)
  BY <1>2, <1>3 DEF StaysStopped
<1> QED
  BY <1>7, <1>8

\* Every step keeps the brokers in order, and a removed broker's last message.
LEMMA GwNextHolds ==
    ASSUME GwInv, [GwNext]_allVars
    PROVE  GwInv' /\ \A b \in Brokers : StaysStopped(b)
<1>1. CASE UNCHANGED <<made, current, published, pending>>
  BY <1>1 DEF GwInv, StaysStopped
<1>2. CASE registerCreate
  BY <1>2, CreateHolds
<1>3. CASE \E b \in pending : registerStore(b)
  BY <1>3, StoreHolds
<1>4. CASE \E t \in Starters : startBegin(t)
  <2>1. /\ current # 0 /\ publishLifecycleLocked(current, "starting")
        /\ UNCHANGED <<made, pending, current>>
    BY <1>4 DEF startBegin
  <2> QED
    BY <2>1, CurrentHolds DEF Statuses
<1>5. CASE \E t \in Starters : startEnd(t)
  <2>1. PICK t \in Starters : startEnd(t)
    BY <1>5
  <2>2. PICK b : b = starting[t].broker
    OBVIOUS
  <2>3. UNCHANGED <<made, pending, current>>
    BY <2>1 DEF startEnd
  <2>4. CASE current = b /\ current # 0
    <3>1. publishLifecycleLocked(current, "running")
      BY <2>1, <2>2, <2>4 DEF startEnd
    <3> QED
      BY <2>3, <2>4, <3>1, CurrentHolds DEF Statuses
  <2>5. CASE current # b
    <3>1. UNCHANGED published
      BY <2>1, <2>2, <2>5 DEF startEnd
    <3> QED
      BY <1>1, <2>3, <3>1
  <2>6. CASE current = b /\ current = 0
    <3>1. published' = [published EXCEPT ![0] = "running"]
      BY <2>1, <2>2, <2>6 DEF startEnd, publishLifecycleLocked
    <3>2. 0 \notin Brokers /\ published \in [Brokers -> Statuses]
      BY BrokerNumbers DEF GwInv
    <3>3. published' = published
      BY <3>1, <3>2
    <3> QED
      BY <1>1, <2>3, <3>3
  <2> QED
    BY <2>4, <2>5, <2>6
<1>6. CASE Remove
  <2>1. /\ current # 0 /\ publishLifecycleLocked(current, "stopped")
        /\ UNCHANGED <<made, pending>> /\ current' = 0
    BY <1>6 DEF Remove
  <2> QED
    BY <2>1, CurrentHolds DEF Statuses
<1>7. \/ UNCHANGED <<made, current, published, pending>>
      \/ registerCreate \/ Remove
      \/ \E b \in pending : registerStore(b)
      \/ \E t \in Starters : startBegin(t) \/ startEnd(t)
  BY DEF GwNext, allVars, gwVars, startBroker, subscribeNative, closeNative, NewSubscription,
         closeDone, consume, streamTake, streamSend, streamEnd
<1> QED
  BY <1>1, <1>2, <1>3, <1>4, <1>5, <1>6, <1>7

\* A broker that Remove took out of the gateway is reported stopped, and whatever
\* Register, Start, Replace and Remove of other callers are under way outside the lock,
\* it is never reported anything else.
THEOREM RemovedStaysStopped == GwSpec => RemovedIsFinal
<1>1. GwInv /\ [GwNext]_allVars => GwInv'
  BY GwNextHolds
<1>2. GwInv /\ [GwNext]_allVars =>
        [\A b \in Brokers : published[b] = "stopped" => published'[b] = "stopped"]_allVars
  BY GwNextHolds DEF StaysStopped
<1> QED
  BY <1>1, <1>2, GwInitHolds, PTL DEF GwSpec, RemovedIsFinal

-----------------------------------------------------------------------------
(* The LS client below the gateway.                                         *)

\* Every step of the gateway is a step of the LS client or leaves it alone.
LEMMA GwStepOfClient == [GwNext]_allVars => [Next]_vars
<1> SUFFICES ASSUME [GwNext]_allVars PROVE [Next]_vars
  OBVIOUS
<1>1. CASE UNCHANGED vars
  BY <1>1
<1>2. CASE LsStep
  BY <1>2 DEF Next
<1>3. CASE \E t \in Starters : startBroker(t)
  <2>1. PICK t \in Starters : startBroker(t)
    BY <1>3
  <2>2. (t \in ctxDone) \in BOOLEAN
    OBVIOUS
  <2>3. Start(t \in ctxDone) \/ UNCHANGED vars
    BY <2>1 DEF startBroker
  <2> QED
    BY <2>2, <2>3 DEF Next
<1>4. CASE Remove
  BY <1>4 DEF Remove, Next
<1>5. CASE \E c \in Callers, k \in Keys : subscribeNative(c, k)
  BY <1>5 DEF subscribeNative, Next, ClientCall
<1>6. CASE \E c \in Callers : \E h \in handles : closeNative(c, h)
  BY <1>6 DEF closeNative, Next, ClientCall
<1>7. CASE \E id \in Ids : streamTake(id)
  BY <1>7 DEF streamTake, Next
<1>8. \/ UNCHANGED vars \/ LsStep \/ Remove
      \/ \E t \in Starters : startBroker(t)
      \/ \E c \in Callers, k \in Keys : subscribeNative(c, k)
      \/ \E c \in Callers : \E h \in handles : closeNative(c, h)
      \/ \E id \in Ids : streamTake(id)
  BY DEF GwNext, allVars, registerCreate, registerStore, startBegin, startEnd, NewSubscription,
         closeDone, consume, streamSend, streamEnd
<1> QED
  BY <1>1, <1>2, <1>3, <1>4, <1>5, <1>6, <1>7, <1>8

\* The gateway implements the environment LsClient assumes: it starts the client under a
\* context that may be done already, cancels it, subscribes, reads and closes, and does
\* nothing else to it.
THEOREM GatewayUsesClient == GwSpec => Spec
<1>1. GwInit => Init
  BY DEF GwInit
<1> QED
  BY <1>1, GwStepOfClient, PTL DEF GwSpec, Spec

\* So the client below the gateway is as proved: live owners within the limits, no slot
\* leaked, muxes that match the registry, and routes registered exactly while held.
THEOREM ClientBelowGateway ==
    GwSpec => [](OwnersLive /\ WithinLimits /\ NoSlotLeak /\ IntentMatches) /\ RoutesAsPromised
BY GatewayUsesClient, RoutesHaveLiveOwners, LimitsHold, SlotsAreNotLeaked, MuxesMatchRegistry,
   RoutesRefineHolding, PTL

=============================================================================
