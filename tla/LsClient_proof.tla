--------------------------- MODULE LsClient_proof ----------------------------
(***************************************************************************)
(* The LS client and the realtime service below it: routes are owned by    *)
(* live slots within the limits, no slot is leaked, what a mux was asked   *)
(* for is what its slot carries, and a route is registered exactly while   *)
(* it is held -- for any routes, callers, limits and bounds.               *)
(***************************************************************************)
EXTENDS LsClient, FiniteSetTheorems, WellFoundedInduction, TLAPS

-----------------------------------------------------------------------------
(* The inductive invariant.                                                 *)

Slot == [routes : SUBSET Keys, idleTimer : 0..2, ctx : BOOLEAN, stopping : BOOLEAN,
         connectCount : Nat]
Client == [stopped : BOOLEAN, queue : Seq(Commands), subs : SUBSET Keys, up : BOOLEAN]
Tasks == [op : {"first", "last", "close"}, caller : Callers, key : Keys, id : 0..MaxSubscribers]

Types ==
    /\ started \in BOOLEAN /\ closed \in BOOLEAN
    /\ slots \in Seq(SlotIDs)
    /\ routeOwners \in [Keys -> SlotIDs \union {NoSlot}]
    /\ nextID \in 1..(MaxSlotIDs + 1)
    /\ slot \in [SlotIDs -> Slot] /\ mux \in [SlotIDs -> Client]
    /\ fired \subseteq [slot : SlotIDs, timer : Timers]
    /\ toStop \subseteq SlotIDs
    /\ call \in [Callers -> Calls]
    /\ routes \in [Keys -> SUBSET Ids] /\ nextSubscriberID \in 0..MaxSubscribers
    /\ handles \subseteq [id : Ids, key : Keys]
    /\ task \in {NoTask} \union Tasks

\* The slots of the registry are different ones, were created and are not stopped;
\* once the registry is closed there is none.
SlotsInv ==
    /\ \A i, j \in DOMAIN slots : slots[i] = slots[j] => i = j
    /\ \A i \in DOMAIN slots : slots[i] < nextID /\ ~slot[slots[i]].stopping
    /\ closed => slots = <<>> /\ \A k \in Keys : routeOwners[k] = NoSlot
    /\ ~closed => toStop = {}
    /\ \A s \in toStop : s < nextID

\* A slot that was not created yet is as new.
UnusedInv ==
    \A s \in SlotIDs : s >= nextID =>
        /\ slot[s].routes = {} /\ slot[s].idleTimer = 0 /\ ~slot[s].stopping
        /\ mux[s].queue = <<>> /\ mux[s].subs = {}

\* Of a slot's timers one at most waits for the lock.
TimerInv == \A f, g \in fired : f.slot = g.slot => f = g

LimitInv ==
    /\ Len(slots) <= MaxConnSlots
    /\ \A s \in SlotIDs : IsFiniteSet(slot[s].routes) /\ routeCount(s) <= MaxRoutesPerSlot

\* What is known of a call under way, by where it is: the holder of the client's mutex
\* makes it, and until the registry is closed nobody else touches its route.
CallInv ==
    \A c \in Callers : call[c] # Idle =>
        /\ task # NoTask /\ task.caller = c
        /\ call[c].pc \in {"acquire", "subscribe", "rollback"} => task.op = "first"
        /\ call[c].pc \in {"owner", "unsubscribe", "release"} => task.op \in {"last", "close"}
        /\ call[c].pc # "returned" => call[c].key = task.key
        /\ call[c].pc = "subscribe" => ~call[c].existed
        /\ call[c].pc \in {"subscribe", "rollback", "unsubscribe", "release"} =>
              call[c].slot < nextID /\ (closed \/ routeOwners[task.key] = call[c].slot)
        /\ call[c].pc = "acquire" /\ ~closed => routeOwners[task.key] = NoSlot
        /\ call[c].pc = "owner" /\ ~closed => routeOwners[task.key] # NoSlot
        /\ call[c].pc = "returned" /\ ~closed =>
              (routeOwners[task.key] # NoSlot <=> (task.op = "first" <=> call[c].ok))

\* A route that no call is about is registered while it is held.
HoldInv ==
    /\ \A k \in Keys : ~closed /\ (task = NoTask \/ task.key # k) =>
          (routeOwners[k] # NoSlot <=> routes[k] # {})
    /\ \A k \in Keys : \A id \in routes[k] : id <= nextSubscriberID
    /\ task # NoTask =>
          /\ task.op = "first" => /\ routes[task.key] = {} /\ task.id \in Ids
                                  /\ task.id <= nextSubscriberID
                                  /\ \A k \in Keys : task.id \notin routes[k]
          /\ task.op = "last" => routes[task.key] = {task.id}
          /\ task.op = "close" => routes[task.key] # {}

\* Whether a mux will have a subscription once its queue is handled.
About(q, k) == {i \in DOMAIN q : q[i].key = k}
Final(q, subs, k) ==
    IF About(q, k) = {} THEN k \in subs
    ELSE \E i \in About(q, k) : (\A j \in About(q, k) : j <= i) /\ q[i].kind = "subscribe"

\* A caller is between the registry and the mux: the route is registered, and the mux
\* was not told yet or not any more.
BetweenBy(x, s, k) == x.pc \in {"subscribe", "rollback", "release"} /\ x.key = k /\ x.slot = s
Between(s, k) == \E c \in Callers : BetweenBy(call[c], s, k)

IntentInv ==
    \A s \in SlotIDs, k \in Keys :
        InRegistry(s) /\ ~mux[s].stopped /\ <<s, k>> \notin faulty =>
            (Final(mux[s].queue, mux[s].subs, k) <=> k \in slot[s].routes /\ ~Between(s, k))

LsInv ==
    /\ Types /\ SlotsInv /\ UnusedInv /\ TimerInv /\ LimitInv /\ OwnersLive /\ NoSlotLeak
    /\ CallInv /\ HoldInv /\ IntentInv

-----------------------------------------------------------------------------
(* The operators of the registry.                                           *)

\* A set of numbers that is not empty has a first one.
LEMMA FirstIsLeast ==
    ASSUME NEW S, S \subseteq Nat, S # {}
    PROVE  First(S) \in S /\ \A j \in S : First(S) <= j
<1>1. PICK R : R = OpToRel(<, Nat)
  OBVIOUS
<1>2. IsWellFoundedOn(R, Nat)
  BY <1>1, NatLessThanWellFounded
<1>3. \A a, b \in Nat : a < b => <<a, b>> \in R
  BY <1>1 DEF OpToRel
<1>4. PICK x \in S : \A y \in S : ~ (<<y, x>> \in R)
  BY <1>2, WFMin
<1>5. \A y \in S : x <= y
  <2> SUFFICES ASSUME NEW y \in S PROVE x <= y
    OBVIOUS
  <2>1. x \in Nat /\ y \in Nat
    BY <1>4
  <2>2. ~(y < x)
    BY <1>3, <1>4, <2>1
  <2> QED
    BY <2>1, <2>2
<1>6. \E i \in S : \A j \in S : i <= j
  BY <1>4, <1>5
<1> QED
  BY <1>6 DEF First

\* The registry's slots, by position.
LEMMA SlotsType ==
    ASSUME Types
    PROVE  /\ DOMAIN slots = 1..Len(slots) /\ Len(slots) \in Nat
           /\ \A i \in DOMAIN slots : i \in Nat /\ slots[i] \in SlotIDs
           /\ SlotIDs \subseteq Nat /\ NoSlot \notin SlotIDs /\ nextID \in Nat /\ nextID # NoSlot
<1>1. slots \in Seq(SlotIDs) /\ MaxSlotIDs \in Nat
  BY LsLimits DEF Types
<1>2. DOMAIN slots = 1..Len(slots) /\ Len(slots) \in Nat
  BY <1>1
<1>3. \A i \in DOMAIN slots : i \in Nat /\ slots[i] \in SlotIDs
  BY <1>1, <1>2
<1>4. SlotIDs \subseteq Nat /\ NoSlot \notin SlotIDs
  BY <1>1 DEF SlotIDs, NoSlot
<1>5. nextID \in Nat /\ nextID # NoSlot
  BY <1>1 DEF Types, NoSlot
<1> QED
  BY <1>2, <1>3, <1>4, <1>5

\* selectSlotLocked takes a slot of the registry that is below the limit, or a new one
\* when one more is allowed, or none.
LEMMA SlotSelected ==
    ASSUME Types, LimitInv
    PROVE  \/ selectSlotLocked = NoSlot
           \/ selectSlotLocked = nextID /\ Len(slots) < MaxConnSlots
           \/ /\ InRegistry(selectSlotLocked) /\ selectSlotLocked \in SlotIDs
              /\ routeCount(selectSlotLocked) < MaxRoutesPerSlot
<1>1. /\ Ceilings \subseteq Nat /\ Ceilings # {} /\ \A c \in Ceilings : c <= MaxRoutesPerSlot
  BY LsLimits DEF Ceilings
<1>2. ASSUME NEW c \in Ceilings, Below(c) # {}
      PROVE  /\ InRegistry(slots[First(Below(c))]) /\ slots[First(Below(c))] \in SlotIDs
             /\ routeCount(slots[First(Below(c))]) < MaxRoutesPerSlot
  <2>1. Below(c) \subseteq DOMAIN slots /\ Below(c) \subseteq Nat
    BY SlotsType DEF Below
  <2>2. First(Below(c)) \in Below(c)
    BY <1>2, <2>1, FirstIsLeast
  <2>3. PICK i \in DOMAIN slots : i = First(Below(c)) /\ routeCount(slots[i]) < c
    BY <2>2 DEF Below
  <2>4. slots[i] \in SlotIDs
    BY SlotsType
  <2>5. routeCount(slots[i]) \in Nat
    BY <2>4, FS_CardinalityType DEF LimitInv, routeCount
  <2>6. routeCount(slots[i]) < MaxRoutesPerSlot
    BY <1>1, <2>3, <2>5, LsLimits
  <2> QED
    BY <2>3, <2>4, <2>6 DEF InRegistry
<1>3. First(Ceilings) \in Ceilings
  BY <1>1, FirstIsLeast
<1>4. PICK open : open = {c \in Ceilings : Below(c) # {}}
  OBVIOUS
<1>5. open # {} => First(open) \in Ceilings /\ Below(First(open)) # {}
  <2>1. open \subseteq Nat
    BY <1>1, <1>4
  <2> QED
    BY <1>4, <2>1, FirstIsLeast
<1> QED
  BY <1>2, <1>3, <1>4, <1>5 DEF selectSlotLocked

\* removeSlotLocked takes one slot out and keeps the order of the others.
LEMMA SlotRemoved ==
    ASSUME Types, SlotsInv, NEW s \in SlotIDs, InRegistry(s), slots' = removeSlotLocked(s)
    PROVE  /\ slots' \in Seq(SlotIDs) /\ Len(slots') <= Len(slots)
           /\ \A i \in DOMAIN slots' : \E j \in DOMAIN slots : i <= j /\ slots'[i] = slots[j]
           /\ \A i, j \in DOMAIN slots' : slots'[i] = slots'[j] => i = j
           /\ ~InRegistry(s)'
           /\ \A t \in SlotIDs : t # s => (InRegistry(t)' <=> InRegistry(t))
<1>1. PICK N : N = Len(slots)
  OBVIOUS
<1>2. PICK n : n = First({i \in DOMAIN slots : slots[i] = s})
  OBVIOUS
<1>3. N \in Nat /\ DOMAIN slots = 1..N /\ \A i \in 1..N : slots[i] \in SlotIDs
  BY <1>1, SlotsType
<1>4. n \in 1..N /\ slots[n] = s /\ N - 1 \in Nat
  <2>1. {i \in DOMAIN slots : slots[i] = s} # {} /\ {i \in DOMAIN slots : slots[i] = s} \subseteq Nat
    BY <1>3 DEF InRegistry
  <2>2. n \in {i \in DOMAIN slots : slots[i] = s}
    BY <1>2, <2>1, FirstIsLeast
  <2> QED
    BY <1>3, <2>2
<1>5. slots' = [i \in 1..(N - 1) |-> IF i < n THEN slots[i] ELSE slots[i + 1]]
  BY <1>1, <1>2 DEF removeSlotLocked
<1>6. \A i \in 1..(N - 1) : (IF i < n THEN slots[i] ELSE slots[i + 1]) \in SlotIDs
  BY <1>3, <1>4
<1>7. slots' \in Seq(SlotIDs) /\ Len(slots') = N - 1 /\ DOMAIN slots' = 1..(N - 1)
  BY <1>4, <1>5, <1>6
<1>8. \A i \in 1..(N - 1) : \/ i < n /\ slots'[i] = slots[i] /\ i \in 1..N
                            \/ ~(i < n) /\ slots'[i] = slots[i + 1] /\ i + 1 \in 1..N
  BY <1>3, <1>4, <1>5
<1>9. \A i, j \in 1..N : slots[i] = slots[j] => i = j
  BY <1>3 DEF SlotsInv
<1>10. ASSUME NEW i \in 1..(N - 1) PROVE \E j \in 1..N : i <= j /\ slots'[i] = slots[j]
  BY <1>3, <1>8
<1>11. ASSUME NEW i \in 1..(N - 1), NEW j \in 1..(N - 1), slots'[i] = slots'[j] PROVE i = j
  BY <1>3, <1>4, <1>8, <1>9, <1>11
<1>12. \A i \in 1..(N - 1) : slots'[i] # s
  BY <1>3, <1>4, <1>8, <1>9
<1>13. ASSUME NEW t \in SlotIDs, t # s PROVE InRegistry(t)' <=> InRegistry(t)
  <2>1. ASSUME InRegistry(t)' PROVE InRegistry(t)
    BY <1>3, <1>7, <1>10, <2>1 DEF InRegistry
  <2>2. ASSUME NEW i \in 1..N, slots[i] = t PROVE \E j \in 1..(N - 1) : slots'[j] = t
    <3>1. i # n
      BY <1>4, <1>13, <2>2
    <3>2. CASE i < n
      <4>1. i \in 1..(N - 1) /\ slots'[i] = slots[i]
        BY <1>3, <1>4, <1>8, <3>2
      <4> QED
        BY <2>2, <4>1
    <3>3. CASE i > n
      <4>1. i - 1 \in 1..(N - 1) /\ ~(i - 1 < n) /\ (i - 1) + 1 = i
        BY <1>3, <1>4, <3>3
      <4>2. slots'[i - 1] = slots[i]
        BY <1>8, <4>1
      <4> QED
        BY <2>2, <4>1, <4>2
    <3> QED
      BY <1>3, <1>4, <3>1, <3>2, <3>3
  <2> QED
    BY <1>3, <1>7, <2>1, <2>2 DEF InRegistry
<1>14. ~InRegistry(s)'
  BY <1>7, <1>12 DEF InRegistry
<1>15. Len(slots') <= Len(slots)
  BY <1>1, <1>3, <1>7
<1> QED
  BY <1>3, <1>7, <1>10, <1>11, <1>13, <1>14, <1>15

-----------------------------------------------------------------------------
(* What the steps do to slots and mux clients.                              *)

\* What two versions of a slot have in common.
Alike(y, x) == y.routes = x.routes /\ y.idleTimer = x.idleTimer /\ y.stopping = x.stopping

\* The edits of a slot.
LEMMA SlotEdits ==
    ASSUME NEW x \in Slot, NEW y
    PROVE  /\ y = launchSlot(x) => y \in Slot /\ Alike(y, x)
           /\ y = cancelIdleTimer(x) =>
                 y \in Slot /\ y.routes = x.routes /\ y.idleTimer = 0 /\ y.stopping = x.stopping
           /\ y = stopped(x) =>
                 y \in Slot /\ y.routes = x.routes /\ y.idleTimer = 0 /\ y.stopping = TRUE
           /\ \A n \in Nat : y = [x EXCEPT !.connectCount = n] => y \in Slot /\ Alike(y, x)
<1>1. ASSUME y = launchSlot(x) PROVE y \in Slot /\ Alike(y, x)
  BY <1>1 DEF Slot, launchSlot, Alike
<1>2. ASSUME NEW z, z = cancelIdleTimer(x)
      PROVE  z \in Slot /\ z.routes = x.routes /\ z.idleTimer = 0 /\ z.stopping = x.stopping
  <2>1. 0 \in 0..2
    OBVIOUS
  <2> QED
    BY <1>2, <2>1 DEF Slot, cancelIdleTimer
<1>3. ASSUME y = stopped(x)
      PROVE  y \in Slot /\ y.routes = x.routes /\ y.idleTimer = 0 /\ y.stopping = TRUE
  <2>1. TRUE \in BOOLEAN /\ FALSE \in BOOLEAN
    OBVIOUS
  <2>2. PICK z : z = cancelIdleTimer(x)
    OBVIOUS
  <2>3. z \in Slot /\ z.routes = x.routes /\ z.idleTimer = 0
    BY <1>2, <2>2
  <2>4. y = [z EXCEPT !.stopping = TRUE, !.ctx = FALSE]
    BY <1>3, <2>2 DEF stopped
  <2>5. y.routes = x.routes /\ y.idleTimer = 0 /\ y.stopping = TRUE
    BY <2>3, <2>4 DEF Slot
  <2>6. y \in Slot
    BY <2>1, <2>3, <2>4 DEF Slot
  <2> QED
    BY <2>5, <2>6
<1>4. ASSUME NEW n \in Nat, y = [x EXCEPT !.connectCount = n]
      PROVE  y \in Slot /\ Alike(y, x)
  BY <1>4 DEF Slot, Alike
<1> QED
  BY <1>1, <1>2, <1>3, <1>4

\* What addRoute, removeRoute and cancelIdleTimer do to a slot.
LEMMA RouteEdits ==
    ASSUME NEW x \in Slot, NEW k \in Keys, NEW y
    PROVE  /\ y = addRoute(x, k) =>
                 /\ y \in Slot /\ y.routes = x.routes \union {k}
                 /\ y.idleTimer = x.idleTimer /\ y.stopping = x.stopping
           /\ y = removeRoute(x, k) =>
                 /\ y \in Slot /\ y.routes = x.routes \ {k}
                 /\ y.idleTimer = x.idleTimer /\ y.stopping = x.stopping
<1>1. x.routes \in SUBSET Keys
  BY DEF Slot
<1>2. PICK p, q : p = x.routes \union {k} /\ q = x.routes \ {k}
  OBVIOUS
<1>3. p \in SUBSET Keys /\ q \in SUBSET Keys
  BY <1>1, <1>2
<1>4. ASSUME y = addRoute(x, k)
      PROVE  /\ y \in Slot /\ y.routes = p
             /\ y.idleTimer = x.idleTimer /\ y.stopping = x.stopping
  <2>1. y = [x EXCEPT !.routes = p]
    BY <1>2, <1>4 DEF addRoute
  <2> QED
    BY <1>3, <2>1 DEF Slot
<1>5. ASSUME y = removeRoute(x, k)
      PROVE  /\ y \in Slot /\ y.routes = q
             /\ y.idleTimer = x.idleTimer /\ y.stopping = x.stopping
  <2>1. y = [x EXCEPT !.routes = q]
    BY <1>2, <1>5 DEF removeRoute
  <2> QED
    BY <1>3, <2>1 DEF Slot
<1> QED
  BY <1>2, <1>4, <1>5

\* The edits of a mux client.
LEMMA ClientEdits ==
    ASSUME NEW m \in Client, NEW y
    PROVE  /\ y = stopClient(m) => y \in Client /\ y.stopped = TRUE /\ y.queue = <<>> /\ y.subs = {}
           /\ \A b \in BOOLEAN : y = [m EXCEPT !.up = b] =>
                 y \in Client /\ y.stopped = m.stopped /\ y.queue = m.queue /\ y.subs = m.subs
           /\ \A q \in Seq(Commands), S \in SUBSET Keys : y = [m EXCEPT !.queue = q, !.subs = S] =>
                 y \in Client /\ y.stopped = m.stopped /\ y.queue = q /\ y.subs = S
<1>1. ASSUME y = stopClient(m)
      PROVE  y \in Client /\ y.stopped = TRUE /\ y.queue = <<>> /\ y.subs = {}
  <2>1. <<>> \in Seq(Commands) /\ {} \in SUBSET Keys /\ TRUE \in BOOLEAN /\ FALSE \in BOOLEAN
    OBVIOUS
  <2>2. y = [stopped |-> TRUE, queue |-> <<>>, subs |-> {}, up |-> FALSE]
    BY <1>1 DEF stopClient, NewClient
  <2> QED
    BY <2>1, <2>2 DEF Client
<1>2. ASSUME NEW b \in BOOLEAN, y = [m EXCEPT !.up = b]
      PROVE  y \in Client /\ y.stopped = m.stopped /\ y.queue = m.queue /\ y.subs = m.subs
  BY <1>2 DEF Client
<1>3. ASSUME NEW q \in Seq(Commands), NEW S \in SUBSET Keys, y = [m EXCEPT !.queue = q, !.subs = S]
      PROVE  y \in Client /\ y.stopped = m.stopped /\ y.queue = q /\ y.subs = S
  BY <1>3 DEF Client
<1> QED
  BY <1>1, <1>2, <1>3

\* The types of slots and mux clients.
LEMMA Fields ==
    ASSUME Types, NEW s \in SlotIDs
    PROVE  /\ slot[s] \in Slot /\ slot[s].routes \in SUBSET Keys /\ slot[s].idleTimer \in 0..2
           /\ slot[s].stopping \in BOOLEAN /\ slot[s].connectCount \in Nat
           /\ mux[s] \in Client /\ mux[s].queue \in Seq(Commands) /\ mux[s].subs \in SUBSET Keys
           /\ mux[s].stopped \in BOOLEAN
<1>1. slot[s] \in Slot /\ mux[s] \in Client
  BY DEF Types
<1>2. /\ slot[s].routes \in SUBSET Keys /\ slot[s].idleTimer \in 0..2
      /\ slot[s].stopping \in BOOLEAN /\ slot[s].connectCount \in Nat
  BY <1>1 DEF Slot
<1>3. /\ mux[s].queue \in Seq(Commands) /\ mux[s].subs \in SUBSET Keys
      /\ mux[s].stopped \in BOOLEAN
  BY <1>1 DEF Client
<1> QED
  BY <1>1, <1>2, <1>3

\* A slot is idle timed, holds routes and is stopped as before.
SameSlots ==
    /\ slot' \in [SlotIDs -> Slot]
    /\ \A s \in SlotIDs : Alike(slot'[s], slot[s])

\* A mux client has the commands and subscriptions as before, or is stopped.
SameClients ==
    /\ mux' \in [SlotIDs -> Client]
    /\ \A s \in SlotIDs : mux[s].stopped => mux'[s].stopped
    /\ \A s \in SlotIDs : \/ mux'[s].queue = mux[s].queue /\ mux'[s].subs = mux[s].subs
                          \/ mux'[s].stopped /\ mux'[s].queue = <<>> /\ mux'[s].subs = {}

\* Slots that change: one.
OneSlot(s, x) ==
    /\ slot' \in [SlotIDs -> Slot] /\ slot'[s] = x
    /\ \A t \in SlotIDs : t # s => slot'[t] = slot[t]

OneClient(s, m) ==
    /\ mux' \in [SlotIDs -> Client] /\ mux'[s] = m
    /\ \A t \in SlotIDs : t # s => mux'[t] = mux[t]

\* An edit of a function at one slot.
LEMMA OneChanges ==
    ASSUME Types, NEW s \in SlotIDs
    PROVE  /\ \A x \in Slot : slot' = [slot EXCEPT ![s] = x] => OneSlot(s, x)
           /\ \A m \in Client : mux' = [mux EXCEPT ![s] = m] => OneClient(s, m)
BY DEF Types, OneSlot, OneClient

\* Nothing changes.
LEMMA NothingChanges ==
    ASSUME Types
    PROVE  (UNCHANGED slot => SameSlots) /\ (UNCHANGED mux => SameClients)
<1>1. UNCHANGED slot => SameSlots
  BY DEF Types, SameSlots, Alike
<1>2. UNCHANGED mux => SameClients
  BY DEF Types, SameClients
<1> QED
  BY <1>1, <1>2

\* What a call carries, by where it is.
LEMMA CallFields ==
    ASSUME Types, NEW c \in Callers
    PROVE  /\ call[c] \in Calls
           /\ call[c].pc \in {"idle", "acquire", "owner", "subscribe", "rollback",
                              "unsubscribe", "release", "returned"}
           /\ call[c].pc = "idle" <=> call[c] = Idle
           /\ call[c].pc \in {"acquire", "owner", "subscribe", "rollback", "unsubscribe",
                              "release"} => call[c].key \in Keys
           /\ call[c].pc \in {"subscribe", "rollback", "unsubscribe", "release"} =>
                 call[c].slot \in SlotIDs
           /\ call[c].pc = "subscribe" => call[c].existed \in BOOLEAN
           /\ call[c].pc = "returned" => call[c].ok \in BOOLEAN
<1>1. call[c] \in Calls
  BY DEF Types
<1> QED
  BY <1>1 DEF Calls, Idle

\* The calls that a step leaves a caller with.
LEMMA CallValues ==
    ASSUME NEW k \in Keys, NEW s \in SlotIDs, NEW b \in BOOLEAN
    PROVE  /\ Idle \in Calls
           /\ \A pc \in {"acquire", "owner"} : [pc |-> pc, key |-> k] \in Calls
           /\ [pc |-> "subscribe", key |-> k, slot |-> s, existed |-> b] \in Calls
           /\ \A pc \in {"rollback", "unsubscribe", "release"} :
                 [pc |-> pc, key |-> k, slot |-> s] \in Calls
BY DEF Calls

\* A call that has returned is a call.
LEMMA Returned ==
    ASSUME NEW b \in BOOLEAN
    PROVE  [pc |-> "returned", ok |-> b] \in Calls
BY DEF Calls

\* One call goes on.
OneCall(c, x) ==
    /\ call' \in [Callers -> Calls] /\ call'[c] = x
    /\ \A d \in Callers : d # c => call'[d] = call[d]

\* An edit of the calls at one caller.
LEMMA OneCalls ==
    ASSUME Types, NEW c \in Callers, NEW x \in Calls, call' = [call EXCEPT ![c] = x]
    PROVE  OneCall(c, x)
BY DEF Types, OneCall

-----------------------------------------------------------------------------
(* The kinds of steps, without the registry's and the mux's detail.         *)

RegistrySame == UNCHANGED <<closed, slots, routeOwners, nextID, toStop>> /\ SameSlots
ClientSame == UNCHANGED <<routes, nextSubscriberID, handles, task>>
MuxSame == UNCHANGED <<mux, faulty>>

\* Nothing but connections, timers and streams.
Quiet == RegistrySame /\ ClientSame /\ SameClients /\ UNCHANGED <<call, faulty>>

\* A call goes on, and that is all.
CallOnly(c) ==
    /\ RegistrySame /\ ClientSame /\ MuxSame
    /\ \E x \in Calls :
          /\ OneCall(c, x)
          /\ \/ call[c].pc = "acquire" /\ x = [pc |-> "returned", ok |-> FALSE]
             \/ call[c].pc = "owner" /\ closed /\ x = [pc |-> "returned", ok |-> FALSE]
             \/ /\ call[c].pc = "owner" /\ ~closed /\ routeOwners[call[c].key] # NoSlot
                /\ x = [pc |-> "unsubscribe", key |-> call[c].key,
                        slot |-> routeOwners[call[c].key]]
             \/ /\ call[c].pc = "subscribe"
                /\ x = [pc |-> "rollback", key |-> call[c].key, slot |-> call[c].slot]
             \/ call[c].pc = "unsubscribe" /\ x = [pc |-> "returned", ok |-> FALSE]
             \/ call[c].pc = "rollback" /\ closed /\ x = [pc |-> "returned", ok |-> FALSE]
             \/ call[c].pc = "release" /\ closed /\ x = [pc |-> "returned", ok |-> TRUE]

\* The mux of slot s handles command d of route k, which may fail, with n what it is
\* subscribed to afterwards.
HandledAs(s, d, k, n) ==
    /\ n \in SUBSET Keys
    /\ \A j \in Keys : j # k => (j \in n <=> j \in mux[s].subs)
    /\ \/ faulty' = faulty /\ (k \in n <=> d = "subscribe")
       \/ faulty' = faulty \union {<<s, k>>}

\* A caller gives its slot's mux a command, which queues it or handles it at once.
Tells(c, d) ==
    LET s == call[c].slot
        k == call[c].key
        onOk == IF d = "subscribe" THEN [pc |-> "returned", ok |-> TRUE]
                ELSE [pc |-> "release", key |-> k, slot |-> s]
        onError == IF d = "subscribe" THEN [pc |-> "rollback", key |-> k, slot |-> s]
                   ELSE [pc |-> "returned", ok |-> FALSE]
    IN  /\ RegistrySame /\ ClientSame /\ call[c].pc = d /\ ~mux[s].stopped
        /\ \/ /\ OneCall(c, onOk) /\ UNCHANGED faulty
              /\ OneClient(s, mux'[s]) /\ mux'[s].stopped = FALSE /\ mux'[s].subs = mux[s].subs
              /\ mux'[s].queue = Append(mux[s].queue, [kind |-> d, key |-> k])
           \/ /\ mux[s].queue = <<>>
              /\ OneClient(s, mux'[s]) /\ mux'[s].stopped = FALSE /\ mux'[s].queue = <<>>
              /\ HandledAs(s, d, k, mux'[s].subs)
              /\ \/ OneCall(c, onOk) /\ faulty' = faulty
                 \/ OneCall(c, onError) /\ <<s, k>> \in faulty'
                 \/ OneCall(c, onError) /\ d = "subscribe" /\ k \in mux[s].subs

\* The mux of a slot handles its next command.
Handles(s) ==
    /\ RegistrySame /\ ClientSame /\ UNCHANGED call
    /\ mux[s].queue # <<>> /\ ~mux[s].stopped
    /\ OneClient(s, mux'[s]) /\ mux'[s].stopped = FALSE /\ mux'[s].queue = Tail(mux[s].queue)
    /\ HandledAs(s, Head(mux[s].queue).kind, Head(mux[s].queue).key, mux'[s].subs)

\* start makes the primary slot.
OpensPrimary ==
    /\ ~closed /\ slots = <<>> /\ nextID \in SlotIDs
    /\ slots' = <<nextID>> /\ nextID' = nextID + 1
    /\ SameSlots /\ ClientSame /\ MuxSame /\ UNCHANGED <<closed, routeOwners, toStop, call>>

\* acquire places a route on a slot of the registry or on a new one.
Places(c) ==
    LET k == call[c].key
    IN  /\ call[c].pc = "acquire" /\ ~closed /\ routeOwners[k] = NoSlot
        /\ \E s \in SlotIDs :
              /\ OneCall(c, [pc |-> "subscribe", key |-> k, slot |-> s, existed |-> FALSE])
              /\ routeOwners' = [routeOwners EXCEPT ![k] = s]
              /\ \/ /\ InRegistry(s) /\ routeCount(s) < MaxRoutesPerSlot
                    /\ UNCHANGED <<slots, nextID>>
                 \/ /\ s = nextID /\ Len(slots) < MaxConnSlots
                    /\ slots' = Append(slots, s) /\ nextID' = nextID + 1
              /\ OneSlot(s, slot'[s]) /\ slot'[s].routes = slot[s].routes \union {k}
              /\ slot'[s].idleTimer = 0 /\ slot'[s].stopping = slot[s].stopping
        /\ ClientSame /\ MuxSame /\ UNCHANGED <<closed, toStop>>

\* rollback or release takes a route off its slot, which gets a timer when it is empty.
Drops(c) ==
    LET k == call[c].key
        s == call[c].slot
    IN  /\ call[c].pc \in {"rollback", "release"} /\ routeOwners[k] = s
        /\ OneCall(c, [pc |-> "returned", ok |-> call[c].pc = "release"])
        /\ routeOwners' = [routeOwners EXCEPT ![k] = NoSlot]
        /\ OneSlot(s, slot'[s]) /\ slot'[s].routes = slot[s].routes \ {k}
        /\ slot'[s].routes = {} => slot'[s].idleTimer # 0
        /\ slot'[s].stopping = slot[s].stopping
        /\ ClientSame /\ MuxSame /\ UNCHANGED <<closed, slots, nextID, toStop>>

\* A slot and its mux client are stopped.
Stops(s) ==
    /\ OneSlot(s, slot'[s]) /\ slot'[s].routes = slot[s].routes
    /\ slot'[s].idleTimer = 0 /\ slot'[s].stopping = TRUE
    /\ OneClient(s, mux'[s]) /\ mux'[s].stopped = TRUE
    /\ mux'[s].queue = <<>> /\ mux'[s].subs = {}
    /\ ClientSame /\ UNCHANGED <<closed, routeOwners, nextID, call, faulty>>

ClosesIdle(s) ==
    /\ ~closed /\ slot[s].routes = {} /\ slot[s].idleTimer # 0
    /\ slots' = removeSlotLocked(s)
    /\ Stops(s) /\ UNCHANGED toStop

StopsSlot(s) ==
    /\ s \in toStop /\ toStop' = toStop \ {s}
    /\ Stops(s) /\ UNCHANGED slots

Shuts ==
    /\ ~closed /\ closed' = TRUE
    /\ toStop' = {s \in SlotIDs : InRegistry(s)}
    /\ slots' = <<>> /\ routeOwners' = [k \in Keys |-> NoSlot]
    /\ SameSlots /\ ClientSame /\ MuxSame /\ UNCHANGED <<nextID, call>>

\* A caller of the client enters the service with the mutex held.
Enters(c) ==
    /\ RegistrySame /\ MuxSame /\ UNCHANGED <<routes, handles>>
    /\ task = NoTask
    /\ \E t \in Tasks :
          /\ task' = t /\ t.caller = c
          /\ OneCall(c, [pc |-> IF t.op = "first" THEN "acquire" ELSE "owner", key |-> t.key])
          /\ \/ /\ t.op = "first" /\ routes[t.key] = {} /\ t.id = nextSubscriberID + 1
                /\ t.id \in Ids /\ nextSubscriberID' = nextSubscriberID + 1
             \/ /\ t.op = "last" /\ routes[t.key] = {t.id} /\ UNCHANGED nextSubscriberID
             \/ /\ t.op = "close" /\ routes[t.key] # {} /\ UNCHANGED nextSubscriberID

\* A subscriber joins a route that is held, or leaves one that others hold.
Joins ==
    /\ RegistrySame /\ MuxSame /\ UNCHANGED <<call, task>>
    /\ task = NoTask
    /\ nextSubscriberID' = nextSubscriberID + 1 /\ nextSubscriberID' \in Ids
    /\ \E k \in Keys :
          /\ routes[k] # {}
          /\ routes' = [routes EXCEPT ![k] = @ \union {nextSubscriberID'}]
          /\ handles' = handles \union {[id |-> nextSubscriberID', key |-> k]}

Leaves ==
    /\ RegistrySame /\ MuxSame /\ UNCHANGED <<call, task, nextSubscriberID>>
    /\ task = NoTask /\ handles' \subseteq handles
    /\ \E k \in Keys, id \in Ids :
          /\ routes[k] # {id}
          /\ routes' = [routes EXCEPT ![k] = @ \ {id}]

\* The call into the service has returned.
Finishes(c) ==
    /\ RegistrySame /\ MuxSame /\ UNCHANGED nextSubscriberID
    /\ task # NoTask /\ task.caller = c /\ call[c].pc = "returned"
    /\ OneCall(c, Idle) /\ task' = NoTask
    /\ \/ call[c].ok /\ routes' = [routes EXCEPT ![task.key] = Remaining]
       \/ ~call[c].ok /\ UNCHANGED routes
    /\ handles' \subseteq handles \union {[id |-> task.id, key |-> task.key]}
    /\ task.op # "first" => handles' \subseteq handles

Kinds ==
    \/ Quiet
    \/ \E c \in Callers : CallOnly(c) \/ Tells(c, "subscribe") \/ Tells(c, "unsubscribe")
    \/ \E s \in SlotIDs : Handles(s) \/ ClosesIdle(s) \/ StopsSlot(s)
    \/ OpensPrimary \/ Shuts \/ Joins \/ Leaves
    \/ \E c \in Callers : Places(c) \/ Drops(c) \/ Enters(c) \/ Finishes(c)

\* An edit that leaves all slots alike, or all clients as they were.
LEMMA SlotsStay ==
    ASSUME Types, NEW s \in SlotIDs, NEW x \in Slot, Alike(x, slot[s]),
           slot' = [slot EXCEPT ![s] = x]
    PROVE  SameSlots
<1>1. OneSlot(s, x)
  BY OneChanges
<1>2. \A t \in SlotIDs : Alike(slot'[t], slot[t])
  BY <1>1 DEF OneSlot, Alike
<1> QED
  BY <1>1, <1>2 DEF OneSlot, SameSlots

\* An edit that keeps what a client was asked for, or stops it.
LEMMA ClientsStay ==
    ASSUME Types, NEW s \in SlotIDs, NEW y \in Client, mux' = [mux EXCEPT ![s] = y],
           \/ y.stopped = mux[s].stopped /\ y.queue = mux[s].queue /\ y.subs = mux[s].subs
           \/ y.stopped = TRUE /\ y.queue = <<>> /\ y.subs = {}
    PROVE  SameClients
<1>1. OneClient(s, y)
  BY OneChanges
<1>2. ASSUME NEW t \in SlotIDs
      PROVE  /\ mux[t].stopped => mux'[t].stopped
             /\ \/ mux'[t].queue = mux[t].queue /\ mux'[t].subs = mux[t].subs
                \/ mux'[t].stopped /\ mux'[t].queue = <<>> /\ mux'[t].subs = {}
  <2>1. CASE t = s
    BY <1>1, <2>1 DEF OneClient
  <2>2. CASE t # s
    BY <1>1, <2>2 DEF OneClient
  <2> QED
    BY <2>1, <2>2
<1> QED
  BY <1>1, <1>2 DEF OneClient, SameClients

\* Start of the client.
LEMMA StartIs ==
    ASSUME Types, NEW done, Start(done)
    PROVE  Quiet \/ OpensPrimary
<1>1. SameSlots
  <2>1. PICK In : In = {s \in SlotIDs : \E i \in DOMAIN slots' : slots'[i] = s}
    OBVIOUS
  <2>2. slot' = [s \in SlotIDs |-> IF s \in In THEN launchSlot(slot[s]) ELSE slot[s]]
    BY <2>1 DEF Start, startRegistry
  <2>3. ASSUME NEW s \in SlotIDs PROVE slot'[s] \in Slot /\ Alike(slot'[s], slot[s])
    <3>1. slot[s] \in Slot
      BY Fields
    <3>2. CASE s \in In
      <4>1. slot'[s] = launchSlot(slot[s])
        BY <2>2, <3>2
      <4> QED
        BY <3>1, <4>1, SlotEdits
    <3>3. CASE s \notin In
      BY <2>2, <3>1, <3>3 DEF Alike
    <3> QED
      BY <3>2, <3>3
  <2>4. slot' \in [SlotIDs -> Slot]
    BY <2>2, <2>3
  <2> QED
    BY <2>3, <2>4 DEF SameSlots
<1>2. ClientSame /\ MuxSame /\ UNCHANGED <<closed, routeOwners, toStop, call>> /\ ~closed
  BY DEF Start, startRegistry, clVars, ClientSame, MuxSame
<1>3. \/ slots = <<>> /\ nextID \in SlotIDs /\ slots' = <<nextID>> /\ nextID' = nextID + 1
      \/ UNCHANGED <<slots, nextID>>
  BY DEF Start, startRegistry
<1>4. SameClients
  BY <1>2, NothingChanges DEF MuxSame
<1> QED
  BY <1>1, <1>2, <1>3, <1>4 DEF OpensPrimary, Quiet, RegistrySame, MuxSame

\* The connections of a slot.
LEMMA ConnectionIs ==
    ASSUME Types, NEW s \in SlotIDs, UNCHANGED clVars,
           handleConnected(s) \/ connectionLost(s) \/ stopOnContextDone(s)
    PROVE  Quiet
<1>1. slot[s] \in Slot /\ mux[s] \in Client /\ slot[s].connectCount \in Nat
  BY Fields
<1>2. TRUE \in BOOLEAN /\ FALSE \in BOOLEAN
  OBVIOUS
<1>3. CASE handleConnected(s)
  <2>1. PICK n : n = slot[s].connectCount + 1
    OBVIOUS
  <2>2. n \in Nat
    BY <1>1, <2>1
  <2>3. PICK x : x = [slot[s] EXCEPT !.connectCount = n]
    OBVIOUS
  <2>4. x \in Slot /\ Alike(x, slot[s])
    BY <1>1, <2>2, <2>3, SlotEdits
  <2>5. slot' = [slot EXCEPT ![s] = x]
    BY <1>1, <1>3, <2>1, <2>3 DEF handleConnected, Types
  <2>6. PICK y : y = [mux[s] EXCEPT !.up = TRUE]
    OBVIOUS
  <2>7. y \in Client /\ y.stopped = mux[s].stopped /\ y.queue = mux[s].queue /\ y.subs = mux[s].subs
    <3>1. \A b \in BOOLEAN : y = [mux[s] EXCEPT !.up = b] =>
             y \in Client /\ y.stopped = mux[s].stopped /\ y.queue = mux[s].queue /\ y.subs = mux[s].subs
      BY <1>1, ClientEdits
    <3> QED
      BY <1>2, <2>6, <3>1
  <2>8. mux' = [mux EXCEPT ![s] = y]
    BY <1>3, <2>6 DEF handleConnected, Types
  <2>9. SameSlots /\ SameClients
    BY <2>4, <2>5, <2>7, <2>8, SlotsStay, ClientsStay
  <2> QED
    BY <1>3, <2>9 DEF handleConnected, clVars, Quiet, RegistrySame, ClientSame
<1>4. CASE connectionLost(s)
  <2>1. PICK y : y = [mux[s] EXCEPT !.up = FALSE]
    OBVIOUS
  <2>2. y \in Client /\ y.stopped = mux[s].stopped /\ y.queue = mux[s].queue /\ y.subs = mux[s].subs
    <3>1. \A b \in BOOLEAN : y = [mux[s] EXCEPT !.up = b] =>
             y \in Client /\ y.stopped = mux[s].stopped /\ y.queue = mux[s].queue /\ y.subs = mux[s].subs
      BY <1>1, ClientEdits
    <3> QED
      BY <1>2, <2>1, <3>1
  <2>3. mux' = [mux EXCEPT ![s] = y]
    BY <1>4, <2>1 DEF connectionLost, Types
  <2>4. SameSlots /\ SameClients
    BY <1>4, <2>2, <2>3, NothingChanges, ClientsStay DEF connectionLost
  <2> QED
    BY <1>4, <2>4 DEF connectionLost, clVars, Quiet, RegistrySame, ClientSame
<1>5. CASE stopOnContextDone(s)
  <2>1. PICK y : y = stopClient(mux[s])
    OBVIOUS
  <2>2. y \in Client /\ y.stopped = TRUE /\ y.queue = <<>> /\ y.subs = {}
    BY <1>1, <2>1, ClientEdits
  <2>3. mux' = [mux EXCEPT ![s] = y]
    BY <1>5, <2>1 DEF stopOnContextDone, Types
  <2>4. SameSlots /\ SameClients
    BY <1>5, <2>2, <2>3, NothingChanges, ClientsStay DEF stopOnContextDone
  <2> QED
    BY <1>5, <2>4 DEF stopOnContextDone, clVars, Quiet, RegistrySame, ClientSame
<1> QED
  BY <1>3, <1>4, <1>5

\* The steps that leave the slots and their clients alone.
LEMMA AsideIs ==
    ASSUME Types,
           \/ cancel /\ UNCHANGED clVars
           \/ \E s \in SlotIDs : idleTimerFires(s) /\ UNCHANGED clVars
           \/ \E r \in readers : Reader(r) /\ UNCHANGED clVars
           \/ dispatch
           \/ \E id \in Ids : receive(id)
    PROVE  Quiet
<1>1. /\ UNCHANGED <<closed, slots, routeOwners, nextID, slot, mux, toStop, call, faulty>>
      /\ UNCHANGED <<routes, nextSubscriberID, handles, task>>
  BY DEF cancel, idleTimerFires, Reader, readMessage, handleReadFailure, dispatch, receive, clVars
<1>2. SameSlots /\ SameClients
  BY <1>1, NothingChanges
<1> QED
  BY <1>1, <1>2 DEF Quiet, RegistrySame, ClientSame

\* An idle timer that got the lock.
LEMMA CloseIdleIs ==
    ASSUME Types, NEW f \in fired, closeIdleSlot(f), UNCHANGED clVars
    PROVE  Quiet \/ ClosesIdle(f.slot)
<1>1. f.slot \in SlotIDs /\ f.timer # 0
  BY DEF Types, Timers
<1>2. CASE UNCHANGED <<slot, mux, slots>>
  <2>1. SameSlots /\ SameClients
    BY <1>2, NothingChanges
  <2> QED
    BY <1>2, <2>1 DEF closeIdleSlot, clVars, Quiet, RegistrySame, ClientSame
<1>3. CASE ~ UNCHANGED <<slot, mux, slots>>
  <2>1. PICK s : s = f.slot
    OBVIOUS
  <2>2. ~closed /\ slot[s].idleTimer # 0 /\ slot[s].routes = {}
    BY <1>1, <1>3, <2>1 DEF closeIdleSlot
  <2>3. /\ slot' = [slot EXCEPT ![s] = stopped(slot[s])] /\ mux' = [mux EXCEPT ![s] = stopClient(mux[s])]
        /\ slots' = removeSlotLocked(s)
    BY <1>1, <1>3, <2>1 DEF closeIdleSlot, Types
  <2>4. PICK x : x = stopped(slot[s])
    OBVIOUS
  <2>5. PICK y : y = stopClient(mux[s])
    OBVIOUS
  <2>6. x \in Slot /\ x.routes = slot[s].routes /\ x.idleTimer = 0 /\ x.stopping = TRUE
    <3>1. slot[s] \in Slot
      BY <1>1, <2>1, Fields
    <3> QED
      BY <2>4, <3>1, SlotEdits
  <2>7. y \in Client /\ y.stopped = TRUE /\ y.queue = <<>> /\ y.subs = {}
    <3>1. mux[s] \in Client
      BY <1>1, <2>1, Fields
    <3> QED
      BY <2>5, <3>1, ClientEdits
  <2>8. OneSlot(s, x) /\ OneClient(s, y)
    BY <1>1, <2>1, <2>3, <2>4, <2>5, <2>6, <2>7, OneChanges
  <2>9. slot'[s] = x /\ mux'[s] = y
    BY <2>8 DEF OneSlot, OneClient
  <2>10. /\ UNCHANGED <<closed, routeOwners, nextID, toStop, call, faulty>>
         /\ UNCHANGED <<routes, nextSubscriberID, handles, task>>
    BY DEF closeIdleSlot, clVars
  <2>11. Stops(s)
    BY <2>6, <2>7, <2>8, <2>9, <2>10 DEF Stops, ClientSame
  <2> QED
    BY <2>1, <2>2, <2>3, <2>10, <2>11 DEF ClosesIdle
<1> QED
  BY <1>2, <1>3

\* Shutdown, and a slot that it stops.
LEMMA ShutdownIs ==
    ASSUME Types, UNCHANGED clVars
    PROVE  (shutdown => Shuts) /\ \A s \in SlotIDs : stopSlot(s) => StopsSlot(s)
<1>1. ASSUME shutdown PROVE Shuts
  <2>1. SameSlots
    BY <1>1, NothingChanges DEF shutdown
  <2> QED
    BY <1>1, <2>1 DEF shutdown, clVars, Shuts, ClientSame, MuxSame
<1>2. ASSUME NEW s \in SlotIDs, stopSlot(s) PROVE StopsSlot(s)
  <2>3. slot' = [slot EXCEPT ![s] = stopped(slot[s])] /\ mux' = [mux EXCEPT ![s] = stopClient(mux[s])]
    BY <1>2 DEF stopSlot, Types
  <2>4. PICK x : x = stopped(slot[s])
    OBVIOUS
  <2>5. PICK y : y = stopClient(mux[s])
    OBVIOUS
  <2>6. x \in Slot /\ x.routes = slot[s].routes /\ x.idleTimer = 0 /\ x.stopping = TRUE
    BY <2>4, Fields, SlotEdits
  <2>7. y \in Client /\ y.stopped = TRUE /\ y.queue = <<>> /\ y.subs = {}
    BY <2>5, Fields, ClientEdits
  <2>8. OneSlot(s, x) /\ OneClient(s, y)
    BY <2>3, <2>4, <2>5, <2>6, <2>7, OneChanges
  <2>9. slot'[s] = x /\ mux'[s] = y
    BY <2>8 DEF OneSlot, OneClient
  <2>10. /\ UNCHANGED <<closed, routeOwners, nextID, slots, call, faulty>>
         /\ UNCHANGED <<routes, nextSubscriberID, handles, task>>
    BY <1>2 DEF stopSlot, clVars
  <2>11. Stops(s)
    BY <2>6, <2>7, <2>8, <2>9, <2>10 DEF Stops, ClientSame
  <2> QED
    BY <1>2, <2>10, <2>11 DEF stopSlot, StopsSlot
<1> QED
  BY <1>1, <1>2

\* acquire takes a slot's timer away and adds the route.
LEMMA AcquireEdit ==
    ASSUME NEW x \in Slot, NEW k \in Keys, NEW y,
           \/ y = addRoute(cancelIdleTimer(x), k)
           \/ y = launchSlot(addRoute(cancelIdleTimer(x), k))
    PROVE  /\ y \in Slot /\ y.routes = x.routes \union {k}
           /\ y.idleTimer = 0 /\ y.stopping = x.stopping
<1>1. PICK w : w = cancelIdleTimer(x)
  OBVIOUS
<1>2. w \in Slot /\ w.routes = x.routes /\ w.idleTimer = 0 /\ w.stopping = x.stopping
  BY <1>1, SlotEdits
<1>3. PICK z : z = addRoute(w, k)
  OBVIOUS
<1>4. /\ z \in Slot /\ z.routes = x.routes \union {k}
      /\ z.idleTimer = 0 /\ z.stopping = x.stopping
  BY <1>2, <1>3, RouteEdits
<1>5. y = z \/ y = launchSlot(z)
  BY <1>1, <1>3
<1>6. CASE y = launchSlot(z)
  BY <1>4, <1>6, SlotEdits DEF Alike
<1> QED
  BY <1>4, <1>5, <1>6

\* acquire refuses a route or places it.
LEMMA AcquireIs ==
    ASSUME Types, SlotsInv, LimitInv, CallInv, NEW c \in Callers, acquire(c), UNCHANGED clVars
    PROVE  CallOnly(c) \/ Places(c)
<1>1. PICK k : k = call[c].key
  OBVIOUS
<1>2. PICK s : s = IF routeOwners[k] # NoSlot THEN routeOwners[k] ELSE selectSlotLocked
  OBVIOUS
<1>3. call[c].pc = "acquire" /\ k \in Keys /\ ClientSame /\ MuxSame /\ UNCHANGED <<closed, toStop>>
  BY <1>1, CallFields DEF acquire, clVars, ClientSame, MuxSame
<1>4. CASE closed \/ s = NoSlot
  <2>1. /\ call' = [call EXCEPT ![c] = [pc |-> "returned", ok |-> FALSE]]
        /\ UNCHANGED <<slots, nextID, slot, routeOwners>>
    BY <1>1, <1>2, <1>4 DEF acquire
  <2>2. PICK x : x = [pc |-> "returned", ok |-> FALSE]
    OBVIOUS
  <2>3. x \in Calls /\ OneCall(c, x)
    BY <2>1, <2>2, Returned, OneCalls
  <2>4. RegistrySame
    BY <1>3, <2>1, NothingChanges DEF RegistrySame
  <2> QED
    BY <1>3, <2>2, <2>3, <2>4 DEF CallOnly
<1>5. CASE ~(closed \/ s = NoSlot)
  <2>1. call[c] # Idle
    BY <1>3 DEF Idle
  <2>2. routeOwners[k] = NoSlot
    BY <1>1, <1>3, <1>5, <2>1 DEF CallInv
  <2>3. s = selectSlotLocked /\ s # NoSlot
    BY <1>2, <1>5, <2>2
  <2>4. /\ s \in SlotIDs
        /\ call' = [call EXCEPT ![c] = [pc |-> "subscribe", key |-> k, slot |-> s,
                                        existed |-> routeOwners[k] # NoSlot]]
        /\ routeOwners' = [routeOwners EXCEPT ![k] = s]
        /\ slots' = IF s = nextID THEN Append(slots, s) ELSE slots
        /\ nextID' = IF s = nextID THEN nextID + 1 ELSE nextID
    BY <1>1, <1>2, <1>5 DEF acquire
  <2>5. slot' = [slot EXCEPT ![s] =
                   LET sl == addRoute(cancelIdleTimer(@), k)
                   IN  IF s = nextID /\ started THEN launchSlot(sl) ELSE sl]
    BY <1>1, <1>2, <1>5, <2>2 DEF acquire
  <2>6. PICK sl : sl = addRoute(cancelIdleTimer(slot[s]), k)
    OBVIOUS
  <2>7. PICK x : x = IF s = nextID /\ started THEN launchSlot(sl) ELSE sl
    OBVIOUS
  <2>8. slot' = [slot EXCEPT ![s] = x]
    BY <2>5, <2>6, <2>7
  <2>10. slot[s] \in Slot
    BY <2>4, Fields
  <2>11. /\ x \in Slot /\ x.routes = slot[s].routes \union {k}
         /\ x.idleTimer = 0 /\ x.stopping = slot[s].stopping
    <3>1. \/ x = addRoute(cancelIdleTimer(slot[s]), k)
          \/ x = launchSlot(addRoute(cancelIdleTimer(slot[s]), k))
      BY <2>6, <2>7
    <3> QED
      BY <1>3, <2>10, <3>1, AcquireEdit
  <2>12. OneSlot(s, x) /\ slot'[s] = x
    BY <2>4, <2>8, <2>11, OneChanges DEF OneSlot
  <2>13. PICK y : y = [pc |-> "subscribe", key |-> k, slot |-> s, existed |-> FALSE]
    OBVIOUS
  <2>14. y \in Calls
    <3>1. FALSE \in BOOLEAN
      OBVIOUS
    <3> QED
      BY <1>3, <2>4, <2>13, <3>1, CallValues
  <2>15. call' = [call EXCEPT ![c] = y]
    <3>1. (routeOwners[k] # NoSlot) = FALSE
      BY <2>2
    <3> QED
      BY <2>4, <2>13, <3>1
  <2>16. OneCall(c, y)
    BY <2>14, <2>15, OneCalls
  <2>17. \/ InRegistry(s) /\ routeCount(s) < MaxRoutesPerSlot /\ UNCHANGED <<slots, nextID>>
         \/ /\ s = nextID /\ Len(slots) < MaxConnSlots
            /\ slots' = Append(slots, s) /\ nextID' = nextID + 1
    <3>1. CASE InRegistry(s) /\ routeCount(s) < MaxRoutesPerSlot
      <4>1. s # nextID
        <5>1. PICK i \in DOMAIN slots : slots[i] = s
          BY <3>1 DEF InRegistry
        <5>2. s < nextID
          BY <5>1 DEF SlotsInv
        <5> QED
          BY <5>2, SlotsType
      <4> QED
        BY <2>4, <3>1, <4>1
    <3>2. CASE s = nextID /\ Len(slots) < MaxConnSlots
      BY <2>4, <3>2
    <3> QED
      BY <2>3, <3>1, <3>2, SlotSelected
  <2> QED
    BY <1>1, <1>3, <1>5, <2>2, <2>4, <2>11, <2>12, <2>13, <2>16, <2>17 DEF Places
<1> QED
  BY <1>4, <1>5

\* A timer of a slot that is not waiting for the lock.
LEMMA FreshTimer ==
    ASSUME Types, TimerInv, NEW s \in SlotIDs
    PROVE  Fresh(s) \in Timers /\ Fresh(s) # 0 /\ Fresh(s) \in 0..2
<1>1. \E t \in Timers : [slot |-> s, timer |-> t] \notin fired
  <2>1. SUFFICES ASSUME \A t \in Timers : [slot |-> s, timer |-> t] \in fired PROVE FALSE
    OBVIOUS
  <2>2. 1 \in Timers /\ 2 \in Timers
    BY DEF Timers
  <2>3. [slot |-> s, timer |-> 1] \in fired /\ [slot |-> s, timer |-> 2] \in fired
    BY <2>1, <2>2
  <2>4. PICK f : f = [slot |-> s, timer |-> 1]
    OBVIOUS
  <2>5. PICK g : g = [slot |-> s, timer |-> 2]
    OBVIOUS
  <2>6. f \in fired /\ g \in fired /\ f.slot = g.slot /\ f.timer = 1 /\ g.timer = 2
    BY <2>3, <2>4, <2>5
  <2>7. f = g
    BY <2>6 DEF TimerInv
  <2> QED
    BY <2>6, <2>7
<1>2. Fresh(s) \in Timers
  BY <1>1 DEF Fresh
<1> QED
  BY <1>2 DEF Timers

\* rollback and release.
LEMMA DropIs ==
    ASSUME Types, TimerInv, CallInv, NEW c \in Callers, rollback(c) \/ release(c), UNCHANGED clVars
    PROVE  CallOnly(c) \/ Drops(c)
<1>1. PICK k, s : k = call[c].key /\ s = call[c].slot
  OBVIOUS
<1>2. call[c].pc \in {"rollback", "release"} /\ k \in Keys /\ s \in SlotIDs
  BY <1>1, CallFields DEF rollback, release
<1>3. ClientSame /\ MuxSame /\ UNCHANGED <<closed, slots, nextID, toStop>> /\ dropRoute(k, s)
  BY <1>1 DEF rollback, release, clVars, ClientSame, MuxSame
<1>4. PICK b : b = (call[c].pc = "release")
  OBVIOUS
<1>5. PICK x : x = [pc |-> "returned", ok |-> b]
  OBVIOUS
<1>6. x \in Calls
  <2>1. b \in BOOLEAN
    BY <1>4
  <2> QED
    BY <1>5, <2>1, Returned
<1>7. OneCall(c, x)
  <2>1. CASE rollback(c)
    <3>1. b = FALSE
      BY <1>4, <2>1 DEF rollback
    <3>2. call' = [call EXCEPT ![c] = x]
      BY <1>5, <2>1, <3>1 DEF rollback
    <3> QED
      BY <1>6, <3>2, OneCalls
  <2>2. CASE release(c)
    <3>1. b = TRUE
      BY <1>4, <2>2 DEF release
    <3>2. call' = [call EXCEPT ![c] = x]
      BY <1>5, <2>2, <3>1 DEF release
    <3> QED
      BY <1>6, <3>2, OneCalls
  <2> QED
    BY <2>1, <2>2
<1>8. CASE routeOwners[k] # s
  <2>1. UNCHANGED <<routeOwners, slot>>
    BY <1>3, <1>8 DEF dropRoute
  <2>2. RegistrySame
    BY <1>3, <2>1, NothingChanges DEF RegistrySame
  <2>3. closed
    <3>1. call[c] # Idle
      BY <1>2 DEF Idle
    <3>2. call[c].key = task.key /\ (closed \/ routeOwners[task.key] = call[c].slot)
      BY <1>2, <3>1 DEF CallInv
    <3> QED
      BY <1>1, <1>8, <3>2
  <2>4. CASE call[c].pc = "rollback"
    <3>1. x = [pc |-> "returned", ok |-> FALSE]
      BY <1>4, <1>5, <2>4
    <3> QED
      BY <1>3, <1>6, <1>7, <2>2, <2>3, <2>4, <3>1 DEF CallOnly
  <2>5. CASE call[c].pc = "release"
    <3>1. x = [pc |-> "returned", ok |-> TRUE]
      BY <1>4, <1>5, <2>5
    <3> QED
      BY <1>3, <1>6, <1>7, <2>2, <2>3, <2>5, <3>1 DEF CallOnly
  <2> QED
    BY <1>2, <2>4, <2>5
<1>9. CASE routeOwners[k] = s
  <2>1. /\ routeOwners' = [routeOwners EXCEPT ![k] = NoSlot]
        /\ slot' = [slot EXCEPT ![s] =
                      markSlotIdleLocked(removeRoute(@, k), s)]
    BY <1>3, <1>9 DEF dropRoute
  <2>2. slot[s] \in Slot
    BY <1>2, Fields
  <2>3. PICK r : r = slot[s].routes \ {k}
    OBVIOUS
  <2>5. PICK y : y = removeRoute(slot[s], k)
    OBVIOUS
  <2>6. y \in Slot /\ y.routes = r /\ y.stopping = slot[s].stopping
    BY <1>2, <2>2, <2>3, <2>5, RouteEdits
  <2>7. PICK z : z = markSlotIdleLocked(y, s)
    OBVIOUS
  <2>8. slot' = [slot EXCEPT ![s] = z]
    BY <2>1, <2>5, <2>7
  <2>9. z \in Slot /\ z.routes = r /\ z.stopping = slot[s].stopping /\ (r = {} => z.idleTimer # 0)
    <3>1. PICK t : t = Fresh(s)
      OBVIOUS
    <3>2. t \in 0..2 /\ t # 0
      BY <1>2, <3>1, FreshTimer
    <3>3. z = IF r # {} THEN y ELSE [y EXCEPT !.idleTimer = t]
      BY <2>6, <2>7, <3>1 DEF markSlotIdleLocked
    <3>4. CASE r # {}
      BY <2>6, <3>3, <3>4
    <3>5. CASE r = {}
      BY <2>6, <3>2, <3>3, <3>5 DEF Slot
    <3> QED
      BY <3>4, <3>5
  <2>10. OneSlot(s, z) /\ slot'[s] = z
    BY <1>2, <2>8, <2>9, OneChanges DEF OneSlot
  <2> QED
    BY <1>1, <1>2, <1>3, <1>4, <1>5, <1>7, <1>9, <2>1, <2>3, <2>9, <2>10 DEF Drops
<1> QED
  BY <1>8, <1>9

\* owner.
LEMMA OwnerIs ==
    ASSUME Types, CallInv, NEW c \in Callers, owner(c), UNCHANGED clVars
    PROVE  CallOnly(c)
<1>1. PICK k : k = call[c].key
  OBVIOUS
<1>2. call[c].pc = "owner" /\ k \in Keys
  BY <1>1, CallFields DEF owner
<1>3. ClientSame /\ MuxSame /\ RegistrySame
  BY NothingChanges DEF owner, clVars, ClientSame, MuxSame, RegistrySame
<1>4. CASE closed
  <2>1. PICK x : x = [pc |-> "returned", ok |-> FALSE]
    OBVIOUS
  <2>2. call' = [call EXCEPT ![c] = x]
    BY <1>4, <2>1 DEF owner
  <2>3. x \in Calls /\ OneCall(c, x)
    BY <2>1, <2>2, Returned, OneCalls
  <2> QED
    BY <1>2, <1>3, <1>4, <2>1, <2>3 DEF CallOnly
<1>5. CASE ~closed
  <2>1. call[c] # Idle
    BY <1>2 DEF Idle
  <2>2. routeOwners[k] # NoSlot
    BY <1>1, <1>2, <1>5, <2>1 DEF CallInv
  <2>3. PICK s : s = routeOwners[k]
    OBVIOUS
  <2>4. s \in SlotIDs
    BY <1>2, <2>2, <2>3 DEF Types
  <2>5. PICK x : x = [pc |-> "unsubscribe", key |-> k, slot |-> s]
    OBVIOUS
  <2>6. call' = [call EXCEPT ![c] = x]
    BY <1>1, <1>5, <2>2, <2>3, <2>5 DEF owner
  <2>7. x \in Calls
    BY <1>2, <2>4, <2>5, CallValues
  <2>8. OneCall(c, x)
    BY <2>6, <2>7, OneCalls
  <2> QED
    BY <1>1, <1>2, <1>3, <1>5, <2>2, <2>3, <2>5, <2>7, <2>8 DEF CallOnly
<1> QED
  BY <1>4, <1>5

\* One command handled.
LEMMA HandledIs ==
    ASSUME Types, NEW s \in SlotIDs, NEW o \in Commands, NEW outcome \in Outcomes, NEW n,
           n = handled(mux[s].subs, o, outcome),
           faulty' = IF outcome = "ok" THEN faulty ELSE faulty \union {<<s, o.key>>}
    PROVE  HandledAs(s, o.kind, o.key, n)
<1>1. mux[s].subs \in SUBSET Keys
  BY Fields
<1>2. PICK S : S = mux[s].subs
  OBVIOUS
<1>3. o.key \in Keys /\ o.kind \in {"subscribe", "unsubscribe"}
  BY DEF Commands
<1>4. /\ n \in SUBSET Keys
      /\ \A j \in Keys : j # o.key => (j \in n <=> j \in S)
      /\ outcome = "ok" => (o.key \in n <=> o.kind = "subscribe")
  <2>1. CASE outcome = "dropped"
    <3>1. n = S
      BY <1>2, <2>1 DEF handled
    <3>2. outcome # "ok"
      BY <2>1
    <3> QED
      BY <1>1, <1>2, <3>1, <3>2
  <2>2. CASE outcome # "dropped" /\ o.kind = "subscribe"
    BY <1>1, <1>2, <1>3, <2>2 DEF handled
  <2>3. CASE outcome # "dropped" /\ o.kind # "subscribe"
    BY <1>1, <1>2, <1>3, <2>3 DEF handled
  <2> QED
    BY <2>1, <2>2, <2>3
<1> QED
  BY <1>2, <1>4 DEF HandledAs

\* The commands queued.
LEMMA QueueEdits ==
    ASSUME NEW q \in Seq(Commands)
    PROVE  /\ q # <<>> => Head(q) \in Commands /\ Tail(q) \in Seq(Commands)
           /\ \A o \in Commands : Append(q, o) \in Seq(Commands)
  OBVIOUS

\* The mux handles its next command.
LEMMA MuxHandleIs ==
    ASSUME Types, NEW s \in SlotIDs, muxHandle(s), UNCHANGED clVars
    PROVE  Handles(s)
<1>1. PICK o : o = Head(mux[s].queue)
  OBVIOUS
<1>2. PICK q : q = Tail(mux[s].queue)
  OBVIOUS
<1>3. mux[s] \in Client /\ mux[s].queue \in Seq(Commands) /\ mux[s].stopped \in BOOLEAN
  BY Fields
<1>4. mux[s].queue # <<>> /\ ~mux[s].stopped
  BY DEF muxHandle
<1>5. o \in Commands /\ q \in Seq(Commands)
  BY <1>1, <1>2, <1>3, <1>4, QueueEdits
<1>6. PICK outcome \in OutcomesOf(mux[s], o) :
          /\ mux' = [mux EXCEPT ![s].queue = Tail(@), ![s].subs = handled(@, o, outcome)]
          /\ faulty' = IF outcome = "ok" THEN faulty ELSE faulty \union {<<s, o.key>>}
  BY <1>1 DEF muxHandle
<1>7. outcome \in Outcomes
  <2>1. outcome \in Outcomes \/ outcome \in {"ok"}
    BY <1>6 DEF OutcomesOf
  <2> QED
    BY <2>1 DEF Outcomes
<1>8. PICK n : n = handled(mux[s].subs, o, outcome)
  OBVIOUS
<1>9. HandledAs(s, o.kind, o.key, n)
  BY <1>5, <1>6, <1>7, <1>8, HandledIs
<1>10. n \in SUBSET Keys
  BY <1>9 DEF HandledAs
<1>11. PICK y : y = [mux[s] EXCEPT !.queue = q, !.subs = n]
  OBVIOUS
<1>12. y \in Client /\ y.stopped = mux[s].stopped /\ y.queue = q /\ y.subs = n
  BY <1>3, <1>5, <1>10, <1>11 DEF Client
<1>13. mux' = [mux EXCEPT ![s] = y]
  BY <1>2, <1>3, <1>6, <1>8, <1>11 DEF Types, Client
<1>14. OneClient(s, y) /\ mux'[s] = y
  BY <1>12, <1>13, OneChanges DEF OneClient
<1>15. ClientSame /\ RegistrySame /\ UNCHANGED call
  BY NothingChanges DEF muxHandle, clVars, ClientSame, RegistrySame
<1>16. mux'[s].stopped = FALSE
  BY <1>3, <1>4, <1>12, <1>14
<1> QED
  BY <1>1, <1>2, <1>4, <1>9, <1>12, <1>14, <1>15, <1>16 DEF Handles

\* A command given to a slot's mux.
LEMMA CommandIs ==
    ASSUME Types, NEW c \in Callers, NEW d \in {"subscribe", "unsubscribe"}, call[c].pc = d,
           NEW onOk, NEW onError,
           onOk = IF d = "subscribe" THEN [pc |-> "returned", ok |-> TRUE]
                  ELSE [pc |-> "release", key |-> call[c].key, slot |-> call[c].slot],
           onError = IF d = "subscribe"
                     THEN [pc |-> "rollback", key |-> call[c].key, slot |-> call[c].slot]
                     ELSE [pc |-> "returned", ok |-> FALSE],
           command(c, d, onOk, onError), RegistrySame, ClientSame
    PROVE  CallOnly(c) \/ Tells(c, d)
<1>1. PICK k, s : k = call[c].key /\ s = call[c].slot
  OBVIOUS
<1>2. k \in Keys /\ s \in SlotIDs
  BY <1>1, CallFields
<1>3. onOk \in Calls /\ onError \in Calls
  <2>1. TRUE \in BOOLEAN /\ FALSE \in BOOLEAN
    OBVIOUS
  <2> QED
    BY <1>1, <1>2, <2>1, CallValues, Returned
<1>4. PICK o : o = [kind |-> d, key |-> k]
  OBVIOUS
<1>5. o \in Commands /\ o.kind = d /\ o.key = k
  BY <1>2, <1>4 DEF Commands
<1>6. /\ mux[s] \in Client /\ mux[s].queue \in Seq(Commands) /\ mux[s].stopped \in BOOLEAN
      /\ mux[s].subs \in SUBSET Keys
  BY <1>2, Fields
<1>7. CASE call' = [call EXCEPT ![c] = onError] /\ UNCHANGED <<mux, faulty>>
  <2>1. OneCall(c, onError)
    BY <1>3, <1>7, OneCalls
  <2> QED
    BY <1>1, <1>3, <1>7, <2>1 DEF CallOnly, MuxSame
<1>8. CASE /\ ~mux[s].stopped
           /\ mux' = [mux EXCEPT ![s].queue = Append(@, o)]
           /\ call' = [call EXCEPT ![c] = onOk]
           /\ UNCHANGED faulty
  <2>1. PICK q : q = Append(mux[s].queue, o)
    OBVIOUS
  <2>2. q \in Seq(Commands)
    BY <1>5, <1>6, <2>1, QueueEdits
  <2>3. PICK y : y = [mux[s] EXCEPT !.queue = q]
    OBVIOUS
  <2>4. y \in Client /\ y.stopped = mux[s].stopped /\ y.queue = q /\ y.subs = mux[s].subs
    BY <1>6, <2>2, <2>3 DEF Client
  <2>5. mux' = [mux EXCEPT ![s] = y]
    BY <1>6, <1>8, <2>1, <2>3 DEF Types, Client
  <2>6. OneClient(s, y) /\ mux'[s] = y
    BY <1>2, <2>4, <2>5, OneChanges DEF OneClient
  <2>7. mux'[s].stopped = FALSE
    BY <1>6, <1>8, <2>4, <2>6
  <2>8. OneCall(c, onOk)
    BY <1>3, <1>8, OneCalls
  <2> QED
    BY <1>1, <1>4, <1>8, <2>1, <2>4, <2>6, <2>7, <2>8 DEF Tells
<1>9. CASE /\ ~mux[s].stopped /\ mux[s].queue = <<>>
           /\ \E outcome \in OutcomesOf(mux[s], o) :
                 /\ mux' = [mux EXCEPT ![s].subs = handled(@, o, outcome)]
                 /\ call' = [call EXCEPT ![c] =
                      IF outcome = "ok" /\ ~(d = "subscribe" /\ o.key \in mux[s].subs)
                      THEN onOk ELSE onError]
                 /\ faulty' = IF outcome = "ok" THEN faulty ELSE faulty \union {<<s, o.key>>}
  <2>1. PICK outcome \in OutcomesOf(mux[s], o) :
                 /\ mux' = [mux EXCEPT ![s].subs = handled(@, o, outcome)]
                 /\ call' = [call EXCEPT ![c] =
                      IF outcome = "ok" /\ ~(d = "subscribe" /\ o.key \in mux[s].subs)
                      THEN onOk ELSE onError]
                 /\ faulty' = IF outcome = "ok" THEN faulty ELSE faulty \union {<<s, o.key>>}
    BY <1>9
  <2>2. outcome \in Outcomes
    <3>1. outcome \in Outcomes \/ outcome \in {"ok"}
      BY <2>1 DEF OutcomesOf
    <3> QED
      BY <3>1 DEF Outcomes
  <2>3. PICK n : n = handled(mux[s].subs, o, outcome)
    OBVIOUS
  <2>4. HandledAs(s, d, k, n)
    BY <1>2, <1>5, <2>1, <2>2, <2>3, HandledIs
  <2>5. n \in SUBSET Keys
    BY <2>4 DEF HandledAs
  <2>6. PICK y : y = [mux[s] EXCEPT !.subs = n]
    OBVIOUS
  <2>7. y \in Client /\ y.stopped = mux[s].stopped /\ y.queue = mux[s].queue /\ y.subs = n
    BY <1>6, <2>5, <2>6 DEF Client
  <2>8. mux' = [mux EXCEPT ![s] = y]
    BY <1>6, <2>1, <2>3, <2>6 DEF Types, Client
  <2>9. OneClient(s, y) /\ mux'[s] = y
    BY <1>2, <2>7, <2>8, OneChanges DEF OneClient
  <2>10. mux'[s].stopped = FALSE /\ mux'[s].queue = <<>>
    BY <1>6, <1>9, <2>7, <2>9
  <2>11. \/ OneCall(c, onOk) /\ faulty' = faulty
         \/ OneCall(c, onError) /\ <<s, k>> \in faulty'
         \/ OneCall(c, onError) /\ d = "subscribe" /\ k \in mux[s].subs
    <3>1. CASE outcome = "ok" /\ ~(d = "subscribe" /\ k \in mux[s].subs)
      <4>1. call' = [call EXCEPT ![c] = onOk] /\ faulty' = faulty
        BY <1>5, <2>1, <3>1
      <4> QED
        BY <1>3, <4>1, OneCalls
    <3>2. CASE outcome # "ok"
      <4>1. call' = [call EXCEPT ![c] = onError] /\ <<s, k>> \in faulty'
        BY <1>5, <2>1, <3>2
      <4> QED
        BY <1>3, <4>1, OneCalls
    <3>3. CASE d = "subscribe" /\ k \in mux[s].subs
      <4>1. call' = [call EXCEPT ![c] = onError]
        BY <1>5, <2>1, <3>3
      <4> QED
        BY <1>3, <3>3, <4>1, OneCalls
    <3> QED
      BY <3>1, <3>2, <3>3
  <2> QED
    BY <1>1, <1>9, <2>4, <2>7, <2>9, <2>10, <2>11 DEF Tells
<1> QED
  BY <1>1, <1>4, <1>7, <1>8, <1>9 DEF command

\* The commands of a caller.
LEMMA TellIs ==
    ASSUME Types, CallInv, NEW c \in Callers, subscribe(c) \/ unsubscribe(c), UNCHANGED clVars
    PROVE  CallOnly(c) \/ Tells(c, "subscribe") \/ Tells(c, "unsubscribe")
<1>1. ClientSame /\ RegistrySame
  BY NothingChanges DEF subscribe, unsubscribe, clVars, ClientSame, RegistrySame
<1>2. PICK r, b, t, f : /\ r = [pc |-> "rollback", key |-> call[c].key, slot |-> call[c].slot]
                        /\ b = [pc |-> "release", key |-> call[c].key, slot |-> call[c].slot]
                        /\ t = [pc |-> "returned", ok |-> TRUE]
                        /\ f = [pc |-> "returned", ok |-> FALSE]
  OBVIOUS
<1>3. CASE subscribe(c)
  <2>1. call[c].pc = "subscribe" /\ call[c] # Idle
    BY <1>3 DEF subscribe, Idle
  <2>2. ~call[c].existed
    BY <2>1 DEF CallInv
  <2>3. command(c, "subscribe", t, r)
    BY <1>2, <1>3, <2>2 DEF subscribe
  <2>4. CallOnly(c) \/ Tells(c, "subscribe")
    BY <1>1, <1>2, <2>1, <2>3, CommandIs
  <2> QED
    BY <2>4
<1>4. CASE unsubscribe(c)
  <2>1. call[c].pc = "unsubscribe"
    BY <1>4 DEF unsubscribe
  <2>3. command(c, "unsubscribe", b, f)
    BY <1>2, <1>4 DEF unsubscribe
  <2>4. CallOnly(c) \/ Tells(c, "unsubscribe")
    BY <1>1, <1>2, <2>1, <2>3, CommandIs
  <2> QED
    BY <2>4
<1> QED
  BY <1>3, <1>4

\* The client's calls.
LEMMA EnterIs ==
    ASSUME Types, NEW c \in Callers, RegistrySame, MuxSame, UNCHANGED <<routes, handles>>,
           NEW t \in Tasks, task = NoTask, t.caller = c,
           subscribeTransport(c, IF t.op = "first" THEN "acquire" ELSE "owner", t.key, t),
           \/ /\ t.op = "first" /\ routes[t.key] = {} /\ t.id = nextSubscriberID + 1
              /\ t.id \in Ids /\ nextSubscriberID' = nextSubscriberID + 1
           \/ t.op = "last" /\ routes[t.key] = {t.id} /\ UNCHANGED nextSubscriberID
           \/ t.op = "close" /\ routes[t.key] # {} /\ UNCHANGED nextSubscriberID
    PROVE  Enters(c)
<1>1. PICK x : x = [pc |-> IF t.op = "first" THEN "acquire" ELSE "owner", key |-> t.key]
  OBVIOUS
<1>2. t.key \in Keys
  BY DEF Tasks
<1>3. x \in Calls
  <2>1. (IF t.op = "first" THEN "acquire" ELSE "owner") \in {"acquire", "owner"}
    OBVIOUS
  <2> QED
    BY <1>1, <1>2, <2>1 DEF Calls
<1>4. call' = [call EXCEPT ![c] = x] /\ task' = t
  BY <1>1 DEF subscribeTransport
<1>5. OneCall(c, x)
  BY <1>3, <1>4, OneCalls
<1> QED
  BY <1>1, <1>4, <1>5 DEF Enters

\* acquireRoute enters the service for the first subscriber, and joins for others.
LEMMA AcquireRouteIs ==
    ASSUME Types, NEW c \in Callers, NEW k \in Keys, acquireRoute(c, k)
    PROVE  Enters(c) \/ Joins
<1>1. PICK id : id = nextSubscriberID + 1
  OBVIOUS
<1>2. id \in Ids /\ id \in 0..MaxSubscribers
  <2>1. nextSubscriberID \in 0..MaxSubscribers /\ MaxSubscribers \in Nat
    BY ClientLimits DEF Types
  <2>2. nextSubscriberID < MaxSubscribers
    BY DEF acquireRoute
  <2> QED
    BY <1>1, <2>1, <2>2 DEF Ids
<1>3. task = NoTask /\ nextSubscriberID' = id
  BY <1>1 DEF acquireRoute
<1>4. RegistrySame /\ MuxSame
  BY NothingChanges DEF acquireRoute, RegistrySame, MuxSame
<1>5. CASE routes[k] = {}
  <2>1. PICK t : t = [op |-> "first", caller |-> c, key |-> k, id |-> id]
    OBVIOUS
  <2>2. t \in Tasks /\ t.op = "first" /\ t.caller = c /\ t.key = k /\ t.id = id
    BY <1>2, <2>1 DEF Tasks
  <2>3. subscribeTransport(c, "acquire", k, t) /\ UNCHANGED <<routes, handles>>
    BY <1>1, <1>5, <2>1 DEF acquireRoute
  <2>4. subscribeTransport(c, IF t.op = "first" THEN "acquire" ELSE "owner", t.key, t)
    BY <2>2, <2>3
  <2> QED
    BY <1>1, <1>2, <1>3, <1>4, <1>5, <2>2, <2>3, <2>4, EnterIs
<1>6. CASE routes[k] # {}
  <2>1. /\ routes' = [routes EXCEPT ![k] = @ \union {id}]
        /\ handles' = handles \union {[id |-> id, key |-> k]}
        /\ UNCHANGED <<call, task>>
    BY <1>1, <1>6 DEF acquireRoute
  <2> QED
    BY <1>1, <1>2, <1>3, <1>4, <1>6, <2>1 DEF Joins
<1> QED
  BY <1>5, <1>6

\* releaseRoute enters the service for the last subscriber, and leaves for others.
LEMMA ReleaseRouteIs ==
    ASSUME Types, NEW c \in Callers, NEW h \in handles, releaseRoute(c, h)
    PROVE  Enters(c) \/ Leaves
<1>1. h.id \in Ids /\ h.key \in Keys
  BY DEF Types
<1>2. h.id \in 0..MaxSubscribers
  BY <1>1, ClientLimits DEF Ids
<1>3. task = NoTask /\ UNCHANGED nextSubscriberID
  BY DEF releaseRoute
<1>4. RegistrySame /\ MuxSame
  BY NothingChanges DEF releaseRoute, RegistrySame, MuxSame
<1>5. CASE routes[h.key] = {h.id}
  <2>1. PICK t : t = [op |-> "last", caller |-> c, key |-> h.key, id |-> h.id]
    OBVIOUS
  <2>2. t \in Tasks /\ t.op = "last" /\ t.caller = c /\ t.key = h.key /\ t.id = h.id
    BY <1>1, <1>2, <2>1 DEF Tasks
  <2>3. subscribeTransport(c, "owner", h.key, t) /\ UNCHANGED <<routes, handles>>
    BY <1>5, <2>1 DEF releaseRoute
  <2>4. subscribeTransport(c, IF t.op = "first" THEN "acquire" ELSE "owner", t.key, t)
    BY <2>2, <2>3
  <2> QED
    BY <1>3, <1>4, <1>5, <2>2, <2>3, <2>4, EnterIs
<1>6. CASE routes[h.key] # {h.id}
  <2>1. /\ routes' = [routes EXCEPT ![h.key] = @ \ {h.id}]
        /\ handles' \subseteq handles
        /\ UNCHANGED <<call, task>>
    BY <1>6 DEF releaseRoute
  <2> QED
    BY <1>1, <1>3, <1>4, <1>6, <2>1 DEF Leaves
<1> QED
  BY <1>5, <1>6

\* closeRoute enters the service.
LEMMA CloseRouteIs ==
    ASSUME Types, NEW c \in Callers, NEW k \in Keys, closeRoute(c, k)
    PROVE  Enters(c)
<1>1. task = NoTask /\ routes[k] # {} /\ UNCHANGED <<routes, handles, nextSubscriberID>>
  BY DEF closeRoute
<1>2. RegistrySame /\ MuxSame
  BY NothingChanges DEF closeRoute, RegistrySame, MuxSame
<1>3. PICK t : t = [op |-> "close", caller |-> c, key |-> k, id |-> 0]
  OBVIOUS
<1>4. t \in Tasks /\ t.op = "close" /\ t.caller = c /\ t.key = k
  <2>1. 0 \in 0..MaxSubscribers
    BY ClientLimits
  <2> QED
    BY <1>3, <2>1 DEF Tasks
<1>5. subscribeTransport(c, IF t.op = "first" THEN "acquire" ELSE "owner", t.key, t)
  <2>1. subscribeTransport(c, "owner", k, t)
    BY <1>3 DEF closeRoute
  <2> QED
    BY <1>4, <2>1
<1> QED
  BY <1>1, <1>2, <1>4, <1>5, EnterIs

\* finish ends the call of the mutex's holder.
LEMMA FinishIs ==
    ASSUME Types, NEW c \in Callers, finish(c)
    PROVE  Finishes(c)
<1>1. RegistrySame /\ MuxSame /\ UNCHANGED nextSubscriberID
  BY NothingChanges DEF finish, RegistrySame, MuxSame
<1>2. PICK x : x = Idle
  OBVIOUS
<1>3. x \in Calls /\ call' = [call EXCEPT ![c] = x]
  BY <1>2 DEF Calls, finish
<1>4. OneCall(c, Idle)
  BY <1>2, <1>3, OneCalls
<1>5. /\ task # NoTask /\ task.caller = c /\ call[c].pc = "returned" /\ task' = NoTask
      /\ \/ call[c].ok /\ routes' = [routes EXCEPT ![task.key] = Remaining]
         \/ ~call[c].ok /\ UNCHANGED routes
  BY DEF finish
<1>6. /\ handles' \subseteq handles \union {[id |-> task.id, key |-> task.key]}
      /\ task.op # "first" => handles' \subseteq handles
  <2>1. CASE handles' = handles
    BY <2>1
  <2>2. CASE handles' # handles
    <3>1. handles' = CASE task.op = "first" ->
                            handles \union {[id |-> task.id, key |-> task.key]}
                       [] task.op = "last" -> {h \in handles : h.id # task.id}
                       [] OTHER -> handles
      BY <2>2 DEF finish
    <3>2. PICK e, w : e = [id |-> task.id, key |-> task.key] /\ w = {h \in handles : h.id # task.id}
      OBVIOUS
    <3>3. w \subseteq handles
      BY <3>2
    <3>4. \/ task.op = "first" /\ handles' = handles \union {e}
          \/ handles' = w
      BY <2>2, <3>1, <3>2
    <3> QED
      BY <3>2, <3>3, <3>4
  <2> QED
    BY <2>1, <2>2
<1> QED
  BY <1>1, <1>4, <1>5, <1>6 DEF Finishes

\* Every step is of one of these kinds.
LEMMA StepKinds ==
    ASSUME LsInv, [Next]_vars
    PROVE  Kinds
<1> USE DEF LsInv
<1>1. CASE UNCHANGED vars
  <2>1. /\ UNCHANGED <<closed, slots, routeOwners, nextID, slot, mux, toStop, call, faulty>>
        /\ UNCHANGED <<routes, nextSubscriberID, handles, task>>
    BY <1>1 DEF vars
  <2>2. SameSlots /\ SameClients
    BY <2>1, NothingChanges
  <2> QED
    BY <2>1, <2>2 DEF Quiet, RegistrySame, ClientSame, Kinds
<1>2. CASE RtStep /\ UNCHANGED clVars
  <2>1. CASE shutdown
    BY <1>2, <2>1, ShutdownIs DEF Kinds
  <2>2. CASE \E c \in Callers : Caller(c)
    <3>1. PICK c \in Callers : Caller(c)
      BY <2>2
    <3>2. CASE acquire(c)
      BY <1>2, <3>2, AcquireIs DEF Kinds
    <3>3. CASE subscribe(c) \/ unsubscribe(c)
      BY <1>2, <3>3, TellIs DEF Kinds
    <3>4. CASE rollback(c) \/ release(c)
      BY <1>2, <3>4, DropIs DEF Kinds
    <3>5. CASE owner(c)
      BY <1>2, <3>5, OwnerIs DEF Kinds
    <3> QED
      BY <3>1, <3>2, <3>3, <3>4, <3>5 DEF Caller
  <2>3. CASE \E s \in SlotIDs : SlotStep(s)
    <3>1. PICK s \in SlotIDs : SlotStep(s)
      BY <2>3
    <3>2. CASE muxHandle(s)
      BY <1>2, <3>2, MuxHandleIs DEF Kinds
    <3>3. CASE idleTimerFires(s)
      BY <1>2, <3>3, AsideIs DEF Kinds
    <3>4. CASE stopSlot(s)
      BY <1>2, <3>4, ShutdownIs DEF Kinds
    <3>5. CASE handleConnected(s) \/ connectionLost(s) \/ stopOnContextDone(s)
      BY <1>2, <3>5, ConnectionIs DEF Kinds
    <3> QED
      BY <3>1, <3>2, <3>3, <3>4, <3>5 DEF SlotStep
  <2>4. CASE \E f \in fired : closeIdleSlot(f)
    <3>1. PICK f \in fired : closeIdleSlot(f)
      BY <2>4
    <3>2. f.slot \in SlotIDs
      BY DEF Types
    <3> QED
      BY <1>2, <3>1, <3>2, CloseIdleIs DEF Kinds
  <2>5. CASE \E r \in readers : Reader(r)
    BY <1>2, <2>5, AsideIs DEF Kinds
  <2> QED
    BY <1>2, <2>1, <2>2, <2>3, <2>4, <2>5 DEF RtStep
<1>3. CASE \E c \in Callers : finish(c)
  BY <1>3, FinishIs DEF Kinds
<1>4. CASE dispatch \/ (\E id \in Ids : receive(id)) \/ (cancel /\ UNCHANGED clVars)
  BY <1>4, AsideIs DEF Kinds
<1>5. CASE \E done \in BOOLEAN : Start(done)
  BY <1>5, StartIs DEF Kinds
<1>6. CASE \E c \in Callers : ClientCall(c)
  <2>1. PICK c \in Callers : ClientCall(c)
    BY <1>6
  <2>2. ASSUME NEW k \in Keys, acquireRoute(c, k) \/ closeRoute(c, k) PROVE Kinds
    BY <2>2, AcquireRouteIs, CloseRouteIs DEF Kinds
  <2>3. ASSUME NEW h \in handles, releaseRoute(c, h) PROVE Kinds
    BY <2>3, ReleaseRouteIs DEF Kinds
  <2> QED
    BY <2>1, <2>2, <2>3 DEF ClientCall, Close
<1> QED
  BY <1>1, <1>2, <1>3, <1>4, <1>5, <1>6 DEF Next, LsStep

-----------------------------------------------------------------------------
(* Types and timers.                                                        *)

\* The steps of the registry's timers, of its start and of everything else.
LEMMA TimersKept ==
    ASSUME Types, TimerInv, [Next]_vars
    PROVE  /\ started' \in BOOLEAN /\ fired' \subseteq [slot : SlotIDs, timer : Timers]
           /\ TimerInv'
<1>1. started' = started \/ started' = TRUE
  BY DEF Next, vars, LsStep, RtStep, clVars, Start, startRegistry, finish, dispatch, cancel, ClientCall,
         Close, receive, acquireRoute, closeRoute, releaseRoute, shutdown, Caller, acquire, subscribe,
         rollback, owner, unsubscribe, release, SlotStep, muxHandle, idleTimerFires, stopSlot,
         stopOnContextDone, handleConnected, connectionLost, closeIdleSlot, Reader, readMessage,
         handleReadFailure
<1>2. \/ fired' \subseteq fired
      \/ \E s \in SlotIDs : idleTimerFires(s)
  BY DEF Next, vars, LsStep, RtStep, clVars, Start, startRegistry, finish, dispatch, cancel, ClientCall,
         Close, receive, acquireRoute, closeRoute, releaseRoute, shutdown, Caller, acquire, subscribe,
         rollback, owner, unsubscribe, release, SlotStep, muxHandle, stopSlot,
         stopOnContextDone, handleConnected, connectionLost, closeIdleSlot, Reader, readMessage,
         handleReadFailure
<1>3. started' \in BOOLEAN
  BY <1>1 DEF Types
<1>4. CASE fired' \subseteq fired
  BY <1>3, <1>4 DEF Types, TimerInv
<1>5. CASE \E s \in SlotIDs : idleTimerFires(s)
  <2>1. PICK s \in SlotIDs : idleTimerFires(s)
    BY <1>5
  <2>2. PICK t : t = slot[s].idleTimer
    OBVIOUS
  <2>3. t \in Timers
    BY <2>1, <2>2, Fields DEF idleTimerFires, Timers
  <2>4. PICK e : e = [slot |-> s, timer |-> t]
    OBVIOUS
  <2>5. e \in [slot : SlotIDs, timer : Timers] /\ e.slot = s
    BY <2>3, <2>4
  <2>6. fired' = fired \union {e} /\ ~ \E f \in fired : f.slot = s
    BY <2>1, <2>2, <2>4 DEF idleTimerFires
  <2>7. TimerInv'
    BY <2>5, <2>6 DEF TimerInv
  <2> QED
    BY <1>3, <2>5, <2>6, <2>7 DEF Types
<1> QED
  BY <1>2, <1>4, <1>5

\* The parts of Types that a kind of step may touch.
RegistryTypes ==
    /\ closed \in BOOLEAN /\ slots \in Seq(SlotIDs)
    /\ routeOwners \in [Keys -> SlotIDs \union {NoSlot}]
    /\ nextID \in 1..(MaxSlotIDs + 1) /\ toStop \subseteq SlotIDs

ClientTypes ==
    /\ routes \in [Keys -> SUBSET Ids] /\ nextSubscriberID \in 0..MaxSubscribers
    /\ handles \subseteq [id : Ids, key : Keys]
    /\ task \in {NoTask} \union Tasks

\* What a step leaves alone keeps its type.
LEMMA FrameTypes ==
    ASSUME Types
    PROVE  /\ RegistryTypes /\ ClientTypes
           /\ RegistrySame => RegistryTypes' /\ slot' \in [SlotIDs -> Slot]
           /\ ClientSame => ClientTypes'
           /\ MuxSame => mux' \in [SlotIDs -> Client]
           /\ UNCHANGED call => call' \in [Callers -> Calls]
           /\ \A c \in Callers, x \in Calls : OneCall(c, x) => call' \in [Callers -> Calls]
<1>1. RegistryTypes /\ ClientTypes
  BY DEF Types, RegistryTypes, ClientTypes
<1>2. RegistrySame => RegistryTypes' /\ slot' \in [SlotIDs -> Slot]
  BY <1>1 DEF RegistrySame, SameSlots, RegistryTypes
<1>3. ClientSame => ClientTypes'
  BY <1>1 DEF ClientSame, ClientTypes
<1>4. MuxSame => mux' \in [SlotIDs -> Client]
  BY DEF MuxSame, Types
<1>5. UNCHANGED call => call' \in [Callers -> Calls]
  BY DEF Types
<1>6. \A c \in Callers, x \in Calls : OneCall(c, x) => call' \in [Callers -> Calls]
  BY DEF OneCall
<1> QED
  BY <1>1, <1>2, <1>3, <1>4, <1>5, <1>6

\* Every step keeps the types.
LEMMA TypesKept ==
    ASSUME LsInv, Kinds, started' \in BOOLEAN, fired' \subseteq [slot : SlotIDs, timer : Timers]
    PROVE  Types'
<1> USE DEF LsInv
<1>1. RegistryTypes /\ ClientTypes /\ mux \in [SlotIDs -> Client] /\ slot \in [SlotIDs -> Slot]
  BY FrameTypes DEF Types
<1>2. SUFFICES /\ RegistryTypes' /\ ClientTypes' /\ call' \in [Callers -> Calls]
               /\ mux' \in [SlotIDs -> Client] /\ slot' \in [SlotIDs -> Slot]
  BY DEF Types, RegistryTypes, ClientTypes
<1>3. CASE Quiet
  BY <1>3, FrameTypes DEF Quiet, SameClients
<1>4. CASE \E c \in Callers : CallOnly(c)
  <2>1. PICK c \in Callers, x \in Calls : OneCall(c, x)
    BY <1>4 DEF CallOnly
  <2> QED
    BY <1>4, <2>1, FrameTypes DEF CallOnly
<1>5. CASE \E c \in Callers, d \in {"subscribe", "unsubscribe"} : Tells(c, d)
  <2>1. call' \in [Callers -> Calls] /\ mux' \in [SlotIDs -> Client]
    BY <1>5 DEF Tells, OneCall, OneClient
  <2> QED
    BY <1>5, <2>1, FrameTypes DEF Tells
<1>6. CASE \E s \in SlotIDs : Handles(s)
  BY <1>6, FrameTypes DEF Handles, OneClient
<1>7. CASE \E s \in SlotIDs : ClosesIdle(s)
  <2>1. PICK s \in SlotIDs : ClosesIdle(s)
    BY <1>7
  <2>2. slots' \in Seq(SlotIDs)
    <3>1. CASE InRegistry(s)
      BY <2>1, <3>1, SlotRemoved DEF ClosesIdle
    <3>2. CASE ~InRegistry(s)
      <4>1. slots' = slots
        BY <2>1, <3>2 DEF ClosesIdle, removeSlotLocked
      <4> QED
        BY <1>1, <4>1 DEF RegistryTypes
    <3> QED
      BY <3>1, <3>2
  <2>3. /\ ClientSame /\ UNCHANGED <<closed, routeOwners, nextID, call, toStop>>
        /\ slot' \in [SlotIDs -> Slot] /\ mux' \in [SlotIDs -> Client]
    BY <2>1 DEF ClosesIdle, Stops, OneSlot, OneClient
  <2>4. RegistryTypes'
    BY <1>1, <2>2, <2>3 DEF RegistryTypes
  <2> QED
    BY <2>3, <2>4, FrameTypes
<1>8. CASE \E s \in SlotIDs : StopsSlot(s)
  <2>1. PICK s \in SlotIDs : StopsSlot(s)
    BY <1>8
  <2>3. /\ ClientSame /\ UNCHANGED <<closed, slots, routeOwners, nextID, call>>
        /\ toStop' \subseteq toStop
        /\ slot' \in [SlotIDs -> Slot] /\ mux' \in [SlotIDs -> Client]
    BY <2>1 DEF StopsSlot, Stops, OneSlot, OneClient
  <2>4. RegistryTypes'
    BY <1>1, <2>3 DEF RegistryTypes
  <2> QED
    BY <2>3, <2>4, FrameTypes
<1>9. CASE OpensPrimary
  <2>1. nextID \in SlotIDs /\ nextID' = nextID + 1 /\ slots' = <<nextID>>
    BY <1>9 DEF OpensPrimary
  <2>2. nextID' \in 1..(MaxSlotIDs + 1)
    BY <2>1, LsLimits DEF SlotIDs
  <2>3. slots' \in Seq(SlotIDs)
    BY <2>1
  <2>4. /\ ClientSame /\ MuxSame /\ UNCHANGED <<closed, routeOwners, toStop, call>>
        /\ slot' \in [SlotIDs -> Slot]
    BY <1>9 DEF OpensPrimary, SameSlots
  <2>5. RegistryTypes'
    BY <1>1, <2>2, <2>3, <2>4 DEF RegistryTypes
  <2> QED
    BY <2>4, <2>5, FrameTypes
<1>10. CASE Shuts
  <2>1. <<>> \in Seq(SlotIDs) /\ TRUE \in BOOLEAN
    OBVIOUS
  <2>2. /\ ClientSame /\ MuxSame /\ UNCHANGED <<nextID, call>> /\ slot' \in [SlotIDs -> Slot]
        /\ closed' = TRUE /\ slots' = <<>> /\ toStop' \subseteq SlotIDs
        /\ routeOwners' = [k \in Keys |-> NoSlot]
    BY <1>10 DEF Shuts, SameSlots
  <2>3. RegistryTypes'
    BY <1>1, <2>1, <2>2 DEF RegistryTypes
  <2> QED
    BY <2>2, <2>3, FrameTypes
<1>11. CASE Joins
  <2>1. PICK k \in Keys :
            /\ routes' = [routes EXCEPT ![k] = @ \union {nextSubscriberID'}]
            /\ handles' = handles \union {[id |-> nextSubscriberID', key |-> k]}
    BY <1>11 DEF Joins
  <2>2. nextSubscriberID' \in Ids /\ UNCHANGED task
    BY <1>11 DEF Joins
  <2>3. nextSubscriberID' \in 0..MaxSubscribers
    BY <2>2, ClientLimits DEF Ids
  <2>4. ClientTypes'
    BY <1>1, <2>1, <2>2, <2>3 DEF ClientTypes
  <2> QED
    BY <1>11, <2>4, FrameTypes DEF Joins
<1>12. CASE Leaves
  <2>1. PICK k \in Keys, id \in Ids : routes' = [routes EXCEPT ![k] = @ \ {id}]
    BY <1>12 DEF Leaves
  <2>2. UNCHANGED <<task, nextSubscriberID>> /\ handles' \subseteq handles
    BY <1>12 DEF Leaves
  <2>3. routes' \in [Keys -> SUBSET Ids]
    BY <1>1, <2>1 DEF ClientTypes
  <2>4. ClientTypes'
    BY <1>1, <2>2, <2>3 DEF ClientTypes
  <2> QED
    BY <1>12, <2>4, FrameTypes DEF Leaves
<1>13. CASE \E c \in Callers : Places(c)
  <2>1. PICK c \in Callers : Places(c)
    BY <1>13
  <2>2. PICK k : k = call[c].key
    OBVIOUS
  <2>3. k \in Keys
    BY <2>1, <2>2, CallFields DEF Places
  <2>4. PICK s \in SlotIDs :
              /\ OneCall(c, [pc |-> "subscribe", key |-> k, slot |-> s, existed |-> FALSE])
              /\ routeOwners' = [routeOwners EXCEPT ![k] = s]
              /\ \/ UNCHANGED <<slots, nextID>>
                 \/ s = nextID /\ slots' = Append(slots, s) /\ nextID' = nextID + 1
              /\ OneSlot(s, slot'[s])
    BY <2>1, <2>2 DEF Places
  <2>5. slots' \in Seq(SlotIDs) /\ nextID' \in 1..(MaxSlotIDs + 1)
    <3>1. CASE UNCHANGED <<slots, nextID>>
      BY <1>1, <3>1 DEF RegistryTypes
    <3>2. CASE s = nextID /\ slots' = Append(slots, s) /\ nextID' = nextID + 1
      <4>1. slots' \in Seq(SlotIDs)
        BY <1>1, <3>2 DEF RegistryTypes
      <4>2. nextID' \in 1..(MaxSlotIDs + 1)
        BY <3>2, LsLimits DEF SlotIDs
      <4> QED
        BY <4>1, <4>2
    <3> QED
      BY <2>4, <3>1, <3>2
  <2>6. ClientSame /\ MuxSame /\ UNCHANGED <<closed, toStop>>
    BY <2>1 DEF Places
  <2>7. routeOwners' \in [Keys -> SlotIDs \union {NoSlot}]
    BY <1>1, <2>4 DEF RegistryTypes
  <2>8. RegistryTypes'
    BY <1>1, <2>5, <2>6, <2>7 DEF RegistryTypes
  <2>9. call' \in [Callers -> Calls] /\ slot' \in [SlotIDs -> Slot]
    BY <2>4 DEF OneCall, OneSlot
  <2> QED
    BY <2>6, <2>8, <2>9, FrameTypes
<1>14. CASE \E c \in Callers : Drops(c)
  <2>1. PICK c \in Callers : Drops(c)
    BY <1>14
  <2>2. PICK k : k = call[c].key
    OBVIOUS
  <2>3. routeOwners' = [routeOwners EXCEPT ![k] = NoSlot]
    BY <2>1, <2>2 DEF Drops
  <2>4. routeOwners' \in [Keys -> SlotIDs \union {NoSlot}]
    BY <1>1, <2>3 DEF RegistryTypes
  <2>5. /\ ClientSame /\ MuxSame /\ UNCHANGED <<closed, slots, nextID, toStop>>
        /\ call' \in [Callers -> Calls] /\ slot' \in [SlotIDs -> Slot]
    BY <2>1 DEF Drops, OneCall, OneSlot
  <2>6. RegistryTypes'
    BY <1>1, <2>4, <2>5 DEF RegistryTypes
  <2> QED
    BY <2>5, <2>6, FrameTypes
<1>15. CASE \E c \in Callers : Enters(c)
  <2>1. PICK c \in Callers : Enters(c)
    BY <1>15
  <2>2. PICK t \in Tasks : task' = t /\ call' \in [Callers -> Calls]
                           /\ ((t.id = nextSubscriberID + 1 /\ t.id \in Ids /\ nextSubscriberID' = nextSubscriberID + 1)
                               \/ UNCHANGED nextSubscriberID)
    BY <2>1 DEF Enters, OneCall
  <2>3. nextSubscriberID' \in 0..MaxSubscribers
    BY <1>1, <2>2, ClientLimits DEF ClientTypes, Ids
  <2>4. UNCHANGED <<routes, handles>> /\ RegistrySame /\ MuxSame
    BY <2>1 DEF Enters
  <2>5. ClientTypes'
    BY <1>1, <2>2, <2>3, <2>4 DEF ClientTypes
  <2> QED
    BY <2>2, <2>4, <2>5, FrameTypes
<1>16. CASE \E c \in Callers : Finishes(c)
  <2>1. PICK c \in Callers : Finishes(c)
    BY <1>16
  <2>2. /\ RegistrySame /\ MuxSame /\ UNCHANGED nextSubscriberID /\ task # NoTask /\ task' = NoTask
        /\ call' \in [Callers -> Calls]
    BY <2>1 DEF Finishes, OneCall
  <2>3. task \in Tasks
    BY <1>1, <2>2 DEF ClientTypes
  <2>4. task.key \in Keys /\ task.id \in 0..MaxSubscribers /\ task.op \in {"first", "last", "close"}
    BY <2>3 DEF Tasks
  <2>5. task.op = "first" => task.id \in Ids
    BY <2>2 DEF HoldInv
  <2>6. routes[task.key] \in SUBSET Ids
    BY <1>1, <2>4 DEF ClientTypes
  <2>7. Remaining \in SUBSET Ids
    BY <2>4, <2>5, <2>6 DEF Remaining
  <2>8. routes' \in [Keys -> SUBSET Ids]
    BY <1>1, <2>1, <2>7 DEF Finishes, ClientTypes
  <2>9. handles' \subseteq [id : Ids, key : Keys]
    <3>1. CASE task.op = "first"
      <4>1. [id |-> task.id, key |-> task.key] \in [id : Ids, key : Keys]
        BY <2>4, <2>5, <3>1
      <4> QED
        BY <1>1, <2>1, <4>1 DEF Finishes, ClientTypes
    <3>2. CASE task.op # "first"
      BY <1>1, <2>1, <3>2 DEF Finishes, ClientTypes
    <3> QED
      BY <3>1, <3>2
  <2>10. ClientTypes'
    BY <1>1, <2>2, <2>8, <2>9 DEF ClientTypes
  <2> QED
    BY <2>2, <2>10, FrameTypes
<1> QED
  BY <1>3, <1>4, <1>5, <1>6, <1>7, <1>8, <1>9, <1>10, <1>11, <1>12, <1>13, <1>14, <1>15, <1>16 DEF Kinds

-----------------------------------------------------------------------------
(* The registry.                                                            *)

RegistryInv == SlotsInv /\ UnusedInv /\ LimitInv /\ OwnersLive /\ NoSlotLeak

\* The clients of slots that are new, or in the registry and empty, stay untouched.
Untouched ==
    \A s \in SlotIDs :
        /\ mux[s].queue = <<>> /\ mux[s].subs = {}
        /\ s >= nextID \/ (InRegistry(s) /\ slot[s].routes = {})
        => mux'[s].queue = <<>> /\ mux'[s].subs = {}

\* Steps that leave the slots alike.
LEMMA RegistryAlike ==
    ASSUME Types, RegistryInv, RegistrySame, Untouched
    PROVE  RegistryInv'
<1> USE DEF RegistryInv
<1>1. /\ UNCHANGED <<closed, slots, routeOwners, nextID, toStop>>
      /\ \A s \in SlotIDs : /\ slot'[s].routes = slot[s].routes
                            /\ slot'[s].idleTimer = slot[s].idleTimer
                            /\ slot'[s].stopping = slot[s].stopping
  BY DEF RegistrySame, SameSlots, Alike
<1>2. \A i \in DOMAIN slots : slots[i] \in SlotIDs
  BY SlotsType
<1>3. \A s : InRegistry(s)' <=> InRegistry(s)
  BY <1>1 DEF InRegistry
<1>4. SlotsInv'
  BY <1>1, <1>2 DEF SlotsInv
<1>5. UnusedInv'
  <2> SUFFICES ASSUME NEW s \in SlotIDs, s >= nextID
               PROVE  /\ slot'[s].routes = {} /\ slot'[s].idleTimer = 0 /\ ~slot'[s].stopping
                      /\ mux'[s].queue = <<>> /\ mux'[s].subs = {}
    BY <1>1 DEF UnusedInv
  <2>1. /\ slot[s].routes = {} /\ slot[s].idleTimer = 0 /\ ~slot[s].stopping
        /\ mux[s].queue = <<>> /\ mux[s].subs = {}
    BY DEF UnusedInv
  <2> QED
    BY <1>1, <2>1 DEF Untouched
<1>6. LimitInv'
  BY <1>1 DEF LimitInv, routeCount
<1>7. OwnersLive'
  <2>1. ASSUME NEW k \in Keys, routeOwners'[k] # NoSlot
        PROVE  (/\ InRegistry(routeOwners[k]) /\ ~slot[routeOwners[k]].stopping
                /\ k \in slot[routeOwners[k]].routes)'
    <3>1. PICK s : s = routeOwners[k]
      OBVIOUS
    <3>2. s \in SlotIDs /\ routeOwners'[k] = s
      BY <1>1, <2>1, <3>1 DEF Types
    <3>3. InRegistry(s) /\ ~slot[s].stopping /\ k \in slot[s].routes
      BY <1>1, <2>1, <3>1 DEF OwnersLive
    <3>4. InRegistry(s)' /\ ~slot'[s].stopping /\ k \in slot'[s].routes
      BY <1>1, <1>3, <3>2, <3>3
    <3> QED
      BY <3>2, <3>4 DEF InRegistry
  <2>2. ASSUME NEW s \in SlotIDs, InRegistry(s)', NEW k \in slot'[s].routes
        PROVE  routeOwners'[k] = s
    BY <1>1, <1>3, <2>2 DEF OwnersLive
  <2> QED
    BY <2>1, <2>2 DEF OwnersLive
<1>8. NoSlotLeak'
  <2>1. ASSUME NEW i \in DOMAIN slots', slot'[slots'[i]].routes = {}, slot'[slots'[i]].idleTimer = 0
        PROVE  i = 1 /\ mux'[slots'[i]].queue = <<>> /\ mux'[slots'[i]].subs = {}
    <3>1. PICK s : s = slots[i]
      OBVIOUS
    <3>2. s \in SlotIDs /\ InRegistry(s) /\ slots'[i] = s /\ i \in DOMAIN slots
      BY <1>1, <1>2, <3>1 DEF InRegistry
    <3>3. slot[s].routes = {} /\ slot[s].idleTimer = 0
      BY <1>1, <2>1, <3>2
    <3>4. i = 1 /\ mux[s].queue = <<>> /\ mux[s].subs = {}
      BY <3>1, <3>2, <3>3 DEF NoSlotLeak
    <3>5. mux'[s].queue = <<>> /\ mux'[s].subs = {}
      BY <3>2, <3>3, <3>4 DEF Untouched
    <3> QED
      BY <3>2, <3>4, <3>5
  <2>2. ASSUME NEW s \in 1..(nextID' - 1), ~InRegistry(s)' PROVE slot'[s].stopping \/ s \in toStop'
    <3>1. s \in SlotIDs /\ s \in 1..(nextID - 1)
      BY <1>1, LsLimits DEF Types, SlotIDs
    <3> QED
      BY <1>1, <1>3, <2>2, <3>1 DEF NoSlotLeak
  <2> QED
    BY <2>1, <2>2 DEF NoSlotLeak
<1> QED
  BY <1>4, <1>5, <1>6, <1>7, <1>8

\* start makes the first slot.
LEMMA PrimaryKeepsRegistry ==
    ASSUME Types, RegistryInv, OpensPrimary
    PROVE  RegistryInv'
<1> USE DEF RegistryInv
<1>1. PICK n : n = nextID
  OBVIOUS
<1>2. /\ ~closed /\ slots = <<>> /\ n \in SlotIDs /\ slots' = <<n>> /\ nextID' = n + 1
      /\ UNCHANGED <<closed, routeOwners, toStop, mux>>
  BY <1>1 DEF OpensPrimary, MuxSame
<1>3. \A s \in SlotIDs : /\ slot'[s].routes = slot[s].routes
                         /\ slot'[s].idleTimer = slot[s].idleTimer
                         /\ slot'[s].stopping = slot[s].stopping
  BY DEF OpensPrimary, SameSlots, Alike
<1>4. DOMAIN slots' = {1} /\ slots'[1] = n /\ DOMAIN slots = {} /\ Len(slots') = 1 /\ n \in Nat
  BY <1>2 DEF SlotIDs
<1>5. \A s : InRegistry(s)' <=> s = n
  BY <1>4 DEF InRegistry
<1>6. \A s : ~InRegistry(s)
  BY <1>4 DEF InRegistry
<1>7. /\ slot[n].routes = {} /\ slot[n].idleTimer = 0 /\ ~slot[n].stopping
      /\ mux[n].queue = <<>> /\ mux[n].subs = {}
  BY <1>1, <1>2, <1>4 DEF UnusedInv
<1>8. \A k \in Keys : routeOwners[k] = NoSlot
  BY <1>6 DEF OwnersLive
<1>9. toStop = {}
  BY <1>2 DEF SlotsInv
<1>10. SlotsInv'
  BY <1>2, <1>3, <1>4, <1>7, <1>9 DEF SlotsInv
<1>11. UnusedInv'
  <2> SUFFICES ASSUME NEW s \in SlotIDs, s >= n + 1
               PROVE  /\ slot'[s].routes = {} /\ slot'[s].idleTimer = 0 /\ ~slot'[s].stopping
                      /\ mux'[s].queue = <<>> /\ mux'[s].subs = {}
    BY <1>2 DEF UnusedInv
  <2>1. s >= nextID
    BY <1>1, <1>4 DEF SlotIDs
  <2> QED
    BY <1>2, <1>3, <2>1 DEF UnusedInv
<1>12. LimitInv'
  <2>1. Len(slots') <= MaxConnSlots
    BY <1>4, LsLimits
  <2> QED
    BY <1>3, <2>1 DEF LimitInv, routeCount
<1>13. OwnersLive'
  BY <1>2, <1>3, <1>5, <1>7, <1>8 DEF OwnersLive
<1>14. NoSlotLeak'
  <2>1. ASSUME NEW s \in 1..(nextID' - 1), ~InRegistry(s)' PROVE slot'[s].stopping \/ s \in toStop'
    <3>1. s # n
      BY <1>5, <2>1
    <3>2. s \in 1..(nextID - 1) /\ s \in SlotIDs
      BY <1>1, <1>2, <1>4, <3>1, LsLimits DEF SlotIDs
    <3>3. slot[s].stopping \/ s \in toStop
      BY <1>6, <3>2 DEF NoSlotLeak
    <3> QED
      BY <1>2, <1>3, <3>2, <3>3
  <2> QED
    BY <1>2, <1>4, <1>7, <2>1 DEF NoSlotLeak
<1> QED
  BY <1>10, <1>11, <1>12, <1>13, <1>14

\* shutdown empties the registry.
LEMMA ShutsKeepsRegistry ==
    ASSUME Types, RegistryInv, Shuts
    PROVE  RegistryInv'
<1> USE DEF RegistryInv
<1>1. /\ closed' = TRUE /\ slots' = <<>> /\ toStop' = {s \in SlotIDs : InRegistry(s)}
      /\ routeOwners' = [k \in Keys |-> NoSlot] /\ UNCHANGED <<nextID, mux>>
  BY DEF Shuts, MuxSame
<1>2. \A s \in SlotIDs : /\ slot'[s].routes = slot[s].routes
                         /\ slot'[s].idleTimer = slot[s].idleTimer
                         /\ slot'[s].stopping = slot[s].stopping
  BY DEF Shuts, SameSlots, Alike
<1>3. DOMAIN slots' = {} /\ Len(slots') = 0
  BY <1>1
<1>4. \A s : ~InRegistry(s)'
  BY <1>3 DEF InRegistry
<1>5. SlotsInv'
  <2>1. \A s \in toStop' : s < nextID'
    BY <1>1 DEF InRegistry, SlotsInv
  <2> QED
    BY <1>1, <1>3, <2>1 DEF SlotsInv
<1>6. UnusedInv'
  BY <1>1, <1>2 DEF UnusedInv
<1>7. LimitInv'
  <2>1. Len(slots') <= MaxConnSlots
    BY <1>3, LsLimits
  <2> QED
    BY <1>2, <2>1 DEF LimitInv, routeCount
<1>8. OwnersLive'
  BY <1>1, <1>4 DEF OwnersLive
<1>9. NoSlotLeak'
  <2>1. ASSUME NEW s \in 1..(nextID' - 1) PROVE slot'[s].stopping \/ s \in toStop'
    <3>1. s \in 1..(nextID - 1) /\ s \in SlotIDs
      BY <1>1, LsLimits DEF Types, SlotIDs
    <3>2. slot[s].stopping \/ s \in toStop \/ InRegistry(s)
      BY <3>1 DEF NoSlotLeak
    <3>3. toStop = {}
      BY DEF Shuts, SlotsInv
    <3> QED
      BY <1>1, <1>2, <3>1, <3>2, <3>3
  <2> QED
    BY <1>3, <2>1 DEF NoSlotLeak
<1> QED
  BY <1>5, <1>6, <1>7, <1>8, <1>9

\* A slot of the snapshot is stopped.
LEMMA StopKeepsRegistry ==
    ASSUME Types, RegistryInv, NEW s \in SlotIDs, StopsSlot(s)
    PROVE  RegistryInv'
<1> USE DEF RegistryInv
<1>1. /\ OneSlot(s, slot'[s]) /\ slot'[s].routes = slot[s].routes
      /\ slot'[s].idleTimer = 0 /\ slot'[s].stopping = TRUE
      /\ OneClient(s, mux'[s]) /\ mux'[s].queue = <<>> /\ mux'[s].subs = {}
      /\ UNCHANGED <<closed, routeOwners, nextID, slots>>
      /\ s \in toStop /\ toStop' = toStop \ {s}
  BY DEF StopsSlot, Stops
<1>2. closed /\ slots = <<>> /\ (\A k \in Keys : routeOwners[k] = NoSlot) /\ s < nextID
  BY <1>1 DEF SlotsInv
<1>3. DOMAIN slots' = {} /\ Len(slots') = 0
  BY <1>1, <1>2
<1>4. \A t : ~InRegistry(t)' /\ ~InRegistry(t)
  BY <1>1, <1>3 DEF InRegistry
<1>5. SlotsInv'
  BY <1>1, <1>2, <1>3 DEF SlotsInv
<1>6. UnusedInv'
  <2> SUFFICES ASSUME NEW t \in SlotIDs, t >= nextID
               PROVE  /\ slot'[t].routes = {} /\ slot'[t].idleTimer = 0 /\ ~slot'[t].stopping
                      /\ mux'[t].queue = <<>> /\ mux'[t].subs = {}
    BY <1>1 DEF UnusedInv
  <2>1. t # s
    BY <1>2, SlotsType
  <2>2. slot'[t] = slot[t] /\ mux'[t] = mux[t]
    BY <1>1, <2>1 DEF OneSlot, OneClient
  <2> QED
    BY <2>2 DEF UnusedInv
<1>7. \A t \in SlotIDs : slot'[t].routes = slot[t].routes
  BY <1>1 DEF OneSlot
<1>8. LimitInv'
  BY <1>1, <1>7 DEF LimitInv, routeCount
<1>9. OwnersLive'
  BY <1>1, <1>2, <1>4 DEF OwnersLive
<1>10. NoSlotLeak'
  <2>1. ASSUME NEW t \in 1..(nextID' - 1) PROVE slot'[t].stopping \/ t \in toStop'
    <3>1. t \in 1..(nextID - 1) /\ t \in SlotIDs
      BY <1>1, LsLimits DEF Types, SlotIDs
    <3>2. slot[t].stopping \/ t \in toStop
      BY <1>4, <3>1 DEF NoSlotLeak
    <3> QED
      BY <1>1, <3>1, <3>2 DEF OneSlot
  <2> QED
    BY <1>3, <2>1 DEF NoSlotLeak
<1> QED
  BY <1>5, <1>6, <1>8, <1>9, <1>10

\* An idle slot is closed.
LEMMA CloseIdleKeepsRegistry ==
    ASSUME Types, RegistryInv, NEW s \in SlotIDs, ClosesIdle(s)
    PROVE  RegistryInv'
<1> USE DEF RegistryInv
<1>1. /\ OneSlot(s, slot'[s]) /\ slot'[s].routes = slot[s].routes
      /\ slot'[s].idleTimer = 0 /\ slot'[s].stopping = TRUE
      /\ OneClient(s, mux'[s]) /\ mux'[s].queue = <<>> /\ mux'[s].subs = {}
      /\ UNCHANGED <<closed, routeOwners, nextID, toStop>>
      /\ ~closed /\ slot[s].routes = {} /\ slot[s].idleTimer # 0
      /\ slots' = removeSlotLocked(s)
  BY DEF ClosesIdle, Stops
<1>2. s < nextID
  <2>1. ~(s >= nextID)
    BY <1>1 DEF UnusedInv
  <2> QED
    BY <2>1, SlotsType
<1>3. /\ slots' \in Seq(SlotIDs) /\ Len(slots') <= Len(slots)
      /\ \A i \in DOMAIN slots' : \E j \in DOMAIN slots : i <= j /\ slots'[i] = slots[j]
      /\ \A i, j \in DOMAIN slots' : slots'[i] = slots'[j] => i = j
      /\ \A t \in SlotIDs : InRegistry(t)' <=> InRegistry(t) /\ t # s
  <2>1. CASE InRegistry(s)
    BY <1>1, <2>1, SlotRemoved
  <2>2. CASE ~InRegistry(s)
    <3>1. slots' = slots
      BY <1>1, <2>2 DEF removeSlotLocked
    <3>2. \A t : InRegistry(t)' <=> InRegistry(t)
      BY <3>1 DEF InRegistry
    <3>3. slots' \in Seq(SlotIDs) /\ Len(slots') <= Len(slots)
      BY <3>1, SlotsType DEF Types
    <3>4. \A i \in DOMAIN slots' : i <= i /\ i \in DOMAIN slots /\ slots'[i] = slots[i]
      BY <3>1, SlotsType
    <3> QED
      BY <2>2, <3>1, <3>2, <3>3, <3>4 DEF SlotsInv
  <2> QED
    BY <2>1, <2>2
<1>4. DOMAIN slots' = 1..Len(slots') /\ Len(slots') \in Nat /\ \A i \in DOMAIN slots' : i \in Nat /\ i >= 1 /\ slots'[i] \in SlotIDs
  <2>1. DOMAIN slots' = 1..Len(slots') /\ Len(slots') \in Nat
    BY <1>3
  <2> QED
    BY <1>3, <2>1
<1>5. \A i \in DOMAIN slots' : slots'[i] # s
  BY <1>3, <1>4 DEF InRegistry
<1>6. \A t \in SlotIDs : t # s => slot'[t] = slot[t] /\ mux'[t] = mux[t]
  BY <1>1 DEF OneSlot, OneClient
<1>7. \A t \in SlotIDs : slot'[t].routes = slot[t].routes
  BY <1>1, <1>6
<1>8. SlotsInv'
  <2>1. ASSUME NEW i \in DOMAIN slots' PROVE slots'[i] < nextID' /\ ~slot'[slots'[i]].stopping
    <3>1. PICK t : t = slots'[i]
      OBVIOUS
    <3>2. PICK j \in DOMAIN slots : slots[j] = t
      BY <1>3, <3>1
    <3>3. t \in SlotIDs /\ t # s
      BY <1>4, <1>5, <3>1
    <3>4. t < nextID /\ ~slot[t].stopping
      BY <3>2 DEF SlotsInv
    <3> QED
      BY <1>1, <1>6, <3>1, <3>3, <3>4
  <2> QED
    BY <1>1, <1>3, <2>1 DEF SlotsInv
<1>9. UnusedInv'
  <2> SUFFICES ASSUME NEW t \in SlotIDs, t >= nextID
               PROVE  /\ slot'[t].routes = {} /\ slot'[t].idleTimer = 0 /\ ~slot'[t].stopping
                      /\ mux'[t].queue = <<>> /\ mux'[t].subs = {}
    BY <1>1 DEF UnusedInv
  <2>1. t # s
    BY <1>2, SlotsType
  <2> QED
    BY <1>6, <2>1 DEF UnusedInv
<1>10. LimitInv'
  <2>1. Len(slots') <= MaxConnSlots
    <3>1. Len(slots') \in Nat /\ Len(slots) \in Nat /\ Len(slots) <= MaxConnSlots /\ Len(slots') <= Len(slots)
      BY <1>3, <1>4, SlotsType DEF LimitInv
    <3> QED
      BY <3>1, LsLimits
  <2> QED
    BY <1>7, <2>1 DEF LimitInv, routeCount
<1>11. OwnersLive'
  <2>1. ASSUME NEW k \in Keys, routeOwners'[k] # NoSlot
        PROVE  (/\ InRegistry(routeOwners[k]) /\ ~slot[routeOwners[k]].stopping
                /\ k \in slot[routeOwners[k]].routes)'
    <3>1. PICK t : t = routeOwners[k]
      OBVIOUS
    <3>2. t \in SlotIDs /\ routeOwners'[k] = t
      BY <1>1, <2>1, <3>1 DEF Types
    <3>3. InRegistry(t) /\ ~slot[t].stopping /\ k \in slot[t].routes
      BY <1>1, <2>1, <3>1 DEF OwnersLive
    <3>4. t # s
      BY <1>1, <3>3
    <3>5. InRegistry(t)' /\ ~slot'[t].stopping /\ k \in slot'[t].routes
      BY <1>3, <1>6, <3>2, <3>3, <3>4
    <3> QED
      BY <3>2, <3>5 DEF InRegistry
  <2>2. ASSUME NEW t \in SlotIDs, InRegistry(t)', NEW k \in slot'[t].routes
        PROVE  routeOwners'[k] = t
    BY <1>1, <1>3, <1>7, <2>2 DEF OwnersLive
  <2> QED
    BY <2>1, <2>2 DEF OwnersLive
<1>12. NoSlotLeak'
  <2>1. ASSUME NEW i \in DOMAIN slots', slot'[slots'[i]].routes = {}, slot'[slots'[i]].idleTimer = 0
        PROVE  i = 1 /\ mux'[slots'[i]].queue = <<>> /\ mux'[slots'[i]].subs = {}
    <3>1. PICK t : t = slots'[i]
      OBVIOUS
    <3>2. t \in SlotIDs /\ t # s
      BY <1>4, <1>5, <3>1
    <3>3. PICK j \in DOMAIN slots : slots[j] = t /\ i <= j
      BY <1>3, <3>1
    <3>4. slot[t].routes = {} /\ slot[t].idleTimer = 0
      BY <1>6, <2>1, <3>1, <3>2
    <3>5. j = 1 /\ mux[t].queue = <<>> /\ mux[t].subs = {}
      BY <3>3, <3>4 DEF NoSlotLeak
    <3>6. i = 1
      BY <1>4, <3>3, <3>5
    <3> QED
      BY <1>6, <3>1, <3>2, <3>5, <3>6
  <2>2. ASSUME NEW t \in 1..(nextID' - 1), ~InRegistry(t)' PROVE slot'[t].stopping \/ t \in toStop'
    <3>1. t \in SlotIDs /\ t \in 1..(nextID - 1)
      BY <1>1, LsLimits DEF Types, SlotIDs
    <3>2. CASE t = s
      BY <1>1, <3>2
    <3>3. CASE t # s
      BY <1>1, <1>3, <1>6, <2>2, <3>1, <3>3 DEF NoSlotLeak
    <3> QED
      BY <3>2, <3>3
  <2> QED
    BY <2>1, <2>2 DEF NoSlotLeak
<1> QED
  BY <1>8, <1>9, <1>10, <1>11, <1>12

\* A route leaves its slot.
LEMMA DropKeepsRegistry ==
    ASSUME Types, RegistryInv, NEW c \in Callers, Drops(c)
    PROVE  RegistryInv'
<1> USE DEF RegistryInv
<1>1. PICK k, s : k = call[c].key /\ s = call[c].slot
  OBVIOUS
<1>2. /\ routeOwners[k] = s /\ routeOwners' = [routeOwners EXCEPT ![k] = NoSlot]
      /\ OneSlot(s, slot'[s]) /\ slot'[s].routes = slot[s].routes \ {k}
      /\ slot'[s].routes = {} => slot'[s].idleTimer # 0
      /\ slot'[s].stopping = slot[s].stopping
      /\ UNCHANGED <<closed, slots, nextID, toStop, mux>>
  BY <1>1 DEF Drops, MuxSame
<1>3. k \in Keys /\ s \in SlotIDs /\ s # NoSlot
  BY <1>1, CallFields, SlotsType DEF Drops
<1>4. InRegistry(s) /\ ~slot[s].stopping
  BY <1>2, <1>3 DEF OwnersLive
<1>5. s < nextID /\ ~closed
  BY <1>2, <1>3, <1>4 DEF InRegistry, SlotsInv
<1>6. \A t : InRegistry(t)' <=> InRegistry(t)
  BY <1>2 DEF InRegistry
<1>7. \A t \in SlotIDs : t # s => slot'[t] = slot[t]
  BY <1>2 DEF OneSlot
<1>8. routeOwners'[k] = NoSlot /\ \A j \in Keys : j # k => routeOwners'[j] = routeOwners[j]
  BY <1>2, <1>3 DEF Types
<1>9. \A i \in DOMAIN slots : slots[i] \in SlotIDs
  BY SlotsType
<1>10. SlotsInv'
  BY <1>2, <1>5, <1>7, <1>9 DEF SlotsInv
<1>11. UnusedInv'
  <2> SUFFICES ASSUME NEW t \in SlotIDs, t >= nextID
               PROVE  /\ slot'[t].routes = {} /\ slot'[t].idleTimer = 0 /\ ~slot'[t].stopping
                      /\ mux'[t].queue = <<>> /\ mux'[t].subs = {}
    BY <1>2 DEF UnusedInv
  <2>1. t # s
    BY <1>5, SlotsType
  <2> QED
    BY <1>2, <1>7, <2>1 DEF UnusedInv
<1>12. LimitInv'
  <2>1. IsFiniteSet(slot[s].routes) /\ Cardinality(slot[s].routes) <= MaxRoutesPerSlot
    BY <1>3 DEF LimitInv, routeCount
  <2>2. IsFiniteSet(slot'[s].routes) /\ Cardinality(slot'[s].routes) <= Cardinality(slot[s].routes)
    BY <1>2, <2>1, FS_Subset
  <2>3. Cardinality(slot'[s].routes) \in Nat /\ Cardinality(slot[s].routes) \in Nat
    BY <2>1, <2>2, FS_CardinalityType
  <2>4. Cardinality(slot'[s].routes) <= MaxRoutesPerSlot
    BY <2>1, <2>2, <2>3, LsLimits
  <2>5. ASSUME NEW t \in SlotIDs
        PROVE  IsFiniteSet(slot'[t].routes) /\ Cardinality(slot'[t].routes) <= MaxRoutesPerSlot
    <3>1. CASE t = s
      BY <2>2, <2>4, <3>1
    <3>2. CASE t # s
      BY <1>7, <3>2 DEF LimitInv, routeCount
    <3> QED
      BY <3>1, <3>2
  <2> QED
    BY <1>2, <2>5 DEF LimitInv, routeCount
<1>13. OwnersLive'
  <2>1. ASSUME NEW j \in Keys, routeOwners'[j] # NoSlot
        PROVE  (/\ InRegistry(routeOwners[j]) /\ ~slot[routeOwners[j]].stopping
                /\ j \in slot[routeOwners[j]].routes)'
    <3>1. PICK t : t = routeOwners[j]
      OBVIOUS
    <3>2. j # k /\ routeOwners'[j] = t /\ t \in SlotIDs
      BY <1>8, <2>1, <3>1 DEF Types
    <3>3. InRegistry(t) /\ ~slot[t].stopping /\ j \in slot[t].routes
      BY <1>8, <2>1, <3>1, <3>2 DEF OwnersLive
    <3>4. ~slot'[t].stopping /\ j \in slot'[t].routes
      BY <1>2, <1>7, <3>2, <3>3
    <3> QED
      BY <1>6, <3>2, <3>3, <3>4 DEF InRegistry
  <2>2. ASSUME NEW t \in SlotIDs, InRegistry(t)', NEW j \in slot'[t].routes
        PROVE  routeOwners'[j] = t
    <3>1. j \in slot[t].routes /\ j \in Keys
      BY <1>2, <1>7, <2>2, Fields
    <3>2. routeOwners[j] = t
      BY <1>6, <2>2, <3>1 DEF OwnersLive
    <3>3. j # k
      BY <1>2, <2>2, <3>2
    <3> QED
      BY <1>8, <3>1, <3>2, <3>3
  <2> QED
    BY <2>1, <2>2 DEF OwnersLive
<1>14. NoSlotLeak'
  <2>1. ASSUME NEW i \in DOMAIN slots', slot'[slots'[i]].routes = {}, slot'[slots'[i]].idleTimer = 0
        PROVE  i = 1 /\ mux'[slots'[i]].queue = <<>> /\ mux'[slots'[i]].subs = {}
    <3>1. PICK t : t = slots[i]
      OBVIOUS
    <3>2. t \in SlotIDs /\ slots'[i] = t /\ i \in DOMAIN slots
      BY <1>2, <1>9, <3>1
    <3>3. t # s
      BY <1>2, <2>1, <3>2
    <3> QED
      BY <1>2, <1>7, <2>1, <3>1, <3>2, <3>3 DEF NoSlotLeak
  <2>2. ASSUME NEW t \in 1..(nextID' - 1), ~InRegistry(t)' PROVE slot'[t].stopping \/ t \in toStop'
    <3>1. t \in SlotIDs /\ t \in 1..(nextID - 1)
      BY <1>2, LsLimits DEF Types, SlotIDs
    <3>2. t # s
      BY <1>4, <1>6, <2>2
    <3> QED
      BY <1>2, <1>6, <1>7, <2>2, <3>1, <3>2 DEF NoSlotLeak
  <2> QED
    BY <2>1, <2>2 DEF NoSlotLeak
<1> QED
  BY <1>10, <1>11, <1>12, <1>13, <1>14

\* A route is placed on a slot.
LEMMA PlaceKeepsRegistry ==
    ASSUME Types, RegistryInv, NEW c \in Callers, Places(c)
    PROVE  RegistryInv'
<1> USE DEF RegistryInv
<1>1. PICK k : k = call[c].key
  OBVIOUS
<1>2. k \in Keys /\ ~closed /\ routeOwners[k] = NoSlot /\ UNCHANGED <<closed, toStop, mux>>
  BY <1>1, CallFields DEF Places, MuxSame
<1>3. PICK s \in SlotIDs :
        /\ routeOwners' = [routeOwners EXCEPT ![k] = s]
        /\ \/ InRegistry(s) /\ routeCount(s) < MaxRoutesPerSlot /\ UNCHANGED <<slots, nextID>>
           \/ /\ s = nextID /\ Len(slots) < MaxConnSlots
              /\ slots' = Append(slots, s) /\ nextID' = nextID + 1
        /\ OneSlot(s, slot'[s]) /\ slot'[s].routes = slot[s].routes \union {k}
        /\ slot'[s].idleTimer = 0 /\ slot'[s].stopping = slot[s].stopping
  BY <1>1 DEF Places
<1>4. \A t \in SlotIDs : t # s => slot'[t] = slot[t]
  BY <1>3 DEF OneSlot
<1>5. routeOwners'[k] = s /\ \A j \in Keys : j # k => routeOwners'[j] = routeOwners[j]
  BY <1>2, <1>3 DEF Types
<1>6. /\ DOMAIN slots = 1..Len(slots) /\ Len(slots) \in Nat /\ nextID \in Nat /\ s \in Nat
      /\ \A i \in DOMAIN slots : slots[i] \in SlotIDs /\ slots[i] \in Nat
      /\ \A i \in DOMAIN slots : slots[i] < nextID /\ ~slot[slots[i]].stopping
      /\ \A i, j \in DOMAIN slots : slots[i] = slots[j] => i = j
      /\ SlotIDs \subseteq Nat /\ NoSlot \notin SlotIDs
  BY SlotsType DEF SlotsInv
<1>7. ~slot[s].stopping
  <2>1. CASE InRegistry(s)
    BY <1>6, <2>1 DEF InRegistry
  <2>2. CASE s = nextID
    BY <1>6, <2>2 DEF UnusedInv
  <2> QED
    BY <1>3, <2>1, <2>2
<1>8. s = nextID => slot[s].routes = {}
  BY <1>6 DEF UnusedInv
<1>9. /\ \A i \in DOMAIN slots' : (i \in DOMAIN slots /\ slots'[i] = slots[i]) \/ slots'[i] = s
      /\ \A i, j \in DOMAIN slots' : slots'[i] = slots'[j] => i = j
      /\ \A t : InRegistry(t)' <=> InRegistry(t) \/ t = s
      /\ Len(slots') <= MaxConnSlots
      /\ nextID <= nextID' /\ s < nextID' /\ nextID' \in Nat
      /\ \A t \in SlotIDs : t < nextID' => t < nextID \/ t = s
  <2>1. CASE InRegistry(s) /\ UNCHANGED <<slots, nextID>>
    <3>1. s < nextID
      BY <1>6, <2>1 DEF InRegistry
    <3>2. \A t : InRegistry(t)' <=> InRegistry(t)
      BY <2>1 DEF InRegistry
    <3>3. Len(slots') <= MaxConnSlots
      BY <2>1 DEF LimitInv
    <3> QED
      BY <1>6, <2>1, <3>1, <3>2, <3>3
  <2>2. CASE s = nextID /\ Len(slots) < MaxConnSlots /\ slots' = Append(slots, s) /\ nextID' = nextID + 1
    <3>1. PICK N : N = Len(slots)
      OBVIOUS
    <3>2. slots \in Seq(SlotIDs) /\ N \in Nat /\ DOMAIN slots = 1..N
      BY <1>6, <3>1 DEF Types
    <3>3. /\ DOMAIN slots' = 1..(N + 1) /\ Len(slots') = N + 1
          /\ \A i \in 1..N : slots'[i] = slots[i]
          /\ slots'[N + 1] = s
      BY <2>2, <3>1, <3>2
    <3>4. \A i \in 1..(N + 1) : i \in 1..N \/ i = N + 1
      BY <3>2
    <3>5. \A i \in DOMAIN slots' : (i \in DOMAIN slots /\ slots'[i] = slots[i]) \/ slots'[i] = s
      BY <3>2, <3>3, <3>4
    <3>6. \A i \in 1..N : slots[i] # s
      BY <1>6, <2>2, <3>2
    <3>7. ASSUME NEW i \in DOMAIN slots', NEW j \in DOMAIN slots', slots'[i] = slots'[j] PROVE i = j
      BY <1>6, <3>2, <3>3, <3>4, <3>6, <3>7
    <3>8. ASSUME NEW t PROVE InRegistry(t)' <=> InRegistry(t) \/ t = s
      <4>1. N + 1 \in 1..(N + 1) /\ \A i \in 1..N : i \in 1..(N + 1)
        BY <3>2
      <4> QED
        BY <3>2, <3>3, <3>4, <4>1 DEF InRegistry
    <3>9. Len(slots') <= MaxConnSlots
      BY <2>2, <3>1, <3>2, <3>3, LsLimits
    <3>10. /\ nextID <= nextID' /\ s < nextID' /\ nextID' \in Nat
           /\ \A t \in SlotIDs : t < nextID' => t < nextID \/ t = s
      BY <1>6, <2>2
    <3> QED
      BY <3>5, <3>7, <3>8, <3>9, <3>10
  <2> QED
    BY <1>3, <2>1, <2>2
<1>10. SlotsInv'
  <2>1. ASSUME NEW i \in DOMAIN slots' PROVE slots'[i] < nextID' /\ ~slot'[slots'[i]].stopping
    <3>1. CASE slots'[i] = s
      BY <1>3, <1>7, <1>9, <3>1
    <3>2. CASE slots'[i] # s
      <4>1. i \in DOMAIN slots /\ slots'[i] = slots[i]
        BY <1>9, <3>2
      <4>2. slots[i] < nextID /\ ~slot[slots[i]].stopping /\ slots[i] \in Nat /\ slots[i] \in SlotIDs
        BY <1>6, <4>1
      <4>3. slots[i] < nextID'
        BY <1>6, <1>9, <4>2
      <4> QED
        BY <1>4, <3>2, <4>1, <4>2, <4>3
    <3> QED
      BY <3>1, <3>2
  <2>2. \A t \in toStop' : t < nextID'
    BY <1>2 DEF SlotsInv
  <2>3. ~closed' /\ toStop' = {}
    BY <1>2 DEF SlotsInv
  <2> QED
    BY <1>9, <2>1, <2>2, <2>3 DEF SlotsInv
<1>11. UnusedInv'
  <2> SUFFICES ASSUME NEW t \in SlotIDs, t >= nextID'
               PROVE  /\ slot'[t].routes = {} /\ slot'[t].idleTimer = 0 /\ ~slot'[t].stopping
                      /\ mux'[t].queue = <<>> /\ mux'[t].subs = {}
    BY DEF UnusedInv
  <2>1. t # s /\ t >= nextID
    BY <1>6, <1>9
  <2> QED
    BY <1>2, <1>4, <2>1 DEF UnusedInv
<1>12. LimitInv'
  <2>1. IsFiniteSet(slot[s].routes) /\ Cardinality(slot[s].routes) < MaxRoutesPerSlot
    <3>1. CASE InRegistry(s) /\ routeCount(s) < MaxRoutesPerSlot
      BY <3>1 DEF LimitInv, routeCount
    <3>2. CASE s = nextID
      <4>1. Cardinality(slot[s].routes) = 0
        BY <1>8, <3>2, FS_EmptySet
      <4> QED
        BY <4>1, LsLimits DEF LimitInv
    <3> QED
      BY <1>3, <3>1, <3>2
  <2>2. IsFiniteSet(slot'[s].routes) /\ Cardinality(slot'[s].routes) <= MaxRoutesPerSlot
    <3>1. PICK R : R = slot[s].routes
      OBVIOUS
    <3>2. /\ IsFiniteSet(R \union {k})
          /\ Cardinality(R \union {k}) = IF k \in R THEN Cardinality(R) ELSE Cardinality(R) + 1
      BY <2>1, <3>1, FS_AddElement
    <3>3. Cardinality(R) \in Nat
      BY <2>1, <3>1, FS_CardinalityType
    <3>4. Cardinality(R \union {k}) <= MaxRoutesPerSlot
      BY <2>1, <3>1, <3>2, <3>3, LsLimits
    <3> QED
      BY <1>3, <3>1, <3>2, <3>4
  <2>3. ASSUME NEW t \in SlotIDs
        PROVE  IsFiniteSet(slot'[t].routes) /\ Cardinality(slot'[t].routes) <= MaxRoutesPerSlot
    <3>1. CASE t = s
      BY <2>2, <3>1
    <3>2. CASE t # s
      BY <1>4, <3>2 DEF LimitInv, routeCount
    <3> QED
      BY <3>1, <3>2
  <2> QED
    BY <1>9, <2>3 DEF LimitInv, routeCount
<1>13. OwnersLive'
  <2>1. ASSUME NEW j \in Keys, routeOwners'[j] # NoSlot
        PROVE  (/\ InRegistry(routeOwners[j]) /\ ~slot[routeOwners[j]].stopping
                /\ j \in slot[routeOwners[j]].routes)'
    <3>1. PICK t : t = routeOwners'[j]
      OBVIOUS
    <3>2. InRegistry(t)' /\ ~slot'[t].stopping /\ j \in slot'[t].routes
      <4>1. CASE j = k
        BY <1>3, <1>5, <1>7, <1>9, <3>1, <4>1
      <4>2. CASE j # k
        <5>1. routeOwners[j] = t /\ t \in SlotIDs
          BY <1>5, <2>1, <3>1, <4>2 DEF Types
        <5>2. InRegistry(t) /\ ~slot[t].stopping /\ j \in slot[t].routes
          BY <2>1, <3>1, <5>1 DEF OwnersLive
        <5>3. ~slot'[t].stopping /\ j \in slot'[t].routes
          BY <1>3, <1>4, <5>1, <5>2
        <5> QED
          BY <1>9, <5>2, <5>3
      <4> QED
        BY <4>1, <4>2
    <3> QED
      BY <3>1, <3>2 DEF InRegistry
  <2>2. ASSUME NEW t \in SlotIDs, InRegistry(t)', NEW j \in slot'[t].routes
        PROVE  routeOwners'[j] = t
    <3>1. CASE t = s
      <4>1. CASE j = k
        BY <1>5, <3>1, <4>1
      <4>2. CASE j # k
        <5>1. j \in slot[s].routes /\ j \in Keys
          BY <1>3, <2>2, <3>1, <4>2, Fields
        <5>2. InRegistry(s)
          BY <1>3, <1>8, <5>1
        <5>3. routeOwners[j] = s
          BY <5>1, <5>2 DEF OwnersLive
        <5> QED
          BY <1>5, <3>1, <4>2, <5>1, <5>3
      <4> QED
        BY <4>1, <4>2
    <3>2. CASE t # s
      <4>1. InRegistry(t) /\ j \in slot[t].routes /\ j \in Keys
        BY <1>4, <1>9, <2>2, <3>2, Fields
      <4>2. routeOwners[j] = t /\ t # NoSlot
        BY <1>6, <4>1 DEF OwnersLive
      <4> QED
        BY <1>2, <1>5, <4>1, <4>2
    <3> QED
      BY <3>1, <3>2
  <2> QED
    BY <2>1, <2>2 DEF OwnersLive
<1>14. NoSlotLeak'
  <2>1. ASSUME NEW i \in DOMAIN slots', slot'[slots'[i]].routes = {}, slot'[slots'[i]].idleTimer = 0
        PROVE  i = 1 /\ mux'[slots'[i]].queue = <<>> /\ mux'[slots'[i]].subs = {}
    <3>1. slots'[i] # s
      BY <1>3, <2>1
    <3>2. i \in DOMAIN slots /\ slots'[i] = slots[i] /\ slots[i] \in SlotIDs
      BY <1>6, <1>9, <3>1
    <3> QED
      BY <1>2, <1>4, <2>1, <3>1, <3>2 DEF NoSlotLeak
  <2>2. ASSUME NEW t \in Nat, 1 <= t, t < nextID', ~InRegistry(t)'
        PROVE  slot'[t].stopping \/ t \in toStop'
    <3>1. t # s /\ ~InRegistry(t)
      BY <1>9, <2>2
    <3>2. t \in SlotIDs
      <4>1. nextID' <= MaxSlotIDs + 1
        BY <1>3, <1>6, LsLimits DEF Types, SlotIDs
      <4>2. nextID' \in Nat /\ MaxSlotIDs \in Nat
        BY <1>9, LsLimits
      <4> QED
        BY <2>2, <4>1, <4>2 DEF SlotIDs
    <3>3. t \in 1..(nextID - 1)
      <4>1. t < nextID
        BY <1>9, <2>2, <3>1, <3>2
      <4> QED
        BY <1>6, <2>2, <4>1
    <3> QED
      BY <1>2, <1>4, <3>1, <3>2, <3>3 DEF NoSlotLeak
  <2>3. \A t \in 1..(nextID' - 1) : t \in Nat /\ 1 <= t /\ t < nextID'
    <3>1. PICK m \in Nat : m = nextID'
      BY <1>9
    <3>2. \A t \in 1..(m - 1) : t \in Nat /\ 1 <= t /\ t < m
      OBVIOUS
    <3> QED
      BY <3>1, <3>2
  <2> QED
    BY <2>1, <2>2, <2>3 DEF NoSlotLeak
<1> QED
  BY <1>10, <1>11, <1>12, <1>13, <1>14

\* A caller that commands a slot has its route there, unless the registry is closed.
LEMMA CallsSlot ==
    ASSUME LsInv, NEW c \in Callers,
           call[c].pc \in {"subscribe", "rollback", "unsubscribe", "release"}
    PROVE  /\ call[c].slot \in SlotIDs /\ call[c].key \in Keys /\ call[c].slot < nextID
           /\ task # NoTask /\ task.caller = c /\ task.key = call[c].key
           /\ \/ closed /\ ~InRegistry(call[c].slot)
              \/ /\ ~closed /\ InRegistry(call[c].slot)
                 /\ routeOwners[call[c].key] = call[c].slot
                 /\ call[c].key \in slot[call[c].slot].routes
<1>1. Types /\ SlotsInv /\ CallInv /\ OwnersLive
  BY DEF LsInv
<1>2. call[c].slot \in SlotIDs /\ call[c].key \in Keys /\ call[c] # Idle
  BY <1>1, CallFields DEF Idle
<1>3. /\ task # NoTask /\ task.caller = c /\ task.key = call[c].key /\ call[c].slot < nextID
      /\ closed \/ routeOwners[task.key] = call[c].slot
  BY <1>1, <1>2 DEF CallInv
<1>4. CASE closed
  <2>1. slots = <<>>
    BY <1>1, <1>4 DEF SlotsInv
  <2>2. ~InRegistry(call[c].slot)
    BY <2>1 DEF InRegistry
  <2> QED
    BY <1>2, <1>3, <1>4, <2>2
<1>5. CASE ~closed
  <2>1. routeOwners[call[c].key] = call[c].slot /\ call[c].slot # NoSlot
    BY <1>1, <1>2, <1>3, <1>5, SlotsType
  <2> QED
    BY <1>1, <1>2, <1>3, <1>5, <2>1 DEF OwnersLive
<1> QED
  BY <1>4, <1>5

\* Every step keeps the registry in order.
LEMMA RegistryKept ==
    ASSUME LsInv, Kinds
    PROVE  RegistryInv'
<1>1. Types /\ RegistryInv
  BY DEF LsInv, RegistryInv
<1>2. MuxSame => Untouched
  BY DEF MuxSame, Untouched
<1>3. CASE Quiet
  BY <1>1, <1>3, RegistryAlike DEF Quiet, SameClients, Untouched
<1>4. CASE \E c \in Callers : CallOnly(c)
  BY <1>1, <1>2, <1>4, RegistryAlike DEF CallOnly
<1>5. CASE \E c \in Callers, d \in {"subscribe", "unsubscribe"} : Tells(c, d)
  <2>1. PICK c \in Callers, d \in {"subscribe", "unsubscribe"} : Tells(c, d)
    BY <1>5
  <2>2. PICK s : s = call[c].slot
    OBVIOUS
  <2>3. call[c].pc = d /\ RegistrySame /\ \A t \in SlotIDs : t # s => mux'[t] = mux[t]
    BY <2>1, <2>2 DEF Tells, OneClient
  <2>4. s \in SlotIDs /\ s < nextID /\ (InRegistry(s) => slot[s].routes # {})
    BY <2>2, <2>3, CallsSlot
  <2>5. ~(s >= nextID)
    BY <1>1, <2>4, SlotsType
  <2>6. Untouched
    BY <2>3, <2>4, <2>5 DEF Untouched
  <2> QED
    BY <1>1, <2>3, <2>6, RegistryAlike
<1>6. CASE \E s \in SlotIDs : Handles(s)
  <2>1. PICK s \in SlotIDs : Handles(s)
    BY <1>6
  <2>2. mux[s].queue # <<>> /\ RegistrySame /\ \A t \in SlotIDs : t # s => mux'[t] = mux[t]
    BY <2>1 DEF Handles, OneClient
  <2>3. Untouched
    BY <2>2 DEF Untouched
  <2> QED
    BY <1>1, <2>2, <2>3, RegistryAlike
<1>7. CASE \E s \in SlotIDs : ClosesIdle(s)
  BY <1>1, <1>7, CloseIdleKeepsRegistry
<1>8. CASE \E s \in SlotIDs : StopsSlot(s)
  BY <1>1, <1>8, StopKeepsRegistry
<1>9. CASE OpensPrimary
  BY <1>1, <1>9, PrimaryKeepsRegistry
<1>10. CASE Shuts
  BY <1>1, <1>10, ShutsKeepsRegistry
<1>11. CASE Joins \/ Leaves
  BY <1>1, <1>2, <1>11, RegistryAlike DEF Joins, Leaves
<1>12. CASE \E c \in Callers : Places(c)
  BY <1>1, <1>12, PlaceKeepsRegistry
<1>13. CASE \E c \in Callers : Drops(c)
  BY <1>1, <1>13, DropKeepsRegistry
<1>14. CASE \E c \in Callers : Enters(c) \/ Finishes(c)
  BY <1>1, <1>2, <1>14, RegistryAlike DEF Enters, Finishes
<1> QED
  BY <1>3, <1>4, <1>5, <1>6, <1>7, <1>8, <1>9, <1>10, <1>11, <1>12, <1>13, <1>14 DEF Kinds

-----------------------------------------------------------------------------
(* The calls.                                                               *)

\* Only the holder of the client's mutex has a call under way.
LEMMA OneCaller ==
    ASSUME CallInv
    PROVE  /\ task = NoTask => \A d \in Callers : call[d] = Idle
           /\ \A c \in Callers : call[c] # Idle \/ (task # NoTask /\ task.caller = c) =>
                 \A d \in Callers : d # c => call[d] = Idle
BY DEF CallInv

\* A call x of caller c is where it may be, after a step.
FineAfter(c, x) ==
    x # Idle =>
        /\ task' # NoTask /\ task'.caller = c
        /\ x.pc \in {"acquire", "subscribe", "rollback"} => task'.op = "first"
        /\ x.pc \in {"owner", "unsubscribe", "release"} => task'.op \in {"last", "close"}
        /\ x.pc # "returned" => x.key = task'.key
        /\ x.pc = "subscribe" => ~x.existed
        /\ x.pc \in {"subscribe", "rollback", "unsubscribe", "release"} =>
              x.slot < nextID' /\ (closed' \/ routeOwners'[task'.key] = x.slot)
        /\ x.pc = "acquire" /\ ~closed' => routeOwners'[task'.key] = NoSlot
        /\ x.pc = "owner" /\ ~closed' => routeOwners'[task'.key] # NoSlot
        /\ x.pc = "returned" /\ ~closed' =>
              (routeOwners'[task'.key] # NoSlot <=> (task'.op = "first" <=> x.ok))

\* The calls are in order after a step of the one caller that has a call.
LEMMA CallGoesOn ==
    ASSUME NEW c \in Callers, NEW x, OneCall(c, x), FineAfter(c, x),
           \A d \in Callers : d # c => call[d] = Idle
    PROVE  CallInv'
<1>1. call'[c] = x /\ \A d \in Callers : d # c => call'[d] = Idle
  BY DEF OneCall
<1> SUFFICES ASSUME NEW d \in Callers, call'[d] # Idle
             PROVE  FineAfter(d, call'[d])
  BY DEF CallInv, FineAfter
<1>2. d = c /\ call'[d] = x
  BY <1>1
<1> QED
  BY <1>2

\* The calls are in order after a step of somebody else.
LEMMA CallsStay ==
    ASSUME Types, CallInv, UNCHANGED <<call, task>>, nextID' \in Nat, nextID <= nextID',
           closed' = TRUE \/ UNCHANGED <<closed, routeOwners>>
    PROVE  CallInv'
<1> SUFFICES ASSUME NEW c \in Callers, call'[c] # Idle
             PROVE  FineAfter(c, call'[c])
  BY DEF CallInv, FineAfter
<1>1. PICK x : x = call[c]
  OBVIOUS
<1>2. call'[c] = x /\ x # Idle
  BY <1>1
<1>3. /\ task' # NoTask /\ task'.caller = c
      /\ x.pc \in {"acquire", "subscribe", "rollback"} => task'.op = "first"
      /\ x.pc \in {"owner", "unsubscribe", "release"} => task'.op \in {"last", "close"}
      /\ x.pc # "returned" => x.key = task'.key
      /\ x.pc = "subscribe" => ~x.existed
  BY <1>1, <1>2 DEF CallInv
<1>4. x.pc \in {"subscribe", "rollback", "unsubscribe", "release"} =>
              x.slot < nextID' /\ (closed' \/ routeOwners'[task'.key] = x.slot)
  <2> SUFFICES ASSUME x.pc \in {"subscribe", "rollback", "unsubscribe", "release"}
               PROVE  x.slot < nextID' /\ (closed' \/ routeOwners'[task'.key] = x.slot)
    OBVIOUS
  <2>1. x.slot < nextID /\ (closed \/ routeOwners[task.key] = x.slot)
    BY <1>1, <1>2 DEF CallInv
  <2>2. x.slot \in Nat /\ nextID \in Nat
    BY <1>1, CallFields, SlotsType
  <2>3. x.slot < nextID'
    BY <2>1, <2>2
  <2> QED
    BY <2>1, <2>3
<1>5. /\ x.pc = "acquire" /\ ~closed' => routeOwners'[task'.key] = NoSlot
      /\ x.pc = "owner" /\ ~closed' => routeOwners'[task'.key] # NoSlot
      /\ x.pc = "returned" /\ ~closed' =>
              (routeOwners'[task'.key] # NoSlot <=> (task'.op = "first" <=> x.ok))
  BY <1>1, <1>2 DEF CallInv
<1> QED
  BY <1>2, <1>3, <1>4, <1>5 DEF FineAfter

\* Every step keeps the calls in order.
LEMMA CallsKept ==
    ASSUME LsInv, Kinds, Types'
    PROVE  CallInv'
<1>1. Types /\ CallInv /\ nextID \in Nat /\ nextID' \in Nat
  <2>1. Types /\ CallInv
    BY DEF LsInv
  <2>2. nextID \in 1..(MaxSlotIDs + 1) /\ nextID' \in 1..(MaxSlotIDs + 1)
    BY <2>1 DEF Types
  <2> QED
    BY <2>1, <2>2
<1>2. CASE Quiet \/ Joins \/ Leaves \/ \E s \in SlotIDs : Handles(s)
  <2>1. UNCHANGED <<call, task, nextID, closed, routeOwners>>
    BY <1>2 DEF Quiet, Joins, Leaves, Handles, RegistrySame, ClientSame
  <2> QED
    BY <1>1, <2>1, CallsStay
<1>3. CASE \E s \in SlotIDs : ClosesIdle(s) \/ StopsSlot(s)
  <2>1. UNCHANGED <<call, task, nextID, closed, routeOwners>>
    BY <1>3 DEF ClosesIdle, StopsSlot, Stops, ClientSame
  <2> QED
    BY <1>1, <2>1, CallsStay
<1>4. CASE OpensPrimary \/ Shuts
  <2>1. UNCHANGED <<call, task>> /\ (closed' = TRUE \/ UNCHANGED <<closed, routeOwners>>)
        /\ (nextID' = nextID \/ nextID' = nextID + 1)
    BY <1>4 DEF OpensPrimary, Shuts, ClientSame
  <2>2. nextID <= nextID'
    BY <1>1, <2>1
  <2> QED
    BY <1>1, <2>1, <2>2, CallsStay
<1>5. CASE \E c \in Callers : CallOnly(c)
  <2>1. PICK c \in Callers : CallOnly(c)
    BY <1>5
  <2>2. UNCHANGED <<task, nextID, closed, routeOwners>>
    BY <2>1 DEF CallOnly, RegistrySame, ClientSame
  <2>3. PICK x \in Calls :
          /\ OneCall(c, x)
          /\ \/ call[c].pc = "acquire" /\ x = [pc |-> "returned", ok |-> FALSE]
             \/ call[c].pc = "owner" /\ closed /\ x = [pc |-> "returned", ok |-> FALSE]
             \/ /\ call[c].pc = "owner" /\ ~closed /\ routeOwners[call[c].key] # NoSlot
                /\ x = [pc |-> "unsubscribe", key |-> call[c].key,
                        slot |-> routeOwners[call[c].key]]
             \/ /\ call[c].pc = "subscribe"
                /\ x = [pc |-> "rollback", key |-> call[c].key, slot |-> call[c].slot]
             \/ call[c].pc = "unsubscribe" /\ x = [pc |-> "returned", ok |-> FALSE]
             \/ call[c].pc = "rollback" /\ closed /\ x = [pc |-> "returned", ok |-> FALSE]
             \/ call[c].pc = "release" /\ closed /\ x = [pc |-> "returned", ok |-> TRUE]
    BY <2>1 DEF CallOnly
  <2>4. call[c].pc # "idle" /\ call[c] # Idle
    BY <2>3 DEF Idle
  <2>5. \A d \in Callers : d # c => call[d] = Idle
    BY <1>1, <2>4, OneCaller
  <2>6. /\ task # NoTask /\ task.caller = c
        /\ call[c].pc # "returned" => call[c].key = task.key
    BY <1>1, <2>4 DEF CallInv
  <2>7. FineAfter(c, x)
    <3>1. CASE call[c].pc = "acquire" /\ x = [pc |-> "returned", ok |-> FALSE]
      <4>1. task.op = "first" /\ (~closed => routeOwners[task.key] = NoSlot)
        BY <1>1, <2>4, <3>1 DEF CallInv
      <4> QED
        BY <2>2, <2>6, <3>1, <4>1 DEF FineAfter
    <3>2. CASE closed /\ (x = [pc |-> "returned", ok |-> FALSE] \/ x = [pc |-> "returned", ok |-> TRUE])
      BY <2>2, <2>6, <3>2 DEF FineAfter
    <3>3. CASE /\ call[c].pc = "owner" /\ ~closed /\ routeOwners[call[c].key] # NoSlot
               /\ x = [pc |-> "unsubscribe", key |-> call[c].key,
                       slot |-> routeOwners[call[c].key]]
      <4>1. task.op \in {"last", "close"} /\ call[c].key = task.key /\ task.key \in Keys
        BY <1>1, <2>4, <2>6, <3>3, CallFields DEF CallInv
      <4>2. routeOwners[task.key] < nextID
        <5>1. routeOwners[task.key] \in SlotIDs
          BY <1>1, <3>3, <4>1 DEF Types
        <5>2. InRegistry(routeOwners[task.key])
          BY <3>3, <4>1 DEF LsInv, OwnersLive
        <5> QED
          BY <5>2 DEF LsInv, SlotsInv, InRegistry
      <4>3. /\ x.pc = "unsubscribe" /\ x.key = task.key /\ x.slot = routeOwners[task.key]
            /\ x.pc \notin {"acquire", "subscribe", "rollback", "owner", "returned"}
        BY <3>3, <4>1
      <4> QED
        BY <2>2, <2>6, <4>1, <4>2, <4>3 DEF FineAfter
    <3>4. CASE /\ call[c].pc = "subscribe"
               /\ x = [pc |-> "rollback", key |-> call[c].key, slot |-> call[c].slot]
      <4>1. /\ task.op = "first" /\ call[c].key = task.key
            /\ call[c].slot < nextID /\ (closed \/ routeOwners[task.key] = call[c].slot)
        BY <1>1, <2>4, <2>6, <3>4 DEF CallInv
      <4>2. /\ x.pc = "rollback" /\ x.key = task.key /\ x.slot = call[c].slot
            /\ x.pc \notin {"acquire", "subscribe", "owner", "unsubscribe", "release", "returned"}
        BY <3>4, <4>1
      <4> QED
        BY <2>2, <2>6, <4>1, <4>2 DEF FineAfter
    <3>5. CASE call[c].pc = "unsubscribe" /\ x = [pc |-> "returned", ok |-> FALSE]
      <4>1. task.op \in {"last", "close"} /\ (closed \/ routeOwners[task.key] = call[c].slot)
        BY <1>1, <2>4, <3>5 DEF CallInv
      <4>2. call[c].slot # NoSlot
        BY <1>1, <3>5, CallFields, SlotsType
      <4>3. x.pc = "returned" /\ x.ok = FALSE /\ task.op # "first"
        BY <3>5, <4>1
      <4> QED
        BY <2>2, <2>6, <4>1, <4>2, <4>3 DEF FineAfter
    <3> QED
      BY <2>3, <3>1, <3>2, <3>3, <3>4, <3>5
  <2> QED
    BY <2>3, <2>5, <2>7, CallGoesOn
<1>6. CASE \E c \in Callers, d \in {"subscribe", "unsubscribe"} : Tells(c, d)
  <2>1. PICK c \in Callers, d \in {"subscribe", "unsubscribe"} : Tells(c, d)
    BY <1>6
  <2>2. PICK k, s : k = call[c].key /\ s = call[c].slot
    OBVIOUS
  <2>3. UNCHANGED <<task, nextID, closed, routeOwners>> /\ call[c].pc = d
    BY <2>1 DEF Tells, RegistrySame, ClientSame
  <2>4. PICK x : OneCall(c, x) /\ x \in {[pc |-> "returned", ok |-> TRUE], [pc |-> "returned", ok |-> FALSE],
                                         [pc |-> "rollback", key |-> k, slot |-> s],
                                         [pc |-> "release", key |-> k, slot |-> s]}
                    /\ (d = "subscribe" => x \in {[pc |-> "returned", ok |-> TRUE],
                                                  [pc |-> "rollback", key |-> k, slot |-> s]})
                    /\ (d = "unsubscribe" => x \in {[pc |-> "returned", ok |-> FALSE],
                                                    [pc |-> "release", key |-> k, slot |-> s]})
    BY <2>1, <2>2 DEF Tells
  <2>5. call[c] # Idle
    BY <2>3 DEF Idle
  <2>6. \A e \in Callers : e # c => call[e] = Idle
    BY <1>1, <2>5, OneCaller
  <2>7. /\ task # NoTask /\ task.caller = c /\ k = task.key /\ s < nextID
        /\ closed \/ routeOwners[task.key] = s
        /\ d = "subscribe" => task.op = "first"
        /\ d = "unsubscribe" => task.op \in {"last", "close"}
    BY <1>1, <2>2, <2>3, <2>5 DEF CallInv
  <2>8. s # NoSlot
    BY <1>1, <2>2, <2>3, CallFields, SlotsType
  <2>9. FineAfter(c, x)
    <3>1. CASE d = "subscribe" /\ x = [pc |-> "returned", ok |-> TRUE]
      <4>1. x.pc = "returned" /\ x.ok = TRUE
        BY <3>1
      <4> QED
        BY <2>3, <2>7, <2>8, <3>1, <4>1 DEF FineAfter
    <3>2. CASE d = "subscribe" /\ x = [pc |-> "rollback", key |-> k, slot |-> s]
      <4>1. x.pc = "rollback" /\ x.key = k /\ x.slot = s
        BY <3>2
      <4> QED
        BY <2>3, <2>7, <2>8, <3>2, <4>1 DEF FineAfter
    <3>3. CASE d = "unsubscribe" /\ x = [pc |-> "returned", ok |-> FALSE]
      <4>1. x.pc = "returned" /\ x.ok = FALSE /\ task.op # "first"
        BY <2>7, <3>3
      <4> QED
        BY <2>3, <2>7, <2>8, <3>3, <4>1 DEF FineAfter
    <3>4. CASE d = "unsubscribe" /\ x = [pc |-> "release", key |-> k, slot |-> s]
      <4>1. x.pc = "release" /\ x.key = k /\ x.slot = s
        BY <3>4
      <4> QED
        BY <2>3, <2>7, <2>8, <3>4, <4>1 DEF FineAfter
    <3> QED
      BY <2>4, <3>1, <3>2, <3>3, <3>4
  <2> QED
    BY <2>4, <2>6, <2>9, CallGoesOn
<1>7. CASE \E c \in Callers : Places(c)
  <2>1. PICK c \in Callers : Places(c)
    BY <1>7
  <2>2. PICK k : k = call[c].key
    OBVIOUS
  <2>3. PICK s \in SlotIDs :
              /\ OneCall(c, [pc |-> "subscribe", key |-> k, slot |-> s, existed |-> FALSE])
              /\ routeOwners' = [routeOwners EXCEPT ![k] = s]
    BY <2>1, <2>2 DEF Places
  <2>4. call[c].pc = "acquire" /\ call[c] # Idle /\ UNCHANGED task /\ RegistryInv'
    <3>1. Kinds
      BY <1>7 DEF Kinds
    <3> QED
      BY <2>1, RegistryKept DEF Places, ClientSame, Idle
  <2>5. k \in Keys /\ task # NoTask /\ task.caller = c /\ task.op = "first" /\ k = task.key
    BY <1>1, <2>2, <2>4, CallFields DEF CallInv
  <2>6. routeOwners'[k] = s
    BY <1>1, <2>3, <2>5 DEF Types
  <2>7. s < nextID'
    <3>1. InRegistry(s)'
      <4>1. s # NoSlot
        BY <1>1, SlotsType
      <4>2. (InRegistry(routeOwners[k]))'
        BY <2>4, <2>5, <2>6, <4>1 DEF RegistryInv, OwnersLive
      <4> QED
        BY <2>6, <4>2 DEF InRegistry
    <3> QED
      BY <2>4, <3>1 DEF RegistryInv, SlotsInv, InRegistry
  <2>8. PICK x : x = [pc |-> "subscribe", key |-> k, slot |-> s, existed |-> FALSE]
    OBVIOUS
  <2>9. /\ x.pc = "subscribe" /\ x.key = k /\ x.slot = s /\ x.existed = FALSE
    BY <2>8
  <2>10. FineAfter(c, x)
    BY <2>4, <2>5, <2>6, <2>7, <2>9 DEF FineAfter
  <2>11. \A d \in Callers : d # c => call[d] = Idle
    BY <1>1, <2>4, OneCaller
  <2> QED
    BY <2>3, <2>8, <2>10, <2>11, CallGoesOn
<1>8. CASE \E c \in Callers : Drops(c)
  <2>1. PICK c \in Callers : Drops(c)
    BY <1>8
  <2>2. PICK k : k = call[c].key
    OBVIOUS
  <2>3. /\ call[c].pc \in {"rollback", "release"} /\ call[c] # Idle /\ UNCHANGED task
        /\ routeOwners' = [routeOwners EXCEPT ![k] = NoSlot]
    BY <2>1, <2>2 DEF Drops, ClientSame, Idle
  <2>4. /\ k \in Keys /\ task # NoTask /\ task.caller = c /\ k = task.key
        /\ call[c].pc = "rollback" => task.op = "first"
        /\ call[c].pc = "release" => task.op \in {"last", "close"}
    BY <1>1, <2>2, <2>3, CallFields DEF CallInv
  <2>5. routeOwners'[k] = NoSlot
    BY <1>1, <2>3, <2>4 DEF Types
  <2>6. PICK x : x = [pc |-> "returned", ok |-> call[c].pc = "release"]
    OBVIOUS
  <2>7. x.pc = "returned" /\ (x.ok <=> call[c].pc = "release")
    BY <2>6
  <2>8. FineAfter(c, x)
    BY <2>3, <2>4, <2>5, <2>7 DEF FineAfter
  <2>9. \A d \in Callers : d # c => call[d] = Idle
    BY <1>1, <2>3, OneCaller
  <2> QED
    BY <2>1, <2>6, <2>8, <2>9, CallGoesOn DEF Drops
<1>9. CASE \E c \in Callers : Enters(c)
  <2>1. PICK c \in Callers : Enters(c)
    BY <1>9
  <2>2. PICK t \in Tasks :
          /\ task' = t /\ t.caller = c
          /\ OneCall(c, [pc |-> IF t.op = "first" THEN "acquire" ELSE "owner", key |-> t.key])
          /\ \/ t.op = "first" /\ routes[t.key] = {}
             \/ t.op \in {"last", "close"} /\ routes[t.key] # {}
    BY <2>1 DEF Enters
  <2>3. task = NoTask /\ UNCHANGED <<closed, routeOwners>> /\ t # NoTask /\ t.key \in Keys
    BY <2>1, <2>2 DEF Enters, RegistrySame, Tasks, NoTask
  <2>9. PICK p : p = IF t.op = "first" THEN "acquire" ELSE "owner"
    OBVIOUS
  <2>4. PICK x : x = [pc |-> p, key |-> t.key]
    OBVIOUS
  <2>5. x.key = t.key /\ ((t.op = "first" /\ x.pc = "acquire") \/ (t.op # "first" /\ x.pc = "owner"))
    <3>1. x.key = t.key /\ x.pc = p
      BY <2>4
    <3> QED
      BY <2>9, <3>1
  <2>6. ~closed => (routeOwners[t.key] # NoSlot <=> routes[t.key] # {})
    BY <2>3 DEF LsInv, HoldInv
  <2>7. FineAfter(c, x)
    BY <2>2, <2>3, <2>5, <2>6 DEF FineAfter
  <2>8. \A d \in Callers : d # c => call[d] = Idle
    BY <1>1, <2>3, OneCaller
  <2> QED
    BY <2>2, <2>4, <2>7, <2>8, <2>9, CallGoesOn
<1>10. CASE \E c \in Callers : Finishes(c)
  <2>1. PICK c \in Callers : Finishes(c)
    BY <1>10
  <2>2. OneCall(c, Idle) /\ task # NoTask /\ task.caller = c
    BY <2>1 DEF Finishes
  <2>3. \A d \in Callers : d # c => call[d] = Idle
    BY <1>1, <2>2, OneCaller
  <2>4. FineAfter(c, Idle)
    BY DEF FineAfter
  <2> QED
    BY <2>2, <2>3, <2>4, CallGoesOn
<1> QED
  BY <1>2, <1>3, <1>4, <1>5, <1>6, <1>7, <1>8, <1>9, <1>10 DEF Kinds

\* Every step keeps the routes that no call is about registered while they are held.
LEMMA HoldKept ==
    ASSUME LsInv, Kinds
    PROVE  HoldInv'
<1>1. Types /\ CallInv /\ HoldInv
  BY DEF LsInv
<1>2. /\ routeOwners \in [Keys -> SlotIDs \union {NoSlot}] /\ NoSlot \notin SlotIDs
      /\ routes \in [Keys -> SUBSET Ids] /\ nextSubscriberID \in Nat /\ Ids \subseteq Nat
      /\ task \in {NoTask} \union Tasks
  BY <1>1, SlotsType, ClientLimits DEF Types, Ids
<1>3. task # NoTask => task \in Tasks /\ task.key \in Keys /\ task.op \in {"first", "last", "close"}
  BY <1>2 DEF Tasks
<1>4. CASE UNCHANGED <<closed, routeOwners>> /\ ClientSame
  BY <1>1, <1>4 DEF HoldInv, ClientSame
<1>5. CASE Shuts
  BY <1>1, <1>5 DEF HoldInv, Shuts, ClientSame
<1>6. CASE \E c \in Callers : Places(c) \/ Drops(c)
  <2>1. PICK c \in Callers : Places(c) \/ Drops(c)
    BY <1>6
  <2>2. PICK k : k = call[c].key
    OBVIOUS
  <2>3. /\ \E n : routeOwners' = [routeOwners EXCEPT ![k] = n]
        /\ call[c].pc \in {"acquire", "rollback", "release"} /\ ClientSame /\ UNCHANGED closed
    BY <2>1, <2>2 DEF Places, Drops
  <2>4. task # NoTask /\ task.key = k
    <3>1. call[c] # Idle /\ call[c].pc # "returned"
      BY <2>3 DEF Idle
    <3> QED
      BY <1>1, <2>2, <3>1 DEF CallInv
  <2>5. \A j \in Keys : j # k => routeOwners'[j] = routeOwners[j]
    BY <1>2, <2>3
  <2> QED
    BY <1>1, <2>3, <2>4, <2>5 DEF HoldInv, ClientSame
<1>7. CASE \E c \in Callers : Enters(c)
  <2>1. PICK c \in Callers : Enters(c)
    BY <1>7
  <2>2. UNCHANGED <<routes, closed, routeOwners>> /\ task = NoTask
    BY <2>1 DEF Enters, RegistrySame
  <2>3. PICK t \in Tasks :
          /\ task' = t
          /\ \/ /\ t.op = "first" /\ routes[t.key] = {} /\ t.id = nextSubscriberID + 1
                /\ t.id \in Ids /\ nextSubscriberID' = nextSubscriberID + 1
             \/ t.op = "last" /\ routes[t.key] = {t.id} /\ UNCHANGED nextSubscriberID
             \/ t.op = "close" /\ routes[t.key] # {} /\ UNCHANGED nextSubscriberID
    BY <2>1 DEF Enters
  <2>4. \A k \in Keys : \A id \in routes[k] : id <= nextSubscriberID /\ id \in Nat
    BY <1>1, <1>2 DEF HoldInv
  <2>5. nextSubscriberID' = nextSubscriberID \/ nextSubscriberID' = nextSubscriberID + 1
    BY <2>3
  <2>6. \A k \in Keys : \A id \in routes'[k] : id <= nextSubscriberID'
    BY <1>2, <2>2, <2>4, <2>5
  <2>7. \A k \in Keys : ~closed' => (routeOwners'[k] # NoSlot <=> routes'[k] # {})
    BY <1>1, <2>2 DEF HoldInv
  <2>8. CASE t.op = "first"
    <3>1. routes[t.key] = {} /\ t.id = nextSubscriberID + 1 /\ t.id \in Ids /\ nextSubscriberID' = nextSubscriberID + 1
      BY <2>3, <2>8
    <3>2. \A k \in Keys : t.id \notin routes[k]
      BY <1>2, <2>4, <3>1
    <3>3. t.id <= nextSubscriberID'
      BY <1>2, <3>1
    <3> QED
      BY <2>2, <2>3, <2>6, <2>7, <2>8, <3>1, <3>2, <3>3 DEF HoldInv
  <2>9. CASE t.op # "first"
    BY <2>2, <2>3, <2>6, <2>7, <2>9 DEF HoldInv
  <2> QED
    BY <2>8, <2>9
<1>8. CASE Joins
  <2>1. PICK k \in Keys : /\ routes[k] # {}
                          /\ routes' = [routes EXCEPT ![k] = @ \union {nextSubscriberID'}]
    BY <1>8 DEF Joins
  <2>2. /\ UNCHANGED <<closed, routeOwners, task>> /\ task = NoTask
        /\ nextSubscriberID' = nextSubscriberID + 1
    BY <1>8 DEF Joins, RegistrySame
  <2>3. /\ routes'[k] = routes[k] \union {nextSubscriberID'}
        /\ \A j \in Keys : j # k => routes'[j] = routes[j]
    BY <1>2, <2>1
  <2>4. \A j \in Keys : routes'[j] # {} <=> routes[j] # {}
    BY <2>1, <2>3
  <2>5. \A j \in Keys : \A id \in routes[j] : id <= nextSubscriberID /\ id \in Nat
    BY <1>1, <1>2 DEF HoldInv
  <2>6. \A j \in Keys : \A id \in routes'[j] : id <= nextSubscriberID'
    BY <1>2, <2>2, <2>3, <2>5
  <2> QED
    BY <1>1, <2>2, <2>4, <2>6 DEF HoldInv
<1>9. CASE Leaves
  <2>1. PICK k \in Keys, id \in Ids : routes[k] # {id} /\ routes' = [routes EXCEPT ![k] = @ \ {id}]
    BY <1>9 DEF Leaves
  <2>2. UNCHANGED <<closed, routeOwners, task, nextSubscriberID>> /\ task = NoTask
    BY <1>9 DEF Leaves, RegistrySame
  <2>3. /\ routes'[k] = routes[k] \ {id}
        /\ \A j \in Keys : j # k => routes'[j] = routes[j]
    BY <1>2, <2>1
  <2>4. \A j \in Keys : routes'[j] # {} <=> routes[j] # {}
    BY <2>1, <2>3
  <2>5. \A j \in Keys : \A i \in routes'[j] : i <= nextSubscriberID'
    BY <1>1, <2>2, <2>3 DEF HoldInv
  <2> QED
    BY <1>1, <2>2, <2>4, <2>5 DEF HoldInv
<1>10. CASE \E c \in Callers : Finishes(c)
  <2>1. PICK c \in Callers : Finishes(c)
    BY <1>10
  <2>2. PICK k, id : k = task.key /\ id = task.id
    OBVIOUS
  <2>3. /\ UNCHANGED <<closed, routeOwners, nextSubscriberID>>
        /\ task # NoTask /\ task.caller = c /\ call[c].pc = "returned" /\ task' = NoTask
        /\ \/ call[c].ok /\ routes' = [routes EXCEPT ![k] = Remaining]
           \/ ~call[c].ok /\ UNCHANGED routes
    BY <2>1, <2>2 DEF Finishes, RegistrySame
  <2>4. k \in Keys /\ task.op \in {"first", "last", "close"} /\ call[c].ok \in BOOLEAN
    BY <1>1, <1>3, <2>2, <2>3, CallFields
  <2>5. ~closed => (routeOwners[k] # NoSlot <=> (task.op = "first" <=> call[c].ok))
    <3>1. call[c] # Idle
      BY <2>3 DEF Idle
    <3> QED
      BY <1>1, <2>2, <2>3, <3>1 DEF CallInv
  <2>6. /\ task.op = "first" => routes[k] = {} /\ id <= nextSubscriberID
        /\ task.op = "last" => routes[k] = {id}
        /\ task.op = "close" => routes[k] # {}
    BY <1>1, <2>2, <2>3 DEF HoldInv
  <2>7. /\ task.op = "first" => Remaining = {id}
        /\ task.op # "first" => Remaining = {}
    BY <2>2, <2>4, <2>6 DEF Remaining
  <2>8. /\ call[c].ok => routes'[k] = Remaining
        /\ ~call[c].ok => routes'[k] = routes[k]
        /\ \A j \in Keys : j # k => routes'[j] = routes[j]
    BY <1>2, <2>3, <2>4
  <2>9. ~closed => (routeOwners[k] # NoSlot <=> routes'[k] # {})
    BY <2>4, <2>5, <2>6, <2>7, <2>8
  <2>10. \A j \in Keys : ~closed' => (routeOwners'[j] # NoSlot <=> routes'[j] # {})
    <3> SUFFICES ASSUME NEW j \in Keys, ~closed
                 PROVE  routeOwners[j] # NoSlot <=> routes'[j] # {}
      BY <2>3
    <3>1. CASE j = k
      BY <2>9, <3>1
    <3>2. CASE j # k
      BY <1>1, <2>2, <2>8, <3>2 DEF HoldInv
    <3> QED
      BY <3>1, <3>2
  <2>11. \A j \in Keys : \A i \in routes'[j] : i <= nextSubscriberID'
    <3> SUFFICES ASSUME NEW j \in Keys, NEW i \in routes'[j] PROVE i <= nextSubscriberID
      BY <2>3
    <3>1. i \in routes[j] \/ (task.op = "first" /\ i = id)
      BY <2>4, <2>7, <2>8
    <3> QED
      BY <1>1, <2>6, <3>1 DEF HoldInv
  <2> QED
    BY <2>3, <2>10, <2>11 DEF HoldInv
<1>11. \/ UNCHANGED <<closed, routeOwners>> /\ ClientSame
       \/ Shuts \/ Joins \/ Leaves
       \/ \E c \in Callers : Places(c) \/ Drops(c) \/ Enters(c) \/ Finishes(c)
  BY DEF Kinds, Quiet, CallOnly, Tells, Handles, ClosesIdle, StopsSlot, Stops, OpensPrimary, RegistrySame
<1> QED
  BY <1>4, <1>5, <1>6, <1>7, <1>8, <1>9, <1>10, <1>11


-----------------------------------------------------------------------------
(* What the muxes were asked for.                                           *)

\* A command that joins a queue decides its route, and no other.
LEMMA FinalAppend ==
    ASSUME NEW q \in Seq(Commands), NEW x \in Commands, NEW k, NEW keys
    PROVE  Final(Append(q, x), keys, k) <=>
             IF x.key = k THEN x.kind = "subscribe" ELSE Final(q, keys, k)
<1>1. PICK p : p = Append(q, x)
  OBVIOUS
<1>2. PICK N : N = Len(q)
  OBVIOUS
<1>3. /\ N \in Nat /\ DOMAIN q = 1..N /\ DOMAIN p = 1..(N + 1) /\ p[N + 1] = x
      /\ \A i \in 1..N : p[i] = q[i]
  <2>1. N \in Nat /\ DOMAIN q = 1..N
    BY <1>2
  <2>2. Len(p) = N + 1 /\ DOMAIN p = 1..(N + 1) /\ p[N + 1] = x
    BY <1>1, <1>2, <2>1
  <2>3. \A i \in 1..N : p[i] = q[i]
    BY <1>1, <1>2, <2>1
  <2> QED
    BY <2>1, <2>2, <2>3
<1>4. CASE x.key = k
  <2>1. N + 1 \in About(p, k) /\ \A i \in About(p, k) : i <= N + 1 /\ i \in Nat
    BY <1>3, <1>4 DEF About
  <2>2. \A i \in About(p, k) : (\A j \in About(p, k) : j <= i) => i = N + 1
    BY <1>3, <2>1
  <2> QED
    BY <1>1, <1>3, <1>4, <2>1, <2>2 DEF Final
<1>5. CASE x.key # k
  <2>1. About(p, k) = About(q, k)
    BY <1>3, <1>5 DEF About
  <2>2. \A i \in About(q, k) : p[i] = q[i]
    BY <1>3 DEF About
  <2> QED
    BY <1>1, <1>5, <2>1, <2>2 DEF Final
<1> QED
  BY <1>4, <1>5

\* A command that leaves its queue and is handled changes nothing for any route.
LEMMA FinalTail ==
    ASSUME NEW q \in Seq(Commands), q # <<>>, NEW k, NEW keys, NEW next,
           Head(q).key = k => (k \in next <=> Head(q).kind = "subscribe"),
           Head(q).key # k => (k \in next <=> k \in keys)
    PROVE  Final(Tail(q), next, k) <=> Final(q, keys, k)
<1>1. PICK p : p = Tail(q)
  OBVIOUS
<1>2. PICK N : N = Len(q)
  OBVIOUS
<1>3. PICK all : all = About(q, k)
  OBVIOUS
<1>4. PICK rest : rest = About(p, k)
  OBVIOUS
<1>5. /\ N \in Nat /\ N >= 1 /\ DOMAIN q = 1..N /\ DOMAIN p = 1..(N - 1) /\ Head(q) = q[1]
      /\ \A i \in 1..(N - 1) : p[i] = q[i + 1]
  <2>1. N \in Nat /\ N # 0 /\ DOMAIN q = 1..N
    BY <1>2
  <2>2. p \in Seq(Commands) /\ Len(p) = N - 1
    BY <1>1, <1>2
  <2>3. DOMAIN p = 1..(N - 1)
    BY <2>2
  <2>4. \A i \in 1..(N - 1) : p[i] = q[i + 1]
    BY <1>1, <1>2
  <2> QED
    BY <2>1, <2>3, <2>4
<1>6. /\ all = {i \in 1..N : q[i].key = k}
      /\ rest = {i \in 1..(N - 1) : q[i + 1].key = k}
  BY <1>3, <1>4, <1>5 DEF About
<1>7. /\ Final(q, keys, k) <=>
           IF all = {} THEN k \in keys
           ELSE \E i \in all : (\A j \in all : j <= i) /\ q[i].kind = "subscribe"
      /\ Final(p, next, k) <=>
           IF rest = {} THEN k \in next
           ELSE \E i \in rest : (\A j \in rest : j <= i) /\ q[i + 1].kind = "subscribe"
  <2>1. \A i \in rest : p[i] = q[i + 1]
    BY <1>5, <1>6
  <2> QED
    BY <1>3, <1>4, <2>1 DEF Final
<1>8. /\ \A i \in rest : i + 1 \in all
      /\ \A i \in all : i = 1 \/ i - 1 \in rest
      /\ all \subseteq Nat /\ rest \subseteq Nat /\ 0 \notin rest
      /\ 1 \in all <=> Head(q).key = k
  BY <1>5, <1>6
<1>9. CASE rest = {}
  <2>1. CASE Head(q).key = k
    <3>1. all = {1}
      BY <1>8, <1>9, <2>1
    <3> QED
      BY <1>1, <1>5, <1>7, <1>9, <2>1, <3>1
  <2>2. CASE Head(q).key # k
    <3>1. all = {}
      BY <1>8, <1>9, <2>2
    <3> QED
      BY <1>1, <1>7, <1>9, <2>2, <3>1
  <2> QED
    BY <2>1, <2>2
<1>10. CASE rest # {}
  <2>1. all # {} /\ \A i \in all : (\A j \in all : j <= i) => i # 1
    <3>1. PICK i \in rest : TRUE
      BY <1>10
    <3>2. i + 1 \in all /\ i \in Nat /\ i >= 1
      BY <1>8
    <3> QED
      BY <3>2
  <2>2. ASSUME NEW i \in rest
        PROVE  (\A j \in rest : j <= i) <=> (\A j \in all : j <= i + 1)
    BY <1>8
  <2>3. ASSUME NEW i \in all, i # 1
        PROVE  i - 1 \in rest /\ (i - 1) + 1 = i
    BY <1>8, <2>3
  <2> QED
    BY <1>1, <1>7, <1>8, <1>10, <2>1, <2>2, <2>3
<1> QED
  BY <1>9, <1>10

\* With no command queued a mux has what it will have.
LEMMA FinalEmpty ==
    ASSUME NEW keys, NEW k
    PROVE  Final(<<>>, keys, k) <=> k \in keys
BY DEF Final, About

\* Where the one call under way goes from and to.
LEMMA BetweenOne ==
    ASSUME CallInv, NEW c \in Callers, NEW x, OneCall(c, x),
           call[c] # Idle \/ task = NoTask, NEW s, NEW k
    PROVE  /\ Between(s, k) <=> BetweenBy(call[c], s, k)
           /\ Between(s, k)' <=> BetweenBy(x, s, k)
<1>1. \A d \in Callers : d # c => call[d] = Idle /\ call'[d] = Idle
  BY OneCaller DEF OneCall
<1>2. ~BetweenBy(Idle, s, k)
  BY DEF BetweenBy, Idle
<1>3. call'[c] = x
  BY DEF OneCall
<1> QED
  BY <1>1, <1>2, <1>3 DEF Between

\* What holds of a slot and a route.
Intent(s, k) ==
    InRegistry(s) /\ ~mux[s].stopped /\ <<s, k>> \notin faulty =>
        (Final(mux[s].queue, mux[s].subs, k) <=> k \in slot[s].routes /\ ~Between(s, k))

\* A step that touches neither a slot's routes nor its commands nor a call about it.
LEMMA IntentStays ==
    ASSUME NEW s \in SlotIDs, NEW k \in Keys, Intent(s, k),
           InRegistry(s)' => InRegistry(s), mux[s].stopped => mux'[s].stopped,
           faulty \subseteq faulty',
           \/ mux'[s].queue = mux[s].queue /\ mux'[s].subs = mux[s].subs
           \/ mux'[s].stopped,
           k \in slot'[s].routes <=> k \in slot[s].routes,
           Between(s, k)' <=> Between(s, k)
    PROVE  Intent(s, k)'
BY DEF Intent

\* The registry is unchanged: it has the same slots, with the same routes.
LEMMA SameRoutes ==
    ASSUME RegistrySame, NEW s \in SlotIDs
    PROVE  (InRegistry(s)' <=> InRegistry(s)) /\ slot'[s].routes = slot[s].routes
BY DEF RegistrySame, SameSlots, Alike, InRegistry


\* A call that goes on without its mux.
LEMMA CallOnlyKeepsIntent ==
    ASSUME LsInv, NEW c \in Callers, CallOnly(c), NEW s \in SlotIDs, NEW k \in Keys
    PROVE  Intent(s, k)'
<1>1. CallInv /\ Types /\ Intent(s, k)
  BY DEF LsInv, IntentInv, Intent
<1>2. PICK x \in Calls :
          /\ OneCall(c, x)
          /\ \/ call[c].pc = "acquire" /\ x = [pc |-> "returned", ok |-> FALSE]
             \/ call[c].pc = "owner" /\ closed /\ x = [pc |-> "returned", ok |-> FALSE]
             \/ /\ call[c].pc = "owner" /\ ~closed /\ routeOwners[call[c].key] # NoSlot
                /\ x = [pc |-> "unsubscribe", key |-> call[c].key,
                        slot |-> routeOwners[call[c].key]]
             \/ /\ call[c].pc = "subscribe"
                /\ x = [pc |-> "rollback", key |-> call[c].key, slot |-> call[c].slot]
             \/ call[c].pc = "unsubscribe" /\ x = [pc |-> "returned", ok |-> FALSE]
             \/ call[c].pc = "rollback" /\ closed /\ x = [pc |-> "returned", ok |-> FALSE]
             \/ call[c].pc = "release" /\ closed /\ x = [pc |-> "returned", ok |-> TRUE]
  BY DEF CallOnly
<1>3. RegistrySame /\ MuxSame
  BY DEF CallOnly
<1>4. call[c] # Idle
  BY <1>2 DEF Idle
<1>5. (Between(s, k) <=> BetweenBy(call[c], s, k)) /\ (Between(s, k)' <=> BetweenBy(x, s, k))
  BY <1>1, <1>2, <1>4, BetweenOne
<1>6. CASE ~InRegistry(s)
  BY <1>3, <1>6, SameRoutes DEF Intent
<1>7. CASE InRegistry(s)
  <2>1. closed /\ call[c].pc \in {"rollback", "release"} => call[c].slot # s
    BY <1>7, CallsSlot
  <2>2. BetweenBy(x, s, k) <=> BetweenBy(call[c], s, k)
    BY <1>2, <2>1 DEF BetweenBy
  <2> QED
    BY <1>1, <1>3, <1>5, <2>2, SameRoutes, IntentStays DEF MuxSame
<1> QED
  BY <1>6, <1>7

\* A call enters or ends: it is about no slot before or after.
LEMMA EndsKeepIntent ==
    ASSUME LsInv, NEW c \in Callers, Enters(c) \/ Finishes(c), NEW s \in SlotIDs, NEW k \in Keys
    PROVE  Intent(s, k)'
<1>1. CallInv /\ Types /\ Intent(s, k)
  BY DEF LsInv, IntentInv, Intent
<1>2. PICK x : /\ OneCall(c, x)
               /\ x = Idle \/ x.pc \in {"acquire", "owner"}
               /\ task = NoTask \/ call[c].pc = "returned"
  BY DEF Enters, Finishes
<1>3. RegistrySame /\ MuxSame
  BY DEF Enters, Finishes
<1>4. task = NoTask => call[c] = Idle
  BY <1>1, OneCaller
<1>5. call[c] # Idle \/ task = NoTask
  BY <1>2 DEF Idle
<1>6. (Between(s, k) <=> BetweenBy(call[c], s, k)) /\ (Between(s, k)' <=> BetweenBy(x, s, k))
  BY <1>1, <1>2, <1>5, BetweenOne
<1>7. ~BetweenBy(x, s, k) /\ ~BetweenBy(call[c], s, k)
  BY <1>2, <1>4 DEF BetweenBy, Idle
<1> QED
  BY <1>1, <1>3, <1>6, <1>7, SameRoutes, IntentStays DEF MuxSame

\* A mux handles the first of its commands.
LEMMA HandlesKeepsIntent ==
    ASSUME LsInv, NEW t \in SlotIDs, Handles(t), NEW s \in SlotIDs, NEW k \in Keys
    PROVE  Intent(s, k)'
<1>1. Types /\ Intent(s, k)
  BY DEF LsInv, IntentInv, Intent
<1>2. RegistrySame /\ UNCHANGED call
  BY DEF Handles
<1>3. Between(s, k)' <=> Between(s, k)
  BY <1>2 DEF Between
<1>4. PICK q : q = mux[t].queue
  OBVIOUS
<1>5. PICK n : n = mux'[t].subs
  OBVIOUS
<1>6. /\ q # <<>> /\ ~mux[t].stopped /\ mux'[t].queue = Tail(q)
      /\ HandledAs(t, Head(q).kind, Head(q).key, n)
      /\ \A u \in SlotIDs : u # t => mux'[u] = mux[u]
  BY <1>4, <1>5 DEF Handles, OneClient
<1>7. faulty \subseteq faulty'
  BY <1>6 DEF HandledAs
<1>8. CASE s # t
  BY <1>1, <1>2, <1>3, <1>6, <1>7, <1>8, SameRoutes, IntentStays
<1>9. CASE s = t
  <2>1. q \in Seq(Commands)
    BY <1>1, <1>4, Fields
  <2> SUFFICES ASSUME InRegistry(s)', ~mux'[s].stopped, <<s, k>> \notin faulty'
               PROVE  Final(mux'[s].queue, mux'[s].subs, k) <=> k \in slot'[s].routes /\ ~Between(s, k)'
    BY DEF Intent
  <2>2. Head(q).key = k => (k \in n <=> Head(q).kind = "subscribe")
    BY <1>6, <1>9 DEF HandledAs
  <2>3. Head(q).key # k => (k \in n <=> k \in mux[s].subs)
    BY <1>6, <1>9 DEF HandledAs
  <2>4. Final(Tail(q), n, k) <=> Final(q, mux[s].subs, k)
    BY <1>6, <2>1, <2>2, <2>3, FinalTail
  <2>5. Final(q, mux[s].subs, k) <=> k \in slot[s].routes /\ ~Between(s, k)
    BY <1>1, <1>2, <1>4, <1>6, <1>7, <1>9, SameRoutes DEF Intent
  <2> QED
    BY <1>2, <1>3, <1>5, <1>6, <1>9, <2>4, <2>5, SameRoutes
<1> QED
  BY <1>8, <1>9

\* A caller commands its mux: what the mux will have is then what the caller meant.
LEMMA TellsKeepsIntent ==
    ASSUME LsInv, NEW c \in Callers, NEW d \in {"subscribe", "unsubscribe"}, Tells(c, d),
           NEW s \in SlotIDs, NEW k \in Keys
    PROVE  Intent(s, k)'
<1>1. Types /\ CallInv /\ Intent(s, k)
  BY DEF LsInv, IntentInv, Intent
<1>2. PICK t : t = call[c].slot
  OBVIOUS
<1>3. PICK j : j = call[c].key
  OBVIOUS
<1>4. PICK onOk : onOk = IF d = "subscribe" THEN [pc |-> "returned", ok |-> TRUE]
                         ELSE [pc |-> "release", key |-> j, slot |-> t]
  OBVIOUS
<1>5. PICK onError : onError = IF d = "subscribe" THEN [pc |-> "rollback", key |-> j, slot |-> t]
                               ELSE [pc |-> "returned", ok |-> FALSE]
  OBVIOUS
<1>6. /\ RegistrySame /\ call[c].pc = d /\ ~mux[t].stopped
      /\ \A u \in SlotIDs : u # t => mux'[u] = mux[u]
      /\ \/ /\ OneCall(c, onOk) /\ UNCHANGED faulty /\ mux'[t].subs = mux[t].subs
            /\ mux'[t].queue = Append(mux[t].queue, [kind |-> d, key |-> j])
         \/ /\ mux[t].queue = <<>> /\ mux'[t].queue = <<>>
            /\ HandledAs(t, d, j, mux'[t].subs)
            /\ \/ OneCall(c, onOk) /\ faulty' = faulty
               \/ OneCall(c, onError) /\ <<t, j>> \in faulty'
               \/ OneCall(c, onError) /\ d = "subscribe" /\ j \in mux[t].subs
  BY <1>2, <1>3, <1>4, <1>5 DEF Tells, OneClient
<1>7. faulty \subseteq faulty'
  BY <1>6 DEF HandledAs
<1>8. PICK x : OneCall(c, x) /\ x = call'[c] /\ x \in {onOk, onError}
  BY <1>6 DEF OneCall
<1>9. call[c] # Idle
  BY <1>6 DEF Idle
<1>10. (Between(s, k) <=> BetweenBy(call[c], s, k)) /\ (Between(s, k)' <=> BetweenBy(x, s, k))
  BY <1>1, <1>8, <1>9, BetweenOne
<1>11. t \in SlotIDs /\ j \in Keys /\ (InRegistry(t) => j \in slot[t].routes)
  BY <1>2, <1>3, <1>6, CallsSlot
<1>12. s # t \/ k # j => ~Between(s, k) /\ ~Between(s, k)'
  BY <1>2, <1>3, <1>4, <1>5, <1>8, <1>10 DEF BetweenBy
<1>13. CASE s # t
  BY <1>1, <1>6, <1>7, <1>12, <1>13, SameRoutes, IntentStays
<1>14. CASE s = t
  <2> SUFFICES ASSUME InRegistry(s)', ~mux'[s].stopped, <<s, k>> \notin faulty'
               PROVE  Final(mux'[s].queue, mux'[s].subs, k) <=> k \in slot'[s].routes /\ ~Between(s, k)'
    BY DEF Intent
  <2>1. InRegistry(s) /\ slot'[s].routes = slot[s].routes
    BY <1>6, SameRoutes
  <2>2. Final(mux[s].queue, mux[s].subs, k) <=> k \in slot[s].routes /\ ~Between(s, k)
    BY <1>1, <1>6, <1>7, <1>14, <2>1 DEF Intent
  <2>3. PICK q, n : q = mux[s].queue /\ n = mux[s].subs
    OBVIOUS
  <2>4. q \in Seq(Commands)
    BY <1>1, <2>3, Fields
  <2>5. PICK e : e = [kind |-> d, key |-> j]
    OBVIOUS
  <2>6. e \in Commands /\ e.key = j /\ e.kind = d
    BY <1>11, <2>5 DEF Commands
  <2>7. Final(Append(q, e), n, k) <=> IF j = k THEN d = "subscribe" ELSE Final(q, n, k)
    BY <2>4, <2>6, FinalAppend
  <2>8. CASE k # j
    <3>1. CASE mux'[t].subs = n /\ mux'[t].queue = Append(q, e)
      BY <1>12, <1>14, <2>1, <2>2, <2>3, <2>7, <2>8, <3>1
    <3>2. CASE q = <<>> /\ mux'[t].queue = <<>> /\ HandledAs(t, d, j, mux'[t].subs)
      <4>1. k \in mux'[t].subs <=> k \in n
        BY <1>14, <2>3, <2>8, <3>2 DEF HandledAs
      <4>2. Final(mux'[s].queue, mux'[s].subs, k) <=> Final(q, n, k)
        BY <1>14, <3>2, <4>1, FinalEmpty
      <4> QED
        BY <1>12, <2>1, <2>2, <2>3, <2>8, <4>2
    <3> QED
      BY <1>6, <1>14, <2>3, <2>5, <3>1, <3>2
  <2>9. CASE k = j
    <3>1. Between(s, k) <=> d = "subscribe"
      BY <1>2, <1>3, <1>6, <1>10, <1>14, <2>9 DEF BetweenBy
    <3>2. BetweenBy(onOk, s, k) <=> d # "subscribe"
      BY <1>4, <1>14, <2>9 DEF BetweenBy
    <3>3. k \in slot'[s].routes
      BY <1>11, <1>14, <2>1, <2>9
    <3>4. CASE x = onOk /\ mux'[t].subs = n /\ mux'[t].queue = Append(q, e)
      BY <1>10, <1>14, <2>7, <2>9, <3>2, <3>3, <3>4
    <3>5. CASE q = <<>> /\ mux'[t].queue = <<>> /\ HandledAs(t, d, j, mux'[t].subs)
      <4>1. k \in mux'[t].subs <=> d = "subscribe"
        BY <1>14, <2>9, <3>5 DEF HandledAs
      <4>2. Final(mux'[s].queue, mux'[s].subs, k) <=> d = "subscribe"
        BY <1>14, <3>5, <4>1, FinalEmpty
      <4>3. x = onOk
        <5>1. SUFFICES ASSUME d = "subscribe", k \in n PROVE FALSE
          BY <1>6, <1>8, <1>14, <2>3, <2>9 DEF OneCall
        <5>2. Final(q, n, k)
          BY <3>5, <5>1, FinalEmpty
        <5> QED
          BY <2>2, <2>3, <3>1, <5>1, <5>2
      <4> QED
        BY <1>10, <3>2, <3>3, <4>2, <4>3
    <3> QED
      BY <1>6, <1>8, <1>14, <2>3, <2>5, <3>4, <3>5 DEF OneCall
  <2> QED
    BY <2>8, <2>9
<1> QED
  BY <1>13, <1>14


\* start makes a slot whose client was asked nothing.
LEMMA PrimaryKeepsIntent ==
    ASSUME LsInv, OpensPrimary, NEW s \in SlotIDs, NEW k \in Keys
    PROVE  Intent(s, k)'
<1>1. Types /\ UnusedInv
  BY DEF LsInv
<1>2. slots' = <<nextID>> /\ UNCHANGED mux /\ slot'[s].routes = slot[s].routes
  BY DEF OpensPrimary, MuxSame, SameSlots, Alike
<1>3. CASE s # nextID
  BY <1>2, <1>3 DEF Intent, InRegistry
<1>4. CASE s = nextID
  <2>1. s >= nextID
    BY <1>1, <1>4, SlotsType
  <2>2. slot[s].routes = {} /\ mux[s].queue = <<>> /\ mux[s].subs = {}
    BY <1>1, <2>1 DEF UnusedInv
  <2>3. slot'[s].routes = {} /\ mux'[s].queue = <<>> /\ mux'[s].subs = {}
    BY <1>2, <2>2
  <2>4. ~Final(mux'[s].queue, mux'[s].subs, k)
    BY <2>3, FinalEmpty
  <2> QED
    BY <2>3, <2>4 DEF Intent
<1> QED
  BY <1>3, <1>4

\* A route is placed on a slot whose mux will not have it yet.
LEMMA PlaceKeepsIntent ==
    ASSUME LsInv, NEW c \in Callers, Places(c), NEW s \in SlotIDs, NEW k \in Keys
    PROVE  Intent(s, k)'
<1>1. Types /\ CallInv /\ UnusedInv /\ OwnersLive /\ Intent(s, k)
  BY DEF LsInv, IntentInv, Intent
<1>2. PICK j : j = call[c].key
  OBVIOUS
<1>3. PICK t \in SlotIDs :
        /\ OneCall(c, [pc |-> "subscribe", key |-> j, slot |-> t, existed |-> FALSE])
        /\ \/ InRegistry(t) /\ UNCHANGED slots
           \/ t = nextID /\ slots' = Append(slots, t)
        /\ OneSlot(t, slot'[t]) /\ slot'[t].routes = slot[t].routes \union {j}
  BY <1>2 DEF Places
<1>4. call[c].pc = "acquire" /\ routeOwners[j] = NoSlot /\ UNCHANGED <<mux, faulty>>
  BY <1>2 DEF Places, MuxSame
<1>5. PICK x : x = [pc |-> "subscribe", key |-> j, slot |-> t, existed |-> FALSE]
  OBVIOUS
<1>6. x.pc = "subscribe" /\ x.key = j /\ x.slot = t /\ OneCall(c, x)
  BY <1>3, <1>5
<1>7. call[c] # Idle
  BY <1>4 DEF Idle
<1>8. (Between(s, k) <=> BetweenBy(call[c], s, k)) /\ (Between(s, k)' <=> BetweenBy(x, s, k))
  BY <1>1, <1>6, <1>7, BetweenOne
<1>9. ~Between(s, k) /\ (Between(s, k)' <=> s = t /\ k = j)
  BY <1>4, <1>6, <1>8 DEF BetweenBy
<1>10. InRegistry(s)' => InRegistry(s) \/ (s = t /\ t = nextID)
  <2>1. CASE UNCHANGED slots
    BY <2>1 DEF InRegistry
  <2>2. CASE t = nextID /\ slots' = Append(slots, t)
    <3>1. slots \in Seq(SlotIDs)
      BY <1>1 DEF Types
    <3>2. /\ DOMAIN slots' = 1..(Len(slots) + 1) /\ DOMAIN slots = 1..Len(slots) /\ Len(slots) \in Nat
          /\ \A i \in DOMAIN slots : slots'[i] = slots[i]
          /\ slots'[Len(slots) + 1] = t
      BY <2>2, <3>1
    <3>3. ASSUME NEW i \in DOMAIN slots', slots'[i] = s PROVE InRegistry(s) \/ s = t
      <4>1. i \in DOMAIN slots \/ i = Len(slots) + 1
        BY <3>2
      <4> QED
        BY <3>2, <3>3, <4>1 DEF InRegistry
    <3> QED
      BY <2>2, <3>3 DEF InRegistry
  <2> QED
    BY <1>3, <2>1, <2>2
<1>11. CASE InRegistry(s)
  <2>1. CASE s = t /\ k = j
    <3>1. k \notin slot[s].routes
      <4>1. NoSlot # s
        BY <1>1, SlotsType
      <4> QED
        BY <1>1, <1>4, <1>11, <2>1, <4>1 DEF OwnersLive
    <3>2. ~mux[s].stopped /\ <<s, k>> \notin faulty => ~Final(mux[s].queue, mux[s].subs, k)
      BY <1>1, <1>11, <3>1 DEF Intent
    <3> QED
      BY <1>4, <1>9, <2>1, <3>2 DEF Intent
  <2>2. CASE ~(s = t /\ k = j)
    <3>1. k \in slot'[s].routes <=> k \in slot[s].routes
      BY <1>3, <2>2 DEF OneSlot
    <3> QED
      BY <1>1, <1>4, <1>9, <1>11, <2>2, <3>1, IntentStays
  <2> QED
    BY <2>1, <2>2
<1>12. CASE s = t /\ t = nextID
  <2>1. s >= nextID
    BY <1>1, <1>12, SlotsType
  <2>2. slot[s].routes = {} /\ mux[s].queue = <<>> /\ mux[s].subs = {}
    BY <1>1, <2>1 DEF UnusedInv
  <2>3. ~Final(mux'[s].queue, mux'[s].subs, k)
    BY <1>4, <2>2, FinalEmpty
  <2>4. k \in slot'[s].routes => k = j
    BY <1>3, <1>12, <2>2
  <2> QED
    BY <1>9, <1>12, <2>3, <2>4 DEF Intent
<1> QED
  BY <1>10, <1>11, <1>12 DEF Intent

\* A route is taken off a slot whose mux will not have it any more.
LEMMA DropKeepsIntent ==
    ASSUME LsInv, NEW c \in Callers, Drops(c), NEW s \in SlotIDs, NEW k \in Keys
    PROVE  Intent(s, k)'
<1>1. Types /\ CallInv /\ Intent(s, k)
  BY DEF LsInv, IntentInv, Intent
<1>2. PICK j : j = call[c].key
  OBVIOUS
<1>3. PICK t : t = call[c].slot
  OBVIOUS
<1>4. PICK x : x = [pc |-> "returned", ok |-> call[c].pc = "release"]
  OBVIOUS
<1>5. /\ call[c].pc \in {"rollback", "release"} /\ OneCall(c, x) /\ x.pc = "returned"
      /\ OneSlot(t, slot'[t]) /\ slot'[t].routes = slot[t].routes \ {j}
      /\ UNCHANGED <<slots, mux, faulty>>
  BY <1>2, <1>3, <1>4 DEF Drops, MuxSame
<1>6. call[c] # Idle
  BY <1>5 DEF Idle
<1>7. (Between(s, k) <=> BetweenBy(call[c], s, k)) /\ (Between(s, k)' <=> BetweenBy(x, s, k))
  BY <1>1, <1>5, <1>6, BetweenOne
<1>8. ~Between(s, k)' /\ (Between(s, k) <=> s = t /\ k = j)
  BY <1>2, <1>3, <1>5, <1>7 DEF BetweenBy
<1>9. InRegistry(s)' <=> InRegistry(s)
  BY <1>5 DEF InRegistry
<1>10. CASE s = t /\ k = j
  BY <1>1, <1>5, <1>8, <1>9, <1>10 DEF Intent
<1>11. CASE ~(s = t /\ k = j)
  <2>1. k \in slot'[s].routes <=> k \in slot[s].routes
    BY <1>5, <1>11 DEF OneSlot
  <2> QED
    BY <1>1, <1>5, <1>8, <1>9, <1>11, <2>1, IntentStays
<1> QED
  BY <1>10, <1>11

\* A slot is stopped: its client too.
LEMMA StopKeepsIntent ==
    ASSUME LsInv, NEW t \in SlotIDs, ClosesIdle(t) \/ StopsSlot(t), NEW s \in SlotIDs, NEW k \in Keys
    PROVE  Intent(s, k)'
<1>1. Types /\ SlotsInv /\ Intent(s, k)
  BY DEF LsInv, IntentInv, Intent
<1>2. Stops(t) /\ (UNCHANGED slots \/ slots' = removeSlotLocked(t))
  BY DEF ClosesIdle, StopsSlot
<1>3. CASE s = t
  BY <1>2, <1>3 DEF Stops, Intent
<1>4. CASE s # t
  <2>1. slot'[s] = slot[s] /\ mux'[s] = mux[s] /\ UNCHANGED <<call, faulty>>
    BY <1>2, <1>4 DEF Stops, OneSlot, OneClient
  <2>2. Between(s, k)' <=> Between(s, k)
    BY <2>1 DEF Between
  <2>3. InRegistry(s)' <=> InRegistry(s)
    <3>1. CASE UNCHANGED slots
      BY <3>1 DEF InRegistry
    <3>2. CASE slots' = removeSlotLocked(t) /\ InRegistry(t)
      BY <1>1, <1>4, <3>2, SlotRemoved
    <3>3. CASE slots' = removeSlotLocked(t) /\ ~InRegistry(t)
      <4>1. slots' = slots
        BY <3>3 DEF removeSlotLocked
      <4> QED
        BY <4>1 DEF InRegistry
    <3> QED
      BY <1>2, <3>1, <3>2, <3>3
  <2> QED
    BY <1>1, <2>1, <2>2, <2>3, IntentStays
<1> QED
  BY <1>3, <1>4

\* Every step keeps what the muxes were asked for what the slots carry.
LEMMA IntentKept ==
    ASSUME LsInv, Kinds
    PROVE  IntentInv'
<1> SUFFICES ASSUME NEW s \in SlotIDs, NEW k \in Keys PROVE Intent(s, k)'
  BY DEF IntentInv, Intent
<1>1. Types /\ Intent(s, k)
  BY DEF LsInv, IntentInv, Intent
<1>2. CASE Quiet
  <2>1. Between(s, k)' <=> Between(s, k)
    BY <1>2 DEF Quiet, Between
  <2> QED
    BY <1>1, <1>2, <2>1, SameRoutes, IntentStays DEF Quiet, SameClients
<1>3. CASE Joins \/ Leaves
  <2>1. RegistrySame /\ MuxSame /\ UNCHANGED call
    BY <1>3 DEF Joins, Leaves
  <2>2. Between(s, k)' <=> Between(s, k)
    BY <2>1 DEF Between
  <2> QED
    BY <1>1, <2>1, <2>2, SameRoutes, IntentStays DEF MuxSame
<1>4. CASE Shuts
  BY <1>4 DEF Shuts, Intent, InRegistry
<1> QED
  BY <1>2, <1>3, <1>4, CallOnlyKeepsIntent, TellsKeepsIntent, HandlesKeepsIntent, StopKeepsIntent,
     PrimaryKeepsIntent, PlaceKeepsIntent, DropKeepsIntent, EndsKeepIntent DEF Kinds


-----------------------------------------------------------------------------
(* The theorems.                                                            *)

\* The service and the client begin in order.
LEMMA InitHolds == Init => LsInv
<1> SUFFICES ASSUME Init PROVE LsInv
  OBVIOUS
<1> USE DEF Init, RtInit
<1>1. MaxSlotIDs \in Nat /\ MaxSlotIDs # 0 /\ MaxConnSlots \in Nat /\ MaxRoutesPerSlot \in Nat
  BY LsLimits
<1>2. newConnSlot \in Slot /\ newConnSlot.routes = {} /\ newConnSlot.idleTimer = 0 /\ ~newConnSlot.stopping
  BY DEF newConnSlot, Slot
<1>3. NewClient \in Client /\ NewClient.queue = <<>> /\ NewClient.subs = {}
  <2>1. <<>> \in Seq(Commands)
    OBVIOUS
  <2> QED
    BY <2>1 DEF NewClient, Client
<1>4. Idle \in Calls
  BY DEF Calls
<1>5. Types
  <2>1. slots \in Seq(SlotIDs) /\ nextID \in 1..(MaxSlotIDs + 1)
    BY <1>1
  <2>2. slot \in [SlotIDs -> Slot] /\ mux \in [SlotIDs -> Client]
    BY <1>2, <1>3
  <2>3. nextSubscriberID \in 0..MaxSubscribers
    BY ClientLimits
  <2> QED
    BY <1>4, <2>1, <2>2, <2>3 DEF Types
<1>6. \A s : ~InRegistry(s)
  BY DEF InRegistry
<1>7. SlotsInv /\ UnusedInv /\ TimerInv
  BY <1>2, <1>3 DEF SlotsInv, UnusedInv, TimerInv
<1>8. LimitInv
  <2>1. \A s \in SlotIDs : IsFiniteSet(slot[s].routes) /\ Cardinality(slot[s].routes) = 0
    BY <1>2, FS_EmptySet
  <2>2. Len(slots) = 0
    OBVIOUS
  <2> QED
    BY <1>1, <2>1, <2>2 DEF LimitInv, routeCount
<1>9. OwnersLive
  BY <1>6 DEF OwnersLive
<1>10. NoSlotLeak
  <2>1. 1..(nextID - 1) = {}
    OBVIOUS
  <2> QED
    BY <2>1 DEF NoSlotLeak
<1>11. CallInv /\ HoldInv
  BY DEF CallInv, HoldInv
<1>12. IntentInv
  BY <1>6 DEF IntentInv
<1> QED
  BY <1>5, <1>7, <1>8, <1>9, <1>10, <1>11, <1>12 DEF LsInv

\* Every step keeps them in order.
LEMMA NextHolds == LsInv /\ [Next]_vars => LsInv'
<1> SUFFICES ASSUME LsInv, [Next]_vars PROVE LsInv'
  OBVIOUS
<1>1. Kinds
  BY StepKinds
<1>2. started' \in BOOLEAN /\ fired' \subseteq [slot : SlotIDs, timer : Timers] /\ TimerInv'
  BY TimersKept DEF LsInv
<1>3. Types'
  BY <1>1, <1>2, TypesKept
<1>4. RegistryInv'
  BY <1>1, RegistryKept
<1>5. CallInv' /\ HoldInv' /\ IntentInv'
  BY <1>1, <1>3, CallsKept, HoldKept, IntentKept
<1> QED
  BY <1>2, <1>3, <1>4, <1>5 DEF LsInv, RegistryInv

\* The inductive invariant holds in every reachable state.
THEOREM LsHolds == Spec => []LsInv
BY InitHolds, NextHolds, PTL DEF Spec

\* A route belongs to one slot of the registry, which carries it and is not being
\* stopped: closeIdleSlot never takes a slot from a route that acquire placed on it
\* between the timer's firing and its turn at the lock.
THEOREM RoutesHaveLiveOwners == Spec => []OwnersLive
<1>1. LsInv => OwnersLive
  BY DEF LsInv
<1> QED
  BY <1>1, LsHolds, PTL

\* The registry keeps to maxConnSlots connections and maxRoutesPerSlot routes on each
\* (selectSlotLocked), whatever the fill step and however slots come and go.
THEOREM LimitsHold == Spec => []WithinLimits
<1>1. LsInv => WithinLimits
  BY DEF LsInv, LimitInv, WithinLimits
<1> QED
  BY <1>1, LsHolds, PTL

\* No connection is leaked: rollback and release give an empty slot its timer
\* (markSlotIdleLocked), and a slot that left the registry is stopped or about to be.
THEOREM SlotsAreNotLeaked == Spec => []NoSlotLeak
<1>1. LsInv => NoSlotLeak
  BY DEF LsInv
<1> QED
  BY <1>1, LsHolds, PTL

\* What the registry records of a slot and what the slot's mux was asked for agree
\* whenever no call is under way and the mux is idle, although the calls into the mux
\* are made outside the registry's lock and may be refused, queued or handled at once.
THEOREM MuxesMatchRegistry == Spec => []IntentMatches
<1>1. LsInv => IntentMatches
  <2> SUFFICES ASSUME LsInv, NEW s \in SlotIDs, NEW k \in Keys,
                      InRegistry(s), task = NoTask, mux[s].queue = <<>>, ~mux[s].stopped,
                      <<s, k>> \notin faulty
               PROVE  k \in mux[s].subs <=> k \in slot[s].routes
    BY DEF IntentMatches
  <2>1. ~Between(s, k)
    <3>1. \A c \in Callers : call[c] = Idle
      BY OneCaller DEF LsInv
    <3> QED
      BY <3>1 DEF Between, BetweenBy, Idle
  <2>2. Final(mux[s].queue, mux[s].subs, k) <=> k \in slot[s].routes /\ ~Between(s, k)
    BY DEF LsInv, IntentInv
  <2> QED
    BY <2>1, <2>2, FinalEmpty
<1> QED
  BY <1>1, LsHolds, PTL

\* The routes registered, as the promise sees them, are those that are held.
LEMMA RegisteredIsHeld ==
    ASSUME LsInv
    PROVE  {k \in Keys : /\ ~closed
                         /\ IF task # NoTask /\ task.key = k
                            THEN routes[k] # {} ELSE routeOwners[k] # NoSlot}
             = {k \in Keys : ~closed /\ routes[k] # {}}
<1>1. ASSUME NEW k \in Keys, ~closed
      PROVE  (IF task # NoTask /\ task.key = k THEN routes[k] # {} ELSE routeOwners[k] # NoSlot)
               <=> routes[k] # {}
  BY <1>1 DEF LsInv, HoldInv
<1> QED
  BY <1>1


\* The routes that are held, of a service that is open.
HeldOpen == {k \in Keys : ~closed /\ routes[k] # {}}

\* A step of the promise, in terms of the routes and of whether the service is open.
Promised ==
    \/ UNCHANGED <<closed, routes>>
    \/ ~closed /\ closed' = TRUE /\ UNCHANGED routes
    \/ /\ UNCHANGED closed
       /\ \E k \in Keys, id \in Ids :
             /\ \A l \in Keys : id \notin routes[l]
             /\ routes' = [routes EXCEPT ![k] = @ \union {id}]
    \/ /\ UNCHANGED closed
       /\ \E k \in Keys, id \in Ids :
             id \in routes[k] /\ routes' = [routes EXCEPT ![k] = @ \ {id}]
    \/ /\ UNCHANGED closed
       /\ \E k \in Keys : routes[k] # {} /\ routes' = [routes EXCEPT ![k] = {}]

\* Every step joins or leaves one route, closes one, shuts the service, or is none of
\* the promise's business.
LEMMA StepIsPromised ==
    ASSUME LsInv, Kinds
    PROVE  Promised
<1>1. Types /\ HoldInv /\ CallInv
  BY DEF LsInv
<1>2. /\ routes \in [Keys -> SUBSET Ids] /\ nextSubscriberID \in Nat /\ Ids \subseteq Nat
      /\ task \in {NoTask} \union Tasks
  BY <1>1, ClientLimits DEF Types, Ids
<1>3. CASE UNCHANGED <<closed, routes>>
  BY <1>3 DEF Promised
<1>4. CASE Shuts
  BY <1>4 DEF Shuts, ClientSame, Promised
<1>5. CASE Joins
  <2>1. PICK id : id = nextSubscriberID'
    OBVIOUS
  <2>2. id = nextSubscriberID + 1 /\ id \in Ids /\ UNCHANGED closed
    BY <1>5, <2>1 DEF Joins, RegistrySame
  <2>3. PICK k \in Keys : routes' = [routes EXCEPT ![k] = @ \union {id}]
    BY <1>5, <2>1 DEF Joins
  <2>4. ASSUME NEW l \in Keys PROVE id \notin routes[l]
    <3>1. \A i \in routes[l] : i <= nextSubscriberID /\ i \in Nat
      BY <1>1, <1>2 DEF HoldInv
    <3> QED
      BY <1>2, <2>2, <3>1
  <2> QED
    BY <2>2, <2>3, <2>4 DEF Promised
<1>6. CASE Leaves
  <2>1. PICK k \in Keys, id \in Ids : routes' = [routes EXCEPT ![k] = @ \ {id}]
    BY <1>6 DEF Leaves
  <2>2. UNCHANGED closed
    BY <1>6 DEF Leaves, RegistrySame
  <2>3. CASE id \in routes[k]
    BY <2>1, <2>2, <2>3 DEF Promised
  <2>4. CASE id \notin routes[k]
    <3>1. routes[k] \ {id} = routes[k]
      BY <2>4
    <3>2. routes' = routes
      BY <1>2, <2>1, <3>1
    <3> QED
      BY <2>2, <3>2 DEF Promised
  <2> QED
    BY <2>3, <2>4
<1>7. CASE \E c \in Callers : Finishes(c)
  <2>1. PICK c \in Callers : Finishes(c)
    BY <1>7
  <2>2. PICK k, id, R : k = task.key /\ id = task.id /\ R = Remaining
    OBVIOUS
  <2>3. /\ UNCHANGED closed /\ task # NoTask
        /\ routes' = [routes EXCEPT ![k] = R] \/ UNCHANGED routes
    BY <2>1, <2>2 DEF Finishes, RegistrySame
  <2>4. k \in Keys /\ task.op \in {"first", "last", "close"}
    BY <1>2, <2>2, <2>3 DEF Tasks
  <2>5. CASE UNCHANGED routes
    BY <2>3, <2>5 DEF Promised
  <2>6. CASE routes' = [routes EXCEPT ![k] = R] /\ task.op = "first"
    <3>1. id \in Ids /\ (\A l \in Keys : id \notin routes[l]) /\ R = routes[k] \union {id}
      BY <1>1, <2>2, <2>3, <2>6 DEF HoldInv, Remaining
    <3> QED
      BY <2>3, <2>4, <2>6, <3>1 DEF Promised
  <2>7. CASE routes' = [routes EXCEPT ![k] = R] /\ task.op = "last"
    <3>1. routes[k] = {id} /\ R = routes[k] \ {id}
      BY <1>1, <2>2, <2>3, <2>7 DEF HoldInv, Remaining
    <3>2. id \in Ids /\ id \in routes[k]
      BY <1>2, <2>4, <3>1
    <3> QED
      BY <2>3, <2>4, <2>7, <3>1, <3>2 DEF Promised
  <2>8. CASE routes' = [routes EXCEPT ![k] = R] /\ task.op = "close"
    <3>1. routes[k] # {} /\ R = {}
      BY <1>1, <2>2, <2>3, <2>8 DEF HoldInv, Remaining
    <3> QED
      BY <2>3, <2>4, <2>8, <3>1 DEF Promised
  <2> QED
    BY <2>3, <2>4, <2>5, <2>6, <2>7, <2>8
<1> QED
  BY <1>3, <1>4, <1>5, <1>6, <1>7
  DEF Kinds, Quiet, CallOnly, Tells, Handles, ClosesIdle, StopsSlot, Stops, OpensPrimary,
      Places, Drops, Enters, RegistrySame, ClientSame

\* What a step of the promise does to the routes that are held.
LEMMA HeldChanges ==
    ASSUME Types, NEW k \in Keys, NEW R, UNCHANGED closed, routes' = [routes EXCEPT ![k] = R]
    PROVE  /\ R # {} => HeldOpen' = IF ~closed THEN HeldOpen \union {k} ELSE HeldOpen
           /\ R = {} => HeldOpen' = HeldOpen \ {k}
<1>1. routes'[k] = R /\ \A l \in Keys : l # k => routes'[l] = routes[l]
  BY DEF Types
<1>2. HeldOpen' = {l \in Keys : ~closed /\ routes'[l] # {}}
  BY DEF HeldOpen
<1>3. R # {} => HeldOpen' = IF ~closed THEN HeldOpen \union {k} ELSE HeldOpen
  BY <1>1, <1>2 DEF HeldOpen
<1>4. R = {} => HeldOpen' = HeldOpen \ {k}
  BY <1>1, <1>2 DEF HeldOpen
<1> QED
  BY <1>3, <1>4

\* Every step of the client is a step of the promise or leaves it alone.
LEMMA StepRefines ==
    ASSUME LsInv, LsInv', [Next]_vars
    PROVE  [Abstract!Next]_(Abstract!vars)
<1>1. Types /\ Promised
  BY StepKinds, StepIsPromised DEF LsInv
<1>2. PICK before, after : before = HeldOpen /\ after = HeldOpen'
  OBVIOUS
<1>3. {k \in Keys : /\ ~closed
                    /\ IF task # NoTask /\ task.key = k
                       THEN routes[k] # {} ELSE routeOwners[k] # NoSlot} = before
  BY <1>2, RegisteredIsHeld DEF HeldOpen
<1>4. {k \in Keys : /\ ~closed'
                    /\ IF task' # NoTask /\ task'.key = k
                       THEN routes'[k] # {} ELSE routeOwners'[k] # NoSlot} = after
  <2>1. ASSUME NEW k \in Keys, ~closed'
        PROVE  (IF task' # NoTask /\ task'.key = k THEN routes'[k] # {} ELSE routeOwners'[k] # NoSlot)
                 <=> routes'[k] # {}
    BY <2>1 DEF LsInv, HoldInv
  <2>2. after = {k \in Keys : ~closed' /\ routes'[k] # {}}
    BY <1>2 DEF HeldOpen
  <2> QED
    BY <2>1, <2>2
<1>5. CASE UNCHANGED <<closed, routes>>
  <2>1. after = before
    BY <1>2, <1>5 DEF HeldOpen
  <2> QED
    BY <1>3, <1>4, <1>5, <2>1 DEF Abstract!vars
<1>6. CASE ~closed /\ closed' = TRUE /\ UNCHANGED routes
  <2>1. after = {}
    BY <1>2, <1>6 DEF HeldOpen
  <2>2. Abstract!Shutdown
    BY <1>3, <1>4, <1>6, <2>1 DEF Abstract!Shutdown
  <2> QED
    BY <2>2 DEF Abstract!Next
<1>7. CASE /\ UNCHANGED closed
           /\ \E k \in Keys, id \in Ids :
                 /\ \A l \in Keys : id \notin routes[l]
                 /\ routes' = [routes EXCEPT ![k] = @ \union {id}]
  <2>1. PICK k \in Keys, id \in Ids :
          /\ \A l \in Keys : id \notin routes[l]
          /\ routes' = [routes EXCEPT ![k] = @ \union {id}]
    BY <1>7
  <2>2. after = IF ~closed THEN before \union {k} ELSE before
    BY <1>1, <1>2, <1>7, <2>1, HeldChanges
  <2>3. Abstract!Acquire(k, id)
    BY <1>3, <1>4, <1>7, <2>1, <2>2 DEF Abstract!Acquire
  <2> QED
    BY <2>3 DEF Abstract!Next
<1>8. CASE /\ UNCHANGED closed
           /\ \E k \in Keys, id \in Ids :
                 id \in routes[k] /\ routes' = [routes EXCEPT ![k] = @ \ {id}]
  <2>1. PICK k \in Keys, id \in Ids :
          id \in routes[k] /\ routes' = [routes EXCEPT ![k] = @ \ {id}]
    BY <1>8
  <2>2. CASE routes[k] = {id}
    <3>1. routes[k] \ {id} = {}
      BY <2>2
    <3>2. after = before \ {k}
      BY <1>1, <1>2, <1>8, <2>1, <3>1, HeldChanges
    <3>3. Abstract!Release(k, id)
      BY <1>3, <1>4, <1>8, <2>1, <2>2, <3>2 DEF Abstract!Release
    <3> QED
      BY <3>3 DEF Abstract!Next
  <2>3. CASE routes[k] # {id}
    <3>1. routes[k] \ {id} # {}
      BY <2>1, <2>3
    <3>2. after = IF ~closed THEN before \union {k} ELSE before
      BY <1>1, <1>2, <1>8, <2>1, <3>1, HeldChanges
    <3>3. ~closed => k \in before
      BY <1>2, <2>1 DEF HeldOpen
    <3>4. after = before
      BY <3>2, <3>3
    <3>5. Abstract!Release(k, id)
      BY <1>3, <1>4, <1>8, <2>1, <2>3, <3>4 DEF Abstract!Release
    <3> QED
      BY <3>5 DEF Abstract!Next
  <2> QED
    BY <2>2, <2>3
<1>9. CASE UNCHANGED closed /\ \E k \in Keys : routes[k] # {} /\ routes' = [routes EXCEPT ![k] = {}]
  <2>1. PICK k \in Keys : routes[k] # {} /\ routes' = [routes EXCEPT ![k] = {}]
    BY <1>9
  <2>2. after = before \ {k}
    BY <1>1, <1>2, <1>9, <2>1, HeldChanges
  <2>3. Abstract!CloseRoute(k)
    BY <1>3, <1>4, <1>9, <2>1, <2>2 DEF Abstract!CloseRoute
  <2> QED
    BY <2>3 DEF Abstract!Next
<1> QED
  BY <1>1, <1>5, <1>6, <1>7, <1>8, <1>9 DEF Promised

\* The client keeps its promise (client/README.md:17): a route is registered with the
\* broker's connection exactly while a subscriber holds it, as if every subscribe and
\* close took effect at once, although each takes several steps, some outside the
\* registry's lock, and the service may shut down between any two.
THEOREM RoutesRefineHolding == Spec => RoutesAsPromised
<1>1. Init => Abstract!Init
  <2> SUFFICES ASSUME Init PROVE Abstract!Init
    OBVIOUS
  <2>1. closed = FALSE /\ routes = [k \in Keys |-> {}] /\ task = NoTask
        /\ \A k \in Keys : routeOwners[k] = NoSlot
    BY DEF Init, RtInit
  <2> QED
    BY <2>1 DEF Abstract!Init
<1>2. LsInv /\ LsInv' /\ [Next]_vars => [Abstract!Next]_(Abstract!vars)
  BY StepRefines
<1> QED
  BY <1>1, <1>2, LsHolds, PTL DEF Spec, RoutesAsPromised, Abstract!Spec

=============================================================================
