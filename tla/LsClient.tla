------------------------------ MODULE LsClient ------------------------------
(***************************************************************************)
(* The LS client (internal/adapter/broker/ls/client): local subscribers    *)
(* share routes of the realtime service. The first subscriber of a route   *)
(* subscribes it, the last one to leave unsubscribes it, and what arrives  *)
(* is copied to every subscriber. One mutex guards the routes and is held  *)
(* during the calls into the service. Trade, quote and execution routes    *)
(* behave alike; a key carries its kind.                                   *)
(***************************************************************************)
EXTENDS LsRealtime

CONSTANTS
    SubscriptionBuf,    \* capacity of a subscriber's channel
    MaxSubscribers      \* bound: subscribers ever attached

ASSUME ClientLimits ==
    SubscriptionBuf \in Nat \ {0} /\ MaxSubscribers \in Nat \ {0}

VARIABLES
    routes,             \* key -> identifiers of its subscribers
    nextSubscriberID,
    handles,            \* handles whose Close has not succeeded
    task,               \* what the holder of registry.mu is doing
    buffered            \* messages in a subscriber's channel

clVars == <<routes, nextSubscriberID, handles, task, buffered>>
vars == <<started, closed, cancelled, slots, routeOwners, nextID, slot, mux, fired,
          toStop, readers, stream, call, faulty,
          routes, nextSubscriberID, handles, task, buffered>>

Ids == 1..MaxSubscribers
NoTask == [op |-> "none"]

Init ==
    /\ RtInit
    /\ routes = [k \in Keys |-> {}]
    /\ nextSubscriberID = 0
    /\ handles = {}
    /\ task = NoTask
    /\ buffered = [id \in Ids |-> 0]

\* Enters the realtime service with the mutex held (subscribeTransport).
subscribeTransport(c, pc, k, op) ==
    /\ call' = [call EXCEPT ![c] = [pc |-> pc, key |-> k]]
    /\ task' = op

\* acquireTrade, acquireQuote, acquireExecution: the first subscriber of a route
\* subscribes it, later ones only join. (Bound: no route is subscribed once the
\* identifiers of slots are used up.)
acquireRoute(c, k) ==
    /\ task = NoTask /\ call[c] = Idle
    /\ nextSubscriberID < MaxSubscribers
    /\ nextSubscriberID' = nextSubscriberID + 1
    /\ LET id == nextSubscriberID + 1
       IN  IF routes[k] = {}
           THEN /\ nextID \in SlotIDs
                /\ subscribeTransport(c, "acquire", k,
                        [op |-> "first", caller |-> c, key |-> k, id |-> id])
                /\ UNCHANGED <<routes, handles>>
           ELSE /\ routes' = [routes EXCEPT ![k] = @ \union {id}]
                /\ handles' = handles \union {[id |-> id, key |-> k]}
                /\ UNCHANGED <<call, task>>
    /\ UNCHANGED <<started, closed, cancelled, slots, routeOwners, nextID, slot, mux,
                   fired, toStop, readers, stream, faulty, buffered>>

\* A mutant: any subscriber that leaves unsubscribes the route.
releaseRoute_Always(c, h) ==
    /\ task = NoTask /\ call[c] = Idle
    /\ h.id \in routes[h.key]
    /\ subscribeTransport(c, "owner", h.key,
           [op |-> "last", caller |-> c, key |-> h.key, id |-> h.id])
    /\ UNCHANGED <<started, closed, cancelled, slots, routeOwners, nextID, slot, mux,
                   fired, toStop, readers, stream, faulty,
                   routes, nextSubscriberID, handles, buffered>>

\* releaseTrade, releaseQuote, releaseExecution: a handle whose route was closed
\* meanwhile is simply closed, the last subscriber unsubscribes the route first.
releaseRoute(c, h) ==
    /\ task = NoTask /\ call[c] = Idle
    /\ IF routes[h.key] = {h.id}
       THEN /\ subscribeTransport(c, "owner", h.key,
                   [op |-> "last", caller |-> c, key |-> h.key, id |-> h.id])
            /\ UNCHANGED <<routes, handles, buffered>>
       ELSE /\ routes' = [routes EXCEPT ![h.key] = @ \ {h.id}]
            /\ handles' = handles \ {h}
            /\ buffered' = [buffered EXCEPT ![h.id] = 0]
            /\ UNCHANGED <<call, task>>
    /\ UNCHANGED <<started, closed, cancelled, slots, routeOwners, nextID, slot, mux,
                   fired, toStop, readers, stream, faulty,
                   nextSubscriberID>>

\* Close of a handle: it may be tried again until it has succeeded once.
Close(c, h) == h \in handles /\ releaseRoute(c, h)

\* UnsubscribeTrade, UnsubscribeQuote, UnsubscribeExecution: closes the route of
\* all its subscribers.
closeRoute(c, k) ==
    /\ task = NoTask /\ call[c] = Idle
    /\ routes[k] # {}
    /\ subscribeTransport(c, "owner", k,
           [op |-> "close", caller |-> c, key |-> k, id |-> 0])
    /\ UNCHANGED <<started, closed, cancelled, slots, routeOwners, nextID, slot, mux,
                   fired, toStop, readers, stream, faulty,
                   routes, nextSubscriberID, handles, buffered>>

\* The subscribers that the finished task leaves on its route.
Remaining ==
    CASE task.op = "first" -> routes[task.key] \union {task.id}
      [] task.op = "last" -> routes[task.key] \ {task.id}
      [] task.op = "close" -> {}

\* The call into the service returns: on an error the route is as before, and
\* the mutex is released either way.
finish(c) ==
    /\ task # NoTask /\ task.caller = c /\ call[c].pc = "returned"
    /\ IF call[c].ok
       THEN /\ routes' = [routes EXCEPT ![task.key] = Remaining]
            /\ handles' = CASE task.op = "first" ->
                                 handles \union {[id |-> task.id, key |-> task.key]}
                            [] task.op = "last" -> {h \in handles : h.id # task.id}
                            [] OTHER -> handles
            /\ buffered' = [id \in Ids |->
                 IF id \in routes[task.key] \ Remaining THEN 0 ELSE buffered[id]]
       ELSE UNCHANGED <<routes, handles, buffered>>
    /\ call' = [call EXCEPT ![c] = Idle]
    /\ task' = NoTask
    /\ UNCHANGED <<started, closed, cancelled, slots, routeOwners, nextID, slot, mux,
                   fired, toStop, readers, stream, faulty,
                   nextSubscriberID>>

\* A mutant: the copy to a full channel blocks.
publish_Blocking(k) ==
    /\ \A id \in routes[k] : buffered[id] < SubscriptionBuf
    /\ buffered' = [id \in Ids |->
         IF id \in routes[k] THEN buffered[id] + 1 ELSE buffered[id]]

\* publishTrade, publishQuote, publishExecution: a full channel misses the message.
publish(k) ==
    buffered' = [id \in Ids |->
        IF id \in routes[k] /\ buffered[id] < SubscriptionBuf
        THEN buffered[id] + 1 ELSE buffered[id]]

\* runTradeDispatch, runQuoteDispatch, runExecutionDispatch: publishing takes the
\* mutex for reading.
dispatch ==
    /\ stream # <<>> /\ ~cancelled /\ task = NoTask
    /\ stream' = Tail(stream)
    /\ publish(Head(stream))
    /\ UNCHANGED <<started, closed, cancelled, slots, routeOwners, nextID, slot, mux,
                   fired, toStop, readers, call, faulty,
                   routes, nextSubscriberID, handles, task>>

\* A subscriber reads its channel.
receive(id) ==
    /\ buffered[id] > 0
    /\ buffered' = [buffered EXCEPT ![id] = @ - 1]
    /\ UNCHANGED <<started, closed, cancelled, slots, routeOwners, nextID, slot, mux,
                   fired, toStop, readers, stream, call, faulty,
                   routes, nextSubscriberID, handles, task>>

\* The steps of the client and of the service below it.
LsStep ==
    \/ RtStep /\ UNCHANGED clVars
    \/ \E c \in Callers : finish(c)
    \/ dispatch

\* Start launches the dispatch loops and the service under one context.
Start(done) == startRegistry(done) /\ UNCHANGED clVars

\* Whoever uses the client: it is called by several goroutines, its channels are
\* read, its context is cancelled.
ClientCall(c) ==
    \/ \E k \in Keys : acquireRoute(c, k) \/ closeRoute(c, k)
    \/ \E h \in handles : Close(c, h)

Next ==
    \/ LsStep
    \/ \E done \in BOOLEAN : Start(done)
    \/ cancel /\ UNCHANGED clVars
    \/ \E c \in Callers : ClientCall(c)
    \/ \E id \in Ids : receive(id)

Spec == Init /\ [][Next]_vars

(***************************************************************************)
(* Properties.                                                             *)
(***************************************************************************)
Calls ==
    {Idle}
    \union [pc : {"acquire", "owner"}, key : Keys]
    \union [pc : {"subscribe"}, key : Keys, slot : SlotIDs, existed : BOOLEAN]
    \union [pc : {"rollback", "unsubscribe", "release"}, key : Keys, slot : SlotIDs]
    \union [pc : {"returned"}, ok : BOOLEAN]

Commands == [kind : {"subscribe", "unsubscribe"}, key : Keys]
Readers == [slot : SlotIDs, generation : 1..(MaxLosses + 1)]

TypeOK ==
    /\ started \in BOOLEAN /\ closed \in BOOLEAN /\ cancelled \in BOOLEAN
    /\ slots \in Seq(SlotIDs)
    /\ routeOwners \in [Keys -> SlotIDs \union {NoSlot}]
    /\ nextID \in 1..(MaxSlotIDs + 1)
    /\ slot \in [SlotIDs -> [routes : SUBSET Keys, idleTimer : 0..2, ctx : BOOLEAN,
                             stopping : BOOLEAN, connectCount : 0..(MaxLosses + 1)]]
    /\ mux \in [SlotIDs -> [stopped : BOOLEAN, queue : Seq(Commands),
                            subs : SUBSET Keys, up : BOOLEAN]]
    /\ \A s \in SlotIDs : Len(mux[s].queue) <= QueueSize
    /\ fired \subseteq [slot : SlotIDs, timer : Timers]
    /\ toStop \subseteq SlotIDs
    /\ readers \subseteq Readers
    /\ stream \in Seq(Keys) /\ Len(stream) <= StreamCap
    /\ call \in [Callers -> Calls]
    /\ faulty \subseteq SlotIDs \X Keys
    /\ routes \in [Keys -> SUBSET Ids]
    /\ nextSubscriberID \in 0..MaxSubscribers
    /\ handles \subseteq [id : Ids, key : Keys]
    /\ task \in {NoTask} \union [op : {"first", "last", "close"}, caller : Callers,
                                 key : Keys, id : 0..MaxSubscribers]
    /\ buffered \in [Ids -> 0..SubscriptionBuf]

\* A route belongs to one slot of the registry that carries it and is not being
\* stopped, and a slot carries only routes it owns (registry.go:31, 274): the idle
\* timer never takes a slot away from a route placed on it meanwhile.
OwnersLive ==
    /\ \A k \in Keys : routeOwners[k] # NoSlot =>
          /\ InRegistry(routeOwners[k])
          /\ ~slot[routeOwners[k]].stopping
          /\ k \in slot[routeOwners[k]].routes
    /\ \A s \in SlotIDs : InRegistry(s) =>
          \A k \in slot[s].routes : routeOwners[k] = s

\* The limits of the registry hold: connections, and routes per connection.
WithinLimits ==
    /\ Len(slots) <= MaxConnSlots
    /\ \A s \in SlotIDs : routeCount(s) <= MaxRoutesPerSlot

\* No connection is leaked: an empty slot has an idle timer, unless it is the first
\* slot and was made by start and never used; and a slot out of the registry is
\* stopped or about to be.
NoSlotLeak ==
    /\ \A i \in DOMAIN slots :
          slot[slots[i]].routes = {} /\ slot[slots[i]].idleTimer = 0 =>
              i = 1 /\ mux[slots[i]].queue = <<>> /\ mux[slots[i]].subs = {}
    /\ \A s \in 1..(nextID - 1) : ~InRegistry(s) => slot[s].stopping \/ s \in toStop

\* What the mux of a slot was asked for is what the slot carries, once the mux
\* has handled its commands and no call is under way, unless a command failed in
\* the mux.
IntentMatches ==
    \A s \in SlotIDs, k \in Keys :
        InRegistry(s) /\ task = NoTask /\ mux[s].queue = <<>> /\ ~mux[s].stopped
            /\ <<s, k>> \notin faulty
        => (k \in mux[s].subs <=> k \in slot[s].routes)

\* A route is held by subscribers exactly while it is registered, as if every
\* call took effect at once (client/README.md:17). A route counts as registered
\* for the caller that is about to hold or to leave it once its call returns.
Abstract == INSTANCE RouteHolding WITH
    open <- ~closed,
    held <- routes,
    registered <- {k \in Keys :
        /\ ~closed
        /\ IF task # NoTask /\ task.key = k
           THEN routes[k] # {}
           ELSE routeOwners[k] # NoSlot}

RoutesAsPromised == Abstract!Spec

=============================================================================
