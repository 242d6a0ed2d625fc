----------------------------- MODULE LsRealtime -----------------------------
(***************************************************************************)
(* The LS realtime service (internal/adapter/broker/ls/api/ws): routes are *)
(* placed on connection slots, each slot owns one client of the websocket  *)
(* mux (wsrefact_v6), and what the slots receive leaves on bounded         *)
(* streams. Callers, idle timers, the shutdown goroutine, the slots' read  *)
(* loops and their mux clients interleave.                                 *)
(*                                                                         *)
(* This module has the service's state and steps. A composing module says  *)
(* who calls, starts and cancels it; see LsClient and Gateway.             *)
(***************************************************************************)
EXTENDS Integers, Sequences, FiniteSets

CONSTANTS
    Keys,               \* routes: buildTransportKey(scope, trCode, trKey)
    Callers,            \* goroutines that call the service
    MaxConnSlots,       \* registry.maxConnSlots
    MaxRoutesPerSlot,   \* registry.maxRoutesPerSlot
    RouteFillStep,      \* registry.routeFillStep
    QueueSize,          \* commands a mux client queues (MaxSendQueue)
    StreamCap,          \* capacity of tradeCh, quoteCh, executionCh
    MaxSlotIDs,         \* bound: slots ever created
    MaxLosses,          \* bound: connections a slot may lose
    MaxFaults           \* bound: routes with a command that fails in the mux

\* normalizeDependencies: every limit is positive, the step at most the maximum.
ASSUME LsLimits ==
    /\ MaxConnSlots \in Nat \ {0} /\ MaxRoutesPerSlot \in Nat \ {0}
    /\ RouteFillStep \in 1..MaxRoutesPerSlot
    /\ QueueSize \in Nat \ {0} /\ StreamCap \in Nat \ {0}
    /\ MaxSlotIDs \in Nat \ {0} /\ MaxLosses \in Nat /\ MaxFaults \in Nat

VARIABLES
    started, closed,    \* of the registry
    cancelled,          \* the context given to Start is done
    slots,              \* registry.slots
    routeOwners,        \* key -> slot, NoSlot when absent
    nextID,             \* factory.nextID
    slot,               \* per slot: routes, idleTimer, ctx, stopping, connectCount
    mux,                \* per slot: the wsrefact_v6 client
    fired,              \* idle timers that fired and wait for the registry lock
    toStop,             \* slots that shutdown still has to stop
    readers,            \* read loops of the slots
    stream,             \* packets waiting in tradeCh, quoteCh, executionCh
    call,               \* per caller: the call under way
    faulty              \* history: <<slot, key>> of commands the mux failed

rtVars == <<started, closed, cancelled, slots, routeOwners, nextID, slot, mux,
            fired, toStop, readers, stream, call, faulty>>

SlotIDs == 1..MaxSlotIDs
NoSlot == 0

routeCount(s) == Cardinality(slot[s].routes)
InRegistry(s) == \E i \in DOMAIN slots : slots[i] = s

\* A timer needs to differ from those of its slot that wait for the lock.
Timers == 1..2
Fresh(s) == CHOOSE t \in Timers : [slot |-> s, timer |-> t] \notin fired

Idle == [pc |-> "idle"]

newConnSlot == [routes |-> {}, idleTimer |-> 0, ctx |-> FALSE,
                stopping |-> FALSE, connectCount |-> 0]

NewClient == [stopped |-> FALSE, queue |-> <<>>, subs |-> {}, up |-> FALSE]

RtInit ==
    /\ started = FALSE /\ closed = FALSE /\ cancelled = FALSE
    /\ slots = <<>>
    /\ routeOwners = [k \in Keys |-> NoSlot]
    /\ nextID = 1
    /\ slot = [s \in SlotIDs |-> newConnSlot]
    /\ mux = [s \in SlotIDs |-> NewClient]
    /\ fired = {} /\ toStop = {} /\ readers = {}
    /\ stream = <<>>
    /\ call = [c \in Callers |-> Idle]
    /\ faulty = {}

(***************************************************************************)
(* Streams. A send to a stream never blocks; neither do the sends of events*)
(* (svc.emitEvent, emitTransportStatusEvent), on whose channel nothing in  *)
(* the service depends: events are not kept.                               *)
(***************************************************************************)
\* svc.publishRealtime for a packet of route k: dropped, with an event, when the
\* stream is full.
publishRealtime(k) ==
    stream' = IF Len(stream) < StreamCap THEN Append(stream, k) ELSE stream

(***************************************************************************)
(* The mux client of a slot, reduced to what WsMux shows of it: a command  *)
(* is refused when the client is stopped or its queue full; otherwise it   *)
(* is handled some time later, and its handle then holds the outcome.      *)
(***************************************************************************)
\* Effect of one handled command on the mux's subscriptions. "dropped": the
\* worker's mailbox was full, and the mux undoes the command. "writeFailed": the
\* write failed, and what the mux recorded stays.
Outcomes == {"ok", "dropped", "writeFailed"}
handled(subs, command, outcome) ==
    IF outcome = "dropped" THEN subs
    ELSE IF command.kind = "subscribe" THEN subs \union {command.key}
    ELSE subs \ {command.key}

\* Only a live connection is written to; what it cannot do it does not fail.
OutcomesOf(m, command) ==
    IF m.up /\ Cardinality(faulty) < MaxFaults
            /\ ((command.kind = "subscribe") # (command.key \in m.subs))
    THEN Outcomes ELSE {"ok"}

\* Mux.handleCommand, as far as a slot can tell.
muxHandle(s) ==
    /\ mux[s].queue # <<>> /\ ~mux[s].stopped /\ slot[s].ctx
    /\ LET command == Head(mux[s].queue)
       IN  \E outcome \in OutcomesOf(mux[s], command) :
              /\ mux' = [mux EXCEPT ![s].queue = Tail(@),
                                    ![s].subs = handled(@, command, outcome)]
              /\ faulty' = IF outcome = "ok" THEN faulty
                           ELSE faulty \union {<<s, command.key>>}
    /\ UNCHANGED <<started, closed, cancelled, slots, routeOwners, nextID, slot,
                   fired, toStop, readers, stream, call>>

(***************************************************************************)
(* The registry, under registry.mu.                                        *)
(***************************************************************************)
\* A mutant: a slot takes one route more than the ceiling.
Below_OffByOne(ceiling) == {i \in DOMAIN slots : routeCount(slots[i]) <= ceiling}

\* The slots below a ceiling, in the order of the registry.
Below(ceiling) == {i \in DOMAIN slots : routeCount(slots[i]) < ceiling}
First(indices) == CHOOSE i \in indices : \A j \in indices : i <= j

Ceilings == {c \in 1..(MaxRoutesPerSlot - 1) : c % RouteFillStep = 0}
               \union {MaxRoutesPerSlot}

\* selectSlotLocked: the first slot below the lowest ceiling, a new slot when
\* there is none and one more is allowed, else the first slot below the next
\* ceiling. NoSlot is ErrWSConnectionLimit, nextID a slot to create.
selectSlotLocked ==
    LET lowest == First(Ceilings)
        open == {c \in Ceilings : Below(c) # {}}
    IN  IF Below(lowest) # {} THEN slots[First(Below(lowest))]
        ELSE IF Len(slots) < MaxConnSlots THEN nextID
        ELSE IF open # {} THEN slots[First(Below(First(open)))]
        ELSE NoSlot

\* prepareSlotStartLocked and launchSlot: the slot runs under a context of its own.
launchSlot(sl) == [sl EXCEPT !.ctx = TRUE]

\* start, with createSlotLocked for the primary slot; every slot is launched. The
\* context given may be done already.
startRegistry(done) ==
    /\ ~started /\ ~closed
    /\ started' = TRUE
    /\ cancelled' = done
    /\ IF slots = <<>>
       THEN /\ nextID \in SlotIDs
            /\ slots' = <<nextID>> /\ nextID' = nextID + 1
       ELSE UNCHANGED <<slots, nextID>>
    /\ slot' = [s \in SlotIDs |->
                  IF \E i \in DOMAIN slots' : slots'[i] = s
                  THEN launchSlot(slot[s]) ELSE slot[s]]
    /\ UNCHANGED <<closed, routeOwners, mux, fired, toStop, readers,
                   stream, call, faulty>>

\* slot.addRoute, slot.removeRoute, slot.cancelIdleTimer.
addRoute(sl, k) == [sl EXCEPT !.routes = @ \union {k}]
removeRoute(sl, k) == [sl EXCEPT !.routes = @ \ {k}]
cancelIdleTimer(sl) == [sl EXCEPT !.idleTimer = 0]

\* acquire for caller c, whose call carries the key; the caller goes on to
\* subscribe on the slot outside the lock, or returns the error.
acquire(c) ==
    LET k == call[c].key
        s == IF routeOwners[k] # NoSlot THEN routeOwners[k] ELSE selectSlotLocked
    IN  /\ call[c].pc = "acquire"
        /\ IF closed \/ s = NoSlot
           THEN /\ call' = [call EXCEPT ![c] = [pc |-> "returned", ok |-> FALSE]]
                /\ UNCHANGED <<slots, nextID, slot, routeOwners>>
           ELSE /\ s \in SlotIDs
                /\ call' = [call EXCEPT ![c] =
                       [pc |-> "subscribe", key |-> k, slot |-> s,
                        existed |-> routeOwners[k] # NoSlot]]
                /\ routeOwners' = [routeOwners EXCEPT ![k] = s]
                /\ slots' = IF s = nextID THEN Append(slots, s) ELSE slots
                /\ nextID' = IF s = nextID THEN nextID + 1 ELSE nextID
                /\ slot' = IF routeOwners[k] # NoSlot THEN slot ELSE
                     [slot EXCEPT ![s] =
                        LET sl == addRoute(cancelIdleTimer(@), k)
                        IN  IF s = nextID /\ started THEN launchSlot(sl) ELSE sl]
        /\ UNCHANGED <<started, closed, cancelled, mux, fired, toStop, readers,
                       stream, faulty>>

\* slot.stop, which also cancels the slot's context. The mux client, stopped,
\* forgets everything and closes its connection.
stopped(sl) == [cancelIdleTimer(sl) EXCEPT !.stopping = TRUE, !.ctx = FALSE]
stopClient(m) == [NewClient EXCEPT !.stopped = TRUE]

\* removeSlotLocked: the slots behind the one removed move up.
removeSlotLocked(s) ==
    LET n == First({i \in DOMAIN slots : slots[i] = s})
    IN  IF ~InRegistry(s) THEN slots
        ELSE [i \in 1..(Len(slots) - 1) |-> IF i < n THEN slots[i] ELSE slots[i + 1]]

\* A mutant: a slot whose last route was rolled back or released is left alone.
markSlotIdleLocked_NoTimer(sl, s) == sl

\* markSlotIdleLocked: an empty slot gets a fresh idle timer. (With the registry
\* closed no route has an owner, and the callers below return before this.)
markSlotIdleLocked(sl, s) ==
    IF sl.routes # {} THEN sl ELSE [sl EXCEPT !.idleTimer = Fresh(s)]

\* rollback and release do the same to the registry: nothing unless the caller's
\* slot still owns the route.
dropRoute(k, s) ==
    IF routeOwners[k] # s THEN UNCHANGED <<routeOwners, slot>>
    ELSE /\ routeOwners' = [routeOwners EXCEPT ![k] = NoSlot]
         /\ slot' = [slot EXCEPT ![s] =
                       markSlotIdleLocked(removeRoute(@, k), s)]

rollback(c) ==
    /\ call[c].pc = "rollback"
    /\ dropRoute(call[c].key, call[c].slot)
    /\ call' = [call EXCEPT ![c] = [pc |-> "returned", ok |-> FALSE]]
    /\ UNCHANGED <<started, closed, cancelled, slots, nextID, mux, fired, toStop,
                   readers, stream, faulty>>

release(c) ==
    /\ call[c].pc = "release"
    /\ dropRoute(call[c].key, call[c].slot)
    /\ call' = [call EXCEPT ![c] = [pc |-> "returned", ok |-> TRUE]]
    /\ UNCHANGED <<started, closed, cancelled, slots, nextID, mux, fired, toStop,
                   readers, stream, faulty>>

\* A mutant: the route is released without telling its connection.
owner_NoUnsubscribe(c) ==
    /\ call[c].pc = "owner"
    /\ LET k == call[c].key
       IN  call' = [call EXCEPT ![c] =
              IF closed THEN [pc |-> "returned", ok |-> FALSE]
              ELSE IF routeOwners[k] = NoSlot THEN [pc |-> "returned", ok |-> TRUE]
              ELSE [pc |-> "release", key |-> k, slot |-> routeOwners[k]]]
    /\ UNCHANGED <<started, closed, cancelled, slots, routeOwners, nextID, slot, mux,
                   fired, toStop, readers, stream, faulty>>

\* owner, the first step of an unsubscribe: a route nobody owns is done.
owner(c) ==
    /\ call[c].pc = "owner"
    /\ LET k == call[c].key
       IN  call' = [call EXCEPT ![c] =
              IF closed THEN [pc |-> "returned", ok |-> FALSE]
              ELSE IF routeOwners[k] = NoSlot THEN [pc |-> "returned", ok |-> TRUE]
              ELSE [pc |-> "unsubscribe", key |-> k, slot |-> routeOwners[k]]]
    /\ UNCHANGED <<started, closed, cancelled, slots, routeOwners, nextID, slot, mux,
                   fired, toStop, readers, stream, faulty>>

\* The timer of an empty slot fires; its function then waits for the lock.
idleTimerFires(s) ==
    /\ slot[s].idleTimer # 0
    /\ ~\E f \in fired : f.slot = s
    /\ fired' = fired \union {[slot |-> s, timer |-> slot[s].idleTimer]}
    /\ UNCHANGED <<started, closed, cancelled, slots, routeOwners, nextID, slot, mux,
                   toStop, readers, stream, call, faulty>>

\* A mutant: the slot is closed whatever happened to it since the timer fired.
closeIdleSlot_NoRecheck(f) ==
    /\ fired' = fired \ {f}
    /\ slot' = [slot EXCEPT ![f.slot] = stopped(@)]
    /\ mux' = [mux EXCEPT ![f.slot] = stopClient(@)]
    /\ slots' = removeSlotLocked(f.slot)
    /\ UNCHANGED <<started, closed, cancelled, routeOwners, nextID, toStop, readers,
                   stream, call, faulty>>

closeIdleSlot(f) ==
    /\ fired' = fired \ {f}
    /\ IF closed \/ slot[f.slot].idleTimer # f.timer \/ slot[f.slot].routes # {}
       THEN UNCHANGED <<slot, mux, slots>>
       ELSE /\ slot' = [slot EXCEPT ![f.slot] = stopped(@)]
            /\ mux' = [mux EXCEPT ![f.slot] = stopClient(@)]
            /\ slots' = removeSlotLocked(f.slot)
    /\ UNCHANGED <<started, closed, cancelled, routeOwners, nextID, toStop, readers,
                   stream, call, faulty>>

(***************************************************************************)
(* Shutdown.                                                               *)
(***************************************************************************)
\* The owner of the context given to Start cancels it.
cancel ==
    /\ started /\ ~cancelled
    /\ cancelled' = TRUE
    /\ UNCHANGED <<started, closed, slots, routeOwners, nextID, slot, mux, fired,
                   toStop, readers, stream, call, faulty>>

\* shutdownOnContextDone and the locked part of shutdown.
shutdown ==
    /\ cancelled /\ ~closed
    /\ closed' = TRUE
    /\ toStop' = {s \in SlotIDs : InRegistry(s)}
    /\ slots' = <<>>
    /\ routeOwners' = [k \in Keys |-> NoSlot]
    /\ UNCHANGED <<started, cancelled, nextID, slot, mux, fired, readers, 
                   stream, call, faulty>>

\* The rest of shutdown: each slot of the snapshot is stopped.
stopSlot(s) ==
    /\ s \in toStop
    /\ toStop' = toStop \ {s}
    /\ slot' = [slot EXCEPT ![s] = stopped(@)]
    /\ mux' = [mux EXCEPT ![s] = stopClient(@)]
    /\ UNCHANGED <<started, closed, cancelled, slots, routeOwners, nextID, fired,
                   readers, stream, call, faulty>>

\* slot.run: the slot's context ends with the registry's and stops its client.
stopOnContextDone(s) ==
    /\ cancelled /\ slot[s].ctx /\ ~mux[s].stopped
    /\ mux' = [mux EXCEPT ![s] = stopClient(@)]
    /\ UNCHANGED <<started, closed, cancelled, slots, routeOwners, nextID, slot,
                   fired, toStop, readers, stream, call, faulty>>

(***************************************************************************)
(* A caller's commands on its slot, outside the registry lock.             *)
(***************************************************************************)
\* slot.subscribe and slot.unsubscribe: the client refuses the command, queues
\* it, or has handled it before observeCommandResult looks at the handle. The
\* look never waits; ErrSubscriptionNotFound counts as success and
\* ErrSubscriptionExists as failure (translateCommandError).
command(c, kind, onOk, onError) ==
    LET s == call[c].slot
        cmd == [kind |-> kind, key |-> call[c].key]
    IN  \/ /\ mux[s].stopped \/ Len(mux[s].queue) >= QueueSize
           /\ call' = [call EXCEPT ![c] = onError]
           /\ UNCHANGED <<mux, faulty>>
        \/ /\ ~mux[s].stopped /\ Len(mux[s].queue) < QueueSize
           /\ mux' = [mux EXCEPT ![s].queue = Append(@, cmd)]
           /\ call' = [call EXCEPT ![c] = onOk]
           /\ UNCHANGED faulty
        \/ /\ ~mux[s].stopped /\ mux[s].queue = <<>> /\ slot[s].ctx
           /\ \E outcome \in OutcomesOf(mux[s], cmd) :
                 LET exists == kind = "subscribe" /\ cmd.key \in mux[s].subs
                 IN /\ mux' = [mux EXCEPT ![s].subs = handled(@, cmd, outcome)]
                    /\ call' = [call EXCEPT ![c] =
                         IF outcome = "ok" /\ ~exists THEN onOk ELSE onError]
                    /\ faulty' = IF outcome = "ok" THEN faulty
                                 ELSE faulty \union {<<s, cmd.key>>}

subscribe(c) ==
    /\ call[c].pc = "subscribe"
    /\ command(c, "subscribe", [pc |-> "returned", ok |-> TRUE],
               IF call[c].existed THEN [pc |-> "returned", ok |-> FALSE]
               ELSE [pc |-> "rollback", key |-> call[c].key, slot |-> call[c].slot])
    /\ UNCHANGED <<started, closed, cancelled, slots, routeOwners, nextID, slot, fired,
                   toStop, readers, stream>>

unsubscribe(c) ==
    /\ call[c].pc = "unsubscribe"
    /\ command(c, "unsubscribe",
               [pc |-> "release", key |-> call[c].key, slot |-> call[c].slot],
               [pc |-> "returned", ok |-> FALSE])
    /\ UNCHANGED <<started, closed, cancelled, slots, routeOwners, nextID, slot, fired,
                   toStop, readers, stream>>

(***************************************************************************)
(* Connections of a slot.                                                  *)
(***************************************************************************)
\* The mux has a live connection; handleConnected starts a read loop, unless
\* the slot is stopping.
handleConnected(s) ==
    /\ slot[s].ctx /\ ~mux[s].stopped /\ ~mux[s].up
    /\ mux' = [mux EXCEPT ![s].up = TRUE]
    /\ LET generation == slot[s].connectCount + 1
       IN  /\ slot' = [slot EXCEPT ![s].connectCount = generation]
           /\ readers' = readers \union
                 {[slot |-> s, generation |-> generation]}
    /\ UNCHANGED <<started, closed, cancelled, slots, routeOwners, nextID, fired,
                   toStop, stream, call, faulty>>

\* The network.
connectionLost(s) ==
    /\ mux[s].up /\ slot[s].connectCount <= MaxLosses
    /\ mux' = [mux EXCEPT ![s].up = FALSE]
    /\ UNCHANGED <<started, closed, cancelled, slots, routeOwners, nextID, slot,
                   fired, toStop, readers, stream, call, faulty>>

Alive(r) == mux[r.slot].up /\ r.generation = slot[r.slot].connectCount

\* readLoop: a message is handled (handleTransportMessage). A data packet of a
\* subscribed route goes to its stream; raw packets, control responses, what does
\* not decode and unknown TR codes become events.
readMessage(r) ==
    /\ Alive(r)
    /\ \E k \in mux[r.slot].subs : publishRealtime(k)
    /\ UNCHANGED <<started, closed, cancelled, slots, routeOwners, nextID, slot, mux,
                   fired, toStop, readers, call, faulty>>

\* The read loop of a lost connection ends; handleReadFailure reports it unless the
\* slot stops or has a newer connection.
handleReadFailure(r) ==
    /\ ~Alive(r)
    /\ readers' = readers \ {r}
    /\ UNCHANGED <<started, closed, cancelled, slots, routeOwners, nextID, slot, mux,
                   fired, toStop, stream, call, faulty>>

Caller(c) ==
    acquire(c) \/ subscribe(c) \/ rollback(c) \/ owner(c) \/ unsubscribe(c) \/ release(c)

SlotStep(s) ==
    \/ muxHandle(s) \/ idleTimerFires(s) \/ stopSlot(s) \/ stopOnContextDone(s)
    \/ handleConnected(s) \/ connectionLost(s)

Reader(r) == readMessage(r) \/ handleReadFailure(r)

\* Everything but the starting and the cancelling.
RtStep ==
    \/ shutdown
    \/ \E c \in Callers : Caller(c)
    \/ \E s \in SlotIDs : SlotStep(s)
    \/ \E f \in fired : closeIdleSlot(f)
    \/ \E r \in readers : Reader(r)

=============================================================================
