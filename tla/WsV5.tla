-------------------------------- MODULE WsV5 --------------------------------
(***************************************************************************)
(* The fifth generation of the websocket client (pkg/wsrefact_v5). One     *)
(* goroutine, Run, owns the state of the client and consumes eventCh, to   *)
(* which callers, the dial goroutine, the reconnect timer and the read     *)
(* loop and the io worker of every connection publish. It blocks in two    *)
(* places of its own: in SendSync, while it replays subscriptions, and in  *)
(* Dispose, on the queue of the worker it retires.                         *)
(*                                                                         *)
(* A connection is numbered by its generation. Backoff delays, the attempt *)
(* number and the emitted events decide nothing and are left out.          *)
(***************************************************************************)
EXTENDS Integers, Sequences, FiniteSets

CONSTANTS
    Keys,               \* logical subscription keys
    EventQueueSize,     \* config.EventQueueSize
    WriteQueueSize,     \* config.WriteQueueSize
    MaxRequests,        \* bound: public calls
    MaxConns            \* bound: connections dialed

ASSUME V5Limits ==
    /\ EventQueueSize \in Nat \ {0} /\ WriteQueueSize \in Nat \ {0}
    /\ MaxRequests \in Nat /\ MaxConns \in Nat \ {0}

VARIABLES
    eventCh,            \* client.eventCh
    cancelled,          \* runCtx is done
    pc,                 \* where Run is
    todo,               \* keys activate has still to replay
    entries,            \* the keys of store.entries (store.order is left open)
    liveTransport,      \* generation of the live connection, 0 for nil
    disposing,          \* generation whose Dispose is under way
    routingOpen, dialing, waitingReconnect,
    connected,          \* client.state is ConnStateConnected
    conns,              \* the connections so far, by generation
    answers,            \* by request: how often its Subscription was resolved
    server,             \* keys the server sends on the last connection
    odd                 \* history: keys of whose last request an error was reported

loopVars == <<pc, todo, entries, liveTransport, disposing, routingOpen, dialing,
              waitingReconnect, connected>>
vars == <<eventCh, cancelled, loopVars, conns, answers, server, odd>>

Gens == 1..Len(conns)
Requests == 1..Len(answers)
Kinds == {"send", "subscribe", "unsubscribe"}

\* up: the connection is open. broken: a write failed, and all later ones will.
\* reader: where runReadLoop is, "publish" with the outcome. queue: worker.eventCh.
\* worker: where run is.
NewConn == [up |-> TRUE, broken |-> FALSE, reader |-> "reading", outcome |-> "none",
            worker |-> "idle", queue |-> <<>>]

Init ==
    /\ eventCh = <<>> /\ cancelled = FALSE
    /\ pc = "idle" /\ todo = {} /\ entries = {}
    /\ liveTransport = 0 /\ disposing = 0
    /\ routingOpen = FALSE /\ dialing = FALSE /\ waitingReconnect = FALSE
    /\ connected = FALSE
    /\ conns = <<>> /\ answers = <<>>
    /\ server = {} /\ odd = {}

(***************************************************************************)
(* Publishing to eventCh.                                                  *)
(***************************************************************************)
HasRoom == Len(eventCh) < EventQueueSize
publish(event) == HasRoom /\ eventCh' = Append(eventCh, event)

\* publishInternal, publishFailure and publishReadEvent: the event is published, or
\* dropped once the client stops.
publishInternal(event) ==
    \/ publish(event)
    \/ cancelled /\ UNCHANGED eventCh

\* A mutant: it waits for room although the client stops.
publishFailure_NoShutdown(g) == publish([kind |-> "failure", gen |-> g])

publishFailure(g) == publishInternal([kind |-> "failure", gen |-> g])

\* publishPublic: refused before Run, after Stop, and when the queue is full; the
\* caller then resolves the request itself.
publishPublic(event) ==
    /\ pc # "idle" /\ ~cancelled
    /\ publish(event)

\* Send, Subscribe and Unsubscribe. (Subscriptions reads the store the same way, and
\* gives up when the client stops.)
Call(kind, k) ==
    /\ Len(answers) < MaxRequests
    /\ answers' = Append(answers, 0)
    /\ publishPublic([kind |-> kind, key |-> k, r |-> Len(answers')])
    /\ UNCHANGED <<cancelled, loopVars, conns, server, odd>>

Stop ==
    /\ ~cancelled /\ pc # "idle"
    /\ cancelled' = TRUE
    /\ UNCHANGED <<eventCh, loopVars, conns, answers, server, odd>>

(***************************************************************************)
(* The goroutines of the dial and of the reconnect timer. They exist from  *)
(* startDial and scheduleReconnect until they publish.                     *)
(***************************************************************************)
InEventCh(kind) == \E i \in DOMAIN eventCh : eventCh[i].kind = kind

dial ==
    /\ dialing /\ pc # "ended" /\ ~InEventCh("dial")
    /\ \E ok \in {FALSE, Len(conns) < MaxConns} : publish([kind |-> "dial", ok |-> ok])
    /\ UNCHANGED <<cancelled, loopVars, conns, answers, server, odd>>

reconnectTick ==
    /\ waitingReconnect /\ pc # "ended" /\ ~InEventCh("tick")
    /\ publish([kind |-> "tick"])
    /\ UNCHANGED <<cancelled, loopVars, conns, answers, server, odd>>

(***************************************************************************)
(* A connection: its read loop and its io worker.                          *)
(***************************************************************************)
\* Bound: the last connection does not fail by itself.
Faulty(g) == g < MaxConns

\* runReadLoop: ReadMessage fails on a closed connection; a handler may return an
\* error that ends the connection or the client. (With ErrHandlerContinue reading goes
\* on; the event is only passed to a hook, and takes room like any other.)
readFails(g) ==
    /\ conns[g].reader = "reading" /\ ~conns[g].up
    /\ conns' = [conns EXCEPT ![g].reader = "publish", ![g].outcome = "readErr"]
    /\ UNCHANGED <<eventCh, cancelled, loopVars, answers, server, odd>>

handlerFails(g) ==
    /\ conns[g].reader = "reading" /\ conns[g].up /\ Faulty(g)
    /\ \E err \in {"backoff", "stop"} :
          conns' = [conns EXCEPT ![g].reader = "publish", ![g].outcome = err]
    /\ UNCHANGED <<eventCh, cancelled, loopVars, answers, server, odd>>

\* publishReadEvent, which ends the loop.
publishReadEvent(g) ==
    /\ conns[g].reader = "publish"
    /\ publishInternal([kind |-> "read", gen |-> g, outcome |-> conns[g].outcome])
    /\ conns' = [conns EXCEPT ![g].outcome = "none", ![g].reader = "done"]
    /\ UNCHANGED <<cancelled, loopVars, answers, server, odd>>

TryEnqueue(g, request) ==
    /\ Len(conns[g].queue) < WriteQueueSize
    /\ conns' = [conns EXCEPT ![g].queue = Append(@, request)]

\* Subscription.resolve.
resolve(r) == answers' = [answers EXCEPT ![r] = @ + 1]

\* A mutant: only a request that was written is answered.
handleRequest_OnlyWritten(g, request, ok) ==
    IF request.r = 0
    THEN pc' = (IF ok THEN "replay" ELSE "failed") /\ UNCHANGED answers
    ELSE (IF ok THEN resolve(request.r) ELSE UNCHANGED answers) /\ UNCHANGED pc

\* handleRequest answers the request: a caller's, or (SendSync) that of the loop,
\* which waits for it.
handleRequest(g, request, ok) ==
    IF request.r = 0
    THEN pc' = (IF ok THEN "replay" ELSE "failed") /\ UNCHANGED answers
    ELSE resolve(request.r) /\ UNCHANGED pc

\* The worker takes a write, which succeeds or fails (writeOne) and is answered.
workerWrites(g) ==
    /\ conns[g].worker = "idle" /\ conns[g].queue # <<>>
    /\ LET request == Head(conns[g].queue)
       IN  /\ request.kind # "dispose"
           /\ \E ok \in BOOLEAN :
                 /\ IF conns[g].up /\ ~conns[g].broken THEN ok \/ Faulty(g) ELSE ~ok
                 /\ handleRequest(g, request, ok)
                 /\ server' = IF ~ok THEN server
                              ELSE IF request.kind = "subscribe" THEN server \union {request.key}
                              ELSE IF request.kind = "unsubscribe" THEN server \ {request.key}
                              ELSE server
                 /\ conns' = [conns EXCEPT ![g].queue = Tail(@), ![g].broken = @ \/ ~ok,
                                           ![g].worker = IF ok THEN "idle" ELSE "publish"]
    /\ UNCHANGED <<eventCh, cancelled, todo, entries, liveTransport, disposing, routingOpen,
                   dialing, waitingReconnect, connected, odd>>

\* handlePing: a ping that is not written is a failure too. (Bound: only the first
\* failure of a connection.)
pingFails(g) ==
    /\ conns[g].worker = "idle" /\ ~conns[g].broken /\ (Faulty(g) \/ ~conns[g].up)
    /\ conns' = [conns EXCEPT ![g].broken = TRUE, ![g].worker = "publish"]
    /\ UNCHANGED <<eventCh, cancelled, loopVars, answers, server, odd>>

workerReports(g) ==
    /\ conns[g].worker = "publish"
    /\ publishFailure(g)
    /\ conns' = [conns EXCEPT ![g].worker = "idle"]
    /\ UNCHANGED <<cancelled, loopVars, answers, server, odd>>

\* The dispose event ends the worker.
workerEnds(g) ==
    /\ conns[g].worker = "idle" /\ conns[g].queue # <<>>
    /\ Head(conns[g].queue).kind = "dispose"
    /\ conns' = [conns EXCEPT ![g].worker = "done", ![g].queue = Tail(@)]
    /\ UNCHANGED <<eventCh, cancelled, loopVars, answers, server, odd>>

\* The network.
connectionLost(g) ==
    /\ conns[g].up /\ Faulty(g)
    /\ conns' = [conns EXCEPT ![g].up = FALSE]
    /\ UNCHANGED <<eventCh, cancelled, loopVars, answers, server, odd>>

(***************************************************************************)
(* The loop of Run: one action per event, and one per step of a handler    *)
(* that waits.                                                             *)
(***************************************************************************)
\* Run; startDial of the first connection.
Run ==
    /\ pc = "idle"
    /\ pc' = "select" /\ dialing' = TRUE
    /\ UNCHANGED <<eventCh, cancelled, todo, entries, liveTransport, disposing, routingOpen,
                   waitingReconnect, connected, conns, answers, server, odd>>

\* handleEvent takes the next event of this kind.
takes(kind) ==
    /\ pc = "select" /\ eventCh # <<>> /\ Head(eventCh).kind = kind
    /\ eventCh' = Tail(eventCh)

canRouteWrites == connected /\ routingOpen /\ liveTransport # 0

\* The end of the three handlers of writes: the payload is generated and handed to
\* the worker, which answers it; or it is answered here with an error, for want of a
\* connection, of a payload or of room.
route(event) ==
    LET about == IF event.kind = "send" THEN {} ELSE {event.key}
    IN  \/ /\ canRouteWrites
           /\ TryEnqueue(liveTransport, event)
           /\ odd' = odd \ about
           /\ UNCHANGED answers
        \/ /\ canRouteWrites
              => event.kind # "send" \/ Len(conns[liveTransport].queue) = WriteQueueSize
           /\ resolve(event.r)
           /\ odd' = odd \union about
           /\ UNCHANGED conns

\* A mutant: a send that the worker has no room for is forgotten.
handleSend_Forgets ==
    /\ takes("send")
    /\ IF canRouteWrites
       THEN /\ \/ TryEnqueue(liveTransport, Head(eventCh))
               \/ Len(conns[liveTransport].queue) = WriteQueueSize /\ UNCHANGED conns
            /\ UNCHANGED answers
       ELSE resolve(Head(eventCh).r) /\ UNCHANGED conns
    /\ UNCHANGED <<cancelled, loopVars, server, odd>>

\* handleSend.
handleSend ==
    /\ takes("send")
    /\ route(Head(eventCh))
    /\ UNCHANGED <<cancelled, loopVars, server>>

\* handleSubscribe: an intent that is stored (store.put) stays so when its write
\* fails; one that is there already is refused.
handleSubscribe ==
    /\ takes("subscribe")
    /\ LET event == Head(eventCh)
       IN  IF event.key \in entries
           THEN resolve(event.r) /\ UNCHANGED <<entries, conns, odd>>
           ELSE entries' = entries \union {event.key} /\ route(event)
    /\ UNCHANGED <<cancelled, pc, todo, liveTransport, disposing, routingOpen, dialing,
                   waitingReconnect, connected, server>>

\* handleUnsubscribe (store.remove).
handleUnsubscribe ==
    /\ takes("unsubscribe")
    /\ LET event == Head(eventCh)
       IN  IF event.key \notin entries
           THEN resolve(event.r) /\ UNCHANGED <<entries, conns, odd>>
           ELSE entries' = entries \ {event.key} /\ route(event)
    /\ UNCHANGED <<cancelled, pc, todo, liveTransport, disposing, routingOpen, dialing,
                   waitingReconnect, connected, server>>

\* scheduleReconnect, by the value of waitingReconnect.
scheduleReconnect == waitingReconnect' = (waitingReconnect \/ ~cancelled)

\* handleDialResult of a failed dial, or when the client has stopped.
handleDialFailure ==
    /\ takes("dial") /\ (~Head(eventCh).ok \/ cancelled)
    /\ dialing' = FALSE
    /\ scheduleReconnect
    /\ UNCHANGED <<cancelled, pc, todo, entries, liveTransport, disposing, routingOpen,
                   connected, conns, answers, server, odd>>

\* A mutant: one intent is not replayed.
snapshot_DropsOne == IF entries = {} THEN {} ELSE entries \ {CHOOSE k \in entries : TRUE}

\* store.snapshot.
snapshot == entries

\* handleDialResult of a connection: newTransport, and activate begins.
handleDialSuccess ==
    /\ takes("dial") /\ Head(eventCh).ok /\ ~cancelled
    /\ conns' = Append(conns, NewConn)
    /\ liveTransport' = Len(conns')
    /\ dialing' = FALSE /\ routingOpen' = FALSE
    /\ pc' = "replay" /\ todo' = snapshot
    /\ server' = {} /\ odd' = {}
    /\ UNCHANGED <<cancelled, entries, disposing, waitingReconnect, connected, answers>>

\* activate hands one intent to the worker and waits for the answer (SendSync), or
\* its payload cannot be generated.
activate ==
    /\ pc = "replay"
    /\ \E k \in todo :
          /\ todo' = todo \ {k}
          /\ \/ /\ TryEnqueue(liveTransport, [kind |-> "subscribe", key |-> k, r |-> 0])
                /\ pc' = "sync"
             \/ Faulty(liveTransport) /\ pc' = "failed" /\ UNCHANGED conns
    /\ UNCHANGED <<eventCh, cancelled, entries, liveTransport, disposing, routingOpen, dialing,
                   waitingReconnect, connected, answers, server, odd>>

\* OnReady returns, and the connection is open to writes; or it fails.
activated ==
    /\ pc = "replay" /\ todo = {}
    /\ \/ pc' = "select" /\ routingOpen' = TRUE /\ connected' = TRUE
       \/ Faulty(liveTransport) /\ pc' = "failed" /\ UNCHANGED <<routingOpen, connected>>
    /\ UNCHANGED <<eventCh, cancelled, todo, entries, liveTransport, disposing, dialing,
                   waitingReconnect, conns, answers, server, odd>>

\* A mutant: the connection is left open.
releaseLiveTransport_Open ==
    /\ routingOpen' = FALSE /\ liveTransport' = 0
    /\ disposing' = liveTransport /\ pc' = "dispose" /\ todo' = {}
    /\ UNCHANGED conns

\* releaseLiveTransport up to the blocking send of Dispose: session.Stop.
releaseLiveTransport ==
    /\ routingOpen' = FALSE /\ liveTransport' = 0
    /\ disposing' = liveTransport /\ pc' = "dispose" /\ todo' = {}
    /\ conns' = [conns EXCEPT ![liveTransport].up = FALSE]

activateFails ==
    /\ pc = "failed"
    /\ releaseLiveTransport
    /\ UNCHANGED <<eventCh, cancelled, entries, dialing, waitingReconnect, connected, answers,
                   server, odd>>

\* worker.Dispose: the event waits for room in the queue. The next attempt is
\* scheduled, or shutdown goes on.
Dispose ==
    /\ pc \in {"dispose", "shutdown"} /\ disposing # 0
    /\ TryEnqueue(disposing, [kind |-> "dispose"])
    /\ disposing' = 0
    /\ IF pc = "dispose"
       THEN pc' = "select" /\ connected' = FALSE /\ scheduleReconnect
       ELSE UNCHANGED <<pc, connected, waitingReconnect>>
    /\ UNCHANGED <<eventCh, cancelled, todo, entries, liveTransport, routingOpen, dialing,
                   answers, server, odd>>

\* A tick: startDial.
handleReconnectTick ==
    /\ takes("tick")
    /\ waitingReconnect' = FALSE
    /\ dialing' = (dialing \/ ~cancelled)
    /\ UNCHANGED <<cancelled, pc, todo, entries, liveTransport, disposing, routingOpen,
                   connected, conns, answers, server, odd>>

FromLive == liveTransport # 0 /\ Head(eventCh).gen = liveTransport

\* handleSessionRead: of another connection; a loss (enterBackoff); or the end of Run.
handleReadIgnored ==
    /\ takes("read") /\ ~FromLive
    /\ UNCHANGED <<cancelled, loopVars, conns, answers, server, odd>>

enterBackoff ==
    /\ takes("read") /\ FromLive /\ Head(eventCh).outcome \in {"readErr", "backoff"}
    /\ releaseLiveTransport
    /\ UNCHANGED <<cancelled, entries, dialing, waitingReconnect, connected, answers, server,
                   odd>>

\* The first steps of shutdown, by Stop or by a handler.
beginShutdown ==
    /\ cancelled' = TRUE
    /\ routingOpen' = FALSE /\ liveTransport' = 0
    /\ disposing' = liveTransport /\ pc' = "shutdown"
    /\ conns' = IF liveTransport = 0 THEN conns ELSE [conns EXCEPT ![liveTransport].up = FALSE]
    /\ UNCHANGED <<todo, entries, dialing, waitingReconnect, connected, answers, server, odd>>

handlerStops == takes("read") /\ FromLive /\ Head(eventCh).outcome = "stop" /\ beginShutdown

shutdown == pc = "select" /\ cancelled /\ beginShutdown /\ UNCHANGED eventCh

\* shutdown waits for the read loops and the workers of all connections.
shutdownEnds ==
    /\ pc = "shutdown" /\ disposing = 0
    /\ \A g \in Gens : conns[g].worker = "done" /\ conns[g].reader = "done"
    /\ pc' = "ended" /\ connected' = FALSE
    /\ UNCHANGED <<eventCh, cancelled, todo, entries, liveTransport, disposing, routingOpen,
                   dialing, waitingReconnect, conns, answers, server, odd>>

\* A mutant: a failed write starts a reconnect, and the connection stays.
handleWorkerFailure_Reconnects ==
    /\ takes("failure")
    /\ routingOpen' = (routingOpen /\ ~FromLive)
    /\ IF FromLive /\ routingOpen THEN scheduleReconnect ELSE UNCHANGED waitingReconnect
    /\ UNCHANGED <<cancelled, pc, todo, entries, liveTransport, disposing, dialing, connected,
                   conns, answers, server, odd>>

\* handleWorkerFailure closes the routing of the live connection; its loss is for the
\* read loop to find.
handleWorkerFailure ==
    /\ takes("failure")
    /\ routingOpen' = (routingOpen /\ ~FromLive)
    /\ UNCHANGED <<cancelled, pc, todo, entries, liveTransport, disposing, dialing,
                   waitingReconnect, connected, conns, answers, server, odd>>

LoopStep ==
    \/ handleSend \/ handleSubscribe \/ handleUnsubscribe
    \/ handleDialFailure \/ handleDialSuccess \/ handleReconnectTick
    \/ activate \/ activated \/ activateFails \/ Dispose
    \/ handleReadIgnored \/ enterBackoff \/ handlerStops \/ handleWorkerFailure
    \/ shutdown \/ shutdownEnds

WorkerStep(g) == workerWrites(g) \/ workerReports(g) \/ workerEnds(g)
ReaderStep(g) == readFails(g) \/ publishReadEvent(g)

Next ==
    \/ Run \/ Stop
    \/ \E kind \in Kinds, k \in Keys : Call(kind, k)
    \/ dial \/ reconnectTick
    \/ LoopStep
    \/ \E g \in Gens :
          WorkerStep(g) \/ ReaderStep(g) \/ handlerFails(g) \/ pingFails(g) \/ connectionLost(g)

\* Goroutines that can run do. One that waits for room in eventCh gets its turn when
\* there is room again and again: senders on a Go channel are served in order. Callers,
\* the network and handlers owe nothing.
Fairness ==
    /\ WF_vars(LoopStep)
    /\ WF_vars(\E g \in Gens : workerWrites(g) \/ workerEnds(g) \/ readFails(g))
    /\ SF_vars(\E g \in Gens : workerReports(g) \/ publishReadEvent(g))

Spec == Init /\ [][Next]_vars
FairSpec == Spec /\ Fairness

(***************************************************************************)
(* Properties.                                                             *)
(***************************************************************************)
Writes == [kind : Kinds, key : Keys, r : 0..MaxRequests]

TypeOK ==
    /\ Len(eventCh) <= EventQueueSize /\ cancelled \in BOOLEAN
    /\ pc \in {"idle", "select", "replay", "sync", "failed", "dispose", "shutdown", "ended"}
    /\ todo \subseteq Keys /\ entries \subseteq Keys
    /\ liveTransport \in 0..Len(conns) /\ disposing \in 0..Len(conns)
    /\ routingOpen \in BOOLEAN /\ dialing \in BOOLEAN /\ waitingReconnect \in BOOLEAN
    /\ connected \in BOOLEAN
    /\ Len(conns) <= MaxConns
    /\ \A g \in Gens :
          /\ conns[g].up \in BOOLEAN /\ conns[g].broken \in BOOLEAN
          /\ conns[g].reader \in {"reading", "publish", "done"}
          /\ conns[g].outcome \in {"none", "readErr", "backoff", "stop"}
          /\ conns[g].worker \in {"idle", "publish", "done"}
          /\ Len(conns[g].queue) <= WriteQueueSize
          /\ \A i \in DOMAIN conns[g].queue :
                conns[g].queue[i] \in Writes \union {[kind |-> "dispose"]}
    /\ answers \in Seq(Nat) /\ Len(answers) <= MaxRequests
    /\ server \subseteq Keys /\ odd \subseteq Keys

\* The client is never stuck and never runs two connections: while it is not stopping
\* it has a live connection, or a dial under way, or a reconnect timer, and only one
\* of them (client.go:663, client.go:689, client.go:597).
OneDriver ==
    pc \in {"select", "replay", "sync", "failed"} /\ ~cancelled
    => Cardinality({d \in {"live", "dial", "timer"} :
                      \/ d = "live" /\ liveTransport # 0
                      \/ d = "dial" /\ dialing
                      \/ d = "timer" /\ waitingReconnect}) = 1

Waits(r) ==
    \/ \E i \in DOMAIN eventCh : eventCh[i].kind \in Kinds /\ eventCh[i].r = r
    \/ \E g \in Gens : \E i \in DOMAIN conns[g].queue :
          conns[g].queue[i].kind \in Kinds /\ conns[g].queue[i].r = r

\* Every request accepted from a caller waits in exactly one queue or was answered,
\* and once: a second answer would be a send on a closed channel (types.go:166).
AnsweredOnce == \A r \in Requests : answers[r] = IF Waits(r) THEN 0 ELSE 1

\* The subscriptions the client keeps are those the server sends on the live
\* connection, once the worker is idle: replayed after a reconnect, and written in
\* the order of the calls. Except for a key whose last call was answered with an error
\* by the loop (client.go:451), and a connection to which writes fail.
DesiredOnServer ==
    /\ pc = "select" /\ routingOpen
    /\ conns[liveTransport].queue = <<>> /\ ~conns[liveTransport].broken
    => \A k \in Keys \ odd : k \in server <=> k \in entries

\* The loop waits for a worker (in Dispose for room in its queue, in SendSync for its
\* answer) that waits for room in eventCh, which only the loop empties.
MutualBlock ==
    /\ ~cancelled /\ ~HasRoom
    /\ \E g \in Gens :
          /\ conns[g].worker = "publish"
          /\ \/ pc = "dispose" /\ g = disposing /\ Len(conns[g].queue) = WriteQueueSize
             \/ pc = "sync" /\ g = liveTransport

\* Every request is answered, unless the client is stopped first or is blocked.
Answered ==
    \A r \in 1..MaxRequests :
        r \in Requests ~> (r \in Requests /\ answers[r] > 0) \/ cancelled \/ MutualBlock

\* The goroutines of a connection that was given up end, unless the client is blocked
\* (transport.go:60).
RetiredEnds ==
    \A g \in 1..MaxConns :
        g \in Gens /\ g # liveTransport
        ~> (g \in Gens /\ conns[g].worker = "done" /\ conns[g].reader = "done") \/ MutualBlock

\* Stop always brings Run to an end, also out of a mutual block (client.go:184).
ShutdownCompletes == cancelled ~> pc = "ended"

=============================================================================
