------------------------------ MODULE KisFeed -------------------------------
(***************************************************************************)
(* Who uses the reconnecting transport: the subscription manager           *)
(* (pkg/subscription) counts references and calls the broker a             *)
(* subscription is assigned to while it holds its lock; the KIS broker     *)
(* (adapter/broker/kis) passes the calls to its transport and the          *)
(* transport's lifecycle to the engine. The manager's other broker is any  *)
(* exchange; what it holds is not kept, so that a call that fails there is *)
(* either one that changes nothing or, in Swap, one that is ignored.       *)
(***************************************************************************)
EXTENDS WsReplay

CONSTANTS
    MaxCount            \* bound: references to one subscription

ASSUME FeedLimits == MaxCount \in Nat \ {0}

VARIABLES
    entry,              \* manager.entry: count and broker; count 0 when absent
    call,               \* the call under manager.mu that has still to wake the writer
    told                \* the connection status the engine was told last

vars == <<wsVars, entry, call, told>>

NoCall == [pc |-> "none"]
Absent == [count |-> 0, broker |-> "none"]

Init ==
    /\ WsInit
    /\ entry = [k \in Keys |-> Absent]
    /\ call = NoCall
    /\ told = "none"

(***************************************************************************)
(* The KIS broker.                                                         *)
(***************************************************************************)
\* broker.subscribe and broker.unsubscribe: the intent is recorded; if that changed
\* the log, the active session is looked up and woken.
callTransport(kind, k) ==
    /\ record(kind, k)
    /\ call' = IF Changes(kind, k) THEN [pc |-> "load"] ELSE NoCall
    /\ lost' = lost \ {k}
    /\ UNCHANGED <<desired, run, attempt, active, session, event, cancelled, server,
                   odd>>

\* supervisor.Active.
loadActive ==
    /\ call.pc = "load"
    /\ call' = [pc |-> "wake", n |-> active]
    /\ UNCHANGED <<wsVars, entry, told>>

wake ==
    /\ call.pc = "wake"
    /\ WakeWriter(call.n)
    /\ call' = NoCall
    /\ UNCHANGED <<pending, desired, run, attempt, active, event, cancelled, server,
                   odd, lost, entry, told>>

\* A mutant: a loss is passed on only when the transport ends.
runTransportStatus_EndOnly ==
    told' = IF event' \in {event, "reconnected", "reconnecting"} THEN told ELSE event'

\* runTransportStatus: an event is passed on to the engine; there is no case for a
\* connection that is not the first.
runTransportStatus ==
    told' = IF event' = event \/ event' = "reconnected" THEN told ELSE event'

\* Start.
Start == startRun /\ UNCHANGED <<entry, call, told>>

(***************************************************************************)
(* The subscription manager. manager.mu is free when there is no call.     *)
(***************************************************************************)
assign(k, count, broker) == entry' = [entry EXCEPT ![k] = [count |-> count, broker |-> broker]]

\* Subscribe of a key that has an entry.
SubscribeAgain(k) ==
    /\ call = NoCall /\ entry[k].count \in 1..(MaxCount - 1)
    /\ assign(k, entry[k].count + 1, entry[k].broker)
    /\ UNCHANGED <<wsVars, call, told>>

\* Subscribe of a new key, for which selectFn chooses a broker. (If that fails, or
\* the other broker does, nothing changes.)
SubscribeKis(k) ==
    /\ call = NoCall /\ entry[k] = Absent
    /\ callTransport("subscribe", k)
    /\ assign(k, 1, "kis")
    /\ UNCHANGED told

SubscribeOther(k) ==
    /\ call = NoCall /\ entry[k] = Absent
    /\ assign(k, 1, "other")
    /\ UNCHANGED <<wsVars, call, told>>

\* Release of one of several references.
ReleaseOne(k) ==
    /\ call = NoCall /\ entry[k].count > 1
    /\ assign(k, entry[k].count - 1, entry[k].broker)
    /\ UNCHANGED <<wsVars, call, told>>

\* Release of the last reference, which unsubscribes. (If the other broker fails,
\* the count is restored: nothing changes.)
ReleaseKis(k) ==
    /\ call = NoCall /\ entry[k].count = 1 /\ entry[k].broker = "kis"
    /\ callTransport("unsubscribe", k)
    /\ assign(k, 0, "none")
    /\ UNCHANGED told

ReleaseOther(k) ==
    /\ call = NoCall /\ entry[k].count = 1 /\ entry[k].broker = "other"
    /\ assign(k, 0, "none")
    /\ UNCHANGED <<wsVars, call, told>>

\* Swap: the new broker is subscribed first, and a failure of the old one to
\* unsubscribe is ignored.
SwapToKis(k) ==
    /\ call = NoCall /\ entry[k].broker = "other"
    /\ callTransport("subscribe", k)
    /\ assign(k, entry[k].count, "kis")
    /\ UNCHANGED told

\* A mutant: the old broker keeps the subscription.
SwapToOther_KeepOld(k) ==
    /\ call = NoCall /\ entry[k].broker = "kis"
    /\ assign(k, entry[k].count, "other")
    /\ UNCHANGED <<wsVars, call, told>>

SwapToOther(k) ==
    /\ call = NoCall /\ entry[k].broker = "kis"
    /\ callTransport("unsubscribe", k)
    /\ assign(k, entry[k].count, "other")
    /\ UNCHANGED told

ManagerCall(k) ==
    \/ SubscribeAgain(k) \/ SubscribeKis(k) \/ SubscribeOther(k)
    \/ ReleaseOne(k) \/ ReleaseKis(k) \/ ReleaseOther(k)
    \/ SwapToKis(k) \/ SwapToOther(k)

FeedStep == WsStep /\ runTransportStatus /\ UNCHANGED <<entry, call>>

\* A panic ends the process.
Next ==
    /\ run # "panicked"
    /\ \/ FeedStep
       \/ Start
       \/ \E k \in Keys : ManagerCall(k)
       \/ loadActive
       \/ wake

\* Goroutines that can run do, payloads are generated or fail, and a dial is not
\* refused for ever. Calls, losses and the cancellation are up to others.
Alive == run # "panicked"
Fairness ==
    /\ WF_vars(Alive /\ (loadActive \/ wake))
    /\ WF_vars(Alive /\ (takeSignal \/ peekFront \/ generated \/ genFails \/ written
                         \/ writeFails \/ writerExits) /\ runTransportStatus
               /\ UNCHANGED <<entry, call>>)
    /\ SF_vars(Alive /\ takeSignal /\ runTransportStatus
               /\ UNCHANGED <<entry, call>>)
    /\ WF_vars(Alive /\ SupervisorStep /\ runTransportStatus
               /\ UNCHANGED <<entry, call>>)
    /\ SF_vars(Alive /\ dialed /\ runTransportStatus
               /\ UNCHANGED <<entry, call>>)
    /\ WF_vars(Alive /\ (watcherWaits \/ watchParentCancellation) /\ runTransportStatus
               /\ UNCHANGED <<entry, call>>)

Spec == Init /\ [][Next]_vars
FairSpec == Spec /\ Fairness

(***************************************************************************)
(* Properties.                                                             *)
(***************************************************************************)
Intents == [kind : {"subscribe", "unsubscribe"}, key : Keys]

TypeOK ==
    /\ pending \in Seq(Intents) /\ Len(pending) <= MaxPending + Cardinality(Keys)
    /\ desired \subseteq Keys
    /\ run \in {"idle", "dial", "backoff", "attach", "ready", "startWriter", "serve",
                "stop", "ended", "panicked"}
    /\ attempt \in 0..1 /\ active \in 0..MaxSessions /\ cancelled \in BOOLEAN
    /\ session \in [n : 0..MaxSessions, up : BOOLEAN, ctx : BOOLEAN,
                    writer : {"none", "select", "drain", "gen", "write", "exited"},
                    op : {NoOp} \union Intents, signal : BOOLEAN,
                    queued : 0..MaxSendQueue, watcher : {"new", "waiting", "late", "gone"},
                    failed : BOOLEAN]
    /\ event \in {"none", "connected", "reconnected", "reconnecting", "disconnected"}
    /\ server \subseteq Keys /\ odd \subseteq Keys /\ lost \subseteq Keys
    /\ entry \in [Keys -> [count : 0..MaxCount, broker : {"none", "kis", "other"}]]
    /\ call \in {NoCall, [pc |-> "load"]} \union [pc : {"wake"}, n : 0..MaxSessions]
    /\ told \in {"none", "connected", "reconnecting", "disconnected"}

\* The log has one writer: the writer of a session is done before the next one is
\* dialed and the log rebuilt, so that the intent a writer is handling is the front of
\* the log, which it will remove (session.go:286, replay.go:143).
WriterOwnsFront ==
    /\ run \in {"backoff", "dial", "attach", "ready"} => session.writer \in {"none", "exited"}
    /\ session.writer \in {"gen", "write"} => pending # <<>> /\ Head(pending) = session.op

\* No wake-up is lost: a writer that waits while the log holds intents has a signal,
\* or a caller is on its way to give it one, unless a write of the session failed or
\* the session is over (replay.go:96, supervisor.go:217, session.go:178).
NoLostWakeup ==
    /\ run = "serve" /\ session.writer = "select" /\ pending # <<>>
    /\ session.ctx /\ ~session.failed
    => session.signal \/ call.pc = "load" \/ (call.pc = "wake" /\ call.n = session.n)

\* The KIS transport holds the subscriptions the manager assigns to it and no others,
\* over all releases, swaps and reconnects, except those whose payload could not be
\* generated (replay.go:186).
HeldWhereAssigned ==
    \A k \in Keys \ lost : isLogicallySubscribed(k) <=> entry[k].broker = "kis"

\* When the log is written the server sends what is desired, also on a connection
\* that replaced another one, except for keys it refused or whose payload could not
\* be generated.
ServerAgrees ==
    run = "serve" /\ session.up /\ session.writer = "select" /\ pending = <<>> /\ ~session.failed
    => \A k \in Keys \ odd : k \in server <=> k \in desired

\* A subscription is restored after every loss: what the manager assigned to the KIS
\* broker reaches the server, unless it is given up meanwhile, refused, lost or not
\* written, or the transport ends.
Restored ==
    \A k \in Keys :
        entry[k].broker = "kis" /\ run # "idle"
        ~> \/ k \in server \/ k \in odd \/ k \in lost \/ entry[k].broker # "kis"
           \/ session.failed \/ cancelled \/ run = "panicked"

\* Run ends with its context (supervisor.go:107), unless the watcher of the session
\* came too late to close its connection (session.go:270).
RunEnds ==
    cancelled /\ run # "idle"
    ~> run \in {"ended", "panicked"} \/ session.watcher = "late"

\* The engine never takes a lost connection for a live one: from the end of a session
\* until the next connection is made, and after the last one, what it was told last is
\* not "connected" (supervisor.go:306, ws.go:82).
ToldDown == run \in {"backoff", "dial", "attach", "ended"} => told # "connected"

=============================================================================
