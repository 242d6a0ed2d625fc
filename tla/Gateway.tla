------------------------------ MODULE Gateway -------------------------------
(***************************************************************************)
(* The broker gateway (internal/core/gateway) over the LS client: brokers  *)
(* are registered under an identifier, started under a context of their    *)
(* own, replaced and removed by concurrent callers, and each domain        *)
(* subscription has a goroutine between the client's channel and the       *)
(* consumer's.                                                             *)
(*                                                                         *)
(* One identifier is modelled. The broker first created is the LS client   *)
(* of LsClient; of a later one only the gateway's entry is kept.           *)
(***************************************************************************)
EXTENDS LsClient

CONSTANTS
    Starters,           \* goroutines that call Start, once each
    MaxBrokers,         \* bound: brokers the factory creates
    DomainBuf           \* defaultDomainSubscriptionBuf

ASSUME GatewayLimits ==
    /\ 0 \notin Starters
    /\ MaxBrokers \in Nat \ {0} /\ DomainBuf \in Nat \ {0}

VARIABLES
    current,            \* g.brokers[id]: the broker registered, 0 when none
    made,               \* brokers created so far
    pending,            \* brokers created that Register has still to store
    managed,            \* per broker: status and the context that cancel ends
    published,          \* per broker: its last lifecycle message
    starting,           \* per starter: the broker it is starting
    ctxDone,            \* contexts that are cancelled; a starter names its own
    clientCtx,          \* the context the LS client runs under, 0 before Start
    domain              \* per subscriber: its goroutine and its Subscription

gwVars == <<current, made, pending, managed, published, starting, ctxDone, clientCtx,
            domain>>
allVars == <<vars, gwVars>>

Brokers == 1..MaxBrokers
LS == 1

NotStarting == [pc |-> "none"]
NoStream == [pc |-> "none", done |-> FALSE, out |-> 0, closeFn |-> FALSE]

GwInit ==
    /\ Init
    /\ current = 0 /\ made = 0 /\ pending = {}
    /\ managed = [b \in Brokers |-> [status |-> "", cancel |-> 0]]
    /\ published = [b \in Brokers |-> ""]
    /\ starting = [t \in Starters |-> NotStarting]
    /\ ctxDone = {} /\ clientCtx = 0
    /\ domain = [id \in Ids |-> NoStream]

\* publishLifecycleLocked: never blocks; what a full channel drops is dropped.
publishLifecycleLocked(b, status) == published' = [published EXCEPT ![b] = status]

(***************************************************************************)
(* Lifecycle, under g.mu.                                                  *)
(***************************************************************************)
\* Register up to the call of the factory, which runs outside the lock. (A
\* factory that fails leaves nothing behind.)
registerCreate ==
    /\ current = 0 /\ made < MaxBrokers
    /\ made' = made + 1
    /\ pending' = pending \union {made'}
    /\ UNCHANGED <<vars, current, managed, published, starting, ctxDone, clientCtx,
                   domain>>

\* The rest of Register: whoever comes second drops its broker.
registerStore(b) ==
    /\ pending' = pending \ {b}
    /\ IF current # 0
       THEN UNCHANGED <<current, managed, published>>
       ELSE /\ current' = b
            /\ managed' = [managed EXCEPT ![b] = [status |-> "created", cancel |-> 0]]
            /\ publishLifecycleLocked(b, "created")
    /\ UNCHANGED <<vars, made, starting, ctxDone, clientCtx,
                   domain>>

\* Start up to the call of broker.Start: only a running broker is left alone. A
\* starter names the context it creates.
startBegin(t) ==
    /\ starting[t] = NotStarting /\ current # 0
    /\ managed[current].status # "running"
    /\ t \notin ctxDone /\ \A b \in Brokers : managed[b].cancel # t
    /\ starting' = [starting EXCEPT ![t] = [broker |-> current, pc |-> "begin"]]
    /\ managed' = [managed EXCEPT ![current] = [status |-> "starting", cancel |-> t]]
    /\ publishLifecycleLocked(current, "starting")
    /\ UNCHANGED <<vars, current, made, pending, ctxDone, clientCtx, domain>>

\* broker.Start, outside the lock. The client's dispatch loops and its service are
\* started once, under the context of the first call.
startBroker(t) ==
    /\ starting[t].pc = "begin"
    /\ starting' = [starting EXCEPT ![t].pc = "started"]
    /\ IF starting[t].broker = LS /\ clientCtx = 0
       THEN Start(t \in ctxDone) /\ clientCtx' = t
       ELSE UNCHANGED <<vars, clientCtx>>
    /\ UNCHANGED <<current, made, pending, managed, published, ctxDone, domain>>

\* A mutant: any broker registered under the identifier will do.
startEnd_AnyRegistered(t) ==
    /\ starting[t].pc = "started"
    /\ starting' = [starting EXCEPT ![t] = NotStarting]
    /\ LET b == starting[t].broker
       IN  IF current # 0
           THEN /\ managed' = [managed EXCEPT ![b].status = "running"]
                /\ publishLifecycleLocked(b, "running")
           ELSE UNCHANGED <<managed, published>>
    /\ UNCHANGED <<vars, current, made, pending, ctxDone, clientCtx, domain>>

\* The rest of Start: only if the broker is still the one registered.
startEnd(t) ==
    /\ starting[t].pc = "started"
    /\ starting' = [starting EXCEPT ![t] = NotStarting]
    /\ LET b == starting[t].broker
       IN  IF current = b
           THEN /\ managed' = [managed EXCEPT ![b].status = "running"]
                /\ publishLifecycleLocked(b, "running")
           ELSE UNCHANGED <<managed, published>>
    /\ UNCHANGED <<vars, current, made, pending, ctxDone, clientCtx, domain>>

\* A mutant: the context of a broker that is still starting is not cancelled.
Remove_RunningOnly ==
    /\ current # 0
    /\ LET ctx == IF managed[current].status = "running" THEN managed[current].cancel ELSE 0
       IN  /\ ctxDone' = IF ctx = 0 THEN ctxDone ELSE ctxDone \union {ctx}
           /\ IF ctx # 0 /\ clientCtx = ctx /\ ~cancelled
              THEN cancel /\ UNCHANGED clVars
              ELSE UNCHANGED vars
    /\ managed' = [managed EXCEPT ![current].status = "stopping"]
    /\ publishLifecycleLocked(current, "stopped")
    /\ current' = 0
    /\ UNCHANGED <<made, pending, starting, clientCtx, domain>>

\* Remove, and the first half of Replace. Two messages are published, the second
\* one at once after the first.
Remove ==
    /\ current # 0
    /\ LET ctx == managed[current].cancel
       IN  /\ ctxDone' = IF ctx = 0 THEN ctxDone ELSE ctxDone \union {ctx}
           /\ IF ctx # 0 /\ clientCtx = ctx /\ ~cancelled
              THEN cancel /\ UNCHANGED clVars
              ELSE UNCHANGED vars
    /\ managed' = [managed EXCEPT ![current].status = "stopping"]
    /\ publishLifecycleLocked(current, "stopped")
    /\ current' = 0
    /\ UNCHANGED <<made, pending, starting, clientCtx, domain>>

(***************************************************************************)
(* Domain subscriptions.                                                   *)
(***************************************************************************)
\* SubscribeTick, SubscribeQuote, SubscribeExec: lookupBroker finds the broker
\* under the lock, and the native call follows outside of it, whatever happened to
\* the broker since: a caller that found the LS client may be late by any time.
subscribeNative(c, k) ==
    /\ managed[LS].status # ""
    /\ acquireRoute(c, k)
    /\ UNCHANGED gwVars

\* The native subscription is there: its goroutine starts, the caller gets a
\* Subscription.
NewSubscription(id) ==
    /\ \E h \in handles : h.id = id
    /\ domain[id].pc = "none"
    /\ domain' = [domain EXCEPT ![id].pc = "reading"]
    /\ UNCHANGED <<vars, current, made, pending, managed, published, starting, ctxDone, clientCtx>>

\* runLSTickStream, runLSQuoteStream, runLSExecStream: a message is taken from the
\* native channel and converted.
streamTake(id) ==
    /\ domain[id].pc = "reading"
    /\ receive(id)
    /\ domain' = [domain EXCEPT ![id].pc = "holding"]
    /\ UNCHANGED <<current, made, pending, managed, published, starting, ctxDone, clientCtx>>

\* The converted message is sent to the consumer when there is room.
streamSend(id) ==
    /\ domain[id].pc = "holding" /\ domain[id].out < DomainBuf
    /\ domain' = [domain EXCEPT ![id].pc = "reading", ![id].out = @ + 1]
    /\ UNCHANGED <<vars, current, made, pending, managed, published, starting, ctxDone, clientCtx>>

\* A mutant: a goroutine that waits for the consumer does not look at done.
streamEnd_ReadingOnly(id) ==
    /\ domain[id].pc = "reading" /\ domain[id].done
    /\ domain' = [domain EXCEPT ![id].pc = "ended"]
    /\ UNCHANGED <<vars, current, made, pending, managed, published, starting, ctxDone, clientCtx>>

\* Both selects of the goroutine watch done. (The native channel is closed only by
\* the Close that closed done.)
streamEnd(id) ==
    /\ domain[id].pc \in {"reading", "holding"} /\ domain[id].done
    /\ domain' = [domain EXCEPT ![id].pc = "ended"]
    /\ UNCHANGED <<vars, current, made, pending, managed, published, starting, ctxDone, clientCtx>>

\* The consumer reads its channel.
consume(id) ==
    /\ domain[id].out > 0
    /\ domain' = [domain EXCEPT ![id].out = @ - 1]
    /\ UNCHANGED <<vars, current, made, pending, managed, published, starting, ctxDone, clientCtx>>

\* Close: done is closed, and the native subscription is closed once, whatever
\* comes of it (closeOnce keeps the first result).
closeDone(id) ==
    /\ domain[id].pc # "none" /\ ~domain[id].done
    /\ domain' = [domain EXCEPT ![id].done = TRUE]
    /\ UNCHANGED <<vars, current, made, pending, managed, published, starting, ctxDone, clientCtx>>

closeNative(c, h) ==
    /\ domain[h.id].done /\ ~domain[h.id].closeFn
    /\ Close(c, h)
    /\ domain' = [domain EXCEPT ![h.id].closeFn = TRUE]
    /\ UNCHANGED <<current, made, pending, managed, published, starting, ctxDone, clientCtx>>

GwNext ==
    \/ LsStep /\ UNCHANGED gwVars
    \/ registerCreate
    \/ \E b \in pending : registerStore(b)
    \/ \E t \in Starters : startBegin(t) \/ startBroker(t) \/ startEnd(t)
    \/ Remove
    \/ \E c \in Callers :
          \/ \E k \in Keys : subscribeNative(c, k)
          \/ \E h \in handles : closeNative(c, h)
    \/ \E id \in Ids :
          \/ NewSubscription(id) \/ closeDone(id) \/ consume(id)
          \/ streamTake(id) \/ streamSend(id) \/ streamEnd(id)

\* Goroutines that can run do, those of the client as in LsClient. Calls under way
\* go on; no new call and no reading consumer is assumed.
GwFairness ==
    /\ \A c \in Callers : /\ WF_allVars(Caller(c) /\ UNCHANGED <<clVars, gwVars>>)
                          /\ WF_allVars(finish(c) /\ UNCHANGED gwVars)
    /\ SF_allVars(dispatch /\ UNCHANGED gwVars)
    /\ WF_allVars(shutdown /\ UNCHANGED <<clVars, gwVars>>)
    /\ \A s \in SlotIDs : WF_allVars(stopSlot(s) /\ UNCHANGED <<clVars, gwVars>>)
    /\ \A t \in Starters : WF_allVars(startBroker(t) \/ startEnd(t))
    /\ \A id \in Ids : WF_allVars(streamEnd(id))

GwSpec == GwInit /\ [][GwNext]_allVars /\ GwFairness

(***************************************************************************)
(* Properties.                                                             *)
(***************************************************************************)
\* A removed broker is reported stopped and never anything else again, although a
\* Start of it may still be under way outside the lock (gateway.go:120).
RemovedIsFinal ==
    [][\A b \in Brokers : published[b] = "stopped" => published'[b] = "stopped"]_allVars

\* "Remove stops and removes one managed broker instance" (gateway.go:129): all the
\* connections of the removed LS client end, even if it was still starting. (With
\* two Starters it does not hold: a second Start before the first has returned
\* overwrites its cancel, gateway.go:112, and the client runs on.)
RemoveStops ==
    managed[LS].status = "stopping"
        ~> \A s \in 1..(nextID - 1) : clientCtx # 0 => slot[s].stopping

\* Close of a domain subscription ends its goroutine even if the consumer has
\* stopped reading and its channel is full (ls_domain.go:144).
StreamEnds == \A id \in Ids : domain[id].done ~> domain[id].pc = "ended"

\* The fan-out never stops: what a stream of the client holds is taken out, however
\* slow the domain consumers are (client/README.md:123), until the client ends.
FanOutFlows == stream # <<>> ~> (stream = <<>> \/ cancelled)

=============================================================================
