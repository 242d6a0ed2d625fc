------------------------------- MODULE WsMux --------------------------------
(***************************************************************************)
(* The reconnecting websocket multiplexer of internal/core/pkg/            *)
(* wsrefact_v6: client.go, mux.go and ioworker.go.                         *)
(*                                                                         *)
(* Goroutines: the callers (Subscribe, Unsubscribe, Stop), the client's    *)
(* fatal watcher, the mux loop, one loop per io worker, one read loop per  *)
(* connection and one ticker per heartbeat generation. They share the mux  *)
(* command channel, one mailbox per worker and one event channel (sink)    *)
(* into which the workers, the read loops and the tickers all send.        *)
(*                                                                         *)
(* The mux's sends to a mailbox in startReconnect and runReplay block, as  *)
(* do all sends into sink; a blocked handler is a state of muxPc or of     *)
(* wpc. The sends that give up on a full channel do so in one step.        *)
(*                                                                         *)
(* gen numbers the connections of a worker; the code has no such counter.  *)
(* The broker is external: wire[w] is the set of keys it has subscribed on *)
(* the worker's current connection.                                        *)
(***************************************************************************)
EXTENDS Integers, Sequences, FiniteSets, SequencesExt

CONSTANTS
    NWorkers,       \* len(MuxConfig.Workers)
    Keys,           \* subscription keys
    NoKey,          \* the empty key
    QueueSize,      \* capacity of the command channel
    SinkSize,       \* capacity of the event channel (QueueSize in the code)
    MailboxSize,    \* MuxWorkerConfig.QueueSize
    Modes,          \* the configurations of the workers to consider
    MaxCommands,    \* bound: commands the callers submit
    MaxConns        \* bound: connections that may die, per worker

ASSUME WsAssumption ==
    /\ NWorkers \in Nat \ {0}
    /\ NoKey \notin Keys
    /\ QueueSize \in Nat \ {0} /\ SinkSize \in Nat \ {0}
    /\ MailboxSize \in Nat \ {0}
    /\ Modes \subseteq [ping : BOOLEAN, encodeMayFail : BOOLEAN]
    /\ MaxCommands \in Nat /\ MaxConns \in Nat

VARIABLES
    mode,         \* PingInterval > 0, and whether the WriteEncoder may fail
    stopped,      \* Client.stopped; Stop also closes commandCh
    handles,      \* the Subscription handles given to callers, by number
    commandCh,    \* Mux.commandCh
    sink,         \* Mux.ioWorkerCh
    sinkClosed,   \* close(m.ioWorkerCh) was executed
    fatal,        \* Mux.fatalCh: "none", "published" or "taken"
    muxState,     \* Mux.state
    muxPc,        \* what the mux loop is doing
    subscriptions,  \* Mux.subscriptions: key -> worker, 0 when absent
    state, desiredKeys, epoch,  \* muxWorkerRuntime, per worker
    tickers,      \* heartbeat goroutines not yet gone
    mailbox,      \* muxWorkerRuntime.CommandCh, per worker
    wpc,          \* what the worker loop is doing
    conn,         \* ioWorker.conn
    readers,      \* read loops not yet gone
    wire,         \* broker: keys subscribed on the current connection
    panicked      \* a goroutine sent on the closed event channel

clientVars == <<stopped, handles, commandCh>>
muxVars    == <<muxState, muxPc, subscriptions, state, desiredKeys, epoch>>
connVars   == <<conn, readers, wire>>
vars == <<mode, clientVars, sink, sinkClosed, fatal, muxVars, tickers, mailbox, wpc,
          connVars, panicked>>

-----------------------------------------------------------------------------
\* Messages.

Workers == 1..NWorkers

Handles == 1..MaxCommands

NoHandle == 0

UserCommand == [kind : {"subscribe", "unsubscribe"}, key : Keys, h : Handles]

\* A ping's epoch is not part of the code's command.
IoCommand ==
    [type : {"connect", "reconnect", "write", "replay", "ping"},
     act : {"none", "subscribe", "unsubscribe", "ping"},
     key : Keys \cup {NoKey}, h : Handles \cup {NoHandle}, epoch : Nat]

Command(type) ==
    [type |-> type, act |-> "none", key |-> NoKey, h |-> NoHandle, epoch |-> 0]

WriteCommand(act, key, h) ==
    [type |-> "write", act |-> act, key |-> key, h |-> h, epoch |-> 0]

ReplayCommand(key) ==
    [type |-> "replay", act |-> "subscribe", key |-> key, h |-> NoHandle,
     epoch |-> 0]

PingCommand(e) ==
    [type |-> "ping", act |-> "ping", key |-> NoKey, h |-> NoHandle,
     epoch |-> e]

\* tag is the heartbeat epoch of a ping tick; otherwise it is the connection
\* that the event is about, which the code does not record.
Event ==
    [kind : {"connected", "connectFailed", "reconnected", "disconnected",
             "encodeFailed", "notConnected", "pingTick"},
     w : Workers, tag : Nat]

event(kind, w, tag) == [kind |-> kind, w |-> w, tag |-> tag]

Results == {"ok", "exists", "notFound", "queueFull", "capacity", "stopped",
            "notConnected", "encodeError", "writeError"}

\* A connection is alive, dead (the peer is gone), closed by closeConn, or
\* nil. gen counts the worker's successful dials.
ConnState == [gen : Nat, st : {"nil", "alive", "dead", "closed"}]

Ticker == [w : Workers, epoch : Nat]

Reader == [w : Workers, gen : Nat, st : {"reading", "failed"}]

IdlePc == [st |-> "idle"]

LoopPc == [st |-> "loop"]

-----------------------------------------------------------------------------
\* The state Run reaches when it has started its workers: every mailbox
\* holds the connect command that startConnect sent.

Init ==
    /\ mode \in Modes
    /\ stopped = FALSE
    /\ handles = [h \in Handles |-> "unused"]
    /\ commandCh = << >>
    /\ sink = << >> /\ sinkClosed = FALSE
    /\ fatal = "none"
    /\ muxState = "running" /\ muxPc = LoopPc
    /\ subscriptions = [k \in Keys |-> 0]
    /\ state = [w \in Workers |-> "connecting"]
    /\ desiredKeys = [w \in Workers |-> << >>]
    /\ epoch = [w \in Workers |-> 0]
    /\ tickers = {}
    /\ mailbox = [w \in Workers |-> <<Command("connect")>>]
    /\ wpc = [w \in Workers |-> IdlePc]
    /\ conn = [w \in Workers |-> [gen |-> 0, st |-> "nil"]]
    /\ readers = {}
    /\ wire = [w \in Workers |-> {}]
    /\ panicked = FALSE

-----------------------------------------------------------------------------
\* The client. A call that is refused at once (stopped, or commandCh full)
\* changes nothing and hands out no handle.

Submit(kind, key) ==
    /\ ~stopped
    /\ Len(commandCh) < QueueSize
    /\ \E h \in Handles :
          /\ handles[h] = "unused"
          /\ \A g \in 1..(h - 1) : handles[g] # "unused"
          /\ handles' = [handles EXCEPT ![h] = "pending"]
          /\ commandCh' = Append(commandCh,
                                 [kind |-> kind, key |-> key, h |-> h])
    /\ UNCHANGED <<stopped, sink, mode, sinkClosed, fatal, muxVars, tickers,
                   mailbox, wpc, connVars, panicked>>

Stop ==
    /\ ~stopped
    /\ stopped' = TRUE
    /\ UNCHANGED <<handles, commandCh, sink, mode, sinkClosed, fatal, muxVars,
                   tickers, mailbox, wpc, connVars, panicked>>

\* watchFatal and markFatalAndStop.
watchFatal ==
    /\ fatal = "published"
    /\ fatal' = "taken"
    /\ stopped' = TRUE
    /\ UNCHANGED <<handles, commandCh, sink, mode, sinkClosed, muxVars, tickers,
                   mailbox, wpc, connVars, panicked>>

-----------------------------------------------------------------------------
\* The mux loop: commands.

resolve(h, result) ==
    handles' = IF h # NoHandle /\ handles[h] = "pending"
               THEN [handles EXCEPT ![h] = result]
               ELSE handles

\* A mutant: one command too many.
hasRoom_OffByOne(w) == Len(mailbox[w]) <= MailboxSize

hasRoom(w) == Len(mailbox[w]) < MailboxSize

\* defaultPlacementPolicy over the snapshots of pickWorker: the first of the
\* least loaded connected workers, or of the others if none is connected.
\* Load is len(DesiredKeys). 0 stands for ErrMuxCapacityReached.
pickWorker ==
    LET running   == {w \in Workers : state[w] # "stopped"}
        connected == {w \in Workers : state[w] = "connected"}
        among     == IF connected # {} THEN connected ELSE running
        load(w)   == Len(desiredKeys[w])
    IN  IF among = {} THEN 0
        ELSE CHOOSE w \in among : \A v \in among :
                \/ load(w) < load(v)
                \/ load(w) = load(v) /\ w <= v

\* Where handleSubscribe records a new key. The appended slice is assigned to
\* a local variable only (mux.go:244).
appendDesiredKey(keys, key) == keys

removeDesiredKey(keys, key) ==
    IF Contains(keys, key)
    THEN RemoveAt(keys, CHOOSE i \in DOMAIN keys :
                            /\ keys[i] = key
                            /\ \A j \in 1..(i - 1) : keys[j] # key)
    ELSE keys

\* Restores a key that removeDesiredKey took out of `old`.
insertDesiredKey(old, key) ==
    IF Contains(old, key) THEN old ELSE Append(old, key)

handleSubscribe(c) ==
    LET w == pickWorker
    IN  \/ /\ subscriptions[c.key] # 0
           /\ resolve(c.h, "exists")
           /\ UNCHANGED <<subscriptions, desiredKeys, mailbox>>
        \/ /\ subscriptions[c.key] = 0 /\ w = 0
           /\ resolve(c.h, "capacity")
           /\ UNCHANGED <<subscriptions, desiredKeys, mailbox>>
        \/ /\ subscriptions[c.key] = 0 /\ w # 0
           /\ state[w] # "connected"
           /\ subscriptions' = [subscriptions EXCEPT ![c.key] = w]
           /\ desiredKeys' = [desiredKeys EXCEPT
                                 ![w] = appendDesiredKey(@, c.key)]
           /\ resolve(c.h, "ok")
           /\ UNCHANGED mailbox
        \/ /\ subscriptions[c.key] = 0 /\ w # 0
           /\ state[w] = "connected" /\ hasRoom(w)
           /\ subscriptions' = [subscriptions EXCEPT ![c.key] = w]
           /\ desiredKeys' = [desiredKeys EXCEPT
                                 ![w] = appendDesiredKey(@, c.key)]
           /\ mailbox' = [mailbox EXCEPT
                 ![w] = Append(@, WriteCommand("subscribe", c.key, c.h))]
           /\ UNCHANGED handles
        \/ /\ subscriptions[c.key] = 0 /\ w # 0
           /\ state[w] = "connected" /\ ~hasRoom(w)
           /\ desiredKeys' = [desiredKeys EXCEPT
                 ![w] = removeDesiredKey(appendDesiredKey(@, c.key), c.key)]
           /\ resolve(c.h, "queueFull")
           /\ UNCHANGED <<subscriptions, mailbox>>

\* A mutant: an unsubscribe that only has to be recorded is never answered.
handleUnsubscribe_Unanswered(c) ==
    LET w == subscriptions[c.key]
    IN  \/ /\ w = 0
           /\ resolve(c.h, "notFound")
           /\ UNCHANGED <<subscriptions, desiredKeys, mailbox>>
        \/ /\ w # 0
           /\ subscriptions' = [subscriptions EXCEPT ![c.key] = 0]
           /\ desiredKeys' = [desiredKeys EXCEPT
                                 ![w] = removeDesiredKey(@, c.key)]
           /\ UNCHANGED <<handles, mailbox>>

handleUnsubscribe(c) ==
    LET w == subscriptions[c.key]
    IN  \/ /\ w = 0
           /\ resolve(c.h, "notFound")
           /\ UNCHANGED <<subscriptions, desiredKeys, mailbox>>
        \/ /\ w # 0 /\ state[w] # "connected"
           /\ subscriptions' = [subscriptions EXCEPT ![c.key] = 0]
           /\ desiredKeys' = [desiredKeys EXCEPT
                                 ![w] = removeDesiredKey(@, c.key)]
           /\ resolve(c.h, "ok")
           /\ UNCHANGED mailbox
        \/ /\ w # 0 /\ state[w] = "connected" /\ hasRoom(w)
           /\ subscriptions' = [subscriptions EXCEPT ![c.key] = 0]
           /\ desiredKeys' = [desiredKeys EXCEPT
                                 ![w] = removeDesiredKey(@, c.key)]
           /\ mailbox' = [mailbox EXCEPT
                 ![w] = Append(@, WriteCommand("unsubscribe", c.key, c.h))]
           /\ UNCHANGED handles
        \/ /\ w # 0 /\ state[w] = "connected" /\ ~hasRoom(w)
           /\ desiredKeys' = [desiredKeys EXCEPT
                                 ![w] = insertDesiredKey(@, c.key)]
           /\ resolve(c.h, "queueFull")
           /\ UNCHANGED <<subscriptions, mailbox>>

\* Once a fatal event has set the state to stopping, commands are refused.
handleCommand ==
    /\ muxPc = LoopPc
    /\ commandCh # << >>
    /\ LET c == Head(commandCh)
       IN  IF muxState # "running"
           THEN /\ resolve(c.h, "stopped")
                /\ UNCHANGED <<subscriptions, desiredKeys, mailbox>>
           ELSE \/ c.kind = "subscribe" /\ handleSubscribe(c)
                \/ c.kind = "unsubscribe" /\ handleUnsubscribe(c)
    /\ commandCh' = Tail(commandCh)
    /\ UNCHANGED <<stopped, sink, mode, sinkClosed, fatal, muxState, muxPc, state,
                   epoch, tickers, wpc, connVars, panicked>>

-----------------------------------------------------------------------------
\* The mux loop: worker events.

takeEvent(kinds) ==
    /\ muxPc = LoopPc
    /\ sink # << >>
    /\ Head(sink).kind \in kinds
    /\ sink' = Tail(sink)

\* The end of handleWorkerReady: the worker accepts live writes, and a
\* heartbeat of a new epoch starts.
becomeReady(w) ==
    /\ state' = [state EXCEPT ![w] = "connected"]
    /\ IF mode.ping
       THEN /\ epoch' = [epoch EXCEPT ![w] = @ + 1]
            /\ tickers' = tickers \cup {[w |-> w, epoch |-> epoch[w] + 1]}
       ELSE UNCHANGED <<epoch, tickers>>

\* handleWorkerReady: replay what is desired, then become ready.
handleWorkerReady ==
    LET w == Head(sink).w
    IN  /\ takeEvent({"connected", "reconnected"})
        /\ IF desiredKeys[w] = << >>
           THEN muxPc' = LoopPc /\ becomeReady(w)
           ELSE /\ muxPc' = [st |-> "replay", w |-> w,
                             keys |-> desiredKeys[w]]
                /\ UNCHANGED <<state, epoch, tickers>>
        /\ UNCHANGED <<clientVars, mode, sinkClosed, fatal, muxState, subscriptions,
                       desiredKeys, mailbox, wpc, connVars, panicked>>

\* runReplay, one key: a blocking send, unless the key is gone.
runReplay ==
    LET w    == muxPc.w
        key  == Head(muxPc.keys)
        rest == Tail(muxPc.keys)
    IN  /\ muxPc.st = "replay"
        /\ IF subscriptions[key] = 0
           THEN UNCHANGED mailbox
           ELSE /\ hasRoom(w)
                /\ mailbox' = [mailbox EXCEPT
                                  ![w] = Append(@, ReplayCommand(key))]
        /\ IF rest = << >>
           THEN muxPc' = LoopPc /\ becomeReady(w)
           ELSE /\ muxPc' = [muxPc EXCEPT !.keys = rest]
                /\ UNCHANGED <<state, epoch, tickers>>
        /\ UNCHANGED <<clientVars, sink, mode, sinkClosed, fatal, muxState,
                       subscriptions, desiredKeys, wpc, connVars, panicked>>

\* A mutant: a failed initial dial is left to the next event.
startReconnect_NotConnecting ==
    LET w == Head(sink).w
    IN  /\ takeEvent({"connectFailed", "disconnected"})
        /\ IF state[w] # "connected"
           THEN UNCHANGED <<state, muxPc>>
           ELSE /\ state' = [state EXCEPT ![w] = "reconnecting"]
                /\ muxPc' = [st |-> "reconnect", w |-> w]
        /\ UNCHANGED <<clientVars, mode, sinkClosed, fatal, muxState, subscriptions,
                       desiredKeys, epoch, tickers, mailbox, wpc, connVars,
                       panicked>>

\* startReconnect: the state first, so that queued ticks are dropped; then a
\* blocking send. The cancelled ticker may tick on until it notices.
startReconnect ==
    LET w == Head(sink).w
    IN  /\ takeEvent({"connectFailed", "disconnected"})
        /\ IF state[w] \in {"reconnecting", "stopped"}
           THEN UNCHANGED <<state, muxPc>>
           ELSE /\ state' = [state EXCEPT ![w] = "reconnecting"]
                /\ muxPc' = [st |-> "reconnect", w |-> w]
        /\ UNCHANGED <<clientVars, mode, sinkClosed, fatal, muxState, subscriptions,
                       desiredKeys, epoch, tickers, mailbox, wpc, connVars,
                       panicked>>

sendReconnect ==
    /\ muxPc.st = "reconnect"
    /\ hasRoom(muxPc.w)
    /\ mailbox' = [mailbox EXCEPT ![muxPc.w] = Append(@, Command("reconnect"))]
    /\ muxPc' = LoopPc
    /\ UNCHANGED <<clientVars, sink, mode, sinkClosed, fatal, muxState,
                   subscriptions, state, desiredKeys, epoch, tickers, wpc,
                   connVars, panicked>>

\* A mutant: the tick's epoch is not compared with the current one.
handlePingTick_AnyEpoch ==
    LET w == Head(sink).w
    IN  /\ takeEvent({"pingTick"})
        /\ IF state[w] = "connected" /\ hasRoom(w)
           THEN mailbox' = [mailbox EXCEPT
                               ![w] = Append(@, PingCommand(Head(sink).tag))]
           ELSE UNCHANGED mailbox
        /\ UNCHANGED <<clientVars, mode, sinkClosed, fatal, muxVars, tickers, wpc,
                       connVars, panicked>>

\* A tick is forwarded only for the current epoch of a connected worker, and
\* dropped when the mailbox is full.
handlePingTick ==
    LET w == Head(sink).w
    IN  /\ takeEvent({"pingTick"})
        /\ IF /\ state[w] = "connected"
              /\ Head(sink).tag = epoch[w]
              /\ hasRoom(w)
           THEN mailbox' = [mailbox EXCEPT
                               ![w] = Append(@, PingCommand(Head(sink).tag))]
           ELSE UNCHANGED mailbox
        /\ UNCHANGED <<clientVars, mode, sinkClosed, fatal, muxVars, tickers, wpc,
                       connVars, panicked>>

\* Only an encode failure is fatal, and only the first one.
handleWriteFailed ==
    /\ takeEvent({"encodeFailed", "notConnected"})
    /\ IF Head(sink).kind = "encodeFailed" /\ muxState = "running"
       THEN muxState' = "stopping" /\ fatal' = "published"
       ELSE UNCHANGED <<muxState, fatal>>
    /\ UNCHANGED <<clientVars, mode, sinkClosed, muxPc, subscriptions, state,
                   desiredKeys, epoch, tickers, mailbox, wpc, connVars,
                   panicked>>

-----------------------------------------------------------------------------
\* The mux loop: shutdown, once commandCh is closed and drained.

handleShutdown ==
    /\ muxPc = LoopPc
    /\ stopped /\ commandCh = << >>
    /\ state' = [w \in Workers |-> "stopped"]
    /\ muxPc' = [st |-> "draining"]
    /\ UNCHANGED <<clientVars, sink, mode, sinkClosed, fatal, muxState,
                   subscriptions, desiredKeys, epoch, tickers, mailbox, wpc,
                   connVars, panicked>>

drainEvent ==
    /\ muxPc.st = "draining"
    /\ sink # << >>
    /\ sink' = Tail(sink)
    /\ UNCHANGED <<clientVars, mode, sinkClosed, fatal, muxVars, tickers, mailbox,
                   wpc, connVars, panicked>>

\* Every worker loop and every ticker has gone: the channels are closed. The
\* read loops are not waited for.
closeSink ==
    /\ muxPc.st = "draining"
    /\ \A w \in Workers : wpc[w].st = "exited"
    /\ tickers = {}
    /\ sinkClosed' = TRUE
    /\ muxState' = "stopped" /\ muxPc' = [st |-> "stopped"]
    /\ UNCHANGED <<mode, clientVars, sink, fatal, subscriptions, state, desiredKeys,
                   epoch, tickers, mailbox, wpc, connVars, panicked>>

-----------------------------------------------------------------------------
\* The heartbeat tickers.

\* A mutant: shutdown does not cancel the heartbeat.
tickerCancelled_NotByShutdown(t) ==
    state[t.w] \notin {"connected", "stopped"} \/ epoch[t.w] # t.epoch

\* The context of a ticker is cancelled when its worker leaves connected.
tickerCancelled(t) == state[t.w] # "connected" \/ epoch[t.w] # t.epoch

runPingTicker(t) ==
    /\ Len(sink) < SinkSize
    /\ sink' = Append(sink, event("pingTick", t.w, t.epoch))
    /\ UNCHANGED <<clientVars, mode, sinkClosed, fatal, muxVars, tickers, mailbox,
                   wpc, connVars, panicked>>

tickerExit(t) ==
    /\ tickerCancelled(t)
    /\ tickers' = tickers \ {t}
    /\ UNCHANGED <<clientVars, sink, mode, sinkClosed, fatal, muxVars, mailbox, wpc,
                   connVars, panicked>>

-----------------------------------------------------------------------------
\* The io workers.

\* handleShutdown cancels every dial context and closes every mailbox.
closing == muxPc.st \in {"draining", "stopped"}

takeCommand(w, types) ==
    /\ wpc[w] = IdlePc
    /\ mailbox[w] # << >>
    /\ Head(mailbox[w]).type \in types
    /\ mailbox' = [mailbox EXCEPT ![w] = Tail(@)]

\* handleConnect and handleReconnect begin with dropConn, which cancels the
\* read loop of the old connection.
startDial(w) ==
    /\ takeCommand(w, {"connect", "reconnect"})
    /\ conn' = [conn EXCEPT ![w].st = "nil"]
    /\ wpc' = [wpc EXCEPT ![w] = [st |-> "dialing",
                                  type |-> Head(mailbox[w]).type]]
    /\ UNCHANGED <<clientVars, sink, mode, sinkClosed, fatal, muxVars, tickers,
                   readers, wire, panicked>>

\* The dial succeeds. A reconnect whose context is cancelled meanwhile is
\* abandoned instead.
dialOk(w) ==
    LET gen == conn[w].gen + 1
    IN  /\ wpc[w].st = "dialing"
        /\ wpc[w].type = "reconnect" => ~closing
        /\ conn' = [conn EXCEPT ![w] = [gen |-> gen, st |-> "alive"]]
        /\ wire' = [wire EXCEPT ![w] = {}]
        /\ wpc' = [wpc EXCEPT ![w] =
              [st |-> "publish",
               ev |-> event(IF wpc[w].type = "connect" THEN "connected"
                            ELSE "reconnected", w, gen)]]
        /\ UNCHANGED <<clientVars, sink, mode, sinkClosed, fatal, muxVars, tickers,
                       mailbox, readers, panicked>>

\* A mutant: handleConnect does not return on an error, and reports success.
dialFailed_NoReturn(w) ==
    /\ wpc[w].st = "dialing"
    /\ \/ /\ wpc[w].type = "connect"
          /\ wpc' = [wpc EXCEPT ![w] =
                [st |-> "publish", ev |-> event("connected", w, conn[w].gen)]]
       \/ /\ wpc[w].type = "reconnect" /\ closing
          /\ wpc' = [wpc EXCEPT ![w] = IdlePc]
    /\ UNCHANGED <<clientVars, sink, mode, sinkClosed, fatal, muxVars, tickers,
                   mailbox, connVars, panicked>>

\* handleConnect gives up after one failure; runReconnect tries again until
\* its context is cancelled.
dialFailed(w) ==
    /\ wpc[w].st = "dialing"
    /\ \/ /\ wpc[w].type = "connect"
          /\ wpc' = [wpc EXCEPT ![w] =
                [st |-> "publish",
                 ev |-> event("connectFailed", w, conn[w].gen)]]
       \/ /\ wpc[w].type = "reconnect" /\ closing
          /\ wpc' = [wpc EXCEPT ![w] = IdlePc]
    /\ UNCHANGED <<clientVars, sink, mode, sinkClosed, fatal, muxVars, tickers,
                   mailbox, connVars, panicked>>

\* publishEvent; after a connection notifyConnected starts its read loop.
publishEvent(w) ==
    LET ev == wpc[w].ev
    IN  /\ wpc[w].st = "publish"
        /\ Len(sink) < SinkSize
        /\ sink' = Append(sink, ev)
        /\ readers' = IF ev.kind \in {"connected", "reconnected"}
                      THEN readers \cup {[w |-> w, gen |-> ev.tag,
                                          st |-> "reading"]}
                      ELSE readers
        /\ wpc' = [wpc EXCEPT ![w] = IdlePc]
        /\ UNCHANGED <<clientVars, mode, sinkClosed, fatal, muxVars, tickers,
                       mailbox, conn, wire, panicked>>

\* The broker's view after a frame: external.
wireAfter(keys, c) ==
    CASE c.act = "subscribe"   -> keys \cup {c.key}
      [] c.act = "unsubscribe" -> keys \ {c.key}
      [] OTHER                 -> keys

encodeOutcomes == IF mode.encodeMayFail THEN {"encodeError"} ELSE {}

\* How encodeWrite and writeOne may end on the current connection. A write to
\* a peer that is gone may still seem to succeed.
writeOutcomes(w) ==
    CASE conn[w].st = "nil"    -> {"notConnected"}
      [] conn[w].st = "closed" -> encodeOutcomes \cup {"writeError"}
      [] conn[w].st = "dead"   -> encodeOutcomes \cup {"ok", "writeError"}
      [] conn[w].st = "alive"  -> encodeOutcomes \cup
             (IF conn[w].gen <= MaxConns THEN {"ok", "writeError"} ELSE {"ok"})

\* A mutant: the worker reports the disconnect too, besides the read loop.
publishWriteFailure_Transport(c, outcome) ==
    CASE outcome = "encodeError" -> "encodeFailed"
      [] outcome = "writeError" -> "disconnected"
      [] OTHER -> "none"

\* The event that a failed write publishes. A transport error is left to the
\* read loop, and a ping without a connection is dropped silently.
publishWriteFailure(c, outcome) ==
    CASE outcome = "encodeError" -> "encodeFailed"
      [] outcome = "notConnected" /\ c.type # "ping" -> "notConnected"
      [] OTHER -> "none"

\* handleWrite, handleReplayWrite and handlePing: only the first has a caller
\* to resolve. A transport error closes the connection (closeConn).
handleWrite(w, outcome) ==
    LET c       == Head(mailbox[w])
        failure == publishWriteFailure(c, outcome)
    IN  /\ takeCommand(w, {"write", "replay", "ping"})
        /\ outcome \in writeOutcomes(w)
        /\ resolve(c.h, outcome)
        /\ conn' = IF outcome = "writeError"
                   THEN [conn EXCEPT ![w].st = "closed"] ELSE conn
        /\ wire' = IF outcome = "ok" /\ conn[w].st = "alive"
                   THEN [wire EXCEPT ![w] = wireAfter(@, c)] ELSE wire
        /\ wpc' = IF failure = "none" THEN wpc
                  ELSE [wpc EXCEPT ![w] =
                          [st |-> "publish",
                           ev |-> event(failure, w, conn[w].gen)]]
        /\ UNCHANGED <<stopped, commandCh, sink, mode, sinkClosed, fatal,
                       muxVars, tickers, readers, panicked>>

\* loop ends when its mailbox is closed and empty, with dropConn.
workerExit(w) ==
    /\ closing
    /\ wpc[w] = IdlePc /\ mailbox[w] = << >>
    /\ wpc' = [wpc EXCEPT ![w] = [st |-> "exited"]]
    /\ conn' = [conn EXCEPT ![w].st = "nil"]
    /\ UNCHANGED <<clientVars, sink, mode, sinkClosed, fatal, muxVars, tickers,
                   mailbox, readers, wire, panicked>>

-----------------------------------------------------------------------------
\* The read loops, and the network.

connDies(w) ==
    /\ conn[w].st = "alive" /\ conn[w].gen <= MaxConns
    /\ conn' = [conn EXCEPT ![w].st = "dead"]
    /\ UNCHANGED <<clientVars, sink, mode, sinkClosed, fatal, muxVars, tickers,
                   mailbox, wpc, readers, wire, panicked>>

\* ReadMessage fails. The loop exits silently if its context is cancelled,
\* and goes on to publish otherwise.
readFails(r) ==
    LET cancelled == conn[r.w].gen # r.gen \/ conn[r.w].st = "nil"
    IN  /\ r.st = "reading"
        /\ cancelled \/ conn[r.w].st \in {"dead", "closed"}
        /\ readers' = IF cancelled THEN readers \ {r}
                      ELSE (readers \ {r}) \cup {[r EXCEPT !.st = "failed"]}
        /\ UNCHANGED <<clientVars, sink, mode, sinkClosed, fatal, muxVars, tickers,
                       mailbox, wpc, conn, wire, panicked>>

\* Sending on a closed channel panics.
readerPublishes(r) ==
    /\ r.st = "failed"
    /\ \/ /\ ~sinkClosed /\ Len(sink) < SinkSize
          /\ sink' = Append(sink, event("disconnected", r.w, r.gen))
          /\ UNCHANGED panicked
       \/ /\ sinkClosed
          /\ panicked' = TRUE
          /\ UNCHANGED sink
    /\ readers' = readers \ {r}
    /\ UNCHANGED <<clientVars, mode, sinkClosed, fatal, muxVars, tickers, mailbox,
                   wpc, conn, wire>>

-----------------------------------------------------------------------------

Client ==
    \/ \E kind \in {"subscribe", "unsubscribe"}, key \in Keys :
          Submit(kind, key)
    \/ Stop
    \/ watchFatal

handleIOWorkerEvent ==
    \/ handleWorkerReady
    \/ startReconnect
    \/ handlePingTick
    \/ handleWriteFailed

MuxLoop ==
    \/ handleCommand
    \/ handleIOWorkerEvent
    \/ runReplay
    \/ sendReconnect
    \/ handleShutdown
    \/ drainEvent
    \/ closeSink

WorkerLoop(w) ==
    \/ startDial(w)
    \/ dialOk(w)
    \/ dialFailed(w)
    \/ publishEvent(w)
    \/ \E outcome \in Results : handleWrite(w, outcome)
    \/ workerExit(w)

\* A panic ends the process.
Next ==
    /\ ~panicked
    /\ \/ Client
       \/ MuxLoop
       \/ \E w \in Workers : WorkerLoop(w) \/ connDies(w)
       \/ \E t \in tickers : runPingTicker(t) \/ tickerExit(t)
       \/ \E r \in readers : readFails(r) \/ readerPublishes(r)

Spec == Init /\ [][Next]_vars

\* Every goroutine that can run does so. A select picks at random among the
\* ready cases and blocked senders are served in turn, so a case that is ready
\* again and again is taken: strong fairness where a case competes with
\* others. A dial that is tried for ever succeeds some time. Nothing is
\* assumed of callers, heartbeats or the network.
Fairness ==
    /\ SF_vars(handleCommand) /\ SF_vars(handleIOWorkerEvent)
    /\ SF_vars(handleShutdown)
    /\ WF_vars(runReplay) /\ WF_vars(sendReconnect)
    /\ WF_vars(drainEvent) /\ WF_vars(closeSink) /\ WF_vars(watchFatal)
    /\ \A w \in Workers :
          /\ WF_vars(startDial(w)) /\ SF_vars(dialOk(w))
          /\ WF_vars(closing /\ dialFailed(w))
          /\ SF_vars(publishEvent(w))
          /\ WF_vars(\E outcome \in Results : handleWrite(w, outcome))
          /\ WF_vars(workerExit(w))
    /\ WF_vars(\E t \in tickers : tickerExit(t))
    /\ WF_vars(\E r \in readers : readFails(r))
    /\ SF_vars(\E r \in readers : readerPublishes(r))

FairSpec == Spec /\ Fairness

-----------------------------------------------------------------------------
\* Properties.

\* Every variable has its type; no channel exceeds its capacity.
TypeOK ==
    /\ mode \in Modes
    /\ stopped \in BOOLEAN /\ sinkClosed \in BOOLEAN /\ panicked \in BOOLEAN
    /\ handles \in [Handles -> {"unused", "pending"} \cup Results]
    /\ commandCh \in Seq(UserCommand) /\ Len(commandCh) <= QueueSize
    /\ sink \in Seq(Event) /\ Len(sink) <= SinkSize
    /\ fatal \in {"none", "published", "taken"}
    /\ muxState \in {"running", "stopping", "stopped"}
    /\ muxPc \in [st : {"loop", "draining", "stopped"}]
                 \cup [st : {"reconnect"}, w : Workers]
                 \cup [st : {"replay"}, w : Workers, keys : Seq(Keys)]
    /\ subscriptions \in [Keys -> Workers \cup {0}]
    /\ state \in [Workers -> {"connecting", "reconnecting", "connected",
                              "stopped"}]
    /\ desiredKeys \in [Workers -> Seq(Keys)]
    /\ epoch \in [Workers -> Nat]
    /\ tickers \in SUBSET Ticker
    /\ mailbox \in [Workers -> Seq(IoCommand)]
    /\ \A w \in Workers : Len(mailbox[w]) <= MailboxSize
    /\ wpc \in [Workers -> [st : {"idle", "exited"}]
                    \cup [st : {"dialing"}, type : {"connect", "reconnect"}]
                    \cup [st : {"publish"}, ev : Event]]
    /\ conn \in [Workers -> ConnState]
    /\ readers \in SUBSET Reader
    /\ wire \in [Workers -> SUBSET Keys]

\* The worker never meets a write, a replay write or a ping while it has no
\* connection: what the mux believes of a worker and the order of its mailbox
\* make ErrNotConnected (ioworker.go:175, 203) unreachable for callers, even
\* while connections die and the mux shuts down.
WriteFindsConn ==
    \A w \in Workers :
        wpc[w] = IdlePc /\ mailbox[w] # << >> =>
            (Head(mailbox[w]).type \in {"write", "replay", "ping"} => conn[w].st # "nil")

\* A ping is written to the connection whose heartbeat produced it: "pings
\* produced by a previous connection are always dropped, even if they raced
\* past the ticker context cancellation" (mux.go:293).
PingOnItsConnection ==
    \A w \in Workers :
        wpc[w] = IdlePc /\ mailbox[w] # << >> =>
            (Head(mailbox[w]).type = "ping" =>
                Head(mailbox[w]).epoch = conn[w].gen)

\* A queued disconnect is about the connection the worker has now, and that
\* one is lost: the mux never tears a healthy connection down because of a
\* late or a duplicate report of an earlier one (ioworker.go:257-260).
DisconnectIsCurrent ==
    \A i \in DOMAIN sink :
        sink[i].kind = "disconnected" /\ ~closing =>
            /\ conn[sink[i].w].gen = sink[i].tag
            /\ conn[sink[i].w].st # "alive"

\* While a lifecycle event of a worker waits for the mux, that worker neither
\* dials nor has a dial ahead of it. clearDialCancel and startReconnect, which
\* cancel whatever dial context they find (mux.go:521, 562), therefore never
\* cancel a dial that is still needed: the worker of a cancelled reconnect would
\* stay down, since handleReconnect then returns without an event.
DialUndisturbed ==
    \A i \in DOMAIN sink :
        LET w == sink[i].w
        IN  sink[i].kind \in {"connected", "connectFailed", "reconnected",
                              "disconnected"} /\ ~closing =>
                /\ wpc[w].st # "dialing"
                /\ \A j \in DOMAIN mailbox[w] :
                      mailbox[w][j].type \notin {"connect", "reconnect"}

\* The mux, blocked on a full mailbox in startReconnect or runReplay, waits for
\* that worker "briefly ... while the worker drains" (mux.go:404): the worker is
\* not itself blocked on the full event channel, which only the mux empties.
\* The one exception is a worker that is reporting an encode failure; then the
\* two wait for each other for good, if another worker, a heartbeat or a read
\* loop has filled the event channel.
NoMutualBlock ==
    muxPc.st \in {"replay", "reconnect"} =>
        \/ hasRoom(muxPc.w)
        \/ wpc[muxPc.w].st # "publish"
        \/ Len(sink) < SinkSize
        \/ wpc[muxPc.w].ev.kind = "encodeFailed"

\* Every handle given to a caller is resolved, whatever happens to the
\* connections and to the mux meanwhile.
CommandsResolved ==
    \A h \in Handles : handles[h] = "pending" ~> handles[h] # "pending"

\* A worker without a live connection gets one and accepts live writes again,
\* unless the client is stopped: no lost event, lost command or dropped dial
\* leaves it down.
Recovers ==
    \A w \in Workers :
        conn[w].st # "alive" ~>
            \/ conn[w].st = "alive" /\ state[w] = "connected"
            \/ stopped

\* Stop, or a fatal event, ends the mux: handleShutdown outlasts every worker
\* loop and every ticker, and none of them waits for it for ever.
StopCompletes == (stopped \/ fatal = "published") ~> (muxState = "stopped")

\* "handleWorkerReady restores desired subscriptions" (mux.go:320) and
\* "runReplay enqueues every desired subscription back into the worker
\* mailbox" (mux.go:393): a connected worker with nothing left to write has
\* every key that the mux placed on it subscribed on its live connection.
ReplayRestores ==
    \A w \in Workers, k \in Keys :
        /\ subscriptions[k] = w
        /\ state[w] = "connected" /\ conn[w].st = "alive"
        /\ muxPc = LoopPc /\ wpc[w] = IdlePc /\ mailbox[w] = << >>
        => k \in wire[w]

\* "A cancelled context means the connection was closed intentionally
\* (reconnect or shutdown), so the loop exits silently" (ioworker.go:258): no
\* read loop sends on the event channel once shutdown has closed it.
NoSendOnClosed == ~panicked

=============================================================================
