------------------------------ MODULE WsReplay ------------------------------
(***************************************************************************)
(* The reconnecting websocket transport (internal/core/pkg/websocket) of   *)
(* the KIS broker: a supervisor goroutine dials, serves and replaces       *)
(* sessions, the writer goroutine of a session drains the log of           *)
(* subscription intents, callers append to that log and wake the writer.   *)
(*                                                                         *)
(* This module has the transport's state and steps; KisFeed says who uses  *)
(* it. Messages read are not kept: their handler changes nothing here.     *)
(***************************************************************************)
EXTENDS Integers, Sequences, FiniteSets, SequencesExt

CONSTANTS
    Keys,               \* logical subscription keys
    MaxSendQueue,       \* config.MaxSendQueue
    MaxSessions,        \* bound: sessions the supervisor may create
    MaxPending          \* bound: intents in the log

ASSUME WsLimits ==
    /\ IsFiniteSet(Keys)
    /\ MaxSendQueue \in Nat \ {0}
    /\ MaxSessions \in Nat \ {0} /\ MaxPending \in Nat \ {0}

VARIABLES
    pending,            \* store.pending: intents not written yet
    desired,            \* store.desired (its order, desiredOrder, is left open)
    run,                \* where Supervisor.Run is
    attempt,            \* Run's attempt, as far as it matters: 0 or more
    active,             \* supervisor.active: number of the session, 0 for nil
    session,            \* the session created last
    event,              \* the last lifecycle event
    cancelled,          \* the context of Run is done
    server,             \* keys the server sends on the session's connection
    odd,                \* history: keys of which server and store may disagree
    lost                \* history: keys dropped because no payload was generated

wsVars == <<pending, desired, run, attempt, active, session, event, cancelled,
            server, odd, lost>>

NoOp == [kind |-> "none"]
newIntent(kind, k) == [kind |-> kind, key |-> k]

\* n: its number. up: its connection is open. ctx: its context is alive. writer:
\* where the writer goroutine is, with the intent it handles. signal: writeSignal.
\* queued: requests in sendCh. watcher: where watchParentCancellation is. failed: a
\* write failed.
NoSession == [n |-> 0, up |-> FALSE, ctx |-> FALSE, writer |-> "none", op |-> NoOp,
              signal |-> FALSE, queued |-> 0, watcher |-> "gone", failed |-> FALSE]
NewSession(n) ==
    [NoSession EXCEPT !.n = n, !.up = TRUE, !.ctx = TRUE, !.watcher = "new"]

WsInit ==
    /\ pending = <<>> /\ desired = {}
    /\ run = "idle" /\ attempt = 0 /\ active = 0
    /\ session = NoSession
    /\ event = "none"
    /\ cancelled = FALSE
    /\ server = {} /\ odd = {} /\ lost = {}

(***************************************************************************)
(* The intent store, under store.mu.                                       *)
(***************************************************************************)
\* upsertDesiredLocked and removeDesiredLocked.
upsertDesiredLocked(keys, k) == keys \union {k}
removeDesiredLocked(keys, k) == keys \ {k}

applied(keys, op) ==
    IF op.kind = "subscribe" THEN upsertDesiredLocked(keys, op.key)
                             ELSE removeDesiredLocked(keys, op.key)

\* The loop of resetForReconnect and logicalKeys: intents applied in their order.
appliedAll(keys, ops) ==
    LET after[n \in 0..Len(ops)] ==
            IF n = 0 THEN keys ELSE applied(after[n - 1], ops[n])
    IN  after[Len(ops)]

\* isLogicallySubscribed: the latest pending intent of the key decides, else the
\* desired set.
isLogicallySubscribed(k) ==
    LET ops == {i \in DOMAIN pending : pending[i].key = k}
    IN  IF ops = {} THEN k \in desired
        ELSE \E i \in ops : /\ \A j \in ops : j <= i
                            /\ pending[i].kind = "subscribe"

\* recordSubscribe and recordUnsubscribe report whether they changed the log.
Changes(kind, k) == isLogicallySubscribed(k) <=> kind = "unsubscribe"
record(kind, k) ==
    /\ Changes(kind, k) => Len(pending) < MaxPending
    /\ pending' = IF Changes(kind, k) THEN Append(pending, newIntent(kind, k)) ELSE pending

\* A mutant: what the old connection carried is not asked for again.
resetForReconnect_PendingOnly ==
    /\ desired' = appliedAll(desired, pending)
    /\ UNCHANGED pending

\* resetForReconnect: what was pending is applied, and all that is then desired is
\* to be written again, in some order.
resetForReconnect ==
    /\ desired' = appliedAll(desired, pending)
    /\ \E order \in SetToSeqs(desired') :
          pending' = [i \in DOMAIN order |-> newIntent("subscribe", order[i])]

(***************************************************************************)
(* The writer of a session (session.runWriter, replay.drainPending).       *)
(***************************************************************************)
\* WakeWriter of session n: at most one signal is kept (none that is never read).
WakeWriter(n) ==
    session' = IF n = session.n THEN [session EXCEPT !.signal = session.writer # "exited"]
                                ELSE session

\* The select of runWriter takes the signal and drains.
takeSignal ==
    /\ session.writer = "select" /\ session.signal
    /\ session' = [session EXCEPT !.signal = FALSE, !.writer = "drain"]
    /\ UNCHANGED <<pending, desired, run, attempt, active, event, cancelled,
                   server, odd, lost>>

\* One round of drainPending up to the call of Gen: back to the select when the
\* session is over or the log is empty (peekFront).
peekFront ==
    /\ session.writer = "drain"
    /\ session' = IF ~session.ctx \/ pending = <<>>
                  THEN [session EXCEPT !.writer = "select"]
                  ELSE [session EXCEPT !.writer = "gen", !.op = Head(pending)]
    /\ UNCHANGED <<pending, desired, run, attempt, active, event, cancelled,
                   server, odd, lost>>

\* Gen returns a payload.
generated ==
    /\ session.writer = "gen"
    /\ session' = [session EXCEPT !.writer = "write"]
    /\ UNCHANGED <<pending, desired, run, attempt, active, event, cancelled,
                   server, odd, lost>>

\* Gen fails, as it does when the session ends meanwhile: discardFront forgets a
\* subscribe, confirmUnsubscribe records an unsubscribe that was never sent.
genFails ==
    /\ session.writer = "gen"
    /\ LET op == session.op
       IN  /\ pending' = Tail(pending)
           /\ IF op.kind = "subscribe"
              THEN /\ lost' = IF op.key \in desired THEN lost ELSE lost \union {op.key}
                   /\ UNCHANGED desired
              ELSE /\ desired' = removeDesiredLocked(desired, op.key)
                   /\ UNCHANGED lost
           /\ odd' = odd \union {op.key}
    /\ session' = [session EXCEPT !.writer = "drain", !.op = NoOp]
    /\ UNCHANGED <<run, attempt, active, event, cancelled, server>>

\* WritePayload succeeds and the intent is confirmed (confirmSubscribe,
\* confirmUnsubscribe). The server may answer a subscribe with an error, which
\* handleJSONMessage only logs.
written ==
    /\ session.writer = "write" /\ session.up
    /\ LET op == session.op
       IN  /\ pending' = Tail(pending)
           /\ desired' = applied(desired, op)
           /\ IF op.kind = "subscribe"
              THEN \/ server' = server \union {op.key} /\ odd' = odd \ {op.key}
                   \/ server' = server /\ odd' = odd \union {op.key}
              ELSE server' = server \ {op.key} /\ odd' = odd \ {op.key}
    /\ session' = [session EXCEPT !.writer = "drain", !.op = NoOp]
    /\ UNCHANGED <<run, attempt, active, event, cancelled, lost>>

\* WritePayload fails: the drain ends, a subscribe stays in the log.
writeFails ==
    /\ session.writer = "write"
    /\ IF session.op.kind = "subscribe"
       THEN UNCHANGED <<pending, desired>>
       ELSE /\ pending' = Tail(pending)
            /\ desired' = removeDesiredLocked(desired, session.op.key)
    /\ session' = [session EXCEPT !.writer = "select", !.op = NoOp, !.failed = TRUE]
    /\ UNCHANGED <<run, attempt, active, event, cancelled, server, odd, lost>>

\* handleSendRequest: the request is written, or fails, and is answered.
handleSendRequest ==
    /\ session.writer = "select" /\ session.queued > 0
    /\ session' = [session EXCEPT !.queued = @ - 1]
    /\ UNCHANGED <<pending, desired, run, attempt, active, event, cancelled,
                   server, odd, lost>>

\* The writer ends with its session; what is left in its channels is never read (a
\* sender's waitResponse returns with the session's context).
writerExits ==
    /\ session.writer = "select" /\ ~session.ctx
    /\ session' = [session EXCEPT !.writer = "exited", !.signal = FALSE, !.queued = 0]
    /\ UNCHANGED <<pending, desired, run, attempt, active, event, cancelled,
                   server, odd, lost>>

\* Send on the active session: refused when the queue is full. (The wait for the
\* answer, waitResponse, is bounded by a timeout and by the session.)
Send ==
    /\ active # 0 /\ session.writer # "exited" /\ session.queued < MaxSendQueue
    /\ session' = [session EXCEPT !.queued = @ + 1]
    /\ UNCHANGED <<pending, desired, run, attempt, active, event, cancelled,
                   server, odd, lost>>

(***************************************************************************)
(* The supervisor (Supervisor.Run), and its context.                       *)
(***************************************************************************)
\* Run is entered once; the first dial needs no wait.
startRun ==
    /\ run = "idle"
    /\ run' = "dial"
    /\ UNCHANGED <<pending, desired, attempt, active, session, event, cancelled,
                   server, odd, lost>>

\* waitNextAttempt, waitBackoff: the next attempt, or the end with the context.
waitNextAttempt ==
    /\ run = "backoff"
    /\ run' \in {"dial"} \union (IF cancelled THEN {"ended"} ELSE {})
    /\ UNCHANGED <<pending, desired, attempt, active, session, event, cancelled,
                   server, odd, lost>>

\* connectSession succeeds.
dialed ==
    /\ run = "dial" /\ ~cancelled /\ session.n < MaxSessions
    /\ session' = NewSession(session.n + 1)
    /\ run' = "attach"
    /\ server' = {} /\ odd' = {}
    /\ UNCHANGED <<pending, desired, attempt, active, event, cancelled, lost>>

\* connectSession fails: Run ends with its context, else the next attempt follows.
dialFails ==
    /\ run = "dial"
    /\ IF cancelled
       THEN run' = "ended" /\ UNCHANGED <<attempt, event>>
       ELSE run' = "backoff" /\ attempt' = 1 /\ event' = "reconnecting"
    /\ UNCHANGED <<pending, desired, active, session, cancelled, server, odd, lost>>

\* A dial that times out while the context is alive matches isRunContextDone by its
\* error: connectSession returns neither a session nor an error, and attaching the
\* missing session panics.
dialTimesOut ==
    /\ run = "dial" /\ ~cancelled
    /\ run' = "panicked"
    /\ UNCHANGED <<pending, desired, attempt, active, session, event, cancelled,
                   server, odd, lost>>

\* attachSession: the session is made visible to callers, then announced.
attachSession ==
    /\ run = "attach"
    /\ active' = session.n
    /\ event' = IF attempt = 0 THEN "connected" ELSE "reconnected"
    /\ run' = "ready"
    /\ UNCHANGED <<pending, desired, attempt, session, cancelled, server, odd, lost>>

\* onReady: the log is rebuilt.
onReady ==
    /\ run = "ready"
    /\ resetForReconnect
    /\ run' = "startWriter"
    /\ UNCHANGED <<attempt, active, session, event, cancelled, server, odd, lost>>

\* A mutant: the new writer waits for the first caller.
StartWriter_NoWake ==
    /\ run = "startWriter"
    /\ session' = [session EXCEPT !.writer = "select"]
    /\ run' = "serve"
    /\ UNCHANGED <<pending, desired, attempt, active, event, cancelled, server, odd,
                   lost>>

\* StartWriter, which also wakes the writer once.
StartWriter ==
    /\ run = "startWriter"
    /\ session' = [session EXCEPT !.writer = "select", !.signal = TRUE]
    /\ run' = "serve"
    /\ UNCHANGED <<pending, desired, attempt, active, event, cancelled, server, odd,
                   lost>>

\* Serve returns an error; detachSession takes the session away from callers, and
\* Stop cancels it.
readFails ==
    /\ run = "serve" /\ ~session.up
    /\ active' = 0
    /\ session' = [session EXCEPT !.ctx = FALSE]
    /\ run' = "stop"
    /\ UNCHANGED <<pending, desired, attempt, event, cancelled, server, odd, lost>>

\* A mutant: Stop does not wait for the writer.
stopped_NoWait ==
    /\ run = "stop"
    /\ event' = IF cancelled THEN "disconnected" ELSE "reconnecting"
    /\ run' = IF cancelled THEN "ended" ELSE "backoff"
    /\ attempt' = 1
    /\ UNCHANGED <<pending, desired, active, session, cancelled, server, odd, lost>>

\* Stop waits for the writer; the end is announced. Run ends with its context, else
\* the next attempt is announced and waited for.
stopped ==
    /\ run = "stop" /\ session.writer = "exited"
    /\ event' = IF cancelled THEN "disconnected" ELSE "reconnecting"
    /\ run' = IF cancelled THEN "ended" ELSE "backoff"
    /\ attempt' = 1
    /\ UNCHANGED <<pending, desired, active, session, cancelled, server, odd, lost>>

\* The owner of the context of Run cancels it, and with it the session's.
cancel ==
    /\ ~cancelled
    /\ cancelled' = TRUE
    /\ session' = [session EXCEPT !.ctx = FALSE]
    /\ UNCHANGED <<pending, desired, run, attempt, active, event, server, odd, lost>>

\* The goroutine of watchParentCancellation gets to its select.
watcherWaits ==
    /\ session.watcher = "new" /\ ~cancelled
    /\ session' = [session EXCEPT !.watcher = "waiting"]
    /\ UNCHANGED <<pending, desired, run, attempt, active, event, cancelled, server,
                   odd, lost>>

\* A mutant: only a session without a writer is closed here.
watchParentCancellation_NoWriter ==
    /\ cancelled /\ session.watcher \in {"new", "waiting"}
    /\ session' = [session EXCEPT !.up = @ /\ session.writer # "none", !.watcher = "gone"]
    /\ UNCHANGED <<pending, desired, run, attempt, active, event, cancelled, server,
                   odd, lost>>

\* watchParentCancellation closes the connection, so that Serve returns. A watcher
\* that comes to its select only when the writer is done as well may choose that
\* and leave the connection open.
watchParentCancellation ==
    /\ cancelled
    /\ \/ /\ session.watcher \in {"new", "waiting"}
          /\ session' = [session EXCEPT !.up = FALSE, !.watcher = "gone"]
       \/ /\ session.watcher = "new" /\ session.writer = "exited"
          /\ session' = [session EXCEPT !.watcher = "late"]
    /\ UNCHANGED <<pending, desired, run, attempt, active, event, cancelled, server,
                   odd, lost>>

\* Its other case: the writer is done.
watcherEnds ==
    /\ ~cancelled /\ session.watcher \in {"new", "waiting"} /\ session.writer = "exited"
    /\ session' = [session EXCEPT !.watcher = "gone"]
    /\ UNCHANGED <<pending, desired, run, attempt, active, event, cancelled, server,
                   odd, lost>>

\* The network. (Bound: not the last session.)
connectionLost ==
    /\ session.up /\ session.n < MaxSessions
    /\ session' = [session EXCEPT !.up = FALSE]
    /\ UNCHANGED <<pending, desired, run, attempt, active, event, cancelled, server,
                   odd, lost>>

\* The steps of the transport's goroutines, of the network, and of senders.
WriterStep ==
    \/ takeSignal \/ peekFront \/ generated \/ genFails \/ written \/ writeFails
    \/ handleSendRequest \/ writerExits

SupervisorStep ==
    \/ waitNextAttempt \/ dialed \/ dialFails \/ dialTimesOut
    \/ attachSession \/ onReady \/ StartWriter \/ readFails \/ stopped

WatcherStep == watcherWaits \/ watchParentCancellation \/ watcherEnds

WsStep == WriterStep \/ SupervisorStep \/ WatcherStep \/ Send \/ cancel \/ connectionLost

=============================================================================
