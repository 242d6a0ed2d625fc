----------------------------- MODULE WsV5_proof ------------------------------
(***************************************************************************)
(* The fifth websocket client: it is never without a connection, a dial or *)
(* a timer and never has two of them, every request is answered once, the  *)
(* server sends what the client keeps, and no connection that was given up *)
(* is left open -- for any keys, any capacities of its channels, any       *)
(* number of requests and connections.                                     *)
(***************************************************************************)
EXTENDS WsV5, FiniteSetTheorems, TLAPS

-----------------------------------------------------------------------------
(* Types.                                                                   *)

Outcomes == {"none", "readErr", "backoff", "stop"}
Calls == [kind : Kinds, key : Keys, r : Nat]
Events ==
    Calls \union [kind : {"dial"}, ok : BOOLEAN] \union [kind : {"tick"}]
          \union [kind : {"read"}, gen : Nat, outcome : Outcomes]
          \union [kind : {"failure"}, gen : Nat]
Items == Calls \union {[kind |-> "dispose"]}
Conns == [up : BOOLEAN, broken : BOOLEAN, reader : {"reading", "publish", "done"},
          outcome : Outcomes, worker : {"idle", "publish", "done"}, queue : Seq(Items)]

Types ==
    /\ eventCh \in Seq(Events) /\ cancelled \in BOOLEAN
    /\ pc \in {"idle", "select", "replay", "sync", "failed", "dispose", "shutdown", "ended"}
    /\ todo \subseteq Keys /\ entries \subseteq Keys
    /\ liveTransport \in 0..Len(conns) /\ disposing \in 0..Len(conns)
    /\ routingOpen \in BOOLEAN /\ dialing \in BOOLEAN /\ waitingReconnect \in BOOLEAN
    /\ connected \in BOOLEAN
    /\ conns \in Seq(Conns) /\ answers \in Seq(Nat)

-----------------------------------------------------------------------------
(* The inductive invariant.                                                 *)

\* A live connection, a dial or a timer, and one of them only.
One ==
    \/ liveTransport # 0 /\ ~dialing /\ ~waitingReconnect
    \/ liveTransport = 0 /\ dialing /\ ~waitingReconnect
    \/ liveTransport = 0 /\ ~dialing /\ waitingReconnect

\* Which of them there is, by where the loop is.
LoopInv ==
    /\ pc \in {"select", "replay", "sync", "failed"} /\ ~cancelled => One
    /\ pc = "idle" => liveTransport = 0 /\ ~dialing /\ ~waitingReconnect
    /\ pc \in {"replay", "sync", "failed"} => liveTransport # 0
    /\ pc = "dispose" => liveTransport = 0 /\ disposing # 0
    /\ pc = "dispose" /\ ~cancelled => ~dialing /\ ~waitingReconnect
    /\ pc \in {"shutdown", "ended"} => cancelled
    /\ pc \in {"idle", "select", "dispose"} => todo = {}
    /\ routingOpen => liveTransport # 0

\* Only the live connection is open.
OnlyLiveOpen == \A g \in Gens : conns[g].up => g = liveTransport

DriverInv == LoopInv /\ OnlyLiveOpen

\* A dial's result and a tick are published once, by the goroutine that is under way.
EventInv ==
    /\ \A i \in DOMAIN eventCh :
          /\ eventCh[i].kind = "dial" => dialing
          /\ eventCh[i].kind = "tick" => waitingReconnect
    /\ \A i, j \in DOMAIN eventCh :
          eventCh[i].kind \in {"dial", "tick"} /\ eventCh[i].kind = eventCh[j].kind => i = j

\* A request's place: in the queue of the loop or in that of a connection.
InCh(i, r) == i \in DOMAIN eventCh /\ eventCh[i].kind \in Kinds /\ eventCh[i].r = r
InQueue(g, i, r) ==
    /\ g \in Gens /\ i \in DOMAIN conns[g].queue
    /\ conns[g].queue[i].kind \in Kinds /\ conns[g].queue[i].r = r

\* A request has one place; a replayed intent (number 0) only while the loop waits for
\* it, at the live connection.
PlaceInv ==
    /\ \A i, r \in Nat : InCh(i, r) => r \in Requests
    /\ \A g, i, r \in Nat : InQueue(g, i, r) => r \in Requests \/ r = 0
    /\ \A i, j, r \in Nat : InCh(i, r) /\ InCh(j, r) => i = j
    /\ \A g, h, i, j, r \in Nat : InQueue(g, i, r) /\ InQueue(h, j, r) => g = h /\ i = j
    /\ \A g, i, j, r \in Nat : ~(InCh(i, r) /\ InQueue(g, j, r))
    /\ \A g, i \in Nat : InQueue(g, i, 0) => pc = "sync" /\ g = liveTransport

\* Whether the server will send k once a queue is written: the latest write decides.
About(q, k) == {i \in DOMAIN q : q[i].kind \in {"subscribe", "unsubscribe"} /\ q[i].key = k}
Final(q, keys, k) ==
    IF About(q, k) = {} THEN k \in keys
    ELSE \E i \in About(q, k) : (\A j \in About(q, k) : j <= i) /\ q[i].kind = "subscribe"

\* What is kept is what the server will send, or has still to be replayed.
ServerInv ==
    pc \in {"select", "replay", "sync"} /\ liveTransport # 0 /\ ~conns[liveTransport].broken =>
        \A k \in Keys \ odd :
            Final(conns[liveTransport].queue, server, k) \/ k \in todo <=> k \in entries

V5Inv == Types /\ DriverInv /\ EventInv /\ PlaceInv /\ AnsweredOnce /\ ServerInv

-----------------------------------------------------------------------------
(* Queues and places.                                                       *)

\* One connection changes.
LEMMA ConnEdit ==
    ASSUME conns \in Seq(Conns), NEW g \in Gens, NEW c \in Conns,
           conns' = [conns EXCEPT ![g] = c]
    PROVE  /\ conns' \in Seq(Conns) /\ Len(conns') = Len(conns)
           /\ \A h \in Gens : conns'[h] = IF h = g THEN c ELSE conns[h]
BY DEF Gens

\* A connection's fields.
LEMMA ConnType ==
    ASSUME Types, NEW g \in Gens
    PROVE  /\ conns[g] \in Conns /\ conns[g].queue \in Seq(Items)
           /\ g \in Nat /\ Len(conns) \in Nat
<1>1. conns[g] \in Conns
  BY DEF Types, Gens
<1> QED
  BY <1>1 DEF Types, Conns, Gens

\* The events published in a step.
Published(e) == eventCh' = Append(eventCh, e)
Taken == eventCh # <<>> /\ eventCh' = Tail(eventCh)

\* What Append makes of a queue.
LEMMA QueueGrows ==
    ASSUME NEW S, NEW q \in Seq(S), NEW x \in S
    PROVE  /\ Append(q, x) \in Seq(S) /\ DOMAIN q = 1..Len(q) /\ Len(q) \in Nat
           /\ DOMAIN Append(q, x) = 1..(Len(q) + 1)
           /\ Append(q, x)[Len(q) + 1] = x
           /\ \A i \in 1..Len(q) : Append(q, x)[i] = q[i]
OBVIOUS

\* What Head and Tail make of a queue.
LEMMA QueueShrinks ==
    ASSUME NEW S, NEW q \in Seq(S), q # <<>>
    PROVE  /\ Tail(q) \in Seq(S) /\ DOMAIN q = 1..Len(q) /\ Len(q) \in Nat \ {0}
           /\ DOMAIN Tail(q) = 1..(Len(q) - 1)
           /\ Head(q) = q[1] /\ Head(q) \in S
           /\ \A i \in 1..(Len(q) - 1) : Tail(q)[i] = q[i + 1]
OBVIOUS

\* The requests in eventCh when an event is published.
LEMMA ChGrows ==
    ASSUME eventCh \in Seq(Events), NEW e \in Events, Published(e)
    PROVE  /\ eventCh' \in Seq(Events)
           /\ \A i, r \in Nat :
                InCh(i, r)' <=> InCh(i, r) \/ (i = Len(eventCh) + 1 /\ e.kind \in Kinds /\ e.r = r)
<1>1. eventCh' = Append(eventCh, e)
  BY DEF Published
<1>2. /\ eventCh' \in Seq(Events) /\ DOMAIN eventCh = 1..Len(eventCh) /\ Len(eventCh) \in Nat
      /\ DOMAIN eventCh' = 1..(Len(eventCh) + 1) /\ eventCh'[Len(eventCh) + 1] = e
      /\ \A i \in 1..Len(eventCh) : eventCh'[i] = eventCh[i]
  BY <1>1, QueueGrows
<1> QED
  BY <1>2 DEF InCh

\* The requests in eventCh when an event is taken.
LEMMA ChShrinks ==
    ASSUME eventCh \in Seq(Events), Taken
    PROVE  /\ eventCh' \in Seq(Events) /\ Head(eventCh) \in Events
           /\ \A r \in Nat : InCh(1, r) <=> Head(eventCh).kind \in Kinds /\ Head(eventCh).r = r
           /\ \A i, r \in Nat : InCh(i, r)' <=> i # 0 /\ InCh(i + 1, r)
           /\ \A r \in Nat : ~InCh(0, r)
<1>1. /\ eventCh' \in Seq(Events) /\ DOMAIN eventCh = 1..Len(eventCh) /\ Len(eventCh) \in Nat \ {0}
      /\ DOMAIN eventCh' = 1..(Len(eventCh) - 1)
      /\ Head(eventCh) = eventCh[1] /\ Head(eventCh) \in Events
      /\ \A i \in 1..(Len(eventCh) - 1) : eventCh'[i] = eventCh[i + 1]
  BY QueueShrinks DEF Taken
<1> QED
  BY <1>1 DEF InCh

\* A request waits when it has a place.
LEMMA WaitsPlaces ==
    ASSUME Types, Types', NEW r
    PROVE  /\ Waits(r) <=> \/ \E i \in Nat : InCh(i, r)
                           \/ \E g, i \in Nat : InQueue(g, i, r)
           /\ Waits(r)' <=> \/ \E i \in Nat : InCh(i, r)'
                            \/ \E g, i \in Nat : InQueue(g, i, r)'
<1>1. /\ \A i \in DOMAIN eventCh : i \in Nat
      /\ \A i \in DOMAIN eventCh' : i \in Nat
  BY DEF Types
<1>2. \A g \in Gens : g \in Nat /\ \A i \in DOMAIN conns[g].queue : i \in Nat
  <2> SUFFICES ASSUME NEW g \in Gens PROVE g \in Nat /\ \A i \in DOMAIN conns[g].queue : i \in Nat
    OBVIOUS
  <2>1. conns[g] \in Conns /\ g \in Nat
    BY DEF Types, Gens
  <2>2. conns[g].queue \in Seq(Items)
    BY <2>1 DEF Conns
  <2> QED
    BY <2>1, <2>2
<1>3. \A g \in Gens' : g \in Nat /\ \A i \in DOMAIN conns'[g].queue : i \in Nat
  <2> SUFFICES ASSUME NEW g \in Gens' PROVE g \in Nat /\ \A i \in DOMAIN conns'[g].queue : i \in Nat
    OBVIOUS
  <2>1. conns'[g] \in Conns /\ g \in Nat
    BY DEF Types, Gens
  <2>2. conns'[g].queue \in Seq(Items)
    BY <2>1 DEF Conns
  <2> QED
    BY <2>1, <2>2
<1>4. Waits(r) <=> (\E i \in Nat : InCh(i, r)) \/ (\E g, i \in Nat : InQueue(g, i, r))
  BY <1>1, <1>2 DEF Waits, InCh, InQueue
<1>5. Waits(r)' <=> (\E i \in Nat : InCh(i, r)') \/ (\E g, i \in Nat : InQueue(g, i, r)')
  BY <1>1, <1>3 DEF Waits, InCh, InQueue
<1> QED
  BY <1>4, <1>5

\* Position 0 is no place.
LEMMA NoPlaceZero ==
    ASSUME Types
    PROVE  /\ \A r : ~InCh(0, r)
           /\ \A g, r : ~InQueue(g, 0, r)
<1>1. 0 \notin DOMAIN eventCh
  BY DEF Types
<1>2. ASSUME NEW g \in Gens PROVE 0 \notin DOMAIN conns[g].queue
  BY ConnType
<1> QED
  BY <1>1, <1>2 DEF InCh, InQueue

\* No request moves, but for the request gone, which leaves: places shift by a in
\* eventCh and by b[g] in a connection's queue.
LEMMA PlacesShift ==
    ASSUME PlaceInv, AnsweredOnce, Types, Types', UNCHANGED answers, NEW gone \in {-1, 0},
           NEW a \in {0, 1}, NEW b \in [Nat -> {0, 1}],
           \A i, r \in Nat : InCh(i, r)' <=> InCh(i + a, r),
           \A g, i, r \in Nat : InQueue(g, i, r)' <=> InQueue(g, i + b[g], r) /\ r # gone,
           UNCHANGED <<pc, liveTransport>> \/ pc # "sync" \/ gone = 0
    PROVE  PlaceInv' /\ AnsweredOnce'
<1>1. /\ \A g \in Nat : b[g] \in {0, 1}
      /\ \A i \in Nat : i + a \in Nat
      /\ \A g, i \in Nat : i + b[g] \in Nat
  OBVIOUS
<1>2. Requests' = Requests /\ 0 \notin Requests /\ Requests \subseteq Nat
  BY DEF Requests, Types
<1>3. PlaceInv'
  <2>1. \A i, r \in Nat : InCh(i, r)' => r \in Requests
    BY <1>1 DEF PlaceInv
  <2>2. \A g, i, r \in Nat : InQueue(g, i, r)' => r \in Requests \/ r = 0
    BY <1>1 DEF PlaceInv
  <2>3. \A i, j, r \in Nat : InCh(i, r)' /\ InCh(j, r)' => i = j
    <3> SUFFICES ASSUME NEW i \in Nat, NEW j \in Nat, NEW r \in Nat, InCh(i, r)', InCh(j, r)'
                 PROVE  i = j
      OBVIOUS
    <3>1. i + a \in Nat /\ j + a \in Nat /\ InCh(i + a, r) /\ InCh(j + a, r)
      OBVIOUS
    <3>2. i + a = j + a
      BY <3>1 DEF PlaceInv
    <3> QED
      BY <3>2
  <2>4. \A g, h, i, j, r \in Nat : InQueue(g, i, r)' /\ InQueue(h, j, r)' => g = h /\ i = j
    <3> SUFFICES ASSUME NEW g \in Nat, NEW h \in Nat, NEW i \in Nat, NEW j \in Nat, NEW r \in Nat,
                        InQueue(g, i, r)', InQueue(h, j, r)'
                 PROVE  g = h /\ i = j
      OBVIOUS
    <3>1. i + b[g] \in Nat /\ j + b[h] \in Nat /\ InQueue(g, i + b[g], r) /\ InQueue(h, j + b[h], r)
      BY <1>1
    <3>2. g = h /\ i + b[g] = j + b[h]
      BY <3>1 DEF PlaceInv
    <3>3. PICK c \in {0, 1} : c = b[g]
      BY <1>1
    <3>4. g = h /\ i + c = j + c
      BY <3>2, <3>3
    <3>5. i = j
      BY <3>4
    <3> QED
      BY <3>4, <3>5
  <2>5. \A g, i, j, r \in Nat : ~(InCh(i, r)' /\ InQueue(g, j, r)')
    <3> SUFFICES ASSUME NEW g \in Nat, NEW i \in Nat, NEW j \in Nat, NEW r \in Nat,
                        InCh(i, r)', InQueue(g, j, r)'
                 PROVE  FALSE
      OBVIOUS
    <3>1. i + a \in Nat /\ j + b[g] \in Nat /\ InCh(i + a, r) /\ InQueue(g, j + b[g], r)
      BY <1>1
    <3> QED
      BY <3>1 DEF PlaceInv
  <2>6. \A g, i \in Nat : InQueue(g, i, 0)' => pc' = "sync" /\ g = liveTransport'
    BY <1>1 DEF PlaceInv
  <2> QED
    BY <1>2, <2>1, <2>2, <2>3, <2>4, <2>5, <2>6 DEF PlaceInv
<1>4. ASSUME NEW r \in Requests PROVE Waits(r)' <=> Waits(r)
  <2>1. r \in Nat /\ r # 0 /\ r # gone
    BY <1>2 DEF Requests
  <2>2. ASSUME NEW i \in Nat, InCh(i, r) PROVE i - a \in Nat /\ InCh(i - a, r)'
    <3>1. i # 0
      BY <2>2, NoPlaceZero
    <3>2. i - a \in Nat /\ (i - a) + a = i
      BY <3>1
    <3> QED
      BY <2>1, <2>2, <3>2
  <2>3. ASSUME NEW g \in Nat, NEW i \in Nat, InQueue(g, i, r)
        PROVE  i - b[g] \in Nat /\ InQueue(g, i - b[g], r)'
    <3>1. i # 0
      BY <2>3, NoPlaceZero
    <3>2. i - b[g] \in Nat /\ (i - b[g]) + b[g] = i
      <4>1. b[g] \in {0, 1}
        BY <1>1
      <4> QED
        BY <3>1, <4>1
    <3> QED
      BY <2>1, <2>3, <3>2
  <2>4. ASSUME NEW i \in Nat, InCh(i, r)' PROVE \E j \in Nat : InCh(j, r)
    BY <2>1, <2>4
  <2>5. ASSUME NEW g \in Nat, NEW i \in Nat, InQueue(g, i, r)' PROVE \E j \in Nat : InQueue(g, j, r)
    BY <1>1, <2>1, <2>5
  <2> QED
    BY <2>2, <2>3, <2>4, <2>5, WaitsPlaces
<1> QED
  BY <1>2, <1>3, <1>4 DEF AnsweredOnce

\* A request that leaves its place is answered.
LEMMA RequestAnswered ==
    ASSUME PlaceInv, AnsweredOnce, Types, Types', NEW r0 \in Requests, resolve(r0), Waits(r0),
           NEW a \in {0, 1}, NEW b \in [Nat -> {0, 1}],
           \A i, r \in Nat : InCh(i, r)' <=> InCh(i + a, r) /\ r # r0,
           \A g, i, r \in Nat : InQueue(g, i, r)' <=> InQueue(g, i + b[g], r) /\ r # r0,
           UNCHANGED <<pc, liveTransport>>
    PROVE  PlaceInv' /\ AnsweredOnce'
<1>1. /\ \A g \in Nat : b[g] \in {0, 1}
      /\ \A i \in Nat : i + a \in Nat
      /\ \A g, i \in Nat : i + b[g] \in Nat
  OBVIOUS
<1>2. Requests' = Requests /\ 0 \notin Requests /\ Requests \subseteq Nat
      /\ \A r \in Requests : answers'[r] = IF r = r0 THEN answers[r] + 1 ELSE answers[r]
  <2>1. answers \in Seq(Nat) /\ r0 \in 1..Len(answers)
    BY DEF Requests, Types
  <2>2. Len(answers') = Len(answers) /\ \A r \in 1..Len(answers) :
          answers'[r] = IF r = r0 THEN answers[r] + 1 ELSE answers[r]
    BY <2>1 DEF resolve
  <2> QED
    BY <2>1, <2>2 DEF Requests
<1>3. PlaceInv'
  <2>1. \A i, r \in Nat : InCh(i, r)' => r \in Requests
    BY <1>1 DEF PlaceInv
  <2>2. \A g, i, r \in Nat : InQueue(g, i, r)' => r \in Requests \/ r = 0
    BY <1>1 DEF PlaceInv
  <2>3. \A i, j, r \in Nat : InCh(i, r)' /\ InCh(j, r)' => i = j
    <3> SUFFICES ASSUME NEW i \in Nat, NEW j \in Nat, NEW r \in Nat, InCh(i, r)', InCh(j, r)'
                 PROVE  i = j
      OBVIOUS
    <3>1. i + a \in Nat /\ j + a \in Nat /\ InCh(i + a, r) /\ InCh(j + a, r)
      OBVIOUS
    <3>2. i + a = j + a
      BY <3>1 DEF PlaceInv
    <3> QED
      BY <3>2
  <2>4. \A g, h, i, j, r \in Nat : InQueue(g, i, r)' /\ InQueue(h, j, r)' => g = h /\ i = j
    <3> SUFFICES ASSUME NEW g \in Nat, NEW h \in Nat, NEW i \in Nat, NEW j \in Nat, NEW r \in Nat,
                        InQueue(g, i, r)', InQueue(h, j, r)'
                 PROVE  g = h /\ i = j
      OBVIOUS
    <3>1. i + b[g] \in Nat /\ j + b[h] \in Nat /\ InQueue(g, i + b[g], r) /\ InQueue(h, j + b[h], r)
      BY <1>1
    <3>2. g = h /\ i + b[g] = j + b[h]
      BY <3>1 DEF PlaceInv
    <3>3. PICK c \in {0, 1} : c = b[g]
      BY <1>1
    <3>4. g = h /\ i + c = j + c
      BY <3>2, <3>3
    <3>5. i = j
      BY <3>4
    <3> QED
      BY <3>4, <3>5
  <2>5. \A g, i, j, r \in Nat : ~(InCh(i, r)' /\ InQueue(g, j, r)')
    <3> SUFFICES ASSUME NEW g \in Nat, NEW i \in Nat, NEW j \in Nat, NEW r \in Nat,
                        InCh(i, r)', InQueue(g, j, r)'
                 PROVE  FALSE
      OBVIOUS
    <3>1. i + a \in Nat /\ j + b[g] \in Nat /\ InCh(i + a, r) /\ InQueue(g, j + b[g], r)
      BY <1>1
    <3> QED
      BY <3>1 DEF PlaceInv
  <2>6. \A g, i \in Nat : InQueue(g, i, 0)' => pc' = "sync" /\ g = liveTransport'
    BY <1>1 DEF PlaceInv
  <2> QED
    BY <1>2, <2>1, <2>2, <2>3, <2>4, <2>5, <2>6 DEF PlaceInv
<1>4. ASSUME NEW r \in Requests, r # r0 PROVE Waits(r)' <=> Waits(r)
  <2>1. r \in Nat /\ r # r0
    BY <1>2, <1>4
  <2>2. ASSUME NEW i \in Nat, InCh(i, r) PROVE i - a \in Nat /\ InCh(i - a, r)'
    <3>1. i # 0
      BY <2>2, NoPlaceZero
    <3>2. i - a \in Nat /\ (i - a) + a = i
      BY <3>1
    <3> QED
      BY <2>1, <2>2, <3>2
  <2>3. ASSUME NEW g \in Nat, NEW i \in Nat, InQueue(g, i, r)
        PROVE  i - b[g] \in Nat /\ InQueue(g, i - b[g], r)'
    <3>1. i # 0
      BY <2>3, NoPlaceZero
    <3>2. i - b[g] \in Nat /\ (i - b[g]) + b[g] = i
      <4>1. b[g] \in {0, 1}
        BY <1>1
      <4> QED
        BY <3>1, <4>1
    <3> QED
      BY <2>1, <2>3, <3>2
  <2>4. ASSUME NEW i \in Nat, InCh(i, r)' PROVE \E j \in Nat : InCh(j, r)
    BY <2>1, <2>4
  <2>5. ASSUME NEW g \in Nat, NEW i \in Nat, InQueue(g, i, r)' PROVE \E j \in Nat : InQueue(g, j, r)
    BY <1>1, <2>1, <2>5
  <2> QED
    BY <2>2, <2>3, <2>4, <2>5, WaitsPlaces
<1>5. ~Waits(r0)'
  <2>1. r0 \in Nat
    BY <1>2
  <2> QED
    BY <2>1, WaitsPlaces
<1>6. answers[r0] = 0
  BY DEF AnsweredOnce
<1> QED
  BY <1>2, <1>3, <1>4, <1>5, <1>6 DEF AnsweredOnce

\* Request r0 goes from the front of eventCh to position n of the queue of g0.
MovesTo(r0, g0, n) ==
    /\ InCh(1, r0)
    /\ \A i, r \in Nat : InCh(i, r)' <=> i # 0 /\ InCh(i + 1, r)
    /\ \A g, i, r \in Nat :
          InQueue(g, i, r)' <=> InQueue(g, i, r) \/ (g = g0 /\ i = n /\ r = r0)

\* A request that goes from eventCh to a queue has still one place.
LEMMA RequestMoves ==
    ASSUME PlaceInv, AnsweredOnce, Types, Types', UNCHANGED answers, NEW r0 \in Requests,
           NEW g0 \in Nat, NEW n \in Nat, MovesTo(r0, g0, n), UNCHANGED <<pc, liveTransport>>
    PROVE  PlaceInv' /\ AnsweredOnce'
<1> USE DEF MovesTo
<1>1. /\ Requests' = Requests /\ 0 \notin Requests /\ Requests \subseteq Nat
      /\ \A i \in Nat : i + 1 \in Nat
  <2>1. answers \in Seq(Nat) /\ answers' = answers
    BY DEF Types
  <2>2. Len(answers) \in Nat /\ Requests = 1..Len(answers) /\ Requests' = Requests
    BY <2>1 DEF Requests
  <2> QED
    BY <2>2
<1>2. \A i \in Nat : InCh(i, r0) => i = 1
  BY <1>1 DEF PlaceInv
<1>3. \A i \in Nat : ~InCh(i, r0)'
  <2> SUFFICES ASSUME NEW i \in Nat, i # 0, InCh(i + 1, r0) PROVE FALSE
    BY <1>1
  <2>1. i + 1 = 1
    BY <1>1, <1>2
  <2> QED
    BY <2>1
<1>4. \A g, i \in Nat : ~InQueue(g, i, r0)
  BY <1>1 DEF PlaceInv
<1>5. PlaceInv'
  <2>1. \A i, r \in Nat : InCh(i, r)' => r \in Requests
    BY <1>1 DEF PlaceInv
  <2>2. \A g, i, r \in Nat : InQueue(g, i, r)' => r \in Requests \/ r = 0
    BY DEF PlaceInv
  <2>3. \A i, j, r \in Nat : InCh(i, r)' /\ InCh(j, r)' => i = j
    <3> SUFFICES ASSUME NEW i \in Nat, NEW j \in Nat, NEW r \in Nat, InCh(i + 1, r), InCh(j + 1, r)
                 PROVE  i = j
      OBVIOUS
    <3>1. i + 1 = j + 1
      BY <1>1 DEF PlaceInv
    <3> QED
      BY <3>1
  <2>4. \A g, h, i, j, r \in Nat : InQueue(g, i, r)' /\ InQueue(h, j, r)' => g = h /\ i = j
    BY <1>4 DEF PlaceInv
  <2>5. \A g, i, j, r \in Nat : ~(InCh(i, r)' /\ InQueue(g, j, r)')
    BY <1>1, <1>3 DEF PlaceInv
  <2>6. \A g, i \in Nat : InQueue(g, i, 0)' => pc' = "sync" /\ g = liveTransport'
    BY <1>1 DEF PlaceInv
  <2> QED
    BY <1>1, <2>1, <2>2, <2>3, <2>4, <2>5, <2>6 DEF PlaceInv
<1>6. ASSUME NEW r \in Requests PROVE Waits(r)' <=> Waits(r)
  <2>1. r \in Nat
    BY <1>1
  <2>2. CASE r = r0
    <3>1. InQueue(g0, n, r0)'
      BY <2>1, <2>2
    <3> QED
      BY <2>2, <3>1, WaitsPlaces, 1 \in Nat
  <2>3. CASE r # r0
    <3>1. ASSUME NEW i \in Nat, InCh(i, r) PROVE i - 1 \in Nat /\ InCh(i - 1, r)'
      <4>1. i # 0 /\ i # 1
        <5>1. ~InCh(1, r)
          BY <2>3 DEF InCh
        <5> QED
          BY <3>1, <5>1, NoPlaceZero
      <4>2. i - 1 \in Nat /\ (i - 1) + 1 = i /\ i - 1 # 0
        BY <4>1
      <4> QED
        BY <2>1, <3>1, <4>2
    <3>2. \A i \in Nat : InCh(i, r)' => InCh(i + 1, r)
      BY <2>1
    <3>3. \A g, i \in Nat : InQueue(g, i, r)' <=> InQueue(g, i, r)
      BY <2>1, <2>3
    <3> QED
      BY <1>1, <3>1, <3>2, <3>3, WaitsPlaces
  <2> QED
    BY <2>2, <2>3
<1> QED
  BY <1>1, <1>5, <1>6 DEF AnsweredOnce

\* A caller's request is published under a new number.
LEMMA RequestPublished ==
    ASSUME PlaceInv, AnsweredOnce, Types, Types', answers' = Append(answers, 0), NEW n \in Nat,
           \A i, r \in Nat : InCh(i, r)' <=> InCh(i, r) \/ (i = n /\ r = Len(answers) + 1),
           \A g, i, r \in Nat : InQueue(g, i, r)' <=> InQueue(g, i, r),
           UNCHANGED <<pc, liveTransport>>
    PROVE  PlaceInv' /\ AnsweredOnce'
<1>0. PICK r0 : r0 = Len(answers) + 1
  OBVIOUS
<1>1. /\ Requests' = Requests \union {r0} /\ Requests \subseteq Nat /\ 0 \notin Requests
      /\ r0 \notin Requests /\ r0 \in Nat /\ r0 # 0
      /\ answers'[r0] = 0 /\ \A r \in Requests : answers'[r] = answers[r]
  BY <1>0 DEF Requests, Types
<1>2. /\ \A i \in Nat : ~InCh(i, r0)
      /\ \A g, i \in Nat : ~InQueue(g, i, r0)
  BY <1>1 DEF PlaceInv
<1>3. \A i, r \in Nat : InCh(i, r)' <=> InCh(i, r) \/ (i = n /\ r = r0)
  BY <1>0
<1>4. PlaceInv'
  <2>1. \A i, r \in Nat : InCh(i, r)' => r \in Requests'
    BY <1>1, <1>3 DEF PlaceInv
  <2>2. \A g, i, r \in Nat : InQueue(g, i, r)' => r \in Requests' \/ r = 0
    BY <1>1 DEF PlaceInv
  <2>3. \A i, j, r \in Nat : InCh(i, r)' /\ InCh(j, r)' => i = j
    BY <1>2, <1>3 DEF PlaceInv
  <2>4. \A g, h, i, j, r \in Nat : InQueue(g, i, r)' /\ InQueue(h, j, r)' => g = h /\ i = j
    BY DEF PlaceInv
  <2>5. \A g, i, j, r \in Nat : ~(InCh(i, r)' /\ InQueue(g, j, r)')
    BY <1>2, <1>3 DEF PlaceInv
  <2>6. \A g, i \in Nat : InQueue(g, i, 0)' => pc' = "sync" /\ g = liveTransport'
    BY DEF PlaceInv
  <2> QED
    BY <2>1, <2>2, <2>3, <2>4, <2>5, <2>6 DEF PlaceInv
<1>5. ASSUME NEW r \in Requests PROVE Waits(r)' <=> Waits(r)
  <2>1. r \in Nat /\ r # r0
    BY <1>1
  <2>2. \A i \in Nat : InCh(i, r)' <=> InCh(i, r)
    BY <1>3, <2>1
  <2>3. \A g, i \in Nat : InQueue(g, i, r)' <=> InQueue(g, i, r)
    BY <2>1
  <2>4. /\ Waits(r) <=> (\E i \in Nat : InCh(i, r)) \/ (\E g, i \in Nat : InQueue(g, i, r))
        /\ Waits(r)' <=> (\E i \in Nat : InCh(i, r)') \/ (\E g, i \in Nat : InQueue(g, i, r)')
    BY WaitsPlaces
  <2> QED
    BY <2>2, <2>3, <2>4
<1>6. Waits(r0)'
  <2>1. r0 \in Nat
    BY <1>1
  <2>2. InCh(n, r0)'
    BY <1>3, <2>1
  <2> QED
    BY <2>2, <2>1, WaitsPlaces
<1> QED
  BY <1>1, <1>4, <1>5, <1>6 DEF AnsweredOnce

\* The loop hands an intent to the worker of the live connection and waits for it.
LEMMA IntentReplayed ==
    ASSUME PlaceInv, AnsweredOnce, Types, Types', UNCHANGED answers, NEW n \in Nat, pc # "sync",
           \A i, r \in Nat : InCh(i, r)' <=> InCh(i, r),
           \A g, i, r \in Nat :
              InQueue(g, i, r)' <=> InQueue(g, i, r) \/ (g = liveTransport /\ i = n /\ r = 0),
           pc' = "sync", UNCHANGED liveTransport
    PROVE  PlaceInv' /\ AnsweredOnce'
<1>1. Requests' = Requests /\ 0 \notin Requests /\ Requests \subseteq Nat
  BY DEF Requests, Types
<1>2. \A g, i \in Nat : ~InQueue(g, i, 0)
  BY DEF PlaceInv
<1>3. PlaceInv'
  <2>1. \A i, r \in Nat : InCh(i, r)' => r \in Requests
    BY DEF PlaceInv
  <2>2. \A g, i, r \in Nat : InQueue(g, i, r)' => r \in Requests \/ r = 0
    BY DEF PlaceInv
  <2>3. \A i, j, r \in Nat : InCh(i, r)' /\ InCh(j, r)' => i = j
    BY DEF PlaceInv
  <2>4. \A g, h, i, j, r \in Nat : InQueue(g, i, r)' /\ InQueue(h, j, r)' => g = h /\ i = j
    BY <1>2 DEF PlaceInv
  <2>5. \A g, i, j, r \in Nat : ~(InCh(i, r)' /\ InQueue(g, j, r)')
    BY <1>1 DEF PlaceInv
  <2>6. \A g, i \in Nat : InQueue(g, i, 0)' => pc' = "sync" /\ g = liveTransport'
    BY <1>2
  <2> QED
    BY <1>1, <2>1, <2>2, <2>3, <2>4, <2>5, <2>6 DEF PlaceInv
<1>4. ASSUME NEW r \in Requests PROVE Waits(r)' <=> Waits(r)
  BY <1>1, WaitsPlaces
<1> QED
  BY <1>1, <1>3, <1>4 DEF AnsweredOnce

-----------------------------------------------------------------------------
(* What the server will send.                                               *)

\* Whether a write is about a key.
Regards(x, k) == x.kind \in {"subscribe", "unsubscribe"} /\ x.key = k

\* A write appended to a queue decides its key, and no other.
LEMMA FinalAppend ==
    ASSUME NEW q \in Seq(Items), NEW x \in Items, NEW k, NEW keys
    PROVE  Final(Append(q, x), keys, k) <=>
             IF Regards(x, k) THEN x.kind = "subscribe" ELSE Final(q, keys, k)
<1>1. PICK p : p = Append(q, x)
  OBVIOUS
<1>2. PICK N : N = Len(q)
  OBVIOUS
<1>3. /\ N \in Nat /\ DOMAIN q = 1..N /\ DOMAIN p = 1..(N + 1) /\ p[N + 1] = x
      /\ \A i \in 1..N : p[i] = q[i]
  BY <1>1, <1>2, QueueGrows
<1>4. CASE Regards(x, k)
  <2>1. N + 1 \in About(p, k) /\ \A i \in About(p, k) : i <= N + 1 /\ i \in Nat
    BY <1>3, <1>4 DEF About, Regards
  <2>2. \A i \in About(p, k) : (\A j \in About(p, k) : j <= i) => i = N + 1
    BY <1>3, <2>1
  <2> QED
    BY <1>1, <1>3, <1>4, <2>1, <2>2 DEF Final
<1>5. CASE ~Regards(x, k)
  <2>1. About(p, k) = About(q, k)
    BY <1>3, <1>5 DEF About, Regards
  <2>2. \A i \in About(q, k) : p[i] = q[i]
    BY <1>3 DEF About
  <2> QED
    BY <1>1, <1>5, <2>1, <2>2 DEF Final
<1> QED
  BY <1>4, <1>5

\* A write that leaves the queue and reaches the server changes nothing for any key.
LEMMA FinalTail ==
    ASSUME NEW q \in Seq(Items), q # <<>>, NEW k, NEW keys, NEW next,
           Regards(Head(q), k) => (k \in next <=> Head(q).kind = "subscribe"),
           ~Regards(Head(q), k) => (k \in next <=> k \in keys)
    PROVE  Final(Tail(q), next, k) <=> Final(q, keys, k)
<1>1. PICK p : p = Tail(q)
  OBVIOUS
<1>2. PICK N : N = Len(q)
  OBVIOUS
<1>3. PICK all : all = About(q, k)
  OBVIOUS
<1>4. PICK rest : rest = About(p, k)
  OBVIOUS
<1>5. /\ N \in Nat /\ N >= 1 /\ DOMAIN q = 1..N /\ DOMAIN p = 1..(N - 1) /\ Head(q) = q[1]
      /\ \A i \in 1..(N - 1) : p[i] = q[i + 1]
  BY <1>1, <1>2, QueueShrinks
<1>6. /\ all = {i \in 1..N : Regards(q[i], k)}
      /\ rest = {i \in 1..(N - 1) : Regards(q[i + 1], k)}
  BY <1>3, <1>4, <1>5 DEF About, Regards
<1>7. /\ Final(q, keys, k) <=>
           IF all = {} THEN k \in keys
           ELSE \E i \in all : (\A j \in all : j <= i) /\ q[i].kind = "subscribe"
      /\ Final(p, next, k) <=>
           IF rest = {} THEN k \in next
           ELSE \E i \in rest : (\A j \in rest : j <= i) /\ q[i + 1].kind = "subscribe"
  <2>1. \A i \in rest : p[i] = q[i + 1]
    BY <1>5, <1>6
  <2> QED
    BY <1>3, <1>4, <2>1 DEF Final
<1>8. /\ \A i \in rest : i + 1 \in all
      /\ \A i \in all : i = 1 \/ i - 1 \in rest
      /\ all \subseteq Nat /\ rest \subseteq Nat /\ 0 \notin rest
      /\ 1 \in all <=> Regards(Head(q), k)
  BY <1>5, <1>6
<1>9. CASE rest = {}
  <2>1. CASE Regards(Head(q), k)
    <3>1. all = {1}
      BY <1>8, <1>9, <2>1
    <3> QED
      BY <1>1, <1>5, <1>7, <1>9, <2>1, <3>1
  <2>2. CASE ~Regards(Head(q), k)
    <3>1. all = {}
      BY <1>8, <1>9, <2>2
    <3> QED
      BY <1>1, <1>7, <1>9, <2>2, <3>1
  <2> QED
    BY <2>1, <2>2
<1>10. CASE rest # {}
  <2>1. all # {} /\ \A i \in all : (\A j \in all : j <= i) => i # 1
    <3>1. PICK i \in rest : TRUE
      BY <1>10
    <3>2. i + 1 \in all /\ i \in Nat /\ i >= 1
      BY <1>8
    <3> QED
      BY <3>2
  <2>2. ASSUME NEW i \in rest
        PROVE  (\A j \in rest : j <= i) <=> (\A j \in all : j <= i + 1)
    BY <1>8
  <2>3. ASSUME NEW i \in all, i # 1
        PROVE  i - 1 \in rest /\ (i - 1) + 1 = i
    BY <1>8, <2>3
  <2> QED
    BY <1>1, <1>7, <1>8, <1>10, <2>1, <2>2, <2>3
<1> QED
  BY <1>9, <1>10

-----------------------------------------------------------------------------
(* The steps of a connection.                                               *)

\* In a step only connection g changes, and its queue becomes q; it is not opened
\* again, and never stops to be broken.
Changed(g, q) ==
    /\ conns' \in Seq(Conns) /\ Len(conns') = Len(conns)
    /\ \A h \in Gens : h # g => conns'[h] = conns[h]
    /\ conns'[g].queue = q
    /\ conns'[g].up => conns[g].up
    /\ conns[g].broken => conns'[g].broken

\* An edit of one connection changes that one.
LEMMA EditChanges ==
    ASSUME Types, NEW g \in Gens, NEW c \in Conns, conns' = [conns EXCEPT ![g] = c],
           c.up => conns[g].up, conns[g].broken => c.broken
    PROVE  Changed(g, c.queue) /\ conns'[g] = c
<1>1. conns \in Seq(Conns)
  BY DEF Types
<1>2. /\ conns' \in Seq(Conns) /\ Len(conns') = Len(conns)
      /\ \A h \in Gens : conns'[h] = IF h = g THEN c ELSE conns[h]
  BY <1>1, ConnEdit
<1> QED
  BY <1>2 DEF Changed

\* The read loop, the ping and the network leave the queue alone.
LEMMA QueueKept ==
    ASSUME Types, NEW g \in Gens,
           \/ readFails(g) \/ handlerFails(g) \/ publishReadEvent(g) \/ pingFails(g)
           \/ workerReports(g) \/ connectionLost(g)
    PROVE  Changed(g, conns[g].queue)
<1>1. conns[g] \in Conns /\ conns \in Seq(Conns)
  BY ConnType DEF Types
<1>3. ASSUME NEW err \in Outcomes, NEW rd \in {"publish", "done"},
             conns' = [conns EXCEPT ![g].reader = rd, ![g].outcome = err]
      PROVE  Changed(g, conns[g].queue)
  <2>1. PICK c : c = [conns[g] EXCEPT !.reader = rd, !.outcome = err]
    OBVIOUS
  <2>2. c \in Conns /\ c.up = conns[g].up /\ c.broken = conns[g].broken
        /\ c.queue = conns[g].queue
    BY <1>1, <2>1 DEF Conns
  <2>3. conns' = [conns EXCEPT ![g] = c]
    BY <1>1, <1>3, <2>1 DEF Gens
  <2> QED
    BY <2>2, <2>3, EditChanges
<1>4. CASE readFails(g)
  BY <1>3, <1>4 DEF readFails, Outcomes
<1>5. CASE handlerFails(g)
  BY <1>3, <1>5 DEF handlerFails, Outcomes
<1>6. CASE publishReadEvent(g)
  <2>1. conns' = [conns EXCEPT ![g].reader = "done", ![g].outcome = "none"]
    BY <1>1, <1>6 DEF publishReadEvent, Gens
  <2> QED
    BY <1>3, <2>1 DEF Outcomes
<1>7. CASE pingFails(g)
  <2>1. PICK c : c = [conns[g] EXCEPT !.broken = TRUE, !.worker = "publish"]
    OBVIOUS
  <2>2. c \in Conns /\ c.up = conns[g].up /\ c.broken /\ c.queue = conns[g].queue
    BY <1>1, <2>1 DEF Conns
  <2>3. conns' = [conns EXCEPT ![g] = c]
    BY <1>1, <1>7, <2>1 DEF Gens, pingFails
  <2> QED
    BY <2>2, <2>3, EditChanges
<1>8. CASE workerReports(g)
  <2>1. PICK c : c = [conns[g] EXCEPT !.worker = "idle"]
    OBVIOUS
  <2>2. c \in Conns /\ c.up = conns[g].up /\ c.broken = conns[g].broken
        /\ c.queue = conns[g].queue
    BY <1>1, <2>1 DEF Conns
  <2>3. conns' = [conns EXCEPT ![g] = c]
    BY <1>1, <1>8, <2>1 DEF Gens, workerReports
  <2> QED
    BY <2>2, <2>3, EditChanges
<1>9. CASE connectionLost(g)
  <2>1. PICK c : c = [conns[g] EXCEPT !.up = FALSE]
    OBVIOUS
  <2>2. c \in Conns /\ c.up = FALSE /\ c.broken = conns[g].broken
        /\ c.queue = conns[g].queue
    BY <1>1, <2>1 DEF Conns
  <2>3. conns' = [conns EXCEPT ![g] = c]
    BY <1>1, <1>9, <2>1 DEF Gens, connectionLost
  <2> QED
    BY <2>2, <2>3, EditChanges
<1> QED
  BY <1>4, <1>5, <1>6, <1>7, <1>8, <1>9

\* session.Stop closes the connection.
LEMMA ConnClosed ==
    ASSUME Types, NEW g \in Gens, conns' = [conns EXCEPT ![g].up = FALSE]
    PROVE  Changed(g, conns[g].queue) /\ ~conns'[g].up
<1>1. conns[g] \in Conns /\ conns \in Seq(Conns)
  BY ConnType DEF Types
<1>2. PICK c : c = [conns[g] EXCEPT !.up = FALSE]
  OBVIOUS
<1>3. c \in Conns /\ c.up = FALSE /\ c.broken = conns[g].broken /\ c.queue = conns[g].queue
  BY <1>1, <1>2 DEF Conns
<1>4. conns' = [conns EXCEPT ![g] = c]
  BY <1>1, <1>2 DEF Gens
<1> QED
  BY <1>3, <1>4, EditChanges

\* An item is put on the queue.
LEMMA ItemQueued ==
    ASSUME Types, NEW g \in Gens, NEW x \in Items, TryEnqueue(g, x)
    PROVE  Changed(g, Append(conns[g].queue, x)) /\ conns'[g].broken = conns[g].broken
<1>1. conns[g] \in Conns /\ conns \in Seq(Conns) /\ conns[g].queue \in Seq(Items)
  BY ConnType DEF Types
<1>2. PICK c : c = [conns[g] EXCEPT !.queue = Append(conns[g].queue, x)]
  OBVIOUS
<1>3. c \in Conns /\ c.up = conns[g].up /\ c.broken = conns[g].broken
      /\ c.queue = Append(conns[g].queue, x)
  <2>1. Append(conns[g].queue, x) \in Seq(Items)
    BY <1>1, QueueGrows
  <2> QED
    BY <1>1, <1>2, <2>1 DEF Conns
<1>4. conns' = [conns EXCEPT ![g] = c]
  BY <1>1, <1>2 DEF Gens, TryEnqueue
<1>5. Changed(g, c.queue) /\ conns'[g] = c
  BY <1>3, <1>4, EditChanges
<1> QED
  BY <1>3, <1>5

\* The worker takes an item.
LEMMA ItemTaken ==
    ASSUME Types, NEW g \in Gens, workerWrites(g) \/ workerEnds(g)
    PROVE  /\ Changed(g, Tail(conns[g].queue)) /\ conns[g].queue # <<>>
           /\ Head(conns[g].queue) \in Items
<1>1. conns[g] \in Conns /\ conns \in Seq(Conns) /\ conns[g].queue \in Seq(Items)
  BY ConnType DEF Types
<1>2. conns[g].queue # <<>>
  BY DEF workerWrites, workerEnds
<1>3. Tail(conns[g].queue) \in Seq(Items) /\ Head(conns[g].queue) \in Items
  BY <1>1, <1>2, QueueShrinks
<1>4. CASE workerEnds(g)
  <2>1. PICK c : c = [conns[g] EXCEPT !.worker = "done", !.queue = Tail(conns[g].queue)]
    OBVIOUS
  <2>2. c \in Conns /\ c.up = conns[g].up /\ c.broken = conns[g].broken
        /\ c.queue = Tail(conns[g].queue)
    BY <1>1, <1>3, <2>1 DEF Conns
  <2>3. conns' = [conns EXCEPT ![g] = c]
    BY <1>1, <1>4, <2>1 DEF Gens, workerEnds
  <2>4. Changed(g, c.queue)
    BY <2>2, <2>3, EditChanges
  <2> QED
    BY <1>2, <1>3, <2>2, <2>4
<1>5. CASE workerWrites(g)
  <2>1. PICK ok \in BOOLEAN :
          conns' = [conns EXCEPT ![g].queue = Tail(@), ![g].broken = @ \/ ~ok,
                                 ![g].worker = IF ok THEN "idle" ELSE "publish"]
    BY <1>5 DEF workerWrites
  <2>2. PICK b : b = (conns[g].broken \/ ~ok)
    OBVIOUS
  <2>3. PICK w : w = IF ok THEN "idle" ELSE "publish"
    OBVIOUS
  <2>4. b \in BOOLEAN /\ (conns[g].broken => b) /\ w \in {"idle", "publish"}
    BY <1>1, <2>2, <2>3 DEF Conns
  <2>5. PICK c : c = [conns[g] EXCEPT !.queue = Tail(conns[g].queue), !.broken = b, !.worker = w]
    OBVIOUS
  <2>6. c \in Conns /\ c.up = conns[g].up /\ c.broken = b /\ c.queue = Tail(conns[g].queue)
    BY <1>1, <1>3, <2>4, <2>5 DEF Conns
  <2>7. conns' = [conns EXCEPT ![g] = c]
    BY <1>1, <2>1, <2>2, <2>3, <2>5 DEF Gens
  <2>8. Changed(g, c.queue)
    BY <2>4, <2>6, <2>7, EditChanges
  <2> QED
    BY <1>2, <1>3, <2>6, <2>8
<1> QED
  BY <1>4, <1>5

-----------------------------------------------------------------------------
(* Types.                                                                   *)

\* The call the loop takes, and its request.
LEMMA CallTaken ==
    ASSUME Types, PlaceInv, NEW kind \in Kinds, takes(kind)
    PROVE  /\ Taken /\ pc = "select"
           /\ Head(eventCh) \in Calls /\ Head(eventCh).kind = kind
           /\ Head(eventCh).r \in Requests /\ Head(eventCh).r \in Nat
           /\ InCh(1, Head(eventCh).r)
<1>1. Taken /\ Head(eventCh).kind = kind /\ pc = "select"
  BY DEF takes, Taken
<1>2. Head(eventCh) \in Events
  BY <1>1, ChShrinks DEF Types
<1>3. Head(eventCh) \in Calls
  BY <1>1, <1>2 DEF Events, Kinds
<1>4. Head(eventCh).r \in Nat
  BY <1>3 DEF Calls
<1>5. InCh(1, Head(eventCh).r)
  BY <1>1, <1>4, ChShrinks DEF Types
<1>6. Head(eventCh).r \in Requests
  BY <1>4, <1>5, 1 \in Nat DEF PlaceInv
<1> QED
  BY <1>1, <1>3, <1>4, <1>5, <1>6

\* The item the worker takes from its queue.
LEMMA ItemInQueue ==
    ASSUME Types, PlaceInv, NEW g \in Gens, conns[g].queue # <<>>,
           Head(conns[g].queue).kind # "dispose"
    PROVE  LET x == Head(conns[g].queue)
           IN  /\ x \in Calls /\ x.r \in Nat /\ InQueue(g, 1, x.r)
               /\ x.r \in Requests \/ x.r = 0
<1>1. PICK x : x = Head(conns[g].queue)
  OBVIOUS
<1>2. conns[g].queue \in Seq(Items) /\ g \in Nat
  BY ConnType
<1>3. x \in Items /\ x = conns[g].queue[1] /\ 1 \in DOMAIN conns[g].queue
  <2>1. /\ DOMAIN conns[g].queue = 1..Len(conns[g].queue) /\ Len(conns[g].queue) \in Nat \ {0}
        /\ Head(conns[g].queue) = conns[g].queue[1] /\ Head(conns[g].queue) \in Items
    BY <1>2, QueueShrinks
  <2>2. 1 \in 1..Len(conns[g].queue)
    BY <2>1
  <2> QED
    BY <1>1, <2>1, <2>2
<1>4. x \in Calls
  BY <1>1, <1>3 DEF Items
<1>5. x.r \in Nat /\ x.kind \in Kinds
  BY <1>4 DEF Calls
<1>6. InQueue(g, 1, x.r)
  BY <1>3, <1>5 DEF InQueue
<1>7. x.r \in Requests \/ x.r = 0
  BY <1>2, <1>5, <1>6, 1 \in Nat DEF PlaceInv
<1> QED
  BY <1>1, <1>4, <1>5, <1>6, <1>7

\* The events that are published have the type of events.
LEMMA EventTypes ==
    /\ \A kind \in Kinds, k \in Keys, r \in Nat : [kind |-> kind, key |-> k, r |-> r] \in Calls
    /\ \A x \in Calls : x \in Events /\ x \in Items
    /\ \A ok \in BOOLEAN : [kind |-> "dial", ok |-> ok] \in Events
    /\ [kind |-> "tick"] \in Events
    /\ \A g \in Nat, o \in Outcomes : [kind |-> "read", gen |-> g, outcome |-> o] \in Events
    /\ \A g \in Nat : [kind |-> "failure", gen |-> g] \in Events
    /\ [kind |-> "dispose"] \in Items
<1>1. \A kind \in Kinds, k \in Keys, r \in Nat : [kind |-> kind, key |-> k, r |-> r] \in Calls
  BY DEF Calls
<1>2. \A x \in Calls : x \in Events /\ x \in Items
  BY DEF Events, Items
<1>3. \A ok \in BOOLEAN : [kind |-> "dial", ok |-> ok] \in Events
  BY DEF Events
<1>4. [kind |-> "tick"] \in Events
  BY DEF Events
<1>5. \A g \in Nat, o \in Outcomes : [kind |-> "read", gen |-> g, outcome |-> o] \in Events
  BY DEF Events
<1>6. \A g \in Nat : [kind |-> "failure", gen |-> g] \in Events
  BY DEF Events
<1>7. [kind |-> "dispose"] \in Items
  BY DEF Items
<1> QED
  BY <1>1, <1>2, <1>3, <1>4, <1>5, <1>6, <1>7

\* The event of a connection.
LEMMA ConnEvents ==
    ASSUME Types, NEW g \in Gens
    PROVE  /\ [kind |-> "read", gen |-> g, outcome |-> conns[g].outcome] \in Events
           /\ [kind |-> "failure", gen |-> g] \in Events
<1>1. g \in Nat /\ conns[g].outcome \in Outcomes
  BY ConnType DEF Conns
<1> QED
  BY <1>1, EventTypes

\* The queue of events: one is published, one is taken, or nothing happens.
LEMMA EventStep ==
    ASSUME Types
    PROVE  /\ \A e \in Events : publish(e) => Published(e)
           /\ \A e \in Events : publishInternal(e) => Published(e) \/ UNCHANGED eventCh
           /\ \A e \in Events : Published(e) => eventCh' \in Seq(Events)
           /\ Taken => eventCh' \in Seq(Events)
           /\ \A kind : takes(kind) => Taken /\ pc = "select" /\ Head(eventCh).kind = kind
           /\ UNCHANGED eventCh => eventCh' \in Seq(Events)
<1>1. \A e \in Events : publish(e) => Published(e)
  BY DEF publish, Published
<1>2. \A e \in Events : publishInternal(e) => Published(e) \/ UNCHANGED eventCh
  BY <1>1 DEF publishInternal
<1>3. \A e \in Events : Published(e) => eventCh' \in Seq(Events)
  BY ChGrows DEF Types
<1>4. Taken => eventCh' \in Seq(Events)
  BY ChShrinks DEF Types
<1>5. \A kind : takes(kind) => Taken /\ pc = "select" /\ Head(eventCh).kind = kind
  BY DEF takes, Taken
<1> QED
  BY <1>1, <1>2, <1>3, <1>4, <1>5 DEF Types

\* An answer given.
LEMMA ResolveType ==
    ASSUME Types, NEW r \in Requests, resolve(r)
    PROVE  answers' \in Seq(Nat)
BY DEF Types, Requests, resolve

\* A call is handed to the worker of the live connection, or it is answered.
Handed(e) ==
    /\ liveTransport \in Gens
    /\ Changed(liveTransport, Append(conns[liveTransport].queue, e))
    /\ conns'[liveTransport].broken = conns[liveTransport].broken
    /\ UNCHANGED answers
Told(e) == resolve(e.r) /\ UNCHANGED conns

\* The end of the three handlers of writes hands the call on or answers it.
LEMMA Routed ==
    ASSUME Types, NEW e \in Calls, route(e)
    PROVE  LET about == IF e.kind = "send" THEN {} ELSE {e.key}
           IN  \/ Handed(e) /\ odd' = odd \ about
               \/ Told(e) /\ odd' = odd \union about
<1>1. CASE canRouteWrites /\ TryEnqueue(liveTransport, e)
  <2>1. liveTransport \in Gens
    BY <1>1 DEF canRouteWrites, Types, Gens
  <2>2. e \in Items
    BY EventTypes
  <2>3. Changed(liveTransport, Append(conns[liveTransport].queue, e))
        /\ conns'[liveTransport].broken = conns[liveTransport].broken
    BY <1>1, <2>1, <2>2, ItemQueued
  <2> QED
    BY <2>1, <2>3 DEF route, Handed, Told
<1>2. CASE ~(canRouteWrites /\ TryEnqueue(liveTransport, e))
  BY <1>2 DEF route, Told
<1> QED
  BY <1>1, <1>2

\* The handlers of calls: the call is handed on, or it is answered.
LEMMA CallHandled ==
    ASSUME Types, PlaceInv, NEW kind \in Kinds, takes(kind),
           handleSend \/ handleSubscribe \/ handleUnsubscribe
    PROVE  /\ UNCHANGED <<cancelled, pc, todo, liveTransport, disposing, routingOpen, dialing,
                          waitingReconnect, connected, server>>
           /\ LET e == Head(eventCh)
              IN  \/ /\ kind = "send" /\ UNCHANGED <<entries, odd>>
                     /\ Handed(e) \/ Told(e)
                  \/ /\ kind = "subscribe" /\ e.key \in entries
                     /\ UNCHANGED <<entries, odd>> /\ Told(e)
                  \/ /\ kind = "subscribe" /\ e.key \notin entries
                     /\ entries' = entries \union {e.key}
                     /\ \/ Handed(e) /\ odd' = odd \ {e.key}
                        \/ Told(e) /\ odd' = odd \union {e.key}
                  \/ /\ kind = "unsubscribe" /\ e.key \notin entries
                     /\ UNCHANGED <<entries, odd>> /\ Told(e)
                  \/ /\ kind = "unsubscribe" /\ e.key \in entries
                     /\ entries' = entries \ {e.key}
                     /\ \/ Handed(e) /\ odd' = odd \ {e.key}
                        \/ Told(e) /\ odd' = odd \union {e.key}
<1>1. PICK e : e = Head(eventCh)
  OBVIOUS
<1>2. e \in Calls /\ e.kind = kind
  BY <1>1, CallTaken
<1>3. route(e) => LET about == IF kind = "send" THEN {} ELSE {e.key}
                  IN  \/ Handed(e) /\ odd' = odd \ about
                      \/ Told(e) /\ odd' = odd \union about
  BY <1>2, Routed
<1>4. CASE handleSend
  <2>1. kind = "send" /\ route(e)
    BY <1>1, <1>2, <1>4 DEF handleSend, takes
  <2> QED
    BY <1>1, <1>3, <1>4, <2>1 DEF handleSend, loopVars
<1>5. CASE handleSubscribe
  <2>1. kind = "subscribe"
    BY <1>1, <1>2, <1>5 DEF handleSubscribe, takes
  <2> QED
    BY <1>1, <1>3, <1>5, <2>1 DEF handleSubscribe, Told
<1>6. CASE handleUnsubscribe
  <2>1. kind = "unsubscribe"
    BY <1>1, <1>2, <1>6 DEF handleUnsubscribe, takes
  <2> QED
    BY <1>1, <1>3, <1>6, <2>1 DEF handleUnsubscribe, Told
<1> QED
  BY <1>4, <1>5, <1>6

\* What the loop gives up: the live connection is closed, and its worker is to be
\* disposed of.
LEMMA Released ==
    ASSUME Types, liveTransport # 0, releaseLiveTransport \/ beginShutdown
    PROVE  /\ liveTransport \in Gens
           /\ Changed(liveTransport, conns[liveTransport].queue) /\ ~conns'[liveTransport].up
           /\ ~routingOpen' /\ liveTransport' = 0 /\ disposing' = liveTransport
           /\ pc' \in {"dispose", "shutdown"}
<1>1. liveTransport \in Gens
  BY DEF Types, Gens
<1>2. conns' = [conns EXCEPT ![liveTransport].up = FALSE]
  BY DEF releaseLiveTransport, beginShutdown
<1>3. Changed(liveTransport, conns[liveTransport].queue) /\ ~conns'[liveTransport].up
  BY <1>1, <1>2, ConnClosed
<1> QED
  BY <1>1, <1>3 DEF releaseLiveTransport, beginShutdown

\* Types are kept by every step.
LEMMA TypesNext ==
    ASSUME Types, DriverInv, PlaceInv, Next
    PROVE  Types'
<1> USE DEF loopVars
<1>0. /\ answers \in Seq(Nat) /\ conns \in Seq(Conns) /\ eventCh \in Seq(Events)
      /\ Len(conns) \in Nat
  BY DEF Types
<1>1. CASE Run
  BY <1>1 DEF Run, Types
<1>2. CASE Stop
  BY <1>2 DEF Stop, Types
<1>3. ASSUME NEW kind \in Kinds, NEW k \in Keys, Call(kind, k) PROVE Types'
  <2>1. PICK e : e = [kind |-> kind, key |-> k, r |-> Len(answers')]
    OBVIOUS
  <2>2. answers' \in Seq(Nat) /\ Len(answers') \in Nat
    BY <1>0, <1>3 DEF Call
  <2>3. e \in Events
    BY <2>1, <2>2, EventTypes
  <2>4. publish(e)
    BY <1>3, <2>1 DEF Call, publishPublic
  <2>5. eventCh' \in Seq(Events)
    BY <2>3, <2>4, EventStep
  <2> QED
    BY <1>3, <2>2, <2>5 DEF Call, Types
<1>4. CASE dial
  <2>0. PICK ok \in {FALSE, Len(conns) < MaxConns} : publish([kind |-> "dial", ok |-> ok])
    BY <1>4 DEF dial
  <2>1. ok \in BOOLEAN
    <3>1. (Len(conns) < MaxConns) \in BOOLEAN
      OBVIOUS
    <3> QED
      BY <3>1
  <2>2. eventCh' \in Seq(Events)
    BY <2>0, <2>1, EventTypes, EventStep
  <2> QED
    BY <1>4, <2>2 DEF dial, Types
<1>5. CASE reconnectTick
  <2>1. eventCh' \in Seq(Events)
    BY <1>5, EventTypes, EventStep DEF reconnectTick
  <2> QED
    BY <1>5, <2>1 DEF reconnectTick, Types
<1>6. CASE handleSend \/ handleSubscribe \/ handleUnsubscribe
  <2>1. PICK kind \in Kinds : takes(kind)
    BY <1>6 DEF handleSend, handleSubscribe, handleUnsubscribe, Kinds
  <2>2. PICK e : e = Head(eventCh)
    OBVIOUS
  <2>3. Taken /\ e \in Calls /\ e.r \in Requests
    BY <2>1, <2>2, CallTaken
  <2>4. eventCh' \in Seq(Events)
    BY <2>3, EventStep
  <2>5. e.key \in Keys
    BY <2>3 DEF Calls
  <2>6. /\ UNCHANGED <<cancelled, pc, todo, liveTransport, disposing, routingOpen, dialing,
                       waitingReconnect, connected>>
        /\ Handed(e) \/ Told(e)
        /\ entries' = entries \/ entries' = entries \union {e.key} \/ entries' = entries \ {e.key}
    BY <1>6, <2>1, <2>2, CallHandled
  <2>7. answers' \in Seq(Nat)
    BY <1>0, <2>3, <2>6, ResolveType DEF Handed, Told
  <2>8. conns' \in Seq(Conns) /\ Len(conns') = Len(conns)
    BY <1>0, <2>6 DEF Handed, Told, Changed
  <2>9. entries' \subseteq Keys
    BY <2>5, <2>6 DEF Types
  <2> QED
    BY <2>4, <2>6, <2>7, <2>8, <2>9 DEF Types
<1>7. CASE handleDialFailure
  <2>1. eventCh' \in Seq(Events)
    BY <1>7, EventStep DEF handleDialFailure
  <2> QED
    BY <1>7, <2>1 DEF handleDialFailure, scheduleReconnect, Types
<1>8. CASE handleDialSuccess
  <2>1. eventCh' \in Seq(Events)
    BY <1>8, EventStep DEF handleDialSuccess
  <2>2. NewConn \in Conns
    BY DEF NewConn, Conns, Outcomes
  <2>3. conns' \in Seq(Conns) /\ Len(conns') = Len(conns) + 1
    BY <1>0, <1>8, <2>2 DEF handleDialSuccess
  <2>4. /\ liveTransport' \in 0..Len(conns') /\ disposing' \in 0..Len(conns')
    BY <1>0, <1>8, <2>3 DEF handleDialSuccess, Types
  <2> QED
    BY <1>8, <2>1, <2>3, <2>4 DEF handleDialSuccess, Types, snapshot
<1>9. CASE handleReconnectTick
  <2>1. eventCh' \in Seq(Events)
    BY <1>9, EventStep DEF handleReconnectTick
  <2> QED
    BY <1>9, <2>1 DEF handleReconnectTick, Types
<1>10. CASE activate
  <2>1. PICK k \in todo :
          /\ todo' = todo \ {k}
          /\ \/ /\ TryEnqueue(liveTransport, [kind |-> "subscribe", key |-> k, r |-> 0])
                /\ pc' = "sync"
             \/ pc' = "failed" /\ UNCHANGED conns
    BY <1>10 DEF activate
  <2>2. liveTransport \in Gens
    BY <1>10 DEF activate, DriverInv, LoopInv, Types, Gens
  <2>3. [kind |-> "subscribe", key |-> k, r |-> 0] \in Items
    <3>1. k \in Keys /\ "subscribe" \in Kinds /\ 0 \in Nat
      BY DEF Types, Kinds
    <3> QED
      BY <3>1, EventTypes
  <2>4. conns' \in Seq(Conns) /\ Len(conns') = Len(conns)
    BY <1>0, <2>1, <2>2, <2>3, ItemQueued DEF Changed
  <2> QED
    BY <1>10, <2>1, <2>4 DEF activate, Types
<1>11. CASE activated
  BY <1>11 DEF activated, Types
<1>12. CASE activateFails
  <2>1. conns' \in Seq(Conns) /\ Len(conns') = Len(conns)
    BY <1>12, Released DEF activateFails, Changed, DriverInv, LoopInv
  <2>2. /\ liveTransport' \in 0..Len(conns) /\ disposing' \in 0..Len(conns)
        /\ pc' = "dispose" /\ todo' = {} /\ routingOpen' = FALSE
        /\ UNCHANGED <<eventCh, cancelled, entries, dialing, waitingReconnect, connected, answers>>
    BY <1>0, <1>12 DEF activateFails, releaseLiveTransport, Types
  <2> QED
    BY <2>1, <2>2 DEF Types
<1>13. CASE Dispose
  <2>1. disposing \in Gens
    BY <1>13 DEF Dispose, Types, Gens
  <2>2. conns' \in Seq(Conns) /\ Len(conns') = Len(conns)
    BY <1>13, <2>1, EventTypes, ItemQueued DEF Dispose, Changed
  <2>3. /\ liveTransport' \in 0..Len(conns) /\ disposing' \in 0..Len(conns)
        /\ UNCHANGED <<eventCh, cancelled, todo, entries, routingOpen, dialing, answers>>
    BY <1>0, <1>13 DEF Dispose, Types
  <2>4. /\ waitingReconnect' \in BOOLEAN /\ connected' \in BOOLEAN
        /\ pc' \in {"select", "shutdown"}
    <3>1. (waitingReconnect \/ ~cancelled) \in BOOLEAN
      OBVIOUS
    <3> QED
      BY <1>13, <3>1 DEF Dispose, scheduleReconnect, Types
  <2> QED
    BY <2>2, <2>3, <2>4 DEF Types
<1>14. CASE handleReadIgnored
  <2>1. eventCh' \in Seq(Events)
    BY <1>14, EventStep DEF handleReadIgnored
  <2> QED
    BY <1>14, <2>1 DEF handleReadIgnored, Types
<1>15. CASE enterBackoff
  <2>1. eventCh' \in Seq(Events)
    BY <1>15, EventStep DEF enterBackoff
  <2>2. conns' \in Seq(Conns) /\ Len(conns') = Len(conns)
    BY <1>15, Released DEF enterBackoff, FromLive, Changed
  <2>3. /\ liveTransport' \in 0..Len(conns) /\ disposing' \in 0..Len(conns)
        /\ pc' = "dispose" /\ todo' = {} /\ routingOpen' = FALSE
        /\ UNCHANGED <<cancelled, entries, dialing, waitingReconnect, connected, answers>>
    BY <1>0, <1>15 DEF enterBackoff, releaseLiveTransport, Types
  <2> QED
    BY <2>1, <2>2, <2>3 DEF Types
<1>16. CASE handlerStops \/ shutdown
  <2>1. eventCh' \in Seq(Events) /\ beginShutdown
    BY <1>16, EventStep DEF handlerStops, shutdown
  <2>2. conns' \in Seq(Conns) /\ Len(conns') = Len(conns)
    <3>1. CASE liveTransport = 0
      BY <1>0, <2>1, <3>1 DEF beginShutdown
    <3>2. CASE liveTransport # 0
      BY <2>1, <3>2, Released DEF Changed
    <3> QED
      BY <3>1, <3>2
  <2>3. /\ liveTransport' \in 0..Len(conns) /\ disposing' \in 0..Len(conns)
        /\ pc' = "shutdown" /\ routingOpen' = FALSE /\ cancelled' = TRUE
        /\ UNCHANGED <<todo, entries, dialing, waitingReconnect, connected, answers>>
    BY <1>0, <2>1 DEF beginShutdown, Types
  <2> QED
    BY <2>1, <2>2, <2>3 DEF Types
<1>17. CASE handleWorkerFailure
  <2>1. eventCh' \in Seq(Events)
    BY <1>17, EventStep DEF handleWorkerFailure
  <2>2. routingOpen' \in BOOLEAN
    BY <1>17 DEF handleWorkerFailure
  <2> QED
    BY <1>17, <2>1, <2>2 DEF handleWorkerFailure, Types
<1>18. CASE shutdownEnds
  BY <1>18 DEF shutdownEnds, Types
<1>19. ASSUME NEW g \in Gens, workerWrites(g) PROVE Types'
  <2>1. conns' \in Seq(Conns) /\ Len(conns') = Len(conns)
    BY <1>19, ItemTaken DEF Changed
  <2>2. PICK x : x = Head(conns[g].queue)
    OBVIOUS
  <2>3. x.r \in Requests \/ x.r = 0
    BY <1>19, <2>2, ItemInQueue DEF workerWrites
  <2>4. PICK ok \in BOOLEAN : handleRequest(g, x, ok)
    BY <1>19, <2>2 DEF workerWrites
  <2>5. answers' \in Seq(Nat) /\ pc' \in {pc, "replay", "failed"}
    BY <1>0, <2>3, <2>4, ResolveType DEF handleRequest
  <2> QED
    BY <1>19, <2>1, <2>5 DEF workerWrites, Types
<1>20. ASSUME NEW g \in Gens, workerEnds(g) PROVE Types'
  <2>1. conns' \in Seq(Conns) /\ Len(conns') = Len(conns)
    BY <1>20, ItemTaken DEF Changed
  <2> QED
    BY <1>20, <2>1 DEF workerEnds, Types
<1>21. ASSUME NEW g \in Gens,
              \/ readFails(g) \/ handlerFails(g) \/ publishReadEvent(g) \/ pingFails(g)
              \/ workerReports(g) \/ connectionLost(g)
       PROVE  Types'
  <2>1. conns' \in Seq(Conns) /\ Len(conns') = Len(conns)
    BY <1>21, QueueKept DEF Changed
  <2>2. eventCh' \in Seq(Events)
    <3>1. CASE publishReadEvent(g)
      BY <3>1, ConnEvents, EventStep DEF publishReadEvent
    <3>2. CASE workerReports(g)
      BY <3>2, ConnEvents, EventStep DEF workerReports, publishFailure
    <3> QED
      BY <1>0, <1>21, <3>1, <3>2 DEF readFails, handlerFails, pingFails, connectionLost
  <2>3. UNCHANGED <<cancelled, loopVars, answers>>
    BY <1>21 DEF readFails, handlerFails, pingFails, connectionLost, publishReadEvent, workerReports
  <2> QED
    BY <2>1, <2>2, <2>3 DEF Types
<1> QED
  BY <1>1, <1>2, <1>3, <1>4, <1>5, <1>6, <1>7, <1>8, <1>9, <1>10, <1>11, <1>12, <1>13, <1>14,
     <1>15, <1>16, <1>17, <1>18, <1>19, <1>20, <1>21
  DEF Next, LoopStep, WorkerStep, ReaderStep

-----------------------------------------------------------------------------
(* The loop and its events.                                                 *)

\* The head of eventCh is taken.
LEMMA HeadEvent ==
    ASSUME Types, Taken
    PROVE  /\ 1 \in DOMAIN eventCh /\ Head(eventCh) = eventCh[1]
           /\ \A i \in DOMAIN eventCh' :
                 i \in Nat /\ i + 1 \in DOMAIN eventCh /\ i + 1 # 1 /\ eventCh'[i] = eventCh[i + 1]
BY QueueShrinks DEF Types, Taken

\* Only the goroutine that is under way publishes a dial's result or a tick.
LEMMA HeadIsDue ==
    ASSUME Types, EventInv
    PROVE  /\ takes("dial") => dialing
           /\ takes("tick") => waitingReconnect
<1>1. ASSUME NEW kind, takes(kind)
      PROVE  1 \in DOMAIN eventCh /\ eventCh[1].kind = kind
  <2>1. Taken /\ Head(eventCh).kind = kind
    BY <1>1, EventStep
  <2> QED
    BY <2>1, HeadEvent
<1> QED
  BY <1>1 DEF EventInv

\* The steps of a connection leave the loop alone.
LEMMA LoopAlone ==
    ASSUME NEW g,
           \/ readFails(g) \/ handlerFails(g) \/ publishReadEvent(g) \/ pingFails(g)
           \/ workerReports(g) \/ connectionLost(g) \/ workerEnds(g)
    PROVE  UNCHANGED <<cancelled, loopVars, answers, server, odd>>
BY DEF readFails, handlerFails, publishReadEvent, pingFails, workerReports, connectionLost,
       workerEnds

\* What drives the client, by where the loop is, is kept by every step.
LEMMA LoopNext ==
    ASSUME Types, Types', LoopInv, EventInv, PlaceInv, Next
    PROVE  LoopInv'
<1> USE DEF loopVars
<1>1. CASE Run
  BY <1>1 DEF Run, LoopInv, One
<1>2. CASE Stop
  BY <1>2 DEF Stop, LoopInv, One
<1>3. ASSUME NEW kind \in Kinds, NEW k \in Keys, Call(kind, k) PROVE LoopInv'
  BY <1>3 DEF Call, LoopInv, One
<1>4. CASE dial \/ reconnectTick \/ handleReadIgnored
  BY <1>4 DEF dial, reconnectTick, handleReadIgnored, LoopInv, One
<1>5. CASE handleSend \/ handleSubscribe \/ handleUnsubscribe
  <2>1. UNCHANGED <<cancelled, pc, todo, liveTransport, disposing, routingOpen, dialing,
                    waitingReconnect>>
    BY <1>5 DEF handleSend, handleSubscribe, handleUnsubscribe
  <2> QED
    BY <2>1 DEF LoopInv, One
<1>6. CASE handleDialFailure
  <2>1. dialing /\ pc = "select"
    BY <1>6, HeadIsDue DEF handleDialFailure, takes
  <2> QED
    BY <1>6, <2>1 DEF handleDialFailure, scheduleReconnect, LoopInv, One
<1>7. CASE handleDialSuccess
  <2>1. dialing /\ pc = "select"
    BY <1>7, HeadIsDue DEF handleDialSuccess, takes
  <2>2. liveTransport' # 0
    BY <1>7 DEF handleDialSuccess, Types
  <2> QED
    BY <1>7, <2>1, <2>2 DEF handleDialSuccess, LoopInv, One
<1>8. CASE handleReconnectTick
  <2>1. waitingReconnect /\ pc = "select"
    BY <1>8, HeadIsDue DEF handleReconnectTick, takes
  <2> QED
    BY <1>8, <2>1 DEF handleReconnectTick, LoopInv, One
<1>9. CASE activate
  <2>1. pc = "replay" /\ pc' \in {"sync", "failed"}
        /\ UNCHANGED <<cancelled, liveTransport, disposing, routingOpen, dialing, waitingReconnect>>
    BY <1>9 DEF activate
  <2> QED
    BY <2>1 DEF LoopInv, One
<1>10. CASE activated
  BY <1>10 DEF activated, LoopInv, One
<1>11. CASE activateFails \/ enterBackoff
  <2>1. /\ routingOpen' = FALSE /\ liveTransport' = 0 /\ disposing' = liveTransport
        /\ pc' = "dispose" /\ todo' = {} /\ pc \in {"failed", "select"}
        /\ UNCHANGED <<cancelled, dialing, waitingReconnect>>
        /\ liveTransport # 0
    BY <1>11 DEF activateFails, enterBackoff, releaseLiveTransport, takes, FromLive, LoopInv
  <2> QED
    BY <2>1 DEF LoopInv, One
<1>12. CASE Dispose
  <2>1. /\ disposing' = 0 /\ UNCHANGED <<cancelled, todo, liveTransport, routingOpen, dialing>>
        /\ \/ pc = "dispose" /\ pc' = "select" /\ scheduleReconnect
           \/ pc = "shutdown" /\ pc' = pc /\ UNCHANGED waitingReconnect
    BY <1>12 DEF Dispose
  <2> QED
    BY <2>1 DEF LoopInv, One, scheduleReconnect
<1>13. CASE handlerStops \/ shutdown
  <2>1. cancelled' = TRUE /\ routingOpen' = FALSE /\ pc' = "shutdown"
    BY <1>13 DEF handlerStops, shutdown, beginShutdown
  <2> QED
    BY <2>1 DEF LoopInv, One
<1>14. CASE handleWorkerFailure
  <2>1. routingOpen' => routingOpen
    BY <1>14 DEF handleWorkerFailure
  <2> QED
    BY <1>14, <2>1 DEF handleWorkerFailure, LoopInv, One
<1>15. CASE shutdownEnds
  BY <1>15 DEF shutdownEnds, LoopInv, One
<1>16. ASSUME NEW g \in Gens, workerWrites(g) PROVE LoopInv'
  <2>1. UNCHANGED <<cancelled, todo, liveTransport, disposing, routingOpen, dialing,
                    waitingReconnect>>
    BY <1>16 DEF workerWrites
  <2>2. \/ pc' = pc
        \/ pc = "sync" /\ pc' \in {"replay", "failed"}
    <3>1. PICK x : x = Head(conns[g].queue)
      OBVIOUS
    <3>2. x.r = 0 => pc = "sync"
      <4>1. InQueue(g, 1, x.r) /\ g \in Nat
        BY <1>16, <3>1, ItemInQueue, ConnType DEF workerWrites
      <4> QED
        BY <4>1, 1 \in Nat DEF PlaceInv
    <3>3. PICK ok \in BOOLEAN : handleRequest(g, x, ok)
      BY <1>16, <3>1 DEF workerWrites
    <3> QED
      BY <3>2, <3>3 DEF handleRequest
  <2> QED
    BY <2>1, <2>2 DEF LoopInv, One
<1>17. ASSUME NEW g \in Gens,
              \/ readFails(g) \/ handlerFails(g) \/ publishReadEvent(g) \/ pingFails(g)
              \/ workerReports(g) \/ connectionLost(g) \/ workerEnds(g)
       PROVE  LoopInv'
  <2>1. UNCHANGED <<cancelled, loopVars>>
    BY <1>17, LoopAlone
  <2> QED
    BY <2>1 DEF LoopInv, One
<1> QED
  BY <1>1, <1>2, <1>3, <1>4, <1>5, <1>6, <1>7, <1>8, <1>9, <1>10, <1>11, <1>12, <1>13, <1>14,
     <1>15, <1>16, <1>17
  DEF Next, LoopStep, WorkerStep, ReaderStep

\* No connection but the live one is open: a connection is opened only by a dial that
\* ends while there is none, and the one given up is closed.
LEMMA OnlyLiveNext ==
    ASSUME Types, Types', DriverInv, EventInv, PlaceInv, Next
    PROVE  OnlyLiveOpen'
<1> USE DEF loopVars
<1>0. /\ OnlyLiveOpen /\ \A g \in Gens : g \in Nat /\ g # 0
      /\ Len(conns) \in Nat
  BY DEF DriverInv, Gens, Types
<1>1. ASSUME NEW g \in Gens, NEW q, Changed(g, q),
             \/ UNCHANGED liveTransport
             \/ g = liveTransport /\ ~conns'[g].up
      PROVE  OnlyLiveOpen'
  <2>1. Gens' = Gens /\ \A h \in Gens : conns'[h].up => conns[h].up
    BY <1>1 DEF Gens, Changed
  <2> QED
    BY <1>0, <1>1, <2>1 DEF OnlyLiveOpen
<1>2. ASSUME UNCHANGED <<conns, liveTransport>> PROVE OnlyLiveOpen'
  BY <1>0, <1>2 DEF OnlyLiveOpen, Gens
<1>3. CASE \/ Run \/ Stop \/ dial \/ reconnectTick \/ handleDialFailure \/ handleReconnectTick
           \/ activated \/ handleReadIgnored \/ handleWorkerFailure \/ shutdownEnds
  BY <1>2, <1>3 DEF Run, Stop, dial, reconnectTick, handleDialFailure, handleReconnectTick,
     activated, handleReadIgnored, handleWorkerFailure, shutdownEnds
<1>4. ASSUME NEW kind \in Kinds, NEW k \in Keys, Call(kind, k) PROVE OnlyLiveOpen'
  BY <1>2, <1>4 DEF Call
<1>5. CASE handleSend \/ handleSubscribe \/ handleUnsubscribe
  <2>1. PICK kind \in Kinds : takes(kind)
    BY <1>5 DEF handleSend, handleSubscribe, handleUnsubscribe, Kinds
  <2>2. UNCHANGED liveTransport /\ (Handed(Head(eventCh)) \/ Told(Head(eventCh)))
    BY <1>5, <2>1, CallHandled
  <2> QED
    BY <1>1, <1>2, <2>2 DEF Handed, Told
<1>6. CASE handleDialSuccess
  <2>1. liveTransport = 0
    <3>1. dialing /\ pc = "select" /\ ~cancelled
      BY <1>6, HeadIsDue DEF handleDialSuccess, takes
    <3> QED
      BY <3>1 DEF DriverInv, LoopInv, One
  <2>2. \A g \in Gens : ~conns[g].up
    BY <1>0, <2>1 DEF OnlyLiveOpen
  <2>3. /\ Gens' = Gens \union {liveTransport'}
        /\ \A g \in Gens : conns'[g] = conns[g]
    BY <1>6 DEF handleDialSuccess, Gens, Types
  <2> QED
    BY <2>2, <2>3 DEF OnlyLiveOpen
<1>7. CASE activate
  <2>1. PICK k \in todo :
          \/ TryEnqueue(liveTransport, [kind |-> "subscribe", key |-> k, r |-> 0])
          \/ UNCHANGED conns
    BY <1>7 DEF activate
  <2>2. liveTransport \in Gens /\ UNCHANGED liveTransport
    BY <1>7 DEF activate, DriverInv, LoopInv, Types, Gens
  <2>3. [kind |-> "subscribe", key |-> k, r |-> 0] \in Items
    <3>1. k \in Keys /\ "subscribe" \in Kinds /\ 0 \in Nat
      BY DEF Types, Kinds
    <3> QED
      BY <3>1, EventTypes
  <2> QED
    BY <1>1, <1>2, <2>1, <2>2, <2>3, ItemQueued
<1>8. CASE activateFails \/ enterBackoff
  <2>1. liveTransport # 0 /\ releaseLiveTransport
    BY <1>8 DEF activateFails, enterBackoff, FromLive, DriverInv, LoopInv
  <2> QED
    BY <1>1, <2>1, Released
<1>9. CASE Dispose
  <2>1. disposing \in Gens /\ UNCHANGED liveTransport
    BY <1>9 DEF Dispose, Types, Gens
  <2> QED
    BY <1>1, <1>9, <2>1, EventTypes, ItemQueued DEF Dispose
<1>10. CASE handlerStops \/ shutdown
  <2>1. beginShutdown
    BY <1>10 DEF handlerStops, shutdown
  <2>2. CASE liveTransport = 0
    BY <1>2, <2>1, <2>2 DEF beginShutdown
  <2>3. CASE liveTransport # 0
    BY <1>1, <2>1, <2>3, Released
  <2> QED
    BY <2>2, <2>3
<1>11. ASSUME NEW g \in Gens, workerWrites(g) \/ workerEnds(g) PROVE OnlyLiveOpen'
  <2>1. UNCHANGED liveTransport
    BY <1>11 DEF workerWrites, workerEnds
  <2> QED
    BY <1>1, <1>11, <2>1, ItemTaken
<1>12. ASSUME NEW g \in Gens,
              \/ readFails(g) \/ handlerFails(g) \/ publishReadEvent(g) \/ pingFails(g)
              \/ workerReports(g) \/ connectionLost(g)
       PROVE  OnlyLiveOpen'
  <2>1. UNCHANGED liveTransport
    BY <1>12, LoopAlone
  <2> QED
    BY <1>1, <1>12, <2>1, QueueKept
<1> QED
  BY <1>3, <1>4, <1>5, <1>6, <1>7, <1>8, <1>9, <1>10, <1>11, <1>12
  DEF Next, LoopStep, WorkerStep, ReaderStep

\* Dial results and ticks stay single, and belong to what is under way.
LEMMA EventNext ==
    ASSUME Types, Types', DriverInv, EventInv, PlaceInv, Next
    PROVE  EventInv'
<1> USE DEF loopVars
<1>0. eventCh \in Seq(Events)
  BY DEF Types
<1>1. ASSUME NEW e \in Events, Published(e), UNCHANGED <<dialing, waitingReconnect>>,
             e.kind = "dial" => dialing /\ ~InEventCh("dial"),
             e.kind = "tick" => waitingReconnect /\ ~InEventCh("tick")
      PROVE  EventInv'
  <2>1. /\ DOMAIN eventCh = 1..Len(eventCh) /\ Len(eventCh) \in Nat
        /\ DOMAIN eventCh' = 1..(Len(eventCh) + 1) /\ eventCh'[Len(eventCh) + 1] = e
        /\ \A i \in 1..Len(eventCh) : eventCh'[i] = eventCh[i]
    BY <1>0, <1>1, QueueGrows DEF Published
  <2> QED
    BY <1>1, <2>1 DEF EventInv, InEventCh
<1>2. ASSUME Taken,
             dialing => dialing' \/ Head(eventCh).kind = "dial",
             waitingReconnect => waitingReconnect' \/ Head(eventCh).kind = "tick"
      PROVE  EventInv'
  <2>1. /\ 1 \in DOMAIN eventCh /\ Head(eventCh) = eventCh[1]
        /\ \A i \in DOMAIN eventCh' :
              i \in Nat /\ i + 1 \in DOMAIN eventCh /\ i + 1 # 1 /\ eventCh'[i] = eventCh[i + 1]
    BY <1>2, HeadEvent
  <2>2. \A i \in DOMAIN eventCh' :
           /\ eventCh'[i].kind = "dial" => dialing'
           /\ eventCh'[i].kind = "tick" => waitingReconnect'
    BY <1>2, <2>1 DEF EventInv
  <2>3. ASSUME NEW i \in DOMAIN eventCh', NEW j \in DOMAIN eventCh',
               eventCh'[i].kind \in {"dial", "tick"}, eventCh'[i].kind = eventCh'[j].kind
        PROVE  i = j
    <3>1. i + 1 = j + 1
      BY <2>1, <2>3 DEF EventInv
    <3> QED
      BY <2>1, <3>1
  <2> QED
    BY <2>2, <2>3 DEF EventInv
<1>3. ASSUME UNCHANGED eventCh, dialing => dialing', waitingReconnect => waitingReconnect'
      PROVE  EventInv'
  BY <1>3 DEF EventInv
<1>4. CASE Run \/ Stop \/ activated \/ shutdownEnds \/ shutdown \/ activate \/ activateFails
  BY <1>3, <1>4 DEF Run, Stop, activated, shutdownEnds, shutdown, beginShutdown, activate,
     activateFails
<1>5. CASE Dispose
  <2>1. UNCHANGED <<eventCh, dialing>> /\ (waitingReconnect => waitingReconnect')
    BY <1>5 DEF Dispose, scheduleReconnect
  <2> QED
    BY <1>3, <2>1
<1>6. ASSUME NEW kind \in Kinds, NEW k \in Keys, Call(kind, k) PROVE EventInv'
  <2>1. PICK e : e = [kind |-> kind, key |-> k, r |-> Len(answers')]
    OBVIOUS
  <2>2. e \in Events
    <3>1. Len(answers') \in Nat
      BY DEF Types
    <3> QED
      BY <2>1, <3>1, EventTypes
  <2>3. Published(e) /\ e.kind \notin {"dial", "tick"}
    BY <1>6, <2>1 DEF Call, publishPublic, publish, Published, Kinds
  <2> QED
    BY <1>1, <1>6, <2>2, <2>3 DEF Call
<1>7. CASE dial
  <2>0. PICK ok \in {FALSE, Len(conns) < MaxConns} : publish([kind |-> "dial", ok |-> ok])
    BY <1>7 DEF dial
  <2>1. ok \in BOOLEAN
    <3>1. (Len(conns) < MaxConns) \in BOOLEAN
      OBVIOUS
    <3> QED
      BY <3>1
  <2>2. PICK e : e = [kind |-> "dial", ok |-> ok]
    OBVIOUS
  <2>3. e \in Events /\ Published(e) /\ e.kind = "dial"
    BY <2>0, <2>1, <2>2, EventTypes DEF publish, Published
  <2> QED
    BY <1>1, <1>7, <2>3 DEF dial
<1>8. CASE reconnectTick
  <2>1. PICK e : e = [kind |-> "tick"]
    OBVIOUS
  <2>2. e \in Events /\ Published(e) /\ e.kind = "tick"
    BY <1>8, <2>1, EventTypes DEF reconnectTick, publish, Published
  <2> QED
    BY <1>1, <1>8, <2>2 DEF reconnectTick
<1>9. CASE \/ handleSend \/ handleSubscribe \/ handleUnsubscribe \/ handleDialSuccess
           \/ handleReadIgnored \/ enterBackoff \/ handlerStops \/ handleWorkerFailure
  <2>1. Taken /\ UNCHANGED waitingReconnect
    BY <1>9, EventStep DEF handleSend, handleSubscribe, handleUnsubscribe, handleDialSuccess,
       handleReadIgnored, enterBackoff, handlerStops, beginShutdown, handleWorkerFailure
  <2>2. dialing => dialing' \/ Head(eventCh).kind = "dial"
    BY <1>9, EventStep DEF handleSend, handleSubscribe, handleUnsubscribe, handleDialSuccess,
       handleReadIgnored, enterBackoff, handlerStops, beginShutdown, handleWorkerFailure
  <2> QED
    BY <1>2, <2>1, <2>2
<1>10. CASE handleDialFailure
  <2>1. Taken /\ Head(eventCh).kind = "dial" /\ (waitingReconnect => waitingReconnect')
    BY <1>10, EventStep DEF handleDialFailure, scheduleReconnect
  <2> QED
    BY <1>2, <2>1
<1>11. CASE handleReconnectTick
  <2>1. Taken /\ Head(eventCh).kind = "tick" /\ (dialing => dialing')
    BY <1>11, EventStep DEF handleReconnectTick
  <2> QED
    BY <1>2, <2>1
<1>12. ASSUME NEW g \in Gens, workerWrites(g) PROVE EventInv'
  BY <1>3, <1>12 DEF workerWrites
<1>13. ASSUME NEW g \in Gens,
              \/ readFails(g) \/ handlerFails(g) \/ publishReadEvent(g) \/ pingFails(g)
              \/ workerReports(g) \/ connectionLost(g) \/ workerEnds(g)
       PROVE  EventInv'
  <2>1. UNCHANGED <<dialing, waitingReconnect>>
    BY <1>13, LoopAlone
  <2>2. \/ UNCHANGED eventCh
        \/ \E e \in Events : Published(e) /\ e.kind \in {"read", "failure"}
    <3>1. CASE publishReadEvent(g)
      <4>1. PICK e : e = [kind |-> "read", gen |-> g, outcome |-> conns[g].outcome]
        OBVIOUS
      <4>2. e \in Events /\ publishInternal(e) /\ e.kind = "read"
        BY <3>1, <4>1, ConnEvents DEF publishReadEvent
      <4> QED
        BY <4>2, EventStep
    <3>2. CASE workerReports(g)
      <4>1. PICK e : e = [kind |-> "failure", gen |-> g]
        OBVIOUS
      <4>2. e \in Events /\ publishInternal(e) /\ e.kind = "failure"
        BY <3>2, <4>1, ConnEvents DEF workerReports, publishFailure
      <4> QED
        BY <4>2, EventStep
    <3> QED
      BY <1>13, <3>1, <3>2 DEF readFails, handlerFails, pingFails, connectionLost, workerEnds
  <2> QED
    BY <1>1, <1>3, <2>1, <2>2
<1> QED
  BY <1>4, <1>5, <1>6, <1>7, <1>8, <1>9, <1>10, <1>11, <1>12, <1>13
  DEF Next, LoopStep, WorkerStep, ReaderStep

-----------------------------------------------------------------------------
(* Requests.                                                                *)

\* The requests in the queues, when a queue is left alone.
LEMMA QueuesKept ==
    ASSUME Types, NEW g \in Gens, Changed(g, conns[g].queue)
    PROVE  \A h, i, r \in Nat : InQueue(h, i, r)' <=> InQueue(h, i, r)
<1>1. Gens' = Gens /\ \A h \in Gens : conns'[h].queue = conns[h].queue
  BY DEF Changed, Gens
<1> QED
  BY <1>1 DEF InQueue

\* When an item is put on a queue.
LEMMA QueuesGrow ==
    ASSUME Types, NEW g \in Gens, NEW x \in Items, Changed(g, Append(conns[g].queue, x))
    PROVE  \A h, i, r \in Nat :
             InQueue(h, i, r)' <=>
               \/ InQueue(h, i, r)
               \/ h = g /\ i = Len(conns[g].queue) + 1 /\ x.kind \in Kinds /\ x.r = r
<1>1. Gens' = Gens /\ \A h \in Gens : h # g => conns'[h].queue = conns[h].queue
  BY DEF Changed, Gens
<1>2. PICK q : q = conns[g].queue
  OBVIOUS
<1>3. PICK p : p = Append(q, x)
  OBVIOUS
<1>4. q \in Seq(Items) /\ conns'[g].queue = p
  BY <1>2, <1>3, ConnType DEF Changed
<1>5. /\ DOMAIN q = 1..Len(q) /\ Len(q) \in Nat /\ DOMAIN p = 1..(Len(q) + 1)
      /\ p[Len(q) + 1] = x /\ \A i \in 1..Len(q) : p[i] = q[i]
  BY <1>3, <1>4, QueueGrows
<1> SUFFICES ASSUME NEW h \in Nat, NEW i \in Nat, NEW r \in Nat
             PROVE  InQueue(h, i, r)' <=>
                      \/ InQueue(h, i, r)
                      \/ h = g /\ i = Len(q) + 1 /\ x.kind \in Kinds /\ x.r = r
  BY <1>2
<1>6. CASE h # g
  BY <1>1, <1>6 DEF InQueue
<1>7. CASE h = g
  <2>1. /\ InQueue(h, i, r) <=> i \in DOMAIN q /\ q[i].kind \in Kinds /\ q[i].r = r
        /\ InQueue(h, i, r)' <=> i \in DOMAIN p /\ p[i].kind \in Kinds /\ p[i].r = r
    BY <1>1, <1>2, <1>4, <1>7 DEF InQueue
  <2> QED
    BY <1>5, <1>7, <2>1
<1> QED
  BY <1>6, <1>7

\* When the first item of a queue is taken.
LEMMA QueuesShrink ==
    ASSUME Types, NEW g \in Gens, conns[g].queue # <<>>, Changed(g, Tail(conns[g].queue))
    PROVE  /\ \A h, i, r \in Nat :
                InQueue(h, i, r)' <=> IF h = g THEN i # 0 /\ InQueue(g, i + 1, r)
                                               ELSE InQueue(h, i, r)
           /\ \A r \in Nat : InQueue(g, 1, r) <=>
                Head(conns[g].queue).kind \in Kinds /\ Head(conns[g].queue).r = r
<1>1. Gens' = Gens /\ \A h \in Gens : h # g => conns'[h].queue = conns[h].queue
  BY DEF Changed, Gens
<1>2. PICK q : q = conns[g].queue
  OBVIOUS
<1>3. PICK p : p = Tail(q)
  OBVIOUS
<1>4. q \in Seq(Items) /\ conns'[g].queue = p /\ q # <<>>
  BY <1>2, <1>3, ConnType DEF Changed
<1>5. /\ DOMAIN q = 1..Len(q) /\ Len(q) \in Nat \ {0} /\ DOMAIN p = 1..(Len(q) - 1)
      /\ Head(q) = q[1] /\ \A i \in 1..(Len(q) - 1) : p[i] = q[i + 1]
  BY <1>3, <1>4, QueueShrinks
<1>6. \A i, r : InQueue(g, i, r) <=> i \in DOMAIN q /\ q[i].kind \in Kinds /\ q[i].r = r
  BY <1>2 DEF InQueue
<1>7. ASSUME NEW h \in Nat, NEW i \in Nat, NEW r \in Nat
      PROVE  InQueue(h, i, r)' <=> IF h = g THEN i # 0 /\ InQueue(g, i + 1, r)
                                            ELSE InQueue(h, i, r)
  <2>1. CASE h # g
    BY <1>1, <2>1 DEF InQueue
  <2>2. CASE h = g
    <3>1. InQueue(h, i, r)' <=> i \in DOMAIN p /\ p[i].kind \in Kinds /\ p[i].r = r
      BY <1>1, <1>4, <2>2 DEF InQueue
    <3>2. i \in DOMAIN p <=> i # 0 /\ i + 1 \in DOMAIN q
      BY <1>5
    <3>3. i \in DOMAIN p => p[i] = q[i + 1]
      BY <1>5
    <3>4. InQueue(g, i + 1, r) <=> i + 1 \in DOMAIN q /\ q[i + 1].kind \in Kinds /\ q[i + 1].r = r
      BY <1>6
    <3> QED
      BY <2>2, <3>1, <3>2, <3>3, <3>4
  <2> QED
    BY <2>1, <2>2
<1>8. ASSUME NEW r \in Nat
      PROVE  InQueue(g, 1, r) <=> Head(q).kind \in Kinds /\ Head(q).r = r
  BY <1>5, <1>6
<1> QED
  BY <1>2, <1>7, <1>8

\* Where no request is touched and at most an event other than a call is taken.
LEMMA RequestsKept ==
    ASSUME PlaceInv, AnsweredOnce, Types, Types', UNCHANGED answers,
           \/ UNCHANGED eventCh
           \/ Taken /\ Head(eventCh).kind \notin Kinds
           \/ \E e \in Events : Published(e) /\ e.kind \notin Kinds,
           \A g, i, r \in Nat : InQueue(g, i, r)' <=> InQueue(g, i, r),
           UNCHANGED <<pc, liveTransport>> \/ pc # "sync"
    PROVE  PlaceInv' /\ AnsweredOnce'
<1>1. PICK b : b = [g \in Nat |-> 0]
  OBVIOUS
<1>2. b \in [Nat -> {0, 1}] /\ -1 \in {-1, 0} /\ 0 \in {0, 1} /\ 1 \in {0, 1}
  BY <1>1
<1>3. \A g, i, r \in Nat : InQueue(g, i, r)' <=> InQueue(g, i + b[g], r) /\ r # -1
  BY <1>1
<1>4. CASE Taken /\ Head(eventCh).kind \notin Kinds
  <2>1. \A i, r \in Nat : InCh(i, r)' <=> InCh(i + 1, r)
    <3>1. /\ \A r \in Nat : ~InCh(1, r)
          /\ \A i, r \in Nat : InCh(i, r)' <=> i # 0 /\ InCh(i + 1, r)
      BY <1>4, ChShrinks DEF Types
    <3>2. 0 + 1 = 1
      OBVIOUS
    <3> QED
      BY <3>1, <3>2
  <2> QED
    BY <1>2, <1>3, <2>1, PlacesShift
<1>5. CASE UNCHANGED eventCh \/ \E e \in Events : Published(e) /\ e.kind \notin Kinds
  <2>1. \A i, r \in Nat : InCh(i, r)' <=> InCh(i, r)
    <3>1. CASE UNCHANGED eventCh
      BY <3>1 DEF InCh
    <3>2. CASE \E e \in Events : Published(e) /\ e.kind \notin Kinds
      BY <3>2, ChGrows DEF Types
    <3> QED
      BY <1>5, <3>1, <3>2
  <2>2. \A i, r \in Nat : InCh(i, r)' <=> InCh(i + 0, r)
    BY <2>1
  <2> QED
    BY <1>2, <1>3, <2>2, PlacesShift
<1> QED
  BY <1>4, <1>5

\* Every request keeps one place until it is answered, and is answered once.
LEMMA PlaceNext ==
    ASSUME Types, Types', DriverInv, EventInv, PlaceInv, AnsweredOnce, Next
    PROVE  PlaceInv' /\ AnsweredOnce'
<1> USE DEF loopVars
<1>0. /\ \A g \in Gens : g \in Nat
      /\ 1 \in Nat /\ 0 \notin Requests /\ eventCh \in Seq(Events)
  BY DEF Gens, Requests, Types
<1>1. ASSUME UNCHANGED conns PROVE \A g, i, r \in Nat : InQueue(g, i, r)' <=> InQueue(g, i, r)
  BY <1>1 DEF InQueue, Gens
<1>2. CASE Run \/ Stop \/ activated \/ shutdownEnds
  BY <1>1, <1>2, RequestsKept DEF Run, Stop, activated, shutdownEnds
<1>3. ASSUME NEW kind \in Kinds, NEW k \in Keys, Call(kind, k) PROVE PlaceInv' /\ AnsweredOnce'
  <2>1. PICK e : e = [kind |-> kind, key |-> k, r |-> Len(answers')]
    OBVIOUS
  <2>2. answers' = Append(answers, 0) /\ Len(answers') = Len(answers) + 1 /\ Len(answers') \in Nat
    BY <1>3 DEF Call, Types
  <2>3. e \in Events /\ e.kind \in Kinds /\ e.r = Len(answers) + 1
    BY <2>1, <2>2, EventTypes
  <2>4. Published(e) /\ UNCHANGED <<conns, pc, liveTransport>>
    BY <1>3, <2>1 DEF Call, publishPublic, publish, Published
  <2>5. \A i, r \in Nat :
          InCh(i, r)' <=> InCh(i, r) \/ (i = Len(eventCh) + 1 /\ r = Len(answers) + 1)
    BY <1>0, <2>3, <2>4, ChGrows
  <2>6. Len(eventCh) + 1 \in Nat
    BY <1>0
  <2> QED
    BY <1>1, <2>2, <2>4, <2>5, <2>6, RequestPublished
<1>4. CASE dial
  <2>0. PICK ok \in {FALSE, Len(conns) < MaxConns} : publish([kind |-> "dial", ok |-> ok])
    BY <1>4 DEF dial
  <2>1. ok \in BOOLEAN
    <3>1. (Len(conns) < MaxConns) \in BOOLEAN
      OBVIOUS
    <3> QED
      BY <3>1
  <2>2. PICK e : e = [kind |-> "dial", ok |-> ok]
    OBVIOUS
  <2>3. e \in Events /\ Published(e) /\ e.kind \notin Kinds
    BY <2>0, <2>1, <2>2, EventTypes DEF publish, Published, Kinds
  <2> QED
    BY <1>1, <1>4, <2>3, RequestsKept DEF dial
<1>5. CASE reconnectTick
  <2>1. PICK e : e = [kind |-> "tick"]
    OBVIOUS
  <2>2. e \in Events /\ Published(e) /\ e.kind \notin Kinds
    BY <1>5, <2>1, EventTypes DEF reconnectTick, publish, Published, Kinds
  <2> QED
    BY <1>1, <1>5, <2>2, RequestsKept DEF reconnectTick
<1>6. CASE handleSend \/ handleSubscribe \/ handleUnsubscribe
  <2>1. PICK kind \in Kinds : takes(kind)
    BY <1>6 DEF handleSend, handleSubscribe, handleUnsubscribe, Kinds
  <2>2. PICK e : e = Head(eventCh)
    OBVIOUS
  <2>3. Taken /\ e \in Calls /\ e.r \in Requests /\ e.r \in Nat /\ InCh(1, e.r) /\ e.kind \in Kinds
    BY <2>1, <2>2, CallTaken
  <2>4. UNCHANGED <<pc, liveTransport>> /\ (Handed(e) \/ Told(e))
    BY <1>6, <2>1, <2>2, CallHandled
  <2>5. \A i, r \in Nat : InCh(i, r)' <=> i # 0 /\ InCh(i + 1, r)
    BY <1>0, <2>3, ChShrinks
  <2>6. CASE Handed(e)
    <3>1. e \in Items /\ liveTransport \in Gens
      BY <2>3, <2>6, EventTypes DEF Handed
    <3>2. Changed(liveTransport, Append(conns[liveTransport].queue, e)) /\ UNCHANGED answers
      BY <2>6 DEF Handed
    <3>3. PICK n : n = Len(conns[liveTransport].queue) + 1
      OBVIOUS
    <3>4. n \in Nat
      BY <3>1, <3>3, ConnType
    <3>5. \A g, i, r \in Nat :
            InQueue(g, i, r)' <=> InQueue(g, i, r) \/ (g = liveTransport /\ i = n /\ r = e.r)
      BY <2>3, <3>1, <3>2, <3>3, QueuesGrow
    <3>6. PICK g0 : g0 = liveTransport
      OBVIOUS
    <3>7. PICK r0 : r0 = e.r
      OBVIOUS
    <3>8. \A g, i, r \in Nat :
            InQueue(g, i, r)' <=> InQueue(g, i, r) \/ (g = g0 /\ i = n /\ r = r0)
      BY <3>5, <3>6, <3>7
    <3>9. g0 \in Nat /\ r0 \in Requests /\ InCh(1, r0)
      BY <1>0, <2>3, <3>1, <3>6, <3>7
    <3>10. MovesTo(r0, g0, n)
      BY <2>5, <3>8, <3>9 DEF MovesTo
    <3> QED
      BY <2>4, <3>2, <3>4, <3>9, <3>10, RequestMoves
  <2>7. CASE Told(e)
    <3>1. PICK b : b = [g \in Nat |-> 0]
      OBVIOUS
    <3>2. b \in [Nat -> {0, 1}] /\ 1 \in {0, 1}
      BY <3>1
    <3>3. \A g, i, r \in Nat : InQueue(g, i, r)' <=> InQueue(g, i + b[g], r) /\ r # e.r
      <4>1. \A g, i \in Nat : ~InQueue(g, i, e.r)
        BY <1>0, <2>3 DEF PlaceInv
      <4> QED
        BY <1>1, <2>7, <3>1, <4>1 DEF Told
    <3>4. \A i, r \in Nat : InCh(i, r)' <=> InCh(i + 1, r) /\ r # e.r
      <4>1. \A i \in Nat : InCh(i + 1, e.r) => i = 0
        <5> SUFFICES ASSUME NEW i \in Nat, InCh(i + 1, e.r) PROVE i = 0
          OBVIOUS
        <5>1. i + 1 = 1
          BY <2>3, 1 \in Nat, i + 1 \in Nat DEF PlaceInv
        <5> QED
          BY <5>1
      <4>2. \A r \in Nat : InCh(1, r) => r = e.r
        BY <2>2, <2>3, <1>0, ChShrinks
      <4>3. 0 + 1 = 1
        OBVIOUS
      <4> QED
        BY <2>5, <4>1, <4>2, <4>3
    <3>5. Waits(e.r)
      BY <1>0, <2>3, WaitsPlaces
    <3> QED
      BY <2>3, <2>4, <2>7, <3>2, <3>3, <3>4, <3>5, RequestAnswered DEF Told
  <2> QED
    BY <2>4, <2>6, <2>7
<1>7. CASE \/ handleDialFailure \/ handleReconnectTick \/ handleReadIgnored \/ handleWorkerFailure
  <2>1. Taken /\ Head(eventCh).kind \in {"dial", "tick", "read", "failure"}
    BY <1>7, EventStep DEF handleDialFailure, handleReconnectTick, handleReadIgnored,
       handleWorkerFailure
  <2>2. Head(eventCh).kind \notin Kinds
    BY <2>1 DEF Kinds
  <2>3. UNCHANGED <<conns, answers, pc, liveTransport>>
    BY <1>7 DEF handleDialFailure, handleReconnectTick, handleReadIgnored, handleWorkerFailure
  <2> QED
    BY <1>1, <2>1, <2>2, <2>3, RequestsKept
<1>8. CASE handleDialSuccess
  <2>1. Taken /\ Head(eventCh).kind \notin Kinds /\ pc = "select" /\ UNCHANGED answers
    BY <1>8, EventStep DEF handleDialSuccess, Kinds
  <2>2. ASSUME NEW g \in Nat, NEW i \in Nat, NEW r \in Nat
        PROVE  InQueue(g, i, r)' <=> InQueue(g, i, r)
    <3>1. /\ Gens' = Gens \union {Len(conns) + 1} /\ Len(conns) + 1 \notin Gens
          /\ \A h \in Gens : conns'[h] = conns[h]
          /\ conns'[Len(conns) + 1] = NewConn
      BY <1>8 DEF handleDialSuccess, Gens, Types
    <3>2. DOMAIN NewConn.queue = {}
      BY DEF NewConn
    <3> QED
      BY <3>1, <3>2 DEF InQueue
  <2> QED
    BY <2>1, <2>2, RequestsKept
<1>9. CASE activate
  <2>1. pc = "replay" /\ UNCHANGED <<eventCh, answers, liveTransport>>
    BY <1>9 DEF activate
  <2>2. liveTransport \in Gens
    BY <2>1 DEF DriverInv, LoopInv, Types, Gens
  <2>3. PICK k \in todo :
          \/ /\ TryEnqueue(liveTransport, [kind |-> "subscribe", key |-> k, r |-> 0])
             /\ pc' = "sync"
          \/ UNCHANGED conns
    BY <1>9 DEF activate
  <2>4. PICK x : x = [kind |-> "subscribe", key |-> k, r |-> 0]
    OBVIOUS
  <2>5. x \in Items /\ x.kind \in Kinds /\ x.r = 0
    <3>1. k \in Keys /\ "subscribe" \in Kinds /\ 0 \in Nat
      BY DEF Types, Kinds
    <3> QED
      BY <2>4, <3>1, EventTypes
  <2>6. CASE TryEnqueue(liveTransport, x) /\ pc' = "sync"
    <3>1. Changed(liveTransport, Append(conns[liveTransport].queue, x))
      BY <2>2, <2>5, <2>6, ItemQueued
    <3>2. PICK n : n = Len(conns[liveTransport].queue) + 1
      OBVIOUS
    <3>3. n \in Nat
      BY <2>2, <3>2, ConnType
    <3>4. \A g, i, r \in Nat :
            InQueue(g, i, r)' <=> InQueue(g, i, r) \/ (g = liveTransport /\ i = n /\ r = 0)
      BY <2>2, <2>5, <3>1, <3>2, QueuesGrow
    <3>5. \A i, r \in Nat : InCh(i, r)' <=> InCh(i, r)
      BY <2>1 DEF InCh
    <3> QED
      BY <2>1, <2>6, <3>3, <3>4, <3>5, IntentReplayed
  <2>7. CASE UNCHANGED conns
    BY <1>1, <2>1, <2>7, RequestsKept
  <2> QED
    BY <2>3, <2>4, <2>6, <2>7
<1>10. CASE activateFails \/ enterBackoff
  <2>1. /\ liveTransport # 0 /\ releaseLiveTransport /\ pc \in {"failed", "select"}
        /\ UNCHANGED answers
    BY <1>10 DEF activateFails, enterBackoff, FromLive, takes, DriverInv, LoopInv
  <2>2. UNCHANGED eventCh \/ (Taken /\ Head(eventCh).kind \notin Kinds)
    BY <1>10, EventStep DEF activateFails, enterBackoff, Kinds
  <2>3. \A g, i, r \in Nat : InQueue(g, i, r)' <=> InQueue(g, i, r)
    BY <2>1, Released, QueuesKept
  <2> QED
    BY <2>1, <2>2, <2>3, RequestsKept
<1>11. CASE Dispose
  <2>1. /\ disposing \in Gens /\ pc \in {"dispose", "shutdown"} /\ UNCHANGED <<eventCh, answers>>
        /\ TryEnqueue(disposing, [kind |-> "dispose"])
    BY <1>11 DEF Dispose, Types, Gens
  <2>2. PICK x : x = [kind |-> "dispose"]
    OBVIOUS
  <2>3. x \in Items /\ x.kind \notin Kinds
    BY <2>2, EventTypes DEF Kinds
  <2>4. Changed(disposing, Append(conns[disposing].queue, x))
    BY <2>1, <2>2, <2>3, ItemQueued
  <2>5. \A g, i, r \in Nat : InQueue(g, i, r)' <=> InQueue(g, i, r)
    BY <2>1, <2>3, <2>4, QueuesGrow
  <2> QED
    BY <2>1, <2>5, RequestsKept
<1>12. CASE handlerStops \/ shutdown
  <2>1. beginShutdown /\ pc = "select" /\ UNCHANGED answers
    BY <1>12 DEF handlerStops, shutdown, takes, beginShutdown
  <2>2. UNCHANGED eventCh \/ (Taken /\ Head(eventCh).kind \notin Kinds)
    BY <1>12, EventStep DEF handlerStops, shutdown, Kinds
  <2>3. \A g, i, r \in Nat : InQueue(g, i, r)' <=> InQueue(g, i, r)
    <3>1. CASE liveTransport = 0
      BY <1>1, <2>1, <3>1 DEF beginShutdown
    <3>2. CASE liveTransport # 0
      BY <2>1, <3>2, Released, QueuesKept
    <3> QED
      BY <3>1, <3>2
  <2> QED
    BY <2>1, <2>2, <2>3, RequestsKept
<1>13. ASSUME NEW g \in Gens, workerWrites(g) \/ workerEnds(g) PROVE PlaceInv' /\ AnsweredOnce'
  <2>1. conns[g].queue # <<>> /\ Changed(g, Tail(conns[g].queue)) /\ UNCHANGED <<eventCh, liveTransport>>
    BY <1>13, ItemTaken DEF workerWrites, workerEnds
  <2>2. PICK x : x = Head(conns[g].queue)
    OBVIOUS
  <2>3. /\ \A h, i, r \in Nat :
             InQueue(h, i, r)' <=> IF h = g THEN i # 0 /\ InQueue(g, i + 1, r) ELSE InQueue(h, i, r)
        /\ \A r \in Nat : InQueue(g, 1, r) <=> x.kind \in Kinds /\ x.r = r
    BY <2>1, <2>2, QueuesShrink
  <2>4. PICK b : b = [h \in Nat |-> IF h = g THEN 1 ELSE 0]
    OBVIOUS
  <2>5. b \in [Nat -> {0, 1}] /\ 0 \in {0, 1} /\ -1 \in {-1, 0} /\ 0 \in {-1, 0} /\ 0 + 1 = 1
    BY <2>4
  <2>6. ASSUME NEW h \in Nat, NEW i \in Nat PROVE i + b[h] = IF h = g THEN i + 1 ELSE i
    BY <2>4
  <2>7. \A i, r \in Nat : InCh(i, r)' <=> InCh(i + 0, r)
    BY <2>1 DEF InCh
  <2>8. CASE workerEnds(g)
    <3>1. x.kind \notin Kinds /\ UNCHANGED <<pc, answers>>
      BY <2>2, <2>8 DEF workerEnds, Kinds
    <3>2. \A h, i, r \in Nat : InQueue(h, i, r)' <=> InQueue(h, i + b[h], r) /\ r # -1
      <4>1. ASSUME NEW h \in Nat, NEW i \in Nat, NEW r \in Nat
            PROVE  InQueue(h, i, r)' <=> InQueue(h, i + b[h], r)
        <5>1. ~InQueue(g, 1, r)
          BY <2>3, <3>1
        <5>2. i = 0 => i + 1 = 1
          OBVIOUS
        <5> QED
          BY <2>3, <2>6, <5>1, <5>2
      <4> QED
        BY <4>1
    <3> QED
      BY <2>1, <2>5, <2>7, <3>1, <3>2, PlacesShift
  <2>9. CASE workerWrites(g)
    <3>1. /\ x.kind # "dispose" /\ x.r \in Nat /\ InQueue(g, 1, x.r) /\ x \in Calls
          /\ x.r \in Requests \/ x.r = 0
      BY <2>1, <2>2, <2>9, ItemInQueue DEF workerWrites
    <3>2. \A h, i, r \in Nat : InQueue(h, i, r)' <=> InQueue(h, i + b[h], r) /\ r # x.r
      <4>1. \A h, i \in Nat : InQueue(h, i, x.r) => h = g /\ i = 1
        BY <1>0, <3>1 DEF PlaceInv
      <4>2. \A r \in Nat : InQueue(g, 1, r) => r = x.r
        BY <2>3
      <4>3. ASSUME NEW h \in Nat, NEW i \in Nat, NEW r \in Nat
            PROVE  InQueue(h, i, r)' <=> InQueue(h, i + b[h], r) /\ r # x.r
        <5>1. CASE h = g
          <6>1. i + b[h] = i + 1 /\ i + 1 \in Nat
            BY <2>6, <5>1
          <6>2. InQueue(g, i + 1, x.r) => i = 0
            <7>1. InQueue(g, i + 1, x.r) => i + 1 = 1
              BY <1>0, <4>1, <6>1
            <7> QED
              BY <7>1
          <6>3. i = 0 => (InQueue(g, i + 1, r) => r = x.r)
            BY <4>2, <2>5
          <6> QED
            BY <2>3, <5>1, <6>1, <6>2, <6>3
        <5>2. CASE h # g
          <6>1. i + b[h] = i
            BY <2>6, <5>2
          <6>2. ~InQueue(h, i, x.r)
            BY <4>1, <5>2
          <6> QED
            BY <2>3, <5>2, <6>1, <6>2
        <5> QED
          BY <5>1, <5>2
      <4> QED
        BY <4>3
    <3>3. PICK ok \in BOOLEAN : handleRequest(g, x, ok)
      BY <2>2, <2>9 DEF workerWrites
    <3>4. CASE x.r = 0
      <4>1. UNCHANGED answers
        BY <3>3, <3>4 DEF handleRequest
      <4> QED
        BY <2>5, <2>7, <3>2, <3>4, <4>1, PlacesShift
    <3>5. CASE x.r # 0
      <4>1. x.r \in Requests /\ resolve(x.r) /\ UNCHANGED pc
        BY <3>1, <3>3, <3>5 DEF handleRequest
      <4>2. \A i, r \in Nat : InCh(i, r)' <=> InCh(i + 0, r) /\ r # x.r
        BY <1>0, <2>7, <3>1 DEF PlaceInv
      <4>3. Waits(x.r)
        BY <1>0, <3>1, WaitsPlaces
      <4> QED
        BY <2>1, <2>5, <3>2, <4>1, <4>2, <4>3, RequestAnswered
    <3> QED
      BY <3>4, <3>5
  <2> QED
    BY <1>13, <2>8, <2>9
<1>14. ASSUME NEW g \in Gens,
              \/ readFails(g) \/ handlerFails(g) \/ publishReadEvent(g) \/ pingFails(g)
              \/ workerReports(g) \/ connectionLost(g)
       PROVE  PlaceInv' /\ AnsweredOnce'
  <2>1. UNCHANGED <<pc, liveTransport, answers>>
    BY <1>14, LoopAlone
  <2>2. \/ UNCHANGED eventCh
        \/ \E e \in Events : Published(e) /\ e.kind \notin Kinds
    <3>1. CASE publishReadEvent(g)
      <4>1. PICK e : e = [kind |-> "read", gen |-> g, outcome |-> conns[g].outcome]
        OBVIOUS
      <4>2. e \in Events /\ publishInternal(e) /\ e.kind \notin Kinds
        BY <3>1, <4>1, ConnEvents DEF publishReadEvent, Kinds
      <4> QED
        BY <4>2, EventStep
    <3>2. CASE workerReports(g)
      <4>1. PICK e : e = [kind |-> "failure", gen |-> g]
        OBVIOUS
      <4>2. e \in Events /\ publishInternal(e) /\ e.kind \notin Kinds
        BY <3>2, <4>1, ConnEvents DEF workerReports, publishFailure, Kinds
      <4> QED
        BY <4>2, EventStep
    <3> QED
      BY <1>14, <3>1, <3>2 DEF readFails, handlerFails, pingFails, connectionLost
  <2>3. \A h, i, r \in Nat : InQueue(h, i, r)' <=> InQueue(h, i, r)
    BY <1>14, QueueKept, QueuesKept
  <2> QED
    BY <2>1, <2>2, <2>3, RequestsKept
<1> QED
  BY <1>2, <1>3, <1>4, <1>5, <1>6, <1>7, <1>8, <1>9, <1>10, <1>11, <1>12, <1>13, <1>14
  DEF Next, LoopStep, WorkerStep, ReaderStep

-----------------------------------------------------------------------------
(* What the server will send, step by step.                                 *)

\* The connection the invariant speaks of: one that is live, in use and not broken.
Serving == pc \in {"select", "replay", "sync"} /\ liveTransport # 0 /\ ~conns[liveTransport].broken

\* Nothing that decides about the subscriptions changes.
LEMMA ServerKept ==
    ASSUME ServerInv, UNCHANGED <<todo, entries, server, odd>>,
           Serving' => /\ Serving /\ UNCHANGED liveTransport
                       /\ conns'[liveTransport].queue = conns[liveTransport].queue
    PROVE  ServerInv'
BY DEF ServerInv, Serving

\* A change of one connection that leaves its queue alone.
LEMMA ServerConnKept ==
    ASSUME Types, ServerInv, NEW g \in Gens, Changed(g, conns[g].queue),
           UNCHANGED <<todo, entries, server, odd, pc, liveTransport>>
    PROVE  ServerInv'
<1>1. ASSUME Serving' PROVE Serving /\ conns'[liveTransport].queue = conns[liveTransport].queue
  <2>1. liveTransport \in Gens
    BY <1>1 DEF Serving, Types, Gens
  <2> QED
    BY <1>1, <2>1 DEF Serving, Changed
<1> QED
  BY <1>1, ServerKept

\* A call: the write decides its key, or the key is excepted.
LEMMA ServerCall ==
    ASSUME Types, LoopInv, PlaceInv, ServerInv, NEW kind \in Kinds, takes(kind),
           handleSend \/ handleSubscribe \/ handleUnsubscribe
    PROVE  ServerInv'
<1>1. PICK e : e = Head(eventCh)
  OBVIOUS
<1>2. pc = "select" /\ e \in Calls /\ e.kind = kind
  BY <1>1, CallTaken
<1>3. e.key \in Keys /\ e \in Items
  BY <1>2, EventTypes DEF Calls
<1>4. todo = {} /\ UNCHANGED <<pc, todo, liveTransport, server>>
  BY <1>2, CallHandled DEF LoopInv
<1>5. \/ /\ Told(e)
         /\ \A k \in Keys \ odd' : k \notin odd /\ (k \in entries' <=> k \in entries)
      \/ /\ Handed(e)
         /\ \A k \in Keys \ odd' : IF Regards(e, k) THEN k \in entries' <=> e.kind = "subscribe"
                                  ELSE k \notin odd /\ (k \in entries' <=> k \in entries)
  <2>1. \/ e.kind = "send" /\ UNCHANGED <<entries, odd>> /\ (Handed(e) \/ Told(e))
        \/ UNCHANGED <<entries, odd>> /\ Told(e)
        \/ /\ e.kind = "subscribe" /\ entries' = entries \union {e.key}
           /\ \/ Handed(e) /\ odd' = odd \ {e.key}
              \/ Told(e) /\ odd' = odd \union {e.key}
        \/ /\ e.kind = "unsubscribe" /\ entries' = entries \ {e.key}
           /\ \/ Handed(e) /\ odd' = odd \ {e.key}
              \/ Told(e) /\ odd' = odd \union {e.key}
    BY <1>1, <1>2, CallHandled
  <2> QED
    BY <2>1 DEF Regards
<1> SUFFICES ASSUME Serving', NEW k \in Keys \ odd'
             PROVE  Final(conns'[liveTransport'].queue, server', k) \/ k \in todo' <=> k \in entries'
  BY DEF ServerInv, Serving
<1>6. CASE /\ Told(e)
           /\ \A l \in Keys \ odd' : l \notin odd /\ (l \in entries' <=> l \in entries)
  <2>1. Serving /\ conns'[liveTransport'].queue = conns[liveTransport].queue
    BY <1>4, <1>6 DEF Told, Serving
  <2>2. k \in Keys \ odd /\ (k \in entries' <=> k \in entries)
    BY <1>6
  <2>3. Final(conns[liveTransport].queue, server, k) \/ k \in todo <=> k \in entries
    BY <2>1, <2>2 DEF ServerInv, Serving
  <2> QED
    BY <1>4, <2>1, <2>2, <2>3
<1>7. CASE /\ Handed(e)
           /\ \A l \in Keys \ odd' : IF Regards(e, l) THEN l \in entries' <=> e.kind = "subscribe"
                                    ELSE l \notin odd /\ (l \in entries' <=> l \in entries)
  <2>2. /\ liveTransport \in Gens /\ conns'[liveTransport].queue = Append(conns[liveTransport].queue, e)
        /\ conns'[liveTransport].broken = conns[liveTransport].broken
    BY <1>7 DEF Handed, Changed
  <2>3. Serving
    BY <1>4, <2>2 DEF Serving
  <2>4. PICK q : q = conns[liveTransport].queue
    OBVIOUS
  <2>5. q \in Seq(Items)
    BY <2>2, <2>4, ConnType
  <2>6. Final(Append(q, e), server, k) <=>
          IF Regards(e, k) THEN e.kind = "subscribe" ELSE Final(q, server, k)
    BY <1>3, <2>5, FinalAppend
  <2>7. k \notin odd => (Final(q, server, k) <=> k \in entries)
    BY <1>4, <2>3, <2>4 DEF ServerInv, Serving
  <2>8. conns'[liveTransport'].queue = Append(q, e)
    BY <1>4, <2>2, <2>4
  <2>9. Final(Append(q, e), server, k) <=> k \in entries'
    BY <1>7, <2>6, <2>7
  <2> QED
    BY <1>4, <2>8, <2>9
<1> QED
  BY <1>5, <1>6, <1>7

\* A replayed intent leaves todo for the queue.
LEMMA ServerReplay ==
    ASSUME Types, LoopInv, ServerInv, activate
    PROVE  ServerInv'
<1>1. PICK k0 \in todo :
          /\ todo' = todo \ {k0}
          /\ \/ /\ TryEnqueue(liveTransport, [kind |-> "subscribe", key |-> k0, r |-> 0])
                /\ pc' = "sync"
             \/ pc' = "failed"
  BY DEF activate
<1>2. liveTransport \in Gens /\ pc = "replay" /\ UNCHANGED <<liveTransport, entries, server, odd>>
  BY DEF activate, LoopInv, Types, Gens
<1>3. PICK x : x = [kind |-> "subscribe", key |-> k0, r |-> 0]
  OBVIOUS
<1>4. x \in Items /\ x.kind = "subscribe" /\ x.key = k0
  <2>1. k0 \in Keys /\ "subscribe" \in Kinds /\ 0 \in Nat
    BY DEF Types, Kinds
  <2> QED
    BY <1>3, <2>1, EventTypes
<1> SUFFICES ASSUME Serving', NEW k \in Keys \ odd
             PROVE  Final(conns'[liveTransport].queue, server, k) \/ k \in todo' <=> k \in entries
  BY <1>2 DEF ServerInv, Serving
<1>5. TryEnqueue(liveTransport, x)
  BY <1>1, <1>3 DEF Serving
<1>6. /\ conns'[liveTransport].queue = Append(conns[liveTransport].queue, x)
      /\ conns'[liveTransport].broken = conns[liveTransport].broken
  BY <1>2, <1>4, <1>5, ItemQueued DEF Changed
<1>7. PICK q : q = conns[liveTransport].queue
  OBVIOUS
<1>8. q \in Seq(Items)
  BY <1>2, <1>7, ConnType
<1>9. Final(Append(q, x), server, k) <=>
        IF Regards(x, k) THEN x.kind = "subscribe" ELSE Final(q, server, k)
  BY <1>4, <1>8, FinalAppend
<1>10. Final(q, server, k) \/ k \in todo <=> k \in entries
  BY <1>2, <1>6, <1>7 DEF ServerInv, Serving
<1>11. Final(Append(q, x), server, k) \/ k \in todo' <=> k \in entries
  BY <1>1, <1>4, <1>9, <1>10 DEF Regards
<1> QED
  BY <1>6, <1>7, <1>11

\* A write reaches the server and leaves the queue, or the connection is broken; only
\* the live connection is open to writes.
LEMMA ServerWrite ==
    ASSUME Types, OnlyLiveOpen, PlaceInv, ServerInv, NEW g \in Gens, workerWrites(g)
    PROVE  ServerInv'
<1>1. PICK x : x = Head(conns[g].queue)
  OBVIOUS
<1>2. PICK ok \in BOOLEAN :
         /\ IF conns[g].up /\ ~conns[g].broken THEN ok \/ Faulty(g) ELSE ~ok
         /\ handleRequest(g, x, ok)
         /\ server' = IF ~ok THEN server
                      ELSE IF x.kind = "subscribe" THEN server \union {x.key}
                      ELSE IF x.kind = "unsubscribe" THEN server \ {x.key}
                      ELSE server
         /\ conns' = [conns EXCEPT ![g].queue = Tail(@), ![g].broken = @ \/ ~ok,
                                   ![g].worker = IF ok THEN "idle" ELSE "publish"]
  BY <1>1 DEF workerWrites
<1>3. /\ Changed(g, Tail(conns[g].queue)) /\ conns[g].queue # <<>>
      /\ UNCHANGED <<todo, entries, liveTransport, odd>>
  BY ItemTaken DEF workerWrites
<1>4. InQueue(g, 1, x.r) /\ x.r \in Nat /\ g \in Nat /\ 1 \in Nat
  BY <1>1, ItemInQueue, ConnType DEF workerWrites
<1>5. x.r = 0 => pc = "sync" /\ g = liveTransport
  BY <1>4 DEF PlaceInv
<1>6. pc' = pc \/ pc = "sync"
  BY <1>2, <1>5 DEF handleRequest
<1>7. CASE g # liveTransport
  <2>1. ~ok /\ server' = server
    BY <1>2, <1>7 DEF OnlyLiveOpen
  <2>2. ASSUME Serving'
        PROVE  Serving /\ conns'[liveTransport].queue = conns[liveTransport].queue
    <3>1. liveTransport \in Gens
      BY <1>3, <2>2 DEF Serving, Types, Gens
    <3> QED
      BY <1>3, <1>6, <1>7, <2>2, <3>1 DEF Serving, Changed
  <2> QED
    BY <1>3, <2>1, <2>2, ServerKept
<1>8. CASE g = liveTransport
  <2> SUFFICES ASSUME Serving', NEW k \in Keys \ odd
               PROVE  Final(conns'[g].queue, server', k) \/ k \in todo <=> k \in entries
    BY <1>3, <1>8 DEF ServerInv, Serving
  <2>1. PICK q : q = conns[g].queue
    OBVIOUS
  <2>2. q \in Seq(Items) /\ q # <<>> /\ conns'[g].queue = Tail(q) /\ x = Head(q)
    BY <1>1, <1>3, <2>1, ConnType DEF Changed
  <2>3. ok
    <3>1. ~ok => conns'[g].broken
      <4>1. conns \in Seq(Conns) /\ conns[g] \in Conns
        BY ConnType DEF Types
      <4>2. PICK b : b = (conns[g].broken \/ ~ok)
        OBVIOUS
      <4>3. PICK w : w = IF ok THEN "idle" ELSE "publish"
        OBVIOUS
      <4>4. PICK c : c = [conns[g] EXCEPT !.queue = Tail(conns[g].queue), !.broken = b, !.worker = w]
        OBVIOUS
      <4>5. c.broken = b
        BY <4>1, <4>4 DEF Conns
      <4>6. conns' = [conns EXCEPT ![g] = c]
        BY <1>2, <4>1, <4>2, <4>3, <4>4 DEF Gens
      <4>7. conns'[g] = c
        BY <4>1, <4>6 DEF Gens
      <4> QED
        BY <4>2, <4>5, <4>7
    <3> QED
      BY <1>3, <1>8, <3>1 DEF Serving
  <2>4. /\ Regards(x, k) => (k \in server' <=> x.kind = "subscribe")
        /\ ~Regards(x, k) => (k \in server' <=> k \in server)
    BY <1>2, <2>3 DEF Regards
  <2>5. Final(Tail(q), server', k) <=> Final(q, server, k)
    BY <2>2, <2>4, FinalTail
  <2>6. Serving
    BY <1>3, <1>6, <1>8 DEF Serving, Changed
  <2>7. Final(q, server, k) \/ k \in todo <=> k \in entries
    BY <1>8, <2>1, <2>6 DEF ServerInv, Serving
  <2> QED
    BY <2>2, <2>5, <2>7
<1> QED
  BY <1>7, <1>8

\* The dispose event leaves a queue, and decides nothing.
LEMMA ServerWorkerEnds ==
    ASSUME Types, ServerInv, NEW g \in Gens, workerEnds(g)
    PROVE  ServerInv'
<1>1. PICK x : x = Head(conns[g].queue)
  OBVIOUS
<1>2. /\ Changed(g, Tail(conns[g].queue)) /\ conns[g].queue # <<>>
      /\ UNCHANGED <<todo, entries, liveTransport, odd, server, pc>>
  BY ItemTaken DEF workerEnds, loopVars
<1>3. x.kind = "dispose"
  BY <1>1 DEF workerEnds
<1>4. CASE g # liveTransport
  <2>1. ASSUME Serving'
        PROVE  Serving /\ conns'[liveTransport].queue = conns[liveTransport].queue
    <3>1. liveTransport \in Gens
      BY <1>2, <2>1 DEF Serving, Types, Gens
    <3> QED
      BY <1>2, <1>4, <2>1, <3>1 DEF Serving, Changed
  <2> QED
    BY <1>2, <2>1, ServerKept
<1>5. CASE g = liveTransport
  <2> SUFFICES ASSUME Serving', NEW k \in Keys \ odd
               PROVE  Final(conns'[g].queue, server, k) \/ k \in todo <=> k \in entries
    BY <1>2, <1>5 DEF ServerInv, Serving
  <2>1. PICK q : q = conns[g].queue
    OBVIOUS
  <2>2. q \in Seq(Items) /\ q # <<>> /\ conns'[g].queue = Tail(q) /\ x = Head(q)
    BY <1>1, <1>2, <2>1, ConnType DEF Changed
  <2>3. ~Regards(x, k)
    BY <1>3 DEF Regards
  <2>4. Final(Tail(q), server, k) <=> Final(q, server, k)
    BY <2>2, <2>3, FinalTail
  <2>5. Serving
    BY <1>2, <1>5 DEF Serving, Changed
  <2>6. Final(q, server, k) \/ k \in todo <=> k \in entries
    BY <1>5, <2>1, <2>5 DEF ServerInv, Serving
  <2> QED
    BY <2>2, <2>4, <2>6
<1> QED
  BY <1>4, <1>5

\* What is kept is what the server will send, after every step.
LEMMA ServerNext ==
    ASSUME Types, Types', DriverInv, EventInv, PlaceInv, ServerInv, Next
    PROVE  ServerInv'
<1> USE DEF loopVars
<1>0. LoopInv /\ OnlyLiveOpen
  BY DEF DriverInv
<1>1. ASSUME ~Serving' PROVE ServerInv'
  BY <1>1 DEF ServerInv, Serving
<1>2. ASSUME UNCHANGED <<todo, entries, server, odd, conns, liveTransport>>,
             pc' = pc \/ pc' \in {"failed", "ended"} \/ pc = "replay"
      PROVE  ServerInv'
  <2>1. Serving' => Serving
    BY <1>2 DEF Serving
  <2> QED
    BY <1>2, <2>1, ServerKept
<1>3. CASE Run
  <2>1. liveTransport' = 0
    BY <1>0, <1>3 DEF Run, LoopInv
  <2> QED
    BY <1>1, <2>1 DEF Serving
<1>4. CASE \/ Stop \/ dial \/ reconnectTick \/ handleDialFailure \/ handleReconnectTick
           \/ activated \/ handleReadIgnored \/ handleWorkerFailure \/ shutdownEnds
  BY <1>2, <1>4 DEF Stop, dial, reconnectTick, handleDialFailure, handleReconnectTick, activated,
     handleReadIgnored, handleWorkerFailure, shutdownEnds
<1>5. ASSUME NEW kind \in Kinds, NEW k \in Keys, Call(kind, k) PROVE ServerInv'
  BY <1>2, <1>5 DEF Call
<1>6. CASE handleSend \/ handleSubscribe \/ handleUnsubscribe
  <2>1. PICK kind \in Kinds : takes(kind)
    BY <1>6 DEF handleSend, handleSubscribe, handleUnsubscribe, Kinds
  <2> QED
    BY <1>0, <1>6, <2>1, ServerCall
<1>7. CASE handleDialSuccess
  <2>1. conns'[liveTransport'].queue = <<>>
    BY <1>7 DEF handleDialSuccess, Types, NewConn
  <2>2. server' = {} /\ todo' = entries /\ entries' = entries
    BY <1>7 DEF handleDialSuccess, snapshot
  <2>3. \A k : ~Final(<<>>, {}, k)
    BY DEF Final, About
  <2> QED
    BY <2>1, <2>2, <2>3 DEF ServerInv
<1>8. CASE activate
  BY <1>0, <1>8, ServerReplay
<1>9. CASE activateFails \/ enterBackoff \/ handlerStops \/ shutdown
  <2>1. liveTransport' = 0
    BY <1>9 DEF activateFails, enterBackoff, handlerStops, shutdown, releaseLiveTransport,
       beginShutdown
  <2> QED
    BY <1>1, <2>1 DEF Serving
<1>10. CASE Dispose
  <2>1. liveTransport' = 0 \/ pc' = "shutdown"
    BY <1>0, <1>10 DEF Dispose, LoopInv
  <2> QED
    BY <1>1, <2>1 DEF Serving
<1>11. ASSUME NEW g \in Gens, workerWrites(g) PROVE ServerInv'
  BY <1>0, <1>11, ServerWrite
<1>12. ASSUME NEW g \in Gens, workerEnds(g) PROVE ServerInv'
  BY <1>12, ServerWorkerEnds
<1>13. ASSUME NEW g \in Gens,
              \/ readFails(g) \/ handlerFails(g) \/ publishReadEvent(g) \/ pingFails(g)
              \/ workerReports(g) \/ connectionLost(g)
       PROVE  ServerInv'
  <2>1. UNCHANGED <<todo, entries, server, odd, pc, liveTransport>>
    BY <1>13, LoopAlone
  <2> QED
    BY <1>13, <2>1, QueueKept, ServerConnKept
<1> QED
  BY <1>3, <1>4, <1>5, <1>6, <1>7, <1>8, <1>9, <1>10, <1>11, <1>12, <1>13
  DEF Next, LoopStep, WorkerStep, ReaderStep

-----------------------------------------------------------------------------
(* The theorems.                                                            *)

\* The invariant holds at first.
LEMMA V5Initially ==
    ASSUME Init
    PROVE  V5Inv
<1> USE DEF Init
<1>1. Types
  <2>1. Len(conns) = 0 /\ 0 \in 0..0
    OBVIOUS
  <2>2. conns \in Seq(Conns) /\ answers \in Seq(Nat) /\ eventCh \in Seq(Events)
    OBVIOUS
  <2> QED
    BY <2>1, <2>2 DEF Types
<1>2. LoopInv /\ OnlyLiveOpen
  <2>1. Gens = {}
    BY DEF Gens
  <2> QED
    BY <2>1 DEF LoopInv, OnlyLiveOpen, One
<1>3. EventInv
  <2>1. DOMAIN eventCh = {}
    OBVIOUS
  <2> QED
    BY <2>1 DEF EventInv
<1>4. PlaceInv /\ AnsweredOnce
  <2>1. Gens = {} /\ Requests = {} /\ DOMAIN eventCh = {}
    BY DEF Gens, Requests
  <2> QED
    BY <2>1 DEF PlaceInv, InCh, InQueue, AnsweredOnce
<1>5. ServerInv
  BY DEF ServerInv
<1> QED
  BY <1>1, <1>2, <1>3, <1>4, <1>5 DEF V5Inv, DriverInv

\* Every step keeps it.
LEMMA V5Keeps ==
    ASSUME V5Inv, [Next]_vars
    PROVE  V5Inv'
<1>1. CASE Next
  <2>1. Types'
    BY <1>1, TypesNext DEF V5Inv
  <2>2. LoopInv'
    BY <1>1, <2>1, LoopNext DEF V5Inv, DriverInv
  <2>3. OnlyLiveOpen'
    BY <1>1, <2>1, OnlyLiveNext DEF V5Inv
  <2>4. EventInv'
    BY <1>1, <2>1, EventNext DEF V5Inv
  <2>5. PlaceInv' /\ AnsweredOnce'
    BY <1>1, <2>1, PlaceNext DEF V5Inv
  <2>6. ServerInv'
    BY <1>1, <2>1, ServerNext DEF V5Inv
  <2> QED
    BY <2>1, <2>2, <2>3, <2>4, <2>5, <2>6 DEF V5Inv, DriverInv
<1>2. CASE UNCHANGED vars
  <2> USE <1>2 DEF V5Inv, vars, loopVars
  <2>1. Types' /\ EventInv'
    BY DEF Types, EventInv
  <2>2. DriverInv'
    BY DEF DriverInv, LoopInv, One, OnlyLiveOpen, Gens
  <2>3. PlaceInv' /\ AnsweredOnce'
    <3>1. \A g, i, r \in Nat : InQueue(g, i, r)' <=> InQueue(g, i, r)
      BY DEF InQueue, Gens
    <3> QED
      BY <2>1, <3>1, RequestsKept
  <2>4. ServerInv'
    BY DEF ServerInv
  <2> QED
    BY <2>1, <2>2, <2>3, <2>4
<1> QED
  BY <1>1, <1>2

\* The inductive invariant of the client.
LEMMA V5Holds == Spec => []V5Inv
<1>1. Init => V5Inv
  BY V5Initially
<1>2. V5Inv /\ [Next]_vars => V5Inv'
  BY V5Keeps
<1> QED
  BY <1>1, <1>2, PTL DEF Spec

\* The client is never stuck and never runs two connections: while it is not stopping
\* it has a live connection, or a dial under way, or a reconnect timer, and only one of
\* them (startDial, scheduleReconnect, releaseLiveTransport).
THEOREM OneThingDrives == Spec => []OneDriver
<1>1. V5Inv => OneDriver
  <2> SUFFICES ASSUME V5Inv, pc \in {"select", "replay", "sync", "failed"}, ~cancelled
               PROVE  Cardinality({d \in {"live", "dial", "timer"} :
                                     \/ d = "live" /\ liveTransport # 0
                                     \/ d = "dial" /\ dialing
                                     \/ d = "timer" /\ waitingReconnect}) = 1
    BY DEF OneDriver
  <2>1. PICK drivers : drivers = {d \in {"live", "dial", "timer"} :
                                     \/ d = "live" /\ liveTransport # 0
                                     \/ d = "dial" /\ dialing
                                     \/ d = "timer" /\ waitingReconnect}
    OBVIOUS
  <2>2. One
    BY DEF V5Inv, DriverInv, LoopInv
  <2>3. drivers = {"live"} \/ drivers = {"dial"} \/ drivers = {"timer"}
    BY <2>1, <2>2 DEF One
  <2>4. Cardinality(drivers) = 1
    BY <2>3, FS_Singleton
  <2> QED
    BY <2>1, <2>4
<1> QED
  BY <1>1, V5Holds, PTL

\* Every request accepted from a caller waits in exactly one queue or was answered, and
\* once (Subscription.resolve closes a channel, and a second time would panic).
THEOREM EachRequestAnsweredOnce == Spec => []AnsweredOnce
<1>1. V5Inv => AnsweredOnce
  BY DEF V5Inv
<1> QED
  BY <1>1, V5Holds, PTL

\* The subscriptions the client keeps are those the server sends on the live connection
\* once its worker is idle, over any number of reconnects and replays, except where the
\* caller was told of an error.
THEOREM KeptIsServed == Spec => []DesiredOnServer
<1>1. V5Inv => DesiredOnServer
  <2> SUFFICES ASSUME V5Inv, pc = "select", routingOpen,
                      conns[liveTransport].queue = <<>>, ~conns[liveTransport].broken,
                      NEW k \in Keys \ odd
               PROVE  k \in server <=> k \in entries
    BY DEF DesiredOnServer
  <2>1. liveTransport # 0 /\ todo = {}
    BY DEF V5Inv, DriverInv, LoopInv
  <2>2. Final(<<>>, server, k) <=> k \in entries
    BY <2>1 DEF V5Inv, ServerInv
  <2>3. Final(<<>>, server, k) <=> k \in server
    BY DEF Final, About
  <2> QED
    BY <2>2, <2>3
<1> QED
  BY <1>1, V5Holds, PTL

-----------------------------------------------------------------------------
(* Connections that were given up.                                          *)

\* A worker that is not to be disposed of yet; one that was told to end, by the last
\* item of its queue, or has ended.
InService(c) == c.worker # "done" /\ \A i \in DOMAIN c.queue : c.queue[i].kind # "dispose"
Leaving(c) ==
    \/ c.worker = "done" /\ c.queue = <<>>
    \/ /\ c.worker # "done" /\ c.queue # <<>>
       /\ \A i \in DOMAIN c.queue : c.queue[i].kind = "dispose" <=> i = Len(c.queue)

\* The live connection, and the one that Dispose is about, serve; all others leave.
Phase(g) == IF g \in {liveTransport, disposing} THEN InService(conns[g]) ELSE Leaving(conns[g])
PhaseInv == \A g \in Gens : Phase(g)

\* Dispose is under way only where the loop waits for it, and the loop that stops has
\* given its connection up.
WhereInv ==
    /\ disposing # 0 => pc \in {"dispose", "shutdown"}
    /\ pc \in {"shutdown", "ended"} => liveTransport = 0

\* When Run has ended, so has everything it started for a connection.
EndedInv ==
    pc = "ended" => \A g \in Gens : conns[g].worker = "done" /\ conns[g].reader = "done"

RetiredInv == PhaseInv /\ WhereInv /\ EndedInv

\* A queue without a dispose event, when an item is added or taken.
LEMMA InServiceQueue ==
    ASSUME NEW q \in Seq(Items), \A i \in DOMAIN q : q[i].kind # "dispose"
    PROVE  /\ \A x \in Items : x.kind # "dispose" =>
                 \A i \in DOMAIN Append(q, x) : Append(q, x)[i].kind # "dispose"
           /\ \A x \in Items : x.kind = "dispose" =>
                 /\ Append(q, x) # <<>>
                 /\ \A i \in DOMAIN Append(q, x) :
                       Append(q, x)[i].kind = "dispose" <=> i = Len(Append(q, x))
           /\ q # <<>> => /\ Head(q).kind # "dispose"
                          /\ \A i \in DOMAIN Tail(q) : Tail(q)[i].kind # "dispose"
<1>1. ASSUME NEW x \in Items
      PROVE  /\ Append(q, x) # <<>> /\ Len(Append(q, x)) = Len(q) + 1 /\ Len(q) \in Nat
             /\ DOMAIN q = 1..Len(q) /\ DOMAIN Append(q, x) = 1..(Len(q) + 1)
             /\ Append(q, x)[Len(q) + 1] = x
             /\ \A i \in 1..Len(q) : Append(q, x)[i] = q[i]
  BY <1>1, QueueGrows
<1>2. ASSUME NEW x \in Items, x.kind # "dispose", NEW i \in DOMAIN Append(q, x)
      PROVE  Append(q, x)[i].kind # "dispose"
  BY <1>1, <1>2
<1>3. ASSUME NEW x \in Items, x.kind = "dispose", NEW i \in DOMAIN Append(q, x)
      PROVE  Append(q, x)[i].kind = "dispose" <=> i = Len(Append(q, x))
  BY <1>1, <1>3
<1>4. ASSUME q # <<>>
      PROVE  Head(q).kind # "dispose" /\ \A i \in DOMAIN Tail(q) : Tail(q)[i].kind # "dispose"
  <2>1. /\ DOMAIN q = 1..Len(q) /\ Len(q) \in Nat \ {0} /\ DOMAIN Tail(q) = 1..(Len(q) - 1)
        /\ Head(q) = q[1] /\ \A i \in 1..(Len(q) - 1) : Tail(q)[i] = q[i + 1]
    BY <1>4, QueueShrinks
  <2>2. \A i \in 1..(Len(q) - 1) : i + 1 \in DOMAIN q
    BY <2>1
  <2>3. 1 \in DOMAIN q
    BY <2>1
  <2> QED
    BY <2>1, <2>2, <2>3
<1> QED
  BY <1>1, <1>2, <1>3, <1>4

\* A queue that ends in its dispose event, when an item is taken.
LEMMA LeavingQueue ==
    ASSUME NEW q \in Seq(Items), q # <<>>,
           \A i \in DOMAIN q : q[i].kind = "dispose" <=> i = Len(q)
    PROVE  /\ Head(q).kind = "dispose" => Tail(q) = <<>>
           /\ Head(q).kind # "dispose" =>
                 /\ Tail(q) # <<>>
                 /\ \A i \in DOMAIN Tail(q) : Tail(q)[i].kind = "dispose" <=> i = Len(Tail(q))
<1>1. /\ DOMAIN q = 1..Len(q) /\ Len(q) \in Nat \ {0} /\ Tail(q) \in Seq(Items)
      /\ DOMAIN Tail(q) = 1..(Len(q) - 1)
      /\ Head(q) = q[1] /\ \A i \in 1..(Len(q) - 1) : Tail(q)[i] = q[i + 1]
  BY QueueShrinks
<1>2. Head(q).kind = "dispose" <=> 1 = Len(q)
  BY <1>1
<1>3. Len(Tail(q)) = Len(q) - 1
  BY <1>1
<1>4. Len(Tail(q)) = 0 <=> Tail(q) = <<>>
  BY <1>1
<1>5. ASSUME NEW i \in DOMAIN Tail(q)
      PROVE  Tail(q)[i].kind = "dispose" <=> i = Len(Tail(q))
  <2>1. i \in 1..(Len(q) - 1) /\ i + 1 \in DOMAIN q /\ Tail(q)[i] = q[i + 1]
    BY <1>1
  <2>2. Tail(q)[i].kind = "dispose" <=> i + 1 = Len(q)
    BY <2>1
  <2> QED
    BY <1>1, <1>3, <2>1, <2>2
<1> QED
  BY <1>1, <1>2, <1>3, <1>4, <1>5

\* The read loop, the ping, the report and the network do not end a worker, and a read
\* loop that has ended stays so.
LEMMA WorkerStays ==
    ASSUME Types, NEW g \in Gens,
           \/ readFails(g) \/ handlerFails(g) \/ publishReadEvent(g) \/ pingFails(g)
           \/ workerReports(g) \/ connectionLost(g)
    PROVE  /\ conns'[g].worker = "done" <=> conns[g].worker = "done"
           /\ conns[g].reader = "done" => conns'[g].reader = "done"
<1>1. conns[g] \in Conns /\ conns \in Seq(Conns) /\ g \in DOMAIN conns
  BY ConnType DEF Types, Gens
<1>2. CASE readFails(g) \/ handlerFails(g) \/ publishReadEvent(g)
  BY <1>1, <1>2 DEF readFails, handlerFails, publishReadEvent, Conns
<1>3. CASE pingFails(g) \/ workerReports(g)
  BY <1>1, <1>3 DEF pingFails, workerReports, Conns
<1>4. CASE connectionLost(g)
  BY <1>1, <1>4 DEF connectionLost, Conns
<1> QED
  BY <1>2, <1>3, <1>4

\* An item queued leaves the goroutines alone.
LEMMA QueuedKeeps ==
    ASSUME Types, NEW g \in Gens, NEW x \in Items, TryEnqueue(g, x)
    PROVE  conns'[g].worker = conns[g].worker /\ conns'[g].reader = conns[g].reader
<1>1. conns[g] \in Conns /\ conns \in Seq(Conns) /\ g \in DOMAIN conns
  BY ConnType DEF Types, Gens
<1> QED
  BY <1>1 DEF TryEnqueue, Conns

\* So does session.Stop.
LEMMA ClosedKeeps ==
    ASSUME Types, NEW g \in Gens, conns' = [conns EXCEPT ![g].up = FALSE]
    PROVE  conns'[g].worker = conns[g].worker /\ conns'[g].reader = conns[g].reader
<1>1. conns[g] \in Conns /\ conns \in Seq(Conns) /\ g \in DOMAIN conns
  BY ConnType DEF Types, Gens
<1> QED
  BY <1>1 DEF Conns

\* A worker that takes an item goes on, unless it is told to end.
LEMMA TakenKeeps ==
    ASSUME Types, NEW g \in Gens, workerWrites(g) \/ workerEnds(g)
    PROVE  /\ conns[g].worker = "idle" /\ conns'[g].reader = conns[g].reader
           /\ workerEnds(g) => /\ conns'[g].worker = "done"
                               /\ Head(conns[g].queue).kind = "dispose"
           /\ workerWrites(g) => /\ conns'[g].worker # "done"
                                 /\ Head(conns[g].queue).kind # "dispose"
<1>1. conns[g] \in Conns /\ conns \in Seq(Conns) /\ g \in DOMAIN conns
  BY ConnType DEF Types, Gens
<1>2. CASE workerEnds(g)
  BY <1>1, <1>2 DEF workerEnds, workerWrites, Conns
<1>3. CASE workerWrites(g)
  <2>1. PICK ok \in BOOLEAN :
          conns' = [conns EXCEPT ![g].queue = Tail(@), ![g].broken = @ \/ ~ok,
                                 ![g].worker = IF ok THEN "idle" ELSE "publish"]
    BY <1>3 DEF workerWrites
  <2>2. conns'[g].worker = (IF ok THEN "idle" ELSE "publish") /\ conns'[g].reader = conns[g].reader
    BY <1>1, <2>1 DEF Conns
  <2> QED
    BY <1>3, <2>2 DEF workerWrites, workerEnds
<1> QED
  BY <1>2, <1>3

\* Where Dispose is under way, and where there is no live connection any more.
LEMMA WhereNext ==
    ASSUME Types, LoopInv, WhereInv, EventInv, PlaceInv, Next
    PROVE  WhereInv'
<1> USE DEF loopVars
<1>1. CASE Run \/ Stop \/ dial \/ reconnectTick \/ handleReadIgnored
  BY <1>1 DEF Run, Stop, dial, reconnectTick, handleReadIgnored, WhereInv
<1>2. ASSUME NEW kind \in Kinds, NEW k \in Keys, Call(kind, k) PROVE WhereInv'
  BY <1>2 DEF Call, WhereInv
<1>3. CASE handleSend \/ handleSubscribe \/ handleUnsubscribe
  <2>1. UNCHANGED <<pc, liveTransport, disposing>>
    BY <1>3 DEF handleSend, handleSubscribe, handleUnsubscribe
  <2> QED
    BY <2>1 DEF WhereInv
<1>4. CASE handleDialFailure \/ handleReconnectTick \/ handleWorkerFailure
  BY <1>4 DEF handleDialFailure, handleReconnectTick, handleWorkerFailure, WhereInv
<1>5. CASE handleDialSuccess
  BY <1>5 DEF handleDialSuccess, takes, WhereInv
<1>6. CASE activate
  <2>1. pc = "replay" /\ pc' \in {"sync", "failed"} /\ UNCHANGED disposing
    BY <1>6 DEF activate
  <2> QED
    BY <2>1 DEF WhereInv
<1>7. CASE activated
  BY <1>7 DEF activated, WhereInv
<1>8. CASE activateFails \/ enterBackoff
  BY <1>8 DEF activateFails, enterBackoff, releaseLiveTransport, WhereInv
<1>9. CASE Dispose
  BY <1>9 DEF Dispose, WhereInv, LoopInv
<1>10. CASE handlerStops \/ shutdown
  BY <1>10 DEF handlerStops, shutdown, beginShutdown, WhereInv
<1>11. CASE shutdownEnds
  BY <1>11 DEF shutdownEnds, WhereInv
<1>12. ASSUME NEW g \in Gens, workerWrites(g) PROVE WhereInv'
  <2>1. UNCHANGED <<liveTransport, disposing>>
    BY <1>12 DEF workerWrites
  <2>2. \/ pc' = pc
        \/ pc = "sync" /\ pc' \in {"replay", "failed"}
    <3>1. PICK x : x = Head(conns[g].queue)
      OBVIOUS
    <3>2. x.r = 0 => pc = "sync"
      <4>1. InQueue(g, 1, x.r) /\ g \in Nat
        BY <1>12, <3>1, ItemInQueue, ConnType DEF workerWrites
      <4> QED
        BY <4>1, 1 \in Nat DEF PlaceInv
    <3>3. PICK ok \in BOOLEAN : handleRequest(g, x, ok)
      BY <1>12, <3>1 DEF workerWrites
    <3> QED
      BY <3>2, <3>3 DEF handleRequest
  <2> QED
    BY <2>1, <2>2 DEF WhereInv
<1>13. ASSUME NEW g \in Gens,
              \/ readFails(g) \/ handlerFails(g) \/ publishReadEvent(g) \/ pingFails(g)
              \/ workerReports(g) \/ connectionLost(g) \/ workerEnds(g)
       PROVE  WhereInv'
  <2>1. UNCHANGED <<pc, liveTransport, disposing>>
    BY <1>13, LoopAlone
  <2> QED
    BY <2>1 DEF WhereInv
<1> QED
  BY <1>1, <1>2, <1>3, <1>4, <1>5, <1>6, <1>7, <1>8, <1>9, <1>10, <1>11, <1>12, <1>13
  DEF Next, LoopStep, WorkerStep, ReaderStep

\* Every connection serves until it is given up, and from then on leaves: Dispose puts
\* its event behind all others, and nothing is queued for a connection that is not live.
LEMMA PhaseNext ==
    ASSUME Types, Types', DriverInv, RetiredInv, EventInv, PlaceInv, Next
    PROVE  PhaseInv'
<1> USE DEF loopVars
<1>0. /\ PhaseInv /\ WhereInv
      /\ \A g \in Gens : g \in Nat /\ g # 0
      /\ Len(conns) \in Nat /\ (liveTransport # 0 => liveTransport \in Gens)
      /\ (disposing # 0 => disposing \in Gens)
      /\ \A g \in Gens : /\ conns[g].queue \in Seq(Items)
                         /\ DOMAIN conns[g].queue = 1..Len(conns[g].queue)
  BY ConnType DEF RetiredInv, Gens, Types
<1>1. ASSUME NEW g \in Gens, NEW q, Changed(g, q), Phase(g)',
             \A h \in Gens : h # g =>
                (h \in {liveTransport', disposing'} <=> h \in {liveTransport, disposing})
      PROVE  PhaseInv'
  <2>1. Gens' = Gens /\ \A h \in Gens : h # g => conns'[h] = conns[h]
    BY <1>1 DEF Gens, Changed
  <2>2. ASSUME NEW h \in Gens, h # g PROVE Phase(h)'
    <3>1. Phase(h)
      BY <1>0 DEF PhaseInv
    <3> QED
      BY <1>1, <2>1, <2>2, <3>1 DEF Phase
  <2> QED
    BY <1>1, <2>1, <2>2 DEF PhaseInv
<1>2. ASSUME UNCHANGED <<conns, liveTransport, disposing>> PROVE PhaseInv'
  BY <1>0, <1>2 DEF PhaseInv, Phase, Gens
<1>3. CASE \/ Run \/ Stop \/ dial \/ reconnectTick \/ handleDialFailure \/ handleReconnectTick
           \/ activated \/ handleReadIgnored \/ handleWorkerFailure \/ shutdownEnds
  BY <1>2, <1>3 DEF Run, Stop, dial, reconnectTick, handleDialFailure, handleReconnectTick,
     activated, handleReadIgnored, handleWorkerFailure, shutdownEnds
<1>4. ASSUME NEW kind \in Kinds, NEW k \in Keys, Call(kind, k) PROVE PhaseInv'
  BY <1>2, <1>4 DEF Call
<1>5. ASSUME NEW x \in Items, x.kind # "dispose", liveTransport \in Gens,
             Changed(liveTransport, Append(conns[liveTransport].queue, x)),
             conns'[liveTransport].worker = conns[liveTransport].worker,
             UNCHANGED <<liveTransport, disposing>>
      PROVE  PhaseInv'
  <2>1. InService(conns[liveTransport])
    BY <1>0, <1>5 DEF PhaseInv, Phase
  <2>2. InService(conns'[liveTransport])
    BY <1>0, <1>5, <2>1, InServiceQueue DEF InService, Changed
  <2>3. Phase(liveTransport)'
    BY <1>5, <2>2 DEF Phase
  <2> QED
    BY <1>1, <1>5, <2>3
<1>6. CASE handleSend \/ handleSubscribe \/ handleUnsubscribe
  <2>1. PICK kind \in Kinds : takes(kind)
    BY <1>6 DEF handleSend, handleSubscribe, handleUnsubscribe, Kinds
  <2>2. PICK e : e = Head(eventCh)
    OBVIOUS
  <2>3. e \in Calls /\ e \in Items /\ e.kind # "dispose"
    BY <2>1, <2>2, CallTaken, EventTypes DEF Kinds
  <2>4. UNCHANGED <<liveTransport, disposing>>
    BY <1>6, <2>1, CallHandled
  <2>5. route(e) \/ UNCHANGED conns
    BY <1>6, <2>2 DEF handleSend, handleSubscribe, handleUnsubscribe
  <2>6. CASE canRouteWrites /\ TryEnqueue(liveTransport, e)
    <3>1. liveTransport \in Gens
      BY <1>0, <2>6 DEF canRouteWrites
    <3> QED
      BY <1>5, <2>3, <2>4, <2>6, <3>1, ItemQueued, QueuedKeeps
  <2>7. CASE ~(canRouteWrites /\ TryEnqueue(liveTransport, e))
    <3>1. UNCHANGED conns
      BY <2>5, <2>7 DEF route
    <3> QED
      BY <1>2, <2>4, <3>1
  <2> QED
    BY <2>6, <2>7
<1>7. CASE handleDialSuccess
  <2>1. liveTransport = 0 /\ disposing = 0
    <3>1. dialing /\ pc = "select" /\ ~cancelled
      BY <1>7, HeadIsDue DEF handleDialSuccess, takes
    <3> QED
      BY <1>0, <3>1 DEF DriverInv, LoopInv, One, WhereInv
  <2>2. /\ Gens' = Gens \union {liveTransport'} /\ liveTransport' \notin Gens
        /\ conns'[liveTransport'] = NewConn
        /\ disposing' = 0 /\ \A g \in Gens : conns'[g] = conns[g]
    BY <1>7, <2>1 DEF handleDialSuccess, Gens, Types
  <2>3. InService(NewConn)
    <3>1. NewConn.queue = <<>> /\ NewConn.worker = "idle"
      BY DEF NewConn
    <3>2. DOMAIN NewConn.queue = {}
      BY <3>1
    <3> QED
      BY <3>1, <3>2 DEF InService
  <2>4. ASSUME NEW g \in Gens PROVE Phase(g)'
    <3>1. Leaving(conns[g])
      BY <1>0, <2>1 DEF PhaseInv, Phase
    <3> QED
      BY <1>0, <2>2, <3>1 DEF Phase
  <2>5. Phase(liveTransport)'
    BY <2>2, <2>3 DEF Phase
  <2>6. ASSUME NEW g \in Gens' PROVE Phase(g)'
    <3>1. CASE g \in Gens
      BY <2>4, <3>1
    <3>2. CASE g = liveTransport'
      BY <2>2, <2>3, <3>2 DEF Phase
    <3> QED
      BY <2>2, <3>1, <3>2
  <2> QED
    BY <2>6 DEF PhaseInv
<1>8. CASE activate
  <2>1. PICK k \in todo :
          \/ TryEnqueue(liveTransport, [kind |-> "subscribe", key |-> k, r |-> 0])
          \/ UNCHANGED conns
    BY <1>8 DEF activate
  <2>2. liveTransport \in Gens /\ UNCHANGED <<liveTransport, disposing>>
    BY <1>0, <1>8 DEF activate, DriverInv, LoopInv
  <2>3. PICK x : x = [kind |-> "subscribe", key |-> k, r |-> 0]
    OBVIOUS
  <2>4. x \in Items /\ x.kind # "dispose"
    <3>1. k \in Keys /\ "subscribe" \in Kinds /\ 0 \in Nat
      BY DEF Types, Kinds
    <3> QED
      BY <2>3, <3>1, EventTypes
  <2>5. CASE TryEnqueue(liveTransport, x)
    BY <1>5, <2>2, <2>4, <2>5, ItemQueued, QueuedKeeps
  <2> QED
    BY <1>2, <2>1, <2>2, <2>3, <2>5
<1>9. ASSUME liveTransport # 0, releaseLiveTransport \/ beginShutdown, disposing = 0
      PROVE  PhaseInv'
  <2>1. PICK g \in Gens : g = liveTransport
    BY <1>0, <1>9
  <2>2. /\ Changed(g, conns[g].queue) /\ conns'[g].queue = conns[g].queue
        /\ liveTransport' = 0 /\ disposing' = g
    BY <1>9, <2>1, Released DEF Changed
  <2>3. conns'[g].worker = conns[g].worker
    BY <1>9, <2>1, ClosedKeeps DEF releaseLiveTransport, beginShutdown
  <2>4. InService(conns[g])
    BY <1>0, <2>1 DEF PhaseInv, Phase
  <2>5. Phase(g)'
    BY <2>2, <2>3, <2>4 DEF Phase, InService
  <2>6. \A h \in Gens : h # g =>
                (h \in {liveTransport', disposing'} <=> h \in {liveTransport, disposing})
    BY <1>0, <1>9, <2>1, <2>2
  <2> QED
    BY <1>1, <2>2, <2>5, <2>6
<1>10. CASE activateFails \/ enterBackoff
  <2>1. liveTransport # 0 /\ releaseLiveTransport /\ disposing = 0
    BY <1>0, <1>10 DEF activateFails, enterBackoff, FromLive, DriverInv, LoopInv, WhereInv, takes
  <2> QED
    BY <1>9, <2>1
<1>11. CASE handlerStops \/ shutdown
  <2>1. beginShutdown /\ disposing = 0
    BY <1>0, <1>11 DEF handlerStops, shutdown, WhereInv, takes
  <2>2. CASE liveTransport = 0
    BY <1>2, <2>1, <2>2 DEF beginShutdown
  <2>3. CASE liveTransport # 0
    BY <1>9, <2>1, <2>3
  <2> QED
    BY <2>2, <2>3
<1>12. CASE Dispose
  <2>1. PICK g \in Gens : g = disposing
    BY <1>0, <1>12 DEF Dispose
  <2>2. PICK x \in Items : x = [kind |-> "dispose"]
    BY EventTypes
  <2>3. /\ liveTransport = 0 /\ liveTransport' = 0 /\ disposing' = 0
        /\ TryEnqueue(g, x)
    BY <1>0, <1>12, <2>1, <2>2 DEF Dispose, DriverInv, LoopInv, WhereInv
  <2>4. InService(conns[g])
    BY <1>0, <2>1 DEF PhaseInv, Phase
  <2>5. /\ Changed(g, Append(conns[g].queue, x))
        /\ conns'[g].worker = conns[g].worker
    BY <2>3, ItemQueued, QueuedKeeps
  <2>6. x.kind = "dispose"
    BY <2>2
  <2>7. Leaving(conns'[g])
    <3>1. PICK q : q = Append(conns[g].queue, x)
      OBVIOUS
    <3>2. q # <<>> /\ \A i \in DOMAIN q : q[i].kind = "dispose" <=> i = Len(q)
      BY <1>0, <2>4, <2>6, <3>1, InServiceQueue DEF InService
    <3>3. conns'[g].queue = q /\ conns'[g].worker # "done"
      BY <2>4, <2>5, <3>1 DEF InService, Changed
    <3> QED
      BY <3>2, <3>3 DEF Leaving
  <2>8. Phase(g)'
    BY <1>0, <2>3, <2>7 DEF Phase
  <2>9. \A h \in Gens : h # g =>
                (h \in {liveTransport', disposing'} <=> h \in {liveTransport, disposing})
    BY <1>0, <2>1, <2>3
  <2> QED
    BY <1>1, <2>5, <2>8, <2>9
<1>13. ASSUME NEW g \in Gens, workerWrites(g) \/ workerEnds(g) PROVE PhaseInv'
  <2>1. UNCHANGED <<liveTransport, disposing>>
    BY <1>13 DEF workerWrites, workerEnds
  <2>2. /\ Changed(g, Tail(conns[g].queue)) /\ conns[g].queue # <<>>
        /\ conns'[g].queue = Tail(conns[g].queue)
    BY <1>13, ItemTaken DEF Changed
  <2>3. InService(conns[g]) => InService(conns'[g])
    <3>1. ASSUME InService(conns[g])
          PROVE  /\ Head(conns[g].queue).kind # "dispose"
                 /\ \A i \in DOMAIN Tail(conns[g].queue) : Tail(conns[g].queue)[i].kind # "dispose"
      BY <1>0, <2>2, <3>1, InServiceQueue DEF InService
    <3> QED
      BY <1>13, <2>2, <3>1, TakenKeeps DEF InService
  <2>4. Leaving(conns[g]) => Leaving(conns'[g])
    <3>1. ASSUME Leaving(conns[g])
          PROVE  \A i \in DOMAIN conns[g].queue :
                    conns[g].queue[i].kind = "dispose" <=> i = Len(conns[g].queue)
      BY <2>2, <3>1 DEF Leaving
    <3>2. ASSUME Leaving(conns[g])
          PROVE  /\ Head(conns[g].queue).kind = "dispose" => Tail(conns[g].queue) = <<>>
                 /\ Head(conns[g].queue).kind # "dispose" =>
                       /\ Tail(conns[g].queue) # <<>>
                       /\ \A i \in DOMAIN Tail(conns[g].queue) :
                             Tail(conns[g].queue)[i].kind = "dispose" <=> i = Len(Tail(conns[g].queue))
      BY <1>0, <2>2, <3>1, <3>2, LeavingQueue
    <3> QED
      BY <1>13, <2>2, <3>2, TakenKeeps DEF Leaving
  <2>5. Phase(g)'
    BY <1>0, <2>1, <2>3, <2>4 DEF PhaseInv, Phase
  <2> QED
    BY <1>1, <2>1, <2>2, <2>5
<1>14. ASSUME NEW g \in Gens,
              \/ readFails(g) \/ handlerFails(g) \/ publishReadEvent(g) \/ pingFails(g)
              \/ workerReports(g) \/ connectionLost(g)
       PROVE  PhaseInv'
  <2>1. UNCHANGED <<liveTransport, disposing>>
    BY <1>14, LoopAlone
  <2>2. Changed(g, conns[g].queue) /\ conns'[g].queue = conns[g].queue
        /\ (conns'[g].worker = "done" <=> conns[g].worker = "done")
    BY <1>14, QueueKept, WorkerStays DEF Changed
  <2>3. Phase(g)'
    BY <1>0, <2>1, <2>2 DEF PhaseInv, Phase, InService, Leaving
  <2> QED
    BY <1>1, <2>1, <2>2, <2>3
<1> QED
  BY <1>3, <1>4, <1>6, <1>7, <1>8, <1>10, <1>11, <1>12, <1>13, <1>14
  DEF Next, LoopStep, WorkerStep, ReaderStep

\* Run ends after the goroutines of all connections, and starts none afterwards.
LEMMA EndedNext ==
    ASSUME Types, Types', EndedInv, Next
    PROVE  EndedInv'
<1> USE DEF loopVars
<1>1. SUFFICES ASSUME pc' = "ended" PROVE EndedInv'
  BY DEF EndedInv
<1>2. CASE shutdownEnds
  BY <1>2 DEF shutdownEnds, EndedInv, Gens
<1>3. CASE pc = "ended" /\ UNCHANGED conns
  BY <1>3 DEF EndedInv, Gens
<1>4. CASE Stop \/ dial \/ reconnectTick
  BY <1>1, <1>3, <1>4 DEF Stop, dial, reconnectTick
<1>5. ASSUME NEW kind \in Kinds, NEW k \in Keys, Call(kind, k) PROVE EndedInv'
  BY <1>1, <1>3, <1>5 DEF Call
<1>6. CASE Run \/ handleDialSuccess \/ activated \/ handlerStops \/ shutdown
  BY <1>1, <1>6 DEF Run, handleDialSuccess, activated, handlerStops, shutdown, beginShutdown
<1>7. CASE handleDialFailure \/ handleReconnectTick \/ handleWorkerFailure \/ handleReadIgnored
  BY <1>1, <1>7 DEF handleDialFailure, handleReconnectTick, handleWorkerFailure,
     handleReadIgnored, takes
<1>8. CASE handleSend \/ handleSubscribe \/ handleUnsubscribe
  <2>1. UNCHANGED pc /\ pc = "select"
    BY <1>8 DEF handleSend, handleSubscribe, handleUnsubscribe, takes
  <2> QED
    BY <1>1, <2>1
<1>9. CASE activate
  <2>1. pc' \in {"sync", "failed"}
    BY <1>9 DEF activate
  <2> QED
    BY <1>1, <2>1
<1>10. CASE activateFails \/ enterBackoff
  BY <1>1, <1>10 DEF activateFails, enterBackoff, releaseLiveTransport
<1>11. CASE Dispose
  BY <1>1, <1>11 DEF Dispose
<1>12. ASSUME NEW g \in Gens, workerWrites(g) \/ workerEnds(g) PROVE EndedInv'
  <2>1. conns[g].worker = "idle"
    BY <1>12 DEF workerWrites, workerEnds
  <2>2. pc # "ended"
    BY <2>1 DEF EndedInv
  <2>3. pc' \in {pc, "replay", "failed"}
    <3>1. CASE workerEnds(g)
      BY <3>1, LoopAlone
    <3>2. CASE workerWrites(g)
      <4>1. PICK ok \in BOOLEAN : handleRequest(g, Head(conns[g].queue), ok)
        BY <3>2 DEF workerWrites
      <4> QED
        BY <4>1 DEF handleRequest
    <3> QED
      BY <1>12, <3>1, <3>2
  <2> QED
    BY <1>1, <2>2, <2>3
<1>13. ASSUME NEW g \in Gens,
              \/ readFails(g) \/ handlerFails(g) \/ publishReadEvent(g) \/ pingFails(g)
              \/ workerReports(g) \/ connectionLost(g)
       PROVE  EndedInv'
  <2>1. pc = "ended"
    BY <1>1, <1>13, LoopAlone
  <2>2. Changed(g, conns[g].queue)
        /\ (conns'[g].worker = "done" <=> conns[g].worker = "done")
        /\ (conns[g].reader = "done" => conns'[g].reader = "done")
    BY <1>13, QueueKept, WorkerStays
  <2> QED
    BY <2>1, <2>2 DEF EndedInv, Changed, Gens
<1> QED
  BY <1>2, <1>4, <1>5, <1>6, <1>7, <1>8, <1>9, <1>10, <1>11, <1>12, <1>13
  DEF Next, LoopStep, WorkerStep, ReaderStep

\* A connection that is not the live one is closed, so that its read loop finds an error;
\* its worker was told to end by the last item of its queue, or has ended and left
\* nothing unanswered, or is the one that Dispose is telling. The live one was not told.
\* Once Run has ended, so have the goroutines of every connection.
GivenUpLeaves ==
    /\ \A g \in Gens \ {liveTransport} :
          /\ ~conns[g].up
          /\ \/ g = disposing /\ pc \in {"dispose", "shutdown"}
             \/ Leaving(conns[g])
    /\ liveTransport # 0 => InService(conns[liveTransport])
    /\ pc = "ended" => \A g \in Gens : conns[g].worker = "done" /\ conns[g].reader = "done"

\* No connection leaks its goroutines: whichever way the loop gives a connection up
\* (enterBackoff, a failed activate, shutdown), it is closed and its worker is told to
\* end, once, with nothing queued behind (releaseLiveTransport, Dispose). What is left
\* to RetiredEnds is that the goroutines do run.
THEOREM NoConnectionLeaks == Spec => []GivenUpLeaves
<1>1. Init => RetiredInv
  BY DEF Init, RetiredInv, PhaseInv, WhereInv, EndedInv, Gens
<1>2. V5Inv /\ V5Inv' /\ RetiredInv /\ [Next]_vars => RetiredInv'
  <2>1. ASSUME V5Inv, V5Inv', RetiredInv, Next PROVE RetiredInv'
    <3>1. Types /\ Types' /\ DriverInv /\ LoopInv /\ EventInv /\ PlaceInv
      BY <2>1 DEF V5Inv, DriverInv
    <3>2. PhaseInv'
      BY <2>1, <3>1, PhaseNext
    <3>3. WhereInv' /\ EndedInv'
      BY <2>1, <3>1, WhereNext, EndedNext DEF RetiredInv
    <3> QED
      BY <3>2, <3>3 DEF RetiredInv
  <2>2. ASSUME RetiredInv, UNCHANGED vars PROVE RetiredInv'
    BY <2>2 DEF RetiredInv, PhaseInv, Phase, WhereInv, EndedInv, Gens, vars, loopVars
  <2> QED
    BY <2>1, <2>2
<1>3. V5Inv /\ RetiredInv => GivenUpLeaves
  <2> SUFFICES ASSUME V5Inv, RetiredInv PROVE GivenUpLeaves
    OBVIOUS
  <2>1. ASSUME NEW g \in Gens \ {liveTransport}
        PROVE  /\ ~conns[g].up
               /\ \/ g = disposing /\ pc \in {"dispose", "shutdown"}
                  \/ Leaving(conns[g])
    <3>1. ~conns[g].up
      BY DEF V5Inv, DriverInv, OnlyLiveOpen
    <3>2. CASE g = disposing
      <4>1. disposing # 0
        BY <3>2 DEF Gens
      <4> QED
        BY <3>1, <3>2, <4>1 DEF RetiredInv, WhereInv
    <3>3. CASE g # disposing
      BY <3>1, <3>3 DEF RetiredInv, PhaseInv, Phase
    <3> QED
      BY <3>2, <3>3
  <2>2. ASSUME liveTransport # 0 PROVE InService(conns[liveTransport])
    <3>1. liveTransport \in Gens
      BY <2>2 DEF V5Inv, Types, Gens
    <3> QED
      BY <3>1 DEF RetiredInv, PhaseInv, Phase
  <2> QED
    BY <2>1, <2>2 DEF GivenUpLeaves, RetiredInv, EndedInv
<1> QED
  BY <1>1, <1>2, <1>3, V5Holds, PTL DEF Spec

=============================================================================
