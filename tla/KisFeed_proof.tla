---------------------------- MODULE KisFeed_proof ----------------------------
(***************************************************************************)
(* The KIS feed: the log of subscription intents, its writers, the         *)
(* supervisor that replaces sessions, and the subscription manager that    *)
(* uses them -- for any finite set of keys, any queue, any number of       *)
(* sessions and references.                                                *)
(***************************************************************************)
EXTENDS KisFeed, FiniteSetTheorems, WellFoundedInduction, TLAPS

-----------------------------------------------------------------------------
(* Induction on the natural numbers, as a fact about a set.                 *)

\* A set that holds 0 and the successor of each of its numbers holds them all.
LEMMA NatSetInduction ==
    ASSUME NEW S, 0 \in S, \A n \in Nat : n \in S => n + 1 \in S
    PROVE  Nat \subseteq S
<1> DEFINE T == Nat \ S
<1>1. SUFFICES ASSUME T # {} PROVE FALSE
  OBVIOUS
<1>2. PICK R : R = OpToRel(<, Nat)
  OBVIOUS
<1>3. IsWellFoundedOn(R, Nat)
  BY <1>2, NatLessThanWellFounded
<1>4. \A a, b \in Nat : a < b => <<a, b>> \in R
  BY <1>2 DEF OpToRel
<1>5. PICK x \in T : \A y \in T : ~ (<<y, x>> \in R)
  <2>1. T \subseteq Nat
    OBVIOUS
  <2> HIDE DEF T
  <2> QED
    BY <1>1, <1>3, <2>1, WFMin
<1>6. x # 0 /\ x \in Nat /\ x - 1 \in Nat
  BY <1>5
<1>7. x - 1 \in T
  BY <1>5, <1>6
<1>8. <<x - 1, x>> \in R
  <2>1. x - 1 < x
    BY <1>6
  <2> QED
    BY <1>4, <1>6, <2>1
<1> QED
  BY <1>5, <1>7, <1>8

-----------------------------------------------------------------------------
(* The loop of resetForReconnect.                                           *)

\* Whether k is subscribed once the first n intents are applied: the latest one of
\* the key decides.
Decided(keys, ops, n, k) ==
    LET of == {i \in 1..n : ops[i].key = k}
    IN  IF of = {} THEN k \in keys
        ELSE \E i \in of : (\A j \in of : j <= i) /\ ops[i].kind = "subscribe"

\* An element of a log is an intent.
LEMMA IntentOf ==
    ASSUME NEW ops \in Seq(Intents), NEW n \in 1..Len(ops)
    PROVE  /\ ops[n] \in Intents /\ ops[n].key \in Keys
           /\ ops[n].kind \in {"subscribe", "unsubscribe"}
<1>1. ops[n] \in Intents
  OBVIOUS
<1> QED
  BY <1>1 DEF Intents

\* The loop's state after n intents, in closed form.
LEMMA DecidedStep ==
    ASSUME NEW keys, NEW ops \in Seq(Intents), NEW n \in 1..Len(ops), NEW k,
           NEW before, NEW after, after = applied(before, ops[n]),
           k \in before <=> Decided(keys, ops, n - 1, k)
    PROVE  k \in after <=> Decided(keys, ops, n, k)
<1>1. /\ n \in Nat /\ n >= 1 /\ ops[n] \in Intents
      /\ ops[n].kind \in {"subscribe", "unsubscribe"}
  BY IntentOf
<1>2. CASE ops[n].key = k
  <2>1. /\ n \in {i \in 1..n : ops[i].key = k}
        /\ \A i \in {j \in 1..n : ops[j].key = k} : i <= n
    BY <1>1, <1>2
  <2>2. Decided(keys, ops, n, k) <=> ops[n].kind = "subscribe"
    BY <1>1, <2>1 DEF Decided
  <2>3. k \in after <=> ops[n].kind = "subscribe"
    BY <1>2 DEF applied, upsertDesiredLocked, removeDesiredLocked
  <2> QED
    BY <2>2, <2>3
<1>3. CASE ops[n].key # k
  <2>1. {i \in 1..n : ops[i].key = k} = {i \in 1..(n - 1) : ops[i].key = k}
    BY <1>1, <1>3
  <2>2. Decided(keys, ops, n, k) <=> Decided(keys, ops, n - 1, k)
    BY <2>1 DEF Decided
  <2>3. k \in after <=> k \in before
    BY <1>3 DEF applied, upsertDesiredLocked, removeDesiredLocked
  <2> QED
    BY <2>2, <2>3
<1> QED
  BY <1>2, <1>3

\* appliedAll leaves exactly the keys whose latest intent says so.
LEMMA AppliedAll ==
    ASSUME NEW keys \in SUBSET Keys, NEW ops \in Seq(Intents)
    PROVE  appliedAll(keys, ops) = {k \in Keys : Decided(keys, ops, Len(ops), k)}
<1> DEFINE N == Len(ops)
           Closed(n) == {k \in Keys : Decided(keys, ops, n, k)}
           Loop(f) == f = [n \in 0..N |-> IF n = 0 THEN keys ELSE applied(f[n - 1], ops[n])]
           after == CHOOSE f : Loop(f)
<1>1. N \in Nat /\ \A n \in 1..N : ops[n] \in Intents /\ ops[n].key \in Keys
  BY IntentOf
<1>2. Closed(0) = keys
  <2>1. \A k : {i \in 1..0 : ops[i].key = k} = {}
    OBVIOUS
  <2> QED
    BY <2>1 DEF Decided
<1>3. ASSUME NEW n \in 1..N PROVE Closed(n) = applied(Closed(n - 1), ops[n])
  <2>1. ASSUME NEW k \in Keys
        PROVE  k \in applied(Closed(n - 1), ops[n]) <=> Decided(keys, ops, n, k)
    <3>1. k \in Closed(n - 1) <=> Decided(keys, ops, n - 1, k)
      OBVIOUS
    <3> HIDE DEF Closed
    <3> QED
      BY <3>1, DecidedStep
  <2>2. applied(Closed(n - 1), ops[n]) \subseteq Keys
    BY <1>1 DEF applied, upsertDesiredLocked, removeDesiredLocked
  <2> QED
    BY <2>1, <2>2
<1> HIDE DEF Closed
<1>4. Loop([n \in 0..N |-> Closed(n)])
  <2>1. PICK g : g = [n \in 0..N |-> Closed(n)]
    OBVIOUS
  <2>2. \A n \in 0..N : g[n] = IF n = 0 THEN keys ELSE applied(g[n - 1], ops[n])
    BY <1>1, <1>2, <1>3, <2>1
  <2>3. g = [n \in 0..N |-> IF n = 0 THEN keys ELSE applied(g[n - 1], ops[n])]
    BY <2>1, <2>2
  <2> QED
    BY <2>1, <2>3
<1>5. Loop(after)
  BY <1>4
<1>6. PICK f : f = after
  OBVIOUS
<1>7. \A n \in 0..N : f[n] = IF n = 0 THEN keys ELSE applied(f[n - 1], ops[n])
  <2>1. f = [n \in 0..N |-> IF n = 0 THEN keys ELSE applied(f[n - 1], ops[n])]
    BY <1>5, <1>6
  <2> QED
    BY <2>1
<1>8. \A n \in Nat : n \in 0..N => f[n] = Closed(n)
  <2> DEFINE S == {n \in Nat : n \in 0..N => f[n] = Closed(n)}
  <2>1. 0 \in S
    BY <1>1, <1>2, <1>7
  <2>2. ASSUME NEW n \in Nat, n \in S PROVE n + 1 \in S
    <3>1. CASE n + 1 \in 0..N
      <4>1. n \in 0..N /\ f[n] = Closed(n) /\ n + 1 \in 1..N /\ (n + 1) - 1 = n
        BY <1>1, <2>2, <3>1
      <4>2. f[n + 1] = applied(f[n], ops[n + 1])
        BY <1>1, <1>7, <3>1, <4>1
      <4>3. Closed(n + 1) = applied(Closed(n), ops[n + 1])
        BY <1>3, <4>1
      <4> QED
        BY <4>1, <4>2, <4>3
    <3> QED
      BY <3>1
  <2>3. Nat \subseteq S
    <3> HIDE DEF S
    <3> QED
      BY <2>1, <2>2, NatSetInduction
  <2> QED
    BY <2>3
<1>9. appliedAll(keys, ops) = after[N]
  BY DEF appliedAll
<1> QED
  BY <1>1, <1>6, <1>8, <1>9 DEF Closed

-----------------------------------------------------------------------------
(* What the steps of the log do to it.                                      *)

Log == pending \in Seq(Intents) /\ desired \subseteq Keys

\* isLogicallySubscribed is what the loop would decide.
LEMMA LogicalIsDecided ==
    ASSUME Log, NEW k
    PROVE  isLogicallySubscribed(k) <=> Decided(desired, pending, Len(pending), k)
<1>1. DOMAIN pending = 1..Len(pending)
  BY DEF Log
<1> QED
  BY <1>1 DEF isLogicallySubscribed, Decided

\* Nothing changes for a key when the log does not.
LEMMA LogicalUnchanged ==
    ASSUME UNCHANGED <<pending, desired>>, NEW k
    PROVE  isLogicallySubscribed(k)' <=> isLogicallySubscribed(k)
BY DEF isLogicallySubscribed

\* The front of the log, applied and removed, changes no key's state.
LEMMA FrontApplied ==
    ASSUME Log, pending # <<>>, NEW k \in Keys,
           pending' = Tail(pending),
           k = Head(pending).key => (k \in desired' <=> Head(pending).kind = "subscribe"),
           k # Head(pending).key => (k \in desired' <=> k \in desired)
    PROVE  isLogicallySubscribed(k)' <=> isLogicallySubscribed(k)
<1> DEFINE N == Len(pending)
           ops == {i \in 1..N : pending[i].key = k}
           rest == {i \in 1..(N - 1) : pending[i + 1].key = k}
<1>1. /\ N \in Nat /\ N >= 1 /\ DOMAIN pending = 1..N
      /\ DOMAIN pending' = 1..(N - 1)
      /\ \A i \in 1..(N - 1) : pending'[i] = pending[i + 1]
      /\ Head(pending) = pending[1]
  BY DEF Log
<1>2. isLogicallySubscribed(k) <=>
        IF ops = {} THEN k \in desired
        ELSE \E i \in ops : (\A j \in ops : j <= i) /\ pending[i].kind = "subscribe"
  BY <1>1 DEF isLogicallySubscribed
<1>3. isLogicallySubscribed(k)' <=>
        IF rest = {} THEN k \in desired'
        ELSE \E i \in rest : (\A j \in rest : j <= i) /\ pending[i + 1].kind = "subscribe"
  <2>1. {i \in DOMAIN pending' : pending'[i].key = k} = rest
    BY <1>1
  <2>2. \A i \in rest : pending'[i] = pending[i + 1]
    BY <1>1
  <2> HIDE DEF rest
  <2> QED
    BY <2>1, <2>2 DEF isLogicallySubscribed
<1>4. /\ \A i \in rest : i + 1 \in ops
      /\ \A i \in ops : i = 1 \/ i - 1 \in rest
      /\ ops \subseteq Nat /\ rest \subseteq Nat
      /\ 1 \in ops <=> Head(pending).key = k
  BY <1>1
<1> HIDE DEF ops, rest
<1>5. CASE rest = {}
  <2>1. CASE Head(pending).key = k
    <3>1. ops = {1}
      BY <1>4, <1>5, <2>1
    <3> QED
      BY <1>1, <1>2, <1>3, <1>5, <2>1, <3>1
  <2>2. CASE Head(pending).key # k
    <3>1. ops = {}
      BY <1>4, <1>5, <2>2
    <3> QED
      BY <1>2, <1>3, <1>5, <2>2, <3>1
  <2> QED
    BY <2>1, <2>2
<1>6. CASE rest # {}
  <2>1. ops # {} /\ \A i \in ops : (\A j \in ops : j <= i) => i # 1
    <3>1. PICK i \in rest : TRUE
      BY <1>6
    <3>2. i + 1 \in ops /\ i \in Nat /\ i >= 1
      BY <1>1, <1>4 DEF rest
    <3> QED
      BY <3>2
  <2>2. ASSUME NEW i \in rest
        PROVE  (\A j \in rest : j <= i) <=> (\A j \in ops : j <= i + 1)
    BY <1>4
  <2>3. ASSUME NEW i \in ops, i # 1
        PROVE  i - 1 \in rest /\ (i - 1) + 1 = i
    BY <1>4, <2>3
  <2> QED
    BY <1>2, <1>3, <1>4, <1>6, <2>1, <2>2, <2>3
<1> QED
  BY <1>5, <1>6

\* An intent appended to the log decides its key and no other.
LEMMA AppendDecides ==
    ASSUME Log, NEW kind \in {"subscribe", "unsubscribe"}, NEW l \in Keys, NEW k \in Keys,
           pending' = Append(pending, newIntent(kind, l)), UNCHANGED desired
    PROVE  isLogicallySubscribed(k)' <=>
             IF k = l THEN kind = "subscribe" ELSE isLogicallySubscribed(k)
<1> DEFINE N == Len(pending)
           op == newIntent(kind, l)
           of(n) == {i \in 1..n : pending'[i].key = k}
<1>1. op \in Intents /\ op.key = l /\ op.kind = kind
  BY DEF newIntent, Intents
<1>2. /\ N \in Nat /\ DOMAIN pending = 1..N /\ DOMAIN pending' = 1..(N + 1)
      /\ pending'[N + 1] = op
      /\ \A i \in 1..N : pending'[i] = pending[i]
  BY <1>1 DEF Log
<1> HIDE DEF op
<1>3. CASE k = l
  <2>1. N + 1 \in of(N + 1) /\ \A i \in of(N + 1) : i <= N + 1 /\ i \in Nat
    BY <1>1, <1>2, <1>3
  <2>2. {i \in DOMAIN pending' : pending'[i].key = k} = of(N + 1)
    BY <1>2
  <2> HIDE DEF of
  <2>3. \A i \in of(N + 1) : (\A j \in of(N + 1) : j <= i) => i = N + 1
    BY <1>2, <2>1
  <2> QED
    BY <1>1, <1>2, <1>3, <2>1, <2>2, <2>3 DEF isLogicallySubscribed
<1>4. CASE k # l
  <2>1. {i \in DOMAIN pending' : pending'[i].key = k}
          = {i \in DOMAIN pending : pending[i].key = k}
    BY <1>1, <1>2, <1>4
  <2>2. \A i \in DOMAIN pending : pending'[i] = pending[i]
    BY <1>2
  <2> QED
    BY <1>4, <2>1, <2>2 DEF isLogicallySubscribed
<1> QED
  BY <1>3, <1>4

\* The log rebuilt: it holds a subscribe for every desired key, and only for those;
\* no key's state changes.
LEMMA ResetRebuilds ==
    ASSUME Log, resetForReconnect
    PROVE  /\ Log'
           /\ Len(pending') <= Cardinality(Keys)
           /\ \A i \in DOMAIN pending' :
                 pending'[i].kind = "subscribe" /\ pending'[i].key \in desired'
           /\ \A k \in desired' : \E i \in DOMAIN pending' : pending'[i].key = k
           /\ \A k \in Keys : /\ isLogicallySubscribed(k)' <=> k \in desired'
                              /\ isLogicallySubscribed(k)' <=> isLogicallySubscribed(k)
<1>1. desired' = {k \in Keys : isLogicallySubscribed(k)}
  <2>1. desired' = {k \in Keys : Decided(desired, pending, Len(pending), k)}
    BY AppliedAll DEF resetForReconnect, Log
  <2> QED
    BY <2>1, LogicalIsDecided
<1>2. desired' \subseteq Keys
  BY <1>1
<1>3. /\ IsFiniteSet(desired') /\ Cardinality(desired') \in Nat
      /\ Cardinality(desired') <= Cardinality(Keys)
  BY <1>2, WsLimits, FS_Subset, FS_CardinalityType
<1> DEFINE D == 1..Cardinality(desired')
<1>4. PICK order \in SetToSeqs(desired') :
         pending' = [i \in DOMAIN order |-> newIntent("subscribe", order[i])]
  BY DEF resetForReconnect
<1>5. order \in [D -> desired'] /\ \A i, j \in D : i # j => order[i] # order[j]
  BY <1>4 DEF SetToSeqs
<1>6. \A k \in desired' : \E i \in D : order[i] = k
  <2>1. order \in Injection(D, desired')
    BY <1>5 DEF Injection, IsInjective
  <2>2. Cardinality(D) = Cardinality(desired')
    BY <1>3, FS_Interval
  <2>3. order \in Surjection(D, desired')
    BY <1>3, <2>1, <2>2, FS_Injection
  <2> QED
    BY <2>3 DEF Surjection
<1>7. /\ DOMAIN pending' = D
      /\ pending' = [i \in D |-> newIntent("subscribe", order[i])]
      /\ \A i \in D : /\ pending'[i].kind = "subscribe" /\ pending'[i].key = order[i]
                      /\ pending'[i] \in Intents
  BY <1>2, <1>4, <1>5 DEF newIntent, Intents
<1>8. pending' \in Seq(Intents) /\ Len(pending') = Cardinality(desired')
  BY <1>3, <1>7
<1>9. ASSUME NEW k \in Keys PROVE isLogicallySubscribed(k)' <=> k \in desired'
  <2> DEFINE of == {i \in DOMAIN pending' : pending'[i].key = k}
  <2>1. CASE k \in desired'
    <3>1. PICK i \in D : order[i] = k
      BY <1>6, <2>1
    <3>2. of = {i}
      BY <1>5, <1>7, <3>1
    <3>3. i <= i
      OBVIOUS
    <3> QED
      BY <1>7, <2>1, <3>1, <3>2, <3>3 DEF isLogicallySubscribed
  <2>2. CASE k \notin desired'
    <3>1. of = {}
      BY <1>5, <1>7, <2>2
    <3> QED
      BY <2>2, <3>1 DEF isLogicallySubscribed
  <2> QED
    BY <2>1, <2>2
<1>10. \A k \in Keys : isLogicallySubscribed(k)' <=> isLogicallySubscribed(k)
  BY <1>1, <1>9
<1>11. \A i \in DOMAIN pending' :
          pending'[i].kind = "subscribe" /\ pending'[i].key \in desired'
  BY <1>5, <1>7
<1>12. \A k \in desired' : \E i \in DOMAIN pending' : pending'[i].key = k
  BY <1>6, <1>7
<1> QED
  BY <1>2, <1>3, <1>8, <1>9, <1>10, <1>11, <1>12 DEF Log

-----------------------------------------------------------------------------
(* The inductive invariant.                                                 *)

\* What is true of the session and of what the engine was told while the supervisor
\* is at a given place.
Phases ==
    /\ run \notin {"serve", "stop"} => session.writer \in {"none", "exited"}
    /\ run \in {"ready", "startWriter", "serve"} => active = session.n
    /\ run \in {"attach", "ready"} => server = {}
    /\ run \in {"ready", "startWriter", "serve", "stop"} => event \in {"connected", "reconnected"}
    /\ run \in {"idle", "backoff", "dial", "attach", "ended"} => told # "connected"

\* A writer handles the front of the log.
FrontInv ==
    session.writer \in {"gen", "write"} => pending # <<>> /\ Head(pending) = session.op

\* Once the log is rebuilt, a key of which server and store disagree has an intent in
\* the log.
Unwritten ==
    run \in {"startWriter", "serve"} /\ ~session.failed =>
        \A k \in Keys \ odd :
            (k \in server <=> k \in desired) \/ \E i \in DOMAIN pending : pending[i].key = k

KisInv ==
    TypeOK /\ Phases /\ FrontInv /\ NoLostWakeup /\ HeldWhereAssigned /\ Unwritten

-----------------------------------------------------------------------------
(* Steps of the session alone.                                              *)

SessionType ==
    [n : 0..MaxSessions, up : BOOLEAN, ctx : BOOLEAN,
     writer : {"none", "select", "drain", "gen", "write", "exited"},
     op : {NoOp} \union Intents, signal : BOOLEAN,
     queued : 0..MaxSendQueue, watcher : {"new", "waiting", "late", "gone"},
     failed : BOOLEAN]

\* The bounds are numbers.
LEMMA Bounds ==
    /\ MaxSendQueue \in Nat /\ MaxSessions \in Nat /\ MaxPending \in Nat /\ MaxCount \in Nat
    /\ Cardinality(Keys) \in Nat
BY WsLimits, FeedLimits, FS_CardinalityType

USE Bounds

\* A step that changes only the session keeps the invariant when the session stays the
\* same one, a writer that starts on an intent takes the front, and a writer that
\* comes to wait finds no work or a signal.
LEMMA SessionStep ==
    ASSUME KisInv, session' \in SessionType, cancelled' \in BOOLEAN,
           UNCHANGED <<pending, desired, run, attempt, active, event, server, odd, lost,
                       entry, call, told>>,
           session'.n = session.n, session'.failed = session.failed,
           session.writer \in {"none", "exited"} => session'.writer \in {"none", "exited"},
           session'.writer \in {"gen", "write"} => pending # <<>> /\ Head(pending) = session'.op,
           session'.writer = "select" /\ session'.ctx =>
              \/ session.writer = "select" /\ session.ctx /\ (session.signal => session'.signal)
              \/ pending = <<>>
    PROVE  KisInv'
<1>1. TypeOK'
  BY DEF KisInv, TypeOK, SessionType, NoOp, NoCall
<1>2. Phases'
  BY DEF KisInv, Phases
<1>3. FrontInv'
  BY DEF FrontInv
<1>4. NoLostWakeup'
  BY DEF KisInv, NoLostWakeup
<1>5. HeldWhereAssigned'
  BY LogicalUnchanged DEF KisInv, HeldWhereAssigned
<1>6. Unwritten'
  BY DEF KisInv, Unwritten
<1> QED
  BY <1>1, <1>2, <1>3, <1>4, <1>5, <1>6 DEF KisInv

\* What the transport does without a lifecycle event leaves what was told.
LEMMA NoEvent == ASSUME runTransportStatus, UNCHANGED event PROVE UNCHANGED told
BY DEF runTransportStatus

\* The writer's steps that leave the log alone, the watcher's, those of senders and of
\* the network.
LEMMA SessionSteps ==
    ASSUME KisInv, runTransportStatus, UNCHANGED <<entry, call>>,
           \/ takeSignal \/ peekFront \/ generated \/ handleSendRequest \/ writerExits
           \/ Send \/ cancel \/ WatcherStep \/ connectionLost
    PROVE  KisInv'
<1>1. /\ session \in SessionType /\ cancelled \in BOOLEAN /\ pending \in Seq(Intents)
      /\ FrontInv
  BY DEF KisInv, TypeOK, SessionType
<1>2. CASE takeSignal
  <2>1. session' \in SessionType
    BY <1>1, <1>2 DEF takeSignal, SessionType
  <2> QED
    BY <1>1, <1>2, <2>1, SessionStep, NoEvent DEF takeSignal, SessionType
<1>3. CASE peekFront
  <2>1. CASE ~session.ctx \/ pending = <<>>
    <3>1. session' = [session EXCEPT !.writer = "select"]
      BY <1>3, <2>1 DEF peekFront
    <3>2. session' \in SessionType
      BY <1>1, <3>1 DEF SessionType
    <3> QED
      BY <1>1, <1>3, <2>1, <3>1, <3>2, SessionStep, NoEvent DEF peekFront, SessionType
  <2>2. CASE ~(~session.ctx \/ pending = <<>>)
    <3>1. session' = [session EXCEPT !.writer = "gen", !.op = Head(pending)]
      BY <1>3, <2>2 DEF peekFront
    <3>2. Head(pending) \in Intents
      BY <1>1, <2>2
    <3>3. session' \in SessionType
      BY <1>1, <3>1, <3>2 DEF SessionType
    <3> QED
      BY <1>1, <1>3, <2>2, <3>1, <3>3, SessionStep, NoEvent DEF peekFront, SessionType
  <2> QED
    BY <2>1, <2>2
<1>4. CASE generated
  <2>1. session' \in SessionType
    BY <1>1, <1>4 DEF generated, SessionType
  <2> QED
    BY <1>1, <1>4, <2>1, SessionStep, NoEvent DEF generated, SessionType, FrontInv
<1>5. CASE handleSendRequest
  <2>1. session' \in SessionType
    BY <1>1, <1>5 DEF handleSendRequest, SessionType
  <2> QED
    BY <1>1, <1>5, <2>1, SessionStep, NoEvent DEF handleSendRequest, SessionType
<1>6. CASE writerExits
  <2>1. session' \in SessionType
    <3>1. 0 \in 0..MaxSendQueue
      OBVIOUS
    <3> QED
      BY <1>1, <1>6, <3>1 DEF writerExits, SessionType
  <2> QED
    BY <1>1, <1>6, <2>1, SessionStep, NoEvent DEF writerExits, SessionType
<1>7. CASE Send
  <2>1. session' \in SessionType
    BY <1>1, <1>7 DEF Send, SessionType
  <2> QED
    BY <1>1, <1>7, <2>1, SessionStep, NoEvent DEF Send, SessionType, FrontInv
<1>8. CASE cancel
  <2>1. session' \in SessionType
    BY <1>1, <1>8 DEF cancel, SessionType
  <2> QED
    BY <1>1, <1>8, <2>1, SessionStep, NoEvent DEF cancel, SessionType, FrontInv
<1>9. CASE WatcherStep
  <2>1. session' \in SessionType
    BY <1>1, <1>9 DEF WatcherStep, watcherWaits, watchParentCancellation, watcherEnds, SessionType
  <2>2. /\ session'.n = session.n /\ session'.failed = session.failed
        /\ session'.writer = session.writer /\ session'.op = session.op
        /\ session'.ctx = session.ctx /\ session'.signal = session.signal
    BY <1>1, <1>9 DEF WatcherStep, watcherWaits, watchParentCancellation, watcherEnds, SessionType
  <2> QED
    BY <1>1, <1>9, <2>1, <2>2, SessionStep, NoEvent
       DEF WatcherStep, watcherWaits, watchParentCancellation, watcherEnds, FrontInv
<1>10. CASE connectionLost
  <2>1. session' \in SessionType
    BY <1>1, <1>10 DEF connectionLost, SessionType
  <2> QED
    BY <1>1, <1>10, <2>1, SessionStep, NoEvent DEF connectionLost, SessionType, FrontInv
<1> QED
  BY <1>2, <1>3, <1>4, <1>5, <1>6, <1>7, <1>8, <1>9, <1>10

-----------------------------------------------------------------------------
(* The writer's steps on the log.                                           *)

\* The writer takes the front off the log. It applied it to the desired keys, or the
\* key is desired anyway, or now lost; a key of which server and store came to
\* disagree is odd.
LEMMA FrontStep ==
    ASSUME KisInv, session.writer \in {"gen", "write"}, pending' = Tail(pending),
           UNCHANGED <<run, attempt, active, event, cancelled, entry, call, told>>,
           session' \in SessionType, session'.n = session.n,
           session'.writer \in {"drain", "select"},
           session'.writer = "select" => session'.failed,
           ~session'.failed => ~session.failed,
           desired' \subseteq Keys, server' \subseteq Keys, odd' \subseteq Keys,
           lost' \subseteq Keys, lost \subseteq lost',
           \A k \in Keys : k # session.op.key =>
              /\ k \in desired' <=> k \in desired
              /\ ~session'.failed => (k \in server' <=> k \in server)
              /\ k \in odd' <=> k \in odd,
           session.op.key \in lost' \/
              (session.op.key \in desired' <=> session.op.kind = "subscribe"),
           session'.failed \/ session.op.key \in odd' \/
              (session.op.key \in desired' <=> session.op.key \in server')
    PROVE  KisInv'
<1>1. /\ Log /\ pending # <<>> /\ Head(pending) = session.op
      /\ Len(pending) <= MaxPending + Cardinality(Keys)
  BY DEF KisInv, TypeOK, FrontInv, Log
<1>2. /\ Tail(pending) \in Seq(Intents) /\ Len(Tail(pending)) <= MaxPending + Cardinality(Keys)
  BY <1>1 DEF Log
<1>3. run \in {"serve", "stop"}
  BY DEF KisInv, Phases
<1>4. TypeOK'
  BY <1>2 DEF KisInv, TypeOK, SessionType, NoOp, NoCall
<1>5. Phases'
  BY <1>3 DEF KisInv, Phases
<1>6. FrontInv' /\ NoLostWakeup'
  BY DEF FrontInv, NoLostWakeup
<1>7. HeldWhereAssigned'
  <2> SUFFICES ASSUME NEW k \in Keys, k \notin lost'
               PROVE  isLogicallySubscribed(k)' <=> entry[k].broker = "kis"
    BY DEF HeldWhereAssigned
  <2>1. isLogicallySubscribed(k) <=> entry[k].broker = "kis"
    BY DEF KisInv, HeldWhereAssigned
  <2>2. isLogicallySubscribed(k)' <=> isLogicallySubscribed(k)
    BY <1>1, FrontApplied
  <2> QED
    BY <2>1, <2>2
<1>8. Unwritten'
  <2> SUFFICES ASSUME run = "serve", ~session'.failed, NEW k \in Keys, k \notin odd'
               PROVE  \/ k \in server' <=> k \in desired'
                      \/ \E i \in DOMAIN pending' : pending'[i].key = k
    BY <1>3 DEF Unwritten
  <2>1. CASE k = session.op.key
    BY <2>1
  <2>2. CASE k # session.op.key
    <3>1. \/ k \in server <=> k \in desired
          \/ \E i \in DOMAIN pending : pending[i].key = k
      BY <2>2 DEF KisInv, Unwritten
    <3>2. ASSUME NEW i \in DOMAIN pending, pending[i].key = k
          PROVE  i - 1 \in DOMAIN pending' /\ pending'[i - 1] = pending[i]
      BY <1>1, <2>2, <3>2 DEF Log
    <3> QED
      BY <2>2, <3>1, <3>2
  <2> QED
    BY <2>1, <2>2
<1> QED
  BY <1>4, <1>5, <1>6, <1>7, <1>8 DEF KisInv

\* A payload is written, or is not, or could not be generated.
LEMMA WriterSteps ==
    ASSUME KisInv, runTransportStatus, UNCHANGED <<entry, call>>,
           genFails \/ written \/ writeFails
    PROVE  KisInv'
<1>1. /\ session \in SessionType /\ pending \in Seq(Intents)
      /\ desired \subseteq Keys /\ server \subseteq Keys /\ odd \subseteq Keys
      /\ lost \subseteq Keys
      /\ session.writer \in {"gen", "write"} /\ UNCHANGED event
  BY DEF KisInv, TypeOK, SessionType, genFails, written, writeFails
<1>2. /\ session.op \in Intents /\ session.op.key \in Keys
      /\ session.op.kind \in {"subscribe", "unsubscribe"}
  <2>1. session.op \in Intents
    BY <1>1 DEF KisInv, FrontInv
  <2> QED
    BY <2>1 DEF Intents
<1>3. UNCHANGED told
  BY <1>1, NoEvent
<1>4. CASE genFails
  <2>1. session' = [session EXCEPT !.writer = "drain", !.op = NoOp]
    BY <1>4 DEF genFails
  <2>2. /\ session' \in SessionType /\ session'.n = session.n /\ session'.writer = "drain"
        /\ session'.failed = session.failed
    BY <1>1, <2>1 DEF SessionType
  <2>3. /\ pending' = Tail(pending) /\ odd' = odd \union {session.op.key}
        /\ UNCHANGED <<run, attempt, active, event, cancelled, server>>
    BY <1>4 DEF genFails
  <2>4. /\ session.op.kind = "subscribe" =>
              /\ lost' = IF session.op.key \in desired THEN lost ELSE lost \union {session.op.key}
              /\ desired' = desired
        /\ session.op.kind = "unsubscribe" =>
              lost' = lost /\ desired' = desired \ {session.op.key}
    BY <1>4 DEF genFails, removeDesiredLocked
  <2> QED
    BY <1>1, <1>2, <1>3, <2>2, <2>3, <2>4, FrontStep
<1>5. CASE written
  <2>1. session' = [session EXCEPT !.writer = "drain", !.op = NoOp]
    BY <1>5 DEF written
  <2>2. /\ session' \in SessionType /\ session'.n = session.n /\ session'.writer = "drain"
        /\ session'.failed = session.failed
    BY <1>1, <2>1 DEF SessionType
  <2>3. /\ pending' = Tail(pending)
        /\ UNCHANGED <<run, attempt, active, event, cancelled, lost>>
    BY <1>5 DEF written
  <2>4. /\ session.op.kind = "subscribe" =>
              /\ desired' = desired \union {session.op.key}
              /\ \/ server' = server \union {session.op.key} /\ odd' = odd \ {session.op.key}
                 \/ server' = server /\ odd' = odd \union {session.op.key}
        /\ session.op.kind = "unsubscribe" =>
              /\ desired' = desired \ {session.op.key}
              /\ server' = server \ {session.op.key} /\ odd' = odd \ {session.op.key}
    BY <1>5 DEF written, applied, upsertDesiredLocked, removeDesiredLocked
  <2> QED
    BY <1>1, <1>2, <1>3, <2>2, <2>3, <2>4, FrontStep
<1>6. CASE writeFails /\ session.op.kind = "unsubscribe"
  <2>1. session' = [session EXCEPT !.writer = "select", !.op = NoOp, !.failed = TRUE]
    BY <1>6 DEF writeFails
  <2>2. /\ session' \in SessionType /\ session'.n = session.n /\ session'.writer = "select"
        /\ session'.failed
    BY <1>1, <2>1 DEF SessionType
  <2>3. /\ pending' = Tail(pending) /\ desired' = desired \ {session.op.key}
        /\ UNCHANGED <<run, attempt, active, event, cancelled, server, odd, lost>>
    BY <1>6 DEF writeFails, removeDesiredLocked
  <2> QED
    BY <1>1, <1>2, <1>3, <1>6, <2>2, <2>3, FrontStep
<1>7. CASE writeFails /\ session.op.kind = "subscribe"
  <2>1. session' = [session EXCEPT !.writer = "select", !.op = NoOp, !.failed = TRUE]
    BY <1>7 DEF writeFails
  <2>2. /\ session' \in SessionType /\ session'.n = session.n /\ session'.writer = "select"
        /\ session'.failed
    BY <1>1, <2>1 DEF SessionType
  <2>3. UNCHANGED <<pending, desired, run, attempt, active, event, cancelled, server, odd, lost>>
    BY <1>7 DEF writeFails
  <2>4. TypeOK'
    BY <1>3, <2>2, <2>3 DEF KisInv, TypeOK, SessionType, NoOp, NoCall
  <2>5. run \in {"serve", "stop"}
    BY <1>1 DEF KisInv, Phases
  <2>6. Phases'
    BY <1>3, <2>2, <2>3, <2>5 DEF KisInv, Phases
  <2>7. FrontInv' /\ NoLostWakeup' /\ Unwritten'
    BY <2>2 DEF FrontInv, NoLostWakeup, Unwritten
  <2>8. HeldWhereAssigned'
    BY <2>3, LogicalUnchanged DEF KisInv, HeldWhereAssigned
  <2> QED
    BY <2>4, <2>6, <2>7, <2>8 DEF KisInv
<1> QED
  BY <1>2, <1>4, <1>5, <1>6, <1>7

-----------------------------------------------------------------------------
(* The supervisor's steps.                                                  *)

\* A step of the supervisor that leaves the log, the manager and the callers alone,
\* outside "startWriter" and "serve" once it is taken, keeps what is about the log.
LEMMA LogUntouched ==
    ASSUME KisInv, UNCHANGED <<pending, desired, lost, entry, call>>,
           run' \notin {"startWriter", "serve"},
           session'.writer \in {"gen", "write"} =>
              session'.writer = session.writer /\ session'.op = session.op
    PROVE  FrontInv' /\ NoLostWakeup' /\ HeldWhereAssigned' /\ Unwritten'
<1>1. FrontInv' /\ NoLostWakeup' /\ Unwritten'
  BY DEF KisInv, FrontInv, NoLostWakeup, Unwritten
<1>2. HeldWhereAssigned'
  BY LogicalUnchanged DEF KisInv, HeldWhereAssigned
<1> QED
  BY <1>1, <1>2

\* Dialing, attaching a session, and taking it away.
LEMMA SupervisorSteps ==
    ASSUME KisInv, UNCHANGED <<entry, call>>,
           \/ /\ runTransportStatus
              /\ \/ waitNextAttempt \/ dialed \/ dialFails \/ dialTimesOut
                 \/ attachSession \/ readFails \/ stopped
           \/ startRun /\ UNCHANGED told
    PROVE  KisInv'
<1>1. /\ session \in SessionType /\ Phases /\ TypeOK
  BY DEF KisInv, TypeOK, SessionType
<1>2. CASE startRun \/ (runTransportStatus /\ (waitNextAttempt \/ dialTimesOut))
  <2>1. /\ UNCHANGED <<pending, desired, attempt, active, session, event, cancelled,
                       server, odd, lost, told>>
        /\ run \in {"idle", "backoff", "dial"}
        /\ run' \in {"dial", "ended", "panicked"}
    BY <1>2, NoEvent DEF startRun, waitNextAttempt, dialTimesOut
  <2>2. TypeOK'
    BY <1>1, <2>1 DEF TypeOK, NoOp, NoCall
  <2>3. Phases'
    BY <1>1, <2>1 DEF Phases
  <2> QED
    BY <2>1, <2>2, <2>3, LogUntouched DEF KisInv
<1>3. CASE runTransportStatus /\ dialed
  <2>1. /\ UNCHANGED <<pending, desired, attempt, active, event, cancelled, lost>>
        /\ run = "dial" /\ run' = "attach" /\ server' = {} /\ odd' = {}
        /\ session' = NewSession(session.n + 1) /\ session.n < MaxSessions
    BY <1>3 DEF dialed
  <2>2. session.n + 1 \in 0..MaxSessions
    BY <1>1, <2>1 DEF SessionType
  <2>3. session' \in SessionType /\ session'.writer = "none"
    <3>1. session' = [n |-> session.n + 1, up |-> TRUE, ctx |-> TRUE, writer |-> "none",
                      op |-> NoOp, signal |-> FALSE, queued |-> 0, watcher |-> "new",
                      failed |-> FALSE]
      BY <2>1 DEF NewSession, NoSession
    <3>2. 0 \in 0..MaxSendQueue
      OBVIOUS
    <3> QED
      BY <2>2, <3>1, <3>2 DEF SessionType
  <2>4. UNCHANGED told
    BY <1>3, <2>1, NoEvent
  <2>5. TypeOK'
    BY <1>1, <2>1, <2>3, <2>4 DEF TypeOK, SessionType, NoOp, NoCall
  <2>6. Phases'
    BY <1>1, <2>1, <2>3, <2>4 DEF Phases
  <2> QED
    BY <2>1, <2>3, <2>5, <2>6, LogUntouched DEF KisInv
<1>4. CASE runTransportStatus /\ dialFails
  <2>1. /\ UNCHANGED <<pending, desired, active, session, cancelled, server, odd, lost>>
        /\ run = "dial" /\ run' \in {"backoff", "ended"} /\ attempt' \in {attempt, 1}
        /\ event' \in {event, "reconnecting"}
    BY <1>4 DEF dialFails
  <2>2. told' \in {told, "reconnecting"}
    BY <1>4, <2>1 DEF runTransportStatus
  <2>3. TypeOK'
    BY <1>1, <2>1, <2>2 DEF TypeOK, NoOp, NoCall
  <2>4. Phases'
    BY <1>1, <2>1, <2>2 DEF Phases
  <2> QED
    BY <2>1, <2>3, <2>4, LogUntouched DEF KisInv
<1>5. CASE runTransportStatus /\ attachSession
  <2>1. /\ UNCHANGED <<pending, desired, attempt, session, cancelled, server, odd, lost>>
        /\ run = "attach" /\ run' = "ready" /\ active' = session.n
        /\ event' \in {"connected", "reconnected"}
    BY <1>5 DEF attachSession
  <2>2. told' \in {told, "connected"}
    BY <1>5, <2>1 DEF runTransportStatus
  <2>3. TypeOK'
    BY <1>1, <2>1, <2>2 DEF TypeOK, SessionType, NoOp, NoCall
  <2>4. Phases'
    BY <1>1, <2>1, <2>2 DEF Phases
  <2> QED
    BY <2>1, <2>3, <2>4, LogUntouched DEF KisInv
<1>6. CASE runTransportStatus /\ readFails
  <2>1. /\ UNCHANGED <<pending, desired, attempt, event, cancelled, server, odd, lost>>
        /\ run = "serve" /\ run' = "stop" /\ active' = 0
        /\ session' = [session EXCEPT !.ctx = FALSE]
    BY <1>6 DEF readFails
  <2>2. /\ session' \in SessionType
        /\ session'.writer = session.writer /\ session'.op = session.op
    BY <1>1, <2>1 DEF SessionType
  <2>3. UNCHANGED told
    BY <1>6, <2>1, NoEvent
  <2>4. TypeOK'
    BY <1>1, <2>1, <2>2, <2>3 DEF TypeOK, SessionType, NoOp, NoCall
  <2>5. Phases'
    BY <1>1, <2>1, <2>2, <2>3 DEF Phases
  <2> QED
    BY <2>1, <2>2, <2>4, <2>5, LogUntouched DEF KisInv
<1>7. CASE runTransportStatus /\ stopped
  <2>1. /\ UNCHANGED <<pending, desired, active, session, cancelled, server, odd, lost>>
        /\ run = "stop" /\ session.writer = "exited" /\ run' \in {"ended", "backoff"}
        /\ attempt' = 1 /\ event' \in {"disconnected", "reconnecting"}
    BY <1>7 DEF stopped
  <2>2. event' # event /\ told' = event'
    BY <1>1, <1>7, <2>1 DEF runTransportStatus, Phases
  <2>3. TypeOK'
    BY <1>1, <2>1, <2>2 DEF TypeOK, NoOp, NoCall
  <2>4. Phases'
    BY <1>1, <2>1, <2>2 DEF Phases
  <2> QED
    BY <2>1, <2>3, <2>4, LogUntouched DEF KisInv
<1> QED
  BY <1>2, <1>3, <1>4, <1>5, <1>6, <1>7

\* The log is rebuilt while no writer runs.
LEMMA ReadyStep ==
    ASSUME KisInv, UNCHANGED <<entry, call>>, runTransportStatus, onReady
    PROVE  KisInv'
<1>1. /\ UNCHANGED <<attempt, active, session, event, cancelled, server, odd, lost>>
      /\ run = "ready" /\ run' = "startWriter" /\ resetForReconnect /\ Log
      /\ TypeOK /\ Phases
  BY DEF onReady, KisInv, TypeOK, Log
<1>2. /\ Log' /\ Len(pending') <= Cardinality(Keys)
      /\ \A k \in desired' : \E i \in DOMAIN pending' : pending'[i].key = k
      /\ \A k \in Keys : isLogicallySubscribed(k)' <=> isLogicallySubscribed(k)
  BY <1>1, ResetRebuilds
<1>3. UNCHANGED told
  BY <1>1, NoEvent
<1>4. pending' \in Seq(Intents) /\ Len(pending') <= MaxPending + Cardinality(Keys)
      /\ desired' \subseteq Keys
  BY <1>2 DEF Log
<1>5. TypeOK'
  BY <1>1, <1>3, <1>4 DEF TypeOK, NoOp, NoCall
<1>6. Phases'
  BY <1>1, <1>3 DEF Phases
<1>7. FrontInv' /\ NoLostWakeup'
  BY <1>1 DEF FrontInv, NoLostWakeup, Phases
<1>8. HeldWhereAssigned'
  BY <1>1, <1>2 DEF KisInv, HeldWhereAssigned
<1>9. Unwritten'
  BY <1>1, <1>2 DEF Phases, Unwritten
<1> QED
  BY <1>5, <1>6, <1>7, <1>8, <1>9 DEF KisInv

\* The new session's writer starts with a signal.
LEMMA StartWriterStep ==
    ASSUME KisInv, UNCHANGED <<entry, call>>, runTransportStatus, StartWriter
    PROVE  KisInv'
<1>1. /\ UNCHANGED <<pending, desired, attempt, active, event, cancelled, server, odd, lost>>
      /\ run = "startWriter" /\ run' = "serve" /\ session \in SessionType
      /\ session' = [session EXCEPT !.writer = "select", !.signal = TRUE]
      /\ TypeOK /\ Phases /\ Unwritten
  BY DEF StartWriter, KisInv, TypeOK, SessionType
<1>2. /\ session' \in SessionType /\ session'.n = session.n
      /\ session'.failed = session.failed /\ session'.writer = "select" /\ session'.signal
  BY <1>1 DEF SessionType
<1>3. UNCHANGED told
  BY <1>1, NoEvent
<1>4. TypeOK'
  BY <1>1, <1>2, <1>3 DEF TypeOK, SessionType, NoOp, NoCall
<1>5. Phases' /\ Unwritten'
  BY <1>1, <1>2, <1>3 DEF Phases, Unwritten
<1>6. FrontInv' /\ NoLostWakeup'
  BY <1>2 DEF FrontInv, NoLostWakeup
<1>7. HeldWhereAssigned'
  BY <1>1, LogicalUnchanged DEF KisInv, HeldWhereAssigned
<1> QED
  BY <1>4, <1>5, <1>6, <1>7 DEF KisInv

-----------------------------------------------------------------------------
(* The callers' steps.                                                      *)

Entries == [count : 0..MaxCount, broker : {"none", "kis", "other"}]

\* An intent added behind the log moves none of those in it.
LEMMA AppendKeeps ==
    ASSUME NEW log \in Seq(Intents), NEW o \in Intents
    PROVE  /\ \A i \in DOMAIN log : i \in DOMAIN Append(log, o) /\ Append(log, o)[i] = log[i]
           /\ log # <<>> => Append(log, o) # <<>> /\ Head(Append(log, o)) = Head(log)
<1>1. DOMAIN log = 1..Len(log) /\ Len(log) \in Nat
  OBVIOUS
<1>2. DOMAIN Append(log, o) = 1..(Len(log) + 1)
  OBVIOUS
<1>3. \A i \in 1..Len(log) : i \in 1..(Len(log) + 1) /\ Append(log, o)[i] = log[i]
  BY <1>1
<1>4. log # <<>> => Append(log, o) # <<>> /\ Head(Append(log, o)) = Head(log)
  OBVIOUS
<1> QED
  BY <1>1, <1>2, <1>3, <1>4

\* An intent is recorded for a key that is assigned to the KIS broker, or taken from
\* it, in the same call.
LEMMA CallStep ==
    ASSUME KisInv, NEW k \in Keys, NEW kind \in {"subscribe", "unsubscribe"},
           call = NoCall, callTransport(kind, k), UNCHANGED told,
           entry' \in [Keys -> Entries],
           \A l \in Keys : l # k => entry'[l] = entry[l],
           entry'[k].broker = "kis" <=> kind = "subscribe"
    PROVE  KisInv'
<1>1. /\ Log /\ TypeOK /\ Phases
      /\ UNCHANGED <<desired, run, attempt, active, session, event, cancelled, server, odd, told>>
      /\ lost' = lost \ {k}
  BY DEF KisInv, TypeOK, Log, callTransport
<1> DEFINE op == newIntent(kind, k)
<1>2. op \in Intents
  BY DEF newIntent, Intents
<1>3. /\ Changes(kind, k) => /\ pending' = Append(pending, op) /\ Len(pending) < MaxPending
                             /\ call' = [pc |-> "load"]
      /\ ~Changes(kind, k) => pending' = pending /\ call' = NoCall
  BY DEF callTransport, record
<1> HIDE DEF op
<1>4. pending' \in Seq(Intents) /\ Len(pending') <= MaxPending + Cardinality(Keys)
  <2>1. pending \in Seq(Intents) /\ Len(pending) <= MaxPending + Cardinality(Keys)
    BY <1>1 DEF TypeOK
  <2>2. CASE Changes(kind, k)
    <3>1. Append(pending, op) \in Seq(Intents) /\ Len(Append(pending, op)) = Len(pending) + 1
      BY <1>2, <2>1
    <3> QED
      BY <1>3, <2>1, <2>2, <3>1
  <2>3. CASE ~Changes(kind, k)
    BY <1>3, <2>1, <2>3
  <2> QED
    BY <2>2, <2>3
<1>5. TypeOK'
  <2>1. call' \in {NoCall, [pc |-> "load"]}
    BY <1>3
  <2> QED
    BY <1>1, <1>4, <2>1 DEF TypeOK, Entries, NoOp
<1>6. Phases'
  BY <1>1 DEF Phases
<1>7. FrontInv'
  <2>1. pending # <<>> => pending' # <<>> /\ Head(pending') = Head(pending)
    <3>1. CASE Changes(kind, k)
      BY <1>1, <1>2, <1>3, <3>1, AppendKeeps DEF Log
    <3>2. CASE ~Changes(kind, k)
      BY <1>3, <3>2
    <3> QED
      BY <3>1, <3>2
  <2> QED
    BY <1>1, <2>1 DEF KisInv, FrontInv
<1>8. NoLostWakeup'
  <2>1. CASE Changes(kind, k)
    BY <1>3, <2>1 DEF NoLostWakeup
  <2>2. CASE ~Changes(kind, k)
    BY <1>1, <1>3, <2>2 DEF KisInv, NoLostWakeup, NoCall
  <2> QED
    BY <2>1, <2>2
<1>9. HeldWhereAssigned'
  <2> SUFFICES ASSUME NEW l \in Keys, l \notin lost \ {k}
               PROVE  isLogicallySubscribed(l)' <=> entry'[l].broker = "kis"
    BY <1>1 DEF HeldWhereAssigned
  <2>1. CASE Changes(kind, k)
    <3>1. isLogicallySubscribed(l)' <=>
            IF l = k THEN kind = "subscribe" ELSE isLogicallySubscribed(l)
      BY <1>1, <1>3, <2>1, AppendDecides DEF op
    <3> QED
      BY <3>1 DEF KisInv, HeldWhereAssigned
  <2>2. CASE ~Changes(kind, k)
    <3>1. isLogicallySubscribed(l)' <=> isLogicallySubscribed(l)
      BY <1>1, <1>3, <2>2, LogicalUnchanged
    <3>2. isLogicallySubscribed(k) <=> kind = "subscribe"
      BY <2>2 DEF Changes
    <3> QED
      BY <3>1, <3>2 DEF KisInv, HeldWhereAssigned
  <2> QED
    BY <2>1, <2>2
<1>10. Unwritten'
  <2>1. \A i \in DOMAIN pending : i \in DOMAIN pending' /\ pending'[i] = pending[i]
    <3>1. CASE Changes(kind, k)
      BY <1>1, <1>2, <1>3, <3>1, AppendKeeps DEF Log
    <3>2. CASE ~Changes(kind, k)
      BY <1>3, <3>2
    <3> QED
      BY <3>1, <3>2
  <2> QED
    BY <1>1, <2>1 DEF KisInv, Unwritten
<1> QED
  BY <1>5, <1>6, <1>7, <1>8, <1>9, <1>10 DEF KisInv

\* A call that only counts references, or concerns the other broker.
LEMMA CountStep ==
    ASSUME KisInv, UNCHANGED <<wsVars, call, told>>, entry' \in [Keys -> Entries],
           \A l \in Keys : entry'[l].broker = "kis" <=> entry[l].broker = "kis"
    PROVE  KisInv'
<1>1. TypeOK' /\ Phases' /\ FrontInv' /\ NoLostWakeup' /\ Unwritten'
  BY DEF KisInv, TypeOK, Entries, NoOp, NoCall, Phases, FrontInv, NoLostWakeup, Unwritten, wsVars
<1>2. HeldWhereAssigned'
  BY LogicalUnchanged DEF KisInv, HeldWhereAssigned, wsVars
<1> QED
  BY <1>1, <1>2 DEF KisInv

\* The manager's calls.
LEMMA ManagerSteps ==
    ASSUME KisInv, NEW k \in Keys, ManagerCall(k)
    PROVE  KisInv'
<1>1. entry \in [Keys -> Entries] /\ entry[k] \in Entries
  BY DEF KisInv, TypeOK, Entries
<1>2. \A count \in 0..MaxCount, broker \in {"none", "kis", "other"} :
        assign(k, count, broker) =>
           /\ entry' \in [Keys -> Entries]
           /\ \A l \in Keys : l # k => entry'[l] = entry[l]
           /\ entry'[k].broker = broker
  BY <1>1 DEF assign, Entries
<1>3. /\ entry[k].count \in 0..MaxCount /\ entry[k].broker \in {"none", "kis", "other"}
      /\ 0 \in 0..MaxCount /\ 1 \in 0..MaxCount
  BY <1>1, FeedLimits DEF Entries
<1>4. CASE SubscribeAgain(k) \/ SubscribeOther(k) \/ ReleaseOne(k) \/ ReleaseOther(k)
  <2>1. PICK count \in 0..MaxCount, broker \in {"none", "kis", "other"} :
           /\ assign(k, count, broker)
           /\ broker = "kis" <=> entry[k].broker = "kis"
           /\ UNCHANGED <<wsVars, call, told>>
    <3>1. CASE SubscribeAgain(k)
      <4>1. entry[k].count + 1 \in 0..MaxCount
        BY <1>3, <3>1 DEF SubscribeAgain
      <4> QED
        BY <1>3, <3>1, <4>1 DEF SubscribeAgain
    <3>2. CASE SubscribeOther(k)
      BY <1>3, <3>2 DEF SubscribeOther, Absent
    <3>3. CASE ReleaseOne(k)
      <4>1. entry[k].count - 1 \in 0..MaxCount
        BY <1>3, <3>3 DEF ReleaseOne
      <4> QED
        BY <1>3, <3>3, <4>1 DEF ReleaseOne
    <3>4. CASE ReleaseOther(k)
      BY <1>3, <3>4 DEF ReleaseOther
    <3> QED
      BY <1>4, <3>1, <3>2, <3>3, <3>4
  <2> QED
    BY <1>2, <2>1, CountStep
<1>5. CASE SubscribeKis(k) \/ ReleaseKis(k) \/ SwapToKis(k) \/ SwapToOther(k)
  <2>1. PICK kind \in {"subscribe", "unsubscribe"}, count \in 0..MaxCount,
             broker \in {"none", "kis", "other"} :
           /\ assign(k, count, broker) /\ callTransport(kind, k)
           /\ broker = "kis" <=> kind = "subscribe"
           /\ call = NoCall /\ UNCHANGED told
    BY <1>3, <1>5 DEF SubscribeKis, ReleaseKis, SwapToKis, SwapToOther
  <2> QED
    BY <1>2, <2>1, CallStep
<1> QED
  BY <1>4, <1>5 DEF ManagerCall

\* A caller looks the active session up and wakes it.
LEMMA WakeSteps ==
    ASSUME KisInv, loadActive \/ wake
    PROVE  KisInv'
<1>1. TypeOK /\ Phases /\ session \in SessionType
  BY DEF KisInv, TypeOK, SessionType
<1>2. CASE loadActive
  <2>1. /\ UNCHANGED <<pending, desired, run, attempt, active, session, event, cancelled,
                       server, odd, lost, entry, told>>
        /\ call' = [pc |-> "wake", n |-> active]
    BY <1>2 DEF loadActive, wsVars
  <2>2. TypeOK'
    BY <1>1, <2>1 DEF TypeOK, NoOp, NoCall
  <2>3. Phases' /\ FrontInv' /\ Unwritten'
    BY <2>1 DEF KisInv, Phases, FrontInv, Unwritten
  <2>4. NoLostWakeup'
    BY <1>1, <2>1 DEF NoLostWakeup, Phases
  <2>5. HeldWhereAssigned'
    BY <2>1, LogicalUnchanged DEF KisInv, HeldWhereAssigned
  <2> QED
    BY <2>2, <2>3, <2>4, <2>5 DEF KisInv
<1>3. CASE wake
  <2>1. /\ UNCHANGED <<pending, desired, run, attempt, active, event, cancelled,
                       server, odd, lost, entry, told>>
        /\ call' = NoCall /\ call.pc = "wake"
        /\ session' = IF call.n = session.n
                      THEN [session EXCEPT !.signal = session.writer # "exited"] ELSE session
    BY <1>3 DEF wake, WakeWriter
  <2>2. /\ session' \in SessionType /\ session'.n = session.n /\ session'.op = session.op
        /\ session'.writer = session.writer /\ session'.ctx = session.ctx
        /\ session'.failed = session.failed
        /\ call.n = session.n /\ session.writer = "select" => session'.signal
        /\ call.n # session.n => session'.signal = session.signal
    BY <1>1, <2>1 DEF SessionType
  <2>3. TypeOK'
    BY <1>1, <2>1, <2>2 DEF TypeOK, SessionType, NoOp, NoCall
  <2>4. Phases' /\ FrontInv' /\ Unwritten'
    BY <2>1, <2>2 DEF KisInv, Phases, FrontInv, Unwritten
  <2>5. NoLostWakeup'
    BY <2>1, <2>2 DEF KisInv, NoLostWakeup
  <2>6. HeldWhereAssigned'
    BY <2>1, LogicalUnchanged DEF KisInv, HeldWhereAssigned
  <2> QED
    BY <2>3, <2>4, <2>5, <2>6 DEF KisInv
<1> QED
  BY <1>2, <1>3

-----------------------------------------------------------------------------
(* The theorems.                                                            *)

\* The invariant is inductive.
LEMMA KisInvStep == KisInv /\ [Next]_vars => KisInv'
<1> SUFFICES ASSUME KisInv, [Next]_vars PROVE KisInv'
  OBVIOUS
<1>1. CASE FeedStep
  BY <1>1, SessionSteps, WriterSteps, SupervisorSteps, ReadyStep, StartWriterStep
     DEF FeedStep, WsStep, WriterStep, SupervisorStep
<1>2. CASE Start
  BY <1>2, SupervisorSteps DEF Start
<1>3. CASE \E k \in Keys : ManagerCall(k)
  BY <1>3, ManagerSteps
<1>4. CASE loadActive \/ wake
  BY <1>4, WakeSteps
<1>5. CASE UNCHANGED vars
  <2>1. entry' \in [Keys -> Entries]
    BY <1>5 DEF KisInv, TypeOK, Entries, vars
  <2> QED
    BY <1>5, <2>1, CountStep DEF vars
<1> QED
  BY <1>1, <1>2, <1>3, <1>4, <1>5 DEF Next

\* It holds in every reachable state.
LEMMA KisInvAlways == Spec => []KisInv
<1>1. Init => KisInv
  <2> SUFFICES ASSUME Init PROVE KisInv
    OBVIOUS
  <2>1. session = NoSession /\ session \in SessionType
    BY DEF Init, WsInit, NoSession, SessionType
  <2>2. session.writer = "none" /\ session.n = 0
    BY <2>1 DEF NoSession
  <2>3. pending \in Seq(Intents) /\ Len(pending) = 0 /\ DOMAIN pending = {}
    BY DEF Init, WsInit
  <2>4. entry \in [Keys -> Entries] /\ \A k \in Keys : entry[k].broker = "none"
    BY DEF Init, Entries, Absent
  <2>5. TypeOK
    <3>1. 0 \in 0..1 /\ 0 \in 0..MaxSessions /\ Len(pending) <= MaxPending + Cardinality(Keys)
      BY <2>3
    <3> QED
      BY <2>1, <2>3, <2>4, <3>1 DEF Init, WsInit, TypeOK, SessionType, Entries
  <2>6. Phases /\ FrontInv /\ NoLostWakeup /\ Unwritten
    BY <2>2 DEF Init, WsInit, Phases, FrontInv, NoLostWakeup, Unwritten
  <2>7. HeldWhereAssigned
    BY <2>3, <2>4 DEF Init, WsInit, HeldWhereAssigned, isLogicallySubscribed
  <2> QED
    BY <2>5, <2>6, <2>7 DEF KisInv
<1> QED
  BY <1>1, KisInvStep, PTL DEF Spec

\* The log has one writer, which handles its front: no session's writer outlives it
\* into the next one (Stop waits for it, session.go), so drainPending never removes an
\* intent it did not write.
THEOREM LogHasOneWriter == Spec => []WriterOwnsFront
<1>1. KisInv => WriterOwnsFront
  BY DEF KisInv, Phases, FrontInv, WriterOwnsFront
<1> QED
  BY <1>1, KisInvAlways, PTL

\* No wake-up is lost between the record of an intent, the lookup of the session and
\* its signal, however the session changes meanwhile (replay.go, supervisor.go).
THEOREM WritersAreWoken == Spec => []NoLostWakeup
<1>1. KisInv => NoLostWakeup
  BY DEF KisInv
<1> QED
  BY <1>1, KisInvAlways, PTL

\* The KIS transport holds what the manager assigned to it and nothing else, over
\* releases, swaps and reconnects (resetForReconnect), but for keys whose payload
\* could not be generated.
THEOREM TransportHoldsAssigned == Spec => []HeldWhereAssigned
<1>1. KisInv => HeldWhereAssigned
  BY DEF KisInv
<1> QED
  BY <1>1, KisInvAlways, PTL

\* When the log is written, server and store agree on every key the server did not
\* refuse and whose payload could be generated (drainPending, resetForReconnect).
THEOREM WrittenMeansAgreed == Spec => []ServerAgrees
<1>1. KisInv => ServerAgrees
  <2>1. pending = <<>> => DOMAIN pending = {}
    OBVIOUS
  <2> QED
    BY <2>1 DEF KisInv, Unwritten, ServerAgrees
<1> QED
  BY <1>1, KisInvAlways, PTL

\* The engine is told of the end of every session before the next dial
\* (supervisor.go, runTransportStatus).
THEOREM EngineIsTold == Spec => []ToldDown
<1>1. KisInv => ToldDown
  BY DEF KisInv, Phases, ToldDown
<1> QED
  BY <1>1, KisInvAlways, PTL

=============================================================================
