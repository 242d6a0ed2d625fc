----------------------------- MODULE WsMux_proof -----------------------------
(***************************************************************************)
(* The websocket multiplexer: a worker's dials, reports, losses and writes *)
(* come in an order in which nothing stale is ever acted upon, mux and     *)
(* worker do not wait for each other, no caller's command is lost and no   *)
(* worker forgotten -- for any number of workers, any keys, any            *)
(* capacities, with and without heartbeats, for any bounds.                *)
(***************************************************************************)
EXTENDS WsMux, WellFoundedInduction, TLAPS

-----------------------------------------------------------------------------
(* The inductive invariant. A worker goes round: a dial is ordered, made,  *)
(* reported, handled (perhaps with a replay), and the connection is in use *)
(* until its read loop reports the loss. The predicates say where it is.   *)

Ready == {"connected", "reconnected"}
Reports == Ready \union {"connectFailed"}
Life == Reports \union {"disconnected"}
Dials == {"connect", "reconnect"}

\* A dial is ordered, or is about to be, is under way, or is about to be reported.
DialCmd(w) == \E i \in DOMAIN mailbox[w] : mailbox[w][i].type \in Dials
Reconnecting(w) == muxPc.st = "reconnect" /\ muxPc.w = w
Dialing(w) == wpc[w].st = "dialing"
Telling(w, kinds) == wpc[w].st = "publish" /\ wpc[w].ev.kind \in kinds
Coming(w) == DialCmd(w) \/ Reconnecting(w) \/ Dialing(w) \/ Telling(w, Reports)

\* An event of the worker is in sink.
Sunk(w, kinds) == \E i \in DOMAIN sink : sink[i].w = w /\ sink[i].kind \in kinds

\* The mux replays the worker's keys.
Replaying(w) == muxPc.st = "replay" /\ muxPc.w = w

\* A read loop will report a loss, or may still do so.
Reporter(r) ==
    r.st = "failed" \/ (r.gen = conn[r.w].gen /\ conn[r.w].st # "nil")
LiveReader(w) == \E r \in readers : r.w = w /\ Reporter(r)

\* A command that needs a connection is in the mailbox.
WriteCmd(w) == \E i \in DOMAIN mailbox[w] : mailbox[w][i].type \notin Dials

\* A connection was made whose heartbeat has not begun.
Fresh(w) == Telling(w, Ready) \/ Sunk(w, Ready) \/ Replaying(w)

\* One round at a time: a dial under way excludes everything that is left of the
\* round before.
RoundInv(w) ==
    /\ Reconnecting(w) => ~DialCmd(w) /\ ~Dialing(w) /\ ~Telling(w, Reports)
    /\ Dialing(w) \/ Telling(w, Reports) => mailbox[w] = << >>
    /\ Coming(w) => /\ ~Sunk(w, Life) /\ ~LiveReader(w) /\ ~Replaying(w)
                    /\ state[w] # "connected"
    /\ Sunk(w, Reports) => state[w] # "connected" /\ ~Replaying(w)
    /\ Replaying(w) => state[w] # "connected"
    /\ Sunk(w, {"connectFailed", "disconnected"}) => ~LiveReader(w)

\* Where a connection is believed to be, there is one.
ConnInv(w) ==
    /\ wpc[w].st # "exited"
       /\ (state[w] = "connected" \/ Fresh(w) \/ WriteCmd(w)) => conn[w].st # "nil"
    /\ wpc[w].st = "exited" => closing /\ mailbox[w] = << >>
    /\ closing => state[w] = "stopped"

\* Events of a worker's life come one at a time, but for a loss behind the report
\* of the connection lost.
SinkInv ==
    \A i, j \in DOMAIN sink :
        i < j /\ sink[i].w = sink[j].w /\ sink[i].kind \in Life /\ sink[j].kind \in Life =>
            sink[i].kind \in Ready /\ sink[j].kind = "disconnected"

\* Losses, reports and read loops are of the current connection.
GenInv ==
    /\ \A i \in DOMAIN sink : sink[i].kind = "disconnected" =>
          sink[i].tag = conn[sink[i].w].gen /\ conn[sink[i].w].st # "alive"
    /\ \A w \in Workers : Telling(w, Ready) => wpc[w].ev.tag = conn[w].gen
    /\ \A w \in Workers : wpc[w].st = "publish" =>
          wpc[w].ev.w = w /\ wpc[w].ev.kind \in Reports \union {"encodeFailed"}
    /\ \A r \in readers : r.gen <= conn[r.w].gen
    /\ \A r \in readers : r.st = "failed" =>
          r.gen = conn[r.w].gen /\ conn[r.w].st # "alive"
    /\ \A r, q \in readers : r.w = q.w /\ r.gen = q.gen => r = q

\* A dial is the last of its mailbox; a ping belongs to the connection it will be
\* written to.
MailInv ==
    \A w \in Workers : \A i \in DOMAIN mailbox[w] :
        /\ mailbox[w][i].type \in Dials => i = Len(mailbox[w])
        /\ mailbox[w][i].type = "ping" => mailbox[w][i].epoch = conn[w].gen

\* Heartbeat epochs count the connections; without heartbeats there are no ticks.
PingInv ==
    /\ \A w \in Workers : mode.ping /\ ~closing =>
          conn[w].gen = IF Fresh(w) THEN epoch[w] + 1 ELSE epoch[w]
    /\ tickers # {} \/ (\E i \in DOMAIN sink : sink[i].kind = "pingTick") => mode.ping

Cmds == {c \in IoCommand : c.act \in {"subscribe", "unsubscribe"} => c.key \in Keys}

Types ==
    /\ TypeOK
    /\ mailbox \in [Workers -> Seq(Cmds)]
    /\ muxPc.st = "replay" => muxPc.keys # << >>

MuxInv ==
    /\ Types /\ SinkInv /\ GenInv /\ MailInv /\ PingInv
    /\ \A w \in Workers : RoundInv(w) /\ ConnInv(w)

-----------------------------------------------------------------------------
(* Sequences: what taking from the front and adding at the end do.          *)

\* A queue without its first element.
LEMMA Taken ==
    ASSUME NEW S, NEW q \in Seq(S), q # << >>
    PROVE  /\ Head(q) \in S /\ Head(q) = q[1] /\ 1 \in DOMAIN q
           /\ Tail(q) \in Seq(S) /\ Len(Tail(q)) = Len(q) - 1 /\ Len(Tail(q)) \in Nat
           /\ \A i \in DOMAIN Tail(q) :
                 i \in Nat /\ i + 1 \in DOMAIN q /\ Tail(q)[i] = q[i + 1]
           /\ \A i \in DOMAIN q : i # 1 => i - 1 \in DOMAIN Tail(q) /\ Tail(q)[i - 1] = q[i]
<1>1. Len(q) \in Nat /\ Len(q) # 0 /\ DOMAIN q = 1..Len(q)
  OBVIOUS
<1>2. Head(q) \in S /\ Head(q) = q[1] /\ 1 \in DOMAIN q
  BY <1>1
<1>3. Tail(q) \in Seq(S) /\ Len(Tail(q)) = Len(q) - 1
  OBVIOUS
<1>4. Len(q) - 1 \in Nat /\ DOMAIN Tail(q) = 1..(Len(q) - 1)
  BY <1>1, <1>3
<1>5. \A i \in 1..(Len(q) - 1) : i \in Nat /\ i + 1 \in 1..Len(q) /\ Tail(q)[i] = q[i + 1]
  BY <1>1, <1>3
<1>6. ASSUME NEW i \in 1..Len(q), i # 1
      PROVE  i - 1 \in 1..(Len(q) - 1) /\ Tail(q)[i - 1] = q[i]
  <2>1. i - 1 \in 1..(Len(q) - 1) /\ (i - 1) + 1 = i
    BY <1>1, <1>6
  <2> QED
    BY <1>5, <2>1
<1> QED
  BY <1>1, <1>2, <1>3, <1>4, <1>5, <1>6

\* A queue with one more element.
LEMMA Added ==
    ASSUME NEW S, NEW q \in Seq(S), NEW e \in S
    PROVE  /\ Append(q, e) \in Seq(S) /\ Len(Append(q, e)) = Len(q) + 1 /\ Len(q) \in Nat
           /\ Append(q, e) # << >>
           /\ DOMAIN Append(q, e) = 1..(Len(q) + 1) /\ DOMAIN q = 1..Len(q)
           /\ Append(q, e)[Len(q) + 1] = e
           /\ \A i \in DOMAIN q : i \in DOMAIN Append(q, e) /\ Append(q, e)[i] = q[i]
           /\ \A i \in DOMAIN Append(q, e) : i \in DOMAIN q \/ i = Len(q) + 1
<1>1. Len(q) \in Nat /\ DOMAIN q = 1..Len(q)
  OBVIOUS
<1>2. Append(q, e) \in Seq(S) /\ Len(Append(q, e)) = Len(q) + 1
  OBVIOUS
<1>3. DOMAIN Append(q, e) = 1..(Len(q) + 1) /\ Append(q, e) # << >>
  BY <1>1, <1>2
<1>4. Append(q, e)[Len(q) + 1] = e
  BY <1>1
<1>5. \A i \in 1..Len(q) : i \in 1..(Len(q) + 1) /\ Append(q, e)[i] = q[i]
  BY <1>1
<1>6. \A i \in 1..(Len(q) + 1) : i \in 1..Len(q) \/ i = Len(q) + 1
  BY <1>1
<1> QED
  BY <1>1, <1>2, <1>3, <1>4, <1>5, <1>6

\* A set of numbers that is not empty has a least one.
LEMMA Least ==
    ASSUME NEW T, T \subseteq Nat, T # {}
    PROVE  \E x \in T : \A y \in T : x <= y
<1>1. PICK R : R = OpToRel(<, Nat)
  OBVIOUS
<1>2. IsWellFoundedOn(R, Nat)
  BY <1>1, NatLessThanWellFounded
<1>3. \A a, b \in Nat : a < b => <<a, b>> \in R
  BY <1>1 DEF OpToRel
<1>4. PICK x \in T : \A y \in T : ~ (<<y, x>> \in R)
  BY <1>2, WFMin
<1>5. \A y \in T : ~(y < x)
  BY <1>3, <1>4
<1> QED
  BY <1>4, <1>5

\* A list of keys without one of them.
LEMMA RemoveType ==
    ASSUME NEW q \in Seq(Keys), NEW k
    PROVE  removeDesiredKey(q, k) \in Seq(Keys)
<1>1. CASE ~Contains(q, k)
  BY <1>1 DEF removeDesiredKey
<1>2. CASE Contains(q, k)
  <2> DEFINE First(i) == q[i] = k /\ \A j \in 1..(i - 1) : q[j] # k
             at == CHOOSE i \in DOMAIN q : First(i)
  <2>1. Len(q) \in Nat /\ DOMAIN q = 1..Len(q)
    OBVIOUS
  <2>2. PICK T : T = {i \in 1..Len(q) : q[i] = k}
    OBVIOUS
  <2>3. T \subseteq Nat /\ T # {}
    BY <1>2, <2>1, <2>2 DEF Contains
  <2>4. PICK i \in T : \A j \in T : i <= j
    BY <2>3, Least
  <2>5. \A j \in 1..(i - 1) : j \in 1..Len(q) /\ ~(i <= j)
    BY <2>1, <2>2, <2>4
  <2>6. i \in DOMAIN q /\ First(i)
    BY <2>1, <2>2, <2>4, <2>5
  <2>7. at \in DOMAIN q
    BY <2>6
  <2>8. removeDesiredKey(q, k) = RemoveAt(q, at)
    BY <1>2 DEF removeDesiredKey
  <2> HIDE DEF at
  <2>9. at \in 1..Len(q)
    BY <2>1, <2>7
  <2>10. RemoveAt(q, at) = SubSeq(q, 1, at - 1) \o SubSeq(q, at + 1, Len(q))
    BY DEF RemoveAt
  <2>11. SubSeq(q, 1, at - 1) \in Seq(Keys) /\ SubSeq(q, at + 1, Len(q)) \in Seq(Keys)
    BY <2>1, <2>9
  <2> QED
    BY <2>8, <2>10, <2>11
<1> QED
  BY <1>1, <1>2

-----------------------------------------------------------------------------
(* Types of the operators.                                                  *)

\* The least loaded worker exists.
LEMMA PickType ==
    ASSUME Types
    PROVE  pickWorker \in Workers \union {0}
<1> DEFINE running   == {w \in Workers : state[w] # "stopped"}
           connected == {w \in Workers : state[w] = "connected"}
           among     == IF connected # {} THEN connected ELSE running
           Best(w)   == \A v \in among :
                           \/ Len(desiredKeys[w]) < Len(desiredKeys[v])
                           \/ Len(desiredKeys[w]) = Len(desiredKeys[v]) /\ w <= v
<1>1. pickWorker = IF among = {} THEN 0 ELSE CHOOSE w \in among : Best(w)
  BY DEF pickWorker
<1>2. among \subseteq Workers /\ Workers \subseteq Nat
  BY WsAssumption DEF Workers
<1>3. \A w \in Workers : Len(desiredKeys[w]) \in Nat
  BY DEF Types, TypeOK
<1> HIDE DEF among
<1>4. CASE among = {}
  BY <1>1, <1>4
<1>5. CASE among # {}
  <2>1. PICK L : L = {Len(desiredKeys[w]) : w \in among}
    OBVIOUS
  <2>2. L \subseteq Nat /\ L # {}
    BY <1>2, <1>3, <1>5, <2>1
  <2>3. PICK l \in L : \A m \in L : l <= m
    BY <2>2, Least
  <2>4. PICK T : T = {w \in among : Len(desiredKeys[w]) = l}
    OBVIOUS
  <2>5. T \subseteq Nat /\ T # {} /\ T \subseteq among
    BY <1>2, <2>1, <2>3, <2>4
  <2>6. PICK w \in T : \A v \in T : w <= v
    BY <2>5, Least
  <2>7. ASSUME NEW v \in among
        PROVE  \/ Len(desiredKeys[w]) < Len(desiredKeys[v])
               \/ Len(desiredKeys[w]) = Len(desiredKeys[v]) /\ w <= v
    <3>1. Len(desiredKeys[w]) = l /\ Len(desiredKeys[v]) \in L
      BY <2>1, <2>4, <2>6
    <3>2. Len(desiredKeys[v]) = l => w <= v
      BY <2>4, <2>6
    <3>3. PICK m \in L : m = Len(desiredKeys[v])
      BY <3>1
    <3>4. l <= m /\ l \in Nat /\ m \in Nat
      BY <2>2, <2>3
    <3>5. l < m \/ l = m
      BY <3>4
    <3> QED
      BY <3>1, <3>2, <3>3, <3>5
  <2>8. w \in among /\ Best(w)
    BY <2>5, <2>6, <2>7
  <2>9. (CHOOSE v \in among : Best(v)) \in among
    BY <2>8
  <2> QED
    BY <1>1, <1>2, <1>5, <2>9
<1> QED
  BY <1>4, <1>5

\* The commands the mux sends.
LEMMA CmdTypes ==
    /\ Command("connect") \in Cmds /\ Command("reconnect") \in Cmds
    /\ \A act \in {"subscribe", "unsubscribe"}, k \in Keys, h \in Handles :
          WriteCommand(act, k, h) \in Cmds
    /\ \A k \in Keys : ReplayCommand(k) \in Cmds
    /\ \A e \in Nat : PingCommand(e) \in Cmds
<1>1. 0 \in Nat /\ NoKey \in Keys \union {NoKey} /\ NoHandle \in Handles \union {NoHandle}
  OBVIOUS
<1> QED
  BY <1>1 DEF Command, WriteCommand, ReplayCommand, PingCommand, Cmds, IoCommand

HandleType == handles \in [Handles -> {"unused", "pending"} \union Results]

\* A handle is resolved once, with a result.
LEMMA ResolveType ==
    ASSUME HandleType, NEW h, NEW result \in Results, resolve(h, result)
    PROVE  HandleType'
BY DEF HandleType, resolve

MailType ==
    /\ mailbox \in [Workers -> Seq(Cmds)]
    /\ \A w \in Workers : Len(mailbox[w]) <= MailboxSize

\* A mailbox gets a command when it has room.
LEMMA MailGrows ==
    ASSUME MailType, NEW w \in Workers, NEW c \in Cmds, hasRoom(w),
           mailbox' = [mailbox EXCEPT ![w] = Append(@, c)]
    PROVE  /\ MailType' /\ mailbox'[w] = Append(mailbox[w], c)
           /\ \A v \in Workers : v # w => mailbox'[v] = mailbox[v]
<1>1. mailbox[w] \in Seq(Cmds) /\ MailboxSize \in Nat /\ mailbox \in [Workers -> Seq(Cmds)]
  BY WsAssumption DEF MailType
<1>2. PICK q : q = Append(mailbox[w], c)
  OBVIOUS
<1>3. q \in Seq(Cmds) /\ Len(q) = Len(mailbox[w]) + 1
  BY <1>1, <1>2, Added
<1>4. Len(q) <= MailboxSize
  BY <1>1, <1>3 DEF hasRoom
<1>5. mailbox' = [mailbox EXCEPT ![w] = q]
  BY <1>1, <1>2
<1> QED
  BY <1>1, <1>2, <1>3, <1>4, <1>5 DEF MailType

\* A worker takes a command.
LEMMA MailShrinks ==
    ASSUME MailType, NEW w \in Workers, NEW types, takeCommand(w, types)
    PROVE  /\ MailType' /\ mailbox[w] # << >> /\ mailbox'[w] = Tail(mailbox[w])
           /\ \A v \in Workers : v # w => mailbox'[v] = mailbox[v]
           /\ Head(mailbox[w]) \in Cmds /\ Head(mailbox[w]).type \in types
           /\ wpc[w] = IdlePc
<1>1. mailbox[w] \in Seq(Cmds) /\ MailboxSize \in Nat /\ mailbox \in [Workers -> Seq(Cmds)]
  BY WsAssumption DEF MailType
<1>2. mailbox[w] # << >> /\ mailbox' = [mailbox EXCEPT ![w] = Tail(@)]
      /\ wpc[w] = IdlePc /\ Head(mailbox[w]).type \in types
  BY DEF takeCommand
<1>3. PICK q : q = Tail(mailbox[w])
  OBVIOUS
<1>4. q \in Seq(Cmds) /\ Len(q) = Len(mailbox[w]) - 1 /\ Head(mailbox[w]) \in Cmds
  BY <1>1, <1>2, <1>3, Taken
<1>5. Len(q) <= MailboxSize
  BY <1>1, <1>4 DEF MailType
<1>6. mailbox' = [mailbox EXCEPT ![w] = q]
  BY <1>1, <1>2, <1>3
<1> QED
  BY <1>1, <1>2, <1>3, <1>4, <1>5, <1>6 DEF MailType

SinkType == sink \in Seq(Event) /\ Len(sink) <= SinkSize

\* The mux takes an event.
LEMMA SinkShrinks ==
    ASSUME SinkType, sink # << >>, sink' = Tail(sink)
    PROVE  SinkType' /\ Head(sink) \in Event /\ Head(sink).w \in Workers /\ Head(sink) = sink[1]
<1>1. sink \in Seq(Event) /\ SinkSize \in Nat /\ Len(sink) <= SinkSize
  BY WsAssumption DEF SinkType
<1>2. PICK q : q = Tail(sink)
  OBVIOUS
<1>3. q \in Seq(Event) /\ Len(q) = Len(sink) - 1 /\ Head(sink) \in Event /\ Head(sink) = sink[1]
  BY <1>1, <1>2, Taken
<1>4. Len(q) <= SinkSize
  BY <1>1, <1>3
<1> QED
  BY <1>2, <1>3, <1>4 DEF SinkType, Event

\* An event is sent when there is room.
LEMMA SinkGrows ==
    ASSUME SinkType, NEW e \in Event, Len(sink) < SinkSize, sink' = Append(sink, e)
    PROVE  SinkType'
<1>1. sink \in Seq(Event) /\ SinkSize \in Nat
  BY WsAssumption DEF SinkType
<1>2. sink' \in Seq(Event) /\ Len(sink') = Len(sink) + 1
  BY <1>1, Added
<1>3. Len(sink') <= SinkSize
  BY <1>1, <1>2
<1> QED
  BY <1>2, <1>3 DEF SinkType

ClientType ==
    /\ stopped \in BOOLEAN /\ HandleType
    /\ commandCh \in Seq(UserCommand) /\ Len(commandCh) <= QueueSize

FlagType ==
    /\ mode \in Modes /\ sinkClosed \in BOOLEAN /\ panicked \in BOOLEAN
    /\ fatal \in {"none", "published", "taken"}
    /\ muxState \in {"running", "stopping", "stopped"}

MuxPcs ==
    [st : {"loop", "draining", "stopped"}]
       \union [st : {"reconnect"}, w : Workers]
       \union [st : {"replay"}, w : Workers, keys : Seq(Keys)]

PcType == muxPc \in MuxPcs /\ (muxPc.st = "replay" => muxPc.keys # << >>)

KeyType ==
    subscriptions \in [Keys -> Workers \union {0}] /\ desiredKeys \in [Workers -> Seq(Keys)]

States == {"connecting", "reconnecting", "connected", "stopped"}

RunType ==
    state \in [Workers -> States] /\ epoch \in [Workers -> Nat] /\ tickers \subseteq Ticker

WorkerPcs ==
    [st : {"idle", "exited"}]
       \union [st : {"dialing"}, type : {"connect", "reconnect"}]
       \union [st : {"publish"}, ev : Event]

LinkType ==
    /\ wpc \in [Workers -> WorkerPcs] /\ conn \in [Workers -> ConnState]
    /\ readers \subseteq Reader /\ wire \in [Workers -> SUBSET Keys]

\* The parts of Types.
LEMMA TypesHave ==
    ASSUME Types
    PROVE  ClientType /\ FlagType /\ PcType /\ KeyType /\ RunType /\ LinkType /\ MailType /\ SinkType
BY DEF Types, TypeOK, ClientType, FlagType, PcType, MuxPcs, KeyType, RunType, States, LinkType,
       WorkerPcs, MailType, SinkType, HandleType

\* The same after a step.
LEMMA TypesHaveNext ==
    ASSUME Types'
    PROVE  PcType' /\ RunType' /\ LinkType' /\ MailType' /\ SinkType'
BY DEF Types, TypeOK, PcType, MuxPcs, RunType, States, LinkType, WorkerPcs, MailType, SinkType

\* Together they are Types.
LEMMA TypesOf ==
    ASSUME ClientType, FlagType, PcType, KeyType, RunType, LinkType, MailType, SinkType
    PROVE  Types
<1>1. Seq(Cmds) \subseteq Seq(IoCommand)
  <2>1. Cmds \subseteq IoCommand
    BY DEF Cmds
  <2> QED
    BY <2>1
<1>2. mailbox \in [Workers -> Seq(IoCommand)]
  BY <1>1 DEF MailType
<1> QED
  BY <1>2 DEF Types, TypeOK, ClientType, FlagType, PcType, MuxPcs, KeyType, RunType, States,
     LinkType, WorkerPcs, MailType, SinkType, HandleType

\* The same of the state after a step.
LEMMA TypesOfNext ==
    ASSUME ClientType', FlagType', PcType', KeyType', RunType', LinkType', MailType', SinkType'
    PROVE  Types'
<1>1. Seq(Cmds) \subseteq Seq(IoCommand)
  <2>1. Cmds \subseteq IoCommand
    BY DEF Cmds
  <2> QED
    BY <2>1
<1>2. mailbox' \in [Workers -> Seq(IoCommand)]
  BY <1>1 DEF MailType
<1> QED
  BY <1>2 DEF Types, TypeOK, ClientType, FlagType, PcType, MuxPcs, KeyType, RunType, States,
     LinkType, WorkerPcs, MailType, SinkType, HandleType

\* Initially.
LEMMA InitTypes == Init => Types
<1> SUFFICES ASSUME Init PROVE Types
  OBVIOUS
<1>1. << >> \in Seq(UserCommand) /\ << >> \in Seq(Event) /\ << >> \in Seq(Keys) /\ Len(<< >>) = 0
      /\ 0 \in Nat
  OBVIOUS
<1>2. QueueSize \in Nat /\ SinkSize \in Nat /\ MailboxSize \in Nat /\ MailboxSize # 0
  BY WsAssumption
<1>3. ClientType /\ SinkType
  <2>1. HandleType
    BY DEF Init, HandleType
  <2>2. commandCh = << >> /\ sink = << >> /\ stopped = FALSE
    BY DEF Init
  <2>3. Len(commandCh) <= QueueSize /\ Len(sink) <= SinkSize
    BY <1>1, <1>2, <2>2
  <2> QED
    BY <1>1, <2>1, <2>2, <2>3 DEF ClientType, SinkType
<1>7. FlagType
  BY DEF Init, FlagType
<1>4. PcType /\ KeyType /\ RunType
  <2>1. PcType
    BY DEF Init, PcType, MuxPcs, LoopPc
  <2>2. KeyType /\ RunType
    BY <1>1 DEF Init, KeyType, RunType, States
  <2> QED
    BY <2>1, <2>2
<1>5. LinkType
  BY <1>1 DEF Init, LinkType, WorkerPcs, IdlePc, ConnState, Reader
<1>6. MailType
  <2>1. PICK q : q = <<Command("connect")>>
    OBVIOUS
  <2>2. q \in Seq(Cmds) /\ Len(q) = 1
    BY <2>1, CmdTypes
  <2>3. mailbox = [w \in Workers |-> q]
    BY <2>1 DEF Init
  <2>4. 1 <= MailboxSize
    BY <1>2
  <2> QED
    BY <2>2, <2>3, <2>4 DEF MailType
<1> QED
  BY <1>3, <1>4, <1>5, <1>6, <1>7, TypesOf

\* What the end of handleWorkerReady leaves.
LEMMA ReadyType ==
    ASSUME RunType, NEW w \in Workers, becomeReady(w)
    PROVE  RunType' /\ state' = [state EXCEPT ![w] = "connected"]
<1>1. state' \in [Workers -> States] /\ state' = [state EXCEPT ![w] = "connected"]
  BY DEF RunType, becomeReady, States
<1>2. epoch[w] + 1 \in Nat
  BY DEF RunType
<1>3. PICK e \in Nat : e = epoch[w] + 1
  BY <1>2
<1>4. [w |-> w, epoch |-> e] \in Ticker
  BY DEF Ticker
<1>5. epoch' \in [Workers -> Nat] /\ tickers' \subseteq Ticker
  <2>1. CASE mode.ping
    <3>1. epoch' = [epoch EXCEPT ![w] = e]
      BY <1>3, <2>1 DEF becomeReady, RunType
    <3>2. tickers' = tickers \union {[w |-> w, epoch |-> e]}
      BY <1>3, <2>1 DEF becomeReady
    <3> QED
      BY <1>4, <3>1, <3>2 DEF RunType
  <2>2. CASE ~mode.ping
    BY <2>2 DEF becomeReady, RunType
  <2> QED
    BY <2>1, <2>2
<1> QED
  BY <1>1, <1>5 DEF RunType

-----------------------------------------------------------------------------
(* Types are kept.                                                          *)

\* The callers.
LEMMA ClientTypes == ASSUME Types, Client PROVE Types'
<1>1. ClientType /\ FlagType /\ PcType /\ KeyType /\ RunType /\ LinkType /\ MailType /\ SinkType
  BY TypesHave
<1>2. UNCHANGED <<sink, mode, sinkClosed, muxVars, tickers, mailbox, wpc, connVars, panicked>>
      /\ (fatal' = fatal \/ fatal' = "taken")
  BY DEF Client, Submit, Stop, watchFatal
<1>3. FlagType' /\ PcType' /\ KeyType' /\ RunType' /\ LinkType' /\ MailType' /\ SinkType'
  BY <1>1, <1>2 DEF FlagType, PcType, KeyType, RunType, LinkType, MailType, SinkType, muxVars, connVars
<1>4. ClientType'
  <2>1. CASE Stop \/ watchFatal
    BY <1>1, <2>1 DEF Stop, watchFatal, ClientType, HandleType
  <2>2. ASSUME NEW kind \in {"subscribe", "unsubscribe"}, NEW key \in Keys, Submit(kind, key)
        PROVE  ClientType'
    <3>1. PICK h \in Handles :
             /\ handles' = [handles EXCEPT ![h] = "pending"]
             /\ commandCh' = Append(commandCh, [kind |-> kind, key |-> key, h |-> h])
      BY <2>2 DEF Submit
    <3>2. PICK c : c = [kind |-> kind, key |-> key, h |-> h]
      OBVIOUS
    <3>3. c \in UserCommand
      BY <3>2 DEF UserCommand
    <3>4. HandleType'
      BY <1>1, <3>1 DEF ClientType, HandleType
    <3>5. commandCh' \in Seq(UserCommand) /\ Len(commandCh') = Len(commandCh) + 1
          /\ Len(commandCh) \in Nat
      BY <1>1, <3>1, <3>2, <3>3, Added DEF ClientType
    <3>6. Len(commandCh) < QueueSize /\ QueueSize \in Nat /\ UNCHANGED stopped
      BY <2>2, WsAssumption DEF Submit
    <3>7. Len(commandCh') <= QueueSize
      BY <3>5, <3>6
    <3> QED
      BY <1>1, <3>4, <3>5, <3>6, <3>7 DEF ClientType
  <2> QED
    BY <2>1, <2>2 DEF Client
<1> QED
  BY <1>3, <1>4, TypesOfNext

\* A write command goes to a connected worker that has room, or no mailbox changes.
WriteSent ==
    \E w \in Workers, c \in Cmds :
        /\ state[w] = "connected" /\ hasRoom(w) /\ c.type = "write"
        /\ mailbox' = [mailbox EXCEPT ![w] = Append(@, c)]

\* Subscribe: what it may change.
LEMMA SubscribeDoes ==
    ASSUME Types, NEW c \in UserCommand, handleSubscribe(c)
    PROVE  HandleType' /\ KeyType' /\ (WriteSent \/ UNCHANGED mailbox)
<1> DEFINE w == pickWorker
<1>1. ClientType /\ KeyType /\ w \in Workers \union {0} /\ c.key \in Keys /\ c.h \in Handles
  BY TypesHave, PickType DEF UserCommand
<1>2. {"exists", "capacity", "ok", "queueFull"} \subseteq Results
  BY DEF Results
<1>3. \/ /\ \E r \in Results : resolve(c.h, r)
         /\ UNCHANGED <<subscriptions, desiredKeys, mailbox>>
      \/ /\ w # 0 /\ (\E r \in Results : resolve(c.h, r)) /\ UNCHANGED mailbox
         /\ subscriptions' = [subscriptions EXCEPT ![c.key] = w]
         /\ desiredKeys' = [desiredKeys EXCEPT ![w] = appendDesiredKey(@, c.key)]
      \/ /\ w # 0 /\ state[w] = "connected" /\ hasRoom(w) /\ UNCHANGED handles
         /\ subscriptions' = [subscriptions EXCEPT ![c.key] = w]
         /\ desiredKeys' = [desiredKeys EXCEPT ![w] = appendDesiredKey(@, c.key)]
         /\ mailbox' = [mailbox EXCEPT ![w] = Append(@, WriteCommand("subscribe", c.key, c.h))]
      \/ /\ w # 0 /\ (\E r \in Results : resolve(c.h, r)) /\ UNCHANGED <<subscriptions, mailbox>>
         /\ desiredKeys' = [desiredKeys EXCEPT
               ![w] = removeDesiredKey(appendDesiredKey(@, c.key), c.key)]
  BY <1>2 DEF handleSubscribe
<1> HIDE DEF w
<1>4. HandleType'
  <2>1. HandleType
    BY <1>1 DEF ClientType
  <2>2. CASE UNCHANGED handles
    BY <2>1, <2>2 DEF HandleType
  <2>3. CASE \E r \in Results : resolve(c.h, r)
    BY <2>1, <2>3, ResolveType
  <2> QED
    BY <1>3, <2>2, <2>3
<1>5. subscriptions' \in [Keys -> Workers \union {0}]
  BY <1>1, <1>3 DEF KeyType
<1>6. desiredKeys' \in [Workers -> Seq(Keys)]
  <2>1. CASE UNCHANGED desiredKeys
    BY <1>1, <2>1 DEF KeyType
  <2>2. CASE w # 0 /\ \E q \in Seq(Keys) : desiredKeys' = [desiredKeys EXCEPT ![w] = q]
    BY <1>1, <2>2 DEF KeyType
  <2>3. w # 0 => desiredKeys[w] \in Seq(Keys) /\ desiredKeys \in [Workers -> Seq(Keys)]
    BY <1>1 DEF KeyType
  <2>4. w # 0 => appendDesiredKey(desiredKeys[w], c.key) \in Seq(Keys)
    BY <2>3 DEF appendDesiredKey
  <2>5. w # 0 => removeDesiredKey(appendDesiredKey(desiredKeys[w], c.key), c.key) \in Seq(Keys)
    BY <2>4, RemoveType
  <2> QED
    BY <1>1, <1>3, <2>1, <2>2, <2>3, <2>4, <2>5
<1>7. WriteSent \/ UNCHANGED mailbox
  <2>1. PICK x : x = WriteCommand("subscribe", c.key, c.h)
    OBVIOUS
  <2>2. x \in Cmds /\ x.type = "write"
    BY <1>1, <2>1, CmdTypes DEF WriteCommand
  <2> QED
    BY <1>1, <1>3, <2>1, <2>2 DEF WriteSent
<1> QED
  BY <1>4, <1>5, <1>6, <1>7 DEF KeyType

\* Unsubscribe: what it may change.
LEMMA UnsubscribeDoes ==
    ASSUME Types, NEW c \in UserCommand, handleUnsubscribe(c)
    PROVE  HandleType' /\ KeyType' /\ (WriteSent \/ UNCHANGED mailbox)
<1> DEFINE w == subscriptions[c.key]
<1>1. ClientType /\ KeyType /\ w \in Workers \union {0} /\ c.key \in Keys /\ c.h \in Handles
  BY TypesHave DEF UserCommand, KeyType
<1>2. {"notFound", "ok", "queueFull"} \subseteq Results
  BY DEF Results
<1>3. \/ /\ \E r \in Results : resolve(c.h, r)
         /\ UNCHANGED <<subscriptions, desiredKeys, mailbox>>
      \/ /\ w # 0 /\ (\E r \in Results : resolve(c.h, r)) /\ UNCHANGED mailbox
         /\ subscriptions' = [subscriptions EXCEPT ![c.key] = 0]
         /\ desiredKeys' = [desiredKeys EXCEPT ![w] = removeDesiredKey(@, c.key)]
      \/ /\ w # 0 /\ state[w] = "connected" /\ hasRoom(w) /\ UNCHANGED handles
         /\ subscriptions' = [subscriptions EXCEPT ![c.key] = 0]
         /\ desiredKeys' = [desiredKeys EXCEPT ![w] = removeDesiredKey(@, c.key)]
         /\ mailbox' = [mailbox EXCEPT ![w] = Append(@, WriteCommand("unsubscribe", c.key, c.h))]
      \/ /\ w # 0 /\ (\E r \in Results : resolve(c.h, r)) /\ UNCHANGED <<subscriptions, mailbox>>
         /\ desiredKeys' = [desiredKeys EXCEPT ![w] = insertDesiredKey(@, c.key)]
  BY <1>2 DEF handleUnsubscribe
<1> HIDE DEF w
<1>4. HandleType'
  <2>1. HandleType
    BY <1>1 DEF ClientType
  <2>2. CASE UNCHANGED handles
    BY <2>1, <2>2 DEF HandleType
  <2>3. CASE \E r \in Results : resolve(c.h, r)
    BY <2>1, <2>3, ResolveType
  <2> QED
    BY <1>3, <2>2, <2>3
<1>5. subscriptions' \in [Keys -> Workers \union {0}]
  BY <1>1, <1>3 DEF KeyType
<1>6. desiredKeys' \in [Workers -> Seq(Keys)]
  <2>1. CASE UNCHANGED desiredKeys
    BY <1>1, <2>1 DEF KeyType
  <2>2. CASE w # 0 /\ \E q \in Seq(Keys) : desiredKeys' = [desiredKeys EXCEPT ![w] = q]
    BY <1>1, <2>2 DEF KeyType
  <2>3. w # 0 => desiredKeys[w] \in Seq(Keys) /\ desiredKeys \in [Workers -> Seq(Keys)]
    BY <1>1 DEF KeyType
  <2>4. w # 0 => insertDesiredKey(desiredKeys[w], c.key) \in Seq(Keys)
    <3>1. w # 0 => Append(desiredKeys[w], c.key) \in Seq(Keys)
      BY <1>1, <2>3
    <3> QED
      BY <2>3, <3>1 DEF insertDesiredKey
  <2>5. w # 0 => removeDesiredKey(desiredKeys[w], c.key) \in Seq(Keys)
    BY <2>3, RemoveType
  <2> QED
    BY <1>1, <1>3, <2>1, <2>2, <2>3, <2>4, <2>5
<1>7. WriteSent \/ UNCHANGED mailbox
  <2>1. PICK x : x = WriteCommand("unsubscribe", c.key, c.h)
    OBVIOUS
  <2>2. x \in Cmds /\ x.type = "write"
    BY <1>1, <2>1, CmdTypes DEF WriteCommand
  <2> QED
    BY <1>1, <1>3, <2>1, <2>2 DEF WriteSent
<1> QED
  BY <1>4, <1>5, <1>6, <1>7 DEF KeyType

\* The mux handles a command: at most a write is sent.
LEMMA CommandDoes ==
    ASSUME Types, handleCommand
    PROVE  Types' /\ (WriteSent \/ UNCHANGED mailbox)
<1>1. ClientType /\ FlagType /\ PcType /\ KeyType /\ RunType /\ LinkType /\ MailType /\ SinkType
  BY TypesHave
<1>2. PICK c : c = Head(commandCh)
  OBVIOUS
<1>3. commandCh # << >> /\ commandCh' = Tail(commandCh)
      /\ UNCHANGED <<stopped, sink, mode, sinkClosed, fatal, muxState, muxPc, state,
                     epoch, tickers, wpc, connVars, panicked>>
  BY DEF handleCommand
<1>4. c \in UserCommand /\ commandCh' \in Seq(UserCommand) /\ Len(commandCh') = Len(commandCh) - 1
      /\ commandCh \in Seq(UserCommand) /\ Len(commandCh) <= QueueSize
  BY <1>1, <1>2, <1>3, Taken DEF ClientType
<1>5. Len(commandCh') <= QueueSize
  <2>1. Len(commandCh) \in Nat /\ QueueSize \in Nat
    BY <1>4, WsAssumption
  <2> QED
    BY <1>4, <2>1
<1>6. HandleType' /\ KeyType' /\ (WriteSent \/ UNCHANGED mailbox)
  <2>1. CASE muxState # "running"
    <3>1. resolve(c.h, "stopped") /\ UNCHANGED <<subscriptions, desiredKeys, mailbox>>
      BY <1>2, <2>1 DEF handleCommand
    <3>2. "stopped" \in Results /\ HandleType
      BY <1>1 DEF Results, ClientType
    <3> QED
      BY <1>1, <3>1, <3>2, ResolveType DEF KeyType
  <2>2. CASE muxState = "running"
    <3>1. handleSubscribe(c) \/ handleUnsubscribe(c)
      BY <1>2, <2>2 DEF handleCommand
    <3> QED
      BY <1>4, <3>1, SubscribeDoes, UnsubscribeDoes
  <2> QED
    BY <2>1, <2>2
<1>7. MailType'
  BY <1>1, <1>6, MailGrows DEF WriteSent, MailType
<1>8. ClientType' /\ FlagType' /\ PcType' /\ RunType' /\ LinkType' /\ SinkType'
  BY <1>1, <1>3, <1>4, <1>5, <1>6
  DEF ClientType, FlagType, PcType, RunType, LinkType, SinkType, connVars
<1> QED
  BY <1>6, <1>7, <1>8, TypesOfNext

\* The head of sink, when the mux takes it.
LEMMA EventTaken ==
    ASSUME Types, NEW kinds, takeEvent(kinds)
    PROVE  /\ SinkType' /\ Head(sink) \in Event /\ Head(sink).w \in Workers
           /\ Head(sink) = sink[1] /\ Head(sink).kind \in kinds
           /\ sink # << >> /\ sink' = Tail(sink) /\ muxPc = LoopPc
BY TypesHave, SinkShrinks DEF takeEvent

\* A worker's connection is made known to the mux.
LEMMA ReadyDoes ==
    ASSUME Types, handleWorkerReady
    PROVE  Types'
<1>1. ClientType /\ FlagType /\ PcType /\ KeyType /\ RunType /\ LinkType /\ MailType /\ SinkType
  BY TypesHave
<1>2. PICK w : w = Head(sink).w
  OBVIOUS
<1>3. takeEvent({"connected", "reconnected"})
      /\ UNCHANGED <<clientVars, mode, sinkClosed, fatal, muxState, subscriptions,
                     desiredKeys, mailbox, wpc, connVars, panicked>>
  BY DEF handleWorkerReady
<1>4. w \in Workers /\ SinkType'
  BY <1>2, <1>3, EventTaken
<1>5. PcType' /\ RunType'
  <2>1. CASE desiredKeys[w] = << >>
    <3>1. muxPc' = LoopPc /\ becomeReady(w)
      BY <1>2, <2>1 DEF handleWorkerReady
    <3> QED
      BY <1>1, <1>4, <3>1, ReadyType DEF PcType, MuxPcs, LoopPc
  <2>2. CASE desiredKeys[w] # << >>
    <3>1. muxPc' = [st |-> "replay", w |-> w, keys |-> desiredKeys[w]]
          /\ UNCHANGED <<state, epoch, tickers>>
      BY <1>2, <2>2 DEF handleWorkerReady
    <3>2. desiredKeys[w] \in Seq(Keys)
      BY <1>1, <1>4 DEF KeyType
    <3>3. PcType'
      BY <1>4, <2>2, <3>1, <3>2 DEF PcType, MuxPcs
    <3> QED
      BY <1>1, <3>1, <3>3 DEF RunType
  <2> QED
    BY <2>1, <2>2
<1>6. ClientType' /\ FlagType' /\ KeyType' /\ LinkType' /\ MailType'
  BY <1>1, <1>3
  DEF ClientType, HandleType, FlagType, KeyType, LinkType, MailType, connVars, clientVars
<1> QED
  BY <1>4, <1>5, <1>6, TypesOfNext

\* A replay command is sent, or no mailbox changes.
ReplaySent ==
    \E c \in Cmds :
        /\ hasRoom(muxPc.w) /\ c.type = "replay"
        /\ mailbox' = [mailbox EXCEPT ![muxPc.w] = Append(@, c)]

\* One step of a replay.
LEMMA ReplayDoes ==
    ASSUME Types, runReplay
    PROVE  /\ Types' /\ muxPc.w \in Workers /\ (ReplaySent \/ UNCHANGED mailbox)
           /\ \/ muxPc' = LoopPc /\ becomeReady(muxPc.w)
              \/ /\ muxPc'.st = "replay" /\ muxPc'.w = muxPc.w
                 /\ UNCHANGED <<state, epoch, tickers>>
<1>1. ClientType /\ FlagType /\ PcType /\ KeyType /\ RunType /\ LinkType /\ MailType /\ SinkType
  BY TypesHave
<1>2. muxPc.st = "replay"
      /\ UNCHANGED <<clientVars, sink, mode, sinkClosed, fatal, muxState,
                     subscriptions, desiredKeys, wpc, connVars, panicked>>
  BY DEF runReplay
<1>3. muxPc \in [st : {"replay"}, w : Workers, keys : Seq(Keys)] /\ muxPc.keys # << >>
  BY <1>1, <1>2 DEF PcType, MuxPcs
<1>4. PICK w : w = muxPc.w
  OBVIOUS
<1>5. w \in Workers /\ Head(muxPc.keys) \in Keys /\ Tail(muxPc.keys) \in Seq(Keys)
  BY <1>3, <1>4
<1>6. ReplaySent \/ UNCHANGED mailbox
  <2>1. PICK x : x = ReplayCommand(Head(muxPc.keys))
    OBVIOUS
  <2>2. x \in Cmds /\ x.type = "replay"
    BY <1>5, <2>1, CmdTypes DEF ReplayCommand
  <2>3. \/ UNCHANGED mailbox
        \/ hasRoom(muxPc.w) /\ mailbox' = [mailbox EXCEPT ![muxPc.w] = Append(@, x)]
    BY <2>1 DEF runReplay
  <2> QED
    BY <2>2, <2>3 DEF ReplaySent
<1>7. MailType'
  BY <1>1, <1>4, <1>5, <1>6, MailGrows DEF ReplaySent, MailType
<1>8. PcType' /\ RunType'
      /\ \/ muxPc' = LoopPc /\ becomeReady(w)
         \/ muxPc'.st = "replay" /\ muxPc'.w = w /\ UNCHANGED <<state, epoch, tickers>>
  <2>1. CASE Tail(muxPc.keys) = << >>
    <3>1. muxPc' = LoopPc /\ becomeReady(w)
      BY <1>4, <2>1 DEF runReplay
    <3> QED
      BY <1>1, <1>5, <3>1, ReadyType DEF PcType, MuxPcs, LoopPc
  <2>2. CASE Tail(muxPc.keys) # << >>
    <3>1. muxPc' = [muxPc EXCEPT !.keys = Tail(muxPc.keys)] /\ UNCHANGED <<state, epoch, tickers>>
      BY <2>2 DEF runReplay
    <3>2. PICK t \in Seq(Keys) : t = Tail(muxPc.keys)
      BY <1>5
    <3>3. muxPc' = [muxPc EXCEPT !.keys = t]
      BY <3>1, <3>2
    <3>4. muxPc' \in [st : {"replay"}, w : Workers, keys : Seq(Keys)]
          /\ muxPc'.keys = t /\ muxPc'.w = muxPc.w /\ muxPc'.st = "replay"
      BY <1>3, <3>3
    <3>5. PcType'
      BY <2>2, <3>2, <3>4 DEF PcType, MuxPcs
    <3> QED
      BY <1>1, <1>4, <3>1, <3>4, <3>5 DEF RunType
  <2> QED
    BY <2>1, <2>2
<1>9. ClientType' /\ FlagType' /\ KeyType' /\ LinkType' /\ SinkType'
  BY <1>1, <1>2
  DEF ClientType, HandleType, FlagType, KeyType, LinkType, SinkType, connVars, clientVars
<1> QED
  BY <1>4, <1>5, <1>6, <1>7, <1>8, <1>9, TypesOfNext

\* The mux's other steps.
LEMMA MuxTypes ==
    ASSUME Types, \/ startReconnect \/ sendReconnect \/ handlePingTick \/ handleWriteFailed
                  \/ handleShutdown \/ drainEvent \/ closeSink
    PROVE  Types'
<1>1. ClientType /\ FlagType /\ PcType /\ KeyType /\ RunType /\ LinkType /\ MailType /\ SinkType
  BY TypesHave
<1>2. UNCHANGED <<clientVars, mode, panicked, subscriptions, desiredKeys, wpc, connVars, epoch, tickers>>
  BY DEF startReconnect, sendReconnect, handlePingTick, handleWriteFailed, handleShutdown,
         drainEvent, closeSink, muxVars
<1>3. ClientType' /\ KeyType' /\ LinkType'
  BY <1>1, <1>2 DEF ClientType, HandleType, KeyType, LinkType, connVars, clientVars
<1>4. CASE startReconnect
  <2>1. PICK w : w = Head(sink).w
    OBVIOUS
  <2>2. takeEvent({"connectFailed", "disconnected"}) /\ UNCHANGED <<sinkClosed, fatal, muxState, mailbox>>
        /\ \/ UNCHANGED <<state, muxPc>>
           \/ state' = [state EXCEPT ![w] = "reconnecting"] /\ muxPc' = [st |-> "reconnect", w |-> w]
    BY <1>4, <2>1 DEF startReconnect
  <2>3. SinkType' /\ w \in Workers
    BY <2>1, <2>2, EventTaken
  <2>4. PcType'
    BY <1>1, <2>2, <2>3 DEF PcType, MuxPcs
  <2>5. RunType' /\ FlagType' /\ MailType'
    BY <1>1, <1>2, <2>2 DEF RunType, States, FlagType, MailType
  <2> QED
    BY <1>3, <2>3, <2>4, <2>5, TypesOfNext
<1>5. CASE sendReconnect
  <2>1. UNCHANGED <<sink, sinkClosed, fatal, muxState, state>> /\ muxPc' = LoopPc
    BY <1>5 DEF sendReconnect
  <2>2. muxPc.st = "reconnect" /\ hasRoom(muxPc.w)
        /\ mailbox' = [mailbox EXCEPT ![muxPc.w] = Append(@, Command("reconnect"))]
    BY <1>5 DEF sendReconnect
  <2>3. muxPc.w \in Workers
    BY <1>1, <2>2 DEF PcType, MuxPcs
  <2>4. MailType'
    BY <1>1, <2>2, <2>3, CmdTypes, MailGrows
  <2>5. PcType'
    BY <2>1 DEF PcType, MuxPcs, LoopPc
  <2> QED
    BY <1>1, <1>2, <1>3, <2>1, <2>4, <2>5, TypesOfNext DEF SinkType, FlagType, RunType
<1>6. CASE handlePingTick
  <2>1. PICK w : w = Head(sink).w
    OBVIOUS
  <2>2. PICK e : e = Head(sink).tag
    OBVIOUS
  <2>3. takeEvent({"pingTick"}) /\ UNCHANGED <<sinkClosed, fatal, muxVars>>
        /\ \/ UNCHANGED mailbox
           \/ hasRoom(w) /\ mailbox' = [mailbox EXCEPT ![w] = Append(@, PingCommand(e))]
    BY <1>6, <2>1, <2>2 DEF handlePingTick
  <2>4. SinkType' /\ w \in Workers /\ e \in Nat
    BY <2>1, <2>2, <2>3, EventTaken DEF Event
  <2>5. MailType'
    <3>1. PingCommand(e) \in Cmds
      BY <2>4, CmdTypes
    <3> QED
      BY <1>1, <2>3, <2>4, <3>1, MailGrows DEF MailType
  <2> QED
    BY <1>1, <1>2, <1>3, <2>3, <2>4, <2>5, TypesOfNext DEF PcType, FlagType, RunType, muxVars
<1>7. CASE handleWriteFailed
  <2>1. SinkType' /\ UNCHANGED <<sinkClosed, muxPc, state, mailbox>>
    BY <1>7, EventTaken DEF handleWriteFailed
  <2>2. FlagType'
    BY <1>1, <1>2, <1>7 DEF handleWriteFailed, FlagType
  <2> QED
    BY <1>1, <1>2, <1>3, <2>1, <2>2, TypesOfNext DEF PcType, RunType, MailType
<1>8. CASE handleShutdown
  <2>1. /\ state' = [w \in Workers |-> "stopped"] /\ muxPc' = [st |-> "draining"]
        /\ UNCHANGED <<sink, sinkClosed, fatal, muxState, mailbox>>
    BY <1>8 DEF handleShutdown
  <2>2. PcType'
    BY <2>1 DEF PcType, MuxPcs
  <2>3. RunType'
    BY <1>1, <1>2, <2>1 DEF RunType, States
  <2> QED
    BY <1>1, <1>2, <1>3, <2>1, <2>2, <2>3, TypesOfNext DEF FlagType, MailType, SinkType
<1>9. CASE drainEvent
  <2>1. sink # << >> /\ sink' = Tail(sink) /\ UNCHANGED <<sinkClosed, fatal, muxVars, mailbox>>
    BY <1>9 DEF drainEvent
  <2>2. SinkType'
    BY <1>1, <2>1, SinkShrinks
  <2> QED
    BY <1>1, <1>2, <1>3, <2>1, <2>2, TypesOfNext DEF FlagType, MailType, PcType, RunType, muxVars
<1>10. CASE closeSink
  <2>1. /\ sinkClosed' = TRUE /\ muxState' = "stopped" /\ muxPc' = [st |-> "stopped"]
        /\ UNCHANGED <<sink, fatal, state, mailbox>>
    BY <1>10 DEF closeSink
  <2>2. PcType'
    BY <2>1 DEF PcType, MuxPcs
  <2> QED
    BY <1>1, <1>2, <1>3, <2>1, <2>2, TypesOfNext DEF FlagType, MailType, SinkType, RunType
<1> QED
  BY <1>4, <1>5, <1>6, <1>7, <1>8, <1>9, <1>10

\* The heartbeats.
LEMMA TickerTypes ==
    ASSUME Types, NEW t \in tickers, runPingTicker(t) \/ tickerExit(t)
    PROVE  Types'
<1>1. ClientType /\ FlagType /\ PcType /\ KeyType /\ RunType /\ LinkType /\ MailType /\ SinkType
  BY TypesHave
<1>2. UNCHANGED <<clientVars, mode, sinkClosed, fatal, muxVars, mailbox, wpc, connVars, panicked>>
      /\ (tickers' = tickers \/ tickers' = tickers \ {t})
  BY DEF runPingTicker, tickerExit
<1>3. SinkType'
  <2>1. event("pingTick", t.w, t.epoch) \in Event
    BY <1>1 DEF RunType, Ticker, Event, event
  <2> QED
    BY <1>1, <2>1, SinkGrows DEF runPingTicker, tickerExit, SinkType
<1>4. RunType'
  BY <1>1, <1>2 DEF RunType, muxVars
<1> QED
  BY <1>1, <1>2, <1>3, <1>4, TypesOfNext
  DEF ClientType, HandleType, FlagType, PcType, KeyType, LinkType, MailType, muxVars, connVars, clientVars

\* The read loops and the network.
LEMMA ReaderTypes ==
    ASSUME Types, \/ \E r \in readers : readFails(r) \/ readerPublishes(r)
                  \/ \E w \in Workers : connDies(w)
    PROVE  Types'
<1>1. ClientType /\ FlagType /\ PcType /\ KeyType /\ RunType /\ LinkType /\ MailType /\ SinkType
  BY TypesHave
<1>2. UNCHANGED <<clientVars, mode, sinkClosed, fatal, muxVars, mailbox, wpc, wire, tickers>>
  BY DEF readFails, readerPublishes, connDies
<1>3. ClientType' /\ PcType' /\ KeyType' /\ RunType' /\ MailType'
  BY <1>1, <1>2 DEF ClientType, HandleType, PcType, KeyType, RunType, MailType, muxVars, clientVars
<1>4. ASSUME NEW w \in Workers, connDies(w) PROVE Types'
  <2>1. conn' = [conn EXCEPT ![w].st = "dead"] /\ UNCHANGED <<readers, sink, panicked>>
    BY <1>4 DEF connDies
  <2>2. conn' \in [Workers -> ConnState]
    BY <1>1, <2>1 DEF LinkType, ConnState
  <2> QED
    BY <1>1, <1>2, <1>3, <2>1, <2>2, TypesOfNext DEF LinkType, SinkType, FlagType, muxVars
<1>5. ASSUME NEW r \in readers, readFails(r) PROVE Types'
  <2>1. UNCHANGED <<sink, panicked, conn>>
        /\ (readers' = readers \ {r} \/ readers' = (readers \ {r}) \union {[r EXCEPT !.st = "failed"]})
    BY <1>5 DEF readFails
  <2>2. PICK q : q = [r EXCEPT !.st = "failed"]
    OBVIOUS
  <2>3. q \in Reader
    BY <1>1, <2>2 DEF LinkType, Reader
  <2>4. readers' \subseteq Reader
    BY <1>1, <2>1, <2>2, <2>3 DEF LinkType
  <2> QED
    BY <1>1, <1>2, <1>3, <2>1, <2>4, TypesOfNext DEF LinkType, SinkType, FlagType, muxVars
<1>6. ASSUME NEW r \in readers, readerPublishes(r) PROVE Types'
  <2>1. UNCHANGED conn /\ readers' = readers \ {r} /\ panicked' \in BOOLEAN
    BY <1>1, <1>6 DEF readerPublishes, FlagType
  <2>2. event("disconnected", r.w, r.gen) \in Event
    BY <1>1 DEF LinkType, Reader, Event, event
  <2>3. SinkType'
    BY <1>1, <1>6, <2>2, SinkGrows DEF readerPublishes, SinkType
  <2> QED
    BY <1>1, <1>2, <1>3, <2>1, <2>3, TypesOfNext DEF LinkType, FlagType, muxVars
<1> QED
  BY <1>4, <1>5, <1>6

\* What becomes of the connections when that of one worker changes its state.
LEMMA ConnEdit ==
    ASSUME LinkType, NEW w \in Workers, NEW s \in {"nil", "alive", "dead", "closed"},
           conn' = [conn EXCEPT ![w].st = s]
    PROVE  /\ conn' \in [Workers -> ConnState]
           /\ conn'[w].st = s /\ conn'[w].gen = conn[w].gen
           /\ \A v \in Workers : v # w => conn'[v] = conn[v]
<1>1. conn[w] \in ConnState /\ conn \in [Workers -> ConnState]
  BY DEF LinkType
<1>2. PICK c : c = [conn[w] EXCEPT !.st = s]
  OBVIOUS
<1>3. c \in ConnState /\ c.st = s /\ c.gen = conn[w].gen
  BY <1>1, <1>2 DEF ConnState
<1>4. conn' = [conn EXCEPT ![w] = c]
  BY <1>1, <1>2
<1> QED
  BY <1>1, <1>3, <1>4

\* What becomes of the worker loops when one goes on.
LEMMA WpcEdit ==
    ASSUME LinkType, NEW w \in Workers, NEW p \in WorkerPcs, wpc' = [wpc EXCEPT ![w] = p]
    PROVE  /\ wpc' \in [Workers -> WorkerPcs] /\ wpc'[w] = p
           /\ \A v \in Workers : v # w => wpc'[v] = wpc[v]
BY DEF LinkType

\* The dial begins.
LEMMA DialDoes ==
    ASSUME Types, NEW w \in Workers, startDial(w)
    PROVE  /\ Types' /\ wpc'[w].st = "dialing" /\ conn'[w].st = "nil"
           /\ conn'[w].gen = conn[w].gen
           /\ \A v \in Workers : v # w => conn'[v] = conn[v] /\ wpc'[v] = wpc[v]
<1>1. ClientType /\ FlagType /\ PcType /\ KeyType /\ RunType /\ LinkType /\ MailType /\ SinkType
  BY TypesHave
<1>2. takeCommand(w, {"connect", "reconnect"}) /\ conn' = [conn EXCEPT ![w].st = "nil"]
      /\ UNCHANGED <<clientVars, sink, mode, sinkClosed, fatal, muxVars, tickers,
                     readers, wire, panicked>>
  BY DEF startDial
<1>3. MailType' /\ Head(mailbox[w]).type \in {"connect", "reconnect"}
  BY <1>1, <1>2, MailShrinks
<1>4. PICK p : p = [st |-> "dialing", type |-> Head(mailbox[w]).type]
  OBVIOUS
<1>5. p \in WorkerPcs /\ p.st = "dialing"
  BY <1>3, <1>4 DEF WorkerPcs
<1>6. wpc' = [wpc EXCEPT ![w] = p]
  BY <1>4 DEF startDial
<1>7. /\ wpc' \in [Workers -> WorkerPcs] /\ wpc'[w] = p
      /\ \A v \in Workers : v # w => wpc'[v] = wpc[v]
  BY <1>1, <1>5, <1>6, WpcEdit
<1>8. /\ conn' \in [Workers -> ConnState]
      /\ conn'[w].st = "nil" /\ conn'[w].gen = conn[w].gen
      /\ \A v \in Workers : v # w => conn'[v] = conn[v]
  BY <1>1, <1>2, ConnEdit
<1>9. LinkType'
  BY <1>1, <1>2, <1>7, <1>8 DEF LinkType
<1>10. ClientType' /\ FlagType' /\ PcType' /\ KeyType' /\ RunType' /\ SinkType'
  BY <1>1, <1>2
  DEF ClientType, HandleType, FlagType, PcType, KeyType, RunType, SinkType, clientVars, muxVars
<1> QED
  BY <1>3, <1>5, <1>7, <1>8, <1>9, <1>10, TypesOfNext

\* The dial succeeds.
LEMMA DialOkDoes ==
    ASSUME Types, NEW w \in Workers, dialOk(w)
    PROVE  /\ Types' /\ wpc'[w].st = "publish" /\ wpc'[w].ev.kind \in Ready
           /\ wpc'[w].ev.w = w /\ wpc'[w].ev.tag = conn'[w].gen
           /\ conn'[w].st = "alive" /\ conn'[w].gen = conn[w].gen + 1
           /\ \A v \in Workers : v # w => conn'[v] = conn[v] /\ wpc'[v] = wpc[v]
<1>1. ClientType /\ FlagType /\ PcType /\ KeyType /\ RunType /\ LinkType /\ MailType /\ SinkType
  BY TypesHave
<1>2. PICK gen : gen = conn[w].gen + 1
  OBVIOUS
<1>3. gen \in Nat
  BY <1>1, <1>2 DEF LinkType, ConnState
<1>4. PICK kind : kind = IF wpc[w].type = "connect" THEN "connected" ELSE "reconnected"
  OBVIOUS
<1>5. PICK c : c = [gen |-> gen, st |-> "alive"]
  OBVIOUS
<1>6. PICK p : p = [st |-> "publish", ev |-> event(kind, w, gen)]
  OBVIOUS
<1>7. conn' = [conn EXCEPT ![w] = c] /\ wire' = [wire EXCEPT ![w] = {}]
      /\ wpc' = [wpc EXCEPT ![w] = p]
      /\ UNCHANGED <<clientVars, sink, mode, sinkClosed, fatal, muxVars, tickers,
                     mailbox, readers, panicked>>
  BY <1>2, <1>4, <1>5, <1>6 DEF dialOk
<1>8. c \in ConnState /\ c.st = "alive" /\ c.gen = gen
  BY <1>3, <1>5 DEF ConnState
<1>9. p \in WorkerPcs /\ p.st = "publish" /\ p.ev.kind \in Ready /\ p.ev.w = w /\ p.ev.tag = gen
  BY <1>3, <1>4, <1>6 DEF WorkerPcs, Event, event, Ready
<1>10. /\ wpc' \in [Workers -> WorkerPcs] /\ wpc'[w] = p
       /\ \A v \in Workers : v # w => wpc'[v] = wpc[v]
  BY <1>1, <1>7, <1>9, WpcEdit
<1>11. /\ conn' \in [Workers -> ConnState] /\ conn'[w] = c
       /\ \A v \in Workers : v # w => conn'[v] = conn[v]
       /\ wire' \in [Workers -> SUBSET Keys]
  BY <1>1, <1>7, <1>8 DEF LinkType
<1>12. LinkType'
  BY <1>1, <1>7, <1>10, <1>11 DEF LinkType
<1>13. ClientType' /\ FlagType' /\ PcType' /\ KeyType' /\ RunType' /\ SinkType' /\ MailType'
  BY <1>1, <1>7
  DEF ClientType, HandleType, FlagType, PcType, KeyType, RunType, SinkType, MailType, clientVars, muxVars
<1>14. Types'
  BY <1>12, <1>13, TypesOfNext
<1> QED
  BY <1>2, <1>8, <1>9, <1>10, <1>11, <1>14

\* The dial fails: a first one is reported, a cancelled one is given up.
LEMMA DialFailedDoes ==
    ASSUME Types, NEW w \in Workers, dialFailed(w)
    PROVE  /\ Types'
           /\ \/ /\ wpc'[w].st = "publish" /\ wpc'[w].ev.kind = "connectFailed"
                 /\ wpc'[w].ev.w = w
              \/ wpc'[w] = IdlePc
           /\ \A v \in Workers : v # w => wpc'[v] = wpc[v]
<1>1. ClientType /\ FlagType /\ PcType /\ KeyType /\ RunType /\ LinkType /\ MailType /\ SinkType
  BY TypesHave
<1>2. PICK p : p = [st |-> "publish", ev |-> event("connectFailed", w, conn[w].gen)]
  OBVIOUS
<1>3. p \in WorkerPcs /\ p.st = "publish" /\ p.ev.kind = "connectFailed" /\ p.ev.w = w
  <2>1. conn[w].gen \in Nat
    BY <1>1 DEF LinkType, ConnState
  <2> QED
    BY <1>2, <2>1 DEF WorkerPcs, Event, event
<1>4. IdlePc \in WorkerPcs
  BY DEF IdlePc, WorkerPcs
<1>5. PICK q \in {p, IdlePc} : wpc' = [wpc EXCEPT ![w] = q]
  BY <1>2 DEF dialFailed
<1>6. UNCHANGED <<clientVars, sink, mode, sinkClosed, fatal, muxVars, tickers,
                  mailbox, connVars, panicked>>
  BY DEF dialFailed
<1>7. /\ wpc' \in [Workers -> WorkerPcs] /\ wpc'[w] = q
      /\ \A v \in Workers : v # w => wpc'[v] = wpc[v]
  <2>1. q \in WorkerPcs
    BY <1>3, <1>4
  <2> QED
    BY <1>1, <1>5, <2>1, WpcEdit
<1>8. LinkType'
  BY <1>1, <1>6, <1>7 DEF LinkType, connVars
<1>9. ClientType' /\ FlagType' /\ PcType' /\ KeyType' /\ RunType' /\ SinkType' /\ MailType'
  BY <1>1, <1>6
  DEF ClientType, HandleType, FlagType, PcType, KeyType, RunType, SinkType, MailType, clientVars, muxVars
<1>10. Types'
  BY <1>8, <1>9, TypesOfNext
<1> QED
  BY <1>3, <1>5, <1>7, <1>10

\* The worker's event goes out; after a connection its read loop begins.
LEMMA PublishDoes ==
    ASSUME Types, NEW w \in Workers, publishEvent(w)
    PROVE  /\ Types' /\ wpc'[w] = IdlePc
           /\ \A v \in Workers : v # w => wpc'[v] = wpc[v]
           /\ wpc[w].ev \in Event /\ sink' = Append(sink, wpc[w].ev)
           /\ wpc[w].ev.kind \notin Ready => readers' = readers
           /\ wpc[w].ev.kind \in Ready => \E q \in Reader :
                 /\ readers' = readers \union {q}
                 /\ q.w = w /\ q.gen = wpc[w].ev.tag /\ q.st = "reading"
<1>1. ClientType /\ FlagType /\ PcType /\ KeyType /\ RunType /\ LinkType /\ MailType /\ SinkType
  BY TypesHave
<1>2. PICK ev : ev = wpc[w].ev
  OBVIOUS
<1>3. wpc[w].st = "publish" /\ Len(sink) < SinkSize /\ sink' = Append(sink, ev)
      /\ wpc' = [wpc EXCEPT ![w] = IdlePc]
      /\ UNCHANGED <<clientVars, mode, sinkClosed, fatal, muxVars, tickers,
                     mailbox, conn, wire, panicked>>
  BY <1>2 DEF publishEvent
<1>4. ev \in Event
  <2>1. wpc[w] \in WorkerPcs
    BY <1>1 DEF LinkType
  <2> QED
    BY <1>2, <1>3, <2>1 DEF WorkerPcs
<1>5. SinkType'
  BY <1>1, <1>3, <1>4, SinkGrows
<1>6. PICK q : q = [w |-> w, gen |-> ev.tag, st |-> "reading"]
  OBVIOUS
<1>7. q \in Reader /\ q.w = w /\ q.gen = ev.tag /\ q.st = "reading"
  BY <1>4, <1>6 DEF Reader, Event
<1>8. readers' = IF ev.kind \in Ready THEN readers \union {q} ELSE readers
  BY <1>2, <1>6 DEF publishEvent, Ready
<1>9. /\ wpc' \in [Workers -> WorkerPcs] /\ wpc'[w] = IdlePc
      /\ \A v \in Workers : v # w => wpc'[v] = wpc[v]
  <2>1. IdlePc \in WorkerPcs
    BY DEF IdlePc, WorkerPcs
  <2> QED
    BY <1>1, <1>3, <2>1, WpcEdit
<1>10. LinkType'
  BY <1>1, <1>3, <1>7, <1>8, <1>9 DEF LinkType
<1>11. ClientType' /\ FlagType' /\ PcType' /\ KeyType' /\ RunType' /\ MailType'
  BY <1>1, <1>3
  DEF ClientType, HandleType, FlagType, PcType, KeyType, RunType, MailType, clientVars, muxVars
<1>12. Types'
  BY <1>5, <1>10, <1>11, TypesOfNext
<1> QED
  BY <1>2, <1>3, <1>4, <1>7, <1>8, <1>9, <1>12

\* A write is made: the connection is kept or closed, and only on a worker without
\* one is anything but an encode failure reported.
LEMMA WriteDoes ==
    ASSUME Types, NEW w \in Workers, NEW outcome \in Results, handleWrite(w, outcome)
    PROVE  /\ Types'
           /\ \/ wpc'[w] = wpc[w]
              \/ /\ wpc'[w].st = "publish" /\ wpc'[w].ev.w = w
                 /\ wpc'[w].ev.kind = "encodeFailed"
                    \/ (wpc'[w].ev.kind = "notConnected" /\ conn[w].st = "nil")
           /\ conn'[w].gen = conn[w].gen
           /\ conn'[w].st = conn[w].st \/ (conn'[w].st = "closed" /\ conn[w].st # "nil")
           /\ \A v \in Workers : v # w => conn'[v] = conn[v] /\ wpc'[v] = wpc[v]
<1>1. ClientType /\ FlagType /\ PcType /\ KeyType /\ RunType /\ LinkType /\ MailType /\ SinkType
  BY TypesHave
<1>2. PICK c : c = Head(mailbox[w])
  OBVIOUS
<1>3. PICK failure : failure = publishWriteFailure(c, outcome)
  OBVIOUS
<1>4. PICK p : p = [st |-> "publish", ev |-> event(failure, w, conn[w].gen)]
  OBVIOUS
<1>5. PICK keys : keys = wireAfter(wire[w], c)
  OBVIOUS
<1>6. takeCommand(w, {"write", "replay", "ping"}) /\ outcome \in writeOutcomes(w)
      /\ resolve(c.h, outcome)
      /\ UNCHANGED <<stopped, commandCh, sink, mode, sinkClosed, fatal,
                     muxVars, tickers, readers, panicked>>
  BY <1>2 DEF handleWrite
<1>7. conn' = (IF outcome = "writeError" THEN [conn EXCEPT ![w].st = "closed"] ELSE conn)
      /\ wpc' = (IF failure = "none" THEN wpc ELSE [wpc EXCEPT ![w] = p])
  BY <1>2, <1>3, <1>4 DEF handleWrite
<1>8. wire' = wire \/ wire' = [wire EXCEPT ![w] = keys]
  <2>1. wire' = (IF outcome = "ok" /\ conn[w].st = "alive"
                 THEN [wire EXCEPT ![w] = wireAfter(@, c)] ELSE wire)
    BY <1>2 DEF handleWrite
  <2> QED
    BY <1>1, <1>5, <2>1 DEF LinkType
<1>9. conn[w].st \in {"nil", "alive", "dead", "closed"} /\ conn[w].gen \in Nat
  BY <1>1 DEF LinkType, ConnState
<1>10. (conn[w].st = "nil" <=> outcome = "notConnected")
  <2>1. CASE conn[w].st = "nil"
    BY <1>6, <2>1 DEF writeOutcomes
  <2>2. CASE conn[w].st = "closed"
    BY <1>6, <2>2 DEF writeOutcomes, encodeOutcomes
  <2>3. CASE conn[w].st = "dead"
    BY <1>6, <2>3 DEF writeOutcomes, encodeOutcomes
  <2>4. CASE conn[w].st = "alive"
    BY <1>6, <2>4 DEF writeOutcomes, encodeOutcomes
  <2> QED
    BY <1>9, <2>1, <2>2, <2>3, <2>4
<1>11. failure \in {"none", "encodeFailed", "notConnected"}
       /\ (failure = "notConnected" => outcome = "notConnected")
  BY <1>3 DEF publishWriteFailure
<1>12. failure # "none" =>
          p \in WorkerPcs /\ p.st = "publish" /\ p.ev.kind = failure /\ p.ev.w = w
  BY <1>4, <1>9, <1>11 DEF WorkerPcs, Event, event
<1>13. /\ wpc' \in [Workers -> WorkerPcs]
       /\ failure = "none" => wpc' = wpc
       /\ failure # "none" => wpc'[w] = p
       /\ \A v \in Workers : v # w => wpc'[v] = wpc[v]
  <2>1. CASE failure = "none"
    BY <1>1, <1>7, <2>1 DEF LinkType
  <2>2. CASE failure # "none"
    BY <1>1, <1>7, <1>12, <2>2, WpcEdit
  <2> QED
    BY <2>1, <2>2
<1>14. /\ conn' \in [Workers -> ConnState] /\ conn'[w].gen = conn[w].gen
       /\ conn'[w].st = conn[w].st \/ (conn'[w].st = "closed" /\ conn[w].st # "nil")
       /\ \A v \in Workers : v # w => conn'[v] = conn[v]
  <2>1. CASE outcome = "writeError"
    BY <1>1, <1>7, <1>10, <2>1, ConnEdit
  <2>2. CASE outcome # "writeError"
    BY <1>1, <1>7, <2>2 DEF LinkType
  <2> QED
    BY <2>1, <2>2
<1>15. MailType' /\ c \in Cmds
  BY <1>1, <1>2, <1>6, MailShrinks
<1>16. wire' \in [Workers -> SUBSET Keys]
  <2>1. keys \in SUBSET Keys
    <3>1. wire[w] \in SUBSET Keys
      BY <1>1 DEF LinkType
    <3>2. CASE c.act = "subscribe"
      BY <1>5, <1>15, <3>1, <3>2 DEF wireAfter, Cmds
    <3>3. CASE c.act = "unsubscribe"
      BY <1>5, <1>15, <3>1, <3>3 DEF wireAfter, Cmds
    <3>4. CASE c.act \notin {"subscribe", "unsubscribe"}
      BY <1>5, <3>1, <3>4 DEF wireAfter
    <3> QED
      BY <3>2, <3>3, <3>4
  <2> QED
    BY <1>1, <1>8, <2>1 DEF LinkType
<1>17. LinkType'
  BY <1>1, <1>6, <1>13, <1>14, <1>16 DEF LinkType
<1>18. HandleType'
  BY <1>1, <1>6, ResolveType DEF ClientType
<1>19. ClientType' /\ FlagType' /\ PcType' /\ KeyType' /\ RunType' /\ SinkType'
  BY <1>1, <1>6, <1>18
  DEF ClientType, FlagType, PcType, KeyType, RunType, SinkType, muxVars
<1>20. Types'
  BY <1>15, <1>17, <1>19, TypesOfNext
<1> QED
  BY <1>10, <1>11, <1>12, <1>13, <1>14, <1>20

\* The worker loop ends.
LEMMA ExitDoes ==
    ASSUME Types, NEW w \in Workers, workerExit(w)
    PROVE  /\ Types' /\ wpc'[w].st = "exited" /\ conn'[w].st = "nil"
           /\ conn'[w].gen = conn[w].gen
           /\ \A v \in Workers : v # w => conn'[v] = conn[v] /\ wpc'[v] = wpc[v]
<1>1. ClientType /\ FlagType /\ PcType /\ KeyType /\ RunType /\ LinkType /\ MailType /\ SinkType
  BY TypesHave
<1>2. PICK p : p = [st |-> "exited"]
  OBVIOUS
<1>3. wpc' = [wpc EXCEPT ![w] = p] /\ conn' = [conn EXCEPT ![w].st = "nil"]
      /\ UNCHANGED <<clientVars, sink, mode, sinkClosed, fatal, muxVars, tickers,
                     mailbox, readers, wire, panicked>>
  BY <1>2 DEF workerExit
<1>4. p \in WorkerPcs /\ p.st = "exited"
  BY <1>2 DEF WorkerPcs
<1>5. /\ wpc' \in [Workers -> WorkerPcs] /\ wpc'[w] = p
      /\ \A v \in Workers : v # w => wpc'[v] = wpc[v]
  BY <1>1, <1>3, <1>4, WpcEdit
<1>6. /\ conn' \in [Workers -> ConnState]
      /\ conn'[w].st = "nil" /\ conn'[w].gen = conn[w].gen
      /\ \A v \in Workers : v # w => conn'[v] = conn[v]
  BY <1>1, <1>3, ConnEdit
<1>7. LinkType'
  BY <1>1, <1>3, <1>5, <1>6 DEF LinkType
<1>8. ClientType' /\ FlagType' /\ PcType' /\ KeyType' /\ RunType' /\ SinkType' /\ MailType'
  BY <1>1, <1>3
  DEF ClientType, HandleType, FlagType, PcType, KeyType, RunType, SinkType, MailType, clientVars, muxVars
<1>9. Types'
  BY <1>7, <1>8, TypesOfNext
<1> QED
  BY <1>4, <1>5, <1>6, <1>9

-----------------------------------------------------------------------------
(* Frames: what of a worker's round a step leaves alone.                    *)

MailQuiet(w) ==
    /\ DialCmd(w)' => DialCmd(w)
    /\ WriteCmd(w)' => WriteCmd(w)
    /\ mailbox[w] = << >> => mailbox'[w] = << >>

SinkQuiet(w) ==
    /\ Sunk(w, Life)' => Sunk(w, Life)
    /\ Sunk(w, Reports)' => Sunk(w, Reports)
    /\ Sunk(w, Ready)' => Sunk(w, Ready)
    /\ Sunk(w, {"connectFailed", "disconnected"})' => Sunk(w, {"connectFailed", "disconnected"})

LoopQuiet(w) ==
    /\ Dialing(w)' => Dialing(w)
    /\ Telling(w, Reports)' => Telling(w, Reports)
    /\ Telling(w, Ready)' => Telling(w, Ready)
    /\ wpc'[w].st = "exited" <=> wpc[w].st = "exited"

PcQuiet(w) ==
    /\ Reconnecting(w)' => Reconnecting(w)
    /\ Replaying(w)' => Replaying(w)
    /\ closing' <=> closing
    /\ state'[w] = state[w]

LinkQuiet(w) ==
    /\ LiveReader(w)' => LiveReader(w)
    /\ conn'[w].st = "nil" => conn[w].st = "nil"

Quiet(w) == MailQuiet(w) /\ SinkQuiet(w) /\ LoopQuiet(w) /\ PcQuiet(w) /\ LinkQuiet(w)

WorkerInv(w) == RoundInv(w) /\ ConnInv(w)

\* A worker that a step leaves alone keeps its invariant.
LEMMA QuietKeeps ==
    ASSUME NEW w \in Workers, WorkerInv(w), Quiet(w)
    PROVE  WorkerInv(w)'
<1> USE DEF Quiet, MailQuiet, SinkQuiet, LoopQuiet, PcQuiet, LinkQuiet
<1>1. Coming(w)' => Coming(w)
  BY DEF Coming
<1>2. Fresh(w)' => Fresh(w)
  BY DEF Fresh
<1>3. RoundInv(w)'
  BY <1>1 DEF WorkerInv, RoundInv
<1>4. ConnInv(w)'
  BY <1>2 DEF WorkerInv, ConnInv
<1> QED
  BY <1>3, <1>4 DEF WorkerInv

\* Mailboxes that stay, and those that lose their first command.
LEMMA MailStays ==
    ASSUME NEW w \in Workers, mailbox'[w] = mailbox[w]
    PROVE  MailQuiet(w) /\ (DialCmd(w)' <=> DialCmd(w)) /\ (WriteCmd(w)' <=> WriteCmd(w))
BY DEF MailQuiet, DialCmd, WriteCmd

\* A command less.
LEMMA MailTaken ==
    ASSUME MailType, NEW w \in Workers, mailbox[w] # << >>, mailbox'[w] = Tail(mailbox[w])
    PROVE  MailQuiet(w)
<1>1. mailbox[w] \in Seq(Cmds)
  BY DEF MailType
<1>2. \A i \in DOMAIN mailbox'[w] : i + 1 \in DOMAIN mailbox[w] /\ mailbox'[w][i] = mailbox[w][i + 1]
  BY <1>1, Taken
<1> QED
  BY <1>2 DEF MailQuiet, DialCmd, WriteCmd

\* A command more.
LEMMA MailAdded ==
    ASSUME MailType, NEW w \in Workers, NEW c \in Cmds, mailbox'[w] = Append(mailbox[w], c)
    PROVE  /\ DialCmd(w)' <=> DialCmd(w) \/ c.type \in Dials
           /\ WriteCmd(w)' <=> WriteCmd(w) \/ c.type \notin Dials
<1>1. PICK q : q = mailbox[w]
  OBVIOUS
<1>2. PICK n : n = Len(q) + 1
  OBVIOUS
<1>3. PICK r : r = mailbox'[w]
  OBVIOUS
<1>4. /\ \A i \in DOMAIN q : i \in DOMAIN r /\ r[i] = q[i]
      /\ \A i \in DOMAIN r : i \in DOMAIN q \/ i = n
      /\ n \in DOMAIN r /\ r[n] = c
  <2>1. q \in Seq(Cmds) /\ r = Append(q, c)
    BY <1>1, <1>3 DEF MailType
  <2>2. Len(q) \in Nat /\ Len(q) + 1 \in 1..(Len(q) + 1)
    BY <2>1
  <2> QED
    BY <1>2, <2>1, <2>2, Added
<1>5. DialCmd(w)' <=> \E i \in DOMAIN r : r[i].type \in Dials
  BY <1>3 DEF DialCmd
<1>6. DialCmd(w) <=> \E i \in DOMAIN q : q[i].type \in Dials
  BY <1>1 DEF DialCmd
<1>7. WriteCmd(w)' <=> \E i \in DOMAIN r : r[i].type \notin Dials
  BY <1>3 DEF WriteCmd
<1>8. WriteCmd(w) <=> \E i \in DOMAIN q : q[i].type \notin Dials
  BY <1>1 DEF WriteCmd
<1> QED
  BY <1>4, <1>5, <1>6, <1>7, <1>8

\* An empty mailbox holds no command.
LEMMA MailEmpty ==
    ASSUME MailType, NEW w \in Workers, mailbox[w] = << >>
    PROVE  ~DialCmd(w) /\ ~WriteCmd(w)
BY DEF DialCmd, WriteCmd

\* Events that stay.
LEMMA SinkStays ==
    ASSUME UNCHANGED sink, NEW w
    PROVE  SinkQuiet(w) /\ \A kinds : Sunk(w, kinds)' <=> Sunk(w, kinds)
BY DEF SinkQuiet, Sunk

\* An event less: only its worker and kind can miss it.
LEMMA SinkTaken ==
    ASSUME SinkType, sink # << >>, sink' = Tail(sink), NEW w, NEW kinds
    PROVE  /\ Sunk(w, kinds)' => Sunk(w, kinds)
           /\ Head(sink).w # w \/ Head(sink).kind \notin kinds =>
                 (Sunk(w, kinds)' <=> Sunk(w, kinds))
           /\ Head(sink).w = w /\ Head(sink).kind \in kinds => Sunk(w, kinds)
<1>1. sink \in Seq(Event)
  BY DEF SinkType
<1>2. PICK t : t = sink'
  OBVIOUS
<1>3. /\ \A i \in DOMAIN t : i + 1 \in DOMAIN sink /\ t[i] = sink[i + 1]
      /\ \A i \in DOMAIN sink : i # 1 => i - 1 \in DOMAIN t /\ t[i - 1] = sink[i]
      /\ Head(sink) = sink[1] /\ 1 \in DOMAIN sink
  BY <1>1, <1>2, Taken
<1>4. Sunk(w, kinds)' <=> \E i \in DOMAIN t : t[i].w = w /\ t[i].kind \in kinds
  BY <1>2 DEF Sunk
<1> QED
  BY <1>3, <1>4 DEF Sunk

\* In particular no worker has more events.
LEMMA SinkTakenQuiet ==
    ASSUME SinkType, sink # << >>, sink' = Tail(sink), NEW w
    PROVE  SinkQuiet(w)
BY SinkTaken DEF SinkQuiet

\* An event more.
LEMMA SinkAdded ==
    ASSUME SinkType, NEW e \in Event, sink' = Append(sink, e), NEW w, NEW kinds
    PROVE  Sunk(w, kinds)' <=> Sunk(w, kinds) \/ (e.w = w /\ e.kind \in kinds)
<1>1. sink \in Seq(Event)
  BY DEF SinkType
<1>2. PICK n : n = Len(sink) + 1
  OBVIOUS
<1>3. PICK t : t = sink'
  OBVIOUS
<1>4. /\ \A i \in DOMAIN sink : i \in DOMAIN t /\ t[i] = sink[i]
      /\ \A i \in DOMAIN t : i \in DOMAIN sink \/ i = n
      /\ n \in DOMAIN t /\ t[n] = e
  <2>1. Len(sink) \in Nat /\ Len(sink) + 1 \in 1..(Len(sink) + 1)
    BY <1>1
  <2> QED
    BY <1>1, <1>2, <1>3, <2>1, Added
<1>5. Sunk(w, kinds)' <=> \E i \in DOMAIN t : t[i].w = w /\ t[i].kind \in kinds
  BY <1>3 DEF Sunk
<1> QED
  BY <1>4, <1>5 DEF Sunk

\* It is of no concern to other workers, nor is one that is not about a connection.
LEMMA SinkAddedQuiet ==
    ASSUME SinkType, NEW e \in Event, sink' = Append(sink, e), NEW w,
           e.w # w \/ e.kind \notin Life
    PROVE  SinkQuiet(w)
<1>1. e.kind \notin Life => /\ e.kind \notin Reports /\ e.kind \notin Ready
                            /\ e.kind \notin {"connectFailed", "disconnected"}
  BY DEF Life, Reports, Ready
<1> QED
  BY <1>1, SinkAdded DEF SinkQuiet

\* A worker loop that stays.
LEMMA LoopStays ==
    ASSUME NEW w \in Workers, wpc'[w] = wpc[w]
    PROVE  LoopQuiet(w) /\ \A kinds : Telling(w, kinds)' <=> Telling(w, kinds)
BY DEF LoopQuiet, Dialing, Telling

\* A mux loop that stays.
LEMMA PcStays ==
    ASSUME NEW w \in Workers, UNCHANGED <<muxPc, state>>
    PROVE  PcQuiet(w) /\ (Replaying(w)' <=> Replaying(w))
BY DEF PcQuiet, Reconnecting, Replaying, closing

\* A worker whose connection and read loops stay.
LEMMA LinkStays ==
    ASSUME LinkType, NEW w \in Workers, conn'[w] = conn[w], readers' \subseteq readers
    PROVE  LinkQuiet(w)
BY DEF LinkQuiet, LiveReader, Reporter

-----------------------------------------------------------------------------
(* Frames of the other parts of the invariant.                              *)

\* The order of the events survives the removal of the first.
LEMMA OrderTaken ==
    ASSUME SinkType, SinkInv, sink # << >>, sink' = Tail(sink)
    PROVE  SinkInv'
<1>1. sink \in Seq(Event)
  BY DEF SinkType
<1>2. PICK t : t = sink'
  OBVIOUS
<1>3. \A i \in DOMAIN t : i \in Nat /\ i + 1 \in DOMAIN sink /\ t[i] = sink[i + 1]
  BY <1>1, <1>2, Taken
<1>4. ASSUME NEW i \in DOMAIN t, NEW j \in DOMAIN t, i < j, t[i].w = t[j].w,
             t[i].kind \in Life, t[j].kind \in Life
      PROVE  t[i].kind \in Ready /\ t[j].kind = "disconnected"
  <2>1. i + 1 < j + 1
    <3>1. i \in Nat /\ j \in Nat
      BY <1>3
    <3> QED
      BY <1>4, <3>1
  <2> QED
    BY <1>3, <1>4, <2>1 DEF SinkInv
<1> QED
  BY <1>2, <1>4 DEF SinkInv

\* It allows e behind what is in sink.
InOrder(e) ==
    \A i \in DOMAIN sink : sink[i].w = e.w /\ sink[i].kind \in Life /\ e.kind \in Life =>
        sink[i].kind \in Ready /\ e.kind = "disconnected"

\* The order of the events survives such an addition.
LEMMA OrderAdded ==
    ASSUME SinkType, SinkInv, NEW e \in Event, sink' = Append(sink, e), InOrder(e)
    PROVE  SinkInv'
<1>1. sink \in Seq(Event)
  BY DEF SinkType
<1>2. PICK n : n = Len(sink) + 1
  OBVIOUS
<1>3. PICK t : t = sink'
  OBVIOUS
<1>4. /\ \A i \in DOMAIN sink : i \in DOMAIN t /\ t[i] = sink[i]
      /\ \A i \in DOMAIN t : i \in DOMAIN sink \/ i = n
      /\ n \in DOMAIN t /\ t[n] = e
      /\ \A i \in DOMAIN t : ~(n < i)
  <2>1. Len(sink) \in Nat /\ Len(sink) + 1 \in 1..(Len(sink) + 1)
        /\ \A i \in 1..(Len(sink) + 1) : ~(Len(sink) + 1 < i)
    BY <1>1
  <2> QED
    BY <1>1, <1>2, <1>3, <2>1, Added
<1>5. ASSUME NEW i \in DOMAIN t, NEW j \in DOMAIN t, i < j, t[i].w = t[j].w,
             t[i].kind \in Life, t[j].kind \in Life
      PROVE  t[i].kind \in Ready /\ t[j].kind = "disconnected"
  <2>1. i \in DOMAIN sink /\ t[i] = sink[i]
    BY <1>4, <1>5
  <2>2. CASE j \in DOMAIN sink
    BY <1>4, <1>5, <2>1, <2>2 DEF SinkInv
  <2>3. CASE j = n
    BY <1>4, <1>5, <2>1, <2>3 DEF InOrder
  <2> QED
    BY <1>4, <2>2, <2>3
<1> QED
  BY <1>3, <1>5 DEF SinkInv

\* No loss is reported that was not before.
NoNewLoss ==
    \A i \in DOMAIN sink' : sink'[i].kind = "disconnected" =>
        \E j \in DOMAIN sink : sink[j] = sink'[i]

\* Taking an event reports no loss.
LEMMA LossTaken ==
    ASSUME SinkType, sink # << >>, sink' = Tail(sink)
    PROVE  NoNewLoss
<1>1. sink \in Seq(Event)
  BY DEF SinkType
<1> QED
  BY <1>1, Taken DEF NoNewLoss

\* Nor does an event of another kind.
LEMMA LossNotAdded ==
    ASSUME SinkType, NEW e \in Event, sink' = Append(sink, e), e.kind # "disconnected"
    PROVE  NoNewLoss
<1>1. sink \in Seq(Event)
  BY DEF SinkType
<1> QED
  BY <1>1, Added DEF NoNewLoss

\* A step that neither makes connections nor loses them.
GenQuiet ==
    /\ NoNewLoss
    /\ \A w \in Workers : conn'[w].gen = conn[w].gen /\ (conn'[w].st = "alive" => conn[w].st = "alive")
    /\ \A w \in Workers : wpc'[w].st = "publish" =>
          \/ wpc'[w] = wpc[w]
          \/ wpc'[w].ev.w = w /\ wpc'[w].ev.kind \in {"encodeFailed", "connectFailed"}
    /\ readers' \subseteq readers

\* Such a step keeps connections, events and read loops together.
LEMMA GenKeeps ==
    ASSUME SinkType, LinkType, LinkType', SinkType', GenInv, GenQuiet
    PROVE  GenInv'
<1>1. \A i \in DOMAIN sink : sink[i].w \in Workers
  <2>1. \A i \in DOMAIN sink : sink[i] \in Event
    BY DEF SinkType
  <2> QED
    BY <2>1 DEF Event
<1>2. \A r \in readers : r.w \in Workers
  BY DEF LinkType, Reader
<1>3. \A i \in DOMAIN sink' : sink'[i].kind = "disconnected" =>
         sink'[i].tag = conn'[sink'[i].w].gen /\ conn'[sink'[i].w].st # "alive"
  <2> SUFFICES ASSUME NEW i \in DOMAIN sink', sink'[i].kind = "disconnected"
               PROVE  sink'[i].tag = conn'[sink'[i].w].gen /\ conn'[sink'[i].w].st # "alive"
    OBVIOUS
  <2>1. PICK j \in DOMAIN sink : sink[j] = sink'[i]
    BY DEF GenQuiet, NoNewLoss
  <2>2. sink[j].tag = conn[sink[j].w].gen /\ conn[sink[j].w].st # "alive" /\ sink[j].w \in Workers
    BY <1>1, <2>1 DEF GenInv
  <2> QED
    BY <2>1, <2>2 DEF GenQuiet
<1>4. ASSUME NEW w \in Workers, wpc'[w].st = "publish"
      PROVE  /\ wpc'[w].ev.w = w /\ wpc'[w].ev.kind \in Reports \union {"encodeFailed"}
             /\ wpc'[w].ev.kind \in Ready => wpc'[w].ev.tag = conn'[w].gen
  <2>1. CASE wpc'[w] = wpc[w]
    <3>1. conn'[w].gen = conn[w].gen
      BY DEF GenQuiet
    <3> QED
      BY <1>4, <2>1, <3>1 DEF GenInv, Telling
  <2>2. CASE wpc'[w].ev.w = w /\ wpc'[w].ev.kind \in {"encodeFailed", "connectFailed"}
    BY <2>2 DEF Reports, Ready
  <2> QED
    BY <1>4, <2>1, <2>2 DEF GenQuiet
<1>5. \A r \in readers' : r.gen <= conn'[r.w].gen
  BY <1>2 DEF GenInv, GenQuiet
<1>6. \A r \in readers' : r.st = "failed" => r.gen = conn'[r.w].gen /\ conn'[r.w].st # "alive"
  BY <1>2 DEF GenInv, GenQuiet
<1>7. \A r, q \in readers' : r.w = q.w /\ r.gen = q.gen => r = q
  BY DEF GenInv, GenQuiet
<1> QED
  BY <1>3, <1>4, <1>5, <1>6, <1>7 DEF GenInv, Telling

\* One mailbox.
MailOk(w) ==
    \A i \in DOMAIN mailbox[w] :
        /\ mailbox[w][i].type \in Dials => i = Len(mailbox[w])
        /\ mailbox[w][i].type = "ping" => mailbox[w][i].epoch = conn[w].gen

\* A mailbox that stays, of a worker whose connection stays.
LEMMA MailOkStays ==
    ASSUME NEW w \in Workers, MailOk(w), mailbox'[w] = mailbox[w], conn'[w].gen = conn[w].gen
    PROVE  MailOk(w)'
BY DEF MailOk

\* A mailbox that loses its first command.
LEMMA MailOkTaken ==
    ASSUME MailType, NEW w \in Workers, MailOk(w), mailbox[w] # << >>,
           mailbox'[w] = Tail(mailbox[w]), conn'[w].gen = conn[w].gen
    PROVE  MailOk(w)'
<1>1. mailbox[w] \in Seq(Cmds)
  BY DEF MailType
<1>2. PICK q : q = mailbox[w]
  OBVIOUS
<1>3. PICK t : t = mailbox'[w]
  OBVIOUS
<1>4. /\ \A i \in DOMAIN t : i \in Nat /\ i + 1 \in DOMAIN q /\ t[i] = q[i + 1]
      /\ Len(t) = Len(q) - 1 /\ Len(q) \in Nat
  BY <1>1, <1>2, <1>3, Taken
<1>5. \A i \in DOMAIN q : /\ q[i].type \in Dials => i = Len(q)
                          /\ q[i].type = "ping" => q[i].epoch = conn[w].gen
  BY <1>2 DEF MailOk
<1>6. ASSUME NEW i \in DOMAIN t
      PROVE  /\ t[i].type \in Dials => i = Len(t)
             /\ t[i].type = "ping" => t[i].epoch = conn'[w].gen
  <2>1. t[i].type \in Dials => i + 1 = Len(q)
    BY <1>4, <1>5
  <2>2. i + 1 = Len(q) => i = Len(t)
    <3>1. i \in Nat /\ Len(q) \in Nat /\ Len(t) = Len(q) - 1
      BY <1>4
    <3> QED
      BY <3>1
  <2> QED
    BY <1>4, <1>5, <2>1, <2>2
<1> QED
  BY <1>3, <1>6 DEF MailOk

\* A mailbox that gets a command, when no dial waits in it.
LEMMA MailOkAdded ==
    ASSUME MailType, NEW w \in Workers, NEW c \in Cmds, MailOk(w), ~DialCmd(w),
           mailbox'[w] = Append(mailbox[w], c), conn'[w].gen = conn[w].gen,
           c.type = "ping" => c.epoch = conn[w].gen
    PROVE  MailOk(w)'
<1>1. mailbox[w] \in Seq(Cmds)
  BY DEF MailType
<1>2. PICK q : q = mailbox[w]
  OBVIOUS
<1>3. PICK t : t = mailbox'[w]
  OBVIOUS
<1>4. /\ \A i \in DOMAIN q : t[i] = q[i]
      /\ \A i \in DOMAIN t : i \in DOMAIN q \/ i = Len(t)
      /\ t[Len(t)] = c
  BY <1>1, <1>2, <1>3, Added
<1>5. \A i \in DOMAIN q : /\ q[i].type \notin Dials
                          /\ q[i].type = "ping" => q[i].epoch = conn[w].gen
  BY <1>2 DEF MailOk, DialCmd
<1>6. ASSUME NEW i \in DOMAIN t
      PROVE  /\ t[i].type \in Dials => i = Len(t)
             /\ t[i].type = "ping" => t[i].epoch = conn'[w].gen
  BY <1>4, <1>5
<1> QED
  BY <1>3, <1>6 DEF MailOk

\* One worker's epoch.
EpochOk(w) ==
    mode.ping /\ ~closing => conn[w].gen = IF Fresh(w) THEN epoch[w] + 1 ELSE epoch[w]

\* An epoch that stays, of a worker that stays as fresh as it was.
LEMMA EpochStays ==
    ASSUME NEW w \in Workers, EpochOk(w), conn'[w].gen = conn[w].gen, UNCHANGED mode,
           closing => closing', closing' \/ epoch'[w] = epoch[w],
           closing' \/ (Fresh(w)' <=> Fresh(w))
    PROVE  EpochOk(w)'
BY DEF EpochOk

TickOk ==
    tickers # {} \/ (\E i \in DOMAIN sink : sink[i].kind = "pingTick") => mode.ping

\* Ticks that were taken or not sent.
LEMMA TickTaken ==
    ASSUME SinkType, TickOk, tickers' \subseteq tickers, UNCHANGED mode,
           sink' = sink \/ (sink # << >> /\ sink' = Tail(sink))
    PROVE  TickOk'
<1>1. sink \in Seq(Event)
  BY DEF SinkType
<1> QED
  BY <1>1, Taken DEF TickOk

\* An event of another kind, or a tick of a ticker.
LEMMA TickAdded ==
    ASSUME SinkType, TickOk, UNCHANGED <<tickers, mode>>, NEW e \in Event,
           sink' = Append(sink, e), e.kind # "pingTick" \/ tickers # {}
    PROVE  TickOk'
<1>1. sink \in Seq(Event)
  BY DEF SinkType
<1> QED
  BY <1>1, Added DEF TickOk

\* The parts of the invariant, worker by worker.
LEMMA MuxInvParts ==
    MuxInv <=> /\ Types /\ SinkInv /\ GenInv /\ TickOk
               /\ \A w \in Workers : WorkerInv(w) /\ MailOk(w) /\ EpochOk(w)
BY DEF MuxInv, MailInv, MailOk, PingInv, EpochOk, TickOk, WorkerInv

\* The same after a step.
LEMMA MuxInvPartsNext ==
    MuxInv' <=> /\ Types' /\ SinkInv' /\ GenInv' /\ TickOk'
                /\ \A w \in Workers : WorkerInv(w)' /\ MailOk(w)' /\ EpochOk(w)'
BY DEF MuxInv, MailInv, MailOk, PingInv, EpochOk, TickOk, WorkerInv

-----------------------------------------------------------------------------
(* The steps.                                                               *)

\* What a worker needs to stay as fresh as it was.
LEMMA FreshStays ==
    ASSUME NEW w \in Workers, wpc'[w] = wpc[w], Sunk(w, Ready)' <=> Sunk(w, Ready),
           Replaying(w)' <=> Replaying(w)
    PROVE  Fresh(w)' <=> Fresh(w)
BY LoopStays DEF Fresh

\* Nothing that concerns the workers happens.
LEMMA IdleKeeps ==
    ASSUME MuxInv, Types', tickers' \subseteq tickers,
           UNCHANGED <<mode, sink, mailbox, wpc, conn, readers, muxPc, state, epoch>>
    PROVE  MuxInv'
<1>1. /\ Types /\ SinkInv /\ GenInv /\ TickOk
      /\ \A w \in Workers : WorkerInv(w) /\ MailOk(w) /\ EpochOk(w)
  BY MuxInvParts
<1>2. LinkType /\ LinkType' /\ SinkType /\ SinkType' /\ MailType
  BY <1>1, TypesHave, TypesHaveNext
<1>3. ASSUME NEW w \in Workers PROVE WorkerInv(w)' /\ MailOk(w)' /\ EpochOk(w)'
  <2>1. Quiet(w) /\ (Fresh(w)' <=> Fresh(w))
    BY <1>2, MailStays, SinkStays, LoopStays, PcStays, LinkStays, FreshStays DEF Quiet
  <2>2. closing' <=> closing
    BY DEF closing
  <2> QED
    BY <1>1, <2>1, <2>2, QuietKeeps, MailOkStays, EpochStays
<1>4. SinkInv' /\ TickOk'
  BY <1>1, <1>2, TickTaken DEF SinkInv
<1>5. GenInv'
  BY <1>1, <1>2, GenKeeps DEF GenQuiet, NoNewLoss
<1> QED
  BY <1>3, <1>4, <1>5, MuxInvPartsNext

\* The callers.
LEMMA ClientKeeps == ASSUME MuxInv, Client PROVE MuxInv'
<1>1. Types'
  BY ClientTypes DEF MuxInv
<1>2. UNCHANGED <<mode, sink, mailbox, wpc, conn, readers, muxPc, state, epoch, tickers>>
  BY DEF Client, Submit, Stop, watchFatal, muxVars, connVars
<1> QED
  BY <1>1, <1>2, IdleKeeps

\* A worker that has a connection, and no dial ahead of it, gets a command.
LEMMA SentKeeps ==
    ASSUME MailType, NEW w \in Workers, NEW c \in Cmds, WorkerInv(w), c.type \notin Dials,
           ~Coming(w), conn[w].st # "nil", wpc[w].st # "exited",
           mailbox'[w] = Append(mailbox[w], c),
           SinkQuiet(w), LoopQuiet(w), PcQuiet(w), LinkQuiet(w)
    PROVE  WorkerInv(w)'
<1> USE DEF SinkQuiet, LoopQuiet, PcQuiet, LinkQuiet
<1>1. DialCmd(w)' <=> DialCmd(w)
  BY MailAdded
<1>2. ~Coming(w)'
  BY <1>1 DEF Coming
<1>3. ~Dialing(w)' /\ ~Telling(w, Reports)' /\ ~Reconnecting(w)'
  BY <1>2 DEF Coming
<1>4. RoundInv(w)'
  BY <1>2, <1>3 DEF WorkerInv, RoundInv
<1>5. ConnInv(w)'
  BY DEF WorkerInv, ConnInv
<1> QED
  BY <1>4, <1>5 DEF WorkerInv

\* A connected worker has a connection and no dial ahead of it.
LEMMA ConnectedHas ==
    ASSUME NEW w \in Workers, WorkerInv(w), state[w] = "connected"
    PROVE  ~Coming(w) /\ conn[w].st # "nil" /\ wpc[w].st # "exited" /\ ~Fresh(w)
<1>1. ~Coming(w) /\ ~Sunk(w, Reports) /\ ~Replaying(w)
  BY DEF WorkerInv, RoundInv
<1>2. wpc[w].st # "exited" /\ conn[w].st # "nil"
  BY DEF WorkerInv, ConnInv
<1>3. ~Telling(w, Ready)
  BY <1>1 DEF Coming, Telling, Reports
<1>4. ~Sunk(w, Ready)
  BY <1>1 DEF Sunk, Reports
<1> QED
  BY <1>1, <1>2, <1>3, <1>4 DEF Fresh

\* A command of a caller.
LEMMA CommandKeeps == ASSUME MuxInv, handleCommand PROVE MuxInv'
<1>1. /\ Types /\ SinkInv /\ GenInv /\ TickOk
      /\ \A w \in Workers : WorkerInv(w) /\ MailOk(w) /\ EpochOk(w)
  BY MuxInvParts
<1>2. Types' /\ (WriteSent \/ UNCHANGED mailbox)
  BY <1>1, CommandDoes
<1>3. UNCHANGED <<mode, sink, wpc, conn, readers, muxPc, state, epoch, tickers>>
  BY DEF handleCommand, connVars
<1>4. CASE UNCHANGED mailbox
  BY <1>2, <1>3, <1>4, IdleKeeps
<1>5. CASE WriteSent
  <2>1. PICK w \in Workers, c \in Cmds :
           /\ state[w] = "connected" /\ hasRoom(w) /\ c.type = "write"
           /\ mailbox' = [mailbox EXCEPT ![w] = Append(@, c)]
    BY <1>5 DEF WriteSent
  <2>2. LinkType /\ LinkType' /\ SinkType /\ SinkType' /\ MailType
    BY <1>1, <1>2, TypesHave, TypesHaveNext
  <2>3. mailbox'[w] = Append(mailbox[w], c) /\ \A v \in Workers : v # w => mailbox'[v] = mailbox[v]
    BY <2>1, <2>2, MailGrows
  <2>4. ASSUME NEW v \in Workers
        PROVE  /\ SinkQuiet(v) /\ LoopQuiet(v) /\ PcQuiet(v) /\ LinkQuiet(v)
               /\ Fresh(v)' <=> Fresh(v)
    BY <1>3, <2>2, SinkStays, LoopStays, PcStays, LinkStays, FreshStays
  <2>5. closing' <=> closing
    BY <1>3 DEF closing
  <2>6. c.type \notin Dials /\ c.type # "ping"
    BY <2>1 DEF Dials
  <2>7. ASSUME NEW v \in Workers PROVE WorkerInv(v)' /\ MailOk(v)' /\ EpochOk(v)'
    <3>1. EpochOk(v)'
      BY <1>1, <1>3, <2>4, <2>5, EpochStays
    <3>2. CASE v = w
      <4>1. ~Coming(w) /\ conn[w].st # "nil" /\ wpc[w].st # "exited"
        BY <1>1, <2>1, ConnectedHas
      <4>2. WorkerInv(w)'
        BY <1>1, <2>2, <2>3, <2>4, <2>6, <4>1, SentKeeps
      <4>3. MailOk(w)'
        BY <1>1, <1>3, <2>2, <2>3, <2>6, <4>1, MailOkAdded DEF Coming
      <4> QED
        BY <3>1, <3>2, <4>2, <4>3
    <3>3. CASE v # w
      <4>1. Quiet(v)
        BY <2>3, <2>4, <3>3, MailStays DEF Quiet
      <4> QED
        BY <1>1, <1>3, <2>3, <3>1, <3>3, <4>1, QuietKeeps, MailOkStays
    <3> QED
      BY <3>2, <3>3
  <2>8. SinkInv' /\ TickOk'
    BY <1>1, <1>3, <2>2, TickTaken DEF SinkInv
  <2>9. GenInv'
    BY <1>1, <1>3, <2>2, GenKeeps DEF GenQuiet, NoNewLoss
  <2> QED
    BY <1>2, <2>7, <2>8, <2>9, MuxInvPartsNext
<1> QED
  BY <1>2, <1>4, <1>5

\* The first event, when it is about a worker's life: what is behind it.
LEMMA HeadAlone ==
    ASSUME SinkType, SinkInv, sink # << >>, sink' = Tail(sink), Head(sink).kind \in Life,
           NEW w, w = Head(sink).w
    PROVE  /\ ~Sunk(w, Reports)' /\ ~Sunk(w, Ready)'
           /\ Head(sink).kind \notin Ready => ~Sunk(w, Life)'
<1>1. sink \in Seq(Event)
  BY DEF SinkType
<1>2. PICK t : t = sink'
  OBVIOUS
<1>3. /\ \A i \in DOMAIN t : i \in Nat /\ i + 1 \in DOMAIN sink /\ t[i] = sink[i + 1] /\ i # 0
      /\ Head(sink) = sink[1] /\ 1 \in DOMAIN sink
  <2>1. \A i \in DOMAIN t : i # 0
    <3>1. t \in Seq(Event)
      BY <1>1, <1>2
    <3> QED
      BY <3>1
  <2> QED
    BY <1>1, <1>2, <2>1, Taken
<1>4. \A i \in DOMAIN t : 1 < i + 1
  <2>1. \A i \in Nat : i # 0 => 1 < i + 1
    OBVIOUS
  <2> QED
    BY <1>3, <2>1
<1>5. ASSUME NEW i \in DOMAIN t, t[i].w = w, t[i].kind \in Life
      PROVE  Head(sink).kind \in Ready /\ t[i].kind = "disconnected"
  BY <1>3, <1>4, <1>5 DEF SinkInv
<1>6. "disconnected" \notin Reports /\ "disconnected" \notin Ready /\ Reports \subseteq Life
      /\ Ready \subseteq Life
  BY DEF Reports, Ready, Life
<1> QED
  BY <1>2, <1>5, <1>6 DEF Sunk

\* What the end of handleWorkerReady changes.
LEMMA BecomeDoes ==
    ASSUME RunType, NEW w \in Workers, becomeReady(w)
    PROVE  /\ state'[w] = "connected"
           /\ \A v \in Workers : v # w => state'[v] = state[v] /\ epoch'[v] = epoch[v]
           /\ mode.ping => epoch'[w] = epoch[w] + 1
           /\ mode.ping \/ tickers' = tickers
<1>1. state' = [state EXCEPT ![w] = "connected"]
      /\ \/ mode.ping /\ epoch' = [epoch EXCEPT ![w] = @ + 1]
         \/ ~mode.ping /\ UNCHANGED <<epoch, tickers>>
  BY DEF becomeReady
<1> QED
  BY <1>1 DEF RunType

\* A worker is ready: all of its round before that is over.
LEMMA ReadyKeeps ==
    ASSUME NEW w \in Workers, WorkerInv(w), ~Coming(w)', ~closing', conn[w].st # "nil",
           conn'[w] = conn[w], wpc'[w] = wpc[w], wpc[w].st # "exited", ~Sunk(w, Reports)',
           SinkQuiet(w), LinkQuiet(w), ~Replaying(w)'
    PROVE  WorkerInv(w)'
<1>1. ~Reconnecting(w)' /\ ~Dialing(w)' /\ ~Telling(w, Reports)'
  BY DEF Coming
<1>2. RoundInv(w)'
  BY <1>1 DEF WorkerInv, RoundInv, SinkQuiet, LinkQuiet
<1>3. ConnInv(w)'
  BY DEF ConnInv
<1> QED
  BY <1>2, <1>3 DEF WorkerInv

\* A new connection is reported, and there is nothing to replay.
LEMMA ReadyAtOnce ==
    ASSUME MuxInv, Types', handleWorkerReady, muxPc' = LoopPc, becomeReady(Head(sink).w)
    PROVE  MuxInv'
<1>1. /\ Types /\ SinkInv /\ GenInv /\ TickOk
      /\ \A v \in Workers : WorkerInv(v) /\ MailOk(v) /\ EpochOk(v)
  BY MuxInvParts
<1>2. LinkType /\ LinkType' /\ SinkType /\ SinkType' /\ MailType /\ RunType
  BY <1>1, TypesHave, TypesHaveNext
<1>3. takeEvent({"connected", "reconnected"}) /\ UNCHANGED <<mode, mailbox, wpc, conn, readers>>
  BY DEF handleWorkerReady, connVars
<1>4. PICK w : w = Head(sink).w
  OBVIOUS
<1>5. /\ w \in Workers /\ sink # << >> /\ sink' = Tail(sink) /\ muxPc = LoopPc
      /\ Head(sink).kind \in Ready
  BY <1>1, <1>3, <1>4, EventTaken DEF Ready
<1>6. Head(sink).kind \in Life
  BY <1>5 DEF Life, Reports
<1>7. Sunk(w, Life) /\ Sunk(w, Ready)
  BY <1>2, <1>4, <1>5, <1>6, SinkTaken
<1>8. ~Sunk(w, Reports)' /\ ~Sunk(w, Ready)'
  BY <1>1, <1>2, <1>4, <1>5, <1>6, HeadAlone
<1>9. \A v \in Workers : ~Replaying(v) /\ ~Replaying(v)' /\ ~Reconnecting(v) /\ ~Reconnecting(v)'
  BY <1>5 DEF Replaying, Reconnecting, LoopPc
<1>10. ~closing /\ ~closing'
  BY <1>5 DEF closing, LoopPc
<1>11. /\ state'[w] = "connected"
       /\ \A v \in Workers : v # w => state'[v] = state[v] /\ epoch'[v] = epoch[v]
       /\ mode.ping => epoch'[w] = epoch[w] + 1
       /\ mode.ping \/ tickers' = tickers
  BY <1>2, <1>4, <1>5, BecomeDoes
<1>12. WorkerInv(w)' /\ EpochOk(w)'
  <2>1. ~Coming(w)
    BY <1>1, <1>5, <1>7 DEF WorkerInv, RoundInv
  <2>2. ~Coming(w)'
    <3>1. (DialCmd(w)' <=> DialCmd(w)) /\ (Dialing(w)' <=> Dialing(w))
          /\ (Telling(w, Reports)' <=> Telling(w, Reports))
      BY <1>3, <1>5 DEF DialCmd, Dialing, Telling
    <3> QED
      BY <1>5, <1>9, <2>1, <3>1 DEF Coming
  <2>3. conn[w].st # "nil" /\ wpc[w].st # "exited"
    BY <1>1, <1>5, <1>7, <1>10 DEF WorkerInv, ConnInv, Fresh
  <2>4. SinkQuiet(w) /\ LinkQuiet(w)
    BY <1>2, <1>3, <1>5, SinkTakenQuiet, LinkStays
  <2>5. WorkerInv(w)'
    BY <1>1, <1>3, <1>5, <1>8, <1>9, <1>10, <2>2, <2>3, <2>4, ReadyKeeps
  <2>6. Fresh(w) /\ ~Fresh(w)'
    <3>1. ~Telling(w, Ready)'
      BY <2>2 DEF Coming, Telling, Reports
    <3> QED
      BY <1>5, <1>7, <1>8, <1>9, <3>1 DEF Fresh
  <2>7. EpochOk(w)'
    BY <1>1, <1>3, <1>5, <1>10, <1>11, <2>6 DEF EpochOk
  <2> QED
    BY <2>5, <2>7
<1>13. ASSUME NEW v \in Workers, v # w PROVE WorkerInv(v)' /\ EpochOk(v)'
  <2>1. SinkQuiet(v) /\ LinkQuiet(v) /\ MailQuiet(v) /\ LoopQuiet(v)
    BY <1>2, <1>3, <1>5, SinkTakenQuiet, LinkStays, MailStays, LoopStays
  <2>2. PcQuiet(v)
    BY <1>9, <1>10, <1>11, <1>13 DEF PcQuiet
  <2>3. Sunk(v, Ready)' <=> Sunk(v, Ready)
    BY <1>2, <1>4, <1>5, <1>13, SinkTaken
  <2>4. Fresh(v)' <=> Fresh(v)
    BY <1>3, <1>9, <2>3, FreshStays
  <2> QED
    BY <1>1, <1>3, <1>10, <1>11, <1>13, <2>1, <2>2, <2>4, QuietKeeps, EpochStays DEF Quiet
<1>14. \A v \in Workers : MailOk(v)'
  BY <1>1, <1>3, MailOkStays
<1>15. SinkInv' /\ GenInv'
  <2>1. GenQuiet
    BY <1>2, <1>3, <1>5, LossTaken DEF GenQuiet
  <2> QED
    BY <1>1, <1>2, <1>5, <2>1, OrderTaken, GenKeeps
<1>16. TickOk'
  <2>1. CASE mode.ping
    BY <1>3, <2>1 DEF TickOk
  <2>2. CASE ~mode.ping
    BY <1>1, <1>2, <1>3, <1>5, <1>11, <2>2, TickTaken
  <2> QED
    BY <2>1, <2>2
<1> QED
  BY <1>12, <1>13, <1>14, <1>15, <1>16, MuxInvPartsNext

\* A new connection is reported, and its keys have to be replayed first.
LEMMA ReadyReplays ==
    ASSUME MuxInv, Types', handleWorkerReady, muxPc'.st = "replay", muxPc'.w = Head(sink).w,
           UNCHANGED <<state, epoch, tickers>>
    PROVE  MuxInv'
<1>1. /\ Types /\ SinkInv /\ GenInv /\ TickOk
      /\ \A v \in Workers : WorkerInv(v) /\ MailOk(v) /\ EpochOk(v)
  BY MuxInvParts
<1>2. LinkType /\ LinkType' /\ SinkType /\ SinkType' /\ MailType /\ RunType
  BY <1>1, TypesHave, TypesHaveNext
<1>3. takeEvent({"connected", "reconnected"}) /\ UNCHANGED <<mode, mailbox, wpc, conn, readers>>
  BY DEF handleWorkerReady, connVars
<1>4. PICK w : w = Head(sink).w
  OBVIOUS
<1>5. /\ w \in Workers /\ sink # << >> /\ sink' = Tail(sink) /\ muxPc = LoopPc
      /\ Head(sink).kind \in Ready
  BY <1>1, <1>3, <1>4, EventTaken DEF Ready
<1>6. Head(sink).kind \in Life /\ Head(sink).kind \in Reports
  BY <1>5 DEF Life, Reports
<1>7. Sunk(w, Life) /\ Sunk(w, Ready) /\ Sunk(w, Reports)
  BY <1>2, <1>4, <1>5, <1>6, SinkTaken
<1>8. ~Sunk(w, Reports)' /\ ~Sunk(w, Ready)'
  BY <1>1, <1>2, <1>4, <1>5, <1>6, HeadAlone
<1>9. /\ \A v \in Workers : ~Replaying(v) /\ ~Reconnecting(v) /\ ~Reconnecting(v)'
      /\ Replaying(w)' /\ \A v \in Workers : v # w => ~Replaying(v)'
  BY <1>4, <1>5 DEF Replaying, Reconnecting, LoopPc
<1>10. ~closing /\ ~closing'
  BY <1>5 DEF closing, LoopPc
<1>11. ASSUME NEW v \in Workers
       PROVE  SinkQuiet(v) /\ LinkQuiet(v) /\ MailQuiet(v) /\ LoopQuiet(v)
  BY <1>2, <1>3, <1>5, SinkTakenQuiet, LinkStays, MailStays, LoopStays
<1>12. WorkerInv(w)' /\ EpochOk(w)'
  <2>1. ~Coming(w) /\ state[w] # "connected"
    BY <1>1, <1>5, <1>7 DEF WorkerInv, RoundInv
  <2>2. ~Coming(w)'
    BY <1>5, <1>9, <1>11, <2>1 DEF Coming, MailQuiet, LoopQuiet
  <2>3. conn[w].st # "nil" /\ wpc[w].st # "exited"
    BY <1>1, <1>5, <1>7, <1>10 DEF WorkerInv, ConnInv, Fresh
  <2>4. RoundInv(w)'
    <3>1. ~Dialing(w)' /\ ~Telling(w, Reports)'
      BY <2>2 DEF Coming
    <3> QED
      BY <1>1, <1>5, <1>8, <1>9, <1>11, <2>1, <2>2, <3>1
      DEF WorkerInv, RoundInv, SinkQuiet, LinkQuiet
  <2>5. ConnInv(w)'
    BY <1>3, <1>10, <2>3 DEF ConnInv
  <2>6. Fresh(w) /\ Fresh(w)'
    BY <1>7, <1>9 DEF Fresh
  <2>7. EpochOk(w)'
    BY <1>1, <1>3, <1>5, <1>10, <2>6 DEF EpochOk
  <2> QED
    BY <2>4, <2>5, <2>7 DEF WorkerInv
<1>13. ASSUME NEW v \in Workers, v # w PROVE WorkerInv(v)' /\ EpochOk(v)'
  <2>1. PcQuiet(v)
    BY <1>9, <1>10, <1>13 DEF PcQuiet
  <2>2. Sunk(v, Ready)' <=> Sunk(v, Ready)
    BY <1>2, <1>4, <1>5, <1>13, SinkTaken
  <2>3. Fresh(v)' <=> Fresh(v)
    BY <1>3, <1>9, <1>13, <2>2, FreshStays
  <2> QED
    BY <1>1, <1>3, <1>10, <1>11, <1>13, <2>1, <2>3, QuietKeeps, EpochStays DEF Quiet
<1>14. \A v \in Workers : MailOk(v)'
  BY <1>1, <1>3, MailOkStays
<1>15. SinkInv' /\ GenInv' /\ TickOk'
  <2>1. GenQuiet
    BY <1>2, <1>3, <1>5, LossTaken DEF GenQuiet
  <2> QED
    BY <1>1, <1>2, <1>3, <1>5, <2>1, OrderTaken, GenKeeps, TickTaken
<1> QED
  BY <1>12, <1>13, <1>14, <1>15, MuxInvPartsNext

\* A new connection is reported.
LEMMA WorkerReadyKeeps == ASSUME MuxInv, handleWorkerReady PROVE MuxInv'
<1>1. Types'
  BY ReadyDoes DEF MuxInv
<1>2. \/ muxPc' = LoopPc /\ becomeReady(Head(sink).w)
      \/ muxPc'.st = "replay" /\ muxPc'.w = Head(sink).w /\ UNCHANGED <<state, epoch, tickers>>
  BY DEF handleWorkerReady
<1> QED
  BY <1>1, <1>2, ReadyAtOnce, ReadyReplays

\* A key is replayed; after the last one the worker is ready.
LEMMA ReplayKeeps == ASSUME MuxInv, runReplay PROVE MuxInv'
<1>1. /\ Types /\ SinkInv /\ GenInv /\ TickOk
      /\ \A v \in Workers : WorkerInv(v) /\ MailOk(v) /\ EpochOk(v)
  BY MuxInvParts
<1>2. PICK w : w = muxPc.w
  OBVIOUS
<1>3. /\ Types' /\ w \in Workers /\ (ReplaySent \/ UNCHANGED mailbox)
      /\ \/ muxPc' = LoopPc /\ becomeReady(w)
         \/ muxPc'.st = "replay" /\ muxPc'.w = w /\ UNCHANGED <<state, epoch, tickers>>
  BY <1>1, <1>2, ReplayDoes
<1>4. LinkType /\ LinkType' /\ SinkType /\ SinkType' /\ MailType /\ RunType
  BY <1>1, <1>3, TypesHave, TypesHaveNext
<1>5. muxPc.st = "replay" /\ UNCHANGED <<mode, sink, wpc, conn, readers>>
  BY DEF runReplay, connVars
<1>6. \/ UNCHANGED mailbox
      \/ \E c \in Cmds : /\ c.type = "replay" /\ mailbox'[w] = Append(mailbox[w], c)
                         /\ \A v \in Workers : v # w => mailbox'[v] = mailbox[v]
  BY <1>2, <1>3, <1>4, MailGrows DEF ReplaySent
<1>7. /\ Replaying(w) /\ \A v \in Workers : ~Reconnecting(v) /\ ~Reconnecting(v)'
      /\ \A v \in Workers : v # w => ~Replaying(v) /\ ~Replaying(v)'
      /\ ~closing /\ ~closing'
  BY <1>2, <1>3, <1>5 DEF Replaying, Reconnecting, closing, LoopPc
<1>8. ~Coming(w) /\ state[w] # "connected" /\ ~Sunk(w, Reports)
      /\ conn[w].st # "nil" /\ wpc[w].st # "exited" /\ Fresh(w)
  <2>1. ~Coming(w) /\ state[w] # "connected" /\ ~Sunk(w, Reports)
    BY <1>1, <1>3, <1>7 DEF WorkerInv, RoundInv
  <2>2. Fresh(w)
    BY <1>7 DEF Fresh
  <2> QED
    BY <1>1, <1>3, <1>7, <2>1, <2>2 DEF WorkerInv, ConnInv
<1>9. ASSUME NEW v \in Workers
      PROVE  /\ SinkQuiet(v) /\ LinkQuiet(v) /\ LoopQuiet(v)
             /\ \A kinds : Sunk(v, kinds)' <=> Sunk(v, kinds)
  BY <1>4, <1>5, SinkStays, LinkStays, LoopStays
<1>10. MailOk(w)' /\ (DialCmd(w)' <=> DialCmd(w))
  <2>1. CASE UNCHANGED mailbox
    BY <1>1, <1>3, <1>5, <2>1, MailOkStays, MailStays
  <2>2. ASSUME NEW c \in Cmds, c.type = "replay", mailbox'[w] = Append(mailbox[w], c)
        PROVE  MailOk(w)' /\ (DialCmd(w)' <=> DialCmd(w))
    <3>1. c.type \notin Dials /\ c.type # "ping"
      BY <2>2 DEF Dials
    <3>2. ~DialCmd(w)
      BY <1>8 DEF Coming
    <3> QED
      BY <1>1, <1>3, <1>4, <1>5, <2>2, <3>1, <3>2, MailOkAdded, MailAdded
  <2> QED
    BY <1>6, <2>1, <2>2
<1>11. ~Coming(w)'
  BY <1>3, <1>7, <1>8, <1>9, <1>10 DEF Coming, LoopQuiet
<1>12. ~Sunk(w, Reports)' /\ ~Dialing(w)' /\ ~Telling(w, Reports)'
  BY <1>3, <1>8, <1>9, <1>11 DEF Coming
<1>13. ASSUME muxPc' = LoopPc, becomeReady(w)
       PROVE  /\ WorkerInv(w)' /\ EpochOk(w)' /\ TickOk'
              /\ \A v \in Workers : v # w => state'[v] = state[v] /\ epoch'[v] = epoch[v]
  <2>1. /\ state'[w] = "connected"
        /\ \A v \in Workers : v # w => state'[v] = state[v] /\ epoch'[v] = epoch[v]
        /\ mode.ping => epoch'[w] = epoch[w] + 1
        /\ mode.ping \/ tickers' = tickers
    BY <1>3, <1>4, <1>13, BecomeDoes
  <2>2. ~Replaying(w)'
    BY <1>13 DEF Replaying, LoopPc
  <2>3. WorkerInv(w)'
    BY <1>1, <1>3, <1>5, <1>7, <1>8, <1>9, <1>11, <1>12, <2>2, ReadyKeeps
  <2>4. EpochOk(w)'
    <3>1. ~Fresh(w)'
      <4>1. ~Telling(w, Ready)' /\ ~Sunk(w, Ready)'
        BY <1>12 DEF Telling, Sunk, Reports
      <4> QED
        BY <2>2, <4>1 DEF Fresh
    <3> QED
      BY <1>1, <1>3, <1>5, <1>7, <1>8, <2>1, <3>1 DEF EpochOk
  <2>5. ASSUME NEW v \in Workers, v # w PROVE state'[v] = state[v] /\ epoch'[v] = epoch[v]
    BY <2>1, <2>5
  <2>6. TickOk'
    <3>1. CASE mode.ping
      BY <1>5, <3>1 DEF TickOk
    <3>2. CASE ~mode.ping
      BY <1>1, <1>4, <1>5, <2>1, <3>2, TickTaken
    <3> QED
      BY <3>1, <3>2
  <2> QED
    BY <2>3, <2>4, <2>5, <2>6
<1>14. ASSUME muxPc'.st = "replay", muxPc'.w = w, UNCHANGED <<state, epoch, tickers>>
       PROVE  /\ WorkerInv(w)' /\ EpochOk(w)' /\ TickOk'
              /\ \A v \in Workers : v # w => state'[v] = state[v] /\ epoch'[v] = epoch[v]
  <2>1. Replaying(w)'
    BY <1>14 DEF Replaying
  <2>2. RoundInv(w)'
    BY <1>1, <1>3, <1>7, <1>8, <1>9, <1>11, <1>12, <1>14
    DEF WorkerInv, RoundInv, LinkQuiet
  <2>3. ConnInv(w)'
    BY <1>5, <1>7, <1>8 DEF ConnInv
  <2>4. EpochOk(w)'
    <3>1. Fresh(w)'
      BY <2>1 DEF Fresh
    <3> QED
      BY <1>1, <1>3, <1>5, <1>7, <1>8, <1>14, <3>1 DEF EpochOk
  <2>5. TickOk'
    BY <1>1, <1>4, <1>5, <1>14, TickTaken
  <2> QED
    BY <1>14, <2>2, <2>3, <2>4, <2>5 DEF WorkerInv
<1>15. /\ WorkerInv(w)' /\ EpochOk(w)' /\ TickOk'
       /\ \A v \in Workers : v # w => state'[v] = state[v] /\ epoch'[v] = epoch[v]
  BY <1>3, <1>13, <1>14
<1>16. ASSUME NEW v \in Workers, v # w PROVE WorkerInv(v)' /\ EpochOk(v)' /\ MailOk(v)'
  <2>1. mailbox'[v] = mailbox[v]
    BY <1>6, <1>16
  <2>2. PcQuiet(v)
    BY <1>7, <1>15, <1>16 DEF PcQuiet
  <2>3. Quiet(v)
    BY <1>9, <2>1, <2>2, MailStays DEF Quiet
  <2>4. Fresh(v)' <=> Fresh(v)
    BY <1>5, <1>7, <1>9, <1>16, FreshStays
  <2> QED
    BY <1>1, <1>5, <1>7, <1>15, <1>16, <2>1, <2>3, <2>4, QuietKeeps, EpochStays, MailOkStays
<1>17. SinkInv' /\ GenInv'
  <2>1. GenQuiet
    BY <1>5 DEF GenQuiet, NoNewLoss
  <2> QED
    BY <1>1, <1>4, <1>5, <2>1, GenKeeps DEF SinkInv
<1> QED
  BY <1>3, <1>10, <1>15, <1>16, <1>17, MuxInvPartsNext

\* A loss, or a failed first dial, is handled.
LEMMA ReconnectKeeps == ASSUME MuxInv, startReconnect PROVE MuxInv'
<1>1. /\ Types /\ SinkInv /\ GenInv /\ TickOk
      /\ \A v \in Workers : WorkerInv(v) /\ MailOk(v) /\ EpochOk(v)
  BY MuxInvParts
<1>2. Types'
  BY <1>1, MuxTypes
<1>3. LinkType /\ LinkType' /\ SinkType /\ SinkType' /\ MailType /\ RunType
  BY <1>1, <1>2, TypesHave, TypesHaveNext
<1>4. PICK w : w = Head(sink).w
  OBVIOUS
<1>5. takeEvent({"connectFailed", "disconnected"})
      /\ UNCHANGED <<mode, mailbox, wpc, conn, readers, epoch, tickers>>
      /\ \/ UNCHANGED <<state, muxPc>>
         \/ state' = [state EXCEPT ![w] = "reconnecting"] /\ muxPc' = [st |-> "reconnect", w |-> w]
  BY <1>4 DEF startReconnect, connVars
<1>6. /\ w \in Workers /\ sink # << >> /\ sink' = Tail(sink) /\ muxPc = LoopPc
      /\ Head(sink).kind \in {"connectFailed", "disconnected"}
  BY <1>1, <1>4, <1>5, EventTaken
<1>7. Head(sink).kind \in Life /\ Head(sink).kind \notin Ready
  BY <1>6 DEF Life, Reports, Ready
<1>8. ~closing /\ ~closing'
  BY <1>5, <1>6 DEF closing, LoopPc
<1>9. \A v \in Workers : ~Replaying(v) /\ ~Replaying(v)' /\ ~Reconnecting(v)
  BY <1>5, <1>6 DEF Replaying, Reconnecting, LoopPc
<1>10. ASSUME NEW v \in Workers
       PROVE  /\ SinkQuiet(v) /\ LinkQuiet(v) /\ LoopQuiet(v) /\ MailQuiet(v)
              /\ MailOk(v)' /\ EpochOk(v)'
  <2>1. SinkQuiet(v) /\ LinkQuiet(v) /\ LoopQuiet(v) /\ MailQuiet(v)
    BY <1>3, <1>5, <1>6, SinkTakenQuiet, LinkStays, LoopStays, MailStays
  <2>2. Sunk(v, Ready)' <=> Sunk(v, Ready)
    BY <1>3, <1>6, <1>7, SinkTaken
  <2>3. Fresh(v)' <=> Fresh(v)
    BY <1>5, <1>9, <2>2, FreshStays
  <2> QED
    BY <1>1, <1>5, <1>8, <2>1, <2>3, MailOkStays, EpochStays
<1>11. SinkInv' /\ GenInv' /\ TickOk'
  <2>1. GenQuiet
    BY <1>3, <1>5, <1>6, LossTaken DEF GenQuiet
  <2> QED
    BY <1>1, <1>3, <1>5, <1>6, <2>1, OrderTaken, GenKeeps, TickTaken
<1>12. ASSUME NEW v \in Workers, PcQuiet(v) PROVE WorkerInv(v)'
  BY <1>1, <1>10, <1>12, QuietKeeps DEF Quiet
<1>13. ASSUME NEW v \in Workers PROVE WorkerInv(v)'
  <2>1. CASE UNCHANGED <<state, muxPc>>
    BY <1>12, <2>1, PcStays
  <2>2. CASE state' = [state EXCEPT ![w] = "reconnecting"] /\ muxPc' = [st |-> "reconnect", w |-> w]
    <3>1. state'[w] = "reconnecting" /\ \A u \in Workers : u # w => state'[u] = state[u]
      BY <1>3, <1>6, <2>2 DEF RunType
    <3>2. \A u \in Workers : u # w => ~Reconnecting(u)'
      BY <2>2 DEF Reconnecting
    <3>3. CASE v # w
      BY <1>8, <1>9, <1>12, <3>1, <3>2, <3>3 DEF PcQuiet
    <3>4. CASE v = w
      <4>1. Sunk(w, Life) /\ Sunk(w, {"connectFailed", "disconnected"})
        BY <1>3, <1>4, <1>6, <1>7, SinkTaken
      <4>2. ~Coming(w) /\ ~LiveReader(w)
        BY <1>1, <1>6, <4>1 DEF WorkerInv, RoundInv
      <4>3. ~Sunk(w, Life)' /\ ~Sunk(w, Reports)' /\ ~LiveReader(w)' /\ ~Dialing(w)' /\ ~DialCmd(w)'
            /\ ~Telling(w, Reports)' /\ ~Sunk(w, Ready)'
        BY <1>1, <1>3, <1>4, <1>6, <1>7, <1>10, <4>2, HeadAlone
        DEF Coming, LoopQuiet, MailQuiet, LinkQuiet
      <4>4. RoundInv(w)'
        <5>1. ~Sunk(w, {"connectFailed", "disconnected"})'
          BY <4>3 DEF Sunk, Life, Reports
        <5> QED
          BY <1>6, <1>9, <3>1, <4>3, <5>1 DEF RoundInv
      <4>5. ConnInv(w)'
        <5>1. ~Telling(w, Ready)'
          BY <4>3 DEF Telling, Reports
        <5>2. ~Fresh(w)'
          BY <1>6, <1>9, <4>3, <5>1 DEF Fresh
        <5>3. WriteCmd(w)' => WriteCmd(w)
          BY <1>6, <1>10 DEF MailQuiet
        <5> QED
          BY <1>1, <1>5, <1>6, <1>8, <3>1, <5>2, <5>3 DEF WorkerInv, ConnInv
      <4> QED
        BY <3>4, <4>4, <4>5 DEF WorkerInv
    <3> QED
      BY <3>3, <3>4
  <2> QED
    BY <1>5, <2>1, <2>2
<1> QED
  BY <1>2, <1>10, <1>11, <1>13, MuxInvPartsNext

\* The order to dial again is sent.
LEMMA SendReconnectKeeps == ASSUME MuxInv, sendReconnect PROVE MuxInv'
<1>1. /\ Types /\ SinkInv /\ GenInv /\ TickOk
      /\ \A v \in Workers : WorkerInv(v) /\ MailOk(v) /\ EpochOk(v)
  BY MuxInvParts
<1>2. Types'
  BY <1>1, MuxTypes
<1>3. LinkType /\ LinkType' /\ SinkType /\ SinkType' /\ MailType /\ PcType
  BY <1>1, <1>2, TypesHave, TypesHaveNext
<1>4. PICK w : w = muxPc.w
  OBVIOUS
<1>5. muxPc.st = "reconnect" /\ w \in Workers /\ Reconnecting(w)
  BY <1>3, <1>4 DEF sendReconnect, PcType, MuxPcs, Reconnecting
<1>6. /\ hasRoom(w) /\ mailbox' = [mailbox EXCEPT ![w] = Append(@, Command("reconnect"))]
      /\ muxPc' = LoopPc /\ UNCHANGED <<mode, sink, wpc, conn, readers, state, epoch, tickers>>
  BY <1>4 DEF sendReconnect, connVars
<1>7. PICK c \in Cmds : c = Command("reconnect") /\ c.type = "reconnect"
  BY CmdTypes DEF Command
<1>8. /\ mailbox'[w] = Append(mailbox[w], c)
      /\ \A v \in Workers : v # w => mailbox'[v] = mailbox[v]
  BY <1>3, <1>5, <1>6, <1>7, MailGrows
<1>9. c.type \in Dials /\ c.type # "ping"
  BY <1>7 DEF Dials
<1>10. ~closing /\ ~closing'
  BY <1>5, <1>6 DEF closing, LoopPc
<1>11. \A v \in Workers : ~Reconnecting(v)' /\ ~Replaying(v)' /\ ~Replaying(v)
  BY <1>5, <1>6 DEF Reconnecting, Replaying, LoopPc
<1>12. ASSUME NEW v \in Workers
       PROVE  /\ SinkQuiet(v) /\ LinkQuiet(v) /\ LoopQuiet(v) /\ PcQuiet(v)
              /\ EpochOk(v)' /\ (Fresh(v)' <=> Fresh(v))
  <2>1. SinkQuiet(v) /\ LinkQuiet(v) /\ LoopQuiet(v) /\ (Sunk(v, Ready)' <=> Sunk(v, Ready))
    BY <1>3, <1>6, SinkStays, LinkStays, LoopStays
  <2>2. PcQuiet(v)
    BY <1>6, <1>10, <1>11 DEF PcQuiet
  <2>3. Fresh(v)' <=> Fresh(v)
    BY <1>6, <1>11, <2>1, FreshStays
  <2> QED
    BY <1>1, <1>6, <1>10, <2>1, <2>2, <2>3, EpochStays
<1>13. ASSUME NEW v \in Workers, v # w PROVE WorkerInv(v)' /\ MailOk(v)'
  BY <1>1, <1>6, <1>8, <1>12, <1>13, MailStays, MailOkStays, QuietKeeps DEF Quiet
<1>14. /\ ~DialCmd(w) /\ ~Dialing(w) /\ ~Telling(w, Reports) /\ ~Sunk(w, Life)
       /\ ~LiveReader(w) /\ state[w] # "connected"
  BY <1>1, <1>5 DEF WorkerInv, RoundInv, Coming
<1>15. MailOk(w)'
  BY <1>1, <1>3, <1>5, <1>6, <1>8, <1>9, <1>14, MailOkAdded
<1>16. WorkerInv(w)'
  <2>1. ~Dialing(w)' /\ ~Telling(w, Reports)' /\ ~Sunk(w, Life)' /\ ~LiveReader(w)'
        /\ state'[w] # "connected"
    BY <1>5, <1>6, <1>12, <1>14 DEF LoopQuiet, SinkQuiet, LinkQuiet
  <2>2. ~Sunk(w, Reports)' /\ ~Sunk(w, {"connectFailed", "disconnected"})'
    BY <2>1 DEF Sunk, Life, Reports
  <2>3. RoundInv(w)'
    BY <1>5, <1>11, <2>1, <2>2 DEF RoundInv
  <2>4. WriteCmd(w)' <=> WriteCmd(w)
    BY <1>3, <1>5, <1>8, <1>9, MailAdded
  <2>5. ConnInv(w)'
    BY <1>1, <1>5, <1>6, <1>10, <1>12, <2>4 DEF WorkerInv, ConnInv
  <2> QED
    BY <2>3, <2>5 DEF WorkerInv
<1>17. SinkInv' /\ GenInv' /\ TickOk'
  <2>1. GenQuiet
    BY <1>6 DEF GenQuiet, NoNewLoss
  <2> QED
    BY <1>1, <1>3, <1>6, <2>1, GenKeeps, TickTaken DEF SinkInv
<1> QED
  BY <1>2, <1>12, <1>13, <1>15, <1>16, <1>17, MuxInvPartsNext

\* A tick is forwarded to the connection whose heartbeat it is, or dropped.
LEMMA PingTickKeeps == ASSUME MuxInv, handlePingTick PROVE MuxInv'
<1>1. /\ Types /\ SinkInv /\ GenInv /\ TickOk
      /\ \A v \in Workers : WorkerInv(v) /\ MailOk(v) /\ EpochOk(v)
  BY MuxInvParts
<1>2. Types'
  BY <1>1, MuxTypes
<1>3. LinkType /\ LinkType' /\ SinkType /\ SinkType' /\ MailType
  BY <1>1, <1>2, TypesHave, TypesHaveNext
<1>4. PICK w : w = Head(sink).w
  OBVIOUS
<1>5. /\ takeEvent({"pingTick"})
      /\ \/ UNCHANGED mailbox
         \/ /\ state[w] = "connected" /\ Head(sink).tag = epoch[w] /\ hasRoom(w)
            /\ mailbox' = [mailbox EXCEPT ![w] = Append(@, PingCommand(Head(sink).tag))]
      /\ UNCHANGED <<mode, wpc, conn, readers, muxPc, state, epoch, tickers>>
  BY <1>4 DEF handlePingTick, muxVars, connVars
<1>6. /\ w \in Workers /\ sink # << >> /\ sink' = Tail(sink) /\ muxPc = LoopPc
      /\ Head(sink).kind = "pingTick" /\ Head(sink) = sink[1] /\ Head(sink) \in Event
  BY <1>1, <1>4, <1>5, EventTaken
<1>7. Head(sink).kind \notin Ready /\ ~closing
  BY <1>6 DEF Ready, closing, LoopPc
<1>8. ASSUME NEW v \in Workers
      PROVE  /\ SinkQuiet(v) /\ LinkQuiet(v) /\ LoopQuiet(v) /\ PcQuiet(v) /\ EpochOk(v)'
  <2>1. SinkQuiet(v) /\ LinkQuiet(v) /\ LoopQuiet(v) /\ PcQuiet(v)
        /\ (Replaying(v)' <=> Replaying(v))
    BY <1>3, <1>5, <1>6, SinkTakenQuiet, LinkStays, LoopStays, PcStays
  <2>2. Sunk(v, Ready)' <=> Sunk(v, Ready)
    BY <1>3, <1>6, <1>7, SinkTaken
  <2>3. Fresh(v)' <=> Fresh(v)
    BY <1>5, <2>1, <2>2, FreshStays
  <2> QED
    BY <1>1, <1>5, <1>7, <2>1, <2>3, EpochStays DEF PcQuiet
<1>9. ASSUME NEW v \in Workers, mailbox'[v] = mailbox[v] PROVE WorkerInv(v)' /\ MailOk(v)'
  BY <1>1, <1>5, <1>8, <1>9, MailStays, MailOkStays, QuietKeeps DEF Quiet
<1>10. ASSUME state[w] = "connected", Head(sink).tag = epoch[w], hasRoom(w),
              mailbox' = [mailbox EXCEPT ![w] = Append(@, PingCommand(Head(sink).tag))]
       PROVE  \A v \in Workers : WorkerInv(v)' /\ MailOk(v)'
  <2>1. Head(sink).tag \in Nat
    BY <1>6 DEF Event
  <2>2. PICK c \in Cmds : /\ c = PingCommand(Head(sink).tag) /\ c.type = "ping"
                          /\ c.epoch = Head(sink).tag
    BY <2>1, CmdTypes DEF PingCommand
  <2>3. /\ mailbox'[w] = Append(mailbox[w], c)
        /\ \A v \in Workers : v # w => mailbox'[v] = mailbox[v]
    BY <1>3, <1>6, <1>10, <2>2, MailGrows
  <2>4. ~Coming(w) /\ conn[w].st # "nil" /\ wpc[w].st # "exited" /\ ~Fresh(w)
    BY <1>1, <1>6, <1>10, ConnectedHas
  <2>5. mode.ping
    <3>1. 1 \in DOMAIN sink
      BY <1>3, <1>6, Taken DEF SinkType
    <3> QED
      BY <1>1, <1>6, <3>1 DEF TickOk
  <2>6. c.epoch = conn[w].gen
    BY <1>1, <1>6, <1>7, <1>10, <2>2, <2>4, <2>5 DEF EpochOk
  <2>7. ~DialCmd(w) /\ c.type \notin Dials
    BY <2>2, <2>4 DEF Coming, Dials
  <2>8. MailOk(w)'
    BY <1>1, <1>3, <1>5, <1>6, <2>3, <2>6, <2>7, MailOkAdded
  <2>9. WorkerInv(w)'
    BY <1>1, <1>3, <1>6, <1>8, <2>3, <2>4, <2>7, SentKeeps
  <2> QED
    BY <1>9, <2>3, <2>8, <2>9
<1>11. \A v \in Workers : WorkerInv(v)' /\ MailOk(v)'
  BY <1>5, <1>9, <1>10
<1>12. SinkInv' /\ GenInv' /\ TickOk'
  <2>1. GenQuiet
    BY <1>3, <1>5, <1>6, LossTaken DEF GenQuiet
  <2> QED
    BY <1>1, <1>3, <1>5, <1>6, <2>1, OrderTaken, GenKeeps, TickTaken
<1> QED
  BY <1>2, <1>8, <1>11, <1>12, MuxInvPartsNext

\* An event that orders nothing is taken from sink: of the mux's own, or of anyone's
\* once the mux is shutting down.
LEMMA DropKeeps ==
    ASSUME MuxInv, Types', sink # << >>, sink' = Tail(sink),
           UNCHANGED <<mode, mailbox, wpc, conn, readers, muxPc, state, epoch, tickers>>,
           closing \/ Head(sink).kind \notin Ready
    PROVE  MuxInv'
<1>1. /\ Types /\ SinkInv /\ GenInv /\ TickOk
      /\ \A v \in Workers : WorkerInv(v) /\ MailOk(v) /\ EpochOk(v)
  BY MuxInvParts
<1>2. LinkType /\ LinkType' /\ SinkType /\ SinkType' /\ MailType
  BY <1>1, TypesHave, TypesHaveNext
<1>3. closing' <=> closing
  BY DEF closing
<1>4. ASSUME NEW v \in Workers PROVE WorkerInv(v)' /\ MailOk(v)' /\ EpochOk(v)'
  <2>1. SinkQuiet(v) /\ LinkQuiet(v) /\ LoopQuiet(v) /\ PcQuiet(v) /\ MailQuiet(v)
        /\ (Replaying(v)' <=> Replaying(v))
    BY <1>2, SinkTakenQuiet, LinkStays, LoopStays, PcStays, MailStays
  <2>2. closing \/ (Fresh(v)' <=> Fresh(v))
    <3>1. closing \/ (Sunk(v, Ready)' <=> Sunk(v, Ready))
      BY <1>2, SinkTaken
    <3> QED
      BY <2>1, <3>1, FreshStays
  <2> QED
    BY <1>1, <1>3, <2>1, <2>2, MailOkStays, QuietKeeps, EpochStays DEF Quiet
<1>5. SinkInv' /\ GenInv' /\ TickOk'
  <2>1. GenQuiet
    BY <1>2, LossTaken DEF GenQuiet
  <2> QED
    BY <1>1, <1>2, <2>1, OrderTaken, GenKeeps, TickTaken
<1> QED
  BY <1>4, <1>5, MuxInvPartsNext

\* A failed write is noted.
LEMMA WriteFailedKeeps == ASSUME MuxInv, handleWriteFailed PROVE MuxInv'
<1>1. Types /\ Types'
  BY MuxInvParts, MuxTypes
<1>2. takeEvent({"encodeFailed", "notConnected"})
      /\ UNCHANGED <<mode, mailbox, wpc, conn, readers, muxPc, state, epoch, tickers>>
  BY DEF handleWriteFailed, connVars
<1>3. sink # << >> /\ sink' = Tail(sink) /\ Head(sink).kind \in {"encodeFailed", "notConnected"}
  BY <1>2 DEF takeEvent
<1>4. Head(sink).kind \notin Ready
  BY <1>3 DEF Ready
<1> QED
  BY <1>1, <1>2, <1>3, <1>4, DropKeeps

\* An event is drained.
LEMMA DrainKeeps == ASSUME MuxInv, drainEvent PROVE MuxInv'
<1>1. Types /\ Types'
  BY MuxInvParts, MuxTypes
<1>2. UNCHANGED <<mode, mailbox, wpc, conn, readers, muxPc, state, epoch, tickers>>
      /\ sink # << >> /\ sink' = Tail(sink) /\ closing
  BY DEF drainEvent, muxVars, connVars, closing
<1> QED
  BY <1>1, <1>2, DropKeeps

\* The mux leaves its loop, or ends.
LEMMA ShutdownKeeps == ASSUME MuxInv, handleShutdown \/ closeSink PROVE MuxInv'
<1>1. /\ Types /\ SinkInv /\ GenInv /\ TickOk
      /\ \A v \in Workers : WorkerInv(v) /\ MailOk(v) /\ EpochOk(v)
  BY MuxInvParts
<1>2. Types'
  BY <1>1, MuxTypes
<1>3. LinkType /\ LinkType' /\ SinkType /\ SinkType' /\ MailType
  BY <1>1, <1>2, TypesHave, TypesHaveNext
<1>4. UNCHANGED <<mode, sink, mailbox, wpc, conn, readers, epoch, tickers>>
  BY DEF handleShutdown, closeSink, connVars
<1>5. closing'
  BY DEF handleShutdown, closeSink, closing
<1>6. \A v \in Workers : state'[v] = "stopped"
  <2>1. CASE handleShutdown
    BY <2>1 DEF handleShutdown
  <2>2. CASE closeSink
    BY <1>1, <2>2 DEF closeSink, WorkerInv, ConnInv, closing
  <2> QED
    BY <2>1, <2>2
<1>7. \A v \in Workers : ~Reconnecting(v)' /\ ~Replaying(v)'
  BY DEF handleShutdown, closeSink, Reconnecting, Replaying
<1>8. ASSUME NEW v \in Workers PROVE WorkerInv(v)' /\ MailOk(v)' /\ EpochOk(v)'
  <2>1. SinkQuiet(v) /\ LinkQuiet(v) /\ LoopQuiet(v) /\ MailQuiet(v)
    BY <1>3, <1>4, SinkStays, LinkStays, LoopStays, MailStays
  <2>2. Coming(v)' => Coming(v)
    BY <1>7, <2>1 DEF Coming, LoopQuiet, MailQuiet
  <2>3. RoundInv(v)'
    <3>1. Dialing(v)' \/ Telling(v, Reports)' => mailbox'[v] = << >>
      BY <1>1, <1>4, <2>1 DEF WorkerInv, RoundInv, LoopQuiet
    <3>2. Coming(v)' => ~Sunk(v, Life)' /\ ~LiveReader(v)'
      BY <1>1, <2>1, <2>2 DEF WorkerInv, RoundInv, SinkQuiet, LinkQuiet
    <3>3. Sunk(v, {"connectFailed", "disconnected"})' => ~LiveReader(v)'
      BY <1>1, <2>1 DEF WorkerInv, RoundInv, SinkQuiet, LinkQuiet
    <3> QED
      BY <1>6, <1>7, <3>1, <3>2, <3>3 DEF RoundInv
  <2>4. ConnInv(v)'
    <3>1. Fresh(v)' => Fresh(v)
      BY <1>7, <2>1 DEF Fresh, LoopQuiet, SinkQuiet
    <3> QED
      BY <1>1, <1>4, <1>5, <1>6, <2>1, <3>1 DEF WorkerInv, ConnInv, MailQuiet
  <2>5. EpochOk(v)'
    BY <1>5 DEF EpochOk
  <2> QED
    BY <1>1, <1>4, <2>3, <2>4, <2>5, MailOkStays DEF WorkerInv
<1>9. SinkInv' /\ GenInv' /\ TickOk'
  <2>1. GenQuiet
    BY <1>4 DEF GenQuiet, NoNewLoss
  <2> QED
    BY <1>1, <1>3, <1>4, <2>1, GenKeeps, TickTaken DEF SinkInv
<1> QED
  BY <1>2, <1>8, <1>9, MuxInvPartsNext

\* A heartbeat ticks, or ends.
LEMMA TickerKeeps ==
    ASSUME MuxInv, NEW t \in tickers, runPingTicker(t) \/ tickerExit(t)
    PROVE  MuxInv'
<1>1. /\ Types /\ SinkInv /\ GenInv /\ TickOk
      /\ \A v \in Workers : WorkerInv(v) /\ MailOk(v) /\ EpochOk(v)
  BY MuxInvParts
<1>2. Types'
  BY <1>1, TickerTypes
<1>3. LinkType /\ LinkType' /\ SinkType /\ SinkType' /\ MailType /\ RunType
  BY <1>1, <1>2, TypesHave, TypesHaveNext
<1>4. UNCHANGED <<mode, mailbox, wpc, conn, readers, muxPc, state, epoch>>
  BY DEF runPingTicker, tickerExit, muxVars, connVars
<1>5. CASE tickerExit(t)
  <2>1. UNCHANGED sink /\ tickers' \subseteq tickers
    BY <1>5 DEF tickerExit
  <2> QED
    BY <1>2, <1>4, <2>1, IdleKeeps
<1>6. CASE runPingTicker(t)
  <2>1. PICK e \in Event : /\ sink' = Append(sink, e) /\ e.kind = "pingTick"
                           /\ UNCHANGED tickers
    <3>1. t.w \in Workers /\ t.epoch \in Nat
      BY <1>3 DEF RunType, Ticker
    <3>2. event("pingTick", t.w, t.epoch) \in Event
      BY <3>1 DEF Event, event
    <3>3. event("pingTick", t.w, t.epoch).kind = "pingTick"
      BY DEF event
    <3> QED
      BY <1>6, <3>2, <3>3 DEF runPingTicker
  <2>2. e.kind \notin Life /\ e.kind \notin Ready /\ e.kind # "disconnected"
    BY <2>1 DEF Life, Reports, Ready
  <2>3. closing' <=> closing
    BY <1>4 DEF closing
  <2>4. ASSUME NEW v \in Workers PROVE WorkerInv(v)' /\ MailOk(v)' /\ EpochOk(v)'
    <3>1. SinkQuiet(v) /\ LinkQuiet(v) /\ LoopQuiet(v) /\ PcQuiet(v) /\ MailQuiet(v)
          /\ (Replaying(v)' <=> Replaying(v))
      BY <1>3, <1>4, <2>1, <2>2, SinkAddedQuiet, LinkStays, LoopStays, PcStays, MailStays
    <3>2. Sunk(v, Ready)' <=> Sunk(v, Ready)
      BY <1>3, <2>1, <2>2, SinkAdded
    <3>3. Fresh(v)' <=> Fresh(v)
      BY <1>4, <3>1, <3>2, FreshStays
    <3> QED
      BY <1>1, <1>4, <2>3, <3>1, <3>3, MailOkStays, QuietKeeps, EpochStays DEF Quiet
  <2>5. SinkInv' /\ GenInv' /\ TickOk'
    <3>1. GenQuiet
      BY <1>3, <1>4, <2>1, <2>2, LossNotAdded DEF GenQuiet
    <3>2. InOrder(e)
      BY <2>2 DEF InOrder
    <3> QED
      BY <1>1, <1>3, <1>4, <2>1, <3>1, <3>2, OrderAdded, GenKeeps, TickAdded
  <2> QED
    BY <1>2, <2>4, <2>5, MuxInvPartsNext
<1> QED
  BY <1>5, <1>6

\* A step of one worker's goroutines leaves the other workers alone.
LEMMA OthersKeep ==
    ASSUME NEW v \in Workers, WorkerInv(v), MailOk(v), EpochOk(v),
           UNCHANGED <<mode, muxPc, state, epoch>>,
           mailbox'[v] = mailbox[v], conn'[v].gen = conn[v].gen, wpc'[v] = wpc[v],
           LinkQuiet(v), SinkQuiet(v), Sunk(v, Ready)' <=> Sunk(v, Ready)
    PROVE  WorkerInv(v)' /\ MailOk(v)' /\ EpochOk(v)'
<1>1. LoopQuiet(v) /\ PcQuiet(v) /\ MailQuiet(v) /\ (Replaying(v)' <=> Replaying(v))
  BY LoopStays, PcStays, MailStays
<1>2. Fresh(v)' <=> Fresh(v)
  BY <1>1, FreshStays
<1>3. closing' <=> closing
  BY DEF closing
<1> QED
  BY <1>1, <1>2, <1>3, QuietKeeps, MailOkStays, EpochStays DEF Quiet

\* While a dial is ordered, or is under way, nothing is left of the round before.
LEMMA ComingHas ==
    ASSUME NEW w \in Workers, WorkerInv(w), Coming(w), ~Telling(w, Ready)
    PROVE  /\ ~Sunk(w, Life) /\ ~Sunk(w, Ready) /\ ~LiveReader(w) /\ ~Replaying(w)
           /\ state[w] # "connected" /\ ~Fresh(w)
           /\ Dialing(w) \/ DialCmd(w) => ~Reconnecting(w)
           /\ Dialing(w) => mailbox[w] = << >>
<1>1. ~Sunk(w, Life) /\ ~LiveReader(w) /\ ~Replaying(w) /\ state[w] # "connected"
  BY DEF WorkerInv, RoundInv
<1>2. ~Sunk(w, Ready)
  BY <1>1 DEF Sunk, Life, Reports
<1>3. Dialing(w) \/ DialCmd(w) => ~Reconnecting(w)
  BY DEF WorkerInv, RoundInv
<1>4. Dialing(w) => mailbox[w] = << >>
  BY DEF WorkerInv, RoundInv
<1> QED
  BY <1>1, <1>2, <1>3, <1>4 DEF Fresh

\* Such a worker keeps its round as long as that remains so.
LEMMA DialRound ==
    ASSUME MailType', NEW w \in Workers, mailbox'[w] = << >>, ~Reconnecting(w)', ~Sunk(w, Life)',
           ~LiveReader(w)', ~Replaying(w)', state'[w] # "connected"
    PROVE  RoundInv(w)' /\ MailOk(w)' /\ ~WriteCmd(w)'
<1>1. ~Sunk(w, Reports)' /\ ~Sunk(w, {"connectFailed", "disconnected"})'
  BY DEF Sunk, Life, Reports
<1>2. MailOk(w)' /\ ~WriteCmd(w)'
  BY DEF MailOk, WriteCmd
<1> QED
  BY <1>1, <1>2 DEF RoundInv

\* A dial begins.
LEMMA DialKeeps == ASSUME MuxInv, NEW w \in Workers, startDial(w) PROVE MuxInv'
<1>1. /\ Types /\ SinkInv /\ GenInv /\ TickOk
      /\ \A v \in Workers : WorkerInv(v) /\ MailOk(v) /\ EpochOk(v)
  BY MuxInvParts
<1>2. /\ Types' /\ wpc'[w].st = "dialing" /\ conn'[w].st = "nil" /\ conn'[w].gen = conn[w].gen
      /\ \A v \in Workers : v # w => conn'[v] = conn[v] /\ wpc'[v] = wpc[v]
  BY <1>1, DialDoes
<1>3. LinkType /\ LinkType' /\ SinkType /\ SinkType' /\ MailType /\ MailType'
  BY <1>1, <1>2, TypesHave, TypesHaveNext
<1>4. takeCommand(w, Dials) /\ UNCHANGED <<mode, sink, readers, muxPc, state, epoch, tickers>>
  BY DEF startDial, muxVars, Dials
<1>5. /\ mailbox[w] # << >> /\ mailbox'[w] = Tail(mailbox[w]) /\ Head(mailbox[w]).type \in Dials
      /\ \A v \in Workers : v # w => mailbox'[v] = mailbox[v]
      /\ wpc[w] = IdlePc
  BY <1>3, <1>4, MailShrinks
<1>6. mailbox[w] \in Seq(Cmds)
  BY <1>3 DEF MailType
<1>7. 1 \in DOMAIN mailbox[w] /\ mailbox[w][1].type \in Dials
  BY <1>5, <1>6, Taken
<1>8. mailbox'[w] = << >>
  <2>1. Len(mailbox[w]) = 1
    BY <1>1, <1>7 DEF MailOk
  <2>2. PICK q : q = Tail(mailbox[w])
    OBVIOUS
  <2>3. q \in Seq(Cmds) /\ Len(q) = 0
    <3>1. q \in Seq(Cmds) /\ Len(q) = Len(mailbox[w]) - 1
      BY <1>5, <1>6, <2>2, Taken
    <3> QED
      BY <2>1, <3>1
  <2>4. q = << >>
    BY <2>3
  <2> QED
    BY <1>5, <2>2, <2>4
<1>9. DialCmd(w) /\ ~Telling(w, Ready)
  BY <1>5, <1>7 DEF DialCmd, Telling, IdlePc
<1>10. /\ ~Sunk(w, Life) /\ ~Sunk(w, Ready) /\ ~LiveReader(w) /\ ~Replaying(w)
       /\ state[w] # "connected" /\ ~Fresh(w) /\ ~Reconnecting(w)
  BY <1>1, <1>9, ComingHas DEF Coming
<1>11. \A v \in Workers : /\ SinkQuiet(v) /\ PcQuiet(v) /\ (Replaying(v)' <=> Replaying(v))
                          /\ \A kinds : Sunk(v, kinds)' <=> Sunk(v, kinds)
  BY <1>4, SinkStays, PcStays
<1>12. ~LiveReader(w)'
  BY <1>2, <1>4, <1>10 DEF LiveReader, Reporter
<1>13. ~Sunk(w, Life)' /\ ~Sunk(w, Ready)' /\ ~Reconnecting(w)' /\ ~Replaying(w)'
       /\ state'[w] # "connected"
  BY <1>4, <1>10, <1>11 DEF PcQuiet
<1>14. RoundInv(w)' /\ MailOk(w)' /\ ~WriteCmd(w)'
  BY <1>3, <1>8, <1>12, <1>13, DialRound
<1>15. ~Telling(w, Ready)' /\ ~Fresh(w)' /\ (closing' <=> closing)
  BY <1>2, <1>4, <1>13 DEF Fresh, Telling, closing
<1>16. ConnInv(w)'
  BY <1>1, <1>2, <1>4, <1>13, <1>14, <1>15 DEF WorkerInv, ConnInv
<1>17. EpochOk(w)'
  BY <1>1, <1>2, <1>4, <1>10, <1>15, EpochStays
<1>18. ASSUME NEW v \in Workers, v # w PROVE WorkerInv(v)' /\ MailOk(v)' /\ EpochOk(v)'
  BY <1>1, <1>2, <1>3, <1>4, <1>5, <1>11, <1>18, LinkStays, OthersKeep
<1>19. SinkInv' /\ GenInv' /\ TickOk'
  <2>1. GenQuiet
    <3>1. \A v \in Workers : conn'[v].gen = conn[v].gen
                             /\ (conn'[v].st = "alive" => conn[v].st = "alive")
      BY <1>2
    <3>2. \A v \in Workers : wpc'[v].st = "publish" => wpc'[v] = wpc[v]
      BY <1>2
    <3> QED
      BY <1>4, <3>1, <3>2 DEF GenQuiet, NoNewLoss
  <2> QED
    BY <1>1, <1>3, <1>4, <2>1, GenKeeps, TickTaken DEF SinkInv
<1> QED
  BY <1>2, <1>14, <1>16, <1>17, <1>18, <1>19, MuxInvPartsNext DEF WorkerInv

\* A dial fails: a first one is reported, a later one only ends.
LEMMA DialFailedKeeps == ASSUME MuxInv, NEW w \in Workers, dialFailed(w) PROVE MuxInv'
<1>1. /\ Types /\ SinkInv /\ GenInv /\ TickOk
      /\ \A v \in Workers : WorkerInv(v) /\ MailOk(v) /\ EpochOk(v)
  BY MuxInvParts
<1>2. /\ Types'
      /\ \/ wpc'[w].st = "publish" /\ wpc'[w].ev.kind = "connectFailed" /\ wpc'[w].ev.w = w
         \/ wpc'[w] = IdlePc
      /\ \A v \in Workers : v # w => wpc'[v] = wpc[v]
  BY <1>1, DialFailedDoes
<1>3. LinkType /\ LinkType' /\ SinkType /\ SinkType' /\ MailType /\ MailType'
  BY <1>1, <1>2, TypesHave, TypesHaveNext
<1>4. UNCHANGED <<mode, mailbox, conn, sink, readers, muxPc, state, epoch, tickers>> /\ Dialing(w)
  BY DEF dialFailed, muxVars, connVars, Dialing
<1>5. ~Telling(w, Ready)
  BY <1>4 DEF Telling, Dialing
<1>6. /\ ~Sunk(w, Life) /\ ~Sunk(w, Ready) /\ ~LiveReader(w) /\ ~Replaying(w)
      /\ state[w] # "connected" /\ ~Fresh(w) /\ ~Reconnecting(w) /\ mailbox[w] = << >>
  BY <1>1, <1>4, <1>5, ComingHas DEF Coming
<1>7. \A v \in Workers : /\ SinkQuiet(v) /\ PcQuiet(v) /\ LinkQuiet(v)
                         /\ (Replaying(v)' <=> Replaying(v))
                         /\ \A kinds : Sunk(v, kinds)' <=> Sunk(v, kinds)
  BY <1>3, <1>4, SinkStays, PcStays, LinkStays
<1>8. /\ ~Sunk(w, Life)' /\ ~Sunk(w, Ready)' /\ ~Reconnecting(w)' /\ ~Replaying(w)'
      /\ ~LiveReader(w)' /\ state'[w] # "connected"
  BY <1>4, <1>6, <1>7 DEF PcQuiet, LinkQuiet
<1>9. RoundInv(w)' /\ MailOk(w)' /\ ~WriteCmd(w)'
  BY <1>3, <1>4, <1>6, <1>8, DialRound
<1>10. ~Telling(w, Ready)' /\ wpc'[w].st # "exited"
  BY <1>2 DEF Telling, IdlePc, Ready
<1>11. ~Fresh(w)' /\ (closing' <=> closing)
  BY <1>4, <1>8, <1>10 DEF Fresh, closing
<1>12. ConnInv(w)'
  BY <1>1, <1>4, <1>8, <1>9, <1>10, <1>11 DEF WorkerInv, ConnInv
<1>13. EpochOk(w)'
  BY <1>1, <1>4, <1>6, <1>11, EpochStays
<1>14. ASSUME NEW v \in Workers, v # w PROVE WorkerInv(v)' /\ MailOk(v)' /\ EpochOk(v)'
  BY <1>1, <1>2, <1>4, <1>7, <1>14, OthersKeep
<1>15. SinkInv' /\ GenInv' /\ TickOk'
  <2>1. GenQuiet
    <3>1. \A v \in Workers : wpc'[v].st = "publish" =>
             \/ wpc'[v] = wpc[v]
             \/ wpc'[v].ev.w = v /\ wpc'[v].ev.kind = "connectFailed"
      BY <1>2 DEF IdlePc
    <3> QED
      BY <1>4, <3>1 DEF GenQuiet, NoNewLoss
  <2> QED
    BY <1>1, <1>3, <1>4, <2>1, GenKeeps, TickTaken DEF SinkInv
<1> QED
  BY <1>2, <1>9, <1>12, <1>13, <1>14, <1>15, MuxInvPartsNext DEF WorkerInv

\* A dial succeeds.
LEMMA DialOkKeeps == ASSUME MuxInv, NEW w \in Workers, dialOk(w) PROVE MuxInv'
<1>1. /\ Types /\ SinkInv /\ GenInv /\ TickOk
      /\ \A v \in Workers : WorkerInv(v) /\ MailOk(v) /\ EpochOk(v)
  BY MuxInvParts
<1>2. /\ Types' /\ wpc'[w].st = "publish" /\ wpc'[w].ev.kind \in Ready
      /\ wpc'[w].ev.w = w /\ wpc'[w].ev.tag = conn'[w].gen
      /\ conn'[w].st = "alive" /\ conn'[w].gen = conn[w].gen + 1
      /\ \A v \in Workers : v # w => conn'[v] = conn[v] /\ wpc'[v] = wpc[v]
  BY <1>1, DialOkDoes
<1>3. LinkType /\ LinkType' /\ SinkType /\ SinkType' /\ MailType /\ MailType'
  BY <1>1, <1>2, TypesHave, TypesHaveNext
<1>4. UNCHANGED <<mode, mailbox, sink, readers, muxPc, state, epoch, tickers>> /\ Dialing(w)
  BY DEF dialOk, muxVars, Dialing
<1>5. ~Telling(w, Ready)
  BY <1>4 DEF Telling, Dialing
<1>6. /\ ~Sunk(w, Life) /\ ~Sunk(w, Ready) /\ ~LiveReader(w) /\ ~Replaying(w)
      /\ state[w] # "connected" /\ ~Fresh(w) /\ ~Reconnecting(w) /\ mailbox[w] = << >>
  BY <1>1, <1>4, <1>5, ComingHas DEF Coming
<1>7. \A v \in Workers : /\ SinkQuiet(v) /\ PcQuiet(v) /\ (Replaying(v)' <=> Replaying(v))
                         /\ \A kinds : Sunk(v, kinds)' <=> Sunk(v, kinds)
  BY <1>4, SinkStays, PcStays
<1>8. ASSUME NEW r \in readers, r.w = w
      PROVE  r.st # "failed" /\ r.gen <= conn'[w].gen /\ r.gen # conn'[w].gen
  <2>1. r.st # "failed" /\ r.gen <= conn[w].gen
    BY <1>1, <1>6, <1>8 DEF LiveReader, Reporter, GenInv
  <2>2. r.gen \in Nat /\ conn[w].gen \in Nat
    BY <1>3, <1>8 DEF LinkType, Reader, ConnState
  <2>3. r.gen <= conn[w].gen + 1 /\ r.gen # conn[w].gen + 1
    BY <2>1, <2>2
  <2> QED
    BY <1>2, <2>1, <2>3
<1>9. ~LiveReader(w)'
  BY <1>4, <1>8 DEF LiveReader, Reporter
<1>10. /\ ~Sunk(w, Life)' /\ ~Reconnecting(w)' /\ ~Replaying(w)' /\ state'[w] # "connected"
  BY <1>4, <1>6, <1>7 DEF PcQuiet
<1>11. RoundInv(w)' /\ MailOk(w)' /\ ~WriteCmd(w)'
  BY <1>3, <1>4, <1>6, <1>9, <1>10, DialRound
<1>12. wpc'[w].st # "exited" /\ (closing' <=> closing) /\ conn'[w].st # "nil" /\ Fresh(w)'
  BY <1>2, <1>4 DEF closing, Fresh, Telling
<1>13. ConnInv(w)'
  BY <1>1, <1>4, <1>12 DEF WorkerInv, ConnInv
<1>14. EpochOk(w)'
  BY <1>1, <1>2, <1>4, <1>6, <1>12 DEF EpochOk
<1>15. ASSUME NEW v \in Workers, v # w PROVE WorkerInv(v)' /\ MailOk(v)' /\ EpochOk(v)'
  BY <1>1, <1>2, <1>3, <1>4, <1>7, <1>15, LinkStays, OthersKeep
<1>16. SinkInv' /\ TickOk'
  BY <1>1, <1>3, <1>4, TickTaken DEF SinkInv
<1>17. GenInv'
  <2>1. ASSUME NEW i \in DOMAIN sink, sink[i].kind = "disconnected"
        PROVE  sink[i].tag = conn'[sink[i].w].gen /\ conn'[sink[i].w].st # "alive"
    <3>1. sink[i] \in Event
      BY <1>3 DEF SinkType
    <3>2. sink[i].w \in Workers /\ sink[i].w # w
      BY <1>6, <2>1, <3>1 DEF Event, Sunk, Life
    <3> QED
      BY <1>1, <1>2, <2>1, <3>2 DEF GenInv
  <2>2. ASSUME NEW v \in Workers, wpc'[v].st = "publish"
        PROVE  /\ Telling(v, Ready)' => wpc'[v].ev.tag = conn'[v].gen
               /\ wpc'[v].ev.w = v /\ wpc'[v].ev.kind \in Reports \union {"encodeFailed"}
    <3>1. CASE v = w
      BY <1>2, <3>1 DEF Reports
    <3>2. CASE v # w
      BY <1>1, <1>2, <2>2, <3>2 DEF GenInv, Telling
    <3> QED
      BY <3>1, <3>2
  <2>3. ASSUME NEW r \in readers
        PROVE  /\ r.gen <= conn'[r.w].gen
               /\ r.st = "failed" => r.gen = conn'[r.w].gen /\ conn'[r.w].st # "alive"
    <3>1. CASE r.w = w
      BY <1>8, <3>1
    <3>2. CASE r.w # w
      <4>1. r.w \in Workers
        BY <1>3 DEF LinkType, Reader
      <4> QED
        BY <1>1, <1>2, <3>2, <4>1 DEF GenInv
    <3> QED
      BY <3>1, <3>2
  <2>4. \A r, q \in readers : r.w = q.w /\ r.gen = q.gen => r = q
    BY <1>1 DEF GenInv
  <2>5. \A v \in Workers : Telling(v, Ready)' => wpc'[v].ev.tag = conn'[v].gen
    BY <2>2 DEF Telling
  <2> QED
    BY <1>4, <2>1, <2>2, <2>3, <2>4, <2>5 DEF GenInv
<1> QED
  BY <1>2, <1>11, <1>13, <1>14, <1>15, <1>16, <1>17, MuxInvPartsNext DEF WorkerInv

\* A report about to be published stands alone.
LEMMA TellingHas ==
    ASSUME NEW w \in Workers, WorkerInv(w), Telling(w, Reports)
    PROVE  /\ ~Sunk(w, Life) /\ ~LiveReader(w) /\ ~Replaying(w) /\ ~Reconnecting(w)
           /\ state[w] # "connected" /\ mailbox[w] = << >>
BY DEF WorkerInv, RoundInv, Coming

\* A worker that has reported keeps its round.
LEMMA ReportRound ==
    ASSUME MailType', NEW w \in Workers, mailbox'[w] = << >>, wpc'[w] = IdlePc,
           ~Reconnecting(w)', ~Replaying(w)', state'[w] # "connected",
           Sunk(w, {"connectFailed", "disconnected"})' => ~LiveReader(w)'
    PROVE  RoundInv(w)' /\ MailOk(w)' /\ ~WriteCmd(w)'
<1>1. ~Dialing(w)' /\ ~Telling(w, Reports)'
  BY DEF Dialing, Telling, IdlePc
<1>2. MailOk(w)' /\ ~WriteCmd(w)' /\ ~DialCmd(w)'
  BY DEF MailOk, WriteCmd, DialCmd
<1> QED
  BY <1>1, <1>2 DEF RoundInv, Coming

\* A worker publishes what it has to tell.
LEMMA PublishKeeps == ASSUME MuxInv, NEW w \in Workers, publishEvent(w) PROVE MuxInv'
<1>1. /\ Types /\ SinkInv /\ GenInv /\ TickOk
      /\ \A v \in Workers : WorkerInv(v) /\ MailOk(v) /\ EpochOk(v)
  BY MuxInvParts
<1>2. PICK e : e = wpc[w].ev
  OBVIOUS
<1>3. /\ Types' /\ wpc'[w] = IdlePc
      /\ \A v \in Workers : v # w => wpc'[v] = wpc[v]
      /\ e \in Event /\ sink' = Append(sink, e)
      /\ e.kind \notin Ready => readers' = readers
      /\ e.kind \in Ready => \E q \in Reader :
            /\ readers' = readers \union {q}
            /\ q.w = w /\ q.gen = e.tag /\ q.st = "reading"
  BY <1>1, <1>2, PublishDoes
<1>4. LinkType /\ LinkType' /\ SinkType /\ SinkType' /\ MailType /\ MailType'
  BY <1>1, <1>3, TypesHave, TypesHaveNext
<1>5. UNCHANGED <<mode, mailbox, conn, muxPc, state, epoch, tickers>> /\ wpc[w].st = "publish"
  BY DEF publishEvent, muxVars
<1>6. e.w = w /\ e.kind \in Reports \union {"encodeFailed"} /\ (e.kind \in Ready => e.tag = conn[w].gen)
  BY <1>1, <1>2, <1>5 DEF GenInv, Telling
<1>7. \A v \in Workers : /\ PcQuiet(v) /\ (Replaying(v)' <=> Replaying(v))
                         /\ (closing' <=> closing)
  BY <1>5, PcStays DEF closing
<1>8. \A v, kinds : Sunk(v, kinds)' <=> Sunk(v, kinds) \/ (w = v /\ e.kind \in kinds)
  BY <1>3, <1>4, <1>6, SinkAdded
<1>9. /\ ~Dialing(w) /\ ~Dialing(w)' /\ wpc[w].st # "exited" /\ wpc'[w].st # "exited"
      /\ \A kinds : ~Telling(w, kinds)' /\ (Telling(w, kinds) <=> e.kind \in kinds)
  BY <1>2, <1>3, <1>5 DEF Dialing, Telling, IdlePc
<1>10. \A v \in Workers : v # w => LinkQuiet(v)
  <2>1. \A r \in readers' : r \in readers \/ r.w = w
    BY <1>3
  <2> QED
    BY <1>5, <2>1 DEF LinkQuiet, LiveReader, Reporter
<1>11. ASSUME NEW v \in Workers, v # w PROVE WorkerInv(v)' /\ MailOk(v)' /\ EpochOk(v)'
  <2>1. SinkQuiet(v) /\ (Sunk(v, Ready)' <=> Sunk(v, Ready))
    BY <1>8, <1>11 DEF SinkQuiet
  <2> QED
    BY <1>1, <1>3, <1>5, <1>10, <1>11, <2>1, OthersKeep
<1>12. CASE e.kind = "encodeFailed"
  <2>1. e.kind \notin Life /\ e.kind \notin Reports /\ e.kind \notin Ready /\ e.kind # "disconnected"
    BY <1>12 DEF Life, Reports, Ready
  <2>2. SinkQuiet(w) /\ (Sunk(w, Ready)' <=> Sunk(w, Ready))
    BY <1>3, <1>4, <1>8, <2>1, SinkAddedQuiet
  <2>3. LoopQuiet(w) /\ (Telling(w, Ready)' <=> Telling(w, Ready))
    BY <1>9, <2>1 DEF LoopQuiet
  <2>4. MailQuiet(w) /\ LinkQuiet(w) /\ readers' = readers
    BY <1>3, <1>4, <1>5, <2>1, MailStays, LinkStays
  <2>5. WorkerInv(w)' /\ MailOk(w)'
    BY <1>1, <1>5, <1>7, <2>2, <2>3, <2>4, QuietKeeps, MailOkStays DEF Quiet
  <2>6. EpochOk(w)'
    <3>1. Fresh(w)' <=> Fresh(w)
      BY <1>7, <2>2, <2>3 DEF Fresh
    <3> QED
      BY <1>1, <1>5, <1>7, <3>1, EpochStays
  <2>7. GenInv'
    <3>1. NoNewLoss
      BY <1>3, <1>4, <2>1, LossNotAdded
    <3>2. \A v \in Workers : wpc'[v].st = "publish" => wpc'[v] = wpc[v]
      BY <1>3 DEF IdlePc
    <3>3. GenQuiet
      BY <1>5, <2>4, <3>1, <3>2 DEF GenQuiet
    <3> QED
      BY <1>1, <1>4, <3>3, GenKeeps
  <2>8. SinkInv' /\ TickOk'
    <3>1. InOrder(e)
      BY <2>1 DEF InOrder
    <3>2. e.kind # "pingTick"
      BY <1>12
    <3> QED
      BY <1>1, <1>3, <1>4, <1>5, <3>1, <3>2, OrderAdded, TickAdded
  <2> QED
    BY <1>3, <1>11, <2>5, <2>6, <2>7, <2>8, MuxInvPartsNext
<1>13. CASE e.kind \in Reports
  <2>1. e.kind # "disconnected" /\ e.kind # "pingTick"
    BY <1>13 DEF Reports, Ready
  <2>2. Telling(w, Reports)
    BY <1>9, <1>13
  <2>3. /\ ~Sunk(w, Life) /\ ~LiveReader(w) /\ ~Replaying(w) /\ ~Reconnecting(w)
        /\ state[w] # "connected" /\ mailbox[w] = << >>
    BY <1>1, <2>2, TellingHas
  <2>4. ~Sunk(w, Ready) /\ ~Sunk(w, {"connectFailed", "disconnected"})
    BY <2>3 DEF Sunk, Life, Reports
  <2>5. ~Replaying(w)' /\ ~Reconnecting(w)' /\ state'[w] # "connected" /\ mailbox'[w] = << >>
    BY <1>5, <1>7, <2>3 DEF PcQuiet
  <2>6. Sunk(w, {"connectFailed", "disconnected"})' => ~LiveReader(w)'
    <3>1. CASE e.kind \in Ready
      <4>1. e.kind \notin {"connectFailed", "disconnected"}
        BY <3>1 DEF Ready
      <4> QED
        BY <1>8, <2>4, <4>1
    <3>2. CASE e.kind \notin Ready
      BY <1>3, <1>5, <2>3, <3>2 DEF LiveReader, Reporter
    <3> QED
      BY <3>1, <3>2
  <2>7. RoundInv(w)' /\ MailOk(w)' /\ ~WriteCmd(w)'
    BY <1>3, <1>4, <2>5, <2>6, ReportRound
  <2>8. Fresh(w)' <=> Fresh(w)
    BY <1>8, <1>9, <2>3, <2>4, <2>5 DEF Fresh
  <2>9. ConnInv(w)'
    BY <1>1, <1>5, <1>7, <1>9, <2>5, <2>7, <2>8 DEF WorkerInv, ConnInv
  <2>10. EpochOk(w)'
    BY <1>1, <1>5, <1>7, <2>8, EpochStays
  <2>11. SinkInv' /\ TickOk'
    <3>1. InOrder(e)
      BY <1>6, <2>3 DEF InOrder, Sunk
    <3> QED
      BY <1>1, <1>3, <1>4, <1>5, <2>1, <3>1, OrderAdded, TickAdded
  <2>12. GenInv'
    <3>1. NoNewLoss
      BY <1>3, <1>4, <2>1, LossNotAdded
    <3>2. \A v \in Workers : wpc'[v].st = "publish" => wpc'[v] = wpc[v]
      BY <1>3 DEF IdlePc
    <3>3. CASE e.kind \notin Ready
      <4>1. GenQuiet
        BY <1>3, <1>5, <3>1, <3>2, <3>3 DEF GenQuiet
      <4> QED
        BY <1>1, <1>4, <4>1, GenKeeps
    <3>4. CASE e.kind \in Ready
      <4>1. PICK q \in Reader : /\ readers' = readers \union {q}
                                /\ q.w = w /\ q.gen = conn[w].gen /\ q.st = "reading"
        BY <1>3, <1>6, <3>4
      <4>2. conn[w].st # "nil"
        <5>1. Fresh(w)
          BY <1>9, <3>4 DEF Fresh
        <5> QED
          BY <1>1, <1>9, <5>1 DEF WorkerInv, ConnInv
      <4>3. \A r \in readers : r.w = w => r.gen # conn[w].gen
        BY <2>3, <4>2 DEF LiveReader, Reporter
      <4>4. \A r, p \in readers' : r.w = p.w /\ r.gen = p.gen => r = p
        BY <1>1, <4>1, <4>3 DEF GenInv
      <4>5. \A r \in readers' :
              /\ r.gen <= conn'[r.w].gen
              /\ r.st = "failed" => r.gen = conn'[r.w].gen /\ conn'[r.w].st # "alive"
        <5>1. q.gen <= conn'[q.w].gen
          <6>1. q.gen \in Nat /\ q.gen = conn'[q.w].gen
            BY <1>5, <4>1 DEF Reader
          <6> QED
            BY <6>1
        <5> QED
          BY <1>1, <1>5, <4>1, <5>1 DEF GenInv
      <4>6. \A v \in Workers : wpc'[v].st = "publish" =>
              /\ Telling(v, Ready)' => wpc'[v].ev.tag = conn'[v].gen
              /\ wpc'[v].ev.w = v /\ wpc'[v].ev.kind \in Reports \union {"encodeFailed"}
        BY <1>1, <1>5, <3>2 DEF GenInv, Telling
      <4>7. \A v \in Workers : Telling(v, Ready)' => wpc'[v].ev.tag = conn'[v].gen
        BY <4>6 DEF Telling
      <4>8. \A i \in DOMAIN sink' : sink'[i].kind = "disconnected" =>
              sink'[i].tag = conn'[sink'[i].w].gen /\ conn'[sink'[i].w].st # "alive"
        BY <1>1, <1>5, <3>1 DEF NoNewLoss, GenInv
      <4> QED
        BY <4>4, <4>5, <4>6, <4>7, <4>8 DEF GenInv
    <3> QED
      BY <3>3, <3>4
  <2> QED
    BY <1>3, <1>11, <2>7, <2>9, <2>10, <2>11, <2>12, MuxInvPartsNext DEF WorkerInv
<1> QED
  BY <1>6, <1>12, <1>13

\* A worker writes, on the connection it has.
LEMMA WriteKeeps ==
    ASSUME MuxInv, NEW w \in Workers, NEW outcome \in Results, handleWrite(w, outcome)
    PROVE  MuxInv'
<1>1. /\ Types /\ SinkInv /\ GenInv /\ TickOk
      /\ \A v \in Workers : WorkerInv(v) /\ MailOk(v) /\ EpochOk(v)
  BY MuxInvParts
<1>2. /\ Types'
      /\ \/ wpc'[w] = wpc[w]
         \/ /\ wpc'[w].st = "publish" /\ wpc'[w].ev.w = w
            /\ wpc'[w].ev.kind = "encodeFailed"
               \/ (wpc'[w].ev.kind = "notConnected" /\ conn[w].st = "nil")
      /\ conn'[w].gen = conn[w].gen
      /\ conn'[w].st = conn[w].st \/ (conn'[w].st = "closed" /\ conn[w].st # "nil")
      /\ \A v \in Workers : v # w => conn'[v] = conn[v] /\ wpc'[v] = wpc[v]
  BY <1>1, WriteDoes
<1>3. LinkType /\ LinkType' /\ SinkType /\ SinkType' /\ MailType /\ MailType'
  BY <1>1, <1>2, TypesHave, TypesHaveNext
<1>4. /\ takeCommand(w, {"write", "replay", "ping"})
      /\ UNCHANGED <<mode, sink, readers, muxPc, state, epoch, tickers>>
  BY DEF handleWrite, muxVars
<1>5. /\ mailbox[w] # << >> /\ mailbox'[w] = Tail(mailbox[w]) /\ wpc[w] = IdlePc
      /\ Head(mailbox[w]).type \notin Dials
      /\ \A v \in Workers : v # w => mailbox'[v] = mailbox[v]
  BY <1>3, <1>4, MailShrinks DEF Dials
<1>6. conn[w].st # "nil"
  <2>1. mailbox[w] \in Seq(Cmds)
    BY <1>3 DEF MailType
  <2>2. WriteCmd(w)
    BY <1>5, <2>1, Taken DEF WriteCmd
  <2> QED
    BY <1>1, <1>5, <2>2 DEF WorkerInv, ConnInv, IdlePc
<1>7. wpc'[w] = IdlePc \/ (wpc'[w].st = "publish" /\ wpc'[w].ev.w = w
                           /\ wpc'[w].ev.kind = "encodeFailed")
  BY <1>2, <1>5, <1>6
<1>8. \A v \in Workers : /\ SinkQuiet(v) /\ PcQuiet(v) /\ (Replaying(v)' <=> Replaying(v))
                         /\ (Sunk(v, Ready)' <=> Sunk(v, Ready)) /\ (closing' <=> closing)
  BY <1>4, SinkStays, PcStays DEF closing
<1>9. LinkQuiet(w)
  BY <1>2, <1>4, <1>6 DEF LinkQuiet, LiveReader, Reporter
<1>10. LoopQuiet(w) /\ ~Telling(w, Ready) /\ ~Telling(w, Ready)'
  BY <1>5, <1>7 DEF LoopQuiet, Dialing, Telling, IdlePc, Reports, Ready
<1>11. MailQuiet(w) /\ MailOk(w)'
  BY <1>1, <1>2, <1>3, <1>5, MailTaken, MailOkTaken
<1>12. WorkerInv(w)'
  BY <1>1, <1>8, <1>9, <1>10, <1>11, QuietKeeps DEF Quiet
<1>13. EpochOk(w)'
  <2>1. Fresh(w)' <=> Fresh(w)
    BY <1>8, <1>10 DEF Fresh
  <2> QED
    BY <1>1, <1>2, <1>4, <1>8, <2>1, EpochStays
<1>14. ASSUME NEW v \in Workers, v # w PROVE WorkerInv(v)' /\ MailOk(v)' /\ EpochOk(v)'
  BY <1>1, <1>2, <1>3, <1>4, <1>5, <1>8, <1>14, LinkStays, OthersKeep
<1>15. SinkInv' /\ GenInv' /\ TickOk'
  <2>1. \A v \in Workers : conn'[v].gen = conn[v].gen
                           /\ (conn'[v].st = "alive" => conn[v].st = "alive")
    BY <1>2
  <2>2. \A v \in Workers : wpc'[v].st = "publish" =>
           \/ wpc'[v] = wpc[v]
           \/ wpc'[v].ev.w = v /\ wpc'[v].ev.kind = "encodeFailed"
    BY <1>2, <1>7 DEF IdlePc
  <2>3. GenQuiet
    BY <1>4, <2>1, <2>2 DEF GenQuiet, NoNewLoss
  <2> QED
    BY <1>1, <1>3, <1>4, <2>3, GenKeeps, TickTaken DEF SinkInv
<1> QED
  BY <1>2, <1>11, <1>12, <1>13, <1>14, <1>15, MuxInvPartsNext

\* A worker ends.
LEMMA ExitKeeps == ASSUME MuxInv, NEW w \in Workers, workerExit(w) PROVE MuxInv'
<1>1. /\ Types /\ SinkInv /\ GenInv /\ TickOk
      /\ \A v \in Workers : WorkerInv(v) /\ MailOk(v) /\ EpochOk(v)
  BY MuxInvParts
<1>2. /\ Types' /\ wpc'[w].st = "exited" /\ conn'[w].st = "nil" /\ conn'[w].gen = conn[w].gen
      /\ \A v \in Workers : v # w => conn'[v] = conn[v] /\ wpc'[v] = wpc[v]
  BY <1>1, ExitDoes
<1>3. LinkType /\ LinkType' /\ SinkType /\ SinkType' /\ MailType /\ MailType'
  BY <1>1, <1>2, TypesHave, TypesHaveNext
<1>4. /\ UNCHANGED <<mode, mailbox, sink, readers, muxPc, state, epoch, tickers>>
      /\ closing /\ mailbox[w] = << >>
  BY DEF workerExit, muxVars
<1>5. \A v \in Workers : /\ SinkQuiet(v) /\ PcQuiet(v) /\ MailQuiet(v)
                         /\ (Sunk(v, Ready)' <=> Sunk(v, Ready))
  BY <1>4, SinkStays, PcStays, MailStays
<1>6. closing' /\ state'[w] = "stopped" /\ mailbox'[w] = << >>
  BY <1>1, <1>4 DEF closing, WorkerInv, ConnInv
<1>7. ~Dialing(w)' /\ ~Telling(w, Reports)' /\ ~DialCmd(w)' /\ ~Reconnecting(w)' /\ ~Replaying(w)'
  BY <1>2, <1>6 DEF Dialing, Telling, DialCmd, Reconnecting, Replaying, closing
<1>8. LiveReader(w)' => LiveReader(w)
  BY <1>2, <1>4 DEF LiveReader, Reporter
<1>9. RoundInv(w)'
  BY <1>1, <1>5, <1>6, <1>7, <1>8 DEF WorkerInv, RoundInv, Coming, SinkQuiet
<1>10. ConnInv(w)'
  BY <1>2, <1>6 DEF ConnInv
<1>11. MailOk(w)' /\ EpochOk(w)'
  BY <1>1, <1>2, <1>4, <1>6, MailOkStays DEF EpochOk
<1>12. ASSUME NEW v \in Workers, v # w PROVE WorkerInv(v)' /\ MailOk(v)' /\ EpochOk(v)'
  BY <1>1, <1>2, <1>3, <1>4, <1>5, <1>12, LinkStays, OthersKeep
<1>13. SinkInv' /\ GenInv' /\ TickOk'
  <2>1. \A v \in Workers : conn'[v].gen = conn[v].gen
                           /\ (conn'[v].st = "alive" => conn[v].st = "alive")
    BY <1>2
  <2>2. \A v \in Workers : wpc'[v].st = "publish" => wpc'[v] = wpc[v]
    BY <1>2
  <2>3. GenQuiet
    BY <1>4, <2>1, <2>2 DEF GenQuiet, NoNewLoss
  <2> QED
    BY <1>1, <1>3, <1>4, <2>3, GenKeeps, TickTaken DEF SinkInv
<1> QED
  BY <1>2, <1>9, <1>10, <1>11, <1>12, <1>13, MuxInvPartsNext DEF WorkerInv

\* A connection dies: nobody has noticed yet.
LEMMA DiesKeeps == ASSUME MuxInv, NEW w \in Workers, connDies(w) PROVE MuxInv'
<1>1. /\ Types /\ SinkInv /\ GenInv /\ TickOk
      /\ \A v \in Workers : WorkerInv(v) /\ MailOk(v) /\ EpochOk(v)
  BY MuxInvParts
<1>2. Types'
  BY <1>1, ReaderTypes
<1>3. LinkType /\ LinkType' /\ SinkType /\ SinkType'
  BY <1>1, <1>2, TypesHave, TypesHaveNext
<1>4. /\ UNCHANGED <<mode, mailbox, wpc, sink, readers, muxPc, state, epoch, tickers>>
      /\ conn[w].st = "alive" /\ conn' = [conn EXCEPT ![w].st = "dead"]
  BY DEF connDies, muxVars
<1>5. /\ conn'[w].st = "dead" /\ conn'[w].gen = conn[w].gen
      /\ \A v \in Workers : v # w => conn'[v] = conn[v]
  BY <1>3, <1>4, ConnEdit
<1>6. \A v \in Workers : /\ conn'[v].gen = conn[v].gen
                         /\ (conn'[v].st = "alive" => conn[v].st = "alive")
                         /\ (conn'[v].st = "nil" <=> conn[v].st = "nil")
  BY <1>4, <1>5
<1>7. ASSUME NEW v \in Workers PROVE WorkerInv(v)' /\ MailOk(v)' /\ EpochOk(v)'
  <2>1. LinkQuiet(v)
    BY <1>4, <1>6 DEF LinkQuiet, LiveReader, Reporter
  <2>2. SinkQuiet(v) /\ (Sunk(v, Ready)' <=> Sunk(v, Ready))
    BY <1>4, SinkStays
  <2> QED
    BY <1>1, <1>4, <1>6, <2>1, <2>2, OthersKeep
<1>8. SinkInv' /\ GenInv' /\ TickOk'
  <2>1. GenQuiet
    BY <1>4, <1>6 DEF GenQuiet, NoNewLoss
  <2> QED
    BY <1>1, <1>3, <1>4, <2>1, GenKeeps, TickTaken DEF SinkInv
<1> QED
  BY <1>2, <1>7, <1>8, MuxInvPartsNext

\* A read loop finds its connection gone.
LEMMA ReadFailsKeeps == ASSUME MuxInv, NEW r \in readers, readFails(r) PROVE MuxInv'
<1>1. /\ Types /\ SinkInv /\ GenInv /\ TickOk
      /\ \A v \in Workers : WorkerInv(v) /\ MailOk(v) /\ EpochOk(v)
  BY MuxInvParts
<1>2. Types'
  BY <1>1, ReaderTypes
<1>3. LinkType /\ LinkType' /\ SinkType /\ SinkType'
  BY <1>1, <1>2, TypesHave, TypesHaveNext
<1>4. /\ UNCHANGED <<mode, mailbox, wpc, conn, sink, muxPc, state, epoch, tickers>>
      /\ r.st = "reading"
      /\ \/ readers' = readers \ {r}
         \/ /\ conn[r.w].gen = r.gen /\ conn[r.w].st \in {"dead", "closed"}
            /\ readers' = (readers \ {r}) \union {[r EXCEPT !.st = "failed"]}
  BY DEF readFails, muxVars
<1>5. ASSUME \A v \in Workers : LinkQuiet(v)
      PROVE  \A v \in Workers : WorkerInv(v)' /\ MailOk(v)' /\ EpochOk(v)'
  <2> SUFFICES ASSUME NEW v \in Workers PROVE WorkerInv(v)' /\ MailOk(v)' /\ EpochOk(v)'
    OBVIOUS
  <2>1. SinkQuiet(v) /\ (Sunk(v, Ready)' <=> Sunk(v, Ready))
    BY <1>4, SinkStays
  <2> QED
    BY <1>1, <1>4, <1>5, <2>1, OthersKeep
<1>6. SinkInv' /\ TickOk'
  BY <1>1, <1>3, <1>4, TickTaken DEF SinkInv
<1>7. CASE readers' = readers \ {r}
  <2>1. \A v \in Workers : LinkQuiet(v)
    BY <1>3, <1>4, <1>7, LinkStays
  <2>2. GenQuiet
    BY <1>4, <1>7 DEF GenQuiet, NoNewLoss
  <2>3. GenInv'
    BY <1>1, <1>3, <2>2, GenKeeps
  <2> QED
    BY <1>2, <1>5, <1>6, <2>1, <2>3, MuxInvPartsNext
<1>8. ASSUME conn[r.w].gen = r.gen, conn[r.w].st \in {"dead", "closed"},
             readers' = (readers \ {r}) \union {[r EXCEPT !.st = "failed"]}
      PROVE  MuxInv'
  <2>1. r \in Reader
    BY <1>3 DEF LinkType
  <2>2. PICK q : q = [r EXCEPT !.st = "failed"]
    OBVIOUS
  <2>3. q.w = r.w /\ q.gen = r.gen /\ q.st = "failed" /\ readers' = (readers \ {r}) \union {q}
    BY <1>8, <2>1, <2>2 DEF Reader
  <2>4. Reporter(r) /\ r.w \in Workers /\ r.gen \in Nat
    BY <1>8, <2>1 DEF Reporter, Reader
  <2>5. ASSUME NEW v \in Workers PROVE LinkQuiet(v)
    <3>1. LiveReader(v)' => LiveReader(v)
      <4> SUFFICES ASSUME NEW p \in readers', p.w = v, Reporter(p)' PROVE LiveReader(v)
        BY DEF LiveReader
      <4>1. CASE p = q
        BY <2>3, <2>4, <4>1 DEF LiveReader
      <4>2. CASE p # q
        <5>1. p \in readers /\ Reporter(p)
          BY <1>4, <2>3, <4>2 DEF Reporter
        <5> QED
          BY <5>1 DEF LiveReader
      <4> QED
        BY <4>1, <4>2
    <3> QED
      BY <1>4, <3>1 DEF LinkQuiet
  <2>6. GenInv'
    <3>1. \A p \in readers' : p.gen <= conn'[p.w].gen
      <4>1. q.gen <= conn'[q.w].gen
        <5>1. q.gen = r.gen /\ conn'[q.w].gen = conn[r.w].gen
          BY <1>4, <2>3
        <5> QED
          BY <1>1, <5>1 DEF GenInv
      <4> QED
        BY <1>1, <1>4, <2>3, <4>1 DEF GenInv
    <3>2. \A p \in readers' : p.st = "failed" => p.gen = conn'[p.w].gen /\ conn'[p.w].st # "alive"
      <4>1. q.gen = conn'[q.w].gen /\ conn'[q.w].st # "alive"
        BY <1>4, <1>8, <2>3
      <4> QED
        BY <1>1, <1>4, <2>3, <4>1 DEF GenInv
    <3>3. \A p, x \in readers' : p.w = x.w /\ p.gen = x.gen => p = x
      <4>1. \A p \in readers \ {r} : p.w # q.w \/ p.gen # q.gen
        BY <1>1, <2>3 DEF GenInv
      <4> QED
        BY <1>1, <2>3, <4>1 DEF GenInv
    <3>4. \A v \in Workers : wpc'[v].st = "publish" =>
            wpc'[v].ev.w = v /\ wpc'[v].ev.kind \in Reports \union {"encodeFailed"}
      BY <1>1, <1>4 DEF GenInv
    <3>5. \A v \in Workers : Telling(v, Ready)' => wpc'[v].ev.tag = conn'[v].gen
      BY <1>1, <1>4 DEF GenInv, Telling
    <3>6. \A i \in DOMAIN sink' : sink'[i].kind = "disconnected" =>
            sink'[i].tag = conn'[sink'[i].w].gen /\ conn'[sink'[i].w].st # "alive"
      BY <1>1, <1>4 DEF GenInv
    <3> QED
      BY <3>1, <3>2, <3>3, <3>4, <3>5, <3>6 DEF GenInv
  <2> QED
    BY <1>2, <1>5, <1>6, <2>5, <2>6, MuxInvPartsNext
<1> QED
  BY <1>4, <1>7, <1>8

\* A read loop reports the loss of its connection, once.
LEMMA LossKeeps == ASSUME MuxInv, NEW r \in readers, readerPublishes(r) PROVE MuxInv'
<1>1. /\ Types /\ SinkInv /\ GenInv /\ TickOk
      /\ \A v \in Workers : WorkerInv(v) /\ MailOk(v) /\ EpochOk(v)
  BY MuxInvParts
<1>2. Types'
  BY <1>1, ReaderTypes
<1>3. LinkType /\ LinkType' /\ SinkType /\ SinkType'
  BY <1>1, <1>2, TypesHave, TypesHaveNext
<1>4. /\ UNCHANGED <<mode, mailbox, wpc, conn, muxPc, state, epoch, tickers>>
      /\ r.st = "failed" /\ readers' = readers \ {r}
      /\ UNCHANGED sink \/ sink' = Append(sink, event("disconnected", r.w, r.gen))
  BY DEF readerPublishes, muxVars
<1>5. \A v \in Workers : LinkQuiet(v)
  BY <1>3, <1>4, LinkStays
<1>6. CASE UNCHANGED sink
  <2>1. ASSUME NEW v \in Workers PROVE WorkerInv(v)' /\ MailOk(v)' /\ EpochOk(v)'
    <3>1. SinkQuiet(v) /\ (Sunk(v, Ready)' <=> Sunk(v, Ready))
      BY <1>6, SinkStays
    <3> QED
      BY <1>1, <1>4, <1>5, <3>1, OthersKeep
  <2>2. GenQuiet
    BY <1>4, <1>6 DEF GenQuiet, NoNewLoss
  <2>3. SinkInv' /\ GenInv' /\ TickOk'
    BY <1>1, <1>3, <1>4, <1>6, <2>2, GenKeeps, TickTaken DEF SinkInv
  <2> QED
    BY <1>2, <2>1, <2>3, MuxInvPartsNext
<1>7. CASE sink' = Append(sink, event("disconnected", r.w, r.gen))
  <2>1. PICK w : w = r.w
    OBVIOUS
  <2>2. w \in Workers /\ r.gen \in Nat
    BY <1>3, <2>1 DEF LinkType, Reader
  <2>3. PICK e \in Event : /\ sink' = Append(sink, e) /\ e.kind = "disconnected"
                           /\ e.w = w /\ e.tag = r.gen
    <3>1. event("disconnected", r.w, r.gen) \in Event
      BY <2>1, <2>2 DEF Event, event
    <3>2. /\ event("disconnected", r.w, r.gen).kind = "disconnected"
          /\ event("disconnected", r.w, r.gen).w = w
          /\ event("disconnected", r.w, r.gen).tag = r.gen
      BY <2>1 DEF event
    <3> QED
      BY <1>7, <3>1, <3>2
  <2>4. e.kind \in Life /\ e.kind \notin Reports /\ e.kind \notin Ready
    BY <2>3 DEF Life, Reports, Ready
  <2>5. r.gen = conn[w].gen /\ conn[w].st # "alive"
    BY <1>1, <1>4, <2>1 DEF GenInv
  <2>6. LiveReader(w)
    BY <1>4, <2>1 DEF LiveReader, Reporter
  <2>7. ~Coming(w) /\ ~Sunk(w, {"connectFailed", "disconnected"})
    BY <1>1, <2>2, <2>6 DEF WorkerInv, RoundInv
  <2>8. ~LiveReader(w)'
    <3> SUFFICES ASSUME NEW p \in readers, p # r, p.w = w, Reporter(p)' PROVE FALSE
      BY <1>4 DEF LiveReader
    <3>1. p.gen = conn[w].gen
      BY <1>1, <1>4 DEF Reporter, GenInv
    <3> QED
      BY <1>1, <2>1, <2>5, <3>1 DEF GenInv
  <2>9. \A v \in Workers : /\ Sunk(v, Reports)' <=> Sunk(v, Reports)
                           /\ Sunk(v, Ready)' <=> Sunk(v, Ready)
    BY <1>3, <2>3, <2>4, SinkAdded
  <2>10. ASSUME NEW v \in Workers, v # w PROVE WorkerInv(v)' /\ MailOk(v)' /\ EpochOk(v)'
    <3>1. SinkQuiet(v)
      BY <1>3, <2>3, <2>10, SinkAddedQuiet
    <3> QED
      BY <1>1, <1>4, <1>5, <2>9, <3>1, OthersKeep
  <2>11. LoopQuiet(w) /\ PcQuiet(w) /\ MailQuiet(w) /\ (Replaying(w)' <=> Replaying(w))
         /\ (Fresh(w)' <=> Fresh(w)) /\ (closing' <=> closing) /\ MailOk(w)'
    <3>1. LoopQuiet(w) /\ PcQuiet(w) /\ MailQuiet(w) /\ (Replaying(w)' <=> Replaying(w))
          /\ MailOk(w)'
      BY <1>1, <1>4, <2>2, LoopStays, PcStays, MailStays, MailOkStays
    <3> QED
      BY <1>4, <2>2, <2>9, <3>1, FreshStays DEF closing
  <2>12. RoundInv(w)'
    <3>1. ~Coming(w)'
      BY <2>7, <2>11 DEF Coming, LoopQuiet, PcQuiet, MailQuiet
    <3>2. ~Dialing(w)' /\ ~Telling(w, Reports)' /\ ~Reconnecting(w)'
      BY <3>1 DEF Coming
    <3> QED
      BY <1>1, <1>4, <2>2, <2>8, <2>9, <2>11, <3>1, <3>2 DEF WorkerInv, RoundInv
  <2>13. ConnInv(w)'
    BY <1>1, <1>4, <2>2, <2>11 DEF WorkerInv, ConnInv, MailQuiet
  <2>14. EpochOk(w)'
    BY <1>1, <1>4, <2>2, <2>11, EpochStays
  <2>15. SinkInv' /\ TickOk'
    <3>1. InOrder(e)
      <4> SUFFICES ASSUME NEW i \in DOMAIN sink, sink[i].w = w, sink[i].kind \in Life
                   PROVE  sink[i].kind \in Ready
        BY <2>3 DEF InOrder
      <4>1. sink[i].kind \notin {"connectFailed", "disconnected"}
        BY <2>7 DEF Sunk
      <4> QED
        BY <4>1 DEF Life, Reports
    <3> QED
      BY <1>1, <1>3, <1>4, <2>3, <3>1, OrderAdded, TickAdded
  <2>16. GenInv'
    <3>1. ASSUME NEW i \in DOMAIN sink', sink'[i].kind = "disconnected"
          PROVE  sink'[i].tag = conn'[sink'[i].w].gen /\ conn'[sink'[i].w].st # "alive"
      <4>1. sink \in Seq(Event)
        BY <1>3 DEF SinkType
      <4>2. (i \in DOMAIN sink /\ sink'[i] = sink[i]) \/ sink'[i] = e
        BY <2>3, <4>1, Added
      <4>3. CASE i \in DOMAIN sink /\ sink'[i] = sink[i]
        BY <1>1, <1>4, <3>1, <4>3 DEF GenInv
      <4>4. CASE sink'[i] = e
        BY <1>4, <2>3, <2>5, <4>4
      <4> QED
        BY <4>2, <4>3, <4>4
    <3>2. \A v \in Workers : wpc'[v].st = "publish" =>
            wpc'[v].ev.w = v /\ wpc'[v].ev.kind \in Reports \union {"encodeFailed"}
      BY <1>1, <1>4 DEF GenInv
    <3>3. \A v \in Workers : Telling(v, Ready)' => wpc'[v].ev.tag = conn'[v].gen
      BY <1>1, <1>4 DEF GenInv, Telling
    <3>4. /\ \A p \in readers' : p.gen <= conn'[p.w].gen
          /\ \A p \in readers' : p.st = "failed" =>
                p.gen = conn'[p.w].gen /\ conn'[p.w].st # "alive"
          /\ \A p, x \in readers' : p.w = x.w /\ p.gen = x.gen => p = x
      BY <1>1, <1>4 DEF GenInv
    <3> QED
      BY <3>1, <3>2, <3>3, <3>4 DEF GenInv
  <2> QED
    BY <1>2, <2>10, <2>11, <2>12, <2>13, <2>14, <2>15, <2>16, MuxInvPartsNext DEF WorkerInv
<1> QED
  BY <1>4, <1>6, <1>7

-----------------------------------------------------------------------------
(* The theorems.                                                            *)

\* Initially, every worker has the order to make its first connection.
LEMMA InitMuxInv == Init => MuxInv
<1> SUFFICES ASSUME Init PROVE MuxInv
  OBVIOUS
<1>1. Types
  BY InitTypes
<1>2. sink = << >> /\ readers = {} /\ tickers = {} /\ muxPc = LoopPc
  BY DEF Init
<1>3. ASSUME NEW w \in Workers PROVE WorkerInv(w) /\ MailOk(w) /\ EpochOk(w)
  <2>1. /\ state[w] = "connecting" /\ epoch[w] = 0 /\ wpc[w] = IdlePc
        /\ conn[w].gen = 0 /\ conn[w].st = "nil" /\ mailbox[w] = <<Command("connect")>>
    BY <1>3 DEF Init
  <2>2. PICK c \in Cmds : c = Command("connect") /\ c.type = "connect"
    BY CmdTypes DEF Command
  <2>3. DOMAIN mailbox[w] = {1} /\ mailbox[w][1] = c /\ Len(mailbox[w]) = 1
    <3>1. mailbox[w] = <<c>>
      BY <2>1, <2>2
    <3> QED
      BY <3>1
  <2>4. ~WriteCmd(w) /\ MailOk(w)
    BY <2>2, <2>3 DEF WriteCmd, MailOk, Dials
  <2>5. \A kinds : ~Telling(w, kinds) /\ ~Sunk(w, kinds)
    BY <1>2, <2>1 DEF Telling, Sunk, IdlePc
  <2>6. ~Dialing(w) /\ ~Replaying(w) /\ ~Reconnecting(w) /\ ~closing /\ wpc[w].st # "exited"
    BY <1>2, <2>1 DEF Dialing, Replaying, Reconnecting, closing, IdlePc, LoopPc
  <2>7. ~LiveReader(w)
    BY <1>2 DEF LiveReader
  <2>8. ~Fresh(w)
    BY <2>5, <2>6 DEF Fresh
  <2>9. RoundInv(w)
    BY <2>1, <2>5, <2>6, <2>7 DEF RoundInv
  <2>10. ConnInv(w)
    BY <2>1, <2>4, <2>6, <2>8 DEF ConnInv
  <2>11. EpochOk(w)
    BY <2>1, <2>8 DEF EpochOk
  <2> QED
    BY <2>4, <2>9, <2>10, <2>11 DEF WorkerInv
<1>4. SinkInv /\ TickOk
  BY <1>2 DEF SinkInv, TickOk
<1>5. GenInv
  <2>1. \A w \in Workers : wpc[w].st # "publish"
    BY DEF Init, IdlePc
  <2> QED
    BY <1>2, <2>1 DEF GenInv, Telling
<1> QED
  BY <1>1, <1>3, <1>4, <1>5, MuxInvParts

\* Every step keeps the invariant.
LEMMA StepMuxInv == MuxInv /\ [Next]_vars => MuxInv'
<1> SUFFICES ASSUME MuxInv, [Next]_vars PROVE MuxInv'
  OBVIOUS
<1>1. CASE Client
  BY <1>1, ClientKeeps
<1>2. CASE MuxLoop
  <2>1. CASE handleCommand
    BY <2>1, CommandKeeps
  <2>2. CASE handleIOWorkerEvent
    BY <2>2, WorkerReadyKeeps, ReconnectKeeps, PingTickKeeps, WriteFailedKeeps
    DEF handleIOWorkerEvent
  <2>3. CASE runReplay
    BY <2>3, ReplayKeeps
  <2>4. CASE sendReconnect
    BY <2>4, SendReconnectKeeps
  <2>5. CASE handleShutdown \/ closeSink
    BY <2>5, ShutdownKeeps
  <2>6. CASE drainEvent
    BY <2>6, DrainKeeps
  <2> QED
    BY <1>2, <2>1, <2>2, <2>3, <2>4, <2>5, <2>6 DEF MuxLoop
<1>3. ASSUME NEW w \in Workers, WorkerLoop(w) \/ connDies(w) PROVE MuxInv'
  <2>1. CASE startDial(w)
    BY <2>1, DialKeeps
  <2>2. CASE dialOk(w)
    BY <2>2, DialOkKeeps
  <2>3. CASE dialFailed(w)
    BY <2>3, DialFailedKeeps
  <2>4. CASE publishEvent(w)
    BY <2>4, PublishKeeps
  <2>5. CASE \E outcome \in Results : handleWrite(w, outcome)
    BY <2>5, WriteKeeps
  <2>6. CASE workerExit(w)
    BY <2>6, ExitKeeps
  <2>7. CASE connDies(w)
    BY <2>7, DiesKeeps
  <2> QED
    BY <1>3, <2>1, <2>2, <2>3, <2>4, <2>5, <2>6, <2>7 DEF WorkerLoop
<1>4. ASSUME NEW t \in tickers, runPingTicker(t) \/ tickerExit(t) PROVE MuxInv'
  BY <1>4, TickerKeeps
<1>5. ASSUME NEW r \in readers, readFails(r) \/ readerPublishes(r) PROVE MuxInv'
  BY <1>5, ReadFailsKeeps, LossKeeps
<1>6. CASE UNCHANGED vars
  <2>1. UNCHANGED <<mode, stopped, handles, commandCh, sink, sinkClosed, fatal, muxState, muxPc,
                    subscriptions, state, desiredKeys, epoch, tickers, mailbox, wpc, conn,
                    readers, wire, panicked>>
    BY <1>6 DEF vars, clientVars, muxVars, connVars
  <2>2. Types'
    BY <2>1 DEF MuxInv, Types, TypeOK
  <2> QED
    BY <2>1, <2>2, IdleKeeps
<1> QED
  BY <1>1, <1>2, <1>3, <1>4, <1>5, <1>6 DEF Next

\* The invariant holds of every behaviour.
LEMMA MuxInvAlways == Spec => []MuxInv
  BY InitMuxInv, StepMuxInv, PTL DEF Spec

\* The types of the multiplexer's state; the command channel, the event channel and
\* the mailboxes stay within their capacities (mux.go, ioworker.go).
THEOREM MuxTypeCorrect == Spec => []TypeOK
<1>1. MuxInv => TypeOK
  BY DEF MuxInv, Types
<1> QED
  BY <1>1, MuxInvAlways, PTL

\* A worker that takes a write, a replay write or a ping has a connection:
\* ErrNotConnected (ioworker.go) is unreachable for callers.
THEOREM WritesFindConnections == Spec => []WriteFindsConn
<1>1. ASSUME MuxInv PROVE WriteFindsConn
  <2> SUFFICES ASSUME NEW w \in Workers, wpc[w] = IdlePc, mailbox[w] # << >>,
                      Head(mailbox[w]).type \in {"write", "replay", "ping"}
               PROVE  conn[w].st # "nil"
    BY DEF WriteFindsConn
  <2>1. MailType /\ WorkerInv(w)
    BY <1>1, MuxInvParts, TypesHave
  <2>2. mailbox[w] \in Seq(Cmds)
    BY <2>1 DEF MailType
  <2>3. WriteCmd(w)
    BY <2>2, Taken DEF WriteCmd, Dials
  <2> QED
    BY <2>1, <2>3 DEF WorkerInv, ConnInv, IdlePc
<1> QED
  BY <1>1, MuxInvAlways, PTL

\* A ping is written to the connection whose heartbeat produced it: what the comment on
\* handlePingTick says (mux.go), of ticks that race past the cancellation too.
THEOREM PingsStayHome == Spec => []PingOnItsConnection
<1>1. ASSUME MuxInv PROVE PingOnItsConnection
  <2> SUFFICES ASSUME NEW w \in Workers, mailbox[w] # << >>, Head(mailbox[w]).type = "ping"
               PROVE  Head(mailbox[w]).epoch = conn[w].gen
    BY DEF PingOnItsConnection
  <2>1. MailType /\ MailOk(w)
    BY <1>1, MuxInvParts, TypesHave
  <2>2. mailbox[w] \in Seq(Cmds)
    BY <2>1 DEF MailType
  <2>3. 1 \in DOMAIN mailbox[w] /\ mailbox[w][1] = Head(mailbox[w])
    BY <2>2, Taken
  <2> QED
    BY <2>1, <2>3 DEF MailOk
<1> QED
  BY <1>1, MuxInvAlways, PTL

\* A loss that the mux has yet to handle is that of the connection the worker has now
\* (ioworker.go, the read loop): no late or duplicate report tears a new one down.
THEOREM LossesAreCurrent == Spec => []DisconnectIsCurrent
<1>1. MuxInv => DisconnectIsCurrent
  BY DEF MuxInv, GenInv, DisconnectIsCurrent
<1> QED
  BY <1>1, MuxInvAlways, PTL

\* While the mux has yet to handle an event of a worker's life, that worker neither
\* dials nor is going to: cancelling its dial context (clearDialCancel, startReconnect)
\* cancels nothing that is needed.
THEOREM DialsUndisturbed == Spec => []DialUndisturbed
<1>1. ASSUME MuxInv PROVE DialUndisturbed
  <2> SUFFICES ASSUME NEW i \in DOMAIN sink, NEW w, w = sink[i].w,
                      sink[i].kind \in {"connected", "connectFailed", "reconnected",
                                        "disconnected"}
               PROVE  /\ wpc[w].st # "dialing"
                      /\ \A j \in DOMAIN mailbox[w] :
                            mailbox[w][j].type \notin {"connect", "reconnect"}
    BY DEF DialUndisturbed
  <2>1. SinkType
    BY <1>1, MuxInvParts, TypesHave
  <2>2. sink[i] \in Event
    BY <2>1 DEF SinkType
  <2>3. w \in Workers
    BY <2>2 DEF Event
  <2>4. Sunk(w, Life)
    BY DEF Sunk, Life, Reports, Ready
  <2>5. ~Coming(w)
    BY <1>1, <2>3, <2>4, MuxInvParts DEF WorkerInv, RoundInv
  <2> QED
    BY <2>5 DEF Coming, Dialing, DialCmd, Dials
<1> QED
  BY <1>1, MuxInvAlways, PTL

\* The mux, blocked on a worker's full mailbox (startReconnect, runReplay), is not
\* waited for by that worker on the full event channel, unless it reports an encode
\* failure: it has no report of a connection to make.
THEOREM MuxAndWorkerDoNotBlock == Spec => []NoMutualBlock
<1>1. ASSUME MuxInv PROVE NoMutualBlock
  <2> SUFFICES ASSUME muxPc.st \in {"replay", "reconnect"}, NEW w, w = muxPc.w,
                      wpc[w].st = "publish"
               PROVE  wpc[w].ev.kind = "encodeFailed"
    BY DEF NoMutualBlock
  <2>1. PcType /\ GenInv
    BY <1>1, MuxInvParts, TypesHave
  <2>2. w \in Workers
    BY <2>1 DEF PcType, MuxPcs
  <2>3. Reconnecting(w) \/ Replaying(w)
    BY DEF Reconnecting, Replaying
  <2>4. ~Telling(w, Reports)
    BY <1>1, <2>2, <2>3, MuxInvParts DEF WorkerInv, RoundInv, Coming
  <2> QED
    BY <2>1, <2>2, <2>4 DEF Telling, GenInv
<1> QED
  BY <1>1, MuxInvAlways, PTL


-----------------------------------------------------------------------------
(* No handle is lost. A pending handle is with a command: in the command    *)
(* channel, or with a write in a mailbox. Shutdown begins when the one is   *)
(* empty and ends when the others are.                                      *)

Holds(q, h) == \E i \in DOMAIN q : q[i].h = h

Kept(h) == Holds(commandCh, h) \/ \E w \in Workers : Holds(mailbox[w], h)

\* Dials are nobody's commands.
Bare(q) == \A i \in DOMAIN q : q[i].type \in Dials => q[i].h = NoHandle

HandleInv ==
    /\ \A h \in Handles : handles[h] = "pending" => Kept(h)
    /\ \A w \in Workers : Bare(mailbox[w])

\* What the mux leaves behind when it leaves its loop, and when it ends.
EndInv ==
    /\ closing => stopped /\ commandCh = << >>
    /\ sinkClosed \/ muxState = "stopped" => muxPc.st = "stopped"
    /\ muxPc.st = "stopped" => \A w \in Workers : wpc[w].st = "exited"

\* A queue without its first element holds the other handles.
LEMMA HoldsTaken ==
    ASSUME NEW S, NEW q \in Seq(S), q # << >>, NEW h, Holds(q, h), Head(q).h # h
    PROVE  Holds(Tail(q), h)
<1>1. PICK i \in DOMAIN q : q[i].h = h
  BY DEF Holds
<1>2. i # 1 /\ i - 1 \in DOMAIN Tail(q) /\ Tail(q)[i - 1] = q[i]
  BY <1>1, Taken
<1> QED
  BY <1>1, <1>2 DEF Holds

\* A queue with one more element holds that one's handle too.
LEMMA HoldsAdded ==
    ASSUME NEW S, NEW q \in Seq(S), NEW e \in S, NEW h
    PROVE  Holds(q, h) \/ e.h = h => Holds(Append(q, e), h)
<1>1. PICK n : n = Len(q) + 1
  OBVIOUS
<1>2. PICK r : r = Append(q, e)
  OBVIOUS
<1>3. n \in DOMAIN r /\ r[n] = e /\ \A i \in DOMAIN q : i \in DOMAIN r /\ r[i] = q[i]
  <2>1. Len(q) + 1 \in 1..(Len(q) + 1)
    BY Added
  <2> QED
    BY <1>1, <1>2, <2>1, Added
<1> QED
  BY <1>2, <1>3 DEF Holds

\* Dials stay nobody's, whatever is taken.
LEMMA BareTaken ==
    ASSUME NEW S, NEW q \in Seq(S), q # << >>, Bare(q)
    PROVE  Bare(Tail(q))
BY Taken DEF Bare

\* The other way: a dial that is added is nobody's.
LEMMA BareAdded ==
    ASSUME NEW S, NEW q \in Seq(S), NEW e \in S, Bare(q), e.type \in Dials => e.h = NoHandle
    PROVE  Bare(Append(q, e))
<1>1. PICK n : n = Len(q) + 1
  OBVIOUS
<1>2. PICK r : r = Append(q, e)
  OBVIOUS
<1>3. /\ r[n] = e /\ \A i \in DOMAIN q : r[i] = q[i]
      /\ \A i \in DOMAIN r : i \in DOMAIN q \/ i = n
  BY <1>1, <1>2, Added
<1> QED
  BY <1>2, <1>3 DEF Bare

\* A mailbox gets a command, and no handle is resolved.
LEMMA MoreKept ==
    ASSUME Types, HandleInv, NEW w \in Workers, NEW c \in Cmds, hasRoom(w),
           c.type \in Dials => c.h = NoHandle,
           mailbox' = [mailbox EXCEPT ![w] = Append(@, c)], UNCHANGED <<handles, commandCh>>
    PROVE  HandleInv'
<1>1. /\ mailbox[w] \in Seq(Cmds) /\ mailbox'[w] = Append(mailbox[w], c)
      /\ \A v \in Workers : v # w => mailbox'[v] = mailbox[v]
  BY TypesHave, MailGrows DEF MailType
<1>2. \A h : Holds(mailbox[w], h) => Holds(mailbox'[w], h)
  BY <1>1, HoldsAdded
<1>3. Bare(mailbox'[w])
  BY <1>1, BareAdded DEF HandleInv
<1>4. \A h : Kept(h) => Kept(h)'
  BY <1>1, <1>2 DEF Kept
<1> QED
  BY <1>1, <1>3, <1>4 DEF HandleInv

\* A command is taken from the command channel, and is answered or goes on.
LEMMA CommandKept ==
    ASSUME Types, HandleInv, commandCh # << >>, commandCh' = Tail(commandCh),
           NEW c, c = Head(commandCh),
           \/ UNCHANGED mailbox /\ \E r \in Results : resolve(c.h, r)
           \/ /\ UNCHANGED handles
              /\ \E w \in Workers, d \in Cmds :
                    /\ d.h = c.h /\ d.type = "write" /\ hasRoom(w)
                    /\ mailbox' = [mailbox EXCEPT ![w] = Append(@, d)]
    PROVE  HandleInv'
<1>1. commandCh \in Seq(UserCommand) /\ HandleType /\ MailType
  BY TypesHave DEF ClientType
<1>2. c.h \in Handles
  <2>1. c \in UserCommand
    BY <1>1, Taken
  <2> QED
    BY <2>1 DEF UserCommand
<1>3. \A h : Holds(commandCh, h) /\ h # c.h => Holds(commandCh', h)
  BY <1>1, HoldsTaken
<1>4. CASE UNCHANGED mailbox /\ \E r \in Results : resolve(c.h, r)
  <2>1. PICK r \in Results : resolve(c.h, r)
    BY <1>4
  <2>2. r # "pending" /\ c.h # NoHandle
    BY <1>2 DEF Results, Handles, NoHandle
  <2>3. handles' = IF handles[c.h] = "pending" THEN [handles EXCEPT ![c.h] = r] ELSE handles
    BY <2>1, <2>2 DEF resolve
  <2>4. \A h \in Handles : handles'[h] = "pending" => handles[h] = "pending" /\ h # c.h
    BY <1>1, <1>2, <2>2, <2>3 DEF HandleType
  <2>5. \A h \in Handles : handles'[h] = "pending" => Kept(h)'
    BY <1>3, <1>4, <2>4 DEF HandleInv, Kept
  <2> QED
    BY <1>4, <2>5 DEF HandleInv
<1>5. ASSUME NEW w \in Workers, NEW d \in Cmds, UNCHANGED handles,
             d.h = c.h, d.type = "write", hasRoom(w),
             mailbox' = [mailbox EXCEPT ![w] = Append(@, d)]
      PROVE  HandleInv'
  <2>1. /\ mailbox[w] \in Seq(Cmds) /\ mailbox'[w] = Append(mailbox[w], d)
        /\ \A v \in Workers : v # w => mailbox'[v] = mailbox[v]
    BY <1>1, <1>5, MailGrows DEF MailType
  <2>2. \A h : Holds(mailbox[w], h) \/ h = c.h => Holds(mailbox'[w], h)
    BY <1>5, <2>1, HoldsAdded
  <2>3. Bare(mailbox'[w])
    BY <1>5, <2>1, BareAdded DEF HandleInv, Dials
  <2>4. \A h : Kept(h) => Kept(h)'
    BY <1>3, <2>1, <2>2 DEF Kept
  <2> QED
    BY <1>5, <2>1, <2>3, <2>4 DEF HandleInv
<1> QED
  BY <1>4, <1>5

\* Subscribe: the caller is answered, or its write goes on.
LEMMA SubscribeKeeps ==
    ASSUME Types, NEW c \in UserCommand, handleSubscribe(c)
    PROVE  \/ UNCHANGED mailbox /\ \E r \in Results : resolve(c.h, r)
           \/ /\ UNCHANGED handles
              /\ \E w \in Workers, d \in Cmds :
                    /\ d.h = c.h /\ d.type = "write" /\ hasRoom(w)
                    /\ mailbox' = [mailbox EXCEPT ![w] = Append(@, d)]
<1>1. PICK w \in Workers \union {0} : w = pickWorker
  BY PickType
<1>2. PICK d : d = WriteCommand("subscribe", c.key, c.h)
  OBVIOUS
<1>3. d \in Cmds /\ d.type = "write" /\ d.h = c.h
  <2>1. c.key \in Keys /\ c.h \in Handles
    BY DEF UserCommand
  <2> QED
    BY <1>2, <2>1, CmdTypes DEF WriteCommand
<1>4. {"exists", "capacity", "ok", "queueFull"} \subseteq Results
  BY DEF Results
<1>5. \/ UNCHANGED mailbox /\ \E r \in Results : resolve(c.h, r)
      \/ /\ w # 0 /\ hasRoom(w) /\ UNCHANGED handles
         /\ mailbox' = [mailbox EXCEPT ![w] = Append(@, d)]
  BY <1>1, <1>2, <1>4 DEF handleSubscribe
<1> QED
  BY <1>1, <1>3, <1>5

\* Unsubscribe: the same.
LEMMA UnsubscribeKeeps ==
    ASSUME Types, NEW c \in UserCommand, handleUnsubscribe(c)
    PROVE  \/ UNCHANGED mailbox /\ \E r \in Results : resolve(c.h, r)
           \/ /\ UNCHANGED handles
              /\ \E w \in Workers, d \in Cmds :
                    /\ d.h = c.h /\ d.type = "write" /\ hasRoom(w)
                    /\ mailbox' = [mailbox EXCEPT ![w] = Append(@, d)]
<1>1. PICK w \in Workers \union {0} : w = subscriptions[c.key]
  BY TypesHave DEF KeyType, UserCommand
<1>2. PICK d : d = WriteCommand("unsubscribe", c.key, c.h)
  OBVIOUS
<1>3. d \in Cmds /\ d.type = "write" /\ d.h = c.h
  <2>1. c.key \in Keys /\ c.h \in Handles
    BY DEF UserCommand
  <2> QED
    BY <1>2, <2>1, CmdTypes DEF WriteCommand
<1>4. {"notFound", "ok", "queueFull"} \subseteq Results
  BY DEF Results
<1>5. \/ UNCHANGED mailbox /\ \E r \in Results : resolve(c.h, r)
      \/ /\ w # 0 /\ hasRoom(w) /\ UNCHANGED handles
         /\ mailbox' = [mailbox EXCEPT ![w] = Append(@, d)]
  BY <1>1, <1>2, <1>4 DEF handleUnsubscribe
<1> QED
  BY <1>1, <1>3, <1>5

\* The mux handles a command.
LEMMA AnswerKeeps == ASSUME Types, HandleInv, handleCommand PROVE HandleInv'
<1>1. commandCh # << >> /\ commandCh' = Tail(commandCh)
  BY DEF handleCommand
<1>2. PICK c : c = Head(commandCh)
  OBVIOUS
<1>3. c \in UserCommand
  <2>1. commandCh \in Seq(UserCommand)
    BY TypesHave DEF ClientType
  <2> QED
    BY <1>1, <1>2, <2>1, Taken
<1>4. CASE muxState # "running"
  <2>1. resolve(c.h, "stopped") /\ UNCHANGED mailbox
    BY <1>2, <1>4 DEF handleCommand
  <2>2. "stopped" \in Results
    BY DEF Results
  <2> QED
    BY <1>1, <1>2, <2>1, <2>2, CommandKept
<1>5. CASE muxState = "running"
  <2>1. handleSubscribe(c) \/ handleUnsubscribe(c)
    BY <1>2, <1>5 DEF handleCommand
  <2>2. CASE handleSubscribe(c)
    BY <1>1, <1>2, <1>3, <2>2, SubscribeKeeps, CommandKept
  <2>3. CASE handleUnsubscribe(c)
    BY <1>1, <1>2, <1>3, <2>3, UnsubscribeKeeps, CommandKept
  <2> QED
    BY <2>1, <2>2, <2>3
<1> QED
  BY <1>4, <1>5

\* A worker takes a command: a dial, or one whose caller is answered.
LEMMA TakenKept ==
    ASSUME Types, HandleInv, NEW w \in Workers, NEW types, takeCommand(w, types),
           UNCHANGED commandCh,
           \/ types \subseteq Dials /\ UNCHANGED handles
           \/ \E r \in Results : resolve(Head(mailbox[w]).h, r)
    PROVE  HandleInv'
<1>1. HandleType /\ MailType
  BY TypesHave DEF ClientType
<1>2. PICK c : c = Head(mailbox[w])
  OBVIOUS
<1>3. /\ mailbox[w] # << >> /\ mailbox'[w] = Tail(mailbox[w]) /\ c.type \in types
      /\ \A v \in Workers : v # w => mailbox'[v] = mailbox[v]
      /\ mailbox[w] \in Seq(Cmds)
  BY <1>1, <1>2, MailShrinks DEF MailType
<1>4. \A h : Holds(mailbox[w], h) /\ h # c.h => Holds(mailbox'[w], h)
  BY <1>2, <1>3, HoldsTaken
<1>5. Bare(mailbox'[w])
  BY <1>3, BareTaken DEF HandleInv
<1>6. \A h : Kept(h) /\ h # c.h => Kept(h)'
  BY <1>3, <1>4 DEF Kept
<1>7. \A h \in Handles : handles'[h] = "pending" => handles[h] = "pending" /\ h # c.h
  <2>1. CASE types \subseteq Dials /\ UNCHANGED handles
    <3>1. c.type \in Dials /\ 1 \in DOMAIN mailbox[w] /\ c = mailbox[w][1]
      BY <1>2, <1>3, <2>1, Taken
    <3>2. c.h = NoHandle
      BY <3>1 DEF HandleInv, Bare
    <3>3. NoHandle \notin Handles
      BY DEF NoHandle, Handles
    <3> QED
      BY <2>1, <3>2, <3>3
  <2>2. ASSUME NEW r \in Results, resolve(c.h, r)
        PROVE  \A h \in Handles : handles'[h] = "pending" => handles[h] = "pending" /\ h # c.h
    <3>1. r # "pending" /\ NoHandle \notin Handles
      BY DEF Results, NoHandle, Handles
    <3>2. handles' = IF c.h # NoHandle /\ handles[c.h] = "pending"
                     THEN [handles EXCEPT ![c.h] = r] ELSE handles
      BY <2>2 DEF resolve
    <3> QED
      BY <1>1, <3>1, <3>2 DEF HandleType
  <2> QED
    BY <1>2, <2>1, <2>2
<1> QED
  BY <1>3, <1>5, <1>6, <1>7 DEF HandleInv

\* A caller asks.
LEMMA SubmitKept ==
    ASSUME Types, HandleInv, NEW kind \in {"subscribe", "unsubscribe"}, NEW key \in Keys,
           Submit(kind, key)
    PROVE  HandleInv'
<1>1. commandCh \in Seq(UserCommand) /\ HandleType
  BY TypesHave DEF ClientType
<1>2. PICK h \in Handles :
         /\ handles' = [handles EXCEPT ![h] = "pending"]
         /\ commandCh' = Append(commandCh, [kind |-> kind, key |-> key, h |-> h])
         /\ UNCHANGED mailbox
  BY DEF Submit
<1>3. PICK c : c = [kind |-> kind, key |-> key, h |-> h]
  OBVIOUS
<1>4. c \in UserCommand /\ c.h = h
  BY <1>3 DEF UserCommand
<1>5. \A g : Holds(commandCh, g) \/ g = h => Holds(commandCh', g)
  BY <1>1, <1>2, <1>3, <1>4, HoldsAdded
<1>6. \A g : Kept(g) \/ g = h => Kept(g)'
  BY <1>2, <1>5 DEF Kept
<1>7. \A g \in Handles : handles'[g] = "pending" => handles[g] = "pending" \/ g = h
  BY <1>1, <1>2 DEF HandleType
<1> QED
  BY <1>2, <1>6, <1>7 DEF HandleInv

\* What neither queue nor handle changes.
LEMMA SameKept ==
    ASSUME HandleInv, UNCHANGED <<handles, commandCh, mailbox>>
    PROVE  HandleInv'
BY DEF HandleInv, Kept

\* The mux's own commands are nobody's.
LEMMA OwnKept ==
    ASSUME Types, HandleInv, runReplay \/ sendReconnect \/ handlePingTick
    PROVE  HandleInv'
<1>1. UNCHANGED <<handles, commandCh>>
  BY DEF runReplay, sendReconnect, handlePingTick, clientVars
<1>2. CASE runReplay
  <2>1. muxPc.w \in Workers /\ (ReplaySent \/ UNCHANGED mailbox)
    BY <1>2, ReplayDoes
  <2>2. CASE UNCHANGED mailbox
    BY <1>1, <2>2, SameKept
  <2>3. ASSUME NEW c \in Cmds, hasRoom(muxPc.w), c.type = "replay",
               mailbox' = [mailbox EXCEPT ![muxPc.w] = Append(@, c)]
        PROVE  HandleInv'
    <3>1. PICK w \in Workers : w = muxPc.w
      BY <2>1
    <3>2. hasRoom(w) /\ c.type \notin Dials /\ mailbox' = [mailbox EXCEPT ![w] = Append(@, c)]
      BY <2>3, <3>1 DEF Dials
    <3> QED
      BY <1>1, <2>3, <3>2, MoreKept
  <2> QED
    BY <2>1, <2>2, <2>3 DEF ReplaySent
<1>3. CASE sendReconnect
  <2>1. PICK w \in Workers : w = muxPc.w
    BY <1>3, TypesHave DEF sendReconnect, PcType, MuxPcs
  <2>2. PICK c \in Cmds : c = Command("reconnect") /\ c.h = NoHandle
    BY CmdTypes DEF Command
  <2>3. hasRoom(w) /\ mailbox' = [mailbox EXCEPT ![w] = Append(@, c)]
    BY <1>3, <2>1, <2>2 DEF sendReconnect
  <2> QED
    BY <1>1, <2>2, <2>3, MoreKept
<1>4. CASE handlePingTick
  <2>1. PICK w : w = Head(sink).w
    OBVIOUS
  <2>2. takeEvent({"pingTick"})
    BY <1>4 DEF handlePingTick
  <2>3. w \in Workers /\ Head(sink).tag \in Nat
    BY <2>1, <2>2, EventTaken DEF Event
  <2>4. PICK c \in Cmds : c = PingCommand(Head(sink).tag) /\ c.h = NoHandle
    BY <2>3, CmdTypes DEF PingCommand
  <2>5. UNCHANGED mailbox \/ (hasRoom(w) /\ mailbox' = [mailbox EXCEPT ![w] = Append(@, c)])
    BY <1>4, <2>1, <2>4 DEF handlePingTick
  <2> QED
    BY <1>1, <2>3, <2>4, <2>5, MoreKept, SameKept
<1> QED
  BY <1>2, <1>3, <1>4

\* Every step keeps hold of the handles.
LEMMA HandlesStep == ASSUME Types, HandleInv, [Next]_vars PROVE HandleInv'
<1>1. CASE Client
  <2>1. CASE Stop \/ watchFatal
    BY <2>1, SameKept DEF Stop, watchFatal
  <2> QED
    BY <1>1, <2>1, SubmitKept DEF Client
<1>2. CASE handleCommand
  BY <1>2, AnswerKeeps
<1>3. CASE runReplay \/ sendReconnect \/ handlePingTick
  BY <1>3, OwnKept
<1>4. CASE \/ handleWorkerReady \/ startReconnect \/ handleWriteFailed
           \/ handleShutdown \/ drainEvent \/ closeSink
  BY <1>4, SameKept
  DEF handleWorkerReady, startReconnect, handleWriteFailed, handleShutdown, drainEvent,
      closeSink, clientVars
<1>5. ASSUME NEW w \in Workers, startDial(w) PROVE HandleInv'
  <2>1. /\ takeCommand(w, {"connect", "reconnect"}) /\ UNCHANGED <<handles, commandCh>>
        /\ {"connect", "reconnect"} \subseteq Dials
    BY <1>5 DEF startDial, clientVars, Dials
  <2> QED
    BY <2>1, TakenKept
<1>6. ASSUME NEW w \in Workers, NEW outcome \in Results, handleWrite(w, outcome)
      PROVE  HandleInv'
  <2>1. /\ takeCommand(w, {"write", "replay", "ping"}) /\ UNCHANGED commandCh
        /\ resolve(Head(mailbox[w]).h, outcome)
    BY <1>6 DEF handleWrite
  <2> QED
    BY <2>1, TakenKept
<1>7. ASSUME NEW w, dialOk(w) \/ dialFailed(w) \/ publishEvent(w) \/ workerExit(w) \/ connDies(w)
      PROVE  HandleInv'
  BY <1>7, SameKept DEF dialOk, dialFailed, publishEvent, workerExit, connDies, clientVars
<1>8. ASSUME NEW t, runPingTicker(t) \/ tickerExit(t) PROVE HandleInv'
  BY <1>8, SameKept DEF runPingTicker, tickerExit, clientVars
<1>9. ASSUME NEW r, readFails(r) \/ readerPublishes(r) PROVE HandleInv'
  BY <1>9, SameKept DEF readFails, readerPublishes, clientVars
<1>10. CASE UNCHANGED vars
  BY <1>10, SameKept DEF vars, clientVars
<1> QED
  BY <1>1, <1>2, <1>3, <1>4, <1>5, <1>6, <1>7, <1>8, <1>9, <1>10
  DEF Next, MuxLoop, handleIOWorkerEvent, WorkerLoop

\* A worker loop that has ended stays so; once the mux has stopped nothing reopens.
LEMMA EndStays ==
    ASSUME EndInv, closing' <=> closing, muxPc'.st = "stopped" <=> muxPc.st = "stopped",
           stopped => stopped', closing => commandCh' = << >>,
           UNCHANGED <<sinkClosed>>, muxState' = "stopped" <=> muxState = "stopped",
           muxPc.st = "stopped" => \A w \in Workers : wpc'[w].st = "exited"
    PROVE  EndInv'
BY DEF EndInv

\* A step of the mux, in its loop.
LEMMA LoopEnd ==
    ASSUME Types, EndInv,
           \/ handleCommand \/ handleIOWorkerEvent \/ runReplay \/ sendReconnect
    PROVE  EndInv'
<1>1. ~closing /\ ~closing' /\ muxPc.st # "stopped" /\ muxPc'.st # "stopped"
      /\ UNCHANGED <<stopped, sinkClosed>> /\ (muxState' = "stopped" <=> muxState = "stopped")
  <2>1. CASE handleCommand
    BY <2>1 DEF handleCommand, closing, LoopPc
  <2>2. CASE handleWorkerReady
    <3>1. muxPc = LoopPc /\ (muxPc' = LoopPc \/ muxPc'.st = "replay")
          /\ UNCHANGED <<stopped, sinkClosed, muxState>>
      BY <2>2 DEF handleWorkerReady, takeEvent, clientVars
    <3> QED
      BY <3>1 DEF closing, LoopPc
  <2>3. CASE startReconnect
    <3>1. muxPc = LoopPc /\ (muxPc' = LoopPc \/ muxPc'.st = "reconnect")
          /\ UNCHANGED <<stopped, sinkClosed, muxState>>
      BY <2>3 DEF startReconnect, takeEvent, clientVars
    <3> QED
      BY <3>1 DEF closing, LoopPc
  <2>4. CASE handlePingTick \/ handleWriteFailed
    BY <2>4 DEF handlePingTick, handleWriteFailed, takeEvent, clientVars, muxVars, closing, LoopPc
  <2>5. CASE runReplay
    <3>1. muxPc.st = "replay" /\ UNCHANGED <<stopped, sinkClosed, muxState>>
      BY <2>5 DEF runReplay, clientVars
    <3>2. muxPc' = LoopPc \/ muxPc'.st = "replay"
      BY <2>5, ReplayDoes
    <3> QED
      BY <3>1, <3>2 DEF closing, LoopPc
  <2>6. CASE sendReconnect
    BY <2>6 DEF sendReconnect, clientVars, closing, LoopPc
  <2> QED
    BY <2>1, <2>2, <2>3, <2>4, <2>5, <2>6 DEF handleIOWorkerEvent
<1> QED
  BY <1>1, EndStays

\* Every step keeps the order of the shutdown.
LEMMA EndStep == ASSUME Types, EndInv, [Next]_vars PROVE EndInv'
<1>1. CASE Client
  <2>1. CASE Stop \/ watchFatal
    BY <2>1 DEF EndInv, Stop, watchFatal, muxVars, closing
  <2>2. ASSUME NEW kind, NEW key, Submit(kind, key) PROVE EndInv'
    <3>1. ~closing /\ UNCHANGED <<muxPc, muxState, sinkClosed, wpc, stopped>>
      BY <2>2 DEF Submit, EndInv, muxVars
    <3> QED
      BY <3>1 DEF closing, EndInv
  <2> QED
    BY <1>1, <2>1, <2>2 DEF Client
<1>2. CASE handleCommand \/ handleIOWorkerEvent \/ runReplay \/ sendReconnect
  BY <1>2, LoopEnd
<1>3. CASE handleShutdown
  BY <1>3 DEF handleShutdown, EndInv, closing, LoopPc, clientVars
<1>4. CASE drainEvent
  BY <1>4 DEF drainEvent, EndInv, closing, muxVars, clientVars
<1>5. CASE closeSink
  BY <1>5 DEF closeSink, EndInv, closing, clientVars
<1>6. ASSUME NEW w \in Workers, WorkerLoop(w) \/ connDies(w) PROVE EndInv'
  <2>1. UNCHANGED <<muxPc, muxState, sinkClosed, stopped, commandCh>>
    BY <1>6
    DEF WorkerLoop, startDial, dialOk, dialFailed, publishEvent, handleWrite, workerExit, connDies,
        muxVars, clientVars
  <2>2. ASSUME NEW v \in Workers, wpc[v].st = "exited" PROVE wpc'[v].st = "exited"
    <3>1. CASE connDies(w)
      BY <2>2, <3>1 DEF connDies
    <3>2. CASE workerExit(w)
      BY <2>2, <3>2, ExitDoes
    <3>3. CASE startDial(w)
      BY <2>2, <3>3, DialDoes DEF startDial, takeCommand, IdlePc
    <3>4. CASE dialOk(w)
      BY <2>2, <3>4, DialOkDoes DEF dialOk
    <3>5. CASE dialFailed(w)
      BY <2>2, <3>5, DialFailedDoes DEF dialFailed
    <3>6. CASE publishEvent(w)
      BY <2>2, <3>6, PublishDoes DEF publishEvent
    <3>7. ASSUME NEW outcome \in Results, handleWrite(w, outcome) PROVE wpc'[v].st = "exited"
      BY <2>2, <3>7, WriteDoes DEF handleWrite, takeCommand, IdlePc
    <3> QED
      BY <1>6, <3>1, <3>2, <3>3, <3>4, <3>5, <3>6, <3>7 DEF WorkerLoop
  <2> QED
    BY <2>1, <2>2 DEF EndInv, closing
<1>7. ASSUME NEW t, runPingTicker(t) \/ tickerExit(t) PROVE EndInv'
  BY <1>7 DEF runPingTicker, tickerExit, EndInv, closing, muxVars, clientVars
<1>8. ASSUME NEW r, readFails(r) \/ readerPublishes(r) PROVE EndInv'
  BY <1>8 DEF readFails, readerPublishes, EndInv, closing, muxVars, clientVars
<1>9. CASE UNCHANGED vars
  BY <1>9 DEF vars, EndInv, closing, muxVars, clientVars
<1> QED
  BY <1>1, <1>2, <1>3, <1>4, <1>5, <1>6, <1>7, <1>8, <1>9 DEF Next, MuxLoop

\* No handle is pending when the client starts, and no dial has one.
LEMMA InitHandles == Init => HandleInv /\ EndInv
<1> SUFFICES ASSUME Init PROVE HandleInv /\ EndInv
  OBVIOUS
<1>1. \A h \in Handles : handles[h] # "pending"
  BY DEF Init
<1>2. ASSUME NEW w \in Workers PROVE Bare(mailbox[w])
  <2>1. PICK c \in Cmds : c = Command("connect") /\ c.h = NoHandle
    BY CmdTypes DEF Command
  <2>2. mailbox[w] = <<Command("connect")>>
    BY <1>2 DEF Init
  <2>3. mailbox[w] = <<c>>
    BY <2>1, <2>2
  <2>4. DOMAIN mailbox[w] = {1} /\ mailbox[w][1] = c
    BY <2>3
  <2> QED
    BY <2>1, <2>4 DEF Bare
<1>3. EndInv
  BY DEF Init, EndInv, closing, LoopPc
<1> QED
  BY <1>1, <1>2, <1>3 DEF HandleInv

\* Every handle that a caller waits on is with a command, and there is none when the
\* mux has ended.
HandlesKept ==
    /\ \A h \in Handles : handles[h] = "pending" => Kept(h)
    /\ muxState = "stopped" => \A h \in Handles : handles[h] # "pending"

\* No handle is lost: whatever becomes of the connections, a caller's command stays in
\* a queue until it is answered, and handleShutdown, closeSink and the worker loops
\* (mux.go, ioworker.go) leave no queue behind that still holds one. What is left to
\* CommandsResolved is that the goroutines that empty the queues do run.
THEOREM NoHandleLost == Spec => []HandlesKept
<1>1. Init => HandleInv /\ EndInv /\ MuxInv
  BY InitHandles, InitMuxInv
<1>2. HandleInv /\ EndInv /\ MuxInv /\ [Next]_vars => (HandleInv /\ EndInv /\ MuxInv)'
  BY HandlesStep, EndStep, StepMuxInv DEF MuxInv
<1>3. ASSUME HandleInv, EndInv, MuxInv PROVE HandlesKept
  <2> SUFFICES ASSUME muxState = "stopped", NEW h \in Handles PROVE ~Kept(h)
    BY <1>3 DEF HandlesKept, HandleInv
  <2>1. closing /\ commandCh = << >> /\ \A w \in Workers : wpc[w].st = "exited"
    BY <1>3 DEF EndInv, closing
  <2>2. \A w \in Workers : mailbox[w] = << >>
    BY <1>3, <2>1 DEF MuxInv, ConnInv
  <2> QED
    BY <2>1, <2>2 DEF Kept, Holds
<1> QED
  BY <1>1, <1>2, <1>3, PTL DEF Spec

-----------------------------------------------------------------------------
(* No worker is forgotten. Until the mux leaves its loop, every worker has  *)
(* a dial coming, a report on its way, a replay, or a read loop that will   *)
(* tell of the loss of its connection.                                      *)

FirstCmd(w) == \E i \in DOMAIN mailbox[w] : mailbox[w][i].type = "connect"
FirstDialing(w) == wpc[w].st = "dialing" /\ wpc[w].type = "connect"

\* The first dial, after whose failure the mux must begin to dial again.
FirstDial(w) ==
    \/ FirstCmd(w) \/ FirstDialing(w)
    \/ Telling(w, {"connectFailed"}) \/ Sunk(w, {"connectFailed"})

Watched(w) == LiveReader(w) \/ Sunk(w, {"disconnected"})

CareInv(w) ==
    ~closing =>
        /\ state[w] # "stopped"
        /\ state[w] = "connected" \/ Sunk(w, Ready) \/ Replaying(w) => Watched(w)
        /\ state[w] # "connected" => Coming(w) \/ Sunk(w, Reports) \/ Replaying(w)
        /\ state[w] # "connecting" => ~FirstDial(w)

-----------------------------------------------------------------------------
(* Frames: what a step must keep of a worker that it is not about.          *)

MailCare(w) == (DialCmd(w) => DialCmd(w)') /\ (FirstCmd(w)' => FirstCmd(w))

SinkCare(w) ==
    /\ Sunk(w, Ready)' => Sunk(w, Ready)
    /\ Sunk(w, Reports) => Sunk(w, Reports)'
    /\ Sunk(w, {"disconnected"}) => Sunk(w, {"disconnected"})'
    /\ Sunk(w, {"connectFailed"})' => Sunk(w, {"connectFailed"})

LoopCare(w) ==
    /\ Dialing(w) => Dialing(w)'
    /\ FirstDialing(w)' => FirstDialing(w)
    /\ Telling(w, Reports) => Telling(w, Reports)'
    /\ Telling(w, {"connectFailed"})' => Telling(w, {"connectFailed"})

PcCare(w) ==
    /\ Reconnecting(w) => Reconnecting(w)'
    /\ Replaying(w)' <=> Replaying(w)
    /\ closing => closing'
    /\ state'[w] = state[w]

LinkCare(w) == LiveReader(w) => LiveReader(w)'

\* A worker that a step leaves alone stays cared for.
LEMMA CareKeeps ==
    ASSUME NEW w, CareInv(w), MailCare(w), SinkCare(w), LoopCare(w), PcCare(w), LinkCare(w)
    PROVE  CareInv(w)'
<1> USE DEF MailCare, SinkCare, LoopCare, PcCare, LinkCare
<1>1. Watched(w) => Watched(w)'
  BY DEF Watched
<1>2. Coming(w) => Coming(w)'
  BY DEF Coming
<1>3. FirstDial(w)' => FirstDial(w)
  BY DEF FirstDial
<1> QED
  BY <1>1, <1>2, <1>3 DEF CareInv

\* After the mux has left its loop nothing is claimed.
LEMMA CareOver == ASSUME NEW w, closing' PROVE CareInv(w)'
BY DEF CareInv

\* A first dial is one that is coming.
LEMMA FirstComes ==
    ASSUME NEW w, ~Coming(w)
    PROVE  ~FirstCmd(w) /\ ~FirstDialing(w) /\ ~Telling(w, {"connectFailed"})
BY DEF Coming, FirstCmd, FirstDialing, DialCmd, Dialing, Telling, Dials, Reports

\* What stays of the mailbox keeps the worker cared for.
LEMMA MailCareStays ==
    ASSUME NEW w, mailbox'[w] = mailbox[w] PROVE MailCare(w)
BY DEF MailCare, DialCmd, FirstCmd

\* A command that is no first dial is added.
LEMMA MailCareAdded ==
    ASSUME MailType, NEW w \in Workers, NEW c \in Cmds, mailbox'[w] = Append(mailbox[w], c),
           c.type # "connect"
    PROVE  MailCare(w) /\ (c.type \in Dials => DialCmd(w)')
<1>1. PICK q : q = mailbox[w]
  OBVIOUS
<1>2. PICK n : n = Len(q) + 1
  OBVIOUS
<1>3. PICK r : r = mailbox'[w]
  OBVIOUS
<1>4. r[n] = c /\ \A i \in DOMAIN r : (i \in DOMAIN q /\ r[i] = q[i]) \/ i = n
  <2>1. q \in Seq(Cmds) /\ r = Append(q, c)
    BY <1>1, <1>3 DEF MailType
  <2> QED
    BY <1>2, <2>1, Added
<1>5. FirstCmd(w)' <=> \E i \in DOMAIN r : r[i].type = "connect"
  BY <1>3 DEF FirstCmd
<1>6. FirstCmd(w) <=> \E i \in DOMAIN q : q[i].type = "connect"
  BY <1>1 DEF FirstCmd
<1> QED
  BY <1>4, <1>5, <1>6, MailAdded DEF MailCare

\* A command is taken: no first dial appears, and only a dial that is taken goes.
LEMMA MailCareTaken ==
    ASSUME MailType, NEW w \in Workers, mailbox[w] # << >>, mailbox'[w] = Tail(mailbox[w])
    PROVE  /\ FirstCmd(w)' => FirstCmd(w)
           /\ Head(mailbox[w]).type \notin Dials => MailCare(w)
           /\ Head(mailbox[w]).type = "connect" => FirstCmd(w)
           /\ Head(mailbox[w]).type \in Dials => DialCmd(w)
<1>1. PICK q : q = mailbox[w]
  OBVIOUS
<1>2. PICK r : r = mailbox'[w]
  OBVIOUS
<1>3. /\ \A i \in DOMAIN r : i + 1 \in DOMAIN q /\ r[i] = q[i + 1]
      /\ \A i \in DOMAIN q : i # 1 => i - 1 \in DOMAIN r /\ r[i - 1] = q[i]
      /\ Head(q) = q[1] /\ 1 \in DOMAIN q
  <2>1. q \in Seq(Cmds) /\ q # << >> /\ r = Tail(q)
    BY <1>1, <1>2 DEF MailType
  <2> QED
    BY <2>1, Taken
<1>4. /\ FirstCmd(w)' <=> \E i \in DOMAIN r : r[i].type = "connect"
      /\ DialCmd(w)' <=> \E i \in DOMAIN r : r[i].type \in Dials
  BY <1>2 DEF FirstCmd, DialCmd
<1>5. /\ FirstCmd(w) <=> \E i \in DOMAIN q : q[i].type = "connect"
      /\ DialCmd(w) <=> \E i \in DOMAIN q : q[i].type \in Dials
  BY <1>1 DEF FirstCmd, DialCmd
<1> QED
  BY <1>1, <1>3, <1>4, <1>5 DEF MailCare

\* The same of the events,
LEMMA SinkCareStays ==
    ASSUME UNCHANGED sink, NEW w PROVE SinkCare(w)
BY SinkStays DEF SinkCare

\* The mux takes an event that is not of this worker's life.
LEMMA SinkCareTaken ==
    ASSUME SinkType, sink # << >>, sink' = Tail(sink), NEW w,
           Head(sink).w # w \/ Head(sink).kind \notin Life
    PROVE  SinkCare(w)
<1>1. Head(sink).kind \notin Life => /\ Head(sink).kind \notin Ready
                                     /\ Head(sink).kind \notin Reports
                                     /\ Head(sink).kind \notin {"disconnected"}
                                     /\ Head(sink).kind \notin {"connectFailed"}
  BY DEF Life, Reports, Ready
<1> QED
  BY <1>1, SinkTaken DEF SinkCare

\* An event is sent that is not of this worker's life, or is the loss of a connection.
LEMMA SinkCareAdded ==
    ASSUME SinkType, NEW e \in Event, sink' = Append(sink, e), NEW w,
           e.w # w \/ e.kind \notin Reports
    PROVE  SinkCare(w)
<1>1. e.kind \notin Reports => e.kind \notin Ready /\ e.kind \notin {"connectFailed"}
  BY DEF Reports, Ready
<1> QED
  BY <1>1, SinkAdded DEF SinkCare

\* of the worker's loop,
LEMMA LoopCareStays ==
    ASSUME NEW w, wpc'[w] = wpc[w] PROVE LoopCare(w)
BY DEF LoopCare, Dialing, FirstDialing, Telling

\* of the mux's loop,
LEMMA PcCareStays ==
    ASSUME NEW w, UNCHANGED <<muxPc, state>> PROVE PcCare(w)
BY DEF PcCare, Reconnecting, Replaying, closing

\* of a connection that stays one, and of read loops that stay.
LEMMA LinkCareStays ==
    ASSUME NEW w, readers \subseteq readers', conn'[w].gen = conn[w].gen,
           conn[w].st # "nil" => conn'[w].st # "nil"
    PROVE  LinkCare(w)
BY DEF LinkCare, LiveReader, Reporter

-----------------------------------------------------------------------------
(* Every step keeps every worker cared for.                                 *)

AllCare == \A w \in Workers : CareInv(w)

\* The other workers, when one worker's goroutines take a step.
LEMMA OthersCare ==
    ASSUME NEW v, CareInv(v), UNCHANGED <<muxPc, state>>, mailbox'[v] = mailbox[v],
           wpc'[v] = wpc[v], SinkCare(v), LinkCare(v)
    PROVE  CareInv(v)'
BY MailCareStays, LoopCareStays, PcCareStays, CareKeeps

\* The callers, and a step in which only they and the flags change.
LEMMA IdleCare ==
    ASSUME AllCare, UNCHANGED <<sink, mailbox, wpc, conn, readers, muxPc, state>>
    PROVE  AllCare'
<1>1. ASSUME NEW v \in Workers PROVE CareInv(v)'
  BY SinkCareStays, LinkCareStays, OthersCare DEF AllCare
<1> QED
  BY <1>1 DEF AllCare

\* The mux handles a command.
LEMMA CommandCare == ASSUME Types, AllCare, handleCommand PROVE AllCare'
<1>1. MailType /\ (WriteSent \/ UNCHANGED mailbox)
  BY TypesHave, CommandDoes
<1>2. UNCHANGED <<sink, wpc, conn, readers, muxPc, state>>
  BY DEF handleCommand, connVars
<1>3. ASSUME NEW w \in Workers, NEW c \in Cmds, hasRoom(w), c.type = "write",
             mailbox' = [mailbox EXCEPT ![w] = Append(@, c)]
      PROVE  AllCare'
  <2>1. mailbox'[w] = Append(mailbox[w], c) /\ \A v \in Workers : v # w => mailbox'[v] = mailbox[v]
    BY <1>1, <1>3, MailGrows
  <2>2. ASSUME NEW v \in Workers PROVE CareInv(v)'
    <3>1. MailCare(v)
      BY <1>1, <1>3, <2>1, MailCareStays, MailCareAdded
    <3> QED
      BY <1>2, <3>1, SinkCareStays, LoopCareStays, PcCareStays, LinkCareStays, CareKeeps DEF AllCare
  <2> QED
    BY <2>2 DEF AllCare
<1> QED
  BY <1>1, <1>2, <1>3, IdleCare DEF WriteSent

\* The mux takes an event that is of no worker's life; it may forward a tick.
LEMMA DropCare ==
    ASSUME Types, AllCare, handlePingTick \/ handleWriteFailed
    PROVE  AllCare'
<1>1. SinkType /\ MailType
  BY TypesHave
<1>2. /\ UNCHANGED <<wpc, conn, readers, muxPc, state>>
      /\ takeEvent({"pingTick"}) \/ takeEvent({"encodeFailed", "notConnected"})
  BY DEF handlePingTick, handleWriteFailed, connVars, muxVars
<1>3. /\ sink # << >> /\ sink' = Tail(sink) /\ Head(sink).w \in Workers /\ Head(sink).tag \in Nat
      /\ Head(sink).kind \notin Life
  BY <1>2, EventTaken DEF Event, Life, Reports, Ready
<1>4. ASSUME NEW v \in Workers PROVE MailCare(v)
  <2>1. CASE handleWriteFailed
    BY <2>1, MailCareStays DEF handleWriteFailed
  <2>2. CASE handlePingTick
    <3>1. PICK w \in Workers : w = Head(sink).w
      BY <1>3
    <3>2. PICK c \in Cmds : c = PingCommand(Head(sink).tag) /\ c.type = "ping"
      BY <1>3, CmdTypes DEF PingCommand
    <3>3. UNCHANGED mailbox \/ (hasRoom(w) /\ mailbox' = [mailbox EXCEPT ![w] = Append(@, c)])
      BY <2>2, <3>1, <3>2 DEF handlePingTick
    <3>4. CASE hasRoom(w) /\ mailbox' = [mailbox EXCEPT ![w] = Append(@, c)]
      <4>1. /\ mailbox'[w] = Append(mailbox[w], c)
            /\ \A u \in Workers : u # w => mailbox'[u] = mailbox[u]
        BY <1>1, <3>4, MailGrows
      <4> QED
        BY <1>1, <3>2, <4>1, MailCareStays, MailCareAdded
    <3> QED
      BY <3>3, <3>4, MailCareStays
  <2> QED
    BY <2>1, <2>2
<1>5. ASSUME NEW v \in Workers PROVE CareInv(v)'
  BY <1>1, <1>2, <1>3, <1>4, SinkCareTaken, LoopCareStays, PcCareStays, LinkCareStays, CareKeeps
  DEF AllCare
<1> QED
  BY <1>5 DEF AllCare

\* The mux has left its loop.
LEMMA OverCare ==
    ASSUME handleShutdown \/ drainEvent \/ closeSink
    PROVE  AllCare'
<1>1. closing'
  BY DEF handleShutdown, drainEvent, closeSink, muxVars, closing
<1> QED
  BY <1>1, CareOver DEF AllCare

\* A heartbeat ticks or ends.
LEMMA TickerCare ==
    ASSUME Types, AllCare, NEW t \in tickers, runPingTicker(t) \/ tickerExit(t)
    PROVE  AllCare'
<1>1. SinkType /\ RunType
  BY TypesHave
<1>2. UNCHANGED <<mailbox, wpc, conn, readers, muxPc, state>>
  BY DEF runPingTicker, tickerExit, muxVars, connVars
<1>3. CASE tickerExit(t)
  BY <1>2, <1>3, IdleCare DEF tickerExit
<1>4. CASE runPingTicker(t)
  <2>1. t.w \in Workers /\ t.epoch \in Nat
    BY <1>1 DEF RunType, Ticker
  <2>2. PICK e \in Event : sink' = Append(sink, e) /\ e.kind = "pingTick"
    <3>1. event("pingTick", t.w, t.epoch) \in Event
      BY <2>1 DEF Event, event
    <3>2. event("pingTick", t.w, t.epoch).kind = "pingTick"
      BY DEF event
    <3> QED
      BY <1>4, <3>1, <3>2 DEF runPingTicker
  <2>3. e.kind \notin Reports
    BY <2>2 DEF Reports, Ready
  <2>4. ASSUME NEW v \in Workers PROVE CareInv(v)'
    BY <1>1, <1>2, <2>2, <2>3, SinkCareAdded, LinkCareStays, OthersCare DEF AllCare
  <2> QED
    BY <2>4 DEF AllCare
<1> QED
  BY <1>3, <1>4

\* The worker a report or a loss is about, when the mux takes it.
LEMMA TakenAlone ==
    ASSUME MuxInv, NEW w, w = Head(sink).w, w \in Workers, sink # << >>, sink' = Tail(sink),
           Head(sink).kind \in Life
    PROVE  /\ ~Coming(w) /\ ~Sunk(w, Ready)' /\ ~Sunk(w, Reports)' /\ ~Sunk(w, {"connectFailed"})'
           /\ Sunk(w, {Head(sink).kind})
<1>1. SinkType /\ SinkInv /\ RoundInv(w)
  BY TypesHave DEF MuxInv
<1>2. Sunk(w, Life) /\ Sunk(w, {Head(sink).kind})
  BY <1>1, SinkTaken
<1>3. ~Sunk(w, Reports)' /\ ~Sunk(w, Ready)'
  BY <1>1, HeadAlone
<1>4. ~Sunk(w, {"connectFailed"})'
  BY <1>3 DEF Sunk, Reports
<1> QED
  BY <1>1, <1>2, <1>3, <1>4 DEF RoundInv

\* A connection is reported: its read loop watches it, or has told of its loss.
LEMMA WorkerReadyCare == ASSUME MuxInv, AllCare, handleWorkerReady PROVE AllCare'
<1>1. Types /\ SinkType /\ RunType
  BY TypesHave DEF MuxInv
<1>2. PICK w : w = Head(sink).w
  OBVIOUS
<1>3. /\ takeEvent({"connected", "reconnected"})
      /\ UNCHANGED <<mailbox, wpc, conn, readers>>
      /\ \/ muxPc' = LoopPc /\ becomeReady(w)
         \/ muxPc'.st = "replay" /\ muxPc'.w = w /\ UNCHANGED state
  BY <1>2 DEF handleWorkerReady, connVars
<1>4. /\ w \in Workers /\ sink # << >> /\ sink' = Tail(sink) /\ muxPc = LoopPc
      /\ Head(sink).kind \in Ready
  BY <1>1, <1>2, <1>3, EventTaken DEF Ready
<1>5. Head(sink).kind \in Life /\ Head(sink).kind \notin {"disconnected"}
  BY <1>4 DEF Life, Reports, Ready
<1>6. ~closing /\ ~closing'
  BY <1>3, <1>4 DEF closing, LoopPc
<1>7. /\ \A v \in Workers : v # w => state'[v] = state[v]
      /\ state'[w] = "connected" \/ (Replaying(w)' /\ state'[w] = state[w])
  BY <1>1, <1>3, <1>4, BecomeDoes DEF Replaying
<1>8. \A v \in Workers : /\ ~Reconnecting(v) /\ ~Replaying(v)
                         /\ v # w => ~Replaying(v)'
  BY <1>3, <1>4 DEF Reconnecting, Replaying, LoopPc
<1>9. ASSUME NEW v \in Workers, v # w PROVE CareInv(v)'
  <2>1. PcCare(v)
    BY <1>6, <1>7, <1>8, <1>9 DEF PcCare
  <2> QED
    BY <1>1, <1>2, <1>3, <1>4, <1>9, <2>1, MailCareStays, SinkCareTaken, LoopCareStays,
       LinkCareStays, CareKeeps DEF AllCare
<1>10. CareInv(w)'
  <2>1. /\ ~Coming(w) /\ ~Sunk(w, Ready)' /\ ~Sunk(w, Reports)' /\ ~Sunk(w, {"connectFailed"})'
        /\ Sunk(w, {Head(sink).kind})
    BY <1>2, <1>4, <1>5, TakenAlone
  <2>2. Sunk(w, Ready)
    BY <1>4, <2>1 DEF Sunk
  <2>3. Watched(w) /\ state[w] # "stopped"
    BY <1>4, <1>6, <2>2 DEF AllCare, CareInv
  <2>4. Watched(w)'
    <3>1. Sunk(w, {"disconnected"})' <=> Sunk(w, {"disconnected"})
      BY <1>1, <1>4, <1>5, SinkTaken
    <3>2. LinkCare(w)
      BY <1>3, LinkCareStays
    <3> QED
      BY <2>3, <3>1, <3>2 DEF Watched, LinkCare
  <2>5. ~FirstDial(w)'
    <3>1. MailCare(w) /\ LoopCare(w)
      BY <1>3, MailCareStays, LoopCareStays
    <3> QED
      BY <2>1, <3>1, FirstComes DEF FirstDial, MailCare, LoopCare
  <2> QED
    BY <1>7, <2>3, <2>4, <2>5 DEF CareInv
<1> QED
  BY <1>9, <1>10 DEF AllCare

\* A step of a replay: the connection it is for is watched meanwhile.
LEMMA ReplayCare == ASSUME MuxInv, AllCare, runReplay PROVE AllCare'
<1>1. Types /\ MailType /\ RunType /\ \A v \in Workers : RoundInv(v)
  BY TypesHave DEF MuxInv
<1>2. PICK w \in Workers : w = muxPc.w
  BY <1>1, ReplayDoes
<1>3. UNCHANGED <<sink, wpc, conn, readers>> /\ muxPc.st = "replay"
  BY DEF runReplay, connVars
<1>4. /\ ReplaySent \/ UNCHANGED mailbox
      /\ \/ muxPc' = LoopPc /\ becomeReady(w)
         \/ muxPc'.st = "replay" /\ muxPc'.w = w /\ UNCHANGED state
  BY <1>1, <1>2, ReplayDoes
<1>5. ~closing /\ ~closing'
  BY <1>3, <1>4 DEF closing, LoopPc
<1>6. /\ \A v \in Workers : v # w => state'[v] = state[v]
      /\ state'[w] = "connected" \/ (Replaying(w)' /\ state'[w] = state[w])
  BY <1>1, <1>2, <1>4, BecomeDoes DEF Replaying
<1>7. /\ Replaying(w)
      /\ \A v \in Workers : ~Reconnecting(v) /\ (v # w => ~Replaying(v) /\ ~Replaying(v)')
  BY <1>2, <1>3, <1>4 DEF Reconnecting, Replaying, LoopPc
<1>8. ASSUME NEW v \in Workers PROVE MailCare(v)
  <2>1. CASE UNCHANGED mailbox
    BY <2>1, MailCareStays
  <2>2. ASSUME NEW c \in Cmds, hasRoom(w), c.type = "replay",
               mailbox' = [mailbox EXCEPT ![w] = Append(@, c)]
        PROVE  MailCare(v)
    <3>1. /\ mailbox'[w] = Append(mailbox[w], c)
          /\ \A u \in Workers : u # w => mailbox'[u] = mailbox[u]
      BY <1>1, <2>2, MailGrows
    <3> QED
      BY <1>1, <2>2, <3>1, MailCareStays, MailCareAdded
  <2> QED
    BY <1>2, <1>4, <2>1, <2>2 DEF ReplaySent
<1>9. ASSUME NEW v \in Workers
      PROVE  SinkCare(v) /\ LoopCare(v) /\ LinkCare(v)
  BY <1>3, SinkCareStays, LoopCareStays, LinkCareStays
<1>10. ASSUME NEW v \in Workers, v # w PROVE CareInv(v)'
  <2>1. PcCare(v)
    BY <1>5, <1>6, <1>7, <1>10 DEF PcCare
  <2> QED
    BY <1>8, <1>9, <2>1, CareKeeps DEF AllCare
<1>11. CareInv(w)'
  <2>1. ~Coming(w) /\ ~Sunk(w, Reports)
    BY <1>1, <1>7 DEF RoundInv
  <2>2. ~Sunk(w, {"connectFailed"})
    BY <2>1 DEF Sunk, Reports
  <2>3. Watched(w) /\ state[w] # "stopped"
    BY <1>5, <1>7 DEF AllCare, CareInv
  <2>4. Watched(w)'
    BY <1>9, <2>3 DEF Watched, SinkCare, LinkCare
  <2>5. ~FirstDial(w)'
    BY <1>8, <1>9, <2>1, <2>2, FirstComes DEF FirstDial, MailCare, LoopCare, SinkCare
  <2> QED
    BY <1>6, <2>3, <2>4, <2>5 DEF CareInv
<1> QED
  BY <1>10, <1>11 DEF AllCare

\* A report of a failure or of a loss is never passed over: the mux begins to dial.
LEMMA ReconnectCare == ASSUME MuxInv, AllCare, startReconnect PROVE AllCare'
<1>1. Types /\ SinkType /\ RunType
  BY TypesHave DEF MuxInv
<1>2. PICK w : w = Head(sink).w
  OBVIOUS
<1>3. /\ takeEvent({"connectFailed", "disconnected"})
      /\ UNCHANGED <<mailbox, wpc, conn, readers>>
      /\ \/ state[w] \in {"reconnecting", "stopped"}
         \/ state' = [state EXCEPT ![w] = "reconnecting"] /\ muxPc' = [st |-> "reconnect", w |-> w]
  BY <1>2 DEF startReconnect, connVars
<1>4. /\ w \in Workers /\ sink # << >> /\ sink' = Tail(sink) /\ muxPc = LoopPc
      /\ Head(sink).kind \in {"connectFailed", "disconnected"}
  BY <1>1, <1>2, <1>3, EventTaken
<1>5. Head(sink).kind \in Life /\ Head(sink).kind \notin Ready
  BY <1>4 DEF Life, Reports, Ready
<1>6. ~closing /\ \A v \in Workers : ~Reconnecting(v) /\ ~Replaying(v)
  BY <1>4 DEF closing, Reconnecting, Replaying, LoopPc
<1>7. /\ ~Coming(w) /\ ~Sunk(w, Ready)' /\ ~Sunk(w, Reports)' /\ ~Sunk(w, {"connectFailed"})'
      /\ Sunk(w, {Head(sink).kind})
  BY <1>2, <1>4, <1>5, TakenAlone
<1>8. state[w] \notin {"reconnecting", "stopped"}
  <2>1. state[w] # "stopped" /\ (state[w] # "connected" => Sunk(w, Reports))
        /\ (state[w] # "connecting" => ~FirstDial(w))
    BY <1>4, <1>6, <1>7 DEF AllCare, CareInv
  <2>2. CASE Head(sink).kind = "connectFailed"
    BY <1>7, <2>1, <2>2 DEF FirstDial
  <2>3. CASE Head(sink).kind = "disconnected"
    <3>1. "disconnected" \notin Reports
      BY DEF Reports, Ready
    <3>2. Sunk(w, Reports)' <=> Sunk(w, Reports)
      BY <1>1, <1>4, <2>3, <3>1, SinkTaken
    <3> QED
      BY <1>7, <2>1, <3>2
  <2> QED
    BY <1>4, <2>2, <2>3
<1>9. state' = [state EXCEPT ![w] = "reconnecting"] /\ muxPc' = [st |-> "reconnect", w |-> w]
  BY <1>3, <1>8
<1>10. state'[w] = "reconnecting" /\ \A v \in Workers : v # w => state'[v] = state[v]
  BY <1>1, <1>4, <1>9 DEF RunType
<1>11. /\ ~closing' /\ Reconnecting(w)'
       /\ \A v \in Workers : ~Replaying(v)'
  BY <1>9 DEF closing, Reconnecting, Replaying
<1>12. ASSUME NEW v \in Workers, v # w PROVE CareInv(v)'
  <2>1. PcCare(v)
    BY <1>6, <1>10, <1>11, <1>12 DEF PcCare
  <2> QED
    BY <1>1, <1>2, <1>3, <1>4, <1>12, <2>1, MailCareStays, SinkCareTaken, LoopCareStays,
       LinkCareStays, CareKeeps DEF AllCare
<1>13. CareInv(w)'
  <2>1. MailCare(w) /\ LoopCare(w)
    BY <1>3, MailCareStays, LoopCareStays
  <2>2. ~FirstDial(w)'
    BY <1>7, <2>1, FirstComes DEF FirstDial, MailCare, LoopCare
  <2>3. Coming(w)'
    BY <1>11 DEF Coming
  <2> QED
    BY <1>4, <1>7, <1>10, <1>11, <2>2, <2>3 DEF CareInv
<1> QED
  BY <1>12, <1>13 DEF AllCare

\* The order to dial again is sent.
LEMMA SendReconnectCare == ASSUME Types, AllCare, sendReconnect PROVE AllCare'
<1>1. MailType /\ PcType
  BY TypesHave
<1>2. PICK w \in Workers : w = muxPc.w
  BY <1>1 DEF sendReconnect, PcType, MuxPcs
<1>3. PICK c \in Cmds : c = Command("reconnect") /\ c.type = "reconnect"
  BY CmdTypes DEF Command
<1>4. /\ hasRoom(w) /\ mailbox' = [mailbox EXCEPT ![w] = Append(@, c)]
      /\ muxPc.st = "reconnect" /\ muxPc' = LoopPc
      /\ UNCHANGED <<sink, wpc, conn, readers, state>>
  BY <1>2, <1>3 DEF sendReconnect, connVars
<1>5. /\ mailbox'[w] = Append(mailbox[w], c)
      /\ \A v \in Workers : v # w => mailbox'[v] = mailbox[v]
  BY <1>1, <1>4, MailGrows
<1>6. c.type \in Dials /\ c.type # "connect"
  BY <1>3 DEF Dials
<1>7. ASSUME NEW v \in Workers
      PROVE  MailCare(v) /\ SinkCare(v) /\ LoopCare(v) /\ LinkCare(v)
  BY <1>1, <1>4, <1>5, <1>6, MailCareStays, MailCareAdded, SinkCareStays, LoopCareStays,
     LinkCareStays
<1>8. /\ ~closing /\ ~closing' /\ \A v \in Workers : ~Replaying(v) /\ ~Replaying(v)'
      /\ \A v \in Workers : v # w => ~Reconnecting(v)
  BY <1>2, <1>4 DEF closing, Replaying, Reconnecting, LoopPc
<1>9. ASSUME NEW v \in Workers, v # w PROVE CareInv(v)'
  <2>1. PcCare(v)
    BY <1>4, <1>8, <1>9 DEF PcCare
  <2> QED
    BY <1>7, <2>1, CareKeeps DEF AllCare
<1>10. CareInv(w)'
  <2>1. DialCmd(w)' /\ Coming(w)'
    BY <1>1, <1>5, <1>6, MailCareAdded DEF Coming
  <2>2. (Watched(w) => Watched(w)') /\ (FirstDial(w)' => FirstDial(w))
    BY <1>7 DEF Watched, FirstDial, MailCare, SinkCare, LoopCare, LinkCare
  <2>3. Sunk(w, Ready)' => Sunk(w, Ready)
    BY <1>7 DEF SinkCare
  <2> QED
    BY <1>4, <1>8, <2>1, <2>2, <2>3 DEF AllCare, CareInv
<1> QED
  BY <1>9, <1>10 DEF AllCare

\* The dial begins.
LEMMA DialCare == ASSUME MuxInv, AllCare, NEW w \in Workers, startDial(w) PROVE AllCare'
<1>1. Types /\ MailType /\ LinkType /\ RoundInv(w)
  BY TypesHave DEF MuxInv
<1>2. /\ takeCommand(w, {"connect", "reconnect"})
      /\ UNCHANGED <<sink, readers, muxPc, state>>
  BY DEF startDial, muxVars
<1>3. /\ mailbox[w] # << >> /\ mailbox'[w] = Tail(mailbox[w])
      /\ \A v \in Workers : v # w => mailbox'[v] = mailbox[v]
      /\ Head(mailbox[w]).type \in Dials
  BY <1>1, <1>2, MailShrinks DEF Dials
<1>4. \A v \in Workers : v # w => conn'[v] = conn[v] /\ wpc'[v] = wpc[v]
  BY <1>1, DialDoes
<1>5. ASSUME NEW v \in Workers, v # w PROVE CareInv(v)'
  BY <1>2, <1>3, <1>4, <1>5, SinkCareStays, LinkCareStays, OthersCare DEF AllCare
<1>6. CareInv(w)'
  <2>1. /\ FirstCmd(w)' => FirstCmd(w)
        /\ Head(mailbox[w]).type = "connect" => FirstCmd(w)
        /\ DialCmd(w)
    BY <1>1, <1>3, MailCareTaken
  <2>2. ~Sunk(w, Life) /\ ~Replaying(w) /\ state[w] # "connected"
    BY <1>1, <2>1 DEF RoundInv, Coming
  <2>3. ~Sunk(w, Ready) /\ ~Sunk(w, {"connectFailed"})
    BY <2>2 DEF Sunk, Life, Reports
  <2>4. SinkCare(w) /\ PcCare(w)
    BY <1>2, SinkCareStays, PcCareStays
  <2>5. wpc'[w] = [st |-> "dialing", type |-> Head(mailbox[w]).type]
    BY <1>1 DEF startDial, LinkType
  <2>6. wpc'[w].st = "dialing" /\ wpc'[w].type = Head(mailbox[w]).type
    BY <2>5
  <2>7. Coming(w)'
    BY <2>6 DEF Coming, Dialing
  <2>8. FirstDial(w)' => FirstDial(w)
    BY <2>1, <2>3, <2>4, <2>6 DEF FirstDial, FirstDialing, Telling, SinkCare
  <2>9. ~Sunk(w, Ready)' /\ ~Replaying(w)' /\ state'[w] = state[w] /\ (closing => closing')
    BY <2>2, <2>3, <2>4 DEF SinkCare, PcCare
  <2> QED
    BY <2>2, <2>7, <2>8, <2>9 DEF AllCare, CareInv
<1> QED
  BY <1>5, <1>6 DEF AllCare

\* The dial succeeds: the connection is about to be reported.
LEMMA DialOkCare == ASSUME MuxInv, AllCare, NEW w \in Workers, dialOk(w) PROVE AllCare'
<1>1. Types /\ RoundInv(w)
  BY DEF MuxInv
<1>2. /\ wpc'[w].st = "publish" /\ wpc'[w].ev.kind \in Ready /\ wpc[w].st = "dialing"
      /\ \A v \in Workers : v # w => conn'[v] = conn[v] /\ wpc'[v] = wpc[v]
      /\ UNCHANGED <<sink, mailbox, readers, muxPc, state>>
  BY <1>1, DialOkDoes DEF dialOk, muxVars
<1>3. ASSUME NEW v \in Workers, v # w PROVE CareInv(v)'
  BY <1>2, <1>3, SinkCareStays, LinkCareStays, OthersCare DEF AllCare
<1>4. CareInv(w)'
  <2>1. ~Sunk(w, Life) /\ ~Replaying(w) /\ state[w] # "connected"
    BY <1>1, <1>2 DEF RoundInv, Coming, Dialing
  <2>2. ~Sunk(w, Ready)
    BY <2>1 DEF Sunk, Life, Reports
  <2>3. MailCare(w) /\ SinkCare(w) /\ PcCare(w)
    BY <1>2, MailCareStays, SinkCareStays, PcCareStays
  <2>4. Coming(w)' /\ ~Telling(w, {"connectFailed"})' /\ ~FirstDialing(w)'
    BY <1>2 DEF Coming, Telling, FirstDialing, Reports, Ready
  <2>5. FirstDial(w)' => FirstDial(w)
    BY <2>3, <2>4 DEF FirstDial, MailCare, SinkCare
  <2>6. ~Sunk(w, Ready)' /\ ~Replaying(w)' /\ state'[w] = state[w] /\ (closing => closing')
    BY <2>1, <2>2, <2>3 DEF SinkCare, PcCare
  <2> QED
    BY <2>1, <2>4, <2>5, <2>6 DEF AllCare, CareInv
<1> QED
  BY <1>3, <1>4 DEF AllCare

\* The dial fails: the first one is about to be reported, and only shutdown gives up
\* another.
LEMMA DialFailedCare == ASSUME MuxInv, AllCare, NEW w \in Workers, dialFailed(w) PROVE AllCare'
<1>1. Types /\ RoundInv(w)
  BY DEF MuxInv
<1>2. /\ \A v \in Workers : v # w => wpc'[v] = wpc[v]
      /\ wpc[w].st = "dialing" /\ UNCHANGED <<sink, mailbox, conn, readers, muxPc, state>>
  BY <1>1, DialFailedDoes DEF dialFailed, muxVars, connVars
<1>3. ASSUME NEW v \in Workers, v # w PROVE CareInv(v)'
  BY <1>2, <1>3, SinkCareStays, LinkCareStays, OthersCare DEF AllCare
<1>4. CASE closing
  <2>1. closing'
    BY <1>2, <1>4 DEF closing
  <2> QED
    BY <2>1, CareOver DEF AllCare
<1>5. CASE ~closing
  <2>1. wpc[w].type = "connect"
        /\ wpc' = [wpc EXCEPT ![w] = [st |-> "publish",
                                      ev |-> event("connectFailed", w, conn[w].gen)]]
    BY <1>5 DEF dialFailed
  <2>2. PICK p : p = [st |-> "publish", ev |-> event("connectFailed", w, conn[w].gen)]
    OBVIOUS
  <2>3. p.st = "publish" /\ p.ev.kind = "connectFailed"
    BY <2>2 DEF event
  <2>4. wpc'[w] = p
    BY <1>1, <2>1, <2>2, TypesHave DEF LinkType
  <2>5. ~Sunk(w, Life) /\ ~Replaying(w) /\ state[w] # "connected" /\ FirstDial(w)
    BY <1>1, <1>2, <2>1 DEF RoundInv, Coming, Dialing, FirstDial, FirstDialing
  <2>6. ~Sunk(w, Ready)
    BY <2>5 DEF Sunk, Life, Reports
  <2>7. SinkCare(w) /\ PcCare(w)
    BY <1>2, SinkCareStays, PcCareStays
  <2>8. Coming(w)'
    BY <2>3, <2>4 DEF Coming, Telling, Reports
  <2>9. ~Sunk(w, Ready)' /\ ~Replaying(w)' /\ state'[w] = state[w]
    BY <2>5, <2>6, <2>7 DEF SinkCare, PcCare
  <2>10. CareInv(w)'
    BY <1>5, <2>5, <2>8, <2>9 DEF AllCare, CareInv
  <2> QED
    BY <1>3, <2>10 DEF AllCare
<1> QED
  BY <1>4, <1>5

\* The report goes out, and a connection reported gets its read loop.
LEMMA PublishCare == ASSUME MuxInv, AllCare, NEW w \in Workers, publishEvent(w) PROVE AllCare'
<1>1. Types /\ SinkType /\ GenInv /\ ConnInv(w) /\ RoundInv(w)
  BY TypesHave DEF MuxInv
<1>2. PICK e \in Event : e = wpc[w].ev
  BY <1>1, PublishDoes
<1>3. /\ wpc[w].st = "publish" /\ wpc'[w] = IdlePc /\ sink' = Append(sink, e)
      /\ \A v \in Workers : v # w => wpc'[v] = wpc[v]
      /\ e.kind \notin Ready => readers' = readers
      /\ e.kind \in Ready => \E q \in Reader :
            readers' = readers \union {q} /\ q.w = w /\ q.gen = e.tag
      /\ UNCHANGED <<mailbox, conn, muxPc, state>>
  BY <1>1, <1>2, PublishDoes DEF publishEvent, muxVars
<1>4. e.w = w /\ e.kind \in Reports \union {"encodeFailed"}
      /\ (e.kind \in Ready => e.tag = conn[w].gen)
  BY <1>1, <1>2, <1>3 DEF GenInv, Telling
<1>5. \A v \in Workers : LinkCare(v)
  BY <1>3, LinkCareStays
<1>6. ASSUME NEW v \in Workers, v # w PROVE CareInv(v)'
  BY <1>1, <1>3, <1>4, <1>5, <1>6, SinkCareAdded, OthersCare DEF AllCare
<1>7. CareInv(w)'
  <2>1. MailCare(w) /\ PcCare(w) /\ LinkCare(w)
    BY <1>3, <1>5, MailCareStays, PcCareStays
  <2>2. ~Dialing(w) /\ ~FirstDialing(w)' /\ ~Telling(w, {"connectFailed"})'
    BY <1>3 DEF Dialing, FirstDialing, Telling, IdlePc
  <2>3. CASE e.kind \notin Reports
    <3>1. SinkCare(w)
      BY <1>1, <1>3, <2>3, SinkCareAdded
    <3>2. ~Telling(w, Reports)
      BY <1>2, <2>3 DEF Telling
    <3>3. LoopCare(w)
      BY <2>2, <3>2 DEF LoopCare
    <3> QED
      BY <2>1, <3>1, <3>3, CareKeeps DEF AllCare
  <2>4. CASE e.kind \in Reports
    <3>1. Telling(w, {e.kind}) /\ Coming(w)
      BY <1>2, <1>3, <2>4 DEF Coming, Telling
    <3>2. ~Sunk(w, Life) /\ ~Replaying(w) /\ state[w] # "connected"
      BY <1>1, <3>1 DEF RoundInv
    <3>3. ~Sunk(w, Ready) /\ ~Sunk(w, {"connectFailed"})
      BY <3>2 DEF Sunk, Life, Reports
    <3>4. Sunk(w, Reports)'
      BY <1>1, <1>3, <1>4, <2>4, SinkAdded
    <3>5. FirstDial(w)' => FirstDial(w)
      <4>1. Sunk(w, {"connectFailed"})' => Telling(w, {"connectFailed"})
        BY <1>1, <1>3, <3>1, <3>3, SinkAdded
      <4> QED
        BY <2>1, <2>2, <4>1 DEF FirstDial, MailCare
    <3>6. Sunk(w, Ready)' => e.kind \in Ready
      BY <1>1, <1>3, <3>3, SinkAdded
    <3>7. e.kind \in Ready => Watched(w)'
      <4> SUFFICES ASSUME e.kind \in Ready PROVE LiveReader(w)'
        BY DEF Watched
      <4>1. conn[w].st # "nil"
        <5>1. Telling(w, Ready)
          BY <1>2, <1>3 DEF Telling
        <5> QED
          BY <1>1, <5>1, <1>3 DEF ConnInv, Fresh
      <4>2. PICK q \in readers' : q.w = w /\ q.gen = conn[w].gen
        BY <1>3, <1>4
      <4> QED
        BY <1>3, <4>1, <4>2 DEF LiveReader, Reporter
    <3>8. ~Replaying(w)' /\ state'[w] = state[w] /\ (closing => closing')
      BY <2>1, <3>2 DEF PcCare
    <3> QED
      BY <3>2, <3>4, <3>5, <3>6, <3>7, <3>8 DEF AllCare, CareInv
  <2> QED
    BY <2>3, <2>4
<1> QED
  BY <1>6, <1>7 DEF AllCare

\* A write leaves dials and read loops as they are.
LEMMA WriteCare ==
    ASSUME MuxInv, AllCare, NEW w \in Workers, NEW outcome \in Results, handleWrite(w, outcome)
    PROVE  AllCare'
<1>1. Types /\ MailType
  BY TypesHave DEF MuxInv
<1>2. /\ takeCommand(w, {"write", "replay", "ping"}) /\ UNCHANGED <<sink, readers, muxPc, state>>
  BY DEF handleWrite, muxVars
<1>3. /\ mailbox[w] # << >> /\ mailbox'[w] = Tail(mailbox[w]) /\ wpc[w] = IdlePc
      /\ \A v \in Workers : v # w => mailbox'[v] = mailbox[v]
      /\ Head(mailbox[w]).type \notin Dials
  BY <1>1, <1>2, MailShrinks DEF Dials
<1>4. /\ \/ wpc'[w] = wpc[w]
         \/ wpc'[w].st = "publish" /\ wpc'[w].ev.kind \in {"encodeFailed", "notConnected"}
      /\ conn'[w].gen = conn[w].gen /\ (conn[w].st # "nil" => conn'[w].st # "nil")
      /\ \A v \in Workers : v # w => conn'[v] = conn[v] /\ wpc'[v] = wpc[v]
  BY <1>1, WriteDoes
<1>5. ASSUME NEW v \in Workers PROVE SinkCare(v) /\ LinkCare(v) /\ PcCare(v)
  BY <1>2, <1>4, SinkCareStays, LinkCareStays, PcCareStays
<1>6. ASSUME NEW v \in Workers, v # w PROVE CareInv(v)'
  BY <1>2, <1>3, <1>4, <1>5, <1>6, OthersCare DEF AllCare
<1>7. CareInv(w)'
  <2>1. MailCare(w)
    BY <1>1, <1>3, MailCareTaken
  <2>2. LoopCare(w)
    BY <1>3, <1>4 DEF LoopCare, Dialing, FirstDialing, Telling, IdlePc
  <2> QED
    BY <1>5, <2>1, <2>2, CareKeeps DEF AllCare
<1> QED
  BY <1>6, <1>7 DEF AllCare

\* A worker loop ends in shutdown only; a connection that dies is still watched.
LEMMA LinkCareStep ==
    ASSUME Types, AllCare, NEW w \in Workers, workerExit(w) \/ connDies(w)
    PROVE  AllCare'
<1>1. CASE workerExit(w)
  <2>1. closing'
    BY <1>1 DEF workerExit, closing, muxVars
  <2> QED
    BY <2>1, CareOver DEF AllCare
<1>2. CASE connDies(w)
  <2>1. /\ conn[w].st = "alive" /\ conn' = [conn EXCEPT ![w].st = "dead"]
        /\ UNCHANGED <<sink, mailbox, wpc, readers, muxPc, state>>
    BY <1>2 DEF connDies, muxVars
  <2>2. /\ conn'[w].st = "dead" /\ conn'[w].gen = conn[w].gen
        /\ \A v \in Workers : v # w => conn'[v] = conn[v]
    BY <2>1, TypesHave, ConnEdit
  <2>3. ASSUME NEW v \in Workers PROVE CareInv(v)'
    <3>1. LinkCare(v)
      BY <2>1, <2>2, LinkCareStays
    <3> QED
      BY <2>1, <3>1, SinkCareStays, OthersCare DEF AllCare
  <2> QED
    BY <2>3 DEF AllCare
<1> QED
  BY <1>1, <1>2

\* A read loop fails: silently if it no longer watches, else it will tell.
LEMMA ReadFailsCare == ASSUME Types, AllCare, NEW r \in readers, readFails(r) PROVE AllCare'
<1>1. /\ UNCHANGED <<sink, mailbox, wpc, conn, muxPc, state>> /\ r.st = "reading"
      /\ \/ /\ conn[r.w].gen # r.gen \/ conn[r.w].st = "nil"
            /\ readers' = readers \ {r}
         \/ readers' = (readers \ {r}) \union {[r EXCEPT !.st = "failed"]}
  BY DEF readFails, muxVars
<1>2. ASSUME NEW v \in Workers PROVE LinkCare(v)
  <2> SUFFICES ASSUME NEW q \in readers, q.w = v, Reporter(q) PROVE LiveReader(v)'
    BY DEF LinkCare, LiveReader
  <2>1. CASE q # r
    BY <1>1, <2>1 DEF LiveReader, Reporter
  <2>2. CASE q = r
    <3>1. ~(conn[r.w].gen # r.gen \/ conn[r.w].st = "nil")
      BY <1>1, <2>2 DEF Reporter
    <3>2. PICK p : p = [r EXCEPT !.st = "failed"]
      OBVIOUS
    <3>3. p \in readers'
      BY <1>1, <3>1, <3>2
    <3>4. p.w = r.w /\ p.st = "failed"
      BY <3>2, TypesHave DEF LinkType, Reader
    <3> QED
      BY <2>2, <3>3, <3>4 DEF LiveReader, Reporter
  <2> QED
    BY <2>1, <2>2
<1>3. ASSUME NEW v \in Workers PROVE CareInv(v)'
  BY <1>1, <1>2, SinkCareStays, OthersCare DEF AllCare
<1> QED
  BY <1>3 DEF AllCare

\* A loss is reported instead of being watched for.
LEMMA LossCare ==
    ASSUME Types, AllCare, EndInv, NEW r \in readers, readerPublishes(r)
    PROVE  AllCare'
<1>1. SinkType /\ LinkType
  BY TypesHave
<1>2. UNCHANGED <<mailbox, wpc, conn, muxPc, state>> /\ readers' = readers \ {r}
  BY DEF readerPublishes, muxVars
<1>3. CASE sinkClosed
  <2>1. closing'
    BY <1>2, <1>3 DEF EndInv, closing
  <2> QED
    BY <2>1, CareOver DEF AllCare
<1>4. CASE ~sinkClosed
  <2>1. r.w \in Workers /\ r.gen \in Nat
    BY <1>1 DEF LinkType, Reader
  <2>2. PICK e \in Event : sink' = Append(sink, e) /\ e.w = r.w /\ e.kind = "disconnected"
    <3>1. PICK e : e = event("disconnected", r.w, r.gen)
      OBVIOUS
    <3>2. e \in Event /\ e.w = r.w /\ e.kind = "disconnected"
      BY <2>1, <3>1 DEF Event, event
    <3> QED
      BY <1>4, <3>1, <3>2 DEF readerPublishes
  <2>3. e.kind \notin Reports
    BY <2>2 DEF Reports, Ready
  <2>4. ASSUME NEW v \in Workers PROVE CareInv(v)'
    <3>1. SinkCare(v)
      BY <1>1, <2>2, <2>3, SinkCareAdded
    <3>2. CASE v # r.w
      <4>1. LinkCare(v)
        BY <1>2, <3>2 DEF LinkCare, LiveReader, Reporter
      <4> QED
        BY <1>2, <3>1, <4>1, OthersCare DEF AllCare
    <3>3. CASE v = r.w
      <4>1. Watched(v)'
        BY <1>1, <2>2, <3>3, SinkAdded DEF Watched
      <4>2. MailCare(v) /\ LoopCare(v) /\ PcCare(v)
        BY <1>2, MailCareStays, LoopCareStays, PcCareStays
      <4>3. /\ Coming(v) => Coming(v)'
            /\ FirstDial(v)' => FirstDial(v)
        BY <3>1, <4>2 DEF Coming, FirstDial, MailCare, LoopCare, PcCare, SinkCare
      <4> QED
        BY <3>1, <4>1, <4>2, <4>3 DEF AllCare, CareInv, SinkCare, PcCare
    <3> QED
      BY <3>2, <3>3
  <2> QED
    BY <2>4 DEF AllCare
<1> QED
  BY <1>3, <1>4

\* Every step.
LEMMA CareStep == ASSUME MuxInv, EndInv, AllCare, [Next]_vars PROVE AllCare'
<1>1. Types
  BY DEF MuxInv
<1>2. CASE Client
  BY <1>2, IdleCare DEF Client, Submit, Stop, watchFatal, muxVars, connVars
<1>3. CASE MuxLoop
  BY <1>1, <1>3, CommandCare, WorkerReadyCare, ReconnectCare, DropCare, ReplayCare,
     SendReconnectCare, OverCare DEF MuxLoop, handleIOWorkerEvent
<1>4. ASSUME NEW w \in Workers, WorkerLoop(w) \/ connDies(w) PROVE AllCare'
  BY <1>1, <1>4, DialCare, DialOkCare, DialFailedCare, PublishCare, WriteCare, LinkCareStep
  DEF WorkerLoop
<1>5. ASSUME NEW t \in tickers, runPingTicker(t) \/ tickerExit(t) PROVE AllCare'
  BY <1>1, <1>5, TickerCare
<1>6. ASSUME NEW r \in readers, readFails(r) \/ readerPublishes(r) PROVE AllCare'
  BY <1>1, <1>6, ReadFailsCare, LossCare
<1>7. CASE UNCHANGED vars
  BY <1>7, IdleCare DEF vars, muxVars, connVars
<1> QED
  BY <1>2, <1>3, <1>4, <1>5, <1>6, <1>7 DEF Next

\* startConnect has ordered every worker's first dial.
LEMMA InitCare == Init => AllCare
<1> SUFFICES ASSUME Init, NEW w \in Workers PROVE CareInv(w)
  BY DEF AllCare
<1>1. sink = << >> /\ muxPc = LoopPc /\ state[w] = "connecting"
      /\ mailbox[w] = <<Command("connect")>>
  BY DEF Init
<1>2. PICK c \in Cmds : c = Command("connect") /\ c.type = "connect"
  BY CmdTypes DEF Command
<1>3. mailbox[w] = <<c>>
  BY <1>1, <1>2
<1>4. DOMAIN mailbox[w] = {1} /\ mailbox[w][1] = c
  BY <1>3
<1>5. DialCmd(w)
  BY <1>2, <1>4 DEF DialCmd, Dials
<1>6. ~Sunk(w, Ready) /\ ~Replaying(w)
  BY <1>1 DEF Sunk, Replaying, LoopPc
<1> QED
  BY <1>1, <1>5, <1>6 DEF CareInv, Coming

\* Until the mux leaves its loop, every worker has a dial coming, a report or a loss
\* waiting for the mux, a replay, or a read loop that will report the loss of its
\* connection.
WorkersCaredFor ==
    ~closing => \A w \in Workers : Coming(w) \/ Sunk(w, Life) \/ Replaying(w) \/ LiveReader(w)

\* No worker is forgotten: whatever is lost, late or cancelled among dials, reports,
\* replays and read loops, something is always left that brings the worker back
\* (startReconnect, handleWorkerReady, readLoop). What is left to Recovers is that the
\* goroutine that holds it does run.
THEOREM NoWorkerForgotten == Spec => []WorkersCaredFor
<1>1. Init => AllCare /\ EndInv /\ MuxInv
  BY InitCare, InitHandles, InitMuxInv
<1>2. AllCare /\ EndInv /\ MuxInv /\ [Next]_vars => (AllCare /\ EndInv /\ MuxInv)'
  BY CareStep, EndStep, StepMuxInv DEF MuxInv
<1>3. ASSUME AllCare PROVE WorkersCaredFor
  <2> SUFFICES ASSUME ~closing, NEW w \in Workers
               PROVE  Coming(w) \/ Sunk(w, Life) \/ Replaying(w) \/ LiveReader(w)
    BY DEF WorkersCaredFor
  <2>1. Watched(w) \/ Coming(w) \/ Sunk(w, Reports) \/ Replaying(w)
    BY <1>3 DEF AllCare, CareInv
  <2> QED
    BY <2>1 DEF Watched, Sunk, Life
<1> QED
  BY <1>1, <1>2, <1>3, PTL DEF Spec

=============================================================================
