------------------------- MODULE SnapshotFlow_proofs -------------------------
(***************************************************************************)
(* Proofs about module SnapshotFlow, for every number of connections,      *)
(* chunks and messages and every capacity of the queues: one Snapshot in   *)
(* flight, changes that meet their base, exits that come last, no output   *)
(* that is owed and forgotten, and the refinement of ScreenDelivery.       *)
(***************************************************************************)
EXTENDS SnapshotFlow, SequenceTheorems, FiniteSetTheorems, TLAPS

Message == [kind : {"reply", "exit", "snapshot"}, base : Nat, to : Nat,
            full : BOOLEAN]
Event == [kind : {"scroll", "resize", "heartbeat", "detach", "written", "failed",
                  "disconnected"}, conn : Conn]
WriterThread ==
  [stage : {"unborn", "idle", "writing", "noting", "failing", "ended"},
   queue : Seq(Message), message : Message, closed : BOOLEAN]
Peer == [line : {"none", "open", "stalled", "cut"}, heard : BOOLEAN,
         screen : Nat, exit : Nat]

FlowType ==
  /\ loop \in {"turning", "waiting", "down"}
  /\ taken \in 0 .. MaxConns /\ client \in 0 .. taken
  /\ inFlight \in BOOLEAN /\ due \in BOOLEAN /\ resizing \in BOOLEAN
  /\ exitDue \in BOOLEAN /\ exited \in BOOLEAN /\ full \in BOOLEAN
  /\ alive \in BOOLEAN
  /\ term \in Nat \ {0} /\ rendered \in Nat
  /\ panes \in Seq({"output", "exited"}) /\ control \in Seq(Event)
  /\ writer \in [Conn -> WriterThread]
  /\ peer \in [Conn -> Peer]

\* OnTheWay, as a function of the writer thread.
Way(w) == (IF w.stage = "writing" THEN <<w.message>> ELSE <<>>) \o w.queue
HasSnapshot(way) == \E i \in DOMAIN way : IsSnapshot(way[i])
IsExit(m) == m.kind = "exit"

\* What a client that shows `screen` is to read, while the screen of the session
\* is at v: at most one Snapshot, whose changes start from `screen`, and exits
\* about the screen it has by then.
InOrder(way, screen, v) ==
  /\ \A i, j \in DOMAIN way : IsSnapshot(way[i]) /\ IsSnapshot(way[j]) => i = j
  /\ \A i \in DOMAIN way : IsSnapshot(way[i]) =>
       /\ screen <= way[i].to /\ way[i].to <= v
       /\ way[i].full \/ way[i].base = screen
  /\ \A i \in DOMAIN way : IsExit(way[i]) =>
       /\ way[i].to # 0
       /\ \A j \in 1 .. i - 1 : IsSnapshot(way[j]) => way[i].to = way[j].to
       /\ (\A j \in 1 .. i - 1 : ~IsSnapshot(way[j])) => way[i].to = screen

\* Having read it all, the client shows v.
EndsAt(way, screen, v) ==
  /\ \A i \in DOMAIN way : IsSnapshot(way[i]) => way[i].to = v
  /\ ~HasSnapshot(way) => screen = v

Delivers(w, p, v) ==
  /\ InOrder(Way(w), p.screen, v)
  /\ p.screen <= v /\ p.exit <= p.screen
  /\ w.stage = "noting" => ~HasSnapshot(Way(w))
  /\ w.stage \in {"failing", "ended"} => w.closed /\ w.queue = <<>>

\* A connection that has not been accepted.
Fresh(w, p) == w = Unborn /\ p.line = "none" /\ ~p.heard /\ p.screen = 0

\* A SnapshotWritten event of c that is on its way.
Acknowledged(ctl, c) == \E i \in DOMAIN ctl : ctl[i] = Written(c)

AcksOnce(ctl, w, c) ==
  /\ \A i, j \in DOMAIN ctl : ctl[i] = Written(c) /\ ctl[j] = Written(c) => i = j
  /\ Acknowledged(ctl, c) => w.stage # "noting" /\ ~HasSnapshot(Way(w))

\* The table of the event loop and the connection that holds the session agree.
InStep ==
  loop # "down" /\ client # 0 /\ ~Failed(client) =>
    /\ EndsAt(Way(writer[client]), peer[client].screen, rendered)
    /\ inFlight <=> \/ HasSnapshot(Way(writer[client]))
                    \/ writer[client].stage = "noting"
                    \/ Acknowledged(control, client)

Owes == client # 0 /\ ~due /\ ~resizing => rendered = term

FlowInv ==
  /\ FlowType
  /\ \A c \in Conn :
       /\ Delivers(writer[c], peer[c], term)
       /\ AcksOnce(control, writer[c], c)
       /\ c > taken => /\ Fresh(writer[c], peer[c])
                       /\ \A i \in DOMAIN control : control[i].conn # c
  /\ InStep /\ Owes

-----------------------------------------------------------------------------
(* Sequences of messages. *)

\* The rest of a sequence.
LEMMA TailIs ==
  ASSUME NEW S, NEW q \in Seq(S), q # <<>>
  PROVE  /\ Tail(q) \in Seq(S) /\ Head(q) \in S
         /\ DOMAIN q = 1 .. Len(q) /\ Len(q) \in Nat \ {0} /\ Head(q) = q[1]
         /\ DOMAIN Tail(q) = 1 .. Len(q) - 1
         /\ \A i \in 1 .. Len(q) - 1 : i + 1 \in DOMAIN q /\ Tail(q)[i] = q[i + 1]
<1>1. Tail(q) \in Seq(S) /\ Len(Tail(q)) = Len(q) - 1 /\ Head(q) \in S
      /\ \A i \in 1 .. Len(Tail(q)) : Tail(q)[i] = q[i + 1]
  BY HeadTailProperties
<1>2. DOMAIN q = 1 .. Len(q) /\ Len(q) \in Nat BY LenProperties
<1>3. DOMAIN Tail(q) = 1 .. Len(Tail(q)) BY <1>1, LenProperties
<1>4. Len(q) # 0 BY EmptySeq
<1>5. Head(q) = q[1] OBVIOUS
<1> QED BY <1>1, <1>2, <1>3, <1>4, <1>5

\* A sequence with one more element.
LEMMA AppendIs ==
  ASSUME NEW S, NEW q \in Seq(S), NEW e \in S
  PROVE  /\ Append(q, e) \in Seq(S) /\ Append(q, e) = q \o <<e>>
         /\ DOMAIN q = 1 .. Len(q) /\ Len(q) \in Nat
         /\ DOMAIN Append(q, e) = 1 .. Len(q) + 1
         /\ \A i \in 1 .. Len(q) : Append(q, e)[i] = q[i]
         /\ Append(q, e)[Len(q) + 1] = e
<1>1. /\ Append(q, e) \in Seq(S) /\ Len(Append(q, e)) = Len(q) + 1
      /\ \A i \in 1 .. Len(q) : Append(q, e)[i] = q[i]
      /\ Append(q, e)[Len(q) + 1] = e
  BY AppendProperties
<1>2. DOMAIN q = 1 .. Len(q) /\ Len(q) \in Nat BY LenProperties
<1>3. DOMAIN Append(q, e) = 1 .. Len(Append(q, e)) BY <1>1, LenProperties
<1> QED BY <1>1, <1>2, <1>3, AppendIsConcat

\* The first message is read: what follows it is still in order.
LEMMA OrderTail ==
  ASSUME NEW way \in Seq(Message), way # <<>>, NEW screen \in Nat, NEW v \in Nat,
         InOrder(way, screen, v)
  PROVE  InOrder(Tail(way), IF IsSnapshot(Head(way)) THEN Head(way).to ELSE screen, v)
<1> DEFINE s == IF IsSnapshot(Head(way)) THEN Head(way).to ELSE screen
<1> DEFINE t == Tail(way)
<1>1. /\ DOMAIN way = 1 .. Len(way) /\ Len(way) \in Nat \ {0} /\ Head(way) = way[1]
      /\ DOMAIN t = 1 .. Len(way) - 1
      /\ \A i \in 1 .. Len(way) - 1 : i + 1 \in DOMAIN way /\ t[i] = way[i + 1]
  BY TailIs
<1> HIDE DEF t
<1>2. ASSUME NEW i \in DOMAIN t, NEW j \in DOMAIN t, IsSnapshot(t[i]), IsSnapshot(t[j])
      PROVE  i = j
  <2>1. i + 1 = j + 1 BY <1>1, <1>2 DEF InOrder
  <2> QED BY <1>1, <2>1
<1>3. ASSUME NEW i \in DOMAIN t, IsSnapshot(t[i])
      PROVE  ~IsSnapshot(Head(way))
  BY <1>1, <1>3 DEF InOrder
<1>4. ASSUME NEW i \in DOMAIN t, IsSnapshot(t[i])
      PROVE  /\ s <= t[i].to /\ t[i].to <= v
             /\ t[i].full \/ t[i].base = s
  BY <1>1, <1>3, <1>4 DEF InOrder
<1>5. ASSUME NEW i \in DOMAIN t, IsExit(t[i])
      PROVE  /\ t[i].to # 0
             /\ \A j \in 1 .. i - 1 : IsSnapshot(t[j]) => t[i].to = t[j].to
             /\ (\A j \in 1 .. i - 1 : ~IsSnapshot(t[j])) => t[i].to = s
  <2>1. /\ i + 1 \in DOMAIN way /\ IsExit(way[i + 1]) /\ t[i] = way[i + 1] /\ i \in Nat
    BY <1>1, <1>5
  <2>2. /\ way[i + 1].to # 0
        /\ \A j \in 1 .. i : IsSnapshot(way[j]) => way[i + 1].to = way[j].to
        /\ (\A j \in 1 .. i : ~IsSnapshot(way[j])) => way[i + 1].to = screen
    <3>1. (i + 1) - 1 = i BY <2>1
    <3> QED BY <2>1, <3>1 DEF InOrder
  <2>3. ASSUME NEW j \in 1 .. i - 1
        PROVE  j + 1 \in 1 .. i /\ t[j] = way[j + 1] /\ j \in DOMAIN t
    BY <1>1, <2>1
  <2>4. \A j \in 1 .. i - 1 : IsSnapshot(t[j]) => t[i].to = t[j].to
    BY <2>1, <2>2, <2>3
  <2>5. ASSUME \A j \in 1 .. i - 1 : ~IsSnapshot(t[j])
        PROVE  t[i].to = s
    <3>1. \A j \in 1 .. i : j = 1 \/ (j - 1 \in 1 .. i - 1 /\ (j - 1) + 1 = j)
      BY <2>1
    <3>2. \A j \in 1 .. i : j # 1 => ~IsSnapshot(way[j])
      BY <2>3, <2>5, <3>1
    <3>3. 1 \in 1 .. i BY <1>1
    <3> QED BY <1>1, <2>1, <2>2, <3>2, <3>3
  <2> QED BY <2>1, <2>2, <2>4, <2>5
<1> QED BY <1>2, <1>4, <1>5 DEF InOrder, t

\* One more message, of the kind that may come behind what is on the way.
LEMMA OrderAppend ==
  ASSUME NEW way \in Seq(Message), NEW m \in Message, NEW screen \in Nat,
         NEW v \in Nat \ {0}, screen <= v, InOrder(way, screen, v),
         IsSnapshot(m) => /\ ~HasSnapshot(way) /\ m.to = v
                          /\ m.full \/ m.base = screen,
         IsExit(m) => m.to = v /\ EndsAt(way, screen, v)
  PROVE  InOrder(Append(way, m), screen, v)
<1> DEFINE a == Append(way, m)
<1> DEFINE n == Len(way)
<1>1. /\ DOMAIN way = 1 .. n /\ n \in Nat /\ DOMAIN a = 1 .. n + 1
      /\ \A i \in 1 .. n : a[i] = way[i]
      /\ a[n + 1] = m
  BY AppendIs
<1> HIDE DEF a, n
<1>2. \A i \in DOMAIN a : (i \in DOMAIN way /\ a[i] = way[i]) \/ (i = n + 1 /\ a[i] = m)
  BY <1>1
<1>3. \A i, j \in DOMAIN a : IsSnapshot(a[i]) /\ IsSnapshot(a[j]) => i = j
  BY <1>2 DEF InOrder, HasSnapshot
<1>4. \A i \in DOMAIN a : IsSnapshot(a[i]) =>
        /\ screen <= a[i].to /\ a[i].to <= v
        /\ a[i].full \/ a[i].base = screen
  BY <1>2 DEF InOrder
<1>5. ASSUME NEW i \in DOMAIN a, IsExit(a[i])
      PROVE  /\ a[i].to # 0
             /\ \A j \in 1 .. i - 1 : IsSnapshot(a[j]) => a[i].to = a[j].to
             /\ (\A j \in 1 .. i - 1 : ~IsSnapshot(a[j])) => a[i].to = screen
  <2>1. ASSUME NEW j \in 1 .. i - 1 PROVE j \in DOMAIN way /\ a[j] = way[j]
    BY <1>1
  <2>2. CASE i \in DOMAIN way /\ a[i] = way[i]
    BY <1>5, <2>1, <2>2 DEF InOrder
  <2>3. CASE i = n + 1 /\ a[i] = m
    <3>1. 1 .. i - 1 = DOMAIN way BY <1>1, <2>3
    <3> QED BY <1>5, <2>1, <2>3, <3>1 DEF EndsAt, HasSnapshot
  <2> QED BY <1>2, <2>2, <2>3
<1> QED BY <1>3, <1>4, <1>5 DEF InOrder, a

\* A queue that takes only the first messages keeps the order.
LEMMA OrderPrefix ==
  ASSUME NEW way \in Seq(Message), NEW pre \in Seq(Message), NEW screen, NEW v,
         InOrder(way, screen, v), Len(pre) <= Len(way),
         \A i \in DOMAIN pre : pre[i] = way[i]
  PROVE  InOrder(pre, screen, v)
<1>1. DOMAIN pre = 1 .. Len(pre) /\ DOMAIN way = 1 .. Len(way)
      /\ Len(pre) \in Nat /\ Len(way) \in Nat
  BY LenProperties
<1>2. \A i \in DOMAIN pre : i \in DOMAIN way /\ pre[i] = way[i] BY <1>1
<1>3. \A i \in DOMAIN pre : \A j \in 1 .. i - 1 : j \in DOMAIN pre BY <1>1
<1> QED BY <1>2, <1>3 DEF InOrder

\* The session's screen goes on.
LEMMA OrderLater ==
  ASSUME NEW way \in Seq(Message), NEW screen, NEW v \in Nat, NEW u \in Nat, v <= u,
         InOrder(way, screen, v)
  PROVE  InOrder(way, screen, u)
<1>1. \A i \in DOMAIN way : way[i] \in Message BY ElementOfSeq, LenProperties
<1>2. \A i \in DOMAIN way : way[i].to \in Nat BY <1>1 DEF Message
<1> QED BY <1>2 DEF InOrder

\* Reading the first message does not change where the rest ends.
LEMMA EndsTail ==
  ASSUME NEW way \in Seq(Message), way # <<>>, NEW screen \in Nat, NEW v \in Nat,
         NEW u \in Nat, InOrder(way, screen, v), EndsAt(way, screen, u)
  PROVE  /\ EndsAt(Tail(way), IF IsSnapshot(Head(way)) THEN Head(way).to ELSE screen, u)
         /\ HasSnapshot(way) <=> IsSnapshot(Head(way)) \/ HasSnapshot(Tail(way))
         /\ IsSnapshot(Head(way)) => ~HasSnapshot(Tail(way))
<1> DEFINE t == Tail(way)
<1>1. /\ DOMAIN way = 1 .. Len(way) /\ Len(way) \in Nat \ {0} /\ Head(way) = way[1]
      /\ DOMAIN t = 1 .. Len(way) - 1
      /\ \A i \in 1 .. Len(way) - 1 : i + 1 \in DOMAIN way /\ t[i] = way[i + 1]
  BY TailIs
<1> HIDE DEF t
<1>2. \A i \in DOMAIN way : i = 1 \/ (i - 1 \in DOMAIN t /\ t[i - 1] = way[i])
  BY <1>1
<1>3. \A i \in DOMAIN t : i + 1 \in DOMAIN way /\ i + 1 # 1 /\ t[i] = way[i + 1]
  BY <1>1
<1>4. HasSnapshot(way) <=> IsSnapshot(way[1]) \/ HasSnapshot(t)
  BY <1>1, <1>2, <1>3 DEF HasSnapshot
<1>5. IsSnapshot(way[1]) => ~HasSnapshot(t)
  BY <1>1, <1>3 DEF HasSnapshot, InOrder
<1>6. \A i \in DOMAIN t : IsSnapshot(t[i]) => t[i].to = u
  BY <1>3 DEF EndsAt
<1>7. IsSnapshot(way[1]) => way[1].to = u
  BY <1>1 DEF EndsAt
<1>8. ~HasSnapshot(t) /\ ~IsSnapshot(way[1]) => screen = u
  BY <1>4 DEF EndsAt
<1> QED BY <1>1, <1>4, <1>5, <1>6, <1>7, <1>8 DEF EndsAt, t

\* One more message: whether there is a Snapshot, and where it all ends.
LEMMA EndsAppend ==
  ASSUME NEW way \in Seq(Message), NEW m \in Message, NEW screen, NEW u
  PROVE  /\ HasSnapshot(Append(way, m)) <=> HasSnapshot(way) \/ IsSnapshot(m)
         /\ ~IsSnapshot(m) /\ EndsAt(way, screen, u) => EndsAt(Append(way, m), screen, u)
         /\ IsSnapshot(m) /\ ~HasSnapshot(way) => EndsAt(Append(way, m), screen, m.to)
<1> DEFINE a == Append(way, m)
<1> DEFINE n == Len(way)
<1>1. /\ DOMAIN way = 1 .. n /\ n \in Nat /\ DOMAIN a = 1 .. n + 1
      /\ \A i \in 1 .. n : a[i] = way[i]
      /\ a[n + 1] = m
  BY AppendIs
<1> HIDE DEF a, n
<1>2. \A i \in DOMAIN a :
        (i \in DOMAIN way /\ a[i] = way[i]) \/ (i = n + 1 /\ a[i] = m)
  BY <1>1
<1>3. n + 1 \in DOMAIN a /\ \A i \in DOMAIN way : i \in DOMAIN a /\ a[i] = way[i]
  BY <1>1
<1>4. HasSnapshot(a) <=> HasSnapshot(way) \/ IsSnapshot(m)
  BY <1>1, <1>2, <1>3 DEF HasSnapshot
<1>5. ~IsSnapshot(m) /\ EndsAt(way, screen, u) => EndsAt(a, screen, u)
  BY <1>2, <1>4 DEF EndsAt
<1>6. IsSnapshot(m) /\ ~HasSnapshot(way) => EndsAt(a, screen, m.to)
  BY <1>2, <1>4 DEF EndsAt, HasSnapshot
<1> QED BY <1>4, <1>5, <1>6 DEF a

\* What a writer thread has before it.
LEMMA WayIs ==
  ASSUME NEW w \in WriterThread
  PROVE  /\ Way(w) \in Seq(Message)
         /\ w.stage # "writing" => Way(w) = w.queue
         /\ w.stage = "writing" => /\ Way(w) = <<w.message>> \o w.queue
                                   /\ Way(w) # <<>>
                                   /\ Head(Way(w)) = w.message /\ Tail(Way(w)) = w.queue
<1>1. w.queue \in Seq(Message) /\ w.message \in Message BY DEF WriterThread
<1>2. w.stage # "writing" => Way(w) = w.queue
  BY <1>1, ConcatEmptySeq DEF Way
<1>3. CASE w.stage = "writing"
  <2>1. Way(w) = <<w.message>> \o w.queue BY <1>3 DEF Way
  <2>2. <<w.message>> \in Seq(Message) /\ Len(<<w.message>>) = 1 BY <1>1
  <2>3. /\ Way(w) \in Seq(Message) /\ Len(Way(w)) = 1 + Len(w.queue)
        /\ \A i \in 1 .. 1 + Len(w.queue) :
             Way(w)[i] = IF i <= 1 THEN <<w.message>>[i] ELSE w.queue[i - 1]
    BY <1>1, <2>1, <2>2, ConcatProperties
  <2>4. Len(w.queue) \in Nat BY <1>1, LenProperties
  <2>5. Way(w) # <<>> BY <2>3, <2>4, EmptySeq
  <2>6. Way(w)[1] = w.message BY <2>3, <2>4
  <2>7. /\ Tail(Way(w)) \in Seq(Message) /\ Head(Way(w)) = w.message
        /\ Len(Tail(Way(w))) = Len(w.queue)
        /\ \A i \in 1 .. Len(Tail(Way(w))) : Tail(Way(w))[i] = Way(w)[i + 1]
    BY <2>3, <2>4, <2>5, <2>6, HeadTailProperties
  <2>8. \A i \in 1 .. Len(w.queue) : Tail(Way(w))[i] = w.queue[i]
    <3>1. SUFFICES ASSUME NEW i \in 1 .. Len(w.queue)
                   PROVE  Tail(Way(w))[i] = w.queue[i]
      OBVIOUS
    <3>2. i + 1 \in 1 .. 1 + Len(w.queue) /\ ~(i + 1 <= 1) /\ (i + 1) - 1 = i
      BY <2>4
    <3> QED BY <2>3, <2>7, <3>2
  <2>9. Tail(Way(w)) = w.queue BY <1>1, <2>7, <2>8, SeqEqual
  <2> QED BY <1>3, <2>1, <2>3, <2>5, <2>7, <2>9
<1> QED BY <1>1, <1>2, <1>3

\* The writer thread w when the messages ms have been queued.
More(w, ms, b) == [stage |-> w.stage, queue |-> w.queue \o ms,
                   message |-> w.message, closed |-> b]

LEMMA MoreIs ==
  ASSUME NEW w \in WriterThread, NEW ms
  PROVE  /\ \A u : u = [w EXCEPT !.queue = w.queue \o ms, !.closed = TRUE]
                    => u = More(w, ms, TRUE)
         /\ \A u : u = [w EXCEPT !.queue = @ \o ms] => u = More(w, ms, w.closed)
<1>1. w = [stage |-> w.stage, queue |-> w.queue, message |-> w.message,
           closed |-> w.closed]
  BY DEF WriterThread
<1> DEFINE q == w.queue \o ms
<1> HIDE DEF q
<1>2. ASSUME NEW u, u = [w EXCEPT !.queue = q, !.closed = TRUE]
      PROVE  u = [stage |-> w.stage, queue |-> q, message |-> w.message, closed |-> TRUE]
  BY <1>1, <1>2
<1>3. ASSUME NEW u, u = [w EXCEPT !.queue = q]
      PROVE  u = [stage |-> w.stage, queue |-> q, message |-> w.message,
                  closed |-> w.closed]
  BY <1>1, <1>3
<1> QED BY <1>2, <1>3, Zenon DEF More, q

LEMMA WayMore ==
  ASSUME NEW w \in WriterThread, NEW ms \in Seq(Message), NEW b \in BOOLEAN
  PROVE  /\ More(w, ms, b) \in WriterThread
         /\ More(w, ms, b).stage = w.stage /\ More(w, ms, b).closed = b
         /\ More(w, ms, b).queue = w.queue \o ms
         /\ Way(More(w, ms, b)) = Way(w) \o ms
<1> DEFINE more == More(w, ms, b)
<1>1. w.queue \in Seq(Message) /\ w.queue \o ms \in Seq(Message) /\ w.message \in Message
  BY ConcatProperties DEF WriterThread
<1>2. /\ more \in WriterThread
      /\ more.stage = w.stage /\ more.closed = b /\ more.queue = w.queue \o ms
      /\ more.message = w.message
  BY <1>1 DEF WriterThread, More
<1> HIDE DEF more
<1>3. CASE w.stage = "writing"
  <2>1. <<w.message>> \in Seq(Message) BY <1>1
  <2>2. Way(more) = <<w.message>> \o (w.queue \o ms) BY <1>2, <1>3 DEF Way
  <2>3. Way(w) = <<w.message>> \o w.queue BY <1>3 DEF Way
  <2>4. (<<w.message>> \o w.queue) \o ms = <<w.message>> \o (w.queue \o ms)
    <3>1. w.queue \in Seq(Message) BY <1>1
    <3>2. \A q, r, t \in Seq(Message) : (q \o r) \o t = q \o (r \o t)
      BY ConcatAssociative
    <3>3. ms \in Seq(Message) OBVIOUS
    <3> QED BY <2>1, <3>1, <3>2, <3>3
  <2>5. Way(more) = Way(w) \o ms BY <2>2, <2>3, <2>4, Zenon
  <2> QED BY <1>2, <2>5 DEF more
<1>4. CASE w.stage # "writing"
  <2>1. Way(more) = w.queue \o ms /\ Way(w) = w.queue BY <1>2, <1>4, WayIs
  <2>2. Way(more) = Way(w) \o ms BY <2>1
  <2> QED BY <1>2, <2>2 DEF more
<1> QED BY <1>3, <1>4

-----------------------------------------------------------------------------
(* What the event loop may queue for the client of the session. *)

\* The client's screen when it has read the messages ms as well.
After(ms) == IF HasSnapshot(ms) THEN term ELSE rendered

Sendable(ms) ==
  LET way == Way(writer[client])
      screen == peer[client].screen
  IN /\ InOrder(way \o ms, screen, term)
     /\ EndsAt(way \o ms, screen, After(ms))
     /\ HasSnapshot(way \o ms) <=> HasSnapshot(way) \/ HasSnapshot(ms)

\* The facts about the client of the session that the following lemmas use.
LEMMA HolderIs ==
  ASSUME FlowInv, client # 0, loop # "down"
  PROVE  /\ client \in Conn /\ term \in Nat \ {0} /\ rendered \in Nat
         /\ writer[client] \in WriterThread /\ Way(writer[client]) \in Seq(Message)
         /\ peer[client] \in Peer /\ peer[client].screen \in Nat
         /\ peer[client].screen <= term
         /\ InOrder(Way(writer[client]), peer[client].screen, term)
         /\ ~Failed(client) =>
              /\ EndsAt(Way(writer[client]), peer[client].screen, rendered)
              /\ ~inFlight => /\ ~HasSnapshot(Way(writer[client]))
                              /\ writer[client].stage # "noting"
                              /\ ~Acknowledged(control, client)
                              /\ peer[client].screen = rendered
<1>1. client \in Conn /\ term \in Nat \ {0} /\ rendered \in Nat
      /\ writer[client] \in WriterThread /\ peer[client] \in Peer
  <2>1. MaxConns \in Nat BY FlowAssumption
  <2>2. FlowType BY DEF FlowInv
  <2>3. client \in Conn BY <2>1, <2>2 DEF FlowType, Conn
  <2> QED BY <2>2, <2>3 DEF FlowType
<1>2. Way(writer[client]) \in Seq(Message) BY <1>1, WayIs
<1>3. peer[client].screen \in Nat BY <1>1 DEF Peer
<1>4. Delivers(writer[client], peer[client], term) BY <1>1 DEF FlowInv
<1>5. InStep BY DEF FlowInv
<1>6. ~Failed(client) =>
        /\ EndsAt(Way(writer[client]), peer[client].screen, rendered)
        /\ ~inFlight => /\ ~HasSnapshot(Way(writer[client]))
                        /\ writer[client].stage # "noting"
                        /\ ~Acknowledged(control, client)
  BY <1>5 DEF InStep
<1>7. ~Failed(client) /\ ~inFlight => peer[client].screen = rendered
  BY <1>6 DEF EndsAt
<1> QED BY <1>1, <1>2, <1>3, <1>4, <1>6, <1>7 DEF Delivers

\* The messages themselves.
LEMMA MessagesAre ==
  ASSUME FlowInv, NEW b \in BOOLEAN
  PROVE  /\ Reply \in Message /\ ~IsSnapshot(Reply) /\ ~IsExit(Reply)
         /\ Exit \in Message /\ ~IsSnapshot(Exit) /\ IsExit(Exit) /\ Exit.to = term
         /\ Snapshot(b) \in Message /\ IsSnapshot(Snapshot(b)) /\ ~IsExit(Snapshot(b))
         /\ Snapshot(b).to = term /\ Snapshot(b).base = rendered
<1>1. term \in Nat /\ rendered \in Nat BY DEF FlowInv, FlowType
<1> QED BY <1>1 DEF Reply, Exit, Snapshot, Message, IsSnapshot, IsExit

\* A sequence of one message.
LEMMA OneMessage ==
  ASSUME NEW m \in Message
  PROVE  /\ <<m>> \in Seq(Message) /\ Len(<<m>>) = 1
         /\ HasSnapshot(<<m>>) <=> IsSnapshot(m)
         /\ ~HasSnapshot(<<>>) /\ <<>> \in Seq(Message)
BY DEF HasSnapshot

\* An answer may always be sent.
LEMMA ReplySendable ==
  ASSUME FlowInv, client # 0, loop # "down", ~Failed(client)
  PROVE  Sendable(<<Reply>>)
<1> DEFINE way == Way(writer[client])
<1>1. Reply \in Message /\ ~IsSnapshot(Reply) /\ ~IsExit(Reply) BY MessagesAre
<1>2. way \o <<Reply>> = Append(way, Reply) BY <1>1, HolderIs, AppendIsConcat
<1>3. InOrder(Append(way, Reply), peer[client].screen, term)
  BY <1>1, HolderIs, OrderAppend
<1>4. /\ EndsAt(Append(way, Reply), peer[client].screen, rendered)
      /\ HasSnapshot(Append(way, Reply)) <=> HasSnapshot(way) \/ IsSnapshot(Reply)
  BY <1>1, HolderIs, EndsAppend
<1>5. ~HasSnapshot(<<Reply>>) BY <1>1, OneMessage
<1> QED BY <1>1, <1>2, <1>3, <1>4, <1>5 DEF Sendable, After

\* Nothing at all, too.
LEMMA NothingSendable ==
  ASSUME FlowInv, client # 0, loop # "down", ~Failed(client)
  PROVE  Sendable(<<>>)
<1>1. Way(writer[client]) \o <<>> = Way(writer[client]) BY HolderIs, ConcatEmptySeq
<1>2. ~HasSnapshot(<<>>) BY DEF HasSnapshot
<1> QED BY <1>1, <1>2, HolderIs DEF Sendable, After

\* A Snapshot, when there is none.
LEMMA SnapshotSendable ==
  ASSUME FlowInv, client # 0, loop # "down", ~Failed(client), ~inFlight, NEW b \in BOOLEAN
  PROVE  Sendable(<<Snapshot(b)>>)
<1> DEFINE way == Way(writer[client])
<1> DEFINE m == Snapshot(b)
<1>1. m \in Message /\ IsSnapshot(m) /\ ~IsExit(m) /\ m.to = term /\ m.base = rendered
  BY MessagesAre
<1> HIDE DEF m
<1>2. way \o <<m>> = Append(way, m) BY <1>1, HolderIs, AppendIsConcat
<1>3. InOrder(Append(way, m), peer[client].screen, term)
  BY <1>1, HolderIs, OrderAppend
<1>4. /\ EndsAt(Append(way, m), peer[client].screen, term)
      /\ HasSnapshot(Append(way, m)) <=> HasSnapshot(way) \/ IsSnapshot(m)
  BY <1>1, HolderIs, EndsAppend
<1>5. HasSnapshot(<<m>>) BY <1>1, OneMessage
<1> QED BY <1>1, <1>2, <1>3, <1>4, <1>5 DEF Sendable, After, m

\* An exit, when there is no Snapshot and nothing is owed.
LEMMA ExitSendable ==
  ASSUME FlowInv, client # 0, loop # "down", ~Failed(client), rendered = term
  PROVE  Sendable(<<Exit>>)
<1> DEFINE way == Way(writer[client])
<1>1. Exit \in Message /\ ~IsSnapshot(Exit) /\ Exit.to = term BY MessagesAre
<1>2. way \o <<Exit>> = Append(way, Exit) BY <1>1, HolderIs, AppendIsConcat
<1>3. InOrder(Append(way, Exit), peer[client].screen, term)
  BY <1>1, HolderIs, OrderAppend
<1>4. /\ EndsAt(Append(way, Exit), peer[client].screen, rendered)
      /\ HasSnapshot(Append(way, Exit)) <=> HasSnapshot(way) \/ IsSnapshot(Exit)
  BY <1>1, HolderIs, EndsAppend
<1>5. ~HasSnapshot(<<Exit>>) BY <1>1, OneMessage
<1> QED BY <1>1, <1>2, <1>3, <1>4, <1>5 DEF Sendable, After

\* A Snapshot with an exit behind it, when there is no other.
LEMMA BothSendable ==
  ASSUME FlowInv, client # 0, loop # "down", ~Failed(client), ~inFlight, NEW b \in BOOLEAN
  PROVE  /\ <<Snapshot(b)>> \o <<Exit>> \in Seq(Message)
         /\ HasSnapshot(<<Snapshot(b)>> \o <<Exit>>)
         /\ Sendable(<<Snapshot(b)>> \o <<Exit>>)
<1> DEFINE way == Way(writer[client])
<1> DEFINE m == Snapshot(b)
<1> DEFINE screen == peer[client].screen
<1>1. /\ m \in Message /\ IsSnapshot(m) /\ ~IsExit(m) /\ m.to = term /\ m.base = rendered
      /\ Exit \in Message /\ ~IsSnapshot(Exit) /\ Exit.to = term
  BY MessagesAre
<1>2. Sendable(<<m>>) BY SnapshotSendable
<1> HIDE DEF m
<1>3. <<m>> \in Seq(Message) /\ <<Exit>> \in Seq(Message) /\ HasSnapshot(<<m>>)
  BY <1>1, OneMessage
<1>4. /\ <<m>> \o <<Exit>> = Append(<<m>>, Exit)
      /\ Append(<<m>>, Exit) \in Seq(Message) /\ HasSnapshot(Append(<<m>>, Exit))
  <2>1. <<m>> \o <<Exit>> = Append(<<m>>, Exit) BY <1>1, <1>3, AppendIsConcat
  <2>2. Append(<<m>>, Exit) \in Seq(Message) BY <1>1, <1>3, AppendProperties
  <2>3. HasSnapshot(Append(<<m>>, Exit)) BY <1>1, <1>3, EndsAppend
  <2> QED BY <2>1, <2>2, <2>3
<1> DEFINE more == way \o <<m>>
<1>5. /\ more \in Seq(Message) /\ InOrder(more, screen, term) /\ EndsAt(more, screen, term)
      /\ HasSnapshot(more)
  BY <1>2, <1>3, HolderIs, ConcatProperties DEF Sendable, After
<1>6. way \o (<<m>> \o <<Exit>>) = more \o <<Exit>>
  BY <1>3, HolderIs, ConcatAssociative
<1> HIDE DEF more
<1>7. more \o <<Exit>> = Append(more, Exit) BY <1>1, <1>5, AppendIsConcat
<1>8. InOrder(Append(more, Exit), screen, term)
  BY <1>1, <1>5, HolderIs, OrderAppend
<1>9. EndsAt(Append(more, Exit), screen, term) /\ HasSnapshot(Append(more, Exit))
  BY <1>1, <1>5, HolderIs, EndsAppend
<1> QED BY <1>4, <1>6, <1>7, <1>8, <1>9 DEF Sendable, After, m

-----------------------------------------------------------------------------
(* The control channel. *)

\* A step takes an event out of it, or none.
Consumes == control' = control \/ (control # <<>> /\ control' = Tail(control))

\* No acknowledgement comes up, and none gets lost but the one that is taken.
LEMMA ConsumesIs ==
  ASSUME control \in Seq(Event), Consumes
  PROVE  /\ control' \in Seq(Event)
         /\ \A c, w : AcksOnce(control, w, c) => AcksOnce(control', w, c)
         /\ \A c : Acknowledged(control', c) => Acknowledged(control, c)
         /\ \A c : /\ Acknowledged(control, c)
                   /\ control' = control \/ Head(control) # Written(c)
                   => Acknowledged(control', c)
         /\ \A c : (\A i \in DOMAIN control : control[i].conn # c)
                      => (\A i \in DOMAIN control' : control'[i].conn # c)
<1>1. CASE control' = control
  BY <1>1
<1>2. CASE control # <<>> /\ control' = Tail(control)
  <2>1. /\ control' \in Seq(Event)
        /\ DOMAIN control = 1 .. Len(control) /\ Len(control) \in Nat \ {0}
        /\ Head(control) = control[1]
        /\ DOMAIN control' = 1 .. Len(control) - 1
        /\ \A i \in 1 .. Len(control) - 1 :
             i + 1 \in DOMAIN control /\ control'[i] = control[i + 1]
    BY <1>2, TailIs
  <2>2. \A i \in DOMAIN control :
          i = 1 \/ (i - 1 \in DOMAIN control' /\ control'[i - 1] = control[i])
    BY <2>1
  <2>3. ASSUME NEW c, NEW w, AcksOnce(control, w, c)
        PROVE  AcksOnce(control', w, c)
    <3>1. ASSUME NEW i \in DOMAIN control', NEW j \in DOMAIN control',
                 control'[i] = Written(c), control'[j] = Written(c)
          PROVE  i = j
      <4>1. i + 1 = j + 1 BY <2>1, <2>3, <3>1 DEF AcksOnce
      <4> QED BY <2>1, <4>1
    <3>2. Acknowledged(control', c) => Acknowledged(control, c)
      BY <2>1 DEF Acknowledged
    <3> QED BY <2>3, <3>1, <3>2 DEF AcksOnce
  <2>4. \A c : Acknowledged(control', c) => Acknowledged(control, c)
    BY <2>1 DEF Acknowledged
  <2>5. \A c : Acknowledged(control, c) /\ Head(control) # Written(c)
                 => Acknowledged(control', c)
    BY <2>1, <2>2 DEF Acknowledged
  <2>6. control' # control
    BY <2>1
  <2>7. \A c : (\A i \in DOMAIN control : control[i].conn # c)
                  => (\A i \in DOMAIN control' : control'[i].conn # c)
    BY <2>1
  <2> QED BY <2>1, <2>3, <2>4, <2>5, <2>6, <2>7
<1> QED BY <1>1, <1>2 DEF Consumes

\* Once the acknowledgement of a connection is taken there is no other.
LEMMA AckTaken ==
  ASSUME control \in Seq(Event), control # <<>>, control' = Tail(control),
         NEW c, NEW w, AcksOnce(control, w, c), Head(control) = Written(c)
  PROVE  /\ Acknowledged(control, c) /\ ~Acknowledged(control', c)
<1>1. /\ DOMAIN control = 1 .. Len(control) /\ Len(control) \in Nat \ {0}
      /\ Head(control) = control[1]
      /\ DOMAIN control' = 1 .. Len(control) - 1
      /\ \A i \in 1 .. Len(control) - 1 :
           i + 1 \in DOMAIN control /\ control'[i] = control[i + 1]
  BY TailIs
<1>2. Acknowledged(control, c) BY <1>1 DEF Acknowledged
<1>3. ASSUME NEW i \in DOMAIN control', control'[i] = Written(c)
      PROVE  FALSE
  <2>1. i + 1 = 1 BY <1>1, <1>3 DEF AcksOnce
  <2> QED BY <1>1, <2>1
<1> QED BY <1>2, <1>3 DEF Acknowledged

\* A thread of connection c posts an event.
LEMMA PostsIs ==
  ASSUME control \in Seq(Event), NEW e \in Event, control' = Append(control, e)
  PROVE  /\ control' \in Seq(Event)
         /\ \A c : Acknowledged(control', c) <=> Acknowledged(control, c) \/ e = Written(c)
         /\ \A c : e # Written(c) \/ ~Acknowledged(control, c) =>
              \A i, j \in DOMAIN control' :
                (\A k, l \in DOMAIN control :
                    control[k] = Written(c) /\ control[l] = Written(c) => k = l)
                  /\ control'[i] = Written(c) /\ control'[j] = Written(c) => i = j
         /\ \A c : (\A i \in DOMAIN control : control[i].conn # c) /\ e.conn # c
                      => (\A i \in DOMAIN control' : control'[i].conn # c)
<1> DEFINE n == Len(control)
<1>1. /\ control' \in Seq(Event)
      /\ DOMAIN control = 1 .. n /\ n \in Nat /\ DOMAIN control' = 1 .. n + 1
      /\ \A i \in 1 .. n : control'[i] = control[i]
      /\ control'[n + 1] = e
  BY AppendIs
<1> HIDE DEF n
<1>2. /\ n + 1 \in DOMAIN control'
      /\ \A i \in DOMAIN control : i \in DOMAIN control' /\ control'[i] = control[i]
      /\ \A i \in DOMAIN control' : (i \in DOMAIN control /\ control'[i] = control[i])
                                      \/ (i = n + 1 /\ control'[i] = e)
  BY <1>1
<1>3. \A c : Acknowledged(control', c) <=> Acknowledged(control, c) \/ e = Written(c)
  BY <1>1, <1>2 DEF Acknowledged
<1>4. ASSUME NEW c, e # Written(c) \/ ~Acknowledged(control, c),
             NEW i \in DOMAIN control', NEW j \in DOMAIN control',
             \A k, l \in DOMAIN control :
                control[k] = Written(c) /\ control[l] = Written(c) => k = l,
             control'[i] = Written(c), control'[j] = Written(c)
      PROVE  i = j
  BY <1>2, <1>4 DEF Acknowledged
<1>5. \A c : (\A i \in DOMAIN control : control[i].conn # c) /\ e.conn # c
                => (\A i \in DOMAIN control' : control'[i].conn # c)
  BY <1>2
<1> QED BY <1>1, <1>3, <1>4, <1>5

-----------------------------------------------------------------------------
(* Sending and detaching. *)

\* What the queue takes is a first part of what is sent.
LEMMA TakenIs ==
  ASSUME FlowInv, client # 0, loop # "down", NEW ms \in Seq(Message)
  PROVE  /\ \E k \in 0 .. Len(ms) : Taken(ms) = SubSeq(ms, 1, k)
         /\ writer[client].closed => Taken(ms) = <<>>
<1>1. Len(ms) \in Nat BY LenProperties
<1>2. Room \in Int
  <2>1. writer[client].queue \in Seq(Message) BY HolderIs DEF WriterThread
  <2>2. Len(writer[client].queue) \in Nat BY <2>1, LenProperties
  <2> QED BY <2>2, FlowAssumption DEF Room
<1>3. SubSeq(ms, 1, 0) = <<>> BY SubSeqEmpty
<1>4. CASE writer[client].closed
  BY <1>1, <1>3, <1>4 DEF Taken
<1>5. CASE ~writer[client].closed /\ Len(ms) <= Room
  BY <1>1, <1>5 DEF Taken
<1>6. CASE ~writer[client].closed /\ ~(Len(ms) <= Room) /\ Room < 1
  <2>1. SubSeq(ms, 1, Room) = <<>> BY <1>2, <1>6, SubSeqEmpty
  <2>2. Taken(ms) = SubSeq(ms, 1, Room) BY <1>6 DEF Taken
  <2>3. Taken(ms) = SubSeq(ms, 1, 0) BY <1>3, <2>1, <2>2, Zenon
  <2>4. 0 \in 0 .. Len(ms) BY <1>1
  <2> QED BY <1>6, <2>3, <2>4, Zenon
<1>7. CASE ~writer[client].closed /\ ~(Len(ms) <= Room) /\ ~(Room < 1)
  BY <1>1, <1>2, <1>7 DEF Taken
<1> QED BY <1>2, <1>4, <1>5, <1>6, <1>7

\* It is in order if all of it would be.
LEMMA TakenInOrder ==
  ASSUME NEW way \in Seq(Message), NEW ms \in Seq(Message), NEW screen, NEW v,
         InOrder(way \o ms, screen, v), NEW k \in 0 .. Len(ms)
  PROVE  /\ SubSeq(ms, 1, k) \in Seq(Message)
         /\ InOrder(way \o SubSeq(ms, 1, k), screen, v)
         /\ HasSnapshot(SubSeq(ms, 1, k)) => HasSnapshot(ms)
<1> DEFINE pre == SubSeq(ms, 1, k)
<1>1. /\ Len(ms) \in Nat /\ DOMAIN ms = 1 .. Len(ms)
      /\ Len(way) \in Nat
      /\ \A i \in 1 .. Len(ms) : ms[i] \in Message
  BY LenProperties, ElementOfSeq
<1>2. /\ pre \in Seq(Message) /\ Len(pre) = k
      /\ \A i \in 1 .. k : pre[i] = ms[i]
  <2>1. \A i \in 1 .. k : ms[i] \in Message BY <1>1
  <2>2. /\ pre \in Seq(Message) /\ Len(pre) = (IF 1 <= k THEN k - 1 + 1 ELSE 0)
        /\ \A i \in 1 .. k - 1 + 1 : pre[i] = ms[1 + i - 1]
    BY <1>1, <2>1, SubSeqProperties
  <2> QED BY <1>1, <2>2
<1> HIDE DEF pre
<1>3. DOMAIN pre = 1 .. k BY <1>2, LenProperties
<1>4. /\ way \o ms \in Seq(Message) /\ Len(way \o ms) = Len(way) + Len(ms)
      /\ \A i \in 1 .. Len(way) + Len(ms) :
           (way \o ms)[i] = IF i <= Len(way) THEN way[i] ELSE ms[i - Len(way)]
  BY ConcatProperties
<1>5. /\ way \o pre \in Seq(Message) /\ Len(way \o pre) = Len(way) + k
      /\ \A i \in 1 .. Len(way) + k :
           (way \o pre)[i] = IF i <= Len(way) THEN way[i] ELSE pre[i - Len(way)]
  BY <1>2, ConcatProperties
<1>6. DOMAIN (way \o pre) = 1 .. Len(way) + k BY <1>5, LenProperties
<1>7. ASSUME NEW i \in DOMAIN (way \o pre)
      PROVE  (way \o pre)[i] = (way \o ms)[i]
  <2>1. i \in 1 .. Len(way) + k /\ i \in 1 .. Len(way) + Len(ms) BY <1>1, <1>6
  <2>2. CASE i <= Len(way) BY <1>4, <1>5, <2>1, <2>2
  <2>3. CASE ~(i <= Len(way))
    <3>1. i - Len(way) \in 1 .. k BY <1>1, <2>1, <2>3
    <3> QED BY <1>2, <1>4, <1>5, <2>1, <2>3, <3>1
  <2> QED BY <2>2, <2>3
<1>8. InOrder(way \o pre, screen, v)
  <2>1. Len(way \o pre) <= Len(way \o ms) BY <1>1, <1>4, <1>5
  <2>2. \A i \in DOMAIN (way \o pre) : (way \o pre)[i] = (way \o ms)[i] BY <1>7
  <2>3. way \o pre \in Seq(Message) /\ way \o ms \in Seq(Message) BY <1>4, <1>5
  <2> DEFINE p == way \o pre
  <2> DEFINE q == way \o ms
  <2> HIDE DEF p, q
  <2>4. /\ p \in Seq(Message) /\ q \in Seq(Message) /\ Len(p) <= Len(q)
        /\ \A i \in DOMAIN p : p[i] = q[i]
        /\ InOrder(q, screen, v)
    BY <2>1, <2>2, <2>3 DEF p, q
  <2>5. InOrder(p, screen, v) BY <2>4, OrderPrefix
  <2> QED BY <2>5 DEF p
<1>9. HasSnapshot(pre) => HasSnapshot(ms)
  BY <1>1, <1>2, <1>3 DEF HasSnapshot
<1> QED BY <1>2, <1>8, <1>9 DEF pre

\* A Snapshot in two sequences is one of either.
LEMMA HasConcat ==
  ASSUME NEW q \in Seq(Message), NEW r \in Seq(Message), HasSnapshot(q \o r)
  PROVE  HasSnapshot(q) \/ HasSnapshot(r)
<1>1. /\ q \o r \in Seq(Message) /\ Len(q \o r) = Len(q) + Len(r)
      /\ \A i \in 1 .. Len(q) + Len(r) :
           (q \o r)[i] = IF i <= Len(q) THEN q[i] ELSE r[i - Len(q)]
  BY ConcatProperties
<1>2. /\ DOMAIN (q \o r) = 1 .. Len(q) + Len(r)
      /\ DOMAIN q = 1 .. Len(q) /\ DOMAIN r = 1 .. Len(r)
      /\ Len(q) \in Nat /\ Len(r) \in Nat
  BY <1>1, LenProperties
<1>3. PICK i \in 1 .. Len(q) + Len(r) : IsSnapshot((q \o r)[i])
  BY <1>2 DEF HasSnapshot
<1>4. CASE i <= Len(q)
  BY <1>1, <1>2, <1>3, <1>4 DEF HasSnapshot
<1>5. CASE ~(i <= Len(q))
  <2>1. i - Len(q) \in DOMAIN r BY <1>2, <1>5
  <2> QED BY <1>1, <1>3, <1>5, <2>1 DEF HasSnapshot
<1> QED BY <1>4, <1>5

\* What a step of the event loop leaves alone.
Steady == UNCHANGED <<loop, taken, term, exited, process, peer, said>>

\* The connections other than the client's, after a step of the event loop.
LEMMA OthersKept ==
  ASSUME FlowInv, client # 0, loop # "down", Consumes, Steady,
         NEW w, writer' = [writer EXCEPT ![client] = w],
         NEW c \in Conn, c # client
  PROVE  /\ Delivers(writer[c], peer[c], term)'
         /\ AcksOnce(control, writer[c], c)'
         /\ (c > taken => /\ Fresh(writer[c], peer[c])
                          /\ \A i \in DOMAIN control : control[i].conn # c)'
<1>1. writer'[c] = writer[c] /\ UNCHANGED <<peer, term, taken>>
  BY DEF FlowInv, FlowType, Steady
<1>2. control \in Seq(Event) BY DEF FlowInv, FlowType
<1>3. AcksOnce(control', writer[c], c) BY <1>2, ConsumesIs DEF FlowInv
<1>4. c > taken => \A i \in DOMAIN control' : control'[i].conn # c
  BY <1>2, ConsumesIs DEF FlowInv
<1> QED BY <1>1, <1>3, <1>4 DEF FlowInv

\* The client's own, when its queue gets the messages ms.
LEMMA HolderKept ==
  ASSUME FlowInv, client # 0, loop # "down", Consumes, Steady,
         NEW ms \in Seq(Message), NEW b \in BOOLEAN,
         NEW w, w = More(writer[client], ms, b),
         writer[client].closed => ms = <<>> /\ b,
         ~writer[client].closed => InOrder(Way(writer[client]) \o ms, peer[client].screen, term),
         HasSnapshot(ms) => ~inFlight
  PROVE  /\ w \in WriterThread
         /\ Delivers(w, peer[client], term)
         /\ AcksOnce(control', w, client)
<1> DEFINE old == writer[client]
<1>1. /\ client \in Conn /\ old \in WriterThread /\ Way(old) \in Seq(Message)
      /\ Delivers(old, peer[client], term) /\ AcksOnce(control, old, client)
      /\ control \in Seq(Event)
  BY HolderIs DEF FlowInv, FlowType
<1>2. /\ w \in WriterThread /\ w.stage = old.stage /\ w.closed = b
      /\ w.queue = old.queue \o ms /\ Way(w) = Way(old) \o ms
  <2> HIDE DEF old
  <2>1. /\ More(old, ms, b) \in WriterThread
        /\ More(old, ms, b).stage = old.stage /\ More(old, ms, b).closed = b
        /\ More(old, ms, b).queue = old.queue \o ms
        /\ Way(More(old, ms, b)) = Way(old) \o ms
    BY <1>1, WayMore
  <2>2. w = More(old, ms, b) BY DEF old
  <2> QED BY <2>1, <2>2
<1>3. CASE ms = <<>>
  <2>1. old.queue \in Seq(Message) BY <1>1 DEF WriterThread
  <2>2. Way(w) = Way(old) /\ w.queue = old.queue
    BY <1>1, <1>2, <1>3, <2>1, ConcatEmptySeq
  <2>3. Failed(client) => w.closed BY <1>1, <1>2 DEF Failed, Delivers
  <2>4. Delivers(w, peer[client], term) BY <1>1, <1>2, <2>2, <2>3 DEF Delivers, Failed
  <2>5. AcksOnce(control', old, client) BY <1>1, ConsumesIs
  <2>6. AcksOnce(control', w, client) BY <1>2, <2>2, <2>5 DEF AcksOnce
  <2> QED BY <1>2, <2>4, <2>6
<1>4. CASE ms # <<>>
  <2>1. ~old.closed BY <1>4
  <2>2. ~Failed(client) BY <1>1, <2>1 DEF Failed, Delivers
  <2>3. InOrder(Way(w), peer[client].screen, term) BY <1>2, <2>1
  <2>4. HasSnapshot(Way(w)) => HasSnapshot(Way(old)) \/ HasSnapshot(ms)
    BY <1>1, <1>2, HasConcat
  <2>5. HasSnapshot(ms) => old.stage # "noting" /\ ~Acknowledged(control, client)
    BY <2>2, HolderIs
  <2>6. Delivers(w, peer[client], term)
    BY <1>1, <1>2, <2>2, <2>3, <2>4, <2>5 DEF Delivers, Failed
  <2>7. AcksOnce(control', old, client) /\ (Acknowledged(control', client)
                                             => Acknowledged(control, client))
    BY <1>1, ConsumesIs
  <2>8. AcksOnce(control', w, client)
    BY <1>2, <2>4, <2>5, <2>7 DEF AcksOnce
  <2> QED BY <1>2, <2>6, <2>8
<1> QED BY <1>3, <1>4

\* detach_client leaves every connection in order.
LEMMA DetachKeeps ==
  ASSUME FlowInv, client # 0, loop # "down", Consumes, Steady,
         rendered' \in Nat, full' \in BOOLEAN,
         NEW pre \in Seq(Message),
         writer[client].closed => pre = <<>>,
         ~writer[client].closed => InOrder(Way(writer[client]) \o pre, peer[client].screen, term),
         HasSnapshot(pre) => ~inFlight,
         Detached(writer[client].queue \o pre)
  PROVE  FlowInv'
<1> DEFINE w == More(writer[client], pre, TRUE)
<1>1. writer' = [writer EXCEPT ![client] = w]
  BY HolderIs, MoreIs DEF Detached
<1>2. /\ client \in Conn /\ w \in WriterThread /\ Delivers(w, peer[client], term)
      /\ AcksOnce(control', w, client)
  BY HolderKept, HolderIs
<1>3. UNCHANGED <<peer, term, taken, loop, exited, alive, panes>>
  BY DEF Steady, process
<1>4. writer'[client] = w BY <1>1, <1>2 DEF FlowInv, FlowType
<1> HIDE DEF w
<1>5. control' \in Seq(Event) BY ConsumesIs DEF FlowInv, FlowType
<1>6. FlowType'
  <2>1. /\ client' = 0 /\ inFlight' = FALSE
        /\ due' = FALSE /\ resizing' = FALSE /\ exitDue' = FALSE
    BY DEF Detached
  <2>2. writer' \in [Conn -> WriterThread] BY <1>1, <1>2 DEF FlowInv, FlowType
  <2>3. FlowType BY DEF FlowInv
  <2>4. client' \in 0 .. taken' BY <1>3, <2>1, <2>3 DEF FlowType
  <2> QED BY <1>3, <1>5, <2>1, <2>2, <2>3, <2>4 DEF FlowType
<1>7. ASSUME NEW c \in Conn
      PROVE  /\ Delivers(writer[c], peer[c], term)'
             /\ AcksOnce(control, writer[c], c)'
             /\ (c > taken => /\ Fresh(writer[c], peer[c])
                              /\ \A i \in DOMAIN control : control[i].conn # c)'
  <2>1. CASE c # client BY <1>1, <2>1, OthersKept
  <2>2. CASE c = client
    <3>1. ~(c > taken) BY <2>2 DEF FlowInv, FlowType
    <3> QED BY <1>2, <1>3, <1>4, <2>2, <3>1
  <2> QED BY <2>1, <2>2
<1>8. client' = 0 BY DEF Detached
<1> QED BY <1>6, <1>7, <1>8 DEF FlowInv, InStep, Owes

\* send_to leaves every connection in order, if what it sends may be sent.
LEMMA SendKeeps ==
  ASSUME FlowInv, client # 0, loop # "down", Consumes, Steady,
         Head(control) # Written(client) \/ control' = control,
         NEW ms \in Seq(Message), NEW rz \in BOOLEAN, NEW sn \in BOOLEAN,
         NEW ex \in BOOLEAN, NEW fl \in BOOLEAN,
         ~Failed(client) => Sendable(ms),
         HasSnapshot(ms) => ~inFlight,
         ~sn /\ ~rz => After(ms) = term,
         Send(ms, rz, sn, ex, fl)
  PROVE  FlowInv'
<1> DEFINE drawn == \E i \in DOMAIN ms : IsSnapshot(ms[i])
<1> DEFINE way == Way(writer[client])
<1>1. drawn <=> HasSnapshot(ms) BY DEF HasSnapshot
<1>2. rendered' = After(ms) /\ full' = (fl /\ ~drawn)
  BY <1>1 DEF Send, After
<1>3. rendered' \in Nat /\ full' \in BOOLEAN
  BY <1>2, HolderIs DEF After
<1>4. ~writer[client].closed => ~Failed(client)
  BY HolderIs DEF FlowInv, Delivers, Failed
<1>5. CASE /\ ~Fits(ms)
           /\ Detached(writer[client].queue \o Taken(ms))
  <2>1. PICK k \in 0 .. Len(ms) : Taken(ms) = SubSeq(ms, 1, k) BY TakenIs
  <2>2. CASE writer[client].closed
    <3>1. Taken(ms) = <<>> BY <2>2, TakenIs
    <3>2. <<>> \in Seq(Message) /\ ~HasSnapshot(<<>>) BY DEF HasSnapshot
    <3> QED BY <1>3, <1>5, <2>2, <3>1, <3>2, DetachKeeps
  <2>3. CASE ~writer[client].closed
    <3>1. InOrder(way \o ms, peer[client].screen, term) BY <1>4, <2>3 DEF Sendable
    <3>2. /\ Taken(ms) \in Seq(Message)
          /\ InOrder(way \o Taken(ms), peer[client].screen, term)
          /\ HasSnapshot(Taken(ms)) => HasSnapshot(ms)
      BY <2>1, <3>1, HolderIs, TakenInOrder
    <3> QED BY <1>3, <1>5, <2>3, <3>2, DetachKeeps
  <2> QED BY <2>2, <2>3
<1>6. CASE /\ Fits(ms)
           /\ writer' = [writer EXCEPT ![client].queue = @ \o ms]
           /\ inFlight' = (inFlight \/ drawn)
           /\ resizing' = rz /\ due' = sn /\ exitDue' = ex
           /\ UNCHANGED client
  <2> DEFINE w == More(writer[client], ms, writer[client].closed)
  <2>1. writer[client] \in WriterThread /\ client \in Conn BY HolderIs
  <2>2. w = [writer[client] EXCEPT !.queue = @ \o ms] BY <2>1, MoreIs
  <2>3. writer' = [writer EXCEPT ![client] = w] BY <1>6, <2>2
  <2>4. writer'[client] = w BY <2>1, <2>3 DEF FlowInv, FlowType
  <2>5. writer[client].closed => ms = <<>> BY <1>6 DEF Fits
  <2>6. ~writer[client].closed => InOrder(way \o ms, peer[client].screen, term)
    BY <1>4 DEF Sendable
  <2>7. writer[client].closed \in BOOLEAN BY <2>1 DEF WriterThread
  <2>8. w \in WriterThread /\ Delivers(w, peer[client], term) /\ AcksOnce(control', w, client)
    BY <2>5, <2>6, <2>7, HolderKept
  <2>9. Way(w) = way \o ms /\ w.stage = writer[client].stage
    BY <2>1, <2>7, WayMore
  <2> HIDE DEF w
  <2>10. UNCHANGED <<peer, term, taken, loop, exited, alive, panes>>
    BY DEF Steady, process
  <2>11. control' \in Seq(Event) BY ConsumesIs DEF FlowInv, FlowType
  <2>12. FlowType'
    BY <1>3, <1>6, <2>3, <2>8, <2>10, <2>11 DEF FlowInv, FlowType
  <2>13. ASSUME NEW c \in Conn
         PROVE  /\ Delivers(writer[c], peer[c], term)'
                /\ AcksOnce(control, writer[c], c)'
                /\ (c > taken => /\ Fresh(writer[c], peer[c])
                                 /\ \A i \in DOMAIN control : control[i].conn # c)'
    <3>1. CASE c # client BY <2>3, <3>1, OthersKept
    <3>2. CASE c = client
      <4>1. ~(c > taken) BY <3>2 DEF FlowInv, FlowType
      <4> QED BY <2>4, <2>8, <2>10, <3>2, <4>1
    <3> QED BY <3>1, <3>2
  <2>14. Owes' BY <1>2, <1>6, <2>10 DEF Owes
  <2>15. InStep'
    <3>1. SUFFICES ASSUME ~Failed(client)'
                   PROVE  /\ EndsAt(Way(w), peer[client].screen, rendered')
                          /\ inFlight' <=> \/ HasSnapshot(Way(w)) \/ w.stage = "noting"
                                           \/ Acknowledged(control', client)
      BY <1>6, <2>4, <2>10 DEF InStep
    <3>2. ~Failed(client) BY <1>6, <2>4, <2>9, <3>1 DEF Failed
    <3>3. Sendable(ms) BY <3>2
    <3>4. EndsAt(Way(w), peer[client].screen, rendered')
      BY <1>2, <2>9, <3>3 DEF Sendable
    <3>5. Acknowledged(control', client) <=> Acknowledged(control, client)
      BY ConsumesIs DEF FlowInv, FlowType
    <3>6. inFlight <=> \/ HasSnapshot(way) \/ writer[client].stage = "noting"
                       \/ Acknowledged(control, client)
      BY <3>2 DEF FlowInv, InStep
    <3>7. HasSnapshot(Way(w)) <=> HasSnapshot(way) \/ drawn
      BY <1>1, <2>9, <3>3 DEF Sendable
    <3>8. inFlight' <=> inFlight \/ drawn BY <1>6
    <3> HIDE DEF drawn, way
    <3> QED BY <2>9, <3>4, <3>5, <3>6, <3>7, <3>8
  <2> QED BY <2>12, <2>13, <2>14, <2>15 DEF FlowInv
<1> QED BY <1>5, <1>6 DEF Send

-----------------------------------------------------------------------------
(* Steps that touch no connection, and steps that touch one. *)

\* No queue, no screen and no render changes.
LEMMA QuietKeeps ==
  ASSUME FlowInv, Consumes, FlowType', UNCHANGED <<taken, client, writer, peer, rendered>>,
         term' >= term, loop' # "down" => loop # "down", Owes',
         client # 0 /\ ~Failed(client) /\ loop # "down" =>
           (inFlight' <=> \/ HasSnapshot(Way(writer[client]))
                          \/ writer[client].stage = "noting"
                          \/ Acknowledged(control', client))
  PROVE  FlowInv'
<1>1. control \in Seq(Event) /\ term \in Nat /\ term' \in Nat
      /\ writer \in [Conn -> WriterThread] /\ peer \in [Conn -> Peer]
  BY DEF FlowInv, FlowType
<1>2. ASSUME NEW c \in Conn
      PROVE  /\ Delivers(writer[c], peer[c], term)'
             /\ AcksOnce(control, writer[c], c)'
             /\ (c > taken => /\ Fresh(writer[c], peer[c])
                              /\ \A i \in DOMAIN control : control[i].conn # c)'
  <2>1. writer'[c] = writer[c] /\ peer'[c] = peer[c] /\ taken' = taken OBVIOUS
  <2>2. Way(writer[c]) \in Seq(Message) BY <1>1, WayIs
  <2>3. peer[c].screen \in Nat BY <1>1 DEF Peer
  <2>4. InOrder(Way(writer[c]), peer[c].screen, term')
    BY <1>1, <2>2, OrderLater DEF FlowInv, Delivers
  <2>5. Delivers(writer[c], peer[c], term')
    BY <1>1, <2>3, <2>4 DEF FlowInv, Delivers
  <2>6. AcksOnce(control', writer[c], c) BY <1>1, ConsumesIs DEF FlowInv
  <2>7. c > taken => \A i \in DOMAIN control' : control'[i].conn # c
    BY <1>1, ConsumesIs DEF FlowInv
  <2> QED BY <2>1, <2>5, <2>6, <2>7 DEF FlowInv
<1>3. InStep' BY DEF FlowInv, InStep, Failed
<1> QED BY <1>2, <1>3 DEF FlowInv

\* The threads of connection c take a step; they may post an event.
Posts(c) == control' = control \/ \E e \in Event : e.conn = c /\ control' = Append(control, e)

LEMMA ThreadKeeps ==
  ASSUME FlowInv, NEW c \in Conn, c <= taken, FlowType', Posts(c), UNCHANGED daemon,
         \A d \in Conn \ {c} : writer'[d] = writer[d] /\ peer'[d] = peer[d],
         Delivers(writer'[c], peer'[c], term), AcksOnce(control', writer'[c], c),
         client = c => InStep'
  PROVE  FlowInv'
<1>1. control \in Seq(Event) /\ UNCHANGED <<loop, client, inFlight, taken, due, resizing,
                                             term, rendered>>
  BY DEF FlowInv, FlowType, daemon
<1>2. ASSUME NEW d \in Conn \ {c}
      PROVE  /\ AcksOnce(control', writer[d], d)
             /\ Acknowledged(control', d) <=> Acknowledged(control, d)
             /\ d > taken => \A i \in DOMAIN control' : control'[i].conn # d
  <2>1. AcksOnce(control, writer[d], d)
        /\ (d > taken => \A i \in DOMAIN control : control[i].conn # d)
    BY DEF FlowInv
  <2>2. CASE control' = control BY <2>1, <2>2
  <2>3. ASSUME NEW e \in Event, e.conn = c, control' = Append(control, e)
        PROVE  /\ AcksOnce(control', writer[d], d)
               /\ Acknowledged(control', d) <=> Acknowledged(control, d)
               /\ d > taken => \A i \in DOMAIN control' : control'[i].conn # d
    <3>1. e # Written(d) /\ e.conn # d BY <2>3 DEF Written
    <3>2. /\ Acknowledged(control', d) <=> Acknowledged(control, d)
          /\ (\A i, j \in DOMAIN control' :
                (\A k, l \in DOMAIN control :
                    control[k] = Written(d) /\ control[l] = Written(d) => k = l)
                  /\ control'[i] = Written(d) /\ control'[j] = Written(d) => i = j)
          /\ ((\A i \in DOMAIN control : control[i].conn # d)
                => (\A i \in DOMAIN control' : control'[i].conn # d))
      BY <1>1, <2>3, <3>1, PostsIs
    <3> QED BY <2>1, <3>2 DEF AcksOnce
  <2> QED BY <2>2, <2>3 DEF Posts
<1>3. ASSUME NEW d \in Conn
      PROVE  /\ Delivers(writer[d], peer[d], term)'
             /\ AcksOnce(control, writer[d], d)'
             /\ (d > taken => /\ Fresh(writer[d], peer[d])
                              /\ \A i \in DOMAIN control : control[i].conn # d)'
  <2>1. CASE d # c
    <3>1. writer'[d] = writer[d] /\ peer'[d] = peer[d] BY <2>1
    <3> QED BY <1>1, <1>2, <2>1, <3>1 DEF FlowInv
  <2>2. CASE d = c
    <3>1. ~(c > taken') BY <1>1 DEF Conn, FlowInv, FlowType
    <3> QED BY <1>1, <2>2, <3>1
  <2> QED BY <2>1, <2>2
<1>4. InStep'
  <2>1. CASE client # c /\ client # 0 /\ loop # "down"
    <3>1. client \in Conn \ {c} BY <2>1, HolderIs
    <3>2. /\ writer'[client] = writer[client] /\ peer'[client] = peer[client]
          /\ Acknowledged(control', client) <=> Acknowledged(control, client)
      BY <1>2, <3>1
    <3> QED BY <1>1, <2>1, <3>2 DEF FlowInv, InStep, Failed
  <2> QED BY <1>1, <2>1 DEF InStep
<1>5. Owes' BY <1>1 DEF FlowInv, Owes
<1> QED BY <1>3, <1>4, <1>5 DEF FlowInv

-----------------------------------------------------------------------------
(* The steps one by one. *)

LEMMA UnbornIs == /\ Unborn \in WriterThread /\ Way(Unborn) = <<>>
                  /\ ~HasSnapshot(<<>>) /\ \A s, v : InOrder(<<>>, s, v)
<1>1. Reply \in Message BY DEF Reply, Message
<1>2. <<>> \in Seq(Message) OBVIOUS
<1>3. Unborn \in WriterThread BY <1>1, <1>2 DEF Unborn, WriterThread
<1>4. Unborn.stage # "writing" /\ Unborn.queue = <<>> BY DEF Unborn
<1>5. Way(Unborn) = <<>> BY <1>3, <1>4, WayIs
<1>6. ~HasSnapshot(<<>>) /\ \A s, v : InOrder(<<>>, s, v)
  BY DEF HasSnapshot, InOrder
<1> QED BY <1>3, <1>5, <1>6

LEMMA FlowInit == Init => FlowInv
<1> SUFFICES ASSUME Init PROVE FlowInv
  OBVIOUS
<1>1. MaxConns \in Nat BY FlowAssumption
<1>2. \A c \in Conn : peer[c] = [line |-> "none", heard |-> FALSE, screen |-> 0, exit |-> 0]
  BY DEF Init
<1>3. [line |-> "none", heard |-> FALSE, screen |-> 0, exit |-> 0] \in Peer
  BY DEF Peer
<1>4. FlowType
  <2>1. writer \in [Conn -> WriterThread] BY UnbornIs DEF Init
  <2>2. peer \in [Conn -> Peer] BY <1>3 DEF Init
  <2>3. taken \in 0 .. MaxConns /\ client \in 0 .. taken BY <1>1 DEF Init
  <2>4. panes \in Seq({"output", "exited"}) /\ control \in Seq(Event) BY DEF Init
  <2>5. loop \in {"turning", "waiting", "down"} BY DEF Init
  <2>6. term \in Nat \ {0} /\ rendered \in Nat BY DEF Init
  <2>7. inFlight \in BOOLEAN /\ due \in BOOLEAN /\ resizing \in BOOLEAN BY Zenon DEF Init
  <2>8. exitDue \in BOOLEAN /\ exited \in BOOLEAN /\ full \in BOOLEAN /\ alive \in BOOLEAN
    BY Zenon DEF Init
  <2> QED BY <2>1, <2>2, <2>3, <2>4, <2>5, <2>6, <2>7, <2>8, Zenon DEF FlowType
<1>5. ASSUME NEW c \in Conn
      PROVE  /\ Delivers(writer[c], peer[c], term)
             /\ AcksOnce(control, writer[c], c)
             /\ Fresh(writer[c], peer[c]) /\ \A i \in DOMAIN control : control[i].conn # c
  <2>1. writer[c] = Unborn /\ term = 1 /\ control = <<>> BY DEF Init
  <2>2. Unborn.stage = "unborn" BY DEF Unborn
  <2>3. /\ peer[c].line = "none" /\ ~peer[c].heard
        /\ peer[c].screen = 0 /\ peer[c].exit = 0
    BY <1>2
  <2>4. Delivers(Unborn, peer[c], 1) BY <2>2, <2>3, UnbornIs DEF Delivers
  <2>5. AcksOnce(<<>>, Unborn, c) BY DEF AcksOnce, Acknowledged
  <2> QED BY <2>1, <2>3, <2>4, <2>5 DEF Fresh
<1>6. client = 0 BY DEF Init
<1> QED BY <1>4, <1>5, <1>6 DEF FlowInv, InStep, Owes

\* The pty reader thread, and the event loop when it draws, applies a size or is
\* asked to stop.
LEMMA DrawingKeeps ==
  ASSUME FlowInv,
         PtyOutput \/ PtyExit \/ PaneOutput \/ PaneExited \/ ApplyResize \/ Shutdown
  PROVE  FlowInv'
<1>1. FlowType BY DEF FlowInv
<1>2. /\ control' = control
      /\ UNCHANGED <<taken, client, writer, peer, rendered, inFlight>>
      /\ loop' # "down" => loop # "down"
  BY DEF PtyOutput, PtyExit, PaneOutput, PaneExited, ApplyResize, Shutdown, Turning,
         daemon, connections
<1>3. panes' \in Seq({"output", "exited"})
  <2>1. CASE PtyOutput BY <1>1, <2>1, AppendProperties DEF FlowType, PtyOutput
  <2>2. CASE PtyExit BY <1>1, <2>2, AppendProperties DEF FlowType, PtyExit
  <2>3. CASE PaneOutput BY <1>1, <2>3, HeadTailProperties DEF FlowType, PaneOutput
  <2>4. CASE PaneExited BY <1>1, <2>4, HeadTailProperties DEF FlowType, PaneExited
  <2>5. CASE ApplyResize \/ Shutdown
    BY <1>1, <2>5 DEF FlowType, ApplyResize, Shutdown, process
  <2> QED BY <2>1, <2>2, <2>3, <2>4, <2>5
<1>4. term' \in Nat \ {0} /\ term' >= term
  BY <1>1 DEF FlowType, PtyOutput, PtyExit, PaneOutput, PaneExited, ApplyResize, Shutdown,
              daemon
<1>5. /\ loop' \in {"turning", "waiting", "down"} /\ alive' \in BOOLEAN
      /\ due' \in BOOLEAN /\ resizing' \in BOOLEAN /\ exitDue' \in BOOLEAN
      /\ exited' \in BOOLEAN /\ full' \in BOOLEAN
  BY <1>1 DEF FlowType, PtyOutput, PtyExit, PaneOutput, PaneExited, ApplyResize, Shutdown,
              daemon, process
<1>6. FlowType' BY <1>1, <1>2, <1>3, <1>4, <1>5 DEF FlowType
<1>7. Owes'
  BY DEF FlowInv, Owes, PtyOutput, PtyExit, PaneOutput, PaneExited, ApplyResize, Shutdown,
         daemon, connections
<1>8. client # 0 /\ ~Failed(client) /\ loop # "down" =>
        (inFlight' <=> \/ HasSnapshot(Way(writer[client]))
                       \/ writer[client].stage = "noting"
                       \/ Acknowledged(control', client))
  BY <1>2 DEF FlowInv, InStep
<1> QED BY <1>2, <1>4, <1>6, <1>7, <1>8, QuietKeeps DEF Consumes

\* What Consume and the handlers' frames come to.
LEMMA ConsumeIs ==
  ASSUME FlowInv, Consume, control # <<>>, Turning
  PROVE  Consumes /\ Steady /\ loop # "down" /\ control' \in Seq(Event)
<1>1. control \in Seq(Event) BY DEF FlowInv, FlowType
<1>2. Consumes /\ Steady /\ loop # "down" BY DEF Consume, Consumes, Steady, Turning
<1> QED BY <1>1, <1>2, ConsumesIs

\* Events that send nothing.
LEMMA NotingKeeps ==
  ASSUME FlowInv,
         \/ HandleStale \/ HandleResize \/ HandleWritten
         \/ Arrived("scroll") /\ FromClient /\ Consume /\ inFlight /\ due' = TRUE
            /\ UNCHANGED <<client, inFlight, resizing, exitDue, rendered, full, writer>>
  PROVE  FlowInv'
<1>1. FlowType BY DEF FlowInv
<1>2. /\ Consume /\ control # <<>> /\ Turning /\ control' = Tail(control)
      /\ UNCHANGED <<client, exitDue, rendered, full, writer>>
      /\ due' \in BOOLEAN /\ resizing' \in BOOLEAN /\ inFlight' \in BOOLEAN
  BY <1>1 DEF HandleStale, HandleResize, HandleWritten, Arrived, Consume, FlowType
<1>3. /\ Consumes /\ loop # "down" /\ control' \in Seq(Event)
      /\ UNCHANGED <<loop, taken, term, exited, alive, panes, peer>>
  BY <1>2, ConsumeIs DEF Steady, process
<1>4. FlowType' BY <1>1, <1>2, <1>3 DEF FlowType
<1>5. Owes'
  BY <1>2, <1>3 DEF FlowInv, Owes, HandleStale, HandleResize, HandleWritten
<1>6. term \in Nat /\ control \in Seq(Event) BY <1>1 DEF FlowType
<1>7. ASSUME client # 0, ~Failed(client)
      PROVE  inFlight' <=> \/ HasSnapshot(Way(writer[client]))
                           \/ writer[client].stage = "noting"
                           \/ Acknowledged(control', client)
  <2>1. inFlight <=> \/ HasSnapshot(Way(writer[client]))
                     \/ writer[client].stage = "noting"
                     \/ Acknowledged(control, client)
    BY <1>3, <1>7 DEF FlowInv, InStep
  <2>2. Acknowledged(control', client) => Acknowledged(control, client)
    BY <1>3, <1>6, ConsumesIs
  <2>3. Head(control) # Written(client) =>
          (Acknowledged(control, client) => Acknowledged(control', client))
    BY <1>3, <1>6, ConsumesIs
  <2>4. CASE HandleWritten
    <3>1. Head(control) \in Event BY <1>2, <1>6, TailIs
    <3>2. Head(control).kind = "written" /\ Head(control).conn = client /\ inFlight' = FALSE
      BY <2>4 DEF HandleWritten, Arrived, FromClient
    <3>3. Head(control) = Written(client) BY <3>1, <3>2 DEF Event, Written
    <3>4. AcksOnce(control, writer[client], client) BY <1>3, <1>7, HolderIs DEF FlowInv
    <3>5. Acknowledged(control, client) /\ ~Acknowledged(control', client)
      BY <1>2, <1>6, <3>3, <3>4, AckTaken
    <3> QED BY <3>2, <3>4, <3>5 DEF AcksOnce
  <2>5. CASE ~HandleWritten
    <3>1. Head(control) # Written(client) /\ inFlight' = inFlight
      BY <2>5 DEF HandleStale, HandleResize, Arrived, FromClient, Written
    <3> QED BY <2>1, <2>2, <2>3, <3>1
  <2> QED BY <2>4, <2>5
<1>8. term' >= term BY <1>3, <1>6
<1> QED BY <1>2, <1>3, <1>4, <1>5, <1>7, <1>8, QuietKeeps

\* Every way to lose the client.
LEMMA LosingKeeps ==
  ASSUME FlowInv, ExpireLease \/ HandleDetach \/ HandleLoss
  PROVE  FlowInv'
<1>1. FlowType BY DEF FlowInv
<1>2. Turning /\ loop # "down" BY DEF ExpireLease, HandleDetach, HandleLoss, Arrived, Turning
<1>3. Consumes /\ Steady
  <2>1. CASE ExpireLease BY <2>1 DEF ExpireLease, Consumes, Steady
  <2>2. CASE HandleDetach BY <1>2, <2>2, ConsumeIs DEF HandleDetach, Arrived
  <2>3. CASE HandleLoss BY <1>2, <2>3, ConsumeIs DEF HandleLoss, Arrived
  <2> QED BY <2>1, <2>2, <2>3
<1>4. client # 0
  <2>1. CASE ExpireLease BY <2>1 DEF ExpireLease
  <2>2. CASE HandleDetach \/ HandleLoss
    <3>1. control # <<>> /\ Head(control).conn = client
      BY <2>2 DEF HandleDetach, HandleLoss, Arrived, FromClient
    <3>2. Head(control) \in Event BY <1>1, <3>1, TailIs DEF FlowType
    <3> QED BY <3>1, <3>2 DEF Event, Conn
  <2> QED BY <2>1, <2>2
<1>5. rendered' \in Nat /\ full' \in BOOLEAN
  BY <1>1 DEF FlowType, ExpireLease, HandleDetach, HandleLoss
<1>6. writer[client] \in WriterThread /\ writer[client].queue \in Seq(Message)
  BY <1>2, <1>4, HolderIs DEF WriterThread
<1>7. CASE Detached(writer[client].queue)
  <2>1. /\ <<>> \in Seq(Message) /\ ~HasSnapshot(<<>>)
        /\ writer[client].queue \o <<>> = writer[client].queue
        /\ Way(writer[client]) \o <<>> = Way(writer[client])
    BY <1>2, <1>4, <1>6, HolderIs, ConcatEmptySeq, UnbornIs
  <2>2. InOrder(Way(writer[client]), peer[client].screen, term) BY <1>2, <1>4, HolderIs
  <2> QED BY <1>2, <1>3, <1>4, <1>5, <1>7, <2>1, <2>2, DetachKeeps
<1>8. CASE Detached(writer[client].queue \o Taken(<<Reply>>))
  <2>1. <<Reply>> \in Seq(Message) /\ ~HasSnapshot(<<Reply>>) BY MessagesAre, OneMessage
  <2>2. PICK k \in 0 .. Len(<<Reply>>) : Taken(<<Reply>>) = SubSeq(<<Reply>>, 1, k)
    BY <1>2, <1>4, <2>1, TakenIs
  <2>3. writer[client].closed => Taken(<<Reply>>) = <<>>
    BY <1>2, <1>4, <2>1, TakenIs
  <2>4. CASE writer[client].closed
    <3>1. <<>> \in Seq(Message) /\ ~HasSnapshot(<<>>) BY UnbornIs
    <3> QED BY <1>2, <1>3, <1>4, <1>5, <1>8, <2>3, <2>4, <3>1, DetachKeeps
  <2>5. CASE ~writer[client].closed
    <3>1. ~Failed(client)
      BY <1>2, <1>4, <2>5, HolderIs DEF FlowInv, Delivers, Failed
    <3>2. InOrder(Way(writer[client]) \o <<Reply>>, peer[client].screen, term)
      BY <1>2, <1>4, <3>1, ReplySendable DEF Sendable
    <3>3. /\ Taken(<<Reply>>) \in Seq(Message) /\ ~HasSnapshot(Taken(<<Reply>>))
          /\ InOrder(Way(writer[client]) \o Taken(<<Reply>>), peer[client].screen, term)
      BY <1>2, <1>4, <2>1, <2>2, <3>2, HolderIs, TakenInOrder
    <3> QED BY <1>2, <1>3, <1>4, <1>5, <1>8, <2>5, <3>3, DetachKeeps
  <2> QED BY <2>4, <2>5
<1> QED BY <1>7, <1>8 DEF ExpireLease, HandleDetach, HandleLoss

\* Every send_to of a client that stays.
LEMMA SendingKeeps ==
  ASSUME FlowInv,
         \/ HandleScroll /\ ~inFlight
         \/ HandleHeartbeat \/ Flush
  PROVE  FlowInv'
<1>1. FlowType /\ Owes BY DEF FlowInv
<1>2. Turning /\ loop # "down" BY DEF HandleScroll, HandleHeartbeat, Flush, Arrived, Turning
<1>3. Consumes /\ Steady
  <2>1. CASE Flush BY <2>1 DEF Flush, Consumes, Steady
  <2>2. CASE HandleScroll BY <1>2, <2>2, ConsumeIs DEF HandleScroll, Arrived
  <2>3. CASE HandleHeartbeat BY <1>2, <2>3, ConsumeIs DEF HandleHeartbeat, Arrived
  <2> QED BY <2>1, <2>2, <2>3
<1>4. client # 0
  <2>1. CASE Flush BY <2>1 DEF Flush
  <2>2. CASE HandleScroll \/ HandleHeartbeat
    <3>1. control # <<>> /\ Head(control).conn = client
      BY <2>2 DEF HandleScroll, HandleHeartbeat, Arrived, FromClient
    <3>2. Head(control) \in Event BY <1>1, <3>1, TailIs DEF FlowType
    <3> QED BY <3>1, <3>2 DEF Event, Conn
  <2> QED BY <2>1, <2>2
<1>5. /\ full \in BOOLEAN /\ due \in BOOLEAN /\ resizing \in BOOLEAN
      /\ exitDue \in BOOLEAN /\ inFlight \in BOOLEAN
  BY <1>1 DEF FlowType
<1>6. CASE HandleScroll /\ ~inFlight
  <2>1. Send(<<Snapshot(full)>>, resizing, FALSE, exitDue, full)
    BY <1>6 DEF HandleScroll
  <2>2. Head(control) # Written(client) BY <1>6 DEF HandleScroll, Arrived, Written
  <2>3. <<Snapshot(full)>> \in Seq(Message) /\ HasSnapshot(<<Snapshot(full)>>)
    BY <1>5, MessagesAre, OneMessage
  <2>4. ~Failed(client) => Sendable(<<Snapshot(full)>>)
    BY <1>2, <1>4, <1>5, <1>6, SnapshotSendable
  <2>5. After(<<Snapshot(full)>>) = term BY <2>3 DEF After
  <2> QED BY <1>2, <1>3, <1>4, <1>5, <1>6, <2>1, <2>2, <2>3, <2>4, <2>5, SendKeeps
<1>7. CASE HandleHeartbeat
  <2>1. Send(<<Reply>>, resizing, due, exitDue, full) BY <1>7 DEF HandleHeartbeat
  <2>2. Head(control) # Written(client) BY <1>7 DEF HandleHeartbeat, Arrived, Written
  <2>3. <<Reply>> \in Seq(Message) /\ ~HasSnapshot(<<Reply>>) BY MessagesAre, OneMessage
  <2>4. ~Failed(client) => Sendable(<<Reply>>) BY <1>2, <1>4, ReplySendable
  <2>5. ~due /\ ~resizing => After(<<Reply>>) = term BY <1>1, <1>4, <2>3 DEF After, Owes
  <2> QED BY <1>2, <1>3, <1>4, <1>5, <2>1, <2>2, <2>3, <2>4, <2>5, SendKeeps
<1>8. CASE Flush
  <2> DEFINE held == inFlight \/ resizing
  <2> DEFINE snap == IF due /\ ~held THEN <<Snapshot(full)>> ELSE <<>>
  <2> DEFINE exit == IF exitDue /\ ~held THEN <<Exit>> ELSE <<>>
  <2>1. /\ Send(snap \o exit, resizing, due /\ held, exitDue /\ held, full)
        /\ control' = control
    BY <1>8 DEF Flush
  <2>2. /\ <<Snapshot(full)>> \in Seq(Message) /\ HasSnapshot(<<Snapshot(full)>>)
        /\ <<Exit>> \in Seq(Message) /\ ~HasSnapshot(<<Exit>>)
        /\ <<>> \in Seq(Message) /\ ~HasSnapshot(<<>>)
    BY <1>5, MessagesAre, OneMessage
  <2>3. /\ snap \o exit \in Seq(Message)
        /\ ~Failed(client) => Sendable(snap \o exit)
        /\ HasSnapshot(snap \o exit) => ~inFlight
        /\ ~(due /\ held) /\ ~resizing => After(snap \o exit) = term
    <3>1. CASE held
      <4>1. snap \o exit = <<>> BY <2>2, <3>1, ConcatEmptySeq
      <4>2. ~due /\ ~resizing => After(<<>>) = term BY <1>1, <1>4, <2>2 DEF After, Owes
      <4> HIDE DEF snap, exit
      <4> QED BY <1>2, <1>4, <2>2, <3>1, <4>1, <4>2, NothingSendable
    <3>2. CASE ~held /\ due /\ exitDue
      <4>1. snap \o exit = <<Snapshot(full)>> \o <<Exit>> BY <3>2
      <4>2. /\ ~Failed(client) => Sendable(<<Snapshot(full)>> \o <<Exit>>)
            /\ <<Snapshot(full)>> \o <<Exit>> \in Seq(Message)
            /\ HasSnapshot(<<Snapshot(full)>> \o <<Exit>>)
        <5>1. ~Failed(client) => Sendable(<<Snapshot(full)>> \o <<Exit>>)
          BY <1>2, <1>4, <1>5, <3>2, BothSendable
        <5>2. Exit \in Message /\ Snapshot(full) \in Message /\ IsSnapshot(Snapshot(full))
          BY <1>5, MessagesAre
        <5>3. <<Snapshot(full)>> \o <<Exit>> = Append(<<Snapshot(full)>>, Exit)
          BY <2>2, <5>2, AppendIsConcat
        <5>4. Append(<<Snapshot(full)>>, Exit) \in Seq(Message)
          BY <2>2, <5>2, AppendProperties
        <5>5. HasSnapshot(Append(<<Snapshot(full)>>, Exit))
          BY <2>2, <5>2, EndsAppend
        <5> QED BY <5>1, <5>3, <5>4, <5>5
      <4> HIDE DEF snap, exit
      <4> QED BY <3>2, <4>1, <4>2 DEF After
    <3>3. CASE ~held /\ due /\ ~exitDue
      <4>1. snap \o exit = <<Snapshot(full)>> BY <2>2, <3>3, ConcatEmptySeq
      <4>2. ~Failed(client) => Sendable(<<Snapshot(full)>>)
        BY <1>2, <1>4, <1>5, <3>3, SnapshotSendable
      <4> HIDE DEF snap, exit
      <4> QED BY <2>2, <3>3, <4>1, <4>2 DEF After
    <3>4. CASE ~held /\ ~due
      <4>1. exitDue BY <1>8, <3>4 DEF Flush
      <4>2. snap \o exit = <<Exit>> BY <2>2, <3>4, <4>1, ConcatEmptySeq
      <4>3. rendered = term BY <1>1, <1>4, <3>4 DEF Owes
      <4>4. ~Failed(client) => Sendable(<<Exit>>) BY <1>2, <1>4, <4>3, ExitSendable
      <4> HIDE DEF snap, exit
      <4> QED BY <2>2, <4>2, <4>3, <4>4 DEF After
    <3> HIDE DEF snap, exit
    <3> QED BY <1>5, <3>1, <3>2, <3>3, <3>4
  <2> HIDE DEF snap, exit
  <2>4. (due /\ held) \in BOOLEAN /\ (exitDue /\ held) \in BOOLEAN BY <1>5
  <2> QED BY <1>2, <1>3, <1>4, <1>5, <2>1, <2>3, <2>4, SendKeeps
<1> QED BY <1>6, <1>7, <1>8

\* Takeover: the newcomer gets an answer and a full Snapshot, the one before it
\* is closed.
LEMMA AcceptKeeps == ASSUME FlowInv, Accept PROVE FlowInv'
<1> DEFINE c == taken + 1
<1> DEFINE v == IF exited THEN term + 1 ELSE term
<1> DEFINE frame == [kind |-> "snapshot", base |-> rendered, to |-> v, full |-> TRUE]
<1> DEFINE w == [writer[c] EXCEPT !.stage = "idle", !.queue = <<Reply, frame>>]
<1>1. /\ FlowType /\ Turning /\ taken < MaxConns
      /\ MaxConns \in Nat
  BY FlowAssumption DEF FlowInv, Accept
<1>2. c \in Conn /\ c \in 1 .. MaxConns /\ c > taken /\ taken \in Nat
  BY <1>1 DEF Conn, FlowType
<1>3. /\ taken' = c /\ client' = c /\ inFlight' = TRUE /\ due' = FALSE
      /\ resizing' = FALSE /\ exitDue' = FALSE /\ term' = v /\ rendered' = v
      /\ full' = FALSE /\ exited' = FALSE /\ alive' = (alive \/ exited)
      /\ UNCHANGED <<loop, panes, control>>
      /\ peer' = [peer EXCEPT ![c].line = "open", ![c].heard = TRUE]
  BY DEF Accept
<1>4. writer' = [d \in Conn |->
                   IF d = c THEN w
                   ELSE IF d = client THEN [writer[d] EXCEPT !.closed = TRUE]
                   ELSE writer[d]]
  BY DEF Accept
<1>5. v \in Nat \ {0} /\ v >= term /\ term \in Nat \ {0} /\ rendered \in Nat
  BY <1>1 DEF FlowType
<1>6. /\ writer[c] = Unborn /\ peer[c].screen = 0 /\ peer[c].exit = 0
      /\ \A i \in DOMAIN control : control[i].conn # c
  <2>1. Delivers(writer[c], peer[c], term) /\ Fresh(writer[c], peer[c])
        /\ \A i \in DOMAIN control : control[i].conn # c
    BY <1>2 DEF FlowInv
  <2>2. peer[c] \in Peer BY <1>1, <1>2 DEF FlowType
  <2>3. peer[c].exit \in Nat /\ peer[c].exit <= 0 BY <2>1, <2>2 DEF Fresh, Delivers, Peer
  <2> QED BY <2>1, <2>3 DEF Fresh
<1>7. /\ Reply \in Message /\ ~IsSnapshot(Reply) /\ ~IsExit(Reply)
      /\ frame \in Message /\ IsSnapshot(frame) /\ ~IsExit(frame)
      /\ frame.to = v /\ frame.full /\ frame.to # 0
  BY <1>5 DEF Reply, Message, IsSnapshot, IsExit
<1> HIDE DEF v, frame
<1>8. /\ w \in WriterThread /\ w.stage = "idle" /\ w.queue = <<Reply, frame>>
      /\ w.queue \in Seq(Message) /\ ~w.closed
  <2>1. <<Reply, frame>> \in Seq(Message) BY <1>7
  <2>2. Unborn \in WriterThread /\ ~Unborn.closed BY UnbornIs DEF Unborn
  <2> QED BY <1>6, <2>1, <2>2 DEF WriterThread
<1> HIDE DEF w
<1> DEFINE q == <<Reply, frame>>
<1>9. Way(w) = q /\ q \in Seq(Message) BY <1>8, WayIs
<1>10. /\ DOMAIN q = {1, 2} /\ q[1] = Reply /\ q[2] = frame
  OBVIOUS
<1> HIDE DEF q
<1>11. /\ InOrder(q, 0, v) /\ HasSnapshot(q) /\ EndsAt(q, 0, v)
  <2>1. HasSnapshot(q) BY <1>7, <1>10 DEF HasSnapshot
  <2>2. InOrder(q, 0, v) BY <1>5, <1>7, <1>10 DEF InOrder
  <2>3. EndsAt(q, 0, v) BY <1>7, <1>10, <2>1 DEF EndsAt
  <2> QED BY <2>1, <2>2, <2>3
<1>12. /\ peer' \in [Conn -> Peer]
       /\ \A d \in Conn \ {c} : peer'[d] = peer[d]
       /\ peer'[c].screen = 0 /\ peer'[c].exit = 0
  <2>1. peer[c] \in Peer BY <1>1, <1>2 DEF FlowType
  <2>2. peer'[c] \in Peer /\ peer'[c].screen = peer[c].screen /\ peer'[c].exit = peer[c].exit
    BY <1>1, <1>2, <1>3, <2>1 DEF FlowType, Peer
  <2>3. \A d \in Conn \ {c} : peer'[d] = peer[d] BY <1>1, <1>2, <1>3 DEF FlowType
  <2>4. peer' \in [Conn -> Peer] BY <1>1, <1>2, <1>3, <2>1, <2>2 DEF FlowType, Peer
  <2> QED BY <1>6, <2>2, <2>3, <2>4
<1>13. ASSUME NEW d \in Conn \ {c}
       PROVE  /\ writer'[d] \in WriterThread
              /\ writer'[d].stage = writer[d].stage /\ writer'[d].queue = writer[d].queue
              /\ Way(writer'[d]) = Way(writer[d])
              /\ writer[d].closed => writer'[d].closed
              /\ d > taken + 1 => writer'[d] = writer[d]
  <2>1. writer[d] \in WriterThread BY <1>1 DEF FlowType
  <2>2. CASE d = client
    <3>1. writer'[d] = [writer[d] EXCEPT !.closed = TRUE] BY <1>4, <2>2
    <3>2. /\ writer'[d] \in WriterThread /\ writer'[d].closed
          /\ writer'[d].stage = writer[d].stage /\ writer'[d].queue = writer[d].queue
          /\ writer'[d].message = writer[d].message
      BY <2>1, <3>1 DEF WriterThread
    <3>3. ~(d > taken + 1) BY <1>1, <2>2 DEF FlowType
    <3> QED BY <3>2, <3>3 DEF Way
  <2>3. CASE d # client BY <1>4, <2>1, <2>3
  <2> QED BY <2>2, <2>3
<1>14. writer'[c] = w BY <1>2, <1>4
<1>15. writer' \in [Conn -> WriterThread]
  <2>1. \A d \in Conn : writer'[d] \in WriterThread BY <1>8, <1>13, <1>14
  <2>2. DOMAIN writer' = Conn /\ writer' = [d \in Conn |-> writer'[d]] BY <1>4
  <2> QED BY <2>1, <2>2
<1>16. FlowType'
  <2>1. client' \in 0 .. taken' /\ taken' \in 0 .. MaxConns BY <1>2, <1>3
  <2> QED BY <1>1, <1>3, <1>5, <1>12, <1>15, <2>1 DEF FlowType
<1>17. ASSUME NEW d \in Conn
       PROVE  /\ Delivers(writer[d], peer[d], term)'
              /\ AcksOnce(control, writer[d], d)'
              /\ (d > taken => /\ Fresh(writer[d], peer[d])
                               /\ \A i \in DOMAIN control : control[i].conn # d)'
  <2>1. CASE d = c
    <3>1. Delivers(w, peer'[c], v)
      BY <1>5, <1>8, <1>9, <1>11, <1>12 DEF Delivers
    <3>2. ~Acknowledged(control, c) BY <1>6 DEF Acknowledged, Written
    <3>3. AcksOnce(control, w, c) BY <1>6, <3>2 DEF AcksOnce, Written
    <3>4. ~(c > taken') BY <1>2, <1>3
    <3> QED BY <1>3, <1>14, <2>1, <3>1, <3>3, <3>4
  <2>2. CASE d # c
    <3>1. Delivers(writer[d], peer[d], term) /\ AcksOnce(control, writer[d], d)
      BY DEF FlowInv
    <3>2. writer[d] \in WriterThread /\ peer[d] \in Peer BY <1>1 DEF FlowType
    <3>3. Way(writer[d]) \in Seq(Message) /\ peer[d].screen \in Nat
      BY <3>2, WayIs DEF Peer
    <3>4. InOrder(Way(writer[d]), peer[d].screen, v)
      BY <1>5, <3>1, <3>3, OrderLater DEF Delivers
    <3>5. Delivers(writer'[d], peer'[d], v)
      BY <1>5, <1>12, <1>13, <2>2, <3>1, <3>3, <3>4 DEF Delivers
    <3>6. AcksOnce(control, writer'[d], d) BY <1>13, <2>2, <3>1 DEF AcksOnce
    <3>7. d > c => d > taken /\ d > taken + 1 BY <1>1, <1>2 DEF Conn
    <3> QED BY <1>3, <1>12, <1>13, <2>2, <3>5, <3>6, <3>7 DEF FlowInv
  <2> QED BY <2>1, <2>2
<1>18. InStep' BY <1>3, <1>9, <1>11, <1>12, <1>14 DEF InStep
<1>19. Owes' BY <1>3 DEF Owes
<1> QED BY <1>16, <1>17, <1>18, <1>19 DEF FlowInv

\* The end of the process takes all of its threads.
LEMMA ShutdownKeeps == ASSUME FlowInv, ShutdownSessions PROVE FlowInv'
<1>1. /\ FlowType /\ loop' = "down" /\ panes' = <<>> /\ control' = <<>> /\ alive' = FALSE
      /\ writer' = [c \in Conn |-> Unborn]
      /\ UNCHANGED <<client, inFlight, taken, due, resizing, exitDue, term, exited,
                     rendered, full, peer>>
  BY DEF FlowInv, ShutdownSessions
<1>2. FlowType'
  <2>1. writer' \in [Conn -> WriterThread] BY <1>1, UnbornIs
  <2>2. panes' \in Seq({"output", "exited"}) /\ control' \in Seq(Event) BY <1>1
  <2> QED BY <1>1, <2>1, <2>2 DEF FlowType
<1>3. ASSUME NEW c \in Conn
      PROVE  /\ Delivers(writer[c], peer[c], term)'
             /\ AcksOnce(control, writer[c], c)'
             /\ (c > taken => /\ Fresh(writer[c], peer[c])
                              /\ \A i \in DOMAIN control : control[i].conn # c)'
  <2>1. writer'[c] = Unborn /\ control' = <<>> /\ UNCHANGED <<peer, term, taken>>
    BY <1>1
  <2>2. Unborn.stage = "unborn" BY DEF Unborn
  <2>3. peer[c].screen <= term /\ peer[c].exit <= peer[c].screen
    BY DEF FlowInv, Delivers
  <2>4. Delivers(Unborn, peer[c], term) BY <2>2, <2>3, UnbornIs DEF Delivers
  <2>5. AcksOnce(<<>>, Unborn, c) BY DEF AcksOnce, Acknowledged
  <2>6. c > taken => Fresh(Unborn, peer[c]) BY DEF FlowInv, Fresh
  <2> QED BY <2>1, <2>4, <2>5, <2>6
<1>4. InStep' /\ Owes' BY <1>1 DEF FlowInv, InStep, Owes
<1> QED BY <1>2, <1>3, <1>4 DEF FlowInv

\* The writer thread.
LEMMA WriterKeeps == ASSUME FlowInv, NEW c \in Conn, Writer(c) PROVE FlowInv'
<1> DEFINE w == writer[c]
<1> DEFINE p == peer[c]
<1>1. /\ FlowType /\ w \in WriterThread /\ p \in Peer /\ Way(w) \in Seq(Message)
      /\ w.queue \in Seq(Message) /\ w.message \in Message /\ p.screen \in Nat
      /\ p.exit \in Nat /\ term \in Nat \ {0} /\ control \in Seq(Event)
      /\ Delivers(w, p, term) /\ AcksOnce(control, w, c)
      /\ client = c => rendered \in Nat
  BY WayIs DEF FlowInv, FlowType, WriterThread, Peer
<1>2. loop # "down" /\ UNCHANGED <<daemon, process, said>>
  BY DEF Writer, TakeMessage, Write, NoteWritten, WriteFails, NoteFailure, EndWriter,
         WriterTurn
<1>3. UNCHANGED <<loop, client, inFlight, taken, due, resizing, exitDue, term, exited,
                  rendered, full, alive, panes>>
  BY <1>2 DEF daemon, process
<1>4. c <= taken
  <2>1. SUFFICES ASSUME c > taken PROVE FALSE
    BY <1>1 DEF Conn, FlowType
  <2>2. w.stage = "unborn" BY <2>1 DEF FlowInv, Fresh, Unborn
  <2> QED BY <2>2 DEF Writer, TakeMessage, Write, NoteWritten, WriteFails, NoteFailure,
                      EndWriter
<1>5. client = c => c # 0 BY DEF Conn
\* What is left to show, when the thread and the client's end become w1 and p1.
<1>6. ASSUME NEW w1 \in WriterThread, NEW p1 \in Peer,
             writer' = [writer EXCEPT ![c] = w1], peer' = [peer EXCEPT ![c] = p1],
             Posts(c), control' \in Seq(Event),
             Delivers(w1, p1, term), AcksOnce(control', w1, c),
             client = c /\ w1.stage \notin {"failing", "ended"} =>
               /\ EndsAt(Way(w1), p1.screen, rendered)
               /\ inFlight <=> \/ HasSnapshot(Way(w1)) \/ w1.stage = "noting"
                               \/ Acknowledged(control', c)
      PROVE  FlowInv'
  <2>1. /\ writer' \in [Conn -> WriterThread] /\ peer' \in [Conn -> Peer]
        /\ writer'[c] = w1 /\ peer'[c] = p1
        /\ \A d \in Conn \ {c} : writer'[d] = writer[d] /\ peer'[d] = peer[d]
    BY <1>1, <1>6 DEF FlowType
  <2>2. FlowType' BY <1>1, <1>3, <1>6, <2>1 DEF FlowType
  <2>3. client = c => InStep' BY <1>3, <1>6, <2>1 DEF InStep, Failed
  <2> QED BY <1>2, <1>4, <1>6, <2>1, <2>2, <2>3, ThreadKeeps
<1>7. client = c /\ w.stage \notin {"failing", "ended"} =>
        /\ EndsAt(Way(w), p.screen, rendered)
        /\ inFlight <=> \/ HasSnapshot(Way(w)) \/ w.stage = "noting"
                        \/ Acknowledged(control, c)
  BY <1>2, <1>5 DEF FlowInv, InStep, Failed
<1>8. peer' = peer => peer' = [peer EXCEPT ![c] = p]
  BY <1>1 DEF FlowType
<1> HIDE DEF w, p
<1>9. CASE TakeMessage(c)
  <2> DEFINE w1 == writer'[c]
  <2>1. /\ w.stage = "idle" /\ w.queue # <<>> /\ control' = control /\ peer' = peer
        /\ writer' = [writer EXCEPT ![c].stage = "writing", ![c].message = Head(w.queue),
                                    ![c].queue = Tail(w.queue)]
    BY <1>9 DEF TakeMessage, w
  <2>2. Head(w.queue) \in Message /\ Tail(w.queue) \in Seq(Message)
        /\ w.queue = <<Head(w.queue)>> \o Tail(w.queue)
    BY <1>1, <2>1, HeadTailProperties
  <2>3. /\ w1 \in WriterThread /\ w1.stage = "writing" /\ w1.message = Head(w.queue)
        /\ w1.queue = Tail(w.queue) /\ writer' = [writer EXCEPT ![c] = w1]
    BY <1>1, <2>1, <2>2 DEF FlowType, WriterThread, w
  <2> HIDE DEF w1
  <2>4. Way(w1) = Way(w)
    <3>1. Way(w1) = <<Head(w.queue)>> \o Tail(w.queue) BY <2>3, WayIs
    <3>2. Way(w) = w.queue BY <1>1, <2>1, WayIs
    <3> QED BY <2>2, <3>1, <3>2
  <2>5. Delivers(w1, p, term) BY <1>1, <2>3, <2>4 DEF Delivers
  <2>6. AcksOnce(control', w1, c) BY <1>1, <2>1, <2>3, <2>4 DEF AcksOnce
  <2> QED BY <1>1, <1>6, <1>7, <1>8, <2>1, <2>3, <2>4, <2>5, <2>6 DEF Posts
<1>10. CASE Write(c)
  <2> DEFINE w1 == writer'[c]
  <2> DEFINE p1 == peer'[c]
  <2> DEFINE m == w.message
  <2>1. /\ w.stage = "writing" /\ control' = control
        /\ peer' = [peer EXCEPT
             ![c].screen = IF IsSnapshot(m) THEN m.to ELSE @,
             ![c].exit = IF m.kind = "exit" THEN m.to ELSE @]
        /\ writer' = [writer EXCEPT
             ![c].stage = IF IsSnapshot(m) THEN "noting" ELSE "idle",
             ![c].message = Reply]
    BY <1>10 DEF Write, w
  <2>2. m \in Message /\ m.to \in Nat /\ Reply \in Message
    BY <1>1 DEF Message, Reply
  <2>3. /\ w1 \in WriterThread /\ w1.stage = (IF IsSnapshot(m) THEN "noting" ELSE "idle")
        /\ w1.queue = w.queue /\ w1.closed = w.closed
        /\ writer' = [writer EXCEPT ![c] = w1]
    BY <1>1, <2>1, <2>2 DEF FlowType, WriterThread, w
  <2>4. /\ p1 \in Peer /\ p1.screen = (IF IsSnapshot(m) THEN m.to ELSE p.screen)
        /\ p1.exit = (IF m.kind = "exit" THEN m.to ELSE p.exit)
        /\ peer' = [peer EXCEPT ![c] = p1]
    BY <1>1, <2>1, <2>2 DEF FlowType, Peer, p
  <2>5. /\ Way(w) # <<>> /\ Head(Way(w)) = m /\ Tail(Way(w)) = w.queue
    BY <1>1, <2>1, WayIs
  <2> HIDE DEF w1, p1, m
  <2>6. Way(w1) = Tail(Way(w)) BY <2>3, <2>5, WayIs
  <2>7. InOrder(Way(w1), p1.screen, term)
    BY <1>1, <2>4, <2>5, <2>6, OrderTail DEF Delivers
  <2>8. /\ 1 \in DOMAIN Way(w) /\ Way(w)[1] = m
        /\ \A i \in DOMAIN w.queue : i + 1 \in DOMAIN Way(w) /\ i + 1 # 1
                                     /\ w.queue[i] = Way(w)[i + 1]
    <3>1. /\ DOMAIN Way(w) = 1 .. Len(Way(w)) /\ Len(Way(w)) \in Nat \ {0}
          /\ Way(w)[1] = m /\ DOMAIN w.queue = 1 .. Len(Way(w)) - 1
          /\ \A i \in 1 .. Len(Way(w)) - 1 :
               i + 1 \in DOMAIN Way(w) /\ w.queue[i] = Way(w)[i + 1]
      BY <1>1, <2>5, TailIs
    <3> QED BY <3>1
  <2>9. IsSnapshot(m) => /\ p.screen <= m.to /\ m.to <= term
                         /\ ~HasSnapshot(w.queue) /\ HasSnapshot(Way(w))
    BY <1>1, <2>8 DEF Delivers, InOrder, HasSnapshot
  <2>10. m.kind = "exit" => m.to = p.screen
    <3>1. 1 .. 1 - 1 = {} OBVIOUS
    <3> QED BY <1>1, <2>8, <3>1 DEF Delivers, InOrder, IsExit
  <2>11. HasSnapshot(w.queue) => HasSnapshot(Way(w))
    BY <2>8 DEF HasSnapshot
  <2>12. p1.screen <= term /\ p1.exit <= p1.screen
    BY <1>1, <2>2, <2>4, <2>9, <2>10 DEF Delivers, IsSnapshot
  <2>13. Delivers(w1, p1, term)
    BY <2>3, <2>5, <2>6, <2>7, <2>9, <2>12 DEF Delivers
  <2>14. AcksOnce(control', w1, c)
    BY <1>1, <2>1, <2>3, <2>5, <2>6, <2>9, <2>11 DEF AcksOnce
  <2>15. ASSUME client = c
         PROVE  /\ EndsAt(Way(w1), p1.screen, rendered)
                /\ inFlight <=> \/ HasSnapshot(Way(w1)) \/ w1.stage = "noting"
                                \/ Acknowledged(control', c)
    <3>1. /\ EndsAt(Way(w), p.screen, rendered)
          /\ inFlight <=> HasSnapshot(Way(w)) \/ Acknowledged(control, c)
      BY <1>7, <2>1, <2>15
    <3>2. /\ EndsAt(Tail(Way(w)), IF IsSnapshot(m) THEN m.to ELSE p.screen, rendered)
          /\ HasSnapshot(Way(w)) <=> IsSnapshot(m) \/ HasSnapshot(Tail(Way(w)))
      BY <1>1, <2>5, <2>15, <3>1, EndsTail DEF Delivers
    <3> QED BY <2>1, <2>3, <2>4, <2>6, <3>1, <3>2
  <2> QED BY <1>1, <1>6, <2>1, <2>3, <2>4, <2>13, <2>14, <2>15 DEF Posts
<1>11. CASE NoteWritten(c)
  <2> DEFINE w1 == writer'[c]
  <2>1. /\ w.stage = "noting" /\ control' = Append(control, Written(c)) /\ peer' = peer
        /\ writer' = [writer EXCEPT ![c].stage = "idle"]
    BY <1>11 DEF NoteWritten, w
  <2>2. /\ w1 \in WriterThread /\ w1.stage = "idle" /\ w1.queue = w.queue
        /\ writer' = [writer EXCEPT ![c] = w1]
    BY <1>1, <2>1 DEF FlowType, WriterThread, w
  <2> HIDE DEF w1
  <2>3. Way(w1) = Way(w) BY <1>1, <2>1, <2>2, WayIs
  <2>4. Written(c) \in Event /\ Written(c).conn = c BY DEF Written, Event
  <2>5. ~HasSnapshot(Way(w)) /\ ~Acknowledged(control, c)
    BY <1>1, <2>1 DEF Delivers, AcksOnce
  <2>6. /\ control' \in Seq(Event) /\ Acknowledged(control', c)
        /\ \A i, j \in DOMAIN control' :
             (\A k, l \in DOMAIN control :
                 control[k] = Written(c) /\ control[l] = Written(c) => k = l)
               /\ control'[i] = Written(c) /\ control'[j] = Written(c) => i = j
    BY <1>1, <2>1, <2>4, <2>5, PostsIs
  <2>7. AcksOnce(control', w1, c) BY <1>1, <2>2, <2>3, <2>5, <2>6 DEF AcksOnce
  <2>8. Delivers(w1, p, term) BY <1>1, <2>2, <2>3 DEF Delivers
  <2>9. Posts(c) BY <2>1, <2>4 DEF Posts
  <2> QED BY <1>1, <1>6, <1>7, <1>8, <2>1, <2>2, <2>3, <2>6, <2>7, <2>8, <2>9
<1>12. CASE WriteFails(c)
  <2> DEFINE w1 == [stage |-> "failing", queue |-> <<>>, message |-> Reply, closed |-> TRUE]
  <2>1. control' = control /\ peer' = peer /\ writer' = [writer EXCEPT ![c] = w1]
    BY <1>12 DEF WriteFails
  <2>2. Reply \in Message BY DEF Reply, Message
  <2>3. w1 \in WriterThread BY <2>2 DEF WriterThread
  <2>4. w1.stage = "failing" /\ w1.closed /\ w1.queue = <<>> OBVIOUS
  <2> HIDE DEF w1
  <2>5. Way(w1) = <<>> BY <2>3, <2>4, WayIs
  <2>6. Delivers(w1, p, term) BY <1>1, <2>4, <2>5, UnbornIs DEF Delivers
  <2>7. AcksOnce(control', w1, c) BY <1>1, <2>1, <2>4, <2>5, UnbornIs DEF AcksOnce
  <2> QED BY <1>1, <1>6, <1>8, <2>1, <2>3, <2>4, <2>6, <2>7 DEF Posts
<1>13. CASE NoteFailure(c)
  <2> DEFINE w1 == writer'[c]
  <2> DEFINE e == [kind |-> "failed", conn |-> c]
  <2>1. /\ w.stage = "failing" /\ control' = Append(control, e) /\ peer' = peer
        /\ writer' = [writer EXCEPT ![c].stage = "ended"]
    BY <1>13 DEF NoteFailure, w
  <2>2. /\ w1 \in WriterThread /\ w1.stage = "ended" /\ w1.queue = w.queue
        /\ w1.closed = w.closed /\ writer' = [writer EXCEPT ![c] = w1]
    BY <1>1, <2>1 DEF FlowType, WriterThread, w
  <2> HIDE DEF w1
  <2>3. Way(w1) = Way(w) BY <1>1, <2>1, <2>2, WayIs
  <2>4. e \in Event /\ e.conn = c /\ e # Written(c) BY DEF Written, Event
  <2> HIDE DEF e
  <2>5. /\ control' \in Seq(Event)
        /\ Acknowledged(control', c) <=> Acknowledged(control, c)
        /\ \A i, j \in DOMAIN control' :
             (\A k, l \in DOMAIN control :
                 control[k] = Written(c) /\ control[l] = Written(c) => k = l)
               /\ control'[i] = Written(c) /\ control'[j] = Written(c) => i = j
    BY <1>1, <2>1, <2>4, PostsIs
  <2>6. AcksOnce(control', w1, c) BY <1>1, <2>2, <2>3, <2>5 DEF AcksOnce
  <2>7. Delivers(w1, p, term) BY <1>1, <2>1, <2>2, <2>3 DEF Delivers
  <2>8. Posts(c) BY <2>1, <2>4 DEF Posts
  <2> QED BY <1>1, <1>6, <1>8, <2>1, <2>2, <2>5, <2>6, <2>7, <2>8
<1>14. CASE EndWriter(c)
  <2> DEFINE w1 == writer'[c]
  <2> DEFINE p1 == peer'[c]
  <2>1. /\ w.stage = "idle" /\ w.closed /\ w.queue = <<>> /\ control' = control
        /\ writer' = [writer EXCEPT ![c].stage = "ended"]
        /\ peer' = [peer EXCEPT ![c].line = "cut"]
    BY <1>14 DEF EndWriter, w
  <2>2. /\ w1 \in WriterThread /\ w1.stage = "ended" /\ w1.queue = w.queue
        /\ w1.closed = w.closed /\ writer' = [writer EXCEPT ![c] = w1]
    BY <1>1, <2>1 DEF FlowType, WriterThread, w
  <2>3. /\ p1 \in Peer /\ p1.screen = p.screen /\ p1.exit = p.exit
        /\ peer' = [peer EXCEPT ![c] = p1]
    BY <1>1, <2>1 DEF FlowType, Peer, p
  <2> HIDE DEF w1, p1
  <2>4. Way(w1) = Way(w) BY <1>1, <2>1, <2>2, WayIs
  <2>5. Delivers(w1, p1, term) BY <1>1, <2>1, <2>2, <2>3, <2>4 DEF Delivers
  <2>6. AcksOnce(control', w1, c) BY <1>1, <2>1, <2>2, <2>4 DEF AcksOnce
  <2> QED BY <1>1, <1>6, <2>1, <2>2, <2>3, <2>5, <2>6 DEF Posts
<1> QED BY <1>9, <1>10, <1>11, <1>12, <1>13, <1>14 DEF Writer

\* The client at the other end, and the reader thread.
LEMMA PeerKeeps ==
  ASSUME FlowInv, NEW c \in Conn,
         \/ ReaderEnds(c) \/ PeerStalls(c) \/ PeerLeaves(c)
         \/ \E kind \in Request : ClientSays(c, kind)
  PROVE  FlowInv'
<1> DEFINE p == peer[c]
<1> DEFINE p1 == peer'[c]
<1>1. /\ FlowType /\ p \in Peer /\ control \in Seq(Event)
      /\ Delivers(writer[c], p, term) /\ AcksOnce(control, writer[c], c)
      /\ writer \in [Conn -> WriterThread] /\ peer \in [Conn -> Peer]
  BY DEF FlowInv, FlowType
<1>2. /\ loop # "down" /\ UNCHANGED <<daemon, process, writer>>
      /\ p.line # "none" \/ p.heard
  BY DEF ReaderEnds, PeerStalls, PeerLeaves, ClientSays, PeerTurn
<1>3. UNCHANGED <<loop, client, inFlight, taken, due, resizing, exitDue, term, exited,
                  rendered, full, alive, panes>>
  BY <1>2 DEF daemon, process
<1>4. c <= taken
  <2>1. SUFFICES ASSUME c > taken PROVE FALSE
    BY <1>1 DEF Conn, FlowType
  <2> QED BY <1>2, <2>1 DEF FlowInv, Fresh
<1>5. /\ p1 \in Peer /\ p1.screen = p.screen /\ p1.exit = p.exit
      /\ peer' \in [Conn -> Peer] /\ \A d \in Conn \ {c} : peer'[d] = peer[d]
  <2>1. CASE ReaderEnds(c)
    <3>1. peer' = [peer EXCEPT ![c].heard = FALSE] BY <2>1 DEF ReaderEnds
    <3> QED BY <1>1, <3>1 DEF Peer
  <2>2. CASE PeerStalls(c)
    <3>1. peer' = [peer EXCEPT ![c].line = "stalled"] BY <2>2 DEF PeerStalls
    <3> QED BY <1>1, <3>1 DEF Peer
  <2>3. CASE PeerLeaves(c)
    <3>1. peer' = [peer EXCEPT ![c].line = "cut"] BY <2>3 DEF PeerLeaves
    <3> QED BY <1>1, <3>1 DEF Peer
  <2>4. CASE \E kind \in Request : ClientSays(c, kind)
    BY <1>1, <2>4 DEF ClientSays
  <2> QED BY <2>1, <2>2, <2>3, <2>4
<1>6. \/ control' = control
      \/ \E e \in Event : e.conn = c /\ e # Written(c) /\ control' = Append(control, e)
  <2>1. CASE ReaderEnds(c)
    <3> DEFINE e == [kind |-> "disconnected", conn |-> c]
    <3>1. e \in Event /\ e.conn = c /\ e # Written(c) BY DEF Event, Written
    <3>2. control' = Append(control, e) BY <2>1 DEF ReaderEnds
    <3> QED BY <3>1, <3>2
  <2>2. CASE PeerStalls(c) \/ PeerLeaves(c) BY <2>2 DEF PeerStalls, PeerLeaves
  <2>3. ASSUME NEW kind \in Request, ClientSays(c, kind)
        PROVE  \E e \in Event : e.conn = c /\ e # Written(c) /\ control' = Append(control, e)
    <3> DEFINE e == [kind |-> kind, conn |-> c]
    <3>1. kind \in {"scroll", "resize", "heartbeat", "detach"} BY FlowAssumption
    <3>2. e \in Event /\ e.conn = c /\ e # Written(c) BY <3>1 DEF Event, Written
    <3>3. control' = Append(control, e) BY <2>3 DEF ClientSays
    <3> QED BY <3>2, <3>3
  <2> QED BY <2>1, <2>2, <2>3
<1>7. /\ control' \in Seq(Event) /\ AcksOnce(control', writer[c], c)
      /\ Acknowledged(control', c) <=> Acknowledged(control, c)
  <2>1. CASE control' = control BY <1>1, <2>1
  <2>2. ASSUME NEW e \in Event, e # Written(c), control' = Append(control, e)
        PROVE  /\ control' \in Seq(Event) /\ AcksOnce(control', writer[c], c)
               /\ Acknowledged(control', c) <=> Acknowledged(control, c)
    <3>1. /\ control' \in Seq(Event)
          /\ Acknowledged(control', c) <=> Acknowledged(control, c)
          /\ \A i, j \in DOMAIN control' :
               (\A k, l \in DOMAIN control :
                   control[k] = Written(c) /\ control[l] = Written(c) => k = l)
                 /\ control'[i] = Written(c) /\ control'[j] = Written(c) => i = j
      BY <1>1, <2>2, PostsIs
    <3> QED BY <1>1, <3>1 DEF AcksOnce
  <2> QED BY <1>6, <2>1, <2>2
<1> HIDE DEF p, p1
<1>8. FlowType' BY <1>1, <1>2, <1>3, <1>5, <1>7 DEF FlowType
<1>9. Delivers(writer'[c], p1, term) BY <1>1, <1>2, <1>5 DEF Delivers
<1>10. client = c => InStep'
  <2>1. client = c => client # 0 BY DEF Conn
  <2>2. client = c => peer'[client].screen = peer[client].screen BY <1>5 DEF p, p1
  <2> QED BY <1>2, <1>3, <1>7, <2>1, <2>2 DEF FlowInv, InStep, Failed
<1>11. Posts(c) BY <1>6 DEF Posts
<1> QED BY <1>2, <1>4, <1>5, <1>7, <1>8, <1>9, <1>10, <1>11, ThreadKeeps DEF p1

LEMMA FlowStep == FlowInv /\ [Next]_vars => FlowInv'
<1> SUFFICES ASSUME FlowInv, [Next]_vars PROVE FlowInv'
  OBVIOUS
<1>1. CASE PtyOutput \/ PtyExit \/ HandlePane \/ ApplyResize \/ Shutdown
  BY <1>1, DrawingKeeps DEF HandlePane
<1>2. CASE Accept BY <1>2, AcceptKeeps
<1>3. CASE ExpireLease BY <1>3, LosingKeeps
<1>4. CASE HandleControl
  <2>1. CASE HandleScroll
    <3>1. CASE inFlight
      BY <2>1, <3>1, NotingKeeps DEF HandleScroll
    <3>2. CASE ~inFlight BY <2>1, <3>2, SendingKeeps
    <3> QED BY <3>1, <3>2
  <2>2. CASE HandleStale \/ HandleResize \/ HandleWritten BY <2>2, NotingKeeps
  <2>3. CASE HandleHeartbeat BY <2>3, SendingKeeps
  <2>4. CASE HandleDetach \/ HandleLoss BY <2>4, LosingKeeps
  <2> QED BY <1>4, <2>1, <2>2, <2>3, <2>4 DEF HandleControl
<1>5. CASE Flush BY <1>5, SendingKeeps
<1>6. CASE ShutdownSessions BY <1>6, ShutdownKeeps
<1>7. ASSUME NEW c \in Conn, Writer(c) PROVE FlowInv' BY <1>7, WriterKeeps
<1>8. ASSUME NEW c \in Conn,
             \/ ReaderEnds(c) \/ PeerStalls(c) \/ PeerLeaves(c)
             \/ \E kind \in Request : ClientSays(c, kind)
      PROVE  FlowInv'
  BY <1>8, PeerKeeps
<1>9. CASE UNCHANGED vars
  <2>1. UNCHANGED <<loop, client, inFlight, taken, due, resizing, exitDue, term, exited,
                    rendered, full, alive, panes, control, writer, peer>>
    BY <1>9 DEF vars, daemon, process, connections
  <2> QED BY <2>1 DEF FlowInv, FlowType, InStep, Owes, Failed
<1> QED BY <1>1, <1>2, <1>3, <1>4, <1>5, <1>6, <1>7, <1>8, <1>9 DEF Next

-----------------------------------------------------------------------------
(* What follows from the invariant. *)

\* FlowInv holds in every state: the order of what is on the way to each client,
\* its one acknowledgement, and the event loop in step with both.
THEOREM FlowInvariant == Spec => []FlowInv
<1>1. Init => FlowInv BY FlowInit
<1>2. FlowInv /\ [Next]_vars => FlowInv' BY FlowStep
<1> QED BY <1>1, <1>2, PTL DEF Spec

LEMMA OnTheWayIs ==
  ASSUME FlowInv, NEW c \in Conn
  PROVE  /\ OnTheWay(c) = Way(writer[c]) /\ Way(writer[c]) \in Seq(Message)
         /\ DOMAIN Way(writer[c]) = 1 .. Len(Way(writer[c]))
         /\ Len(Way(writer[c])) \in Nat
<1>1. writer[c] \in WriterThread BY DEF FlowInv, FlowType
<1>2. Way(writer[c]) \in Seq(Message) BY <1>1, WayIs
<1>3. OnTheWay(c) = Way(writer[c]) BY Zenon DEF OnTheWay, Way
<1> QED BY <1>2, <1>3, LenProperties

\* At most one Snapshot is queued, being written or waiting to be acknowledged,
\* and snapshot_in_flight says whether there is one (send_to, ClientWriter,
\* SnapshotWritten in src/daemon.rs).
THEOREM OneSnapshotInFlight == Spec => []OneInFlight
<1>1. FlowInv => OneInFlight
  <2> SUFFICES ASSUME FlowInv, Turning, client # 0, ~Failed(client)
               PROVE  Cardinality(Outstanding(client)) = (IF inFlight THEN 1 ELSE 0)
    BY DEF OneInFlight
  <2> DEFINE way == Way(writer[client])
  <2> DEFINE out == Outstanding(client)
  <2>1. client \in Conn /\ loop # "down" BY HolderIs DEF Turning
  <2>2. /\ AcksOnce(control, writer[client], client)
        /\ InOrder(way, peer[client].screen, term)
        /\ writer[client].stage = "noting" => ~HasSnapshot(way)
    BY <2>1 DEF FlowInv, Delivers
  <2>3. inFlight <=> \/ HasSnapshot(way) \/ writer[client].stage = "noting"
                     \/ Acknowledged(control, client)
    BY <2>1 DEF FlowInv, InStep
  <2>4. SnapshotsTo(client) = {i \in DOMAIN way : IsSnapshot(way[i])}
    BY <2>1, OnTheWayIs DEF SnapshotsTo
  <2>5. inFlight <=> out # {}
    <3>1. HasSnapshot(way) <=> {<<"sent", i>> : i \in SnapshotsTo(client)} # {}
      BY <2>4 DEF HasSnapshot
    <3>2. Acknowledged(control, client)
            <=> {<<"written", i>> : i \in {j \in DOMAIN control :
                                             control[j] = Written(client)}} # {}
      BY DEF Acknowledged
    <3> HIDE DEF way
    <3> QED BY <2>3, <3>1, <3>2 DEF Outstanding
  <2>6. \A x, y \in out : x = y
    <3>1. \A i, j \in SnapshotsTo(client) : i = j BY <2>2, <2>4 DEF InOrder
    <3>2. \A i, j \in DOMAIN control :
            control[i] = Written(client) /\ control[j] = Written(client) => i = j
      BY <2>2 DEF AcksOnce
    <3>3. SnapshotsTo(client) # {} =>
            writer[client].stage # "noting" /\ ~Acknowledged(control, client)
      BY <2>2, <2>4 DEF HasSnapshot, AcksOnce
    <3>4. Acknowledged(control, client) => writer[client].stage # "noting"
      BY <2>2 DEF AcksOnce
    <3>5. \A x \in out :
            \/ /\ \E i \in SnapshotsTo(client) : x = <<"sent", i>>
            \/ writer[client].stage = "noting" /\ x = <<"noting", 1>>
            \/ \E i \in DOMAIN control : control[i] = Written(client) /\ x = <<"written", i>>
      BY DEF Outstanding
    <3> QED BY <3>1, <3>2, <3>3, <3>4, <3>5 DEF Acknowledged
  <2> HIDE DEF out
  <2>7. CASE out = {} BY <2>5, <2>7, FS_EmptySet DEF out
  <2>8. CASE out # {}
    <3>1. PICK x : x \in out BY <2>8
    <3>2. out = {x} BY <2>6, <3>1
    <3> QED BY <2>5, <2>8, <3>2, FS_Singleton DEF out
  <2> QED BY <2>7, <2>8
<1> QED BY <1>1, FlowInvariant, PTL

\* Changes meet the screen they start from, and the render cache is what the
\* client will have once it has read everything (send_attached_snapshot, render).
THEOREM ChangesMeetTheirBase == Spec => []ChangesApply
<1>1. ASSUME FlowInv, NEW c \in Conn, NEW i \in SnapshotsTo(c), ~OnTheWay(c)[i].full
      PROVE  OnTheWay(c)[i].base = ShownAt(c, i)
  <2>1. InOrder(OnTheWay(c), peer[c].screen, term)
    BY <1>1, OnTheWayIs DEF FlowInv, Delivers
  <2>2. \A j \in SnapshotsTo(c) : j = i BY <2>1 DEF InOrder, SnapshotsTo
  <2>3. i \in DOMAIN OnTheWay(c) /\ IsSnapshot(OnTheWay(c)[i]) BY DEF SnapshotsTo
  <2>4. i \in Nat BY <1>1, <2>3, OnTheWayIs
  <2>5. {j \in SnapshotsTo(c) : j < i} = {}
    <3>1. ~(i < i) BY <2>4
    <3>2. \A j \in SnapshotsTo(c) : ~(j < i) BY <2>2, <3>1, Zenon
    <3> QED BY <3>2
  <2>6. ShownAt(c, i) = peer[c].screen BY <2>5 DEF ShownAt
  <2> QED BY <1>1, <2>1, <2>3, <2>6 DEF InOrder
<1>2. ASSUME FlowInv, NEW c \in Conn, Turning, c = client, ~Failed(c)
      PROVE  rendered = ShownAt(c, Len(OnTheWay(c)) + 1)
  <2> DEFINE n == Len(OnTheWay(c)) + 1
  <2> DEFINE before == {j \in SnapshotsTo(c) : j < n}
  <2>1. /\ EndsAt(OnTheWay(c), peer[c].screen, rendered)
        /\ InOrder(OnTheWay(c), peer[c].screen, term)
    <3>1. client # 0 /\ loop # "down" BY <1>2 DEF Conn, Turning
    <3> QED BY <1>2, <3>1, OnTheWayIs DEF FlowInv, InStep, Delivers
  <2>2. before = SnapshotsTo(c)
    <3>1. \A j \in SnapshotsTo(c) : j \in 1 .. Len(OnTheWay(c)) /\ Len(OnTheWay(c)) \in Nat
      BY <1>2, OnTheWayIs DEF SnapshotsTo
    <3> QED BY <3>1
  <2>3. \A j \in SnapshotsTo(c) : OnTheWay(c)[j].to = rendered /\ j \in Nat
    BY <1>2, <2>1, OnTheWayIs DEF EndsAt, SnapshotsTo
  <2>4. CASE before = {}
    <3>1. ~HasSnapshot(OnTheWay(c)) BY <2>2, <2>4 DEF SnapshotsTo, HasSnapshot
    <3> QED BY <2>1, <2>4, <3>1 DEF EndsAt, ShownAt
  <2>5. CASE before # {}
    <3>1. \A j, k \in before : j = k BY <2>1 DEF InOrder, SnapshotsTo
    <3>2. PICK j \in before : \A k \in before : k <= j BY <2>2, <2>3, <2>5, <3>1
    <3> DEFINE last == CHOOSE l \in before : \A k \in before : k <= l
    <3>3. last \in before BY <3>2
    <3>4. OnTheWay(c)[last].to = rendered BY <2>2, <2>3, <3>3
    <3> QED BY <2>5, <3>4 DEF ShownAt
  <2> QED BY <2>4, <2>5
<1>3. FlowInv => ChangesApply BY <1>1, <1>2 DEF ChangesApply
<1> QED BY <1>3, FlowInvariant, PTL

\* No client hears of an exit before it has the last output of the process
\* (flush_snapshots holds the exit back until the Snapshot is written).
THEOREM ExitFollowsOutput == Spec => []ExitComesLast
<1>1. FlowInv => ExitComesLast BY DEF FlowInv, Delivers, ExitComesLast
<1> QED BY <1>1, FlowInvariant, PTL

\* An attached client that is neither due a Snapshot nor waiting for a size has
\* been sent the screen as it is (handle_pane_event, flush_snapshots).
THEOREM NoOutputForgotten == Spec => []NothingOwed
<1>1. FlowInv => NothingOwed BY DEF FlowInv, Owes, NothingOwed
<1> QED BY <1>1, FlowInvariant, PTL

-----------------------------------------------------------------------------
(* The refinement of ScreenDelivery. *)

Screens == [c \in Conn |-> peer[c].screen]
Exits == [c \in Conn |-> peer[c].exit]

\* Steps after which every client shows what it showed.
LEMMA StillShows ==
  ASSUME FlowInv, [Next]_vars, \A c \in Conn : ~Write(c)
  PROVE  /\ Screens' = Screens /\ Exits' = Exits
         /\ term' = term \/ term' = term + 1
<1>1. peer \in [Conn -> Peer] BY DEF FlowInv, FlowType
<1>2. ASSUME UNCHANGED peer, term' = term \/ term' = term + 1
      PROVE  /\ Screens' = Screens /\ Exits' = Exits
             /\ term' = term \/ term' = term + 1
  BY <1>2 DEF Screens, Exits
<1>3. ASSUME NEW d \in Conn,
             \E l, h : \/ peer' = [peer EXCEPT ![d].line = l]
                       \/ peer' = [peer EXCEPT ![d].heard = h]
                       \/ peer' = [peer EXCEPT ![d].line = l, ![d].heard = h]
      PROVE  Screens' = Screens /\ Exits' = Exits
  <2>1. \A c \in Conn : peer'[c].screen = peer[c].screen /\ peer'[c].exit = peer[c].exit
    BY <1>1, <1>3 DEF Peer
  <2> QED BY <2>1 DEF Screens, Exits
<1>4. CASE \/ PtyOutput \/ PtyExit \/ ExpireLease \/ HandleControl \/ HandlePane
           \/ ApplyResize \/ Flush \/ Shutdown \/ ShutdownSessions \/ UNCHANGED vars
  <2>1. UNCHANGED peer /\ (term' = term \/ term' = term + 1)
    BY <1>4 DEF PtyOutput, PtyExit, ExpireLease, HandleControl, HandlePane, ApplyResize,
       Flush, Shutdown, ShutdownSessions, HandleStale, HandleScroll, HandleResize,
       HandleHeartbeat, HandleDetach, HandleLoss, HandleWritten, PaneOutput, PaneExited,
       Consume, vars, daemon, process, connections
  <2> QED BY <1>2, <2>1
<1>5. CASE Accept
  <2>1. taken + 1 \in Conn BY <1>5, FlowAssumption DEF Accept, FlowInv, FlowType, Conn
  <2>2. /\ peer' = [peer EXCEPT ![taken + 1].line = "open", ![taken + 1].heard = TRUE]
        /\ term' = term \/ term' = term + 1
    BY <1>5 DEF Accept
  <2> QED BY <1>3, <2>1, <2>2
<1>6. ASSUME NEW c \in Conn, Writer(c)
      PROVE  Screens' = Screens /\ Exits' = Exits /\ term' = term
  <2>1. term' = term
    BY <1>6 DEF Writer, TakeMessage, Write, NoteWritten, WriteFails, NoteFailure, EndWriter,
       WriterTurn, daemon
  <2>2. CASE TakeMessage(c) \/ NoteWritten(c) \/ WriteFails(c) \/ NoteFailure(c)
    BY <2>1, <2>2, <1>2 DEF TakeMessage, NoteWritten, WriteFails, NoteFailure
  <2>3. CASE EndWriter(c) BY <2>1, <2>3, <1>3 DEF EndWriter
  <2> QED BY <1>6, <2>2, <2>3, <2>1 DEF Writer
<1>7. ASSUME NEW c \in Conn,
             \/ ReaderEnds(c) \/ PeerStalls(c) \/ PeerLeaves(c)
             \/ \E kind \in Request : ClientSays(c, kind)
      PROVE  Screens' = Screens /\ Exits' = Exits /\ term' = term
  <2>1. term' = term
    BY <1>7 DEF ReaderEnds, PeerStalls, PeerLeaves, ClientSays, PeerTurn, daemon
  <2>2. CASE \E kind \in Request : ClientSays(c, kind)
    BY <2>1, <2>2, <1>2 DEF ClientSays
  <2>3. CASE ReaderEnds(c) \/ PeerStalls(c) \/ PeerLeaves(c)
    <3>1. \/ peer' = [peer EXCEPT ![c].heard = FALSE]
          \/ \E l \in {"cut", "stalled"} : peer' = [peer EXCEPT ![c].line = l]
      BY <2>3 DEF ReaderEnds, PeerStalls, PeerLeaves
    <3> QED BY <1>3, <2>1, <3>1
  <2> QED BY <1>7, <2>1, <2>2, <2>3
<1> QED BY <1>4, <1>5, <1>6, <1>7 DEF Next

\* A message is read: the next version, one the client has, or an exit about it.
LEMMA WriteShows ==
  ASSUME FlowInv, NEW c \in Conn, Write(c)
  PROVE  /\ term' = term
         /\ \/ Screens' = Screens /\ Exits' = Exits
            \/ /\ Exits' = Exits
               /\ \E v \in Screens[c] + 1 .. term : Screens' = [Screens EXCEPT ![c] = v]
            \/ /\ Screens' = Screens /\ Screens[c] # 0
               /\ Exits' = [Exits EXCEPT ![c] = Screens[c]]
<1> DEFINE m == writer[c].message
<1> DEFINE way == Way(writer[c])
<1>1. /\ peer \in [Conn -> Peer] /\ writer[c] \in WriterThread /\ term \in Nat
      /\ InOrder(way, peer[c].screen, term)
  BY DEF FlowInv, FlowType, Delivers
<1>2. term' = term BY DEF Write, WriterTurn, daemon
<1>3. way # <<>> /\ Head(way) = m /\ way \in Seq(Message)
  BY <1>1, WayIs DEF Write
<1>4. 1 \in DOMAIN way /\ way[1] = m BY <1>3, TailIs
<1>5. m \in Message BY <1>1 DEF WriterThread
<1>6. Screens[c] = peer[c].screen BY DEF Screens
<1>7. /\ \A d \in Conn : d # c =>
           peer'[d].screen = peer[d].screen /\ peer'[d].exit = peer[d].exit
      /\ peer'[c].screen = (IF IsSnapshot(m) THEN m.to ELSE peer[c].screen)
      /\ peer'[c].exit = (IF m.kind = "exit" THEN m.to ELSE peer[c].exit)
  BY <1>1 DEF Write, Peer
<1>8. CASE m.kind = "reply"
  <2>1. \A d \in Conn : peer'[d].screen = peer[d].screen /\ peer'[d].exit = peer[d].exit
    BY <1>7, <1>8 DEF IsSnapshot
  <2> QED BY <1>2, <2>1 DEF Screens, Exits
<1>9. CASE IsSnapshot(m)
  <2>1. \A d \in Conn : peer'[d].exit = peer[d].exit BY <1>7, <1>9 DEF IsSnapshot
  <2>2. Exits' = Exits BY <2>1 DEF Exits
  <2>3. peer[c].screen <= m.to /\ m.to <= term BY <1>1, <1>4, <1>9 DEF InOrder
  <2>4. m.to \in Nat /\ peer[c].screen \in Nat BY <1>1, <1>5 DEF Message, Peer
  <2>5. Screens' = [Screens EXCEPT ![c] = m.to] BY <1>7, <1>9 DEF Screens
  <2>6. CASE m.to = peer[c].screen
    <3>1. \A d \in Conn : peer'[d].screen = peer[d].screen BY <1>7, <2>6
    <3>2. Screens' = Screens BY <3>1 DEF Screens
    <3> QED BY <1>2, <2>2, <3>2
  <2>7. CASE m.to # peer[c].screen
    <3>1. m.to \in Screens[c] + 1 .. term BY <1>1, <1>6, <2>3, <2>4, <2>7
    <3> QED BY <1>2, <2>2, <2>5, <3>1
  <2> QED BY <2>6, <2>7
<1>10. CASE IsExit(m)
  <2>1. \A d \in Conn : peer'[d].screen = peer[d].screen
    BY <1>7, <1>10 DEF IsSnapshot, IsExit
  <2>2. Screens' = Screens BY <2>1 DEF Screens
  <2>3. m.to # 0 /\ m.to = peer[c].screen
    BY <1>1, <1>4, <1>10 DEF InOrder
  <2>4. Exits' = [Exits EXCEPT ![c] = m.to] BY <1>7, <1>10 DEF Exits, IsExit
  <2> QED BY <1>2, <1>6, <2>2, <2>3, <2>4
<1> QED BY <1>5, <1>8, <1>9, <1>10 DEF Message, IsSnapshot, IsExit

\* The daemon, its queues and its threads deliver screens as ScreenDelivery says.
THEOREM DeliveryImplemented == Spec => ImplementsDelivery
<1>1. Init => Delivery!Init
  <2> SUFFICES ASSUME Init PROVE Delivery!Init
    OBVIOUS
  <2>1. \A c \in Conn : peer[c].screen = 0 /\ peer[c].exit = 0 BY DEF Init
  <2>2. term = 1 BY DEF Init
  <2> QED BY <2>1, <2>2 DEF Delivery!Init
<1>2. FlowInv /\ [Next]_vars => [Delivery!Next]_(Delivery!delivery)
  <2> SUFFICES ASSUME FlowInv, [Next]_vars
               PROVE  Delivery!Next \/ UNCHANGED Delivery!delivery
    OBVIOUS
  <2>1. CASE \A c \in Conn : ~Write(c)
    <3>1. /\ Screens' = Screens /\ Exits' = Exits
          /\ term' = term \/ term' = term + 1
      BY <2>1, StillShows
    <3> QED BY <3>1 DEF Screens, Exits, Delivery!Next, Delivery!Draw, Delivery!delivery
  <2>2. ASSUME NEW c \in Conn, Write(c)
        PROVE  Delivery!Next \/ UNCHANGED Delivery!delivery
    <3>1. /\ term' = term
          /\ \/ Screens' = Screens /\ Exits' = Exits
             \/ /\ Exits' = Exits
                /\ \E v \in Screens[c] + 1 .. term : Screens' = [Screens EXCEPT ![c] = v]
             \/ /\ Screens' = Screens /\ Screens[c] # 0
                /\ Exits' = [Exits EXCEPT ![c] = Screens[c]]
      BY <2>2, WriteShows
    <3>2. CASE Screens' = Screens /\ Exits' = Exits
      BY <3>1, <3>2 DEF Screens, Exits, Delivery!delivery
    <3>3. CASE /\ Exits' = Exits
               /\ \E v \in Screens[c] + 1 .. term : Screens' = [Screens EXCEPT ![c] = v]
      <4>1. Delivery!Show(c) BY <3>1, <3>3 DEF Delivery!Show, Screens, Exits
      <4> QED BY <4>1 DEF Delivery!Next
    <3>4. CASE /\ Screens' = Screens /\ Screens[c] # 0
               /\ Exits' = [Exits EXCEPT ![c] = Screens[c]]
      <4>1. Delivery!Tell(c) BY <3>1, <3>4 DEF Delivery!Tell, Screens, Exits
      <4> QED BY <4>1 DEF Delivery!Next
    <3> QED BY <3>1, <3>2, <3>3, <3>4
  <2> QED BY <2>1, <2>2
<1> QED BY <1>1, <1>2, FlowInvariant, PTL DEF Spec, ImplementsDelivery, Delivery!Spec

=============================================================================
