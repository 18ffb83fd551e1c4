---------------------------- MODULE SnapshotFlow ----------------------------
(***************************************************************************)
(* How the screen of one session reaches the client that is attached to    *)
(* it: the pty reader thread, the two bounded event channels, the event    *)
(* loop with its pending snapshot, resize and exit, and for every client   *)
(* connection a writer thread with a bounded queue and a reader thread     *)
(* (src/daemon.rs, src/pane.rs, src/session.rs).                           *)
(*                                                                         *)
(* The session is persistent and has one pane.  Its screen is a version    *)
(* number that grows with every chunk of output; a Snapshot carries the    *)
(* version it brings the client's screen to and, unless it is a full       *)
(* render, the version its changes start from.  Every connection takes the *)
(* session over from the one before it.                                    *)
(***************************************************************************)
EXTENDS Integers, Sequences, FiniteSets

CONSTANTS
  MaxConns,         \* bound: connections
  MaxOutput,        \* bound: chunks the shells write
  MaxMessages,      \* bound: messages the clients send
  Request,          \* the kinds of messages they send
  MayStall,         \* whether a client may stop reading and stay connected
  QueueCapacity,    \* CLIENT_OUTPUT_QUEUE_CAPACITY
  ControlCapacity,  \* CONTROL_EVENT_CAPACITY
  PaneCapacity      \* PANE_EVENT_CAPACITY

ASSUME FlowAssumption ==
  /\ {MaxConns, MaxOutput, MaxMessages} \subseteq Nat
  /\ MayStall \in BOOLEAN
  /\ Request \subseteq {"scroll", "resize", "heartbeat", "detach"}
  /\ QueueCapacity \in Nat /\ QueueCapacity >= 2
  /\ {ControlCapacity, PaneCapacity} \subseteq Nat \ {0}

Conn == 1 .. MaxConns
Version == 0 .. 1 + MaxOutput + MaxConns

VARIABLES
  loop,       \* the event loop is "turning", "waiting" for writers or "down"
  client,     \* the connection that holds the session, 0 for none
  inFlight,   \* its snapshot_in_flight
  taken,      \* connections accepted so far
  due,        \* the session is in pending_snapshots
  resizing,   \* ... in pending_resizes
  exitDue,    \* ... in pending_exits
  term,       \* version of the session's screen
  exited,     \* the pane's exit is on record
  rendered,   \* version in the render cache, rendered_rows
  full,       \* force_full_render
  alive,      \* the shell runs
  output,     \* chunks written by the shells
  panes,      \* the pane event channel
  control,    \* the control event channel
  writer,     \* per connection: the writer thread and its queue
  peer,       \* per connection: what the client has seen
  said        \* messages sent by the clients

daemon == <<loop, client, inFlight, taken, due, resizing, exitDue, term, exited,
            rendered, full>>
process == <<alive, output, panes>>
connections == <<writer, peer, said>>
vars == <<daemon, process, control, connections>>

Reply == [kind |-> "reply", base |-> 0, to |-> 0, full |-> FALSE]
Exit == [kind |-> "exit", base |-> 0, to |-> term, full |-> FALSE]
Snapshot(fl) == [kind |-> "snapshot", base |-> rendered, to |-> term, full |-> fl]

Unborn == [stage |-> "unborn", queue |-> <<>>, message |-> Reply, closed |-> FALSE]
IsSnapshot(m) == m.kind = "snapshot"
Written(c) == [kind |-> "written", conn |-> c]
Turning == loop = "turning"

Init ==
  /\ loop = "turning" /\ client = 0 /\ inFlight = FALSE /\ taken = 0
  /\ due = FALSE /\ resizing = FALSE /\ exitDue = FALSE
  /\ term = 1 /\ exited = FALSE /\ rendered = 0 /\ full = TRUE
  /\ alive = TRUE /\ output = 0 /\ panes = <<>> /\ control = <<>>
  /\ writer = [c \in Conn |-> Unborn]
  /\ peer = [c \in Conn |-> [line |-> "none", heard |-> FALSE,
                             screen |-> 0, exit |-> 0]]
  /\ said = 0

-----------------------------------------------------------------------------
(* The pty reader thread. *)

PtyOutput ==
  /\ loop # "down" /\ alive /\ output < MaxOutput
  /\ Len(panes) < PaneCapacity
  /\ panes' = Append(panes, "output")
  /\ output' = output + 1
  /\ UNCHANGED <<daemon, alive, control, connections>>

\* send_exit_event: after the last output
PtyExit ==
  /\ loop # "down" /\ alive
  /\ Len(panes) < PaneCapacity
  /\ panes' = Append(panes, "exited")
  /\ alive' = FALSE
  /\ UNCHANGED <<daemon, output, control, connections>>

-----------------------------------------------------------------------------
(* The event loop. *)

\* detach_client, for a client whose queue becomes q
Detached(q) ==
  /\ client' = 0 /\ inFlight' = FALSE
  /\ due' = FALSE /\ resizing' = FALSE /\ exitDue' = FALSE
  /\ writer' = [writer EXCEPT ![client] = [@ EXCEPT !.queue = q, !.closed = TRUE]]

\* enqueue of the messages ms in a row: what the queue takes of them
Room == QueueCapacity - Len(writer[client].queue)
Fits(ms) == ms = <<>> \/ (~writer[client].closed /\ Len(ms) <= Room)
Taken(ms) ==
  IF writer[client].closed THEN <<>>
  ELSE SubSeq(ms, 1, IF Len(ms) <= Room THEN Len(ms) ELSE Room)

\* send_to, for the messages ms; the client's pending work would be rz, sn, ex
\* and the flag force_full_render fl.  A render moves the cache even when the
\* queue then refuses the Snapshot.
Send(ms, rz, sn, ex, fl) ==
  LET drawn == \E i \in DOMAIN ms : IsSnapshot(ms[i]) IN
  /\ rendered' = IF drawn THEN term ELSE rendered
  /\ full' = (fl /\ ~drawn)
  /\ \/ /\ Fits(ms)
        /\ writer' = [writer EXCEPT ![client].queue = @ \o ms]
        /\ inFlight' = (inFlight \/ drawn)
        /\ resizing' = rz /\ due' = sn /\ exitDue' = ex
        /\ UNCHANGED client
     \/ /\ ~Fits(ms)
        /\ Detached(writer[client].queue \o Taken(ms))

\* Mutant: the newcomer gets the changes since the last render.
AcceptUnforced ==
  LET c == taken + 1
      v == IF exited THEN term + 1 ELSE term
      frame == [kind |-> "snapshot", base |-> rendered, to |-> v, full |-> full]
  IN
  /\ Turning /\ taken < MaxConns
  /\ taken' = c /\ client' = c /\ inFlight' = TRUE
  /\ due' = FALSE /\ resizing' = FALSE /\ exitDue' = FALSE
  /\ term' = v /\ rendered' = v /\ full' = FALSE
  /\ exited' = FALSE /\ alive' = (alive \/ exited)
  /\ writer' = [d \in Conn |->
       IF d = c THEN [writer[c] EXCEPT !.stage = "idle", !.queue = <<Reply, frame>>]
       ELSE IF d = client THEN [writer[d] EXCEPT !.closed = TRUE]
       ELSE writer[d]]
  /\ peer' = [peer EXCEPT ![c].line = "open", ![c].heard = TRUE]
  /\ UNCHANGED <<loop, output, panes, control, said>>

\* accept_client: Takeover.  The shell is restarted when it has exited, which
\* gives the pane an empty screen; mark_attached asks for a full render.
Accept ==
  LET c == taken + 1
      v == IF exited THEN term + 1 ELSE term
      frame == [kind |-> "snapshot", base |-> rendered, to |-> v, full |-> TRUE]
  IN
  /\ Turning /\ taken < MaxConns
  /\ taken' = c /\ client' = c /\ inFlight' = TRUE
  /\ due' = FALSE /\ resizing' = FALSE /\ exitDue' = FALSE
  /\ term' = v /\ rendered' = v /\ full' = FALSE
  /\ exited' = FALSE /\ alive' = (alive \/ exited)
  /\ writer' = [d \in Conn |->
       IF d = c THEN [writer[c] EXCEPT !.stage = "idle", !.queue = <<Reply, frame>>]
       ELSE IF d = client THEN [writer[d] EXCEPT !.closed = TRUE]
       ELSE writer[d]]
  /\ peer' = [peer EXCEPT ![c].line = "open", ![c].heard = TRUE]
  /\ UNCHANGED <<loop, output, panes, control, said>>

\* expire_stale_clients
ExpireLease ==
  /\ Turning /\ client # 0
  /\ Detached(writer[client].queue)
  /\ UNCHANGED <<loop, taken, term, exited, rendered, full, process, control,
                 peer, said>>

\* The next control event, and whether its client is still the one attached.
Arrived(kind) == Turning /\ control # <<>> /\ Head(control).kind = kind
FromClient == Head(control).conn = client
Consume ==
  /\ control' = Tail(control)
  /\ UNCHANGED <<loop, taken, term, exited, process, peer, said>>

\* Any event of a client that is no longer in the table
HandleStale ==
  /\ Turning /\ control # <<>> /\ ~FromClient
  /\ Consume
  /\ UNCHANGED <<client, inFlight, due, resizing, exitDue, rendered, full, writer>>

\* Mutant: a second Snapshot is sent while one is in flight.
HandleScrollAnyway ==
  /\ Arrived("scroll") /\ FromClient /\ Consume
  /\ Send(<<Snapshot(full)>>, resizing, FALSE, exitDue, full)

\* Scroll and every other message that ends with send_attached_snapshot
HandleScroll ==
  /\ Arrived("scroll") /\ FromClient /\ Consume
  /\ \/ /\ inFlight
        /\ due' = TRUE
        /\ UNCHANGED <<client, inFlight, resizing, exitDue, rendered, full, writer>>
     \/ /\ ~inFlight
        /\ Send(<<Snapshot(full)>>, resizing, FALSE, exitDue, full)

HandleResize ==
  /\ Arrived("resize") /\ FromClient /\ Consume
  /\ resizing' = TRUE
  /\ UNCHANGED <<client, inFlight, due, exitDue, rendered, full, writer>>

HandleHeartbeat ==
  /\ Arrived("heartbeat") /\ FromClient /\ Consume
  /\ Send(<<Reply>>, resizing, due, exitDue, full)

\* Detach is answered first; an answer that cannot be queued detaches as well.
HandleDetach ==
  /\ Arrived("detach") /\ FromClient /\ Consume
  /\ Detached(writer[client].queue \o Taken(<<Reply>>))
  /\ UNCHANGED <<rendered, full>>

\* ClientDisconnected, ClientWriteFailed
HandleLoss ==
  /\ Arrived("disconnected") \/ Arrived("failed")
  /\ FromClient /\ Consume
  /\ Detached(writer[client].queue)
  /\ UNCHANGED <<rendered, full>>

\* Mutant: the flag stays up.
HandleWrittenNever ==
  /\ Arrived("written") /\ FromClient /\ Consume
  /\ UNCHANGED <<client, inFlight, due, resizing, exitDue, rendered, full, writer>>

HandleWritten ==
  /\ Arrived("written") /\ FromClient /\ Consume
  /\ inFlight' = FALSE
  /\ UNCHANGED <<client, due, resizing, exitDue, rendered, full, writer>>

\* handle_pane_event
PaneOutput ==
  /\ Turning /\ panes # <<>> /\ Head(panes) = "output"
  /\ panes' = Tail(panes)
  /\ term' = term + 1
  /\ due' = (due \/ client # 0)
  /\ UNCHANGED <<loop, client, inFlight, taken, resizing, exitDue, exited, rendered,
                 full, alive, output, control, connections>>

PaneExited ==
  /\ Turning /\ panes # <<>> /\ Head(panes) = "exited"
  /\ panes' = Tail(panes)
  /\ exited' = TRUE
  /\ exitDue' = (exitDue \/ client # 0)
  /\ UNCHANGED <<loop, client, inFlight, taken, due, resizing, term, rendered, full,
                 alive, output, control, connections>>

\* flush_snapshots, the part before the interval is checked: a size that has
\* been stable for RESIZE_DEBOUNCE is applied.
ApplyResize ==
  /\ Turning /\ resizing
  /\ resizing' = FALSE /\ full' = TRUE /\ due' = TRUE
  /\ UNCHANGED <<loop, client, inFlight, taken, exitDue, term, exited, rendered,
                 process, control, connections>>

\* Mutant: the exit does not wait for the Snapshot in flight.
FlushEager ==
  /\ Turning /\ client # 0
  /\ due \/ exitDue
  /\ LET held == inFlight \/ resizing
         ms == (IF due /\ ~held THEN <<Snapshot(full)>> ELSE <<>>)
                 \o (IF exitDue THEN <<Exit>> ELSE <<>>)
     IN Send(ms, resizing, due /\ held, FALSE, full)
  /\ UNCHANGED <<loop, taken, term, exited, process, control, peer, said>>

\* Mutant: what cannot be sent now is dropped.
FlushDropping ==
  /\ Turning /\ client # 0
  /\ due \/ exitDue
  /\ LET held == inFlight \/ resizing
         ms == (IF due /\ ~held THEN <<Snapshot(full)>> ELSE <<>>)
                 \o (IF exitDue /\ ~held THEN <<Exit>> ELSE <<>>)
     IN Send(ms, resizing, FALSE, exitDue /\ held, full)
  /\ UNCHANGED <<loop, taken, term, exited, process, control, peer, said>>

\* Mutant: an exit that has to wait is dropped.
FlushForgetting ==
  /\ Turning /\ client # 0
  /\ due \/ exitDue
  /\ LET held == inFlight \/ resizing
         ms == (IF due /\ ~held THEN <<Snapshot(full)>> ELSE <<>>)
                 \o (IF exitDue /\ ~held THEN <<Exit>> ELSE <<>>)
     IN Send(ms, resizing, due /\ held, FALSE, full)
  /\ UNCHANGED <<loop, taken, term, exited, process, control, peer, said>>

\* ... and the rest: a Snapshot waits for the one in flight and for the size to
\* settle, an exit waits for the Snapshot.
Flush ==
  /\ Turning /\ client # 0
  /\ due \/ exitDue
  /\ LET held == inFlight \/ resizing
         ms == (IF due /\ ~held THEN <<Snapshot(full)>> ELSE <<>>)
                 \o (IF exitDue /\ ~held THEN <<Exit>> ELSE <<>>)
     IN Send(ms, resizing, due /\ held, exitDue /\ held, full)
  /\ UNCHANGED <<loop, taken, term, exited, process, control, peer, said>>

\* A shutdown request is seen at the head of the loop ...
Shutdown ==
  /\ Turning
  /\ loop' = "waiting"
  /\ UNCHANGED <<client, inFlight, taken, due, resizing, exitDue, term, exited,
                 rendered, full, process, control, connections>>

\* ... which waits for the writers of the clients still in the table, wait_idle,
\* and then kills the shells and ends the process with its threads.
Idle(c) == writer[c].stage # "writing" /\ writer[c].queue = <<>>

ShutdownSessions ==
  /\ loop = "waiting"
  /\ \A c \in {client} \ {0} : Idle(c)
  /\ loop' = "down"
  /\ panes' = <<>> /\ control' = <<>> /\ alive' = FALSE
  /\ writer' = [c \in Conn |-> Unborn]
  /\ UNCHANGED <<client, inFlight, taken, due, resizing, exitDue, term, exited,
                 rendered, full, output, peer, said>>

-----------------------------------------------------------------------------
(* The writer thread of connection c: client_writer. *)

WriterTurn(c) == loop # "down" /\ UNCHANGED <<daemon, process, said>>

TakeMessage(c) ==
  /\ WriterTurn(c)
  /\ writer[c].stage = "idle" /\ writer[c].queue # <<>>
  /\ writer' = [writer EXCEPT ![c].stage = "writing",
                              ![c].message = Head(writer[c].queue),
                              ![c].queue = Tail(writer[c].queue)]
  /\ UNCHANGED <<control, peer>>

\* The message is written and the client reads it; the thread blocks for as
\* long as the client does not read.
Write(c) ==
  /\ WriterTurn(c)
  /\ writer[c].stage = "writing" /\ peer[c].line = "open"
  /\ LET m == writer[c].message IN
       /\ peer' = [peer EXCEPT
            ![c].screen = IF IsSnapshot(m) THEN m.to ELSE @,
            ![c].exit = IF m.kind = "exit" THEN m.to ELSE @]
       /\ writer' = [writer EXCEPT
            ![c].stage = IF IsSnapshot(m) THEN "noting" ELSE "idle",
            ![c].message = Reply]
  /\ UNCHANGED control

NoteWritten(c) ==
  /\ WriterTurn(c)
  /\ writer[c].stage = "noting" /\ Len(control) < ControlCapacity
  /\ control' = Append(control, Written(c))
  /\ writer' = [writer EXCEPT ![c].stage = "idle"]
  /\ UNCHANGED peer

WriteFails(c) ==
  /\ WriterTurn(c)
  /\ writer[c].stage = "writing" /\ peer[c].line = "cut"
  /\ writer' = [writer EXCEPT ![c] = [stage |-> "failing", queue |-> <<>>,
                                      message |-> Reply, closed |-> TRUE]]
  /\ UNCHANGED <<control, peer>>

NoteFailure(c) ==
  /\ WriterTurn(c)
  /\ writer[c].stage = "failing" /\ Len(control) < ControlCapacity
  /\ control' = Append(control, [kind |-> "failed", conn |-> c])
  /\ writer' = [writer EXCEPT ![c].stage = "ended"]
  /\ UNCHANGED peer

\* Closed and drained: the thread shuts the socket down and ends.
EndWriter(c) ==
  /\ WriterTurn(c)
  /\ writer[c].stage = "idle" /\ writer[c].closed /\ writer[c].queue = <<>>
  /\ writer' = [writer EXCEPT ![c].stage = "ended"]
  /\ peer' = [peer EXCEPT ![c].line = "cut"]
  /\ UNCHANGED control

-----------------------------------------------------------------------------
(* The client at the other end, and the reader thread: client_reader. *)

PeerTurn(c) == loop # "down" /\ UNCHANGED <<daemon, process, writer>>

\* A message is sent, read and passed on.
ClientSays(c, kind) ==
  /\ PeerTurn(c)
  /\ peer[c].line \in {"open", "stalled"} /\ peer[c].heard
  /\ said < MaxMessages /\ said' = said + 1
  /\ Len(control) < ControlCapacity
  /\ control' = Append(control, [kind |-> kind, conn |-> c])
  /\ UNCHANGED peer

\* The reader thread meets the end of the stream.
ReaderEnds(c) ==
  /\ PeerTurn(c)
  /\ peer[c].line = "cut" /\ peer[c].heard
  /\ Len(control) < ControlCapacity
  /\ control' = Append(control, [kind |-> "disconnected", conn |-> c])
  /\ peer' = [peer EXCEPT ![c].heard = FALSE]
  /\ UNCHANGED said

\* The client stops reading, or goes away.
PeerStalls(c) ==
  /\ PeerTurn(c) /\ MayStall
  /\ peer[c].line = "open"
  /\ peer' = [peer EXCEPT ![c].line = "stalled"]
  /\ UNCHANGED <<control, said>>

PeerLeaves(c) ==
  /\ PeerTurn(c)
  /\ peer[c].line \in {"open", "stalled"}
  /\ peer' = [peer EXCEPT ![c].line = "cut"]
  /\ UNCHANGED <<control, said>>

-----------------------------------------------------------------------------
HandleControl ==
  \/ HandleStale \/ HandleScroll \/ HandleResize \/ HandleHeartbeat
  \/ HandleDetach \/ HandleLoss \/ HandleWritten

HandlePane == PaneOutput \/ PaneExited

Writer(c) ==
  \/ TakeMessage(c) \/ Write(c) \/ NoteWritten(c)
  \/ WriteFails(c) \/ NoteFailure(c) \/ EndWriter(c)

Next ==
  \/ PtyOutput \/ PtyExit
  \/ Accept \/ ExpireLease \/ HandleControl \/ HandlePane
  \/ ApplyResize \/ Flush \/ Shutdown \/ ShutdownSessions
  \/ \E c \in Conn :
       \/ Writer(c) \/ ReaderEnds(c) \/ PeerStalls(c) \/ PeerLeaves(c)
       \/ \E kind \in Request : ClientSays(c, kind)

Spec == Init /\ [][Next]_vars

\* The threads of the daemon are scheduled; shells and clients owe it nothing,
\* except that a client that is still "open" reads what it is sent.
FairSpec ==
  /\ Spec
  /\ WF_vars(HandleControl) /\ WF_vars(HandlePane)
  /\ WF_vars(ApplyResize) /\ WF_vars(Flush) /\ WF_vars(ShutdownSessions)
  /\ \A c \in Conn : WF_vars(Writer(c)) /\ WF_vars(ReaderEnds(c))

-----------------------------------------------------------------------------
\* The messages of connection c that are still to be read, in order.
OnTheWay(c) ==
  (IF writer[c].stage = "writing" THEN <<writer[c].message>> ELSE <<>>)
    \o writer[c].queue
SnapshotsTo(c) == {i \in DOMAIN OnTheWay(c) : IsSnapshot(OnTheWay(c)[i])}
Failed(c) == writer[c].stage \in {"failing", "ended"}

\* The screen the client has when it comes to read message i.
ShownAt(c, i) ==
  LET before == {j \in SnapshotsTo(c) : j < i} IN
  IF before = {} THEN peer[c].screen
  ELSE OnTheWay(c)[CHOOSE j \in before : \A k \in before : k <= j].to

(* At most one Snapshot is queued, being written or waiting to be          *)
(* acknowledged by SnapshotWritten, and snapshot_in_flight says whether    *)
(* there is one (plans/003: "At most one Snapshot is queued or in flight   *)
(* per interactive client"): a flag left up would end the client's updates *)
(* for ever, a flag left down would let Snapshots pile up.                 *)
Outstanding(c) ==
  {<<"sent", i>> : i \in SnapshotsTo(c)}
    \cup (IF writer[c].stage = "noting" THEN {<<"noting", 1>>} ELSE {})
    \cup {<<"written", i>> : i \in {j \in DOMAIN control : control[j] = Written(c)}}

OneInFlight ==
  Turning /\ client # 0 /\ ~Failed(client) =>
    Cardinality(Outstanding(client)) = (IF inFlight THEN 1 ELSE 0)

(* A Snapshot that carries changes only meets the screen they start from,  *)
(* on every connection, and after the last one the client has what the     *)
(* session's render cache holds (plans/003: "Session render cache advances *)
(* in exactly the transport order").                                       *)
ChangesApply ==
  \A c \in Conn :
    /\ \A i \in SnapshotsTo(c) :
         ~OnTheWay(c)[i].full => OnTheWay(c)[i].base = ShownAt(c, i)
    /\ Turning /\ c = client /\ ~Failed(c) =>
         rendered = ShownAt(c, Len(OnTheWay(c)) + 1)

(* A client learns that the process has exited after it has seen the       *)
(* process's last output (plans/003 rule 5), whatever snapshot was in      *)
(* flight, due or waiting for a resize when the exit came.                 *)
ExitComesLast == \A c \in Conn : peer[c].exit <= peer[c].screen

(* An attached client that is owed nothing has been sent the screen as it  *)
(* is: no output is forgotten between the pending set, the flag and the    *)
(* queue.                                                                  *)
NothingOwed ==
  client # 0 /\ ~due /\ ~resizing /\ ~Failed(client) => rendered = term

(* What a client that reads gets to see: the output processed while it is  *)
(* attached, unless it loses the session, leaves, or the daemon stops.     *)
OutputIsSeen ==
  \A c \in Conn, v \in Version :
    client = c /\ term = v
      ~> peer[c].screen >= v \/ client # c \/ peer[c].line # "open" \/ ~Turning

(* ... and that the process has exited.                                    *)
ExitIsSeen ==
  \A c \in Conn :
    client = c /\ exitDue
      ~> peer[c].exit # 0 \/ client # c \/ peer[c].line # "open" \/ ~Turning

(* The delivery of screens and exits over all connections implements the   *)
(* abstract one: screens only go forward, and an exit meets the screen it  *)
(* is about.                                                               *)
Delivery == INSTANCE ScreenDelivery WITH
  screen <- [c \in Conn |-> peer[c].screen],
  told <- [c \in Conn |-> peer[c].exit]

ImplementsDelivery == Delivery!Spec

(* README.md:35: "`plux stop` cleanly ends the daemon and all panes",      *)
(* whatever the attached client does meanwhile.                            *)
StopEnds == loop = "waiting" ~> loop = "down"

=============================================================================
