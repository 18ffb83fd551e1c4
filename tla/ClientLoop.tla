------------------------------ MODULE ClientLoop ------------------------------
(***************************************************************************)
(* The interactive client (src/client.rs, enter): one event loop fed by    *)
(* the terminal, by a reader thread per connection and by clipboard        *)
(* workers.  It notices that its connection is lost, attaches again under  *)
(* a new generation, and keeps what the user types while a paste is being  *)
(* uploaded.                                                               *)
(*                                                                         *)
(* What is typed is a sequence of tokens, numbered in the order they are   *)
(* typed: a key, Esc, Enter, a complete bracketed paste, the two halves of *)
(* one that arrives in two reads, the key sequence that detaches.  Time is *)
(* left out: a timeout may happen whenever it is armed.                    *)
(*                                                                         *)
(* The threads that feed the loop are not steps of their own.  A reader or *)
(* a worker that has not come round yet cannot be told from one whose      *)
(* message waits in the channel, so that the loop takes a message where it *)
(* is sent; and what is typed while the loop already waits for the server  *)
(* is as if typed after the message it then gets.                          *)
(***************************************************************************)
EXTENDS Naturals, Sequences, SequencesExt

CONSTANTS
  MaxTyped,        \* bound: tokens
  MaxRead,         \* bound: tokens the terminal hands over in one read
  MaxConns,        \* bound: connections of this client
  Kinds,           \* the kinds of tokens that are typed
  Transports,      \* whether the client attaches through SSH
  InputBurst       \* MAX_CONSECUTIVE_INPUT_EVENTS

ASSUME ClientAssumption ==
  /\ {MaxTyped, MaxRead} \subseteq Nat
  /\ {MaxConns, InputBurst} \subseteq Nat \ {0}
  /\ Kinds \subseteq {"key", "esc", "enter", "paste", "start", "end", "detach"}
  /\ Transports \subseteq BOOLEAN

Conn == 1 .. MaxConns

VARIABLES
  remote,     \* attached through SSH: pastes are uploaded
  typed,      \* the kinds of the tokens typed so far
  inputs,     \* the channel from the terminal: the reads not yet taken
  net,        \* per connection: what the daemon sent and the loop has not seen
  open,       \* connections whose socket is open
  phase,      \* connected and waiting_snapshot; "ended" when enter returns
  generation, \* connection_generation
  burst,      \* consecutive_input_events
  detector,   \* the paste detector: active, and the bytes it holds back
  upload,     \* active_upload: its id and its original, id 0 for none
  uploads,    \* upload ids used
  failed,     \* clipboard_activity is Failed
  workers,    \* clipboard workers that have not finished
  queued,     \* pending_clipboard_input
  replay,     \* replay_input, empty for None
  sent,       \* tokens written to a connection, in order
  owed,       \* tokens accepted on this connection and not discarded by the user
  view,       \* the connection whose Snapshot was drawn last
  straddles,  \* an upload began while the detector held input back
  server      \* the session is gone; another client has it

terminal == <<remote, typed>>
link == <<net, open, server>>
loop == <<phase, generation, burst>>
paste == <<detector, upload, uploads, failed, workers, queued, replay, straddles>>
vars == <<terminal, inputs, link, loop, paste, sent, owed, view>>

Idle == [active |-> FALSE, held |-> <<>>]
NoUpload == [id |-> 0, original |-> <<>>]
KindOf(t) == typed[t]
Is(ts, kind) == Len(ts) = 1 /\ KindOf(ts[1]) = kind
HasEscape(ts) == \E i \in DOMAIN ts : KindOf(ts[i]) \in {"esc", "paste", "start", "end"}
Busy == upload.id # 0 \/ failed
Running == phase # "ended"
MayLose == generation < MaxConns

Init ==
  /\ remote \in Transports
  /\ typed = <<>> /\ inputs = <<>>
  /\ net = [g \in Conn |-> IF g = 1 THEN <<"snapshot">> ELSE <<>>]
  /\ open = {1}
  /\ phase = "connected" /\ generation = 1 /\ burst = 0
  /\ detector = Idle /\ upload = NoUpload /\ uploads = 0 /\ failed = FALSE
  /\ workers = {} /\ queued = <<>> /\ replay = <<>>
  /\ sent = <<>> /\ owed = {} /\ view = 0 /\ straddles = FALSE
  /\ server = [gone |-> FALSE, taken |-> FALSE]

-----------------------------------------------------------------------------
(* The terminal. *)

OpenPaste(ks) ==
  \E i \in DOMAIN ks : ks[i] = "start" /\ \A j \in i .. Len(ks) : ks[j] # "end"

\* Terminals bracket a paste with one start and one end.
Sensible(ks) ==
  \A i \in DOMAIN ks :
    IF OpenPaste(SubSeq(ks, 1, i - 1)) THEN ks[i] \in {"key", "end"} ELSE ks[i] # "end"

\* spawn_stdin_reader: one read of at most MaxRead tokens
Type ==
  /\ Running
  /\ \E ks \in SeqOf(Kinds, MaxRead) :
       LET ts == [i \in DOMAIN ks |-> Len(typed) + i] IN
       /\ ks # <<>> /\ Len(typed \o ks) <= MaxTyped /\ Sensible(typed \o ks)
       /\ typed' = typed \o ks
       /\ inputs' = Append(inputs, ts)
  /\ UNCHANGED <<remote, link, loop, paste, sent, owed, view>>

-----------------------------------------------------------------------------
(* The daemon and the network. *)

\* The session ends, by its process or by a Kill.
SessionEnds ==
  /\ ~server.gone
  /\ net' = IF generation \in open
            THEN [net EXCEPT ![generation] = Append(@, "finished")] ELSE net
  /\ server' = [server EXCEPT !.gone = TRUE]
  /\ UNCHANGED <<terminal, inputs, open, loop, paste, sent, owed, view>>

\* The stream of connection g ends after some of what is under way.
Ends(g) ==
  /\ open' = open \ {g}
  /\ \E n \in 0 .. Len(net[g]) :
       net' = [net EXCEPT ![g] = Append(SubSeq(@, 1, n), "closed")]

Cut ==
  /\ MayLose /\ generation \in open
  /\ Ends(generation)
  /\ UNCHANGED <<terminal, inputs, server, loop, paste, sent, owed, view>>

\* Another client takes the session over, and leaves it.
TakenOver ==
  /\ MayLose /\ ~server.taken /\ ~server.gone
  /\ IF generation \in open THEN Ends(generation) ELSE UNCHANGED <<net, open>>
  /\ server' = [server EXCEPT !.taken = TRUE]
  /\ UNCHANGED <<terminal, inputs, loop, paste, sent, owed, view>>

Released ==
  /\ server.taken
  /\ server' = [server EXCEPT !.taken = FALSE]
  /\ UNCHANGED <<terminal, inputs, net, open, loop, paste, sent, owed, view>>

-----------------------------------------------------------------------------
(* Sending. *)

\* mark_reconnecting: closing kills the ssh child; a local socket stays open as
\* long as its reader thread has it
Lost ==
  /\ phase' = "lost" /\ owed' = {}
  /\ IF remote /\ generation \in open THEN Ends(generation) ELSE UNCHANGED <<net, open>>

End == phase' = "ended"

\* dispatch_input_bytes: everything is written, or all before the key that
\* detaches; or a write fails after some of it.
Written(ts) == sent' = sent \o ts
Detaches(ts) == \E i \in DOMAIN ts : KindOf(ts[i]) = "detach"
BeforeDetach(ts) ==
  SubSeq(ts, 1, SelectInSeq(ts, LAMBDA t : KindOf(t) = "detach") - 1)

Delivered(ts) == ~Detaches(ts) /\ Written(ts) /\ UNCHANGED <<net, open>>
DetachedBy(ts) ==
  Detaches(ts) /\ Written(BeforeDetach(ts)) /\ End /\ UNCHANGED <<net, open, owed>>
WriteFails(ts) ==
  LET all == IF Detaches(ts) THEN BeforeDetach(ts) ELSE ts IN
  /\ MayLose
  /\ \E n \in 0 .. Len(all) - 1 : Written(SubSeq(all, 1, n))
  /\ Lost

-----------------------------------------------------------------------------
(* PasteDetector. *)

\* One token of feed: what is held of an open paste grows until its end.
Scan(d, t) ==
  IF d.active
  THEN IF KindOf(t) = "end"
       THEN [d EXCEPT !.active = FALSE, !.held = <<>>, !.plain = <<>>,
                      !.out = Append(@, [paste |-> TRUE, tokens |-> Append(d.held, t)])]
       ELSE [d EXCEPT !.held = Append(@, t)]
  ELSE LET before == IF d.plain = <<>> THEN d.out
                     ELSE Append(d.out, [paste |-> FALSE, tokens |-> d.plain])
       IN CASE KindOf(t) = "start" ->
                 [active |-> TRUE, held |-> <<t>>, plain |-> <<>>, out |-> before]
            [] KindOf(t) = "paste" ->
                 [d EXCEPT !.plain = <<>>,
                           !.out = Append(before, [paste |-> TRUE, tokens |-> <<t>>])]
            [] OTHER -> [d EXCEPT !.plain = Append(@, t)]

\* The rest of feed: an Esc at the end of the input may begin a marker and is
\* held back, too; the rest goes out.
Settle(d) ==
  LET keep == d.plain # <<>> /\ KindOf(Last(d.plain)) = "esc"
      plain == IF keep THEN Front(d.plain) ELSE d.plain
  IN [detector |-> [active |-> d.active,
                    held |-> IF keep THEN <<Last(d.plain)>> ELSE d.held],
      out |-> IF plain = <<>> THEN d.out
              ELSE Append(d.out, [paste |-> FALSE, tokens |-> plain])]

Feed(ts) ==
  LET start == [active |-> detector.active, plain |-> <<>>, out |-> <<>>,
                held |-> IF detector.active THEN detector.held ELSE <<>>]
      input == IF detector.active THEN ts ELSE detector.held \o ts
      scan[i \in 0 .. Len(input)] == IF i = 0 THEN start ELSE Scan(scan[i - 1], input[i])
  IN Settle(scan[Len(input)])

Tokens(out) == FlattenSeq([i \in DOMAIN out |-> out[i].tokens])

-----------------------------------------------------------------------------
(* The loop. *)

\* What most steps of the loop leave alone: the other ends, what is on screen;
\* and what those leave that write to no connection.
Quiet == UNCHANGED <<terminal, server, generation, view>>
Still == UNCHANGED <<net, open, sent, owed>>

\* The ssh child is gone, a heartbeat is due for 30 s, a Heartbeat, a Resize or
\* what tick sends cannot be written; or no Snapshot came for 30 s.
ConnectionFails ==
  /\ phase \in {"connected", "waiting"} /\ MayLose
  /\ Lost
  /\ UNCHANGED <<inputs, burst, paste, sent>> /\ Quiet

\* Mutant: the paste detector keeps what it holds.
KeptDetector == detector' = detector
FreshDetector == detector' = Idle

\* What the daemon answers to attach_stream: Attach with the client's token finds
\* the session, and nobody else on it.
Accepted == ~server.gone /\ ~server.taken

\* The first Snapshot follows; enter drops what it kept for the old connection.
Reattach ==
  /\ phase = "lost" /\ MayLose /\ Accepted
  /\ LET g == generation + 1 IN
     /\ generation' = g /\ phase' = "waiting"
     /\ open' = {g}
     /\ net' = [net EXCEPT ![g] = <<"snapshot">>,
                           ![generation] = IF generation \in open
                                           THEN Append(@, "closed") ELSE @]
  /\ FreshDetector /\ upload' = NoUpload /\ failed' = FALSE
  /\ queued' = <<>> /\ replay' = <<>>
  /\ UNCHANGED <<terminal, inputs, server, burst, uploads, workers,
                 straddles, sent, owed, view>>

\* is_retryable_reconnect_error; every other failure is tried again
GivesUp ==
  /\ phase = "lost" /\ ~Accepted
  /\ End
  /\ UNCHANGED <<inputs, burst, paste>> /\ Quiet /\ Still

\* Mutant: the paste comes behind what was typed after it.
OriginalLast == queued \o upload.original
\* prepend_input
Original == upload.original \o queued

UploadTimesOut ==
  /\ upload.id # 0
  /\ queued' = Original /\ failed' = TRUE /\ upload' = NoUpload
  /\ UNCHANGED <<phase, inputs, burst, detector, uploads, workers,
                 replay, straddles>>
  /\ Quiet /\ Still

\* feed(b""): what was held back for too long goes out as it is
ReleaseHeld ==
  /\ phase = "connected" /\ ~Busy /\ detector.held # <<>>
  /\ detector' = Idle
  /\ \/ Delivered(detector.held) /\ UNCHANGED <<phase, owed>>
     \/ DetachedBy(detector.held)
     \/ WriteFails(detector.held)
  /\ UNCHANGED <<inputs, burst, upload, uploads, failed, workers,
                 queued, replay, straddles>>
  /\ Quiet

\* What paste_detector makes of the input, up to the first paste that is
\* uploaded; the rest is queued behind it.
Dispatch(ts) ==
  LET fed == Feed(ts)
      first == IF remote THEN SelectInSeq(fed.out, LAMBDA e : e.paste) ELSE 0
      now == Tokens(IF first = 0 THEN fed.out ELSE SubSeq(fed.out, 1, first - 1))
      later == IF first = 0 THEN <<>> ELSE SubSeq(fed.out, first + 1, Len(fed.out))
      w == [id |-> uploads + 1, generation |-> generation,
            original |-> IF first = 0 THEN <<>> ELSE fed.out[first].tokens]
  IN /\ detector' = fed.detector
     /\ \/ /\ Delivered(now)
           /\ owed' = owed \cup ToSet(ts)
           /\ UNCHANGED phase
           /\ IF first = 0 THEN UNCHANGED <<upload, uploads, workers, queued, straddles>>
              ELSE /\ straddles' = (straddles \/ fed.detector.held # <<>>)
                   /\ upload' = [id |-> w.id, original |-> w.original]
                   /\ uploads' = w.id
                   /\ workers' = workers \cup {w}
                   /\ queued' = queued \o Tokens(later)
        \/ /\ DetachedBy(now) \/ WriteFails(now)
           /\ UNCHANGED <<upload, uploads, workers, queued, straddles>>
     /\ UNCHANGED failed

\* Input while no connection is up: Esc ends the client, the rest is dropped.
InputLost(ts) ==
  /\ phase # "connected"
  /\ IF HasEscape(ts) THEN End ELSE phase' = phase
  /\ UNCHANGED <<detector, upload, uploads, failed, workers, queued, straddles>> /\ Still

\* Esc cancels the upload, and the paste with it; what is queued is replayed.
CancelKey(ts) == phase = "connected" /\ upload.id # 0 /\ Is(ts, "esc")
Cancels(ts) ==
  /\ CancelKey(ts)
  /\ upload' = NoUpload /\ queued' = <<>>
  /\ owed' = owed \ ToSet(upload.original)
  /\ UNCHANGED <<phase, detector, uploads, failed, workers, straddles, net, open, sent>>
Replayed(ts) == IF CancelKey(ts) THEN queued ELSE <<>>

\* After a failure Esc discards what is queued, Enter sends it.
Discards(ts) ==
  /\ phase = "connected" /\ failed /\ Is(ts, "esc")
  /\ failed' = FALSE /\ queued' = <<>>
  /\ owed' = owed \ ToSet(queued)
  /\ UNCHANGED <<phase, detector, upload, uploads, workers, straddles, net, open, sent>>
Continues(ts) ==
  /\ phase = "connected" /\ failed /\ Is(ts, "enter")
  /\ failed' = FALSE /\ queued' = <<>>
  /\ LET all == queued \o ts IN
       \/ Delivered(all) /\ owed' = owed \cup ToSet(ts) /\ UNCHANGED phase
       \/ DetachedBy(all)
       \/ WriteFails(all)
  /\ UNCHANGED <<detector, upload, uploads, workers, straddles>>

Queues(ts) ==
  /\ phase = "connected" /\ Busy
  /\ ~Is(ts, "esc") /\ ~(failed /\ Is(ts, "enter"))
  /\ queued' = queued \o ts
  /\ owed' = owed \cup ToSet(ts)
  /\ UNCHANGED <<phase, detector, upload, uploads, failed, workers, straddles, net, open,
                 sent>>

Input(ts) ==
  /\ \/ InputLost(ts)
     \/ Cancels(ts)
     \/ Discards(ts)
     \/ Continues(ts)
     \/ Queues(ts)
     \/ phase = "connected" /\ ~Busy /\ Dispatch(ts)
  /\ replay' = Replayed(ts)

Replay ==
  /\ replay # <<>>
  /\ Input(replay)
  /\ UNCHANGED <<inputs, burst>> /\ Quiet

\* receive_client_event prefers input, but not for ever
TakesServer(g) ==
  /\ replay = <<>> /\ net[g] # <<>>
  /\ burst >= InputBurst \/ inputs = <<>>
  /\ burst' = 0
  /\ UNCHANGED <<terminal, inputs, server, generation, paste, sent>>
Seen(g) == net' = [net EXCEPT ![g] = Tail(@)]

ReadInput ==
  /\ replay = <<>> /\ inputs # <<>>
  /\ Input(Head(inputs))
  /\ inputs' = Tail(inputs)
  /\ burst' = IF burst < InputBurst THEN burst + 1 ELSE burst
  /\ Quiet

\* A signal, or the end of the terminal's input, behind all that was typed.
InputClosed ==
  /\ replay = <<>> /\ inputs = <<>>
  /\ End
  /\ UNCHANGED <<inputs, burst, paste>> /\ Quiet /\ Still

\* Mutant: the result of a cancelled upload counts.
AnyUpload(w) == phase = "connected" /\ upload.id # 0
ThisUpload(w) ==
  phase = "connected" /\ w.generation = generation /\ upload.id # 0 /\ w.id = upload.id

\* Mutant: what is replayed stays queued.
KeepsQueue == queued' = queued
TakesQueue == queued' = <<>>

\* spawn_clipboard_worker: the upload fails, or it returns what to type; the text
\* of a paste comes back as it was, even after a cancellation
UploadIgnored(w) ==
  /\ ~ThisUpload(w)
  /\ UNCHANGED <<phase, detector, upload, uploads, failed, queued, replay, straddles>>
  /\ Still
UploadFailed(w) ==
  /\ ThisUpload(w)
  /\ queued' = Original /\ failed' = TRUE /\ upload' = NoUpload
  /\ UNCHANGED <<phase, detector, uploads, replay, straddles>> /\ Still
UploadDone(w) ==
  /\ ThisUpload(w)
  /\ upload' = NoUpload
  /\ \/ /\ Delivered(w.original)
        /\ replay' = queued /\ TakesQueue
        /\ UNCHANGED <<phase, owed>>
     \/ WriteFails(w.original) /\ UNCHANGED <<replay, queued>>
  /\ UNCHANGED <<detector, uploads, failed, straddles>>

UploadFinished(w) ==
  /\ replay = <<>> /\ w \in workers
  /\ UploadIgnored(w) \/ UploadFailed(w) \/ UploadDone(w)
  /\ workers' = workers \ {w}
  /\ burst' = 0
  /\ UNCHANGED inputs /\ Quiet

\* Mutant: a message of any connection will do.
AnyConnection(g) == TRUE
Current(g) == g = generation

ServerMessage(g) ==
  /\ TakesServer(g) /\ Current(g) /\ Head(net[g]) # "closed"
  /\ LET kind == Head(net[g]) IN
     /\ view' = IF kind = "snapshot" THEN g ELSE view
     /\ phase' = CASE kind = "finished" -> "ended"
                   [] kind = "snapshot" /\ phase = "waiting" -> "connected"
                   [] OTHER -> phase
  /\ Seen(g) /\ UNCHANGED <<open, owed>>

ServerClosed(g) ==
  /\ TakesServer(g) /\ Current(g) /\ Head(net[g]) = "closed"
  /\ phase' = "lost" /\ owed' = {}
  /\ Seen(g) /\ UNCHANGED <<open, view>>

OldMessage(g) ==
  /\ TakesServer(g) /\ ~Current(g)
  /\ Seen(g) /\ UNCHANGED <<phase, open, owed, view>>

-----------------------------------------------------------------------------
Environment ==
  \/ Type
  \/ SessionEnds
  \/ Cut
  \/ TakenOver
  \/ Released

Server(g) == ServerMessage(g) \/ ServerClosed(g) \/ OldMessage(g)

Loop ==
  \/ ConnectionFails
  \/ Reattach
  \/ GivesUp
  \/ UploadTimesOut
  \/ ReleaseHeld
  \/ Replay
  \/ ReadInput
  \/ InputClosed
  \/ \E w \in workers : UploadFinished(w)
  \/ \E g \in Conn : Server(g)

Next == Running /\ (Environment \/ Loop)

Spec == Init /\ [][Next]_vars

-----------------------------------------------------------------------------
Held == detector.held \o upload.original \o queued \o replay

\* What is typed goes to the session at most once: a token that was written is
\* held nowhere any more, and none is held twice, whatever uploads fail, time out
\* or come back late.
AtMostOnce == IsInjective(sent \o Held)

\* While a connection is up, everything the loop has taken from the terminal on
\* it has been written or is still held, unless the user discarded it.
NothingLost == phase = "connected" => owed \subseteq ToSet(sent \o Held)

\* What is held while a connection is up was typed into that connection: nothing
\* survives a reconnection to be replayed into the new one.
NothingStale == phase = "connected" => ToSet(Held) \subseteq owed

\* Input is written in the order it is typed, also behind an upload; except for
\* an upload that starts while the detector holds later input back.
WrittenInOrder ==
  straddles \/ \A i, j \in DOMAIN sent : i < j => sent[i] < sent[j]

\* A client that is connected again shows the screen of its present connection,
\* not a late Snapshot of one before.
ViewIsCurrent == phase = "connected" /\ generation > 1 => view = generation
=============================================================================
