------------------------------- MODULE Selection -------------------------------
(***************************************************************************)
(* A selection in a scrolled view: the client's InputState composed with   *)
(* the daemon's view of the focused pane, over a connection that delivers  *)
(* in order and takes its time.  The client knows rows of its screen, the  *)
(* daemon moves the screen over the history; the two are kept together by  *)
(* scroll_delta alone, which counts what requests to scroll have moved.    *)
(*                                                                         *)
(* Lines are numbered as they are written; a view is the number of its     *)
(* first line.  Cursor addressing, the alternate screen and changes of     *)
(* size are left out, and a search lands at once (see SearchTask).         *)
(***************************************************************************)
EXTENDS InputState

CONSTANTS
  Gestures,       \* what the terminal delivers in one read: sequences of pieces
  HistoryLimit,   \* lines the history of a pane holds
  MaxLines,       \* bound: lines that scroll into the history
  MaxRequests,    \* bound: requests that move the view
  MaxWaiting,     \* bound: requests on their way
  MaxSnapshots,   \* bound: Snapshots on their way
  MaxCuts         \* bound: lost connections

ASSUME SelectionAssumption ==
  /\ HistoryLimit \in Nat /\ MaxLines \in Nat /\ MaxRequests \in Nat /\ MaxWaiting \in Nat
  /\ MaxSnapshots \in Nat \ {0} /\ MaxCuts \in Nat
  /\ Gestures \subseteq Seq(Typed)

VARIABLES
  written,    \* lines that have left the screen of the pane
  offset,     \* its scrollback offset
  delta,      \* Session::pending_scroll_delta
  inFlight,   \* ClientHandle::snapshot_in_flight
  due,        \* the session is in pending_snapshots
  requests,   \* what the client has sent and the daemon has not handled
  snapshots,  \* what the daemon has sent and the client has not drawn
  cuts,       \* connections lost so far
  \* Auxiliary:
  handled,    \* requests to move the view the daemon has handled
  slides,     \* times the view has moved without a delta
  drawn,      \* the Snapshot on the client's terminal
  asked,      \* requests to move the view the client has sent
  mark        \* the line the selection was begun on, and the slides by then

daemon == <<written, offset, delta, inFlight, due, handled, slides>>
client == <<input, drawn, asked, mark>>
allVars == <<daemon, client, requests, snapshots, cuts>>

History == Least(written, HistoryLimit)
View == written - offset

\* What send_snapshot puts together.
Taking == [view |-> View, delta |-> delta, atEnd |-> offset = 0,
           history |-> History > 0, handled |-> handled, slides |-> slides]

SelectionInit ==
  /\ Init
  /\ written = HistoryLimit /\ offset = 0 /\ delta = 0
  /\ inFlight = FALSE /\ due = FALSE
  /\ requests = <<>> /\ snapshots = <<>> /\ cuts = 0
  /\ handled = 0 /\ slides = 0
  /\ drawn = Taking /\ asked = 0 /\ mark = [line |-> 0, slides |-> 0]

-----------------------------------------------------------------------------
(* The client *)

Moves == {"scroll", "scrollToTop", "scrollToBottom", "search"}

\* A message, with the number of requests to move the view that were sent before
\* it; a Copy also with the lines its rows show, and whether the client still
\* waits for the effect of one of these requests.
Sent(action, before) ==
  IF action[1] # "copy" THEN [action |-> action, before |-> before]
  ELSE [action |-> action, before |-> before, early |-> before # drawn.handled,
        slides |-> drawn.slides,
        lines |-> <<drawn.view + action[2][1], drawn.view + action[2][3]>>]

\* write_actions, for one of them: `queue` is what is on its way, and the number
\* of requests to move the view sent so far.
Put(queue, action) ==
  IF action[1] \notin Moves \cup {"copy"} THEN queue
  ELSE [on |-> Append(queue.on, Sent(action, queue.asked)),
        asked |-> queue.asked + (IF action[1] \in Moves THEN 1 ELSE 0)]

\* The actions of a read or of a tick reach the stream in their order.
Sends(r) ==
  LET put[i \in 0 .. Len(r.out)] ==
        IF i = 0 THEN [on |-> requests, asked |-> asked] ELSE Put(put[i - 1], r.out[i])
      all == put[Len(r.out)]
  IN /\ all.asked <= MaxRequests
     /\ Len(all.on) <= MaxWaiting
     /\ Becomes(r.in)
     /\ requests' = all.on
     /\ asked' = all.asked
     /\ IF Selected(r.in) /\ r.in.anchor # input.anchor
        THEN mark' = [line |-> drawn.view + r.in.anchor[1], slides |-> drawn.slides]
        ELSE UNCHANGED mark
     /\ UNCHANGED <<daemon, drawn, snapshots, cuts>>

Read(b) == CanRead(input, b) /\ Sends(Fed(input, b))
AutoscrollPasses == Autoscrolls(input) /\ Sends(AutoscrollTick(input))
EscapePasses == input.pendingEscape # <<>> /\ Sends(EscapeTick(input))

\* handle_server_message, Snapshot
Draw ==
  /\ snapshots # <<>>
  /\ LET s == Head(snapshots)
         screen == [input.screen EXCEPT !.history = s.history]
     IN /\ Becomes(Shown(input, <<input.rows, input.cols>>, screen, s.delta, s.atEnd))
        /\ drawn' = s
  /\ snapshots' = Tail(snapshots)
  /\ UNCHANGED <<daemon, requests, asked, mark, cuts>>

-----------------------------------------------------------------------------
(* The daemon *)

\* send_attached_snapshot and send_snapshot, once the handler has left the view
\* at `to` with `moved` lines to tell.
ThenSnapshot(to, moved, slipping) ==
  LET left == [Taking EXCEPT !.view = written - to, !.delta = moved, !.atEnd = to = 0,
                             !.handled = handled + 1, !.slides = slipping]
  IN
  /\ offset' = to /\ slides' = slipping
  /\ handled' = handled + 1
  /\ IF inFlight
     THEN /\ delta' = moved /\ due' = TRUE
          /\ UNCHANGED <<inFlight, snapshots>>
     ELSE /\ Len(snapshots) < MaxSnapshots
          /\ snapshots' = Append(snapshots, left)
          /\ delta' = 0 /\ inFlight' = TRUE /\ due' = FALSE
  /\ UNCHANGED written

\* Mutant: counted as asked for, not as applied.
ScrollToAsked(to, by) == ThenSnapshot(to, delta + by, slides)

\* scroll_focused, scroll_focused_to_top and _bottom: what was applied counts
ScrollTo(to, by) == ThenSnapshot(to, delta + (to - offset), slides)

\* A search that succeeds leaves the view at the hit and tells no delta.
Search(to) == ThenSnapshot(to, delta, slides + 1)

\* Mutant: the rows of the screen the program writes to.
CopiedTextLive(m) == <<written + m.action[2][1], written + m.action[2][3]>>

\* TerminalState::selection_text: rows are those of the view as it is now
CopiedText(m) == <<View + m.action[2][1], View + m.action[2][3]>>

Handle ==
  /\ requests # <<>>
  /\ LET m == Head(requests)
         what == m.action[1]
     IN \/ /\ what = "scroll"
           /\ ScrollTo(Within(0, offset + m.action[2], History), m.action[2])
        \/ what = "scrollToTop" /\ ScrollTo(History, History - offset)
        \/ what = "scrollToBottom" /\ ScrollTo(0, -offset)
        \/ what = "search" /\ \E to \in 0 .. History : Search(to)
        \/ what = "copy" /\ UNCHANGED <<daemon, snapshots>>
  /\ requests' = Tail(requests)
  /\ UNCHANGED <<client, cuts>>

\* Grid::push_scrollback: a scrolled view stays on its lines, as long as the
\* history still holds them.
Output ==
  /\ written < MaxLines
  /\ written' = written + 1
  /\ offset' = IF offset = 0 THEN 0 ELSE Least(Least(written + 1, HistoryLimit), offset + 1)
  /\ slides' = IF written' - offset' = View THEN slides ELSE slides + 1
  /\ due' = TRUE
  /\ UNCHANGED <<delta, inFlight, handled, client, requests, snapshots, cuts>>

\* flush_snapshots
Flush ==
  /\ due /\ ~inFlight
  /\ Len(snapshots) < MaxSnapshots
  /\ snapshots' = Append(snapshots, Taking)
  /\ delta' = 0 /\ inFlight' = TRUE /\ due' = FALSE
  /\ UNCHANGED <<written, offset, handled, slides, client, requests, cuts>>

\* SnapshotWritten
Written ==
  /\ inFlight /\ inFlight' = FALSE
  /\ UNCHANGED <<written, offset, delta, due, handled, slides, client, requests,
                 snapshots, cuts>>

\* The connection is lost and taken up again: what was on its way is gone, and
\* with it the deltas that were counted in it.  The InputState stays.
Lost == \E i \in DOMAIN snapshots : snapshots[i].delta # 0

Reattach ==
  /\ cuts < MaxCuts
  /\ cuts' = cuts + 1
  /\ requests' = <<>> /\ handled' = asked
  /\ slides' = IF Lost THEN slides + 1 ELSE slides
  /\ snapshots' = <<[Taking EXCEPT !.handled = asked, !.slides = slides']>>
  /\ delta' = 0 /\ inFlight' = TRUE /\ due' = FALSE
  /\ UNCHANGED <<written, offset, client>>

SelectionNext ==
  \/ \E b \in Gestures : Read(b)
  \/ AutoscrollPasses \/ EscapePasses \/ Draw
  \/ Handle \/ Output \/ Flush \/ Written \/ Reattach

SelectionSpec == SelectionInit /\ [][SelectionNext]_allVars

-----------------------------------------------------------------------------
\* The row at which the client keeps the beginning of a selection shows the line
\* it was begun on, whatever was scrolled, drawn late or drawn together since:
\* the deltas add up.  Not when the view moved without one: output under a view
\* that is not scrolled, lines dropped from the history, a search, Snapshots
\* lost with a connection.
SelectionOnItsLine ==
  Selected(input) /\ drawn.slides = mark.slides =>
    drawn.view + input.anchor[1] = mark.line

\* The lines a Copy takes when the daemon comes to it are the lines that were
\* highlighted when it was asked for, unless a request to scroll had not been
\* answered by then (as when the button is released at an edge) or the view
\* moved by itself in the meantime.
CopiedIsHighlighted ==
  requests # <<>> /\ Head(requests).action[1] = "copy" =>
    LET m == Head(requests)
    IN m.lines = CopiedText(m) \/ m.early \/ m.slides # slides
=============================================================================
