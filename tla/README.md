# A TLA+ model of plux

plux is a terminal multiplexer: a daemon owns named sessions of pty panes, and
one interactive client at a time is attached to a session, over a Unix socket or
an SSH bridge. This directory models the parts of it that are hard to test,
model-checks them with TLC and proves the central invariants with TLAPS.

- [Inventory](#inventory) - the system's components, their state and operations
- [Modules](#modules) - what is modelled, and how it corresponds to the code
- [Runs](#runs) - what TLC checks, with which bounds and which fairness
- [Proofs](#proofs) - what TLAPS proves, and along which argument
- [Where code and documents disagree](#where-code-and-documents-disagree)
- [Known limits of the code](#known-limits-of-the-code)
- [Not modelled](#not-modelled)
- [Plan](#plan)

## Inventory

| Component | State | Operations | What makes it correct |
|---|---|---|---|
| Session and client registry (`src/daemon.rs`, `src/session.rs`) | `sessions`, `clients`, `pending_resizes`, `pending_snapshots`, `pending_exits`, `search_tasks`, two id counters, metadata files | requests (Create, List, Kill, Shutdown), handshakes (Attach, Takeover), messages on an attached stream, pane events, lease expiry, flush, search steps | a session has one holder and every holder a live session; pending work concerns it; a displaced connection never acts again; finished temporary sessions go |
| Snapshot delivery (`src/daemon.rs`, `Session::render`) | pending flags, `snapshot_in_flight`, render cache, per client a bounded queue, a writer and a reader thread, two bounded event channels | flush, scroll and other requests for a snapshot, write, acknowledge, displacement, shutdown | changes meet the screen they start from; no output is forgotten; the exit follows the last output; the daemon can stop |
| History search (`SearchTask`, `src/terminal.rs`, the vt100 grid) | the scan counter, the saved offset, the pane's scrollback | start, step, cancel; output and scrolling in between | every position once, in order; hits are shown; the view is put back; it ends |
| Pane I/O (`src/pane.rs`) | input queue and its byte count, exit state | enqueue, write, close; read, wait, report exit | the backlog is bounded and given back; the exit comes once and last |
| Startup and socket (`src/daemon.rs`, `src/socket.rs`, `src/client.rs`) | the socket path | bind, probe, remove, auto-start | one daemon per path |
| Interactive client (`src/client.rs`) | connection, reconnection deadline, heartbeat, upload, paste detector, input mode, selection | events of the server, the terminal and timers | input is not lost or sent twice; one connection at a time; it does not matter how input is cut into reads; a selection stays on its text |
| Transport (`src/transport.rs`) | the SSH bridge; an upload: the ssh child, the flag and the slot it can be cancelled through, files on the remote host | forward, upload, cancel, receive | an upload is complete or gone; a cancelled one ends and leaves no child |
| Layout (`src/layout.rs`, `Session`) | the split tree, focus, zoom, the size of the screen and of each pty | split, close, adjust, focus, zoom, resize, attach | panes tile the screen and their ptys fit; the focus moves wherever there is a pane; a split disturbs nobody else |
| Protocol (`src/protocol.rs`) | none | length-prefixed JSON frames | size limit; round trip |
| Terminal emulator (`src/terminal.rs`, `vendor/vt100`) | screen, history, modes | parse, resize, reflow, select | vendored; history bound |
| Clipboard, configuration, command line | none | external commands, parsing | pure I/O |

How they interact: the daemon has one state-owner thread. Reader threads (one
per client, one per pane) send it events through two bounded channels, the
control channel (clients and writers) and the pane channel; writer threads (one
per client, one per pane) take from bounded queues it fills. It polls the
listener itself. A handler runs to completion before the next begins, so that
all concurrency is between handlers, the queues and the threads at their ends.
Clients are separate processes that may stall, vanish and come back.

The hard behaviours are listed one by one, at their lines, as the hazards of
`PROJECT.json`. In short: the tables refer to each other by name and id and
change in dozens of handlers; handlers stop in the middle when a disk, a pty or
a queue fails; late events arrive for clients that are gone; the screen is sent
as changes, so that one snapshot lost or repeated corrupts all later ones; a
thread blocked on a peer can block what waits for it.

## Modules

| Module | Role |
|---|---|
| `SessionRegistry` | the state-owner thread: tables, one action per handler |
| `SessionLock` | what the client table promises: a fenced lock per session name |
| `MCSessionRegistry` | symmetry for TLC |
| `SessionRegistry_proofs` | theorems about `SessionRegistry`: types, searches, attachment |
| `RegistryTables_proofs` | its pending queues, panes, files and temporary sessions; who holds a session: it implements `SessionLock` |
| `SnapshotFlow` | the path of one session's screen to its clients, thread by thread |
| `ScreenDelivery` | what clients may see of a screen, abstractly |
| `SnapshotFlow_proofs` | theorems about `SnapshotFlow` |
| `SearchTask` | a client's search through the history of a pane |
| `SearchTask_proofs` | theorems about `SearchTask` |
| `ClientLoop` | the interactive client: its loop, connections, uploads and input |
| `ClientLoop_proofs` | theorems about `ClientLoop` |
| `InputState` | the interactive client: key modes, escape sequences, mouse and ticks |
| `Selection` | `InputState` composed with the daemon's view of a pane over a connection |
| `Selection_proofs` | theorems about `InputState` and `Selection` |
| `Upload` | an upload of pasted files: worker, cancelling client, ssh child, receiver |
| `Upload_proofs` | theorems about `Upload` |
| `Layout` | the panes of a session on its screen |
| `Layout_proofs` | theorems about `Layout` |
| `MCInputState`, `MCSelection`, `MCUpload`, `MCLayout` | the small sets TLC is given |

`PROJECT.json` maps every definition to the lines it stands for.

### SessionRegistry

Each table of `Daemon` is a variable: `sessions` and `clients` are functions on
the names and ids present, pending work is a set of names (or of exit records),
`metadata` is the set of names that have a file. A session keeps the fields the
handlers branch on: temporary, attached, ever attached, its panes, which of them
have exited, the focused one. Terminal contents, sizes and layout are left out;
where they decide something (a split that does not fit, the pane that gets the
focus) the action allows every outcome.

Every handler is one action, from the guard of its early returns to its last
call: `Attach` and `Takeover` are `accept_client`, `replace_client`,
`attach_session` and `install_client` in one, because nothing runs in between.
`Streams` is the common head of `handle_client_message` (the client must be
attached, its search is cancelled), `ThenSnapshot` the common tail
(`send_attached_snapshot`). Messages with the same effect on the tables share an
action (`View`, `Reply`). Short requests use up a client id and never hold a
session, as in the code, where they are installed and detached within one
handler. An enqueue that fails detaches the client; which enqueue may fail is
the parameter `Faults` ("send"), together with metadata I/O ("disk") and spawns
and window-size ioctls ("pty"). With a disk fault `CloseSession`, `Rename`,
`Create` and `PaneExited` stop where the code's `?` does.

A request or signal to shut down sets a flag that only the head of the loop
reads, so that `ShutdownSessions` is one action: the rest of the turn could have
come before it. What the loop waits for then is part of `SnapshotFlow`.

The lease is one flag per client, `stale`: the reader thread clears it,
`LeaseElapses` sets it; the handlers that compare clocks read it.

`SessionLock` is the abstract view: an owner per session name and a counter of
identifiers. The refinement maps the owner to the id of the client that holds
the name. It is what makes a late event harmless: an identifier that has lost
its session never owns one again.

### SnapshotFlow

One persistent session with one pane. Its screen is a version number that grows
with every chunk of output (and when a shell is restarted on an empty screen); a
snapshot carries the version it leads to and, unless it is a full render, the
version its changes start from, which is what `rendered_rows` holds. Actions are
the steps of the threads: the pty reader fills the pane channel, the event loop
handles one event or flushes, a writer takes a message, writes it, and only then
sends `SnapshotWritten`; the write and the notification are separate steps, so
that the client may be displaced, or the channel full, in between. A client at
the other end is `open` (reads), `stalled` (connected, does not read) or `cut`.
Connections follow each other by `Takeover`. Shutdown is the loop's state
`waiting`, in which it handles nothing more.

`ScreenDelivery` is the abstract view: each client moves forward through
versions the screen has had and hears of an exit at the version it is about.

### SearchTask

Lines are numbered in the order they are written; a query is the set of lines
that contain it. `offset` is the grid's scrollback offset, `View(offset)` the
lines it shows. `TaskOffset` is the arithmetic of `SearchTask::offset`, `Step`
one call of `process_search_step` with its budget, `Output` the scrolling of
`Grid::push_scrollback`, which moves a scrolled view along with its lines.
`viewed` and `quiet` are auxiliary: the top line the client was looking at and
whether anything was written since. `Reference` is the scan as
`TerminalState::search` spells it out for the tests.

### ClientLoop

The loop of `enter` in `src/client.rs`, one action per arm of its `match` and per
check at its top. `phase` stands for the flags `connected` and
`waiting_snapshot`; `detector`, `upload`, `queued` and `replay` are
`paste_detector`, `active_upload`, `pending_clipboard_input` and `replay_input`;
`failed` is `ClipboardActivity::Failed`. Input is a sequence of numbered tokens
whose kinds are those the loop tells apart: a key, Esc, Enter, a bracketed paste
in one piece or in halves, and the key sequence that detaches. `Feed` is
`PasteDetector::feed` on tokens (the only beginning of a marker that a read ends
with is Esc), `Dispatch` what the loop makes of its events, `ReleaseHeld` the
flush of what the detector has held for too long. A write fails after any part
of what was to be written.

A reader thread or a worker that has not come round yet cannot be told from one
whose message waits in a channel, so that they are not steps of their own: `net`
is what each connection delivers, `workers` the uploads under way. `burst` is
`consecutive_input_events`, because the priority of input over messages of the
daemon decides what happens to input typed during a reconnection. Time is left
out: an armed timeout may fire at any moment. Three variables are auxiliary:
`sent`, what was written in which order; `owed`, what the present connection has
accepted; `straddles`, whether an upload began while the detector held input
back, the case in which the order is known to be lost.

### InputState

The struct is one record, because `feed` works on all of it, byte after byte, and
is a function from a state and a read to a state and the actions it sends. Bytes
are taken in pieces: a key, Esc, `[`, or what completes a sequence that these two
begin; a read may end behind any of them. `Taken` is one turn of the loop in
`feed`, with the tests in the order in which it makes them, `Loop` as many turns as
there are pieces (each takes one at least), `Fed` the whole call.
The operators named `...Key` are the arms of `feed_byte` and `feed_scroll_byte`, `Mouse`
the branches for mouse events with `handle_mouse_selection` as `Press` and `Drag`,
`AutoscrollTick` and `EscapeTick` the two halves of `tick`, `Shown` what a Snapshot
changes, in the order of the setters in `handle_server_message`. Instants are
reduced to whether they are set; that their time is over is a choice. Messages the
state does not depend on are told apart by their kind.

### Selection

`InputState` on one side, on the other the offset of the pane's view and
`pending_scroll_delta`, in between requests and Snapshots on their way. Lines are
numbered as in `SearchTask`. Every handler that scrolls ends in `ThenSnapshot`
(`send_attached_snapshot`): the Snapshot is sent with the delta gathered so far, or
left due while another is in flight. Ticks and reads send what `InputState` says
they do, one action after the other, so that a Copy can be told to come behind a request
that was sent in the same read: every message carries the number of requests to move the
view before it (`before`), every Snapshot the number of those handled, and a Copy is
`early` when the two differ. Auxiliary, besides these numbers, are the line a selection was begun on (`mark`), and a count of
the times the view moved without a delta (`slides`): output under a view that is
not scrolled, lines dropped from the history, a search, a Snapshot lost with its
connection. `CopiedText` is `TerminalState::selection_text`: the rows are those of
the view at the moment the daemon takes them.

### Upload

Four parties: the worker thread of the client runs `SshUploader::upload`; the client
cancels through the `UploadControl` they share, in two steps, the flag and the kill;
the ssh child ends by itself, by a kill or with its connection; the receiver runs
`receive_upload`. Registering the child and looking at the flag again are two steps
too (`Install`, `Recheck`), and so are the tests of the flag and the writes that
follow them. Sizes are counted in buffers. The pipes and the network are one bounded
queue, `wire`; when the child ends, any part of what is on it is lost. Opening,
writing and removing files may fail where the code allows for it.

### Layout

The tree is `LayoutNode`, as two functions on the paths of its nodes: `leaf` gives the
pane of a leaf, `split` the direction and the ratio of a split, and a path is the way
from the root, 1 to `first` and 2 to `second`. So the recursive functions of
`src/layout.rs` need no recursive operators. `split_leaf` replaces a path by its two
continuations; `close_leaf` takes a step out of the paths of the part that stays
(`Moved`, and `Was` to look them up); `adjust_ratio_for` meets the innermost split that
contains the pane, the one at the path without its last step; the order of a walk is that
of the paths (`Before`). `collect_rects` is followed along one path: `Box` is the room it
hands down to a node, a recursive function on the length of the path, and `Shown` says
whether it comes there, as it leaves out the second part of what is too small to divide.
`Share` computes in u16, as the code does.

The actions are the handlers of the daemon with the methods of `Session` they call;
`ResizeAll` is `Session::resize`, which stops at the first window-size ioctl that fails
(`ResizeFails`) and has at least two rows (`Fits`). `Attach` may start the command of the
focused pane again, which resizes to the old screen before the new one. `size` is the
size each pty was given last. `unsized` is auxiliary: the visible panes may differ from
the ones last resized, because `toggle_zoom` and `focus` resize nothing, or a resize has
failed.

## Runs

TLC explores every behaviour within the bounds. Bounds are constants whose names
begin with `Max` and limit how often something happens; capacities and sizes are
the code's constants made small.

| Run | Question | Bounds |
|---|---|---|
| `registry_faults` | Do the tables agree with each other with full queues and failing ptys, and who loses a session to whom? `HoldersAreLive`, `OneHolder`, `PendingIsCurrent`, `ExitsOnRecord`, `NoSilentDisplacement` | 2 names, 2 tokens, 4 client ids, 2 pane ids |
| `registry_disk` | What holds when metadata I/O fails too? `TypeOK`, `SearchFollowsHolder`, `PanesHaveOneSession` | 2 names, 1 token, 3 client ids, 2 pane ids |
| `registry_lock` | Without faults, is ownership a fenced lock, do the files mirror the table, and do finished temporary sessions go? `ImplementsLock`, `NoReturn`, `MetadataMatches`, `FinishedTemporaryIsGone` | 2 names, 1 token, 4 client ids, 2 pane ids |
| `snapshot_client` | Is the in-flight flag exact, is nothing forgotten, does the exit come last, and does a client that reads see it all? `OneInFlight`, `ExitComesLast`, `NothingOwed`, `OutputIsSeen`, `ExitIsSeen` | 1 connection, 2 chunks, 1 message of 4 kinds, channels and queue of 2 |
| `snapshot_takeover` | Do changes meet their base over takeovers? `ChangesApply`, `ImplementsDelivery` | 2 connections, 1 chunk, 1 heartbeat, queue of 2, channels of 1 |
| `snapshot_stop` | Does a stop request end the daemon? (violated) | 1 connection |
| `client_input` | What becomes of the input, with uploads, lost connections and failing writes? `AtMostOnce`, `NothingLost`, `NothingStale`, `WrittenInOrder`, `ViewIsCurrent` | 3 tokens of 7 kinds, 2 to a read, 2 connections, local and SSH, a burst of 2 |
| `search_scan` | Is the search right? all properties of `SearchTask` | 2 rows, history of 3, 2 positions per turn, 6 lines, 2 searches, every query |
| `client_keys` | Does it matter where the bytes of the terminal are cut into reads? `ReadBoundariesDoNotMatter` | 15 keys and 4 mouse events that reach every mode (of commands and motions that do alike, one each), 2 sizes, a query of 1; every pair of pieces in every state |
| `client_select` | Does a selection stay on its text, and is what is copied what was highlighted? `SelectionOnItsLine`, `CopiedIsHighlighted` | history of 2, 3 lines, 2 requests to move the view, 2 messages and 1 Snapshot on their way, 1 lost connection |
| `upload` | Do the two ends agree, whoever fails; does a cancel always kill the child; does the worker end? `EndsAgree`, `CancelledChildIsKilled`, `UploadEnds` | 7 batches of at most 4 items, a wire of 3 |
| `layout` | Is the screen tiled, do ptys fit their panes, where does the focus go, whom does a split disturb? `ScreenIsTiled`, `LayoutFitsPanes`, `FocusMoves`, `SplitDividesFocused` | 3 panes, screens of 15x1312 and 1x3, 1 ratio adjusted, 1 failed ioctl |

Why the bounds suffice to meet the cases: two names let a rename move work and a
freed name be taken again; two tokens distinguish a client that comes back from
another; every session costs a client id to create, so that four ids are two
sessions with a client each, or one with a displaced client, its successor and a
newcomer; two panes are two sessions or one that is split. A queue of two is the
least that holds the two messages of a handshake, and a third message fills it; a
control channel of one or two fills while both threads of a connection want to
send. A history of three above two rows has views that overlap the screen, views
that do not, and lines that are dropped; with two positions per turn a scan takes
several turns and ends in the middle of one. Three tokens are a paste, input
queued behind it and the key that answers its failure, or the two halves of a
paste with input after them; two connections are all that a late message, a late
upload or held input needs to be late; `MAX_CONSECUTIVE_INPUT_EVENTS` is 8 in the
code and 2 in the model, so that three reads in a row exceed it. For
`ReadBoundariesDoNotMatter` the states are enumerated with single pieces and every
pair of pieces is tried in each of them, in one read and in two; longer reads are
pairs by composition. In `client_select` gestures are whole (press and drag to an edge,
release, a copy, a jump to the top with a copy right behind it), because the cutting of reads is the other run's question; two
requests are what it takes for one to be clamped or gathered with another. The
batches of `upload` have empty items, items of several buffers, one whose file has
become shorter, none, too many and too much, and the wire holds less than most of
them, so that the worker blocks. 15x1312 is wide enough for the product of a share to
exceed 65535 and low enough for horizontal splits to run out of rows; on 1x3 every
split is hidden; three panes nest splits in either order.

Deadlock is not checked: within the bounds all models come to rest (ids and
output are used up, the daemon is down).

### Fairness

- `SnapshotFlow!FairSpec`: the loop handles the next control event, the next pane
  event, a settled resize and the flush; each writer and each reader thread
  runs. A writer that is writing to a stalled client is not enabled. The shell,
  and what clients send, are not fair.
- `SearchTask!FairSpec`: `Step` only, called in every turn.
- `Upload!FairSpec`: the worker thread runs, and so does the client, which cancels: an
  upload without progress runs into its deadline, which every step of progress
  moves on (`enter` calls `mark_progress`), and items are finite. Neither the
  receiver nor ssh is fair; a write to a full pipe is not enabled.

Properties are also shown to be falsifiable: next to an operator stands a
variant marked "Mutant", the operator with a plausible bug, and under it TLC
finds the property violated. Each checked property of a passing run has one in
`PROJECT.json`. No specification uses them.

## Proofs

TLAPS proves, for all values of the constants that satisfy the modules'
assumptions:

| Theorem | Statement |
|---|---|
| `TypeCorrect` | `SessionRegistry`: `Spec => []TypeOK` |
| `SearchesFollow` | `Spec => []SearchFollowsHolder`, with every kind of fault |
| `AttachmentInvariant` | `Spec => []AttachmentInv` |
| `HoldersLive`, `AtMostOneHolder` | `Spec => []HoldersAreLive`, `Spec => []OneHolder` |
| `PendingInvariant` | the inductive invariant of the pending queues, for a disk that works |
| `NothingWaitsInVain`, `PendingExitsOnRecord` | `Spec => []PendingIsCurrent`, `Spec => []ExitsOnRecord` |
| `PaneIdsApart` | `Spec => []PanesHaveOneSession`, with every kind of fault |
| `FilesMatch` | `Spec => []MetadataMatches`, unless ptys may fail |
| `TemporaryGone` | `Spec => []FinishedTemporaryIsGone`, without faults |
| `DisplacementAnnounced` | `Spec => NoSilentDisplacement`, for a disk that works |
| `LockImplemented`, `OwnersFenced` | `Spec => ImplementsLock`, the step simulation of `SessionLock`, and `Spec => NoReturn`, for a disk that works |
| `SearchInvariant` | `SearchTask`: the inductive invariant `SearchInv` |
| `SearchTypeCorrect` | `Spec => []TypeOK` |
| `FollowsReference` | the scan order is that of the reference search |
| `FoundShown`, `NothingIsMissed`, `ViewKept` | the action properties of `SearchTask` without fairness |
| `CancelKillsChild` | `Upload`: `Spec => []CancelledChildIsKilled` |
| `BothEndsAgree` | `Spec => []EndsAgree` |
| `FlowInvariant` | `SnapshotFlow`: the inductive invariant `FlowInv` |
| `OneSnapshotInFlight`, `ChangesMeetTheirBase`, `ExitFollowsOutput`, `NoOutputForgotten` | `Spec => []OneInFlight`, `[]ChangesApply`, `[]ExitComesLast`, `[]NothingOwed` |
| `DeliveryImplemented` | `Spec => ImplementsDelivery`, the step simulation of `ScreenDelivery` |
| `InputInvariant` | `ClientLoop`: the inductive invariant `IInv` |
| `TypedAtMostOnce`, `NoInputLost`, `NoStaleInput`, `WrittenAsTyped` | `Spec => []AtMostOnce`, `[]NothingLost`, `[]NothingStale`, `[]WrittenInOrder` |
| `PresentScreen` | `Spec => []ViewIsCurrent` |
| `InputTyped` | `InputState`: `Spec => []InputInv`, its types and what is held back |
| `CutReads` | `Spec => []ReadBoundariesDoNotMatter` |
| `CutAnyRead` | the same for reads of any length, cut anywhere, in every state |
| `SelectionInductive` | `Selection`: the inductive invariant `SelInv` |
| `SelectionKeepsItsLine` | `SelectionSpec => []SelectionOnItsLine` |
| `CopyIsHighlighted` | `SelectionSpec => []CopiedIsHighlighted` |
| `LayoutInductive` | `Layout`: the inductive invariant `LayoutInv` |
| `TilesScreen`, `CellsAreShared` | `Spec => []ScreenIsTiled`, and cell by cell: each belongs to one tile and no other |
| `FitsPanes` | `Spec => []LayoutFitsPanes` |
| `FocusFinds` | `Spec => []FocusMoves` |
| `SplitsDivide` | `Spec => SplitDividesFocused` |

The assumptions are those of the modules: bounds are naturals, `Faults` is a set
of known faults (`BoundsAssumption`, `FaultsAssumption`); a pane has rows, a
turn looks at some position (`SearchAssumption`); batches are sequences of sizes
and the wire holds something (`UploadAssumption`); an output
queue holds the two messages of a handshake and a channel something
(`FlowAssumption`); terminals have rows and columns and a read delivers pieces
(`InputAssumption`, `SelectionAssumption`); terminals have rows and columns that fit a
u16 (`LayoutAssumption`). TLC evaluates them in every
run.

**Attachment.** `HoldersAreLive` and `OneHolder` are not inductive alone. A step
that removes finished temporary sessions spares those marked attached, so that
it preserves "a holder's session exists" only because a holder's session is
marked; a step that releases a session keeps "marked sessions have a holder" only
because nobody else holds it; and an attach keeps "no two holders" only because
the id it uses is not in the table, which is `IdsIssued` (ids in the table are
below the counter). Search tasks enter because losing a client must drop its
task. The conjunction `AttachmentInv` is inductive. Its core is stated as
`Consistent(clients, sessions)`, a formula about two functions, and the proof has
one lemma per kind of change of the tables (released, removed, snapshot sent,
detached, cleaned up, replaced), each used by the actions that make it.

**Pending work.** What waits in a queue is found again by a session's name. `Backed`
says that resizes and exits concern sessions marked attached, that a pending exit is on
record with its session, and that snapshots are due to sessions that exist. It is
inductive only together with `Consistent`: a handler forgets what is pending for the
sessions of the clients it detaches, so that every attached session it releases must be
one of those; `replace_client` forgets only when it displaces somebody, because a
session that nobody holds has only snapshots pending; and a shell is restarted, which
strikes an exit off the record, only after that. A rename moves all three queues to a
name that has no session and so nothing pending. `PaneIdsApart` needs no more than that
the counter of pane ids only grows, `FilesMatch` none of this. `TemporaryGone` is
proved for no faults at all, because with a full queue it is false (see below).

**Ownership.** In each step clients leave, or one newcomer arrives under an id that is
not in the table, or one client moves to a name that has no session (`ClientsStep`).
The first releases locks, the second acquires one, the third moves one: the steps of
`SessionLock`. The newcomer displaces at most the one holder of its session, after
`accept_client` has looked at its token and its lease, which is `DisplacementAnnounced`;
`OwnersFenced` follows from the kinds of steps. Both need `AttachmentInv`: with two
holders of one session the owner would be any of them, and may change when nobody
acquires.

**Search.** `ScanOrder` proves that the counter arithmetic spells out the chained
ranges of the reference, by cases on the direction and the range;
`ScanCovers` that for every position there is an index that visits it. The
inductive invariant adds that, while nothing is written, every index below the
counter has been seen not to match, and that `original` and `maximum` are within
the history as it is; `NothingMissed` follows from it with `ScanCovers` when the
counter has reached the end.

**Upload.** Neither thread can keep `CancelledChildIsKilled` alone: the canceller may
find the slot empty, and the worker may read the flag too early. What makes it
inductive is the order of the two pairs of steps: whoever cancels has raised the flag
before it looks into the slot (`FlagFirst`), and the worker has filled the slot before
it reads the flag again (`SlotFilled`). So the one who comes second kills the child.

`EndsAgree` needs to know what is between the two ends. As long as the receiver reads,
the wire is the stream of the batch (the number of items, then per item a header and its buffers)
cut off between the receiver's place and the worker's, and between the receiver's place
and an earlier one once ssh is dead (`Between`); so that whatever part of the wire is
lost, what the receiver takes next is the part that comes next. `ReceiverPlace` says that
the items before its place are kept whole, `Outcome` what the end of ssh means: it
succeeds only after the receiver has answered, and the worker reports success only after
that.

**Snapshots.** `FlowInv` describes, per connection, what the writer still has to write
and what the client shows: `InOrder` (at most one Snapshot, its changes start from the
screen shown, and an exit is about the screen shown by then), the place of the single
token that says a Snapshot is in flight (on the way, being noted by the writer, or in the
control channel), and nothing at all for connections that have not been accepted. For the
connection that holds the session `InStep` adds that, having read it all, the client shows
what the render cache says, and that the flag is the token. The properties are not
inductive without it: `ChangesApply` is kept by `Send` only because the last message
leads to the cache, and that one Snapshot at a time suffices for it is `OneInFlight`, which
a displacement keeps only because acknowledgements carry their connection. In the
refinement only `Write` moves what a client shows or has heard, output and a restart
draw, and all other steps stutter.

**Input.** What was typed is in one of six places: written, held by the detector, the
original of an upload, queued, about to be replayed, or in reads not taken yet. `InOrder`
says that this is also the order of the tokens, place by place and within each (or, once
an upload has straddled a paste, that no token is in two places: the parameter `l` of
`Own` and `Before` chooses between `<` and `#`, so that one proof serves both). Each
action then moves the first tokens of one place to the end of what is written, or drops
or joins places. This is so only in the right mode: the paste of an upload may overtake
the detector only because nothing is held there while one is under way (`Modes`), what a
worker brings back is the original only while its id is that of the upload (`Workers`),
and a replay is not interrupted because no upload is active during it. `Accounted`
relates the places to what the present connection has accepted; a cancellation removes
exactly the paste from both because no token is in two places. The detector needs a
lemma by induction on what it is fed, `FeedKeeps`: what it gives out followed by what it
holds is what it held followed by what came in. The induction theorems of the library
take an operator, so that the lemma rests on `SetInduction`, induction in the form of a
set of numbers, and on the functions that `Feed` and `FlattenSeq` build being
definable, which is proved first.

**Reads.** Two facts about one turn of the loop carry `CutAnyRead`. A turn neither reads
nor changes the actions sent before it, it only adds to them (`Onto`). And what a turn
makes of the head of the input does not depend on what follows, unless the sequence is
not complete, when what follows is awaited, or is one that Scroll mode knows only at the
end of a read (`EndsInScroll`, the exception of the property, here in its general
form). So the loop over `a` and `c` together is the loop over `a`, resumed on what it
held back and `c` (`Resumed`), by induction on the number of pieces, again with
`SetInduction`. `CutReads` is the case of two pieces. It needs that what is held
back is the beginning of an escape sequence of at most two pieces, which is `InputTyped`:
with more held back, `ScrollKeyWithMore` would not name the exception.

**Selections.** The row that the client keeps and the offset that the daemon keeps meet
only through the Snapshots between them. `Linked` says that from the one drawn over
those on their way to the one the daemon would take now, each view and its successor
differ by the delta the successor carries, as long as no slide is counted between them.
`SelectionOnItsLine` is kept by `Draw` because the next link is the one it draws, and
every handler of the daemon keeps `Linked` because it changes the last link only: a
Snapshot left due while another is in flight gathers deltas, one that is sent begins a
new link with a delta of 0. A lost connection drops all links but keeps the one from the
screen drawn to the view as it is then only if no Snapshot lost carried a delta; this is
what `slides` counts there. For `CopiedIsHighlighted`, `Queued` says that messages are handled
in the order of their numbers and that a Copy that was not early has no request before it;
`Seen`, that a Snapshot taken after all that was handled, without a slide since, shows
the view as it is. So the lines a Copy was sent with are those of the view, and remain
so, because nothing that moves the view can be handled before it.

**Layout.** `LayoutInv` says that the tree is one (`Tree`: its nodes are the root and both
parts of every split, none is a leaf and a split, and there is a longest path), that its
leaves are the panes, each once (`Leaves`), that a screen which was ever split has two
rows, and that what is shown has its size. Nothing else is needed of a tree, neither how
it came about nor its ratios beyond 0 to 100, because the geometry follows from the tree
alone. `Box` is unfolded one step at a time (`BoxesExist` says that the recursive function is
defined at all); of two paths, one goes on from the other or they part at a split
(`TwoPaths`), and there the two parts and the border are apart and inside what they
divide (`PartsAre`), whatever `Share` makes of an overflow, since it is clamped
between 1 and the length less 2. That is two thirds of `ScreenIsTiled`. For the
third, `Descent` walks down from the root, at every split into the part that holds
a given cell, until it is at a border or a leaf, which happens as paths are bounded; with
it `CellsAreShared` is the statement that the corner cells of `ScreenIsTiled` stand for.
`FocusMoves` needs a pane on the other side of every edge that is not the screen's:
follow the path of the pane up to the innermost split that divides at this edge, and
down on its other side, keeping to the edge (`SomeThere`); the nearest exists because
panes are finitely many, and only one is first, as paths are ordered. `SplitDividesFocused`
holds because a split changes the boxes along one path only (`SplitKeeps`), and because
of the arithmetic of halves: 21 columns or 7 rows make two of 10 or 3 (`HalvesAre`), as
long as the product does not overflow.

What the prover found about the model: the last property excepted the overflow for
columns only, although 1312 rows overflow as well when they are split horizontally; it
now excepts both (`HalfOverflows`). And that the keys reach every visible pane, which held
on every small instance, could not be proved because it is false of larger ones (see
the known limits); `FocusMoves` says what does hold.

Only model-checked: the liveness properties `OutputIsSeen`, `ExitIsSeen`, `SearchEnds`
and `UploadEnds`, which the prover does not reach. All other properties of the runs
that pass are proved.

## Where code and documents disagree

One run checks what a document of the repository says and ends with a
counterexample (`PROJECT.json`, findings):

- `snapshot_stop`: a stop request waits without limit for the writers of attached
  clients, so that a client that stays connected and does not read prevents it.

## Known limits of the code

What the models show the code to do where a reader may expect something else. The
properties are stated so that they except these cases, each by name.

- A temporary session that has finished stays when its client was lost to a full
  queue: `send_to` detaches it without the clean-up (`daemon.rs:1322`, against
  `README.md:40`). `FinishedTemporaryIsGone` is checked without full queues.
- A cancelled search restores an offset, not the lines it showed: output in between
  moves them (`daemon.rs:378`, against `plans/006-harden-client-lifecycle.md:262`).
  `ViewIsKept` asks for a quiet history.
- Input typed while reconnecting is dropped one read at a time, and every ninth turn
  goes to a message of the daemon; if that is the Snapshot that ends the
  reconnection, the rest is sent (`client.rs:1252`, against `README.md:53`).
- An Esc at the end of a read stays in the paste detector while what came before it
  in the same read is queued behind an upload; it is sent out of its order
  (`client.rs:478`, against `README.md:61`). `WrittenInOrder` excepts `straddles`.
- A scroll key that arrives in one read with more behind it goes to the application
  in scroll mode (`parse_scroll_escape` compares all that is left, `client.rs:1868`).
  `ReadBoundariesDoNotMatter` excepts `ScrollKeyWithMore`.
- Esc in search and rename mode is held back like any other and then forwarded by
  `tick`: the arms for byte 27 in `feed_byte` (`client.rs:2048`, `2067`) are never
  reached.
- A copy asked for while a request to scroll is unanswered takes lines that have
  moved by it, as when the button is released at an edge during an autoscroll
  (`daemon.rs:897`). `CopiedIsHighlighted` excepts `early`.
- A split of a zoomed pane is measured against the whole screen, so that the halves
  may be smaller than 10x3 (`session.rs:275`). `SplitDividesFocused` excepts it.
- `toggle_zoom` and `focus` do not resize ptys; a pane that is zoomed keeps its size
  until the next resize (`session.rs:334`, `344`). `LayoutFitsPanes` excepts it.
- The focus may be unable to reach a pane by keys, because the nearest is found by the
  centres, along the direction first (`layout.rs:251`). Take a screen of 50x200, split
  pane 1 horizontally into 1 and 2, 2 horizontally into 2 and 3, 3 vertically into 3
  and 4, 3 again into 3 and 5, and 1 vertically into 1 and 6: pane 1 is no other pane's
  nearest in any direction. No case with four panes or fewer was found.
- When a part of the screen is too small to be divided, its first pane is shown,
  not the focused one (`layout.rs:179`, against
  `plans/005-render-pane-bounds-safely.md:168`); a focused pane that is hidden keeps
  the input and cannot give up the focus.
- The product of a share overflows a u16 on screens of more than 1311 columns or rows
  with a ratio of 50, and a first part is narrower than its ratio
  (`layout.rs:185`); a debug build panics. The screen is still tiled.
- When a metadata file cannot be written or removed, ClosePane, Kill and Rename
  return after they have changed the tables (`daemon.rs:947`), and an exit ends the
  daemon (`daemon.rs:1133`); so does a window-size ioctl that fails in
  `flush_snapshots` (`daemon.rs:397`). The attachment properties are stated for a
  disk that works.

## Not modelled

- On an attached stream: Takeover, Create, List, Kill, Shutdown and Ping. The
  handlers accept them, `src/client.rs` never sends them there.
- Clocks. The lease, the resize debounce and the snapshot interval are steps that
  may happen at any time; a client that resizes without pause is therefore not
  seen to starve itself of snapshots.
- Contents: what a render contains row by row, how the client draws it and the
  highlighted selection, the text of messages, frames and their size limit.
- Answers to short requests and the wait for their writer (`wait_idle` in
  `handle_short_request`).
- In `SnapshotFlow`: temporary sessions, several panes, rename. In `SearchTask`:
  the alternate screen, a change of width during a search, several panes.
- In `ClientLoop`: rename, upload progress (a deadline moved on is a timeout that
  comes later), what `InputState` makes of the input, drawing, a change of the
  terminal's size other than that its message may fail to be written. The text a
  worker returns is the paste itself; a list of remote paths stands for it. An
  Error from the daemon ends the client like the end of the session. While
  `attach_stream` waits for an answer the client does nothing, which is one step
  here. The client's own liveness is not stated.
- In `InputState`: bytes of a sequence one by one, the X10 encoding of the mouse apart
  from the SGR one, Shift with a mouse event, the text of queries and names, and how
  long 50 ms are; ticks of the loop come only when nothing else happens for 10 ms
  (`client.rs:688`), which is not a constraint here.
- In `Selection`: several panes, the alternate screen, changes of size, searches that
  take several turns, keys that move the end of a selection (they are in `client_keys`).
- In `Upload`: the SSH bridge of a session (`Connection`) and its processes, names of
  files, progress messages, the removal of uploads older than a day. A receiver that is
  killed leaves what it has until then.
- In `Layout`: exits of panes, and what is drawn. The last pane is closed with its
  session, which is `SessionRegistry`.
- Poisoned locks and failing thread spawns, which end in a panic or a refused
  connection.
- The components listed under [Plan](#plan) that have no module yet, and those
  that are pure I/O or vendored.

## Plan

In this order:

1. `SessionRegistry`, `SessionLock`, their runs, types and attachment proved. Done.
2. `SnapshotFlow`, `ScreenDelivery` and their runs. Done.
3. `SearchTask`, its run and its proofs. Done.
4. `DaemonStartup`: several daemons and a client that starts one, on one socket
   path: bind, five probes, remove, bind again, private mode, remove at the end.
   Property: a daemon that serves owns the path; abstract: a lock on the path.
5. `PaneIO`: input queue with its byte count, writer, reader and waiter threads.
   Properties: the count is that of the queue, the exit comes once and after all
   output, input is written in order. To be proved: the byte count and its bound.
6. `ClientLoop` and its run. Done. `ClientRename`: the name under which a client
   reattaches, composed with the daemon's answer to Rename; and the client's
   liveness (it is attached again or ends; an upload ends) on an instance with less
   input.
7. `InputState`, `Selection`, `Upload`, `Layout` and their runs. Done.
8. The debounce of resizes: a client that keeps resizing gets no snapshots
   (`daemon.rs:389`). The view of a pane during a search, which snapshots show
   (`daemon.rs:331`). The exit of a pane whose descendants keep the pty open
   (`pane.rs:316`, with `PaneIO`). A daemon that accepts and does not answer holds a
   client in `attach_stream` (`client.rs:304`).
9. Proofs: every invariant and every safety property that a passing run checks is
   proved. Next with the modules of the plan: the byte count of `PaneIO`, the lock on
   the path of `DaemonStartup`.
