--------------------------- MODULE SessionRegistry ---------------------------
(***************************************************************************)
(* The state-owner thread of the plux daemon (src/daemon.rs): the tables   *)
(* of sessions and clients, the three pending queues a client is served    *)
(* from, and one action per message, event or periodic task the event loop *)
(* handles.  A handler runs to completion before the next one starts, so   *)
(* each is one atomic step; the loop's budgets, its 20 ms poll and the     *)
(* snapshot interval let the handlers run in any order.                    *)
(*                                                                         *)
(* What a handler sends is left to module SnapshotFlow.  Here a message is *)
(* its effect on the tables, and an enqueue that fails (writer closed or   *)
(* its queue full) is its effect: the client is detached.                  *)
(***************************************************************************)
EXTENDS Naturals, Functions

CONSTANTS
  Name,        \* session names
  Token,       \* client tokens, one per plux client process
  MaxClients,  \* bound: client ids handed out
  MaxPanes,    \* bound: pane ids handed out
  Faults       \* what may fail: "send" an enqueue, "disk" the metadata
               \* directory, "pty" a spawn or a window-size ioctl

ASSUME BoundsAssumption == MaxClients \in Nat /\ MaxPanes \in Nat
ASSUME FaultsAssumption == Faults \subseteq {"send", "disk", "pty"}

VARIABLES
  status,        \* "up" or "down"
  sessions,      \* the sessions that exist, by name
  clients,       \* the installed clients, by id
  nextClientId,
  nextPaneId,
  resizes,       \* pending_resizes: names of sessions to resize
  snapshots,     \* pending_snapshots: names of sessions to draw
  exits,         \* pending_exits: exits still to be reported
  searches,      \* search_tasks: the session each searching client scans
  metadata       \* names with a file in the metadata directory

tables == <<sessions, clients, resizes, snapshots, exits, searches, metadata>>
vars == <<status, tables, nextClientId, nextPaneId>>

ClientId == 1 .. MaxClients
PaneId == 1 .. MaxPanes

Session == [temporary : BOOLEAN, attached : BOOLEAN, everAttached : BOOLEAN,
            panes : SUBSET PaneId, exited : SUBSET PaneId, focused : PaneId]
Client == [token : Token, session : Name, inFlight : BOOLEAN, stale : BOOLEAN]
PendingExit == [session : Name, pane : PaneId, finished : BOOLEAN]

-----------------------------------------------------------------------------
(* Helpers of the daemon, as functions of its tables. *)

Without(f, S) == Restrict(f, DOMAIN f \ S)
Insert(f, k, v) == [x \in DOMAIN f \cup {k} |-> IF x = k THEN v ELSE f[x]]

\* Session::is_finished
IsFinished(s) == s.everAttached /\ s.panes # {} /\ s.panes \subseteq s.exited

\* The clients client_id_for_session may return.
Holders(n) == {c \in DOMAIN clients : clients[c].session = n}
HolderBusy(n) == \E c \in Holders(n) : clients[c].inFlight
SessionsOf(C) == {clients[c].session : c \in C}

Released(ss, N) ==
  [n \in DOMAIN ss |-> IF n \in N THEN [ss[n] EXCEPT !.attached = FALSE]
                                  ELSE ss[n]]

\* Mutant: the exits are overlooked.
ForgetPendingButExits(N) ==
  resizes' = resizes \ N /\ snapshots' = snapshots \ N /\ exits' = exits

\* clear_pending_session
ForgetPending(N) ==
  /\ resizes' = resizes \ N
  /\ snapshots' = snapshots \ N
  /\ exits' = {e \in exits : e.session \notin N}

\* Mutant: sessions somebody watches are not spared.
FinishedTemporaryWatched(ss) ==
  {n \in DOMAIN ss : ss[n].temporary /\ IsFinished(ss[n])}

FinishedTemporary(ss) ==
  {n \in DOMAIN ss : ss[n].temporary /\ ~ss[n].attached /\ IsFinished(ss[n])}

\* Mutant: the file stays.
RemoveMetadataNever(files, N) == metadata' = files

\* Removing metadata files: a "disk" fault may leave any of them behind.
RemoveMetadata(files, N) ==
  \E kept \in SUBSET (IF "disk" \in Faults THEN files \cap N ELSE {}) :
    metadata' = (files \ N) \cup kept

\* detach_client, for every client of C
DetachClients(C) ==
  /\ clients' = Without(clients, C)
  /\ searches' = Without(searches, C)
  /\ sessions' = Released(sessions, SessionsOf(C))
  /\ ForgetPending(SessionsOf(C))
  /\ UNCHANGED metadata

\* Mutant: detach_client alone.
DetachOnly(C) == DetachClients(C)

\* detach_client followed by cleanup_finished_temporary
DetachAndCleanUp(C) ==
  LET released == Released(sessions, SessionsOf(C))
      gone == FinishedTemporary(released)
  IN /\ clients' = Without(clients, C)
     /\ searches' = Without(searches, C)
     /\ sessions' = Without(released, gone)
     /\ ForgetPending(SessionsOf(C) \cup gone)
     /\ RemoveMetadata(metadata, gone)

\* The process ends: every table goes with it, the files of `left` stay.
Halt(left) ==
  /\ status' = "down"
  /\ sessions' = <<>> /\ clients' = <<>> /\ searches' = <<>>
  /\ resizes' = {} /\ snapshots' = {} /\ exits' = {}
  /\ metadata' = left
  /\ UNCHANGED <<nextClientId, nextPaneId>>

Running == status = "up"

-----------------------------------------------------------------------------
Init ==
  /\ status = "up"
  /\ sessions = <<>> /\ clients = <<>> /\ searches = <<>>
  /\ nextClientId = 1 /\ nextPaneId = 1
  /\ resizes = {} /\ snapshots = {} /\ exits = {}
  /\ metadata = {}

-----------------------------------------------------------------------------
(* Short requests: a connection that carries one request, gets a client id *)
(* of its own for the length of the handler and never holds a session.     *)

ShortRequest ==
  /\ Running /\ nextClientId <= MaxClients
  /\ nextClientId' = nextClientId + 1

\* List, and every request the daemon refuses
Answer == ShortRequest /\ UNCHANGED <<status, tables, nextPaneId>>

\* Mutant: the focus is left at its default.
CreateUnfocused(n, temporary) ==
  /\ ShortRequest
  /\ n \notin DOMAIN sessions
  /\ nextPaneId <= MaxPanes
  /\ nextPaneId' = nextPaneId + 1
  /\ sessions' = Insert(sessions, n,
       [temporary |-> temporary, attached |-> FALSE, everAttached |-> FALSE,
        panes |-> {nextPaneId}, exited |-> {}, focused |-> 0])
  /\ metadata' = metadata \cup {n}
  /\ UNCHANGED <<status, clients, resizes, snapshots, exits, searches>>

\* Create: the pane id is used up even when the spawn fails, and the session
\* stays when its metadata cannot be written.
Create(n, temporary) ==
  /\ ShortRequest
  /\ n \notin DOMAIN sessions
  /\ nextPaneId <= MaxPanes
  /\ nextPaneId' = nextPaneId + 1
  /\ \/ /\ sessions' = Insert(sessions, n,
             [temporary |-> temporary, attached |-> FALSE,
              everAttached |-> FALSE, panes |-> {nextPaneId},
              exited |-> {}, focused |-> nextPaneId])
        /\ \/ metadata' = metadata \cup {n}
           \/ "disk" \in Faults /\ UNCHANGED metadata
     \/ "pty" \in Faults /\ UNCHANGED <<sessions, metadata>>
  /\ UNCHANGED <<status, clients, resizes, snapshots, exits, searches>>

\* Kill, refused while another client holds the session
Kill(n) ==
  /\ ShortRequest
  /\ n \in DOMAIN sessions
  /\ Holders(n) = {}
  /\ sessions' = Without(sessions, {n})
  /\ ForgetPending({n})
  /\ RemoveMetadata(metadata, {n})
  /\ UNCHANGED <<status, clients, searches, nextPaneId>>

\* A Shutdown request, SIGHUP, SIGINT or SIGTERM has set the flag, and the loop
\* meets it at its head: shutdown_sessions.  Nothing else reads the flag, so
\* that what is handled between the two might as well have been handled before.
ShutdownSessions ==
  /\ Running
  /\ \E kept \in SUBSET (IF "disk" \in Faults THEN DOMAIN sessions ELSE {}) :
       Halt((metadata \ DOMAIN sessions) \cup (metadata \cap kept))

-----------------------------------------------------------------------------
(* Interactive connections: accept_client, replace_client, attach_session. *)

\* Mutant: nobody is looked for.
ExistingNone(n) == {{}}

\* The client that the newcomer replaces: none, or one that holds n.
Existing(n) == IF Holders(n) = {} THEN {{}} ELSE {{c} : c \in Holders(n)}

\* restart_focused_if_exited, for a session that is not temporary
Restarts(s) == ~s.temporary /\ s.focused \in s.exited
Restarted(s) ==
  IF Restarts(s) THEN [s EXCEPT !.exited = @ \ {s.focused}] ELSE s

\* Mutant: an id that is free in the table is given out again.
InstalledReusingId(old, n, token) ==
  Insert(Without(clients, old),
         CHOOSE c \in ClientId : c \notin DOMAIN clients /\ c <= nextClientId,
         [token |-> token, session |-> n, inFlight |-> TRUE, stale |-> FALSE])

\* install_client, once attach_session has put the session into the entry
\* and the first Snapshot is queued
Installed(old, n, token) ==
  Insert(Without(clients, old), nextClientId,
         [token |-> token, session |-> n, inFlight |-> TRUE, stale |-> FALSE])

\* replace_client and the handshake message it handles.  The old client is
\* detached first; whatever fails afterwards, the newcomer is detached too.
ReplaceClient(old, n, token) ==
  LET s == sessions[n]
      marked == [Restarted(s) EXCEPT !.attached = TRUE, !.everAttached = TRUE]
      forgotten == IF old = {} THEN {} ELSE {n}
  IN
  /\ Running /\ nextClientId <= MaxClients
  /\ nextClientId' = nextClientId + 1
  /\ searches' = Without(searches, old)
  /\ \/ \* attached: Attached and a full Snapshot are queued
        /\ clients' = Installed(old, n, token)
        /\ sessions' = [sessions EXCEPT ![n] = marked]
        /\ resizes' = resizes \ forgotten
        /\ snapshots' = snapshots \ {n}
        /\ exits' = {e \in exits : e.session \notin forgotten}
        /\ metadata' = metadata \cup {n}
     \/ \* a message cannot be queued, or the metadata cannot be written
        /\ clients' = Without(clients, old)
        /\ sessions' = [sessions EXCEPT ![n] = [marked EXCEPT !.attached = FALSE]]
        /\ ForgetPending({n})
        /\ \/ "send" \in Faults /\ metadata' = metadata \cup {n}
           \/ "disk" \in Faults /\ UNCHANGED metadata
     \/ \* the shell cannot be restarted (the session is as it was), or the
        \* resize fails before the session is marked attached
        /\ "pty" \in Faults
        /\ clients' = Without(clients, old)
        /\ \E t \in {Restarted(s)} \cup (IF Restarts(s) THEN {s} ELSE {}) :
             sessions' = [sessions EXCEPT ![n] = [t EXCEPT !.attached = FALSE]]
        /\ ForgetPending(forgotten)
        /\ UNCHANGED metadata
  /\ UNCHANGED <<status, nextPaneId>>

\* Attach is admitted when the session is free, to the token that holds it,
\* and when the holder's lease has run out.
Attach(n, token) ==
  /\ n \in DOMAIN sessions
  /\ \E old \in Existing(n) :
       /\ \A c \in old : clients[c].token = token \/ clients[c].stale
       /\ ReplaceClient(old, n, token)

Takeover(n, token) ==
  /\ n \in DOMAIN sessions
  /\ \E old \in Existing(n) : ReplaceClient(old, n, token)

\* The client's reader thread sees a message and renews the lease ...
MessageArrives(c) ==
  /\ Running
  /\ clients[c].stale
  /\ clients' = [clients EXCEPT ![c].stale = FALSE]
  /\ UNCHANGED <<status, sessions, resizes, snapshots, exits, searches,
                 metadata, nextClientId, nextPaneId>>

\* ... or has seen none for CLIENT_LEASE_TIMEOUT.
LeaseElapses(c) ==
  /\ Running
  /\ ~clients[c].stale
  /\ clients' = [clients EXCEPT ![c].stale = TRUE]
  /\ UNCHANGED <<status, sessions, resizes, snapshots, exits, searches,
                 metadata, nextClientId, nextPaneId>>

-----------------------------------------------------------------------------
(* Messages on an attached client's stream (handle_client_message).  All   *)
(* but Search and Heartbeat first cancel the client's search.              *)

\* send_attached_snapshot as the last call of a handler that leaves the
\* tables ss, rz, sn and ex, in which client c holds session n.
ThenSnapshot(c, n, ss, rz, sn, ex) ==
  \/ /\ clients[c].inFlight
     /\ clients' = [clients EXCEPT ![c].session = n]
     /\ sessions' = ss /\ resizes' = rz /\ exits' = ex
     /\ snapshots' = sn \cup {n}
  \/ /\ ~clients[c].inFlight
     /\ clients' = [clients EXCEPT ![c].session = n, ![c].inFlight = TRUE]
     /\ sessions' = ss /\ resizes' = rz /\ exits' = ex
     /\ snapshots' = sn \ {n}
  \/ /\ "send" \in Faults /\ ~clients[c].inFlight
     /\ clients' = Without(clients, {c})
     /\ sessions' = Released(ss, {n})
     /\ resizes' = rz \ {n} /\ snapshots' = sn \ {n}
     /\ exits' = {e \in ex : e.session # n}

\* A handler that fails after it has changed the session: the client is told.
ThenError(ss) ==
  /\ sessions' = ss
  /\ UNCHANGED <<clients, resizes, snapshots, exits, metadata>>

\* Mutant: the search goes on.
StreamsSearching(c, n) ==
  /\ Running
  /\ n = clients[c].session
  /\ n \in DOMAIN sessions
  /\ UNCHANGED <<searches, status, nextClientId>>

\* A message handled on c's stream, and the session it concerns.
Streams(c, n) ==
  /\ Running
  /\ n = clients[c].session
  /\ n \in DOMAIN sessions
  /\ searches' = Without(searches, {c})
  /\ UNCHANGED <<status, nextClientId>>

\* Input, Copy, and every message that is answered with an Error
Reply(c) ==
  /\ Streams(c, clients[c].session)
  /\ UNCHANGED <<sessions, clients, resizes, snapshots, exits, metadata, nextPaneId>>

\* A reply, HeartbeatAck, Copied or Error that cannot be queued
SendFails(c) ==
  /\ Running /\ "send" \in Faults
  /\ DetachClients({c})
  /\ UNCHANGED <<status, nextClientId, nextPaneId>>

\* Resize: only noted, and applied once the size has been stable
ResizeRequest(c) ==
  /\ Running
  /\ resizes' = resizes \cup {clients[c].session}
  /\ searches' = Without(searches, {c})
  /\ UNCHANGED <<status, sessions, clients, snapshots, exits, metadata,
                 nextClientId, nextPaneId>>

\* Scroll, ScrollToTop, ScrollToBottom, Zoom, Focus, Rename to the same name
View(c) ==
  \E n \in Name :
    /\ Streams(c, n)
    /\ \E p \in sessions[n].panes :
         ThenSnapshot(c, n, [sessions EXCEPT ![n].focused = p],
                      resizes, snapshots, exits)
    /\ UNCHANGED <<metadata, nextPaneId>>

AdjustRatio(c) ==
  \E n \in Name :
    /\ Streams(c, n)
    /\ metadata' = metadata \cup {n}
    /\ ThenSnapshot(c, n, sessions, resizes, snapshots, exits)
    /\ UNCHANGED nextPaneId

\* Mutant: the pane id counter stands still.
SplitSameId(c) ==
  /\ nextPaneId <= MaxPanes
  /\ UNCHANGED nextPaneId
  /\ \E n \in Name :
       LET ss == [sessions EXCEPT ![n].panes = @ \cup {nextPaneId},
                                  ![n].focused = nextPaneId]
       IN /\ Streams(c, n)
          /\ metadata' = metadata \cup {n}
          /\ ThenSnapshot(c, n, ss, resizes, snapshots, exits)

\* Split: refused by Reply when the pane is too small or cannot be spawned,
\* except that the pane id is used up.
Split(c) ==
  /\ nextPaneId <= MaxPanes
  /\ nextPaneId' = nextPaneId + 1
  /\ \E n \in Name :
       LET ss == [sessions EXCEPT ![n].panes = @ \cup {nextPaneId},
                                  ![n].focused = nextPaneId]
       IN /\ Streams(c, n)
          /\ \/ /\ metadata' = metadata \cup {n}
                /\ ThenSnapshot(c, n, ss, resizes, snapshots, exits)
             \/ Faults \cap {"pty", "disk"} # {} /\ ThenError(ss)
             \/ ThenError(sessions)

\* ClosePane with other panes left: the first leaf of the layout is focused.
\* What is known of the closed pane's exit stays in the session.
ClosePane(c) ==
  \E n \in Name :
    /\ Streams(c, n)
    /\ \E p \in sessions[n].panes \ {sessions[n].focused} :
         LET ss == [sessions EXCEPT ![n].panes = @ \ {sessions[n].focused},
                                    ![n].focused = p]
         IN \/ /\ metadata' = metadata \cup {n}
               /\ ThenSnapshot(c, n, ss, resizes, snapshots, exits)
            \/ Faults \cap {"pty", "disk"} # {} /\ ThenError(ss)
    /\ UNCHANGED nextPaneId

\* ClosePane on the last pane ends the session.  When its metadata cannot be
\* removed the handler returns before it detaches the client.
CloseSession(c) ==
  \E n \in Name :
    /\ Streams(c, n)
    /\ sessions[n].panes = {sessions[n].focused}
    /\ sessions' = Without(sessions, {n})
    /\ ForgetPending({n})
    /\ \/ clients' = Without(clients, {c}) /\ metadata' = metadata \ {n}
       \/ "disk" \in Faults /\ UNCHANGED <<clients, metadata>>
    /\ UNCHANGED nextPaneId

\* Mutant: the pending set keeps the old name.
MovedNot(S, n, m) == S

\* rename_pending_session on a set of names
Moved(S, n, m) == IF n \in S THEN (S \ {n}) \cup {m} ELSE S

\* Mutant: the new name may be in use.
FreeAnyway(m) == m \in Name

\* The new name of a session
Free(m) == m \notin DOMAIN sessions

Rename(c, m) ==
  \E n \in Name :
    LET ss == Insert(Without(sessions, {n}), m, sessions[n])
        rz == Moved(resizes, n, m)
        sn == Moved(snapshots, n, m)
        ex == {[e EXCEPT !.session = IF @ = n THEN m ELSE @] : e \in exits}
    IN
    /\ Streams(c, n)
    /\ Free(m)
    /\ \/ /\ metadata' = (metadata \ {n}) \cup {m}
          /\ ThenSnapshot(c, m, ss, rz, sn, ex)
       \/ /\ "disk" \in Faults
          /\ clients' = [clients EXCEPT ![c].session = m]
          /\ sessions' = ss /\ resizes' = rz /\ snapshots' = sn /\ exits' = ex
          /\ metadata' \in {metadata, metadata \ {n}}
    /\ UNCHANGED nextPaneId

Search(c) ==
  /\ Running
  /\ clients[c].session \in DOMAIN sessions
  /\ searches' = Insert(searches, c, clients[c].session)
  /\ UNCHANGED <<status, sessions, clients, resizes, snapshots, exits, metadata,
                 nextClientId, nextPaneId>>

\* Detach, ClientDisconnected, ClientWriteFailed
Leave(c) ==
  /\ Running
  /\ DetachAndCleanUp({c})
  /\ UNCHANGED <<status, nextClientId, nextPaneId>>

-----------------------------------------------------------------------------
(* Pane events (handle_pane_event).  An event of an unknown pane is ignored. *)

\* Output: the terminal state changes and an attached session is redrawn.  The
\* name is noted even when sending a clipboard copy has just lost the client.
PaneOutput(n) ==
  /\ Running /\ n \in DOMAIN sessions
  /\ sessions[n].attached
  /\ snapshots' = snapshots \cup {n}
  /\ \/ UNCHANGED <<sessions, clients, searches, resizes, exits>>
     \/ /\ "send" \in Faults
        /\ \E c \in Holders(n) :
             clients' = Without(clients, {c}) /\ searches' = Without(searches, {c})
        /\ sessions' = Released(sessions, {n})
        /\ resizes' = resizes \ {n}
        /\ exits' = {e \in exits : e.session # n}
  /\ UNCHANGED <<status, metadata, nextClientId, nextPaneId>>

\* Exited: recorded, written to disk, and reported once the last output has
\* been drawn.  An I/O error here leaves the event loop and ends the daemon.
PaneExited(n, p) ==
  /\ Running /\ n \in DOMAIN sessions
  /\ p \in sessions[n].panes \ sessions[n].exited
  /\ LET ss == [sessions EXCEPT ![n].exited = @ \cup {p}]
         gone == FinishedTemporary(ss)
         report == [session |-> n, pane |-> p, finished |-> IsFinished(ss[n])]
     IN \/ /\ sessions' = Without(ss, gone)
           /\ resizes' = resizes \ gone
           /\ snapshots' = snapshots \ gone
           /\ exits' = {e \in exits : e.session \notin gone}
                         \cup (IF sessions[n].attached THEN {report} ELSE {})
           /\ RemoveMetadata(metadata \cup {n}, gone)
           /\ UNCHANGED <<status, clients, searches, nextClientId, nextPaneId>>
        \/ "disk" \in Faults /\ Halt(metadata)

-----------------------------------------------------------------------------
(* Work the loop does by itself, every turn or when a timer says so. *)

\* expire_stale_clients
ExpireStaleClients ==
  LET expired == {c \in DOMAIN clients : clients[c].stale}
  IN /\ Running
     /\ expired # {}
     /\ DetachAndCleanUp(expired)
     /\ UNCHANGED <<status, nextClientId, nextPaneId>>

\* process_search_step, when it finds the text or runs out of scrollback
FinishSearch(c) ==
  /\ Running
  /\ LET n == clients[c].session
     IN IF n \in DOMAIN sessions
        THEN ThenSnapshot(c, n, sessions, resizes, snapshots, exits)
        ELSE UNCHANGED <<sessions, clients, resizes, snapshots, exits>>
  /\ searches' = Without(searches, {c})
  /\ UNCHANGED <<status, metadata, nextClientId, nextPaneId>>

\* flush_snapshots.  The sessions of `ready` have kept their requested size
\* for RESIZE_DEBOUNCE; which clients are busy is read before anything is
\* sent; `failed` are the clients whose queue does not take what they are sent.
Asked(ready) == snapshots \cup (ready \cap DOMAIN sessions)

\* The first part alone, when the snapshot interval has not passed.
ApplyResizes(ready) ==
  /\ Running /\ ready # {}
  /\ resizes' = resizes \ ready
  /\ snapshots' = Asked(ready)
  /\ UNCHANGED <<status, sessions, clients, exits, searches, metadata,
                 nextClientId, nextPaneId>>

FlushSnapshots(ready) ==
  LET waiting == resizes \ ready
      deferred == {n \in Asked(ready) : HolderBusy(n) \/ n \in waiting}
      sent == (Asked(ready) \ deferred) \cap DOMAIN sessions
      HeldBack(e) == HolderBusy(e.session) \/ e.session \in waiting \cup deferred
      told == {c \in DOMAIN clients :
                 \/ clients[c].session \in sent
                 \/ \E e \in exits : e.session = clients[c].session /\ ~HeldBack(e)}
  IN
  /\ Running
  /\ Asked(ready) # {} \/ exits # {}
  /\ \E failed \in SUBSET (IF "send" \in Faults THEN told ELSE {}) :
       /\ clients' = [c \in DOMAIN clients \ failed |->
                        IF clients[c].session \in sent
                        THEN [clients[c] EXCEPT !.inFlight = TRUE] ELSE clients[c]]
       /\ searches' = Without(searches, failed)
       /\ sessions' = Released(sessions, SessionsOf(failed))
       /\ resizes' = waiting \ SessionsOf(failed)
       /\ snapshots' = deferred \ SessionsOf(failed)
       /\ exits' = {e \in exits : /\ Holders(e.session) \ failed # {}
                                  /\ HeldBack(e)}
  /\ UNCHANGED <<status, metadata, nextClientId, nextPaneId>>

\* A window-size ioctl that fails in flush_snapshots ends the daemon as well.
ResizeFails ==
  /\ Running /\ "pty" \in Faults
  /\ resizes \cap DOMAIN sessions # {}
  /\ Halt(metadata)

\* SnapshotWritten from the client's writer thread
SnapshotWritten(c) ==
  /\ Running /\ clients[c].inFlight
  /\ clients' = [clients EXCEPT ![c].inFlight = FALSE]
  /\ UNCHANGED <<status, sessions, resizes, snapshots, exits, searches,
                 metadata, nextClientId, nextPaneId>>

-----------------------------------------------------------------------------
ShortRequests ==
  \/ Answer
  \/ \E n \in Name : (\E t \in BOOLEAN : Create(n, t)) \/ Kill(n)

Connections ==
  \E n \in Name, t \in Token : Attach(n, t) \/ Takeover(n, t)

StreamMessages ==
  \E c \in DOMAIN clients :
    \/ Reply(c) \/ SendFails(c) \/ ResizeRequest(c)
    \/ View(c) \/ AdjustRatio(c) \/ Split(c)
    \/ ClosePane(c) \/ CloseSession(c)
    \/ \E m \in Name : Rename(c, m)
    \/ Search(c) \/ Leave(c)

PaneEvents ==
  \E n \in Name : PaneOutput(n) \/ \E p \in PaneId : PaneExited(n, p)

LoopWork ==
  \/ ExpireStaleClients
  \/ \E c \in DOMAIN searches : FinishSearch(c)
  \/ \E ready \in SUBSET resizes : ApplyResizes(ready) \/ FlushSnapshots(ready)
  \/ ResizeFails
  \/ \E c \in DOMAIN clients : SnapshotWritten(c)

ReaderThreads ==
  \E c \in DOMAIN clients : MessageArrives(c) \/ LeaseElapses(c)

Next ==
  \/ ShortRequests \/ Connections \/ StreamMessages \/ PaneEvents
  \/ LoopWork \/ ReaderThreads \/ ShutdownSessions

Spec == Init /\ [][Next]_vars

-----------------------------------------------------------------------------
(* Type invariant of the tables. *)
TypeOK ==
  /\ status \in {"up", "down"}
  /\ DOMAIN sessions \subseteq Name
  /\ sessions \in [DOMAIN sessions -> Session]
  /\ DOMAIN clients \subseteq ClientId
  /\ clients \in [DOMAIN clients -> Client]
  /\ nextClientId \in 1 .. MaxClients + 1
  /\ nextPaneId \in 1 .. MaxPanes + 1
  /\ resizes \subseteq Name /\ snapshots \subseteq Name
  /\ exits \subseteq PendingExit
  /\ DOMAIN searches \subseteq ClientId
  /\ searches \in [DOMAIN searches -> Name]
  /\ metadata \subseteq Name

\* Nothing that follows is promised once a metadata file could not be removed:
\* CloseSession and Rename then leave the tables half changed.
DiskWorks == "disk" \notin Faults

(* A client in the table holds a session that exists and that knows it is  *)
(* attached (the flag handle_pane_event and cleanup_finished_temporary act *)
(* on), whatever renames, kills, closures, expiries and takeovers there    *)
(* were.                                                                   *)
HoldersAreLive ==
  DiskWorks => \A c \in DOMAIN clients :
                 /\ clients[c].session \in DOMAIN sessions
                 /\ sessions[clients[c].session].attached

(* A session marked attached has a client, and no session has two:         *)
(* client_id_for_session takes whichever the hash map yields first.        *)
OneHolder ==
  DiskWorks => /\ \A n \in DOMAIN sessions : sessions[n].attached => Holders(n) # {}
               /\ \A c, d \in DOMAIN clients :
                    clients[c].session = clients[d].session => c = d

(* Nothing waits for a client that is gone: a pending resize or exit       *)
(* concerns a session somebody is attached to, a pending snapshot one that *)
(* exists.  A leftover would be served to the session's next client or to  *)
(* another session that takes the name.                                    *)
PendingIsCurrent ==
  DiskWorks => /\ \A n \in resizes : n \in DOMAIN sessions /\ sessions[n].attached
               /\ \A e \in exits : /\ e.session \in DOMAIN sessions
                                   /\ sessions[e.session].attached
               /\ snapshots \subseteq DOMAIN sessions

(* An exit still to be reported is one the session has on record: no exit  *)
(* is announced for a pane whose shell has been restarted under its id.    *)
ExitsOnRecord ==
  DiskWorks => \A e \in exits : /\ e.session \in DOMAIN sessions
                                /\ e.pane \in sessions[e.session].exited

(* A search runs for an attached client, on the session that client holds. *)
SearchFollowsHolder ==
  \A c \in DOMAIN searches :
    c \in DOMAIN clients /\ searches[c] = clients[c].session

(* Pane events find their session by pane id: an id is handed out once, to *)
(* one session, and the focused pane is one of the session's.              *)
PanesHaveOneSession ==
  /\ \A n \in DOMAIN sessions : /\ sessions[n].focused \in sessions[n].panes
                                /\ \A p \in sessions[n].panes : p < nextPaneId
  /\ \A n, m \in DOMAIN sessions :
       n # m => sessions[n].panes \cap sessions[m].panes = {}

(* The metadata directory lists the sessions that exist, also after a      *)
(* shutdown, as long as the disk works; a failed window-size ioctl ends    *)
(* the daemon with its files in place and is left out of that run.         *)
MetadataMatches == DiskWorks => metadata = DOMAIN sessions

(* A temporary session that has finished and that nobody watches is gone   *)
(* (README.md: `plux run` "removes that session after the command exits"). *)
FinishedTemporaryIsGone == FinishedTemporary(sessions) = {}

(* Client ids in use have been handed out, so that the next one is fresh.   *)
IdsIssued == \A c \in DOMAIN clients : c < nextClientId

(* The inductive invariant behind the attachment properties. *)
AttachmentInv ==
  TypeOK /\ IdsIssued /\ SearchFollowsHolder /\ HoldersAreLive /\ OneHolder

(* A session passes directly from one client to another only by Takeover,  *)
(* to the same client process, or when the first one's lease has run out.  *)
NoSilentDisplacement ==
  [][\A n \in Name : \A c \in Holders(n), d \in Holders(n)' :
       c # d => \/ clients'[d].token = clients[c].token
                \/ clients[c].stale
                \/ \E t \in Token : Takeover(n, t)]_vars

-----------------------------------------------------------------------------
(* Refinement: the tables implement a fenced lock per session name. *)
Lock ==
  INSTANCE SessionLock WITH
    owner <- [n \in Name |->
                IF Holders(n) = {} THEN 0 ELSE CHOOSE c \in Holders(n) : TRUE],
    next <- nextClientId

(* Every step of the daemon is a step of the lock: attach and takeover     *)
(* install a fresh id, a displaced client never regains a session, and a   *)
(* rename carries ownership to a free name.                                *)
ImplementsLock == Lock!Spec

(* No client id returns to the table of sessions once it has left it.      *)
NoReturn == Lock!Fenced

=============================================================================
