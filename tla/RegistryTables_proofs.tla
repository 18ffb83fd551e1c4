------------------------ MODULE RegistryTables_proofs ------------------------
(***************************************************************************)
(* Proofs about module SessionRegistry that rest on the invariant of       *)
(* attachment (SessionRegistry_proofs).  What the daemon keeps beside its  *)
(* two main tables: pending resizes, snapshots and exits, pane ids,        *)
(* metadata files and finished temporary sessions.  And who holds a        *)
(* session: as long as the disk works the table of clients implements      *)
(* SessionLock, and nobody loses a session to another client but by a      *)
(* takeover or by an expired lease.                                        *)
(***************************************************************************)
EXTENDS SessionRegistry_proofs

-----------------------------------------------------------------------------
(* The handlers that change the panes of one session and redraw it. *)

\* Session n may get other panes and another focus; nothing else changes.
OnlyPanes(ss, n) ==
  /\ SessionMap(ss) /\ DOMAIN ss = DOMAIN sessions
  /\ \A m \in DOMAIN sessions \ {n} : ss[m] = sessions[m]
  /\ ss[n].temporary = sessions[n].temporary
  /\ ss[n].attached = sessions[n].attached
  /\ ss[n].exited = sessions[n].exited
  /\ \/ ss[n] = sessions[n]
     \/ ss[n].focused \in ss[n].panes

\* Pane ids stay within those handed out.
IssuedPanes(ss, n) ==
  \/ ss[n].panes \subseteq sessions[n].panes /\ nextPaneId' \in {nextPaneId, nextPaneId + 1}
  \/ ss[n].panes = sessions[n].panes \cup {nextPaneId} /\ nextPaneId' = nextPaneId + 1

\* Client c, which holds session n, has it changed to ss and redrawn, or is told
\* of an error.
Redraws(c, n, ss) ==
  /\ n = clients[c].session /\ n \in DOMAIN sessions
  /\ OnlyPanes(ss, n) /\ IssuedPanes(ss, n)
  /\ searches' = Without(searches, {c})
  /\ UNCHANGED <<status, nextClientId>>
  /\ \/ /\ ThenSnapshot(c, n, ss, resizes, snapshots, exits)
        /\ metadata' \in {metadata, metadata \cup {n}}
     \/ ThenError(ss)

\* A session replaced by one that differs in its panes.
LEMMA PutPanes ==
  ASSUME TypeOK, NEW n \in DOMAIN sessions, NEW t \in Session,
         t.temporary = sessions[n].temporary, t.attached = sessions[n].attached,
         t.exited = sessions[n].exited, t.focused \in t.panes
  PROVE  /\ OnlyPanes([sessions EXCEPT ![n] = t], n)
         /\ [sessions EXCEPT ![n] = t][n] = t
BY DEF OnlyPanes, SessionMap, TypeOK

\* The session as it is.
LEMMA SamePanes ==
  ASSUME TypeOK, NEW n \in DOMAIN sessions PROVE OnlyPanes(sessions, n)
BY DEF OnlyPanes, SessionMap, TypeOK

\* View, AdjustRatio, Split and ClosePane are handlers of this kind.
LEMMA Redrawing ==
  ASSUME TypeOK, BoundsAssumption, NEW c \in DOMAIN clients,
         View(c) \/ AdjustRatio(c) \/ Split(c) \/ ClosePane(c)
  PROVE  \E n \in Name : \E ss : Redraws(c, n, ss)
<1>1. CASE View(c)
  <2>1. PICK n \in Name :
          /\ Streams(c, n)
          /\ \E p \in sessions[n].panes :
               ThenSnapshot(c, n, [sessions EXCEPT ![n].focused = p],
                            resizes, snapshots, exits)
    BY <1>1 DEF View
  <2>2. PICK p \in sessions[n].panes :
          ThenSnapshot(c, n, [sessions EXCEPT ![n].focused = p],
                       resizes, snapshots, exits)
    BY <2>1
  <2> DEFINE t == [sessions[n] EXCEPT !.focused = p]
             ss == [sessions EXCEPT ![n].focused = p]
  <2>3. n \in DOMAIN sessions /\ sessions[n] \in Session BY <2>1 DEF Streams, TypeOK
  <2>4. /\ t \in Session /\ t.temporary = sessions[n].temporary
        /\ t.attached = sessions[n].attached /\ t.exited = sessions[n].exited
        /\ t.panes = sessions[n].panes /\ t.focused = p
    BY <2>3 DEF Session
  <2>5. ss = [sessions EXCEPT ![n] = t] BY DEF TypeOK
  <2> HIDE DEF t, ss
  <2>6. OnlyPanes(ss, n) /\ ss[n].panes = sessions[n].panes
    BY <2>2, <2>3, <2>4, <2>5, PutPanes
  <2>7. UNCHANGED <<metadata, nextPaneId>> BY <1>1 DEF View
  <2>8. ThenSnapshot(c, n, ss, resizes, snapshots, exits) BY <2>2 DEF ss
  <2>9. Redraws(c, n, ss)
    BY <2>1, <2>3, <2>6, <2>7, <2>8 DEF Redraws, IssuedPanes, Streams
  <2> QED BY <2>9
<1>2. CASE AdjustRatio(c)
  <2>1. PICK n \in Name :
          /\ Streams(c, n)
          /\ metadata' = metadata \cup {n}
          /\ ThenSnapshot(c, n, sessions, resizes, snapshots, exits)
    BY <1>2 DEF AdjustRatio
  <2>2. OnlyPanes(sessions, n) BY <2>1, SamePanes DEF Streams
  <2>3. UNCHANGED nextPaneId BY <1>2 DEF AdjustRatio
  <2>4. Redraws(c, n, sessions)
    BY <2>1, <2>2, <2>3 DEF Redraws, IssuedPanes, Streams
  <2> QED BY <2>4
<1>3. CASE Split(c)
  <2>0. nextPaneId \in PaneId /\ nextPaneId' = nextPaneId + 1
    BY <1>3 DEF Split, TypeOK, PaneId, BoundsAssumption
  <2>1. PICK n \in Name :
          LET ss == [sessions EXCEPT ![n].panes = @ \cup {nextPaneId},
                                     ![n].focused = nextPaneId]
          IN /\ Streams(c, n)
             /\ \/ /\ metadata' = metadata \cup {n}
                   /\ ThenSnapshot(c, n, ss, resizes, snapshots, exits)
                \/ ThenError(ss)
                \/ ThenError(sessions)
    BY <1>3 DEF Split
  <2> DEFINE t == [sessions[n] EXCEPT !.panes = @ \cup {nextPaneId},
                                      !.focused = nextPaneId]
             ss == [sessions EXCEPT ![n].panes = @ \cup {nextPaneId},
                                    ![n].focused = nextPaneId]
  <2>2. Streams(c, n) BY <2>1
  <2>3. n \in DOMAIN sessions /\ sessions[n] \in Session BY <2>2 DEF Streams, TypeOK
  <2>4. /\ t \in Session /\ t.temporary = sessions[n].temporary
        /\ t.attached = sessions[n].attached /\ t.exited = sessions[n].exited
        /\ t.panes = sessions[n].panes \cup {nextPaneId} /\ t.focused = nextPaneId
    BY <2>0, <2>3 DEF Session
  <2>5. ss = [sessions EXCEPT ![n] = t] BY DEF TypeOK
  <2>6. \/ /\ metadata' = metadata \cup {n}
           /\ ThenSnapshot(c, n, ss, resizes, snapshots, exits)
        \/ ThenError(ss)
        \/ ThenError(sessions)
    BY <2>1
  <2> HIDE DEF t, ss
  <2>7. OnlyPanes(ss, n) /\ ss[n].panes = sessions[n].panes \cup {nextPaneId}
    BY <2>3, <2>4, <2>5, PutPanes
  <2>8. CASE ThenError(sessions)
    <3>1. OnlyPanes(sessions, n) BY <2>3, SamePanes
    <3>2. Redraws(c, n, sessions)
      BY <2>0, <2>2, <2>3, <2>8, <3>1 DEF Redraws, IssuedPanes, Streams
    <3> QED BY <3>2
  <2>9. CASE ~ThenError(sessions)
    <3>1. Redraws(c, n, ss)
      BY <2>0, <2>2, <2>3, <2>6, <2>7, <2>9 DEF Redraws, IssuedPanes, Streams
    <3> QED BY <3>1
  <2> QED BY <2>8, <2>9
<1>4. CASE ClosePane(c)
  <2>0. PICK n \in Name :
          /\ Streams(c, n)
          /\ \E p \in sessions[n].panes \ {sessions[n].focused} :
               LET ss == [sessions EXCEPT ![n].panes = @ \ {sessions[n].focused},
                                          ![n].focused = p]
               IN \/ /\ metadata' = metadata \cup {n}
                     /\ ThenSnapshot(c, n, ss, resizes, snapshots, exits)
                  \/ ThenError(ss)
    BY <1>4 DEF ClosePane
  <2>1. PICK p \in sessions[n].panes \ {sessions[n].focused} :
          LET ss == [sessions EXCEPT ![n].panes = @ \ {sessions[n].focused},
                                     ![n].focused = p]
          IN \/ /\ metadata' = metadata \cup {n}
                /\ ThenSnapshot(c, n, ss, resizes, snapshots, exits)
             \/ ThenError(ss)
    BY <2>0
  <2> DEFINE t == [sessions[n] EXCEPT !.panes = @ \ {sessions[n].focused},
                                      !.focused = p]
             ss == [sessions EXCEPT ![n].panes = @ \ {sessions[n].focused},
                                    ![n].focused = p]
  <2>2. UNCHANGED nextPaneId BY <1>4 DEF ClosePane
  <2>3. n \in DOMAIN sessions /\ sessions[n] \in Session BY <2>0 DEF Streams, TypeOK
  <2>4. /\ t \in Session /\ t.temporary = sessions[n].temporary
        /\ t.attached = sessions[n].attached /\ t.exited = sessions[n].exited
        /\ t.panes = sessions[n].panes \ {sessions[n].focused} /\ t.focused = p
    BY <2>3 DEF Session
  <2>5. ss = [sessions EXCEPT ![n] = t] BY DEF TypeOK
  <2>6. \/ /\ metadata' = metadata \cup {n}
           /\ ThenSnapshot(c, n, ss, resizes, snapshots, exits)
        \/ ThenError(ss)
    BY <2>1
  <2> HIDE DEF t, ss
  <2>7. OnlyPanes(ss, n) /\ ss[n].panes \subseteq sessions[n].panes
    BY <2>1, <2>3, <2>4, <2>5, PutPanes
  <2>8. Redraws(c, n, ss)
    BY <2>0, <2>2, <2>3, <2>6, <2>7 DEF Redraws, IssuedPanes, Streams
  <2> QED BY <2>8
<1> QED BY <1>1, <1>2, <1>3, <1>4

-----------------------------------------------------------------------------
(* Pending work. *)

\* Every pending resize and exit concerns an attached session, every exit is one
\* that session has on record, every pending snapshot concerns a session.
Backed(ss, rz, sn, ex) ==
  /\ \A n \in rz : n \in DOMAIN ss /\ ss[n].attached
  /\ sn \subseteq DOMAIN ss
  /\ \A e \in ex : /\ e.session \in DOMAIN ss
                   /\ ss[e.session].attached
                   /\ e.pane \in ss[e.session].exited

\* clear_pending_session, as a bound on what is left.
LEMMA ForgetLess ==
  ASSUME NEW N, ForgetPending(N)
  PROVE  /\ resizes' \subseteq resizes \ N /\ snapshots' \subseteq snapshots \ N
         /\ \A e \in exits' : e \in exits /\ e.session \notin N
BY DEF ForgetPending

\* detach_client
LEMMA BackedDetached ==
  ASSUME TypeOK, Backed(sessions, resizes, snapshots, exits), NEW C, DetachClients(C)
  PROVE  Backed(sessions', resizes', snapshots', exits')
<1> DEFINE N == SessionsOf(C)
<1>1. SessionMap(sessions) BY DEF TypeOK, SessionMap
<1>2. sessions' = Released(sessions, N) /\ ForgetPending(N)
  BY DEF DetachClients
<1> HIDE DEF N
<1>3. /\ DOMAIN sessions' = DOMAIN sessions
      /\ \A n \in DOMAIN sessions \ N : sessions'[n] = sessions[n]
  BY <1>1, <1>2, ReleasedMap
<1>4. /\ resizes' \subseteq resizes \ N /\ snapshots' \subseteq DOMAIN sessions'
      /\ \A e \in exits' : e \in exits /\ e.session \notin N
  BY <1>2, <1>3, ForgetLess DEF Backed
<1> QED BY <1>3, <1>4 DEF Backed

\* detach_client and cleanup_finished_temporary
LEMMA BackedCleaned ==
  ASSUME TypeOK, Backed(sessions, resizes, snapshots, exits), NEW C, DetachAndCleanUp(C)
  PROVE  Backed(sessions', resizes', snapshots', exits')
<1> DEFINE M == SessionsOf(C)
           released == Released(sessions, M)
           gone == FinishedTemporary(released)
           N == M \cup gone
<1>1. SessionMap(sessions) BY DEF TypeOK, SessionMap
<1>2. sessions' = Without(released, gone) /\ ForgetPending(N)
  BY DEF DetachAndCleanUp
<1>3. /\ DOMAIN released = DOMAIN sessions
      /\ \A n \in DOMAIN sessions \ M : released[n] = sessions[n]
  BY <1>1, ReleasedMap
<1> HIDE DEF M, released, gone
<1>4. /\ DOMAIN sessions' = DOMAIN sessions \ gone
      /\ \A n \in DOMAIN sessions \ N : sessions'[n] = sessions[n]
  BY <1>2, <1>3 DEF Without, Restrict
<1>5. /\ resizes' \subseteq resizes \ N /\ snapshots' \subseteq DOMAIN sessions'
      /\ \A e \in exits' : e \in exits /\ e.session \notin N
  BY <1>2, <1>4, ForgetLess DEF Backed
<1> QED BY <1>4, <1>5 DEF Backed

\* send_attached_snapshot leaves work backed that was.
LEMMA BackedSnapshot ==
  ASSUME NEW c, NEW ss, SessionMap(ss), NEW n \in DOMAIN ss, NEW rz, NEW sn, NEW ex,
         Backed(ss, rz, sn, ex), ThenSnapshot(c, n, ss, rz, sn, ex)
  PROVE  Backed(sessions', resizes', snapshots', exits')
<1>1. CASE /\ sessions' = ss /\ resizes' = rz /\ exits' = ex
           /\ snapshots' \subseteq sn \cup {n}
  BY <1>1 DEF Backed
<1>2. CASE /\ sessions' = Released(ss, {n})
           /\ resizes' = rz \ {n} /\ snapshots' = sn \ {n}
           /\ exits' = {e \in ex : e.session # n}
  <2>1. /\ DOMAIN sessions' = DOMAIN ss
        /\ \A m \in DOMAIN ss \ {n} : sessions'[m] = ss[m]
    BY <1>2, ReleasedMap
  <2>2. snapshots' \subseteq DOMAIN sessions' BY <1>2, <2>1 DEF Backed
  <2>3. \A e \in exits' : e \in ex /\ e.session \notin {n} BY <1>2
  <2> QED BY <1>2, <2>1, <2>2, <2>3 DEF Backed
<1> QED BY <1>1, <1>2 DEF ThenSnapshot

\* replace_client: what was pending for the session goes with the client that is
\* displaced; nothing is pending for a session that nobody holds.
LEMMA BackedReplaced ==
  ASSUME TypeOK, Consistent(clients, sessions),
         Backed(sessions, resizes, snapshots, exits),
         NEW n \in DOMAIN sessions, NEW token, NEW old \in Existing(n),
         ReplaceClient(old, n, token)
  PROVE  Backed(sessions', resizes', snapshots', exits')
<1> DEFINE forgotten == IF old = {} THEN {} ELSE {n}
<1>1. old = {} => ~sessions[n].attached
  BY DEF Existing, Holders, Consistent
<1>2. /\ DOMAIN sessions' = DOMAIN sessions
      /\ \A m \in DOMAIN sessions \ {n} : sessions'[m] = sessions[m]
  BY DEF ReplaceClient, TypeOK
<1>3. /\ resizes' \subseteq resizes \ forgotten
      /\ snapshots' \subseteq snapshots
      /\ \A e \in exits' : e \in exits /\ e.session \notin forgotten
  BY DEF ReplaceClient, ForgetPending
<1>4. n \notin resizes' /\ \A e \in exits' : e.session # n
  BY <1>1, <1>3 DEF Backed
<1>5. snapshots' \subseteq DOMAIN sessions'
  BY <1>2, <1>3 DEF Backed
<1>6. resizes' \subseteq resizes \ {n} /\ \A e \in exits' : e \in exits /\ e.session \notin {n}
  BY <1>3, <1>4
<1> QED BY <1>2, <1>5, <1>6 DEF Backed

\* rename_pending_session: the work of n becomes that of m.
LEMMA BackedRenamed ==
  ASSUME TypeOK, NEW c \in DOMAIN clients, NEW m \in Name, Rename(c, m), DiskWorks,
         Backed(sessions, resizes, snapshots, exits)
  PROVE  Backed(sessions', resizes', snapshots', exits')
<1>1. PICK n \in Name :
        /\ Streams(c, n)
        /\ m \notin DOMAIN sessions
        /\ ThenSnapshot(c, m, Insert(Without(sessions, {n}), m, sessions[n]),
             Moved(resizes, n, m), Moved(snapshots, n, m),
             {[e EXCEPT !.session = IF @ = n THEN m ELSE @] : e \in exits})
  BY DEF Rename, Free, DiskWorks
<1> DEFINE rest == Without(sessions, {n})
           ss == Insert(rest, m, sessions[n])
           rz == Moved(resizes, n, m)
           sn == Moved(snapshots, n, m)
           ex == {[e EXCEPT !.session = IF @ = n THEN m ELSE @] : e \in exits}
<1>2. n \in DOMAIN sessions /\ n \in Name /\ sessions[n] \in Session
  BY <1>1 DEF Streams, TypeOK
<1>3. /\ DOMAIN rest = DOMAIN sessions \ {n}
      /\ \A k \in DOMAIN sessions \ {n} : rest[k] = sessions[k]
      /\ DOMAIN rest \subseteq Name /\ rest \in [DOMAIN rest -> Session]
  BY WithoutIs, WithoutMap DEF TypeOK
<1>4. \A f \in ex : \E e \in exits :
        f.session = (IF e.session = n THEN m ELSE e.session) /\ f.pane = e.pane
  BY DEF TypeOK, PendingExit
<1> HIDE DEF rest, ex
<1>5. SessionMap(ss)
  BY <1>2, <1>3, InsertMap DEF SessionMap
<1>6. /\ DOMAIN ss = (DOMAIN sessions \ {n}) \cup {m}
      /\ ss[m] = sessions[n]
      /\ \A k \in DOMAIN sessions \ {n} : ss[k] = sessions[k]
  BY <1>1, <1>3 DEF Insert
<1> HIDE DEF ss
<1>7. \A k \in rz : k \in DOMAIN ss /\ ss[k].attached
  BY <1>2, <1>6 DEF Backed, Moved
<1>8. sn \subseteq DOMAIN ss
  BY <1>2, <1>6 DEF Backed, Moved
<1>9. ASSUME NEW f \in ex
      PROVE  f.session \in DOMAIN ss /\ ss[f.session].attached
             /\ f.pane \in ss[f.session].exited
  <2>1. PICK e \in exits :
          f.session = (IF e.session = n THEN m ELSE e.session) /\ f.pane = e.pane
    BY <1>4
  <2>2. /\ e.session \in DOMAIN sessions /\ sessions[e.session].attached
        /\ e.pane \in sessions[e.session].exited
    BY DEF Backed
  <2>3. CASE e.session = n BY <1>6, <2>1, <2>2, <2>3
  <2>4. CASE e.session # n
    <3>1. ss[e.session] = sessions[e.session] /\ e.session \in DOMAIN ss
      BY <1>6, <2>2, <2>4
    <3> QED BY <2>1, <2>2, <2>4, <3>1
  <2> QED BY <2>3, <2>4
<1> HIDE DEF rz, sn
<1>10. Backed(ss, rz, sn, ex) BY <1>7, <1>8, <1>9 DEF Backed
<1>11. ThenSnapshot(c, m, ss, rz, sn, ex) BY <1>1 DEF ss, rest, rz, sn, ex
<1>12. m \in DOMAIN ss BY <1>6
<1> QED BY <1>5, <1>10, <1>11, <1>12, BackedSnapshot

\* Messages on a client's stream leave pending work backed.
LEMMA BackedStream ==
  ASSUME TypeOK, BoundsAssumption, DiskWorks, Consistent(clients, sessions),
         Backed(sessions, resizes, snapshots, exits), StreamMessages
  PROVE  Backed(sessions', resizes', snapshots', exits')
<1> SUFFICES ASSUME NEW c \in DOMAIN clients,
                    \/ Reply(c) \/ SendFails(c) \/ ResizeRequest(c)
                    \/ View(c) \/ AdjustRatio(c) \/ Split(c)
                    \/ ClosePane(c) \/ CloseSession(c)
                    \/ \E m \in Name : Rename(c, m)
                    \/ Search(c) \/ Leave(c)
             PROVE  Backed(sessions', resizes', snapshots', exits')
  BY DEF StreamMessages
<1>1. CASE Reply(c) \/ Search(c)
  BY <1>1 DEF Reply, Search
<1>2. CASE SendFails(c)
  BY <1>2, BackedDetached DEF SendFails
<1>3. CASE ResizeRequest(c)
  BY <1>3 DEF ResizeRequest, Backed, Consistent
<1>4. CASE View(c) \/ AdjustRatio(c) \/ Split(c) \/ ClosePane(c)
  <2>1. PICK n \in Name : \E ss : Redraws(c, n, ss)
    BY <1>4, Redrawing
  <2>2. PICK ss : Redraws(c, n, ss) BY <2>1
  <2>3. /\ SessionMap(ss) /\ n \in DOMAIN ss
        /\ Backed(ss, resizes, snapshots, exits)
    BY <2>2 DEF Redraws, OnlyPanes, Backed
  <2>4. CASE ThenSnapshot(c, n, ss, resizes, snapshots, exits)
    BY <2>3, <2>4, BackedSnapshot
  <2>5. CASE ThenError(ss)
    BY <2>3, <2>5 DEF ThenError
  <2> QED BY <2>2, <2>4, <2>5 DEF Redraws
<1>5. CASE CloseSession(c)
  <2>1. PICK n \in Name : sessions' = Without(sessions, {n}) /\ ForgetPending({n})
    BY <1>5 DEF CloseSession
  <2>2. /\ DOMAIN sessions' = DOMAIN sessions \ {n}
        /\ \A k \in DOMAIN sessions \ {n} : sessions'[k] = sessions[k]
    BY <2>1 DEF Without, Restrict
  <2> QED BY <2>1, <2>2 DEF Backed, ForgetPending
<1>6. ASSUME NEW m \in Name, Rename(c, m)
      PROVE  Backed(sessions', resizes', snapshots', exits')
  BY <1>6, BackedRenamed
<1>7. CASE Leave(c)
  BY <1>7, BackedCleaned DEF Leave
<1> QED BY <1>1, <1>2, <1>3, <1>4, <1>5, <1>6, <1>7

\* Short requests do.
LEMMA BackedShort ==
  ASSUME Backed(sessions, resizes, snapshots, exits), ShortRequests
  PROVE  Backed(sessions', resizes', snapshots', exits')
<1>1. CASE Answer
  BY <1>1 DEF Answer, tables
<1>2. ASSUME NEW n \in Name, NEW t \in BOOLEAN, Create(n, t)
      PROVE  Backed(sessions', resizes', snapshots', exits')
  <2>1. /\ DOMAIN sessions \subseteq DOMAIN sessions'
        /\ \A k \in DOMAIN sessions : sessions'[k] = sessions[k]
    BY <1>2 DEF Create, Insert
  <2> QED BY <1>2, <2>1 DEF Create, Backed
<1>3. ASSUME NEW n \in Name, Kill(n)
      PROVE  Backed(sessions', resizes', snapshots', exits')
  <2>1. /\ DOMAIN sessions' = DOMAIN sessions \ {n}
        /\ \A k \in DOMAIN sessions \ {n} : sessions'[k] = sessions[k]
    BY <1>3 DEF Kill, Without, Restrict
  <2> QED BY <1>3, <2>1 DEF Kill, Backed, ForgetPending
<1> QED BY <1>1, <1>2, <1>3 DEF ShortRequests

\* Pane events do: an exit is noted for a session somebody watches, which is not
\* cleaned up.
LEMMA BackedPane ==
  ASSUME TypeOK, Backed(sessions, resizes, snapshots, exits), PaneEvents
  PROVE  Backed(sessions', resizes', snapshots', exits')
<1>0. SessionMap(sessions) BY DEF TypeOK, SessionMap
<1>1. ASSUME NEW n \in Name, PaneOutput(n)
      PROVE  Backed(sessions', resizes', snapshots', exits')
  <2>1. n \in DOMAIN sessions /\ snapshots' = snapshots \cup {n}
    BY <1>1 DEF PaneOutput
  <2>2. CASE UNCHANGED <<sessions, resizes, exits>>
    BY <2>1, <2>2 DEF Backed
  <2>3. CASE /\ sessions' = Released(sessions, {n})
             /\ resizes' = resizes \ {n}
             /\ exits' = {e \in exits : e.session # n}
    <3>1. /\ DOMAIN sessions' = DOMAIN sessions
          /\ \A m \in DOMAIN sessions \ {n} : sessions'[m] = sessions[m]
      BY <1>0, <2>3, ReleasedMap
    <3> QED BY <2>1, <2>3, <3>1 DEF Backed
  <2> QED BY <1>1, <2>2, <2>3 DEF PaneOutput
<1>2. ASSUME NEW n \in Name, NEW p \in PaneId, PaneExited(n, p)
      PROVE  Backed(sessions', resizes', snapshots', exits')
  <2> DEFINE ss == [sessions EXCEPT ![n].exited = @ \cup {p}]
             gone == FinishedTemporary(ss)
             report == [session |-> n, pane |-> p, finished |-> IsFinished(ss[n])]
  <2>1. CASE Halt(metadata)
    BY <2>1 DEF Halt, Backed
  <2>2. CASE /\ sessions' = Without(ss, gone)
             /\ resizes' = resizes \ gone
             /\ snapshots' = snapshots \ gone
             /\ exits' = {e \in exits : e.session \notin gone}
                           \cup (IF sessions[n].attached THEN {report} ELSE {})
    <3>1. /\ n \in DOMAIN sessions /\ sessions[n] \in Session
          /\ DOMAIN ss = DOMAIN sessions
          /\ \A m \in DOMAIN sessions : /\ ss[m].attached = sessions[m].attached
                                        /\ sessions[m].exited \subseteq ss[m].exited
          /\ p \in ss[n].exited
      BY <1>2 DEF PaneExited, TypeOK, Session
    <3>2. \A m \in gone : m \in DOMAIN ss /\ ~ss[m].attached
      BY DEF FinishedTemporary
    <3>3. report.session = n /\ report.pane = p
      OBVIOUS
    <3> HIDE DEF ss, gone, report
    <3>4. /\ DOMAIN sessions' = DOMAIN sessions \ gone
          /\ \A m \in DOMAIN sessions \ gone : sessions'[m] = ss[m]
      BY <2>2, <3>1 DEF Without, Restrict
    <3>5. ASSUME NEW m \in resizes'
          PROVE  m \in DOMAIN sessions' /\ sessions'[m].attached
      BY <2>2, <3>1, <3>4 DEF Backed
    <3>6. snapshots' \subseteq DOMAIN sessions'
      BY <2>2, <3>4 DEF Backed
    <3>7. ASSUME NEW e \in exits'
          PROVE  /\ e.session \in DOMAIN sessions' /\ sessions'[e.session].attached
                 /\ e.pane \in sessions'[e.session].exited
      <4>1. CASE e \in exits /\ e.session \notin gone
        BY <3>1, <3>4, <4>1 DEF Backed
      <4>2. CASE e = report /\ sessions[n].attached
        <5>1. n \notin gone BY <3>1, <3>2, <4>2
        <5> QED BY <3>1, <3>3, <3>4, <4>2, <5>1
      <4> QED BY <2>2, <4>1, <4>2
    <3> QED BY <3>5, <3>6, <3>7 DEF Backed
  <2> QED BY <1>2, <2>1, <2>2 DEF PaneExited
<1> QED BY <1>1, <1>2 DEF PaneEvents

\* The periodic work does.
LEMMA BackedLoop ==
  ASSUME TypeOK, SearchInv, Consistent(clients, sessions),
         Backed(sessions, resizes, snapshots, exits), LoopWork
  PROVE  Backed(sessions', resizes', snapshots', exits')
<1>0. SessionMap(sessions) BY DEF TypeOK, SessionMap
<1>1. CASE ExpireStaleClients
  BY <1>1, BackedCleaned DEF ExpireStaleClients
<1>2. ASSUME NEW c \in DOMAIN searches, FinishSearch(c)
      PROVE  Backed(sessions', resizes', snapshots', exits')
  BY <1>0, <1>2, BackedSnapshot DEF FinishSearch
<1>3. ASSUME NEW ready \in SUBSET resizes, ApplyResizes(ready)
      PROVE  Backed(sessions', resizes', snapshots', exits')
  BY <1>3 DEF ApplyResizes, Asked, Backed
<1>4. ASSUME NEW ready \in SUBSET resizes, FlushSnapshots(ready)
      PROVE  Backed(sessions', resizes', snapshots', exits')
  <2>1. PICK failed \in SUBSET DOMAIN clients :
          /\ sessions' = Released(sessions, SessionsOf(failed))
          /\ resizes' \subseteq resizes \ SessionsOf(failed)
          /\ snapshots' \subseteq Asked(ready) \ SessionsOf(failed)
          /\ \A e \in exits' : e \in exits /\ Holders(e.session) \ failed # {}
    BY <1>4 DEF FlushSnapshots
  <2> DEFINE N == SessionsOf(failed)
  <2>2. \A e \in exits' : e.session \notin N
    <3> SUFFICES ASSUME NEW e \in exits', e.session \in N PROVE FALSE
      OBVIOUS
    <3>1. PICK c \in failed : clients[c].session = e.session BY DEF SessionsOf
    <3>2. PICK d \in Holders(e.session) : d \notin failed BY <2>1
    <3>3. sessions[e.session].attached /\ e.session \in DOMAIN sessions
      BY <2>1 DEF Backed
    <3> QED BY <3>1, <3>2, <3>3 DEF Holders, Consistent
  <2>3. Asked(ready) \subseteq DOMAIN sessions BY DEF Asked, Backed
  <2>4. sessions' = Released(sessions, N) BY <2>1
  <2> HIDE DEF N
  <2>5. /\ DOMAIN sessions' = DOMAIN sessions
        /\ \A n \in DOMAIN sessions \ N : sessions'[n] = sessions[n]
    BY <2>4 DEF Released
  <2> QED BY <2>1, <2>2, <2>3, <2>5 DEF Backed, N
<1>5. CASE ResizeFails
  BY <1>5 DEF ResizeFails, Halt, Backed
<1>6. ASSUME NEW c \in DOMAIN clients, SnapshotWritten(c)
      PROVE  Backed(sessions', resizes', snapshots', exits')
  BY <1>6 DEF SnapshotWritten
<1> QED BY <1>1, <1>2, <1>3, <1>4, <1>5, <1>6 DEF LoopWork

\* Every step does, as long as the disk works.
LEMMA BackedStep ==
  ASSUME TypeOK, SearchInv, BoundsAssumption, DiskWorks,
         Consistent(clients, sessions),
         Backed(sessions, resizes, snapshots, exits), [Next]_vars
  PROVE  Backed(sessions', resizes', snapshots', exits')
<1>1. CASE UNCHANGED vars
  BY <1>1 DEF vars, tables
<1>2. CASE Connections
  BY <1>2, BackedReplaced DEF Connections, Attach, Takeover
<1>3. CASE ReaderThreads
  BY <1>3 DEF ReaderThreads, MessageArrives, LeaseElapses
<1>4. CASE ShutdownSessions
  BY <1>4 DEF ShutdownSessions, Halt, Backed
<1> QED BY <1>1, <1>2, <1>3, <1>4, BackedShort, BackedStream, BackedPane,
           BackedLoop DEF Next

(* The inductive invariant of pending work: as long as the disk works,     *)
(* every pending resize and exit concerns a session somebody is attached   *)
(* to, every exit is on that session's record, every pending snapshot      *)
(* concerns a session that exists.                                         *)
THEOREM PendingInvariant ==
  Spec => [](DiskWorks => Backed(sessions, resizes, snapshots, exits))
<1> DEFINE Agree == DiskWorks => Consistent(clients, sessions)
           Pend == DiskWorks => Backed(sessions, resizes, snapshots, exits)
<1>1. Init => Pend
  BY DEF Init, Backed
<1>2. TypeOK /\ SearchInv /\ Agree /\ Pend /\ [Next]_vars => Pend'
  BY BackedStep, BoundsAssumption DEF DiskWorks
<1>3. AttachmentInv => TypeOK /\ SearchInv /\ Agree
  BY ConsistentIs DEF AttachmentInv, SearchInv
<1> HIDE DEF Agree, Pend
<1>4. Spec => []Pend
  BY <1>1, <1>2, <1>3, AttachmentInvariant, PTL DEF Spec
<1> QED BY <1>4 DEF Pend

(* Nothing waits for a client that is gone: no resize, exit or snapshot is *)
(* left in the pending tables of src/daemon.rs when its session is         *)
(* released, renamed or removed, for any number of clients and sessions.   *)
THEOREM NothingWaitsInVain == Spec => []PendingIsCurrent
<1>1. (DiskWorks => Backed(sessions, resizes, snapshots, exits)) => PendingIsCurrent
  BY DEF PendingIsCurrent, Backed
<1> QED BY <1>1, PendingInvariant, PTL

(* An exit that waits to be reported is one its session has on record:     *)
(* a shell is restarted only in a session nobody holds, whose exits are    *)
(* no longer pending, or after those of the displaced client are dropped.  *)
THEOREM PendingExitsOnRecord == Spec => []ExitsOnRecord
<1>1. (DiskWorks => Backed(sessions, resizes, snapshots, exits)) => ExitsOnRecord
  BY DEF ExitsOnRecord, Backed
<1> QED BY <1>1, PendingInvariant, PTL

-----------------------------------------------------------------------------
(* Pane ids. *)

\* Ids below k, each in at most one session, whose focus is one of its own.
OnePerSession(ss, k) ==
  /\ \A n \in DOMAIN ss : /\ ss[n].focused \in ss[n].panes
                          /\ \A p \in ss[n].panes : p < k
  /\ \A n, m \in DOMAIN ss : n # m => ss[n].panes \cap ss[m].panes = {}

\* The sessions of ss2 have the panes and the focus they have in ss.
Keeps(ss, ss2) ==
  \A n \in DOMAIN ss2 : /\ n \in DOMAIN ss
                        /\ ss2[n].panes = ss[n].panes
                        /\ ss2[n].focused = ss[n].focused

LEMMA KeepsOne ==
  ASSUME NEW ss, NEW ss2, NEW k, OnePerSession(ss, k), Keeps(ss, ss2)
  PROVE  OnePerSession(ss2, k)
BY DEF OnePerSession, Keeps

\* Dropping sessions and clearing `attached` keep them.
LEMMA KeepsWithout ==
  ASSUME NEW ss, NEW N PROVE Keeps(ss, Without(ss, N))
BY DEF Keeps, Without, Restrict

LEMMA KeepsReleased ==
  ASSUME NEW ss, SessionMap(ss), NEW N PROVE Keeps(ss, Released(ss, N))
BY DEF Keeps, Released, SessionMap, Session

\* send_attached_snapshot keeps them.
LEMMA KeepsSnapshot ==
  ASSUME NEW c, NEW n, NEW ss, SessionMap(ss), NEW rz, NEW sn, NEW ex,
         ThenSnapshot(c, n, ss, rz, sn, ex)
  PROVE  Keeps(ss, sessions')
<1>1. Keeps(ss, ss) BY DEF Keeps
<1>2. sessions' = ss \/ sessions' = Released(ss, {n}) BY DEF ThenSnapshot
<1> QED BY <1>1, <1>2, KeepsReleased

\* detach_client and cleanup_finished_temporary keep them.
LEMMA KeepsCleaned ==
  ASSUME TypeOK, NEW C, DetachAndCleanUp(C) PROVE Keeps(sessions, sessions')
<1> DEFINE released == Released(sessions, SessionsOf(C))
<1>1. Keeps(sessions, released) BY KeepsReleased DEF TypeOK, SessionMap
<1>2. PICK N : sessions' = Without(released, N) BY DEF DetachAndCleanUp
<1> HIDE DEF released
<1>3. Keeps(released, sessions') BY <1>2, KeepsWithout
<1> QED BY <1>1, <1>3 DEF Keeps

\* So does replace_client, whatever becomes of the newcomer.
LEMMA KeepsReplaced ==
  ASSUME TypeOK, NEW n \in DOMAIN sessions, NEW token, NEW old,
         ReplaceClient(old, n, token)
  PROVE  Keeps(sessions, sessions')
<1> DEFINE s == sessions[n]
           r == Restarted(s)
           marked == [r EXCEPT !.attached = TRUE, !.everAttached = TRUE]
<1>1. s \in Session BY DEF TypeOK
<1>2. r \in Session /\ r.panes = s.panes /\ r.focused = s.focused
  BY <1>1 DEF Restarted, Session
<1> HIDE DEF r
<1>3. /\ marked \in Session /\ marked.panes = s.panes /\ marked.focused = s.focused
  BY <1>2 DEF Session
<1> HIDE DEF marked, s
<1>4. \E t \in {marked, r, s, [marked EXCEPT !.attached = FALSE],
                [r EXCEPT !.attached = FALSE], [s EXCEPT !.attached = FALSE]} :
        sessions' = [sessions EXCEPT ![n] = t]
  BY DEF ReplaceClient, marked, r, s
<1>5. \A t \in {marked, r, s} :
        t \in Session /\ t.panes = s.panes /\ t.focused = s.focused
  BY <1>1, <1>2, <1>3
<1>6. \A t \in {marked, r, s} :
        LET u == [t EXCEPT !.attached = FALSE]
        IN u.panes = s.panes /\ u.focused = s.focused
  BY <1>5 DEF Session
<1>7. PICK t : /\ t.panes = s.panes /\ t.focused = s.focused
               /\ sessions' = [sessions EXCEPT ![n] = t]
  BY <1>4, <1>5, <1>6
<1>8. /\ DOMAIN sessions' = DOMAIN sessions /\ sessions'[n] = t
      /\ \A m \in DOMAIN sessions \ {n} : sessions'[m] = sessions[m]
  BY <1>7 DEF TypeOK
<1> QED BY <1>7, <1>8 DEF Keeps, s

\* Messages on a client's stream keep ids apart: only Split adds one, and it is
\* new.
LEMMA PanesStream ==
  ASSUME TypeOK, BoundsAssumption, OnePerSession(sessions, nextPaneId), StreamMessages
  PROVE  OnePerSession(sessions', nextPaneId')
<1>0. SessionMap(sessions) /\ Keeps(sessions, sessions)
  BY DEF TypeOK, SessionMap, Keeps
<1> SUFFICES ASSUME NEW c \in DOMAIN clients,
                    \/ Reply(c) \/ SendFails(c) \/ ResizeRequest(c)
                    \/ View(c) \/ AdjustRatio(c) \/ Split(c)
                    \/ ClosePane(c) \/ CloseSession(c)
                    \/ \E m \in Name : Rename(c, m)
                    \/ Search(c) \/ Leave(c)
             PROVE  OnePerSession(sessions', nextPaneId')
  BY DEF StreamMessages
<1>1. CASE Reply(c) \/ ResizeRequest(c) \/ Search(c)
  BY <1>1 DEF Reply, ResizeRequest, Search, Streams
<1>2. CASE SendFails(c)
  <2>1. Keeps(sessions, sessions') /\ UNCHANGED nextPaneId
    BY <1>0, <1>2, KeepsReleased DEF SendFails, DetachClients
  <2> QED BY <2>1, KeepsOne
<1>3. CASE View(c) \/ AdjustRatio(c) \/ Split(c) \/ ClosePane(c)
  <2>1. PICK n \in Name : \E ss : Redraws(c, n, ss)
    BY <1>3, Redrawing
  <2>2. PICK ss : Redraws(c, n, ss) BY <2>1
  <2>3. /\ n \in DOMAIN sessions /\ SessionMap(ss) /\ DOMAIN ss = DOMAIN sessions
        /\ \A m \in DOMAIN sessions \ {n} : ss[m] = sessions[m]
        /\ ss[n] = sessions[n] \/ ss[n].focused \in ss[n].panes
    BY <2>2 DEF Redraws, OnlyPanes
  <2>4. /\ nextPaneId \in Nat /\ nextPaneId' \in {nextPaneId, nextPaneId + 1}
        /\ \/ ss[n].panes \subseteq sessions[n].panes
           \/ /\ ss[n].panes = sessions[n].panes \cup {nextPaneId}
              /\ nextPaneId' = nextPaneId + 1
    BY <2>2 DEF Redraws, IssuedPanes, TypeOK
  <2>5. \A m \in DOMAIN sessions : \A p \in sessions[m].panes :
          p \in Nat /\ p < nextPaneId
    BY DEF OnePerSession, TypeOK, Session, PaneId
  <2>6. ASSUME NEW m \in DOMAIN ss
        PROVE  ss[m].focused \in ss[m].panes /\ \A p \in ss[m].panes : p < nextPaneId'
    <3>1. ss[m].focused \in ss[m].panes
      BY <2>3 DEF OnePerSession
    <3>2. \A p \in ss[m].panes : p < nextPaneId'
      BY <2>3, <2>4, <2>5
    <3> QED BY <3>1, <3>2
  <2>7. ASSUME NEW m \in DOMAIN ss, NEW k \in DOMAIN ss, m # k
        PROVE  ss[m].panes \cap ss[k].panes = {}
    <3>1. sessions[m].panes \cap sessions[k].panes = {}
      BY <2>3, <2>7 DEF OnePerSession
    <3>2. nextPaneId \notin sessions[m].panes /\ nextPaneId \notin sessions[k].panes
      BY <2>3, <2>4, <2>5
    <3>3. m # n => ss[m].panes = sessions[m].panes BY <2>3
    <3>4. k # n => ss[k].panes = sessions[k].panes BY <2>3
    <3> QED BY <2>4, <2>7, <3>1, <3>2, <3>3, <3>4
  <2>8. OnePerSession(ss, nextPaneId')
    BY <2>6, <2>7 DEF OnePerSession
  <2>9. CASE ThenSnapshot(c, n, ss, resizes, snapshots, exits)
    BY <2>3, <2>8, <2>9, KeepsSnapshot, KeepsOne
  <2>10. CASE ThenError(ss) BY <2>8, <2>10 DEF ThenError
  <2> QED BY <2>2, <2>9, <2>10 DEF Redraws
<1>4. CASE CloseSession(c)
  <2>1. Keeps(sessions, sessions') /\ UNCHANGED nextPaneId
    BY <1>4, KeepsWithout DEF CloseSession
  <2> QED BY <2>1, KeepsOne
<1>5. ASSUME NEW m \in Name, Rename(c, m) PROVE OnePerSession(sessions', nextPaneId')
  <2>1. PICK n \in Name :
          /\ Streams(c, n) /\ m \notin DOMAIN sessions
          /\ \/ \E rz, sn, ex :
                  ThenSnapshot(c, m, Insert(Without(sessions, {n}), m, sessions[n]),
                               rz, sn, ex)
             \/ sessions' = Insert(Without(sessions, {n}), m, sessions[n])
    BY <1>5 DEF Rename, Free
  <2> DEFINE rest == Without(sessions, {n})
             ss == Insert(rest, m, sessions[n])
  <2>2. n \in DOMAIN sessions /\ sessions[n] \in Session
    BY <2>1 DEF Streams, TypeOK
  <2>3. /\ DOMAIN rest = DOMAIN sessions \ {n}
        /\ \A k \in DOMAIN sessions \ {n} : rest[k] = sessions[k]
        /\ DOMAIN rest \subseteq Name /\ rest \in [DOMAIN rest -> Session]
    BY WithoutIs, WithoutMap DEF TypeOK
  <2> HIDE DEF rest
  <2>4. SessionMap(ss) BY <2>2, <2>3, InsertMap DEF SessionMap
  <2>5. /\ DOMAIN ss = (DOMAIN sessions \ {n}) \cup {m}
        /\ ss[m] = sessions[n]
        /\ \A k \in DOMAIN sessions \ {n} : ss[k] = sessions[k]
    BY <2>1, <2>3 DEF Insert
  <2>6. \/ \E rz, sn, ex : ThenSnapshot(c, m, ss, rz, sn, ex)
        \/ sessions' = ss
    BY <2>1 DEF rest
  <2> HIDE DEF ss
  <2>7. OnePerSession(ss, nextPaneId)
    BY <2>1, <2>2, <2>5 DEF OnePerSession
  <2>8. UNCHANGED nextPaneId BY <1>5 DEF Rename
  <2> QED BY <2>4, <2>6, <2>7, <2>8, KeepsSnapshot, KeepsOne
<1>6. CASE Leave(c)
  <2>1. Keeps(sessions, sessions') /\ UNCHANGED nextPaneId
    BY <1>6, KeepsCleaned DEF Leave
  <2> QED BY <2>1, KeepsOne
<1> QED BY <1>1, <1>2, <1>3, <1>4, <1>5, <1>6

\* Every step keeps ids apart.
LEMMA PanesStep ==
  ASSUME TypeOK, BoundsAssumption, OnePerSession(sessions, nextPaneId), [Next]_vars
  PROVE  OnePerSession(sessions', nextPaneId')
<1>0. SessionMap(sessions) /\ Keeps(sessions, sessions)
  BY DEF TypeOK, SessionMap, Keeps
<1> SUFFICES ASSUME ~(Keeps(sessions, sessions') /\ UNCHANGED nextPaneId),
                    ~StreamMessages
             PROVE  OnePerSession(sessions', nextPaneId')
  BY KeepsOne, PanesStream
<1>1. ASSUME NEW n \in Name, NEW t \in BOOLEAN, Create(n, t)
      PROVE  OnePerSession(sessions', nextPaneId')
  <2> DEFINE new == [temporary |-> t, attached |-> FALSE, everAttached |-> FALSE,
                     panes |-> {nextPaneId}, exited |-> {}, focused |-> nextPaneId]
  <2>1. /\ nextPaneId \in Nat /\ nextPaneId' = nextPaneId + 1
        /\ \A m \in DOMAIN sessions : \A p \in sessions[m].panes :
             p \in Nat /\ p < nextPaneId
    BY <1>1 DEF Create, TypeOK, OnePerSession, Session, PaneId
  <2>2. CASE UNCHANGED sessions
    BY <2>1, <2>2 DEF OnePerSession
  <2>3. CASE sessions' = Insert(sessions, n, new)
    <3>1. new.panes = {nextPaneId} /\ new.focused = nextPaneId OBVIOUS
    <3> HIDE DEF new
    <3>2. /\ DOMAIN sessions' = DOMAIN sessions \cup {n} /\ n \notin DOMAIN sessions
          /\ sessions'[n] = new
          /\ \A m \in DOMAIN sessions : sessions'[m] = sessions[m]
      BY <1>1, <2>3 DEF Create, Insert
    <3>3. ASSUME NEW m \in DOMAIN sessions'
          PROVE  /\ sessions'[m].focused \in sessions'[m].panes
                 /\ \A p \in sessions'[m].panes : p < nextPaneId'
      BY <2>1, <3>1, <3>2 DEF OnePerSession
    <3>4. ASSUME NEW m \in DOMAIN sessions', NEW k \in DOMAIN sessions', m # k
          PROVE  sessions'[m].panes \cap sessions'[k].panes = {}
      BY <2>1, <3>1, <3>2, <3>4 DEF OnePerSession
    <3> QED BY <3>3, <3>4 DEF OnePerSession
  <2> QED BY <1>1, <2>2, <2>3 DEF Create
<1>2. ASSUME NEW left, Halt(left) PROVE OnePerSession(sessions', nextPaneId')
  BY <1>2 DEF Halt, OnePerSession
<1>3. CASE UNCHANGED vars
  BY <1>0, <1>3 DEF vars, tables
<1>4. CASE ShortRequests
  <2>1. CASE Answer BY <1>0, <2>1 DEF Answer, tables
  <2>2. ASSUME NEW n \in Name, Kill(n) PROVE FALSE
    BY <2>2, KeepsWithout DEF Kill
  <2> QED BY <1>1, <1>4, <2>1, <2>2 DEF ShortRequests
<1>5. CASE Connections
  <2>1. PICK n \in Name, t \in Token : Attach(n, t) \/ Takeover(n, t)
    BY <1>5 DEF Connections
  <2>2. PICK old : n \in DOMAIN sessions /\ ReplaceClient(old, n, t)
    BY <2>1 DEF Attach, Takeover
  <2> QED BY <2>2, KeepsReplaced DEF ReplaceClient
<1>6. CASE PaneEvents
  <2>1. ASSUME NEW n \in Name, PaneOutput(n) PROVE FALSE
    BY <1>0, <2>1, KeepsReleased DEF PaneOutput
  <2>2. ASSUME NEW n \in Name, NEW p \in PaneId, PaneExited(n, p)
        PROVE  OnePerSession(sessions', nextPaneId')
    <3> DEFINE ss == [sessions EXCEPT ![n].exited = @ \cup {p}]
    <3>1. Keeps(sessions, ss)
      BY <2>2 DEF PaneExited, Keeps, TypeOK, Session
    <3>2. \/ Halt(metadata)
          \/ sessions' = Without(ss, FinishedTemporary(ss)) /\ UNCHANGED nextPaneId
      BY <2>2 DEF PaneExited
    <3> HIDE DEF ss
    <3>3. sessions' = Without(ss, FinishedTemporary(ss)) => Keeps(ss, sessions')
      BY KeepsWithout
    <3> QED BY <1>2, <3>1, <3>2, <3>3 DEF Keeps
  <2> QED BY <1>6, <2>1, <2>2 DEF PaneEvents
<1>7. CASE LoopWork
  <2>1. CASE ExpireStaleClients
    BY <2>1, KeepsCleaned DEF ExpireStaleClients
  <2>2. ASSUME NEW c \in DOMAIN searches, FinishSearch(c) PROVE FALSE
    BY <1>0, <2>2, KeepsSnapshot DEF FinishSearch
  <2>3. ASSUME NEW ready \in SUBSET resizes, ApplyResizes(ready) PROVE FALSE
    BY <1>0, <2>3 DEF ApplyResizes
  <2>4. ASSUME NEW ready \in SUBSET resizes, FlushSnapshots(ready) PROVE FALSE
    <3>1. PICK N : sessions' = Released(sessions, N)
      BY <2>4 DEF FlushSnapshots
    <3>2. UNCHANGED nextPaneId BY <2>4 DEF FlushSnapshots
    <3> QED BY <1>0, <3>1, <3>2, KeepsReleased
  <2>5. CASE ResizeFails BY <1>2, <2>5 DEF ResizeFails
  <2>6. ASSUME NEW c \in DOMAIN clients, SnapshotWritten(c) PROVE FALSE
    BY <1>0, <2>6 DEF SnapshotWritten
  <2> QED BY <1>7, <2>1, <2>2, <2>3, <2>4, <2>5, <2>6 DEF LoopWork
<1>8. CASE ReaderThreads
  BY <1>0, <1>8 DEF ReaderThreads, MessageArrives, LeaseElapses
<1>9. CASE ShutdownSessions
  BY <1>2, <1>9 DEF ShutdownSessions
<1> QED BY <1>3, <1>4, <1>5, <1>6, <1>7, <1>8, <1>9 DEF Next

(* A pane id belongs to one session and the focused pane to its own, with  *)
(* any faults: handle_pane_event, which looks for the id alone, finds the  *)
(* session the pane was created in.                                        *)
THEOREM PaneIdsApart == Spec => []PanesHaveOneSession
<1>1. Init => OnePerSession(sessions, nextPaneId)
  BY DEF Init, OnePerSession
<1>2. TypeOK /\ OnePerSession(sessions, nextPaneId) /\ [Next]_vars
        => OnePerSession(sessions, nextPaneId)'
  BY PanesStep, BoundsAssumption
<1>3. OnePerSession(sessions, nextPaneId) => PanesHaveOneSession
  BY DEF OnePerSession, PanesHaveOneSession
<1> QED BY <1>1, <1>2, <1>3, TypeCorrect, PTL DEF Spec

-----------------------------------------------------------------------------
(* Metadata files. *)

\* Where files can be removed, they are.
LEMMA FilesRemoved ==
  ASSUME DiskWorks, NEW files, NEW N, RemoveMetadata(files, N)
  PROVE  metadata' = files \ N
BY DEF DiskWorks, RemoveMetadata

\* send_attached_snapshot adds and removes no session.
LEMMA SnapshotDomain ==
  ASSUME NEW c, NEW n, NEW ss, NEW rz, NEW sn, NEW ex,
         ThenSnapshot(c, n, ss, rz, sn, ex)
  PROVE  DOMAIN sessions' = DOMAIN ss
BY DEF ThenSnapshot, Released

\* replace_client neither.
LEMMA FilesReplaced ==
  ASSUME TypeOK, NEW n \in DOMAIN sessions, NEW token, NEW old,
         ReplaceClient(old, n, token)
  PROVE  /\ DOMAIN sessions' = DOMAIN sessions
         /\ metadata' \in {metadata, metadata \cup {n}}
<1>1. \E t : sessions' = [sessions EXCEPT ![n] = t] BY DEF ReplaceClient
<1>2. DOMAIN sessions' = DOMAIN sessions BY <1>1 DEF TypeOK
<1>3. metadata' \in {metadata, metadata \cup {n}} BY DEF ReplaceClient
<1> QED BY <1>2, <1>3

\* detach_client and cleanup_finished_temporary remove the files they have to.
LEMMA FilesCleaned ==
  ASSUME DiskWorks, metadata = DOMAIN sessions, NEW C, DetachAndCleanUp(C)
  PROVE  metadata' = DOMAIN sessions'
<1> DEFINE released == Released(sessions, SessionsOf(C))
           gone == FinishedTemporary(released)
<1>1. DOMAIN released = DOMAIN sessions BY DEF Released
<1>2. sessions' = Without(released, gone) /\ RemoveMetadata(metadata, gone)
  BY DEF DetachAndCleanUp
<1> HIDE DEF released, gone
<1>3. DOMAIN sessions' = DOMAIN sessions \ gone BY <1>1, <1>2 DEF Without, Restrict
<1> QED BY <1>2, <1>3, FilesRemoved

\* Messages on a client's stream keep the directory in step.
LEMMA FilesStream ==
  ASSUME TypeOK, BoundsAssumption, DiskWorks, metadata = DOMAIN sessions, StreamMessages
  PROVE  metadata' = DOMAIN sessions'
<1> SUFFICES ASSUME NEW c \in DOMAIN clients,
                    \/ Reply(c) \/ SendFails(c) \/ ResizeRequest(c)
                    \/ View(c) \/ AdjustRatio(c) \/ Split(c)
                    \/ ClosePane(c) \/ CloseSession(c)
                    \/ \E m \in Name : Rename(c, m)
                    \/ Search(c) \/ Leave(c)
             PROVE  metadata' = DOMAIN sessions'
  BY DEF StreamMessages
<1>1. CASE Reply(c) \/ ResizeRequest(c) \/ Search(c)
  BY <1>1 DEF Reply, ResizeRequest, Search
<1>2. CASE SendFails(c)
  BY <1>2 DEF SendFails, DetachClients, Released
<1>3. CASE View(c) \/ AdjustRatio(c) \/ Split(c) \/ ClosePane(c)
  <2>1. PICK n \in Name : \E ss : Redraws(c, n, ss)
    BY <1>3, Redrawing
  <2>2. PICK ss : Redraws(c, n, ss) BY <2>1
  <2>3. n \in DOMAIN sessions /\ DOMAIN ss = DOMAIN sessions
    BY <2>2 DEF Redraws, OnlyPanes
  <2>4. CASE /\ ThenSnapshot(c, n, ss, resizes, snapshots, exits)
             /\ metadata' \in {metadata, metadata \cup {n}}
    <3>1. DOMAIN sessions' = DOMAIN ss BY <2>4, SnapshotDomain
    <3> QED BY <2>3, <2>4, <3>1
  <2>5. CASE ThenError(ss) BY <2>3, <2>5 DEF ThenError
  <2> QED BY <2>2, <2>4, <2>5 DEF Redraws
<1>4. CASE CloseSession(c)
  BY <1>4 DEF CloseSession, DiskWorks, Without, Restrict
<1>5. ASSUME NEW m \in Name, Rename(c, m) PROVE metadata' = DOMAIN sessions'
  <2>1. PICK n \in Name :
          /\ metadata' = (metadata \ {n}) \cup {m}
          /\ \E rz, sn, ex :
               ThenSnapshot(c, m, Insert(Without(sessions, {n}), m, sessions[n]),
                            rz, sn, ex)
    BY <1>5 DEF Rename, DiskWorks
  <2> DEFINE ss == Insert(Without(sessions, {n}), m, sessions[n])
  <2>2. DOMAIN ss = (DOMAIN sessions \ {n}) \cup {m}
    BY DEF Insert, Without, Restrict
  <2>3. \E rz, sn, ex : ThenSnapshot(c, m, ss, rz, sn, ex) BY <2>1
  <2> HIDE DEF ss
  <2>4. DOMAIN sessions' = DOMAIN ss BY <2>3, SnapshotDomain
  <2> QED BY <2>1, <2>2, <2>4
<1>6. CASE Leave(c)
  BY <1>6, FilesCleaned DEF Leave
<1> QED BY <1>1, <1>2, <1>3, <1>4, <1>5, <1>6

\* Every step does, unless a window-size ioctl ends the daemon.
LEMMA FilesStep ==
  ASSUME TypeOK, BoundsAssumption, DiskWorks, "pty" \notin Faults,
         metadata = DOMAIN sessions, [Next]_vars
  PROVE  metadata' = DOMAIN sessions'
<1>1. CASE UNCHANGED vars
  BY <1>1 DEF vars, tables
<1>2. CASE ShortRequests
  <2>1. CASE Answer BY <2>1 DEF Answer, tables
  <2>2. ASSUME NEW n \in Name, NEW t \in BOOLEAN, Create(n, t)
        PROVE  metadata' = DOMAIN sessions'
    BY <2>2 DEF Create, Insert, DiskWorks
  <2>3. ASSUME NEW n \in Name, Kill(n) PROVE metadata' = DOMAIN sessions'
    BY <2>3, FilesRemoved DEF Kill, Without, Restrict
  <2> QED BY <1>2, <2>1, <2>2, <2>3 DEF ShortRequests
<1>3. CASE Connections
  <2>1. PICK n \in Name, t \in Token : Attach(n, t) \/ Takeover(n, t)
    BY <1>3 DEF Connections
  <2>2. PICK old : n \in DOMAIN sessions /\ ReplaceClient(old, n, t)
    BY <2>1 DEF Attach, Takeover
  <2>3. /\ DOMAIN sessions' = DOMAIN sessions
        /\ metadata' \in {metadata, metadata \cup {n}}
    BY <2>2, FilesReplaced
  <2> QED BY <2>2, <2>3
<1>4. CASE PaneEvents
  <2>1. ASSUME NEW n \in Name, PaneOutput(n) PROVE metadata' = DOMAIN sessions'
    BY <2>1 DEF PaneOutput, Released
  <2>2. ASSUME NEW n \in Name, NEW p \in PaneId, PaneExited(n, p)
        PROVE  metadata' = DOMAIN sessions'
    <3> DEFINE ss == [sessions EXCEPT ![n].exited = @ \cup {p}]
               gone == FinishedTemporary(ss)
    <3>1. sessions' = Without(ss, gone) /\ RemoveMetadata(metadata \cup {n}, gone)
      BY <2>2 DEF PaneExited, DiskWorks
    <3>2. n \in DOMAIN sessions /\ DOMAIN ss = DOMAIN sessions
      BY <2>2 DEF PaneExited, TypeOK
    <3> HIDE DEF ss, gone
    <3>3. DOMAIN sessions' = DOMAIN sessions \ gone
      BY <3>1, <3>2 DEF Without, Restrict
    <3>4. metadata' = (metadata \cup {n}) \ gone BY <3>1, FilesRemoved
    <3> QED BY <3>2, <3>3, <3>4
  <2> QED BY <1>4, <2>1, <2>2 DEF PaneEvents
<1>5. CASE LoopWork
  <2>1. CASE ExpireStaleClients
    BY <2>1, FilesCleaned DEF ExpireStaleClients
  <2>2. ASSUME NEW c \in DOMAIN searches, FinishSearch(c) PROVE metadata' = DOMAIN sessions'
    BY <2>2, SnapshotDomain DEF FinishSearch
  <2>3. ASSUME NEW ready \in SUBSET resizes, ApplyResizes(ready)
        PROVE  metadata' = DOMAIN sessions'
    BY <2>3 DEF ApplyResizes
  <2>4. ASSUME NEW ready \in SUBSET resizes, FlushSnapshots(ready)
        PROVE  metadata' = DOMAIN sessions'
    <3>1. PICK N : sessions' = Released(sessions, N) /\ UNCHANGED metadata
      BY <2>4 DEF FlushSnapshots
    <3> QED BY <3>1 DEF Released
  <2>5. ASSUME NEW c \in DOMAIN clients, SnapshotWritten(c)
        PROVE  metadata' = DOMAIN sessions'
    BY <2>5 DEF SnapshotWritten
  <2> QED BY <1>5, <2>1, <2>2, <2>3, <2>4, <2>5 DEF LoopWork, ResizeFails
<1>6. CASE ReaderThreads
  BY <1>6 DEF ReaderThreads, MessageArrives, LeaseElapses
<1>7. CASE ShutdownSessions
  BY <1>7 DEF ShutdownSessions, Halt, DiskWorks
<1> QED BY <1>1, <1>2, <1>3, <1>4, <1>5, <1>6, <1>7, FilesStream DEF Next

(* The metadata directory lists the sessions that exist, also after a      *)
(* shutdown and with queues that are full; where the ioctl that sets the   *)
(* size of a pty may fail it ends the daemon with its files in place, so   *)
(* that this is excepted.                                                  *)
THEOREM FilesMatch == "pty" \notin Faults => (Spec => []MetadataMatches)
<1> SUFFICES ASSUME "pty" \notin Faults PROVE Spec => []MetadataMatches
  OBVIOUS
<1>1. Init => MetadataMatches
  BY DEF Init, MetadataMatches
<1>2. TypeOK /\ MetadataMatches /\ [Next]_vars => MetadataMatches'
  BY FilesStep, BoundsAssumption DEF MetadataMatches, DiskWorks
<1> QED BY <1>1, <1>2, TypeCorrect, PTL DEF Spec

-----------------------------------------------------------------------------
(* Temporary sessions. *)

\* What is left of sessions that were clean is clean, also when a session is
\* marked attached or is new.
LEMMA LeftFewer ==
  ASSUME NEW ss, FinishedTemporary(ss) = {}, NEW ss2,
         \A n \in DOMAIN ss2 : \/ n \in DOMAIN ss /\ ss2[n] = ss[n]
                               \/ ss2[n].attached
                               \/ ~ss2[n].everAttached
  PROVE  FinishedTemporary(ss2) = {}
BY DEF FinishedTemporary, IsFinished

\* cleanup_finished_temporary leaves none.
LEMMA CleanedLeft ==
  ASSUME NEW ss PROVE FinishedTemporary(Without(ss, FinishedTemporary(ss))) = {}
<1> DEFINE gone == FinishedTemporary(ss)
           left == Without(ss, gone)
<1>1. /\ DOMAIN left = DOMAIN ss \ gone
      /\ \A n \in DOMAIN left : left[n] = ss[n]
  BY DEF Without, Restrict
<1>2. \A n \in DOMAIN ss :
        n \in gone <=> ss[n].temporary /\ ~ss[n].attached /\ IsFinished(ss[n])
  BY DEF FinishedTemporary
<1> HIDE DEF gone, left
<1>3. FinishedTemporary(left) = {}
  BY <1>1, <1>2 DEF FinishedTemporary
<1> QED BY <1>3 DEF left, gone

\* A client's messages leave none: the session they change is attached.
LEMMA LeftStream ==
  ASSUME TypeOK, BoundsAssumption, Faults = {}, Consistent(clients, sessions),
         FinishedTemporary(sessions) = {}, StreamMessages
  PROVE  FinishedTemporary(sessions') = {}
<1> SUFFICES ASSUME NEW c \in DOMAIN clients,
                    \/ Reply(c) \/ SendFails(c) \/ ResizeRequest(c)
                    \/ View(c) \/ AdjustRatio(c) \/ Split(c)
                    \/ ClosePane(c) \/ CloseSession(c)
                    \/ \E m \in Name : Rename(c, m)
                    \/ Search(c) \/ Leave(c)
             PROVE  FinishedTemporary(sessions') = {}
  BY DEF StreamMessages
<1>0. clients[c].session \in DOMAIN sessions /\ sessions[clients[c].session].attached
  BY DEF Consistent
<1>1. CASE Reply(c) \/ ResizeRequest(c) \/ Search(c)
  BY <1>1 DEF Reply, ResizeRequest, Search
<1>2. CASE SendFails(c)
  BY <1>2 DEF SendFails
<1>3. CASE View(c) \/ AdjustRatio(c) \/ Split(c) \/ ClosePane(c)
  <2>1. PICK n \in Name : \E ss : Redraws(c, n, ss)
    BY <1>3, Redrawing
  <2>2. PICK ss : Redraws(c, n, ss) BY <2>1
  <2>3. /\ DOMAIN ss = DOMAIN sessions /\ ss[n].attached
        /\ \A m \in DOMAIN sessions \ {n} : ss[m] = sessions[m]
    BY <1>0, <2>2 DEF Redraws, OnlyPanes
  <2>4. sessions' = ss
    BY <2>2 DEF Redraws, ThenSnapshot, ThenError
  <2>5. FinishedTemporary(ss) = {} BY <2>3, LeftFewer
  <2> QED BY <2>4, <2>5
<1>4. CASE CloseSession(c)
  <2>1. PICK n : sessions' = Without(sessions, {n}) BY <1>4 DEF CloseSession
  <2>2. \A k \in DOMAIN sessions' : k \in DOMAIN sessions /\ sessions'[k] = sessions[k]
    BY <2>1 DEF Without, Restrict
  <2> QED BY <2>2, LeftFewer
<1>5. ASSUME NEW m \in Name, Rename(c, m) PROVE FinishedTemporary(sessions') = {}
  <2>1. PICK n \in Name :
          /\ n = clients[c].session
          /\ sessions' = Insert(Without(sessions, {n}), m, sessions[n])
    BY <1>5 DEF Rename, Streams, ThenSnapshot
  <2>2. \A k \in DOMAIN sessions' :
          \/ k \in DOMAIN sessions /\ sessions'[k] = sessions[k]
          \/ sessions'[k] = sessions[n]
    BY <2>1 DEF Insert, Without, Restrict
  <2> QED BY <1>0, <2>1, <2>2, LeftFewer
<1>6. CASE Leave(c)
  <2>1. \E ss : sessions' = Without(ss, FinishedTemporary(ss))
    BY <1>6 DEF Leave, DetachAndCleanUp
  <2> QED BY <2>1, CleanedLeft
<1> QED BY <1>1, <1>2, <1>3, <1>4, <1>5, <1>6

\* Every step leaves none, without faults.
LEMMA LeftStep ==
  ASSUME TypeOK, BoundsAssumption, Faults = {}, Consistent(clients, sessions),
         FinishedTemporary(sessions) = {}, [Next]_vars
  PROVE  FinishedTemporary(sessions') = {}
<1>1. CASE UNCHANGED sessions
  BY <1>1
<1>2. ASSUME NEW n \in Name, NEW t \in BOOLEAN, Create(n, t)
      PROVE  FinishedTemporary(sessions') = {}
  <2> DEFINE new == [temporary |-> t, attached |-> FALSE, everAttached |-> FALSE,
                     panes |-> {nextPaneId}, exited |-> {}, focused |-> nextPaneId]
  <2>1. sessions' = Insert(sessions, n, new) /\ ~new.everAttached
    BY <1>2 DEF Create
  <2> HIDE DEF new
  <2>2. \A k \in DOMAIN sessions' :
          \/ k \in DOMAIN sessions /\ sessions'[k] = sessions[k]
          \/ sessions'[k] = new
    BY <2>1 DEF Insert
  <2> QED BY <2>1, <2>2, LeftFewer
<1>3. ASSUME NEW n \in Name, Kill(n) PROVE FinishedTemporary(sessions') = {}
  <2>1. \A k \in DOMAIN sessions' : k \in DOMAIN sessions /\ sessions'[k] = sessions[k]
    BY <1>3 DEF Kill, Without, Restrict
  <2> QED BY <2>1, LeftFewer
<1>4. CASE Connections
  <2>1. PICK n \in Name, t \in Token : Attach(n, t) \/ Takeover(n, t)
    BY <1>4 DEF Connections
  <2>2. PICK old : n \in DOMAIN sessions /\ ReplaceClient(old, n, t)
    BY <2>1 DEF Attach, Takeover
  <2> DEFINE r == Restarted(sessions[n])
             marked == [r EXCEPT !.attached = TRUE, !.everAttached = TRUE]
  <2>3. sessions' = [sessions EXCEPT ![n] = marked]
    BY <2>2 DEF ReplaceClient
  <2>4. r \in Session BY <2>2 DEF Restarted, TypeOK, Session
  <2> HIDE DEF r
  <2>5. marked.attached BY <2>4 DEF Session
  <2> HIDE DEF marked
  <2>6. \A k \in DOMAIN sessions' :
          \/ k \in DOMAIN sessions /\ sessions'[k] = sessions[k]
          \/ sessions'[k] = marked
    BY <2>2, <2>3 DEF TypeOK
  <2> QED BY <2>5, <2>6, LeftFewer
<1>5. CASE PaneEvents
  <2>1. ASSUME NEW n \in Name, PaneOutput(n) PROVE UNCHANGED sessions
    BY <2>1 DEF PaneOutput
  <2>2. ASSUME NEW n \in Name, NEW p \in PaneId, PaneExited(n, p)
        PROVE  \E ss : sessions' = Without(ss, FinishedTemporary(ss))
    BY <2>2 DEF PaneExited
  <2> QED BY <1>1, <1>5, <2>1, <2>2, CleanedLeft DEF PaneEvents
<1>6. CASE LoopWork
  <2>1. CASE ExpireStaleClients
    <3>1. \E ss : sessions' = Without(ss, FinishedTemporary(ss))
      BY <2>1 DEF ExpireStaleClients, DetachAndCleanUp
    <3> QED BY <3>1, CleanedLeft
  <2>2. ASSUME NEW c \in DOMAIN searches, FinishSearch(c) PROVE UNCHANGED sessions
    BY <2>2 DEF FinishSearch, ThenSnapshot
  <2>3. ASSUME NEW ready \in SUBSET resizes, ApplyResizes(ready) PROVE UNCHANGED sessions
    BY <2>3 DEF ApplyResizes
  <2>4. ASSUME NEW ready \in SUBSET resizes, FlushSnapshots(ready)
        PROVE  FinishedTemporary(sessions') = {}
    <3>1. sessions' = Released(sessions, SessionsOf({})) BY <2>4 DEF FlushSnapshots
    <3>2. \A n \in DOMAIN sessions' : n \in DOMAIN sessions /\ sessions'[n] = sessions[n]
      BY <3>1 DEF Released, SessionsOf
    <3> QED BY <3>2, LeftFewer
  <2>5. ASSUME NEW c \in DOMAIN clients, SnapshotWritten(c) PROVE UNCHANGED sessions
    BY <2>5 DEF SnapshotWritten
  <2> QED BY <1>1, <1>6, <2>1, <2>2, <2>3, <2>4, <2>5 DEF LoopWork, ResizeFails
<1>7. CASE ReaderThreads
  BY <1>1, <1>7 DEF ReaderThreads, MessageArrives, LeaseElapses
<1>8. CASE ShutdownSessions
  BY <1>8 DEF ShutdownSessions, Halt, FinishedTemporary
<1>9. CASE UNCHANGED vars
  BY <1>1, <1>9 DEF vars, tables
<1>10. CASE ShortRequests
  BY <1>1, <1>2, <1>3, <1>10 DEF ShortRequests, Answer, tables
<1> QED BY <1>4, <1>5, <1>6, <1>7, <1>8, <1>9, <1>10, LeftStream DEF Next

(* Without faults no temporary session outlives both its shells and its    *)
(* last client: whoever comes last, the exit or the client's departure,    *)
(* removes it, for any number of clients and sessions.                     *)
THEOREM TemporaryGone == Faults = {} => (Spec => []FinishedTemporaryIsGone)
<1> SUFFICES ASSUME Faults = {} PROVE Spec => []FinishedTemporaryIsGone
  OBVIOUS
<1> DEFINE Agree == Consistent(clients, sessions)
<1>1. Init => FinishedTemporaryIsGone
  BY DEF Init, FinishedTemporaryIsGone, FinishedTemporary
<1>2. TypeOK /\ Agree /\ FinishedTemporaryIsGone /\ [Next]_vars
        => FinishedTemporaryIsGone'
  BY LeftStep, BoundsAssumption DEF FinishedTemporaryIsGone
<1>3. AttachmentInv => TypeOK /\ Agree
  BY ConsistentIs DEF AttachmentInv, DiskWorks
<1> HIDE DEF Agree
<1> QED BY <1>1, <1>2, <1>3, AttachmentInvariant, PTL DEF Spec


-----------------------------------------------------------------------------
(* What a step does to the table of clients. *)

\* Clients leave, or nothing happens.
ClientsLeave ==
  /\ DOMAIN clients' \subseteq DOMAIN clients
  /\ \A c \in DOMAIN clients' : clients'[c].session = clients[c].session
  /\ nextClientId' \in {nextClientId, nextClientId + 1}

\* A newcomer displaces the holder of n, if there is one.
ClientArrives(n, token, old) ==
  /\ old \in Existing(n)
  /\ \/ \A c \in old : clients[c].token = token \/ clients[c].stale
     \/ Takeover(n, token)
  /\ DOMAIN clients' = (DOMAIN clients \ old) \cup {nextClientId}
  /\ clients'[nextClientId].session = n
  /\ clients'[nextClientId].token = token
  /\ \A c \in DOMAIN clients \ old : clients'[c].session = clients[c].session
  /\ nextClientId' = nextClientId + 1

\* Client c takes its session to a name that is free.
ClientMoves(c, m) ==
  /\ m \notin DOMAIN sessions
  /\ DOMAIN clients' = DOMAIN clients
  /\ clients'[c].session = m
  /\ \A d \in DOMAIN clients \ {c} : clients'[d].session = clients[d].session
  /\ nextClientId' = nextClientId

\* send_attached_snapshot for a client that keeps its session.
LEMMA StaysOrLeaves ==
  ASSUME TypeOK, NEW c \in DOMAIN clients, NEW ss, NEW rz, NEW sn, NEW ex,
         ThenSnapshot(c, clients[c].session, ss, rz, sn, ex),
         UNCHANGED nextClientId
  PROVE  ClientsLeave
<1>1. CASE /\ DOMAIN clients' = DOMAIN clients
           /\ \A d \in DOMAIN clients \ {c} : clients'[d] = clients[d]
           /\ clients'[c].session = clients[c].session
  BY <1>1 DEF ClientsLeave
<1>2. CASE clients' = Without(clients, {c})
  BY <1>2 DEF ClientsLeave, Without, Restrict
<1> QED BY <1>1, <1>2, SnapshotClients

\* replace_client
LEMMA NewcomerArrives ==
  ASSUME TypeOK, IdsIssued, NEW n \in DOMAIN sessions, NEW token, NEW old \in Existing(n),
         ReplaceClient(old, n, token),
         \/ \A c \in old : clients[c].token = token \/ clients[c].stale
         \/ Takeover(n, token)
  PROVE  ClientsLeave \/ ClientArrives(n, token, old)
<1>0. nextClientId' = nextClientId + 1 BY DEF ReplaceClient
<1>1. CASE clients' = Without(clients, old)
  BY <1>0, <1>1 DEF ClientsLeave, Without, Restrict
<1>2. CASE clients' = Installed(old, n, token)
  <2> DEFINE entry == [token |-> token, session |-> n, inFlight |-> TRUE, stale |-> FALSE]
             others == Without(clients, old)
  <2>1. nextClientId \notin DOMAIN clients
    BY DEF IdsIssued, TypeOK, ClientId
  <2>2. entry.session = n /\ entry.token = token
    OBVIOUS
  <2>3. /\ DOMAIN others = DOMAIN clients \ old
        /\ \A c \in DOMAIN clients \ old : others[c] = clients[c]
    BY DEF Without, Restrict
  <2>4. clients' = Insert(others, nextClientId, entry) BY <1>2 DEF Installed
  <2> HIDE DEF entry, others
  <2>5. /\ DOMAIN clients' = (DOMAIN clients \ old) \cup {nextClientId}
        /\ clients'[nextClientId] = entry
        /\ \A c \in DOMAIN clients \ old : clients'[c] = clients[c]
    BY <2>1, <2>3, <2>4 DEF Insert
  <2> QED BY <1>0, <2>2, <2>5 DEF ClientArrives
<1> QED BY <1>1, <1>2 DEF ReplaceClient

\* Messages on a client's stream: only Rename moves it.
LEMMA StreamClients ==
  ASSUME TypeOK, BoundsAssumption, DiskWorks, StreamMessages
  PROVE  ClientsLeave \/ \E c \in DOMAIN clients, m \in Name : ClientMoves(c, m)
<1> SUFFICES ASSUME NEW c \in DOMAIN clients,
                    \/ Reply(c) \/ SendFails(c) \/ ResizeRequest(c)
                    \/ View(c) \/ AdjustRatio(c) \/ Split(c)
                    \/ ClosePane(c) \/ CloseSession(c)
                    \/ \E m \in Name : Rename(c, m)
                    \/ Search(c) \/ Leave(c)
             PROVE  ClientsLeave \/ \E d \in DOMAIN clients, m \in Name : ClientMoves(d, m)
  BY DEF StreamMessages
<1>1. CASE Reply(c) \/ ResizeRequest(c) \/ Search(c)
  BY <1>1 DEF Reply, ResizeRequest, Search, Streams, ClientsLeave
<1>2. CASE SendFails(c)
  BY <1>2 DEF SendFails, DetachClients, ClientsLeave, Without, Restrict
<1>3. CASE View(c) \/ AdjustRatio(c) \/ Split(c) \/ ClosePane(c)
  <2>1. PICK n \in Name : \E ss : Redraws(c, n, ss)
    BY <1>3, Redrawing
  <2>2. PICK ss : Redraws(c, n, ss) BY <2>1
  <2>3. CASE ThenSnapshot(c, n, ss, resizes, snapshots, exits)
    BY <2>2, <2>3, StaysOrLeaves DEF Redraws
  <2>4. CASE ThenError(ss)
    BY <2>2, <2>4 DEF Redraws, ThenError, ClientsLeave
  <2> QED BY <2>2, <2>3, <2>4 DEF Redraws
<1>4. CASE CloseSession(c)
  BY <1>4 DEF CloseSession, Streams, DiskWorks, ClientsLeave, Without, Restrict
<1>5. ASSUME NEW m \in Name, Rename(c, m)
      PROVE  ClientsLeave \/ \E d \in DOMAIN clients : ClientMoves(d, m)
  <2>1. /\ m \notin DOMAIN sessions /\ UNCHANGED nextClientId
        /\ \E ss, rz, sn, ex : ThenSnapshot(c, m, ss, rz, sn, ex)
    BY <1>5 DEF Rename, Free, Streams, DiskWorks
  <2>2. \/ /\ DOMAIN clients' = DOMAIN clients
           /\ \A d \in DOMAIN clients \ {c} : clients'[d] = clients[d]
           /\ clients'[c].session = m
        \/ clients' = Without(clients, {c})
    BY <2>1, SnapshotClients
  <2>3. CASE clients' = Without(clients, {c})
    BY <2>1, <2>3 DEF ClientsLeave, Without, Restrict
  <2>4. CASE clients' # Without(clients, {c})
    <3>1. ClientMoves(c, m) BY <2>1, <2>2, <2>4 DEF ClientMoves
    <3> QED BY <3>1
  <2> QED BY <2>3, <2>4
<1>6. CASE Leave(c)
  BY <1>6 DEF Leave, DetachAndCleanUp, ClientsLeave, Without, Restrict
<1> QED BY <1>1, <1>2, <1>3, <1>4, <1>5, <1>6

\* Every step is one of the three.
LEMMA ClientsStep ==
  ASSUME TypeOK, SearchInv, BoundsAssumption, DiskWorks, [Next]_vars
  PROVE  \/ ClientsLeave
         \/ \E n \in DOMAIN sessions, token \in Token :
              \E old : ClientArrives(n, token, old)
         \/ \E c \in DOMAIN clients, m \in Name : ClientMoves(c, m)
<1>1. CASE UNCHANGED <<clients, nextClientId>>
  BY <1>1 DEF ClientsLeave
<1>2. ASSUME NEW left, Halt(left) PROVE ClientsLeave
  BY <1>2 DEF Halt, ClientsLeave
<1>3. CASE ShortRequests
  BY <1>3 DEF ShortRequests, Answer, Create, Kill, ShortRequest, tables, ClientsLeave
<1>4. CASE Connections
  <2>1. PICK n \in Name, t \in Token : Attach(n, t) \/ Takeover(n, t)
    BY <1>4 DEF Connections
  <2>2. PICK old \in Existing(n) :
          /\ n \in DOMAIN sessions /\ ReplaceClient(old, n, t)
          /\ \/ \A c \in old : clients[c].token = t \/ clients[c].stale
             \/ Takeover(n, t)
    <3>1. CASE Attach(n, t) BY <3>1 DEF Attach
    <3>2. CASE Takeover(n, t)
      <4>1. n \in DOMAIN sessions /\ \E old \in Existing(n) : ReplaceClient(old, n, t)
        BY <3>2 DEF Takeover
      <4> QED BY <3>2, <4>1
    <3> QED BY <2>1, <3>1, <3>2
  <2>3. ClientsLeave \/ ClientArrives(n, t, old)
    BY <2>2, NewcomerArrives DEF SearchInv
  <2> QED BY <2>2, <2>3
<1>5. CASE PaneEvents
  <2>1. ASSUME NEW n \in Name, PaneOutput(n) PROVE ClientsLeave
    BY <2>1 DEF PaneOutput, ClientsLeave, Without, Restrict
  <2>2. ASSUME NEW n \in Name, NEW p \in PaneId, PaneExited(n, p) PROVE ClientsLeave
    BY <1>2, <2>2 DEF PaneExited, ClientsLeave
  <2> QED BY <1>5, <2>1, <2>2 DEF PaneEvents
<1>6. CASE LoopWork
  <2>1. CASE ExpireStaleClients
    BY <2>1 DEF ExpireStaleClients, DetachAndCleanUp, ClientsLeave, Without, Restrict
  <2>2. ASSUME NEW c \in DOMAIN searches, FinishSearch(c) PROVE ClientsLeave
    <3>1. c \in DOMAIN clients BY DEF SearchInv, SearchFollowsHolder
    <3>2. UNCHANGED nextClientId BY <2>2 DEF FinishSearch
    <3>3. CASE UNCHANGED clients BY <3>2, <3>3 DEF ClientsLeave
    <3>4. CASE ThenSnapshot(c, clients[c].session, sessions, resizes, snapshots, exits)
      BY <3>1, <3>2, <3>4, StaysOrLeaves
    <3> QED BY <2>2, <3>3, <3>4 DEF FinishSearch
  <2>3. ASSUME NEW ready \in SUBSET resizes, ApplyResizes(ready) PROVE ClientsLeave
    BY <2>3 DEF ApplyResizes, ClientsLeave
  <2>4. ASSUME NEW ready \in SUBSET resizes, FlushSnapshots(ready) PROVE ClientsLeave
    <3> DEFINE late == {n \in Asked(ready) : HolderBusy(n) \/ n \in resizes \ ready}
               sent == (Asked(ready) \ late) \cap DOMAIN sessions
    <3>0. UNCHANGED nextClientId BY <2>4 DEF FlushSnapshots
    <3>1. PICK failed :
            clients' = [c \in DOMAIN clients \ failed |->
                          IF clients[c].session \in sent
                          THEN [clients[c] EXCEPT !.inFlight = TRUE] ELSE clients[c]]
      BY <2>4 DEF FlushSnapshots
    <3> HIDE DEF late, sent
    <3>2. /\ DOMAIN clients' = DOMAIN clients \ failed
          /\ \A c \in DOMAIN clients' : clients'[c].session = clients[c].session
      BY <3>1 DEF TypeOK, Client
    <3> QED BY <3>0, <3>2 DEF ClientsLeave
  <2>5. CASE ResizeFails BY <1>2, <2>5 DEF ResizeFails
  <2>6. ASSUME NEW c \in DOMAIN clients, SnapshotWritten(c) PROVE ClientsLeave
    <3>1. /\ DOMAIN clients' = DOMAIN clients
          /\ \A d \in DOMAIN clients : clients'[d].session = clients[d].session
      BY <2>6 DEF SnapshotWritten, TypeOK, Client
    <3> QED BY <2>6, <3>1 DEF SnapshotWritten, ClientsLeave
  <2> QED BY <1>6, <2>1, <2>2, <2>3, <2>4, <2>5, <2>6 DEF LoopWork
<1>7. CASE ReaderThreads
  <2>1. PICK c \in DOMAIN clients : MessageArrives(c) \/ LeaseElapses(c)
    BY <1>7 DEF ReaderThreads
  <2>2. /\ DOMAIN clients' = DOMAIN clients
        /\ \A d \in DOMAIN clients : clients'[d].session = clients[d].session
    BY <2>1 DEF MessageArrives, LeaseElapses, TypeOK, Client
  <2> QED BY <2>1, <2>2 DEF MessageArrives, LeaseElapses, ClientsLeave
<1>8. CASE ShutdownSessions
  BY <1>2, <1>8 DEF ShutdownSessions
<1>9. CASE UNCHANGED vars
  BY <1>1, <1>9 DEF vars, tables
<1> QED BY <1>3, <1>4, <1>5, <1>6, <1>7, <1>8, <1>9, StreamClients DEF Next

-----------------------------------------------------------------------------
(* Who loses a session to whom. *)

\* Two different clients hold n before and after a step.
Displaced(n, c, d) ==
  /\ c \in Holders(n) /\ c # d
  /\ d \in DOMAIN clients' /\ clients'[d].session = n

\* Only a newcomer displaces anybody.
LEMMA OnlyNewcomers ==
  ASSUME TypeOK, SearchInv, BoundsAssumption, DiskWorks,
         Consistent(clients, sessions), [Next]_vars,
         NEW n \in Name, NEW c, NEW d, Displaced(n, c, d)
  PROVE  \/ clients'[d].token = clients[c].token
         \/ clients[c].stale
         \/ \E t \in Token : Takeover(n, t)
<1>0. c \in DOMAIN clients /\ clients[c].session = n /\ n \in DOMAIN sessions
  BY DEF Displaced, Holders, Consistent
<1>1. \A e \in DOMAIN clients : clients[e].session = n => e = c
  BY <1>0 DEF Consistent
<1>2. CASE ClientsLeave
  BY <1>1, <1>2 DEF ClientsLeave, Displaced
<1>3. ASSUME NEW m \in DOMAIN sessions, NEW t \in Token, NEW old,
             ClientArrives(m, t, old)
      PROVE  \/ clients'[d].token = clients[c].token
             \/ clients[c].stale
             \/ \E u \in Token : Takeover(n, u)
  <2>1. d = nextClientId
    BY <1>1, <1>3 DEF ClientArrives, Displaced
  <2>2. m = n /\ clients'[d].token = t
    BY <1>3, <2>1 DEF ClientArrives, Displaced
  <2>3. old = {c}
    BY <1>0, <1>1, <1>3, <2>2 DEF ClientArrives, Existing, Holders
  <2> QED BY <1>3, <2>2, <2>3 DEF ClientArrives
<1>4. ASSUME NEW e \in DOMAIN clients, NEW m \in Name, ClientMoves(e, m) PROVE FALSE
  <2>1. CASE d = e
    BY <1>0, <1>4, <2>1 DEF ClientMoves, Displaced
  <2>2. CASE d # e
    BY <1>1, <1>4, <2>2 DEF ClientMoves, Displaced
  <2> QED BY <2>1, <2>2
<1> QED BY <1>2, <1>3, <1>4, ClientsStep

(* A session passes from one client to another in a single step only by    *)
(* Takeover, to the same client process, or when the lease of the first    *)
(* has run out: accept_client admits nobody else, and a rename ends on a   *)
(* name that nobody holds.                                                 *)
THEOREM DisplacementAnnounced == DiskWorks => (Spec => NoSilentDisplacement)
<1> SUFFICES ASSUME DiskWorks PROVE Spec => NoSilentDisplacement
  OBVIOUS
<1> DEFINE Announced ==
      \A n \in Name : \A c \in Holders(n), d \in Holders(n)' :
        c # d => \/ clients'[d].token = clients[c].token
                 \/ clients[c].stale
                 \/ \E t \in Token : Takeover(n, t)
<1>1. AttachmentInv /\ [Next]_vars => [Announced]_vars
  <2> SUFFICES ASSUME AttachmentInv, [Next]_vars,
                      NEW n \in Name, NEW c \in Holders(n), NEW d \in Holders(n)', c # d
               PROVE  \/ clients'[d].token = clients[c].token
                      \/ clients[c].stale
                      \/ \E t \in Token : Takeover(n, t)
    OBVIOUS
  <2>1. TypeOK /\ SearchInv /\ Consistent(clients, sessions)
    BY ConsistentIs DEF AttachmentInv, SearchInv
  <2>2. Displaced(n, c, d) BY DEF Displaced, Holders
  <2> QED BY <2>1, <2>2, OnlyNewcomers, BoundsAssumption
<1> QED BY <1>1, AttachmentInvariant, PTL DEF Spec, NoSilentDisplacement
-----------------------------------------------------------------------------
(* The table of clients as the owners of SessionLock. *)

HoldersIn(cl, n) == {c \in DOMAIN cl : cl[c].session = n}

OwnerOf(cl) ==
  [n \in Name |-> IF HoldersIn(cl, n) = {} THEN 0
                  ELSE CHOOSE c \in HoldersIn(cl, n) : TRUE]

\* No session has two clients.
Unshared(cl) ==
  \A c, d \in DOMAIN cl : cl[c].session = cl[d].session => c = d

LEMMA OwnerNone ==
  ASSUME NEW cl, NEW n \in Name, \A c \in DOMAIN cl : cl[c].session # n
  PROVE  OwnerOf(cl)[n] = 0
BY DEF OwnerOf, HoldersIn

LEMMA OwnerOne ==
  ASSUME NEW cl, Unshared(cl), NEW c \in DOMAIN cl, NEW n \in Name,
         cl[c].session = n
  PROVE  OwnerOf(cl)[n] = c
<1>1. HoldersIn(cl, n) = {c} BY DEF HoldersIn, Unshared
<1>2. (CHOOSE d \in {c} : TRUE) = c OBVIOUS
<1> QED BY <1>1, <1>2 DEF OwnerOf

\* A function on Name is known by its values.
LEMMA OwnerEqual ==
  ASSUME NEW cl, NEW g, g = [n \in Name |-> g[n]],
         \A n \in Name : OwnerOf(cl)[n] = g[n]
  PROVE  OwnerOf(cl) = g
<1>1. OwnerOf(cl) = [n \in Name |-> OwnerOf(cl)[n]] BY DEF OwnerOf
<1> QED BY <1>1

\* An update of such a function.
LEMMA Updated ==
  ASSUME NEW o, DOMAIN o = Name, NEW n \in Name, NEW v
  PROVE  /\ DOMAIN [o EXCEPT ![n] = v] = Name
         /\ [o EXCEPT ![n] = v] = [m \in Name |-> [o EXCEPT ![n] = v][m]]
         /\ \A m \in Name : [o EXCEPT ![n] = v][m] = IF m = n THEN v ELSE o[m]
OBVIOUS

\* Clients that leave release their sessions.
LEMMA LeavingReleases ==
  ASSUME NEW cl, NEW cl2, Unshared(cl), DOMAIN cl2 \subseteq DOMAIN cl,
         \A c \in DOMAIN cl2 : cl2[c].session = cl[c].session
  PROVE  \E N \in SUBSET Name :
           OwnerOf(cl2) = [n \in Name |-> IF n \in N THEN 0 ELSE OwnerOf(cl)[n]]
<1> DEFINE N == {n \in Name : \A c \in DOMAIN cl2 : cl2[c].session # n}
           g == [n \in Name |-> IF n \in N THEN 0 ELSE OwnerOf(cl)[n]]
<1>1. ASSUME NEW n \in Name PROVE OwnerOf(cl2)[n] = g[n]
  <2>1. CASE n \in N
    BY <2>1, OwnerNone
  <2>2. CASE n \notin N
    <3>1. PICK c \in DOMAIN cl2 : cl2[c].session = n BY <2>2
    <3>2. c \in DOMAIN cl /\ cl[c].session = n BY <3>1
    <3>3. Unshared(cl2) BY DEF Unshared
    <3>4. OwnerOf(cl2)[n] = c BY <3>1, <3>3, OwnerOne
    <3>5. OwnerOf(cl)[n] = c BY <3>2, OwnerOne
    <3> QED BY <2>2, <3>4, <3>5
  <2> QED BY <2>1, <2>2
<1>2. g = [n \in Name |-> g[n]] OBVIOUS
<1>3. N \in SUBSET Name OBVIOUS
<1>4. OwnerOf(cl2) = g
  <2> HIDE DEF g
  <2> QED BY <1>1, <1>2, OwnerEqual
<1> QED BY <1>3, <1>4

\* A newcomer acquires the session of the client it displaces.
LEMMA ArrivingAcquires ==
  ASSUME NEW cl, NEW cl2, Unshared(cl), Unshared(cl2), NEW id, NEW n \in Name, NEW old,
         \A c \in old : c \in DOMAIN cl /\ cl[c].session = n,
         DOMAIN cl2 = (DOMAIN cl \ old) \cup {id},
         cl2[id].session = n,
         \A c \in DOMAIN cl \ old : cl2[c].session = cl[c].session,
         id \notin DOMAIN cl
  PROVE  OwnerOf(cl2) = [OwnerOf(cl) EXCEPT ![n] = id]
<1> DEFINE g == [OwnerOf(cl) EXCEPT ![n] = id]
<1>. DOMAIN OwnerOf(cl) = Name BY DEF OwnerOf
<1>0. /\ g = [m \in Name |-> g[m]]
      /\ \A m \in Name : g[m] = IF m = n THEN id ELSE OwnerOf(cl)[m]
  BY Updated
<1> HIDE DEF g
<1>1. ASSUME NEW m \in Name PROVE OwnerOf(cl2)[m] = g[m]
  <2>1. CASE m = n
    BY <1>0, <2>1, OwnerOne
  <2>2. CASE m # n /\ \E c \in DOMAIN cl : cl[c].session = m
    <3>1. PICK c \in DOMAIN cl : cl[c].session = m BY <2>2
    <3>2. c \in DOMAIN cl2 /\ cl2[c].session = m BY <2>2, <3>1
    <3>3. OwnerOf(cl2)[m] = c BY <3>2, OwnerOne
    <3>4. OwnerOf(cl)[m] = c BY <3>1, OwnerOne
    <3> QED BY <1>0, <2>2, <3>3, <3>4
  <2>3. CASE m # n /\ \A c \in DOMAIN cl : cl[c].session # m
    <3>1. \A c \in DOMAIN cl2 : cl2[c].session # m BY <2>3
    <3> QED BY <1>0, <2>3, <3>1, OwnerNone
  <2> QED BY <2>1, <2>2, <2>3
<1>2. OwnerOf(cl2) = g BY <1>0, <1>1, OwnerEqual
<1> QED BY <1>2 DEF g

\* A client that takes its session to a new name moves the ownership.
LEMMA MovingMoves ==
  ASSUME NEW cl, NEW cl2, Unshared(cl), Unshared(cl2),
         NEW c \in DOMAIN cl, NEW n \in Name, NEW m \in Name,
         cl[c].session = n, n # m, \A d \in DOMAIN cl : cl[d].session # m,
         DOMAIN cl2 = DOMAIN cl, cl2[c].session = m,
         \A d \in DOMAIN cl \ {c} : cl2[d].session = cl[d].session
  PROVE  /\ OwnerOf(cl)[m] = 0
         /\ OwnerOf(cl2) = [OwnerOf(cl) EXCEPT ![m] = OwnerOf(cl)[n], ![n] = 0]
<1> DEFINE g == [OwnerOf(cl) EXCEPT ![m] = OwnerOf(cl)[n], ![n] = 0]
<1>0. /\ g = [k \in Name |-> g[k]]
      /\ g[n] = 0 /\ g[m] = OwnerOf(cl)[n]
      /\ \A k \in Name \ {n, m} : g[k] = OwnerOf(cl)[k]
  <2> DEFINE h == [OwnerOf(cl) EXCEPT ![m] = OwnerOf(cl)[n]]
  <2>1. DOMAIN OwnerOf(cl) = Name BY DEF OwnerOf
  <2>2. /\ DOMAIN h = Name
        /\ \A k \in Name : h[k] = IF k = m THEN OwnerOf(cl)[n] ELSE OwnerOf(cl)[k]
    BY <2>1, Updated
  <2>3. g = [h EXCEPT ![n] = 0] OBVIOUS
  <2> HIDE DEF g, h
  <2>4. /\ g = [k \in Name |-> g[k]]
        /\ \A k \in Name : g[k] = IF k = n THEN 0 ELSE h[k]
    BY <2>2, <2>3, Updated
  <2> QED BY <2>2, <2>4
<1> HIDE DEF g
<1>1. ASSUME NEW k \in Name PROVE OwnerOf(cl2)[k] = g[k]
  <2>1. CASE k = m
    <3>1. OwnerOf(cl2)[m] = c BY OwnerOne
    <3>2. OwnerOf(cl)[n] = c BY OwnerOne
    <3> QED BY <1>0, <2>1, <3>1, <3>2
  <2>2. CASE k = n
    <3>1. \A d \in DOMAIN cl2 : cl2[d].session # n BY DEF Unshared
    <3> QED BY <1>0, <2>2, <3>1, OwnerNone
  <2>3. CASE k \notin {n, m} /\ \E d \in DOMAIN cl : cl[d].session = k
    <3>1. PICK d \in DOMAIN cl : cl[d].session = k BY <2>3
    <3>2. d \in DOMAIN cl2 /\ cl2[d].session = k BY <2>3, <3>1
    <3>3. OwnerOf(cl2)[k] = d BY <3>2, OwnerOne
    <3>4. OwnerOf(cl)[k] = d BY <3>1, OwnerOne
    <3> QED BY <1>0, <2>3, <3>3, <3>4
  <2>4. CASE k \notin {n, m} /\ \A d \in DOMAIN cl : cl[d].session # k
    <3>1. \A d \in DOMAIN cl2 : cl2[d].session # k BY <2>4
    <3> QED BY <1>0, <2>4, <3>1, OwnerNone
  <2> QED BY <2>1, <2>2, <2>3, <2>4
<1>2. OwnerOf(cl2) = g BY <1>0, <1>1, OwnerEqual
<1>3. OwnerOf(cl)[m] = 0 BY OwnerNone
<1> QED BY <1>2, <1>3 DEF g

\* What the three kinds of steps do to the owners.
LEMMA OwnersStep ==
  ASSUME AttachmentInv, Unshared(clients'), BoundsAssumption, DiskWorks, [Next]_vars
  PROVE  \/ /\ \E N \in SUBSET Name :
                 OwnerOf(clients')
                   = [n \in Name |-> IF n \in N THEN 0 ELSE OwnerOf(clients)[n]]
            /\ nextClientId' \in {nextClientId, nextClientId + 1}
         \/ /\ \E n \in Name :
                 OwnerOf(clients') = [OwnerOf(clients) EXCEPT ![n] = nextClientId]
            /\ nextClientId' = nextClientId + 1
         \/ /\ \E n, m \in Name :
                 /\ OwnerOf(clients)[m] = 0
                 /\ OwnerOf(clients')
                      = [OwnerOf(clients) EXCEPT ![m] = OwnerOf(clients)[n], ![n] = 0]
            /\ nextClientId' = nextClientId
<1>0. /\ TypeOK /\ SearchInv /\ IdsIssued /\ Consistent(clients, sessions)
      /\ Unshared(clients)
  BY ConsistentIs DEF AttachmentInv, SearchInv, Consistent, Unshared
<1>1. CASE ClientsLeave
  BY <1>0, <1>1, LeavingReleases DEF ClientsLeave
<1>2. ASSUME NEW n \in DOMAIN sessions, NEW token \in Token, NEW old,
             ClientArrives(n, token, old)
      PROVE  /\ n \in Name
             /\ OwnerOf(clients') = [OwnerOf(clients) EXCEPT ![n] = nextClientId]
             /\ nextClientId' = nextClientId + 1
  <2>1. n \in Name BY <1>0 DEF TypeOK
  <2>2. nextClientId \notin DOMAIN clients
    BY <1>0 DEF IdsIssued, TypeOK, ClientId
  <2>3. \A c \in old : c \in DOMAIN clients /\ clients[c].session = n
    BY <1>2 DEF ClientArrives, Existing, Holders
  <2>4. /\ DOMAIN clients' = (DOMAIN clients \ old) \cup {nextClientId}
        /\ clients'[nextClientId].session = n
        /\ \A c \in DOMAIN clients \ old : clients'[c].session = clients[c].session
        /\ nextClientId' = nextClientId + 1
    BY <1>2 DEF ClientArrives
  <2>5. OwnerOf(clients') = [OwnerOf(clients) EXCEPT ![n] = nextClientId]
    BY <1>0, <2>1, <2>2, <2>3, <2>4, ArrivingAcquires
  <2> QED BY <2>1, <2>4, <2>5
<1>3. ASSUME NEW c \in DOMAIN clients, NEW m \in Name, ClientMoves(c, m)
      PROVE  /\ \E n \in Name :
                 /\ OwnerOf(clients)[m] = 0
                 /\ OwnerOf(clients')
                      = [OwnerOf(clients) EXCEPT ![m] = OwnerOf(clients)[n], ![n] = 0]
             /\ nextClientId' = nextClientId
  <2> DEFINE n == clients[c].session
  <2>1. n \in DOMAIN sessions /\ n \in Name BY <1>0 DEF Consistent, TypeOK
  <2>2. n # m /\ \A d \in DOMAIN clients : clients[d].session # m
    BY <1>0, <1>3 DEF Consistent, ClientMoves
  <2> QED BY <1>0, <1>3, <2>1, <2>2, MovingMoves DEF ClientMoves
<1> QED BY <1>0, <1>1, <1>2, <1>3, ClientsStep

\* The owners of the refinement mapping.
Owner == [n \in Name |->
            IF Holders(n) = {} THEN 0 ELSE CHOOSE c \in Holders(n) : TRUE]

LEMMA OwnerIs == Owner = OwnerOf(clients) /\ Owner' = OwnerOf(clients')
BY DEF Owner, OwnerOf, HoldersIn, Holders

LEMMA LockStep ==
  ASSUME AttachmentInv, AttachmentInv', DiskWorks, [Next]_vars
  PROVE  Lock!Next
<1>0. Unshared(clients')
  BY ConsistentIs DEF AttachmentInv, OneHolder, DiskWorks, Unshared
<1>1. CASE /\ \E N \in SUBSET Name :
                Owner' = [n \in Name |-> IF n \in N THEN 0 ELSE Owner[n]]
           /\ nextClientId' \in {nextClientId, nextClientId + 1}
  BY <1>1 DEF Lock!Next, Lock!Release, Owner
<1>2. CASE /\ \E n \in Name : Owner' = [Owner EXCEPT ![n] = nextClientId]
           /\ nextClientId' = nextClientId + 1
  BY <1>2 DEF Lock!Next, Lock!Acquire, Owner
<1>3. CASE /\ \E n, m \in Name :
                /\ Owner[m] = 0
                /\ Owner' = [Owner EXCEPT ![m] = Owner[n], ![n] = 0]
           /\ nextClientId' = nextClientId
  BY <1>3 DEF Lock!Next, Lock!Move, Owner
<1> QED BY <1>0, <1>1, <1>2, <1>3, OwnerIs, OwnersStep, BoundsAssumption

(* The table of clients implements the fenced lock of SessionLock: each    *)
(* step of the daemon releases sessions, lets one connection with a fresh  *)
(* id take one, or moves one to a name that is free.                       *)
THEOREM LockImplemented == DiskWorks => (Spec => ImplementsLock)
<1> SUFFICES ASSUME DiskWorks PROVE Spec => ImplementsLock
  OBVIOUS
<1>1. Init => Lock!Init
  BY DEF Init, Lock!Init, Holders
<1>2. AttachmentInv /\ AttachmentInv' /\ [Next]_vars => [Lock!Next]_(Lock!lock)
  BY LockStep
<1> QED BY <1>1, <1>2, AttachmentInvariant, PTL DEF Spec, ImplementsLock, Lock!Spec

(* A client id that holds no session comes to hold one only in the step    *)
(* that hands it out: what a displaced client's threads still send is      *)
(* never taken for a message of the holder.                                *)
THEOREM OwnersFenced == DiskWorks => (Spec => NoReturn)
<1> SUFFICES ASSUME DiskWorks PROVE Spec => NoReturn
  OBVIOUS
<1> DEFINE Fence ==
      \A n \in Name :
        Owner'[n] # 0 /\ (\A m \in Name : Owner[m] # Owner'[n])
          => Owner'[n] = nextClientId /\ nextClientId' = nextClientId + 1
<1>1. AttachmentInv /\ AttachmentInv' /\ [Next]_vars => Fence
  <2> SUFFICES ASSUME AttachmentInv, AttachmentInv', [Next]_vars PROVE Fence
    OBVIOUS
  <2>0. Unshared(clients')
    BY DEF AttachmentInv, OneHolder, DiskWorks, Unshared
  <2>1. DOMAIN Owner = Name BY DEF Owner
  <2>2. CASE \E N \in SUBSET Name :
               Owner' = [n \in Name |-> IF n \in N THEN 0 ELSE Owner[n]]
    BY <2>2
  <2>3. CASE /\ \E n \in Name : Owner' = [Owner EXCEPT ![n] = nextClientId]
             /\ nextClientId' = nextClientId + 1
    BY <2>1, <2>3
  <2>4. CASE \E n, m \in Name :
               Owner' = [Owner EXCEPT ![m] = Owner[n], ![n] = 0]
    BY <2>1, <2>4
  <2> QED BY <2>0, <2>2, <2>3, <2>4, OwnerIs, OwnersStep, BoundsAssumption
<1> DEFINE o == [n \in Name |->
                   IF Holders(n) = {} THEN 0 ELSE CHOOSE c \in Holders(n) : TRUE]
<1>2. Fence => [\A n \in Name :
                  o'[n] # 0 /\ (\A m \in Name : o[m] # o'[n])
                    => o'[n] = nextClientId /\ nextClientId' = nextClientId + 1]_(Lock!lock)
  BY DEF Owner
<1> QED BY <1>1, <1>2, AttachmentInvariant, PTL DEF Spec, NoReturn, Lock!Fenced
=============================================================================
