----------------------- MODULE SessionRegistry_proofs -----------------------
(***************************************************************************)
(* Proofs about module SessionRegistry, for every set of names and tokens, *)
(* every number of clients and panes and every set of faults: the types of *)
(* the tables, searches that stay with the clients that asked for them,    *)
(* and the inductive invariant that ties the table of clients to the       *)
(* `attached` flags of the sessions.                                       *)
(***************************************************************************)
EXTENDS SessionRegistry, TLAPS

\* A table of sessions, wherever it comes from.
SessionMap(ss) == DOMAIN ss \subseteq Name /\ ss \in [DOMAIN ss -> Session]

\* What is left of a table from which a set of keys is dropped.
LEMMA WithoutIs ==
  ASSUME NEW f, NEW S
  PROVE  /\ DOMAIN Without(f, S) = DOMAIN f \ S
         /\ \A x \in DOMAIN f \ S : Without(f, S)[x] = f[x]
BY DEF Without, Restrict

\* A table after an entry is put in.
LEMMA InsertIs ==
  ASSUME NEW f, NEW k, NEW v
  PROVE  /\ DOMAIN Insert(f, k, v) = DOMAIN f \cup {k}
         /\ Insert(f, k, v)[k] = v
         /\ \A x \in DOMAIN f \ {k} : Insert(f, k, v)[x] = f[x]
BY DEF Insert

\* Dropping keys keeps the types of a table.
LEMMA WithoutMap ==
  ASSUME NEW f, NEW S, NEW D, NEW R, DOMAIN f \subseteq D, f \in [DOMAIN f -> R]
  PROVE  /\ DOMAIN Without(f, S) \subseteq D
         /\ Without(f, S) \in [DOMAIN Without(f, S) -> R]
BY DEF Without, Restrict

\* So does putting an entry in.
LEMMA InsertMap ==
  ASSUME NEW f, NEW D, NEW R, DOMAIN f \subseteq D, f \in [DOMAIN f -> R],
         NEW k \in D, NEW v \in R
  PROVE  /\ DOMAIN Insert(f, k, v) \subseteq D
         /\ Insert(f, k, v) \in [DOMAIN Insert(f, k, v) -> R]
BY DEF Insert

\* Clearing `attached` changes no other field and no other session.
LEMMA ReleasedMap ==
  ASSUME NEW ss, SessionMap(ss), NEW N
  PROVE  /\ SessionMap(Released(ss, N))
         /\ DOMAIN Released(ss, N) = DOMAIN ss
         /\ \A n \in DOMAIN ss :
              Released(ss, N)[n] =
                IF n \in N THEN [ss[n] EXCEPT !.attached = FALSE] ELSE ss[n]
BY DEF SessionMap, Released, Session

\* clear_pending_session keeps the types of the pending tables.
LEMMA ForgetType ==
  ASSUME resizes \subseteq Name, snapshots \subseteq Name,
         exits \subseteq PendingExit, NEW N, ForgetPending(N)
  PROVE  /\ resizes' \subseteq Name /\ snapshots' \subseteq Name
         /\ exits' \subseteq PendingExit
BY DEF ForgetPending

\* detach_client keeps every type.
LEMMA DetachType ==
  ASSUME TypeOK, NEW C, DetachClients(C),
         UNCHANGED <<status, nextClientId, nextPaneId>>
  PROVE  TypeOK'
<1>1. SessionMap(sessions) BY DEF TypeOK, SessionMap
<1>2. /\ DOMAIN sessions' \subseteq Name
      /\ sessions' \in [DOMAIN sessions' -> Session]
  BY <1>1, ReleasedMap DEF DetachClients, SessionMap
<1>3. /\ DOMAIN clients' \subseteq ClientId
      /\ clients' \in [DOMAIN clients' -> Client]
  BY WithoutMap DEF DetachClients, TypeOK
<1>4. /\ DOMAIN searches' \subseteq ClientId
      /\ searches' \in [DOMAIN searches' -> Name]
  BY WithoutMap DEF DetachClients, TypeOK
<1>5. /\ resizes' \subseteq Name /\ snapshots' \subseteq Name
      /\ exits' \subseteq PendingExit
  BY ForgetType DEF DetachClients, TypeOK
<1> QED BY <1>2, <1>3, <1>4, <1>5 DEF TypeOK, DetachClients

\* Whatever files stay behind, they are named after sessions.
LEMMA RemoveMetadataType ==
  ASSUME NEW files, files \subseteq Name, NEW N, RemoveMetadata(files, N)
  PROVE  metadata' \subseteq Name
BY DEF RemoveMetadata

\* detach_client and cleanup_finished_temporary keep every type.
LEMMA CleanUpType ==
  ASSUME TypeOK, NEW C, DetachAndCleanUp(C),
         UNCHANGED <<status, nextClientId, nextPaneId>>
  PROVE  TypeOK'
<1> DEFINE released == Released(sessions, SessionsOf(C))
<1> DEFINE gone == FinishedTemporary(released)
<1>1. SessionMap(released) BY ReleasedMap DEF TypeOK, SessionMap
<1>2. sessions' = Without(released, gone) BY DEF DetachAndCleanUp
<1>3. /\ DOMAIN sessions' \subseteq Name
      /\ sessions' \in [DOMAIN sessions' -> Session]
  <2> HIDE DEF released, gone
  <2> QED BY <1>1, <1>2, WithoutMap DEF SessionMap
<1>4. /\ DOMAIN clients' \subseteq ClientId
      /\ clients' \in [DOMAIN clients' -> Client]
  BY WithoutMap DEF DetachAndCleanUp, TypeOK
<1>5. /\ DOMAIN searches' \subseteq ClientId
      /\ searches' \in [DOMAIN searches' -> Name]
  BY WithoutMap DEF DetachAndCleanUp, TypeOK
<1>6. /\ resizes' \subseteq Name /\ snapshots' \subseteq Name
      /\ exits' \subseteq PendingExit
  BY ForgetType DEF DetachAndCleanUp, TypeOK
<1>7. metadata' \subseteq Name
  BY RemoveMetadataType DEF DetachAndCleanUp, TypeOK
<1> QED BY <1>3, <1>4, <1>5, <1>6, <1>7 DEF TypeOK

\* send_attached_snapshot keeps the types of what a handler hands to it.
LEMMA SnapshotType ==
  ASSUME TypeOK, NEW c, NEW n \in Name,
         NEW ss, SessionMap(ss), NEW rz, rz \subseteq Name,
         NEW sn, sn \subseteq Name, NEW ex, ex \subseteq PendingExit,
         ThenSnapshot(c, n, ss, rz, sn, ex)
  PROVE  /\ DOMAIN sessions' \subseteq Name
         /\ sessions' \in [DOMAIN sessions' -> Session]
         /\ DOMAIN clients' \subseteq ClientId
         /\ clients' \in [DOMAIN clients' -> Client]
         /\ resizes' \subseteq Name /\ snapshots' \subseteq Name
         /\ exits' \subseteq PendingExit
<1>1. CASE /\ clients[c].inFlight
           /\ clients' = [clients EXCEPT ![c].session = n]
           /\ sessions' = ss /\ resizes' = rz /\ exits' = ex
           /\ snapshots' = sn \cup {n}
  BY <1>1 DEF TypeOK, Client, SessionMap
<1>2. CASE /\ ~clients[c].inFlight
           /\ clients' = [clients EXCEPT ![c].session = n, ![c].inFlight = TRUE]
           /\ sessions' = ss /\ resizes' = rz /\ exits' = ex
           /\ snapshots' = sn \ {n}
  BY <1>2 DEF TypeOK, Client, SessionMap
<1>3. CASE /\ clients' = Without(clients, {c})
           /\ sessions' = Released(ss, {n})
           /\ resizes' = rz \ {n} /\ snapshots' = sn \ {n}
           /\ exits' = {e \in ex : e.session # n}
  <2>1. SessionMap(sessions') BY <1>3, ReleasedMap
  <2>2. /\ DOMAIN clients' \subseteq ClientId
        /\ clients' \in [DOMAIN clients' -> Client]
    BY <1>3, WithoutMap DEF TypeOK
  <2> QED BY <1>3, <2>1, <2>2 DEF SessionMap
<1> QED BY <1>1, <1>2, <1>3 DEF ThenSnapshot

\* Empty tables are tables.
LEMMA HaltType == ASSUME TypeOK, NEW left, left \subseteq Name, Halt(left)
                  PROVE  TypeOK'
<1>1. \A S, T : <<>> \in [DOMAIN <<>> -> T] /\ DOMAIN <<>> \subseteq S
  OBVIOUS
<1> QED BY <1>1 DEF Halt, TypeOK

\* Short requests keep every type.
LEMMA ShortRequestsType == ASSUME TypeOK, BoundsAssumption, ShortRequests
                           PROVE  TypeOK'
<1> USE DEF ShortRequest
<1>0. ASSUME ShortRequest PROVE nextClientId' \in 1 .. MaxClients + 1
  BY <1>0 DEF TypeOK, BoundsAssumption
<1>1. CASE Answer
  BY <1>1 DEF Answer, TypeOK, tables, BoundsAssumption
<1>2. ASSUME NEW n \in Name, NEW t \in BOOLEAN, Create(n, t) PROVE TypeOK'
  <2> DEFINE new == [temporary |-> t, attached |-> FALSE, everAttached |-> FALSE,
                     panes |-> {nextPaneId}, exited |-> {}, focused |-> nextPaneId]
  <2>1. new \in Session
    BY <1>2 DEF Create, TypeOK, Session, BoundsAssumption, PaneId
  <2>2. /\ DOMAIN sessions' \subseteq Name
        /\ sessions' \in [DOMAIN sessions' -> Session]
    <3>1. CASE sessions' = Insert(sessions, n, new)
      <4> HIDE DEF new
      <4> QED BY <3>1, <2>1, InsertMap DEF TypeOK
    <3>2. CASE UNCHANGED sessions
      BY <3>2 DEF TypeOK
    <3> QED BY <1>2, <3>1, <3>2 DEF Create
  <2>3. metadata' \subseteq Name
    BY <1>2 DEF Create, TypeOK
  <2>4. nextClientId' \in 1 .. MaxClients + 1 /\ nextPaneId' \in 1 .. MaxPanes + 1
    BY <1>0, <1>2 DEF Create, TypeOK, BoundsAssumption
  <2> QED BY <1>2, <2>2, <2>3, <2>4 DEF Create, TypeOK
<1>3. ASSUME NEW n \in Name, Kill(n) PROVE TypeOK'
  <2>1. /\ DOMAIN sessions' \subseteq Name
        /\ sessions' \in [DOMAIN sessions' -> Session]
    BY <1>3, WithoutMap DEF Kill, TypeOK
  <2>2. /\ resizes' \subseteq Name /\ snapshots' \subseteq Name
        /\ exits' \subseteq PendingExit
    BY <1>3, ForgetType DEF Kill, TypeOK
  <2>3. metadata' \subseteq Name
    BY <1>3, RemoveMetadataType DEF Kill, TypeOK
  <2>4. /\ UNCHANGED <<status, clients, searches, nextPaneId>>
        /\ nextClientId' \in 1 .. MaxClients + 1
    BY <1>0, <1>3 DEF Kill
  <2> QED BY <2>1, <2>2, <2>3, <2>4 DEF TypeOK
<1> QED BY <1>1, <1>2, <1>3 DEF ShortRequests

\* replace_client keeps every type, on each of its outcomes.
LEMMA ReplaceType ==
  ASSUME TypeOK, BoundsAssumption, NEW n \in DOMAIN sessions, NEW token \in Token,
         NEW old, ReplaceClient(old, n, token)
  PROVE  TypeOK'
<1> DEFINE s == sessions[n]
           marked == [Restarted(s) EXCEPT !.attached = TRUE, !.everAttached = TRUE]
           forgotten == IF old = {} THEN {} ELSE {n}
<1>1. n \in Name /\ s \in Session
  BY DEF TypeOK
<1>2. Restarted(s) \in Session /\ marked \in Session
  BY <1>1 DEF Restarted, Session
<1>3. /\ DOMAIN Without(clients, old) \subseteq ClientId
      /\ Without(clients, old) \in [DOMAIN Without(clients, old) -> Client]
      /\ DOMAIN searches' \subseteq ClientId
      /\ searches' \in [DOMAIN searches' -> Name]
  BY WithoutMap DEF TypeOK, ReplaceClient
<1>4. nextClientId \in ClientId /\ nextClientId' \in 1 .. MaxClients + 1
  BY DEF ReplaceClient, TypeOK, ClientId, BoundsAssumption
<1>5. /\ DOMAIN Installed(old, n, token) \subseteq ClientId
      /\ Installed(old, n, token) \in [DOMAIN Installed(old, n, token) -> Client]
  <2> DEFINE entry == [token |-> token, session |-> n,
                       inFlight |-> TRUE, stale |-> FALSE]
             others == Without(clients, old)
  <2>1. entry \in Client
    BY <1>1 DEF Client
  <2>2. Installed(old, n, token) = Insert(others, nextClientId, entry)
    BY DEF Installed
  <2>3. DOMAIN others \subseteq ClientId /\ others \in [DOMAIN others -> Client]
    BY <1>3
  <2>4. nextClientId \in ClientId
    BY <1>4
  <2> HIDE DEF entry, others
  <2>5. /\ DOMAIN Insert(others, nextClientId, entry) \subseteq ClientId
        /\ Insert(others, nextClientId, entry)
             \in [DOMAIN Insert(others, nextClientId, entry) -> Client]
    BY <2>1, <2>3, <2>4, InsertMap
  <2> QED BY <2>2, <2>5
<1>6. ASSUME NEW t \in Session, sessions' = [sessions EXCEPT ![n] = t]
      PROVE  /\ DOMAIN sessions' \subseteq Name
             /\ sessions' \in [DOMAIN sessions' -> Session]
  BY <1>6 DEF TypeOK
<1>7. CASE /\ clients' = Installed(old, n, token)
           /\ sessions' = [sessions EXCEPT ![n] = marked]
           /\ resizes' = resizes \ forgotten
           /\ snapshots' = snapshots \ {n}
           /\ exits' = {e \in exits : e.session \notin forgotten}
           /\ metadata' = metadata \cup {n}
  <2> HIDE DEF marked, forgotten, s
  <2>1. /\ resizes' \subseteq Name /\ snapshots' \subseteq Name
        /\ exits' \subseteq PendingExit /\ metadata' \subseteq Name
    BY <1>1, <1>7 DEF TypeOK
  <2> QED BY <1>2, <1>3, <1>4, <1>5, <1>6, <1>7, <2>1 DEF TypeOK, ReplaceClient
<1>8. CASE /\ clients' = Without(clients, old)
           /\ sessions' = [sessions EXCEPT ![n] = [marked EXCEPT !.attached = FALSE]]
           /\ ForgetPending({n})
           /\ metadata' \in {metadata, metadata \cup {n}}
  <2>1. [marked EXCEPT !.attached = FALSE] \in Session
    <3> HIDE DEF marked
    <3> QED BY <1>2 DEF Session
  <2> HIDE DEF marked, s
  <2>2. /\ resizes' \subseteq Name /\ snapshots' \subseteq Name
        /\ exits' \subseteq PendingExit /\ metadata' \subseteq Name
    BY <1>1, <1>8, ForgetType DEF TypeOK
  <2>3. /\ DOMAIN sessions' \subseteq Name
        /\ sessions' \in [DOMAIN sessions' -> Session]
    BY <1>6, <1>8, <2>1
  <2> QED BY <1>3, <1>4, <1>8, <2>2, <2>3 DEF TypeOK, ReplaceClient
<1>9. CASE /\ clients' = Without(clients, old)
           /\ \E t \in {Restarted(s)} \cup (IF Restarts(s) THEN {s} ELSE {}) :
                sessions' = [sessions EXCEPT ![n] = [t EXCEPT !.attached = FALSE]]
           /\ ForgetPending(forgotten)
           /\ UNCHANGED metadata
  <2>1. PICK t \in {Restarted(s)} \cup (IF Restarts(s) THEN {s} ELSE {}) :
               sessions' = [sessions EXCEPT ![n] = [t EXCEPT !.attached = FALSE]]
    BY <1>9
  <2>2. t \in Session BY <1>1, <1>2
  <2> HIDE DEF s
  <2>3. [t EXCEPT !.attached = FALSE] \in Session BY <2>2 DEF Session
  <2>4. /\ DOMAIN sessions' \subseteq Name
        /\ sessions' \in [DOMAIN sessions' -> Session]
    BY <1>6, <2>1, <2>3
  <2>5. /\ resizes' \subseteq Name /\ snapshots' \subseteq Name
        /\ exits' \subseteq PendingExit /\ metadata' \subseteq Name
    BY <1>9, ForgetType DEF TypeOK
  <2> QED BY <1>3, <1>4, <1>9, <2>4, <2>5 DEF TypeOK, ReplaceClient
<1> QED BY <1>7, <1>8, <1>9 DEF ReplaceClient

\* Attach and Takeover keep every type.
LEMMA ConnectionsType == ASSUME TypeOK, BoundsAssumption, Connections PROVE TypeOK'
BY ReplaceType DEF Connections, Attach, Takeover

\* A handled message names a session and keeps the type of the searches.
LEMMA StreamsType ==
  ASSUME TypeOK, NEW c, NEW n, Streams(c, n)
  PROVE  /\ n \in Name /\ sessions[n] \in Session
         /\ DOMAIN searches' \subseteq ClientId
         /\ searches' \in [DOMAIN searches' -> Name]
         /\ UNCHANGED <<status, nextClientId>>
BY WithoutMap DEF Streams, TypeOK

\* One session changes, and not whether it is attached.
SameAttached(ss) ==
  /\ DOMAIN ss = DOMAIN sessions
  /\ \A m \in DOMAIN sessions : ss[m].attached = sessions[m].attached

\* A session replaced by one that is attached like it.
LEMMA PutMap ==
  ASSUME TypeOK, NEW n \in DOMAIN sessions, NEW t \in Session,
         t.attached = sessions[n].attached
  PROVE  /\ SessionMap([sessions EXCEPT ![n] = t])
         /\ SameAttached([sessions EXCEPT ![n] = t])
BY DEF SessionMap, SameAttached, TypeOK

\* Focusing one of its panes keeps a session's type.
LEMMA FocusMap ==
  ASSUME TypeOK, NEW n \in DOMAIN sessions, NEW p \in sessions[n].panes
  PROVE  /\ SessionMap([sessions EXCEPT ![n].focused = p])
         /\ SameAttached([sessions EXCEPT ![n].focused = p])
<1> DEFINE t == [sessions[n] EXCEPT !.focused = p]
<1>1. t \in Session /\ t.attached = sessions[n].attached
  BY DEF TypeOK, Session
<1>2. [sessions EXCEPT ![n].focused = p] = [sessions EXCEPT ![n] = t]
  BY DEF TypeOK
<1> HIDE DEF t
<1> QED BY <1>1, <1>2, PutMap

\* So does adding a pane ...
LEMMA SplitMap ==
  ASSUME TypeOK, NEW n \in DOMAIN sessions, nextPaneId \in PaneId
  PROVE  LET ss == [sessions EXCEPT ![n].panes = @ \cup {nextPaneId},
                                    ![n].focused = nextPaneId]
         IN SessionMap(ss) /\ SameAttached(ss)
<1> DEFINE t == [sessions[n] EXCEPT !.panes = @ \cup {nextPaneId},
                                    !.focused = nextPaneId]
           ss == [sessions EXCEPT ![n].panes = @ \cup {nextPaneId},
                                  ![n].focused = nextPaneId]
<1>0. sessions[n] \in Session
  BY DEF TypeOK
<1>1. t \in Session /\ t.attached = sessions[n].attached
  BY <1>0 DEF Session
<1>2. ss = [sessions EXCEPT ![n] = t]
  BY DEF TypeOK
<1> HIDE DEF t
<1>3. SessionMap(ss) /\ SameAttached(ss)
  BY <1>1, <1>2, PutMap
<1> QED BY <1>3

\* ... closing the focused one ...
LEMMA CloseMap ==
  ASSUME TypeOK, NEW n \in DOMAIN sessions,
         NEW p \in sessions[n].panes \ {sessions[n].focused}
  PROVE  LET ss == [sessions EXCEPT ![n].panes = @ \ {sessions[n].focused},
                                    ![n].focused = p]
         IN SessionMap(ss) /\ SameAttached(ss)
<1> DEFINE t == [sessions[n] EXCEPT !.panes = @ \ {sessions[n].focused},
                                    !.focused = p]
           ss == [sessions EXCEPT ![n].panes = @ \ {sessions[n].focused},
                                  ![n].focused = p]
<1>0. sessions[n] \in Session
  BY DEF TypeOK
<1>1. t \in Session /\ t.attached = sessions[n].attached
  BY <1>0 DEF Session
<1>2. ss = [sessions EXCEPT ![n] = t]
  BY DEF TypeOK
<1> HIDE DEF t
<1>3. SessionMap(ss) /\ SameAttached(ss)
  BY <1>1, <1>2, PutMap
<1> QED BY <1>3

\* ... and recording an exit.
LEMMA ExitMap ==
  ASSUME TypeOK, NEW n \in DOMAIN sessions, NEW p \in PaneId
  PROVE  /\ SessionMap([sessions EXCEPT ![n].exited = @ \cup {p}])
         /\ SameAttached([sessions EXCEPT ![n].exited = @ \cup {p}])
<1> DEFINE t == [sessions[n] EXCEPT !.exited = @ \cup {p}]
<1>1. t \in Session /\ t.attached = sessions[n].attached
  BY DEF TypeOK, Session
<1>2. [sessions EXCEPT ![n].exited = @ \cup {p}] = [sessions EXCEPT ![n] = t]
  BY DEF TypeOK
<1> HIDE DEF t
<1> QED BY <1>1, <1>2, PutMap

\* Messages on a client's stream keep every type.
LEMMA StreamMessagesType == ASSUME TypeOK, BoundsAssumption, StreamMessages
                            PROVE  TypeOK'
<1>0. SessionMap(sessions) BY DEF TypeOK, SessionMap
<1> SUFFICES ASSUME NEW c \in DOMAIN clients,
                    \/ Reply(c) \/ SendFails(c) \/ ResizeRequest(c)
                    \/ View(c) \/ AdjustRatio(c) \/ Split(c)
                    \/ ClosePane(c) \/ CloseSession(c)
                    \/ \E m \in Name : Rename(c, m)
                    \/ Search(c) \/ Leave(c)
             PROVE  TypeOK'
  BY DEF StreamMessages
<1>1. CASE Reply(c)
  BY <1>1, StreamsType DEF Reply, TypeOK
<1>2. CASE SendFails(c)
  BY <1>2, DetachType DEF SendFails
<1>3. CASE ResizeRequest(c)
  <2>1. clients[c].session \in Name BY DEF TypeOK, Client
  <2>2. /\ DOMAIN searches' \subseteq ClientId
        /\ searches' \in [DOMAIN searches' -> Name]
    BY <1>3, WithoutMap DEF ResizeRequest, TypeOK
  <2>3. resizes' \subseteq Name
    BY <1>3, <2>1 DEF ResizeRequest, TypeOK
  <2> QED BY <1>3, <2>2, <2>3 DEF ResizeRequest, TypeOK
<1>4. CASE View(c)
  <2>0. PICK n \in Name :
          /\ Streams(c, n)
          /\ \E p \in sessions[n].panes :
               ThenSnapshot(c, n, [sessions EXCEPT ![n].focused = p],
                            resizes, snapshots, exits)
    BY <1>4 DEF View
  <2>1. PICK p \in sessions[n].panes :
          /\ Streams(c, n)
          /\ ThenSnapshot(c, n, [sessions EXCEPT ![n].focused = p],
                          resizes, snapshots, exits)
    BY <2>0
  <2>2. SessionMap([sessions EXCEPT ![n].focused = p])
    BY <2>1, FocusMap DEF Streams
  <2>3. UNCHANGED <<metadata, nextPaneId>> BY <1>4 DEF View
  <2> QED BY <2>1, <2>2, <2>3, StreamsType, SnapshotType DEF TypeOK
<1>5. CASE AdjustRatio(c)
  <2>1. PICK n \in Name :
          /\ Streams(c, n)
          /\ metadata' = metadata \cup {n}
          /\ ThenSnapshot(c, n, sessions, resizes, snapshots, exits)
    BY <1>5 DEF AdjustRatio
  <2>2. metadata' \subseteq Name /\ UNCHANGED nextPaneId
    BY <1>5, <2>1 DEF TypeOK, AdjustRatio
  <2> QED BY <1>0, <2>1, <2>2, StreamsType, SnapshotType DEF TypeOK
<1>6. CASE Split(c)
  <2>1. nextPaneId \in PaneId /\ nextPaneId' \in 1 .. MaxPanes + 1
    BY <1>6 DEF Split, TypeOK, PaneId, BoundsAssumption
  <2>2. PICK n \in Name :
          LET ss == [sessions EXCEPT ![n].panes = @ \cup {nextPaneId},
                                     ![n].focused = nextPaneId]
          IN /\ Streams(c, n)
             /\ \/ /\ metadata' = metadata \cup {n}
                   /\ ThenSnapshot(c, n, ss, resizes, snapshots, exits)
                \/ Faults \cap {"pty", "disk"} # {} /\ ThenError(ss)
                \/ ThenError(sessions)
    BY <1>6 DEF Split
  <2> DEFINE ss == [sessions EXCEPT ![n].panes = @ \cup {nextPaneId},
                                    ![n].focused = nextPaneId]
  <2>3. SessionMap(ss)
    BY <2>1, <2>2, SplitMap DEF Streams
  <2> HIDE DEF ss
  <2>4. CASE metadata' = metadata \cup {n}
             /\ ThenSnapshot(c, n, ss, resizes, snapshots, exits)
    <3>1. metadata' \subseteq Name BY <2>4 DEF TypeOK
    <3> QED BY <2>1, <2>2, <2>3, <2>4, <3>1, StreamsType, SnapshotType DEF TypeOK
  <2>5. CASE ThenError(ss) \/ ThenError(sessions)
    BY <1>0, <2>1, <2>2, <2>3, <2>5, StreamsType DEF TypeOK, ThenError, SessionMap
  <2> QED BY <2>2, <2>4, <2>5 DEF ss
<1>7. CASE ClosePane(c)
  <2>0. PICK n \in Name :
          \E p \in sessions[n].panes \ {sessions[n].focused} :
            LET ss == [sessions EXCEPT ![n].panes = @ \ {sessions[n].focused},
                                       ![n].focused = p]
            IN /\ Streams(c, n)
               /\ \/ /\ metadata' = metadata \cup {n}
                     /\ ThenSnapshot(c, n, ss, resizes, snapshots, exits)
                  \/ ThenError(ss)
    BY <1>7 DEF ClosePane
  <2>1. PICK p \in sessions[n].panes \ {sessions[n].focused} :
          LET ss == [sessions EXCEPT ![n].panes = @ \ {sessions[n].focused},
                                     ![n].focused = p]
          IN /\ Streams(c, n)
             /\ \/ /\ metadata' = metadata \cup {n}
                   /\ ThenSnapshot(c, n, ss, resizes, snapshots, exits)
                \/ ThenError(ss)
    BY <2>0
  <2> DEFINE ss == [sessions EXCEPT ![n].panes = @ \ {sessions[n].focused},
                                    ![n].focused = p]
  <2>2. SessionMap(ss)
    BY <2>1, CloseMap DEF Streams
  <2>3. UNCHANGED nextPaneId BY <1>7 DEF ClosePane
  <2> HIDE DEF ss
  <2>4. CASE metadata' = metadata \cup {n}
             /\ ThenSnapshot(c, n, ss, resizes, snapshots, exits)
    <3>1. metadata' \subseteq Name BY <2>4 DEF TypeOK
    <3> QED BY <2>1, <2>2, <2>3, <2>4, <3>1, StreamsType, SnapshotType DEF TypeOK
  <2>5. CASE ThenError(ss)
    BY <2>1, <2>2, <2>3, <2>5, StreamsType DEF TypeOK, ThenError, SessionMap
  <2> QED BY <2>1, <2>4, <2>5 DEF ss
<1>8. CASE CloseSession(c)
  <2>1. PICK n \in Name :
          /\ Streams(c, n)
          /\ sessions' = Without(sessions, {n})
          /\ ForgetPending({n})
          /\ \/ clients' = Without(clients, {c}) /\ metadata' = metadata \ {n}
             \/ UNCHANGED <<clients, metadata>>
    BY <1>8 DEF CloseSession
  <2>2. /\ DOMAIN sessions' \subseteq Name
        /\ sessions' \in [DOMAIN sessions' -> Session]
    BY <2>1, WithoutMap DEF TypeOK
  <2>3. /\ DOMAIN clients' \subseteq ClientId
        /\ clients' \in [DOMAIN clients' -> Client]
        /\ metadata' \subseteq Name
    <3>1. CASE clients' = Without(clients, {c}) /\ metadata' = metadata \ {n}
      BY <3>1, WithoutMap DEF TypeOK
    <3>2. CASE UNCHANGED <<clients, metadata>>
      BY <3>2 DEF TypeOK
    <3> QED BY <2>1, <3>1, <3>2
  <2>4. /\ resizes' \subseteq Name /\ snapshots' \subseteq Name
        /\ exits' \subseteq PendingExit
    BY <2>1, ForgetType DEF TypeOK
  <2>5. UNCHANGED nextPaneId BY <1>8 DEF CloseSession
  <2> QED BY <2>1, <2>2, <2>3, <2>4, <2>5, StreamsType DEF TypeOK
<1>9. ASSUME NEW m \in Name, Rename(c, m) PROVE TypeOK'
  <2>1. PICK n \in Name :
          LET ss == Insert(Without(sessions, {n}), m, sessions[n])
              rz == Moved(resizes, n, m)
              sn == Moved(snapshots, n, m)
              ex == {[e EXCEPT !.session = IF @ = n THEN m ELSE @] : e \in exits}
          IN /\ Streams(c, n)
             /\ \/ /\ metadata' = (metadata \ {n}) \cup {m}
                   /\ ThenSnapshot(c, m, ss, rz, sn, ex)
                \/ /\ clients' = [clients EXCEPT ![c].session = m]
                   /\ sessions' = ss /\ resizes' = rz /\ snapshots' = sn /\ exits' = ex
                   /\ metadata' \in {metadata, metadata \ {n}}
    BY <1>9 DEF Rename, Free
  <2> DEFINE ss == Insert(Without(sessions, {n}), m, sessions[n])
             rz == Moved(resizes, n, m)
             sn == Moved(snapshots, n, m)
             ex == {[e EXCEPT !.session = IF @ = n THEN m ELSE @] : e \in exits}
  <2>2. sessions[n] \in Session BY <2>1, StreamsType
  <2>3. SessionMap(Without(sessions, {n}))
    BY <1>0, WithoutMap DEF SessionMap
  <2>4. SessionMap(ss)
    BY <2>2, <2>3, InsertMap DEF SessionMap
  <2>5. rz \subseteq Name /\ sn \subseteq Name
    BY DEF TypeOK, Moved
  <2>6. ex \subseteq PendingExit
    BY DEF TypeOK, PendingExit
  <2>7. UNCHANGED nextPaneId BY <1>9 DEF Rename, Free
  <2>8. metadata' \subseteq Name BY <2>1 DEF TypeOK
  <2> HIDE DEF ss, rz, sn, ex
  <2>9. CASE ThenSnapshot(c, m, ss, rz, sn, ex)
    BY <2>1, <2>4, <2>5, <2>6, <2>7, <2>8, <2>9, StreamsType, SnapshotType DEF TypeOK
  <2>10. CASE /\ clients' = [clients EXCEPT ![c].session = m]
              /\ sessions' = ss /\ resizes' = rz /\ snapshots' = sn /\ exits' = ex
    <3>1. /\ DOMAIN clients' \subseteq ClientId
          /\ clients' \in [DOMAIN clients' -> Client]
      BY <2>10 DEF TypeOK, Client
    <3> QED BY <2>1, <2>4, <2>5, <2>6, <2>7, <2>8, <2>10, <3>1, StreamsType
            DEF TypeOK, SessionMap
  <2> QED BY <2>1, <2>9, <2>10 DEF ss, rz, sn, ex
<1>10. CASE Search(c)
  <2>1. clients[c].session \in Name /\ c \in ClientId BY DEF TypeOK, Client
  <2>2. /\ DOMAIN searches' \subseteq ClientId
        /\ searches' \in [DOMAIN searches' -> Name]
    BY <1>10, <2>1, InsertMap DEF Search, TypeOK
  <2> QED BY <1>10, <2>2 DEF Search, TypeOK
<1>11. CASE Leave(c)
  BY <1>11, CleanUpType DEF Leave
<1> QED BY <1>1, <1>2, <1>3, <1>4, <1>5, <1>6, <1>7, <1>8, <1>9, <1>10, <1>11

\* Pane events keep every type.
LEMMA PaneEventsType == ASSUME TypeOK, PaneEvents PROVE TypeOK'
<1>0. SessionMap(sessions) BY DEF TypeOK, SessionMap
<1>1. ASSUME NEW n \in Name, PaneOutput(n) PROVE TypeOK'
  <2>1. CASE UNCHANGED <<sessions, clients, searches, resizes, exits>>
    BY <1>1, <2>1 DEF PaneOutput, TypeOK
  <2>2. CASE /\ \E c \in Holders(n) :
                  clients' = Without(clients, {c}) /\ searches' = Without(searches, {c})
             /\ sessions' = Released(sessions, {n})
             /\ resizes' = resizes \ {n}
             /\ exits' = {e \in exits : e.session # n}
    <3>1. /\ DOMAIN clients' \subseteq ClientId
          /\ clients' \in [DOMAIN clients' -> Client]
          /\ DOMAIN searches' \subseteq ClientId
          /\ searches' \in [DOMAIN searches' -> Name]
      <4>1. PICK c : clients' = Without(clients, {c}) /\ searches' = Without(searches, {c})
        BY <2>2
      <4> QED BY <4>1, WithoutMap DEF TypeOK
    <3>2. SessionMap(sessions') BY <1>0, <2>2, ReleasedMap
    <3> QED BY <1>1, <2>2, <3>1, <3>2 DEF PaneOutput, TypeOK, SessionMap
  <2> QED BY <1>1, <2>1, <2>2 DEF PaneOutput
<1>2. ASSUME NEW n \in Name, NEW p \in PaneId, PaneExited(n, p) PROVE TypeOK'
  <2> DEFINE ss == [sessions EXCEPT ![n].exited = @ \cup {p}]
             gone == FinishedTemporary(ss)
             report == [session |-> n, pane |-> p, finished |-> IsFinished(ss[n])]
  <2>1. n \in DOMAIN sessions /\ sessions[n] \in Session
    BY <1>2 DEF PaneExited, TypeOK
  <2>2. SessionMap(ss)
    BY <2>1, ExitMap
  <2>3. report \in PendingExit
    BY DEF PendingExit, IsFinished
  <2>4. CASE Halt(metadata)
    BY <2>4, HaltType DEF TypeOK
  <2>5. CASE /\ sessions' = Without(ss, gone)
             /\ resizes' = resizes \ gone
             /\ snapshots' = snapshots \ gone
             /\ exits' = {e \in exits : e.session \notin gone}
                           \cup (IF sessions[n].attached THEN {report} ELSE {})
             /\ RemoveMetadata(metadata \cup {n}, gone)
             /\ UNCHANGED <<status, clients, searches, nextClientId, nextPaneId>>
    <3> HIDE DEF ss, gone, report
    <3>1. SessionMap(sessions') BY <2>2, <2>5, WithoutMap DEF SessionMap
    <3>2. metadata' \subseteq Name
      BY <2>5, RemoveMetadataType DEF TypeOK
    <3>3. exits' \subseteq PendingExit
      BY <2>3, <2>5 DEF TypeOK
    <3> QED BY <2>5, <3>1, <3>2, <3>3 DEF TypeOK, SessionMap
  <2> QED BY <1>2, <2>4, <2>5 DEF PaneExited
<1> QED BY <1>1, <1>2 DEF PaneEvents

\* The periodic work of the loop keeps every type.
LEMMA LoopWorkType == ASSUME TypeOK, LoopWork PROVE TypeOK'
<1>0. SessionMap(sessions) BY DEF TypeOK, SessionMap
<1>1. CASE ExpireStaleClients
  BY <1>1, CleanUpType DEF ExpireStaleClients
<1>2. ASSUME NEW c \in DOMAIN searches, FinishSearch(c) PROVE TypeOK'
  <2>1. /\ DOMAIN searches' \subseteq ClientId
        /\ searches' \in [DOMAIN searches' -> Name]
    BY <1>2, WithoutMap DEF FinishSearch, TypeOK
  <2>2. CASE /\ clients[c].session \in DOMAIN sessions
             /\ ThenSnapshot(c, clients[c].session, sessions, resizes, snapshots, exits)
    <3>1. clients[c].session \in Name BY <2>2 DEF TypeOK
    <3> QED BY <1>0, <1>2, <2>1, <2>2, <3>1, SnapshotType DEF FinishSearch, TypeOK
  <2>3. CASE UNCHANGED <<sessions, clients, resizes, snapshots, exits>>
    BY <1>2, <2>1, <2>3 DEF FinishSearch, TypeOK
  <2> QED BY <1>2, <2>2, <2>3 DEF FinishSearch
<1>3. ASSUME NEW ready \in SUBSET resizes, ApplyResizes(ready) PROVE TypeOK'
  BY <1>3 DEF ApplyResizes, Asked, TypeOK
<1>4. ASSUME NEW ready \in SUBSET resizes, FlushSnapshots(ready) PROVE TypeOK'
  <2> DEFINE waiting == resizes \ ready
             deferred == {n \in Asked(ready) : HolderBusy(n) \/ n \in waiting}
             sent == (Asked(ready) \ deferred) \cap DOMAIN sessions
             HeldBack(e) == HolderBusy(e.session) \/ e.session \in waiting \cup deferred
  <2>1. PICK failed :
          /\ clients' = [c \in DOMAIN clients \ failed |->
                           IF clients[c].session \in sent
                           THEN [clients[c] EXCEPT !.inFlight = TRUE] ELSE clients[c]]
          /\ searches' = Without(searches, failed)
          /\ sessions' = Released(sessions, SessionsOf(failed))
          /\ resizes' = waiting \ SessionsOf(failed)
          /\ snapshots' = deferred \ SessionsOf(failed)
          /\ exits' = {e \in exits : /\ Holders(e.session) \ failed # {}
                                     /\ HeldBack(e)}
    BY <1>4 DEF FlushSnapshots
  <2>2. waiting \subseteq Name /\ deferred \subseteq Name
    BY DEF TypeOK, Asked
  <2> HIDE DEF waiting, deferred, sent, HeldBack
  <2>3. /\ DOMAIN clients' \subseteq ClientId
        /\ clients' \in [DOMAIN clients' -> Client]
    BY <2>1 DEF TypeOK, Client
  <2>4. SessionMap(sessions') BY <1>0, <2>1, ReleasedMap
  <2>5. /\ DOMAIN searches' \subseteq ClientId
        /\ searches' \in [DOMAIN searches' -> Name]
    BY <2>1, WithoutMap DEF TypeOK
  <2>6. UNCHANGED <<status, metadata, nextClientId, nextPaneId>>
    BY <1>4 DEF FlushSnapshots
  <2> QED BY <2>1, <2>2, <2>3, <2>4, <2>5, <2>6 DEF TypeOK, SessionMap
<1>5. CASE ResizeFails
  BY <1>5, HaltType DEF ResizeFails, TypeOK
<1>6. ASSUME NEW c \in DOMAIN clients, SnapshotWritten(c) PROVE TypeOK'
  BY <1>6 DEF SnapshotWritten, TypeOK, Client
<1> QED BY <1>1, <1>2, <1>3, <1>4, <1>5, <1>6 DEF LoopWork

\* So do the leases and the end of the process.
LEMMA RestType == ASSUME TypeOK, ReaderThreads \/ ShutdownSessions PROVE TypeOK'
<1>1. ASSUME NEW c \in DOMAIN clients, MessageArrives(c) \/ LeaseElapses(c)
      PROVE  TypeOK'
  BY <1>1 DEF MessageArrives, LeaseElapses, TypeOK, Client
<1>2. CASE ShutdownSessions
  <2>1. PICK left : left \subseteq Name /\ Halt(left)
    BY <1>2 DEF ShutdownSessions, TypeOK
  <2> QED BY <2>1, HaltType
<1> QED BY <1>1, <1>2 DEF ReaderThreads

(* Every reachable state is well typed, for any names, tokens, bounds and  *)
(* faults: the handlers of src/daemon.rs keep the shape of their tables.   *)
THEOREM TypeCorrect == Spec => []TypeOK
<1>1. Init => TypeOK
  <2>1. \A S, T : <<>> \in [DOMAIN <<>> -> T] /\ DOMAIN <<>> \subseteq S
    OBVIOUS
  <2> QED BY <2>1, BoundsAssumption DEF Init, TypeOK
<1>2. TypeOK /\ [Next]_vars => TypeOK'
  <2> SUFFICES ASSUME TypeOK, [Next]_vars PROVE TypeOK'
    OBVIOUS
  <2>1. CASE UNCHANGED vars
    BY <2>1 DEF vars, tables, TypeOK
  <2> QED BY <2>1, BoundsAssumption, ShortRequestsType, ConnectionsType,
             StreamMessagesType, PaneEventsType, LoopWorkType, RestType DEF Next
<1> QED BY <1>1, <1>2, PTL DEF Spec

-----------------------------------------------------------------------------
(* Searches and client ids. *)

\* send_attached_snapshot moves one client to a session, or loses it.
LEMMA SnapshotClients ==
  ASSUME TypeOK, NEW c, NEW n, NEW ss, NEW rz, NEW sn, NEW ex,
         ThenSnapshot(c, n, ss, rz, sn, ex)
  PROVE  \/ /\ DOMAIN clients' = DOMAIN clients
            /\ \A d \in DOMAIN clients \ {c} : clients'[d] = clients[d]
            /\ c \in DOMAIN clients => clients'[c].session = n
         \/ clients' = Without(clients, {c})
BY DEF ThenSnapshot, TypeOK, Client

\* What keeps searches with their clients.
SearchInv == IdsIssued /\ SearchFollowsHolder

\* Searches follow when clients are dropped with their searches.
LEMMA SearchDropped ==
  ASSUME TypeOK, SearchInv, NEW C, clients' = Without(clients, C),
         searches' = Without(searches, C),
         nextClientId' \in {nextClientId, nextClientId + 1}
  PROVE  SearchInv'
<1>1. \A c \in DOMAIN clients : c \in Nat BY DEF TypeOK, ClientId
<1>2. /\ DOMAIN clients' = DOMAIN clients \ C
      /\ DOMAIN searches' = DOMAIN searches \ C
      /\ \A c \in DOMAIN clients' : clients'[c] = clients[c]
      /\ \A c \in DOMAIN searches' : searches'[c] = searches[c]
  BY DEF Without, Restrict
<1>3. IdsIssued'
  BY <1>1, <1>2 DEF SearchInv, IdsIssued, TypeOK
<1>4. SearchFollowsHolder'
  BY <1>2 DEF SearchInv, SearchFollowsHolder
<1> QED BY <1>3, <1>4 DEF SearchInv

\* A client whose search is cancelled may move to another session.
LEMMA SearchCancelled ==
  ASSUME TypeOK, SearchInv, NEW c, searches' = Without(searches, {c}),
         DOMAIN clients' = DOMAIN clients,
         \A d \in DOMAIN clients \ {c} : clients'[d].session = clients[d].session,
         UNCHANGED nextClientId
  PROVE  SearchInv'
<1>1. /\ DOMAIN searches' = DOMAIN searches \ {c}
      /\ \A d \in DOMAIN searches' : searches'[d] = searches[d]
  BY DEF Without, Restrict
<1> QED BY <1>1 DEF SearchInv, IdsIssued, SearchFollowsHolder

\* Searches follow when no client moves.
LEMMA SearchKept ==
  ASSUME SearchInv, UNCHANGED <<searches, nextClientId>>,
         DOMAIN clients' = DOMAIN clients,
         \A d \in DOMAIN clients : clients'[d].session = clients[d].session
  PROVE  SearchInv'
BY DEF SearchInv, IdsIssued, SearchFollowsHolder

\* send_attached_snapshot after the client's search is cancelled.
LEMMA SearchSnapshot ==
  ASSUME TypeOK, SearchInv, NEW c, NEW n, NEW ss, NEW rz, NEW sn, NEW ex,
         ThenSnapshot(c, n, ss, rz, sn, ex),
         searches' = Without(searches, {c}), UNCHANGED nextClientId
  PROVE  SearchInv'
BY SnapshotClients, SearchDropped, SearchCancelled

\* No client, no search.
LEMMA SearchHalt ==
  ASSUME TypeOK, NEW left, Halt(left) PROVE SearchInv'
<1>1. DOMAIN clients' = {} /\ DOMAIN searches' = {}
  BY DEF Halt
<1> QED BY <1>1 DEF SearchInv, IdsIssued, SearchFollowsHolder

\* The displaced client's search goes with it, the newcomer has none.
LEMMA SearchReplace ==
  ASSUME TypeOK, SearchInv, NEW n, NEW token, NEW old, ReplaceClient(old, n, token)
  PROVE  SearchInv'
<1>1. CASE clients' = Without(clients, old)
  BY <1>1, SearchDropped DEF ReplaceClient
<1>2. CASE clients' = Installed(old, n, token)
  <2> DEFINE entry == [token |-> token, session |-> n,
                       inFlight |-> TRUE, stale |-> FALSE]
             others == Without(clients, old)
  <2>1. clients' = Insert(others, nextClientId, entry)
    BY <1>2 DEF Installed
  <2>2. /\ DOMAIN others = DOMAIN clients \ old
        /\ \A c \in DOMAIN others : others[c] = clients[c]
        /\ DOMAIN searches' = DOMAIN searches \ old
        /\ \A c \in DOMAIN searches' : searches'[c] = searches[c]
    BY DEF ReplaceClient, Without, Restrict
  <2>3. nextClientId \in Nat /\ nextClientId' = nextClientId + 1
        /\ \A c \in DOMAIN clients : c \in Nat /\ c < nextClientId
    BY DEF TypeOK, ReplaceClient, SearchInv, IdsIssued, ClientId
  <2> HIDE DEF entry, others
  <2>4. /\ DOMAIN clients' = DOMAIN others \cup {nextClientId}
        /\ \A c \in DOMAIN others \ {nextClientId} : clients'[c] = others[c]
    BY <2>1 DEF Insert
  <2>5. IdsIssued'
    BY <2>2, <2>3, <2>4 DEF IdsIssued
  <2>6. SearchFollowsHolder'
    BY <2>2, <2>3, <2>4 DEF SearchInv, SearchFollowsHolder
  <2> QED BY <2>5, <2>6 DEF SearchInv
<1> QED BY <1>1, <1>2 DEF ReplaceClient

\* Messages on a client's stream keep searches with their clients.
LEMMA SearchStream ==
  ASSUME TypeOK, SearchInv, StreamMessages PROVE SearchInv'
<1> SUFFICES ASSUME NEW c \in DOMAIN clients,
                    \/ Reply(c) \/ SendFails(c) \/ ResizeRequest(c)
                    \/ View(c) \/ AdjustRatio(c) \/ Split(c)
                    \/ ClosePane(c) \/ CloseSession(c)
                    \/ \E m \in Name : Rename(c, m)
                    \/ Search(c) \/ Leave(c)
             PROVE  SearchInv'
  BY DEF StreamMessages
<1>1. CASE Reply(c)
  BY <1>1, SearchCancelled DEF Reply, Streams
<1>2. CASE SendFails(c)
  BY <1>2, SearchDropped DEF SendFails, DetachClients
<1>3. CASE ResizeRequest(c)
  BY <1>3, SearchCancelled DEF ResizeRequest
<1>4. CASE View(c)
  BY <1>4, SearchSnapshot DEF View, Streams
<1>5. CASE AdjustRatio(c)
  BY <1>5, SearchSnapshot DEF AdjustRatio, Streams
<1>6. CASE Split(c)
  BY <1>6, SearchSnapshot, SearchCancelled DEF Split, Streams, ThenError
<1>7. CASE ClosePane(c)
  BY <1>7, SearchSnapshot, SearchCancelled DEF ClosePane, Streams, ThenError
<1>8. CASE CloseSession(c)
  BY <1>8, SearchDropped, SearchCancelled DEF CloseSession, Streams
<1>9. ASSUME NEW m \in Name, Rename(c, m) PROVE SearchInv'
  <2>1. searches' = Without(searches, {c}) /\ UNCHANGED nextClientId
    BY <1>9 DEF Rename, Free, Streams
  <2>2. CASE \E n, ss, rz, sn, ex : ThenSnapshot(c, n, ss, rz, sn, ex)
    BY <2>1, <2>2, SearchSnapshot
  <2>3. CASE clients' = [clients EXCEPT ![c].session = m]
    <3>1. /\ DOMAIN clients' = DOMAIN clients
          /\ \A d \in DOMAIN clients \ {c} : clients'[d].session = clients[d].session
      BY <2>3 DEF TypeOK
    <3> QED BY <2>1, <3>1, SearchCancelled
  <2> QED BY <1>9, <2>2, <2>3 DEF Rename, Free
<1>10. CASE Search(c)
  <2>1. /\ DOMAIN searches' = DOMAIN searches \cup {c}
        /\ searches'[c] = clients[c].session
        /\ \A d \in DOMAIN searches \ {c} : searches'[d] = searches[d]
    BY <1>10 DEF Search, Insert
  <2>2. UNCHANGED <<clients, nextClientId>> BY <1>10 DEF Search
  <2> QED BY <2>1, <2>2 DEF SearchInv, IdsIssued, SearchFollowsHolder
<1>11. CASE Leave(c)
  BY <1>11, SearchDropped DEF Leave, DetachAndCleanUp
<1> QED BY <1>1, <1>2, <1>3, <1>4, <1>5, <1>6, <1>7, <1>8, <1>9, <1>10, <1>11

\* Every step does.
LEMMA SearchStep ==
  ASSUME TypeOK, SearchInv, [Next]_vars PROVE SearchInv'
<1>1. CASE UNCHANGED vars
  BY <1>1, SearchKept DEF vars, tables
<1>2. CASE ShortRequests
  <2>1. UNCHANGED <<clients, searches>> /\ nextClientId' = nextClientId + 1
    BY <1>2 DEF ShortRequests, Answer, Create, Kill, ShortRequest,
                tables
  <2>2. \A c \in DOMAIN clients : c \in Nat
    BY DEF TypeOK, ClientId
  <2> QED BY <2>1, <2>2 DEF SearchInv, IdsIssued, SearchFollowsHolder, TypeOK
<1>3. CASE Connections
  BY <1>3, SearchReplace DEF Connections, Attach, Takeover
<1>4. CASE StreamMessages
  BY <1>4, SearchStream
<1>5. CASE PaneEvents
  <2>1. ASSUME NEW n \in Name, PaneOutput(n) PROVE SearchInv'
    BY <2>1, SearchKept, SearchDropped DEF PaneOutput
  <2>2. ASSUME NEW n \in Name, NEW p \in PaneId, PaneExited(n, p) PROVE SearchInv'
    BY <2>2, SearchKept, SearchHalt DEF PaneExited
  <2> QED BY <1>5, <2>1, <2>2 DEF PaneEvents
<1>6. CASE LoopWork
  <2>1. CASE ExpireStaleClients
    BY <2>1, SearchDropped DEF ExpireStaleClients, DetachAndCleanUp
  <2>2. ASSUME NEW c \in DOMAIN searches, FinishSearch(c) PROVE SearchInv'
    BY <2>2, SearchSnapshot, SearchCancelled DEF FinishSearch
  <2>3. ASSUME NEW ready \in SUBSET resizes, ApplyResizes(ready) PROVE SearchInv'
    BY <2>3, SearchKept DEF ApplyResizes
  <2>4. ASSUME NEW ready \in SUBSET resizes, FlushSnapshots(ready) PROVE SearchInv'
    <3>1. PICK failed, sent :
            /\ clients' = [c \in DOMAIN clients \ failed |->
                             IF clients[c].session \in sent
                             THEN [clients[c] EXCEPT !.inFlight = TRUE] ELSE clients[c]]
            /\ searches' = Without(searches, failed)
            /\ UNCHANGED nextClientId
      BY <2>4 DEF FlushSnapshots
    <3>2. /\ DOMAIN clients' = DOMAIN clients \ failed
          /\ \A c \in DOMAIN clients' : clients'[c].session = clients[c].session
      BY <3>1 DEF TypeOK, Client
    <3>3. /\ DOMAIN searches' = DOMAIN searches \ failed
          /\ \A c \in DOMAIN searches' : searches'[c] = searches[c]
      BY <3>1 DEF Without, Restrict
    <3> QED BY <3>1, <3>2, <3>3 DEF SearchInv, IdsIssued, SearchFollowsHolder
  <2>5. CASE ResizeFails
    BY <2>5, SearchHalt DEF ResizeFails
  <2>6. ASSUME NEW c \in DOMAIN clients, SnapshotWritten(c) PROVE SearchInv'
    <3>1. /\ DOMAIN clients' = DOMAIN clients
          /\ \A d \in DOMAIN clients : clients'[d].session = clients[d].session
      BY <2>6 DEF SnapshotWritten, TypeOK, Client
    <3> QED BY <2>6, <3>1, SearchKept DEF SnapshotWritten
  <2> QED BY <1>6, <2>1, <2>2, <2>3, <2>4, <2>5, <2>6 DEF LoopWork
<1>7. CASE ReaderThreads
  <2>1. ASSUME NEW c \in DOMAIN clients, MessageArrives(c) \/ LeaseElapses(c)
        PROVE  SearchInv'
    <3>1. /\ DOMAIN clients' = DOMAIN clients
          /\ \A d \in DOMAIN clients : clients'[d].session = clients[d].session
      BY <2>1 DEF MessageArrives, LeaseElapses, TypeOK, Client
    <3> QED BY <2>1, <3>1, SearchKept DEF MessageArrives, LeaseElapses
  <2> QED BY <1>7, <2>1 DEF ReaderThreads
<1>8. CASE ShutdownSessions
  BY <1>8, SearchHalt DEF ShutdownSessions
<1> QED BY <1>1, <1>2, <1>3, <1>4, <1>5, <1>6, <1>7, <1>8 DEF Next

(* A search belongs to a connected client and scans the session that       *)
(* client holds, across renames, takeovers and expiries.                   *)
THEOREM SearchesFollow == Spec => []SearchFollowsHolder
<1>1. Init => SearchInv
  BY DEF Init, SearchInv, IdsIssued, SearchFollowsHolder
<1>2. TypeOK /\ TypeOK' /\ SearchInv /\ [Next]_vars => SearchInv'
  BY SearchStep
<1>3. SearchInv => SearchFollowsHolder
  BY DEF SearchInv
<1> QED BY <1>1, <1>2, <1>3, TypeCorrect, PTL DEF Spec

-----------------------------------------------------------------------------
(* Attachment: the client table against the flags of the sessions. *)

\* Every client holds a live, attached session, every attached session has one
\* client.
Consistent(cl, ss) ==
  /\ \A c \in DOMAIN cl : /\ cl[c].session \in DOMAIN ss
                          /\ ss[cl[c].session].attached
  /\ \A n \in DOMAIN ss :
       ss[n].attached => \E c \in DOMAIN cl : cl[c].session = n
  /\ \A c, d \in DOMAIN cl : cl[c].session = cl[d].session => c = d

\* The two attachment properties as one formula over the tables.
LEMMA ConsistentIs ==
  ASSUME DiskWorks
  PROVE  HoldersAreLive /\ OneHolder <=> Consistent(clients, sessions)
BY DEF HoldersAreLive, OneHolder, Consistent, Holders

\* Clients leave and their sessions are marked free.
LEMMA ConsistentReleased ==
  ASSUME NEW cl, NEW ss, Consistent(cl, ss), SessionMap(ss), NEW C,
         NEW N, \A c \in DOMAIN cl : cl[c].session \in N <=> c \in C
  PROVE  Consistent(Without(cl, C), Released(ss, N))
<1> DEFINE cl2 == Without(cl, C)
           ss2 == Released(ss, N)
<1>1. /\ DOMAIN cl2 = DOMAIN cl \ C
      /\ \A c \in DOMAIN cl2 : cl2[c] = cl[c]
  BY DEF Without, Restrict
<1>2. /\ DOMAIN ss2 = DOMAIN ss
      /\ \A n \in DOMAIN ss : ss2[n].attached <=> ss[n].attached /\ n \notin N
  BY DEF Released, SessionMap, Session
<1> SUFFICES Consistent(cl2, ss2)
  OBVIOUS
<1> HIDE DEF cl2, ss2
<1>3. ASSUME NEW c \in DOMAIN cl2
      PROVE  cl2[c].session \in DOMAIN ss2 /\ ss2[cl2[c].session].attached
  BY <1>1, <1>2 DEF Consistent
<1>4. ASSUME NEW n \in DOMAIN ss2, ss2[n].attached
      PROVE  \E c \in DOMAIN cl2 : cl2[c].session = n
  <2>1. PICK c \in DOMAIN cl : cl[c].session = n
    BY <1>2, <1>4 DEF Consistent
  <2> QED BY <1>1, <1>2, <1>4, <2>1
<1>5. \A c, d \in DOMAIN cl2 : cl2[c].session = cl2[d].session => c = d
  BY <1>1 DEF Consistent
<1> QED BY <1>3, <1>4, <1>5 DEF Consistent

\* Sessions that nobody holds are removed.
LEMMA ConsistentRemoved ==
  ASSUME NEW cl, NEW ss, Consistent(cl, ss), NEW N,
         \A n \in N \cap DOMAIN ss : ~ss[n].attached
  PROVE  Consistent(cl, Without(ss, N))
<1>1. /\ DOMAIN Without(ss, N) = DOMAIN ss \ N
      /\ \A n \in DOMAIN ss \ N : Without(ss, N)[n] = ss[n]
  BY DEF Without, Restrict
<1> QED BY <1>1 DEF Consistent

\* Nothing changes that concerns attachment.
LEMMA ConsistentKept ==
  ASSUME NEW cl, NEW ss, Consistent(cl, ss), NEW cl2, NEW ss2,
         DOMAIN cl2 = DOMAIN cl, DOMAIN ss2 = DOMAIN ss,
         \A c \in DOMAIN cl : cl2[c].session = cl[c].session,
         \A n \in DOMAIN ss : ss2[n].attached = ss[n].attached
  PROVE  Consistent(cl2, ss2)
BY DEF Consistent

\* detach_client, for clients that are in the table.
LEMMA ConsistentDetached ==
  ASSUME TypeOK, Consistent(clients, sessions), NEW C, C \subseteq DOMAIN clients
  PROVE  Consistent(Without(clients, C), Released(sessions, SessionsOf(C)))
<1>1. \A c \in DOMAIN clients : clients[c].session \in SessionsOf(C) <=> c \in C
  BY DEF SessionsOf, Consistent
<1> QED BY <1>1, ConsistentReleased DEF TypeOK, SessionMap

\* cleanup_finished_temporary spares the sessions that are attached.
LEMMA ConsistentCleaned ==
  ASSUME NEW cl, NEW ss, Consistent(cl, ss)
  PROVE  Consistent(cl, Without(ss, FinishedTemporary(ss)))
BY ConsistentRemoved DEF FinishedTemporary

\* send_attached_snapshot, whatever its outcome.
LEMMA ConsistentSnapshot ==
  ASSUME TypeOK, NEW c \in DOMAIN clients, NEW n, NEW ss, NEW rz, NEW sn, NEW ex,
         SessionMap(ss), Consistent([clients EXCEPT ![c].session = n], ss),
         ThenSnapshot(c, n, ss, rz, sn, ex)
  PROVE  Consistent(clients', sessions')
<1> DEFINE cl == [clients EXCEPT ![c].session = n]
           left == Without(cl, {c})
           free == Released(ss, {n})
<1>1. /\ DOMAIN cl = DOMAIN clients
      /\ cl[c].session = n
      /\ \A d \in DOMAIN clients \ {c} : cl[d] = clients[d]
  BY DEF TypeOK, Client
<1>2. Consistent(cl, ss)
  OBVIOUS
<1>3. CASE sessions' = ss /\ clients' = cl
  BY <1>3
<1>4. CASE sessions' = ss /\ clients' = [clients EXCEPT ![c].session = n,
                                                        ![c].inFlight = TRUE]
  <2>1. /\ DOMAIN clients' = DOMAIN clients
        /\ \A d \in DOMAIN clients : clients'[d].session = cl[d].session
    BY <1>4 DEF TypeOK, Client
  <2> HIDE DEF cl
  <2> QED BY <1>1, <1>2, <1>4, <2>1 DEF Consistent
<1>5. CASE sessions' = free /\ clients' = Without(clients, {c})
  <2> HIDE DEF cl
  <2>1. \A d \in DOMAIN cl : cl[d].session \in {n} <=> d \in {c}
    BY <1>1, <1>2 DEF Consistent
  <2>2. Consistent(left, free)
    BY <1>2, <2>1, ConsistentReleased
  <2>3. left = Without(clients, {c})
    BY <1>1 DEF Without, Restrict
  <2> HIDE DEF left, free
  <2> QED BY <1>5, <2>2, <2>3
<1> QED BY <1>3, <1>4, <1>5 DEF ThenSnapshot

\* Every table is empty.
LEMMA ConsistentHalt == ASSUME NEW left, Halt(left) PROVE Consistent(clients', sessions')
BY DEF Halt, Consistent

\* A handler keeps the client on its session and ends with the snapshot.
LEMMA ConsistentStays ==
  ASSUME TypeOK, Consistent(clients, sessions), NEW c \in DOMAIN clients,
         NEW ss, SessionMap(ss), SameAttached(ss), NEW rz, NEW sn, NEW ex,
         ThenSnapshot(c, clients[c].session, ss, rz, sn, ex)
  PROVE  Consistent(clients', sessions')
<1> DEFINE cl == [clients EXCEPT ![c].session = clients[c].session]
<1>1. DOMAIN cl = DOMAIN clients /\ \A d \in DOMAIN clients : cl[d] = clients[d]
  BY DEF TypeOK, Client
<1> HIDE DEF cl
<1>2. Consistent(cl, ss)
  BY <1>1 DEF Consistent, SameAttached
<1> QED BY <1>2, ConsistentSnapshot DEF cl

\* The newcomer of replace_client: either it holds the session alone, or
\* nobody does.
LEMMA ConsistentReplace ==
  ASSUME TypeOK, IdsIssued, Consistent(clients, sessions),
         NEW n \in DOMAIN sessions, NEW token, NEW old \in Existing(n),
         ReplaceClient(old, n, token)
  PROVE  Consistent(clients', sessions')
<1> DEFINE others == Without(clients, old)
           entry == [token |-> token, session |-> n, inFlight |-> TRUE, stale |-> FALSE]
<1>1. /\ DOMAIN others = DOMAIN clients \ old
      /\ \A c \in DOMAIN others : others[c] = clients[c] /\ clients[c].session # n
  BY DEF Without, Restrict, Existing, Holders, Consistent
<1>2. sessions[n] \in Session /\ Restarted(sessions[n]) \in Session
  BY DEF TypeOK, Restarted, Session
<1>3. CASE /\ clients' = Installed(old, n, token)
           /\ sessions' = [sessions EXCEPT ![n] =
                [Restarted(sessions[n]) EXCEPT !.attached = TRUE,
                                               !.everAttached = TRUE]]
  <2>1. nextClientId \notin DOMAIN clients
    BY DEF IdsIssued, TypeOK, ClientId
  <2>2. entry.session = n /\ clients' = Insert(others, nextClientId, entry)
    BY <1>3 DEF Installed
  <2> HIDE DEF others, entry
  <2>3. /\ DOMAIN clients' = DOMAIN others \cup {nextClientId}
        /\ clients'[nextClientId].session = n
        /\ \A c \in DOMAIN others : clients'[c] = others[c]
    BY <1>1, <2>1, <2>2 DEF Insert
  <2>4. /\ DOMAIN sessions' = DOMAIN sessions
        /\ sessions'[n].attached
        /\ \A m \in DOMAIN sessions \ {n} : sessions'[m] = sessions[m]
    BY <1>2, <1>3 DEF TypeOK, Session
  <2>5. ASSUME NEW c \in DOMAIN clients'
        PROVE  clients'[c].session \in DOMAIN sessions' /\ sessions'[clients'[c].session].attached
    BY <1>1, <2>3, <2>4 DEF Consistent
  <2>6. ASSUME NEW m \in DOMAIN sessions', sessions'[m].attached
        PROVE  \E c \in DOMAIN clients' : clients'[c].session = m
    <3>1. CASE m = n
      BY <2>3, <3>1
    <3>2. CASE m # n
      <4>1. PICK c \in DOMAIN clients : clients[c].session = m
        BY <2>4, <2>6, <3>2 DEF Consistent
      <4>2. c \in DOMAIN others
        BY <1>1, <3>2, <4>1 DEF Existing, Holders
      <4> QED BY <1>1, <2>3, <4>1, <4>2
    <3> QED BY <3>1, <3>2
  <2>7. ASSUME NEW c \in DOMAIN clients', NEW d \in DOMAIN clients',
               clients'[c].session = clients'[d].session
        PROVE  c = d
    BY <1>1, <2>3, <2>7 DEF Consistent
  <2> QED BY <2>5, <2>6, <2>7 DEF Consistent
<1>4. CASE /\ clients' = others
           /\ \E t \in Session : sessions' = [sessions EXCEPT ![n] =
                                              [t EXCEPT !.attached = FALSE]]
  <2>1. /\ DOMAIN sessions' = DOMAIN sessions
        /\ ~sessions'[n].attached
        /\ \A m \in DOMAIN sessions \ {n} : sessions'[m] = sessions[m]
    BY <1>4 DEF TypeOK, Session
  <2> HIDE DEF others
  <2>2. ASSUME NEW c \in DOMAIN clients'
        PROVE  clients'[c].session \in DOMAIN sessions' /\ sessions'[clients'[c].session].attached
    BY <1>1, <1>4, <2>1 DEF Consistent
  <2>3. ASSUME NEW m \in DOMAIN sessions', sessions'[m].attached
        PROVE  \E c \in DOMAIN clients' : clients'[c].session = m
    <3>1. PICK c \in DOMAIN clients : clients[c].session = m
      BY <2>1, <2>3 DEF Consistent
    <3>2. c \in DOMAIN others
      BY <1>1, <2>1, <2>3, <3>1 DEF Existing, Holders
    <3> QED BY <1>1, <1>4, <3>1, <3>2
  <2>4. \A c, d \in DOMAIN clients' :
          clients'[c].session = clients'[d].session => c = d
    BY <1>1, <1>4 DEF Consistent
  <2> QED BY <2>2, <2>3, <2>4 DEF Consistent
<1>5. [Restarted(sessions[n]) EXCEPT !.attached = TRUE, !.everAttached = TRUE]
        \in Session
  BY <1>2 DEF Session
<1> QED BY <1>2, <1>3, <1>4, <1>5 DEF ReplaceClient

\* Messages on a client's stream keep the tables consistent.
LEMMA ConsistentStream ==
  ASSUME TypeOK, BoundsAssumption, DiskWorks, Consistent(clients, sessions),
         StreamMessages
  PROVE  Consistent(clients', sessions')
<1>0. SessionMap(sessions) /\ SameAttached(sessions)
  BY DEF TypeOK, SessionMap, SameAttached
<1> SUFFICES ASSUME NEW c \in DOMAIN clients,
                    \/ Reply(c) \/ SendFails(c) \/ ResizeRequest(c)
                    \/ View(c) \/ AdjustRatio(c) \/ Split(c)
                    \/ ClosePane(c) \/ CloseSession(c)
                    \/ \E m \in Name : Rename(c, m)
                    \/ Search(c) \/ Leave(c)
             PROVE  Consistent(clients', sessions')
  BY DEF StreamMessages
<1>1. CASE Reply(c) \/ ResizeRequest(c) \/ Search(c)
  BY <1>1 DEF Reply, ResizeRequest, Search
<1>2. CASE SendFails(c)
  BY <1>2, ConsistentDetached DEF SendFails, DetachClients
<1>3. CASE View(c)
  <2>1. PICK n \in Name :
          /\ Streams(c, n)
          /\ \E p \in sessions[n].panes :
               ThenSnapshot(c, n, [sessions EXCEPT ![n].focused = p],
                            resizes, snapshots, exits)
    BY <1>3 DEF View
  <2>2. PICK p \in sessions[n].panes :
          ThenSnapshot(c, n, [sessions EXCEPT ![n].focused = p],
                       resizes, snapshots, exits)
    BY <2>1
  <2> QED BY <2>1, <2>2, FocusMap, ConsistentStays DEF Streams
<1>4. CASE AdjustRatio(c)
  BY <1>0, <1>4, ConsistentStays DEF AdjustRatio, Streams
<1>5. CASE Split(c)
  <2>1. nextPaneId \in PaneId
    BY <1>5 DEF Split, TypeOK, PaneId, BoundsAssumption
  <2>2. PICK n \in Name :
          LET ss == [sessions EXCEPT ![n].panes = @ \cup {nextPaneId},
                                     ![n].focused = nextPaneId]
          IN /\ Streams(c, n)
             /\ \/ ThenSnapshot(c, n, ss, resizes, snapshots, exits)
                \/ ThenError(ss)
                \/ ThenError(sessions)
    BY <1>5 DEF Split
  <2> DEFINE ss == [sessions EXCEPT ![n].panes = @ \cup {nextPaneId},
                                    ![n].focused = nextPaneId]
  <2>3. SessionMap(ss) /\ SameAttached(ss)
    BY <2>1, <2>2, SplitMap DEF Streams
  <2> HIDE DEF ss
  <2>4. CASE ThenSnapshot(c, n, ss, resizes, snapshots, exits)
    BY <2>2, <2>3, <2>4, ConsistentStays DEF Streams
  <2>5. CASE ThenError(ss) \/ ThenError(sessions)
    BY <2>3, <2>5 DEF ThenError, Consistent, SameAttached
  <2> QED BY <2>2, <2>4, <2>5 DEF ss
<1>6. CASE ClosePane(c)
  <2>1. PICK n \in Name :
          \E p \in sessions[n].panes \ {sessions[n].focused} :
            LET ss == [sessions EXCEPT ![n].panes = @ \ {sessions[n].focused},
                                       ![n].focused = p]
            IN /\ Streams(c, n)
               /\ \/ ThenSnapshot(c, n, ss, resizes, snapshots, exits)
                  \/ ThenError(ss)
    BY <1>6 DEF ClosePane
  <2>2. PICK p \in sessions[n].panes \ {sessions[n].focused} :
          LET ss == [sessions EXCEPT ![n].panes = @ \ {sessions[n].focused},
                                     ![n].focused = p]
          IN /\ Streams(c, n)
             /\ \/ ThenSnapshot(c, n, ss, resizes, snapshots, exits)
                \/ ThenError(ss)
    BY <2>1
  <2> DEFINE ss == [sessions EXCEPT ![n].panes = @ \ {sessions[n].focused},
                                    ![n].focused = p]
  <2>3. SessionMap(ss) /\ SameAttached(ss)
    BY <2>2, CloseMap DEF Streams
  <2> HIDE DEF ss
  <2>4. CASE ThenSnapshot(c, n, ss, resizes, snapshots, exits)
    BY <2>2, <2>3, <2>4, ConsistentStays DEF Streams
  <2>5. CASE ThenError(ss)
    BY <2>3, <2>5 DEF ThenError, Consistent, SameAttached
  <2> QED BY <2>2, <2>4, <2>5 DEF ss
<1>7. CASE CloseSession(c)
  <2>1. PICK n \in Name : /\ n = clients[c].session
                          /\ sessions' = Without(sessions, {n})
                          /\ clients' = Without(clients, {c})
    BY <1>7 DEF CloseSession, Streams, DiskWorks
  <2>2. /\ DOMAIN clients' = DOMAIN clients \ {c}
        /\ \A d \in DOMAIN clients' : clients'[d] = clients[d]
        /\ DOMAIN sessions' = DOMAIN sessions \ {n}
        /\ \A m \in DOMAIN sessions' : sessions'[m] = sessions[m]
    BY <2>1 DEF Without, Restrict
  <2>3. \A d \in DOMAIN clients : clients[d].session = n <=> d = c
    BY <2>1 DEF Consistent
  <2>4. ASSUME NEW d \in DOMAIN clients'
        PROVE  clients'[d].session \in DOMAIN sessions' /\ sessions'[clients'[d].session].attached
    BY <2>2, <2>3 DEF Consistent
  <2>5. ASSUME NEW m \in DOMAIN sessions', sessions'[m].attached
        PROVE  \E d \in DOMAIN clients' : clients'[d].session = m
    <3>1. PICK d \in DOMAIN clients : clients[d].session = m
      BY <2>2, <2>5 DEF Consistent
    <3> QED BY <2>2, <2>3, <2>5, <3>1
  <2>6. \A d, e \in DOMAIN clients' : clients'[d].session = clients'[e].session => d = e
    BY <2>2 DEF Consistent
  <2> QED BY <2>4, <2>5, <2>6 DEF Consistent
<1>8. ASSUME NEW m \in Name, Rename(c, m) PROVE Consistent(clients', sessions')
  <2>1. PICK n \in Name :
          /\ Streams(c, n)
          /\ m \notin DOMAIN sessions
          /\ \E rz, sn, ex :
               ThenSnapshot(c, m, Insert(Without(sessions, {n}), m, sessions[n]),
                            rz, sn, ex)
    BY <1>8 DEF Rename, Free, DiskWorks
  <2> DEFINE rest == Without(sessions, {n})
             ss == Insert(rest, m, sessions[n])
             cl == [clients EXCEPT ![c].session = m]
  <2>2. /\ DOMAIN rest = DOMAIN sessions \ {n}
        /\ \A k \in DOMAIN rest : rest[k] = sessions[k]
    BY DEF Without, Restrict
  <2>3. SessionMap(rest) /\ sessions[n] \in Session
    BY <1>0, <2>1, WithoutMap DEF SessionMap, Streams
  <2> HIDE DEF rest
  <2>4. SessionMap(ss)
    BY <2>3, InsertMap DEF SessionMap
  <2>5. /\ DOMAIN ss = (DOMAIN sessions \ {n}) \cup {m}
        /\ ss[m] = sessions[n]
        /\ \A k \in DOMAIN sessions \ {n} : ss[k] = sessions[k]
    BY <2>1, <2>2 DEF Insert
  <2>6. /\ DOMAIN cl = DOMAIN clients
        /\ cl[c].session = m
        /\ \A d \in DOMAIN clients \ {c} : cl[d] = clients[d]
    BY DEF TypeOK, Client
  <2> HIDE DEF ss, cl
  <2>7. Consistent(cl, ss)
    <3>1. n = clients[c].session /\ n \in DOMAIN sessions
      BY <2>1 DEF Streams
    <3>2. \A d \in DOMAIN clients \ {c} : clients[d].session # n
      BY <3>1 DEF Consistent
    <3>3. ASSUME NEW d \in DOMAIN cl
          PROVE  cl[d].session \in DOMAIN ss /\ ss[cl[d].session].attached
      <4>1. CASE d = c
        BY <2>5, <2>6, <3>1, <4>1 DEF Consistent
      <4>2. CASE d # c
        BY <2>5, <2>6, <3>2, <3>3, <4>2 DEF Consistent
      <4> QED BY <4>1, <4>2
    <3>4. ASSUME NEW k \in DOMAIN ss, ss[k].attached
          PROVE  \E d \in DOMAIN cl : cl[d].session = k
      <4>1. CASE k = m
        BY <2>6, <4>1
      <4>2. CASE k # m
        <5>1. PICK d \in DOMAIN clients : clients[d].session = k
          BY <2>5, <3>4, <4>2 DEF Consistent
        <5> QED BY <2>5, <2>6, <3>1, <3>4, <4>2, <5>1
      <4> QED BY <4>1, <4>2
    <3>5. ASSUME NEW d \in DOMAIN cl, NEW e \in DOMAIN cl,
                 cl[d].session = cl[e].session
          PROVE  d = e
      BY <2>1, <2>6, <3>5 DEF Consistent
    <3> QED BY <3>3, <3>4, <3>5 DEF Consistent
  <2>8. \E rz, sn, ex : ThenSnapshot(c, m, ss, rz, sn, ex)
    BY <2>1 DEF ss, rest
  <2>9. Consistent([clients EXCEPT ![c].session = m], ss)
    BY <2>7 DEF cl
  <2> QED BY <2>4, <2>8, <2>9, ConsistentSnapshot
<1>9. CASE Leave(c)
  BY <1>9, ConsistentDetached, ConsistentCleaned DEF Leave, DetachAndCleanUp
<1> QED BY <1>1, <1>2, <1>3, <1>4, <1>5, <1>6, <1>7, <1>8, <1>9

\* Short requests do: Kill spares a session that is held.
LEMMA ConsistentShort ==
  ASSUME TypeOK, Consistent(clients, sessions), ShortRequests
  PROVE  Consistent(clients', sessions')
<1>1. CASE Answer
  BY <1>1 DEF Answer, tables
<1>2. ASSUME NEW n \in Name, NEW t \in BOOLEAN, Create(n, t)
      PROVE  Consistent(clients', sessions')
  <2> DEFINE new == [temporary |-> t, attached |-> FALSE, everAttached |-> FALSE,
                     panes |-> {nextPaneId}, exited |-> {}, focused |-> nextPaneId]
  <2>1. CASE sessions' = Insert(sessions, n, new)
    <3>1. n \notin DOMAIN sessions /\ UNCHANGED clients /\ ~new.attached
      BY <1>2 DEF Create
    <3> HIDE DEF new
    <3>2. /\ DOMAIN sessions' = DOMAIN sessions \cup {n}
          /\ sessions'[n] = new
          /\ \A m \in DOMAIN sessions : sessions'[m] = sessions[m]
      BY <2>1, <3>1 DEF Insert
    <3> QED BY <3>1, <3>2 DEF Consistent
  <2>2. CASE UNCHANGED sessions
    BY <1>2, <2>2 DEF Create
  <2> QED BY <1>2, <2>1, <2>2 DEF Create
<1>3. ASSUME NEW n \in Name, Kill(n) PROVE Consistent(clients', sessions')
  <2>1. \A m \in {n} \cap DOMAIN sessions : ~sessions[m].attached
    BY <1>3 DEF Kill, Holders, Consistent
  <2> QED BY <1>3, <2>1, ConsistentRemoved DEF Kill
<1> QED BY <1>1, <1>2, <1>3 DEF ShortRequests

\* Pane events do: only unattached sessions are cleaned up.
LEMMA ConsistentPane ==
  ASSUME TypeOK, Consistent(clients, sessions), PaneEvents
  PROVE  Consistent(clients', sessions')
<1>1. ASSUME NEW n \in Name, PaneOutput(n) PROVE Consistent(clients', sessions')
  <2>1. CASE UNCHANGED <<sessions, clients, searches, resizes, exits>>
    BY <2>1
  <2>2. CASE /\ \E c \in Holders(n) : clients' = Without(clients, {c})
             /\ sessions' = Released(sessions, {n})
    <3>1. PICK c \in Holders(n) : clients' = Without(clients, {c})
      BY <2>2
    <3>2. SessionsOf({c}) = {n} /\ {c} \subseteq DOMAIN clients
      BY <3>1 DEF Holders, SessionsOf
    <3> QED BY <2>2, <3>1, <3>2, ConsistentDetached
  <2> QED BY <1>1, <2>1, <2>2 DEF PaneOutput
<1>2. ASSUME NEW n \in Name, NEW p \in PaneId, PaneExited(n, p)
      PROVE  Consistent(clients', sessions')
  <2> DEFINE ss == [sessions EXCEPT ![n].exited = @ \cup {p}]
  <2>1. SameAttached(ss)
    BY <1>2, ExitMap DEF PaneExited
  <2>2. Consistent(clients, ss)
    <3> HIDE DEF ss
    <3> QED BY <2>1 DEF Consistent, SameAttached
  <2>3. CASE Halt(metadata)
    BY <2>3, ConsistentHalt
  <2>4. CASE sessions' = Without(ss, FinishedTemporary(ss)) /\ UNCHANGED clients
    <3> HIDE DEF ss
    <3> QED BY <2>2, <2>4, ConsistentCleaned
  <2> QED BY <1>2, <2>3, <2>4 DEF PaneExited
<1> QED BY <1>1, <1>2 DEF PaneEvents

\* The periodic work does.
LEMMA ConsistentLoop ==
  ASSUME TypeOK, SearchInv, Consistent(clients, sessions), LoopWork
  PROVE  Consistent(clients', sessions')
<1>0. SessionMap(sessions) /\ SameAttached(sessions)
  BY DEF TypeOK, SessionMap, SameAttached
<1>1. CASE ExpireStaleClients
  BY <1>1, ConsistentDetached, ConsistentCleaned
     DEF ExpireStaleClients, DetachAndCleanUp
<1>2. ASSUME NEW c \in DOMAIN searches, FinishSearch(c)
      PROVE  Consistent(clients', sessions')
  <2>1. c \in DOMAIN clients
    BY DEF SearchInv, SearchFollowsHolder
  <2> QED BY <1>0, <1>2, <2>1, ConsistentStays DEF FinishSearch
<1>3. ASSUME NEW ready \in SUBSET resizes, ApplyResizes(ready)
      PROVE  Consistent(clients', sessions')
  BY <1>3 DEF ApplyResizes
<1>4. ASSUME NEW ready \in SUBSET resizes, FlushSnapshots(ready)
      PROVE  Consistent(clients', sessions')
  <2>1. PICK failed \in SUBSET DOMAIN clients : \E sent :
          /\ clients' = [c \in DOMAIN clients \ failed |->
                           IF clients[c].session \in sent
                           THEN [clients[c] EXCEPT !.inFlight = TRUE] ELSE clients[c]]
          /\ sessions' = Released(sessions, SessionsOf(failed))
    BY <1>4 DEF FlushSnapshots
  <2> DEFINE left == Without(clients, failed)
             free == Released(sessions, SessionsOf(failed))
  <2>2. Consistent(left, free)
    BY <2>1, ConsistentDetached
  <2>3. /\ DOMAIN clients' = DOMAIN left
        /\ \A c \in DOMAIN left : clients'[c].session = left[c].session
    BY <2>1 DEF TypeOK, Client, Without, Restrict
  <2> HIDE DEF left, free
  <2>4. sessions' = free
    BY <2>1 DEF free
  <2> QED BY <2>2, <2>3, <2>4 DEF Consistent
<1>5. CASE ResizeFails
  BY <1>5, ConsistentHalt DEF ResizeFails
<1>6. ASSUME NEW c \in DOMAIN clients, SnapshotWritten(c)
      PROVE  Consistent(clients', sessions')
  <2>1. /\ DOMAIN clients' = DOMAIN clients
        /\ \A d \in DOMAIN clients : clients'[d].session = clients[d].session
        /\ UNCHANGED sessions
    BY <1>6 DEF SnapshotWritten, TypeOK, Client
  <2> QED BY <2>1 DEF Consistent
<1> QED BY <1>1, <1>2, <1>3, <1>4, <1>5, <1>6 DEF LoopWork

\* Every step does, as long as metadata can be removed.
LEMMA ConsistentStep ==
  ASSUME TypeOK, SearchInv, BoundsAssumption, DiskWorks,
         Consistent(clients, sessions), [Next]_vars
  PROVE  Consistent(clients', sessions')
<1>1. CASE UNCHANGED vars
  BY <1>1 DEF vars, tables
<1>2. CASE Connections
  BY <1>2, ConsistentReplace DEF Connections, Attach, Takeover, SearchInv
<1>3. CASE ReaderThreads
  <2>1. ASSUME NEW c \in DOMAIN clients, MessageArrives(c) \/ LeaseElapses(c)
        PROVE  Consistent(clients', sessions')
    <3>1. /\ DOMAIN clients' = DOMAIN clients
          /\ \A d \in DOMAIN clients : clients'[d].session = clients[d].session
          /\ UNCHANGED sessions
      BY <2>1 DEF MessageArrives, LeaseElapses, TypeOK, Client
    <3> QED BY <3>1 DEF Consistent
  <2> QED BY <1>3, <2>1 DEF ReaderThreads
<1>4. CASE ShutdownSessions
  BY <1>4, ConsistentHalt DEF ShutdownSessions
<1> QED BY <1>1, <1>2, <1>3, <1>4, ConsistentShort, ConsistentStream,
           ConsistentPane, ConsistentLoop DEF Next

(* The inductive invariant: types, fresh client ids, searches that belong  *)
(* to connected clients and, as long as the disk works, a client table     *)
(* that agrees with the sessions' attachment flags.                        *)
THEOREM AttachmentInvariant == Spec => []AttachmentInv
<1> DEFINE Agree == DiskWorks => Consistent(clients, sessions)
<1>1. Init => SearchInv /\ Agree
  BY DEF Init, SearchInv, IdsIssued, SearchFollowsHolder, Consistent
<1>2. TypeOK /\ SearchInv /\ Agree /\ [Next]_vars => SearchInv' /\ Agree'
  BY SearchStep, ConsistentStep, BoundsAssumption DEF DiskWorks
<1>3. TypeOK /\ SearchInv /\ Agree => AttachmentInv
  BY ConsistentIs DEF AttachmentInv, SearchInv, HoldersAreLive, OneHolder
<1> HIDE DEF Agree
<1> QED BY <1>1, <1>2, <1>3, TypeCorrect, PTL DEF Spec

(* A connected client holds a session that exists and is marked attached:  *)
(* kill, close, rename, takeover, lease expiry, a refused enqueue and the  *)
(* end of a temporary session leave no client behind, for any number of    *)
(* clients and sessions.                                                   *)
THEOREM HoldersLive == Spec => []HoldersAreLive
<1>1. AttachmentInv => HoldersAreLive
  BY DEF AttachmentInv
<1> QED BY <1>1, AttachmentInvariant, PTL

(* No session has two clients and none is marked attached without one, so  *)
(* that client_id_for_session has at most one answer.                      *)
THEOREM AtMostOneHolder == Spec => []OneHolder
<1>1. AttachmentInv => OneHolder
  BY DEF AttachmentInv
<1> QED BY <1>1, AttachmentInvariant, PTL

=============================================================================
