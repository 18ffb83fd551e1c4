----------------------------- MODULE SessionLock -----------------------------
(***************************************************************************)
(* What the daemon's client table promises about the ownership of          *)
(* sessions: a lock per session name whose owners are fenced.  Each        *)
(* connection gets a fresh identifier, owns at most one session, and once  *)
(* it has lost that session it never owns one again, so a late message     *)
(* that carries its identifier finds nothing to act on.                    *)
(***************************************************************************)
EXTENDS Naturals

CONSTANT Name

VARIABLES owner,  \* the identifier that owns each session, 0 when it is free
          next    \* the next identifier to be handed out

lock == <<owner, next>>

Init ==
  /\ owner = [n \in Name |-> 0]
  /\ next = 1

\* A new connection takes the session, from its owner if it has one.
Acquire(n) ==
  /\ owner' = [owner EXCEPT ![n] = next]
  /\ next' = next + 1

\* The owners of some sessions are gone.  An identifier is used up when the
\* connection that displaced an owner does not survive its own handshake,
\* or carries a request and never owns anything.
Release(N) ==
  /\ owner' = [n \in Name |-> IF n \in N THEN 0 ELSE owner[n]]
  /\ next' \in {next, next + 1}

\* A session is renamed to a name that nobody owns.
Move(n, m) ==
  /\ owner[m] = 0
  /\ owner' = [owner EXCEPT ![m] = owner[n], ![n] = 0]
  /\ UNCHANGED next

Next ==
  \/ \E n \in Name : Acquire(n)
  \/ \E N \in SUBSET Name : Release(N)
  \/ \E n, m \in Name : Move(n, m)

Spec == Init /\ [][Next]_lock

-----------------------------------------------------------------------------
(* A connection owns at most one session. *)
OneSessionEach ==
  \A n, m \in Name : owner[n] = owner[m] /\ owner[n] # 0 => n = m

(* An identifier that owns no session before a step owns one after it only *)
(* if the step has just handed it out.                                     *)
Fenced ==
  [][\A n \in Name :
       owner'[n] # 0 /\ (\A m \in Name : owner[m] # owner'[n])
         => owner'[n] = next /\ next' = next + 1]_lock

=============================================================================
