--------------------------- MODULE ScreenDelivery ---------------------------
(***************************************************************************)
(* What clients may see of a session's screen, whatever queues, threads    *)
(* and connections lie between: every client goes forward through versions *)
(* the screen has had, and hears of an exit at the version the exit is     *)
(* about.                                                                  *)
(***************************************************************************)
EXTENDS Naturals

CONSTANT Conn

VARIABLES term,    \* the version of the session's screen
          screen,  \* the version each client shows, 0 before the first
          told     \* the version at which it heard of an exit, 0 if it has not

delivery == <<term, screen, told>>

Init ==
  /\ term = 1
  /\ screen = [c \in Conn |-> 0]
  /\ told = [c \in Conn |-> 0]

\* The process writes, or is restarted on an empty screen.
Draw == term' = term + 1 /\ UNCHANGED <<screen, told>>

\* Versions may be skipped but not repeated or undone.
Show(c) ==
  /\ \E v \in screen[c] + 1 .. term : screen' = [screen EXCEPT ![c] = v]
  /\ UNCHANGED <<term, told>>

Tell(c) ==
  /\ screen[c] # 0
  /\ told' = [told EXCEPT ![c] = screen[c]]
  /\ UNCHANGED <<term, screen>>

Next == Draw \/ \E c \in Conn : Show(c) \/ Tell(c)

Spec == Init /\ [][Next]_delivery

=============================================================================
