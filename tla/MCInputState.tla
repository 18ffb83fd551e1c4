----------------------------- MODULE MCInputState -----------------------------
(***************************************************************************)
(* A small instance of InputState: a key of each kind, a sequence of each  *)
(* kind and a mouse on a screen of three rows.                             *)
(***************************************************************************)
EXTENDS InputState

At(event, row) == [is |-> event, row |-> row, col |-> 0]

SomeTyped ==
  {Piece(k) : k \in {"prefix", "esc", "[", "/", "r", "v", "y", "n", "q",
                     "enter", "backspace", "up", "pageUp", "wheelUp", "other"}}
  \cup {At("press", 0), At("drag", 0), At("drag", 2), At("release", 2)}

SomeSizes == {<<3, 2>>, <<2, 1>>}

SomeScreens ==
  {[mouse |-> FALSE, alternate |-> FALSE, history |-> TRUE],
   [mouse |-> TRUE, alternate |-> TRUE, history |-> FALSE]}
=============================================================================
