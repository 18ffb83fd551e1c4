------------------------------ MODULE MCSelection ------------------------------
(***************************************************************************)
(* A small instance of Selection: a mouse and a few keys on three rows.    *)
(***************************************************************************)
EXTENDS Selection

At(event, row) == [is |-> event, row |-> row, col |-> 0]

Sequenced == {Piece("wheelUp"), At("press", 2), At("drag", 0),
              At("drag", 2), At("release", 0)}

SomeTyped == {Piece(k) : k \in {"esc", "[", "/", "enter", "g", "y"}} \cup Sequenced

SomeGestures ==
  {<<Piece("esc")>>, <<Piece("/"), Piece("enter")>>, <<Piece("g"), Piece("y")>>}
  \cup {<<Piece("esc"), Piece("["), p>> : p \in Sequenced}

SomeSizes == {<<3, 2>>}
NoScreens == {}
=============================================================================
