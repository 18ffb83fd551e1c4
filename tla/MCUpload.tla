-------------------------------- MODULE MCUpload --------------------------------
(***************************************************************************)
(* A small instance of Upload: some items, empty ones, one that has become *)
(* shorter, none, too many and too much.                                   *)
(***************************************************************************)
EXTENDS Upload

Item(size) == [size |-> size, content |-> size]

SomeBatches ==
  {<<>>, <<Item(3)>>, <<Item(0), Item(2)>>, <<Item(1), Item(0), Item(2)>>,
   <<Item(1), [size |-> 2, content |-> 1]>>, <<Item(4)>>,
   <<Item(0), Item(0), Item(0), Item(0)>>}
=============================================================================
