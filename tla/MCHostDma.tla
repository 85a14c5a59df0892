------------------------------ MODULE MCHostDma ------------------------------
(* A short FIFO for TLC.  In each direction one command is part of a       *)
(* slice, one begins and ends within a slice and covers a whole one        *)
(* between them, and one reaches a block beyond the name space.  Slots and *)
(* directions are interchangeable.                                         *)
EXTENDS HostDma

MCIoCommands ==
  {<<dir, span[1], span[2]>> :
     dir \in Directions, span \in {<<0, 0>>, <<1, 3>>, <<2, 3>>}}

DmaSymmetry == Permutations(Slots) \cup Permutations(Directions)
=============================================================================
