---------------------------- MODULE MCDataBuffer ----------------------------
(* Three entries for TLC.  Slice 0 is written as a whole and in part, with *)
(* another content; slice 3, on the same chain, as a whole; the others are *)
(* read and push them through the lists.                                   *)
EXTENDS DataBuffer

CONSTANTS p1, x1, x2

MCWrites == {<<0, Parts, x1>>, <<0, {p1}, x2>>, <<3, Parts, x1>>}
=============================================================================
