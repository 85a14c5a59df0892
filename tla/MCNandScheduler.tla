-------------------------- MODULE MCNandScheduler --------------------------
(* Model checking of NandScheduler: three ways of a channel, one with requests *)
(* of every kind.  The other two write, so that they can take turns before it. *)
EXTENDS NandScheduler

MCWorkload == [w \in Ways |-> IF w = 0 THEN {"READ", "ERASE"} ELSE {"WRITE"}]
=============================================================================
