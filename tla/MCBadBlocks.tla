---------------------------- MODULE MCBadBlocks ----------------------------
(* Small instances of BadBlocks for TLC. *)
EXTENDS BadBlocks
=============================================================================
