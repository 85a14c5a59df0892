----------------------------- MODULE MCNvmeMain -----------------------------
(* Two workloads for TLC: a sequential one of whole slices that alternates  *)
(* writes and reads, and a random one of single blocks, mostly writes.      *)
EXTENDS NvmeMain

MCConfig ==
  [h \in {0, 1} |->
    IF h = 0
    THEN [nblks |-> 2, op_read_pcent |-> 50, random |-> FALSE,
          min_lba |-> 0, max_lba |-> 4]
    ELSE [nblks |-> 3, op_read_pcent |-> 0, random |-> TRUE,
          min_lba |-> 6, max_lba |-> 9]]

\* A read or write of one block, and one that runs over the end.
MCBoardCommands == {<<0, 1>>, <<11, 2>>}
=============================================================================
