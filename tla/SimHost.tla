------------------------------- MODULE SimHost -------------------------------
(***************************************************************************)
(* The host of the simulator and the front end that stands between it and  *)
(* the firmware: hosts with a workload each keep a submission queue full   *)
(* (sim_host.c), the front end hands its entries to the firmware one at a  *)
(* time, under circular command tags, and completes an entry when as many  *)
(* blocks as it asked for have been transferred under its tag              *)
(* (sim_frontend.c).                                                       *)
(*                                                                         *)
(* The steps are those of NvmeMain, which calls them.                      *)
(***************************************************************************)
EXTENDS Integers, Sequences, FiniteSets, SequencesExt

CONSTANTS
  NHOSTS,         \* sim.config.nhosts
  NOPS,           \* sim.config.nops
  Config,         \* per host: nblks, op_read_pcent, random (the pattern), and
                  \* the bounds of its first block, min_lba and max_lba
  ALIGN,          \* 4: random addresses are multiples of it
  TAGS            \* 1 << P_SLOT_TAG_WIDTH: command tags and queue depth

WRITE == 0        \* IO_NVM_WRITE - 1, IO_NVM_READ - 1: the indices of
READ  == 1        \* complete_blks
Ops   == {WRITE, READ}
CMD_NONE == -1

HostIds == 0 .. NHOSTS - 1
Tags    == 0 .. TAGS - 1

ASSUME HostAssumption == NHOSTS \in Nat \ {0} /\ NOPS \in Nat
ASSUME TagAssumption  == TAGS \in Nat \ {0} /\ ALIGN \in Nat \ {0}
\* What argparser accepts and fill_host_config makes of it.  A partition ends
\* nblks after max_lba, so that a request that begins below max_lba fits.
ASSUME ConfigAssumption ==
  \A h \in HostIds :
    /\ Config[h].nblks \in Nat \ {0}
    /\ Config[h].op_read_pcent \in 0 .. 100
    /\ Config[h].min_lba \in Nat /\ Config[h].min_lba % ALIGN = 0
    /\ Config[h].max_lba \in Nat /\ Config[h].max_lba > Config[h].min_lba

VARIABLES
  made,           \* the jobs generated: sim.config.nops - sim.remaining_jobs
  fe,             \* fe_req_sq, fe_req_cq, fe_stat.cmd_id, fe_stat.ongoing
  complete_blks,  \* per host and operation, the blocks reported complete
  cmdFifo         \* the commands the firmware has not taken

simVars == <<made, fe, complete_blks>>

SimInit ==
  /\ made = 0
  /\ fe = [sq |-> <<>>, cq |-> <<>>, cmd_id |-> 0, ongoing |-> 0]
  /\ complete_blks = [h \in HostIds |-> [op \in Ops |-> 0]]

-----------------------------------------------------------------------------
(* The workload.  The hosts take turns, so job j, counted from 0, is the    *)
(* turn-th job of its host, and what the generator keeps in acc and         *)
(* next_blkaddr follows from that.                                          *)

HostOf(j) == j % NHOSTS
Turn(j)   == j \div NHOSTS

\* select_op: the accumulator gains op_read_pcent with each job, and loses 100
\* with each read.
SelectOp(j) ==
  LET p == Config[HostOf(j)].op_read_pcent
  IN  IF ((Turn(j) * p) % 100) + p >= 100 THEN READ ELSE WRITE

\* get_next_blkaddr: the addresses a job may get.  A host begins at min_lba.
NextBlkAddr(j) ==
  LET c     == Config[HostOf(j)]
      range == c.max_lba - c.min_lba
  IN  IF Turn(j) = 0 THEN {c.min_lba}
      ELSE IF c.random
           THEN {((c.min_lba + r) \div ALIGN) * ALIGN : r \in 0 .. range - 1}
           ELSE {c.min_lba + ((Turn(j) * c.nblks) % range)}

\* create_request, for job j at address a.
Entry(j, a) ==
  [hid |-> HostOf(j), op |-> SelectOp(j), blkaddr |-> a,
   nblks |-> Config[HostOf(j)].nblks, cmd_id |-> CMD_NONE, remaining_dma |-> 0]

\* Faulty variant: only the first completion of a pass is reported.
Reported_FirstOnly(h, op) ==
  IF fe.cq # <<>> /\ Head(fe.cq).hid = h /\ Head(fe.cq).op = op
  THEN Head(fe.cq).nblks ELSE 0

\* The sum of a sequence of numbers.
Total(v) == FoldLeft(LAMBDA sum, n : sum + n, 0, v)

\* The blocks of the entries of s that are of host h and operation op.
BlocksOf(s, h, op) ==
  Total([i \in DOMAIN s |->
           IF s[i].hid = h /\ s[i].op = op THEN s[i].nblks ELSE 0])

\* perf_report of every entry of the completion queue.
Reported(h, op) == BlocksOf(fe.cq, h, op)

\* SchedulingHost: the submission queue is filled, the completion queue drained.
SchedulingHost ==
  LET room == TAGS - Len(fe.sq)
      left == NOPS - made
      new  == made .. made + (IF room < left THEN room ELSE left) - 1
  IN  /\ \E addr \in [new -> UNION {NextBlkAddr(j) : j \in new}] :
           /\ \A j \in new : addr[j] \in NextBlkAddr(j)
           /\ fe' = [fe EXCEPT
                       !.sq = @ \o [i \in 1 .. Cardinality(new) |->
                                      Entry(made + i - 1, addr[made + i - 1])],
                       !.cq = <<>>]
      /\ made' = made + Cardinality(new)
      /\ complete_blks' = [h \in HostIds |-> [op \in Ops |->
                             complete_blks[h][op] + Reported(h, op)]]

\* check_remaining_jobs, after SchedulingHost: the main loop ends without.
NoRemainingJobs == made' = NOPS /\ fe'.sq = <<>>

-----------------------------------------------------------------------------
(* The front end. *)

Ongoing(e) == e.cmd_id # CMD_NONE

\* SchedulingFE sends a command when the register of the firmware is free...
MaySend == Len(fe.sq) > fe.ongoing /\ cmdFifo = <<>>

\* ...request_to_task and send_nvme_cmd of the first entry not ongoing, under
\* the next tag, whether or not an entry still goes by it.
Sent(e, tag) == [e EXCEPT !.cmd_id = tag, !.remaining_dma = e.nblks]

Next1st == CHOOSE i \in DOMAIN fe.sq :
             ~ Ongoing(fe.sq[i]) /\ \A k \in 1 .. i - 1 : Ongoing(fe.sq[k])

FeSent ==
  IF MaySend
  THEN [fe EXCEPT !.sq[Next1st] = Sent(@, fe.cmd_id),
                  !.cmd_id = (@ + 1) % TAGS,
                  !.ongoing = @ + 1]
  ELSE fe

FifoSent ==
  IF MaySend
  THEN <<[tag |-> fe.cmd_id, opc |-> "rw", startLba |-> fe.sq[Next1st].blkaddr,
          blocks |-> fe.sq[Next1st].nblks]>>
  ELSE cmdFifo

\* Faulty variant: every entry under the tag is credited.
Credited_All(f, tag) ==
  LET hit(e) == e.cmd_id = tag
      left   == [i \in DOMAIN f.sq |-> IF hit(f.sq[i])
                  THEN [f.sq[i] EXCEPT !.remaining_dma = @ - 1] ELSE f.sq[i]]
      done(e) == hit(e) /\ e.remaining_dma = 0
      over   == SelectSeq(left, done)
  IN  [f EXCEPT !.sq = SelectSeq(left, LAMBDA e : ~ done(e)),
                !.cq = @ \o over, !.ongoing = @ - Len(over)]

\* handle_dma_req: a block is credited to the first ongoing entry under the tag
\* of its DMA command, and set_task_complete moves the entry after its last.
Credited(f, tag) ==
  LET hits == {i \in DOMAIN f.sq : f.sq[i].cmd_id = tag}
      i    == CHOOSE k \in hits : \A other \in hits : k <= other
  IN  IF hits = {} THEN f
      ELSE IF f.sq[i].remaining_dma > 1
           THEN [f EXCEPT !.sq[i].remaining_dma = @ - 1]
           ELSE [f EXCEPT !.sq = RemoveAt(@, i),
                          !.cq = Append(@, [f.sq[i] EXCEPT !.remaining_dma = 0]),
                          !.ongoing = @ - 1]

\* SchedulingFE, called by the main loop.  There is nothing to credit: the
\* driver calls it after each block it pushes.
SchedulingFE ==
  /\ fe' = FeSent
  /\ cmdFifo' = FifoSent

\* push_dma_command, which calls SchedulingFE; it finds this one block.
PushAndSchedule(tag) ==
  /\ fe' = Credited(FeSent, tag)
  /\ cmdFifo' = FifoSent
=============================================================================
