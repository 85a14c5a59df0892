------------------------------- MODULE HostDma -------------------------------
(***************************************************************************)
(* The way of an I/O command through the firmware, seen from the host: it  *)
(* is checked (handle_nvme_io_cmd) and split into requests of one slice    *)
(* each (ReqTransNvmeToSlice), each becomes a DMA request that is issued   *)
(* when its buffer entry is free for it, block by block into a FIFO per    *)
(* direction (IssueNvmeDmaReq), and the firmware learns from two FIFO      *)
(* indices alone which requests are done (CheckDoneNvmeDmaReq).  The host  *)
(* controller moves the blocks, and completes a command by itself once all *)
(* its blocks have been moved.                                             *)
(*                                                                         *)
(* When a buffer entry is free is the subject of ReqDependency; here any   *)
(* waiting request may be the next one.                                    *)
(***************************************************************************)
EXTENDS Integers, Sequences, FiniteSets, SequencesExt

CONSTANTS
  Directions,             \* receive and transmit, for writes and reads
  Slots,                  \* NVMe command slot tags
  Reqs,                   \* request slots of the pool, numbers
  NVME_BLOCKS_PER_SLICE,  \* 4
  FIFO_SIZE,              \* 256: the FIFO indices are unsigned chars
  COUNT_SIZE,             \* 2^32: the overflow counts are unsigned ints
  IoCommands,             \* <<direction, startLba, nlb>>, nlb zero-based
  NSZE,                   \* the blocks of the name space, storageCapacity_L
  NONE                    \* a free slot, nothing being issued

ASSUME CommandAssumption == IoCommands \subseteq Directions \X Nat \X Nat
ASSUME NameSpaceAssumption == NSZE \in Nat
ASSUME SliceAssumption == NVME_BLOCKS_PER_SLICE \in Nat \ {0}
ASSUME FifoAssumption ==
  /\ FIFO_SIZE \in Nat /\ FIFO_SIZE > 1
  /\ COUNT_SIZE \in Nat /\ COUNT_SIZE > 1
ASSUME ReqsAssumption  == IsFiniteSet(Reqs)
\* A request keeps its slot until it is found done, so the FIFO cannot go round
\* so often meanwhile that the overflow counts repeat.
ASSUME CountAssumption ==
  COUNT_SIZE * FIFO_SIZE > Cardinality(Reqs) * NVME_BLOCKS_PER_SLICE + FIFO_SIZE

Positions == 0 .. FIFO_SIZE - 1

\* A request is given to one slice of a command; the last two fields say where
\* its FIFO stood when it was issued, and are NONE before.
Request ==
  [cmd : Slots, dir : Directions, lsa : Nat, startIndex : Nat, offset : Nat,
   num : 1 .. NVME_BLOCKS_PER_SLICE, reqTail : Positions \cup {NONE},
   overFlowCnt : 0 .. COUNT_SIZE - 1 \cup {NONE}]

Issuing  == [req : Reqs, done : Nat]
Transfer == [cmd : Slots, req : Reqs, cmd4KBOffset : Nat, block : Nat]

\* A command in progress: how many of its blocks are still to be moved, and which
\* have been, each as its number in the command and its address.
Command ==
  [dir : Directions, startLba : Nat, nlb : Nat, remaining : Nat,
   moved : SUBSET (Nat \X Nat)]

ASSUME NoneAssumption ==
  NONE \notin Nat \cup Request \cup Issuing \cup Transfer \cup Command

VARIABLES
  cmd,        \* the commands of the host; remaining and moved are the controller's
  req,        \* the request pool
  nvmeDmaReqQ,
  issuing,    \* the request IssueNvmeDmaReq is working on
  fifo        \* per direction: tail, overflow count, head, and the transfers

dmaVars == <<cmd, req, nvmeDmaReqQ, issuing, fifo>>

-----------------------------------------------------------------------------
(* From commands to requests. *)

\* ReqTransNvmeToSlice: the slices a command of nlb + 1 blocks is split into,
\* of which the first and the last may be partial.
Slices(startLba, nlb) ==
  LET offset == startLba % NVME_BLOCKS_PER_SLICE
      loop   == (offset + nlb + 1) \div NVME_BLOCKS_PER_SLICE
      first  == IF loop > 0 THEN NVME_BLOCKS_PER_SLICE - offset ELSE nlb + 1
      last   == (startLba + nlb + 1) % NVME_BLOCKS_PER_SLICE
      count  == IF loop = 0 THEN 1 ELSE IF last = 0 THEN loop ELSE loop + 1
  IN  [i \in 1 .. count |->
        [lsa        |-> startLba \div NVME_BLOCKS_PER_SLICE + i - 1,
         startIndex |-> IF i = 1 THEN 0 ELSE first + (i - 2) * NVME_BLOCKS_PER_SLICE,
         offset     |-> IF i = 1 THEN offset ELSE 0,
         num        |-> IF i = 1 THEN first
                        ELSE IF i <= loop THEN NVME_BLOCKS_PER_SLICE ELSE last]]

FreeReqs == SetToSeq({t \in Reqs : req[t] = NONE})

\* Faulty variant: the last block may lie one beyond the end.
InNameSpace_OffByOne(startLba, nlb) == startLba < NSZE /\ startLba + nlb <= NSZE

\* The range check of handle_nvme_io_read and handle_nvme_io_write.
InNameSpace(startLba, nlb) == startLba < NSZE /\ startLba + nlb + 1 <= NSZE

\* A read or a write in the register whose slot tag is not in use.  Unless it is
\* within the name space it is completed at once, with nothing changed, as are
\* flushes, unknown commands and those with misaligned buffers; otherwise the
\* firmware waits until the pool has slots for all its slices.
HandleNvmeIoCmd(c, dir, startLba, nlb) ==
  LET slices == Slices(startLba, nlb)
      request(s) == [cmd |-> c, dir |-> dir, lsa |-> s.lsa,
                     startIndex |-> s.startIndex, offset |-> s.offset,
                     num |-> s.num, reqTail |-> NONE, overFlowCnt |-> NONE]
  IN  /\ issuing = NONE
      /\ cmd[c] = NONE
      /\ InNameSpace(startLba, nlb)
      /\ Len(slices) <= Len(FreeReqs)
      /\ cmd' = [cmd EXCEPT ![c] = [dir |-> dir, startLba |-> startLba, nlb |-> nlb,
                                    remaining |-> nlb + 1, moved |-> {}]]
      /\ req' = [t \in Reqs |->
                   IF \E i \in DOMAIN slices : FreeReqs[i] = t
                   THEN request(slices[CHOOSE i \in DOMAIN slices : FreeReqs[i] = t])
                   ELSE req[t]]
      /\ UNCHANGED <<nvmeDmaReqQ, issuing, fifo>>

-----------------------------------------------------------------------------
(* The DMA FIFOs. *)

IsIssued(t) == req[t] # NONE /\ req[t].reqTail # NONE
Issued(t)   == IF issuing # NONE /\ issuing.req = t THEN issuing.done ELSE 0

\* SelectLowLevelReqQ or ReleaseBlockedByBufDepReq: a request may be issued.
SelectLowLevelReqQ(t) ==
  /\ issuing = NONE
  /\ req[t] # NONE
  /\ ~ IsIssued(t)
  /\ issuing' = [req |-> t, done |-> 0]
  /\ UNCHANGED <<cmd, req, nvmeDmaReqQ, fifo>>

\* Faulty variant: the index wraps without being counted.
Pushed_NotCounted(f, transfer) ==
  [f EXCEPT !.cmds[f.tail] = transfer, !.tail = (@ + 1) % FIFO_SIZE]

\* One transfer goes into the FIFO; the tail may wrap.
Pushed(f, transfer) ==
  LET tail == (f.tail + 1) % FIFO_SIZE IN
  [f EXCEPT !.cmds[f.tail] = transfer,
            !.tail = tail,
            !.overFlowCnt = IF f.tail > tail THEN (@ + 1) % COUNT_SIZE ELSE @]

\* set_auto_tx_dma, set_auto_rx_dma: wait for room, push the next block.  After
\* the last one IssueNvmeDmaReq notes where the FIFO stands and the request is
\* put to nvmeDmaReqQ.
SetAutoDma ==
  /\ issuing # NONE
  /\ LET t == issuing.req
         r == req[t]
         f == fifo[r.dir]
         pushed == Pushed(f, [cmd |-> r.cmd, req |-> t,
                              cmd4KBOffset |-> r.startIndex + issuing.done,
                              block |-> r.lsa * NVME_BLOCKS_PER_SLICE + r.offset
                                          + issuing.done])
     IN  /\ (f.tail + 1) % FIFO_SIZE # f.head
         /\ fifo' = [fifo EXCEPT ![r.dir] = pushed]
         /\ IF issuing.done + 1 < r.num
            THEN /\ issuing' = [issuing EXCEPT !.done = @ + 1]
                 /\ UNCHANGED <<req, nvmeDmaReqQ>>
            ELSE /\ issuing' = NONE
                 /\ req' = [req EXCEPT ![t].reqTail = pushed.tail,
                                       ![t].overFlowCnt = pushed.overFlowCnt]
                 /\ nvmeDmaReqQ' = Append(nvmeDmaReqQ, t)
  /\ UNCHANGED cmd

\* Faulty variant: an index that has wrapped is not told from one that has not.
PartialDone_NoWrap(f, tailIndex, tailAssistIndex) ==
  f.head = f.tail \/ f.head >= tailIndex

\* check_auto_tx_dma_partial_done, check_auto_rx_dma_partial_done.
PartialDone(f, tailIndex, tailAssistIndex) ==
  \/ f.head = f.tail
  \/ f.head = tailIndex
  \/ /\ f.head < tailIndex /\ f.tail < tailIndex
     /\ f.tail > f.head \/ f.overFlowCnt # (tailAssistIndex + 1) % COUNT_SIZE
  \/ /\ f.head < tailIndex /\ f.tail >= tailIndex
     /\ f.overFlowCnt # tailAssistIndex
  \/ /\ f.head > tailIndex
     /\ f.tail < tailIndex \/ f.tail > f.head \/ f.overFlowCnt # tailAssistIndex

FoundDone(t) == PartialDone(fifo[req[t].dir], req[t].reqTail, req[t].overFlowCnt)

\* Faulty variant: one flag serves both directions.
DoneReqs_OneFlag ==
  {nvmeDmaReqQ[i] : i \in {j \in DOMAIN nvmeDmaReqQ :
     \E k \in j .. Len(nvmeDmaReqQ) : FoundDone(nvmeDmaReqQ[k])}}

\* CheckDoneNvmeDmaReq goes through the queue from its tail; once one request of
\* a direction is done, so are all before it.
DoneReqs ==
  {nvmeDmaReqQ[i] : i \in {j \in DOMAIN nvmeDmaReqQ :
     \E k \in j .. Len(nvmeDmaReqQ) :
       /\ req[nvmeDmaReqQ[k]].dir = req[nvmeDmaReqQ[j]].dir
       /\ FoundDone(nvmeDmaReqQ[k])}}

\* A queue without the requests of a set, in its order.
Without(queue, S) ==
  LET kept    == {i \in DOMAIN queue : queue[i] \notin S}
      rank(i) == Cardinality({k \in kept : k <= i})
  IN  [n \in 1 .. Cardinality(kept) |-> queue[CHOOSE i \in kept : rank(i) = n]]

\* The requests that are done leave the queue and the pool; what waited for
\* their buffer entries may be selected afterwards.
CheckDoneNvmeDmaReq ==
  /\ issuing = NONE
  /\ DoneReqs # {}
  /\ nvmeDmaReqQ' = Without(nvmeDmaReqQ, DoneReqs)
  /\ req' = [t \in Reqs |-> IF t \in DoneReqs THEN NONE ELSE req[t]]
  /\ UNCHANGED <<cmd, issuing, fifo>>

\* Faulty variant: the controller completes a command one block early.
IsLast_Early(c) == cmd[c].remaining <= 2

IsLast(c) == cmd[c].remaining = 1

\* The controller moves the block at the head of a FIFO: recv_dma_cmd,
\* handle_dma_req, update_dma_status; set_task_complete with the last one.  The
\* simulated one does so as soon as the block is pushed.
HandleDmaReq(dir) ==
  /\ fifo[dir].head # fifo[dir].tail
  /\ LET d == fifo[dir].cmds[fifo[dir].head]
     IN  cmd' = IF IsLast(d.cmd) THEN [cmd EXCEPT ![d.cmd] = NONE]
                ELSE [cmd EXCEPT ![d.cmd].remaining = @ - 1,
                                 ![d.cmd].moved = @ \cup {<<d.cmd4KBOffset, d.block>>}]
  /\ fifo' = [fifo EXCEPT ![dir].head = (@ + 1) % FIFO_SIZE,
                          ![dir].cmds[fifo[dir].head] = NONE]
  /\ UNCHANGED <<req, nvmeDmaReqQ, issuing>>

-----------------------------------------------------------------------------

DmaInit ==
  /\ cmd = [c \in Slots |-> NONE]
  /\ req = [t \in Reqs |-> NONE]
  /\ nvmeDmaReqQ = <<>>
  /\ issuing = NONE
  /\ fifo = [dir \in Directions |->
               [tail |-> 0, overFlowCnt |-> 0, head |-> 0,
                cmds |-> [i \in Positions |-> NONE]]]

DmaNext ==
  \/ \E c \in Slots, io \in IoCommands : HandleNvmeIoCmd(c, io[1], io[2], io[3])
  \/ \E t \in Reqs : SelectLowLevelReqQ(t)
  \/ SetAutoDma
  \/ CheckDoneNvmeDmaReq
  \/ \E dir \in Directions : HandleDmaReq(dir)

DmaSpec == DmaInit /\ [][DmaNext]_dmaVars

-----------------------------------------------------------------------------
(* Correctness. *)

Transfers ==
  {fifo[p[1]].cmds[p[2]] : p \in Directions \X Positions} \ {NONE}

InFlight(t) == {d \in Transfers : d.req = t}

\* The FIFO indices and overflow counts tell, for every request in the queue and
\* however often the indices have wrapped since, whether its last block has been
\* moved: a request found done too early gives its buffer entry away while the
\* controller still moves blocks, one never found keeps it.
DoneExact ==
  \A i \in DOMAIN nvmeDmaReqQ :
    FoundDone(nvmeDmaReqQ[i]) <=> InFlight(nvmeDmaReqQ[i]) = {}

\* A request is released only when its blocks have been moved, although
\* CheckDoneNvmeDmaReq concludes it for most requests from a later one.
ReleasedWhenDone ==
  [][\A t \in Reqs : req[t] # NONE /\ req'[t] = NONE =>
       IsIssued(t) /\ InFlight(t) = {}]_dmaVars

\* No block outside of the name space is ever moved: the slices of a command
\* reach no further than the check of its first and last block allows.
InsideNameSpace == \A d \in Transfers : d.block < NSZE

\* A command ends when each of its blocks has been moved, once, and to or from
\* the place in the slices that belongs to it.
EndsFullyMoved ==
  [][\A c \in Slots :
       cmd[c] # NONE /\ cmd'[c] = NONE =>
         LET f == fifo[cmd[c].dir]
             d == f.cmds[f.head]
         IN  /\ d # NONE /\ d.cmd = c
             /\ cmd[c].moved \cup {<<d.cmd4KBOffset, d.block>>}
                  = {<<i, cmd[c].startLba + i>> : i \in 0 .. cmd[c].nlb}]_dmaVars
=============================================================================
