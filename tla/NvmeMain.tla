------------------------------ MODULE NvmeMain ------------------------------
(***************************************************************************)
(* The main loop, nvme_main: a pass takes at most one command from the     *)
(* controller, turns it into requests, and runs the schedulers only if it  *)
(* has taken no I/O command.  The loop is compiled for the board, where it *)
(* follows the host through the states of NvmeController and the hardware  *)
(* completes commands, or for the simulator, where it is always RUNNING,   *)
(* begins a pass with SchedulingHost and SchedulingFE of SimHost and ends  *)
(* with the workload.                                                      *)
(*                                                                         *)
(* A request here stands for one slice.  Which requests must wait for      *)
(* flash or for each other is the subject of DataBuffer and ReqDependency: *)
(* here a new request may be sent to the host's DMA at once or wait for a  *)
(* round of the schedulers.                                                *)
(***************************************************************************)
EXTENDS SimHost, NvmeController

CONSTANTS
  Builds,                 \* of "board" and "simulator"
  BoardCommands,          \* <<first block, blocks>> a host of the board may ask for
  NSZE,                   \* the blocks of the name space
  NVME_BLOCKS_PER_SLICE,  \* 4
  POOL                    \* the entries of the request pool

ASSUME BuildsAssumption == Builds \subseteq {"board", "simulator"}
\* One command always fits: a command has fewer slices than the pool entries.
ASSUME PoolAssumption == POOL \in Nat \ {0}
\* fill_host_config lets a partition end within the name space.
ASSUME PartitionAssumption ==
  /\ NSZE \in Nat
  /\ \A h \in HostIds : Config[h].max_lba + Config[h].nblks <= NSZE
ASSUME BlocksAssumption == NVME_BLOCKS_PER_SLICE \in Nat \ {0}

VARIABLES
  build,      \* what the loop is compiled for
  slot,       \* on the board, the blocks left to each command in a slot
  toSplit,    \* the slices of the command not yet in sliceReqQ
  sliceReqQ,
  waiting,    \* requests waiting for flash or for other requests
  issuing,    \* the requests IssueNvmeDmaReq is working on, at most one
  nvmeDmaReqQ \* requests issued and not found done, their number

work == <<toSplit, sliceReqQ, waiting, issuing, nvmeDmaReqQ>>
mainVars == <<simVars, cmdFifo, ctlVars, pc, build, slot, work>>

\* Where a pass begins.
Top == IF build = "board" THEN "status" ELSE "host"

MainInit ==
  /\ SimInit
  /\ ControllerInit
  /\ build \in Builds
  /\ pc = Top
  /\ status = IF build = "board" THEN "IDLE" ELSE "RUNNING"
  /\ cmdFifo = <<>>
  /\ slot = [t \in Tags |-> 0]
  /\ toSplit = <<>> /\ sliceReqQ = <<>> /\ waiting = <<>> /\ issuing = <<>>
  /\ nvmeDmaReqQ = 0

-----------------------------------------------------------------------------
(* A pass in the simulator begins with the host and the front end. *)

HostTurn ==
  /\ pc = "host"
  /\ SchedulingHost
  /\ pc' = IF NoRemainingJobs THEN "end" ELSE "fe"
  /\ UNCHANGED <<cmdFifo, ctlVars, build, slot, work>>

FrontEndTurn ==
  /\ pc = "fe"
  /\ SchedulingFE
  /\ pc' = "status"
  /\ UNCHANGED <<made, complete_blks, ctlVars, build, slot, work>>

-----------------------------------------------------------------------------
(* The RUNNING branch. *)

NoCommand ==
  /\ pc = "status" /\ status = "RUNNING"
  /\ cmdFifo = <<>>
  /\ pc' = "llr"
  /\ UNCHANGED <<simVars, cmdFifo, ctlVars, build, slot, work>>

\* get_nvme_cmd
TakesCommand(c) ==
  /\ pc = "status" /\ status = "RUNNING"
  /\ cmdFifo # <<>>
  /\ c = Head(cmdFifo)
  /\ cmdFifo' = Tail(cmdFifo)
  /\ rstCnt' = 0
  /\ UNCHANGED <<simVars, status, cc, csts, irq, linkUp, patient, build>>

\* set_auto_nvme_cpl and, for an asynchronous event, set_nvme_slot_release:
\* either way the slot of the command is free.
Answered(c) == [slot EXCEPT ![c.tag] = 0]

\* handle_nvme_admin_cmd; the schedulers run in this pass.
AdminCommand ==
  \E c \in {cmdFifo[i] : i \in 1 .. Len(cmdFifo)} :
    /\ c.opc \in AdminOps
    /\ TakesCommand(c)
    /\ queues' = QueueSet(c.opc, c.queue)
    /\ slot' = Answered(c)
    /\ pc' = "llr"
    /\ UNCHANGED work

\* ReqTransNvmeToSlice: the blocks of a command that lie in each slice.
SliceSizes(first, n) ==
  LET B    == NVME_BLOCKS_PER_SLICE
      from == first \div B
      upto == (first + n - 1) \div B
      lo(s) == IF s = from THEN first ELSE s * B
      hi(s) == IF s = upto THEN first + n ELSE (s + 1) * B
  IN  [i \in 1 .. upto - from + 1 |-> hi(from + i - 1) - lo(from + i - 1)]

\* handle_nvme_io_read, handle_nvme_io_write
InRange(c) == c.startLba < NSZE /\ c.startLba + c.blocks <= NSZE

\* handle_nvme_io_cmd.  A flush, an unknown command and one that is out of range
\* are completed at once: on the board, as no front end of the simulator listens.
IoCommand ==
  \E c \in {cmdFifo[i] : i \in 1 .. Len(cmdFifo)} :
    /\ c.opc \notin AdminOps
    /\ TakesCommand(c)
    /\ IF c.opc = "rw" /\ InRange(c)
       THEN /\ toSplit' = [i \in DOMAIN SliceSizes(c.startLba, c.blocks) |->
                            [tag |-> c.tag, num |-> SliceSizes(c.startLba, c.blocks)[i]]]
            /\ pc' = "split"
            /\ UNCHANGED slot
       ELSE /\ pc' = Top
            /\ slot' = IF build = "board" THEN Answered(c) ELSE slot
            /\ UNCHANGED toSplit
    /\ UNCHANGED <<queues, sliceReqQ, waiting, issuing, nvmeDmaReqQ>>

FreeReqs == POOL - Len(sliceReqQ) - Len(waiting) - Len(issuing) - nvmeDmaReqQ

unchangedButWork == <<simVars, cmdFifo, ctlVars, build, slot>>

\* ReqTransNvmeToSlice takes an entry for each slice; GetFromFreeReqQ finding
\* none, SyncAvailFreeReq runs rounds of the schedulers until there is one.
SplitCommand ==
  /\ pc = "split"
  /\ IF toSplit = <<>>
     THEN /\ pc' = "trans"
          /\ UNCHANGED work
     ELSE IF FreeReqs = 0
     THEN /\ pc' = "sync"
          /\ UNCHANGED work
     ELSE /\ sliceReqQ' = Append(sliceReqQ, Head(toSplit))
          /\ toSplit' = Tail(toSplit)
          /\ UNCHANGED <<pc, waiting, issuing, nvmeDmaReqQ>>
  /\ UNCHANGED unchangedButWork

\* ReqTransSliceToLowLevel: each slice request becomes a DMA request, which is
\* issued or must wait; no scheduler runs in this pass.
TransformSlice ==
  /\ pc = "trans" /\ issuing = <<>>
  /\ IF sliceReqQ = <<>>
     THEN /\ pc' = Top
          /\ UNCHANGED <<sliceReqQ, waiting, issuing>>
     ELSE /\ sliceReqQ' = Tail(sliceReqQ)
          /\ \/ issuing' = <<Head(sliceReqQ)>> /\ UNCHANGED waiting
             \/ waiting' = Append(waiting, Head(sliceReqQ)) /\ UNCHANGED issuing
          /\ UNCHANGED pc
  /\ UNCHANGED <<unchangedButWork, toSplit, nvmeDmaReqQ>>

\* Faulty variant: the last block of a request is not pushed.
LastBlock_Early(r) == r.num <= 2

LastBlock(r) == r.num = 1

\* IssueNvmeDmaReq pushes the blocks of a request one after the other.  In the
\* simulator each is credited at once; on the board the hardware moves it, and
\* completes the command with its last.
IssueNvmeDmaReq ==
  /\ issuing # <<>>
  /\ LET r == Head(issuing) IN
     /\ IF LastBlock(r)
        THEN /\ issuing' = <<>>
             /\ nvmeDmaReqQ' = nvmeDmaReqQ + 1
        ELSE /\ issuing' = <<[r EXCEPT !.num = @ - 1]>>
             /\ UNCHANGED nvmeDmaReqQ
     /\ IF build = "board"
        THEN /\ slot' = [slot EXCEPT ![r.tag] = @ - 1]
             /\ UNCHANGED <<simVars, cmdFifo>>
        ELSE /\ PushAndSchedule(r.tag)
             /\ UNCHANGED <<made, complete_blks, slot>>
  /\ UNCHANGED <<ctlVars, pc, build, toSplit, sliceReqQ, waiting>>

-----------------------------------------------------------------------------
(* A round of the schedulers: CheckDoneNvmeDmaReq, SchedulingNandReq and, in *)
(* the simulator, SchedulingNand.                                            *)

InRound == pc \in {"llr", "sync"} /\ issuing = <<>>

\* CheckDoneNvmeDmaReq finds a request done and gives its entry back.
ReleaseDone ==
  /\ InRound
  /\ nvmeDmaReqQ > 0
  /\ nvmeDmaReqQ' = nvmeDmaReqQ - 1
  /\ UNCHANGED <<unchangedButWork, pc, toSplit, sliceReqQ, waiting, issuing>>

\* Faulty variant: the loop that waits for an entry leaves the flash alone.
IssueWaiting_LlrOnly(tag) ==
  /\ pc = "llr" /\ issuing = <<>>
  /\ \E i \in DOMAIN waiting :
       /\ waiting[i].tag = tag
       /\ issuing' = <<waiting[i]>>
       /\ waiting' = RemoveAt(waiting, i)
  /\ UNCHANGED <<unchangedButWork, pc, toSplit, sliceReqQ, nvmeDmaReqQ>>

\* What a request waited for has come, and it is issued.
IssueWaiting(tag) ==
  /\ InRound
  /\ \E i \in DOMAIN waiting :
       /\ waiting[i].tag = tag
       /\ issuing' = <<waiting[i]>>
       /\ waiting' = RemoveAt(waiting, i)
  /\ UNCHANGED <<unchangedButWork, pc, toSplit, sliceReqQ, nvmeDmaReqQ>>

EndRound ==
  /\ InRound
  /\ pc' = IF pc = "llr" THEN Top ELSE "split"
  /\ UNCHANGED <<unchangedButWork, work>>

Loop ==
  \/ HostTurn
  \/ FrontEndTurn
  \/ Branch /\ UNCHANGED <<simVars, cmdFifo, build, slot, work>>
  \/ NoCommand
  \/ AdminCommand
  \/ IoCommand
  \/ SplitCommand
  \/ TransformSlice
  \/ IssueNvmeDmaReq
  \/ ReleaseDone
  \/ \E t \in Tags : IssueWaiting(t)
  \/ EndRound

-----------------------------------------------------------------------------
(* The host of the board, external, and the interrupt. *)

Quiet == \A t \in Tags : slot[t] = 0

Submit(c, n) ==
  /\ build = "board"
  /\ cc.en /\ cc.shn = 0 /\ csts.rdy
  /\ slot[c.tag] = 0
  /\ slot' = [slot EXCEPT ![c.tag] = n]
  /\ cmdFifo' = Append(cmdFifo, c)
  /\ UNCHANGED <<simVars, ctlVars, pc, build, work>>

\* The host creates the completion queue first and deletes it last.
MayAsk(opc, q) ==
  CASE opc = "create_cq" -> ~ queues.cq[q]
    [] opc = "create_sq" -> queues.cq[q] /\ ~ queues.sq[q]
    [] opc = "delete_sq" -> queues.sq[q]
    [] opc = "delete_cq" -> queues.cq[q] /\ ~ queues.sq[q]
    [] OTHER             -> queues.admin

HostSubmitsAdmin ==
  \E t \in Tags, opc \in AdminOps, q \in QueueIds :
    MayAsk(opc, q) /\ Submit([tag |-> t, opc |-> opc, queue |-> q], 1)

HostSubmitsIo ==
  /\ \E q \in QueueIds : queues.sq[q] /\ queues.cq[q]
  /\ \E t \in Tags :
       \/ Submit([tag |-> t, opc |-> "flush"], 1)
       \/ \E b \in BoardCommands :
            Submit([tag |-> t, opc |-> "rw", startLba |-> b[1], blocks |-> b[2]], b[2])

\* The host leaves or is lost only when no command is outstanding: what the
\* hardware does with the transfers of others is not in this source.
HostOrLink ==
  /\ build = "board" /\ Quiet
  /\ HostChangesRegister
  /\ UNCHANGED <<simVars, cmdFifo, build, slot, work>>

Interrupt ==
  /\ build = "board"
  /\ dev_irq_handler
  /\ UNCHANGED <<simVars, cmdFifo, pc, build, slot, work>>

\* In the simulator the loop ends.
Ended == pc = "end" /\ UNCHANGED mainVars

MainNext ==
  \/ Loop
  \/ Interrupt
  \/ HostOrLink
  \/ HostSubmitsAdmin
  \/ HostSubmitsIo
  \/ Ended

MainSpec == MainInit /\ [][MainNext]_mainVars

\* The loop never stops, an interrupt is served, and a scheduler that is run
\* again and again finds each transfer done and gets for each request what it
\* waits for: WaitsCanEnd of ReqDependency, and NoWayStuck of NandScheduler for
\* channels of two ways.  Where a channel has more, a request also has to outlast
\* those two other ways are given meanwhile.
Fairness ==
  /\ WF_mainVars(Loop)
  /\ WF_mainVars(Interrupt)
  /\ SF_mainVars(ReleaseDone)
  /\ \A t \in Tags : SF_mainVars(IssueWaiting(t))

FairMainSpec == MainSpec /\ Fairness

-----------------------------------------------------------------------------
(* Correctness. *)

Blocks(s, tag) ==
  Total([i \in DOMAIN s |-> IF s[i].tag = tag THEN s[i].num ELSE 0])

\* The blocks the firmware has still to transfer under a tag.
Owed(tag) ==
  Total([i \in DOMAIN cmdFifo |->
           IF cmdFifo[i].tag = tag THEN cmdFifo[i].blocks ELSE 0])
  + Blocks(toSplit, tag) + Blocks(sliceReqQ, tag) + Blocks(waiting, tag)
  + Blocks(issuing, tag)

Expected(tag) ==
  Total([i \in DOMAIN fe.sq |->
           IF fe.sq[i].cmd_id = tag THEN fe.sq[i].remaining_dma ELSE 0])

\* The front end and the firmware agree, for every tag, on the blocks still to
\* come, also when a tag has come round while an entry still goes by it: no
\* entry waits for a block that will not come, and none that comes is dropped.
CreditsExact ==
  build = "simulator" => \A t \in Tags : Expected(t) = Owed(t)

\* The blocks of the first n jobs that are of host h and operation op.
Asked(n, h, op) ==
  Total([i \in 1 .. n |->
           IF HostOf(i - 1) = h /\ SelectOp(i - 1) = op THEN Config[h].nblks ELSE 0])

\* Every job generated is in one of the queues or in the figures of its host and
\* its operation, once; and the front end's count of ongoing entries is right.
JobsConserved ==
  build = "simulator" =>
    /\ \A h \in HostIds, op \in Ops :
         Asked(made, h, op) = complete_blks[h][op] + BlocksOf(fe.sq, h, op)
                                                   + BlocksOf(fe.cq, h, op)
    /\ fe.ongoing = Total([i \in DOMAIN fe.sq |-> IF Ongoing(fe.sq[i]) THEN 1 ELSE 0])

\* The simulation ends, however the transfers of its commands overtake each
\* other: the loop always comes back to see the queues empty.
SimulationEnds == build = "simulator" ~> pc = "end"

\* A host that is told the controller is not ready, or has shut down, may take
\* its queues away: no I/O queue is open then.
QueuesClosed ==
  ~ csts.rdy \/ (patient /\ csts.shst = 2) =>
    \A q \in QueueIds : ~ queues.sq[q] /\ ~ queues.cq[q]

\* What the host writes to the enable bit, the ready bit follows, whatever the
\* order of interrupts, branches and shutdowns, and whenever the link fails.
EnableHonoured ==
  /\ patient /\ cc.en ~> csts.rdy \/ ~ cc.en
  /\ patient /\ ~ cc.en ~> ~ csts.rdy

\* Every command of the host is answered, although a pass that takes an I/O
\* command runs no scheduler and the host may keep the queue from ever running
\* empty: its commands use up the request pool, and the wait for an entry runs
\* them.  Only an endless stream of commands that need no request, flushes and
\* reads or writes out of range, keeps the others waiting for ever.
CommandsEnd ==
  []<>(pc \in {"llr", "split"}) =>
    \A t \in Tags : slot[t] > 0 ~> slot[t] = 0 \/ ~ csts.rdy

\* save_gc_stats: the writes the write amplification is computed from.
HostWrites == Total([i \in 1 .. NHOSTS |-> complete_blks[i - 1][1]])

\* The report at the end counts the blocks the hosts wrote, "write blks" in the
\* words of save_gc_stats.
HostWritesCounted ==
  pc = "end" =>
    HostWrites = Total([i \in 1 .. NHOSTS |-> Asked(NOPS, i - 1, WRITE)])
=============================================================================
