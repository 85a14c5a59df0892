--------------------------- MODULE NvmeMainProofs ---------------------------
(***************************************************************************)
(* Proofs for any number of queues, hosts, tags and pool entries and any    *)
(* workload: the I/O queues are closed whenever the host may rely on it;    *)
(* and in the simulator the books of the front end and the firmware balance *)
(* for every tag, and every job is accounted for once.                      *)
(***************************************************************************)
EXTENDS NvmeMain, WellFoundedInduction, SequenceTheorems, FiniteSetTheorems, TLAPS

IoClosed == \A q \in QueueIds : ~ queues.sq[q] /\ ~ queues.cq[q]

\* The parts of the state the argument is about keep their shape.
Shape ==
  /\ cc \in [en : BOOLEAN, shn : 0 .. 1]
  /\ csts \in [rdy : BOOLEAN, shst : 0 .. 2]
  /\ queues \in [admin : BOOLEAN, sq : [QueueIds -> BOOLEAN],
                                  cq : [QueueIds -> BOOLEAN]]
  /\ patient \in BOOLEAN

OneReadOrWrite(s) == s = <<>> \/ (s = <<s[1]>> /\ s[1].opc = "rw")

\* In the simulator nothing but reads and writes ever reaches the loop.
SimulatorInv ==
  /\ status = "RUNNING"
  /\ ~ MidBranch
  /\ queues = Closed
  /\ OneReadOrWrite(cmdFifo)

\* On the board: commands are taken only while the host sees the controller
\* ready, and the ways to the states in which it does not close the queues first.
BoardInv ==
  /\ status = "RUNNING" => csts.rdy
  /\ pc = "ready" => csts.rdy
  /\ pc = "reset" => status # "RUNNING"
  /\ pc \in {"tell", "told", "reset"} => IoClosed
  /\ status = "WAIT_RESET" => IoClosed
  /\ ~ csts.rdy => IoClosed

\* With a patient host, an interrupt and a branch meet only where the loop polls
\* for the enable bit, so the loop knows that the shutdown is complete until the
\* host has seen the ready bit fall.
PatientInv ==
  /\ status \in {"WAIT_CC_EN", "SHUTDOWN", "RESET"} => irq = {}
  /\ pc \in {"open", "ready"} => status = "WAIT_CC_EN"
  /\ pc \in {"shut", "tell", "told"} => status = "SHUTDOWN"
  /\ pc = "reset" => status = "RESET"
  /\ pc = "closed" => status \in {"WAIT_RESET", "RESET"} /\ csts.shst # 2
  /\ pc = "closed" => ~ cc.en \/ status = "RESET"
  /\ csts.shst = 2 => pc \in {"told", "reset"} \/ status \in {"WAIT_RESET", "RESET"}
  /\ cc.en /\ "en" \in irq => csts.shst # 2
  /\ cc.shn = 1 /\ "shn" \in irq => csts.rdy /\ csts.shst # 2
  /\ cc.shn = 1 => cc.en
  /\ status = "SHUTDOWN" => csts.rdy
  /\ ~ csts.rdy => csts.shst # 2 \/ pc = "reset"
  /\ csts.shst = 2 => IoClosed

IInv ==
  /\ Shape
  /\ build \in {"board", "simulator"}
  /\ build = "simulator" => SimulatorInv
  /\ build = "board" => BoardInv /\ (patient => PatientInv)

-----------------------------------------------------------------------------

LEMMA InitEstablishes == MainInit => IInv
<1> SUFFICES ASSUME MainInit PROVE IInv
  OBVIOUS
<1>1. Shape
  BY DEF MainInit, ControllerInit, Shape, Closed
<1>2. build \in {"board", "simulator"}
  BY BuildsAssumption DEF MainInit
<1>3. ASSUME build = "simulator" PROVE SimulatorInv
  BY <1>3 DEF MainInit, ControllerInit, SimulatorInv, MidBranch, Top,
              OneReadOrWrite
<1>4. ASSUME build = "board" PROVE BoardInv /\ PatientInv
  BY <1>4 DEF MainInit, ControllerInit, BoardInv, PatientInv, IoClosed, Closed, Top
<1> QED
  BY <1>1, <1>2, <1>3, <1>4 DEF IInv

\* Most steps of the loop leave the controller alone, and move the loop at most
\* between points that belong to no branch.
ControllerKept ==
  /\ UNCHANGED <<status, cc, csts, queues, irq, patient, build>>
  /\ \/ pc' = pc
     \/ ~ MidBranch /\ ~ MidBranch'

LEMMA KeptPreserves ==
  ASSUME IInv, ControllerKept,
         build = "simulator" => OneReadOrWrite(cmdFifo')
  PROVE  IInv'
<1>1. Shape'
  BY DEF IInv, Shape, ControllerKept
<1>2. build' = build /\ build' \in {"board", "simulator"}
  BY DEF IInv, ControllerKept
<1>3. ASSUME build = "simulator" PROVE SimulatorInv'
  BY <1>3 DEF IInv, SimulatorInv, MidBranch, ControllerKept
<1>4. ASSUME build = "board" PROVE BoardInv'
  BY <1>4 DEF IInv, BoardInv, IoClosed, MidBranch, ControllerKept
<1>5. ASSUME build = "board", patient PROVE PatientInv'
  BY <1>5 DEF IInv, PatientInv, IoClosed, MidBranch, ControllerKept
<1> QED
  BY <1>1, <1>2, <1>3, <1>4, <1>5 DEF IInv, ControllerKept

\* What the front end leaves in the register of the firmware.
LEMMA SentIsReadOrWrite ==
  ASSUME OneReadOrWrite(cmdFifo), cmdFifo' = FifoSent
  PROVE  OneReadOrWrite(cmdFifo')
<1>1. CASE MaySend
  BY <1>1 DEF FifoSent, OneReadOrWrite
<1>2. CASE ~ MaySend
  BY <1>2 DEF FifoSent, OneReadOrWrite
<1> QED
  BY <1>1, <1>2

\* In the simulator a command taken leaves the register empty.
LEMMA TakenLeavesNone ==
  ASSUME OneReadOrWrite(cmdFifo), cmdFifo # <<>>, cmdFifo' = Tail(cmdFifo)
  PROVE  OneReadOrWrite(cmdFifo')
<1>1. cmdFifo = <<cmdFifo[1]>>
  BY DEF OneReadOrWrite
<1>2. Tail(<<cmdFifo[1]>>) = <<>>
  OBVIOUS
<1> QED
  BY <1>1, <1>2 DEF OneReadOrWrite

\* The steps of the loop that leave the controller alone.
LEMMA PassPreserves ==
  ASSUME IInv,
         \/ HostTurn \/ FrontEndTurn \/ NoCommand \/ IoCommand \/ SplitCommand
         \/ TransformSlice \/ IssueNvmeDmaReq \/ ReleaseDone
         \/ (\E t \in Tags : IssueWaiting(t)) \/ EndRound
  PROVE  IInv'
<1> USE DEF unchangedButWork, ctlVars, registers, ControllerKept, MidBranch, Top
<1> DEFINE Fifo == build = "simulator" => OneReadOrWrite(cmdFifo')
<1>0. build = "simulator" => OneReadOrWrite(cmdFifo)
  BY DEF IInv, SimulatorInv
<1>1. CASE HostTurn
  <2>1. ControllerKept /\ Fifo
    BY <1>1, <1>0 DEF HostTurn
  <2> QED
    BY <2>1, KeptPreserves
<1>2. CASE FrontEndTurn
  <2>1. ControllerKept
    BY <1>2 DEF FrontEndTurn
  <2>2. Fifo
    BY <1>2, <1>0, SentIsReadOrWrite DEF FrontEndTurn, SchedulingFE
  <2> QED
    BY <2>1, <2>2, KeptPreserves
<1>3. CASE NoCommand
  <2>1. ControllerKept /\ Fifo
    BY <1>3, <1>0 DEF NoCommand
  <2> QED
    BY <2>1, KeptPreserves
<1>4. CASE IoCommand
  <2>1. PICK c \in {cmdFifo[i] : i \in 1 .. Len(cmdFifo)} :
          /\ TakesCommand(c)
          /\ pc' \in {"split", Top}
          /\ UNCHANGED queues
    BY <1>4 DEF IoCommand
  <2>2. ControllerKept
    BY <2>1 DEF TakesCommand
  <2>3. Fifo
    BY <2>1, <1>0, TakenLeavesNone DEF TakesCommand
  <2> QED
    BY <2>2, <2>3, KeptPreserves
<1>5. CASE SplitCommand
  <2>1. ControllerKept /\ Fifo
    BY <1>5, <1>0 DEF SplitCommand
  <2> QED
    BY <2>1, KeptPreserves
<1>6. CASE TransformSlice
  <2>1. ControllerKept /\ Fifo
    BY <1>6, <1>0 DEF TransformSlice
  <2> QED
    BY <2>1, KeptPreserves
<1>7. CASE IssueNvmeDmaReq
  <2>1. ControllerKept
    BY <1>7 DEF IssueNvmeDmaReq
  <2>2. cmdFifo' = cmdFifo \/ cmdFifo' = FifoSent
    BY <1>7 DEF IssueNvmeDmaReq, PushAndSchedule
  <2>3. Fifo
    BY <2>2, <1>0, SentIsReadOrWrite
  <2> QED
    BY <2>1, <2>3, KeptPreserves
<1>8. CASE ReleaseDone
  <2>1. ControllerKept /\ Fifo
    BY <1>8, <1>0 DEF ReleaseDone
  <2> QED
    BY <2>1, KeptPreserves
<1>9. ASSUME NEW t \in Tags, IssueWaiting(t)
      PROVE  IInv'
  <2>1. ControllerKept /\ Fifo
    BY <1>9, <1>0 DEF IssueWaiting
  <2> QED
    BY <2>1, KeptPreserves
<1>10. CASE EndRound
  <2>1. ControllerKept /\ Fifo
    BY <1>10, <1>0 DEF EndRound, InRound
  <2> QED
    BY <2>1, KeptPreserves
<1> QED
  BY <1>1, <1>2, <1>3, <1>4, <1>5, <1>6, <1>7, <1>8, <1>9, <1>10

-----------------------------------------------------------------------------

\* In the simulator no branch is ever taken: there is only the RUNNING one.
LEMMA NoBranchInSimulator ==
  ASSUME IInv, Branch
  PROVE  build = "board"
<1>1. ASSUME build = "simulator" PROVE FALSE
  <2>1. status = "RUNNING" /\ ~ MidBranch
    BY <1>1 DEF IInv, SimulatorInv
  <2> QED
    BY <2>1 DEF Branch, MidBranch, OpenAdminQueue, TellReady, EndBranch,
                BeginShutdown, CloseForShutdown, TellShutdown, Disable,
                BeginReset, FinishReset, NothingToDo
<1> QED
  BY <1>1 DEF IInv

LEMMA BranchPreserves ==
  ASSUME IInv, Branch, build' = build
  PROVE  IInv'
<1> USE DEF registers, ctlVars, MidBranch
<1>0. build = "board" /\ Shape /\ BoardInv /\ (patient => PatientInv)
  BY NoBranchInSimulator DEF IInv
<1>1. CASE OpenAdminQueue
  <2>1. Shape' /\ patient' = patient
    BY <1>1, <1>0 DEF Shape, OpenAdminQueue, check_nvme_cc_en
  <2>2. BoardInv'
    BY <1>1, <1>0 DEF Shape, BoardInv, IoClosed, OpenAdminQueue, check_nvme_cc_en
  <2>3. ASSUME patient PROVE PatientInv'
    BY <1>1, <1>0, <2>3 DEF Shape, BoardInv, PatientInv, IoClosed, OpenAdminQueue, check_nvme_cc_en
  <2> QED
    BY <1>0, <2>1, <2>2, <2>3 DEF IInv
<1>2. CASE TellReady
  <2>1. Shape' /\ patient' = patient
    BY <1>2, <1>0 DEF Shape, TellReady
  <2>2. BoardInv'
    BY <1>2, <1>0 DEF Shape, BoardInv, IoClosed, TellReady
  <2>3. ASSUME patient PROVE PatientInv'
    BY <1>2, <1>0, <2>3 DEF Shape, BoardInv, PatientInv, IoClosed, TellReady
  <2> QED
    BY <1>0, <2>1, <2>2, <2>3 DEF IInv
<1>3. CASE EndBranch
  <2>1. Shape' /\ patient' = patient
    BY <1>3, <1>0 DEF Shape, EndBranch
  <2>2. BoardInv'
    BY <1>3, <1>0 DEF Shape, BoardInv, IoClosed, EndBranch
  <2>3. ASSUME patient PROVE PatientInv'
    BY <1>3, <1>0, <2>3 DEF Shape, BoardInv, PatientInv, IoClosed, EndBranch
  <2> QED
    BY <1>0, <2>1, <2>2, <2>3 DEF IInv
<1>4. CASE BeginShutdown
  <2>1. Shape' /\ patient' = patient
    BY <1>4, <1>0 DEF Shape, BeginShutdown
  <2>2. BoardInv'
    BY <1>4, <1>0 DEF Shape, BoardInv, IoClosed, BeginShutdown
  <2>3. ASSUME patient PROVE PatientInv'
    BY <1>4, <1>0, <2>3 DEF Shape, BoardInv, PatientInv, IoClosed, BeginShutdown
  <2> QED
    BY <1>0, <2>1, <2>2, <2>3 DEF IInv
<1>5. CASE CloseForShutdown
  <2>1. Shape' /\ patient' = patient
    BY <1>5, <1>0 DEF Shape, CloseForShutdown, Closed
  <2>2. BoardInv'
    BY <1>5, <1>0 DEF Shape, BoardInv, IoClosed, CloseForShutdown, Closed
  <2>3. ASSUME patient PROVE PatientInv'
    BY <1>5, <1>0, <2>3 DEF Shape, BoardInv, PatientInv, IoClosed, CloseForShutdown, Closed
  <2> QED
    BY <1>0, <2>1, <2>2, <2>3 DEF IInv
<1>6. CASE TellShutdown
  <2>1. Shape' /\ patient' = patient
    BY <1>6, <1>0 DEF Shape, TellShutdown
  <2>2. BoardInv'
    BY <1>6, <1>0 DEF Shape, BoardInv, IoClosed, TellShutdown
  <2>3. ASSUME patient PROVE PatientInv'
    BY <1>6, <1>0, <2>3 DEF Shape, BoardInv, PatientInv, IoClosed, TellShutdown
  <2> QED
    BY <1>0, <2>1, <2>2, <2>3 DEF IInv
<1>7. CASE Disable
  <2>1. Shape' /\ patient' = patient
    BY <1>7, <1>0 DEF Shape, Disable, check_nvme_cc_en
  <2>2. BoardInv'
    BY <1>7, <1>0 DEF Shape, BoardInv, IoClosed, Disable, check_nvme_cc_en
  <2>3. ASSUME patient PROVE PatientInv'
    BY <1>7, <1>0, <2>3 DEF Shape, BoardInv, PatientInv, IoClosed, Disable, check_nvme_cc_en
  <2> QED
    BY <1>0, <2>1, <2>2, <2>3 DEF IInv
<1>8. CASE BeginReset
  <2>1. Shape' /\ patient' = patient
    BY <1>8, <1>0 DEF Shape, BeginReset, Closed
  <2>2. BoardInv'
    BY <1>8, <1>0 DEF Shape, BoardInv, IoClosed, BeginReset, Closed
  <2>3. ASSUME patient PROVE PatientInv'
    BY <1>8, <1>0, <2>3 DEF Shape, BoardInv, PatientInv, IoClosed, BeginReset, Closed
  <2> QED
    BY <1>0, <2>1, <2>2, <2>3 DEF IInv
<1>9. CASE FinishReset
  <2>0. queues' \in [admin : BOOLEAN, sq : [QueueIds -> BOOLEAN],
                                     cq : [QueueIds -> BOOLEAN]]
    BY <1>9, <1>0 DEF Shape, FinishReset
  <2>4. csts' \in [rdy : BOOLEAN, shst : 0 .. 2] /\ UNCHANGED <<cc, patient>>
    BY <1>9 DEF FinishReset
  <2>1. Shape' /\ patient' = patient
    BY <1>0, <2>0, <2>4 DEF Shape
  <2>2. BoardInv'
    BY <1>9, <1>0 DEF Shape, BoardInv, IoClosed, FinishReset
  <2>3. ASSUME patient PROVE PatientInv'
    BY <1>9, <1>0, <2>3 DEF Shape, BoardInv, PatientInv, IoClosed, FinishReset
  <2> QED
    BY <1>0, <2>1, <2>2, <2>3 DEF IInv
<1>10. CASE NothingToDo
  <2>1. Shape' /\ patient' = patient
    BY <1>10, <1>0 DEF Shape, NothingToDo, check_nvme_cc_en
  <2>2. BoardInv'
    BY <1>10, <1>0 DEF Shape, BoardInv, IoClosed, NothingToDo, check_nvme_cc_en
  <2>3. ASSUME patient PROVE PatientInv'
    BY <1>10, <1>0, <2>3 DEF Shape, BoardInv, PatientInv, IoClosed, NothingToDo, check_nvme_cc_en
  <2> QED
    BY <1>0, <2>1, <2>2, <2>3 DEF IInv
<1> QED
  BY <1>1, <1>2, <1>3, <1>4, <1>5, <1>6, <1>7, <1>8, <1>9, <1>10 DEF Branch

\* A command may open an I/O queue, but only while the host sees the controller
\* ready.
LEMMA AdminCommandPreserves ==
  ASSUME IInv, AdminCommand
  PROVE  IInv'
<1>1. PICK c \in {cmdFifo[i] : i \in 1 .. Len(cmdFifo)} :
        /\ c.opc \in AdminOps
        /\ TakesCommand(c)
        /\ queues' = QueueSet(c.opc, c.queue)
        /\ pc' = "llr"
  BY DEF AdminCommand
<1>2. build = "board"
  <2>1. ASSUME build = "simulator" PROVE FALSE
    <3>1. cmdFifo = <<cmdFifo[1]>> /\ cmdFifo[1].opc = "rw"
      BY <2>1, <1>1 DEF IInv, SimulatorInv, OneReadOrWrite, TakesCommand
    <3>2. Head(<<cmdFifo[1]>>) = cmdFifo[1]
      OBVIOUS
    <3> QED
      BY <1>1, <3>1, <3>2 DEF TakesCommand, AdminOps, QueueOps
  <2> QED
    BY <2>1 DEF IInv
<1>3. /\ UNCHANGED <<status, cc, csts, irq, patient, build>>
      /\ pc = "status" /\ status = "RUNNING"
  BY <1>1 DEF TakesCommand
<1>4. queues' \in [admin : BOOLEAN, sq : [QueueIds -> BOOLEAN],
                                   cq : [QueueIds -> BOOLEAN]]
  BY <1>1 DEF QueueSet, IInv, Shape
<1>5. Shape'
  BY <1>3, <1>4 DEF IInv, Shape
<1>6. csts.rdy /\ BoardInv'
  BY <1>1, <1>2, <1>3 DEF IInv, BoardInv
<1>7. ASSUME patient PROVE PatientInv'
  BY <1>1, <1>2, <1>3, <1>6, <1>7 DEF IInv, PatientInv
<1> QED
  BY <1>2, <1>3, <1>5, <1>6, <1>7 DEF IInv

LEMMA InterruptPreserves ==
  ASSUME IInv, Interrupt
  PROVE  IInv'
<1> USE DEF Interrupt, dev_irq_handler
<1>1. build = "board" /\ build' = build /\ patient' = patient
  OBVIOUS
<1>2. Shape'
  BY DEF IInv, Shape
<1>3. BoardInv'
  BY DEF IInv, Shape, BoardInv, IoClosed
<1>4. ASSUME patient PROVE PatientInv'
  BY <1>4 DEF IInv, Shape, BoardInv, PatientInv, IoClosed
<1> QED
  BY <1>1, <1>2, <1>3, <1>4 DEF IInv

LEMMA HostOrLinkPreserves ==
  ASSUME IInv, HostOrLink
  PROVE  IInv'
<1> USE DEF HostOrLink, HostChangesRegister
<1>1. build = "board" /\ build' = build /\ UNCHANGED <<patient, status, pc>>
  OBVIOUS
<1>0. Shape /\ BoardInv /\ (patient => PatientInv)
  BY <1>1 DEF IInv
<1>2. UNCHANGED <<csts, queues>> /\ cc' \in [en : BOOLEAN, shn : 0 .. 1]
  <2>1. cc \in [en : BOOLEAN, shn : 0 .. 1]
    BY <1>0 DEF Shape
  <2>2. CASE HostEnables
    BY <2>2 DEF HostEnables
  <2>3. CASE HostDisables
    BY <2>3 DEF HostDisables
  <2>4. CASE HostShutsDown
    BY <2>1, <2>4 DEF HostShutsDown
  <2>5. CASE LinkFails
    BY <2>5 DEF LinkFails
  <2>6. CASE LinkReturns
    BY <2>1, <2>6 DEF LinkReturns
  <2> QED
    BY <2>2, <2>3, <2>4, <2>5, <2>6
<1>5. Shape'
  BY <1>0, <1>1, <1>2 DEF Shape
<1>3. BoardInv'
  BY <1>0, <1>1, <1>2 DEF BoardInv, IoClosed
<1>4. ASSUME patient PROVE PatientInv'
  <2> USE <1>0, <1>1, <1>2, <1>4 DEF Shape, BoardInv, PatientInv, Settled, MidBranch,
                                     IoClosed
  <2>1. CASE HostEnables
    BY <2>1 DEF HostEnables
  <2>2. CASE HostDisables
    BY <2>2 DEF HostDisables
  <2>3. CASE HostShutsDown
    BY <2>3 DEF HostShutsDown
  <2>4. CASE LinkFails
    BY <2>4 DEF LinkFails
  <2>5. CASE LinkReturns
    BY <2>5 DEF LinkReturns
  <2> QED
    BY <2>1, <2>2, <2>3, <2>4, <2>5
<1> QED
  BY <1>1, <1>5, <1>3, <1>4 DEF IInv

\* The host submits commands on the board only.
LEMMA SubmitPreserves ==
  ASSUME IInv, HostSubmitsAdmin \/ HostSubmitsIo
  PROVE  IInv'
<1>1. build = "board" /\ UNCHANGED <<ctlVars, pc, build>>
  BY DEF HostSubmitsAdmin, HostSubmitsIo, Submit
<1>2. ControllerKept
  BY <1>1 DEF ControllerKept, ctlVars, registers
<1> QED
  BY <1>1, <1>2, KeptPreserves

LEMMA NextPreserves ==
  ASSUME IInv, [MainNext]_mainVars
  PROVE  IInv'
<1>1. CASE Loop
  BY <1>1, PassPreserves, BranchPreserves, AdminCommandPreserves DEF Loop
<1>2. CASE Interrupt
  BY <1>2, InterruptPreserves
<1>3. CASE HostOrLink
  BY <1>3, HostOrLinkPreserves
<1>4. CASE HostSubmitsAdmin \/ HostSubmitsIo
  BY <1>4, SubmitPreserves
<1>5. CASE UNCHANGED mainVars
  <2>1. ControllerKept /\ cmdFifo' = cmdFifo
    BY <1>5 DEF mainVars, ControllerKept, ctlVars, registers
  <2> QED
    BY <2>1, KeptPreserves DEF IInv, SimulatorInv
<1> QED
  BY <1>1, <1>2, <1>3, <1>4, <1>5 DEF MainNext, Ended

LEMMA InvariantImpliesClosed ==
  ASSUME IInv
  PROVE  QueuesClosed
<1>1. CASE build = "simulator"
  BY <1>1 DEF IInv, SimulatorInv, Closed, QueuesClosed
<1>2. CASE build = "board"
  BY <1>2 DEF IInv, BoardInv, PatientInv, IoClosed, QueuesClosed
<1> QED
  BY <1>1, <1>2 DEF IInv

\* Whenever the host sees the controller not ready, or shut down, no I/O queue is
\* open (set_io_sq and set_io_cq in the branches of nvme_main).
THEOREM QueuesAlwaysClosed == MainSpec => []QueuesClosed
<1>1. MainInit => IInv
  BY InitEstablishes
<1>2. IInv /\ [MainNext]_mainVars => IInv'
  BY NextPreserves
<1>3. IInv => QueuesClosed
  BY InvariantImpliesClosed
<1> QED
  BY <1>1, <1>2, <1>3, PTL DEF MainSpec

-----------------------------------------------------------------------------
(* Sums of sequences of numbers. *)

LEMMA LeastNumber ==
  ASSUME NEW T, T \subseteq Nat, T # {}
  PROVE  \E m \in T : \A n \in T : m <= n
<1>1. \E m \in T : \A n \in T : ~ (<<n, m>> \in OpToRel(<, Nat))
  BY NatLessThanWellFounded, WFMin, Zenon
<1>2. PICK m \in T : \A n \in T : ~ (<<n, m>> \in OpToRel(<, Nat))
  BY <1>1
<1>3. \A n \in T : ~ (n < m)
  BY <1>2 DEF OpToRel
<1> QED BY <1>3

LEMMA GreatestIndex ==
  ASSUME NEW n \in Nat, NEW s \in SUBSET (1 .. n), s # {}
  PROVE  Max(s) \in s /\ \A i \in s : i <= Max(s)
<1> DEFINE T == {n - i : i \in s}
<1>1. T \subseteq Nat /\ T # {}
  <2>1. \A i \in s : n - i \in Nat
    OBVIOUS
  <2> QED BY <2>1
<1>2. PICK m \in T : \A i \in T : m <= i
  <2> HIDE DEF T
  <2> QED BY <1>1, LeastNumber
<1>3. PICK j \in s : m = n - j
  BY <1>2
<1>4. \A i \in s : n - j <= n - i
  BY <1>2, <1>3
<1>5. \A i \in s : i <= j
  BY <1>4
<1> QED BY <1>5 DEF Max

\* f gives the sum of the elements of v with indices in s.
Sums(f, v, n) ==
  f = [s \in SUBSET (1 .. n) |-> IF s = {} THEN 0 ELSE f[s \ {Max(s)}] + v[Max(s)]]

LEMMA SumsExist ==
  ASSUME NEW v, NEW n \in Nat
  PROVE  \E f : Sums(f, v, n)
<1> DEFINE T == {i \in Nat : ~ \E f : Sums(f, v, i)}
<1> SUFFICES ASSUME T # {} PROVE FALSE
  OBVIOUS
<1>1. PICK m \in T : \A i \in T : m <= i
  <2>1. T \subseteq Nat
    OBVIOUS
  <2> HIDE DEF T
  <2> QED BY <2>1, LeastNumber
<1>2. CASE m = 0
  <2> DEFINE f == [s \in SUBSET (1 .. 0) |-> 0]
  <2>1. \A s \in SUBSET (1 .. 0) : s = {}
    OBVIOUS
  <2>2. Sums(f, v, 0)
    BY <2>1 DEF Sums
  <2> QED BY <1>2, <2>2
<1>3. CASE m # 0
  <2>1. m - 1 \in Nat /\ ~ (m <= m - 1) /\ m \in 1 .. m /\ 1 .. m = (1 .. m - 1) \cup {m}
    BY <1>3
  <2>2. PICK f : Sums(f, v, m - 1)
    BY <1>1, <2>1
  <2> DEFINE g == [s \in SUBSET (1 .. m) |-> IF m \in s THEN f[s \ {m}] + v[m] ELSE f[s]]
  <2>3. ASSUME NEW s \in SUBSET (1 .. m)
        PROVE  g[s] = IF s = {} THEN 0 ELSE g[s \ {Max(s)}] + v[Max(s)]
    <3>1. CASE m \in s
      <4>1. Max(s) = m /\ s # {}
        <5>1. Max(s) \in s /\ m <= Max(s)
          BY <3>1, GreatestIndex
        <5>2. \A i \in s : i \in Nat /\ i <= m
          BY <1>1
        <5>3. m \in Nat
          BY <1>1
        <5>4. Max(s) \in Nat /\ Max(s) <= m
          BY <5>1, <5>2
        <5> HIDE DEF T
        <5> QED BY <3>1, <5>1, <5>3, <5>4
      <4>2. s \ {m} \in SUBSET (1 .. m) /\ m \notin s \ {m}
        OBVIOUS
      <4>3. g[s \ {m}] = f[s \ {m}]
        BY <4>2
      <4> QED BY <3>1, <4>1, <4>3
    <3>2. CASE m \notin s
      <4>1. s \in SUBSET (1 .. m - 1)
        BY <2>1, <3>2
      <4>2. f[s] = IF s = {} THEN 0 ELSE f[s \ {Max(s)}] + v[Max(s)]
        BY <2>2, <4>1 DEF Sums
      <4>3. g[s] = f[s]
        BY <3>2
      <4>4. g[s \ {Max(s)}] = f[s \ {Max(s)}]
        BY <3>2
      <4> QED BY <4>2, <4>3, <4>4
    <3> QED BY <3>1, <3>2
  <2>4. Sums(g, v, m)
    BY <2>3 DEF Sums
  <2> QED BY <2>4
<1> QED BY <1>2, <1>3

\* A sum is what adding up from the left ends with.
LEMMA TotalUnfolds ==
  ASSUME NEW S, NEW v \in Seq(S)
  PROVE  \E a : /\ a[0] = 0
                /\ \A i \in 1 .. Len(v) : a[i] = a[i - 1] + v[i]
                /\ Total(v) = a[Len(v)]
<1> DEFINE n == Len(v)
           Step(sum, x) == sum + x
           iter[s \in SUBSET (1 .. n)] ==
             IF s = {} THEN 0 ELSE iter[s \ {Max(s)}] + v[Max(s)]
           a == [i \in 0 .. n |-> iter[1 .. i]]
<1>1. n \in Nat /\ DOMAIN v = 1 .. n
  OBVIOUS
<1>2. FoldLeft(Step, 0, v) = iter[1 .. n]
  BY <1>1, Zenon DEF FoldLeft, MapThenFoldSet
<1>7. Total(v) = FoldLeft(Step, 0, v)
  BY Zenon DEF Total
<1>3. Sums(iter, v, n)
  <2>1. iter = CHOOSE f : Sums(f, v, n)
    BY Zenon DEF Sums
  <2> HIDE DEF iter, n
  <2> QED BY <1>1, <2>1, SumsExist
<1> HIDE DEF iter
<1>4. a[0] = 0
  <2>1. a[0] = iter[{}] /\ {} \in SUBSET (1 .. n)
    BY <1>1
  <2> QED BY <1>3, <2>1 DEF Sums
<1>5. ASSUME NEW i \in 1 .. n
      PROVE  a[i] = a[i - 1] + v[i]
  <2>1. /\ i \in Nat /\ i - 1 \in Nat /\ i \in 1 .. i
        /\ i \in 0 .. n /\ i - 1 \in 0 .. n
    BY <1>1
  <2>4. 1 .. i \in SUBSET (1 .. n) /\ 1 .. i # {} /\ 1 .. i \in SUBSET (1 .. i)
    <3>1. \A j \in 1 .. i : j \in 1 .. n
      BY <1>1
    <3> QED BY <2>1, <3>1
  <2>5. (1 .. i) \ {i} = 1 .. i - 1
    BY <2>1
  <2>2. Max(1 .. i) = i
    <3>1. Max(1 .. i) \in 1 .. i /\ i <= Max(1 .. i)
      BY <2>1, <2>4, GreatestIndex
    <3> QED BY <2>1, <3>1
  <2>3. iter[1 .. i] = iter[1 .. i - 1] + v[i]
    BY <1>3, <2>2, <2>4, <2>5 DEF Sums
  <2> QED BY <2>1, <2>3
<1>6. FoldLeft(Step, 0, v) = a[n]
  <2>1. n \in 0 .. n
    BY <1>1
  <2>2. a[n] = iter[1 .. n]
    BY <2>1
  <2> HIDE DEF a
  <2> QED BY <1>2, <2>2
<1> HIDE DEF a, Step
<1> QED BY <1>4, <1>5, <1>6, <1>7

\* ...and whatever adds up from the left ends with the sum.
LEMMA TotalIs ==
  ASSUME NEW S, NEW v \in Seq(S), NEW b,
         b[0] = 0, \A i \in 1 .. Len(v) : b[i] = b[i - 1] + v[i]
  PROVE  Total(v) = b[Len(v)]
<1>1. PICK a : /\ a[0] = 0
               /\ \A i \in 1 .. Len(v) : a[i] = a[i - 1] + v[i]
               /\ Total(v) = a[Len(v)]
  BY TotalUnfolds
<1>2. Len(v) \in Nat
  OBVIOUS
<1> DEFINE T == {i \in 0 .. Len(v) : a[i] # b[i]}
<1>3. T = {}
  <2> SUFFICES ASSUME T # {} PROVE FALSE
    OBVIOUS
  <2>1. PICK m \in T : \A i \in T : m <= i
    <3>1. T \subseteq Nat
      BY <1>2
    <3> HIDE DEF T
    <3> QED BY <3>1, LeastNumber
  <2>2. m # 0
    BY <1>1, <2>1
  <2>3. m \in 1 .. Len(v) /\ m - 1 \in 0 .. Len(v) /\ ~ (m <= m - 1)
    BY <1>2, <2>1, <2>2
  <2>4. a[m - 1] = b[m - 1]
    BY <2>1, <2>3
  <2> QED BY <1>1, <2>1, <2>3, <2>4
<1>4. Len(v) \in 0 .. Len(v)
  BY <1>2
<1> QED BY <1>1, <1>3, <1>4

LEMMA TotalType ==
  ASSUME NEW v \in Seq(Nat)
  PROVE  \E a : /\ a[0] = 0
                /\ \A i \in 1 .. Len(v) : a[i] = a[i - 1] + v[i]
                /\ Total(v) = a[Len(v)]
                /\ \A i \in 0 .. Len(v) : a[i] \in Nat
<1>1. PICK a : /\ a[0] = 0
               /\ \A i \in 1 .. Len(v) : a[i] = a[i - 1] + v[i]
               /\ Total(v) = a[Len(v)]
  BY TotalUnfolds
<1>2. Len(v) \in Nat /\ \A i \in 1 .. Len(v) : v[i] \in Nat
  OBVIOUS
<1> DEFINE T == {i \in 0 .. Len(v) : a[i] \notin Nat}
<1>3. T = {}
  <2> SUFFICES ASSUME T # {} PROVE FALSE
    OBVIOUS
  <2>1. PICK m \in T : \A i \in T : m <= i
    <3>1. T \subseteq Nat
      BY <1>2
    <3> HIDE DEF T
    <3> QED BY <3>1, LeastNumber
  <2>2. m # 0
    BY <1>1, <2>1
  <2>3. m \in 1 .. Len(v) /\ m - 1 \in 0 .. Len(v) /\ ~ (m <= m - 1)
    BY <1>2, <2>1, <2>2
  <2>4. a[m - 1] \in Nat
    BY <2>1, <2>3
  <2>5. a[m] = a[m - 1] + v[m] /\ v[m] \in Nat
    BY <1>1, <1>2, <2>3
  <2>6. a[m] \in Nat
    BY <2>4, <2>5
  <2> QED BY <2>1, <2>6
<1>4. \A i \in 0 .. Len(v) : a[i] \in Nat
  BY <1>3
<1> HIDE DEF T
<1> QED BY <1>1, <1>4


-----------------------------------------------------------------------------
(* Sums over the queues: what an element of a queue counts for.             *)

\* The blocks owed by a command or a request, or expected by an entry, under the
\* tag k.tag; the blocks of an entry that is a job of a host and an operation;
\* whether an entry is ongoing.
Weight(k, x) ==
  CASE k.of = "request" -> IF x.tag = k.tag THEN x.num ELSE 0
    [] k.of = "command" -> IF x.tag = k.tag THEN x.blocks ELSE 0
    [] k.of = "credit"  -> IF x.cmd_id = k.tag THEN x.remaining_dma ELSE 0
    [] k.of = "job"     -> IF x.hid = k.h /\ x.op = k.op THEN x.nblks ELSE 0
    [] k.of = "ongoing" -> IF Ongoing(x) THEN 1 ELSE 0

Weights(k, s) == [i \in DOMAIN s |-> Weight(k, s[i])]

Weighed(k, s) == Total(Weights(k, s))

Countable(k, S) == \A x \in S : Weight(k, x) \in Nat

LEMMA WeightsFacts ==
  ASSUME NEW k, NEW S, Countable(k, S), NEW s \in Seq(S)
  PROVE  /\ Weights(k, s) \in Seq(Nat) /\ Len(Weights(k, s)) = Len(s)
         /\ \A i \in 1 .. Len(s) : Weights(k, s)[i] = Weight(k, s[i]) /\ s[i] \in S
         /\ Len(s) \in Nat
<1>1. Len(s) \in Nat /\ DOMAIN s = 1 .. Len(s) /\ \A i \in 1 .. Len(s) : s[i] \in S
  OBVIOUS
<1>2. Weights(k, s) \in [1 .. Len(s) -> Nat]
  BY <1>1 DEF Weights, Countable
<1>3. Weights(k, s) \in Seq(Nat) /\ Len(Weights(k, s)) = Len(s)
  BY <1>1, <1>2
<1> QED BY <1>1, <1>3 DEF Weights

LEMMA WeighedNumber ==
  ASSUME NEW k, NEW S, Countable(k, S), NEW s \in Seq(S)
  PROVE  Weighed(k, s) \in Nat
<1>1. Weights(k, s) \in Seq(Nat)
  BY WeightsFacts
<1>2. PICK a : /\ Total(Weights(k, s)) = a[Len(Weights(k, s))]
               /\ \A i \in 0 .. Len(Weights(k, s)) : a[i] \in Nat
  BY <1>1, TotalType
<1>3. Len(Weights(k, s)) \in 0 .. Len(Weights(k, s))
  BY <1>1
<1> QED BY <1>2, <1>3 DEF Weighed

LEMMA WeighedNone ==
  ASSUME NEW k
  PROVE  Weighed(k, <<>>) = 0
<1>1. Weights(k, <<>>) = <<>>
  BY DEF Weights
<1>2. <<>> \in Seq(Nat) /\ Len(<<>>) = 0
  OBVIOUS
<1>3. PICK a : a[0] = 0 /\ Total(<<>>) = a[Len(<<>>)]
  BY <1>2, TotalUnfolds
<1> QED BY <1>1, <1>2, <1>3 DEF Weighed

LEMMA WeighedConcat ==
  ASSUME NEW k, NEW S, Countable(k, S), NEW s \in Seq(S), NEW r \in Seq(S)
  PROVE  Weighed(k, s \o r) = Weighed(k, s) + Weighed(k, r)
<1> DEFINE t == s \o r  v == Weights(k, s)  w == Weights(k, r)  x == Weights(k, t)
<1>1. /\ t \in Seq(S) /\ Len(t) = Len(s) + Len(r)
      /\ \A i \in 1 .. Len(s) : t[i] = s[i]
      /\ \A i \in Len(s) + 1 .. Len(t) : t[i] = r[i - Len(s)]
  OBVIOUS
<1>2. /\ v \in Seq(Nat) /\ Len(v) = Len(s) /\ Len(s) \in Nat
      /\ \A i \in 1 .. Len(s) : v[i] = Weight(k, s[i])
  BY WeightsFacts
<1>3. /\ w \in Seq(Nat) /\ Len(w) = Len(r) /\ Len(r) \in Nat
      /\ \A i \in 1 .. Len(r) : w[i] = Weight(k, r[i])
  BY WeightsFacts
<1>4. /\ x \in Seq(Nat) /\ Len(x) = Len(t)
      /\ \A i \in 1 .. Len(t) : x[i] = Weight(k, t[i])
  <2> HIDE DEF t
  <2> QED BY <1>1, WeightsFacts
<1>11. ASSUME NEW i \in 1 .. Len(t)
       PROVE  x[i] = IF i <= Len(s) THEN v[i] ELSE w[i - Len(s)]
  <2>1. CASE i <= Len(s)
    BY <1>1, <1>2, <1>4, <2>1
  <2>2. CASE ~ (i <= Len(s))
    <3>1. i - Len(s) \in 1 .. Len(r) /\ i \in Len(s) + 1 .. Len(t)
      BY <1>1, <1>2, <1>3, <2>2
    <3> QED BY <1>1, <1>3, <1>4, <2>2, <3>1
  <2> QED BY <2>1, <2>2
<1> HIDE DEF t, v, w, x
<1>5. PICK a : /\ a[0] = 0
               /\ \A i \in 1 .. Len(v) : a[i] = a[i - 1] + v[i]
               /\ Total(v) = a[Len(v)]
               /\ \A i \in 0 .. Len(v) : a[i] \in Nat
  BY <1>2, TotalType
<1>6. PICK b : /\ b[0] = 0
               /\ \A i \in 1 .. Len(w) : b[i] = b[i - 1] + w[i]
               /\ Total(w) = b[Len(w)]
               /\ \A i \in 0 .. Len(w) : b[i] \in Nat
  BY <1>3, TotalType
<1> DEFINE c == [i \in 0 .. Len(t) |-> IF i <= Len(s) THEN a[i] ELSE a[Len(s)] + b[i - Len(s)]]
<1>7. c[0] = 0
  <2>1. 0 \in 0 .. Len(t) /\ 0 <= Len(s)
    BY <1>1, <1>2, <1>3
  <2> QED BY <1>5, <2>1
<1>8. ASSUME NEW i \in 1 .. Len(t)
      PROVE  c[i] = c[i - 1] + x[i]
  <2>0. i \in 0 .. Len(t) /\ i - 1 \in 0 .. Len(t) /\ i \in Nat
    BY <1>1, <1>2, <1>3
  <2>1. CASE i <= Len(s)
    <3>1. i \in 1 .. Len(v)
      BY <1>2, <2>0, <2>1
    <3> QED BY <1>2, <1>5, <1>11, <2>0, <2>1, <3>1
  <2>2. CASE i = Len(s) + 1
    <3>1. /\ ~ (i <= Len(s)) /\ i - 1 <= Len(s) /\ i - Len(s) = 1 /\ i - 1 = Len(s)
          /\ 1 \in 1 .. Len(w) /\ Len(s) \in 0 .. Len(v)
      BY <1>1, <1>2, <1>3, <2>2
    <3>2. b[1] = b[0] + w[1] /\ w[1] \in Nat
      BY <1>3, <1>6, <3>1
    <3> QED BY <1>5, <1>6, <1>11, <2>0, <3>1, <3>2
  <2>3. CASE i > Len(s) + 1
    <3> DEFINE j == i - Len(s)
    <3>1. /\ ~ (i <= Len(s)) /\ ~ (i - 1 <= Len(s)) /\ (i - 1) - Len(s) = j - 1
          /\ j \in 1 .. Len(w) /\ j \in 0 .. Len(w) /\ j - 1 \in 0 .. Len(w)
          /\ Len(s) \in 0 .. Len(v)
      BY <1>1, <1>2, <1>3, <2>3
    <3>2. b[j] = b[j - 1] + w[j] /\ w[j] \in Nat /\ b[j - 1] \in Nat /\ a[Len(s)] \in Nat
      <4> HIDE DEF j
      <4>1. b[j] = b[j - 1] + w[j] /\ b[j - 1] \in Nat
        BY <1>6, <3>1
      <4>2. w[j] \in Nat
        BY <1>3, <3>1
      <4>3. a[Len(s)] \in Nat
        BY <1>5, <3>1
      <4> QED BY <4>1, <4>2, <4>3
    <3>3. c[i] = a[Len(s)] + b[j] /\ c[i - 1] = a[Len(s)] + b[j - 1] /\ x[i] = w[j]
      BY <1>11, <2>0, <3>1
    <3> HIDE DEF c, j
    <3> QED BY <3>2, <3>3
  <2> QED BY <1>1, <1>2, <2>0, <2>1, <2>2, <2>3
<1>9. c[Len(t)] = Total(v) + Total(w)
  <2>1. CASE Len(r) = 0
    BY <1>1, <1>2, <1>3, <1>5, <1>6, <2>1
  <2>2. CASE Len(r) # 0
    <3>1. ~ (Len(t) <= Len(s)) /\ Len(t) - Len(s) = Len(r) /\ Len(t) \in 0 .. Len(t)
      BY <1>1, <1>2, <1>3, <2>2
    <3> QED BY <1>2, <1>3, <1>5, <1>6, <3>1
  <2> QED BY <2>1, <2>2
<1>10. Total(x) = c[Len(x)]
  <2> HIDE DEF c
  <2> QED BY <1>4, <1>7, <1>8, TotalIs
<1> HIDE DEF c
<1> QED BY <1>4, <1>9, <1>10 DEF Weighed, t, v, w, x

LEMMA WeighedOne ==
  ASSUME NEW k, NEW x, Weight(k, x) \in Nat
  PROVE  Weighed(k, <<x>>) = Weight(k, x)
<1> DEFINE S == {x}  s == <<x>>  v == Weights(k, s)
<1>1. Countable(k, S) /\ s \in Seq(S) /\ Len(s) = 1 /\ s[1] = x
  BY DEF Countable
<1>2. v \in Seq(Nat) /\ Len(v) = 1 /\ v[1] = Weight(k, x)
  <2> HIDE DEF S, s
  <2>1. /\ v \in Seq(Nat) /\ Len(v) = Len(s)
        /\ \A i \in 1 .. Len(s) : v[i] = Weight(k, s[i])
    BY <1>1, WeightsFacts
  <2> QED BY <1>1, <2>1
<1> HIDE DEF v
<1>3. PICK a : /\ a[0] = 0
               /\ \A i \in 1 .. Len(v) : a[i] = a[i - 1] + v[i]
               /\ Total(v) = a[Len(v)]
  BY <1>2, TotalUnfolds
<1>4. a[1] = a[0] + v[1]
  BY <1>2, <1>3
<1>5. Total(v) = Weight(k, x)
  BY <1>2, <1>3, <1>4
<1> QED BY <1>5 DEF Weighed, v, s

LEMMA WeighedAppend ==
  ASSUME NEW k, NEW S, Countable(k, S), NEW s \in Seq(S), NEW x \in S
  PROVE  Weighed(k, Append(s, x)) = Weighed(k, s) + Weight(k, x)
<1>1. Append(s, x) = s \o <<x>> /\ <<x>> \in Seq(S)
  OBVIOUS
<1>2. Weight(k, x) \in Nat
  BY DEF Countable
<1>3. Weighed(k, s \o <<x>>) = Weighed(k, s) + Weighed(k, <<x>>)
  BY <1>1, WeighedConcat
<1> QED BY <1>1, <1>2, <1>3, WeighedOne

LEMMA WeighedTail ==
  ASSUME NEW k, NEW S, Countable(k, S), NEW s \in Seq(S), s # <<>>
  PROVE  /\ Weighed(k, s) = Weight(k, Head(s)) + Weighed(k, Tail(s))
         /\ Head(s) \in S /\ Tail(s) \in Seq(S)
<1>1. /\ s = <<Head(s)>> \o Tail(s)
      /\ Head(s) \in S /\ Tail(s) \in Seq(S) /\ <<Head(s)>> \in Seq(S)
  OBVIOUS
<1>2. Weight(k, Head(s)) \in Nat
  BY <1>1 DEF Countable
<1>3. Weighed(k, <<Head(s)>> \o Tail(s)) = Weighed(k, <<Head(s)>>) + Weighed(k, Tail(s))
  BY <1>1, WeighedConcat
<1> QED BY <1>1, <1>2, <1>3, WeighedOne

\* A queue is what comes before element i, element i, and what comes after it.
LEMMA WeighedAround ==
  ASSUME NEW k, NEW S, Countable(k, S), NEW s \in Seq(S), NEW i \in 1 .. Len(s)
  PROVE  /\ Weighed(k, s) = Weighed(k, SubSeq(s, 1, i - 1)) + Weight(k, s[i])
                                  + Weighed(k, SubSeq(s, i + 1, Len(s)))
         /\ SubSeq(s, 1, i - 1) \in Seq(S) /\ SubSeq(s, i + 1, Len(s)) \in Seq(S)
<1> DEFINE p == SubSeq(s, 1, i - 1)  q == SubSeq(s, i + 1, Len(s))
<1>1. p \in Seq(S) /\ q \in Seq(S) /\ s[i] \in S /\ Len(s) \in Nat
  OBVIOUS
<1>6. Len(p) = i - 1 /\ \A j \in 1 .. i - 1 : p[j] = s[j]
  <2>1. /\ Len(p) = IF 1 <= i - 1 THEN (i - 1) - 1 + 1 ELSE 0
        /\ \A j \in 1 .. (i - 1) - 1 + 1 : p[j] = s[1 + j - 1]
    BY <1>1, SubSeqProperties
  <2> QED BY <1>1, <2>1
<1>7. Len(q) = Len(s) - i /\ \A j \in 1 .. Len(s) - i : q[j] = s[i + j]
  <2>1. /\ Len(q) = IF i + 1 <= Len(s) THEN Len(s) - (i + 1) + 1 ELSE 0
        /\ \A j \in 1 .. Len(s) - (i + 1) + 1 : q[j] = s[(i + 1) + j - 1]
    BY <1>1, SubSeqProperties
  <2> QED BY <1>1, <2>1
<1>2. s = Append(p, s[i]) \o q
  <2> HIDE DEF p, q
  <2> DEFINE u == Append(p, s[i])  t == u \o q
  <2>0. i \in Nat /\ i <= Len(s)
    BY <1>1
  <2>1. u \in Seq(S) /\ Len(u) = i /\ \A j \in 1 .. i : u[j] = s[j]
    BY <1>1, <1>6, <2>0
  <2> HIDE DEF u
  <2>2. /\ t \in Seq(S) /\ Len(t) = Len(s)
        /\ \A j \in 1 .. i : t[j] = u[j]
        /\ \A j \in i + 1 .. Len(s) : t[j] = q[j - i]
    <3>1. /\ t \in Seq(S) /\ Len(t) = Len(u) + Len(q)
          /\ \A j \in 1 .. Len(u) + Len(q) :
               t[j] = IF j <= Len(u) THEN u[j] ELSE q[j - Len(u)]
      BY <1>1, <2>1, ConcatProperties
    <3>2. Len(u) + Len(q) = Len(s)
      BY <1>1, <1>7, <2>0, <2>1
    <3> HIDE DEF t
    <3>3. ASSUME NEW j \in 1 .. i PROVE t[j] = u[j]
      BY <1>1, <2>0, <2>1, <3>1, <3>2
    <3>4. ASSUME NEW j \in i + 1 .. Len(s) PROVE t[j] = q[j - i]
      <4>1. j \in 1 .. Len(s) /\ ~ (j <= i)
        BY <1>1, <2>0
      <4> QED BY <2>1, <3>1, <3>2, <4>1
    <3> QED BY <3>1, <3>2, <3>3, <3>4
  <2> HIDE DEF t
  <2>3. ASSUME NEW j \in 1 .. Len(s) PROVE t[j] = s[j]
    <3>1. CASE j <= i
      BY <2>0, <2>1, <2>2, <3>1
    <3>2. CASE ~ (j <= i)
      <4>1. j \in i + 1 .. Len(s) /\ j - i \in 1 .. Len(s) - i /\ i + (j - i) = j
        BY <1>1, <2>0, <3>2
      <4> QED BY <1>7, <2>2, <4>1
    <3> QED BY <3>1, <3>2
  <2>4. t = s
    <3>1. s \in Seq(S) /\ t \in Seq(S) /\ Len(s) = Len(t) /\ \A j \in 1 .. Len(s) : s[j] = t[j]
      BY <2>2, <2>3
    <3> QED BY <3>1, SeqEqual
  <2> QED BY <2>4 DEF t, u
<1> HIDE DEF p, q
<1>3. Append(p, s[i]) \in Seq(S)
  BY <1>1
<1>4. Weighed(k, s) = Weighed(k, Append(p, s[i])) + Weighed(k, q)
  BY <1>1, <1>2, <1>3, WeighedConcat
<1>5. Weighed(k, Append(p, s[i])) = Weighed(k, p) + Weight(k, s[i])
  BY <1>1, WeighedAppend
<1> QED BY <1>1, <1>4, <1>5 DEF p, q

LEMMA WeighedRemove ==
  ASSUME NEW k, NEW S, Countable(k, S), NEW s \in Seq(S), NEW i \in 1 .. Len(s)
  PROVE  /\ Weighed(k, s) = Weighed(k, RemoveAt(s, i)) + Weight(k, s[i])
         /\ RemoveAt(s, i) \in Seq(S)
<1> DEFINE p == SubSeq(s, 1, i - 1)  q == SubSeq(s, i + 1, Len(s))
<1>1. /\ Weighed(k, s) = Weighed(k, p) + Weight(k, s[i]) + Weighed(k, q)
      /\ p \in Seq(S) /\ q \in Seq(S)
  BY WeighedAround
<1>2. RemoveAt(s, i) = p \o q
  BY DEF RemoveAt
<1>3. Weight(k, s[i]) \in Nat
  BY DEF Countable
<1> HIDE DEF p, q
<1>4. Weighed(k, p \o q) = Weighed(k, p) + Weighed(k, q)
  BY <1>1, WeighedConcat
<1>5. Weighed(k, p) \in Nat /\ Weighed(k, q) \in Nat
  BY <1>1, WeighedNumber
<1> QED BY <1>1, <1>2, <1>3, <1>4, <1>5

LEMMA WeighedChange ==
  ASSUME NEW k, NEW S, Countable(k, S), NEW s \in Seq(S), NEW i \in 1 .. Len(s), NEW x \in S
  PROVE  Weighed(k, [s EXCEPT ![i] = x]) + Weight(k, s[i]) = Weighed(k, s) + Weight(k, x)
<1> DEFINE p == SubSeq(s, 1, i - 1)  q == SubSeq(s, i + 1, Len(s))
           t == [s EXCEPT ![i] = x]
<1>1. /\ Weighed(k, s) = Weighed(k, p) + Weight(k, s[i]) + Weighed(k, q)
      /\ p \in Seq(S) /\ q \in Seq(S)
  BY WeighedAround
<1>2. t \in Seq(S) /\ Len(t) = Len(s) /\ t[i] = x /\ i \in 1 .. Len(t)
  OBVIOUS
<1>3. p = SubSeq(t, 1, i - 1) /\ q = SubSeq(t, i + 1, Len(t))
  OBVIOUS
<1> HIDE DEF p, q, t
<1>4. Weighed(k, t) = Weighed(k, p) + Weight(k, x) + Weighed(k, q)
  BY <1>2, <1>3, WeighedAround
<1>5. Weighed(k, p) \in Nat /\ Weighed(k, q) \in Nat
  BY <1>1, WeighedNumber
<1>6. Weight(k, s[i]) \in Nat /\ Weight(k, x) \in Nat
  BY DEF Countable
<1>7. Weighed(k, t) + Weight(k, s[i]) = Weighed(k, s) + Weight(k, x)
  BY <1>1, <1>4, <1>5, <1>6
<1> QED BY <1>7 DEF t

\* If every element counts for c, the sum is c times the length.
LEMMA WeighedSame ==
  ASSUME NEW k, NEW S, Countable(k, S), NEW s \in Seq(S), NEW c \in {0, 1},
         \A i \in 1 .. Len(s) : Weight(k, s[i]) = c
  PROVE  Weighed(k, s) = IF c = 0 THEN 0 ELSE Len(s)
<1> DEFINE v == Weights(k, s)
           b == [i \in 0 .. Len(s) |-> IF c = 0 THEN 0 ELSE i]
<1>1. v \in Seq(Nat) /\ Len(v) = Len(s) /\ Len(s) \in Nat /\ \A i \in 1 .. Len(s) : v[i] = c
  BY WeightsFacts
<1> HIDE DEF v
<1>2. b[0] = 0 /\ b[Len(v)] = IF c = 0 THEN 0 ELSE Len(s)
  BY <1>1
<1>3. \A i \in 1 .. Len(v) : b[i] = b[i - 1] + v[i]
  <2> SUFFICES ASSUME NEW i \in 1 .. Len(v) PROVE b[i] = b[i - 1] + v[i]
    OBVIOUS
  <2>1. i \in 0 .. Len(s) /\ i - 1 \in 0 .. Len(s) /\ v[i] = c /\ i \in Nat
    BY <1>1
  <2> QED BY <2>1
<1> HIDE DEF b
<1>4. Total(v) = b[Len(v)]
  BY <1>1, <1>2, <1>3, TotalIs
<1> QED BY <1>2, <1>4 DEF Weighed, v

-----------------------------------------------------------------------------
(* The books of the simulator. *)

Entries == [hid : HostIds, op : Ops, blkaddr : Nat, nblks : Nat \ {0},
            cmd_id : Tags \cup {CMD_NONE}, remaining_dma : Nat]

\* An entry of the submission queue lies within the name space, and expects a
\* block as long as it is ongoing.
Submitted == {e \in Entries : /\ e.blkaddr + e.nblks <= NSZE
                              /\ Ongoing(e) => e.remaining_dma # 0}

Commands == {c \in [tag : Tags, opc : {"rw"}, startLba : Nat, blocks : Nat \ {0}] :
               c.startLba + c.blocks <= NSZE}

Requests == [tag : Tags, num : Nat \ {0}]

RequestOf(t) == [of |-> "request", tag |-> t]
CommandOf(t) == [of |-> "command", tag |-> t]
CreditOf(t)  == [of |-> "credit", tag |-> t]
JobOf(h, op) == [of |-> "job", h |-> h, op |-> op]
OngoingKind  == [of |-> "ongoing"]

\* The front end's records are well-formed, and its count of ongoing entries right.
FrontEnd(f) ==
  /\ f \in [sq : Seq(Submitted), cq : Seq(Entries), cmd_id : Tags, ongoing : Nat]
  /\ f.ongoing = Weighed(OngoingKind, f.sq)

Debt(t) ==
  Weighed(CommandOf(t), cmdFifo)
  + Weighed(RequestOf(t), toSplit) + Weighed(RequestOf(t), sliceReqQ)
  + Weighed(RequestOf(t), waiting) + Weighed(RequestOf(t), issuing)

Jobs(f, h, op) == Weighed(JobOf(h, op), f.sq) + Weighed(JobOf(h, op), f.cq)

QueueTypes ==
  /\ cmdFifo \in Seq(Commands)
  /\ toSplit \in Seq(Requests) /\ sliceReqQ \in Seq(Requests)
  /\ waiting \in Seq(Requests) /\ issuing \in Seq(Requests)
  /\ issuing # <<>> => issuing = <<Head(issuing)>>
  /\ toSplit # <<>> => pc \in {"split", "sync"}

Books ==
  /\ made \in Nat
  /\ FrontEnd(fe)
  /\ complete_blks \in [HostIds -> [Ops -> Nat]]
  /\ QueueTypes
  /\ \A t \in Tags : Weighed(CreditOf(t), fe.sq) = Debt(t)
  /\ \A h \in HostIds, op \in Ops :
       Asked(made, h, op) = complete_blks[h][op] + Jobs(fe, h, op)

LEMMA WeightOf ==
  ASSUME NEW x, NEW t
  PROVE  /\ Weight(RequestOf(t), x) = IF x.tag = t THEN x.num ELSE 0
         /\ Weight(CommandOf(t), x) = IF x.tag = t THEN x.blocks ELSE 0
         /\ Weight(CreditOf(t), x) = IF x.cmd_id = t THEN x.remaining_dma ELSE 0
<1>1. /\ RequestOf(t).of = "request" /\ RequestOf(t).tag = t
      /\ CommandOf(t).of = "command" /\ CommandOf(t).tag = t
      /\ CreditOf(t).of = "credit" /\ CreditOf(t).tag = t
  BY DEF RequestOf, CommandOf, CreditOf
<1> QED BY <1>1 DEF Weight

LEMMA WeightOfJob ==
  ASSUME NEW x, NEW h, NEW op
  PROVE  Weight(JobOf(h, op), x) = IF x.hid = h /\ x.op = op THEN x.nblks ELSE 0
<1>1. JobOf(h, op).of = "job" /\ JobOf(h, op).h = h /\ JobOf(h, op).op = op
  BY DEF JobOf
<1> QED BY <1>1 DEF Weight

LEMMA WeightOfOngoing ==
  ASSUME NEW x
  PROVE  Weight(OngoingKind, x) = IF Ongoing(x) THEN 1 ELSE 0
<1>1. OngoingKind.of = "ongoing"
  BY DEF OngoingKind
<1> QED BY <1>1 DEF Weight

LEMMA TagsCountable ==
  ASSUME NEW t
  PROVE  /\ Countable(RequestOf(t), Requests)
         /\ Countable(CommandOf(t), Commands)
         /\ Countable(CreditOf(t), Submitted)
<1>1. Countable(RequestOf(t), Requests)
  BY WeightOf DEF Countable, Requests
<1>2. Countable(CommandOf(t), Commands)
  BY WeightOf DEF Countable, Commands
<1>3. Countable(CreditOf(t), Submitted)
  BY WeightOf DEF Countable, Submitted, Entries
<1> QED BY <1>1, <1>2, <1>3

LEMMA JobsCountable ==
  ASSUME NEW h, NEW op
  PROVE  Countable(JobOf(h, op), Submitted) /\ Countable(JobOf(h, op), Entries)
<1>1. Countable(JobOf(h, op), Entries)
  BY WeightOfJob DEF Countable, Entries
<1>2. Countable(JobOf(h, op), Submitted)
  BY <1>1 DEF Countable, Submitted
<1> QED BY <1>1, <1>2

LEMMA OngoingCountable == Countable(OngoingKind, Submitted)
BY WeightOfOngoing DEF Countable

\* What the properties of NvmeMain say is in the books.
LEMMA BooksImply ==
  ASSUME build = "simulator" => Books
  PROVE  CreditsExact /\ JobsConserved
<1> SUFFICES ASSUME build = "simulator", Books
             PROVE  /\ \A t \in Tags : Expected(t) = Owed(t)
                    /\ \A h \in HostIds, op \in Ops :
                         Asked(made, h, op) = complete_blks[h][op]
                                              + BlocksOf(fe.sq, h, op) + BlocksOf(fe.cq, h, op)
                    /\ fe.ongoing = Total([i \in DOMAIN fe.sq |->
                                             IF Ongoing(fe.sq[i]) THEN 1 ELSE 0])
  BY DEF CreditsExact, JobsConserved
<1>1. ASSUME NEW t \in Tags PROVE Expected(t) = Owed(t)
  <2>1. Expected(t) = Weighed(CreditOf(t), fe.sq)
    BY WeightOf, Zenon DEF Expected, Weighed, Weights
  <2>2. \A s : Blocks(s, t) = Weighed(RequestOf(t), s)
    BY WeightOf, Zenon DEF Blocks, Weighed, Weights
  <2>3. Total([i \in DOMAIN cmdFifo |-> IF cmdFifo[i].tag = t THEN cmdFifo[i].blocks ELSE 0])
          = Weighed(CommandOf(t), cmdFifo)
    BY WeightOf, Zenon DEF Weighed, Weights
  <2>4. Owed(t) = Debt(t)
    BY <2>2, <2>3 DEF Owed, Debt
  <2> QED BY <2>1, <2>4 DEF Books
<1>2. ASSUME NEW h \in HostIds, NEW op \in Ops
      PROVE  Asked(made, h, op) = complete_blks[h][op]
                                  + BlocksOf(fe.sq, h, op) + BlocksOf(fe.cq, h, op)
  <2>1. \A s : BlocksOf(s, h, op) = Weighed(JobOf(h, op), s)
    BY WeightOfJob, Zenon DEF BlocksOf, Weighed, Weights
  <2>2. fe.sq \in Seq(Submitted) /\ fe.cq \in Seq(Entries)
    BY DEF Books, FrontEnd
  <2>3. /\ Weighed(JobOf(h, op), fe.sq) \in Nat /\ Weighed(JobOf(h, op), fe.cq) \in Nat
        /\ complete_blks[h][op] \in Nat
    BY <2>2, JobsCountable, WeighedNumber DEF Books
  <2>4. Asked(made, h, op) = complete_blks[h][op]
          + (Weighed(JobOf(h, op), fe.sq) + Weighed(JobOf(h, op), fe.cq))
    BY DEF Books, Jobs
  <2> QED BY <2>1, <2>3, <2>4
<1>3. fe.ongoing = Total([i \in DOMAIN fe.sq |-> IF Ongoing(fe.sq[i]) THEN 1 ELSE 0])
  <2>1. Weighed(OngoingKind, fe.sq) = Total([i \in DOMAIN fe.sq |-> IF Ongoing(fe.sq[i]) THEN 1 ELSE 0])
    BY WeightOfOngoing, Zenon DEF Weighed, Weights
  <2> QED BY <2>1 DEF Books, FrontEnd
<1> QED BY <1>1, <1>2, <1>3

LEMMA InitBooks ==
  ASSUME MainInit
  PROVE  Books
<1> USE DEF MainInit, SimInit
<1>1. <<>> \in Seq(Submitted) /\ <<>> \in Seq(Entries) /\ <<>> \in Seq(Commands)
      /\ <<>> \in Seq(Requests)
  OBVIOUS
<1>2. FrontEnd(fe)
  <2>1. fe.sq = <<>> /\ fe.cq = <<>> /\ fe.ongoing = 0
    OBVIOUS
  <2>2. fe \in [sq : Seq(Submitted), cq : Seq(Entries), cmd_id : Tags, ongoing : Nat]
    BY <1>1, TagAssumption DEF Tags
  <2> QED BY <2>1, <2>2, WeighedNone DEF FrontEnd
<1>3. ASSUME NEW t \in Tags PROVE Weighed(CreditOf(t), fe.sq) = Debt(t)
  BY WeighedNone DEF Debt
<1>4. ASSUME NEW h \in HostIds, NEW op \in Ops
      PROVE  Asked(made, h, op) = complete_blks[h][op] + Jobs(fe, h, op)
  <2>1. Asked(0, h, op) = 0
    <3> DEFINE v == [i \in 1 .. 0 |-> IF HostOf(i - 1) = h /\ SelectOp(i - 1) = op
                                      THEN Config[h].nblks ELSE 0]
    <3>1. v = <<>> /\ <<>> = Weights(OngoingKind, <<>>)
      BY DEF Weights
    <3> HIDE DEF v
    <3>2. Total(v) = 0
      BY <3>1, WeighedNone DEF Weighed
    <3> QED BY <3>2, Zenon DEF Asked, v
  <2>2. complete_blks[h][op] = 0 /\ Jobs(fe, h, op) = 0
    BY WeighedNone DEF Jobs
  <2> QED BY <2>1, <2>2
<1> QED BY <1>1, <1>2, <1>3, <1>4 DEF Books, QueueTypes

-----------------------------------------------------------------------------
(* The steps of the front end. *)

\* An entry that may be sent is there: not all of the queue is ongoing.
LEMMA SomeNotOngoing ==
  ASSUME FrontEnd(fe), MaySend
  PROVE  Next1st \in 1 .. Len(fe.sq) /\ ~ Ongoing(fe.sq[Next1st])
<1>1. fe.sq \in Seq(Submitted) /\ fe.ongoing = Weighed(OngoingKind, fe.sq)
  BY DEF FrontEnd
<1>2. Len(fe.sq) \in Nat /\ DOMAIN fe.sq = 1 .. Len(fe.sq) /\ Len(fe.sq) > fe.ongoing
  BY <1>1 DEF MaySend
<1> DEFINE T == {i \in 1 .. Len(fe.sq) : ~ Ongoing(fe.sq[i])}
<1>3. T # {}
  <2> SUFFICES ASSUME T = {} PROVE FALSE
    OBVIOUS
  <2>1. \A i \in 1 .. Len(fe.sq) : Weight(OngoingKind, fe.sq[i]) = 1
    BY WeightOfOngoing
  <2>2. Countable(OngoingKind, Submitted)
    BY OngoingCountable
  <2>3. Weighed(OngoingKind, fe.sq) = IF 1 = 0 THEN 0 ELSE Len(fe.sq)
    BY <1>1, <2>1, <2>2, WeighedSame
  <2> QED BY <1>1, <1>2, <2>3
<1>4. PICK i \in T : \A j \in T : i <= j
  <2>1. T \subseteq Nat
    BY <1>2
  <2> HIDE DEF T
  <2> QED BY <1>3, <2>1, LeastNumber
<1>5. /\ i \in DOMAIN fe.sq
      /\ ~ Ongoing(fe.sq[i]) /\ \A k \in 1 .. i - 1 : Ongoing(fe.sq[k])
  <2>1. ASSUME NEW k \in 1 .. i - 1 PROVE Ongoing(fe.sq[k])
    <3>1. k \in 1 .. Len(fe.sq) /\ ~ (i <= k)
      BY <1>2, <1>4
    <3> QED BY <1>4, <3>1
  <2> QED BY <1>2, <1>4, <2>1
<1> QED BY <1>2, <1>5, Zenon DEF Next1st

\* The front end and what it expects after the sending of a command: as many
\* blocks more, for each tag, as the command in the register asks for.
SentKeeps(f, g, fifo, sent) ==
  /\ FrontEnd(g)
  /\ sent \in Seq(Commands)
  /\ \A t \in Tags :
       Weighed(CreditOf(t), g.sq) + Weighed(CommandOf(t), fifo)
         = Weighed(CreditOf(t), f.sq) + Weighed(CommandOf(t), sent)
  /\ \A h \in HostIds, op \in Ops : Jobs(g, h, op) = Jobs(f, h, op)

LEMMA SentBooks ==
  ASSUME FrontEnd(fe), cmdFifo \in Seq(Commands)
  PROVE  SentKeeps(fe, FeSent, cmdFifo, FifoSent)
<1>1. CASE ~ MaySend
  <2>1. FeSent = fe /\ FifoSent = cmdFifo
    BY <1>1 DEF FeSent, FifoSent
  <2> QED BY <2>1 DEF SentKeeps
<1>2. CASE MaySend
  <2> DEFINE i == Next1st
             e == fe.sq[i]
             x == Sent(e, fe.cmd_id)
             c == [tag |-> fe.cmd_id, opc |-> "rw", startLba |-> e.blkaddr, blocks |-> e.nblks]
             q == [fe.sq EXCEPT ![i] = x]
  <2>1. i \in 1 .. Len(fe.sq) /\ ~ Ongoing(e)
    BY <1>2, SomeNotOngoing
  <2>2. /\ fe \in [sq : Seq(Submitted), cq : Seq(Entries), cmd_id : Tags, ongoing : Nat]
        /\ fe.sq \in Seq(Submitted) /\ fe.cq \in Seq(Entries) /\ fe.cmd_id \in Tags
        /\ fe.ongoing \in Nat /\ fe.ongoing = Weighed(OngoingKind, fe.sq)
    BY DEF FrontEnd
  <2>3. /\ FeSent = [sq |-> q, cq |-> fe.cq, cmd_id |-> (fe.cmd_id + 1) % TAGS,
                     ongoing |-> fe.ongoing + 1]
        /\ FifoSent = <<c>> /\ cmdFifo = <<>>
    <3>1. FifoSent = <<c>> /\ cmdFifo = <<>>
      BY <1>2 DEF FifoSent, MaySend
    <3>2. FeSent = [fe EXCEPT !.sq = q, !.cmd_id = (@ + 1) % TAGS, !.ongoing = @ + 1]
      BY <1>2, <2>1, <2>2 DEF FeSent
    <3> HIDE DEF q
    <3> QED BY <2>2, <3>1, <3>2
  <2>4. e \in Submitted
    BY <2>1, <2>2
  <2> HIDE DEF i, e
  <2>5. /\ e \in Entries /\ e.blkaddr \in Nat /\ e.nblks \in Nat \ {0}
        /\ e.blkaddr + e.nblks <= NSZE /\ e.hid \in HostIds /\ e.op \in Ops
        /\ e.cmd_id = CMD_NONE
    BY <2>1, <2>4 DEF Submitted, Entries, Ongoing
  <2>6. /\ x \in Submitted /\ x.hid = e.hid /\ x.op = e.op /\ x.nblks = e.nblks
        /\ x.cmd_id = fe.cmd_id /\ x.remaining_dma = e.nblks /\ Ongoing(x)
    <3>1. x = [hid |-> e.hid, op |-> e.op, blkaddr |-> e.blkaddr, nblks |-> e.nblks,
               cmd_id |-> fe.cmd_id, remaining_dma |-> e.nblks]
      <4>1. e = [hid |-> e.hid, op |-> e.op, blkaddr |-> e.blkaddr, nblks |-> e.nblks,
                 cmd_id |-> e.cmd_id, remaining_dma |-> e.remaining_dma]
        BY <2>5 DEF Entries
      <4>2. x = [e EXCEPT !.cmd_id = fe.cmd_id, !.remaining_dma = e.nblks]
        BY DEF Sent
      <4> HIDE DEF x
      <4> QED BY <4>1, <4>2
    <3>2. fe.cmd_id # CMD_NONE
      BY <2>2, TagAssumption DEF Tags, CMD_NONE
    <3> HIDE DEF x
    <3>3. x \in Entries
      BY <2>2, <2>5, <3>1 DEF Entries
    <3> QED BY <2>5, <3>1, <3>2, <3>3 DEF Submitted, Ongoing
  <2>7. c \in Commands /\ c.tag = fe.cmd_id /\ c.blocks = e.nblks
    BY <2>2, <2>5 DEF Commands
  <2>8. q \in Seq(Submitted)
    BY <2>1, <2>2, <2>6 DEF i
  <2> HIDE DEF x, c
  <2>9. ASSUME NEW k, Countable(k, Submitted)
        PROVE  Weighed(k, q) + Weight(k, e) = Weighed(k, fe.sq) + Weight(k, x)
    BY <2>1, <2>2, <2>6, <2>9, WeighedChange DEF e
  <2> HIDE DEF q
  <2>10. (fe.cmd_id + 1) % TAGS \in Tags
    BY <2>2, TagAssumption DEF Tags
  <2>11. FrontEnd(FeSent)
    <3>1. /\ Weight(OngoingKind, e) = 0 /\ Weight(OngoingKind, x) = 1
          /\ Countable(OngoingKind, Submitted)
      BY <2>1, <2>6, WeightOfOngoing, OngoingCountable
    <3>2. Weighed(OngoingKind, q) = fe.ongoing + 1
      <4>1. Weighed(OngoingKind, q) \in Nat
        BY <2>8, <3>1, WeighedNumber
      <4>2. Weighed(OngoingKind, q) + Weight(OngoingKind, e) = Weighed(OngoingKind, fe.sq) + Weight(OngoingKind, x)
        BY <2>9, <3>1
      <4> QED BY <2>2, <3>1, <4>1, <4>2
    <3> QED BY <2>2, <2>3, <2>8, <2>10, <3>2 DEF FrontEnd
  <2>12. FifoSent \in Seq(Commands)
    BY <2>3, <2>7
  <2>13. ASSUME NEW t \in Tags
         PROVE  Weighed(CreditOf(t), FeSent.sq) + Weighed(CommandOf(t), cmdFifo)
                  = Weighed(CreditOf(t), fe.sq) + Weighed(CommandOf(t), FifoSent)
    <3>1. Weighed(CommandOf(t), cmdFifo) = 0
      BY <2>3, WeighedNone
    <3>2. Weight(CommandOf(t), c) = Weight(CreditOf(t), x) /\ Weight(CommandOf(t), c) \in Nat
      BY <2>5, <2>6, <2>7, WeightOf
    <3>3. Weighed(CommandOf(t), FifoSent) = Weight(CommandOf(t), c)
      BY <2>3, <3>2, WeighedOne
    <3>4. Weight(CreditOf(t), e) = 0
      <4>1. t # CMD_NONE
        BY TagAssumption DEF Tags, CMD_NONE
      <4> QED BY <2>5, <4>1, WeightOf
    <3>5. Weighed(CreditOf(t), q) + Weight(CreditOf(t), e) = Weighed(CreditOf(t), fe.sq) + Weight(CreditOf(t), x)
      BY <2>9, TagsCountable
    <3>6. Weighed(CreditOf(t), q) \in Nat
      BY <2>8, TagsCountable, WeighedNumber
    <3> QED BY <2>3, <3>1, <3>2, <3>3, <3>4, <3>5, <3>6
  <2>14. ASSUME NEW h \in HostIds, NEW op \in Ops
         PROVE  Jobs(FeSent, h, op) = Jobs(fe, h, op)
    <3>1. Weight(JobOf(h, op), e) = Weight(JobOf(h, op), x) /\ Weight(JobOf(h, op), e) \in Nat
      BY <2>5, <2>6, WeightOfJob
    <3>2. Weighed(JobOf(h, op), q) + Weight(JobOf(h, op), e)
            = Weighed(JobOf(h, op), fe.sq) + Weight(JobOf(h, op), x)
      BY <2>9, JobsCountable
    <3>3. Weighed(JobOf(h, op), q) \in Nat /\ Weighed(JobOf(h, op), fe.sq) \in Nat
      BY <2>2, <2>8, JobsCountable, WeighedNumber
    <3>4. Weighed(JobOf(h, op), q) = Weighed(JobOf(h, op), fe.sq)
      BY <3>1, <3>2, <3>3
    <3> QED BY <2>3, <3>4 DEF Jobs
  <2> QED BY <2>11, <2>12, <2>13, <2>14 DEF SentKeeps
<1> QED BY <1>1, <1>2

\* A block credited under a tag for which some entry expects one: the tag is owed
\* one block less, and nothing else changes.
CreditKeeps(f, g, tag) ==
  /\ FrontEnd(g)
  /\ \A t \in Tags :
       Weighed(CreditOf(t), f.sq)
         = Weighed(CreditOf(t), g.sq) + (IF t = tag THEN 1 ELSE 0)
  /\ \A h \in HostIds, op \in Ops : Jobs(g, h, op) = Jobs(f, h, op)

LEMMA CreditedBooks ==
  ASSUME NEW f, NEW tag \in Tags, FrontEnd(f), Weighed(CreditOf(tag), f.sq) # 0
  PROVE  CreditKeeps(f, Credited(f, tag), tag)
<1> DEFINE hits == {i \in DOMAIN f.sq : f.sq[i].cmd_id = tag}
           i == CHOOSE k \in hits : \A other \in hits : k <= other
           e == f.sq[i]
<1>1. /\ f \in [sq : Seq(Submitted), cq : Seq(Entries), cmd_id : Tags, ongoing : Nat]
      /\ f.sq \in Seq(Submitted) /\ f.cq \in Seq(Entries) /\ f.cmd_id \in Tags
      /\ f.ongoing \in Nat /\ f.ongoing = Weighed(OngoingKind, f.sq)
      /\ Len(f.sq) \in Nat /\ DOMAIN f.sq = 1 .. Len(f.sq)
  <2>1. f \in [sq : Seq(Submitted), cq : Seq(Entries), cmd_id : Tags, ongoing : Nat]
        /\ f.ongoing = Weighed(OngoingKind, f.sq)
    BY DEF FrontEnd
  <2> QED BY <2>1
<1>2. hits # {}
  <2> SUFFICES ASSUME hits = {} PROVE FALSE
    OBVIOUS
  <2>1. \A j \in 1 .. Len(f.sq) : Weight(CreditOf(tag), f.sq[j]) = 0
    BY <1>1, WeightOf
  <2>2. Countable(CreditOf(tag), Submitted)
    BY TagsCountable
  <2>3. Weighed(CreditOf(tag), f.sq) = IF 0 = 0 THEN 0 ELSE Len(f.sq)
    BY <1>1, <2>1, <2>2, WeighedSame
  <2> QED BY <2>3
<1>3. i \in hits
  <2>1. hits \subseteq Nat
    BY <1>1
  <2> HIDE DEF hits
  <2>2. \E k \in hits : \A other \in hits : k <= other
    BY <1>2, <2>1, LeastNumber
  <2> QED BY <2>2
<1>4. Credited(f, tag) =
        IF e.remaining_dma > 1
        THEN [f EXCEPT !.sq[i].remaining_dma = @ - 1]
        ELSE [f EXCEPT !.sq = RemoveAt(@, i),
                       !.cq = Append(@, [e EXCEPT !.remaining_dma = 0]),
                       !.ongoing = @ - 1]
  BY <1>2, Zenon DEF Credited
<1>5. i \in 1 .. Len(f.sq) /\ e.cmd_id = tag
  BY <1>1, <1>3
<1> HIDE DEF hits, i
<1>6. e \in Submitted
  BY <1>1, <1>5
<1>7. e.remaining_dma \in Nat \ {0} /\ Ongoing(e) /\ e \in Entries
  <2>1. tag # CMD_NONE
    BY TagAssumption DEF Tags, CMD_NONE
  <2> QED BY <1>5, <1>6, <2>1 DEF Submitted, Entries, Ongoing
<1>8. CASE e.remaining_dma > 1
  <2> DEFINE x == [e EXCEPT !.remaining_dma = @ - 1]
             q == [f.sq EXCEPT ![i] = x]
  <2>1. Credited(f, tag) = [f EXCEPT !.sq = q]
    BY <1>1, <1>4, <1>5, <1>8
  <2>2. Credited(f, tag) = [sq |-> q, cq |-> f.cq, cmd_id |-> f.cmd_id, ongoing |-> f.ongoing]
    <3> HIDE DEF q
    <3> QED BY <1>1, <2>1
  <2> HIDE DEF e
  <2>3. /\ x \in Submitted /\ x.hid = e.hid /\ x.op = e.op /\ x.nblks = e.nblks
        /\ x.cmd_id = e.cmd_id /\ x.remaining_dma = e.remaining_dma - 1 /\ Ongoing(x)
    <3>1. x = [hid |-> e.hid, op |-> e.op, blkaddr |-> e.blkaddr, nblks |-> e.nblks,
               cmd_id |-> e.cmd_id, remaining_dma |-> e.remaining_dma - 1]
      BY <1>7 DEF Entries
    <3> HIDE DEF x
    <3>3. x \in Entries
      <4>1. e.remaining_dma - 1 \in Nat
        BY <1>7
      <4> QED BY <1>7, <3>1, <4>1 DEF Entries
    <3>4. e.remaining_dma - 1 # 0
      BY <1>7, <1>8
    <3> QED BY <1>6, <1>7, <3>1, <3>3, <3>4 DEF Submitted, Ongoing
  <2> HIDE DEF x
  <2>4. q \in Seq(Submitted)
    BY <1>1, <1>5, <2>3
  <2>5. ASSUME NEW k, Countable(k, Submitted)
        PROVE  Weighed(k, q) + Weight(k, e) = Weighed(k, f.sq) + Weight(k, x)
    BY <1>1, <1>5, <2>3, <2>5, WeighedChange DEF e
  <2> HIDE DEF q
  <2>6. ASSUME NEW k, Countable(k, Submitted)
        PROVE  /\ Weighed(k, q) \in Nat /\ Weighed(k, f.sq) \in Nat
               /\ Weight(k, e) \in Nat /\ Weight(k, x) \in Nat
    <3>1. Weighed(k, q) \in Nat /\ Weighed(k, f.sq) \in Nat
      BY <1>1, <2>4, <2>6, WeighedNumber
    <3>2. Weight(k, e) \in Nat /\ Weight(k, x) \in Nat
      BY <1>6, <2>3, <2>6 DEF Countable
    <3> QED BY <3>1, <3>2
  <2>7. FrontEnd(Credited(f, tag))
    <3>1. Weight(OngoingKind, e) = Weight(OngoingKind, x) /\ Countable(OngoingKind, Submitted)
      BY <1>7, <2>3, WeightOfOngoing, OngoingCountable
    <3>2. Weighed(OngoingKind, q) = f.ongoing
      BY <1>1, <2>5, <2>6, <3>1
    <3> QED BY <1>1, <2>2, <2>4, <3>2 DEF FrontEnd
  <2>8. ASSUME NEW t \in Tags
        PROVE  Weighed(CreditOf(t), f.sq)
                 = Weighed(CreditOf(t), Credited(f, tag).sq) + (IF t = tag THEN 1 ELSE 0)
    <3>1. Countable(CreditOf(t), Submitted)
      BY TagsCountable
    <3>2. Weight(CreditOf(t), e) = Weight(CreditOf(t), x) + (IF t = tag THEN 1 ELSE 0)
      BY <1>5, <1>7, <2>3, WeightOf
    <3> QED BY <2>2, <2>5, <2>6, <3>1, <3>2
  <2>9. ASSUME NEW h \in HostIds, NEW op \in Ops
        PROVE  Jobs(Credited(f, tag), h, op) = Jobs(f, h, op)
    <3>1. Countable(JobOf(h, op), Submitted)
      BY JobsCountable
    <3>2. Weight(JobOf(h, op), e) = Weight(JobOf(h, op), x)
      BY <2>3, WeightOfJob
    <3>3. Weighed(JobOf(h, op), q) = Weighed(JobOf(h, op), f.sq)
      BY <2>5, <2>6, <3>1, <3>2
    <3> QED BY <2>2, <3>3 DEF Jobs
  <2> QED BY <2>7, <2>8, <2>9 DEF CreditKeeps
<1>9. CASE ~ (e.remaining_dma > 1)
  <2> DEFINE x == [e EXCEPT !.remaining_dma = 0]
             q == RemoveAt(f.sq, i)
             d == Append(f.cq, x)
  <2>1. Credited(f, tag) = [f EXCEPT !.sq = q, !.cq = d, !.ongoing = @ - 1]
    BY <1>4, <1>9
  <2>2. Credited(f, tag) = [sq |-> q, cq |-> d, cmd_id |-> f.cmd_id, ongoing |-> f.ongoing - 1]
    <3> HIDE DEF q, d
    <3> QED BY <1>1, <2>1
  <2>0. e.remaining_dma = 1
    BY <1>7, <1>9
  <2> HIDE DEF e
  <2>3. x \in Entries /\ x.hid = e.hid /\ x.op = e.op /\ x.nblks = e.nblks
    <3>1. x = [hid |-> e.hid, op |-> e.op, blkaddr |-> e.blkaddr, nblks |-> e.nblks,
               cmd_id |-> e.cmd_id, remaining_dma |-> 0]
      BY <1>7 DEF Entries
    <3> HIDE DEF x
    <3> QED BY <1>7, <3>1 DEF Entries
  <2> HIDE DEF x
  <2>5. ASSUME NEW k, Countable(k, Submitted)
        PROVE  /\ Weighed(k, f.sq) = Weighed(k, q) + Weight(k, e)
               /\ q \in Seq(Submitted)
    BY <1>1, <1>5, <2>5, WeighedRemove DEF e
  <2>4. q \in Seq(Submitted) /\ d \in Seq(Entries)
    BY <1>1, <2>3, <2>5, OngoingCountable
  <2>10. ASSUME NEW h, NEW op
         PROVE  Weighed(JobOf(h, op), d) = Weighed(JobOf(h, op), f.cq) + Weight(JobOf(h, op), x)
    BY <1>1, <2>3, JobsCountable, WeighedAppend
  <2> HIDE DEF q, d
  <2>6. ASSUME NEW k, Countable(k, Submitted)
        PROVE  /\ Weighed(k, q) \in Nat /\ Weighed(k, f.sq) \in Nat
               /\ Weight(k, e) \in Nat
    <3>1. Weighed(k, q) \in Nat /\ Weighed(k, f.sq) \in Nat
      BY <1>1, <2>4, <2>6, WeighedNumber
    <3>2. Weight(k, e) \in Nat
      BY <1>6, <2>6 DEF Countable
    <3> QED BY <3>1, <3>2
  <2>7. FrontEnd(Credited(f, tag))
    <3>1. Weight(OngoingKind, e) = 1 /\ Countable(OngoingKind, Submitted)
      BY <1>7, WeightOfOngoing, OngoingCountable
    <3>2. Weighed(OngoingKind, q) = f.ongoing - 1 /\ f.ongoing - 1 \in Nat
      BY <1>1, <2>5, <2>6, <3>1
    <3> QED BY <1>1, <2>2, <2>4, <3>2 DEF FrontEnd
  <2>8. ASSUME NEW t \in Tags
        PROVE  Weighed(CreditOf(t), f.sq)
                 = Weighed(CreditOf(t), Credited(f, tag).sq) + (IF t = tag THEN 1 ELSE 0)
    <3>1. Countable(CreditOf(t), Submitted)
      BY TagsCountable
    <3>2. Weight(CreditOf(t), e) = IF t = tag THEN 1 ELSE 0
      BY <1>5, <2>0, WeightOf
    <3> QED BY <2>2, <2>5, <3>1, <3>2
  <2>9. ASSUME NEW h \in HostIds, NEW op \in Ops
        PROVE  Jobs(Credited(f, tag), h, op) = Jobs(f, h, op)
    <3>1. Countable(JobOf(h, op), Submitted) /\ Countable(JobOf(h, op), Entries)
      BY JobsCountable
    <3>2. Weight(JobOf(h, op), e) = Weight(JobOf(h, op), x)
      BY <2>3, WeightOfJob
    <3>3. Weighed(JobOf(h, op), f.cq) \in Nat
      BY <1>1, <3>1, WeighedNumber
    <3>4. Weighed(JobOf(h, op), q) + Weighed(JobOf(h, op), d)
            = Weighed(JobOf(h, op), f.sq) + Weighed(JobOf(h, op), f.cq)
      BY <2>5, <2>6, <2>10, <3>1, <3>2, <3>3
    <3> QED BY <2>2, <3>4 DEF Jobs
  <2> QED BY <2>7, <2>8, <2>9 DEF CreditKeeps
<1> QED BY <1>8, <1>9

-----------------------------------------------------------------------------
(* The slices of a command have its blocks. *)

LEMMA DivMod ==
  ASSUME NEW a \in Nat, NEW B \in Nat \ {0}
  PROVE  /\ a \div B \in Nat /\ a % B \in Nat
         /\ a % B < B
         /\ a = (B * (a \div B)) + (a % B)
OBVIOUS

LEMMA Multiples ==
  ASSUME NEW B \in Nat, NEW k \in Nat, NEW l \in Nat, k <= l
  PROVE  /\ k * B \in Nat /\ l * B \in Nat
         /\ k * B <= l * B
         /\ (l + 1) * B = l * B + B
<1>1. PICK d \in Nat : l = k + d
  <2>1. l - k \in Nat /\ l = k + (l - k)
    OBVIOUS
  <2> QED BY <2>1
<1>2. l * B = k * B + d * B /\ k * B \in Nat /\ d * B \in Nat
  BY <1>1
<1> QED BY <1>2

LEMMA SizesTotal ==
  ASSUME NEW first \in Nat, NEW n \in Nat \ {0}
  PROVE  /\ SliceSizes(first, n) \in Seq(Nat \ {0})
         /\ Total(SliceSizes(first, n)) = n
<1> DEFINE B     == NVME_BLOCKS_PER_SLICE
           from  == first \div B
           upto  == (first + n - 1) \div B
           lo(s) == IF s = from THEN first ELSE s * B
           hi(s) == IF s = upto THEN first + n ELSE (s + 1) * B
           count == upto - from + 1
           v     == [i \in 1 .. count |-> hi(from + i - 1) - lo(from + i - 1)]
           b     == [i \in 0 .. count |-> IF i = 0 THEN 0 ELSE hi(from + i - 1) - first]
<1>1. v = SliceSizes(first, n)
  BY DEF SliceSizes
<1>2. B \in Nat \ {0} /\ first + n - 1 \in Nat
  BY BlocksAssumption
<1> HIDE DEF B
<1>3. /\ from \in Nat /\ from * B <= first /\ first < from * B + B /\ from * B \in Nat
  <2>1. from \in Nat /\ first % B \in Nat /\ first % B < B /\ first = B * from + (first % B)
    BY <1>2, DivMod
  <2> HIDE DEF from
  <2>2. B * from = from * B /\ from * B \in Nat
    BY <1>2, <2>1
  <2> QED BY <1>2, <2>1, <2>2
<1>4. /\ upto \in Nat /\ upto * B <= first + n - 1 /\ first + n - 1 < upto * B + B
      /\ upto * B \in Nat
  <2> DEFINE end == first + n - 1
  <2>1. upto \in Nat /\ end % B \in Nat /\ end % B < B /\ end = B * upto + (end % B)
    BY <1>2, DivMod
  <2> HIDE DEF upto
  <2>2. B * upto = upto * B /\ upto * B \in Nat
    BY <1>2, <2>1
  <2> QED BY <1>2, <2>1, <2>2
<1> HIDE DEF from, upto
<1>5. from <= upto
  <2> SUFFICES ASSUME ~ (from <= upto) PROVE FALSE
    OBVIOUS
  <2>1. upto + 1 <= from /\ upto + 1 \in Nat
    BY <1>3, <1>4
  <2>2. (upto + 1) * B <= from * B
    BY <1>2, <1>3, <2>1, Multiples
  <2>3. (upto + 1) * B = upto * B + B
    BY <1>2, <1>4, Multiples
  <2> QED BY <1>2, <1>3, <1>4, <2>2, <2>3
<1>6. count \in Nat \ {0}
  BY <1>3, <1>4, <1>5
<1>7. ASSUME NEW s \in from .. upto
      PROVE  /\ hi(s) \in Nat /\ lo(s) \in Nat /\ hi(s) - lo(s) \in Nat \ {0}
             /\ s \in Nat
  <2>1. s \in Nat /\ from <= s /\ s <= upto
    BY <1>3, <1>4
  <2>2. s * B \in Nat /\ (s + 1) * B = s * B + B /\ from * B <= s * B
    BY <1>2, <1>3, <2>1, Multiples
  <2>3. s * B <= upto * B
    BY <1>2, <1>4, <2>1, Multiples
  <2> QED BY <1>2, <1>3, <1>4, <2>1, <2>2, <2>3
<1>8. ASSUME NEW i \in 1 .. count
      PROVE  from + i - 1 \in from .. upto /\ i \in Nat /\ i # 0
  BY <1>3, <1>4, <1>6
<1>9. v \in Seq(Nat \ {0}) /\ Len(v) = count
  <2>1. \A i \in 1 .. count : v[i] \in Nat \ {0}
    BY <1>7, <1>8
  <2>2. v \in [1 .. count -> Nat \ {0}]
    BY <2>1
  <2> HIDE DEF v, count
  <2> QED BY <1>6, <2>2
<1>10. b[0] = 0
  BY <1>6
<1>11. ASSUME NEW i \in 1 .. Len(v)
       PROVE  b[i] = b[i - 1] + v[i]
  <2> DEFINE s == from + i - 1
  <2>0. i \in 1 .. count
    BY <1>9
  <2>1. /\ s \in from .. upto /\ i \in Nat /\ i # 0 /\ i \in 0 .. count /\ i - 1 \in 0 .. count
    BY <1>6, <1>8, <2>0
  <2>2. v[i] = hi(s) - lo(s) /\ b[i] = hi(s) - first
    BY <2>0, <2>1
  <2>3. hi(s) \in Nat /\ lo(s) \in Nat /\ s \in Nat
    BY <1>7, <2>1
  <2>4. CASE i = 1
    <3>1. lo(s) = first /\ b[i - 1] = 0
      BY <1>3, <1>10, <2>4
    <3> HIDE DEF b, v, hi, lo
    <3> QED BY <2>2, <2>3, <3>1
  <2>5. CASE i # 1
    <3>1. lo(s) = s * B /\ s # from
      BY <1>3, <2>1, <2>5
    <3>2. /\ from + (i - 1) - 1 = s - 1 /\ (s - 1) + 1 = s /\ s - 1 # upto /\ i - 1 # 0
      BY <1>3, <1>4, <2>1, <2>3, <2>5
    <3>3. hi(s - 1) = s * B
      BY <3>2
    <3>4. b[i - 1] = hi(from + (i - 1) - 1) - first
      BY <2>1, <3>2
    <3>5. b[i - 1] = s * B - first
      BY <3>2, <3>3, <3>4
    <3> HIDE DEF b, v, hi, lo, s
    <3> QED BY <2>2, <2>3, <3>1, <3>5
  <2> QED BY <2>4, <2>5
<1>12. b[count] = n
  <2>1. count \in 0 .. count /\ count # 0 /\ from + count - 1 = upto
    BY <1>3, <1>4, <1>6
  <2>2. b[count] = hi(upto) - first
    BY <2>1
  <2> HIDE DEF b
  <2> QED BY <2>2
<1> HIDE DEF b, v, count
<1>13. Total(v) = b[Len(v)]
  BY <1>9, <1>10, <1>11, TotalIs
<1> QED BY <1>1, <1>9, <1>12, <1>13

-----------------------------------------------------------------------------
(* The steps of the firmware, while the simulator runs. *)

LEMMA QueuesMoved ==
  ASSUME Books, UNCHANGED <<made, fe, complete_blks>>, QueueTypes',
         \A t \in Tags : Debt(t)' = Debt(t)
  PROVE  Books'
<1>1. ASSUME NEW t \in Tags PROVE Weighed(CreditOf(t), fe'.sq) = Debt(t)'
  BY DEF Books
<1>2. ASSUME NEW h \in HostIds, NEW op \in Ops
      PROVE  Asked(made', h, op) = complete_blks'[h][op] + Jobs(fe', h, op)
  BY DEF Books
<1>3. made' \in Nat /\ FrontEnd(fe') /\ complete_blks' \in [HostIds -> [Ops -> Nat]]
  BY DEF Books
<1> QED BY <1>1, <1>2, <1>3 DEF Books

\* What the queues of the firmware weigh.
LEMMA QueueNumbers ==
  ASSUME QueueTypes, NEW t
  PROVE  /\ Weighed(CommandOf(t), cmdFifo) \in Nat
         /\ Weighed(RequestOf(t), toSplit) \in Nat /\ Weighed(RequestOf(t), sliceReqQ) \in Nat
         /\ Weighed(RequestOf(t), waiting) \in Nat /\ Weighed(RequestOf(t), issuing) \in Nat
BY TagsCountable, WeighedNumber DEF QueueTypes

LEMMA NothingMoves ==
  ASSUME Books, UNCHANGED <<made, fe, complete_blks, cmdFifo, work>>,
         toSplit = <<>> \/ pc' \in {"split", "sync"}
  PROVE  Books'
<1>1. QueueTypes'
  BY DEF Books, QueueTypes, work
<1>2. \A t \in Tags : Debt(t)' = Debt(t)
  BY DEF Debt, work
<1> QED BY <1>1, <1>2, QueuesMoved

LEMMA IoCommandBooks ==
  ASSUME Books, build = "simulator", IoCommand
  PROVE  Books'
<1>1. PICK c \in {cmdFifo[i] : i \in 1 .. Len(cmdFifo)} :
        /\ TakesCommand(c)
        /\ IF c.opc = "rw" /\ InRange(c)
           THEN /\ toSplit' = [i \in DOMAIN SliceSizes(c.startLba, c.blocks) |->
                            [tag |-> c.tag, num |-> SliceSizes(c.startLba, c.blocks)[i]]]
                /\ pc' = "split"
           ELSE TRUE
        /\ UNCHANGED <<sliceReqQ, waiting, issuing>>
  BY DEF IoCommand
<1>2. /\ pc = "status" /\ cmdFifo # <<>> /\ c = Head(cmdFifo) /\ cmdFifo' = Tail(cmdFifo)
      /\ UNCHANGED <<made, fe, complete_blks>>
  BY <1>1 DEF TakesCommand, simVars
<1>3. QueueTypes /\ cmdFifo \in Seq(Commands)
  BY DEF Books, QueueTypes
<1>4. c \in Commands /\ Tail(cmdFifo) \in Seq(Commands)
  BY <1>2, <1>3
<1>5. /\ c.tag \in Tags /\ c.opc = "rw" /\ c.startLba \in Nat /\ c.blocks \in Nat \ {0}
      /\ c.startLba + c.blocks <= NSZE
  BY <1>4 DEF Commands
<1>6. InRange(c)
  BY <1>5, PartitionAssumption DEF InRange
<1> DEFINE z == SliceSizes(c.startLba, c.blocks)
<1>7. z \in Seq(Nat \ {0}) /\ Total(z) = c.blocks
  BY <1>5, SizesTotal
<1>8. toSplit' = [i \in DOMAIN z |-> [tag |-> c.tag, num |-> z[i]]] /\ pc' = "split"
  BY <1>1, <1>5, <1>6
<1> HIDE DEF z
<1>9. /\ DOMAIN z = 1 .. Len(z) /\ Len(z) \in Nat /\ \A i \in 1 .. Len(z) : z[i] \in Nat \ {0}
  BY <1>7
<1>10. /\ toSplit' \in Seq(Requests) /\ Len(toSplit') = Len(z)
       /\ \A i \in 1 .. Len(z) : toSplit'[i].tag = c.tag /\ toSplit'[i].num = z[i]
  <2>1. \A i \in 1 .. Len(z) : [tag |-> c.tag, num |-> z[i]] \in Requests
    BY <1>5, <1>9 DEF Requests
  <2> DEFINE q == [i \in DOMAIN z |-> [tag |-> c.tag, num |-> z[i]]]
  <2>2. q \in [1 .. Len(z) -> Requests]
    BY <1>9, <2>1
  <2>3. \A i \in 1 .. Len(z) : q[i].tag = c.tag /\ q[i].num = z[i]
    BY <1>9
  <2> HIDE DEF q
  <2>4. q \in Seq(Requests) /\ Len(q) = Len(z)
    BY <1>9, <2>2
  <2> QED BY <1>8, <2>3, <2>4 DEF q
<1>11. toSplit = <<>>
  BY <1>2, <1>3 DEF QueueTypes
<1>12. QueueTypes'
  BY <1>1, <1>2, <1>3, <1>4, <1>8, <1>10 DEF QueueTypes
<1>13. ASSUME NEW t \in Tags PROVE Debt(t)' = Debt(t)
  <2>1. /\ Weighed(CommandOf(t), cmdFifo) = Weight(CommandOf(t), c) + Weighed(CommandOf(t), cmdFifo')
    BY <1>2, <1>3, TagsCountable, WeighedTail
  <2>2. Weighed(RequestOf(t), toSplit) = 0
    BY <1>11, WeighedNone
  <2>3. Weighed(RequestOf(t), toSplit') = Weight(CommandOf(t), c)
    <3>1. CASE c.tag = t
      <4>1. Weights(RequestOf(t), toSplit') = z
        <5>1. DOMAIN toSplit' = 1 .. Len(z)
          BY <1>10
        <5>2. \A i \in 1 .. Len(z) : Weight(RequestOf(t), toSplit'[i]) = z[i]
          BY <1>10, <3>1, WeightOf
        <5>3. Weights(RequestOf(t), toSplit') = [i \in 1 .. Len(z) |-> z[i]]
          BY <5>1, <5>2 DEF Weights
        <5> QED BY <1>7, <1>9, <5>3
      <4>2. Weight(CommandOf(t), c) = c.blocks
        BY <3>1, WeightOf
      <4> QED BY <1>7, <4>1, <4>2 DEF Weighed
    <3>2. CASE c.tag # t
      <4>1. \A i \in 1 .. Len(toSplit') : Weight(RequestOf(t), toSplit'[i]) = 0
        BY <1>10, <3>2, WeightOf
      <4>2. Countable(RequestOf(t), Requests)
        BY TagsCountable
      <4>3. Weighed(RequestOf(t), toSplit') = IF 0 = 0 THEN 0 ELSE Len(toSplit')
        BY <1>10, <4>1, <4>2, WeighedSame
      <4>4. Weight(CommandOf(t), c) = 0
        BY <3>2, WeightOf
      <4> QED BY <4>3, <4>4
    <3> QED BY <3>1, <3>2
  <2>4. Weighed(CommandOf(t), cmdFifo') \in Nat
    BY <1>2, <1>4, TagsCountable, WeighedNumber
  <2>5. Weight(CommandOf(t), c) \in Nat
    BY <1>5, WeightOf
  <2>6. /\ Weighed(RequestOf(t), sliceReqQ) \in Nat /\ Weighed(RequestOf(t), waiting) \in Nat
        /\ Weighed(RequestOf(t), issuing) \in Nat
    BY <1>3, QueueNumbers
  <2> QED BY <1>1, <2>1, <2>2, <2>3, <2>4, <2>5, <2>6 DEF Debt
<1> QED BY <1>2, <1>12, <1>13, QueuesMoved

LEMMA SplitBooks ==
  ASSUME Books, SplitCommand
  PROVE  Books'
<1>1. pc = "split" /\ UNCHANGED <<made, fe, complete_blks, cmdFifo>> /\ QueueTypes
  BY DEF SplitCommand, unchangedButWork, simVars, Books
<1>2. CASE UNCHANGED work
  <2>1. toSplit = <<>> \/ pc' \in {"split", "sync"}
    BY <1>2 DEF SplitCommand, work
  <2> QED BY <1>1, <1>2, <2>1, NothingMoves
<1>3. CASE /\ toSplit # <<>>
           /\ sliceReqQ' = Append(sliceReqQ, Head(toSplit))
           /\ toSplit' = Tail(toSplit)
           /\ UNCHANGED <<pc, waiting, issuing, nvmeDmaReqQ>>
  <2>1. /\ toSplit \in Seq(Requests) /\ sliceReqQ \in Seq(Requests)
        /\ Head(toSplit) \in Requests /\ Tail(toSplit) \in Seq(Requests)
    BY <1>1, <1>3 DEF QueueTypes
  <2>2. QueueTypes'
    BY <1>1, <1>3, <2>1 DEF QueueTypes
  <2>3. ASSUME NEW t \in Tags PROVE Debt(t)' = Debt(t)
    <3>0. Countable(RequestOf(t), Requests)
      BY TagsCountable
    <3>1. Weighed(RequestOf(t), toSplit)
            = Weight(RequestOf(t), Head(toSplit)) + Weighed(RequestOf(t), toSplit')
      BY <1>3, <2>1, <3>0, WeighedTail
    <3>2. Weighed(RequestOf(t), sliceReqQ')
            = Weighed(RequestOf(t), sliceReqQ) + Weight(RequestOf(t), Head(toSplit))
      BY <1>3, <2>1, <3>0, WeighedAppend
    <3>3. Weight(RequestOf(t), Head(toSplit)) \in Nat /\ Weighed(RequestOf(t), toSplit') \in Nat
      BY <1>3, <2>1, <3>0, WeighedNumber DEF Countable
    <3> QED BY <1>1, <1>3, <3>1, <3>2, <3>3, QueueNumbers DEF Debt
  <2> QED BY <1>1, <2>2, <2>3, QueuesMoved
<1> QED BY <1>2, <1>3 DEF SplitCommand

LEMMA TransformBooks ==
  ASSUME Books, TransformSlice
  PROVE  Books'
<1>1. /\ pc = "trans" /\ issuing = <<>> /\ QueueTypes
      /\ UNCHANGED <<made, fe, complete_blks, cmdFifo, toSplit>>
  BY DEF TransformSlice, unchangedButWork, simVars, Books
<1>0. toSplit = <<>>
  BY <1>1 DEF QueueTypes
<1>2. CASE UNCHANGED <<sliceReqQ, waiting, issuing>>
  <2>1. QueueTypes'
    BY <1>0, <1>1, <1>2 DEF QueueTypes
  <2>2. \A t \in Tags : Debt(t)' = Debt(t)
    BY <1>1, <1>2 DEF Debt
  <2> QED BY <1>1, <2>1, <2>2, QueuesMoved
<1>3. CASE /\ sliceReqQ # <<>>
           /\ sliceReqQ' = Tail(sliceReqQ)
           /\ \/ issuing' = <<Head(sliceReqQ)>> /\ UNCHANGED waiting
              \/ waiting' = Append(waiting, Head(sliceReqQ)) /\ UNCHANGED issuing
           /\ UNCHANGED pc
  <2> DEFINE r == Head(sliceReqQ)
  <2>1. /\ sliceReqQ \in Seq(Requests) /\ waiting \in Seq(Requests)
        /\ r \in Requests /\ Tail(sliceReqQ) \in Seq(Requests)
    BY <1>1, <1>3 DEF QueueTypes
  <2>4. <<r>> \in Seq(Requests) /\ Append(waiting, r) \in Seq(Requests) /\ Head(<<r>>) = r
    BY <2>1
  <2> HIDE DEF r
  <2>2. QueueTypes'
    BY <1>0, <1>1, <1>3, <2>1, <2>4 DEF QueueTypes, r
  <2>3. ASSUME NEW t \in Tags PROVE Debt(t)' = Debt(t)
    <3>0. Countable(RequestOf(t), Requests)
      BY TagsCountable
    <3>1. Weighed(RequestOf(t), sliceReqQ)
            = Weight(RequestOf(t), r) + Weighed(RequestOf(t), sliceReqQ')
      BY <1>3, <2>1, <3>0, WeighedTail DEF r
    <3>2. Weight(RequestOf(t), r) \in Nat /\ Weighed(RequestOf(t), sliceReqQ') \in Nat
      BY <1>3, <2>1, <3>0, WeighedNumber DEF Countable
    <3>3. Weighed(RequestOf(t), Append(waiting, r))
            = Weighed(RequestOf(t), waiting) + Weight(RequestOf(t), r)
      BY <2>1, <3>0, WeighedAppend
    <3>4. Weighed(RequestOf(t), <<r>>) = Weight(RequestOf(t), r)
      BY <3>2, WeighedOne
    <3>5. Weighed(RequestOf(t), issuing) = 0
      BY <1>1, WeighedNone
    <3>6. \/ Weighed(RequestOf(t), issuing') = Weight(RequestOf(t), r) /\ UNCHANGED waiting
          \/ /\ Weighed(RequestOf(t), waiting')
                  = Weighed(RequestOf(t), waiting) + Weight(RequestOf(t), r)
             /\ UNCHANGED issuing
      BY <1>3, <3>3, <3>4 DEF r
    <3> QED BY <1>1, <3>1, <3>2, <3>5, <3>6, QueueNumbers DEF Debt
  <2> QED BY <1>1, <2>2, <2>3, QueuesMoved
<1> QED BY <1>2, <1>3 DEF TransformSlice

LEMMA IssueWaitingBooks ==
  ASSUME Books, NEW tag \in Tags, IssueWaiting(tag)
  PROVE  Books'
<1>1. /\ issuing = <<>> /\ QueueTypes
      /\ UNCHANGED <<made, fe, complete_blks, cmdFifo, pc, toSplit, sliceReqQ>>
  BY DEF IssueWaiting, InRound, unchangedButWork, simVars, Books
<1>2. PICK i \in DOMAIN waiting :
        issuing' = <<waiting[i]>> /\ waiting' = RemoveAt(waiting, i)
  BY DEF IssueWaiting
<1> DEFINE r == waiting[i]
<1>3. waiting \in Seq(Requests) /\ i \in 1 .. Len(waiting) /\ r \in Requests
  BY <1>1, <1>2 DEF QueueTypes
<1>5. <<r>> \in Seq(Requests) /\ Head(<<r>>) = r
  BY <1>3
<1> HIDE DEF r
<1>6. ASSUME NEW t
      PROVE  /\ Weighed(RequestOf(t), waiting)
                  = Weighed(RequestOf(t), waiting') + Weight(RequestOf(t), r)
             /\ waiting' \in Seq(Requests)
  BY <1>2, <1>3, TagsCountable, WeighedRemove DEF r
<1>7. QueueTypes'
  BY <1>1, <1>2, <1>5, <1>6 DEF QueueTypes, r
<1>8. ASSUME NEW t \in Tags PROVE Debt(t)' = Debt(t)
  <2>1. Weight(RequestOf(t), r) \in Nat /\ Weighed(RequestOf(t), waiting') \in Nat
    BY <1>3, <1>6, TagsCountable, WeighedNumber DEF Countable
  <2>2. Weighed(RequestOf(t), issuing') = Weight(RequestOf(t), r)
    BY <1>2, <2>1, WeighedOne DEF r
  <2>3. Weighed(RequestOf(t), issuing) = 0
    BY <1>1, WeighedNone
  <2> QED BY <1>1, <1>6, <2>1, <2>2, <2>3, QueueNumbers DEF Debt
<1> QED BY <1>1, <1>7, <1>8, QueuesMoved

-----------------------------------------------------------------------------

LEMMA IssueBooks ==
  ASSUME Books, build = "simulator", IssueNvmeDmaReq
  PROVE  Books'
<1> DEFINE r == Head(issuing)
           x == [r EXCEPT !.num = @ - 1]
           g == FeSent
<1>1. /\ issuing # <<>> /\ QueueTypes /\ FrontEnd(fe) /\ cmdFifo \in Seq(Commands)
      /\ UNCHANGED <<made, complete_blks, pc, toSplit, sliceReqQ, waiting>>
      /\ issuing' = IF r.num = 1 THEN <<>> ELSE <<x>>
      /\ fe' = Credited(g, r.tag) /\ cmdFifo' = FifoSent
  BY DEF IssueNvmeDmaReq, PushAndSchedule, LastBlock, Books, QueueTypes
<1>2. issuing = <<r>> /\ r \in Requests
  BY <1>1 DEF QueueTypes
<1> HIDE DEF r
<1>3. r.tag \in Tags /\ r.num \in Nat \ {0}
  BY <1>2 DEF Requests
<1>4. SentKeeps(fe, g, cmdFifo, FifoSent)
  BY <1>1, SentBooks
<1> HIDE DEF g
<1>5. ASSUME r.num # 1
      PROVE  x \in Requests /\ x.tag = r.tag /\ x.num = r.num - 1
  <2>1. r = [tag |-> r.tag, num |-> r.num]
    BY <1>2 DEF Requests
  <2>2. x = [tag |-> r.tag, num |-> r.num - 1]
    BY <2>1
  <2>3. r.num - 1 \in Nat \ {0}
    BY <1>3, <1>5
  <2> HIDE DEF x
  <2> QED BY <1>3, <2>2, <2>3 DEF Requests
<1> HIDE DEF x
<1>6. QueueTypes'
  <2>1. issuing' \in Seq(Requests) /\ (issuing' # <<>> => issuing' = <<Head(issuing')>>)
    <3>1. CASE r.num = 1
      BY <1>1, <3>1
    <3>2. CASE r.num # 1
      <4>1. <<x>> \in Seq(Requests) /\ Head(<<x>>) = x
        BY <1>5, <3>2
      <4> QED BY <1>1, <3>2, <4>1
    <3> QED BY <3>1, <3>2
  <2>2. cmdFifo' \in Seq(Commands)
    BY <1>1, <1>4 DEF SentKeeps
  <2> QED BY <1>1, <2>1, <2>2 DEF QueueTypes
\* What is left of the request owes one block less.
<1>7. ASSUME NEW t \in Tags
      PROVE  Weighed(RequestOf(t), issuing)
               = Weighed(RequestOf(t), issuing') + (IF t = r.tag THEN 1 ELSE 0)
  <2>1. Weight(RequestOf(t), r) = IF r.tag = t THEN r.num ELSE 0
    BY WeightOf
  <2>2. Weighed(RequestOf(t), issuing) = Weight(RequestOf(t), r)
    BY <1>2, <1>3, <2>1, WeighedOne
  <2>3. CASE r.num = 1
    <3>1. Weighed(RequestOf(t), issuing') = 0
      BY <1>1, <2>3, WeighedNone
    <3> QED BY <2>1, <2>2, <2>3, <3>1
  <2>4. CASE r.num # 1
    <3>1. Weight(RequestOf(t), x) = IF r.tag = t THEN r.num - 1 ELSE 0
      BY <1>5, <2>4, WeightOf
    <3>2. Weighed(RequestOf(t), issuing') = Weight(RequestOf(t), x)
      BY <1>1, <1>3, <2>4, <3>1, WeighedOne
    <3> QED BY <1>3, <2>1, <2>2, <3>1, <3>2
  <2> QED BY <2>3, <2>4
<1> DEFINE Rest(t) == Weighed(RequestOf(t), toSplit) + Weighed(RequestOf(t), sliceReqQ)
                      + Weighed(RequestOf(t), waiting)
<1>8. ASSUME NEW t \in Tags
      PROVE  /\ Weighed(CommandOf(t), cmdFifo) \in Nat /\ Weighed(CommandOf(t), FifoSent) \in Nat
             /\ Rest(t) \in Nat /\ Weighed(RequestOf(t), issuing') \in Nat
             /\ Debt(t) = Weighed(CommandOf(t), cmdFifo) + Rest(t) + Weighed(RequestOf(t), issuing)
             /\ Debt(t)' = Weighed(CommandOf(t), FifoSent) + Rest(t) + Weighed(RequestOf(t), issuing')
             /\ Weighed(CreditOf(t), fe.sq) = Debt(t)
             /\ Weighed(CreditOf(t), g.sq) \in Nat
  <2>1. /\ Weighed(CommandOf(t), cmdFifo) \in Nat /\ Rest(t) \in Nat
        /\ Weighed(RequestOf(t), issuing) \in Nat
    BY <1>1, QueueNumbers
  <2>2. FifoSent \in Seq(Commands) /\ g.sq \in Seq(Submitted) /\ issuing' \in Seq(Requests)
    BY <1>4, <1>6 DEF SentKeeps, FrontEnd, QueueTypes
  <2>3. /\ Weighed(CommandOf(t), FifoSent) \in Nat /\ Weighed(CreditOf(t), g.sq) \in Nat
        /\ Weighed(RequestOf(t), issuing') \in Nat
    BY <2>2, TagsCountable, WeighedNumber
  <2>4. /\ Weighed(RequestOf(t), toSplit) \in Nat /\ Weighed(RequestOf(t), sliceReqQ) \in Nat
        /\ Weighed(RequestOf(t), waiting) \in Nat
    BY <1>1, QueueNumbers
  <2>5. Debt(t) = Weighed(CommandOf(t), cmdFifo) + Rest(t) + Weighed(RequestOf(t), issuing)
    BY <2>1, <2>4 DEF Debt
  <2>6. Debt(t)' = Weighed(CommandOf(t), FifoSent) + Rest(t) + Weighed(RequestOf(t), issuing')
    BY <1>1, <2>3, <2>4 DEF Debt
  <2> QED BY <2>1, <2>3, <2>5, <2>6 DEF Books
<1> HIDE DEF Rest
\* After the sending, the entries expect what is owed before the block is pushed.
<1>9. ASSUME NEW t \in Tags
      PROVE  Weighed(CreditOf(t), g.sq)
               = Weighed(CommandOf(t), FifoSent) + Rest(t) + Weighed(RequestOf(t), issuing)
  <2>1. Weighed(CreditOf(t), g.sq) + Weighed(CommandOf(t), cmdFifo)
          = Weighed(CreditOf(t), fe.sq) + Weighed(CommandOf(t), FifoSent)
    BY <1>4 DEF SentKeeps
  <2> QED BY <1>7, <1>8, <2>1
<1>10. Weighed(CreditOf(r.tag), g.sq) # 0 /\ FrontEnd(g)
  <2>1. FrontEnd(g)
    BY <1>4 DEF SentKeeps
  <2> QED BY <1>3, <1>7, <1>8, <1>9, <2>1
<1>11. CreditKeeps(g, fe', r.tag)
  BY <1>1, <1>3, <1>10, CreditedBooks
<1>12. ASSUME NEW t \in Tags PROVE Weighed(CreditOf(t), fe'.sq) = Debt(t)'
  <2>1. Weighed(CreditOf(t), g.sq)
          = Weighed(CreditOf(t), fe'.sq) + (IF t = r.tag THEN 1 ELSE 0)
    BY <1>11 DEF CreditKeeps
  <2>2. Weighed(CreditOf(t), fe'.sq) \in Nat
    <3>1. fe'.sq \in Seq(Submitted)
      BY <1>11 DEF CreditKeeps, FrontEnd
    <3> QED BY <3>1, TagsCountable, WeighedNumber
  <2> QED BY <1>7, <1>8, <1>9, <2>1, <2>2
<1>13. ASSUME NEW h \in HostIds, NEW op \in Ops PROVE Jobs(fe', h, op) = Jobs(fe, h, op)
  BY <1>4, <1>11 DEF SentKeeps, CreditKeeps
<1> QED
  <2>1. FrontEnd(fe')
    BY <1>11 DEF CreditKeeps
  <2>2. made' = made /\ complete_blks' = complete_blks
    BY <1>1
  <2> QED BY <1>6, <1>12, <1>13, <2>1, <2>2 DEF Books

LEMMA FrontEndTurnBooks ==
  ASSUME Books, FrontEndTurn
  PROVE  Books'
<1>1. /\ UNCHANGED <<made, complete_blks, toSplit, sliceReqQ, waiting, issuing>>
      /\ fe' = FeSent /\ cmdFifo' = FifoSent /\ pc = "fe"
      /\ FrontEnd(fe) /\ QueueTypes /\ cmdFifo \in Seq(Commands)
  BY DEF FrontEndTurn, SchedulingFE, work, Books, QueueTypes
<1>2. SentKeeps(fe, fe', cmdFifo, cmdFifo')
  BY <1>1, SentBooks
<1>3. QueueTypes'
  BY <1>1, <1>2 DEF QueueTypes, SentKeeps
<1>4. ASSUME NEW t \in Tags PROVE Weighed(CreditOf(t), fe'.sq) = Debt(t)'
  <2>1. Weighed(CreditOf(t), fe'.sq) + Weighed(CommandOf(t), cmdFifo)
          = Weighed(CreditOf(t), fe.sq) + Weighed(CommandOf(t), cmdFifo')
    BY <1>2 DEF SentKeeps
  <2>2. Weighed(CommandOf(t), cmdFifo') \in Nat /\ Weighed(CreditOf(t), fe'.sq) \in Nat
    <3>1. cmdFifo' \in Seq(Commands) /\ fe'.sq \in Seq(Submitted)
      BY <1>2 DEF SentKeeps, FrontEnd
    <3> QED BY <3>1, TagsCountable, WeighedNumber
  <2>3. Weighed(CreditOf(t), fe.sq) = Debt(t)
    BY DEF Books
  <2>4. /\ Weighed(CommandOf(t), cmdFifo) \in Nat
        /\ Weighed(RequestOf(t), toSplit) \in Nat /\ Weighed(RequestOf(t), sliceReqQ) \in Nat
        /\ Weighed(RequestOf(t), waiting) \in Nat /\ Weighed(RequestOf(t), issuing) \in Nat
    BY <1>1, QueueNumbers
  <2>5. Debt(t)' = Weighed(CommandOf(t), cmdFifo')
                   + Weighed(RequestOf(t), toSplit) + Weighed(RequestOf(t), sliceReqQ)
                   + Weighed(RequestOf(t), waiting) + Weighed(RequestOf(t), issuing)
    BY <1>1 DEF Debt
  <2>6. Debt(t) = Weighed(CommandOf(t), cmdFifo)
                  + Weighed(RequestOf(t), toSplit) + Weighed(RequestOf(t), sliceReqQ)
                  + Weighed(RequestOf(t), waiting) + Weighed(RequestOf(t), issuing)
    BY DEF Debt
  <2> QED BY <2>1, <2>2, <2>3, <2>4, <2>5, <2>6
<1>5. ASSUME NEW h \in HostIds, NEW op \in Ops PROVE Jobs(fe', h, op) = Jobs(fe, h, op)
  BY <1>2 DEF SentKeeps
<1>6. FrontEnd(fe')
  BY <1>2 DEF SentKeeps
<1> QED BY <1>1, <1>3, <1>4, <1>5, <1>6 DEF Books

-----------------------------------------------------------------------------
(* The workload. *)

LEMMA Rounded ==
  ASSUME NEW a \in Nat
  PROVE  (a \div ALIGN) * ALIGN \in Nat /\ (a \div ALIGN) * ALIGN <= a
<1>1. /\ a \div ALIGN \in Nat /\ a % ALIGN \in Nat
      /\ a = (ALIGN * (a \div ALIGN)) + (a % ALIGN) /\ ALIGN \in Nat
  BY TagAssumption, DivMod
<1>2. \A q \in Nat, A \in Nat : q * A = A * q /\ q * A \in Nat
  OBVIOUS
<1> DEFINE q == a \div ALIGN
<1>3. q \in Nat /\ a % ALIGN \in Nat /\ a = (ALIGN * q) + (a % ALIGN) /\ ALIGN \in Nat
  BY <1>1
<1> HIDE DEF q
<1>4. q * ALIGN \in Nat /\ q * ALIGN <= a
  BY <1>2, <1>3
<1> QED BY <1>4 DEF q

\* A job is of some host and some operation, and its address leaves room for its
\* blocks.
LEMMA EntryFits ==
  ASSUME NEW j \in Nat, NEW a \in NextBlkAddr(j)
  PROVE  /\ Entry(j, a) \in Submitted
         /\ Entry(j, a).cmd_id = CMD_NONE
         /\ Entry(j, a).hid = HostOf(j) /\ Entry(j, a).op = SelectOp(j)
         /\ Entry(j, a).nblks = Config[HostOf(j)].nblks
<1> DEFINE c == Config[HostOf(j)]
<1>1. HostOf(j) \in HostIds
  BY HostAssumption, DivMod DEF HostOf, HostIds
<1>2. SelectOp(j) \in Ops
  BY DEF SelectOp, Ops
<1>3. /\ c.nblks \in Nat \ {0} /\ c.min_lba \in Nat /\ c.max_lba \in Nat
      /\ c.max_lba > c.min_lba /\ c.max_lba + c.nblks <= NSZE /\ NSZE \in Nat
  BY <1>1, ConfigAssumption, PartitionAssumption
<1>4. Turn(j) \in Nat
  BY HostAssumption, DivMod DEF Turn
<1>5. a \in Nat /\ a < c.max_lba
  <2> DEFINE range == c.max_lba - c.min_lba
  <2>1. range \in Nat \ {0}
    BY <1>3
  <2>2. CASE Turn(j) = 0
    <3>1. a = c.min_lba
      BY <2>2 DEF NextBlkAddr
    <3> QED BY <1>3, <3>1
  <2>3. CASE Turn(j) # 0 /\ c.random
    <3>1. PICK r \in 0 .. range - 1 : a = ((c.min_lba + r) \div ALIGN) * ALIGN
      BY <2>3 DEF NextBlkAddr
    <3>2. c.min_lba + r \in Nat /\ c.min_lba + r < c.max_lba
      BY <1>3, <2>1
    <3>3. a \in Nat /\ a <= c.min_lba + r
      BY <3>1, <3>2, Rounded
    <3> QED BY <1>3, <3>2, <3>3
  <2>4. CASE Turn(j) # 0 /\ ~ c.random
    <3> DEFINE p == Turn(j) * c.nblks
    <3>1. a = c.min_lba + (p % range)
      BY <2>4 DEF NextBlkAddr
    <3>2. p \in Nat
      BY <1>3, <1>4
    <3> HIDE DEF p
    <3>3. p % range \in Nat /\ p % range < range
      BY <2>1, <3>2, DivMod
    <3> QED BY <1>3, <2>1, <3>1, <3>3
  <2> QED BY <2>2, <2>3, <2>4
<1>6. a + c.nblks <= NSZE
  BY <1>3, <1>5
<1>7. Entry(j, a) \in Entries
  BY <1>1, <1>2, <1>3, <1>5 DEF Entry, Entries
<1> QED BY <1>6, <1>7 DEF Entry, Submitted, Ongoing

\* The jobs up to now, as entries; where they begin does not matter.
JobsMade(n) == [i \in 1 .. n |-> Entry(i - 1, 0)]

LEMMA AskedIs ==
  ASSUME NEW n \in Nat, NEW h, NEW op
  PROVE  Asked(n, h, op) = Weighed(JobOf(h, op), JobsMade(n))
<1>1. \A i \in 1 .. n :
        Weight(JobOf(h, op), JobsMade(n)[i])
          = IF HostOf(i - 1) = h /\ SelectOp(i - 1) = op THEN Config[h].nblks ELSE 0
  <2> SUFFICES ASSUME NEW i \in 1 .. n
               PROVE  Weight(JobOf(h, op), JobsMade(n)[i])
                        = IF HostOf(i - 1) = h /\ SelectOp(i - 1) = op THEN Config[h].nblks ELSE 0
    OBVIOUS
  <2>1. /\ JobsMade(n)[i].hid = HostOf(i - 1) /\ JobsMade(n)[i].op = SelectOp(i - 1)
        /\ JobsMade(n)[i].nblks = Config[HostOf(i - 1)].nblks
    BY DEF JobsMade, Entry
  <2> QED BY <2>1, WeightOfJob
<1>2. DOMAIN JobsMade(n) = 1 .. n
  BY DEF JobsMade
<1>3. Weights(JobOf(h, op), JobsMade(n))
        = [i \in 1 .. n |-> IF HostOf(i - 1) = h /\ SelectOp(i - 1) = op
                            THEN Config[h].nblks ELSE 0]
  BY <1>1, <1>2 DEF Weights
<1> QED BY <1>3, Zenon DEF Asked, Weighed

LEMMA JobsMadeSeq ==
  ASSUME NEW n \in Nat
  PROVE  JobsMade(n) \in Seq(Entries) /\ Len(JobsMade(n)) = n
<1>1. \A i \in 1 .. n : Entry(i - 1, 0) \in Entries
  <2> SUFFICES ASSUME NEW i \in 1 .. n PROVE Entry(i - 1, 0) \in Entries
    OBVIOUS
  <2>1. i - 1 \in Nat
    OBVIOUS
  <2>2. HostOf(i - 1) \in HostIds
    BY <2>1, HostAssumption, DivMod DEF HostOf, HostIds
  <2>3. SelectOp(i - 1) \in Ops
    BY DEF SelectOp, Ops
  <2>4. Config[HostOf(i - 1)].nblks \in Nat \ {0}
    BY <2>2, ConfigAssumption
  <2> QED BY <2>2, <2>3, <2>4 DEF Entry, Entries
<1>2. JobsMade(n) \in [1 .. n -> Entries]
  BY <1>1 DEF JobsMade
<1> QED BY <1>2

LEMMA HostTurnBooks ==
  ASSUME Books, HostTurn
  PROVE  Books'
<1> DEFINE room == TAGS - Len(fe.sq)
           left == NOPS - made
           m    == IF room < left THEN room ELSE left
           new  == made .. made + m - 1
           num  == Cardinality(new)
<1>1. /\ UNCHANGED <<cmdFifo, toSplit, sliceReqQ, waiting, issuing>> /\ pc = "host"
      /\ made \in Nat /\ FrontEnd(fe) /\ QueueTypes
      /\ complete_blks \in [HostIds -> [Ops -> Nat]]
  BY DEF HostTurn, work, Books
<1>2. /\ fe \in [sq : Seq(Submitted), cq : Seq(Entries), cmd_id : Tags, ongoing : Nat]
      /\ fe.sq \in Seq(Submitted) /\ fe.cq \in Seq(Entries) /\ fe.cmd_id \in Tags
      /\ fe.ongoing \in Nat /\ fe.ongoing = Weighed(OngoingKind, fe.sq) /\ Len(fe.sq) \in Nat
  <2>1. fe \in [sq : Seq(Submitted), cq : Seq(Entries), cmd_id : Tags, ongoing : Nat]
        /\ fe.ongoing = Weighed(OngoingKind, fe.sq)
    BY <1>1 DEF FrontEnd
  <2> QED BY <2>1
<1>3. PICK addr \in [new -> UNION {NextBlkAddr(j) : j \in new}] :
        /\ \A j \in new : addr[j] \in NextBlkAddr(j)
        /\ fe' = [fe EXCEPT
                    !.sq = @ \o [i \in 1 .. num |-> Entry(made + i - 1, addr[made + i - 1])],
                    !.cq = <<>>]
  BY DEF HostTurn, SchedulingHost
<1>4. /\ made' = made + num
      /\ complete_blks' = [h \in HostIds |-> [op \in Ops |->
                             complete_blks[h][op] + Reported(h, op)]]
  BY DEF HostTurn, SchedulingHost
<1>5. m \in Int
  BY <1>1, <1>2, HostAssumption, TagAssumption
<1> HIDE DEF m
<1>6. num \in Nat /\ \A i \in 1 .. num : made + i - 1 \in new /\ made + i - 1 \in Nat
  <2>1. num = IF made <= made + m - 1 THEN (made + m - 1) - made + 1 ELSE 0
    BY <1>1, <1>5, FS_Interval
  <2> HIDE DEF num
  <2>2. num = IF 1 <= m THEN m ELSE 0
    BY <1>1, <1>5, <2>1
  <2> QED BY <1>1, <1>5, <2>2
<1> HIDE DEF new, num
<1> DEFINE e == [i \in 1 .. num |-> Entry(made + i - 1, addr[made + i - 1])]
<1>7. ASSUME NEW i \in 1 .. num
      PROVE  /\ e[i] \in Submitted /\ e[i].cmd_id = CMD_NONE
             /\ e[i].hid = HostOf(made + i - 1) /\ e[i].op = SelectOp(made + i - 1)
             /\ e[i].nblks = Config[HostOf(made + i - 1)].nblks
  <2>1. made + i - 1 \in Nat /\ addr[made + i - 1] \in NextBlkAddr(made + i - 1)
    BY <1>3, <1>6
  <2>2. e[i] = Entry(made + i - 1, addr[made + i - 1])
    OBVIOUS
  <2> HIDE DEF e
  <2> QED BY <2>1, <2>2, EntryFits
<1>8. e \in Seq(Submitted) /\ Len(e) = num
  <2>1. e \in [1 .. num -> Submitted]
    BY <1>7
  <2> HIDE DEF e
  <2> QED BY <1>6, <2>1
<1> DEFINE q == fe.sq \o e
<1>9. fe' = [sq |-> q, cq |-> <<>>, cmd_id |-> fe.cmd_id, ongoing |-> fe.ongoing]
  <2>1. fe' = [fe EXCEPT !.sq = q, !.cq = <<>>]
    BY <1>3
  <2> HIDE DEF q
  <2> QED BY <1>2, <2>1
<1> HIDE DEF e
<1>10. q \in Seq(Submitted)
  BY <1>2, <1>8
<1>11. ASSUME NEW k, Countable(k, Submitted)
       PROVE  Weighed(k, q) = Weighed(k, fe.sq) + Weighed(k, e)
  BY <1>2, <1>8, <1>11, WeighedConcat
<1> HIDE DEF q
<1>12. FrontEnd(fe')
  <2>1. \A i \in 1 .. Len(e) : Weight(OngoingKind, e[i]) = 0
    BY <1>7, <1>8, WeightOfOngoing DEF Ongoing
  <2>2. Weighed(OngoingKind, e) = IF 0 = 0 THEN 0 ELSE Len(e)
    BY <1>8, <2>1, OngoingCountable, WeighedSame
  <2>3. Weighed(OngoingKind, q) = fe.ongoing
    BY <1>2, <1>11, <2>2, OngoingCountable
  <2>4. <<>> \in Seq(Entries)
    OBVIOUS
  <2> QED BY <1>2, <1>9, <1>10, <2>3, <2>4 DEF FrontEnd
<1>13. ASSUME NEW t \in Tags PROVE Weighed(CreditOf(t), fe'.sq) = Debt(t)'
  <2>1. t # CMD_NONE
    BY TagAssumption DEF Tags, CMD_NONE
  <2>2. \A i \in 1 .. Len(e) : Weight(CreditOf(t), e[i]) = 0
    BY <1>7, <1>8, <2>1, WeightOf
  <2>3. Countable(CreditOf(t), Submitted)
    BY TagsCountable
  <2>4. Weighed(CreditOf(t), e) = IF 0 = 0 THEN 0 ELSE Len(e)
    BY <1>8, <2>2, <2>3, WeighedSame
  <2>5. Weighed(CreditOf(t), fe.sq) \in Nat
    BY <1>2, <2>3, WeighedNumber
  <2>6. Weighed(CreditOf(t), fe'.sq) = Weighed(CreditOf(t), fe.sq)
    BY <1>9, <1>11, <2>3, <2>4, <2>5
  <2>7. Debt(t)' = Debt(t)
    BY <1>1 DEF Debt
  <2> QED BY <2>6, <2>7 DEF Books
<1>14. ASSUME NEW h \in HostIds, NEW op \in Ops
       PROVE  /\ complete_blks'[h][op] \in Nat
              /\ Asked(made', h, op) = complete_blks'[h][op] + Jobs(fe', h, op)
  <2> DEFINE k == JobOf(h, op)
             s == JobsMade(made)
             d == [i \in 1 .. num |-> Entry(made + i - 1, 0)]
  <2>0. Countable(k, Submitted) /\ Countable(k, Entries)
    BY JobsCountable
  <2>1. complete_blks'[h][op] = complete_blks[h][op] + Weighed(k, fe.cq)
    <3>1. Reported(h, op) = Weighed(k, fe.cq)
      BY WeightOfJob, Zenon DEF Reported, BlocksOf, Weighed, Weights
    <3> HIDE DEF k
    <3> QED BY <1>4, <3>1
  <2>2. s \in Seq(Entries) /\ Len(s) = made
    BY <1>1, JobsMadeSeq
  <2>3. /\ d \in Seq(Entries) /\ Len(d) = num
        /\ \A i \in 1 .. num : /\ d[i].hid = e[i].hid /\ d[i].op = e[i].op
                               /\ d[i].nblks = e[i].nblks
    <3>1. ASSUME NEW i \in 1 .. num
          PROVE  /\ d[i].hid = e[i].hid /\ d[i].op = e[i].op
                 /\ d[i].nblks = e[i].nblks /\ d[i] \in Entries
      <4>1. d[i] = Entry(made + i - 1, 0)
        OBVIOUS
      <4> HIDE DEF d
      <4>2. e[i] \in Entries
        BY <1>7 DEF Submitted
      <4>3. d[i].hid = e[i].hid /\ d[i].op = e[i].op /\ d[i].nblks = e[i].nblks
        BY <1>7, <4>1 DEF Entry
      <4>4. d[i] = [hid |-> e[i].hid, op |-> e[i].op, blkaddr |-> 0, nblks |-> e[i].nblks,
                    cmd_id |-> CMD_NONE, remaining_dma |-> 0]
        BY <1>7, <4>1 DEF Entry
      <4> QED BY <4>2, <4>3, <4>4 DEF Entries
    <3>2. d \in [1 .. num -> Entries]
      BY <3>1
    <3> HIDE DEF d
    <3> QED BY <1>6, <3>1, <3>2
  <2>4. Weighed(k, d) = Weighed(k, e)
    <3>1. DOMAIN d = 1 .. num /\ DOMAIN e = 1 .. num
      BY <1>8, <2>3
    <3> HIDE DEF d
    <3>2. \A i \in 1 .. num : Weight(k, d[i]) = Weight(k, e[i])
      BY <2>3, WeightOfJob
    <3> HIDE DEF k
    <3>3. Weights(k, d) = Weights(k, e)
      BY <3>1, <3>2 DEF Weights
    <3> QED BY <3>3 DEF Weighed
  <2>5. JobsMade(made') = s \o d
    <3>1. made' \in Nat
      BY <1>1, <1>4, <1>6
    <3>2. JobsMade(made') \in Seq(Entries) /\ Len(JobsMade(made')) = made'
      BY <3>1, JobsMadeSeq
    <3>3. /\ s \o d \in Seq(Entries) /\ Len(s \o d) = made'
          /\ \A i \in 1 .. made' : (s \o d)[i] = IF i <= made THEN s[i] ELSE d[i - made]
      <4> HIDE DEF s, d
      <4> QED BY <1>1, <1>4, <1>6, <2>2, <2>3, ConcatProperties
    <3>4. ASSUME NEW i \in 1 .. made' PROVE (s \o d)[i] = JobsMade(made')[i]
      <4>1. JobsMade(made')[i] = Entry(i - 1, 0)
        BY DEF JobsMade
      <4>2. CASE i <= made
        <5>1. i \in 1 .. made
          BY <1>1, <3>1, <4>2
        <5>2. s[i] = Entry(i - 1, 0)
          BY <5>1 DEF JobsMade
        <5> QED BY <3>3, <4>1, <4>2, <5>2
      <4>3. CASE ~ (i <= made)
        <5>1. i - made \in 1 .. num /\ made + (i - made) - 1 = i - 1
          BY <1>1, <1>4, <1>6, <3>1, <4>3
        <5>2. d[i - made] = Entry(i - 1, 0)
          BY <5>1
        <5> QED BY <3>3, <4>1, <4>3, <5>2
      <4> QED BY <4>2, <4>3
    <3> DEFINE u == s \o d  w == JobsMade(made')
    <3>5. u \in Seq(Entries) /\ w \in Seq(Entries) /\ Len(u) = Len(w) /\ \A i \in 1 .. Len(u) : u[i] = w[i]
      BY <3>2, <3>3, <3>4
    <3> HIDE DEF u, w
    <3>6. u = w
      BY <3>5, SeqEqual
    <3> QED BY <3>6 DEF u, w
  <2>6. Asked(made, h, op) = Weighed(k, s) /\ Asked(made', h, op) = Weighed(k, s \o d)
    <3>1. made' \in Nat
      BY <1>1, <1>4, <1>6
    <3> QED BY <1>1, <2>5, <3>1, AskedIs
  <2> HIDE DEF s, d, k
  <2>7. Weighed(k, s \o d) = Weighed(k, s) + Weighed(k, d)
    BY <2>0, <2>2, <2>3, WeighedConcat
  <2>8. /\ Weighed(k, fe.cq) \in Nat /\ Weighed(k, fe.sq) \in Nat /\ Weighed(k, e) \in Nat
        /\ Weighed(k, s) \in Nat /\ complete_blks[h][op] \in Nat
    BY <1>1, <1>2, <1>8, <2>0, <2>2, WeighedNumber
  <2>9. Jobs(fe', h, op) = Weighed(k, fe.sq) + Weighed(k, e)
    <3>1. Jobs(fe', h, op) = Weighed(k, q) + Weighed(k, <<>>)
      BY <1>9 DEF Jobs, k
    <3> QED BY <1>11, <2>0, <2>8, <3>1, WeighedNone
  <2>10. Asked(made, h, op) = complete_blks[h][op] + (Weighed(k, fe.sq) + Weighed(k, fe.cq))
    BY DEF Books, Jobs, k
  <2> QED BY <2>1, <2>4, <2>6, <2>7, <2>8, <2>9, <2>10
<1>15. complete_blks' \in [HostIds -> [Ops -> Nat]]
  BY <1>4, <1>14
<1>16. QueueTypes'
  BY <1>1 DEF QueueTypes
<1>17. made' \in Nat
  BY <1>1, <1>4, <1>6
<1> QED BY <1>12, <1>13, <1>14, <1>15, <1>16, <1>17 DEF Books

-----------------------------------------------------------------------------

BooksInv == build = "simulator" => Books

\* The loop is compiled once.
LEMMA SameBuild ==
  ASSUME [MainNext]_mainVars
  PROVE  build' = build
<1>1. CASE UNCHANGED mainVars
  BY <1>1 DEF mainVars
<1>2. CASE MainNext
  <2>1. CASE Loop
    BY <2>1 DEF Loop, HostTurn, FrontEndTurn, NoCommand, AdminCommand, IoCommand,
                TakesCommand, SplitCommand, TransformSlice, IssueNvmeDmaReq, ReleaseDone,
                IssueWaiting, EndRound, unchangedButWork
  <2>2. CASE ~ Loop
    BY <1>2, <2>2 DEF MainNext, Interrupt, HostOrLink, HostSubmitsAdmin, HostSubmitsIo,
                      Submit, Ended, mainVars
  <2> QED BY <2>1, <2>2
<1> QED BY <1>1, <1>2

LEMMA BooksKept ==
  ASSUME IInv, BooksInv, [MainNext]_mainVars
  PROVE  BooksInv'
<1> SUFFICES ASSUME build' = "simulator" PROVE Books'
  BY DEF BooksInv
<1>1. build = "simulator" /\ Books /\ SimulatorInv
  BY SameBuild DEF BooksInv, IInv
<1>2. toSplit # <<>> => pc \in {"split", "sync"}
  BY <1>1 DEF Books, QueueTypes
<1>3. CASE UNCHANGED mainVars
  <2>1. UNCHANGED <<made, fe, complete_blks, cmdFifo, work>> /\ pc' = pc
    BY <1>3 DEF mainVars, simVars
  <2> QED BY <1>1, <1>2, <2>1, NothingMoves
<1>4. CASE HostTurn
  BY <1>1, <1>4, HostTurnBooks
<1>5. CASE FrontEndTurn
  BY <1>1, <1>5, FrontEndTurnBooks
<1>6. CASE NoCommand
  <2>1. UNCHANGED <<made, fe, complete_blks, cmdFifo, work>> /\ pc = "status"
    BY <1>6 DEF NoCommand, simVars
  <2> QED BY <1>1, <1>2, <2>1, NothingMoves
<1>7. CASE AdminCommand
  <2>1. PICK c \in {cmdFifo[i] : i \in 1 .. Len(cmdFifo)} : c.opc \in AdminOps
    BY <1>7 DEF AdminCommand
  <2>3. cmdFifo \in Seq(Commands)
    BY <1>1 DEF Books, QueueTypes
  <2>4. c \in Commands
    BY <2>1, <2>3
  <2>2. c.opc = "rw"
    BY <2>4 DEF Commands
  <2> QED BY <2>1, <2>2 DEF AdminOps, QueueOps
<1>8. CASE IoCommand
  BY <1>1, <1>8, IoCommandBooks
<1>9. CASE SplitCommand
  BY <1>1, <1>9, SplitBooks
<1>10. CASE TransformSlice
  BY <1>1, <1>10, TransformBooks
<1>11. CASE IssueNvmeDmaReq
  BY <1>1, <1>11, IssueBooks
<1>12. CASE ReleaseDone
  <2>1. QueueTypes' /\ \A t \in Tags : Debt(t)' = Debt(t)
    BY <1>1, <1>12 DEF ReleaseDone, unchangedButWork, Books, QueueTypes, Debt
  <2>2. UNCHANGED <<made, fe, complete_blks>>
    BY <1>12 DEF ReleaseDone, unchangedButWork, simVars
  <2> QED BY <1>1, <2>1, <2>2, QueuesMoved
<1>13. ASSUME NEW t \in Tags, IssueWaiting(t) PROVE Books'
  BY <1>1, <1>13, IssueWaitingBooks
<1>14. CASE EndRound
  <2>1. UNCHANGED <<made, fe, complete_blks, cmdFifo, work>> /\ pc \in {"llr", "sync"}
        /\ pc' = IF pc = "llr" THEN Top ELSE "split"
    BY <1>14 DEF EndRound, InRound, unchangedButWork, simVars
  <2>2. toSplit = <<>> \/ pc' \in {"split", "sync"}
    BY <1>2, <2>1
  <2> QED BY <1>1, <2>1, <2>2, NothingMoves
<1>15. CASE Branch
  BY <1>1, <1>15, NoBranchInSimulator
<1>16. ~ Interrupt /\ ~ HostOrLink /\ ~ HostSubmitsAdmin /\ ~ HostSubmitsIo
  BY <1>1 DEF Interrupt, HostOrLink, HostSubmitsAdmin, HostSubmitsIo, Submit
<1> QED
  BY <1>3, <1>4, <1>5, <1>6, <1>7, <1>8, <1>9, <1>10, <1>11, <1>12, <1>13, <1>14, <1>15,
     <1>16 DEF MainNext, Loop, Ended

LEMMA BooksAlwaysBalance == MainSpec => [](CreditsExact /\ JobsConserved)
<1>1. MainInit => IInv /\ BooksInv
  BY InitEstablishes, InitBooks DEF BooksInv
<1>2. IInv /\ BooksInv /\ [MainNext]_mainVars => IInv' /\ BooksInv'
  BY NextPreserves, BooksKept
<1>3. BooksInv => CreditsExact /\ JobsConserved
  BY BooksImply DEF BooksInv
<1> QED
  BY <1>1, <1>2, <1>3, PTL DEF MainSpec

\* The front end expects, under every tag, the blocks the firmware still owes it
\* (handle_dma_req and push_dma_command), whatever the workload.
THEOREM CreditsAlwaysExact == MainSpec => []CreditsExact
BY BooksAlwaysBalance, PTL

\* Every job is in one of the queues of the front end or in the figures of its host
\* (create_request, set_task_complete and perf_report), once.
THEOREM JobsAlwaysConserved == MainSpec => []JobsConserved
BY BooksAlwaysBalance, PTL
=============================================================================
