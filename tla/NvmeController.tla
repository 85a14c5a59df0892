--------------------------- MODULE NvmeController ---------------------------
(***************************************************************************)
(* The controller state machine of the firmware on the board: the register *)
(* by which it and the host agree that the controller is enabled, ready    *)
(* and shut down, the interrupt handler that tells the main loop what the  *)
(* host has changed (dev_irq_handler), the branches of the main loop that  *)
(* act on it (nvme_main), and the queues they open and close.              *)
(*                                                                         *)
(* This is the board's side of the "#if 1 //jy" switches: there the        *)
(* handler is connected and check_nvme_cc_en reads what the host wrote.    *)
(* A branch is cut at the writes the host can see and before the           *)
(* assignment to the status, so that host and interrupt can come between.  *)
(***************************************************************************)
EXTENDS Integers, Sequences, FiniteSets

CONSTANTS
  QueueIds,   \* I/O queues, of which the firmware has 8
  RST_LIMIT   \* 5: resets without a command before pcie_async_reset

ASSUME ResetAssumption == RST_LIMIT \in Nat

VARIABLES
  status,   \* g_nvmeTask.status
  pc,       \* where the main loop is
  cc,       \* the controller configuration, written by the host: en, shn
  csts,     \* the controller status, written by the firmware: rdy, shst
  queues,   \* the queue registers: admin, and per I/O queue sq and cq
  irq,      \* the causes in the interrupt status register
  linkUp,   \* the PCIe link
  patient,  \* whether the host waits until the firmware has settled
  rstCnt

registers == <<cc, csts, queues, irq, linkUp, patient>>
ctlVars   == <<status, registers, rstCnt>>

Closed == [admin |-> FALSE, sq |-> [q \in QueueIds |-> FALSE],
                            cq |-> [q \in QueueIds |-> FALSE]]

ControllerInit ==
  /\ cc = [en |-> FALSE, shn |-> 0]
  /\ csts = [rdy |-> FALSE, shst |-> 0]
  /\ queues = Closed
  /\ irq = {}
  /\ linkUp = TRUE
  /\ patient \in BOOLEAN
  /\ rstCnt = 0

-----------------------------------------------------------------------------
(* The interrupt, which may come between any two steps of the main loop.    *)

\* dev_irq_handler: the registers are read when the interrupt is served, and
\* the causes are looked at in a fixed order, the last one winning.
dev_irq_handler ==
  /\ irq # {}
  /\ irq' = {}
  /\ status' = IF "shn" \in irq /\ cc.shn = 1 THEN "SHUTDOWN"
               ELSE IF "en" \in irq
                    THEN (IF cc.en THEN "WAIT_CC_EN" ELSE "RESET")
               ELSE IF "link" \in irq /\ ~ linkUp THEN "RESET"
               ELSE status
  /\ UNCHANGED <<cc, csts, queues, linkUp, patient, rstCnt>>

-----------------------------------------------------------------------------
(* The branches of nvme_main.  Each ends in "llr", the end of the pass.     *)

\* check_nvme_cc_en
check_nvme_cc_en == cc.en

OpenAdminQueue ==
  /\ pc = "status" /\ status = "WAIT_CC_EN"
  /\ check_nvme_cc_en
  /\ queues' = [queues EXCEPT !.admin = TRUE]
  /\ pc' = "open"
  /\ UNCHANGED <<status, cc, csts, irq, linkUp, patient, rstCnt>>

TellReady ==
  /\ pc = "open"
  /\ csts' = [csts EXCEPT !.rdy = TRUE]
  /\ pc' = "ready"
  /\ UNCHANGED <<status, cc, queues, irq, linkUp, patient, rstCnt>>

\* The table of grown bad blocks that the shutdown branch writes after it has
\* left for WAIT_RESET is the subject of BadBlocks.
EndBranch ==
  /\ \/ pc = "ready"  /\ status' = "RUNNING"
     \/ pc = "told"   /\ status' = "WAIT_RESET"
     \/ pc = "closed" /\ status' = "IDLE"
  /\ pc' = "llr"
  /\ UNCHANGED <<registers, rstCnt>>

\* Faulty variant: the host learns of the end before the queues are closed.
BeginShutdown_TellsFirst ==
  /\ pc = "status" /\ status = "SHUTDOWN"
  /\ cc.shn # 0
  /\ csts' = [csts EXCEPT !.shst = 2]
  /\ pc' = "shut"
  /\ UNCHANGED <<status, cc, queues, irq, linkUp, patient, rstCnt>>

BeginShutdown ==
  /\ pc = "status" /\ status = "SHUTDOWN"
  /\ cc.shn # 0
  /\ csts' = [csts EXCEPT !.shst = 1]
  /\ pc' = "shut"
  /\ UNCHANGED <<status, cc, queues, irq, linkUp, patient, rstCnt>>

CloseForShutdown ==
  /\ pc = "shut"
  /\ queues' = Closed
  /\ pc' = "tell"
  /\ UNCHANGED <<status, cc, csts, irq, linkUp, patient, rstCnt>>

TellShutdown ==
  /\ pc = "tell"
  /\ csts' = [csts EXCEPT !.shst = 2]
  /\ pc' = "told"
  /\ UNCHANGED <<status, cc, queues, irq, linkUp, patient, rstCnt>>

\* Faulty variant: the ready bit is forgotten.
Disable_StaysReady ==
  /\ pc = "status" /\ status = "WAIT_RESET"
  /\ ~ check_nvme_cc_en
  /\ csts' = [csts EXCEPT !.shst = 0]
  /\ pc' = "closed"
  /\ UNCHANGED <<status, cc, queues, irq, linkUp, patient, rstCnt>>

\* The host disables the controller after a shutdown.
Disable ==
  /\ pc = "status" /\ status = "WAIT_RESET"
  /\ ~ check_nvme_cc_en
  /\ csts' = [rdy |-> FALSE, shst |-> 0]
  /\ pc' = "closed"
  /\ UNCHANGED <<status, cc, queues, irq, linkUp, patient, rstCnt>>

\* pcie_async_reset writes a register of which it has set the count alone: what
\* the other bits say until they are set below is not determined.
BeginReset ==
  /\ pc = "status" /\ status = "RESET"
  /\ queues' = [Closed EXCEPT !.admin = queues.admin]
  /\ IF rstCnt >= RST_LIMIT
     THEN /\ csts' \in [rdy : BOOLEAN, shst : 0 .. 2]
          /\ rstCnt' = 0
     ELSE /\ rstCnt' = rstCnt + 1
          /\ UNCHANGED csts
  /\ pc' = "reset"
  /\ UNCHANGED <<status, cc, irq, linkUp, patient>>

FinishReset ==
  /\ pc = "reset"
  /\ queues' = [queues EXCEPT !.admin = FALSE]
  /\ csts' = [rdy |-> FALSE, shst |-> 0]
  /\ pc' = "closed"
  /\ UNCHANGED <<status, cc, irq, linkUp, patient, rstCnt>>

\* A pass on which the status asks for nothing, or not yet.
NothingToDo ==
  /\ pc = "status"
  /\ \/ status = "IDLE"
     \/ status = "WAIT_CC_EN" /\ ~ check_nvme_cc_en
     \/ status = "SHUTDOWN" /\ cc.shn = 0
     \/ status = "WAIT_RESET" /\ check_nvme_cc_en
  /\ pc' = "llr"
  /\ UNCHANGED ctlVars

Branch ==
  \/ OpenAdminQueue
  \/ TellReady
  \/ EndBranch
  \/ BeginShutdown
  \/ CloseForShutdown
  \/ TellShutdown
  \/ Disable
  \/ BeginReset
  \/ FinishReset
  \/ NothingToDo

MidBranch == pc \in {"open", "ready", "shut", "tell", "told", "reset", "closed"}

-----------------------------------------------------------------------------
(* Admin commands.  Those that only answer are "other"; the name space and  *)
(* feature data they carry, and the copies of the queue registers the       *)
(* firmware keeps and never reads, are left out.                            *)

QueueOps == {"create_cq", "create_sq", "delete_cq", "delete_sq"}
AdminOps == QueueOps \cup {"other", "async_event"}

\* handle_create_io_sq, handle_create_io_cq, handle_delete_io_sq,
\* handle_delete_io_cq
QueueSet(opc, q) ==
  CASE opc = "create_cq" -> [queues EXCEPT !.cq[q] = TRUE]
    [] opc = "create_sq" -> [queues EXCEPT !.sq[q] = TRUE]
    [] opc = "delete_cq" -> [queues EXCEPT !.cq[q] = FALSE]
    [] opc = "delete_sq" -> [queues EXCEPT !.sq[q] = FALSE]
    [] OTHER             -> queues

-----------------------------------------------------------------------------
(* The host's side of the register, external.  The host changes a bit only  *)
(* when the last change has been answered; "quiet" is left to the caller:   *)
(* no command is outstanding.                                               *)

\* No interrupt is pending, and nothing the host has done is still to be acted on.
Settled ==
  /\ ~ MidBranch /\ irq = {}
  /\ status \in {"IDLE", "RUNNING", "WAIT_RESET"}

HostEnables ==
  /\ ~ cc.en /\ ~ csts.rdy /\ linkUp
  /\ cc' = [en |-> TRUE, shn |-> 0]
  /\ irq' = irq \cup {"en"}
  /\ UNCHANGED <<csts, queues, linkUp>>

HostDisables ==
  /\ cc.en /\ csts.rdy
  /\ cc.shn = 0 \/ csts.shst = 2
  /\ cc' = [en |-> FALSE, shn |-> 0]
  /\ irq' = irq \cup {"en"}
  /\ UNCHANGED <<csts, queues, linkUp>>

HostShutsDown ==
  /\ cc.en /\ csts.rdy /\ cc.shn = 0 /\ csts.shst = 0
  /\ cc' = [cc EXCEPT !.shn = 1]
  /\ irq' = irq \cup {"shn"}
  /\ UNCHANGED <<csts, queues, linkUp>>

\* The controller loses its host, and with it the enable bit.
LinkFails ==
  /\ linkUp
  /\ linkUp' = FALSE
  /\ cc' = [en |-> FALSE, shn |-> 0]
  /\ irq' = irq \cup {"link"}
  /\ UNCHANGED <<csts, queues>>

\* The interrupt is served before the link has been trained again.
LinkReturns ==
  /\ ~ linkUp /\ "link" \notin irq
  /\ linkUp' = TRUE
  /\ irq' = irq \cup {"link"}
  /\ UNCHANGED <<cc, csts, queues>>

HostChangesRegister ==
  /\ patient => Settled
  /\ HostEnables \/ HostDisables \/ HostShutsDown \/ LinkFails \/ LinkReturns
  /\ UNCHANGED <<status, pc, patient, rstCnt>>
=============================================================================
