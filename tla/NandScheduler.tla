---------------------------- MODULE NandScheduler ----------------------------
(***************************************************************************)
(* The scheduler of one flash channel: request_schedule.c, with the device *)
(* behind nsc_driver.c.                                                    *)
(*                                                                         *)
(* Every way (die) of the channel is on one of seven lists, by what it is  *)
(* waiting for.  A call of SchedulingNandReqPerCh walks the lists, in the  *)
(* order of their priority, while it moves ways between them; a channel    *)
(* has one command register, so a call starts one command and goes on only *)
(* while the controller does not show that it is busy.                     *)
(*                                                                         *)
(* The dies work on their own.  channelBusyShown tells two devices apart:  *)
(* a controller that shows itself busy until it has taken the command, as  *)
(* the driver expects, and the one of sim_backend.c, which never does but  *)
(* looks at the register after every call, and whose dies never fail.      *)
(* The lists, doubly linked by prevWay and nextWay, are sequences here.    *)
(* The reset and set-feature requests of the start-up are left out.        *)
(***************************************************************************)
EXTENDS Integers, Sequences, FiniteSets, SequencesExt

CONSTANTS
  USER_WAYS,      \* ways of the channel
  RETRY_LIMIT,    \* how often a failed read is tried again
  QueueBound,     \* longest request queue of a way
  Workload,       \* the requests each way is given
  NONE            \* an empty command register, no new request

ASSUME WaysAssumption  == USER_WAYS \in Nat \ {0}
ASSUME RetryAssumption == RETRY_LIMIT \in Nat
ASSUME QueueAssumption == QueueBound \in Nat \ {0}
Ways  == 0 .. USER_WAYS - 1
Codes == {"READ", "WRITE", "ERASE"}
NandCodes == Codes \cup {"READ_TRANSFER"}

ASSUME WorkloadAssumption == Workload \in [Ways -> SUBSET Codes]

Lists == {"idle", "statusReport", "statusCheck",
          "readTrigger", "erase", "write", "readTransfer"}
Commanded == (NandCodes \cup {"STATUS"}) \X Ways

ASSUME NoneAssumption == NONE \notin Codes \cup Commanded

VARIABLES
  channelBusyShown,   \* which device this is
  ch,                 \* the tables of the channel and its command register
  nand                \* what each die is doing

schedVars == <<channelBusyShown, ch, nand>>

-----------------------------------------------------------------------------
(* The lists. *)

MoveWay(k, w, from, to) ==
  [k EXCEPT !.list[from] = RemoveFirst(@, w), !.list[to] = Append(@, w)]

\* PutToNandWayPriorityTable: the list for the request a way has next.
PriorityList(k, w) ==
  CASE Head(k.queue[w]) = "READ"          -> "readTrigger"
    [] Head(k.queue[w]) = "READ_TRANSFER" -> "readTransfer"
    [] Head(k.queue[w]) = "WRITE"         -> "write"
    [] Head(k.queue[w]) = "ERASE"         -> "erase"

\* ReleaseBlockedByRowAddrDepReq, if the way has run out of requests: it lets
\* through request "more", if any.
ReleaseInto(k, w, more) ==
  IF k.queue[w] = <<>> /\ more # NONE THEN [k EXCEPT !.queue[w] = <<more>>] ELSE k

-----------------------------------------------------------------------------
(* One way. *)

ControllerBusy(k) == channelBusyShown /\ k.cmd # NONE

\* Faulty variant: the flag of the previous transfer is still up.
IssueNandReq_KeepsFlag(k, w) ==
  LET code == Head(k.queue[w]) IN
  [k EXCEPT !.cmd = <<code, w>>, !.dieState[w] = "EXE",
            !.statusCheckOpt[w] =
               IF code = "READ_TRANSFER" THEN "COMPLETION_FLAG" ELSE "CHECK",
            !.ran[w] = FALSE]

\* The head request of way w goes to the command register.
IssueNandReq(k, w) ==
  LET code == Head(k.queue[w]) IN
  [k EXCEPT !.cmd = <<code, w>>, !.dieState[w] = "EXE",
            !.statusCheckOpt[w] =
               IF code = "READ_TRANSFER" THEN "COMPLETION_FLAG" ELSE "CHECK",
            !.completeFlag[w] = IF code = "READ_TRANSFER" THEN FALSE ELSE @,
            !.ran[w] = FALSE]

\* V2FStatusCheckAsync.  The simulator answers before it returns.
StatusCheckAsync(k, w) ==
  IF channelBusyShown
  THEN [k EXCEPT !.statusReport[w] = "none", !.cmd = <<"STATUS", w>>]
  ELSE [k EXCEPT !.statusReport[w] = "pass"]

\* What CheckReqStatus returns...
ReqStatus(k, w) ==
  CASE k.statusCheckOpt[w] = "COMPLETION_FLAG" /\ k.completeFlag[w] -> "DONE"
    [] k.statusCheckOpt[w] = "REPORT" /\ k.statusReport[w] = "pass" -> "DONE"
    [] k.statusCheckOpt[w] = "REPORT" /\ k.statusReport[w] = "fail" -> "FAIL"
    [] OTHER -> "RUNNING"

\* Faulty variant: a die that reports "running" is not asked again.
CheckReqStatus_AsksOnce(k, w) ==
  CASE k.statusCheckOpt[w] = "CHECK" ->
         StatusCheckAsync([k EXCEPT !.statusCheckOpt[w] = "REPORT"], w)
    [] k.statusCheckOpt[w] = "REPORT" /\ k.statusReport[w] = "pass" ->
         [k EXCEPT !.statusCheckOpt[w] = "NONE"]
    [] OTHER -> k

\* ...and what it changes.
CheckReqStatus(k, w) ==
  CASE k.statusCheckOpt[w] = "CHECK" ->
         StatusCheckAsync([k EXCEPT !.statusCheckOpt[w] = "REPORT"], w)
    [] k.statusCheckOpt[w] = "REPORT" /\ k.statusReport[w] = "pass" ->
         [k EXCEPT !.statusCheckOpt[w] = "NONE"]
    [] k.statusCheckOpt[w] = "REPORT" /\ k.statusReport[w] = "running" ->
         [k EXCEPT !.statusCheckOpt[w] = "CHECK"]
    [] OTHER -> k

\* Faulty variant: the next request of the way inherits the spent retries.
GetFromNandReqQ_KeepsRetry(k, w) ==
  [k EXCEPT !.queue[w] = Tail(@), !.fails[w] = 0]

\* The head request is done with, successful or not; the retries are restored.
GetFromNandReqQ(k, w) ==
  [k EXCEPT !.queue[w] = Tail(@), !.retryLimit[w] = RETRY_LIMIT, !.fails[w] = 0]

\* ExecuteNandReq for a way whose request has ended with this status.  A failed
\* program or erase is treated like a successful one, but for the record of a
\* grown bad block.
EndNandReq(k, w, status) ==
  LET code == Head(k.queue[w])
      idle == [k EXCEPT !.dieState[w] = "IDLE"]
      retries == code \in {"READ", "READ_TRANSFER"} /\ k.retryLimit[w] > 0
  IN  CASE status = "DONE" /\ code = "READ" ->
             [idle EXCEPT !.queue[w] = <<"READ_TRANSFER">> \o Tail(@)]
        [] status = "FAIL" /\ retries ->
             [idle EXCEPT !.queue[w] = <<"READ">> \o Tail(@),
                          !.retryLimit[w] = @ - 1,
                          !.fails[w] = @ + 1]
        [] OTHER -> GetFromNandReqQ(idle, w)

-----------------------------------------------------------------------------
(* SchedulingNandReqPerCh.  "more" says what the releases find. *)

\* The idle list: ways that have got something to do leave it.
IdleWay(k, w, more) ==
  LET r == ReleaseInto(k, w, more) IN
  IF r.queue[w] # <<>> THEN MoveWay(r, w, "idle", PriorityList(r, w)) ELSE r

\* Faulty variant: the list is chosen by the request that has just ended.
ReportWay_StaleHead(k, w, more) ==
  LET status  == ReqStatus(k, w)
      checked == CheckReqStatus(k, w)
      ended   == ReleaseInto(EndNandReq(checked, w, status), w, more)
  IN  CASE nand[w] # "ready" -> k
        [] nand[w] = "ready" /\ status # "RUNNING" ->
             MoveWay(ended, w, "statusReport",
                     IF ended.queue[w] # <<>> THEN PriorityList(k, w) ELSE "idle")
        [] nand[w] = "ready" /\ status = "RUNNING" ->
             IF checked.statusCheckOpt[w] = "CHECK"
             THEN MoveWay(checked, w, "statusReport", "statusCheck") ELSE checked

\* The status report list: ways whose request has ended take up the next one.
ReportWay(k, w, more) ==
  LET status  == ReqStatus(k, w)
      checked == CheckReqStatus(k, w)
      ended   == ReleaseInto(EndNandReq(checked, w, status), w, more)
  IN  CASE nand[w] # "ready" -> k
        [] nand[w] = "ready" /\ status # "RUNNING" ->
             MoveWay(ended, w, "statusReport",
                     IF ended.queue[w] # <<>> THEN PriorityList(ended, w) ELSE "idle")
        [] nand[w] = "ready" /\ status = "RUNNING" ->
             IF checked.statusCheckOpt[w] = "CHECK"
             THEN MoveWay(checked, w, "statusReport", "statusCheck") ELSE checked

\* waitWayCnt: the ways these two loops leave with nothing to be started.
WaitWayCnt(k) == Len(k.list["idle"]) + Len(k.list["statusReport"])

\* The status check list.  The loop goes on at the successor of the way it has
\* moved to the end of another list, so it ends there.
StatusCheckStep(k) ==
  LET IsReady(w) == nand[w] = "ready"
      first == SelectInSeq(k.list["statusCheck"], IsReady)
      w     == k.list["statusCheck"][first]
  IN  IF first = 0 THEN k
      ELSE MoveWay(CheckReqStatus(k, w), w, "statusCheck", "statusReport")

\* Faulty variant: the register is written though the controller is busy.
CommandStep_Overwrites(k, from, to) ==
  IF k.list[from] = <<>> THEN k
  ELSE MoveWay(IssueNandReq(k, Head(k.list[from])), Head(k.list[from]), from, to)

\* The four lists of ways with a command to start.  Here too only the first way
\* is served; once the controller is busy the call returns.
CommandStep(k, from, to) ==
  IF ControllerBusy(k) \/ k.list[from] = <<>> THEN k
  ELSE MoveWay(IssueNandReq(k, Head(k.list[from])), Head(k.list[from]), from, to)

Commands(k) ==
  CommandStep(CommandStep(CommandStep(CommandStep(StatusCheckStep(k),
    "readTrigger", "statusCheck"),
    "erase", "statusCheck"),
    "write", "statusCheck"),
    "readTransfer", "statusReport")

\* The channel after a call.
Scheduled(more) ==
  LET Idle(k, w)   == IdleWay(k, w, more[w])
      Report(k, w) == ReportWay(k, w, more[w])
      idled    == FoldLeft(Idle, ch, ch.list["idle"])
      reported == FoldLeft(Report, idled, ch.list["statusReport"])
  IN  IF WaitWayCnt(reported) # USER_WAYS /\ ~ ControllerBusy(reported)
      THEN Commands(reported) ELSE reported

\* In the simulator the register is empty when the scheduler is called.
MayBeCalled == channelBusyShown \/ ch.cmd = NONE

\* A release matters only to a way that has at most its last request left.
Releases ==
  {more \in [Ways -> Codes \cup {NONE}] :
     \A w \in Ways : /\ more[w] \in Workload[w] \cup {NONE}
                     /\ Len(ch.queue[w]) > 1 => more[w] = NONE}
NoRelease == [w \in Ways |-> NONE]

SchedulingNandReqPerCh ==
  /\ MayBeCalled
  /\ \E more \in Releases : ch' = Scheduled(more)
  /\ UNCHANGED <<channelBusyShown, nand>>

\* A request for way w: SelectLowLevelReqQ, or the release of another request.
PutToNandReqQ(w, code) ==
  /\ code \in Workload[w]
  /\ Len(ch.queue[w]) < QueueBound
  /\ ch' = [ch EXCEPT !.queue[w] = Append(@, code)]
  /\ UNCHANGED <<channelBusyShown, nand>>

-----------------------------------------------------------------------------
(* The device: SchedulingNand, timer_warp. *)

\* The controller takes the command of the register and gives it to the die...
TakeCommand ==
  /\ ch.cmd # NONE
  /\ ch.cmd[1] # "STATUS"
  /\ ch' = [ch EXCEPT !.cmd = NONE]
  /\ nand' = [nand EXCEPT ![ch.cmd[2]] = ch.cmd[1]]
  /\ UNCHANGED channelBusyShown

\* ...or answers a status check itself.
ReportStatus(answer) ==
  /\ ch.cmd # NONE
  /\ ch.cmd[1] = "STATUS"
  /\ ch' = [ch EXCEPT !.cmd = NONE, !.statusReport[ch.cmd[2]] = answer]
  /\ UNCHANGED <<channelBusyShown, nand>>

\* A die is done with its command, and raises the flag of a transfer.
FinishCommand(w) ==
  /\ nand[w] # "ready"
  /\ nand' = [nand EXCEPT ![w] = "ready"]
  /\ ch' = [ch EXCEPT !.completeFlag[w] = @ \/ nand[w] = "READ_TRANSFER",
                      !.ran[w] = TRUE]
  /\ UNCHANGED channelBusyShown

-----------------------------------------------------------------------------

InitReqScheduler ==
  /\ channelBusyShown \in BOOLEAN
  /\ nand = [w \in Ways |-> "ready"]
  /\ ch = [list  |-> [l \in Lists |->
                       IF l = "idle" THEN [i \in 1 .. USER_WAYS |-> i - 1] ELSE <<>>],
           queue |-> [w \in Ways |-> <<>>],
           dieState       |-> [w \in Ways |-> "IDLE"],
           statusCheckOpt |-> [w \in Ways |-> "NONE"],
           retryLimit     |-> [w \in Ways |-> RETRY_LIMIT],
           completeFlag   |-> [w \in Ways |-> FALSE],
           statusReport   |-> [w \in Ways |-> "none"],
           cmd   |-> NONE,
           \* for the properties: has the die carried out the command issued
           \* last, how often has the head request failed
           ran   |-> [w \in Ways |-> FALSE],
           fails |-> [w \in Ways |-> 0]]

Device ==
  \/ TakeCommand
  \/ \E answer \in {"pass", "fail", "running"} : ReportStatus(answer)
  \/ \E w \in Ways : FinishCommand(w)

SchedNext ==
  \/ SchedulingNandReqPerCh
  \/ \E w \in Ways, code \in Codes : PutToNandReqQ(w, code)
  \/ Device

SchedSpec == InitReqScheduler /\ [][SchedNext]_schedVars

\* The main loop and the loops that wait call the scheduler again and again, and
\* the device does what it has been told and stays "running" only so long.  The
\* first condition is the weak fairness of the scheduler, with the condition
\* that enables it.  The second says that the main loop comes round while a
\* die is at work: of the calls that find the register free then, and have
\* something to do, some are made.
HasWork  == MayBeCalled /\ Scheduled(NoRelease) # ch
DieWorks == ch.cmd = NONE /\ \E w \in Ways : nand[w] # "ready"

SchedFairness ==
  /\ []<>(~ HasWork) \/ []<><<SchedulingNandReqPerCh>>_schedVars
  /\ []<>(HasWork /\ DieWorks) => []<><<DieWorks /\ SchedulingNandReqPerCh>>_schedVars
  /\ WF_schedVars(TakeCommand)
  /\ SF_schedVars(ReportStatus("pass") \/ ReportStatus("fail"))
  /\ \A w \in Ways : WF_schedVars(FinishCommand(w))

SchedFairSpec == SchedSpec /\ SchedFairness

-----------------------------------------------------------------------------
(* Correctness. *)

On(w, l) == \E i \in DOMAIN ch.list[l] : ch.list[l][i] = w

\* Every way is on one list, once, and it is the list that its state and its
\* head request call for: a way on the wrong list would be served with the
\* wrong command, or never.
WhereItBelongs(w, l) ==
  CASE l = "idle"         -> ch.dieState[w] = "IDLE"
    [] l = "statusCheck"  -> ch.dieState[w] = "EXE" /\ ch.statusCheckOpt[w] = "CHECK"
    [] l = "statusReport" -> ch.dieState[w] = "EXE"
                             /\ ch.statusCheckOpt[w] \in {"REPORT", "COMPLETION_FLAG"}
    [] OTHER -> ch.dieState[w] = "IDLE" /\ ch.queue[w] # <<>> /\ PriorityList(ch, w) = l

WaysOnTheirLists ==
  \A w \in Ways :
    /\ Cardinality({l \in Lists : On(w, l)}) = 1
    /\ \A l \in Lists :
         /\ On(w, l) => WhereItBelongs(w, l)
         /\ \A i, j \in DOMAIN ch.list[l] :
              ch.list[l][i] = w /\ ch.list[l][j] = w => i = j

\* When the scheduler may find a request ended, successful or not, its die has
\* carried out the command: none is lost in the register or answered by the
\* flag or the report of an earlier one.  It needs a controller that shows
\* itself busy.
EndedHasRun ==
  channelBusyShown =>
    \A w \in Ways :
      ch.dieState[w] = "EXE" /\ ReqStatus(ch, w) # "RUNNING" =>
        ch.ran[w] /\ nand[w] = "ready"

\* A read has all the retries the limit grants, whatever the requests before it
\* used up, and never more; trigger and transfer share them.
RetriesExact ==
  \A w \in Ways : ch.retryLimit[w] + ch.fails[w] = RETRY_LIMIT

\* The lists a call serves before this one, in the order of Commands.
ServedBefore(l) ==
  LET order == <<"statusCheck", "readTrigger", "erase", "write", "readTransfer">>
  IN  {order[i] : i \in {j \in DOMAIN order : l \in Range(SubSeq(order, j + 1, 5))}}

GoesBefore(v, l) == \E k \in ServedBefore(l) : On(v, k)

\* No way waits forever on a list: one with a command to start starts it, and one
\* whose command runs gets its report; unless two others of the channel
\* take turns before it.  A single one does not keep the register: while
\* its die works, a call that finds the register free gets to the later lists.
\* So with the two ways of the configuration every way gets its turn.
NoWayStuck ==
  \A w \in Ways, l \in Lists \ {"idle"} :
    <>[]On(w, l) =>
      \E u, v \in Ways \ {w} :
        /\ u < v
        /\ []<>GoesBefore(u, l)
        /\ []<>GoesBefore(v, l)
=============================================================================
