--------------------------- MODULE ReqDependency ---------------------------
(***************************************************************************)
(* The order of low-level requests: SelectLowLevelReqQ, the two blocked    *)
(* queues and their release (request_transform.c, request_allocation.c),   *)
(* under the completions the host DMA engine and the dies report.          *)
(*                                                                         *)
(* Requests are issued one after another but finish in any order.  Two     *)
(* mechanisms keep the outcome that of the issue order: the requests of a  *)
(* data buffer entry form a chain, of which only the first one runs; and   *)
(* per block a table holds programs back to page order, reads until their  *)
(* page is programmed, and an erase until the block's reads are through.   *)
(*                                                                         *)
(* What is issued is any sequence SliceStore allows: pages of a block in   *)
(* ascending order, reads of pages already issued, an erase when the block *)
(* is full.  The entries stand for data buffer entries and for the         *)
(* temporary ones of garbage collection, which are chained alike.          *)
(***************************************************************************)
EXTENDS Integers, Sequences, FiniteSets, SequencesExt

CONSTANTS
  Tags,            \* request slots of the pool
  Entries,         \* data buffer entries
  Dies, Blocks,    \* a block is a pair of a die and a number
  PAGES_PER_BLOCK,
  Values,          \* contents of an entry or a page
  ERASED,          \* content of a page that is not programmed
  NONE,            \* REQ_SLOT_TAG_NONE, no data buffer
  DrainedBeforeReuse  \* TRUE: a block is used and erased again only when the
                      \* programs, then the erase, of its last use are let through

ASSUME PagesAssumption == PAGES_PER_BLOCK \in Nat \ {0}
ASSUME NamesAssumption == NONE \notin Tags \cup Entries /\ ERASED \notin Values
ASSUME PoolAssumption == IsFiniteSet(Tags)
ASSUME DrainAssumption == DrainedBeforeReuse \in BOOLEAN

DieBlocks == Dies \X Blocks
Pages     == 0 .. PAGES_PER_BLOCK - 1
DmaCodes  == {"RxDMA", "TxDMA"}

VARIABLES
  pool,      \* the request slots, the queues and the dependency table
  issuing,   \* the request waiting in SyncReleaseEraseReq, or NONE
  data,      \* content of the entries
  flash,     \* content of the pages
  shadow     \* both, had every request finished before the next was issued

depVars == <<pool, issuing, data, flash, shadow>>

\* One request; "want" is the content it moves if requests finish in order.
Request(code, e, b, p, w) ==
  [reqCode |-> code, entry |-> e, block |-> b, page |-> p, want |-> w]

NoRequest == Request(NONE, NONE, NONE, NONE, NONE)

-----------------------------------------------------------------------------
(* Queues. *)

PutToNandReqQ(k, t) ==
  [k EXCEPT !.reqQueueType[t] = "NAND",
            !.nandReqQ[k.req[t].block[1]] = Append(@, t)]

PutToNvmeDmaReqQ(k, t) ==
  [k EXCEPT !.reqQueueType[t] = "NVME_DMA", !.nvmeDmaReqQ = Append(@, t)]

PutToBlockedByRowAddrDepReqQ(k, t) ==
  [k EXCEPT !.reqQueueType[t] = "BLOCKED_BY_ROW_ADDR_DEP",
            !.rowAddrDepReqQ[k.req[t].block[1]] = Append(@, t)]

\* The list blockedByBufDepReqQ is only ever searched by its members' tags.
PutToBlockedByBufDepReqQ(k, t) ==
  [k EXCEPT !.reqQueueType[t] = "BLOCKED_BY_BUF_DEP"]

\* Faulty variant: the request is not told who it waits for.
UpdateBlockingReq_TailOnly(k, t) == [k EXCEPT !.blockingReqTail[k.req[t].entry] = t]

\* UpdateDataBufEntryInfoBlockingReq, UpdateTempDataBufEntryInfoBlockingReq
UpdateBlockingReq(k, t) ==
  LET e    == k.req[t].entry
      tail == k.blockingReqTail[e]
      last == [k EXCEPT !.blockingReqTail[e] = t]
  IN  IF tail = NONE THEN last
      ELSE [last EXCEPT !.prevBlockingReq[t] = tail, !.nextBlockingReq[tail] = t]

-----------------------------------------------------------------------------
(* The row address dependency table. *)

\* Faulty variant: an erase does not wait for the reads of its block.
RowAddrPass_IgnoresReads(k, t) ==
  LET r == k.req[t] IN
  CASE r.reqCode = "READ"  -> r.page < k.permittedProgPage[r.block]
    [] r.reqCode = "WRITE" -> r.page = k.permittedProgPage[r.block]
    [] r.reqCode = "ERASE" -> k.permittedProgPage[r.block] = PAGES_PER_BLOCK

\* Request t may go to its die.  An erase is only issued for a full block, so
\* programmedPageCnt is PAGES_PER_BLOCK.
RowAddrPass(k, t) ==
  LET r == k.req[t] IN
  CASE r.reqCode = "READ"  -> r.page < k.permittedProgPage[r.block]
    [] r.reqCode = "WRITE" -> r.page = k.permittedProgPage[r.block]
    [] r.reqCode = "ERASE" -> /\ k.permittedProgPage[r.block] = PAGES_PER_BLOCK
                              /\ k.blockedReadReqCnt[r.block] = 0

\* A read was counted if it was held before.
ReadGranted(k, b, counted) ==
  IF counted THEN [k EXCEPT !.blockedReadReqCnt[b] = @ - 1] ELSE k

\* Faulty variant: the flag of the erase stays set.
EraseGranted_KeepsFlag(k, b) == [k EXCEPT !.permittedProgPage[b] = 0]

EraseGranted(k, b) ==
  [k EXCEPT !.permittedProgPage[b] = 0, !.blockedEraseReqFlag[b] = FALSE]

\* What letting request t through changes in the table.
LetThrough(k, t, counted) ==
  LET r == k.req[t] IN
  CASE r.reqCode = "READ"  -> ReadGranted(k, r.block, counted)
    [] r.reqCode = "WRITE" -> [k EXCEPT !.permittedProgPage[r.block] = @ + 1]
    [] r.reqCode = "ERASE" -> EraseGranted(k, r.block)

\* What holding it back changes, when it is issued.
HoldBack(k, t) ==
  LET r == k.req[t] IN
  CASE r.reqCode = "READ"  -> [k EXCEPT !.blockedReadReqCnt[r.block] = @ + 1]
    [] r.reqCode = "ERASE" -> [k EXCEPT !.blockedEraseReqFlag[r.block] = TRUE]
    [] OTHER -> k

\* SelectLowLevelReqQ, for a request that has not to wait for an erase: the
\* calls of CheckRowAddrDep and UpdateRowAddrDepTableForBufBlockedReq included.
SelectLowLevelReqQ(k, t) ==
  IF k.prevBlockingReq[t] # NONE THEN PutToBlockedByBufDepReqQ(HoldBack(k, t), t)
  ELSE IF k.req[t].reqCode \in DmaCodes THEN PutToNvmeDmaReqQ(k, t)
  ELSE IF RowAddrPass(k, t) THEN PutToNandReqQ(LetThrough(k, t, FALSE), t)
  ELSE PutToBlockedByRowAddrDepReqQ(HoldBack(k, t), t)

\* A request freed of its data buffer dependency, in ReleaseBlockedByBufDepReq.
Unblocked(k, t) ==
  IF k.req[t].reqCode \in DmaCodes THEN PutToNvmeDmaReqQ(k, t)
  ELSE IF RowAddrPass(k, t) THEN PutToNandReqQ(LetThrough(k, t, TRUE), t)
  ELSE PutToBlockedByRowAddrDepReqQ(k, t)

\* PutToFreeReqQ, then ReleaseBlockedByBufDepReq, of a finished request that
\* has left its queue.  A successor that is still being issued finds the
\* dependency gone by itself.
ReleaseBlockedByBufDepReq(k, t) ==
  LET next == k.nextBlockingReq[t]
      e    == k.req[t].entry
      free == [k EXCEPT !.reqQueueType[t] = "FREE", !.req[t] = NoRequest]
      off  == IF e # NONE /\ k.blockingReqTail[e] = t
              THEN [free EXCEPT !.blockingReqTail[e] = NONE] ELSE free
      freed == [off EXCEPT !.nextBlockingReq[t] = NONE,
                           !.prevBlockingReq[next] = NONE]
  IN  IF next = NONE THEN off
      ELSE IF k.reqQueueType[next] = "BLOCKED_BY_BUF_DEP" THEN Unblocked(freed, next)
      ELSE freed

\* ReleaseBlockedByRowAddrDepReq, one request.
ReleaseIfPassed(k, t) ==
  IF RowAddrPass(k, t)
  THEN PutToNandReqQ(
         LetThrough([k EXCEPT !.rowAddrDepReqQ[k.req[t].block[1]] = RemoveFirst(@, t)],
                    t, TRUE), t)
  ELSE k

\* ReleaseBlockedByRowAddrDepReq, called for a die that has run out of work.
ReleaseBlockedByRowAddrDepReq(k, d) ==
  IF k.nandReqQ[d] = <<>> THEN FoldLeft(ReleaseIfPassed, k, k.rowAddrDepReqQ[d])
  ELSE k

-----------------------------------------------------------------------------
(* Issuing. *)

IsFree(t) == pool.reqQueueType[t] = "FREE"

\* Faulty variant: a read does not wait for the erase of its block.
WaitsForErase_Never(code, b) == FALSE

\* A read of a block with a waiting erase runs SyncReleaseEraseReq first.
WaitsForErase(code, b) == code = "READ" /\ pool.blockedEraseReqFlag[b]

\* A request enters slot t and the chain of its entry.  GetFromFreeReqQ waits
\* for a free slot; which one it gets makes no difference.
Issue(t, code, e, b, p, w) ==
  /\ issuing = NONE
  /\ IsFree(t)
  /\ LET k == [pool EXCEPT !.req[t] = Request(code, e, b, p, w),
                           !.reqQueueType[t] = "NONE"]
         chained == IF e = NONE THEN k ELSE UpdateBlockingReq(k, t)
     IN  IF WaitsForErase(code, b)
         THEN pool' = chained /\ issuing' = t
         ELSE pool' = SelectLowLevelReqQ(chained, t) /\ UNCHANGED issuing
  /\ UNCHANGED <<data, flash>>

IssueRx(t, e, v) ==
  /\ Issue(t, "RxDMA", e, NONE, NONE, v)
  /\ shadow' = [shadow EXCEPT !.data[e] = v]

IssueTx(t, e) ==
  /\ Issue(t, "TxDMA", e, NONE, NONE, shadow.data[e])
  /\ UNCHANGED shadow

IssueRead(t, e, b, p) ==
  /\ p < shadow.issued[b]
  /\ Issue(t, "READ", e, b, p, shadow.flash[<<b, p>>])
  /\ shadow' = [shadow EXCEPT !.data[e] = shadow.flash[<<b, p>>]]

Held(t) ==
  pool.reqQueueType[t] \in {"BLOCKED_BY_BUF_DEP", "BLOCKED_BY_ROW_ADDR_DEP"}

\* No program of the previous use of block b is held when it is written again.
Drained(b) ==
  DrainedBeforeReuse /\ shadow.issued[b] = 0 =>
    ~ \E t \in Tags : Held(t) /\ pool.req[t].reqCode = "WRITE" /\ pool.req[t].block = b

IssueWrite(t, e, b) ==
  LET p == shadow.issued[b] IN
  /\ p < PAGES_PER_BLOCK
  /\ Drained(b)
  /\ Issue(t, "WRITE", e, b, p, shadow.data[e])
  /\ shadow' = [shadow EXCEPT !.flash[<<b, p>>] = shadow.data[e],
                              !.issued[b] = p + 1]

IssueErase(t, b) ==
  /\ shadow.issued[b] = PAGES_PER_BLOCK
  /\ DrainedBeforeReuse => ~ pool.blockedEraseReqFlag[b]
  /\ Issue(t, "ERASE", NONE, b, NONE, NONE)
  /\ shadow' = [shadow EXCEPT
       !.flash = [bp \in DieBlocks \X Pages |-> IF bp[1] = b THEN ERASED ELSE @[bp]],
       !.issued[b] = 0]

\* SyncReleaseEraseReq returns, and the read goes on.
EndSyncReleaseEraseReq ==
  /\ issuing # NONE
  /\ ~ pool.blockedEraseReqFlag[pool.req[issuing].block]
  /\ pool' = SelectLowLevelReqQ(pool, issuing)
  /\ issuing' = NONE
  /\ UNCHANGED <<data, flash, shadow>>

-----------------------------------------------------------------------------
(* Completion. *)

\* The transfers of one direction finish in the order they were issued.
InIssueOrder(done) ==
  \A i, j \in DOMAIN pool.nvmeDmaReqQ :
    LET t == pool.nvmeDmaReqQ[i]
        u == pool.nvmeDmaReqQ[j]
    IN  i < j /\ u \in done /\ pool.req[t].reqCode = pool.req[u].reqCode => t \in done

FinishTransfer(k, t) ==
  ReleaseBlockedByBufDepReq([k EXCEPT !.nvmeDmaReqQ = RemoveFirst(@, t)], t)

\* The walk through the queue, from the newest request to the oldest.
FinishTransfers(k, done) ==
  LET Look(m, t) == IF t \in done THEN FinishTransfer(m, t) ELSE m
  IN  FoldLeft(Look, k, Reverse(k.nvmeDmaReqQ))

\* CheckDoneNvmeDmaReq finds the requests done and releases them.  What the host
\* sent is then in their entries.
CheckDoneNvmeDmaReq ==
  \E done \in (SUBSET ToSet(pool.nvmeDmaReqQ)) \ {{}} :
    LET Received(e) ==
          {t \in done : pool.req[t].reqCode = "RxDMA" /\ pool.req[t].entry = e}
    IN  /\ InIssueOrder(done)
        /\ pool' = FinishTransfers(pool, done)
        /\ data' = [e \in Entries |->
             IF Received(e) = {} THEN data[e]
             ELSE pool.req[CHOOSE t \in Received(e) : TRUE].want]
        /\ UNCHANGED <<issuing, flash, shadow>>

\* What the die does for request r.
NandEffect(r) ==
  \/ /\ r.reqCode = "READ"
     /\ data' = [data EXCEPT ![r.entry] = flash[<<r.block, r.page>>]]
     /\ UNCHANGED flash
  \/ /\ r.reqCode = "WRITE"
     /\ flash' = [flash EXCEPT ![<<r.block, r.page>>] = data[r.entry]]
     /\ UNCHANGED data
  \/ /\ r.reqCode = "ERASE"
     /\ flash' = [bp \in DieBlocks \X Pages |-> IF bp[1] = r.block THEN ERASED
                                                ELSE flash[bp]]
     /\ UNCHANGED data

\* Die d finishes the head of its queue: SchedulingNandReqPerCh, for a way
\* whose status is no longer running.
FinishNandReq(d) ==
  /\ pool.nandReqQ[d] # <<>>
  /\ LET t == Head(pool.nandReqQ[d]) IN
     /\ NandEffect(pool.req[t])
     /\ pool' = ReleaseBlockedByRowAddrDepReq(
                  ReleaseBlockedByBufDepReq(
                    [pool EXCEPT !.nandReqQ[d] = Tail(@)], t), d)
  /\ UNCHANGED <<issuing, shadow>>

\* SchedulingNandReqPerCh, for an idle way.
ReleaseIdleWay(d) ==
  /\ pool.nandReqQ[d] = <<>>
  /\ pool' = ReleaseBlockedByRowAddrDepReq(pool, d)
  /\ UNCHANGED <<issuing, data, flash, shadow>>

-----------------------------------------------------------------------------

DepInit ==
  /\ pool = [req             |-> [t \in Tags |-> NoRequest],
             reqQueueType    |-> [t \in Tags |-> "FREE"],
             prevBlockingReq |-> [t \in Tags |-> NONE],
             nextBlockingReq |-> [t \in Tags |-> NONE],
             blockingReqTail |-> [e \in Entries |-> NONE],
             nvmeDmaReqQ     |-> <<>>,
             nandReqQ        |-> [d \in Dies |-> <<>>],
             rowAddrDepReqQ  |-> [d \in Dies |-> <<>>],
             permittedProgPage   |-> [b \in DieBlocks |-> 0],
             blockedReadReqCnt   |-> [b \in DieBlocks |-> 0],
             blockedEraseReqFlag |-> [b \in DieBlocks |-> FALSE]]
  /\ issuing = NONE
  /\ data  = [e \in Entries |-> ERASED]
  /\ flash = [bp \in DieBlocks \X Pages |-> ERASED]
  /\ shadow = [data |-> data, flash |-> flash, issued |-> [b \in DieBlocks |-> 0]]

SchedulingNandReq == \E d \in Dies : FinishNandReq(d) \/ ReleaseIdleWay(d)

\* One round of the loops that wait for requests.
Round == CheckDoneNvmeDmaReq \/ SchedulingNandReq

DepNext ==
  \/ \E t \in Tags, e \in Entries :
       \/ \E v \in Values : IssueRx(t, e, v)
       \/ IssueTx(t, e)
       \/ \E b \in DieBlocks : \/ IssueWrite(t, e, b)
                               \/ \E p \in Pages : IssueRead(t, e, b, p)
  \/ \E t \in Tags, b \in DieBlocks : IssueErase(t, b)
  \/ EndSyncReleaseEraseReq
  \/ Round

DepSpec == DepInit /\ [][DepNext]_depVars

-----------------------------------------------------------------------------
(* Correctness. *)

\* Whatever runs finds what it would find had every earlier request finished
\* first: a die programs an erased page, with the content its entry was issued
\* with; a read finds the page it was issued for; a transfer to the host finds
\* the content of its entry at that time.
RunsAsIssued ==
  /\ \A d \in Dies : pool.nandReqQ[d] # <<>> =>
       LET r  == pool.req[Head(pool.nandReqQ[d])]
           at == <<r.block, r.page>>
       IN  /\ r.reqCode = "READ"  => flash[at] = r.want
           /\ r.reqCode = "WRITE" => flash[at] = ERASED /\ data[r.entry] = r.want
  /\ \A t \in ToSet(pool.nvmeDmaReqQ) :
       pool.req[t].reqCode = "TxDMA" => data[pool.req[t].entry] = pool.req[t].want

\* When no request is left every entry and every page holds what it would had
\* each request finished before the next was issued.
AtRestAsIssued ==
  (\A t \in Tags : IsFree(t)) => data = shadow.data /\ flash = shadow.flash

\* Of the requests of an entry only the first of the chain is with the device,
\* so no two of them use the entry at a time.
OneUserPerEntry ==
  \A t, u \in Tags :
    /\ pool.reqQueueType[t] \in {"NAND", "NVME_DMA"}
    /\ pool.reqQueueType[u] # "FREE"
    /\ pool.req[t].entry # NONE
    /\ pool.req[u].entry = pool.req[t].entry
    /\ pool.prevBlockingReq[u] = NONE
    => t = u

\* The device has a request it can finish.
UnderWay == pool.nvmeDmaReqQ # <<>> \/ \E d \in Dies : pool.nandReqQ[d] # <<>>

\* The next look at an idle die lets a held request through.
WillBeReleased ==
  \E d \in Dies : /\ pool.nandReqQ[d] = <<>>
                  /\ \E t \in ToSet(pool.rowAddrDepReqQ[d]) : RowAddrPass(pool, t)

\* The read in SyncReleaseEraseReq has nothing left to wait for.
MayGoOn ==
  issuing # NONE /\ ~ pool.blockedEraseReqFlag[pool.req[issuing].block]

\* The loops SyncReleaseEraseReq, SyncAvailFreeReq and SyncAllLowLevelReqDone
\* return: as long as a request is left, the device has one to finish or the
\* loop itself goes on.  Requests never wait for each other in a circle, or for
\* one that is not issued yet; and as nothing else is issued meanwhile, each
\* completion leaves one less.
WaitsCanEnd ==
  (\E t \in Tags : ~ IsFree(t)) => UnderWay \/ WillBeReleased \/ MayGoOn
=============================================================================
