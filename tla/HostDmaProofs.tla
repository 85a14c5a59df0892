---------------------------- MODULE HostDmaProofs ----------------------------
(***************************************************************************)
(* Proofs about the host DMA, for slices, FIFOs, overflow counts, pools    *)
(* and commands of any size:                                               *)
(*  - no block beyond the name space is ever moved;                        *)
(*  - the FIFO indices and overflow counts tell exactly which requests are *)
(*    done, and a request is released only when its blocks have been moved;*)
(*  - a command ends when each of its blocks has been moved, once and to   *)
(*    its place.                                                           *)
(***************************************************************************)
EXTENDS HostDma, FiniteSetTheorems, TLAPS

-----------------------------------------------------------------------------
(* The split of a command into slices *)

\* Division with remainder.
LEMMA DivMod ==
  ASSUME NEW a \in Nat, NEW B \in Nat \ {0}
  PROVE  /\ a \div B \in Nat /\ a % B \in Nat
         /\ a % B < B
         /\ a = (B * (a \div B)) + (a % B)
OBVIOUS

\* An index that wraps stays an index.
LEMMA NextWraps ==
  ASSUME NEW k \in Nat, NEW m \in Nat \ {0}
  PROVE  (k + 1) % m \in 0 .. m - 1
<1>1. k + 1 \in Nat
  OBVIOUS
<1> QED
  BY <1>1, DivMod

\* Multiples grow with their factor.
LEMMA TimesMonotonic ==
  ASSUME NEW B \in Nat, NEW k \in Nat, NEW l \in Nat, k <= l
  PROVE  /\ B * k \in Nat /\ B * l \in Nat
         /\ B * k <= B * l
<1>1. PICK d \in Nat : l = k + d
  <2>1. l - k \in Nat /\ l = k + (l - k)
    OBVIOUS
  <2> QED
    BY <2>1
<1>2. B * l = (B * k) + (B * d) /\ B * k \in Nat /\ B * d \in Nat
  BY <1>1
<1> QED
  BY <1>2

\* A number is a multiple and a remainder in one way only.
LEMMA QuotientUnique ==
  ASSUME NEW B \in Nat \ {0}, NEW q \in Nat, NEW p \in Nat,
         NEW r \in 0 .. B - 1, NEW s \in 0 .. B - 1,
         (B * q) + r = (B * p) + s
  PROVE  q = p
<1>1. B * (q + 1) = (B * q) + B /\ B * (p + 1) = (B * p) + B
  OBVIOUS
<1>2. B * q \in Nat /\ B * p \in Nat
  OBVIOUS
<1>3. ~ (q + 1 <= p)
  <2> SUFFICES ASSUME q + 1 <= p PROVE FALSE
    OBVIOUS
  <2>1. B * (q + 1) <= B * p
    BY TimesMonotonic
  <2> QED
    BY <1>1, <1>2, <2>1
<1>4. ~ (p + 1 <= q)
  <2> SUFFICES ASSUME p + 1 <= q PROVE FALSE
    OBVIOUS
  <2>1. B * (p + 1) <= B * q
    BY TimesMonotonic
  <2> QED
    BY <1>1, <1>2, <2>1
<1> QED
  BY <1>3, <1>4

\* Multiples of a sum.
LEMMA OneMoreTimes ==
  ASSUME NEW B \in Nat, NEW q \in Nat, NEW i \in Nat
  PROVE  /\ B * (q + i) = (B * q) + (B * i)
         /\ (B * (q + i - 1)) + B = (B * q) + (B * i)
         /\ B * q \in Nat /\ B * i \in Nat
OBVIOUS

\* A slice of a command: at least one block, all of them inside the slice and
\* before the end of the command.
SliceWithin(s, end) ==
  /\ s.lsa \in Nat /\ s.startIndex \in Nat /\ s.offset \in Nat
  /\ s.num \in 1 .. NVME_BLOCKS_PER_SLICE
  /\ (s.lsa * NVME_BLOCKS_PER_SLICE) + s.offset + s.num <= end

\* ReqTransNvmeToSlice never reaches beyond the command.
LEMMA SlicesWithin ==
  ASSUME NEW startLba \in Nat, NEW nlb \in Nat,
         NEW i \in DOMAIN Slices(startLba, nlb)
  PROVE  SliceWithin(Slices(startLba, nlb)[i], startLba + nlb + 1)
<1> DEFINE B      == NVME_BLOCKS_PER_SLICE
           q      == startLba \div B
           offset == startLba % B
           loop   == (offset + nlb + 1) \div B
           rest   == (offset + nlb + 1) % B
           first  == IF loop > 0 THEN B - offset ELSE nlb + 1
           last   == (startLba + nlb + 1) % B
           count  == IF loop = 0 THEN 1 ELSE IF last = 0 THEN loop ELSE loop + 1
           end    == startLba + nlb + 1
           s      == Slices(startLba, nlb)[i]
<1>1. B \in Nat \ {0}
  BY SliceAssumption
<1>2. /\ q \in Nat /\ offset \in Nat /\ offset < B
      /\ startLba = (B * q) + offset
  BY <1>1, DivMod
<1>3. /\ loop \in Nat /\ rest \in Nat /\ rest < B
      /\ offset + nlb + 1 = (B * loop) + rest
  <2>1. offset + nlb + 1 \in Nat
    BY <1>2
  <2> HIDE DEF offset
  <2> QED
    BY <1>1, <2>1, DivMod
<1>4. /\ end \in Nat /\ end = (B * q) + (B * loop) + rest
  BY <1>1, <1>2, <1>3
<1>5. /\ i \in 1 .. count
      /\ s = [lsa |-> q + i - 1,
              startIndex |-> IF i = 1 THEN 0 ELSE first + (i - 2) * B,
              offset |-> IF i = 1 THEN offset ELSE 0,
              num |-> IF i = 1 THEN first ELSE IF i <= loop THEN B ELSE last]
  BY DEF Slices
<1>6. /\ s.lsa = q + i - 1
      /\ s.offset = IF i = 1 THEN offset ELSE 0
      /\ s.num = IF i = 1 THEN first ELSE IF i <= loop THEN B ELSE last
      /\ s.startIndex = IF i = 1 THEN 0 ELSE first + (i - 2) * B
  BY <1>5
<1> SUFFICES SliceWithin(s, end)
  OBVIOUS
<1> HIDE DEF s
<1>a. s.startIndex \in Nat
  <2>1. first \in Nat
    BY <1>1, <1>2
  <2>2. i # 1 => i - 2 \in Nat /\ (i - 2) * B \in Nat
    BY <1>1, <1>3, <1>5
  <2> HIDE DEF first
  <2> QED
    BY <1>6, <2>1, <2>2
<1>7. CASE i = 1
  <2>1. s.lsa = q /\ s.offset = offset /\ s.num = first
    BY <1>2, <1>6, <1>7
  <2>2. CASE loop > 0
    <3>1. B <= B * loop /\ B * loop \in Nat
      BY <1>1, <1>3, <2>2, TimesMonotonic
    <3>2. first = B - offset
      BY <2>2
    <3> QED
      BY <1>1, <1>2, <1>3, <1>4, <2>1, <3>1, <3>2, <1>a DEF SliceWithin
  <2>3. CASE loop = 0
    BY <1>1, <1>2, <1>4, <2>1, <2>3, <1>a DEF SliceWithin
  <2> QED
    BY <1>3, <2>2, <2>3
<1>8. CASE i # 1 /\ i <= loop
  <2>1. /\ i \in Nat /\ q + i - 1 \in Nat
        /\ s.lsa = q + i - 1 /\ s.offset = 0 /\ s.num = B
    BY <1>2, <1>3, <1>5, <1>6, <1>8
  <2>2. (B * (q + i - 1)) + B = (B * q) + (B * i)
    <3> HIDE DEF q
    <3> QED
      BY <1>1, <1>2, <2>1, OneMoreTimes
  <2>3. B * i <= B * loop
    BY <1>1, <1>3, <1>8, <2>1, TimesMonotonic
  <2>4. B * q \in Nat /\ B * i \in Nat /\ B * loop \in Nat
    BY <1>1, <1>2, <1>3, <2>1, OneMoreTimes
  <2> QED
    BY <1>1, <1>3, <1>4, <2>1, <2>2, <2>3, <2>4, <1>a DEF SliceWithin
<1>9. CASE i # 1 /\ ~ (i <= loop)
  <2>1. loop # 0 /\ last # 0 /\ i = loop + 1
    BY <1>3, <1>5, <1>9
  <2>2. /\ s.lsa = q + loop /\ s.offset = 0 /\ s.num = last
        /\ q + loop \in Nat
    BY <1>2, <1>3, <1>6, <1>9, <2>1
  <2>3. /\ end \div B \in Nat /\ last \in Nat /\ last < B
        /\ end = (B * (end \div B)) + last
    <3>1. end \in Nat
      BY <1>4
    <3> QED
      BY <1>1, <3>1, DivMod
  <2>4. /\ B * (q + loop) = (B * q) + (B * loop)
        /\ B * q \in Nat /\ B * loop \in Nat
    BY <1>1, <1>2, <1>3, OneMoreTimes
  <2>5. end \div B = q + loop
    BY <1>1, <1>3, <1>4, <2>2, <2>3, <2>4, QuotientUnique
  <2>6. end = (B * (q + loop)) + last /\ B * (q + loop) \in Nat
    BY <1>1, <2>2, <2>3, <2>5
  <2>7. s.num \in Nat \ {0}
    BY <2>1, <2>2, <2>3
  <2> HIDE DEF q, loop, last, end
  <2> QED
    BY <1>1, <1>a, <2>2, <2>3, <2>6, <2>7 DEF SliceWithin
<1> QED
  BY <1>3, <1>5, <1>7, <1>8, <1>9

-----------------------------------------------------------------------------
(* The way of a request *)

Fifo ==
  [tail : Positions, overFlowCnt : 0 .. COUNT_SIZE - 1, head : Positions,
   cmds : [Positions -> Transfer \cup {NONE}]]

Shape ==
  /\ req \in [Reqs -> Request \cup {NONE}]
  /\ issuing \in Issuing \cup {NONE}
  /\ fifo \in [Directions -> Fifo]

\* Every request in the pool lies within the name space.
ReqsWithin == \A t \in Reqs : req[t] # NONE => SliceWithin(req[t], NSZE)

\* The request being issued has a block left to push.
IssuingWithin ==
  issuing # NONE =>
    req[issuing.req] # NONE /\ issuing.done < req[issuing.req].num

\* Every transfer in a FIFO is of a block of the name space.
CellsWithin ==
  \A dir \in Directions, j \in Positions :
    fifo[dir].cmds[j] # NONE => fifo[dir].cmds[j].block < NSZE

IInv == Shape /\ ReqsWithin /\ IssuingWithin /\ CellsWithin

\* The invariant holds of the empty pool and FIFOs.
LEMMA InitEstablishes == DmaInit => IInv
BY FifoAssumption
DEF DmaInit, IInv, Shape, ReqsWithin, IssuingWithin, CellsWithin, Fifo, Positions

\* A command only adds requests for its slices, all within the name space.
LEMMA CommandTaken ==
  ASSUME IInv, NEW c \in Slots, NEW io \in IoCommands,
         HandleNvmeIoCmd(c, io[1], io[2], io[3])
  PROVE  IInv'
<1> DEFINE dir == io[1]
           startLba == io[2]
           nlb == io[3]
           slices == Slices(startLba, nlb)
           request(s) == [cmd |-> c, dir |-> dir, lsa |-> s.lsa,
                          startIndex |-> s.startIndex, offset |-> s.offset,
                          num |-> s.num, reqTail |-> NONE, overFlowCnt |-> NONE]
<1>1. dir \in Directions /\ startLba \in Nat /\ nlb \in Nat
  BY CommandAssumption
<1>2. /\ startLba + nlb + 1 <= NSZE
      /\ issuing = NONE /\ UNCHANGED <<issuing, fifo>>
      /\ req' = [t \in Reqs |->
                   IF \E i \in DOMAIN slices : FreeReqs[i] = t
                   THEN request(slices[CHOOSE i \in DOMAIN slices : FreeReqs[i] = t])
                   ELSE req[t]]
  BY DEF HandleNvmeIoCmd, InNameSpace
<1>3. ASSUME NEW i \in DOMAIN slices
      PROVE  /\ request(slices[i]) \in Request
             /\ SliceWithin(request(slices[i]), NSZE)
  <2>1. SliceWithin(slices[i], startLba + nlb + 1)
    BY <1>1, SlicesWithin
  <2> HIDE DEF slices, startLba, nlb, dir
  <2>2. SliceWithin(slices[i], NSZE)
    BY <1>1, <1>2, <2>1, NameSpaceAssumption, SliceAssumption DEF SliceWithin
  <2> QED
    BY <1>1, <2>2 DEF SliceWithin, Request
<1> HIDE DEF slices, request, startLba, nlb, dir
<1>4. ASSUME NEW t \in Reqs
      PROVE  /\ req'[t] \in Request \cup {NONE}
             /\ req'[t] # NONE => SliceWithin(req'[t], NSZE)
  <2>1. CASE \E i \in DOMAIN slices : FreeReqs[i] = t
    BY <1>2, <1>3, <2>1
  <2>2. CASE ~ \E i \in DOMAIN slices : FreeReqs[i] = t
    BY <1>2, <2>2 DEF IInv, Shape, ReqsWithin
  <2> QED
    BY <2>1, <2>2
<1>5. Shape'
  <2>1. req' \in [Reqs -> Request \cup {NONE}]
    BY <1>2, <1>4
  <2> QED
    BY <1>2, <2>1 DEF IInv, Shape
<1>6. ReqsWithin'
  BY <1>4 DEF ReqsWithin
<1>7. IssuingWithin' /\ CellsWithin'
  BY <1>2 DEF IInv, IssuingWithin, CellsWithin
<1> QED
  BY <1>5, <1>6, <1>7 DEF IInv

\* A request that is selected has a block to push.
LEMMA RequestSelected ==
  ASSUME IInv, NEW t \in Reqs, SelectLowLevelReqQ(t)
  PROVE  IInv'
<1>1. /\ req[t] # NONE /\ req[t] \in Request
      /\ issuing' = [req |-> t, done |-> 0] /\ UNCHANGED <<req, fifo>>
  BY DEF SelectLowLevelReqQ, IInv, Shape
<1>2. 0 < req[t].num
  BY <1>1, SliceAssumption DEF Request
<1>3. Shape'
  BY <1>1 DEF IInv, Shape, Issuing
<1>4. IssuingWithin'
  BY <1>1, <1>2 DEF IssuingWithin
<1> QED
  BY <1>1, <1>3, <1>4 DEF IInv, ReqsWithin, CellsWithin

\* The block pushed is one of its slice, and the FIFO stays one.
LEMMA BlockPushed ==
  ASSUME IInv, SetAutoDma
  PROVE  IInv'
<1> DEFINE t == issuing.req
           r == req[t]
           f == fifo[r.dir]
           transfer == [cmd |-> r.cmd, req |-> t,
                        cmd4KBOffset |-> r.startIndex + issuing.done,
                        block |-> r.lsa * NVME_BLOCKS_PER_SLICE + r.offset
                                    + issuing.done]
           pushed == Pushed(f, transfer)
<1>1. /\ t \in Reqs /\ issuing.done \in Nat /\ r \in Request /\ r # NONE
      /\ issuing = [req |-> t, done |-> issuing.done]
      /\ issuing.done < r.num /\ SliceWithin(r, NSZE)
      /\ f \in Fifo
  <2>1. issuing \in Issuing
    BY DEF SetAutoDma, IInv, Shape
  <2>2. /\ t \in Reqs /\ issuing.done \in Nat
        /\ issuing = [req |-> t, done |-> issuing.done]
    BY <2>1 DEF Issuing
  <2>3. r \in Request /\ r # NONE /\ issuing.done < r.num
    BY <2>2 DEF SetAutoDma, IInv, Shape, IssuingWithin
  <2>4. SliceWithin(r, NSZE)
    BY <2>2, <2>3 DEF IInv, ReqsWithin
  <2>5. f \in Fifo
    BY <2>3 DEF IInv, Shape, Request
  <2> QED
    BY <2>2, <2>3, <2>4, <2>5
<1>2. transfer \in Transfer /\ transfer.block < NSZE
  <2>1. /\ r.lsa * NVME_BLOCKS_PER_SLICE \in Nat
        /\ (r.lsa * NVME_BLOCKS_PER_SLICE) + r.offset + r.num <= NSZE
        /\ r.offset \in Nat /\ r.num \in Nat /\ r.startIndex \in Nat
        /\ r.cmd \in Slots
    BY <1>1, SliceAssumption DEF SliceWithin, Request
  <2> QED
    BY <1>1, <2>1, NameSpaceAssumption DEF Transfer
<1>3. pushed \in Fifo
  <2> DEFINE tail == (f.tail + 1) % FIFO_SIZE
             cnt  == (f.overFlowCnt + 1) % COUNT_SIZE
  <2>1. tail \in Positions /\ cnt \in 0 .. COUNT_SIZE - 1
    <3>1. /\ f.tail \in Nat /\ f.overFlowCnt \in Nat
          /\ FIFO_SIZE \in Nat \ {0} /\ COUNT_SIZE \in Nat \ {0}
      BY <1>1, FifoAssumption DEF Fifo, Positions
    <3> HIDE DEF f
    <3> QED
      BY <3>1, NextWraps DEF Positions
  <2>2. [f.cmds EXCEPT ![f.tail] = transfer] \in [Positions -> Transfer \cup {NONE}]
    BY <1>1, <1>2 DEF Fifo
  <2>3. pushed = [f EXCEPT !.cmds = [f.cmds EXCEPT ![f.tail] = transfer],
                           !.tail = tail,
                           !.overFlowCnt = IF f.tail > tail THEN cnt ELSE @]
    BY DEF Pushed
  <2> HIDE DEF transfer, pushed, tail, cnt, f
  <2> QED
    BY <1>1, <2>1, <2>2, <2>3 DEF Fifo
<1>4. /\ fifo' = [fifo EXCEPT ![r.dir] = pushed]
      /\ \/ /\ issuing.done + 1 < r.num
            /\ issuing' = [issuing EXCEPT !.done = @ + 1]
            /\ req' = req
         \/ /\ issuing' = NONE
            /\ req' = [req EXCEPT ![t].reqTail = pushed.tail,
                                  ![t].overFlowCnt = pushed.overFlowCnt]
  BY DEF SetAutoDma
<1>5. pushed.cmds = [f.cmds EXCEPT ![f.tail] = transfer]
  BY <1>1 DEF Pushed, Fifo
<1> HIDE DEF pushed, transfer
<1>6. fifo' \in [Directions -> Fifo]
  BY <1>3, <1>4 DEF IInv, Shape
<1>7. CellsWithin'
  <2> SUFFICES ASSUME NEW dir \in Directions, NEW j \in Positions,
                      fifo'[dir].cmds[j] # NONE
               PROVE  fifo'[dir].cmds[j].block < NSZE
    BY DEF CellsWithin
  <2>1. r.dir \in Directions
    BY <1>1 DEF Request
  <2>2. CASE dir = r.dir /\ j = f.tail
    <3>1. fifo'[dir].cmds[j] = transfer
      BY <1>1, <1>4, <1>5, <2>1, <2>2 DEF Fifo, IInv, Shape
    <3> QED
      BY <1>2, <3>1
  <2>3. CASE ~ (dir = r.dir /\ j = f.tail)
    <3>1. fifo'[dir].cmds[j] = fifo[dir].cmds[j]
      BY <1>1, <1>4, <1>5, <2>1, <2>3 DEF Fifo, IInv, Shape
    <3> QED
      BY <3>1 DEF IInv, CellsWithin
  <2> QED
    BY <2>2, <2>3
<1>8. CASE /\ issuing.done + 1 < r.num
           /\ issuing' = [issuing EXCEPT !.done = @ + 1]
           /\ req' = req
  <2>1. /\ issuing' = [req |-> t, done |-> issuing.done + 1]
        /\ issuing.done + 1 \in Nat
    BY <1>1, <1>8
  <2>2. Shape'
    BY <1>1, <1>6, <1>8, <2>1 DEF IInv, Shape, Issuing
  <2>3. ReqsWithin' /\ IssuingWithin'
    BY <1>1, <1>8, <2>1 DEF IInv, ReqsWithin, IssuingWithin
  <2> QED
    BY <1>7, <2>2, <2>3 DEF IInv
<1>9. CASE /\ issuing' = NONE
           /\ req' = [req EXCEPT ![t].reqTail = pushed.tail,
                                 ![t].overFlowCnt = pushed.overFlowCnt]
  <2> DEFINE n == [r EXCEPT !.reqTail = pushed.tail,
                            !.overFlowCnt = pushed.overFlowCnt]
  <2>1. pushed.tail \in Positions /\ pushed.overFlowCnt \in 0 .. COUNT_SIZE - 1
    BY <1>3 DEF Fifo
  <2>2. n \in Request /\ SliceWithin(n, NSZE)
    BY <1>1, <2>1 DEF Request, SliceWithin
  <2>3. req' = [req EXCEPT ![t] = n]
    BY <1>9
  <2> HIDE DEF n
  <2>4. Shape'
    BY <1>1, <1>6, <1>9, <2>2, <2>3 DEF IInv, Shape
  <2>5. ReqsWithin' /\ IssuingWithin'
    BY <1>1, <1>9, <2>2, <2>3 DEF IInv, Shape, ReqsWithin, IssuingWithin
  <2> QED
    BY <1>7, <2>4, <2>5 DEF IInv
<1> QED
  BY <1>4, <1>8, <1>9

\* Moving a block only empties a cell.
LEMMA BlockMoved ==
  ASSUME IInv, NEW dir \in Directions, HandleDmaReq(dir)
  PROVE  IInv'
<1> DEFINE f == fifo[dir]
           n == [f EXCEPT !.head = (@ + 1) % FIFO_SIZE, !.cmds[f.head] = NONE]
<1>1. f \in Fifo
  BY DEF IInv, Shape
<1>2. (f.head + 1) % FIFO_SIZE \in Positions
  <2>1. f.head \in Nat /\ FIFO_SIZE \in Nat \ {0}
    BY <1>1, FifoAssumption DEF Fifo, Positions
  <2> HIDE DEF f
  <2> QED
    BY <2>1, NextWraps DEF Positions
<1>3. n \in Fifo
  BY <1>1, <1>2 DEF Fifo
<1>4. fifo' = [fifo EXCEPT ![dir] = n] /\ UNCHANGED <<req, issuing>>
  BY DEF HandleDmaReq
<1>5. \A j \in Positions : n.cmds[j] \in {f.cmds[j], NONE}
  BY <1>1 DEF Fifo
<1> HIDE DEF n
<1>6. CellsWithin'
  BY <1>4, <1>5 DEF IInv, Shape, CellsWithin
<1>7. Shape'
  BY <1>3, <1>4 DEF IInv, Shape
<1> QED
  BY <1>4, <1>6, <1>7 DEF IInv, ReqsWithin, IssuingWithin

\* Every step keeps the invariant.
LEMMA StepKeeps ==
  ASSUME IInv, [DmaNext]_dmaVars
  PROVE  IInv'
<1>1. ASSUME NEW c \in Slots, NEW io \in IoCommands,
             HandleNvmeIoCmd(c, io[1], io[2], io[3])
      PROVE  IInv'
  BY <1>1, CommandTaken
<1>2. ASSUME NEW t \in Reqs, SelectLowLevelReqQ(t)
      PROVE  IInv'
  BY <1>2, RequestSelected
<1>3. CASE SetAutoDma
  BY <1>3, BlockPushed
<1>4. CASE CheckDoneNvmeDmaReq
  BY <1>4
  DEF CheckDoneNvmeDmaReq, IInv, Shape, ReqsWithin, IssuingWithin, CellsWithin
<1>5. ASSUME NEW dir \in Directions, HandleDmaReq(dir)
      PROVE  IInv'
  BY <1>5, BlockMoved
<1>6. CASE UNCHANGED dmaVars
  BY <1>6
  DEF dmaVars, IInv, Shape, ReqsWithin, IssuingWithin, CellsWithin
<1> QED
  BY <1>1, <1>2, <1>3, <1>4, <1>5, <1>6 DEF DmaNext

\* However a command begins and ends within slices, no block beyond the name
\* space is ever in a FIFO: handle_nvme_io_read and handle_nvme_io_write check the
\* command as a whole, ReqTransNvmeToSlice keeps within it.
THEOREM TransfersInsideNameSpace == DmaSpec => []InsideNameSpace
<1>1. IInv => InsideNameSpace
  BY DEF IInv, CellsWithin, InsideNameSpace, Transfers
<1> QED
  BY <1>1, InitEstablishes, StepKeeps, PTL DEF DmaSpec

-----------------------------------------------------------------------------
(* The arithmetic of the indices *)

\* A counter below m.
LEMMA NextIs ==
  ASSUME NEW m \in Nat, m > 1, NEW k \in 0 .. m - 1
  PROVE  (k + 1) % m = IF k + 1 = m THEN 0 ELSE k + 1
<1> DEFINE q == (k + 1) \div m
           r == (k + 1) % m
<1>1. /\ k + 1 \in Nat /\ m \in Nat \ {0}
  OBVIOUS
<1>2. q \in Nat /\ r \in Nat /\ r < m /\ k + 1 = (m * q) + r
  BY <1>1, DivMod
<1> HIDE DEF q, r
<1>3. CASE k + 1 = m
  <2>1. (m * q) + r = (m * 1) + 0
    BY <1>2, <1>3
  <2>2. q = 1
    BY <1>1, <1>2, <2>1, QuotientUnique
  <2> QED
    BY <1>2, <1>3, <2>2 DEF r
<1>4. CASE k + 1 # m
  <2>1. (m * q) + r = (m * 0) + (k + 1) /\ k + 1 \in 0 .. m - 1
    BY <1>2, <1>4
  <2>2. q = 0
    BY <1>1, <1>2, <2>1, QuotientUnique
  <2> QED
    BY <1>2, <1>4, <2>2 DEF r
<1> QED
  BY <1>3, <1>4

\* Where a FIFO stands: what it has counted, modulo M.
M == COUNT_SIZE * FIFO_SIZE
Count(tail, cnt) == (cnt * FIFO_SIZE) + tail
Diff(now, before) == IF now >= before THEN now - before ELSE now - before + M

\* The cells in use, and how long ago a cell was pushed.
Held(f)   == IF f.head <= f.tail THEN f.tail - f.head
             ELSE f.tail - f.head + FIFO_SIZE
Age(f, j) == IF j < f.tail THEN f.tail - j ELSE f.tail - j + FIFO_SIZE

\* Counts of whole laps: how far two overflow counts are apart, in cells.
LEMMA Laps ==
  ASSUME NEW o \in 0 .. COUNT_SIZE - 1, NEW p \in 0 .. COUNT_SIZE - 1
  PROVE  /\ o * FIFO_SIZE \in Nat /\ M \in Nat
         /\ (o * FIFO_SIZE) + FIFO_SIZE <= M
         /\ o < p => (o * FIFO_SIZE) + FIFO_SIZE <= p * FIFO_SIZE
         /\ o + 1 < p => (o * FIFO_SIZE) + (2 * FIFO_SIZE) <= p * FIFO_SIZE
         /\ o + 1 = p => (o * FIFO_SIZE) + FIFO_SIZE = p * FIFO_SIZE
         /\ o + 1 = COUNT_SIZE => (o * FIFO_SIZE) + FIFO_SIZE = M
         /\ p + 1 < o + COUNT_SIZE =>
              (p * FIFO_SIZE) + (2 * FIFO_SIZE) <= (o * FIFO_SIZE) + M
         /\ 2 * FIFO_SIZE <= M
<1> DEFINE F == FIFO_SIZE
           C == COUNT_SIZE
<1>1. /\ F \in Nat /\ C \in Nat /\ C > 1 /\ o \in Nat /\ p \in Nat
      /\ o + 1 <= C /\ p + 1 <= C
  BY FifoAssumption
<1>2. /\ \A k \in Nat : F * k \in Nat /\ k * F = F * k
      /\ \A k \in Nat : F * (k + 1) = (F * k) + F
      /\ \A k \in Nat : F * (k + 2) = (F * k) + (2 * F)
      /\ \A k, l \in Nat : F * (k + l) = (F * k) + (F * l)
  <2> HIDE DEF F
  <2> QED
    BY <1>1
<1>3. \A k, l \in Nat : k <= l => F * k <= F * l
  BY <1>1, TimesMonotonic
<1>4. M = F * C
  BY <1>1, <1>2 DEF M
<1> HIDE DEF F, C
<1>5. o + 1 <= C => F * (o + 1) <= F * C
  BY <1>1, <1>3
<1>6. o < p => F * (o + 1) <= F * p
  BY <1>1, <1>3
<1>7. o + 1 < p => F * (o + 2) <= F * p
  BY <1>1, <1>3
<1>8. p + 1 < o + C => F * (p + 2) <= F * (o + C)
  BY <1>1, <1>3
<1>9. 2 * F <= F * C
  BY <1>1, <1>2, <1>3
<1>10. /\ o * F = F * o /\ p * F = F * p /\ F * o \in Nat /\ F * p \in Nat
       /\ F * C \in Nat
       /\ F * (o + 1) = (F * o) + F /\ F * (o + 2) = (F * o) + (2 * F)
       /\ F * (p + 2) = (F * p) + (2 * F) /\ F * (o + C) = (F * o) + (F * C)
  BY <1>1, <1>2
<1> QED
  BY <1>1, <1>4, <1>5, <1>6, <1>7, <1>8, <1>9, <1>10 DEF F, C

\* The two indices and the overflow counts say how much a FIFO has pushed since a
\* request, and with it whether the request is done, unless it has pushed so much
\* that the counts repeat.
LEMMA FoundExactly ==
  ASSUME NEW f \in Fifo, NEW tail \in Positions, NEW cnt \in 0 .. COUNT_SIZE - 1
  PROVE  PartialDone(f, tail, cnt) <=>
           Held(f) <= Diff(Count(f.tail, f.overFlowCnt), Count(tail, cnt))
<1> DEFINE h    == f.head
           now  == f.tail
           o    == f.overFlowCnt
           next == (cnt + 1) % COUNT_SIZE
           x    == o * FIFO_SIZE
           y    == cnt * FIFO_SIZE
           d    == Diff(x + now, y + tail)
           held == IF h <= now THEN now - h ELSE now - h + FIFO_SIZE
<1>1. /\ o \in 0 .. COUNT_SIZE - 1 /\ COUNT_SIZE \in Nat /\ COUNT_SIZE > 1
      /\ now \in Nat /\ now < FIFO_SIZE
      /\ h \in Nat /\ h < FIFO_SIZE
      /\ tail \in Nat /\ tail < FIFO_SIZE /\ FIFO_SIZE \in Nat
  BY FifoAssumption DEF Fifo, Positions
<1>2. next = IF cnt + 1 = COUNT_SIZE THEN 0 ELSE cnt + 1
  BY FifoAssumption, NextIs
<1>3. Diff(Count(f.tail, f.overFlowCnt), Count(tail, cnt)) = d
  BY DEF Count
<1>4. /\ x \in Nat /\ y \in Nat /\ M \in Nat
      /\ x + FIFO_SIZE <= M /\ y + FIFO_SIZE <= M /\ 2 * FIFO_SIZE <= M
  BY <1>1, Laps
<1>5. Held(f) = held
  BY DEF Held
<1>6. PartialDone(f, tail, cnt) <=>
        \/ h = now \/ h = tail
        \/ h < tail /\ now < tail /\ (now > h \/ o # next)
        \/ h < tail /\ now >= tail /\ o # cnt
        \/ h > tail /\ (now < tail \/ now > h \/ o # cnt)
  BY DEF PartialDone
<1>7. CASE o = cnt
  <2>1. d = IF now >= tail THEN now - tail ELSE now - tail + M
    <3>1. x = y
      BY <1>7
    <3> HIDE DEF now, x, y
    <3> QED
      BY <1>1, <1>4, <3>1 DEF Diff
  <2>2. o # next
    BY <1>1, <1>2, <1>7
  <2> HIDE DEF d, o, x, y, h, now, next
  <2> QED
    BY <1>1, <1>3, <1>4, <1>5, <1>6, <1>7, <2>1, <2>2
<1>8. CASE o = next
  <2>1. o # cnt /\ (o = cnt + 1 \/ (o = 0 /\ cnt + 1 = COUNT_SIZE))
    BY <1>1, <1>2, <1>8
  <2>2. y + FIFO_SIZE = x \/ (x = 0 /\ y + FIFO_SIZE = M)
    BY <1>1, <2>1, Laps
  <2>3. d = now - tail + FIFO_SIZE
    <3> HIDE DEF now, x, y
    <3> QED
      BY <1>1, <1>4, <2>2 DEF Diff
  <2> HIDE DEF d, o, x, y, h, now, next
  <2> QED
    BY <1>1, <1>3, <1>5, <1>6, <1>8, <2>1, <2>3
<1>9. CASE o # cnt /\ o # next
  <2>1. \/ cnt + 1 < o
        \/ o < cnt /\ cnt + 1 < o + COUNT_SIZE
    BY <1>1, <1>2, <1>9
  <2>2. \/ y + (2 * FIFO_SIZE) <= x
        \/ x + FIFO_SIZE <= y /\ y + (2 * FIFO_SIZE) <= x + M
    BY <1>1, <2>1, Laps
  <2>3. d >= now - tail + (2 * FIFO_SIZE) /\ d \in Int
    <3> HIDE DEF now, x, y
    <3> QED
      BY <1>1, <1>4, <2>2 DEF Diff
  <2> HIDE DEF d, o, x, y, h, now, next
  <2> QED
    BY <1>1, <1>3, <1>5, <1>6, <1>9, <2>3
<1> QED
  BY <1>7, <1>8, <1>9

\* Pushing a transfer moves the count by one.
LEMMA PushCounts ==
  ASSUME NEW f \in Fifo, NEW transfer
  PROVE  LET g   == Pushed(f, transfer)
             now == Count(f.tail, f.overFlowCnt)
         IN  /\ g.tail = IF f.tail + 1 = FIFO_SIZE THEN 0 ELSE f.tail + 1
             /\ g.tail \in Positions
             /\ g.overFlowCnt \in 0 .. COUNT_SIZE - 1
             /\ g.head = f.head
             /\ g.cmds = [f.cmds EXCEPT ![f.tail] = transfer]
             /\ now \in 0 .. M - 1
             /\ Count(g.tail, g.overFlowCnt) = IF now + 1 = M THEN 0 ELSE now + 1
<1> DEFINE g    == Pushed(f, transfer)
           tail == (f.tail + 1) % FIFO_SIZE
           over == (f.overFlowCnt + 1) % COUNT_SIZE
           x    == f.overFlowCnt * FIFO_SIZE
<1>1. /\ f.tail \in 0 .. FIFO_SIZE - 1 /\ f.overFlowCnt \in 0 .. COUNT_SIZE - 1
      /\ FIFO_SIZE \in Nat /\ FIFO_SIZE > 1 /\ COUNT_SIZE \in Nat /\ COUNT_SIZE > 1
  BY FifoAssumption DEF Fifo, Positions
<1>2. /\ tail = IF f.tail + 1 = FIFO_SIZE THEN 0 ELSE f.tail + 1
      /\ over = IF f.overFlowCnt + 1 = COUNT_SIZE THEN 0 ELSE f.overFlowCnt + 1
  BY <1>1, NextIs
<1>3. /\ g.tail = tail
      /\ g.overFlowCnt = IF f.tail > tail THEN over ELSE f.overFlowCnt
      /\ g.head = f.head
      /\ g.cmds = [f.cmds EXCEPT ![f.tail] = transfer]
  BY DEF Pushed, Fifo
<1> HIDE DEF g, tail, over
<1>4. f.tail > tail <=> f.tail + 1 = FIFO_SIZE
  BY <1>1, <1>2
<1>5. x \in Nat /\ M \in Nat /\ x + FIFO_SIZE <= M
  BY <1>1, Laps
<1>6. over * FIFO_SIZE = IF f.overFlowCnt + 1 = COUNT_SIZE THEN 0 ELSE x + FIFO_SIZE
  BY <1>1, <1>2, Laps
<1>7. f.overFlowCnt + 1 = COUNT_SIZE => x + FIFO_SIZE = M
  BY <1>1, Laps
<1>8. f.overFlowCnt + 1 # COUNT_SIZE => x + FIFO_SIZE + FIFO_SIZE <= M
  <2>1. f.overFlowCnt + 1 # COUNT_SIZE => f.overFlowCnt + 1 \in 0 .. COUNT_SIZE - 1
    BY <1>1
  <2> QED
    BY <1>1, <2>1, Laps
<1>9. Count(f.tail, f.overFlowCnt) = x + f.tail
  BY DEF Count
<1>10. Count(g.tail, g.overFlowCnt) =
         IF f.tail + 1 = FIFO_SIZE THEN over * FIFO_SIZE ELSE x + f.tail + 1
  BY <1>1, <1>2, <1>3, <1>4, <1>5, <1>6 DEF Count
<1>11. over \in 0 .. COUNT_SIZE - 1 /\ tail \in Positions
  BY <1>1, <1>2 DEF Positions
<1> HIDE DEF x
<1>12. Count(g.tail, g.overFlowCnt) = IF x + f.tail + 1 = M THEN 0 ELSE x + f.tail + 1
  BY <1>1, <1>5, <1>6, <1>7, <1>8, <1>10
<1> QED
  BY <1>1, <1>2, <1>3, <1>5, <1>9, <1>11, <1>12 DEF g
\* Counting one more moves a count one further from an earlier one.
LEMMA CountMoves ==
  ASSUME NEW now \in 0 .. M - 1, NEW before \in 0 .. M - 1
  PROVE  /\ Diff(now, before) \in 0 .. M - 1
         /\ Diff(now, now) = 0
         /\ Diff(now, before) + 1 < M =>
              Diff(IF now + 1 = M THEN 0 ELSE now + 1, before)
                = Diff(now, before) + 1
<1>1. M \in Nat
  BY FifoAssumption, Laps, 0 \in 0 .. COUNT_SIZE - 1
<1> QED
  BY <1>1 DEF Diff

\* A position and an overflow count stay below M.
LEMMA CountsBelow ==
  ASSUME NEW tail \in Positions, NEW cnt \in 0 .. COUNT_SIZE - 1
  PROVE  Count(tail, cnt) \in 0 .. M - 1
<1>1. /\ cnt * FIFO_SIZE \in Nat /\ M \in Nat
      /\ (cnt * FIFO_SIZE) + FIFO_SIZE <= M
  BY Laps
<1> QED
  BY <1>1, FifoAssumption DEF Count, Positions

\* Each cell has its age, from 1 for the newest to FIFO_SIZE.
LEMMA AgesDiffer ==
  ASSUME NEW f \in Fifo
  PROVE  /\ Held(f) \in Nat /\ Held(f) < FIFO_SIZE
         /\ \A j \in Positions : Age(f, j) \in 1 .. FIFO_SIZE
         /\ \A j, k \in Positions : Age(f, j) = Age(f, k) => j = k
         /\ \A n \in 1 .. FIFO_SIZE : \E j \in Positions : Age(f, j) = n
<1> DEFINE h == f.head
           now == f.tail
<1>1. h \in 0 .. FIFO_SIZE - 1 /\ now \in 0 .. FIFO_SIZE - 1 /\ FIFO_SIZE \in Nat
  BY FifoAssumption DEF Fifo, Positions
<1>2. /\ Held(f) = IF h <= now THEN now - h ELSE now - h + FIFO_SIZE
      /\ \A j : Age(f, j) = IF j < now THEN now - j ELSE now - j + FIFO_SIZE
  BY DEF Held, Age
<1> HIDE DEF h, now
<1>3. ASSUME NEW n \in 1 .. FIFO_SIZE
      PROVE  \E j \in Positions : Age(f, j) = n
  <2> DEFINE j == IF n <= now THEN now - n ELSE now - n + FIFO_SIZE
  <2>1. j \in Positions
    BY <1>1 DEF Positions
  <2>2. Age(f, j) = n
    BY <1>1, <1>2
  <2> QED
    BY <2>1, <2>2
<1>4. Held(f) \in Nat /\ Held(f) < FIFO_SIZE
  BY <1>1, <1>2
<1>5. \A j \in Positions : Age(f, j) \in 1 .. FIFO_SIZE
  BY <1>1, <1>2 DEF Positions
<1>6. \A j, k \in Positions : Age(f, j) = Age(f, k) => j = k
  BY <1>1, <1>2 DEF Positions
<1> QED
  BY <1>3, <1>4, <1>5, <1>6

\* Pushing makes every cell older but the one it writes.
LEMMA PushAges ==
  ASSUME NEW f \in Fifo, NEW g \in Fifo,
         g.tail = IF f.tail + 1 = FIFO_SIZE THEN 0 ELSE f.tail + 1,
         g.head = f.head, g.tail # f.head
  PROVE  /\ Held(g) = Held(f) + 1
         /\ Age(g, f.tail) = 1
         /\ \A j \in Positions : j # f.tail => Age(g, j) = Age(f, j) + 1
<1> DEFINE h == f.head
           now == f.tail
           next == IF now + 1 = FIFO_SIZE THEN 0 ELSE now + 1
<1>1. /\ h \in 0 .. FIFO_SIZE - 1 /\ now \in 0 .. FIFO_SIZE - 1
      /\ FIFO_SIZE \in Nat /\ FIFO_SIZE > 1 /\ next # h
  BY FifoAssumption DEF Fifo, Positions
<1>2. /\ Held(f) = IF h <= now THEN now - h ELSE now - h + FIFO_SIZE
      /\ Held(g) = IF h <= next THEN next - h ELSE next - h + FIFO_SIZE
      /\ \A j : Age(f, j) = IF j < now THEN now - j ELSE now - j + FIFO_SIZE
      /\ \A j : Age(g, j) = IF j < next THEN next - j ELSE next - j + FIFO_SIZE
  BY DEF Held, Age
<1> SUFFICES /\ Held(g) = Held(f) + 1
             /\ Age(g, now) = 1
             /\ \A j \in Positions : j # now => Age(g, j) = Age(f, j) + 1
  OBVIOUS
<1> HIDE DEF h, now
<1> QED
  BY <1>1, <1>2 DEF Positions

\* Moving a block takes the oldest cell in use.
LEMMA MoveAges ==
  ASSUME NEW f \in Fifo, NEW g \in Fifo, f.head # f.tail,
         g.head = (f.head + 1) % FIFO_SIZE, g.tail = f.tail
  PROVE  /\ Held(g) = Held(f) - 1
         /\ Age(f, f.head) = Held(f)
         /\ \A j \in Positions : Age(g, j) = Age(f, j)
<1> DEFINE h == f.head
           now == f.tail
<1>1. /\ h \in 0 .. FIFO_SIZE - 1 /\ now \in 0 .. FIFO_SIZE - 1
      /\ FIFO_SIZE \in Nat /\ FIFO_SIZE > 1
  BY FifoAssumption DEF Fifo, Positions
<1>2. g.head = IF h + 1 = FIFO_SIZE THEN 0 ELSE h + 1
  BY <1>1, NextIs
<1>3. /\ Held(f) = IF h <= now THEN now - h ELSE now - h + FIFO_SIZE
      /\ Held(g) = IF g.head <= now THEN now - g.head
                   ELSE now - g.head + FIFO_SIZE
      /\ \A j : Age(f, j) = IF j < now THEN now - j ELSE now - j + FIFO_SIZE
      /\ \A j : Age(g, j) = Age(f, j)
  BY DEF Held, Age
<1> SUFFICES Held(g) = Held(f) - 1 /\ Age(f, h) = Held(f)
  BY <1>3
<1>4. h # now
  OBVIOUS
<1> HIDE DEF h, now
<1> QED
  BY <1>1, <1>2, <1>3, <1>4

-----------------------------------------------------------------------------
(* Sequences *)

\* The free slots in some order, each a free slot.
LEMMA FreeReqsAreFree ==
  /\ Len(FreeReqs) \in Nat
  /\ \A i \in 1 .. Len(FreeReqs) : FreeReqs[i] \in Reqs /\ req[FreeReqs[i]] = NONE
<1> DEFINE S == {t \in Reqs : req[t] = NONE}
           n == Cardinality(S)
<1>1. n \in Nat /\ ExistsBijection(1 .. n, S)
  <2>1. S \in SUBSET Reqs
    OBVIOUS
  <2> HIDE DEF S
  <2> QED
    BY <2>1, ReqsAssumption, FS_Subset, FS_CardinalityType
<1>2. \E f \in [1 .. n -> S] : IsInjective(f)
  BY <1>1 DEF ExistsBijection, Bijection, Injection
<1>3. FreeReqs \in [1 .. n -> S]
  BY <1>2 DEF FreeReqs, SetToSeq
<1>4. Len(FreeReqs) = n
  BY <1>1, <1>3
<1> QED
  BY <1>1, <1>3, <1>4

\* Each slice of a command has a number.
LEMMA SlicesAreNumbered ==
  ASSUME NEW startLba \in Nat, NEW nlb \in Nat
  PROVE  /\ Len(Slices(startLba, nlb)) \in Nat
         /\ DOMAIN Slices(startLba, nlb) = 1 .. Len(Slices(startLba, nlb))
<1> DEFINE B      == NVME_BLOCKS_PER_SLICE
           offset == startLba % B
           loop   == (offset + nlb + 1) \div B
           last   == (startLba + nlb + 1) % B
           count  == IF loop = 0 THEN 1 ELSE IF last = 0 THEN loop ELSE loop + 1
<1>1. loop \in Nat
  <2>1. B \in Nat \ {0}
    BY SliceAssumption
  <2>2. offset + nlb + 1 \in Nat
    BY <2>1, DivMod
  <2> HIDE DEF B, offset
  <2> QED
    BY <2>1, <2>2, DivMod
<1>2. count \in Nat
  <2> HIDE DEF loop, last
  <2> QED
    BY <1>1
<1>3. \E f : Slices(startLba, nlb) = [i \in 1 .. count |-> f[i]]
  <2> WITNESS Slices(startLba, nlb)
  <2> QED
    BY DEF Slices
<1> HIDE DEF count
<1>4. PICK f : Slices(startLba, nlb) = [i \in 1 .. count |-> f[i]]
  BY <1>3
<1> QED
  BY <1>2, <1>4

\* Without drops the requests of a set, keeps all others and their order.
LEMMA WithoutKeeps ==
  ASSUME NEW T, NEW queue \in Seq(T), NEW S
  PROVE  LET left == Without(queue, S)
         IN  /\ left \in Seq(T)
             /\ \A n \in DOMAIN left :
                  \E i \in DOMAIN queue : queue[i] = left[n] /\ left[n] \notin S
             /\ \A i \in DOMAIN queue :
                  queue[i] \notin S => \E n \in DOMAIN left : left[n] = queue[i]
             /\ \A m, n \in DOMAIN left :
                  m < n => \E i, j \in DOMAIN queue :
                             i < j /\ queue[i] = left[m] /\ queue[j] = left[n]
<1> DEFINE kept    == {i \in DOMAIN queue : queue[i] \notin S}
           upTo(i) == {k \in kept : k <= i}
           rank(i) == Cardinality(upTo(i))
           total   == Cardinality(kept)
           ranks   == [i \in kept |-> rank(i)]
           at(n)   == CHOOSE i \in kept : rank(i) = n
           left    == Without(queue, S)
<1>1. /\ DOMAIN queue = 1 .. Len(queue) /\ Len(queue) \in Nat
      /\ \A i \in DOMAIN queue : queue[i] \in T
  OBVIOUS
<1>2. kept \subseteq DOMAIN queue /\ IsFiniteSet(kept) /\ total \in Nat
  <2>1. IsFiniteSet(1 .. Len(queue))
    BY <1>1, FS_Interval
  <2>2. kept \in SUBSET (1 .. Len(queue))
    BY <1>1
  <2> HIDE DEF kept
  <2> QED
    BY <1>1, <2>1, <2>2, FS_Subset, FS_CardinalityType
<1>3. left = [n \in 1 .. total |-> queue[at(n)]]
  BY DEF Without
<1>4. ASSUME NEW i \in kept
      PROVE  rank(i) \in 1 .. total
  <2>1. upTo(i) \in SUBSET kept
    OBVIOUS
  <2>2. i \in upTo(i)
    BY <1>1, <1>2
  <2> HIDE DEF kept, upTo
  <2>3. IsFiniteSet(upTo(i)) /\ rank(i) <= total
    BY <1>2, <2>1, FS_Subset
  <2>4. rank(i) \in Nat
    BY <2>3, FS_CardinalityType
  <2>5. rank(i) # 0
    BY <2>2, <2>3, FS_EmptySet
  <2> HIDE DEF rank, total
  <2> QED
    BY <1>2, <2>3, <2>4, <2>5
<1>5. ASSUME NEW i \in kept, NEW j \in kept, i < j
      PROVE  rank(i) < rank(j)
  <2>1. /\ upTo(j) \in SUBSET kept /\ upTo(i) \in SUBSET upTo(j)
        /\ j \in upTo(j) /\ j \notin upTo(i)
    BY <1>1, <1>2, <1>5
  <2> HIDE DEF kept, upTo
  <2>2. IsFiniteSet(upTo(j))
    BY <1>2, <2>1, FS_Subset
  <2>3. rank(i) <= rank(j) /\ rank(i) # rank(j)
    BY <2>1, <2>2, FS_Subset
  <2>4. rank(i) \in Nat /\ rank(j) \in Nat
    BY <1>4
  <2> HIDE DEF rank
  <2> QED
    BY <2>3, <2>4
<1> HIDE DEF kept, rank, total
<1>6. ASSUME NEW n \in 1 .. total
      PROVE  at(n) \in kept /\ rank(at(n)) = n
  <2>1. ranks \in [kept -> 1 .. total]
    BY <1>4
  <2>2. ranks \in Injection(kept, 1 .. total)
    <3>1. ASSUME NEW i \in kept, NEW j \in kept, ranks[i] = ranks[j]
          PROVE  i = j
      <4>1. rank(i) = rank(j) /\ rank(i) \in Nat
        BY <1>4, <3>1
      <4>2. ~ (i < j) /\ ~ (j < i)
        BY <1>4, <1>5, <4>1
      <4>3. i \in Nat /\ j \in Nat
        BY <1>1, <1>2
      <4> QED
        BY <4>2, <4>3
    <3> QED
      BY <2>1, <3>1 DEF Injection, IsInjective
  <2>3. Cardinality(1 .. total) = total /\ IsFiniteSet(1 .. total)
    BY <1>2, FS_Interval
  <2>4. ranks \in Surjection(kept, 1 .. total)
    <3>1. Cardinality(kept) = Cardinality(1 .. total)
      BY <2>3 DEF total
    <3> HIDE DEF ranks
    <3> QED
      BY <2>2, <2>3, <3>1, FS_Injection
  <2>5. PICK i \in kept : ranks[i] = n
    BY <2>4 DEF Surjection
  <2> QED
    BY <2>5
<1>7. ASSUME NEW m \in 1 .. total, NEW n \in 1 .. total, m < n
      PROVE  at(m) < at(n)
  <2>1. /\ at(m) \in kept /\ rank(at(m)) = m
        /\ at(n) \in kept /\ rank(at(n)) = n
    BY <1>6
  <2> HIDE DEF at
  <2>2. at(m) # at(n) /\ ~ (at(n) < at(m))
    BY <1>5, <1>7, <2>1
  <2>3. at(m) \in Nat /\ at(n) \in Nat
    BY <1>1, <1>2, <2>1
  <2> QED
    BY <2>2, <2>3
<1>8. ASSUME NEW i \in kept
      PROVE  at(rank(i)) = i
  <2>1. at(rank(i)) \in kept /\ rank(at(rank(i))) = rank(i) /\ rank(i) \in Nat
    BY <1>4, <1>6
  <2> DEFINE j == at(rank(i))
  <2>2. j \in kept /\ rank(j) = rank(i)
    BY <2>1
  <2> HIDE DEF j
  <2>3. ~ (i < j) /\ ~ (j < i)
    BY <1>5, <2>1, <2>2
  <2>4. i \in Nat /\ j \in Nat
    BY <1>1, <1>2, <2>2
  <2> QED
    BY <2>3, <2>4 DEF j
<1> HIDE DEF at, left
<1>9. /\ left \in Seq(T) /\ DOMAIN left = 1 .. total
      /\ \A n \in 1 .. total : left[n] = queue[at(n)]
  <2>1. \A n \in 1 .. total : queue[at(n)] \in T
    BY <1>1, <1>2, <1>6
  <2> QED
    BY <1>2, <1>3, <2>1
<1>10. \A i \in DOMAIN queue : i \in kept <=> queue[i] \notin S
  BY DEF kept
<1>11. \A n \in DOMAIN left :
         \E i \in DOMAIN queue : queue[i] = left[n] /\ left[n] \notin S
  BY <1>2, <1>6, <1>9, <1>10
<1>12. \A i \in DOMAIN queue :
         queue[i] \notin S => \E n \in DOMAIN left : left[n] = queue[i]
  BY <1>4, <1>8, <1>9, <1>10
<1>13. \A m, n \in DOMAIN left :
         m < n => \E i, j \in DOMAIN queue :
                    i < j /\ queue[i] = left[m] /\ queue[j] = left[n]
  BY <1>2, <1>6, <1>7, <1>9
<1> QED
  BY <1>9, <1>11, <1>12, <1>13 DEF left

-----------------------------------------------------------------------------
(* The invariant *)

Stands(f) == Count(f.tail, f.overFlowCnt)

\* The transfers pushed into the FIFO of an issued request since its last block.
Since(t) ==
  Diff(Stands(fifo[req[t].dir]), Count(req[t].reqTail, req[t].overFlowCnt))

\* The requests issued after another of the same direction.
Later(t) ==
  {u \in Reqs : IsIssued(u) /\ req[u].dir = req[t].dir /\ Since(u) < Since(t)}

IssuedSoFar(dir) ==
  IF issuing # NONE /\ req[issuing.req].dir = dir THEN issuing.done ELSE 0

\* A request being issued is not issued yet; one that is has both its indices.
IssuedWhole ==
  /\ issuing # NONE => ~ IsIssued(issuing.req)
  /\ \A t \in Reqs : IsIssued(t) => req[t].overFlowCnt # NONE

\* The transfers not moved yet are in the cells from head to tail.
CellsHeld ==
  \A dir \in Directions, j \in Positions :
    fifo[dir].cmds[j] # NONE <=> Age(fifo[dir], j) <= Held(fifo[dir])

\* Each belongs to a request that is in the pool, and is older than the end of
\* the request if that is issued.
CellsOwned ==
  \A dir \in Directions, j \in Positions :
    fifo[dir].cmds[j] # NONE =>
      LET t == fifo[dir].cmds[j].req
      IN  /\ req[t] # NONE /\ req[t].dir = dir
          /\ \/ IsIssued(t) /\ Since(t) < Age(fifo[dir], j)
             \/ ~ IsIssued(t) /\ issuing # NONE /\ issuing.req = t

\* The last transfer of an issued request is in its cell until it is moved.
LastCells ==
  \A t \in Reqs, j \in Positions :
    /\ IsIssued(t)
    /\ Age(fifo[req[t].dir], j) = Since(t) + 1
    /\ Age(fifo[req[t].dir], j) <= Held(fifo[req[t].dir])
    => fifo[req[t].dir].cmds[j].req = t

\* The queue holds the issued requests, each direction in the order of issue.
QueueExact ==
  /\ nvmeDmaReqQ \in Seq(Reqs)
  /\ \A i \in DOMAIN nvmeDmaReqQ : IsIssued(nvmeDmaReqQ[i])
  /\ \A t \in Reqs :
       IsIssued(t) => \E i \in DOMAIN nvmeDmaReqQ : nvmeDmaReqQ[i] = t
  /\ \A i, j \in DOMAIN nvmeDmaReqQ :
       i < j /\ req[nvmeDmaReqQ[i]].dir = req[nvmeDmaReqQ[j]].dir
       => Since(nvmeDmaReqQ[j]) < Since(nvmeDmaReqQ[i])

\* Only later requests, and the one being issued, have pushed transfers since.
SinceBounded ==
  \A t \in Reqs : IsIssued(t) =>
    Since(t) <= (NVME_BLOCKS_PER_SLICE * Cardinality(Later(t)))
                  + IssuedSoFar(req[t].dir)

Exact ==
  /\ IssuedWhole /\ CellsHeld /\ CellsOwned /\ LastCells
  /\ QueueExact /\ SinceBounded

\* An issued request has its indices, and so a number of transfers since.
LEMMA SinceIsCount ==
  ASSUME IInv, IssuedWhole, NEW t \in Reqs, IsIssued(t)
  PROVE  /\ req[t] \in Request /\ fifo[req[t].dir] \in Fifo
         /\ req[t].reqTail \in Positions
         /\ req[t].overFlowCnt \in 0 .. COUNT_SIZE - 1
         /\ Count(req[t].reqTail, req[t].overFlowCnt) \in 0 .. M - 1
         /\ Since(t) \in 0 .. M - 1
<1>1. req[t] \in Request /\ req[t].reqTail # NONE /\ req[t].overFlowCnt # NONE
  BY DEF IInv, Shape, IssuedWhole, IsIssued
<1>2. /\ req[t].dir \in Directions
      /\ req[t].reqTail \in Positions
      /\ req[t].overFlowCnt \in 0 .. COUNT_SIZE - 1
  BY <1>1 DEF Request
<1>3. fifo[req[t].dir] \in Fifo
  BY <1>2 DEF IInv, Shape
<1>4. /\ Count(req[t].reqTail, req[t].overFlowCnt) \in 0 .. M - 1
      /\ Stands(fifo[req[t].dir]) \in 0 .. M - 1
  BY <1>2, <1>3, CountsBelow DEF Fifo, Stands
<1> QED
  BY <1>1, <1>2, <1>3, <1>4, CountMoves DEF Since

\* A request is found done when no transfer since its last one is in its FIFO.
LEMMA FoundWhenOld ==
  ASSUME IInv, IssuedWhole, NEW t \in Reqs, IsIssued(t)
  PROVE  FoundDone(t) <=> Held(fifo[req[t].dir]) <= Since(t)
BY SinceIsCount, FoundExactly DEF FoundDone, Since, Stands

\* A request has no transfer left exactly when all cells in use are newer.
LEMMA InFlightExactly ==
  ASSUME IInv, Exact, NEW t \in Reqs, IsIssued(t)
  PROVE  InFlight(t) = {} <=> Held(fifo[req[t].dir]) <= Since(t)
<1> DEFINE dir == req[t].dir
           f == fifo[dir]
<1>1. /\ dir \in Directions /\ f \in Fifo /\ Since(t) \in Nat
      /\ FIFO_SIZE \in Nat
  BY SinceIsCount, FifoAssumption DEF Exact, Request
<1>2. ASSUME Held(f) <= Since(t), NEW d \in InFlight(t)
      PROVE  FALSE
  <2>1. PICK p \in Directions \X Positions :
          d = fifo[p[1]].cmds[p[2]] /\ d # NONE /\ d.req = t
    BY <1>2 DEF InFlight, Transfers
  <2>2. p[1] \in Directions /\ p[2] \in Positions
    OBVIOUS
  <2>3. p[1] = dir /\ Since(t) < Age(f, p[2])
    BY <2>1, <2>2 DEF Exact, CellsOwned
  <2>4. Age(f, p[2]) <= Held(f)
    BY <2>1, <2>2, <2>3 DEF Exact, CellsHeld
  <2>5. Age(f, p[2]) \in Nat /\ Held(f) \in Nat
    BY <1>1, <2>2, AgesDiffer
  <2> QED
    BY <1>1, <1>2, <2>3, <2>4, <2>5
<1>3. ASSUME ~ (Held(f) <= Since(t))
      PROVE  InFlight(t) # {}
  <2>1. Held(f) \in Nat /\ Held(f) < FIFO_SIZE
    BY <1>1, AgesDiffer
  <2>2. Since(t) + 1 \in 1 .. FIFO_SIZE /\ Since(t) + 1 <= Held(f)
    BY <1>1, <1>3, <2>1
  <2>3. PICK j \in Positions : Age(f, j) = Since(t) + 1
    BY <1>1, <2>2, AgesDiffer
  <2>4. f.cmds[j] # NONE
    BY <1>1, <2>2, <2>3 DEF Exact, CellsHeld
  <2>5. f.cmds[j].req = t
    BY <1>1, <2>2, <2>3 DEF Exact, LastCells
  <2>6. <<dir, j>> \in Directions \X Positions
    BY <1>1
  <2>7. f.cmds[j] \in Transfers
    BY <2>4, <2>6 DEF Transfers
  <2> QED
    BY <2>5, <2>7 DEF InFlight
<1> QED
  BY <1>2, <1>3

\* CheckDoneNvmeDmaReq takes the requests that are done, and any that it takes
\* with a later one are done too.
LEMMA DoneReqsAreOld ==
  ASSUME IInv, Exact, NEW t \in DoneReqs
  PROVE  /\ t \in Reqs /\ IsIssued(t)
         /\ Held(fifo[req[t].dir]) <= Since(t)
<1> DEFINE q == nvmeDmaReqQ
<1>1. PICK i \in DOMAIN q : t = q[i] /\ \E k \in i .. Len(q) :
        req[q[k]].dir = req[q[i]].dir /\ FoundDone(q[k])
  BY DEF DoneReqs
<1>2. PICK k \in i .. Len(q) :
        t = q[i] /\ req[q[k]].dir = req[t].dir /\ FoundDone(q[k])
  BY <1>1
<1>3. /\ q \in Seq(Reqs) /\ DOMAIN q = 1 .. Len(q) /\ Len(q) \in Nat
      /\ i \in Nat /\ k \in Nat /\ i <= k
      /\ k \in DOMAIN q /\ q[i] \in Reqs /\ q[k] \in Reqs
  BY <1>2 DEF Exact, QueueExact
<1>4. IsIssued(t) /\ IsIssued(q[k])
  BY <1>2, <1>3 DEF Exact, QueueExact
<1>5. Held(fifo[req[t].dir]) <= Since(q[k])
  BY <1>2, <1>3, <1>4, FoundWhenOld DEF Exact
<1>6. Since(q[k]) <= Since(t)
  <2>1. CASE i = k
    BY <1>2, <1>3, <1>4, <2>1, SinceIsCount DEF Exact
  <2>2. CASE i # k
    <3>1. Since(q[k]) < Since(t)
      BY <1>2, <1>3, <2>2 DEF Exact, QueueExact
    <3> QED
      BY <1>2, <1>3, <1>4, <3>1, SinceIsCount DEF Exact
  <2> QED
    BY <2>1, <2>2
<1>7. /\ Since(q[k]) \in Nat /\ Since(t) \in Nat
      /\ Held(fifo[req[t].dir]) \in Nat
  BY <1>2, <1>3, <1>4, SinceIsCount, AgesDiffer DEF Exact
<1> QED
  BY <1>2, <1>3, <1>4, <1>5, <1>6, <1>7

-----------------------------------------------------------------------------
(* The invariant is kept *)

\* The invariant holds of the empty pool and FIFOs.
LEMMA NothingExact == DmaInit => Exact
<1> SUFFICES ASSUME DmaInit PROVE Exact
  OBVIOUS
<1>1. /\ req = [t \in Reqs |-> NONE] /\ nvmeDmaReqQ = <<>> /\ issuing = NONE
      /\ fifo = [dir \in Directions |->
                   [tail |-> 0, overFlowCnt |-> 0, head |-> 0,
                    cmds |-> [i \in Positions |-> NONE]]]
  BY DEF DmaInit
<1>2. \A t \in Reqs : ~ IsIssued(t)
  BY <1>1 DEF IsIssued
<1>3. CellsHeld
  <2> SUFFICES ASSUME NEW dir \in Directions, NEW j \in Positions
               PROVE  fifo[dir].cmds[j] = NONE
                      /\ ~ (Age(fifo[dir], j) <= Held(fifo[dir]))
    BY DEF CellsHeld
  <2>1. fifo[dir] = [tail |-> 0, overFlowCnt |-> 0, head |-> 0,
                     cmds |-> [i \in Positions |-> NONE]]
    BY <1>1
  <2> QED
    BY <2>1, FifoAssumption DEF Age, Held, Positions
<1>4. CellsOwned
  BY <1>1 DEF CellsOwned
<1>5. QueueExact
  BY <1>1, <1>2 DEF QueueExact
<1> QED
  BY <1>1, <1>2, <1>3, <1>4, <1>5
  DEF Exact, IssuedWhole, LastCells, SinceBounded

\* Where the issued requests, their FIFOs' tails and what is being issued stay,
\* so does what the counts say.
LEMMA CountsStay ==
  ASSUME IInv, Exact, NEW S \in SUBSET Reqs,
         \A t \in Reqs : IsIssued(t)' <=> t \in S,
         \A t \in S : IsIssued(t) /\ req'[t] = req[t],
         \A t \in S, u \in Reqs \ S :
           ~ (IsIssued(u) /\ req[u].dir = req[t].dir /\ Since(u) < Since(t)),
         \A dir \in Directions : /\ fifo'[dir].tail = fifo[dir].tail
                                 /\ fifo'[dir].overFlowCnt = fifo[dir].overFlowCnt
                                 /\ IssuedSoFar(dir)' = IssuedSoFar(dir)
  PROVE  /\ \A t \in S : Since(t)' = Since(t)
         /\ SinceBounded'
<1>1. ASSUME NEW t \in S
      PROVE  req[t].dir \in Directions /\ Since(t)' = Since(t)
  <2>1. req[t].dir \in Directions
    BY SinceIsCount DEF Exact, Request
  <2> QED
    BY <2>1 DEF Since, Stands
<1>2. ASSUME NEW t \in S
      PROVE  Later(t)' = Later(t)
  <2>1. ASSUME NEW u \in Reqs
        PROVE  /\ IsIssued(u)' /\ req'[u].dir = req'[t].dir /\ Since(u)' < Since(t)'
                  => IsIssued(u) /\ req[u].dir = req[t].dir /\ Since(u) < Since(t)
               /\ IsIssued(u) /\ req[u].dir = req[t].dir /\ Since(u) < Since(t)
                  => IsIssued(u)' /\ req'[u].dir = req'[t].dir
                     /\ Since(u)' < Since(t)'
    <3>1. CASE u \in S
      <4>1. Since(u)' = Since(u) /\ Since(t)' = Since(t)
        BY <1>1, <3>1
      <4>2. IsIssued(u)' /\ IsIssued(u) /\ req'[u] = req[u] /\ req'[t] = req[t]
        BY <3>1
      <4> QED
        BY <4>1, <4>2
    <3>2. CASE u \notin S
      BY <3>2
    <3> QED
      BY <3>1, <3>2
  <2> QED
    BY <2>1 DEF Later
<1>3. ASSUME NEW t \in Reqs, IsIssued(t)'
      PROVE  Since(t)' <= (NVME_BLOCKS_PER_SLICE * Cardinality(Later(t)'))
                            + IssuedSoFar(req[t].dir)'
  <2>1. t \in S
    BY <1>3
  <2>2. /\ Since(t)' = Since(t) /\ Later(t)' = Later(t)
        /\ req'[t].dir = req[t].dir /\ req[t].dir \in Directions
    BY <1>1, <1>2, <2>1
  <2>3. IssuedSoFar(req[t].dir)' = IssuedSoFar(req[t].dir)
    BY <2>2 DEF IssuedSoFar
  <2>4. Since(t) <= (NVME_BLOCKS_PER_SLICE * Cardinality(Later(t)))
                      + IssuedSoFar(req[t].dir)
    BY <2>1 DEF Exact, SinceBounded
  <2> QED
    BY <2>2, <2>3, <2>4
<1> QED
  BY <1>1, <1>3 DEF SinceBounded

\* A command goes to free slots only.
LEMMA CommandFillsFree ==
  ASSUME IInv, NEW c \in Slots, NEW io \in IoCommands,
         HandleNvmeIoCmd(c, io[1], io[2], io[3]), NEW t \in Reqs
  PROVE  \/ req'[t] = req[t]
         \/ req[t] = NONE /\ req'[t] # NONE /\ req'[t].reqTail = NONE
<1> DEFINE slices == Slices(io[2], io[3])
           free(i) == FreeReqs[i] = t
           request(s) == [cmd |-> c, dir |-> io[1], lsa |-> s.lsa,
                          startIndex |-> s.startIndex, offset |-> s.offset,
                          num |-> s.num, reqTail |-> NONE, overFlowCnt |-> NONE]
<1>1. io[2] \in Nat /\ io[3] \in Nat
  BY CommandAssumption
<1>2. /\ Len(slices) <= Len(FreeReqs)
      /\ req'[t] = IF \E i \in DOMAIN slices : free(i)
                   THEN request(slices[CHOOSE i \in DOMAIN slices : free(i)])
                   ELSE req[t]
  BY DEF HandleNvmeIoCmd
<1>3. CASE \E i \in DOMAIN slices : free(i)
  <2>1. PICK i \in DOMAIN slices : FreeReqs[i] = t
    BY <1>3
  <2>2. DOMAIN slices = 1 .. Len(slices) /\ Len(slices) \in Nat
    BY <1>1, SlicesAreNumbered
  <2> HIDE DEF slices
  <2>3. i \in 1 .. Len(FreeReqs)
    BY <1>2, <2>1, <2>2, FreeReqsAreFree
  <2>4. req[t] = NONE
    BY <2>1, <2>3, FreeReqsAreFree
  <2>5. PICK s : req'[t] = request(s)
    BY <1>2, <1>3
  <2>6. req'[t].reqTail = NONE
    BY <2>5
  <2>7. req'[t] # NONE
    <3>1. PICK k \in DOMAIN slices :
            /\ req'[t] = request(slices[k])
            /\ SliceWithin(slices[k], io[2] + io[3] + 1)
      BY <1>1, <1>2, <1>3, SlicesWithin DEF slices
    <3>2. io[1] \in Directions
      BY CommandAssumption
    <3>3. req'[t] \in Request
      BY <3>1, <3>2 DEF SliceWithin, Request
    <3> QED
      BY <3>3, NoneAssumption
  <2> QED
    BY <2>4, <2>6, <2>7
<1>4. CASE ~ \E i \in DOMAIN slices : free(i)
  BY <1>2, <1>4
<1> QED
  BY <1>3, <1>4

\* HandleNvmeIoCmd disturbs no request that has a slot.
LEMMA CommandKeepsExact ==
  ASSUME IInv, Exact, NEW c \in Slots, NEW io \in IoCommands,
         HandleNvmeIoCmd(c, io[1], io[2], io[3])
  PROVE  Exact'
<1> DEFINE S == {t \in Reqs : IsIssued(t)}
<1>1. issuing = NONE /\ UNCHANGED <<nvmeDmaReqQ, issuing, fifo>>
  BY DEF HandleNvmeIoCmd
<1>2. \A t \in Reqs : /\ req[t] # NONE => req'[t] = req[t]
                      /\ IsIssued(t)' <=> IsIssued(t)
  BY CommandFillsFree DEF IsIssued
<1>3. \A t \in S : IsIssued(t) /\ req'[t] = req[t]
  BY <1>2 DEF IsIssued
<1>4. (\A t \in S : Since(t)' = Since(t)) /\ SinceBounded'
  BY <1>1, <1>2, <1>3, CountsStay DEF IssuedSoFar
<1>5. IssuedWhole'
  BY <1>1, <1>2, <1>3 DEF Exact, IssuedWhole
<1>6. CellsHeld'
  BY <1>1 DEF Exact, CellsHeld
<1>7. CellsOwned'
  <2> SUFFICES ASSUME NEW dir \in Directions, NEW j \in Positions,
                      fifo[dir].cmds[j] # NONE, NEW t, t = fifo[dir].cmds[j].req
               PROVE  /\ req'[t] # NONE /\ req'[t].dir = dir
                      /\ IsIssued(t)' /\ Since(t)' < Age(fifo[dir], j)
    BY <1>1 DEF CellsOwned
  <2>1. /\ req[t] # NONE /\ req[t].dir = dir
        /\ IsIssued(t) /\ Since(t) < Age(fifo[dir], j)
    BY <1>1 DEF Exact, CellsOwned
  <2>2. t \in Reqs
    BY NoneAssumption DEF IInv, Shape, Fifo, Transfer
  <2> QED
    BY <1>2, <1>3, <1>4, <2>1, <2>2
<1>8. LastCells'
  BY <1>1, <1>2, <1>3, <1>4 DEF Exact, LastCells
<1>9. QueueExact'
  BY <1>1, <1>2, <1>3, <1>4 DEF Exact, QueueExact
<1> QED
  BY <1>4, <1>5, <1>6, <1>7, <1>8, <1>9 DEF Exact

\* SelectLowLevelReqQ pushes nothing yet.
LEMMA SelectionKeepsExact ==
  ASSUME IInv, Exact, NEW t \in Reqs, SelectLowLevelReqQ(t)
  PROVE  Exact'
<1> DEFINE S == {u \in Reqs : IsIssued(u)}
<1>1. /\ issuing = NONE /\ issuing' = [req |-> t, done |-> 0] /\ ~ IsIssued(t)
      /\ UNCHANGED <<req, nvmeDmaReqQ, fifo>>
  BY DEF SelectLowLevelReqQ
<1>2. \A u : IsIssued(u)' <=> IsIssued(u)
  BY <1>1 DEF IsIssued
<1>3. \A dir \in Directions : IssuedSoFar(dir)' = IssuedSoFar(dir)
  BY <1>1 DEF IssuedSoFar
<1>4. (\A u \in S : Since(u)' = Since(u)) /\ SinceBounded'
  <2>1. \A u \in S : IsIssued(u) /\ req'[u] = req[u]
    BY <1>1
  <2>2. \A u \in Reqs : IsIssued(u)' <=> u \in S
    BY <1>2
  <2>3. S \in SUBSET Reqs /\ \A v \in Reqs \ S : ~ IsIssued(v)
    OBVIOUS
  <2>4. \A dir \in Directions : /\ fifo'[dir].tail = fifo[dir].tail
                                /\ fifo'[dir].overFlowCnt = fifo[dir].overFlowCnt
    BY <1>1
  <2> HIDE DEF S
  <2> QED
    BY <1>3, <2>1, <2>2, <2>3, <2>4, CountsStay
<1>5. IssuedWhole'
  BY <1>1, <1>2 DEF Exact, IssuedWhole
<1>6. CellsHeld'
  BY <1>1 DEF Exact, CellsHeld
<1>7. CellsOwned'
  <2> SUFFICES ASSUME NEW dir \in Directions, NEW j \in Positions,
                      fifo[dir].cmds[j] # NONE, NEW u, u = fifo[dir].cmds[j].req
               PROVE  /\ req[u] # NONE /\ req[u].dir = dir
                      /\ IsIssued(u)' /\ Since(u)' < Age(fifo[dir], j)
    BY <1>1 DEF CellsOwned
  <2>1. /\ req[u] # NONE /\ req[u].dir = dir
        /\ IsIssued(u) /\ Since(u) < Age(fifo[dir], j)
    BY <1>1 DEF Exact, CellsOwned
  <2>2. u \in Reqs
    BY NoneAssumption DEF IInv, Shape, Fifo, Transfer
  <2> QED
    BY <1>2, <1>4, <2>1, <2>2
<1>8. LastCells'
  BY <1>1, <1>2, <1>4 DEF Exact, LastCells
<1>9. QueueExact'
  BY <1>1, <1>2, <1>4 DEF Exact, QueueExact
<1> QED
  BY <1>4, <1>5, <1>6, <1>7, <1>8, <1>9 DEF Exact

\* HandleDmaReq empties the oldest cell in use and no other.
LEMMA MoveKeepsExact ==
  ASSUME IInv, Exact, NEW moved \in Directions, HandleDmaReq(moved)
  PROVE  Exact'
<1> DEFINE S == {u \in Reqs : IsIssued(u)}
           f == fifo[moved]
           g == [f EXCEPT !.head = (@ + 1) % FIFO_SIZE, !.cmds[f.head] = NONE]
<1>1. /\ f.head # f.tail /\ fifo' = [fifo EXCEPT ![moved] = g]
      /\ UNCHANGED <<req, nvmeDmaReqQ, issuing>>
  BY DEF HandleDmaReq
<1>2. f \in Fifo /\ fifo \in [Directions -> Fifo] /\ g \in Fifo
  <2>1. f \in Fifo /\ fifo \in [Directions -> Fifo]
    BY DEF IInv, Shape
  <2>2. fifo' \in [Directions -> Fifo]
    BY BlockMoved DEF IInv, Shape
  <2>3. g = fifo'[moved]
    BY <1>1, <2>1
  <2> QED
    BY <2>1, <2>2, <2>3
<1>3. /\ g.head = (f.head + 1) % FIFO_SIZE
      /\ g.tail = f.tail /\ g.overFlowCnt = f.overFlowCnt
      /\ g.cmds = [f.cmds EXCEPT ![f.head] = NONE]
      /\ f.head \in Positions /\ f.cmds \in [Positions -> Transfer \cup {NONE}]
  BY <1>2 DEF Fifo
<1>4. /\ fifo'[moved] = g
      /\ \A dir \in Directions : dir # moved => fifo'[dir] = fifo[dir]
  BY <1>1, <1>2
<1> HIDE DEF f, g
<1>5. /\ Held(g) = Held(f) - 1
      /\ Age(f, f.head) = Held(f)
      /\ \A j \in Positions : Age(g, j) = Age(f, j)
  BY <1>1, <1>2, <1>3, MoveAges
<1>6. /\ Held(f) \in Nat
      /\ \A j \in Positions : Age(f, j) \in Nat
      /\ \A j \in Positions : Age(f, j) = Held(f) => j = f.head
  BY <1>2, <1>3, <1>5, AgesDiffer
<1>7. \A u : IsIssued(u)' <=> IsIssued(u)
  BY <1>1 DEF IsIssued
<1>8. \A dir \in Directions : /\ fifo'[dir].tail = fifo[dir].tail
                              /\ fifo'[dir].overFlowCnt = fifo[dir].overFlowCnt
                              /\ IssuedSoFar(dir)' = IssuedSoFar(dir)
  BY <1>1, <1>3, <1>4 DEF IssuedSoFar, f
<1>9. (\A u \in S : Since(u)' = Since(u)) /\ SinceBounded'
  <2>1. \A u \in S : IsIssued(u) /\ req'[u] = req[u]
    BY <1>1
  <2>2. \A u \in Reqs : IsIssued(u)' <=> u \in S
    BY <1>7
  <2>3. S \in SUBSET Reqs /\ \A v \in Reqs \ S : ~ IsIssued(v)
    OBVIOUS
  <2> HIDE DEF S
  <2> QED
    BY <1>8, <2>1, <2>2, <2>3, CountsStay
<1>10. IssuedWhole'
  BY <1>1, <1>7 DEF Exact, IssuedWhole
<1>11. ASSUME NEW dir \in Directions, NEW j \in Positions
       PROVE  /\ Age(fifo'[dir], j) = Age(fifo[dir], j)
              /\ Age(fifo[dir], j) <= Held(fifo'[dir]) <=>
                   /\ Age(fifo[dir], j) <= Held(fifo[dir])
                   /\ ~ (dir = moved /\ j = f.head)
              /\ fifo'[dir].cmds[j] = IF dir = moved /\ j = f.head THEN NONE
                                      ELSE fifo[dir].cmds[j]
  <2>1. CASE dir # moved
    BY <1>4, <2>1
  <2>2. CASE dir = moved
    <3>1. fifo[dir] = f /\ fifo'[dir] = g
      BY <1>4, <2>2 DEF f
    <3>2. Age(f, j) <= Held(g) <=> Age(f, j) <= Held(f) /\ j # f.head
      BY <1>5, <1>6
    <3>3. g.cmds[j] = IF j = f.head THEN NONE ELSE f.cmds[j]
      BY <1>3
    <3> QED
      BY <1>5, <2>2, <3>1, <3>2, <3>3
  <2> QED
    BY <2>1, <2>2
<1>12. CellsHeld'
  <2> SUFFICES ASSUME NEW dir \in Directions, NEW j \in Positions
               PROVE  fifo'[dir].cmds[j] # NONE <=>
                        Age(fifo'[dir], j) <= Held(fifo'[dir])
    BY DEF CellsHeld
  <2> QED
    BY <1>11 DEF Exact, CellsHeld
<1>13. CellsOwned'
  <2> SUFFICES ASSUME NEW dir \in Directions, NEW j \in Positions,
                      fifo'[dir].cmds[j] # NONE, NEW u, u = fifo'[dir].cmds[j].req
               PROVE  /\ req[u] # NONE /\ req[u].dir = dir
                      /\ \/ IsIssued(u)' /\ Since(u)' < Age(fifo'[dir], j)
                         \/ ~ IsIssued(u)' /\ issuing # NONE /\ issuing.req = u
    BY <1>1 DEF CellsOwned
  <2>1. fifo[dir].cmds[j] # NONE /\ u = fifo[dir].cmds[j].req
    BY <1>11
  <2>2. /\ req[u] # NONE /\ req[u].dir = dir
        /\ \/ IsIssued(u) /\ Since(u) < Age(fifo[dir], j)
           \/ ~ IsIssued(u) /\ issuing # NONE /\ issuing.req = u
    BY <2>1 DEF Exact, CellsOwned
  <2>3. u \in Reqs
    BY <2>1, NoneAssumption DEF IInv, Shape, Fifo, Transfer
  <2> QED
    BY <1>7, <1>9, <1>11, <2>2, <2>3
<1>14. LastCells'
  <2> SUFFICES ASSUME NEW u \in Reqs, NEW j \in Positions, NEW dir,
                      dir = req[u].dir, IsIssued(u)',
                      Age(fifo'[dir], j) = Since(u)' + 1,
                      Age(fifo'[dir], j) <= Held(fifo'[dir])
               PROVE  fifo'[dir].cmds[j].req = u
    BY <1>1 DEF LastCells
  <2>1. IsIssued(u) /\ Since(u)' = Since(u)
    BY <1>7, <1>9
  <2>2. dir \in Directions
    BY <2>1, SinceIsCount DEF Exact, Request
  <2>3. fifo[dir].cmds[j].req = u
    BY <1>11, <2>1, <2>2 DEF Exact, LastCells
  <2> QED
    BY <1>11, <2>2, <2>3
<1>15. QueueExact'
  BY <1>1, <1>7, <1>9 DEF Exact, QueueExact
<1> QED
  BY <1>9, <1>10, <1>12, <1>13, <1>14, <1>15 DEF Exact

\* CheckDoneNvmeDmaReq takes only requests without a cell, and with each all
\* the requests that were issued before it.
LEMMA ReleaseKeepsExact ==
  ASSUME IInv, Exact, CheckDoneNvmeDmaReq
  PROVE  Exact'
<1> DEFINE q == nvmeDmaReqQ
           S == {u \in Reqs : IsIssued(u)} \ DoneReqs
<1>1. /\ issuing = NONE /\ UNCHANGED <<issuing, fifo>>
      /\ q' = Without(q, DoneReqs)
      /\ req' = [t \in Reqs |-> IF t \in DoneReqs THEN NONE ELSE req[t]]
  BY DEF CheckDoneNvmeDmaReq
<1>2. /\ \A u \in S : IsIssued(u) /\ req'[u] = req[u]
      /\ \A u \in Reqs : IsIssued(u)' <=> u \in S
  BY <1>1 DEF IsIssued
<1>3. ASSUME NEW t \in S, NEW u \in Reqs \ S,
             IsIssued(u), req[u].dir = req[t].dir, Since(u) < Since(t)
      PROVE  FALSE
  <2>1. u \in DoneReqs
    BY <1>3
  <2>2. PICK i \in DOMAIN q : u = q[i] /\ \E k \in i .. Len(q) :
          req[q[k]].dir = req[q[i]].dir /\ FoundDone(q[k])
    BY <2>1 DEF DoneReqs
  <2>3. PICK k \in i .. Len(q) : req[q[k]].dir = req[u].dir /\ FoundDone(q[k])
    BY <2>2
  <2>4. PICK n \in DOMAIN q : q[n] = t
    BY <1>3 DEF Exact, QueueExact
  <2>5. /\ DOMAIN q = 1 .. Len(q) /\ Len(q) \in Nat
        /\ i \in Nat /\ k \in Nat /\ n \in Nat /\ k \in DOMAIN q
    BY <2>2, <2>3, <2>4 DEF Exact, QueueExact
  <2>6. ~ (n <= k)
    <3> SUFFICES ASSUME n <= k PROVE FALSE
      OBVIOUS
    <3>1. k \in n .. Len(q)
      BY <2>5
    <3>2. req[q[k]].dir = req[q[n]].dir
      BY <1>3, <2>3, <2>4
    <3>3. t \in DoneReqs
      BY <2>3, <2>4, <3>1, <3>2 DEF DoneReqs
    <3> QED
      BY <3>3
  <2>7. i < n /\ req[q[i]].dir = req[q[n]].dir
    BY <1>3, <2>2, <2>3, <2>4, <2>5, <2>6
  <2>8. Since(t) < Since(u)
    BY <2>2, <2>4, <2>7 DEF Exact, QueueExact
  <2>9. Since(t) \in Nat /\ Since(u) \in Nat
    BY <1>3, SinceIsCount DEF Exact
  <2> QED
    BY <1>3, <2>8, <2>9
<1>4. (\A u \in S : Since(u)' = Since(u)) /\ SinceBounded'
  <2>1. S \in SUBSET Reqs
    OBVIOUS
  <2>2. \A dir \in Directions : /\ fifo'[dir].tail = fifo[dir].tail
                                /\ fifo'[dir].overFlowCnt = fifo[dir].overFlowCnt
                                /\ IssuedSoFar(dir)' = IssuedSoFar(dir)
    BY <1>1 DEF IssuedSoFar
  <2> HIDE DEF S
  <2> QED
    BY <1>2, <1>3, <2>1, <2>2, CountsStay
<1>5. IssuedWhole'
  BY <1>1, <1>2 DEF Exact, IssuedWhole
<1>6. CellsHeld'
  BY <1>1 DEF Exact, CellsHeld
<1>7. CellsOwned'
  <2> SUFFICES ASSUME NEW dir \in Directions, NEW j \in Positions,
                      fifo[dir].cmds[j] # NONE, NEW u, u = fifo[dir].cmds[j].req
               PROVE  /\ req'[u] # NONE /\ req'[u].dir = dir
                      /\ IsIssued(u)' /\ Since(u)' < Age(fifo[dir], j)
    BY <1>1 DEF CellsOwned
  <2>1. /\ req[u] # NONE /\ req[u].dir = dir
        /\ IsIssued(u) /\ Since(u) < Age(fifo[dir], j)
    BY <1>1 DEF Exact, CellsOwned
  <2>2. u \in Reqs /\ fifo[dir] \in Fifo
    BY NoneAssumption DEF IInv, Shape, Fifo, Transfer
  <2>3. u \notin DoneReqs
    <3> SUFFICES ASSUME u \in DoneReqs PROVE FALSE
      OBVIOUS
    <3>1. Held(fifo[dir]) <= Since(u)
      BY <2>1, DoneReqsAreOld
    <3>2. Age(fifo[dir], j) <= Held(fifo[dir])
      BY DEF Exact, CellsHeld
    <3>3. /\ Age(fifo[dir], j) \in Nat /\ Held(fifo[dir]) \in Nat
          /\ Since(u) \in Nat
      BY <2>1, <2>2, SinceIsCount, AgesDiffer DEF Exact
    <3> QED
      BY <2>1, <3>1, <3>2, <3>3
  <2>4. u \in S
    BY <2>1, <2>2, <2>3
  <2> HIDE DEF S
  <2> QED
    BY <1>2, <1>4, <2>1, <2>2, <2>4
<1>8. LastCells'
  <2> HIDE DEF S
  <2> QED
    BY <1>1, <1>2, <1>4 DEF Exact, LastCells
<1>9. QueueExact'
  <2> DEFINE left == Without(q, DoneReqs)
  <2>1. q \in Seq(Reqs) /\ nvmeDmaReqQ' = left
    BY <1>1 DEF Exact, QueueExact
  <2>2. /\ left \in Seq(Reqs)
        /\ \A n \in DOMAIN left :
             \E i \in DOMAIN q : q[i] = left[n] /\ left[n] \notin DoneReqs
        /\ \A i \in DOMAIN q :
             q[i] \notin DoneReqs => \E n \in DOMAIN left : left[n] = q[i]
        /\ \A m, n \in DOMAIN left :
             m < n => \E i, j \in DOMAIN q :
                        i < j /\ q[i] = left[m] /\ q[j] = left[n]
    BY <2>1, WithoutKeeps
  <2> HIDE DEF left
  <2>3. ASSUME NEW n \in DOMAIN left
        PROVE  left[n] \in S
    <3>1. PICK i \in DOMAIN q : q[i] = left[n] /\ left[n] \notin DoneReqs
      BY <2>2
    <3>2. q[i] \in Reqs /\ IsIssued(q[i])
      BY <2>1 DEF Exact, QueueExact
    <3> QED
      BY <3>1, <3>2
  <2>4. ASSUME NEW n \in DOMAIN left, NEW u, u = left[n]
        PROVE  IsIssued(u)'
    BY <1>2, <2>3, <2>4
  <2>5. ASSUME NEW t \in Reqs, IsIssued(t)'
        PROVE  \E n \in DOMAIN left : left[n] = t
    <3>1. t \in S
      BY <1>2, <2>5
    <3>2. PICK i \in DOMAIN q : q[i] = t
      BY <3>1 DEF Exact, QueueExact
    <3> QED
      BY <2>2, <3>1, <3>2
  <2>6. ASSUME NEW m \in DOMAIN left, NEW n \in DOMAIN left, m < n,
               NEW t, t = left[m], NEW u, u = left[n],
               req'[t].dir = req'[u].dir
        PROVE  Since(u)' < Since(t)'
    <3>1. PICK i \in DOMAIN q, j \in DOMAIN q : i < j /\ q[i] = t /\ q[j] = u
      BY <2>2, <2>6
    <3>2. t \in S /\ u \in S
      BY <2>3, <2>6
    <3> HIDE DEF S
    <3>3. req[t].dir = req[u].dir
      BY <1>2, <2>6, <3>2
    <3>4. Since(u) < Since(t)
      BY <3>1, <3>3 DEF Exact, QueueExact
    <3> QED
      BY <1>4, <3>2, <3>4
  <2>7. \A n \in DOMAIN left :
          req'[left[n]] # NONE /\ req'[left[n]].reqTail # NONE
    BY <2>4 DEF IsIssued
  <2>8. \A m, n \in DOMAIN left :
          m < n /\ req'[left[m]].dir = req'[left[n]].dir
          => Diff(Stands(fifo'[req'[left[n]].dir]),
                  Count(req'[left[n]].reqTail, req'[left[n]].overFlowCnt))
             < Diff(Stands(fifo'[req'[left[m]].dir]),
                    Count(req'[left[m]].reqTail, req'[left[m]].overFlowCnt))
    BY <2>6 DEF Since
  <2> QED
    BY <2>1, <2>2, <2>5, <2>7, <2>8 DEF QueueExact, IsIssued, Since
<1> QED
  BY <1>4, <1>5, <1>6, <1>7, <1>8, <1>9 DEF Exact

\* What SetAutoDma does, for a request t whose FIFO f becomes g; last says whether
\* it pushes the last block.
PushesTo(t, dir, f, g, last) ==
  /\ t \in Reqs /\ dir \in Directions /\ f \in Fifo /\ g \in Fifo
  /\ issuing # NONE /\ issuing.req = t
  /\ issuing.done \in Nat /\ issuing.done < NVME_BLOCKS_PER_SLICE
  /\ req[t] # NONE /\ req[t].dir = dir /\ ~ IsIssued(t)
  /\ f = fifo[dir] /\ g = fifo'[dir]
  /\ \A d \in Directions : d # dir => fifo'[d] = fifo[d]
  /\ \A u \in Reqs : u # t => req'[u] = req[u]
  /\ req'[t] # NONE /\ req'[t].dir = dir
  /\ IF last
     THEN /\ issuing' = NONE
          /\ nvmeDmaReqQ' = Append(nvmeDmaReqQ, t)
          /\ req'[t].reqTail = g.tail /\ req'[t].reqTail # NONE
          /\ req'[t].overFlowCnt = g.overFlowCnt /\ req'[t].overFlowCnt # NONE
     ELSE /\ issuing' = [req |-> t, done |-> issuing.done + 1]
          /\ UNCHANGED <<req, nvmeDmaReqQ>>
  /\ Stands(f) \in 0 .. M - 1
  /\ Stands(g) = IF Stands(f) + 1 = M THEN 0 ELSE Stands(f) + 1
  /\ Held(g) = Held(f) + 1
  /\ f.tail \in Positions
  /\ g.cmds[f.tail] # NONE /\ g.cmds[f.tail].req = t
  /\ Age(g, f.tail) = 1
  /\ \A j \in Positions :
       j # f.tail => g.cmds[j] = f.cmds[j] /\ Age(g, j) = Age(f, j) + 1

\* SetAutoDma does that.
LEMMA PushDoes ==
  ASSUME IInv, Exact, SetAutoDma
  PROVE  \E t, dir, f, g : \E last \in BOOLEAN : PushesTo(t, dir, f, g, last)
<1> DEFINE t == issuing.req
           r == req[t]
           dir == r.dir
           f == fifo[dir]
           transfer == [cmd |-> r.cmd, req |-> t,
                        cmd4KBOffset |-> r.startIndex + issuing.done,
                        block |-> r.lsa * NVME_BLOCKS_PER_SLICE + r.offset
                                    + issuing.done]
           g == Pushed(f, transfer)
           last == ~ (issuing.done + 1 < r.num)
<1>1. /\ t \in Reqs /\ issuing.done \in Nat /\ issuing # NONE
      /\ issuing = [req |-> t, done |-> issuing.done]
      /\ r \in Request /\ r # NONE /\ issuing.done < r.num /\ ~ IsIssued(t)
  <2>1. issuing \in Issuing /\ issuing # NONE
    BY DEF SetAutoDma, IInv, Shape
  <2>2. /\ t \in Reqs /\ issuing.done \in Nat
        /\ issuing = [req |-> t, done |-> issuing.done]
    BY <2>1 DEF Issuing
  <2> QED
    BY <2>1, <2>2 DEF IInv, Shape, IssuingWithin, Exact, IssuedWhole
<1>2. /\ dir \in Directions /\ f \in Fifo /\ fifo \in [Directions -> Fifo]
      /\ issuing.done < NVME_BLOCKS_PER_SLICE
  <2>1. dir \in Directions /\ r.num \in 1 .. NVME_BLOCKS_PER_SLICE
    BY <1>1 DEF Request
  <2> QED
    BY <1>1, <2>1, SliceAssumption DEF IInv, Shape
<1>3. /\ (f.tail + 1) % FIFO_SIZE # f.head
      /\ fifo' = [fifo EXCEPT ![dir] = g]
      /\ IF last
         THEN /\ issuing' = NONE
              /\ req' = [req EXCEPT ![t].reqTail = g.tail,
                                    ![t].overFlowCnt = g.overFlowCnt]
              /\ nvmeDmaReqQ' = Append(nvmeDmaReqQ, t)
         ELSE /\ issuing' = [issuing EXCEPT !.done = @ + 1]
              /\ UNCHANGED <<req, nvmeDmaReqQ>>
  BY DEF SetAutoDma
<1>4. transfer # NONE /\ transfer.req = t
  <2>1. /\ r.lsa * NVME_BLOCKS_PER_SLICE \in Nat /\ r.offset \in Nat
        /\ r.startIndex \in Nat /\ r.cmd \in Slots
    BY <1>1, SliceAssumption DEF Request
  <2>2. transfer \in Transfer
    BY <1>1, <2>1 DEF Transfer
  <2> QED
    BY <2>2, NoneAssumption
<1> HIDE DEF transfer
<1>5. /\ g.tail = IF f.tail + 1 = FIFO_SIZE THEN 0 ELSE f.tail + 1
      /\ g.tail \in Positions
      /\ g.overFlowCnt \in 0 .. COUNT_SIZE - 1
      /\ g.head = f.head
      /\ g.cmds = [f.cmds EXCEPT ![f.tail] = transfer]
      /\ Stands(f) \in 0 .. M - 1
      /\ Stands(g) = IF Stands(f) + 1 = M THEN 0 ELSE Stands(f) + 1
  BY <1>2, PushCounts DEF Stands
<1> HIDE DEF g
<1>6. /\ fifo'[dir] = g
      /\ \A d \in Directions : d # dir => fifo'[d] = fifo[d]
  BY <1>2, <1>3
<1>7. g \in Fifo
  <2>1. IInv'
    BY BlockPushed
  <2> HIDE DEF f, dir
  <2>2. fifo'[dir] \in Fifo
    BY <1>2, <2>1 DEF IInv, Shape
  <2> QED
    BY <1>6, <2>2
<1>8. /\ g.tail # f.head /\ f.tail \in Positions
      /\ f.cmds \in [Positions -> Transfer \cup {NONE}]
  <2>1. f.tail \in 0 .. FIFO_SIZE - 1 /\ f.cmds \in [Positions -> Transfer \cup {NONE}]
    BY <1>2 DEF Fifo, Positions
  <2>2. (f.tail + 1) % FIFO_SIZE = IF f.tail + 1 = FIFO_SIZE THEN 0 ELSE f.tail + 1
    BY <2>1, FifoAssumption, NextIs
  <2> QED
    BY <1>3, <1>5, <2>1, <2>2 DEF Positions
<1>9. /\ Held(g) = Held(f) + 1 /\ Age(g, f.tail) = 1
      /\ \A j \in Positions : j # f.tail => Age(g, j) = Age(f, j) + 1
  <2> HIDE DEF f
  <2> QED
    BY <1>2, <1>5, <1>7, <1>8, PushAges
<1>10. /\ g.cmds[f.tail] = transfer
       /\ \A j \in Positions : j # f.tail => g.cmds[j] = f.cmds[j]
  BY <1>5, <1>8
<1>11. CASE last
  <2> DEFINE n == [r EXCEPT !.reqTail = g.tail, !.overFlowCnt = g.overFlowCnt]
  <2>1. req' = [req EXCEPT ![t] = n]
    BY <1>3, <1>11
  <2>2. n \in Request /\ n.dir = dir /\ n.reqTail = g.tail
        /\ n.overFlowCnt = g.overFlowCnt
    BY <1>1, <1>5 DEF Request
  <2> HIDE DEF n
  <2>3. req'[t] = n /\ \A u \in Reqs : u # t => req'[u] = req[u]
    BY <1>1, <2>1 DEF IInv, Shape
  <2>4. g.tail # NONE /\ g.overFlowCnt # NONE /\ n # NONE
    <3>1. \A i \in Nat : i # NONE
      BY NoneAssumption
    <3>2. \A x \in Request : x # NONE
      BY NoneAssumption
    <3>3. Positions \in SUBSET Nat /\ 0 .. COUNT_SIZE - 1 \in SUBSET Nat
      BY FifoAssumption DEF Positions
    <3>4. g.tail \in Nat /\ g.overFlowCnt \in Nat
      BY <1>5, <3>3
    <3> QED
      BY <2>2, <3>1, <3>2, <3>4
  <2>5. issuing' = NONE /\ nvmeDmaReqQ' = Append(nvmeDmaReqQ, t)
    BY <1>3, <1>11
  <2> HIDE DEF t, r, dir, f, last
  <2>6. PushesTo(t, dir, f, g, TRUE)
    BY <1>1, <1>2, <1>4, <1>5, <1>6, <1>7, <1>8, <1>9, <1>10,
       <2>2, <2>3, <2>4, <2>5
    DEF PushesTo, t, r, dir, f
  <2> QED
    BY <2>6
<1>12. CASE ~ last
  <2>1. /\ issuing' = [req |-> t, done |-> issuing.done + 1]
        /\ UNCHANGED <<req, nvmeDmaReqQ>>
    BY <1>1, <1>3, <1>12
  <2> HIDE DEF t, r, dir, f, last
  <2>2. PushesTo(t, dir, f, g, FALSE)
    BY <1>1, <1>2, <1>4, <1>5, <1>6, <1>7, <1>8, <1>9, <1>10, <2>1
    DEF PushesTo, t, r, dir, f
  <2> QED
    BY <2>2
<1> QED
  BY <1>11, <1>12

\* The transfers since an issued request fit the counts with one to spare, as
\* every request that pushed some of them still has its slot.
LEMMA RoomForOne ==
  ASSUME IInv, Exact, NEW t \in Reqs, issuing # NONE, issuing.req = t,
         issuing.done \in Nat, issuing.done < NVME_BLOCKS_PER_SLICE,
         ~ IsIssued(t),
         NEW u \in Reqs, IsIssued(u), req[u].dir = req[t].dir
  PROVE  /\ Since(u) + 1 < M
         /\ IsFiniteSet(Later(u)) /\ Cardinality(Later(u)) \in Nat
         /\ Since(u) <= (NVME_BLOCKS_PER_SLICE * Cardinality(Later(u)))
                          + issuing.done
<1> DEFINE L == Later(u)
           B == NVME_BLOCKS_PER_SLICE
<1>1. L \in SUBSET Reqs /\ u \notin L /\ t \notin L /\ t # u
  <2>1. Since(u) \in Nat
    BY SinceIsCount DEF Exact
  <2> QED
    BY <2>1 DEF Later
<1>2. Since(u) \in Nat /\ Since(u) <= (B * Cardinality(L)) + issuing.done
  BY SinceIsCount DEF Exact, SinceBounded, IssuedSoFar
<1> HIDE DEF L
<1>3. IsFiniteSet(L) /\ Cardinality(L) \in Nat
  BY <1>1, ReqsAssumption, FS_Subset, FS_CardinalityType
<1>4. IsFiniteSet(L \cup {u}) /\ Cardinality(L \cup {u}) = Cardinality(L) + 1
  BY <1>1, <1>3, FS_AddElement
<1>5. /\ L \cup {u} \in SUBSET Reqs
      /\ Cardinality(L) + 1 <= Cardinality(Reqs) /\ Cardinality(Reqs) \in Nat
  BY <1>1, <1>4, ReqsAssumption, FS_Subset, FS_CardinalityType
<1>6. /\ B * (Cardinality(L) + 1) <= B * Cardinality(Reqs)
      /\ B * (Cardinality(L) + 1) = (B * Cardinality(L)) + B
      /\ B * Cardinality(L) \in Nat /\ B * Cardinality(Reqs) \in Nat
      /\ Cardinality(Reqs) * B = B * Cardinality(Reqs)
  <2>1. B \in Nat
    BY SliceAssumption
  <2> DEFINE k == Cardinality(L)
             l == Cardinality(Reqs)
  <2> HIDE DEF k, l
  <2>2. k + 1 \in Nat /\ l \in Nat /\ k \in Nat /\ k + 1 <= l
    BY <1>3, <1>5 DEF k, l
  <2>3. B * (k + 1) <= B * l /\ B * l \in Nat
    BY <2>1, <2>2, TimesMonotonic
  <2>4. B * (k + 1) = (B * k) + B /\ B * k \in Nat /\ l * B = B * l
    BY <2>1, <2>2
  <2> QED
    BY <2>3, <2>4 DEF k, l
<1>7. M > (B * Cardinality(Reqs)) + FIFO_SIZE /\ M \in Nat
  <2>1. M \in Nat
    BY FifoAssumption, Laps, 0 \in 0 .. COUNT_SIZE - 1
  <2> QED
    BY <1>6, <2>1, CountAssumption DEF M
<1> HIDE DEF B
<1>8. Since(u) + 1 < M
  <2>1. issuing.done < B /\ B \in Nat
    BY SliceAssumption DEF B
  <2> QED
    BY <1>2, <1>6, <1>7, <2>1, FifoAssumption
<1> QED
  BY <1>2, <1>3, <1>8 DEF L, B

\* SetAutoDma makes every cell and every issued request of its direction older
\* by one, and the request it finishes the newest.
LEMMA PushKeepsExact ==
  ASSUME IInv, Exact, SetAutoDma
  PROVE  Exact'
<1> DEFINE B == NVME_BLOCKS_PER_SLICE
<1>1. PICK t, dir, f, g : \E last \in BOOLEAN : PushesTo(t, dir, f, g, last)
  BY PushDoes
<1>2. PICK last \in BOOLEAN : PushesTo(t, dir, f, g, last)
  BY <1>1
<1>3. \A u \in Reqs :
        /\ IsIssued(u) => IsIssued(u)' /\ u # t /\ req'[u] = req[u]
        /\ IsIssued(u)' <=> IsIssued(u) \/ (last /\ u = t)
  <2>1. t \in Reqs /\ ~ IsIssued(t) /\ req'[t] # NONE
    BY <1>2 DEF PushesTo
  <2>2. IF last THEN req'[t].reqTail # NONE ELSE req' = req
    BY <1>2 DEF PushesTo
  <2>3. \A u \in Reqs : u # t => req'[u] = req[u]
    BY <1>2 DEF PushesTo
  <2> QED
    BY <2>1, <2>2, <2>3 DEF IsIssued
<1>4. ASSUME NEW u \in Reqs, IsIssued(u), req[u].dir = dir
      PROVE  /\ Since(u) + 1 < M /\ Since(u) \in Nat
             /\ Since(u)' = Since(u) + 1
             /\ IsFiniteSet(Later(u)) /\ Cardinality(Later(u)) \in Nat
             /\ Since(u) <= (B * Cardinality(Later(u))) + issuing.done
  <2>1. /\ t \in Reqs /\ issuing # NONE /\ issuing.req = t
        /\ issuing.done \in Nat /\ issuing.done < B
        /\ ~ IsIssued(t) /\ req[t].dir = dir
        /\ f = fifo[dir] /\ g = fifo'[dir] /\ Stands(f) \in 0 .. M - 1
        /\ Stands(g) = IF Stands(f) + 1 = M THEN 0 ELSE Stands(f) + 1
    BY <1>2 DEF PushesTo
  <2>2. /\ Since(u) + 1 < M
        /\ IsFiniteSet(Later(u)) /\ Cardinality(Later(u)) \in Nat
        /\ Since(u) <= (B * Cardinality(Later(u))) + issuing.done
    BY <1>4, <2>1, RoomForOne
  <2> DEFINE before == Count(req[u].reqTail, req[u].overFlowCnt)
  <2>3. before \in 0 .. M - 1 /\ Since(u) \in Nat
    BY <1>4, SinceIsCount DEF Exact
  <2>4. Since(u) = Diff(Stands(f), before)
    BY <1>4, <2>1 DEF Since
  <2>5. Since(u)' = Diff(Stands(g), before)
    BY <1>3, <1>4, <2>1 DEF Since
  <2> HIDE DEF before
  <2>6. Diff(IF Stands(f) + 1 = M THEN 0 ELSE Stands(f) + 1, before)
          = Diff(Stands(f), before) + 1
    BY <2>1, <2>2, <2>3, <2>4, CountMoves
  <2>7. Since(u)' = Since(u) + 1
    BY <2>1, <2>4, <2>5, <2>6
  <2> QED
    BY <2>2, <2>3, <2>7
<1>5. ASSUME NEW u \in Reqs, IsIssued(u), req[u].dir # dir
      PROVE  Since(u)' = Since(u) /\ Since(u) \in Nat
  <2>1. req[u].dir \in Directions /\ Since(u) \in Nat
    BY <1>5, SinceIsCount DEF Exact, Request
  <2>2. fifo'[req[u].dir] = fifo[req[u].dir] /\ req'[u] = req[u]
    BY <1>2, <1>3, <1>5, <2>1 DEF PushesTo
  <2> QED
    BY <2>1, <2>2 DEF Since
<1>6. last => Since(t)' = 0
  <2> SUFFICES ASSUME last PROVE Since(t)' = 0
    OBVIOUS
  <2>1. /\ req'[t].dir = dir /\ g = fifo'[dir]
        /\ req'[t].reqTail = g.tail /\ req'[t].overFlowCnt = g.overFlowCnt
        /\ g \in Fifo
    BY <1>2 DEF PushesTo
  <2>2. Stands(g) \in 0 .. M - 1
    BY <2>1, CountsBelow DEF Stands, Fifo
  <2>3. Since(t)' = Diff(Stands(g), Stands(g))
    BY <2>1 DEF Since, Stands
  <2> QED
    BY <2>2, <2>3, CountMoves
<1>7. IssuedWhole'
  <2>1. issuing' # NONE => ~ last /\ issuing'.req = t
    BY <1>2 DEF PushesTo
  <2>2. t \in Reqs /\ ~ IsIssued(t) /\ (last => req'[t].overFlowCnt # NONE)
    BY <1>2 DEF PushesTo
  <2>3. issuing' # NONE => ~ IsIssued(issuing.req)'
    <3>1. ~ last => ~ IsIssued(t)'
      BY <1>3, <2>2
    <3> QED
      BY <2>1, <3>1 DEF IsIssued
  <2>4. \A u \in Reqs : IsIssued(u)' => req'[u].overFlowCnt # NONE
    BY <1>3, <2>2 DEF Exact, IssuedWhole
  <2> QED
    BY <2>3, <2>4 DEF IssuedWhole
<1>8. ASSUME NEW d \in Directions, NEW j \in Positions
      PROVE  /\ d # dir => fifo'[d] = fifo[d]
             /\ d = dir => /\ fifo[d] = f /\ fifo'[d] = g
                           /\ Held(fifo'[d]) = Held(fifo[d]) + 1
                           /\ Held(fifo[d]) \in Nat
                           /\ Age(fifo[d], j) \in Nat
                           /\ j # f.tail =>
                                /\ fifo'[d].cmds[j] = fifo[d].cmds[j]
                                /\ Age(fifo'[d], j) = Age(fifo[d], j) + 1
                           /\ j = f.tail =>
                                /\ fifo'[d].cmds[j] # NONE
                                /\ fifo'[d].cmds[j].req = t
                                /\ Age(fifo'[d], j) = 1
  <2>1. f \in Fifo
    BY <1>2 DEF PushesTo
  <2>2. Held(f) \in Nat /\ Age(f, j) \in Nat
    BY <2>1, AgesDiffer
  <2> QED
    BY <1>2, <2>2 DEF PushesTo
<1>9. CellsHeld'
  <2> SUFFICES ASSUME NEW d \in Directions, NEW j \in Positions
               PROVE  fifo'[d].cmds[j] # NONE <=> Age(fifo'[d], j) <= Held(fifo'[d])
    BY DEF CellsHeld
  <2>1. fifo[d].cmds[j] # NONE <=> Age(fifo[d], j) <= Held(fifo[d])
    BY DEF Exact, CellsHeld
  <2> QED
    BY <1>8, <2>1
<1>10. CellsOwned'
  <2> SUFFICES ASSUME NEW d \in Directions, NEW j \in Positions,
                      fifo'[d].cmds[j] # NONE, NEW u, u = fifo'[d].cmds[j].req
               PROVE  /\ req'[u] # NONE /\ req'[u].dir = d
                      /\ \/ IsIssued(u)' /\ Since(u)' < Age(fifo'[d], j)
                         \/ ~ IsIssued(u)' /\ issuing' # NONE /\ issuing'.req = u
    BY DEF CellsOwned
  <2>1. CASE d = dir /\ j = f.tail
    <3>1. u = t /\ Age(fifo'[d], j) = 1
      BY <1>8, <2>1
    <3>2. t \in Reqs /\ req'[t] # NONE /\ req'[t].dir = dir /\ ~ IsIssued(t)
      BY <1>2 DEF PushesTo
    <3>3. CASE last
      BY <1>3, <1>6, <2>1, <3>1, <3>2, <3>3
    <3>4. CASE ~ last
      <4>1. issuing' = [req |-> t, done |-> issuing.done + 1]
        BY <1>2, <3>4 DEF PushesTo
      <4>2. issuing' # NONE
        <5>1. issuing' \in Issuing
          BY <1>2, <3>2, <4>1 DEF Issuing, PushesTo
        <5> QED
          BY <5>1, NoneAssumption
      <4>3. ~ IsIssued(t)'
        BY <1>3, <3>2, <3>4
      <4> QED
        BY <2>1, <3>1, <3>2, <4>1, <4>2, <4>3
    <3> QED
      BY <3>3, <3>4
  <2>2. CASE ~ (d = dir /\ j = f.tail)
    <3>1. fifo[d].cmds[j] = fifo'[d].cmds[j]
      BY <1>8, <2>2
    <3>2. /\ req[u] # NONE /\ req[u].dir = d
          /\ \/ IsIssued(u) /\ Since(u) < Age(fifo[d], j)
             \/ ~ IsIssued(u) /\ issuing # NONE /\ issuing.req = u
      BY <3>1 DEF Exact, CellsOwned
    <3>3. u \in Reqs
      BY <3>1, NoneAssumption DEF IInv, Shape, Fifo, Transfer
    <3>4. CASE IsIssued(u) /\ Since(u) < Age(fifo[d], j)
      <4>1. IsIssued(u)' /\ req'[u] = req[u]
        BY <1>3, <3>3, <3>4
      <4>2. Since(u)' < Age(fifo'[d], j)
        BY <1>4, <1>5, <1>8, <2>2, <3>2, <3>3, <3>4
      <4> QED
        BY <3>2, <4>1, <4>2
    <3>5. CASE ~ IsIssued(u) /\ issuing # NONE /\ issuing.req = u
      <4>1. u = t /\ req[t].dir = dir /\ d = dir
        BY <1>2, <3>2, <3>5 DEF PushesTo
      <4>2. req'[t] # NONE /\ req'[t].dir = dir
        BY <1>2 DEF PushesTo
      <4>3. CASE last
        <5>1. IsIssued(t)' /\ Since(t)' = 0
          BY <1>3, <1>6, <3>3, <4>1, <4>3
        <5>2. 0 < Age(fifo'[d], j)
          BY <1>8, <2>2, <4>1
        <5> QED
          BY <4>1, <4>2, <5>1, <5>2
      <4>4. CASE ~ last
        <5>1. issuing' = [req |-> t, done |-> issuing.done + 1]
          BY <1>2, <4>4 DEF PushesTo
        <5>2. issuing' # NONE
          <6>1. issuing' \in Issuing
            BY <1>2, <5>1 DEF Issuing, PushesTo
          <6> QED
            BY <6>1, NoneAssumption
        <5>3. ~ IsIssued(t)'
          BY <1>3, <3>3, <3>5, <4>1, <4>4
        <5> QED
          BY <4>1, <4>2, <5>1, <5>2, <5>3
      <4> QED
        BY <4>3, <4>4
    <3> QED
      BY <3>2, <3>4, <3>5
  <2> QED
    BY <2>1, <2>2
<1>11. LastCells'
  <2> SUFFICES ASSUME NEW u \in Reqs, NEW j \in Positions, NEW d,
                      d = req'[u].dir, IsIssued(u)',
                      Age(fifo'[d], j) = Since(u)' + 1,
                      Age(fifo'[d], j) <= Held(fifo'[d])
               PROVE  fifo'[d].cmds[j].req = u
    BY DEF LastCells
  <2>1. CASE u = t
    <3>1. last /\ d = dir /\ dir \in Directions
      BY <1>2, <1>3, <2>1 DEF PushesTo
    <3>2. Age(fifo'[d], j) = 1
      BY <1>6, <2>1, <3>1
    <3>3. Age(fifo[d], j) # 0
      <4>1. f \in Fifo /\ fifo[d] = f
        BY <1>2, <3>1 DEF PushesTo
      <4> QED
        BY <4>1, AgesDiffer
    <3> QED
      BY <1>8, <2>1, <3>1, <3>2, <3>3
  <2>2. CASE u # t
    <3>1. IsIssued(u) /\ req'[u] = req[u] /\ d = req[u].dir
      BY <1>3, <2>2
    <3>2. d \in Directions
      BY <3>1, SinceIsCount DEF Exact, Request
    <3>3. CASE d # dir
      <4>1. Since(u)' = Since(u) /\ fifo'[d] = fifo[d]
        BY <1>5, <1>8, <3>1, <3>2, <3>3
      <4> QED
        BY <3>1, <4>1 DEF Exact, LastCells
    <3>4. CASE d = dir
      <4>1. Since(u)' = Since(u) + 1 /\ Since(u) \in Nat
        BY <1>4, <3>1, <3>4
      <4>2. j # f.tail
        BY <1>8, <3>2, <3>4, <4>1
      <4>3. /\ Age(fifo[d], j) = Since(u) + 1
            /\ Age(fifo[d], j) <= Held(fifo[d])
            /\ fifo'[d].cmds[j] = fifo[d].cmds[j]
        BY <1>8, <3>2, <3>4, <4>1, <4>2
      <4> QED
        BY <3>1, <4>3 DEF Exact, LastCells
    <3> QED
      BY <3>3, <3>4
  <2> QED
    BY <2>1, <2>2
<1>12. QueueExact'
  <2> DEFINE q == nvmeDmaReqQ
             n == Len(q) + 1
             queue == IF last THEN Append(q, t) ELSE q
  <2>1. /\ t \in Reqs /\ ~ IsIssued(t) /\ nvmeDmaReqQ' = queue
    BY <1>2 DEF PushesTo
  <2>2. /\ q \in Seq(Reqs) /\ Len(q) \in Nat
        /\ \A i \in DOMAIN q : q[i] \in Reqs /\ IsIssued(q[i]) /\ q[i] # t
    BY <2>1 DEF Exact, QueueExact
  <2>3. /\ queue \in Seq(Reqs)
        /\ DOMAIN queue = IF last THEN DOMAIN q \cup {n} ELSE DOMAIN q
        /\ \A i \in DOMAIN q : queue[i] = q[i]
        /\ last => queue[n] = t
        /\ n \notin DOMAIN q /\ \A i \in DOMAIN q : i < n /\ i \in Nat
    <3>1. CASE last
      <4>1. queue = Append(q, t)
        BY <3>1
      <4> QED
        BY <2>1, <2>2, <3>1, <4>1
    <3>2. CASE ~ last
      <4>1. queue = q
        BY <3>2
      <4> QED
        BY <2>2, <3>2, <4>1
    <3> QED
      BY <3>1, <3>2
  <2> HIDE DEF queue, n
  <2>4. ASSUME NEW i \in DOMAIN queue, NEW u, u = queue[i]
        PROVE  IsIssued(u)'
    BY <1>3, <2>1, <2>2, <2>3, <2>4
  <2>5. ASSUME NEW u \in Reqs, IsIssued(u)'
        PROVE  \E i \in DOMAIN queue : queue[i] = u
    <3>1. CASE IsIssued(u)
      <4>1. PICK i \in DOMAIN q : q[i] = u
        BY <3>1 DEF Exact, QueueExact
      <4> QED
        BY <2>3, <4>1
    <3>2. CASE ~ IsIssued(u)
      <4>1. last /\ u = t
        BY <1>3, <2>5, <3>2
      <4> QED
        BY <2>3, <4>1
    <3> QED
      BY <3>1, <3>2
  <2>6. ASSUME NEW i \in DOMAIN queue, NEW j \in DOMAIN queue, i < j,
               NEW u, u = queue[i], NEW v, v = queue[j],
               req'[u].dir = req'[v].dir
        PROVE  Since(v)' < Since(u)'
    <3>1. i \in DOMAIN q /\ u = q[i] /\ u \in Reqs /\ IsIssued(u) /\ u # t
      <4>1. i \in DOMAIN q
        <5>1. CASE i = n
          <6>1. j \in Nat /\ i \in Nat /\ ~ (n < j)
            BY <2>2, <2>3 DEF n
          <6> QED
            BY <2>6, <5>1, <6>1
        <5>2. CASE i # n
          BY <2>3, <5>2
        <5> QED
          BY <5>1, <5>2
      <4> QED
        BY <2>2, <2>3, <2>6, <4>1
    <3>2. req'[u] = req[u]
      BY <1>3, <3>1
    <3>3. CASE j \in DOMAIN q
      <4>1. v = q[j] /\ v \in Reqs /\ IsIssued(v)
        BY <2>2, <2>3, <2>6, <3>3
      <4>2. req[u].dir = req[v].dir
        BY <1>3, <2>6, <3>2, <4>1
      <4>3. Since(v) < Since(u)
        BY <2>6, <3>1, <3>3, <4>1, <4>2 DEF Exact, QueueExact
      <4>4. CASE req[u].dir = dir
        <5>1. /\ Since(u)' = Since(u) + 1 /\ Since(u) \in Nat
              /\ Since(v)' = Since(v) + 1 /\ Since(v) \in Nat
          BY <1>4, <3>1, <4>1, <4>2, <4>4
        <5> QED
          BY <4>3, <5>1
      <4>5. CASE req[u].dir # dir
        <5>1. Since(u)' = Since(u) /\ Since(v)' = Since(v)
          BY <1>5, <3>1, <4>1, <4>2, <4>5
        <5> QED
          BY <4>3, <5>1
      <4> QED
        BY <4>4, <4>5
    <3>4. CASE j \notin DOMAIN q
      <4>1. last /\ v = t
        BY <2>3, <2>6, <3>4
      <4>2. req'[t].dir = dir
        BY <1>2 DEF PushesTo
      <4>3. Since(u)' = Since(u) + 1 /\ Since(u) \in Nat
        BY <1>4, <2>6, <3>1, <3>2, <4>1, <4>2
      <4> QED
        BY <1>6, <4>1, <4>3
    <3> QED
      BY <3>3, <3>4
  <2>7. \A i \in DOMAIN queue :
          req'[queue[i]] # NONE /\ req'[queue[i]].reqTail # NONE
    BY <2>4 DEF IsIssued
  <2>8. \A i, j \in DOMAIN queue :
          i < j /\ req'[queue[i]].dir = req'[queue[j]].dir
          => Diff(Stands(fifo'[req'[queue[j]].dir]),
                  Count(req'[queue[j]].reqTail, req'[queue[j]].overFlowCnt))
             < Diff(Stands(fifo'[req'[queue[i]].dir]),
                    Count(req'[queue[i]].reqTail, req'[queue[i]].overFlowCnt))
    BY <2>6 DEF Since
  <2> QED
    BY <2>1, <2>3, <2>5, <2>7, <2>8 DEF QueueExact, IsIssued, Since
<1>13. SinceBounded'
  <2> SUFFICES ASSUME NEW u \in Reqs, IsIssued(u)'
               PROVE  Since(u)' <= (B * Cardinality(Later(u)')) + IssuedSoFar(req[u].dir)'
    BY DEF SinceBounded
  <2>1. /\ t \in Reqs /\ issuing # NONE /\ issuing.req = t
        /\ issuing.done \in Nat /\ issuing.done < B /\ B \in Nat
        /\ ~ IsIssued(t) /\ req[t].dir = dir /\ req'[t].dir = dir
        /\ \A d \in Directions : IssuedSoFar(d) =
             IF d = dir THEN issuing.done ELSE 0
    BY <1>2, SliceAssumption DEF PushesTo, IssuedSoFar
  <2>2. IssuedSoFar(req[u].dir)' =
          IF ~ last /\ req'[u].dir = dir THEN issuing.done + 1 ELSE 0
    <3>1. CASE last
      BY <1>2, <3>1 DEF PushesTo, IssuedSoFar
    <3>2. CASE ~ last
      <4>1. issuing' = [req |-> t, done |-> issuing.done + 1]
        BY <1>2, <3>2 DEF PushesTo
      <4>2. issuing' # NONE
        <5>1. issuing' \in Issuing
          BY <2>1, <4>1 DEF Issuing
        <5> QED
          BY <5>1, NoneAssumption
      <4> QED
        BY <2>1, <3>2, <4>1, <4>2 DEF IssuedSoFar
    <3> QED
      BY <3>1, <3>2
  <2>3. CASE u = t
    <3>1. last /\ Since(u)' = 0
      BY <1>3, <1>6, <2>1, <2>3
    <3>2. Later(u)' \in SUBSET Reqs
      BY DEF Later
    <3>3. Cardinality(Later(u)') \in Nat
      BY <3>2, ReqsAssumption, FS_Subset, FS_CardinalityType
    <3>4. B * Cardinality(Later(u)') \in Nat
      BY <2>1, <3>3
    <3> QED
      BY <2>2, <3>1, <3>4
  <2>4. CASE u # t /\ req[u].dir # dir
    <3>1. IsIssued(u) /\ req'[u] = req[u] /\ req[u].dir \in Directions
      BY <1>3, <2>4, SinceIsCount DEF Exact, Request
    <3>2. ASSUME NEW v \in Reqs
          PROVE  /\ IsIssued(v)' /\ req'[v].dir = req'[u].dir /\ Since(v)' < Since(u)'
                    => IsIssued(v) /\ req[v].dir = req[u].dir /\ Since(v) < Since(u)
                 /\ IsIssued(v) /\ req[v].dir = req[u].dir /\ Since(v) < Since(u)
                    => IsIssued(v)' /\ req'[v].dir = req'[u].dir
                       /\ Since(v)' < Since(u)'
      BY <1>3, <1>5, <2>1, <2>4, <3>1
    <3>3. Later(u)' = Later(u)
      BY <3>2 DEF Later
    <3>4. Since(u)' = Since(u)
      BY <1>5, <2>4, <3>1
    <3>5. Since(u) <= (B * Cardinality(Later(u))) + IssuedSoFar(req[u].dir)
      BY <3>1 DEF Exact, SinceBounded
    <3> QED
      BY <2>1, <2>2, <2>4, <3>1, <3>3, <3>4, <3>5
  <2>5. CASE u # t /\ req[u].dir = dir
    <3>1. IsIssued(u) /\ req'[u] = req[u]
      BY <1>3, <2>5
    <3>2. /\ Since(u) \in Nat /\ Since(u)' = Since(u) + 1
          /\ IsFiniteSet(Later(u)) /\ Cardinality(Later(u)) \in Nat
          /\ Since(u) <= (B * Cardinality(Later(u))) + issuing.done
      BY <1>4, <2>5, <3>1
    <3>3. ASSUME NEW v \in Reqs
          PROVE  (/\ IsIssued(v)' /\ req'[v].dir = req'[u].dir
                  /\ Since(v)' < Since(u)')
                 <=> \/ /\ IsIssued(v) /\ req[v].dir = req[u].dir
                        /\ Since(v) < Since(u)
                     \/ last /\ v = t
      <4>1. CASE v = t
        BY <1>3, <1>6, <2>1, <2>5, <3>1, <3>2, <4>1
      <4>2. CASE v # t
        <5>1. CASE IsIssued(v) /\ req[v].dir = dir
          <6>1. Since(v)' = Since(v) + 1 /\ Since(v) \in Nat
            BY <1>4, <5>1
          <6> QED
            BY <1>3, <2>5, <3>1, <3>2, <4>2, <5>1, <6>1
        <5>2. CASE ~ (IsIssued(v) /\ req[v].dir = dir)
          BY <1>3, <2>5, <3>1, <4>2, <5>2
        <5> QED
          BY <5>1, <5>2
      <4> QED
        BY <4>1, <4>2
    <3>4. CASE last
      <4>1. Later(u)' = Later(u) \cup {t} /\ t \notin Later(u)
        BY <2>1, <3>3, <3>4 DEF Later
      <4>2. Cardinality(Later(u)') = Cardinality(Later(u)) + 1
        BY <3>2, <4>1, FS_AddElement
      <4> DEFINE k == Cardinality(Later(u))
      <4>3. k \in Nat /\ Cardinality(Later(u)') = k + 1
            /\ Since(u) <= (B * k) + issuing.done
        BY <3>2, <4>2
      <4> HIDE DEF k, B
      <4>4. B * (k + 1) = (B * k) + B /\ B * k \in Nat
        BY <2>1, <4>3
      <4> QED
        BY <2>1, <2>2, <3>2, <3>4, <4>3, <4>4
    <3>5. CASE ~ last
      <4>1. Later(u)' = Later(u)
        BY <3>3, <3>5 DEF Later
      <4> DEFINE k == Cardinality(Later(u))
      <4>2. k \in Nat /\ Cardinality(Later(u)') = k
            /\ Since(u) <= (B * k) + issuing.done
        BY <3>2, <4>1
      <4> HIDE DEF k, B
      <4>3. B * k \in Nat
        BY <2>1, <4>2
      <4> QED
        BY <2>1, <2>2, <2>5, <3>1, <3>2, <3>5, <4>2, <4>3
    <3> QED
      BY <3>4, <3>5
  <2> QED
    BY <2>3, <2>4, <2>5
<1> QED
  BY <1>7, <1>9, <1>10, <1>11, <1>12, <1>13 DEF Exact

\* Every step keeps the invariant.
LEMMA StepKeepsExact ==
  ASSUME IInv, Exact, [DmaNext]_dmaVars
  PROVE  Exact'
<1>1. ASSUME NEW c \in Slots, NEW io \in IoCommands,
             HandleNvmeIoCmd(c, io[1], io[2], io[3])
      PROVE  Exact'
  BY <1>1, CommandKeepsExact
<1>2. ASSUME NEW t \in Reqs, SelectLowLevelReqQ(t)
      PROVE  Exact'
  BY <1>2, SelectionKeepsExact
<1>3. CASE SetAutoDma
  BY <1>3, PushKeepsExact
<1>4. CASE CheckDoneNvmeDmaReq
  BY <1>4, ReleaseKeepsExact
<1>5. ASSUME NEW dir \in Directions, HandleDmaReq(dir)
      PROVE  Exact'
  BY <1>5, MoveKeepsExact
<1>6. CASE UNCHANGED dmaVars
  <2>1. req' = req /\ nvmeDmaReqQ' = nvmeDmaReqQ /\ issuing' = issuing /\ fifo' = fifo
    BY <1>6 DEF dmaVars
  <2>2. ASSUME NEW t
        PROVE  (IsIssued(t)' <=> IsIssued(t)) /\ Since(t)' = Since(t)
    BY <2>1 DEF IsIssued, Since
  <2>3. \A t : Later(t)' = Later(t)
    BY <2>1, <2>2 DEF Later
  <2>4. IssuedWhole'
    BY <2>1, <2>2 DEF Exact, IssuedWhole
  <2>5. CellsHeld'
    BY <2>1 DEF Exact, CellsHeld
  <2>6. CellsOwned'
    BY <2>1, <2>2 DEF Exact, CellsOwned
  <2>7. LastCells'
    BY <2>1, <2>2 DEF Exact, LastCells
  <2>8. QueueExact'
    BY <2>1, <2>2 DEF Exact, QueueExact
  <2>9. SinceBounded'
    BY <2>1, <2>2, <2>3 DEF Exact, SinceBounded, IssuedSoFar
  <2> QED
    BY <2>4, <2>5, <2>6, <2>7, <2>8, <2>9 DEF Exact
<1> QED
  BY <1>1, <1>2, <1>3, <1>4, <1>5, <1>6 DEF DmaNext

\* The invariant holds of every state.
LEMMA AlwaysExact == DmaSpec => [](IInv /\ Exact)
<1>1. DmaInit => IInv /\ Exact
  BY InitEstablishes, NothingExact
<1>2. IInv /\ Exact /\ [DmaNext]_dmaVars => (IInv /\ Exact)'
  BY StepKeeps, StepKeepsExact
<1> QED
  BY <1>1, <1>2, PTL DEF DmaSpec

-----------------------------------------------------------------------------

\* check_auto_tx_dma_partial_done and its twin are right for every FIFO size and
\* every range of the overflow counts, as long as the pool is too small for the
\* counts to repeat while a request waits: they find a request done if and only if
\* the controller has moved all its blocks.
THEOREM DoneAlwaysExact == DmaSpec => []DoneExact
<1>1. IInv /\ Exact => DoneExact
  <2> SUFFICES ASSUME IInv, Exact, NEW i \in DOMAIN nvmeDmaReqQ, NEW t,
                      t = nvmeDmaReqQ[i]
               PROVE  FoundDone(t) <=> InFlight(t) = {}
    BY DEF DoneExact
  <2>1. t \in Reqs /\ IsIssued(t)
    BY DEF Exact, QueueExact
  <2> QED
    BY <2>1, FoundWhenOld, InFlightExactly DEF Exact
<1> QED
  BY <1>1, AlwaysExact, PTL

\* CheckDoneNvmeDmaReq releases no request with a block still to be moved, neither
\* the ones it examines nor those it takes for done with a later one.
THEOREM AlwaysReleasedWhenDone == DmaSpec => ReleasedWhenDone
<1>1. ASSUME IInv, Exact, [DmaNext]_dmaVars,
             NEW t \in Reqs, req[t] # NONE, req'[t] = NONE
      PROVE  IsIssued(t) /\ InFlight(t) = {}
  <2>1. ASSUME NEW c \in Slots, NEW io \in IoCommands,
               HandleNvmeIoCmd(c, io[1], io[2], io[3])
        PROVE  FALSE
    BY <1>1, <2>1, CommandFillsFree
  <2>2. ASSUME NEW u \in Reqs, SelectLowLevelReqQ(u)
        PROVE  FALSE
    BY <1>1, <2>2 DEF SelectLowLevelReqQ
  <2>3. CASE SetAutoDma
    <3>1. PICK u, dir, f, g : \E last \in BOOLEAN : PushesTo(u, dir, f, g, last)
      BY <1>1, <2>3, PushDoes
    <3> QED
      BY <1>1, <3>1 DEF PushesTo
  <2>4. CASE CheckDoneNvmeDmaReq
    <3>1. t \in DoneReqs
      BY <1>1, <2>4 DEF CheckDoneNvmeDmaReq
    <3> QED
      BY <1>1, <3>1, DoneReqsAreOld, InFlightExactly
  <2>5. ASSUME NEW dir \in Directions, HandleDmaReq(dir)
        PROVE  FALSE
    BY <1>1, <2>5 DEF HandleDmaReq
  <2>6. CASE UNCHANGED dmaVars
    BY <1>1, <2>6 DEF dmaVars
  <2> QED
    BY <1>1, <2>1, <2>2, <2>3, <2>4, <2>5, <2>6 DEF DmaNext
<1>2. IInv /\ Exact /\ [DmaNext]_dmaVars =>
        [\A t \in Reqs : req[t] # NONE /\ req'[t] = NONE =>
           IsIssued(t) /\ InFlight(t) = {}]_dmaVars
  BY <1>1
<1> QED
  BY <1>2, AlwaysExact, PTL DEF ReleasedWhenDone, DmaSpec

-----------------------------------------------------------------------------
(* The slices of a command *)

\* Multiples of a sum and one.
LEMMA NextMultiple ==
  ASSUME NEW B \in Nat, NEW q \in Nat, NEW k \in Nat
  PROVE  /\ (q + k + 1) * B = (B * q) + (k * B) + B
         /\ k * B \in Nat /\ B * q \in Nat
<1>1. B * (q + (k + 1)) = (B * q) + (B * (k + 1))
  BY OneMoreTimes
<1>2. B * (k + 1) = (B * k) + B /\ B * k = k * B
  OBVIOUS
<1>3. (q + k + 1) * B = B * (q + (k + 1))
  OBVIOUS
<1> QED
  BY <1>1, <1>2, <1>3

\* A slice holds blocks of its command that follow one another.
LEMMA SlicesInPlace ==
  ASSUME NEW startLba \in Nat, NEW nlb \in Nat,
         NEW i \in DOMAIN Slices(startLba, nlb)
  PROVE  LET s == Slices(startLba, nlb)[i]
         IN  /\ s.startIndex \in Nat /\ s.num \in Nat \ {0}
             /\ (s.lsa * NVME_BLOCKS_PER_SLICE) + s.offset
                  = startLba + s.startIndex
             /\ s.startIndex + s.num <= nlb + 1
<1> DEFINE B      == NVME_BLOCKS_PER_SLICE
           q      == startLba \div B
           offset == startLba % B
           loop   == (offset + nlb + 1) \div B
           first  == IF loop > 0 THEN B - offset ELSE nlb + 1
           last   == (startLba + nlb + 1) % B
           count  == IF loop = 0 THEN 1 ELSE IF last = 0 THEN loop ELSE loop + 1
           s      == Slices(startLba, nlb)[i]
<1>1. B \in Nat \ {0}
  BY SliceAssumption
<1>2. /\ q \in Nat /\ offset \in Nat /\ offset < B
      /\ startLba = (B * q) + offset
  BY <1>1, DivMod
<1>3. loop \in Nat
  <2>1. offset + nlb + 1 \in Nat
    BY <1>2
  <2> HIDE DEF offset
  <2> QED
    BY <1>1, <2>1, DivMod
<1>4. /\ i \in 1 .. count
      /\ s = [lsa |-> q + i - 1,
              startIndex |-> IF i = 1 THEN 0 ELSE first + (i - 2) * B,
              offset |-> IF i = 1 THEN offset ELSE 0,
              num |-> IF i = 1 THEN first ELSE IF i <= loop THEN B ELSE last]
  BY DEF Slices
<1>5. /\ s.lsa = q + i - 1
      /\ s.offset = IF i = 1 THEN offset ELSE 0
      /\ s.startIndex = IF i = 1 THEN 0 ELSE first + (i - 2) * B
  BY <1>4
<1>6. SliceWithin(s, startLba + nlb + 1)
  BY SlicesWithin
<1> HIDE DEF s
<1>7. /\ s.startIndex \in Nat /\ s.num \in Nat \ {0} /\ s.lsa * B \in Nat
      /\ s.offset \in Nat
      /\ (s.lsa * B) + s.offset + s.num <= startLba + nlb + 1
  BY <1>1, <1>6 DEF SliceWithin
<1>8. (s.lsa * B) + s.offset = startLba + s.startIndex
  <2>1. CASE i = 1
    <3>1. s.lsa = q /\ s.offset = offset /\ s.startIndex = 0
      BY <1>2, <1>5, <2>1
    <3> HIDE DEF q, offset, B
    <3> QED
      BY <1>1, <1>2, <3>1
  <2>2. CASE i # 1
    <3>1. /\ i \in Nat /\ i - 2 \in Nat /\ loop > 0 /\ first = B - offset
      BY <1>3, <1>4, <2>2
    <3>2. s.lsa = q + i - 1 /\ s.offset = 0
          /\ s.startIndex = B - offset + (i - 2) * B
      BY <1>5, <2>2, <3>1
    <3> DEFINE k == i - 2
    <3>3. k \in Nat /\ s.lsa = q + k + 1 /\ s.startIndex = (B - offset) + (k * B)
      BY <1>2, <3>1, <3>2
    <3> HIDE DEF k, q, offset, B
    <3>4. (q + k + 1) * B = (B * q) + (k * B) + B /\ k * B \in Nat /\ B * q \in Nat
      BY <1>1, <1>2, <3>3, NextMultiple
    <3> QED
      BY <1>1, <1>2, <3>2, <3>3, <3>4
  <2> QED
    BY <2>1, <2>2
<1> HIDE DEF B
<1> QED
  BY <1>7, <1>8 DEF s, B

\* One slice of a command ends before the next begins.
LEMMA SlicesApart ==
  ASSUME NEW startLba \in Nat, NEW nlb \in Nat,
         NEW i \in DOMAIN Slices(startLba, nlb),
         NEW j \in DOMAIN Slices(startLba, nlb), i < j
  PROVE  LET s == Slices(startLba, nlb)
         IN  s[i].startIndex + s[i].num <= s[j].startIndex
<1> DEFINE B      == NVME_BLOCKS_PER_SLICE
           q      == startLba \div B
           offset == startLba % B
           loop   == (offset + nlb + 1) \div B
           first  == IF loop > 0 THEN B - offset ELSE nlb + 1
           last   == (startLba + nlb + 1) % B
           count  == IF loop = 0 THEN 1 ELSE IF last = 0 THEN loop ELSE loop + 1
           s(k)   == Slices(startLba, nlb)[k]
<1>1. B \in Nat \ {0}
  BY SliceAssumption
<1>2. offset \in Nat /\ offset < B
  BY <1>1, DivMod
<1>3. loop \in Nat
  <2>1. offset + nlb + 1 \in Nat
    BY <1>2
  <2> HIDE DEF offset
  <2> QED
    BY <1>1, <2>1, DivMod
<1>4. ASSUME NEW k \in DOMAIN Slices(startLba, nlb)
      PROVE  /\ k \in 1 .. count
             /\ s(k).startIndex = IF k = 1 THEN 0 ELSE first + (k - 2) * B
             /\ s(k).num = IF k = 1 THEN first ELSE IF k <= loop THEN B ELSE last
  <2>1. /\ k \in 1 .. count
        /\ s(k) = [lsa |-> q + k - 1,
                   startIndex |-> IF k = 1 THEN 0 ELSE first + (k - 2) * B,
                   offset |-> IF k = 1 THEN offset ELSE 0,
                   num |-> IF k = 1 THEN first ELSE IF k <= loop THEN B ELSE last]
    BY DEF Slices
  <2> QED
    BY <2>1
<1>5. /\ i \in Nat /\ j \in Nat /\ i # 0 /\ i <= loop /\ i + 1 <= j
      /\ j - 2 \in Nat
      /\ first = B - offset
  BY <1>3, <1>4
<1>6. s(j).startIndex = first + (j - 2) * B
  BY <1>4, <1>5
<1> SUFFICES s(i).startIndex + s(i).num <= s(j).startIndex
  OBVIOUS
<1>7. CASE i = 1
  <2>1. s(i).startIndex = 0 /\ s(i).num = first
    BY <1>4, <1>7
  <2>2. (j - 2) * B \in Nat
    BY <1>1, <1>5
  <2> HIDE DEF s, first, B, offset
  <2> QED
    BY <1>1, <1>2, <1>5, <1>6, <2>1, <2>2
<1>8. CASE i # 1
  <2>1. s(i).startIndex = first + (i - 2) * B /\ s(i).num = B
    BY <1>4, <1>5, <1>8
  <2> DEFINE k == i - 2
             l == j - 2
  <2>2. k \in Nat /\ l \in Nat /\ k + 1 <= l
    BY <1>5, <1>8
  <2>3. /\ s(i).startIndex = first + (k * B) /\ s(i).num = B
        /\ s(j).startIndex = first + (l * B)
    BY <1>6, <2>1
  <2> HIDE DEF k, l, s, first, B, offset
  <2>4. B * (k + 1) <= B * l
    BY <1>1, <2>2, TimesMonotonic
  <2>5. /\ B * (k + 1) = (k * B) + B /\ B * l = l * B
        /\ k * B \in Nat /\ l * B \in Nat
    BY <1>1, <2>2
  <2> QED
    BY <1>1, <1>2, <1>5, <2>3, <2>4, <2>5
<1> QED
  BY <1>7, <1>8

-----------------------------------------------------------------------------
(* The invariant *)

\* A block of a command: its number and its address.
BlockAt(c, i) == <<i, cmd[c].startLba + i>>

Blocks(c) == {BlockAt(c, i) : i \in 0 .. cmd[c].nlb}

\* The controller counts the blocks it has not moved.
RemainingCounted ==
  /\ cmd \in [Slots -> Command \cup {NONE}]
  /\ \A c \in Slots :
       cmd[c] # NONE =>
         /\ cmd[c].moved \subseteq Blocks(c)
         /\ cmd[c].remaining > 0
         /\ cmd[c].remaining + Cardinality(cmd[c].moved) = cmd[c].nlb + 1

\* Transfer d of direction dir is of a block of a command in progress that has
\* not been moved.
CellToMove(dir, d) ==
  /\ cmd[d.cmd] # NONE /\ cmd[d.cmd].dir = dir
  /\ d.cmd4KBOffset \in 0 .. cmd[d.cmd].nlb
  /\ d.block = cmd[d.cmd].startLba + d.cmd4KBOffset
  /\ BlockAt(d.cmd, d.cmd4KBOffset) \notin cmd[d.cmd].moved

CellsToMove ==
  \A dir \in Directions, j \in Positions :
    fifo[dir].cmds[j] # NONE => CellToMove(dir, fifo[dir].cmds[j])

\* No two transfers are of the same block of a command.
CellsDiffer ==
  \A dir \in Directions, j, k \in Positions :
    LET d == fifo[dir].cmds[j]
        e == fifo[dir].cmds[k]
    IN  d # NONE /\ e # NONE /\ j # k /\ d.cmd = e.cmd
        => d.cmd4KBOffset # e.cmd4KBOffset

Waits(t) == req[t] # NONE /\ ~ IsIssued(t)

\* The blocks of a request that are still to be pushed.
ToPush(t) ==
  req[t].startIndex + Issued(t) .. req[t].startIndex + req[t].num - 1

\* They are blocks of a command in progress, neither moved nor in a FIFO.
WaitingToMove ==
  \A t \in Reqs :
    Waits(t) =>
      LET c == req[t].cmd IN
      /\ cmd[c] # NONE /\ cmd[c].dir = req[t].dir
      /\ (req[t].lsa * NVME_BLOCKS_PER_SLICE) + req[t].offset
           = cmd[c].startLba + req[t].startIndex
      /\ req[t].startIndex + req[t].num <= cmd[c].nlb + 1
      /\ \A i \in ToPush(t) : BlockAt(c, i) \notin cmd[c].moved

WaitingNotInCells ==
  \A t \in Reqs, dir \in Directions, j \in Positions :
    LET d == fifo[dir].cmds[j] IN
    Waits(t) /\ d # NONE /\ d.cmd = req[t].cmd => d.cmd4KBOffset \notin ToPush(t)

\* No two requests of a command are to push the same block.
WaitingApart ==
  \A t, u \in Reqs :
    /\ Waits(t) /\ Waits(u) /\ t # u /\ req[t].cmd = req[u].cmd
    => \/ req[t].startIndex + req[t].num <= req[u].startIndex
       \/ req[u].startIndex + req[u].num <= req[t].startIndex

Once ==
  /\ RemainingCounted /\ CellsToMove /\ CellsDiffer
  /\ WaitingToMove /\ WaitingNotInCells /\ WaitingApart

\* A command has as many blocks as it asks for.
LEMMA BlocksCounted ==
  ASSUME NEW c \in Slots, cmd[c] # NONE, RemainingCounted
  PROVE  /\ cmd[c] \in Command
         /\ IsFiniteSet(Blocks(c)) /\ Cardinality(Blocks(c)) <= cmd[c].nlb + 1
         /\ Cardinality(Blocks(c)) \in Nat
         /\ IsFiniteSet(cmd[c].moved) /\ Cardinality(cmd[c].moved) \in Nat
<1> DEFINE n == cmd[c].nlb
           f == [i \in 0 .. n |-> BlockAt(c, i)]
<1>1. cmd[c] \in Command /\ n \in Nat
  BY DEF RemainingCounted, Command
<1>2. f \in Surjection(0 .. n, Blocks(c))
  BY DEF Surjection, Blocks
<1>3. IsFiniteSet(0 .. n) /\ Cardinality(0 .. n) = n + 1
  <2>1. n \in Int /\ 0 \in Int /\ ~ (0 > n)
    BY <1>1
  <2> HIDE DEF n
  <2>2. Cardinality(0 .. n) = n - 0 + 1 /\ IsFiniteSet(0 .. n)
    BY <2>1, FS_Interval
  <2> QED
    BY <2>1, <2>2
<1> HIDE DEF f
<1>4. IsFiniteSet(Blocks(c)) /\ Cardinality(Blocks(c)) <= n + 1
  BY <1>2, <1>3, FS_Surjection
<1>5. cmd[c].moved \in SUBSET Blocks(c)
  BY DEF RemainingCounted
<1> QED
  BY <1>1, <1>4, <1>5, FS_Subset, FS_CardinalityType

\* Without commands there is nothing to move.
LEMMA NothingOnce == DmaInit => Once
<1> SUFFICES ASSUME DmaInit PROVE Once
  OBVIOUS
<1>1. /\ cmd = [c \in Slots |-> NONE] /\ req = [t \in Reqs |-> NONE]
      /\ fifo = [dir \in Directions |->
                   [tail |-> 0, overFlowCnt |-> 0, head |-> 0,
                    cmds |-> [i \in Positions |-> NONE]]]
  BY DEF DmaInit
<1>2. \A dir \in Directions, j \in Positions : fifo[dir].cmds[j] = NONE
  BY <1>1
<1>3. \A t \in Reqs : ~ Waits(t)
  BY <1>1 DEF Waits
<1>4. RemainingCounted
  BY <1>1 DEF RemainingCounted
<1> QED
  BY <1>2, <1>3, <1>4
  DEF Once, CellsToMove, CellToMove, CellsDiffer, WaitingToMove, WaitingNotInCells, WaitingApart

\* HandleNvmeIoCmd gives each slice of the command to one request.
LEMMA CommandSplit ==
  ASSUME IInv, NEW c \in Slots, NEW io \in IoCommands,
         HandleNvmeIoCmd(c, io[1], io[2], io[3]), NEW t \in Reqs
  PROVE  \/ req'[t] = req[t]
         \/ /\ req[t] = NONE
            /\ req'[t] # NONE /\ req'[t].reqTail = NONE
            /\ req'[t].cmd = c /\ req'[t].dir = io[1]
            /\ \E i \in DOMAIN Slices(io[2], io[3]) :
                 LET s == Slices(io[2], io[3])[i]
                 IN  /\ FreeReqs[i] = t
                     /\ req'[t].lsa = s.lsa /\ req'[t].offset = s.offset
                     /\ req'[t].startIndex = s.startIndex /\ req'[t].num = s.num
<1> DEFINE slices == Slices(io[2], io[3])
           free(i) == FreeReqs[i] = t
           request(s) == [cmd |-> c, dir |-> io[1], lsa |-> s.lsa,
                          startIndex |-> s.startIndex, offset |-> s.offset,
                          num |-> s.num, reqTail |-> NONE, overFlowCnt |-> NONE]
<1>1. req'[t] = IF \E i \in DOMAIN slices : free(i)
                THEN request(slices[CHOOSE i \in DOMAIN slices : free(i)])
                ELSE req[t]
  BY DEF HandleNvmeIoCmd
<1>2. CASE \E i \in DOMAIN slices : free(i)
  <2>1. PICK i \in DOMAIN slices : free(i) /\ req'[t] = request(slices[i])
    BY <1>1, <1>2
  <2>2. CASE req'[t] = req[t]
    BY <2>2
  <2>3. CASE req'[t] # req[t]
    BY <2>1, <2>3, CommandFillsFree
  <2> QED
    BY <2>2, <2>3
<1>3. CASE ~ \E i \in DOMAIN slices : free(i)
  BY <1>1, <1>3
<1> QED
  BY <1>2, <1>3

\* The requests of a new command share its blocks out among them; all others
\* belong to other commands, as the slot of the new one was free.
LEMMA CommandKeepsOnce ==
  ASSUME IInv, Once, NEW c \in Slots, NEW io \in IoCommands,
         HandleNvmeIoCmd(c, io[1], io[2], io[3])
  PROVE  Once'
<1> DEFINE slices == Slices(io[2], io[3])
           new == [dir |-> io[1], startLba |-> io[2], nlb |-> io[3],
                   remaining |-> io[3] + 1, moved |-> {}]
           Fresh(t) == req'[t] # req[t]
<1>1. io[1] \in Directions /\ io[2] \in Nat /\ io[3] \in Nat
  BY CommandAssumption
<1>2. /\ issuing = NONE /\ cmd[c] = NONE
      /\ cmd' = [cmd EXCEPT ![c] = new]
      /\ UNCHANGED <<nvmeDmaReqQ, issuing, fifo>>
  BY DEF HandleNvmeIoCmd
<1>3. new \in Command /\ new # NONE
  <2>1. new \in Command
    BY <1>1 DEF Command
  <2> QED
    BY <2>1, NoneAssumption
<1>4. /\ cmd'[c] = new /\ \A e \in Slots : e # c => cmd'[e] = cmd[e]
      /\ cmd' \in [Slots -> Command \cup {NONE}]
  BY <1>2, <1>3 DEF Once, RemainingCounted
<1>5. /\ new.dir = io[1] /\ new.startLba = io[2] /\ new.nlb = io[3]
      /\ new.remaining = io[3] + 1 /\ new.moved = {}
  OBVIOUS
<1> HIDE DEF new
<1>6. RemainingCounted'
  <2>1. Cardinality({}) = 0
    BY FS_EmptySet
  <2>2. \A e \in Slots : e # c => (Blocks(e)' = Blocks(e))
    BY <1>4 DEF Blocks, BlockAt
  <2> SUFFICES ASSUME NEW e \in Slots, cmd'[e] # NONE
               PROVE  /\ cmd'[e].moved \subseteq Blocks(e)'
                      /\ cmd'[e].remaining > 0
                      /\ cmd'[e].remaining + Cardinality(cmd'[e].moved)
                           = cmd'[e].nlb + 1
    BY <1>4 DEF RemainingCounted
  <2>3. CASE e = c
    <3>1. cmd'[e].moved = {} /\ cmd'[e].remaining = io[3] + 1 /\ cmd'[e].nlb = io[3]
      BY <1>4, <1>5, <2>3
    <3>2. Cardinality(cmd'[e].moved) = 0
      BY <2>1, <3>1
    <3> QED
      BY <1>1, <3>1, <3>2
  <2>4. CASE e # c
    BY <1>4, <2>2, <2>4 DEF Once, RemainingCounted
  <2> QED
    BY <2>3, <2>4
<1>7. \A dir \in Directions, j \in Positions :
        fifo[dir].cmds[j] # NONE =>
          fifo[dir].cmds[j].cmd \in Slots /\ fifo[dir].cmds[j].cmd # c
  BY <1>2, NoneAssumption DEF Once, CellsToMove, CellToMove, IInv, Shape, Fifo, Transfer
<1>8. CellsToMove' /\ CellsDiffer'
  <2>1. CellsToMove'
    <3> SUFFICES ASSUME NEW dir \in Directions, NEW j \in Positions,
                        NEW d, d = fifo'[dir].cmds[j], d # NONE
                 PROVE  CellToMove(dir, d)'
      BY DEF CellsToMove
    <3>1. d = fifo[dir].cmds[j] /\ d.cmd # c /\ d.cmd \in Slots
      BY <1>2, <1>7
    <3>2. cmd'[d.cmd] = cmd[d.cmd]
      BY <1>4, <3>1
    <3>3. CellToMove(dir, d)
      BY <3>1 DEF Once, CellsToMove
    <3> QED
      BY <3>2, <3>3 DEF CellToMove, BlockAt
  <2>2. CellsDiffer'
    BY <1>2 DEF Once, CellsDiffer
  <2> QED
    BY <2>1, <2>2
<1>9. ASSUME NEW t \in Reqs, Waits(t)', ~ Fresh(t)
      PROVE  /\ Waits(t) /\ req'[t] = req[t] /\ ToPush(t)' = ToPush(t)
             /\ req[t].cmd \in Slots /\ req[t].cmd # c
  <2>1. Waits(t) /\ req'[t] = req[t] /\ ToPush(t)' = ToPush(t)
    BY <1>2, <1>9 DEF Waits, IsIssued, ToPush, Issued
  <2>2. req[t].cmd \in Slots
    BY <2>1 DEF Waits, IInv, Shape, Request
  <2> QED
    BY <1>2, <2>1, <2>2 DEF Once, WaitingToMove
<1>10. ASSUME NEW t \in Reqs, Fresh(t)
       PROVE  /\ req'[t].cmd = c /\ req'[t].dir = io[1]
              /\ ToPush(t)' \subseteq Nat
              /\ \E i \in DOMAIN slices :
                   /\ FreeReqs[i] = t
                   /\ req'[t].startIndex = slices[i].startIndex
                   /\ req'[t].num = slices[i].num
              /\ req'[t].startIndex \in Nat /\ req'[t].num \in Nat \ {0}
              /\ (req'[t].lsa * NVME_BLOCKS_PER_SLICE) + req'[t].offset
                   = io[2] + req'[t].startIndex
              /\ req'[t].startIndex + req'[t].num <= io[3] + 1
  <2>1. req'[t].cmd = c /\ req'[t].dir = io[1]
    BY <1>10, CommandSplit
  <2>2. PICK i \in DOMAIN slices :
          /\ FreeReqs[i] = t
          /\ req'[t].lsa = slices[i].lsa /\ req'[t].offset = slices[i].offset
          /\ req'[t].startIndex = slices[i].startIndex
          /\ req'[t].num = slices[i].num
    BY <1>10, CommandSplit
  <2>3. /\ slices[i].startIndex \in Nat /\ slices[i].num \in Nat \ {0}
        /\ (slices[i].lsa * NVME_BLOCKS_PER_SLICE) + slices[i].offset
             = io[2] + slices[i].startIndex
        /\ slices[i].startIndex + slices[i].num <= io[3] + 1
    BY <1>1, SlicesInPlace
  <2>4. ToPush(t)' \subseteq Nat
    BY <1>2, <2>2, <2>3 DEF ToPush, Issued
  <2> HIDE DEF slices
  <2> QED
    BY <2>1, <2>2, <2>3, <2>4
<1> HIDE DEF Fresh, slices
<1>11. WaitingToMove'
  <2> SUFFICES ASSUME NEW t \in Reqs, Waits(t)', NEW e, e = req'[t].cmd
               PROVE  /\ cmd'[e] # NONE /\ cmd'[e].dir = req'[t].dir
                      /\ (req'[t].lsa * NVME_BLOCKS_PER_SLICE) + req'[t].offset
                           = cmd'[e].startLba + req'[t].startIndex
                      /\ req'[t].startIndex + req'[t].num <= cmd'[e].nlb + 1
                      /\ \A i \in ToPush(t)' :
                           <<i, cmd'[e].startLba + i>> \notin cmd'[e].moved
    BY DEF WaitingToMove, BlockAt
  <2>1. CASE Fresh(t)
    BY <1>3, <1>4, <1>5, <1>10, <2>1
  <2>2. CASE ~ Fresh(t)
    <3>1. /\ Waits(t) /\ req'[t] = req[t] /\ ToPush(t)' = ToPush(t)
          /\ e \in Slots /\ e # c /\ e = req[t].cmd
      BY <1>9, <2>2
    <3>2. cmd'[e] = cmd[e]
      BY <1>4, <3>1
    <3> QED
      BY <3>1, <3>2 DEF Once, WaitingToMove, BlockAt
  <2> QED
    BY <2>1, <2>2
<1>12. WaitingNotInCells'
  <2> SUFFICES ASSUME NEW t \in Reqs, NEW dir \in Directions, NEW j \in Positions,
                      Waits(t)', fifo[dir].cmds[j] # NONE,
                      fifo[dir].cmds[j].cmd = req'[t].cmd
               PROVE  fifo[dir].cmds[j].cmd4KBOffset \notin ToPush(t)'
    BY <1>2 DEF WaitingNotInCells
  <2>1. ~ Fresh(t)
    BY <1>7, <1>10
  <2>2. Waits(t) /\ req'[t] = req[t] /\ ToPush(t)' = ToPush(t)
    BY <1>9, <2>1
  <2> QED
    BY <2>2 DEF Once, WaitingNotInCells
<1>13. WaitingApart'
  <2> SUFFICES ASSUME NEW t \in Reqs, NEW u \in Reqs, Waits(t)', Waits(u)', t # u,
                      req'[t].cmd = req'[u].cmd
               PROVE  \/ req'[t].startIndex + req'[t].num <= req'[u].startIndex
                      \/ req'[u].startIndex + req'[u].num <= req'[t].startIndex
    BY DEF WaitingApart
  <2>1. CASE Fresh(t) /\ Fresh(u)
    <3>1. PICK i \in DOMAIN slices :
            /\ FreeReqs[i] = t
            /\ req'[t].startIndex = slices[i].startIndex
            /\ req'[t].num = slices[i].num
      BY <1>10, <2>1
    <3>2. PICK j \in DOMAIN slices :
            /\ FreeReqs[j] = u
            /\ req'[u].startIndex = slices[j].startIndex
            /\ req'[u].num = slices[j].num
      BY <1>10, <2>1
    <3>3. i \in Nat /\ j \in Nat /\ i # j
      <4>1. /\ Len(slices) \in Nat /\ DOMAIN slices = 1 .. Len(slices)
        BY <1>1, SlicesAreNumbered DEF slices
      <4>2. i \in Nat /\ j \in Nat
        BY <4>1
      <4>3. i # j
        BY <3>1, <3>2
      <4> QED
        BY <4>2, <4>3
    <3>4. /\ i < j => slices[i].startIndex + slices[i].num <= slices[j].startIndex
          /\ j < i => slices[j].startIndex + slices[j].num <= slices[i].startIndex
      BY <1>1, SlicesApart DEF slices
    <3> QED
      BY <3>1, <3>2, <3>3, <3>4
  <2>2. CASE ~ (Fresh(t) /\ Fresh(u))
    <3>1. ~ Fresh(t) /\ ~ Fresh(u)
      BY <1>9, <1>10, <2>2
    <3>2. Waits(t) /\ req'[t] = req[t] /\ Waits(u) /\ req'[u] = req[u]
      BY <1>9, <3>1
    <3> QED
      BY <3>2 DEF Once, WaitingApart
  <2> QED
    BY <2>1, <2>2
<1> QED
  BY <1>6, <1>8, <1>11, <1>12, <1>13 DEF Once

\* A step that leaves the commands and the FIFOs alone keeps what is said of them.
LEMMA SameCells ==
  ASSUME RemainingCounted, CellsToMove, CellsDiffer, UNCHANGED <<cmd, fifo>>
  PROVE  RemainingCounted' /\ CellsToMove' /\ CellsDiffer'
<1>1. cmd' = cmd /\ fifo' = fifo
  OBVIOUS
<1>2. RemainingCounted'
  BY <1>1 DEF RemainingCounted, Blocks, BlockAt
<1>3. CellsToMove'
  <2> SUFFICES ASSUME NEW dir \in Directions, NEW j \in Positions,
                      NEW d, d = fifo'[dir].cmds[j], d # NONE
               PROVE  CellToMove(dir, d)'
    BY DEF CellsToMove
  <2>1. CellToMove(dir, d)
    BY <1>1 DEF CellsToMove
  <2> QED
    BY <1>1, <2>1 DEF CellToMove, BlockAt
<1>4. CellsDiffer'
  BY <1>1 DEF CellsDiffer
<1> QED
  BY <1>2, <1>3, <1>4

\* A request that is selected has all its blocks left to push.
LEMMA SelectionKeepsOnce ==
  ASSUME IInv, Once, NEW t \in Reqs, SelectLowLevelReqQ(t)
  PROVE  Once'
<1>1. /\ issuing = NONE /\ issuing' = [req |-> t, done |-> 0]
      /\ UNCHANGED <<cmd, req, nvmeDmaReqQ, fifo>>
  BY DEF SelectLowLevelReqQ
<1>2. ASSUME NEW u \in Reqs
      PROVE  (Waits(u)' <=> Waits(u)) /\ ToPush(u)' = ToPush(u)
  BY <1>1 DEF Waits, IsIssued, ToPush, Issued
<1>3. RemainingCounted' /\ CellsToMove' /\ CellsDiffer'
  BY <1>1, SameCells DEF Once
<1>4. WaitingToMove'
  BY <1>1, <1>2 DEF Once, WaitingToMove, BlockAt
<1>5. WaitingNotInCells'
  BY <1>1, <1>2 DEF Once, WaitingNotInCells
<1>6. WaitingApart'
  BY <1>1, <1>2 DEF Once, WaitingApart
<1> QED
  BY <1>3, <1>4, <1>5, <1>6 DEF Once

\* CheckDoneNvmeDmaReq takes away no request with a block left to push.
LEMMA ReleaseKeepsOnce ==
  ASSUME IInv, Once, CheckDoneNvmeDmaReq
  PROVE  Once'
<1>1. /\ UNCHANGED <<cmd, issuing, fifo>>
      /\ req' = [t \in Reqs |-> IF t \in DoneReqs THEN NONE ELSE req[t]]
  BY DEF CheckDoneNvmeDmaReq
<1>2. ASSUME NEW u \in Reqs, Waits(u)'
      PROVE  Waits(u) /\ req'[u] = req[u] /\ ToPush(u)' = ToPush(u)
  BY <1>1, <1>2 DEF Waits, IsIssued, ToPush, Issued
<1>3. RemainingCounted' /\ CellsToMove' /\ CellsDiffer'
  BY <1>1, SameCells DEF Once
<1>4. WaitingToMove'
  BY <1>1, <1>2 DEF Once, WaitingToMove, BlockAt
<1>5. WaitingNotInCells'
  BY <1>1, <1>2 DEF Once, WaitingNotInCells
<1>6. WaitingApart'
  BY <1>1, <1>2 DEF Once, WaitingApart
<1> QED
  BY <1>3, <1>4, <1>5, <1>6 DEF Once

\* The transfer SetAutoDma pushes is of the next block of its request.
LEMMA BlockToPush ==
  ASSUME IInv, Once, SetAutoDma, NEW t, t = issuing.req, ~ IsIssued(t),
         NEW dir, dir = req[t].dir
  PROVE  LET d == fifo'[dir].cmds[fifo[dir].tail]
         IN  /\ d.cmd = req[t].cmd
             /\ d.cmd4KBOffset = req[t].startIndex + issuing.done
             /\ d.cmd4KBOffset \in ToPush(t)
             /\ d.block = cmd[d.cmd].startLba + d.cmd4KBOffset
             /\ issuing.done + 1 <= req[t].num
             /\ Waits(t) /\ cmd' = cmd
<1> DEFINE r == req[t]
           f == fifo[dir]
           transfer == [cmd |-> r.cmd, req |-> t,
                        cmd4KBOffset |-> r.startIndex + issuing.done,
                        block |-> r.lsa * NVME_BLOCKS_PER_SLICE + r.offset
                                    + issuing.done]
           g == Pushed(f, transfer)
           base == r.lsa * NVME_BLOCKS_PER_SLICE
<1>1. /\ t \in Reqs /\ issuing.done \in Nat
      /\ issuing.done < r.num /\ Waits(t) /\ r \in Request
  <2>1. issuing \in Issuing
    BY DEF SetAutoDma, IInv, Shape
  <2>2. t \in Reqs /\ issuing.done \in Nat
    BY <2>1 DEF Issuing
  <2>3. req[t] # NONE /\ issuing.done < r.num
    BY DEF SetAutoDma, IInv, IssuingWithin
  <2> QED
    BY <2>2, <2>3 DEF IInv, Shape, Waits
<1>2. /\ r.num \in Nat /\ r.startIndex \in Nat /\ r.offset \in Nat
      /\ base \in Nat /\ dir \in Directions /\ r.cmd \in Slots
  BY <1>1, SliceAssumption DEF Request
<1>3. /\ fifo' = [fifo EXCEPT ![dir] = g] /\ cmd' = cmd
  BY DEF SetAutoDma
<1>4. f \in Fifo /\ fifo \in [Directions -> Fifo]
  BY <1>2 DEF IInv, Shape
<1>5. g.cmds = [f.cmds EXCEPT ![f.tail] = transfer]
  <2> HIDE DEF transfer
  <2> QED
    BY <1>4, PushCounts
<1>6. fifo'[dir].cmds[f.tail] = transfer
  BY <1>2, <1>3, <1>4, <1>5 DEF Fifo
<1>7. /\ transfer.cmd = r.cmd /\ transfer.cmd4KBOffset = r.startIndex + issuing.done
      /\ transfer.block = base + r.offset + issuing.done
  OBVIOUS
<1>8. Issued(t) = issuing.done
  BY DEF Issued, SetAutoDma
<1>9. /\ base + r.offset = cmd[r.cmd].startLba + r.startIndex
      /\ cmd[r.cmd].startLba \in Nat
  <2>1. base + r.offset = cmd[r.cmd].startLba + r.startIndex /\ cmd[r.cmd] # NONE
    BY <1>1 DEF Once, WaitingToMove
  <2> QED
    BY <1>2, <2>1 DEF Once, RemainingCounted, Command
<1> HIDE DEF transfer, base
<1>10. transfer.cmd4KBOffset \in ToPush(t)
  BY <1>1, <1>2, <1>7, <1>8 DEF ToPush
<1>11. transfer.block = cmd[r.cmd].startLba + transfer.cmd4KBOffset
  <2> HIDE DEF r
  <2> QED
    BY <1>1, <1>2, <1>7, <1>9
<1> HIDE DEF r, f
<1>12. /\ fifo'[dir].cmds[fifo[dir].tail] = transfer
       /\ transfer.cmd = req[t].cmd
       /\ transfer.cmd4KBOffset = req[t].startIndex + issuing.done
       /\ transfer.block = cmd[transfer.cmd].startLba + transfer.cmd4KBOffset
       /\ issuing.done + 1 <= req[t].num
  BY <1>1, <1>2, <1>6, <1>7, <1>11 DEF r, f
<1> QED
  BY <1>1, <1>3, <1>10, <1>12

\* A block that is pushed is one that waited, and waits no more.
LEMMA PushKeepsOnce ==
  ASSUME IInv, Exact, Once, SetAutoDma
  PROVE  Once'
<1>1. PICK t, dir, f, g : \E last \in BOOLEAN : PushesTo(t, dir, f, g, last)
  BY PushDoes
<1>2. PICK last \in BOOLEAN : PushesTo(t, dir, f, g, last)
  BY <1>1
<1> DEFINE new == g.cmds[f.tail]
<1>3. /\ t \in Reqs /\ dir \in Directions /\ t = issuing.req /\ ~ IsIssued(t)
      /\ dir = req[t].dir /\ f = fifo[dir] /\ g = fifo'[dir]
      /\ f.tail \in Positions /\ issuing.done \in Nat
      /\ issuing # NONE
  BY <1>2 DEF PushesTo
<1>4. /\ new.cmd = req[t].cmd /\ new.cmd4KBOffset = req[t].startIndex + issuing.done
      /\ new.cmd4KBOffset \in ToPush(t)
      /\ new.block = cmd[new.cmd].startLba + new.cmd4KBOffset
      /\ issuing.done + 1 <= req[t].num
      /\ Waits(t) /\ cmd' = cmd
  <2>1. fifo'[dir].cmds[fifo[dir].tail] = new
    BY <1>3
  <2> HIDE DEF new
  <2> QED
    BY <1>3, <2>1, BlockToPush
<1>5. /\ \A j \in Positions : j # f.tail => g.cmds[j] = f.cmds[j]
      /\ \A d \in Directions : d # dir => fifo'[d] = fifo[d]
  BY <1>2 DEF PushesTo
<1> HIDE DEF new
<1>6. ASSUME NEW d \in Directions, NEW j \in Positions
      PROVE  IF d = dir /\ j = f.tail THEN fifo'[d].cmds[j] = new
             ELSE fifo'[d].cmds[j] = fifo[d].cmds[j]
  BY <1>3, <1>5 DEF new
<1>7. /\ cmd[req[t].cmd] # NONE /\ cmd[req[t].cmd].dir = dir
      /\ req[t].startIndex + req[t].num <= cmd[req[t].cmd].nlb + 1
      /\ \A i \in ToPush(t) : BlockAt(req[t].cmd, i) \notin cmd[req[t].cmd].moved
  BY <1>3, <1>4 DEF Once, WaitingToMove
<1>8. req[t] \in Request /\ req[t].startIndex \in Nat /\ req[t].num \in Nat
      /\ cmd[req[t].cmd] \in Command /\ cmd[req[t].cmd].nlb \in Nat
  <2>1. req[t] \in Request
    BY <1>3, <1>4 DEF Waits, IInv, Shape
  <2>2. req[t].startIndex \in Nat /\ req[t].num \in Nat /\ req[t].cmd \in Slots
    BY <2>1, SliceAssumption DEF Request
  <2>3. cmd[req[t].cmd] \in Command
    BY <1>7, <2>2 DEF Once, RemainingCounted
  <2> QED
    BY <2>1, <2>2, <2>3 DEF Command
<1>9. ToPush(t) = req[t].startIndex + issuing.done
                    .. req[t].startIndex + req[t].num - 1
  BY <1>3 DEF ToPush, Issued
<1>10. ASSUME NEW u \in Reqs, Waits(u)'
       PROVE  /\ Waits(u) /\ req'[u] = req[u] /\ ToPush(u)' \subseteq ToPush(u)
              /\ u = t => new.cmd4KBOffset \notin ToPush(u)'
  <2>1. CASE u = t
    <3>1. ~ last
      <4>1. CASE last
        BY <1>2, <1>10, <2>1, <4>1 DEF PushesTo, Waits, IsIssued
      <4> QED
        BY <4>1
    <3>2. issuing' = [req |-> t, done |-> issuing.done + 1] /\ req' = req
      BY <1>2, <3>1 DEF PushesTo
    <3>3. issuing' # NONE
      <4>1. issuing' \in Issuing
        BY <1>3, <3>2 DEF Issuing
      <4> QED
        BY <4>1, NoneAssumption
    <3>4. ToPush(t)' = req[t].startIndex + (issuing.done + 1)
                         .. req[t].startIndex + req[t].num - 1
      BY <3>2, <3>3 DEF ToPush, Issued
    <3> QED
      BY <1>3, <1>4, <1>8, <1>9, <2>1, <3>2, <3>4
  <2>2. CASE u # t
    <3>1. req'[u] = req[u]
      BY <1>2, <2>2 DEF PushesTo
    <3>2. Issued(u) = 0 /\ Issued(u)' = 0
      <4>1. CASE last
        BY <1>2, <1>3, <2>2, <4>1 DEF PushesTo, Issued
      <4>2. CASE ~ last
        BY <1>2, <1>3, <2>2, <4>2 DEF PushesTo, Issued
      <4> QED
        BY <4>1, <4>2
    <3> QED
      BY <1>10, <2>2, <3>1, <3>2 DEF Waits, IsIssued, ToPush
  <2> QED
    BY <2>1, <2>2
<1>11. RemainingCounted'
  BY <1>4 DEF Once, RemainingCounted, Blocks, BlockAt
<1>12. CellsToMove'
  <2> SUFFICES ASSUME NEW d \in Directions, NEW j \in Positions,
                      NEW e, e = fifo'[d].cmds[j], e # NONE
               PROVE  /\ cmd[e.cmd] # NONE /\ cmd[e.cmd].dir = d
                      /\ e.cmd4KBOffset \in 0 .. cmd[e.cmd].nlb
                      /\ e.block = cmd[e.cmd].startLba + e.cmd4KBOffset
                      /\ BlockAt(e.cmd, e.cmd4KBOffset) \notin cmd[e.cmd].moved
    BY <1>4 DEF CellsToMove, CellToMove, BlockAt
  <2>1. CASE d = dir /\ j = f.tail
    <3>1. e = new
      BY <1>6, <2>1
    <3>2. new.cmd4KBOffset \in 0 .. cmd[new.cmd].nlb
      BY <1>3, <1>4, <1>7, <1>8
    <3> QED
      BY <1>4, <1>7, <2>1, <3>1, <3>2
  <2>2. CASE ~ (d = dir /\ j = f.tail)
    BY <1>6, <2>2 DEF Once, CellsToMove, CellToMove
  <2> QED
    BY <2>1, <2>2
<1>13. \A j \in Positions :
         f.cmds[j] # NONE /\ f.cmds[j].cmd = new.cmd
         => f.cmds[j].cmd4KBOffset # new.cmd4KBOffset
  BY <1>3, <1>4 DEF Once, WaitingNotInCells
<1>14. CellsDiffer'
  <2> SUFFICES ASSUME NEW d \in Directions, NEW j \in Positions, NEW k \in Positions,
                      NEW e, e = fifo'[d].cmds[j], NEW h, h = fifo'[d].cmds[k],
                      e # NONE, h # NONE, j # k, e.cmd = h.cmd
               PROVE  e.cmd4KBOffset # h.cmd4KBOffset
    BY DEF CellsDiffer
  <2>1. CASE d = dir /\ j = f.tail
    <3>1. e = new /\ h = f.cmds[k]
      BY <1>3, <1>6, <2>1
    <3> QED
      BY <1>13, <3>1
  <2>2. CASE d = dir /\ k = f.tail
    <3>1. h = new /\ e = f.cmds[j]
      BY <1>3, <1>6, <2>2
    <3> QED
      BY <1>13, <3>1
  <2>3. CASE ~ (d = dir /\ j = f.tail) /\ ~ (d = dir /\ k = f.tail)
    <3>1. e = fifo[d].cmds[j] /\ h = fifo[d].cmds[k]
      BY <1>6, <2>3
    <3> QED
      BY <3>1 DEF Once, CellsDiffer
  <2> QED
    BY <2>1, <2>2, <2>3
<1>15. WaitingToMove' /\ WaitingApart'
  BY <1>4, <1>10 DEF Once, WaitingToMove, WaitingApart, BlockAt
<1>16. WaitingNotInCells'
  <2> SUFFICES ASSUME NEW u \in Reqs, NEW d \in Directions, NEW j \in Positions,
                      NEW e, e = fifo'[d].cmds[j],
                      Waits(u)', e # NONE, e.cmd = req'[u].cmd
               PROVE  e.cmd4KBOffset \notin ToPush(u)'
    BY DEF WaitingNotInCells
  <2>1. Waits(u) /\ req'[u] = req[u] /\ ToPush(u)' \subseteq ToPush(u)
    BY <1>10
  <2>2. CASE d = dir /\ j = f.tail
    <3>1. e = new
      BY <1>6, <2>2
    <3>2. CASE u = t
      BY <1>10, <3>1, <3>2
    <3>3. CASE u # t
      <4>1. req[u].cmd = req[t].cmd
        BY <1>4, <2>1, <3>1
      <4>2. \/ req[t].startIndex + req[t].num <= req[u].startIndex
            \/ req[u].startIndex + req[u].num <= req[t].startIndex
        BY <1>3, <1>4, <2>1, <3>3, <4>1 DEF Once, WaitingApart
      <4>3. Issued(u) = 0 /\ req[u].startIndex \in Nat /\ req[u].num \in Nat
        <5>1. req[u] \in Request
          BY <2>1 DEF Waits, IInv, Shape
        <5> QED
          BY <1>3, <3>3, <5>1, SliceAssumption DEF Request, Issued
      <4>4. ToPush(u) = req[u].startIndex .. req[u].startIndex + req[u].num - 1
        BY <4>3 DEF ToPush
      <4>5. new.cmd4KBOffset \notin ToPush(u)
        <5> DEFINE x == new.cmd4KBOffset
                   a == req[t].startIndex + req[t].num
                   b == req[u].startIndex + req[u].num
        <5>1. x \in Nat /\ req[t].startIndex <= x /\ x < a /\ a \in Nat
          BY <1>3, <1>4, <1>8
        <5>2. a <= req[u].startIndex \/ b <= req[t].startIndex
          BY <4>2
        <5>3. ToPush(u) = req[u].startIndex .. b - 1 /\ b \in Nat
          BY <4>3, <4>4
        <5> HIDE DEF x, a, b
        <5>4. x \notin ToPush(u)
          BY <1>8, <4>3, <5>1, <5>2, <5>3
        <5> QED
          BY <5>4 DEF x
      <4> QED
        BY <2>1, <3>1, <4>5
    <3> QED
      BY <3>2, <3>3
  <2>3. CASE ~ (d = dir /\ j = f.tail)
    <3>1. e = fifo[d].cmds[j]
      BY <1>6, <2>3
    <3> QED
      BY <2>1, <3>1 DEF Once, WaitingNotInCells
  <2> QED
    BY <2>2, <2>3
<1> QED
  BY <1>11, <1>12, <1>14, <1>15, <1>16 DEF Once

\* When one block is left to move, it is the only one not moved.
LEMMA LastBlock ==
  ASSUME NEW c \in Slots, cmd[c] # NONE, RemainingCounted, cmd[c].remaining = 1,
         NEW b \in Blocks(c), b \notin cmd[c].moved
  PROVE  cmd[c].moved \cup {b} = Blocks(c)
<1> DEFINE S == Blocks(c)
           T == cmd[c].moved
           n == cmd[c].nlb
<1>1. /\ IsFiniteSet(S) /\ Cardinality(S) <= n + 1 /\ Cardinality(S) \in Nat
      /\ IsFiniteSet(T) /\ Cardinality(T) \in Nat /\ n \in Nat
  BY BlocksCounted DEF Command
<1>2. 1 + Cardinality(T) = n + 1 /\ T \subseteq S /\ b \in S /\ b \notin T
  BY DEF RemainingCounted
<1> HIDE DEF S, T, n
<1>3. T \cup {b} \in SUBSET S /\ Cardinality(T \cup {b}) = Cardinality(T) + 1
  BY <1>1, <1>2, FS_AddElement
<1>4. /\ Cardinality(T \cup {b}) <= Cardinality(S)
      /\ Cardinality(S) = Cardinality(T \cup {b}) => S = T \cup {b}
  BY <1>1, <1>3, FS_Subset
<1>5. Cardinality(S) = Cardinality(T \cup {b})
  BY <1>1, <1>2, <1>3, <1>4
<1> QED
  BY <1>4, <1>5 DEF S, T

\* What HandleDmaReq does with the transfer d at the head of a FIFO.
LEMMA BlockToMove ==
  ASSUME IInv, Exact, Once, NEW dir \in Directions, HandleDmaReq(dir),
         NEW d, d = fifo[dir].cmds[fifo[dir].head],
         NEW b, b = <<d.cmd4KBOffset, d.block>>
  PROVE  /\ d # NONE /\ d.cmd \in Slots /\ cmd[d.cmd] # NONE /\ cmd[d.cmd].dir = dir
         /\ fifo[dir].head \in Positions
         /\ b = BlockAt(d.cmd, d.cmd4KBOffset)
         /\ b \in Blocks(d.cmd) /\ b \notin cmd[d.cmd].moved
         /\ cmd' \in [Slots -> Command \cup {NONE}]
         /\ \A c \in Slots : c # d.cmd => cmd'[c] = cmd[c]
         /\ IsLast(d.cmd) =>
              cmd'[d.cmd] = NONE /\ cmd[d.cmd].moved \cup {b} = Blocks(d.cmd)
         /\ ~ IsLast(d.cmd) =>
              /\ cmd'[d.cmd] \in Command
              /\ cmd'[d.cmd].dir = cmd[d.cmd].dir
              /\ cmd'[d.cmd].startLba = cmd[d.cmd].startLba
              /\ cmd'[d.cmd].nlb = cmd[d.cmd].nlb
              /\ cmd'[d.cmd].remaining = cmd[d.cmd].remaining - 1
              /\ cmd'[d.cmd].remaining > 0
              /\ cmd'[d.cmd].moved = cmd[d.cmd].moved \cup {b}
         /\ req' = req /\ issuing' = issuing
         /\ fifo'[dir].cmds[fifo[dir].head] = NONE
         /\ \A e \in Directions, j \in Positions :
              ~ (e = dir /\ j = fifo[dir].head)
              => fifo'[e].cmds[j] = fifo[e].cmds[j]
<1> DEFINE f == fifo[dir]
           c == d.cmd
           g == [f EXCEPT !.head = (@ + 1) % FIFO_SIZE, !.cmds[f.head] = NONE]
           y == [cmd[c] EXCEPT !.remaining = @ - 1, !.moved = @ \cup {b}]
<1>1. /\ f.head # f.tail
      /\ cmd' = IF IsLast(c) THEN [cmd EXCEPT ![c] = NONE]
                ELSE [cmd EXCEPT ![c].remaining = @ - 1, ![c].moved = @ \cup {b}]
      /\ fifo' = [fifo EXCEPT ![dir] = g]
      /\ UNCHANGED <<req, issuing>>
  BY DEF HandleDmaReq
<1>2. f \in Fifo /\ fifo \in [Directions -> Fifo] /\ f.head \in Positions
      /\ f.cmds \in [Positions -> Transfer \cup {NONE}]
  BY DEF IInv, Shape, Fifo
<1>3. g.cmds = [f.cmds EXCEPT ![f.head] = NONE]
  BY <1>2 DEF Fifo
<1>4. /\ fifo'[dir].cmds[f.head] = NONE
      /\ \A e \in Directions, j \in Positions :
           ~ (e = dir /\ j = f.head) => fifo'[e].cmds[j] = fifo[e].cmds[j]
  <2>1. fifo'[dir] = g /\ \A e \in Directions : e # dir => fifo'[e] = fifo[e]
    BY <1>1, <1>2
  <2> HIDE DEF g
  <2> QED
    BY <1>2, <1>3, <2>1
<1>5. d # NONE
  <2>1. Age(f, f.head) = Held(f)
    <3>1. g \in Fifo
      <4>1. fifo'[dir] \in Fifo
        BY BlockMoved DEF IInv, Shape
      <4> QED
        BY <1>1, <1>2, <4>1
    <3>2. g.head = (f.head + 1) % FIFO_SIZE /\ g.tail = f.tail
      BY <1>2 DEF Fifo
    <3> HIDE DEF f, g
    <3> QED
      BY <1>1, <1>2, <3>1, <3>2, MoveAges
  <2>2. Held(f) \in Nat
    BY <1>2, AgesDiffer
  <2> QED
    BY <1>2, <2>1, <2>2 DEF Exact, CellsHeld
<1>6. /\ c \in Slots /\ d.cmd4KBOffset \in Nat
  BY <1>2, <1>5 DEF Transfer
<1>7. /\ cmd[c] # NONE /\ cmd[c].dir = dir
      /\ d.cmd4KBOffset \in 0 .. cmd[c].nlb
      /\ d.block = cmd[c].startLba + d.cmd4KBOffset
      /\ BlockAt(c, d.cmd4KBOffset) \notin cmd[c].moved
  BY <1>2, <1>5 DEF Once, CellsToMove, CellToMove
<1>8. b = BlockAt(c, d.cmd4KBOffset) /\ b \in Blocks(c) /\ b \notin cmd[c].moved
  BY <1>7 DEF Blocks, BlockAt
<1>9. \A e \in Slots : e # c => cmd'[e] = cmd[e]
  BY <1>1 DEF Once, RemainingCounted
<1>10. req' = req /\ issuing' = issuing
  BY <1>1
<1>11. ASSUME IsLast(c)
       PROVE  cmd'[c] = NONE /\ cmd[c].moved \cup {b} = Blocks(c)
  <2>1. cmd'[c] = NONE
    BY <1>1, <1>6, <1>11 DEF Once, RemainingCounted
  <2>2. cmd[c].moved \cup {b} = Blocks(c)
    BY <1>6, <1>7, <1>8, <1>11, LastBlock DEF Once, IsLast
  <2> QED
    BY <2>1, <2>2
<1>12. ASSUME ~ IsLast(c)
       PROVE  /\ cmd'[c] \in Command
              /\ cmd'[c].dir = cmd[c].dir /\ cmd'[c].startLba = cmd[c].startLba
              /\ cmd'[c].nlb = cmd[c].nlb
              /\ cmd'[c].remaining = cmd[c].remaining - 1
              /\ cmd'[c].remaining > 0
              /\ cmd'[c].moved = cmd[c].moved \cup {b}
  <2> DEFINE x == cmd[c]
  <2>1. x \in Command /\ x.remaining > 0
    BY <1>6, <1>7 DEF Once, RemainingCounted
  <2>2. x.remaining # 1
    BY <1>12 DEF IsLast
  <2>3. cmd' = [cmd EXCEPT ![c] = y]
    BY <1>1, <1>12
  <2>4. b \in Nat \X Nat
    <3>1. x.startLba \in Nat
      BY <2>1 DEF Command
    <3> QED
      BY <1>6, <1>8, <3>1 DEF BlockAt
  <2>0. y = [x EXCEPT !.remaining = @ - 1, !.moved = @ \cup {b}]
    OBVIOUS
  <2> HIDE DEF x, y
  <2>5. /\ y.dir = x.dir /\ y.startLba = x.startLba /\ y.nlb = x.nlb
        /\ y.remaining = x.remaining - 1 /\ y.moved = x.moved \cup {b}
    BY <2>0, <2>1 DEF Command
  <2>6. y.remaining \in Nat /\ y.remaining > 0
    <3>1. x.remaining \in Nat
      BY <2>1 DEF Command
    <3> QED
      BY <2>1, <2>2, <2>5, <3>1
  <2>7. y.moved \in SUBSET (Nat \X Nat)
    <3>1. x.moved \in SUBSET (Nat \X Nat)
      BY <2>1 DEF Command
    <3> QED
      BY <2>4, <2>5, <3>1
  <2>8. y \in Command
    <3>1. /\ x.remaining - 1 \in Nat /\ x.moved \cup {b} \in SUBSET (Nat \X Nat)
      BY <2>5, <2>6, <2>7
    <3> QED
      BY <2>0, <2>1, <3>1 DEF Command
  <2>9. cmd'[c] = y
    BY <1>6, <2>3 DEF Once, RemainingCounted
  <2> QED
    BY <2>5, <2>6, <2>8, <2>9 DEF x
<1>13. cmd' \in [Slots -> Command \cup {NONE}]
  <2>1. \A e \in Slots : cmd'[e] \in Command \cup {NONE}
    <3>1. cmd'[c] \in Command \cup {NONE}
      BY <1>11, <1>12
    <3> QED
      BY <1>9, <3>1 DEF Once, RemainingCounted
  <2>2. \E v : cmd' = [cmd EXCEPT ![c] = v]
    BY <1>1
  <2> QED
    BY <2>1, <2>2 DEF Once, RemainingCounted
<1> HIDE DEF g
<1> QED
  BY <1>2, <1>4, <1>5, <1>6, <1>7, <1>8, <1>9, <1>10, <1>11, <1>12, <1>13

\* A block that is moved was in one cell, and nothing is left of a command whose
\* last block is moved.
LEMMA MoveKeepsOnce ==
  ASSUME IInv, Exact, Once, NEW dir \in Directions, HandleDmaReq(dir)
  PROVE  Once'
<1>1. PICK h, d, c, b :
        /\ h = fifo[dir].head /\ d = fifo[dir].cmds[fifo[dir].head]
        /\ c = d.cmd /\ b = <<d.cmd4KBOffset, d.block>>
  OBVIOUS
<1>2. /\ d # NONE /\ c \in Slots /\ cmd[c] # NONE /\ cmd[c].dir = dir
      /\ h \in Positions
      /\ b = BlockAt(c, d.cmd4KBOffset)
      /\ b \in Blocks(c) /\ b \notin cmd[c].moved
      /\ cmd' \in [Slots -> Command \cup {NONE}]
      /\ \A e \in Slots : e # c => cmd'[e] = cmd[e]
      /\ IsLast(c) => cmd'[c] = NONE /\ cmd[c].moved \cup {b} = Blocks(c)
      /\ req' = req /\ issuing' = issuing
      /\ fifo'[dir].cmds[h] = NONE
      /\ \A e \in Directions, j \in Positions :
           ~ (e = dir /\ j = h) => fifo'[e].cmds[j] = fifo[e].cmds[j]
  BY <1>1, BlockToMove
<1>3. ASSUME ~ IsLast(c)
      PROVE  /\ cmd'[c] \in Command /\ cmd'[c] # NONE
             /\ cmd'[c].dir = cmd[c].dir /\ cmd'[c].startLba = cmd[c].startLba
             /\ cmd'[c].nlb = cmd[c].nlb
             /\ cmd'[c].remaining = cmd[c].remaining - 1
             /\ cmd'[c].remaining > 0
             /\ cmd'[c].moved = cmd[c].moved \cup {b}
  <2>1. /\ cmd'[c] \in Command
        /\ cmd'[c].dir = cmd[c].dir /\ cmd'[c].startLba = cmd[c].startLba
        /\ cmd'[c].nlb = cmd[c].nlb
        /\ cmd'[c].remaining = cmd[c].remaining - 1
        /\ cmd'[c].remaining > 0
        /\ cmd'[c].moved = cmd[c].moved \cup {b}
    <3>1. /\ cmd'[d.cmd] \in Command
          /\ cmd'[d.cmd].dir = cmd[d.cmd].dir
          /\ cmd'[d.cmd].startLba = cmd[d.cmd].startLba
          /\ cmd'[d.cmd].nlb = cmd[d.cmd].nlb
          /\ cmd'[d.cmd].remaining = cmd[d.cmd].remaining - 1
          /\ cmd'[d.cmd].remaining > 0
          /\ cmd'[d.cmd].moved = cmd[d.cmd].moved \cup {b}
      <4>1. ~ IsLast(d.cmd)
        BY <1>1, <1>3
      <4>2. d = fifo[dir].cmds[fifo[dir].head] /\ b = <<d.cmd4KBOffset, d.block>>
        BY <1>1
      <4>3. cmd'[d.cmd] \in Command /\ cmd'[d.cmd].dir = cmd[d.cmd].dir
        BY <4>1, <4>2, BlockToMove, SMTT(30)
      <4>4. /\ cmd'[d.cmd].startLba = cmd[d.cmd].startLba
            /\ cmd'[d.cmd].nlb = cmd[d.cmd].nlb
        BY <4>1, <4>2, BlockToMove, SMTT(30)
      <4>5. /\ cmd'[d.cmd].remaining = cmd[d.cmd].remaining - 1
            /\ cmd'[d.cmd].remaining > 0
        BY <4>1, <4>2, BlockToMove, SMTT(30)
      <4>6. cmd'[d.cmd].moved = cmd[d.cmd].moved \cup {b}
        BY <4>1, <4>2, BlockToMove, SMTT(30)
      <4> QED
        BY <4>3, <4>4, <4>5, <4>6
    <3> QED
      BY <1>1, <3>1
  <2>2. cmd'[c] # NONE
    BY <2>1, NoneAssumption
  <2> QED
    BY <2>1, <2>2
<1>4. /\ cmd[c] \in Command /\ cmd[c].remaining \in Nat
      /\ cmd[c].startLba \in Nat /\ cmd[c].nlb \in Nat
      /\ IsFiniteSet(cmd[c].moved) /\ Cardinality(cmd[c].moved) \in Nat
  <2>1. /\ cmd[c] \in Command
        /\ IsFiniteSet(cmd[c].moved) /\ Cardinality(cmd[c].moved) \in Nat
    BY <1>2, BlocksCounted DEF Once
  <2> QED
    BY <2>1 DEF Command
<1>5. RemainingCounted'
  <2>1. cmd' \in [Slots -> Command \cup {NONE}]
    BY <1>2
  <2> SUFFICES ASSUME NEW e \in Slots, cmd'[e] # NONE
               PROVE  /\ cmd'[e].moved \subseteq Blocks(e)'
                      /\ cmd'[e].remaining > 0
                      /\ cmd'[e].remaining + Cardinality(cmd'[e].moved)
                           = cmd'[e].nlb + 1
    BY <2>1 DEF RemainingCounted
  <2>2. CASE e = c
    <3>1. ~ IsLast(c)
      BY <1>2, <2>2
    <3>2. Blocks(c)' = Blocks(c)
      BY <1>3, <3>1 DEF Blocks, BlockAt
    <3>3. Cardinality(cmd'[c].moved) = Cardinality(cmd[c].moved) + 1
      BY <1>2, <1>4, <1>3, <3>1, FS_AddElement
    <3>4. /\ cmd[c].moved \subseteq Blocks(c)
          /\ cmd[c].remaining + Cardinality(cmd[c].moved) = cmd[c].nlb + 1
      BY <1>2 DEF Once, RemainingCounted
    <3> QED
      BY <1>2, <1>4, <1>3, <2>2, <3>1, <3>2, <3>3, <3>4
  <2>3. CASE e # c
    <3>1. cmd'[e] = cmd[e] /\ Blocks(e)' = Blocks(e)
      BY <1>2, <2>3 DEF Blocks, BlockAt
    <3> QED
      BY <3>1 DEF Once, RemainingCounted
  <2> QED
    BY <2>2, <2>3
<1>6. ASSUME NEW e \in Slots, cmd[e] # NONE, NEW i \in 0 .. cmd[e].nlb,
             BlockAt(e, i) \notin cmd[e].moved, e = c => i # d.cmd4KBOffset
      PROVE  /\ cmd'[e] # NONE /\ cmd'[e].dir = cmd[e].dir
             /\ cmd'[e].startLba = cmd[e].startLba /\ cmd'[e].nlb = cmd[e].nlb
             /\ <<i, cmd'[e].startLba + i>> \notin cmd'[e].moved
  <2>1. CASE e = c
    <3>1. BlockAt(c, i) # b
      BY <1>2, <1>6, <2>1 DEF BlockAt
    <3>2. BlockAt(c, i) \in Blocks(c)
      BY <1>6, <2>1 DEF Blocks
    <3>3. ~ IsLast(c)
      BY <1>2, <1>6, <2>1, <3>1, <3>2
    <3> QED
      BY <1>3, <1>6, <2>1, <3>1, <3>3 DEF BlockAt
  <2>2. CASE e # c
    BY <1>2, <1>6, <2>2 DEF BlockAt
  <2> QED
    BY <2>1, <2>2
<1>7. ASSUME NEW e \in Directions, NEW j \in Positions, fifo'[e].cmds[j] # NONE
      PROVE  /\ fifo'[e].cmds[j] = fifo[e].cmds[j] /\ fifo[e].cmds[j] # NONE
             /\ fifo[e].cmds[j].cmd \in Slots
             /\ fifo[e].cmds[j].cmd = c
                => fifo[e].cmds[j].cmd4KBOffset # d.cmd4KBOffset
  <2>1. ~ (e = dir /\ j = h)
    BY <1>2, <1>7
  <2>2. fifo'[e].cmds[j] = fifo[e].cmds[j] /\ fifo[e].cmds[j] # NONE
    BY <1>2, <1>7, <2>1
  <2>3. fifo[e].cmds[j].cmd \in Slots
    BY <2>2 DEF IInv, Shape, Fifo, Transfer
  <2>4. ASSUME fifo[e].cmds[j].cmd = c
        PROVE  fifo[e].cmds[j].cmd4KBOffset # d.cmd4KBOffset
    <3>1. e = dir
      BY <1>2, <2>2, <2>4 DEF Once, CellsToMove, CellToMove
    <3>2. j # h
      BY <2>1, <3>1
    <3>3. d = fifo[dir].cmds[h] /\ c = d.cmd
      BY <1>1
    <3>4. \A k \in Positions :
            LET x == fifo[dir].cmds[j]
                y == fifo[dir].cmds[k]
            IN  x # NONE /\ y # NONE /\ j # k /\ x.cmd = y.cmd
                => x.cmd4KBOffset # y.cmd4KBOffset
      BY DEF Once, CellsDiffer
    <3>5. /\ fifo[dir].cmds[j] # NONE /\ fifo[dir].cmds[h] # NONE
          /\ fifo[dir].cmds[j].cmd = fifo[dir].cmds[h].cmd
      BY <1>2, <2>2, <2>4, <3>1, <3>3
    <3>6. fifo[dir].cmds[j].cmd4KBOffset # fifo[dir].cmds[h].cmd4KBOffset
      BY <1>2, <3>2, <3>4, <3>5
    <3> QED
      BY <3>1, <3>3, <3>6
  <2> QED
    BY <2>2, <2>3, <2>4
<1>8. CellsToMove'
  <2> SUFFICES ASSUME NEW e \in Directions, NEW j \in Positions,
                      NEW x, x = fifo'[e].cmds[j], x # NONE
               PROVE  /\ cmd'[x.cmd] # NONE /\ cmd'[x.cmd].dir = e
                      /\ x.cmd4KBOffset \in 0 .. cmd'[x.cmd].nlb
                      /\ x.block = cmd'[x.cmd].startLba + x.cmd4KBOffset
                      /\ <<x.cmd4KBOffset, cmd'[x.cmd].startLba + x.cmd4KBOffset>>
                           \notin cmd'[x.cmd].moved
    BY DEF CellsToMove, CellToMove, BlockAt
  <2>1. /\ x = fifo[e].cmds[j] /\ x.cmd \in Slots
        /\ x.cmd = c => x.cmd4KBOffset # d.cmd4KBOffset
    BY <1>7
  <2>2. /\ cmd[x.cmd] # NONE /\ cmd[x.cmd].dir = e
        /\ x.cmd4KBOffset \in 0 .. cmd[x.cmd].nlb
        /\ x.block = cmd[x.cmd].startLba + x.cmd4KBOffset
        /\ BlockAt(x.cmd, x.cmd4KBOffset) \notin cmd[x.cmd].moved
    BY <2>1 DEF Once, CellsToMove, CellToMove
  <2>3. /\ cmd'[x.cmd] # NONE /\ cmd'[x.cmd].dir = cmd[x.cmd].dir
        /\ cmd'[x.cmd].startLba = cmd[x.cmd].startLba
        /\ cmd'[x.cmd].nlb = cmd[x.cmd].nlb
        /\ <<x.cmd4KBOffset, cmd'[x.cmd].startLba + x.cmd4KBOffset>>
             \notin cmd'[x.cmd].moved
    BY <1>6, <2>1, <2>2
  <2> QED
    BY <2>2, <2>3
<1>9. CellsDiffer'
  BY <1>7 DEF Once, CellsDiffer
<1>10. ASSUME NEW t \in Reqs
       PROVE  /\ Waits(t)' <=> Waits(t)
              /\ req'[t] = req[t] /\ ToPush(t)' = ToPush(t)
  BY <1>2 DEF Waits, IsIssued, ToPush, Issued
<1>11. ASSUME NEW t \in Reqs, Waits(t), NEW e, e = req[t].cmd
       PROVE  /\ e \in Slots /\ cmd[e] # NONE
              /\ ToPush(t) \subseteq 0 .. cmd[e].nlb
              /\ \E i \in ToPush(t) : TRUE
              /\ \A i \in ToPush(t) : /\ BlockAt(e, i) \notin cmd[e].moved
                                      /\ e = c => i # d.cmd4KBOffset
  <2>1. req[t] \in Request
    BY <1>11 DEF Waits, IInv, Shape
  <2>2. /\ e \in Slots /\ req[t].startIndex \in Nat /\ req[t].num \in Nat
        /\ req[t].num > 0
    BY <1>11, <2>1, SliceAssumption DEF Request
  <2>3. /\ cmd[e] # NONE /\ req[t].startIndex + req[t].num <= cmd[e].nlb + 1
        /\ \A i \in ToPush(t) : BlockAt(e, i) \notin cmd[e].moved
    BY <1>11 DEF Once, WaitingToMove
  <2>4. Issued(t) \in Nat /\ Issued(t) < req[t].num
    <3>1. CASE issuing # NONE /\ issuing.req = t
      BY <3>1 DEF IInv, Shape, Issuing, IssuingWithin, Issued
    <3>2. CASE ~ (issuing # NONE /\ issuing.req = t)
      BY <2>2, <3>2 DEF Issued
    <3> QED
      BY <3>1, <3>2
  <2>5. cmd[e].nlb \in Nat
    BY <2>2, <2>3 DEF Once, RemainingCounted, Command
  <2>6. ToPush(t) \subseteq 0 .. cmd[e].nlb /\ \E i \in ToPush(t) : TRUE
    <3>1. req[t].startIndex + Issued(t) \in ToPush(t)
      BY <2>2, <2>4 DEF ToPush
    <3>2. ToPush(t) \subseteq 0 .. cmd[e].nlb
      BY <2>2, <2>3, <2>4, <2>5 DEF ToPush
    <3> QED
      BY <3>1, <3>2
  <2>7. \A i \in ToPush(t) : e = c => i # d.cmd4KBOffset
    <3>1. d = fifo[dir].cmds[h] /\ c = d.cmd
      BY <1>1
    <3>2. d # NONE /\ d.cmd = req[t].cmd => d.cmd4KBOffset \notin ToPush(t)
      BY <1>2, <1>11, <3>1 DEF Once, WaitingNotInCells
    <3> QED
      BY <1>2, <1>11, <3>1, <3>2
  <2> QED
    BY <2>2, <2>3, <2>6, <2>7
<1>12. WaitingToMove'
  <2> SUFFICES ASSUME NEW t \in Reqs, Waits(t), NEW e, e = req[t].cmd
               PROVE  /\ cmd'[e] # NONE /\ cmd'[e].dir = req[t].dir
                      /\ (req[t].lsa * NVME_BLOCKS_PER_SLICE) + req[t].offset
                           = cmd'[e].startLba + req[t].startIndex
                      /\ req[t].startIndex + req[t].num <= cmd'[e].nlb + 1
                      /\ \A i \in ToPush(t) :
                           <<i, cmd'[e].startLba + i>> \notin cmd'[e].moved
    BY <1>10 DEF WaitingToMove, BlockAt
  <2>1. /\ cmd[e] # NONE /\ cmd[e].dir = req[t].dir
        /\ (req[t].lsa * NVME_BLOCKS_PER_SLICE) + req[t].offset
             = cmd[e].startLba + req[t].startIndex
        /\ req[t].startIndex + req[t].num <= cmd[e].nlb + 1
    BY DEF Once, WaitingToMove
  <2>2. \A i \in ToPush(t) :
          /\ cmd'[e] # NONE /\ cmd'[e].dir = cmd[e].dir
          /\ cmd'[e].startLba = cmd[e].startLba /\ cmd'[e].nlb = cmd[e].nlb
          /\ <<i, cmd'[e].startLba + i>> \notin cmd'[e].moved
    BY <1>6, <1>11
  <2>3. \E i \in ToPush(t) : TRUE
    BY <1>11
  <2> QED
    BY <2>1, <2>2, <2>3
<1>13. WaitingNotInCells' /\ WaitingApart'
  BY <1>7, <1>10 DEF Once, WaitingNotInCells, WaitingApart
<1> QED
  BY <1>5, <1>8, <1>9, <1>12, <1>13 DEF Once

\* Every step keeps the blocks apart.
LEMMA StepKeepsOnce ==
  ASSUME IInv, Exact, Once, [DmaNext]_dmaVars
  PROVE  Once'
<1>1. ASSUME NEW c \in Slots, NEW io \in IoCommands,
             HandleNvmeIoCmd(c, io[1], io[2], io[3])
      PROVE  Once'
  BY <1>1, CommandKeepsOnce
<1>2. ASSUME NEW t \in Reqs, SelectLowLevelReqQ(t)
      PROVE  Once'
  BY <1>2, SelectionKeepsOnce
<1>3. CASE SetAutoDma
  BY <1>3, PushKeepsOnce
<1>4. CASE CheckDoneNvmeDmaReq
  BY <1>4, ReleaseKeepsOnce
<1>5. ASSUME NEW dir \in Directions, HandleDmaReq(dir)
      PROVE  Once'
  BY <1>5, MoveKeepsOnce
<1>6. CASE UNCHANGED dmaVars
  <2>1. ASSUME NEW t \in Reqs
        PROVE  (Waits(t)' <=> Waits(t)) /\ ToPush(t)' = ToPush(t)
    BY <1>6 DEF dmaVars, Waits, IsIssued, ToPush, Issued
  <2>2. UNCHANGED <<cmd, req, fifo>>
    BY <1>6 DEF dmaVars
  <2>3. RemainingCounted' /\ CellsToMove' /\ CellsDiffer'
    BY <2>2, SameCells DEF Once
  <2>4. WaitingToMove'
    BY <2>1, <2>2 DEF Once, WaitingToMove, BlockAt
  <2>5. WaitingNotInCells'
    BY <2>1, <2>2 DEF Once, WaitingNotInCells
  <2>6. WaitingApart'
    BY <2>1, <2>2 DEF Once, WaitingApart
  <2> QED
    BY <2>3, <2>4, <2>5, <2>6 DEF Once
<1> QED
  BY <1>1, <1>2, <1>3, <1>4, <1>5, <1>6 DEF DmaNext

\* The three invariants hold of every state.
LEMMA AlwaysOnce == DmaSpec => [](IInv /\ Exact /\ Once)
<1>1. DmaInit => IInv /\ Exact /\ Once
  BY InitEstablishes, NothingExact, NothingOnce
<1>2. IInv /\ Exact /\ Once /\ [DmaNext]_dmaVars => (IInv /\ Exact /\ Once)'
  BY StepKeeps, StepKeepsExact, StepKeepsOnce
<1> QED
  BY <1>1, <1>2, PTL DEF DmaSpec

-----------------------------------------------------------------------------

\* The firmware splits a command into slices and pushes the blocks of each, the
\* controller only counts down: whatever the sizes, the count reaches the end
\* with the last block of the command, and each block has then been moved once
\* and between its place in the host's buffer and its place in the slices.
THEOREM AlwaysEndsFullyMoved == DmaSpec => EndsFullyMoved
<1>1. ASSUME IInv, Exact, Once, [DmaNext]_dmaVars,
             NEW c \in Slots, cmd[c] # NONE, cmd'[c] = NONE,
             NEW f, f = fifo[cmd[c].dir], NEW d, d = f.cmds[f.head]
      PROVE  /\ d # NONE /\ d.cmd = c
             /\ cmd[c].moved \cup {<<d.cmd4KBOffset, d.block>>}
                  = {<<i, cmd[c].startLba + i>> : i \in 0 .. cmd[c].nlb}
  <2>1. ASSUME NEW e \in Slots, NEW io \in IoCommands,
               HandleNvmeIoCmd(e, io[1], io[2], io[3])
        PROVE  FALSE
    <3>1. cmd[e] = NONE
      BY <2>1 DEF HandleNvmeIoCmd
    <3>2. \E new : cmd' = [cmd EXCEPT ![e] = new]
      BY <2>1 DEF HandleNvmeIoCmd
    <3> QED
      BY <1>1, <3>1, <3>2 DEF Once, RemainingCounted
  <2>2. ASSUME NEW t \in Reqs, SelectLowLevelReqQ(t)
        PROVE  FALSE
    BY <1>1, <2>2 DEF SelectLowLevelReqQ
  <2>3. CASE SetAutoDma
    BY <1>1, <2>3 DEF SetAutoDma
  <2>4. CASE CheckDoneNvmeDmaReq
    BY <1>1, <2>4 DEF CheckDoneNvmeDmaReq
  <2>5. ASSUME NEW dir \in Directions, HandleDmaReq(dir)
        PROVE  /\ d # NONE /\ d.cmd = c
               /\ cmd[c].moved \cup {<<d.cmd4KBOffset, d.block>>} = Blocks(c)
    <3>1. PICK x, b : /\ x = fifo[dir].cmds[fifo[dir].head]
                      /\ b = <<x.cmd4KBOffset, x.block>>
      OBVIOUS
    <3>2. /\ x # NONE /\ x.cmd \in Slots /\ cmd[x.cmd] # NONE /\ cmd[x.cmd].dir = dir
          /\ \A e \in Slots : e # x.cmd => cmd'[e] = cmd[e]
          /\ IsLast(x.cmd) => cmd[x.cmd].moved \cup {b} = Blocks(x.cmd)
          /\ ~ IsLast(x.cmd) => cmd'[x.cmd] \in Command
      BY <1>1, <2>5, <3>1, BlockToMove
    <3>3. x.cmd = c /\ x = d
      BY <1>1, <3>1, <3>2
    <3>4. IsLast(c)
      BY <1>1, <3>2, <3>3, NoneAssumption
    <3> QED
      BY <3>1, <3>2, <3>3, <3>4
  <2>6. CASE UNCHANGED dmaVars
    BY <1>1, <2>6 DEF dmaVars
  <2> QED
    BY <1>1, <2>1, <2>2, <2>3, <2>4, <2>5, <2>6 DEF DmaNext, Blocks, BlockAt
<1>2. IInv /\ Exact /\ Once /\ [DmaNext]_dmaVars =>
        [\A c \in Slots :
           cmd[c] # NONE /\ cmd'[c] = NONE =>
             LET f == fifo[cmd[c].dir]
                 d == f.cmds[f.head]
             IN  /\ d # NONE /\ d.cmd = c
                 /\ cmd[c].moved \cup {<<d.cmd4KBOffset, d.block>>}
                      = {<<i, cmd[c].startLba + i>> : i \in 0 .. cmd[c].nlb}]_dmaVars
  BY <1>1
<1> QED
  BY <1>2, AlwaysOnce, PTL DEF EndsFullyMoved, DmaSpec

=============================================================================
