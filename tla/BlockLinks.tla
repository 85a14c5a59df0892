----------------------------- MODULE BlockLinks -----------------------------
(***************************************************************************)
(* The block lists of AddressMap as the code keeps them: doubly linked,    *)
(* through one pair of links per block.  A free block and a block waiting  *)
(* for collection use the same pair, so each list is only as good as the   *)
(* discipline of the others.                                               *)
(*                                                                         *)
(* The state of the links is one record, "links", with the fields of the   *)
(* three maps of the code; the operators are the functions of the code,    *)
(* from a record to a record.  The steps are those of AddressMap.          *)
(***************************************************************************)
EXTENDS AddressMap

VARIABLE links

linkVars == <<vars, links>>

\* PutToFbList
PutToFbList(k, d, b) ==
  LET tail == k.tailFreeBlock[d]
      linked == [k EXCEPT !.prevBlock[<<d, b>>] = tail,
                          !.nextBlock[<<d, b>>] = NONE,
                          !.tailFreeBlock[d] = b,
                          !.freeBlockCnt[d] = @ + 1]
  IN  IF tail # NONE THEN [linked EXCEPT !.nextBlock[<<d, tail>>] = b]
                     ELSE [linked EXCEPT !.headFreeBlock[d] = b]

\* GetFromFbList; the block it takes is the head.
GetFromFbList(k, d) ==
  LET b    == k.headFreeBlock[d]
      next == k.nextBlock[<<d, b>>]
      rest == IF next # NONE
              THEN [k EXCEPT !.prevBlock[<<d, next>>] = NONE]
              ELSE [k EXCEPT !.tailFreeBlock[d] = NONE]
  IN  [rest EXCEPT !.headFreeBlock[d] = next,
                   !.freeBlockCnt[d] = @ - 1,
                   !.nextBlock[<<d, b>>] = NONE,
                   !.prevBlock[<<d, b>>] = NONE]

\* PutToGcVictimList
LinkVictim(k, d, b, n) ==
  LET tail == k.tailBlock[<<d, n>>]
      linked == [k EXCEPT !.prevBlock[<<d, b>>] = tail,
                          !.nextBlock[<<d, b>>] = NONE,
                          !.tailBlock[<<d, n>>] = b]
  IN  IF tail # NONE THEN [linked EXCEPT !.nextBlock[<<d, tail>>] = b]
                     ELSE [linked EXCEPT !.headBlock[<<d, n>>] = b]

\* GetFromGcVictimList, from list n.  The links of the block stay as they are.
TakeVictim(k, d, n) ==
  LET b    == k.headBlock[<<d, n>>]
      next == k.nextBlock[<<d, b>>]
      rest == IF next # NONE
              THEN [k EXCEPT !.prevBlock[<<d, next>>] = NONE]
              ELSE [k EXCEPT !.tailBlock[<<d, n>>] = NONE]
  IN  [rest EXCEPT !.headBlock[<<d, n>>] = next]

\* Faulty variant: the tail of the list is not moved back.
UnlinkVictim_KeepsTail(k, d, b, n) ==
  LET next == k.nextBlock[<<d, b>>]
      prev == k.prevBlock[<<d, b>>]
      left == IF prev # NONE
              THEN [k EXCEPT !.nextBlock[<<d, prev>>] = next]
              ELSE [k EXCEPT !.headBlock[<<d, n>>] = next]
  IN  IF next # NONE THEN [left EXCEPT !.prevBlock[<<d, next>>] = prev]
      ELSE IF prev = NONE THEN [left EXCEPT !.tailBlock[<<d, n>>] = NONE]
      ELSE left

\* SelectiveGetFromGcVictimList.  For a block on no list, with n = 0, it relies
\* on the links of the block being clear.
UnlinkVictim(k, d, b, n) ==
  LET next == k.nextBlock[<<d, b>>]
      prev == k.prevBlock[<<d, b>>]
      left == IF prev # NONE
              THEN [k EXCEPT !.nextBlock[<<d, prev>>] = next]
              ELSE [k EXCEPT !.headBlock[<<d, n>>] = next]
  IN  IF next # NONE THEN [left EXCEPT !.prevBlock[<<d, next>>] = prev]
                     ELSE [left EXCEPT !.tailBlock[<<d, n>>] = prev]

-----------------------------------------------------------------------------
(* The steps. *)

\* InitDieMap, InitGcVictimMap; then PutToFbList of every block of a die, in
\* ascending order, and GetFromFbList of its first one.
LinkInit ==
  LET last == USER_BLOCKS_PER_DIE - 1 IN
  /\ Init
  /\ links = [prevBlock |-> [db \in DieBlocks |->
                               IF db[2] < 2 THEN NONE ELSE db[2] - 1],
              nextBlock |-> [db \in DieBlocks |->
                               IF db[2] \in {0, last} THEN NONE ELSE db[2] + 1],
              headFreeBlock |-> [d \in Dies |-> 1],
              tailFreeBlock |-> [d \in Dies |-> last],
              freeBlockCnt  |-> [d \in Dies |-> last],
              headBlock |-> [dn \in Dies \X (0 .. SLICES_PER_BLOCK) |-> NONE],
              tailBlock |-> [dn \in Dies \X (0 .. SLICES_PER_BLOCK) |-> NONE]]

\* InvalidateOldVsa relinks the block of the old page.
LinkedWrite(l) ==
  /\ AddrTransWrite(l)
  /\ LET v == logicalSlice[l]
         d == v[1]
         b == v[2]
         n == invalidSliceCnt[<<d, b>>]
     IN  links' = IF logicalSlice' = logicalSlice THEN links
                  ELSE LinkVictim(UnlinkVictim(links, d, b, n), d, b, n + 1)

LinkedUse == UseCurrentBlock /\ UNCHANGED links

LinkedOpen == OpenFreeBlock /\ links' = GetFromFbList(links, targetDie)

LinkedSelect ==
  /\ SelectVictim
  /\ links' = TakeVictim(links, targetDie, invalidSliceCnt[<<targetDie, victim'>>])

\* FindFreeVirtualSliceForGc takes up to two blocks.
LinkedCopy ==
  /\ CopyValidPage
  /\ LET left == IF LeavesVictim THEN GetFromFbList(links, targetDie) ELSE links
     IN  links' = IF IsFull(targetDie, BlockAfterLeaving)
                  THEN GetFromFbList(left, targetDie) ELSE left

LinkedErase == EraseBlock /\ links' = PutToFbList(links, targetDie, victim)

LinkedInternal ==
  \/ LinkedUse
  \/ LinkedOpen
  \/ LinkedSelect
  \/ LinkedCopy
  \/ LinkedErase

LinkNext ==
  \/ \E l \in LogicalSlices : LinkedWrite(l)
  \/ LinkedInternal

\* The fairness of AddressMap: the code of one call runs to its end.
LinkSpec     == LinkInit /\ [][LinkNext]_linkVars
FairLinkSpec == LinkSpec /\ WF_linkVars(LinkedInternal)

-----------------------------------------------------------------------------
(* Correctness. *)

\* The links of die d, from "head" to "tail", form the list s.
Threads(d, s, head, tail) ==
  LET next(i) == IF i = Len(s) THEN NONE ELSE s[i + 1]
      prev(i) == IF i = 1 THEN NONE ELSE s[i - 1]
  IN  /\ head = IF s = <<>> THEN NONE ELSE Head(s)
      /\ tail = IF s = <<>> THEN NONE ELSE Last(s)
      /\ \A i \in DOMAIN s : /\ links.nextBlock[<<d, s[i]>>] = next(i)
                             /\ links.prevBlock[<<d, s[i]>>] = prev(i)

\* The linked lists are the lists of AddressMap, forwards and backwards, and
\* freeBlockCnt is the length of the free list: so the code, which reads the
\* heads and the count, takes the decisions of the model, which reads lists.
\* A block on no list has no links, but for the victim being collected:
\* SelectiveGetFromGcVictimList, which is called for a block without superseded
\* pages too, then touches nobody's links and only clears the unused list 0.
LinksAreLists ==
  \A d \in Dies :
    /\ Threads(d, freeList[d], links.headFreeBlock[d], links.tailFreeBlock[d])
    /\ links.freeBlockCnt[d] = Len(freeList[d])
    /\ \A n \in 1 .. SLICES_PER_BLOCK :
         Threads(d, victimList[<<d, n>>],
                 links.headBlock[<<d, n>>], links.tailBlock[<<d, n>>])
    /\ \A b \in Blocks :
         ~ IsOn(freeList[d], b) /\ invalidSliceCnt[<<d, b>>] = 0 =>
           links.nextBlock[<<d, b>>] = NONE /\ links.prevBlock[<<d, b>>] = NONE

=============================================================================
