----------------------------- MODULE AddressMap -----------------------------
(***************************************************************************)
(* The slice map of the flash translation layer: address_translation.c and *)
(* garbage_collection.c of lab2.                                           *)
(*                                                                         *)
(* A logical slice is the unit the host data buffer evicts; a virtual      *)
(* slice <<die, block, page>> is one flash page.  AddrTransWrite moves a   *)
(* logical slice to the next free page of the target die, and collects a   *)
(* victim block first when that die has no block left but its reserve.     *)
(*                                                                         *)
(* The firmware is one thread, so a call of AddrTransWrite is a sequence   *)
(* of forced steps; pc says where in the call it is:                       *)
(*   "idle"      no call in progress                                       *)
(*   "allocate"  the old page is invalidated, FindFreeVirtualSlice begins  *)
(*   "collect"   GarbageCollection is emptying the block "victim"          *)
(*   "retry"     FindFreeVirtualSlice again, after GarbageCollection       *)
(* The per-block lists, doubly linked in the code, are sequences here.     *)
(* Erase counters, the cost-benefit ticks and the statistics, which no     *)
(* decision reads, are left out.  Blocks marked bad are left out too.      *)
(***************************************************************************)
EXTENDS Integers, Sequences, FiniteSets, SequencesExt

CONSTANTS
  USER_DIES,             \* number of dies
  USER_BLOCKS_PER_DIE,   \* number of blocks of a die
  SLICES_PER_BLOCK,      \* number of slices (= pages) of a block
  LogicalSlices,         \* the logical slices the host can address
  NONE,                  \* VSA_NONE, LSA_NONE, BLOCK_NONE
  CurrentStaysLive       \* TRUE: no write supersedes the last live page of a
                         \* block a die is still filling

ASSUME DiesAssumption    == USER_DIES \in Nat \ {0}
ASSUME BlocksAssumption  == USER_BLOCKS_PER_DIE \in Nat /\ USER_BLOCKS_PER_DIE > 1
ASSUME PagesAssumption   == SLICES_PER_BLOCK \in Nat \ {0}
ASSUME SlicesAssumption  == NONE \notin LogicalSlices /\ NONE \notin Nat
ASSUME WorkloadAssumption == CurrentStaysLive \in BOOLEAN

RESERVED_FREE_BLOCK_COUNT == 1

Dies       == 0 .. USER_DIES - 1
Blocks     == 0 .. USER_BLOCKS_PER_DIE - 1
Pages      == 0 .. SLICES_PER_BLOCK - 1
DieBlocks  == Dies \X Blocks
Vsas       == Dies \X Blocks \X Pages

\* A virtual slice address is never the NONE the maps use for "unmapped".
ASSUME VsaAssumption == NONE \notin Vsas

VARIABLES
  logicalSlice,      \* logicalSliceMapPtr: where each logical slice lives
  virtualSlice,      \* virtualSliceMapPtr: the last owner of each page
  currentPage,       \* virtualBlockMapPtr: next page to program of a block
  invalidSliceCnt,   \* virtualBlockMapPtr: superseded pages of a block
  currentBlock,      \* virtualDieMapPtr: the block being filled
  freeList,          \* virtualDieMapPtr: free blocks, head first
  victimList,        \* gcVictimMapPtr: blocks by invalid count, head first
  targetDie,         \* sliceAllocationTargetDie
  pc,                \* progress of the call of AddrTransWrite
  lsa,               \* its argument
  victim             \* victimBlockNo of GarbageCollection

maps == <<logicalSlice, virtualSlice>>
vars == <<logicalSlice, virtualSlice, currentPage, invalidSliceCnt,
          currentBlock, freeList, victimList, targetDie, pc, lsa, victim>>

-----------------------------------------------------------------------------
(* Start-up: all blocks are free, and each die opens the first of them.    *)

InitSliceMap ==
  /\ logicalSlice = [l \in LogicalSlices |-> NONE]
  /\ virtualSlice = [v \in Vsas |-> NONE]

InitBlockMap ==
  /\ currentPage     = [db \in DieBlocks |-> 0]
  /\ invalidSliceCnt = [db \in DieBlocks |-> 0]

InitCurrentBlockOfDieMap ==
  /\ currentBlock = [d \in Dies |-> 0]
  /\ freeList     = [d \in Dies |-> [i \in 1 .. USER_BLOCKS_PER_DIE - 1 |-> i]]

InitGcVictimMap ==
  victimList = [dc \in Dies \X (1 .. SLICES_PER_BLOCK) |-> <<>>]

Init ==
  /\ InitSliceMap
  /\ InitBlockMap
  /\ InitCurrentBlockOfDieMap
  /\ InitGcVictimMap
  /\ targetDie = 0
  /\ pc        = "idle"
  /\ lsa       = NONE
  /\ victim    = NONE

-----------------------------------------------------------------------------
(* The lists of blocks. *)

\* Membership of a list, and membership without a duplicate.
IsOn(s, b)       == \E i \in DOMAIN s : s[i] = b
AtMostOnce(s, b) == \A i, j \in DOMAIN s : s[i] = b /\ s[j] = b => i = j

\* A list without block b.
Unlink(s, b) == RemoveAt(s, CHOOSE i \in 1 .. Len(s) : s[i] = b)

\* The victim lists once block b is off the list of its count.  A block without
\* a superseded page is on none; the code clears list 0 for it, which is unused.
SelectiveGetFromGcVictimList(d, b) ==
  LET n == invalidSliceCnt[<<d, b>>]
  IN  IF n = 0 THEN victimList
      ELSE [victimList EXCEPT ![<<d, n>>] = Unlink(@, b)]

\* Block b goes to the tail of the list of count n.
PutToGcVictimList(lists, d, b, n) ==
  [lists EXCEPT ![<<d, n>>] = Append(@, b)]

\* Faulty variant: the reserve is handed out too.
NoFreeBlock_UsesReserve(d) == Len(freeList[d]) < RESERVED_FREE_BLOCK_COUNT

\* GetFromFbList would return BLOCK_FAIL.
NoFreeBlock(d)      == Len(freeList[d]) <= RESERVED_FREE_BLOCK_COUNT
NoFreeBlockForGc(d) == freeList[d] = <<>>

\* Faulty variant: the scan starts one list too low.
VictimCounts_SkipsLast(d) ==
  {c \in 1 .. SLICES_PER_BLOCK - 1 : victimList[<<d, c>>] # <<>>}

\* GetFromGcVictimList: head of the list with the largest count, if any.
VictimCounts(d) == {c \in 1 .. SLICES_PER_BLOCK : victimList[<<d, c>>] # <<>>}
Greediest(d, c)  == c \in VictimCounts(d) /\ \A e \in VictimCounts(d) : e <= c

\* Faulty variant: no wrap-around.
FindDie_NoWrap == targetDie + 1

FindDieForFreeSliceAllocation == (targetDie + 1) % USER_DIES

IsFull(d, b) == currentPage[<<d, b>>] = SLICES_PER_BLOCK

-----------------------------------------------------------------------------
(* AddrTransWrite *)

\* The write of l would leave a block without live page, although it is full
\* and its die has not moved on to another one.
SupersedesCurrent(l) ==
  LET v == logicalSlice[l]
  IN  /\ v # NONE
      /\ v[2] = currentBlock[v[1]]
      /\ invalidSliceCnt[<<v[1], v[2]>>] = SLICES_PER_BLOCK - 1

\* What the workload is taken not to do when CurrentStaysLive holds.  The code
\* does not prevent it; CurrentPageInBlock fails without.
MayWrite(l) == CurrentStaysLive => ~ SupersedesCurrent(l)

\* Faulty variant: the block stays on the list of its old count.
InvalidateOldVsa_KeepsLink(l) ==
  LET v == logicalSlice[l]
      d == v[1]
      b == v[2]
      n == invalidSliceCnt[<<d, b>>]
  IN  IF v # NONE /\ virtualSlice[v] = l
      THEN /\ logicalSlice'    = [logicalSlice EXCEPT ![l] = NONE]
           /\ invalidSliceCnt' = [invalidSliceCnt EXCEPT ![<<d, b>>] = n + 1]
           /\ victimList'      = PutToGcVictimList(victimList, d, b, n + 1)
      ELSE UNCHANGED <<logicalSlice, invalidSliceCnt, victimList>>

InvalidateOldVsa(l) ==
  LET v == logicalSlice[l]
      d == v[1]
      b == v[2]
      n == invalidSliceCnt[<<d, b>>]
      unlinked == SelectiveGetFromGcVictimList(d, b)
  IN  IF v # NONE /\ virtualSlice[v] = l
      THEN /\ logicalSlice'    = [logicalSlice EXCEPT ![l] = NONE]
           /\ invalidSliceCnt' = [invalidSliceCnt EXCEPT ![<<d, b>>] = n + 1]
           /\ victimList'      = PutToGcVictimList(unlinked, d, b, n + 1)
      ELSE UNCHANGED <<logicalSlice, invalidSliceCnt, victimList>>

\* A block has one pair of links for both lists.  Were the block of l on the
\* free list, InvalidateOldVsa would corrupt that list; the model stops there.
\* FreeBlocksErased says that it never happens.
LinksIntact(l) ==
  LET v == logicalSlice[l] IN v # NONE => ~ IsOn(freeList[v[1]], v[2])

AddrTransWrite(l) ==
  /\ pc = "idle"
  /\ MayWrite(l)
  /\ LinksIntact(l)
  /\ pc'  = "allocate"
  /\ lsa' = l
  /\ InvalidateOldVsa(l)
  /\ UNCHANGED <<virtualSlice, currentPage, currentBlock, freeList, targetDie,
                 victim>>

\* Faulty variant: the reverse map is not updated.
PlaceSlice_ForwardOnly(l, d, b) ==
  /\ logicalSlice' = [logicalSlice EXCEPT ![l] = <<d, b, currentPage[<<d, b>>]>>]
  /\ virtualSlice' = virtualSlice
  /\ currentPage'  = [currentPage EXCEPT ![<<d, b>>] = @ + 1]

\* The next page of block b becomes the home of logical slice l.
PlaceSlice(l, d, b) ==
  LET v == <<d, b, currentPage[<<d, b>>]>>
  IN  /\ logicalSlice' = [logicalSlice EXCEPT ![l] = v]
      /\ virtualSlice' = [virtualSlice EXCEPT ![v] = l]
      /\ currentPage'  = [currentPage EXCEPT ![<<d, b>>] = @ + 1]

\* The end of FindFreeVirtualSlice and of AddrTransWrite.
FinishWrite(b) ==
  /\ PlaceSlice(lsa, targetDie, b)
  /\ targetDie' = FindDieForFreeSliceAllocation
  /\ pc'  = "idle"
  /\ lsa' = NONE

\* FindFreeVirtualSlice: the current block still has a page.
UseCurrentBlock ==
  /\ pc \in {"allocate", "retry"}
  /\ ~ IsFull(targetDie, currentBlock[targetDie])
  /\ FinishWrite(currentBlock[targetDie])
  /\ UNCHANGED <<invalidSliceCnt, currentBlock, freeList, victimList, victim>>

\* FindFreeVirtualSlice: the current block is full, a free block is opened.
OpenFreeBlock ==
  /\ pc \in {"allocate", "retry"}
  /\ IsFull(targetDie, currentBlock[targetDie])
  /\ ~ NoFreeBlock(targetDie)
  /\ LET b == Head(freeList[targetDie])
     IN  /\ freeList'     = [freeList EXCEPT ![targetDie] = Tail(@)]
         /\ currentBlock' = [currentBlock EXCEPT ![targetDie] = b]
         /\ FinishWrite(b)
  /\ UNCHANGED <<invalidSliceCnt, victimList, victim>>

\* FindFreeVirtualSlice: only the reserve is left; GarbageCollection begins.
SelectVictim ==
  /\ pc = "allocate"
  /\ IsFull(targetDie, currentBlock[targetDie])
  /\ NoFreeBlock(targetDie)
  /\ \E c \in 1 .. SLICES_PER_BLOCK :
       /\ Greediest(targetDie, c)
       /\ victim'     = Head(victimList[<<targetDie, c>>])
       /\ victimList' = [victimList EXCEPT ![<<targetDie, c>>] = Tail(@)]
  /\ pc' = "collect"
  /\ UNCHANGED <<logicalSlice, virtualSlice, currentPage, invalidSliceCnt,
                 currentBlock, freeList, targetDie, lsa>>

-----------------------------------------------------------------------------
(* GarbageCollection *)

\* The pages of block b whose data is still the data of its owner.
ValidPages(d, b) ==
  {p \in Pages : /\ virtualSlice[<<d, b, p>>] # NONE
                 /\ logicalSlice[virtualSlice[<<d, b, p>>]] = <<d, b, p>>}

\* Faulty variant: one live page is taken for none.
MustCopy_OffByOne ==
  /\ pc = "collect"
  /\ invalidSliceCnt[<<targetDie, victim>>] < SLICES_PER_BLOCK - 1
  /\ ValidPages(targetDie, victim) # {}

\* The victim still holds a page that has to be copied.
MustCopy ==
  /\ pc = "collect"
  /\ invalidSliceCnt[<<targetDie, victim>>] # SLICES_PER_BLOCK
  /\ ValidPages(targetDie, victim) # {}

\* The pages are copied in ascending order.
NextValidPage(p) ==
  /\ p \in ValidPages(targetDie, victim)
  /\ \A q \in ValidPages(targetDie, victim) : p <= q

\* FindFreeVirtualSliceForGc never copies into the victim itself...
LeavesVictim == currentBlock[targetDie] = victim
FreeAfterLeaving ==
  IF LeavesVictim THEN Tail(freeList[targetDie]) ELSE freeList[targetDie]
BlockAfterLeaving ==
  IF LeavesVictim THEN Head(freeList[targetDie]) ELSE currentBlock[targetDie]

\* ...and opens a block, the reserve included, when the current one is full.
NoRoomForCopy ==
  \/ LeavesVictim /\ NoFreeBlockForGc(targetDie)
  \/ IsFull(targetDie, BlockAfterLeaving) /\ FreeAfterLeaving = <<>>

\* Faulty variant: the copy is written but the maps keep the old page.
CopyValidPage_NotMapped ==
  /\ MustCopy
  /\ ~ NoRoomForCopy
  /\ LET opens == IsFull(targetDie, BlockAfterLeaving)
         b     == IF opens THEN Head(FreeAfterLeaving) ELSE BlockAfterLeaving
     IN  /\ freeList' = [freeList EXCEPT ![targetDie] =
                           IF opens THEN Tail(FreeAfterLeaving)
                                    ELSE FreeAfterLeaving]
         /\ currentBlock' = [currentBlock EXCEPT ![targetDie] = b]
         /\ currentPage'  = [currentPage EXCEPT ![<<targetDie, b>>] = @ + 1]
  /\ UNCHANGED <<logicalSlice, virtualSlice, invalidSliceCnt, victimList,
                 targetDie, pc, lsa, victim>>

CopyValidPage ==
  /\ MustCopy
  /\ ~ NoRoomForCopy
  /\ LET opens == IsFull(targetDie, BlockAfterLeaving)
         b     == IF opens THEN Head(FreeAfterLeaving) ELSE BlockAfterLeaving
     IN  /\ freeList' = [freeList EXCEPT ![targetDie] =
                           IF opens THEN Tail(FreeAfterLeaving)
                                    ELSE FreeAfterLeaving]
         /\ currentBlock' = [currentBlock EXCEPT ![targetDie] = b]
         /\ \E p \in Pages :
              /\ NextValidPage(p)
              /\ PlaceSlice(virtualSlice[<<targetDie, victim, p>>], targetDie, b)
  /\ UNCHANGED <<invalidSliceCnt, victimList, targetDie, pc, lsa, victim>>

\* What EraseBlock does apart from the maps, the counts and the free list.
FinishCollection ==
  /\ currentPage' = [currentPage EXCEPT ![<<targetDie, victim>>] = 0]
  /\ victim' = NONE
  /\ pc'     = "retry"
  /\ UNCHANGED <<logicalSlice, currentBlock, victimList, targetDie, lsa>>

FreeVictim == freeList' = [freeList EXCEPT ![targetDie] = Append(@, victim)]

ClearCounts ==
  invalidSliceCnt' = [invalidSliceCnt EXCEPT ![<<targetDie, victim>>] = 0]

ClearOwners ==
  virtualSlice' = [v \in Vsas |-> IF v[1] = targetDie /\ v[2] = victim
                                  THEN NONE ELSE virtualSlice[v]]

\* Faulty variants: a block that is not freed, not cleared, still owned.
EraseBlock_NotFreed ==
  /\ pc = "collect" /\ ~ MustCopy
  /\ FinishCollection /\ ClearCounts /\ ClearOwners
  /\ UNCHANGED freeList
EraseBlock_KeepsCount ==
  /\ pc = "collect" /\ ~ MustCopy
  /\ FinishCollection /\ FreeVictim /\ ClearOwners
  /\ UNCHANGED invalidSliceCnt
EraseBlock_KeepsOwners ==
  /\ pc = "collect" /\ ~ MustCopy
  /\ FinishCollection /\ FreeVictim /\ ClearCounts
  /\ UNCHANGED virtualSlice

\* The end of GarbageCollection.
EraseBlock ==
  /\ pc = "collect"
  /\ ~ MustCopy
  /\ FinishCollection
  /\ FreeVictim
  /\ ClearCounts
  /\ ClearOwners

-----------------------------------------------------------------------------
(* The assertions of the code that stop the program.  A state in which one     *)
(* fails has no step; NeverAborts says that there is none.                    *)

\* GetFromGcVictimList finds every list empty.
AbortNoVictim ==
  /\ pc = "allocate"
  /\ IsFull(targetDie, currentBlock[targetDie])
  /\ NoFreeBlock(targetDie)
  /\ VictimCounts(targetDie) = {}

\* FindFreeVirtualSliceForGc finds no free block.
AbortNoRoomForCopy == MustCopy /\ NoRoomForCopy

\* FindFreeVirtualSlice finds no free block after GarbageCollection.
AbortNoFreeBlock ==
  /\ pc = "retry"
  /\ IsFull(targetDie, currentBlock[targetDie])
  /\ NoFreeBlock(targetDie)

-----------------------------------------------------------------------------

Internal ==
  \/ UseCurrentBlock
  \/ OpenFreeBlock
  \/ SelectVictim
  \/ CopyValidPage
  \/ EraseBlock

Next ==
  \/ \E l \in LogicalSlices : AddrTransWrite(l)
  \/ Internal

Spec == Init /\ [][Next]_vars

-----------------------------------------------------------------------------
(* Correctness. *)

\* Every variable keeps its type.
TypeOK ==
  /\ logicalSlice    \in [LogicalSlices -> Vsas \cup {NONE}]
  /\ virtualSlice    \in [Vsas -> LogicalSlices \cup {NONE}]
  /\ currentPage     \in [DieBlocks -> 0 .. SLICES_PER_BLOCK]
  /\ invalidSliceCnt \in [DieBlocks -> 0 .. SLICES_PER_BLOCK]
  /\ currentBlock    \in [Dies -> Blocks]
  /\ freeList        \in [Dies -> Seq(Blocks)]
  /\ victimList      \in [Dies \X (1 .. SLICES_PER_BLOCK) -> Seq(Blocks)]
  /\ targetDie       \in Dies
  /\ pc              \in {"idle", "allocate", "collect", "retry"}
  /\ lsa             \in LogicalSlices \cup {NONE}
  /\ victim          \in Blocks \cup {NONE}

\* The pages of a block some logical slice lives in.
LivePages(d, b) ==
  {p \in Pages : \E l \in LogicalSlices : logicalSlice[l] = <<d, b, p>>}

\* The block garbage collection took off its victim list and has not erased.
InCollection(d, b) == pc = "collect" /\ d = targetDie /\ b = victim

\* The two maps agree: the page a logical slice lives in has been programmed
\* since the last erase of its block, and it names the slice as its owner.  So
\* no two logical slices share a page, and neither an erase, a GC copy nor the
\* reuse of a block can pull a page from under a live slice.
MapsAgree ==
  \A l \in LogicalSlices :
    LET v == logicalSlice[l] IN
    v # NONE => virtualSlice[v] = l /\ v[3] < currentPage[<<v[1], v[2]>>]

\* The count garbage collection trusts when it picks the victim, and when it
\* skips copying altogether, is exactly the number of superseded pages; but for
\* the victim whose pages are being copied away.
InvalidCntExact ==
  \A d \in Dies, b \in Blocks :
    ~ (InCollection(d, b) /\ b # currentBlock[d]) =>
      invalidSliceCnt[<<d, b>>] =
        currentPage[<<d, b>>] - Cardinality(LivePages(d, b))

\* A block with n > 0 superseded pages is on victim list n, once, and on no
\* other; a block without any, or one being collected, is on none.
VictimListsExact ==
  \A d \in Dies, b \in Blocks, c \in 1 .. SLICES_PER_BLOCK :
    /\ IsOn(victimList[<<d, c>>], b)
         <=> invalidSliceCnt[<<d, b>>] = c /\ ~ InCollection(d, b)
    /\ AtMostOnce(victimList[<<d, c>>], b)

\* A block on a free list is on it once, is erased, owns no page of the map, and
\* is neither being filled nor being collected.
FreeBlocksErased ==
  \A d \in Dies, b \in Blocks :
    IsOn(freeList[d], b) =>
      /\ AtMostOnce(freeList[d], b)
      /\ currentPage[<<d, b>>] = 0
      /\ \A p \in Pages : virtualSlice[<<d, b, p>>] = NONE
      /\ b # currentBlock[d]
      /\ ~ InCollection(d, b)

\* No block is stranded: one that is neither free nor being filled has been
\* filled to its last page, so its space comes back when it is collected.
NoBlockStranded ==
  \A d \in Dies, b \in Blocks :
    \/ b = currentBlock[d]
    \/ IsOn(freeList[d], b)
    \/ IsFull(d, b)

\* A die keeps the block garbage collection needs for its copies: the reserve
\* is used only while a victim is being collected.
ReserveKept ==
  \A d \in Dies :
    pc # "collect" \/ d # targetDie =>
      Len(freeList[d]) >= RESERVED_FREE_BLOCK_COUNT

\* "Current page management fail" (FindFreeVirtualSlice, both calls, and
\* FindFreeVirtualSliceForGc): a block is never filled past its last page.
CurrentPageInBlock ==
  \A d \in Dies, b \in Blocks : currentPage[<<d, b>>] <= SLICES_PER_BLOCK

\* No assertion of the code fails: garbage collection finds a victim, room for
\* its copies, and leaves room for the write.
NeverAborts == ~ (AbortNoVictim \/ AbortNoRoomForCopy \/ AbortNoFreeBlock)

\* GetFromGcVictimList, "There are no free blocks.": when a write needs garbage
\* collection, its die has a victim.
VictimExists == ~ AbortNoVictim

\* Erasing never destroys data: a step takes no home from any logical slice but
\* the one being written, and a step that erases a block finds none living in it.
KeepsHome(l) ==
  /\ logicalSlice[l] # NONE /\ logicalSlice'[l] = NONE => l = lsa'
  /\ pc = "collect" /\ pc' = "retry" /\ logicalSlice[l] # NONE
       => logicalSlice[l][1] # targetDie \/ logicalSlice[l][2] # victim

EraseLosesNothing == [][\A l \in LogicalSlices : KeepsHome(l)]_vars

\* The inductive invariant behind the theorems of AddressMapProofs, when
\* CurrentStaysLive holds.  On top of the properties above it says
\*  - no more pages of a block are superseded or live than were programmed, so
\*    a block whose pages are all counted superseded holds nothing to copy;
\*  - the block a die is filling is never superseded as a whole, so that it is
\*    not erased while it is being filled;
\*  - a slice is being written only during a call, and is unmapped then, and a
\*    victim that is still the current block of its die is full.
CountsBound ==
  \A d \in Dies, b \in Blocks :
    invalidSliceCnt[<<d, b>>] + Cardinality(LivePages(d, b))
      <= currentPage[<<d, b>>]

CurrentLive ==
  \A d \in Dies : invalidSliceCnt[<<d, currentBlock[d]>>] < SLICES_PER_BLOCK

CallConsistent ==
  /\ pc = "idle" => lsa = NONE
  /\ pc # "idle" => lsa \in LogicalSlices /\ logicalSlice[lsa] = NONE
  /\ pc = "collect" =>
       /\ victim \in Blocks
       /\ currentBlock[targetDie] = victim => IsFull(targetDie, victim)

IInv ==
  /\ TypeOK
  /\ MapsAgree
  /\ CountsBound
  /\ InvalidCntExact
  /\ VictimListsExact
  /\ FreeBlocksErased
  /\ CurrentLive
  /\ CallConsistent

\* Every call of AddrTransWrite returns: collecting a victim ends.
WriteReturns == pc # "idle" ~> pc = "idle"
=============================================================================
