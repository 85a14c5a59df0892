-------------------------- MODULE BadBlocksProofs --------------------------
(***************************************************************************)
(* Proofs about BadBlocks, for any number of dies and blocks and any       *)
(* number of failing blocks.                                               *)
(***************************************************************************)
EXTENDS BadBlocks, WellFoundedInduction, FiniteSetTheorems, TLAPS

-----------------------------------------------------------------------------
(* Spare blocks *)

LEMMA LeastElement ==
  ASSUME NEW S \in SUBSET Nat, S # {}
  PROVE  \E r \in S : \A s \in S : r <= s
<1>1. \E r \in S : \A s \in S : ~ (<<s, r>> \in OpToRel(<, Nat))
  BY NatLessThanWellFounded, WFMin
<1>2. PICK r \in S : \A s \in S : ~ (<<s, r>> \in OpToRel(<, Nat))
  BY <1>1
<1>3. \A s \in S : ~ (s < r)
  BY <1>2 DEF OpToRel
<1> QED
  BY <1>3

\* The search for a spare block ends on one, if there is one left.
LEMMA SpareFound ==
  ASSUME TypeOK, NEW d \in Dies, Spares(d) # {}
  PROVE  /\ FirstSpare(d) \in reservedBlock[d] .. TOTAL_BLOCKS_PER_LUN - 1
         /\ FirstSpare(d) \notin bad[d]
         /\ FirstSpare(d) \in PhyBlocks
<1>1. reservedBlock[d] \in Nat
  BY BadBlocksAssumption DEF TypeOK
<1>2. Spares(d) \subseteq Nat
  BY <1>1, BadBlocksAssumption DEF Spares
<1>3. FirstSpare(d) \in Spares(d)
  BY <1>2, LeastElement DEF FirstSpare
<1> QED
  BY <1>1, <1>3, BadBlocksAssumption DEF Spares, PhyBlocks

-----------------------------------------------------------------------------
(* Recording failures *)

\* What a record changes: the blocks of the die are marked, the update of every
\* die that had a failure is booked, and no booking is undone.
LEMMA Recorded ==
  ASSUME TypeOK, NEW which, UpdatePhyBlockMapForGrownBadBlock(which)
  PROVE  /\ bad' \in [Dies -> SUBSET PhyBlocks]
         /\ grownBadUpdate' \subseteq Dies
         /\ \A d \in Dies : /\ bad'[d] = bad[d] \cup (which[d] \cap PhyBlocks)
                            /\ which[d] = {} => bad'[d] = bad[d]
                            /\ d \in grownBadUpdate' \/ which[d] = {}
                            /\ d \in grownBadUpdate => d \in grownBadUpdate'
<1>1. Strayed(which) \subseteq Dies
  BY BadBlocksAssumption DEF Strayed, Dies
<1>2. PICK stray \in SUBSET Strayed(which) :
        grownBadUpdate' = grownBadUpdate \cup {d \in Dies : which[d] # {}} \cup stray
  BY DEF UpdatePhyBlockMapForGrownBadBlock
<1>3. bad' = [d \in Dies |-> bad[d] \cup (which[d] \cap PhyBlocks)]
  BY DEF UpdatePhyBlockMapForGrownBadBlock
<1>4. bad \in [Dies -> SUBSET PhyBlocks] /\ grownBadUpdate \subseteq Dies
  BY DEF TypeOK
<1> QED
  BY <1>1, <1>2, <1>3, <1>4

LEMMA BlocksFailTypes ==
  ASSUME TypeOK, NEW which \in [Dies -> SUBSET PhyBlocks], BlocksFail(which)
  PROVE  /\ bad' \in [Dies -> SUBSET PhyBlocks]
         /\ grownBadUpdate' \subseteq Dies
         /\ worn' \in [Dies -> SUBSET PhyBlocks]
<1>1. worn' = [d \in Dies |-> worn[d] \cup which[d]]
  BY DEF BlocksFail
<1>2. worn' \in [Dies -> SUBSET PhyBlocks]
  BY <1>1 DEF TypeOK
<1> QED
  BY <1>2, Recorded DEF BlocksFail

\* An operation on page p of block b is recorded at the block of its row.
LEMMA BlockFailsRecorded ==
  ASSUME TypeOK, NEW d \in Dies, NEW b \in PhyBlocks, NEW p \in Pages,
         BlockFails(d, b, p)
  PROVE  /\ UpdatePhyBlockMapForGrownBadBlock([None EXCEPT ![d] = {RowBlock(b, p)}])
         /\ worn' = [worn EXCEPT ![d] = @ \cup {b}]
         /\ worn' \in [Dies -> SUBSET PhyBlocks]
         /\ phase \in {"running", "saveGrown"}
         /\ UNCHANGED <<flashVars, remappedPhyBlock, vbad, badBlockSpace, stepVars,
                        known, lost, unsaved>>
BY DEF BlockFails, TypeOK

LEMMA DivUnique ==
  ASSUME NEW P \in Nat \ {0}, NEW b \in Nat, NEW k \in Nat, k < P
  PROVE  (b * P + k) \div P = b
<1> DEFINE n == b * P + k
           q == n \div P
<1>1. b * P \in Nat /\ n \in Nat
  OBVIOUS
<1>2. q \in Int /\ n = P * q + (n % P) /\ n % P \in 0 .. P - 1
  BY <1>1
<1>3. P * q - P < P * b /\ P * b < P * q + P
  BY <1>1, <1>2
<1>4. ASSUME NEW x \in Int, NEW y \in Int, x < y PROVE P * x + P <= P * y
  <2>1. x + 1 <= y
    BY <1>4
  <2>2. P * (x + 1) <= P * y
    BY <2>1
  <2> QED
    BY <2>2
<1>5. ~ (q < b) /\ ~ (b < q)
  BY <1>2, <1>3, <1>4
<1> QED
  BY <1>2, <1>5

\* Pages with a row in the block itself, and so the first page of any block.
LEMMA RowBlockOwn ==
  ASSUME NEW b \in PhyBlocks, NEW p \in Pages,
         Vpage2PlsbPageTranslation(p) < PAGES_PER_MLC_BLOCK
  PROVE  RowBlock(b, p) = b
<1> DEFINE k == Vpage2PlsbPageTranslation(p)
           P == PAGES_PER_MLC_BLOCK
<1>1. k \in Nat /\ b \in Nat /\ P \in Nat \ {0} /\ k < P
  BY BadBlocksAssumption, RowsAssumption
  DEF Vpage2PlsbPageTranslation, Pages, PhyBlocks
<1>2. RowBlock(b, p) = (b * P + k) \div P
  BY DEF RowBlock, BlockOfRow, GenerateNandRowAddr
<1> HIDE DEF k, P
<1> QED
  BY <1>1, <1>2, DivUnique

LEMMA FirstPage == 0 \in Pages /\ \A b \in PhyBlocks : RowBlock(b, 0) = b
<1>1. 0 \in Pages /\ Vpage2PlsbPageTranslation(0) < PAGES_PER_MLC_BLOCK
  BY BadBlocksAssumption, RowsAssumption DEF Pages, Vpage2PlsbPageTranslation
<1> QED
  BY <1>1, RowBlockOwn
-----------------------------------------------------------------------------
(* Types *)

LEMMA TypeInit == Init => TypeOK
<1> SUFFICES ASSUME Init PROVE TypeOK
  OBVIOUS
<1>1. /\ TableBlock \in PhyBlocks
      /\ UserBlocks \subseteq PhyBlocks
      /\ 0 \in 0 .. TOTAL_BLOCKS_PER_LUN
      /\ USER_BLOCKS_PER_LUN \in 0 .. TOTAL_BLOCKS_PER_LUN
  BY BadBlocksAssumption DEF TableBlock, PhyBlocks, UserBlocks
<1>2. /\ worn \in [Dies -> SUBSET PhyBlocks]
      /\ unclean \in [Dies -> SUBSET PhyBlocks]
  BY DEF Init
<1>3. RemapNone \in [Dies -> [UserBlocks -> PhyBlocks]]
  BY <1>1 DEF RemapNone
<1>4. /\ Reserve \in [Dies -> 0 .. TOTAL_BLOCKS_PER_LUN]
      /\ NoCount \in [Dies -> Nat]
      /\ None \in [Dies -> SUBSET PhyBlocks]
      /\ None \in [Dies -> SUBSET UserBlocks]
  BY <1>1 DEF Reserve, NoCount, None
<1> QED
  BY <1>1, <1>2, <1>3, <1>4 DEF Init, TypeOK, Phases, Hold, Idle

LEMMA TypeNext == TypeOK /\ [Next]_vars => TypeOK'
<1> SUFFICES ASSUME TypeOK, [Next]_vars PROVE TypeOK'
  OBVIOUS
<1> USE DEF flashVars, mapVars, scanVars, saveVars, stepVars, history
<1>0. /\ TableBlock \in PhyBlocks
      /\ UserBlocks \subseteq PhyBlocks
      /\ 0 \in 0 .. TOTAL_BLOCKS_PER_LUN
      /\ USER_BLOCKS_PER_LUN \in 0 .. TOTAL_BLOCKS_PER_LUN
      /\ RemapNone \in [Dies -> [UserBlocks -> PhyBlocks]]
      /\ Reserve \in [Dies -> 0 .. TOTAL_BLOCKS_PER_LUN]
      /\ NoCount \in [Dies -> Nat]
      /\ None \in [Dies -> SUBSET PhyBlocks]
      /\ None \in [Dies -> SUBSET UserBlocks]
      /\ Hold \in [Dies -> {"NOT_EXIST", "EXIST", "HOLD", "UPDATE"}]
      /\ Idle \in [Dies -> {"idle", "erase", "program"}]
  BY BadBlocksAssumption DEF TableBlock, PhyBlocks, UserBlocks, RemapNone,
     Reserve, NoCount, None, Hold, Idle
<1>1. CASE PowerOn
  BY <1>1 DEF PowerOn, TypeOK, Phases
<1>2. CASE EraseTotalBlockSpace
  <2>1. PICK which \in [Dies -> SUBSET PhyBlocks] :
          /\ BlocksFail(which)
          /\ unclean' = [d \in Dies |-> unclean[d] \ ({blockNo} \ which[d])]
          /\ LET wiped == {d \in Dies : blockNo = TableBlock /\ which[d] = {}}
             IN  /\ table' = [d \in Dies |-> IF d \in wiped THEN NoTable
                                                            ELSE table[d]]
                 /\ known' = [d \in Dies |-> IF d \in wiped THEN {}
                                                            ELSE known[d]]
    BY <1>2 DEF EraseTotalBlockSpace, Failures
  <2>2. /\ table' \in [Dies -> (SUBSET PhyBlocks) \cup {NoTable}]
        /\ unclean' \in [Dies -> SUBSET PhyBlocks]
        /\ known' \in [Dies -> SUBSET PhyBlocks]
    BY <2>1 DEF TypeOK
  <2>3. blockNo' \in 0 .. TOTAL_BLOCKS_PER_LUN /\ phase' \in Phases
    BY <1>2, BadBlocksAssumption DEF EraseTotalBlockSpace, TypeOK, Phases
  <2> QED
    BY <1>2, <2>1, <2>2, <2>3, BlocksFailTypes DEF EraseTotalBlockSpace, TypeOK
<1>3. CASE ReadBadBlockTable
  <2>1. [d \in Dies |-> Recovered(d)] \in [Dies -> SUBSET PhyBlocks]
    BY DEF Recovered, TableExists, TypeOK
  <2>2. bad' \in [Dies -> SUBSET PhyBlocks]
    BY <1>3, <1>0, <2>1 DEF ReadBadBlockTable, BeginRemap
  <2> QED
    BY <1>3, <1>0, <2>2 DEF ReadBadBlockTable, BeginRemap, TypeOK, Phases
<1>4. CASE FindBadBlock
  <2>1. PICK unread \in [Dies -> SUBSET PhyBlocks] :
          /\ bad' = [d \in Dies |-> IF dieState[d] = "NOT_EXIST"
                                    THEN unclean[d] \cup unread[d] ELSE bad[d]]
          /\ grownBadUpdate' = grownBadUpdate \cup {d \in Dies : unread[d] # {}}
          /\ worn' = [d \in Dies |-> worn[d] \cup unread[d]]
    BY <1>4 DEF FindBadBlock, Failures
  <2>2. /\ bad' \in [Dies -> SUBSET PhyBlocks]
        /\ worn' \in [Dies -> SUBSET PhyBlocks]
        /\ grownBadUpdate' \subseteq Dies
        /\ image' = bad'
    BY <1>4, <2>1 DEF TypeOK, FindBadBlock
  <2>3. queue' \in [Dies -> {"idle", "erase", "program"}]
    BY <1>4 DEF FindBadBlock, SaveRequests
  <2> QED
    BY <1>4, <2>2, <2>3 DEF FindBadBlock, TypeOK, Phases
<1>5. CASE RecoverReturns
  <2>1. bad' \in [Dies -> SUBSET PhyBlocks]
    BY <1>5, <1>0 DEF RecoverReturns, BeginRemap, TypeOK
  <2> QED
    BY <1>5, <1>0, <2>1 DEF RecoverReturns, BeginRemap, TypeOK, Phases
<1>6. CASE UpdateReturns
  BY <1>6, <1>0 DEF UpdateReturns, TypeOK, Phases
<1>7. CASE RemapBadBlock
  <2>1. ASSUME NEW d \in Dies, Spares(d) # {}
        PROVE  /\ FirstSpare(d) \in PhyBlocks
               /\ AfterSpare(d) \in 0 .. TOTAL_BLOCKS_PER_LUN
    <3>1. /\ FirstSpare(d) \in reservedBlock[d] .. TOTAL_BLOCKS_PER_LUN - 1
          /\ FirstSpare(d) \in PhyBlocks
      BY <2>1, SpareFound
    <3>2. reservedBlock[d] \in Nat
      BY BadBlocksAssumption DEF TypeOK
    <3> QED
      BY <3>1, <3>2, BadBlocksAssumption DEF AfterSpare
  <2>2. remappedPhyBlock' \in [Dies -> [UserBlocks -> PhyBlocks]]
    BY <1>7, <2>1 DEF RemapBadBlock, TypeOK
  <2>3. reservedBlock' \in [Dies -> 0 .. TOTAL_BLOCKS_PER_LUN]
    BY <1>7, <2>1, BadBlocksAssumption DEF RemapBadBlock, TypeOK
  <2>4. badBlockCount' \in [Dies -> Nat]
    BY <1>7 DEF RemapBadBlock, TypeOK
  <2>5. blockNo' \in 0 .. TOTAL_BLOCKS_PER_LUN
    BY <1>7, BadBlocksAssumption DEF RemapBadBlock, TypeOK
  <2> QED
    BY <1>7, <2>2, <2>3, <2>4, <2>5 DEF RemapBadBlock, TypeOK
<1>8. CASE InitBlockMap
  <2>1. vbad' \in [Dies -> SUBSET UserBlocks]
    BY <1>8 DEF InitBlockMap
  <2>2. badBlockSpace' \in Nat
    BY <1>8 DEF InitBlockMap, TypeOK
  <2> QED
    BY <1>8, <1>0, <2>1, <2>2 DEF InitBlockMap, TypeOK, Phases
<1>9. CASE OpenBlocks
  <2>1. PICK which \in [Dies -> SUBSET PhyBlocks] :
          /\ BlocksFail(which)
          /\ unclean' = IF eraseFlag
                        THEN [d \in Dies |-> unclean[d] \ (InUse(d) \ which[d])]
                        ELSE unclean
    BY <1>9, <1>0 DEF OpenBlocks, Failures
  <2>2. unclean' \in [Dies -> SUBSET PhyBlocks]
    BY <2>1 DEF TypeOK
  <2>3. phase' \in Phases
    BY <1>9 DEF OpenBlocks, Phases
  <2> QED
    BY <1>9, <2>1, <2>2, <2>3, BlocksFailTypes DEF OpenBlocks, TypeOK
<1>10. CASE UpdateBadBlockTableForGrownBadBlock
  <2>1. /\ image' \in [Dies -> SUBSET PhyBlocks]
        /\ dieState' \in [Dies -> {"NOT_EXIST", "EXIST", "HOLD", "UPDATE"}]
        /\ queue' \in [Dies -> {"idle", "erase", "program"}]
    BY <1>10 DEF UpdateBadBlockTableForGrownBadBlock, SaveRequests, TypeOK
  <2> QED
    BY <1>10, <2>1 DEF UpdateBadBlockTableForGrownBadBlock, TypeOK, Phases
<1>11. CASE PowerLoss
  <2>1. /\ known' \in [Dies -> SUBSET PhyBlocks]
        /\ lost' \in [Dies -> BOOLEAN]
    BY <1>11 DEF PowerLoss, TypeOK
  <2> QED
    BY <1>11, <1>0, <2>1 DEF PowerLoss, TypeOK, Phases
<1>12. ASSUME NEW d \in Dies, EraseTable(d)
       PROVE  TypeOK'
  BY <1>12 DEF EraseTable, TypeOK
<1>13. ASSUME NEW d \in Dies, ProgramTable(d)
       PROVE  TypeOK'
  <2>1. CASE table' = [table EXCEPT ![d] = image[d]]
             /\ known' = [known EXCEPT ![d] = image[d] \ {TableBlock}]
             /\ unsaved' = unsaved \ {d}
             /\ UNCHANGED <<bad, grownBadUpdate, worn>>
    BY <1>13, <2>1 DEF ProgramTable, TypeOK
  <2>2. CASE /\ \E which \in Failures([e \in Dies |-> IF e = d THEN {TableBlock}
                                                               ELSE {}]) :
                  which # None /\ BlocksFail(which)
             /\ known' = [known EXCEPT ![d] = {}]
             /\ unsaved' = IF phase = "saveNew" THEN unsaved \cup {d} ELSE unsaved
             /\ UNCHANGED table
    <3>1. PICK which \in [Dies -> SUBSET PhyBlocks] : BlocksFail(which)
      BY <2>2 DEF Failures
    <3> QED
      BY <1>13, <2>2, <3>1, BlocksFailTypes DEF ProgramTable, TypeOK
  <2> QED
    BY <1>13, <2>1, <2>2 DEF ProgramTable
<1>14. ASSUME NEW d \in Dies, NEW b \in PhyBlocks, NEW p \in Pages,
              WriteUserData(d, b, p) \/ EraseUserBlock(d, b)
       PROVE  TypeOK'
  <2> DEFINE at == {RowBlock(b, p)} \cap PhyBlocks
  <2>1. /\ \/ unclean' = [unclean EXCEPT ![d] = @ \cup at]
           \/ unclean' = [unclean EXCEPT ![d] = @ \ {b}]
        /\ UNCHANGED <<table, mapVars, stepVars, history>>
    BY <1>14 DEF WriteUserData, EraseUserBlock
  <2>2. unclean \in [Dies -> SUBSET PhyBlocks] /\ at \subseteq PhyBlocks
    BY DEF TypeOK
  <2> HIDE DEF at
  <2>3. CASE unclean' = [unclean EXCEPT ![d] = @ \cup at]
    BY <2>1, <2>2, <2>3 DEF TypeOK
  <2>4. CASE unclean' = [unclean EXCEPT ![d] = @ \ {b}]
    BY <2>1, <2>2, <2>4 DEF TypeOK
  <2> QED
    BY <2>1, <2>3, <2>4
<1>15. ASSUME NEW d \in Dies, NEW b \in PhyBlocks, NEW p \in Pages,
              BlockFails(d, b, p)
       PROVE  TypeOK'
  BY <1>15, BlockFailsRecorded, Recorded DEF TypeOK
<1>16. CASE UNCHANGED vars
  BY <1>16 DEF vars, TypeOK
<1> QED
  BY <1>1, <1>2, <1>3, <1>4, <1>5, <1>6, <1>7, <1>8, <1>9, <1>10, <1>11,
     <1>12, <1>13, <1>14, <1>15, <1>16, FirstPage DEF Next

\* For a device of any size every variable of bad block management keeps its
\* type; the search for spare blocks in RemapBadBlock never leaves the die.
THEOREM BadBlocksTypeCorrect == Spec => []TypeOK
BY TypeInit, TypeNext, PTL DEF Spec
-----------------------------------------------------------------------------
(* Remapping *)

\* The block of each virtual block while RemapBadBlock works its way up: its
\* own block, or a spare one below the next to be tried.
RemapProgress(d) ==
  /\ USER_BLOCKS_PER_LUN <= reservedBlock[d]
  /\ TableBlock \in bad[d]
  /\ \A v \in UserBlocks :
       \/ remappedPhyBlock[d][v] = v
       \/ /\ v < blockNo
          /\ USER_BLOCKS_PER_LUN <= remappedPhyBlock[d][v]
          /\ remappedPhyBlock[d][v] < reservedBlock[d]

Injective(d) ==
  \A v, w \in UserBlocks :
    remappedPhyBlock[d][v] = remappedPhyBlock[d][w] => v = w

RemapInv ==
  /\ \A d \in Dies : Injective(d)
  /\ phase \in {"off", "wipe", "read", "find", "saveNew"} =>
       /\ remappedPhyBlock = RemapNone
       /\ reservedBlock = Reserve
       /\ phase # "wipe" => blockNo = 0
  /\ phase = "remap" => \A d \in Dies : RemapProgress(d)
  /\ Mapped => \A d \in Dies : \A v \in UserBlocks \ vbad[d] :
                 remappedPhyBlock[d][v] # TableBlock

LEMMA RemapInit == Init => RemapInv
BY DEF Init, RemapInv, Injective, RemapNone, Mapped

\* BeginRemap starts the loop from the identity.
LEMMA RemapBegins ==
  ASSUME TypeOK, RemapInv, NEW recovered, BeginRemap(recovered),
         phase \in {"read", "saveNew"}
  PROVE  RemapInv'
<1>1. /\ remappedPhyBlock' = RemapNone
      /\ reservedBlock' = Reserve
      /\ blockNo' = 0
      /\ phase' = "remap"
      /\ \A d \in Dies : TableBlock \in bad'[d]
  BY DEF RemapInv, BeginRemap, scanVars
<1>2. \A d \in Dies : Injective(d)' /\ RemapProgress(d)'
  BY <1>1, BadBlocksAssumption DEF Injective, RemapProgress, RemapNone, Reserve
<1> QED
  BY <1>1, <1>2 DEF RemapInv, Mapped

\* One round of the loop of RemapBadBlock.
LEMMA RemapStep ==
  ASSUME TypeOK, RemapInv, RemapBadBlock
  PROVE  RemapInv'
<1> DEFINE b == blockNo
<1>1. /\ phase = "remap" /\ phase' = "remap"
      /\ b \in UserBlocks /\ b \in Nat /\ b < USER_BLOCKS_PER_LUN
      /\ blockNo' = b + 1
      /\ bad' = bad
  BY BadBlocksAssumption DEF RemapBadBlock, TypeOK, UserBlocks
<1>2. ASSUME NEW d \in Dies
      PROVE  Injective(d)' /\ RemapProgress(d)'
  <2>1. Injective(d) /\ RemapProgress(d)
    BY <1>1 DEF RemapInv
  <2>2. reservedBlock[d] \in Nat /\ reservedBlock[d] <= TOTAL_BLOCKS_PER_LUN
    BY BadBlocksAssumption DEF TypeOK
  <2>3. \A v \in UserBlocks : remappedPhyBlock[d][v] \in Nat /\ v \in Nat
                              /\ v < USER_BLOCKS_PER_LUN
    BY BadBlocksAssumption DEF TypeOK, PhyBlocks, UserBlocks
  <2>4. CASE b \in bad[d] /\ Spares(d) # {}
    <3> DEFINE r == FirstSpare(d)
    <3>1. r \in reservedBlock[d] .. TOTAL_BLOCKS_PER_LUN - 1
      BY <2>4, SpareFound
    <3>2. /\ r \in Nat /\ reservedBlock[d] <= r
          /\ remappedPhyBlock'[d] = [remappedPhyBlock[d] EXCEPT ![b] = r]
          /\ reservedBlock'[d] = r + 1
      BY <2>2, <2>4, <3>1, BadBlocksAssumption DEF RemapBadBlock, AfterSpare
    <3>3. \A v \in UserBlocks : remappedPhyBlock'[d][v] =
            IF v = b THEN r ELSE remappedPhyBlock[d][v]
      BY <1>1, <3>2 DEF TypeOK
    <3>4. \A v \in UserBlocks : remappedPhyBlock[d][v] # r
      BY <2>1, <2>2, <2>3, <3>2, BadBlocksAssumption DEF RemapProgress
    <3>5. Injective(d)'
      BY <2>1, <3>3, <3>4 DEF Injective
    <3>6. ASSUME NEW v \in UserBlocks, remappedPhyBlock'[d][v] # v
          PROVE  /\ v < b + 1
                 /\ USER_BLOCKS_PER_LUN <= remappedPhyBlock'[d][v]
                 /\ remappedPhyBlock'[d][v] < r + 1
      <4>1. CASE v = b
        BY <1>1, <2>1, <2>2, <3>2, <3>3, <4>1, BadBlocksAssumption
           DEF RemapProgress
      <4>2. CASE v # b
        BY <1>1, <2>1, <2>2, <2>3, <3>2, <3>3, <3>6, <4>2,
           BadBlocksAssumption DEF RemapProgress
      <4> QED
        BY <4>1, <4>2
    <3>7. RemapProgress(d)'
      BY <1>1, <2>1, <2>2, <3>2, <3>6, BadBlocksAssumption DEF RemapProgress
    <3> QED
      BY <3>5, <3>7
  <2>5. CASE ~ (b \in bad[d] /\ Spares(d) # {})
    <3>1. /\ remappedPhyBlock'[d] = remappedPhyBlock[d]
          /\ reservedBlock'[d] \in {reservedBlock[d], TOTAL_BLOCKS_PER_LUN}
      BY <2>5 DEF RemapBadBlock
    <3>2. Injective(d)'
      BY <2>1, <3>1 DEF Injective
    <3>3. RemapProgress(d)'
      BY <1>1, <2>1, <2>2, <2>3, <3>1, BadBlocksAssumption DEF RemapProgress
    <3> QED
      BY <3>2, <3>3
  <2> QED
    BY <2>4, <2>5
<1> QED
  BY <1>1, <1>2 DEF RemapInv, Mapped

LEMMA RemapNext == TypeOK /\ RemapInv /\ [Next]_vars => RemapInv'
<1> SUFFICES ASSUME TypeOK, RemapInv, [Next]_vars PROVE RemapInv'
  OBVIOUS
<1> USE DEF flashVars, mapVars, scanVars, saveVars, stepVars, history
<1>1. CASE PowerOn
  BY <1>1 DEF PowerOn, RemapInv, Injective, Mapped
<1>2. CASE EraseTotalBlockSpace
  BY <1>2 DEF EraseTotalBlockSpace, RemapInv, Injective, Mapped
<1>3. CASE ReadBadBlockTable
  <2>1. CASE BeginRemap([d \in Dies |-> Recovered(d)])
    BY <1>3, <2>1, RemapBegins DEF ReadBadBlockTable
  <2>2. CASE /\ phase' = "find"
             /\ UNCHANGED <<remappedPhyBlock, grownBadUpdate, vbad,
                            badBlockSpace, scanVars, eraseFlag, image>>
    BY <1>3, <2>2 DEF ReadBadBlockTable, RemapInv, Injective, Mapped
  <2> QED
    BY <1>3, <2>1, <2>2 DEF ReadBadBlockTable
<1>4. CASE FindBadBlock
  BY <1>4 DEF FindBadBlock, RemapInv, Injective, Mapped
<1>5. CASE RecoverReturns
  BY <1>5, RemapBegins DEF RecoverReturns
<1>6. CASE UpdateReturns
  BY <1>6 DEF UpdateReturns, RemapInv, Injective, Mapped
<1>7. CASE RemapBadBlock
  BY <1>7, RemapStep
<1>8. CASE InitBlockMap
  <2>1. ASSUME NEW d \in Dies, NEW v \in UserBlocks \ vbad'[d]
        PROVE  remappedPhyBlock'[d][v] # TableBlock
    BY <1>8, <2>1 DEF InitBlockMap, RemapInv, RemapProgress
  <2> QED
    BY <1>8, <2>1 DEF InitBlockMap, RemapInv, Injective, Mapped
<1>9. CASE OpenBlocks
  BY <1>9 DEF OpenBlocks, RemapInv, Injective, Mapped
<1>10. CASE UpdateBadBlockTableForGrownBadBlock
  BY <1>10 DEF UpdateBadBlockTableForGrownBadBlock, RemapInv, Injective, Mapped
<1>11. CASE PowerLoss
  BY <1>11 DEF PowerLoss, RemapInv, Injective, RemapNone, Mapped
<1>12. ASSUME NEW d \in Dies, EraseTable(d)
       PROVE  RemapInv'
  BY <1>12 DEF EraseTable, RemapInv, Injective, Mapped
<1>13. ASSUME NEW d \in Dies, ProgramTable(d)
       PROVE  RemapInv'
  BY <1>13 DEF ProgramTable, RemapInv, Injective, Mapped
<1>14. ASSUME NEW d \in Dies, NEW b \in PhyBlocks,
              NEW p \in Pages, \/ WriteUserData(d, b, p)
                              \/ EraseUserBlock(d, b)
                              \/ BlockFails(d, b, p)
       PROVE  RemapInv'
  BY <1>14 DEF WriteUserData, EraseUserBlock, BlockFails, RemapInv, Injective,
     RemapProgress, Mapped
<1>15. CASE UNCHANGED vars
  BY <1>15 DEF vars, RemapInv, RemapProgress, Injective, Mapped
<1> QED
  BY <1>1, <1>2, <1>3, <1>4, <1>5, <1>6, <1>7, <1>8, <1>9, <1>10, <1>11,
     <1>12, <1>13, <1>14, <1>15, FirstPage DEF Next

\* RemapBadBlock hands out each spare block once and never the block of the
\* table, whatever blocks are bad and however often the device restarts.
THEOREM PhysicalBlocksOwn == Spec => []OwnPhysicalBlock
<1>1. RemapInv => OwnPhysicalBlock
  BY DEF RemapInv, Injective, OwnPhysicalBlock
<1> QED
  BY <1>1, TypeInit, TypeNext, RemapInit, RemapNext, PTL DEF Spec
-----------------------------------------------------------------------------
(* The table and the memory of the firmware *)

\* The table of the die, if it has one, lists the bad blocks of its RAM map.
Agrees(d) ==
  table[d] = NoTable \/ table[d] \ {TableBlock} = bad[d] \ {TableBlock}

TableInv ==
  /\ \A d \in Dies : table[d] # NoTable => known[d] = table[d] \ {TableBlock}
  /\ phase \in {"off", "wipe", "read", "find"} =>
       \A d \in Dies : table[d] = NoTable => known[d] = {}
  /\ phase = "find" =>
       \A d \in Dies : \/ dieState[d] = "EXIST" /\ bad[d] = table[d]
                       \/ dieState[d] = "NOT_EXIST" /\ table[d] = NoTable
  /\ phase = "saveNew" =>
       \A d \in Dies : image[d] \ {TableBlock} = bad[d] \ {TableBlock}
  /\ phase \in {"saveNew", "remap", "mapped"} =>
       \A d \in Dies : Agrees(d) /\ known[d] \subseteq bad[d]
  /\ phase = "mapped" => \A d \in Dies : InUse(d) \cap bad[d] = {}
  /\ phase \in {"running", "saveGrown"} =>
       \A d \in Dies : d \in grownBadUpdate \/ Agrees(d)
  /\ phase = "saveGrown" =>
       \A d \in Dies : queue[d] # "idle" => d \in grownBadUpdate
  /\ phase \in {"saveNew", "saveGrown"} =>
       \A d \in Dies : queue[d] = "program" => table[d] = NoTable

\* Every table is told from an erased page.
LEMMA TableIsNotNoTable ==
  ASSUME NEW S \in SUBSET PhyBlocks
  PROVE  S # NoTable
BY BadBlocksAssumption DEF PhyBlocks, NoTable

LEMMA TableInit == Init => TableInv
BY DEF Init, TableInv, None

\* The end of RecoverBadBlockTable.
LEMMA TableBegins ==
  ASSUME TypeOK, NEW recovered, BeginRemap(recovered),
         UNCHANGED <<table, known>>,
         \A d \in Dies : /\ table[d] # NoTable => known[d] = table[d] \ {TableBlock}
                         /\ known[d] \subseteq recovered[d]
                         /\ \/ table[d] = NoTable
                            \/ table[d] \ {TableBlock} = recovered[d] \ {TableBlock}
  PROVE  TableInv'
BY DEF BeginRemap, TableInv, Agrees

LEMMA TableNext == TypeOK /\ TableInv /\ [Next]_vars => TableInv'
<1> SUFFICES ASSUME TypeOK, TableInv, [Next]_vars PROVE TableInv'
  OBVIOUS
<1> USE DEF flashVars, mapVars, scanVars, saveVars, stepVars, history
<1>1. CASE PowerOn
  BY <1>1 DEF PowerOn, TableInv
<1>2. CASE EraseTotalBlockSpace
  <2>1. /\ phase = "wipe" /\ phase' \in {"wipe", "read"}
        /\ \A d \in Dies : \/ table'[d] = table[d] /\ known'[d] = known[d]
                           \/ table'[d] = NoTable /\ known'[d] = {}
    BY <1>2 DEF EraseTotalBlockSpace
  <2> QED
    BY <2>1 DEF TableInv
<1>3. CASE ReadBadBlockTable
  <2>0. phase = "read" /\ UNCHANGED <<table, known>>
    BY <1>3 DEF ReadBadBlockTable
  <2>1. CASE /\ \A d \in Dies : TableExists(d)
             /\ BeginRemap([d \in Dies |-> Recovered(d)])
    <3>1. \A d \in Dies : /\ table[d] # NoTable
                          /\ [e \in Dies |-> Recovered(e)][d] = table[d]
      BY <2>1 DEF TableExists, Recovered
    <3> QED
      BY <2>0, <2>1, <3>1, TableBegins DEF TableInv
  <2>2. CASE /\ bad' = [d \in Dies |-> Recovered(d)] /\ phase' = "find"
             /\ dieState' = [d \in Dies |-> IF TableExists(d) THEN "EXIST"
                                                             ELSE "NOT_EXIST"]
    BY <2>0, <2>2 DEF TableInv, TableExists, Recovered
  <2> QED
    BY <1>3, <2>1, <2>2 DEF ReadBadBlockTable
<1>4. CASE FindBadBlock
  <2>1. /\ phase = "find" /\ phase' = "saveNew"
        /\ image' = bad' /\ UNCHANGED <<table, known>>
        /\ \A d \in Dies : dieState[d] = "EXIST" => bad'[d] = bad[d]
        /\ \A d \in Dies : queue'[d] # "program"
    BY <1>4 DEF FindBadBlock, SaveRequests
  <2>2. ASSUME NEW d \in Dies
        PROVE  Agrees(d)' /\ known'[d] \subseteq bad'[d]
    BY <2>1 DEF TableInv, Agrees
  <2> QED
    BY <2>1, <2>2 DEF TableInv
<1>5. CASE RecoverReturns
  BY <1>5, TableBegins DEF RecoverReturns, TableInv, Agrees
<1>6. CASE UpdateReturns
  BY <1>6 DEF UpdateReturns, TableInv, Agrees
<1>7. CASE RemapBadBlock
  BY <1>7 DEF RemapBadBlock, TableInv, Agrees
<1>8. CASE InitBlockMap
  <2>1. /\ phase = "remap" /\ phase' = "mapped"
        /\ UNCHANGED <<table, bad, known>>
    BY <1>8 DEF InitBlockMap
  <2>2. ASSUME NEW d \in Dies
        PROVE  InUse(d)' \cap bad'[d] = {}
    BY <1>8 DEF InitBlockMap, InUse
  <2> QED
    BY <2>1, <2>2 DEF TableInv, Agrees
<1>9. CASE OpenBlocks
  <2>1. PICK which \in [Dies -> SUBSET PhyBlocks] : BlocksFail(which)
    <3>1. None \in [Dies -> SUBSET PhyBlocks]
      BY DEF None
    <3> QED
      BY <1>9, <3>1 DEF OpenBlocks, Failures
  <2>2. /\ phase = "mapped" /\ phase' \in {"running", "halted"}
        /\ UNCHANGED <<table, known>>
    BY <1>9 DEF OpenBlocks
  <2>3. \A d \in Dies : d \in grownBadUpdate' \/ bad'[d] = bad[d]
    BY <2>1, Recorded DEF BlocksFail
  <2> QED
    BY <2>2, <2>3 DEF TableInv, Agrees
<1>10. CASE UpdateBadBlockTableForGrownBadBlock
  <2>1. \A d \in Dies : /\ queue'[d] # "idle" => d \in grownBadUpdate
                        /\ queue'[d] # "program"
    BY <1>10 DEF UpdateBadBlockTableForGrownBadBlock, SaveRequests
  <2> QED
    BY <1>10, <2>1 DEF UpdateBadBlockTableForGrownBadBlock, TableInv, Agrees
<1>11. CASE PowerLoss
  BY <1>11 DEF PowerLoss, TableInv
<1>12. ASSUME NEW d \in Dies, EraseTable(d)
       PROVE  TableInv'
  <2>1. /\ phase' = phase /\ phase \in {"saveNew", "saveGrown"}
        /\ UNCHANGED <<bad, grownBadUpdate, image, known>>
        /\ \A e \in Dies : table'[e] = table[e] \/ table'[e] = NoTable
        /\ \A e \in Dies : \/ queue'[e] = queue[e]
                           \/ queue[e] = "erase" /\ table'[e] = NoTable
    BY <1>12 DEF EraseTable, TypeOK
  <2> QED
    BY <2>1 DEF TableInv, Agrees
<1>13. ASSUME NEW d \in Dies, ProgramTable(d)
       PROVE  TableInv'
  <2>0. /\ phase' = phase /\ phase \in {"saveNew", "saveGrown"}
        /\ queue[d] = "program" /\ image' = image
        /\ \A e \in Dies : e # d => queue'[e] = queue[e]
        /\ queue'[d] = "idle"
    BY <1>13 DEF ProgramTable, TypeOK
  <2>1. CASE table' = [table EXCEPT ![d] = image[d]]
             /\ known' = [known EXCEPT ![d] = image[d] \ {TableBlock}]
             /\ UNCHANGED <<bad, grownBadUpdate, worn>>
    <3>1. ASSUME NEW e \in Dies
          PROVE  \/ e # d /\ table'[e] = table[e] /\ known'[e] = known[e]
                 \/ /\ e = d /\ table'[e] = image[e]
                    /\ known'[e] = image[e] \ {TableBlock}
      BY <2>1 DEF TypeOK
    <3>2. CASE phase = "saveNew"
      BY <2>0, <2>1, <3>1, <3>2 DEF TableInv, Agrees
    <3>3. CASE phase = "saveGrown"
      BY <2>0, <2>1, <3>1, <3>3 DEF TableInv, Agrees
    <3> QED
      BY <2>0, <3>2, <3>3
  <2>2. CASE /\ \E which \in Failures([e \in Dies |-> IF e = d THEN {TableBlock}
                                                               ELSE {}]) :
                  which # None /\ BlocksFail(which)
             /\ known' = [known EXCEPT ![d] = {}]
             /\ UNCHANGED table
    <3>1. PICK which \in [Dies -> SUBSET PhyBlocks] :
            /\ \A e \in Dies : which[e] \subseteq {TableBlock}
            /\ BlocksFail(which)
      BY <2>2 DEF Failures
    <3>2. \A e \in Dies : bad'[e] \ {TableBlock} = bad[e] \ {TableBlock}
      BY <3>1, Recorded DEF BlocksFail
    <3>3. \A e \in Dies : \/ known'[e] = known[e]
                          \/ known'[e] = {} /\ table[e] = NoTable
      BY <2>0, <2>2 DEF TableInv, TypeOK
    <3>4. \A e \in Dies : /\ bad[e] \subseteq bad'[e]
                          /\ e \in grownBadUpdate => e \in grownBadUpdate'
      BY <3>1, Recorded DEF BlocksFail
    <3> QED
      BY <2>0, <2>2, <3>2, <3>3, <3>4 DEF TableInv, Agrees
  <2> QED
    BY <1>13, <2>1, <2>2 DEF ProgramTable
<1>14. ASSUME NEW d \in Dies, NEW b \in PhyBlocks, NEW p \in Pages,
              WriteUserData(d, b, p) \/ EraseUserBlock(d, b)
       PROVE  TableInv'
  <2>1. UNCHANGED <<table, mapVars, stepVars, history>>
    BY <1>14 DEF WriteUserData, EraseUserBlock
  <2> QED
    BY <2>1 DEF TableInv, Agrees, InUse
<1>15. ASSUME NEW d \in Dies, NEW b \in PhyBlocks, NEW p \in Pages,
              BlockFails(d, b, p)
       PROVE  TableInv'
  <2>1. /\ UpdatePhyBlockMapForGrownBadBlock([None EXCEPT ![d] = {RowBlock(b, p)}])
        /\ phase \in {"running", "saveGrown"}
        /\ UNCHANGED <<table, known, phase, queue>>
    BY <1>15, BlockFailsRecorded
  <2>3. \A e \in Dies : /\ e \in grownBadUpdate' \/ bad'[e] = bad[e]
                        /\ e \in grownBadUpdate => e \in grownBadUpdate'
    BY <2>1, Recorded
  <2> QED
    BY <2>1, <2>3 DEF TableInv, Agrees
<1>16. CASE UNCHANGED vars
  BY <1>16 DEF vars, TableInv, Agrees, InUse
<1> QED
  BY <1>1, <1>2, <1>3, <1>4, <1>5, <1>6, <1>7, <1>8, <1>9, <1>10, <1>11,
     <1>12, <1>13, <1>14, <1>15, <1>16, FirstPage DEF Next

\* A block once written to the table of its die is out of use at every later
\* start that finds the table, though several actors rewrite it: the recovery
\* of a lost table, the shutdown, and the failures in between.
THEOREM SavedBadBlocksShunned == Spec => []SavedBadShunned
<1>1. TableInv => SavedBadShunned
  BY DEF TableInv, SavedBadShunned
<1> QED
  BY <1>1, TypeInit, TypeNext, TableInit, TableNext, PTL DEF Spec

\* A die without a table at work: this start could not write one, and has not
\* done so since, or a later failure has booked an update.
UnsavedInv ==
  /\ \A d \in unsaved : table[d] = NoTable
  /\ phase = "saveNew" =>
       \A d \in Dies : table[d] = NoTable => d \in unsaved \/ queue[d] # "idle"
  /\ phase \in {"remap", "mapped"} =>
       \A d \in Dies : table[d] = NoTable => d \in unsaved
  /\ phase \in {"running", "saveGrown"} =>
       \A d \in Dies : table[d] = NoTable => d \in unsaved \/ d \in grownBadUpdate

LEMMA UnsavedInit == Init => UnsavedInv
BY DEF Init, UnsavedInv

LEMMA UnsavedNext ==
  TypeOK /\ TypeOK' /\ TableInv /\ UnsavedInv /\ [Next]_vars => UnsavedInv'
<1> SUFFICES ASSUME TypeOK, TypeOK', TableInv, UnsavedInv, [Next]_vars
             PROVE  UnsavedInv'
  OBVIOUS
<1> USE DEF flashVars, mapVars, scanVars, saveVars, stepVars, history
<1>1. CASE PowerOn
  BY <1>1 DEF PowerOn, UnsavedInv
<1>2. CASE EraseTotalBlockSpace
  <2>1. /\ phase' \in {"wipe", "read"} /\ unsaved' = unsaved
        /\ \A d \in Dies : table'[d] = table[d] \/ table'[d] = NoTable
    BY <1>2 DEF EraseTotalBlockSpace
  <2> QED
    BY <2>1 DEF UnsavedInv, TypeOK
<1>3. CASE ReadBadBlockTable
  <2>1. /\ UNCHANGED <<table, unsaved>>
        /\ \/ phase' = "find"
           \/ phase' = "remap" /\ \A d \in Dies : table[d] # NoTable
    BY <1>3 DEF ReadBadBlockTable, BeginRemap, TableExists
  <2> QED
    BY <2>1 DEF UnsavedInv
<1>4. CASE FindBadBlock
  <2>1. /\ phase = "find" /\ phase' = "saveNew" /\ UNCHANGED <<table, unsaved>>
        /\ \A d \in Dies : dieState[d] = "NOT_EXIST" => queue'[d] = "erase"
    BY <1>4 DEF FindBadBlock, SaveRequests
  <2>2. \A d \in Dies : dieState[d] = "EXIST" => table[d] # NoTable
    BY <2>1, TableIsNotNoTable DEF TableInv, TypeOK
  <2>3. \A d \in Dies : table[d] = NoTable => queue'[d] # "idle"
    BY <2>1, <2>2 DEF TableInv
  <2> QED
    BY <2>1, <2>3 DEF UnsavedInv
<1>5. CASE RecoverReturns
  <2>1. /\ phase = "saveNew" /\ phase' = "remap" /\ UNCHANGED <<table, unsaved>>
        /\ \A d \in Dies : queue[d] = "idle"
    BY <1>5 DEF RecoverReturns, SaveDone, BeginRemap
  <2> QED
    BY <2>1 DEF UnsavedInv
<1>6. CASE UpdateReturns
  BY <1>6 DEF UpdateReturns, UnsavedInv
<1>7. CASE RemapBadBlock
  BY <1>7 DEF RemapBadBlock, UnsavedInv
<1>8. CASE InitBlockMap
  BY <1>8 DEF InitBlockMap, UnsavedInv
<1>9. CASE OpenBlocks
  <2>1. /\ phase = "mapped" /\ phase' \in {"running", "halted"}
        /\ UNCHANGED <<table, unsaved>>
    BY <1>9 DEF OpenBlocks
  <2> QED
    BY <2>1 DEF UnsavedInv
<1>10. CASE UpdateBadBlockTableForGrownBadBlock
  BY <1>10 DEF UpdateBadBlockTableForGrownBadBlock, UnsavedInv
<1>11. CASE PowerLoss
  BY <1>11 DEF PowerLoss, UnsavedInv
<1>12. ASSUME NEW d \in Dies, EraseTable(d)
       PROVE  UnsavedInv'
  <2>1. /\ phase' = phase /\ phase \in {"saveNew", "saveGrown"}
        /\ UNCHANGED <<grownBadUpdate, unsaved>>
        /\ queue[d] = "erase" /\ queue'[d] = "program"
        /\ \A e \in Dies : e # d => table'[e] = table[e] /\ queue'[e] = queue[e]
        /\ table'[d] = NoTable
    BY <1>12 DEF EraseTable, TypeOK
  <2>2. phase = "saveGrown" => d \in grownBadUpdate
    BY <2>1 DEF TableInv
  <2> QED
    BY <2>1, <2>2 DEF UnsavedInv, TypeOK
<1>13. ASSUME NEW d \in Dies, ProgramTable(d)
       PROVE  UnsavedInv'
  <2>1. /\ phase' = phase /\ phase \in {"saveNew", "saveGrown"}
        /\ table[d] = NoTable
        /\ \A e \in Dies : e # d => queue'[e] = queue[e]
    BY <1>13 DEF ProgramTable, TypeOK, TableInv
  <2>2. CASE /\ table' = [table EXCEPT ![d] = image[d]]
             /\ unsaved' = unsaved \ {d}
             /\ UNCHANGED <<bad, grownBadUpdate, worn>>
    <3>1. /\ \A e \in Dies : e # d => table'[e] = table[e]
          /\ table'[d] # NoTable
      BY <2>2, TableIsNotNoTable DEF TypeOK
    <3> QED
      BY <2>1, <2>2, <3>1 DEF UnsavedInv, TypeOK
  <2>3. CASE /\ \E which \in Failures([e \in Dies |-> IF e = d THEN {TableBlock}
                                                               ELSE {}]) :
                  which # None /\ BlocksFail(which)
             /\ unsaved' = IF phase = "saveNew" THEN unsaved \cup {d} ELSE unsaved
             /\ UNCHANGED table
    <3>1. PICK which \in [Dies -> SUBSET PhyBlocks] : BlocksFail(which)
      BY <2>3 DEF Failures
    <3>2. \A e \in Dies : e \in grownBadUpdate => e \in grownBadUpdate'
      BY <3>1, Recorded DEF BlocksFail
    <3>3. phase = "saveGrown" => d \in grownBadUpdate
      BY <1>13 DEF ProgramTable, TableInv
    <3> QED
      BY <2>1, <2>3, <3>2, <3>3 DEF UnsavedInv
  <2> QED
    BY <1>13, <2>2, <2>3 DEF ProgramTable
<1>14. ASSUME NEW d \in Dies, NEW b \in PhyBlocks, NEW p \in Pages,
              WriteUserData(d, b, p) \/ EraseUserBlock(d, b)
       PROVE  UnsavedInv'
  <2>1. UNCHANGED <<table, mapVars, stepVars, history>>
    BY <1>14 DEF WriteUserData, EraseUserBlock
  <2> QED
    BY <2>1 DEF UnsavedInv
<1>15. ASSUME NEW d \in Dies, NEW b \in PhyBlocks, NEW p \in Pages,
              BlockFails(d, b, p)
       PROVE  UnsavedInv'
  <2>1. /\ UpdatePhyBlockMapForGrownBadBlock([None EXCEPT ![d] = {RowBlock(b, p)}])
        /\ phase \in {"running", "saveGrown"}
        /\ UNCHANGED <<table, phase, unsaved>>
    BY <1>15, BlockFailsRecorded
  <2>2. \A e \in Dies : e \in grownBadUpdate => e \in grownBadUpdate'
    BY <2>1, Recorded
  <2> QED
    BY <2>1, <2>2 DEF UnsavedInv
<1>16. CASE UNCHANGED vars
  BY <1>16 DEF vars, UnsavedInv
<1> QED
  BY <1>1, <1>2, <1>3, <1>4, <1>5, <1>6, <1>7, <1>8, <1>9, <1>10, <1>11,
     <1>12, <1>13, <1>14, <1>15, <1>16, FirstPage DEF Next

\* Every bad block known to the running firmware is in the table of its die, or
\* that table's update is booked, and the only exception is a die for
\* which this start has failed to program a table: it has none in flash.
THEOREM FailuresBookedOrSaved == Spec => []BookedOrSaved
<1>1. TableInv /\ UnsavedInv => BookedOrSaved
  BY DEF TableInv, UnsavedInv, Agrees, BookedOrSaved
<1> QED
  BY <1>1, TypeInit, TypeNext, TableInit, TableNext, UnsavedInit, UnsavedNext,
     PTL DEF Spec
-----------------------------------------------------------------------------
(* Sound blocks *)

\* Blocks with a reason to be listed as bad.
Doomed(d) == Blamed(worn[d]) \cup {TableBlock}

\* A block is to blame for its own failures, and for those of more blocks the
\* more there are.
LEMMA BlamedGrows ==
  ASSUME NEW S \in SUBSET PhyBlocks, NEW T \in SUBSET PhyBlocks
  PROVE  /\ S \subseteq Blamed(S)
         /\ Blamed(S \cup T) = Blamed(S) \cup Blamed(T)
<1>1. S \subseteq Blamed(S)
  BY FirstPage DEF Blamed
<1>2. Blamed(S \cup T) = Blamed(S) \cup Blamed(T)
  BY DEF Blamed
<1> QED
  BY <1>1, <1>2

\* Wherever a die keeps a set of bad blocks, a sound block is not in it, for
\* each such place may become the RAM map of a later start.
SoundBlocksKept(d) ==
  /\ bad[d] \subseteq Doomed(d)
  /\ image[d] \subseteq Doomed(d)
  /\ table[d] # NoTable => table[d] \subseteq Doomed(d)
  /\ phase \in {"off", "read", "find"} /\ table[d] = NoTable =>
       unclean[d] \subseteq Doomed(d)
  /\ phase = "wipe" => \A b \in unclean[d] : b < blockNo => b \in Doomed(d)

LossInv == \A d \in Dies : ~ lost[d] => SoundBlocksKept(d)

LEMMA LossInit == Init => LossInv
<1>1. Init => \A d \in Dies : unclean[d] \subseteq Blamed(worn[d])
  BY BlamedGrows DEF Init
<1> QED
  BY <1>1 DEF Init, LossInv, SoundBlocksKept, Doomed, None

\* Failures of whole blocks.
LEMMA DoomedGrows ==
  ASSUME TypeOK, NEW which \in [Dies -> SUBSET PhyBlocks], BlocksFail(which),
         NEW d \in Dies
  PROVE  /\ bad'[d] = bad[d] \cup which[d]
         /\ Doomed(d) \subseteq Doomed(d)'
         /\ which[d] \subseteq Doomed(d)'
<1>1. /\ UpdatePhyBlockMapForGrownBadBlock(which)
      /\ worn'[d] = worn[d] \cup which[d]
  BY DEF BlocksFail
<1>2. which[d] \subseteq PhyBlocks /\ worn[d] \subseteq PhyBlocks
  BY DEF TypeOK
<1>3. bad'[d] = bad[d] \cup which[d]
  BY <1>1, <1>2, Recorded
<1>4. /\ Blamed(worn'[d]) = Blamed(worn[d]) \cup Blamed(which[d])
      /\ which[d] \subseteq Blamed(which[d])
  BY <1>1, <1>2, BlamedGrows
<1>5. Doomed(d)' = Blamed(worn'[d]) \cup {TableBlock}
  BY DEF Doomed, Blamed
<1> QED
  BY <1>3, <1>4, <1>5 DEF Doomed

\* A step that only records failures, or touches none of this.
LEMMA FailuresKeepSoundBlocks ==
  ASSUME TypeOK, LossInv, NEW which \in [Dies -> SUBSET PhyBlocks],
         BlocksFail(which),
         UNCHANGED <<image, table, lost>>,
         phase' \notin {"off", "read", "find", "wipe"}
  PROVE  LossInv'
<1>1. \A d \in Dies : /\ bad'[d] = bad[d] \cup which[d]
                      /\ Doomed(d) \subseteq Doomed(d)'
                      /\ which[d] \subseteq Doomed(d)'
  BY DoomedGrows
<1>2. ASSUME NEW d \in Dies, ~ lost[d] PROVE SoundBlocksKept(d)'
  <2>1. SoundBlocksKept(d)
    BY <1>2 DEF LossInv
  <2> QED
    BY <1>1, <2>1 DEF SoundBlocksKept
<1> QED
  BY <1>2 DEF LossInv

LEMMA LossBegins ==
  ASSUME TypeOK, NEW recovered, BeginRemap(recovered), LossInv,
         UNCHANGED <<table, worn, lost>>,
         \A d \in Dies : ~ lost[d] => recovered[d] \subseteq Doomed(d)
  PROVE  LossInv'
BY DEF BeginRemap, LossInv, SoundBlocksKept, Doomed, None

LEMMA LossNext == TypeOK /\ RemapInv /\ TableInv /\ LossInv /\ [Next]_vars => LossInv'
<1> SUFFICES ASSUME TypeOK, RemapInv, TableInv, LossInv, [Next]_vars
             PROVE  LossInv'
  OBVIOUS
<1> USE DEF flashVars, mapVars, scanVars, saveVars, stepVars, history
<1>1. CASE PowerOn
  <2>1. /\ phase = "off" /\ phase' \in {"wipe", "read"} /\ blockNo' = 0
        /\ UNCHANGED <<bad, image, table, unclean, worn, lost>>
    BY <1>1 DEF PowerOn, RemapInv
  <2>2. \A d \in Dies : \A b \in unclean[d] : ~ (b < 0)
    BY DEF TypeOK, PhyBlocks
  <2> QED
    BY <2>1, <2>2 DEF LossInv, SoundBlocksKept, Doomed
<1>2. CASE EraseTotalBlockSpace
  <2>1. PICK which \in [Dies -> SUBSET PhyBlocks] :
          /\ BlocksFail(which)
          /\ unclean' = [d \in Dies |-> unclean[d] \ ({blockNo} \ which[d])]
    BY <1>2 DEF EraseTotalBlockSpace, Failures
  <2>2. /\ phase = "wipe" /\ UNCHANGED <<image, lost>>
        /\ \A d \in Dies : table'[d] = table[d] \/ table'[d] = NoTable
        /\ \/ blockNo' = blockNo + 1 /\ phase' = "wipe"
           \/ blockNo + 1 >= TOTAL_BLOCKS_PER_LUN /\ phase' = "read"
    BY <1>2, BadBlocksAssumption DEF EraseTotalBlockSpace, TypeOK
  <2>3. ASSUME NEW d \in Dies, ~ lost[d]
        PROVE  SoundBlocksKept(d)'
    <3>1. SoundBlocksKept(d)
      BY <2>3 DEF LossInv
    <3>2. /\ bad'[d] = bad[d] \cup which[d]
          /\ Doomed(d) \subseteq Doomed(d)'
          /\ which[d] \subseteq Doomed(d)'
      BY <2>1, DoomedGrows
    <3>3. ASSUME NEW b \in unclean'[d], b < blockNo + 1
          PROVE  b \in Doomed(d)'
      <4>1. /\ b \in unclean[d] /\ b \in Nat /\ blockNo \in Nat
            /\ b = blockNo => b \in which[d]
        BY <2>1, <3>3, BadBlocksAssumption DEF TypeOK, PhyBlocks
      <4> QED
        BY <2>2, <3>1, <3>2, <3>3, <4>1 DEF SoundBlocksKept
    <3>4. CASE phase' = "wipe"
      BY <2>2, <3>1, <3>2, <3>3, <3>4 DEF SoundBlocksKept
    <3>5. CASE phase' = "read"
      <4>1. \A b \in unclean'[d] : b < blockNo + 1
        BY <2>1, <2>2, <3>5, BadBlocksAssumption DEF TypeOK, PhyBlocks
      <4>2. unclean'[d] \subseteq Doomed(d)'
        BY <3>3, <4>1
      <4> QED
        BY <2>2, <3>1, <3>2, <3>5, <4>2 DEF SoundBlocksKept
    <3> QED
      BY <2>2, <3>4, <3>5
  <2> QED
    BY <2>2, <2>3 DEF LossInv
<1>3. CASE ReadBadBlockTable
  <2>1. /\ phase = "read" /\ UNCHANGED <<flashVars, history>>
        /\ \A d \in Dies : ~ lost[d] => Recovered(d) \subseteq Doomed(d)
    BY <1>3 DEF ReadBadBlockTable, Recovered, TableExists, LossInv,
       SoundBlocksKept
  <2>2. CASE BeginRemap([d \in Dies |-> Recovered(d)])
    BY <2>1, <2>2, LossBegins
  <2>3. CASE /\ bad' = [d \in Dies |-> Recovered(d)] /\ phase' = "find"
             /\ UNCHANGED image
    BY <2>1, <2>3 DEF LossInv, SoundBlocksKept, Doomed
  <2> QED
    BY <1>3, <2>2, <2>3 DEF ReadBadBlockTable
<1>4. CASE FindBadBlock
  <2>1. PICK unread \in [Dies -> SUBSET PhyBlocks] :
          /\ bad' = [d \in Dies |-> IF dieState[d] = "NOT_EXIST"
                                    THEN unclean[d] \cup unread[d] ELSE bad[d]]
          /\ worn' = [d \in Dies |-> worn[d] \cup unread[d]]
    BY <1>4 DEF FindBadBlock, Failures
  <2>2. /\ phase = "find" /\ phase' = "saveNew" /\ image' = bad'
        /\ UNCHANGED <<table, lost>>
    BY <1>4 DEF FindBadBlock
  <2>3. ASSUME NEW d \in Dies, ~ lost[d]
        PROVE  SoundBlocksKept(d)'
    <3>1. SoundBlocksKept(d)
      BY <2>3 DEF LossInv
    <3>2. Doomed(d) \subseteq Doomed(d)' /\ unread[d] \subseteq Doomed(d)'
      <4>1. /\ worn[d] \subseteq PhyBlocks /\ unread[d] \subseteq PhyBlocks
            /\ worn'[d] = worn[d] \cup unread[d]
        BY <2>1 DEF TypeOK
      <4>2. /\ Blamed(worn'[d]) = Blamed(worn[d]) \cup Blamed(unread[d])
            /\ unread[d] \subseteq Blamed(unread[d])
        BY <4>1, BlamedGrows
      <4>3. Doomed(d)' = Blamed(worn'[d]) \cup {TableBlock}
        BY DEF Doomed, Blamed
      <4> QED
        BY <4>2, <4>3 DEF Doomed
    <3>3. bad'[d] \subseteq Doomed(d)'
      BY <2>1, <2>2, <3>1, <3>2 DEF TableInv, SoundBlocksKept
    <3> QED
      BY <2>2, <3>1, <3>2, <3>3 DEF SoundBlocksKept
  <2> QED
    BY <2>2, <2>3 DEF LossInv
<1>5. CASE RecoverReturns
  BY <1>5, LossBegins DEF RecoverReturns, LossInv, SoundBlocksKept
<1>6. CASE UpdateReturns
  BY <1>6 DEF UpdateReturns, LossInv, SoundBlocksKept, Doomed, None
<1>7. CASE RemapBadBlock
  BY <1>7 DEF RemapBadBlock, LossInv, SoundBlocksKept, Doomed
<1>8. CASE InitBlockMap
  BY <1>8 DEF InitBlockMap, LossInv, SoundBlocksKept, Doomed
<1>9. CASE OpenBlocks
  <2>1. PICK which \in [Dies -> SUBSET PhyBlocks] : BlocksFail(which)
    <3>1. None \in [Dies -> SUBSET PhyBlocks]
      BY DEF None
    <3> QED
      BY <1>9, <3>1 DEF OpenBlocks, Failures
  <2> QED
    BY <1>9, <2>1, FailuresKeepSoundBlocks DEF OpenBlocks
<1>10. CASE UpdateBadBlockTableForGrownBadBlock
  <2>1. /\ phase' = "saveGrown" /\ UNCHANGED <<bad, table, worn, lost>>
        /\ \A d \in Dies : image'[d] \subseteq bad[d]
    BY <1>10 DEF UpdateBadBlockTableForGrownBadBlock
  <2> QED
    BY <2>1 DEF LossInv, SoundBlocksKept, Doomed
<1>11. CASE PowerLoss
  <2>1. ASSUME NEW d \in Dies, ~ lost'[d]
        PROVE  SoundBlocksKept(d)'
    <3>1. /\ ~ lost[d]
          /\ table[d] = NoTable => unclean[d] \subseteq worn[d]
          /\ bad'[d] = {} /\ image'[d] = {} /\ phase' = "off"
          /\ UNCHANGED <<table, unclean, worn>>
      BY <1>11, <2>1 DEF PowerLoss, None
    <3>2. SoundBlocksKept(d)
      BY <3>1 DEF LossInv
    <3>3. worn[d] \subseteq Doomed(d)
      BY BlamedGrows DEF Doomed, TypeOK
    <3>4. Doomed(d)' = Doomed(d)
      BY <3>1 DEF Doomed
    <3> QED
      BY <3>1, <3>2, <3>3, <3>4 DEF SoundBlocksKept
  <2> QED
    BY <2>1 DEF LossInv
<1>12. ASSUME NEW d \in Dies, EraseTable(d)
       PROVE  LossInv'
  <2>1. /\ phase' = phase /\ phase \in {"saveNew", "saveGrown"}
        /\ UNCHANGED <<bad, image, worn, lost>>
        /\ \A e \in Dies : table'[e] = table[e] \/ table'[e] = NoTable
    BY <1>12 DEF EraseTable, TypeOK
  <2> QED
    BY <2>1 DEF LossInv, SoundBlocksKept, Doomed
<1>13. ASSUME NEW d \in Dies, ProgramTable(d)
       PROVE  LossInv'
  <2>0. /\ phase' = phase /\ phase \in {"saveNew", "saveGrown"}
        /\ UNCHANGED <<image, lost>>
    BY <1>13 DEF ProgramTable
  <2>1. CASE /\ table' = [table EXCEPT ![d] = image[d]]
             /\ UNCHANGED <<bad, grownBadUpdate, worn>>
    <3>1. \A e \in Dies : table'[e] = table[e] \/ table'[e] = image[e]
      BY <2>1 DEF TypeOK
    <3> QED
      BY <2>0, <2>1, <3>1 DEF LossInv, SoundBlocksKept, Doomed
  <2>2. CASE /\ \E which \in Failures([e \in Dies |-> IF e = d THEN {TableBlock}
                                                               ELSE {}]) :
                  which # None /\ BlocksFail(which)
             /\ UNCHANGED table
    <3>1. PICK which \in [Dies -> SUBSET PhyBlocks] : BlocksFail(which)
      BY <2>2 DEF Failures
    <3> QED
      BY <2>0, <2>2, <3>1, FailuresKeepSoundBlocks
  <2> QED
    BY <1>13, <2>1, <2>2 DEF ProgramTable
<1>14. ASSUME NEW d \in Dies, NEW b \in PhyBlocks, NEW p \in Pages,
              WriteUserData(d, b, p) \/ EraseUserBlock(d, b)
       PROVE  LossInv'
  <2>1. phase = "running" /\ UNCHANGED <<table, mapVars, stepVars, history>>
    BY <1>14 DEF WriteUserData, EraseUserBlock
  <2> QED
    BY <2>1 DEF LossInv, SoundBlocksKept, Doomed
<1>15. ASSUME NEW d \in Dies, NEW b \in PhyBlocks, NEW p \in Pages,
              BlockFails(d, b, p)
       PROVE  LossInv'
  <2>1. /\ UpdatePhyBlockMapForGrownBadBlock([None EXCEPT ![d] = {RowBlock(b, p)}])
        /\ worn' = [worn EXCEPT ![d] = @ \cup {b}]
        /\ phase' \in {"running", "saveGrown"}
        /\ UNCHANGED <<image, table, lost>>
    BY <1>15, BlockFailsRecorded
  <2>2. ASSUME NEW e \in Dies
        PROVE  /\ Doomed(e) \subseteq Doomed(e)'
               /\ e = d => RowBlock(b, p) \in Doomed(e)'
    <3>1. /\ worn[e] \subseteq PhyBlocks /\ {b} \subseteq PhyBlocks
          /\ worn'[e] = IF e = d THEN worn[e] \cup {b} ELSE worn[e]
      BY <2>1 DEF TypeOK
    <3>2. Blamed(worn[e] \cup {b}) = Blamed(worn[e]) \cup Blamed({b})
      BY <3>1, BlamedGrows
    <3>3. RowBlock(b, p) \in Blamed({b})
      BY DEF Blamed
    <3>4. Doomed(e)' = Blamed(worn'[e]) \cup {TableBlock}
      BY DEF Doomed, Blamed
    <3> QED
      BY <3>1, <3>2, <3>3, <3>4 DEF Doomed
  <2>3. ASSUME NEW e \in Dies
        PROVE  bad'[e] \subseteq bad[e] \cup Doomed(e)'
    <3>1. bad'[e] = bad[e] \cup ([None EXCEPT ![d] = {RowBlock(b, p)}][e] \cap PhyBlocks)
      BY <2>1, Recorded
    <3>2. [None EXCEPT ![d] = {RowBlock(b, p)}][e] =
            IF e = d THEN {RowBlock(b, p)} ELSE {}
      BY DEF None
    <3> QED
      BY <2>2, <3>1, <3>2
  <2>4. ASSUME NEW e \in Dies, ~ lost[e] PROVE SoundBlocksKept(e)'
    <3>1. SoundBlocksKept(e)
      BY <2>4 DEF LossInv
    <3> QED
      BY <2>1, <2>2, <2>3, <3>1 DEF SoundBlocksKept
  <2> QED
    BY <2>1, <2>4 DEF LossInv
<1>16. CASE UNCHANGED vars
  BY <1>16 DEF vars, LossInv, SoundBlocksKept, Doomed
<1> QED
  BY <1>1, <1>2, <1>3, <1>4, <1>5, <1>6, <1>7, <1>8, <1>9, <1>10, <1>11,
     <1>12, <1>13, <1>14, <1>15, <1>16, FirstPage DEF Next

\* As long as power is not lost while a die in use has no table, no block leaves
\* use but the ones that failed, and the blocks behind these to which the row
\* arithmetic of the scheduler has a failure recorded.
THEOREM SoundBlocksNotRetired == Spec => []RetiredOnlyIfWorn
<1>1. LossInv => RetiredOnlyIfWorn
  BY DEF LossInv, SoundBlocksKept, Doomed, RetiredOnlyIfWorn
<1> QED
  BY <1>1, TypeInit, TypeNext, RemapInit, RemapNext, TableInit, TableNext,
     LossInit, LossNext, PTL DEF Spec

\* Where the pages of a block have rows in the block itself, only blocks that
\* failed leave use.  The configuration of the repository is not of this kind.
THEOREM OnlyWornRetired ==
  RowsFit(USER_PAGES_PER_BLOCK) /\ Spec =>
    [](\A d \in Dies : ~ lost[d] => bad[d] \subseteq worn[d] \cup {TableBlock})
<1> SUFFICES ASSUME RowsFit(USER_PAGES_PER_BLOCK)
             PROVE  Spec =>
    [](\A d \in Dies : ~ lost[d] => bad[d] \subseteq worn[d] \cup {TableBlock})
  OBVIOUS
<1>1. ASSUME TypeOK, RetiredOnlyIfWorn
      PROVE  \A d \in Dies : ~ lost[d] => bad[d] \subseteq worn[d] \cup {TableBlock}
  <2>1. ASSUME NEW b \in PhyBlocks, NEW p \in Pages PROVE RowBlock(b, p) = b
    <3>1. Vpage2PlsbPageTranslation(p) < PAGES_PER_MLC_BLOCK
      BY <1>1, BadBlocksAssumption, RowsAssumption
      DEF RowsFit, Vpage2PlsbPageTranslation, Pages
    <3> QED
      BY <3>1, RowBlockOwn
  <2>2. \A d \in Dies : Blamed(worn[d]) \subseteq worn[d]
    BY <1>1, <2>1 DEF Blamed, TypeOK
  <2> QED
    BY <1>1, <2>2 DEF RetiredOnlyIfWorn
<1> QED
  BY <1>1, BadBlocksTypeCorrect, SoundBlocksNotRetired, PTL
-----------------------------------------------------------------------------
(* Capacity *)

\* The blocks RemapBadBlock has passed and found no spare for.
Unspared(d) ==
  {v \in UserBlocks : v < blockNo /\ remappedPhyBlock[d][v] \in bad[d]}

CapacityInv ==
  /\ phase = "remap" =>
       \A d \in Dies : Cardinality(Unspared(d)) <= badBlockCount[d]
  /\ CapacityCovered

\* A set grows by at most one when one element is added.
LEMMA AtMostOneMore ==
  ASSUME NEW S, IsFiniteSet(S), NEW x, NEW T, T \subseteq S \cup {x}
  PROVE  Cardinality(T) \in Nat /\ Cardinality(T) <= Cardinality(S) + 1
<1>1. /\ IsFiniteSet(S \cup {x})
      /\ Cardinality(S \cup {x}) = IF x \in S THEN Cardinality(S)
                                              ELSE Cardinality(S) + 1
  BY FS_AddElement
<1>2. IsFiniteSet(T) /\ Cardinality(T) <= Cardinality(S \cup {x})
  BY <1>1, FS_Subset
<1>3. /\ Cardinality(S) \in Nat /\ Cardinality(T) \in Nat
      /\ Cardinality(S \cup {x}) \in Nat
  BY <1>1, <1>2, FS_CardinalityType
<1> QED
  BY <1>1, <1>2, <1>3

\* The loop begins with no block passed.
LEMMA CapacityBegins ==
  ASSUME TypeOK', RemapInv, NEW recovered, BeginRemap(recovered),
         phase \in {"read", "saveNew"}
  PROVE  CapacityInv'
<1>1. blockNo' = 0 /\ phase' = "remap"
  BY DEF RemapInv, BeginRemap, scanVars
<1>2. ASSUME NEW d \in Dies PROVE Cardinality(Unspared(d)') <= badBlockCount'[d]
  <2>1. Unspared(d)' = {}
    BY <1>1, BadBlocksAssumption DEF Unspared, UserBlocks
  <2> QED
    BY <2>1, FS_EmptySet DEF TypeOK
<1> QED
  BY <1>1, <1>2 DEF CapacityInv, CapacityCovered, Mapped

\* One round of the loop: a block without a spare is counted as lost.
LEMMA CapacityStep ==
  ASSUME TypeOK, RemapInv, CapacityInv, RemapBadBlock
  PROVE  CapacityInv'
<1> DEFINE b == blockNo
<1>1. /\ phase = "remap" /\ phase' = "remap"
      /\ b \in UserBlocks /\ b \in Nat
      /\ blockNo' = b + 1
      /\ bad' = bad
  BY BadBlocksAssumption DEF RemapBadBlock, TypeOK, UserBlocks
<1>2. ASSUME NEW d \in Dies PROVE Cardinality(Unspared(d)') <= badBlockCount'[d]
  <2> DEFINE lacks == b \in bad[d] /\ Spares(d) = {}
  <2>1. /\ Unspared(d) \subseteq UserBlocks /\ UserBlocks \subseteq Int
        /\ IsFiniteSet(UserBlocks)
    BY FS_Interval, BadBlocksAssumption DEF Unspared, UserBlocks
  <2>2. IsFiniteSet(Unspared(d)) /\ Cardinality(Unspared(d)) \in Nat
    BY <2>1, FS_Subset, FS_CardinalityType
  <2>3. Cardinality(Unspared(d)) <= badBlockCount[d] /\ badBlockCount[d] \in Nat
    BY <1>1 DEF CapacityInv, TypeOK
  <2>4. /\ badBlockCount'[d] \in Nat
        /\ badBlockCount'[d] >= badBlockCount[d] + (IF lacks THEN 1 ELSE 0)
    BY <2>3 DEF RemapBadBlock
  <2>5. /\ remappedPhyBlock[d][b] = b
        /\ \A v \in UserBlocks :
             v # b => remappedPhyBlock'[d][v] = remappedPhyBlock[d][v]
    BY <1>1, <2>1 DEF RemapInv, RemapProgress, RemapBadBlock, TypeOK
  <2>6. remappedPhyBlock'[d][b] \in bad[d] <=> lacks
    <3>1. CASE b \in bad[d] /\ Spares(d) # {}
      BY <1>1, <3>1, SpareFound DEF RemapBadBlock, TypeOK
    <3>2. CASE ~ (b \in bad[d] /\ Spares(d) # {})
      BY <2>5, <3>2 DEF RemapBadBlock
    <3> QED
      BY <3>1, <3>2
  <2>7. \A v \in UserBlocks : v < b + 1 <=> v < b \/ v = b
    BY <1>1, <2>1
  <2>8. CASE lacks
    <3>1. Unspared(d)' \subseteq Unspared(d) \cup {b}
      BY <1>1, <2>5, <2>7 DEF Unspared
    <3>2. /\ Cardinality(Unspared(d)') \in Nat
          /\ Cardinality(Unspared(d)') <= Cardinality(Unspared(d)) + 1
      BY <2>2, <3>1, AtMostOneMore
    <3> QED
      BY <2>2, <2>3, <2>4, <2>8, <3>2
  <2>9. CASE ~ lacks
    <3>1. \A v \in UserBlocks :
            v < b + 1 /\ remappedPhyBlock'[d][v] \in bad[d] <=>
            v < b /\ remappedPhyBlock[d][v] \in bad[d]
      BY <1>1, <2>1, <2>5, <2>6, <2>7, <2>9
    <3>2. Unspared(d)' = Unspared(d)
      BY <1>1, <3>1 DEF Unspared
    <3> QED
      BY <2>2, <2>3, <2>4, <3>2
  <2> QED
    BY <2>8, <2>9
<1> QED
  BY <1>1, <1>2 DEF CapacityInv, CapacityCovered, Mapped

\* The worst die sets the capacity given up on all.
LEMMA CapacityEnds ==
  ASSUME TypeOK, CapacityInv, InitBlockMap
  PROVE  CapacityInv'
<1>1. /\ phase = "remap" /\ phase' = "mapped"
      /\ blockNo = USER_BLOCKS_PER_LUN
  BY DEF InitBlockMap
<1>2. ASSUME NEW d \in Dies PROVE Cardinality(vbad'[d]) <= badBlockSpace'
  <2>1. vbad'[d] = Unspared(d)
    BY <1>1, BadBlocksAssumption DEF InitBlockMap, Unspared, UserBlocks
  <2>2. /\ badBlockCount[d] \in Nat /\ badBlockSpace' \in Nat
        /\ badBlockCount[d] <= badBlockSpace'
    BY DEF InitBlockMap, TypeOK
  <2>3. IsFiniteSet(Unspared(d))
    <3>1. IsFiniteSet(UserBlocks)
      BY FS_Interval, BadBlocksAssumption DEF UserBlocks
    <3>2. Unspared(d) \subseteq UserBlocks
      BY DEF Unspared
    <3> QED
      BY <3>1, <3>2, FS_Subset
  <2>4. /\ Cardinality(Unspared(d)) \in Nat
        /\ Cardinality(Unspared(d)) <= badBlockCount[d]
    BY <1>1, <2>3, FS_CardinalityType DEF CapacityInv
  <2> QED
    BY <2>1, <2>2, <2>4
<1> QED
  BY <1>1, <1>2 DEF CapacityInv, CapacityCovered, Mapped

\* All other steps leave the count, or the space given up, alone.
LEMMA CapacityNext ==
  ASSUME TypeOK, TypeOK', RemapInv, CapacityInv, [Next]_vars
  PROVE  CapacityInv'
<1> USE DEF flashVars, mapVars, scanVars, saveVars, stepVars, history,
            CapacityInv, CapacityCovered, Unspared, Mapped
<1>1. CASE PowerOn
  BY <1>1 DEF PowerOn
<1>2. CASE EraseTotalBlockSpace
  BY <1>2 DEF EraseTotalBlockSpace
<1>3. CASE ReadBadBlockTable
  BY <1>3, CapacityBegins DEF ReadBadBlockTable
<1>4. CASE FindBadBlock
  BY <1>4 DEF FindBadBlock
<1>5. CASE RecoverReturns
  BY <1>5, CapacityBegins DEF RecoverReturns
<1>6. CASE UpdateReturns
  BY <1>6 DEF UpdateReturns
<1>7. CASE RemapBadBlock
  BY <1>7, CapacityStep
<1>8. CASE InitBlockMap
  BY <1>8, CapacityEnds
<1>9. CASE OpenBlocks
  BY <1>9 DEF OpenBlocks
<1>10. CASE UpdateBadBlockTableForGrownBadBlock
  BY <1>10 DEF UpdateBadBlockTableForGrownBadBlock
<1>11. CASE PowerLoss
  BY <1>11 DEF PowerLoss
<1>12. ASSUME NEW d \in Dies, EraseTable(d) \/ ProgramTable(d)
       PROVE  CapacityInv'
  BY <1>12 DEF EraseTable, ProgramTable
<1>13. ASSUME NEW d \in Dies, NEW b \in PhyBlocks,
              NEW p \in Pages, \/ WriteUserData(d, b, p)
                              \/ EraseUserBlock(d, b)
                              \/ BlockFails(d, b, p)
       PROVE  CapacityInv'
  BY <1>13 DEF WriteUserData, EraseUserBlock, BlockFails
<1>14. CASE UNCHANGED vars
  BY <1>14 DEF vars
<1> QED
  BY <1>1, <1>2, <1>3, <1>4, <1>5, <1>6, <1>7, <1>8, <1>9, <1>10, <1>11,
     <1>12, <1>13, <1>14, FirstPage DEF Next

\* Every virtual block that must stay unused is counted once, so the space the
\* firmware gives up on each die covers the die that has lost most.
THEOREM CapacityAlwaysCovered == Spec => []CapacityCovered
<1>1. Init => CapacityInv
  BY DEF Init, CapacityInv, CapacityCovered, Mapped
<1>2. TypeOK /\ TypeOK' /\ RemapInv /\ CapacityInv /\ [Next]_vars => CapacityInv'
  BY CapacityNext
<1>3. CapacityInv => CapacityCovered
  BY DEF CapacityInv
<1> QED
  BY <1>1, <1>2, <1>3, TypeInit, TypeNext, RemapInit, RemapNext, PTL DEF Spec
=============================================================================
