----------------------------- MODULE BadBlocks -----------------------------
(***************************************************************************)
(* Bad block management: the table of bad blocks each die keeps in its     *)
(* first block, its recovery when the firmware starts, the remapping of    *)
(* bad user blocks to spare ones, the recording of blocks that fail while  *)
(* the device runs, and the rewriting of the table at shutdown.            *)
(*                                                                         *)
(* Power may be lost between any two steps.  What is in flash stays:       *)
(* "table" and "unclean".  Everything else of the firmware is RAM and is   *)
(* built again by the next start.                                          *)
(***************************************************************************)
EXTENDS Integers, FiniteSets, RowAddress

CONSTANTS USER_DIES,
          USER_BLOCKS_PER_LUN,    \* virtual blocks of a die
          TOTAL_BLOCKS_PER_LUN,   \* physical blocks of a die, spares last
          USER_PAGES_PER_BLOCK,   \* pages of a virtual block
          MaxWorn                 \* bound of the model: blocks of the device
                                  \* that ever fail

ASSUME BadBlocksAssumption ==
  /\ USER_DIES \in Nat \ {0}
  /\ USER_BLOCKS_PER_LUN \in Nat \ {0}
  /\ TOTAL_BLOCKS_PER_LUN \in Nat
  /\ USER_BLOCKS_PER_LUN <= TOTAL_BLOCKS_PER_LUN
  /\ USER_PAGES_PER_BLOCK \in Nat \ {0}
  /\ MaxWorn \in Nat

Dies == 0 .. USER_DIES - 1

\* The physical blocks of a die.  The configuration has one LUN per die, so
\* virtual block v has physical block v before remapping.
PhyBlocks == 0 .. TOTAL_BLOCKS_PER_LUN - 1
UserBlocks == 0 .. USER_BLOCKS_PER_LUN - 1
Pages == 0 .. USER_PAGES_PER_BLOCK - 1

\* The block of the row of page p of block b: b, or the one after it when the page
\* does not fit.  ExecuteNandReq records a failure at this block.
RowBlock(b, p) == BlockOfRow(GenerateNandRowAddr(b, p))

\* bbtInfo[dieNo].phyBlock: the block that holds the table.
TableBlock == 0

\* What an erased page reads as is not a table: its first byte is neither
\* BLOCK_STATE_NORMAL nor BLOCK_STATE_BAD.
NoTable == {-1}

RESERVED_FREE_BLOCK_COUNT == 1

VARIABLES
  \* flash
  table,             \* the blocks the table of a die lists as bad, or NoTable
  unclean,           \* the blocks whose mark bytes do not read as erased
  \* RAM
  bad,               \* phyBlock[dieNo][b].bad, as a set
  remappedPhyBlock,  \* physical block of each virtual block
  grownBadUpdate,    \* the dies with a booked table update
  vbad,              \* virtual blocks initialised as bad
  badBlockSpace,     \* mbPerbadBlockSpace, in blocks of each die
  phase,             \* where the firmware is
  eraseFlag,         \* FALSE after the 'X' that erases the whole device
  blockNo,           \* loop variable of erasing and remapping
  reservedBlock,     \* next spare block of the die to try
  badBlockCount,     \* blocks of the die the loop found no spare for
  dieState,          \* what the die's table needs
  image,             \* the new table of the die, in the temporary buffer
  queue,             \* what is still to be done in flash for the new table
  \* history
  worn,              \* blocks that left the factory bad, or on which an
                     \* operation has failed
  known,             \* the table last written, as long as it was not lost
  lost,              \* the die was without a table at a power loss, in use
  unsaved            \* the dies for which this start has written no table

flashVars == <<table, unclean>>
mapVars   == <<bad, remappedPhyBlock, grownBadUpdate, vbad, badBlockSpace>>
scanVars  == <<blockNo, reservedBlock, badBlockCount>>
saveVars  == <<dieState, image, queue>>
stepVars  == <<phase, eraseFlag, scanVars, saveVars>>
history   == <<worn, known, lost, unsaved>>
vars      == <<flashVars, mapVars, stepVars, history>>

Phases == {"off", "wipe", "read", "find", "saveNew", "remap", "mapped",
           "running", "saveGrown", "halted"}

TypeOK ==
  /\ table \in [Dies -> (SUBSET PhyBlocks) \cup {NoTable}]
  /\ unclean \in [Dies -> SUBSET PhyBlocks]
  /\ bad \in [Dies -> SUBSET PhyBlocks]
  /\ remappedPhyBlock \in [Dies -> [UserBlocks -> PhyBlocks]]
  /\ grownBadUpdate \subseteq Dies
  /\ vbad \in [Dies -> SUBSET UserBlocks]
  /\ badBlockSpace \in Nat
  /\ badBlockCount \in [Dies -> Nat]
  /\ phase \in Phases
  /\ eraseFlag \in BOOLEAN
  /\ blockNo \in 0 .. TOTAL_BLOCKS_PER_LUN
  /\ reservedBlock \in [Dies -> 0 .. TOTAL_BLOCKS_PER_LUN]
  /\ dieState \in [Dies -> {"NOT_EXIST", "EXIST", "HOLD", "UPDATE"}]
  /\ image \in [Dies -> SUBSET PhyBlocks]
  /\ queue \in [Dies -> {"idle", "erase", "program"}]
  /\ worn \in [Dies -> SUBSET PhyBlocks]
  /\ known \in [Dies -> SUBSET PhyBlocks]
  /\ lost \in [Dies -> BOOLEAN]
  /\ unsaved \subseteq Dies
-----------------------------------------------------------------------------
(* Failing blocks *)

\* Faulty variant: the update of the table is not booked.
UpdatePhyBlockMap_NotBooked(which) ==
  /\ bad' = [d \in Dies |-> bad[d] \cup (which[d] \cap PhyBlocks)]
  /\ grownBadUpdate' = grownBadUpdate

\* The map is a row of entries for each die, with bbtInfo after it.  A block that
\* is not of the die has the entry of the next die's table block, which is
\* bad already; or, past the last die, it has bbtInfo[0], and the bit that is set
\* there books an update of die 0, if the build does not drop the access.
Strayed(which) == IF which[USER_DIES - 1] \subseteq PhyBlocks THEN {} ELSE {0}

\* The scheduler gives up on a request, or is warned of a page about to
\* become unreadable: the set of blocks "which[d]" of each die d is recorded.
UpdatePhyBlockMapForGrownBadBlock(which) ==
  /\ bad' = [d \in Dies |-> bad[d] \cup (which[d] \cap PhyBlocks)]
  /\ \E stray \in SUBSET Strayed(which) :
       grownBadUpdate' = grownBadUpdate \cup {d \in Dies : which[d] # {}} \cup stray

\* Operations fail that are recorded at the blocks they were meant for: those on
\* the first page of a block, and those that name a row.
BlocksFail(which) ==
  /\ UpdatePhyBlockMapForGrownBadBlock(which)
  /\ worn' = [d \in Dies |-> worn[d] \cup which[d]]

WithinBound(w) ==
  Cardinality({p \in Dies \X PhyBlocks : p[2] \in w[p[1]]}) <= MaxWorn

\* The blocks that may fail out of "among": any that failed before, and new
\* ones up to the bound.
Failures(among) ==
  {which \in [Dies -> SUBSET PhyBlocks] :
     /\ \A d \in Dies : which[d] \subseteq among[d]
     /\ WithinBound([d \in Dies |-> worn[d] \cup which[d]])}

None == [d \in Dies |-> {}]
-----------------------------------------------------------------------------
(* Start-up: InitAddressMap, InitBlockDieMap *)

\* The variables of InitAddressMap before any block is recorded, and the local
\* variables of the functions below when none of them is active.
RemapNone == [d \in Dies |-> [v \in UserBlocks |-> v]]
Reserve == [d \in Dies |-> USER_BLOCKS_PER_LUN]
NoCount == [d \in Dies |-> 0]
Hold == [d \in Dies |-> "HOLD"]
Idle == [d \in Dies |-> "idle"]

\* A device from the factory: no table, and marks on the blocks that are bad.
Init ==
  /\ table = [d \in Dies |-> NoTable]
  /\ worn \in [Dies -> SUBSET (PhyBlocks \ {TableBlock})] /\ WithinBound(worn)
  /\ unclean = worn
  /\ bad = None /\ grownBadUpdate = {} /\ vbad = None
  /\ remappedPhyBlock = RemapNone /\ badBlockSpace = 0
  /\ phase = "off" /\ eraseFlag = TRUE
  /\ blockNo = 0 /\ reservedBlock = Reserve /\ badBlockCount = NoCount
  /\ dieState = Hold /\ image = None /\ queue = Idle
  /\ known = None /\ lost = [d \in Dies |-> FALSE] /\ unsaved = {}

\* The answer to "Press 'X' to re-make the bad block table".
PowerOn ==
  /\ phase = "off"
  /\ \E answerIsX \in BOOLEAN :
       /\ eraseFlag' = ~answerIsX
       /\ phase' = IF answerIsX THEN "wipe" ELSE "read"
  /\ UNCHANGED <<flashVars, mapVars, scanVars, saveVars, history>>

\* EraseTotalBlockSpace, one block of every die.
EraseTotalBlockSpace ==
  /\ phase = "wipe"
  /\ \E which \in Failures([d \in Dies |-> {blockNo}]) :
       /\ BlocksFail(which)
       /\ unclean' = [d \in Dies |-> unclean[d] \ ({blockNo} \ which[d])]
       /\ LET wiped == {d \in Dies : blockNo = TableBlock /\ which[d] = {}}
          IN  /\ table' = [d \in Dies |-> IF d \in wiped THEN NoTable
                                                         ELSE table[d]]
              /\ known' = [d \in Dies |-> IF d \in wiped THEN {}
                                                         ELSE known[d]]
  /\ IF blockNo + 1 < TOTAL_BLOCKS_PER_LUN
       THEN blockNo' = blockNo + 1 /\ UNCHANGED phase
       ELSE blockNo' = 0 /\ phase' = "read"
  /\ UNCHANGED <<remappedPhyBlock, vbad, badBlockSpace, eraseFlag,
                 reservedBlock, badBlockCount, saveVars, lost, unsaved>>

\* Faulty variant: only one of the two block states is taken for a table.
TableExists_OnlyIfBad(d) == table[d] # NoTable /\ TableBlock \in table[d]

\* Whether the table of a die is there: its first byte is one of the two
\* block states.
TableExists(d) == table[d] # NoTable

\* The end of RecoverBadBlockTable, and what InitBlockDieMap does to keep the
\* host off the table block.
BeginRemap(recovered) ==
  /\ grownBadUpdate' = {}
  /\ bad' = [d \in Dies |-> recovered[d] \cup {TableBlock}]
  /\ phase' = "remap"
  /\ dieState' = Hold /\ image' = None
  /\ UNCHANGED <<remappedPhyBlock, vbad, badBlockSpace, scanVars, eraseFlag>>

\* Faulty variant: the table is looked for and not copied.
Recovered_ChecksOnly(d) == bad[d]

\* The bad blocks of a die, out of its table if there is one.
Recovered(d) == IF TableExists(d) THEN table[d] ELSE bad[d]

\* ReadBadBlockTable, and the check of the first byte of each table.
ReadBadBlockTable ==
  /\ phase = "read"
  /\ LET recovered == [d \in Dies |-> Recovered(d)]
     IN  IF \A d \in Dies : TableExists(d)
           THEN BeginRemap(recovered)
           ELSE /\ bad' = recovered /\ phase' = "find"
                /\ dieState' = [d \in Dies |-> IF TableExists(d) THEN "EXIST"
                                                                ELSE "NOT_EXIST"]
                /\ UNCHANGED <<remappedPhyBlock, grownBadUpdate, vbad,
                               badBlockSpace, scanVars, eraseFlag, image>>
  /\ UNCHANGED <<flashVars, queue, history>>

\* The requests of SaveBadBlockTable for the dies in one of these states.
SaveRequests(state) ==
  [d \in Dies |-> IF state[d] \in {"NOT_EXIST", "UPDATE"} THEN "erase" ELSE "idle"]

\* FindBadBlock: the marks of every block of a die without a table.  A read
\* that fails leaves PSEUDO_BAD_BLOCK_MARK where the mark is looked for.
FindBadBlock ==
  /\ phase = "find"
  /\ \E unread \in Failures([d \in Dies |-> IF dieState[d] = "NOT_EXIST"
                                             THEN PhyBlocks ELSE {}]) :
       /\ bad' = [d \in Dies |-> IF dieState[d] = "NOT_EXIST"
                                  THEN unclean[d] \cup unread[d] ELSE bad[d]]
       /\ image' = bad'
       /\ grownBadUpdate' = grownBadUpdate \cup {d \in Dies : unread[d] # {}}
       /\ worn' = [d \in Dies |-> worn[d] \cup unread[d]]
  /\ phase' = "saveNew"
  /\ queue' = SaveRequests(dieState)
  /\ UNCHANGED <<flashVars, remappedPhyBlock, vbad, badBlockSpace, eraseFlag,
                 scanVars, dieState, known, lost, unsaved>>
-----------------------------------------------------------------------------
(* SaveBadBlockTable: the requests of each die go through the way's queue *)

EraseTable(d) ==
  /\ phase \in {"saveNew", "saveGrown"}
  /\ queue[d] = "erase"
  /\ queue' = [queue EXCEPT ![d] = "program"]
  /\ table' = [table EXCEPT ![d] = NoTable]
  /\ unclean' = [unclean EXCEPT ![d] = @ \ {TableBlock}]
  /\ UNCHANGED <<mapVars, phase, eraseFlag, scanVars, dieState, image, history>>

\* The program may fail; the scheduler then records the table block itself.
ProgramTable(d) ==
  /\ phase \in {"saveNew", "saveGrown"}
  /\ queue[d] = "program"
  /\ queue' = [queue EXCEPT ![d] = "idle"]
  /\ \/ /\ table' = [table EXCEPT ![d] = image[d]]
        /\ known' = [known EXCEPT ![d] = image[d] \ {TableBlock}]
        /\ unsaved' = unsaved \ {d}
        /\ UNCHANGED <<bad, grownBadUpdate, worn>>
     \/ /\ \E which \in Failures([e \in Dies |-> IF e = d THEN {TableBlock}
                                                          ELSE {}]) :
             which # None /\ BlocksFail(which)
        /\ known' = [known EXCEPT ![d] = {}]
        /\ unsaved' = IF phase = "saveNew" THEN unsaved \cup {d} ELSE unsaved
        /\ UNCHANGED table
  /\ UNCHANGED <<unclean, remappedPhyBlock, vbad, badBlockSpace, phase,
                 eraseFlag, scanVars, dieState, image, lost>>

\* SyncAllLowLevelReqDone returns.
SaveDone == \A d \in Dies : queue[d] = "idle"

RecoverReturns ==
  /\ phase = "saveNew" /\ SaveDone
  /\ BeginRemap(bad)
  /\ UNCHANGED <<flashVars, queue, history>>

UpdateReturns ==
  /\ phase = "saveGrown" /\ SaveDone
  /\ phase' = "running"
  /\ dieState' = Hold /\ image' = None
  /\ UNCHANGED <<flashVars, mapVars, eraseFlag, scanVars, queue, history>>
-----------------------------------------------------------------------------
(* RemapBadBlock, InitBlockMap, EraseUserBlockSpace, InitCurrentBlockOfDieMap *)

\* Faulty variant: a spare block is not looked at before it is handed out.
Spares_AnyBlock(d) == reservedBlock[d] .. TOTAL_BLOCKS_PER_LUN - 1

\* The spare blocks of a die the search has not passed yet.
Spares(d) == {r \in reservedBlock[d] .. TOTAL_BLOCKS_PER_LUN - 1 : r \notin bad[d]}

FirstSpare(d) == CHOOSE r \in Spares(d) : \A s \in Spares(d) : r <= s

\* Faulty variant: the search goes on one block too far.
AfterSpare_SkipsOne(d) == FirstSpare(d) + 2

\* Faulty variant: the spare block is not passed.
AfterSpare_NotPassed(d) == FirstSpare(d)

\* The spare block after the one just taken.
AfterSpare(d) == FirstSpare(d) + 1

\* The part of the loop for a second LUN reads phyBlock[dieNo] past its end:
\* the entry of the next die, for the last die whatever follows the map, and
\* nothing at all in a build that drops the undefined access.  What it does is
\* to count the block as lost.
MayMiscount(d) == d + 1 \in Dies => blockNo \in bad[d + 1]

RemapBadBlock ==
  /\ phase = "remap"
  /\ blockNo < USER_BLOCKS_PER_LUN
  /\ LET needs == {d \in Dies : blockNo \in bad[d]}
         moved == {d \in needs : Spares(d) # {}}
     IN  /\ remappedPhyBlock' = [d \in Dies |->
              IF d \in moved
              THEN [remappedPhyBlock[d] EXCEPT ![blockNo] = FirstSpare(d)]
              ELSE remappedPhyBlock[d]]
         /\ reservedBlock' = [d \in Dies |->
              IF d \in moved THEN AfterSpare(d)
              ELSE IF d \in needs THEN TOTAL_BLOCKS_PER_LUN
              ELSE reservedBlock[d]]
         /\ \E miscounted \in SUBSET {d \in Dies : MayMiscount(d)} :
              badBlockCount' = [d \in Dies |->
                badBlockCount[d] + (IF d \in needs \ moved THEN 1 ELSE 0)
                                 + (IF d \in miscounted THEN 1 ELSE 0)]
  /\ blockNo' = blockNo + 1
  /\ UNCHANGED <<flashVars, bad, grownBadUpdate, vbad, badBlockSpace, phase,
                 eraseFlag, saveVars, history>>

\* The end of RemapBadBlock, and the block map.
InitBlockMap ==
  /\ phase = "remap"
  /\ blockNo = USER_BLOCKS_PER_LUN
  /\ vbad' = [d \in Dies |-> {v \in UserBlocks : remappedPhyBlock[d][v] \in bad[d]}]
  /\ \E worst \in Dies :
       /\ \A d \in Dies : badBlockCount[d] <= badBlockCount[worst]
       /\ badBlockSpace' = badBlockCount[worst]
  /\ phase' = "mapped"
  /\ blockNo' = 0 /\ reservedBlock' = Reserve /\ badBlockCount' = NoCount
  /\ UNCHANGED <<flashVars, bad, remappedPhyBlock, grownBadUpdate, eraseFlag,
                 saveVars, history>>

\* The physical blocks the rest of the firmware uses.
InUse(d) == {remappedPhyBlock[d][v] : v \in UserBlocks \ vbad[d]}

\* A die without a block to spare stops the firmware on an assertion.
OpenBlocks ==
  /\ phase = "mapped"
  /\ \E which \in IF eraseFlag THEN Failures([d \in Dies |-> InUse(d)])
                               ELSE {None} :
       /\ BlocksFail(which)
       /\ unclean' = IF eraseFlag
                     THEN [d \in Dies |-> unclean[d] \ (InUse(d) \ which[d])]
                     ELSE unclean
  /\ phase' = IF \A d \in Dies : Cardinality(UserBlocks \ vbad[d])
                                   > RESERVED_FREE_BLOCK_COUNT
              THEN "running" ELSE "halted"
  /\ eraseFlag' = TRUE
  /\ UNCHANGED <<table, remappedPhyBlock, vbad, badBlockSpace, scanVars,
                 saveVars, known, lost, unsaved>>
-----------------------------------------------------------------------------
(* The running device *)

\* The rows of a block that hold its marks.
MarkRows == {0, PAGES_PER_MLC_BLOCK - 1}

\* A slice goes to page p of a block, and to a row with a mark.
WriteUserData(d, b, p) ==
  /\ phase = "running"
  /\ b \in InUse(d)
  /\ GenerateNandRowAddr(b, p) % PAGES_PER_MLC_BLOCK \in MarkRows
  /\ unclean' = [unclean EXCEPT ![d] = @ \cup ({RowBlock(b, p)} \cap PhyBlocks)]
  /\ UNCHANGED <<table, mapVars, stepVars, history>>

EraseUserBlock(d, b) ==
  /\ phase = "running"
  /\ b \in InUse(d)
  /\ unclean' = [unclean EXCEPT ![d] = @ \ {b}]
  /\ UNCHANGED <<table, mapVars, stepVars, history>>

\* An operation on page p of a block fails for good.  The block stays in use
\* until the next start.  Requests issued before a shutdown may still fail while
\* the table is saved.
BlockFails(d, b, p) ==
  /\ phase \in {"running", "saveGrown"}
  /\ b \in InUse(d)
  /\ worn' = [worn EXCEPT ![d] = @ \cup {b}] /\ WithinBound(worn')
  /\ UpdatePhyBlockMapForGrownBadBlock([None EXCEPT ![d] = {RowBlock(b, p)}])
  /\ UNCHANGED <<flashVars, remappedPhyBlock, vbad, badBlockSpace, stepVars,
                 known, lost, unsaved>>

\* UpdateBadBlockTableForGrownBadBlock, called at shutdown.
UpdateBadBlockTableForGrownBadBlock ==
  /\ phase = "running"
  /\ image' = [d \in Dies |-> IF d \in grownBadUpdate THEN bad[d] \ {TableBlock}
                                                      ELSE {}]
  /\ dieState' = [d \in Dies |-> IF d \in grownBadUpdate THEN "UPDATE" ELSE "HOLD"]
  /\ queue' = SaveRequests(dieState')
  /\ phase' = "saveGrown"
  /\ UNCHANGED <<flashVars, mapVars, eraseFlag, scanVars, history>>

\* Power is lost, or switched off.
PowerLoss ==
  /\ phase # "off"
  /\ bad' = None /\ grownBadUpdate' = {} /\ vbad' = None
  /\ remappedPhyBlock' = RemapNone /\ badBlockSpace' = 0
  /\ phase' = "off" /\ eraseFlag' = TRUE
  /\ blockNo' = 0 /\ reservedBlock' = Reserve /\ badBlockCount' = NoCount
  /\ dieState' = Hold /\ image' = None /\ queue' = Idle
  /\ known' = [d \in Dies |-> IF table[d] = NoTable THEN {} ELSE known[d]]
  /\ lost' = [d \in Dies |-> \/ lost[d]
                             \/ table[d] = NoTable /\ ~ unclean[d] \subseteq worn[d]]
  /\ unsaved' = {}
  /\ UNCHANGED <<flashVars, worn>>

Next ==
  \/ PowerOn \/ EraseTotalBlockSpace \/ ReadBadBlockTable \/ FindBadBlock
  \/ RecoverReturns \/ UpdateReturns
  \/ RemapBadBlock \/ InitBlockMap \/ OpenBlocks
  \/ UpdateBadBlockTableForGrownBadBlock \/ PowerLoss
  \/ \E d \in Dies : EraseTable(d) \/ ProgramTable(d)
  \/ \E d \in Dies, b \in PhyBlocks :
       \/ EraseUserBlock(d, b)
       \/ \E p \in Pages : WriteUserData(d, b, p) \/ BlockFails(d, b, p)

Spec == Init /\ [][Next]_vars
-----------------------------------------------------------------------------
(* What bad block management promises *)

Mapped == phase \in {"mapped", "running", "saveGrown", "halted"}

\* Two virtual blocks in use are never the same physical block, and none is
\* the block of the table: RemapBadBlock hands out each spare block once.
OwnPhysicalBlock ==
  Mapped => \A d \in Dies : \A v \in UserBlocks \ vbad[d] :
    /\ remappedPhyBlock[d][v] # TableBlock
    /\ \A w \in UserBlocks \ vbad[d] :
         remappedPhyBlock[d][v] = remappedPhyBlock[d][w] => v = w

\* A block once saved as bad is out of use at every later start, unless its
\* table was erased and not written again.
SavedBadShunned ==
  phase = "mapped" => \A d \in Dies : InUse(d) \cap known[d] = {}

\* The bad blocks the running firmware knows of are in the table in flash, or
\* the update of that table is booked; but for a die whose new table could not be
\* programmed at this start.  Such a die has no table, and RecoverBadBlockTable
\* clears its booking: unless a block fails later, a shutdown writes none, and
\* what the die knows is forgotten.
BookedOrSaved ==
  phase = "running" => \A d \in Dies :
    \/ d \in grownBadUpdate
    \/ d \in unsaved /\ table[d] = NoTable
    \/ table[d] \ {TableBlock} = bad[d] \ {TableBlock}

\* The blocks an operation on one of these blocks can be recorded at.
Blamed(blocks) == {RowBlock(b, p) : b \in blocks, p \in Pages}

\* A block is taken for bad only if an operation failed on it, or on the block
\* before it and on a page whose row lies beyond that block, or if power was lost
\* while its die held data and no table.
RetiredOnlyIfWorn ==
  \A d \in Dies : ~ lost[d] => bad[d] \subseteq Blamed(worn[d]) \cup {TableBlock}

\* The capacity given up for bad blocks covers what every die has lost,
\* whatever the loop for the second LUN adds.
CapacityCovered ==
  Mapped => \A d \in Dies : Cardinality(vbad[d]) <= badBlockSpace
=============================================================================
