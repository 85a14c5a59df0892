# A formal model of the lab2 firmware (GreedyFTL on the OpenSSD emulation)

The repository holds two things: `src/lab1`, an exercise template without
behaviour of its own, and `src/lab2`, the Cosmos+ OpenSSD firmware (GreedyFTL)
with a simulator of the board around it (`src/lab2/sim`). This project models
the firmware of `lab2`: TLA+ modules translated from its source, TLC runs of
small instances, and theorems checked by TLAPS.

Contents: 1 the system, 2 the modules, 3 the runs, 4 assumptions and fairness,
5 proofs, 6 findings and observations, 7 what is not modelled, 8 the plan.

## 1. The system

### 1.1 One thread, many completions

The firmware is a single thread. The main loop of `nvme_main` takes one command
after another from the NVMe controller and, when no I/O command has arrived, runs
the schedulers (`CheckDoneNvmeDmaReq`, `SchedulingNandReq`). The one interrupt handler
(`dev_irq_handler`) touches only the state of the controller, so every other
function of the firmware is atomic with respect to every other **unless it waits**: the
loops `SyncAllLowLevelReqDone`, `SyncAvailFreeReq` and `SyncReleaseEraseReq` call the
schedulers from the middle of an operation. What runs beside the firmware is the
hardware: the host DMA engine, and per channel a NAND controller with its dies. They
finish work in their own order, and the firmware learns of it by polling.

The source is compiled in two ways, told apart by switches `#if 1 //jy`. On the board
a host drives the controller through its registers, the interrupt handler is connected,
and the hardware completes commands. In the simulator the controller is always running,
a workload generator and a front end take the place of the host, and each pass of the main
loop begins with them.

A host command passes through these parts:

    NVMe command --ReqTransNvmeToSlice--> slice requests
      --ReqTransSliceToLowLevel + data buffer--> evict / read / transfer requests
      --AddrTransWrite, AddrTransRead, GarbageCollection--> flash addresses, erases
      --SelectLowLevelReqQ--> host DMA queue | NAND queue of a die | blocked queues
      --set_auto_rx/tx_dma, SchedulingNandReq--> hardware
      --CheckDoneNvmeDmaReq, ExecuteNandReq--> completion, release of blocked requests

### 1.2 Inventory

**Address translation and garbage collection** (`address_translation.c`,
`garbage_collection.c`).
*State*: the map of logical to virtual slices and its inverse; per block the next
page, the count of superseded pages and a pair of list links; per die the current
block and the list of free blocks; per die and count a list of victims; the die
the next write goes to.
*Operations*: `AddrTransWrite`, `AddrTransRead`, `FindFreeVirtualSlice` and its
variant for collection, `InvalidateOldVsa`, `EraseBlock`, `GarbageCollection`.
*Interaction*: called by the data buffer for evictions and misses; issues reads,
programs and erases itself.
*Hard*: a write invalidates its old page, then may collect a block while the
slice has no home; collection allocates pages from the die it tries to empty;
free and victim lists share one pair of links.
*Correct when*: no live page is erased, the maps are inverse to each other, counts
and lists agree with them, no block is lost, the reserve block is back in time,
each call returns.

**Data buffer** (`data_buffer.c`, `ReqTransSliceToLowLevel`).
*State*: an LRU list and hash chains over the entries, the slice and the dirty
flag of each, the last request of each entry.
*Operations*: `CheckDataBufHit`, `AllocateDataBuf`, the hash functions,
`EvictDataBufEntry`, `DataReadFromNand`.
*Hard*: an entry is reused while its old content is dirty; partial writes must be
merged with what flash holds; lists relinked at head, tail and middle.
*Correct when*: it is an LRU cache, finds what it holds, and loses no write.

**Request dependencies** (`request_transform.c`, `request_allocation.c`).
*State*: a pool of requests, each in one queue; per entry a chain of requests;
per block the page limit (`permittedProgPage`), the count of held reads and the
flag of a held erase.
*Operations*: `SelectLowLevelReqQ`, `CheckBufDep`, `CheckRowAddrDep`,
`ReleaseBlockedByBufDepReq`, `ReleaseBlockedByRowAddrDepReq`, the waiting loops.
*Interaction*: fed by everything above, drained by DMA and dies.
*Hard*: requests complete in any order; a request released from a chain may then be
held by the table; an issue can wait, and the schedulers change the tables below
it while it does.
*Correct when*: the outcome is that of the issue order and no wait is for ever.

**NAND scheduler** (`request_schedule.c`, `nsc_driver.c`).
*State*: per channel seven lists of ways by what they wait for; per way a state,
a queue, a retry count, the kind of status check in use and the last report.
*Operations*: `SchedulingNandReqPerCh` with `ExecuteNandReq`, `CheckReqStatus`,
`IssueNandReq`.
*Hard*: lists change while they are walked; all ways share one command register;
lists have fixed priorities; status arrives late or reports a failure.
*Correct when*: a way is on the list its state calls for, a request is ended only
when its die has done it, a read gets its retries, and every way gets its turn.

**Host DMA** (`host_lld.c`, `IssueNvmeDmaReq`, `CheckDoneNvmeDmaReq`, `sim_frontend.c`).
*State*: head and tail indices of two FIFOs, 8 bits wide, with counts of their
wraps; the queue of DMA requests with the index each ended at.
*Operations*: checking and splitting a command, issuing a slice block by block, finding
requests done from two indices; in the front end the transfers and the
completion of commands.
*Hard*: indices wrap; one request found done vouches for those before it; first
and last slice of a command are partial.
*Correct when*: a request is released exactly when moved, a command ends with
each of its blocks moved once to its place, and no block beyond the name space is
touched.

**Bad block management** (`address_translation.c`, `ftl_config.c`).
*State*: in flash, per die a table of bad blocks in its first block, and the bytes of each
block that carry the factory's mark until data is written over them; in RAM, the
map of physical blocks, the spare each bad user block is remapped to, and the dies with
a booked update of their table.
*Operations*: `ReadBadBlockTable`, `FindBadBlock`, `SaveBadBlockTable`, `RemapBadBlock`,
`InitBlockMap`, `UpdatePhyBlockMapForGrownBadBlock`, the update of the table at shutdown.
*Interaction*: runs at start-up, before the address map; the NAND scheduler records
failures; shutdown writes the table back.
*Hard*: power may fail at any step, and the table is erased before it is written again; marks
and data share bytes; spares may be bad themselves or run out.
*Correct when*: no block serves twice, a block once saved as bad stays out of use, what the
running firmware knows of failures is in flash or booked to be written, blocks are retired only
for failures, and the capacity given up covers what is lost. The code keeps the second only for dies
whose table it could program at the start, and the third only where the rows of a page lie in its
block (section 6).

**NVMe controller and main loop** (`nvme_main.c`, `nvme_admin_cmd.c`,
`nvme_io_cmd.c`).
*State*: the status of the controller task, the configuration and status registers it
shares with the host, which queues are open, the count of resets without a command.
*Operations*: a branch of `nvme_main` per status (enable, run, shutdown, wait for
reset, reset, idle), `dev_irq_handler`, creation and deletion of queues, the
choice each pass makes between a command and the schedulers.
*Interaction*: the interrupt sets the status under the branch that is about to set it
itself; the host sees each register write as it is made; commands become requests of the pool.
*Hard*: interrupts and host between any two steps; a link that fails; a
pass that took an I/O command runs no scheduler; the pool may be empty in the middle of
a command.
*Correct when*: no queue is open when the host may take its memory away, the ready bit
follows the enable bit, and each command is answered.

**Simulator host and front end** (`sim_host.c`, `sim_frontend.c`).
*State*: jobs made, their submission and completion queues, the tag and the blocks
outstanding of each ongoing entry, the figures per host and operation.
*Operations*: `SchedulingHost`, `SchedulingFE`, sending a command through the one register,
crediting a block, completion, reporting.
*Interaction*: called at the beginning of a pass and from inside the driver, after each
block it pushes.
*Hard*: tags go round, and one may come up again while an entry still goes by it.
*Correct when*: each block is credited once, each job reported once, and the simulation ends.

**Not modelled**: identify data and features, the start-up and the memory map, options,
latencies and output files of the simulator, `lab1`. Section 7 says why.
`PROJECT.json` lists every component, and under `hazards` everything here
that is hard to test, with the property that covers it.

## 2. The modules

| module | models | composed with |
|---|---|---|
| `AddressMap` | slice map, block lists, garbage collection | |
| `BlockLinks` | the same lists with their links | extends `AddressMap`, steps in lock-step |
| `RowAddress` | the row of a page, and the block of a row | |
| `LogicalStore` | a store: what an FTL promises | abstract |
| `SliceStore` | the map with the content of the flash rows | extends `AddressMap` and `RowAddress`, implements `LogicalStore` |
| `LruCache` | an LRU cache | abstract |
| `DataBuffer` | the host data buffer with its lists | implements `LruCache` |
| `ReqDependency` | the order of low-level requests | |
| `NandScheduler` | one channel: scheduler and dies | |
| `HostDma` | commands, DMA requests, FIFOs, completion | |
| `BadBlocks` | table, marks, remapping, power loss | extends `RowAddress` |
| `SimHost` | workload and front end of the simulator | |
| `NvmeController` | controller registers, interrupt, branches | |
| `NvmeMain` | the passes of the main loop, in both builds | extends `SimHost` and `NvmeController` |
| `DataBufferProofs`, `ReqDependencyProofs`, `NandSchedulerProofs`, `HostDmaProofs`, `BadBlocksProofs`, `NvmeMainProofs` | theorems | extend the modules they are about |
| `AddressMapProofs` | theorems on the map and on its flash pages | extends `SliceStore` |
| `BlockLinksProofs` | theorems | extends `BlockLinks` and `AddressMapProofs` |
| `MC...` | symmetry and small sets for TLC | extend the module of their name |

Every definition that stands for code is listed under `map` in `PROJECT.json` with
the lines it stands for; operators keep the name of their function. Operators
named `X_Something` with the comment "Faulty variant" are not part of a
specification: each is a plausible bug in `X`, and the mutation list of
`PROJECT.json` names the property that must notice it.

The cuts between the modules are the interfaces of the code. `SliceStore`
and `DataBuffer` let a request take effect when it is issued; that this is
what the device does in the end is the subject of `ReqDependency` (`RunsAsIssued`,
`AtRestAsIssued`). `ReqDependency` lets a die finish the head of its queue at any
time; that the scheduler gets it there is the subject of `NandScheduler`
(`EndedHasRun`, `NoWayStuck`), and that a transfer found done is done, of `HostDma`
(`DoneExact`). `NvmeMain` lets a waiting request be issued in any round of the
schedulers, which rests on the two claims of progress (section 4). Failing operations are the subject of
`SliceStore` and `BadBlocks`, and their retries of `NandScheduler`; in `DataBuffer` and `ReqDependency`
every operation of the flash succeeds.

**AddressMap.** A virtual slice is a triple of die, block and page. A call of
`AddrTransWrite` is cut where garbage collection can intervene, and `pc` says
where the call is; `AddrTransWrite` invalidates the old page, `UseCurrentBlock`
and `OpenFreeBlock` are the two ways `FindFreeVirtualSlice` ends, `SelectVictim`
enters `GarbageCollection`, `CopyValidPage` is one pass of its copy loop with
`FindFreeVirtualSliceForGc`, `EraseBlock` ends it. The cuts let invariants speak of
the state a collection sees in the middle of a write. The assertions of
the code against lists that run empty are the predicates `AbortNoVictim`,
`AbortNoRoomForCopy` and `AbortNoFreeBlock`: no action is enabled there, as the
firmware stops.

**BlockLinks** adds the record `links` (heads, tails, `nextBlock`, `prevBlock`,
`freeBlockCnt`) and the pointer manipulation of the five list functions, including
the links a function leaves behind; each action is one of `AddressMap`'s with the
link updates it makes.

**RowAddress** is the arithmetic of `GenerateNandRowAddr`: in SLC mode page `p` of a block has the row
`2p - 1` of the block (`Vpage2PlsbPageTranslation`), and `PAGES_PER_MLC_BLOCK` rows make a block. `BlockOfRow` is the
division by which `ExecuteNandReq` finds the block of a row again, and also how the device reads the address.
`RowsFit` says that no page of a block has its row in the next one.

**SliceStore** adds the content of each row of the flash, of the buffer entry that is being
evicted, and of the one temporary entry each die has for its copies (`tempDataBuf`,
`AllocateTempDataBuf`); programs, copies and erases are parts of the actions that issue them. A page is found
by its row, and an erase clears the rows of a block. If `failing` is set, a program may leave its page `Broken`,
a read may yield `Broken`, and an erase may leave the block without an erased page, in `unerased`, where the next
programs fail. If `refusing` is set, every trigger of a read may fail: `ExecuteNandReq` then takes the request out of the
queue without a transfer, and the program behind it writes what the temporary entry held before, which is the
slice this die copied last (`Reads`). `ExecuteNandReq` completes all of these like any other request and the map
is not told, so the block is filled again. `LogicalStore` states what is left of the promise: a
value may be lost (`Lose`), and where reads may be refused it may be replaced by anything that was written at some
time, to whichever slice (`Mix`); no other value is ever in its place. `latest` and `written` tie the store's
writes to the calls of `EvictDataBufEntry`, so that a mix-up cannot pass for a write.

**DataBuffer** has one action per outcome of `ReqTransSliceToLowLevel`: hit or miss,
read or write of a non-empty set of the slice's blocks. A miss evicts the tail of the
LRU list, writing it to flash if dirty; a partial write loads the slice first. A slice
never written is not read from flash, and the entry keeps what it held
(`request_transform.c:199`), as in the code.

**ReqDependency** has one action per kind of request issued, one for the return of
`SyncReleaseEraseReq`, and the completions. The tables are one record, `pool`, and the
functions of the code are operators from such a record to such a record, composed
as the code calls them; `shadow` holds what the entries and pages would contain had
every request finished before the next was issued. A read that has to wait for a
held erase leaves the firmware in `issuing`, while completions go on.

**NandScheduler** computes a whole call of `SchedulingNandReqPerCh` as the fold of
its loops over the lists, in their order; `ch` is what the firmware and the controller
share, `nand` what the dies do. `ran` and `fails` are history for the properties.
`channelBusyShown` distinguishes a controller that shows itself busy from the
simulated one.

**HostDma** takes a command in and splits it (`HandleNvmeIoCmd`, with the range check and
`ReqTransNvmeToSlice` of the code; the tag of a new command is not in use). A command that is
completed at once, because it is a flush, unknown, misaligned or out of range, changes
nothing in the firmware and is no step. Then follow the hand-over of a
slice request (`SelectLowLevelReqQ`), one action per block pushed (`SetAutoDma`), the
scan for finished requests and the transfer of one block by the host side, with the
completion of the command after its last. Integers wrap as they do in the code,
with the two moduli as parameters.

**SimHost** has the workload as functions of a job's number (whose turn, which
operation, which addresses), the queue of entries with their tags, and the two ways the
front end is entered: from the main loop, and from the driver after each block.

**NvmeController** cuts each branch of `nvme_main` at the register writes the host
can see and before the assignment to the status, and lets `dev_irq_handler` come between any two
of the steps. Its host is external: it changes a bit only when its last change has
been answered (`HostEnables`, `HostDisables`, `HostShutsDown`), and the link may fail
and return. With `patient`, chosen at the start, the host and the link hold still until the
firmware has acted on the last change.

**NvmeMain** is the loop: `pc` says where a pass is. In the simulator a pass begins with
`HostTurn` and `FrontEndTurn`; then a branch, an admin command, an I/O command or no command at all.
A request stands for one slice and takes an entry of the pool. `SplitCommand` takes entries until
there is none (`sync`, the loop of `SyncAvailFreeReq`); `TransformSlice` issues each to the host's
DMA or leaves it waiting; `IssueNvmeDmaReq` pushes its blocks one by one, and in the simulator the front
end comes in after each. A round of the schedulers is any number of `ReleaseDone` and
`IssueWaiting` and an `EndRound`.

**BadBlocks** follows the firmware from power-on (`phase`): the optional erase of the whole
device, reading the tables, scanning the marks of dies without one, saving new tables, remapping,
opening the blocks, running, and saving the grown bad blocks at shutdown. `table` and `unclean`
are what flash keeps, everything else is rebuilt at each start, and `PowerLoss` may come
between any two steps, also between the erase and the program of a table. Loops over
the blocks of all dies take one step per block number. An operation on any page of a block in
use may fail at any time (`BlockFails`), and is recorded at the block its row divides to (`RowBlock`), which need
not be the block the operation was meant for; data written to such a page covers mark bytes of the next
block (`WriteUserData`). A failing erase, or an operation on the first page, names its own block (`BlocksFail`).
A record past the last block of a die falls on the entry of the next die's table block; past the last die
it may set a bit that books an update of die 0 (`Strayed`). The variables `worn` (blocks on which an operation
failed), `known` (the table last written, as long as it exists), `lost` (the die lost power while it held data and
no table) and `unsaved` (the dies whose table this start failed to program) are history and are read by properties only. What the loop for a second LUN
makes of the memory behind a die's row is left open (`MayMiscount`).

## 3. The runs

| run | question | instance |
|---|---|---|
| `AddressMap_one_die` | Do the links form the free and victim lists of the map, whichever block leaves a list? Does each write return? | 1 die, 4 blocks of 2 pages, 4 slices |
| `AddressMap_two_dies` | Do maps, counts and lists stay consistent? Does an erase spare what is live, is no block lost, is the reserve back after each collection? With room on each die, can any assertion of the code fail? | 2 dies, 3 blocks of 2 pages, 4 slices |
| `AddressMap_no_victim` | Can a die run out of victims? (it can) | 2 dies, 3 blocks of 2 pages, 6 slices |
| `AddressMap_overfill` | Can the current block be erased while in use? (it can) | 1 die, 3 blocks of 2 pages, 4 slices |
| `SliceStore_small` | Do map, collection and flash implement a store, and what remains of it when operations fail? Is flash programmed in order, on erased pages? | 1 die, 3 blocks of 2 pages in 2 rows, 3 slices, 2 values; sound, failing and refusing flash |
| `DataBuffer` | Do lists and chains implement an LRU cache? Does every part of a slice keep the value written last? | 3 entries, 4 slices of which 3 share a bucket, 2 parts, 2 values |
| `ReqDependency` | Is the outcome that of the issue order? Can every wait end? | 4 requests, 2 entries, 1 block of 2 pages |
| `NandScheduler` | Lists, completions, retries, progress of each way | 3 ways, one that reads and erases, two that write; 1 retry, queues of 1 |
| `HostDma` | Is a request released exactly when moved, each block moved once, none beyond the name space? | 2 slots, 3 requests, slices of 2 blocks, 5 blocks, FIFO of 4, counts modulo 3 |
| `BadBlocks` | Does bad block management keep its promises, with failing operations and power loss at any step? | 2 dies, 3 user blocks of 4 pages in 4 rows and 1 spare each, 1 block that fails |
| `NvmeMain` | Do host, front end and firmware agree on every block? Is no job lost, does the simulation end? Are the queues closed when they must be, is each command answered? | both builds; 2 hosts, 7 jobs, 2 tags; 1 I/O queue; pool of 3; name space of 12 blocks, slices of 2; 1 reset before the register reset |
| `NvmeMain_report` | Does the report count the blocks written? (it does not) | the same, 4 jobs, simulator only |

The three runs with the outcome "violation" are findings, see section 6. All others
pass, with no deadlock.

### Why the bounds are enough

*AddressMap.* Two pages are the fewest for which a block can be partly superseded,
so that collection copies. On one die, four blocks are the current
one, the reserve, and two that wait as victims, so that a block leaves its list from the head,
the middle and the tail. On two dies, the round-robin
choice and the lists of different dies interfere; four slices on two dies of three blocks
of two pages fit on either die beside its reserve, with nothing to spare, which
is the tightest condition under which the code's assertions can hold at all: each
collection then copies, copies cross from the victim into the reserve, and a victim that is
also the current block occurs. Slices are interchangeable, which the symmetry
uses where no liveness is checked.

*SliceStore.* Two values tell a stale page from a fresh one; three slices on three
blocks let every slice be copied, superseded in mid-collection and rewritten. Any
operation may fail, any number of times; slices and values are interchangeable. With one die
its temporary entry passes from slice to slice. Two pages of two rows have row 0 and an odd
row, and fit; rows that do not fit are in section 4.

*DataBuffer.* Three entries have a head, a middle and a tail; buckets of three, one
and no slices cover removal from each place of a chain. Four slices over three entries make
evictions; two parts are the fewest with a partial write, and the two slices written share
a chain with one that is only read.

*ReqDependency.* With four requests a chain, a held read, a held erase and a program
of the next life of the block can be in the pool together; more tags add longer
chains and queues.

*NvmeMain.* Two tags and commands that overtake each other make a tag come round
while an entry goes by it. One host writes and reads whole slices in sequence, the other
writes three blocks at random addresses, so that its commands have partial first or last slices.
A command has up to two slices, so a pool of three runs empty in the middle of a
command. Seven jobs give each host three turns or more, enough for its addresses to wrap. On the board,
one I/O queue is created and deleted, and a reset limit of one has both kinds of reset;
the commands are one that fits and one that runs over the end.

*NandScheduler.* Two ways are not enough to see who may keep whom from the register, so there are three
(the configuration has two; `ftl_config.h` has eight in the branch that is not compiled). One reads and
erases, and so passes through the trigger, the transfer and the erase list, the last ones but for the writes;
two write, so that they can take turns before its transfers. `Workload` says which way gets what, and
keeps the instance small. A way may also be given nothing, so the instance contains those of two ways with these
requests; two ways with every mix of requests were checked by hand. A queue bound of one beside the release of
further requests in each call (`Releases`) keeps a way supplied for ever. One retry separates "retried" from
"given up". *HostDma.* The FIFO of 4 with counts modulo 3 wraps many times in three requests'
lives; its size relative to the requests is the assumption `CountAssumption`, which
256 entries and 2^32 wraps meet by far. The commands are a lone partial slice, one
with partial first, whole middle and partial last slice, and one that reaches a block beyond the
end of the name space.

*BadBlocks.* Block 0 holds the table and always takes a spare, so one spare block and one failing
block let the spares run out, let the spare itself be bad, and let the failing block be the
table's. Two dies have different needs and share the loop counters and
the row that is read past its end. Four pages on four rows stand in the proportion of the configuration, 256 to 256: the
last page has its row in the next block, the others in their own. The other corners of the size were tried by hand:
one die with three user blocks, two spares and two failures, and two dies with two spares
each.

## 4. Assumptions and fairness

**`CurrentStaysLive`** (`AddressMap`) says the workload never supersedes the last
live page of a full block while its die has not moved on to another one. The code
does nothing to ensure it and goes wrong without (finding 2); on the device a block
has 256 pages and a workload that rewrites exactly these before the die's next
write is improbable, not impossible. With the assumption everything else about the
map holds and is proved; the run `AddressMap_overfill` sets it to FALSE.

**`DrainedBeforeReuse`** (`ReqDependency`) says that a block is programmed in its next
life, and erased again, only after the erase, and before it the programs, of its last
life have been let through. The dependency table counts pages and cannot tell two
lives of a block apart; without the assumption a small instance (one block of one
page, four requests, three entries) runs a program in the wrong life. On the device
freed blocks go to the tail of the free list, so that many other blocks are filled
before a block comes round again; nothing in the code says that this is needed.

**`PoolAssumption`** (`ReqDependency`) says that the request pool is finite: it is an array
(`AVAILABLE_OUNTSTANDING_REQ_COUNT` entries). The count of held reads is exact only then.

**`PagesFit`** (`SliceStore`) says that the pages of a block have rows of the block itself. The configuration of the
repository does not meet it: `ftl_config.h:128` sets 256 pages to a block, the LSB rows of which are 128 (the
alternative in the `#else` branch), so pages from 129 on have the rows 1, 3, ..., 253 of the next block. With three
pages on three rows TLC finds a short trace to two pages on one row: a program hits a row that is programmed
already, and one slice is read back as another. The simulated device does not look at row
addresses (`sim_backend.c`) and stores no data, so nothing of it shows there. `SliceStore_small` and the two theorems about
the flash are for devices where the rows fit; the map itself (`AddressMap`) knows no rows. `BadBlocks` does not assume it.

**Fairness.** Safety runs use none.

- `BlockLinks` `FairLinkSpec`: weak fairness of `LinkedInternal`, the steps of a call that has
  begun. They are consecutive statements of one thread, and cannot be held up.
- `NandScheduler` `SchedFairSpec`: the scheduler is called again and again
  while it has something to do; the controller takes a command, a die finishes its
  operation, and does not answer "running" for ever. One condition more: of the calls
  that find the register free while some die is at work, and have something to do, some are made. Without
  it a way could be starved by a neighbour whose reads always end between two calls. A
  die operation takes tens of microseconds at least, a pass of the main loop far
  less.

- `NvmeMain` `FairMainSpec`: the loop goes on and an interrupt is served (weak fairness).
  The schedulers, called again and again, find a transfer done and get for each request
  what it waits for (strong fairness of `ReleaseDone` and of `IssueWaiting` per tag): a transfer is finished
  by hardware that depends on nothing, and whatever state the
  tables are in, some order of completions lets everything through (`WaitsCanEnd`).
  Strong, because a round may be over before the transfer is. That a way gets to its requests is `NoWayStuck`, for
  the two ways a channel has in the configuration. With three or more ways it is not unconditional: a way
  may wait for ever while two others take turns on lists served before its own. The strong fairness then
  supposes that these are not given such requests without end. The waiting loops give out none,
  and a request pool is finite; a stream of evictions to two ways is what could do it.

No fairness is assumed of the host. `ReqDependency`, `HostDma` and `BadBlocks` make no claim
of eventual progress; `WaitsCanEnd` says that nothing is ever left waiting for itself.

**Environment.** Blocks marked bad are left out of `AddressMap`. In `HostDma` a slot tag is
not given out again before its command has ended: the board's controller sees to that. The
simulator's front end hands the tags out in turn, without looking; what follows
is in `NvmeMain`, where a block may be credited to another entry that goes by the same tag, and
`CreditsExact` shows that the books balance all the same. On the board,
commands are submitted only while the controller is ready, queues are created completion
queue first, and the host leaves only when no command is outstanding.

A host need not be patient: it may disable the controller while the firmware is in the
middle of acting on an earlier change. `QueuesClosed` holds in part without patience (the
ready bit), in part with it (the shutdown status); `EnableHonoured` needs it, see section 6.

A command that is turned down ends by the controller's completion; the simulator's
front end does not read completions, so there it would stay outstanding. The workloads of
`NvmeMain` stay within the name space (`PartitionAssumption`), as `fill_host_config` does without
the options.

`DataBuffer` and `ReqDependency` are about flash whose operations succeed. In `BadBlocks`, reading a table that is there does not fail, and a failing erase or program of a table
leaves nothing that reads as one. The map of bad blocks starts empty after power-on; what the RAM
really holds then does not matter, for every start writes the map before reading it.

## 5. Proofs

TLC checks the instances above. The theorems hold for devices of any size: any
numbers of dies, blocks, pages and slices, within the named assumptions of the modules.

`AddressMapProofs`:

| theorem | statement |
|---|---|
| `Inductive` | `CurrentStaysLive /\ Spec => []IInv` |
| `TypeCorrect` | `TypeOK`: no block filled past its end, no count beyond its pages |
| `MapsAlwaysAgree` | forward and reverse map agree |
| `InvalidCountsAlwaysExact` | a block's count is the number of its superseded pages |
| `VictimListsAlwaysExact` | each block is on the list of its count, once |
| `FreeBlocksAlwaysErased` | a free block is empty, unowned and in no other use |
| `ErasesLoseNothing` | no step takes away the home of a slice it is not writing |
| `BlocksNeverStranded` | every block is free, being filled, or full, so that its space comes back |
| `ReserveAlwaysKept` | a die has a free block for collection, unless one is under way |
| `AbortsOnFullDieOnly` | `NeverAborts`, as long as a write that looks for a page finds fewer slices living on its die than the die has pages without its reserve block (`DieHasRoom`) |
| `WritesNeverAbort` | `NeverAborts`, if all logical slices fit on one die next to its reserve (`SlicesFit`) |
| `CallsAlwaysAdvance` | each step of a call brings it nearer to its end: `StepsLeft` is a natural number and goes down. With no assertion failing, a call takes at most `3 + SLICES_PER_BLOCK` steps |

And, in the same module, on the flash pages of `SliceStore`:

| theorem | statement |
|---|---|
| `StoreRefinement` | `PagesFit`: `SliceStore` implements `LogicalStore`: each slice reads back what was written last; on failing flash it may be lost; only where reads may be refused may it have the value of another write |
| `FlashProgrammedInOrder` | `PagesFit`: pages are programmed in order, each erased before, but for blocks whose erase failed |

`BlockLinksProofs`:

| theorem | statement |
|---|---|
| `LinksInvariant` | `CurrentStaysLive /\ LinkSpec => []LinkInv` |
| `LinksAlwaysLists` | `LinksAreLists`: followed from head or tail, the links of each list are the list of the map, and the free count is its length |

`DataBufferProofs`, for any number of entries, slices, parts and values and any hash function:

| theorem | statement |
|---|---|
| `BufferInvariant` | `BufferSpec => []BufferInv` |
| `ChainsAlwaysExact` | `ChainsExact`: the chain of a bucket has the entries whose slice hashes to it, each once |
| `LastWriteAlwaysKept` | `LastWriteKept`: every part of every slice is found as written last, in its entry or in flash |
| `LruRefinement` | `DataBuffer` implements `LruCache` |

`ReqDependencyProofs`, for any finite pool of requests, any entries, dies, blocks, pages and values:

| theorem | statement |
|---|---|
| `DependencyInvariant` | `DepSpec => []DepInv(...)` |
| `EntriesHaveOneUser` | `OneUserPerEntry`: of the requests of an entry only the first of the chain is with the device |
| `OperationsRunAsIssued` | `DrainedBeforeReuse`: `RunsAsIssued`, every operation finds in entry and page what it was issued for |
| `RestsAsIssued` | `DrainedBeforeReuse`: `AtRestAsIssued`, what is left at the end is what the issue order had left |
| `WaitsEnd` | `DrainedBeforeReuse`: `WaitsCanEnd`, no requests wait for each other in a circle |
| `EachRoundMovesOn` | a completion, and a look at an idle die that has a request to let through, moves requests on (`Onward`: from blocked to the device, from the device to the pool) and none back; every other round leaves the pool as it is |

`NandSchedulerProofs`, for any number of ways, retries and queued requests:

| theorem | statement |
|---|---|
| `SchedInvariant` | `SchedSpec => []SchedInv(ch, nand)` |
| `WaysAlwaysOnTheirLists` | `WaysOnTheirLists`: every way is on one list, once, and on the one its state calls for |
| `EndedHasAlwaysRun` | `EndedHasRun`: with a controller that shows itself busy, a request is taken for ended only after its command has run |
| `RetriesAlwaysExact` | `RetriesExact`: a read is retried as often as it failed, up to the limit |

`NvmeMainProofs`, for any number of queues, tags, hosts, jobs and pool entries and any workload within the partitions:

| theorem | statement |
|---|---|
| `QueuesAlwaysClosed` | `QueuesClosed`: no I/O queue is open when the host may rely on it |
| `CreditsAlwaysExact` | `CreditsExact`: under every tag, the front end waits for the blocks the firmware has yet to transfer |
| `JobsAlwaysConserved` | `JobsConserved`: the blocks of the jobs made are those in the queues and those reported complete, for each host and operation |

`BadBlocksProofs`:

| theorem | statement |
|---|---|
| `BadBlocksTypeCorrect` | `TypeOK` |
| `PhysicalBlocksOwn` | `OwnPhysicalBlock`: no two virtual blocks share a physical one, none has the table's |
| `SavedBadBlocksShunned` | `SavedBadShunned`: a block saved as bad is out of use at every later start |
| `FailuresBookedOrSaved` | `BookedOrSaved`: what the running firmware knows is in flash, or its saving is booked, but for a die without a table that this start failed to program one for |
| `SoundBlocksNotRetired` | `RetiredOnlyIfWorn`: without a power loss that found data and no table, a block is given up only if it failed, or the block before it on a page whose row lies beyond that block |
| `OnlyWornRetired` | `RowsFit(USER_PAGES_PER_BLOCK)`: then only if it failed itself |
| `CapacityAlwaysCovered` | `CapacityCovered`: the capacity given up covers every bad block that got no spare |

`HostDmaProofs`, for slices, FIFOs, overflow counts, pools and name spaces of any
size, as long as `CountAssumption` holds:

| theorem | statement |
|---|---|
| `TransfersInsideNameSpace` | `InsideNameSpace`: no transfer of a block beyond the name space is ever in a FIFO |
| `DoneAlwaysExact` | `DoneExact`: a request is found done if and only if none of its blocks is still in a FIFO |
| `AlwaysReleasedWhenDone` | `ReleasedWhenDone`: a request leaves the pool only when its blocks have been moved |
| `AlwaysEndsFullyMoved` | `EndsFullyMoved`: a command ends with each of its blocks moved once and to its place |

**The argument.** The invariants are not inductive one by one. That an erase finds
nothing live rests on the counts: `GarbageCollection` skips copying when the count
says every page is superseded, so the counts must be exact; they are exact because each
write counts the page the maps say it supersedes, so the maps must agree; pages are given
out below `currentPage` only once, so free blocks must be empty and listed once; and
blocks get onto the lists by their counts. `IInv` is the conjunction, with three
strengthenings: `CountsBound` (superseded and live pages together are at most those
programmed), `CurrentLive` (the block being filled is not superseded as a whole: this is
where `CurrentStaysLive` enters) and `CallConsistent` (what `pc` says about `lsa` and
`victim`). The proof has one lemma per action and in it one step per conjunct that
the action can disturb. Lemmas about the lists (`AppendFacts`, `TailFacts`,
`RemoveAtFacts`, `UnlinkFacts`) and page sets (`PageSets`, `FewerPages`, `NewPage`...) come
first. `BlocksNeverStranded` is kept because a die leaves its current block only when it is full, and
an erased block goes to the free list in the same step. `ReserveAlwaysKept` needs no sum: outside of
a collection a block is taken only from a list of two or more, and a collection ends by putting
one back.

`NeverAborts` has three cases. A write that needs a collection and finds no victim is on a die with one free
block and no superseded page in the others, which are full because no block is stranded; so all their pages
are live, and their owners, one for each page, are more slices than `DieHasRoom` allows (`LiveDieHoldsRoom`).
`DieHasRoom` is where the firmware relies on the workload: finding 1 is a die that
violates it, and `SlicesFit`, which implies it, is more than the capacity reported to the host guarantees as soon as there are
several dies. The other two cases rest on the invariants `RoomForCopies` and `RoomForWrite`: a victim has a superseded page,
so its copies and the write that waits fit in one block, the reserve, which a collection opens before its
first copy; each copy takes a page of that block and a live page of the victim, and the sum of both stays.

`StoreInv` ties the flash to the map; under `PagesFit` no two pages have one row (`GenerateNandRowAddr` is one to one, and its block that of the page), so a program changes one page and an erase the pages of one block. A page at or above `currentPage` of its block is `Blank` unless the
block is in `unerased`, a page below it is not. A program then hits an erased page, the next in order, which no live slice
maps to (`PlacedElsewhere`); a copy leaves the value of the slice, loses it, or, after a refused read, puts in its
place what the temporary entry held, which is a value written at some time or `Broken`; an erase hits no
live page; so each step writes, loses or mixes up one slice of the abstract store or leaves it.

`LinkInv` says of each list of the map that the links thread it: the head is its first block, the
tail its last, and next and previous blocks are the neighbours. The five list functions change a
handful of links each (`PutLinks`, `TakeLinks`, `CutLinks`); that they leave every other list
alone needs `IInv`, by which a block is on one list only, once. `LinksAreLists` follows
the links with a recursive walk, which the last lemmas evaluate along the thread.

`BufferInv` is stated with witnesses: there is an order of all entries that the LRU links thread, and for each bucket
an order of its entries that its chain threads. Each function that moves an entry is shown to take a thread to the thread
of the sequence one expects, whichever place the entry had. The walk of `CheckDataBufHit` then finds the
entry of a slice if there is one, and the victim is the last of the order. No two entries
hold one slice, and `ContentInv` adds that an entry has every part of its slice as the host wrote it last, and so has the flash
unless the entry is dirty.

`DepInv` has two parts. `PoolInv`, which holds however blocks are used, is the shape of the pool:
the live requests of an entry form one chain whose links agree in both directions and whose end is in
`blockingReqTail` (`Chained`), each request is in the one queue its type names, once (`Placed`),
and only the first of a chain has gone past the data buffer dependency (`Queued`). `Ordered`, which needs
`DrainedBeforeReuse`, says that three witnesses exist: an age for each request, the number of
requests issued before it; and the contents `g` the flash will have when the operations queued at the dies are
done. Along the chain of an entry, each request carries the content the next one finds,
from `data` to `shadow.data` (`EntriesInv`). In the queue of a die each operation fits the pages as the ones before it
leave them, and the last leaves `g` (`DiesInv`). And for each block the requests that are still
held lead from `g` to `shadow.flash` (`BlocksInv`): the programs held are those of the pages from
`permittedProgPage` on, one each, in the order of their ages; a read of a page beyond has the program it waits for
among the older ones, with its content; `blockedReadReqCnt` is the number of the reads held; an
erase is younger than every read and every program of its use of the block. `OldUse` tells whether the programs held
belong to the use the erase will end or to the next one, and this is the distinction the
table cannot make without `DrainedBeforeReuse`. A request that finishes or passes the table moves one
step from the second stretch to the first, or off its beginning, and both claims on the outcome are read off the
invariant. For `WaitsCanEnd` the oldest request left is the witness: nothing it could wait for is older (`OldestPasses`).
`CheckDoneNvmeDmaReq` and `ReleaseBlockedByRowAddrDepReq` go through a whole queue in one call;
their folds keep the invariant element by element.

`SchedInv` is about the tables of one channel and its dies: each way is on one list once (`Placed`), the list fits
the state of the die (`Belongs`), and the command in the register, the flags `ran` and `completeFlag` and what the die is
doing tell one consistent story about the request at the head of the queue. The scheduler goes through whole
lists in one call; each of its loops is shown to keep the invariant entry by entry, and the proofs
carry what is already known of the entries the loop has passed.

For `BadBlocks` there are four strengthenings, each of which leans on the ones before it.
`RemapInv`: while `RemapBadBlock` works its way up, each virtual block has its own block or a spare
below the next to be tried, so the next spare is new. `TableInv`: at every stage of a start
and of a shutdown, the tables, the RAM map, the image to be saved and the booked updates agree about what
is bad, up to the block of the table, but for the dies in `unsaved`. `UnsavedInv`: these have no table, and a die that has none
once the start is over is one of them, or a later failure has booked its update. `LossInv`: wherever bad blocks of a die are kept that may become the RAM
map of a later start, an operation on a worn block can have been recorded at each of them (`Blamed`); without a table these places include
the mark bytes of the blocks, which is why it holds only until a power loss finds
written blocks and no table. `OnlyWornRetired` then adds that where the rows fit the block of
a row is the block of its page (`RowBlockOwn`).

`CapacityInv`, for `CapacityCovered`, relates the loop of `RemapBadBlock` to the count it leaves behind: of
the blocks it has passed, those that got no spare are at most `badBlockCount`.

For `HostDma` there are three invariants, each resting on the one before. `IInv`: requests, the one being issued and the
transfers lie within the name space, because the slices of a command, first and last
partial, end where the command does (`SlicesWithin`, from facts about quotients and remainders). `Exact`: think of a
FIFO as numbering its transfers without end, of which tail and overflow count show the number
modulo `M`. `FoundExactly` turns the five cases of `check_auto_tx_dma_partial_done` into one comparison: at most as
many transfers are still held as have been pushed since the request. The rest of `Exact` makes that
comparison mean what it should: the held transfers are the youngest (`CellsHeld`), one that belongs to an issued
request is older than its end (`CellsOwned`), the last one of it is where its index says (`LastCells`), and the queue is in
the order of issue (`QueueExact`), so that one request vouches for those before it. `SinceBounded` keeps the numbers from
repeating: whatever was pushed since a request belongs to requests that still have their slots, so it is
less than what `CountAssumption` allows. `Once`: each block of a command in progress is in one place only, moved, in a
FIFO cell, or still to be pushed by one request, and the blocks moved and the `remaining` count add up to the whole.
The count then ends with the last block: the ones moved and that one are as many as the command has, so they are all.

For the queues of `NvmeMain` the invariant has three parts. `SimulatorInv`: in the simulator the controller
is always running and only reads and writes come, so the queues stay as they were. `BoardInv`: commands,
which may open queues, are taken only while the ready bit is set, and each way to clear it closes the
queues first. `PatientInv`, for a patient host: which branch is under way follows from the status,
no interrupt is pending in the states where the loop acts, so that between the end of a shutdown
and the fall of the ready bit no command is taken. Most actions leave the controller alone
(`KeptPreserves`); the others have a lemma each.

`Books`, for the counts of `NvmeMain`: under each tag the blocks that ongoing entries wait for are as many as the
command FIFO, the requests to split, waiting, and being issued have still to push. A sum over a queue is a weighted length (`Weighed`), and the lemmas say how it changes with
an entry appended, taken, changed or removed in the middle. Tags come round while an entry still
goes by them, and a block is then credited to the first entry under its tag, which may not be the one it was moved for;
the sum per tag is what stays right. It also says why a block that is pushed always finds an entry: the
debt of its tag is not zero.

**Induction.** The library's induction theorems take an operator as a parameter. Where a claim is about all natural
numbers, `LeastNumber` is used in their place: a set of naturals that is not empty has a least element (from
`WFMin` and `NatLessThanWellFounded`), so the set of numbers at which the claim fails, which is a plain set and no operator, has
one, and the step rules it out. Recursive functions are defined by `CHOOSE`; the proofs show that a function
satisfying the equations exists and then that the chosen one does. Folds of the
community modules are unfolded through their own definition, `MapThenFoldSet`, in the same way. Removals are
written with `RemoveFirst` and `SelectInSeq` in the modules with proofs: `SelectSeq` belongs to the provers' built-in theory of
sequences, which has no definition to expand.

**Only model-checked**: the liveness properties `WriteReturns`, `NoWayStuck`, `SimulationEnds`, `EnableHonoured`
and `CommandsEnd`, because liveness under fairness is beyond TLAPS. Every other property of a passing run has its theorem.

What the progress rests on is proved where the code gives a measure. `CallsAlwaysAdvance` is the measure behind
`WriteReturns`; `EachRoundMovesOn` together with `WaitsEnd` is why the loops that wait for requests return: as long as a
request is left some step moves one on or the waiting loop is over, no round moves one back, and a request moves on three times at most.

## 6. Findings and observations

1. **A die without a victim** (`AddressMap_no_victim`, `VictimExists`). The die of a write is
   chosen round-robin, whatever it already holds. A workload that rewrites in step with the
   number of dies moves all live data to one die, whose blocks then hold no
   superseded page: `GetFromGcVictimList` asserts (`garbage_collection.c:183`) with
   half of the flash unused.
2. **The current block as victim** (`AddressMap_overfill`, `CurrentPageInBlock`). When all pages
   of a full current block are superseded, collection takes it, has nothing to copy
   (copying is what moves `currentBlock` away), and puts it on the free list while it
   stays current. It is opened a second time, filled past its end, and
   `address_translation.c:741` asserts.
3. **Reads counted as writes** (`NvmeMain_report`, `HostWritesCounted`). `save_gc_stats` takes
   `complete_blks[1]` for the blocks written (`sim_host.c:220`), where the reads are
   (`sim_host.h:31`). The write amplification of the report is computed from it, and also adds
   blocks of 4 KB to pages of 16 KB.

Observed while reading or modelling, not stated as runs:

- A read of a slice never written leaves the buffer entry with the content of the
  slice it held before, and sends that (`request_transform.c:199`).
- In the simulator `channelBusy` is never set, so commands of one call overwrite each
  other in the register and the status of an idle die reports the lost one
  done. `EndedHasRun` is therefore stated for a controller that shows itself busy.
- The order of requests of two lives of one block is not enforced (section 4).
- Requests held by the dependency table are looked at again only when the queue of
  their die is empty (`request_schedule.c:168`, `:204`), so requests issued later can
  overtake them as long as the die has work. `WaitsCanEnd` concerns the loops, during
  which nothing new is issued.
- The example of `src/README.md` asks for commands of 4096 blocks; the assertion of
  `host_lld.c:436` allows 256, as the identify data announces, and stops in a loop.
- Dirty entries of the data buffer are not written at shutdown, and a flush command
  completes at once (`nvme_io_cmd.c`).
- In `sim_main.c:95` the arguments of a `memcpy` are exchanged, so the
  partition sizes of option `-s` are lost; the random addresses of the workload then lie
  beyond the name space, and commands that are turned down never end in the simulator
  (section 4). Random addresses are rounded down to whole slices, and so may fall below an
  unaligned `min_lba`, into the partition of another host.
- A pass that took an I/O command runs no scheduler (`nvme_main.c:146`). Commands that need
  requests use up the pool and so run it in the end; a stream of flushes or commands out of
  range without end would keep all others waiting. `CommandsEnd` is stated for hosts that do not do that.
- A host that does not wait may find its change lost: a branch ends with an assignment to the status that
  overwrites what `dev_irq_handler` has set since it began. The status register may then
  show the end of an older shutdown.
- An abrupt shutdown notification (`ccShn` of 2) is ignored, and the end of a shutdown is shown to the
  host before the table of bad blocks is written (`nvme_main.c:150`).
- The commands Security Receive and Doorbell Buffer Config complete without releasing their slot; they are not
  announced to the host and are left out of the model.
- A program or erase that fails for good is completed like one that succeeded. The slice is lost without word to the
  host, and the block is filled again; the next start sees the record.
- A read whose triggers all fail is dropped without a transfer (`request_schedule.c:968`). In a collection the program that
  follows it writes what the die's temporary buffer entry (`data_buffer.c:189`) still holds: the slice this
  die copied last takes the place of the one that could not be read, and the map calls it valid. `SliceStore` has this
  as `Reads`, `LogicalStore` as `Mix`.
- With 256 pages on 256 rows the pages of a block from 129 on have rows of the next block (`address_translation.h:105`,
  section 4). A failure there is recorded at that block, which may be sound and is
  retired at the next start, while the failing one stays; its marks, in rows 0 and 255, are not
  among the rows it is written by mistake.
- With three or more ways on a channel, two ways whose writes take turns keep a third from its
  transfer for ever: writes are served first (`request_schedule.c:298`) and the call returns when the controller is busy. By hand,
  with one retry less than in the run, TLC shows it for the unconditional claim. The configuration has two ways.
- `RemapBadBlock` has a part for the second LUN of a die (`address_translation.c:201`). With one
  LUN per die it reads beyond the die's row of the map, and counts capacity as lost by what it finds
  there. The count only grows, so `CapacityCovered` holds, but capacity may be given up for nothing.
- Power lost between the erase and the program of a table (`address_translation.c:454`) makes the next
  start judge a used die by mark bytes that hold user data. `RetiredOnlyIfWorn` says that this and the row arithmetic
  are the only ways sound blocks are retired; they are retired for good.
- A failing program of the table at the start leaves the die without a table: the failure books an update,
  but `RecoverBadBlockTable` clears the booking right after (`address_translation.c:569`). Until some later block
  failure books another, the shutdown writes none, and what the die knew is forgotten but for the marks that still show.
  A failure recorded while `X` erases the device is
  overwritten by the scan that follows, and its booking is cleared with it.
- `precond_mappings` clears the links of the block each die is filling only if the capacity is not a
  whole number of blocks per die (`sim_main.c:211`). With the shipped sizes 64 pages per die remain; with sizes
  that leave none, the current block would keep its links to the free list, and the
  first overwrite in it would alter the links of its neighbours.
- A block that fails stays in use until the next start: the map of virtual blocks is
  not told (`address_translation.c:929`). `grownBadUpdate` is not cleared when the table has been saved.

## 7. What is not modelled

- **Admin commands, identify data**: tables of constants and features, and the direct DMA
  that carries them (`host_lld.c`). Slots and their tags are the controller hardware's.
- **Pool entries of flash requests** in `NvmeMain`: the pool counts the slice and DMA
  requests; flash requests take entries of the same pool and give them back without the host's help.
- **Double links of the request queues** (`request_allocation.c`): the queues are sequences or sets.
- **Start-up and memory map**: straight-line code; what it leaves behind are the
  initial predicates.
- **Simulator options, latencies, output files**: input and statistics. With the option that
  preconditions the device, `precond_mappings` (`sim_main.c:166`) sets the maps to what writing
  every slice once, in ascending order, leaves behind: page after page in turn over the dies, the
  blocks below full, the current block filled in part. `AddressMap` reaches that state by its own
  writes, so it needs no second initial predicate. The links differ only in the head
  of a free list, whose link back is stale and not read before the block is taken off.
- **Statistics, erase counts, cost-benefit ticks**: written, but read by no decision.
- **Times**: dies and transfers finish in any order.
- **`lab1`**: stubs.

## 8. The plan

Order of the work, most important behaviour first; all but the last are done.

1. `AddressMap` with its invariants, `IInv`, and their proofs.
2. `RowAddress`, `SliceStore`, its refinement of `LogicalStore`, and the proof.
3. `BlockLinks`: the lists with their links.
4. `DataBuffer` and its refinement of `LruCache`.
5. `ReqDependency`: outcome in issue order, no wait for ever.
6. `NandScheduler` and `HostDma`.
7. `BadBlocks` with its invariants and their proofs.
8. `NvmeController`, `SimHost` and `NvmeMain`, and the proof about the queues.
9. Failing programs, reads and erases in `SliceStore`, and their place in the proofs.
10. `DataBuffer` over `SliceStore`, shown to implement one store for the host; and a memory
    served in issue order, which `ReqDependency` implements.

Each safety property of a passing run has its theorem. What is left is item 10, the composition:
`DataBuffer` keeps the flash as a function from slices to contents, and `ReqDependency` compares its outcome with a record
of its own (`shadow`); the one is to run over `SliceStore`, the other to implement a memory.
