----------------------------- MODULE SliceStore -----------------------------
(***************************************************************************)
(* The slice map of AddressMap together with the flash pages it maps to:   *)
(* the requests EvictDataBufEntry, GarbageCollection and EraseBlock issue  *)
(* take effect on the pages in the order they are issued, which is what    *)
(* the dependency tables of request_transform.c are for.                   *)
(*                                                                         *)
(* A program or an erase may fail, a page may be read wrong, or a die may  *)
(* refuse every attempt to read one.  ExecuteNandReq completes such a      *)
(* request like any other; a block is booked as bad (BadBlocks), but       *)
(* neither the map nor the block's place in it changes before the next     *)
(* start.  Bad blocks and their replacements are left out here.            *)
(***************************************************************************)
EXTENDS AddressMap, RowAddress

CONSTANTS
  Values,   \* contents of a dirty buffer entry
  Blank,    \* content of an erased page
  Broken    \* content of a page that is neither erased nor what was programmed

ASSUME BlankAssumption  == Blank \notin Values
ASSUME BrokenAssumption == Broken \notin Values \cup {Blank}

\* Each page of a block has a row of the block, and so one of its own.
PagesFit == RowsFit(SLICES_PER_BLOCK)

VARIABLES
  nand,         \* the content of every row of the flash
  unerased,     \* the blocks whose last erase failed
  data,         \* the buffer entry EvictDataBufEntry is writing
  tempDataBuf,  \* the buffer entry each die has for its copies
  failing,      \* whether operations of the flash may fail
  refusing,     \* whether a die may refuse to read a page
  latest,       \* history: what EvictDataBufEntry wrote of each slice last...
  written       \* ...and all that it has written

modes     == <<failing, refusing>>
history   == <<latest, written>>
storeVars == <<vars, nand, unerased, data, tempDataBuf, modes, history>>

\* The row of a virtual slice, and the block a row is in.
RowOf(v)   == <<v[1], GenerateNandRowAddr(v[2], v[3])>>
Rows       == {RowOf(v) : v \in Vsas}
BlockOf(r) == <<r[1], BlockOfRow(r[2])>>

\* What a read of page v finds.
Content(v) == nand[RowOf(v)]

StoreInit ==
  /\ Init
  /\ nand = [r \in Rows |-> Blank]
  /\ unerased = {}
  /\ data = Blank
  /\ tempDataBuf = [d \in Dies |-> Broken]
  /\ failing \in BOOLEAN
  /\ refusing \in BOOLEAN
  /\ latest = [l \in LogicalSlices |-> Blank]
  /\ written = {}

\* ExecuteNandReq: what a row may hold after x was programmed to it.
Programs(r, x) ==
  IF BlockOf(r) \in unerased THEN {Broken}
  ELSE IF failing THEN {x, Broken} ELSE {x}

\* Page v is programmed with x.
Program(v, x) == \E y \in Programs(RowOf(v), x) : nand' = [nand EXCEPT ![RowOf(v)] = y]

\* EvictDataBufEntry writes the dirty entry x of logical slice l to flash...
EvictDataBufEntry(l, x) ==
  /\ AddrTransWrite(l)
  /\ data' = x
  /\ latest' = [latest EXCEPT ![l] = x]
  /\ written' = written \cup {x}
  /\ UNCHANGED <<nand, unerased, tempDataBuf, modes>>

\* ...and issues the program of the page AddrTransWrite returned.
ProgramSlice ==
  /\ UseCurrentBlock \/ OpenFreeBlock
  /\ Program(logicalSlice'[lsa], data)
  /\ data' = Blank
  /\ UNCHANGED <<unerased, tempDataBuf, modes, history>>

\* GarbageCollection begins; no request is issued yet.
BeginCollection ==
  /\ SelectVictim
  /\ UNCHANGED <<nand, unerased, data, tempDataBuf, modes, history>>

\* What the entry of die d may hold after the read of page v: the page, whatever
\* came of a read that could not be corrected, or, when every trigger of the read
\* failed and no transfer was issued, what it held before.
Reads(d, v) ==
  {Content(v)} \cup (IF failing THEN {Broken} ELSE {})
               \cup (IF refusing THEN {tempDataBuf[d]} ELSE {})

\* Faulty variant: the write of the copy overtakes its read.
CopySlice_WritesFirst ==
  /\ CopyValidPage
  /\ \E p \in Pages :
       /\ NextValidPage(p)
       /\ LET from == <<targetDie, victim, p>>
              l    == virtualSlice[from]
          IN  \E y \in Reads(targetDie, from) :
                /\ tempDataBuf' = [tempDataBuf EXCEPT ![targetDie] = y]
                /\ Program(logicalSlice'[l], tempDataBuf[targetDie])
  /\ UNCHANGED <<unerased, data, modes, history>>

\* GarbageCollection: a live page is read into the temporary buffer entry of the
\* die (AllocateTempDataBuf) and programmed from there, however the read ended.
CopySlice ==
  /\ CopyValidPage
  /\ \E p \in Pages :
       /\ NextValidPage(p)
       /\ LET from == <<targetDie, victim, p>>
              l    == virtualSlice[from]
          IN  \E y \in Reads(targetDie, from) :
                /\ tempDataBuf' = [tempDataBuf EXCEPT ![targetDie] = y]
                /\ Program(logicalSlice'[l], y)
  /\ UNCHANGED <<unerased, data, modes, history>>

\* The rows once those of the victim hold x.
Erased(x) == [r \in Rows |-> IF BlockOf(r) = <<targetDie, victim>> THEN x
                                                                   ELSE nand[r]]

\* EraseBlock issues the erase of the victim, which goes to the free list however
\* the erase ends.
EraseSlices ==
  /\ EraseBlock
  /\ \/ /\ nand' = Erased(Blank)
        /\ unerased' = unerased \ {<<targetDie, victim>>}
     \/ /\ failing
        /\ nand' = Erased(Broken)
        /\ unerased' = unerased \cup {<<targetDie, victim>>}
  /\ UNCHANGED <<data, tempDataBuf, modes, history>>

StoreNext ==
  \/ \E l \in LogicalSlices, x \in Values : EvictDataBufEntry(l, x)
  \/ ProgramSlice
  \/ BeginCollection
  \/ CopySlice
  \/ EraseSlices

StoreSpec == StoreInit /\ [][StoreNext]_storeVars

-----------------------------------------------------------------------------
(* Correctness. *)

\* What DataReadFromNand finds: AddrTransRead looks the slice up, and a slice
\* without a home is not read.  The slice being written has its value in the
\* buffer until the page is programmed.
AddrTransRead(l) == logicalSlice[l]

StoredValue(l) ==
  IF l = lsa THEN data
  ELSE IF AddrTransRead(l) = NONE THEN Blank
  ELSE Content(AddrTransRead(l))

Abstract == INSTANCE LogicalStore
  WITH Slices <- LogicalSlices, store <- [l \in LogicalSlices |-> StoredValue(l)],
       mayLose <- failing, mayMix <- refusing

\* Where the pages fit in their blocks, the slice map, garbage collection and the
\* flash pages together implement a store: each slice reads back the value
\* written to it last, however often its page was copied and whichever blocks
\* were erased and reused meanwhile.  When operations fail its value may be lost,
\* but an older one, the value of another slice, or nothing at all is never read
\* in its place; and it may be written again, also to a block that failed.  A
\* die that refuses a read is another matter: the copy then programs whatever the
\* die copied last, and the slice holds another slice's value, or one of before.
ImplementsStore == Abstract!Spec

Programmed(v) == Content(v) # Blank

\* The flash is used as flash must be: a page is programmed only when it is
\* erased and the pages before it in its block have been programmed; but for the
\* blocks that could not be erased, which the firmware uses like the others.
ProgramsInOrder ==
  [][\A d \in Dies, b \in Blocks, p \in Pages :
       /\ Content(<<d, b, p>>)' # Content(<<d, b, p>>)
       /\ Content(<<d, b, p>>)' # Blank
       /\ <<d, b>> \notin unerased'
       => /\ ~ Programmed(<<d, b, p>>)
          /\ \A q \in 0 .. p - 1 : Programmed(<<d, b, q>>)]_storeVars
=============================================================================
