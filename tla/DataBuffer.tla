----------------------------- MODULE DataBuffer -----------------------------
(***************************************************************************)
(* The host data buffer: data_buffer.c and ReqTransSliceToLowLevel of      *)
(* request_transform.c.  Every entry is on one LRU list and, once it holds *)
(* a slice, on the chain of its hash bucket; both are doubly linked.       *)
(*                                                                         *)
(* The requests a slice request is turned into (evict, read, transfer) are *)
(* applied to the entry and to the flash in the order they are issued; the *)
(* slice map below is the store that SliceStore implements, seen as one    *)
(* content per slice.                                                      *)
(***************************************************************************)
EXTENDS Integers, Sequences, FiniteSetsExt

CONSTANTS
  Count,    \* AVAILABLE_DATA_BUFFER_ENTRY_COUNT
  Slices,   \* logical slice addresses in use, numbers
  Parts,    \* the NVMe blocks of a slice
  Values,   \* their contents
  Writes,   \* what the host may write: slice, parts of it, and content
  Unset,    \* what the memory of an unused entry holds
  NONE      \* DATA_BUF_NONE, LSA_NONE, VSA_FAIL

ASSUME CountAssumption == Count \in Nat \ {0} /\ NONE \notin Nat
ASSUME PartsAssumption == Parts # {} /\ Slices \subseteq Nat
ASSUME UnsetAssumption == Unset \notin Values
ASSUME NoneAssumption  == NONE \notin [Parts -> Values \cup {Unset}]
ASSUME WritesAssumption ==
  Writes \subseteq Slices \X ((SUBSET Parts) \ {{}}) \X Values

Entries == 0 .. Count - 1
Buckets == 0 .. Count - 1

VARIABLES
  buf,      \* dataBufMap, dataBufLruList and dataBufHashTable
  data,     \* the content of each entry
  flash,    \* the content of each slice on flash; NONE if it has no page
  written   \* what the host wrote last, for comparison

bufferVars == <<buf, data, flash, written>>

FindDataBufHashTableEntry(s) == s % Count

-----------------------------------------------------------------------------
(* The lists. *)

InitDataBuf ==
  [logicalSliceAddr |-> [e \in Entries |-> NONE],
   dirty         |-> [e \in Entries |-> FALSE],
   prevEntry     |-> [e \in Entries |-> IF e = 0 THEN NONE ELSE e - 1],
   nextEntry     |-> [e \in Entries |-> IF e = Count - 1 THEN NONE ELSE e + 1],
   lruHead       |-> 0,
   lruTail       |-> Count - 1,
   hashPrevEntry |-> [e \in Entries |-> NONE],
   hashNextEntry |-> [e \in Entries |-> NONE],
   hashHead      |-> [h \in Buckets |-> NONE],
   hashTail      |-> [h \in Buckets |-> NONE]]

\* Entry e leaves the LRU list.
UnlinkLru(k, e) ==
  LET p == k.prevEntry[e]
      n == k.nextEntry[e]
      left == IF p # NONE THEN [k EXCEPT !.nextEntry[p] = n]
                          ELSE [k EXCEPT !.lruHead = n]
  IN  IF n # NONE THEN [left EXCEPT !.prevEntry[n] = p]
                  ELSE [left EXCEPT !.lruTail = p]

\* Entry e becomes the head of the LRU list.
PushLru(k, e) ==
  LET h == k.lruHead
      linked == [k EXCEPT !.prevEntry[e] = NONE,
                          !.nextEntry[e] = h,
                          !.lruHead = e]
  IN  IF h # NONE THEN [linked EXCEPT !.prevEntry[h] = e]
                  ELSE [linked EXCEPT !.lruTail = e]

\* Faulty variant: an entry in the middle of the list keeps its neighbours.
ToFront_Relinks(k, e) ==
  IF e = k.lruTail THEN PushLru(UnlinkLru(k, e), e) ELSE PushLru(k, e)

ToFront(k, e) == PushLru(UnlinkLru(k, e), e)

\* PutToDataBufHashList
PutToDataBufHashList(k, e) ==
  LET h == FindDataBufHashTableEntry(k.logicalSliceAddr[e])
      t == k.hashTail[h]
      linked == [k EXCEPT !.hashPrevEntry[e] = t,
                          !.hashNextEntry[e] = NONE,
                          !.hashTail[h] = e]
  IN  IF t # NONE THEN [linked EXCEPT !.hashNextEntry[t] = e]
                  ELSE [linked EXCEPT !.hashHead[h] = e]

\* Faulty variant: the entry stays on the chain of its old slice.
SelectiveGetFromDataBufHashList_Skipped(k, e) == k

\* SelectiveGetFromDataBufHashList
SelectiveGetFromDataBufHashList(k, e) ==
  LET p == k.hashPrevEntry[e]
      n == k.hashNextEntry[e]
      h == FindDataBufHashTableEntry(k.logicalSliceAddr[e])
      left == IF p # NONE THEN [k EXCEPT !.hashNextEntry[p] = n]
                          ELSE [k EXCEPT !.hashHead[h] = n]
  IN  IF k.logicalSliceAddr[e] = NONE THEN k
      ELSE IF n # NONE THEN [left EXCEPT !.hashPrevEntry[n] = p]
      ELSE [left EXCEPT !.hashTail[h] = p]

\* The first Count + 1 entries met on a list: from "start", through "next".
Walk(start, next) ==
  LET after(e) == IF e = NONE THEN NONE ELSE next[e]
      at[i \in 1 .. Count + 1] == IF i = 1 THEN start ELSE after(at[i - 1])
  IN  [i \in 1 .. Count + 1 |-> at[i]]

Chain(h) == Walk(buf.hashHead[h], buf.hashNextEntry)

\* CheckDataBufHit: the first entry of its chain that holds slice s, or NONE.
Found(s) ==
  LET c    == Chain(FindDataBufHashTableEntry(s))
      hits == {i \in 1 .. Count : c[i] # NONE /\ buf.logicalSliceAddr[c[i]] = s}
  IN  IF hits = {} THEN NONE ELSE c[Min(hits)]

-----------------------------------------------------------------------------
(* A slice request.  "ps" are the parts of the slice the host transfers.   *)

\* The host writes value x to the parts ps of slice s, held by entry e.
RxDMA(e, s, ps, x, k, content) ==
  /\ buf' = [k EXCEPT !.dirty[e] = TRUE]
  /\ data' = [data EXCEPT ![e] = [p \in Parts |-> IF p \in ps THEN x
                                                  ELSE content[p]]]
  /\ written' = [written EXCEPT ![s] = [p \in Parts |-> IF p \in ps THEN x
                                                        ELSE @[p]]]

HitRead(s) ==
  LET e == Found(s) IN
  /\ e # NONE
  /\ buf' = ToFront(buf, e)
  /\ UNCHANGED <<data, flash, written>>

HitWrite(s, ps, x) ==
  LET e == Found(s) IN
  /\ e # NONE
  /\ RxDMA(e, s, ps, x, ToFront(buf, e), data[e])
  /\ UNCHANGED flash

\* AllocateDataBuf takes the last entry of the LRU list off its chain; the
\* entry gets slice s, clean, on the chain of s.
Allocated(s) ==
  LET e == buf.lruTail
      taken == SelectiveGetFromDataBufHashList(ToFront(buf, e), e)
  IN  PutToDataBufHashList([taken EXCEPT !.logicalSliceAddr[e] = s,
                                         !.dirty[e] = FALSE], e)

\* EvictDataBufEntry: a dirty entry is written to flash before it is reused.
EvictDataBufEntry(e) ==
  flash' = IF buf.dirty[e]
           THEN [flash EXCEPT ![buf.logicalSliceAddr[e]] = data[e]]
           ELSE flash

\* Faulty variant: a partial write does not read the rest of the slice.
MustRead_Never(ps) == FALSE

\* A write needs the old content unless it replaces all of it.
MustRead(ps) == ps # Parts

\* DataReadFromNand: the content the entry has when the transfer begins.  A
\* slice without a page is not read: the entry keeps what it held.
Loaded(s, e, read) ==
  IF read /\ flash'[s] # NONE THEN flash'[s] ELSE data[e]

Missing(s) == Found(s) = NONE

MissRead(s) ==
  LET e == buf.lruTail IN
  /\ Missing(s)
  /\ EvictDataBufEntry(e)
  /\ buf'  = Allocated(s)
  /\ data' = [data EXCEPT ![e] = Loaded(s, e, TRUE)]
  /\ UNCHANGED written

MissWrite(s, ps, x) ==
  LET e == buf.lruTail IN
  /\ Missing(s)
  /\ EvictDataBufEntry(e)
  /\ RxDMA(e, s, ps, x, Allocated(s), Loaded(s, e, MustRead(ps)))

-----------------------------------------------------------------------------

BufferInit ==
  /\ buf     = InitDataBuf
  /\ data    = [e \in Entries |-> [p \in Parts |-> Unset]]
  /\ flash   = [s \in Slices |-> NONE]
  /\ written = [s \in Slices |-> [p \in Parts |-> Unset]]

\* ReqTransSliceToLowLevel, one request of the slice queue.
ReqTransSliceToLowLevel ==
  \/ \E s \in Slices : HitRead(s) \/ MissRead(s)
  \/ \E w \in Writes : HitWrite(w[1], w[2], w[3]) \/ MissWrite(w[1], w[2], w[3])

BufferSpec == BufferInit /\ [][ReqTransSliceToLowLevel]_bufferVars

-----------------------------------------------------------------------------
(* Correctness. *)

LruOrder == Walk(buf.lruHead, buf.nextEntry)

Lru == INSTANCE LruCache
  WITH Size  <- Count,
       Empty <- NONE,
       cache <- LET order == LruOrder
                IN  [i \in 1 .. Count |->
                       [slice |-> buf.logicalSliceAddr[order[i]],
                        dirty |-> buf.dirty[order[i]]]]

\* The linked lists implement an LRU cache: each request is served from the
\* entry of its slice, or else from the entry used longest ago.
ImplementsLru == Lru!Spec

\* Every buffered slice is on the chain of its bucket, once, and the chain
\* holds nothing else, forwards and backwards: so CheckDataBufHit never misses
\* a buffered slice, which would give the slice a second entry.
ChainsExact ==
  \A h \in Buckets :
    LET c  == Chain(h)
        on == {i \in 1 .. Count + 1 : c[i] # NONE}
    IN  /\ {c[i] : i \in on} =
             {e \in Entries : /\ buf.logicalSliceAddr[e] # NONE
                              /\ FindDataBufHashTableEntry(buf.logicalSliceAddr[e]) = h}
        /\ \A i, j \in on : c[i] = c[j] => i = j
        /\ \A i \in on : buf.hashPrevEntry[c[i]] = IF i = 1 THEN NONE ELSE c[i - 1]

\* No update is lost: every part the host has written is, with the value
\* written last, in the entry of its slice, or on flash if it has none.
LastWriteKept ==
  \A s \in Slices :
    LET e == Found(s)
        kept == IF e # NONE THEN data[e] ELSE flash[s]
    IN  \A p \in Parts :
          written[s][p] # Unset => kept # NONE /\ kept[p] = written[s][p]
=============================================================================
