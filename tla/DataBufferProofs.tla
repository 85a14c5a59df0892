-------------------------- MODULE DataBufferProofs --------------------------
(***************************************************************************)
(* Proofs about the host data buffer, for any number of entries and any    *)
(* slices: its linked lists are what they seem, so it is an LRU cache, and *)
(* no update of the host is lost.                                          *)
(***************************************************************************)
EXTENDS DataBuffer, WellFoundedInduction, SequenceTheorems,
        FiniteSetTheorems, TLAPS

-----------------------------------------------------------------------------
(* The inductive invariant. *)

Contents == [Parts -> Values \cup {Unset}]
Links    == Entries \cup {NONE}

BufType(k) ==
  k \in [logicalSliceAddr : [Entries -> Slices \cup {NONE}],
         dirty         : [Entries -> BOOLEAN],
         prevEntry     : [Entries -> Links],
         nextEntry     : [Entries -> Links],
         lruHead       : Links,
         lruTail       : Links,
         hashPrevEntry : [Entries -> Links],
         hashNextEntry : [Entries -> Links],
         hashHead      : [Buckets -> Links],
         hashTail      : [Buckets -> Links]]

\* What precedes and what follows the i-th of n places of a list.
Before(s, i)   == IF i = 1 THEN NONE ELSE s[i - 1]
After(s, n, i) == IF i = n THEN NONE ELSE s[i + 1]

\* The LRU list passes through all entries in the order q.
Orders == {q \in [1 .. Count -> Entries] :
             /\ \A i, j \in 1 .. Count : q[i] = q[j] => i = j
             /\ \A e \in Entries : \E i \in 1 .. Count : q[i] = e}

LruThreads(k, q) ==
  /\ q \in Orders
  /\ k.lruHead = q[1]
  /\ k.lruTail = q[Count]
  /\ \A i \in 1 .. Count : /\ k.prevEntry[q[i]] = Before(q, i)
                           /\ k.nextEntry[q[i]] = After(q, Count, i)

\* The chain of bucket h passes through the n entries s, which are those that
\* hold a slice of the bucket.
InBucket(k, e, h) ==
  k.logicalSliceAddr[e] # NONE /\ FindDataBufHashTableEntry(k.logicalSliceAddr[e]) = h

ChainThreads(k, h, s, n) ==
  /\ n \in Nat
  /\ s \in [1 .. n -> Entries]
  /\ \A i, j \in 1 .. n : s[i] = s[j] => i = j
  /\ k.hashHead[h] = IF n = 0 THEN NONE ELSE s[1]
  /\ k.hashTail[h] = IF n = 0 THEN NONE ELSE s[n]
  /\ \A i \in 1 .. n : /\ k.hashPrevEntry[s[i]] = Before(s, i)
                       /\ k.hashNextEntry[s[i]] = After(s, n, i)

ChainHolds(k, h, s, n) ==
  \A e \in Entries : InBucket(k, e, h) <=> \E i \in 1 .. n : s[i] = e

ChainsThread(k) ==
  \A h \in Buckets : \E n \in Nat : \E s \in [1 .. n -> Entries] :
    ChainThreads(k, h, s, n) /\ ChainHolds(k, h, s, n)

\* A slice has one entry.
HeldOnce(k) ==
  \A e, f \in Entries :
    k.logicalSliceAddr[e] # NONE /\ k.logicalSliceAddr[e] = k.logicalSliceAddr[f] => e = f

ListsInv(k) ==
  /\ BufType(k)
  /\ \E q \in Orders : LruThreads(k, q)
  /\ ChainsThread(k)
  /\ HeldOnce(k)

\* Content c of slice s has every part the host has written.
UpToDate(s, c) ==
  \A p \in Parts : written[s][p] # Unset => c # NONE /\ c[p] = written[s][p]

\* The entry of a slice is up to date, and so is the flash unless the entry is
\* dirty.
ContentInv ==
  /\ data \in [Entries -> Contents]
  /\ flash \in [Slices -> Contents \cup {NONE}]
  /\ written \in [Slices -> Contents]
  /\ \A e \in Entries : buf.logicalSliceAddr[e] # NONE =>
       /\ UpToDate(buf.logicalSliceAddr[e], data[e])
       /\ ~ buf.dirty[e] => UpToDate(buf.logicalSliceAddr[e], flash[buf.logicalSliceAddr[e]])
  /\ \A s \in Slices :
       (\A e \in Entries : buf.logicalSliceAddr[e] # s) => UpToDate(s, flash[s])

BufferInv == ListsInv(buf) /\ ContentInv

-----------------------------------------------------------------------------
(* The LRU list. *)

\* The order once its j-th entry has moved to the front.
Front(q, j) ==
  [i \in 1 .. Count |-> IF i = 1 THEN q[j] ELSE IF i <= j THEN q[i - 1] ELSE q[i]]

LEMMA EntriesFacts ==
  /\ NONE \notin Entries
  /\ 1 \in 1 .. Count /\ Count \in 1 .. Count /\ Count \in Nat /\ Count > 0
  /\ \A s \in Slices : s \in Nat /\ s # NONE
BY CountAssumption, PartsAssumption DEF Entries

LEMMA FrontOrder ==
  ASSUME NEW q \in Orders, NEW j \in 1 .. Count
  PROVE  Front(q, j) \in Orders
<1>1. Front(q, j) \in [1 .. Count -> Entries]
  BY EntriesFacts DEF Front, Orders
<1>2. ASSUME NEW a \in 1 .. Count, NEW b \in 1 .. Count, Front(q, j)[a] = Front(q, j)[b]
      PROVE  a = b
  BY <1>2, EntriesFacts DEF Front, Orders
<1>3. ASSUME NEW e \in Entries
      PROVE  \E i \in 1 .. Count : Front(q, j)[i] = e
  <2>1. PICK i \in 1 .. Count : q[i] = e
    BY DEF Orders
  <2>2. CASE i = j
    BY <2>1, <2>2, EntriesFacts DEF Front
  <2>3. CASE i < j
    <3>1. i + 1 \in 1 .. Count /\ i + 1 # 1 /\ i + 1 <= j /\ (i + 1) - 1 = i
      BY <2>3, EntriesFacts
    <3> QED BY <2>1, <3>1 DEF Front
  <2>4. CASE i > j
    BY <2>1, <2>4, EntriesFacts DEF Front
  <2> QED BY <2>2, <2>3, <2>4
<1> QED BY <1>1, <1>2, <1>3 DEF Orders

\* What the two steps of ToFront do to the list; nothing else changes.
SameOffLru(k, l) ==
  /\ l.logicalSliceAddr = k.logicalSliceAddr
  /\ l.dirty = k.dirty
  /\ l.hashPrevEntry = k.hashPrevEntry
  /\ l.hashNextEntry = k.hashNextEntry
  /\ l.hashHead = k.hashHead
  /\ l.hashTail = k.hashTail

LEMMA UnlinkLruFields ==
  ASSUME NEW k, BufType(k), NEW e \in Entries
  PROVE  LET p == k.prevEntry[e]
             n == k.nextEntry[e]
             l == UnlinkLru(k, e)
         IN  /\ BufType(l)
             /\ SameOffLru(k, l)
             /\ l.nextEntry = IF p # NONE THEN [k.nextEntry EXCEPT ![p] = n] ELSE k.nextEntry
             /\ l.lruHead   = IF p # NONE THEN k.lruHead ELSE n
             /\ l.prevEntry = IF n # NONE THEN [k.prevEntry EXCEPT ![n] = p] ELSE k.prevEntry
             /\ l.lruTail   = IF n # NONE THEN k.lruTail ELSE p
<1> DEFINE p == k.prevEntry[e]
           n == k.nextEntry[e]
<1>1. p \in Links /\ n \in Links
  BY DEF BufType
<1>2. CASE p # NONE /\ n # NONE
  BY <1>1, <1>2 DEF UnlinkLru, BufType, SameOffLru, Links
<1>3. CASE p # NONE /\ n = NONE
  BY <1>1, <1>3 DEF UnlinkLru, BufType, SameOffLru, Links
<1>4. CASE p = NONE /\ n # NONE
  BY <1>1, <1>4 DEF UnlinkLru, BufType, SameOffLru, Links
<1>5. CASE p = NONE /\ n = NONE
  BY <1>1, <1>5 DEF UnlinkLru, BufType, SameOffLru, Links
<1> QED BY <1>2, <1>3, <1>4, <1>5

LEMMA PushLruFields ==
  ASSUME NEW k, BufType(k), NEW e \in Entries
  PROVE  LET h == k.lruHead
             l == PushLru(k, e)
         IN  /\ BufType(l)
             /\ SameOffLru(k, l)
             /\ l.lruHead   = e
             /\ l.nextEntry = [k.nextEntry EXCEPT ![e] = h]
             /\ l.prevEntry = IF h # NONE THEN [[k.prevEntry EXCEPT ![e] = NONE] EXCEPT ![h] = e]
                              ELSE [k.prevEntry EXCEPT ![e] = NONE]
             /\ l.lruTail   = IF h # NONE THEN k.lruTail ELSE e
<1>1. k.lruHead \in Links
  BY DEF BufType
<1>2. CASE k.lruHead # NONE
  BY <1>1, <1>2 DEF PushLru, BufType, SameOffLru, Links
<1>3. CASE k.lruHead = NONE
  BY <1>1, <1>3 DEF PushLru, BufType, SameOffLru, Links
<1> QED BY <1>2, <1>3

\* ToFront does to the links what Front does to the order.
LEMMA ToFrontThreads ==
  ASSUME NEW k, BufType(k), NEW q \in Orders, LruThreads(k, q), NEW j \in 1 .. Count
  PROVE  /\ BufType(ToFront(k, q[j]))
         /\ SameOffLru(k, ToFront(k, q[j]))
         /\ LruThreads(ToFront(k, q[j]), Front(q, j))
<1> DEFINE e == q[j]
           p == k.prevEntry[e]
           n == k.nextEntry[e]
           m == UnlinkLru(k, e)
           h == m.lruHead
           l == PushLru(m, e)
           r == Front(q, j)
<1>1. /\ e \in Entries
      /\ p = Before(q, j) /\ n = After(q, Count, j)
      /\ k.lruHead = q[1] /\ k.lruTail = q[Count]
      /\ q \in [1 .. Count -> Entries]
      /\ \A a, b \in 1 .. Count : q[a] = q[b] => a = b
  BY DEF LruThreads, Orders
<1>2. /\ BufType(m)
      /\ SameOffLru(k, m)
      /\ m.nextEntry = IF p # NONE THEN [k.nextEntry EXCEPT ![p] = n] ELSE k.nextEntry
      /\ m.lruHead   = IF p # NONE THEN k.lruHead ELSE n
      /\ m.prevEntry = IF n # NONE THEN [k.prevEntry EXCEPT ![n] = p] ELSE k.prevEntry
      /\ m.lruTail   = IF n # NONE THEN k.lruTail ELSE p
  <2>1. e \in Entries
    BY <1>1
  <2> HIDE DEF e
  <2> QED BY <2>1, UnlinkLruFields
<1>3. /\ BufType(l)
      /\ SameOffLru(m, l)
      /\ l.lruHead   = e
      /\ l.nextEntry = [m.nextEntry EXCEPT ![e] = h]
      /\ l.prevEntry = IF h # NONE THEN [[m.prevEntry EXCEPT ![e] = NONE] EXCEPT ![h] = e]
                       ELSE [m.prevEntry EXCEPT ![e] = NONE]
      /\ l.lruTail   = IF h # NONE THEN m.lruTail ELSE e
  <2>1. BufType(m) /\ e \in Entries
    BY <1>1, <1>2
  <2> HIDE DEF m, e
  <2> QED BY <2>1, PushLruFields
<1>4. l = ToFront(k, e)
  BY DEF ToFront
<1>5. /\ BufType(l) /\ SameOffLru(k, l)
  BY <1>2, <1>3 DEF SameOffLru
<1>6. r \in Orders
  BY FrontOrder
<1> HIDE DEF l, m
<1>7. /\ k.prevEntry \in [Entries -> Links] /\ k.nextEntry \in [Entries -> Links]
      /\ m.prevEntry \in [Entries -> Links] /\ m.nextEntry \in [Entries -> Links]
      /\ l.prevEntry \in [Entries -> Links] /\ l.nextEntry \in [Entries -> Links]
  BY <1>2, <1>3 DEF BufType
<1>8. /\ \A i \in 1 .. Count : q[i] # NONE
      /\ \A i \in 1 .. Count : /\ k.prevEntry[q[i]] = Before(q, i)
                               /\ k.nextEntry[q[i]] = After(q, Count, i)
  BY <1>1, EntriesFacts DEF LruThreads
<1>9. l.lruHead = r[1] /\ l.lruTail = r[Count]
  <2>1. CASE Count = 1
    BY <2>1, <1>1, <1>2, <1>3, EntriesFacts DEF Front, Before, After
  <2>2. CASE Count # 1 /\ j = Count
    BY <2>2, <1>1, <1>2, <1>3, <1>8, EntriesFacts DEF Front, Before, After
  <2>3. CASE Count # 1 /\ j # Count
    BY <2>3, <1>1, <1>2, <1>3, <1>8, EntriesFacts DEF Front, Before, After
  <2> QED BY <2>1, <2>2, <2>3
<1>10. h = IF j = 1 THEN After(q, Count, 1) ELSE q[1]
  BY <1>1, <1>2, <1>8, EntriesFacts DEF Before
<1>11. ASSUME NEW i \in 1 .. Count
       PROVE  l.nextEntry[r[i]] = After(r, Count, i)
  <2>1. CASE i = 1
    BY <2>1, <1>1, <1>3, <1>7, <1>10, EntriesFacts DEF Front, After
  <2>2. CASE i # 1 /\ i <= j
    <3>1. r[i] = q[i - 1] /\ i - 1 \in 1 .. Count /\ i - 1 # j /\ r[i] # e /\ j # 1
      BY <2>2, <1>1, EntriesFacts DEF Front
    <3>2. l.nextEntry[r[i]] = m.nextEntry[q[i - 1]]
      BY <3>1, <1>1, <1>3, <1>7
    <3>3. p = q[j - 1] /\ p # NONE /\ j - 1 \in 1 .. Count
      BY <3>1, <1>1, <1>8, EntriesFacts DEF Before
    <3>4. CASE i = j
      BY <3>1, <3>2, <3>3, <3>4, <1>1, <1>2, <1>7, EntriesFacts DEF Front, After
    <3>5. CASE i # j
      <4>0. i - 1 # j - 1 /\ i + 1 \in 1 .. Count /\ (i - 1) + 1 = i /\ (i + 1) - 1 = i
        BY <3>5, <2>2, EntriesFacts
      <4>1. q[i - 1] # q[j - 1]
        BY <4>0, <3>1, <3>3, <1>1
      <4>2. m.nextEntry[q[i - 1]] = q[i]
        BY <4>0, <4>1, <3>1, <3>3, <1>1, <1>2, <1>7, <1>8, EntriesFacts DEF After
      <4> QED BY <4>0, <4>1, <4>2, <3>2, <3>5, <2>2, EntriesFacts DEF Front, After
    <3> QED BY <3>4, <3>5
  <2>3. CASE i # 1 /\ i > j
    <3>1. r[i] = q[i] /\ i # j /\ r[i] # e
      BY <2>3, <1>1, EntriesFacts DEF Front
    <3>2. l.nextEntry[r[i]] = m.nextEntry[q[i]]
      BY <3>1, <1>1, <1>3, <1>7
    <3>3. m.nextEntry[q[i]] = k.nextEntry[q[i]]
      BY <2>3, <1>1, <1>2, <1>7, EntriesFacts DEF Before
    <3> QED BY <3>2, <3>3, <2>3, <1>8, EntriesFacts DEF Front, After
  <2> QED BY <2>1, <2>2, <2>3, EntriesFacts
<1>12. ASSUME NEW i \in 1 .. Count
       PROVE  l.prevEntry[r[i]] = Before(r, i)
  <2>0. h # NONE => h \in Entries
    BY <1>2 DEF BufType, Links
  <2>1. CASE i = 1
    <3>1. r[i] = e /\ h # e
      BY <2>1, <1>1, <1>8, <1>10, EntriesFacts DEF Front, After
    <3> QED BY <2>0, <2>1, <3>1, <1>1, <1>3, <1>7, EntriesFacts DEF Before
  <2>2. CASE i = 2
    <3>1. r[i] = h /\ h # NONE /\ r[i - 1] = e
      BY <2>2, <1>1, <1>8, <1>10, EntriesFacts DEF Front, After
    <3> QED BY <2>0, <2>2, <3>1, <1>1, <1>3, <1>7, EntriesFacts DEF Before
  <2>3. CASE i > 2 /\ i <= j
    <3>1. /\ r[i] = q[i - 1] /\ r[i - 1] = q[i - 2]
          /\ i - 1 \in 1 .. Count /\ i - 2 \in 1 .. Count /\ i - 1 # 1 /\ i - 1 # j
          /\ (i - 1) - 1 = i - 2
      BY <2>3, <1>1, EntriesFacts DEF Front
    <3>2. r[i] # e /\ r[i] # h
      BY <3>1, <2>3, <1>1, <1>10, EntriesFacts
    <3>3. l.prevEntry[r[i]] = m.prevEntry[q[i - 1]]
      BY <3>1, <3>2, <2>0, <1>1, <1>3, <1>7
    <3>4. m.prevEntry[q[i - 1]] = k.prevEntry[q[i - 1]]
      BY <3>1, <2>3, <1>1, <1>2, <1>7, EntriesFacts DEF After
    <3> QED BY <3>1, <3>3, <3>4, <2>3, <1>8 DEF Before
  <2>4. CASE i > 2 /\ i > j
    <3>1. /\ r[i] = q[i] /\ i - 1 \in 1 .. Count
          /\ r[i - 1] = IF i - 1 <= j THEN q[i - 2] ELSE q[i - 1]
      BY <2>4, <1>1, EntriesFacts DEF Front
    <3>2. r[i] # e /\ r[i] # h
      BY <3>1, <2>4, <1>1, <1>8, <1>10, EntriesFacts DEF After
    <3>3. l.prevEntry[r[i]] = m.prevEntry[q[i]]
      BY <3>1, <3>2, <2>0, <1>1, <1>3, <1>7
    <3>4. CASE i = j + 1
      <4>1. n = q[i] /\ n # NONE
        BY <3>4, <1>1, <1>8, EntriesFacts DEF After
      <4>2. m.prevEntry[q[i]] = p /\ p = q[i - 2]
        BY <4>1, <3>4, <2>4, <1>1, <1>2, <1>7, EntriesFacts DEF Before
      <4> QED BY <4>2, <3>1, <3>3, <3>4, <2>4 DEF Before
    <3>5. CASE i # j + 1
      <4>1. m.prevEntry[q[i]] = k.prevEntry[q[i]]
        BY <3>5, <2>4, <1>1, <1>2, <1>7, <1>8, EntriesFacts DEF After
      <4> QED BY <4>1, <3>1, <3>3, <3>5, <2>4, <1>8, EntriesFacts DEF Before
    <3> QED BY <3>4, <3>5
  <2> QED BY <2>1, <2>2, <2>3, <2>4, EntriesFacts
<1> QED BY <1>4, <1>5, <1>6, <1>9, <1>11, <1>12 DEF LruThreads

-----------------------------------------------------------------------------
(* The chains. *)

LEMMA BucketFacts ==
  ASSUME NEW s \in Slices
  PROVE  FindDataBufHashTableEntry(s) \in Buckets
BY CountAssumption, PartsAssumption DEF FindDataBufHashTableEntry, Buckets

SameOffChains(k, l) ==
  /\ l.logicalSliceAddr = k.logicalSliceAddr
  /\ l.dirty = k.dirty
  /\ l.prevEntry = k.prevEntry
  /\ l.nextEntry = k.nextEntry
  /\ l.lruHead = k.lruHead
  /\ l.lruTail = k.lruTail

LEMMA UnchainFields ==
  ASSUME NEW k, BufType(k), NEW e \in Entries, k.logicalSliceAddr[e] # NONE
  PROVE  LET p == k.hashPrevEntry[e]
             n == k.hashNextEntry[e]
             h == FindDataBufHashTableEntry(k.logicalSliceAddr[e])
             l == SelectiveGetFromDataBufHashList(k, e)
         IN  /\ BufType(l)
             /\ SameOffChains(k, l)
             /\ l.hashNextEntry = IF p # NONE THEN [k.hashNextEntry EXCEPT ![p] = n]
                                              ELSE k.hashNextEntry
             /\ l.hashHead      = IF p # NONE THEN k.hashHead ELSE [k.hashHead EXCEPT ![h] = n]
             /\ l.hashPrevEntry = IF n # NONE THEN [k.hashPrevEntry EXCEPT ![n] = p]
                                              ELSE k.hashPrevEntry
             /\ l.hashTail      = IF n # NONE THEN k.hashTail ELSE [k.hashTail EXCEPT ![h] = p]
<1> DEFINE p == k.hashPrevEntry[e]
           n == k.hashNextEntry[e]
           h == FindDataBufHashTableEntry(k.logicalSliceAddr[e])
<1>1. p \in Links /\ n \in Links
  BY DEF BufType
<1>2. h \in Buckets
  BY BucketFacts DEF BufType
<1> HIDE DEF h
<1>3. CASE p # NONE /\ n # NONE
  BY <1>1, <1>2, <1>3 DEF SelectiveGetFromDataBufHashList, BufType, SameOffChains, Links, h
<1>4. CASE p # NONE /\ n = NONE
  BY <1>1, <1>2, <1>4 DEF SelectiveGetFromDataBufHashList, BufType, SameOffChains, Links, h
<1>5. CASE p = NONE /\ n # NONE
  BY <1>1, <1>2, <1>5 DEF SelectiveGetFromDataBufHashList, BufType, SameOffChains, Links, h
<1>6. CASE p = NONE /\ n = NONE
  BY <1>1, <1>2, <1>6 DEF SelectiveGetFromDataBufHashList, BufType, SameOffChains, Links, h
<1> QED BY <1>3, <1>4, <1>5, <1>6 DEF h

LEMMA ChainFields ==
  ASSUME NEW k, BufType(k), NEW e \in Entries, k.logicalSliceAddr[e] \in Slices,
         NEW h, h = FindDataBufHashTableEntry(k.logicalSliceAddr[e]),
         NEW t, t = k.hashTail[h],
         NEW l, l = PutToDataBufHashList(k, e)
  PROVE  /\ BufType(l)
         /\ SameOffChains(k, l)
         /\ l.hashPrevEntry = [k.hashPrevEntry EXCEPT ![e] = t]
         /\ l.hashTail      = [k.hashTail EXCEPT ![h] = e]
         /\ l.hashNextEntry = IF t # NONE
                              THEN [[k.hashNextEntry EXCEPT ![e] = NONE] EXCEPT ![t] = e]
                              ELSE [k.hashNextEntry EXCEPT ![e] = NONE]
         /\ l.hashHead      = IF t # NONE THEN k.hashHead ELSE [k.hashHead EXCEPT ![h] = e]
<1>1. h \in Buckets
  BY BucketFacts
<1>2. t \in Links
  BY <1>1 DEF BufType
<1>3. CASE t # NONE
  BY <1>1, <1>2, <1>3 DEF PutToDataBufHashList, BufType, SameOffChains, Links
<1>4. CASE t = NONE
  BY <1>1, <1>2, <1>4 DEF PutToDataBufHashList, BufType, SameOffChains, Links
<1> QED BY <1>3, <1>4

\* A list of n places without its j-th.
Without(s, n, j) == [i \in 1 .. n - 1 |-> IF i < j THEN s[i] ELSE s[i + 1]]

\* A list of n places with one more.
With(s, n, e) == [i \in 1 .. n + 1 |-> IF i = n + 1 THEN e ELSE s[i]]

\* A chain is not touched by steps that leave its bucket and its entries alone.
LEMMA ChainKept ==
  ASSUME NEW k, NEW l, NEW h, NEW s, NEW n, ChainThreads(k, h, s, n),
         l.hashHead[h] = k.hashHead[h], l.hashTail[h] = k.hashTail[h],
         \A i \in 1 .. n : /\ l.hashPrevEntry[s[i]] = k.hashPrevEntry[s[i]]
                           /\ l.hashNextEntry[s[i]] = k.hashNextEntry[s[i]]
  PROVE  ChainThreads(l, h, s, n)
BY DEF ChainThreads

\* The step from k to l leaves alone what is not of bucket h: entries other than
\* those of the list s, and e, and other buckets.
OthersKept(k, l, h, s, n, e) ==
  /\ \A x \in Entries \ {e} :
       (\A i \in 1 .. n : s[i] # x) =>
          /\ l.hashPrevEntry[x] = k.hashPrevEntry[x]
          /\ l.hashNextEntry[x] = k.hashNextEntry[x]
  /\ \A g \in Buckets \ {h} : /\ l.hashHead[g] = k.hashHead[g]
                              /\ l.hashTail[g] = k.hashTail[g]

LEMMA UnchainThreads ==
  ASSUME NEW k, BufType(k), NEW e \in Entries, k.logicalSliceAddr[e] # NONE,
         NEW h, h = FindDataBufHashTableEntry(k.logicalSliceAddr[e]),
         NEW s, NEW n, ChainThreads(k, h, s, n), NEW j \in 1 .. n, s[j] = e
  PROVE  /\ ChainThreads(SelectiveGetFromDataBufHashList(k, e), h, Without(s, n, j), n - 1)
         /\ OthersKept(k, SelectiveGetFromDataBufHashList(k, e), h, s, n, e)
<1> DEFINE p == k.hashPrevEntry[e]
           m == k.hashNextEntry[e]
           l == SelectiveGetFromDataBufHashList(k, e)
           r == Without(s, n, j)
<1>1. /\ n \in Nat /\ n > 0 /\ s \in [1 .. n -> Entries]
      /\ \A a, b \in 1 .. n : s[a] = s[b] => a = b
      /\ \A i \in 1 .. n : /\ s[i] # NONE
                           /\ k.hashPrevEntry[s[i]] = Before(s, i)
                           /\ k.hashNextEntry[s[i]] = After(s, n, i)
      /\ k.hashHead[h] = s[1] /\ k.hashTail[h] = s[n]
  BY EntriesFacts DEF ChainThreads
<1>2. p = Before(s, j) /\ m = After(s, n, j)
  BY <1>1
<1>3. /\ BufType(l)
      /\ l.hashNextEntry = IF p # NONE THEN [k.hashNextEntry EXCEPT ![p] = m] ELSE k.hashNextEntry
      /\ l.hashHead      = IF p # NONE THEN k.hashHead ELSE [k.hashHead EXCEPT ![h] = m]
      /\ l.hashPrevEntry = IF m # NONE THEN [k.hashPrevEntry EXCEPT ![m] = p] ELSE k.hashPrevEntry
      /\ l.hashTail      = IF m # NONE THEN k.hashTail ELSE [k.hashTail EXCEPT ![h] = p]
  BY UnchainFields
<1>4. /\ h \in Buckets
      /\ k.hashPrevEntry \in [Entries -> Links] /\ k.hashNextEntry \in [Entries -> Links]
      /\ k.hashHead \in [Buckets -> Links] /\ k.hashTail \in [Buckets -> Links]
  BY BucketFacts DEF BufType
<1>5. /\ p = IF j = 1 THEN NONE ELSE s[j - 1]
      /\ m = IF j = n THEN NONE ELSE s[j + 1]
      /\ p # NONE <=> j # 1
      /\ m # NONE <=> j # n
  BY <1>1, <1>2 DEF Before, After
<1> HIDE DEF l, p, m
<1>6. ASSUME NEW x \in Entries, \A i \in 1 .. n : s[i] # x
      PROVE  /\ l.hashPrevEntry[x] = k.hashPrevEntry[x]
             /\ l.hashNextEntry[x] = k.hashNextEntry[x]
  <2>1. (p # NONE => x # p) /\ (m # NONE => x # m)
    BY <1>1, <1>5, <1>6
  <2> QED BY <2>1, <1>3, <1>4
<1>7. ASSUME NEW g \in Buckets \ {h}
      PROVE  l.hashHead[g] = k.hashHead[g] /\ l.hashTail[g] = k.hashTail[g]
  BY <1>3, <1>4
<1>8. n - 1 \in Nat /\ r \in [1 .. n - 1 -> Entries]
  BY <1>1 DEF Without
<1>9. ASSUME NEW x \in Entries
       PROVE  /\ l.hashPrevEntry[x] = IF x = m THEN p ELSE k.hashPrevEntry[x]
              /\ l.hashNextEntry[x] = IF x = p THEN m ELSE k.hashNextEntry[x]
  BY <1>3, <1>4, EntriesFacts
<1>10. \A a, b \in 1 .. n - 1 : r[a] = r[b] => a = b
  BY <1>1 DEF Without
<1>11. /\ l.hashHead[h] = IF n - 1 = 0 THEN NONE ELSE r[1]
       /\ l.hashTail[h] = IF n - 1 = 0 THEN NONE ELSE r[n - 1]
  BY <1>1, <1>3, <1>4, <1>5 DEF Without
<1>12. ASSUME NEW i \in 1 .. n - 1
       PROVE  l.hashPrevEntry[r[i]] = Before(r, i) /\ l.hashNextEntry[r[i]] = After(r, n - 1, i)
  <2>1. /\ r[i] = IF i < j THEN s[i] ELSE s[i + 1]
        /\ i > 1 => r[i - 1] = IF i - 1 < j THEN s[i - 1] ELSE s[i]
        /\ i < n - 1 => r[i + 1] = IF i + 1 < j THEN s[i + 1] ELSE s[i + 2]
    BY <1>1 DEF Without
  <2>2. ASSUME NEW c \in 1 .. n, c # j
        PROVE  /\ l.hashPrevEntry[s[c]] = IF c = j + 1 THEN p ELSE Before(s, c)
               /\ l.hashNextEntry[s[c]] = IF c = j - 1 THEN m ELSE After(s, n, c)
    <3>1. /\ s[c] \in Entries /\ s[c] # NONE
          /\ k.hashPrevEntry[s[c]] = Before(s, c) /\ k.hashNextEntry[s[c]] = After(s, n, c)
      BY <1>1
    <3>2. s[c] = m <=> c = j + 1
      BY <1>1, <1>5, <2>2, <3>1
    <3>3. s[c] = p <=> c = j - 1
      BY <1>1, <1>5, <2>2, <3>1
    <3> QED BY <3>1, <3>2, <3>3, <1>9
  <2> HIDE DEF r
  <2>3. n \in Nat /\ j \in 1 .. n /\ i \in 1 .. n /\ i + 1 \in 1 .. n
    BY <1>1
  <2>4. CASE i < j
    <3>1. l.hashPrevEntry[s[i]] = Before(s, i)
      BY <2>2, <2>3, <2>4
    <3>2. l.hashNextEntry[s[i]] = IF i = j - 1 THEN m ELSE After(s, n, i)
      BY <2>2, <2>3, <2>4
    <3>3. Before(r, i) = Before(s, i)
      BY <2>1, <2>3, <2>4 DEF Before
    <3>4. After(r, n - 1, i) = IF i = j - 1 THEN m ELSE After(s, n, i)
      BY <2>1, <2>3, <2>4, <1>5 DEF After
    <3> QED BY <2>1, <2>4, <3>1, <3>2, <3>3, <3>4
  <2>5. CASE ~ (i < j)
    <3>1. l.hashPrevEntry[s[i + 1]] = IF i = j THEN p ELSE Before(s, i + 1)
      BY <2>2, <2>3, <2>5
    <3>2. l.hashNextEntry[s[i + 1]] = After(s, n, i + 1)
      BY <2>2, <2>3, <2>5
    <3>3. Before(r, i) = IF i = j THEN p ELSE Before(s, i + 1)
      BY <2>1, <2>3, <2>5, <1>5 DEF Before
    <3>4. After(r, n - 1, i) = After(s, n, i + 1)
      BY <2>1, <2>3, <2>5 DEF After
    <3> QED BY <2>1, <2>5, <3>1, <3>2, <3>3, <3>4
  <2> QED BY <2>4, <2>5
<1>13. ChainThreads(l, h, r, n - 1)
  BY <1>8, <1>10, <1>11, <1>12 DEF ChainThreads
<1> QED BY <1>6, <1>7, <1>13 DEF l, OthersKept

LEMMA ChainedThreads ==
  ASSUME NEW k, BufType(k), NEW e \in Entries, k.logicalSliceAddr[e] \in Slices,
         NEW s, NEW n,
         ChainThreads(k, FindDataBufHashTableEntry(k.logicalSliceAddr[e]), s, n),
         \A i \in 1 .. n : s[i] # e
  PROVE  LET h == FindDataBufHashTableEntry(k.logicalSliceAddr[e])
         IN  /\ ChainThreads(PutToDataBufHashList(k, e), h, With(s, n, e), n + 1)
             /\ OthersKept(k, PutToDataBufHashList(k, e), h, s, n, e)
<1> DEFINE h == FindDataBufHashTableEntry(k.logicalSliceAddr[e])
           t == k.hashTail[h]
           l == PutToDataBufHashList(k, e)
           r == With(s, n, e)
<1>0. h = FindDataBufHashTableEntry(k.logicalSliceAddr[e]) /\ t = k.hashTail[h]
      /\ l = PutToDataBufHashList(k, e)
  OBVIOUS
<1> HIDE DEF l, t, h
<1>1. /\ n \in Nat /\ s \in [1 .. n -> Entries]
      /\ \A a, b \in 1 .. n : s[a] = s[b] => a = b
      /\ \A i \in 1 .. n : /\ s[i] # NONE
                           /\ k.hashPrevEntry[s[i]] = Before(s, i)
                           /\ k.hashNextEntry[s[i]] = After(s, n, i)
      /\ k.hashHead[h] = IF n = 0 THEN NONE ELSE s[1]
      /\ t = IF n = 0 THEN NONE ELSE s[n]
  BY <1>0, EntriesFacts DEF ChainThreads
<1>2. /\ BufType(l)
      /\ l.hashPrevEntry = [k.hashPrevEntry EXCEPT ![e] = t]
      /\ l.hashTail      = [k.hashTail EXCEPT ![h] = e]
      /\ l.hashNextEntry = IF t # NONE
                           THEN [[k.hashNextEntry EXCEPT ![e] = NONE] EXCEPT ![t] = e]
                           ELSE [k.hashNextEntry EXCEPT ![e] = NONE]
      /\ l.hashHead      = IF t # NONE THEN k.hashHead ELSE [k.hashHead EXCEPT ![h] = e]
  BY <1>0, ChainFields
<1>3. /\ h \in Buckets
      /\ k.hashPrevEntry \in [Entries -> Links] /\ k.hashNextEntry \in [Entries -> Links]
      /\ k.hashHead \in [Buckets -> Links] /\ k.hashTail \in [Buckets -> Links]
  BY <1>0, BucketFacts DEF BufType
<1>4. t # NONE <=> n # 0
  BY <1>1
<1>5. ASSUME NEW x \in Entries \ {e}, \A i \in 1 .. n : s[i] # x
      PROVE  /\ l.hashPrevEntry[x] = k.hashPrevEntry[x]
             /\ l.hashNextEntry[x] = k.hashNextEntry[x]
  BY <1>1, <1>2, <1>3, <1>4, <1>5
<1>6. ASSUME NEW g \in Buckets \ {h}
      PROVE  l.hashHead[g] = k.hashHead[g] /\ l.hashTail[g] = k.hashTail[g]
  BY <1>2, <1>3
<1>7. n + 1 \in Nat /\ r \in [1 .. n + 1 -> Entries]
  BY <1>1 DEF With
<1>8. ASSUME NEW x \in Entries
      PROVE  /\ l.hashPrevEntry[x] = IF x = e THEN t ELSE k.hashPrevEntry[x]
             /\ l.hashNextEntry[x] = IF x = t THEN e
                                     ELSE IF x = e THEN NONE ELSE k.hashNextEntry[x]
  BY <1>2, <1>3, EntriesFacts
<1>9. \A a, b \in 1 .. n + 1 : r[a] = r[b] => a = b
  BY <1>1 DEF With
<1>10. /\ l.hashHead[h] = IF n + 1 = 0 THEN NONE ELSE r[1]
      /\ l.hashTail[h] = IF n + 1 = 0 THEN NONE ELSE r[n + 1]
  BY <1>1, <1>2, <1>3, <1>4 DEF With
<1>11. ASSUME NEW i \in 1 .. n + 1
       PROVE  l.hashPrevEntry[r[i]] = Before(r, i) /\ l.hashNextEntry[r[i]] = After(r, n + 1, i)
  <2>1. /\ r[i] = IF i = n + 1 THEN e ELSE s[i]
        /\ i > 1 => r[i - 1] = s[i - 1]
        /\ i < n + 1 => r[i + 1] = IF i = n THEN e ELSE s[i + 1]
    BY <1>1 DEF With
  <2> HIDE DEF r
  <2>2. CASE i = n + 1
    <3>1. l.hashPrevEntry[e] = t /\ l.hashNextEntry[e] = NONE
      BY <1>1, <1>4, <1>8
    <3>2. Before(r, i) = t
      BY <2>1, <2>2, <1>1 DEF Before
    <3> QED BY <2>1, <2>2, <3>1, <3>2 DEF After
  <2>3. CASE i # n + 1
    <3>1. n \in Nat /\ i \in 1 .. n
      BY <1>1, <2>3
    <3>2. /\ s[i] \in Entries /\ s[i] # e /\ (s[i] = t <=> i = n)
          /\ k.hashPrevEntry[s[i]] = Before(s, i) /\ k.hashNextEntry[s[i]] = After(s, n, i)
      BY <1>1, <3>1
    <3>3. /\ l.hashPrevEntry[s[i]] = Before(s, i)
          /\ l.hashNextEntry[s[i]] = IF i = n THEN e ELSE After(s, n, i)
      BY <1>8, <3>2
    <3>4. Before(r, i) = Before(s, i)
      BY <2>1, <3>1 DEF Before
    <3>5. After(r, n + 1, i) = IF i = n THEN e ELSE After(s, n, i)
      BY <2>1, <3>1 DEF After
    <3> QED BY <2>1, <2>3, <3>3, <3>4, <3>5
  <2> QED BY <2>2, <2>3
<1>12. ChainThreads(l, h, r, n + 1)
  BY <1>7, <1>9, <1>10, <1>11 DEF ChainThreads
<1> QED BY <1>5, <1>6, <1>12 DEF l, h, OthersKept

-----------------------------------------------------------------------------
(* What a request leaves of the lists. *)

\* ToFront changes no chain.
LEMMA ToFrontLists ==
  ASSUME NEW k, ListsInv(k), NEW e \in Entries
  PROVE  ListsInv(ToFront(k, e)) /\ SameOffLru(k, ToFront(k, e))
<1>1. PICK q \in Orders : LruThreads(k, q)
  BY DEF ListsInv
<1>2. PICK j \in 1 .. Count : q[j] = e
  BY DEF Orders
<1> DEFINE l == ToFront(k, e)
<1>3. BufType(l) /\ SameOffLru(k, l) /\ LruThreads(l, Front(q, j))
  BY <1>1, <1>2, ToFrontThreads DEF ListsInv
<1> HIDE DEF l
<1>4. Front(q, j) \in Orders
  BY FrontOrder
<1>5. ChainsThread(l)
  <2> SUFFICES ASSUME NEW h \in Buckets
               PROVE  \E n \in Nat : \E s \in [1 .. n -> Entries] :
                        ChainThreads(l, h, s, n) /\ ChainHolds(l, h, s, n)
    BY DEF ChainsThread
  <2>1. PICK n \in Nat : \E s \in [1 .. n -> Entries] :
          ChainThreads(k, h, s, n) /\ ChainHolds(k, h, s, n)
    BY DEF ListsInv, ChainsThread
  <2>2. PICK s \in [1 .. n -> Entries] : ChainThreads(k, h, s, n) /\ ChainHolds(k, h, s, n)
    BY <2>1
  <2>3. ChainThreads(l, h, s, n)
    BY <1>3, <2>2, ChainKept DEF SameOffLru
  <2>4. ChainHolds(l, h, s, n)
    BY <1>3, <2>2 DEF SameOffLru, ChainHolds, InBucket
  <2> QED BY <2>3, <2>4
<1>6. HeldOnce(l)
  BY <1>3 DEF ListsInv, HeldOnce, SameOffLru
<1> QED BY <1>3, <1>4, <1>5, <1>6 DEF ListsInv, l

\* Entry e is on no chain; the chains hold all others that they should.
ChainsBut(k, e) ==
  \A h \in Buckets : \E n \in Nat : \E s \in [1 .. n -> Entries] :
    /\ ChainThreads(k, h, s, n)
    /\ \A x \in Entries : x # e /\ InBucket(k, x, h) <=> \E i \in 1 .. n : s[i] = x

LEMMA UnchainedLists ==
  ASSUME NEW k, BufType(k), ChainsThread(k), NEW e \in Entries
  PROVE  LET l == SelectiveGetFromDataBufHashList(k, e)
         IN  BufType(l) /\ SameOffChains(k, l) /\ ChainsBut(l, e)
<1> DEFINE l == SelectiveGetFromDataBufHashList(k, e)
<1>1. CASE k.logicalSliceAddr[e] = NONE
  <2>1. l = k
    BY <1>1 DEF SelectiveGetFromDataBufHashList
  <2> HIDE DEF l
  <2>2. ChainsBut(k, e)
    <3> SUFFICES ASSUME NEW h \in Buckets
                 PROVE  \E n \in Nat : \E s \in [1 .. n -> Entries] :
                          /\ ChainThreads(k, h, s, n)
                          /\ \A x \in Entries : x # e /\ InBucket(k, x, h)
                                                  <=> \E i \in 1 .. n : s[i] = x
      BY DEF ChainsBut
    <3>1. ~ InBucket(k, e, h)
      BY <1>1 DEF InBucket
    <3> QED BY <3>1 DEF ChainsThread, ChainHolds
  <2> QED BY <2>1, <2>2 DEF SameOffChains, l
<1>2. CASE k.logicalSliceAddr[e] # NONE
  <2> DEFINE g == FindDataBufHashTableEntry(k.logicalSliceAddr[e])
  <2>1. g \in Buckets
    BY <1>2, BucketFacts DEF BufType
  <2>2. PICK m \in Nat : \E r \in [1 .. m -> Entries] :
          ChainThreads(k, g, r, m) /\ ChainHolds(k, g, r, m)
    BY <2>1 DEF ChainsThread
  <2>3. PICK r \in [1 .. m -> Entries] : ChainThreads(k, g, r, m) /\ ChainHolds(k, g, r, m)
    BY <2>2
  <2>4. PICK j \in 1 .. m : r[j] = e
    BY <1>2, <2>3 DEF ChainHolds, InBucket
  <2>5. /\ BufType(l) /\ SameOffChains(k, l)
    BY <1>2, UnchainFields
  <2>6. ChainThreads(l, g, Without(r, m, j), m - 1) /\ OthersKept(k, l, g, r, m, e)
    BY <1>2, <2>3, <2>4, UnchainThreads
  <2> HIDE DEF l, g
  <2>7. ASSUME NEW h \in Buckets
        PROVE  \E n \in Nat : \E s \in [1 .. n -> Entries] :
                 /\ ChainThreads(l, h, s, n)
                 /\ \A x \in Entries : x # e /\ InBucket(l, x, h) <=> \E i \in 1 .. n : s[i] = x
    <3>0. \A x \in Entries : InBucket(l, x, h) <=> InBucket(k, x, h)
      BY <2>5 DEF InBucket, SameOffChains
    <3>1. CASE h = g
      <4> DEFINE n == m - 1
                 s == Without(r, m, j)
      <4>1. n \in Nat /\ s \in [1 .. n -> Entries]
        BY <2>6 DEF ChainThreads
      <4>2. ASSUME NEW x \in Entries, x # e, InBucket(l, x, h)
            PROVE  \E i \in 1 .. n : s[i] = x
        <5>1. PICK i \in 1 .. m : r[i] = x
          BY <3>0, <3>1, <4>2, <2>3 DEF ChainHolds
        <5>2. CASE i < j
          BY <5>1, <5>2 DEF Without
        <5>3. CASE i > j
          <6>1. i - 1 \in 1 .. n /\ ~ (i - 1 < j) /\ (i - 1) + 1 = i
            BY <5>3
          <6> QED BY <5>1, <6>1 DEF Without
        <5> QED BY <5>1, <5>2, <5>3, <4>2, <2>4
      <4>3. ASSUME NEW i \in 1 .. n
            PROVE  s[i] # e /\ InBucket(l, s[i], h)
        <5>1. PICK a \in 1 .. m : a # j /\ s[i] = r[a]
          BY DEF Without
        <5>2. r[a] # e
          BY <5>1, <2>3, <2>4 DEF ChainThreads
        <5> QED BY <5>1, <5>2, <3>0, <3>1, <2>3 DEF ChainHolds
      <4> HIDE DEF n, s
      <4> QED BY <4>1, <4>2, <4>3, <2>6, <3>1 DEF n, s
    <3>2. CASE h # g
      <4>1. PICK n \in Nat : \E s \in [1 .. n -> Entries] :
              ChainThreads(k, h, s, n) /\ ChainHolds(k, h, s, n)
        BY DEF ChainsThread
      <4>2. PICK s \in [1 .. n -> Entries] : ChainThreads(k, h, s, n) /\ ChainHolds(k, h, s, n)
        BY <4>1
      <4>3. ASSUME NEW i \in 1 .. n, NEW a \in 1 .. m PROVE r[a] # s[i]
        BY <3>2, <2>3, <4>2 DEF ChainHolds, InBucket
      <4>4. ChainThreads(l, h, s, n)
        <5>1. \A i \in 1 .. n : s[i] # e
          BY <4>3, <2>4
        <5> QED BY <5>1, <2>6, <3>2, <4>2, <4>3, ChainKept DEF OthersKept
      <4>5. ~ InBucket(k, e, h)
        BY <3>2 DEF InBucket, g
      <4> QED BY <4>2, <4>4, <4>5, <3>0 DEF ChainHolds
    <3> QED BY <3>1, <3>2
  <2> QED BY <2>5, <2>7 DEF ChainsBut, l
<1> QED BY <1>1, <1>2

\* Entry e goes on the chain of its slice.
LEMMA ChainedLists ==
  ASSUME NEW k, BufType(k), NEW e \in Entries, ChainsBut(k, e),
         k.logicalSliceAddr[e] \in Slices
  PROVE  LET l == PutToDataBufHashList(k, e)
         IN  BufType(l) /\ SameOffChains(k, l) /\ ChainsThread(l)
<1> DEFINE l == PutToDataBufHashList(k, e)
           g == FindDataBufHashTableEntry(k.logicalSliceAddr[e])
<1>1. g \in Buckets /\ k.logicalSliceAddr[e] # NONE
  BY BucketFacts, EntriesFacts
<1>2. PICK m \in Nat : \E r \in [1 .. m -> Entries] :
        /\ ChainThreads(k, g, r, m)
        /\ \A x \in Entries : x # e /\ InBucket(k, x, g) <=> \E i \in 1 .. m : r[i] = x
  BY <1>1 DEF ChainsBut
<1>3. PICK r \in [1 .. m -> Entries] :
        /\ ChainThreads(k, g, r, m)
        /\ \A x \in Entries : x # e /\ InBucket(k, x, g) <=> \E i \in 1 .. m : r[i] = x
  BY <1>2
<1>4. BufType(l) /\ SameOffChains(k, l)
  BY ChainFields, Zenon
<1>5. ChainThreads(l, g, With(r, m, e), m + 1) /\ OthersKept(k, l, g, r, m, e)
  <2>1. \A i \in 1 .. m : r[i] # e
    BY <1>3
  <2> QED BY <2>1, <1>3, ChainedThreads
<1> HIDE DEF l, g
<1>6. ASSUME NEW h \in Buckets
      PROVE  \E n \in Nat : \E s \in [1 .. n -> Entries] :
               ChainThreads(l, h, s, n) /\ ChainHolds(l, h, s, n)
  <2>0. \A x \in Entries : InBucket(l, x, h) <=> InBucket(k, x, h)
    BY <1>4 DEF InBucket, SameOffChains
  <2>1. CASE h = g
    <3> DEFINE n == m + 1
               s == With(r, m, e)
    <3>1. n \in Nat /\ s \in [1 .. n -> Entries]
      BY DEF With
    <3>2. ASSUME NEW x \in Entries, InBucket(l, x, h)
          PROVE  \E i \in 1 .. n : s[i] = x
      <4>1. CASE x = e
        BY <4>1 DEF With
      <4>2. CASE x # e
        <5>1. PICK i \in 1 .. m : r[i] = x
          BY <1>3, <2>0, <2>1, <3>2, <4>2
        <5> QED BY <5>1 DEF With
      <4> QED BY <4>1, <4>2
    <3>3. ASSUME NEW i \in 1 .. n
          PROVE  InBucket(l, s[i], h)
      <4>1. CASE i = n
        BY <4>1, <1>1, <2>0, <2>1 DEF With, InBucket, g
      <4>2. CASE i # n
        <5>1. i \in 1 .. m /\ s[i] = r[i]
          BY <4>2 DEF With
        <5> QED BY <5>1, <1>3, <2>0, <2>1
      <4> QED BY <4>1, <4>2
    <3> HIDE DEF n, s
    <3>4. ChainHolds(l, h, s, n)
      BY <3>1, <3>2, <3>3 DEF ChainHolds
    <3> QED BY <3>1, <3>4, <1>5, <2>1 DEF n, s
  <2>2. CASE h # g
    <3>1. PICK n \in Nat : \E s \in [1 .. n -> Entries] :
            /\ ChainThreads(k, h, s, n)
            /\ \A x \in Entries : x # e /\ InBucket(k, x, h) <=> \E i \in 1 .. n : s[i] = x
      BY DEF ChainsBut
    <3>2. PICK s \in [1 .. n -> Entries] :
            /\ ChainThreads(k, h, s, n)
            /\ \A x \in Entries : x # e /\ InBucket(k, x, h) <=> \E i \in 1 .. n : s[i] = x
      BY <3>1
    <3>3. ASSUME NEW i \in 1 .. n
          PROVE  s[i] # e /\ \A a \in 1 .. m : r[a] # s[i]
      BY <2>2, <1>3, <3>2 DEF InBucket
    <3>4. ChainThreads(l, h, s, n)
      BY <1>5, <2>2, <3>2, <3>3, ChainKept DEF OthersKept
    <3>5. ~ InBucket(k, e, h)
      BY <2>2 DEF InBucket, g
    <3> QED BY <3>2, <3>4, <3>5, <2>0 DEF ChainHolds
  <2> QED BY <2>1, <2>2
<1> QED BY <1>4, <1>6 DEF ChainsThread, l

LEMMA AllocatedLists ==
  ASSUME NEW s \in Slices, ListsInv(buf),
         \A x \in Entries : buf.logicalSliceAddr[x] # s
  PROVE  LET e == buf.lruTail
             l == Allocated(s)
         IN  /\ e \in Entries
             /\ ListsInv(l)
             /\ l.logicalSliceAddr = [buf.logicalSliceAddr EXCEPT ![e] = s]
             /\ l.dirty = [buf.dirty EXCEPT ![e] = FALSE]
             /\ \A q \in Orders : LruThreads(buf, q) => LruThreads(l, Front(q, Count))
<1> DEFINE e == buf.lruTail
           f == ToFront(buf, e)
           t == SelectiveGetFromDataBufHashList(f, e)
           m == [t EXCEPT !.logicalSliceAddr[e] = s, !.dirty[e] = FALSE]
           l == PutToDataBufHashList(m, e)
<1>1. e \in Entries
  BY EntriesFacts DEF ListsInv, LruThreads, Orders
<1>2. ListsInv(f) /\ SameOffLru(buf, f)
  BY <1>1, ToFrontLists
<1>3. ASSUME NEW q \in Orders, LruThreads(buf, q)
      PROVE  LruThreads(f, Front(q, Count))
  BY <1>3, EntriesFacts, ToFrontThreads DEF ListsInv, LruThreads
<1> HIDE DEF f
<1>4. BufType(t) /\ SameOffChains(f, t) /\ ChainsBut(t, e)
  BY <1>1, <1>2, UnchainedLists DEF ListsInv
<1> HIDE DEF t
<1>5. /\ BufType(m)
      /\ m.logicalSliceAddr = [t.logicalSliceAddr EXCEPT ![e] = s]
      /\ m.dirty = [t.dirty EXCEPT ![e] = FALSE]
      /\ m.prevEntry = t.prevEntry /\ m.nextEntry = t.nextEntry
      /\ m.lruHead = t.lruHead /\ m.lruTail = t.lruTail
      /\ m.hashPrevEntry = t.hashPrevEntry /\ m.hashNextEntry = t.hashNextEntry
      /\ m.hashHead = t.hashHead /\ m.hashTail = t.hashTail
  BY <1>1, <1>4 DEF BufType
<1>6. t.logicalSliceAddr \in [Entries -> Slices \cup {NONE}] /\ t.dirty \in [Entries -> BOOLEAN]
  BY <1>4 DEF BufType
<1> HIDE DEF m
<1>7. \A x \in Entries \ {e} : m.logicalSliceAddr[x] = t.logicalSliceAddr[x]
  BY <1>1, <1>5, <1>6
<1>8. ChainsBut(m, e)
  <2> SUFFICES ASSUME NEW h \in Buckets
               PROVE  \E n \in Nat : \E r \in [1 .. n -> Entries] :
                        /\ ChainThreads(m, h, r, n)
                        /\ \A x \in Entries : x # e /\ InBucket(m, x, h)
                                                <=> \E i \in 1 .. n : r[i] = x
    BY DEF ChainsBut
  <2>1. PICK n \in Nat : \E r \in [1 .. n -> Entries] :
          /\ ChainThreads(t, h, r, n)
          /\ \A x \in Entries : x # e /\ InBucket(t, x, h) <=> \E i \in 1 .. n : r[i] = x
    BY <1>4 DEF ChainsBut
  <2>2. PICK r \in [1 .. n -> Entries] :
          /\ ChainThreads(t, h, r, n)
          /\ \A x \in Entries : x # e /\ InBucket(t, x, h) <=> \E i \in 1 .. n : r[i] = x
    BY <2>1
  <2>3. ChainThreads(m, h, r, n)
    BY <1>5, <2>2, ChainKept
  <2>4. \A x \in Entries \ {e} : InBucket(m, x, h) <=> InBucket(t, x, h)
    BY <1>7 DEF InBucket
  <2> QED BY <2>2, <2>3, <2>4
<1>9. m.logicalSliceAddr[e] = s
  BY <1>1, <1>5, <1>6
<1>10. BufType(l) /\ SameOffChains(m, l) /\ ChainsThread(l)
  BY <1>1, <1>5, <1>8, <1>9, ChainedLists
<1> HIDE DEF l
<1>11. /\ l.logicalSliceAddr = [buf.logicalSliceAddr EXCEPT ![e] = s]
       /\ l.dirty = [buf.dirty EXCEPT ![e] = FALSE]
  BY <1>2, <1>4, <1>5, <1>10 DEF SameOffLru, SameOffChains
<1>12. ASSUME NEW q \in Orders, LruThreads(buf, q)
       PROVE  LruThreads(l, Front(q, Count))
  BY <1>3, <1>4, <1>5, <1>10, <1>12 DEF LruThreads, SameOffChains
<1>13. \E q \in Orders : LruThreads(l, q)
  BY <1>12, FrontOrder, EntriesFacts DEF ListsInv
<1>14. HeldOnce(l)
  <2>1. buf.logicalSliceAddr \in [Entries -> Slices \cup {NONE}]
    BY DEF ListsInv, BufType
  <2> QED BY <1>1, <1>11, <2>1 DEF HeldOnce, ListsInv
<1>15. l = Allocated(s)
  BY DEF Allocated, l, m, t, f
<1> QED BY <1>1, <1>10, <1>11, <1>12, <1>13, <1>14, <1>15 DEF ListsInv

-----------------------------------------------------------------------------
(* Walks: what a recursive walk along the links meets. *)

LEMMA LeastNumber ==
  ASSUME NEW T, T \subseteq Nat, T # {}
  PROVE  \E m \in T : \A n \in T : m <= n
<1>1. \E m \in T : \A n \in T : ~ (<<n, m>> \in OpToRel(<, Nat))
  BY NatLessThanWellFounded, WFMin, Zenon
<1>2. PICK m \in T : \A n \in T : ~ (<<n, m>> \in OpToRel(<, Nat))
  BY <1>1
<1>3. \A n \in T : ~ (n < m)
  BY <1>2 DEF OpToRel
<1> QED BY <1>3

\* The n entries s, and NONE from there on.
Listed(s, n) == [i \in 1 .. Count + 1 |-> IF i <= n THEN s[i] ELSE NONE]

\* A walk along a list of at most Count entries meets them in order, and then
\* NONE: the list itself satisfies the recursion, and nothing else does.
LEMMA WalkMeets ==
  ASSUME NEW start, NEW next, NEW n \in 0 .. Count, NEW s \in [1 .. n -> Entries],
         start = IF n = 0 THEN NONE ELSE s[1],
         \A i \in 1 .. n : next[s[i]] = After(s, n, i)
  PROVE  Walk(start, next) = Listed(s, n)
<1> DEFINE after(e) == IF e = NONE THEN NONE ELSE next[e]
           at[i \in 1 .. Count + 1] == IF i = 1 THEN start ELSE after(at[i - 1])
           g == Listed(s, n)
           Step(f) == [i \in 1 .. Count + 1 |-> IF i = 1 THEN start ELSE after(f[i - 1])]
<1> USE DEF Listed
<1>1. \A i \in 1 .. n : s[i] # NONE
  BY EntriesFacts
<1>2. g = Step(g)
  <2>1. ASSUME NEW i \in 1 .. Count + 1
        PROVE  g[i] = IF i = 1 THEN start ELSE after(g[i - 1])
    <3>1. CASE i = 1
      BY <3>1, EntriesFacts
    <3>2. CASE i # 1 /\ i <= n
      <4>1. i - 1 \in 1 .. n /\ i - 1 # n /\ (i - 1) + 1 = i /\ i - 1 \in 1 .. Count + 1
        BY <3>2, EntriesFacts
      <4> QED BY <1>1, <3>2, <4>1 DEF After
    <3>3. CASE i # 1 /\ i > n
      <4>1. i - 1 \in 1 .. Count + 1 /\ (i - 1 <= n => i - 1 = n /\ n \in 1 .. n)
        BY <3>3, EntriesFacts
      <4> QED BY <1>1, <3>3, <4>1 DEF After
    <3> QED BY <3>1, <3>2, <3>3
  <2> QED BY <2>1
<1>3. at = Step(at)
  <2>1. at = CHOOSE f : f = Step(f)
    OBVIOUS
  <2> HIDE DEF at, g, Step
  <2> QED BY <1>2, <2>1, Zenon
<1>4. \A i \in 1 .. Count + 1 : at[i] = g[i]
  <2> DEFINE T == {i \in 1 .. Count + 1 : at[i] # g[i]}
  <2> HIDE DEF at, g
  <2>1. SUFFICES ASSUME T # {} PROVE FALSE
    OBVIOUS
  <2>2. PICK m \in T : \A i \in T : m <= i
    <3>1. T \subseteq Nat
      BY EntriesFacts
    <3> HIDE DEF T
    <3> QED BY <2>1, <3>1, LeastNumber
  <2>3. at[m] = (IF m = 1 THEN start ELSE after(at[m - 1]))
    BY <1>3
  <2>4. g[m] = (IF m = 1 THEN start ELSE after(g[m - 1]))
    BY <1>2
  <2>5. m # 1 => at[m - 1] = g[m - 1]
    BY <2>2, EntriesFacts
  <2> QED BY <2>2, <2>3, <2>4, <2>5
<1>5. Walk(start, next) = [i \in 1 .. Count + 1 |-> at[i]]
  BY DEF Walk
<1> HIDE DEF at
<1> QED BY <1>4, <1>5

\* A chain has at most Count entries.
LEMMA ChainFits ==
  ASSUME NEW k, NEW h, NEW s, NEW n, ChainThreads(k, h, s, n)
  PROVE  n \in 0 .. Count
<1>1. /\ n \in Nat /\ s \in [1 .. n -> Entries]
      /\ \A a, b \in 1 .. n : s[a] = s[b] => a = b
  BY DEF ChainThreads
<1>2. s \in Injection(1 .. n, Entries)
  BY <1>1 DEF Injection, IsInjective
<1>3. IsFiniteSet(Entries) /\ Cardinality(Entries) = Count
  BY FS_Interval, EntriesFacts DEF Entries
<1>4. Cardinality(1 .. n) = n
  BY <1>1, FS_Interval
<1>5. Cardinality(1 .. n) <= Cardinality(Entries)
  BY <1>2, <1>3, FS_Injection
<1> QED BY <1>1, <1>3, <1>4, <1>5, EntriesFacts

\* Chain meets the entries of the bucket.
LEMMA ChainMeets ==
  ASSUME NEW h \in Buckets, ListsInv(buf)
  PROVE  \E n \in 0 .. Count : \E s \in [1 .. n -> Entries] :
           /\ ChainThreads(buf, h, s, n) /\ ChainHolds(buf, h, s, n)
           /\ Chain(h) = Listed(s, n)
<1>1. PICK n \in Nat : \E s \in [1 .. n -> Entries] :
        ChainThreads(buf, h, s, n) /\ ChainHolds(buf, h, s, n)
  BY DEF ListsInv, ChainsThread
<1>2. PICK s \in [1 .. n -> Entries] : ChainThreads(buf, h, s, n) /\ ChainHolds(buf, h, s, n)
  BY <1>1
<1>3. n \in 0 .. Count
  BY <1>2, ChainFits
<1>4. Chain(h) = Listed(s, n)
  <2>1. /\ buf.hashHead[h] = IF n = 0 THEN NONE ELSE s[1]
        /\ s \in [1 .. n -> Entries]
        /\ \A i \in 1 .. n : buf.hashNextEntry[s[i]] = After(s, n, i)
    BY <1>2 DEF ChainThreads
  <2> DEFINE start == buf.hashHead[h]
             next  == buf.hashNextEntry
  <2> HIDE DEF start, next
  <2>2. start = (IF n = 0 THEN NONE ELSE s[1]) /\ \A i \in 1 .. n : next[s[i]] = After(s, n, i)
    BY <2>1 DEF start, next
  <2>3. Walk(start, next) = Listed(s, n)
    BY <2>1, <2>2, <1>3, WalkMeets
  <2> QED BY <2>3 DEF Chain, start, next
<1> QED BY <1>2, <1>3, <1>4

\* CheckDataBufHit finds the entry of a slice, if there is one.
LEMMA FoundFacts ==
  ASSUME NEW s \in Slices, ListsInv(buf)
  PROVE  \/ Found(s) = NONE /\ \A e \in Entries : buf.logicalSliceAddr[e] # s
         \/ Found(s) \in Entries /\ buf.logicalSliceAddr[Found(s)] = s
<1> DEFINE h == FindDataBufHashTableEntry(s)
           c == Chain(h)
           hits == {i \in 1 .. Count : c[i] # NONE /\ buf.logicalSliceAddr[c[i]] = s}
<1>1. h \in Buckets
  BY BucketFacts
<1>2. PICK n \in 0 .. Count : \E r \in [1 .. n -> Entries] :
        /\ ChainThreads(buf, h, r, n) /\ ChainHolds(buf, h, r, n)
        /\ c = Listed(r, n)
  BY <1>1, ChainMeets
<1>3. PICK r \in [1 .. n -> Entries] :
        /\ ChainThreads(buf, h, r, n) /\ ChainHolds(buf, h, r, n)
        /\ c = Listed(r, n)
  BY <1>2
<1>4. Found(s) = IF hits = {} THEN NONE ELSE c[Min(hits)]
  BY DEF Found
<1> HIDE DEF c
<1>5. CASE hits = {}
  <2>1. ASSUME NEW e \in Entries, buf.logicalSliceAddr[e] = s PROVE FALSE
    <3>1. InBucket(buf, e, h)
      BY <2>1, EntriesFacts DEF InBucket
    <3>2. PICK i \in 1 .. n : r[i] = e
      BY <3>1, <1>3 DEF ChainHolds
    <3>3. i \in 1 .. Count /\ c[i] = e
      BY <3>2, <1>3, EntriesFacts DEF Listed
    <3> QED BY <2>1, <3>3, <1>5, EntriesFacts
  <2> QED BY <2>1, <1>4, <1>5
<1>6. CASE hits # {}
  <2>1. hits \subseteq Nat
    BY EntriesFacts
  <2> HIDE DEF hits
  <2>2. Min(hits) \in hits
    BY <2>1, <1>6, LeastNumber DEF Min
  <2>3. /\ Min(hits) \in 1 .. Count /\ c[Min(hits)] # NONE
        /\ buf.logicalSliceAddr[c[Min(hits)]] = s
    BY <2>2 DEF hits
  <2>4. c[Min(hits)] \in Entries
    BY <2>3, <1>3, EntriesFacts DEF Listed
  <2> QED BY <2>3, <2>4, <1>4, <1>6
<1> QED BY <1>5, <1>6

-----------------------------------------------------------------------------
(* The steps. *)

LEMMA DirtiedLists ==
  ASSUME NEW k, ListsInv(k), NEW e \in Entries
  PROVE  LET l == [k EXCEPT !.dirty[e] = TRUE]
         IN  /\ ListsInv(l)
             /\ l.logicalSliceAddr = k.logicalSliceAddr
             /\ l.dirty = [k.dirty EXCEPT ![e] = TRUE]
             /\ \A q \in Orders : LruThreads(k, q) => LruThreads(l, q)
<1> DEFINE l == [k EXCEPT !.dirty[e] = TRUE]
<1>1. /\ BufType(l)
      /\ l.logicalSliceAddr = k.logicalSliceAddr
      /\ l.dirty = [k.dirty EXCEPT ![e] = TRUE]
      /\ l.prevEntry = k.prevEntry /\ l.nextEntry = k.nextEntry
      /\ l.lruHead = k.lruHead /\ l.lruTail = k.lruTail
      /\ l.hashPrevEntry = k.hashPrevEntry /\ l.hashNextEntry = k.hashNextEntry
      /\ l.hashHead = k.hashHead /\ l.hashTail = k.hashTail
  BY DEF ListsInv, BufType
<1> HIDE DEF l
<1>2. \A q \in Orders : LruThreads(k, q) => LruThreads(l, q)
  BY <1>1 DEF LruThreads
<1>3. ASSUME NEW h \in Buckets, NEW s, NEW n, ChainThreads(k, h, s, n), ChainHolds(k, h, s, n)
      PROVE  ChainThreads(l, h, s, n) /\ ChainHolds(l, h, s, n)
  BY <1>1, <1>3 DEF ChainThreads, ChainHolds, InBucket
<1>4. ChainsThread(l)
  BY <1>3 DEF ListsInv, ChainsThread
<1>5. HeldOnce(l)
  BY <1>1 DEF ListsInv, HeldOnce
<1> QED BY <1>1, <1>2, <1>4, <1>5 DEF ListsInv, l

\* The contents after parts ps of it have been replaced.
Merged(content, ps, x) == [p \in Parts |-> IF p \in ps THEN x ELSE content[p]]

Recorded(s, ps, x) == [written EXCEPT ![s] = [p \in Parts |-> IF p \in ps THEN x ELSE @[p]]]

LEMMA WritesFacts ==
  ASSUME NEW w \in Writes
  PROVE  w[1] \in Slices /\ w[2] \subseteq Parts /\ w[3] \in Values
BY WritesAssumption

\* Merging a write into content that is up to date keeps it so; a write of the
\* whole slice needs no old content.
LEMMA MergedUpToDate ==
  ASSUME NEW s \in Slices, NEW ps \in SUBSET Parts, NEW x \in Values, NEW content \in Contents,
         written \in [Slices -> Contents],
         UpToDate(s, content) \/ ps = Parts,
         written' = Recorded(s, ps, x)
  PROVE  /\ Merged(content, ps, x) \in Contents
         /\ \A p \in Parts : written'[s][p] # Unset =>
              /\ Merged(content, ps, x) # NONE
              /\ Merged(content, ps, x)[p] = written'[s][p]
         /\ written' \in [Slices -> Contents]
         /\ \A t \in Slices \ {s} : written'[t] = written[t]
<1>1. Merged(content, ps, x) \in Contents
  BY DEF Merged, Contents
<1>2. Merged(content, ps, x) # NONE
  BY <1>1, NoneAssumption DEF Contents
<1>3. written[s] \in Contents
  OBVIOUS
<1>4. written'[s] = [p \in Parts |-> IF p \in ps THEN x ELSE written[s][p]]
  BY DEF Recorded
<1>5. written'[s] \in Contents
  BY <1>3, <1>4 DEF Contents
<1> QED BY <1>1, <1>2, <1>4, <1>5 DEF Merged, UpToDate, Recorded

\* A hit changes no slice of an entry.
LEMMA HitReadStep ==
  ASSUME BufferInv, NEW s \in Slices, HitRead(s)
  PROVE  BufferInv'
<1>1. Found(s) \in Entries
  BY FoundFacts DEF HitRead, BufferInv
<1>2. ListsInv(buf') /\ SameOffLru(buf, buf')
  BY <1>1, ToFrontLists DEF HitRead, BufferInv
<1>3. ContentInv'
  BY <1>2 DEF BufferInv, ContentInv, HitRead, SameOffLru, UpToDate
<1> QED BY <1>2, <1>3 DEF BufferInv, ListsInv, BufType, LruThreads, ChainsThread, HeldOnce, Orders

LEMMA HitWriteStep ==
  ASSUME BufferInv, NEW s \in Slices, NEW ps \in SUBSET Parts, NEW x \in Values,
         HitWrite(s, ps, x)
  PROVE  BufferInv'
<1> DEFINE e == Found(s)
           f == ToFront(buf, e)
<1>1. e \in Entries /\ buf.logicalSliceAddr[e] = s
  BY FoundFacts DEF HitWrite, BufferInv
<1>2. /\ buf' = [f EXCEPT !.dirty[e] = TRUE]
      /\ data' = [data EXCEPT ![e] = Merged(data[e], ps, x)]
      /\ written' = Recorded(s, ps, x)
      /\ flash' = flash
  BY DEF HitWrite, RxDMA, Merged, Recorded
<1> HIDE DEF e
<1>3. ListsInv(f) /\ SameOffLru(buf, f)
  BY <1>1, ToFrontLists DEF BufferInv
<1> HIDE DEF f
<1>4. /\ ListsInv(buf')
      /\ buf'.logicalSliceAddr = f.logicalSliceAddr
      /\ buf'.dirty = [f.dirty EXCEPT ![e] = TRUE]
  BY <1>1, <1>2, <1>3, DirtiedLists
<1>5. /\ data \in [Entries -> Contents] /\ written \in [Slices -> Contents]
      /\ data[e] \in Contents /\ UpToDate(s, data[e])
      /\ buf.dirty \in [Entries -> BOOLEAN]
      /\ buf.logicalSliceAddr \in [Entries -> Slices \cup {NONE}]
  BY <1>1, EntriesFacts DEF BufferInv, ContentInv, ListsInv, BufType
<1>6. /\ Merged(data[e], ps, x) \in Contents
      /\ \A p \in Parts : written'[s][p] # Unset =>
           /\ Merged(data[e], ps, x) # NONE
           /\ Merged(data[e], ps, x)[p] = written'[s][p]
      /\ written' \in [Slices -> Contents]
      /\ \A t \in Slices \ {s} : written'[t] = written[t]
  BY <1>2, <1>5, MergedUpToDate
<1>7. /\ data' \in [Entries -> Contents]
      /\ data'[e] = Merged(data[e], ps, x)
      /\ \A y \in Entries \ {e} : data'[y] = data[y]
  BY <1>1, <1>2, <1>5, <1>6
<1>8. /\ buf'.logicalSliceAddr = buf.logicalSliceAddr
      /\ buf'.dirty[e]
      /\ \A y \in Entries \ {e} : buf'.dirty[y] = buf.dirty[y]
  BY <1>1, <1>3, <1>4, <1>5 DEF SameOffLru
<1>9. \A y \in Entries \ {e} : buf.logicalSliceAddr[y] # s
  BY <1>1, EntriesFacts DEF BufferInv, ListsInv, HeldOnce
<1>10. ContentInv'
  <2>1. flash' \in [Slices -> Contents \cup {NONE}]
    BY <1>2 DEF BufferInv, ContentInv
  <2>2. ASSUME NEW y \in Entries, buf'.logicalSliceAddr[y] # NONE
        PROVE  /\ UpToDate(buf.logicalSliceAddr[y], data[y])'
               /\ ~ buf'.dirty[y] =>
                    UpToDate(buf.logicalSliceAddr[y], flash[buf.logicalSliceAddr[y]])'
    <3>1. CASE y = e
      BY <3>1, <1>1, <1>6, <1>7, <1>8 DEF UpToDate
    <3>2. CASE y # e
      <4>1. buf.logicalSliceAddr[y] \in Slices \ {s}
        BY <2>2, <3>2, <1>5, <1>8, <1>9
      <4> QED BY <2>2, <3>2, <4>1, <1>2, <1>6, <1>7, <1>8
              DEF BufferInv, ContentInv, UpToDate
    <3> QED BY <3>1, <3>2
  <2>3. ASSUME NEW t \in Slices, \A y \in Entries : buf'.logicalSliceAddr[y] # t
        PROVE  UpToDate(t, flash[t])'
    <3>1. t \in Slices \ {s}
      BY <2>3, <1>1, <1>8
    <3> QED BY <2>3, <3>1, <1>2, <1>6, <1>8 DEF BufferInv, ContentInv, UpToDate
  <2> QED BY <2>1, <2>2, <2>3, <1>6, <1>7 DEF ContentInv
<1> QED BY <1>4, <1>10
        DEF BufferInv, ListsInv, BufType, LruThreads, ChainsThread, HeldOnce, Orders

\* After the eviction the flash has all that no other entry holds.
LEMMA Evicted ==
  ASSUME BufferInv, NEW e \in Entries, EvictDataBufEntry(e)
  PROVE  /\ flash' \in [Slices -> Contents \cup {NONE}]
         /\ \A t \in Slices :
              (\A y \in Entries \ {e} : buf.logicalSliceAddr[y] # t) => UpToDate(t, flash'[t])
         /\ \A y \in Entries \ {e} : buf.logicalSliceAddr[y] # NONE =>
              flash'[buf.logicalSliceAddr[y]] = flash[buf.logicalSliceAddr[y]]
<1>1. /\ data \in [Entries -> Contents] /\ flash \in [Slices -> Contents \cup {NONE}]
      /\ buf.logicalSliceAddr \in [Entries -> Slices \cup {NONE}]
      /\ HeldOnce(buf)
  BY DEF BufferInv, ContentInv, ListsInv, BufType
<1>2. CASE buf.dirty[e] /\ buf.logicalSliceAddr[e] # NONE
  <2> DEFINE s == buf.logicalSliceAddr[e]
  <2>1. s \in Slices /\ flash' = [flash EXCEPT ![s] = data[e]]
    BY <1>1, <1>2 DEF EvictDataBufEntry
  <2>2. UpToDate(s, data[e])
    BY <1>2 DEF BufferInv, ContentInv
  <2>3. \A y \in Entries \ {e} : buf.logicalSliceAddr[y] # s
    BY <1>1, <1>2 DEF HeldOnce
  <2> HIDE DEF s
  <2>4. ASSUME NEW t \in Slices, \A y \in Entries \ {e} : buf.logicalSliceAddr[y] # t
        PROVE  UpToDate(t, flash'[t])
    <3>1. CASE t = s
      BY <3>1, <2>1, <2>2, <1>1
    <3>2. CASE t # s
      <4>1. \A y \in Entries : buf.logicalSliceAddr[y] # t
        BY <2>4, <3>2 DEF s
      <4> QED BY <4>1, <3>2, <2>1, <1>1 DEF BufferInv, ContentInv
    <3> QED BY <3>1, <3>2
  <2>5. \A y \in Entries \ {e} : buf.logicalSliceAddr[y] # NONE =>
          flash'[buf.logicalSliceAddr[y]] = flash[buf.logicalSliceAddr[y]]
    BY <2>1, <2>3, <1>1
  <2> QED BY <2>1, <2>4, <2>5, <1>1
<1>3. CASE buf.logicalSliceAddr[e] = NONE
  <2>1. flash' = flash
    <3>1. NONE \notin DOMAIN flash
      BY <1>1, EntriesFacts
    <3> QED BY <3>1, <1>1, <1>3 DEF EvictDataBufEntry
  <2>2. ASSUME NEW t \in Slices, \A y \in Entries \ {e} : buf.logicalSliceAddr[y] # t
        PROVE  UpToDate(t, flash'[t])
    BY <2>1, <2>2, <1>3, EntriesFacts DEF BufferInv, ContentInv
  <2> QED BY <2>1, <2>2, <1>1
<1>4. CASE ~ buf.dirty[e] /\ buf.logicalSliceAddr[e] # NONE
  <2>1. flash' = flash
    BY <1>4 DEF EvictDataBufEntry
  <2>2. ASSUME NEW t \in Slices, \A y \in Entries \ {e} : buf.logicalSliceAddr[y] # t
        PROVE  UpToDate(t, flash'[t])
    BY <2>1, <2>2, <1>4 DEF BufferInv, ContentInv
  <2> QED BY <2>1, <2>2, <1>1
<1> QED BY <1>2, <1>3, <1>4

\* Functions f and g agree on the entries other than e.
Rest(f, g, e) == \A y \in Entries \ {e} : f[y] = g[y]

\* A miss gives the last entry e the slice s; c is the content it gets, m the
\* lists.
LEMMA MissContent ==
  ASSUME BufferInv, NEW s \in Slices, NEW e \in Entries, EvictDataBufEntry(e),
         \A x \in Entries : buf.logicalSliceAddr[x] # s,
         NEW c \in Contents, Rest(data', data, e), data'[e] = c,
         data' \in [Entries -> Contents],
         written' \in [Slices -> Contents],
         \A t \in Slices \ {s} : written'[t] = written[t],
         \A p \in Parts : written'[s][p] # Unset => c # NONE /\ c[p] = written'[s][p],
         Rest(buf'.logicalSliceAddr, buf.logicalSliceAddr, e), buf'.logicalSliceAddr[e] = s,
         Rest(buf'.dirty, buf.dirty, e), ~ buf'.dirty[e] => written' = written
  PROVE  ContentInv'
<1>1. /\ flash' \in [Slices -> Contents \cup {NONE}]
      /\ \A t \in Slices :
           (\A y \in Entries \ {e} : buf.logicalSliceAddr[y] # t) => UpToDate(t, flash'[t])
      /\ \A y \in Entries \ {e} : buf.logicalSliceAddr[y] # NONE =>
           flash'[buf.logicalSliceAddr[y]] = flash[buf.logicalSliceAddr[y]]
  BY Evicted
<1>2. /\ data \in [Entries -> Contents]
      /\ buf.logicalSliceAddr \in [Entries -> Slices \cup {NONE}]
      /\ buf.dirty \in [Entries -> BOOLEAN]
  BY DEF BufferInv, ContentInv, ListsInv, BufType
<1>3. /\ data' \in [Entries -> Contents] /\ data'[e] = c
      /\ buf'.logicalSliceAddr[e] = s
      /\ \A y \in Entries \ {e} : /\ data'[y] = data[y]
                                  /\ buf'.logicalSliceAddr[y] = buf.logicalSliceAddr[y]
                                  /\ buf'.dirty[y] = buf.dirty[y]
  BY DEF Rest
<1>4. ASSUME NEW y \in Entries, buf'.logicalSliceAddr[y] # NONE
      PROVE  /\ UpToDate(buf.logicalSliceAddr[y], data[y])'
             /\ ~ buf'.dirty[y] =>
                  UpToDate(buf.logicalSliceAddr[y], flash[buf.logicalSliceAddr[y]])'
  <2>1. CASE y = e
    <3>1. UpToDate(s, data[e])'
      BY <1>3 DEF UpToDate
    <3>2. ~ buf'.dirty[e] => UpToDate(s, flash[s])'
      BY <1>1 DEF UpToDate
    <3> QED BY <2>1, <3>1, <3>2, <1>3
  <2>2. CASE y # e
    <3>1. buf.logicalSliceAddr[y] \in Slices \ {s} /\ buf.logicalSliceAddr[y] # NONE
      BY <1>2, <1>3, <1>4, <2>2
    <3> QED BY <2>2, <3>1, <1>1, <1>3 DEF BufferInv, ContentInv, UpToDate
  <2> QED BY <2>1, <2>2
<1>5. ASSUME NEW t \in Slices, \A y \in Entries : buf'.logicalSliceAddr[y] # t
      PROVE  UpToDate(t, flash[t])'
  <2>1. t # s /\ \A y \in Entries \ {e} : buf.logicalSliceAddr[y] # t
    BY <1>3, <1>5
  <2> QED BY <2>1, <1>1 DEF UpToDate
<1> QED BY <1>1, <1>3, <1>4, <1>5 DEF ContentInv

\* The content an entry starts with when its slice has been read.
LEMMA LoadedFacts ==
  ASSUME BufferInv, NEW s \in Slices, NEW e \in Entries, EvictDataBufEntry(e),
         \A x \in Entries : buf.logicalSliceAddr[x] # s
  PROVE  /\ \A read \in BOOLEAN : Loaded(s, e, read) \in Contents
         /\ UpToDate(s, Loaded(s, e, TRUE))
<1>1. flash' \in [Slices -> Contents \cup {NONE}] /\ UpToDate(s, flash'[s])
  BY Evicted
<1>2. data[e] \in Contents
  BY DEF BufferInv, ContentInv
<1> QED BY <1>1, <1>2 DEF Loaded, UpToDate

LEMMA MissReadStep ==
  ASSUME BufferInv, NEW s \in Slices, MissRead(s)
  PROVE  BufferInv'
<1> DEFINE e == buf.lruTail
           c == Loaded(s, e, TRUE)
<1>1. \A x \in Entries : buf.logicalSliceAddr[x] # s
  BY FoundFacts, EntriesFacts DEF MissRead, Missing, BufferInv
<1>2. /\ EvictDataBufEntry(e) /\ buf' = Allocated(s)
      /\ data' = [data EXCEPT ![e] = c]
      /\ written' = written
  BY DEF MissRead
<1>3. /\ e \in Entries /\ ListsInv(buf')
      /\ buf'.logicalSliceAddr = [buf.logicalSliceAddr EXCEPT ![e] = s]
      /\ buf'.dirty = [buf.dirty EXCEPT ![e] = FALSE]
  BY <1>1, <1>2, AllocatedLists DEF BufferInv
<1>4. c \in Contents /\ UpToDate(s, c)
  BY <1>1, <1>2, <1>3, LoadedFacts
<1>5. written \in [Slices -> Contents]
  BY DEF BufferInv, ContentInv
<1> HIDE DEF e, c
<1>6. ContentInv'
  <2>1. /\ written' \in [Slices -> Contents]
        /\ \A t \in Slices \ {s} : written'[t] = written[t]
        /\ \A p \in Parts : written'[s][p] # Unset => c # NONE /\ c[p] = written'[s][p]
    BY <1>2, <1>4, <1>5 DEF UpToDate
  <2>2. /\ data \in [Entries -> Contents]
        /\ buf.logicalSliceAddr \in [Entries -> Slices \cup {NONE}]
        /\ buf.dirty \in [Entries -> BOOLEAN]
    BY DEF BufferInv, ContentInv, ListsInv, BufType
  <2>3. /\ Rest(data', data, e) /\ data'[e] = c /\ data' \in [Entries -> Contents]
        /\ Rest(buf'.logicalSliceAddr, buf.logicalSliceAddr, e)
        /\ Rest(buf'.dirty, buf.dirty, e)
        /\ buf'.logicalSliceAddr[e] = s
    BY <1>2, <1>3, <1>4, <2>2 DEF Rest
  <2>4. e \in Entries /\ EvictDataBufEntry(e) /\ c \in Contents
    BY <1>2, <1>3, <1>4
  <2>5. ~ buf'.dirty[e] => written' = written
    BY <1>2
  <2> QED BY <2>1, <2>3, <2>4, <2>5, <1>1, MissContent
<1> QED BY <1>3, <1>6
        DEF BufferInv, ListsInv, BufType, LruThreads, ChainsThread, HeldOnce, Orders

LEMMA MissWriteStep ==
  ASSUME BufferInv, NEW s \in Slices, NEW ps \in SUBSET Parts, NEW x \in Values,
         MissWrite(s, ps, x)
  PROVE  BufferInv'
<1> DEFINE e == buf.lruTail
           f == Allocated(s)
           c == Loaded(s, e, MustRead(ps))
<1>1. \A y \in Entries : buf.logicalSliceAddr[y] # s
  BY FoundFacts, EntriesFacts DEF MissWrite, Missing, BufferInv
<1>2. /\ EvictDataBufEntry(e) /\ buf' = [f EXCEPT !.dirty[e] = TRUE]
      /\ data' = [data EXCEPT ![e] = Merged(c, ps, x)]
      /\ written' = Recorded(s, ps, x)
  BY DEF MissWrite, RxDMA, Merged, Recorded
<1>3. /\ e \in Entries /\ ListsInv(f)
      /\ f.logicalSliceAddr = [buf.logicalSliceAddr EXCEPT ![e] = s]
      /\ f.dirty = [buf.dirty EXCEPT ![e] = FALSE]
  BY <1>1, AllocatedLists DEF BufferInv
<1>4. c \in Contents /\ (UpToDate(s, c) \/ ps = Parts)
  BY <1>1, <1>2, <1>3, LoadedFacts DEF MustRead
<1> HIDE DEF f, c
<1>5. /\ ListsInv(buf')
      /\ buf'.logicalSliceAddr = f.logicalSliceAddr
      /\ buf'.dirty = [f.dirty EXCEPT ![e] = TRUE]
  BY <1>2, <1>3, DirtiedLists
<1>6. buf'.dirty = [buf.dirty EXCEPT ![e] = TRUE]
  <2>1. buf.dirty \in [Entries -> BOOLEAN]
    BY DEF BufferInv, ListsInv, BufType
  <2> QED BY <2>1, <1>3, <1>5
<1>7. written \in [Slices -> Contents]
  BY DEF BufferInv, ContentInv
<1>8. /\ Merged(c, ps, x) \in Contents
      /\ \A p \in Parts : written'[s][p] # Unset =>
           Merged(c, ps, x) # NONE /\ Merged(c, ps, x)[p] = written'[s][p]
      /\ written' \in [Slices -> Contents]
      /\ \A t \in Slices \ {s} : written'[t] = written[t]
  BY <1>2, <1>4, <1>7, MergedUpToDate
<1>9. ContentInv'
  <2> DEFINE r == Merged(c, ps, x)
  <2> HIDE DEF e, r
  <2>1. /\ data \in [Entries -> Contents]
        /\ buf.logicalSliceAddr \in [Entries -> Slices \cup {NONE}]
        /\ buf.dirty \in [Entries -> BOOLEAN]
    BY DEF BufferInv, ContentInv, ListsInv, BufType
  <2>2. /\ r \in Contents
        /\ \A p \in Parts : written'[s][p] # Unset => r # NONE /\ r[p] = written'[s][p]
    BY <1>8 DEF r
  <2>3. /\ Rest(data', data, e) /\ data'[e] = r /\ data' \in [Entries -> Contents]
        /\ Rest(buf'.logicalSliceAddr, buf.logicalSliceAddr, e)
        /\ Rest(buf'.dirty, buf.dirty, e)
        /\ buf'.logicalSliceAddr[e] = s /\ buf'.dirty[e] = TRUE
    BY <1>2, <1>3, <1>5, <1>6, <2>1, <2>2 DEF Rest, r
  <2>4. /\ e \in Entries /\ EvictDataBufEntry(e)
        /\ written' \in [Slices -> Contents]
        /\ \A t \in Slices \ {s} : written'[t] = written[t]
    BY <1>2, <1>3, <1>8
  <2>5. ~ buf'.dirty[e] => written' = written
    BY <2>3
  <2> QED BY <2>2, <2>3, <2>4, <2>5, <1>1, MissContent
<1> QED BY <1>5, <1>9
        DEF BufferInv, ListsInv, BufType, LruThreads, ChainsThread, HeldOnce, Orders

LEMMA BufferStart == BufferInit => BufferInv
<1> SUFFICES ASSUME BufferInit PROVE BufferInv
  OBVIOUS
<1> DEFINE q == [i \in 1 .. Count |-> i - 1]
<1>1. BufType(buf)
  BY EntriesFacts DEF BufferInit, InitDataBuf, BufType, Links, Entries, Buckets
<1>2. q \in Orders
  <2>1. q \in [1 .. Count -> Entries]
    BY EntriesFacts DEF Entries
  <2>2. ASSUME NEW e \in Entries PROVE \E i \in 1 .. Count : q[i] = e
    <3>1. PICK i \in 1 .. Count : i = e + 1
      BY EntriesFacts DEF Entries
    <3>2. q[i] = e
      BY <3>1, EntriesFacts DEF Entries
    <3> QED BY <3>2
  <2>3. \A i, j \in 1 .. Count : q[i] = q[j] => i = j
    BY EntriesFacts
  <2> HIDE DEF q
  <2> QED BY <2>1, <2>2, <2>3 DEF Orders
<1>3. LruThreads(buf, q)
  BY <1>2, EntriesFacts DEF BufferInit, InitDataBuf, LruThreads, Before, After, Entries
<1>4. \A e \in Entries : buf.logicalSliceAddr[e] = NONE
  BY DEF BufferInit, InitDataBuf
<1>5. ChainsThread(buf)
  <2> SUFFICES ASSUME NEW h \in Buckets
               PROVE  \E n \in Nat : \E s \in [1 .. n -> Entries] :
                        ChainThreads(buf, h, s, n) /\ ChainHolds(buf, h, s, n)
    BY DEF ChainsThread
  <2> DEFINE s == [i \in 1 .. 0 |-> 0]
  <2>1. s \in [1 .. 0 -> Entries]
    OBVIOUS
  <2>2. ChainThreads(buf, h, s, 0)
    BY <2>1 DEF BufferInit, InitDataBuf, ChainThreads
  <2>3. ChainHolds(buf, h, s, 0)
    BY <1>4 DEF ChainHolds, InBucket
  <2> HIDE DEF s
  <2> QED BY <2>1, <2>2, <2>3
<1>6. ContentInv
  BY <1>4, EntriesFacts DEF BufferInit, ContentInv, Contents, UpToDate
<1> QED BY <1>1, <1>2, <1>3, <1>4, <1>5, <1>6 DEF BufferInv, ListsInv, HeldOnce

\* The invariant is inductive.
THEOREM BufferInvariant == BufferSpec => []BufferInv
<1>1. BufferInv /\ [ReqTransSliceToLowLevel]_bufferVars => BufferInv'
  <2> SUFFICES ASSUME BufferInv, [ReqTransSliceToLowLevel]_bufferVars PROVE BufferInv'
    OBVIOUS
  <2>1. ASSUME NEW s \in Slices, HitRead(s) PROVE BufferInv'
    BY <2>1, HitReadStep
  <2>2. ASSUME NEW s \in Slices, MissRead(s) PROVE BufferInv'
    BY <2>2, MissReadStep
  <2>3. ASSUME NEW w \in Writes, HitWrite(w[1], w[2], w[3]) PROVE BufferInv'
    BY <2>3, WritesFacts, HitWriteStep
  <2>4. ASSUME NEW w \in Writes, MissWrite(w[1], w[2], w[3]) PROVE BufferInv'
    BY <2>4, WritesFacts, MissWriteStep
  <2>5. CASE UNCHANGED bufferVars
    <3>1. buf' = buf /\ data' = data /\ flash' = flash /\ written' = written
      BY <2>5 DEF bufferVars
    <3>2. ListsInv(buf')
      BY <3>1 DEF BufferInv
    <3>3. ContentInv'
      BY <3>1 DEF BufferInv, ContentInv, UpToDate
    <3> QED BY <3>2, <3>3
            DEF BufferInv, ListsInv, BufType, LruThreads, ChainsThread, HeldOnce, Orders
  <2> QED BY <2>1, <2>2, <2>3, <2>4, <2>5 DEF ReqTransSliceToLowLevel
<1> QED BY BufferStart, <1>1, PTL DEF BufferSpec

\* Every bucket's chain holds exactly the entries of its slices, once each and
\* linked both ways (data_buffer.c, CheckDataBufHit).
THEOREM ChainsAlwaysExact == BufferSpec => []ChainsExact
<1>1. BufferInv => ChainsExact
  <2> SUFFICES ASSUME BufferInv, NEW h \in Buckets
               PROVE  LET c  == Chain(h)
                          on == {i \in 1 .. Count + 1 : c[i] # NONE}
                      IN  /\ {c[i] : i \in on} = {e \in Entries : InBucket(buf, e, h)}
                          /\ \A i, j \in on : c[i] = c[j] => i = j
                          /\ \A i \in on : buf.hashPrevEntry[c[i]] =
                                             IF i = 1 THEN NONE ELSE c[i - 1]
    BY DEF ChainsExact, InBucket
  <2> DEFINE c  == Chain(h)
             on == {i \in 1 .. Count + 1 : c[i] # NONE}
  <2>1. PICK n \in 0 .. Count : \E s \in [1 .. n -> Entries] :
          ChainThreads(buf, h, s, n) /\ ChainHolds(buf, h, s, n) /\ c = Listed(s, n)
    BY ChainMeets DEF BufferInv
  <2>2. PICK s \in [1 .. n -> Entries] :
          ChainThreads(buf, h, s, n) /\ ChainHolds(buf, h, s, n) /\ c = Listed(s, n)
    BY <2>1
  <2> HIDE DEF c
  <2>3. on = 1 .. n /\ \A i \in 1 .. n : c[i] = s[i]
    BY <2>2, EntriesFacts DEF Listed
  <2> HIDE DEF on
  <2>4. {c[i] : i \in on} = {e \in Entries : InBucket(buf, e, h)}
    BY <2>2, <2>3 DEF ChainHolds
  <2>5. \A i, j \in on : c[i] = c[j] => i = j
    BY <2>2, <2>3 DEF ChainThreads
  <2>6. ASSUME NEW i \in on
        PROVE  buf.hashPrevEntry[c[i]] = IF i = 1 THEN NONE ELSE c[i - 1]
    <3>1. buf.hashPrevEntry[s[i]] = Before(s, i) /\ c[i] = s[i]
      BY <2>2, <2>3, <2>6 DEF ChainThreads
    <3>2. i # 1 => c[i - 1] = s[i - 1]
      BY <2>3, <2>6
    <3> QED BY <3>1, <3>2 DEF Before
  <2> QED BY <2>4, <2>5, <2>6 DEF c, on
<1> QED BY <1>1, BufferInvariant, PTL

\* Wherever a read of a slice looks, it finds every part with the value the
\* host wrote last (request_transform.c, ReqTransSliceToLowLevel).
THEOREM LastWriteAlwaysKept == BufferSpec => []LastWriteKept
<1>1. BufferInv => LastWriteKept
  <2> SUFFICES ASSUME BufferInv, NEW s \in Slices
               PROVE  UpToDate(s, IF Found(s) # NONE THEN data[Found(s)] ELSE flash[s])
    BY DEF LastWriteKept, UpToDate
  <2>1. CASE Found(s) = NONE
    BY <2>1, FoundFacts, EntriesFacts DEF BufferInv, ContentInv
  <2>2. CASE Found(s) # NONE
    BY <2>2, FoundFacts, EntriesFacts DEF BufferInv, ContentInv
  <2> QED BY <2>1, <2>2
<1> QED BY <1>1, BufferInvariant, PTL

-----------------------------------------------------------------------------
(* The lists implement an LRU cache. *)

Placed(a, w) == [slice |-> a, dirty |-> w]

\* What the entries hold, in the order q.
Held(k, q) == [i \in 1 .. Count |-> Placed(k.logicalSliceAddr[q[i]], k.dirty[q[i]])]

CacheOf(k) == LET order == Walk(k.lruHead, k.nextEntry)
              IN  [i \in 1 .. Count |->
                     [slice |-> k.logicalSliceAddr[order[i]], dirty |-> k.dirty[order[i]]]]

LEMMA CacheIsHeld ==
  ASSUME NEW k, NEW q \in Orders, LruThreads(k, q)
  PROVE  CacheOf(k) = Held(k, q)
<1> DEFINE start == k.lruHead
           next  == k.nextEntry
           order == Walk(start, next)
<1>1. /\ q \in [1 .. Count -> Entries] /\ start = q[1]
      /\ \A i \in 1 .. Count : next[q[i]] = After(q, Count, i)
  BY DEF LruThreads, Orders
<1>2. Count \in 0 .. Count /\ Count # 0
  BY EntriesFacts
<1> HIDE DEF start, next
<1>3. order = Listed(q, Count)
  BY <1>1, <1>2, WalkMeets
<1> HIDE DEF order
<1>4. \A i \in 1 .. Count : order[i] = q[i]
  BY <1>3, EntriesFacts DEF Listed
<1>5. CacheOf(k) = [i \in 1 .. Count |-> Placed(k.logicalSliceAddr[order[i]], k.dirty[order[i]])]
  BY DEF CacheOf, Placed, order, start, next
<1> QED BY <1>4, <1>5 DEF Held

\* The sequence c with x in front and without its j-th element, twice.
Rotated(c, x, j) == <<x>> \o (SubSeq(c, 1, j - 1) \o SubSeq(c, j + 1, Count))
InFront(c, x, j) ==
  [i \in 1 .. Count |-> IF i = 1 THEN x ELSE IF i <= j THEN c[i - 1] ELSE c[i]]

LEMMA RotatedIsInFront ==
  ASSUME NEW S, NEW c \in [1 .. Count -> S], NEW x \in S, NEW j \in 1 .. Count
  PROVE  Rotated(c, x, j) = InFront(c, x, j)
<1> DEFINE a == SubSeq(c, 1, j - 1)
           b == SubSeq(c, j + 1, Count)
           r == a \o b
           t == <<x>> \o r
<1>1. c \in Seq(S) /\ Len(c) = Count
  BY EntriesFacts
<1>2. /\ a \in Seq(S) /\ Len(a) = j - 1
      /\ \A i \in 1 .. j - 1 : a[i] = c[i]
  BY <1>1, EntriesFacts
<1>3. /\ b \in Seq(S) /\ Len(b) = Count - j
      /\ \A i \in 1 .. Count - j : b[i] = c[j + i]
  BY <1>1, EntriesFacts
<1> HIDE DEF a, b
<1>4. /\ r \in Seq(S) /\ Len(r) = Count - 1
      /\ \A i \in 1 .. Count - 1 : r[i] = IF i < j THEN c[i] ELSE c[i + 1]
  <2>1. r \in Seq(S) /\ Len(r) = Count - 1
    <3>1. r \in Seq(S) /\ Len(r) = Len(a) + Len(b)
      BY <1>2, <1>3, ConcatProperties
    <3>2. (j - 1) + (Count - j) = Count - 1
      BY EntriesFacts
    <3> QED BY <3>1, <3>2, <1>2, <1>3
  <2>2. ASSUME NEW i \in 1 .. Count - 1, i < j PROVE r[i] = c[i]
    <3>1. i \in 1 .. Len(a) /\ i \in 1 .. j - 1
      BY <2>2, <1>2, EntriesFacts
    <3>2. r[i] = a[i]
      BY <3>1, <1>2, <1>3
    <3> QED BY <3>1, <3>2, <1>2
  <2>3. ASSUME NEW i \in 1 .. Count - 1, ~ (i < j) PROVE r[i] = c[i + 1]
    <3>1. /\ i \in Len(a) + 1 .. Len(a) + Len(b)
          /\ i - (j - 1) \in 1 .. Count - j /\ j + (i - (j - 1)) = i + 1
      BY <2>3, <1>2, <1>3, EntriesFacts
    <3>2. r[i] = b[i - (j - 1)]
      BY <3>1, <1>2, <1>3
    <3> QED BY <3>1, <3>2, <1>3
  <2> QED BY <2>1, <2>2, <2>3
<1> HIDE DEF r
<1>5. /\ t \in Seq(S) /\ Len(t) = Count
      /\ \A i \in 1 .. Count : t[i] = IF i = 1 THEN x ELSE r[i - 1]
  BY <1>4, EntriesFacts
<1> HIDE DEF t
<1>6. ASSUME NEW i \in 1 .. Count
      PROVE  t[i] = IF i = 1 THEN x ELSE IF i <= j THEN c[i - 1] ELSE c[i]
  <2>1. CASE i = 1
    BY <2>1, <1>5
  <2>2. CASE i # 1
    <3>1. i - 1 \in 1 .. Count - 1 /\ (i - 1) + 1 = i /\ (i - 1 < j <=> i <= j)
      BY <2>2, EntriesFacts
    <3> QED BY <2>2, <3>1, <1>4, <1>5
  <2> QED BY <2>1, <2>2
<1>7. t = [i \in 1 .. Count |-> t[i]]
  BY <1>5
<1> QED BY <1>6, <1>7 DEF Rotated, InFront, t, r, a, b

\* Entry q[j] moves to the front and no other changes what it holds.
LEMMA HeldInFront ==
  ASSUME NEW k, NEW l, BufType(k), BufType(l), NEW q \in Orders, NEW j \in 1 .. Count,
         Rest(l.logicalSliceAddr, k.logicalSliceAddr, q[j]), Rest(l.dirty, k.dirty, q[j])
  PROVE  Held(l, Front(q, j)) =
           Rotated(Held(k, q), Placed(l.logicalSliceAddr[q[j]], l.dirty[q[j]]), j)
<1> DEFINE S == [slice : Slices \cup {NONE}, dirty : BOOLEAN]
           c == Held(k, q)
           x == Placed(l.logicalSliceAddr[q[j]], l.dirty[q[j]])
<1>1. q \in [1 .. Count -> Entries] /\ \A a, b \in 1 .. Count : q[a] = q[b] => a = b
  BY DEF Orders
<1>2. /\ k.logicalSliceAddr \in [Entries -> Slices \cup {NONE}]
      /\ k.dirty \in [Entries -> BOOLEAN]
      /\ l.logicalSliceAddr \in [Entries -> Slices \cup {NONE}]
      /\ l.dirty \in [Entries -> BOOLEAN]
  BY DEF BufType
<1>3. c \in [1 .. Count -> S]
  BY <1>1, <1>2 DEF Held, Placed
<1>4. x \in S
  BY <1>1, <1>2 DEF Placed
<1>5. \A y \in Entries \ {q[j]} :
        Placed(l.logicalSliceAddr[y], l.dirty[y]) = Placed(k.logicalSliceAddr[y], k.dirty[y])
  BY DEF Rest
<1> HIDE DEF S, x
<1>6. ASSUME NEW i \in 1 .. Count
      PROVE  Held(l, Front(q, j))[i] = IF i = 1 THEN x ELSE IF i <= j THEN c[i - 1] ELSE c[i]
  <2>1. Held(l, Front(q, j))[i] =
          Placed(l.logicalSliceAddr[Front(q, j)[i]], l.dirty[Front(q, j)[i]])
    BY DEF Held
  <2>2. CASE i = 1
    BY <2>1, <2>2 DEF Front, x
  <2>3. CASE i # 1 /\ i <= j
    <3>1. i - 1 \in 1 .. Count /\ i - 1 # j
      BY <2>3, EntriesFacts
    <3>2. q[i - 1] \in Entries \ {q[j]}
      BY <3>1, <1>1
    <3> QED BY <2>1, <2>3, <3>1, <3>2, <1>5 DEF Front, Held
  <2>4. CASE i # 1 /\ i > j
    <3>1. q[i] \in Entries \ {q[j]} /\ ~ (i <= j)
      BY <2>4, <1>1
    <3> QED BY <2>1, <2>4, <3>1, <1>5 DEF Front, Held
  <2> QED BY <2>2, <2>3, <2>4
<1>7. Held(l, Front(q, j)) = InFront(c, x, j)
  BY <1>6 DEF Held, InFront
<1> HIDE DEF c
<1> QED BY <1>3, <1>4, <1>7, RotatedIsInFront DEF x, c

\* A request for slice a, for reading or (w) writing, moves the cache from c to
\* d as the abstract cache does.
Moved(c, d, a, w) ==
  \/ \E i \in 1 .. Count :
       /\ c[i].slice = a
       /\ d = Rotated(c, Placed(a, c[i].dirty \/ w), i)
  \/ /\ \A i \in 1 .. Count : c[i].slice # a
     /\ d = Rotated(c, Placed(a, w), Count)

LEMMA HitMoves ==
  ASSUME NEW k, NEW l, ListsInv(k), ListsInv(l), NEW e \in Entries, NEW w \in BOOLEAN,
         l.logicalSliceAddr = k.logicalSliceAddr,
         Rest(l.dirty, k.dirty, e), l.dirty[e] <=> k.dirty[e] \/ w,
         \A q \in Orders, j \in 1 .. Count :
           LruThreads(k, q) /\ q[j] = e => LruThreads(l, Front(q, j))
  PROVE  Moved(CacheOf(k), CacheOf(l), k.logicalSliceAddr[e], w)
<1> DEFINE c == CacheOf(k)
           d == CacheOf(l)
           a == k.logicalSliceAddr[e]
<1>1. PICK q \in Orders : LruThreads(k, q)
  BY DEF ListsInv
<1>2. PICK j \in 1 .. Count : q[j] = e
  BY DEF Orders
<1>3. LruThreads(l, Front(q, j)) /\ Front(q, j) \in Orders
  BY <1>1, <1>2, FrontOrder
<1>4. c = Held(k, q) /\ d = Held(l, Front(q, j))
  BY <1>1, <1>3, CacheIsHeld
<1>5. Rest(l.logicalSliceAddr, k.logicalSliceAddr, e)
  BY DEF Rest
<1>6. d = Rotated(c, Placed(l.logicalSliceAddr[e], l.dirty[e]), j)
  BY <1>2, <1>4, <1>5, HeldInFront DEF ListsInv
<1>7. c[j] = Placed(a, k.dirty[e])
  BY <1>2, <1>4 DEF Held
<1>8. c[j].slice = a /\ c[j].dirty = k.dirty[e]
  BY <1>7 DEF Placed
<1>9. l.dirty[e] \in BOOLEAN /\ k.dirty[e] \in BOOLEAN
  BY DEF ListsInv, BufType
<1>10. l.dirty[e] = (k.dirty[e] \/ w)
  BY <1>9
<1>11. Placed(l.logicalSliceAddr[e], l.dirty[e]) = Placed(a, c[j].dirty \/ w)
  BY <1>8, <1>10
<1> HIDE DEF c, d, a
<1> QED BY <1>6, <1>8, <1>11 DEF Moved, c, d, a

LEMMA MissMoves ==
  ASSUME NEW k, NEW l, ListsInv(k), ListsInv(l), NEW e \in Entries, NEW w \in BOOLEAN,
         NEW s \in Slices, \A x \in Entries : k.logicalSliceAddr[x] # s, e = k.lruTail,
         Rest(l.logicalSliceAddr, k.logicalSliceAddr, e), l.logicalSliceAddr[e] = s,
         Rest(l.dirty, k.dirty, e), l.dirty[e] <=> w,
         \A q \in Orders : LruThreads(k, q) => LruThreads(l, Front(q, Count))
  PROVE  Moved(CacheOf(k), CacheOf(l), s, w)
<1> DEFINE c == CacheOf(k)
           d == CacheOf(l)
<1>1. PICK q \in Orders : LruThreads(k, q)
  BY DEF ListsInv
<1>2. Count \in 1 .. Count /\ q[Count] = e
  BY <1>1, EntriesFacts DEF LruThreads
<1>3. LruThreads(l, Front(q, Count)) /\ Front(q, Count) \in Orders
  BY <1>1, <1>2, FrontOrder
<1>4. c = Held(k, q) /\ d = Held(l, Front(q, Count))
  BY <1>1, <1>3, CacheIsHeld
<1>5. d = Rotated(c, Placed(l.logicalSliceAddr[e], l.dirty[e]), Count)
  BY <1>2, <1>4, HeldInFront DEF ListsInv
<1>6. \A i \in 1 .. Count : c[i].slice # s
  <2> SUFFICES ASSUME NEW i \in 1 .. Count PROVE c[i].slice # s
    OBVIOUS
  <2>1. c[i].slice = k.logicalSliceAddr[q[i]] /\ q[i] \in Entries
    BY <1>4 DEF Held, Placed, Orders
  <2> QED BY <2>1
<1>7. l.dirty[e] \in BOOLEAN
  BY DEF ListsInv, BufType
<1>8. l.dirty[e] = w
  BY <1>7
<1> HIDE DEF c, d
<1> QED BY <1>5, <1>6, <1>8 DEF Moved, c, d


CacheStep == \E s \in Slices, w \in BOOLEAN : Moved(CacheOf(buf), CacheOf(buf'), s, w)

LEMMA HitReadMoves ==
  ASSUME BufferInv, NEW s \in Slices, HitRead(s)
  PROVE  CacheStep
<1> DEFINE e == Found(s)
<1>1. e \in Entries /\ buf.logicalSliceAddr[e] = s
  BY FoundFacts DEF HitRead, BufferInv
<1>2. buf' = ToFront(buf, e)
  BY DEF HitRead
<1> HIDE DEF e
<1>3. ListsInv(buf) /\ ListsInv(buf') /\ SameOffLru(buf, buf')
  BY <1>1, <1>2, ToFrontLists DEF BufferInv
<1>4. ASSUME NEW q \in Orders, NEW j \in 1 .. Count, LruThreads(buf, q), q[j] = e
      PROVE  LruThreads(buf', Front(q, j))
  BY <1>2, <1>3, <1>4, ToFrontThreads DEF ListsInv
<1>5. buf'.logicalSliceAddr = buf.logicalSliceAddr /\ buf'.dirty = buf.dirty
  BY <1>3 DEF SameOffLru
<1>6. Rest(buf'.dirty, buf.dirty, e) /\ (buf'.dirty[e] <=> buf.dirty[e] \/ FALSE)
  BY <1>5 DEF Rest
<1>7. Moved(CacheOf(buf), CacheOf(buf'), s, FALSE)
  BY <1>1, <1>3, <1>4, <1>5, <1>6, HitMoves
<1> QED BY <1>7 DEF CacheStep

LEMMA HitWriteMoves ==
  ASSUME BufferInv, NEW s \in Slices, NEW ps, NEW x, HitWrite(s, ps, x)
  PROVE  CacheStep
<1> DEFINE e == Found(s)
           f == ToFront(buf, e)
<1>1. e \in Entries /\ buf.logicalSliceAddr[e] = s
  BY FoundFacts DEF HitWrite, BufferInv
<1>2. buf' = [f EXCEPT !.dirty[e] = TRUE]
  BY DEF HitWrite, RxDMA
<1> HIDE DEF e
<1>3. ListsInv(buf) /\ ListsInv(f) /\ SameOffLru(buf, f)
  BY <1>1, ToFrontLists DEF BufferInv
<1>4. ASSUME NEW q \in Orders, NEW j \in 1 .. Count, LruThreads(buf, q), q[j] = e
      PROVE  LruThreads(f, Front(q, j)) /\ Front(q, j) \in Orders
  BY <1>3, <1>4, ToFrontThreads, FrontOrder DEF ListsInv
<1> HIDE DEF f
<1>5. /\ ListsInv(buf')
      /\ buf'.logicalSliceAddr = f.logicalSliceAddr
      /\ buf'.dirty = [f.dirty EXCEPT ![e] = TRUE]
      /\ \A q \in Orders : LruThreads(f, q) => LruThreads(buf', q)
  BY <1>1, <1>2, <1>3, DirtiedLists
<1>6. /\ buf'.logicalSliceAddr = buf.logicalSliceAddr
      /\ Rest(buf'.dirty, buf.dirty, e) /\ (buf'.dirty[e] <=> buf.dirty[e] \/ TRUE)
  <2>1. f.dirty = buf.dirty /\ f.logicalSliceAddr = buf.logicalSliceAddr
    BY <1>3 DEF SameOffLru
  <2>2. buf.dirty \in [Entries -> BOOLEAN]
    BY <1>3 DEF ListsInv, BufType
  <2> QED BY <2>1, <2>2, <1>1, <1>5 DEF Rest
<1>7. \A q \in Orders, j \in 1 .. Count :
        LruThreads(buf, q) /\ q[j] = e => LruThreads(buf', Front(q, j))
  BY <1>4, <1>5
<1>8. Moved(CacheOf(buf), CacheOf(buf'), s, TRUE)
  BY <1>1, <1>3, <1>5, <1>6, <1>7, HitMoves
<1> QED BY <1>8 DEF CacheStep

LEMMA MissReadMoves ==
  ASSUME BufferInv, NEW s \in Slices, MissRead(s)
  PROVE  CacheStep
<1> DEFINE e == buf.lruTail
<1>1. \A x \in Entries : buf.logicalSliceAddr[x] # s
  BY FoundFacts, EntriesFacts DEF MissRead, Missing, BufferInv
<1>2. buf' = Allocated(s)
  BY DEF MissRead
<1>3. /\ ListsInv(buf) /\ ListsInv(buf') /\ e \in Entries
      /\ buf'.logicalSliceAddr = [buf.logicalSliceAddr EXCEPT ![e] = s]
      /\ buf'.dirty = [buf.dirty EXCEPT ![e] = FALSE]
      /\ \A q \in Orders : LruThreads(buf, q) => LruThreads(buf', Front(q, Count))
  BY <1>1, <1>2, AllocatedLists DEF BufferInv
<1>4. buf.logicalSliceAddr \in [Entries -> Slices \cup {NONE}] /\ buf.dirty \in [Entries -> BOOLEAN]
  BY DEF BufferInv, ListsInv, BufType
<1> HIDE DEF e
<1>5. /\ Rest(buf'.logicalSliceAddr, buf.logicalSliceAddr, e)
      /\ buf'.logicalSliceAddr[e] = s
      /\ Rest(buf'.dirty, buf.dirty, e) /\ (buf'.dirty[e] <=> FALSE)
  BY <1>3, <1>4 DEF Rest
<1>6. e = buf.lruTail
  BY DEF e
<1>7. Moved(CacheOf(buf), CacheOf(buf'), s, FALSE)
  BY <1>1, <1>3, <1>5, <1>6, MissMoves
<1> QED BY <1>7 DEF CacheStep

LEMMA MissWriteMoves ==
  ASSUME BufferInv, NEW s \in Slices, NEW ps, NEW x, MissWrite(s, ps, x)
  PROVE  CacheStep
<1> DEFINE e == buf.lruTail
           f == Allocated(s)
<1>1. \A y \in Entries : buf.logicalSliceAddr[y] # s
  BY FoundFacts, EntriesFacts DEF MissWrite, Missing, BufferInv
<1>2. buf' = [f EXCEPT !.dirty[e] = TRUE]
  BY DEF MissWrite, RxDMA
<1>3. /\ ListsInv(buf) /\ ListsInv(f) /\ e \in Entries
      /\ f.logicalSliceAddr = [buf.logicalSliceAddr EXCEPT ![e] = s]
      /\ f.dirty = [buf.dirty EXCEPT ![e] = FALSE]
      /\ \A q \in Orders : LruThreads(buf, q) => LruThreads(f, Front(q, Count))
  BY <1>1, AllocatedLists DEF BufferInv
<1> HIDE DEF f
<1>4. /\ ListsInv(buf')
      /\ buf'.logicalSliceAddr = f.logicalSliceAddr
      /\ buf'.dirty = [f.dirty EXCEPT ![e] = TRUE]
      /\ \A q \in Orders : LruThreads(f, q) => LruThreads(buf', q)
  BY <1>2, <1>3, DirtiedLists
<1>5. \A q \in Orders : LruThreads(buf, q) => LruThreads(buf', Front(q, Count))
  BY <1>3, <1>4, FrontOrder, EntriesFacts
<1>6. buf.logicalSliceAddr \in [Entries -> Slices \cup {NONE}] /\ buf.dirty \in [Entries -> BOOLEAN]
  BY DEF BufferInv, ListsInv, BufType
<1> HIDE DEF e
<1>7. /\ Rest(buf'.logicalSliceAddr, buf.logicalSliceAddr, e)
      /\ buf'.logicalSliceAddr[e] = s
      /\ Rest(buf'.dirty, buf.dirty, e) /\ (buf'.dirty[e] <=> TRUE)
  BY <1>3, <1>4, <1>6 DEF Rest
<1>8. e = buf.lruTail
  BY DEF e
<1>9. Moved(CacheOf(buf), CacheOf(buf'), s, TRUE)
  BY <1>1, <1>3, <1>4, <1>5, <1>7, <1>8, MissMoves
<1> QED BY <1>9 DEF CacheStep

\* Read along its list, the buffer is an LRU cache: every request is served
\* from the entry of its slice, or else from the entry used longest ago
\* (data_buffer.c, AllocateDataBuf and CheckDataBufHit).
THEOREM LruRefinement == BufferSpec => ImplementsLru
<1>1. BufferInit => Lru!Init
  <2> SUFFICES ASSUME BufferInit PROVE Lru!Init
    OBVIOUS
  <2>1. ListsInv(buf)
    BY BufferStart DEF BufferInv
  <2>2. PICK q \in Orders : LruThreads(buf, q)
    BY <2>1 DEF ListsInv
  <2>3. CacheOf(buf) = Held(buf, q)
    BY <2>2, CacheIsHeld
  <2>4. \A e \in Entries : buf.logicalSliceAddr[e] = NONE /\ buf.dirty[e] = FALSE
    BY DEF BufferInit, InitDataBuf
  <2>5. Held(buf, q) = [i \in 1 .. Count |-> Placed(NONE, FALSE)]
    BY <2>4 DEF Held, Orders
  <2> QED BY <2>3, <2>5 DEF Lru!Init, Lru!Place, CacheOf, Placed, LruOrder
<1>2. BufferInv /\ [ReqTransSliceToLowLevel]_bufferVars => CacheStep \/ buf' = buf
  <2> SUFFICES ASSUME BufferInv, [ReqTransSliceToLowLevel]_bufferVars
               PROVE  CacheStep \/ buf' = buf
    OBVIOUS
  <2>1. ASSUME NEW s \in Slices, HitRead(s) PROVE CacheStep
    BY <2>1, HitReadMoves
  <2>2. ASSUME NEW s \in Slices, MissRead(s) PROVE CacheStep
    BY <2>2, MissReadMoves
  <2>3. ASSUME NEW w \in Writes, HitWrite(w[1], w[2], w[3]) PROVE CacheStep
    BY <2>3, WritesFacts, HitWriteMoves
  <2>4. ASSUME NEW w \in Writes, MissWrite(w[1], w[2], w[3]) PROVE CacheStep
    BY <2>4, WritesFacts, MissWriteMoves
  <2>5. CASE UNCHANGED bufferVars
    BY <2>5 DEF bufferVars
  <2> QED BY <2>1, <2>2, <2>3, <2>4, <2>5 DEF ReqTransSliceToLowLevel
<1>3. CacheStep => Lru!Next
  <2> SUFFICES ASSUME NEW s \in Slices, NEW w \in BOOLEAN,
                      Moved(CacheOf(buf), CacheOf(buf'), s, w)
               PROVE  Lru!Hit(s, w) \/ Lru!Miss(s, w)
    BY DEF CacheStep, Lru!Next
  <2> QED BY DEF Moved, Rotated, CacheOf, LruOrder, Placed,
                 Lru!Hit, Lru!Miss, Lru!Others, Lru!Place
<1>4. buf' = buf => UNCHANGED CacheOf(buf)
  OBVIOUS
<1>5. BufferSpec => Lru!Spec
  BY <1>1, <1>2, <1>3, <1>4, BufferInvariant, PTL DEF BufferSpec, Lru!Spec, CacheOf, LruOrder
<1> QED BY <1>5 DEF ImplementsLru


=============================================================================
