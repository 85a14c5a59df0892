-------------------------- MODULE AddressMapProofs --------------------------
(***************************************************************************)
(* Proofs that the slice map of AddressMap keeps its two maps in agreement *)
(* and its block lists disjoint, for any number of dies, blocks, pages and *)
(* logical slices, when CurrentStaysLive holds; and that no assertion of   *)
(* AddrTransWrite fails, as long as a die that has to be collected does    *)
(* not hold as many live slices as its blocks but one have pages.          *)
(* AddressMap_no_victim is the run that shows what happens on a die that   *)
(* holds more.  And that the map with its flash pages implements           *)
(* LogicalStore, if moreover a block has rows for all its pages.           *)
(***************************************************************************)
EXTENDS SliceStore, FiniteSetTheorems, SequenceTheorems, TLAPS

-----------------------------------------------------------------------------
(* The lists. *)

\* Appending b to a list puts b, and nothing else, on it.
LEMMA AppendFacts ==
  ASSUME NEW S, NEW s \in Seq(S), NEW e \in S
  PROVE  /\ Append(s, e) \in Seq(S)
         /\ Append(s, e) # <<>>
         /\ \A x : IsOn(Append(s, e), x) <=> IsOn(s, x) \/ x = e
         /\ \A x : AtMostOnce(s, x) /\ (x = e => ~ IsOn(s, x))
                     => AtMostOnce(Append(s, e), x)
<1>1. /\ Append(s, e) \in Seq(S)
      /\ Len(Append(s, e)) = Len(s) + 1
      /\ \A i \in 1 .. Len(s) : Append(s, e)[i] = s[i]
      /\ Append(s, e)[Len(s) + 1] = e
  OBVIOUS
<1>2. /\ Len(s) \in Nat
      /\ DOMAIN s = 1 .. Len(s)
      /\ DOMAIN Append(s, e) = 1 .. Len(s) + 1
  BY <1>1, LenProperties
<1>3. Append(s, e) # <<>>
  BY <1>1, <1>2, EmptySeq
<1> QED
  BY <1>1, <1>2, <1>3 DEF IsOn, AtMostOnce

\* Taking the head of a list takes that block, and nothing else, off it.
LEMMA TailFacts ==
  ASSUME NEW S, NEW s \in Seq(S), s # <<>>
  PROVE  /\ Head(s) \in S
         /\ Tail(s) \in Seq(S)
         /\ IsOn(s, Head(s))
         /\ \A x : IsOn(Tail(s), x) => IsOn(s, x)
         /\ \A x : x # Head(s) /\ IsOn(s, x) => IsOn(Tail(s), x)
         /\ AtMostOnce(s, Head(s)) => ~ IsOn(Tail(s), Head(s))
         /\ \A x : AtMostOnce(s, x) => AtMostOnce(Tail(s), x)
<1>1. /\ Head(s) \in S
      /\ Tail(s) \in Seq(S)
      /\ Len(Tail(s)) = Len(s) - 1
      /\ \A i \in 1 .. Len(Tail(s)) : Tail(s)[i] = s[i + 1]
      /\ Head(s) = s[1]
  BY HeadTailProperties
<1>2. /\ Len(s) \in Nat \ {0}
      /\ DOMAIN s = 1 .. Len(s)
      /\ DOMAIN Tail(s) = 1 .. Len(s) - 1
  BY <1>1, LenProperties, EmptySeq
<1>3. ASSUME NEW x, IsOn(Tail(s), x)
      PROVE  IsOn(s, x)
  <2>1. PICK i \in 1 .. Len(s) - 1 : Tail(s)[i] = x
    BY <1>2, <1>3 DEF IsOn
  <2>2. i + 1 \in 1 .. Len(s) /\ s[i + 1] = x
    BY <1>1, <1>2, <2>1
  <2> QED
    BY <1>2, <2>2 DEF IsOn
<1>4. ASSUME NEW x, x # Head(s), IsOn(s, x)
      PROVE  IsOn(Tail(s), x)
  <2>1. PICK i \in 1 .. Len(s) : s[i] = x
    BY <1>2, <1>4 DEF IsOn
  <2>2. i - 1 \in 1 .. Len(s) - 1 /\ Tail(s)[i - 1] = x
    BY <1>1, <1>2, <1>4, <2>1
  <2> QED
    BY <1>2, <2>2 DEF IsOn
<1>5. ASSUME AtMostOnce(s, Head(s))
      PROVE  ~ IsOn(Tail(s), Head(s))
  <2>1. SUFFICES ASSUME NEW i \in 1 .. Len(s) - 1, Tail(s)[i] = Head(s)
                 PROVE  FALSE
    BY <1>2 DEF IsOn
  <2>2. i + 1 \in 1 .. Len(s) /\ s[i + 1] = s[1] /\ 1 \in 1 .. Len(s)
    BY <1>1, <1>2, <2>1
  <2> QED
    BY <1>1, <1>2, <1>5, <2>2 DEF AtMostOnce
<1>6. ASSUME NEW x, AtMostOnce(s, x)
      PROVE  AtMostOnce(Tail(s), x)
  <2>1. SUFFICES ASSUME NEW i \in 1 .. Len(s) - 1, NEW j \in 1 .. Len(s) - 1,
                        Tail(s)[i] = x, Tail(s)[j] = x
                 PROVE  i = j
    BY <1>2 DEF AtMostOnce
  <2>2. /\ i + 1 \in 1 .. Len(s) /\ s[i + 1] = x
        /\ j + 1 \in 1 .. Len(s) /\ s[j + 1] = x
    BY <1>1, <1>2, <2>1
  <2>3. i + 1 = j + 1
    BY <1>2, <1>6, <2>2 DEF AtMostOnce
  <2> QED
    BY <2>3
<1>7. IsOn(s, Head(s))
  BY <1>1, <1>2 DEF IsOn
<1> QED
  BY <1>1, <1>3, <1>4, <1>5, <1>6, <1>7

\* Removing one position of a sequence keeps the others, in order.
LEMMA RemoveAtFacts ==
  ASSUME NEW S, NEW s \in Seq(S), NEW i \in 1 .. Len(s)
  PROVE  /\ RemoveAt(s, i) \in Seq(S)
         /\ Len(RemoveAt(s, i)) = Len(s) - 1
         /\ \A j \in 1 .. Len(s) - 1 :
              RemoveAt(s, i)[j] = IF j < i THEN s[j] ELSE s[j + 1]
<1> DEFINE a == SubSeq(s, 1, i - 1)
           b == SubSeq(s, i + 1, Len(s))
<1>1. Len(s) \in Nat /\ \A j \in 1 .. Len(s) : s[j] \in S
  BY LenProperties, ElementOfSeq
<1>2. /\ a \in Seq(S)
      /\ Len(a) = i - 1
      /\ \A j \in 1 .. i - 1 : a[j] = s[j]
  <2>1. /\ a \in Seq(S)
        /\ Len(a) = IF 1 <= i - 1 THEN (i - 1) - 1 + 1 ELSE 0
        /\ \A j \in 1 .. (i - 1) - 1 + 1 : a[j] = s[1 + j - 1]
    BY <1>1, SubSeqProperties
  <2> QED
    BY <1>1, <2>1
<1>3. /\ b \in Seq(S)
      /\ Len(b) = Len(s) - i
      /\ \A j \in 1 .. Len(s) - i : b[j] = s[i + j]
  BY <1>1, SubSeqProperties
<1>4. /\ a \o b \in Seq(S)
      /\ Len(a \o b) = Len(a) + Len(b)
      /\ \A j \in 1 .. Len(a) + Len(b) :
           (a \o b)[j] = IF j <= Len(a) THEN a[j] ELSE b[j - Len(a)]
  BY <1>2, <1>3, ConcatProperties
<1>5. RemoveAt(s, i) = a \o b
  BY DEF RemoveAt
<1> HIDE DEF a, b
<1>6. Len(a) + Len(b) = Len(s) - 1
  BY <1>1, <1>2, <1>3
<1>7. ASSUME NEW j \in 1 .. Len(s) - 1
      PROVE  RemoveAt(s, i)[j] = IF j < i THEN s[j] ELSE s[j + 1]
  <2>1. (a \o b)[j] = IF j <= i - 1 THEN a[j] ELSE b[j - (i - 1)]
    BY <1>2, <1>4, <1>6
  <2>2. CASE j < i
    <3>1. j \in 1 .. i - 1 /\ j <= i - 1
      BY <1>1, <2>2
    <3>2. a[j] = s[j]
      BY <1>2, <3>1
    <3> QED
      BY <1>5, <2>1, <2>2, <3>1, <3>2
  <2>3. CASE ~ (j < i)
    <3>1. /\ j - (i - 1) \in 1 .. Len(s) - i
          /\ ~ (j <= i - 1)
          /\ i + (j - (i - 1)) = j + 1
      BY <1>1, <2>3
    <3>2. b[j - (i - 1)] = s[j + 1]
      BY <1>3, <3>1
    <3> QED
      BY <1>5, <2>1, <2>3, <3>1, <3>2
  <2> QED
    BY <2>2, <2>3
<1> QED
  BY <1>4, <1>5, <1>6, <1>7

\* Unlinking a block takes it off the list and keeps the rest.
LEMMA UnlinkFacts ==
  ASSUME NEW S, NEW s \in Seq(S), NEW b, IsOn(s, b), AtMostOnce(s, b)
  PROVE  /\ Unlink(s, b) \in Seq(S)
         /\ \A x : IsOn(Unlink(s, b), x) <=> x # b /\ IsOn(s, x)
         /\ \A x : AtMostOnce(s, x) => AtMostOnce(Unlink(s, b), x)
<1> DEFINE i == CHOOSE k \in 1 .. Len(s) : s[k] = b
           u == Unlink(s, b)
<1>1. Len(s) \in Nat /\ DOMAIN s = 1 .. Len(s)
  BY LenProperties
<1>2. i \in 1 .. Len(s) /\ s[i] = b
  BY <1>1 DEF IsOn
<1>3. /\ u \in Seq(S)
      /\ Len(u) = Len(s) - 1
      /\ \A j \in 1 .. Len(s) - 1 : u[j] = IF j < i THEN s[j] ELSE s[j + 1]
  BY <1>2, RemoveAtFacts DEF Unlink
<1>4. DOMAIN u = 1 .. Len(s) - 1
  BY <1>3, LenProperties
<1> HIDE DEF i, u
<1>5. \A j \in 1 .. Len(s) : s[j] = b => j = i
  BY <1>1, <1>2 DEF AtMostOnce
<1>6. ASSUME NEW x, IsOn(u, x)
      PROVE  x # b /\ IsOn(s, x)
  <2>1. PICK j \in 1 .. Len(s) - 1 : u[j] = x
    BY <1>4, <1>6 DEF IsOn
  <2>2. PICK k \in 1 .. Len(s) : s[k] = x /\ k # i
    BY <1>1, <1>2, <1>3, <2>1
  <2> QED
    BY <1>1, <1>5, <2>2 DEF IsOn
<1>7. ASSUME NEW x, x # b, IsOn(s, x)
      PROVE  IsOn(u, x)
  <2>1. PICK k \in 1 .. Len(s) : s[k] = x
    BY <1>1, <1>7 DEF IsOn
  <2>2. k # i
    BY <1>2, <1>7, <2>1
  <2>3. PICK j \in 1 .. Len(s) - 1 : u[j] = x
    <3>1. CASE k < i
      BY <1>1, <1>2, <1>3, <2>1, <3>1
    <3>2. CASE k > i
      <4>1. k - 1 \in 1 .. Len(s) - 1 /\ ~ (k - 1 < i) /\ (k - 1) + 1 = k
        BY <1>1, <1>2, <3>2
      <4> QED
        BY <1>3, <2>1, <4>1
    <3> QED
      BY <1>1, <1>2, <2>2, <3>1, <3>2
  <2> QED
    BY <1>4, <2>3 DEF IsOn
<1>8. ASSUME NEW x, AtMostOnce(s, x)
      PROVE  AtMostOnce(u, x)
  <2>1. SUFFICES ASSUME NEW j \in 1 .. Len(s) - 1, NEW k \in 1 .. Len(s) - 1,
                        u[j] = x, u[k] = x
                 PROVE  j = k
    BY <1>4 DEF AtMostOnce
  <2> DEFINE at(m) == IF m < i THEN m ELSE m + 1
  <2>2. /\ at(j) \in 1 .. Len(s) /\ s[at(j)] = x
        /\ at(k) \in 1 .. Len(s) /\ s[at(k)] = x
    BY <1>1, <1>3, <2>1
  <2>3. at(j) = at(k)
    BY <1>1, <1>8, <2>2 DEF AtMostOnce
  <2> QED
    BY <1>1, <1>2, <2>3
<1> QED
  BY <1>3, <1>6, <1>7, <1>8 DEF u

-----------------------------------------------------------------------------
(* Sets of pages. *)

\* A block has finitely many pages.
LEMMA PageSets ==
  ASSUME NEW T \in SUBSET Pages
  PROVE  /\ IsFiniteSet(T)
         /\ Cardinality(T) \in Nat
         /\ Cardinality(T) = 0 <=> T = {}
<1>1. IsFiniteSet(Pages)
  BY PagesAssumption, FS_Interval DEF Pages
<1> QED
  BY <1>1, FS_Subset, FS_CardinalityType, FS_EmptySet

\* A smaller set of pages counts no more pages.
LEMMA FewerPages ==
  ASSUME NEW T \in SUBSET Pages, NEW U \in SUBSET T
  PROVE  Cardinality(U) <= Cardinality(T)
BY PageSets, FS_Subset

\* One page more counts at most one more.
LEMMA OneMorePage ==
  ASSUME NEW T \in SUBSET Pages, NEW p \in Pages, NEW U \in SUBSET (T \cup {p})
  PROVE  Cardinality(U) <= Cardinality(T) + 1
<1>1. Cardinality(T \cup {p}) <= Cardinality(T) + 1
  BY PageSets, FS_AddElement
<1>2. Cardinality(U) <= Cardinality(T \cup {p})
  BY FewerPages
<1>3. /\ Cardinality(U) \in Nat
      /\ Cardinality(T) \in Nat
      /\ Cardinality(T \cup {p}) \in Nat
  BY PageSets
<1> QED
  BY <1>1, <1>2, <1>3

\* A new page counts one.
LEMMA NewPage ==
  ASSUME NEW T \in SUBSET Pages, NEW p \in Pages, p \notin T
  PROVE  Cardinality(T \cup {p}) = Cardinality(T) + 1
BY PageSets, FS_AddElement

\* One page less counts one less.
LEMMA OnePageLess ==
  ASSUME NEW T \in SUBSET Pages, NEW p \in T
  PROVE  Cardinality(T \ {p}) = Cardinality(T) - 1
BY PageSets, FS_RemoveElement

-----------------------------------------------------------------------------
(* The inductive invariant. *)

\* All blocks but the first of each die are free, and nothing is mapped.
LEMMA InitIInv == Init => IInv
<1> SUFFICES ASSUME Init PROVE IInv
  OBVIOUS
<1> USE DEF Init, InitSliceMap, InitBlockMap, InitCurrentBlockOfDieMap,
            InitGcVictimMap
<1> DEFINE F == [i \in 1 .. USER_BLOCKS_PER_DIE - 1 |-> i]
<1>1. /\ F \in Seq(Blocks)
      /\ DOMAIN F = 1 .. USER_BLOCKS_PER_DIE - 1
      /\ \A b : AtMostOnce(F, b)
      /\ ~ IsOn(F, 0)
  <2>1. F \in [1 .. USER_BLOCKS_PER_DIE - 1 -> Blocks]
    BY BlocksAssumption DEF Blocks
  <2>2. USER_BLOCKS_PER_DIE - 1 \in Nat
    BY BlocksAssumption
  <2>3. F \in Seq(Blocks)
    <3> HIDE DEF F
    <3>1. \E n \in Nat : F \in [1 .. n -> Blocks]
      BY <2>1, <2>2, Zenon
    <3> QED
      BY <3>1, SeqDef, Zenon
  <2>4. DOMAIN F = 1 .. USER_BLOCKS_PER_DIE - 1
    OBVIOUS
  <2>5. \A i \in 1 .. USER_BLOCKS_PER_DIE - 1 : F[i] = i /\ i # 0
    BY <2>2
  <2> HIDE DEF F
  <2>6. (\A b : AtMostOnce(F, b)) /\ ~ IsOn(F, 0)
    BY <2>4, <2>5 DEF AtMostOnce, IsOn
  <2> QED
    BY <2>3, <2>4, <2>6
<1>2. /\ <<>> \in Seq(Blocks)
      /\ \A b : ~ IsOn(<<>>, b) /\ AtMostOnce(<<>>, b)
  BY EmptySeq, LenProperties DEF IsOn, AtMostOnce
<1>3. TypeOK
  <2>1. 0 \in Blocks /\ 0 \in Dies /\ 0 \in 0 .. SLICES_PER_BLOCK
    BY DiesAssumption, BlocksAssumption, PagesAssumption DEF Blocks, Dies
  <2>2. freeList \in [Dies -> Seq(Blocks)]
    BY <1>1
  <2>3. victimList \in [Dies \X (1 .. SLICES_PER_BLOCK) -> Seq(Blocks)]
    BY <1>2
  <2> QED
    BY <2>1, <2>2, <2>3 DEF TypeOK, DieBlocks
<1>4. MapsAgree
  BY DEF MapsAgree
<1>5. CountsBound /\ InvalidCntExact
  <2>1. SUFFICES ASSUME NEW d \in Dies, NEW b \in Blocks
                 PROVE  Cardinality(LivePages(d, b)) = 0
    BY DEF CountsBound, InvalidCntExact, DieBlocks
  <2>2. LivePages(d, b) = {}
    BY SlicesAssumption, VsaAssumption DEF LivePages, Vsas
  <2> QED
    BY <2>2, FS_EmptySet
<1>6. VictimListsExact
  <2>1. SUFFICES ASSUME NEW d \in Dies, NEW b \in Blocks,
                        NEW c \in 1 .. SLICES_PER_BLOCK
                 PROVE  /\ victimList[<<d, c>>] = <<>>
                        /\ invalidSliceCnt[<<d, b>>] # c
    BY <1>2 DEF VictimListsExact
  <2> QED
    BY DEF DieBlocks
<1>7. FreeBlocksErased
  <2>1. SUFFICES ASSUME NEW d \in Dies, NEW b \in Blocks, IsOn(freeList[d], b)
                 PROVE  /\ AtMostOnce(freeList[d], b)
                        /\ currentPage[<<d, b>>] = 0
                        /\ \A p \in Pages : virtualSlice[<<d, b, p>>] = NONE
                        /\ b # currentBlock[d]
                        /\ ~ InCollection(d, b)
    BY DEF FreeBlocksErased
  <2>2. freeList[d] = F
    OBVIOUS
  <2> QED
    BY <1>1, <2>1, <2>2 DEF DieBlocks, Vsas, InCollection
<1>8. CurrentLive
  BY BlocksAssumption, PagesAssumption DEF CurrentLive, DieBlocks, Blocks
<1>9. CallConsistent
  BY DEF CallConsistent
<1> QED
  BY <1>3, <1>4, <1>5, <1>6, <1>7, <1>8, <1>9 DEF IInv

\* A mapped slice names a page of a die, and the page's owner is that slice.
LEMMA MappedSlice ==
  ASSUME TypeOK, MapsAgree, NEW l \in LogicalSlices, logicalSlice[l] # NONE
  PROVE  \E d \in Dies, b \in Blocks, p \in Pages :
           /\ logicalSlice[l] = <<d, b, p>>
           /\ virtualSlice[<<d, b, p>>] = l
           /\ p \in LivePages(d, b)
           /\ p < currentPage[<<d, b>>]
<1>1. logicalSlice[l] \in Vsas
  BY DEF TypeOK
<1>2. PICK d \in Dies, b \in Blocks, p \in Pages : logicalSlice[l] = <<d, b, p>>
  BY <1>1 DEF Vsas
<1> QED
  BY <1>2 DEF MapsAgree, LivePages

\* The home of a slice, the other slices and all counts after its next page of
\* block b of die d was programmed: shared by the three steps that write.
LEMMA PlaceFacts ==
  ASSUME TypeOK, MapsAgree, CountsBound,
         NEW l \in LogicalSlices, NEW d \in Dies, NEW b \in Blocks,
         ~ IsFull(d, b), PlaceSlice(l, d, b),
         invalidSliceCnt' = invalidSliceCnt
  PROVE  /\ logicalSlice' \in [LogicalSlices -> Vsas \cup {NONE}]
         /\ virtualSlice' \in [Vsas -> LogicalSlices \cup {NONE}]
         /\ currentPage'  \in [DieBlocks -> 0 .. SLICES_PER_BLOCK]
         /\ MapsAgree'
         /\ CountsBound'
<1> DEFINE q == currentPage[<<d, b>>]
           v == <<d, b, q>>
<1>1. q \in Pages /\ v \in Vsas /\ <<d, b>> \in DieBlocks
  BY PagesAssumption DEF TypeOK, DieBlocks, IsFull, Pages, Vsas
<1>2. /\ logicalSlice' = [logicalSlice EXCEPT ![l] = v]
      /\ virtualSlice' = [virtualSlice EXCEPT ![v] = l]
      /\ currentPage'  = [currentPage EXCEPT ![<<d, b>>] = q + 1]
  BY DEF PlaceSlice
<1>3. q + 1 \in 0 .. SLICES_PER_BLOCK
  BY <1>1, PagesAssumption DEF Pages
<1>4. /\ logicalSlice' \in [LogicalSlices -> Vsas \cup {NONE}]
      /\ virtualSlice' \in [Vsas -> LogicalSlices \cup {NONE}]
      /\ currentPage'  \in [DieBlocks -> 0 .. SLICES_PER_BLOCK]
  BY <1>1, <1>2, <1>3 DEF TypeOK
<1>5. MapsAgree'
  <2>1. SUFFICES ASSUME NEW k \in LogicalSlices, logicalSlice'[k] # NONE
                 PROVE  /\ virtualSlice'[logicalSlice'[k]] = k
                        /\ logicalSlice'[k][3] <
                             currentPage'[<<logicalSlice'[k][1], logicalSlice'[k][2]>>]
    BY DEF MapsAgree
  <2>2. CASE k = l
    BY <1>1, <1>2, <2>2 DEF TypeOK, Pages
  <2>3. CASE k # l
    <3>1. logicalSlice'[k] = logicalSlice[k]
      BY <1>2, <2>3 DEF TypeOK
    <3>2. PICK e \in Dies, c \in Blocks, p \in Pages :
            /\ logicalSlice[k] = <<e, c, p>>
            /\ virtualSlice[<<e, c, p>>] = k
            /\ p < currentPage[<<e, c>>]
      BY <2>1, <3>1, MappedSlice
    <3>3. <<e, c, p>> # v
      BY <1>1, <3>2 DEF Pages
    <3>4. virtualSlice'[<<e, c, p>>] = k
      BY <1>2, <3>2, <3>3 DEF TypeOK, Vsas
    <3>5. p < currentPage'[<<e, c>>]
      <4>1. CASE <<e, c>> = <<d, b>>
        BY <1>1, <1>2, <3>2, <4>1 DEF TypeOK, Pages
      <4>2. CASE <<e, c>> # <<d, b>>
        BY <1>2, <3>2, <4>2 DEF TypeOK, DieBlocks
      <4> QED
        BY <4>1, <4>2
    <3> QED
      BY <3>1, <3>2, <3>4, <3>5
  <2> QED
    BY <2>2, <2>3
<1>6. CountsBound'
  <2>1. SUFFICES ASSUME NEW e \in Dies, NEW c \in Blocks
                 PROVE  invalidSliceCnt[<<e, c>>] + Cardinality(LivePages(e, c)')
                          <= currentPage'[<<e, c>>]
    BY DEF CountsBound
  <2>2. /\ LivePages(e, c) \in SUBSET Pages
        /\ LivePages(e, c)' \in SUBSET Pages
    BY DEF LivePages
  <2>3. /\ invalidSliceCnt[<<e, c>>] + Cardinality(LivePages(e, c)) <= currentPage[<<e, c>>]
        /\ invalidSliceCnt[<<e, c>>] \in Nat
        /\ currentPage[<<e, c>>] \in Nat
    BY PagesAssumption DEF CountsBound, TypeOK, DieBlocks
  <2>4. /\ Cardinality(LivePages(e, c)) \in Nat
        /\ Cardinality(LivePages(e, c)') \in Nat
    BY <2>2, PageSets
  <2>5. CASE <<e, c>> = <<d, b>>
    <3>1. LivePages(e, c)' \in SUBSET (LivePages(e, c) \cup {q})
      BY <1>2, <2>5 DEF LivePages, TypeOK
    <3>2. Cardinality(LivePages(e, c)') <= Cardinality(LivePages(e, c)) + 1
      BY <1>1, <2>2, <3>1, OneMorePage
    <3>3. currentPage'[<<e, c>>] = currentPage[<<e, c>>] + 1
      BY <1>1, <1>2, <2>5 DEF TypeOK
    <3> QED
      BY <2>3, <2>4, <3>2, <3>3
  <2>6. CASE <<e, c>> # <<d, b>>
    <3>1. LivePages(e, c)' \in SUBSET LivePages(e, c)
      BY <1>2, <2>6 DEF LivePages, TypeOK
    <3>2. Cardinality(LivePages(e, c)') <= Cardinality(LivePages(e, c))
      BY <2>2, <3>1, FewerPages
    <3>3. currentPage'[<<e, c>>] = currentPage[<<e, c>>]
      BY <1>2, <2>6 DEF TypeOK, DieBlocks
    <3> QED
      BY <2>3, <2>4, <3>2, <3>3
  <2> QED
    BY <2>5, <2>6
<1> QED
  BY <1>4, <1>5, <1>6

\* AddrTransWrite begins: the old home of l is counted superseded.
LEMMA AddrTransWriteStep ==
  ASSUME CurrentStaysLive, IInv, NEW l \in LogicalSlices, AddrTransWrite(l)
  PROVE  IInv'
<1> USE DEF IInv
<1>1. /\ pc = "idle" /\ pc' = "allocate" /\ lsa' = l
      /\ UNCHANGED <<virtualSlice, currentPage, currentBlock, freeList,
                     targetDie, victim>>
      /\ \A d \in Dies, b \in Blocks :
           ~ InCollection(d, b) /\ ~ InCollection(d, b)'
  BY DEF AddrTransWrite, InCollection
<1>2. ~ SupersedesCurrent(l)
  BY DEF AddrTransWrite, MayWrite
<1>3. FreeBlocksErased'
  BY <1>1 DEF FreeBlocksErased
<1>4. CASE logicalSlice[l] = NONE
  <2>1. UNCHANGED <<logicalSlice, invalidSliceCnt, victimList>>
    BY <1>4 DEF AddrTransWrite, InvalidateOldVsa
  <2>2. TypeOK'
    BY <1>1, <2>1 DEF TypeOK
  <2>3. MapsAgree'
    BY <1>1, <2>1 DEF MapsAgree
  <2>4. CountsBound' /\ InvalidCntExact'
    BY <1>1, <2>1 DEF CountsBound, InvalidCntExact, LivePages
  <2>5. VictimListsExact'
    BY <1>1, <2>1 DEF VictimListsExact
  <2>6. CurrentLive'
    BY <1>1, <2>1 DEF CurrentLive
  <2>7. CallConsistent'
    BY <1>1, <1>4, <2>1 DEF CallConsistent
  <2> QED
    BY <1>3, <2>2, <2>3, <2>4, <2>5, <2>6, <2>7
<1>5. CASE logicalSlice[l] # NONE
  <2>1. PICK d \in Dies, b \in Blocks, p \in Pages :
          /\ logicalSlice[l] = <<d, b, p>>
          /\ virtualSlice[<<d, b, p>>] = l
          /\ p \in LivePages(d, b)
    BY <1>5, MappedSlice
  <2> DEFINE n == invalidSliceCnt[<<d, b>>]
             unlinked == IF n = 0 THEN victimList
                         ELSE [victimList EXCEPT ![<<d, n>>] = Unlink(@, b)]
  <2>2. /\ logicalSlice'    = [logicalSlice EXCEPT ![l] = NONE]
        /\ invalidSliceCnt' = [invalidSliceCnt EXCEPT ![<<d, b>>] = n + 1]
        /\ victimList' = [unlinked EXCEPT ![<<d, n + 1>>] = Append(@, b)]
    <3>1. /\ logicalSlice[l] # NONE
          /\ logicalSlice[l][1] = d
          /\ logicalSlice[l][2] = b
          /\ virtualSlice[logicalSlice[l]] = l
      BY <1>5, <2>1
    <3>2. InvalidateOldVsa(l)
      BY DEF AddrTransWrite
    <3> QED
      BY <3>1, <3>2, Zenon
      DEF InvalidateOldVsa, SelectiveGetFromGcVictimList, PutToGcVictimList
  <2>3. \A e \in Dies, c \in Blocks :
          /\ LivePages(e, c) \in SUBSET Pages
          /\ LivePages(e, c)' \in SUBSET LivePages(e, c)
    <3>1. SUFFICES ASSUME NEW e \in Dies, NEW c \in Blocks, NEW q \in Pages,
                          NEW k \in LogicalSlices, logicalSlice'[k] = <<e, c, q>>
                   PROVE  logicalSlice[k] = <<e, c, q>>
      BY DEF LivePages
    <3>2. logicalSlice'[k] # NONE
      BY <3>1, VsaAssumption DEF Vsas
    <3> QED
      BY <2>2, <3>1, <3>2 DEF TypeOK
  <2>4. LivePages(d, b)' = LivePages(d, b) \ {p}
    <3>1. p \notin LivePages(d, b)'
      <4>1. SUFFICES ASSUME NEW k \in LogicalSlices,
                            logicalSlice'[k] = <<d, b, p>>
                     PROVE  FALSE
        BY DEF LivePages
      <4>2. <<d, b, p>> # NONE
        BY VsaAssumption DEF Vsas
      <4>3. logicalSlice[k] = <<d, b, p>> /\ k # l
        BY <2>1, <2>2, <4>1, <4>2 DEF TypeOK
      <4>4. virtualSlice[<<d, b, p>>] = k
        BY <4>2, <4>3 DEF MapsAgree
      <4> QED
        BY <2>1, <4>3, <4>4
    <3>2. ASSUME NEW q \in LivePages(d, b), q # p
          PROVE  q \in LivePages(d, b)'
      <4>1. PICK k \in LogicalSlices : logicalSlice[k] = <<d, b, q>>
        BY DEF LivePages
      <4>2. k # l
        BY <2>1, <3>2, <4>1
      <4> QED
        BY <2>2, <3>2, <4>1, <4>2 DEF TypeOK, LivePages
    <3> QED
      BY <2>3, <3>1, <3>2
  <2>5. /\ n \in Nat
        /\ n = currentPage[<<d, b>>] - Cardinality(LivePages(d, b))
        /\ currentPage[<<d, b>>] \in 0 .. SLICES_PER_BLOCK
        /\ Cardinality(LivePages(d, b)) \in Nat
        /\ Cardinality(LivePages(d, b)') \in Nat
        /\ Cardinality(LivePages(d, b)') = Cardinality(LivePages(d, b)) - 1
    <3>1. Cardinality(LivePages(d, b)') = Cardinality(LivePages(d, b)) - 1
      BY <2>1, <2>3, <2>4, OnePageLess
    <3> QED
      BY <1>1, <2>3, <3>1, PageSets DEF InvalidCntExact, TypeOK, DieBlocks
  <2>6. n + 1 \in 1 .. SLICES_PER_BLOCK
    BY <2>5, PagesAssumption
  <2>7. CountsBound' /\ InvalidCntExact'
    <3>1. SUFFICES ASSUME NEW e \in Dies, NEW c \in Blocks
                   PROVE  /\ invalidSliceCnt'[<<e, c>>]
                               = currentPage[<<e, c>>] - Cardinality(LivePages(e, c)')
                          /\ invalidSliceCnt'[<<e, c>>] + Cardinality(LivePages(e, c)')
                               <= currentPage[<<e, c>>]
      BY <1>1 DEF CountsBound, InvalidCntExact
    <3>2. CASE <<e, c>> = <<d, b>>
      <4>1. e = d /\ c = b
        BY <3>2
      <4>2. invalidSliceCnt'[<<e, c>>] = n + 1
        BY <2>2, <3>2 DEF TypeOK, DieBlocks
      <4> HIDE DEF n
      <4> QED
        BY <2>5, <4>1, <4>2, PagesAssumption
    <3>3. CASE <<e, c>> # <<d, b>>
      <4>1. invalidSliceCnt'[<<e, c>>] = invalidSliceCnt[<<e, c>>]
        BY <2>2, <3>3 DEF TypeOK, DieBlocks
      <4>2. LivePages(e, c)' = LivePages(e, c)
        <5>1. ASSUME NEW q \in LivePages(e, c)
              PROVE  q \in LivePages(e, c)'
          <6>1. PICK k \in LogicalSlices : logicalSlice[k] = <<e, c, q>>
            BY DEF LivePages
          <6>2. k # l
            BY <2>1, <3>3, <6>1
          <6> QED
            BY <2>2, <6>1, <6>2 DEF TypeOK, LivePages
        <5> QED
          BY <2>3, <5>1
      <4> QED
        BY <1>1, <4>1, <4>2 DEF CountsBound, InvalidCntExact
    <3> QED
      BY <3>2, <3>3
  <2>8. /\ n # 0 => n \in 1 .. SLICES_PER_BLOCK
        /\ \A e \in Dies, c \in 1 .. SLICES_PER_BLOCK :
             /\ unlinked[<<e, c>>] \in Seq(Blocks)
             /\ e = d /\ c = n =>
                  \A x : IsOn(unlinked[<<e, c>>], x)
                           <=> x # b /\ IsOn(victimList[<<e, c>>], x)
             /\ e # d \/ c # n => unlinked[<<e, c>>] = victimList[<<e, c>>]
             /\ \A x \in Blocks : AtMostOnce(unlinked[<<e, c>>], x)
        /\ unlinked \in [Dies \X (1 .. SLICES_PER_BLOCK) -> Seq(Blocks)]
    <3>0. /\ victimList \in [Dies \X (1 .. SLICES_PER_BLOCK) -> Seq(Blocks)]
          /\ \A e \in Dies, c \in 1 .. SLICES_PER_BLOCK, x \in Blocks :
               /\ AtMostOnce(victimList[<<e, c>>], x)
               /\ IsOn(victimList[<<e, c>>], x) <=> invalidSliceCnt[<<e, x>>] = c
      BY <1>1 DEF VictimListsExact, TypeOK
    <3>1. CASE n = 0
      <4>1. unlinked = victimList
        BY <3>1
      <4>2. \A c \in 1 .. SLICES_PER_BLOCK : c # n
        BY <3>1
      <4> QED
        BY <3>0, <3>1, <4>1, <4>2
    <3>2. CASE n # 0
      <4>1. n \in 1 .. SLICES_PER_BLOCK
        BY <2>5, <3>2 DEF TypeOK, DieBlocks
      <4>2. /\ IsOn(victimList[<<d, n>>], b)
            /\ \A x \in Blocks : AtMostOnce(victimList[<<d, n>>], x)
            /\ victimList[<<d, n>>] \in Seq(Blocks)
        BY <3>0, <4>1
      <4>3. unlinked = [victimList EXCEPT ![<<d, n>>] =
                          Unlink(victimList[<<d, n>>], b)]
        BY <3>2
      <4> HIDE DEF n, unlinked
      <4> DEFINE u == victimList[<<d, n>>]
      <4>4. /\ Unlink(u, b) \in Seq(Blocks)
            /\ \A x : IsOn(Unlink(u, b), x) <=> x # b /\ IsOn(u, x)
            /\ \A x \in Blocks : AtMostOnce(Unlink(u, b), x)
        <5>1. u \in Seq(Blocks) /\ IsOn(u, b) /\ AtMostOnce(u, b)
          BY <4>2
        <5> HIDE DEF u
        <5>2. /\ Unlink(u, b) \in Seq(Blocks)
              /\ \A x : IsOn(Unlink(u, b), x) <=> x # b /\ IsOn(u, x)
              /\ \A x : AtMostOnce(u, x) => AtMostOnce(Unlink(u, b), x)
          BY <5>1, UnlinkFacts
        <5> QED
          BY <4>2, <5>2 DEF u
      <4>5. unlinked \in [Dies \X (1 .. SLICES_PER_BLOCK) -> Seq(Blocks)]
        BY <4>1, <4>3, <4>4 DEF TypeOK
      <4>6. ASSUME NEW e \in Dies, NEW c \in 1 .. SLICES_PER_BLOCK
            PROVE  unlinked[<<e, c>>] = IF e = d /\ c = n
                                        THEN Unlink(victimList[<<d, n>>], b)
                                        ELSE victimList[<<e, c>>]
        BY <4>1, <4>3 DEF TypeOK
      <4>7. ASSUME NEW e \in Dies, NEW c \in 1 .. SLICES_PER_BLOCK
            PROVE  /\ unlinked[<<e, c>>] \in Seq(Blocks)
                   /\ e = d /\ c = n =>
                        \A x : IsOn(unlinked[<<e, c>>], x)
                                 <=> x # b /\ IsOn(victimList[<<e, c>>], x)
                   /\ e # d \/ c # n => unlinked[<<e, c>>] = victimList[<<e, c>>]
                   /\ \A x \in Blocks : AtMostOnce(unlinked[<<e, c>>], x)
        <5>1. CASE e = d /\ c = n
          BY <4>4, <4>6, <5>1
        <5>2. CASE ~ (e = d /\ c = n)
          BY <3>0, <4>6, <5>2
        <5> QED
          BY <5>1, <5>2
      <4> QED
        BY <4>1, <4>5, <4>7
    <3> QED
      BY <3>1, <3>2
  <2> HIDE DEF n, unlinked
  <2>9. \A e \in Dies, c \in 1 .. SLICES_PER_BLOCK :
          victimList'[<<e, c>>] = IF e = d /\ c = n + 1
                                  THEN Append(unlinked[<<d, n + 1>>], b)
                                  ELSE unlinked[<<e, c>>]
    BY <2>2, <2>6, <2>8
  <2>10. /\ Append(unlinked[<<d, n + 1>>], b) \in Seq(Blocks)
         /\ \A x : IsOn(Append(unlinked[<<d, n + 1>>], b), x)
                     <=> IsOn(unlinked[<<d, n + 1>>], x) \/ x = b
         /\ \A x \in Blocks : AtMostOnce(Append(unlinked[<<d, n + 1>>], b), x)
    <3>1. ~ IsOn(unlinked[<<d, n + 1>>], b)
      <4>1. unlinked[<<d, n + 1>>] = victimList[<<d, n + 1>>]
        <5>1. n \in Nat /\ n + 1 # n
          BY <2>5
        <5> QED
          BY <2>6, <2>8, <5>1
      <4>2. invalidSliceCnt[<<d, b>>] # n + 1
        BY <2>5 DEF n
      <4> QED
        BY <2>6, <4>1, <4>2 DEF VictimListsExact
    <3>2. /\ unlinked[<<d, n + 1>>] \in Seq(Blocks)
          /\ \A x \in Blocks : AtMostOnce(unlinked[<<d, n + 1>>], x)
      BY <2>6, <2>8
    <3> QED
      BY <3>1, <3>2, AppendFacts
  <2>11. \A e \in Dies, x \in Blocks :
           invalidSliceCnt'[<<e, x>>] = IF e = d /\ x = b THEN n + 1
                                        ELSE invalidSliceCnt[<<e, x>>]
    BY <2>2 DEF TypeOK, DieBlocks
  <2>12. VictimListsExact'
    <3>1. SUFFICES ASSUME NEW e \in Dies, NEW x \in Blocks,
                          NEW c \in 1 .. SLICES_PER_BLOCK
                   PROVE  /\ IsOn(victimList'[<<e, c>>], x)
                               <=> invalidSliceCnt'[<<e, x>>] = c
                          /\ AtMostOnce(victimList'[<<e, c>>], x)
      BY <1>1 DEF VictimListsExact
    <3>2. IsOn(victimList[<<e, c>>], x) <=> invalidSliceCnt[<<e, x>>] = c
      BY <1>1 DEF VictimListsExact
    <3>3. AtMostOnce(victimList'[<<e, c>>], x)
      BY <2>8, <2>9, <2>10
    <3>4. IsOn(unlinked[<<e, c>>], x)
            <=> invalidSliceCnt[<<e, x>>] = c /\ ~ (e = d /\ x = b)
      <4>1. CASE e = d /\ c = n
        BY <2>8, <3>2, <4>1
      <4>2. CASE ~ (e = d /\ c = n)
        <5>1. unlinked[<<e, c>>] = victimList[<<e, c>>]
          BY <2>8, <4>2
        <5> QED
          BY <3>2, <4>2, <5>1 DEF n
      <4> QED
        BY <4>1, <4>2
    <3>5. CASE e = d /\ c = n + 1
      <4>1. IsOn(victimList'[<<e, c>>], x)
              <=> IsOn(unlinked[<<e, c>>], x) \/ x = b
        BY <2>9, <2>10, <3>5
      <4> QED
        BY <2>11, <3>3, <3>4, <3>5, <4>1
    <3>6. CASE ~ (e = d /\ c = n + 1)
      <4>1. victimList'[<<e, c>>] = unlinked[<<e, c>>]
        BY <2>9, <3>6
      <4> QED
        BY <2>11, <3>3, <3>4, <3>6, <4>1
    <3> QED
      BY <3>5, <3>6
  <2>13. TypeOK'
    <3>1. logicalSlice' \in [LogicalSlices -> Vsas \cup {NONE}]
      BY <2>2 DEF TypeOK
    <3>2. invalidSliceCnt' \in [DieBlocks -> 0 .. SLICES_PER_BLOCK]
      <4>1. n + 1 \in 0 .. SLICES_PER_BLOCK
        BY <2>6
      <4> QED
        BY <2>2, <4>1 DEF TypeOK
    <3>3. victimList' \in [Dies \X (1 .. SLICES_PER_BLOCK) -> Seq(Blocks)]
      BY <2>2, <2>6, <2>8, <2>10
    <3> QED
      BY <1>1, <3>1, <3>2, <3>3 DEF TypeOK
  <2>14. MapsAgree'
    BY <1>1, <2>2 DEF MapsAgree, TypeOK
  <2>15. CurrentLive'
    <3>1. SUFFICES ASSUME NEW e \in Dies
                   PROVE  invalidSliceCnt'[<<e, currentBlock[e]>>] < SLICES_PER_BLOCK
      BY <1>1 DEF CurrentLive
    <3>2. currentBlock[e] \in Blocks
      BY DEF TypeOK
    <3>3. CASE e = d /\ currentBlock[e] = b
      <4>1. n # SLICES_PER_BLOCK - 1
        BY <1>2, <1>5, <2>1, <3>3 DEF SupersedesCurrent, n
      <4> QED
        BY <2>5, <2>6, <2>11, <3>3, <4>1, PagesAssumption
    <3>4. CASE ~ (e = d /\ currentBlock[e] = b)
      BY <2>11, <3>2, <3>4 DEF CurrentLive
    <3> QED
      BY <3>3, <3>4
  <2>16. CallConsistent'
    BY <1>1, <2>2 DEF CallConsistent, TypeOK
  <2> QED
    BY <1>3, <2>7, <2>12, <2>13, <2>14, <2>15, <2>16
<1> QED
  BY <1>4, <1>5

\* Programming the next page of block b, which the die is filling from now on
\* and which is not on its free list, keeps all but the progress of the call.
LEMMA PlaceStep ==
  ASSUME IInv,
         NEW l \in LogicalSlices, NEW t \in Dies, NEW b \in Blocks,
         ~ IsFull(t, b), PlaceSlice(l, t, b),
         ~ InCollection(t, b),
         \A d \in Dies, c \in Blocks, p \in Pages :
           logicalSlice[l] = <<d, c, p>> => d = t /\ InCollection(d, c),
         UNCHANGED <<invalidSliceCnt, victimList>>,
         currentBlock' = [currentBlock EXCEPT ![t] = b],
         \A d \in Dies, x \in Blocks :
           IsOn(freeList'[d], x) => /\ IsOn(freeList[d], x)
                                    /\ AtMostOnce(freeList'[d], x)
                                    /\ d = t => x # b,
         \A d \in Dies, x \in Blocks : InCollection(d, x)' <=> InCollection(d, x)
  PROVE  /\ logicalSlice' \in [LogicalSlices -> Vsas \cup {NONE}]
         /\ virtualSlice' \in [Vsas -> LogicalSlices \cup {NONE}]
         /\ currentPage'  \in [DieBlocks -> 0 .. SLICES_PER_BLOCK]
         /\ currentBlock' \in [Dies -> Blocks]
         /\ MapsAgree'
         /\ CountsBound'
         /\ VictimListsExact'
         /\ FreeBlocksErased'
         /\ InvalidCntExact'
         /\ CurrentLive'
<1> USE DEF IInv
<1> DEFINE q == currentPage[<<t, b>>]
           v == <<t, b, q>>
<1>1. /\ logicalSlice' \in [LogicalSlices -> Vsas \cup {NONE}]
      /\ virtualSlice' \in [Vsas -> LogicalSlices \cup {NONE}]
      /\ currentPage'  \in [DieBlocks -> 0 .. SLICES_PER_BLOCK]
      /\ MapsAgree'
      /\ CountsBound'
  BY PlaceFacts
<1>2. currentBlock' \in [Dies -> Blocks]
  BY DEF TypeOK
<1>3. VictimListsExact'
  BY DEF VictimListsExact
<1>4. /\ logicalSlice' = [logicalSlice EXCEPT ![l] = v]
      /\ virtualSlice' = [virtualSlice EXCEPT ![v] = l]
      /\ currentPage'  = [currentPage EXCEPT ![<<t, b>>] = q + 1]
      /\ v \in Vsas
      /\ q \in Nat
  BY PagesAssumption DEF PlaceSlice, IsFull, TypeOK, Vsas, Pages, DieBlocks
<1>5. FreeBlocksErased'
  <2>1. SUFFICES ASSUME NEW d \in Dies, NEW x \in Blocks, IsOn(freeList'[d], x)
                 PROVE  /\ AtMostOnce(freeList'[d], x)
                        /\ currentPage'[<<d, x>>] = 0
                        /\ \A p \in Pages : virtualSlice'[<<d, x, p>>] = NONE
                        /\ x # currentBlock'[d]
                        /\ ~ InCollection(d, x)'
    BY DEF FreeBlocksErased
  <2>2. /\ IsOn(freeList[d], x)
        /\ AtMostOnce(freeList'[d], x)
        /\ <<d, x>> # <<t, b>>
    BY <2>1
  <2>3. /\ currentPage[<<d, x>>] = 0
        /\ \A p \in Pages : virtualSlice[<<d, x, p>>] = NONE
        /\ x # currentBlock[d]
        /\ ~ InCollection(d, x)'
    BY <2>2 DEF FreeBlocksErased
  <2>4. currentPage'[<<d, x>>] = 0
    BY <1>4, <2>2, <2>3 DEF TypeOK, DieBlocks
  <2>5. ASSUME NEW p \in Pages PROVE virtualSlice'[<<d, x, p>>] = NONE
    <3>1. <<d, x, p>> \in Vsas /\ <<d, x, p>> # v
      BY <2>2 DEF Vsas
    <3> QED
      BY <1>4, <2>3, <3>1 DEF TypeOK
  <2>6. x # currentBlock'[d]
    BY <2>2, <2>3 DEF TypeOK
  <2> QED
    BY <2>2, <2>3, <2>4, <2>5, <2>6
<1>6. InvalidCntExact'
  <2>1. SUFFICES ASSUME NEW e \in Dies, NEW c \in Blocks,
                        ~ (InCollection(e, c)' /\ c # currentBlock'[e])
                 PROVE  invalidSliceCnt[<<e, c>>]
                          = currentPage'[<<e, c>>] - Cardinality(LivePages(e, c)')
    BY DEF InvalidCntExact
  <2>2. /\ currentBlock'[e] = IF e = t THEN b ELSE currentBlock[e]
        /\ InCollection(e, c)' <=> InCollection(e, c)
    BY DEF TypeOK
  <2>3. /\ ~ (InCollection(e, c) /\ c # currentBlock[e])
        /\ e = t => ~ InCollection(e, c)
    BY <2>1, <2>2
  <2>4. /\ invalidSliceCnt[<<e, c>>]
             = currentPage[<<e, c>>] - Cardinality(LivePages(e, c))
        /\ LivePages(e, c) \in SUBSET Pages
        /\ Cardinality(LivePages(e, c)) \in Nat
        /\ currentPage[<<e, c>>] \in Nat
    <3>1. LivePages(e, c) \in SUBSET Pages
      BY DEF LivePages
    <3> QED
      BY <2>3, <3>1, PageSets DEF InvalidCntExact, TypeOK, DieBlocks
  <2>5. \A p \in Pages : logicalSlice[l] # <<e, c, p>>
    BY <2>3
  <2>6. CASE <<e, c>> = <<t, b>>
    <3>1. q \in Pages /\ currentPage'[<<e, c>>] = q + 1
      BY <1>4, <2>6 DEF TypeOK, DieBlocks, Vsas
    <3>2. LivePages(e, c)' = LivePages(e, c) \cup {q}
      BY <1>4, <2>5, <2>6, <3>1 DEF LivePages, TypeOK
    <3>3. q \notin LivePages(e, c)
      <4>1. SUFFICES ASSUME NEW k \in LogicalSlices, logicalSlice[k] = v
                     PROVE  FALSE
        BY <2>6 DEF LivePages
      <4>2. v # NONE
        BY <1>4, VsaAssumption
      <4>3. q < q
        <5>1. PICK d0 \in Dies, b0 \in Blocks, p0 \in Pages :
                /\ logicalSlice[k] = <<d0, b0, p0>>
                /\ p0 < currentPage[<<d0, b0>>]
          BY <4>1, <4>2, MappedSlice
        <5>2. d0 = t /\ b0 = b /\ p0 = q
          BY <4>1, <5>1
        <5> QED
          BY <5>1, <5>2
      <4> QED
        BY <1>4, <4>3
    <3>4. Cardinality(LivePages(e, c)') = Cardinality(LivePages(e, c)) + 1
      BY <2>4, <3>1, <3>2, <3>3, NewPage
    <3> QED
      BY <2>4, <2>6, <3>1, <3>4
  <2>7. CASE <<e, c>> # <<t, b>>
    <3>1. currentPage'[<<e, c>>] = currentPage[<<e, c>>]
      BY <1>4, <2>7 DEF TypeOK, DieBlocks
    <3>2. LivePages(e, c)' = LivePages(e, c)
      BY <1>4, <2>5, <2>7 DEF LivePages, TypeOK
    <3> QED
      BY <2>4, <3>1, <3>2
  <2> QED
    BY <2>6, <2>7
<1>7. CurrentLive'
  <2>1. SUFFICES ASSUME NEW d \in Dies
                 PROVE  invalidSliceCnt[<<d, currentBlock'[d]>>] < SLICES_PER_BLOCK
    BY DEF CurrentLive
  <2>2. CASE d = t
    <3>1. LivePages(t, b) \in SUBSET Pages
      BY DEF LivePages
    <3>2. /\ invalidSliceCnt[<<t, b>>] + Cardinality(LivePages(t, b)) <= q
          /\ Cardinality(LivePages(t, b)) \in Nat
          /\ invalidSliceCnt[<<t, b>>] \in Nat
      BY <3>1, PageSets DEF CountsBound, TypeOK, DieBlocks
    <3>3. q \in 0 .. SLICES_PER_BLOCK /\ q # SLICES_PER_BLOCK
      BY DEF TypeOK, DieBlocks, IsFull
    <3>4. currentBlock'[d] = b
      BY <2>2 DEF TypeOK
    <3> QED
      BY <2>2, <3>2, <3>3, <3>4, PagesAssumption
  <2>3. CASE d # t
    BY <2>3 DEF CurrentLive, TypeOK
  <2> QED
    BY <2>2, <2>3
<1> QED
  BY <1>1, <1>2, <1>3, <1>5, <1>6, <1>7

\* The end of FindFreeVirtualSlice, for the current block and for a new one.
LEMMA FinishWriteStep ==
  ASSUME IInv, pc \in {"allocate", "retry"},
         NEW b \in Blocks, ~ IsFull(targetDie, b), FinishWrite(b),
         UNCHANGED <<invalidSliceCnt, victimList, victim>>,
         currentBlock' = [currentBlock EXCEPT ![targetDie] = b],
         freeList' \in [Dies -> Seq(Blocks)],
         \A d \in Dies, x \in Blocks :
           IsOn(freeList'[d], x) => /\ IsOn(freeList[d], x)
                                    /\ AtMostOnce(freeList'[d], x)
                                    /\ d = targetDie => x # b
  PROVE  IInv'
<1> USE DEF IInv
<1>1. /\ lsa \in LogicalSlices
      /\ logicalSlice[lsa] = NONE
      /\ targetDie \in Dies
      /\ targetDie' \in Dies
  <2>1. (targetDie + 1) % USER_DIES \in Dies
    BY DiesAssumption DEF TypeOK, Dies
  <2> QED
    BY <2>1 DEF CallConsistent, FinishWrite, FindDieForFreeSliceAllocation, TypeOK
<1>2. /\ pc' = "idle" /\ lsa' = NONE
      /\ \A d \in Dies, x \in Blocks : ~ InCollection(d, x) /\ ~ InCollection(d, x)'
  BY DEF FinishWrite, InCollection
<1>3. /\ ~ InCollection(targetDie, b)
      /\ \A d \in Dies, c \in Blocks, p \in Pages :
           logicalSlice[lsa] = <<d, c, p>> => d = targetDie /\ InCollection(d, c)
      /\ \A d \in Dies, x \in Blocks : InCollection(d, x)' <=> InCollection(d, x)
      /\ UNCHANGED <<invalidSliceCnt, victimList>>
  <2>1. \A d \in Dies, c \in Blocks, p \in Pages : logicalSlice[lsa] # <<d, c, p>>
    BY <1>1, VsaAssumption DEF Vsas
  <2> QED
    BY <1>1, <1>2, <2>1
<1>4. /\ logicalSlice' \in [LogicalSlices -> Vsas \cup {NONE}]
      /\ virtualSlice' \in [Vsas -> LogicalSlices \cup {NONE}]
      /\ currentPage'  \in [DieBlocks -> 0 .. SLICES_PER_BLOCK]
      /\ currentBlock' \in [Dies -> Blocks]
      /\ MapsAgree'
      /\ CountsBound'
      /\ VictimListsExact'
      /\ FreeBlocksErased'
      /\ InvalidCntExact'
      /\ CurrentLive'
  <2>1. PlaceSlice(lsa, targetDie, b)
    BY DEF FinishWrite
  <2> QED
    BY <1>1, <1>3, <2>1, PlaceStep, Zenon
<1>5. TypeOK'
  BY <1>1, <1>2, <1>4 DEF TypeOK
<1>6. CallConsistent'
  BY <1>2 DEF CallConsistent
<1> QED
  BY <1>4, <1>5, <1>6

\* FindFreeVirtualSlice takes the next page of the block being filled.
LEMMA UseCurrentBlockStep ==
  ASSUME IInv, UseCurrentBlock
  PROVE  IInv'
<1> USE DEF IInv
<1> DEFINE b == currentBlock[targetDie]
<1>1. /\ targetDie \in Dies /\ b \in Blocks
      /\ currentBlock' = [currentBlock EXCEPT ![targetDie] = b]
      /\ freeList' = freeList
      /\ freeList' \in [Dies -> Seq(Blocks)]
  BY DEF TypeOK, UseCurrentBlock
<1>2. \A d \in Dies, x \in Blocks :
        IsOn(freeList'[d], x) => /\ IsOn(freeList[d], x)
                                 /\ AtMostOnce(freeList'[d], x)
                                 /\ d = targetDie => x # b
  BY <1>1 DEF FreeBlocksErased
<1> HIDE DEF b
<1>3. /\ pc \in {"allocate", "retry"}
      /\ ~ IsFull(targetDie, b)
      /\ FinishWrite(b)
      /\ UNCHANGED <<invalidSliceCnt, victimList, victim>>
  BY DEF UseCurrentBlock, b
<1> QED
  BY <1>1, <1>2, <1>3, FinishWriteStep

\* FindFreeVirtualSlice opens the head of the free list.
LEMMA OpenFreeBlockStep ==
  ASSUME IInv, OpenFreeBlock
  PROVE  IInv'
<1> USE DEF IInv
<1> DEFINE s == freeList[targetDie]
           b == Head(s)
<1>1. targetDie \in Dies /\ s \in Seq(Blocks)
  BY DEF TypeOK
<1>2. s # <<>>
  <2>1. ~ (Len(s) <= 1)
    BY DEF OpenFreeBlock, NoFreeBlock, RESERVED_FREE_BLOCK_COUNT
  <2> QED
    BY <1>1, <2>1, EmptySeq
<1>3. /\ b \in Blocks
      /\ Tail(s) \in Seq(Blocks)
      /\ IsOn(s, b)
      /\ \A x \in Blocks : IsOn(Tail(s), x) => IsOn(s, x)
      /\ \A x \in Blocks : AtMostOnce(s, x) => AtMostOnce(Tail(s), x)
      /\ AtMostOnce(s, b) => ~ IsOn(Tail(s), b)
  BY <1>1, <1>2, TailFacts
<1>4. /\ pc \in {"allocate", "retry"}
      /\ freeList' = [freeList EXCEPT ![targetDie] = Tail(s)]
      /\ currentBlock' = [currentBlock EXCEPT ![targetDie] = b]
      /\ FinishWrite(b)
      /\ UNCHANGED <<invalidSliceCnt, victimList, victim>>
  BY DEF OpenFreeBlock
<1>5. AtMostOnce(s, b) /\ currentPage[<<targetDie, b>>] = 0
  BY <1>1, <1>3 DEF FreeBlocksErased
<1> HIDE DEF s, b
<1>6. ~ IsFull(targetDie, b)
  BY <1>5, PagesAssumption DEF IsFull
<1>7. freeList' \in [Dies -> Seq(Blocks)]
  BY <1>1, <1>3, <1>4 DEF TypeOK
<1>8. ASSUME NEW d \in Dies, NEW x \in Blocks, IsOn(freeList'[d], x)
      PROVE  /\ IsOn(freeList[d], x)
             /\ AtMostOnce(freeList'[d], x)
             /\ d = targetDie => x # b
  <2>1. CASE d = targetDie
    <3>1. freeList'[d] = Tail(s)
      BY <1>4, <2>1 DEF TypeOK
    <3>2. IsOn(freeList[d], x)
      BY <1>3, <1>8, <2>1, <3>1 DEF s
    <3>3. AtMostOnce(s, x)
      BY <2>1, <3>2 DEF FreeBlocksErased, s
    <3> QED
      BY <1>3, <1>5, <1>8, <3>1, <3>2, <3>3
  <2>2. CASE d # targetDie
    <3>1. freeList'[d] = freeList[d]
      BY <1>4, <2>2 DEF TypeOK
    <3> QED
      BY <1>8, <2>2, <3>1 DEF FreeBlocksErased
  <2> QED
    BY <2>1, <2>2
<1> QED
  BY <1>3, <1>4, <1>6, <1>7, <1>8, FinishWriteStep

\* GarbageCollection takes its victim off the list.
LEMMA SelectVictimStep ==
  ASSUME IInv, SelectVictim
  PROVE  IInv'
<1> USE DEF IInv
<1> DEFINE t == targetDie
<1>1. PICK c \in 1 .. SLICES_PER_BLOCK :
        /\ victimList[<<t, c>>] # <<>>
        /\ victim' = Head(victimList[<<t, c>>])
        /\ victimList' = [victimList EXCEPT ![<<t, c>>] = Tail(@)]
  BY DEF SelectVictim, Greediest, VictimCounts
<1>2. /\ pc = "allocate" /\ pc' = "collect"
      /\ IsFull(t, currentBlock[t])
      /\ UNCHANGED <<logicalSlice, virtualSlice, currentPage, invalidSliceCnt,
                     currentBlock, freeList, targetDie, lsa>>
      /\ t \in Dies
  BY DEF SelectVictim, TypeOK
<1> DEFINE s == victimList[<<t, c>>]
<1>3. /\ \A d \in Dies, b \in Blocks : ~ InCollection(d, b)
      /\ \A d \in Dies, b \in Blocks :
           InCollection(d, b)' <=> d = t /\ b = victim'
  BY <1>2 DEF InCollection
<1>4. /\ s \in Seq(Blocks)
      /\ victim' \in Blocks
      /\ IsOn(s, victim')
      /\ Tail(s) \in Seq(Blocks)
      /\ \A x : x # victim' => (IsOn(Tail(s), x) <=> IsOn(s, x))
      /\ AtMostOnce(s, victim') => ~ IsOn(Tail(s), victim')
      /\ \A x : AtMostOnce(s, x) => AtMostOnce(Tail(s), x)
  <2>1. s \in Seq(Blocks)
    BY <1>2 DEF TypeOK
  <2> QED
    BY <1>1, <2>1, TailFacts
<1>5. t' = t
  BY <1>2
<1> HIDE DEF t
<1>6. /\ victimList' \in [Dies \X (1 .. SLICES_PER_BLOCK) -> Seq(Blocks)]
      /\ \A d \in Dies, e \in 1 .. SLICES_PER_BLOCK :
           victimList'[<<d, e>>] = IF d = t /\ e = c THEN Tail(s)
                                   ELSE victimList[<<d, e>>]
  BY <1>1, <1>2, <1>4 DEF TypeOK
<1>7. \A d \in Dies, b \in Blocks, e \in 1 .. SLICES_PER_BLOCK :
        /\ IsOn(victimList[<<d, e>>], b) <=> invalidSliceCnt[<<d, b>>] = e
        /\ AtMostOnce(victimList[<<d, e>>], b)
  BY <1>3 DEF VictimListsExact
<1>8. invalidSliceCnt[<<t, victim'>>] = c
  BY <1>2, <1>4, <1>7
<1>9. TypeOK'
  BY <1>2, <1>4, <1>6 DEF TypeOK
<1>10. MapsAgree' /\ CurrentLive' /\ CountsBound' /\ InvalidCntExact'
  <2>1. MapsAgree' /\ CurrentLive'
    BY <1>2 DEF MapsAgree, CurrentLive
  <2>2. \A d \in Dies, b \in Blocks : LivePages(d, b)' = LivePages(d, b)
    BY <1>2 DEF LivePages
  <2>3. CountsBound'
    BY <1>2, <2>2 DEF CountsBound
  <2>4. InvalidCntExact'
    BY <1>2, <1>3, <2>2 DEF InvalidCntExact
  <2> QED
    BY <2>1, <2>3, <2>4
<1>11. VictimListsExact'
  <2> HIDE DEF s
  <2>1. SUFFICES ASSUME NEW d \in Dies, NEW b \in Blocks,
                        NEW e \in 1 .. SLICES_PER_BLOCK
                 PROVE  /\ IsOn(victimList'[<<d, e>>], b)
                             <=> /\ invalidSliceCnt'[<<d, b>>] = e
                                 /\ ~ InCollection(d, b)'
                        /\ AtMostOnce(victimList'[<<d, e>>], b)
    BY DEF VictimListsExact
  <2>2. /\ invalidSliceCnt'[<<d, b>>] = invalidSliceCnt[<<d, b>>]
        /\ InCollection(d, b)' <=> d = t /\ b = victim'
        /\ IsOn(victimList[<<d, e>>], b) <=> invalidSliceCnt[<<d, b>>] = e
        /\ AtMostOnce(victimList[<<d, e>>], b)
    BY <1>2, <1>3, <1>7
  <2>3. CASE d = t /\ e = c
    <3>1. victimList'[<<d, e>>] = Tail(s) /\ victimList[<<d, e>>] = s
      BY <1>6, <2>3 DEF s
    <3>2. AtMostOnce(Tail(s), b)
      BY <1>4, <2>2, <3>1
    <3>3. CASE b = victim'
      <4>1. ~ IsOn(Tail(s), b)
        BY <1>4, <2>2, <3>1, <3>3
      <4> QED
        BY <2>2, <2>3, <3>1, <3>2, <3>3, <4>1
    <3>4. CASE b # victim'
      <4>1. IsOn(Tail(s), b) <=> IsOn(s, b)
        BY <1>4, <3>4
      <4> QED
        BY <2>2, <2>3, <3>1, <3>2, <3>4, <4>1
    <3> QED
      BY <3>3, <3>4
  <2>4. CASE ~ (d = t /\ e = c)
    <3>1. victimList'[<<d, e>>] = victimList[<<d, e>>]
      BY <1>6, <2>4
    <3> QED
      BY <1>8, <2>2, <2>4, <3>1
  <2> QED
    BY <2>3, <2>4
<1>12. FreeBlocksErased'
  <2>1. currentPage[<<t, victim'>>] # 0
    <3>1. LivePages(t, victim') \in SUBSET Pages
      BY DEF LivePages
    <3>2. /\ invalidSliceCnt[<<t, victim'>>] + Cardinality(LivePages(t, victim'))
               <= currentPage[<<t, victim'>>]
          /\ Cardinality(LivePages(t, victim')) \in Nat
      BY <1>2, <1>4, <3>1, PageSets DEF CountsBound
    <3> QED
      BY <1>8, <3>2
  <2>2. ~ IsOn(freeList[t], victim')
    BY <1>2, <1>4, <2>1 DEF FreeBlocksErased
  <2> QED
    BY <1>2, <1>3, <2>2 DEF FreeBlocksErased
<1>13. CallConsistent'
  BY <1>2, <1>4 DEF CallConsistent, IsFull, t
<1> QED
  BY <1>9, <1>10, <1>11, <1>12, <1>13

\* GarbageCollection copies a live page of the victim to another block.
LEMMA CopyValidPageStep ==
  ASSUME IInv, CopyValidPage
  PROVE  /\ IInv'
         /\ \E p \in Pages, l \in LogicalSlices, b \in Blocks :
              /\ NextValidPage(p)
              /\ l = virtualSlice[<<targetDie, victim, p>>]
              /\ b # victim
              /\ ~ IsFull(targetDie, b)
              /\ PlaceSlice(l, targetDie, b)
<1> USE DEF IInv
<1> DEFINE t == targetDie
           s == freeList[t]
           opens == IsFull(t, BlockAfterLeaving)
           f == IF opens THEN Tail(FreeAfterLeaving) ELSE FreeAfterLeaving
           b == IF opens THEN Head(FreeAfterLeaving) ELSE BlockAfterLeaving
<1>1. /\ pc = "collect" /\ UNCHANGED <<pc, targetDie, victim, lsa>>
      /\ t \in Dies /\ victim \in Blocks /\ s \in Seq(Blocks)
      /\ UNCHANGED <<invalidSliceCnt, victimList>>
      /\ ~ NoRoomForCopy
  BY DEF CopyValidPage, MustCopy, CallConsistent, TypeOK
<1>2. PICK p \in Pages : /\ NextValidPage(p)
                         /\ PlaceSlice(virtualSlice[<<t, victim, p>>], t, b)
  BY DEF CopyValidPage
<1>3. /\ freeList' = [freeList EXCEPT ![t] = f]
      /\ currentBlock' = [currentBlock EXCEPT ![t] = b]
  BY DEF CopyValidPage
<1>4. PICK l \in LogicalSlices : /\ l = virtualSlice[<<t, victim, p>>]
                                 /\ logicalSlice[l] = <<t, victim, p>>
                                 /\ l # lsa
  <2>1. /\ virtualSlice[<<t, victim, p>>] # NONE
        /\ logicalSlice[virtualSlice[<<t, victim, p>>]] = <<t, victim, p>>
    BY <1>2 DEF NextValidPage, ValidPages
  <2>2. <<t, victim, p>> \in Vsas
    BY <1>1 DEF Vsas
  <2> QED
    BY <1>1, <2>1, <2>2, VsaAssumption DEF CallConsistent, TypeOK
<1>5. \A x \in Blocks :
        IsOn(s, x) => /\ x # victim
                      /\ x # currentBlock[t]
                      /\ AtMostOnce(s, x)
                      /\ ~ IsFull(t, x)
  BY <1>1, PagesAssumption DEF FreeBlocksErased, InCollection, IsFull
<1>6. /\ b \in Blocks
      /\ b # victim
      /\ ~ IsFull(t, b)
      /\ f \in Seq(Blocks)
      /\ \A x \in Blocks : IsOn(f, x) => /\ IsOn(s, x)
                                         /\ AtMostOnce(f, x)
                                         /\ x # b
  <2> DEFINE a == FreeAfterLeaving
             h == BlockAfterLeaving
  <2>1. /\ a \in Seq(Blocks)
        /\ h \in Blocks
        /\ h # victim
        /\ \A x \in Blocks : IsOn(a, x) => /\ IsOn(s, x)
                                           /\ AtMostOnce(a, x)
                                           /\ x # h
    <3>1. CASE LeavesVictim
      <4>1. s # <<>>
        BY <1>1, <3>1 DEF NoRoomForCopy, NoFreeBlockForGc
      <4>2. a = Tail(s) /\ h = Head(s)
        BY <3>1 DEF FreeAfterLeaving, BlockAfterLeaving
      <4> QED
        BY <1>1, <1>5, <4>1, <4>2, TailFacts
    <3>2. CASE ~ LeavesVictim
      <4>1. a = s /\ h = currentBlock[t] /\ h # victim
        BY <3>2 DEF FreeAfterLeaving, BlockAfterLeaving, LeavesVictim
      <4> QED
        BY <1>1, <1>5, <4>1 DEF TypeOK
    <3> QED
      BY <3>1, <3>2
  <2>2. opens => a # <<>>
    BY <1>1 DEF NoRoomForCopy
  <2> HIDE DEF a, h
  <2>3. CASE opens
    <3>1. f = Tail(a) /\ b = Head(a)
      BY <2>3 DEF a
    <3>2. /\ b \in Blocks
          /\ f \in Seq(Blocks)
          /\ IsOn(a, b)
          /\ AtMostOnce(a, b) => ~ IsOn(f, b)
          /\ \A x : IsOn(f, x) => IsOn(a, x)
          /\ \A x : AtMostOnce(a, x) => AtMostOnce(f, x)
      BY <2>1, <2>2, <2>3, <3>1, TailFacts
    <3>3. b # victim /\ ~ IsFull(t, b) /\ AtMostOnce(a, b)
      BY <1>5, <2>1, <3>2
    <3> QED
      BY <2>1, <3>2, <3>3
  <2>4. CASE ~ opens
    <3>1. f = a /\ b = h
      BY <2>4 DEF a, h
    <3>2. ~ IsFull(t, b)
      BY <2>4, <3>1 DEF h
    <3> QED
      BY <2>1, <3>1, <3>2
  <2> QED
    BY <2>3, <2>4
<1> HIDE DEF s, f, b, opens
<1>7. /\ ~ InCollection(t, b)
      /\ \A d \in Dies, c \in Blocks, q \in Pages :
           logicalSlice[l] = <<d, c, q>> => d = t /\ InCollection(d, c)
  BY <1>1, <1>4, <1>6 DEF InCollection
<1>8. freeList' \in [Dies -> Seq(Blocks)]
  BY <1>1, <1>3, <1>6 DEF TypeOK
<1>9. ASSUME NEW d \in Dies, NEW x \in Blocks, IsOn(freeList'[d], x)
      PROVE  /\ IsOn(freeList[d], x)
             /\ AtMostOnce(freeList'[d], x)
             /\ d = t => x # b
  <2>1. CASE d = t
    <3>1. freeList'[d] = f /\ freeList[d] = s
      BY <1>3, <2>1 DEF TypeOK, s
    <3> QED
      BY <1>6, <1>9, <3>1
  <2>2. CASE d # t
    <3>1. freeList'[d] = freeList[d]
      BY <1>3, <2>2 DEF TypeOK
    <3> QED
      BY <1>9, <2>2, <3>1 DEF FreeBlocksErased
  <2> QED
    BY <2>1, <2>2
<1>10. \A d \in Dies, x \in Blocks : InCollection(d, x)' <=> InCollection(d, x)
  BY <1>1 DEF InCollection
<1>11. PlaceSlice(l, t, b)
  BY <1>2, <1>4
<1>12. /\ logicalSlice' \in [LogicalSlices -> Vsas \cup {NONE}]
       /\ virtualSlice' \in [Vsas -> LogicalSlices \cup {NONE}]
       /\ currentPage'  \in [DieBlocks -> 0 .. SLICES_PER_BLOCK]
       /\ currentBlock' \in [Dies -> Blocks]
       /\ MapsAgree'
       /\ CountsBound'
       /\ VictimListsExact'
       /\ FreeBlocksErased'
       /\ InvalidCntExact'
       /\ CurrentLive'
  <2>1. /\ t \in Dies /\ b \in Blocks
        /\ ~ IsFull(t, b)
        /\ UNCHANGED <<invalidSliceCnt, victimList>>
        /\ currentBlock' = [currentBlock EXCEPT ![t] = b]
    BY <1>1, <1>3, <1>6
  <2>2. \A d \in Dies, x \in Blocks :
          IsOn(freeList'[d], x) => /\ IsOn(freeList[d], x)
                                   /\ AtMostOnce(freeList'[d], x)
                                   /\ d = t => x # b
    BY <1>9
  <2> HIDE DEF t, IInv
  <2> QED
    BY <1>7, <1>10, <1>11, <2>1, <2>2, PlaceStep, Zenon
<1>13. TypeOK'
  BY <1>1, <1>8, <1>12 DEF TypeOK
<1>14. CallConsistent'
  <2>1. lsa \in LogicalSlices /\ logicalSlice[lsa] = NONE
    BY <1>1 DEF CallConsistent
  <2>2. logicalSlice'[lsa] = NONE
    BY <1>4, <1>11, <2>1 DEF PlaceSlice, TypeOK
  <2>3. currentBlock'[t] # victim
    BY <1>1, <1>3, <1>6 DEF TypeOK
  <2> QED
    BY <1>1, <2>1, <2>2, <2>3 DEF CallConsistent
<1> QED
  BY <1>2, <1>4, <1>6, <1>11, <1>12, <1>13, <1>14

\* A copy takes one live page of the victim, and adds none.
LEMMA CopyLeavesLess ==
  ASSUME IInv, CopyValidPage
  PROVE  /\ Cardinality(LivePages(targetDie, victim)) \in Nat
         /\ Cardinality(LivePages(targetDie, victim)') \in Nat
         /\ Cardinality(LivePages(targetDie, victim)') + 1
              <= Cardinality(LivePages(targetDie, victim))
<1> DEFINE t == targetDie
           w == victim
           live == LivePages(t, w)
<1>1. /\ UNCHANGED <<targetDie, victim>> /\ t \in Dies /\ w \in Blocks
  BY DEF CopyValidPage, MustCopy, IInv, TypeOK, CallConsistent
<1>2. PICK p \in Pages, l \in LogicalSlices, b \in Blocks :
        /\ NextValidPage(p)
        /\ l = virtualSlice[<<t, w, p>>]
        /\ b # w
        /\ PlaceSlice(l, t, b)
  BY CopyValidPageStep
<1>3. <<t, w, p>> \in Vsas /\ logicalSlice[l] = <<t, w, p>>
  BY <1>1, <1>2 DEF Vsas, NextValidPage, ValidPages
<1>4. logicalSlice' = [logicalSlice EXCEPT ![l] = <<t, b, currentPage[<<t, b>>]>>]
  BY <1>2 DEF PlaceSlice
<1>5. live \in SUBSET Pages /\ p \in live
  BY <1>3 DEF LivePages
<1>6. ASSUME NEW q \in Pages, NEW k \in LogicalSlices,
             logicalSlice'[k] = <<t, w, q>>
      PROVE  q \in live \ {p}
  <2>1. k # l
    BY <1>2, <1>4, <1>6 DEF IInv, TypeOK
  <2>2. logicalSlice[k] = <<t, w, q>>
    BY <1>4, <1>6, <2>1 DEF IInv, TypeOK
  <2>3. q # p
    <3>1. SUFFICES ASSUME q = p PROVE FALSE
      OBVIOUS
    <3>2. <<t, w, p>> # NONE
      BY <1>3, VsaAssumption
    <3> QED
      BY <1>3, <2>1, <2>2, <3>1, <3>2 DEF IInv, MapsAgree
  <2> QED
    BY <2>2, <2>3 DEF LivePages
<1>7. LivePages(t, w)' =
        {q \in Pages : \E k \in LogicalSlices : logicalSlice'[k] = <<t, w, q>>}
  BY <1>1 DEF LivePages
<1>8. LivePages(t, w)' \in SUBSET (live \ {p})
  BY <1>6, <1>7
<1>9. live \ {p} \in SUBSET Pages /\ LivePages(t, w)' \in SUBSET Pages
  BY <1>5, <1>8
<1>10. /\ Cardinality(LivePages(t, w)') <= Cardinality(live \ {p})
       /\ Cardinality(live \ {p}) = Cardinality(live) - 1
  BY <1>5, <1>8, <1>9, FewerPages, OnePageLess
<1> QED
  BY <1>5, <1>9, <1>10, PageSets

\* When MustCopy is over no logical slice lives in the victim: each has been
\* copied, or all its pages are counted superseded.
LEMMA VictimDead ==
  ASSUME IInv, pc = "collect", ~ MustCopy
  PROVE  \A l \in LogicalSlices, p \in Pages :
           logicalSlice[l] # <<targetDie, victim, p>>
<1> USE DEF IInv
<1> SUFFICES ASSUME NEW l \in LogicalSlices, NEW p \in Pages,
                    logicalSlice[l] = <<targetDie, victim, p>>
             PROVE  FALSE
  OBVIOUS
<1>1. targetDie \in Dies /\ victim \in Blocks
  BY DEF TypeOK, CallConsistent
<1>2. <<targetDie, victim, p>> \in Vsas /\ <<targetDie, victim, p>> # NONE
  BY <1>1, VsaAssumption DEF Vsas
<1>3. virtualSlice[<<targetDie, victim, p>>] = l /\ l # NONE
  BY <1>2, SlicesAssumption DEF MapsAgree
<1>4. p \in ValidPages(targetDie, victim)
  BY <1>3 DEF ValidPages
<1>5. invalidSliceCnt[<<targetDie, victim>>] = SLICES_PER_BLOCK
  BY <1>4 DEF MustCopy
<1>6. /\ LivePages(targetDie, victim) \in SUBSET Pages
      /\ p \in LivePages(targetDie, victim)
  BY DEF LivePages
<1>7. /\ SLICES_PER_BLOCK + Cardinality(LivePages(targetDie, victim))
           <= currentPage[<<targetDie, victim>>]
      /\ currentPage[<<targetDie, victim>>] \in 0 .. SLICES_PER_BLOCK
  BY <1>1, <1>5 DEF CountsBound, TypeOK, DieBlocks
<1>8. /\ Cardinality(LivePages(targetDie, victim)) \in Nat
      /\ Cardinality(LivePages(targetDie, victim)) # 0
  BY <1>6, PageSets
<1> QED
  BY <1>7, <1>8, PagesAssumption

\* EraseBlock returns the victim to the free list of its die.
LEMMA EraseBlockStep ==
  ASSUME IInv, EraseBlock
  PROVE  IInv'
<1> USE DEF IInv
<1> DEFINE t == targetDie
           w == victim
           s == freeList[t]
<1>1. /\ pc = "collect" /\ ~ MustCopy /\ pc' = "retry"
      /\ t \in Dies /\ w \in Blocks /\ s \in Seq(Blocks)
      /\ victim' = NONE
      /\ UNCHANGED <<logicalSlice, currentBlock, victimList, targetDie, lsa>>
  BY DEF EraseBlock, FinishCollection, TypeOK, CallConsistent
<1>2. /\ currentPage' = [currentPage EXCEPT ![<<t, w>>] = 0]
      /\ invalidSliceCnt' = [invalidSliceCnt EXCEPT ![<<t, w>>] = 0]
      /\ freeList' = [freeList EXCEPT ![t] = Append(s, w)]
      /\ virtualSlice' = [v \in Vsas |-> IF v[1] = t /\ v[2] = w
                                         THEN NONE ELSE virtualSlice[v]]
  BY DEF EraseBlock, FinishCollection, ClearCounts, FreeVictim, ClearOwners
<1>3. \A l \in LogicalSlices, p \in Pages : logicalSlice[l] # <<t, w, p>>
  BY <1>1, VictimDead
<1>4. /\ \A d \in Dies, x \in Blocks : ~ InCollection(d, x)'
      /\ \A d \in Dies, x \in Blocks : InCollection(d, x) <=> d = t /\ x = w
  BY <1>1 DEF InCollection
<1>5. ~ IsOn(s, w)
  BY <1>1, <1>4 DEF FreeBlocksErased
<1> HIDE DEF t, w, s
<1>6. /\ Append(s, w) \in Seq(Blocks)
      /\ \A x : IsOn(Append(s, w), x) <=> IsOn(s, x) \/ x = w
      /\ \A x : AtMostOnce(s, x) /\ (x = w => ~ IsOn(s, x))
                  => AtMostOnce(Append(s, w), x)
  BY <1>1, AppendFacts
<1>7. \A d \in Dies, x \in Blocks :
        /\ currentPage'[<<d, x>>] = IF d = t /\ x = w THEN 0
                                    ELSE currentPage[<<d, x>>]
        /\ invalidSliceCnt'[<<d, x>>] = IF d = t /\ x = w THEN 0
                                        ELSE invalidSliceCnt[<<d, x>>]
  BY <1>1, <1>2 DEF TypeOK, DieBlocks
<1>8. currentBlock[t] # w
  <2>1. SUFFICES ASSUME currentBlock[t] = w PROVE FALSE
    OBVIOUS
  <2>2. currentPage[<<t, w>>] = SLICES_PER_BLOCK
    BY <1>1, <2>1 DEF CallConsistent, IsFull, t, w
  <2>3. invalidSliceCnt[<<t, w>>]
          = currentPage[<<t, w>>] - Cardinality(LivePages(t, w))
    BY <1>1, <2>1 DEF InvalidCntExact
  <2>4. Cardinality(LivePages(t, w)) = 0
    BY <1>3, FS_EmptySet DEF LivePages
  <2>5. invalidSliceCnt[<<t, w>>] < SLICES_PER_BLOCK
    BY <1>1, <2>1 DEF CurrentLive
  <2> QED
    BY <2>2, <2>3, <2>4, <2>5, PagesAssumption
<1>9. TypeOK'
  <2>1. 0 \in 0 .. SLICES_PER_BLOCK
    BY PagesAssumption
  <2>2. /\ currentPage' \in [DieBlocks -> 0 .. SLICES_PER_BLOCK]
        /\ invalidSliceCnt' \in [DieBlocks -> 0 .. SLICES_PER_BLOCK]
    BY <1>2, <2>1 DEF TypeOK
  <2>3. virtualSlice' \in [Vsas -> LogicalSlices \cup {NONE}]
    BY <1>2 DEF TypeOK
  <2>4. freeList' \in [Dies -> Seq(Blocks)]
    BY <1>1, <1>2, <1>6 DEF TypeOK
  <2> QED
    BY <1>1, <2>2, <2>3, <2>4 DEF TypeOK
<1>10. MapsAgree'
  <2>1. SUFFICES ASSUME NEW l \in LogicalSlices, logicalSlice[l] # NONE
                 PROVE  /\ virtualSlice'[logicalSlice[l]] = l
                        /\ logicalSlice[l][3] <
                             currentPage'[<<logicalSlice[l][1], logicalSlice[l][2]>>]
    BY <1>1 DEF MapsAgree
  <2>2. PICK d \in Dies, b \in Blocks, p \in Pages :
          /\ logicalSlice[l] = <<d, b, p>>
          /\ virtualSlice[<<d, b, p>>] = l
          /\ p < currentPage[<<d, b>>]
    BY <2>1, MappedSlice
  <2>3. ~ (d = t /\ b = w)
    BY <1>3, <2>2
  <2>4. virtualSlice'[<<d, b, p>>] = l
    <3>1. <<d, b, p>> \in Vsas
      BY DEF Vsas
    <3> QED
      BY <1>2, <2>2, <2>3, <3>1
  <2> QED
    BY <1>7, <2>2, <2>3, <2>4
<1>11. CountsBound' /\ InvalidCntExact'
  <2>0. \A d \in Dies, b \in Blocks : LivePages(d, b)' = LivePages(d, b)
    BY <1>1 DEF LivePages
  <2>1. SUFFICES ASSUME NEW d \in Dies, NEW b \in Blocks
                 PROVE  /\ invalidSliceCnt'[<<d, b>>] + Cardinality(LivePages(d, b))
                             <= currentPage'[<<d, b>>]
                        /\ invalidSliceCnt'[<<d, b>>]
                             = currentPage'[<<d, b>>] - Cardinality(LivePages(d, b))
    BY <2>0 DEF CountsBound, InvalidCntExact
  <2>2. CASE d = t /\ b = w
    <3>1. LivePages(d, b) = {}
      BY <1>3, <2>2 DEF LivePages
    <3>2. Cardinality(LivePages(d, b)) = 0
      BY <3>1, FS_EmptySet
    <3> QED
      BY <1>7, <2>2, <3>2
  <2>3. CASE ~ (d = t /\ b = w)
    BY <1>4, <1>7, <2>3 DEF CountsBound, InvalidCntExact
  <2> QED
    BY <2>2, <2>3
<1>12. VictimListsExact'
  <2>1. SUFFICES ASSUME NEW d \in Dies, NEW b \in Blocks,
                        NEW c \in 1 .. SLICES_PER_BLOCK
                 PROVE  /\ IsOn(victimList[<<d, c>>], b)
                             <=> invalidSliceCnt'[<<d, b>>] = c
                        /\ AtMostOnce(victimList[<<d, c>>], b)
    BY <1>1, <1>4 DEF VictimListsExact
  <2>2. /\ IsOn(victimList[<<d, c>>], b)
             <=> /\ invalidSliceCnt[<<d, b>>] = c
                 /\ ~ (d = t /\ b = w)
        /\ AtMostOnce(victimList[<<d, c>>], b)
    BY <1>4 DEF VictimListsExact
  <2> QED
    BY <1>7, <2>2
<1>13. FreeBlocksErased'
  <2>1. SUFFICES ASSUME NEW d \in Dies, NEW x \in Blocks, IsOn(freeList'[d], x)
                 PROVE  /\ AtMostOnce(freeList'[d], x)
                        /\ currentPage'[<<d, x>>] = 0
                        /\ \A p \in Pages : virtualSlice'[<<d, x, p>>] = NONE
                        /\ x # currentBlock[d]
    BY <1>1, <1>4 DEF FreeBlocksErased
  <2>2. freeList'[d] = IF d = t THEN Append(s, w) ELSE freeList[d]
    BY <1>1, <1>2 DEF TypeOK
  <2>3. IsOn(freeList[d], x) \/ (d = t /\ x = w)
    BY <1>6, <2>1, <2>2 DEF s
  <2>4. IsOn(freeList[d], x) =>
          /\ AtMostOnce(freeList[d], x)
          /\ currentPage[<<d, x>>] = 0
          /\ \A p \in Pages : virtualSlice[<<d, x, p>>] = NONE
          /\ x # currentBlock[d]
    BY DEF FreeBlocksErased
  <2>5. AtMostOnce(freeList'[d], x)
    <3>1. CASE d = t
      <4>1. freeList[d] = s
        BY <3>1 DEF s
      <4>2. AtMostOnce(s, x)
        <5>1. CASE IsOn(s, x)
          BY <2>4, <4>1, <5>1
        <5>2. CASE ~ IsOn(s, x)
          BY <5>2 DEF IsOn, AtMostOnce
        <5> QED
          BY <5>1, <5>2
      <4> QED
        BY <1>5, <1>6, <2>2, <3>1, <4>2
    <3>2. CASE d # t
      BY <2>2, <2>3, <2>4, <3>2
    <3> QED
      BY <3>1, <3>2
  <2>6. currentPage'[<<d, x>>] = 0 /\ x # currentBlock[d]
    BY <1>7, <1>8, <2>3, <2>4
  <2>7. ASSUME NEW p \in Pages PROVE virtualSlice'[<<d, x, p>>] = NONE
    <3>1. <<d, x, p>> \in Vsas
      BY DEF Vsas
    <3> QED
      BY <1>2, <2>3, <2>4, <3>1
  <2> QED
    BY <2>5, <2>6, <2>7
<1>14. CurrentLive'
  <2>1. SUFFICES ASSUME NEW d \in Dies
                 PROVE  invalidSliceCnt'[<<d, currentBlock[d]>>] < SLICES_PER_BLOCK
    BY <1>1 DEF CurrentLive
  <2>2. currentBlock[d] \in Blocks
    BY DEF TypeOK
  <2> QED
    BY <1>7, <1>8, <2>2 DEF CurrentLive
<1>15. CallConsistent'
  BY <1>1 DEF CallConsistent
<1> QED
  BY <1>9, <1>10, <1>11, <1>12, <1>13, <1>14, <1>15

-----------------------------------------------------------------------------
(* The theorems. *)

\* Every reachable state satisfies the inductive invariant: AddrTransWrite,
\* FindFreeVirtualSlice, GarbageCollection and EraseBlock keep the slice map,
\* the counts and the block lists consistent, for a device of any size.
THEOREM Inductive == CurrentStaysLive /\ Spec => []IInv
<1> SUFFICES ASSUME CurrentStaysLive PROVE Spec => []IInv
  OBVIOUS
<1>1. Init => IInv
  BY InitIInv
<1>2. IInv /\ [Next]_vars => IInv'
  <2> SUFFICES ASSUME IInv, [Next]_vars PROVE IInv'
    OBVIOUS
  <2>1. ASSUME NEW l \in LogicalSlices, AddrTransWrite(l) PROVE IInv'
    BY <2>1, AddrTransWriteStep
  <2>2. CASE UseCurrentBlock
    BY <2>2, UseCurrentBlockStep
  <2>3. CASE OpenFreeBlock
    BY <2>3, OpenFreeBlockStep
  <2>4. CASE SelectVictim
    BY <2>4, SelectVictimStep
  <2>5. CASE CopyValidPage
    BY <2>5, CopyValidPageStep
  <2>6. CASE EraseBlock
    BY <2>6, EraseBlockStep
  <2>7. CASE UNCHANGED vars
    <3>1. TypeOK' /\ MapsAgree'
      BY <2>7 DEF vars, IInv, TypeOK, MapsAgree
    <3>2. CountsBound' /\ InvalidCntExact'
      BY <2>7 DEF vars, IInv, CountsBound, InvalidCntExact, LivePages, InCollection
    <3>3. VictimListsExact' /\ FreeBlocksErased'
      BY <2>7 DEF vars, IInv, VictimListsExact, FreeBlocksErased, InCollection
    <3>4. CurrentLive' /\ CallConsistent'
      BY <2>7 DEF vars, IInv, CurrentLive, CallConsistent, IsFull
    <3> QED
      BY <3>1, <3>2, <3>3, <3>4 DEF IInv
  <2> QED
    BY <2>1, <2>2, <2>3, <2>4, <2>5, <2>6, <2>7 DEF Next, Internal
<1> QED
  BY <1>1, <1>2, PTL DEF Spec

\* Every variable keeps its type; in particular no block is filled past its
\* last page and no count exceeds the pages of a block.
THEOREM TypeCorrect == CurrentStaysLive /\ Spec => []TypeOK
<1>1. IInv => TypeOK
  BY DEF IInv
<1> QED
  BY <1>1, Inductive, PTL

\* The forward and the reverse slice map agree, so no two logical slices ever
\* share a flash page and no live page is erased or programmed again.
THEOREM MapsAlwaysAgree == CurrentStaysLive /\ Spec => []MapsAgree
<1>1. IInv => MapsAgree
  BY DEF IInv
<1> QED
  BY <1>1, Inductive, PTL

\* The count GarbageCollection chooses its victim by, and skips copying by, is
\* the number of superseded pages of the block.
THEOREM InvalidCountsAlwaysExact == CurrentStaysLive /\ Spec => []InvalidCntExact
<1>1. IInv => InvalidCntExact
  BY DEF IInv
<1> QED
  BY <1>1, Inductive, PTL

\* The victim lists hold each block exactly under its count of invalid pages.
THEOREM VictimListsAlwaysExact == CurrentStaysLive /\ Spec => []VictimListsExact
<1>1. IInv => VictimListsExact
  BY DEF IInv
<1> QED
  BY <1>1, Inductive, PTL

\* A block handed out by GetFromFbList is erased, empty and in no other use.
THEOREM FreeBlocksAlwaysErased == CurrentStaysLive /\ Spec => []FreeBlocksErased
<1>1. IInv => FreeBlocksErased
  BY DEF IInv
<1> QED
  BY <1>1, Inductive, PTL

\* EraseBlock never destroys a live slice, and a call of AddrTransWrite leaves
\* no slice without a home but the one it is writing.
THEOREM ErasesLoseNothing == CurrentStaysLive /\ Spec => EraseLosesNothing
<1>1. IInv /\ [Next]_vars => [\A l \in LogicalSlices : KeepsHome(l)]_vars
  <2> SUFFICES ASSUME IInv, Next, NEW l \in LogicalSlices
               PROVE  KeepsHome(l)
    OBVIOUS
  <2>1. TypeOK
    BY DEF IInv
  <2>2. ASSUME NEW k \in LogicalSlices, AddrTransWrite(k)
        PROVE  KeepsHome(l)
    BY <2>1, <2>2 DEF AddrTransWrite, InvalidateOldVsa, TypeOK, KeepsHome
  <2>3. ASSUME NEW k \in LogicalSlices, NEW d \in Dies, NEW b \in Blocks,
               ~ IsFull(d, b), PlaceSlice(k, d, b), pc' # "retry"
        PROVE  KeepsHome(l)
    <3>1. logicalSlice'[k] # NONE
      <4>1. <<d, b, currentPage[<<d, b>>]>> \in Vsas
        BY <2>1, <2>3, PagesAssumption
        DEF TypeOK, IsFull, DieBlocks, Vsas, Pages
      <4> QED
        BY <2>1, <2>3, <4>1, VsaAssumption DEF PlaceSlice, TypeOK
    <3> QED
      BY <2>1, <2>3, <3>1 DEF PlaceSlice, TypeOK, KeepsHome
  <2>4. CASE UseCurrentBlock
    <3>1. /\ lsa \in LogicalSlices
          /\ targetDie \in Dies /\ currentBlock[targetDie] \in Blocks
          /\ ~ IsFull(targetDie, currentBlock[targetDie])
          /\ PlaceSlice(lsa, targetDie, currentBlock[targetDie])
          /\ pc' # "retry"
      BY <2>4 DEF UseCurrentBlock, FinishWrite, IInv, TypeOK, CallConsistent
    <3> QED
      BY <2>3, <3>1
  <2>5. CASE OpenFreeBlock
    <3>1. PICK b : /\ PlaceSlice(lsa, targetDie, b)
                   /\ b = Head(freeList[targetDie])
                   /\ pc' # "retry"
                   /\ lsa \in LogicalSlices
                   /\ ~ (Len(freeList[targetDie]) <= 1)
      BY <2>5 DEF OpenFreeBlock, FinishWrite, IInv, CallConsistent, NoFreeBlock,
                  RESERVED_FREE_BLOCK_COUNT
    <3>2. targetDie \in Dies /\ freeList[targetDie] \in Seq(Blocks)
      BY <2>1 DEF TypeOK
    <3>3. /\ b \in Blocks
          /\ IsOn(freeList[targetDie], b)
      BY <3>1, <3>2, EmptySeq, TailFacts
    <3>4. ~ IsFull(targetDie, b)
      BY <3>2, <3>3, PagesAssumption DEF IInv, FreeBlocksErased, IsFull
    <3> QED
      BY <2>3, <3>1, <3>2, <3>3, <3>4
  <2>6. CASE SelectVictim
    BY <2>6 DEF SelectVictim, KeepsHome
  <2>7. CASE CopyValidPage
    <3>1. \E k \in LogicalSlices, b \in Blocks :
            ~ IsFull(targetDie, b) /\ PlaceSlice(k, targetDie, b)
      BY <2>7, CopyValidPageStep
    <3>2. targetDie \in Dies /\ pc' # "retry"
      BY <2>1, <2>7 DEF CopyValidPage, MustCopy, TypeOK
    <3> QED
      BY <2>3, <3>1, <3>2
  <2>8. CASE EraseBlock
    <3>1. /\ pc = "collect" /\ ~ MustCopy
          /\ logicalSlice' = logicalSlice
      BY <2>8 DEF EraseBlock, FinishCollection
    <3>2. \A p \in Pages : logicalSlice[l] # <<targetDie, victim, p>>
      BY <3>1, VictimDead
    <3>3. ASSUME logicalSlice[l] # NONE
          PROVE  logicalSlice[l][1] # targetDie \/ logicalSlice[l][2] # victim
      <4>1. PICK d \in Dies, b \in Blocks, p \in Pages :
              logicalSlice[l] = <<d, b, p>>
        BY <2>1, <3>3 DEF TypeOK, Vsas
      <4>2. d # targetDie \/ b # victim
        BY <3>2, <4>1
      <4>3. logicalSlice[l][1] = d /\ logicalSlice[l][2] = b
        BY <4>1
      <4> QED
        BY <4>2, <4>3
    <3> QED
      BY <3>1, <3>3 DEF KeepsHome
  <2> QED
    BY <2>2, <2>4, <2>5, <2>6, <2>7, <2>8 DEF Next, Internal
<1> QED
  BY <1>1, Inductive, PTL DEF Spec, EraseLosesNothing

-----------------------------------------------------------------------------
(* Blocks are neither lost nor handed out too early.                         *)

\* A block of die d has a place: it is being filled, free, or full.
HasPlace(d, x) ==
  \/ x = currentBlock[d]
  \/ IsOn(freeList[d], x)
  \/ IsFull(d, x)

\* Opening blocks from the head of the free list of die t and filling the block
\* b that is current afterwards strands none.
LEMMA FillingStrandsNone ==
  ASSUME TypeOK, NoBlockStranded, NEW t \in Dies, NEW b \in Blocks, NEW l,
         PlaceSlice(l, t, b), currentBlock' = [currentBlock EXCEPT ![t] = b],
         NEW f, freeList' = [freeList EXCEPT ![t] = f],
         \A x \in Blocks : HasPlace(t, x) => \/ x = b
                                             \/ IsOn(f, x)
                                             \/ IsFull(t, x)
  PROVE  NoBlockStranded'
<1> SUFFICES ASSUME NEW d \in Dies, NEW x \in Blocks PROVE HasPlace(d, x)'
  BY DEF NoBlockStranded, HasPlace
<1>1. HasPlace(d, x) /\ <<d, x>> \in DieBlocks
  BY DEF NoBlockStranded, HasPlace, DieBlocks
<1>2. currentPage' = [currentPage EXCEPT ![<<t, b>>] = @ + 1]
  BY DEF PlaceSlice
<1>3. CASE d = t /\ x = b
  BY <1>3 DEF HasPlace, TypeOK
<1>4. CASE d = t /\ x # b
  <2>1. IsFull(d, x)' <=> IsFull(d, x)
    BY <1>1, <1>2, <1>4 DEF IsFull, TypeOK
  <2>2. freeList'[d] = f
    BY <1>4 DEF TypeOK
  <2> QED
    BY <1>1, <1>4, <2>1, <2>2 DEF HasPlace
<1>5. CASE d # t
  <2>1. IsFull(d, x)' <=> IsFull(d, x)
    BY <1>1, <1>2, <1>5 DEF IsFull, TypeOK
  <2>2. freeList'[d] = freeList[d] /\ currentBlock'[d] = currentBlock[d]
    BY <1>5 DEF TypeOK
  <2> QED
    BY <1>1, <2>1, <2>2 DEF HasPlace
<1> QED
  BY <1>3, <1>4, <1>5

\* No step of AddrTransWrite strands a block.
LEMMA StrandsNone ==
  ASSUME IInv, NoBlockStranded, [Next]_vars
  PROVE  NoBlockStranded'
<1> DEFINE t == targetDie
           s == freeList[t]
<1>1. TypeOK /\ t \in Dies /\ s \in Seq(Blocks) /\ currentBlock[t] \in Blocks
  BY DEF IInv, TypeOK
<1>2. ASSUME NEW l \in LogicalSlices, AddrTransWrite(l)
      PROVE  NoBlockStranded'
  BY <1>2 DEF AddrTransWrite, NoBlockStranded, IsFull
<1>3. CASE UseCurrentBlock
  <2>1. /\ PlaceSlice(lsa, t, currentBlock[t])
        /\ UNCHANGED <<currentBlock, freeList>>
    BY <1>3 DEF UseCurrentBlock, FinishWrite
  <2>2. /\ currentBlock' = [currentBlock EXCEPT ![t] = currentBlock[t]]
        /\ freeList' = [freeList EXCEPT ![t] = s]
    BY <1>1, <2>1 DEF TypeOK
  <2>3. \A x \in Blocks : HasPlace(t, x) => \/ x = currentBlock[t]
                                            \/ IsOn(s, x)
                                            \/ IsFull(t, x)
    BY DEF HasPlace
  <2> HIDE DEF t, s
  <2> QED
    BY <1>1, <2>1, <2>2, <2>3, FillingStrandsNone
<1>4. CASE OpenFreeBlock
  <2>1. s # <<>>
    <3>1. ~ (Len(s) <= 1)
      BY <1>4 DEF OpenFreeBlock, NoFreeBlock, RESERVED_FREE_BLOCK_COUNT
    <3> QED
      BY <1>1, <3>1, EmptySeq
  <2>2. /\ Head(s) \in Blocks
        /\ \A x : x # Head(s) /\ IsOn(s, x) => IsOn(Tail(s), x)
    BY <1>1, <2>1, TailFacts
  <2>3. /\ PlaceSlice(lsa, t, Head(s))
        /\ currentBlock' = [currentBlock EXCEPT ![t] = Head(s)]
        /\ freeList' = [freeList EXCEPT ![t] = Tail(s)]
        /\ IsFull(t, currentBlock[t])
    BY <1>4 DEF OpenFreeBlock, FinishWrite
  <2>4. \A x \in Blocks : HasPlace(t, x) => \/ x = Head(s)
                                            \/ IsOn(Tail(s), x)
                                            \/ IsFull(t, x)
    BY <2>2, <2>3 DEF HasPlace
  <2> HIDE DEF t, s
  <2> QED
    BY <1>1, <2>2, <2>3, <2>4, FillingStrandsNone
<1>5. CASE SelectVictim
  BY <1>5 DEF SelectVictim, NoBlockStranded, IsFull
<1>6. CASE CopyValidPage
  <2> DEFINE a     == FreeAfterLeaving
             h     == BlockAfterLeaving
             opens == IsFull(t, h)
             f     == IF opens THEN Tail(a) ELSE a
             b     == IF opens THEN Head(a) ELSE h
  <2>1. /\ ~ NoRoomForCopy /\ MustCopy
        /\ freeList' = [freeList EXCEPT ![t] = f]
        /\ currentBlock' = [currentBlock EXCEPT ![t] = b]
        /\ \E l : PlaceSlice(l, t, b)
    BY <1>6 DEF CopyValidPage
  <2>2. currentBlock[t] = victim => IsFull(t, victim)
    BY <2>1 DEF MustCopy, IInv, CallConsistent
  <2>3. /\ a \in Seq(Blocks) /\ h \in Blocks
        /\ \A x \in Blocks : HasPlace(t, x) => \/ x = h
                                               \/ IsOn(a, x)
                                               \/ IsFull(t, x)
    <3>1. CASE LeavesVictim
      <4>1. s # <<>> /\ a = Tail(s) /\ h = Head(s)
        BY <2>1, <3>1
        DEF NoRoomForCopy, NoFreeBlockForGc, FreeAfterLeaving, BlockAfterLeaving
      <4>2. /\ Head(s) \in Blocks /\ Tail(s) \in Seq(Blocks)
            /\ \A x : x # Head(s) /\ IsOn(s, x) => IsOn(Tail(s), x)
        BY <1>1, <4>1, TailFacts
      <4> QED
        BY <2>2, <3>1, <4>1, <4>2 DEF HasPlace, LeavesVictim
    <3>2. CASE ~ LeavesVictim
      BY <1>1, <3>2 DEF FreeAfterLeaving, BlockAfterLeaving, HasPlace
    <3> QED
      BY <3>1, <3>2
  <2>4. opens => a # <<>>
    BY <2>1 DEF NoRoomForCopy
  <2> HIDE DEF a, h
  <2>5. /\ b \in Blocks
        /\ \A x \in Blocks : HasPlace(t, x) => \/ x = b
                                               \/ IsOn(f, x)
                                               \/ IsFull(t, x)
    <3>1. CASE opens
      <4>1. /\ Head(a) \in Blocks
            /\ \A x : x # Head(a) /\ IsOn(a, x) => IsOn(Tail(a), x)
        BY <2>3, <2>4, <3>1, TailFacts
      <4> QED
        BY <2>3, <3>1, <4>1
    <3>2. CASE ~ opens
      BY <2>3, <3>2
    <3> QED
      BY <3>1, <3>2
  <2> HIDE DEF t, f, b
  <2>6. PICK l : PlaceSlice(l, t, b)
    BY <2>1
  <2> QED
    BY <1>1, <2>1, <2>5, <2>6, FillingStrandsNone
<1>7. CASE EraseBlock
  <2>1. /\ currentPage' = [currentPage EXCEPT ![<<t, victim>>] = 0]
        /\ freeList' = [freeList EXCEPT ![t] = Append(s, victim)]
        /\ UNCHANGED currentBlock /\ victim \in Blocks
    BY <1>7 DEF EraseBlock, FinishCollection, FreeVictim, IInv, CallConsistent
  <2>2. \A x : IsOn(Append(s, victim), x) <=> IsOn(s, x) \/ x = victim
    BY <1>1, <2>1, AppendFacts
  <2> SUFFICES ASSUME NEW d \in Dies, NEW x \in Blocks PROVE HasPlace(d, x)'
    BY DEF NoBlockStranded, HasPlace
  <2>3. HasPlace(d, x) /\ <<d, x>> \in DieBlocks
    BY DEF NoBlockStranded, HasPlace, DieBlocks
  <2>4. CASE d = t /\ x = victim
    BY <1>1, <2>1, <2>2, <2>4 DEF HasPlace, TypeOK
  <2>5. CASE ~ (d = t /\ x = victim)
    <3>1. IsFull(d, x)' <=> IsFull(d, x)
      BY <1>1, <2>1, <2>3, <2>5 DEF IsFull, TypeOK
    <3>2. IsOn(freeList[d], x) => IsOn(freeList'[d], x)
      BY <1>1, <2>1, <2>2 DEF TypeOK
    <3> QED
      BY <2>1, <2>3, <3>1, <3>2 DEF HasPlace
  <2> QED
    BY <2>4, <2>5
<1>8. CASE UNCHANGED vars
  BY <1>8 DEF vars, NoBlockStranded, IsFull
<1> QED
  BY <1>2, <1>3, <1>4, <1>5, <1>6, <1>7, <1>8 DEF Next, Internal

\* No block is lost: one that is neither free nor being filled is full, so it
\* comes back when it is collected.
THEOREM BlocksNeverStranded == CurrentStaysLive /\ Spec => []NoBlockStranded
<1> SUFFICES ASSUME CurrentStaysLive PROVE Spec => []NoBlockStranded
  OBVIOUS
<1>1. Init => NoBlockStranded
  <2> SUFFICES ASSUME Init, NEW d \in Dies, NEW x \in Blocks PROVE HasPlace(d, x)
    BY DEF NoBlockStranded, HasPlace
  <2>1. /\ currentBlock[d] = 0
        /\ freeList[d] = [i \in 1 .. USER_BLOCKS_PER_DIE - 1 |-> i]
    BY DEF Init, InitCurrentBlockOfDieMap
  <2>2. x # 0 => x \in 1 .. USER_BLOCKS_PER_DIE - 1 /\ freeList[d][x] = x
    BY <2>1, BlocksAssumption DEF Blocks
  <2>3. DOMAIN freeList[d] = 1 .. USER_BLOCKS_PER_DIE - 1
    BY <2>1
  <2> QED
    BY <2>1, <2>2, <2>3 DEF HasPlace, IsOn
<1>2. IInv /\ NoBlockStranded /\ [Next]_vars => NoBlockStranded'
  BY StrandsNone
<1> QED
  BY <1>1, <1>2, Inductive, PTL DEF Spec

\* A step leaves each die its reserve, or is one of a collection on that die.
LEMMA KeepsReserve ==
  ASSUME IInv, ReserveKept, [Next]_vars
  PROVE  ReserveKept'
<1> DEFINE t == targetDie
           s == freeList[t]
           n(d) == Len(freeList[d])
<1>1. /\ t \in Dies /\ s \in Seq(Blocks) /\ Len(s) \in Nat
      /\ \A d \in Dies : freeList[d] \in Seq(Blocks) /\ n(d) \in Nat
  BY DEF IInv, TypeOK
<1>2. ASSUME NEW l \in LogicalSlices, AddrTransWrite(l)
      PROVE  ReserveKept'
  BY <1>2 DEF AddrTransWrite, ReserveKept
<1>3. CASE UseCurrentBlock
  BY <1>3 DEF UseCurrentBlock, FinishWrite, ReserveKept
<1>4. CASE OpenFreeBlock
  <2>1. /\ Len(s) > 1 /\ freeList' = [freeList EXCEPT ![t] = Tail(s)]
        /\ pc # "collect" /\ pc' = "idle"
    BY <1>1, <1>4
    DEF OpenFreeBlock, FinishWrite, NoFreeBlock, RESERVED_FREE_BLOCK_COUNT
  <2>2. Len(Tail(s)) >= 1
    BY <1>1, <2>1, HeadTailProperties, EmptySeq
  <2>3. \A d \in Dies : Len(freeList'[d]) >= 1
    BY <1>1, <2>1, <2>2 DEF ReserveKept, RESERVED_FREE_BLOCK_COUNT, IInv, TypeOK
  <2> QED
    BY <2>3 DEF ReserveKept, RESERVED_FREE_BLOCK_COUNT
<1>5. CASE SelectVictim
  BY <1>5 DEF SelectVictim, ReserveKept
<1>6. CASE CopyValidPage
  <2>1. /\ pc = "collect" /\ UNCHANGED <<pc, targetDie>>
        /\ \A d \in Dies : d # t => freeList'[d] = freeList[d]
    BY <1>6 DEF CopyValidPage, MustCopy, IInv, TypeOK
  <2> QED
    BY <2>1 DEF ReserveKept
<1>7. CASE EraseBlock
  <2>1. /\ freeList' = [freeList EXCEPT ![t] = Append(s, victim)]
        /\ victim \in Blocks
    BY <1>7 DEF EraseBlock, FreeVictim, IInv, CallConsistent
  <2>2. Len(Append(s, victim)) >= 1
    BY <1>1, <2>1, AppendProperties
  <2>3. \A d \in Dies : Len(freeList'[d]) >= 1
    BY <1>1, <2>1, <2>2 DEF ReserveKept, RESERVED_FREE_BLOCK_COUNT, IInv, TypeOK
  <2> QED
    BY <2>3 DEF ReserveKept, RESERVED_FREE_BLOCK_COUNT
<1>8. CASE UNCHANGED vars
  BY <1>8 DEF vars, ReserveKept
<1> QED
  BY <1>2, <1>3, <1>4, <1>5, <1>6, <1>7, <1>8 DEF Next, Internal

\* Each die has its reserve block whenever it is not being collected, so that
\* the next collection finds room for its first copy.
THEOREM ReserveAlwaysKept == CurrentStaysLive /\ Spec => []ReserveKept
<1> SUFFICES ASSUME CurrentStaysLive PROVE Spec => []ReserveKept
  OBVIOUS
<1>1. Init => ReserveKept
  <2> SUFFICES ASSUME Init, NEW d \in Dies PROVE Len(freeList[d]) >= 1
    BY DEF ReserveKept, RESERVED_FREE_BLOCK_COUNT
  <2>1. freeList[d] = [i \in 1 .. USER_BLOCKS_PER_DIE - 1 |-> i]
    BY DEF Init, InitCurrentBlockOfDieMap
  <2>2. Len(freeList[d]) = USER_BLOCKS_PER_DIE - 1
    BY <2>1, BlocksAssumption
  <2> QED
    BY <2>2, BlocksAssumption
<1>2. IInv /\ ReserveKept /\ [Next]_vars => ReserveKept'
  BY KeepsReserve
<1> QED
  BY <1>1, <1>2, Inductive, PTL DEF Spec

-----------------------------------------------------------------------------
(* The assertions.                                                         *)

\* The pages of a die without its reserve block.
Room == (USER_BLOCKS_PER_DIE - 1) * SLICES_PER_BLOCK

SlicesOn(d) ==
  {l \in LogicalSlices : logicalSlice[l] # NONE /\ logicalSlice[l][1] = d}

\* When a write looks for a page, the slices living on its die leave one over.
DieHasRoom == pc = "allocate" => Cardinality(SlicesOn(targetDie)) < Room

\* All logical slices find place on one die, so that no die can be too full.
SlicesFit ==
  IsFiniteSet(LogicalSlices) /\ Cardinality(LogicalSlices) <= Room

-----------------------------------------------------------------------------
(* GetFromGcVictimList finds a victim.                                       *)

\* A block has SLICES_PER_BLOCK pages.
LEMMA PageCount == IsFiniteSet(Pages) /\ Cardinality(Pages) = SLICES_PER_BLOCK
<1>1. 0 \in Int /\ SLICES_PER_BLOCK - 1 \in Int /\ ~ (0 > SLICES_PER_BLOCK - 1)
  BY PagesAssumption
<1> QED
  BY <1>1, PagesAssumption, FS_Interval DEF Pages

\* A die whose blocks but one are live to the last page holds as many slices as
\* these blocks have pages.
LEMMA LiveDieHoldsRoom ==
  ASSUME IsFiniteSet(LogicalSlices), TypeOK, MapsAgree,
         NEW d \in Dies, NEW x \in Blocks,
         \A b \in Blocks \ {x} : LivePages(d, b) = Pages
  PROVE  Room <= Cardinality(SlicesOn(d))
<1> DEFINE S == (Blocks \ {x}) \X Pages
           T == SlicesOn(d)
           f == [s \in S |-> virtualSlice[<<d, s[1], s[2]>>]]
<1>1. ASSUME NEW s \in S
      PROVE  /\ f[s] \in T
             /\ logicalSlice[f[s]] = <<d, s[1], s[2]>>
  <2>1. s[1] \in Blocks \ {x} /\ s[2] \in Pages
    OBVIOUS
  <2>2. PICK l \in LogicalSlices : logicalSlice[l] = <<d, s[1], s[2]>>
    BY <2>1 DEF LivePages
  <2>3. <<d, s[1], s[2]>> \in Vsas
    BY <2>1 DEF Vsas
  <2>4. logicalSlice[l] # NONE
    BY <2>2, <2>3, VsaAssumption
  <2>5. virtualSlice[<<d, s[1], s[2]>>] = l
    BY <2>2, <2>4 DEF MapsAgree
  <2> QED
    BY <2>2, <2>4, <2>5 DEF SlicesOn
<1>2. f \in Injection(S, T)
  <2>1. f \in [S -> T]
    BY <1>1
  <2>2. ASSUME NEW s \in S, NEW u \in S, f[s] = f[u]
        PROVE  s = u
    <3>1. <<d, s[1], s[2]>> = <<d, u[1], u[2]>>
      BY <1>1, <2>2
    <3>2. s = <<s[1], s[2]>> /\ u = <<u[1], u[2]>>
      OBVIOUS
    <3> QED
      BY <3>1, <3>2
  <2> QED
    BY <2>1, <2>2 DEF Injection, IsInjective
<1>3. IsFiniteSet(Blocks) /\ Cardinality(Blocks) = USER_BLOCKS_PER_DIE
  BY BlocksAssumption, FS_Interval DEF Blocks
<1>4. /\ IsFiniteSet(Blocks \ {x})
      /\ Cardinality(Blocks \ {x}) = USER_BLOCKS_PER_DIE - 1
  BY <1>3, FS_RemoveElement
<1>5. Cardinality(S) = Room
  BY <1>4, PageCount, FS_Product DEF Room
<1>6. IsFiniteSet(T)
  BY FS_Subset DEF SlicesOn
<1> QED
  BY <1>2, <1>5, <1>6, FS_Injection

\* Room is a number.
LEMMA RoomIsInt == Room \in Int
BY BlocksAssumption, PagesAssumption DEF Room

\* When a write needs garbage collection, its die has a victim.
LEMMA FindsVictim ==
  ASSUME IsFiniteSet(LogicalSlices), DieHasRoom, IInv, NoBlockStranded, ReserveKept
  PROVE  VictimExists
<1> SUFFICES ASSUME AbortNoVictim PROVE FALSE
  BY DEF VictimExists
<1> DEFINE t == targetDie
           s == freeList[t]
<1>1. /\ pc = "allocate" /\ IsFull(t, currentBlock[t])
      /\ Len(s) <= 1 /\ VictimCounts(t) = {}
  BY DEF AbortNoVictim, NoFreeBlock, RESERVED_FREE_BLOCK_COUNT
<1>2. t \in Dies /\ s \in Seq(Blocks) /\ Len(s) \in Nat
  BY DEF IInv, TypeOK
<1>3. Len(s) = 1
  <2>1. pc # "collect"
    BY <1>1
  <2>2. Len(s) >= 1
    BY <1>2, <2>1 DEF ReserveKept, RESERVED_FREE_BLOCK_COUNT
  <2>3. Len(s) <= 1 /\ Len(s) \in Nat
    BY <1>1, <1>2
  <2>4. \A n \in Nat : n <= 1 /\ n >= 1 => n = 1
    OBVIOUS
  <2> QED
    BY <2>2, <2>3, <2>4, Zenon
<1>4. s[1] \in Blocks /\ \A b : IsOn(s, b) => b = s[1]
  BY <1>2, <1>3, LenProperties, ElementOfSeq DEF IsOn
<1>5. ASSUME NEW b \in Blocks \ {s[1]}
      PROVE  LivePages(t, b) = Pages
  <2>1. currentPage[<<t, b>>] = SLICES_PER_BLOCK
    BY <1>1, <1>2, <1>4 DEF NoBlockStranded, IsFull
  <2>2. ~ InCollection(t, b)
    BY <1>1 DEF InCollection
  <2>3. invalidSliceCnt[<<t, b>>] = 0
    <3> DEFINE c == invalidSliceCnt[<<t, b>>]
    <3>1. c \in 0 .. SLICES_PER_BLOCK
      BY <1>2 DEF IInv, TypeOK, DieBlocks
    <3>2. SUFFICES ASSUME c \in 1 .. SLICES_PER_BLOCK PROVE FALSE
      BY <3>1, PagesAssumption
    <3>3. IsOn(victimList[<<t, c>>], b)
      BY <1>2, <2>2, <3>2 DEF IInv, VictimListsExact
    <3>4. victimList[<<t, c>>] = <<>>
      BY <1>1, <3>2 DEF VictimCounts
    <3> QED
      BY <3>3, <3>4 DEF IsOn
  <2>4. LivePages(t, b) \in SUBSET Pages
    BY DEF LivePages
  <2>5. Cardinality(LivePages(t, b)) = SLICES_PER_BLOCK
    <3>1. invalidSliceCnt[<<t, b>>] =
            currentPage[<<t, b>>] - Cardinality(LivePages(t, b))
      BY <1>2, <2>2 DEF IInv, InvalidCntExact
    <3> QED
      BY <2>1, <2>3, <2>4, <3>1, PageSets, PagesAssumption
  <2> QED
    BY <2>4, <2>5, PageCount, FS_Subset
<1>6. TypeOK /\ MapsAgree
  BY DEF IInv
<1>7. Room <= Cardinality(SlicesOn(t))
  BY <1>2, <1>4, <1>5, <1>6, LiveDieHoldsRoom
<1>8. Cardinality(SlicesOn(t)) < Room
  BY <1>1 DEF DieHasRoom
<1>9. Cardinality(SlicesOn(t)) \in Nat
  BY FS_Subset, FS_CardinalityType DEF SlicesOn
<1> QED
  BY <1>7, <1>8, <1>9, RoomIsInt

-----------------------------------------------------------------------------
(* FindFreeVirtualSliceForGc finds room, and leaves room for the write.      *)

\* What garbage collection may count on.  The victim has a superseded page, so
\* fewer copies than a block has pages.  Before the first copy the reserve is
\* there and the current block is full; from the first copy on, the block that
\* takes them has room for the rest and for the write that waits.
RoomForCopies ==
  pc = "collect" =>
    /\ invalidSliceCnt[<<targetDie, victim>>] > 0
    /\ \/ /\ freeList[targetDie] # <<>>
          /\ IsFull(targetDie, currentBlock[targetDie])
       \/ /\ currentBlock[targetDie] # victim
          /\ currentPage[<<targetDie, currentBlock[targetDie]>>]
               + Cardinality(LivePages(targetDie, victim)) < SLICES_PER_BLOCK

RoomForWrite ==
  pc = "retry" => \/ ~ IsFull(targetDie, currentBlock[targetDie])
                  \/ ~ NoFreeBlock(targetDie)

\* The head of the free list of die d is an erased block nothing else uses.
LEMMA HeadOfFree ==
  ASSUME IInv, NEW d \in Dies, freeList[d] # <<>>
  PROVE  /\ Head(freeList[d]) \in Blocks
         /\ currentPage[<<d, Head(freeList[d])>>] = 0
         /\ ~ IsFull(d, Head(freeList[d]))
         /\ ~ InCollection(d, Head(freeList[d]))
<1>1. freeList[d] \in Seq(Blocks)
  BY DEF IInv, TypeOK
<1>2. Head(freeList[d]) \in Blocks /\ IsOn(freeList[d], Head(freeList[d]))
  BY <1>1, TailFacts
<1> QED
  BY <1>2, PagesAssumption DEF IInv, FreeBlocksErased, IsFull

\* Under RoomForCopies every copy finds its block: the head of the free list
\* before the first copy, and the same block afterwards.
LEMMA CopyTarget ==
  ASSUME IInv, RoomForCopies, pc = "collect"
  PROVE  /\ ~ NoRoomForCopy
         /\ LET opens == IsFull(targetDie, BlockAfterLeaving)
                b == IF opens THEN Head(FreeAfterLeaving) ELSE BlockAfterLeaving
            IN  \/ /\ freeList[targetDie] # <<>>
                   /\ b = Head(freeList[targetDie])
                \/ /\ b = currentBlock[targetDie]
                   /\ b # victim
                   /\ currentPage[<<targetDie, b>>]
                        + Cardinality(LivePages(targetDie, victim))
                          < SLICES_PER_BLOCK
<1>1. /\ targetDie \in Dies /\ victim \in Blocks
      /\ currentBlock[targetDie] \in Blocks
  BY DEF IInv, TypeOK, CallConsistent
<1>2. CASE /\ freeList[targetDie] # <<>>
           /\ IsFull(targetDie, currentBlock[targetDie])
  <2>1. ~ IsFull(targetDie, Head(freeList[targetDie]))
    BY <1>1, <1>2, HeadOfFree
  <2>2. CASE LeavesVictim
    BY <1>2, <2>1, <2>2
    DEF NoRoomForCopy, NoFreeBlockForGc, BlockAfterLeaving, FreeAfterLeaving
  <2>3. CASE ~ LeavesVictim
    BY <1>2, <2>3
    DEF NoRoomForCopy, NoFreeBlockForGc, BlockAfterLeaving, FreeAfterLeaving
  <2> QED
    BY <2>2, <2>3
<1>3. CASE /\ currentBlock[targetDie] # victim
           /\ currentPage[<<targetDie, currentBlock[targetDie]>>]
                + Cardinality(LivePages(targetDie, victim)) < SLICES_PER_BLOCK
  <2>1. /\ LivePages(targetDie, victim) \in SUBSET Pages
        /\ currentPage[<<targetDie, currentBlock[targetDie]>>] \in Nat
    BY <1>1 DEF LivePages, IInv, TypeOK, DieBlocks
  <2>2. ~ IsFull(targetDie, currentBlock[targetDie])
    BY <1>3, <2>1, PageSets, PagesAssumption DEF IsFull
  <2> QED
    BY <1>3, <2>2
    DEF NoRoomForCopy, LeavesVictim, BlockAfterLeaving, FreeAfterLeaving
<1> QED
  BY <1>2, <1>3 DEF RoomForCopies

\* A copy takes one page of the block it goes to, and one live page of the
\* victim: the room left for the others stays.
LEMMA CopyKeepsRoom ==
  ASSUME IInv, RoomForCopies, CopyValidPage
  PROVE  RoomForCopies'
<1> DEFINE t == targetDie
           w == victim
           opens == IsFull(t, BlockAfterLeaving)
           b == IF opens THEN Head(FreeAfterLeaving) ELSE BlockAfterLeaving
           live == LivePages(t, w)
<1>1. /\ pc = "collect" /\ UNCHANGED <<pc, targetDie, victim, invalidSliceCnt>>
      /\ currentBlock' = [currentBlock EXCEPT ![t] = b]
  BY DEF CopyValidPage, MustCopy
<1>2. PICK p \in Pages : /\ NextValidPage(p)
                         /\ PlaceSlice(virtualSlice[<<t, w, p>>], t, b)
  BY DEF CopyValidPage
<1>3. /\ t \in Dies /\ w \in Blocks /\ <<t, w, p>> \in Vsas
      /\ <<t, w>> \in DieBlocks
  BY <1>1 DEF IInv, TypeOK, CallConsistent, Vsas, DieBlocks
<1>4. PICK l \in LogicalSlices : /\ l = virtualSlice[<<t, w, p>>]
                                 /\ logicalSlice[l] = <<t, w, p>>
  BY <1>2, <1>3 DEF NextValidPage, ValidPages, IInv, TypeOK
<1>5. /\ b \in Blocks /\ b # w
      /\ \/ currentPage[<<t, b>>] = 0
         \/ currentPage[<<t, b>>] + Cardinality(live) < SLICES_PER_BLOCK
  <2>1. CASE freeList[t] # <<>> /\ b = Head(freeList[t])
    BY <1>1, <1>3, <2>1, HeadOfFree DEF InCollection
  <2>2. CASE /\ b = currentBlock[t] /\ b # w
             /\ currentPage[<<t, b>>] + Cardinality(live) < SLICES_PER_BLOCK
    BY <1>3, <2>2 DEF IInv, TypeOK
  <2> QED
    BY <1>1, <2>1, <2>2, CopyTarget
<1> HIDE DEF b, opens
<1>6. /\ logicalSlice' = [logicalSlice EXCEPT ![l] = <<t, b, currentPage[<<t, b>>]>>]
      /\ currentPage'  = [currentPage EXCEPT ![<<t, b>>] = @ + 1]
  BY <1>2, <1>4 DEF PlaceSlice
<1>7. /\ currentBlock'[t] = b
      /\ currentPage'[<<t, b>>] = currentPage[<<t, b>>] + 1
      /\ currentPage[<<t, b>>] \in Nat
  BY <1>1, <1>3, <1>5, <1>6 DEF IInv, TypeOK, DieBlocks
<1>8. live \in SUBSET Pages
  BY DEF LivePages
<1>9. /\ Cardinality(LivePages(t, w)') \in Nat
      /\ Cardinality(live) \in Nat
      /\ Cardinality(LivePages(t, w)') + 1 <= Cardinality(live)
  BY CopyLeavesLess
<1>10. /\ invalidSliceCnt[<<t, w>>] > 0
       /\ invalidSliceCnt[<<t, w>>] + Cardinality(live) <= SLICES_PER_BLOCK
       /\ invalidSliceCnt[<<t, w>>] \in Nat
  <2>1. invalidSliceCnt[<<t, w>>] + Cardinality(live) <= currentPage[<<t, w>>]
    BY <1>3 DEF IInv, CountsBound
  <2>2. /\ currentPage[<<t, w>>] \in 0 .. SLICES_PER_BLOCK
        /\ invalidSliceCnt[<<t, w>>] \in 0 .. SLICES_PER_BLOCK
    BY <1>3 DEF IInv, TypeOK
  <2> QED
    BY <1>1, <1>9, <2>1, <2>2, PagesAssumption DEF RoomForCopies
<1>11. currentPage'[<<t, b>>] + Cardinality(LivePages(t, w)') < SLICES_PER_BLOCK
  BY <1>5, <1>7, <1>9, <1>10, PagesAssumption
<1> HIDE DEF live
<1> QED
  BY <1>1, <1>5, <1>7, <1>10, <1>11 DEF RoomForCopies

\* Every step keeps both.
LEMMA KeepsRoom ==
  ASSUME IInv, ReserveKept, RoomForCopies, RoomForWrite, [Next]_vars
  PROVE  RoomForCopies' /\ RoomForWrite'
<1> DEFINE t == targetDie
           s == freeList[t]
<1>1. t \in Dies /\ s \in Seq(Blocks) /\ Len(s) \in Nat
  BY DEF IInv, TypeOK
<1>2. ASSUME NEW l \in LogicalSlices, AddrTransWrite(l)
      PROVE  RoomForCopies' /\ RoomForWrite'
  BY <1>2 DEF AddrTransWrite, RoomForCopies, RoomForWrite
<1>3. CASE UseCurrentBlock \/ OpenFreeBlock
  BY <1>3
  DEF UseCurrentBlock, OpenFreeBlock, FinishWrite, RoomForCopies, RoomForWrite
<1>4. CASE SelectVictim
  <2>1. PICK c \in 1 .. SLICES_PER_BLOCK :
          /\ Greediest(t, c)
          /\ victim' = Head(victimList[<<t, c>>])
    BY <1>4 DEF SelectVictim
  <2>2. /\ pc = "allocate" /\ pc' = "collect" /\ IsFull(t, currentBlock[t])
        /\ UNCHANGED <<targetDie, freeList, currentBlock, currentPage,
                       invalidSliceCnt>>
    BY <1>4 DEF SelectVictim
  <2>3. victimList[<<t, c>>] \in Seq(Blocks) /\ victimList[<<t, c>>] # <<>>
    BY <1>1, <2>1 DEF IInv, TypeOK, Greediest, VictimCounts
  <2>4. victim' \in Blocks /\ IsOn(victimList[<<t, c>>], victim')
    BY <2>1, <2>3, TailFacts
  <2>5. invalidSliceCnt[<<t, victim'>>] = c
    BY <1>1, <2>4 DEF IInv, VictimListsExact
  <2>6. s # <<>>
    <3>1. Len(s) >= 1
      BY <1>1, <2>2 DEF ReserveKept, RESERVED_FREE_BLOCK_COUNT
    <3> QED
      BY <1>1, <3>1, EmptySeq
  <2> QED
    BY <2>2, <2>5, <2>6 DEF RoomForCopies, RoomForWrite, IsFull
<1>5. CASE CopyValidPage
  <2>1. pc' = "collect"
    BY <1>5 DEF CopyValidPage, MustCopy
  <2> QED
    BY <1>5, <2>1, CopyKeepsRoom DEF RoomForWrite
<1>6. CASE EraseBlock
  <2>1. /\ pc = "collect" /\ pc' = "retry"
        /\ currentPage' = [currentPage EXCEPT ![<<t, victim>>] = 0]
        /\ freeList' = [freeList EXCEPT ![t] = Append(s, victim)]
        /\ UNCHANGED <<currentBlock, targetDie>>
        /\ victim \in Blocks /\ currentBlock[t] \in Blocks
    BY <1>6
    DEF EraseBlock, FinishCollection, FreeVictim, IInv, CallConsistent, TypeOK
  <2>2. CASE s # <<>>
    <3>1. Len(Append(s, victim)) > 1
      BY <1>1, <2>1, <2>2, AppendProperties, EmptySeq
    <3>2. ~ NoFreeBlock(t)'
      BY <1>1, <2>1, <3>1 DEF NoFreeBlock, RESERVED_FREE_BLOCK_COUNT, IInv, TypeOK
    <3> QED
      BY <2>1, <3>2 DEF RoomForCopies, RoomForWrite, NoFreeBlock
  <2>3. CASE /\ currentBlock[t] # victim
             /\ currentPage[<<t, currentBlock[t]>>]
                  + Cardinality(LivePages(t, victim)) < SLICES_PER_BLOCK
    <3>1. /\ <<t, currentBlock[t]>> \in DieBlocks
          /\ currentPage[<<t, currentBlock[t]>>] \in Nat
          /\ LivePages(t, victim) \in SUBSET Pages
      BY <1>1, <2>1 DEF IInv, TypeOK, DieBlocks, LivePages
    <3>2. currentPage'[<<t, currentBlock[t]>>] = currentPage[<<t, currentBlock[t]>>]
      BY <2>1, <2>3, <3>1 DEF IInv, TypeOK
    <3>3. currentPage[<<t, currentBlock[t]>>] # SLICES_PER_BLOCK
      BY <2>3, <3>1, PageSets, PagesAssumption
    <3> QED
      BY <2>1, <3>2, <3>3 DEF RoomForCopies, RoomForWrite, IsFull
  <2> QED
    BY <2>1, <2>2, <2>3 DEF RoomForCopies
<1>7. CASE UNCHANGED vars
  BY <1>7 DEF vars, RoomForCopies, RoomForWrite, IsFull, LivePages, NoFreeBlock
<1> QED
  BY <1>2, <1>3, <1>4, <1>5, <1>6, <1>7 DEF Next, Internal

-----------------------------------------------------------------------------

\* How many steps a call of AddrTransWrite has left at most.
StepsLeft ==
  CASE pc = "idle"     -> 0
    [] pc = "retry"    -> 1
    [] pc = "collect"  -> 2 + Cardinality(LivePages(targetDie, victim))
    [] pc = "allocate" -> 3 + SLICES_PER_BLOCK

CallsAdvance == [][Internal => StepsLeft \in Nat /\ StepsLeft' < StepsLeft]_vars

\* Every step of AddrTransWrite and of the collection it calls brings the call
\* nearer to its end: the scan of a victim goes over each live page once, and
\* no call collects twice.  With no assertion failing, the call returns.
THEOREM CallsAlwaysAdvance == CurrentStaysLive /\ Spec => CallsAdvance
<1>1. ASSUME IInv, Internal PROVE StepsLeft \in Nat /\ StepsLeft' < StepsLeft
  <2> DEFINE live == LivePages(targetDie, victim)
  <2>1. SLICES_PER_BLOCK \in Nat
    BY PagesAssumption
  <2>2. /\ Cardinality(live) \in Nat /\ Cardinality(live') \in Nat
        /\ Cardinality(live') <= SLICES_PER_BLOCK
    <3>1. live \in SUBSET Pages /\ live' \in SUBSET Pages
      BY DEF LivePages
    <3> HIDE DEF live
    <3>2. Cardinality(live') <= Cardinality(Pages)
      BY <3>1, FewerPages
    <3> QED BY <3>1, <3>2, PageSets, PageCount
  <2> HIDE DEF live
  <2>3. CASE UseCurrentBlock
    BY <2>1, <2>3 DEF UseCurrentBlock, FinishWrite, StepsLeft
  <2>4. CASE OpenFreeBlock
    BY <2>1, <2>4 DEF OpenFreeBlock, FinishWrite, StepsLeft
  <2>5. CASE SelectVictim
    <3>1. pc = "allocate" /\ pc' = "collect"
      BY <2>5 DEF SelectVictim
    <3>2. StepsLeft = 3 + SLICES_PER_BLOCK /\ StepsLeft' = 2 + Cardinality(live')
      BY <3>1 DEF StepsLeft, live
    <3> QED BY <2>1, <2>2, <3>2
  <2>6. CASE CopyValidPage
    <3>1. pc = "collect" /\ pc' = "collect"
      BY <2>6 DEF CopyValidPage, MustCopy
    <3>2. StepsLeft = 2 + Cardinality(live) /\ StepsLeft' = 2 + Cardinality(live')
      BY <3>1 DEF StepsLeft, live
    <3>3. Cardinality(live') + 1 <= Cardinality(live)
      BY <1>1, <2>6, CopyLeavesLess DEF live
    <3> QED BY <2>2, <3>2, <3>3
  <2>7. CASE EraseBlock
    <3>1. pc = "collect" /\ pc' = "retry"
      BY <2>7 DEF EraseBlock, FinishCollection
    <3>2. StepsLeft = 2 + Cardinality(live) /\ StepsLeft' = 1
      BY <3>1 DEF StepsLeft, live
    <3> QED BY <2>2, <3>2
  <2> QED
    BY <1>1, <2>3, <2>4, <2>5, <2>6, <2>7 DEF Internal
<1>2. IInv => (Internal => StepsLeft \in Nat /\ StepsLeft' < StepsLeft)
  BY <1>1
<1> QED
  BY <1>2, Inductive, PTL DEF CallsAdvance

\* No assertion of AddrTransWrite and GarbageCollection fails unless a write
\* goes to a die that is too full of live slices: there is a victim, each copy
\* finds a page, and the write that waited for the collection finds one too.
THEOREM AbortsOnFullDieOnly ==
  CurrentStaysLive /\ IsFiniteSet(LogicalSlices) /\ Spec /\ []DieHasRoom
    => []NeverAborts
<1> SUFFICES ASSUME CurrentStaysLive, IsFiniteSet(LogicalSlices)
             PROVE  Spec /\ []DieHasRoom => []NeverAborts
  OBVIOUS
<1>1. Init => RoomForCopies /\ RoomForWrite
  BY DEF Init, RoomForCopies, RoomForWrite
<1>2. IInv /\ ReserveKept /\ RoomForCopies /\ RoomForWrite /\ [Next]_vars
        => RoomForCopies' /\ RoomForWrite'
  BY KeepsRoom
<1>3. /\ IInv /\ NoBlockStranded /\ ReserveKept
      /\ DieHasRoom /\ RoomForCopies /\ RoomForWrite
      => NeverAborts
  <2> SUFFICES ASSUME IInv, NoBlockStranded, ReserveKept,
                      DieHasRoom, RoomForCopies, RoomForWrite
               PROVE  NeverAborts
    OBVIOUS
  <2>1. ~ AbortNoVictim
    BY FindsVictim DEF VictimExists
  <2>2. ~ AbortNoRoomForCopy
    BY CopyTarget DEF AbortNoRoomForCopy, MustCopy
  <2>3. ~ AbortNoFreeBlock
    BY DEF AbortNoFreeBlock, RoomForWrite
  <2> QED
    BY <2>1, <2>2, <2>3 DEF NeverAborts
<1> QED
  BY <1>1, <1>2, <1>3, Inductive, BlocksNeverStranded, ReserveAlwaysKept, PTL
  DEF Spec

\* No assertion fails where all slices fit on one die next to its reserve: the
\* slice being written lives nowhere, so the others leave its die a page.
THEOREM WritesNeverAbort == CurrentStaysLive /\ SlicesFit /\ Spec => []NeverAborts
<1> SUFFICES ASSUME CurrentStaysLive, SlicesFit PROVE Spec => []NeverAborts
  OBVIOUS
<1>1. IInv => DieHasRoom
  <2> SUFFICES ASSUME IInv, pc = "allocate"
               PROVE  Cardinality(SlicesOn(targetDie)) < Room
    BY DEF DieHasRoom
  <2>1. lsa \in LogicalSlices /\ logicalSlice[lsa] = NONE
    BY DEF IInv, CallConsistent
  <2>2. SlicesOn(targetDie) \in SUBSET (LogicalSlices \ {lsa})
    BY <2>1 DEF SlicesOn
  <2>3. /\ IsFiniteSet(LogicalSlices \ {lsa})
        /\ Cardinality(LogicalSlices \ {lsa}) = Cardinality(LogicalSlices) - 1
        /\ Cardinality(LogicalSlices) \in Nat
    BY <2>1, FS_RemoveElement, FS_CardinalityType DEF SlicesFit
  <2>4. /\ Cardinality(SlicesOn(targetDie)) <= Cardinality(LogicalSlices) - 1
        /\ Cardinality(SlicesOn(targetDie)) \in Nat
    BY <2>2, <2>3, FS_Subset, FS_CardinalityType
  <2>5. Cardinality(LogicalSlices) <= Room
    BY DEF SlicesFit
  <2> QED
    BY <2>3, <2>4, <2>5, RoomIsInt
<1>2. IsFiniteSet(LogicalSlices)
  BY DEF SlicesFit
<1> QED
  BY <1>1, <1>2, Inductive, AbortsOnFullDieOnly, PTL

-----------------------------------------------------------------------------
(* The flash pages.  The rows of a block hold its pages and no other, as long *)
(* as the pages fit.                                                          *)

\* A page in a block of P rows is in that block.
LEMMA DivUnique ==
  ASSUME NEW P \in Nat \ {0}, NEW b \in Nat, NEW k \in Nat, k < P
  PROVE  (b * P + k) \div P = b
<1> DEFINE n == b * P + k
           q == n \div P
<1>1. b * P \in Nat /\ n \in Nat
  OBVIOUS
<1>2. q \in Int /\ n = P * q + (n % P) /\ n % P \in 0 .. P - 1
  BY <1>1
<1>3. P * q - P < P * b /\ P * b < P * q + P
  BY <1>1, <1>2
<1>4. ASSUME NEW x \in Int, NEW y \in Int, x < y PROVE P * x + P <= P * y
  <2>1. x + 1 <= y
    BY <1>4
  <2>2. P * (x + 1) <= P * y
    BY <2>1
  <2> QED
    BY <2>2
<1>5. ~ (q < b) /\ ~ (b < q)
  BY <1>2, <1>3, <1>4
<1> QED
  BY <1>2, <1>5

\* The row of a page is in its block, and two pages have two rows.
LEMMA RowFacts ==
  ASSUME PagesFit, NEW v \in Vsas
  PROVE  /\ RowOf(v) \in Rows
         /\ BlockOf(RowOf(v)) = <<v[1], v[2]>>
         /\ \A w \in Vsas : RowOf(w) = RowOf(v) => w = v
<1> DEFINE P == PAGES_PER_MLC_BLOCK
           k(u) == Vpage2PlsbPageTranslation(u[3])
<1>1. ASSUME NEW u \in Vsas
      PROVE  /\ u[2] \in Nat /\ u[3] \in Nat /\ k(u) \in Nat /\ k(u) < P
             /\ RowOf(u) = <<u[1], u[2] * P + k(u)>>
             /\ (u[2] * P + k(u)) \div P = u[2]
             /\ u = <<u[1], u[2], u[3]>>
  <2>1. /\ u[2] \in Nat /\ u[3] \in Nat /\ u[3] <= SLICES_PER_BLOCK - 1
        /\ u = <<u[1], u[2], u[3]>>
    BY PagesAssumption, BlocksAssumption DEF Vsas, Blocks, Pages
  <2>2. k(u) \in Nat /\ k(u) < P
    BY <2>1, PagesAssumption, RowsAssumption
    DEF PagesFit, RowsFit, Vpage2PlsbPageTranslation
  <2>3. P \in Nat \ {0}
    BY RowsAssumption
  <2>4. (u[2] * P + k(u)) \div P = u[2]
    BY <2>1, <2>2, <2>3, DivUnique
  <2>5. RowOf(u) = <<u[1], u[2] * P + k(u)>>
    BY DEF RowOf, GenerateNandRowAddr
  <2> QED
    BY <2>1, <2>2, <2>4, <2>5
<1>2. BlockOf(RowOf(v)) = <<v[1], v[2]>>
  BY <1>1 DEF BlockOf, BlockOfRow
<1>3. ASSUME NEW w \in Vsas, RowOf(w) = RowOf(v) PROVE w = v
  <2>1. w[1] = v[1] /\ w[2] * P + k(w) = v[2] * P + k(v)
    BY <1>1, <1>3
  <2>2. w[2] = v[2]
    BY <1>1, <2>1
  <2>3. k(w) = k(v)
    <3>1. v[2] * P \in Nat
      BY <1>1, RowsAssumption
    <3> HIDE DEF P, k
    <3> QED
      BY <1>1, <2>1, <2>2, <3>1
  <2>4. w[3] = v[3]
    <3>1. w[3] \in Nat /\ v[3] \in Nat
      BY <1>1
    <3> QED
      BY <2>3, <3>1 DEF Vpage2PlsbPageTranslation
  <2> QED
    BY <1>1, <2>1, <2>2, <2>4
<1> QED
  BY <1>2, <1>3 DEF Rows

\* The content of a page after the step.
ContentAfter(v) == nand'[RowOf(v)]

\* A program changes the content of one page.
LEMMA ContentProgrammed ==
  ASSUME PagesFit, NEW T, nand \in [Rows -> T], NEW v \in Vsas, NEW x,
         nand' = [nand EXCEPT ![RowOf(v)] = x]
  PROVE  /\ ContentAfter(v) = x
         /\ \A w \in Vsas : w # v => ContentAfter(w) = Content(w)
<1>1. \A w \in Vsas : RowOf(w) \in Rows
  BY DEF Rows
<1>2. \A w \in Vsas : w # v => RowOf(w) # RowOf(v)
  BY RowFacts
<1> QED
  BY <1>1, <1>2 DEF ContentAfter, Content

\* An erase changes the content of the pages of the victim.
LEMMA ContentErased ==
  ASSUME PagesFit, NEW x, nand' = Erased(x), NEW v \in Vsas
  PROVE  ContentAfter(v) = IF v[1] = targetDie /\ v[2] = victim THEN x
                                                               ELSE Content(v)
<1>1. RowOf(v) \in Rows /\ BlockOf(RowOf(v)) = <<v[1], v[2]>>
  BY RowFacts
<1> QED
  BY <1>1 DEF ContentAfter, Content, Erased

\* What can be in a row, in terms of what was written so far.
StoreTypeOK ==
  /\ nand \in [Rows -> written \cup {Blank, Broken}]
  /\ tempDataBuf \in [Dies -> written \cup {Broken}]
  /\ data \in Values \cup {Blank}
  /\ failing \in BOOLEAN /\ refusing \in BOOLEAN
  /\ latest \in [LogicalSlices -> Values \cup {Blank}]
  /\ written \in SUBSET Values

\* The map counts the pages of a block that have been programmed: those below
\* currentPage, and no other unless the block could not be erased.
PagesFollowMap ==
  \A d \in Dies, b \in Blocks, p \in Pages :
    /\ p < currentPage[<<d, b>>] => Programmed(<<d, b, p>>)
    /\ Programmed(<<d, b, p>>) /\ <<d, b>> \notin unerased =>
         p < currentPage[<<d, b>>]

StoreInv ==
  /\ StoreTypeOK
  /\ PagesFollowMap
  /\ pc # "idle" => data \in written
  /\ ~ failing => unerased = {}

\* What ProgramsInOrder says of one page.
InOrder(d, b, p) ==
  /\ Content(<<d, b, p>>)' # Content(<<d, b, p>>)
  /\ Content(<<d, b, p>>)' # Blank
  /\ <<d, b>> \notin unerased'
  => /\ ~ Programmed(<<d, b, p>>)
     /\ \A q \in 0 .. p - 1 : Programmed(<<d, b, q>>)

StepInOrder == \A d \in Dies, b \in Blocks, p \in Pages : InOrder(d, b, p)

\* A step that leaves the flash alone.
LEMMA FlashUnchanged ==
  ASSUME StoreInv, UNCHANGED <<nand, unerased, currentPage>>
  PROVE  PagesFollowMap' /\ StepInOrder
BY DEF StoreInv, PagesFollowMap, Programmed, Content, StepInOrder, InOrder

\* Programming the page at currentPage keeps the flash in step with the map.
LEMMA PageProgrammed ==
  ASSUME PagesFit, IInv, StoreInv,
         NEW k \in LogicalSlices, NEW b \in Blocks, ~ IsFull(targetDie, b),
         PlaceSlice(k, targetDie, b), NEW x \in written \cup {Broken},
         nand' = [nand EXCEPT ![RowOf(logicalSlice'[k])] = x],
         UNCHANGED <<unerased, written>>
  PROVE  /\ nand' \in [Rows -> written' \cup {Blank, Broken}]
         /\ PagesFollowMap'
         /\ StepInOrder
<1> DEFINE q == currentPage[<<targetDie, b>>]
           v == <<targetDie, b, q>>
<1>1. /\ q \in Pages /\ q \in Nat /\ v \in Vsas
      /\ <<targetDie, b>> \in DieBlocks /\ targetDie \in Dies
  BY PagesAssumption DEF IInv, TypeOK, DieBlocks, IsFull, Pages, Vsas
<1>2. /\ logicalSlice'[k] = v
      /\ currentPage' = [currentPage EXCEPT ![<<targetDie, b>>] = q + 1]
  BY DEF PlaceSlice, IInv, TypeOK
<1>3. nand' \in [Rows -> written' \cup {Blank, Broken}]
  BY DEF StoreInv, StoreTypeOK
<1>4. x # Blank
  BY BlankAssumption, BrokenAssumption DEF StoreInv, StoreTypeOK
<1>5. /\ ContentAfter(v) = x
      /\ \A w \in Vsas : w # v => ContentAfter(w) = Content(w)
  <2>1. nand' = [nand EXCEPT ![RowOf(v)] = x]
    BY <1>2
  <2>2. nand \in [Rows -> written \cup {Blank, Broken}]
    BY DEF StoreInv, StoreTypeOK
  <2> HIDE DEF v
  <2> QED
    BY <1>1, <2>1, <2>2, ContentProgrammed
<1>6. ASSUME NEW e \in Dies, NEW c \in Blocks, NEW p \in Pages
      PROVE  /\ p < currentPage'[<<e, c>>] => ContentAfter(<<e, c, p>>) # Blank
             /\ ContentAfter(<<e, c, p>>) # Blank /\ <<e, c>> \notin unerased' =>
                  p < currentPage'[<<e, c>>]
             /\ InOrder(e, c, p)
  <2>1. /\ <<e, c, p>> \in Vsas /\ <<e, c>> \in DieBlocks /\ p \in Nat
        /\ currentPage[<<e, c>>] \in Nat
    BY PagesAssumption DEF IInv, TypeOK, DieBlocks, Vsas, Pages
  <2>2. /\ p < currentPage[<<e, c>>] => Content(<<e, c, p>>) # Blank
        /\ Content(<<e, c, p>>) # Blank /\ <<e, c>> \notin unerased =>
             p < currentPage[<<e, c>>]
    BY DEF StoreInv, PagesFollowMap, Programmed
  <2>3. Content(<<e, c, p>>)' = ContentAfter(<<e, c, p>>)
    BY DEF Content, ContentAfter
  <2>4. CASE <<e, c>> # <<targetDie, b>>
    <3>1. currentPage'[<<e, c>>] = currentPage[<<e, c>>]
      BY <1>2, <2>1, <2>4 DEF IInv, TypeOK
    <3>2. ContentAfter(<<e, c, p>>) = Content(<<e, c, p>>)
      BY <1>5, <2>1, <2>4
    <3> QED
      BY <2>2, <2>3, <3>1, <3>2 DEF InOrder
  <2>5. CASE <<e, c>> = <<targetDie, b>> /\ p # q
    <3>1. ContentAfter(<<e, c, p>>) = Content(<<e, c, p>>)
      BY <1>5, <2>1, <2>5
    <3>2. currentPage[<<e, c>>] = q /\ currentPage'[<<e, c>>] = q + 1
      BY <1>1, <1>2, <2>5 DEF IInv, TypeOK
    <3>3. p < q + 1 <=> p < q
      BY <1>1, <2>1, <2>5
    <3> QED
      BY <2>2, <2>3, <3>1, <3>2, <3>3 DEF InOrder
  <2>6. CASE <<e, c>> = <<targetDie, b>> /\ p = q
    <3>1. e = targetDie /\ c = b
      BY <2>6
    <3>2. ContentAfter(<<e, c, p>>) = x
      BY <1>5, <2>6, <3>1
    <3>3. currentPage'[<<e, c>>] = q + 1 /\ p < q + 1 /\ ~ (p < q)
      BY <1>1, <1>2, <2>6 DEF IInv, TypeOK
    <3>4. \A r \in 0 .. p - 1 : Programmed(<<e, c, r>>)
      <4> SUFFICES ASSUME NEW r \in 0 .. p - 1 PROVE Programmed(<<e, c, r>>)
        OBVIOUS
      <4>1. r \in Pages /\ r < currentPage[<<e, c>>]
        BY <1>1, <2>6, <3>1, PagesAssumption DEF Pages
      <4> QED
        BY <4>1 DEF StoreInv, PagesFollowMap
    <3>5. InOrder(e, c, p)
      BY <2>2, <2>6, <3>1, <3>3, <3>4 DEF InOrder, Programmed
    <3> QED
      BY <1>4, <3>2, <3>3, <3>5
  <2> QED
    BY <2>4, <2>5, <2>6
<1>7. PagesFollowMap'
  BY <1>6 DEF PagesFollowMap, Programmed, Content, ContentAfter
<1>8. StepInOrder
  BY <1>6 DEF StepInOrder
<1> QED
  BY <1>3, <1>7, <1>8

\* ProgramSlice writes the data of lsa, or loses it, in the next page of a block.
LEMMA ProgramSliceStep ==
  ASSUME IInv, StoreInv, ProgramSlice
  PROVE  \E b \in Blocks, x \in {data, Broken} :
           /\ ~ IsFull(targetDie, b)
           /\ PlaceSlice(lsa, targetDie, b)
           /\ nand' = [nand EXCEPT ![RowOf(logicalSlice'[lsa])] = x]
           /\ lsa \in LogicalSlices /\ lsa' = NONE
           /\ data \in written /\ pc' = "idle"
           /\ x # data => failing
<1>1. pc \in {"allocate", "retry"}
  BY DEF ProgramSlice, UseCurrentBlock, OpenFreeBlock
<1>2. lsa \in LogicalSlices /\ data \in written
  BY <1>1 DEF IInv, CallConsistent, StoreInv
<1>3. PICK b \in Blocks : /\ ~ IsFull(targetDie, b)
                          /\ PlaceSlice(lsa, targetDie, b)
                          /\ lsa' = NONE /\ pc' = "idle"
  <2>1. CASE UseCurrentBlock
    BY <2>1 DEF UseCurrentBlock, FinishWrite, IInv, TypeOK
  <2>2. CASE OpenFreeBlock
    <3>1. targetDie \in Dies /\ freeList[targetDie] \in Seq(Blocks)
      BY DEF IInv, TypeOK
    <3>2. freeList[targetDie] # <<>>
      <4>1. ~ (Len(freeList[targetDie]) <= 1)
        BY <2>2 DEF OpenFreeBlock, NoFreeBlock, RESERVED_FREE_BLOCK_COUNT
      <4> QED
        BY <3>1, <4>1, EmptySeq
    <3>3. /\ Head(freeList[targetDie]) \in Blocks
          /\ IsOn(freeList[targetDie], Head(freeList[targetDie]))
      BY <3>1, <3>2, TailFacts
    <3>4. ~ IsFull(targetDie, Head(freeList[targetDie]))
      BY <3>1, <3>3, PagesAssumption DEF IInv, FreeBlocksErased, IsFull
    <3>5. PlaceSlice(lsa, targetDie, Head(freeList[targetDie])) /\ lsa' = NONE
          /\ pc' = "idle"
      BY <2>2 DEF OpenFreeBlock, FinishWrite
    <3> QED
      BY <3>3, <3>4, <3>5
  <2> QED
    BY <2>1, <2>2 DEF ProgramSlice
<1>4. PICK x \in Programs(RowOf(logicalSlice'[lsa]), data) :
        nand' = [nand EXCEPT ![RowOf(logicalSlice'[lsa])] = x]
  BY DEF ProgramSlice, Program
<1>5. x \in {data, Broken} /\ (x # data => failing)
  BY <1>4 DEF Programs, StoreInv
<1> QED
  BY <1>2, <1>3, <1>4, <1>5

\* CopySlice moves a slice k to the next page of a block: with its content,
\* losing it, or, if the die refuses the read, with what the die copied last.
LEMMA CopySliceStep ==
  ASSUME IInv, StoreInv, CopySlice
  PROVE  \E k \in LogicalSlices, b \in Blocks, x \in written \cup {Broken} :
           /\ ~ IsFull(targetDie, b)
           /\ PlaceSlice(k, targetDie, b)
           /\ logicalSlice[k] # NONE /\ logicalSlice[lsa] = NONE
           /\ Content(logicalSlice[k]) \in written \cup {Broken}
           /\ nand' = [nand EXCEPT ![RowOf(logicalSlice'[k])] = x]
           /\ tempDataBuf' \in [Dies -> written \cup {Broken}]
           /\ \/ x = Content(logicalSlice[k])
              \/ x = Broken /\ (failing \/ refusing)
              \/ x \in written /\ refusing
<1>1. PICK p \in Pages, k \in LogicalSlices, b \in Blocks :
        /\ NextValidPage(p)
        /\ k = virtualSlice[<<targetDie, victim, p>>]
        /\ ~ IsFull(targetDie, b)
        /\ PlaceSlice(k, targetDie, b)
  BY CopyValidPageStep DEF CopySlice
<1>2. PICK q \in Pages :
        /\ NextValidPage(q)
        /\ LET from == <<targetDie, victim, q>>
               l    == virtualSlice[from]
           IN  \E y \in Reads(targetDie, from) :
                 /\ tempDataBuf' = [tempDataBuf EXCEPT ![targetDie] = y]
                 /\ Program(logicalSlice'[l], y)
  BY DEF CopySlice
<1>3. p = q
  BY <1>1, <1>2 DEF NextValidPage, Pages
<1>4. logicalSlice[k] = <<targetDie, victim, p>> /\ logicalSlice[k] # NONE
  <2>1. logicalSlice[k] = <<targetDie, victim, p>>
    BY <1>1 DEF NextValidPage, ValidPages
  <2>2. <<targetDie, victim, p>> \in Vsas
    BY DEF CopySlice, CopyValidPage, MustCopy, IInv, CallConsistent, TypeOK, Vsas
  <2> QED
    BY <2>1, <2>2, VsaAssumption
<1>5. logicalSlice[lsa] = NONE /\ targetDie \in Dies
  BY DEF CopySlice, CopyValidPage, MustCopy, IInv, CallConsistent, TypeOK
<1>6. Content(logicalSlice[k]) \in written \cup {Broken}
  <2>1. PICK d \in Dies, c \in Blocks, r \in Pages :
          logicalSlice[k] = <<d, c, r>> /\ r < currentPage[<<d, c>>]
    BY <1>4, MappedSlice DEF IInv
  <2>2. Content(<<d, c, r>>) # Blank /\ <<d, c, r>> \in Vsas
    BY <2>1 DEF StoreInv, PagesFollowMap, Programmed, Vsas
  <2>3. RowOf(<<d, c, r>>) \in Rows
    BY <2>2 DEF Rows
  <2> QED
    BY <2>1, <2>2, <2>3 DEF StoreInv, StoreTypeOK, Content
<1>7. PICK y \in Reads(targetDie, logicalSlice[k]) :
        /\ tempDataBuf' = [tempDataBuf EXCEPT ![targetDie] = y]
        /\ Program(logicalSlice'[k], y)
  BY <1>1, <1>2, <1>3, <1>4
<1>8. /\ y \in written \cup {Broken}
      /\ y = Content(logicalSlice[k]) \/ (y = Broken /\ failing) \/ refusing
  <2>1. tempDataBuf[targetDie] \in written \cup {Broken}
    BY <1>5 DEF StoreInv, StoreTypeOK
  <2> QED
    BY <1>6, <1>7, <2>1 DEF Reads
<1>9. tempDataBuf' \in [Dies -> written \cup {Broken}]
  BY <1>7, <1>8 DEF StoreInv, StoreTypeOK
<1>10. PICK x \in Programs(RowOf(logicalSlice'[k]), y) :
         nand' = [nand EXCEPT ![RowOf(logicalSlice'[k])] = x]
  BY <1>7 DEF Program
<1>11. x \in {y, Broken} /\ (x # y => failing)
  BY <1>10 DEF Programs, StoreInv
<1>12. /\ x \in written \cup {Broken}
       /\ \/ x = Content(logicalSlice[k])
          \/ x = Broken /\ (failing \/ refusing)
          \/ x \in written /\ refusing
  BY <1>8, <1>11
<1> QED
  BY <1>1, <1>4, <1>5, <1>6, <1>9, <1>10, <1>12

\* Every step keeps StoreInv and programs the flash in order.
LEMMA StoreInvStep ==
  ASSUME PagesFit, IInv, StoreInv, [StoreNext]_storeVars
  PROVE  StoreInv' /\ StepInOrder
<1> USE DEF StoreInv
<1>1. ASSUME NEW l \in LogicalSlices, NEW x \in Values, EvictDataBufEntry(l, x)
      PROVE  StoreInv' /\ StepInOrder
  <2>1. /\ UNCHANGED <<nand, unerased, tempDataBuf, failing, refusing, currentPage>>
        /\ data' = x /\ written' = written \cup {x}
        /\ latest' = [latest EXCEPT ![l] = x]
    BY <1>1 DEF EvictDataBufEntry, AddrTransWrite, modes
  <2>2. PagesFollowMap' /\ StepInOrder
    BY <2>1, FlashUnchanged
  <2>3. StoreTypeOK'
    BY <2>1 DEF StoreTypeOK
  <2> QED
    BY <2>1, <2>2, <2>3
<1>2. CASE ProgramSlice
  <2>1. PICK b \in Blocks, x \in {data, Broken} :
          /\ ~ IsFull(targetDie, b)
          /\ PlaceSlice(lsa, targetDie, b)
          /\ nand' = [nand EXCEPT ![RowOf(logicalSlice'[lsa])] = x]
          /\ lsa \in LogicalSlices
          /\ data \in written /\ pc' = "idle"
    BY <1>2, ProgramSliceStep
  <2>2. data' = Blank
        /\ UNCHANGED <<unerased, tempDataBuf, failing, refusing, latest, written>>
    BY <1>2 DEF ProgramSlice, modes, history
  <2>3. x \in written \cup {Broken}
    BY <2>1
  <2>4. /\ nand' \in [Rows -> written' \cup {Blank, Broken}]
        /\ PagesFollowMap' /\ StepInOrder
    BY <2>1, <2>2, <2>3, PageProgrammed
  <2> QED
    BY <2>1, <2>2, <2>4 DEF StoreTypeOK
<1>3. CASE BeginCollection
  <2>1. /\ UNCHANGED <<nand, unerased, data, tempDataBuf, failing, refusing,
                       latest, written, currentPage>>
        /\ pc = "allocate"
    BY <1>3 DEF BeginCollection, SelectVictim, modes, history
  <2>2. PagesFollowMap' /\ StepInOrder
    BY <2>1, FlashUnchanged
  <2> QED
    BY <2>1, <2>2 DEF StoreTypeOK
<1>4. CASE CopySlice
  <2>1. PICK k \in LogicalSlices, b \in Blocks, x \in written \cup {Broken} :
          /\ ~ IsFull(targetDie, b)
          /\ PlaceSlice(k, targetDie, b)
          /\ nand' = [nand EXCEPT ![RowOf(logicalSlice'[k])] = x]
          /\ tempDataBuf' \in [Dies -> written \cup {Broken}]
    BY <1>4, CopySliceStep
  <2>2. UNCHANGED <<data, unerased, failing, refusing, latest, written, pc>>
    BY <1>4 DEF CopySlice, CopyValidPage, modes, history
  <2>3. /\ nand' \in [Rows -> written' \cup {Blank, Broken}]
        /\ PagesFollowMap' /\ StepInOrder
    BY <2>1, <2>2, PageProgrammed
  <2> QED
    BY <2>1, <2>2, <2>3 DEF StoreTypeOK
<1>5. CASE EraseSlices
  <2>1. /\ pc = "collect"
        /\ UNCHANGED <<data, tempDataBuf, failing, refusing, latest, written>>
        /\ currentPage' = [currentPage EXCEPT ![<<targetDie, victim>>] = 0]
        /\ targetDie \in Dies /\ victim \in Blocks
    BY <1>5 DEF EraseSlices, EraseBlock, FinishCollection, IInv, CallConsistent,
                TypeOK, modes, history
  <2>2. PICK x \in {Blank, Broken} :
          /\ nand' = Erased(x)
          /\ x = Blank => unerased' = unerased \ {<<targetDie, victim>>}
          /\ x = Broken =>
               failing /\ unerased' = unerased \cup {<<targetDie, victim>>}
    BY <1>5, BrokenAssumption DEF EraseSlices
  <2>3. nand' \in [Rows -> written' \cup {Blank, Broken}]
    BY <2>1, <2>2 DEF Erased, StoreTypeOK
  <2>4. ASSUME NEW e \in Dies, NEW c \in Blocks, NEW p \in Pages
        PROVE  /\ p < currentPage'[<<e, c>>] => ContentAfter(<<e, c, p>>) # Blank
               /\ ContentAfter(<<e, c, p>>) # Blank /\ <<e, c>> \notin unerased' =>
                    p < currentPage'[<<e, c>>]
               /\ InOrder(e, c, p)
    <3>1. <<e, c, p>> \in Vsas /\ <<e, c>> \in DieBlocks
      BY DEF Vsas, DieBlocks
    <3>2. Content(<<e, c, p>>)' = ContentAfter(<<e, c, p>>)
      BY DEF Content, ContentAfter
    <3>3. CASE e = targetDie /\ c = victim
      <4>1. ContentAfter(<<e, c, p>>) = x
        BY <2>2, <3>1, <3>3, ContentErased
      <4>2. currentPage'[<<e, c>>] = 0 /\ ~ (p < 0)
        BY <2>1, <3>1, <3>3 DEF IInv, TypeOK, Pages
      <4>3. x # Blank => <<e, c>> \in unerased'
        BY <2>2, <3>3
      <4> QED
        BY <3>2, <4>1, <4>2, <4>3 DEF InOrder
    <3>4. CASE ~ (e = targetDie /\ c = victim)
      <4>1. ContentAfter(<<e, c, p>>) = Content(<<e, c, p>>)
        BY <2>2, <3>1, <3>4, ContentErased
      <4>2. currentPage'[<<e, c>>] = currentPage[<<e, c>>]
        BY <2>1, <3>1, <3>4 DEF IInv, TypeOK
      <4>3. <<e, c>> \in unerased' <=> <<e, c>> \in unerased
        BY <2>2, <3>4
      <4> QED
        BY <3>2, <4>1, <4>2, <4>3 DEF InOrder, PagesFollowMap, Programmed
    <3> QED
      BY <3>3, <3>4
  <2>5. PagesFollowMap'
    BY <2>4 DEF PagesFollowMap, Programmed, Content, ContentAfter
  <2>6. StepInOrder
    BY <2>4 DEF StepInOrder
  <2>7. ~ failing => unerased' = {}
    BY <2>2
  <2>8. data \in written
    BY <2>1
  <2> QED
    BY <2>1, <2>3, <2>5, <2>6, <2>7, <2>8 DEF StoreTypeOK
<1>6. CASE UNCHANGED storeVars
  <2>1. UNCHANGED <<nand, unerased, data, tempDataBuf, failing, refusing, latest,
                    written, currentPage, pc>>
    BY <1>6 DEF storeVars, vars, modes, history
  <2>2. PagesFollowMap' /\ StepInOrder
    BY <2>1, FlashUnchanged
  <2> QED
    BY <2>1, <2>2 DEF StoreTypeOK
<1> QED
  BY <1>1, <1>2, <1>3, <1>4, <1>5, <1>6 DEF StoreNext

\* Programming a page that is not the home of any slice changes the stored
\* value of no slice but the one that moves there.
LEMMA PlacedElsewhere ==
  ASSUME PagesFit, IInv, StoreInv,
         NEW k \in LogicalSlices, NEW b \in Blocks, ~ IsFull(targetDie, b),
         PlaceSlice(k, targetDie, b), NEW x,
         nand' = [nand EXCEPT ![RowOf(logicalSlice'[k])] = x]
  PROVE  /\ logicalSlice'[k] # NONE
         /\ ContentAfter(logicalSlice'[k]) = x
         /\ \A l \in LogicalSlices :
              l # k => /\ logicalSlice'[l] = logicalSlice[l]
                       /\ logicalSlice[l] # NONE =>
                            ContentAfter(logicalSlice[l]) = Content(logicalSlice[l])
<1> DEFINE v == <<targetDie, b, currentPage[<<targetDie, b>>]>>
<1>1. TypeOK /\ MapsAgree
  BY DEF IInv
<1>2. v \in Vsas
  BY <1>1, PagesAssumption DEF TypeOK, DieBlocks, IsFull, Pages, Vsas
<1>3. logicalSlice' = [logicalSlice EXCEPT ![k] = v] /\ logicalSlice'[k] = v
  BY <1>1 DEF PlaceSlice, TypeOK
<1>4. /\ ContentAfter(v) = x
      /\ \A w \in Vsas : w # v => ContentAfter(w) = Content(w)
  <2>1. nand' = [nand EXCEPT ![RowOf(v)] = x]
    BY <1>3
  <2>2. nand \in [Rows -> written \cup {Blank, Broken}]
    BY DEF StoreInv, StoreTypeOK
  <2> HIDE DEF v
  <2> QED
    BY <1>2, <2>1, <2>2, ContentProgrammed
<1>5. ASSUME NEW l \in LogicalSlices, l # k, logicalSlice[l] # NONE
      PROVE  ContentAfter(logicalSlice[l]) = Content(logicalSlice[l])
  <2>1. PICK d \in Dies, c \in Blocks, p \in Pages :
          logicalSlice[l] = <<d, c, p>> /\ p < currentPage[<<d, c>>]
    BY <1>1, <1>5, MappedSlice
  <2>2. p # currentPage[<<d, c>>]
    BY <1>1, <2>1 DEF TypeOK, DieBlocks, Pages
  <2>3. <<d, c, p>> # v /\ <<d, c, p>> \in Vsas
    BY <2>2 DEF Vsas
  <2> QED
    BY <1>4, <2>1, <2>3
<1>6. v # NONE
  BY <1>2, VsaAssumption
<1>7. \A l \in LogicalSlices : l # k => logicalSlice'[l] = logicalSlice[l]
  BY <1>1, <1>3 DEF TypeOK
<1> QED
  BY <1>3, <1>4, <1>5, <1>6, <1>7

\* The stored values as one function of the slices.
View == [l \in LogicalSlices |-> StoredValue(l)]

\* The stored value of slice k becomes x, and no other changes.
Becomes(k, x) == View' = [View EXCEPT ![k] = x]

\* It is so when the values of the slices say it one by one.
LEMMA BecomesByParts ==
  ASSUME NEW k \in LogicalSlices, NEW x, StoredValue(k)' = x,
         \A l \in LogicalSlices : l # k => StoredValue(l)' = StoredValue(l)
  PROVE  Becomes(k, x)
BY DEF Becomes, View

\* What a step may do to the store.
Writes == \E l \in LogicalSlices, x \in Values :
            /\ Becomes(l, x)
            /\ latest' = [latest EXCEPT ![l] = x]
            /\ written' = written \cup {x}
Loses  == \E l \in LogicalSlices :
            /\ failing \/ refusing
            /\ View[l] # Blank
            /\ Becomes(l, Broken)
            /\ UNCHANGED history
Mixes  == \E l \in LogicalSlices, x \in Values :
            /\ refusing
            /\ View[l] # Blank
            /\ x \in written
            /\ Becomes(l, x)
            /\ UNCHANGED history
Keeps  == View' = View /\ UNCHANGED history

\* Every step writes one value to one slice, loses or replaces the value of one
\* where that may happen, or leaves the store as it is.
LEMMA StoreStep ==
  ASSUME PagesFit, IInv, StoreInv, [StoreNext]_storeVars
  PROVE  (Writes \/ Loses \/ Mixes \/ Keeps) /\ UNCHANGED modes
<1>1. ASSUME NEW k \in LogicalSlices, NEW x \in Values, EvictDataBufEntry(k, x)
      PROVE  Writes /\ UNCHANGED modes
  <2>1. /\ lsa = NONE /\ lsa' = k /\ data' = x /\ nand' = nand
        /\ k # NONE /\ UNCHANGED modes
        /\ latest' = [latest EXCEPT ![k] = x] /\ written' = written \cup {x}
    BY <1>1, SlicesAssumption
    DEF EvictDataBufEntry, AddrTransWrite, IInv, CallConsistent
  <2>2. ASSUME NEW l \in LogicalSlices, l # k
        PROVE  StoredValue(l)' = StoredValue(l)
    <3>1. logicalSlice'[l] = logicalSlice[l]
      BY <1>1, <2>2
      DEF EvictDataBufEntry, AddrTransWrite, InvalidateOldVsa, IInv, TypeOK
    <3>2. l # lsa /\ l # lsa'
      BY <2>1, <2>2, SlicesAssumption
    <3> QED
      BY <2>1, <3>1, <3>2 DEF StoredValue, AddrTransRead, Content
  <2>3. StoredValue(k)' = x
    BY <2>1 DEF StoredValue
  <2>4. Becomes(k, x)
    BY <2>2, <2>3, BecomesByParts
  <2> QED
    BY <2>1, <2>4 DEF Writes
<1>2. CASE ProgramSlice
  <2>1. PICK b \in Blocks, x \in {data, Broken} :
          /\ ~ IsFull(targetDie, b)
          /\ PlaceSlice(lsa, targetDie, b)
          /\ nand' = [nand EXCEPT ![RowOf(logicalSlice'[lsa])] = x]
          /\ lsa \in LogicalSlices /\ lsa' = NONE
          /\ data \in written
          /\ x # data => failing
    BY <1>2, ProgramSliceStep
  <2>2. UNCHANGED modes /\ UNCHANGED history
    BY <1>2 DEF ProgramSlice
  <2>3. /\ logicalSlice'[lsa] # NONE
        /\ ContentAfter(logicalSlice'[lsa]) = x
        /\ \A l \in LogicalSlices :
             l # lsa => /\ logicalSlice'[l] = logicalSlice[l]
                        /\ logicalSlice[l] # NONE =>
                             ContentAfter(logicalSlice[l]) = Content(logicalSlice[l])
    BY <2>1, PlacedElsewhere
  <2>4. ASSUME NEW l \in LogicalSlices
        PROVE  StoredValue(l)' = IF l = lsa THEN x ELSE StoredValue(l)
    <3>1. l # lsa'
      BY <2>1, SlicesAssumption
    <3> QED
      BY <2>3, <3>1 DEF StoredValue, AddrTransRead, Content, ContentAfter
  <2>5. StoredValue(lsa) = data /\ data # Blank
    BY <2>1, BlankAssumption DEF StoredValue, StoreInv, StoreTypeOK
  <2>6. CASE x = data
    <3>1. View' = View
      BY <2>4, <2>5, <2>6 DEF View
    <3> QED
      BY <2>2, <3>1 DEF Keeps
  <2>7. CASE x = Broken /\ x # data
    <3>1. View[lsa] # Blank
      BY <2>1, <2>5 DEF View
    <3>2. Becomes(lsa, Broken)
      BY <2>1, <2>4, <2>7, BecomesByParts
    <3> QED
      BY <2>1, <2>2, <2>7, <3>1, <3>2 DEF Loses
  <2> QED
    BY <2>6, <2>7
<1>3. CASE BeginCollection
  <2>1. UNCHANGED <<logicalSlice, lsa, nand, data, modes, history>>
    BY <1>3 DEF BeginCollection, SelectVictim
  <2> QED
    BY <2>1 DEF Keeps, View, StoredValue, AddrTransRead, Content
<1>4. CASE CopySlice
  <2>1. PICK k \in LogicalSlices, b \in Blocks, x \in written \cup {Broken} :
          /\ ~ IsFull(targetDie, b)
          /\ PlaceSlice(k, targetDie, b)
          /\ logicalSlice[k] # NONE /\ logicalSlice[lsa] = NONE
          /\ Content(logicalSlice[k]) \in written \cup {Broken}
          /\ nand' = [nand EXCEPT ![RowOf(logicalSlice'[k])] = x]
          /\ \/ x = Content(logicalSlice[k])
             \/ x = Broken /\ (failing \/ refusing)
             \/ x \in written /\ refusing
    BY <1>4, CopySliceStep
  <2>2. UNCHANGED <<lsa, data, modes, history>>
    BY <1>4 DEF CopySlice, CopyValidPage
  <2>3. /\ logicalSlice'[k] # NONE
        /\ ContentAfter(logicalSlice'[k]) = x
        /\ \A l \in LogicalSlices :
             l # k => /\ logicalSlice'[l] = logicalSlice[l]
                      /\ logicalSlice[l] # NONE =>
                           ContentAfter(logicalSlice[l]) = Content(logicalSlice[l])
    BY <2>1, PlacedElsewhere
  <2>4. k # lsa
    BY <2>1
  <2>5. StoredValue(k) = Content(logicalSlice[k])
    BY <2>1, <2>4 DEF StoredValue, AddrTransRead
  <2>6. View[k] # Blank
    <3>1. Blank \notin written \cup {Broken}
      BY BlankAssumption, BrokenAssumption DEF StoreInv, StoreTypeOK
    <3> QED
      BY <2>1, <2>5, <3>1 DEF View
  <2>7. ASSUME NEW l \in LogicalSlices
        PROVE  StoredValue(l)' = IF l = k THEN x ELSE StoredValue(l)
    BY <2>2, <2>3, <2>4 DEF StoredValue, AddrTransRead, Content, ContentAfter
  <2>8. Becomes(k, x)
    BY <2>7, BecomesByParts
  <2>9. CASE x = Content(logicalSlice[k])
    <3>1. View' = View
      BY <2>5, <2>7, <2>9 DEF View
    <3> QED
      BY <2>2, <3>1 DEF Keeps
  <2>10. CASE x = Broken /\ (failing \/ refusing)
    BY <2>2, <2>6, <2>8, <2>10 DEF Loses
  <2>11. CASE x \in written /\ refusing
    <3>1. x \in Values
      BY <2>11 DEF StoreInv, StoreTypeOK
    <3> QED
      BY <2>2, <2>6, <2>8, <2>11, <3>1 DEF Mixes
  <2> QED
    BY <2>1, <2>9, <2>10, <2>11
<1>5. CASE EraseSlices
  <2>1. /\ pc = "collect" /\ ~ MustCopy
        /\ UNCHANGED <<logicalSlice, lsa, data, modes, history>>
    BY <1>5 DEF EraseSlices, EraseBlock, FinishCollection
  <2>2. \A l \in LogicalSlices, p \in Pages :
          logicalSlice[l] # <<targetDie, victim, p>>
    BY <2>1, VictimDead
  <2>3. ASSUME NEW l \in LogicalSlices, logicalSlice[l] # NONE
        PROVE  ContentAfter(logicalSlice[l]) = Content(logicalSlice[l])
    <3>1. PICK d \in Dies, b \in Blocks, p \in Pages : logicalSlice[l] = <<d, b, p>>
      BY <2>3 DEF IInv, TypeOK, Vsas
    <3>2. <<d, b, p>> \in Vsas /\ ~ (d = targetDie /\ b = victim)
      BY <2>2, <3>1 DEF Vsas
    <3>3. PICK x : nand' = Erased(x)
      BY <1>5 DEF EraseSlices
    <3> QED
      BY <3>1, <3>2, <3>3, ContentErased
  <2>4. ASSUME NEW l \in LogicalSlices
        PROVE  StoredValue(l)' = StoredValue(l)
    BY <2>1, <2>3 DEF StoredValue, AddrTransRead, Content, ContentAfter
  <2> QED
    BY <2>1, <2>4 DEF View, Keeps
<1>6. CASE UNCHANGED storeVars
  <2>1. UNCHANGED <<logicalSlice, lsa, nand, data, modes, history>>
    BY <1>6 DEF storeVars, vars
  <2> QED
    BY <2>1 DEF Keeps, View, StoredValue, AddrTransRead, Content
<1> QED
  BY <1>1, <1>2, <1>3, <1>4, <1>5, <1>6 DEF StoreNext

\* Both invariants hold throughout.
LEMMA StoreInvariants ==
  ASSUME CurrentStaysLive, PagesFit
  PROVE  StoreSpec => [](IInv /\ StoreInv)
<1>1. StoreInit => Init /\ StoreInv
  <2> SUFFICES ASSUME StoreInit PROVE Init /\ StoreInv
    OBVIOUS
  <2>1. StoreTypeOK
    BY DEF StoreInit, StoreTypeOK
  <2>2. PagesFollowMap
    <3> SUFFICES ASSUME NEW d \in Dies, NEW b \in Blocks, NEW p \in Pages
                 PROVE  ~ (p < currentPage[<<d, b>>]) /\ ~ Programmed(<<d, b, p>>)
      BY DEF PagesFollowMap
    <3>1. <<d, b, p>> \in Vsas /\ <<d, b>> \in DieBlocks /\ p \in Nat
      BY DEF Vsas, DieBlocks, Pages
    <3>2. RowOf(<<d, b, p>>) \in Rows
      BY <3>1 DEF Rows
    <3> QED
      BY <3>1, <3>2 DEF StoreInit, Init, InitBlockMap, Programmed, Content, Pages
  <2> QED
    BY <2>1, <2>2 DEF StoreInit, Init, StoreInv
<1>2. [StoreNext]_storeVars => [Next]_vars
  BY DEF StoreNext, storeVars, EvictDataBufEntry, ProgramSlice, BeginCollection,
         CopySlice, EraseSlices, Next, Internal
<1>3. StoreSpec => Spec
  BY <1>1, <1>2, PTL DEF StoreSpec, Spec
<1>4. IInv /\ StoreInv /\ [StoreNext]_storeVars => StoreInv'
  BY StoreInvStep
<1> QED
  BY <1>1, <1>3, <1>4, Inductive, PTL DEF StoreSpec

\* The slice map, garbage collection and the flash pages implement a store: on a
\* device of any size whose blocks have rows for all their pages, a slice reads
\* back what was written to it last; where programs and erases fail, that or
\* nothing; and only where a die refuses reads, something else that was written.
THEOREM StoreRefinement ==
  CurrentStaysLive /\ PagesFit /\ StoreSpec => ImplementsStore
<1> SUFFICES ASSUME CurrentStaysLive, PagesFit PROVE StoreSpec => ImplementsStore
  OBVIOUS
<1>1. StoreSpec => [](IInv /\ StoreInv)
  BY StoreInvariants
<1>2. StoreInit => Abstract!Init
  <2> SUFFICES ASSUME StoreInit PROVE Abstract!Init
    OBVIOUS
  <2>1. ASSUME NEW l \in LogicalSlices PROVE StoredValue(l) = Blank
    BY SlicesAssumption
    DEF StoreInit, Init, InitSliceMap, StoredValue, AddrTransRead
  <2> QED
    BY <2>1 DEF StoreInit, Abstract!Init
<1>3. IInv /\ StoreInv /\ [StoreNext]_storeVars
        => [Abstract!Next]_<<[l \in LogicalSlices |-> StoredValue(l)],
                             latest, written, failing, refusing>>
  <2> SUFFICES ASSUME IInv, StoreInv, [StoreNext]_storeVars
               PROVE  \/ Abstract!Next
                      \/ UNCHANGED <<View, latest, written, failing, refusing>>
    BY DEF View
  <2>1. UNCHANGED <<failing, refusing>>
    BY StoreStep DEF modes
  <2>2. CASE Writes
    BY <2>1, <2>2 DEF Writes, Becomes, View, Abstract!Next, Abstract!Write
  <2>3. CASE Loses
    BY <2>1, <2>3 DEF Loses, Becomes, View, history, Abstract!Next, Abstract!Lose
  <2>4. CASE Mixes
    BY <2>1, <2>4 DEF Mixes, Becomes, View, history, Abstract!Next, Abstract!Mix
  <2>5. CASE Keeps
    BY <2>1, <2>5 DEF Keeps, history
  <2> QED
    BY <2>2, <2>3, <2>4, <2>5, StoreStep
<1> QED
  BY <1>1, <1>2, <1>3, PTL DEF StoreSpec, ImplementsStore, Abstract!Spec

\* Flash of any size is programmed in order and on erased pages only, but for the
\* blocks that could not be erased.
THEOREM FlashProgrammedInOrder ==
  CurrentStaysLive /\ PagesFit /\ StoreSpec => ProgramsInOrder
<1> SUFFICES ASSUME CurrentStaysLive, PagesFit PROVE StoreSpec => ProgramsInOrder
  OBVIOUS
<1>1. StoreSpec => [](IInv /\ StoreInv)
  BY StoreInvariants
<1>2. IInv /\ StoreInv /\ [StoreNext]_storeVars => [StepInOrder]_storeVars
  BY StoreInvStep
<1>3. StepInOrder =>
        \A d \in Dies, b \in Blocks, p \in Pages :
          /\ Content(<<d, b, p>>)' # Content(<<d, b, p>>)
          /\ Content(<<d, b, p>>)' # Blank
          /\ <<d, b>> \notin unerased'
          => /\ ~ Programmed(<<d, b, p>>)
             /\ \A q \in 0 .. p - 1 : Programmed(<<d, b, q>>)
  BY DEF StepInOrder, InOrder
<1> QED
  BY <1>1, <1>2, <1>3, PTL DEF StoreSpec, ProgramsInOrder
=============================================================================
