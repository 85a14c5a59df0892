-------------------------- MODULE BlockLinksProofs --------------------------
(***************************************************************************)
(* Proofs that the linked lists of BlockLinks are the lists of AddressMap, *)
(* for any number of dies, blocks, pages and logical slices, when          *)
(* CurrentStaysLive holds.                                                 *)
(*                                                                         *)
(* The links of one die are looked at through four functions: the next and *)
(* the previous block of a block, the head and the tail of a list.  List 0 *)
(* is the free list here, list n > 0 the victim list of count n.           *)
(***************************************************************************)
EXTENDS BlockLinks, AddressMapProofs

Keys == 0 .. SLICES_PER_BLOCK
Ptrs == Blocks \cup {NONE}

\* The links nx, pv form the list s, from head h to tail t.
Thread(nx, pv, h, t, s) ==
  /\ h = IF s = <<>> THEN NONE ELSE s[1]
  /\ t = IF s = <<>> THEN NONE ELSE s[Len(s)]
  /\ \A i \in 1 .. Len(s) :
       /\ nx[s[i]] = IF i = Len(s) THEN NONE ELSE s[i + 1]
       /\ pv[s[i]] = IF i = 1 THEN NONE ELSE s[i - 1]

\* What putting block b at the tail of list m does to the links.
PutLinks(m, b, nx, pv, hd, tl, nx2, pv2, hd2, tl2) ==
  /\ \A x \in Blocks : nx2[x] = IF x = tl[m] THEN b
                                ELSE IF x = b THEN NONE ELSE nx[x]
  /\ \A x \in Blocks : pv2[x] = IF x = b THEN tl[m] ELSE pv[x]
  /\ \A j \in Keys : hd2[j] = IF j = m /\ tl[m] = NONE THEN b ELSE hd[j]
  /\ \A j \in Keys : tl2[j] = IF j = m THEN b ELSE tl[j]

\* What taking the head b of list m does, to the links of the other blocks.
TakeLinks(m, b, nx, pv, hd, tl, nx2, pv2, hd2, tl2) ==
  /\ \A x \in Blocks : x # b => nx2[x] = nx[x]
  /\ \A x \in Blocks : x # b => pv2[x] = IF x = nx[b] THEN NONE ELSE pv[x]
  /\ \A j \in Keys : hd2[j] = IF j = m THEN nx[b] ELSE hd[j]
  /\ \A j \in Keys : tl2[j] = IF j = m /\ nx[b] = NONE THEN NONE ELSE tl[j]

\* What taking block b out of list m does.
CutLinks(m, b, nx, pv, hd, tl, nx2, pv2, hd2, tl2) ==
  /\ \A x \in Blocks : nx2[x] = IF x = pv[b] THEN nx[b] ELSE nx[x]
  /\ \A x \in Blocks : pv2[x] = IF x = nx[b] THEN pv[b] ELSE pv[x]
  /\ \A j \in Keys : hd2[j] = IF j = m /\ pv[b] = NONE THEN nx[b] ELSE hd[j]
  /\ \A j \in Keys : tl2[j] = IF j = m /\ nx[b] = NONE THEN pv[b] ELSE tl[j]

-----------------------------------------------------------------------------
(* One list. *)

\* The blocks of a list are blocks, and none of them is NONE.
LEMMA SeqFacts ==
  ASSUME NEW s \in Seq(Blocks)
  PROVE  /\ Len(s) \in Nat
         /\ DOMAIN s = 1 .. Len(s)
         /\ \A i \in 1 .. Len(s) : s[i] \in Blocks /\ s[i] # NONE
         /\ s = <<>> <=> Len(s) = 0
<1>1. Len(s) \in Nat /\ DOMAIN s = 1 .. Len(s)
  BY LenProperties
<1>2. \A i \in 1 .. Len(s) : s[i] \in Blocks
  BY ElementOfSeq
<1>3. \A b \in Blocks : b # NONE
  BY SlicesAssumption, BlocksAssumption DEF Blocks
<1>4. s = <<>> <=> Len(s) = 0
  BY EmptySeq
<1> QED
  BY <1>1, <1>2, <1>3, <1>4

\* A list none of whose blocks is touched stays the list it is.
LEMMA FrameThread ==
  ASSUME NEW s \in Seq(Blocks), NEW nx, NEW pv, NEW nx2, NEW pv2, NEW h, NEW t,
         Thread(nx, pv, h, t, s),
         \A x \in Blocks : IsOn(s, x) => nx2[x] = nx[x] /\ pv2[x] = pv[x]
  PROVE  Thread(nx2, pv2, h, t, s)
<1>1. \A i \in 1 .. Len(s) : s[i] \in Blocks /\ IsOn(s, s[i])
  BY SeqFacts DEF IsOn
<1> QED
  BY <1>1 DEF Thread

\* Putting b at the tail.
LEMMA PutThread ==
  ASSUME NEW s \in Seq(Blocks), NEW b \in Blocks, NEW m \in Keys,
         NEW nx, NEW pv, NEW hd, NEW tl, NEW nx2, NEW pv2, NEW hd2, NEW tl2,
         Thread(nx, pv, hd[m], tl[m], s),
         \A x \in Blocks : AtMostOnce(s, x),
         ~ IsOn(s, b),
         PutLinks(m, b, nx, pv, hd, tl, nx2, pv2, hd2, tl2)
  PROVE  Thread(nx2, pv2, hd2[m], tl2[m], Append(s, b))
<1> DEFINE u == Append(s, b)
           N == Len(s)
<1>1. /\ N \in Nat
      /\ DOMAIN s = 1 .. N
      /\ \A i \in 1 .. N : s[i] \in Blocks /\ s[i] # NONE
      /\ s = <<>> <=> N = 0
      /\ b # NONE
  BY SeqFacts, SlicesAssumption, BlocksAssumption DEF Blocks
<1>2. /\ Len(u) = N + 1
      /\ \A i \in 1 .. N : u[i] = s[i]
      /\ u[N + 1] = b
      /\ u # <<>>
  BY AppendFacts
<1>3. /\ \A i \in 1 .. N : s[i] # b
      /\ \A i, j \in 1 .. N : s[i] = s[j] => i = j
  BY <1>1 DEF IsOn, AtMostOnce
<1>4. /\ hd[m] = IF N = 0 THEN NONE ELSE s[1]
      /\ tl[m] = IF N = 0 THEN NONE ELSE s[N]
      /\ \A i \in 1 .. N :
           /\ nx[s[i]] = IF i = N THEN NONE ELSE s[i + 1]
           /\ pv[s[i]] = IF i = 1 THEN NONE ELSE s[i - 1]
  BY <1>1 DEF Thread
<1>5. /\ \A x \in Blocks : nx2[x] = IF x = tl[m] THEN b
                                    ELSE IF x = b THEN NONE ELSE nx[x]
      /\ \A x \in Blocks : pv2[x] = IF x = b THEN tl[m] ELSE pv[x]
      /\ hd2[m] = IF tl[m] = NONE THEN b ELSE hd[m]
      /\ tl2[m] = b
  BY DEF PutLinks
<1> HIDE DEF u, N
<1>6. hd2[m] = u[1]
  BY <1>1, <1>2, <1>4, <1>5
<1>7. ASSUME NEW i \in 1 .. N + 1
      PROVE  nx2[u[i]] = IF i = N + 1 THEN NONE ELSE u[i + 1]
  <2>1. CASE i = N + 1
    <3>1. b # tl[m]
      BY <1>1, <1>3, <1>4
    <3> QED
      BY <1>2, <1>5, <2>1, <3>1
  <2>2. CASE i = N
    <3>1. N # 0 /\ N \in 1 .. N /\ s[N] \in Blocks
      BY <1>1, <2>2
    <3>2. nx2[s[N]] = b
      BY <1>4, <1>5, <3>1
    <3> QED
      BY <1>1, <1>2, <2>2, <3>1, <3>2
  <2>3. CASE i < N
    <3>1. /\ i \in 1 .. N /\ i + 1 \in 1 .. N /\ N \in 1 .. N
          /\ s[i] # s[N] /\ s[i] # b /\ s[i] \in Blocks
      BY <1>1, <1>3, <2>3
    <3>2. nx2[s[i]] = s[i + 1]
      BY <1>1, <1>4, <1>5, <2>3, <3>1
    <3> QED
      BY <1>1, <1>2, <2>3, <3>1, <3>2
  <2> QED
    BY <1>1, <2>1, <2>2, <2>3
<1>8. ASSUME NEW i \in 1 .. N + 1
      PROVE  pv2[u[i]] = IF i = 1 THEN NONE ELSE u[i - 1]
  <2>1. CASE i = N + 1
    <3>1. pv2[u[i]] = tl[m]
      BY <1>2, <1>5, <2>1
    <3>2. i - 1 = N /\ (N # 0 => N \in 1 .. N)
      BY <1>1, <2>1
    <3> QED
      BY <1>1, <1>2, <1>4, <2>1, <3>1, <3>2
  <2>2. CASE i \in 1 .. N
    <3>1. s[i] # b /\ s[i] \in Blocks /\ u[i] = s[i]
      BY <1>1, <1>2, <1>3, <2>2
    <3>2. pv2[u[i]] = IF i = 1 THEN NONE ELSE s[i - 1]
      BY <1>4, <1>5, <2>2, <3>1
    <3>3. i # 1 => i - 1 \in 1 .. N
      BY <1>1, <2>2
    <3> QED
      BY <1>2, <3>2, <3>3
  <2> QED
    BY <1>1, <2>1, <2>2
<1>9. Thread(nx2, pv2, hd2[m], tl2[m], u)
  BY <1>1, <1>2, <1>5, <1>6, <1>7, <1>8 DEF Thread
<1> QED
  BY <1>9 DEF u

\* Taking the head.
LEMMA TakeThread ==
  ASSUME NEW s \in Seq(Blocks), s # <<>>, NEW m \in Keys,
         NEW nx, NEW pv, NEW hd, NEW tl, NEW nx2, NEW pv2, NEW hd2, NEW tl2,
         Thread(nx, pv, hd[m], tl[m], s),
         \A x \in Blocks : AtMostOnce(s, x),
         TakeLinks(m, s[1], nx, pv, hd, tl, nx2, pv2, hd2, tl2)
  PROVE  Thread(nx2, pv2, hd2[m], tl2[m], Tail(s))
<1> DEFINE u == Tail(s)
           N == Len(s)
           b == s[1]
<1>1. /\ N \in Nat \ {0}
      /\ DOMAIN s = 1 .. N
      /\ \A i \in 1 .. N : s[i] \in Blocks /\ s[i] # NONE
  BY SeqFacts
<1>2. /\ Len(u) = N - 1
      /\ \A i \in 1 .. N - 1 : u[i] = s[i + 1]
      /\ u \in Seq(Blocks)
  BY HeadTailProperties
<1>3. u = <<>> <=> N = 1
  <2>1. u = <<>> <=> Len(u) = 0
    BY <1>2, EmptySeq
  <2> QED
    BY <1>1, <1>2, <2>1
<1>4. \A i, j \in 1 .. N : s[i] = s[j] => i = j
  BY <1>1 DEF AtMostOnce
<1>5. /\ tl[m] = s[N]
      /\ \A i \in 1 .. N :
           /\ nx[s[i]] = IF i = N THEN NONE ELSE s[i + 1]
           /\ pv[s[i]] = IF i = 1 THEN NONE ELSE s[i - 1]
  BY DEF Thread
<1>6. /\ \A x \in Blocks : x # b => nx2[x] = nx[x]
      /\ \A x \in Blocks : x # b => pv2[x] = IF x = nx[b] THEN NONE ELSE pv[x]
      /\ hd2[m] = nx[b]
      /\ tl2[m] = IF nx[b] = NONE THEN NONE ELSE tl[m]
  BY DEF TakeLinks
<1>7. nx[b] = IF N = 1 THEN NONE ELSE s[2]
  BY <1>1, <1>5
<1> HIDE DEF u, N, b
<1>8. /\ hd2[m] = IF u = <<>> THEN NONE ELSE u[1]
      /\ tl2[m] = IF u = <<>> THEN NONE ELSE u[Len(u)]
  <2>1. CASE N = 1
    BY <1>3, <1>6, <1>7, <2>1
  <2>2. CASE N # 1
    <3>1. /\ 1 \in 1 .. N - 1 /\ N - 1 \in 1 .. N - 1 /\ (N - 1) + 1 = N
          /\ 2 \in 1 .. N
      BY <1>1, <2>2
    <3> QED
      BY <1>1, <1>2, <1>3, <1>5, <1>6, <1>7, <2>2, <3>1
  <2> QED
    BY <2>1, <2>2
<1>9. ASSUME NEW i \in 1 .. N - 1
      PROVE  /\ nx2[u[i]] = IF i = N - 1 THEN NONE ELSE u[i + 1]
             /\ pv2[u[i]] = IF i = 1 THEN NONE ELSE u[i - 1]
  <2>1. /\ i + 1 \in 1 .. N /\ 1 \in 1 .. N /\ 2 \in 1 .. N
        /\ u[i] = s[i + 1]
        /\ s[i + 1] \in Blocks
        /\ i + 1 # 1
    BY <1>1, <1>2
  <2>2. s[i + 1] # b
    BY <1>4, <2>1 DEF b
  <2>3. nx2[u[i]] = IF i + 1 = N THEN NONE ELSE s[(i + 1) + 1]
    BY <1>5, <1>6, <2>1, <2>2
  <2>4. i # N - 1 => i + 1 \in 1 .. N - 1
    BY <1>1
  <2>5. nx2[u[i]] = IF i = N - 1 THEN NONE ELSE u[i + 1]
    <3>1. (i + 1 = N) <=> (i = N - 1)
      BY <1>1
    <3> QED
      BY <1>2, <2>3, <2>4, <3>1
  <2>6. nx[b] = s[2]
    BY <1>1, <1>7
  <2>7. CASE i = 1
    <3>1. u[i] = s[2] /\ s[2] \in Blocks /\ s[2] # b
      BY <2>1, <2>2, <2>7
    <3>2. pv2[u[i]] = NONE
      BY <1>6, <2>6, <3>1
    <3> QED
      BY <2>5, <2>7, <3>2
  <2>8. CASE i # 1
    <3>1. s[i + 1] # s[2]
      BY <1>1, <1>4, <2>1, <2>8
    <3>2. pv2[u[i]] = s[(i + 1) - 1]
      BY <1>5, <1>6, <2>1, <2>2, <2>6, <3>1
    <3>3. /\ (i + 1) - 1 = i /\ i - 1 \in 1 .. N - 1 /\ (i - 1) + 1 = i
      BY <1>1, <2>8
    <3> QED
      BY <1>2, <2>5, <2>8, <3>2, <3>3
  <2> QED
    BY <2>5, <2>7, <2>8
<1>10. Thread(nx2, pv2, hd2[m], tl2[m], u)
  BY <1>2, <1>8, <1>9 DEF Thread
<1> QED
  BY <1>10 DEF u

\* Taking a block out.
LEMMA CutThread ==
  ASSUME NEW s \in Seq(Blocks), NEW i \in 1 .. Len(s), NEW m \in Keys,
         NEW nx, NEW pv, NEW hd, NEW tl, NEW nx2, NEW pv2, NEW hd2, NEW tl2,
         Thread(nx, pv, hd[m], tl[m], s),
         \A x \in Blocks : AtMostOnce(s, x),
         CutLinks(m, s[i], nx, pv, hd, tl, nx2, pv2, hd2, tl2)
  PROVE  Thread(nx2, pv2, hd2[m], tl2[m], RemoveAt(s, i))
<1> DEFINE u == RemoveAt(s, i)
           N == Len(s)
           b == s[i]
<1>1. /\ N \in Nat \ {0}
      /\ i \in 1 .. N
      /\ DOMAIN s = 1 .. N
      /\ \A j \in 1 .. N : s[j] \in Blocks /\ s[j] # NONE
      /\ s # <<>>
  BY SeqFacts
<1>2. /\ Len(u) = N - 1
      /\ \A j \in 1 .. N - 1 : u[j] = IF j < i THEN s[j] ELSE s[j + 1]
      /\ u \in Seq(Blocks)
  BY RemoveAtFacts
<1>3. u = <<>> <=> N = 1
  BY <1>1, <1>2, SeqFacts
<1>4. \A j, k \in 1 .. N : s[j] = s[k] => j = k
  BY <1>1 DEF AtMostOnce
<1>5. /\ hd[m] = s[1]
      /\ tl[m] = s[N]
      /\ \A j \in 1 .. N : nx[s[j]] = IF j = N THEN NONE ELSE s[j + 1]
      /\ \A j \in 1 .. N : pv[s[j]] = IF j = 1 THEN NONE ELSE s[j - 1]
  BY <1>1 DEF Thread
<1>6. /\ \A x \in Blocks : nx2[x] = IF x = pv[b] THEN nx[b] ELSE nx[x]
      /\ \A x \in Blocks : pv2[x] = IF x = nx[b] THEN pv[b] ELSE pv[x]
      /\ hd2[m] = IF pv[b] = NONE THEN nx[b] ELSE hd[m]
      /\ tl2[m] = IF nx[b] = NONE THEN pv[b] ELSE tl[m]
  BY DEF CutLinks
<1>7. /\ nx[b] = IF i = N THEN NONE ELSE s[i + 1]
      /\ pv[b] = IF i = 1 THEN NONE ELSE s[i - 1]
  BY <1>1, <1>5
<1> HIDE DEF u, N, b
<1>8. hd2[m] = IF u = <<>> THEN NONE ELSE u[1]
  <2>1. CASE N = 1
    BY <1>1, <1>3, <1>6, <1>7, <2>1
  <2>2. CASE N # 1
    <3>1. 1 \in 1 .. N - 1 /\ (i # 1 => i - 1 \in 1 .. N) /\ (i = 1 => i # N)
      BY <1>1, <2>2
    <3>2. u[1] = IF i = 1 THEN s[2] ELSE s[1]
      BY <1>1, <1>2, <3>1
    <3> QED
      BY <1>1, <1>3, <1>5, <1>6, <1>7, <2>2, <3>1, <3>2
  <2> QED
    BY <2>1, <2>2
<1>9. tl2[m] = IF u = <<>> THEN NONE ELSE u[Len(u)]
  <2>1. CASE N = 1
    BY <1>1, <1>3, <1>6, <1>7, <2>1
  <2>2. CASE N # 1
    <3>1. N - 1 \in 1 .. N - 1 /\ (i # N => i + 1 \in 1 .. N)
          /\ (i = N => i # 1) /\ (N - 1) + 1 = N
      BY <1>1, <2>2
    <3>2. u[N - 1] = IF i = N THEN s[N - 1] ELSE s[N]
      BY <1>1, <1>2, <3>1
    <3> QED
      BY <1>1, <1>2, <1>3, <1>5, <1>6, <1>7, <2>2, <3>1, <3>2
  <2> QED
    BY <2>1, <2>2
<1>10. ASSUME NEW j \in 1 .. N - 1
       PROVE  nx2[u[j]] = IF j = N - 1 THEN NONE ELSE u[j + 1]
  <2>1. CASE j < i - 1
    <3>1. /\ j \in 1 .. N /\ j + 1 \in 1 .. N - 1 /\ j # N /\ j # N - 1
          /\ i - 1 \in 1 .. N /\ j # i - 1 /\ i # 1 /\ j < i /\ j + 1 < i
      BY <1>1, <2>1
    <3>2. u[j] = s[j] /\ u[j + 1] = s[j + 1]
      BY <1>2, <3>1
    <3>3. s[j] # s[i - 1] /\ s[j] \in Blocks
      BY <1>1, <1>4, <3>1
    <3> QED
      BY <1>5, <1>6, <1>7, <3>1, <3>2, <3>3
  <2>2. CASE j = i - 1
    <3>1. /\ j \in 1 .. N /\ i # 1 /\ j < i /\ ~ (j + 1 < i)
          /\ (j # N - 1 => j + 1 \in 1 .. N - 1)
          /\ (i = N <=> j = N - 1) /\ (j + 1) + 1 = i + 1
      BY <1>1, <2>2
    <3>2. u[j] = s[j] /\ s[j] \in Blocks /\ s[j] = pv[b]
      BY <1>1, <1>2, <1>7, <2>2, <3>1
    <3>3. nx2[u[j]] = nx[b]
      BY <1>6, <3>2
    <3>4. j # N - 1 => u[j + 1] = s[i + 1]
      BY <1>2, <3>1
    <3> QED
      BY <1>7, <3>1, <3>3, <3>4
  <2>3. CASE ~ (j < i)
    <3>1. /\ j + 1 \in 1 .. N /\ j + 1 # i - 1
          /\ (j # N - 1 => j + 1 \in 1 .. N - 1)
          /\ (j + 1 = N <=> j = N - 1) /\ ~ (j + 1 < i)
          /\ (i # 1 => i - 1 \in 1 .. N)
      BY <1>1, <2>3
    <3>2. u[j] = s[j + 1] /\ s[j + 1] \in Blocks /\ s[j + 1] # NONE
      BY <1>1, <1>2, <2>3, <3>1
    <3>3. s[j + 1] # pv[b]
      BY <1>4, <1>7, <3>1, <3>2
    <3>4. nx2[u[j]] = IF j + 1 = N THEN NONE ELSE s[(j + 1) + 1]
      BY <1>5, <1>6, <3>1, <3>2, <3>3
    <3>5. j # N - 1 => u[j + 1] = s[(j + 1) + 1]
      BY <1>2, <3>1
    <3> QED
      BY <3>1, <3>4, <3>5
  <2>4. j < i - 1 \/ j = i - 1 \/ ~ (j < i)
    BY <1>1
  <2> QED
    BY <2>1, <2>2, <2>3, <2>4
<1>11. ASSUME NEW j \in 1 .. N - 1
       PROVE  pv2[u[j]] = IF j = 1 THEN NONE ELSE u[j - 1]
  <2>1. CASE j < i
    <3>1. /\ j \in 1 .. N /\ j # i + 1 /\ (i # N => i + 1 \in 1 .. N)
          /\ (j # 1 => j - 1 \in 1 .. N - 1 /\ j - 1 < i)
      BY <1>1, <2>1
    <3>2. u[j] = s[j] /\ s[j] \in Blocks /\ s[j] # NONE
      BY <1>1, <1>2, <2>1, <3>1
    <3>3. s[j] # nx[b]
      BY <1>4, <1>7, <3>1, <3>2
    <3>4. pv2[u[j]] = IF j = 1 THEN NONE ELSE s[j - 1]
      BY <1>5, <1>6, <3>1, <3>2, <3>3
    <3>5. j # 1 => u[j - 1] = s[j - 1]
      BY <1>2, <3>1
    <3> QED
      BY <3>4, <3>5
  <2>2. CASE j = i
    <3>1. /\ j + 1 \in 1 .. N /\ i # N /\ ~ (j < i)
          /\ (j # 1 => j - 1 \in 1 .. N - 1 /\ j - 1 < i)
      BY <1>1, <2>2
    <3>2. u[j] = s[i + 1] /\ s[i + 1] \in Blocks /\ s[i + 1] = nx[b]
      BY <1>1, <1>2, <1>7, <2>2, <3>1
    <3>3. pv2[u[j]] = pv[b]
      BY <1>6, <3>2
    <3>4. j # 1 => u[j - 1] = s[i - 1]
      BY <1>2, <2>2, <3>1
    <3> QED
      BY <1>7, <2>2, <3>3, <3>4
  <2>3. CASE j > i
    <3>1. /\ j + 1 \in 1 .. N /\ i + 1 \in 1 .. N /\ i # N /\ ~ (j < i)
          /\ j # 1 /\ j + 1 # 1 /\ j - 1 \in 1 .. N - 1 /\ ~ (j - 1 < i)
          /\ j + 1 # i + 1 /\ (j - 1) + 1 = j /\ (j + 1) - 1 = j
      BY <1>1, <2>3
    <3>2. u[j] = s[j + 1] /\ s[j + 1] \in Blocks /\ u[j - 1] = s[j]
      BY <1>1, <1>2, <3>1
    <3>3. s[j + 1] # nx[b]
      BY <1>4, <1>7, <3>1
    <3>4. pv2[u[j]] = s[j]
      BY <1>5, <1>6, <3>1, <3>2, <3>3
    <3> QED
      BY <3>1, <3>2, <3>4
  <2>4. j < i \/ j = i \/ j > i
    BY <1>1
  <2> QED
    BY <2>1, <2>2, <2>3, <2>4
<1>12. Thread(nx2, pv2, hd2[m], tl2[m], u)
  BY <1>2, <1>8, <1>9, <1>10, <1>11 DEF Thread
<1> QED
  BY <1>12 DEF u


-----------------------------------------------------------------------------
(* The lists of one die: ls is the family of its lists.                     *)

Linked(nx, pv, hd, tl, ls) ==
  \A j \in Keys : Thread(nx, pv, hd[j], tl[j], ls[j])

\* A block is on one list at most, and on that one once.
Apart(ls) ==
  /\ \A j \in Keys : \A x \in Blocks : AtMostOnce(ls[j], x)
  /\ \A i, j \in Keys : \A x \in Blocks :
       IsOn(ls[i], x) /\ IsOn(ls[j], x) => i = j

\* A step that changes the links of blocks on list m, and of block b, only.
OnlyOf(m, b, nx, pv, ls, nx2, pv2) ==
  \A x \in Blocks :
    ~ IsOn(ls[m], x) /\ x # b => nx2[x] = nx[x] /\ pv2[x] = pv[x]

\* A step on list m and block b, which is on none of the other lists.
StepOn(m, b, ls, nx, pv, hd, tl, nx2, pv2, hd2, tl2) ==
  /\ Linked(nx, pv, hd, tl, ls)
  /\ Apart(ls)
  /\ OnlyOf(m, b, nx, pv, ls, nx2, pv2)
  /\ \A j \in Keys : j # m => hd2[j] = hd[j] /\ tl2[j] = tl[j]
  /\ \A j \in Keys : j # m => ~ IsOn(ls[j], b)

\* The other lists survive such a step.
LEMMA OthersLinked ==
  ASSUME NEW ls \in [Keys -> Seq(Blocks)], NEW m \in Keys, NEW b \in Blocks,
         NEW nx, NEW pv, NEW hd, NEW tl, NEW nx2, NEW pv2, NEW hd2, NEW tl2,
         NEW s,
         StepOn(m, b, ls, nx, pv, hd, tl, nx2, pv2, hd2, tl2),
         Thread(nx2, pv2, hd2[m], tl2[m], s)
  PROVE  Linked(nx2, pv2, hd2, tl2, [ls EXCEPT ![m] = s])
<1>1. ASSUME NEW j \in Keys, j # m
      PROVE  Thread(nx2, pv2, hd2[j], tl2[j], ls[j])
  <2>1. \A x \in Blocks : IsOn(ls[j], x) => nx2[x] = nx[x] /\ pv2[x] = pv[x]
    <3>1. SUFFICES ASSUME NEW x \in Blocks, IsOn(ls[j], x)
                   PROVE  nx2[x] = nx[x] /\ pv2[x] = pv[x]
      OBVIOUS
    <3>2. ~ IsOn(ls[m], x)
      BY <1>1, <3>1 DEF Apart, StepOn
    <3>3. x # b
      BY <1>1, <3>1 DEF StepOn
    <3> QED
      BY <3>2, <3>3 DEF OnlyOf, StepOn
  <2>2. /\ Thread(nx, pv, hd[j], tl[j], ls[j])
        /\ ls[j] \in Seq(Blocks)
        /\ hd2[j] = hd[j] /\ tl2[j] = tl[j]
    BY <1>1 DEF Linked, StepOn
  <2>3. Thread(nx2, pv2, hd[j], tl[j], ls[j])
    BY <2>1, <2>2, FrameThread
  <2> QED
    BY <2>2, <2>3
<1> QED
  BY <1>1 DEF Linked

LEMMA PutLinked ==
  ASSUME NEW ls \in [Keys -> Seq(Blocks)], NEW m \in Keys, NEW b \in Blocks,
         NEW nx, NEW pv, NEW hd, NEW tl, NEW nx2, NEW pv2, NEW hd2, NEW tl2,
         Linked(nx, pv, hd, tl, ls), Apart(ls),
         \A j \in Keys : ~ IsOn(ls[j], b),
         PutLinks(m, b, nx, pv, hd, tl, nx2, pv2, hd2, tl2)
  PROVE  /\ Linked(nx2, pv2, hd2, tl2, [ls EXCEPT ![m] = Append(@, b)])
         /\ OnlyOf(m, b, nx, pv, ls, nx2, pv2)
<1>1. ls[m] \in Seq(Blocks) /\ Thread(nx, pv, hd[m], tl[m], ls[m])
  BY DEF Linked
<1>2. Thread(nx2, pv2, hd2[m], tl2[m], Append(ls[m], b))
  BY <1>1, PutThread DEF Apart
<1>3. tl[m] = NONE \/ IsOn(ls[m], tl[m])
  <2>1. ls[m] # <<>> => Len(ls[m]) \in DOMAIN ls[m]
    BY <1>1, SeqFacts
  <2> QED
    BY <1>1, <2>1 DEF Thread, IsOn
<1>4. OnlyOf(m, b, nx, pv, ls, nx2, pv2)
  <2>1. SUFFICES ASSUME NEW x \in Blocks, ~ IsOn(ls[m], x), x # b
                 PROVE  nx2[x] = nx[x] /\ pv2[x] = pv[x]
    BY DEF OnlyOf
  <2>2. x # NONE
    BY SlicesAssumption, BlocksAssumption DEF Blocks
  <2>3. x # tl[m]
    BY <1>3, <2>1, <2>2
  <2> QED
    BY <2>1, <2>3 DEF PutLinks
<1>5. \A j \in Keys : j # m => hd2[j] = hd[j] /\ tl2[j] = tl[j]
  BY DEF PutLinks
<1>6. StepOn(m, b, ls, nx, pv, hd, tl, nx2, pv2, hd2, tl2)
  BY <1>4, <1>5 DEF StepOn
<1> DEFINE s == Append(ls[m], b)
<1>7. Linked(nx2, pv2, hd2, tl2, [ls EXCEPT ![m] = s])
  <2>1. Thread(nx2, pv2, hd2[m], tl2[m], s)
    BY <1>2
  <2> HIDE DEF s
  <2> QED
    BY <1>6, <2>1, OthersLinked
<1> QED
  BY <1>4, <1>7

LEMMA TakeLinked ==
  ASSUME NEW ls \in [Keys -> Seq(Blocks)], NEW m \in Keys, ls[m] # <<>>,
         NEW nx, NEW pv, NEW hd, NEW tl, NEW nx2, NEW pv2, NEW hd2, NEW tl2,
         Linked(nx, pv, hd, tl, ls), Apart(ls),
         TakeLinks(m, hd[m], nx, pv, hd, tl, nx2, pv2, hd2, tl2)
  PROVE  /\ hd[m] = Head(ls[m])
         /\ hd[m] \in Blocks
         /\ Linked(nx2, pv2, hd2, tl2, [ls EXCEPT ![m] = Tail(@)])
         /\ OnlyOf(m, hd[m], nx, pv, ls, nx2, pv2)
<1>1. ls[m] \in Seq(Blocks) /\ Thread(nx, pv, hd[m], tl[m], ls[m])
  BY DEF Linked
<1>2. /\ 1 \in 1 .. Len(ls[m]) /\ DOMAIN ls[m] = 1 .. Len(ls[m])
      /\ ls[m][1] \in Blocks
  BY <1>1, SeqFacts
<1>3. /\ hd[m] = ls[m][1]
      /\ nx[hd[m]] = IF 1 = Len(ls[m]) THEN NONE ELSE ls[m][1 + 1]
  BY <1>1, <1>2 DEF Thread
<1>4. hd[m] = Head(ls[m])
  BY <1>1, <1>3, HeadTailProperties
<1>5. Thread(nx2, pv2, hd2[m], tl2[m], Tail(ls[m]))
  BY <1>1, <1>3, TakeThread DEF Apart
<1>6. nx[hd[m]] = NONE \/ IsOn(ls[m], nx[hd[m]])
  <2>1. 1 # Len(ls[m]) => 1 + 1 \in DOMAIN ls[m]
    BY <1>1, <1>2, SeqFacts
  <2> QED
    BY <1>3, <2>1 DEF IsOn
<1>7. OnlyOf(m, hd[m], nx, pv, ls, nx2, pv2)
  <2>1. SUFFICES ASSUME NEW x \in Blocks, ~ IsOn(ls[m], x), x # hd[m]
                 PROVE  nx2[x] = nx[x] /\ pv2[x] = pv[x]
    BY DEF OnlyOf
  <2>2. x # NONE
    BY SlicesAssumption, BlocksAssumption DEF Blocks
  <2>3. x # nx[hd[m]]
    BY <1>6, <2>1, <2>2
  <2> QED
    BY <2>1, <2>3 DEF TakeLinks
<1>8. \A j \in Keys : j # m => hd2[j] = hd[j] /\ tl2[j] = tl[j]
  BY DEF TakeLinks
<1>9. \A j \in Keys : j # m => ~ IsOn(ls[j], hd[m])
  <2>1. IsOn(ls[m], hd[m])
    BY <1>2, <1>3 DEF IsOn
  <2> QED
    BY <1>2, <1>3, <2>1 DEF Apart
<1> DEFINE s == Tail(ls[m])
<1>10. Linked(nx2, pv2, hd2, tl2, [ls EXCEPT ![m] = s])
  <2> HIDE DEF s
  <2>1. Thread(nx2, pv2, hd2[m], tl2[m], s) /\ hd[m] \in Blocks
    BY <1>2, <1>3, <1>5 DEF s
  <2>2. StepOn(m, hd[m], ls, nx, pv, hd, tl, nx2, pv2, hd2, tl2)
    BY <1>7, <1>8, <1>9 DEF StepOn
  <2> QED
    BY <2>1, <2>2, OthersLinked
<1> QED
  BY <1>2, <1>3, <1>4, <1>7, <1>10

LEMMA CutLinked ==
  ASSUME NEW ls \in [Keys -> Seq(Blocks)], NEW m \in Keys, NEW b \in Blocks,
         NEW nx, NEW pv, NEW hd, NEW tl, NEW nx2, NEW pv2, NEW hd2, NEW tl2,
         Linked(nx, pv, hd, tl, ls), Apart(ls),
         IsOn(ls[m], b),
         CutLinks(m, b, nx, pv, hd, tl, nx2, pv2, hd2, tl2)
  PROVE  /\ Linked(nx2, pv2, hd2, tl2, [ls EXCEPT ![m] = Unlink(@, b)])
         /\ OnlyOf(m, b, nx, pv, ls, nx2, pv2)
<1>1. ls[m] \in Seq(Blocks) /\ Thread(nx, pv, hd[m], tl[m], ls[m])
  BY DEF Linked
<1>2. /\ DOMAIN ls[m] = 1 .. Len(ls[m])
      /\ Len(ls[m]) \in Nat
  BY <1>1, SeqFacts
<1>3. PICK i \in 1 .. Len(ls[m]) :
        ls[m][i] = b /\ Unlink(ls[m], b) = RemoveAt(ls[m], i)
  <2> DEFINE k == CHOOSE i \in 1 .. Len(ls[m]) : ls[m][i] = b
  <2>1. k \in 1 .. Len(ls[m]) /\ ls[m][k] = b
    BY <1>2 DEF IsOn
  <2>2. Unlink(ls[m], b) = RemoveAt(ls[m], k)
    BY DEF Unlink
  <2> HIDE DEF k
  <2> QED
    BY <2>1, <2>2
<1>4. Unlink(ls[m], b) = RemoveAt(ls[m], i)
  BY <1>3
<1>5. /\ nx[b] = IF i = Len(ls[m]) THEN NONE ELSE ls[m][i + 1]
      /\ pv[b] = IF i = 1 THEN NONE ELSE ls[m][i - 1]
  BY <1>1, <1>3 DEF Thread
<1>6. Thread(nx2, pv2, hd2[m], tl2[m], RemoveAt(ls[m], i))
  BY <1>1, <1>3, CutThread DEF Apart
<1>7. /\ nx[b] = NONE \/ IsOn(ls[m], nx[b])
      /\ pv[b] = NONE \/ IsOn(ls[m], pv[b])
  <2>1. /\ i # Len(ls[m]) => i + 1 \in 1 .. Len(ls[m])
        /\ i # 1 => i - 1 \in 1 .. Len(ls[m])
    <3>1. \A N \in Nat : \A q \in 1 .. N :
            (q # N => q + 1 \in 1 .. N) /\ (q # 1 => q - 1 \in 1 .. N)
      OBVIOUS
    <3> QED
      BY <1>2, <3>1
  <2> QED
    <3>1. \A j \in 1 .. Len(ls[m]) : IsOn(ls[m], ls[m][j])
      BY <1>2 DEF IsOn
    <3> QED
      BY <1>5, <2>1, <3>1
<1>8. OnlyOf(m, b, nx, pv, ls, nx2, pv2)
  <2>1. SUFFICES ASSUME NEW x \in Blocks, ~ IsOn(ls[m], x), x # b
                 PROVE  nx2[x] = nx[x] /\ pv2[x] = pv[x]
    BY DEF OnlyOf
  <2>2. x # NONE
    BY SlicesAssumption, BlocksAssumption DEF Blocks
  <2>3. x # nx[b] /\ x # pv[b]
    BY <1>7, <2>1, <2>2
  <2> QED
    BY <2>1, <2>3 DEF CutLinks
<1>9. \A j \in Keys : j # m => hd2[j] = hd[j] /\ tl2[j] = tl[j]
  BY DEF CutLinks
<1>10. \A j \in Keys : j # m => ~ IsOn(ls[j], b)
  BY DEF Apart
<1> DEFINE s == Unlink(ls[m], b)
<1>11. Thread(nx2, pv2, hd2[m], tl2[m], s)
  BY <1>4, <1>6
<1>12. Linked(nx2, pv2, hd2, tl2, [ls EXCEPT ![m] = s])
  <2> HIDE DEF s
  <2>1. StepOn(m, b, ls, nx, pv, hd, tl, nx2, pv2, hd2, tl2)
    BY <1>8, <1>9, <1>10 DEF StepOn
  <2> QED
    BY <1>11, <2>1, OthersLinked
<1> QED
  BY <1>8, <1>12


-----------------------------------------------------------------------------
(* The links of one die, in the record of the links of all of them.        *)

LinkType == [prevBlock     : [DieBlocks -> Ptrs],
             nextBlock     : [DieBlocks -> Ptrs],
             headFreeBlock : [Dies -> Ptrs],
             tailFreeBlock : [Dies -> Ptrs],
             freeBlockCnt  : [Dies -> Int],
             headBlock     : [Dies \X Keys -> Ptrs],
             tailBlock     : [Dies \X Keys -> Ptrs]]

NextOf(k, d) == [x \in Blocks |-> k.nextBlock[<<d, x>>]]
PrevOf(k, d) == [x \in Blocks |-> k.prevBlock[<<d, x>>]]
HeadOf(k, d) ==
  [j \in Keys |-> IF j = 0 THEN k.headFreeBlock[d] ELSE k.headBlock[<<d, j>>]]
TailOf(k, d) ==
  [j \in Keys |-> IF j = 0 THEN k.tailFreeBlock[d] ELSE k.tailBlock[<<d, j>>]]

\* The record r has the links of k in every die but d.
SameBut(k, r, d) ==
  \A e \in Dies : e # d => /\ NextOf(r, e) = NextOf(k, e)
                           /\ PrevOf(r, e) = PrevOf(k, e)
                           /\ HeadOf(r, e) = HeadOf(k, e)
                           /\ TailOf(r, e) = TailOf(k, e)
                           /\ r.freeBlockCnt[e] = k.freeBlockCnt[e]

\* The links of the fields, one by one.
LEMMA PutEffect ==
  ASSUME NEW k \in LinkType, NEW d \in Dies, NEW b \in Blocks
  PROVE  LET r == PutToFbList(k, d, b)
         IN  /\ r \in LinkType
             /\ PutLinks(0, b, NextOf(k, d), PrevOf(k, d), HeadOf(k, d),
                         TailOf(k, d), NextOf(r, d), PrevOf(r, d), HeadOf(r, d),
                         TailOf(r, d))
             /\ SameBut(k, r, d)
             /\ r.freeBlockCnt[d] = k.freeBlockCnt[d] + 1
<1> DEFINE r == PutToFbList(k, d, b)
           tail == k.tailFreeBlock[d]
<1>1. tail \in Ptrs /\ 0 \in Keys /\ b # NONE
  BY PagesAssumption, SlicesAssumption, BlocksAssumption
     DEF LinkType, Keys, Blocks
<1>2. /\ r \in LinkType
      /\ r.prevBlock = [k.prevBlock EXCEPT ![<<d, b>>] = tail]
      /\ r.tailFreeBlock = [k.tailFreeBlock EXCEPT ![d] = b]
      /\ r.freeBlockCnt = [k.freeBlockCnt EXCEPT ![d] = @ + 1]
      /\ r.headBlock = k.headBlock
      /\ r.tailBlock = k.tailBlock
      /\ tail = NONE =>
           /\ r.nextBlock = [k.nextBlock EXCEPT ![<<d, b>>] = NONE]
           /\ r.headFreeBlock = [k.headFreeBlock EXCEPT ![d] = b]
      /\ tail # NONE =>
           /\ r.nextBlock = [[k.nextBlock EXCEPT ![<<d, b>>] = NONE]
                               EXCEPT ![<<d, tail>>] = b]
           /\ r.headFreeBlock = k.headFreeBlock
  <2>1. CASE tail = NONE
    <3>1. r = [k EXCEPT !.prevBlock[<<d, b>>] = tail,
                        !.nextBlock[<<d, b>>] = NONE,
                        !.tailFreeBlock[d] = b,
                        !.freeBlockCnt[d] = @ + 1,
                        !.headFreeBlock[d] = b]
      BY <2>1 DEF PutToFbList, LinkType
    <3> HIDE DEF r
    <3>2. k.freeBlockCnt[d] + 1 \in Int
      BY DEF LinkType
    <3> QED
      BY <1>1, <2>1, <3>1, <3>2 DEF LinkType, Ptrs, DieBlocks
  <2>2. CASE tail # NONE
    <3>1. r = [k EXCEPT !.prevBlock[<<d, b>>] = tail,
                        !.nextBlock = [[k.nextBlock EXCEPT ![<<d, b>>] = NONE]
                                         EXCEPT ![<<d, tail>>] = b],
                        !.tailFreeBlock[d] = b,
                        !.freeBlockCnt[d] = @ + 1]
      BY <2>2 DEF PutToFbList, LinkType
    <3> HIDE DEF r
    <3>2. k.freeBlockCnt[d] + 1 \in Int
      BY DEF LinkType
    <3> QED
      BY <1>1, <2>2, <3>1, <3>2 DEF LinkType, Ptrs, DieBlocks
  <2> QED
    BY <2>1, <2>2
<1> HIDE DEF r
<1>3. k.nextBlock \in [DieBlocks -> Ptrs] /\ k.prevBlock \in [DieBlocks -> Ptrs]
  BY DEF LinkType
<1>4. \A x \in Blocks : NextOf(r, d)[x] = IF x = tail THEN b
                                ELSE IF x = b THEN NONE ELSE NextOf(k, d)[x]
  <2>1. \A x \in Blocks : x # NONE
    BY SlicesAssumption, BlocksAssumption DEF Blocks
  <2>2. CASE tail = NONE
    BY <1>2, <1>3, <2>1, <2>2 DEF NextOf, DieBlocks
  <2>3. CASE tail # NONE
    BY <1>1, <1>2, <1>3, <2>1, <2>3 DEF NextOf, DieBlocks, Ptrs
  <2> QED
    BY <2>2, <2>3
<1>5. \A x \in Blocks : PrevOf(r, d)[x] = IF x = b THEN tail ELSE PrevOf(k, d)[x]
  BY <1>2, <1>3 DEF PrevOf, DieBlocks
<1>6. TailOf(k, d)[0] = tail
  BY <1>1 DEF TailOf
<1>7. \A j \in Keys : /\ HeadOf(r, d)[j] = IF j = 0 /\ tail = NONE THEN b
                                           ELSE HeadOf(k, d)[j]
                      /\ TailOf(r, d)[j] = IF j = 0 THEN b ELSE TailOf(k, d)[j]
  BY <1>2 DEF HeadOf, TailOf, LinkType
<1>8. PutLinks(0, b, NextOf(k, d), PrevOf(k, d), HeadOf(k, d),
               TailOf(k, d), NextOf(r, d), PrevOf(r, d), HeadOf(r, d),
               TailOf(r, d))
  BY <1>4, <1>5, <1>6, <1>7 DEF PutLinks
<1>9. SameBut(k, r, d)
  <2>1. SUFFICES ASSUME NEW e \in Dies, e # d
                 PROVE  /\ NextOf(r, e) = NextOf(k, e)
                        /\ PrevOf(r, e) = PrevOf(k, e)
                        /\ HeadOf(r, e) = HeadOf(k, e)
                        /\ TailOf(r, e) = TailOf(k, e)
                        /\ r.freeBlockCnt[e] = k.freeBlockCnt[e]
    BY DEF SameBut
  <2>2. \A x \in Blocks : /\ r.nextBlock[<<e, x>>] = k.nextBlock[<<e, x>>]
                          /\ r.prevBlock[<<e, x>>] = k.prevBlock[<<e, x>>]
    BY <1>1, <1>2, <1>3, <2>1 DEF DieBlocks, Ptrs
  <2>3. /\ r.headFreeBlock[e] = k.headFreeBlock[e]
        /\ r.tailFreeBlock[e] = k.tailFreeBlock[e]
        /\ r.freeBlockCnt[e] = k.freeBlockCnt[e]
    BY <1>2, <2>1 DEF LinkType
  <2> QED
    BY <1>2, <2>2, <2>3 DEF NextOf, PrevOf, HeadOf, TailOf
<1>10. r.freeBlockCnt[d] = k.freeBlockCnt[d] + 1
  BY <1>2 DEF LinkType
<1>11. r \in LinkType
  BY <1>2
<1> QED
  BY <1>8, <1>9, <1>10, <1>11 DEF r

LEMMA LinkEffect ==
  ASSUME NEW k \in LinkType, NEW d \in Dies, NEW b \in Blocks,
         NEW n \in 1 .. SLICES_PER_BLOCK
  PROVE  LET r == LinkVictim(k, d, b, n)
         IN  /\ r \in LinkType
             /\ PutLinks(n, b, NextOf(k, d), PrevOf(k, d), HeadOf(k, d),
                         TailOf(k, d), NextOf(r, d), PrevOf(r, d), HeadOf(r, d),
                         TailOf(r, d))
             /\ SameBut(k, r, d)
             /\ r.freeBlockCnt[d] = k.freeBlockCnt[d]
<1> DEFINE r == LinkVictim(k, d, b, n)
           tail == k.tailBlock[<<d, n>>]
<1>1. tail \in Ptrs /\ n \in Keys /\ n # 0 /\ b # NONE
  BY PagesAssumption, SlicesAssumption, BlocksAssumption
     DEF LinkType, Keys, Blocks
<1>2. /\ r \in LinkType
      /\ r.prevBlock = [k.prevBlock EXCEPT ![<<d, b>>] = tail]
      /\ r.tailBlock = [k.tailBlock EXCEPT ![<<d, n>>] = b]
      /\ r.freeBlockCnt = k.freeBlockCnt
      /\ r.headFreeBlock = k.headFreeBlock
      /\ r.tailFreeBlock = k.tailFreeBlock
      /\ tail = NONE =>
           /\ r.nextBlock = [k.nextBlock EXCEPT ![<<d, b>>] = NONE]
           /\ r.headBlock = [k.headBlock EXCEPT ![<<d, n>>] = b]
      /\ tail # NONE =>
           /\ r.nextBlock = [[k.nextBlock EXCEPT ![<<d, b>>] = NONE]
                               EXCEPT ![<<d, tail>>] = b]
           /\ r.headBlock = k.headBlock
  <2>1. CASE tail = NONE
    BY <1>1, <2>1 DEF LinkVictim, LinkType, Ptrs, DieBlocks
  <2>2. CASE tail # NONE
    BY <1>1, <2>2 DEF LinkVictim, LinkType, Ptrs, DieBlocks
  <2> QED
    BY <2>1, <2>2
<1> HIDE DEF r
<1>3. /\ k.nextBlock \in [DieBlocks -> Ptrs]
      /\ k.prevBlock \in [DieBlocks -> Ptrs]
      /\ k.headBlock \in [Dies \X Keys -> Ptrs]
      /\ k.tailBlock \in [Dies \X Keys -> Ptrs]
  BY DEF LinkType
<1>4. \A x \in Blocks : NextOf(r, d)[x] = IF x = tail THEN b
                                ELSE IF x = b THEN NONE ELSE NextOf(k, d)[x]
  <2>1. \A x \in Blocks : x # NONE
    BY SlicesAssumption, BlocksAssumption DEF Blocks
  <2>2. CASE tail = NONE
    BY <1>2, <1>3, <2>1, <2>2 DEF NextOf, DieBlocks
  <2>3. CASE tail # NONE
    BY <1>1, <1>2, <1>3, <2>1, <2>3 DEF NextOf, DieBlocks, Ptrs
  <2> QED
    BY <2>2, <2>3
<1>5. \A x \in Blocks : PrevOf(r, d)[x] = IF x = b THEN tail ELSE PrevOf(k, d)[x]
  BY <1>2, <1>3 DEF PrevOf, DieBlocks
<1>6. TailOf(k, d)[n] = tail
  BY <1>1 DEF TailOf
<1>7. \A j \in Keys : /\ HeadOf(r, d)[j] = IF j = n /\ tail = NONE THEN b
                                           ELSE HeadOf(k, d)[j]
                      /\ TailOf(r, d)[j] = IF j = n THEN b ELSE TailOf(k, d)[j]
  BY <1>1, <1>2, <1>3 DEF HeadOf, TailOf
<1>8. PutLinks(n, b, NextOf(k, d), PrevOf(k, d), HeadOf(k, d),
               TailOf(k, d), NextOf(r, d), PrevOf(r, d), HeadOf(r, d),
               TailOf(r, d))
  BY <1>4, <1>5, <1>6, <1>7 DEF PutLinks
<1>9. SameBut(k, r, d)
  <2>1. SUFFICES ASSUME NEW e \in Dies, e # d
                 PROVE  /\ NextOf(r, e) = NextOf(k, e)
                        /\ PrevOf(r, e) = PrevOf(k, e)
                        /\ HeadOf(r, e) = HeadOf(k, e)
                        /\ TailOf(r, e) = TailOf(k, e)
                        /\ r.freeBlockCnt[e] = k.freeBlockCnt[e]
    BY DEF SameBut
  <2>2. \A x \in Blocks : /\ r.nextBlock[<<e, x>>] = k.nextBlock[<<e, x>>]
                          /\ r.prevBlock[<<e, x>>] = k.prevBlock[<<e, x>>]
    BY <1>1, <1>2, <1>3, <2>1 DEF DieBlocks, Ptrs
  <2>3. \A j \in Keys : /\ r.headBlock[<<e, j>>] = k.headBlock[<<e, j>>]
                        /\ r.tailBlock[<<e, j>>] = k.tailBlock[<<e, j>>]
    BY <1>1, <1>2, <1>3, <2>1
  <2> QED
    BY <1>2, <2>2, <2>3 DEF NextOf, PrevOf, HeadOf, TailOf
<1>10. r.freeBlockCnt[d] = k.freeBlockCnt[d] /\ r \in LinkType
  BY <1>2
<1> QED
  BY <1>8, <1>9, <1>10 DEF r


LEMMA GetEffect ==
  ASSUME NEW k \in LinkType, NEW d \in Dies, k.headFreeBlock[d] # NONE
  PROVE  LET r == GetFromFbList(k, d)
             b == HeadOf(k, d)[0]
         IN  /\ r \in LinkType
             /\ TakeLinks(0, b, NextOf(k, d), PrevOf(k, d), HeadOf(k, d),
                          TailOf(k, d), NextOf(r, d), PrevOf(r, d),
                          HeadOf(r, d), TailOf(r, d))
             /\ NextOf(r, d)[b] = NONE /\ PrevOf(r, d)[b] = NONE
             /\ SameBut(k, r, d)
             /\ r.freeBlockCnt[d] = k.freeBlockCnt[d] - 1
<1> DEFINE r == GetFromFbList(k, d)
           b == k.headFreeBlock[d]
           next == k.nextBlock[<<d, b>>]
<1>1. /\ b \in Blocks
      /\ next \in Ptrs
      /\ 0 \in Keys
      /\ HeadOf(k, d)[0] = b
      /\ \A x \in Blocks : x # NONE
  BY PagesAssumption, SlicesAssumption, BlocksAssumption
     DEF LinkType, Keys, Blocks, HeadOf, DieBlocks, Ptrs
<1>2. /\ r \in LinkType
      /\ r.nextBlock = [k.nextBlock EXCEPT ![<<d, b>>] = NONE]
      /\ r.headFreeBlock = [k.headFreeBlock EXCEPT ![d] = next]
      /\ r.freeBlockCnt = [k.freeBlockCnt EXCEPT ![d] = @ - 1]
      /\ r.headBlock = k.headBlock
      /\ r.tailBlock = k.tailBlock
      /\ next = NONE =>
           /\ r.prevBlock = [k.prevBlock EXCEPT ![<<d, b>>] = NONE]
           /\ r.tailFreeBlock = [k.tailFreeBlock EXCEPT ![d] = NONE]
      /\ next # NONE =>
           /\ r.prevBlock = [[k.prevBlock EXCEPT ![<<d, next>>] = NONE]
                               EXCEPT ![<<d, b>>] = NONE]
           /\ r.tailFreeBlock = k.tailFreeBlock
  <2>1. CASE next = NONE
    <3>1. r = [k EXCEPT !.tailFreeBlock[d] = NONE,
                        !.headFreeBlock[d] = next,
                        !.freeBlockCnt[d] = @ - 1,
                        !.nextBlock[<<d, b>>] = NONE,
                        !.prevBlock[<<d, b>>] = NONE]
      BY <2>1 DEF GetFromFbList, LinkType
    <3> HIDE DEF r
    <3>2. k.freeBlockCnt[d] - 1 \in Int
      BY DEF LinkType
    <3> QED
      BY <1>1, <2>1, <3>1, <3>2 DEF LinkType, Ptrs, DieBlocks
  <2>2. CASE next # NONE
    <3>1. r = [k EXCEPT !.headFreeBlock[d] = next,
                        !.freeBlockCnt[d] = @ - 1,
                        !.nextBlock[<<d, b>>] = NONE,
                        !.prevBlock = [[k.prevBlock EXCEPT ![<<d, next>>] = NONE]
                                         EXCEPT ![<<d, b>>] = NONE]]
      BY <2>2 DEF GetFromFbList, LinkType
    <3> HIDE DEF r
    <3>2. k.freeBlockCnt[d] - 1 \in Int
      BY DEF LinkType
    <3> QED
      BY <1>1, <2>2, <3>1, <3>2 DEF LinkType, Ptrs, DieBlocks
  <2> QED
    BY <2>1, <2>2
<1>3. /\ k.nextBlock \in [DieBlocks -> Ptrs]
      /\ k.prevBlock \in [DieBlocks -> Ptrs]
      /\ k.headFreeBlock \in [Dies -> Ptrs]
      /\ k.tailFreeBlock \in [Dies -> Ptrs]
      /\ k.freeBlockCnt \in [Dies -> Int]
  BY DEF LinkType
<1> HIDE DEF r, b
<1>4. \A x \in Blocks : NextOf(r, d)[x] = IF x = b THEN NONE
                                          ELSE NextOf(k, d)[x]
  BY <1>1, <1>2, <1>3 DEF NextOf, DieBlocks
<1>5. \A x \in Blocks : PrevOf(r, d)[x] = IF x = b \/ x = next THEN NONE
                                          ELSE PrevOf(k, d)[x]
  <2>1. CASE next = NONE
    BY <1>1, <1>2, <1>3, <2>1 DEF PrevOf, DieBlocks
  <2>2. CASE next # NONE
    BY <1>1, <1>2, <1>3, <2>2 DEF PrevOf, DieBlocks, Ptrs
  <2> QED
    BY <2>1, <2>2
<1>6. NextOf(k, d)[b] = next
  BY <1>1 DEF NextOf
<1>7. \A j \in Keys : /\ HeadOf(r, d)[j] = IF j = 0 THEN next ELSE HeadOf(k, d)[j]
                      /\ TailOf(r, d)[j] = IF j = 0 /\ next = NONE THEN NONE
                                           ELSE TailOf(k, d)[j]
  BY <1>2, <1>3 DEF HeadOf, TailOf
<1>8. TakeLinks(0, b, NextOf(k, d), PrevOf(k, d), HeadOf(k, d),
                TailOf(k, d), NextOf(r, d), PrevOf(r, d), HeadOf(r, d),
                TailOf(r, d))
  BY <1>4, <1>5, <1>6, <1>7 DEF TakeLinks
<1>9. SameBut(k, r, d)
  <2>1. SUFFICES ASSUME NEW e \in Dies, e # d
                 PROVE  /\ NextOf(r, e) = NextOf(k, e)
                        /\ PrevOf(r, e) = PrevOf(k, e)
                        /\ HeadOf(r, e) = HeadOf(k, e)
                        /\ TailOf(r, e) = TailOf(k, e)
                        /\ r.freeBlockCnt[e] = k.freeBlockCnt[e]
    BY DEF SameBut
  <2>2. \A x \in Blocks : /\ r.nextBlock[<<e, x>>] = k.nextBlock[<<e, x>>]
                          /\ r.prevBlock[<<e, x>>] = k.prevBlock[<<e, x>>]
    BY <1>1, <1>2, <1>3, <2>1 DEF DieBlocks, Ptrs
  <2>3. /\ r.headFreeBlock[e] = k.headFreeBlock[e]
        /\ r.tailFreeBlock[e] = k.tailFreeBlock[e]
        /\ r.freeBlockCnt[e] = k.freeBlockCnt[e]
    BY <1>2, <1>3, <2>1
  <2> QED
    BY <1>2, <2>2, <2>3 DEF NextOf, PrevOf, HeadOf, TailOf
<1>10. r.freeBlockCnt[d] = k.freeBlockCnt[d] - 1 /\ r \in LinkType
  BY <1>2, <1>3
<1>11. NextOf(r, d)[b] = NONE /\ PrevOf(r, d)[b] = NONE
  BY <1>1, <1>4, <1>5
<1>12. HeadOf(k, d)[0] = b
  BY <1>1
<1> QED
  BY <1>8, <1>9, <1>10, <1>11, <1>12 DEF r

LEMMA TakeEffect ==
  ASSUME NEW k \in LinkType, NEW d \in Dies, NEW n \in 1 .. SLICES_PER_BLOCK,
         k.headBlock[<<d, n>>] # NONE
  PROVE  LET r == TakeVictim(k, d, n)
             b == HeadOf(k, d)[n]
         IN  /\ r \in LinkType
             /\ TakeLinks(n, b, NextOf(k, d), PrevOf(k, d), HeadOf(k, d),
                          TailOf(k, d), NextOf(r, d), PrevOf(r, d),
                          HeadOf(r, d), TailOf(r, d))
             /\ SameBut(k, r, d)
             /\ r.freeBlockCnt[d] = k.freeBlockCnt[d]
<1> DEFINE r == TakeVictim(k, d, n)
           b == k.headBlock[<<d, n>>]
           next == k.nextBlock[<<d, b>>]
<1>1. /\ b \in Blocks
      /\ next \in Ptrs
      /\ n \in Keys /\ n # 0
      /\ HeadOf(k, d)[n] = b
      /\ \A x \in Blocks : x # NONE
  BY PagesAssumption, SlicesAssumption, BlocksAssumption
     DEF LinkType, Keys, Blocks, HeadOf, DieBlocks, Ptrs
<1>2. /\ r \in LinkType
      /\ r.nextBlock = k.nextBlock
      /\ r.headFreeBlock = k.headFreeBlock
      /\ r.tailFreeBlock = k.tailFreeBlock
      /\ r.freeBlockCnt = k.freeBlockCnt
      /\ r.headBlock = [k.headBlock EXCEPT ![<<d, n>>] = next]
      /\ next = NONE =>
           /\ r.prevBlock = k.prevBlock
           /\ r.tailBlock = [k.tailBlock EXCEPT ![<<d, n>>] = NONE]
      /\ next # NONE =>
           /\ r.prevBlock = [k.prevBlock EXCEPT ![<<d, next>>] = NONE]
           /\ r.tailBlock = k.tailBlock
  <2>1. CASE next = NONE
    <3>1. r = [k EXCEPT !.tailBlock[<<d, n>>] = NONE,
                        !.headBlock[<<d, n>>] = next]
      BY <2>1 DEF TakeVictim, LinkType
    <3> HIDE DEF r
    <3> QED
      BY <1>1, <2>1, <3>1 DEF LinkType, Ptrs, DieBlocks
  <2>2. CASE next # NONE
    <3>1. r = [k EXCEPT !.prevBlock[<<d, next>>] = NONE,
                        !.headBlock[<<d, n>>] = next]
      BY <2>2 DEF TakeVictim, LinkType
    <3> HIDE DEF r
    <3> QED
      BY <1>1, <2>2, <3>1 DEF LinkType, Ptrs, DieBlocks
  <2> QED
    BY <2>1, <2>2
<1>3. /\ k.nextBlock \in [DieBlocks -> Ptrs]
      /\ k.prevBlock \in [DieBlocks -> Ptrs]
      /\ k.headBlock \in [Dies \X Keys -> Ptrs]
      /\ k.tailBlock \in [Dies \X Keys -> Ptrs]
  BY DEF LinkType
<1> HIDE DEF r, b
<1>4. \A x \in Blocks : NextOf(r, d)[x] = NextOf(k, d)[x]
  BY <1>2 DEF NextOf
<1>5. \A x \in Blocks : PrevOf(r, d)[x] = IF x = next THEN NONE
                                          ELSE PrevOf(k, d)[x]
  <2>1. CASE next = NONE
    BY <1>1, <1>2, <2>1 DEF PrevOf
  <2>2. CASE next # NONE
    BY <1>1, <1>2, <1>3, <2>2 DEF PrevOf, DieBlocks, Ptrs
  <2> QED
    BY <2>1, <2>2
<1>6. NextOf(k, d)[b] = next
  BY <1>1 DEF NextOf
<1>7. \A j \in Keys : /\ HeadOf(r, d)[j] = IF j = n THEN next ELSE HeadOf(k, d)[j]
                      /\ TailOf(r, d)[j] = IF j = n /\ next = NONE THEN NONE
                                           ELSE TailOf(k, d)[j]
  BY <1>1, <1>2, <1>3 DEF HeadOf, TailOf
<1>8. TakeLinks(n, b, NextOf(k, d), PrevOf(k, d), HeadOf(k, d),
                TailOf(k, d), NextOf(r, d), PrevOf(r, d), HeadOf(r, d),
                TailOf(r, d))
  BY <1>4, <1>5, <1>6, <1>7 DEF TakeLinks
<1>9. SameBut(k, r, d)
  <2>1. SUFFICES ASSUME NEW e \in Dies, e # d
                 PROVE  /\ NextOf(r, e) = NextOf(k, e)
                        /\ PrevOf(r, e) = PrevOf(k, e)
                        /\ HeadOf(r, e) = HeadOf(k, e)
                        /\ TailOf(r, e) = TailOf(k, e)
                        /\ r.freeBlockCnt[e] = k.freeBlockCnt[e]
    BY DEF SameBut
  <2>2. \A x \in Blocks : /\ r.nextBlock[<<e, x>>] = k.nextBlock[<<e, x>>]
                          /\ r.prevBlock[<<e, x>>] = k.prevBlock[<<e, x>>]
    BY <1>1, <1>2, <1>3, <2>1 DEF DieBlocks, Ptrs
  <2>3. \A j \in Keys : /\ r.headBlock[<<e, j>>] = k.headBlock[<<e, j>>]
                        /\ r.tailBlock[<<e, j>>] = k.tailBlock[<<e, j>>]
    BY <1>1, <1>2, <1>3, <2>1
  <2> QED
    BY <1>2, <2>2, <2>3 DEF NextOf, PrevOf, HeadOf, TailOf
<1>10. r.freeBlockCnt[d] = k.freeBlockCnt[d] /\ r \in LinkType
  BY <1>2
<1>11. HeadOf(k, d)[n] = b
  BY <1>1
<1> QED
  BY <1>8, <1>9, <1>10, <1>11 DEF r

LEMMA UnlinkEffect ==
  ASSUME NEW k \in LinkType, NEW d \in Dies, NEW b \in Blocks,
         NEW n \in 1 .. SLICES_PER_BLOCK
  PROVE  LET r == UnlinkVictim(k, d, b, n)
         IN  /\ r \in LinkType
             /\ CutLinks(n, b, NextOf(k, d), PrevOf(k, d), HeadOf(k, d),
                         TailOf(k, d), NextOf(r, d), PrevOf(r, d),
                         HeadOf(r, d), TailOf(r, d))
             /\ SameBut(k, r, d)
             /\ r.freeBlockCnt[d] = k.freeBlockCnt[d]
<1> DEFINE r == UnlinkVictim(k, d, b, n)
           next == k.nextBlock[<<d, b>>]
           prev == k.prevBlock[<<d, b>>]
           nexts == IF prev = NONE THEN k.nextBlock
                    ELSE [k.nextBlock EXCEPT ![<<d, prev>>] = next]
           heads == IF prev = NONE THEN [k.headBlock EXCEPT ![<<d, n>>] = next]
                    ELSE k.headBlock
           prevs == IF next = NONE THEN k.prevBlock
                    ELSE [k.prevBlock EXCEPT ![<<d, next>>] = prev]
           tails == IF next = NONE THEN [k.tailBlock EXCEPT ![<<d, n>>] = prev]
                    ELSE k.tailBlock
<1>1. /\ next \in Ptrs
      /\ prev \in Ptrs
      /\ n \in Keys /\ n # 0
      /\ \A x \in Blocks : x # NONE
  BY PagesAssumption, SlicesAssumption, BlocksAssumption
     DEF LinkType, Keys, Blocks, DieBlocks, Ptrs
<1>2. /\ r.nextBlock = nexts
      /\ r.prevBlock = prevs
      /\ r.headBlock = heads
      /\ r.tailBlock = tails
      /\ r.headFreeBlock = k.headFreeBlock
      /\ r.tailFreeBlock = k.tailFreeBlock
      /\ r.freeBlockCnt = k.freeBlockCnt
      /\ r = [k EXCEPT !.nextBlock = nexts, !.prevBlock = prevs,
                       !.headBlock = heads, !.tailBlock = tails]
  <2>1. CASE next = NONE /\ prev = NONE
    BY <2>1 DEF UnlinkVictim, LinkType
  <2>2. CASE next = NONE /\ prev # NONE
    BY <2>2 DEF UnlinkVictim, LinkType
  <2>3. CASE next # NONE /\ prev = NONE
    BY <2>3 DEF UnlinkVictim, LinkType
  <2>4. CASE next # NONE /\ prev # NONE
    BY <2>4 DEF UnlinkVictim, LinkType
  <2> QED
    BY <2>1, <2>2, <2>3, <2>4
<1> HIDE DEF r
<1>3. /\ k.nextBlock \in [DieBlocks -> Ptrs]
      /\ k.prevBlock \in [DieBlocks -> Ptrs]
      /\ k.headBlock \in [Dies \X Keys -> Ptrs]
      /\ k.tailBlock \in [Dies \X Keys -> Ptrs]
  BY DEF LinkType
<1>4. \A x \in Blocks : NextOf(r, d)[x] = IF x = prev THEN next
                                          ELSE NextOf(k, d)[x]
  <2>1. CASE prev = NONE
    BY <1>1, <1>2, <2>1 DEF NextOf
  <2>2. CASE prev # NONE
    BY <1>1, <1>2, <1>3, <2>2 DEF NextOf, DieBlocks, Ptrs
  <2> QED
    BY <2>1, <2>2
<1>5. \A x \in Blocks : PrevOf(r, d)[x] = IF x = next THEN prev
                                          ELSE PrevOf(k, d)[x]
  <2>1. CASE next = NONE
    BY <1>1, <1>2, <2>1 DEF PrevOf
  <2>2. CASE next # NONE
    BY <1>1, <1>2, <1>3, <2>2 DEF PrevOf, DieBlocks, Ptrs
  <2> QED
    BY <2>1, <2>2
<1>6. NextOf(k, d)[b] = next /\ PrevOf(k, d)[b] = prev
  BY DEF NextOf, PrevOf
<1>7. \A j \in Keys : /\ HeadOf(r, d)[j] = IF j = n /\ prev = NONE THEN next
                                           ELSE HeadOf(k, d)[j]
                      /\ TailOf(r, d)[j] = IF j = n /\ next = NONE THEN prev
                                           ELSE TailOf(k, d)[j]
  BY <1>1, <1>2, <1>3 DEF HeadOf, TailOf
<1>8. CutLinks(n, b, NextOf(k, d), PrevOf(k, d), HeadOf(k, d),
               TailOf(k, d), NextOf(r, d), PrevOf(r, d), HeadOf(r, d),
               TailOf(r, d))
  BY <1>4, <1>5, <1>6, <1>7 DEF CutLinks
<1>9. SameBut(k, r, d)
  <2>1. SUFFICES ASSUME NEW e \in Dies, e # d
                 PROVE  /\ NextOf(r, e) = NextOf(k, e)
                        /\ PrevOf(r, e) = PrevOf(k, e)
                        /\ HeadOf(r, e) = HeadOf(k, e)
                        /\ TailOf(r, e) = TailOf(k, e)
                        /\ r.freeBlockCnt[e] = k.freeBlockCnt[e]
    BY DEF SameBut
  <2>2. \A x \in Blocks : /\ r.nextBlock[<<e, x>>] = k.nextBlock[<<e, x>>]
                          /\ r.prevBlock[<<e, x>>] = k.prevBlock[<<e, x>>]
    BY <1>1, <1>2, <1>3, <2>1 DEF DieBlocks, Ptrs
  <2>3. \A j \in Keys : /\ r.headBlock[<<e, j>>] = k.headBlock[<<e, j>>]
                        /\ r.tailBlock[<<e, j>>] = k.tailBlock[<<e, j>>]
    BY <1>1, <1>2, <1>3, <2>1
  <2> QED
    BY <1>2, <2>2, <2>3 DEF NextOf, PrevOf, HeadOf, TailOf
<1>10. r \in LinkType
  <2>1. /\ nexts \in [DieBlocks -> Ptrs]
        /\ prevs \in [DieBlocks -> Ptrs]
        /\ heads \in [Dies \X Keys -> Ptrs]
        /\ tails \in [Dies \X Keys -> Ptrs]
    BY <1>1, <1>3
  <2> HIDE DEF nexts, prevs, heads, tails
  <2> QED
    BY <1>2, <2>1 DEF LinkType
<1>11. r.freeBlockCnt[d] = k.freeBlockCnt[d]
  BY <1>2
<1> QED
  BY <1>8, <1>9, <1>10, <1>11 DEF r

\* A block without links: only list 0, which is no list, is touched.
LEMMA UnlinkNothing ==
  ASSUME NEW k \in LinkType, NEW d \in Dies, NEW b \in Blocks,
         k.nextBlock[<<d, b>>] = NONE, k.prevBlock[<<d, b>>] = NONE
  PROVE  LET r == UnlinkVictim(k, d, b, 0)
         IN  /\ r \in LinkType
             /\ \A e \in Dies : /\ NextOf(r, e) = NextOf(k, e)
                                /\ PrevOf(r, e) = PrevOf(k, e)
                                /\ HeadOf(r, e) = HeadOf(k, e)
                                /\ TailOf(r, e) = TailOf(k, e)
                                /\ r.freeBlockCnt[e] = k.freeBlockCnt[e]
<1> DEFINE r == UnlinkVictim(k, d, b, 0)
<1>1. r = [k EXCEPT !.headBlock[<<d, 0>>] = NONE, !.tailBlock[<<d, 0>>] = NONE]
  BY DEF UnlinkVictim, LinkType
<1> HIDE DEF r
<1>2. /\ r \in LinkType
      /\ r.nextBlock = k.nextBlock
      /\ r.prevBlock = k.prevBlock
      /\ r.headFreeBlock = k.headFreeBlock
      /\ r.tailFreeBlock = k.tailFreeBlock
      /\ r.freeBlockCnt = k.freeBlockCnt
      /\ r.headBlock = [k.headBlock EXCEPT ![<<d, 0>>] = NONE]
      /\ r.tailBlock = [k.tailBlock EXCEPT ![<<d, 0>>] = NONE]
  BY <1>1 DEF LinkType, Ptrs
<1>3. ASSUME NEW e \in Dies
      PROVE  /\ NextOf(r, e) = NextOf(k, e)
             /\ PrevOf(r, e) = PrevOf(k, e)
             /\ HeadOf(r, e) = HeadOf(k, e)
             /\ TailOf(r, e) = TailOf(k, e)
             /\ r.freeBlockCnt[e] = k.freeBlockCnt[e]
  <2>1. \A j \in Keys : j # 0 => /\ r.headBlock[<<e, j>>] = k.headBlock[<<e, j>>]
                                 /\ r.tailBlock[<<e, j>>] = k.tailBlock[<<e, j>>]
    BY <1>2 DEF LinkType
  <2> QED
    BY <1>2, <2>1 DEF NextOf, PrevOf, HeadOf, TailOf
<1> QED
  BY <1>2, <1>3 DEF r


-----------------------------------------------------------------------------
(* The functions of the code keep the lists: f and v are the free lists and *)
(* the victim lists of all dies, c the invalid counts.                      *)

ListsOf(f, v, d) == [j \in Keys |-> IF j = 0 THEN f[d] ELSE v[<<d, j>>]]

ListsType(f, v) ==
  /\ f \in [Dies -> Seq(Blocks)]
  /\ v \in [Dies \X (1 .. SLICES_PER_BLOCK) -> Seq(Blocks)]

DieLinked(k, f, v, c, d) ==
  /\ Linked(NextOf(k, d), PrevOf(k, d), HeadOf(k, d), TailOf(k, d),
            ListsOf(f, v, d))
  /\ k.freeBlockCnt[d] = Len(f[d])
  /\ \A x \in Blocks :
       ~ IsOn(f[d], x) /\ c[<<d, x>>] = 0 =>
         NextOf(k, d)[x] = NONE /\ PrevOf(k, d)[x] = NONE

AllLinked(k, f, v, c) == \A d \in Dies : DieLinked(k, f, v, c, d)

\* Only blocks with superseded pages are on the victim lists of die d.
Counted(v, c, d) ==
  \A n \in 1 .. SLICES_PER_BLOCK : \A x \in Blocks :
    IsOn(v[<<d, n>>], x) => c[<<d, x>>] # 0

\* The free list of die d, or its victim list n, becomes s.
FreeChanged(f, v, d, s, f2) ==
  ListsType(f, v) /\ s \in Seq(Blocks) /\ f2 = [f EXCEPT ![d] = s]

VictimsChanged(f, v, d, n, s, w) ==
  /\ ListsType(f, v)
  /\ d \in Dies /\ n \in 1 .. SLICES_PER_BLOCK /\ s \in Seq(Blocks)
  /\ w = [v EXCEPT ![<<d, n>>] = s]

\* The lists of the dies then.
FreeEffect(f, v, d, s, f2) ==
  /\ ListsOf(f, v, d) \in [Keys -> Seq(Blocks)]
  /\ ListsOf(f, v, d)[0] = f[d]
  /\ ListsType(f2, v)
  /\ ListsOf(f2, v, d) = [ListsOf(f, v, d) EXCEPT ![0] = s]
  /\ \A e \in Dies : e # d => ListsOf(f2, v, e) = ListsOf(f, v, e)

VictimsEffect(f, v, d, n, s, w) ==
  /\ ListsOf(f, v, d) \in [Keys -> Seq(Blocks)]
  /\ n \in Keys
  /\ ListsOf(f, v, d)[n] = v[<<d, n>>]
  /\ ListsType(f, w)
  /\ ListsOf(f, w, d) = [ListsOf(f, v, d) EXCEPT ![n] = s]
  /\ \A e \in Dies : e # d => ListsOf(f, w, e) = ListsOf(f, v, e)

LEMMA FreeListsChange ==
  ASSUME NEW f, NEW v, NEW d \in Dies, NEW s, NEW f2, FreeChanged(f, v, d, s, f2)
  PROVE  FreeEffect(f, v, d, s, f2)
<1>1. 0 \in Keys
  BY PagesAssumption DEF Keys
<1>2. \A j \in Keys : j # 0 => j \in 1 .. SLICES_PER_BLOCK
  BY PagesAssumption DEF Keys
<1>3. ListsOf(f, v, d) \in [Keys -> Seq(Blocks)] /\ ListsOf(f, v, d)[0] = f[d]
  BY <1>1, <1>2 DEF ListsOf, ListsType, FreeChanged
<1> QED
  BY <1>1, <1>3 DEF ListsOf, ListsType, FreeChanged, FreeEffect

LEMMA VictimListsChange ==
  ASSUME NEW f, NEW v, NEW d, NEW s, NEW n, NEW w,
         VictimsChanged(f, v, d, n, s, w)
  PROVE  VictimsEffect(f, v, d, n, s, w)
<1>1. \A j \in Keys : j # 0 => j \in 1 .. SLICES_PER_BLOCK
  BY PagesAssumption DEF Keys
<1>2. n \in Keys /\ n # 0
  BY PagesAssumption DEF Keys, VictimsChanged
<1>3. ListsOf(f, v, d) \in [Keys -> Seq(Blocks)]
  BY <1>1 DEF ListsOf, ListsType, VictimsChanged
<1>4. /\ ListsType(f, w)
      /\ w[<<d, n>>] = s
      /\ \A j \in Keys : j # 0 /\ j # n => w[<<d, j>>] = v[<<d, j>>]
      /\ \A e \in Dies : e # d =>
           \A j \in Keys : j # 0 => w[<<e, j>>] = v[<<e, j>>]
  BY <1>1, <1>2 DEF ListsType, VictimsChanged
<1>5. ListsOf(f, w, d) = [ListsOf(f, v, d) EXCEPT ![n] = s]
  BY <1>2, <1>4 DEF ListsOf, VictimsChanged
<1>6. \A e \in Dies : e # d => ListsOf(f, w, e) = ListsOf(f, v, e)
  BY <1>4 DEF ListsOf
<1>7. ListsOf(f, v, d)[n] = v[<<d, n>>]
  BY <1>2 DEF ListsOf, VictimsChanged
<1> QED
  BY <1>2, <1>3, <1>4, <1>5, <1>6, <1>7 DEF VictimsEffect

\* A die is what it was when nothing of it changes.
LEMMA OtherDies ==
  ASSUME NEW k, NEW r, NEW d, NEW e \in Dies, e # d,
         NEW f, NEW v, NEW c, NEW f2, NEW v2, NEW c2,
         SameBut(k, r, d),
         ListsOf(f2, v2, e) = ListsOf(f, v, e), f2[e] = f[e],
         \A x \in Blocks : c2[<<e, x>>] = c[<<e, x>>],
         DieLinked(k, f, v, c, e)
  PROVE  DieLinked(r, f2, v2, c2, e)
BY DEF SameBut, DieLinked

\* PutToFbList of a block that is on no list.
LEMMA PutKeeps ==
  ASSUME NEW k \in LinkType, NEW d \in Dies, NEW b \in Blocks,
         NEW f, NEW v, NEW c, NEW c2, ListsType(f, v),
         AllLinked(k, f, v, c), Apart(ListsOf(f, v, d)),
         \A j \in Keys : ~ IsOn(ListsOf(f, v, d)[j], b),
         \A e \in Dies, x \in Blocks :
           e # d \/ x # b => c2[<<e, x>>] = c[<<e, x>>]
  PROVE  /\ PutToFbList(k, d, b) \in LinkType
         /\ AllLinked(PutToFbList(k, d, b), [f EXCEPT ![d] = Append(@, b)], v, c2)
<1> DEFINE r == PutToFbList(k, d, b)
           s == Append(f[d], b)
           f2 == [f EXCEPT ![d] = s]
           ls == ListsOf(f, v, d)
<1>1. /\ r \in LinkType
      /\ PutLinks(0, b, NextOf(k, d), PrevOf(k, d), HeadOf(k, d), TailOf(k, d),
                  NextOf(r, d), PrevOf(r, d), HeadOf(r, d), TailOf(r, d))
      /\ SameBut(k, r, d)
      /\ r.freeBlockCnt[d] = k.freeBlockCnt[d] + 1
  BY PutEffect
<1>2. /\ f[d] \in Seq(Blocks)
      /\ s \in Seq(Blocks)
      /\ Len(s) = Len(f[d]) + 1
      /\ f2[d] = s
      /\ \A e \in Dies : e # d => f2[e] = f[e]
      /\ \A x : IsOn(s, x) <=> IsOn(f[d], x) \/ x = b
  <2>1. f[d] \in Seq(Blocks)
    BY DEF ListsType
  <2>2. s \in Seq(Blocks) /\ \A x : IsOn(s, x) <=> IsOn(f[d], x) \/ x = b
    BY <2>1, AppendFacts
  <2>3. Len(s) = Len(f[d]) + 1
    BY <2>1
  <2> QED
    BY <2>1, <2>2, <2>3 DEF ListsType
<1>3. 0 \in Keys
  BY PagesAssumption DEF Keys
<1> HIDE DEF r, s
<1>4. /\ ls \in [Keys -> Seq(Blocks)]
      /\ ls[0] = f[d]
      /\ ListsOf(f2, v, d) = [ls EXCEPT ![0] = s]
      /\ \A e \in Dies : e # d => ListsOf(f2, v, e) = ListsOf(f, v, e)
  <2>1. FreeChanged(f, v, d, s, f2)
    BY <1>2 DEF FreeChanged
  <2> HIDE DEF f2
  <2>2. FreeEffect(f, v, d, s, f2)
    BY <2>1, FreeListsChange
  <2> QED
    BY <2>2 DEF ls, FreeEffect
<1> HIDE DEF ls, f2
<1>5. DieLinked(k, f, v, c, d)
  BY DEF AllLinked
<1>6. /\ Linked(NextOf(r, d), PrevOf(r, d), HeadOf(r, d), TailOf(r, d),
                [ls EXCEPT ![0] = Append(@, b)])
      /\ OnlyOf(0, b, NextOf(k, d), PrevOf(k, d), ls, NextOf(r, d), PrevOf(r, d))
  <2>1. /\ Linked(NextOf(k, d), PrevOf(k, d), HeadOf(k, d), TailOf(k, d), ls)
        /\ Apart(ls)
        /\ \A j \in Keys : ~ IsOn(ls[j], b)
    BY <1>5 DEF DieLinked, ls
  <2> QED
    BY <1>1, <1>3, <1>4, <2>1, PutLinked
<1>7. [ls EXCEPT ![0] = Append(@, b)] = ListsOf(f2, v, d)
  BY <1>4 DEF s
<1>8. \A x \in Blocks : ~ IsOn(f2[d], x) /\ c2[<<d, x>>] = 0 =>
                          NextOf(r, d)[x] = NONE /\ PrevOf(r, d)[x] = NONE
  <2>1. SUFFICES ASSUME NEW x \in Blocks, ~ IsOn(f2[d], x), c2[<<d, x>>] = 0
                 PROVE  NextOf(r, d)[x] = NONE /\ PrevOf(r, d)[x] = NONE
    OBVIOUS
  <2>2. ~ IsOn(f[d], x) /\ x # b
    BY <1>2, <2>1
  <2>3. c[<<d, x>>] = 0
    BY <2>1, <2>2
  <2>4. NextOf(k, d)[x] = NONE /\ PrevOf(k, d)[x] = NONE
    BY <1>5, <2>2, <2>3 DEF DieLinked
  <2> QED
    BY <1>4, <1>6, <2>2, <2>4 DEF OnlyOf
<1>9. DieLinked(r, f2, v, c2, d)
  <2>1. r.freeBlockCnt[d] = Len(f2[d])
    BY <1>1, <1>2, <1>5 DEF DieLinked
  <2> QED
    BY <1>6, <1>7, <1>8, <2>1 DEF DieLinked
<1>10. ASSUME NEW e \in Dies, e # d
       PROVE  DieLinked(r, f2, v, c2, e)
  <2>1. \A x \in Blocks : c2[<<e, x>>] = c[<<e, x>>]
    BY <1>10
  <2>2. DieLinked(k, f, v, c, e) /\ f2[e] = f[e]
        /\ ListsOf(f2, v, e) = ListsOf(f, v, e)
    BY <1>2, <1>4, <1>10 DEF AllLinked
  <2> QED
    BY <1>1, <1>10, <2>1, <2>2, OtherDies
<1>11. AllLinked(r, f2, v, c2)
  BY <1>9, <1>10 DEF AllLinked
<1>12. f2 = [f EXCEPT ![d] = Append(@, b)]
  BY DEF f2, s
<1> HIDE DEF f2
<1>13. /\ r \in LinkType
       /\ AllLinked(r, [f EXCEPT ![d] = Append(@, b)], v, c2)
  BY <1>1, <1>11, <1>12
<1> QED
  BY <1>13 DEF r

\* GetFromFbList from a list that is not empty.
LEMMA GetKeeps ==
  ASSUME NEW k \in LinkType, NEW d \in Dies,
         NEW f, NEW v, NEW c, ListsType(f, v), f[d] # <<>>,
         AllLinked(k, f, v, c), Apart(ListsOf(f, v, d))
  PROVE  /\ GetFromFbList(k, d) \in LinkType
         /\ AllLinked(GetFromFbList(k, d), [f EXCEPT ![d] = Tail(@)], v, c)
<1> DEFINE r == GetFromFbList(k, d)
           s == Tail(f[d])
           f2 == [f EXCEPT ![d] = s]
           ls == ListsOf(f, v, d)
           b == HeadOf(k, d)[0]
<1>1. DieLinked(k, f, v, c, d) /\ 0 \in Keys
  BY PagesAssumption DEF AllLinked, Keys
<1>2. /\ f[d] \in Seq(Blocks)
      /\ s \in Seq(Blocks)
      /\ Len(s) = Len(f[d]) - 1
      /\ f2[d] = s
      /\ \A e \in Dies : e # d => f2[e] = f[e]
      /\ \A x : x # Head(f[d]) /\ IsOn(f[d], x) => IsOn(s, x)
  <2>1. f[d] \in Seq(Blocks)
    BY DEF ListsType
  <2>2. s \in Seq(Blocks) /\ \A x : x # Head(f[d]) /\ IsOn(f[d], x) => IsOn(s, x)
    BY <2>1, TailFacts
  <2>3. Len(s) = Len(f[d]) - 1
    BY <2>1, HeadTailProperties
  <2> QED
    BY <2>1, <2>2, <2>3 DEF ListsType
<1> HIDE DEF s
<1>3. /\ ls \in [Keys -> Seq(Blocks)]
      /\ ls[0] = f[d]
      /\ ListsOf(f2, v, d) = [ls EXCEPT ![0] = s]
      /\ \A e \in Dies : e # d => ListsOf(f2, v, e) = ListsOf(f, v, e)
  <2>1. FreeChanged(f, v, d, s, f2)
    BY <1>2 DEF FreeChanged
  <2> HIDE DEF f2
  <2>2. FreeEffect(f, v, d, s, f2)
    BY <2>1, FreeListsChange
  <2> QED
    BY <2>2 DEF ls, FreeEffect
<1>4. /\ Linked(NextOf(k, d), PrevOf(k, d), HeadOf(k, d), TailOf(k, d), ls)
      /\ Apart(ls)
  BY <1>1 DEF DieLinked
<1> HIDE DEF ls, f2
<1>5. k.headFreeBlock[d] # NONE
  <2>1. /\ HeadOf(k, d)[0] = k.headFreeBlock[d]
        /\ Thread(NextOf(k, d), PrevOf(k, d), HeadOf(k, d)[0], TailOf(k, d)[0],
                  f[d])
    BY <1>1, <1>3, <1>4 DEF HeadOf, Linked
  <2>2. f[d][1] # NONE
    BY <1>2, SeqFacts
  <2> QED
    BY <2>1, <2>2 DEF Thread
<1>6. /\ r \in LinkType
      /\ TakeLinks(0, b, NextOf(k, d), PrevOf(k, d), HeadOf(k, d), TailOf(k, d),
                   NextOf(r, d), PrevOf(r, d), HeadOf(r, d), TailOf(r, d))
      /\ NextOf(r, d)[b] = NONE /\ PrevOf(r, d)[b] = NONE
      /\ SameBut(k, r, d)
      /\ r.freeBlockCnt[d] = k.freeBlockCnt[d] - 1
  BY <1>5, GetEffect
<1> HIDE DEF r
<1>7. /\ b = Head(ls[0])
      /\ b \in Blocks
      /\ Linked(NextOf(r, d), PrevOf(r, d), HeadOf(r, d), TailOf(r, d),
                [ls EXCEPT ![0] = Tail(@)])
      /\ OnlyOf(0, b, NextOf(k, d), PrevOf(k, d), ls, NextOf(r, d), PrevOf(r, d))
  BY <1>1, <1>3, <1>4, <1>6, TakeLinked
<1>8. [ls EXCEPT ![0] = Tail(@)] = ListsOf(f2, v, d)
  BY <1>3 DEF s
<1>9. \A x \in Blocks : ~ IsOn(f2[d], x) /\ c[<<d, x>>] = 0 =>
                          NextOf(r, d)[x] = NONE /\ PrevOf(r, d)[x] = NONE
  <2>1. SUFFICES ASSUME NEW x \in Blocks, ~ IsOn(f2[d], x), c[<<d, x>>] = 0, x # b
                 PROVE  NextOf(r, d)[x] = NONE /\ PrevOf(r, d)[x] = NONE
    BY <1>6
  <2>2. ~ IsOn(f[d], x)
    BY <1>2, <1>3, <1>7, <2>1
  <2>3. NextOf(k, d)[x] = NONE /\ PrevOf(k, d)[x] = NONE
    BY <1>1, <2>1, <2>2 DEF DieLinked
  <2> QED
    BY <1>3, <1>7, <2>1, <2>2, <2>3 DEF OnlyOf
<1>10. DieLinked(r, f2, v, c, d)
  <2>1. r.freeBlockCnt[d] = Len(f2[d])
    BY <1>1, <1>2, <1>6 DEF DieLinked
  <2> QED
    BY <1>7, <1>8, <1>9, <2>1 DEF DieLinked
<1>11. ASSUME NEW e \in Dies, e # d
       PROVE  DieLinked(r, f2, v, c, e)
  <2>1. DieLinked(k, f, v, c, e) /\ f2[e] = f[e]
        /\ ListsOf(f2, v, e) = ListsOf(f, v, e)
    BY <1>2, <1>3, <1>11 DEF AllLinked
  <2> QED
    BY <1>6, <1>11, <2>1, OtherDies
<1>12. AllLinked(r, f2, v, c)
  BY <1>10, <1>11 DEF AllLinked
<1>13. f2 = [f EXCEPT ![d] = Tail(@)]
  BY DEF f2, s
<1>14. /\ r \in LinkType
       /\ AllLinked(r, [f EXCEPT ![d] = Tail(@)], v, c)
  BY <1>6, <1>12, <1>13
<1> QED
  BY <1>14 DEF r


\* PutToGcVictimList of a block that is on no list.
LEMMA LinkKeeps ==
  ASSUME NEW k \in LinkType, NEW d \in Dies, NEW b \in Blocks,
         NEW n \in 1 .. SLICES_PER_BLOCK,
         NEW f, NEW v, NEW c, NEW c2, ListsType(f, v),
         AllLinked(k, f, v, c), Apart(ListsOf(f, v, d)), Counted(v, c, d),
         \A j \in Keys : ~ IsOn(ListsOf(f, v, d)[j], b),
         \A e \in Dies, x \in Blocks :
           e # d \/ x # b => c2[<<e, x>>] = c[<<e, x>>],
         c2[<<d, b>>] # 0
  PROVE  /\ LinkVictim(k, d, b, n) \in LinkType
         /\ AllLinked(LinkVictim(k, d, b, n), f,
                      [v EXCEPT ![<<d, n>>] = Append(@, b)], c2)
<1> DEFINE r == LinkVictim(k, d, b, n)
           s == Append(v[<<d, n>>], b)
           w == [v EXCEPT ![<<d, n>>] = s]
           ls == ListsOf(f, v, d)
<1>1. /\ r \in LinkType
      /\ PutLinks(n, b, NextOf(k, d), PrevOf(k, d), HeadOf(k, d), TailOf(k, d),
                  NextOf(r, d), PrevOf(r, d), HeadOf(r, d), TailOf(r, d))
      /\ SameBut(k, r, d)
      /\ r.freeBlockCnt[d] = k.freeBlockCnt[d]
  BY LinkEffect
<1>2. v[<<d, n>>] \in Seq(Blocks) /\ s \in Seq(Blocks)
  <2>1. v[<<d, n>>] \in Seq(Blocks)
    BY DEF ListsType
  <2> QED
    BY <2>1, AppendFacts
<1> HIDE DEF r, s
<1>3. /\ ls \in [Keys -> Seq(Blocks)]
      /\ n \in Keys
      /\ ls[n] = v[<<d, n>>]
      /\ ListsOf(f, w, d) = [ls EXCEPT ![n] = s]
      /\ \A e \in Dies : e # d => ListsOf(f, w, e) = ListsOf(f, v, e)
  <2>1. VictimsChanged(f, v, d, n, s, w)
    BY <1>2 DEF VictimsChanged
  <2> HIDE DEF w
  <2>2. VictimsEffect(f, v, d, n, s, w)
    BY <2>1, VictimListsChange
  <2> QED
    BY <2>2 DEF ls, VictimsEffect
<1> HIDE DEF ls, w
<1>4. DieLinked(k, f, v, c, d)
  BY DEF AllLinked
<1>5. /\ Linked(NextOf(r, d), PrevOf(r, d), HeadOf(r, d), TailOf(r, d),
                [ls EXCEPT ![n] = Append(@, b)])
      /\ OnlyOf(n, b, NextOf(k, d), PrevOf(k, d), ls, NextOf(r, d), PrevOf(r, d))
  <2>1. /\ Linked(NextOf(k, d), PrevOf(k, d), HeadOf(k, d), TailOf(k, d), ls)
        /\ Apart(ls)
        /\ \A j \in Keys : ~ IsOn(ls[j], b)
    BY <1>4 DEF DieLinked, ls
  <2> QED
    BY <1>1, <1>3, <2>1, PutLinked
<1>6. [ls EXCEPT ![n] = Append(@, b)] = ListsOf(f, w, d)
  BY <1>3 DEF s
<1>7. \A x \in Blocks : ~ IsOn(f[d], x) /\ c2[<<d, x>>] = 0 =>
                          NextOf(r, d)[x] = NONE /\ PrevOf(r, d)[x] = NONE
  <2>1. SUFFICES ASSUME NEW x \in Blocks, ~ IsOn(f[d], x), c2[<<d, x>>] = 0
                 PROVE  NextOf(r, d)[x] = NONE /\ PrevOf(r, d)[x] = NONE
    OBVIOUS
  <2>2. x # b
    BY <2>1
  <2>3. c[<<d, x>>] = 0
    BY <2>1, <2>2
  <2>4. NextOf(k, d)[x] = NONE /\ PrevOf(k, d)[x] = NONE
    BY <1>4, <2>1, <2>3 DEF DieLinked
  <2>5. ~ IsOn(ls[n], x)
    BY <1>3, <2>3 DEF Counted
  <2> QED
    BY <1>5, <2>2, <2>4, <2>5 DEF OnlyOf
<1>8. DieLinked(r, f, w, c2, d)
  <2>1. r.freeBlockCnt[d] = Len(f[d])
    BY <1>1, <1>4 DEF DieLinked
  <2> QED
    BY <1>5, <1>6, <1>7, <2>1 DEF DieLinked
<1>9. ASSUME NEW e \in Dies, e # d
      PROVE  DieLinked(r, f, w, c2, e)
  <2>1. \A x \in Blocks : c2[<<e, x>>] = c[<<e, x>>]
    BY <1>9
  <2>2. DieLinked(k, f, v, c, e) /\ ListsOf(f, w, e) = ListsOf(f, v, e)
    BY <1>3, <1>9 DEF AllLinked
  <2> QED
    BY <1>1, <1>9, <2>1, <2>2, OtherDies
<1>10. w = [v EXCEPT ![<<d, n>>] = Append(@, b)]
  BY DEF w, s
<1>11. /\ r \in LinkType
       /\ AllLinked(r, f, [v EXCEPT ![<<d, n>>] = Append(@, b)], c2)
  BY <1>1, <1>8, <1>9, <1>10 DEF AllLinked
<1> QED
  BY <1>11 DEF r

\* GetFromGcVictimList from a list that is not empty.
LEMMA TakeKeeps ==
  ASSUME NEW k \in LinkType, NEW d \in Dies, NEW n \in 1 .. SLICES_PER_BLOCK,
         NEW f, NEW v, NEW c, ListsType(f, v),
         \E x \in Blocks : IsOn(v[<<d, n>>], x),
         AllLinked(k, f, v, c), Apart(ListsOf(f, v, d)), Counted(v, c, d)
  PROVE  /\ TakeVictim(k, d, n) \in LinkType
         /\ AllLinked(TakeVictim(k, d, n), f,
                      [v EXCEPT ![<<d, n>>] = Tail(@)], c)
<1> DEFINE r == TakeVictim(k, d, n)
           s == Tail(v[<<d, n>>])
           w == [v EXCEPT ![<<d, n>>] = s]
           ls == ListsOf(f, v, d)
           b == HeadOf(k, d)[n]
<1>1. DieLinked(k, f, v, c, d)
  BY DEF AllLinked
<1>2. v[<<d, n>>] \in Seq(Blocks) /\ v[<<d, n>>] # <<>> /\ s \in Seq(Blocks)
  <2>1. v[<<d, n>>] \in Seq(Blocks)
    BY DEF ListsType
  <2>2. v[<<d, n>>] # <<>>
    BY <2>1, SeqFacts DEF IsOn
  <2> QED
    BY <2>1, <2>2, TailFacts
<1> HIDE DEF s
<1>3. /\ ls \in [Keys -> Seq(Blocks)]
      /\ n \in Keys
      /\ ls[n] = v[<<d, n>>]
      /\ ListsOf(f, w, d) = [ls EXCEPT ![n] = s]
      /\ \A e \in Dies : e # d => ListsOf(f, w, e) = ListsOf(f, v, e)
  <2>1. VictimsChanged(f, v, d, n, s, w)
    BY <1>2 DEF VictimsChanged
  <2> HIDE DEF w
  <2>2. VictimsEffect(f, v, d, n, s, w)
    BY <2>1, VictimListsChange
  <2> QED
    BY <2>2 DEF ls, VictimsEffect
<1>4. /\ Linked(NextOf(k, d), PrevOf(k, d), HeadOf(k, d), TailOf(k, d), ls)
      /\ Apart(ls)
  BY <1>1 DEF DieLinked
<1> HIDE DEF ls, w
<1>5. k.headBlock[<<d, n>>] # NONE
  <2>1. /\ HeadOf(k, d)[n] = k.headBlock[<<d, n>>]
        /\ Thread(NextOf(k, d), PrevOf(k, d), HeadOf(k, d)[n], TailOf(k, d)[n],
                  v[<<d, n>>])
    BY <1>3, <1>4 DEF HeadOf, Linked
  <2>2. v[<<d, n>>] # <<>> /\ v[<<d, n>>][1] # NONE
    BY <1>2, SeqFacts
  <2> QED
    BY <2>1, <2>2 DEF Thread
<1>6. /\ r \in LinkType
      /\ TakeLinks(n, b, NextOf(k, d), PrevOf(k, d), HeadOf(k, d), TailOf(k, d),
                   NextOf(r, d), PrevOf(r, d), HeadOf(r, d), TailOf(r, d))
      /\ SameBut(k, r, d)
      /\ r.freeBlockCnt[d] = k.freeBlockCnt[d]
  BY <1>5, TakeEffect
<1> HIDE DEF r
<1>7. /\ b = Head(ls[n])
      /\ b \in Blocks
      /\ Linked(NextOf(r, d), PrevOf(r, d), HeadOf(r, d), TailOf(r, d),
                [ls EXCEPT ![n] = Tail(@)])
      /\ OnlyOf(n, b, NextOf(k, d), PrevOf(k, d), ls, NextOf(r, d), PrevOf(r, d))
  BY <1>2, <1>3, <1>4, <1>6, TakeLinked
<1>8. [ls EXCEPT ![n] = Tail(@)] = ListsOf(f, w, d)
  BY <1>3 DEF s
<1>9. \A x \in Blocks : ~ IsOn(f[d], x) /\ c[<<d, x>>] = 0 =>
                          NextOf(r, d)[x] = NONE /\ PrevOf(r, d)[x] = NONE
  <2>1. SUFFICES ASSUME NEW x \in Blocks, ~ IsOn(f[d], x), c[<<d, x>>] = 0
                 PROVE  NextOf(r, d)[x] = NONE /\ PrevOf(r, d)[x] = NONE
    OBVIOUS
  <2>2. ~ IsOn(ls[n], x)
    BY <1>3, <2>1 DEF Counted
  <2>3. x # b
    BY <1>2, <1>3, <1>7, <2>2, TailFacts
  <2>4. NextOf(k, d)[x] = NONE /\ PrevOf(k, d)[x] = NONE
    BY <1>1, <2>1 DEF DieLinked
  <2> QED
    BY <1>7, <2>2, <2>3, <2>4 DEF OnlyOf
<1>10. DieLinked(r, f, w, c, d)
  <2>1. r.freeBlockCnt[d] = Len(f[d])
    BY <1>1, <1>6 DEF DieLinked
  <2> QED
    BY <1>7, <1>8, <1>9, <2>1 DEF DieLinked
<1>11. ASSUME NEW e \in Dies, e # d
       PROVE  DieLinked(r, f, w, c, e)
  <2>1. DieLinked(k, f, v, c, e) /\ ListsOf(f, w, e) = ListsOf(f, v, e)
    BY <1>3, <1>11 DEF AllLinked
  <2> QED
    BY <1>6, <1>11, <2>1, OtherDies
<1>12. w = [v EXCEPT ![<<d, n>>] = Tail(@)]
  BY DEF w, s
<1>13. /\ r \in LinkType
       /\ AllLinked(r, f, [v EXCEPT ![<<d, n>>] = Tail(@)], c)
  BY <1>6, <1>10, <1>11, <1>12 DEF AllLinked
<1> QED
  BY <1>13 DEF r

\* SelectiveGetFromGcVictimList of a block that is on victim list n.
LEMMA UnlinkKeeps ==
  ASSUME NEW k \in LinkType, NEW d \in Dies, NEW b \in Blocks,
         NEW n \in 1 .. SLICES_PER_BLOCK,
         NEW f, NEW v, NEW c, ListsType(f, v),
         AllLinked(k, f, v, c), Apart(ListsOf(f, v, d)), Counted(v, c, d),
         IsOn(v[<<d, n>>], b)
  PROVE  /\ UnlinkVictim(k, d, b, n) \in LinkType
         /\ AllLinked(UnlinkVictim(k, d, b, n), f,
                      [v EXCEPT ![<<d, n>>] = Unlink(@, b)], c)
<1> DEFINE r == UnlinkVictim(k, d, b, n)
           s == Unlink(v[<<d, n>>], b)
           w == [v EXCEPT ![<<d, n>>] = s]
           ls == ListsOf(f, v, d)
<1>1. DieLinked(k, f, v, c, d) /\ n \in Keys
  BY PagesAssumption DEF AllLinked, Keys
<1>2. v[<<d, n>>] \in Seq(Blocks) /\ s \in Seq(Blocks)
  <2>1. v[<<d, n>>] \in Seq(Blocks)
    BY DEF ListsType
  <2>2. ls[n] = v[<<d, n>>]
    BY <1>1, PagesAssumption DEF ListsOf
  <2>3. AtMostOnce(v[<<d, n>>], b)
    BY <1>1, <2>2 DEF Apart
  <2> QED
    BY <2>1, <2>3, UnlinkFacts
<1> HIDE DEF s
<1>3. /\ ls \in [Keys -> Seq(Blocks)]
      /\ ls[n] = v[<<d, n>>]
      /\ ListsOf(f, w, d) = [ls EXCEPT ![n] = s]
      /\ \A e \in Dies : e # d => ListsOf(f, w, e) = ListsOf(f, v, e)
  <2>1. VictimsChanged(f, v, d, n, s, w)
    BY <1>2 DEF VictimsChanged
  <2> HIDE DEF w
  <2>2. VictimsEffect(f, v, d, n, s, w)
    BY <2>1, VictimListsChange
  <2> QED
    BY <2>2 DEF ls, VictimsEffect
<1>4. /\ Linked(NextOf(k, d), PrevOf(k, d), HeadOf(k, d), TailOf(k, d), ls)
      /\ Apart(ls)
  BY <1>1 DEF DieLinked
<1> HIDE DEF ls, w
<1>5. /\ r \in LinkType
      /\ CutLinks(n, b, NextOf(k, d), PrevOf(k, d), HeadOf(k, d), TailOf(k, d),
                  NextOf(r, d), PrevOf(r, d), HeadOf(r, d), TailOf(r, d))
      /\ SameBut(k, r, d)
      /\ r.freeBlockCnt[d] = k.freeBlockCnt[d]
  BY UnlinkEffect
<1> HIDE DEF r
<1>6. /\ Linked(NextOf(r, d), PrevOf(r, d), HeadOf(r, d), TailOf(r, d),
                [ls EXCEPT ![n] = Unlink(@, b)])
      /\ OnlyOf(n, b, NextOf(k, d), PrevOf(k, d), ls, NextOf(r, d), PrevOf(r, d))
  BY <1>1, <1>3, <1>4, <1>5, CutLinked
<1>7. [ls EXCEPT ![n] = Unlink(@, b)] = ListsOf(f, w, d)
  BY <1>3 DEF s
<1>8. \A x \in Blocks : ~ IsOn(f[d], x) /\ c[<<d, x>>] = 0 =>
                          NextOf(r, d)[x] = NONE /\ PrevOf(r, d)[x] = NONE
  <2>1. SUFFICES ASSUME NEW x \in Blocks, ~ IsOn(f[d], x), c[<<d, x>>] = 0
                 PROVE  NextOf(r, d)[x] = NONE /\ PrevOf(r, d)[x] = NONE
    OBVIOUS
  <2>2. ~ IsOn(v[<<d, n>>], x)
    BY <2>1 DEF Counted
  <2>3. x # b
    BY <2>2
  <2>4. NextOf(k, d)[x] = NONE /\ PrevOf(k, d)[x] = NONE
    BY <1>1, <2>1 DEF DieLinked
  <2> QED
    BY <1>3, <1>6, <2>2, <2>3, <2>4 DEF OnlyOf
<1>9. DieLinked(r, f, w, c, d)
  <2>1. r.freeBlockCnt[d] = Len(f[d])
    BY <1>1, <1>5 DEF DieLinked
  <2> QED
    BY <1>6, <1>7, <1>8, <2>1 DEF DieLinked
<1>10. ASSUME NEW e \in Dies, e # d
       PROVE  DieLinked(r, f, w, c, e)
  <2>1. DieLinked(k, f, v, c, e) /\ ListsOf(f, w, e) = ListsOf(f, v, e)
    BY <1>3, <1>10 DEF AllLinked
  <2> QED
    BY <1>5, <1>10, <2>1, OtherDies
<1>11. w = [v EXCEPT ![<<d, n>>] = Unlink(@, b)]
  BY DEF w, s
<1>12. /\ r \in LinkType
       /\ AllLinked(r, f, [v EXCEPT ![<<d, n>>] = Unlink(@, b)], c)
  BY <1>5, <1>9, <1>10, <1>11 DEF AllLinked
<1> QED
  BY <1>12 DEF r

\* SelectiveGetFromGcVictimList of a block that is on no list.
LEMMA UnlinkNothingKeeps ==
  ASSUME NEW k \in LinkType, NEW d \in Dies, NEW b \in Blocks,
         NEW f, NEW v, NEW c, AllLinked(k, f, v, c),
         ~ IsOn(f[d], b), c[<<d, b>>] = 0
  PROVE  /\ UnlinkVictim(k, d, b, 0) \in LinkType
         /\ AllLinked(UnlinkVictim(k, d, b, 0), f, v, c)
<1> DEFINE r == UnlinkVictim(k, d, b, 0)
<1>1. k.nextBlock[<<d, b>>] = NONE /\ k.prevBlock[<<d, b>>] = NONE
  BY DEF AllLinked, DieLinked, NextOf, PrevOf
<1>2. /\ r \in LinkType
      /\ \A e \in Dies : /\ NextOf(r, e) = NextOf(k, e)
                         /\ PrevOf(r, e) = PrevOf(k, e)
                         /\ HeadOf(r, e) = HeadOf(k, e)
                         /\ TailOf(r, e) = TailOf(k, e)
                         /\ r.freeBlockCnt[e] = k.freeBlockCnt[e]
  BY <1>1, UnlinkNothing
<1> HIDE DEF r
<1>3. AllLinked(r, f, v, c)
  BY <1>2 DEF AllLinked, DieLinked
<1> QED
  BY <1>2, <1>3 DEF r


-----------------------------------------------------------------------------
(* The invariant.                                                          *)

LinkInv ==
  links \in LinkType /\ AllLinked(links, freeList, victimList, invalidSliceCnt)

\* A list that lost a block leaves the lists of its die apart.
LEMMA ApartShrinks ==
  ASSUME NEW ls \in [Keys -> Seq(Blocks)], NEW m \in Keys, NEW s, Apart(ls),
         \A x : IsOn(s, x) => IsOn(ls[m], x),
         \A x : AtMostOnce(ls[m], x) => AtMostOnce(s, x)
  PROVE  Apart([ls EXCEPT ![m] = s])
<1> DEFINE ls2 == [ls EXCEPT ![m] = s]
<1>1. \A j \in Keys : ls2[j] = IF j = m THEN s ELSE ls[j]
  OBVIOUS
<1> HIDE DEF ls2
<1>2. \A j \in Keys, x \in Blocks : IsOn(ls2[j], x) => IsOn(ls[j], x)
  BY <1>1
<1>3. \A j \in Keys, x \in Blocks : AtMostOnce(ls2[j], x)
  BY <1>1 DEF Apart
<1>4. Apart(ls2)
  BY <1>2, <1>3 DEF Apart
<1> QED
  BY <1>4 DEF ls2

\* What the inductive invariant of AddressMap says of the lists.
LEMMA ListFacts ==
  ASSUME IInv
  PROVE  /\ ListsType(freeList, victimList)
         /\ \A d \in Dies : /\ Apart(ListsOf(freeList, victimList, d))
                            /\ Counted(victimList, invalidSliceCnt, d)
         /\ \A d \in Dies, b \in Blocks :
              IsOn(freeList[d], b) => invalidSliceCnt[<<d, b>>] = 0
<1>1. ListsType(freeList, victimList)
  BY DEF IInv, TypeOK, ListsType
<1>2. ASSUME NEW d \in Dies, NEW b \in Blocks, IsOn(freeList[d], b)
      PROVE  invalidSliceCnt[<<d, b>>] = 0
  <2>1. currentPage[<<d, b>>] = 0
    BY <1>2 DEF IInv, FreeBlocksErased
  <2>2. invalidSliceCnt[<<d, b>>] + Cardinality(LivePages(d, b)) <= 0
    BY <2>1 DEF IInv, CountsBound
  <2>3. Cardinality(LivePages(d, b)) \in Nat
    BY PageSets DEF LivePages
  <2>4. invalidSliceCnt[<<d, b>>] \in Nat
    BY PagesAssumption DEF IInv, TypeOK, DieBlocks
  <2> QED
    BY <2>2, <2>3, <2>4
<1>3. ASSUME NEW d \in Dies, NEW n \in 1 .. SLICES_PER_BLOCK, NEW b \in Blocks
      PROVE  /\ IsOn(victimList[<<d, n>>], b) => invalidSliceCnt[<<d, b>>] = n
             /\ AtMostOnce(victimList[<<d, n>>], b)
  BY DEF IInv, VictimListsExact
<1>4. ASSUME NEW d \in Dies
      PROVE  Counted(victimList, invalidSliceCnt, d)
  BY <1>3 DEF Counted
<1>5. ASSUME NEW d \in Dies
      PROVE  Apart(ListsOf(freeList, victimList, d))
  <2> DEFINE ls == ListsOf(freeList, victimList, d)
  <2>1. /\ ls[0] = freeList[d]
        /\ \A j \in Keys : j # 0 => /\ ls[j] = victimList[<<d, j>>]
                                    /\ j \in 1 .. SLICES_PER_BLOCK
    BY PagesAssumption DEF ListsOf, Keys
  <2>2. \A x \in Blocks : AtMostOnce(freeList[d], x)
    <3>1. SUFFICES ASSUME NEW x \in Blocks, ~ IsOn(freeList[d], x)
                   PROVE  AtMostOnce(freeList[d], x)
      BY DEF IInv, FreeBlocksErased
    <3> QED
      BY <3>1 DEF IsOn, AtMostOnce
  <2> HIDE DEF ls
  <2>3. \A j \in Keys, x \in Blocks : AtMostOnce(ls[j], x)
    BY <1>3, <2>1, <2>2
  <2>4. ASSUME NEW j \in Keys, NEW x \in Blocks, IsOn(ls[j], x)
        PROVE  invalidSliceCnt[<<d, x>>] = j
    <3>1. CASE j = 0
      BY <1>2, <2>1, <2>4, <3>1
    <3>2. CASE j # 0
      BY <1>3, <2>1, <2>4, <3>2
    <3> QED
      BY <3>1, <3>2
  <2>5. \A i, j \in Keys, x \in Blocks : IsOn(ls[i], x) /\ IsOn(ls[j], x) => i = j
    BY <2>4
  <2> QED
    BY <2>3, <2>5 DEF Apart, ls
<1> QED
  BY <1>1, <1>2, <1>4, <1>5

LEMMA InitLinkInv == LinkInit => LinkInv
<1> SUFFICES ASSUME LinkInit PROVE LinkInv
  OBVIOUS
<1> DEFINE last == USER_BLOCKS_PER_DIE - 1
<1>1. /\ last \in Nat \ {0}
      /\ Blocks = 0 .. last
      /\ Blocks \subseteq Nat
      /\ NONE \notin Blocks
      /\ 0 \in Keys
  BY BlocksAssumption, PagesAssumption, SlicesAssumption DEF Blocks, Keys
<1>2. /\ links.prevBlock = [db \in DieBlocks |->
                              IF db[2] < 2 THEN NONE ELSE db[2] - 1]
      /\ links.nextBlock = [db \in DieBlocks |->
                              IF db[2] \in {0, last} THEN NONE ELSE db[2] + 1]
      /\ links.headFreeBlock = [d \in Dies |-> 1]
      /\ links.tailFreeBlock = [d \in Dies |-> last]
      /\ links.freeBlockCnt  = [d \in Dies |-> last]
      /\ links.headBlock = [dn \in Dies \X (0 .. SLICES_PER_BLOCK) |-> NONE]
      /\ links.tailBlock = [dn \in Dies \X (0 .. SLICES_PER_BLOCK) |-> NONE]
      /\ links = [prevBlock |-> links.prevBlock, nextBlock |-> links.nextBlock,
                  headFreeBlock |-> links.headFreeBlock,
                  tailFreeBlock |-> links.tailFreeBlock,
                  freeBlockCnt |-> links.freeBlockCnt,
                  headBlock |-> links.headBlock,
                  tailBlock |-> links.tailBlock]
  BY DEF LinkInit
<1>3. links \in LinkType
  <2>1. links.prevBlock \in [DieBlocks -> Ptrs]
    BY <1>1, <1>2 DEF Ptrs, DieBlocks
  <2>2. links.nextBlock \in [DieBlocks -> Ptrs]
    BY <1>1, <1>2 DEF Ptrs, DieBlocks
  <2>3. /\ links.headFreeBlock \in [Dies -> Ptrs]
        /\ links.tailFreeBlock \in [Dies -> Ptrs]
        /\ links.freeBlockCnt \in [Dies -> Int]
    <3>1. 1 \in Ptrs /\ last \in Ptrs /\ last \in Int
      <4>1. 1 \in Blocks /\ last \in Blocks
        BY BlocksAssumption DEF Blocks
      <4> QED
        BY <1>1, <4>1 DEF Ptrs
    <3> HIDE DEF last
    <3> QED
      BY <1>2, <3>1
  <2>4. /\ links.headBlock \in [Dies \X Keys -> Ptrs]
        /\ links.tailBlock \in [Dies \X Keys -> Ptrs]
    BY <1>2 DEF Ptrs, Keys
  <2> QED
    BY <1>2, <2>1, <2>2, <2>3, <2>4 DEF LinkType
<1>4. ASSUME NEW d \in Dies
      PROVE  DieLinked(links, freeList, victimList, invalidSliceCnt, d)
  <2> DEFINE s == freeList[d]
             nx == NextOf(links, d)
             pv == PrevOf(links, d)
  <2>1. /\ s = [i \in 1 .. last |-> i]
        /\ \A n \in 1 .. SLICES_PER_BLOCK : victimList[<<d, n>>] = <<>>
        /\ \A b \in Blocks : invalidSliceCnt[<<d, b>>] = 0
    BY DEF LinkInit, Init, InitCurrentBlockOfDieMap, InitGcVictimMap,
           InitBlockMap, DieBlocks
  <2>2. s \in Seq(Blocks)
    BY InitIInv DEF LinkInit, IInv, TypeOK
  <2>3. Len(s) = last /\ s # <<>> /\ \A i \in 1 .. last : s[i] = i
    <3>1. DOMAIN s = 1 .. last /\ \A i \in 1 .. last : s[i] = i
      BY <2>1
    <3>2. Len(s) \in Nat /\ DOMAIN s = 1 .. Len(s)
      BY <2>2, SeqFacts
    <3>3. Len(s) = last
      BY <1>1, <3>1, <3>2
    <3> QED
      BY <1>1, <2>2, <3>1, <3>3, SeqFacts
  <2> HIDE DEF s, last
  <2>4. \A i \in Blocks :
          /\ nx[i] = IF i = 0 \/ i = last THEN NONE ELSE i + 1
          /\ pv[i] = IF i < 2 THEN NONE ELSE i - 1
    BY <1>2 DEF NextOf, PrevOf, DieBlocks
  <2> HIDE DEF nx, pv
  <2>5. /\ HeadOf(links, d)[0] = 1
        /\ TailOf(links, d)[0] = last
        /\ \A j \in Keys : j # 0 => /\ HeadOf(links, d)[j] = NONE
                                    /\ TailOf(links, d)[j] = NONE
    <3>1. /\ links.headFreeBlock[d] = 1
          /\ links.tailFreeBlock[d] = last
          /\ \A j \in Keys : /\ links.headBlock[<<d, j>>] = NONE
                              /\ links.tailBlock[<<d, j>>] = NONE
      BY <1>2 DEF Keys
    <3> QED
      BY <1>1, <3>1 DEF HeadOf, TailOf
  <2>6. Thread(nx, pv, 1, last, s)
    <3>1. 1 \in 1 .. last /\ last \in 1 .. last
      BY <1>1
    <3>2. s[1] = 1 /\ s[Len(s)] = last
      BY <2>3, <3>1
    <3>3. ASSUME NEW i \in 1 .. last
          PROVE  /\ nx[s[i]] = IF i = last THEN NONE ELSE s[i + 1]
                 /\ pv[s[i]] = IF i = 1 THEN NONE ELSE s[i - 1]
      <4>1. /\ i \in Blocks /\ s[i] = i /\ i # 0
            /\ (i # last => s[i + 1] = i + 1)
            /\ (i # 1 => s[i - 1] = i - 1)
        BY <1>1, <2>3
      <4>2. i < 2 <=> i = 1
        BY <1>1
      <4> QED
        BY <2>4, <4>1, <4>2
    <3> QED
      BY <2>3, <3>2, <3>3 DEF Thread
  <2>7. Thread(nx, pv, NONE, NONE, <<>>)
    <3>1. Len(<<>>) = 0
      BY EmptySeq
    <3> QED
      BY <3>1 DEF Thread
  <2>8. Linked(nx, pv, HeadOf(links, d), TailOf(links, d),
               ListsOf(freeList, victimList, d))
    <3>1. SUFFICES ASSUME NEW j \in Keys
                   PROVE  Thread(nx, pv, HeadOf(links, d)[j],
                                 TailOf(links, d)[j],
                                 ListsOf(freeList, victimList, d)[j])
      BY DEF Linked
    <3>2. CASE j = 0
      <4>1. ListsOf(freeList, victimList, d)[0] = s
        BY <1>1 DEF ListsOf, s
      <4> QED
        BY <2>5, <2>6, <3>2, <4>1
    <3>3. CASE j # 0
      <4>1. ListsOf(freeList, victimList, d)[j] = <<>>
        BY <2>1, <3>3, PagesAssumption DEF ListsOf, Keys
      <4> QED
        BY <2>5, <2>7, <3>3, <4>1
    <3> QED
      BY <3>2, <3>3
  <2>9. ASSUME NEW x \in Blocks, ~ IsOn(freeList[d], x)
        PROVE  nx[x] = NONE /\ pv[x] = NONE
    <3>1. x = 0
      <4>1. SUFFICES ASSUME x # 0 PROVE FALSE
        OBVIOUS
      <4>2. x \in 1 .. last
        BY <1>1, <4>1 DEF last
      <4>3. x \in DOMAIN s /\ s[x] = x
        BY <2>2, <2>3, <4>2, SeqFacts
      <4> QED
        BY <2>9, <4>3 DEF IsOn, s
    <3> QED
      BY <1>1, <2>4, <3>1
  <2>10. links.freeBlockCnt[d] = Len(freeList[d])
    BY <1>2, <2>3 DEF s, last
  <2> QED
    BY <2>8, <2>9, <2>10 DEF DieLinked, nx, pv
<1> QED
  BY <1>3, <1>4 DEF LinkInv, AllLinked


\* InvalidateOldVsa moves the block of the old page to the next victim list.
LEMMA LinkedWriteStep ==
  ASSUME IInv, IInv', LinkInv, NEW l \in LogicalSlices, LinkedWrite(l)
  PROVE  LinkInv'
<1>1. /\ AddrTransWrite(l)
      /\ freeList' = freeList
      /\ InvalidateOldVsa(l)
      /\ LinksIntact(l)
      /\ pc = "idle"
  BY DEF LinkedWrite, AddrTransWrite
<1>2. CASE logicalSlice[l] = NONE
  <2>1. UNCHANGED <<logicalSlice, invalidSliceCnt, victimList>>
    BY <1>1, <1>2 DEF InvalidateOldVsa
  <2>2. links' = links
    BY <2>1 DEF LinkedWrite
  <2> QED
    BY <1>1, <2>1, <2>2 DEF LinkInv
<1>3. CASE logicalSlice[l] # NONE
  <2>1. PICK d \in Dies, b \in Blocks, p \in Pages :
          logicalSlice[l] = <<d, b, p>> /\ virtualSlice[<<d, b, p>>] = l
    BY <1>3, MappedSlice DEF IInv
  <2> DEFINE n == invalidSliceCnt[<<d, b>>]
             v == IF n = 0 THEN victimList
                  ELSE [victimList EXCEPT ![<<d, n>>] = Unlink(@, b)]
             k == UnlinkVictim(links, d, b, n)
  <2>2. /\ logicalSlice'    = [logicalSlice EXCEPT ![l] = NONE]
        /\ invalidSliceCnt' = [invalidSliceCnt EXCEPT ![<<d, b>>] = n + 1]
        /\ victimList' = [v EXCEPT ![<<d, n + 1>>] = Append(@, b)]
    <3>1. /\ logicalSlice[l] # NONE
          /\ logicalSlice[l][1] = d
          /\ logicalSlice[l][2] = b
          /\ virtualSlice[logicalSlice[l]] = l
      BY <1>3, <2>1
    <3> QED
      BY <1>1, <3>1, Zenon
      DEF InvalidateOldVsa, SelectiveGetFromGcVictimList, PutToGcVictimList
  <2>3. links' = LinkVictim(k, d, b, n + 1)
    <3>1. logicalSlice' # logicalSlice
      <4>1. logicalSlice'[l] = NONE
        BY <2>2 DEF IInv, TypeOK
      <4> QED
        BY <1>3, <4>1
    <3>2. logicalSlice[l][1] = d /\ logicalSlice[l][2] = b
      BY <2>1
    <3> QED
      BY <3>1, <3>2, Zenon DEF LinkedWrite
  <2>4. /\ n \in Nat
        /\ n <= SLICES_PER_BLOCK
        /\ n + 1 \in 1 .. SLICES_PER_BLOCK
        /\ invalidSliceCnt'[<<d, b>>] = n + 1
        /\ \A e \in Dies, x \in Blocks :
             e # d \/ x # b =>
               invalidSliceCnt'[<<e, x>>] = invalidSliceCnt[<<e, x>>]
    <3>1. /\ invalidSliceCnt \in [DieBlocks -> 0 .. SLICES_PER_BLOCK]
          /\ invalidSliceCnt' \in [DieBlocks -> 0 .. SLICES_PER_BLOCK]
      BY DEF IInv, TypeOK
    <3>2. <<d, b>> \in DieBlocks
      BY DEF DieBlocks
    <3>3. invalidSliceCnt'[<<d, b>>] = n + 1
      BY <2>2, <3>1, <3>2
    <3>4. n \in 0 .. SLICES_PER_BLOCK /\ n + 1 \in 0 .. SLICES_PER_BLOCK
      BY <3>1, <3>2, <3>3
    <3>5. \A e \in Dies, x \in Blocks :
             e # d \/ x # b =>
               invalidSliceCnt'[<<e, x>>] = invalidSliceCnt[<<e, x>>]
      BY <2>2, <3>1 DEF DieBlocks
    <3> QED
      BY <3>3, <3>4, <3>5, PagesAssumption
  <2> DEFINE ls == ListsOf(freeList, victimList, d)
             ls1 == ListsOf(freeList, v, d)
  <2>5. /\ ListsType(freeList, victimList)
        /\ Apart(ls)
        /\ Counted(victimList, invalidSliceCnt, d)
    BY ListFacts
  <2>6. ~ IsOn(freeList[d], b)
    BY <1>1, <1>3, <2>1 DEF LinksIntact
  <2>7. \A j \in 1 .. SLICES_PER_BLOCK : IsOn(victimList[<<d, j>>], b) <=> n = j
    BY <1>1 DEF IInv, VictimListsExact, InCollection
  <2>8. \A j \in Keys : /\ j # 0 => /\ ls[j] = victimList[<<d, j>>]
                                    /\ ls1[j] = v[<<d, j>>]
                                    /\ j \in 1 .. SLICES_PER_BLOCK
                        /\ j = 0 => ls[j] = freeList[d] /\ ls1[j] = freeList[d]
    BY PagesAssumption DEF ListsOf, Keys
  <2>9. /\ k \in LinkType
        /\ AllLinked(k, freeList, v, invalidSliceCnt)
        /\ ListsType(freeList, v)
        /\ Apart(ls1)
        /\ Counted(v, invalidSliceCnt, d)
        /\ \A j \in Keys : ~ IsOn(ls1[j], b)
    <3>1. CASE n = 0
      <4>1. v = victimList /\ k = UnlinkVictim(links, d, b, 0)
        BY <3>1
      <4>2. k \in LinkType /\ AllLinked(k, freeList, victimList, invalidSliceCnt)
        <5>1. invalidSliceCnt[<<d, b>>] = 0
          BY <3>1
        <5>2. /\ UnlinkVictim(links, d, b, 0) \in LinkType
              /\ AllLinked(UnlinkVictim(links, d, b, 0), freeList, victimList,
                           invalidSliceCnt)
          BY <2>6, <5>1, UnlinkNothingKeeps DEF LinkInv
        <5> QED
          BY <4>1, <5>2
      <4>3. \A j \in Keys : ~ IsOn(ls1[j], b)
        BY <2>6, <2>7, <2>8, <3>1, <4>1
      <4> QED
        BY <2>5, <4>1, <4>2, <4>3
    <3>2. CASE n # 0
      <4>1. n \in 1 .. SLICES_PER_BLOCK
        BY <2>4, <3>2
      <4> DEFINE s == Unlink(victimList[<<d, n>>], b)
      <4>2. /\ victimList[<<d, n>>] \in Seq(Blocks)
            /\ IsOn(victimList[<<d, n>>], b)
            /\ AtMostOnce(victimList[<<d, n>>], b)
        BY <2>7, <4>1 DEF IInv, TypeOK, VictimListsExact
      <4>3. /\ s \in Seq(Blocks)
            /\ \A x : IsOn(s, x) <=> x # b /\ IsOn(victimList[<<d, n>>], x)
            /\ \A x : AtMostOnce(victimList[<<d, n>>], x) => AtMostOnce(s, x)
        BY <4>2, UnlinkFacts
      <4>4. v = [victimList EXCEPT ![<<d, n>>] = s]
        BY <3>2
      <4> HIDE DEF s
      <4>5. /\ k \in LinkType
            /\ AllLinked(k, freeList, v, invalidSliceCnt)
        <5>1. /\ UnlinkVictim(links, d, b, n) \in LinkType
              /\ AllLinked(UnlinkVictim(links, d, b, n), freeList,
                           [victimList EXCEPT ![<<d, n>>] = Unlink(@, b)],
                           invalidSliceCnt)
          <6> HIDE DEF n
          <6> QED
            BY <2>5, <4>1, <4>2, UnlinkKeeps DEF LinkInv
        <5> QED
          BY <3>2, <5>1
      <4> HIDE DEF k, v
      <4>6. /\ ls \in [Keys -> Seq(Blocks)]
            /\ n \in Keys
            /\ ls[n] = victimList[<<d, n>>]
            /\ ListsType(freeList, v)
            /\ ls1 = [ls EXCEPT ![n] = s]
        <5> HIDE DEF n
        <5>1. VictimsChanged(freeList, victimList, d, n, s, v)
          BY <2>5, <4>1, <4>3, <4>4 DEF VictimsChanged
        <5>2. VictimsEffect(freeList, victimList, d, n, s, v)
          BY <5>1, VictimListsChange
        <5> QED
          BY <5>2 DEF VictimsEffect
      <4> HIDE DEF ls, ls1, n
      <4>7. Apart(ls1)
        <5>1. /\ \A x : IsOn(s, x) => IsOn(ls[n], x)
              /\ \A x : AtMostOnce(ls[n], x) => AtMostOnce(s, x)
          BY <4>3, <4>6
        <5> QED
          BY <2>5, <4>6, <5>1, ApartShrinks
      <4>8. \A j \in Keys : ls1[j] = IF j = n THEN s ELSE ls[j]
        BY <4>6
      <4>9. \A j \in Keys : ~ IsOn(ls1[j], b)
        <5>1. SUFFICES ASSUME NEW j \in Keys, IsOn(ls1[j], b) PROVE FALSE
          OBVIOUS
        <5>2. j # n
          BY <4>3, <4>8, <5>1
        <5>3. IsOn(ls[j], b) /\ IsOn(ls[n], b)
          BY <4>2, <4>6, <4>8, <5>1, <5>2
        <5> QED
          BY <2>5, <4>6, <5>2, <5>3 DEF Apart
      <4>10. Counted(v, invalidSliceCnt, d)
        <5>1. SUFFICES ASSUME NEW j \in 1 .. SLICES_PER_BLOCK, NEW x \in Blocks,
                              IsOn(v[<<d, j>>], x)
                       PROVE  invalidSliceCnt[<<d, x>>] # 0
          BY DEF Counted
        <5>2. j \in Keys /\ j # 0
          BY PagesAssumption DEF Keys
        <5>3. IsOn(ls1[j], x)
          BY <2>8, <5>1, <5>2
        <5>4. IsOn(ls[j], x)
          BY <4>3, <4>6, <4>8, <5>2, <5>3
        <5>5. IsOn(victimList[<<d, j>>], x)
          BY <2>8, <5>2, <5>4
        <5> QED
          BY <2>5, <5>5 DEF Counted
      <4> QED
        BY <4>5, <4>6, <4>7, <4>9, <4>10
    <3> QED
      BY <3>1, <3>2
  <2> HIDE DEF k, v, n, ls
  <2>10. /\ LinkVictim(k, d, b, n + 1) \in LinkType
         /\ AllLinked(LinkVictim(k, d, b, n + 1), freeList,
                      [v EXCEPT ![<<d, n + 1>>] = Append(@, b)],
                      invalidSliceCnt')
    <3> DEFINE m == n + 1
               c2 == invalidSliceCnt'
    <3>1. m \in 1 .. SLICES_PER_BLOCK /\ c2[<<d, b>>] # 0
      BY <2>4
    <3>2. \A e \in Dies, x \in Blocks :
            e # d \/ x # b => c2[<<e, x>>] = invalidSliceCnt[<<e, x>>]
      BY <2>4
    <3> HIDE DEF m, c2
    <3>3. /\ LinkVictim(k, d, b, m) \in LinkType
          /\ AllLinked(LinkVictim(k, d, b, m), freeList,
                       [v EXCEPT ![<<d, m>>] = Append(@, b)], c2)
      BY <2>9, <3>1, <3>2, LinkKeeps
    <3> QED
      BY <3>3 DEF m, c2
  <2> QED
    BY <1>1, <2>2, <2>3, <2>10 DEF LinkInv
<1> QED
  BY <1>2, <1>3

\* GetFromFbList opens the block.
LEMMA LinkedOpenStep ==
  ASSUME IInv, LinkInv, LinkedOpen
  PROVE  LinkInv'
<1>1. /\ targetDie \in Dies
      /\ freeList[targetDie] # <<>>
      /\ freeList' = [freeList EXCEPT ![targetDie] = Tail(@)]
      /\ UNCHANGED <<invalidSliceCnt, victimList>>
      /\ links' = GetFromFbList(links, targetDie)
  <2>1. ~ NoFreeBlock(targetDie) /\ targetDie \in Dies
    BY DEF LinkedOpen, OpenFreeBlock, IInv, TypeOK
  <2>2. freeList[targetDie] # <<>>
    <3>1. Len(<<>>) = 0
      BY EmptySeq
    <3> QED
      BY <2>1, <3>1 DEF NoFreeBlock, RESERVED_FREE_BLOCK_COUNT
  <2> QED
    BY <2>1, <2>2 DEF LinkedOpen, OpenFreeBlock
<1>2. /\ GetFromFbList(links, targetDie) \in LinkType
      /\ AllLinked(GetFromFbList(links, targetDie),
                   [freeList EXCEPT ![targetDie] = Tail(@)], victimList,
                   invalidSliceCnt)
  BY <1>1, ListFacts, GetKeeps DEF LinkInv
<1> QED
  BY <1>1, <1>2 DEF LinkInv

\* GetFromGcVictimList takes the victim.
LEMMA LinkedSelectStep ==
  ASSUME IInv, LinkInv, LinkedSelect
  PROVE  LinkInv'
<1>1. PICK n \in 1 .. SLICES_PER_BLOCK :
        /\ Greediest(targetDie, n)
        /\ victim' = Head(victimList[<<targetDie, n>>])
        /\ victimList' = [victimList EXCEPT ![<<targetDie, n>>] = Tail(@)]
  BY DEF LinkedSelect, SelectVictim
<1>2. /\ targetDie \in Dies
      /\ UNCHANGED <<invalidSliceCnt, freeList>>
      /\ links' = TakeVictim(links, targetDie,
                             invalidSliceCnt[<<targetDie, victim'>>])
  BY DEF LinkedSelect, SelectVictim, IInv, TypeOK
<1>3. /\ victim' \in Blocks
      /\ IsOn(victimList[<<targetDie, n>>], victim')
  <2>1. /\ victimList[<<targetDie, n>>] \in Seq(Blocks)
        /\ victimList[<<targetDie, n>>] # <<>>
    BY <1>1, <1>2 DEF IInv, TypeOK, Greediest, VictimCounts
  <2> QED
    BY <1>1, <2>1, TailFacts
<1>4. invalidSliceCnt[<<targetDie, victim'>>] = n
  BY <1>2, <1>3 DEF IInv, VictimListsExact
<1>5. /\ TakeVictim(links, targetDie, n) \in LinkType
      /\ AllLinked(TakeVictim(links, targetDie, n), freeList,
                   [victimList EXCEPT ![<<targetDie, n>>] = Tail(@)],
                   invalidSliceCnt)
  BY <1>2, <1>3, ListFacts, TakeKeeps DEF LinkInv
<1> QED
  BY <1>1, <1>2, <1>4, <1>5 DEF LinkInv

\* FindFreeVirtualSliceForGc takes no block, one or two.
LEMMA LinkedCopyStep ==
  ASSUME IInv, LinkInv, LinkedCopy
  PROVE  LinkInv'
<1> DEFINE d == targetDie
           left == IF LeavesVictim THEN GetFromFbList(links, d) ELSE links
           f == IF LeavesVictim THEN [freeList EXCEPT ![d] = Tail(@)]
                ELSE freeList
           opens == IsFull(d, BlockAfterLeaving)
<1>1. /\ d \in Dies
      /\ ~ NoRoomForCopy
      /\ UNCHANGED <<invalidSliceCnt, victimList>>
      /\ links' = IF opens THEN GetFromFbList(left, d) ELSE left
      /\ freeList' = [freeList EXCEPT ![d] = IF opens THEN Tail(FreeAfterLeaving)
                                             ELSE FreeAfterLeaving]
  BY DEF LinkedCopy, CopyValidPage, IInv, TypeOK
<1>2. /\ ListsType(freeList, victimList)
      /\ Apart(ListsOf(freeList, victimList, d))
  BY <1>1, ListFacts
<1>3. /\ left \in LinkType
      /\ AllLinked(left, f, victimList, invalidSliceCnt)
      /\ ListsType(f, victimList)
      /\ Apart(ListsOf(f, victimList, d))
      /\ f[d] = FreeAfterLeaving
  <2>1. CASE ~ LeavesVictim
    BY <1>2, <2>1 DEF LinkInv, FreeAfterLeaving
  <2>2. CASE LeavesVictim
    <3>1. freeList[d] # <<>> /\ freeList[d] \in Seq(Blocks)
      BY <1>1, <2>2 DEF NoRoomForCopy, NoFreeBlockForGc, IInv, TypeOK
    <3> DEFINE s == Tail(freeList[d])
               ls == ListsOf(freeList, victimList, d)
    <3>2. /\ s \in Seq(Blocks)
          /\ \A x : IsOn(s, x) => IsOn(freeList[d], x)
          /\ \A x : AtMostOnce(freeList[d], x) => AtMostOnce(s, x)
      BY <3>1, TailFacts
    <3>3. f = [freeList EXCEPT ![d] = s] /\ FreeAfterLeaving = s
      BY <2>2 DEF FreeAfterLeaving
    <3>4. f[d] = FreeAfterLeaving
      BY <1>1, <3>3 DEF IInv, TypeOK
    <3> HIDE DEF s
    <3>5. left \in LinkType /\ AllLinked(left, f, victimList, invalidSliceCnt)
      <4>1. /\ GetFromFbList(links, d) \in LinkType
            /\ AllLinked(GetFromFbList(links, d),
                         [freeList EXCEPT ![d] = Tail(@)], victimList,
                         invalidSliceCnt)
        <5> HIDE DEF d
        <5> QED
          BY <1>1, <1>2, <3>1, GetKeeps DEF LinkInv
      <4> QED
        BY <2>2, <4>1
    <3> HIDE DEF f, d, left
    <3>6. /\ ls \in [Keys -> Seq(Blocks)]
          /\ ls[0] = freeList[d]
          /\ ListsType(f, victimList)
          /\ ListsOf(f, victimList, d) = [ls EXCEPT ![0] = s]
      <4>1. FreeChanged(freeList, victimList, d, s, f)
        BY <1>2, <3>2, <3>3 DEF FreeChanged
      <4>2. FreeEffect(freeList, victimList, d, s, f)
        BY <1>1, <4>1, FreeListsChange
      <4> QED
        BY <4>2 DEF FreeEffect
    <3> HIDE DEF ls
    <3>7. Apart([ls EXCEPT ![0] = s])
      <4>1. /\ \A x : IsOn(s, x) => IsOn(ls[0], x)
            /\ \A x : AtMostOnce(ls[0], x) => AtMostOnce(s, x)
            /\ 0 \in Keys
        BY <3>2, <3>6, PagesAssumption DEF Keys
      <4>2. Apart(ls)
        BY <1>2 DEF ls
      <4> QED
        BY <3>6, <4>1, <4>2, ApartShrinks
    <3> QED
      BY <3>4, <3>5, <3>6, <3>7
  <2> QED
    BY <2>1, <2>2
<1>4. CASE ~ opens
  <2>1. freeList' = f /\ links' = left
    <3>1. freeList[d] = FreeAfterLeaving \/ LeavesVictim
      BY DEF FreeAfterLeaving
    <3>2. freeList' = [freeList EXCEPT ![d] = FreeAfterLeaving]
      BY <1>1, <1>4
    <3>3. freeList \in [Dies -> Seq(Blocks)]
      BY DEF IInv, TypeOK
    <3> QED
      BY <1>1, <1>4, <3>2, <3>3 DEF FreeAfterLeaving
  <2> QED
    BY <1>1, <1>3, <2>1 DEF LinkInv
<1>5. CASE opens
  <2>1. f[d] # <<>>
    BY <1>1, <1>3, <1>5 DEF NoRoomForCopy
  <2>2. freeList' = [f EXCEPT ![d] = Tail(@)]
    <3>1. freeList \in [Dies -> Seq(Blocks)]
      BY DEF IInv, TypeOK
    <3>2. freeList' = [freeList EXCEPT ![d] = Tail(FreeAfterLeaving)]
      BY <1>1, <1>5
    <3> QED
      BY <1>1, <3>1, <3>2 DEF FreeAfterLeaving
  <2>3. links' = GetFromFbList(left, d)
    BY <1>1, <1>5
  <2> HIDE DEF f, d, left
  <2>4. /\ GetFromFbList(left, d) \in LinkType
        /\ AllLinked(GetFromFbList(left, d), [f EXCEPT ![d] = Tail(@)],
                     victimList, invalidSliceCnt)
    BY <1>1, <1>3, <2>1, GetKeeps
  <2> QED
    BY <1>1, <2>2, <2>3, <2>4 DEF LinkInv
<1> QED
  BY <1>4, <1>5

\* PutToFbList frees the erased victim.
LEMMA LinkedEraseStep ==
  ASSUME IInv, LinkInv, LinkedErase
  PROVE  LinkInv'
<1>1. /\ targetDie \in Dies
      /\ victim \in Blocks
      /\ InCollection(targetDie, victim)
      /\ victimList' = victimList
      /\ freeList' = [freeList EXCEPT ![targetDie] = Append(@, victim)]
      /\ invalidSliceCnt' = [invalidSliceCnt EXCEPT ![<<targetDie, victim>>] = 0]
      /\ links' = PutToFbList(links, targetDie, victim)
  BY DEF LinkedErase, EraseBlock, FinishCollection, FreeVictim, ClearCounts,
         IInv, TypeOK, CallConsistent, InCollection
<1>2. \A j \in Keys :
        ~ IsOn(ListsOf(freeList, victimList, targetDie)[j], victim)
  <2>1. ~ IsOn(freeList[targetDie], victim)
    BY <1>1 DEF IInv, FreeBlocksErased
  <2>2. \A j \in 1 .. SLICES_PER_BLOCK :
          ~ IsOn(victimList[<<targetDie, j>>], victim)
    BY <1>1 DEF IInv, VictimListsExact
  <2> QED
    BY <2>1, <2>2, PagesAssumption DEF ListsOf, Keys
<1>3. \A e \in Dies, x \in Blocks :
        e # targetDie \/ x # victim =>
          invalidSliceCnt'[<<e, x>>] = invalidSliceCnt[<<e, x>>]
  BY <1>1 DEF IInv, TypeOK, DieBlocks
<1>4. /\ PutToFbList(links, targetDie, victim) \in LinkType
      /\ AllLinked(PutToFbList(links, targetDie, victim),
                   [freeList EXCEPT ![targetDie] = Append(@, victim)],
                   victimList, invalidSliceCnt')
  <2> DEFINE c2 == invalidSliceCnt'
  <2>1. \A e \in Dies, x \in Blocks :
          e # targetDie \/ x # victim => c2[<<e, x>>] = invalidSliceCnt[<<e, x>>]
    BY <1>3
  <2> HIDE DEF c2
  <2>2. /\ PutToFbList(links, targetDie, victim) \in LinkType
        /\ AllLinked(PutToFbList(links, targetDie, victim),
                     [freeList EXCEPT ![targetDie] = Append(@, victim)],
                     victimList, c2)
    BY <1>1, <1>2, <2>1, ListFacts, PutKeeps DEF LinkInv
  <2> QED
    BY <2>2 DEF c2
<1> QED
  BY <1>1, <1>4 DEF LinkInv

\* A call that fills a page of the current block, and a stutter, touch no link.
LEMMA LinksUntouched ==
  ASSUME LinkInv, UNCHANGED <<links, freeList, victimList, invalidSliceCnt>>
  PROVE  LinkInv'
BY DEF LinkInv

-----------------------------------------------------------------------------
(* The theorems.                                                           *)

\* The steps with links are the steps of AddressMap.
LEMMA LinksRefine == LinkSpec => Spec
<1>1. LinkInit => Init
  BY DEF LinkInit
<1>2. [LinkNext]_linkVars => [Next]_vars
  BY DEF LinkNext, LinkedInternal, LinkedWrite, LinkedUse, LinkedOpen,
         LinkedSelect, LinkedCopy, LinkedErase, Next, Internal, linkVars
<1> QED
  BY <1>1, <1>2, PTL DEF LinkSpec, Spec

\* The links satisfy their invariant in every reachable state.
THEOREM LinksInvariant == CurrentStaysLive /\ LinkSpec => []LinkInv
<1> SUFFICES ASSUME CurrentStaysLive PROVE LinkSpec => []LinkInv
  OBVIOUS
<1>1. LinkInit => LinkInv
  BY InitLinkInv
<1>2. IInv /\ IInv' /\ LinkInv /\ [LinkNext]_linkVars => LinkInv'
  <2> SUFFICES ASSUME IInv, IInv', LinkInv, [LinkNext]_linkVars PROVE LinkInv'
    OBVIOUS
  <2>1. ASSUME NEW l \in LogicalSlices, LinkedWrite(l) PROVE LinkInv'
    BY <2>1, LinkedWriteStep
  <2>2. CASE LinkedUse
    BY <2>2, LinksUntouched DEF LinkedUse, UseCurrentBlock
  <2>3. CASE LinkedOpen
    BY <2>3, LinkedOpenStep
  <2>4. CASE LinkedSelect
    BY <2>4, LinkedSelectStep
  <2>5. CASE LinkedCopy
    BY <2>5, LinkedCopyStep
  <2>6. CASE LinkedErase
    BY <2>6, LinkedEraseStep
  <2>7. CASE UNCHANGED linkVars
    BY <2>7, LinksUntouched DEF linkVars, vars
  <2> QED
    BY <2>1, <2>2, <2>3, <2>4, <2>5, <2>6, <2>7 DEF LinkNext, LinkedInternal
<1>3. Spec => []IInv
  BY Inductive
<1> QED
  BY <1>1, <1>2, <1>3, LinksRefine, PTL DEF LinkSpec

\* In every reachable state the linked lists of the code are the lists of
\* AddressMap, forwards and backwards: no operation on one list breaks another,
\* although a block has a single pair of links for all of them.
THEOREM LinksAlwaysLists == CurrentStaysLive /\ LinkSpec => []LinksAreLists
<1> SUFFICES ASSUME CurrentStaysLive PROVE LinkSpec => []LinksAreLists
  OBVIOUS
<1>1. IInv /\ LinkInv => LinksAreLists
  <2> SUFFICES ASSUME IInv, LinkInv, NEW d \in Dies
               PROVE
                 /\ Threads(d, freeList[d], links.headFreeBlock[d],
                            links.tailFreeBlock[d])
                 /\ links.freeBlockCnt[d] = Len(freeList[d])
                 /\ \A n \in 1 .. SLICES_PER_BLOCK :
                      Threads(d, victimList[<<d, n>>],
                              links.headBlock[<<d, n>>],
                              links.tailBlock[<<d, n>>])
                 /\ \A b \in Blocks :
                      ~ IsOn(freeList[d], b) /\ invalidSliceCnt[<<d, b>>] = 0 =>
                        /\ links.nextBlock[<<d, b>>] = NONE
                        /\ links.prevBlock[<<d, b>>] = NONE
    BY DEF LinksAreLists
  <2>1. DieLinked(links, freeList, victimList, invalidSliceCnt, d)
    BY DEF LinkInv, AllLinked
  <2>2. ASSUME NEW s \in Seq(Blocks), NEW h, NEW t,
               Thread(NextOf(links, d), PrevOf(links, d), h, t, s)
        PROVE  Threads(d, s, h, t)
    <3>1. /\ DOMAIN s = 1 .. Len(s)
          /\ \A i \in 1 .. Len(s) : s[i] \in Blocks
      BY SeqFacts
    <3>2. \A i \in 1 .. Len(s) :
            /\ links.nextBlock[<<d, s[i]>>] = NextOf(links, d)[s[i]]
            /\ links.prevBlock[<<d, s[i]>>] = PrevOf(links, d)[s[i]]
      BY <3>1 DEF NextOf, PrevOf
    <3>3. s # <<>> => Head(s) = s[1]
      BY HeadTailProperties
    <3>4. Last(s) = s[Len(s)]
      BY DEF Last
    <3> QED
      BY <2>2, <3>1, <3>2, <3>3, <3>4 DEF Thread, Threads
  <2>3. ASSUME NEW j \in Keys
        PROVE  Thread(NextOf(links, d), PrevOf(links, d), HeadOf(links, d)[j],
                      TailOf(links, d)[j], ListsOf(freeList, victimList, d)[j])
    BY <2>1 DEF DieLinked, Linked
  <2>4. Threads(d, freeList[d], links.headFreeBlock[d], links.tailFreeBlock[d])
    <3>1. 0 \in Keys /\ freeList[d] \in Seq(Blocks)
      BY PagesAssumption DEF Keys, IInv, TypeOK
    <3>2. Thread(NextOf(links, d), PrevOf(links, d), links.headFreeBlock[d],
                 links.tailFreeBlock[d], freeList[d])
      BY <2>3, <3>1 DEF HeadOf, TailOf, ListsOf
    <3> QED
      BY <2>2, <3>1, <3>2
  <2>5. ASSUME NEW n \in 1 .. SLICES_PER_BLOCK
        PROVE  Threads(d, victimList[<<d, n>>], links.headBlock[<<d, n>>],
                       links.tailBlock[<<d, n>>])
    <3>1. n \in Keys /\ n # 0 /\ victimList[<<d, n>>] \in Seq(Blocks)
      BY PagesAssumption DEF Keys, IInv, TypeOK
    <3>2. Thread(NextOf(links, d), PrevOf(links, d), links.headBlock[<<d, n>>],
                 links.tailBlock[<<d, n>>], victimList[<<d, n>>])
      BY <2>3, <3>1 DEF HeadOf, TailOf, ListsOf
    <3> QED
      BY <2>2, <3>1, <3>2
  <2>6. /\ links.freeBlockCnt[d] = Len(freeList[d])
        /\ \A b \in Blocks :
             ~ IsOn(freeList[d], b) /\ invalidSliceCnt[<<d, b>>] = 0 =>
               /\ links.nextBlock[<<d, b>>] = NONE
               /\ links.prevBlock[<<d, b>>] = NONE
    BY <2>1 DEF DieLinked, NextOf, PrevOf
  <2> QED
    BY <2>4, <2>5, <2>6
<1>2. Spec => []IInv
  BY Inductive
<1>3. LinkSpec => []LinkInv
  BY LinksInvariant
<1> QED
  BY <1>1, <1>2, <1>3, LinksRefine, PTL

=============================================================================
