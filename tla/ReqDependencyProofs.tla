------------------------- MODULE ReqDependencyProofs -------------------------
(***************************************************************************)
(* Proofs about the order of low-level requests, for any pool of requests, *)
(* any entries, dies, blocks and pages: an entry has one user at a time;   *)
(* and, if a block is used again only when the programs of its last use    *)
(* are let through, every request finds what it would find had the ones    *)
(* issued before it finished first, and no request waits for ever.         *)
(***************************************************************************)
EXTENDS ReqDependency, WellFoundedInduction, SequenceTheorems,
        FiniteSetTheorems, TLAPS

-----------------------------------------------------------------------------
(* The structure of the pool. *)

Contents   == Values \cup {ERASED}
Links      == Tags \cup {NONE}
FlashCodes == {"READ", "WRITE", "ERASE"}
FlashPages == DieBlocks \X Pages
Flashes    == [FlashPages -> Contents]
QueueTypes == {"FREE", "NONE", "NAND", "NVME_DMA",
               "BLOCKED_BY_BUF_DEP", "BLOCKED_BY_ROW_ADDR_DEP"}

Requests ==
  [reqCode : DmaCodes \cup FlashCodes \cup {NONE}, entry : Entries \cup {NONE},
   block : DieBlocks \cup {NONE}, page : Pages \cup {NONE},
   want : Contents \cup {NONE}]

PoolType(k) ==
  k \in [req             : [Tags -> Requests],
         reqQueueType    : [Tags -> QueueTypes],
         prevBlockingReq : [Tags -> Links],
         nextBlockingReq : [Tags -> Links],
         blockingReqTail : [Entries -> Links],
         nvmeDmaReqQ     : Seq(Tags),
         nandReqQ        : [Dies -> Seq(Tags)],
         rowAddrDepReqQ  : [Dies -> Seq(Tags)],
         permittedProgPage   : [DieBlocks -> 0 .. PAGES_PER_BLOCK],
         blockedReadReqCnt   : [DieBlocks -> Int],
         blockedEraseReqFlag : [DieBlocks -> BOOLEAN]]

WellFormed(r) ==
  /\ r.reqCode \in DmaCodes \cup FlashCodes
  /\ r.reqCode = "ERASE" => r.entry = NONE
  /\ r.reqCode # "ERASE" => r.entry \in Entries /\ r.want \in Contents
  /\ r.reqCode \in FlashCodes => r.block \in DieBlocks
  /\ r.reqCode \in {"READ", "WRITE"} => r.page \in Pages

Live(k, t) == k.reqQueueType[t] # "FREE"

\* The live requests of an entry are linked, and the links have one end each.
Chained(k) ==
  /\ \A t \in Tags : ~ Live(k, t) =>
       k.prevBlockingReq[t] = NONE /\ k.nextBlockingReq[t] = NONE
  /\ \A t \in Tags, u \in Tags : Live(k, t) /\ k.nextBlockingReq[t] = u =>
       /\ Live(k, u) /\ k.prevBlockingReq[u] = t
       /\ k.req[u].entry = k.req[t].entry /\ k.req[t].entry # NONE
  /\ \A t \in Tags, u \in Tags : Live(k, u) /\ k.prevBlockingReq[u] = t =>
       Live(k, t) /\ k.nextBlockingReq[t] = u
  /\ \A e \in Entries, t \in Tags : k.blockingReqTail[e] = t =>
       Live(k, t) /\ k.req[t].entry = e /\ k.nextBlockingReq[t] = NONE
  /\ \A t \in Tags : Live(k, t) /\ k.req[t].entry # NONE =>
       /\ k.nextBlockingReq[t] = NONE => k.blockingReqTail[k.req[t].entry] = t
       /\ k.prevBlockingReq[t] = NONE => k.blockingReqTail[k.req[t].entry] # NONE
  /\ \A t, u \in Tags :
       /\ Live(k, t) /\ k.prevBlockingReq[t] = NONE
       /\ Live(k, u) /\ k.prevBlockingReq[u] = NONE
       /\ k.req[t].entry = k.req[u].entry /\ k.req[t].entry # NONE
       => t = u

In(s, x)    == \E i \in DOMAIN s : s[i] = x
Distinct(s) == \A i, j \in DOMAIN s : s[i] = s[j] => i = j

\* The queues have the requests that say so, except x, which is on its way.
Placed(k, x) ==
  /\ Distinct(k.nvmeDmaReqQ)
  /\ \A d \in Dies : Distinct(k.nandReqQ[d]) /\ Distinct(k.rowAddrDepReqQ[d])
  /\ \A t \in Tags :
       /\ In(k.nvmeDmaReqQ, t) <=> t # x /\ k.reqQueueType[t] = "NVME_DMA"
       /\ \A d \in Dies :
            /\ In(k.nandReqQ[d], t) <=>
                 t # x /\ k.reqQueueType[t] = "NAND" /\ k.req[t].block[1] = d
            /\ In(k.rowAddrDepReqQ[d], t) <=>
                 /\ t # x /\ k.reqQueueType[t] = "BLOCKED_BY_ROW_ADDR_DEP"
                 /\ k.req[t].block[1] = d

\* Only the first of a chain has passed the data buffer dependency; request iss
\* waits in SyncReleaseEraseReq.
Queued(k, x, iss) ==
  /\ iss \in Links /\ (iss # NONE => iss # x)
  /\ \A t \in Tags : Live(k, t) => WellFormed(k.req[t])
  /\ \A t \in Tags : t # x =>
       /\ k.reqQueueType[t] \in {"NAND", "BLOCKED_BY_ROW_ADDR_DEP"} =>
            k.req[t].reqCode \in FlashCodes /\ k.prevBlockingReq[t] = NONE
       /\ k.reqQueueType[t] = "NVME_DMA" =>
            k.req[t].reqCode \in DmaCodes /\ k.prevBlockingReq[t] = NONE
       /\ k.reqQueueType[t] = "BLOCKED_BY_BUF_DEP" => k.prevBlockingReq[t] # NONE
       /\ k.reqQueueType[t] = "NONE" <=> t = iss
       /\ t = iss => k.req[t].reqCode = "READ"

\* The pool with request x, if not NONE, on its way from a queue to another.
PoolInv(k, x, iss) == PoolType(k) /\ Chained(k) /\ Placed(k, x) /\ Queued(k, x, iss)

-----------------------------------------------------------------------------
(* The order of issue: age counts the requests issued before.               *)

Aged(k, iss, age, now) ==
  /\ now \in Nat /\ age \in [Tags -> Nat]
  /\ \A t \in Tags : Live(k, t) => age[t] < now
  /\ \A t, u \in Tags : Live(k, u) /\ k.prevBlockingReq[u] = t => age[t] < age[u]
  /\ \A t \in Tags : Live(k, t) /\ iss # NONE /\ t # iss => age[t] < age[iss]

\* The entries: a request finds in its entry what the one before it, or the
\* entry if there is none, has for it.
EntriesInv(k, dat, sh) ==
  /\ dat \in [Entries -> Contents]
  /\ \A t \in Tags : Live(k, t) /\ k.req[t].reqCode \in {"TxDMA", "WRITE"} =>
       /\ k.prevBlockingReq[t] = NONE => dat[k.req[t].entry] = k.req[t].want
       /\ \A u \in Tags : k.prevBlockingReq[t] = u => k.req[u].want = k.req[t].want
  /\ \A e \in Entries :
       /\ k.blockingReqTail[e] = NONE => dat[e] = sh.data[e]
       /\ \A t \in Tags : k.blockingReqTail[e] = t => k.req[t].want = sh.data[e]

\* What a flash operation r finds in f, and what it makes of it.
Fits(r, f) ==
  /\ r.reqCode = "READ"  => f[<<r.block, r.page>>] = r.want
  /\ r.reqCode = "WRITE" => f[<<r.block, r.page>>] = ERASED

Applied(r, f) ==
  CASE r.reqCode = "READ"  -> f
    [] r.reqCode = "WRITE" -> [f EXCEPT ![<<r.block, r.page>>] = r.want]
    [] r.reqCode = "ERASE" -> [bp \in FlashPages |-> IF bp[1] = r.block THEN ERASED ELSE f[bp]]

\* Two contents of the flash agree on die d.
SameOn(d, f, g) == \A bp \in FlashPages : bp[1][1] = d => f[bp] = g[bp]

\* The requests with die d lead from f to g, with the contents h in between.
Leads(k, d, f, g, h) ==
  LET q == k.nandReqQ[d] IN
  /\ h \in [0 .. Len(q) -> Flashes]
  /\ SameOn(d, h[0], f) /\ SameOn(d, h[Len(q)], g)
  /\ \A i \in 1 .. Len(q) : /\ Fits(k.req[q[i]], h[i - 1])
                            /\ h[i] = Applied(k.req[q[i]], h[i - 1])

DiesInv(k, f, g) ==
  /\ f \in Flashes /\ g \in Flashes
  /\ \A d \in Dies : \E h : Leads(k, d, f, g, h)

Waiting(k) ==
  {t \in Tags : k.reqQueueType[t] \in {"BLOCKED_BY_BUF_DEP", "BLOCKED_BY_ROW_ADDR_DEP"}}

\* The requests of W for block b.
OfBlock(k, W, code, b) == {t \in W : k.req[t].reqCode = code /\ k.req[t].block = b}

\* The last use of block b is not over: its erase waits for programs.
OldUse(k, b) == k.blockedEraseReqFlag[b] /\ k.permittedProgPage[b] < PAGES_PER_BLOCK

\* The first page of the programs held for block b.
FirstHeld(k, b) == IF k.blockedEraseReqFlag[b] /\ ~ OldUse(k, b) THEN 0
                   ELSE k.permittedProgPage[b]

\* The page after the last.
EndHeld(k, sh, b) == IF OldUse(k, b) THEN PAGES_PER_BLOCK ELSE sh.issued[b]

\* Block b, when the requests W are held and those let through leave g.
ReadsHeld(k, W, g, age, b) ==
  /\ k.blockedReadReqCnt[b] = Cardinality(OfBlock(k, W, "READ", b))
  /\ \A t \in OfBlock(k, W, "READ", b) :
       IF k.req[t].page < k.permittedProgPage[b]
       THEN g[<<b, k.req[t].page>>] = k.req[t].want
       ELSE \E u \in OfBlock(k, W, "WRITE", b) :
              k.req[u].page = k.req[t].page /\ k.req[u].want = k.req[t].want /\ age[u] < age[t]

WritesHeld(k, W, sh, age, b) ==
  /\ \A t, u \in OfBlock(k, W, "WRITE", b) :
       /\ k.req[t].page = k.req[u].page => t = u
       /\ k.req[t].page < k.req[u].page => age[t] < age[u]
  /\ \A t \in OfBlock(k, W, "WRITE", b) :
       /\ FirstHeld(k, b) <= k.req[t].page /\ k.req[t].page < EndHeld(k, sh, b)
       /\ ~ OldUse(k, b) => k.req[t].want = sh.flash[<<b, k.req[t].page>>]
  /\ \A p \in Pages : FirstHeld(k, b) <= p /\ p < EndHeld(k, sh, b) =>
       \E t \in OfBlock(k, W, "WRITE", b) : k.req[t].page = p
  /\ OldUse(k, b) => sh.issued[b] = 0

ErasesHeld(k, W, age, b) ==
  /\ k.blockedEraseReqFlag[b] <=> OfBlock(k, W, "ERASE", b) # {}
  /\ \A t, u \in OfBlock(k, W, "ERASE", b) : t = u
  /\ \A t \in OfBlock(k, W, "ERASE", b) :
       /\ \A u \in OfBlock(k, W, "READ", b) : age[u] < age[t]
       /\ \A u \in OfBlock(k, W, "WRITE", b) :
            IF OldUse(k, b) THEN age[u] < age[t] ELSE age[t] < age[u]

PagesHeld(k, g, sh, b) ==
  /\ \A p \in Pages : k.permittedProgPage[b] <= p => g[<<b, p>>] = ERASED
  /\ \A p \in Pages : sh.issued[b] <= p => sh.flash[<<b, p>>] = ERASED
  /\ ~ k.blockedEraseReqFlag[b] =>
       /\ k.permittedProgPage[b] <= sh.issued[b]
       /\ \A p \in Pages : p < k.permittedProgPage[b] => g[<<b, p>>] = sh.flash[<<b, p>>]

BlockInv(k, W, g, sh, age, b) ==
  /\ ReadsHeld(k, W, g, age, b)
  /\ WritesHeld(k, W, sh, age, b)
  /\ ErasesHeld(k, W, age, b)
  /\ PagesHeld(k, g, sh, b)

BlocksInv(k, W, g, sh, age) == \A b \in DieBlocks : BlockInv(k, W, g, sh, age, b)

ShadowType(sh) ==
  sh \in [data : [Entries -> Contents], flash : Flashes,
          issued : [DieBlocks -> 0 .. PAGES_PER_BLOCK]]

IssuingInv(k, iss, sh) ==
  \A t \in Tags : t = iss =>
    /\ k.req[t].page < sh.issued[k.req[t].block]
    /\ k.req[t].want = sh.flash[<<k.req[t].block, k.req[t].page>>]

-----------------------------------------------------------------------------
(* Sequences. *)

LEMMA LeastNumber ==
  ASSUME NEW T, T \subseteq Nat, T # {}
  PROVE  \E m \in T : \A n \in T : m <= n
<1>1. \E m \in T : \A n \in T : ~ (<<n, m>> \in OpToRel(<, Nat))
  BY NatLessThanWellFounded, WFMin, Zenon
<1>2. PICK m \in T : \A n \in T : ~ (<<n, m>> \in OpToRel(<, Nat))
  BY <1>1
<1>3. \A n \in T : ~ (n < m)
  BY <1>2 DEF OpToRel
<1> QED BY <1>3

LEMMA MaxFacts ==
  ASSUME NEW n \in Nat, NEW s \in SUBSET (1 .. n)
  PROVE  /\ s # {} => Max(s) \in s /\ \A i \in s : i <= Max(s)
         /\ n \in s => Max(s) = n
<1>1. ASSUME s # {} PROVE \E m \in s : \A i \in s : i <= m
  <2> DEFINE T == {n - i : i \in s}
  <2>1. T \subseteq Nat /\ T # {}
    <3>1. \A i \in s : n - i \in Nat
      OBVIOUS
    <3>2. PICK i \in s : TRUE
      BY <1>1
    <3> QED BY <3>1, <3>2
  <2>2. PICK m \in T : \A i \in T : m <= i
    <3> HIDE DEF T
    <3> QED BY <2>1, LeastNumber
  <2>3. PICK j \in s : m = n - j
    BY <2>2
  <2>4. \A i \in s : n - j <= n - i
    BY <2>2, <2>3
  <2>5. \A i \in s : i <= j
    BY <2>4
  <2> QED BY <2>5
<1>2. s # {} => Max(s) \in s /\ \A i \in s : i <= Max(s)
  BY <1>1 DEF Max
<1>3. ASSUME n \in s PROVE Max(s) = n
  <2>1. Max(s) \in s /\ n <= Max(s)
    BY <1>2, <1>3
  <2>2. Max(s) \in Nat /\ Max(s) <= n
    <3>1. \A i \in s : i \in Nat /\ i <= n
      OBVIOUS
    <3> QED BY <2>1, <3>1
  <2> QED BY <2>1, <2>2
<1> QED BY <1>2, <1>3


LEMMA RemovedFacts ==
  ASSUME NEW S, NEW s \in Seq(S), Distinct(s), NEW w \in S, In(s, w)
  PROVE  /\ RemoveFirst(s, w) \in Seq(S) /\ Distinct(RemoveFirst(s, w))
         /\ \A v : In(RemoveFirst(s, w), v) <=> v # w /\ In(s, v)
<1> DEFINE I == {i \in 1 .. Len(s) : s[i] = w}
           r == RemoveFirst(s, w)
<1>1. PICK j \in 1 .. Len(s) : s[j] = w
  BY DEF In
<1>2. I = {j}
  BY <1>1 DEF Distinct
<1>3. Min(I) = j
  BY <1>2 DEF Min
<1>4. r = SubSeq(s, 1, j - 1) \o SubSeq(s, j + 1, Len(s))
  <2>1. SelectInSeq(s, LAMBDA v : v = w) = j
    BY <1>2, <1>3 DEF SelectInSeq
  <2>2. r = RemoveAt(s, SelectInSeq(s, LAMBDA v : v = w))
    BY <1>1 DEF RemoveFirst
  <2> QED BY <2>1, <2>2 DEF RemoveAt
<1> DEFINE a == SubSeq(s, 1, j - 1)
           b == SubSeq(s, j + 1, Len(s))
<1>5. /\ a \in Seq(S) /\ Len(a) = j - 1 /\ \A i \in 1 .. j - 1 : a[i] = s[i]
      /\ b \in Seq(S) /\ Len(b) = Len(s) - j /\ \A i \in 1 .. Len(s) - j : b[i] = s[j + i]
  BY <1>1
<1> HIDE DEF a, b
<1>6. r \in Seq(S) /\ Len(r) = Len(s) - 1
  <2>1. r = a \o b
    BY <1>4 DEF a, b
  <2> HIDE DEF r
  <2>2. r \in Seq(S) /\ Len(r) = Len(a) + Len(b)
    BY <1>5, <2>1, ConcatProperties
  <2> QED BY <1>1, <1>5, <2>2
<1>7. \A i \in 1 .. Len(s) - 1 : r[i] = IF i < j THEN s[i] ELSE s[i + 1]
  <2>1. ASSUME NEW i \in 1 .. Len(s) - 1, i < j PROVE r[i] = s[i]
    <3>1. i \in 1 .. Len(a) /\ i \in 1 .. j - 1 /\ i \in 1 .. Len(a) + Len(b)
      BY <2>1, <1>1, <1>5
    <3>2. r[i] = a[i]
      BY <3>1, <1>4, <1>5, ConcatProperties DEF a, b
    <3> QED BY <3>1, <3>2, <1>5
  <2>2. ASSUME NEW i \in 1 .. Len(s) - 1, ~ (i < j) PROVE r[i] = s[i + 1]
    <3>1. /\ i \in 1 .. Len(a) + Len(b) /\ ~ (i <= Len(a))
          /\ i - Len(a) \in 1 .. Len(s) - j /\ j + (i - Len(a)) = i + 1
      BY <2>2, <1>1, <1>5
    <3>2. r[i] = b[i - Len(a)]
      BY <3>1, <1>4, <1>5, ConcatProperties DEF a, b
    <3> QED BY <3>1, <3>2, <1>5
  <2> QED BY <2>1, <2>2
<1> HIDE DEF r
<1>8. DOMAIN r = 1 .. Len(s) - 1 /\ Len(s) \in Nat
  BY <1>6
<1>9. Distinct(r)
  BY <1>1, <1>7, <1>8 DEF Distinct
<1>10. ASSUME NEW v, In(r, v) PROVE v # w /\ In(s, v)
  <2>1. PICK i \in 1 .. Len(s) - 1 : r[i] = v
    BY <1>8, <1>10 DEF In
  <2>2. /\ i \in 1 .. Len(s) /\ i + 1 \in 1 .. Len(s)
        /\ (i < j => i # j) /\ (~ (i < j) => i + 1 # j)
    BY <1>1, <1>8
  <2> QED BY <2>1, <2>2, <1>1, <1>7 DEF In, Distinct
<1>11. ASSUME NEW v, v # w, In(s, v) PROVE In(r, v)
  <2>1. PICK i \in 1 .. Len(s) : s[i] = v
    BY <1>11 DEF In
  <2>2. CASE i < j
    <3>1. i \in 1 .. Len(s) - 1
      BY <1>1, <2>2
    <3> QED BY <3>1, <2>1, <2>2, <1>7, <1>8 DEF In
  <2>3. CASE ~ (i < j)
    <3>1. i # j
      BY <1>1, <1>11, <2>1
    <3>2. i - 1 \in 1 .. Len(s) - 1 /\ ~ (i - 1 < j) /\ (i - 1) + 1 = i
      BY <3>1, <1>1, <2>3
    <3> QED BY <3>2, <2>1, <1>7, <1>8 DEF In
  <2> QED BY <2>2, <2>3
<1> QED BY <1>6, <1>9, <1>10, <1>11 DEF r


LEMMA AppendedFacts ==
  ASSUME NEW S, NEW s \in Seq(S), Distinct(s), NEW w \in S, ~ In(s, w)
  PROVE  /\ Append(s, w) \in Seq(S) /\ Distinct(Append(s, w))
         /\ \A v : In(Append(s, w), v) <=> v = w \/ In(s, v)
<1> DEFINE r == Append(s, w)
<1>1. /\ r \in Seq(S) /\ Len(r) = Len(s) + 1 /\ Len(s) \in Nat
      /\ DOMAIN r = 1 .. Len(s) + 1 /\ DOMAIN s = 1 .. Len(s)
      /\ \A i \in 1 .. Len(s) : r[i] = s[i]
      /\ r[Len(s) + 1] = w
  OBVIOUS
<1> HIDE DEF r
<1>2. \A i \in 1 .. Len(s) + 1 : i = Len(s) + 1 \/ i \in 1 .. Len(s)
  BY <1>1
<1>3. Distinct(r)
  BY <1>1, <1>2 DEF Distinct, In
<1>4. \A v : In(r, v) <=> v = w \/ In(s, v)
  BY <1>1, <1>2 DEF In
<1> QED BY <1>1, <1>3, <1>4 DEF r

LEMMA TailFacts ==
  ASSUME NEW S, NEW s \in Seq(S), s # <<>>, Distinct(s)
  PROVE  /\ Head(s) \in S /\ Tail(s) \in Seq(S) /\ Distinct(Tail(s))
         /\ In(s, Head(s))
         /\ \A v : In(Tail(s), v) <=> v # Head(s) /\ In(s, v)
<1> DEFINE r == Tail(s)
<1>1. /\ r \in Seq(S) /\ Len(r) = Len(s) - 1 /\ Len(s) \in Nat \ {0}
      /\ DOMAIN r = 1 .. Len(s) - 1 /\ DOMAIN s = 1 .. Len(s)
      /\ \A i \in 1 .. Len(s) - 1 : r[i] = s[i + 1]
      /\ Head(s) = s[1] /\ Head(s) \in S
  OBVIOUS
<1> HIDE DEF r
<1>2. \A i \in 1 .. Len(s) - 1 : i + 1 \in 1 .. Len(s) /\ i + 1 # 1
  BY <1>1
<1>3. \A i \in 1 .. Len(s) : i # 1 => i - 1 \in 1 .. Len(s) - 1 /\ (i - 1) + 1 = i
  BY <1>1
<1>4. 1 \in 1 .. Len(s)
  BY <1>1
<1>5. Distinct(r)
  <2> SUFFICES ASSUME NEW i \in 1 .. Len(s) - 1, NEW j \in 1 .. Len(s) - 1, r[i] = r[j]
               PROVE  i = j
    BY <1>1 DEF Distinct
  <2>1. i + 1 = j + 1
    BY <1>1, <1>2 DEF Distinct
  <2> QED BY <2>1
<1>6. ASSUME NEW v PROVE In(r, v) <=> v # Head(s) /\ In(s, v)
  <2>1. ASSUME In(r, v) PROVE v # Head(s) /\ In(s, v)
    <3>1. PICK i \in 1 .. Len(s) - 1 : r[i] = v
      BY <2>1, <1>1 DEF In
    <3> QED BY <3>1, <1>1, <1>2, <1>4 DEF In, Distinct
  <2>2. ASSUME v # Head(s), In(s, v) PROVE In(r, v)
    <3>1. PICK i \in 1 .. Len(s) : s[i] = v
      BY <2>2, <1>1 DEF In
    <3>2. i # 1
      BY <3>1, <2>2, <1>1
    <3>3. i - 1 \in 1 .. Len(s) - 1 /\ r[i - 1] = v
      BY <3>1, <3>2, <1>1, <1>3
    <3> QED BY <3>3, <1>1 DEF In
  <2> QED BY <2>1, <2>2
<1> QED BY <1>1, <1>4, <1>5, <1>6 DEF r, In

-----------------------------------------------------------------------------
(* A request on its way is put on a queue. *)

SameChains(k, m) ==
  /\ m.req = k.req
  /\ m.prevBlockingReq = k.prevBlockingReq /\ m.nextBlockingReq = k.nextBlockingReq
  /\ m.blockingReqTail = k.blockingReqTail

SameQueues(k, m) ==
  /\ m.nvmeDmaReqQ = k.nvmeDmaReqQ
  /\ m.nandReqQ = k.nandReqQ /\ m.rowAddrDepReqQ = k.rowAddrDepReqQ

SameTable(k, m) ==
  /\ m.permittedProgPage = k.permittedProgPage
  /\ m.blockedReadReqCnt = k.blockedReadReqCnt
  /\ m.blockedEraseReqFlag = k.blockedEraseReqFlag

LEMMA ChainsKept ==
  ASSUME NEW k, NEW m, Chained(k), SameChains(k, m),
         \A t \in Tags : Live(m, t) <=> Live(k, t)
  PROVE  Chained(m)
BY DEF Chained, SameChains

\* Request x is put at the end of the queue of die d.
Joined(qs, d, x) == [qs EXCEPT ![d] = Append(@, x)]

LEMMA JoinedFacts ==
  ASSUME NEW qs \in [Dies -> Seq(Tags)], NEW d \in Dies, NEW x \in Tags,
         \A e \in Dies : Distinct(qs[e]) /\ ~ In(qs[e], x)
  PROVE  /\ Joined(qs, d, x) \in [Dies -> Seq(Tags)]
         /\ \A e \in Dies : Distinct(Joined(qs, d, x)[e])
         /\ \A e \in Dies, t \in Tags :
              In(Joined(qs, d, x)[e], t) <=> In(qs[e], t) \/ (t = x /\ e = d)
<1> DEFINE r == Append(qs[d], x)
<1>1. r \in Seq(Tags) /\ Distinct(r) /\ \A v : In(r, v) <=> v = x \/ In(qs[d], v)
  BY AppendedFacts
<1>2. Joined(qs, d, x) = [qs EXCEPT ![d] = r]
  BY DEF Joined
<1> HIDE DEF r
<1> QED BY <1>1, <1>2

LEMMA BlockFacts ==
  ASSUME NEW b \in DieBlocks
  PROVE  b[1] \in Dies
BY DEF DieBlocks

LEMMA NoneIsNoTag == NONE \notin Tags /\ NONE \notin Entries
BY NamesAssumption

LEMMA Requeued ==
  ASSUME NEW k, NEW x \in Tags, NEW iss, PoolInv(k, x, iss), Live(k, x),
         NEW q \in {"NAND", "NVME_DMA", "BLOCKED_BY_BUF_DEP", "BLOCKED_BY_ROW_ADDR_DEP"},
         q \in {"NAND", "BLOCKED_BY_ROW_ADDR_DEP"} =>
           k.req[x].reqCode \in FlashCodes /\ k.prevBlockingReq[x] = NONE,
         q = "NVME_DMA" => k.req[x].reqCode \in DmaCodes /\ k.prevBlockingReq[x] = NONE,
         q = "BLOCKED_BY_BUF_DEP" => k.prevBlockingReq[x] # NONE,
         NEW m, PoolType(m), SameChains(k, m),
         m.reqQueueType = [k.reqQueueType EXCEPT ![x] = q],
         m.nvmeDmaReqQ = IF q = "NVME_DMA" THEN Append(k.nvmeDmaReqQ, x) ELSE k.nvmeDmaReqQ,
         m.nandReqQ = IF q = "NAND" THEN Joined(k.nandReqQ, k.req[x].block[1], x)
                      ELSE k.nandReqQ,
         m.rowAddrDepReqQ =
           IF q = "BLOCKED_BY_ROW_ADDR_DEP"
           THEN Joined(k.rowAddrDepReqQ, k.req[x].block[1], x) ELSE k.rowAddrDepReqQ
  PROVE  /\ PoolInv(m, NONE, iss)
         /\ \A t \in Tags : Live(m, t) <=> Live(k, t)
         /\ Waiting(m) = IF q \in {"BLOCKED_BY_BUF_DEP", "BLOCKED_BY_ROW_ADDR_DEP"}
                         THEN Waiting(k) \cup {x} ELSE Waiting(k) \ {x}
<1>1. /\ k.reqQueueType \in [Tags -> QueueTypes]
      /\ k.nvmeDmaReqQ \in Seq(Tags)
      /\ k.nandReqQ \in [Dies -> Seq(Tags)] /\ k.rowAddrDepReqQ \in [Dies -> Seq(Tags)]
  BY DEF PoolInv, PoolType
<1>2. \A t \in Tags : m.reqQueueType[t] = IF t = x THEN q ELSE k.reqQueueType[t]
  BY <1>1
<1>3. \A t \in Tags : Live(m, t) <=> Live(k, t)
  BY <1>2 DEF Live
<1>4. Chained(m)
  BY <1>3, ChainsKept DEF PoolInv
<1>5. /\ Distinct(k.nvmeDmaReqQ) /\ ~ In(k.nvmeDmaReqQ, x)
      /\ \A d \in Dies : /\ Distinct(k.nandReqQ[d]) /\ ~ In(k.nandReqQ[d], x)
                         /\ Distinct(k.rowAddrDepReqQ[d]) /\ ~ In(k.rowAddrDepReqQ[d], x)
  BY DEF PoolInv, Placed
<1>6. /\ Distinct(m.nvmeDmaReqQ)
      /\ \A t \in Tags : In(m.nvmeDmaReqQ, t) <=>
                           In(k.nvmeDmaReqQ, t) \/ (q = "NVME_DMA" /\ t = x)
  BY <1>1, <1>5, AppendedFacts
<1>7. ASSUME NEW qs \in [Dies -> Seq(Tags)],
             \A d \in Dies : Distinct(qs[d]) /\ ~ In(qs[d], x),
             k.req[x].reqCode \in FlashCodes
      PROVE  LET r == Joined(qs, k.req[x].block[1], x)
             IN  /\ \A d \in Dies : Distinct(r[d])
                 /\ \A d \in Dies, t \in Tags :
                      In(r[d], t) <=> In(qs[d], t) \/ (t = x /\ k.req[x].block[1] = d)
  <2> DEFINE e == k.req[x].block[1]
  <2>1. e \in Dies
    BY <1>7, BlockFacts DEF PoolInv, Queued, WellFormed
  <2> HIDE DEF e
  <2>2. /\ \A d \in Dies : Distinct(Joined(qs, e, x)[d])
        /\ \A d \in Dies, t \in Tags :
             In(Joined(qs, e, x)[d], t) <=> In(qs[d], t) \/ (t = x /\ d = e)
    BY <2>1, <1>7, JoinedFacts
  <2> QED BY <2>2 DEF e
<1>8. /\ \A d \in Dies : Distinct(m.nandReqQ[d])
      /\ \A d \in Dies, t \in Tags : In(m.nandReqQ[d], t) <=>
           In(k.nandReqQ[d], t) \/ (q = "NAND" /\ t = x /\ k.req[x].block[1] = d)
  BY <1>1, <1>5, <1>7
<1>9. /\ \A d \in Dies : Distinct(m.rowAddrDepReqQ[d])
      /\ \A d \in Dies, t \in Tags : In(m.rowAddrDepReqQ[d], t) <=>
           In(k.rowAddrDepReqQ[d], t) \/ (/\ q = "BLOCKED_BY_ROW_ADDR_DEP" /\ t = x
                                          /\ k.req[x].block[1] = d)
  BY <1>1, <1>5, <1>7
<1>10. Placed(m, NONE)
  <2>1. ASSUME NEW t \in Tags
        PROVE  In(m.nvmeDmaReqQ, t) <=> t # NONE /\ m.reqQueueType[t] = "NVME_DMA"
    BY <1>2, <1>6, NoneIsNoTag DEF PoolInv, Placed
  <2>2. ASSUME NEW t \in Tags, NEW d \in Dies
        PROVE  In(m.nandReqQ[d], t) <=>
                 t # NONE /\ m.reqQueueType[t] = "NAND" /\ m.req[t].block[1] = d
    BY <1>2, <1>8, NoneIsNoTag DEF PoolInv, Placed, SameChains
  <2>3. ASSUME NEW t \in Tags, NEW d \in Dies
        PROVE  In(m.rowAddrDepReqQ[d], t) <=>
                 /\ t # NONE /\ m.reqQueueType[t] = "BLOCKED_BY_ROW_ADDR_DEP"
                 /\ m.req[t].block[1] = d
    BY <1>2, <1>9, NoneIsNoTag DEF PoolInv, Placed, SameChains
  <2> QED BY <1>6, <1>8, <1>9, <2>1, <2>2, <2>3 DEF Placed
<1>11. Queued(m, NONE, iss)
  <2>1. iss \in Links /\ iss # x
    BY NoneIsNoTag DEF PoolInv, Queued
  <2>2. \A t \in Tags : Live(m, t) => WellFormed(m.req[t])
    BY <1>3 DEF PoolInv, Queued, SameChains
  <2>3. ASSUME NEW t \in Tags, t # x
        PROVE  /\ m.reqQueueType[t] \in {"NAND", "BLOCKED_BY_ROW_ADDR_DEP"} =>
                    m.req[t].reqCode \in FlashCodes /\ m.prevBlockingReq[t] = NONE
               /\ m.reqQueueType[t] = "NVME_DMA" =>
                    m.req[t].reqCode \in DmaCodes /\ m.prevBlockingReq[t] = NONE
               /\ m.reqQueueType[t] = "BLOCKED_BY_BUF_DEP" => m.prevBlockingReq[t] # NONE
               /\ m.reqQueueType[t] = "NONE" <=> t = iss
               /\ t = iss => m.req[t].reqCode = "READ"
    BY <1>2, <2>3 DEF PoolInv, Queued, SameChains
  <2>4. /\ m.reqQueueType[x] \in {"NAND", "BLOCKED_BY_ROW_ADDR_DEP"} =>
             m.req[x].reqCode \in FlashCodes /\ m.prevBlockingReq[x] = NONE
        /\ m.reqQueueType[x] = "NVME_DMA" =>
             m.req[x].reqCode \in DmaCodes /\ m.prevBlockingReq[x] = NONE
        /\ m.reqQueueType[x] = "BLOCKED_BY_BUF_DEP" => m.prevBlockingReq[x] # NONE
        /\ m.reqQueueType[x] # "NONE"
    BY <1>2 DEF SameChains
  <2> QED BY <2>1, <2>2, <2>3, <2>4, NoneIsNoTag DEF Queued
<1>12. Waiting(m) = IF q \in {"BLOCKED_BY_BUF_DEP", "BLOCKED_BY_ROW_ADDR_DEP"}
                    THEN Waiting(k) \cup {x} ELSE Waiting(k) \ {x}
  BY <1>2 DEF Waiting
<1> QED BY <1>3, <1>4, <1>10, <1>11, <1>12 DEF PoolInv

\* What the calls that put a request on a queue do to the pool.
LEMMA NandFields ==
  ASSUME NEW k, PoolType(k), NEW x \in Tags, k.req[x].block \in DieBlocks
  PROVE  LET m == PutToNandReqQ(k, x)
         IN  /\ PoolType(m) /\ SameChains(k, m) /\ SameTable(k, m)
             /\ m.reqQueueType = [k.reqQueueType EXCEPT ![x] = "NAND"]
             /\ m.nvmeDmaReqQ = k.nvmeDmaReqQ /\ m.rowAddrDepReqQ = k.rowAddrDepReqQ
             /\ m.nandReqQ = Joined(k.nandReqQ, k.req[x].block[1], x)
<1> DEFINE m == PutToNandReqQ(k, x)
           types == [k.reqQueueType EXCEPT ![x] = "NAND"]
           qs == Joined(k.nandReqQ, k.req[x].block[1], x)
<1>1. types \in [Tags -> QueueTypes] /\ qs \in [Dies -> Seq(Tags)]
  BY BlockFacts DEF PoolType, QueueTypes, Joined
<1>2. m = [k EXCEPT !.reqQueueType = types, !.nandReqQ = qs]
  BY DEF PutToNandReqQ, Joined, PoolType
<1> HIDE DEF types, qs, m
<1>3. /\ PoolType(m) /\ SameChains(k, m) /\ SameTable(k, m)
      /\ m.reqQueueType = types /\ m.nvmeDmaReqQ = k.nvmeDmaReqQ
      /\ m.rowAddrDepReqQ = k.rowAddrDepReqQ /\ m.nandReqQ = qs
  BY <1>1, <1>2 DEF PoolType, SameChains, SameTable
<1> QED BY <1>3 DEF m, types, qs

LEMMA RowFields ==
  ASSUME NEW k, PoolType(k), NEW x \in Tags, k.req[x].block \in DieBlocks
  PROVE  LET m == PutToBlockedByRowAddrDepReqQ(k, x)
         IN  /\ PoolType(m) /\ SameChains(k, m) /\ SameTable(k, m)
             /\ m.reqQueueType = [k.reqQueueType EXCEPT ![x] = "BLOCKED_BY_ROW_ADDR_DEP"]
             /\ m.nvmeDmaReqQ = k.nvmeDmaReqQ /\ m.nandReqQ = k.nandReqQ
             /\ m.rowAddrDepReqQ = Joined(k.rowAddrDepReqQ, k.req[x].block[1], x)
<1> DEFINE m == PutToBlockedByRowAddrDepReqQ(k, x)
           types == [k.reqQueueType EXCEPT ![x] = "BLOCKED_BY_ROW_ADDR_DEP"]
           qs == Joined(k.rowAddrDepReqQ, k.req[x].block[1], x)
<1>1. types \in [Tags -> QueueTypes] /\ qs \in [Dies -> Seq(Tags)]
  BY BlockFacts DEF PoolType, QueueTypes, Joined
<1>2. m = [k EXCEPT !.reqQueueType = types, !.rowAddrDepReqQ = qs]
  BY DEF PutToBlockedByRowAddrDepReqQ, Joined, PoolType
<1> HIDE DEF types, qs, m
<1>3. /\ PoolType(m) /\ SameChains(k, m) /\ SameTable(k, m)
      /\ m.reqQueueType = types /\ m.nvmeDmaReqQ = k.nvmeDmaReqQ
      /\ m.nandReqQ = k.nandReqQ /\ m.rowAddrDepReqQ = qs
  BY <1>1, <1>2 DEF PoolType, SameChains, SameTable
<1> QED BY <1>3 DEF m, types, qs

LEMMA DmaFields ==
  ASSUME NEW k, PoolType(k), NEW x \in Tags
  PROVE  LET m == PutToNvmeDmaReqQ(k, x)
         IN  /\ PoolType(m) /\ SameChains(k, m) /\ SameTable(k, m)
             /\ m.reqQueueType = [k.reqQueueType EXCEPT ![x] = "NVME_DMA"]
             /\ m.nvmeDmaReqQ = Append(k.nvmeDmaReqQ, x)
             /\ m.nandReqQ = k.nandReqQ /\ m.rowAddrDepReqQ = k.rowAddrDepReqQ
<1> DEFINE m == PutToNvmeDmaReqQ(k, x)
           types == [k.reqQueueType EXCEPT ![x] = "NVME_DMA"]
           q == Append(k.nvmeDmaReqQ, x)
<1>1. types \in [Tags -> QueueTypes] /\ q \in Seq(Tags)
  BY DEF PoolType, QueueTypes
<1>2. m = [k EXCEPT !.reqQueueType = types, !.nvmeDmaReqQ = q]
  BY DEF PutToNvmeDmaReqQ, PoolType
<1> HIDE DEF types, q, m
<1>3. /\ PoolType(m) /\ SameChains(k, m) /\ SameTable(k, m)
      /\ m.reqQueueType = types /\ m.nvmeDmaReqQ = q
      /\ m.nandReqQ = k.nandReqQ /\ m.rowAddrDepReqQ = k.rowAddrDepReqQ
  BY <1>1, <1>2 DEF PoolType, SameChains, SameTable
<1> QED BY <1>3 DEF m, types, q

LEMMA BufFields ==
  ASSUME NEW k, PoolType(k), NEW x \in Tags
  PROVE  LET m == PutToBlockedByBufDepReqQ(k, x)
         IN  /\ PoolType(m) /\ SameChains(k, m) /\ SameTable(k, m) /\ SameQueues(k, m)
             /\ m.reqQueueType = [k.reqQueueType EXCEPT ![x] = "BLOCKED_BY_BUF_DEP"]
<1> DEFINE m == PutToBlockedByBufDepReqQ(k, x)
           types == [k.reqQueueType EXCEPT ![x] = "BLOCKED_BY_BUF_DEP"]
<1>1. types \in [Tags -> QueueTypes]
  BY DEF PoolType, QueueTypes
<1>2. m = [k EXCEPT !.reqQueueType = types]
  BY DEF PutToBlockedByBufDepReqQ, PoolType
<1> HIDE DEF types, m
<1>3. /\ PoolType(m) /\ SameChains(k, m) /\ SameTable(k, m) /\ SameQueues(k, m)
      /\ m.reqQueueType = types
  BY <1>1, <1>2 DEF PoolType, SameChains, SameTable, SameQueues
<1> QED BY <1>3 DEF m, types

-----------------------------------------------------------------------------
(* The dependency table. *)

\* k and m differ at most in the table.
SameOffTable(k, m) ==
  SameChains(k, m) /\ SameQueues(k, m) /\ m.reqQueueType = k.reqQueueType

\* Request t, held so far, is let through.
PassTable(k, m, t) ==
  LET b    == k.req[t].block
      code == k.req[t].reqCode
  IN  /\ m.permittedProgPage =
           IF code = "WRITE"
           THEN [k.permittedProgPage EXCEPT ![b] = k.permittedProgPage[b] + 1]
           ELSE IF code = "ERASE" THEN [k.permittedProgPage EXCEPT ![b] = 0]
           ELSE k.permittedProgPage
      /\ m.blockedReadReqCnt =
           IF code = "READ"
           THEN [k.blockedReadReqCnt EXCEPT ![b] = k.blockedReadReqCnt[b] - 1]
           ELSE k.blockedReadReqCnt
      /\ m.blockedEraseReqFlag =
           IF code = "ERASE" THEN [k.blockedEraseReqFlag EXCEPT ![b] = FALSE]
           ELSE k.blockedEraseReqFlag

\* Request t, just issued, is held.
HoldTable(k, m, t) ==
  LET b    == k.req[t].block
      code == k.req[t].reqCode
  IN  /\ m.permittedProgPage = k.permittedProgPage
      /\ m.blockedReadReqCnt =
           IF code = "READ"
           THEN [k.blockedReadReqCnt EXCEPT ![b] = k.blockedReadReqCnt[b] + 1]
           ELSE k.blockedReadReqCnt
      /\ m.blockedEraseReqFlag =
           IF code = "ERASE" THEN [k.blockedEraseReqFlag EXCEPT ![b] = TRUE]
           ELSE k.blockedEraseReqFlag

LEMMA OffTableKept ==
  ASSUME NEW k, NEW m, NEW x, NEW iss, PoolInv(k, x, iss), PoolType(m), SameOffTable(k, m)
  PROVE  PoolInv(m, x, iss) /\ Waiting(m) = Waiting(k) /\ \A t \in Tags : Live(m, t) <=> Live(k, t)
<1>1. \A t \in Tags : Live(m, t) <=> Live(k, t)
  BY DEF Live, SameOffTable
<1>2. Chained(m)
  BY <1>1, ChainsKept DEF PoolInv, SameOffTable
<1>3. Placed(m, x)
  BY DEF PoolInv, Placed, SameOffTable, SameChains, SameQueues
<1>4. Queued(m, x, iss)
  BY <1>1 DEF PoolInv, Queued, SameOffTable, SameChains
<1> QED BY <1>1, <1>2, <1>3, <1>4 DEF PoolInv, Waiting, SameOffTable

LEMMA PassFields ==
  ASSUME NEW k, PoolType(k), NEW t \in Tags, WellFormed(k.req[t]),
         k.req[t].reqCode \in FlashCodes, RowAddrPass(k, t)
  PROVE  LET m == LetThrough(k, t, TRUE)
         IN  PoolType(m) /\ SameOffTable(k, m) /\ PassTable(k, m, t)
<1> DEFINE m == LetThrough(k, t, TRUE)
           b == k.req[t].block
<1>1. b \in DieBlocks
  BY DEF WellFormed
<1>2. /\ k.permittedProgPage \in [DieBlocks -> 0 .. PAGES_PER_BLOCK]
      /\ k.blockedReadReqCnt \in [DieBlocks -> Int]
      /\ k.blockedEraseReqFlag \in [DieBlocks -> BOOLEAN]
  BY DEF PoolType
<1>3. CASE k.req[t].reqCode = "READ"
  <2> DEFINE c == [k.blockedReadReqCnt EXCEPT ![b] = k.blockedReadReqCnt[b] - 1]
  <2>1. c \in [DieBlocks -> Int]
    BY <1>1, <1>2
  <2>2. m = [k EXCEPT !.blockedReadReqCnt = c]
    BY <1>3 DEF LetThrough, ReadGranted, PoolType
  <2> HIDE DEF m, c
  <2>3. /\ PoolType(m) /\ SameOffTable(k, m) /\ m.blockedReadReqCnt = c
        /\ m.permittedProgPage = k.permittedProgPage
        /\ m.blockedEraseReqFlag = k.blockedEraseReqFlag
    BY <2>1, <2>2 DEF PoolType, SameOffTable, SameChains, SameQueues
  <2> QED BY <1>3, <2>3 DEF PassTable, m, c
<1>4. CASE k.req[t].reqCode = "WRITE"
  <2> DEFINE c == [k.permittedProgPage EXCEPT ![b] = k.permittedProgPage[b] + 1]
  <2>1. k.permittedProgPage[b] \in Pages
    BY <1>4 DEF RowAddrPass, WellFormed
  <2>2. c \in [DieBlocks -> 0 .. PAGES_PER_BLOCK]
    <3>1. k.permittedProgPage[b] + 1 \in 0 .. PAGES_PER_BLOCK
      BY <2>1, PagesAssumption DEF Pages
    <3> QED BY <3>1, <1>1, <1>2
  <2>3. m = [k EXCEPT !.permittedProgPage = c]
    BY <1>4 DEF LetThrough, PoolType
  <2> HIDE DEF m, c
  <2>4. /\ PoolType(m) /\ SameOffTable(k, m) /\ m.permittedProgPage = c
        /\ m.blockedReadReqCnt = k.blockedReadReqCnt
        /\ m.blockedEraseReqFlag = k.blockedEraseReqFlag
    BY <2>2, <2>3 DEF PoolType, SameOffTable, SameChains, SameQueues
  <2> QED BY <1>4, <2>4 DEF PassTable, m, c
<1>5. CASE k.req[t].reqCode = "ERASE"
  <2> DEFINE c == [k.permittedProgPage EXCEPT ![b] = 0]
             f == [k.blockedEraseReqFlag EXCEPT ![b] = FALSE]
  <2>1. c \in [DieBlocks -> 0 .. PAGES_PER_BLOCK] /\ f \in [DieBlocks -> BOOLEAN]
    BY <1>1, <1>2, PagesAssumption
  <2>2. m = [k EXCEPT !.permittedProgPage = c, !.blockedEraseReqFlag = f]
    BY <1>5 DEF LetThrough, EraseGranted, PoolType
  <2> HIDE DEF m, c, f
  <2>3. /\ PoolType(m) /\ SameOffTable(k, m) /\ m.permittedProgPage = c
        /\ m.blockedReadReqCnt = k.blockedReadReqCnt
        /\ m.blockedEraseReqFlag = f
    BY <2>1, <2>2 DEF PoolType, SameOffTable, SameChains, SameQueues
  <2> QED BY <1>5, <2>3 DEF PassTable, m, c, f
<1> QED BY <1>3, <1>4, <1>5 DEF FlashCodes

LEMMA HoldFields ==
  ASSUME NEW k, PoolType(k), NEW t \in Tags, WellFormed(k.req[t])
  PROVE  LET m == HoldBack(k, t)
         IN  PoolType(m) /\ SameOffTable(k, m) /\ HoldTable(k, m, t)
<1> DEFINE m == HoldBack(k, t)
           b == k.req[t].block
<1>1. k.req[t].reqCode \in FlashCodes => b \in DieBlocks
  BY DEF WellFormed
<1>2. /\ k.blockedReadReqCnt \in [DieBlocks -> Int]
      /\ k.blockedEraseReqFlag \in [DieBlocks -> BOOLEAN]
  BY DEF PoolType
<1>3. CASE k.req[t].reqCode = "READ"
  <2> DEFINE c == [k.blockedReadReqCnt EXCEPT ![b] = k.blockedReadReqCnt[b] + 1]
  <2>1. c \in [DieBlocks -> Int]
    BY <1>1, <1>2, <1>3 DEF FlashCodes
  <2>2. m = [k EXCEPT !.blockedReadReqCnt = c]
    BY <1>3 DEF HoldBack, PoolType
  <2> HIDE DEF m, c
  <2>3. /\ PoolType(m) /\ SameOffTable(k, m) /\ m.blockedReadReqCnt = c
        /\ m.permittedProgPage = k.permittedProgPage
        /\ m.blockedEraseReqFlag = k.blockedEraseReqFlag
    BY <2>1, <2>2 DEF PoolType, SameOffTable, SameChains, SameQueues
  <2> QED BY <1>3, <2>3 DEF HoldTable, m, c
<1>4. CASE k.req[t].reqCode = "ERASE"
  <2> DEFINE f == [k.blockedEraseReqFlag EXCEPT ![b] = TRUE]
  <2>1. f \in [DieBlocks -> BOOLEAN]
    BY <1>1, <1>2, <1>4 DEF FlashCodes
  <2>2. m = [k EXCEPT !.blockedEraseReqFlag = f]
    BY <1>4 DEF HoldBack, PoolType
  <2> HIDE DEF m, f
  <2>3. /\ PoolType(m) /\ SameOffTable(k, m) /\ m.blockedEraseReqFlag = f
        /\ m.permittedProgPage = k.permittedProgPage
        /\ m.blockedReadReqCnt = k.blockedReadReqCnt
    BY <2>1, <2>2 DEF PoolType, SameOffTable, SameChains, SameQueues
  <2> QED BY <1>4, <2>3 DEF HoldTable, m, f
<1>5. CASE k.req[t].reqCode \notin {"READ", "ERASE"}
  <2>1. m = k
    BY <1>5 DEF HoldBack
  <2> HIDE DEF m
  <2>2. PoolType(m) /\ SameOffTable(k, m) /\ HoldTable(k, m, t)
    BY <1>5, <2>1 DEF SameOffTable, SameChains, SameQueues, HoldTable
  <2> QED BY <2>2 DEF m
<1> QED BY <1>3, <1>4, <1>5

\* Letting a new request through at once is holding it and letting it through.
LEMMA StraightThrough ==
  ASSUME NEW k, PoolType(k), NEW t \in Tags, WellFormed(k.req[t]),
         k.req[t].reqCode \in FlashCodes
  PROVE  /\ LetThrough(k, t, FALSE) = LetThrough(HoldBack(k, t), t, TRUE)
         /\ RowAddrPass(k, t) <=> RowAddrPass(HoldBack(k, t), t)
<1> DEFINE b == k.req[t].block
           h == HoldBack(k, t)
<1>1. /\ b \in DieBlocks
      /\ k.blockedReadReqCnt \in [DieBlocks -> Int]
      /\ k.blockedEraseReqFlag \in [DieBlocks -> BOOLEAN]
      /\ k.permittedProgPage \in [DieBlocks -> 0 .. PAGES_PER_BLOCK]
  BY DEF WellFormed, PoolType
<1>2. CASE k.req[t].reqCode = "READ"
  <2> DEFINE c == [k.blockedReadReqCnt EXCEPT ![b] = @ + 1]
             d == [c EXCEPT ![b] = @ - 1]
  <2>1. d = k.blockedReadReqCnt
    BY <1>1
  <2> HIDE DEF c, d
  <2>2. h = [k EXCEPT !.blockedReadReqCnt = c]
    BY <1>2 DEF HoldBack, PoolType, c
  <2>3. h.req = k.req /\ h.permittedProgPage = k.permittedProgPage
    BY <2>2 DEF PoolType
  <2>4. LetThrough(h, t, TRUE) = [h EXCEPT !.blockedReadReqCnt[b] = @ - 1]
    BY <1>2, <2>3 DEF LetThrough, ReadGranted
  <2>5. LetThrough(h, t, TRUE) = [k EXCEPT !.blockedReadReqCnt = d]
    <3> HIDE DEF h
    <3>1. [h EXCEPT !.blockedReadReqCnt[b] = @ - 1] = [k EXCEPT !.blockedReadReqCnt = d]
      BY <2>2 DEF PoolType, d
    <3> QED BY <2>4, <3>1
  <2>6. LetThrough(h, t, TRUE) = k
    BY <2>1, <2>5 DEF PoolType
  <2>7. LetThrough(k, t, FALSE) = k
    BY <1>2 DEF LetThrough, ReadGranted
  <2>8. RowAddrPass(k, t) <=> RowAddrPass(h, t)
    <3> HIDE DEF h
    <3> QED BY <1>2, <2>3 DEF RowAddrPass
  <2> QED BY <2>6, <2>7, <2>8
<1>3. CASE k.req[t].reqCode = "WRITE"
  <2>1. h = k
    BY <1>3 DEF HoldBack
  <2>2. LetThrough(k, t, FALSE) = LetThrough(k, t, TRUE)
    BY <1>3 DEF LetThrough
  <2> QED BY <2>1, <2>2
<1>4. CASE k.req[t].reqCode = "ERASE"
  <2> DEFINE f == [k.blockedEraseReqFlag EXCEPT ![b] = TRUE]
             f2 == [f EXCEPT ![b] = FALSE]
             f3 == [k.blockedEraseReqFlag EXCEPT ![b] = FALSE]
             c == [k.permittedProgPage EXCEPT ![b] = 0]
  <2>1. f2 = f3
    BY <1>1
  <2> HIDE DEF f, f2, f3, c
  <2>2. h = [k EXCEPT !.blockedEraseReqFlag = f]
    BY <1>4 DEF HoldBack, PoolType, f
  <2>3. /\ h.req = k.req /\ h.permittedProgPage = k.permittedProgPage
        /\ h.blockedReadReqCnt = k.blockedReadReqCnt
    BY <2>2 DEF PoolType
  <2>4. LetThrough(h, t, TRUE) =
          [h EXCEPT !.permittedProgPage[b] = 0, !.blockedEraseReqFlag[b] = FALSE]
    BY <1>4, <2>3 DEF LetThrough, EraseGranted
  <2>5. LetThrough(h, t, TRUE) = [k EXCEPT !.permittedProgPage = c, !.blockedEraseReqFlag = f2]
    <3> HIDE DEF h
    <3>1. [h EXCEPT !.permittedProgPage[b] = 0, !.blockedEraseReqFlag[b] = FALSE]
            = [k EXCEPT !.permittedProgPage = c, !.blockedEraseReqFlag = f2]
      BY <2>2 DEF PoolType, c, f2
    <3> QED BY <2>4, <3>1
  <2>6. LetThrough(k, t, FALSE) = [k EXCEPT !.permittedProgPage = c, !.blockedEraseReqFlag = f3]
    BY <1>4 DEF LetThrough, EraseGranted, c, f3, PoolType
  <2>7. RowAddrPass(k, t) <=> RowAddrPass(h, t)
    <3> HIDE DEF h
    <3> QED BY <1>4, <2>3 DEF RowAddrPass
  <2> QED BY <2>1, <2>5, <2>6, <2>7
<1> QED BY <1>2, <1>3, <1>4 DEF FlashCodes

-----------------------------------------------------------------------------
(* Blocks: letting a held request through. *)

\* A block nothing has changed about.
LEMMA BlockKept ==
  ASSUME NEW k, NEW m, NEW W, NEW V, NEW g, NEW h, NEW sh, NEW sh2, NEW age, NEW age2,
         NEW b \in DieBlocks, BlockInv(k, W, g, sh, age, b),
         \A code \in FlashCodes : OfBlock(m, V, code, b) = OfBlock(k, W, code, b),
         \A code \in FlashCodes : \A t \in OfBlock(k, W, code, b) :
           m.req[t] = k.req[t] /\ age2[t] = age[t],
         m.permittedProgPage[b] = k.permittedProgPage[b],
         m.blockedReadReqCnt[b] = k.blockedReadReqCnt[b],
         m.blockedEraseReqFlag[b] = k.blockedEraseReqFlag[b],
         \A p \in Pages : h[<<b, p>>] = g[<<b, p>>] /\ sh2.flash[<<b, p>>] = sh.flash[<<b, p>>],
         sh2.issued[b] = sh.issued[b],
         \A code \in FlashCodes : \A t \in OfBlock(k, W, code, b) :
           code # "ERASE" => k.req[t].page \in Pages
  PROVE  BlockInv(m, V, h, sh2, age2, b)
<1> DEFINE R == OfBlock(k, W, "READ", b)
           P == OfBlock(k, W, "WRITE", b)
           E == OfBlock(k, W, "ERASE", b)
<1>1. /\ OfBlock(m, V, "READ", b) = R /\ OfBlock(m, V, "WRITE", b) = P
      /\ OfBlock(m, V, "ERASE", b) = E
      /\ \A t \in R \cup P \cup E : m.req[t] = k.req[t] /\ age2[t] = age[t]
      /\ \A t \in R \cup P : k.req[t].page \in Pages
  BY DEF FlashCodes
<1>2. /\ OldUse(m, b) <=> OldUse(k, b)
      /\ FirstHeld(m, b) = FirstHeld(k, b) /\ EndHeld(m, sh2, b) = EndHeld(k, sh, b)
  BY DEF OldUse, FirstHeld, EndHeld
<1>3. /\ ReadsHeld(k, W, g, age, b) /\ WritesHeld(k, W, sh, age, b)
      /\ ErasesHeld(k, W, age, b) /\ PagesHeld(k, g, sh, b)
  BY DEF BlockInv
<1> HIDE DEF R, P, E
<1>4. ReadsHeld(m, V, h, age2, b)
  BY <1>1, <1>3 DEF ReadsHeld, R, P
<1>5. WritesHeld(m, V, sh2, age2, b)
  BY <1>1, <1>2, <1>3 DEF WritesHeld, P
<1>6. ErasesHeld(m, V, age2, b)
  BY <1>1, <1>2, <1>3 DEF ErasesHeld, R, P, E
<1>7. PagesHeld(m, h, sh2, b)
  BY <1>3 DEF PagesHeld
<1> QED BY <1>4, <1>5, <1>6, <1>7 DEF BlockInv

LEMMA AppliedFacts ==
  ASSUME NEW g \in Flashes, NEW r, WellFormed(r), r.reqCode \in FlashCodes
  PROVE  /\ Applied(r, g) \in Flashes
         /\ \A bp \in FlashPages : bp[1] # r.block => Applied(r, g)[bp] = g[bp]
         /\ \A p \in Pages : <<r.block, p>> \in FlashPages
         /\ r.reqCode = "READ" => Applied(r, g) = g
         /\ r.reqCode = "WRITE" => \A p \in Pages : Applied(r, g)[<<r.block, p>>] =
                                     IF p = r.page THEN r.want ELSE g[<<r.block, p>>]
         /\ r.reqCode = "ERASE" => \A p \in Pages : Applied(r, g)[<<r.block, p>>] = ERASED
<1>1. r.block \in DieBlocks /\ ERASED \in Contents
  BY DEF WellFormed, Contents
<1>2. \A p \in Pages : <<r.block, p>> \in FlashPages
  BY <1>1 DEF FlashPages
<1>3. CASE r.reqCode = "READ"
  BY <1>2, <1>3 DEF Applied
<1>4. CASE r.reqCode = "WRITE"
  <2>1. <<r.block, r.page>> \in FlashPages /\ r.want \in Contents
    BY <1>2, <1>4 DEF WellFormed
  <2>2. Applied(r, g) = [g EXCEPT ![<<r.block, r.page>>] = r.want]
    BY <1>4 DEF Applied
  <2>3. Applied(r, g) \in Flashes
    BY <2>1, <2>2 DEF Flashes
  <2>4. \A bp \in FlashPages : bp # <<r.block, r.page>> => Applied(r, g)[bp] = g[bp]
    BY <2>2 DEF Flashes
  <2>5. Applied(r, g)[<<r.block, r.page>>] = r.want
    BY <2>1, <2>2 DEF Flashes
  <2>6. \A bp \in FlashPages : bp[1] # r.block => bp # <<r.block, r.page>>
    OBVIOUS
  <2>7. \A p \in Pages : p # r.page => <<r.block, p>> # <<r.block, r.page>>
    OBVIOUS
  <2> QED BY <1>2, <1>4, <2>3, <2>4, <2>5, <2>6, <2>7
<1>5. CASE r.reqCode = "ERASE"
  <2>1. Applied(r, g) = [bp \in FlashPages |-> IF bp[1] = r.block THEN ERASED ELSE g[bp]]
    BY <1>5 DEF Applied
  <2>2. Applied(r, g) \in Flashes
    BY <1>1, <2>1 DEF Flashes
  <2> QED BY <1>2, <1>5, <2>1, <2>2
<1> QED BY <1>3, <1>4, <1>5 DEF FlashCodes

LEMMA HeldFacts ==
  ASSUME NEW k, NEW W \in SUBSET Tags, \A t \in W : WellFormed(k.req[t]), NEW b \in DieBlocks
  PROVE  /\ IsFiniteSet(OfBlock(k, W, "READ", b))
         /\ \A t \in OfBlock(k, W, "READ", b) :
              t \in W /\ k.req[t].page \in Pages /\ k.req[t].want \in Contents
         /\ \A t \in OfBlock(k, W, "WRITE", b) :
              t \in W /\ k.req[t].page \in Pages /\ k.req[t].want \in Contents
<1>1. IsFiniteSet(OfBlock(k, W, "READ", b))
  <2>1. OfBlock(k, W, "READ", b) \subseteq Tags
    BY DEF OfBlock
  <2> QED BY <2>1, PoolAssumption, FS_Subset
<1> QED BY <1>1 DEF OfBlock, WellFormed

\* The block of the request let through, by what it does.
LEMMA ReadPasses ==
  ASSUME NEW k, NEW m, NEW W \in SUBSET Tags, \A t \in W : WellFormed(k.req[t]),
         PoolType(k), NEW g \in Flashes, NEW sh, NEW age,
         NEW x \in W, k.req[x].reqCode = "READ", RowAddrPass(k, x),
         BlockInv(k, W, g, sh, age, k.req[x].block),
         m.req = k.req, PassTable(k, m, x)
  PROVE  /\ BlockInv(m, W \ {x}, g, sh, age, k.req[x].block)
         /\ Fits(k.req[x], g)
<1> DEFINE b == k.req[x].block
           V == W \ {x}
<1>1. /\ b \in DieBlocks /\ x \in OfBlock(k, W, "READ", b)
      /\ k.blockedReadReqCnt \in [DieBlocks -> Int]
      /\ k.req[x].page < k.permittedProgPage[b]
  BY DEF WellFormed, FlashCodes, OfBlock, PoolType, RowAddrPass
<1>2. /\ OfBlock(m, V, "READ", b) = OfBlock(k, W, "READ", b) \ {x}
      /\ OfBlock(m, V, "WRITE", b) = OfBlock(k, W, "WRITE", b)
      /\ OfBlock(m, V, "ERASE", b) = OfBlock(k, W, "ERASE", b)
  BY DEF OfBlock
<1>3. /\ m.permittedProgPage[b] = k.permittedProgPage[b]
      /\ m.blockedReadReqCnt[b] = k.blockedReadReqCnt[b] - 1
      /\ m.blockedEraseReqFlag[b] = k.blockedEraseReqFlag[b]
  BY <1>1 DEF PassTable
<1>4. /\ OldUse(m, b) <=> OldUse(k, b)
      /\ FirstHeld(m, b) = FirstHeld(k, b) /\ EndHeld(m, sh, b) = EndHeld(k, sh, b)
  BY <1>3 DEF OldUse, FirstHeld, EndHeld
<1> HIDE DEF b, V
<1>5. ReadsHeld(m, V, g, age, b)
  <2>1. IsFiniteSet(OfBlock(k, W, "READ", b))
    BY <1>1, HeldFacts
  <2>2. Cardinality(OfBlock(k, W, "READ", b) \ {x}) = Cardinality(OfBlock(k, W, "READ", b)) - 1
    BY <1>1, <2>1, FS_RemoveElement
  <2> QED BY <1>2, <1>3, <2>2 DEF BlockInv, ReadsHeld, b
<1>6. WritesHeld(m, V, sh, age, b)
  BY <1>2, <1>4 DEF BlockInv, WritesHeld, b
<1>7. ErasesHeld(m, V, age, b)
  BY <1>2, <1>3, <1>4 DEF BlockInv, ErasesHeld, b
<1>8. PagesHeld(m, g, sh, b)
  BY <1>3 DEF BlockInv, PagesHeld, b
<1>9. Fits(k.req[x], g)
  BY <1>1 DEF BlockInv, ReadsHeld, Fits, b
<1> QED BY <1>5, <1>6, <1>7, <1>8, <1>9 DEF BlockInv, b, V

LEMMA WritePasses ==
  ASSUME NEW k, NEW m, NEW W \in SUBSET Tags, \A t \in W : WellFormed(k.req[t]),
         PoolType(k), NEW g \in Flashes, NEW sh, ShadowType(sh), NEW age,
         NEW x \in W, k.req[x].reqCode = "WRITE", RowAddrPass(k, x),
         BlockInv(k, W, g, sh, age, k.req[x].block),
         m.req = k.req, PassTable(k, m, x)
  PROVE  /\ BlockInv(m, W \ {x}, Applied(k.req[x], g), sh, age, k.req[x].block)
         /\ Fits(k.req[x], g)
<1> DEFINE b == k.req[x].block
           V == W \ {x}
           h == Applied(k.req[x], g)
           n == k.permittedProgPage[b]
           i == sh.issued[b]
<1>1. /\ b \in DieBlocks /\ x \in OfBlock(k, W, "WRITE", b)
      /\ k.req[x].page = n /\ n \in Pages
  BY DEF WellFormed, FlashCodes, OfBlock, PoolType, RowAddrPass
<1>2. /\ OfBlock(m, V, "READ", b) = OfBlock(k, W, "READ", b)
      /\ OfBlock(m, V, "WRITE", b) = OfBlock(k, W, "WRITE", b) \ {x}
      /\ OfBlock(m, V, "ERASE", b) = OfBlock(k, W, "ERASE", b)
  BY DEF OfBlock
<1>3. /\ m.permittedProgPage[b] = n + 1
      /\ m.blockedReadReqCnt[b] = k.blockedReadReqCnt[b]
      /\ m.blockedEraseReqFlag[b] = k.blockedEraseReqFlag[b]
  BY <1>1 DEF PassTable, PoolType
<1>4. \A p \in Pages : h[<<b, p>>] = IF p = n THEN k.req[x].want ELSE g[<<b, p>>]
  BY <1>1, AppliedFacts DEF FlashCodes
<1>5. /\ n \in Nat /\ n + 1 <= PAGES_PER_BLOCK /\ PAGES_PER_BLOCK \in Nat
      /\ \A p \in Pages : p \in Nat /\ p < PAGES_PER_BLOCK
      /\ i \in Nat
  BY <1>1, PagesAssumption DEF Pages, ShadowType
<1>6. /\ \A t \in OfBlock(k, W, "READ", b) : k.req[t].page \in Pages
      /\ \A t \in OfBlock(k, W, "WRITE", b) : k.req[t].page \in Pages
  BY <1>1, HeldFacts
<1>7. /\ OldUse(k, b) <=> k.blockedEraseReqFlag[b]
      /\ FirstHeld(k, b) = n
      /\ EndHeld(k, sh, b) = IF OldUse(k, b) THEN PAGES_PER_BLOCK ELSE i
  BY <1>5 DEF OldUse, FirstHeld, EndHeld
<1>8. /\ OldUse(m, b) <=> OldUse(k, b) /\ n + 1 < PAGES_PER_BLOCK
      /\ FirstHeld(m, b) = IF OldUse(k, b) /\ ~ OldUse(m, b) THEN 0 ELSE n + 1
      /\ EndHeld(m, sh, b) = IF OldUse(m, b) THEN PAGES_PER_BLOCK ELSE i
  BY <1>3, <1>7 DEF OldUse, FirstHeld, EndHeld
<1>9. /\ ReadsHeld(k, W, g, age, b) /\ WritesHeld(k, W, sh, age, b)
      /\ ErasesHeld(k, W, age, b) /\ PagesHeld(k, g, sh, b)
  BY DEF BlockInv, b
<1> HIDE DEF b, V, h, n, i
<1>10. \A t \in OfBlock(k, W, "WRITE", b) \ {x} : k.req[t].page \in Pages /\ n + 1 <= k.req[t].page
  <2> SUFFICES ASSUME NEW t \in OfBlock(k, W, "WRITE", b), t # x
               PROVE  n + 1 <= k.req[t].page
    BY <1>6
  <2>1. k.req[t].page # n
    BY <1>1, <1>9 DEF WritesHeld
  <2>2. n <= k.req[t].page /\ k.req[t].page \in Nat
    BY <1>5, <1>6, <1>7, <1>9 DEF WritesHeld
  <2> QED BY <1>5, <2>1, <2>2
<1>11. ReadsHeld(m, V, h, age, b)
  <2>1. ASSUME NEW t \in OfBlock(k, W, "READ", b)
        PROVE  IF k.req[t].page < n + 1
               THEN h[<<b, k.req[t].page>>] = k.req[t].want
               ELSE \E u \in OfBlock(k, W, "WRITE", b) \ {x} :
                      /\ k.req[u].page = k.req[t].page /\ k.req[u].want = k.req[t].want
                      /\ age[u] < age[t]
    <3>1. k.req[t].page \in Pages /\ k.req[t].page \in Nat
      BY <1>5, <1>6
    <3>2. CASE k.req[t].page < n
      <4>1. k.req[t].page # n /\ k.req[t].page < n + 1
        BY <1>5, <3>1, <3>2
      <4>2. g[<<b, k.req[t].page>>] = k.req[t].want
        BY <1>9, <3>2 DEF ReadsHeld, n
      <4> QED BY <1>4, <3>1, <4>1, <4>2
    <3>3. CASE ~ (k.req[t].page < n)
      <4>1. PICK u \in OfBlock(k, W, "WRITE", b) :
              /\ k.req[u].page = k.req[t].page /\ k.req[u].want = k.req[t].want
              /\ age[u] < age[t]
        BY <1>9, <3>3 DEF ReadsHeld, n
      <4>2. CASE u = x
        <5>1. k.req[t].page = n /\ n < n + 1
          BY <1>1, <1>5, <4>1, <4>2
        <5> QED BY <1>4, <3>1, <4>1, <4>2, <5>1
      <4>3. CASE u # x
        <5>1. n + 1 <= k.req[t].page
          BY <1>10, <4>1, <4>3
        <5>2. ~ (k.req[t].page < n + 1)
          BY <1>5, <3>1, <5>1
        <5> QED BY <4>1, <4>3, <5>2
      <4> QED BY <4>2, <4>3
    <3> QED BY <3>2, <3>3
  <2> QED BY <1>2, <1>3, <1>9, <2>1 DEF ReadsHeld
<1>12. WritesHeld(m, V, sh, age, b)
  <2>1. ASSUME NEW t \in OfBlock(k, W, "WRITE", b) \ {x}
        PROVE  /\ FirstHeld(m, b) <= k.req[t].page /\ k.req[t].page < EndHeld(m, sh, b)
               /\ ~ OldUse(m, b) => k.req[t].want = sh.flash[<<b, k.req[t].page>>]
    <3>1. /\ k.req[t].page \in Nat /\ n + 1 <= k.req[t].page
          /\ k.req[t].page < EndHeld(k, sh, b) /\ k.req[t].page < PAGES_PER_BLOCK
          /\ ~ OldUse(k, b) => k.req[t].want = sh.flash[<<b, k.req[t].page>>]
      BY <1>5, <1>9, <1>10 DEF WritesHeld
    <3>2. n + 1 < PAGES_PER_BLOCK
      BY <1>5, <3>1
    <3> QED BY <1>7, <1>8, <3>1, <3>2
  <2>2. ASSUME NEW p \in Pages, FirstHeld(m, b) <= p, p < EndHeld(m, sh, b)
        PROVE  \E t \in OfBlock(k, W, "WRITE", b) \ {x} : k.req[t].page = p
    <3>1. n + 1 <= p /\ p < EndHeld(k, sh, b)
      <4>1. CASE OldUse(k, b) /\ ~ OldUse(m, b)
        <5>1. i = 0
          BY <1>9, <4>1 DEF WritesHeld, i
        <5> QED BY <1>5, <1>8, <2>2, <4>1, <5>1
      <4>2. CASE ~ (OldUse(k, b) /\ ~ OldUse(m, b))
        BY <1>7, <1>8, <2>2, <4>2
      <4> QED BY <4>1, <4>2
    <3>2. FirstHeld(k, b) <= p /\ p # n
      BY <1>5, <1>7, <3>1
    <3>3. PICK t \in OfBlock(k, W, "WRITE", b) : k.req[t].page = p
      BY <1>9, <3>1, <3>2 DEF WritesHeld
    <3> QED BY <1>1, <3>2, <3>3
  <2>3. OldUse(m, b) => sh.issued[b] = 0
    BY <1>8, <1>9 DEF WritesHeld
  <2>4. \A t, u \in OfBlock(k, W, "WRITE", b) \ {x} :
          /\ k.req[t].page = k.req[u].page => t = u
          /\ k.req[t].page < k.req[u].page => age[t] < age[u]
    BY <1>9 DEF WritesHeld
  <2> QED BY <1>2, <2>1, <2>2, <2>3, <2>4 DEF WritesHeld
<1>13. ErasesHeld(m, V, age, b)
  <2>1. ASSUME NEW u \in OfBlock(k, W, "WRITE", b) \ {x} PROVE OldUse(m, b) <=> OldUse(k, b)
    <3>1. n + 1 < PAGES_PER_BLOCK
      BY <1>5, <1>10, <2>1
    <3> QED BY <1>8, <3>1
  <2> QED BY <1>2, <1>3, <1>9, <2>1 DEF ErasesHeld
<1>14. PagesHeld(m, h, sh, b)
  <2>1. \A p \in Pages : n + 1 <= p => h[<<b, p>>] = ERASED
    <3> SUFFICES ASSUME NEW p \in Pages, n + 1 <= p PROVE h[<<b, p>>] = ERASED
      OBVIOUS
    <3>1. n <= p /\ p # n
      BY <1>5
    <3> QED BY <1>4, <1>9, <3>1 DEF PagesHeld, n
  <2>2. ASSUME ~ k.blockedEraseReqFlag[b]
        PROVE  /\ n + 1 <= i
               /\ \A p \in Pages : p < n + 1 => h[<<b, p>>] = sh.flash[<<b, p>>]
    <3>1. ~ OldUse(k, b) /\ EndHeld(k, sh, b) = i
      BY <1>7, <2>2
    <3>2. n < i /\ k.req[x].want = sh.flash[<<b, n>>]
      BY <1>1, <1>9, <3>1 DEF WritesHeld
    <3>3. ASSUME NEW p \in Pages, p < n + 1 PROVE h[<<b, p>>] = sh.flash[<<b, p>>]
      <4>1. CASE p = n
        BY <1>4, <3>2, <4>1
      <4>2. CASE p # n
        <5>1. p < n
          BY <1>5, <3>3, <4>2
        <5> QED BY <1>4, <1>9, <2>2, <4>2, <5>1 DEF PagesHeld, n
      <4> QED BY <4>1, <4>2
    <3> QED BY <1>5, <3>2, <3>3
  <2> QED BY <1>3, <1>9, <2>1, <2>2 DEF PagesHeld, i
<1>15. Fits(k.req[x], g)
  <2>1. g[<<b, n>>] = ERASED
    BY <1>1, <1>5, <1>9 DEF PagesHeld, n
  <2> QED BY <1>1, <2>1 DEF Fits, b
<1> QED BY <1>11, <1>12, <1>13, <1>14, <1>15 DEF BlockInv, b, V, h

LEMMA ErasePasses ==
  ASSUME NEW k, NEW m, NEW W \in SUBSET Tags, \A t \in W : WellFormed(k.req[t]),
         PoolType(k), NEW g \in Flashes, NEW sh, ShadowType(sh), NEW age,
         NEW x \in W, k.req[x].reqCode = "ERASE", RowAddrPass(k, x),
         BlockInv(k, W, g, sh, age, k.req[x].block),
         m.req = k.req, PassTable(k, m, x)
  PROVE  /\ BlockInv(m, W \ {x}, Applied(k.req[x], g), sh, age, k.req[x].block)
         /\ Fits(k.req[x], g)
<1> DEFINE b == k.req[x].block
           V == W \ {x}
           h == Applied(k.req[x], g)
<1>1. /\ b \in DieBlocks /\ x \in OfBlock(k, W, "ERASE", b)
      /\ k.permittedProgPage[b] = PAGES_PER_BLOCK /\ k.blockedReadReqCnt[b] = 0
  BY DEF WellFormed, FlashCodes, OfBlock, RowAddrPass
<1>2. /\ OfBlock(m, V, "READ", b) = OfBlock(k, W, "READ", b)
      /\ OfBlock(m, V, "WRITE", b) = OfBlock(k, W, "WRITE", b)
      /\ OfBlock(m, V, "ERASE", b) = OfBlock(k, W, "ERASE", b) \ {x}
  BY DEF OfBlock
<1>3. /\ m.permittedProgPage[b] = 0
      /\ m.blockedReadReqCnt[b] = k.blockedReadReqCnt[b]
      /\ m.blockedEraseReqFlag[b] = FALSE
  BY <1>1 DEF PassTable, PoolType
<1>4. \A p \in Pages : h[<<b, p>>] = ERASED
  BY <1>1, AppliedFacts DEF FlashCodes
<1>5. /\ ReadsHeld(k, W, g, age, b) /\ WritesHeld(k, W, sh, age, b)
      /\ ErasesHeld(k, W, age, b) /\ PagesHeld(k, g, sh, b)
  BY DEF BlockInv, b
<1>6. sh.issued[b] \in Nat /\ PAGES_PER_BLOCK \in Nat /\ ~ (PAGES_PER_BLOCK < PAGES_PER_BLOCK)
  BY <1>1, PagesAssumption DEF ShadowType
<1>7. IsFiniteSet(OfBlock(k, W, "READ", b))
  BY <1>1, HeldFacts
<1> HIDE DEF b, V, h
<1>8. OfBlock(k, W, "READ", b) = {}
  BY <1>1, <1>5, <1>7, FS_EmptySet DEF ReadsHeld
<1>9. OfBlock(m, V, "ERASE", b) = {} /\ k.blockedEraseReqFlag[b]
  BY <1>1, <1>2, <1>5 DEF ErasesHeld
<1>10. /\ ~ OldUse(k, b) /\ FirstHeld(k, b) = 0 /\ EndHeld(k, sh, b) = sh.issued[b]
       /\ ~ OldUse(m, b) /\ FirstHeld(m, b) = 0 /\ EndHeld(m, sh, b) = sh.issued[b]
  BY <1>1, <1>3, <1>6, <1>9 DEF OldUse, FirstHeld, EndHeld
<1>11. ReadsHeld(m, V, h, age, b)
  BY <1>1, <1>2, <1>3, <1>5, <1>8 DEF ReadsHeld
<1>12. WritesHeld(m, V, sh, age, b)
  BY <1>2, <1>5, <1>10 DEF WritesHeld
<1>13. ErasesHeld(m, V, age, b)
  BY <1>3, <1>9 DEF ErasesHeld
<1>14. PagesHeld(m, h, sh, b)
  <2>1. \A p \in Pages : ~ (p < 0)
    BY PagesAssumption DEF Pages
  <2> QED BY <1>3, <1>4, <1>5, <1>6, <2>1 DEF PagesHeld
<1>15. Fits(k.req[x], g)
  BY DEF Fits
<1> QED BY <1>11, <1>12, <1>13, <1>14, <1>15 DEF BlockInv, b, V, h

LEMMA BlocksPass ==
  ASSUME NEW k, NEW m, NEW W \in SUBSET Tags, \A t \in W : WellFormed(k.req[t]),
         PoolType(k), NEW g \in Flashes, NEW sh, ShadowType(sh), NEW age,
         NEW x \in W, k.req[x].reqCode \in FlashCodes, RowAddrPass(k, x),
         BlocksInv(k, W, g, sh, age), m.req = k.req, PassTable(k, m, x)
  PROVE  /\ BlocksInv(m, W \ {x}, Applied(k.req[x], g), sh, age)
         /\ Fits(k.req[x], g)
<1> DEFINE b == k.req[x].block
           h == Applied(k.req[x], g)
<1>1. b \in DieBlocks /\ BlockInv(k, W, g, sh, age, b)
  BY DEF WellFormed, BlocksInv
<1>2. BlockInv(m, W \ {x}, h, sh, age, b) /\ Fits(k.req[x], g)
  <2>1. CASE k.req[x].reqCode = "READ"
    <3>1. h = g
      BY <2>1 DEF Applied
    <3> QED BY <1>1, <2>1, <3>1, ReadPasses
  <2>2. CASE k.req[x].reqCode = "WRITE"
    BY <1>1, <2>2, WritePasses
  <2>3. CASE k.req[x].reqCode = "ERASE"
    BY <1>1, <2>3, ErasePasses
  <2> QED BY <2>1, <2>2, <2>3 DEF FlashCodes
<1>3. ASSUME NEW c \in DieBlocks, c # b
      PROVE  BlockInv(m, W \ {x}, h, sh, age, c)
  <2>1. BlockInv(k, W, g, sh, age, c)
    BY DEF BlocksInv
  <2>2. \A code \in FlashCodes : OfBlock(m, W \ {x}, code, c) = OfBlock(k, W, code, c)
    BY <1>3 DEF OfBlock
  <2>3. /\ m.permittedProgPage[c] = k.permittedProgPage[c]
        /\ m.blockedReadReqCnt[c] = k.blockedReadReqCnt[c]
        /\ m.blockedEraseReqFlag[c] = k.blockedEraseReqFlag[c]
    BY <1>1, <1>3 DEF PassTable, PoolType
  <2>4. \A p \in Pages : h[<<c, p>>] = g[<<c, p>>]
    <3>1. \A p \in Pages : <<c, p>> \in FlashPages /\ <<c, p>>[1] # k.req[x].block
      BY <1>3 DEF FlashPages
    <3> QED BY <3>1, AppliedFacts
  <2>5. \A code \in FlashCodes : \A t \in OfBlock(k, W, code, c) :
          code # "ERASE" => k.req[t].page \in Pages
    BY DEF OfBlock, WellFormed, FlashCodes
  <2> HIDE DEF h, b
  <2> QED BY <2>1, <2>2, <2>3, <2>4, <2>5, BlockKept
<1> QED BY <1>2, <1>3 DEF BlocksInv

-----------------------------------------------------------------------------
(* Blocks: holding a request just issued. *)

LEMMA ReadHeldBack ==
  ASSUME NEW k, NEW m, NEW W \in SUBSET Tags, \A t \in W : WellFormed(k.req[t]),
         PoolType(k), NEW g \in Flashes, NEW sh, ShadowType(sh), NEW age,
         NEW x \in Tags, x \notin W, WellFormed(k.req[x]), k.req[x].reqCode = "READ",
         BlockInv(k, W, g, sh, age, k.req[x].block),
         ~ k.blockedEraseReqFlag[k.req[x].block],
         k.req[x].page < sh.issued[k.req[x].block],
         k.req[x].want = sh.flash[<<k.req[x].block, k.req[x].page>>],
         \A t \in W : age[t] < age[x],
         m.req = k.req, HoldTable(k, m, x)
  PROVE  BlockInv(m, W \cup {x}, g, sh, age, k.req[x].block)
<1> DEFINE b == k.req[x].block
           V == W \cup {x}
           R == OfBlock(k, W, "READ", b)
           P == OfBlock(k, W, "WRITE", b)
           E == OfBlock(k, W, "ERASE", b)
<1>1. /\ b \in DieBlocks /\ k.req[x].page \in Pages
      /\ k.blockedReadReqCnt \in [DieBlocks -> Int]
  BY DEF WellFormed, FlashCodes, PoolType
<1>2. /\ OfBlock(m, V, "READ", b) = R \cup {x} /\ x \notin R
      /\ OfBlock(m, V, "WRITE", b) = P /\ OfBlock(m, V, "ERASE", b) = E
      /\ P \subseteq W
  BY DEF OfBlock
<1>3. /\ m.permittedProgPage[b] = k.permittedProgPage[b]
      /\ m.blockedReadReqCnt[b] = k.blockedReadReqCnt[b] + 1
      /\ m.blockedEraseReqFlag[b] = k.blockedEraseReqFlag[b]
  BY <1>1 DEF HoldTable
<1>4. /\ ~ OldUse(m, b) /\ ~ OldUse(k, b)
      /\ FirstHeld(m, b) = FirstHeld(k, b) /\ EndHeld(m, sh, b) = EndHeld(k, sh, b)
      /\ FirstHeld(k, b) = k.permittedProgPage[b] /\ EndHeld(k, sh, b) = sh.issued[b]
  BY <1>3 DEF OldUse, FirstHeld, EndHeld
<1>5. /\ ReadsHeld(k, W, g, age, b) /\ WritesHeld(k, W, sh, age, b)
      /\ ErasesHeld(k, W, age, b) /\ PagesHeld(k, g, sh, b)
  BY DEF BlockInv
<1>6. /\ \A t \in W : age[t] < age[x]
      /\ k.req[x].page < sh.issued[b] /\ ~ k.blockedEraseReqFlag[b]
      /\ k.req[x].want = sh.flash[<<b, k.req[x].page>>]
  OBVIOUS
<1>7. IsFiniteSet(R)
  BY <1>1, HeldFacts
<1>8. k.permittedProgPage[b] \in Nat /\ \A p \in Pages : p \in Nat
  BY <1>1, PagesAssumption DEF PoolType, Pages
<1> HIDE DEF b, V, R, P, E
<1>9. ReadsHeld(m, V, g, age, b)
  <2>1. Cardinality(R \cup {x}) = Cardinality(R) + 1
    BY <1>2, <1>7, FS_AddElement
  <2>2. m.blockedReadReqCnt[b] = Cardinality(OfBlock(m, V, "READ", b))
    BY <1>2, <1>3, <1>5, <2>1 DEF ReadsHeld, R
  <2>3. \A t \in R :
          IF k.req[t].page < k.permittedProgPage[b]
          THEN g[<<b, k.req[t].page>>] = k.req[t].want
          ELSE \E u \in P : /\ k.req[u].page = k.req[t].page
                            /\ k.req[u].want = k.req[t].want /\ age[u] < age[t]
    BY <1>5 DEF ReadsHeld, R, P
  <2>4. CASE k.req[x].page < k.permittedProgPage[b]
    <3>1. g[<<b, k.req[x].page>>] = k.req[x].want
      BY <1>1, <1>5, <1>6, <2>4 DEF PagesHeld
    <3> QED BY <1>2, <1>3, <2>2, <2>3, <2>4, <3>1 DEF ReadsHeld
  <2>5. CASE ~ (k.req[x].page < k.permittedProgPage[b])
    <3>1. PICK u \in P : k.req[u].page = k.req[x].page
      <4>1. k.permittedProgPage[b] <= k.req[x].page
        BY <1>1, <1>8, <2>5
      <4> QED BY <1>1, <1>4, <1>5, <1>6, <4>1 DEF WritesHeld, P
    <3>2. k.req[u].want = k.req[x].want /\ age[u] < age[x]
      BY <1>2, <1>4, <1>5, <1>6, <3>1 DEF WritesHeld, P
    <3> QED BY <1>2, <1>3, <2>2, <2>3, <2>5, <3>1, <3>2 DEF ReadsHeld
  <2> QED BY <2>4, <2>5
<1>10. WritesHeld(m, V, sh, age, b)
  BY <1>2, <1>4, <1>5 DEF WritesHeld, P
<1>11. ErasesHeld(m, V, age, b)
  <2>1. E = {}
    BY <1>5, <1>6 DEF ErasesHeld, E
  <2> QED BY <1>2, <1>3, <1>6, <2>1 DEF ErasesHeld
<1>12. PagesHeld(m, g, sh, b)
  BY <1>3, <1>5 DEF PagesHeld
<1> QED BY <1>9, <1>10, <1>11, <1>12 DEF BlockInv, b, V

LEMMA WriteHeldBack ==
  ASSUME NEW k, NEW m, NEW W \in SUBSET Tags, \A t \in W : WellFormed(k.req[t]),
         PoolType(k), NEW g \in Flashes, NEW sh, ShadowType(sh), NEW sh2, NEW age,
         NEW x \in Tags, x \notin W, WellFormed(k.req[x]), k.req[x].reqCode = "WRITE",
         BlockInv(k, W, g, sh, age, k.req[x].block),
         k.req[x].page = sh.issued[k.req[x].block],
         sh.issued[k.req[x].block] = 0 => OfBlock(k, W, "WRITE", k.req[x].block) = {},
         sh2.flash = [sh.flash EXCEPT ![<<k.req[x].block, k.req[x].page>>] = k.req[x].want],
         sh2.issued = [sh.issued EXCEPT ![k.req[x].block] = k.req[x].page + 1],
         \A t \in W : age[t] < age[x],
         m.req = k.req, HoldTable(k, m, x)
  PROVE  BlockInv(m, W \cup {x}, g, sh2, age, k.req[x].block)
<1> DEFINE b == k.req[x].block
           n == k.req[x].page
           V == W \cup {x}
           R == OfBlock(k, W, "READ", b)
           P == OfBlock(k, W, "WRITE", b)
           E == OfBlock(k, W, "ERASE", b)
<1>1. b \in DieBlocks /\ n \in Pages
  BY DEF WellFormed, FlashCodes
<1>2. /\ OfBlock(m, V, "WRITE", b) = P \cup {x} /\ x \notin P
      /\ OfBlock(m, V, "READ", b) = R /\ OfBlock(m, V, "ERASE", b) = E
      /\ P \subseteq W /\ R \subseteq W /\ E \subseteq W
  BY DEF OfBlock
<1>3. /\ m.permittedProgPage[b] = k.permittedProgPage[b]
      /\ m.blockedReadReqCnt[b] = k.blockedReadReqCnt[b]
      /\ m.blockedEraseReqFlag[b] = k.blockedEraseReqFlag[b]
  BY DEF HoldTable
<1>4. /\ sh2.issued[b] = n + 1
      /\ \A p \in Pages : sh2.flash[<<b, p>>] = IF p = n THEN k.req[x].want
                                                ELSE sh.flash[<<b, p>>]
  <2>1. sh.issued \in [DieBlocks -> 0 .. PAGES_PER_BLOCK] /\ sh.flash \in [FlashPages -> Contents]
    BY DEF ShadowType, Flashes
  <2>2. \A p \in Pages : <<b, p>> \in FlashPages /\ (<<b, p>> = <<b, n>> => p = n)
    BY <1>1 DEF FlashPages
  <2> QED BY <1>1, <2>1, <2>2
<1>5. /\ ReadsHeld(k, W, g, age, b) /\ WritesHeld(k, W, sh, age, b)
      /\ ErasesHeld(k, W, age, b) /\ PagesHeld(k, g, sh, b)
  BY DEF BlockInv
<1>6. /\ \A t \in W : age[t] < age[x]
      /\ n = sh.issued[b] /\ (n = 0 => P = {})
  OBVIOUS
<1>7. /\ k.permittedProgPage[b] \in Nat /\ n \in Nat /\ n < PAGES_PER_BLOCK
      /\ PAGES_PER_BLOCK \in Nat /\ \A p \in Pages : p \in Nat
  BY <1>1, PagesAssumption DEF PoolType, Pages
<1>8. \A t \in P : k.req[t].page \in Pages
  BY <1>1, HeldFacts
<1> HIDE DEF b, V, R, P, E, n
<1>9. ~ OldUse(k, b) /\ ~ OldUse(m, b)
  <2>1. ASSUME OldUse(k, b) PROVE FALSE
    <3>1. n = 0 /\ P = {}
      BY <1>5, <1>6, <2>1 DEF WritesHeld
    <3>2. /\ k.permittedProgPage[b] \in Pages
          /\ FirstHeld(k, b) = k.permittedProgPage[b] /\ EndHeld(k, sh, b) = PAGES_PER_BLOCK
          /\ k.permittedProgPage[b] <= k.permittedProgPage[b]
          /\ k.permittedProgPage[b] < PAGES_PER_BLOCK
      BY <1>7, <2>1 DEF OldUse, FirstHeld, EndHeld, Pages
    <3>3. \E t \in P : k.req[t].page = k.permittedProgPage[b]
      BY <1>5, <3>2 DEF WritesHeld, P
    <3> QED BY <3>1, <3>3
  <2> QED BY <1>3, <2>1 DEF OldUse
<1>10. /\ FirstHeld(m, b) = FirstHeld(k, b) /\ FirstHeld(k, b) \in Nat /\ FirstHeld(k, b) <= n
       /\ EndHeld(k, sh, b) = n /\ EndHeld(m, sh2, b) = n + 1
  <2>1. ~ k.blockedEraseReqFlag[b] => k.permittedProgPage[b] <= n
    BY <1>5, <1>6 DEF PagesHeld
  <2> QED BY <1>3, <1>4, <1>6, <1>7, <1>9, <2>1 DEF FirstHeld, EndHeld, OldUse
<1>11. ReadsHeld(m, V, g, age, b)
  BY <1>2, <1>3, <1>5 DEF ReadsHeld, R, P
<1>12. WritesHeld(m, V, sh2, age, b)
  <2>1. \A t \in P : /\ FirstHeld(k, b) <= k.req[t].page /\ k.req[t].page < n
                     /\ k.req[t].want = sh.flash[<<b, k.req[t].page>>]
    BY <1>5, <1>9, <1>10 DEF WritesHeld, P
  <2>2. ASSUME NEW t \in P \cup {x}, NEW u \in P \cup {x}
        PROVE  /\ k.req[t].page = k.req[u].page => t = u
               /\ k.req[t].page < k.req[u].page => age[t] < age[u]
    <3>1. CASE t \in P /\ u \in P
      BY <1>5, <3>1 DEF WritesHeld, P
    <3>2. CASE t = x /\ u = x
      BY <1>7, <3>2 DEF n
    <3>3. CASE t = x /\ u \in P
      <4>1. k.req[u].page < k.req[t].page /\ k.req[u].page \in Nat /\ k.req[t].page \in Nat
        BY <1>7, <1>8, <2>1, <3>3 DEF n
      <4> QED BY <4>1
    <3>4. CASE t \in P /\ u = x
      <4>1. k.req[t].page < k.req[u].page /\ k.req[u].page \in Nat /\ k.req[t].page \in Nat
        BY <1>7, <1>8, <2>1, <3>4 DEF n
      <4> QED BY <1>2, <1>6, <3>4, <4>1
    <3> QED BY <3>1, <3>2, <3>3, <3>4
  <2>3. ASSUME NEW t \in P \cup {x}
        PROVE  /\ FirstHeld(m, b) <= k.req[t].page /\ k.req[t].page < EndHeld(m, sh2, b)
               /\ k.req[t].want = sh2.flash[<<b, k.req[t].page>>]
    <3>1. CASE t = x
      <4>1. k.req[t].page = n
        BY <3>1 DEF n
      <4> QED BY <1>1, <1>4, <1>7, <1>10, <3>1, <4>1
    <3>2. CASE t \in P
      <4>1. /\ k.req[t].page \in Pages /\ k.req[t].page \in Nat /\ k.req[t].page < n
            /\ FirstHeld(k, b) <= k.req[t].page
            /\ k.req[t].want = sh.flash[<<b, k.req[t].page>>]
        BY <1>7, <1>8, <2>1, <3>2
      <4> QED BY <1>4, <1>7, <1>10, <4>1
    <3> QED BY <3>1, <3>2
  <2>4. ASSUME NEW p \in Pages, FirstHeld(m, b) <= p, p < EndHeld(m, sh2, b)
        PROVE  \E t \in P \cup {x} : k.req[t].page = p
    <3>1. p = n \/ p < n
      BY <1>7, <1>10, <2>4
    <3>2. CASE p = n
      BY <3>2 DEF n
    <3>3. CASE p < n
      BY <1>5, <1>10, <2>4, <3>3 DEF WritesHeld, P
    <3> QED BY <3>1, <3>2, <3>3
  <2> QED BY <1>2, <1>9, <2>2, <2>3, <2>4 DEF WritesHeld
<1>13. ErasesHeld(m, V, age, b)
  BY <1>2, <1>3, <1>5, <1>6, <1>9 DEF ErasesHeld, R, P, E
<1>14. PagesHeld(m, g, sh2, b)
  <2>1. ASSUME NEW p \in Pages, sh2.issued[b] <= p PROVE sh2.flash[<<b, p>>] = ERASED
    <3>1. n <= p /\ p # n
      BY <1>4, <1>7, <2>1
    <3> QED BY <1>4, <1>5, <1>6, <3>1 DEF PagesHeld
  <2>2. ASSUME ~ k.blockedEraseReqFlag[b]
        PROVE  /\ k.permittedProgPage[b] <= sh2.issued[b]
               /\ \A p \in Pages : p < k.permittedProgPage[b] =>
                    g[<<b, p>>] = sh2.flash[<<b, p>>]
    <3>1. k.permittedProgPage[b] <= n
      BY <1>5, <1>6, <2>2 DEF PagesHeld
    <3>2. \A p \in Pages : p < k.permittedProgPage[b] => p # n
      BY <1>7, <3>1
    <3>3. \A p \in Pages : p < k.permittedProgPage[b] => g[<<b, p>>] = sh.flash[<<b, p>>]
      BY <1>5, <2>2 DEF PagesHeld
    <3> QED BY <1>4, <1>7, <3>1, <3>2, <3>3
  <2> QED BY <1>3, <1>5, <2>1, <2>2 DEF PagesHeld
<1> QED BY <1>11, <1>12, <1>13, <1>14 DEF BlockInv, b, V

LEMMA EraseHeldBack ==
  ASSUME NEW k, NEW m, NEW W \in SUBSET Tags, \A t \in W : WellFormed(k.req[t]),
         PoolType(k), NEW g \in Flashes, NEW sh, ShadowType(sh), NEW sh2, NEW age,
         NEW x \in Tags, x \notin W, WellFormed(k.req[x]), k.req[x].reqCode = "ERASE",
         BlockInv(k, W, g, sh, age, k.req[x].block),
         ~ k.blockedEraseReqFlag[k.req[x].block],
         sh.issued[k.req[x].block] = PAGES_PER_BLOCK,
         sh2.flash = Applied(k.req[x], sh.flash),
         sh2.issued = [sh.issued EXCEPT ![k.req[x].block] = 0],
         \A t \in W : age[t] < age[x],
         m.req = k.req, HoldTable(k, m, x)
  PROVE  BlockInv(m, W \cup {x}, g, sh2, age, k.req[x].block)
<1> DEFINE b == k.req[x].block
           V == W \cup {x}
           R == OfBlock(k, W, "READ", b)
           P == OfBlock(k, W, "WRITE", b)
           E == OfBlock(k, W, "ERASE", b)
<1>1. b \in DieBlocks /\ sh.flash \in Flashes
  BY DEF WellFormed, FlashCodes, ShadowType
<1>2. /\ OfBlock(m, V, "ERASE", b) = E \cup {x}
      /\ OfBlock(m, V, "READ", b) = R /\ OfBlock(m, V, "WRITE", b) = P
      /\ P \subseteq W /\ R \subseteq W
  BY DEF OfBlock
<1>3. /\ m.permittedProgPage[b] = k.permittedProgPage[b]
      /\ m.blockedReadReqCnt[b] = k.blockedReadReqCnt[b]
      /\ m.blockedEraseReqFlag[b] = TRUE
  BY <1>1 DEF HoldTable, PoolType
<1>4. sh2.issued[b] = 0 /\ \A p \in Pages : sh2.flash[<<b, p>>] = ERASED
  <2>1. sh2.issued[b] = 0
    BY <1>1 DEF ShadowType
  <2> QED BY <1>1, <2>1, AppliedFacts DEF FlashCodes
<1>5. /\ ReadsHeld(k, W, g, age, b) /\ WritesHeld(k, W, sh, age, b)
      /\ ErasesHeld(k, W, age, b) /\ PagesHeld(k, g, sh, b)
  BY DEF BlockInv
<1>6. /\ \A t \in W : age[t] < age[x]
      /\ sh.issued[b] = PAGES_PER_BLOCK /\ ~ k.blockedEraseReqFlag[b]
  OBVIOUS
<1>7. /\ k.permittedProgPage[b] \in 0 .. PAGES_PER_BLOCK /\ k.permittedProgPage[b] \in Nat
      /\ PAGES_PER_BLOCK \in Nat /\ \A p \in Pages : p \in Nat /\ ~ (p < 0)
  BY <1>1, PagesAssumption DEF PoolType, Pages
<1>8. \A t \in P : k.req[t].page \in Pages
  BY <1>1, HeldFacts
<1> HIDE DEF b, V, R, P, E
<1>9. /\ ~ OldUse(k, b) /\ FirstHeld(k, b) = k.permittedProgPage[b]
      /\ EndHeld(k, sh, b) = PAGES_PER_BLOCK
  BY <1>6 DEF OldUse, FirstHeld, EndHeld
<1>10. E = {}
  BY <1>5, <1>6 DEF ErasesHeld, E
<1>15. /\ \A t, u \in P : /\ k.req[t].page = k.req[u].page => t = u
                          /\ k.req[t].page < k.req[u].page => age[t] < age[u]
       /\ \A t \in P : k.permittedProgPage[b] <= k.req[t].page /\ k.req[t].page < PAGES_PER_BLOCK
       /\ \A p \in Pages : k.permittedProgPage[b] <= p /\ p < PAGES_PER_BLOCK =>
            \E t \in P : k.req[t].page = p
  BY <1>5, <1>9 DEF WritesHeld, P
<1>11. ReadsHeld(m, V, g, age, b)
  BY <1>2, <1>3, <1>5 DEF ReadsHeld, R, P
<1>12. PagesHeld(m, g, sh2, b)
  BY <1>3, <1>4, <1>5 DEF PagesHeld
<1>13. CASE OldUse(m, b)
  <2>1. FirstHeld(m, b) = k.permittedProgPage[b] /\ EndHeld(m, sh2, b) = PAGES_PER_BLOCK
    BY <1>3, <1>13 DEF FirstHeld, EndHeld
  <2>2. WritesHeld(m, V, sh2, age, b)
    <3>1. \A t \in P : FirstHeld(m, b) <= k.req[t].page /\ k.req[t].page < EndHeld(m, sh2, b)
      BY <1>15, <2>1
    <3>2. \A p \in Pages : FirstHeld(m, b) <= p /\ p < EndHeld(m, sh2, b) =>
            \E t \in P : k.req[t].page = p
      BY <1>15, <2>1
    <3> QED BY <1>2, <1>4, <1>13, <1>15, <3>1, <3>2 DEF WritesHeld
  <2>3. ErasesHeld(m, V, age, b)
    BY <1>2, <1>3, <1>6, <1>10, <1>13 DEF ErasesHeld
  <2> QED BY <1>11, <1>12, <2>2, <2>3 DEF BlockInv, b, V
<1>14. CASE ~ OldUse(m, b)
  <2>1. k.permittedProgPage[b] = PAGES_PER_BLOCK
    BY <1>3, <1>7, <1>14 DEF OldUse
  <2>2. P = {}
    <3> SUFFICES ASSUME NEW t \in P PROVE FALSE
      OBVIOUS
    <3>1. PAGES_PER_BLOCK <= k.req[t].page /\ k.req[t].page < PAGES_PER_BLOCK
      BY <1>15, <2>1
    <3> QED BY <1>7, <1>8, <3>1
  <2>3. FirstHeld(m, b) = 0 /\ EndHeld(m, sh2, b) = 0
    BY <1>3, <1>4, <1>14 DEF FirstHeld, EndHeld
  <2>4. WritesHeld(m, V, sh2, age, b)
    BY <1>2, <1>7, <1>14, <2>2, <2>3 DEF WritesHeld
  <2>5. ErasesHeld(m, V, age, b)
    BY <1>2, <1>3, <1>6, <1>10, <1>14, <2>2 DEF ErasesHeld
  <2> QED BY <1>11, <1>12, <2>4, <2>5 DEF BlockInv, b, V
<1> QED BY <1>13, <1>14

-----------------------------------------------------------------------------
(* All blocks. *)

\* The table and the requests held for the blocks stay what they are.
LEMMA BlocksKept ==
  ASSUME NEW k, NEW m, NEW W \in SUBSET Tags, NEW V \in SUBSET Tags,
         \A t \in W : WellFormed(k.req[t]),
         NEW g, NEW sh, NEW sh2, NEW age, NEW age2, BlocksInv(k, W, g, sh, age),
         SameTable(k, m), sh2.flash = sh.flash, sh2.issued = sh.issued,
         \A t \in W \cap V : m.req[t] = k.req[t] /\ age2[t] = age[t],
         \A t \in W \ V : k.req[t].reqCode \notin FlashCodes,
         \A t \in V \ W : m.req[t].reqCode \notin FlashCodes
  PROVE  BlocksInv(m, V, g, sh2, age2)
<1> SUFFICES ASSUME NEW b \in DieBlocks PROVE BlockInv(m, V, g, sh2, age2, b)
  BY DEF BlocksInv
<1>1. BlockInv(k, W, g, sh, age, b)
  BY DEF BlocksInv
<1>2. \A code \in FlashCodes : OfBlock(m, V, code, b) = OfBlock(k, W, code, b)
  BY DEF OfBlock
<1>3. \A code \in FlashCodes : \A t \in OfBlock(k, W, code, b) : t \in W \cap V
  BY DEF OfBlock
<1>4. \A code \in FlashCodes : \A t \in OfBlock(k, W, code, b) :
        code # "ERASE" => k.req[t].page \in Pages
  BY DEF OfBlock, WellFormed, FlashCodes
<1>5. /\ m.permittedProgPage[b] = k.permittedProgPage[b]
      /\ m.blockedReadReqCnt[b] = k.blockedReadReqCnt[b]
      /\ m.blockedEraseReqFlag[b] = k.blockedEraseReqFlag[b]
  BY DEF SameTable
<1> QED BY <1>1, <1>2, <1>3, <1>4, <1>5, BlockKept

\* Request x is the next one issued, after which the outcome is to be sh2.
Fresh(k, W, x, sh, sh2) ==
  LET r == k.req[x]
      b == r.block
  IN  /\ r.reqCode \in DmaCodes \cup {"READ"} => sh2.flash = sh.flash /\ sh2.issued = sh.issued
      /\ r.reqCode = "READ" =>
           /\ ~ k.blockedEraseReqFlag[b]
           /\ r.page < sh.issued[b] /\ r.want = sh.flash[<<b, r.page>>]
      /\ r.reqCode = "WRITE" =>
           /\ r.page = sh.issued[b]
           /\ sh.issued[b] = 0 => OfBlock(k, W, "WRITE", b) = {}
           /\ sh2.flash = [sh.flash EXCEPT ![<<b, r.page>>] = r.want]
           /\ sh2.issued = [sh.issued EXCEPT ![b] = r.page + 1]
      /\ r.reqCode = "ERASE" =>
           /\ ~ k.blockedEraseReqFlag[b] /\ sh.issued[b] = PAGES_PER_BLOCK
           /\ sh2.flash = Applied(r, sh.flash)
           /\ sh2.issued = [sh.issued EXCEPT ![b] = 0]

LEMMA BlocksHold ==
  ASSUME NEW k, NEW m, NEW W \in SUBSET Tags, \A t \in W : WellFormed(k.req[t]),
         PoolType(k), NEW g \in Flashes, NEW sh, ShadowType(sh), NEW sh2, NEW age,
         NEW x \in Tags, x \notin W, WellFormed(k.req[x]),
         BlocksInv(k, W, g, sh, age), Fresh(k, W, x, sh, sh2),
         \A t \in W : age[t] < age[x],
         m.req = k.req, HoldTable(k, m, x)
  PROVE  BlocksInv(m, W \cup {x}, g, sh2, age)
<1> DEFINE b == k.req[x].block
           V == W \cup {x}
<1>1. CASE k.req[x].reqCode \in DmaCodes
  <2>1. k.req[x].reqCode \notin FlashCodes
    BY <1>1 DEF DmaCodes, FlashCodes
  <2>2. SameTable(k, m)
    BY <2>1 DEF HoldTable, SameTable, FlashCodes
  <2>3. V \in SUBSET Tags /\ W \ V = {} /\ V \ W = {x} /\ W \cap V = W
    OBVIOUS
  <2>4. sh2.flash = sh.flash /\ sh2.issued = sh.issued
    BY <1>1 DEF Fresh
  <2> HIDE DEF V
  <2>5. /\ \A t \in W \cap V : m.req[t] = k.req[t] /\ age[t] = age[t]
        /\ \A t \in W \ V : k.req[t].reqCode \notin FlashCodes
        /\ \A t \in V \ W : m.req[t].reqCode \notin FlashCodes
    BY <2>1, <2>3
  <2>6. BlocksInv(m, V, g, sh2, age)
    BY <2>2, <2>3, <2>4, <2>5, BlocksKept
  <2> QED BY <2>6 DEF V
<1>2. CASE k.req[x].reqCode \in FlashCodes
  <2>1. b \in DieBlocks /\ BlockInv(k, W, g, sh, age, b)
    BY <1>2 DEF WellFormed, BlocksInv
  <2>2. /\ \A t \in V : WellFormed(m.req[t])
        /\ \A c \in DieBlocks : \A t \in OfBlock(m, V, "READ", c) \cup OfBlock(m, V, "WRITE", c) :
             m.req[t].page \in Pages
    BY DEF OfBlock, WellFormed
  <2>3. BlockInv(m, V, g, sh2, age, b)
    <3>1. CASE k.req[x].reqCode = "READ"
      <4>1. sh2.flash = sh.flash /\ sh2.issued = sh.issued
        BY <3>1 DEF Fresh
      <4>2. BlockInv(m, V, g, sh, age, b)
        BY <2>1, <3>1, ReadHeldBack DEF Fresh
      <4> HIDE DEF b, V
      <4>3. \A code \in FlashCodes : \A t \in OfBlock(m, V, code, b) :
              code # "ERASE" => m.req[t].page \in Pages
        BY <2>1, <2>2 DEF FlashCodes
      <4> QED BY <2>1, <4>1, <4>2, <4>3, BlockKept
    <3>2. CASE k.req[x].reqCode = "WRITE"
      BY <2>1, <3>2, WriteHeldBack DEF Fresh
    <3>3. CASE k.req[x].reqCode = "ERASE"
      BY <2>1, <3>3, EraseHeldBack DEF Fresh
    <3> QED BY <1>2, <3>1, <3>2, <3>3 DEF FlashCodes
  <2>4. ASSUME NEW c \in DieBlocks, c # b
        PROVE  BlockInv(m, V, g, sh2, age, c)
    <3>1. BlockInv(k, W, g, sh, age, c)
      BY DEF BlocksInv
    <3>2. \A code \in FlashCodes : OfBlock(m, V, code, c) = OfBlock(k, W, code, c)
      BY <2>4 DEF OfBlock
    <3>3. /\ m.permittedProgPage[c] = k.permittedProgPage[c]
          /\ m.blockedReadReqCnt[c] = k.blockedReadReqCnt[c]
          /\ m.blockedEraseReqFlag[c] = k.blockedEraseReqFlag[c]
      BY <2>1, <2>4 DEF HoldTable, PoolType
    <3>4. \A p \in Pages : sh2.flash[<<c, p>>] = sh.flash[<<c, p>>]
      <4>1. CASE k.req[x].reqCode = "READ"
        BY <4>1 DEF Fresh
      <4>2. CASE k.req[x].reqCode \in {"WRITE", "ERASE"}
        <5>1. sh2.flash = Applied(k.req[x], sh.flash)
          BY <4>2 DEF Fresh, Applied
        <5>2. \A p \in Pages : <<c, p>> \in FlashPages /\ <<c, p>>[1] # k.req[x].block
          BY <2>4 DEF FlashPages
        <5>3. sh.flash \in Flashes
          BY DEF ShadowType
        <5> QED BY <1>2, <5>1, <5>2, <5>3, AppliedFacts
      <4> QED BY <1>2, <4>1, <4>2 DEF FlashCodes
    <3>5. sh2.issued[c] = sh.issued[c]
      BY <1>2, <2>1, <2>4 DEF Fresh, ShadowType, FlashCodes
    <3>6. \A code \in FlashCodes : \A t \in OfBlock(k, W, code, c) :
            code # "ERASE" => k.req[t].page \in Pages
      BY DEF OfBlock, WellFormed, FlashCodes
    <3> HIDE DEF b, V
    <3> QED BY <3>1, <3>2, <3>3, <3>4, <3>5, <3>6, BlockKept
  <2> QED BY <2>3, <2>4 DEF BlocksInv
<1> QED BY <1>1, <1>2 DEF WellFormed

-----------------------------------------------------------------------------
(* The requests with the dies. *)

LEMMA AppliedSame ==
  ASSUME NEW g \in Flashes, NEW h \in Flashes, NEW r, WellFormed(r), r.reqCode \in FlashCodes,
         NEW d \in Dies
  PROVE  /\ r.block[1] = d /\ SameOn(d, g, h) =>
              /\ SameOn(d, Applied(r, g), Applied(r, h))
              /\ Fits(r, g) <=> Fits(r, h)
         /\ r.block[1] # d => SameOn(d, Applied(r, g), g)
<1>1. /\ \A bp \in FlashPages : bp[1] # r.block =>
           Applied(r, g)[bp] = g[bp] /\ Applied(r, h)[bp] = h[bp]
      /\ \A p \in Pages : <<r.block, p>> \in FlashPages
  BY AppliedFacts
<1>2. ASSUME r.block[1] = d, SameOn(d, g, h)
      PROVE  SameOn(d, Applied(r, g), Applied(r, h)) /\ (Fits(r, g) <=> Fits(r, h))
  <2>1. \A p \in Pages : g[<<r.block, p>>] = h[<<r.block, p>>]
    BY <1>1, <1>2 DEF SameOn
  <2>2. ASSUME NEW bp \in FlashPages, bp[1][1] = d, bp[1] = r.block
        PROVE  Applied(r, g)[bp] = Applied(r, h)[bp]
    <3>1. PICK p \in Pages : bp = <<r.block, p>>
      BY <2>2 DEF FlashPages
    <3> QED BY <2>1, <3>1, AppliedFacts DEF FlashCodes
  <2>3. SameOn(d, Applied(r, g), Applied(r, h))
    BY <1>1, <1>2, <2>2 DEF SameOn
  <2>4. Fits(r, g) <=> Fits(r, h)
    BY <2>1 DEF Fits, WellFormed
  <2> QED BY <2>3, <2>4
<1>3. ASSUME r.block[1] # d PROVE SameOn(d, Applied(r, g), g)
  BY <1>1, <1>3 DEF SameOn
<1> QED BY <1>2, <1>3

LEMMA SameOnFacts ==
  ASSUME NEW d, NEW f, NEW g, NEW h
  PROVE  /\ SameOn(d, f, f)
         /\ SameOn(d, f, g) => SameOn(d, g, f)
         /\ SameOn(d, f, g) /\ SameOn(d, g, h) => SameOn(d, f, h)
BY DEF SameOn

LEMMA DiesKept ==
  ASSUME NEW k, NEW m, NEW f, NEW g, PoolType(k), DiesInv(k, f, g), m.nandReqQ = k.nandReqQ,
         \A d \in Dies, t \in Tags : In(k.nandReqQ[d], t) => m.req[t] = k.req[t]
  PROVE  DiesInv(m, f, g)
<1> SUFFICES ASSUME NEW d \in Dies PROVE \E h : Leads(m, d, f, g, h)
  BY DEF DiesInv
<1>1. PICK h : Leads(k, d, f, g, h)
  BY DEF DiesInv
<1>2. k.nandReqQ[d] \in Seq(Tags)
  BY DEF PoolType
<1>3. \A i \in 1 .. Len(k.nandReqQ[d]) : m.req[k.nandReqQ[d][i]] = k.req[k.nandReqQ[d][i]]
  <2>1. \A i \in 1 .. Len(k.nandReqQ[d]) :
          k.nandReqQ[d][i] \in Tags /\ i \in DOMAIN k.nandReqQ[d]
    BY <1>2
  <2> QED BY <2>1 DEF In
<1>4. Leads(m, d, f, g, h)
  BY <1>1, <1>3 DEF Leads
<1> QED BY <1>4

\* A request let through comes last on its die.
LEMMA DieJoined ==
  ASSUME NEW k, NEW m, NEW f, NEW g, PoolType(k), DiesInv(k, f, g), NEW x \in Tags,
         \A t \in Tags : Live(k, t) => WellFormed(k.req[t]),
         WellFormed(k.req[x]), k.req[x].reqCode \in FlashCodes, Fits(k.req[x], g),
         m.req = k.req, m.nandReqQ = Joined(k.nandReqQ, k.req[x].block[1], x)
  PROVE  DiesInv(m, f, Applied(k.req[x], g))
<1> DEFINE r == k.req[x]
           e == r.block[1]
           g2 == Applied(r, g)
<1>1. f \in Flashes /\ g \in Flashes /\ g2 \in Flashes
  BY AppliedFacts DEF DiesInv
<1>2. k.nandReqQ \in [Dies -> Seq(Tags)] /\ e \in Dies
  BY BlockFacts DEF PoolType, WellFormed
<1>3. ASSUME NEW d \in Dies PROVE \E h : Leads(m, d, f, g2, h)
  <2>1. PICK h : Leads(k, d, f, g, h)
    BY DEF DiesInv
  <2> DEFINE q == k.nandReqQ[d]
             n == Len(q)
  <2>2. /\ q \in Seq(Tags) /\ n \in Nat
        /\ h \in [0 .. n -> Flashes] /\ SameOn(d, h[0], f) /\ SameOn(d, h[n], g)
        /\ h[n] \in Flashes
        /\ \A i \in 1 .. n : /\ Fits(k.req[q[i]], h[i - 1])
                             /\ h[i] = Applied(k.req[q[i]], h[i - 1])
    <3>1. q \in Seq(Tags) /\ n \in Nat /\ n \in 0 .. n
      BY <1>2
    <3> QED BY <2>1, <3>1 DEF Leads
  <2>3. CASE d # e
    <3>1. m.nandReqQ[d] = q
      BY <1>2, <2>3 DEF Joined
    <3>2. SameOn(d, h[n], g2)
      <4>1. SameOn(d, g2, g)
        BY <1>1, <2>3, AppliedSame
      <4> QED BY <2>2, <4>1, SameOnFacts
    <3> HIDE DEF q, n
    <3>3. Leads(m, d, f, g2, h)
      <4>1. n = Len(m.nandReqQ[d])
        BY <3>1 DEF n
      <4> HIDE DEF g2
      <4> QED BY <2>2, <3>1, <3>2, <4>1 DEF Leads
    <3> QED BY <3>3
  <2>4. CASE d = e
    <3> DEFINE p == Append(q, x)
               h2 == [i \in 0 .. n + 1 |-> IF i = n + 1 THEN Applied(r, h[n]) ELSE h[i]]
    <3>1. m.nandReqQ[d] = p
      BY <1>2, <2>4 DEF Joined
    <3>2. /\ Len(p) = n + 1 /\ p[n + 1] = x
          /\ \A i \in 1 .. n : p[i] = q[i]
      BY <2>2
    <3>3. Applied(r, h[n]) \in Flashes
      BY <2>2, AppliedFacts
    <3>4. Fits(r, h[n]) /\ SameOn(d, Applied(r, h[n]), g2)
      <4> DEFINE hn == h[n]
      <4>1. hn \in Flashes /\ SameOn(d, hn, g) /\ r.block[1] = d /\ Fits(r, g)
        BY <2>2, <2>4
      <4>2. WellFormed(r) /\ r.reqCode \in FlashCodes
        OBVIOUS
      <4> HIDE DEF hn, r, g2
      <4>3. Fits(r, hn) /\ SameOn(d, Applied(r, hn), Applied(r, g))
        BY <1>1, <4>1, <4>2, AppliedSame
      <4> QED BY <4>3 DEF hn, g2
    <3> HIDE DEF q, n, p, r, g2
    <3>5. /\ h2 \in [0 .. n + 1 -> Flashes]
          /\ h2[0] = h[0] /\ h2[n + 1] = Applied(r, h[n])
          /\ \A i \in 1 .. n : h2[i] = h[i] /\ h2[i - 1] = h[i - 1]
          /\ h2[n] = h[n]
      <4>1. \A i \in 0 .. n + 1 : i # n + 1 => i \in 0 .. n
        BY <2>2
      <4>2. /\ n + 1 \in 0 .. n + 1 /\ 0 \in 0 .. n + 1 /\ 0 # n + 1
            /\ n \in 0 .. n + 1 /\ n # n + 1
            /\ \A i \in 1 .. n : /\ i \in 0 .. n + 1 /\ i # n + 1
                                 /\ i - 1 \in 0 .. n + 1 /\ i - 1 # n + 1
        BY <2>2
      <4> QED BY <2>2, <3>3, <4>1, <4>2
    <3> HIDE DEF h2
    <3>6. ASSUME NEW i \in 1 .. n + 1
          PROVE  /\ Fits(m.req[p[i]], h2[i - 1])
                 /\ h2[i] = Applied(m.req[p[i]], h2[i - 1])
      <4>1. CASE i = n + 1
        <5>1. i - 1 = n
          BY <2>2, <4>1
        <5> QED BY <3>2, <3>4, <3>5, <4>1, <5>1 DEF r
      <4>2. CASE i # n + 1
        <5>1. i \in 1 .. n
          BY <2>2, <4>2
        <5> QED BY <2>2, <3>2, <3>5, <5>1
      <4> QED BY <4>1, <4>2
    <3>7. Leads(m, d, f, g2, h2)
      BY <2>2, <3>1, <3>2, <3>4, <3>5, <3>6 DEF Leads
    <3> QED BY <3>7
  <2> QED BY <2>3, <2>4
<1> QED BY <1>1, <1>3 DEF DiesInv

\* The first request of die d finishes.
LEMMA DieFinished ==
  ASSUME NEW k, NEW m, NEW f, NEW g, PoolType(k), DiesInv(k, f, g), NEW d \in Dies,
         k.nandReqQ[d] # <<>>, NEW r, r = k.req[Head(k.nandReqQ[d])],
         WellFormed(r), r.reqCode \in FlashCodes, r.block[1] = d,
         m.req = k.req, m.nandReqQ = [k.nandReqQ EXCEPT ![d] = Tail(k.nandReqQ[d])]
  PROVE  Fits(r, f) /\ Applied(r, f) \in Flashes /\ DiesInv(m, Applied(r, f), g)
<1> DEFINE f2 == Applied(r, f)
           q == k.nandReqQ[d]
           n == Len(q)
           p == Tail(q)
<1>1. f \in Flashes /\ g \in Flashes /\ f2 \in Flashes
  BY AppliedFacts DEF DiesInv
<1>2. k.nandReqQ \in [Dies -> Seq(Tags)]
  BY DEF PoolType
<1>3. /\ q \in Seq(Tags) /\ n \in Nat \ {0} /\ Len(p) = n - 1 /\ Head(q) = q[1]
      /\ \A i \in 1 .. n - 1 : p[i] = q[i + 1]
  BY <1>2
<1>4. PICK h : Leads(k, d, f, g, h)
  BY DEF DiesInv
<1>5. /\ h \in [0 .. n -> Flashes] /\ SameOn(d, h[0], f) /\ SameOn(d, h[n], g)
      /\ \A i \in 1 .. n : /\ Fits(k.req[q[i]], h[i - 1])
                           /\ h[i] = Applied(k.req[q[i]], h[i - 1])
  BY <1>4 DEF Leads
<1>6. Fits(r, h[0]) /\ h[1] = Applied(r, h[0])
  <2>1. 1 \in 1 .. n /\ 1 - 1 = 0
    BY <1>3
  <2> QED BY <1>3, <1>5, <2>1
<1>7. Fits(r, f) /\ SameOn(d, h[1], f2)
  <2>1. h[0] \in Flashes
    BY <1>3, <1>5
  <2> QED BY <1>1, <1>5, <1>6, <2>1, AppliedSame
<1>8. ASSUME NEW e \in Dies PROVE \E j : Leads(m, e, f2, g, j)
  <2>1. CASE e # d
    <3>1. PICK j : Leads(k, e, f, g, j)
      BY DEF DiesInv
    <3>2. m.nandReqQ[e] = k.nandReqQ[e]
      BY <1>2, <2>1
    <3>3. SameOn(e, j[0], f2)
      <4>1. SameOn(e, f2, f)
        BY <1>1, <2>1, AppliedSame
      <4>2. SameOn(e, j[0], f)
        BY <3>1 DEF Leads
      <4> QED BY <4>1, <4>2, SameOnFacts
    <3> HIDE DEF f2
    <3> QED BY <3>1, <3>2, <3>3 DEF Leads
  <2>2. CASE e = d
    <3> DEFINE j == [i \in 0 .. n - 1 |-> h[i + 1]]
    <3>1. m.nandReqQ[e] = p
      BY <1>2, <2>2
    <3> HIDE DEF q, n, p, f2
    <3>2. /\ \A i \in 0 .. n - 1 : i + 1 \in 0 .. n
          /\ 0 \in 0 .. n - 1 /\ n - 1 \in 0 .. n - 1 /\ (n - 1) + 1 = n
          /\ \A i \in 1 .. n - 1 : /\ i \in 0 .. n - 1 /\ i - 1 \in 0 .. n - 1
                                   /\ i + 1 \in 1 .. n /\ (i - 1) + 1 = (i + 1) - 1
      BY <1>3
    <3>3. /\ j \in [0 .. n - 1 -> Flashes] /\ j[0] = h[1] /\ j[n - 1] = h[n]
          /\ \A i \in 1 .. n - 1 : j[i] = h[i + 1] /\ j[i - 1] = h[(i + 1) - 1]
      BY <1>5, <3>2
    <3> HIDE DEF j
    <3>4. ASSUME NEW i \in 1 .. n - 1
          PROVE  Fits(m.req[p[i]], j[i - 1]) /\ j[i] = Applied(m.req[p[i]], j[i - 1])
      BY <1>3, <1>5, <3>2, <3>3
    <3>5. Leads(m, e, f2, g, j)
      <4>1. Len(p) = n - 1 /\ SameOn(e, j[0], f2) /\ SameOn(e, j[n - 1], g)
        BY <1>3, <1>5, <1>7, <2>2, <3>3
      <4> QED BY <3>1, <3>3, <3>4, <4>1 DEF Leads
    <3> QED BY <3>5
  <2> QED BY <2>1, <2>2
<1> QED BY <1>1, <1>7, <1>8 DEF DiesInv

-----------------------------------------------------------------------------
(* The order of the requests, W being those held. *)

Order(k, W, iss, dat, f, sh, g, age, now) ==
  /\ Aged(k, iss, age, now)
  /\ EntriesInv(k, dat, sh)
  /\ DiesInv(k, f, g)
  /\ BlocksInv(k, W, g, sh, age)
  /\ IssuingInv(k, iss, sh)

LEMMA ChainsOrderKept ==
  ASSUME NEW k, NEW m, SameChains(k, m), \A t \in Tags : Live(m, t) <=> Live(k, t),
         NEW iss, NEW dat, NEW sh, NEW age, NEW now,
         Aged(k, iss, age, now), EntriesInv(k, dat, sh), IssuingInv(k, iss, sh)
  PROVE  Aged(m, iss, age, now) /\ EntriesInv(m, dat, sh) /\ IssuingInv(m, iss, sh)
<1>1. Aged(m, iss, age, now)
  BY DEF Aged, SameChains
<1>2. EntriesInv(m, dat, sh)
  BY DEF EntriesInv, SameChains
<1>3. IssuingInv(m, iss, sh)
  BY DEF IssuingInv, SameChains
<1> QED BY <1>1, <1>2, <1>3

\* Requests other than x are not touched.
Untouched(k, m, x) ==
  \A t \in Tags : t # x => m.req[t] = k.req[t] /\ m.reqQueueType[t] = k.reqQueueType[t]

\* How far a request of queue q has come.
StageOf(q) == CASE q = "BLOCKED_BY_BUF_DEP"      -> 0
                [] q = "BLOCKED_BY_ROW_ADDR_DEP" -> 1
                [] q = "FREE"                    -> 3
                [] OTHER                         -> 2

\* Some requests have come further, from the queues a to the queues b, and no
\* request has moved in any other way.
Onward(a, b) ==
  /\ \A t \in Tags : a[t] = b[t] \/ StageOf(a[t]) < StageOf(b[t])
  /\ \E t \in Tags : StageOf(a[t]) < StageOf(b[t])

LEMMA OnwardAgain ==
  ASSUME NEW a, NEW b, Onward(a, b), NEW c, c = b \/ Onward(b, c)
  PROVE  Onward(a, c)
<1>1. \A q : StageOf(q) \in Nat
  BY DEF StageOf
<1> HIDE DEF StageOf
<1> QED BY <1>1 DEF Onward

LEMMA HeldWell ==
  ASSUME NEW k, NEW x \in Tags, NEW iss, PoolInv(k, x, iss), Live(k, x)
  PROVE  /\ Waiting(k) \in SUBSET Tags /\ Waiting(k) \cup {x} \in SUBSET Tags
         /\ \A t \in Waiting(k) \cup {x} : WellFormed(k.req[t])
         /\ WellFormed(k.req[x]) /\ PoolType(k)
         /\ \A t \in Tags : Live(k, t) => WellFormed(k.req[t])
<1>1. \A t \in Waiting(k) : t \in Tags /\ Live(k, t)
  BY DEF Waiting, Live
<1> QED BY <1>1 DEF PoolInv, Queued

\* Request x, on its way, goes to the host DMA engine.
LEMMA ToDma ==
  ASSUME NEW k, NEW x \in Tags, NEW iss, PoolInv(k, x, iss), Live(k, x),
         k.req[x].reqCode \in DmaCodes, k.prevBlockingReq[x] = NONE,
         NEW m, m = PutToNvmeDmaReqQ(k, x),
         NEW dat, NEW f, NEW sh, NEW g, NEW age, NEW now
  PROVE  /\ PoolInv(m, NONE, iss) /\ Untouched(k, m, x)
         /\ m.reqQueueType[x] = "NVME_DMA"
         /\ Order(k, Waiting(k) \cup {x}, iss, dat, f, sh, g, age, now) =>
              Order(m, Waiting(m), iss, dat, f, sh, g, age, now)
<1>1. /\ PoolType(m) /\ SameChains(k, m) /\ SameTable(k, m)
      /\ m.reqQueueType = [k.reqQueueType EXCEPT ![x] = "NVME_DMA"]
      /\ m.nvmeDmaReqQ = Append(k.nvmeDmaReqQ, x)
      /\ m.nandReqQ = k.nandReqQ /\ m.rowAddrDepReqQ = k.rowAddrDepReqQ
  BY DmaFields DEF PoolInv
<1> DEFINE q == "NVME_DMA"
<1>2. /\ q \in {"NAND", "NVME_DMA", "BLOCKED_BY_BUF_DEP", "BLOCKED_BY_ROW_ADDR_DEP"}
      /\ q \in {"NAND", "BLOCKED_BY_ROW_ADDR_DEP"} =>
           k.req[x].reqCode \in FlashCodes /\ k.prevBlockingReq[x] = NONE
      /\ q = "BLOCKED_BY_BUF_DEP" => k.prevBlockingReq[x] # NONE
      /\ m.nvmeDmaReqQ = IF q = "NVME_DMA" THEN Append(k.nvmeDmaReqQ, x) ELSE k.nvmeDmaReqQ
      /\ m.nandReqQ = IF q = "NAND" THEN Joined(k.nandReqQ, k.req[x].block[1], x)
                      ELSE k.nandReqQ
      /\ m.rowAddrDepReqQ =
           IF q = "BLOCKED_BY_ROW_ADDR_DEP"
           THEN Joined(k.rowAddrDepReqQ, k.req[x].block[1], x) ELSE k.rowAddrDepReqQ
  BY <1>1
<1>3. /\ PoolInv(m, NONE, iss) /\ \A t \in Tags : Live(m, t) <=> Live(k, t)
      /\ Waiting(m) = Waiting(k) \ {x}
  BY <1>1, <1>2, Requeued
<1>4. Untouched(k, m, x) /\ m.reqQueueType[x] = "NVME_DMA"
  BY <1>1 DEF Untouched, PoolInv, PoolType, SameChains
<1>5. ASSUME Order(k, Waiting(k) \cup {x}, iss, dat, f, sh, g, age, now)
      PROVE  Order(m, Waiting(m), iss, dat, f, sh, g, age, now)
  <2> DEFINE W == Waiting(k) \cup {x}
             V == Waiting(m)
  <2>1. W \in SUBSET Tags /\ V \in SUBSET Tags /\ \A t \in W : WellFormed(k.req[t])
    BY HeldWell DEF Waiting
  <2>2. W \ V \subseteq {x} /\ V \ W = {} /\ k.req[x].reqCode \notin FlashCodes /\ m.req = k.req
    BY <1>1, <1>3 DEF FlashCodes, DmaCodes, SameChains
  <2>3. BlocksInv(k, W, g, sh, age) /\ DiesInv(k, f, g)
    BY <1>5 DEF Order
  <2> HIDE DEF W, V
  <2>4. BlocksInv(m, V, g, sh, age)
    BY <1>1, <2>1, <2>2, <2>3, BlocksKept
  <2>5. DiesInv(m, f, g)
    BY <1>1, <2>2, <2>3, DiesKept DEF PoolInv
  <2>6. Aged(m, iss, age, now) /\ EntriesInv(m, dat, sh) /\ IssuingInv(m, iss, sh)
    BY <1>1, <1>3, <1>5, ChainsOrderKept DEF Order
  <2> QED BY <2>4, <2>5, <2>6 DEF Order, V
<1> QED BY <1>3, <1>4, <1>5

\* Request x waits for the one before it in its chain.
LEMMA ToBuf ==
  ASSUME NEW k, NEW x \in Tags, NEW iss, PoolInv(k, x, iss), Live(k, x),
         k.prevBlockingReq[x] # NONE,
         NEW m, m = PutToBlockedByBufDepReqQ(k, x),
         NEW dat, NEW f, NEW sh, NEW g, NEW age, NEW now
  PROVE  /\ PoolInv(m, NONE, iss) /\ Untouched(k, m, x)
         /\ Order(k, Waiting(k) \cup {x}, iss, dat, f, sh, g, age, now) =>
              Order(m, Waiting(m), iss, dat, f, sh, g, age, now)
<1>1. /\ PoolType(m) /\ SameChains(k, m) /\ SameTable(k, m) /\ SameQueues(k, m)
      /\ m.reqQueueType = [k.reqQueueType EXCEPT ![x] = "BLOCKED_BY_BUF_DEP"]
  BY BufFields DEF PoolInv
<1> DEFINE q == "BLOCKED_BY_BUF_DEP"
<1>2. /\ q \in {"NAND", "NVME_DMA", "BLOCKED_BY_BUF_DEP", "BLOCKED_BY_ROW_ADDR_DEP"}
      /\ q \in {"NAND", "BLOCKED_BY_ROW_ADDR_DEP"} =>
           k.req[x].reqCode \in FlashCodes /\ k.prevBlockingReq[x] = NONE
      /\ q = "NVME_DMA" => k.req[x].reqCode \in DmaCodes /\ k.prevBlockingReq[x] = NONE
      /\ m.nvmeDmaReqQ = IF q = "NVME_DMA" THEN Append(k.nvmeDmaReqQ, x) ELSE k.nvmeDmaReqQ
      /\ m.nandReqQ = IF q = "NAND" THEN Joined(k.nandReqQ, k.req[x].block[1], x)
                      ELSE k.nandReqQ
      /\ m.rowAddrDepReqQ =
           IF q = "BLOCKED_BY_ROW_ADDR_DEP"
           THEN Joined(k.rowAddrDepReqQ, k.req[x].block[1], x) ELSE k.rowAddrDepReqQ
  BY <1>1 DEF SameQueues
<1>3. /\ PoolInv(m, NONE, iss) /\ \A t \in Tags : Live(m, t) <=> Live(k, t)
      /\ Waiting(m) = Waiting(k) \cup {x}
  BY <1>1, <1>2, Requeued
<1>4. Untouched(k, m, x)
  BY <1>1 DEF Untouched, PoolInv, PoolType, SameChains
<1>5. ASSUME Order(k, Waiting(k) \cup {x}, iss, dat, f, sh, g, age, now)
      PROVE  Order(m, Waiting(m), iss, dat, f, sh, g, age, now)
  <2> DEFINE W == Waiting(k) \cup {x}
  <2>1. W \in SUBSET Tags /\ \A t \in W : WellFormed(k.req[t])
    BY HeldWell
  <2>2. W \ W = {} /\ m.req = k.req /\ m.nandReqQ = k.nandReqQ
    BY <1>1 DEF SameChains, SameQueues
  <2>3. BlocksInv(k, W, g, sh, age) /\ DiesInv(k, f, g)
    BY <1>5 DEF Order
  <2> HIDE DEF W
  <2>4. BlocksInv(m, W, g, sh, age)
    BY <1>1, <2>1, <2>2, <2>3, BlocksKept
  <2>5. DiesInv(m, f, g)
    BY <2>2, <2>3, DiesKept DEF PoolInv
  <2>6. Aged(m, iss, age, now) /\ EntriesInv(m, dat, sh) /\ IssuingInv(m, iss, sh)
    BY <1>1, <1>3, <1>5, ChainsOrderKept DEF Order
  <2> QED BY <1>3, <2>4, <2>5, <2>6 DEF Order, W
<1> QED BY <1>3, <1>4, <1>5

\* Request x waits in the table.
LEMMA ToRow ==
  ASSUME NEW k, NEW x \in Tags, NEW iss, PoolInv(k, x, iss), Live(k, x),
         k.req[x].reqCode \in FlashCodes, k.prevBlockingReq[x] = NONE,
         NEW m, m = PutToBlockedByRowAddrDepReqQ(k, x),
         NEW dat, NEW f, NEW sh, NEW g, NEW age, NEW now
  PROVE  /\ PoolInv(m, NONE, iss) /\ Untouched(k, m, x)
         /\ m.reqQueueType[x] = "BLOCKED_BY_ROW_ADDR_DEP"
         /\ Order(k, Waiting(k) \cup {x}, iss, dat, f, sh, g, age, now) =>
              Order(m, Waiting(m), iss, dat, f, sh, g, age, now)
<1>0. k.req[x].block \in DieBlocks /\ PoolType(k)
  BY HeldWell DEF WellFormed
<1>1. /\ PoolType(m) /\ SameChains(k, m) /\ SameTable(k, m)
      /\ m.reqQueueType = [k.reqQueueType EXCEPT ![x] = "BLOCKED_BY_ROW_ADDR_DEP"]
      /\ m.nvmeDmaReqQ = k.nvmeDmaReqQ /\ m.nandReqQ = k.nandReqQ
      /\ m.rowAddrDepReqQ = Joined(k.rowAddrDepReqQ, k.req[x].block[1], x)
  BY <1>0, RowFields
<1> DEFINE q == "BLOCKED_BY_ROW_ADDR_DEP"
<1>2. /\ q \in {"NAND", "NVME_DMA", "BLOCKED_BY_BUF_DEP", "BLOCKED_BY_ROW_ADDR_DEP"}
      /\ q = "NVME_DMA" => k.req[x].reqCode \in DmaCodes /\ k.prevBlockingReq[x] = NONE
      /\ q = "BLOCKED_BY_BUF_DEP" => k.prevBlockingReq[x] # NONE
      /\ m.nvmeDmaReqQ = IF q = "NVME_DMA" THEN Append(k.nvmeDmaReqQ, x) ELSE k.nvmeDmaReqQ
      /\ m.nandReqQ = IF q = "NAND" THEN Joined(k.nandReqQ, k.req[x].block[1], x)
                      ELSE k.nandReqQ
      /\ m.rowAddrDepReqQ =
           IF q = "BLOCKED_BY_ROW_ADDR_DEP"
           THEN Joined(k.rowAddrDepReqQ, k.req[x].block[1], x) ELSE k.rowAddrDepReqQ
  BY <1>1
<1>3. /\ PoolInv(m, NONE, iss) /\ \A t \in Tags : Live(m, t) <=> Live(k, t)
      /\ Waiting(m) = Waiting(k) \cup {x}
  BY <1>1, <1>2, Requeued
<1>4. Untouched(k, m, x) /\ m.reqQueueType[x] = "BLOCKED_BY_ROW_ADDR_DEP"
  BY <1>1 DEF Untouched, PoolInv, PoolType, SameChains
<1>5. ASSUME Order(k, Waiting(k) \cup {x}, iss, dat, f, sh, g, age, now)
      PROVE  Order(m, Waiting(m), iss, dat, f, sh, g, age, now)
  <2> DEFINE W == Waiting(k) \cup {x}
  <2>1. W \in SUBSET Tags /\ \A t \in W : WellFormed(k.req[t])
    BY HeldWell
  <2>2. W \ W = {} /\ m.req = k.req
    BY <1>1 DEF SameChains
  <2>3. BlocksInv(k, W, g, sh, age) /\ DiesInv(k, f, g)
    BY <1>5 DEF Order
  <2> HIDE DEF W
  <2>4. BlocksInv(m, W, g, sh, age)
    BY <1>1, <2>1, <2>2, <2>3, BlocksKept
  <2>5. DiesInv(m, f, g)
    BY <1>0, <1>1, <2>2, <2>3, DiesKept
  <2>6. Aged(m, iss, age, now) /\ EntriesInv(m, dat, sh) /\ IssuingInv(m, iss, sh)
    BY <1>1, <1>3, <1>5, ChainsOrderKept DEF Order
  <2> QED BY <1>3, <2>4, <2>5, <2>6 DEF Order, W
<1> QED BY <1>3, <1>4, <1>5

\* Request x, which passes the table, goes to its die.
LEMMA ToNandPassed ==
  ASSUME NEW k, NEW x \in Tags, NEW iss, PoolInv(k, x, iss), Live(k, x),
         k.req[x].reqCode \in FlashCodes, k.prevBlockingReq[x] = NONE, RowAddrPass(k, x),
         NEW j, PoolType(j), SameOffTable(k, j), PassTable(k, j, x),
         NEW m, m = PutToNandReqQ(j, x),
         NEW dat, NEW f, NEW sh, ShadowType(sh), NEW g, NEW age, NEW now
  PROVE  /\ PoolInv(m, NONE, iss) /\ Untouched(k, m, x)
         /\ m.reqQueueType[x] = "NAND"
         /\ Order(k, Waiting(k) \cup {x}, iss, dat, f, sh, g, age, now) =>
              Order(m, Waiting(m), iss, dat, f, sh, Applied(k.req[x], g), age, now)
<1>0. k.req[x].block \in DieBlocks /\ PoolType(k) /\ WellFormed(k.req[x])
  BY HeldWell DEF WellFormed
<1>1. PoolType(j) /\ SameOffTable(k, j) /\ PassTable(k, j, x)
  OBVIOUS
<1>3. /\ PoolInv(j, x, iss) /\ Waiting(j) = Waiting(k)
      /\ \A t \in Tags : Live(j, t) <=> Live(k, t)
  BY <1>1, OffTableKept
<1>4. /\ j.req = k.req /\ j.prevBlockingReq = k.prevBlockingReq /\ SameChains(k, j)
      /\ j.nandReqQ = k.nandReqQ /\ j.reqQueueType = k.reqQueueType
  BY <1>1 DEF SameOffTable, SameChains, SameQueues
<1>5. /\ PoolType(m) /\ SameChains(j, m) /\ SameTable(j, m)
      /\ m.reqQueueType = [j.reqQueueType EXCEPT ![x] = "NAND"]
      /\ m.nvmeDmaReqQ = j.nvmeDmaReqQ /\ m.rowAddrDepReqQ = j.rowAddrDepReqQ
      /\ m.nandReqQ = Joined(j.nandReqQ, j.req[x].block[1], x)
  <2>1. j.req[x].block \in DieBlocks /\ PoolType(j)
    BY <1>0, <1>1, <1>4
  <2> QED BY <2>1, NandFields
<1> DEFINE q == "NAND"
<1>6. /\ q \in {"NAND", "NVME_DMA", "BLOCKED_BY_BUF_DEP", "BLOCKED_BY_ROW_ADDR_DEP"}
      /\ q \in {"NAND", "BLOCKED_BY_ROW_ADDR_DEP"} =>
           j.req[x].reqCode \in FlashCodes /\ j.prevBlockingReq[x] = NONE
      /\ q = "NVME_DMA" => j.req[x].reqCode \in DmaCodes /\ j.prevBlockingReq[x] = NONE
      /\ q = "BLOCKED_BY_BUF_DEP" => j.prevBlockingReq[x] # NONE
      /\ m.nvmeDmaReqQ = IF q = "NVME_DMA" THEN Append(j.nvmeDmaReqQ, x) ELSE j.nvmeDmaReqQ
      /\ m.nandReqQ = IF q = "NAND" THEN Joined(j.nandReqQ, j.req[x].block[1], x)
                      ELSE j.nandReqQ
      /\ m.rowAddrDepReqQ =
           IF q = "BLOCKED_BY_ROW_ADDR_DEP"
           THEN Joined(j.rowAddrDepReqQ, j.req[x].block[1], x) ELSE j.rowAddrDepReqQ
  BY <1>4, <1>5
<1>7. /\ PoolInv(m, NONE, iss) /\ \A t \in Tags : Live(m, t) <=> Live(j, t)
      /\ Waiting(m) = Waiting(j) \ {x}
  <2>1. PoolInv(j, x, iss) /\ Live(j, x)
    BY <1>3
  <2> QED BY <1>5, <1>6, <2>1, Requeued
<1>8. Untouched(k, m, x) /\ m.reqQueueType[x] = "NAND"
  <2>1. m.req = k.req /\ m.reqQueueType = [k.reqQueueType EXCEPT ![x] = "NAND"]
    BY <1>4, <1>5 DEF SameChains
  <2>2. k.reqQueueType \in [Tags -> QueueTypes]
    BY <1>0 DEF PoolType
  <2> QED BY <2>1, <2>2 DEF Untouched
<1>9. ASSUME Order(k, Waiting(k) \cup {x}, iss, dat, f, sh, g, age, now)
      PROVE  Order(m, Waiting(m), iss, dat, f, sh, Applied(k.req[x], g), age, now)
  <2> DEFINE W == Waiting(k) \cup {x}
             V == W \ {x}
             h == Applied(k.req[x], g)
  <2>1. /\ W \in SUBSET Tags /\ V \in SUBSET Tags /\ x \in W /\ V = Waiting(m)
        /\ \A t \in W : WellFormed(k.req[t])
        /\ \A t \in V : WellFormed(j.req[t])
    BY <1>3, <1>4, <1>7, HeldWell
  <2>2. BlocksInv(k, W, g, sh, age) /\ DiesInv(k, f, g) /\ g \in Flashes
    BY <1>9 DEF Order, DiesInv
  <2>3. V \ V = {}
    OBVIOUS
  <2> HIDE DEF W, V
  <2>4. BlocksInv(j, V, h, sh, age) /\ Fits(k.req[x], g)
    BY <1>0, <1>1, <1>4, <2>1, <2>2, BlocksPass DEF V
  <2> HIDE DEF h
  <2>5. BlocksInv(m, V, h, sh, age)
    <3>1. m.req = j.req
      BY <1>5 DEF SameChains
    <3> QED BY <1>5, <2>1, <2>3, <2>4, <3>1, BlocksKept
  <2>6. DiesInv(m, f, h)
    <3>1. m.req = k.req /\ m.nandReqQ = Joined(k.nandReqQ, k.req[x].block[1], x)
      BY <1>4, <1>5 DEF SameChains
    <3>2. \A t \in Tags : Live(k, t) => WellFormed(k.req[t])
      BY HeldWell
    <3> QED BY <1>0, <2>2, <2>4, <3>1, <3>2, DieJoined DEF h
  <2>7. SameChains(k, m) /\ \A t \in Tags : Live(m, t) <=> Live(k, t)
    BY <1>3, <1>4, <1>5, <1>7 DEF SameChains
  <2>8. Aged(m, iss, age, now) /\ EntriesInv(m, dat, sh) /\ IssuingInv(m, iss, sh)
    BY <1>9, <2>7, ChainsOrderKept DEF Order
  <2> QED BY <2>1, <2>5, <2>6, <2>8 DEF Order, h
<1> QED BY <1>7, <1>8, <1>9

LEMMA ToNand ==
  ASSUME NEW k, NEW x \in Tags, NEW iss, PoolInv(k, x, iss), Live(k, x),
         k.req[x].reqCode \in FlashCodes, k.prevBlockingReq[x] = NONE, RowAddrPass(k, x),
         NEW m, m = PutToNandReqQ(LetThrough(k, x, TRUE), x),
         NEW dat, NEW f, NEW sh, ShadowType(sh), NEW g, NEW age, NEW now
  PROVE  /\ PoolInv(m, NONE, iss) /\ Untouched(k, m, x)
         /\ m.reqQueueType[x] = "NAND"
         /\ Order(k, Waiting(k) \cup {x}, iss, dat, f, sh, g, age, now) =>
              Order(m, Waiting(m), iss, dat, f, sh, Applied(k.req[x], g), age, now)
<1> DEFINE j == LetThrough(k, x, TRUE)
<1>1. PoolType(j) /\ SameOffTable(k, j) /\ PassTable(k, j, x)
  BY PassFields, HeldWell
<1>2. m = PutToNandReqQ(j, x)
  OBVIOUS
<1> HIDE DEF j
<1> QED BY <1>1, <1>2, ToNandPassed

\* A request freed of its data buffer dependency.
LEMMA UnblockedKeeps ==
  ASSUME NEW k, NEW x \in Tags, NEW iss, PoolInv(k, x, iss), Live(k, x),
         k.prevBlockingReq[x] = NONE,
         NEW m, m = Unblocked(k, x),
         NEW dat, NEW f, NEW sh, ShadowType(sh), NEW g, NEW age, NEW now
  PROVE  /\ PoolInv(m, NONE, iss) /\ Untouched(k, m, x)
         /\ m.reqQueueType[x] \in {"NAND", "NVME_DMA", "BLOCKED_BY_ROW_ADDR_DEP"}
         /\ Order(k, Waiting(k) \cup {x}, iss, dat, f, sh, g, age, now) =>
              \E g2 : Order(m, Waiting(m), iss, dat, f, sh, g2, age, now)
<1>1. k.req[x].reqCode \in DmaCodes \/ k.req[x].reqCode \in FlashCodes
  BY HeldWell DEF WellFormed
<1>2. CASE k.req[x].reqCode \in DmaCodes
  <2>1. m = PutToNvmeDmaReqQ(k, x)
    BY <1>2 DEF Unblocked
  <2> QED BY <1>2, <2>1, ToDma
<1>3. CASE k.req[x].reqCode \in FlashCodes /\ RowAddrPass(k, x)
  <2>1. m = PutToNandReqQ(LetThrough(k, x, TRUE), x)
    BY <1>3 DEF Unblocked, FlashCodes, DmaCodes
  <2> QED BY <1>3, <2>1, ToNand
<1>4. CASE k.req[x].reqCode \in FlashCodes /\ ~ RowAddrPass(k, x)
  <2>1. m = PutToBlockedByRowAddrDepReqQ(k, x)
    BY <1>4 DEF Unblocked, FlashCodes, DmaCodes
  <2> QED BY <1>4, <2>1, ToRow
<1> QED BY <1>1, <1>2, <1>3, <1>4

\* A request issued, which is to lead from the outcome sh to sh2.
LEMMA SelectedKeeps ==
  ASSUME NEW k, NEW x \in Tags, NEW iss, PoolInv(k, x, iss), Live(k, x), x \notin Waiting(k),
         NEW m, m = SelectLowLevelReqQ(k, x),
         NEW dat, NEW f, NEW sh, ShadowType(sh), NEW sh2, ShadowType(sh2),
         NEW g, NEW age, NEW now
  PROVE  /\ PoolInv(m, NONE, iss) /\ Untouched(k, m, x)
         /\ /\ Aged(k, iss, age, now) /\ EntriesInv(k, dat, sh2) /\ DiesInv(k, f, g)
            /\ BlocksInv(k, Waiting(k), g, sh, age) /\ IssuingInv(k, iss, sh2)
            /\ Fresh(k, Waiting(k), x, sh, sh2)
            /\ \A t \in Waiting(k) : age[t] < age[x]
            => \E g2 : Order(m, Waiting(m), iss, dat, f, sh2, g2, age, now)
<1> DEFINE j == HoldBack(k, x)
           Before == /\ Aged(k, iss, age, now) /\ EntriesInv(k, dat, sh2) /\ DiesInv(k, f, g)
                     /\ BlocksInv(k, Waiting(k), g, sh, age) /\ IssuingInv(k, iss, sh2)
                     /\ Fresh(k, Waiting(k), x, sh, sh2)
                     /\ \A t \in Waiting(k) : age[t] < age[x]
<1>1. /\ PoolType(k) /\ WellFormed(k.req[x])
      /\ Waiting(k) \in SUBSET Tags /\ \A t \in Waiting(k) : WellFormed(k.req[t])
  BY HeldWell
<1>2. PoolType(j) /\ SameOffTable(k, j) /\ HoldTable(k, j, x)
  BY <1>1, HoldFields
<1>3. k.req[x].reqCode \in FlashCodes =>
        /\ LetThrough(k, x, FALSE) = LetThrough(j, x, TRUE)
        /\ RowAddrPass(k, x) <=> RowAddrPass(j, x)
  BY <1>1, StraightThrough
<1>4. k.req[x].reqCode \in DmaCodes => j = k
  BY DEF HoldBack, DmaCodes
<1> HIDE DEF j
<1>5. /\ PoolInv(j, x, iss) /\ Waiting(j) = Waiting(k) /\ Live(j, x)
      /\ \A t \in Tags : Live(j, t) <=> Live(k, t)
  BY <1>2, OffTableKept
<1>6. /\ j.req = k.req /\ j.reqQueueType = k.reqQueueType /\ j.nandReqQ = k.nandReqQ
      /\ j.prevBlockingReq = k.prevBlockingReq /\ SameChains(k, j)
  BY <1>2 DEF SameOffTable, SameChains, SameQueues
<1>7. ASSUME Before PROVE Order(j, Waiting(j) \cup {x}, iss, dat, f, sh2, g, age, now)
  <2>1. g \in Flashes /\ DiesInv(k, f, g) /\ BlocksInv(k, Waiting(k), g, sh, age)
        /\ Fresh(k, Waiting(k), x, sh, sh2) /\ \A t \in Waiting(k) : age[t] < age[x]
    BY <1>7 DEF DiesInv
  <2>2. BlocksInv(j, Waiting(k) \cup {x}, g, sh2, age)
    BY <1>1, <1>2, <1>6, <2>1, BlocksHold
  <2>3. DiesInv(j, f, g)
    BY <1>1, <1>6, <2>1, DiesKept
  <2>4. Aged(j, iss, age, now) /\ EntriesInv(j, dat, sh2) /\ IssuingInv(j, iss, sh2)
    BY <1>5, <1>6, <1>7, ChainsOrderKept
  <2> QED BY <1>5, <2>2, <2>3, <2>4 DEF Order
<1>8. Untouched(j, m, x) => Untouched(k, m, x)
  BY <1>6 DEF Untouched
<1> DEFINE Kept == /\ PoolInv(m, NONE, iss) /\ Untouched(j, m, x)
                   /\ Order(j, Waiting(j) \cup {x}, iss, dat, f, sh2, g, age, now) =>
                        \E g2 : Order(m, Waiting(m), iss, dat, f, sh2, g2, age, now)
<1>9. CASE k.prevBlockingReq[x] # NONE
  <2>1. m = PutToBlockedByBufDepReqQ(j, x) /\ j.prevBlockingReq[x] # NONE
    BY <1>6, <1>9 DEF SelectLowLevelReqQ, j
  <2>2. Kept
    BY <1>5, <2>1, ToBuf
  <2> QED BY <1>7, <1>8, <2>2
<1>10. CASE k.prevBlockingReq[x] = NONE /\ k.req[x].reqCode \in DmaCodes
  <2>1. m = PutToNvmeDmaReqQ(j, x) /\ j.prevBlockingReq[x] = NONE /\ j.req[x].reqCode \in DmaCodes
    BY <1>4, <1>10 DEF SelectLowLevelReqQ
  <2>2. Kept
    BY <1>5, <2>1, ToDma
  <2> QED BY <1>7, <1>8, <2>2
<1>11. CASE k.prevBlockingReq[x] = NONE /\ k.req[x].reqCode \in FlashCodes
  <2>1. j.prevBlockingReq[x] = NONE /\ j.req[x].reqCode \in FlashCodes
        /\ k.req[x].reqCode \notin DmaCodes
    BY <1>6, <1>11 DEF FlashCodes, DmaCodes
  <2>2. CASE RowAddrPass(k, x)
    <3>1. m = PutToNandReqQ(LetThrough(j, x, TRUE), x) /\ RowAddrPass(j, x)
      BY <1>3, <1>11, <2>1, <2>2 DEF SelectLowLevelReqQ
    <3>2. Kept
      BY <1>5, <2>1, <3>1, ToNand
    <3> QED BY <1>7, <1>8, <3>2
  <2>3. CASE ~ RowAddrPass(k, x)
    <3>1. m = PutToBlockedByRowAddrDepReqQ(j, x)
      BY <1>11, <2>1, <2>3 DEF SelectLowLevelReqQ, j
    <3>2. Kept
      BY <1>5, <2>1, <3>1, ToRow
    <3> QED BY <1>7, <1>8, <3>2
  <2> QED BY <2>2, <2>3
<1> QED BY <1>1, <1>9, <1>10, <1>11 DEF WellFormed

-----------------------------------------------------------------------------
(* A request enters a free slot and the chain of its entry. *)

Entered(k, x, r) ==
  LET slot == [k EXCEPT !.req[x] = r, !.reqQueueType[x] = "NONE"]
  IN  IF r.entry = NONE THEN slot ELSE UpdateBlockingReq(slot, x)

\* The request it waits for, if any.
Before(k, r) == IF r.entry = NONE THEN NONE ELSE k.blockingReqTail[r.entry]

EntersAs(k, m, x, r) ==
  /\ m.req = [k.req EXCEPT ![x] = r]
  /\ m.reqQueueType = [k.reqQueueType EXCEPT ![x] = "NONE"]
  /\ m.blockingReqTail = IF r.entry = NONE THEN k.blockingReqTail
                         ELSE [k.blockingReqTail EXCEPT ![r.entry] = x]
  /\ m.prevBlockingReq = IF Before(k, r) = NONE THEN k.prevBlockingReq
                         ELSE [k.prevBlockingReq EXCEPT ![x] = Before(k, r)]
  /\ m.nextBlockingReq = IF Before(k, r) = NONE THEN k.nextBlockingReq
                         ELSE [k.nextBlockingReq EXCEPT ![Before(k, r)] = x]
  /\ SameQueues(k, m) /\ SameTable(k, m)

LEMMA EnteredFields ==
  ASSUME NEW k, PoolType(k), NEW x \in Tags, NEW r \in Requests, WellFormed(r),
         NEW m, m = Entered(k, x, r)
  PROVE  PoolType(m) /\ EntersAs(k, m, x, r)
<1> DEFINE rq == [k.req EXCEPT ![x] = r]
           types == [k.reqQueueType EXCEPT ![x] = "NONE"]
           slot == [k EXCEPT !.req = rq, !.reqQueueType = types]
<1>1. rq \in [Tags -> Requests] /\ types \in [Tags -> QueueTypes] /\ rq[x] = r
  BY DEF PoolType, QueueTypes
<1>2. slot = [k EXCEPT !.req[x] = r, !.reqQueueType[x] = "NONE"]
  BY DEF PoolType
<1>3. m = IF r.entry = NONE THEN slot ELSE UpdateBlockingReq(slot, x)
  BY <1>2 DEF Entered
<1> HIDE DEF rq, types
<1>4. /\ PoolType(slot) /\ slot.req = rq /\ slot.reqQueueType = types
      /\ slot.blockingReqTail = k.blockingReqTail
      /\ slot.prevBlockingReq = k.prevBlockingReq /\ slot.nextBlockingReq = k.nextBlockingReq
      /\ SameQueues(k, slot) /\ SameTable(k, slot)
  BY <1>1 DEF PoolType, SameQueues, SameTable
<1> HIDE DEF slot
<1>5. CASE r.entry = NONE
  <2>1. m = slot /\ Before(k, r) = NONE
    BY <1>3, <1>5 DEF Before
  <2> QED BY <1>4, <1>5, <2>1 DEF EntersAs, rq, types
<1>6. CASE r.entry # NONE
  <2> DEFINE e == r.entry
             tails == [k.blockingReqTail EXCEPT ![e] = x]
             last == [slot EXCEPT !.blockingReqTail = tails]
             v == Before(k, r)
  <2>1. e \in Entries /\ v = k.blockingReqTail[e] /\ tails \in [Entries -> Links]
    BY <1>6 DEF Requests, Before, PoolType, Links
  <2>2. /\ slot.req[x].entry = e /\ slot.blockingReqTail[e] = v
        /\ last = [slot EXCEPT !.blockingReqTail[e] = x]
    BY <1>1, <1>4, <2>1 DEF PoolType
  <2>3. m = IF v = NONE THEN last
            ELSE [last EXCEPT !.prevBlockingReq[x] = v, !.nextBlockingReq[v] = x]
    BY <1>3, <1>6, <2>2 DEF UpdateBlockingReq
  <2> HIDE DEF tails, e, v
  <2>4. /\ PoolType(last) /\ last.req = rq /\ last.reqQueueType = types
        /\ last.blockingReqTail = tails
        /\ last.prevBlockingReq = k.prevBlockingReq /\ last.nextBlockingReq = k.nextBlockingReq
        /\ SameQueues(k, last) /\ SameTable(k, last)
    BY <1>4, <2>1 DEF PoolType, SameQueues, SameTable
  <2> HIDE DEF last
  <2>5. CASE v = NONE
    BY <1>6, <2>3, <2>4, <2>5 DEF EntersAs, rq, types, tails, e, v
  <2>6. CASE v # NONE
    <3> DEFINE prevs == [k.prevBlockingReq EXCEPT ![x] = v]
               nexts == [k.nextBlockingReq EXCEPT ![v] = x]
    <3>1. v \in Tags /\ prevs \in [Tags -> Links] /\ nexts \in [Tags -> Links]
      BY <2>1, <2>6 DEF PoolType, Links
    <3>2. m = [last EXCEPT !.prevBlockingReq = prevs, !.nextBlockingReq = nexts]
      BY <2>3, <2>4, <2>6 DEF PoolType
    <3> HIDE DEF prevs, nexts
    <3>3. /\ PoolType(m) /\ m.req = rq /\ m.reqQueueType = types
          /\ m.blockingReqTail = tails
          /\ m.prevBlockingReq = prevs /\ m.nextBlockingReq = nexts
          /\ SameQueues(k, m) /\ SameTable(k, m)
      BY <2>4, <3>1, <3>2 DEF PoolType, SameQueues, SameTable
    <3> QED BY <1>6, <2>6, <3>3 DEF EntersAs, rq, types, tails, prevs, nexts, e, v
  <2> QED BY <2>5, <2>6
<1> QED BY <1>5, <1>6

\* The same, slot by slot.
LEMMA EntersFacts ==
  ASSUME NEW k, NEW x \in Tags, PoolInv(k, NONE, NONE), ~ Live(k, x),
         NEW r \in Requests, WellFormed(r), NEW m, EntersAs(k, m, x, r)
  PROVE  LET v == Before(k, r) IN
         /\ m.req[x] = r /\ m.reqQueueType[x] = "NONE" /\ Live(m, x)
         /\ \A t \in Tags : t # x =>
              /\ m.req[t] = k.req[t] /\ m.reqQueueType[t] = k.reqQueueType[t]
              /\ m.prevBlockingReq[t] = k.prevBlockingReq[t]
              /\ Live(m, t) <=> Live(k, t)
         /\ v \in Links /\ v # x
         /\ v # NONE => Live(k, v) /\ k.req[v].entry = r.entry /\ k.nextBlockingReq[v] = NONE
         /\ m.prevBlockingReq[x] = v
         /\ m.nextBlockingReq[x] = NONE
         /\ \A t \in Tags : t # x =>
              m.nextBlockingReq[t] = IF t = v THEN x ELSE k.nextBlockingReq[t]
         /\ \A e \in Entries :
              m.blockingReqTail[e] = IF e = r.entry THEN x ELSE k.blockingReqTail[e]
         /\ r.entry # NONE => r.entry \in Entries /\ v = k.blockingReqTail[r.entry]
<1> DEFINE v == Before(k, r)
<1>1. PoolType(k) /\ Chained(k)
  BY DEF PoolInv
<1>2. /\ m.req[x] = r /\ m.reqQueueType[x] = "NONE" /\ Live(m, x)
      /\ \A t \in Tags : t # x =>
           m.req[t] = k.req[t] /\ m.reqQueueType[t] = k.reqQueueType[t]
  BY <1>1 DEF EntersAs, PoolType, Live
<1>3. r.entry # NONE => r.entry \in Entries /\ v = k.blockingReqTail[r.entry]
  BY DEF Requests, Before
<1>4. v \in Links /\ v # x
      /\ (v # NONE => Live(k, v) /\ k.req[v].entry = r.entry /\ k.nextBlockingReq[v] = NONE)
  <2>1. CASE r.entry = NONE
    BY <2>1, NoneIsNoTag DEF Before, Links
  <2>2. CASE r.entry # NONE
    <3>1. v \in Links
      BY <1>1, <1>3, <2>2 DEF PoolType
    <3>2. ASSUME v # NONE
          PROVE  Live(k, v) /\ k.req[v].entry = r.entry /\ k.nextBlockingReq[v] = NONE
      <4>1. v \in Tags
        BY <3>1, <3>2 DEF Links
      <4> QED BY <1>1, <1>3, <2>2, <4>1 DEF Chained
    <3> QED BY <3>1, <3>2, NoneIsNoTag
  <2> QED BY <2>1, <2>2
<1>5. k.prevBlockingReq[x] = NONE /\ k.nextBlockingReq[x] = NONE
  BY <1>1 DEF Chained
<1> HIDE DEF v
<1>6. /\ m.prevBlockingReq = IF v = NONE THEN k.prevBlockingReq
                             ELSE [k.prevBlockingReq EXCEPT ![x] = v]
      /\ m.nextBlockingReq = IF v = NONE THEN k.nextBlockingReq
                             ELSE [k.nextBlockingReq EXCEPT ![v] = x]
  BY DEF EntersAs, v
<1>7. /\ m.prevBlockingReq[x] = v
      /\ \A t \in Tags : t # x => m.prevBlockingReq[t] = k.prevBlockingReq[t]
  BY <1>1, <1>5, <1>6 DEF PoolType
<1>8. /\ m.nextBlockingReq[x] = NONE
      /\ \A t \in Tags : t # x =>
           m.nextBlockingReq[t] = IF t = v THEN x ELSE k.nextBlockingReq[t]
  BY <1>1, <1>4, <1>5, <1>6, NoneIsNoTag DEF PoolType, Links
<1>9. \A e \in Entries :
        m.blockingReqTail[e] = IF e = r.entry THEN x ELSE k.blockingReqTail[e]
  BY <1>1, NoneIsNoTag DEF EntersAs, PoolType, Requests
<1>10. \A t \in Tags : t # x => (Live(m, t) <=> Live(k, t))
  BY <1>2 DEF Live
<1> QED BY <1>2, <1>3, <1>4, <1>7, <1>8, <1>9, <1>10 DEF v

LEMMA EnteredChained ==
  ASSUME NEW k, NEW x \in Tags, PoolInv(k, NONE, NONE), ~ Live(k, x),
         NEW r \in Requests, WellFormed(r), NEW m, EntersAs(k, m, x, r)
  PROVE  Chained(m)
<1> DEFINE v == Before(k, r)
<1>1. /\ m.req[x] = r /\ Live(m, x)
      /\ \A t \in Tags : t # x =>
           /\ m.req[t] = k.req[t] /\ m.prevBlockingReq[t] = k.prevBlockingReq[t]
           /\ Live(m, t) <=> Live(k, t)
      /\ v \in Links /\ v # x
      /\ v # NONE => Live(k, v) /\ k.req[v].entry = r.entry /\ k.nextBlockingReq[v] = NONE
      /\ m.prevBlockingReq[x] = v
      /\ m.nextBlockingReq[x] = NONE
      /\ \A t \in Tags : t # x =>
           m.nextBlockingReq[t] = IF t = v THEN x ELSE k.nextBlockingReq[t]
      /\ \A e \in Entries :
           m.blockingReqTail[e] = IF e = r.entry THEN x ELSE k.blockingReqTail[e]
      /\ r.entry # NONE => r.entry \in Entries /\ v = k.blockingReqTail[r.entry]
  BY EntersFacts
<1>2. NONE \notin Tags /\ Chained(k)
  BY NoneIsNoTag DEF PoolInv
<1>3. v # NONE => r.entry # NONE
  BY DEF Before
<1> HIDE DEF v
<1>4. ASSUME NEW t \in Tags, ~ Live(m, t)
      PROVE  m.prevBlockingReq[t] = NONE /\ m.nextBlockingReq[t] = NONE
  <2>1. t # x /\ ~ Live(k, t) /\ t # v
    BY <1>1, <1>2, <1>4
  <2> QED BY <1>1, <1>2, <2>1 DEF Chained
<1>5. ASSUME NEW t \in Tags, NEW u \in Tags, Live(m, t), m.nextBlockingReq[t] = u
      PROVE  /\ Live(m, u) /\ m.prevBlockingReq[u] = t
             /\ m.req[u].entry = m.req[t].entry /\ m.req[t].entry # NONE
  <2>1. t # x
    BY <1>1, <1>2, <1>5
  <2>2. CASE t = v
    <3>1. u = x
      BY <1>1, <1>5, <2>1, <2>2
    <3> QED BY <1>1, <1>2, <1>3, <2>1, <2>2, <3>1
  <2>3. CASE t # v
    <3>1. k.nextBlockingReq[t] = u /\ Live(k, t)
      BY <1>1, <1>5, <2>1, <2>3
    <3>2. /\ Live(k, u) /\ k.prevBlockingReq[u] = t
          /\ k.req[u].entry = k.req[t].entry /\ k.req[t].entry # NONE
      BY <1>2, <3>1 DEF Chained
    <3>3. u # x
      BY <3>2
    <3> QED BY <1>1, <2>1, <3>2, <3>3
  <2> QED BY <2>2, <2>3
<1>6. ASSUME NEW t \in Tags, NEW u \in Tags, Live(m, u), m.prevBlockingReq[u] = t
      PROVE  Live(m, t) /\ m.nextBlockingReq[t] = u
  <2>1. CASE u = x
    <3>1. t = v /\ v # NONE
      BY <1>1, <1>2, <1>6, <2>1
    <3> QED BY <1>1, <2>1, <3>1
  <2>2. CASE u # x
    <3>1. Live(k, u) /\ k.prevBlockingReq[u] = t
      BY <1>1, <1>6, <2>2
    <3>2. Live(k, t) /\ k.nextBlockingReq[t] = u
      BY <1>2, <3>1 DEF Chained
    <3>3. t # x /\ t # v
      BY <1>1, <1>2, <3>2
    <3> QED BY <1>1, <3>2, <3>3
  <2> QED BY <2>1, <2>2
<1>7. ASSUME NEW e \in Entries, NEW t \in Tags, m.blockingReqTail[e] = t
      PROVE  Live(m, t) /\ m.req[t].entry = e /\ m.nextBlockingReq[t] = NONE
  <2>1. CASE e = r.entry
    BY <1>1, <1>7, <2>1
  <2>2. CASE e # r.entry
    <3>1. Live(k, t) /\ k.req[t].entry = e /\ k.nextBlockingReq[t] = NONE
      BY <1>1, <1>2, <1>7, <2>2 DEF Chained
    <3>2. t # x /\ t # v
      BY <1>1, <1>2, <2>2, <3>1
    <3> QED BY <1>1, <3>1, <3>2
  <2> QED BY <2>1, <2>2
<1>8. ASSUME NEW t \in Tags, Live(m, t), m.req[t].entry # NONE
      PROVE  /\ m.nextBlockingReq[t] = NONE => m.blockingReqTail[m.req[t].entry] = t
             /\ m.prevBlockingReq[t] = NONE => m.blockingReqTail[m.req[t].entry] # NONE
  <2>1. CASE t = x
    BY <1>1, <1>2, <1>8, <2>1
  <2>2. CASE t # x
    <3>1. Live(k, t) /\ k.req[t].entry # NONE /\ m.req[t] = k.req[t]
      BY <1>1, <1>8, <2>2
    <3>2. /\ k.nextBlockingReq[t] = NONE => k.blockingReqTail[k.req[t].entry] = t
          /\ k.prevBlockingReq[t] = NONE => k.blockingReqTail[k.req[t].entry] # NONE
      BY <1>2, <3>1 DEF Chained
    <3>3. k.req[t].entry \in Entries
      BY <3>1 DEF PoolInv, PoolType, Requests
    <3>4. CASE k.req[t].entry = r.entry
      <4>1. m.blockingReqTail[m.req[t].entry] = x
        BY <1>1, <3>1, <3>3, <3>4
      <4>2. ASSUME m.nextBlockingReq[t] = NONE PROVE FALSE
        <5>1. t # v /\ k.nextBlockingReq[t] = NONE
          BY <1>1, <1>2, <2>2, <4>2
        <5> QED BY <1>1, <3>1, <3>2, <3>4, <5>1
      <4> QED BY <1>2, <4>1, <4>2
    <3>5. CASE k.req[t].entry # r.entry
      <4>1. m.blockingReqTail[m.req[t].entry] = k.blockingReqTail[k.req[t].entry]
        BY <1>1, <3>1, <3>3, <3>5
      <4>2. t # v
        BY <1>1, <1>2, <3>5
      <4> QED BY <1>1, <2>2, <3>2, <4>1, <4>2
    <3> QED BY <3>4, <3>5
  <2> QED BY <2>1, <2>2
<1>9. ASSUME NEW t \in Tags, NEW u \in Tags,
             Live(m, t), m.prevBlockingReq[t] = NONE,
             Live(m, u), m.prevBlockingReq[u] = NONE,
             m.req[t].entry = m.req[u].entry, m.req[t].entry # NONE
      PROVE  t = u
  <2>1. ASSUME NEW w \in Tags, w # x, Live(m, w), m.prevBlockingReq[w] = NONE,
               m.req[w].entry = r.entry, r.entry # NONE
        PROVE  v # NONE
    <3>1. Live(k, w) /\ k.prevBlockingReq[w] = NONE /\ k.req[w].entry = r.entry
      BY <1>1, <2>1
    <3> QED BY <1>1, <1>2, <2>1, <3>1 DEF Chained
  <2>2. CASE t # x /\ u # x
    <3>1. /\ Live(k, t) /\ k.prevBlockingReq[t] = NONE
          /\ Live(k, u) /\ k.prevBlockingReq[u] = NONE
          /\ k.req[t].entry = k.req[u].entry /\ k.req[t].entry # NONE
      BY <1>1, <1>9, <2>2
    <3> QED BY <1>2, <3>1 DEF Chained
  <2>3. CASE t = x /\ u # x
    BY <1>1, <1>9, <2>1, <2>3
  <2>4. CASE t # x /\ u = x
    BY <1>1, <1>9, <2>1, <2>4
  <2> QED BY <2>2, <2>3, <2>4
<1> QED BY <1>4, <1>5, <1>6, <1>7, <1>8, <1>9 DEF Chained

LEMMA EnteredKeeps ==
  ASSUME NEW k, NEW x \in Tags, PoolInv(k, NONE, NONE), ~ Live(k, x),
         NEW r \in Requests, WellFormed(r), NEW m, m = Entered(k, x, r)
  PROVE  /\ PoolInv(m, x, NONE) /\ EntersAs(k, m, x, r)
         /\ r.reqCode = "READ" => PoolInv(m, NONE, x)
         /\ Waiting(m) = Waiting(k) /\ x \notin Waiting(m)
<1>1. PoolType(m) /\ EntersAs(k, m, x, r)
  BY EnteredFields DEF PoolInv
<1>2. Chained(m)
  BY <1>1, EnteredChained
<1>3. /\ m.req[x] = r /\ m.reqQueueType[x] = "NONE" /\ Live(m, x)
      /\ \A t \in Tags : t # x =>
           /\ m.req[t] = k.req[t] /\ m.reqQueueType[t] = k.reqQueueType[t]
           /\ m.prevBlockingReq[t] = k.prevBlockingReq[t]
           /\ Live(m, t) <=> Live(k, t)
  BY <1>1, EntersFacts
<1>4. NONE \notin Tags /\ Placed(k, NONE) /\ Queued(k, NONE, NONE) /\ SameQueues(k, m)
  BY <1>1, NoneIsNoTag DEF PoolInv, EntersAs
<1>5. /\ ~ In(k.nvmeDmaReqQ, x)
      /\ \A d \in Dies : ~ In(k.nandReqQ[d], x) /\ ~ In(k.rowAddrDepReqQ[d], x)
  BY <1>4 DEF Placed, Live
<1>6. Placed(m, x) /\ Placed(m, NONE)
  <2>1. m.nvmeDmaReqQ = k.nvmeDmaReqQ /\ m.nandReqQ = k.nandReqQ
        /\ m.rowAddrDepReqQ = k.rowAddrDepReqQ
    BY <1>4 DEF SameQueues
  <2>2. ASSUME NEW t \in Tags
        PROVE  /\ In(m.nvmeDmaReqQ, t) <=> t # x /\ m.reqQueueType[t] = "NVME_DMA"
               /\ In(m.nvmeDmaReqQ, t) <=> t # NONE /\ m.reqQueueType[t] = "NVME_DMA"
    BY <1>3, <1>4, <1>5, <2>1 DEF Placed
  <2>3. ASSUME NEW t \in Tags, NEW d \in Dies
        PROVE  /\ In(m.nandReqQ[d], t) <=>
                    t # x /\ m.reqQueueType[t] = "NAND" /\ m.req[t].block[1] = d
               /\ In(m.nandReqQ[d], t) <=>
                    t # NONE /\ m.reqQueueType[t] = "NAND" /\ m.req[t].block[1] = d
               /\ In(m.rowAddrDepReqQ[d], t) <=>
                    /\ t # x /\ m.reqQueueType[t] = "BLOCKED_BY_ROW_ADDR_DEP"
                    /\ m.req[t].block[1] = d
               /\ In(m.rowAddrDepReqQ[d], t) <=>
                    /\ t # NONE /\ m.reqQueueType[t] = "BLOCKED_BY_ROW_ADDR_DEP"
                    /\ m.req[t].block[1] = d
    BY <1>3, <1>4, <1>5, <2>1 DEF Placed
  <2> QED BY <1>4, <2>1, <2>2, <2>3 DEF Placed
<1>7. Queued(m, x, NONE)
  BY <1>3, <1>4 DEF Queued, Links
<1>8. r.reqCode = "READ" => Queued(m, NONE, x)
  BY <1>3, <1>4 DEF Queued, Links
<1>9. Waiting(m) = Waiting(k) /\ x \notin Waiting(m)
  BY <1>3 DEF Waiting, Live
<1> QED BY <1>1, <1>2, <1>6, <1>7, <1>8, <1>9 DEF PoolInv

-----------------------------------------------------------------------------
(* Issuing: request r changes the outcome from sh to sh2. *)

\* For the entries.
Promised(r, sh, sh2) ==
  /\ r.reqCode \in {"RxDMA", "READ"} => sh2.data = [sh.data EXCEPT ![r.entry] = r.want]
  /\ r.reqCode \in {"TxDMA", "WRITE"} => r.want = sh.data[r.entry] /\ sh2.data = sh.data
  /\ r.reqCode = "ERASE" => sh2.data = sh.data

\* For the blocks.
Issuable(k, r, sh, sh2) ==
  /\ r.reqCode \in DmaCodes \cup {"READ"} => sh2.flash = sh.flash /\ sh2.issued = sh.issued
  /\ r.reqCode = "READ" =>
       r.page < sh.issued[r.block] /\ r.want = sh.flash[<<r.block, r.page>>]
  /\ r.reqCode = "WRITE" =>
       /\ r.page = sh.issued[r.block]
       /\ DrainedBeforeReuse /\ sh.issued[r.block] = 0 =>
            OfBlock(k, Waiting(k), "WRITE", r.block) = {}
       /\ sh2.flash = [sh.flash EXCEPT ![<<r.block, r.page>>] = r.want]
       /\ sh2.issued = [sh.issued EXCEPT ![r.block] = r.page + 1]
  /\ r.reqCode = "ERASE" =>
       /\ DrainedBeforeReuse => ~ k.blockedEraseReqFlag[r.block]
       /\ sh.issued[r.block] = PAGES_PER_BLOCK
       /\ sh2.flash = Applied(r, sh.flash)
       /\ sh2.issued = [sh.issued EXCEPT ![r.block] = 0]

LEMMA EnteredEntries ==
  ASSUME NEW k, NEW x \in Tags, PoolInv(k, NONE, NONE), ~ Live(k, x),
         NEW r \in Requests, WellFormed(r), NEW m, EntersAs(k, m, x, r),
         NEW dat, NEW sh, ShadowType(sh), NEW sh2, Promised(r, sh, sh2), EntriesInv(k, dat, sh)
  PROVE  EntriesInv(m, dat, sh2)
<1> DEFINE v == Before(k, r)
<1>1. /\ m.req[x] = r /\ Live(m, x)
      /\ \A t \in Tags : t # x =>
           /\ m.req[t] = k.req[t] /\ m.prevBlockingReq[t] = k.prevBlockingReq[t]
           /\ Live(m, t) <=> Live(k, t)
      /\ v \in Links /\ v # x
      /\ m.prevBlockingReq[x] = v
      /\ \A e \in Entries :
           m.blockingReqTail[e] = IF e = r.entry THEN x ELSE k.blockingReqTail[e]
      /\ r.entry # NONE => r.entry \in Entries /\ v = k.blockingReqTail[r.entry]
  BY EntersFacts
<1>2. NONE \notin Tags /\ NONE \notin Entries /\ Chained(k)
  BY NoneIsNoTag DEF PoolInv
<1> HIDE DEF v
<1>3. /\ dat \in [Entries -> Contents]
      /\ \A t \in Tags : Live(k, t) /\ k.req[t].reqCode \in {"TxDMA", "WRITE"} =>
           /\ k.prevBlockingReq[t] = NONE => dat[k.req[t].entry] = k.req[t].want
           /\ \A u \in Tags : k.prevBlockingReq[t] = u => k.req[u].want = k.req[t].want
      /\ \A e \in Entries :
           /\ k.blockingReqTail[e] = NONE => dat[e] = sh.data[e]
           /\ \A t \in Tags : k.blockingReqTail[e] = t => k.req[t].want = sh.data[e]
  BY DEF EntriesInv
<1>4. ASSUME NEW t \in Tags, Live(m, t), m.req[t].reqCode \in {"TxDMA", "WRITE"}
      PROVE  /\ m.prevBlockingReq[t] = NONE => dat[m.req[t].entry] = m.req[t].want
             /\ \A u \in Tags : m.prevBlockingReq[t] = u => m.req[u].want = m.req[t].want
  <2>1. CASE t = x
    <3>1. r.entry \in Entries /\ r.want = sh.data[r.entry] /\ v = k.blockingReqTail[r.entry]
      <4>1. r.reqCode # "ERASE" /\ r.reqCode \in {"TxDMA", "WRITE"}
        BY <1>1, <1>4, <2>1
      <4> QED BY <1>1, <1>2, <4>1 DEF WellFormed, Promised
    <3> QED BY <1>1, <1>2, <1>3, <2>1, <3>1
  <2>2. CASE t # x
    <3>1. Live(k, t) /\ k.req[t].reqCode \in {"TxDMA", "WRITE"}
      BY <1>1, <1>4, <2>2
    <3>2. \A u \in Tags : k.prevBlockingReq[t] = u => u # x
      BY <1>2, <3>1 DEF Chained
    <3> QED BY <1>1, <1>3, <2>2, <3>1, <3>2
  <2> QED BY <2>1, <2>2
<1>5. ASSUME NEW e \in Entries
      PROVE  /\ m.blockingReqTail[e] = NONE => dat[e] = sh2.data[e]
             /\ \A t \in Tags : m.blockingReqTail[e] = t => m.req[t].want = sh2.data[e]
  <2>0. sh.data \in [Entries -> Contents]
    BY DEF ShadowType
  <2>1. CASE e = r.entry
    <3>1. m.blockingReqTail[e] = x
      BY <1>1, <2>1
    <3>2. r.want = sh2.data[e]
      <4>1. r.reqCode # "ERASE"
        BY <1>2, <2>1 DEF WellFormed
      <4> QED BY <2>0, <2>1, <4>1 DEF WellFormed, Promised, DmaCodes, FlashCodes
    <3> QED BY <1>1, <1>2, <3>1, <3>2
  <2>2. CASE e # r.entry
    <3>1. m.blockingReqTail[e] = k.blockingReqTail[e]
      BY <1>1, <2>2
    <3>2. sh2.data[e] = sh.data[e]
      BY <2>0, <2>2 DEF WellFormed, Promised, DmaCodes, FlashCodes
    <3>3. \A t \in Tags : k.blockingReqTail[e] = t => t # x
      BY <1>2 DEF Chained
    <3> QED BY <1>1, <1>3, <3>1, <3>2, <3>3
  <2> QED BY <2>1, <2>2
<1> QED BY <1>3, <1>4, <1>5 DEF EntriesInv

LEMMA EnteredAged ==
  ASSUME NEW k, NEW x \in Tags, PoolInv(k, NONE, NONE), ~ Live(k, x),
         NEW r \in Requests, WellFormed(r), NEW m, EntersAs(k, m, x, r),
         NEW age, NEW now, Aged(k, NONE, age, now),
         NEW iss \in {NONE, x}
  PROVE  LET age2 == [age EXCEPT ![x] = now]
         IN  /\ Aged(m, iss, age2, now + 1) /\ age2[x] = now
             /\ \A t \in Tags : t # x => age2[t] = age[t]
             /\ \A t \in Tags : Live(k, t) => age2[t] < now
<1> DEFINE v == Before(k, r)
           age2 == [age EXCEPT ![x] = now]
<1>1. /\ Live(m, x)
      /\ \A t \in Tags : t # x =>
           /\ m.prevBlockingReq[t] = k.prevBlockingReq[t]
           /\ Live(m, t) <=> Live(k, t)
      /\ v \in Links /\ v # x /\ (v # NONE => Live(k, v))
      /\ m.prevBlockingReq[x] = v
  BY EntersFacts
<1>2. NONE \notin Tags /\ Chained(k)
  BY NoneIsNoTag DEF PoolInv
<1>3. /\ now \in Nat /\ age \in [Tags -> Nat]
      /\ \A t \in Tags : Live(k, t) => age[t] < now
      /\ \A t, u \in Tags : Live(k, u) /\ k.prevBlockingReq[u] = t => age[t] < age[u]
  BY DEF Aged
<1>4. /\ age2 \in [Tags -> Nat] /\ age2[x] = now
      /\ \A t \in Tags : t # x => age2[t] = age[t]
  BY <1>3
<1> HIDE DEF v, age2
<1>5. \A t \in Tags : t # x /\ Live(m, t) => age2[t] < now
  BY <1>1, <1>3, <1>4
<1>6. ASSUME NEW t \in Tags, NEW u \in Tags, Live(m, u), m.prevBlockingReq[u] = t
      PROVE  age2[t] < age2[u]
  <2>1. CASE u = x
    BY <1>1, <1>2, <1>4, <1>5, <1>6, <2>1
  <2>2. CASE u # x
    <3>1. Live(k, u) /\ k.prevBlockingReq[u] = t
      BY <1>1, <1>6, <2>2
    <3>2. t # x
      BY <1>2, <3>1 DEF Chained
    <3> QED BY <1>3, <1>4, <2>2, <3>1, <3>2
  <2> QED BY <2>1, <2>2
<1>7. \A t \in Tags : Live(m, t) => age2[t] < now + 1
  <2>1. \A t \in Tags : age2[t] \in Nat
    BY <1>4
  <2> QED BY <1>3, <1>4, <1>5, <2>1
<1>8. \A t \in Tags : Live(m, t) /\ iss # NONE /\ t # iss => age2[t] < age2[iss]
  BY <1>4, <1>5
<1>9. now + 1 \in Nat
  BY <1>3
<1>10. Aged(m, iss, age2, now + 1)
  BY <1>4, <1>6, <1>7, <1>8, <1>9 DEF Aged
<1>11. \A t \in Tags : Live(k, t) => age2[t] < now
  BY <1>3, <1>4
<1> QED BY <1>4, <1>10, <1>11 DEF age2

LEMMA EnteredOrder ==
  ASSUME NEW k, NEW x \in Tags, PoolInv(k, NONE, NONE), ~ Live(k, x),
         NEW r \in Requests, WellFormed(r), NEW m, EntersAs(k, m, x, r),
         NEW dat, NEW f, NEW sh, ShadowType(sh), NEW sh2, Promised(r, sh, sh2),
         NEW g, NEW age, NEW now, Order(k, Waiting(k), NONE, dat, f, sh, g, age, now),
         NEW iss \in {NONE, x}
  PROVE  LET age2 == [age EXCEPT ![x] = now]
         IN  /\ Aged(m, iss, age2, now + 1) /\ EntriesInv(m, dat, sh2) /\ DiesInv(m, f, g)
             /\ BlocksInv(m, Waiting(k), g, sh, age2)
             /\ \A t \in Waiting(k) : age2[t] < age2[x]
<1> DEFINE age2 == [age EXCEPT ![x] = now]
           W == Waiting(k)
<1>1. /\ Aged(m, iss, age2, now + 1) /\ age2[x] = now
      /\ \A t \in Tags : t # x => age2[t] = age[t]
      /\ \A t \in Tags : Live(k, t) => age2[t] < now
  BY EnteredAged DEF Order
<1>2. EntriesInv(m, dat, sh2)
  BY EnteredEntries DEF Order
<1>3. \A t \in Tags : t # x => m.req[t] = k.req[t]
  BY EntersFacts
<1>4. /\ PoolType(k) /\ SameTable(k, m) /\ m.nandReqQ = k.nandReqQ
      /\ DiesInv(k, f, g) /\ BlocksInv(k, W, g, sh, age)
  BY DEF PoolInv, EntersAs, SameQueues, Order
<1>5. /\ W \in SUBSET Tags /\ \A t \in W : Live(k, t) /\ t # x /\ WellFormed(k.req[t])
  BY DEF Waiting, Live, PoolInv, Queued
<1>6. \A d \in Dies, t \in Tags : In(k.nandReqQ[d], t) => t # x
  BY DEF PoolInv, Placed, Live
<1>7. DiesInv(m, f, g)
  BY <1>3, <1>4, <1>6, DiesKept
<1> HIDE DEF age2, W
<1>8. BlocksInv(m, W, g, sh, age2)
  <2>1. W \ W = {} /\ \A t \in W \cap W : m.req[t] = k.req[t] /\ age2[t] = age[t]
    BY <1>1, <1>3, <1>5
  <2> QED BY <1>4, <1>5, <2>1, BlocksKept
<1> QED BY <1>1, <1>2, <1>5, <1>7, <1>8 DEF age2, W

LEMMA IsFresh ==
  ASSUME NEW k, NEW x \in Tags, PoolInv(k, NONE, NONE), ~ Live(k, x),
         NEW r \in Requests, WellFormed(r), NEW m, EntersAs(k, m, x, r),
         NEW sh, NEW sh2, Issuable(k, r, sh, sh2), DrainedBeforeReuse,
         r.reqCode = "READ" => ~ k.blockedEraseReqFlag[r.block]
  PROVE  Fresh(m, Waiting(k), x, sh, sh2)
<1>1. m.req[x] = r /\ \A t \in Tags : t # x => m.req[t] = k.req[t]
  BY EntersFacts
<1>2. \A b : OfBlock(m, Waiting(k), "WRITE", b) = OfBlock(k, Waiting(k), "WRITE", b)
  <2>1. \A t \in Waiting(k) : t \in Tags /\ t # x
    BY DEF Waiting, Live
  <2> QED BY <1>1, <2>1 DEF OfBlock
<1>3. m.blockedEraseReqFlag = k.blockedEraseReqFlag
  BY DEF EntersAs, SameTable
<1>4. CASE r.reqCode \in DmaCodes
  BY <1>1, <1>4 DEF Issuable, Fresh, DmaCodes
<1>5. CASE r.reqCode = "READ"
  BY <1>1, <1>3, <1>5 DEF Issuable, Fresh, DmaCodes
<1>6. CASE r.reqCode = "WRITE"
  BY <1>1, <1>2, <1>6 DEF Issuable, Fresh, DmaCodes
<1>7. CASE r.reqCode = "ERASE"
  BY <1>1, <1>3, <1>7 DEF Issuable, Fresh, DmaCodes
<1> QED BY <1>4, <1>5, <1>6, <1>7 DEF WellFormed, FlashCodes

Ordered(k, iss, dat, f, sh) ==
  \E g, age, now : Order(k, Waiting(k), iss, dat, f, sh, g, age, now)

\* The inductive invariant.
DepInv(k, iss, dat, f, sh) ==
  /\ PoolInv(k, NONE, iss)
  /\ ShadowType(sh)
  /\ DrainedBeforeReuse => Ordered(k, iss, dat, f, sh)

LEMMA IssueKeeps ==
  ASSUME DepInv(pool, issuing, data, flash, shadow), NEW x \in Tags,
         NEW code, NEW e, NEW b, NEW p, NEW w, Issue(x, code, e, b, p, w),
         NEW r \in Requests, r = Request(code, e, b, p, w), WellFormed(r),
         ShadowType(shadow'), Promised(r, shadow, shadow'), Issuable(pool, r, shadow, shadow')
  PROVE  DepInv(pool, issuing, data, flash, shadow)'
<1> DEFINE m == Entered(pool, x, r)
<1>1. /\ issuing = NONE /\ ~ Live(pool, x) /\ PoolInv(pool, NONE, NONE) /\ ShadowType(shadow)
      /\ data' = data /\ flash' = flash
  BY DEF DepInv, Issue, IsFree, Live
<1>2. r.reqCode = code /\ r.entry = e /\ r.block = b /\ r.page = p /\ r.want = w
  BY DEF Request
<1>3. IF WaitsForErase(code, b) THEN pool' = m /\ issuing' = x
      ELSE pool' = SelectLowLevelReqQ(m, x) /\ issuing' = issuing
  <2>1. m = LET k == [pool EXCEPT !.req[x] = Request(code, e, b, p, w),
                                  !.reqQueueType[x] = "NONE"]
            IN  IF e = NONE THEN k ELSE UpdateBlockingReq(k, x)
    BY <1>2 DEF Entered
  <2> HIDE DEF m
  <2> QED BY <2>1 DEF Issue
<1>4. /\ PoolInv(m, x, NONE) /\ EntersAs(pool, m, x, r)
      /\ r.reqCode = "READ" => PoolInv(m, NONE, x)
      /\ Waiting(m) = Waiting(pool) /\ x \notin Waiting(m)
  BY <1>1, EnteredKeeps
<1> HIDE DEF m
<1>5. Live(m, x) /\ m.req[x] = r
  BY <1>1, <1>4, EntersFacts
<1>6. CASE WaitsForErase(code, b)
  <2>1. pool' = m /\ issuing' = x /\ r.reqCode = "READ"
    BY <1>2, <1>3, <1>6 DEF WaitsForErase
  <2>2. ASSUME DrainedBeforeReuse PROVE Ordered(m, x, data, flash, shadow')
    <3>1. PICK g, age, now :
            Order(pool, Waiting(pool), NONE, data, flash, shadow, g, age, now)
      BY <1>1, <2>2 DEF DepInv, Ordered
    <3> DEFINE age2 == [age EXCEPT ![x] = now]
               W == Waiting(pool)
               s == shadow'
    <3>2. /\ Aged(m, x, age2, now + 1) /\ EntriesInv(m, data, s) /\ DiesInv(m, flash, g)
          /\ BlocksInv(m, W, g, shadow, age2)
      BY <1>1, <1>4, <3>1, EnteredOrder
    <3>3. s.flash = shadow.flash /\ s.issued = shadow.issued
          /\ r.page < shadow.issued[r.block] /\ r.want = shadow.flash[<<r.block, r.page>>]
      BY <2>1 DEF Issuable
    <3>4. W \in SUBSET Tags /\ \A t \in W : WellFormed(m.req[t])
      BY <1>4, <1>5, HeldWell
    <3>5. IssuingInv(m, x, s)
      BY <1>5, <3>3 DEF IssuingInv
    <3> HIDE DEF age2, W, s
    <3>6. W \ W = {} /\ W \cap W = W /\ SameTable(m, m)
      BY DEF SameTable
    <3>7. BlocksInv(m, W, g, s, age2)
      BY <3>2, <3>3, <3>4, <3>6, BlocksKept
    <3>8. Order(m, W, x, data, flash, s, g, age2, now + 1)
      BY <3>2, <3>5, <3>7 DEF Order
    <3> QED BY <1>4, <3>8 DEF Ordered, W, s
  <2> QED BY <1>1, <1>4, <2>1, <2>2 DEF DepInv
<1>7. CASE ~ WaitsForErase(code, b)
  <2> DEFINE n == SelectLowLevelReqQ(m, x)
  <2>1. pool' = n /\ issuing' = NONE
    BY <1>1, <1>3, <1>7
  <2> HIDE DEF n
  <2>2. PoolInv(n, NONE, NONE)
    BY <1>1, <1>4, <1>5, SelectedKeeps DEF n
  <2>3. ASSUME DrainedBeforeReuse PROVE Ordered(n, NONE, data, flash, shadow')
    <3>1. PICK g, age, now :
            Order(pool, Waiting(pool), NONE, data, flash, shadow, g, age, now)
      BY <1>1, <2>3 DEF DepInv, Ordered
    <3> DEFINE age2 == [age EXCEPT ![x] = now]
               s == shadow'
    <3>2. /\ Aged(m, NONE, age2, now + 1) /\ EntriesInv(m, data, s) /\ DiesInv(m, flash, g)
          /\ BlocksInv(m, Waiting(m), g, shadow, age2)
          /\ \A t \in Waiting(m) : age2[t] < age2[x]
      BY <1>1, <1>4, <3>1, EnteredOrder
    <3>3. r.reqCode = "READ" => ~ pool.blockedEraseReqFlag[r.block]
      BY <1>2, <1>7 DEF WaitsForErase
    <3>4. Fresh(m, Waiting(m), x, shadow, s)
      BY <1>1, <1>4, <2>3, <3>3, IsFresh
    <3>5. IssuingInv(m, NONE, s)
      BY NoneIsNoTag DEF IssuingInv
    <3>6. ShadowType(s)
      OBVIOUS
    <3> HIDE DEF age2, s
    <3>7. \E g2 : Order(n, Waiting(n), NONE, data, flash, s, g2, age2, now + 1)
      BY <1>1, <1>4, <1>5, <3>2, <3>4, <3>5, <3>6, SelectedKeeps DEF n
    <3> QED BY <3>7 DEF Ordered, s
  <2> QED BY <1>1, <2>1, <2>2, <2>3 DEF DepInv
<1> QED BY <1>6, <1>7

LEMMA IssueRxKeeps ==
  ASSUME DepInv(pool, issuing, data, flash, shadow), NEW x \in Tags, NEW e \in Entries,
         NEW v \in Values, IssueRx(x, e, v)
  PROVE  DepInv(pool, issuing, data, flash, shadow)'
<1> DEFINE r == Request("RxDMA", e, NONE, NONE, v)
<1>1. /\ r.reqCode = "RxDMA" /\ r.entry = e /\ r.block = NONE /\ r.page = NONE /\ r.want = v
      /\ r \in Requests
  BY DEF Request, Requests, DmaCodes, Contents
<1>2. WellFormed(r)
  <2> HIDE DEF r
  <2> QED BY <1>1 DEF WellFormed, DmaCodes, FlashCodes, Contents
<1>3. /\ shadow' = [shadow EXCEPT !.data[e] = v] /\ ShadowType(shadow)
      /\ Issue(x, "RxDMA", e, NONE, NONE, v)
  BY DEF IssueRx, DepInv
<1>4. /\ shadow'.data = [shadow.data EXCEPT ![e] = v] /\ shadow'.flash = shadow.flash
      /\ shadow'.issued = shadow.issued /\ ShadowType(shadow')
  BY <1>3 DEF ShadowType, Contents
<1> HIDE DEF r
<1>5. Promised(r, shadow, shadow') /\ Issuable(pool, r, shadow, shadow')
  BY <1>1, <1>4 DEF Promised, Issuable
<1> QED BY <1>1, <1>2, <1>3, <1>4, <1>5, IssueKeeps DEF r

LEMMA IssueTxKeeps ==
  ASSUME DepInv(pool, issuing, data, flash, shadow), NEW x \in Tags, NEW e \in Entries,
         IssueTx(x, e)
  PROVE  DepInv(pool, issuing, data, flash, shadow)'
<1> DEFINE w == shadow.data[e]
           r == Request("TxDMA", e, NONE, NONE, w)
<1>1. /\ shadow' = shadow /\ ShadowType(shadow) /\ ShadowType(shadow')
      /\ Issue(x, "TxDMA", e, NONE, NONE, w)
  BY DEF IssueTx, DepInv
<1>2. w \in Contents
  BY <1>1 DEF ShadowType
<1>3. /\ r.reqCode = "TxDMA" /\ r.entry = e /\ r.block = NONE /\ r.page = NONE /\ r.want = w
      /\ r \in Requests
  BY <1>2 DEF Request, Requests, DmaCodes
<1>4. WellFormed(r)
  <2> HIDE DEF r
  <2> QED BY <1>2, <1>3 DEF WellFormed, DmaCodes, FlashCodes
<1> HIDE DEF r
<1>5. Promised(r, shadow, shadow') /\ Issuable(pool, r, shadow, shadow')
  BY <1>1, <1>3 DEF Promised, Issuable
<1> QED BY <1>1, <1>3, <1>4, <1>5, IssueKeeps DEF r

LEMMA IssueReadKeeps ==
  ASSUME DepInv(pool, issuing, data, flash, shadow), NEW x \in Tags, NEW e \in Entries,
         NEW b \in DieBlocks, NEW p \in Pages, IssueRead(x, e, b, p)
  PROVE  DepInv(pool, issuing, data, flash, shadow)'
<1> DEFINE w == shadow.flash[<<b, p>>]
           r == Request("READ", e, b, p, w)
<1>1. /\ shadow' = [shadow EXCEPT !.data[e] = w] /\ ShadowType(shadow)
      /\ Issue(x, "READ", e, b, p, w) /\ p < shadow.issued[b]
  BY DEF IssueRead, DepInv
<1>2. w \in Contents
  BY <1>1 DEF ShadowType, Flashes, FlashPages
<1>3. /\ r.reqCode = "READ" /\ r.entry = e /\ r.block = b /\ r.page = p /\ r.want = w
      /\ r \in Requests
  BY <1>2 DEF Request, Requests, FlashCodes
<1>4. WellFormed(r)
  <2> HIDE DEF r
  <2> QED BY <1>2, <1>3 DEF WellFormed, DmaCodes, FlashCodes
<1>5. /\ shadow'.data = [shadow.data EXCEPT ![e] = w] /\ shadow'.flash = shadow.flash
      /\ shadow'.issued = shadow.issued /\ ShadowType(shadow')
  <2> HIDE DEF w
  <2> QED BY <1>1, <1>2 DEF ShadowType
<1> HIDE DEF r
<1>6. Promised(r, shadow, shadow')
  BY <1>3, <1>5 DEF Promised
<1>7. Issuable(pool, r, shadow, shadow')
  BY <1>1, <1>3, <1>5 DEF Issuable
<1> QED BY <1>1, <1>3, <1>4, <1>5, <1>6, <1>7, IssueKeeps DEF r

LEMMA IssueWriteKeeps ==
  ASSUME DepInv(pool, issuing, data, flash, shadow), NEW x \in Tags, NEW e \in Entries,
         NEW b \in DieBlocks, IssueWrite(x, e, b)
  PROVE  DepInv(pool, issuing, data, flash, shadow)'
<1> DEFINE w == shadow.data[e]
           p == shadow.issued[b]
           r == Request("WRITE", e, b, p, w)
<1>1. /\ shadow' = [shadow EXCEPT !.flash[<<b, p>>] = w, !.issued[b] = p + 1]
      /\ ShadowType(shadow)
      /\ Issue(x, "WRITE", e, b, p, w) /\ p < PAGES_PER_BLOCK /\ Drained(b)
  BY DEF IssueWrite, DepInv
<1>2. /\ w \in Contents /\ p \in 0 .. PAGES_PER_BLOCK
      /\ shadow.flash \in Flashes /\ shadow.issued \in [DieBlocks -> 0 .. PAGES_PER_BLOCK]
  BY <1>1 DEF ShadowType
<1>3. p \in Pages /\ p + 1 \in 0 .. PAGES_PER_BLOCK
  BY <1>1, <1>2, PagesAssumption DEF Pages
<1>4. /\ r.reqCode = "WRITE" /\ r.entry = e /\ r.block = b /\ r.page = p /\ r.want = w
      /\ r \in Requests
  BY <1>2, <1>3 DEF Request, Requests, FlashCodes
<1>5. WellFormed(r)
  <2> HIDE DEF r
  <2> QED BY <1>2, <1>3, <1>4 DEF WellFormed, DmaCodes, FlashCodes
<1> DEFINE fl == [shadow.flash EXCEPT ![<<b, p>>] = w]
           is == [shadow.issued EXCEPT ![b] = p + 1]
<1>6. fl \in Flashes /\ is \in [DieBlocks -> 0 .. PAGES_PER_BLOCK]
  BY <1>2, <1>3 DEF Flashes
<1>7. shadow' = [shadow EXCEPT !.flash = fl, !.issued = is]
  BY <1>1
<1> HIDE DEF fl, is, w, p
<1>8. /\ shadow'.data = shadow.data /\ shadow'.flash = fl /\ shadow'.issued = is
      /\ ShadowType(shadow')
  BY <1>1, <1>6, <1>7 DEF ShadowType
<1> HIDE DEF r
<1>9. DrainedBeforeReuse /\ p = 0 => OfBlock(pool, Waiting(pool), "WRITE", b) = {}
  BY <1>1 DEF Drained, Held, OfBlock, Waiting, p
<1>10. Promised(r, shadow, shadow')
  BY <1>4, <1>8 DEF Promised, w
<1>11. Issuable(pool, r, shadow, shadow')
  BY <1>4, <1>8, <1>9 DEF Issuable, fl, is, p, DmaCodes
<1> QED BY <1>1, <1>4, <1>5, <1>8, <1>10, <1>11, IssueKeeps DEF r

LEMMA IssueEraseKeeps ==
  ASSUME DepInv(pool, issuing, data, flash, shadow), NEW x \in Tags,
         NEW b \in DieBlocks, IssueErase(x, b)
  PROVE  DepInv(pool, issuing, data, flash, shadow)'
<1> DEFINE r == Request("ERASE", NONE, b, NONE, NONE)
           fl == [bp \in DieBlocks \X Pages |-> IF bp[1] = b THEN ERASED ELSE shadow.flash[bp]]
           is == [shadow.issued EXCEPT ![b] = 0]
<1>1. /\ ShadowType(shadow) /\ shadow.issued[b] = PAGES_PER_BLOCK
      /\ Issue(x, "ERASE", NONE, b, NONE, NONE)
      /\ DrainedBeforeReuse => ~ pool.blockedEraseReqFlag[b]
  BY DEF IssueErase, DepInv
<1>2. shadow' = [shadow EXCEPT !.flash = fl, !.issued = is]
  BY <1>1 DEF IssueErase, ShadowType
<1>3. /\ r.reqCode = "ERASE" /\ r.entry = NONE /\ r.block = b /\ r.page = NONE
      /\ r.want = NONE /\ r \in Requests
  BY DEF Request, Requests, FlashCodes
<1>4. WellFormed(r)
  <2> HIDE DEF r
  <2> QED BY <1>3 DEF WellFormed, DmaCodes, FlashCodes
<1> HIDE DEF r
<1>5. fl = Applied(r, shadow.flash) /\ fl \in Flashes
  <2>1. fl = Applied(r, shadow.flash)
    BY <1>3 DEF Applied, FlashPages
  <2>2. shadow.flash \in Flashes /\ r.reqCode \in FlashCodes
    BY <1>1, <1>3 DEF ShadowType, FlashCodes
  <2> HIDE DEF fl
  <2> QED BY <1>4, <2>1, <2>2, AppliedFacts
<1>6. is \in [DieBlocks -> 0 .. PAGES_PER_BLOCK]
  BY <1>1, PagesAssumption DEF ShadowType
<1> HIDE DEF fl, is
<1>7. /\ shadow'.data = shadow.data /\ shadow'.flash = fl /\ shadow'.issued = is
      /\ ShadowType(shadow')
  BY <1>1, <1>2, <1>5, <1>6 DEF ShadowType
<1>8. Promised(r, shadow, shadow')
  BY <1>3, <1>7 DEF Promised
<1>9. Issuable(pool, r, shadow, shadow')
  BY <1>1, <1>3, <1>5, <1>7 DEF Issuable, is, DmaCodes
<1> QED BY <1>1, <1>3, <1>4, <1>7, <1>8, <1>9, IssueKeeps DEF r

LEMMA EndSyncKeeps ==
  ASSUME DepInv(pool, issuing, data, flash, shadow), EndSyncReleaseEraseReq
  PROVE  DepInv(pool, issuing, data, flash, shadow)'
<1> DEFINE n == SelectLowLevelReqQ(pool, issuing)
<1>1. /\ issuing # NONE /\ ~ pool.blockedEraseReqFlag[pool.req[issuing].block]
      /\ pool' = n /\ issuing' = NONE /\ data' = data /\ flash' = flash /\ shadow' = shadow
  BY DEF EndSyncReleaseEraseReq
<1>2. /\ PoolInv(pool, NONE, issuing) /\ ShadowType(shadow) /\ issuing \in Tags
      /\ pool.reqQueueType[issuing] = "NONE" /\ pool.req[issuing].reqCode = "READ"
  BY <1>1, NoneIsNoTag DEF DepInv, PoolInv, Queued, Links
<1>3. PoolInv(pool, issuing, NONE)
  <2>1. Placed(pool, issuing)
    BY <1>2, NoneIsNoTag DEF PoolInv, Placed
  <2>2. Queued(pool, issuing, NONE)
    BY <1>2, NoneIsNoTag DEF PoolInv, Queued, Links
  <2> QED BY <1>2, <2>1, <2>2 DEF PoolInv
<1>4. Live(pool, issuing) /\ issuing \notin Waiting(pool)
  BY <1>2 DEF Live, Waiting
<1> HIDE DEF n
<1>5. PoolInv(n, NONE, NONE)
  BY <1>2, <1>3, <1>4, SelectedKeeps DEF n
<1>6. ASSUME DrainedBeforeReuse PROVE Ordered(n, NONE, data, flash, shadow)
  <2>1. PICK g, age, now :
          Order(pool, Waiting(pool), issuing, data, flash, shadow, g, age, now)
    BY <1>6 DEF DepInv, Ordered
  <2>2. Fresh(pool, Waiting(pool), issuing, shadow, shadow)
    BY <1>1, <1>2, <2>1 DEF Order, IssuingInv, Fresh
  <2>3. \A t \in Waiting(pool) : age[t] < age[issuing]
    BY <1>1, <1>4, <2>1 DEF Order, Aged, Waiting, Live
  <2>4. Aged(pool, NONE, age, now) /\ IssuingInv(pool, NONE, shadow)
    BY <2>1, NoneIsNoTag DEF Order, Aged, IssuingInv
  <2>5. EntriesInv(pool, data, shadow) /\ DiesInv(pool, flash, g)
        /\ BlocksInv(pool, Waiting(pool), g, shadow, age)
    BY <2>1 DEF Order
  <2>6. \E g2 : Order(n, Waiting(n), NONE, data, flash, shadow, g2, age, now)
    BY <1>2, <1>3, <1>4, <2>2, <2>3, <2>4, <2>5, SelectedKeeps DEF n
  <2> QED BY <2>6 DEF Ordered
<1> QED BY <1>1, <1>2, <1>5, <1>6 DEF DepInv

-----------------------------------------------------------------------------
(* A finished request leaves its slot and its chain. *)

Freed(k, x) ==
  LET next == k.nextBlockingReq[x]
      e    == k.req[x].entry
      free == [k EXCEPT !.reqQueueType[x] = "FREE", !.req[x] = NoRequest]
      off  == IF e # NONE /\ k.blockingReqTail[e] = x
              THEN [free EXCEPT !.blockingReqTail[e] = NONE] ELSE free
  IN  IF next = NONE THEN off
      ELSE [off EXCEPT !.nextBlockingReq[x] = NONE, !.prevBlockingReq[next] = NONE]

LeavesAs(k, m, x) ==
  LET next == k.nextBlockingReq[x]
      e    == k.req[x].entry
  IN  /\ m.req = [k.req EXCEPT ![x] = NoRequest]
      /\ m.reqQueueType = [k.reqQueueType EXCEPT ![x] = "FREE"]
      /\ m.blockingReqTail = IF e # NONE /\ k.blockingReqTail[e] = x
                             THEN [k.blockingReqTail EXCEPT ![e] = NONE]
                             ELSE k.blockingReqTail
      /\ m.nextBlockingReq = IF next = NONE THEN k.nextBlockingReq
                             ELSE [k.nextBlockingReq EXCEPT ![x] = NONE]
      /\ m.prevBlockingReq = IF next = NONE THEN k.prevBlockingReq
                             ELSE [k.prevBlockingReq EXCEPT ![next] = NONE]
      /\ SameQueues(k, m) /\ SameTable(k, m)

LEMMA FreedFields ==
  ASSUME NEW k, PoolType(k), NEW x \in Tags, NEW m, m = Freed(k, x)
  PROVE  PoolType(m) /\ LeavesAs(k, m, x)
<1> DEFINE rq == [k.req EXCEPT ![x] = NoRequest]
           types == [k.reqQueueType EXCEPT ![x] = "FREE"]
           free == [k EXCEPT !.reqQueueType = types, !.req = rq]
           next == k.nextBlockingReq[x]
           e == k.req[x].entry
           tails == [k.blockingReqTail EXCEPT ![e] = NONE]
           off == IF e # NONE /\ k.blockingReqTail[e] = x
                  THEN [free EXCEPT !.blockingReqTail = tails] ELSE free
<1>1. rq \in [Tags -> Requests] /\ types \in [Tags -> QueueTypes]
  <2>1. NoRequest \in Requests
    BY DEF NoRequest, Request, Requests
  <2> QED BY <2>1 DEF PoolType, QueueTypes
<1>2. next \in Links /\ e \in Entries \cup {NONE} /\ k.blockingReqTail \in [Entries -> Links]
  BY DEF PoolType, Requests
<1>3. tails \in [Entries -> Links]
  BY <1>2 DEF Links
<1>4. free = [k EXCEPT !.reqQueueType[x] = "FREE", !.req[x] = NoRequest]
  BY DEF PoolType
<1> HIDE DEF rq, types
<1>5. /\ PoolType(free) /\ free.req = rq /\ free.reqQueueType = types
      /\ free.blockingReqTail = k.blockingReqTail
      /\ free.prevBlockingReq = k.prevBlockingReq /\ free.nextBlockingReq = k.nextBlockingReq
      /\ SameQueues(k, free) /\ SameTable(k, free)
  BY <1>1 DEF PoolType, SameQueues, SameTable
<1> HIDE DEF free
<1>6. [free EXCEPT !.blockingReqTail[e] = NONE] = [free EXCEPT !.blockingReqTail = tails]
  BY <1>5 DEF PoolType
<1>7. m = IF next = NONE THEN off
          ELSE [off EXCEPT !.nextBlockingReq[x] = NONE, !.prevBlockingReq[next] = NONE]
  BY <1>4, <1>6 DEF Freed
<1> HIDE DEF next, e, tails
<1>8. /\ PoolType(off) /\ off.req = rq /\ off.reqQueueType = types
      /\ off.blockingReqTail = IF e # NONE /\ k.blockingReqTail[e] = x THEN tails
                               ELSE k.blockingReqTail
      /\ off.prevBlockingReq = k.prevBlockingReq /\ off.nextBlockingReq = k.nextBlockingReq
      /\ SameQueues(k, off) /\ SameTable(k, off)
  BY <1>3, <1>5 DEF PoolType, SameQueues, SameTable
<1> HIDE DEF off
<1>9. CASE next = NONE
  BY <1>7, <1>8, <1>9 DEF LeavesAs, rq, types, tails, next, e
<1>10. CASE next # NONE
  <2> DEFINE nexts == [k.nextBlockingReq EXCEPT ![x] = NONE]
             prevs == [k.prevBlockingReq EXCEPT ![next] = NONE]
  <2>1. nexts \in [Tags -> Links] /\ prevs \in [Tags -> Links]
    BY DEF PoolType, Links
  <2>2. m = [off EXCEPT !.nextBlockingReq = nexts, !.prevBlockingReq = prevs]
    BY <1>7, <1>8, <1>10 DEF PoolType
  <2> HIDE DEF nexts, prevs
  <2>3. /\ PoolType(m) /\ m.req = rq /\ m.reqQueueType = types
        /\ m.blockingReqTail = off.blockingReqTail
        /\ m.prevBlockingReq = prevs /\ m.nextBlockingReq = nexts
        /\ SameQueues(k, m) /\ SameTable(k, m)
    BY <1>8, <2>1, <2>2 DEF PoolType, SameQueues, SameTable
  <2> QED BY <1>8, <1>10, <2>3 DEF LeavesAs, rq, types, tails, nexts, prevs, next, e
<1> QED BY <1>9, <1>10

\* The same, slot by slot.
LEMMA LeavesFacts ==
  ASSUME NEW k, NEW x \in Tags, NEW iss, PoolInv(k, x, iss), Live(k, x),
         k.prevBlockingReq[x] = NONE, NEW m, LeavesAs(k, m, x)
  PROVE  LET n == k.nextBlockingReq[x] IN
         /\ ~ Live(m, x) /\ m.reqQueueType[x] = "FREE"
         /\ \A t \in Tags : t # x =>
              /\ m.req[t] = k.req[t] /\ m.reqQueueType[t] = k.reqQueueType[t]
              /\ m.nextBlockingReq[t] = k.nextBlockingReq[t]
              /\ Live(m, t) <=> Live(k, t)
         /\ n \in Links /\ n # x
         /\ n # NONE => /\ Live(k, n) /\ k.prevBlockingReq[n] = x
                        /\ k.req[n].entry = k.req[x].entry /\ k.req[x].entry # NONE
         /\ m.nextBlockingReq[x] = NONE /\ m.prevBlockingReq[x] = NONE
         /\ \A t \in Tags :
              m.prevBlockingReq[t] = IF t = n THEN NONE ELSE k.prevBlockingReq[t]
         /\ \A e \in Entries :
              m.blockingReqTail[e] = IF k.blockingReqTail[e] = x THEN NONE
                                     ELSE k.blockingReqTail[e]
<1> DEFINE n == k.nextBlockingReq[x]
<1>1. PoolType(k) /\ Chained(k) /\ NONE \notin Tags
  BY NoneIsNoTag DEF PoolInv
<1>2. /\ m.reqQueueType[x] = "FREE"
      /\ \A t \in Tags : t # x =>
           m.req[t] = k.req[t] /\ m.reqQueueType[t] = k.reqQueueType[t]
  BY <1>1 DEF LeavesAs, PoolType
<1>3. ~ Live(m, x) /\ \A t \in Tags : t # x => (Live(m, t) <=> Live(k, t))
  BY <1>2 DEF Live
<1>4. n \in Links
  BY <1>1 DEF PoolType
<1>5. n # NONE => /\ Live(k, n) /\ k.prevBlockingReq[n] = x
                  /\ k.req[n].entry = k.req[x].entry /\ k.req[x].entry # NONE
  BY <1>1, <1>4 DEF Chained, Links
<1>6. n # x
  BY <1>1, <1>5
<1> HIDE DEF n
<1>7. /\ m.nextBlockingReq = IF n = NONE THEN k.nextBlockingReq
                             ELSE [k.nextBlockingReq EXCEPT ![x] = NONE]
      /\ m.prevBlockingReq = IF n = NONE THEN k.prevBlockingReq
                             ELSE [k.prevBlockingReq EXCEPT ![n] = NONE]
  BY DEF LeavesAs, n
<1>8. /\ m.nextBlockingReq[x] = NONE
      /\ \A t \in Tags : t # x => m.nextBlockingReq[t] = k.nextBlockingReq[t]
  BY <1>1, <1>7 DEF PoolType, n
<1>9. \A t \in Tags : m.prevBlockingReq[t] = IF t = n THEN NONE ELSE k.prevBlockingReq[t]
  BY <1>1, <1>7 DEF PoolType
<1>10. \A e \in Entries : k.blockingReqTail[e] = x => k.req[x].entry = e
  BY <1>1 DEF Chained
<1>11. \A e \in Entries :
         m.blockingReqTail[e] = IF k.blockingReqTail[e] = x THEN NONE
                                ELSE k.blockingReqTail[e]
  BY <1>1, <1>10, NoneIsNoTag DEF LeavesAs, PoolType
<1>12. m.prevBlockingReq[x] = NONE
  BY <1>6, <1>9
<1> QED BY <1>2, <1>3, <1>4, <1>5, <1>6, <1>8, <1>9, <1>11, <1>12 DEF n

LEMMA LeftChained ==
  ASSUME NEW k, NEW x \in Tags, NEW iss, PoolInv(k, x, iss), Live(k, x),
         k.prevBlockingReq[x] = NONE, NEW m, LeavesAs(k, m, x)
  PROVE  Chained(m)
<1> DEFINE n == k.nextBlockingReq[x]
<1>1. /\ ~ Live(m, x)
      /\ \A t \in Tags : t # x =>
           /\ m.req[t] = k.req[t] /\ m.nextBlockingReq[t] = k.nextBlockingReq[t]
           /\ Live(m, t) <=> Live(k, t)
      /\ n \in Links /\ n # x
      /\ n # NONE => /\ Live(k, n) /\ k.prevBlockingReq[n] = x
                     /\ k.req[n].entry = k.req[x].entry /\ k.req[x].entry # NONE
      /\ m.nextBlockingReq[x] = NONE /\ m.prevBlockingReq[x] = NONE
      /\ \A t \in Tags : m.prevBlockingReq[t] = IF t = n THEN NONE ELSE k.prevBlockingReq[t]
      /\ \A e \in Entries :
           m.blockingReqTail[e] = IF k.blockingReqTail[e] = x THEN NONE
                                  ELSE k.blockingReqTail[e]
  BY LeavesFacts
<1>2. NONE \notin Tags /\ Chained(k)
  BY NoneIsNoTag DEF PoolInv
<1>3. k.nextBlockingReq[x] = n
  OBVIOUS
<1> HIDE DEF n
<1>4. ASSUME NEW t \in Tags, ~ Live(m, t)
      PROVE  m.prevBlockingReq[t] = NONE /\ m.nextBlockingReq[t] = NONE
  BY <1>1, <1>2, <1>4 DEF Chained
<1>5. ASSUME NEW t \in Tags, NEW u \in Tags, Live(m, t), m.nextBlockingReq[t] = u
      PROVE  /\ Live(m, u) /\ m.prevBlockingReq[u] = t
             /\ m.req[u].entry = m.req[t].entry /\ m.req[t].entry # NONE
  <2>1. t # x /\ Live(k, t) /\ k.nextBlockingReq[t] = u
    BY <1>1, <1>5
  <2>2. /\ Live(k, u) /\ k.prevBlockingReq[u] = t
        /\ k.req[u].entry = k.req[t].entry /\ k.req[t].entry # NONE
    BY <1>2, <2>1 DEF Chained
  <2>3. u # x /\ u # n
    BY <1>1, <1>2, <2>1, <2>2
  <2> QED BY <1>1, <2>1, <2>2, <2>3
<1>6. ASSUME NEW t \in Tags, NEW u \in Tags, Live(m, u), m.prevBlockingReq[u] = t
      PROVE  Live(m, t) /\ m.nextBlockingReq[t] = u
  <2>1. u # x /\ u # n /\ Live(k, u) /\ k.prevBlockingReq[u] = t
    BY <1>1, <1>2, <1>6
  <2>2. Live(k, t) /\ k.nextBlockingReq[t] = u
    BY <1>2, <2>1 DEF Chained
  <2>3. t # x
    BY <1>3, <2>1, <2>2
  <2> QED BY <1>1, <2>2, <2>3
<1>7. ASSUME NEW e \in Entries, NEW t \in Tags, m.blockingReqTail[e] = t
      PROVE  Live(m, t) /\ m.req[t].entry = e /\ m.nextBlockingReq[t] = NONE
  <2>1. k.blockingReqTail[e] = t /\ t # x
    BY <1>1, <1>2, <1>7
  <2>2. Live(k, t) /\ k.req[t].entry = e /\ k.nextBlockingReq[t] = NONE
    BY <1>2, <2>1 DEF Chained
  <2> QED BY <1>1, <2>1, <2>2
<1>8. ASSUME NEW t \in Tags, Live(m, t), m.req[t].entry # NONE
      PROVE  /\ m.nextBlockingReq[t] = NONE => m.blockingReqTail[m.req[t].entry] = t
             /\ m.prevBlockingReq[t] = NONE => m.blockingReqTail[m.req[t].entry] # NONE
  <2> DEFINE e == k.req[t].entry
  <2>1. t # x /\ Live(k, t) /\ m.req[t] = k.req[t] /\ e # NONE
    BY <1>1, <1>8
  <2>2. e \in Entries
    BY <2>1 DEF PoolInv, PoolType, Requests
  <2>3. /\ k.nextBlockingReq[t] = NONE => k.blockingReqTail[e] = t
        /\ k.prevBlockingReq[t] = NONE => k.blockingReqTail[e] # NONE
    BY <1>2, <2>1 DEF Chained
  <2>4. k.req[t].entry = e
    OBVIOUS
  <2> HIDE DEF e
  <2>5. ASSUME m.nextBlockingReq[t] = NONE PROVE m.blockingReqTail[e] = t
    BY <1>1, <2>1, <2>2, <2>3, <2>5
  <2>6. ASSUME m.prevBlockingReq[t] = NONE PROVE m.blockingReqTail[e] # NONE
    <3>1. CASE t = n
      <4>1. n # NONE /\ k.req[x].entry = e
        BY <1>1, <1>2, <2>4, <3>1
      <4>2. k.blockingReqTail[e] # NONE
        BY <1>2, <2>1, <4>1 DEF Chained
      <4>3. k.blockingReqTail[e] # x
        BY <1>2, <1>3, <2>2, <4>1 DEF Chained
      <4> QED BY <1>1, <2>2, <4>2, <4>3
    <3>2. CASE t # n
      <4>1. k.prevBlockingReq[t] = NONE
        BY <1>1, <2>6, <3>2
      <4>2. k.blockingReqTail[e] # x
        <5>1. ASSUME k.blockingReqTail[e] = x PROVE FALSE
          <6>1. k.req[x].entry = e
            BY <1>2, <2>2, <5>1 DEF Chained
          <6>2. t = x
            BY <1>2, <2>1, <2>4, <4>1, <6>1 DEF Chained
          <6> QED BY <2>1, <6>2
        <5> QED BY <5>1
      <4> QED BY <1>1, <2>2, <2>3, <4>1, <4>2
    <3> QED BY <3>1, <3>2
  <2> QED BY <2>1, <2>4, <2>5, <2>6
<1>9. ASSUME NEW t \in Tags, NEW u \in Tags,
             Live(m, t), m.prevBlockingReq[t] = NONE,
             Live(m, u), m.prevBlockingReq[u] = NONE,
             m.req[t].entry = m.req[u].entry, m.req[t].entry # NONE
      PROVE  t = u
  <2>1. t # x /\ u # x /\ Live(k, t) /\ Live(k, u)
        /\ k.req[t].entry = k.req[u].entry /\ k.req[t].entry # NONE
    BY <1>1, <1>9
  <2>2. ASSUME NEW w \in Tags, w # x, w # n, Live(k, w), m.prevBlockingReq[w] = NONE,
               n # NONE, k.req[w].entry = k.req[n].entry
        PROVE  FALSE
    <3>1. k.prevBlockingReq[w] = NONE /\ k.req[w].entry = k.req[x].entry
          /\ k.req[x].entry # NONE
      BY <1>1, <2>2
    <3>2. w = x
      BY <1>2, <2>2, <3>1 DEF Chained
    <3> QED BY <2>2, <3>2
  <2>3. CASE t # n /\ u # n
    <3>1. k.prevBlockingReq[t] = NONE /\ k.prevBlockingReq[u] = NONE
      BY <1>1, <1>9, <2>3
    <3> QED BY <1>2, <2>1, <3>1 DEF Chained
  <2>4. CASE t = n /\ u # n
    BY <1>2, <1>9, <2>1, <2>2, <2>4
  <2>5. CASE t # n /\ u = n
    BY <1>2, <1>9, <2>1, <2>2, <2>5
  <2> QED BY <2>3, <2>4, <2>5
<1> QED BY <1>4, <1>5, <1>6, <1>7, <1>8, <1>9 DEF Chained

\* The next of the chain is on its way then, if it waits for x.
OnItsWay(k, x) ==
  LET n == k.nextBlockingReq[x]
  IN  IF n # NONE /\ k.reqQueueType[n] = "BLOCKED_BY_BUF_DEP" THEN n ELSE NONE

LEMMA FreedKeeps ==
  ASSUME NEW k, NEW x \in Tags, NEW iss, PoolInv(k, x, iss), Live(k, x),
         k.prevBlockingReq[x] = NONE, x \notin Waiting(k), NEW m, m = Freed(k, x)
  PROVE  /\ PoolInv(m, OnItsWay(k, x), iss) /\ LeavesAs(k, m, x)
         /\ Waiting(m) = Waiting(k)
<1> DEFINE n == k.nextBlockingReq[x]
           y == OnItsWay(k, x)
<1>1. PoolType(m) /\ LeavesAs(k, m, x)
  BY FreedFields DEF PoolInv
<1>2. Chained(m)
  BY <1>1, LeftChained
<1>3. /\ m.reqQueueType[x] = "FREE"
      /\ \A t \in Tags : t # x =>
           /\ m.req[t] = k.req[t] /\ m.reqQueueType[t] = k.reqQueueType[t]
           /\ Live(m, t) <=> Live(k, t)
      /\ n \in Links /\ n # x
      /\ n # NONE => k.prevBlockingReq[n] = x
      /\ \A t \in Tags : m.prevBlockingReq[t] = IF t = n THEN NONE ELSE k.prevBlockingReq[t]
      /\ ~ Live(m, x)
  BY <1>1, LeavesFacts
<1>4. NONE \notin Tags /\ Placed(k, x) /\ Queued(k, x, iss) /\ SameQueues(k, m)
  BY <1>1, NoneIsNoTag DEF PoolInv, LeavesAs
<1>5. y \in {n, NONE} /\ (y # NONE => k.reqQueueType[y] = "BLOCKED_BY_BUF_DEP")
      /\ (n # NONE /\ k.reqQueueType[n] = "BLOCKED_BY_BUF_DEP" => y = n)
  BY DEF OnItsWay
<1> HIDE DEF n, y
<1>6. Placed(m, y)
  <2>1. m.nvmeDmaReqQ = k.nvmeDmaReqQ /\ m.nandReqQ = k.nandReqQ
        /\ m.rowAddrDepReqQ = k.rowAddrDepReqQ
    BY <1>4 DEF SameQueues
  <2>2. ASSUME NEW t \in Tags
        PROVE  In(m.nvmeDmaReqQ, t) <=> t # y /\ m.reqQueueType[t] = "NVME_DMA"
    BY <1>3, <1>4, <1>5, <2>1 DEF Placed
  <2>3. ASSUME NEW t \in Tags, NEW d \in Dies
        PROVE  /\ In(m.nandReqQ[d], t) <=>
                    t # y /\ m.reqQueueType[t] = "NAND" /\ m.req[t].block[1] = d
               /\ In(m.rowAddrDepReqQ[d], t) <=>
                    /\ t # y /\ m.reqQueueType[t] = "BLOCKED_BY_ROW_ADDR_DEP"
                    /\ m.req[t].block[1] = d
    BY <1>3, <1>4, <1>5, <2>1 DEF Placed
  <2> QED BY <1>4, <2>1, <2>2, <2>3 DEF Placed
<1>7. Queued(m, y, iss)
  <2>1. iss \in Links /\ (iss # NONE => iss # x /\ k.reqQueueType[iss] = "NONE")
    BY <1>4 DEF Queued, Links
  <2>2. iss # NONE => iss # y
    BY <1>5, <2>1
  <2>3. ASSUME NEW t \in Tags, t # y
        PROVE  /\ m.reqQueueType[t] \in {"NAND", "BLOCKED_BY_ROW_ADDR_DEP"} =>
                    m.req[t].reqCode \in FlashCodes /\ m.prevBlockingReq[t] = NONE
               /\ m.reqQueueType[t] = "NVME_DMA" =>
                    m.req[t].reqCode \in DmaCodes /\ m.prevBlockingReq[t] = NONE
               /\ m.reqQueueType[t] = "BLOCKED_BY_BUF_DEP" => m.prevBlockingReq[t] # NONE
               /\ m.reqQueueType[t] = "NONE" <=> t = iss
               /\ t = iss => m.req[t].reqCode = "READ"
    <3>1. CASE t = x
      BY <1>3, <1>4, <2>1, <3>1
    <3>2. CASE t # x
      BY <1>3, <1>4, <1>5, <2>3, <3>2 DEF Queued
    <3> QED BY <3>1, <3>2
  <2>4. \A t \in Tags : Live(m, t) => WellFormed(m.req[t])
    BY <1>3, <1>4 DEF Queued
  <2> QED BY <2>1, <2>2, <2>3, <2>4 DEF Queued
<1>8. Waiting(m) = Waiting(k)
  <2>1. \A t \in Tags : t \in Waiting(m) <=> t \in Waiting(k)
    BY <1>3 DEF Waiting
  <2> QED BY <2>1 DEF Waiting
<1> QED BY <1>1, <1>2, <1>6, <1>7, <1>8 DEF PoolInv, y

\* What is in the entries when request r has moved its content.
Moved(r, dat) ==
  IF r.reqCode \in {"RxDMA", "READ"} THEN [dat EXCEPT ![r.entry] = r.want] ELSE dat

LEMMA MovedFacts ==
  ASSUME NEW k, NEW x \in Tags, NEW iss, PoolInv(k, x, iss), Live(k, x),
         k.prevBlockingReq[x] = NONE, NEW dat, NEW sh, EntriesInv(k, dat, sh)
  PROVE  LET r == k.req[x] IN
         /\ Moved(r, dat) \in [Entries -> Contents]
         /\ \A e \in Entries : Moved(r, dat)[e] = IF e = r.entry THEN r.want ELSE dat[e]
<1> DEFINE r == k.req[x]
           dat2 == Moved(r, dat)
<1>1. WellFormed(r) /\ NONE \notin Entries
  BY HeldWell, NoneIsNoTag
<1>2. dat \in [Entries -> Contents]
  BY DEF EntriesInv
<1>3. r.reqCode \in {"TxDMA", "WRITE"} => dat[r.entry] = r.want
  BY DEF EntriesInv
<1> HIDE DEF r
<1>4. CASE r.reqCode \in {"RxDMA", "READ"}
  <2>1. r.entry \in Entries /\ r.want \in Contents
    BY <1>1, <1>4 DEF WellFormed
  <2>2. dat2 = [dat EXCEPT ![r.entry] = r.want]
    BY <1>4 DEF Moved
  <2> QED BY <1>2, <2>1, <2>2 DEF r
<1>5. CASE r.reqCode \in {"TxDMA", "WRITE"}
  BY <1>2, <1>3, <1>5 DEF Moved, r
<1>6. CASE r.reqCode = "ERASE"
  <2>1. r.entry = NONE /\ dat2 = dat
    BY <1>1, <1>6 DEF WellFormed, Moved
  <2> QED BY <1>1, <1>2, <2>1 DEF r
<1> QED BY <1>1, <1>4, <1>5, <1>6 DEF WellFormed, DmaCodes, FlashCodes

LEMMA FreedEntries ==
  ASSUME NEW k, NEW x \in Tags, NEW iss, PoolInv(k, x, iss), Live(k, x),
         k.prevBlockingReq[x] = NONE, NEW m, LeavesAs(k, m, x),
         NEW dat, NEW sh, EntriesInv(k, dat, sh)
  PROVE  EntriesInv(m, Moved(k.req[x], dat), sh)
<1> DEFINE n == k.nextBlockingReq[x]
           r == k.req[x]
           dat2 == Moved(r, dat)
<1>1. /\ ~ Live(m, x)
      /\ \A t \in Tags : t # x => m.req[t] = k.req[t] /\ (Live(m, t) <=> Live(k, t))
      /\ n \in Links /\ n # x
      /\ n # NONE => k.prevBlockingReq[n] = x /\ k.req[n].entry = r.entry
      /\ \A t \in Tags : m.prevBlockingReq[t] = IF t = n THEN NONE ELSE k.prevBlockingReq[t]
      /\ \A e \in Entries :
           m.blockingReqTail[e] = IF k.blockingReqTail[e] = x THEN NONE
                                  ELSE k.blockingReqTail[e]
  BY LeavesFacts
<1>2. NONE \notin Tags /\ NONE \notin Entries /\ Chained(k)
      /\ \A t \in Tags : Live(k, t) => WellFormed(k.req[t])
  BY NoneIsNoTag, HeldWell DEF PoolInv
<1>3. /\ dat2 \in [Entries -> Contents]
      /\ \A e \in Entries : dat2[e] = IF e = r.entry THEN r.want ELSE dat[e]
  BY MovedFacts
<1>4. k.req[x] = r /\ k.nextBlockingReq[x] = n
  OBVIOUS
<1>5. /\ \A t \in Tags : Live(k, t) /\ k.req[t].reqCode \in {"TxDMA", "WRITE"} =>
           /\ k.prevBlockingReq[t] = NONE => dat[k.req[t].entry] = k.req[t].want
           /\ \A u \in Tags : k.prevBlockingReq[t] = u => k.req[u].want = k.req[t].want
      /\ \A e \in Entries :
           /\ k.blockingReqTail[e] = NONE => dat[e] = sh.data[e]
           /\ \A t \in Tags : k.blockingReqTail[e] = t => k.req[t].want = sh.data[e]
  BY DEF EntriesInv
<1> HIDE DEF n, r, dat2
<1>6. ASSUME NEW t \in Tags, Live(m, t), m.req[t].reqCode \in {"TxDMA", "WRITE"}
      PROVE  /\ m.prevBlockingReq[t] = NONE => dat2[m.req[t].entry] = m.req[t].want
             /\ \A u \in Tags : m.prevBlockingReq[t] = u => m.req[u].want = m.req[t].want
  <2>1. t # x /\ Live(k, t) /\ m.req[t] = k.req[t] /\ k.req[t].reqCode \in {"TxDMA", "WRITE"}
    BY <1>1, <1>6
  <2>2. k.req[t].entry \in Entries
    BY <1>2, <2>1 DEF WellFormed
  <2>3. ASSUME m.prevBlockingReq[t] = NONE PROVE dat2[k.req[t].entry] = k.req[t].want
    <3>1. CASE t = n
      <4>1. k.prevBlockingReq[t] = x /\ k.req[t].entry = r.entry
        BY <1>1, <1>2, <3>1
      <4>2. r.want = k.req[t].want
        BY <1>4, <1>5, <2>1, <4>1
      <4> QED BY <1>3, <2>2, <4>1, <4>2
    <3>2. CASE t # n
      <4>1. k.prevBlockingReq[t] = NONE
        BY <1>1, <2>3, <3>2
      <4>2. k.req[t].entry # r.entry
        BY <1>2, <1>4, <2>1, <2>2, <4>1 DEF Chained
      <4> QED BY <1>3, <1>5, <2>1, <2>2, <4>1, <4>2
    <3> QED BY <3>1, <3>2
  <2>4. ASSUME NEW u \in Tags, m.prevBlockingReq[t] = u PROVE m.req[u].want = k.req[t].want
    <3>1. t # n /\ k.prevBlockingReq[t] = u
      BY <1>1, <1>2, <2>4
    <3>2. k.nextBlockingReq[u] = t
      BY <1>2, <2>1, <3>1 DEF Chained
    <3>3. u # x
      BY <1>4, <3>1, <3>2
    <3> QED BY <1>1, <1>5, <2>1, <3>1, <3>3
  <2> QED BY <2>1, <2>3, <2>4
<1>7. ASSUME NEW e \in Entries
      PROVE  /\ m.blockingReqTail[e] = NONE => dat2[e] = sh.data[e]
             /\ \A t \in Tags : m.blockingReqTail[e] = t => m.req[t].want = sh.data[e]
  <2>1. CASE k.blockingReqTail[e] = x
    <3>1. r.entry = e /\ r.want = sh.data[e] /\ m.blockingReqTail[e] = NONE
      BY <1>1, <1>2, <1>4, <1>5, <2>1 DEF Chained
    <3> QED BY <1>2, <1>3, <3>1
  <2>2. CASE k.blockingReqTail[e] # x
    <3>1. m.blockingReqTail[e] = k.blockingReqTail[e]
      BY <1>1, <2>2
    <3>2. k.blockingReqTail[e] = NONE => e # r.entry
      BY <1>2, <1>4 DEF Chained
    <3> QED BY <1>1, <1>2, <1>3, <1>5, <2>2, <3>1, <3>2
  <2> QED BY <2>1, <2>2
<1> QED BY <1>3, <1>6, <1>7 DEF EntriesInv, dat2, r

LEMMA FreedOrder ==
  ASSUME NEW k, NEW x \in Tags, NEW iss, PoolInv(k, x, iss), Live(k, x),
         k.prevBlockingReq[x] = NONE, x \notin Waiting(k), NEW m, LeavesAs(k, m, x),
         NEW dat, NEW f, NEW sh, NEW g, NEW age, NEW now,
         Order(k, Waiting(k), iss, dat, f, sh, g, age, now)
  PROVE  Order(m, Waiting(k), iss, Moved(k.req[x], dat), f, sh, g, age, now)
<1> DEFINE n == k.nextBlockingReq[x]
           W == Waiting(k)
<1>1. /\ ~ Live(m, x)
      /\ \A t \in Tags : t # x => m.req[t] = k.req[t] /\ (Live(m, t) <=> Live(k, t))
      /\ \A t \in Tags : m.prevBlockingReq[t] = IF t = n THEN NONE ELSE k.prevBlockingReq[t]
  BY LeavesFacts
<1>2. /\ NONE \notin Tags /\ Chained(k) /\ PoolType(k) /\ Placed(k, x)
      /\ iss \in Links /\ iss # x
  BY NoneIsNoTag DEF PoolInv, Queued
<1> HIDE DEF n
<1>3. EntriesInv(m, Moved(k.req[x], dat), sh)
  BY FreedEntries DEF Order
<1>4. Aged(m, iss, age, now)
  <2>1. Aged(k, iss, age, now)
    BY DEF Order
  <2>2. \A t, u \in Tags : Live(m, u) /\ m.prevBlockingReq[u] = t => age[t] < age[u]
    <3> SUFFICES ASSUME NEW t \in Tags, NEW u \in Tags, Live(m, u), m.prevBlockingReq[u] = t
                 PROVE  age[t] < age[u]
      OBVIOUS
    <3>1. Live(k, u) /\ k.prevBlockingReq[u] = t
      BY <1>1, <1>2
    <3> QED BY <2>1, <3>1 DEF Aged
  <2>3. \A t \in Tags : Live(m, t) => Live(k, t)
    BY <1>1
  <2> QED BY <2>1, <2>2, <2>3 DEF Aged
<1>5. IssuingInv(m, iss, sh)
  BY <1>1, <1>2 DEF Order, IssuingInv
<1>6. DiesInv(m, f, g)
  <2>1. m.nandReqQ = k.nandReqQ /\ DiesInv(k, f, g)
    BY DEF LeavesAs, SameQueues, Order
  <2>2. \A d \in Dies, t \in Tags : In(k.nandReqQ[d], t) => m.req[t] = k.req[t]
    BY <1>1, <1>2 DEF Placed
  <2> QED BY <1>2, <2>1, <2>2, DiesKept
<1>7. BlocksInv(m, W, g, sh, age)
  <2>1. W \in SUBSET Tags /\ \A t \in W : WellFormed(k.req[t])
    BY HeldWell
  <2>2. BlocksInv(k, W, g, sh, age) /\ SameTable(k, m) /\ x \notin W
    BY DEF Order, LeavesAs
  <2>3. W \ W = {} /\ W \cap W = W
    OBVIOUS
  <2> HIDE DEF W
  <2>4. \A t \in W \cap W : m.req[t] = k.req[t] /\ age[t] = age[t]
    BY <1>1, <2>1, <2>2, <2>3
  <2>5. /\ \A t \in W \ W : k.req[t].reqCode \notin FlashCodes
        /\ \A t \in W \ W : m.req[t].reqCode \notin FlashCodes
    BY <2>3
  <2> QED BY <2>1, <2>2, <2>4, <2>5, BlocksKept
<1> QED BY <1>3, <1>4, <1>5, <1>6, <1>7 DEF Order

\* A finished request, out of its queue, is freed and the next of its chain released.
LEMMA ReleaseKeeps ==
  ASSUME NEW k, NEW x \in Tags, NEW iss, PoolInv(k, x, iss), Live(k, x),
         k.prevBlockingReq[x] = NONE, x \notin Waiting(k),
         NEW n, n = ReleaseBlockedByBufDepReq(k, x),
         NEW dat, NEW f, NEW sh, ShadowType(sh), NEW g, NEW age, NEW now
  PROVE  /\ PoolInv(n, NONE, iss) /\ Onward(k.reqQueueType, n.reqQueueType)
         /\ \A t \in Tags : t # x /\ k.reqQueueType[t] # "BLOCKED_BY_BUF_DEP" =>
              n.req[t] = k.req[t] /\ n.reqQueueType[t] = k.reqQueueType[t]
         /\ Order(k, Waiting(k), iss, dat, f, sh, g, age, now) =>
              \E g2 : Order(n, Waiting(n), iss, Moved(k.req[x], dat), f, sh, g2, age, now)
<1> DEFINE m == Freed(k, x)
           y == OnItsWay(k, x)
           dat2 == Moved(k.req[x], dat)
<1>1. n = IF y = NONE THEN m ELSE Unblocked(m, y)
  <2> DEFINE next == k.nextBlockingReq[x]
  <2>1. CASE next = NONE
    BY <2>1 DEF ReleaseBlockedByBufDepReq, Freed, OnItsWay
  <2>2. CASE next # NONE /\ k.reqQueueType[next] # "BLOCKED_BY_BUF_DEP"
    BY <2>2 DEF ReleaseBlockedByBufDepReq, Freed, OnItsWay
  <2>3. CASE next # NONE /\ k.reqQueueType[next] = "BLOCKED_BY_BUF_DEP"
    BY <2>3 DEF ReleaseBlockedByBufDepReq, Freed, OnItsWay
  <2> QED BY <2>1, <2>2, <2>3
<1>2. y # NONE => /\ y = k.nextBlockingReq[x]
                  /\ k.reqQueueType[y] = "BLOCKED_BY_BUF_DEP"
  BY DEF OnItsWay
<1>3. m = Freed(k, x)
  OBVIOUS
<1> HIDE DEF m
<1>4. PoolInv(m, y, iss) /\ LeavesAs(k, m, x) /\ Waiting(m) = Waiting(k)
  BY <1>3, FreedKeeps
<1>5. /\ \A t \in Tags : t # x =>
           /\ m.req[t] = k.req[t] /\ m.reqQueueType[t] = k.reqQueueType[t]
           /\ Live(m, t) <=> Live(k, t)
      /\ k.nextBlockingReq[x] \in Links /\ k.nextBlockingReq[x] # x
      /\ \A t \in Tags : m.prevBlockingReq[t] = IF t = k.nextBlockingReq[x] THEN NONE
                                                ELSE k.prevBlockingReq[t]
  BY <1>4, LeavesFacts
<1>6. Order(k, Waiting(k), iss, dat, f, sh, g, age, now) =>
        Order(m, Waiting(m), iss, dat2, f, sh, g, age, now)
  BY <1>4, FreedOrder
<1> HIDE DEF y, dat2
<1>7. m.reqQueueType[x] = "FREE" /\ StageOf(k.reqQueueType[x]) < StageOf("FREE")
  <2>1. m.reqQueueType = [k.reqQueueType EXCEPT ![x] = "FREE"]
    BY <1>4 DEF LeavesAs
  <2>2. k.reqQueueType \in [Tags -> QueueTypes]
    BY DEF PoolInv, PoolType
  <2>3. StageOf(k.reqQueueType[x]) \in {0, 1, 2} /\ StageOf("FREE") = 3
    BY DEF StageOf, Live
  <2> QED BY <2>1, <2>2, <2>3
<1>8. CASE y = NONE
  <2>1. n = m
    BY <1>1, <1>8
  <2>2. Onward(k.reqQueueType, n.reqQueueType)
    BY <1>5, <1>7, <2>1 DEF Onward
  <2> QED BY <1>4, <1>5, <1>6, <1>8, <2>1, <2>2 DEF dat2
<1>9. CASE y # NONE
  <2>1. /\ y \in Tags /\ y # x /\ m.reqQueueType[y] = "BLOCKED_BY_BUF_DEP"
        /\ m.prevBlockingReq[y] = NONE /\ n = Unblocked(m, y)
    BY <1>1, <1>2, <1>5, <1>9 DEF Links
  <2>2. Live(m, y) /\ Waiting(m) \cup {y} = Waiting(m)
    BY <2>1 DEF Live, Waiting
  <2>3. /\ PoolInv(n, NONE, iss) /\ Untouched(m, n, y)
        /\ n.reqQueueType[y] \in {"NAND", "NVME_DMA", "BLOCKED_BY_ROW_ADDR_DEP"}
        /\ Order(m, Waiting(m) \cup {y}, iss, dat2, f, sh, g, age, now) =>
             \E g2 : Order(n, Waiting(n), iss, dat2, f, sh, g2, age, now)
    BY <1>4, <2>1, <2>2, UnblockedKeeps
  <2>4. ASSUME NEW t \in Tags, t # x, k.reqQueueType[t] # "BLOCKED_BY_BUF_DEP"
        PROVE  n.req[t] = k.req[t] /\ n.reqQueueType[t] = k.reqQueueType[t]
    <3>1. t # y
      BY <1>5, <2>1, <2>4
    <3> QED BY <1>5, <2>3, <2>4, <3>1 DEF Untouched
  <2>5. Onward(k.reqQueueType, n.reqQueueType)
    <3>1. StageOf(k.reqQueueType[y]) < StageOf(n.reqQueueType[y])
      BY <1>2, <1>9, <2>3 DEF StageOf
    <3>2. n.reqQueueType[x] = "FREE"
      BY <1>7, <2>1, <2>3 DEF Untouched
    <3>3. \A t \in Tags : t # x /\ t # y => n.reqQueueType[t] = k.reqQueueType[t]
      BY <1>5, <2>3 DEF Untouched
    <3> QED BY <1>7, <3>1, <3>2, <3>3 DEF Onward
  <2> QED BY <1>6, <2>2, <2>3, <2>4, <2>5 DEF dat2
<1> QED BY <1>8, <1>9

-----------------------------------------------------------------------------
(* Requests leave their queues. *)

\* A request of the host DMA engine leaves its queue, and the pool.
LEMMA TransferKeeps ==
  ASSUME NEW k, NEW x \in Tags, NEW iss, PoolInv(k, NONE, iss),
         k.reqQueueType[x] = "NVME_DMA",
         NEW n, n = FinishTransfer(k, x),
         NEW dat, NEW f, NEW sh, ShadowType(sh), NEW g, NEW age, NEW now
  PROVE  /\ PoolInv(n, NONE, iss) /\ Onward(k.reqQueueType, n.reqQueueType)
         /\ \A t \in Tags : t # x /\ k.reqQueueType[t] # "BLOCKED_BY_BUF_DEP" =>
              n.req[t] = k.req[t] /\ n.reqQueueType[t] = k.reqQueueType[t]
         /\ Order(k, Waiting(k), iss, dat, f, sh, g, age, now) =>
              \E g2 : Order(n, Waiting(n), iss, Moved(k.req[x], dat), f, sh, g2, age, now)
<1> DEFINE q == RemoveFirst(k.nvmeDmaReqQ, x)
           m == [k EXCEPT !.nvmeDmaReqQ = q]
<1>1. PoolType(k) /\ Chained(k) /\ Placed(k, NONE) /\ Queued(k, NONE, iss) /\ NONE \notin Tags
  BY NoneIsNoTag DEF PoolInv
<1>2. /\ q \in Seq(Tags) /\ Distinct(q)
      /\ \A t : In(q, t) <=> t # x /\ In(k.nvmeDmaReqQ, t)
  <2>1. k.nvmeDmaReqQ \in Seq(Tags) /\ Distinct(k.nvmeDmaReqQ) /\ In(k.nvmeDmaReqQ, x)
    BY <1>1 DEF PoolType, Placed
  <2> QED BY <2>1, RemovedFacts
<1>3. n = ReleaseBlockedByBufDepReq(m, x)
  BY <1>1 DEF FinishTransfer, PoolType
<1> HIDE DEF q
<1>4. /\ PoolType(m) /\ SameChains(k, m) /\ SameTable(k, m)
      /\ m.reqQueueType = k.reqQueueType /\ m.nvmeDmaReqQ = q
      /\ m.nandReqQ = k.nandReqQ /\ m.rowAddrDepReqQ = k.rowAddrDepReqQ
  BY <1>1, <1>2 DEF PoolType, SameChains, SameTable
<1> HIDE DEF m
<1>5. /\ \A t \in Tags : Live(m, t) <=> Live(k, t)
      /\ Waiting(m) = Waiting(k) /\ m.req = k.req /\ m.prevBlockingReq = k.prevBlockingReq
  BY <1>4 DEF Live, Waiting, SameChains
<1>6. /\ Live(m, x) /\ m.prevBlockingReq[x] = NONE /\ x \notin Waiting(m)
      /\ x # iss
  BY <1>1, <1>4, <1>5 DEF Live, Waiting, Queued
<1>7. PoolInv(m, x, iss)
  <2>1. Chained(m)
    BY <1>1, <1>4, <1>5, ChainsKept
  <2>2. Placed(m, x)
    <3>1. ASSUME NEW t \in Tags
          PROVE  In(m.nvmeDmaReqQ, t) <=> t # x /\ m.reqQueueType[t] = "NVME_DMA"
      BY <1>1, <1>2, <1>4 DEF Placed
    <3>2. ASSUME NEW t \in Tags, NEW d \in Dies
          PROVE  /\ In(m.nandReqQ[d], t) <=>
                      t # x /\ m.reqQueueType[t] = "NAND" /\ m.req[t].block[1] = d
                 /\ In(m.rowAddrDepReqQ[d], t) <=>
                      /\ t # x /\ m.reqQueueType[t] = "BLOCKED_BY_ROW_ADDR_DEP"
                      /\ m.req[t].block[1] = d
      BY <1>1, <1>4, <1>5 DEF Placed
    <3> QED BY <1>1, <1>2, <1>4, <3>1, <3>2 DEF Placed
  <2>3. Queued(m, x, iss)
    BY <1>1, <1>4, <1>5, <1>6 DEF Queued
  <2> QED BY <1>4, <2>1, <2>2, <2>3 DEF PoolInv
<1>8. ASSUME Order(k, Waiting(k), iss, dat, f, sh, g, age, now)
      PROVE  Order(m, Waiting(m), iss, dat, f, sh, g, age, now)
  <2>1. DiesInv(m, f, g)
    BY <1>1, <1>4, <1>5, <1>8, DiesKept DEF Order
  <2>2. Aged(m, iss, age, now) /\ EntriesInv(m, dat, sh) /\ IssuingInv(m, iss, sh)
    BY <1>4, <1>5, <1>8, ChainsOrderKept DEF Order
  <2>3. BlocksInv(m, Waiting(m), g, sh, age)
    <3> DEFINE W == Waiting(k)
    <3>1. W \in SUBSET Tags /\ \A t \in W : WellFormed(k.req[t])
      BY <1>1 DEF Queued, Waiting, Live
    <3>2. BlocksInv(k, W, g, sh, age) /\ W \ W = {}
      BY <1>8 DEF Order
    <3> HIDE DEF W
    <3>3. BlocksInv(m, W, g, sh, age)
      BY <1>4, <1>5, <3>1, <3>2, BlocksKept
    <3> QED BY <1>5, <3>3 DEF W
  <2> QED BY <2>1, <2>2, <2>3 DEF Order
<1>9. /\ PoolInv(n, NONE, iss) /\ Onward(m.reqQueueType, n.reqQueueType)
      /\ \A t \in Tags : t # x /\ m.reqQueueType[t] # "BLOCKED_BY_BUF_DEP" =>
           n.req[t] = m.req[t] /\ n.reqQueueType[t] = m.reqQueueType[t]
      /\ Order(m, Waiting(m), iss, dat, f, sh, g, age, now) =>
           \E g2 : Order(n, Waiting(n), iss, Moved(m.req[x], dat), f, sh, g2, age, now)
  BY <1>3, <1>6, <1>7, ReleaseKeeps
<1> QED BY <1>4, <1>5, <1>8, <1>9

\* The first request of die d finishes, and leaves the pool.
HeadFinished(k, d) ==
  ReleaseBlockedByBufDepReq([k EXCEPT !.nandReqQ[d] = Tail(@)], Head(k.nandReqQ[d]))

LEMMA OperationKeeps ==
  ASSUME NEW k, NEW iss, PoolInv(k, NONE, iss), NEW d \in Dies, k.nandReqQ[d] # <<>>,
         NEW x, x = Head(k.nandReqQ[d]),
         NEW n, n = HeadFinished(k, d),
         NEW dat, NEW f, NEW sh, ShadowType(sh), NEW g, NEW age, NEW now
  PROVE  LET r == k.req[x] IN
         /\ x \in Tags /\ Live(k, x) /\ WellFormed(r) /\ r.reqCode \in FlashCodes
         /\ r.block[1] = d /\ k.prevBlockingReq[x] = NONE
         /\ PoolInv(n, NONE, iss) /\ Onward(k.reqQueueType, n.reqQueueType)
         /\ Order(k, Waiting(k), iss, dat, f, sh, g, age, now) =>
              /\ Fits(r, f) /\ Applied(r, f) \in Flashes
              /\ \E g2 :
                   Order(n, Waiting(n), iss, Moved(r, dat), Applied(r, f), sh, g2, age, now)
<1> DEFINE q == Tail(k.nandReqQ[d])
           qs == [k.nandReqQ EXCEPT ![d] = q]
           m == [k EXCEPT !.nandReqQ = qs]
           r == k.req[x]
<1>1. PoolType(k) /\ Chained(k) /\ Placed(k, NONE) /\ Queued(k, NONE, iss) /\ NONE \notin Tags
  BY NoneIsNoTag DEF PoolInv
<1>2. /\ q \in Seq(Tags) /\ Distinct(q) /\ x \in Tags /\ In(k.nandReqQ[d], x)
      /\ \A t : In(q, t) <=> t # x /\ In(k.nandReqQ[d], t)
  <2>1. k.nandReqQ[d] \in Seq(Tags) /\ Distinct(k.nandReqQ[d])
    BY <1>1 DEF PoolType, Placed
  <2> QED BY <2>1, TailFacts
<1>3. n = ReleaseBlockedByBufDepReq(m, x)
  BY <1>1 DEF HeadFinished, PoolType
<1>4. /\ k.reqQueueType[x] = "NAND" /\ Live(k, x) /\ WellFormed(r)
      /\ r.reqCode \in FlashCodes /\ r.block[1] = d /\ k.prevBlockingReq[x] = NONE
      /\ x # iss
  BY <1>1, <1>2 DEF Placed, Queued, Live
<1> HIDE DEF q
<1>5. qs \in [Dies -> Seq(Tags)] /\ qs[d] = q /\ \A c \in Dies : c # d => qs[c] = k.nandReqQ[c]
  BY <1>1, <1>2 DEF PoolType
<1> HIDE DEF qs
<1>6. /\ PoolType(m) /\ SameChains(k, m) /\ SameTable(k, m)
      /\ m.reqQueueType = k.reqQueueType /\ m.nvmeDmaReqQ = k.nvmeDmaReqQ
      /\ m.nandReqQ = qs /\ m.rowAddrDepReqQ = k.rowAddrDepReqQ
  BY <1>1, <1>5 DEF PoolType, SameChains, SameTable
<1> HIDE DEF m
<1>7. /\ \A t \in Tags : Live(m, t) <=> Live(k, t)
      /\ Waiting(m) = Waiting(k) /\ m.req = k.req /\ m.prevBlockingReq = k.prevBlockingReq
  BY <1>6 DEF Live, Waiting, SameChains
<1>8. Live(m, x) /\ m.prevBlockingReq[x] = NONE /\ x \notin Waiting(m)
  BY <1>2, <1>4, <1>6, <1>7 DEF Waiting
<1>9. PoolInv(m, x, iss)
  <2>1. Chained(m)
    BY <1>1, <1>6, <1>7, ChainsKept
  <2>2. Placed(m, x)
    <3>1. \A c \in Dies : Distinct(m.nandReqQ[c])
      BY <1>1, <1>2, <1>5, <1>6 DEF Placed
    <3>2. ASSUME NEW t \in Tags, NEW c \in Dies
          PROVE  In(m.nandReqQ[c], t) <=>
                   t # x /\ m.reqQueueType[t] = "NAND" /\ m.req[t].block[1] = c
      <4>1. In(k.nandReqQ[c], t) <=> k.reqQueueType[t] = "NAND" /\ k.req[t].block[1] = c
        BY <1>1 DEF Placed
      <4>2. CASE c = d
        BY <1>2, <1>5, <1>6, <1>7, <4>1, <4>2
      <4>3. CASE c # d
        <5>1. In(m.nandReqQ[c], t) <=> In(k.nandReqQ[c], t)
          BY <1>5, <1>6, <4>3
        <5> QED BY <1>4, <1>6, <1>7, <4>1, <4>3, <5>1
      <4> QED BY <4>2, <4>3
    <3>3. ASSUME NEW t \in Tags
          PROVE  In(m.nvmeDmaReqQ, t) <=> t # x /\ m.reqQueueType[t] = "NVME_DMA"
      BY <1>1, <1>4, <1>6 DEF Placed
    <3>4. ASSUME NEW t \in Tags, NEW c \in Dies
          PROVE  In(m.rowAddrDepReqQ[c], t) <=>
                   /\ t # x /\ m.reqQueueType[t] = "BLOCKED_BY_ROW_ADDR_DEP"
                   /\ m.req[t].block[1] = c
      BY <1>1, <1>4, <1>6, <1>7 DEF Placed
    <3>5. Distinct(m.nvmeDmaReqQ) /\ \A c \in Dies : Distinct(m.rowAddrDepReqQ[c])
      BY <1>1, <1>6 DEF Placed
    <3> QED BY <3>1, <3>2, <3>3, <3>4, <3>5 DEF Placed
  <2>3. Queued(m, x, iss)
    BY <1>1, <1>4, <1>6, <1>7 DEF Queued
  <2> QED BY <1>6, <2>1, <2>2, <2>3 DEF PoolInv
<1>10. ASSUME Order(k, Waiting(k), iss, dat, f, sh, g, age, now)
       PROVE  /\ Fits(r, f) /\ Applied(r, f) \in Flashes
              /\ Order(m, Waiting(m), iss, dat, Applied(r, f), sh, g, age, now)
  <2>1. Fits(r, f) /\ Applied(r, f) \in Flashes /\ DiesInv(m, Applied(r, f), g)
    <3>1. DiesInv(k, f, g) /\ r = k.req[Head(k.nandReqQ[d])]
          /\ m.nandReqQ = [k.nandReqQ EXCEPT ![d] = Tail(k.nandReqQ[d])]
      BY <1>6, <1>10 DEF Order, qs, q
    <3> HIDE DEF r
    <3> QED BY <1>1, <1>4, <1>7, <3>1, DieFinished
  <2>2. Aged(m, iss, age, now) /\ EntriesInv(m, dat, sh) /\ IssuingInv(m, iss, sh)
    BY <1>6, <1>7, <1>10, ChainsOrderKept DEF Order
  <2>3. BlocksInv(m, Waiting(m), g, sh, age)
    <3> DEFINE W == Waiting(k)
    <3>1. W \in SUBSET Tags /\ \A t \in W : WellFormed(k.req[t])
      BY <1>1 DEF Queued, Waiting, Live
    <3>2. BlocksInv(k, W, g, sh, age) /\ W \ W = {}
      BY <1>10 DEF Order
    <3> HIDE DEF W
    <3>3. BlocksInv(m, W, g, sh, age)
      BY <1>6, <1>7, <3>1, <3>2, BlocksKept
    <3> QED BY <1>7, <3>3 DEF W
  <2> QED BY <2>1, <2>2, <2>3 DEF Order
<1> DEFINE f2 == Applied(r, f)
<1> HIDE DEF f2
<1>11. /\ PoolInv(n, NONE, iss) /\ Onward(m.reqQueueType, n.reqQueueType)
       /\ Order(m, Waiting(m), iss, dat, f2, sh, g, age, now) =>
            \E g2 : Order(n, Waiting(n), iss, Moved(m.req[x], dat), f2, sh, g2, age, now)
  BY <1>2, <1>3, <1>8, <1>9, ReleaseKeeps
<1> QED BY <1>2, <1>4, <1>6, <1>7, <1>10, <1>11 DEF f2

-----------------------------------------------------------------------------
(* The loops over a queue. *)

\* One round of either loop: of CheckDoneNvmeDmaReq, when the requests done are
\* finished, and of ReleaseBlockedByRowAddrDepReq.
LoopStep(loop, done, k, t) ==
  IF loop = "transfers" THEN (IF t \in done THEN FinishTransfer(k, t) ELSE k)
  ELSE ReleaseIfPassed(k, t)

LoopEnd(loop, done, base, seq) ==
  LET Step(k, t) == LoopStep(loop, done, k, t) IN FoldLeft(Step, base, seq)

\* f gives the pool after the rounds for the requests with indices in s.
Rounds(f, loop, done, base, seq, n) ==
  f = [s \in SUBSET (1 .. n) |->
         IF s = {} THEN base
         ELSE LoopStep(loop, done, f[s \ {Max(s)}], seq[Max(s)])]

LEMMA RoundsExist ==
  ASSUME NEW loop, NEW done, NEW base, NEW seq, NEW n \in Nat
  PROVE  \E f : Rounds(f, loop, done, base, seq, n)
<1> DEFINE T == {i \in Nat : ~ \E f : Rounds(f, loop, done, base, seq, i)}
<1> SUFFICES ASSUME T # {} PROVE FALSE
  OBVIOUS
<1>1. PICK m \in T : \A i \in T : m <= i
  <2>1. T \subseteq Nat
    OBVIOUS
  <2> HIDE DEF T
  <2> QED BY <2>1, LeastNumber
<1>2. CASE m = 0
  <2> DEFINE f == [s \in SUBSET (1 .. 0) |-> base]
  <2>1. \A s \in SUBSET (1 .. 0) : s = {}
    OBVIOUS
  <2>2. Rounds(f, loop, done, base, seq, 0)
    BY <2>1 DEF Rounds
  <2> QED BY <1>2, <2>2
<1>3. CASE m # 0
  <2>1. m - 1 \in Nat /\ ~ (m <= m - 1) /\ m \in 1 .. m /\ 1 .. m = (1 .. m - 1) \cup {m}
    BY <1>3
  <2>2. PICK f : Rounds(f, loop, done, base, seq, m - 1)
    BY <1>1, <2>1
  <2> DEFINE g == [s \in SUBSET (1 .. m) |->
                     IF m \in s THEN LoopStep(loop, done, f[s \ {m}], seq[m]) ELSE f[s]]
  <2>3. ASSUME NEW s \in SUBSET (1 .. m)
        PROVE  g[s] = IF s = {} THEN base
                      ELSE LoopStep(loop, done, g[s \ {Max(s)}], seq[Max(s)])
    <3>1. CASE m \in s
      <4>1. Max(s) = m /\ s # {}
        BY <3>1, MaxFacts
      <4>2. s \ {m} \in SUBSET (1 .. m) /\ m \notin s \ {m}
        OBVIOUS
      <4>3. g[s \ {m}] = f[s \ {m}]
        BY <4>2
      <4> QED BY <3>1, <4>1, <4>3
    <3>2. CASE m \notin s
      <4>1. s \in SUBSET (1 .. m - 1)
        BY <2>1, <3>2
      <4>2. f[s] = IF s = {} THEN base
                   ELSE LoopStep(loop, done, f[s \ {Max(s)}], seq[Max(s)])
        BY <2>2, <4>1 DEF Rounds
      <4>3. g[s] = f[s]
        BY <3>2
      <4>4. g[s \ {Max(s)}] = f[s \ {Max(s)}]
        BY <3>2
      <4> QED BY <4>2, <4>3, <4>4
    <3> QED BY <3>1, <3>2
  <2>4. Rounds(g, loop, done, base, seq, m)
    BY <2>3 DEF Rounds
  <2> QED BY <2>4
<1> QED BY <1>2, <1>3

\* The pool after the rounds for the first requests of seq, in order, the last of
\* them being that of the fold.
LEMMA LoopUnfolds ==
  ASSUME NEW loop \in {"transfers", "release"}, NEW done, NEW base, NEW S, NEW seq \in Seq(S)
  PROVE  \E at : /\ at[0] = base
                 /\ \A i \in 1 .. Len(seq) : at[i] = LoopStep(loop, done, at[i - 1], seq[i])
                 /\ LoopEnd(loop, done, base, seq) = at[Len(seq)]
<1> DEFINE n == Len(seq)
           Step(k, t) == LoopStep(loop, done, k, t)
           iter[s \in SUBSET (1 .. n)] ==
             IF s = {} THEN base
             ELSE LoopStep(loop, done, iter[s \ {Max(s)}], seq[Max(s)])
           at == [i \in 0 .. n |-> iter[1 .. i]]
<1>1. n \in Nat /\ DOMAIN seq = 1 .. n
  OBVIOUS
<1>2. FoldLeft(Step, base, seq) = iter[1 .. n]
  BY <1>1, Zenon DEF FoldLeft, MapThenFoldSet
<1>3. Rounds(iter, loop, done, base, seq, n)
  <2>1. iter = CHOOSE f : Rounds(f, loop, done, base, seq, n)
    BY Zenon DEF Rounds
  <2> HIDE DEF iter, n
  <2> QED BY <1>1, <2>1, RoundsExist
<1> HIDE DEF iter
<1>4. at[0] = base
  <2>1. at[0] = iter[{}] /\ {} \in SUBSET (1 .. n)
    BY <1>1
  <2> QED BY <1>3, <2>1 DEF Rounds
<1>5. ASSUME NEW i \in 1 .. n
      PROVE  at[i] = LoopStep(loop, done, at[i - 1], seq[i])
  <2>1. /\ i \in Nat /\ i - 1 \in Nat /\ i \in 1 .. i
        /\ i \in 0 .. n /\ i - 1 \in 0 .. n
    BY <1>1
  <2>4. 1 .. i \in SUBSET (1 .. n) /\ 1 .. i # {} /\ 1 .. i \in SUBSET (1 .. i)
    <3>1. \A j \in 1 .. i : j \in 1 .. n
      BY <1>1
    <3> QED BY <2>1, <3>1
  <2>5. (1 .. i) \ {i} = 1 .. i - 1
    BY <2>1
  <2>2. Max(1 .. i) = i
    BY <2>1, <2>4, MaxFacts
  <2>3. iter[1 .. i] = LoopStep(loop, done, iter[1 .. i - 1], seq[i])
    BY <1>3, <2>2, <2>4, <2>5 DEF Rounds
  <2> QED BY <2>1, <2>3
<1>6. FoldLeft(Step, base, seq) = at[n]
  <2>1. n \in 0 .. n
    BY <1>1
  <2>2. at[n] = iter[1 .. n]
    BY <2>1
  <2> HIDE DEF at
  <2> QED BY <1>2, <2>2
<1> HIDE DEF at
<1> QED BY <1>4, <1>5, <1>6 DEF LoopEnd

LEMMA LoopsAreFolds ==
  ASSUME NEW k, NEW done, NEW d
  PROVE  /\ FinishTransfers(k, done) = LoopEnd("transfers", done, k, Reverse(k.nvmeDmaReqQ))
         /\ k.nandReqQ[d] = <<>> => ReleaseBlockedByRowAddrDepReq(k, d) =
                                      LoopEnd("release", done, k, k.rowAddrDepReqQ[d])
<1>1. FinishTransfers(k, done) = LoopEnd("transfers", done, k, Reverse(k.nvmeDmaReqQ))
  BY DEF FinishTransfers, LoopEnd, LoopStep
<1>2. ASSUME k.nandReqQ[d] = <<>>
      PROVE  ReleaseBlockedByRowAddrDepReq(k, d) =
               LoopEnd("release", done, k, k.rowAddrDepReqQ[d])
  <2>1. ReleaseBlockedByRowAddrDepReq(k, d) = FoldLeft(ReleaseIfPassed, k, k.rowAddrDepReqQ[d])
    BY <1>2 DEF ReleaseBlockedByRowAddrDepReq
  <2>2. ASSUME NEW q PROVE FoldLeft(ReleaseIfPassed, k, q) = LoopEnd("release", done, k, q)
    BY DEF LoopEnd, LoopStep, FoldLeft, MapThenFoldSet
  <2> QED BY <2>1, <2>2
<1> QED BY <1>1, <1>2

\* The requests are in the order of age, whatever they lead to.
InOrder(k, iss, dat, f, sh, age, now) ==
  \E g : Order(k, Waiting(k), iss, dat, f, sh, g, age, now)

\* One round of ReleaseBlockedByRowAddrDepReq.
LEMMA PassedKeeps ==
  ASSUME NEW k, NEW x \in Tags, NEW iss, PoolInv(k, NONE, iss),
         k.reqQueueType[x] = "BLOCKED_BY_ROW_ADDR_DEP",
         NEW n, n = ReleaseIfPassed(k, x),
         NEW dat, NEW f, NEW sh, ShadowType(sh), NEW age, NEW now
  PROVE  /\ PoolInv(n, NONE, iss) /\ Untouched(k, n, x)
         /\ IF RowAddrPass(k, x) THEN Onward(k.reqQueueType, n.reqQueueType) ELSE n = k
         /\ InOrder(k, iss, dat, f, sh, age, now) => InOrder(n, iss, dat, f, sh, age, now)
<1> DEFINE d == k.req[x].block[1]
           q == RemoveFirst(k.rowAddrDepReqQ[d], x)
           qs == [k.rowAddrDepReqQ EXCEPT ![d] = q]
           m == [k EXCEPT !.rowAddrDepReqQ = qs]
<1>1. CASE ~ RowAddrPass(k, x)
  <2>1. n = k
    BY <1>1 DEF ReleaseIfPassed
  <2> QED BY <1>1, <2>1 DEF Untouched
<1>2. CASE RowAddrPass(k, x)
  <2>1. PoolType(k) /\ Chained(k) /\ Placed(k, NONE) /\ Queued(k, NONE, iss) /\ NONE \notin Tags
    BY NoneIsNoTag DEF PoolInv
  <2>2. /\ Live(k, x) /\ WellFormed(k.req[x]) /\ k.req[x].reqCode \in FlashCodes
        /\ k.prevBlockingReq[x] = NONE /\ x # iss /\ x \in Waiting(k)
    BY <2>1 DEF Queued, Live, Waiting
  <2>3. d \in Dies
    BY <2>2, BlockFacts DEF WellFormed
  <2>4. /\ q \in Seq(Tags) /\ Distinct(q)
        /\ \A t : In(q, t) <=> t # x /\ In(k.rowAddrDepReqQ[d], t)
    <3>1. k.rowAddrDepReqQ[d] \in Seq(Tags) /\ Distinct(k.rowAddrDepReqQ[d])
          /\ In(k.rowAddrDepReqQ[d], x)
      BY <2>1, <2>3 DEF PoolType, Placed
    <3> QED BY <3>1, RemovedFacts
  <2>5. n = PutToNandReqQ(LetThrough(m, x, TRUE), x)
    <3>1. m = [k EXCEPT !.rowAddrDepReqQ[d] = RemoveFirst(@, x)]
      BY <2>1 DEF PoolType
    <3>2. n = PutToNandReqQ(LetThrough([k EXCEPT !.rowAddrDepReqQ[d] = RemoveFirst(@, x)],
                                       x, TRUE), x)
      BY <1>2 DEF ReleaseIfPassed
    <3> HIDE DEF m, d
    <3> QED BY <3>1, <3>2
  <2> HIDE DEF q
  <2>6. /\ qs \in [Dies -> Seq(Tags)] /\ qs[d] = q
        /\ \A c \in Dies : c # d => qs[c] = k.rowAddrDepReqQ[c]
    BY <2>1, <2>3, <2>4 DEF PoolType
  <2>7. k.req[x].block[1] = d
    OBVIOUS
  <2> HIDE DEF qs, d
  <2>8. /\ PoolType(m) /\ SameChains(k, m) /\ SameTable(k, m)
        /\ m.reqQueueType = k.reqQueueType /\ m.nvmeDmaReqQ = k.nvmeDmaReqQ
        /\ m.nandReqQ = k.nandReqQ /\ m.rowAddrDepReqQ = qs
    BY <2>1, <2>6 DEF PoolType, SameChains, SameTable
  <2> HIDE DEF m
  <2>9. /\ \A t \in Tags : Live(m, t) <=> Live(k, t)
        /\ Waiting(m) = Waiting(k) /\ m.req = k.req /\ m.prevBlockingReq = k.prevBlockingReq
    BY <2>8 DEF Live, Waiting, SameChains
  <2>10. /\ Live(m, x) /\ m.prevBlockingReq[x] = NONE /\ m.req[x].reqCode \in FlashCodes
         /\ Waiting(m) \cup {x} = Waiting(m) /\ RowAddrPass(m, x)
    BY <1>2, <2>2, <2>8, <2>9 DEF RowAddrPass, SameTable
  <2>11. PoolInv(m, x, iss)
    <3>1. Chained(m)
      BY <2>1, <2>8, <2>9, ChainsKept
    <3>2. Placed(m, x)
      <4>1. \A c \in Dies : Distinct(m.rowAddrDepReqQ[c]) /\ Distinct(m.nandReqQ[c])
        BY <2>1, <2>4, <2>6, <2>8 DEF Placed
      <4>2. ASSUME NEW t \in Tags, NEW c \in Dies
            PROVE  In(m.rowAddrDepReqQ[c], t) <=>
                     /\ t # x /\ m.reqQueueType[t] = "BLOCKED_BY_ROW_ADDR_DEP"
                     /\ m.req[t].block[1] = c
        <5>1. In(k.rowAddrDepReqQ[c], t) <=>
                k.reqQueueType[t] = "BLOCKED_BY_ROW_ADDR_DEP" /\ k.req[t].block[1] = c
          BY <2>1 DEF Placed
        <5>2. CASE c = d
          BY <2>4, <2>6, <2>8, <2>9, <5>1, <5>2
        <5>3. CASE c # d
          <6>1. In(m.rowAddrDepReqQ[c], t) <=> In(k.rowAddrDepReqQ[c], t)
            BY <2>6, <2>8, <5>3
          <6> QED BY <2>7, <2>8, <2>9, <5>1, <5>3, <6>1
        <5> QED BY <5>2, <5>3
      <4>3. ASSUME NEW t \in Tags
            PROVE  In(m.nvmeDmaReqQ, t) <=> t # x /\ m.reqQueueType[t] = "NVME_DMA"
        BY <2>1, <2>8 DEF Placed
      <4>4. ASSUME NEW t \in Tags, NEW c \in Dies
            PROVE  In(m.nandReqQ[c], t) <=>
                     t # x /\ m.reqQueueType[t] = "NAND" /\ m.req[t].block[1] = c
        BY <2>1, <2>8, <2>9 DEF Placed
      <4>5. Distinct(m.nvmeDmaReqQ)
        BY <2>1, <2>8 DEF Placed
      <4> QED BY <4>1, <4>2, <4>3, <4>4, <4>5 DEF Placed
    <3>3. Queued(m, x, iss)
      BY <2>1, <2>2, <2>8, <2>9 DEF Queued
    <3> QED BY <2>8, <3>1, <3>2, <3>3 DEF PoolInv
  <2>12. ASSUME NEW g, Order(k, Waiting(k), iss, dat, f, sh, g, age, now)
         PROVE  Order(m, Waiting(m) \cup {x}, iss, dat, f, sh, g, age, now)
    <3>1. DiesInv(m, f, g)
      BY <2>1, <2>8, <2>9, <2>12, DiesKept DEF Order
    <3>2. Aged(m, iss, age, now) /\ EntriesInv(m, dat, sh) /\ IssuingInv(m, iss, sh)
      BY <2>8, <2>9, <2>12, ChainsOrderKept DEF Order
    <3>3. BlocksInv(m, Waiting(m), g, sh, age)
      <4> DEFINE W == Waiting(k)
      <4>1. W \in SUBSET Tags /\ \A t \in W : WellFormed(k.req[t])
        BY <2>1 DEF Queued, Waiting, Live
      <4>2. BlocksInv(k, W, g, sh, age) /\ W \ W = {}
        BY <2>12 DEF Order
      <4> HIDE DEF W
      <4>3. BlocksInv(m, W, g, sh, age)
        BY <2>8, <2>9, <4>1, <4>2, BlocksKept
      <4> QED BY <2>9, <4>3 DEF W
    <3> QED BY <2>10, <3>1, <3>2, <3>3 DEF Order
  <2>13. ASSUME NEW g
         PROVE  /\ PoolInv(n, NONE, iss) /\ Untouched(m, n, x)
                /\ n.reqQueueType[x] = "NAND"
                /\ Order(m, Waiting(m) \cup {x}, iss, dat, f, sh, g, age, now) =>
                     Order(n, Waiting(n), iss, dat, f, sh, Applied(m.req[x], g), age, now)
    BY <2>5, <2>10, <2>11, ToNand
  <2>14. Untouched(k, n, x)
    BY <2>8, <2>9, <2>13 DEF Untouched
  <2>15. ASSUME InOrder(k, iss, dat, f, sh, age, now)
         PROVE  InOrder(n, iss, dat, f, sh, age, now)
    <3>1. PICK g : Order(k, Waiting(k), iss, dat, f, sh, g, age, now)
      BY <2>15 DEF InOrder
    <3> QED BY <2>12, <2>13, <3>1 DEF InOrder
  <2>16. Onward(k.reqQueueType, n.reqQueueType)
    <3>1. StageOf(k.reqQueueType[x]) < StageOf(n.reqQueueType[x])
      BY <2>13 DEF StageOf
    <3> QED BY <2>14, <3>1 DEF Onward, Untouched
  <2> QED BY <1>2, <2>13, <2>14, <2>15, <2>16
<1> QED BY <1>1, <1>2

\* ReleaseBlockedByRowAddrDepReq keeps the order.
LEMMA ReleaseLoopKeeps ==
  ASSUME NEW k, NEW iss, PoolInv(k, NONE, iss), NEW d \in Dies,
         NEW n, n = ReleaseBlockedByRowAddrDepReq(k, d),
         NEW dat, NEW f, NEW sh, ShadowType(sh), NEW age, NEW now
  PROVE  /\ PoolInv(n, NONE, iss)
         /\ \/ /\ n = k
               /\ k.nandReqQ[d] = <<>> =>
                    \A t \in Tags : In(k.rowAddrDepReqQ[d], t) => ~ RowAddrPass(k, t)
            \/ Onward(k.reqQueueType, n.reqQueueType)
         /\ InOrder(k, iss, dat, f, sh, age, now) => InOrder(n, iss, dat, f, sh, age, now)
<1>1. CASE k.nandReqQ[d] # <<>>
  BY <1>1 DEF ReleaseBlockedByRowAddrDepReq
<1>2. CASE k.nandReqQ[d] = <<>>
  <2> DEFINE s == k.rowAddrDepReqQ[d]
  <2>1. s \in Seq(Tags) /\ Distinct(s)
        /\ \A t \in Tags : In(s, t) => k.reqQueueType[t] = "BLOCKED_BY_ROW_ADDR_DEP"
    BY NoneIsNoTag DEF PoolInv, PoolType, Placed
  <2>2. n = LoopEnd("release", {}, k, s)
    BY <1>2, LoopsAreFolds
  <2> HIDE DEF s
  <2>3. PICK at : /\ at[0] = k
                  /\ \A i \in 1 .. Len(s) : at[i] = LoopStep("release", {}, at[i - 1], s[i])
                  /\ LoopEnd("release", {}, k, s) = at[Len(s)]
    BY <2>1, LoopUnfolds
  <2> DEFINE Q(i) == /\ PoolInv(at[i], NONE, iss)
                     /\ \/ at[i] = k /\ \A j \in 1 .. i : ~ RowAddrPass(k, s[j])
                        \/ Onward(k.reqQueueType, at[i].reqQueueType)
                     /\ InOrder(k, iss, dat, f, sh, age, now) =>
                          InOrder(at[i], iss, dat, f, sh, age, now)
                     /\ \A t \in Tags : (\A j \in 1 .. i : s[j] # t) =>
                          at[i].reqQueueType[t] = k.reqQueueType[t]
             T == {i \in 0 .. Len(s) : ~ Q(i)}
  <2>4. Len(s) \in Nat /\ DOMAIN s = 1 .. Len(s) /\ \A i \in 1 .. Len(s) : s[i] \in Tags
    BY <2>1
  <2>5. T = {}
    <3> SUFFICES ASSUME T # {} PROVE FALSE
      OBVIOUS
    <3>1. PICK m \in T : \A i \in T : m <= i
      <4>1. T \subseteq Nat
        BY <2>4
      <4> HIDE DEF T
      <4> QED BY <4>1, LeastNumber
    <3>2. m # 0
      BY <2>3, <3>1
    <3>3. /\ m \in 1 .. Len(s) /\ m - 1 \in 0 .. Len(s) /\ ~ (m <= m - 1)
          /\ \A j \in 1 .. m - 1 : j \in 1 .. Len(s) /\ j # m /\ j \in 1 .. m
          /\ m \in 1 .. m
      BY <2>4, <3>1, <3>2
    <3>4. Q(m - 1)
      BY <3>1, <3>3
    <3> DEFINE j == at[m - 1]
               x == s[m]
    <3>5. /\ PoolInv(j, NONE, iss) /\ x \in Tags
          /\ \/ j = k /\ \A i \in 1 .. m - 1 : ~ RowAddrPass(k, s[i])
             \/ Onward(k.reqQueueType, j.reqQueueType)
          /\ InOrder(k, iss, dat, f, sh, age, now) => InOrder(j, iss, dat, f, sh, age, now)
          /\ \A t \in Tags : (\A i \in 1 .. m - 1 : s[i] # t) =>
               j.reqQueueType[t] = k.reqQueueType[t]
      BY <2>4, <3>3, <3>4
    <3>6. j.reqQueueType[x] = "BLOCKED_BY_ROW_ADDR_DEP"
      <4>1. \A i \in 1 .. m - 1 : s[i] # x
        BY <2>1, <2>4, <3>3 DEF Distinct
      <4>2. In(s, x)
        BY <2>4, <3>3 DEF In
      <4> QED BY <2>1, <3>5, <4>1, <4>2
    <3>7. at[m] = ReleaseIfPassed(j, x)
      BY <2>3, <3>3 DEF LoopStep
    <3>8. s[m] = x
      OBVIOUS
    <3> HIDE DEF j, x
    <3>9. /\ PoolInv(at[m], NONE, iss) /\ Untouched(j, at[m], x)
          /\ IF RowAddrPass(j, x) THEN Onward(j.reqQueueType, at[m].reqQueueType)
             ELSE at[m] = j
          /\ InOrder(j, iss, dat, f, sh, age, now) => InOrder(at[m], iss, dat, f, sh, age, now)
      BY <3>5, <3>6, <3>7, PassedKeeps
    <3>10. ASSUME NEW t \in Tags, \A i \in 1 .. m : s[i] # t
           PROVE  at[m].reqQueueType[t] = k.reqQueueType[t]
      <4>1. t # x /\ \A i \in 1 .. m - 1 : s[i] # t
        BY <3>3, <3>8, <3>10
      <4> QED BY <3>5, <3>9, <4>1 DEF Untouched
    <3>11. \/ at[m] = k /\ \A i \in 1 .. m : ~ RowAddrPass(k, s[i])
           \/ Onward(k.reqQueueType, at[m].reqQueueType)
      <4>1. CASE Onward(k.reqQueueType, j.reqQueueType)
        BY <3>9, <4>1, OnwardAgain
      <4>2. CASE j = k /\ \A i \in 1 .. m - 1 : ~ RowAddrPass(k, s[i])
        <5>1. \A i \in 1 .. m : i = m \/ i \in 1 .. m - 1
          BY <3>3
        <5> QED BY <3>8, <3>9, <4>2, <5>1
      <4> QED BY <3>5, <4>1, <4>2
    <3>12. Q(m)
      BY <3>5, <3>9, <3>10, <3>11
    <3> QED BY <3>1, <3>12
  <2>6. Q(Len(s))
    BY <2>4, <2>5
  <2>7. (\A j \in 1 .. Len(s) : ~ RowAddrPass(k, s[j])) =>
          \A t \in Tags : In(s, t) => ~ RowAddrPass(k, t)
    BY <2>4 DEF In
  <2> QED BY <2>2, <2>3, <2>6, <2>7 DEF s
<1> QED BY <1>1, <1>2

\* The first request of die d finishes, and the die is looked at again.
LEMMA FinishNandKeeps ==
  ASSUME DepInv(pool, issuing, data, flash, shadow), NEW d \in Dies, FinishNandReq(d)
  PROVE  DepInv(pool, issuing, data, flash, shadow)'
<1> DEFINE x == Head(pool.nandReqQ[d])
           r == pool.req[x]
           m == HeadFinished(pool, d)
           n == ReleaseBlockedByRowAddrDepReq(m, d)
<1>1. /\ pool.nandReqQ[d] # <<>> /\ NandEffect(r) /\ pool' = n
      /\ issuing' = issuing /\ shadow' = shadow
  BY DEF FinishNandReq, HeadFinished
<1>2. PoolInv(pool, NONE, issuing) /\ ShadowType(shadow)
  BY DEF DepInv
<1> HIDE DEF m
<1>3. ASSUME NEW g, NEW age, NEW now
      PROVE  /\ WellFormed(r) /\ r.reqCode \in FlashCodes /\ pool.prevBlockingReq[x] = NONE
             /\ x \in Tags /\ Live(pool, x)
             /\ PoolInv(m, NONE, issuing)
             /\ Order(pool, Waiting(pool), issuing, data, flash, shadow, g, age, now) =>
                  /\ Fits(r, flash) /\ Applied(r, flash) \in Flashes
                  /\ \E g2 : Order(m, Waiting(m), issuing, Moved(r, data), Applied(r, flash),
                                   shadow, g2, age, now)
  <2>1. /\ pool.nandReqQ[d] # <<>> /\ x = Head(pool.nandReqQ[d])
        /\ m = HeadFinished(pool, d)
    BY <1>1 DEF m
  <2> HIDE DEF x, r
  <2> HIDE DEF m
  <2>2. /\ x \in Tags /\ Live(pool, x) /\ WellFormed(pool.req[x])
        /\ pool.req[x].reqCode \in FlashCodes /\ pool.prevBlockingReq[x] = NONE
        /\ PoolInv(m, NONE, issuing)
        /\ Order(pool, Waiting(pool), issuing, data, flash, shadow, g, age, now) =>
             /\ Fits(pool.req[x], flash) /\ Applied(pool.req[x], flash) \in Flashes
             /\ \E g2 : Order(m, Waiting(m), issuing, Moved(pool.req[x], data),
                              Applied(pool.req[x], flash), shadow, g2, age, now)
    BY <1>2, <2>1, OperationKeeps
  <2> QED BY <2>2 DEF r
<1> HIDE DEF n
<1>4. ASSUME NEW dat, NEW f, NEW age, NEW now
      PROVE  /\ PoolInv(n, NONE, issuing)
             /\ InOrder(m, issuing, dat, f, shadow, age, now) =>
                  InOrder(n, issuing, dat, f, shadow, age, now)
  BY <1>2, <1>3, ReleaseLoopKeeps DEF n
<1>5. ASSUME DrainedBeforeReuse PROVE Ordered(n, issuing, data', flash', shadow)
  <2>1. PICK g, age, now :
          Order(pool, Waiting(pool), issuing, data, flash, shadow, g, age, now)
    BY <1>5 DEF DepInv, Ordered
  <2>2. /\ Fits(r, flash) /\ InOrder(m, issuing, Moved(r, data), Applied(r, flash),
                                     shadow, age, now)
    BY <1>3, <2>1 DEF InOrder
  <2>3. InOrder(n, issuing, Moved(r, data), Applied(r, flash), shadow, age, now)
    BY <1>4, <2>2
  <2>4. Ordered(n, issuing, Moved(r, data), Applied(r, flash), shadow)
    BY <2>3 DEF InOrder, Ordered
  <2>5. r.reqCode = "WRITE" => data[r.entry] = r.want
    BY <1>3, <2>1 DEF Order, EntriesInv
  <2> HIDE DEF r
  <2>6. data' = Moved(r, data) /\ flash' = Applied(r, flash)
    <3>1. CASE r.reqCode = "READ"
      BY <1>1, <2>2, <3>1 DEF NandEffect, Moved, Applied, Fits
    <3>2. CASE r.reqCode = "WRITE"
      BY <1>1, <2>5, <3>2 DEF NandEffect, Moved, Applied
    <3>3. CASE r.reqCode = "ERASE"
      BY <1>1, <3>3 DEF NandEffect, Moved, Applied, FlashPages
    <3> QED BY <1>3, <3>1, <3>2, <3>3 DEF FlashCodes
  <2> QED BY <2>4, <2>6
<1> QED BY <1>1, <1>2, <1>4, <1>5 DEF DepInv

\* A die without work is looked at again.
LEMMA IdleKeeps ==
  ASSUME DepInv(pool, issuing, data, flash, shadow), NEW d \in Dies, ReleaseIdleWay(d)
  PROVE  DepInv(pool, issuing, data, flash, shadow)'
<1> DEFINE n == ReleaseBlockedByRowAddrDepReq(pool, d)
<1>1. /\ pool' = n /\ issuing' = issuing /\ shadow' = shadow
      /\ data' = data /\ flash' = flash
  BY DEF ReleaseIdleWay
<1>2. PoolInv(pool, NONE, issuing) /\ ShadowType(shadow)
  BY DEF DepInv
<1> HIDE DEF n
<1>3. ASSUME NEW age, NEW now
      PROVE  /\ PoolInv(n, NONE, issuing)
             /\ InOrder(pool, issuing, data, flash, shadow, age, now) =>
                  InOrder(n, issuing, data, flash, shadow, age, now)
  BY <1>2, ReleaseLoopKeeps DEF n
<1>4. ASSUME DrainedBeforeReuse PROVE Ordered(n, issuing, data, flash, shadow)
  <2>1. PICK age, now : InOrder(pool, issuing, data, flash, shadow, age, now)
    BY <1>4 DEF DepInv, Ordered, InOrder
  <2>2. InOrder(n, issuing, data, flash, shadow, age, now)
    BY <1>3, <2>1
  <2> QED BY <2>2 DEF Ordered, InOrder
<1> QED BY <1>1, <1>2, <1>3, <1>4 DEF DepInv

\* The transfers of done from the host to entry e, and what is in the entries
\* when those of S have finished.
Received(k, done, e) == {t \in done : k.req[t].reqCode = "RxDMA" /\ k.req[t].entry = e}

Arrived(k, done, S, dat) ==
  [e \in Entries |-> IF \E t \in S : t \in Received(k, done, e)
                     THEN k.req[CHOOSE t \in Received(k, done, e) : TRUE].want
                     ELSE dat[e]]

\* An entry has one request with the engine, so each transfer moves its content.
LEMMA ArrivedFacts ==
  ASSUME NEW k, NEW iss, PoolInv(k, NONE, iss), NEW done \in SUBSET Tags,
         \A t \in done : k.reqQueueType[t] = "NVME_DMA",
         NEW dat, NEW S, NEW x
  PROVE  /\ x \in done => Arrived(k, done, S \cup {x}, dat) =
                            Moved(k.req[x], Arrived(k, done, S, dat))
         /\ x \notin done => Arrived(k, done, S \cup {x}, dat) = Arrived(k, done, S, dat)
<1>2. ASSUME \A e \in Entries : x \notin Received(k, done, e)
      PROVE  Arrived(k, done, S \cup {x}, dat) = Arrived(k, done, S, dat)
  <2>1. \A e \in Entries : (\E t \in S \cup {x} : t \in Received(k, done, e)) <=>
                           (\E t \in S : t \in Received(k, done, e))
    BY <1>2
  <2> QED BY <2>1 DEF Arrived
<1>3. x \notin done => \A e \in Entries : x \notin Received(k, done, e)
  BY DEF Received
<1>4. ASSUME x \in done
      PROVE  Arrived(k, done, S \cup {x}, dat) = Moved(k.req[x], Arrived(k, done, S, dat))
  <2> DEFINE r == k.req[x]
  <2>1. /\ Live(k, x) /\ WellFormed(r) /\ r.reqCode \in DmaCodes /\ x \in Tags
        /\ k.prevBlockingReq[x] = NONE
    BY <1>4, NoneIsNoTag DEF PoolInv, Queued, Live
  <2>2. CASE r.reqCode = "RxDMA"
    <3>1. r.entry \in Entries /\ x \in Received(k, done, r.entry)
      BY <1>4, <2>1, <2>2 DEF WellFormed, Received
    <3>2. ASSUME NEW t \in Received(k, done, r.entry) PROVE t = x
      <4>1. t \in Tags /\ Live(k, t) /\ k.prevBlockingReq[t] = NONE /\ k.req[t].entry = r.entry
        BY <3>2, NoneIsNoTag DEF PoolInv, Queued, Live, Received
      <4> QED BY <2>1, <3>1, <4>1, NoneIsNoTag DEF PoolInv, Chained
    <3>3. (CHOOSE t \in Received(k, done, r.entry) : TRUE) = x
      BY <3>1, <3>2
    <3>4. \A e \in Entries : e # r.entry => x \notin Received(k, done, e)
      BY DEF Received
    <3>5. Moved(r, Arrived(k, done, S, dat)) =
            [Arrived(k, done, S, dat) EXCEPT ![r.entry] = r.want]
      BY <2>2 DEF Moved
    <3>6. k.req[x] = r
      OBVIOUS
    <3> DEFINE R(e) == Received(k, done, e)
    <3> HIDE DEF r, R
    <3>7. \A e \in Entries :
            (IF \E t \in S \cup {x} : t \in R(e)
             THEN k.req[CHOOSE t \in R(e) : TRUE].want ELSE dat[e])
            = IF e = r.entry THEN r.want
              ELSE IF \E t \in S : t \in R(e)
                   THEN k.req[CHOOSE t \in R(e) : TRUE].want ELSE dat[e]
      <4> SUFFICES ASSUME NEW e \in Entries
                   PROVE  (IF \E t \in S \cup {x} : t \in R(e)
                           THEN k.req[CHOOSE t \in R(e) : TRUE].want ELSE dat[e])
                          = IF e = r.entry THEN r.want
                            ELSE IF \E t \in S : t \in R(e)
                                 THEN k.req[CHOOSE t \in R(e) : TRUE].want ELSE dat[e]
        OBVIOUS
      <4>1. CASE e = r.entry
        <5>1. x \in R(e) /\ (CHOOSE t \in R(e) : TRUE) = x
          BY <3>1, <3>3, <4>1 DEF R
        <5>2. \E t \in S \cup {x} : t \in R(e)
          BY <5>1
        <5> QED BY <3>6, <4>1, <5>1, <5>2
      <4>2. CASE e # r.entry
        <5>1. (\E t \in S \cup {x} : t \in R(e)) <=> (\E t \in S : t \in R(e))
          BY <3>4, <4>2 DEF R
        <5> QED BY <4>2, <5>1
      <4> QED BY <4>1, <4>2
    <3>8. Arrived(k, done, S \cup {x}, dat) = [Arrived(k, done, S, dat) EXCEPT ![r.entry] = r.want]
      <4> DEFINE A == Arrived(k, done, S, dat)
                 B == Arrived(k, done, S \cup {x}, dat)
      <4>1. /\ A = [e \in Entries |-> IF \E t \in S : t \in R(e)
                                      THEN k.req[CHOOSE t \in R(e) : TRUE].want ELSE dat[e]]
            /\ B = [e \in Entries |-> IF \E t \in S \cup {x} : t \in R(e)
                                      THEN k.req[CHOOSE t \in R(e) : TRUE].want ELSE dat[e]]
        BY DEF Arrived, R
      <4> HIDE DEF A, B
      <4>2. /\ A = [e \in Entries |-> A[e]] /\ B = [e \in Entries |-> B[e]]
            /\ \A e \in Entries : B[e] = IF e = r.entry THEN r.want ELSE A[e]
        BY <3>7, <4>1
      <4>3. B = [A EXCEPT ![r.entry] = r.want]
        BY <3>1, <4>2
      <4> QED BY <4>3 DEF A, B
    <3> QED BY <3>5, <3>6, <3>8
  <2>3. CASE r.reqCode = "TxDMA"
    <3>1. \A e \in Entries : x \notin Received(k, done, e)
      BY <2>3 DEF Received
    <3>2. Moved(r, Arrived(k, done, S, dat)) = Arrived(k, done, S, dat)
      BY <2>3 DEF Moved
    <3> QED BY <1>2, <3>1, <3>2
  <2> QED BY <2>1, <2>2, <2>3 DEF DmaCodes
<1> QED BY <1>2, <1>3, <1>4

LEMMA ReversedFacts ==
  ASSUME NEW s \in Seq(Tags), Distinct(s)
  PROVE  /\ Reverse(s) \in Seq(Tags) /\ Distinct(Reverse(s))
         /\ \A v : In(Reverse(s), v) <=> In(s, v)
<1> DEFINE r == Reverse(s)
           n == Len(s)
<1>1. /\ n \in Nat /\ DOMAIN s = 1 .. n /\ \A i \in 1 .. n : s[i] \in Tags
      /\ r = [i \in 1 .. n |-> s[(n - i) + 1]]
  BY DEF Reverse
<1> HIDE DEF n
<1>2. \A i \in 1 .. n : (n - i) + 1 \in 1 .. n /\ (n - ((n - i) + 1)) + 1 = i
  BY <1>1
<1>3. /\ DOMAIN r = 1 .. n /\ \A i \in 1 .. n : r[i] = s[(n - i) + 1]
      /\ r \in [1 .. n -> Tags]
  BY <1>1, <1>2
<1>4. r \in Seq(Tags)
  BY <1>1, <1>3
<1>5. Distinct(r)
  <2> SUFFICES ASSUME NEW i \in 1 .. n, NEW j \in 1 .. n, r[i] = r[j]
               PROVE  i = j
    BY <1>3 DEF Distinct
  <2>1. s[(n - i) + 1] = s[(n - j) + 1]
    BY <1>3
  <2>2. (n - i) + 1 = (n - j) + 1
    BY <1>1, <1>2, <2>1 DEF Distinct
  <2> QED BY <1>1, <2>2
<1>6. ASSUME NEW v PROVE In(r, v) <=> In(s, v)
  BY <1>1, <1>2, <1>3 DEF In
<1> QED BY <1>4, <1>5, <1>6

\* The walk of CheckDoneNvmeDmaReq keeps the order.
LEMMA TransfersKeep ==
  ASSUME NEW k, NEW iss, PoolInv(k, NONE, iss), NEW done \in SUBSET Tags,
         \A t \in done : k.reqQueueType[t] = "NVME_DMA",
         NEW n, n = FinishTransfers(k, done),
         NEW dat, NEW f, NEW sh, ShadowType(sh), NEW age, NEW now
  PROVE  /\ PoolInv(n, NONE, iss)
         /\ done # {} => Onward(k.reqQueueType, n.reqQueueType)
         /\ InOrder(k, iss, dat, f, sh, age, now) =>
              InOrder(n, iss, Arrived(k, done, done, dat), f, sh, age, now)
<1> DEFINE s == Reverse(k.nvmeDmaReqQ)
<1>1. /\ s \in Seq(Tags) /\ Distinct(s)
      /\ \A t \in Tags : In(s, t) <=> k.reqQueueType[t] = "NVME_DMA"
  <2>1. /\ k.nvmeDmaReqQ \in Seq(Tags) /\ Distinct(k.nvmeDmaReqQ)
        /\ \A t \in Tags : In(k.nvmeDmaReqQ, t) <=> k.reqQueueType[t] = "NVME_DMA"
    BY NoneIsNoTag DEF PoolInv, PoolType, Placed
  <2> QED BY <2>1, ReversedFacts
<1>2. n = LoopEnd("transfers", done, k, s)
  BY LoopsAreFolds
<1> HIDE DEF s
<1>3. PICK at : /\ at[0] = k
                /\ \A i \in 1 .. Len(s) : at[i] = LoopStep("transfers", done, at[i - 1], s[i])
                /\ LoopEnd("transfers", done, k, s) = at[Len(s)]
  BY <1>1, LoopUnfolds
<1> DEFINE Seen(i) == {s[j] : j \in 1 .. i}
           D(i) == Arrived(k, done, Seen(i), dat)
           Q(i) == /\ PoolInv(at[i], NONE, iss)
                   /\ \/ at[i] = k /\ \A j \in 1 .. i : s[j] \notin done
                      \/ Onward(k.reqQueueType, at[i].reqQueueType)
                   /\ InOrder(k, iss, dat, f, sh, age, now) =>
                        InOrder(at[i], iss, D(i), f, sh, age, now)
                   /\ \A t \in done : (\A j \in 1 .. i : s[j] # t) =>
                        at[i].reqQueueType[t] = "NVME_DMA" /\ at[i].req[t] = k.req[t]
           T == {i \in 0 .. Len(s) : ~ Q(i)}
<1>4. Len(s) \in Nat /\ DOMAIN s = 1 .. Len(s) /\ \A i \in 1 .. Len(s) : s[i] \in Tags
  BY <1>1
<1>5. T = {}
  <2> SUFFICES ASSUME T # {} PROVE FALSE
    OBVIOUS
  <2>1. PICK m \in T : \A i \in T : m <= i
    <3>1. T \subseteq Nat
      BY <1>4
    <3> HIDE DEF T
    <3> QED BY <3>1, LeastNumber
  <2>2. m # 0
    <3>1. Seen(0) = {}
      OBVIOUS
    <3>2. InOrder(k, iss, dat, f, sh, age, now) => InOrder(k, iss, D(0), f, sh, age, now)
      <4>1. dat \in [Entries -> Contents] => D(0) = dat
        BY <3>1 DEF Arrived
      <4>2. InOrder(k, iss, dat, f, sh, age, now) => dat \in [Entries -> Contents]
        BY DEF InOrder, Order, EntriesInv
      <4> HIDE DEF D
      <4> QED BY <4>1, <4>2
    <3>3. Q(0)
      BY <1>3, <3>2
    <3> QED BY <2>1, <3>3
  <2>3. /\ m \in 1 .. Len(s) /\ m - 1 \in 0 .. Len(s) /\ ~ (m <= m - 1)
        /\ \A j \in 1 .. m - 1 : j \in 1 .. Len(s) /\ j # m /\ j \in 1 .. m
        /\ 1 .. m = (1 .. m - 1) \cup {m}
    BY <1>4, <2>1, <2>2
  <2>4. Q(m - 1)
    BY <2>1, <2>3
  <2> DEFINE j == at[m - 1]
             x == s[m]
             dat2 == D(m - 1)
  <2>5. /\ PoolInv(j, NONE, iss) /\ x \in Tags
        /\ \/ j = k /\ \A i \in 1 .. m - 1 : s[i] \notin done
           \/ Onward(k.reqQueueType, j.reqQueueType)
        /\ InOrder(k, iss, dat, f, sh, age, now) => InOrder(j, iss, dat2, f, sh, age, now)
        /\ \A t \in done : (\A i \in 1 .. m - 1 : s[i] # t) =>
             j.reqQueueType[t] = "NVME_DMA" /\ j.req[t] = k.req[t]
    BY <1>4, <2>3, <2>4
  <2>6. \A i \in 1 .. m - 1 : s[i] # x
    BY <1>1, <1>4, <2>3 DEF Distinct
  <2>7. at[m] = IF x \in done THEN FinishTransfer(j, x) ELSE j
    BY <1>3, <2>3 DEF LoopStep
  <2>8. s[m] = x /\ Seen(m) = Seen(m - 1) \cup {x}
    BY <2>3
  <2>9. D(m) = IF x \in done THEN Moved(k.req[x], dat2) ELSE dat2
    <3> HIDE DEF Seen
    <3> QED BY <2>8, ArrivedFacts
  <2>10. \A t \in done : (\A i \in 1 .. m : s[i] # t) =>
           t # x /\ \A i \in 1 .. m - 1 : s[i] # t
    BY <2>3
  <2> DEFINE Dm == D(m)
  <2> HIDE DEF j, x, dat2, Dm
  <2>11. /\ PoolInv(at[m], NONE, iss)
         /\ IF x \in done THEN Onward(j.reqQueueType, at[m].reqQueueType) ELSE at[m] = j
         /\ InOrder(j, iss, dat2, f, sh, age, now) => InOrder(at[m], iss, Dm, f, sh, age, now)
         /\ \A t \in done : (\A i \in 1 .. m : s[i] # t) =>
              at[m].reqQueueType[t] = "NVME_DMA" /\ at[m].req[t] = k.req[t]
    <3>1. CASE x \notin done
      <4>1. at[m] = j /\ Dm = dat2
        BY <2>7, <2>9, <3>1 DEF Dm
      <4> QED BY <2>5, <2>10, <3>1, <4>1
    <3>2. CASE x \in done
      <4>1. j.reqQueueType[x] = "NVME_DMA" /\ j.req[x] = k.req[x]
        BY <2>5, <2>6, <3>2
      <4>2. at[m] = FinishTransfer(j, x) /\ Dm = Moved(j.req[x], dat2)
        BY <2>7, <2>9, <3>2, <4>1 DEF Dm
      <4>3. ASSUME NEW g
            PROVE  /\ PoolInv(at[m], NONE, iss) /\ Onward(j.reqQueueType, at[m].reqQueueType)
                   /\ \A t \in Tags : t # x /\ j.reqQueueType[t] # "BLOCKED_BY_BUF_DEP" =>
                        at[m].req[t] = j.req[t] /\ at[m].reqQueueType[t] = j.reqQueueType[t]
                   /\ Order(j, Waiting(j), iss, dat2, f, sh, g, age, now) =>
                        \E g2 : Order(at[m], Waiting(at[m]), iss, Moved(j.req[x], dat2), f, sh,
                                      g2, age, now)
        BY <2>5, <4>1, <4>2, TransferKeeps
      <4>4. InOrder(j, iss, dat2, f, sh, age, now) => InOrder(at[m], iss, Dm, f, sh, age, now)
        BY <4>2, <4>3 DEF InOrder
      <4>5. ASSUME NEW t \in done, \A i \in 1 .. m : s[i] # t
            PROVE  at[m].reqQueueType[t] = "NVME_DMA" /\ at[m].req[t] = k.req[t]
        <5>1. t \in Tags /\ t # x /\ j.reqQueueType[t] = "NVME_DMA" /\ j.req[t] = k.req[t]
          BY <2>5, <2>10, <4>5
        <5> QED BY <4>3, <5>1
      <4> QED BY <3>2, <4>3, <4>4, <4>5
    <3> QED BY <3>1, <3>2
  <2>12. \/ at[m] = k /\ \A i \in 1 .. m : s[i] \notin done
         \/ Onward(k.reqQueueType, at[m].reqQueueType)
    <3>1. CASE x \in done
      BY <2>5, <2>11, <3>1, OnwardAgain
    <3>2. CASE x \notin done
      BY <2>3, <2>5, <2>8, <2>11, <3>2
    <3> QED BY <3>1, <3>2
  <2>13. Q(m)
    BY <2>5, <2>11, <2>12 DEF Dm
  <2> QED BY <2>1, <2>13
<1>6. Q(Len(s))
  <2> HIDE DEF Q
  <2>1. Len(s) \in 0 .. Len(s)
    BY <1>4
  <2> QED BY <1>5, <2>1
<1>7. D(Len(s)) = Arrived(k, done, done, dat)
  <2>1. ASSUME NEW e \in Entries
        PROVE  (\E t \in Seen(Len(s)) : t \in Received(k, done, e)) <=>
               (\E t \in done : t \in Received(k, done, e))
    <3>1. \A t \in Received(k, done, e) : t \in done
      BY DEF Received
    <3>2. \A t \in done : t \in Seen(Len(s))
      BY <1>1, <1>4 DEF In
    <3> QED BY <3>1, <3>2
  <2> HIDE DEF Seen
  <2> QED BY <2>1 DEF Arrived
<1>8. ASSUME done # {} PROVE Onward(k.reqQueueType, at[Len(s)].reqQueueType)
  <2>1. PICK t \in done : In(s, t)
    BY <1>1, <1>8
  <2>2. ~ \A j \in 1 .. Len(s) : s[j] \notin done
    BY <1>4, <2>1 DEF In
  <2> QED BY <1>6, <2>2
<1> QED BY <1>2, <1>3, <1>6, <1>7, <1>8

\* CheckDoneNvmeDmaReq keeps the order.
LEMMA TransfersDoneKeep ==
  ASSUME DepInv(pool, issuing, data, flash, shadow), CheckDoneNvmeDmaReq
  PROVE  DepInv(pool, issuing, data, flash, shadow)'
<1>1. PICK done \in SUBSET ToSet(pool.nvmeDmaReqQ) :
        /\ pool' = FinishTransfers(pool, done)
        /\ data' = [e \in Entries |->
             IF Received(pool, done, e) = {} THEN data[e]
             ELSE pool.req[CHOOSE t \in Received(pool, done, e) : TRUE].want]
        /\ issuing' = issuing /\ flash' = flash /\ shadow' = shadow
  BY DEF CheckDoneNvmeDmaReq, Received
<1>2. PoolInv(pool, NONE, issuing) /\ ShadowType(shadow)
  BY DEF DepInv
<1>3. done \in SUBSET Tags /\ \A t \in done : pool.reqQueueType[t] = "NVME_DMA"
  <2>1. \A t \in ToSet(pool.nvmeDmaReqQ) : In(pool.nvmeDmaReqQ, t) /\ t \in Tags
    BY <1>2 DEF ToSet, In, PoolInv, PoolType
  <2> QED BY <1>2, <2>1, NoneIsNoTag DEF PoolInv, Placed
<1>4. data' = Arrived(pool, done, done, data)
  <2>1. \A e \in Entries : (\E t \in done : t \in Received(pool, done, e)) <=>
                           Received(pool, done, e) # {}
    BY DEF Received
  <2> DEFINE R(e) == Received(pool, done, e)
  <2>2. /\ data' = [e \in Entries |-> IF R(e) = {} THEN data[e]
                                      ELSE pool.req[CHOOSE t \in R(e) : TRUE].want]
        /\ Arrived(pool, done, done, data) =
             [e \in Entries |-> IF \E t \in done : t \in R(e)
                                THEN pool.req[CHOOSE t \in R(e) : TRUE].want ELSE data[e]]
    BY <1>1 DEF Arrived
  <2> HIDE DEF R
  <2>3. \A e \in Entries : (\E t \in done : t \in R(e)) <=> R(e) # {}
    BY <2>1 DEF R
  <2> QED BY <2>2, <2>3
<1> DEFINE n == FinishTransfers(pool, done)
           dat2 == Arrived(pool, done, done, data)
<1>5. n = FinishTransfers(pool, done)
  OBVIOUS
<1> HIDE DEF n
<1>6. ASSUME NEW age, NEW now
      PROVE  /\ PoolInv(n, NONE, issuing)
             /\ InOrder(pool, issuing, data, flash, shadow, age, now) =>
                  InOrder(n, issuing, dat2, flash, shadow, age, now)
  BY <1>2, <1>3, <1>5, TransfersKeep
<1> HIDE DEF dat2
<1>7. ASSUME DrainedBeforeReuse PROVE Ordered(n, issuing, dat2, flash, shadow)
  <2>1. PICK age, now : InOrder(pool, issuing, data, flash, shadow, age, now)
    BY <1>7 DEF DepInv, Ordered, InOrder
  <2>2. InOrder(n, issuing, dat2, flash, shadow, age, now)
    BY <1>6, <2>1
  <2> QED BY <2>2 DEF Ordered, InOrder
<1>8. pool' = n /\ data' = dat2
  BY <1>1, <1>4, <1>5 DEF dat2
<1> QED BY <1>1, <1>2, <1>6, <1>7, <1>8 DEF DepInv

-----------------------------------------------------------------------------
(* The invariant holds. *)

LEMMA InitPool == DepInit => PoolInv(pool, NONE, issuing)
<1> SUFFICES ASSUME DepInit PROVE PoolInv(pool, NONE, issuing)
  OBVIOUS
<1>1. /\ pool = [req             |-> [t \in Tags |-> NoRequest],
                 reqQueueType    |-> [t \in Tags |-> "FREE"],
                 prevBlockingReq |-> [t \in Tags |-> NONE],
                 nextBlockingReq |-> [t \in Tags |-> NONE],
                 blockingReqTail |-> [e \in Entries |-> NONE],
                 nvmeDmaReqQ     |-> <<>>,
                 nandReqQ        |-> [d \in Dies |-> <<>>],
                 rowAddrDepReqQ  |-> [d \in Dies |-> <<>>],
                 permittedProgPage   |-> [b \in DieBlocks |-> 0],
                 blockedReadReqCnt   |-> [b \in DieBlocks |-> 0],
                 blockedEraseReqFlag |-> [b \in DieBlocks |-> FALSE]]
      /\ issuing = NONE /\ NONE \notin Tags /\ NONE \notin Entries
  BY NoneIsNoTag DEF DepInit
<1>2. /\ NoRequest \in Requests /\ NONE \in Links /\ "FREE" \in QueueTypes
      /\ 0 \in 0 .. PAGES_PER_BLOCK /\ <<>> \in Seq(Tags)
  BY PagesAssumption DEF NoRequest, Request, Requests, Links, QueueTypes
<1>3. PoolType(pool)
  <2> HIDE DEF Requests, Links, QueueTypes, NoRequest
  <2> QED BY <1>1, <1>2 DEF PoolType
<1>4. \A t \in Tags : pool.reqQueueType[t] = "FREE" /\ ~ Live(pool, t)
  BY <1>1 DEF Live
<1>5. Chained(pool)
  BY <1>1, <1>4 DEF Chained
<1>6. \A t : ~ In(<<>>, t)
  BY DEF In
<1>7. Distinct(<<>>)
  BY DEF Distinct
<1>8. Placed(pool, NONE)
  BY <1>1, <1>4, <1>6, <1>7 DEF Placed
<1>9. Queued(pool, NONE, issuing)
  BY <1>1, <1>4 DEF Queued, Links
<1> QED BY <1>3, <1>5, <1>8, <1>9 DEF PoolInv

LEMMA InitBlocks ==
  ASSUME DepInit, NEW age, NEW b \in DieBlocks
  PROVE  BlockInv(pool, {}, flash, shadow, age, b)
<1>1. /\ pool.permittedProgPage[b] = 0 /\ pool.blockedReadReqCnt[b] = 0
      /\ pool.blockedEraseReqFlag[b] = FALSE
      /\ flash = [bp \in DieBlocks \X Pages |-> ERASED]
      /\ shadow.flash = flash /\ shadow.issued[b] = 0
  BY DEF DepInit
<1>2. \A code : OfBlock(pool, {}, code, b) = {}
  BY DEF OfBlock
<1>3. ~ OldUse(pool, b) /\ FirstHeld(pool, b) = 0 /\ EndHeld(pool, shadow, b) = 0
  BY <1>1 DEF OldUse, FirstHeld, EndHeld
<1>4. \A p \in Pages : flash[<<b, p>>] = ERASED
  BY <1>1
<1>5. \A p \in Pages : ~ (p < 0)
  BY PagesAssumption DEF Pages
<1>6. ReadsHeld(pool, {}, flash, age, b)
  BY <1>1, <1>2, FS_EmptySet DEF ReadsHeld
<1>7. WritesHeld(pool, {}, shadow, age, b)
  BY <1>2, <1>3, <1>5 DEF WritesHeld
<1>8. ErasesHeld(pool, {}, age, b)
  BY <1>1, <1>2 DEF ErasesHeld
<1>9. PagesHeld(pool, flash, shadow, b)
  BY <1>1, <1>4, <1>5 DEF PagesHeld
<1> QED BY <1>6, <1>7, <1>8, <1>9 DEF BlockInv

LEMMA InitKeeps == DepInit => DepInv(pool, issuing, data, flash, shadow)
<1> SUFFICES ASSUME DepInit PROVE DepInv(pool, issuing, data, flash, shadow)
  OBVIOUS
<1>1. PoolInv(pool, NONE, issuing)
  BY InitPool
<1>2. /\ data = [e \in Entries |-> ERASED]
      /\ flash = [bp \in DieBlocks \X Pages |-> ERASED]
      /\ shadow = [data |-> data, flash |-> flash, issued |-> [b \in DieBlocks |-> 0]]
      /\ issuing = NONE
  BY DEF DepInit
<1>3. /\ \A t \in Tags : ~ Live(pool, t) /\ pool.prevBlockingReq[t] = NONE
      /\ \A e \in Entries : pool.blockingReqTail[e] = NONE
      /\ Waiting(pool) = {}
      /\ \A d \in Dies : pool.nandReqQ[d] = <<>>
  BY DEF DepInit, Live, Waiting
<1>4. data \in [Entries -> Contents] /\ flash \in Flashes
  BY <1>2 DEF Contents, Flashes, FlashPages
<1>5. ShadowType(shadow)
  <2>1. 0 \in 0 .. PAGES_PER_BLOCK
    BY PagesAssumption
  <2> QED BY <1>2, <1>4, <2>1 DEF ShadowType
<1> DEFINE age == [t \in Tags |-> 0]
<1>6. Aged(pool, issuing, age, 0)
  BY <1>3 DEF Aged
<1>7. EntriesInv(pool, data, shadow)
  BY <1>2, <1>3, <1>4, NoneIsNoTag DEF EntriesInv
<1>8. DiesInv(pool, flash, flash)
  <2> SUFFICES ASSUME NEW d \in Dies PROVE \E h : Leads(pool, d, flash, flash, h)
    BY <1>4 DEF DiesInv
  <2> DEFINE h == [i \in 0 .. 0 |-> flash]
  <2>1. Len(pool.nandReqQ[d]) = 0
    BY <1>3
  <2>2. h \in [0 .. 0 -> Flashes] /\ h[0] = flash
    BY <1>4
  <2> HIDE DEF h
  <2>3. Leads(pool, d, flash, flash, h)
    BY <2>1, <2>2, SameOnFacts DEF Leads
  <2> QED BY <2>3
<1> HIDE DEF age
<1>9. BlocksInv(pool, Waiting(pool), flash, shadow, age)
  BY <1>3, InitBlocks DEF BlocksInv
<1>10. IssuingInv(pool, issuing, shadow)
  BY <1>2, NoneIsNoTag DEF IssuingInv
<1>11. Order(pool, Waiting(pool), issuing, data, flash, shadow, flash, age, 0)
  BY <1>6, <1>7, <1>8, <1>9, <1>10 DEF Order
<1> QED BY <1>1, <1>5, <1>11 DEF DepInv, Ordered

LEMMA NextKeeps ==
  ASSUME DepInv(pool, issuing, data, flash, shadow), [DepNext]_depVars
  PROVE  DepInv(pool, issuing, data, flash, shadow)'
<1>1. CASE UNCHANGED depVars
  BY <1>1 DEF depVars
<1>2. ASSUME NEW t \in Tags, NEW e \in Entries, NEW v \in Values, IssueRx(t, e, v)
      PROVE  DepInv(pool, issuing, data, flash, shadow)'
  BY <1>2, IssueRxKeeps
<1>3. ASSUME NEW t \in Tags, NEW e \in Entries, IssueTx(t, e)
      PROVE  DepInv(pool, issuing, data, flash, shadow)'
  BY <1>3, IssueTxKeeps
<1>4. ASSUME NEW t \in Tags, NEW e \in Entries, NEW b \in DieBlocks, IssueWrite(t, e, b)
      PROVE  DepInv(pool, issuing, data, flash, shadow)'
  BY <1>4, IssueWriteKeeps
<1>5. ASSUME NEW t \in Tags, NEW e \in Entries, NEW b \in DieBlocks, NEW p \in Pages,
             IssueRead(t, e, b, p)
      PROVE  DepInv(pool, issuing, data, flash, shadow)'
  BY <1>5, IssueReadKeeps
<1>6. ASSUME NEW t \in Tags, NEW b \in DieBlocks, IssueErase(t, b)
      PROVE  DepInv(pool, issuing, data, flash, shadow)'
  BY <1>6, IssueEraseKeeps
<1>7. CASE EndSyncReleaseEraseReq
  BY <1>7, EndSyncKeeps
<1>8. CASE CheckDoneNvmeDmaReq
  BY <1>8, TransfersDoneKeep
<1>9. ASSUME NEW d \in Dies, FinishNandReq(d)
      PROVE  DepInv(pool, issuing, data, flash, shadow)'
  BY <1>9, FinishNandKeeps
<1>10. ASSUME NEW d \in Dies, ReleaseIdleWay(d)
       PROVE  DepInv(pool, issuing, data, flash, shadow)'
  BY <1>10, IdleKeeps
<1> QED BY <1>1, <1>2, <1>3, <1>4, <1>5, <1>6, <1>7, <1>8, <1>9, <1>10
        DEF DepNext, Round, SchedulingNandReq

\* The chains, the queues and the table fit together, and, when blocks are drained
\* before they are used again, the requests left lead from what is in the entries
\* and the pages to what finishing each before the next was issued had left there.
THEOREM DependencyInvariant ==
  DepSpec => []DepInv(pool, issuing, data, flash, shadow)
<1>1. DepInit => DepInv(pool, issuing, data, flash, shadow)
  BY InitKeeps
<1>2. DepInv(pool, issuing, data, flash, shadow) /\ [DepNext]_depVars
      => DepInv(pool, issuing, data, flash, shadow)'
  BY NextKeeps
<1> QED BY <1>1, <1>2, PTL DEF DepSpec

-----------------------------------------------------------------------------
(* What the requests find, and what they leave. *)

\* RunsAsIssued: a die programs an erased page, with the content its entry was
\* issued with; a read finds the page it was issued for; a transfer to the host
\* finds the content of its entry at that time.
THEOREM OperationsRunAsIssued ==
  ASSUME DrainedBeforeReuse
  PROVE  DepSpec => []RunsAsIssued
<1>1. ASSUME DepInv(pool, issuing, data, flash, shadow) PROVE RunsAsIssued
  <2>1. PoolInv(pool, NONE, issuing) /\ ShadowType(shadow)
    BY <1>1 DEF DepInv
  <2>2. PICK g, age, now :
          Order(pool, Waiting(pool), issuing, data, flash, shadow, g, age, now)
    BY <1>1 DEF DepInv, Ordered
  <2>3. \A t \in Tags : /\ Live(pool, t) /\ pool.req[t].reqCode \in {"TxDMA", "WRITE"}
                        /\ pool.prevBlockingReq[t] = NONE
                        => data[pool.req[t].entry] = pool.req[t].want
    BY <2>2 DEF Order, EntriesInv
  <2>4. ASSUME NEW d \in Dies, pool.nandReqQ[d] # <<>>
        PROVE  LET r  == pool.req[Head(pool.nandReqQ[d])]
                   at == <<r.block, r.page>>
               IN  /\ r.reqCode = "READ"  => flash[at] = r.want
                   /\ r.reqCode = "WRITE" => flash[at] = ERASED /\ data[r.entry] = r.want
    <3> DEFINE x == Head(pool.nandReqQ[d])
               n == HeadFinished(pool, d)
    <3>1. x = Head(pool.nandReqQ[d]) /\ n = HeadFinished(pool, d)
      OBVIOUS
    <3> HIDE DEF x, n
    <3>2. /\ x \in Tags /\ Live(pool, x) /\ pool.prevBlockingReq[x] = NONE
          /\ Fits(pool.req[x], flash)
      BY <2>1, <2>2, <2>4, <3>1, OperationKeeps
    <3> QED BY <2>3, <3>1, <3>2 DEF Fits
  <2>5. ASSUME NEW t \in ToSet(pool.nvmeDmaReqQ), pool.req[t].reqCode = "TxDMA"
        PROVE  data[pool.req[t].entry] = pool.req[t].want
    <3>1. t \in Tags /\ In(pool.nvmeDmaReqQ, t)
      BY <2>1 DEF ToSet, In, PoolInv, PoolType
    <3>2. pool.reqQueueType[t] = "NVME_DMA" /\ t # NONE
      BY <2>1, <3>1, NoneIsNoTag DEF PoolInv, Placed
    <3>3. Live(pool, t) /\ pool.prevBlockingReq[t] = NONE
      BY <2>1, <3>1, <3>2 DEF PoolInv, Queued, Live
    <3> QED BY <2>3, <2>5, <3>1, <3>3
  <2> QED BY <2>4, <2>5 DEF RunsAsIssued
<1> QED BY <1>1, DependencyInvariant, PTL

LEMMA RestedData ==
  ASSUME PoolInv(pool, NONE, issuing), ShadowType(shadow), \A t \in Tags : ~ Live(pool, t),
         EntriesInv(pool, data, shadow)
  PROVE  data = shadow.data
<1>1. ASSUME NEW e \in Entries PROVE pool.blockingReqTail[e] = NONE
  <2>1. pool.blockingReqTail[e] \in Tags \cup {NONE}
    BY DEF PoolInv, PoolType, Links
  <2>2. \A t \in Tags : pool.blockingReqTail[e] # t
    BY DEF PoolInv, Chained
  <2> QED BY <2>1, <2>2
<1>2. \A e \in Entries : data[e] = shadow.data[e]
  BY <1>1 DEF EntriesInv
<1>3. data \in [Entries -> Contents] /\ shadow.data \in [Entries -> Contents]
  BY DEF EntriesInv, ShadowType
<1> QED BY <1>2, <1>3

LEMMA RestedFlash ==
  ASSUME PoolInv(pool, NONE, issuing), ShadowType(shadow), \A t \in Tags : ~ Live(pool, t),
         NEW g, NEW age, DiesInv(pool, flash, g),
         BlocksInv(pool, Waiting(pool), g, shadow, age)
  PROVE  flash = shadow.flash
<1>1. flash \in Flashes /\ g \in Flashes /\ shadow.flash \in Flashes
  BY DEF DiesInv, ShadowType
<1>2. ASSUME NEW d \in Dies PROVE SameOn(d, flash, g)
  <2>1. PICK h : Leads(pool, d, flash, g, h)
    BY DEF DiesInv
  <2>2. pool.nandReqQ[d] \in Seq(Tags)
    BY DEF PoolInv, PoolType
  <2>3. \A t \in Tags : ~ In(pool.nandReqQ[d], t)
    BY DEF PoolInv, Placed, Live
  <2>4. Len(pool.nandReqQ[d]) = 0
    <3> DEFINE q == pool.nandReqQ[d]
    <3>1. q \in Seq(Tags) /\ \A t \in Tags : ~ In(q, t)
      BY <2>2, <2>3
    <3> HIDE DEF q
    <3>2. ASSUME Len(q) # 0 PROVE FALSE
      <4>1. 1 \in DOMAIN q /\ q[1] \in Tags
        BY <3>1, <3>2
      <4> QED BY <3>1, <4>1 DEF In
    <3> QED BY <3>2 DEF q
  <2>5. SameOn(d, h[0], flash) /\ SameOn(d, h[0], g)
    BY <2>1, <2>4 DEF Leads
  <2> QED BY <2>5, SameOnFacts
<1>3. Waiting(pool) = {}
  BY DEF Waiting, Live
<1>4. ASSUME NEW b \in DieBlocks, NEW p \in Pages
      PROVE  flash[<<b, p>>] = shadow.flash[<<b, p>>]
  <2>1. \A code : OfBlock(pool, Waiting(pool), code, b) = {}
    BY <1>3 DEF OfBlock
  <2>2. BlockInv(pool, Waiting(pool), g, shadow, age, b)
    BY DEF BlocksInv
  <2>3. ~ pool.blockedEraseReqFlag[b]
    BY <2>1, <2>2 DEF BlockInv, ErasesHeld
  <2>4. /\ FirstHeld(pool, b) = pool.permittedProgPage[b]
        /\ EndHeld(pool, shadow, b) = shadow.issued[b]
    BY <2>3 DEF FirstHeld, EndHeld, OldUse
  <2> DEFINE perm == pool.permittedProgPage[b]
             iss == shadow.issued[b]
  <2>5. perm \in 0 .. PAGES_PER_BLOCK /\ iss \in 0 .. PAGES_PER_BLOCK
    BY DEF PoolInv, PoolType, ShadowType
  <2>6. /\ \A i \in Pages : ~ (perm <= i /\ i < iss)
        /\ perm <= iss
        /\ \A i \in Pages : i < perm => g[<<b, i>>] = shadow.flash[<<b, i>>]
        /\ \A i \in Pages : perm <= i => g[<<b, i>>] = ERASED
        /\ \A i \in Pages : iss <= i => shadow.flash[<<b, i>>] = ERASED
    <3>1. WritesHeld(pool, Waiting(pool), shadow, age, b) /\ PagesHeld(pool, g, shadow, b)
      BY <2>2 DEF BlockInv
    <3>2. \A i \in Pages : ~ (perm <= i /\ i < iss)
      BY <2>1, <2>4, <3>1 DEF WritesHeld
    <3> QED BY <2>3, <3>1, <3>2 DEF PagesHeld
  <2> HIDE DEF perm, iss
  <2>7. perm = iss
    <3>1. ASSUME perm < iss PROVE FALSE
      <4>1. perm \in Pages
        BY <2>5, <3>1, PagesAssumption DEF Pages
      <4> QED BY <2>5, <2>6, <3>1, <4>1
    <3> QED BY <2>5, <2>6, <3>1
  <2>8. g[<<b, p>>] = shadow.flash[<<b, p>>]
    <3>1. p < perm \/ perm <= p
      BY <2>5, PagesAssumption DEF Pages
    <3> QED BY <2>6, <2>7, <3>1
  <2>9. flash[<<b, p>>] = g[<<b, p>>]
    <3>1. b[1] \in Dies /\ <<b, p>> \in FlashPages /\ <<b, p>>[1] = b
      BY BlockFacts DEF FlashPages
    <3> QED BY <1>2, <3>1 DEF SameOn
  <2> QED BY <2>8, <2>9
<1>5. \A bp \in FlashPages : flash[bp] = shadow.flash[bp]
  BY <1>4 DEF FlashPages
<1> QED BY <1>1, <1>5 DEF Flashes

\* AtRestAsIssued: when no request is left, every entry and every page holds what
\* it would had each request finished before the next was issued.
THEOREM RestsAsIssued ==
  ASSUME DrainedBeforeReuse
  PROVE  DepSpec => []AtRestAsIssued
<1>1. ASSUME DepInv(pool, issuing, data, flash, shadow), \A t \in Tags : IsFree(t)
      PROVE  data = shadow.data /\ flash = shadow.flash
  <2>1. PoolInv(pool, NONE, issuing) /\ ShadowType(shadow) /\ \A t \in Tags : ~ Live(pool, t)
    BY <1>1 DEF DepInv, IsFree, Live
  <2>2. PICK g, age, now :
          Order(pool, Waiting(pool), issuing, data, flash, shadow, g, age, now)
    BY <1>1 DEF DepInv, Ordered
  <2>3. /\ EntriesInv(pool, data, shadow) /\ DiesInv(pool, flash, g)
        /\ BlocksInv(pool, Waiting(pool), g, shadow, age)
    BY <2>2 DEF Order
  <2> QED BY <2>1, <2>3, RestedData, RestedFlash
<1>2. DepInv(pool, issuing, data, flash, shadow) => AtRestAsIssued
  BY <1>1 DEF AtRestAsIssued
<1> QED BY <1>2, DependencyInvariant, PTL

\* OneUserPerEntry: of the requests of an entry only the first of the chain is
\* with the device, however blocks are used.
THEOREM EntriesHaveOneUser == DepSpec => []OneUserPerEntry
<1>1. ASSUME DepInv(pool, issuing, data, flash, shadow) PROVE OneUserPerEntry
  <2> SUFFICES ASSUME NEW t \in Tags, NEW u \in Tags,
                      pool.reqQueueType[t] \in {"NAND", "NVME_DMA"},
                      pool.reqQueueType[u] # "FREE", pool.req[t].entry # NONE,
                      pool.req[u].entry = pool.req[t].entry, pool.prevBlockingReq[u] = NONE
               PROVE  t = u
    BY DEF OneUserPerEntry
  <2>1. Live(pool, t) /\ Live(pool, u)
    BY DEF Live
  <2>2. pool.prevBlockingReq[t] = NONE
    BY <1>1, NoneIsNoTag DEF DepInv, PoolInv, Queued
  <2> QED BY <1>1, <2>1, <2>2 DEF DepInv, PoolInv, Chained
<1> QED BY <1>1, DependencyInvariant, PTL

\* The oldest request held by the table passes it: what a request waits for there
\* was issued before.
LEMMA OldestPasses ==
  ASSUME PoolInv(pool, NONE, issuing), ShadowType(shadow), NEW g, NEW age \in [Tags -> Nat],
         NEW x \in Tags, pool.reqQueueType[x] = "BLOCKED_BY_ROW_ADDR_DEP",
         \A t \in Tags : Live(pool, t) => age[x] <= age[t],
         BlocksInv(pool, Waiting(pool), g, shadow, age)
  PROVE  RowAddrPass(pool, x)
<1> DEFINE r == pool.req[x]
           b == r.block
           W == Waiting(pool)
           perm == pool.permittedProgPage[b]
<1>1. WellFormed(r) /\ r.reqCode \in FlashCodes /\ x \in W
  BY NoneIsNoTag DEF PoolInv, Queued, Live, Waiting
<1>2. b \in DieBlocks /\ BlockInv(pool, W, g, shadow, age, b)
  BY <1>1 DEF WellFormed, BlocksInv
<1>3. \A t \in W : t \in Tags /\ ~ (age[t] < age[x]) /\ WellFormed(pool.req[t])
  BY DEF PoolInv, Queued, Live, Waiting
<1>4. /\ perm \in 0 .. PAGES_PER_BLOCK /\ PAGES_PER_BLOCK \in Nat
      /\ \A t \in OfBlock(pool, W, "WRITE", b) : pool.req[t].page \in Pages
  BY <1>2, <1>3, PagesAssumption DEF PoolInv, PoolType, OfBlock, WellFormed
<1>5. \A code \in FlashCodes : \A t \in OfBlock(pool, W, code, b) : t \in W
  BY DEF OfBlock
<1>6. /\ pool.req[x] = r /\ r.block = b /\ pool.permittedProgPage[b] = perm
      /\ x \in OfBlock(pool, W, r.reqCode, b)
  BY <1>1 DEF OfBlock
<1> HIDE DEF r, b, W, perm
<1>7. /\ ReadsHeld(pool, W, g, age, b) /\ WritesHeld(pool, W, shadow, age, b)
      /\ ErasesHeld(pool, W, age, b)
  BY <1>2 DEF BlockInv
<1>8. CASE r.reqCode = "READ"
  <2>1. x \in OfBlock(pool, W, "READ", b)
    BY <1>6, <1>8
  <2>2. \A u \in OfBlock(pool, W, "WRITE", b) : ~ (age[u] < age[x])
    BY <1>3, <1>5 DEF FlashCodes
  <2>3. r.page < perm
    BY <1>6, <1>7, <2>1, <2>2 DEF ReadsHeld
  <2> QED BY <1>6, <1>8, <2>3 DEF RowAddrPass
<1>9. CASE r.reqCode = "WRITE"
  <2>1. x \in OfBlock(pool, W, "WRITE", b)
    BY <1>6, <1>9
  <2>2. /\ \A u \in OfBlock(pool, W, "WRITE", b) : ~ (age[u] < age[x])
        /\ \A u \in OfBlock(pool, W, "ERASE", b) : ~ (age[u] < age[x])
    BY <1>3, <1>5 DEF FlashCodes
  <2>3. /\ FirstHeld(pool, b) <= r.page /\ r.page < EndHeld(pool, shadow, b)
        /\ \A p \in Pages : FirstHeld(pool, b) <= p /\ p < EndHeld(pool, shadow, b) =>
             \E t \in OfBlock(pool, W, "WRITE", b) : pool.req[t].page = p
        /\ \A t \in OfBlock(pool, W, "WRITE", b) : ~ (pool.req[t].page < r.page)
    BY <1>6, <1>7, <2>1, <2>2 DEF WritesHeld
  <2>4. ~ (pool.blockedEraseReqFlag[b] /\ ~ OldUse(pool, b))
    <3>1. ASSUME pool.blockedEraseReqFlag[b], ~ OldUse(pool, b) PROVE FALSE
      <4>1. PICK y \in OfBlock(pool, W, "ERASE", b) : TRUE
        BY <1>7, <3>1 DEF ErasesHeld
      <4>2. age[y] < age[x]
        BY <1>7, <2>1, <3>1 DEF ErasesHeld
      <4> QED BY <2>2, <4>2
    <3> QED BY <3>1
  <2>5. FirstHeld(pool, b) = perm
    BY <1>6, <2>4 DEF FirstHeld
  <2>6. EndHeld(pool, shadow, b) \in 0 .. PAGES_PER_BLOCK
    BY <1>2, <1>4 DEF EndHeld, ShadowType
  <2>7. r.page \in Pages
    BY <1>4, <1>6, <2>1
  <2>8. r.page = perm
    <3>1. ASSUME perm < r.page PROVE FALSE
      <4>1. perm \in Pages /\ perm <= perm /\ perm < EndHeld(pool, shadow, b)
        BY <1>4, <2>3, <2>6, <2>7, <3>1 DEF Pages
      <4>2. PICK t \in OfBlock(pool, W, "WRITE", b) : pool.req[t].page = perm
        BY <2>3, <2>5, <4>1
      <4> QED BY <2>3, <3>1, <4>2
    <3> QED BY <1>4, <2>3, <2>5, <2>7, <3>1 DEF Pages
  <2> QED BY <1>6, <1>9, <2>8 DEF RowAddrPass
<1>10. CASE r.reqCode = "ERASE"
  <2>1. x \in OfBlock(pool, W, "ERASE", b)
    BY <1>6, <1>10
  <2>2. /\ \A u \in OfBlock(pool, W, "WRITE", b) : ~ (age[u] < age[x])
        /\ \A u \in OfBlock(pool, W, "READ", b) : ~ (age[u] < age[x])
    BY <1>3, <1>5 DEF FlashCodes
  <2>3. pool.blockedReadReqCnt[b] = 0
    <3>1. OfBlock(pool, W, "READ", b) = {}
      BY <1>7, <2>1, <2>2 DEF ErasesHeld
    <3> QED BY <1>7, <3>1, FS_EmptySet DEF ReadsHeld
  <2>4. pool.blockedEraseReqFlag[b]
    BY <1>7, <2>1 DEF ErasesHeld
  <2>5. perm = PAGES_PER_BLOCK
    <3>1. ASSUME perm < PAGES_PER_BLOCK PROVE FALSE
      <4>1. OldUse(pool, b)
        BY <1>6, <2>4, <3>1 DEF OldUse
      <4>2. FirstHeld(pool, b) = perm /\ EndHeld(pool, shadow, b) = PAGES_PER_BLOCK
        BY <1>6, <4>1 DEF FirstHeld, EndHeld
      <4>3. perm \in Pages /\ perm <= perm
        BY <1>4, <3>1 DEF Pages
      <4>4. PICK u \in OfBlock(pool, W, "WRITE", b) : TRUE
        BY <1>7, <3>1, <4>2, <4>3 DEF WritesHeld
      <4>5. age[u] < age[x]
        BY <1>7, <2>1, <4>1, <4>4 DEF ErasesHeld
      <4> QED BY <2>2, <4>4, <4>5
    <3> QED BY <1>4, <3>1
  <2> QED BY <1>6, <1>10, <2>3, <2>5 DEF RowAddrPass
<1> QED BY <1>1, <1>8, <1>9, <1>10 DEF FlashCodes

\* WaitsCanEnd: as long as a request is left the device has one to finish, or the
\* loop that waits goes on by itself; the oldest request left is the witness.
THEOREM WaitsEnd ==
  ASSUME DrainedBeforeReuse
  PROVE  DepSpec => []WaitsCanEnd
<1>1. ASSUME DepInv(pool, issuing, data, flash, shadow),
             \E t \in Tags : ~ IsFree(t), ~ UnderWay
      PROVE  WillBeReleased \/ MayGoOn
  <2>1. PoolInv(pool, NONE, issuing) /\ ShadowType(shadow)
    BY <1>1 DEF DepInv
  <2>2. PICK g, age, now :
          Order(pool, Waiting(pool), issuing, data, flash, shadow, g, age, now)
    BY <1>1 DEF DepInv, Ordered
  <2>3. /\ Aged(pool, issuing, age, now) /\ age \in [Tags -> Nat]
        /\ BlocksInv(pool, Waiting(pool), g, shadow, age)
    BY <2>2 DEF Order, Aged
  <2>4. PICK x \in Tags : Live(pool, x) /\ \A t \in Tags : Live(pool, t) => age[x] <= age[t]
    <3> DEFINE T == {age[t] : t \in {u \in Tags : Live(pool, u)}}
    <3>1. T \subseteq Nat /\ T # {}
      BY <1>1, <2>3 DEF IsFree, Live
    <3> HIDE DEF T
    <3>2. PICK a \in T : \A c \in T : a <= c
      BY <3>1, LeastNumber
    <3>3. PICK x \in Tags : Live(pool, x) /\ a = age[x]
      BY <3>2 DEF T
    <3>4. \A t \in Tags : Live(pool, t) => age[t] \in T
      BY DEF T
    <3> QED BY <3>2, <3>3, <3>4
  <2>5. \A t \in Tags : Live(pool, t) => ~ (age[t] < age[x])
    BY <2>3, <2>4
  <2>6. /\ pool.reqQueueType[x] # "NVME_DMA" /\ pool.reqQueueType[x] # "NAND"
        /\ \A d \in Dies : pool.nandReqQ[d] = <<>>
    <3>1. pool.nvmeDmaReqQ = <<>> /\ \A d \in Dies : pool.nandReqQ[d] = <<>>
      BY <1>1 DEF UnderWay
    <3>2. \A t : ~ In(<<>>, t)
      BY DEF In
    <3>3. pool.reqQueueType[x] # "NVME_DMA"
      BY <2>1, <3>1, <3>2, NoneIsNoTag DEF PoolInv, Placed
    <3>4. ASSUME pool.reqQueueType[x] = "NAND" PROVE FALSE
      <4>1. pool.req[x].block[1] \in Dies
        BY <2>1, <2>4, <3>4, NoneIsNoTag, BlockFacts DEF PoolInv, Queued, WellFormed
      <4>2. In(pool.nandReqQ[pool.req[x].block[1]], x)
        BY <2>1, <3>4, <4>1, NoneIsNoTag DEF PoolInv, Placed
      <4> QED BY <3>1, <3>2, <4>1, <4>2
    <3> QED BY <3>1, <3>3, <3>4
  <2>7. pool.reqQueueType[x] # "BLOCKED_BY_BUF_DEP"
    <3>1. ASSUME pool.reqQueueType[x] = "BLOCKED_BY_BUF_DEP" PROVE FALSE
      <4> DEFINE u == pool.prevBlockingReq[x]
      <4>1. u \in Tags
        BY <2>1, <3>1, NoneIsNoTag DEF PoolInv, PoolType, Queued, Links
      <4>2. Live(pool, u)
        BY <2>1, <2>4, <4>1 DEF PoolInv, Chained
      <4>3. age[u] < age[x]
        BY <2>3, <2>4, <4>1 DEF Aged
      <4> QED BY <2>5, <4>1, <4>2, <4>3
    <3> QED BY <3>1
  <2>8. CASE pool.reqQueueType[x] = "NONE"
    <3>1. issuing = x /\ x # NONE /\ pool.req[x].reqCode = "READ" /\ WellFormed(pool.req[x])
      BY <2>1, <2>4, <2>8, NoneIsNoTag DEF PoolInv, Queued
    <3> DEFINE b == pool.req[x].block
    <3>2. b \in DieBlocks
      BY <3>1 DEF WellFormed, FlashCodes
    <3>3. ASSUME pool.blockedEraseReqFlag[b] PROVE FALSE
      <4>1. PICK y \in OfBlock(pool, Waiting(pool), "ERASE", b) : TRUE
        BY <2>3, <3>2, <3>3 DEF BlocksInv, BlockInv, ErasesHeld
      <4>2. y \in Tags /\ Live(pool, y) /\ y # x
        BY <2>8 DEF OfBlock, Waiting, Live
      <4>3. age[y] < age[x]
        BY <2>3, <3>1, <4>2 DEF Aged
      <4> QED BY <2>5, <4>2, <4>3
    <3> QED BY <3>1, <3>3 DEF MayGoOn
  <2>9. CASE pool.reqQueueType[x] = "BLOCKED_BY_ROW_ADDR_DEP"
    <3> DEFINE d == pool.req[x].block[1]
    <3>1. d \in Dies
      BY <2>1, <2>4, <2>9, NoneIsNoTag, BlockFacts DEF PoolInv, Queued, WellFormed
    <3>2. In(pool.rowAddrDepReqQ[d], x)
      BY <2>1, <2>9, <3>1, NoneIsNoTag DEF PoolInv, Placed
    <3>3. RowAddrPass(pool, x)
      BY <2>1, <2>3, <2>4, <2>9, OldestPasses
    <3>4. x \in ToSet(pool.rowAddrDepReqQ[d])
      BY <3>2 DEF In, ToSet
    <3> QED BY <2>6, <3>1, <3>3, <3>4 DEF WillBeReleased
  <2> QED BY <2>1, <2>4, <2>6, <2>7, <2>8, <2>9 DEF PoolInv, PoolType, QueueTypes, Live
<1>2. DepInv(pool, issuing, data, flash, shadow) => WaitsCanEnd
  BY <1>1 DEF WaitsCanEnd
<1> QED BY <1>2, DependencyInvariant, PTL

-----------------------------------------------------------------------------
(* Waits come to an end. *)

\* A completion moves requests on.  So does a look at an idle die that has a held
\* request to let through, and any other leaves the pool as it is.
RoundsMoveOn ==
  [][/\ \/ CheckDoneNvmeDmaReq
        \/ \E d \in Dies : FinishNandReq(d)
        \/ \E d \in Dies : /\ ReleaseIdleWay(d)
                           /\ \E t \in ToSet(pool.rowAddrDepReqQ[d]) : RowAddrPass(pool, t)
        => Onward(pool.reqQueueType, pool'.reqQueueType)
     /\ Round => pool' = pool \/ Onward(pool.reqQueueType, pool'.reqQueueType)]_depVars

LEMMA TransfersMoveOn ==
  ASSUME PoolInv(pool, NONE, issuing), ShadowType(shadow), CheckDoneNvmeDmaReq
  PROVE  Onward(pool.reqQueueType, pool'.reqQueueType)
<1>1. PICK done \in (SUBSET ToSet(pool.nvmeDmaReqQ)) \ {{}} :
        pool' = FinishTransfers(pool, done)
  BY DEF CheckDoneNvmeDmaReq
<1>2. /\ done \in SUBSET Tags /\ done # {}
      /\ \A t \in done : pool.reqQueueType[t] = "NVME_DMA"
  <2>1. \A t \in ToSet(pool.nvmeDmaReqQ) : In(pool.nvmeDmaReqQ, t) /\ t \in Tags
    BY DEF ToSet, In, PoolInv, PoolType
  <2> QED BY <1>1, <2>1, NoneIsNoTag DEF PoolInv, Placed
<1> DEFINE n == FinishTransfers(pool, done)
<1>3. n = FinishTransfers(pool, done)
  OBVIOUS
<1> HIDE DEF n
<1>4. ASSUME NEW age, NEW now
      PROVE  /\ done # {} => Onward(pool.reqQueueType, n.reqQueueType)
             /\ InOrder(pool, issuing, data, flash, shadow, age, now) =>
                  InOrder(n, issuing, Arrived(pool, done, done, data), flash, shadow, age, now)
  BY <1>2, <1>3, TransfersKeep
<1> QED BY <1>1, <1>2, <1>3, <1>4

LEMMA ReleaseMovesOn ==
  ASSUME NEW k, PoolInv(k, NONE, issuing), ShadowType(shadow), NEW d \in Dies,
         NEW n, n = ReleaseBlockedByRowAddrDepReq(k, d)
  PROVE  \/ /\ n = k
            /\ k.nandReqQ[d] = <<>> =>
                 \A t \in Tags : In(k.rowAddrDepReqQ[d], t) => ~ RowAddrPass(k, t)
         \/ Onward(k.reqQueueType, n.reqQueueType)
<1>1. ASSUME NEW age, NEW now
      PROVE  /\ \/ /\ n = k
                   /\ k.nandReqQ[d] = <<>> =>
                        \A t \in Tags : In(k.rowAddrDepReqQ[d], t) => ~ RowAddrPass(k, t)
                \/ Onward(k.reqQueueType, n.reqQueueType)
             /\ InOrder(k, issuing, data, flash, shadow, age, now) =>
                  InOrder(n, issuing, data, flash, shadow, age, now)
  BY ReleaseLoopKeeps
<1> QED BY <1>1

LEMMA OperationsMoveOn ==
  ASSUME PoolInv(pool, NONE, issuing), ShadowType(shadow), NEW d \in Dies, FinishNandReq(d)
  PROVE  Onward(pool.reqQueueType, pool'.reqQueueType)
<1> DEFINE x == Head(pool.nandReqQ[d])
           m == HeadFinished(pool, d)
<1>1. /\ pool.nandReqQ[d] # <<>> /\ x = Head(pool.nandReqQ[d]) /\ m = HeadFinished(pool, d)
      /\ pool' = ReleaseBlockedByRowAddrDepReq(m, d)
  BY DEF FinishNandReq, HeadFinished
<1> HIDE DEF x, m
<1>2. ASSUME NEW g, NEW age, NEW now
      PROVE  /\ PoolInv(m, NONE, issuing) /\ Onward(pool.reqQueueType, m.reqQueueType)
             /\ Order(pool, Waiting(pool), issuing, data, flash, shadow, g, age, now) =>
                  Fits(pool.req[x], flash)
  BY <1>1, OperationKeeps
<1>3. pool' = m \/ Onward(m.reqQueueType, pool'.reqQueueType)
  BY <1>1, <1>2, ReleaseMovesOn
<1> QED BY <1>2, <1>3, OnwardAgain

\* No round undoes what another has done: requests only leave the blocked queues
\* for those of the device, and these for the pool.  With WaitsCanEnd, the loops
\* that wait for requests are over after at most three steps per request, for
\* nothing is issued meanwhile.
THEOREM EachRoundMovesOn == DepSpec => RoundsMoveOn
<1>1. ASSUME DepInv(pool, issuing, data, flash, shadow)
      PROVE  /\ \/ CheckDoneNvmeDmaReq
                \/ \E d \in Dies : FinishNandReq(d)
                \/ \E d \in Dies : /\ ReleaseIdleWay(d)
                                   /\ \E t \in ToSet(pool.rowAddrDepReqQ[d]) :
                                        RowAddrPass(pool, t)
                => Onward(pool.reqQueueType, pool'.reqQueueType)
             /\ Round => pool' = pool \/ Onward(pool.reqQueueType, pool'.reqQueueType)
  <2>1. PoolInv(pool, NONE, issuing) /\ ShadowType(shadow)
    BY <1>1 DEF DepInv
  <2>2. CheckDoneNvmeDmaReq => Onward(pool.reqQueueType, pool'.reqQueueType)
    BY <2>1, TransfersMoveOn
  <2>3. ASSUME NEW d \in Dies, FinishNandReq(d)
        PROVE  Onward(pool.reqQueueType, pool'.reqQueueType)
    BY <2>1, <2>3, OperationsMoveOn
  <2>4. ASSUME NEW d \in Dies, ReleaseIdleWay(d)
        PROVE  \/ /\ pool' = pool
                  /\ \A t \in ToSet(pool.rowAddrDepReqQ[d]) : ~ RowAddrPass(pool, t)
               \/ Onward(pool.reqQueueType, pool'.reqQueueType)
    <3>1. \A t \in ToSet(pool.rowAddrDepReqQ[d]) : In(pool.rowAddrDepReqQ[d], t) /\ t \in Tags
      BY <2>1 DEF ToSet, In, PoolInv, PoolType
    <3>2. pool' = ReleaseBlockedByRowAddrDepReq(pool, d) /\ pool.nandReqQ[d] = <<>>
      BY <2>4 DEF ReleaseIdleWay
    <3> QED BY <2>1, <3>1, <3>2, ReleaseMovesOn
  <2> QED BY <2>2, <2>3, <2>4 DEF Round, SchedulingNandReq
<1> QED BY <1>1, DependencyInvariant, PTL DEF RoundsMoveOn
=============================================================================
