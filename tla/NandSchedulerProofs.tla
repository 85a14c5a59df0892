------------------------- MODULE NandSchedulerProofs -------------------------
(***************************************************************************)
(* Proofs about the scheduler of a channel, for any number of ways: every  *)
(* way is on the list its state calls for, no request is taken for ended   *)
(* before its command has run, and the retries of a read are exact.        *)
(***************************************************************************)
EXTENDS NandScheduler, WellFoundedInduction, SequenceTheorems,
        FiniteSetTheorems, TLAPS

-----------------------------------------------------------------------------
(* The inductive invariant, of the tables k of the channel and the dies n. *)

DieStates == [Ways -> NandCodes \cup {"ready"}]

ChannelType(k) ==
  k \in [list           : [Lists -> Seq(Ways)],
         queue          : [Ways -> Seq(NandCodes)],
         dieState       : [Ways -> {"IDLE", "EXE"}],
         statusCheckOpt : [Ways -> {"NONE", "CHECK", "REPORT", "COMPLETION_FLAG"}],
         retryLimit     : [Ways -> 0 .. RETRY_LIMIT],
         completeFlag   : [Ways -> BOOLEAN],
         statusReport   : [Ways -> {"none", "pass", "fail", "running"}],
         cmd            : Commanded \cup {NONE},
         ran            : [Ways -> BOOLEAN],
         fails          : [Ways -> 0 .. RETRY_LIMIT]]

In(s, w)     == \E i \in DOMAIN s : s[i] = w
Distinct(s)  == \A i, j \in DOMAIN s : s[i] = s[j] => i = j
OnList(k, w, l) == In(k.list[l], w)

\* Every way is on one list, once.
Placed(k) ==
  /\ \A l \in Lists : Distinct(k.list[l])
  /\ \A w \in Ways : \E l \in Lists : OnList(k, w, l)
  /\ \A w \in Ways, l, m \in Lists : OnList(k, w, l) /\ OnList(k, w, m) => l = m

\* The list l fits the state of way w.
Belongs(k, w, l) ==
  CASE l = "idle"         -> k.dieState[w] = "IDLE"
    [] l = "statusCheck"  -> k.dieState[w] = "EXE" /\ k.statusCheckOpt[w] = "CHECK"
    [] l = "statusReport" -> k.dieState[w] = "EXE"
                             /\ k.statusCheckOpt[w] \in {"REPORT", "COMPLETION_FLAG"}
    [] OTHER -> k.dieState[w] = "IDLE" /\ k.queue[w] # <<>> /\ PriorityList(k, w) = l

\* A command for the die of way w is in the register.
InRegister(k, w) == k.cmd # NONE /\ k.cmd[1] # "STATUS" /\ k.cmd[2] = w

\* On a controller that shows itself busy, the command of a way is in the
\* register, then with the die, then carried out; only then can a report or the
\* flag of a transfer be taken for its end.
Phases(k, n, w) ==
  /\ k.dieState[w] = "IDLE" => n[w] = "ready" /\ ~ InRegister(k, w)
  /\ k.dieState[w] = "EXE" =>
       /\ InRegister(k, w) => n[w] = "ready"
       /\ k.ran[w] <=> n[w] = "ready" /\ ~ InRegister(k, w)
       /\ k.statusCheckOpt[w] = "REPORT" => k.ran[w]
       /\ k.statusCheckOpt[w] = "COMPLETION_FLAG" /\ k.completeFlag[w] => k.ran[w]

WayInv(k, n, w) ==
  /\ k.dieState[w] = "EXE" => k.queue[w] # <<>>
  /\ k.retryLimit[w] + k.fails[w] = RETRY_LIMIT
  /\ channelBusyShown => Phases(k, n, w)

SchedInv(k, n) ==
  /\ ChannelType(k)
  /\ n \in DieStates
  /\ Placed(k)
  /\ \A w \in Ways : WayInv(k, n, w)
  /\ \A w \in Ways, l \in Lists : OnList(k, w, l) => Belongs(k, w, l)

-----------------------------------------------------------------------------
(* The loops over the idle and the status report list are folds. *)

LEMMA LeastNumber ==
  ASSUME NEW T, T \subseteq Nat, T # {}
  PROVE  \E m \in T : \A n \in T : m <= n
<1>1. \E m \in T : \A n \in T : ~ (<<n, m>> \in OpToRel(<, Nat))
  BY NatLessThanWellFounded, WFMin, Zenon
<1>2. PICK m \in T : \A n \in T : ~ (<<n, m>> \in OpToRel(<, Nat))
  BY <1>1
<1>3. \A n \in T : ~ (n < m)
  BY <1>2 DEF OpToRel
<1> QED BY <1>3

\* One round of either loop, for way w.
LoopStep(loop, more, k, w) ==
  IF loop = "idle" THEN IdleWay(k, w, more[w]) ELSE ReportWay(k, w, more[w])

LoopEnd(loop, more, base, seq) ==
  LET Step(k, w) == LoopStep(loop, more, k, w) IN FoldLeft(Step, base, seq)

\* f gives the channel after the rounds for the ways with indices in s.
Rounds(f, loop, more, base, seq, n) ==
  f = [s \in SUBSET (1 .. n) |->
         IF s = {} THEN base
         ELSE LoopStep(loop, more, f[s \ {Max(s)}], seq[Max(s)])]

LEMMA MaxFacts ==
  ASSUME NEW n \in Nat, NEW s \in SUBSET (1 .. n)
  PROVE  /\ s # {} => Max(s) \in s /\ \A i \in s : i <= Max(s)
         /\ n \in s => Max(s) = n
<1>1. ASSUME s # {} PROVE \E m \in s : \A i \in s : i <= m
  <2> DEFINE T == {n - i : i \in s}
  <2>1. T \subseteq Nat /\ T # {}
    <3>1. \A i \in s : n - i \in Nat
      OBVIOUS
    <3>2. PICK i \in s : TRUE
      BY <1>1
    <3> QED BY <3>1, <3>2
  <2>2. PICK m \in T : \A i \in T : m <= i
    <3> HIDE DEF T
    <3> QED BY <2>1, LeastNumber
  <2>3. PICK j \in s : m = n - j
    BY <2>2
  <2>4. \A i \in s : n - j <= n - i
    BY <2>2, <2>3
  <2>5. \A i \in s : i <= j
    BY <2>4
  <2> QED BY <2>5
<1>2. s # {} => Max(s) \in s /\ \A i \in s : i <= Max(s)
  BY <1>1 DEF Max
<1>3. ASSUME n \in s PROVE Max(s) = n
  <2>1. Max(s) \in s /\ n <= Max(s)
    BY <1>2, <1>3
  <2>2. Max(s) \in Nat /\ Max(s) <= n
    <3>1. \A i \in s : i \in Nat /\ i <= n
      OBVIOUS
    <3> QED BY <2>1, <3>1
  <2> QED BY <2>1, <2>2
<1> QED BY <1>2, <1>3

LEMMA RoundsExist ==
  ASSUME NEW loop, NEW more, NEW base, NEW seq, NEW n \in Nat
  PROVE  \E f : Rounds(f, loop, more, base, seq, n)
<1> DEFINE T == {i \in Nat : ~ \E f : Rounds(f, loop, more, base, seq, i)}
<1> SUFFICES ASSUME T # {} PROVE FALSE
  OBVIOUS
<1>1. PICK m \in T : \A i \in T : m <= i
  <2>1. T \subseteq Nat
    OBVIOUS
  <2> HIDE DEF T
  <2> QED BY <2>1, LeastNumber
<1>2. CASE m = 0
  <2> DEFINE f == [s \in SUBSET (1 .. 0) |-> base]
  <2>1. \A s \in SUBSET (1 .. 0) : s = {}
    OBVIOUS
  <2>2. Rounds(f, loop, more, base, seq, 0)
    BY <2>1 DEF Rounds
  <2> QED BY <1>2, <2>2
<1>3. CASE m # 0
  <2>1. m - 1 \in Nat /\ ~ (m <= m - 1) /\ m \in 1 .. m /\ 1 .. m = (1 .. m - 1) \cup {m}
    BY <1>3
  <2>2. PICK f : Rounds(f, loop, more, base, seq, m - 1)
    BY <1>1, <2>1
  <2> DEFINE g == [s \in SUBSET (1 .. m) |->
                     IF m \in s THEN LoopStep(loop, more, f[s \ {m}], seq[m]) ELSE f[s]]
  <2>3. ASSUME NEW s \in SUBSET (1 .. m)
        PROVE  g[s] = IF s = {} THEN base
                      ELSE LoopStep(loop, more, g[s \ {Max(s)}], seq[Max(s)])
    <3>1. CASE m \in s
      <4>1. Max(s) = m /\ s # {}
        BY <3>1, MaxFacts
      <4>2. s \ {m} \in SUBSET (1 .. m) /\ m \notin s \ {m}
        OBVIOUS
      <4>3. g[s \ {m}] = f[s \ {m}]
        BY <4>2
      <4> QED BY <3>1, <4>1, <4>3
    <3>2. CASE m \notin s
      <4>1. s \in SUBSET (1 .. m - 1)
        BY <2>1, <3>2
      <4>2. f[s] = IF s = {} THEN base
                   ELSE LoopStep(loop, more, f[s \ {Max(s)}], seq[Max(s)])
        BY <2>2, <4>1 DEF Rounds
      <4>3. g[s] = f[s]
        BY <3>2
      <4>4. g[s \ {Max(s)}] = f[s \ {Max(s)}]
        BY <3>2
      <4> QED BY <4>2, <4>3, <4>4
    <3> QED BY <3>1, <3>2
  <2>4. Rounds(g, loop, more, base, seq, m)
    BY <2>3 DEF Rounds
  <2> QED BY <2>4
<1> QED BY <1>2, <1>3

\* The channel after the rounds for the first ways of seq, in order, the last of
\* them being that of the fold.
LEMMA LoopUnfolds ==
  ASSUME NEW loop \in {"idle", "statusReport"}, NEW more, NEW base, NEW S, NEW seq \in Seq(S)
  PROVE  \E at : /\ at[0] = base
                 /\ \A i \in 1 .. Len(seq) : at[i] = LoopStep(loop, more, at[i - 1], seq[i])
                 /\ LoopEnd(loop, more, base, seq) = at[Len(seq)]
<1> DEFINE n == Len(seq)
           Step(k, w) == LoopStep(loop, more, k, w)
           iter[s \in SUBSET (1 .. n)] ==
             IF s = {} THEN base
             ELSE LoopStep(loop, more, iter[s \ {Max(s)}], seq[Max(s)])
           at == [i \in 0 .. n |-> iter[1 .. i]]
<1>1. n \in Nat /\ DOMAIN seq = 1 .. n
  OBVIOUS
<1>2. FoldLeft(Step, base, seq) = iter[1 .. n]
  BY <1>1, Zenon DEF FoldLeft, MapThenFoldSet
<1>3. Rounds(iter, loop, more, base, seq, n)
  <2>1. iter = CHOOSE f : Rounds(f, loop, more, base, seq, n)
    BY Zenon DEF Rounds
  <2> HIDE DEF iter, n
  <2> QED BY <1>1, <2>1, RoundsExist
<1> HIDE DEF iter
<1>4. at[0] = base
  <2>1. at[0] = iter[{}] /\ {} \in SUBSET (1 .. n)
    BY <1>1
  <2> QED BY <1>3, <2>1 DEF Rounds
<1>5. ASSUME NEW i \in 1 .. n
      PROVE  at[i] = LoopStep(loop, more, at[i - 1], seq[i])
  <2>1. /\ i \in Nat /\ i - 1 \in Nat /\ i \in 1 .. i
        /\ i \in 0 .. n /\ i - 1 \in 0 .. n
    BY <1>1
  <2>4. 1 .. i \in SUBSET (1 .. n) /\ 1 .. i # {} /\ 1 .. i \in SUBSET (1 .. i)
    <3>1. \A j \in 1 .. i : j \in 1 .. n
      BY <1>1
    <3> QED BY <2>1, <3>1
  <2>5. (1 .. i) \ {i} = 1 .. i - 1
    BY <2>1
  <2>2. Max(1 .. i) = i
    BY <2>1, <2>4, MaxFacts
  <2>3. iter[1 .. i] = LoopStep(loop, more, iter[1 .. i - 1], seq[i])
    BY <1>3, <2>2, <2>4, <2>5 DEF Rounds
  <2> QED BY <2>1, <2>3
<1>6. FoldLeft(Step, base, seq) = at[n]
  <2>1. n \in 0 .. n
    BY <1>1
  <2>2. at[n] = iter[1 .. n]
    BY <2>1
  <2> HIDE DEF at
  <2> QED BY <1>2, <2>2
<1> HIDE DEF at
<1> QED BY <1>4, <1>5, <1>6 DEF LoopEnd

-----------------------------------------------------------------------------
(* Moving a way from list to list. *)

LEMMA RemovedFacts ==
  ASSUME NEW S, NEW s \in Seq(S), Distinct(s), NEW w \in S, In(s, w)
  PROVE  /\ RemoveFirst(s, w) \in Seq(S) /\ Distinct(RemoveFirst(s, w))
         /\ \A v : In(RemoveFirst(s, w), v) <=> v # w /\ In(s, v)
<1> DEFINE I == {i \in 1 .. Len(s) : s[i] = w}
           r == RemoveFirst(s, w)
<1>1. PICK j \in 1 .. Len(s) : s[j] = w
  BY DEF In
<1>2. I = {j}
  BY <1>1 DEF Distinct
<1>3. Min(I) = j
  BY <1>2 DEF Min
<1>4. r = SubSeq(s, 1, j - 1) \o SubSeq(s, j + 1, Len(s))
  <2>1. SelectInSeq(s, LAMBDA v : v = w) = j
    BY <1>2, <1>3 DEF SelectInSeq
  <2>2. r = RemoveAt(s, SelectInSeq(s, LAMBDA v : v = w))
    BY <1>1 DEF RemoveFirst
  <2> QED BY <2>1, <2>2 DEF RemoveAt
<1> DEFINE a == SubSeq(s, 1, j - 1)
           b == SubSeq(s, j + 1, Len(s))
<1>5. /\ a \in Seq(S) /\ Len(a) = j - 1 /\ \A i \in 1 .. j - 1 : a[i] = s[i]
      /\ b \in Seq(S) /\ Len(b) = Len(s) - j /\ \A i \in 1 .. Len(s) - j : b[i] = s[j + i]
  BY <1>1
<1> HIDE DEF a, b
<1>6. r \in Seq(S) /\ Len(r) = Len(s) - 1
  <2>1. r = a \o b
    BY <1>4 DEF a, b
  <2> HIDE DEF r
  <2>2. r \in Seq(S) /\ Len(r) = Len(a) + Len(b)
    BY <1>5, <2>1, ConcatProperties
  <2> QED BY <1>1, <1>5, <2>2
<1>7. \A i \in 1 .. Len(s) - 1 : r[i] = IF i < j THEN s[i] ELSE s[i + 1]
  <2>1. ASSUME NEW i \in 1 .. Len(s) - 1, i < j PROVE r[i] = s[i]
    <3>1. i \in 1 .. Len(a) /\ i \in 1 .. j - 1 /\ i \in 1 .. Len(a) + Len(b)
      BY <2>1, <1>1, <1>5
    <3>2. r[i] = a[i]
      BY <3>1, <1>4, <1>5, ConcatProperties DEF a, b
    <3> QED BY <3>1, <3>2, <1>5
  <2>2. ASSUME NEW i \in 1 .. Len(s) - 1, ~ (i < j) PROVE r[i] = s[i + 1]
    <3>1. /\ i \in 1 .. Len(a) + Len(b) /\ ~ (i <= Len(a))
          /\ i - Len(a) \in 1 .. Len(s) - j /\ j + (i - Len(a)) = i + 1
      BY <2>2, <1>1, <1>5
    <3>2. r[i] = b[i - Len(a)]
      BY <3>1, <1>4, <1>5, ConcatProperties DEF a, b
    <3> QED BY <3>1, <3>2, <1>5
  <2> QED BY <2>1, <2>2
<1> HIDE DEF r
<1>8. DOMAIN r = 1 .. Len(s) - 1 /\ Len(s) \in Nat
  BY <1>6
<1>9. Distinct(r)
  <2> SUFFICES ASSUME NEW i \in 1 .. Len(s) - 1, NEW k \in 1 .. Len(s) - 1,
                      r[i] = r[k]
               PROVE  i = k
    BY <1>8 DEF Distinct
  <2> DEFINE at(n) == IF n < j THEN n ELSE n + 1
  <2>1. /\ at(i) \in DOMAIN s /\ r[i] = s[at(i)]
        /\ at(k) \in DOMAIN s /\ r[k] = s[at(k)]
    BY <1>1, <1>7, <1>8
  <2>2. at(i) = at(k)
    BY <2>1 DEF Distinct
  <2> QED BY <2>2, <1>1, <1>8
<1>10. ASSUME NEW v, In(r, v) PROVE v # w /\ In(s, v)
  <2>1. PICK i \in 1 .. Len(s) - 1 : r[i] = v
    BY <1>8, <1>10 DEF In
  <2>2. /\ i \in 1 .. Len(s) /\ i + 1 \in 1 .. Len(s)
        /\ (i < j => i # j) /\ (~ (i < j) => i + 1 # j)
    BY <1>1, <1>8
  <2> QED BY <2>1, <2>2, <1>1, <1>7 DEF In, Distinct
<1>11. ASSUME NEW v, v # w, In(s, v) PROVE In(r, v)
  <2>1. PICK i \in 1 .. Len(s) : s[i] = v
    BY <1>11 DEF In
  <2>2. CASE i < j
    <3>1. i \in 1 .. Len(s) - 1
      BY <1>1, <2>2
    <3> QED BY <3>1, <2>1, <2>2, <1>7, <1>8 DEF In
  <2>3. CASE ~ (i < j)
    <3>1. i # j
      BY <1>1, <1>11, <2>1
    <3>2. i - 1 \in 1 .. Len(s) - 1 /\ ~ (i - 1 < j) /\ (i - 1) + 1 = i
      BY <3>1, <1>1, <2>3
    <3> QED BY <3>2, <2>1, <1>7, <1>8 DEF In
  <2> QED BY <2>2, <2>3
<1> QED BY <1>6, <1>9, <1>10, <1>11 DEF r

LEMMA AppendedFacts ==
  ASSUME NEW S, NEW s \in Seq(S), Distinct(s), NEW w \in S, ~ In(s, w)
  PROVE  /\ Append(s, w) \in Seq(S) /\ Distinct(Append(s, w))
         /\ \A v : In(Append(s, w), v) <=> v = w \/ In(s, v)
<1> DEFINE r == Append(s, w)
<1>1. /\ r \in Seq(S) /\ Len(r) = Len(s) + 1 /\ Len(s) \in Nat
      /\ DOMAIN r = 1 .. Len(s) + 1 /\ DOMAIN s = 1 .. Len(s)
      /\ \A i \in 1 .. Len(s) : r[i] = s[i]
      /\ r[Len(s) + 1] = w
  OBVIOUS
<1> HIDE DEF r
<1>2. \A i \in 1 .. Len(s) + 1 : i = Len(s) + 1 \/ i \in 1 .. Len(s)
  BY <1>1
<1>3. Distinct(r)
  BY <1>1, <1>2 DEF Distinct, In
<1>4. \A v : In(r, v) <=> v = w \/ In(s, v)
  BY <1>1, <1>2 DEF In
<1> QED BY <1>1, <1>3, <1>4 DEF r

\* k and m differ at most in their lists.
SameOffLists(k, m) ==
  /\ m.queue = k.queue /\ m.dieState = k.dieState
  /\ m.statusCheckOpt = k.statusCheckOpt /\ m.retryLimit = k.retryLimit
  /\ m.completeFlag = k.completeFlag /\ m.statusReport = k.statusReport
  /\ m.cmd = k.cmd /\ m.ran = k.ran /\ m.fails = k.fails

LEMMA MoveFacts ==
  ASSUME NEW k, ChannelType(k), Placed(k), NEW w \in Ways,
         NEW from \in Lists, NEW to \in Lists, from # to, OnList(k, w, from)
  PROVE  LET m == MoveWay(k, w, from, to)
         IN  /\ ChannelType(m) /\ SameOffLists(k, m) /\ Placed(m)
             /\ \A l \in Lists : OnList(m, w, l) <=> l = to
             /\ \A v \in Ways \ {w}, l \in Lists : OnList(m, v, l) <=> OnList(k, v, l)
<1> DEFINE m == MoveWay(k, w, from, to)
           r == RemoveFirst(k.list[from], w)
           t == Append(k.list[to], w)
<1>1. k.list \in [Lists -> Seq(Ways)]
  BY DEF ChannelType
<1>2. ~ In(k.list[to], w)
  BY DEF Placed, OnList
<1>3. /\ r \in Seq(Ways) /\ Distinct(r)
      /\ \A v : In(r, v) <=> v # w /\ In(k.list[from], v)
  BY <1>1, RemovedFacts DEF Placed, OnList
<1>4. /\ t \in Seq(Ways) /\ Distinct(t)
      /\ \A v : In(t, v) <=> v = w \/ In(k.list[to], v)
  BY <1>1, <1>2, AppendedFacts DEF Placed
<1> HIDE DEF r, t
<1>5. /\ m.list = [k.list EXCEPT ![from] = r, ![to] = t]
      /\ SameOffLists(k, m)
      /\ m = [k EXCEPT !.list = m.list]
  BY DEF MoveWay, ChannelType, SameOffLists, r, t
<1>6. /\ m.list \in [Lists -> Seq(Ways)]
      /\ m.list[from] = r /\ m.list[to] = t
      /\ \A l \in Lists \ {from, to} : m.list[l] = k.list[l]
  BY <1>1, <1>3, <1>4, <1>5
<1>7. ChannelType(m)
  BY <1>5, <1>6 DEF ChannelType
<1> HIDE DEF m
<1>8. /\ \A l \in Lists : OnList(m, w, l) <=> l = to
      /\ \A v \in Ways \ {w}, l \in Lists : OnList(m, v, l) <=> OnList(k, v, l)
  BY <1>3, <1>4, <1>6 DEF OnList, Placed
<1>9. Placed(m)
  <2>1. \A l \in Lists : Distinct(m.list[l])
    BY <1>3, <1>4, <1>6 DEF Placed
  <2>2. \A v \in Ways : \E l \in Lists : OnList(m, v, l)
    BY <1>8 DEF Placed
  <2>3. \A v \in Ways, l, n \in Lists : OnList(m, v, l) /\ OnList(m, v, n) => l = n
    BY <1>8 DEF Placed
  <2> QED BY <2>1, <2>2, <2>3 DEF Placed
<1> QED BY <1>5, <1>7, <1>8, <1>9 DEF m

\* k and m differ at most in the state of way w and in the register.
SameBut(k, m, w) ==
  /\ m.list = k.list
  /\ \A v \in Ways \ {w} :
       /\ m.queue[v] = k.queue[v] /\ m.dieState[v] = k.dieState[v]
       /\ m.statusCheckOpt[v] = k.statusCheckOpt[v] /\ m.retryLimit[v] = k.retryLimit[v]
       /\ m.completeFlag[v] = k.completeFlag[v] /\ m.statusReport[v] = k.statusReport[v]
       /\ m.ran[v] = k.ran[v] /\ m.fails[v] = k.fails[v]
       /\ channelBusyShown => (InRegister(m, v) <=> InRegister(k, v))

\* A way that has changed state moves to the list for its new state.
LEMMA TouchedMoves ==
  ASSUME NEW k, NEW m, NEW n, SchedInv(k, n), ChannelType(m), NEW w \in Ways,
         SameBut(k, m, w), WayInv(m, n, w),
         NEW from \in Lists, NEW to \in Lists, from # to,
         OnList(k, w, from), Belongs(m, w, to)
  PROVE  /\ SchedInv(MoveWay(m, w, from, to), n)
         /\ \A v \in Ways \ {w}, l \in Lists :
              OnList(MoveWay(m, w, from, to), v, l) <=> OnList(k, v, l)
<1> DEFINE r == MoveWay(m, w, from, to)
<1>1. Placed(m) /\ \A v \in Ways, l \in Lists : OnList(m, v, l) <=> OnList(k, v, l)
  BY DEF SchedInv, Placed, SameBut, OnList
<1>2. /\ ChannelType(r) /\ SameOffLists(m, r) /\ Placed(r)
      /\ \A l \in Lists : OnList(r, w, l) <=> l = to
      /\ \A v \in Ways \ {w}, l \in Lists : OnList(r, v, l) <=> OnList(m, v, l)
  BY <1>1, MoveFacts
<1> HIDE DEF r
<1>3. ASSUME NEW v \in Ways PROVE WayInv(r, n, v)
  <2>1. WayInv(m, n, v)
    <3>1. CASE v # w
      BY <3>1 DEF SchedInv, WayInv, Phases, SameBut
    <3> QED BY <3>1
  <2> QED BY <2>1, <1>2 DEF WayInv, Phases, SameOffLists, InRegister
<1>4. ASSUME NEW v \in Ways, NEW l \in Lists, OnList(r, v, l) PROVE Belongs(r, v, l)
  <2>1. Belongs(m, v, l)
    <3>1. CASE v # w
      <4>1. Belongs(k, v, l)
        BY <3>1, <1>1, <1>2, <1>4 DEF SchedInv
      <4> QED BY <3>1, <4>1 DEF Belongs, PriorityList, SameBut
    <3>2. CASE v = w
      BY <3>2, <1>2, <1>4
    <3> QED BY <3>1, <3>2
  <2> QED BY <2>1, <1>2 DEF Belongs, PriorityList, SameOffLists
<1> QED BY <1>1, <1>2, <1>3, <1>4 DEF SchedInv, r

\* A way that stays on its list.
LEMMA TouchedStays ==
  ASSUME NEW k, NEW m, NEW n, SchedInv(k, n), ChannelType(m), NEW w \in Ways,
         SameBut(k, m, w), WayInv(m, n, w),
         NEW l \in Lists, OnList(k, w, l), Belongs(m, w, l)
  PROVE  /\ SchedInv(m, n)
         /\ \A v \in Ways, p \in Lists : OnList(m, v, p) <=> OnList(k, v, p)
<1>1. Placed(m) /\ \A v \in Ways, p \in Lists : OnList(m, v, p) <=> OnList(k, v, p)
  BY DEF SchedInv, Placed, SameBut, OnList
<1>2. ASSUME NEW v \in Ways PROVE WayInv(m, n, v)
  <2>1. CASE v # w
    BY <2>1 DEF SchedInv, WayInv, Phases, SameBut
  <2> QED BY <2>1
<1>3. ASSUME NEW v \in Ways, NEW p \in Lists, OnList(m, v, p) PROVE Belongs(m, v, p)
  <2>1. CASE v # w
    <3>1. Belongs(k, v, p)
      BY <1>1, <1>3 DEF SchedInv
    <3> QED BY <2>1, <3>1 DEF Belongs, PriorityList, SameBut
  <2>2. CASE v = w
    <3>1. p = l
      BY <2>2, <1>1, <1>3 DEF SchedInv, Placed
    <3> QED BY <2>2, <3>1
  <2> QED BY <2>1, <2>2
<1> QED BY <1>1, <1>2, <1>3 DEF SchedInv

-----------------------------------------------------------------------------
(* The loops. *)

CommandLists == {"readTrigger", "erase", "write", "readTransfer"}

LEMMA PriorityFacts ==
  ASSUME NEW k, ChannelType(k), NEW w \in Ways, k.queue[w] # <<>>
  PROVE  /\ PriorityList(k, w) \in CommandLists
         /\ Head(k.queue[w]) \in NandCodes
         /\ Tail(k.queue[w]) \in Seq(NandCodes)
<1>1. k.queue[w] \in Seq(NandCodes)
  BY DEF ChannelType
<1>2. Head(k.queue[w]) \in NandCodes /\ Tail(k.queue[w]) \in Seq(NandCodes)
  BY <1>1
<1> QED BY <1>2 DEF NandCodes, Codes, PriorityList, CommandLists

LEMMA ReleaseFacts ==
  ASSUME NEW k, ChannelType(k), NEW w \in Ways, NEW more \in Codes \cup {NONE}
  PROVE  LET r == ReleaseInto(k, w, more)
         IN  /\ r.list = k.list /\ r.dieState = k.dieState
             /\ r.statusCheckOpt = k.statusCheckOpt
             /\ r.retryLimit = k.retryLimit /\ r.completeFlag = k.completeFlag
             /\ r.statusReport = k.statusReport /\ r.cmd = k.cmd
             /\ r.ran = k.ran /\ r.fails = k.fails
             /\ ChannelType(r)
             /\ \A v \in Ways \ {w} : r.queue[v] = k.queue[v]
             /\ k.queue[w] # <<>> => r.queue[w] # <<>>
<1> DEFINE r == ReleaseInto(k, w, more)
<1>1. CASE k.queue[w] = <<>> /\ more # NONE
  <2>1. <<more>> \in Seq(NandCodes)
    BY <1>1 DEF NandCodes
  <2>2. r = [k EXCEPT !.queue[w] = <<more>>]
    BY <1>1 DEF ReleaseInto
  <2> HIDE DEF r
  <2>3. r.queue = [k.queue EXCEPT ![w] = <<more>>]
    BY <2>2 DEF ChannelType
  <2>4. r.queue \in [Ways -> Seq(NandCodes)]
    BY <2>1, <2>3 DEF ChannelType
  <2>5. /\ r.list = k.list /\ r.dieState = k.dieState
        /\ r.statusCheckOpt = k.statusCheckOpt
        /\ r.retryLimit = k.retryLimit /\ r.completeFlag = k.completeFlag
        /\ r.statusReport = k.statusReport /\ r.cmd = k.cmd
        /\ r.ran = k.ran /\ r.fails = k.fails
    BY <2>2 DEF ChannelType
  <2>6. ChannelType(r)
    BY <2>2, <2>4 DEF ChannelType
  <2>7. \A v \in Ways \ {w} : r.queue[v] = k.queue[v]
    BY <2>3 DEF ChannelType
  <2> QED BY <1>1, <2>5, <2>6, <2>7 DEF r
<1>2. CASE ~ (k.queue[w] = <<>> /\ more # NONE)
  <2>1. r = k
    BY <1>2 DEF ReleaseInto
  <2> HIDE DEF r
  <2> QED BY <2>1 DEF r
<1> QED BY <1>1, <1>2

LEMMA IdleWayStep ==
  ASSUME NEW k, NEW n, SchedInv(k, n), NEW w \in Ways, OnList(k, w, "idle"),
         NEW more \in Codes \cup {NONE}
  PROVE  /\ SchedInv(IdleWay(k, w, more), n)
         /\ \A v \in Ways \ {w}, l \in Lists :
              OnList(IdleWay(k, w, more), v, l) <=> OnList(k, v, l)
<1> DEFINE r == ReleaseInto(k, w, more)
<1>1. /\ ChannelType(k) /\ WayInv(k, n, w) /\ k.dieState[w] = "IDLE" /\ "idle" \in Lists
      /\ Placed(k)
  BY DEF SchedInv, Belongs, Lists
<1>2. /\ r.list = k.list /\ r.dieState = k.dieState /\ r.statusCheckOpt = k.statusCheckOpt
      /\ r.retryLimit = k.retryLimit /\ r.completeFlag = k.completeFlag
      /\ r.statusReport = k.statusReport /\ r.cmd = k.cmd
      /\ r.ran = k.ran /\ r.fails = k.fails
      /\ ChannelType(r)
      /\ \A v \in Ways \ {w} : r.queue[v] = k.queue[v]
  BY <1>1, ReleaseFacts
<1> HIDE DEF r
<1>3. SameBut(k, r, w) /\ WayInv(r, n, w)
  BY <1>1, <1>2 DEF SameBut, InRegister, WayInv, Phases
<1>4. CASE r.queue[w] # <<>>
  <2> DEFINE to == PriorityList(r, w)
  <2>1. to \in CommandLists /\ to \in Lists /\ to # "idle"
    BY <1>2, <1>4, PriorityFacts DEF CommandLists, Lists
  <2>2. Belongs(r, w, to)
    BY <1>1, <1>2, <1>4, <2>1 DEF Belongs, CommandLists
  <2>3. IdleWay(k, w, more) = MoveWay(r, w, "idle", to)
    BY <1>4 DEF IdleWay, r
  <2> HIDE DEF to
  <2> QED BY <1>1, <1>2, <1>3, <2>1, <2>2, <2>3, TouchedMoves
<1>5. CASE r.queue[w] = <<>>
  <2>1. IdleWay(k, w, more) = r
    BY <1>5 DEF IdleWay, r
  <2>2. Belongs(r, w, "idle")
    BY <1>1, <1>2 DEF Belongs
  <2> QED BY <1>1, <1>2, <1>3, <2>1, <2>2, TouchedStays
<1> QED BY <1>4, <1>5

\* The end of a request on a way whose command has run.
LEMMA EndFacts ==
  ASSUME NEW k, NEW n, ChannelType(k), NEW w \in Ways, WayInv(k, n, w),
         k.dieState[w] = "EXE", NEW status \in {"DONE", "FAIL"},
         channelBusyShown => n[w] = "ready" /\ ~ InRegister(k, w)
  PROVE  LET m == EndNandReq(k, w, status)
         IN  ChannelType(m) /\ SameBut(k, m, w) /\ WayInv(m, n, w) /\ m.dieState[w] = "IDLE"
<1> DEFINE m    == EndNandReq(k, w, status)
           idle == [k EXCEPT !.dieState[w] = "IDLE"]
           code == Head(k.queue[w])
           again == [idle EXCEPT !.queue[w] = <<"READ">> \o Tail(@),
                                 !.retryLimit[w] = @ - 1, !.fails[w] = @ + 1]
           next == [idle EXCEPT !.queue[w] = <<"READ_TRANSFER">> \o Tail(@)]
           rest == GetFromNandReqQ(idle, w)
<1>1. k.queue[w] # <<>> /\ k.queue[w] \in Seq(NandCodes)
  BY DEF WayInv, ChannelType
<1>2. /\ Tail(k.queue[w]) \in Seq(NandCodes)
      /\ \A c \in NandCodes : <<c>> \o Tail(k.queue[w]) \in Seq(NandCodes)
  BY <1>1
<1>3. /\ k.retryLimit[w] \in 0 .. RETRY_LIMIT /\ k.fails[w] \in 0 .. RETRY_LIMIT
      /\ k.retryLimit[w] + k.fails[w] = RETRY_LIMIT /\ RETRY_LIMIT \in Nat
  BY RetryAssumption DEF WayInv, ChannelType
<1>4. "READ" \in NandCodes /\ "READ_TRANSFER" \in NandCodes
  BY DEF NandCodes, Codes
<1>5. CASE m = next
  <2>1. /\ ChannelType(next) /\ SameBut(k, next, w) /\ next.dieState[w] = "IDLE"
        /\ next.cmd = k.cmd /\ next.retryLimit = k.retryLimit /\ next.fails = k.fails
    BY <1>2, <1>4 DEF ChannelType, SameBut, InRegister
  <2> HIDE DEF next
  <2>2. WayInv(next, n, w)
    BY <1>3, <2>1 DEF WayInv, Phases, InRegister
  <2> QED BY <1>5, <2>1, <2>2
<1>6. CASE m = again /\ k.retryLimit[w] > 0
  <2>1. k.retryLimit[w] - 1 \in 0 .. RETRY_LIMIT /\ k.fails[w] + 1 \in 0 .. RETRY_LIMIT
    BY <1>3, <1>6
  <2>2. /\ ChannelType(again) /\ SameBut(k, again, w) /\ again.dieState[w] = "IDLE"
        /\ again.cmd = k.cmd
    BY <1>2, <1>4, <2>1 DEF ChannelType, SameBut, InRegister
  <2>3. again.retryLimit[w] = k.retryLimit[w] - 1 /\ again.fails[w] = k.fails[w] + 1
    BY DEF ChannelType
  <2> HIDE DEF again
  <2>4. WayInv(again, n, w)
    BY <1>3, <2>2, <2>3 DEF WayInv, Phases, InRegister
  <2> QED BY <1>6, <2>2, <2>4
<1>7. CASE m = rest
  <2>1. /\ ChannelType(rest) /\ SameBut(k, rest, w) /\ rest.dieState[w] = "IDLE"
        /\ rest.cmd = k.cmd
        /\ rest.retryLimit[w] = RETRY_LIMIT /\ rest.fails[w] = 0
    <3>1. rest = [k EXCEPT !.dieState[w] = "IDLE", !.queue[w] = Tail(@),
                           !.retryLimit[w] = RETRY_LIMIT, !.fails[w] = 0]
      BY DEF GetFromNandReqQ, ChannelType
    <3>2. RETRY_LIMIT \in 0 .. RETRY_LIMIT /\ 0 \in 0 .. RETRY_LIMIT
      BY <1>3
    <3> HIDE DEF rest
    <3> QED BY <1>2, <3>1, <3>2 DEF ChannelType, SameBut, InRegister
  <2> HIDE DEF rest
  <2>2. WayInv(rest, n, w)
    BY <1>3, <2>1 DEF WayInv, Phases, InRegister
  <2> QED BY <1>7, <2>1, <2>2
<1>8. m = next \/ (m = again /\ k.retryLimit[w] > 0) \/ m = rest
  BY DEF EndNandReq
<1> QED BY <1>5, <1>6, <1>7, <1>8

\* Requests end only after their command has run.
LEMMA EndedFacts ==
  ASSUME NEW k, NEW n, SchedInv(k, n), NEW w \in Ways, k.dieState[w] = "EXE",
         ReqStatus(k, w) # "RUNNING", channelBusyShown
  PROVE  k.ran[w] /\ n[w] = "ready" /\ ~ InRegister(k, w)
<1>1. Phases(k, n, w)
  BY DEF SchedInv, WayInv
<1>2. \/ k.statusCheckOpt[w] = "COMPLETION_FLAG" /\ k.completeFlag[w]
      \/ k.statusCheckOpt[w] = "REPORT"
  BY DEF ReqStatus
<1> QED BY <1>1, <1>2 DEF Phases

LEMMA ReportWayStep ==
  ASSUME NEW k, SchedInv(k, nand), NEW w \in Ways, OnList(k, w, "statusReport"),
         NEW more \in Codes \cup {NONE}
  PROVE  /\ SchedInv(ReportWay(k, w, more), nand)
         /\ \A v \in Ways \ {w}, l \in Lists :
              OnList(ReportWay(k, w, more), v, l) <=> OnList(k, v, l)
<1> DEFINE status  == ReqStatus(k, w)
           checked == CheckReqStatus(k, w)
           done    == EndNandReq(checked, w, status)
           ended   == ReleaseInto(done, w, more)
           to      == IF ended.queue[w] # <<>> THEN PriorityList(ended, w) ELSE "idle"
<1>1. /\ ChannelType(k) /\ WayInv(k, nand, w) /\ k.dieState[w] = "EXE"
      /\ k.statusCheckOpt[w] \in {"REPORT", "COMPLETION_FLAG"}
      /\ {"idle", "statusReport", "statusCheck"} \subseteq Lists
  BY DEF SchedInv, Belongs, Lists
<1>2. /\ ChannelType(checked) /\ SameBut(k, checked, w) /\ WayInv(checked, nand, w)
      /\ checked.dieState[w] = "EXE" /\ checked.cmd = k.cmd
      /\ checked.statusCheckOpt[w] \in {"REPORT", "COMPLETION_FLAG", "CHECK", "NONE"}
      /\ checked.statusCheckOpt[w] = "NONE" => status = "DONE"
  <2>1. CASE k.statusCheckOpt[w] = "REPORT" /\ k.statusReport[w] = "pass"
    <3>1. checked = [k EXCEPT !.statusCheckOpt[w] = "NONE"] /\ status = "DONE"
      BY <2>1 DEF CheckReqStatus, ReqStatus
    <3> HIDE DEF checked
    <3>2. ChannelType(checked) /\ SameBut(k, checked, w) /\ checked.dieState = k.dieState
      BY <1>1, <3>1 DEF ChannelType, SameBut, InRegister
    <3>3. /\ checked.cmd = k.cmd /\ checked.queue = k.queue /\ checked.ran = k.ran
          /\ checked.retryLimit = k.retryLimit /\ checked.fails = k.fails
          /\ checked.statusCheckOpt[w] = "NONE"
      BY <1>1, <3>1 DEF ChannelType
    <3>4. WayInv(checked, nand, w)
      BY <1>1, <3>2, <3>3 DEF WayInv, Phases, InRegister
    <3> QED BY <1>1, <3>1, <3>2, <3>3, <3>4
  <2>2. CASE k.statusCheckOpt[w] = "REPORT" /\ k.statusReport[w] = "running"
    <3>1. checked = [k EXCEPT !.statusCheckOpt[w] = "CHECK"]
      BY <2>2 DEF CheckReqStatus
    <3> HIDE DEF checked
    <3>2. ChannelType(checked) /\ SameBut(k, checked, w) /\ checked.dieState = k.dieState
      BY <1>1, <3>1 DEF ChannelType, SameBut, InRegister
    <3>3. /\ checked.cmd = k.cmd /\ checked.queue = k.queue /\ checked.ran = k.ran
          /\ checked.retryLimit = k.retryLimit /\ checked.fails = k.fails
          /\ checked.statusCheckOpt[w] = "CHECK"
      BY <1>1, <3>1 DEF ChannelType
    <3>4. WayInv(checked, nand, w)
      BY <1>1, <3>2, <3>3 DEF WayInv, Phases, InRegister
    <3> QED BY <1>1, <3>2, <3>3, <3>4
  <2>3. CASE ~ (k.statusCheckOpt[w] = "REPORT" /\ k.statusReport[w] \in {"pass", "running"})
    <3>1. checked = k
      BY <1>1, <2>3 DEF CheckReqStatus
    <3> HIDE DEF checked
    <3> QED BY <1>1, <3>1 DEF SameBut
  <2> QED BY <2>1, <2>2, <2>3
<1>3. CASE nand[w] # "ready"
  <2>1. ReportWay(k, w, more) = k
    BY <1>3 DEF ReportWay
  <2> QED BY <2>1
<1>4. CASE nand[w] = "ready" /\ status # "RUNNING"
  <2>1. status \in {"DONE", "FAIL"}
    BY <1>4 DEF ReqStatus
  <2>2. channelBusyShown => nand[w] = "ready" /\ ~ InRegister(checked, w)
    <3>1. channelBusyShown => ~ InRegister(k, w)
      BY <1>1, <1>4, EndedFacts
    <3> QED BY <1>2, <1>4, <3>1 DEF InRegister
  <2> HIDE DEF status, checked
  <2>3. /\ ChannelType(done) /\ SameBut(checked, done, w) /\ WayInv(done, nand, w)
        /\ done.dieState[w] = "IDLE"
    BY <1>2, <2>1, <2>2, EndFacts
  <2> HIDE DEF done
  <2>4. /\ ended.list = done.list /\ ended.dieState = done.dieState
        /\ ended.statusCheckOpt = done.statusCheckOpt
        /\ ended.retryLimit = done.retryLimit /\ ended.completeFlag = done.completeFlag
        /\ ended.statusReport = done.statusReport /\ ended.cmd = done.cmd
        /\ ended.ran = done.ran /\ ended.fails = done.fails
        /\ ChannelType(ended)
        /\ \A v \in Ways \ {w} : ended.queue[v] = done.queue[v]
    BY <2>3, ReleaseFacts
  <2> HIDE DEF ended
  <2>5. SameBut(done, ended, w) /\ WayInv(ended, nand, w)
    BY <2>3, <2>4 DEF SameBut, InRegister, WayInv, Phases
  <2>6. SameBut(k, ended, w)
    BY <1>2, <2>3, <2>5 DEF SameBut
  <2>7. to \in Lists /\ to # "statusReport" /\ Belongs(ended, w, to)
    <3>1. CASE ended.queue[w] = <<>>
      BY <1>1, <2>3, <2>4, <3>1 DEF Belongs
    <3>2. CASE ended.queue[w] # <<>>
      <4>1. to = PriorityList(ended, w) /\ to \in CommandLists
        BY <2>4, <3>2, PriorityFacts
      <4> QED BY <2>3, <2>4, <3>2, <4>1 DEF Belongs, CommandLists, Lists
    <3> QED BY <3>1, <3>2
  <2>8. ReportWay(k, w, more) = MoveWay(ended, w, "statusReport", to)
    BY <1>4 DEF ReportWay, ended, done, checked, status
  <2> HIDE DEF to
  <2> QED BY <1>1, <2>4, <2>5, <2>6, <2>7, <2>8, TouchedMoves
<1>5. CASE nand[w] = "ready" /\ status = "RUNNING"
  <2>1. CASE checked.statusCheckOpt[w] = "CHECK"
    <3>1. ReportWay(k, w, more) = MoveWay(checked, w, "statusReport", "statusCheck")
      BY <1>5, <2>1 DEF ReportWay
    <3> HIDE DEF checked
    <3>2. Belongs(checked, w, "statusCheck")
      BY <1>2, <2>1 DEF Belongs
    <3> QED BY <1>1, <1>2, <3>1, <3>2, TouchedMoves
  <2>2. CASE checked.statusCheckOpt[w] # "CHECK"
    <3>1. ReportWay(k, w, more) = checked
      BY <1>5, <2>2 DEF ReportWay
    <3> HIDE DEF checked
    <3>2. Belongs(checked, w, "statusReport")
      BY <1>2, <1>5, <2>2 DEF Belongs
    <3> QED BY <1>1, <1>2, <3>1, <3>2, TouchedStays
  <2> QED BY <2>1, <2>2
<1> QED BY <1>3, <1>4, <1>5

\* A loop over ways of its list keeps the invariant, and touches no other way.
LEMMA LoopKeeps ==
  ASSUME NEW loop \in {"idle", "statusReport"}, NEW more \in [Ways -> Codes \cup {NONE}],
         NEW base, SchedInv(base, nand), NEW seq \in Seq(Ways), Distinct(seq),
         \A i \in 1 .. Len(seq) : OnList(base, seq[i], loop)
  PROVE  LET end == LoopEnd(loop, more, base, seq)
         IN  /\ SchedInv(end, nand)
             /\ \A v \in Ways, l \in Lists :
                  ~ In(seq, v) => (OnList(end, v, l) <=> OnList(base, v, l))
<1> DEFINE n == Len(seq)
<1>1. PICK at : /\ at[0] = base
                /\ \A i \in 1 .. n : at[i] = LoopStep(loop, more, at[i - 1], seq[i])
                /\ LoopEnd(loop, more, base, seq) = at[n]
  BY LoopUnfolds
<1>2. n \in Nat /\ DOMAIN seq = 1 .. n /\ \A i \in 1 .. n : seq[i] \in Ways
  OBVIOUS
<1> DEFINE Q(i) == /\ SchedInv(at[i], nand)
                   /\ \A v \in Ways, l \in Lists :
                        (\A j \in 1 .. i : seq[j] # v) =>
                          (OnList(at[i], v, l) <=> OnList(base, v, l))
           T == {i \in 0 .. n : ~ Q(i)}
<1>3. T = {}
  <2> SUFFICES ASSUME T # {} PROVE FALSE
    OBVIOUS
  <2>1. PICK m \in T : \A i \in T : m <= i
    <3>1. T \subseteq Nat
      BY <1>2
    <3> HIDE DEF T
    <3> QED BY <3>1, LeastNumber
  <2>2. m # 0
    BY <1>1, <2>1
  <2>3. /\ m \in 1 .. n /\ m - 1 \in 0 .. n /\ ~ (m <= m - 1)
        /\ \A j \in 1 .. m - 1 : j \in 1 .. n /\ j # m
    BY <1>2, <2>1, <2>2
  <2>4. Q(m - 1)
    BY <2>1, <2>3
  <2> DEFINE k == at[m - 1]
             w == seq[m]
  <2>5. SchedInv(k, nand) /\ w \in Ways /\ loop \in Lists /\ more[w] \in Codes \cup {NONE}
    BY <1>2, <2>3, <2>4 DEF Lists
  <2>6. OnList(k, w, loop)
    <3>1. \A j \in 1 .. m - 1 : seq[j] # w
      BY <1>2, <2>3 DEF Distinct
    <3>2. OnList(base, w, loop)
      BY <2>3
    <3> QED BY <2>4, <2>5, <3>1, <3>2
  <2>7. at[m] = LoopStep(loop, more, k, w)
    BY <1>1, <2>3
  <2> HIDE DEF k, w
  <2>8. /\ SchedInv(at[m], nand)
        /\ \A v \in Ways \ {w}, l \in Lists : OnList(at[m], v, l) <=> OnList(k, v, l)
    <3>1. CASE loop = "idle"
      BY <2>5, <2>6, <2>7, <3>1, IdleWayStep DEF LoopStep
    <3>2. CASE loop = "statusReport"
      BY <2>5, <2>6, <2>7, <3>2, ReportWayStep DEF LoopStep
    <3> QED BY <3>1, <3>2
  <2>9. ASSUME NEW v \in Ways, NEW l \in Lists, \A j \in 1 .. m : seq[j] # v
        PROVE  OnList(at[m], v, l) <=> OnList(base, v, l)
    <3>1. v # w /\ \A j \in 1 .. m - 1 : seq[j] # v
      BY <2>3, <2>9 DEF w
    <3> QED BY <2>4, <2>8, <3>1 DEF k
  <2>10. Q(m)
    BY <2>8, <2>9
  <2> QED BY <2>1, <2>10
<1>4. Q(n)
  BY <1>2, <1>3
<1>5. ASSUME NEW v \in Ways, ~ In(seq, v) PROVE \A j \in 1 .. n : seq[j] # v
  BY <1>2, <1>5 DEF In
<1> QED BY <1>1, <1>4, <1>5

\* The channel after both loops.
LEMMA LoopsStep ==
  ASSUME SchedInv(ch, nand), NEW more \in [Ways -> Codes \cup {NONE}]
  PROVE  LET Idle(k, w)   == IdleWay(k, w, more[w])
             Report(k, w) == ReportWay(k, w, more[w])
             idled    == FoldLeft(Idle, ch, ch.list["idle"])
         IN  SchedInv(FoldLeft(Report, idled, ch.list["statusReport"]), nand)
<1> DEFINE Idle(k, w)   == IdleWay(k, w, more[w])
           Report(k, w) == ReportWay(k, w, more[w])
           idled    == FoldLeft(Idle, ch, ch.list["idle"])
           i == ch.list["idle"]
           r == ch.list["statusReport"]
<1>1. /\ i \in Seq(Ways) /\ r \in Seq(Ways) /\ Distinct(i) /\ Distinct(r)
      /\ "idle" \in Lists /\ "statusReport" \in Lists
  BY DEF SchedInv, ChannelType, Placed, Lists
<1>2. /\ DOMAIN i = 1 .. Len(i) /\ DOMAIN r = 1 .. Len(r)
      /\ \A j \in 1 .. Len(r) : r[j] \in Ways
  BY <1>1
<1>3. /\ \A j \in 1 .. Len(i) : OnList(ch, i[j], "idle")
      /\ \A j \in 1 .. Len(r) : OnList(ch, r[j], "statusReport")
  BY <1>2 DEF OnList, In
<1>4. \A j \in 1 .. Len(r) : ~ In(i, r[j])
  <2>1. \A j \in 1 .. Len(r) : ~ OnList(ch, r[j], "idle")
    BY <1>1, <1>2, <1>3 DEF SchedInv, Placed
  <2> QED BY <2>1 DEF OnList
<1>5. idled = LoopEnd("idle", more, ch, i)
  BY DEF LoopEnd, LoopStep
<1>6. \A k : FoldLeft(Report, k, r) = LoopEnd("statusReport", more, k, r)
  BY DEF LoopEnd, LoopStep
<1> HIDE DEF i, r, idled
<1>7. /\ SchedInv(idled, nand)
      /\ \A v \in Ways, l \in Lists :
           ~ In(i, v) => (OnList(idled, v, l) <=> OnList(ch, v, l))
  BY <1>1, <1>3, <1>5, LoopKeeps
<1>8. \A j \in 1 .. Len(r) : OnList(idled, r[j], "statusReport")
  BY <1>1, <1>2, <1>3, <1>4, <1>7
<1>9. SchedInv(LoopEnd("statusReport", more, idled, r), nand)
  BY <1>1, <1>7, <1>8, LoopKeeps
<1> QED BY <1>6, <1>9 DEF idled, i, r

-----------------------------------------------------------------------------
(* The command register. *)

LEMMA NoneFacts ==
  /\ \A code \in NandCodes \cup {"STATUS"}, w \in Ways :
       <<code, w>> \in Commanded /\ <<code, w>> # NONE
  /\ NONE \notin Codes
BY NoneAssumption DEF Commanded

\* The first way of a command list gets its command into the register.
LEMMA CommandStepKeeps ==
  ASSUME NEW k, NEW n, SchedInv(k, n), NEW from \in CommandLists,
         NEW to \in {"statusCheck", "statusReport"},
         from = "readTransfer" <=> to = "statusReport"
  PROVE  SchedInv(CommandStep(k, from, to), n)
<1>1. CASE ControllerBusy(k) \/ k.list[from] = <<>>
  BY <1>1 DEF CommandStep
<1>2. CASE ~ ControllerBusy(k) /\ k.list[from] # <<>>
  <2> DEFINE w == Head(k.list[from])
             m == IssueNandReq(k, w)
             code == Head(k.queue[w])
  <2>1. CommandStep(k, from, to) = MoveWay(m, w, from, to)
    BY <1>2 DEF CommandStep
  <2>2. /\ from \in Lists /\ to \in Lists /\ from # to
        /\ from \notin {"idle", "statusCheck", "statusReport"}
    BY DEF CommandLists, Lists
  <2>3. ChannelType(k) /\ k.list[from] \in Seq(Ways)
    BY <2>2 DEF SchedInv, ChannelType
  <2>4. w \in Ways /\ OnList(k, w, from)
    BY <1>2, <2>3 DEF OnList, In
  <2> HIDE DEF w
  <2>5. k.dieState[w] = "IDLE" /\ k.queue[w] # <<>> /\ PriorityList(k, w) = from
    BY <2>2, <2>4 DEF SchedInv, Belongs
  <2>6. code \in NandCodes /\ (code = "READ_TRANSFER" <=> from = "readTransfer")
    <3>1. code \in NandCodes
      BY <2>3, <2>4, <2>5, PriorityFacts
    <3> QED BY <2>5, <3>1 DEF PriorityList, NandCodes, Codes
  <2>7. WayInv(k, n, w) /\ (channelBusyShown => k.cmd = NONE)
    BY <1>2, <2>4 DEF SchedInv, ControllerBusy
  <2> HIDE DEF code
  <2>8. m = [k EXCEPT !.cmd = <<code, w>>, !.dieState[w] = "EXE",
               !.statusCheckOpt[w] =
                  IF code = "READ_TRANSFER" THEN "COMPLETION_FLAG" ELSE "CHECK",
               !.completeFlag[w] = IF code = "READ_TRANSFER" THEN FALSE ELSE @,
               !.ran[w] = FALSE]
    BY DEF IssueNandReq, code
  <2> HIDE DEF m
  <2>9. /\ ChannelType(m)
        /\ m.cmd = <<code, w>> /\ m.dieState[w] = "EXE" /\ m.queue = k.queue
        /\ m.retryLimit = k.retryLimit /\ m.fails = k.fails
        /\ m.statusCheckOpt[w] = IF code = "READ_TRANSFER" THEN "COMPLETION_FLAG" ELSE "CHECK"
        /\ code = "READ_TRANSFER" => ~ m.completeFlag[w]
        /\ ~ m.ran[w]
    BY <2>3, <2>4, <2>6, <2>8, NoneFacts DEF ChannelType
  <2>10. /\ m.list = k.list
         /\ \A v \in Ways \ {w} :
              /\ m.queue[v] = k.queue[v] /\ m.dieState[v] = k.dieState[v]
              /\ m.statusCheckOpt[v] = k.statusCheckOpt[v] /\ m.retryLimit[v] = k.retryLimit[v]
              /\ m.completeFlag[v] = k.completeFlag[v] /\ m.statusReport[v] = k.statusReport[v]
              /\ m.ran[v] = k.ran[v] /\ m.fails[v] = k.fails[v]
    BY <2>3, <2>4, <2>8 DEF ChannelType
  <2>11. Belongs(m, w, to)
    BY <2>6, <2>9 DEF Belongs
  <2>12. CASE channelBusyShown
    <3>1. InRegister(m, w) /\ \A v \in Ways \ {w} : ~ InRegister(m, v) /\ ~ InRegister(k, v)
      BY <2>4, <2>6, <2>7, <2>9, <2>12, NoneFacts DEF InRegister, NandCodes, Codes
    <3>2. SameBut(k, m, w)
      BY <2>10, <3>1 DEF SameBut
    <3>3. WayInv(m, n, w)
      BY <2>5, <2>6, <2>7, <2>9, <2>12, <3>1 DEF WayInv, Phases
    <3> QED BY <2>1, <2>2, <2>4, <2>9, <2>11, <3>2, <3>3, TouchedMoves
  <2>13. CASE ~ channelBusyShown
    <3>1. WayInv(m, n, w)
      BY <2>5, <2>7, <2>9, <2>13 DEF WayInv
    <3>2. SameBut(k, m, w)
      BY <2>10, <2>13 DEF SameBut
    <3> QED BY <2>1, <2>2, <2>4, <2>9, <2>11, <3>1, <3>2, TouchedMoves
  <2> QED BY <2>12, <2>13
<1> QED BY <1>1, <1>2


\* The first ready way of the status check list is asked for its status.
LEMMA StatusCheckKeeps ==
  ASSUME NEW k, SchedInv(k, nand), ~ ControllerBusy(k)
  PROVE  SchedInv(StatusCheckStep(k), nand)
<1> DEFINE s == k.list["statusCheck"]
           I == {i \in 1 .. Len(s) : nand[s[i]] = "ready"}
           first == IF I # {} THEN Min(I) ELSE 0
           w == s[first]
           m == CheckReqStatus(k, w)
<1>1. StatusCheckStep(k) = IF first = 0 THEN k
                           ELSE MoveWay(m, w, "statusCheck", "statusReport")
  BY DEF StatusCheckStep, SelectInSeq
<1>2. {"statusCheck", "statusReport"} \subseteq Lists /\ ChannelType(k) /\ s \in Seq(Ways)
  BY DEF SchedInv, ChannelType, Lists
<1>3. CASE first = 0
  BY <1>1, <1>3
<1>4. CASE first # 0
  <2>1. I # {} /\ first = Min(I)
    BY <1>4
  <2>2. first \in I
    <3>1. I \subseteq Nat
      OBVIOUS
    <3> HIDE DEF I
    <3> QED BY <2>1, <3>1, LeastNumber DEF Min
  <2>3. w \in Ways /\ nand[w] = "ready" /\ OnList(k, w, "statusCheck")
    <3>1. first \in 1 .. Len(s) /\ nand[s[first]] = "ready"
      BY <2>2
    <3> HIDE DEF first
    <3> QED BY <1>2, <3>1 DEF OnList, In
  <2> HIDE DEF first, w
  <2>4. k.dieState[w] = "EXE" /\ k.statusCheckOpt[w] = "CHECK" /\ WayInv(k, nand, w)
    BY <1>2, <2>3 DEF SchedInv, Belongs
  <2>5. channelBusyShown => k.cmd = NONE /\ k.ran[w]
    BY <2>3, <2>4 DEF ControllerBusy, WayInv, Phases, InRegister
  <2>6. m = StatusCheckAsync([k EXCEPT !.statusCheckOpt[w] = "REPORT"], w)
    BY <2>4 DEF CheckReqStatus
  <2> HIDE DEF m
  <2>7. /\ ChannelType(m) /\ m.list = k.list
        /\ \A v \in Ways \ {w} :
             /\ m.queue[v] = k.queue[v] /\ m.dieState[v] = k.dieState[v]
             /\ m.statusCheckOpt[v] = k.statusCheckOpt[v] /\ m.retryLimit[v] = k.retryLimit[v]
             /\ m.completeFlag[v] = k.completeFlag[v] /\ m.statusReport[v] = k.statusReport[v]
             /\ m.ran[v] = k.ran[v] /\ m.fails[v] = k.fails[v]
        /\ m.dieState[w] = "EXE" /\ m.statusCheckOpt[w] = "REPORT" /\ m.queue = k.queue
        /\ m.retryLimit = k.retryLimit /\ m.fails = k.fails /\ m.ran = k.ran
        /\ channelBusyShown => m.cmd = <<"STATUS", w>>
    BY <1>2, <2>3, <2>4, <2>6, NoneFacts DEF StatusCheckAsync, ChannelType
  <2>8. channelBusyShown =>
          \A v \in Ways : ~ InRegister(m, v) /\ ~ InRegister(k, v)
    BY <2>5, <2>7 DEF InRegister
  <2>9. SameBut(k, m, w)
    BY <2>7, <2>8 DEF SameBut
  <2>10. WayInv(m, nand, w)
    BY <2>3, <2>4, <2>5, <2>7, <2>8 DEF WayInv, Phases
  <2>11. Belongs(m, w, "statusReport")
    BY <2>7 DEF Belongs
  <2> QED BY <1>1, <1>2, <1>4, <2>3, <2>7, <2>9, <2>10, <2>11, TouchedMoves
<1> QED BY <1>3, <1>4

\* A call of the scheduler keeps the invariant, whatever the releases find.
LEMMA ScheduledKeeps ==
  ASSUME SchedInv(ch, nand), NEW more \in [Ways -> Codes \cup {NONE}]
  PROVE  SchedInv(Scheduled(more), nand)
<1> DEFINE Idle(k, w)   == IdleWay(k, w, more[w])
           Report(k, w) == ReportWay(k, w, more[w])
           idled    == FoldLeft(Idle, ch, ch.list["idle"])
           reported == FoldLeft(Report, idled, ch.list["statusReport"])
<1>1. SchedInv(reported, nand)
  BY LoopsStep
<1>2. Scheduled(more) = IF WaitWayCnt(reported) # USER_WAYS /\ ~ ControllerBusy(reported)
                        THEN Commands(reported) ELSE reported
  BY DEF Scheduled
<1> HIDE DEF reported
<1>3. ASSUME ~ ControllerBusy(reported) PROVE SchedInv(Commands(reported), nand)
  <2> DEFINE a == StatusCheckStep(reported)
             b == CommandStep(a, "readTrigger", "statusCheck")
             c == CommandStep(b, "erase", "statusCheck")
             d == CommandStep(c, "write", "statusCheck")
  <2>1. {"readTrigger", "erase", "write", "readTransfer"} \subseteq CommandLists
    BY DEF CommandLists
  <2>2. SchedInv(a, nand)
    BY <1>1, <1>3, StatusCheckKeeps
  <2> HIDE DEF a
  <2>3. SchedInv(b, nand)
    BY <2>1, <2>2, CommandStepKeeps
  <2> HIDE DEF b
  <2>4. SchedInv(c, nand)
    BY <2>1, <2>3, CommandStepKeeps
  <2> HIDE DEF c
  <2>5. SchedInv(d, nand)
    BY <2>1, <2>4, CommandStepKeeps
  <2> HIDE DEF d
  <2>6. SchedInv(CommandStep(d, "readTransfer", "statusReport"), nand)
    BY <2>1, <2>5, CommandStepKeeps
  <2> QED BY <2>6 DEF Commands, a, b, c, d
<1> QED BY <1>1, <1>2, <1>3

-----------------------------------------------------------------------------
(* The other steps. *)

LEMMA PutKeeps ==
  ASSUME SchedInv(ch, nand), NEW w \in Ways, NEW code \in Codes, PutToNandReqQ(w, code)
  PROVE  SchedInv(ch', nand)
<1> DEFINE q == Append(ch.queue[w], code)
<1>1. ChannelType(ch) /\ ch.queue[w] \in Seq(NandCodes) /\ code \in NandCodes
  BY DEF SchedInv, ChannelType, NandCodes
<1>2. q \in Seq(NandCodes) /\ q # <<>>
  BY <1>1
<1>3. ch.queue[w] # <<>> => Head(q) = Head(ch.queue[w])
  BY <1>1
<1>4. ch' = [ch EXCEPT !.queue[w] = q]
  BY DEF PutToNandReqQ
<1> HIDE DEF q
<1>5. /\ ChannelType(ch') /\ SameBut(ch, ch', w)
      /\ ch'.queue[w] = q /\ ch'.dieState = ch.dieState
      /\ ch'.statusCheckOpt = ch.statusCheckOpt /\ ch'.cmd = ch.cmd
      /\ ch'.retryLimit = ch.retryLimit /\ ch'.fails = ch.fails /\ ch'.ran = ch.ran
      /\ ch'.completeFlag = ch.completeFlag
  BY <1>1, <1>2, <1>4 DEF ChannelType, SameBut, InRegister
<1>6. WayInv(ch, nand, w)
  BY DEF SchedInv
<1>7. WayInv(ch', nand, w)
  BY <1>2, <1>5, <1>6 DEF WayInv, Phases, InRegister
<1>8. PICK l \in Lists : OnList(ch, w, l)
  BY DEF SchedInv, Placed
<1>9. Belongs(ch', w, l)
  <2>1. Belongs(ch, w, l)
    BY <1>8 DEF SchedInv
  <2> QED BY <1>2, <1>3, <1>5, <2>1 DEF Belongs, PriorityList
<1> QED BY <1>5, <1>7, <1>8, <1>9, TouchedStays

\* The device changes the register, a flag, a report and a die, and so no list.
LEMMA DeviceKeeps ==
  ASSUME SchedInv(ch, nand), Device
  PROVE  SchedInv(ch, nand)'
<1>1. ChannelType(ch) /\ nand \in DieStates /\ \A v \in Ways : WayInv(ch, nand, v)
  BY DEF SchedInv
<1>2. /\ ch'.list = ch.list /\ ch'.queue = ch.queue /\ ch'.dieState = ch.dieState
      /\ ch'.statusCheckOpt = ch.statusCheckOpt
      /\ ch'.retryLimit = ch.retryLimit /\ ch'.fails = ch.fails
      /\ channelBusyShown' = channelBusyShown
  <2>1. CASE TakeCommand
    BY <1>1, <2>1 DEF TakeCommand, ChannelType
  <2>2. CASE \E answer \in {"pass", "fail", "running"} : ReportStatus(answer)
    BY <1>1, <2>2 DEF ReportStatus, ChannelType
  <2>3. CASE \E w \in Ways : FinishCommand(w)
    BY <1>1, <2>3 DEF FinishCommand, ChannelType
  <2> QED BY <2>1, <2>2, <2>3 DEF Device
<1>6. Placed(ch') /\ \A v \in Ways, l \in Lists : OnList(ch', v, l) => Belongs(ch', v, l)
  <2>1. Placed(ch') /\ \A v \in Ways, l \in Lists : OnList(ch', v, l) <=> OnList(ch, v, l)
    BY <1>2 DEF SchedInv, Placed, OnList
  <2>2. ASSUME NEW v \in Ways, NEW l \in Lists, OnList(ch', v, l) PROVE Belongs(ch', v, l)
    <3>1. Belongs(ch, v, l)
      BY <2>1, <2>2 DEF SchedInv
    <3> QED BY <1>2, <3>1 DEF Belongs, PriorityList
  <2> QED BY <2>1, <2>2
<1>3. CASE TakeCommand
  <2>1. PICK c \in NandCodes, w \in Ways : ch.cmd = <<c, w>>
    BY <1>1, <1>3 DEF TakeCommand, ChannelType, Commanded
  <2>2. /\ ch' = [ch EXCEPT !.cmd = NONE] /\ nand' = [nand EXCEPT ![w] = c]
    BY <1>3, <2>1 DEF TakeCommand
  <2>3. ChannelType(ch') /\ nand' \in DieStates /\ ch'.cmd = NONE
        /\ ch'.ran = ch.ran /\ ch'.completeFlag = ch.completeFlag
    BY <1>1, <2>1, <2>2 DEF ChannelType, DieStates
  <2>4. ASSUME NEW v \in Ways, Phases(ch, nand, v) PROVE Phases(ch', nand', v)
    <3>1. ~ InRegister(ch', v)
      BY <2>3 DEF InRegister
    <3>2. CASE v = w
      <4>1. InRegister(ch, v) /\ nand'[v] # "ready"
        BY <1>1, <2>1, <2>2, <3>2, NoneFacts DEF InRegister, NandCodes, Codes, DieStates
      <4> QED BY <1>2, <2>3, <2>4, <3>1, <4>1, <1>1 DEF Phases, ChannelType
    <3>3. CASE v # w
      <4>1. ~ InRegister(ch, v) /\ nand'[v] = nand[v]
        BY <1>1, <2>1, <2>2, <3>3 DEF InRegister, DieStates
      <4> QED BY <1>2, <2>3, <2>4, <3>1, <4>1 DEF Phases
    <3> QED BY <3>2, <3>3
  <2>5. \A v \in Ways : WayInv(ch, nand, v)'
    BY <1>1, <1>2, <2>4 DEF WayInv
  <2> QED BY <1>6, <2>3, <2>5 DEF SchedInv
<1>4. ASSUME NEW answer \in {"pass", "fail", "running"}, ReportStatus(answer)
      PROVE  SchedInv(ch, nand)'
  <2>1. PICK w \in Ways : ch.cmd = <<"STATUS", w>>
    BY <1>1, <1>4 DEF ReportStatus, ChannelType, Commanded
  <2>2. ch' = [ch EXCEPT !.cmd = NONE, !.statusReport[w] = answer] /\ nand' = nand
    BY <1>4, <2>1 DEF ReportStatus
  <2>3. ChannelType(ch') /\ nand' \in DieStates /\ ch'.cmd = NONE
        /\ ch'.ran = ch.ran /\ ch'.completeFlag = ch.completeFlag
    BY <1>1, <2>2 DEF ChannelType
  <2>4. \A v \in Ways : ~ InRegister(ch, v) /\ ~ InRegister(ch', v)
    BY <2>1, <2>3 DEF InRegister
  <2>5. \A v \in Ways : WayInv(ch, nand, v)'
    BY <1>1, <1>2, <2>2, <2>3, <2>4 DEF WayInv, Phases
  <2> QED BY <1>6, <2>3, <2>5 DEF SchedInv
<1>5. ASSUME NEW w \in Ways, FinishCommand(w) PROVE SchedInv(ch, nand)'
  <2>1. /\ nand[w] # "ready" /\ nand' = [nand EXCEPT ![w] = "ready"]
        /\ ch' = [ch EXCEPT !.completeFlag[w] = @ \/ nand[w] = "READ_TRANSFER",
                            !.ran[w] = TRUE]
    BY <1>5 DEF FinishCommand
  <2>2. /\ ChannelType(ch') /\ nand' \in DieStates /\ ch'.cmd = ch.cmd
        /\ nand'[w] = "ready" /\ ch'.ran[w]
        /\ \A v \in Ways \ {w} : /\ nand'[v] = nand[v] /\ ch'.ran[v] = ch.ran[v]
                                 /\ ch'.completeFlag[v] = ch.completeFlag[v]
    BY <1>1, <2>1 DEF ChannelType, DieStates
  <2>3. ASSUME NEW v \in Ways, Phases(ch, nand, v) PROVE Phases(ch', nand', v)
    <3>1. InRegister(ch', v) <=> InRegister(ch, v)
      BY <2>2 DEF InRegister
    <3>2. CASE v = w
      BY <1>2, <2>1, <2>2, <2>3, <3>1, <3>2 DEF Phases
    <3>3. CASE v # w
      BY <1>2, <2>2, <2>3, <3>1, <3>3 DEF Phases
    <3> QED BY <3>2, <3>3
  <2>4. \A v \in Ways : WayInv(ch, nand, v)'
    BY <1>1, <1>2, <2>3 DEF WayInv
  <2> QED BY <1>6, <2>2, <2>4 DEF SchedInv
<1> QED BY <1>3, <1>4, <1>5 DEF Device


LEMMA StartFacts == InitReqScheduler => SchedInv(ch, nand)
<1> SUFFICES ASSUME InitReqScheduler PROVE SchedInv(ch, nand)
  OBVIOUS
<1> DEFINE s == [i \in 1 .. USER_WAYS |-> i - 1]
<1>1. USER_WAYS \in Nat /\ RETRY_LIMIT \in Nat
  BY WaysAssumption, RetryAssumption
<1>2. s \in Seq(Ways) /\ DOMAIN s = 1 .. USER_WAYS
  <2>1. \A i \in 1 .. USER_WAYS : i - 1 \in Ways
    BY <1>1 DEF Ways
  <2>2. s \in [1 .. USER_WAYS -> Ways]
    BY <2>1
  <2> QED BY <1>1, <2>2, IsASeq
<1>3. ch.list = [l \in Lists |-> IF l = "idle" THEN s ELSE <<>>]
  BY DEF InitReqScheduler
<1>4. Distinct(s) /\ \A w \in Ways : In(s, w)
  <2>1. Distinct(s)
    BY <1>1 DEF Distinct
  <2>2. ASSUME NEW w \in Ways PROVE In(s, w)
    <3>1. PICK i \in 1 .. USER_WAYS : i = w + 1
      BY <1>1 DEF Ways
    <3>2. s[i] = w
      BY <3>1, <1>1 DEF Ways
    <3> QED BY <3>2, <1>2 DEF In
  <2> QED BY <2>1, <2>2
<1> HIDE DEF s
<1>5. ch.list \in [Lists -> Seq(Ways)]
  BY <1>2, <1>3
<1>6. ChannelType(ch)
  <2>1. RETRY_LIMIT \in 0 .. RETRY_LIMIT /\ 0 \in 0 .. RETRY_LIMIT
    BY <1>1
  <2>2. <<>> \in Seq(NandCodes)
    OBVIOUS
  <2> QED BY <1>5, <2>1, <2>2 DEF InitReqScheduler, ChannelType
<1>7. \A w \in Ways, l \in Lists : OnList(ch, w, l) <=> l = "idle"
  BY <1>3, <1>4 DEF OnList, In
<1>8. Placed(ch)
  <2>1. \A l \in Lists : Distinct(ch.list[l])
    BY <1>3, <1>4 DEF Distinct
  <2> QED BY <1>7, <2>1 DEF Placed, Lists
<1>9. \A w \in Ways : ch.dieState[w] = "IDLE" /\ nand[w] = "ready" /\ WayInv(ch, nand, w)
  BY <1>1 DEF InitReqScheduler, WayInv, Phases, InRegister
<1> QED BY <1>6, <1>7, <1>8, <1>9 DEF SchedInv, Belongs, InitReqScheduler, DieStates

\* The invariant is inductive.
THEOREM SchedInvariant == SchedSpec => []SchedInv(ch, nand)
<1>1. SchedInv(ch, nand) /\ [SchedNext]_schedVars => SchedInv(ch, nand)'
  <2> SUFFICES ASSUME SchedInv(ch, nand), [SchedNext]_schedVars PROVE SchedInv(ch, nand)'
    OBVIOUS
  <2>1. CASE Device
    BY <2>1, DeviceKeeps
  <2>2. ASSUME channelBusyShown' = channelBusyShown, nand' = nand, SchedInv(ch', nand)
        PROVE  SchedInv(ch, nand)'
    BY <2>2 DEF SchedInv, WayInv
  <2>3. CASE SchedulingNandReqPerCh
    <3>1. PICK more \in Releases : ch' = Scheduled(more)
      BY <2>3 DEF SchedulingNandReqPerCh
    <3>2. more \in [Ways -> Codes \cup {NONE}]
      BY DEF Releases
    <3>3. SchedInv(ch', nand)
      BY <3>1, <3>2, ScheduledKeeps
    <3> QED BY <2>2, <2>3, <3>3 DEF SchedulingNandReqPerCh
  <2>4. ASSUME NEW w \in Ways, NEW code \in Codes, PutToNandReqQ(w, code)
        PROVE  SchedInv(ch, nand)'
    <3>1. SchedInv(ch', nand)
      BY <2>4, PutKeeps
    <3> QED BY <2>2, <2>4, <3>1 DEF PutToNandReqQ
  <2>5. CASE UNCHANGED schedVars
    BY <2>2, <2>5 DEF schedVars
  <2> QED BY <2>1, <2>3, <2>4, <2>5 DEF SchedNext
<1> QED BY StartFacts, <1>1, PTL DEF SchedSpec

\* Every way of the channel is always on one list, once, and on the one its state
\* and its head request call for (request_schedule.c, the lists of
\* SchedulingNandReqPerCh).
THEOREM WaysAlwaysOnTheirLists == SchedSpec => []WaysOnTheirLists
<1>1. SchedInv(ch, nand) => WaysOnTheirLists
  <2> SUFFICES ASSUME SchedInv(ch, nand), NEW w \in Ways
               PROVE  /\ Cardinality({l \in Lists : On(w, l)}) = 1
                      /\ \A l \in Lists :
                           /\ On(w, l) => WhereItBelongs(w, l)
                           /\ \A i, j \in DOMAIN ch.list[l] :
                                ch.list[l][i] = w /\ ch.list[l][j] = w => i = j
    BY DEF WaysOnTheirLists
  <2>1. \A l \in Lists : On(w, l) <=> OnList(ch, w, l)
    BY DEF On, OnList, In
  <2>2. PICK l \in Lists : OnList(ch, w, l)
    BY DEF SchedInv, Placed
  <2>3. {m \in Lists : On(w, m)} = {l}
    BY <2>1, <2>2 DEF SchedInv, Placed
  <2>4. Cardinality({l}) = 1
    BY FS_Singleton
  <2>5. \A m \in Lists : On(w, m) => WhereItBelongs(w, m)
    BY <2>1 DEF SchedInv, Belongs, WhereItBelongs
  <2>6. \A m \in Lists : \A i, j \in DOMAIN ch.list[m] :
          ch.list[m][i] = w /\ ch.list[m][j] = w => i = j
    BY DEF SchedInv, Placed, Distinct
  <2> QED BY <2>3, <2>4, <2>5, <2>6
<1> QED BY SchedInvariant, <1>1, PTL

\* On a controller that shows itself busy, a request is found ended only after
\* its die has carried out its command (CheckReqStatus).
THEOREM EndedHasAlwaysRun == SchedSpec => []EndedHasRun
<1>1. SchedInv(ch, nand) => EndedHasRun
  BY EndedFacts DEF EndedHasRun
<1> QED BY SchedInvariant, <1>1, PTL

\* A read always has the retries its earlier failures have left of the limit
\* (ExecuteNandReq, GetFromNandReqQ).
THEOREM RetriesAlwaysExact == SchedSpec => []RetriesExact
<1>1. SchedInv(ch, nand) => RetriesExact
  BY DEF SchedInv, WayInv, RetriesExact
<1> QED BY SchedInvariant, <1>1, PTL

=============================================================================
