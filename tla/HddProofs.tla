------------------------------ MODULE HddProofs ------------------------------
(***************************************************************************)
(* The list of the HDD manager and the disk it stands for, for any number  *)
(* of partitions, any names and any disks to start with.                   *)
(***************************************************************************)
EXTENDS HddManager, SequenceTheorems, WellFoundedInduction, TLAPS

-----------------------------------------------------------------------------
(***************************************************************************)
(* Functions defined step by step: one exists, and there is only one.      *)
(***************************************************************************)
LEMMA LeastIn ==
    ASSUME NEW S \in SUBSET Nat, S # {}
    PROVE  \E w \in S : \A v \in S : w <= v
<1> DEFINE less == OpToRel(<, Nat)
<1>1. \A i, j \in Nat : <<j, i>> \in less <=> j < i
  BY DEF OpToRel
<1>2. IsWellFoundedOn(less, Nat)
  BY NatLessThanWellFounded
<1> HIDE DEF less
<1>3. PICK w \in S : \A v \in S : ~ (<<v, w>> \in less)
  BY <1>2, WFMin
<1>4. ASSUME NEW v \in S PROVE w <= v
  <2>1. v \in Nat /\ w \in Nat /\ ~ (v < w)
    BY <1>1, <1>3
  <2> QED BY <2>1
<1> QED BY <1>4

\* f is defined step by step from 0 to n.
Iterated(f, n, S, s0, F) ==
    f \in [0 .. n -> S] /\ f[0] = s0 /\ \A k \in 1 .. n : f[k] = F[k][f[k - 1]]

LEMMA Iterates ==
    ASSUME NEW n \in Nat, NEW S, NEW s0 \in S, NEW F \in [1 .. n -> [S -> S]]
    PROVE  \E f : Iterated(f, n, S, s0, F)
<1> DEFINE Steps(f, m) == f[0] = s0 /\ \A k \in 1 .. m : f[k] = F[k][f[k - 1]]
           bad == {m \in 0 .. n : ~ \E f \in [0 .. m -> S] : Steps(f, m)}
<1>1. ASSUME bad # {} PROVE FALSE
  <2>1. bad \in SUBSET Nat
    OBVIOUS
  <2>2. PICK m \in bad : \A v \in bad : m <= v
    BY <1>1, <2>1, LeastIn
  <2>3. m \in 0 .. n
    OBVIOUS
  <2>4. CASE m = 0
    <3>1. PICK f : f = [i \in 0 .. 0 |-> s0]
      OBVIOUS
    <3>2. f \in [0 .. m -> S] /\ Steps(f, m)
      BY <2>4, <3>1
    <3> QED BY <2>3, <3>2
  <2>5. CASE m # 0
    <3>1. m - 1 \in 0 .. n /\ m - 1 \notin bad
      BY <2>2, <2>3, <2>5
    <3>2. PICK f \in [0 .. m - 1 -> S] : Steps(f, m - 1)
      BY <3>1
    <3>3. m \in 1 .. n /\ f[m - 1] \in S
      BY <2>3, <2>5
    <3>4. PICK e \in S : e = F[m][f[m - 1]]
      BY <3>3
    <3>5. PICK g : g = [i \in 0 .. m |-> IF i < m THEN f[i] ELSE e]
      OBVIOUS
    <3>6. g \in [0 .. m -> S] /\ \A i \in 0 .. m - 1 : g[i] = f[i]
      BY <2>3, <3>5
    <3>7. g[0] = s0
      BY <3>2, <3>3, <3>6
    <3>8. ASSUME NEW k \in 1 .. m PROVE g[k] = F[k][g[k - 1]]
      <4>1. CASE k < m
        BY <3>2, <3>3, <3>6, <4>1
      <4>2. CASE k = m
        <5>1. g[m] = e /\ m - 1 \in 0 .. m - 1
          BY <3>3, <3>5
        <5>2. g[m - 1] = f[m - 1]
          BY <3>6, <5>1
        <5> QED BY <3>4, <4>2, <5>1, <5>2
      <4> QED BY <3>3, <4>1, <4>2
    <3> QED BY <2>3, <3>6, <3>7, <3>8
  <2> QED BY <2>4, <2>5
<1>2. n \notin bad
  BY <1>1
<1> QED BY <1>2 DEF Iterated

\* The space used by a sequence of partitions, summed up from the first.
LEMMA SizesIs ==
    ASSUME NEW d, Len(d) \in Nat, NEW f \in [0 .. Len(d) -> Int], f[0] = 0,
           \A k \in 1 .. Len(d) : f[k] = f[k - 1] + d[k].size
    PROVE  Sizes(d) = f[Len(d)]
<1> DEFINE eq(g) == g = [i \in 0 .. Len(d) |-> IF i = 0 THEN 0 ELSE g[i - 1] + d[i].size]
           u == CHOOSE g : eq(g)
<1>1. f = [i \in 0 .. Len(d) |-> IF i = 0 THEN 0 ELSE f[i - 1] + d[i].size]
  <2>1. ASSUME NEW i \in 0 .. Len(d)
        PROVE  f[i] = IF i = 0 THEN 0 ELSE f[i - 1] + d[i].size
    BY <2>1
  <2> QED BY <2>1
<1>2. eq(u)
  BY <1>1
<1>3. Sizes(d) = u[Len(d)]
  BY DEF Sizes
<1> HIDE DEF u
<1>4. PICK n \in Nat : n = Len(d)
  OBVIOUS
<1>5. \A i \in 0 .. n : u[i] = IF i = 0 THEN 0 ELSE u[i - 1] + d[i].size
  BY <1>2, <1>4
<1> HIDE DEF eq
<1>6. u[0] = f[0]
  BY <1>4, <1>5
<1>7. ASSUME NEW k \in 1 .. n, u[k - 1] = f[k - 1] PROVE u[k] = f[k]
  <2>1. k \in 0 .. n /\ k # 0
    OBVIOUS
  <2>2. u[k] = u[k - 1] + d[k].size
    BY <1>5, <2>1
  <2>3. f[k] = f[k - 1] + d[k].size
    BY <1>4
  <2> QED BY <1>7, <2>2, <2>3
<1>8. {k \in 0 .. n : u[k] # f[k]} = {}
  <2> DEFINE bad == {k \in 0 .. n : u[k] # f[k]}
  <2>1. SUFFICES ASSUME bad # {} PROVE FALSE
    OBVIOUS
  <2> bad \in SUBSET Nat
    OBVIOUS
  <2>2. PICK m \in bad : \A v \in bad : m <= v
    BY <2>1, LeastIn
  <2>3. m \in 1 .. n
    BY <1>6, <2>2
  <2>4. m - 1 \notin bad /\ m - 1 \in 0 .. n
    BY <2>2, <2>3
  <2> QED BY <1>7, <2>2, <2>3, <2>4
<1> QED BY <1>3, <1>4, <1>8

-----------------------------------------------------------------------------
(***************************************************************************)
(* Sequences with an element more or less.                                 *)
(***************************************************************************)
LEMMA IsSeqOf ==
    ASSUME NEW S, NEW s \in Seq(S)
    PROVE  IsSeq(s)
BY DEF IsSeq

LEMMA FirstIs ==
    ASSUME NEW d, IsSeq(d), NEW n \in Nat
    PROVE  LET e == First(d, n)
           IN /\ IsSeq(e) /\ Len(e) = (IF Len(d) < n THEN Len(d) ELSE n)
              /\ \A i \in 1 .. Len(e) : e[i] = d[i]
<1> DEFINE S == {d[i] : i \in 1 .. Len(d)}
           m == IF Len(d) < n THEN Len(d) ELSE n
           e == SubSeq(d, 1, m)
<1>1. m \in 0 .. Len(d) /\ Len(d) \in Nat
  BY DEF IsSeq
<1>2. \A i \in 1 .. m : d[i] \in S
  BY <1>1
<1> HIDE DEF m, S
<1>3. e \in Seq(S) /\ Len(e) = (IF 1 <= m THEN m - 1 + 1 ELSE 0)
      /\ \A i \in 1 .. m - 1 + 1 : e[i] = d[1 + i - 1]
  BY <1>1, <1>2, SubSeqProperties
<1>4. Len(e) = m /\ \A i \in 1 .. m : e[i] = d[i]
  BY <1>1, <1>3
<1>5. IsSeq(e)
  BY <1>3, IsSeqOf
<1> QED BY <1>4, <1>5 DEF First, m

LEMMA InsertIs ==
    ASSUME NEW d, IsSeq(d), NEW i \in 1 .. Len(d) + 1, NEW p
    PROVE  LET e == InsertAt(d, i, p)
           IN /\ IsSeq(e) /\ Len(e) = Len(d) + 1
              /\ \A j \in 1 .. Len(e) :
                   e[j] = IF j < i THEN d[j] ELSE IF j = i THEN p ELSE d[j - 1]
<1> DEFINE S == {d[k] : k \in 1 .. Len(d)} \cup {p}
           a == SubSeq(d, 1, i - 1)
           b == SubSeq(d, i, Len(d))
           c == <<p>>
<1>1. PICK n \in Nat : n = Len(d) /\ i \in 1 .. n + 1
  BY DEF IsSeq
<1>2. p \in S /\ \A k \in 1 .. n : d[k] \in S
  BY <1>1
<1> HIDE DEF S
<1>3. /\ a \in Seq(S) /\ Len(a) = i - 1
      /\ \A k \in 1 .. i - 1 : a[k] = d[k]
  <2>1. \A k \in 1 .. i - 1 : d[k] \in S
    BY <1>1, <1>2
  <2>2. a \in Seq(S) /\ Len(a) = (IF 1 <= i - 1 THEN i - 1 - 1 + 1 ELSE 0)
        /\ \A k \in 1 .. i - 1 - 1 + 1 : a[k] = d[1 + k - 1]
    BY <1>1, <2>1, SubSeqProperties
  <2> QED BY <1>1, <2>2
<1>4. /\ b \in Seq(S) /\ Len(b) = n + 1 - i
      /\ \A k \in 1 .. n + 1 - i : b[k] = d[i + k - 1]
  <2>1. \A k \in i .. n : d[k] \in S
    BY <1>1, <1>2
  <2>2. b \in Seq(S) /\ Len(b) = (IF i <= n THEN n - i + 1 ELSE 0)
        /\ \A k \in 1 .. n - i + 1 : b[k] = d[i + k - 1]
    BY <1>1, <2>1, SubSeqProperties
  <2> QED BY <1>1, <2>2
<1>5. c \in Seq(S) /\ Len(c) = 1 /\ c[1] = p
  BY <1>2
<1> HIDE DEF a, b, c
<1>6. PICK ac : ac = a \o c
  OBVIOUS
<1>7. /\ ac \in Seq(S) /\ Len(ac) = i
      /\ \A k \in 1 .. i : ac[k] = IF k < i THEN d[k] ELSE p
  <2>1. /\ ac \in Seq(S) /\ Len(ac) = Len(a) + Len(c)
        /\ \A k \in 1 .. Len(a) + Len(c) : ac[k] = IF k <= Len(a) THEN a[k] ELSE c[k - Len(a)]
    BY <1>3, <1>5, <1>6, ConcatProperties
  <2>2. Len(a) + Len(c) = i
    BY <1>1, <1>3, <1>5
  <2>3. ASSUME NEW k \in 1 .. i PROVE ac[k] = IF k < i THEN d[k] ELSE p
    <3>1. CASE k < i
      <4>1. k <= Len(a) /\ k \in 1 .. i - 1
        BY <1>1, <1>3, <3>1
      <4> QED BY <1>3, <2>1, <2>2, <3>1, <4>1
    <3>2. CASE k = i
      <4>1. k - Len(a) = 1 /\ ~ (k <= Len(a))
        BY <1>1, <1>3, <3>2
      <4> QED BY <1>5, <2>1, <2>2, <3>2, <4>1
    <3> QED BY <1>1, <3>1, <3>2
  <2> QED BY <2>1, <2>2, <2>3
<1>8. /\ ac \o b \in Seq(S) /\ Len(ac \o b) = n + 1
      /\ \A j \in 1 .. n + 1 : (ac \o b)[j] = IF j <= i THEN ac[j] ELSE b[j - i]
  <2>1. /\ ac \o b \in Seq(S) /\ Len(ac \o b) = Len(ac) + Len(b)
        /\ \A j \in 1 .. Len(ac) + Len(b) :
             (ac \o b)[j] = IF j <= Len(ac) THEN ac[j] ELSE b[j - Len(ac)]
    BY <1>4, <1>7, ConcatProperties
  <2>2. Len(ac) + Len(b) = n + 1 /\ Len(ac) = i
    BY <1>1, <1>4, <1>7
  <2> QED BY <2>1, <2>2
<1>9. ASSUME NEW j \in 1 .. n + 1
      PROVE  (ac \o b)[j] = IF j < i THEN d[j] ELSE IF j = i THEN p ELSE d[j - 1]
  <2>1. CASE j <= i
    BY <1>1, <1>7, <1>8, <2>1
  <2>2. CASE j > i
    <3>1. /\ j - i \in 1 .. n + 1 - i /\ i + (j - i) - 1 = j - 1
          /\ ~ (j <= i) /\ ~ (j < i) /\ j # i
      BY <1>1, <2>2
    <3>2. (ac \o b)[j] = b[j - i]
      BY <1>8, <3>1
    <3>3. b[j - i] = d[i + (j - i) - 1]
      BY <1>4, <3>1
    <3>4. (ac \o b)[j] = d[j - 1]
      BY <3>1, <3>2, <3>3
    <3> QED BY <3>1, <3>4
  <2>3. j <= i \/ j > i
    BY <1>1
  <2> QED BY <2>1, <2>2, <2>3
<1>10. IsSeq(ac \o b)
  BY <1>8, IsSeqOf
<1>11. InsertAt(d, i, p) = ac \o b
  BY <1>6 DEF InsertAt, a, b, c
<1> QED BY <1>1, <1>8, <1>9, <1>10, <1>11

LEMMA RemoveIs ==
    ASSUME NEW d, IsSeq(d), NEW i \in 1 .. Len(d)
    PROVE  LET e == RemoveAt(d, i)
           IN /\ IsSeq(e) /\ Len(e) = Len(d) - 1
              /\ \A j \in 1 .. Len(e) : e[j] = IF j < i THEN d[j] ELSE d[j + 1]
<1> DEFINE S == {d[k] : k \in 1 .. Len(d)}
           a == SubSeq(d, 1, i - 1)
           b == SubSeq(d, i + 1, Len(d))
<1>1. PICK n \in Nat : n = Len(d) /\ i \in 1 .. n
  BY DEF IsSeq
<1>2. \A k \in 1 .. n : d[k] \in S
  BY <1>1
<1> HIDE DEF S
<1>3. /\ a \in Seq(S) /\ Len(a) = i - 1
      /\ \A k \in 1 .. i - 1 : a[k] = d[k]
  <2>1. \A k \in 1 .. i - 1 : d[k] \in S
    BY <1>1, <1>2
  <2>2. a \in Seq(S) /\ Len(a) = (IF 1 <= i - 1 THEN i - 1 - 1 + 1 ELSE 0)
        /\ \A k \in 1 .. i - 1 - 1 + 1 : a[k] = d[1 + k - 1]
    BY <1>1, <2>1, SubSeqProperties
  <2> QED BY <1>1, <2>2
<1>4. /\ b \in Seq(S) /\ Len(b) = n - i
      /\ \A k \in 1 .. n - i : b[k] = d[i + k]
  <2>1. \A k \in i + 1 .. n : d[k] \in S
    BY <1>1, <1>2
  <2>2. b \in Seq(S) /\ Len(b) = (IF i + 1 <= n THEN n - (i + 1) + 1 ELSE 0)
        /\ \A k \in 1 .. n - (i + 1) + 1 : b[k] = d[i + 1 + k - 1]
    BY <1>1, <2>1, SubSeqProperties
  <2> QED BY <1>1, <2>2
<1> HIDE DEF a, b
<1>5. /\ a \o b \in Seq(S) /\ Len(a \o b) = n - 1
      /\ \A j \in 1 .. n - 1 : (a \o b)[j] = IF j <= i - 1 THEN a[j] ELSE b[j - (i - 1)]
  <2>1. /\ a \o b \in Seq(S) /\ Len(a \o b) = Len(a) + Len(b)
        /\ \A j \in 1 .. Len(a) + Len(b) :
             (a \o b)[j] = IF j <= Len(a) THEN a[j] ELSE b[j - Len(a)]
    BY <1>3, <1>4, ConcatProperties
  <2>2. Len(a) + Len(b) = n - 1 /\ Len(a) = i - 1
    BY <1>1, <1>3, <1>4
  <2> QED BY <2>1, <2>2
<1>6. ASSUME NEW j \in 1 .. n - 1
      PROVE  (a \o b)[j] = IF j < i THEN d[j] ELSE d[j + 1]
  <2>1. CASE j < i
    BY <1>1, <1>3, <1>5, <2>1
  <2>2. CASE j >= i
    <3>1. /\ j - (i - 1) \in 1 .. n - i /\ i + (j - (i - 1)) = j + 1
          /\ ~ (j <= i - 1) /\ ~ (j < i)
      BY <1>1, <2>2
    <3>2. (a \o b)[j] = b[j - (i - 1)]
      BY <1>5, <3>1
    <3>3. b[j - (i - 1)] = d[i + (j - (i - 1))]
      BY <1>4, <3>1
    <3>4. (a \o b)[j] = d[j + 1]
      BY <3>1, <3>2, <3>3
    <3> QED BY <3>1, <3>4
  <2>3. j < i \/ j >= i
    BY <1>1
  <2> QED BY <2>1, <2>2, <2>3
<1>7. IsSeq(a \o b)
  BY <1>5, IsSeqOf
<1>8. RemoveAt(d, i) = a \o b
  BY DEF RemoveAt, a, b
<1> QED BY <1>1, <1>5, <1>6, <1>7, <1>8

-----------------------------------------------------------------------------
(***************************************************************************)
(* The space that partitions take: the sums of their sizes from the first. *)
(***************************************************************************)
Sized(d) == IsSeq(d) /\ \A i \in 1 .. Len(d) : d[i].size \in Nat

SumsOf(f, d) ==
    /\ f \in [0 .. Len(d) -> Nat] /\ f[0] = 0
    /\ \A k \in 1 .. Len(d) : f[k] = f[k - 1] + d[k].size

LEMMA HasSums ==
    ASSUME NEW d, Sized(d)
    PROVE  \E f : SumsOf(f, d)
<1>1. PICK n \in Nat : n = Len(d)
  BY DEF Sized, IsSeq
<1>2. PICK F : F = [k \in 1 .. n |-> [x \in Nat |-> x + d[k].size]]
  OBVIOUS
<1>3. F \in [1 .. n -> [Nat -> Nat]]
      /\ \A k \in 1 .. n, x \in Nat : F[k][x] = x + d[k].size
  BY <1>1, <1>2 DEF Sized
<1>4. PICK f : Iterated(f, n, Nat, 0, F)
  BY <1>3, Iterates
<1>5. f \in [0 .. n -> Nat] /\ f[0] = 0 /\ \A k \in 1 .. n : f[k] = F[k][f[k - 1]]
  BY <1>4 DEF Iterated
<1>6. ASSUME NEW k \in 1 .. n PROVE f[k] = f[k - 1] + d[k].size
  <2>1. f[k - 1] \in Nat
    BY <1>5
  <2> QED BY <1>3, <1>5, <2>1
<1> QED BY <1>1, <1>5, <1>6 DEF SumsOf

LEMMA SumsAre ==
    ASSUME NEW d, Sized(d), NEW f, SumsOf(f, d)
    PROVE  Sizes(d) = f[Len(d)] /\ Sizes(d) \in Nat
<1>1. Len(d) \in Nat /\ f \in [0 .. Len(d) -> Int] /\ f[Len(d)] \in Nat
  BY DEF Sized, IsSeq, SumsOf
<1>2. Sizes(d) = f[Len(d)]
  BY <1>1, SizesIs DEF SumsOf
<1> QED BY <1>1, <1>2

LEMMA SumsRise ==
    ASSUME NEW d, Sized(d), NEW f, SumsOf(f, d),
           NEW j \in 0 .. Len(d), NEW k \in j .. Len(d)
    PROVE  f[j] <= f[k]
<1>1. PICK n \in Nat : n = Len(d)
  BY DEF Sized, IsSeq
<1> DEFINE bad == {m \in j .. n : ~ (f[j] <= f[m])}
<1>2. ASSUME bad # {} PROVE FALSE
  <2>1. bad \in SUBSET Nat
    BY <1>1
  <2>2. PICK m \in bad : \A v \in bad : m <= v
    BY <1>2, <2>1, LeastIn
  <2>3. f[j] \in Nat /\ f[m] \in Nat
    <3>1. j \in 0 .. Len(d) /\ m \in 0 .. Len(d)
      BY <1>1
    <3>2. f \in [0 .. Len(d) -> Nat]
      BY DEF SumsOf
    <3> QED BY <3>1, <3>2
  <2>4. m # j
    BY <2>3
  <2>5. m \in 1 .. n /\ m - 1 \in j .. n /\ m - 1 \notin bad
    BY <1>1, <2>2, <2>4
  <2>6. f[m] = f[m - 1] + d[m].size /\ d[m].size \in Nat /\ f[m - 1] \in Nat
    <3>1. m \in 1 .. Len(d) /\ m - 1 \in 0 .. Len(d)
      BY <1>1, <2>5
    <3>2. f[m] = f[m - 1] + d[m].size /\ f[m - 1] \in Nat
      BY <3>1 DEF SumsOf
    <3>3. d[m].size \in Nat
      BY <3>1 DEF Sized
    <3> QED BY <3>2, <3>3
  <2>7. f[j] <= f[m - 1]
    BY <2>5
  <2>8. f[j] <= f[m]
    BY <2>3, <2>6, <2>7
  <2> QED BY <2>2, <2>8
<1> QED BY <1>1, <1>2

LEMMA SumsFirst ==
    ASSUME NEW d, Sized(d), NEW f, SumsOf(f, d), NEW n \in Nat
    PROVE  /\ Sizes(First(d, n)) = f[IF Len(d) < n THEN Len(d) ELSE n]
           /\ Sized(First(d, n)) /\ Sizes(First(d, n)) \in Nat /\ Sizes(First(d, n)) <= Sizes(d)
<1>1. PICK l \in Nat : l = Len(d)
  BY DEF Sized, IsSeq
<1>2. PICK m \in 0 .. l : m = IF Len(d) < n THEN Len(d) ELSE n
  BY <1>1
<1>3. PICK e : e = First(d, n)
  OBVIOUS
<1>4. IsSeq(e) /\ Len(e) = m /\ \A i \in 1 .. m : e[i] = d[i]
  BY <1>2, <1>3, FirstIs DEF Sized
<1>5. Sized(e)
  BY <1>1, <1>4 DEF Sized
<1>6. PICK g : g = [k \in 0 .. m |-> f[k]]
  OBVIOUS
<1>7. SumsOf(g, e)
  <2>1. g \in [0 .. m -> Nat] /\ g[0] = 0
    <3>1. f \in [0 .. Len(d) -> Nat] /\ f[0] = 0
      BY DEF SumsOf
    <3>2. 0 \in 0 .. m /\ 0 .. m \subseteq 0 .. Len(d)
      BY <1>1
    <3>3. \A k \in 0 .. m : f[k] \in Nat
      BY <3>1, <3>2
    <3> QED BY <1>6, <3>1, <3>2, <3>3
  <2>2. ASSUME NEW k \in 1 .. m PROVE g[k] = g[k - 1] + e[k].size
    <3>1. f[k] = f[k - 1] + d[k].size
      BY <1>1 DEF SumsOf
    <3> QED BY <1>4, <1>6, <3>1
  <2> QED BY <1>4, <2>1, <2>2 DEF SumsOf
<1>8. Sizes(e) = g[m] /\ g[m] = f[m] /\ Sizes(e) \in Nat
  BY <1>4, <1>5, <1>6, <1>7, SumsAre
<1>9. f[m] <= f[l]
  BY <1>1, SumsRise
<1>10. Sizes(d) = f[l]
  BY <1>1, SumsAre
<1> QED BY <1>2, <1>3, <1>5, <1>8, <1>9, <1>10

LEMMA SumsInsert ==
    ASSUME NEW d, Sized(d), NEW i \in 1 .. Len(d) + 1, NEW p, p.size \in Nat
    PROVE  Sized(InsertAt(d, i, p)) /\ Sizes(InsertAt(d, i, p)) = Sizes(d) + p.size
<1>1. PICK n \in Nat : n = Len(d) /\ i \in 1 .. n + 1
  BY DEF Sized, IsSeq
<1>2. PICK f : SumsOf(f, d)
  BY HasSums
<1>3. PICK e : e = InsertAt(d, i, p)
  OBVIOUS
<1>4. /\ IsSeq(e) /\ Len(e) = n + 1
      /\ \A j \in 1 .. n + 1 : e[j] = IF j < i THEN d[j] ELSE IF j = i THEN p ELSE d[j - 1]
  BY <1>1, <1>3, InsertIs DEF Sized
<1>5. ASSUME NEW j \in 1 .. n + 1 PROVE e[j].size \in Nat
  <2>1. j < i => e[j] = d[j] /\ j \in 1 .. n
    BY <1>1, <1>4
  <2>2. j = i => e[j] = p
    BY <1>1, <1>4
  <2>3. j > i => e[j] = d[j - 1] /\ j - 1 \in 1 .. n
    BY <1>1, <1>4
  <2>4. j < i \/ j = i \/ j > i
    BY <1>1
  <2>5. \A k \in 1 .. n : d[k].size \in Nat
    BY <1>1 DEF Sized
  <2> QED BY <2>1, <2>2, <2>3, <2>4, <2>5
<1>6. Sized(e)
  BY <1>4, <1>5 DEF Sized
<1>7. PICK g : g = [k \in 0 .. n + 1 |-> IF k < i THEN f[k] ELSE f[k - 1] + p.size]
  OBVIOUS
<1>8. /\ f \in [0 .. n -> Nat] /\ f[0] = 0
      /\ \A k \in 1 .. n : f[k] = f[k - 1] + d[k].size
  BY <1>1, <1>2 DEF SumsOf
<1>9. SumsOf(g, e)
  <2>1. ASSUME NEW k \in 0 .. n + 1
        PROVE  /\ k < i => g[k] = f[k] /\ f[k] \in Nat
               /\ k >= i => g[k] = f[k - 1] + p.size /\ f[k - 1] \in Nat
    <3>1. k < i => g[k] = f[k] /\ k \in 0 .. n
      BY <1>1, <1>7
    <3>2. k >= i => g[k] = f[k - 1] + p.size /\ k - 1 \in 0 .. n
      BY <1>1, <1>7
    <3> QED BY <1>8, <3>1, <3>2
  <2>2. ASSUME NEW k \in 0 .. n + 1 PROVE g[k] \in Nat
    <3>1. p.size \in Nat
      BY <1>1
    <3>2. k < i \/ k >= i
      BY <1>1
    <3>3. CASE k < i
      BY <2>1, <3>3
    <3>4. CASE k >= i
      BY <2>1, <3>1, <3>4
    <3> QED BY <3>2, <3>3, <3>4
  <2>3. g \in [0 .. n + 1 -> Nat]
    BY <1>7, <2>2
  <2>4. g[0] = 0
    BY <1>1, <1>8, <2>1
  <2>5. ASSUME NEW k \in 1 .. n + 1 PROVE g[k] = g[k - 1] + e[k].size
    <3>1. k - 1 \in 0 .. n + 1 /\ k \in 0 .. n + 1
      OBVIOUS
    <3>2. CASE k < i
      <4>1. k \in 1 .. n /\ k - 1 < i /\ e[k] = d[k]
        BY <1>1, <1>4, <3>2
      <4> QED BY <1>8, <2>1, <3>1, <3>2, <4>1
    <3>3. CASE k = i
      <4>1. e[k] = p /\ k - 1 < i /\ k >= i
        BY <1>1, <1>4, <3>3
      <4> QED BY <2>1, <3>1, <4>1
    <3>4. CASE k > i
      <4>1. /\ e[k] = d[k - 1] /\ k - 1 \in 1 .. n /\ k - 1 >= i /\ k >= i
            /\ k - 2 \in 0 .. n /\ (k - 1) - 1 = k - 2
        BY <1>1, <1>4, <3>4
      <4>2. f[k - 1] = f[k - 2] + d[k - 1].size /\ d[k - 1].size \in Nat
        BY <1>1, <1>8, <4>1 DEF Sized
      <4>3. g[k] = f[k - 1] + p.size /\ g[k - 1] = f[k - 2] + p.size
        BY <2>1, <3>1, <4>1
      <4>4. f[k - 2] \in Nat
        BY <1>8, <4>1
      <4> QED BY <4>1, <4>2, <4>3, <4>4
    <3>5. k < i \/ k = i \/ k > i
      BY <1>1
    <3> QED BY <3>2, <3>3, <3>4, <3>5
  <2> QED BY <1>4, <2>3, <2>4, <2>5 DEF SumsOf
<1>10. Sizes(e) = g[n + 1] /\ Sizes(d) = f[n]
  BY <1>1, <1>2, <1>4, <1>6, <1>9, SumsAre
<1>11. g[n + 1] = f[n] + p.size
  <2>1. g[n + 1] = IF n + 1 < i THEN f[n + 1] ELSE f[n + 1 - 1] + p.size
    BY <1>7
  <2>2. ~ (n + 1 < i) /\ n + 1 - 1 = n
    BY <1>1
  <2> QED BY <2>1, <2>2
<1> QED BY <1>3, <1>6, <1>10, <1>11

\* Without partition i, the partitions up to any one behind it take its size less.
LEMMA SumsRemove ==
    ASSUME NEW d, Sized(d), NEW i \in 1 .. Len(d), NEW n \in i .. Len(d)
    PROVE  /\ Sized(RemoveAt(d, i))
           /\ Sizes(RemoveAt(d, i)) = Sizes(d) - d[i].size
           /\ Sizes(First(RemoveAt(d, i), n - 1)) = Sizes(First(d, n)) - d[i].size
<1>1. PICK l \in Nat : l = Len(d) /\ i \in 1 .. l /\ n \in i .. l
  BY DEF Sized, IsSeq
<1>2. PICK f : SumsOf(f, d)
  BY HasSums
<1>3. PICK e : e = RemoveAt(d, i)
  OBVIOUS
<1>4. /\ IsSeq(e) /\ Len(e) = l - 1
      /\ \A j \in 1 .. l - 1 : e[j] = IF j < i THEN d[j] ELSE d[j + 1]
  BY <1>1, <1>3, RemoveIs DEF Sized
<1>5. /\ f \in [0 .. l -> Nat] /\ f[0] = 0
      /\ \A k \in 1 .. l : f[k] = f[k - 1] + d[k].size /\ d[k].size \in Nat
  BY <1>1, <1>2 DEF SumsOf, Sized
<1>6. Sized(e)
  <2>1. ASSUME NEW j \in 1 .. l - 1 PROVE e[j].size \in Nat
    <3>1. j \in 1 .. l /\ j + 1 \in 1 .. l
      BY <1>1
    <3> QED BY <1>4, <1>5, <3>1
  <2> QED BY <1>4, <2>1 DEF Sized
<1>7. PICK g : g = [k \in 0 .. l - 1 |-> IF k < i THEN f[k] ELSE f[k + 1] - d[i].size]
  OBVIOUS
<1>8. ASSUME NEW k \in 0 .. l - 1
      PROVE  /\ k < i => g[k] = f[k]
             /\ k >= i => g[k] = f[k + 1] - d[i].size
             /\ g[k] \in Nat
  <2>1. CASE k < i
    <3>1. k \in 0 .. l /\ g[k] = f[k]
      BY <1>1, <1>7, <2>1
    <3> QED BY <1>1, <1>5, <2>1, <3>1
  <2>2. CASE k >= i
    <3>1. g[k] = f[k + 1] - d[i].size /\ k + 1 \in i .. l /\ i \in 0 .. l
      BY <1>1, <1>7, <2>2
    <3>2. f[i] <= f[k + 1]
      BY <1>1, <1>2, <3>1, SumsRise
    <3>3. /\ f[i] = f[i - 1] + d[i].size /\ d[i].size \in Nat
          /\ f[i - 1] \in Nat /\ f[k + 1] \in Nat
      <4>1. i \in 1 .. l /\ i - 1 \in 0 .. l /\ k + 1 \in 0 .. l
        BY <1>1, <3>1
      <4> QED BY <1>5, <4>1
    <3>4. f[k + 1] - d[i].size \in Nat
      BY <3>2, <3>3
    <3> QED BY <1>1, <2>2, <3>1, <3>4
  <2>3. k < i \/ k >= i
    BY <1>1
  <2> QED BY <2>1, <2>2, <2>3
<1>9. SumsOf(g, e)
  <2>1. g \in [0 .. l - 1 -> Nat]
    BY <1>7, <1>8
  <2>2. g[0] = 0
    BY <1>1, <1>5, <1>8
  <2>3. ASSUME NEW k \in 1 .. l - 1 PROVE g[k] = g[k - 1] + e[k].size
    <3>1. k - 1 \in 0 .. l - 1 /\ k \in 0 .. l - 1 /\ k \in 1 .. l /\ k + 1 \in 1 .. l
          /\ (k + 1) - 1 = k /\ (k - 1) + 1 = k
      BY <1>1
    <3>2. f[k + 1] = f[k] + d[k + 1].size /\ d[k + 1].size \in Nat /\ f[k] \in Nat
      <4>1. k \in 0 .. l
        BY <3>1
      <4>2. f[k] \in Nat
        BY <1>5, <4>1
      <4>3. f[k + 1] = f[(k + 1) - 1] + d[k + 1].size /\ d[k + 1].size \in Nat
        BY <1>5, <3>1
      <4> QED BY <3>1, <4>2, <4>3
    <3>3. f[k] = f[k - 1] + d[k].size /\ d[k].size \in Nat /\ f[k - 1] \in Nat
      <4>1. k - 1 \in 0 .. l
        BY <1>1
      <4> QED BY <1>5, <3>1, <4>1
    <3>4. CASE k < i
      <4>1. e[k] = d[k] /\ k - 1 < i
        BY <1>1, <1>4, <3>4
      <4> QED BY <1>8, <3>1, <3>3, <3>4, <4>1
    <3>5. CASE k = i
      <4>1. e[k] = d[k + 1] /\ k - 1 < i /\ k >= i
        BY <1>1, <1>4, <3>5
      <4>2. g[k] = f[k + 1] - d[i].size
        BY <1>8, <3>1, <4>1
      <4>3. g[k - 1] = f[k - 1]
        BY <1>8, <3>1, <4>1
      <4>4. d[k].size = d[i].size /\ e[k].size = d[k + 1].size
        BY <3>5, <4>1
      <4>5. f[k + 1] = f[k - 1] + d[k].size + d[k + 1].size
        BY <3>2, <3>3
      <4>6. PICK a \in Nat, x \in Nat, y \in Nat :
                a = f[k - 1] /\ x = d[k].size /\ y = d[k + 1].size
        BY <3>2, <3>3
      <4>7. g[k] = (a + x + y) - x
        BY <4>2, <4>4, <4>5, <4>6
      <4>8. (a + x + y) - x = a + y
        OBVIOUS
      <4>9. g[k] = a + y
        BY <4>7, <4>8, Zenon
      <4> QED BY <4>3, <4>4, <4>6, <4>9
    <3>6. CASE k > i
      <4>1. e[k] = d[k + 1] /\ k - 1 >= i /\ k >= i
        BY <1>1, <1>4, <3>6
      <4>2. g[k] = f[k + 1] - d[i].size /\ g[k - 1] = f[k] - d[i].size
        BY <1>8, <3>1, <4>1
      <4>3. d[i].size \in Nat
        BY <1>1, <1>5
      <4> QED BY <3>2, <4>1, <4>2, <4>3
    <3>7. k < i \/ k = i \/ k > i
      BY <1>1
    <3> QED BY <3>4, <3>5, <3>6, <3>7
  <2> QED BY <1>4, <2>1, <2>2, <2>3 DEF SumsOf
<1>10. ASSUME NEW m \in i .. l PROVE g[m - 1] = f[m] - d[i].size
  <2>1. m - 1 \in 0 .. l - 1 /\ (m - 1) + 1 = m
    BY <1>1
  <2>2. CASE m > i
    <3>1. m - 1 >= i
      BY <1>1, <2>2
    <3> QED BY <1>8, <2>1, <3>1
  <2>3. CASE m = i
    <3>1. m - 1 < i /\ m \in 1 .. l
      BY <1>1, <2>3
    <3>2. g[m - 1] = f[m - 1]
      BY <1>8, <2>1, <3>1
    <3>3. f[m] = f[m - 1] + d[m].size /\ d[m].size \in Nat /\ f[m - 1] \in Nat
      BY <1>1, <1>5, <2>1, <3>1
    <3> QED BY <2>3, <3>2, <3>3
  <2> QED BY <1>1, <2>2, <2>3
<1>11. Sizes(e) = g[l - 1] /\ Sizes(d) = f[l]
  BY <1>1, <1>2, <1>4, <1>6, <1>9, SumsAre
<1>12. Sizes(First(e, n - 1)) = g[n - 1] /\ Sizes(First(d, n)) = f[n]
  <2>1. n - 1 \in Nat /\ n \in Nat /\ ~ (l - 1 < n - 1) /\ ~ (l < n)
    BY <1>1
  <2>2. Sizes(First(e, n - 1)) = g[IF Len(e) < n - 1 THEN Len(e) ELSE n - 1]
    BY <1>6, <1>9, <2>1, SumsFirst
  <2>3. Sizes(First(d, n)) = f[IF Len(d) < n THEN Len(d) ELSE n]
    BY <1>2, <2>1, SumsFirst
  <2> QED BY <1>1, <1>4, <2>1, <2>2, <2>3
<1>13. g[l - 1] = f[l] - d[i].size /\ g[n - 1] = f[n] - d[i].size
  BY <1>1, <1>10
<1> QED BY <1>3, <1>6, <1>11, <1>12, <1>13

\* Partitions of the same sizes take the same space.
LEMMA SumsSame ==
    ASSUME NEW d, Sized(d), NEW e, IsSeq(e), Len(e) = Len(d),
           \A i \in 1 .. Len(d) : e[i].size = d[i].size, NEW n \in Nat
    PROVE  /\ Sized(e) /\ Sizes(e) = Sizes(d)
           /\ Sizes(First(e, n)) = Sizes(First(d, n))
<1>1. PICK f : SumsOf(f, d)
  BY HasSums
<1>2. Sized(e) /\ SumsOf(f, e)
  BY <1>1 DEF Sized, SumsOf
<1>3. Sizes(e) = f[Len(e)] /\ Sizes(d) = f[Len(d)]
  BY <1>1, <1>2, SumsAre
<1>4. /\ Sizes(First(d, n)) = f[IF Len(d) < n THEN Len(d) ELSE n]
      /\ Sizes(First(e, n)) = f[IF Len(e) < n THEN Len(e) ELSE n]
  <2>1. Sizes(First(d, n)) = f[IF Len(d) < n THEN Len(d) ELSE n]
    BY <1>1, SumsFirst
  <2>2. Sizes(First(e, n)) = f[IF Len(e) < n THEN Len(e) ELSE n]
    BY <1>2, SumsFirst
  <2> QED BY <2>1, <2>2
<1>5. Sizes(e) = Sizes(d)
  BY <1>3
<1>6. Sizes(First(e, n)) = Sizes(First(d, n))
  BY <1>4
<1> QED BY <1>2, <1>5, <1>6

-----------------------------------------------------------------------------
(***************************************************************************)
(* Names made unique: never empty, and what was typed only if no entry has *)
(* that name.                                                              *)
(***************************************************************************)
LEMMA AppendIs ==
    ASSUME NEW t, IsSeq(t), NEW k
    PROVE  Append(t, k) # t /\ Append(t, k) # <<>>
<1> DEFINE S == {t[i] : i \in 1 .. Len(t)} \cup {k}
<1>1. PICK n \in Nat : n = Len(t) /\ t = [i \in 1 .. n |-> t[i]]
  BY DEF IsSeq
<1>2. k \in S /\ \A i \in 1 .. n : t[i] \in S
  BY <1>1
<1> HIDE DEF S
<1>3. t \in [1 .. n -> S]
  BY <1>1, <1>2
<1>4. t \in Seq(S)
  BY <1>3
<1>5. Len(Append(t, k)) = n + 1
  BY <1>1, <1>2, <1>4, AppendProperties
<1>6. Append(t, k) # t
  BY <1>1, <1>5
<1>7. Len(<<>>) # n + 1
  OBVIOUS
<1> QED BY <1>5, <1>6, <1>7

LEMMA UniqueIs ==
    ASSUME NEW t, IsSeq(t), Len(t) >= 1, NEW names, Len(names) \in Nat
    PROVE  /\ Unique(t, names) # NoName
           /\ Unique(t, names) = t => \A i \in 1 .. Len(names) : names[i] # t
<1>1. PICK n \in Nat : n = Len(names)
  OBVIOUS
<1> DEFINE X == {t} \cup {Append(t, k) : k \in Nat}
           T == [name : X, num : Nat]
           Hit(a) == [name |-> Append(t, a.num), num |-> a.num + 1]
           eq(g) == g = [i \in 0 .. Len(names) |->
                           IF i = 0 THEN [name |-> t, num |-> 1]
                           ELSE IF names[i] = g[i - 1].name
                                THEN [name |-> Append(t, g[i - 1].num), num |-> g[i - 1].num + 1]
                                ELSE g[i - 1]]
           u == CHOOSE g : eq(g)
<1>2. \A a \in T : Hit(a) \in T
  OBVIOUS
<1>3. PICK z \in T : z = [name |-> t, num |-> 1]
  OBVIOUS
<1>4. PICK F \in [1 .. n -> [T -> T]] :
        \A k \in 1 .. n, a \in T : F[k][a] = IF names[k] = a.name THEN Hit(a) ELSE a
  <2> HIDE DEF Hit, T
  <2>1. PICK F : F = [k \in 1 .. n |-> [a \in T |-> IF names[k] = a.name THEN Hit(a) ELSE a]]
    OBVIOUS
  <2> QED BY <1>2, <2>1
<1>5. PICK f : Iterated(f, n, T, z, F)
  BY Iterates
<1>6. eq(f)
  <2>1. f \in [0 .. n -> T] /\ f[0] = z /\ \A k \in 1 .. n : f[k] = F[k][f[k - 1]]
    BY <1>5 DEF Iterated
  <2>2. ASSUME NEW i \in 1 .. n
        PROVE  f[i] = IF names[i] = f[i - 1].name THEN Hit(f[i - 1]) ELSE f[i - 1]
    <3> HIDE DEF Hit, T
    <3>1. f[i - 1] \in T
      BY <2>1
    <3> QED BY <1>4, <2>1, <3>1
  <2>3. \A i \in 0 .. n : i # 0 => i \in 1 .. n
    OBVIOUS
  <2> HIDE DEF T
  <2>4. f = [i \in 0 .. n |-> f[i]]
    BY <2>1
  <2> QED BY <1>1, <1>3, <2>1, <2>2, <2>3, <2>4
<1>7. eq(u)
  BY <1>6
<1>8. Unique(t, names) = u[n].name
  BY <1>1 DEF Unique
<1> HIDE DEF u
<1>9. \A i \in 0 .. n : u[i] = IF i = 0 THEN [name |-> t, num |-> 1]
                             ELSE IF names[i] = u[i - 1].name THEN Hit(u[i - 1]) ELSE u[i - 1]
  BY <1>1, <1>7
<1> HIDE DEF eq
<1> DEFINE good(i) == /\ u[i] \in T
                      /\ u[i].name = t => \A j \in 1 .. i : names[j] # t
           bad == {i \in 0 .. n : ~ good(i)}
<1>10. ASSUME bad # {} PROVE FALSE
  <2>1. bad \in SUBSET Nat
    OBVIOUS
  <2>2. PICK m \in bad : \A v \in bad : m <= v
    BY <1>10, <2>1, LeastIn
  <2>3. m \in 0 .. n /\ ~ good(m)
    OBVIOUS
  <2>4. m # 0
    <3>1. u[0] = z
      <4> HIDE DEF Hit, T
      <4>1. 0 \in 0 .. n
        OBVIOUS
      <4>2. u[0] = IF 0 = 0 THEN [name |-> t, num |-> 1]
                   ELSE IF names[0] = u[0 - 1].name THEN Hit(u[0 - 1]) ELSE u[0 - 1]
        BY <1>9, <4>1
      <4> QED BY <1>3, <4>2
    <3>2. good(0)
      BY <1>3, <3>1
    <3> QED BY <2>3, <3>2
  <2>5. m \in 1 .. n /\ m - 1 \in 0 .. n /\ m - 1 \notin bad
    <3>1. m \in 1 .. n /\ m - 1 \in 0 .. n /\ ~ (m <= m - 1)
      BY <2>3, <2>4
    <3> QED BY <2>2, <3>1
  <2>6. good(m - 1)
    BY <2>5
  <2>7. u[m] = IF names[m] = u[m - 1].name THEN Hit(u[m - 1]) ELSE u[m - 1]
    BY <1>9, <2>3, <2>4
  <2>8. PICK a \in T : a = u[m - 1]
    BY <2>6
  <2>9. CASE names[m] = a.name
    <3>1. u[m] = Hit(a) /\ Hit(a) \in T
      BY <1>2, <2>7, <2>8, <2>9
    <3>2. Hit(a).name # t
      BY AppendIs
    <3>3. good(m)
      BY <3>1, <3>2
    <3> QED BY <2>3, <3>3
  <2>10. CASE names[m] # a.name
    <3>1. u[m] = a
      BY <2>7, <2>8, <2>10
    <3>2. ASSUME a.name = t, NEW j \in 1 .. m PROVE names[j] # t
      <4>1. j = m \/ j \in 1 .. m - 1
        BY <2>5
      <4>2. j = m => names[j] # t
        BY <2>10, <3>2
      <4>3. j \in 1 .. m - 1 => names[j] # t
        BY <2>6, <2>8, <3>2
      <4> QED BY <4>1, <4>2, <4>3
    <3>3. good(m)
      BY <3>1, <3>2
    <3> QED BY <2>3, <3>3
  <2> QED BY <2>9, <2>10
<1>11. good(n)
  BY <1>10
<1>12. u[n].name \in X
  BY <1>11
<1>13. \A x \in X : x # <<>>
  <2>1. t # <<>>
    <3>1. Len(<<>>) = 0
      OBVIOUS
    <3> QED BY <3>1
  <2>2. \A k : Append(t, k) # <<>>
    BY AppendIs
  <2> QED BY <2>1, <2>2
<1> HIDE DEF X
<1> QED BY <1>1, <1>8, <1>11, <1>12, <1>13 DEF NoName

-----------------------------------------------------------------------------
(***************************************************************************)
(* The inductive invariant.                                                *)
(***************************************************************************)
TotalOf(p) == IF p.kind \in {"pfs", "broken"} THEN p.size ELSE 0

IsEntry(e) ==
    e \in [name : {e.name}, treat : {"system", "pfs", "noaccess", "raw", "game"},
           title : {e.title}, total : 0 .. HddSize, count : Slots]

\* Entry e stands for partition p, in place i; one that was mounted may have
\* been refused.
StandsFor(e, p, i) ==
    /\ e.name = p.name /\ e.count = i
    /\ \/ /\ e.total = TotalOf(p)
          /\ e.treat \in {TreatOf(p.kind)} \cup (IF p.kind = "hdl" THEN {"game"} ELSE {})
       \/ p.kind = "pfs" /\ e.treat = "noaccess" /\ e.total \in {0, p.size}

\* The entries of the list stand for the first partitions of the disk, even
\* when it is full or could not be read.
Listed ==
    /\ numParty \in 0 .. MaxPartitions /\ numParty <= Len(disk)
    /\ \A i \in 0 .. numParty - 1 : StandsFor(party[i], disk[i + 1], i)

\* Without such a refusal, what can be used is listed as such.
AccessSound ==
    Without({"busy"}) =>
        \A i \in 0 .. numParty - 1 : disk[i + 1].kind = "pfs" => party[i].treat = "pfs"

\* The cursor is on an entry, or the list is empty.
CursorSound == sel \in Nat /\ (sel < numParty \/ (sel = 0 /\ numParty = 0))

\* What is at the top of the list, even an empty one, is __mbr or no partition.
TopSound == party[0].treat = "system" \/ party[0].name = NoName

\* The space in use is at least that of the partitions listed.
UsedSound == hddUsed \in 0 .. HddSize /\ Sizes(First(disk, numParty)) <= hddUsed

\* A list that could be read, and is not full, is that of the whole disk.
WholeListed ==
    (mode # "out" /\ Without({"unlisted", "overflow"})) =>
        /\ numParty = Len(disk)
        /\ Without({"sizeless"}) => hddUsed = Sizes(disk)

\* Titles on the disk differ, and loaded ones are those on the disk.
TitlesSound ==
    Without({"not_renamed", "one_pass", "unseen", "twins"}) =>
        /\ DistinctTitles(disk)
        /\ \A i \in 0 .. numParty - 1 :
             party[i].treat = "game" => party[i].title = disk[i + 1].title

TypeInv ==
    /\ party \in [Slots -> {party[i] : i \in Slots}] /\ \A i \in Slots : IsEntry(party[i])
    /\ mode \in {"out", "list", "menu", "lost"} /\ games \in {"null", "live", "freed"}

ModeInv ==
    /\ hddFormated => disk # <<>>
    /\ mode = "menu" => mounted = NoMounts

IInv ==
    /\ TypeInv /\ SoundDisk(disk) /\ Listed /\ AccessSound /\ CursorSound /\ TopSound
    /\ UsedSound /\ WholeListed /\ TitlesSound /\ ModeInv

-----------------------------------------------------------------------------
(***************************************************************************)
(* What the driver does to a disk leaves it sound.                         *)
(***************************************************************************)
LEMMA DiskFacts ==
    ASSUME NEW d, SoundDisk(d)
    PROVE  /\ Sized(d) /\ Len(d) \in Nat /\ DOMAIN d = 1 .. Len(d)
           /\ Sizes(d) \in Nat
           /\ d = <<>> <=> Len(d) = 0
           /\ Len(d) # 0 => d[1].kind = "mbr"
<1>1. PICK n \in Nat : n = Len(d) /\ d = [i \in 1 .. n |-> d[i]]
  BY DEF SoundDisk, IsSeq
<1>2. DOMAIN d = 1 .. n
  BY <1>1
<1>3. Sized(d)
  <2>1. ASSUME NEW i \in 1 .. n PROVE d[i].size \in Nat
    <3>1. d[i].size \in 1 .. HddSize
      BY <1>1 DEF SoundDisk, IsPart
    <3> QED BY <3>1, HddAssumption
  <2> QED BY <1>1, <2>1 DEF Sized, SoundDisk
<1>4. PICK f : SumsOf(f, d)
  BY <1>3, HasSums
<1>5. d = <<>> => n = 0
  BY <1>1
<1>6. n = 0 => d = <<>>
  <2>1. ASSUME n = 0 PROVE d = <<>>
    <3>1. d = [i \in 1 .. 0 |-> d[i]]
      BY <1>1, <2>1
    <3> QED BY <3>1
  <2> QED BY <2>1
<1> QED BY <1>1, <1>2, <1>3, <1>4, <1>5, <1>6, SumsAre DEF SoundDisk

LEMMA DiskInsert ==
    ASSUME NEW d, SoundDisk(d), d # <<>>, NEW i \in 2 .. Len(d) + 1, NEW p, IsPart(p),
           \A j \in 1 .. Len(d) : d[j].name # p.name, Sizes(d) + p.size <= HddSize,
           p.kind = "pfs"
    PROVE  /\ SoundDisk(InsertAt(d, i, p)) /\ InsertAt(d, i, p) # <<>>
           /\ DistinctTitles(d) => DistinctTitles(InsertAt(d, i, p))
<1>1. PICK n \in Nat : n = Len(d) /\ i \in 2 .. n + 1 /\ i \in 1 .. n + 1
  BY DiskFacts
<1>2. PICK e : e = InsertAt(d, i, p)
  OBVIOUS
<1>3. IsSeq(d) /\ Sized(d) /\ p.size \in Nat
  <2>1. p.size \in 1 .. HddSize
    BY DEF IsPart
  <2>2. p.size \in Nat
    BY <2>1, HddAssumption
  <2> QED BY <2>2, DiskFacts DEF Sized
<1>4. /\ IsSeq(e) /\ Len(e) = n + 1
      /\ \A j \in 1 .. n + 1 : e[j] = IF j < i THEN d[j] ELSE IF j = i THEN p ELSE d[j - 1]
  BY <1>1, <1>2, <1>3, InsertIs
\* Where a partition was before; 0 for the new one.
<1> DEFINE was(j) == IF j < i THEN j ELSE IF j = i THEN 0 ELSE j - 1
<1>5. ASSUME NEW j \in 1 .. n + 1
      PROVE  /\ was(j) = 0 => j = i /\ e[j] = p
             /\ was(j) # 0 => was(j) \in 1 .. n /\ e[j] = d[was(j)]
  <2>1. j < i => was(j) = j /\ j \in 1 .. n /\ e[j] = d[j]
    BY <1>1, <1>4
  <2>2. j = i => was(j) = 0 /\ e[j] = p
    BY <1>1, <1>4
  <2>3. j > i => was(j) = j - 1 /\ j - 1 \in 1 .. n /\ e[j] = d[j - 1]
    BY <1>1, <1>4
  <2>4. j < i \/ j = i \/ j > i
    BY <1>1
  <2> QED BY <2>1, <2>2, <2>3, <2>4
<1>6. \A j, k \in 1 .. n + 1 : was(j) = was(k) => j = k
  BY <1>1
<1> HIDE DEF was
<1>7. \A j \in 1 .. n + 1 : IsPart(e[j])
  BY <1>1, <1>5 DEF SoundDisk
<1>8. Len(e) # 0 /\ e[1].kind = "mbr"
  <2>1. e[1] = d[1] /\ n # 0
    BY <1>1, <1>4, DiskFacts
  <2> QED BY <1>1, <1>4, <2>1, DiskFacts
<1>9. ASSUME NEW j \in 1 .. n + 1, NEW k \in 1 .. n + 1, e[j].name = e[k].name
      PROVE  j = k
  <2>1. \A a, b \in 1 .. n : d[a].name = d[b].name => a = b
    BY <1>1 DEF SoundDisk
  <2>2. was(j) = was(k)
    BY <1>1, <1>5, <1>9, <2>1
  <2> QED BY <1>6, <2>2
<1>10. Sizes(e) <= HddSize
  BY <1>1, <1>2, <1>3, SumsInsert
<1>11. SoundDisk(e)
  BY <1>4, <1>7, <1>8, <1>9, <1>10 DEF SoundDisk
<1>12. ASSUME DistinctTitles(d) PROVE DistinctTitles(e)
  <2>1. DOMAIN d = 1 .. n /\ DOMAIN e = 1 .. n + 1
    BY <1>1, <1>4, <1>11, DiskFacts
  <2>2. ASSUME NEW j \in 1 .. n + 1, NEW k \in 1 .. n + 1,
               e[j].kind = "hdl", e[k].kind = "hdl", e[j].title = e[k].title
        PROVE  j = k
    <3>1. was(j) # 0 /\ was(k) # 0
      BY <1>5, <2>2
    <3>2. was(j) = was(k)
      BY <1>5, <1>12, <2>1, <2>2, <3>1 DEF DistinctTitles
    <3> QED BY <1>6, <3>2
  <2> QED BY <2>1, <2>2 DEF DistinctTitles
<1>13. e # <<>>
  BY <1>8, <1>11, DiskFacts
<1> QED BY <1>2, <1>11, <1>12, <1>13

LEMMA DiskRemove ==
    ASSUME NEW d, SoundDisk(d), NEW i \in 2 .. Len(d)
    PROVE  /\ SoundDisk(RemoveAt(d, i)) /\ RemoveAt(d, i) # <<>>
           /\ DistinctTitles(d) => DistinctTitles(RemoveAt(d, i))
<1>1. PICK n \in Nat : n = Len(d) /\ i \in 2 .. n /\ i \in 1 .. n
  BY DiskFacts
<1>2. PICK e : e = RemoveAt(d, i)
  OBVIOUS
<1>3. IsSeq(d) /\ Sized(d)
  BY DiskFacts DEF SoundDisk
<1>4. /\ IsSeq(e) /\ Len(e) = n - 1
      /\ \A j \in 1 .. n - 1 : e[j] = IF j < i THEN d[j] ELSE d[j + 1]
  BY <1>1, <1>2, <1>3, RemoveIs
<1> DEFINE was(j) == IF j < i THEN j ELSE j + 1
<1>5. \A j \in 1 .. n - 1 : was(j) \in 1 .. n /\ e[j] = d[was(j)]
  BY <1>1, <1>4
<1>6. \A j, k \in 1 .. n - 1 : was(j) = was(k) => j = k
  BY <1>1
<1> HIDE DEF was
<1>7. \A j \in 1 .. n - 1 : IsPart(e[j])
  BY <1>1, <1>5 DEF SoundDisk
<1>8. Len(e) # 0 /\ e[1].kind = "mbr"
  <2>1. e[1] = d[1] /\ n # 0
    BY <1>1, <1>4, DiskFacts
  <2> QED BY <1>1, <1>4, <2>1, DiskFacts
<1>9. ASSUME NEW j \in 1 .. n - 1, NEW k \in 1 .. n - 1, e[j].name = e[k].name
      PROVE  j = k
  <2>1. \A a, b \in 1 .. n : d[a].name = d[b].name => a = b
    BY <1>1 DEF SoundDisk
  <2>2. was(j) = was(k)
    BY <1>5, <1>9, <2>1
  <2> QED BY <1>6, <2>2
<1>10. Sizes(e) <= HddSize
  <2>1. Sizes(e) = Sizes(d) - d[i].size /\ n \in i .. n
    BY <1>1, <1>2, <1>3, SumsRemove
  <2>2. d[i].size \in Nat /\ Sizes(d) \in Nat /\ Sizes(d) <= HddSize
    BY <1>1, <1>3, DiskFacts DEF Sized, SoundDisk
  <2> QED BY <2>1, <2>2, HddAssumption
<1>11. SoundDisk(e)
  BY <1>4, <1>7, <1>8, <1>9, <1>10 DEF SoundDisk
<1>12. ASSUME DistinctTitles(d) PROVE DistinctTitles(e)
  <2>1. DOMAIN d = 1 .. n /\ DOMAIN e = 1 .. n - 1
    BY <1>1, <1>4, <1>11, DiskFacts
  <2>2. ASSUME NEW j \in 1 .. n - 1, NEW k \in 1 .. n - 1,
               e[j].kind = "hdl", e[k].kind = "hdl", e[j].title = e[k].title
        PROVE  j = k
    <3>1. was(j) = was(k)
      BY <1>5, <1>12, <2>1, <2>2 DEF DistinctTitles
    <3> QED BY <1>6, <3>1
  <2> QED BY <2>1, <2>2 DEF DistinctTitles
<1>13. e # <<>>
  BY <1>8, <1>11, DiskFacts
<1> QED BY <1>2, <1>11, <1>12, <1>13

\* A partition whose name or title is replaced, its kind and size kept.
Patched(d, i, p) == [d EXCEPT ![i] = p]

LEMMA DiskPatch ==
    ASSUME NEW d, SoundDisk(d), NEW i \in 1 .. Len(d), NEW p, IsPart(p),
           p.kind = d[i].kind, p.size = d[i].size,
           \A j \in 1 .. Len(d) : d[j].name = p.name => j = i,
           NEW e, e = Patched(d, i, p), NEW n \in Nat
    PROVE  /\ SoundDisk(e) /\ e # <<>> /\ Len(e) = Len(d)
           /\ \A j \in 1 .. Len(d) : e[j] = IF j = i THEN p ELSE d[j]
           /\ Sizes(e) = Sizes(d) /\ Sizes(First(e, n)) = Sizes(First(d, n))
<1>1. PICK l \in Nat : l = Len(d) /\ d = [j \in 1 .. l |-> d[j]] /\ i \in 1 .. l
  BY DEF SoundDisk, IsSeq
<1>2. e = [d EXCEPT ![i] = p]
  BY DEF Patched
<1>3. DOMAIN d = 1 .. l
  BY <1>1, DiskFacts
<1>4. e = [j \in 1 .. l |-> IF j = i THEN p ELSE d[j]]
  BY <1>1, <1>2, <1>3
<1>5. Len(e) = l
  BY <1>4
<1>6. \A j \in 1 .. l : e[j] = IF j = i THEN p ELSE d[j]
  BY <1>4
<1>7. IsSeq(e)
  <2>1. e = [j \in 1 .. l |-> e[j]]
    BY <1>4
  <2> QED BY <1>5, <2>1 DEF IsSeq
<1>8. \A j \in 1 .. l : IsPart(e[j])
  BY <1>1, <1>6 DEF SoundDisk
<1>9. e # <<>> /\ e[1].kind = "mbr"
  <2>1. l # 0 /\ 1 \in 1 .. l /\ Len(<<>>) = 0
    BY <1>1
  <2>2. d[1].kind = "mbr"
    BY <1>1, <2>1, DiskFacts
  <2> QED BY <1>5, <1>6, <2>1, <2>2
<1>10. ASSUME NEW j \in 1 .. l, NEW k \in 1 .. l, e[j].name = e[k].name
       PROVE  j = k
  <2>1. \A a, b \in 1 .. l : d[a].name = d[b].name => a = b
    BY <1>1 DEF SoundDisk
  <2>2. \A a \in 1 .. l : d[a].name = p.name => a = i
    BY <1>1
  <2>3. e[j] = (IF j = i THEN p ELSE d[j]) /\ e[k] = (IF k = i THEN p ELSE d[k])
    BY <1>6
  <2> QED BY <1>10, <2>1, <2>2, <2>3
<1>11. /\ Sizes(e) = Sizes(d) /\ Sizes(First(e, n)) = Sizes(First(d, n))
  <2>1. \A j \in 1 .. l : e[j].size = d[j].size
    BY <1>1, <1>6
  <2>2. Sized(d)
    BY DiskFacts
  <2>3. Len(e) = Len(d) /\ \A j \in 1 .. Len(d) : e[j].size = d[j].size
    BY <1>1, <1>5, <2>1
  <2>4. PICK m \in Nat : m = n
    OBVIOUS
  <2>5. Sizes(e) = Sizes(d) /\ Sizes(First(e, m)) = Sizes(First(d, m))
    BY <1>7, <2>2, <2>3, SumsSame
  <2> QED BY <2>4, <2>5
<1>12. SoundDisk(e)
  BY <1>5, <1>7, <1>8, <1>9, <1>10, <1>11 DEF SoundDisk
<1> QED BY <1>1, <1>2, <1>5, <1>6, <1>9, <1>11, <1>12

Renamed(p, new) == [p EXCEPT !.name = new]
TitledPart(p, new) == [p EXCEPT !.title = new]

LEMMA PartName ==
    ASSUME NEW q, IsPart(q), NEW new, new # NoName,
           NEW p, p = Renamed(q, new)
    PROVE  /\ IsPart(p) /\ p.name = new /\ p.kind = q.kind
           /\ p.size = q.size /\ p.title = q.title
<1>2. q \in [name : {q.name}, kind : Kinds, size : 1 .. HddSize, title : {q.title}]
  BY DEF IsPart
<1>3. p = [q EXCEPT !.name = new]
  BY DEF Renamed
<1>4. p \in [name : {new}, kind : Kinds, size : 1 .. HddSize, title : {q.title}]
  BY <1>2, <1>3
<1>5. p.name = new /\ p.kind = q.kind /\ p.size = q.size /\ p.title = q.title
  BY <1>2, <1>3
<1>6. IsPart(p)
  BY <1>4, <1>5 DEF IsPart
<1> QED BY <1>5, <1>6

LEMMA PartTitle ==
    ASSUME NEW q, IsPart(q), NEW new,
           NEW p, p = TitledPart(q, new)
    PROVE  /\ IsPart(p) /\ p.name = q.name /\ p.kind = q.kind
           /\ p.size = q.size /\ p.title = new
<1>2. q \in [name : {q.name}, kind : Kinds, size : 1 .. HddSize, title : {q.title}]
      /\ q.name # NoName
  BY DEF IsPart
<1>3. p = [q EXCEPT !.title = new]
  BY DEF TitledPart
<1>4. p \in [name : {q.name}, kind : Kinds, size : 1 .. HddSize, title : {new}]
  BY <1>2, <1>3
<1>5. p.name = q.name /\ p.kind = q.kind /\ p.size = q.size /\ p.title = new
  BY <1>2, <1>3
<1>6. IsPart(p)
  BY <1>2, <1>4, <1>5 DEF IsPart
<1> QED BY <1>5, <1>6

\* The disk that formatting makes.
FreshDisk == <<Mbr, [name |-> SystemName, kind |-> "pfs", size |-> 1, title |-> NoTitle]>>

LEMMA NoDisk ==
    SoundDisk(<<>>) /\ DistinctTitles(<<>>)
<1>1. PICK d : d = <<>>
  OBVIOUS
<1>2. IsSeq(d) /\ Len(d) = 0
  BY <1>1 DEF IsSeq
<1>3. Sized(d)
  BY <1>2 DEF Sized
<1>4. PICK f : f = [k \in 0 .. 0 |-> 0]
  OBVIOUS
<1>5. SumsOf(f, d)
  BY <1>2, <1>4 DEF SumsOf
<1>6. Sizes(d) = f[0] /\ f[0] = 0
  BY <1>2, <1>3, <1>4, <1>5, SumsAre
<1>7. Sizes(d) <= HddSize
  BY <1>6, HddAssumption
<1>8. SoundDisk(d)
  BY <1>1, <1>2, <1>7 DEF SoundDisk
<1>9. DOMAIN d = 1 .. 0
  BY <1>2, <1>8, DiskFacts
<1> QED BY <1>1, <1>8, <1>9 DEF DistinctTitles

LEMMA FormattedDisk ==
    SoundDisk(FreshDisk) /\ DistinctTitles(FreshDisk) /\ FreshDisk # <<>>
<1>1. PICK d : d = FreshDisk
  OBVIOUS
<1>2. PICK q : q = [name |-> SystemName, kind |-> "pfs", size |-> 1, title |-> NoTitle]
  OBVIOUS
<1>3. Len(d) = 2 /\ d[1] = Mbr /\ d[2] = q /\ d = [i \in 1 .. 2 |-> d[i]]
  BY <1>1, <1>2 DEF FreshDisk
<1>4. /\ Mbr.name = <<"__", "mbr">> /\ Mbr.kind = "mbr" /\ Mbr.size = 1
      /\ q.name = <<"__">> /\ q.kind = "pfs" /\ q.size = 1
  BY <1>2 DEF Mbr, SystemName
<1>5. Len(Mbr.name) = 2 /\ Len(q.name) = 1 /\ Len(<<>>) = 0
  BY <1>4
<1>6. Mbr.name # q.name /\ Mbr.name # NoName /\ q.name # NoName
  BY <1>5 DEF NoName
<1>7. 1 \in 1 .. HddSize /\ 2 <= HddSize
  BY HddAssumption
<1>8. IsPart(Mbr)
  <2>1. Mbr \in [name : {Mbr.name}, kind : Kinds, size : 1 .. HddSize, title : {Mbr.title}]
    BY <1>7 DEF Mbr, Kinds
  <2> QED BY <1>6, <2>1 DEF IsPart
<1>9. IsPart(q)
  <2>1. q \in [name : {q.name}, kind : Kinds, size : 1 .. HddSize, title : {q.title}]
    BY <1>2, <1>7 DEF Kinds
  <2> QED BY <1>6, <2>1 DEF IsPart
<1>10. IsSeq(d)
  BY <1>3 DEF IsSeq
<1>11. Sized(d)
  <2>1. \A i \in 1 .. 2 : i = 1 \/ i = 2
    OBVIOUS
  <2>2. \A i \in 1 .. 2 : d[i].size \in Nat
    BY <1>3, <1>4, <2>1
  <2> QED BY <1>3, <1>10, <2>2 DEF Sized
<1>12. Sizes(d) = 2
  <2>1. PICK f : f = [k \in 0 .. 2 |-> k]
    OBVIOUS
  <2>2. ASSUME NEW k \in 1 .. 2 PROVE f[k] = f[k - 1] + d[k].size
    <3>1. f[k] = k /\ f[k - 1] = k - 1
      BY <2>1
    <3>2. d[k].size = 1
      BY <1>3, <1>4
    <3> QED BY <3>1, <3>2
  <2>3. f \in [0 .. 2 -> Nat] /\ f[0] = 0 /\ f[2] = 2
    BY <2>1
  <2>4. SumsOf(f, d)
    BY <1>3, <2>2, <2>3 DEF SumsOf
  <2> QED BY <1>3, <1>11, <2>3, <2>4, SumsAre
<1>13. \A i \in 1 .. 2 : i = 1 \/ i = 2
  OBVIOUS
<1>14. \A i \in 1 .. 2 : IsPart(d[i])
  BY <1>3, <1>8, <1>9, <1>13
<1>15. \A i, j \in 1 .. 2 : d[i].name = d[j].name => i = j
  BY <1>3, <1>6, <1>13
<1>16. SoundDisk(d)
  BY <1>3, <1>4, <1>7, <1>10, <1>12, <1>14, <1>15 DEF SoundDisk
<1>17. DOMAIN d = 1 .. 2
  BY <1>3, <1>16, DiskFacts
<1>18. \A i \in 1 .. 2 : d[i].kind # "hdl"
  BY <1>3, <1>4, <1>13
<1>19. d # <<>>
  BY <1>3, <1>5
<1> QED BY <1>1, <1>16, <1>17, <1>18, <1>19 DEF DistinctTitles

-----------------------------------------------------------------------------
(***************************************************************************)
(* Entries, the list, and the cursor.                                      *)
(***************************************************************************)
\* Partition q is p as the driver lets it be seen.
SeenAs(q, p) ==
    /\ q.name = p.name /\ q.size = p.size
    /\ q.kind = p.kind \/ (p.kind = "pfs" /\ q.kind \in {"pfs", "broken", "locked"})

LEMMA EntryOfIs ==
    ASSUME NEW d, SoundDisk(d), NEW k \in 1 .. Len(d), NEW q, SeenAs(q, d[k]), NEW i \in Slots
    PROVE  LET e == EntryOf(q, i)
           IN /\ IsEntry(e) /\ StandsFor(e, d[k], i) /\ e.treat # "game"
              /\ q.kind = "pfs" => e.treat = "pfs"
<1>1. PICK p : p = d[k]
  OBVIOUS
<1>2. p.kind \in Kinds /\ p.size \in 1 .. HddSize
  BY <1>1 DEF SoundDisk, IsPart
<1>3. /\ q.name = p.name /\ q.size = p.size
      /\ q.kind = p.kind \/ (p.kind = "pfs" /\ q.kind \in {"pfs", "broken", "locked"})
  BY <1>1 DEF SeenAs
<1>4. PICK t : t = TreatOf(q.kind)
  OBVIOUS
<1>5. t \in {"system", "pfs", "noaccess", "raw"} /\ (q.kind = "pfs" => t = "pfs")
      /\ (q.kind \in {"broken", "locked"} => t = "noaccess")
  BY <1>2, <1>3, <1>4 DEF TreatOf, Kinds
<1>6. PICK n : n = TotalOf(q)
  OBVIOUS
<1>7. n \in 0 .. HddSize /\ n \in {0, p.size}
  BY <1>2, <1>3, <1>6, HddAssumption DEF TotalOf
<1>8. PICK e : e = [name |-> p.name, treat |-> t, title |-> NoTitle, count |-> i, total |-> n]
  OBVIOUS
<1>9. e = EntryOf(q, i)
  BY <1>3, <1>4, <1>6, <1>8 DEF EntryOf, TotalOf
<1>10. /\ e.name = p.name /\ e.treat = t /\ e.count = i /\ e.total = n
       /\ e \in [name : {e.name}, treat : {t}, title : {e.title}, total : {n}, count : {i}]
  BY <1>8
<1>11. IsEntry(e)
  BY <1>5, <1>7, <1>10 DEF IsEntry
<1>12. StandsFor(e, p, i)
  <2>1. CASE q.kind = p.kind
    <3>1. n = TotalOf(p) /\ t = TreatOf(p.kind)
      BY <1>3, <1>4, <1>6, <2>1 DEF TotalOf
    <3> QED BY <1>10, <3>1 DEF StandsFor
  <2>2. CASE q.kind # p.kind
    <3>1. p.kind = "pfs" /\ q.kind \in {"broken", "locked"}
      BY <1>3, <2>2
    <3> QED BY <1>5, <1>7, <1>10, <3>1 DEF StandsFor
  <2> QED BY <2>1, <2>2
<1> QED BY <1>1, <1>5, <1>9, <1>10, <1>11, <1>12

\* What the driver lets be seen of a disk.
LEMMA AnsweringIs ==
    ASSUME NEW d, SoundDisk(d), NEW as \in Refusals(d)
    PROVE  LET a == Answering(d, as)
           IN /\ IsSeq(a) /\ Len(a) = Len(d)
              /\ \A i \in 1 .. Len(d) :
                   /\ SeenAs(a[i], d[i])
                   /\ (\A j \in Busy(d) : as[j] = "pfs") => a[i].kind = d[i].kind
<1>1. PICK n \in Nat : n = Len(d) /\ DOMAIN d = 1 .. n
  BY DiskFacts
<1>2. PICK B : B = Busy(d)
  OBVIOUS
<1>3. B \subseteq 1 .. n /\ \A i \in B : d[i].kind = "pfs" /\ as[i] \in {"pfs", "broken", "locked"}
  BY <1>1, <1>2 DEF Busy, Refusals
<1>4. PICK a : a = Answering(d, as)
  OBVIOUS
<1>5. a = [i \in 1 .. n |-> IF i \in B THEN [d[i] EXCEPT !.kind = as[i]] ELSE d[i]]
  BY <1>1, <1>2, <1>4 DEF Answering
<1>6. IsSeq(a) /\ Len(a) = n
  <2>1. PICK S : S = {a[i] : i \in 1 .. n}
    OBVIOUS
  <2>2. a \in [1 .. n -> S]
    BY <1>5, <2>1
  <2>3. a \in Seq(S) /\ Len(a) = n
    BY <1>1, <2>2
  <2> QED BY <2>3, IsSeqOf
<1>7. ASSUME NEW i \in 1 .. n
      PROVE  SeenAs(a[i], d[i]) /\ ((\A j \in B : as[j] = "pfs") => a[i].kind = d[i].kind)
  <2>1. CASE i \notin B
    <3>1. a[i] = d[i]
      BY <1>5, <2>1
    <3> QED BY <3>1 DEF SeenAs
  <2>2. CASE i \in B
    <3>1. PICK p, k : p = d[i] /\ k = as[i]
      OBVIOUS
    <3>2. p \in [name : {p.name}, kind : Kinds, size : 1 .. HddSize, title : {p.title}]
      BY <1>1, <3>1 DEF SoundDisk, IsPart
    <3>3. a[i] = [p EXCEPT !.kind = k]
      BY <1>5, <2>2, <3>1
    <3>4. a[i].name = p.name /\ a[i].size = p.size /\ a[i].kind = k
      BY <3>2, <3>3
    <3>5. p.kind = "pfs" /\ k \in {"pfs", "broken", "locked"}
      BY <1>3, <2>2, <3>1
    <3> QED BY <2>2, <3>1, <3>4, <3>5 DEF SeenAs
  <2> QED BY <2>1, <2>2
<1> QED BY <1>1, <1>2, <1>4, <1>6, <1>7

LEMMA EntryShift ==
    ASSUME NEW e, IsEntry(e), e.count # 0
    PROVE  LET g == [e EXCEPT !.count = @ - 1]
           IN /\ IsEntry(g) /\ g.name = e.name /\ g.treat = e.treat
              /\ g.title = e.title /\ g.total = e.total /\ g.count = e.count - 1
<1>1. e \in [name : {e.name}, treat : {"system", "pfs", "noaccess", "raw", "game"},
             title : {e.title}, total : 0 .. HddSize, count : Slots]
  BY DEF IsEntry
<1>2. PICK c : c = e.count - 1
  OBVIOUS
<1>3. c \in Slots
  BY <1>1, <1>2, HddAssumption DEF Slots
<1>4. PICK g : g = [e EXCEPT !.count = c]
  OBVIOUS
<1>5. g \in [name : {e.name}, treat : {"system", "pfs", "noaccess", "raw", "game"},
             title : {e.title}, total : 0 .. HddSize, count : Slots]
  BY <1>1, <1>3, <1>4
<1>6. /\ g.name = e.name /\ g.treat = e.treat /\ g.title = e.title
      /\ g.total = e.total /\ g.count = c
  BY <1>1, <1>4
<1>7. IsEntry(g)
  BY <1>5, <1>6 DEF IsEntry
<1> QED BY <1>2, <1>4, <1>6, <1>7

\* The changes to one entry: its name, its title, its treatment.
Named(e, x) == [e EXCEPT !.name = x]
TitledAs(e, x) == [e EXCEPT !.title = x]
Treated(e, t) == [e EXCEPT !.treat = t]

LEMMA EntryNamed ==
    ASSUME NEW e, IsEntry(e), NEW x, NEW g, g = Named(e, x)
    PROVE  /\ IsEntry(g) /\ g.name = x /\ g.treat = e.treat
           /\ g.title = e.title /\ g.total = e.total /\ g.count = e.count
<1> DEFINE Treats == {"system", "pfs", "noaccess", "raw", "game"}
<1>1. e \in [name : {e.name}, treat : Treats, title : {e.title}, total : 0 .. HddSize,
             count : Slots]
  BY DEF IsEntry
<1> HIDE DEF Treats
<1>2. g = [e EXCEPT !.name = x]
  BY DEF Named
<1>3. /\ g \in [name : {x}, treat : Treats, title : {e.title}, total : 0 .. HddSize,
                count : Slots]
      /\ g.name = x /\ g.treat = e.treat
      /\ g.title = e.title /\ g.total = e.total /\ g.count = e.count
  BY <1>1, <1>2
<1>4. IsEntry(g)
  BY <1>3 DEF IsEntry, Treats
<1> QED BY <1>3, <1>4

LEMMA EntryTitled ==
    ASSUME NEW e, IsEntry(e), NEW x, NEW g, g = TitledAs(e, x)
    PROVE  /\ IsEntry(g) /\ g.name = e.name /\ g.treat = e.treat
           /\ g.title = x /\ g.total = e.total /\ g.count = e.count
<1> DEFINE Treats == {"system", "pfs", "noaccess", "raw", "game"}
<1>1. e \in [name : {e.name}, treat : Treats, title : {e.title}, total : 0 .. HddSize,
             count : Slots]
  BY DEF IsEntry
<1> HIDE DEF Treats
<1>2. g = [e EXCEPT !.title = x]
  BY DEF TitledAs
<1>3. /\ g \in [name : {e.name}, treat : Treats, title : {x}, total : 0 .. HddSize,
                count : Slots]
      /\ g.name = e.name /\ g.treat = e.treat
      /\ g.title = x /\ g.total = e.total /\ g.count = e.count
  BY <1>1, <1>2
<1>4. IsEntry(g)
  BY <1>3 DEF IsEntry, Treats
<1> QED BY <1>3, <1>4

LEMMA EntryTreated ==
    ASSUME NEW e, IsEntry(e), NEW t \in {"raw", "game"}, NEW g, g = Treated(e, t)
    PROVE  /\ IsEntry(g) /\ g.name = e.name /\ g.treat = t
           /\ g.title = e.title /\ g.total = e.total /\ g.count = e.count
<1> DEFINE Treats == {"system", "pfs", "noaccess", "raw", "game"}
<1>1. /\ e \in [name : {e.name}, treat : Treats, title : {e.title}, total : 0 .. HddSize,
                count : Slots]
      /\ t \in Treats
  BY DEF IsEntry
<1> HIDE DEF Treats
<1>2. g = [e EXCEPT !.treat = t]
  BY DEF Treated
<1>3. /\ g \in [name : {e.name}, treat : Treats, title : {e.title}, total : 0 .. HddSize,
                count : Slots]
      /\ g.name = e.name /\ g.treat = t
      /\ g.title = e.title /\ g.total = e.total /\ g.count = e.count
  BY <1>1, <1>2
<1>4. IsEntry(g)
  BY <1>3 DEF IsEntry, Treats
<1> QED BY <1>3, <1>4

LEMMA ClampedIs ==
    ASSUME NEW s \in Int, NEW n \in Nat
    PROVE  Clamped(s, n) \in Nat /\ (Clamped(s, n) < n \/ (Clamped(s, n) = 0 /\ n = 0))
BY DEF Clamped

LEMMA ListFacts ==
    ASSUME IInv
    PROVE  /\ numParty \in Nat /\ numParty <= MaxPartitions /\ MaxPartitions \in Nat
           /\ Len(disk) \in Nat /\ numParty <= Len(disk) /\ DOMAIN disk = 1 .. Len(disk)
           /\ sel \in Slots /\ 0 \in Slots /\ Info = party[sel] /\ IsEntry(Info)
           /\ \A i \in 0 .. numParty - 1 : i \in Slots /\ i + 1 \in 1 .. Len(disk)
<1>1. /\ numParty \in Nat /\ numParty <= MaxPartitions /\ MaxPartitions \in Nat
      /\ MaxPartitions >= 1
  BY HddAssumption DEF IInv, Listed
<1>2. SoundDisk(disk) /\ numParty <= Len(disk)
  BY DEF IInv, Listed
<1>3. Len(disk) \in Nat /\ DOMAIN disk = 1 .. Len(disk)
  BY <1>2, DiskFacts
<1>4. sel \in Slots /\ 0 \in Slots
  BY <1>1 DEF IInv, CursorSound, Slots
<1>5. IsEntry(party[sel])
  BY <1>4 DEF IInv, TypeInv
<1>6. \A i \in 0 .. numParty - 1 : i \in Slots /\ i + 1 \in 1 .. Len(disk)
  BY <1>1, <1>2, <1>3 DEF Slots
<1> QED BY <1>1, <1>2, <1>3, <1>4, <1>5, <1>6 DEF Info

\* What can be changed is found on the disk where the list has it, and is not
\* the first partition.
LEMMA Selected ==
    ASSUME IInv, Info.treat # "system", Info.name \in DiskNames
    PROVE  /\ sel \in 1 .. numParty - 1 /\ sel + 1 \in 2 .. Len(disk)
           /\ StandsFor(Info, disk[sel + 1], sel) /\ At(Info.name) = sel + 1
<1>1. SoundDisk(disk) /\ DOMAIN disk = 1 .. Len(disk) /\ Len(disk) \in Nat
  BY ListFacts DEF IInv
<1>2. Info.name # NoName
  <2>1. PICK i \in 1 .. Len(disk) : disk[i].name = Info.name
    BY <1>1 DEF DiskNames
  <2> QED BY <1>1, <2>1 DEF SoundDisk, IsPart
<1>3. sel # 0
  BY <1>2 DEF IInv, TopSound, Info
<1>4. sel \in 1 .. numParty - 1 /\ sel \in 0 .. numParty - 1
  BY <1>3, ListFacts DEF IInv, CursorSound
<1>5. sel + 1 \in 2 .. Len(disk) /\ sel + 1 \in 1 .. Len(disk)
  BY <1>4, ListFacts
<1>6. StandsFor(Info, disk[sel + 1], sel)
  BY <1>4 DEF IInv, Listed, Info
<1>7. disk[sel + 1].name = Info.name
  BY <1>6 DEF StandsFor
<1>8. At(Info.name) = sel + 1
  <2>1. PICK k \in 1 .. Len(disk) : k = sel + 1
    BY <1>5
  <2>2. \A i \in 1 .. Len(disk) : disk[i].name = Info.name <=> i = k
    BY <1>1, <1>7, <2>1 DEF SoundDisk
  <2>3. PICK a : a = CHOOSE i \in 1 .. Len(disk) : disk[i].name = Info.name
    OBVIOUS
  <2>4. a \in 1 .. Len(disk) /\ disk[a].name = Info.name
    BY <2>2, <2>3
  <2> QED BY <1>1, <2>1, <2>2, <2>3, <2>4 DEF At
<1> QED BY <1>4, <1>5, <1>6, <1>8

-----------------------------------------------------------------------------
(***************************************************************************)
(* The reading of the list.                                                *)
(***************************************************************************)
ListInv ==
    /\ TypeInv /\ SoundDisk(disk) /\ Listed /\ AccessSound /\ TopSound /\ UsedSound
    /\ WholeListed

LEMMA Reads ==
    ASSUME IInv, NEW d, SoundDisk(d), NEW opens \in BOOLEAN, GetHddInfo(d, opens),
           disk' = d, mode' = "list", games' \in {"null", "live", "freed"}
    PROVE  /\ ListInv'
           /\ numParty' \in Nat
           /\ hddFormated' => disk' # <<>>
           /\ mishaps \subseteq mishaps'
           /\ \A i \in 0 .. numParty' - 1 : party'[i].treat # "game"
<1>1. PICK n \in Nat : n = Len(d)
  BY DiskFacts
<1>2. PICK m \in Nat : m = MaxPartitions /\ m >= 1
  BY HddAssumption
<1>3. PICK as \in Refusals(d) :
        LET seen == IF opens THEN First(Answering(d, as), MaxPartitions) ELSE <<>>
        IN /\ hddFormated' = (d # <<>>) /\ numParty' = Len(seen)
           /\ party' = [i \in Slots |-> IF i < Len(seen) THEN EntryOf(seen[i + 1], i) ELSE party[i]]
           /\ hddUsed' = (IF opens THEN Sizes(First(d, MaxPartitions + 1)) ELSE 0)
           /\ mishaps' = mishaps \cup (IF opens THEN {} ELSE {"unlisted"})
                           \cup (IF Len(d) > MaxPartitions THEN {"overflow"} ELSE {})
                           \cup (IF \E i \in Busy(d) : as[i] # "pfs" THEN {"busy"} ELSE {})
  BY DEF GetHddInfo
<1>4. PICK a : a = Answering(d, as)
  OBVIOUS
<1>5. /\ IsSeq(a) /\ Len(a) = n
      /\ \A i \in 1 .. n : SeenAs(a[i], d[i])
      /\ (\A j \in Busy(d) : as[j] = "pfs") => \A i \in 1 .. n : a[i].kind = d[i].kind
  BY <1>1, <1>4, AnsweringIs
<1>6. PICK seen : seen = IF opens THEN First(a, MaxPartitions) ELSE <<>>
  OBVIOUS
<1>7. /\ hddFormated' = (d # <<>>) /\ numParty' = Len(seen)
      /\ party' = [i \in Slots |-> IF i < Len(seen) THEN EntryOf(seen[i + 1], i) ELSE party[i]]
      /\ hddUsed' = (IF opens THEN Sizes(First(d, MaxPartitions + 1)) ELSE 0)
      /\ mishaps' = mishaps \cup (IF opens THEN {} ELSE {"unlisted"})
                      \cup (IF Len(d) > MaxPartitions THEN {"overflow"} ELSE {})
                      \cup (IF \E i \in Busy(d) : as[i] # "pfs" THEN {"busy"} ELSE {})
  BY <1>3, <1>4, <1>6
<1>8. PICK l \in Nat : l = Len(seen) /\ l <= n /\ l <= m /\ (\A i \in 1 .. l : seen[i] = a[i])
                       /\ (opens => l = IF n < m THEN n ELSE m) /\ (~ opens => l = 0)
  <2>1. CASE opens
    <3>1. Len(seen) = (IF n < m THEN n ELSE m) /\ \A i \in 1 .. Len(seen) : seen[i] = a[i]
      BY <1>5, <1>2, <1>6, <2>1, FirstIs
    <3> QED BY <1>1, <1>2, <2>1, <3>1
  <2>2. CASE ~ opens
    <3>1. Len(seen) = 0
      BY <1>6, <2>2
    <3> QED BY <2>2, <3>1
  <2> QED BY <2>1, <2>2
<1>9. ASSUME NEW i \in Slots
      PROVE  /\ i < l => /\ i + 1 \in 1 .. n /\ party'[i] = EntryOf(a[i + 1], i)
                         /\ IsEntry(party'[i]) /\ StandsFor(party'[i], d[i + 1], i)
                         /\ party'[i].treat # "game"
                         /\ a[i + 1].kind = "pfs" => party'[i].treat = "pfs"
             /\ ~ (i < l) => party'[i] = party[i]
  <2>1. i \in Nat
    BY DEF Slots
  <2>2. ASSUME i < l PROVE i + 1 \in 1 .. n /\ party'[i] = EntryOf(a[i + 1], i)
    <3>1. i + 1 \in 1 .. l /\ i + 1 \in 1 .. n
      BY <1>8, <2>1, <2>2
    <3>2. seen[i + 1] = a[i + 1]
      BY <1>8, <3>1
    <3> QED BY <1>7, <1>8, <2>2, <3>1, <3>2
  <2>3. ~ (i < l) => party'[i] = party[i]
    BY <1>7, <1>8
  <2>4. ASSUME i < l PROVE /\ IsEntry(party'[i]) /\ StandsFor(party'[i], d[i + 1], i)
                           /\ party'[i].treat # "game"
                           /\ a[i + 1].kind = "pfs" => party'[i].treat = "pfs"
    <3>1. PICK k \in 1 .. Len(d) : k = i + 1 /\ SeenAs(a[i + 1], d[k])
      BY <1>1, <1>5, <2>2, <2>4
    <3>2. PICK q : q = a[i + 1]
      OBVIOUS
    <3> QED BY <2>2, <2>4, <3>1, <3>2, EntryOfIs
  <2> QED BY <2>2, <2>3, <2>4
<1>10. TypeInv'
  <2>1. party' \in [Slots -> {party'[i] : i \in Slots}]
    BY <1>7
  <2>2. \A i \in Slots : IsEntry(party[i])
    BY DEF IInv, TypeInv
  <2>3. \A i \in Slots : IsEntry(party'[i])
    BY <1>9, <2>2
  <2> QED BY <2>1, <2>3 DEF TypeInv, IsEntry
<1>11. \A i \in 0 .. l - 1 : i \in Slots /\ i < l
  BY <1>2, <1>8 DEF Slots
<1>12. Listed'
  <2>1. \A i \in 0 .. l - 1 : StandsFor(party'[i], d[i + 1], i)
    BY <1>9, <1>11
  <2>2. l \in 0 .. MaxPartitions /\ l <= Len(d)
    BY <1>1, <1>2, <1>8
  <2>3. numParty' = l
    BY <1>7, <1>8
  <2> QED BY <2>1, <2>2, <2>3 DEF Listed, StandsFor
<1>13. TopSound'
  <2>1. 0 \in Slots
    BY <1>2 DEF Slots
  <2>2. CASE l = 0
    BY <1>9, <2>1, <2>2 DEF IInv, TopSound
  <2>3. CASE l # 0
    <3>1. StandsFor(party'[0], d[0 + 1], 0) /\ 0 < l
      BY <1>8, <1>9, <2>1, <2>3
    <3>2. d[1].kind = "mbr"
      BY <1>1, <1>8, <3>1, DiskFacts
    <3>3. party'[0].treat = "system"
      BY <3>1, <3>2 DEF StandsFor, TreatOf
    <3> QED BY <3>3 DEF TopSound
  <2> QED BY <2>2, <2>3
<1>14. PICK f : SumsOf(f, d) /\ f \in [0 .. n -> Nat] /\ f[0] = 0
  BY <1>1, HasSums, DiskFacts DEF SumsOf
<1>15. Sized(d) /\ Sizes(d) = f[n] /\ Sizes(d) <= HddSize
  BY <1>1, <1>14, DiskFacts, SumsAre DEF SoundDisk
<1>16. PICK k \in 0 .. n : k = (IF n < m + 1 THEN n ELSE m + 1)
                           /\ Sizes(First(d, m + 1)) = f[k]
  <2>1. m + 1 \in Nat /\ (IF n < m + 1 THEN n ELSE m + 1) \in 0 .. n
    BY <1>1, <1>2
  <2> QED BY <1>1, <1>14, <1>15, <2>1, SumsFirst
<1>17. Sizes(First(d, l)) = f[l]
  <2>1. (IF n < l THEN n ELSE l) = l
    BY <1>1, <1>8
  <2> QED BY <1>1, <1>14, <1>15, <2>1, SumsFirst
<1>18. UsedSound'
  <2>1. CASE opens
    <3>1. l \in 0 .. n /\ k \in l .. n
      BY <1>1, <1>2, <1>8, <1>16, <2>1
    <3>2. f[l] <= f[k] /\ f[k] <= f[n]
      BY <1>1, <1>14, <1>15, <1>16, <3>1, SumsRise
    <3>3. f[k] \in Nat /\ f[n] \in Nat
      BY <1>1, <1>14, <1>16
    <3>4. hddUsed' = f[k]
      BY <1>2, <1>7, <1>16, <2>1
    <3>5. hddUsed' \in 0 .. HddSize
      BY <1>15, <3>2, <3>3, <3>4, HddAssumption
    <3> QED BY <1>7, <1>8, <1>17, <3>2, <3>4, <3>5 DEF UsedSound
  <2>2. CASE ~ opens
    <3>1. hddUsed' = 0 /\ l = 0
      BY <1>7, <1>8, <2>2
    <3> QED BY <1>7, <1>8, <1>14, <1>17, <3>1, HddAssumption DEF UsedSound
  <2> QED BY <2>1, <2>2
<1>19. WholeListed'
  <2>1. SUFFICES ASSUME ~ ("unlisted" \in mishaps'), ~ ("overflow" \in mishaps')
                 PROVE  numParty' = Len(d) /\ hddUsed' = Sizes(d)
    BY DEF WholeListed, Without
  <2>2. opens /\ ~ (n > m)
    BY <1>1, <1>2, <1>7, <2>1
  <2>3. l = n /\ k = n
    BY <1>1, <1>2, <1>8, <1>16, <2>2
  <2> QED BY <1>1, <1>2, <1>7, <1>8, <1>15, <1>16, <2>2, <2>3
<1>20. AccessSound'
  <2>1. SUFFICES ASSUME ~ ("busy" \in mishaps'), NEW i \in 0 .. l - 1, d[i + 1].kind = "pfs"
                 PROVE  party'[i].treat = "pfs"
    BY <1>7, <1>8 DEF AccessSound, Without
  <2>2. \A j \in Busy(d) : as[j] = "pfs"
    BY <1>7, <2>1
  <2>3. i \in Slots /\ i < l /\ i + 1 \in 1 .. n
    BY <1>9, <1>11
  <2>4. a[i + 1].kind = "pfs"
    BY <1>5, <2>1, <2>2, <2>3
  <2> QED BY <1>9, <2>3, <2>4
<1>21. ListInv'
  BY <1>10, <1>12, <1>13, <1>18, <1>19, <1>20 DEF ListInv
<1>22. \A i \in 0 .. numParty' - 1 : party'[i].treat # "game"
  BY <1>7, <1>8, <1>9, <1>11
<1> QED BY <1>7, <1>8, <1>21, <1>22

\* With the cursor put in the list, the invariant holds after a reading.
LEMMA ReadKeepsIInv ==
    ASSUME IInv, NEW d, SoundDisk(d), NEW opens \in BOOLEAN, GetHddInfo(d, opens),
           disk' = d, mode' = "list", games' \in {"null", "live", "freed"},
           DistinctTitles(disk) => DistinctTitles(d),
           sel' \in Nat, sel' < numParty' \/ (sel' = 0 /\ numParty' = 0) \/ sel' = 0
    PROVE  IInv'
<1>1. /\ ListInv' /\ numParty' \in Nat
      /\ hddFormated' => disk' # <<>>
      /\ mishaps \subseteq mishaps'
      /\ \A i \in 0 .. numParty' - 1 : party'[i].treat # "game"
  BY Reads
<1>2. CursorSound'
  <2>1. sel' = 0 => sel' < numParty' \/ numParty' = 0
    BY <1>1
  <2> QED BY <2>1 DEF CursorSound
<1>3. TitlesSound'
  <2>1. SUFFICES ASSUME Without({"not_renamed", "one_pass", "unseen", "twins"})'
                 PROVE  DistinctTitles(disk)'
    BY <1>1 DEF TitlesSound
  <2>2. Without({"not_renamed", "one_pass", "unseen", "twins"})
    BY <1>1, <2>1 DEF Without
  <2> QED BY <2>2 DEF IInv, TitlesSound, DistinctTitles
<1>4. ModeInv'
  BY <1>1 DEF ModeInv
<1> QED BY <1>1, <1>2, <1>3, <1>4 DEF IInv, ListInv

-----------------------------------------------------------------------------
(***************************************************************************)
(* Every step.                                                             *)
(***************************************************************************)
LEMMA InitIInv ==
    ASSUME Init
    PROVE  IInv
<1>1. PICK s \in Setups : disk = s.disk
  BY DEF Init
<1>2. SoundDisk(disk)
  BY <1>1, HddAssumption
<1>3. /\ party = [i \in Slots |-> Blank] /\ numParty = 0 /\ hddUsed = 0
      /\ hddFormated = FALSE /\ sel = 0 /\ mode = "out" /\ games = "null"
      /\ mishaps = IF DistinctTitles(disk) THEN {} ELSE {"twins"}
  BY DEF Init
<1>4. 0 \in Slots /\ 0 \in 0 .. HddSize
  BY HddAssumption DEF Slots
<1>5. IsEntry(Blank) /\ Blank.name = NoName
  <2>1. Blank \in [name : {Blank.name}, treat : {"system", "pfs", "noaccess", "raw", "game"},
                   title : {Blank.title}, total : 0 .. HddSize, count : Slots]
    BY <1>4 DEF Blank
  <2> QED BY <2>1 DEF IsEntry, Blank
<1>6. \A i \in Slots : party[i] = Blank
  BY <1>3
<1>7. TypeInv
  <2>1. party \in [Slots -> {party[i] : i \in Slots}]
    BY <1>3
  <2> QED BY <1>3, <1>5, <1>6, <2>1 DEF TypeInv
<1>8. Listed
  BY <1>2, <1>3, DiskFacts, HddAssumption DEF Listed
<1>9. CursorSound /\ TopSound
  BY <1>3, <1>4, <1>5, <1>6 DEF CursorSound, TopSound
<1>10. UsedSound
  <2>1. PICK f : SumsOf(f, disk) /\ f[0] = 0
    BY <1>2, HasSums, DiskFacts DEF SumsOf
  <2>2. Sizes(First(disk, 0)) = f[0]
    <3>1. (IF Len(disk) < 0 THEN Len(disk) ELSE 0) = 0
      BY <1>2, DiskFacts
    <3>2. Sizes(First(disk, 0)) = f[IF Len(disk) < 0 THEN Len(disk) ELSE 0]
      BY <1>2, <2>1, DiskFacts, SumsFirst
    <3> QED BY <3>1, <3>2
  <2> QED BY <1>3, <1>4, <2>1, <2>2 DEF UsedSound
<1>11. TitlesSound
  BY <1>3 DEF TitlesSound, Without
<1> QED BY <1>2, <1>3, <1>7, <1>8, <1>9, <1>10, <1>11 DEF IInv, AccessSound, WholeListed, ModeInv

\* Steps that change neither the disk nor the list.
LEMMA IdleKeepsIInv ==
    ASSUME IInv, UNCHANGED <<disk, list, mishaps>>,
           mode' \in {"out", "list", "menu", "lost"}, mode' # "out" => mode # "out",
           mode' = "menu" => mounted' = NoMounts,
           games' \in {"null", "live", "freed"},
           sel' \in Nat, sel' < numParty \/ (sel' = 0 /\ numParty = 0)
    PROVE  IInv'
<1>1. /\ disk' = disk /\ party' = party /\ numParty' = numParty /\ hddUsed' = hddUsed
      /\ hddFormated' = hddFormated /\ mishaps' = mishaps
  BY DEF list
<1>2. TypeInv' /\ SoundDisk(disk)' /\ Listed' /\ TopSound' /\ UsedSound'
  BY <1>1 DEF IInv, TypeInv, Listed, TopSound, UsedSound, IsEntry, StandsFor
<1>3. CursorSound'
  BY <1>1 DEF CursorSound
<1>4. WholeListed' /\ AccessSound'
  BY <1>1 DEF IInv, WholeListed, AccessSound, Without
<1>5. TitlesSound'
  BY <1>1 DEF IInv, TitlesSound, Without, DistinctTitles
<1>6. ModeInv'
  BY <1>1 DEF IInv, ModeInv
<1> QED BY <1>2, <1>3, <1>4, <1>5, <1>6 DEF IInv

\* The browser, the cursor, the menu and what the driver refuses.
LEMMA IdleSteps ==
    ASSUME IInv, BrowserMounts \/ Leave \/ Move \/ MenuParty \/ BackToList
                 \/ RemoveFails \/ FreedTwice
    PROVE  IInv'
<1>1. sel \in Nat /\ (sel < numParty \/ (sel = 0 /\ numParty = 0)) /\ numParty \in Nat
  BY ListFacts DEF IInv, CursorSound
<1>2. games \in {"null", "live", "freed"} /\ (mode = "menu" => mounted = NoMounts)
  BY DEF IInv, TypeInv, ModeInv
<1>3. CASE BrowserMounts
  BY <1>1, <1>2, <1>3, IdleKeepsIInv DEF BrowserMounts
<1>4. CASE Leave
  BY <1>1, <1>2, <1>4, IdleKeepsIInv DEF Leave
<1>5. CASE Move
  <2>1. PICK step \in {1, 0 - 1} : sel' = Clamped(sel + step, numParty)
    BY <1>5 DEF Move
  <2>2. sel' \in Nat /\ (sel' < numParty \/ (sel' = 0 /\ numParty = 0))
    <3>1. sel + step \in Int
      BY <1>1
    <3> QED BY <1>1, <2>1, <3>1, ClampedIs
  <2> QED BY <1>2, <1>5, <2>2, IdleKeepsIInv DEF Move
<1>6. CASE MenuParty
  BY <1>1, <1>2, <1>6, IdleKeepsIInv DEF MenuParty
<1>7. CASE BackToList
  BY <1>1, <1>2, <1>7, IdleKeepsIInv DEF BackToList
<1>8. CASE RemoveFails
  BY <1>1, <1>2, <1>8, IdleKeepsIInv DEF RemoveFails, Chosen
<1>9. CASE FreedTwice
  BY <1>1, <1>2, <1>9, IdleKeepsIInv DEF FreedTwice
<1> QED BY <1>3, <1>4, <1>5, <1>6, <1>7, <1>8, <1>9

LEMMA EnterKeepsIInv ==
    ASSUME IInv, Enter
    PROVE  IInv'
<1>1. PICK opens \in BOOLEAN : GetHddInfo(disk, opens)
  BY DEF Enter
<1>2. disk' = disk /\ mode' = "list" /\ sel' = 0 /\ games' = games
  BY DEF Enter
<1>3. SoundDisk(disk) /\ games \in {"null", "live", "freed"}
  BY DEF IInv, TypeInv
<1> QED BY <1>1, <1>2, <1>3, ReadKeepsIInv

\* The names asked of the driver.
LEMMA NewName ==
    ASSUME NEW typed \in Typed, NEW n \in Nat
    PROVE  Unique(typed, Names(n)) # NoName
<1>1. IsSeq(typed) /\ Len(typed) >= 1
  BY HddAssumption DEF IsSeq
<1>2. PICK names : names = Names(n)
  OBVIOUS
<1>3. Len(names) = n
  BY <1>2 DEF Names
<1> QED BY <1>1, <1>2, <1>3, UniqueIs

LEMMA CreateKeepsIInv ==
    ASSUME IInv, NEW typed \in Typed, NEW size \in SizeSelector, CreateParty(typed, size)
    PROVE  IInv'
<1>1. mode = "menu" /\ mode' = "list" /\ games' = games
  BY DEF CreateParty, Chosen
<1>2. games \in {"null", "live", "freed"} /\ SoundDisk(disk) /\ DOMAIN disk = 1 .. Len(disk)
  BY ListFacts DEF IInv, TypeInv
<1>3. sel \in Nat /\ (sel < numParty \/ (sel = 0 /\ numParty = 0))
  BY DEF IInv, CursorSound
<1>4. CASE UNCHANGED <<disk, list, sel, mounted, mishaps>>
  BY <1>1, <1>2, <1>3, <1>4, IdleKeepsIInv
<1>5. CASE ~ UNCHANGED <<disk, list, sel, mounted, mishaps>>
  <2>1. PICK new : new = Creates(typed)
    OBVIOUS
  <2>2. PICK p : p = [name |-> new, kind |-> "pfs", size |-> size, title |-> NoTitle]
    OBVIOUS
  <2>3. /\ disk # <<>> /\ new \notin DiskNames /\ Sizes(disk) + size <= HddSize
        /\ \E i \in 2 .. Len(disk) + 1 : disk' = InsertAt(disk, i, p)
        /\ \E opens \in Opens : GetHddInfo(disk', opens)
        /\ sel' = Clamped(sel, numParty')
    BY <1>5, <2>1, <2>2 DEF CreateParty
  <2>4. PICK i \in 2 .. Len(disk) + 1 : disk' = InsertAt(disk, i, p)
    BY <2>3
  <2>5. PICK opens \in BOOLEAN : GetHddInfo(disk', opens)
    BY <2>3 DEF Opens
  <2>6. new # NoName
    BY <2>1, NewName, HddAssumption DEF Creates
  <2>7. IsPart(p) /\ p.name = new /\ p.size = size /\ p.kind = "pfs"
    <3>1. p.name = new /\ p.size = size /\ p.kind = "pfs" /\ p.title = NoTitle
      BY <2>2
    <3>2. size \in 1 .. HddSize
      <4>1. Sizes(disk) \in Nat
        BY <1>2, DiskFacts
      <4> QED BY <2>3, <4>1, HddAssumption DEF SizeSelector
    <3>3. p \in [name : {p.name}, kind : Kinds, size : 1 .. HddSize, title : {p.title}]
      BY <2>2, <3>2 DEF Kinds
    <3> QED BY <2>6, <3>1, <3>3 DEF IsPart
  <2>8. \A j \in 1 .. Len(disk) : disk[j].name # p.name
    BY <1>2, <2>3, <2>7 DEF DiskNames
  <2>9. SoundDisk(disk') /\ (DistinctTitles(disk) => DistinctTitles(disk'))
    BY <1>2, <2>3, <2>4, <2>7, <2>8, DiskInsert
  <2>10. numParty' \in Nat
    BY <1>1, <1>2, <2>5, <2>9, Reads
  <2>11. sel' \in Nat /\ (sel' < numParty' \/ (sel' = 0 /\ numParty' = 0))
    BY <1>3, <2>3, <2>10, ClampedIs
  <2> QED BY <1>1, <1>2, <2>5, <2>9, <2>11, ReadKeepsIInv
<1> QED BY <1>4, <1>5

LEMMA FormatKeepsIInv ==
    ASSUME IInv, FormatHdd
    PROVE  IInv'
<1>1. mode = "menu" /\ mode' = "list" /\ games' = games
  BY DEF FormatHdd, Chosen
<1>2. games \in {"null", "live", "freed"} /\ SoundDisk(disk)
  BY DEF IInv, TypeInv
<1>3. PICK made \in {FreshDisk, disk, <<>>} :
        disk' = made /\ (\E opens \in Opens : GetHddInfo(made, opens))
        /\ sel' = Clamped(sel, numParty')
  BY DEF FormatHdd, FreshDisk
<1>4. PICK opens \in BOOLEAN : GetHddInfo(made, opens)
  BY <1>3 DEF Opens
<1>5. SoundDisk(made) /\ (DistinctTitles(disk) => DistinctTitles(made))
  BY <1>2, NoDisk, FormattedDisk
<1>6. numParty' \in Nat
  BY <1>1, <1>2, <1>3, <1>4, <1>5, Reads
<1>7. sel' \in Nat /\ (sel' < numParty' \/ (sel' = 0 /\ numParty' = 0))
  <2>1. sel \in Int
    BY DEF IInv, CursorSound
  <2> QED BY <1>3, <1>6, <2>1, ClampedIs
<1> QED BY <1>1, <1>2, <1>3, <1>4, <1>5, <1>7, ReadKeepsIInv

LEMMA RemoveKeepsIInv ==
    ASSUME IInv, RemoveParty
    PROVE  IInv'
<1>1. /\ mode = "menu" /\ mode' = "list" /\ Info.treat # "system" /\ Info.name \in DiskNames
      /\ disk' = RemoveAt(disk, At(Info.name)) /\ hddUsed' = hddUsed - Info.total
      /\ numParty' = numParty - 1 /\ party' = Shifted(Info.count)
      /\ sel' = Clamped(sel, numParty - 1)
      /\ mishaps' = mishaps \cup (IF Info.total = 0 THEN {"sizeless"} ELSE {})
      /\ hddFormated' = hddFormated /\ mounted' = mounted /\ games' = games
  BY DEF RemoveParty, Chosen, MayRemove
<1>2. PICK n \in Nat, m \in Nat, l \in Nat, s \in Nat :
        n = numParty /\ m = MaxPartitions /\ l = Len(disk) /\ s = sel
  BY ListFacts DEF IInv, CursorSound
<1>3. /\ s \in 1 .. n - 1 /\ s + 1 \in 2 .. l /\ n <= m /\ n <= l
      /\ StandsFor(Info, disk[s + 1], s) /\ At(Info.name) = s + 1
  BY <1>1, <1>2, Selected, ListFacts
<1>4. PICK e : e = RemoveAt(disk, s + 1)
  OBVIOUS
<1>5. disk' = e /\ SoundDisk(disk) /\ Sized(disk) /\ IsSeq(disk)
  BY <1>1, <1>3, <1>4, DiskFacts DEF IInv, SoundDisk
<1>6. SoundDisk(e) /\ e # <<>> /\ (DistinctTitles(disk) => DistinctTitles(e))
  BY <1>2, <1>3, <1>4, <1>5, DiskRemove
<1>7. /\ Len(e) = l - 1
      /\ \A j \in 1 .. l - 1 : e[j] = IF j < s + 1 THEN disk[j] ELSE disk[j + 1]
  <2>1. s + 1 \in 1 .. l
    BY <1>3
  <2> QED BY <1>2, <1>4, <1>5, <2>1, RemoveIs
<1>8. \A i \in 0 .. n - 1 : i \in Slots /\ StandsFor(party[i], disk[i + 1], i)
  BY <1>2, ListFacts DEF IInv, Listed
<1>9. \A i \in Slots : IsEntry(party[i])
  BY DEF IInv, TypeInv
<1>10. Info.count = s /\ (Info.total = TotalOf(disk[s + 1]) \/ Info.total \in {0, disk[s + 1].size})
  BY <1>3 DEF StandsFor
<1>11. ASSUME NEW i \in Slots
       PROVE  /\ i < s => party'[i] = party[i]
              /\ i > n - 1 => party'[i] = party[i]
              /\ i = n - 1 => party'[i] = Blank
              /\ i >= s /\ i < n - 1 =>
                   /\ i + 1 \in Slots /\ i + 1 \in 0 .. n - 1
                   /\ party'[i] = [party[i + 1] EXCEPT !.count = @ - 1]
  <2>1. party'[i] = IF i < s \/ i > n - 1 THEN party[i]
                    ELSE IF i = n - 1 THEN Blank ELSE [party[i + 1] EXCEPT !.count = @ - 1]
    BY <1>1, <1>2, <1>10 DEF Shifted
  <2>2. i \in Nat
    BY DEF Slots
  <2>3. i < n - 1 => i + 1 \in 0 .. n - 1
    BY <2>2
  <2>4. i < n - 1 => i + 1 \in Slots
    BY <1>8, <2>3
  <2> QED BY <1>3, <2>1, <2>2, <2>3, <2>4
\* The entries behind the gap.
<1>12. ASSUME NEW i \in Slots, i >= s, i < n - 1
       PROVE  /\ IsEntry(party'[i]) /\ party'[i].name = party[i + 1].name
              /\ party'[i].treat = party[i + 1].treat /\ party'[i].title = party[i + 1].title
              /\ party'[i].total = party[i + 1].total /\ party'[i].count = i
  <2>1. PICK q : q = party[i + 1]
    OBVIOUS
  <2>2. i \in Nat
    BY DEF Slots
  <2>3. IsEntry(q) /\ StandsFor(q, disk[i + 1 + 1], i + 1) /\ party'[i] = [q EXCEPT !.count = @ - 1]
    BY <1>8, <1>9, <1>11, <1>12, <2>1
  <2>4. q.count = i + 1 /\ q.count # 0 /\ q.count - 1 = i
    BY <2>2, <2>3 DEF StandsFor
  <2> QED BY <2>1, <2>3, <2>4, EntryShift
<1>13. TypeInv'
  <2>1. party' \in [Slots -> {party'[i] : i \in Slots}]
    BY <1>1 DEF Shifted
  <2>2. IsEntry(Blank)
    <3>1. 0 \in Slots /\ 0 \in 0 .. HddSize
      BY HddAssumption DEF Slots
    <3>2. Blank \in [name : {Blank.name}, treat : {"system", "pfs", "noaccess", "raw", "game"},
                     title : {Blank.title}, total : 0 .. HddSize, count : Slots]
      BY <3>1 DEF Blank
    <3> QED BY <3>2 DEF IsEntry
  <2>3. ASSUME NEW i \in Slots PROVE IsEntry(party'[i])
    <3>1. i < s \/ i > n - 1 \/ i = n - 1 \/ (i >= s /\ i < n - 1)
      BY DEF Slots
    <3> QED BY <1>9, <1>11, <1>12, <2>2, <3>1
  <2> QED BY <1>1, <2>1, <2>3 DEF IInv, TypeInv, IsEntry
<1>14. ASSUME NEW i \in 0 .. n - 2
       PROVE  /\ StandsFor(party'[i], e[i + 1], i)
              /\ \E j \in 0 .. n - 1 : /\ party'[i].treat = party[j].treat
                                       /\ party'[i].title = party[j].title
                                       /\ e[i + 1] = disk[j + 1]
  <2>1. i \in Slots /\ i \in 0 .. n - 1 /\ i + 1 \in 0 .. n - 1 /\ i + 1 \in 1 .. l - 1 /\ i < n - 1
    BY <1>3, <1>8
  <2>2. CASE i < s
    <3>1. party'[i] = party[i] /\ e[i + 1] = disk[i + 1]
      <4>1. i + 1 < s + 1
        BY <1>3, <2>2
      <4> QED BY <1>7, <1>11, <2>1, <2>2, <4>1
    <3> QED BY <1>8, <2>1, <3>1
  <2>3. CASE i >= s
    <3>1. e[i + 1] = disk[(i + 1) + 1]
      BY <1>3, <1>7, <2>1, <2>3
    <3>2. StandsFor(party[i + 1], disk[(i + 1) + 1], i + 1)
      BY <1>8, <2>1
    <3>3. StandsFor(party'[i], e[i + 1], i)
      BY <1>12, <2>1, <2>3, <3>1, <3>2 DEF StandsFor
    <3> QED BY <1>12, <2>1, <2>3, <3>1, <3>3
  <2>4. i < s \/ i >= s
    OBVIOUS
  <2> QED BY <2>2, <2>3, <2>4
<1>15. Listed'
  <2>1. n - 1 \in 0 .. MaxPartitions /\ n - 1 <= Len(e)
    BY <1>2, <1>3, <1>7
  <2>2. \A i \in 0 .. (n - 1) - 1 : i \in 0 .. n - 2
    OBVIOUS
  <2>3. \A i \in 0 .. (n - 1) - 1 : StandsFor(party'[i], e[i + 1], i)
    BY <1>14, <2>2
  <2> QED BY <1>1, <1>2, <1>5, <2>1, <2>3 DEF Listed, StandsFor
<1>16. CursorSound'
  <2>1. n - 1 \in Nat /\ s \in Int
    BY <1>3
  <2> QED BY <1>1, <1>2, <2>1, ClampedIs DEF CursorSound
<1>17. TopSound'
  <2>1. 0 \in Slots /\ party'[0] = party[0]
    <3>1. 0 \in Slots /\ 0 < s
      BY <1>3, ListFacts
    <3> QED BY <1>11, <3>1
  <2> QED BY <2>1 DEF IInv, TopSound
<1>18. PICK z \in Nat : z = disk[s + 1].size /\ (Info.total = z \/ Info.total = 0)
  <2>1. s + 1 \in 1 .. l
    BY <1>3
  <2> QED BY <1>2, <1>5, <1>10, <2>1 DEF TotalOf, Sized
<1>19. /\ Sizes(e) = Sizes(disk) - z
       /\ Sizes(First(e, n - 1)) = Sizes(First(disk, n)) - z
       /\ Sizes(First(e, n - 1)) \in Nat /\ Sizes(First(disk, n)) \in Nat
  <2>1. s + 1 \in 1 .. l /\ n \in s + 1 .. l /\ n - 1 \in Nat
    BY <1>3
  <2>2. Sized(e)
    BY <1>6, DiskFacts
  <2>3. PICK f, g : SumsOf(f, disk) /\ SumsOf(g, e)
    BY <1>5, <2>2, HasSums
  <2>4. Sizes(First(e, n - 1)) \in Nat /\ Sizes(First(disk, n)) \in Nat
    BY <1>5, <2>1, <2>2, <2>3, SumsFirst
  <2> QED BY <1>2, <1>4, <1>5, <1>18, <2>1, <2>4, SumsRemove
<1>20. hddUsed \in 0 .. HddSize /\ Sizes(First(disk, n)) <= hddUsed
  BY <1>2 DEF IInv, UsedSound
<1>21. UsedSound'
  <2>1. hddUsed' \in 0 .. HddSize /\ Sizes(First(e, n - 1)) <= hddUsed'
    <3>1. PICK u \in Nat, a \in Nat, b \in Nat :
            u = hddUsed /\ a = Sizes(First(e, n - 1)) /\ b = Sizes(First(disk, n))
      BY <1>19, <1>20, HddAssumption
    <3>2. a = b - z /\ b <= u /\ u <= HddSize /\ HddSize \in Nat
      BY <1>19, <1>20, <3>1, HddAssumption
    <3>3. hddUsed' = u - z \/ hddUsed' = u
      BY <1>1, <1>18, <3>1
    <3> QED BY <3>1, <3>2, <3>3
  <2> QED BY <1>1, <1>2, <1>5, <2>1 DEF UsedSound
<1>22. WholeListed'
  <2>1. SUFFICES ASSUME ~ ("unlisted" \in mishaps'), ~ ("overflow" \in mishaps')
                 PROVE  /\ numParty' = Len(e)
                        /\ ~ ("sizeless" \in mishaps') => hddUsed' = Sizes(e)
    BY <1>5 DEF WholeListed, Without
  <2>2. ~ ("unlisted" \in mishaps) /\ ~ ("overflow" \in mishaps)
    BY <1>1, <2>1
  <2>3. numParty = Len(disk) /\ (~ ("sizeless" \in mishaps) => hddUsed = Sizes(disk))
    BY <1>1, <2>2 DEF IInv, WholeListed, Without
  <2>4. ASSUME ~ ("sizeless" \in mishaps') PROVE hddUsed' = Sizes(e)
    <3>1. ~ ("sizeless" \in mishaps) /\ Info.total # 0
      BY <1>1, <2>4
    <3> QED BY <1>1, <1>18, <1>19, <2>3, <3>1
  <2> QED BY <1>1, <1>2, <1>7, <2>3, <2>4
<1>23. TitlesSound'
  <2>1. SUFFICES ASSUME Without({"not_renamed", "one_pass", "unseen", "twins"})'
                 PROVE  /\ DistinctTitles(e)
                        /\ \A i \in 0 .. n - 2 :
                             party'[i].treat = "game" => party'[i].title = e[i + 1].title
    <3>1. \A i \in 0 .. (n - 1) - 1 : i \in 0 .. n - 2
      OBVIOUS
    <3> QED BY <1>1, <1>2, <1>5, <3>1 DEF TitlesSound, DistinctTitles
  <2>2. Without({"not_renamed", "one_pass", "unseen", "twins"})
    BY <1>1, <2>1 DEF Without
  <2>3. /\ DistinctTitles(disk)
        /\ \A j \in 0 .. n - 1 : party[j].treat = "game" => party[j].title = disk[j + 1].title
    BY <1>2, <2>2 DEF IInv, TitlesSound
  <2> QED BY <1>6, <1>14, <2>3
<1>24. SoundDisk(disk)' /\ ModeInv'
  BY <1>1, <1>5, <1>6 DEF ModeInv
<1>25. AccessSound'
  <2>1. SUFFICES ASSUME ~ ("busy" \in mishaps'), NEW i \in 0 .. n - 2, e[i + 1].kind = "pfs"
                 PROVE  party'[i].treat = "pfs"
    <3>1. \A i \in 0 .. (n - 1) - 1 : i \in 0 .. n - 2
      OBVIOUS
    <3> QED BY <1>1, <1>2, <1>5, <3>1 DEF AccessSound, Without
  <2>2. \A j \in 0 .. n - 1 : disk[j + 1].kind = "pfs" => party[j].treat = "pfs"
    BY <1>1, <1>2, <2>1 DEF IInv, AccessSound, Without
  <2> QED BY <1>14, <2>1, <2>2
<1> QED BY <1>13, <1>15, <1>16, <1>17, <1>21, <1>22, <1>23, <1>24, <1>25 DEF IInv

\* What can be used stays listed as it was.
SameAccess ==
    \A i \in 0 .. numParty - 1 :
        disk'[i + 1].kind = "pfs" => disk[i + 1].kind = "pfs" /\ party'[i].treat = party[i].treat

\* Steps that replace one entry of the list, and perhaps a name or a title of
\* the disk.
LEMMA PatchKeepsIInv ==
    ASSUME IInv, NEW k \in Slots, NEW g, IsEntry(g), party' = [party EXCEPT ![k] = g],
           k = 0 => g.treat = "system" \/ g.name = NoName,
           SoundDisk(disk'), Len(disk') = Len(disk), Sizes(disk') = Sizes(disk),
           Sizes(First(disk', numParty)) = Sizes(First(disk, numParty)),
           disk # <<>> => disk' # <<>>,
           UNCHANGED <<numParty, hddUsed, hddFormated, sel, mounted>>,
           mode # "out", mode' = "list", games' \in {"null", "live", "freed"},
           mishaps \subseteq mishaps',
           \A i \in 0 .. numParty - 1 : StandsFor(party'[i], disk'[i + 1], i),
           SameAccess, TitlesSound'
    PROVE  IInv'
<1>1. \A i \in Slots : party'[i] = IF i = k THEN g ELSE party[i]
  BY DEF IInv, TypeInv
<1>2. TypeInv'
  <2>1. \A i \in Slots : IsEntry(party[i])
    BY DEF IInv, TypeInv
  <2>2. \A i \in Slots : IsEntry(party'[i])
    BY <1>1, <2>1
  <2>3. party' \in [Slots -> {party'[i] : i \in Slots}]
    BY DEF IInv, TypeInv
  <2> QED BY <2>2, <2>3 DEF TypeInv, IsEntry
<1>3. Listed'
  BY DEF IInv, Listed, StandsFor
<1>4. CursorSound' /\ UsedSound'
  BY DEF IInv, CursorSound, UsedSound
<1>5. TopSound'
  <2>1. party'[0] = IF 0 = k THEN g ELSE party[0]
    BY <1>1, ListFacts
  <2> QED BY <2>1 DEF IInv, TopSound
<1>6. WholeListed'
  BY DEF IInv, WholeListed, Without
<1>7. SoundDisk(disk)' /\ ModeInv'
  BY DEF IInv, ModeInv
<1>8. AccessSound'
  BY DEF IInv, AccessSound, Without, SameAccess
<1> QED BY <1>2, <1>3, <1>4, <1>5, <1>6, <1>7, <1>8 DEF IInv

LEMMA TreatOfIs ==
    ASSUME NEW kind
    PROVE  TreatOf(kind) \in {"system", "pfs", "noaccess", "raw"} /\ TreatOf("hdl") = "raw"
<1>1. TreatOf("hdl") = "raw"
  BY DEF TreatOf
<1>2. TreatOf(kind) \in {"system", "pfs", "noaccess", "raw"}
  BY DEF TreatOf
<1> QED BY <1>1, <1>2

LEMMA RenameKeepsIInv ==
    ASSUME IInv, NEW typed \in Typed, RenameParty(typed)
    PROVE  IInv'
<1>1. /\ mode = "menu" /\ mode' = "list" /\ Info.treat # "system"
      /\ UNCHANGED <<numParty, hddUsed, hddFormated, sel, mounted, games, mishaps>>
  BY DEF RenameParty, Chosen, MayRename
<1>2. games \in {"null", "live", "freed"} /\ SoundDisk(disk)
      /\ \A i \in Slots : IsEntry(party[i])
  BY DEF IInv, TypeInv
<1>3. sel \in Nat /\ (sel < numParty \/ (sel = 0 /\ numParty = 0))
  BY DEF IInv, CursorSound
<1>4. CASE UNCHANGED <<disk, party>>
  BY <1>1, <1>2, <1>3, <1>4, IdleKeepsIInv DEF list
<1>5. CASE ~ UNCHANGED <<disk, party>>
  <2>1. PICK new : new = Renames(typed)
    OBVIOUS
  <2>2. /\ Info.name \in DiskNames /\ new \notin DiskNames
        /\ disk' = [disk EXCEPT ![At(Info.name)].name = new]
        /\ party' = [party EXCEPT ![Info.count].name = new]
    BY <1>5, <2>1 DEF RenameParty
  <2>3. PICK s \in Nat : s = sel
    BY <1>3
  <2>4. /\ s \in 1 .. numParty - 1 /\ s + 1 \in 2 .. Len(disk) /\ s \in Slots
        /\ StandsFor(Info, disk[s + 1], s) /\ At(Info.name) = s + 1
        /\ Info = party[s] /\ IsEntry(Info)
    BY <1>1, <2>2, <2>3, Selected, ListFacts
  <2>5. PICK k \in 1 .. Len(disk) : k = s + 1
    BY <2>4, ListFacts
  <2>6. PICK p : p = Renamed(disk[k], new)
    OBVIOUS
  <2>7. new # NoName
    BY <2>1, NewName, ListFacts DEF Renames
  <2>8. /\ IsPart(p) /\ p.name = new /\ p.kind = disk[k].kind
        /\ p.size = disk[k].size /\ p.title = disk[k].title
    <3>1. IsPart(disk[k])
      BY <1>2 DEF SoundDisk
    <3> QED BY <2>6, <2>7, <3>1, PartName
  <2>9. \A j \in 1 .. Len(disk) : disk[j].name # new
    BY <2>2, ListFacts DEF DiskNames
  <2>10. PICK n \in Nat : n = numParty
    BY ListFacts
  <2>11. /\ SoundDisk(disk') /\ disk' # <<>> /\ Len(disk') = Len(disk)
         /\ \A j \in 1 .. Len(disk) : disk'[j] = IF j = k THEN p ELSE disk[j]
         /\ Sizes(disk') = Sizes(disk) /\ Sizes(First(disk', n)) = Sizes(First(disk, n))
    <3>1. IsPart(p) /\ p.kind = disk[k].kind /\ p.size = disk[k].size
          /\ \A j \in 1 .. Len(disk) : disk[j].name = p.name => j = k
      BY <2>8, <2>9
    <3>2. disk' = Patched(disk, k, p)
      BY <2>2, <2>4, <2>5, <2>6 DEF Patched, Renamed
    <3> QED BY <1>2, <3>1, <3>2, DiskPatch
  <2>12. PICK g : g = Named(Info, new)
    OBVIOUS
  <2>13. /\ IsEntry(g) /\ g.name = new /\ g.treat = Info.treat
         /\ g.title = Info.title /\ g.total = Info.total /\ g.count = Info.count
    BY <2>4, <2>12, EntryNamed
  <2>14. party' = [party EXCEPT ![s] = g]
    <3>1. Info.count = s
      BY <2>4 DEF StandsFor
    <3> QED BY <2>2, <2>4, <2>12, <3>1 DEF Named
  <2>15. \A i \in Slots : party'[i] = IF i = s THEN g ELSE party[i]
    BY <2>14 DEF IInv, TypeInv
  <2>16. ASSUME NEW i \in 0 .. n - 1
         PROVE  /\ StandsFor(party'[i], disk'[i + 1], i)
                /\ party'[i].treat = party[i].treat /\ party'[i].title = party[i].title
                /\ disk'[i + 1].title = disk[i + 1].title
                /\ disk'[i + 1].kind = disk[i + 1].kind
    <3>1. i \in Slots /\ i + 1 \in 1 .. Len(disk) /\ StandsFor(party[i], disk[i + 1], i)
      BY <2>10, ListFacts DEF IInv, Listed
    <3>2. CASE i = s
      <4>1. party'[i] = g /\ disk'[i + 1] = p /\ i + 1 = k
        BY <2>5, <2>11, <2>15, <3>1, <3>2
      <4>2. StandsFor(g, p, i)
        BY <2>4, <2>5, <2>8, <2>13, <3>2 DEF StandsFor, TotalOf
      <4> QED BY <2>4, <2>8, <2>13, <3>2, <4>1, <4>2
    <3>3. CASE i # s
      <4>1. i + 1 # k
        BY <2>5, <3>3
      <4> QED BY <2>11, <2>15, <3>1, <3>3, <4>1
    <3> QED BY <3>2, <3>3
  <2>17. TitlesSound'
    <3>1. SUFFICES ASSUME Without({"not_renamed", "one_pass", "unseen", "twins"})
                   PROVE  /\ DistinctTitles(disk')
                          /\ \A i \in 0 .. n - 1 :
                               party'[i].treat = "game" => party'[i].title = disk'[i + 1].title
      BY <1>1, <2>10 DEF TitlesSound, DistinctTitles, Without
    <3>2. /\ DistinctTitles(disk)
          /\ \A i \in 0 .. n - 1 :
               party[i].treat = "game" => party[i].title = disk[i + 1].title
      BY <2>10, <3>1 DEF IInv, TitlesSound
    <3>3. DOMAIN disk = 1 .. Len(disk) /\ DOMAIN disk' = 1 .. Len(disk)
      BY <2>11, ListFacts, DiskFacts
    <3>4. \A j \in 1 .. Len(disk) : disk'[j].kind = disk[j].kind /\ disk'[j].title = disk[j].title
      BY <2>8, <2>11
    <3>5. DistinctTitles(disk')
      BY <3>2, <3>3, <3>4 DEF DistinctTitles
    <3> QED BY <2>16, <3>2, <3>5
  <2>18. s # 0 /\ mode # "out" /\ mishaps \subseteq mishaps'
         /\ Sizes(First(disk', numParty)) = Sizes(First(disk, numParty))
         /\ \A i \in 0 .. numParty - 1 : StandsFor(party'[i], disk'[i + 1], i)
    BY <1>1, <2>4, <2>10, <2>11, <2>16
  <2>19. SameAccess
    BY <2>10, <2>16 DEF SameAccess
  <2> QED BY <1>1, <1>2, <2>4, <2>11, <2>13, <2>14, <2>17, <2>18, <2>19, PatchKeepsIInv
<1> QED BY <1>4, <1>5

\* A loaded or unloaded game: its entry alone changes, and TitlesSound is what
\* is left to show.
LEMMA GameEntryKeepsIInv ==
    ASSUME IInv, mode = "list", NEW g, IsEntry(g), party' = [party EXCEPT ![sel] = g],
           g.name = Info.name, g.count = Info.count, g.total = Info.total,
           g.treat \in {"raw", "game"}, Info.treat \in {"raw", "game"},
           games' \in {"null", "live", "freed"},
           UNCHANGED <<disk, numParty, hddUsed, hddFormated, sel, mode, mounted, mishaps>>,
           sel < numParty /\ g.treat = "game" => g.title = disk[sel + 1].title
    PROVE  IInv'
<1>1. SoundDisk(disk) /\ sel \in Slots /\ Info = party[sel] /\ IsEntry(Info)
  BY ListFacts DEF IInv
<1>2. \A i \in Slots : party'[i] = IF i = sel THEN g ELSE party[i]
  BY DEF IInv, TypeInv
<1>3. sel = 0 => g.name = NoName
  BY <1>1 DEF IInv, TopSound
<1>4. \A i \in 0 .. numParty - 1 : i \in Slots /\ StandsFor(party[i], disk[i + 1], i)
  BY ListFacts DEF IInv, Listed
<1>5. ASSUME NEW i \in 0 .. numParty - 1
      PROVE  /\ StandsFor(party'[i], disk'[i + 1], i)
             /\ disk[i + 1].kind = "pfs" => party'[i].treat = party[i].treat
  <2>1. CASE i = sel
    <3>1. StandsFor(Info, disk[i + 1], i)
      BY <1>1, <1>4, <2>1
    <3>2. disk[i + 1].kind = "hdl"
      BY <3>1, <1>1 DEF StandsFor, TreatOf
    <3>3. StandsFor(g, disk[i + 1], i)
      BY <3>1, <3>2, TreatOfIs DEF StandsFor
    <3> QED BY <1>2, <1>4, <2>1, <3>2, <3>3
  <2>2. CASE i # sel
    BY <1>2, <1>4, <2>2
  <2> QED BY <2>1, <2>2
<1>6. TitlesSound'
  <2>1. SUFFICES ASSUME Without({"not_renamed", "one_pass", "unseen", "twins"}),
                        NEW i \in 0 .. numParty - 1, party'[i].treat = "game"
                 PROVE  party'[i].title = disk[i + 1].title
    BY DEF IInv, TitlesSound, DistinctTitles, Without
  <2>2. party[i].treat = "game" => party[i].title = disk[i + 1].title
    BY <2>1 DEF IInv, TitlesSound
  <2>3. i = sel => sel < numParty
    BY ListFacts
  <2> QED BY <1>2, <1>4, <2>1, <2>2, <2>3
<1>7. SameAccess /\ \A i \in 0 .. numParty - 1 : StandsFor(party'[i], disk'[i + 1], i)
  BY <1>5 DEF SameAccess
<1> QED BY <1>1, <1>3, <1>6, <1>7, PatchKeepsIInv

LEMMA LoadKeepsIInv ==
    ASSUME IInv, LoadGame
    PROVE  IInv'
<1>1. /\ mode = "list" /\ Info.treat = "raw"
      /\ UNCHANGED <<disk, numParty, hddUsed, hddFormated, sel, mode, mounted, mishaps>>
  BY DEF LoadGame
<1>2. games' \in {"null", "live", "freed"}
  BY DEF LoadGame, GlistRead, GlistFails
<1>3. CASE party' = party
  <2>1. sel \in Nat /\ (sel < numParty \/ (sel = 0 /\ numParty = 0))
    BY DEF IInv, CursorSound
  <2> QED BY <1>1, <1>2, <1>3, <2>1, IdleKeepsIInv DEF list
<1>4. CASE party' # party
  <2>1. PICK i \in DOMAIN disk : disk[i].kind = "hdl" /\ disk[i].name = Info.name
    BY <1>4 DEF LoadGame
  <2>2. party' = [party EXCEPT ![sel].title = HeaderTitle(Info.name), ![sel].treat = "game"]
    BY <1>4, <2>1 DEF LoadGame
  <2>3. Info.name \in DiskNames
    BY <2>1 DEF DiskNames
  <2>4. At(Info.name) = sel + 1
    BY <1>1, <2>3, Selected
  <2>5. PICK title : title = disk[sel + 1].title /\ title = HeaderTitle(Info.name)
    BY <2>4 DEF HeaderTitle
  <2>6. Info = party[sel] /\ IsEntry(Info) /\ sel \in Slots /\ DOMAIN party = Slots
    BY ListFacts DEF IInv, TypeInv
  <2>7. PICK h : h = TitledAs(Info, title)
    OBVIOUS
  <2>8. PICK g : g = Treated(h, "game")
    OBVIOUS
  <2>9. /\ IsEntry(h) /\ h.name = Info.name /\ h.treat = Info.treat
        /\ h.title = title /\ h.total = Info.total /\ h.count = Info.count
    BY <2>6, <2>7, EntryTitled
  <2>10. /\ IsEntry(g) /\ g.name = Info.name /\ g.treat = "game"
         /\ g.title = title /\ g.total = Info.total /\ g.count = Info.count
    BY <2>8, <2>9, EntryTreated
  <2>11. party' = [party EXCEPT ![sel] = g]
    BY <2>2, <2>5, <2>6, <2>7, <2>8 DEF TitledAs, Treated
  <2> QED BY <1>1, <1>2, <2>5, <2>10, <2>11, GameEntryKeepsIInv
<1> QED BY <1>3, <1>4

LEMMA UnloadKeepsIInv ==
    ASSUME IInv, UnloadGame
    PROVE  IInv'
<1>1. /\ mode = "list" /\ Info.treat = "game" /\ party' = [party EXCEPT ![sel].treat = "raw"]
      /\ UNCHANGED <<disk, numParty, hddUsed, hddFormated, sel, mode, mounted, games, mishaps>>
  BY DEF UnloadGame
<1>2. Info = party[sel] /\ IsEntry(Info) /\ sel \in Slots
  BY ListFacts
<1>3. PICK g : g = Treated(Info, "raw")
  OBVIOUS
<1>4. /\ IsEntry(g) /\ g.name = Info.name /\ g.treat = "raw"
      /\ g.title = Info.title /\ g.total = Info.total /\ g.count = Info.count
  BY <1>2, <1>3, EntryTreated
<1>5. party' = [party EXCEPT ![sel] = g]
  BY <1>1, <1>2, <1>3 DEF Treated
<1>6. games' \in {"null", "live", "freed"}
  BY <1>1 DEF IInv, TypeInv
<1> QED BY <1>1, <1>4, <1>5, <1>6, GameEntryKeepsIInv

LEMMA NewTitle ==
    ASSUME NEW typed \in Typed
    PROVE  Retitles(typed) = typed => typed \notin Range(Titles)
<1>1. IsSeq(typed) /\ Len(typed) >= 1
  BY HddAssumption DEF IsSeq
<1>2. PICK names : names = Titles
  OBVIOUS
<1>3. MaxPartitions \in Nat
  BY HddAssumption
<1>4. Len(names) = MaxPartitions /\ DOMAIN names = 1 .. MaxPartitions
  BY <1>2, <1>3 DEF Titles
<1>5. Unique(typed, names) = typed => \A i \in 1 .. Len(names) : names[i] # typed
  BY <1>1, <1>3, <1>4, UniqueIs
<1> QED BY <1>2, <1>4, <1>5 DEF Retitles, Range

LEMMA RenameGameKeepsIInv ==
    ASSUME IInv, NEW typed \in Typed, RenameGame(typed)
    PROVE  IInv'
<1>1. PICK new : new = Retitles(typed)
  OBVIOUS
<1>2. PICK old : old = Titled(Info.title)
  OBVIOUS
<1>3. PICK k : k = CHOOSE i \in old : \A j \in old : i <= j
  OBVIOUS
<1>4. /\ mode = "menu" /\ mode' = "list" /\ Info.treat = "game"
      /\ UNCHANGED <<numParty, hddUsed, hddFormated, sel, mounted>>
      /\ party' = [party EXCEPT ![Info.count].title = new]
      /\ mishaps \subseteq mishaps'
  BY <1>1 DEF RenameGame, Chosen
<1>5. games' \in {"null", "live", "freed"}
  BY DEF RenameGame, GlistFails
<1>6. \/ UNCHANGED disk /\ "not_renamed" \in mishaps'
      \/ /\ old # {} /\ disk' = Retitled(k, new)
         /\ mishaps' = mishaps \cup
              (IF Titled(new) # {} /\ new \notin Range(Titles) THEN {"unseen"} ELSE {})
              \cup (IF Titled(new) # {} /\ new # typed THEN {"one_pass"} ELSE {})
  BY <1>1, <1>2, <1>3 DEF RenameGame
<1>7. /\ SoundDisk(disk) /\ sel \in Slots /\ Info = party[sel] /\ IsEntry(Info)
      /\ Len(disk) \in Nat /\ DOMAIN disk = 1 .. Len(disk)
  BY ListFacts DEF IInv
<1>8. PICK n \in Nat : n = numParty /\ n <= Len(disk)
  BY ListFacts
<1>9. \A i \in 0 .. n - 1 :
        i \in Slots /\ i + 1 \in 1 .. Len(disk) /\ StandsFor(party[i], disk[i + 1], i)
  BY <1>8, ListFacts DEF IInv, Listed
<1>10. PICK c \in Slots : c = Info.count
  BY <1>7 DEF IsEntry
\* If the list is not empty, it is the entry under the cursor that is renamed.
<1>11. n # 0 => c = sel /\ sel \in 0 .. n - 1
  <2>1. n # 0 => sel \in 0 .. n - 1
    BY <1>8 DEF IInv, CursorSound
  <2> QED BY <1>7, <1>9, <1>10, <2>1 DEF StandsFor
<1>12. PICK q : q = party[c]
  OBVIOUS
<1>13. PICK g : g = TitledAs(q, new)
  OBVIOUS
<1>14. /\ IsEntry(g) /\ g.name = q.name /\ g.treat = q.treat
       /\ g.title = new /\ g.total = q.total /\ g.count = q.count
  <2>1. IsEntry(q)
    BY <1>12 DEF IInv, TypeInv
  <2> QED BY <1>13, <2>1, EntryTitled
<1>15. party' = [party EXCEPT ![c] = g]
  BY <1>4, <1>10, <1>12, <1>13 DEF TitledAs
<1>16. \A i \in Slots : party'[i] = IF i = c THEN g ELSE party[i]
  BY <1>15 DEF IInv, TypeInv
<1>17. c = 0 => g.treat = "system" \/ g.name = NoName
  BY <1>12, <1>14 DEF IInv, TopSound
<1>18. ASSUME NEW i \in 0 .. n - 1
       PROVE  /\ party'[i].name = party[i].name /\ party'[i].count = party[i].count
              /\ party'[i].total = party[i].total /\ party'[i].treat = party[i].treat
              /\ party'[i].title = IF i = c THEN new ELSE party[i].title
  BY <1>9, <1>12, <1>14, <1>16
<1>19. CASE UNCHANGED disk /\ "not_renamed" \in mishaps'
  <2>1. \A i \in 0 .. numParty - 1 : StandsFor(party'[i], disk'[i + 1], i)
    BY <1>8, <1>9, <1>18, <1>19 DEF StandsFor
  <2>2. TitlesSound'
    BY <1>19 DEF TitlesSound, Without
  <2>3. /\ SoundDisk(disk') /\ Len(disk') = Len(disk) /\ Sizes(disk') = Sizes(disk)
        /\ Sizes(First(disk', numParty)) = Sizes(First(disk, numParty))
        /\ (disk # <<>> => disk' # <<>>) /\ mode # "out" /\ SameAccess
    BY <1>4, <1>7, <1>8, <1>18, <1>19 DEF SameAccess
  <2> QED BY <1>4, <1>5, <1>14, <1>15, <1>17, <2>1, <2>2, <2>3, PatchKeepsIInv
<1>20. CASE ~ (UNCHANGED disk /\ "not_renamed" \in mishaps')
  <2>1. /\ old # {} /\ disk' = Retitled(k, new)
        /\ mishaps' = mishaps \cup
             (IF Titled(new) # {} /\ new \notin Range(Titles) THEN {"unseen"} ELSE {})
             \cup (IF Titled(new) # {} /\ new # typed THEN {"one_pass"} ELSE {})
    BY <1>6, <1>20
  <2>2. \A j : j \in old <=> j \in 1 .. Len(disk) /\ disk[j].kind = "hdl" /\ disk[j].title = Info.title
    BY <1>2, <1>7 DEF Titled
  <2>3. k \in old
    <3>1. old \in SUBSET Nat
      BY <1>7, <2>2
    <3>2. \E w \in old : \A v \in old : w <= v
      BY <2>1, <3>1, LeastIn
    <3> QED BY <1>3, <3>2
  <2>4. PICK l \in 1 .. Len(disk) : l = k /\ disk[l].kind = "hdl" /\ disk[l].title = Info.title
    BY <2>2, <2>3
  <2>5. PICK p : p = TitledPart(disk[l], new)
    OBVIOUS
  <2>6. /\ IsPart(p) /\ p.name = disk[l].name /\ p.kind = disk[l].kind
        /\ p.size = disk[l].size /\ p.title = new
    <3>1. IsPart(disk[l])
      BY <1>7 DEF SoundDisk
    <3> QED BY <2>5, <3>1, PartTitle
  <2>7. /\ SoundDisk(disk') /\ disk' # <<>> /\ Len(disk') = Len(disk)
        /\ \A j \in 1 .. Len(disk) : disk'[j] = IF j = l THEN p ELSE disk[j]
        /\ Sizes(disk') = Sizes(disk) /\ Sizes(First(disk', n)) = Sizes(First(disk, n))
    <3>1. \A j \in 1 .. Len(disk) : disk[j].name = p.name => j = l
      BY <1>7, <2>6 DEF SoundDisk
    <3>2. disk' = Patched(disk, l, p)
      BY <2>1, <2>4, <2>5 DEF Retitled, Patched, TitledPart
    <3> QED BY <1>7, <2>6, <3>1, <3>2, DiskPatch
  <2>8. ASSUME NEW i \in 0 .. n - 1 PROVE StandsFor(party'[i], disk'[i + 1], i)
    <3>1. disk'[i + 1].name = disk[i + 1].name /\ disk'[i + 1].kind = disk[i + 1].kind
          /\ disk'[i + 1].size = disk[i + 1].size
      BY <1>9, <2>6, <2>7
    <3>2. PICK a, b, x, y : a = party[i] /\ b = party'[i] /\ x = disk[i + 1] /\ y = disk'[i + 1]
      OBVIOUS
    <3>3. /\ b.name = a.name /\ b.count = a.count /\ b.total = a.total /\ b.treat = a.treat
          /\ y.name = x.name /\ y.kind = x.kind /\ y.size = x.size
      BY <1>18, <3>1, <3>2
    <3>4. StandsFor(a, x, i)
      BY <1>9, <3>2
    <3>5. StandsFor(b, y, i)
      BY <3>3, <3>4 DEF StandsFor, TotalOf
    <3> QED BY <3>2, <3>5
  <2>9. TitlesSound'
    <3>1. SUFFICES ASSUME Without({"not_renamed", "one_pass", "unseen", "twins"})'
                   PROVE  /\ DistinctTitles(disk')
                          /\ \A i \in 0 .. n - 1 :
                               party'[i].treat = "game" => party'[i].title = disk'[i + 1].title
      BY <1>4, <1>8 DEF TitlesSound, DistinctTitles
    <3>2. /\ DistinctTitles(disk)
          /\ \A i \in 0 .. n - 1 :
               party[i].treat = "game" => party[i].title = disk[i + 1].title
      <4>1. Without({"not_renamed", "one_pass", "unseen", "twins"})
        BY <1>4, <3>1 DEF Without
      <4> QED BY <1>8, <4>1 DEF IInv, TitlesSound
    <3>3. Titled(new) = {}
      <4>1. ~ ("unseen" \in mishaps') /\ ~ ("one_pass" \in mishaps')
        BY <3>1 DEF Without
      <4>2. Titled(new) # {} => new \in Range(Titles) /\ new = typed
        BY <2>1, <4>1
      <4> QED BY <1>1, <4>2, NewTitle
    <3>4. \A j \in 1 .. Len(disk) : disk[j].kind = "hdl" => disk[j].title # new
      BY <1>7, <3>3 DEF Titled
    <3>5. \A i, j \in 1 .. Len(disk) :
            (disk[i].kind = "hdl" /\ disk[j].kind = "hdl" /\ disk[i].title = disk[j].title) => i = j
      BY <1>7, <3>2 DEF DistinctTitles
    <3>6. DistinctTitles(disk')
      <4>1. DOMAIN disk' = 1 .. Len(disk)
        BY <2>7, DiskFacts
      <4>2. ASSUME NEW i \in 1 .. Len(disk), NEW j \in 1 .. Len(disk), disk'[i].kind = "hdl",
                   disk'[j].kind = "hdl", disk'[i].title = disk'[j].title
            PROVE  i = j
        BY <2>4, <2>6, <2>7, <3>4, <3>5, <4>2
      <4> QED BY <4>1, <4>2 DEF DistinctTitles
    <3>7. ASSUME NEW i \in 0 .. n - 1, party'[i].treat = "game"
          PROVE  party'[i].title = disk'[i + 1].title
      <4>1. i \in Slots /\ i + 1 \in 1 .. Len(disk) /\ StandsFor(party[i], disk[i + 1], i)
            /\ party[i].treat = "game" /\ party[i].title = disk[i + 1].title
        BY <1>9, <1>18, <3>2, <3>7
      <4>2. disk[i + 1].kind = "hdl"
        BY <4>1, TreatOfIs DEF StandsFor
      <4>3. CASE i = c
        <5>1. party[i] = Info
          BY <1>7, <1>11, <4>3
        <5>2. i + 1 = l
          BY <2>4, <3>5, <4>1, <4>2, <5>1
        <5>3. disk'[i + 1] = p
          BY <2>7, <4>1, <5>2
        <5> QED BY <1>18, <2>6, <4>3, <5>3
      <4>4. CASE i # c
        <5>1. i + 1 # l
          <6>1. SUFFICES ASSUME i + 1 = l PROVE FALSE
            OBVIOUS
          <6>2. n # 0
            OBVIOUS
          <6>3. sel \in 0 .. n - 1 /\ c = sel
            BY <1>11, <6>2
          <6>4. /\ sel + 1 \in 1 .. Len(disk) /\ StandsFor(Info, disk[sel + 1], sel)
                /\ Info.title = disk[sel + 1].title
            BY <1>4, <1>7, <1>9, <3>2, <6>3
          <6>5. disk[sel + 1].kind = "hdl"
            BY <1>4, <6>4, TreatOfIs DEF StandsFor
          <6>6. sel + 1 = l
            BY <2>4, <3>5, <6>4, <6>5
          <6> QED BY <4>4, <6>1, <6>3, <6>6
        <5>2. disk'[i + 1] = disk[i + 1]
          BY <2>7, <4>1, <5>1
        <5> QED BY <1>18, <4>1, <4>4, <5>2
      <4> QED BY <4>3, <4>4
    <3> QED BY <3>6, <3>7
  <2>10. /\ \A i \in 0 .. numParty - 1 : StandsFor(party'[i], disk'[i + 1], i)
         /\ Sizes(First(disk', numParty)) = Sizes(First(disk, numParty)) /\ mode # "out"
    BY <1>4, <1>8, <2>7, <2>8
  <2>11. SameAccess
    BY <1>8, <1>9, <1>18, <2>6, <2>7 DEF SameAccess
  <2> QED BY <1>4, <1>5, <1>14, <1>15, <1>17, <2>7, <2>9, <2>10, <2>11, PatchKeepsIInv
<1> QED BY <1>19, <1>20

LEMMA NextIInv ==
    ASSUME IInv, [Next]_vars
    PROVE  IInv'
<1>1. CASE UNCHANGED vars
  <2>1. UNCHANGED <<disk, list, sel, mode, mounted, games, mishaps>>
    BY <1>1 DEF vars
  <2>2. /\ sel \in Nat /\ (sel < numParty \/ (sel = 0 /\ numParty = 0))
        /\ mode \in {"out", "list", "menu", "lost"} /\ games \in {"null", "live", "freed"}
        /\ mode = "menu" => mounted = NoMounts
    BY DEF IInv, CursorSound, TypeInv, ModeInv
  <2> QED BY <2>1, <2>2, IdleKeepsIInv
<1>2. CASE BrowserMounts \/ Leave \/ Move \/ MenuParty \/ BackToList \/ RemoveFails \/ FreedTwice
  BY <1>2, IdleSteps
<1>3. CASE Enter
  BY <1>3, EnterKeepsIInv
<1>4. CASE RemoveParty
  BY <1>4, RemoveKeepsIInv
<1>5. CASE FormatHdd
  BY <1>5, FormatKeepsIInv
<1>6. ASSUME NEW typed \in Typed, NEW size \in SizeSelector, CreateParty(typed, size) PROVE IInv'
  BY <1>6, CreateKeepsIInv
<1>7. ASSUME NEW typed \in Typed, RenameParty(typed) \/ RenameGame(typed) PROVE IInv'
  BY <1>7, RenameKeepsIInv, RenameGameKeepsIInv
<1>8. CASE LoadGame
  BY <1>8, LoadKeepsIInv
<1>9. CASE UnloadGame
  BY <1>9, UnloadKeepsIInv
<1> QED BY <1>1, <1>2, <1>3, <1>4, <1>5, <1>6, <1>7, <1>8, <1>9 DEF Next, Menu

-----------------------------------------------------------------------------
(***************************************************************************)
(* What follows.                                                           *)
(***************************************************************************)

\* The list, its cursor and its count of space stand for the disk, through any
\* commands and any failures (hdd.c:98, hdd.c:478-737).
THEOREM HddAlwaysSound == Spec => []IInv
<1>1. Init => IInv
  BY InitIInv
<1>2. IInv /\ [Next]_vars => IInv'
  BY NextIInv
<1> QED BY <1>1, <1>2, PTL DEF Spec

\* The cursor, the count and the space in use stay in their bounds: the space
\* taken off for a removed partition was counted before (hdd.c:536).
THEOREM TypeCorrect == Spec => []TypeOK
<1>1. ASSUME IInv PROVE TypeOK
  <2>1. ASSUME NEW i \in Slots
        PROVE  /\ party[i].treat \in {"system", "pfs", "noaccess", "raw", "game"}
               /\ party[i].total \in 0 .. HddSize /\ party[i].count \in Slots
    <3>1. IsEntry(party[i])
      BY <1>1 DEF IInv, TypeInv
    <3> QED BY <3>1 DEF IsEntry
  <2>2. numParty \in 0 .. MaxPartitions /\ hddUsed \in 0 .. HddSize
    BY <1>1 DEF IInv, Listed, UsedSound
  <2>3. sel \in Slots
    BY <1>1, ListFacts
  <2>4. mode \in {"out", "list", "menu", "lost"} /\ games \in {"null", "live", "freed"}
    BY <1>1 DEF IInv, TypeInv
  <2> QED BY <2>1, <2>2, <2>3, <2>4 DEF TypeOK
<1>2. IInv => TypeOK
  BY <1>1
<1> QED BY <1>2, HddAlwaysSound, PTL

\* What the manager shows is the disk: through creating, removing, renaming
\* and formatting, whatever the driver answers, each entry is the partition in
\* its place and the space in use is the disk's (hdd.c:98, hdd.c:478-737).
THEOREM ListIsTheDisk == Spec => []ListMatchesDisk
<1>1. ASSUME IInv PROVE ListMatchesDisk
  <2>1. SUFFICES ASSUME mode # "out", Without({"unlisted", "overflow"})
                 PROVE  /\ numParty = Len(disk)
                        /\ \A i \in 0 .. numParty - 1 :
                             /\ party[i].name = disk[i + 1].name /\ party[i].count = i
                             /\ party[i].treat \in {TreatOf(disk[i + 1].kind)} \cup
                                  (CASE disk[i + 1].kind = "hdl" -> {"game"}
                                     [] disk[i + 1].kind = "pfs" /\ ~Without({"busy"}) -> {"noaccess"}
                                     [] OTHER -> {})
                        /\ Without({"sizeless"}) => hddUsed = Sizes(disk)
                        /\ hddFormated => sel < numParty /\ (Info.treat = "pfs" => Info.total > 0)
    BY DEF ListMatchesDisk
  <2>2. numParty = Len(disk) /\ (Without({"sizeless"}) => hddUsed = Sizes(disk))
    BY <1>1, <2>1 DEF IInv, WholeListed
  <2>3. ASSUME NEW i \in 0 .. numParty - 1
        PROVE  /\ party[i].name = disk[i + 1].name /\ party[i].count = i
               /\ party[i].treat \in {TreatOf(disk[i + 1].kind)} \cup
                    (CASE disk[i + 1].kind = "hdl" -> {"game"}
                       [] disk[i + 1].kind = "pfs" /\ ~Without({"busy"}) -> {"noaccess"}
                       [] OTHER -> {})
    <3>1. PICK p, e : p = disk[i + 1] /\ e = party[i]
      OBVIOUS
    <3>2. StandsFor(e, p, i)
      BY <1>1, <3>1 DEF IInv, Listed
    <3>3. Without({"busy"}) /\ p.kind = "pfs" => e.treat = "pfs"
      BY <1>1, <3>1 DEF IInv, AccessSound
    <3>4. TreatOf("pfs") = "pfs"
      BY DEF TreatOf
    <3>5. CASE p.kind = "hdl"
      BY <3>1, <3>2, <3>5 DEF StandsFor
    <3>6. CASE p.kind = "pfs"
      BY <3>1, <3>2, <3>3, <3>4, <3>6 DEF StandsFor
    <3>7. CASE p.kind # "hdl" /\ p.kind # "pfs"
      BY <3>1, <3>2, <3>7 DEF StandsFor
    <3> QED BY <3>5, <3>6, <3>7
  <2>4. ASSUME hddFormated PROVE sel < numParty /\ (Info.treat = "pfs" => Info.total > 0)
    <3>1. SoundDisk(disk) /\ disk # <<>>
      BY <1>1, <2>4 DEF IInv, ModeInv
    <3>2. numParty # 0
      BY <2>2, <3>1, DiskFacts
    <3>3. sel < numParty /\ sel \in 0 .. numParty - 1
      BY <1>1, <3>2, ListFacts DEF IInv, CursorSound
    <3>4. PICK p : p = disk[sel + 1]
      OBVIOUS
    <3>5. StandsFor(Info, p, sel)
      BY <1>1, <3>3, <3>4 DEF IInv, Listed, Info
    <3>6. p.size \in 1 .. HddSize
      BY <1>1, <3>1, <3>3, <3>4, ListFacts DEF SoundDisk, IsPart
    <3>7. ASSUME Info.treat = "pfs" PROVE Info.total > 0
      <4>1. TreatOf(p.kind) = "pfs" /\ Info.total = TotalOf(p)
        BY <3>5, <3>7 DEF StandsFor
      <4>2. p.kind = "pfs"
        BY <4>1 DEF TreatOf
      <4>3. Info.total = p.size
        BY <4>1, <4>2 DEF TotalOf
      <4> QED BY <3>6, <4>3
    <3> QED BY <3>3, <3>7
  <2> QED BY <2>2, <2>3, <2>4
<1>2. IInv => ListMatchesDisk
  BY <1>1
<1> QED BY <1>2, HddAlwaysSound, PTL

\* Renaming a game, which the code looks up by its old title, changes the
\* header of that game (hdd.c:629, hdl_info/hdd.c:179).
THEOREM TitlesStayTrue == Spec => []TitlesAgree
<1>1. ASSUME IInv PROVE TitlesAgree
  <2>1. SUFFICES ASSUME Without({"unlisted", "overflow", "not_renamed", "one_pass",
                                 "unseen", "twins"})
                 PROVE  \A i \in 0 .. numParty - 1 :
                          party[i].treat = "game" => party[i].title = disk[i + 1].title
    BY DEF TitlesAgree
  <2>2. Without({"not_renamed", "one_pass", "unseen", "twins"})
    BY <2>1 DEF Without
  <2> QED BY <1>1, <2>2 DEF IInv, TitlesSound
<1>2. IInv => TitlesAgree
  BY <1>1
<1> QED BY <1>2, HddAlwaysSound, PTL

\* Partitions are changed only while none is mounted: the menu, which leads
\* to every change, unmounts both units, and nothing mounts one before the
\* list is shown again (hdd.c:186, hdd.c:362).
THEOREM ChangesWhileIdle == Spec => IdleWhenChanged
<1>1. ASSUME IInv, [Next]_vars, DiskNames # DiskNames' PROVE mounted = NoMounts
  <2>1. disk' # disk
    BY <1>1 DEF DiskNames
  <2>2. mode = "menu"
    <3>1. CASE UNCHANGED vars
      BY <2>1, <3>1 DEF vars
    <3>2. CASE BrowserMounts \/ Enter \/ Leave \/ Move \/ MenuParty \/ LoadGame \/ UnloadGame
               \/ FreedTwice
      BY <2>1, <3>2 DEF BrowserMounts, Enter, Leave, Move, MenuParty, LoadGame, UnloadGame,
                        FreedTwice
    <3>3. CASE Menu
      BY <3>3 DEF Menu, BackToList, RemoveParty, RemoveFails, FormatHdd, CreateParty,
                  RenameParty, RenameGame, Chosen
    <3> QED BY <1>1, <3>1, <3>2, <3>3 DEF Next
  <2> QED BY <1>1, <2>2 DEF IInv, ModeInv
<1>2. IInv /\ [Next]_vars => [(DiskNames # DiskNames') => mounted = NoMounts]_vars
  BY <1>1
<1> QED BY <1>2, HddAlwaysSound, PTL DEF Spec, IdleWhenChanged
=============================================================================
