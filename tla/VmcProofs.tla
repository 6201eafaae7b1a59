------------------------------ MODULE VmcProofs ------------------------------
(***************************************************************************)
(* The virtual memory card driver, for any card, any names and any number  *)
(* of handles.  Every chain ends, whatever goes wrong; and while no call   *)
(* has gone wrong in a way that puts the card out of step with itself, no  *)
(* two files share a cluster, a handle writes only what is its own file's, *)
(* no cluster is lost, and what a directory lists is found.                *)
(***************************************************************************)
EXTENDS Vmc, FiniteSetTheorems, WellFoundedInduction, TLAPS

-----------------------------------------------------------------------------
(***************************************************************************)
(* Numbers.                                                                *)
(***************************************************************************)
LEMMA LeastIn ==
    ASSUME NEW S \in SUBSET Nat, S # {}
    PROVE  \E w \in S : \A v \in S : w <= v
<1> DEFINE less == OpToRel(<, Nat)
<1>1. \A i, j \in Nat : <<j, i>> \in less <=> j < i
  BY DEF OpToRel
<1>2. IsWellFoundedOn(less, Nat)
  BY NatLessThanWellFounded
<1> HIDE DEF less
<1>3. PICK w \in S : \A v \in S : ~ (<<v, w>> \in less)
  BY <1>2, WFMin
<1>4. ASSUME NEW v \in S PROVE w <= v
  <2>1. v \in Nat /\ w \in Nat /\ ~ (v < w)
    BY <1>1, <1>3
  <2> QED BY <2>1
<1> QED BY <1>4

LEMMA ClustersAre ==
    /\ Clusters \in Nat /\ Clusters >= 1 /\ FirstAllocatable \in Nat
    /\ ClusterSize \in Nat /\ ClusterSize >= 1 /\ MaxEntries \in Nat /\ MaxLength \in Nat
    /\ Root \in Fat /\ End \notin Fat /\ End \in Nat /\ Fat \in SUBSET Nat
BY VmcAssumption DEF Root, Fat, End

-----------------------------------------------------------------------------
(***************************************************************************)
(* Walks along the links.                                                  *)
(***************************************************************************)
OnFrom(t, d) == IF d = End THEN End ELSE t.next[d]

Walks(f, n, t, c) ==
    /\ f = [k \in 0 .. n |-> f[k]]
    /\ f[0] = c /\ \A k \in 1 .. n : f[k] = OnFrom(t, f[k - 1])

LEMMA HasWalk ==
    ASSUME NEW t, NEW c, NEW n \in Nat
    PROVE  \E f : Walks(f, n, t, c)
<1> DEFINE bad == {m \in 0 .. n : ~ \E f : Walks(f, m, t, c)}
<1>1. ASSUME bad # {} PROVE FALSE
  <2>1. bad \in SUBSET Nat
    OBVIOUS
  <2>2. PICK m \in bad : \A v \in bad : m <= v
    BY <1>1, <2>1, LeastIn
  <2>3. m \in 0 .. n
    OBVIOUS
  <2>4. CASE m = 0
    <3>1. PICK f : f = [i \in 0 .. 0 |-> c]
      OBVIOUS
    <3>2. Walks(f, m, t, c)
      BY <2>4, <3>1 DEF Walks
    <3> QED BY <3>2
  <2>5. CASE m # 0
    <3>1. m - 1 \in 0 .. n /\ m - 1 \notin bad
      BY <2>2, <2>3, <2>5
    <3>2. PICK f : Walks(f, m - 1, t, c)
      BY <3>1
    <3>3. PICK e : e = OnFrom(t, f[m - 1])
      OBVIOUS
    <3>4. PICK g : g = [i \in 0 .. m |-> IF i < m THEN f[i] ELSE e]
      OBVIOUS
    <3>5. g = [i \in 0 .. m |-> g[i]] /\ \A i \in 0 .. m - 1 : g[i] = f[i]
      BY <2>3, <3>4
    <3>6. g[0] = c
      BY <2>3, <2>5, <3>2, <3>5 DEF Walks
    <3>7. ASSUME NEW k \in 1 .. m PROVE g[k] = OnFrom(t, g[k - 1])
      <4>1. CASE k < m
        <5>1. k \in 1 .. m - 1 /\ k \in 0 .. m - 1 /\ k - 1 \in 0 .. m - 1
          BY <2>3, <4>1
        <5>2. f[k] = OnFrom(t, f[k - 1])
          BY <3>2, <5>1 DEF Walks
        <5> QED BY <3>5, <5>1, <5>2
      <4>2. CASE k = m
        <5>1. m - 1 \in 0 .. m - 1 /\ m \in 0 .. m
          BY <2>3, <2>5
        <5>2. g[m - 1] = f[m - 1]
          BY <3>5, <5>1
        <5>3. g[m] = e
          BY <3>4, <5>1
        <5> QED BY <3>3, <4>2, <5>2, <5>3
      <4> QED BY <2>3, <4>1, <4>2
    <3> QED BY <3>5, <3>6, <3>7 DEF Walks
  <2> QED BY <2>4, <2>5
<1> QED BY <1>1

LEMMA WalkIs ==
    ASSUME NEW t, NEW c
    PROVE  /\ Walk(t, c)[0] = c
           /\ \A k \in 1 .. Clusters : Walk(t, c)[k] = OnFrom(t, Walk(t, c)[k - 1])
           /\ DOMAIN Walk(t, c) = 0 .. Clusters
           /\ Walk(t, c) = [k \in 0 .. Clusters |-> Walk(t, c)[k]]
<1> DEFINE eq(g) == g = [k \in 0 .. Clusters |->
                           IF k = 0 THEN c
                           ELSE LET d == g[k - 1] IN IF d = End THEN End ELSE t.next[d]]
           u == CHOOSE g : eq(g)
<1>1. PICK f : Walks(f, Clusters, t, c)
  BY HasWalk, ClustersAre
<1>2. f = [k \in 0 .. Clusters |->
             IF k = 0 THEN c ELSE LET d == f[k - 1] IN IF d = End THEN End ELSE t.next[d]]
  <2>1. f = [k \in 0 .. Clusters |-> f[k]]
    BY <1>1 DEF Walks
  <2>2. ASSUME NEW k \in 0 .. Clusters
        PROVE  f[k] = IF k = 0 THEN c
                      ELSE LET d == f[k - 1] IN IF d = End THEN End ELSE t.next[d]
    <3>1. k = 0 \/ k \in 1 .. Clusters
      BY ClustersAre
    <3> QED BY <1>1, <3>1 DEF Walks, OnFrom
  <2>3. [k \in 0 .. Clusters |-> f[k]]
        = [k \in 0 .. Clusters |->
             IF k = 0 THEN c ELSE LET d == f[k - 1] IN IF d = End THEN End ELSE t.next[d]]
    BY <2>2
  <2> QED BY <2>1, <2>3
<1>3. eq(u)
  BY <1>2
<1>4. Walk(t, c) = u
  BY DEF Walk
<1> HIDE DEF u
<1>5. u = [k \in 0 .. Clusters |->
             IF k = 0 THEN c ELSE LET d == u[k - 1] IN IF d = End THEN End ELSE t.next[d]]
  BY <1>3
<1> HIDE DEF eq
<1>6. u[0] = c /\ DOMAIN u = 0 .. Clusters
  BY <1>5, ClustersAre
<1>7. ASSUME NEW k \in 1 .. Clusters PROVE u[k] = OnFrom(t, u[k - 1])
  <2>1. k \in 0 .. Clusters /\ k # 0
    BY ClustersAre
  <2>2. u[k] = LET d == u[k - 1] IN IF d = End THEN End ELSE t.next[d]
    BY <1>5, <2>1
  <2> QED BY <2>2 DEF OnFrom
<1>8. u = [k \in 0 .. Clusters |-> u[k]]
  BY <1>5
<1> QED BY <1>4, <1>6, <1>7, <1>8

Linked(t) == t.next \in [Fat -> Fat \cup {End}]

\* Links lead down: no walk comes to a cluster twice.
Ranked(t) ==
    \E r \in [Fat -> Nat] : \A c \in Fat : t.next[c] \in Fat => r[t.next[c]] < r[c]

LEMMA WalkType ==
    ASSUME NEW t, Linked(t), NEW c \in Fat \cup {End}, NEW k \in 0 .. Clusters
    PROVE  Walk(t, c)[k] \in Fat \cup {End}
<1> DEFINE bad == {m \in 0 .. Clusters : Walk(t, c)[m] \notin Fat \cup {End}}
<1>1. ASSUME bad # {} PROVE FALSE
  <2>1. bad \in SUBSET Nat
    BY ClustersAre
  <2>2. PICK m \in bad : \A v \in bad : m <= v
    BY <1>1, <2>1, LeastIn
  <2>3. m # 0
    BY <2>2, WalkIs
  <2>4. m \in 1 .. Clusters /\ m - 1 \in 0 .. Clusters /\ ~ (m <= m - 1)
    BY <2>1, <2>3, ClustersAre
  <2>5. Walk(t, c)[m - 1] \in Fat \cup {End}
    BY <2>2, <2>4
  <2>6. Walk(t, c)[m] = OnFrom(t, Walk(t, c)[m - 1])
    BY <2>4, WalkIs
  <2> QED BY <2>2, <2>5, <2>6 DEF OnFrom, Linked
<1> QED BY <1>1

\* Once a walk has ended it stays there.
LEMMA WalkTail ==
    ASSUME NEW t, NEW c, NEW j \in 0 .. Clusters, Walk(t, c)[j] = End,
           NEW k \in j .. Clusters
    PROVE  Walk(t, c)[k] = End
<1> DEFINE bad == {m \in j .. Clusters : Walk(t, c)[m] # End}
<1>1. ASSUME bad # {} PROVE FALSE
  <2>1. bad \in SUBSET Nat
    BY ClustersAre
  <2>2. PICK m \in bad : \A v \in bad : m <= v
    BY <1>1, <2>1, LeastIn
  <2>3. m # j
    OBVIOUS
  <2>4. m \in 1 .. Clusters /\ m - 1 \in j .. Clusters /\ ~ (m <= m - 1)
    BY <2>1, <2>3, ClustersAre
  <2>5. Walk(t, c)[m - 1] = End
    BY <2>2, <2>4
  <2>6. Walk(t, c)[m] = OnFrom(t, Walk(t, c)[m - 1])
    BY <2>4, WalkIs
  <2> QED BY <2>2, <2>5, <2>6 DEF OnFrom
<1> QED BY <1>1

LEMMA WalkStays ==
    ASSUME NEW t, Linked(t), NEW c \in Fat \cup {End}, NEW k \in 0 .. Clusters,
           Walk(t, c)[k] # End, NEW j \in 0 .. k
    PROVE  Walk(t, c)[j] \in Fat
<1>1. j \in 0 .. Clusters /\ k \in j .. Clusters
  BY ClustersAre
<1> QED BY <1>1, WalkTail, WalkType

LEMMA WalkDown ==
    ASSUME NEW t, Linked(t), NEW c \in Fat \cup {End},
           NEW r \in [Fat -> Nat], \A d \in Fat : t.next[d] \in Fat => r[t.next[d]] < r[d],
           NEW k \in 0 .. Clusters, Walk(t, c)[k] # End, NEW j \in 0 .. k, j # k
    PROVE  r[Walk(t, c)[k]] < r[Walk(t, c)[j]]
<1> DEFINE w == Walk(t, c)
           bad == {m \in j + 1 .. k : ~ (r[w[m]] < r[w[j]])}
<1>1. ASSUME bad # {} PROVE FALSE
  <2>1. bad \in SUBSET Nat
    OBVIOUS
  <2>2. PICK m \in bad : \A v \in bad : m <= v
    BY <1>1, <2>1, LeastIn
  <2>3. m \in 1 .. Clusters /\ m - 1 \in j .. k /\ m - 1 \in 0 .. k /\ m \in 0 .. k
    BY <2>1, ClustersAre
  <2>4. w[m] \in Fat /\ w[m - 1] \in Fat /\ w[j] \in Fat
    BY <2>3, WalkStays
  <2>5. w[m] = t.next[w[m - 1]]
    <3>1. w[m] = OnFrom(t, w[m - 1])
      BY <2>3, WalkIs
    <3>2. w[m - 1] # End
      BY <2>4, ClustersAre
    <3> QED BY <3>1, <3>2 DEF OnFrom
  <2>6. r[w[m]] < r[w[m - 1]]
    BY <2>4, <2>5
  <2>7. CASE m - 1 = j
    BY <2>2, <2>6, <2>7
  <2>8. CASE m - 1 # j
    <3>1. m - 1 \in j + 1 .. k /\ ~ (m <= m - 1)
      BY <2>1, <2>3, <2>8
    <3>2. r[w[m - 1]] < r[w[j]]
      BY <2>2, <3>1
    <3>3. r[w[m]] \in Nat /\ r[w[m - 1]] \in Nat /\ r[w[j]] \in Nat
      BY <2>4
    <3>4. r[w[m]] < r[w[j]]
      BY <2>6, <3>2, <3>3
    <3> QED BY <2>2, <3>4
  <2> QED BY <2>7, <2>8
<1>2. k \in j + 1 .. k
  OBVIOUS
<1>3. k \notin bad
  BY <1>1
<1> QED BY <1>2, <1>3

LEMMA WalkDistinct ==
    ASSUME NEW t, Linked(t), Ranked(t), NEW c \in Fat \cup {End},
           NEW k \in 0 .. Clusters, Walk(t, c)[k] # End,
           NEW j \in 0 .. Clusters, Walk(t, c)[k] = Walk(t, c)[j]
    PROVE  j = k
<1>1. PICK r \in [Fat -> Nat] : \A d \in Fat : t.next[d] \in Fat => r[t.next[d]] < r[d]
  BY DEF Ranked
<1> DEFINE w == Walk(t, c)
<1>2. w[k] \in Fat
  BY WalkType
<1>3. r[w[k]] \in Nat /\ w[j] # End /\ j \in Nat /\ k \in Nat
  <2>1. r[w[k]] \in Nat
    BY <1>1, <1>2
  <2>2. w[j] # End
    BY <1>2, ClustersAre
  <2> QED BY <2>1, <2>2
<1>4. CASE j < k
  <2>1. j \in 0 .. k /\ j # k
    BY <1>3, <1>4
  <2>2. r[w[k]] < r[w[j]]
    BY <1>1, <2>1, WalkDown
  <2> QED BY <1>3, <2>2
<1>5. CASE k < j
  <2>1. k \in 0 .. j /\ j # k
    BY <1>3, <1>5
  <2>2. r[w[j]] < r[w[k]]
    BY <1>1, <1>3, <2>1, WalkDown
  <2> QED BY <1>3, <2>2
<1> QED BY <1>3, <1>4, <1>5

\* A walk of as many links as there are clusters has ended.
LEMMA Ends ==
    ASSUME NEW t, Linked(t), Ranked(t), NEW c \in Fat \cup {End}
    PROVE  ~Loops(t, c)
<1> DEFINE w == Walk(t, c)
<1>1. ASSUME w[Clusters] # End PROVE FALSE
  <2>1. Clusters \in 0 .. Clusters
    BY ClustersAre
  <2>2. \A j \in 0 .. Clusters : w[j] \in Fat
    BY <1>1, <2>1, WalkStays
  <2>3. w \in [0 .. Clusters -> Fat]
    BY <2>2, WalkIs
  <2>4. IsFiniteSet(0 .. Clusters) /\ Cardinality(0 .. Clusters) = Clusters + 1
    BY ClustersAre, FS_Interval
  <2>5. IsFiniteSet(Fat) /\ Cardinality(Fat) = Clusters
    BY ClustersAre, FS_Interval DEF Fat
  <2>6. Cardinality(Fat) < Cardinality(0 .. Clusters)
    BY <2>4, <2>5, ClustersAre
  <2>7. PICK j, k \in 0 .. Clusters : j # k /\ w[j] = w[k]
    BY <2>3, <2>4, <2>5, <2>6, FS_PigeonHole, ZenonT(40)
  <2>8. w[k] # End
    BY <2>2, ClustersAre
  <2> QED BY <2>7, <2>8, WalkDistinct
<1> QED BY <1>1 DEF Loops

-----------------------------------------------------------------------------
(***************************************************************************)
(* The table's steps keep its links leading down.                          *)
(***************************************************************************)
Shaped(t) == t = [next |-> t.next, used |-> t.used, hint |-> t.hint]

Sane(t) == Shaped(t) /\ Linked(t) /\ Ranked(t)

Altered(n, c, d) == [n EXCEPT ![c] = d]

LEMMA SetEofIs ==
    ASSUME NEW t, Shaped(t), NEW c, NEW u, u = SetEof(t, c)
    PROVE  /\ Shaped(u) /\ u.next = Altered(t.next, c, End)
           /\ u.used = t.used \cup {c} /\ u.hint = t.hint
<1>1. PICK n, s, h : t = [next |-> n, used |-> s, hint |-> h]
  BY DEF Shaped
<1>2. PICK m, a : m = [n EXCEPT ![c] = End] /\ a = s \cup {c}
  OBVIOUS
<1>3. t.next = n /\ t.used = s /\ t.hint = h
  BY <1>1
<1>4. u = [t EXCEPT !.next = m, !.used = a]
  BY <1>2, <1>3 DEF SetEof
<1>5. u = [next |-> m, used |-> a, hint |-> h]
  BY <1>1, <1>4
<1> QED BY <1>2, <1>3, <1>5 DEF Shaped, Altered

LEMMA SetLinkIs ==
    ASSUME NEW t, Shaped(t), NEW c, NEW d, NEW u, u = SetLink(t, c, d)
    PROVE  /\ Shaped(u) /\ u.next = Altered(t.next, c, d)
           /\ u.used = t.used \cup {c} /\ u.hint = t.hint
<1>1. PICK n, s, h : t = [next |-> n, used |-> s, hint |-> h]
  BY DEF Shaped
<1>2. PICK m, a : m = [n EXCEPT ![c] = d] /\ a = s \cup {c}
  OBVIOUS
<1>3. t.next = n /\ t.used = s /\ t.hint = h
  BY <1>1
<1>4. u = [t EXCEPT !.next = m, !.used = a]
  BY <1>2, <1>3 DEF SetLink
<1>5. u = [next |-> m, used |-> a, hint |-> h]
  BY <1>1, <1>4
<1> QED BY <1>2, <1>3, <1>5 DEF Shaped, Altered

LEMMA SetFreeIs ==
    ASSUME NEW t, NEW cs, NEW u, u = SetFree(t, cs)
    PROVE  /\ Shaped(u) /\ u.next = [c \in Fat |-> IF c \in cs THEN End ELSE t.next[c]]
           /\ u.used = t.used \ cs /\ u.hint = Lower(t, cs)
BY DEF SetFree, Shaped

LEMMA ResetIs ==
    ASSUME NEW t, Shaped(t), NEW cs, NEW u, u = Reset(t, cs)
    PROVE  /\ Shaped(u) /\ u.next = t.next
           /\ u.used = t.used \ cs /\ u.hint = Lower(t, cs)
<1>1. PICK n, s, h : t = [next |-> n, used |-> s, hint |-> h]
  BY DEF Shaped
<1>2. PICK l : l = Lower(t, cs)
  OBVIOUS
<1>3. u = [next |-> n, used |-> s \ cs, hint |-> l]
  BY <1>1, <1>2 DEF Reset
<1> QED BY <1>1, <1>2, <1>3 DEF Shaped

LEMMA TakenIs ==
    ASSUME NEW t, Shaped(t), NEW u, u = Taken(t)
    PROVE  /\ Shaped(u) /\ u.next = t.next
           /\ u.used = t.used /\ u.hint = FirstAllocatable + Found(t)
<1>1. PICK n, s, h : t = [next |-> n, used |-> s, hint |-> h]
  BY DEF Shaped
<1>2. PICK l : l = FirstAllocatable + Found(t)
  OBVIOUS
<1>3. u = [next |-> n, used |-> s, hint |-> l]
  BY <1>1, <1>2 DEF Taken
<1> QED BY <1>1, <1>2, <1>3 DEF Shaped

\* Cutting links.
LEMMA CutSane ==
    ASSUME NEW t, Sane(t), NEW u, Shaped(u), Linked(u),
           \A c \in Fat : u.next[c] \in {t.next[c], End}
    PROVE  Sane(u)
<1>1. PICK r \in [Fat -> Nat] : \A c \in Fat : t.next[c] \in Fat => r[t.next[c]] < r[c]
  BY DEF Sane, Ranked
<1>2. \A c \in Fat : u.next[c] \in Fat => r[u.next[c]] < r[c]
  BY <1>1, ClustersAre
<1> QED BY <1>2 DEF Sane, Ranked

\* Linking clusters to one whose own link is cut.
LEMMA LinkSane ==
    ASSUME NEW t, Sane(t), NEW u, Shaped(u), Linked(u), NEW f \in Fat, u.next[f] = End,
           \A c \in Fat : u.next[c] \in {t.next[c], f, End}
    PROVE  Sane(u)
<1>1. PICK r \in [Fat -> Nat] : \A c \in Fat : t.next[c] \in Fat => r[t.next[c]] < r[c]
  BY DEF Sane, Ranked
<1>2. PICK s : s = [c \in Fat |-> IF c = f THEN 0 ELSE r[c] + 1]
  OBVIOUS
<1>3. \A c \in Fat : s[c] = IF c = f THEN 0 ELSE r[c] + 1
  BY <1>2
<1>4. s \in [Fat -> Nat]
  BY <1>1, <1>2
<1>5. ASSUME NEW c \in Fat, u.next[c] \in Fat PROVE s[u.next[c]] < s[c]
  <2>1. c # f
    BY <1>5, ClustersAre
  <2>2. s[c] = r[c] + 1 /\ r[c] \in Nat
    BY <1>1, <1>3, <2>1
  <2>3. CASE u.next[c] = f
    BY <1>3, <2>2, <2>3
  <2>4. CASE u.next[c] # f
    <3>1. u.next[c] = t.next[c] /\ t.next[c] \in Fat
      BY <1>5, <2>4, ClustersAre
    <3>2. r[t.next[c]] < r[c] /\ r[t.next[c]] \in Nat
      BY <1>1, <3>1
    <3>3. s[u.next[c]] = r[t.next[c]] + 1
      BY <1>3, <1>5, <2>4, <3>1
    <3> QED BY <2>2, <3>2, <3>3
  <2> QED BY <2>3, <2>4
<1> QED BY <1>4, <1>5 DEF Sane, Ranked

LEMMA SetEofSane ==
    ASSUME NEW t, Sane(t), NEW c PROVE Sane(SetEof(t, c))
<1>1. PICK u : u = SetEof(t, c)
  OBVIOUS
<1>2. Shaped(u) /\ u.next = Altered(t.next, c, End)
  BY <1>1, SetEofIs DEF Sane
<1>3. Linked(u) /\ \A d \in Fat : u.next[d] \in {t.next[d], End}
  BY <1>2 DEF Sane, Linked, Altered
<1> QED BY <1>1, <1>2, <1>3, CutSane

LEMMA SetFreeSane ==
    ASSUME NEW t, Sane(t), NEW cs PROVE Sane(SetFree(t, cs))
<1>1. PICK u : u = SetFree(t, cs)
  OBVIOUS
<1>2. Shaped(u) /\ u.next = [c \in Fat |-> IF c \in cs THEN End ELSE t.next[c]]
  BY <1>1, SetFreeIs
<1>3. Linked(u) /\ \A d \in Fat : u.next[d] \in {t.next[d], End}
  BY <1>2 DEF Sane, Linked
<1> QED BY <1>1, <1>2, <1>3, CutSane

LEMMA ResetSane ==
    ASSUME NEW t, Sane(t), NEW cs PROVE Sane(Reset(t, cs))
<1>1. PICK u : u = Reset(t, cs)
  OBVIOUS
<1>2. Shaped(u) /\ u.next = t.next
  BY <1>1, ResetIs DEF Sane
<1> QED BY <1>1, <1>2, CutSane DEF Sane, Linked

LEMMA TakenSane ==
    ASSUME NEW t, Sane(t) PROVE Sane(Taken(t))
<1>1. PICK u : u = Taken(t)
  OBVIOUS
<1>2. Shaped(u) /\ u.next = t.next
  BY <1>1, TakenIs DEF Sane
<1> QED BY <1>1, <1>2, CutSane DEF Sane, Linked

\* A cluster that is taken, linked behind another and ended.
Appended(t, l) == SetEof(SetLink(Taken(t), l, Found(t)), Found(t))

LEMMA FoundIs ==
    ASSUME NEW t, FreeFrom(t) # {}
    PROVE  /\ Found(t) \in Fat /\ Found(t) \in FreeFrom(t) /\ Found(t) \notin t.used
           /\ t.hint <= FirstAllocatable + Found(t)
           /\ \A c \in FreeFrom(t) : Found(t) <= c
<1>1. FreeFrom(t) \in SUBSET Nat
  BY ClustersAre DEF FreeFrom
<1>2. \E w \in FreeFrom(t) : \A v \in FreeFrom(t) : w <= v
  BY <1>1, LeastIn
<1>3. Found(t) \in FreeFrom(t) /\ \A c \in FreeFrom(t) : Found(t) <= c
  BY <1>2 DEF Found
<1> QED BY <1>3 DEF FreeFrom

LEMMA AppendedIs ==
    ASSUME NEW t, Shaped(t), NEW l, NEW u, u = Appended(t, l)
    PROVE  /\ Shaped(u)
           /\ u.next = Altered(Altered(t.next, l, Found(t)), Found(t), End)
           /\ u.used = t.used \cup {l, Found(t)}
           /\ u.hint = FirstAllocatable + Found(t)
<1>1. PICK f : f = Found(t)
  OBVIOUS
<1>2. PICK a : a = Taken(t)
  OBVIOUS
<1>3. PICK b : b = SetLink(a, l, f)
  OBVIOUS
<1>4. u = SetEof(b, f)
  BY <1>1, <1>2, <1>3 DEF Appended
<1>5. Shaped(a) /\ a.next = t.next /\ a.used = t.used /\ a.hint = FirstAllocatable + f
  BY <1>1, <1>2, TakenIs
<1>6. /\ Shaped(b) /\ b.next = Altered(a.next, l, f)
      /\ b.used = a.used \cup {l} /\ b.hint = a.hint
  BY <1>3, <1>5, SetLinkIs
<1>7. /\ Shaped(u) /\ u.next = Altered(b.next, f, End)
      /\ u.used = b.used \cup {f} /\ u.hint = b.hint
  BY <1>4, <1>6, SetEofIs
<1> QED BY <1>1, <1>5, <1>6, <1>7

LEMMA AppendedSane ==
    ASSUME NEW t, Sane(t), FreeFrom(t) # {}, NEW l PROVE Sane(Appended(t, l))
<1>1. PICK u : u = Appended(t, l)
  OBVIOUS
<1>2. PICK f \in Fat : f = Found(t)
  BY FoundIs
<1>3. Shaped(u) /\ u.next = Altered(Altered(t.next, l, f), f, End)
  BY <1>1, <1>2, AppendedIs DEF Sane
<1>4. Linked(u) /\ u.next[f] = End /\ \A c \in Fat : u.next[c] \in {t.next[c], f, End}
  BY <1>3 DEF Sane, Linked, Altered
<1> QED BY <1>1, <1>3, <1>4, LinkSane

-----------------------------------------------------------------------------
(***************************************************************************)
(* What holds of the table whatever goes wrong: links lead down and never  *)
(* to the root directory's first cluster, which stays allocated; and the   *)
(* search for a free cluster begins below every one.                       *)
(***************************************************************************)
HintLow(t) == \A c \in Fat : c \notin t.used => t.hint <= FirstAllocatable + c

TableOK(t) ==
    /\ Sane(t)
    /\ t.used \in SUBSET Fat
    /\ t.hint \in 0 .. FirstAllocatable + Clusters
    /\ Root \in t.used
    /\ \A c \in Fat : t.next[c] # Root
    /\ HintLow(t)

Somewhere == (Fat \ {Root}) \cup {End}

LEMMA LowerIs ==
    ASSUME NEW t, t.hint \in 0 .. FirstAllocatable + Clusters,
           NEW cs \in SUBSET Fat, NEW l, l = Lower(t, cs)
    PROVE  /\ l \in 0 .. FirstAllocatable + Clusters /\ l <= t.hint
           /\ \A c \in cs : l <= c
<1>1. PICK low : low = {c \in cs : c < t.hint}
  OBVIOUS
<1>2. l = IF low = {} THEN t.hint ELSE CHOOSE c \in low : \A d \in low : c <= d
  BY <1>1 DEF Lower
<1>3. low \in SUBSET Nat /\ t.hint \in Nat /\ \A c \in Fat : c \in Nat
  <2>1. Fat \in SUBSET Nat
    BY ClustersAre
  <2>2. t.hint \in Nat
    BY ClustersAre
  <2> QED BY <1>1, <2>1, <2>2
<1>4. CASE low = {}
  <2>1. l = t.hint
    BY <1>2, <1>4
  <2>2. ASSUME NEW c \in cs PROVE l <= c
    <3>1. c \notin low
      BY <1>4
    <3>2. ~ (c < t.hint) /\ c \in Nat
      BY <3>1, <1>1, <1>3
    <3> QED BY <2>1, <3>2, <1>3
  <2> QED BY <2>1, <2>2, <1>3
<1>5. CASE low # {}
  <2>1. \E c \in low : \A d \in low : c <= d
    BY <1>3, <1>5, LeastIn
  <2>2. l \in low /\ \A d \in low : l <= d
    BY <1>2, <1>5, <2>1
  <2>3. l \in cs /\ l < t.hint
    BY <1>1, <2>2
  <2>4. l \in Nat
    BY <1>3, <2>3
  <2>5. ASSUME NEW c \in cs PROVE l <= c
    <3>1. c \in Nat
      BY <1>3
    <3>2. CASE c \in low
      BY <2>2, <3>2
    <3>3. CASE c \notin low
      <4>1. ~ (c < t.hint)
        BY <1>1, <3>3
      <4> QED BY <1>3, <2>3, <2>4, <3>1, <4>1
    <3> QED BY <3>2, <3>3
  <2>6. l <= t.hint /\ l <= FirstAllocatable + Clusters
    BY <2>3, <2>4, <1>3, ClustersAre
  <2> QED BY <2>4, <2>5, <2>6, ClustersAre
<1> QED BY <1>4, <1>5

LEMMA LowerHint ==
    ASSUME NEW t, t.hint \in 0 .. FirstAllocatable + Clusters, HintLow(t),
           NEW cs \in SUBSET Fat, NEW u, u.used = t.used \ cs, u.hint = Lower(t, cs)
    PROVE  HintLow(u)
<1>1. PICK l : l = Lower(t, cs)
  OBVIOUS
<1>2. l \in Nat /\ l <= t.hint /\ \A c \in cs : l <= c
  BY <1>1, LowerIs, ClustersAre
<1>3. ASSUME NEW c \in Fat, c \notin u.used PROVE l <= FirstAllocatable + c
  <2>1. c \in Nat /\ t.hint \in Nat
    BY ClustersAre
  <2>2. CASE c \in cs
    BY <1>2, <2>1, <2>2, ClustersAre
  <2>3. CASE c \notin cs
    <3>1. t.hint <= FirstAllocatable + c
      BY <1>3, <2>3 DEF HintLow
    <3> QED BY <1>2, <2>1, <3>1, ClustersAre
  <2> QED BY <2>2, <2>3
<1> QED BY <1>1, <1>3 DEF HintLow

\* No free cluster lies below the one that is found.
LEMMA FoundHint ==
    ASSUME setup \in Setups, NEW t, HintLow(t), FreeFrom(t) # {},
           NEW c \in Fat, c \notin t.used
    PROVE  FirstAllocatable + Found(t) <= FirstAllocatable + c
<1>1. PICK f : f = Found(t)
  OBVIOUS
<1>2. f \in Fat /\ f \in FreeFrom(t) /\ \A d \in FreeFrom(t) : f <= d
  BY <1>1, FoundIs
<1>3. c \in Nat /\ f \in Nat /\ FirstAllocatable \in Nat
  BY <1>2, ClustersAre
<1>4. FirstAllocatable + f < setup.last /\ setup.last \in Nat
  BY <1>2, VmcAssumption DEF FreeFrom
<1>5. ASSUME c < f PROVE FALSE
  <2>1. FirstAllocatable + c < setup.last
    BY <1>3, <1>4, <1>5
  <2>2. c \in FreeFrom(t)
    BY <2>1 DEF FreeFrom, HintLow
  <2>3. f <= c
    BY <1>2, <2>2
  <2> QED BY <1>3, <1>5, <2>3
<1> QED BY <1>1, <1>3, <1>5

LEMMA SetEofOK ==
    ASSUME NEW t, TableOK(t), NEW c \in Fat PROVE TableOK(SetEof(t, c))
<1>1. PICK u : u = SetEof(t, c)
  OBVIOUS
<1>2. /\ Shaped(u) /\ u.next = Altered(t.next, c, End)
      /\ u.used = t.used \cup {c} /\ u.hint = t.hint
  BY <1>1, SetEofIs DEF TableOK, Sane
<1>3. Sane(u)
  BY <1>1, SetEofSane DEF TableOK
<1>4. \A d \in Fat : u.next[d] # Root
  BY <1>2, ClustersAre DEF TableOK, Sane, Linked, Altered
<1>5. HintLow(u)
  BY <1>2 DEF TableOK, HintLow
<1> QED BY <1>1, <1>2, <1>3, <1>4, <1>5 DEF TableOK

LEMMA SetFreeOK ==
    ASSUME NEW t, TableOK(t), NEW cs \in SUBSET Fat, Root \notin cs
    PROVE  TableOK(SetFree(t, cs))
<1>1. PICK u : u = SetFree(t, cs)
  OBVIOUS
<1>2. /\ Shaped(u) /\ u.next = [c \in Fat |-> IF c \in cs THEN End ELSE t.next[c]]
      /\ u.used = t.used \ cs /\ u.hint = Lower(t, cs)
  BY <1>1, SetFreeIs
<1>3. Sane(u)
  BY <1>1, SetFreeSane DEF TableOK
<1>4. \A d \in Fat : u.next[d] # Root
  BY <1>2, ClustersAre DEF TableOK
<1>5. u.hint \in 0 .. FirstAllocatable + Clusters
  BY <1>2, LowerIs DEF TableOK
<1>6. HintLow(u)
  BY <1>2, LowerHint DEF TableOK
<1> QED BY <1>1, <1>2, <1>3, <1>4, <1>5, <1>6 DEF TableOK

LEMMA ResetOK ==
    ASSUME NEW t, TableOK(t), NEW cs \in SUBSET Fat, Root \notin cs
    PROVE  TableOK(Reset(t, cs))
<1>1. PICK u : u = Reset(t, cs)
  OBVIOUS
<1>2. Shaped(u) /\ u.next = t.next /\ u.used = t.used \ cs /\ u.hint = Lower(t, cs)
  BY <1>1, ResetIs DEF TableOK, Sane
<1>3. Sane(u)
  BY <1>1, ResetSane DEF TableOK
<1>5. u.hint \in 0 .. FirstAllocatable + Clusters
  BY <1>2, LowerIs DEF TableOK
<1>6. HintLow(u)
  BY <1>2, LowerHint DEF TableOK
<1> QED BY <1>1, <1>2, <1>3, <1>5, <1>6 DEF TableOK

LEMMA TakenOK ==
    ASSUME setup \in Setups, NEW t, TableOK(t), FreeFrom(t) # {} PROVE TableOK(Taken(t))
<1>1. PICK u : u = Taken(t)
  OBVIOUS
<1>2. /\ Shaped(u) /\ u.next = t.next /\ u.used = t.used
      /\ u.hint = FirstAllocatable + Found(t)
  BY <1>1, TakenIs DEF TableOK, Sane
<1>3. Sane(u)
  BY <1>1, TakenSane DEF TableOK
<1>4. Found(t) \in 0 .. Clusters - 1
  BY FoundIs DEF Fat
<1>5. u.hint \in 0 .. FirstAllocatable + Clusters
  BY <1>2, <1>4, ClustersAre
<1>6. HintLow(u)
  BY <1>2, FoundHint DEF TableOK, HintLow
<1> QED BY <1>1, <1>2, <1>3, <1>5, <1>6 DEF TableOK

LEMMA AppendedOK ==
    ASSUME setup \in Setups, NEW t, TableOK(t), FreeFrom(t) # {}, NEW l \in Fat
    PROVE  TableOK(Appended(t, l))
<1>1. PICK u : u = Appended(t, l)
  OBVIOUS
<1>2. PICK f \in Fat : f = Found(t)
  BY FoundIs
<1>3. /\ Shaped(u) /\ u.next = Altered(Altered(t.next, l, f), f, End)
      /\ u.used = t.used \cup {l, f} /\ u.hint = FirstAllocatable + f
  BY <1>1, <1>2, AppendedIs DEF TableOK, Sane
<1>4. Sane(u)
  BY <1>1, AppendedSane DEF TableOK
<1>5. f # Root
  BY <1>2, FoundIs DEF TableOK
<1>6. \A d \in Fat : u.next[d] # Root
  BY <1>3, <1>5, ClustersAre DEF TableOK, Sane, Linked, Altered
<1>7. u.hint \in 0 .. FirstAllocatable + Clusters
  <2>1. f \in 0 .. Clusters - 1
    BY DEF Fat
  <2> QED BY <1>3, <2>1, ClustersAre
<1>8. HintLow(u)
  BY <1>2, <1>3, FoundHint DEF TableOK, HintLow
<1> QED BY <1>1, <1>3, <1>4, <1>6, <1>7, <1>8 DEF TableOK

\* The walk from a cluster that is not the root's does not come there.
LEMMA ReachedIs ==
    ASSUME NEW t, TableOK(t), NEW c \in Somewhere
    PROVE  /\ Reached(t, c) \in SUBSET (Fat \ {Root})
           /\ \A k \in 0 .. Clusters : Walk(t, c)[k] \in Somewhere
<1> DEFINE w == Walk(t, c)
           bad == {m \in 0 .. Clusters : w[m] = Root}
<1>1. ASSUME bad # {} PROVE FALSE
  <2>1. bad \in SUBSET Nat
    BY ClustersAre
  <2>2. PICK m \in bad : \A v \in bad : m <= v
    BY <1>1, <2>1, LeastIn
  <2>3. m # 0
    BY <2>2, WalkIs, ClustersAre DEF Somewhere
  <2>4. m \in 1 .. Clusters /\ m - 1 \in 0 .. Clusters
    BY <2>1, <2>3, ClustersAre
  <2>5. w[m - 1] \in Fat \cup {End}
    BY <2>4, WalkType DEF Somewhere, TableOK, Sane
  <2>6. w[m] = OnFrom(t, w[m - 1])
    BY <2>4, WalkIs
  <2> QED BY <2>2, <2>5, <2>6, ClustersAre DEF OnFrom, TableOK
<1>2. ASSUME NEW k \in 0 .. Clusters PROVE w[k] \in Somewhere
  <2>1. w[k] \in Fat \cup {End}
    BY WalkType DEF Somewhere, TableOK, Sane
  <2>2. w[k] # Root
    BY <1>1
  <2> QED BY <2>1, <2>2 DEF Somewhere
<1> QED BY <1>2 DEF Reached, Somewhere

\* The walk from a cluster stops at one that has no link.
LEMMA LastIs ==
    ASSUME NEW t, TableOK(t), NEW c \in Fat
    PROVE  /\ LastOf(t, c) \in Reached(t, c) /\ t.next[LastOf(t, c)] = End
           /\ LastOf(t, c) \in Fat
<1> DEFINE w == Walk(t, c)
           ends == {m \in 0 .. Clusters : w[m] = End}
<1>1. ends \in SUBSET Nat /\ Clusters \in ends
  <2>1. ~Loops(t, c)
    BY Ends DEF TableOK, Sane
  <2> QED BY <2>1, ClustersAre DEF Loops
<1>2. PICK m \in ends : \A v \in ends : m <= v
  BY <1>1, LeastIn
<1>3. m # 0
  BY <1>2, WalkIs, ClustersAre
<1>4. m \in 1 .. Clusters /\ m - 1 \in 0 .. Clusters /\ ~ (m <= m - 1)
  BY <1>1, <1>3, ClustersAre
<1>5. w[m - 1] # End
  BY <1>2, <1>4
<1>6. w[m - 1] \in Reached(t, c)
  BY <1>4, <1>5 DEF Reached
<1>7. w[m - 1] \in Fat
  BY <1>4, <1>5, WalkType DEF TableOK, Sane
<1>8. t.next[w[m - 1]] = End
  BY <1>2, <1>4, <1>5, WalkIs DEF OnFrom
<1>9. LastOf(t, c) \in Reached(t, c) /\ t.next[LastOf(t, c)] = End
  BY <1>6, <1>8 DEF LastOf
<1>10. Reached(t, c) \subseteq Fat
  BY WalkType DEF Reached, TableOK, Sane
<1> QED BY <1>9, <1>10

LEMMA RemovedOK ==
    ASSUME NEW t, TableOK(t), NEW c \in Fat \ {Root} PROVE TableOK(Removed(t, c))
<1>1. PICK last : last = LastOf(t, c)
  OBVIOUS
<1>2. PICK cs : cs = Reached(t, c) \ {last}
  OBVIOUS
<1>3. Reached(t, c) \in SUBSET (Fat \ {Root})
  BY ReachedIs DEF Somewhere
<1>4. last \in Fat \ {Root}
  BY <1>1, <1>3, LastIs
<1>5. PICK rest : rest = Reset(t, cs)
  OBVIOUS
<1>6. cs \in SUBSET Fat /\ Root \notin cs
  BY <1>2, <1>3
<1>7. TableOK(rest)
  BY <1>5, <1>6, ResetOK
<1>8. TableOK(SetFree(rest, {last}))
  <2>1. {last} \in SUBSET Fat /\ Root \notin {last}
    BY <1>4
  <2> QED BY <1>7, <2>1, SetFreeOK
<1>9. Removed(t, c) = IF last \in t.used THEN SetFree(rest, {last}) ELSE rest
  BY <1>1, <1>2, <1>5 DEF Removed
<1> QED BY <1>7, <1>8, <1>9

LEMMA TruncatedOK ==
    ASSUME NEW t, TableOK(t), NEW e, e.cluster \in Fat \ {Root}
    PROVE  TableOK(Truncated(t, e).t)
<1>1. PICK c \in Fat \ {Root} : c = e.cluster
  OBVIOUS
<1>2. PICK cs : cs = {d \in Reached(t, c) \ {c} : d \in t.used \/ t.next[d] # End}
  OBVIOUS
<1>3. Reached(t, c) \in SUBSET (Fat \ {Root})
  BY ReachedIs DEF Somewhere
<1>4. cs \in SUBSET Fat /\ Root \notin cs
  BY <1>2, <1>3
<1>5. PICK a : a = SetEof(t, c)
  OBVIOUS
<1>6. PICK u : u = SetFree(a, cs)
  OBVIOUS
<1>7. TableOK(u)
  <2>1. TableOK(a)
    BY <1>5, SetEofOK
  <2> QED BY <1>4, <1>6, <2>1, SetFreeOK
<1>8. PICK b : b = SetFree(t, {c})
  OBVIOUS
<1>9. TableOK(b)
  <2>1. {c} \in SUBSET Fat /\ Root \notin {c}
    OBVIOUS
  <2> QED BY <1>8, <2>1, SetFreeOK
<1>10. CASE t.next[c] = End
  <2>1. Truncated(t, e).t = IF c \in t.used THEN b ELSE t
    BY <1>1, <1>8, <1>10 DEF Truncated
  <2> QED BY <1>9, <2>1
<1>11. CASE t.next[c] # End
  <2>1. Truncated(t, e).t = u
    BY <1>1, <1>2, <1>5, <1>6, <1>11 DEF Truncated
  <2> QED BY <1>7, <2>1
<1> QED BY <1>10, <1>11

-----------------------------------------------------------------------------
(***************************************************************************)
(* Clusters taken one behind the other.                                    *)
(***************************************************************************)
Further(w, n) ==
    IF w.got < n - 1 \/ FreeFrom(w.t) = {} THEN w
    ELSE [t |-> Appended(w.t, w.last), last |-> Found(w.t), got |-> n]

Started(t, last) == [t |-> t, last |-> last, got |-> 0]

Takes(f, k, t, last) ==
    /\ f = [n \in 0 .. k |-> f[n]]
    /\ f[0] = Started(t, last) /\ \A n \in 1 .. k : f[n] = Further(f[n - 1], n)

LEMMA HasTakes ==
    ASSUME NEW t, NEW l, NEW n \in Nat
    PROVE  \E f : Takes(f, n, t, l)
<1> DEFINE bad == {m \in 0 .. n : ~ \E f : Takes(f, m, t, l)}
<1>1. ASSUME bad # {} PROVE FALSE
  <2>1. bad \in SUBSET Nat
    OBVIOUS
  <2>2. PICK m \in bad : \A v \in bad : m <= v
    BY <1>1, <2>1, LeastIn
  <2>3. m \in 0 .. n
    OBVIOUS
  <2>4. CASE m = 0
    <3>1. PICK f : f = [i \in 0 .. 0 |-> Started(t, l)]
      OBVIOUS
    <3>2. Takes(f, m, t, l)
      BY <2>4, <3>1 DEF Takes
    <3> QED BY <3>2
  <2>5. CASE m # 0
    <3>1. m - 1 \in 0 .. n /\ m - 1 \notin bad
      BY <2>2, <2>3, <2>5
    <3>2. PICK f : Takes(f, m - 1, t, l)
      BY <3>1
    <3>3. PICK e : e = Further(f[m - 1], m)
      OBVIOUS
    <3>4. PICK g : g = [i \in 0 .. m |-> IF i < m THEN f[i] ELSE e]
      OBVIOUS
    <3>5. g = [i \in 0 .. m |-> g[i]] /\ \A i \in 0 .. m - 1 : g[i] = f[i]
      BY <2>3, <3>4
    <3>6. g[0] = Started(t, l)
      BY <2>3, <2>5, <3>2, <3>5 DEF Takes
    <3>7. ASSUME NEW k \in 1 .. m PROVE g[k] = Further(g[k - 1], k)
      <4>1. CASE k < m
        <5>1. k \in 1 .. m - 1 /\ k \in 0 .. m - 1 /\ k - 1 \in 0 .. m - 1
          BY <2>3, <4>1
        <5>2. f[k] = Further(f[k - 1], k)
          BY <3>2, <5>1 DEF Takes
        <5> QED BY <3>5, <5>1, <5>2
      <4>2. CASE k = m
        <5>1. m - 1 \in 0 .. m - 1 /\ m \in 0 .. m
          BY <2>3, <2>5
        <5>2. g[m - 1] = f[m - 1]
          BY <3>5, <5>1
        <5>3. g[m] = e
          BY <3>4, <5>1
        <5> QED BY <3>3, <4>2, <5>2, <5>3
      <4> QED BY <2>3, <4>1, <4>2
    <3> QED BY <3>5, <3>6, <3>7 DEF Takes
  <2> QED BY <2>4, <2>5
<1> QED BY <1>1

LEMMA ExtendIs ==
    ASSUME NEW t, NEW last, NEW k \in Nat
    PROVE  \E f : Takes(f, k, t, last) /\ Extend(t, last, k) = f[k]
<1> DEFINE eq(g) == g = [n \in 0 .. k |->
            IF n = 0 THEN [t |-> t, last |-> last, got |-> 0]
            ELSE LET w == g[n - 1]
                 IN  IF w.got < n - 1 \/ FreeFrom(w.t) = {} THEN w
                     ELSE [t |-> SetEof(SetLink(Taken(w.t), w.last, Found(w.t)),
                                        Found(w.t)),
                           last |-> Found(w.t),
                           got |-> n]]
           u == CHOOSE g : eq(g)
<1>1. PICK f : Takes(f, k, t, last)
  BY HasTakes
<1>2. eq(f)
  <2>1. f = [n \in 0 .. k |-> f[n]]
    BY <1>1 DEF Takes
  <2>2. ASSUME NEW n \in 0 .. k
        PROVE  f[n] = IF n = 0 THEN [t |-> t, last |-> last, got |-> 0]
            ELSE LET w == f[n - 1]
                 IN  IF w.got < n - 1 \/ FreeFrom(w.t) = {} THEN w
                     ELSE [t |-> SetEof(SetLink(Taken(w.t), w.last, Found(w.t)),
                                        Found(w.t)),
                           last |-> Found(w.t),
                           got |-> n]
    <3>1. n = 0 \/ n \in 1 .. k
      OBVIOUS
    <3>2. CASE n = 0
      BY <1>1, <3>2 DEF Takes, Started
    <3>3. CASE n \in 1 .. k
      <4>1. f[n] = Further(f[n - 1], n) /\ n # 0
        BY <1>1, <3>3 DEF Takes
      <4> QED BY <4>1 DEF Further, Appended
    <3> QED BY <3>1, <3>2, <3>3
  <2>3. [n \in 0 .. k |-> f[n]]
        = [n \in 0 .. k |->
            IF n = 0 THEN [t |-> t, last |-> last, got |-> 0]
            ELSE LET w == f[n - 1]
                 IN  IF w.got < n - 1 \/ FreeFrom(w.t) = {} THEN w
                     ELSE [t |-> SetEof(SetLink(Taken(w.t), w.last, Found(w.t)),
                                        Found(w.t)),
                           last |-> Found(w.t),
                           got |-> n]]
    BY <2>2
  <2> QED BY <2>1, <2>3
<1>3. eq(u)
  BY <1>2, ZenonT(40)
<1>4. Extend(t, last, k) = u[k]
  BY DEF Extend
<1> HIDE DEF u
<1>5. u = [n \in 0 .. k |-> u[n]] /\ u[0] = Started(t, last)
  BY <1>3 DEF Started
<1>6. ASSUME NEW n \in 1 .. k PROVE u[n] = Further(u[n - 1], n)
  <2>1. n \in 0 .. k /\ n # 0
    OBVIOUS
  <2>2. u[n] = LET w == u[n - 1]
                 IN  IF w.got < n - 1 \/ FreeFrom(w.t) = {} THEN w
                     ELSE [t |-> SetEof(SetLink(Taken(w.t), w.last, Found(w.t)),
                                        Found(w.t)),
                           last |-> Found(w.t),
                           got |-> n]
    BY <1>3, <2>1
  <2> QED BY <2>2 DEF Further, Appended
<1> QED BY <1>4, <1>5, <1>6 DEF Takes

LEMMA FurtherOK ==
    ASSUME setup \in Setups, NEW w, TableOK(w.t), w.last \in Fat, w.got \in Nat,
           NEW n \in Nat
    PROVE  LET x == Further(w, n) IN TableOK(x.t) /\ x.last \in Fat /\ x.got \in Nat
<1>1. CASE w.got < n - 1 \/ FreeFrom(w.t) = {}
  BY <1>1 DEF Further
<1>2. CASE ~ (w.got < n - 1 \/ FreeFrom(w.t) = {})
  <2>1. PICK x : x = Further(w, n)
    OBVIOUS
  <2>2. x.t = Appended(w.t, w.last) /\ x.last = Found(w.t) /\ x.got = n
    BY <1>2, <2>1 DEF Further
  <2> QED BY <1>2, <2>1, <2>2, FoundIs, AppendedOK
<1> QED BY <1>1, <1>2

LEMMA ExtendOK ==
    ASSUME setup \in Setups, NEW t, TableOK(t), NEW last \in Fat, NEW k \in Nat,
           NEW x, x = Extend(t, last, k)
    PROVE  TableOK(x.t) /\ x.last \in Fat /\ x.got \in Nat
<1>1. PICK f : Takes(f, k, t, last) /\ x = f[k]
  BY ExtendIs
<1> DEFINE good(w) == TableOK(w.t) /\ w.last \in Fat /\ w.got \in Nat
           bad == {m \in 0 .. k : ~good(f[m])}
<1>2. ASSUME bad # {} PROVE FALSE
  <2>1. bad \in SUBSET Nat
    OBVIOUS
  <2>2. PICK m \in bad : \A v \in bad : m <= v
    BY <1>2, <2>1, LeastIn
  <2>3. m # 0
    <3>1. good(f[0])
      BY <1>1 DEF Takes, Started
    <3> QED BY <3>1, <2>2
  <2>4. m \in 1 .. k /\ m - 1 \in 0 .. k /\ ~ (m <= m - 1) /\ m \in Nat
    BY <2>1, <2>3
  <2>5. good(f[m - 1])
    BY <2>2, <2>4
  <2>6. f[m] = Further(f[m - 1], m)
    BY <1>1, <2>4 DEF Takes
  <2>7. good(f[m])
    BY <2>4, <2>5, <2>6, FurtherOK
  <2> QED BY <2>2, <2>7
<1>3. k \in 0 .. k
  OBVIOUS
<1> QED BY <1>1, <1>2, <1>3

\* One cluster, or none.
LEMMA ExtendOne ==
    ASSUME NEW t, NEW last, NEW x, x = Extend(t, last, 1)
    PROVE  x = IF FreeFrom(t) = {} THEN Started(t, last)
               ELSE [t |-> Appended(t, last), last |-> Found(t), got |-> 1]
<1>1. PICK f : Takes(f, 1, t, last) /\ x = f[1]
  BY ExtendIs
<1>2. f[0] = Started(t, last) /\ f[1] = Further(f[1 - 1], 1)
  BY <1>1 DEF Takes
<1>3. f[1] = Further(f[0], 1)
  BY <1>2
<1> QED BY <1>1, <1>2, <1>3 DEF Further, Started

LEMMA ExtendNone ==
    ASSUME NEW t, NEW last, NEW x, x = Extend(t, last, 0)
    PROVE  x = Started(t, last)
BY ExtendIs DEF Takes

-----------------------------------------------------------------------------
(***************************************************************************)
(* What holds of the pages whatever goes wrong: entries have the fields of *)
(* entries, a folder has a cluster, nothing but the root directory has its *)
(* first one, and the entry of the root is where it was.                   *)
(***************************************************************************)
EntryFits(e) ==
    /\ e \in Entry
    /\ e.name \in Files => e.length \in 0 .. MaxLength
    /\ e.name # Dot => e.cluster \in Somewhere
    /\ e.name \notin Files => e.cluster \in Fat

RootKept(pg) ==
    pg[RootEntry] # Blank /\ pg[RootEntry].name = Dot /\ pg[RootEntry].cluster = Root

PagesOK(pg) ==
    /\ pg = [p \in Page |-> pg[p]]
    /\ \A p \in Page : pg[p] = Blank \/ EntryFits(pg[p])
    /\ RootKept(pg)

LEMMA PagesAre ==
    /\ RootEntry \in Page /\ Nowhere \notin Page /\ Garbage \notin Page
    /\ Nowhere # Garbage
    /\ \A c \in Fat : <<c, 0>> \in Page /\ <<c, 1>> \in Page
    /\ \A c, i : <<c, i>> = RootEntry <=> c = Root /\ i = 0
<1>1. Root \in Fat /\ End \notin Fat
  BY ClustersAre
<1> QED BY <1>1 DEF RootEntry, Nowhere, Garbage, Page

\* What a search comes to.
LEMMA ScanIs ==
    ASSUME NEW t, NEW pg, NEW p, NEW n, NEW q, q = Scan(t, pg, p, n)
    PROVE  \/ q = Nowhere \/ q = Garbage
           \/ q \in Page /\ pg[q] # Blank /\ pg[q].name = n
<1> DEFINE chain == Walk(t, pg[p].cluster)
           at(i) == <<chain[i \div 2], i % 2>>
           stops == {i \in 0 .. pg[p].length - 1 :
                        Unreadable(pg, at(i)) \/ Matches(pg[at(i)].name, n)}
           first == at(CHOOSE i \in stops : \A j \in stops : i <= j)
<1>3. q = IF stops = {} THEN Nowhere
          ELSE IF Unreadable(pg, first) THEN Garbage
          ELSE IF pg[first].name = n THEN first
          ELSE IF pg[first].length = 0 THEN Nowhere ELSE Garbage
  BY DEF Scan
<1> HIDE DEF first, stops
<1> QED BY <1>3 DEF Unreadable

LEMMA ParentIs ==
    ASSUME NEW t, NEW pg, RootKept(pg), NEW path,
           NEW p, p = Parent(t, pg, path)
    PROVE  \/ p = Nowhere \/ p = Garbage
           \/ p \in Page /\ pg[p] # Blank /\ pg[p].name = path.dir
BY ScanIs, PagesAre DEF Parent, RootKept

LEMMA LookupIs ==
    ASSUME NEW t, NEW pg, RootKept(pg), NEW path,
           NEW p, p = Lookup(t, pg, path)
    PROVE  \/ p = Nowhere \/ p = Garbage
           \/ p \in Page /\ pg[p] # Blank /\ pg[p].name = path.name
BY ScanIs, ParentIs DEF Lookup

LEMMA NamesAre ==
    ASSUME setup \in Setups
    PROVE  /\ setup.names \subseteq Files /\ setup.folders \subseteq Folders
           /\ setup.handles \subseteq Handles /\ setup.followed \subseteq Mishaps
           /\ Dot \notin Files /\ Dot \notin Folders /\ Files \cap Folders = {}
           /\ \A path \in Paths : path.name \in Files /\ path.dir \notin Files
BY VmcAssumption DEF Paths

LEMMA PutOK ==
    ASSUME NEW pg, PagesOK(pg), NEW q \in Page, q # RootEntry, NEW e, EntryFits(e),
           NEW a, a = Altered(pg, q, e)
    PROVE  /\ PagesOK(a) /\ a[q] = e /\ a[q] # Blank
           /\ \A p \in Page : p # q => a[p] = pg[p]
<1>1. a = [p \in Page |-> a[p]]
  BY DEF PagesOK, Altered
<1>2. a[q] = e /\ \A p \in Page : p # q => a[p] = pg[p]
  BY DEF PagesOK, Altered
<1>3. RootKept(a)
  BY <1>2, PagesAre DEF PagesOK, RootKept
<1>4. e # Blank
  BY BlankAssumption DEF EntryFits
<1> QED BY <1>1, <1>2, <1>3, <1>4 DEF PagesOK

RootNamed(q, e) == q = RootEntry => e.name = Dot /\ e.cluster = Root

\* The page of the root's own entry may change in its length alone.
LEMMA ChangeOK ==
    ASSUME NEW pg, PagesOK(pg), NEW q \in Page, NEW e, EntryFits(e),
           RootNamed(q, e),
           NEW a, a = Altered(pg, q, e)
    PROVE  /\ PagesOK(a) /\ a[q] = e /\ a[q] # Blank
           /\ \A p \in Page : p # q => a[p] = pg[p]
<1>1. a = [p \in Page |-> a[p]]
  BY DEF PagesOK, Altered
<1>2. a[q] = e /\ \A p \in Page : p # q => a[p] = pg[p]
  BY DEF PagesOK, Altered
<1>4. e # Blank
  BY BlankAssumption DEF EntryFits
<1>3. RootKept(a)
  BY <1>2, <1>4, PagesAre DEF PagesOK, RootKept, RootNamed
<1> QED BY <1>1, <1>2, <1>3, <1>4 DEF PagesOK

LEMMA MadeFits ==
    ASSUME NEW n, NEW c, NEW kind \in {"file", "folder"}, NEW len \in Nat,
           \/ n \in Files /\ c \in Somewhere /\ len <= MaxLength
           \/ n \in Folders /\ c \in Fat \ {Root} /\ len <= MaxEntries + 2
           \/ n = Dot /\ c \in Fat /\ len <= MaxEntries + 2
    PROVE  EntryFits(Made(kind, n, c, len)) /\ Made(kind, n, c, len).name = n
           /\ Made(kind, n, c, len).length = len /\ Made(kind, n, c, len).cluster = c
           /\ Made(kind, n, c, len).exists /\ Made(kind, n, c, len).kind = kind
<1>1. PICK e : e = Made(kind, n, c, len)
  OBVIOUS
<1>2. e = [kind |-> kind, name |-> n, exists |-> TRUE, cluster |-> c, length |-> len]
  BY <1>1 DEF Made
<1>3. c \in Fat \cup {End} /\ n \in Files \cup Folders \cup {Dot}
  BY DEF Somewhere
<1>4. len \in (0 .. MaxLength) \cup (0 .. MaxEntries + 2)
  BY ClustersAre
<1>5. e \in Entry
  BY <1>2, <1>3, <1>4 DEF Entry
<1>6. Dot \notin Files /\ Dot \notin Folders /\ Files \cap Folders = {}
  BY VmcAssumption
<1>7. e.name \in Files => e.length \in 0 .. MaxLength
  BY <1>2, <1>6, ClustersAre
<1>8. e.name # Dot => e.cluster \in Somewhere
  BY <1>2, <1>6 DEF Somewhere
<1>9. e.name \notin Files => e.cluster \in Fat
  BY <1>2, <1>6
<1> QED BY <1>1, <1>2, <1>5, <1>7, <1>8, <1>9 DEF EntryFits

Lengthened(e, n) == [e EXCEPT !.length = n]

\* An entry with another length; with another existence, name or cluster.
LEMMA LengthFits ==
    ASSUME NEW e, EntryFits(e), NEW n \in Nat,
           n <= MaxLength \/ (e.name \notin Files /\ n <= MaxEntries + 2),
           NEW a, a = Lengthened(e, n)
    PROVE  EntryFits(a) /\ a.name = e.name /\ a.cluster = e.cluster /\ a.length = n
           /\ a.exists = e.exists /\ a.kind = e.kind
<1>1. a = [kind |-> e.kind, name |-> e.name, exists |-> e.exists, cluster |-> e.cluster,
           length |-> n]
  BY DEF EntryFits, Entry, Lengthened
<1>2. n \in (0 .. MaxLength) \cup (0 .. MaxEntries + 2)
  BY ClustersAre
<1>3. a \in Entry
  BY <1>1, <1>2 DEF EntryFits, Entry
<1>4. e.name \in Files => n \in 0 .. MaxLength
  BY ClustersAre
<1> QED BY <1>1, <1>3, <1>4 DEF EntryFits

LEMMA ExistsFits ==
    ASSUME NEW e, EntryFits(e), NEW b \in BOOLEAN, NEW a, a = [e EXCEPT !.exists = b]
    PROVE  EntryFits(a) /\ a.name = e.name /\ a.cluster = e.cluster /\ a.length = e.length
           /\ a.exists = b /\ a.kind = e.kind
<1>1. a = [kind |-> e.kind, name |-> e.name, exists |-> b, cluster |-> e.cluster,
           length |-> e.length]
  BY DEF EntryFits, Entry
<1>2. a \in Entry
  BY <1>1 DEF EntryFits, Entry
<1> QED BY <1>1, <1>2 DEF EntryFits

LEMMA NameFits ==
    ASSUME NEW e, EntryFits(e), e.name \in Files, NEW n \in Files,
           NEW a, a = [e EXCEPT !.name = n]
    PROVE  EntryFits(a) /\ a.name = n /\ a.cluster = e.cluster /\ a.length = e.length
           /\ a.exists = e.exists /\ a.kind = e.kind
<1>1. a = [kind |-> e.kind, name |-> n, exists |-> e.exists, cluster |-> e.cluster,
           length |-> e.length]
  BY DEF EntryFits, Entry
<1>2. a \in Entry
  BY <1>1 DEF EntryFits, Entry
<1>3. Dot \notin Files
  BY VmcAssumption
<1> QED BY <1>1, <1>2, <1>3 DEF EntryFits

LEMMA ClusterFits ==
    ASSUME NEW e, EntryFits(e), NEW c \in Fat \ {Root}, NEW a, a = [e EXCEPT !.cluster = c]
    PROVE  EntryFits(a) /\ a.name = e.name /\ a.cluster = c /\ a.length = e.length
           /\ a.exists = e.exists /\ a.kind = e.kind
<1>1. a = [kind |-> e.kind, name |-> e.name, exists |-> e.exists, cluster |-> c,
           length |-> e.length]
  BY DEF EntryFits, Entry
<1>2. a \in Entry
  BY <1>1 DEF EntryFits, Entry
<1> QED BY <1>1, <1>2 DEF EntryFits, Somewhere

-----------------------------------------------------------------------------
(***************************************************************************)
(* An entry added to a directory.                                          *)
(***************************************************************************)
LEMMA TailIs ==
    ASSUME NEW t, TableOK(t), NEW e, e.cluster \in Fat, e.length \in Nat
    PROVE  TailOf(t, e) \in Fat \cup {End}
<1> DEFINE at == Walk(t, e.cluster)
           steps == (e.length + 1) \div 2
           stops == {k \in 0 .. steps :
                        at[k] = End \/ (at[k] \in t.used /\ t.next[at[k]] = End)}
           k0 == IF stops = {} THEN steps ELSE CHOOSE k \in stops : \A j \in stops : k <= j
<1>1. TailOf(t, e) = at[k0]
  BY DEF TailOf
<1>2. \A k \in 0 .. Clusters : at[k] \in Fat \cup {End}
  BY WalkType DEF TableOK, Sane
<1>3. at[Clusters] = End
  BY Ends DEF TableOK, Sane, Loops
<1>4. steps \in Nat
  OBVIOUS
<1>5. k0 \in 0 .. Clusters
  <2>1. CASE stops = {}
    <3>1. Clusters \notin 0 .. steps
      BY <1>3, <2>1
    <3> QED BY <1>4, <2>1, <3>1, ClustersAre
  <2>2. CASE stops # {}
    <3>1. stops \in SUBSET Nat
      BY <1>4
    <3>2. \E k \in stops : \A j \in stops : k <= j
      BY <2>2, <3>1, LeastIn
    <3>3. k0 \in stops /\ \A j \in stops : k0 <= j
      BY <2>2, <3>2
    <3>4. k0 \in 0 .. steps
      BY <3>3
    <3>5. CASE Clusters \in 0 .. steps
      <4>1. Clusters \in stops
        BY <1>3, <3>5
      <4>2. k0 <= Clusters
        BY <3>3, <4>1
      <4> QED BY <1>4, <3>4, <4>2, ClustersAre, SMTT(60)
    <3>6. CASE Clusters \notin 0 .. steps
      <4> HIDE DEF k0, steps, stops
      <4> QED BY <1>4, <3>4, <3>6, ClustersAre
    <3> QED BY <3>5, <3>6
  <2> QED BY <2>1, <2>2
<1> HIDE DEF k0, at
<1> QED BY <1>1, <1>2, <1>5

Longer(e) == [e EXCEPT !.length = e.length + 1]

Grown(pg, q, e, p) == Altered(Altered(pg, q, e), p, Longer(pg[p]))

FolderGrown(pg, q, e, p, own) ==
    [Grown(pg, q, [e EXCEPT !.cluster = own, !.length = 2], p) EXCEPT
        ![<<own, 0>>] = Made("folder", Dot, pg[p].cluster, 0),
        ![<<own, 1>>] = Made("folder", Dot, Root, 0)]

Full(e) == e.length % 2 = 0

Extended(t, tail, d) ==
    IF ~Full(d) \/ FreeFrom(t) = {} THEN Started(t, tail)
    ELSE [t |-> Appended(t, tail), last |-> Found(t), got |-> 1]

Failed(t, pg) == [done |-> FALSE, t |-> t, pg |-> pg, at |-> Nowhere]

Added(t, pg, p, e, x, place, own) ==
    IF Full(pg[p]) /\ x.got = 0 THEN Failed(t, pg)
    ELSE IF e.kind = "folder" /\ FreeFrom(x.t) = {} THEN Failed(x.t, pg)
    ELSE IF e.kind # "folder"
    THEN [done |-> TRUE, t |-> x.t, pg |-> Grown(pg, place, e, p), at |-> place]
    ELSE [done |-> TRUE, at |-> place, t |-> SetEof(Taken(x.t), own),
          pg |-> FolderGrown(pg, place, e, p, own)]

LEMMA AddIs ==
    ASSUME NEW t, NEW pg, NEW p, NEW e, NEW w, w = AddObject(t, pg, p, e),
           NEW x, x = Extended(t, TailOf(t, pg[p]), pg[p]),
           NEW place, place = <<x.last, pg[p].length % 2>>, NEW own, own = Found(x.t)
    PROVE  w = Added(t, pg, p, e, x, place, own)
<1>1. PICK tail : tail = TailOf(t, pg[p])
  OBVIOUS
<1>2. x = Extend(t, tail, IF Full(pg[p]) THEN 1 ELSE 0)
  <2>1. PICK y : y = Extend(t, tail, 1)
    OBVIOUS
  <2>2. PICK z : z = Extend(t, tail, 0)
    OBVIOUS
  <2>3. y = IF FreeFrom(t) = {} THEN Started(t, tail)
            ELSE [t |-> Appended(t, tail), last |-> Found(t), got |-> 1]
    BY <2>1, ExtendOne
  <2>4. z = Started(t, tail)
    BY <2>2, ExtendNone
  <2>5. CASE Full(pg[p])
    BY <1>1, <2>1, <2>3, <2>5 DEF Extended
  <2>6. CASE ~Full(pg[p])
    BY <1>1, <2>2, <2>4, <2>6 DEF Extended
  <2> QED BY <2>5, <2>6
<1>3. x = Extend(t, TailOf(t, pg[p]), IF pg[p].length % 2 = 0 THEN 1 ELSE 0)
  BY <1>1, <1>2 DEF Full
<1>4. PICK b : b = Grown(pg, place, e, p)
  OBVIOUS
<1>5. PICK d : d = FolderGrown(pg, place, e, p, own)
  OBVIOUS
<1>6. CASE e.kind = "folder"
  BY <1>3, <1>5, <1>6 DEF AddObject, Added, Failed, FolderGrown, Grown, Full, Longer, Altered
<1>7. CASE e.kind # "folder"
  BY <1>3, <1>4, <1>7 DEF AddObject, Added, Failed, Grown, Full, Longer, Altered
<1> QED BY <1>4, <1>5, <1>6, <1>7

LEMMA GrownOK ==
    ASSUME NEW pg, PagesOK(pg), NEW q \in Page, q # RootEntry, NEW e, EntryFits(e),
           NEW p \in Page, pg[p] # Blank, pg[p].name \notin Files,
           pg[p].length < MaxEntries + 2, NEW a, a = Grown(pg, q, e, p)
    PROVE  /\ PagesOK(a) /\ a[p] = Longer(pg[p])
           /\ p # q => a[q] = e
           /\ \A r \in Page : r \notin {p, q} => a[r] = pg[r]
<1>1. PICK b : b = Altered(pg, q, e)
  OBVIOUS
<1>2. PagesOK(b) /\ b[q] = e /\ b[q] # Blank /\ \A r \in Page : r # q => b[r] = pg[r]
  BY <1>1, PutOK
<1>3. PICK v : v = Longer(pg[p])
  OBVIOUS
<1>4. a = Altered(b, p, v)
  BY <1>1, <1>3 DEF Grown
<1>5. EntryFits(pg[p]) /\ pg[p].length \in Nat
  <2>1. EntryFits(pg[p])
    BY DEF PagesOK
  <2> QED BY <2>1, ClustersAre DEF EntryFits, Entry
<1>6. EntryFits(v) /\ v.name = pg[p].name /\ v.cluster = pg[p].cluster
  <2>1. pg[p].length + 1 <= MaxEntries + 2 /\ pg[p].length + 1 \in Nat
    BY <1>5, ClustersAre
  <2>2. v = Lengthened(pg[p], pg[p].length + 1)
    BY <1>3 DEF Longer, Lengthened
  <2> QED BY <1>5, <2>1, <2>2, LengthFits
<1>7. RootNamed(p, v)
  BY <1>6 DEF PagesOK, RootKept, RootNamed
<1>8. PagesOK(a) /\ a[p] = v /\ \A r \in Page : r # p => a[r] = b[r]
  <2>1. PagesOK(b) /\ EntryFits(v)
    BY <1>2, <1>6
  <2> QED BY <1>4, <1>7, <2>1, ChangeOK
<1> QED BY <1>2, <1>3, <1>8

LEMMA FolderGrownOK ==
    ASSUME NEW pg, PagesOK(pg), NEW q \in Page, q # RootEntry, NEW n \in Folders,
           pg[RootEntry].length < MaxEntries + 2, NEW own \in Fat \ {Root},
           NEW e, e = Made("folder", n, End, 0),
           NEW a, a = FolderGrown(pg, q, e, RootEntry, own)
    PROVE  PagesOK(a)
<1>1. PICK m : m = [e EXCEPT !.cluster = own, !.length = 2]
  OBVIOUS
<1>2. m = Made("folder", n, own, 2)
  BY <1>1 DEF Made
<1>3. EntryFits(m)
  BY <1>2, MadeFits, ClustersAre
<1>4. PICK b : b = Grown(pg, q, m, RootEntry)
  OBVIOUS
<1>5. pg[RootEntry] # Blank /\ pg[RootEntry].name \notin Files
  BY VmcAssumption DEF PagesOK, RootKept
<1>6. PagesOK(b)
  BY <1>3, <1>4, <1>5, GrownOK, PagesAre
<1>7. PICK dot : dot = Made("folder", Dot, pg[RootEntry].cluster, 0)
  OBVIOUS
<1>8. PICK dots : dots = Made("folder", Dot, Root, 0)
  OBVIOUS
<1>9. EntryFits(dot) /\ EntryFits(dots)
  <2>1. pg[RootEntry].cluster \in Fat /\ Root \in Fat /\ 0 <= MaxEntries + 2
    BY ClustersAre DEF PagesOK, RootKept
  <2>2. EntryFits(dot)
    BY <1>7, <2>1, MadeFits, ZenonT(40)
  <2>3. EntryFits(dots)
    BY <1>8, <2>1, MadeFits, ZenonT(40)
  <2> QED BY <2>2, <2>3
<1>10. PICK c : c = Altered(b, <<own, 0>>, dot)
  OBVIOUS
<1>11. <<own, 0>> \in Page /\ <<own, 0>> # RootEntry /\ <<own, 1>> \in Page
       /\ <<own, 1>> # RootEntry
  BY PagesAre
<1>12. PagesOK(c)
  BY <1>6, <1>9, <1>10, <1>11, PutOK
<1>13. a = Altered(c, <<own, 1>>, dots)
  BY <1>1, <1>4, <1>7, <1>8, <1>10 DEF FolderGrown, Altered
<1> QED BY <1>9, <1>11, <1>12, <1>13, PutOK

LEMMA ExtendedOK ==
    ASSUME setup \in Setups, NEW t, TableOK(t), NEW tail \in Fat, NEW d,
           NEW x, x = Extended(t, tail, d)
    PROVE  /\ TableOK(x.t) /\ x.last \in Fat
           /\ Full(d) /\ x.got # 0 => x.last # Root
<1>1. CASE ~Full(d) \/ FreeFrom(t) = {}
  BY <1>1 DEF Extended, Started
<1>2. CASE Full(d) /\ FreeFrom(t) # {}
  <2>1. x.t = Appended(t, tail) /\ x.last = Found(t)
    BY <1>2 DEF Extended
  <2>2. Found(t) \in Fat /\ Found(t) # Root
    BY <1>2, FoundIs DEF TableOK
  <2> QED BY <1>2, <2>1, <2>2, AppendedOK
<1> QED BY <1>1, <1>2

LEMMA AddOK ==
    ASSUME setup \in Setups, NEW t, TableOK(t), NEW pg, PagesOK(pg),
           NEW p \in Page, pg[p] # Blank, pg[p].name \notin Files,
           pg[p].length < MaxEntries + 2, TailOf(t, pg[p]) # End,
           NEW kind, NEW n,
           \/ kind = "file" /\ n \in Files
           \/ kind = "folder" /\ n \in Folders /\ p = RootEntry,
           NEW e, e = Made(kind, n, End, 0), NEW w, w = AddObject(t, pg, p, e)
    PROVE  /\ TableOK(w.t) /\ PagesOK(w.pg)
           /\ w.done => w.at \in Page \ {RootEntry}
<1>1. EntryFits(pg[p])
  BY DEF PagesOK
<1>2. pg[p].cluster \in Fat /\ pg[p].length \in Nat
  BY <1>1, ClustersAre DEF EntryFits, Entry
<1>3. PICK tail \in Fat : tail = TailOf(t, pg[p])
  BY <1>2, TailIs
<1>5. PICK x : x = Extended(t, tail, pg[p])
  OBVIOUS
<1>6. PICK place : place = <<x.last, pg[p].length % 2>>
  OBVIOUS
<1>7. PICK own : own = Found(x.t)
  OBVIOUS
<1>8. TableOK(x.t) /\ x.last \in Fat /\ (Full(pg[p]) /\ x.got # 0 => x.last # Root)
  BY <1>5, ExtendedOK
<1>9. e.kind = kind /\ e.name = n /\ e.length = 0 /\ e.cluster = End
  BY DEF Made
<1>10. w = Added(t, pg, p, e, x, place, own)
  <2>1. x = Extended(t, TailOf(t, pg[p]), pg[p])
    BY <1>3, <1>5
  <2> QED BY <1>6, <1>7, <2>1, AddIs
<1>11. ASSUME ~ (Full(pg[p]) /\ x.got = 0) PROVE place \in Page \ {RootEntry}
  <2>1. pg[p].length % 2 \in {0, 1}
    BY <1>2
  <2>2. pg[p].length % 2 = 0 => x.last # Root
    BY <1>8, <1>11 DEF Full
  <2> QED BY <1>6, <1>8, <2>1, <2>2, PagesAre
<1>12. CASE Full(pg[p]) /\ x.got = 0
  BY <1>10, <1>12 DEF Failed, Added
<1>13. CASE ~ (Full(pg[p]) /\ x.got = 0) /\ e.kind = "folder" /\ FreeFrom(x.t) = {}
  BY <1>8, <1>10, <1>13 DEF Failed, Added
<1>14. CASE ~ (Full(pg[p]) /\ x.got = 0) /\ e.kind # "folder"
  <2>1. kind = "file" /\ n \in Files
    BY <1>9, <1>14
  <2>2. EntryFits(e)
    BY <2>1, MadeFits, ClustersAre DEF Somewhere
  <2>3. PICK a : a = Grown(pg, place, e, p)
    OBVIOUS
  <2>6. place \in Page /\ place # RootEntry
    BY <1>11, <1>14
  <2>4. PagesOK(a)
    BY <2>2, <2>3, <2>6, GrownOK
  <2>5. w = [done |-> TRUE, t |-> x.t, pg |-> a, at |-> place]
    BY <1>10, <1>14, <2>3 DEF Added
  <2> QED BY <1>8, <1>11, <1>14, <2>4, <2>5
<1>15. CASE ~ (Full(pg[p]) /\ x.got = 0) /\ e.kind = "folder" /\ FreeFrom(x.t) # {}
  <2>1. n \in Folders /\ p = RootEntry /\ kind = "folder"
    BY <1>9, <1>15
  <2>2. own \in Fat \ {Root}
    BY <1>7, <1>8, <1>15, FoundIs DEF TableOK
  <2>3. PICK a : a = FolderGrown(pg, place, e, RootEntry, own)
    OBVIOUS
  <2>4. PagesOK(a)
    BY <1>11, <1>15, <2>1, <2>2, <2>3, FolderGrownOK
  <2>5. PICK u : u = SetEof(Taken(x.t), own)
    OBVIOUS
  <2>6. TableOK(u)
    <3>1. PICK y : y = Taken(x.t)
      OBVIOUS
    <3>2. TableOK(y)
      BY <1>8, <1>15, <3>1, TakenOK
    <3> QED BY <2>2, <2>5, <3>1, <3>2, SetEofOK
  <2>7. w = [done |-> TRUE, at |-> place, t |-> u, pg |-> a]
    BY <1>10, <1>15, <2>1, <2>3, <2>5 DEF Added
  <2> QED BY <1>11, <1>15, <2>4, <2>6, <2>7
<1> QED BY <1>12, <1>13, <1>14, <1>15

-----------------------------------------------------------------------------
(***************************************************************************)
(* Entries removed, one or a folder's all.                                 *)
(***************************************************************************)
World(t, pg, well, ms) == [t |-> t, pg |-> pg, well |-> well, mishaps |-> ms]

WorldOK(w) ==
    /\ w = World(w.t, w.pg, w.well, w.mishaps)
    /\ TableOK(w.t) /\ PagesOK(w.pg) /\ w.well \in BOOLEAN /\ w.mishaps \subseteq Mishaps

Ill(w) == [w EXCEPT !.well = FALSE]

LEMMA IllOK ==
    ASSUME NEW w, WorldOK(w), NEW x, x = Ill(w)
    PROVE  /\ WorldOK(x) /\ ~x.well /\ x.t = w.t /\ x.pg = w.pg
           /\ x.mishaps = w.mishaps
<1>1. PICK t, pg, well, ms : w = World(t, pg, well, ms)
  BY DEF WorldOK
<1>2. x = World(t, pg, FALSE, ms)
  <2>1. PICK f \in BOOLEAN : f = FALSE
    OBVIOUS
  <2>2. x = [w EXCEPT !.well = f]
    BY <2>1 DEF Ill
  <2>3. x = World(t, pg, f, ms)
    BY <1>1, <2>2 DEF World
  <2> QED BY <2>1, <2>3
<1>3. w.t = t /\ w.pg = pg /\ w.mishaps = ms
  BY <1>1 DEF World
<1>4. x.t = t /\ x.pg = pg /\ x.mishaps = ms /\ x.well = FALSE
  BY <1>2 DEF World
<1>5. x = World(x.t, x.pg, x.well, x.mishaps)
  BY <1>2, <1>4
<1>6. ~x.well /\ x.well \in BOOLEAN
  BY <1>4
<1> QED BY <1>3, <1>4, <1>5, <1>6 DEF WorldOK

Passed(w) == [w EXCEPT !.mishaps = w.mishaps \cup {"missed"}]

LEMMA PassedOK ==
    ASSUME NEW w, WorldOK(w), NEW x, x = Passed(w)
    PROVE  /\ WorldOK(x) /\ x.well = w.well /\ x.t = w.t /\ x.pg = w.pg
           /\ x.mishaps = w.mishaps \cup {"missed"}
<1>1. PICK t, pg, well, ms : w = World(t, pg, well, ms)
  BY DEF WorldOK
<1>2. w.t = t /\ w.pg = pg /\ w.mishaps = ms /\ w.well = well
  BY <1>1 DEF World
<1>3. PICK n : n = ms \cup {"missed"}
  OBVIOUS
<1>4. x = World(t, pg, well, n)
  <2>1. x = [w EXCEPT !.mishaps = n]
    BY <1>2, <1>3 DEF Passed
  <2> QED BY <1>1, <2>1 DEF World
<1>5. x.t = t /\ x.pg = pg /\ x.well = well /\ x.mishaps = n
  BY <1>4 DEF World
<1>6. x = World(x.t, x.pg, x.well, x.mishaps)
  BY <1>4, <1>5
<1>7. n \subseteq Mishaps
  BY <1>2, <1>3 DEF WorldOK, Mishaps
<1> QED BY <1>2, <1>3, <1>5, <1>6, <1>7 DEF WorldOK

Toggled(e) == [e EXCEPT !.exists = ~ e.exists]

RemovedAt(w, p, c) ==
    World(Removed(w.t, c),
          IF LastOf(w.t, c) \in w.t.used THEN Altered(w.pg, p, Toggled(w.pg[p])) ELSE w.pg,
          w.well,
          w.mishaps \cup (IF w.pg[p].exists THEN {} ELSE {"again"})
                    \cup (IF Held(p) = {} THEN {} ELSE {"held"}))

LEMMA RemoveIs ==
    ASSUME NEW w, NEW p, NEW c, c = w.pg[p].cluster, NEW x, x = RemoveObject(w, p)
    PROVE  x = IF c = End \/ Loops(w.t, c) THEN Ill(w) ELSE RemovedAt(w, p, c)
<1>1. CASE c = End \/ Loops(w.t, c)
  BY <1>1 DEF RemoveObject, Ill
<1>2. CASE ~ (c = End \/ Loops(w.t, c))
  BY <1>2 DEF RemoveObject, RemovedAt, World, Altered, Toggled
<1> QED BY <1>1, <1>2

LEMMA RemovePagesOK ==
    ASSUME NEW pg, PagesOK(pg), NEW p \in Page, pg[p] # Blank, pg[p].name # Dot,
           NEW a, a = Altered(pg, p, Toggled(pg[p]))
    PROVE  /\ PagesOK(a) /\ a[p] = Toggled(pg[p]) /\ a[p] # Blank
           /\ \A q \in Page : q # p => a[q] = pg[q]
<1>1. EntryFits(pg[p]) /\ p # RootEntry
  BY DEF PagesOK, RootKept
<1>2. PICK b \in BOOLEAN : b = ~ pg[p].exists
  OBVIOUS
<1>3. EntryFits([pg[p] EXCEPT !.exists = b])
  BY <1>1, ExistsFits
<1>4. EntryFits(Toggled(pg[p]))
  BY <1>2, <1>3 DEF Toggled
<1> QED BY <1>1, <1>4, PutOK

LEMMA RemoveOK ==
    ASSUME NEW w, WorldOK(w), NEW p \in Page, w.pg[p] # Blank, w.pg[p].name # Dot
    PROVE  WorldOK(RemoveObject(w, p))
<1>1. PICK c : c = w.pg[p].cluster
  OBVIOUS
<1>2. PICK x : x = RemoveObject(w, p)
  OBVIOUS
<1>3. x = IF c = End \/ Loops(w.t, c) THEN Ill(w) ELSE RemovedAt(w, p, c)
  BY <1>1, <1>2, RemoveIs
<1>4. EntryFits(w.pg[p]) /\ PagesOK(w.pg) /\ TableOK(w.t)
  BY DEF WorldOK, PagesOK
<1>5. CASE c = End \/ Loops(w.t, c)
  BY <1>2, <1>3, <1>5, IllOK
<1>6. CASE ~ (c = End \/ Loops(w.t, c))
  <2>1. c \in Fat \ {Root}
    BY <1>1, <1>4, <1>6 DEF EntryFits, Somewhere
  <2>2. PICK u : u = Removed(w.t, c)
    OBVIOUS
  <2>3. TableOK(u)
    BY <1>4, <2>1, <2>2, RemovedOK
  <2>4. PICK a : a = Altered(w.pg, p, Toggled(w.pg[p]))
    OBVIOUS
  <2>5. PagesOK(a)
    BY <1>4, <2>4, RemovePagesOK
  <2>6. PICK ms : ms = w.mishaps \cup (IF w.pg[p].exists THEN {} ELSE {"again"})
                    \cup (IF Held(p) = {} THEN {} ELSE {"held"})
    OBVIOUS
  <2>7. ms \subseteq Mishaps
    BY <2>6 DEF WorldOK, Mishaps
  <2>8. x = World(u, IF LastOf(w.t, c) \in w.t.used THEN a ELSE w.pg, w.well, ms)
    BY <1>3, <1>6, <2>2, <2>4, <2>6 DEF RemovedAt
  <2>9. PICK b : b = IF LastOf(w.t, c) \in w.t.used THEN a ELSE w.pg
    OBVIOUS
  <2>10. PagesOK(b) /\ x = World(u, b, w.well, ms)
    BY <1>4, <2>5, <2>8, <2>9
  <2>11. w.well \in BOOLEAN
    BY DEF WorldOK
  <2> QED BY <1>2, <2>3, <2>7, <2>10, <2>11 DEF WorldOK, World
<1> QED BY <1>5, <1>6

LEMMA RemoveChildOK ==
    ASSUME NEW w, WorldOK(w), NEW n, NEW p, NEW i
    PROVE  WorldOK(RemoveChild(w, n, p, i))
<1> DEFINE q == At(w.t, w.pg[p].cluster, i)
           found == Lookup(w.t, w.pg, [dir |-> n, name |-> w.pg[q].name])
<1>1. RemoveChild(w, n, p, i) =
        IF ~w.well \/ i < 2 \/ i >= w.pg[p].length THEN w
        ELSE IF Unreadable(w.pg, q) \/ w.pg[q].name = Dot THEN Ill(w)
        ELSE IF ~w.pg[q].exists THEN w
        ELSE IF found = Nowhere THEN Passed(w)
        ELSE IF found = Garbage THEN Ill(w)
        ELSE RemoveObject(w, found)
  BY DEF RemoveChild, Ill, Passed
<1>2. WorldOK(Ill(w))
  <2>1. PICK x : x = Ill(w)
    OBVIOUS
  <2> QED BY <2>1, IllOK
<1>3. ASSUME w.pg[q].name # Dot, found # Nowhere, found # Garbage
      PROVE  WorldOK(RemoveObject(w, found))
  <2>1. PICK path : path = [dir |-> n, name |-> w.pg[q].name]
    OBVIOUS
  <2>2. PICK r : r = found
    OBVIOUS
  <2>3. r = Lookup(w.t, w.pg, path) /\ path.name = w.pg[q].name
    BY <2>1, <2>2
  <2>4. RootKept(w.pg)
    BY DEF WorldOK, PagesOK
  <2>5. r # Nowhere /\ r # Garbage
    BY <1>3, <2>2
  <2>6. r \in Page /\ w.pg[r] # Blank /\ w.pg[r].name = path.name
    BY <2>3, <2>4, <2>5, LookupIs
  <2>7. WorldOK(RemoveObject(w, r))
    BY <1>3, <2>3, <2>6, RemoveOK
  <2> QED BY <2>2, <2>7
<1> HIDE DEF found, q
<1>4. WorldOK(Passed(w))
  <2>1. PICK x : x = Passed(w)
    OBVIOUS
  <2> QED BY <2>1, PassedOK
<1> QED BY <1>1, <1>2, <1>3, <1>4

Removes(f, m, n, p) ==
    /\ f = [i \in 0 .. m |-> f[i]]
    /\ f[0] = Before /\ \A i \in 1 .. m : f[i] = RemoveChild(f[i - 1], n, p, i)

LEMMA HasRemoves ==
    ASSUME NEW name, NEW p, NEW n \in Nat
    PROVE  \E f : Removes(f, n, name, p)
<1> DEFINE bad == {m \in 0 .. n : ~ \E f : Removes(f, m, name, p)}
<1>1. ASSUME bad # {} PROVE FALSE
  <2>1. bad \in SUBSET Nat
    OBVIOUS
  <2>2. PICK m \in bad : \A v \in bad : m <= v
    BY <1>1, <2>1, LeastIn
  <2>3. m \in 0 .. n
    OBVIOUS
  <2>4. CASE m = 0
    <3>1. PICK f : f = [i \in 0 .. 0 |-> Before]
      OBVIOUS
    <3>2. Removes(f, m, name, p)
      BY <2>4, <3>1 DEF Removes
    <3> QED BY <3>2
  <2>5. CASE m # 0
    <3>1. m - 1 \in 0 .. n /\ m - 1 \notin bad
      BY <2>2, <2>3, <2>5
    <3>2. PICK f : Removes(f, m - 1, name, p)
      BY <3>1
    <3>3. PICK e : e = RemoveChild(f[m - 1], name, p, m)
      OBVIOUS
    <3>4. PICK g : g = [i \in 0 .. m |-> IF i < m THEN f[i] ELSE e]
      OBVIOUS
    <3>5. g = [i \in 0 .. m |-> g[i]] /\ \A i \in 0 .. m - 1 : g[i] = f[i]
      BY <2>3, <3>4
    <3>6. g[0] = Before
      BY <2>3, <2>5, <3>2, <3>5 DEF Removes
    <3>7. ASSUME NEW k \in 1 .. m PROVE g[k] = RemoveChild(g[k - 1], name, p, k)
      <4>1. CASE k < m
        <5>1. k \in 1 .. m - 1 /\ k \in 0 .. m - 1 /\ k - 1 \in 0 .. m - 1
          BY <2>3, <4>1
        <5>2. f[k] = RemoveChild(f[k - 1], name, p, k)
          BY <3>2, <5>1 DEF Removes
        <5> QED BY <3>5, <5>1, <5>2
      <4>2. CASE k = m
        <5>1. m - 1 \in 0 .. m - 1 /\ m \in 0 .. m
          BY <2>3, <2>5
        <5>2. g[m - 1] = f[m - 1]
          BY <3>5, <5>1
        <5>3. g[m] = e
          BY <3>4, <5>1
        <5> QED BY <3>3, <4>2, <5>2, <5>3
      <4> QED BY <2>3, <4>1, <4>2
    <3> QED BY <3>5, <3>6, <3>7 DEF Removes
  <2> QED BY <2>4, <2>5
<1> QED BY <1>1

LEMMA EmptiedIs ==
    ASSUME NEW n, NEW p
    PROVE  \E f : Removes(f, MaxEntries + 1, n, p) /\ Emptied(n, p) = f[MaxEntries + 1]
<1> DEFINE m == MaxEntries + 1
           eq(g) == g = [i \in 0 .. m |->
                           IF i = 0 THEN Before ELSE RemoveChild(g[i - 1], n, p, i)]
           u == CHOOSE g : eq(g)
<1>0. m \in Nat
  BY ClustersAre
<1>1. PICK f : Removes(f, m, n, p)
  BY <1>0, HasRemoves
<1>2. eq(f)
  <2>1. f = [i \in 0 .. m |-> f[i]]
    BY <1>1 DEF Removes
  <2>2. ASSUME NEW i \in 0 .. m
        PROVE  f[i] = IF i = 0 THEN Before ELSE RemoveChild(f[i - 1], n, p, i)
    <3>1. i = 0 \/ i \in 1 .. m
      OBVIOUS
    <3> QED BY <1>1, <3>1 DEF Removes
  <2>3. [i \in 0 .. m |-> f[i]]
        = [i \in 0 .. m |-> IF i = 0 THEN Before ELSE RemoveChild(f[i - 1], n, p, i)]
    BY <2>2
  <2> QED BY <2>1, <2>3
<1>3. eq(u)
  BY <1>2
<1>4. Emptied(n, p) = u[m]
  BY DEF Emptied
<1> HIDE DEF u
<1>5. u = [i \in 0 .. m |-> u[i]] /\ u[0] = Before
  BY <1>0, <1>3
<1>6. ASSUME NEW i \in 1 .. m PROVE u[i] = RemoveChild(u[i - 1], n, p, i)
  <2>1. i \in 0 .. m /\ i # 0
    OBVIOUS
  <2> QED BY <1>3, <2>1
<1> QED BY <1>4, <1>5, <1>6 DEF Removes

LEMMA EmptiedOK ==
    ASSUME NEW n, NEW p, WorldOK(Before)
    PROVE  WorldOK(Emptied(n, p))
<1>1. PICK f : Removes(f, MaxEntries + 1, n, p) /\ Emptied(n, p) = f[MaxEntries + 1]
  BY EmptiedIs
<1> DEFINE k == MaxEntries + 1
           bad == {m \in 0 .. k : ~WorldOK(f[m])}
<1>2. ASSUME bad # {} PROVE FALSE
  <2>1. bad \in SUBSET Nat
    OBVIOUS
  <2>2. PICK m \in bad : \A v \in bad : m <= v
    BY <1>2, <2>1, LeastIn
  <2>3. m # 0
    BY <1>1, <2>2 DEF Removes
  <2>4. m \in 1 .. k /\ m - 1 \in 0 .. k /\ ~ (m <= m - 1)
    BY <2>1, <2>3, ClustersAre
  <2>5. WorldOK(f[m - 1])
    BY <2>2, <2>4
  <2>6. f[m] = RemoveChild(f[m - 1], n, p, m)
    BY <1>1, <2>4 DEF Removes
  <2> QED BY <2>2, <2>5, <2>6, RemoveChildOK
<1>3. k \in 0 .. k
  BY ClustersAre
<1> QED BY <1>1, <1>2, <1>3

-----------------------------------------------------------------------------
(***************************************************************************)
(* What holds whatever goes wrong, and the handles' part of it.            *)
(***************************************************************************)
FileFits(f) == f \in Opened /\ f.start \in Somewhere /\ f.entry # RootEntry

HandlesOK(hs) ==
    /\ hs = [h \in Handles |-> hs[h]]
    /\ \A h \in Handles : hs[h] = Closed \/ FileFits(hs[h])

AlwaysFits ==
    /\ TableOK(card)
    /\ PagesOK(page)
    /\ HandlesOK(handle)
    /\ setup \in Setups
    /\ astray \in BOOLEAN
    /\ mishaps \subseteq Mishaps
    /\ event \in [stray : BOOLEAN]

LEMMA PutHandle ==
    ASSUME NEW hs, HandlesOK(hs), NEW h \in Handles, NEW f, f = Closed \/ FileFits(f),
           NEW a, a = Altered(hs, h, f)
    PROVE  HandlesOK(a) /\ a[h] = f /\ \A g \in Handles : g # h => a[g] = hs[g]
<1>1. a = [g \in Handles |-> a[g]]
  BY DEF HandlesOK, Altered
<1>2. a[h] = f /\ \A g \in Handles : g # h => a[g] = hs[g]
  BY DEF HandlesOK, Altered
<1> QED BY <1>1, <1>2 DEF HandlesOK

LEMMA OpenFits ==
    ASSUME HandlesOK(handle), NEW h \in Handles, IsOpen(h)
    PROVE  FileFits(handle[h])
BY DEF HandlesOK, IsOpen, Closed

LEMMA QuietFits == Quiet \in [stray : BOOLEAN] /\ ~Quiet.stray
BY DEF Quiet

LEMMA HandleFits ==
    ASSUME NEW p \in Page, p # RootEntry, NEW mode \in Modes, NEW e, EntryFits(e),
           e.name \in Files, NEW f, f = Handle(p, mode, e)
    PROVE  /\ FileFits(f) /\ f.entry = p /\ f.mode = mode /\ f.start = e.cluster
           /\ f.at = e.cluster /\ f.length = e.length /\ f.offset = 0 /\ f.pos = 0
<1>1. e.length \in 0 .. MaxLength /\ e.cluster \in Somewhere
  BY VmcAssumption DEF EntryFits
<1>2. 0 \in 0 .. MaxLength /\ 0 \in 0 .. ClusterSize - 1
  BY ClustersAre
<1>3. e.cluster \in Fat \cup {End}
  BY <1>1 DEF Somewhere
<1>4. f = [entry |-> p, mode |-> mode, start |-> e.cluster, at |-> e.cluster,
           offset |-> 0, pos |-> 0, length |-> e.length]
  BY DEF Handle
<1>5. f \in Opened
  BY <1>1, <1>2, <1>3, <1>4 DEF Opened
<1> QED BY <1>1, <1>4, <1>5 DEF FileFits

LEMMA Divide ==
    ASSUME NEW a \in Nat
    PROVE  /\ a \div ClusterSize \in Nat /\ a % ClusterSize \in 0 .. ClusterSize - 1
           /\ (a + 1) \div ClusterSize <= (a \div ClusterSize) + 1
           /\ a = ClusterSize * (a \div ClusterSize) + (a % ClusterSize)
<1>1. ClusterSize \in Nat /\ ClusterSize >= 1
  BY ClustersAre
<1>2. a \div ClusterSize \in Nat /\ a % ClusterSize \in 0 .. ClusterSize - 1
  BY <1>1
<1>3. (a + 1) \div ClusterSize <= (a \div ClusterSize) + 1
  BY <1>1
<1>4. a = ClusterSize * (a \div ClusterSize) + (a % ClusterSize)
  BY <1>1
<1> QED BY <1>2, <1>3, <1>4

\* A transfer that meets no end of chain stops on a cluster or where the chain ends.
LEMMA OnwardIs ==
    ASSUME NEW t, TableOK(t), NEW f, FileFits(f), NEW k \in Nat \ {0},
           End \notin Touched(t, f, k)
    PROVE  /\ (f.offset + k) \div ClusterSize \in 0 .. Clusters
           /\ Onward(t, f, k) \in Fat \cup {End}
<1>1. f.at \in Fat \cup {End} /\ f.offset \in Nat
  BY ClustersAre DEF FileFits, Opened
<1>2. PICK a \in Nat : a = f.offset + k - 1
  BY <1>1
<1>3. a + 1 = f.offset + k
  BY <1>1, <1>2
<1>4. PICK m \in Nat : m = a \div ClusterSize
  BY Divide
<1>5. PICK n \in Nat : n = (a + 1) \div ClusterSize
  BY Divide
<1>6. n <= m + 1
  BY <1>4, <1>5, Divide
<1>7. m < Clusters
  <2>1. ASSUME Clusters <= m PROVE FALSE
    <3>1. Walk(t, f.at)[Clusters] = End
      BY <1>1, Ends DEF TableOK, Sane, Loops
    <3>2. Clusters \in 0 .. (f.offset + k - 1) \div ClusterSize
      BY <1>2, <1>4, <2>1, ClustersAre
    <3> QED BY <3>1, <3>2 DEF Touched
  <2> QED BY <2>1, ClustersAre
<1>8. n \in 0 .. Clusters
  BY <1>6, <1>7, ClustersAre
<1>9. Walk(t, f.at)[n] \in Fat \cup {End}
  BY <1>1, <1>8, WalkType DEF TableOK, Sane
<1> QED BY <1>3, <1>5, <1>8, <1>9 DEF Onward

LEMMA MovedIs ==
    ASSUME NEW t, TableOK(t), NEW f, FileFits(f), NEW k \in Nat \ {0},
           End \notin Touched(t, f, k), f.pos + k <= MaxLength,
           NEW g, g = Moved(t, f, k)
    PROVE  /\ FileFits(g) /\ g.entry = f.entry /\ g.mode = f.mode /\ g.start = f.start
           /\ g.at = Onward(t, f, k) /\ g.offset = (f.offset + k) % ClusterSize
           /\ g.pos = f.pos + k /\ g.length = f.length
<1>1. PICK at \in Fat \cup {End} : at = Onward(t, f, k)
  BY OnwardIs
<1>2. f.offset \in Nat /\ f.pos \in Nat
  BY ClustersAre DEF FileFits, Opened
<1>3. PICK o \in 0 .. ClusterSize - 1 : o = (f.offset + k) % ClusterSize
  BY <1>2, Divide
<1>4. PICK p \in 0 .. MaxLength : p = f.pos + k
  BY <1>2, ClustersAre
<1>5. g = [f EXCEPT !.at = at, !.offset = o, !.pos = p]
  BY <1>1, <1>3, <1>4 DEF Moved
<1>6. g = [entry |-> f.entry, mode |-> f.mode, start |-> f.start, at |-> at,
           offset |-> o, pos |-> p, length |-> f.length]
  BY <1>5 DEF FileFits, Opened
<1>7. g \in Opened
  BY <1>6 DEF FileFits, Opened
<1> QED BY <1>1, <1>3, <1>4, <1>6, <1>7 DEF FileFits

LEMMA WithLength ==
    ASSUME NEW f, FileFits(f), NEW n \in 0 .. MaxLength, NEW g, g = [f EXCEPT !.length = n]
    PROVE  /\ FileFits(g) /\ g.entry = f.entry /\ g.mode = f.mode /\ g.start = f.start
           /\ g.at = f.at /\ g.offset = f.offset /\ g.pos = f.pos /\ g.length = n
<1>1. g = [entry |-> f.entry, mode |-> f.mode, start |-> f.start, at |-> f.at,
           offset |-> f.offset, pos |-> f.pos, length |-> n]
  BY DEF FileFits, Opened
<1>2. g \in Opened
  BY <1>1 DEF FileFits, Opened
<1> QED BY <1>1, <1>2 DEF FileFits

Placed(f, s, a) == [f EXCEPT !.start = s, !.at = a]

LEMMA WithPlace ==
    ASSUME NEW f, FileFits(f), NEW s \in Fat \ {Root}, NEW a \in Fat \cup {End},
           NEW g, g = Placed(f, s, a)
    PROVE  /\ FileFits(g) /\ g.entry = f.entry /\ g.mode = f.mode /\ g.start = s
           /\ g.at = a /\ g.offset = f.offset /\ g.pos = f.pos /\ g.length = f.length
<1>1. g = [entry |-> f.entry, mode |-> f.mode, start |-> s, at |-> a,
           offset |-> f.offset, pos |-> f.pos, length |-> f.length]
  BY DEF FileFits, Opened, Placed
<1>2. g \in Opened
  BY <1>1 DEF FileFits, Opened
<1> QED BY <1>1, <1>2 DEF FileFits, Somewhere

LEMMA AstrayFits ==
    ASSUME AlwaysFits, GoAstray
    PROVE  AlwaysFits'
BY QuietFits DEF AlwaysFits, GoAstray

-----------------------------------------------------------------------------
(***************************************************************************)
(* Every step keeps it.                                                    *)
(***************************************************************************)
LEMMA BuriedIs ==
    ASSUME NEW path PROVE Buried(path) \subseteq Mishaps
BY DEF Buried, Mishaps

LEMMA FoundPage ==
    ASSUME AlwaysFits, NEW path \in Paths, NEW p, p = Lookup(card, page, path), p \in Page
    PROVE  /\ page[p] # Blank /\ page[p].name = path.name /\ page[p].name \in Files
           /\ EntryFits(page[p]) /\ p # RootEntry /\ page[p].name # Dot
           /\ page[p].cluster \in Somewhere
<1>1. p # Nowhere /\ p # Garbage
  BY PagesAre
<1>2. RootKept(page)
  BY DEF AlwaysFits, PagesOK
<1>3. page[p] # Blank /\ page[p].name = path.name
  BY <1>1, <1>2, LookupIs
<1>4. path.name \in Files /\ Dot \notin Files
  BY NamesAre DEF AlwaysFits
<1>5. EntryFits(page[p])
  BY <1>3 DEF AlwaysFits, PagesOK
<1>6. page[p].name # Dot /\ p # RootEntry
  BY <1>2, <1>3, <1>4 DEF RootKept
<1> QED BY <1>3, <1>4, <1>5, <1>6 DEF EntryFits

LEMMA OpenNewFits ==
    ASSUME AlwaysFits, NEW h \in setup.handles, NEW path \in Paths, NEW mode \in Modes,
           OpenNew(h, path, mode)
    PROVE  AlwaysFits'
<1>1. PICK p : p = Parent(card, page, path)
  OBVIOUS
<1>2. PICK e : e = Made("file", path.name, End, 0)
  OBVIOUS
<1>3. PICK w : w = AddObject(card, page, p, e)
  OBVIOUS
<1>4. /\ Room(page, p)
      /\ IF AddAstray(card, page, p, e) THEN GoAstray
         ELSE /\ w.done
              /\ card' = w.t
              /\ page' = w.pg
              /\ handle' = [handle EXCEPT ![h] = Handle(w.at, mode, e)]
              /\ mishaps' = mishaps \cup Buried(path)
              /\ event' = Quiet
              /\ UNCHANGED <<setup, astray>>
  BY <1>1, <1>2, <1>3 DEF OpenNew
<1>5. CASE AddAstray(card, page, p, e)
  BY <1>4, <1>5, AstrayFits
<1>6. CASE ~AddAstray(card, page, p, e)
  <2>1. TableOK(card) /\ PagesOK(page) /\ RootKept(page) /\ setup \in Setups
    BY DEF AlwaysFits, PagesOK
  <2>2. p \in Page /\ page[p].length < MaxEntries + 2 /\ TailOf(card, page[p]) # End
    BY <1>4, <1>6 DEF Room, AddAstray
  <2>3. path.name \in Files /\ path.dir \notin Files /\ h \in Handles
    BY <2>1, NamesAre
  <2>4. page[p] # Blank /\ page[p].name \notin Files
    <3>1. p # Nowhere /\ p # Garbage
      BY <2>2, PagesAre
    <3> QED BY <1>1, <2>1, <2>3, <3>1, ParentIs
  <2>5. TableOK(w.t) /\ PagesOK(w.pg) /\ (w.done => w.at \in Page \ {RootEntry})
    BY <1>2, <1>3, <2>1, <2>2, <2>3, <2>4, AddOK
  <2>6. EntryFits(e) /\ e.name \in Files
    BY <1>2, <2>3, MadeFits, ClustersAre DEF Somewhere
  <2>7. PICK f : f = Handle(w.at, mode, e)
    OBVIOUS
  <2>8. w.at \in Page /\ w.at # RootEntry
    BY <1>4, <1>6, <2>5
  <2>9. FileFits(f)
    BY <2>6, <2>7, <2>8, HandleFits
  <2>10. handle' = Altered(handle, h, f)
    BY <1>4, <1>6, <2>7 DEF Altered
  <2>11. HandlesOK(handle')
    BY <2>3, <2>9, <2>10, PutHandle DEF AlwaysFits
  <2>12. card' = w.t /\ page' = w.pg /\ mishaps' = mishaps \cup Buried(path)
         /\ event' = Quiet /\ setup' = setup /\ astray' = astray
    BY <1>4, <1>6
  <2>13. mishaps' \subseteq Mishaps
    BY <2>12, BuriedIs DEF AlwaysFits
  <2> QED BY <2>5, <2>11, <2>12, <2>13, QuietFits DEF AlwaysFits
<1> QED BY <1>5, <1>6

\* What the loop leaves of the entry.
LEMMA TruncatedFits ==
    ASSUME NEW t, NEW e, EntryFits(e), e.name \in Files
    PROVE  LET d == Truncated(t, e).e IN EntryFits(d) /\ d.name = e.name
<1>1. PICK d : d = Truncated(t, e).e
  OBVIOUS
<1>2. CASE t.next[e.cluster] = End
  BY <1>1, <1>2 DEF Truncated
<1>3. CASE t.next[e.cluster] # End
  <2>1. d = [e EXCEPT !.length = 0, !.cluster = End, !.exists = TRUE]
    BY <1>1, <1>3 DEF Truncated
  <2>2. PICK b \in BOOLEAN : b = TRUE
    OBVIOUS
  <2>3. d = [e EXCEPT !.length = 0, !.cluster = End, !.exists = b]
    BY <2>1, <2>2
  <2>4. d = [kind |-> e.kind, name |-> e.name, exists |-> b, cluster |-> End, length |-> 0]
    BY <2>3 DEF EntryFits, Entry
  <2>5. 0 \in 0 .. MaxLength
    BY ClustersAre
  <2>6. d \in Entry
    BY <2>4, <2>5 DEF EntryFits, Entry
  <2>7. d.name = e.name /\ d.cluster = End /\ d.length = 0
    BY <2>4
  <2> QED BY <1>1, <2>5, <2>6, <2>7 DEF EntryFits, Somewhere
<1> QED BY <1>2, <1>3

LEMMA OpenFoundFits ==
    ASSUME AlwaysFits, NEW h \in setup.handles, NEW path \in Paths, NEW mode \in Modes,
           OpenFound(h, path, mode)
    PROVE  AlwaysFits'
<1>1. PICK p : p = Lookup(card, page, path)
  OBVIOUS
<1>2. PICK e : e = page[p]
  OBVIOUS
<1> DEFINE cuts == mode = "trunc" \/ ~e.exists
<1>3. PICK w : w = IF cuts THEN Truncated(card, e) ELSE [t |-> card, e |-> e]
  OBVIOUS
<1>4. /\ p \in Page
      /\ IF cuts /\ e.cluster = End THEN GoAstray
         ELSE /\ card' = w.t
              /\ page' = [page EXCEPT ![p] = w.e]
              /\ handle' = [handle EXCEPT ![h] = Handle(p, mode, w.e)]
              /\ mishaps' = mishaps \cup Buried(path)
                   \cup (IF ~e.exists THEN {"reopened"} ELSE {})
                   \cup (IF e.exists /\ cuts
                         THEN {IF card.next[e.cluster] = End THEN "kept" ELSE "dropped"}
                         ELSE {})
                   \cup (IF Held(p) # {} THEN {"shared"} ELSE {})
              /\ event' = Quiet
              /\ UNCHANGED <<setup, astray>>
  BY <1>1, <1>2, <1>3 DEF OpenFound
<1>5. CASE cuts /\ e.cluster = End
  BY <1>4, <1>5, AstrayFits
<1>6. CASE ~ (cuts /\ e.cluster = End)
  <2>1. TableOK(card) /\ PagesOK(page) /\ setup \in Setups /\ HandlesOK(handle)
    BY DEF AlwaysFits
  <2>2. EntryFits(e) /\ e.name \in Files /\ p # RootEntry /\ e.cluster \in Somewhere
    BY <1>1, <1>2, <1>4, FoundPage
  <2>3. TableOK(w.t) /\ EntryFits(w.e) /\ w.e.name \in Files
    <3>1. CASE cuts
      <4>1. e.cluster \in Fat \ {Root}
        BY <1>6, <2>2, <3>1 DEF Somewhere
      <4>2. w = Truncated(card, e)
        BY <1>3, <3>1
      <4> QED BY <2>1, <2>2, <4>1, <4>2, TruncatedOK, TruncatedFits
    <3>2. CASE ~cuts
      <4>1. w.t = card /\ w.e = e
        BY <1>3, <3>2
      <4> QED BY <2>1, <2>2, <4>1
    <3> QED BY <3>1, <3>2
  <2>4. page' = Altered(page, p, w.e)
    BY <1>4, <1>6 DEF Altered
  <2>5. PagesOK(page')
    BY <1>4, <2>1, <2>2, <2>3, <2>4, PutOK
  <2>6. PICK f : f = Handle(p, mode, w.e)
    OBVIOUS
  <2>7. FileFits(f)
    BY <1>4, <2>2, <2>3, <2>6, HandleFits
  <2>8. handle' = Altered(handle, h, f) /\ h \in Handles
    BY <1>4, <1>6, <2>1, <2>6, NamesAre DEF Altered
  <2>9. HandlesOK(handle')
    BY <2>1, <2>7, <2>8, PutHandle
  <2>10. mishaps' \subseteq Mishaps
    <3>1. mishaps' = mishaps \cup Buried(path)
                   \cup (IF ~e.exists THEN {"reopened"} ELSE {})
                   \cup (IF e.exists /\ cuts
                         THEN {IF card.next[e.cluster] = End THEN "kept" ELSE "dropped"}
                         ELSE {})
                   \cup (IF Held(p) # {} THEN {"shared"} ELSE {})
      BY <1>4, <1>6
    <3>2. {"reopened", "kept", "dropped", "shared"} \subseteq Mishaps
      BY DEF Mishaps
    <3>3. mishaps \subseteq Mishaps /\ Buried(path) \subseteq Mishaps
      BY BuriedIs DEF AlwaysFits
    <3> HIDE DEF cuts
    <3> QED BY <3>1, <3>2, <3>3
  <2>11. card' = w.t /\ event' = Quiet /\ setup' = setup /\ astray' = astray
    BY <1>4, <1>6
  <2> QED BY <2>1, <2>3, <2>5, <2>9, <2>10, <2>11, QuietFits DEF AlwaysFits
<1> QED BY <1>5, <1>6

LEMMA CloseFits ==
    ASSUME AlwaysFits, NEW h \in setup.handles, Close(h)
    PROVE  AlwaysFits'
<1>1. handle' = Altered(handle, h, Closed) /\ h \in Handles
  BY NamesAre DEF Close, Altered, AlwaysFits
<1>2. HandlesOK(handle')
  BY <1>1, PutHandle DEF AlwaysFits
<1> QED BY <1>2, QuietFits DEF Close, AlwaysFits

LEMMA ReadFits ==
    ASSUME AlwaysFits, NEW h \in setup.handles, NEW k \in 1 .. MaxLength, Read(h, k)
    PROVE  AlwaysFits'
<1>1. PICK f : f = handle[h]
  OBVIOUS
<1>2. PICK size : size = IF f.pos <= f.length /\ k > f.length - f.pos
                         THEN f.length - f.pos ELSE k
  OBVIOUS
<1>3. /\ IsOpen(h) /\ size > 0 /\ f.pos + size <= MaxLength
      /\ IF End \in Touched(card, f, size) THEN GoAstray
         ELSE /\ handle' = [handle EXCEPT ![h] = Moved(card, f, size)]
              /\ event' = Quiet
              /\ UNCHANGED <<card, page, setup, astray, mishaps>>
  BY <1>1, <1>2 DEF Read
<1>4. CASE End \in Touched(card, f, size)
  BY <1>3, <1>4, AstrayFits
<1>5. CASE End \notin Touched(card, f, size)
  <2>1. h \in Handles /\ HandlesOK(handle) /\ TableOK(card)
    BY NamesAre DEF AlwaysFits
  <2>2. FileFits(f)
    BY <1>1, <1>3, <2>1, OpenFits
  <2>3. f.pos \in Nat /\ f.length \in Nat /\ k \in Nat
    BY <2>2, ClustersAre DEF FileFits, Opened
  <2>4. size \in Nat \ {0}
    BY <1>2, <1>3, <2>3
  <2>5. PICK g : g = Moved(card, f, size)
    OBVIOUS
  <2>6. FileFits(g)
    BY <1>3, <1>5, <2>1, <2>2, <2>4, <2>5, MovedIs
  <2>7. handle' = Altered(handle, h, g)
    BY <1>3, <1>5, <2>5 DEF Altered
  <2>8. HandlesOK(handle')
    BY <2>1, <2>6, <2>7, PutHandle
  <2>9. event' = Quiet /\ UNCHANGED <<card, page, setup, astray, mishaps>>
    BY <1>3, <1>5
  <2> QED BY <2>8, <2>9, QuietFits DEF AlwaysFits
<1> QED BY <1>4, <1>5

\* The pages that are written lie in the clusters that are.
LEMMA TouchedPagesIn ==
    ASSUME NEW t, NEW f, f.offset \in Nat, NEW k \in Nat \ {0},
           NEW c, NEW i, <<c, i>> \in TouchedPages(t, f, k)
    PROVE  c \in Touched(t, f, k)
<1>1. PICK j \in 0 .. k - 1 : <<c, i>> = <<Walk(t, f.at)[(f.offset + j) \div ClusterSize],
                                  (2 * ((f.offset + j) % ClusterSize)) \div ClusterSize>>
  BY DEF TouchedPages
<1>2. PICK a, b \in Nat : a = f.offset + j /\ b = f.offset + k - 1
  OBVIOUS
<1>3. ClusterSize \in Nat /\ ClusterSize >= 1 /\ a <= b
  BY <1>2, ClustersAre
<1>4. a \div ClusterSize <= b \div ClusterSize
  BY <1>3
<1>5. a \div ClusterSize \in 0 .. b \div ClusterSize
  BY <1>4, Divide
<1>6. c = Walk(t, f.at)[a \div ClusterSize]
  BY <1>1, <1>2
<1> QED BY <1>2, <1>5, <1>6 DEF Touched

LEMMA RootIsDir ==
    ASSUME AlwaysFits PROVE Root \in DirClusters
<1>1. page[RootEntry].cluster = Root
  BY DEF AlwaysFits, PagesOK, RootKept
<1>2. Walk(card, Root)[0] = Root /\ 0 \in 0 .. Clusters /\ Root # End
  BY WalkIs, ClustersAre
<1>3. Root \in Reached(card, Root)
  BY <1>2 DEF Reached
<1>4. Root \in ClustersAt(RootEntry)
  BY <1>1, <1>3 DEF ClustersAt
<1> QED BY <1>4 DEF DirClusters, Directories

Written(t, pg, f, k) ==
    [p \in Page |-> IF p \in TouchedPages(t, f, k) THEN Blank ELSE pg[p]]

LEMMA StoreFits ==
    ASSUME AlwaysFits, NEW h \in Handles, NEW t, TableOK(t), NEW pg, PagesOK(pg),
           NEW f, FileFits(f), NEW k \in Nat \ {0}, f.pos + k <= MaxLength,
           Store(h, t, pg, f, k)
    PROVE  AlwaysFits'
<1>1. PICK g : g = Moved(t, f, k)
  OBVIOUS
<1>2. PICK length : length = IF f.mode = "trunc" THEN g.pos ELSE f.length
  OBVIOUS
<1>3. PICK written : written = Written(t, pg, f, k)
  OBVIOUS
<1>4. PICK gl : gl = [g EXCEPT !.length = length]
  OBVIOUS
<1>a. PICK own : own = IF pg[f.entry] # Blank /\ pg[f.entry].exists
                       THEN Reached(t, pg[f.entry].cluster) \cap t.used ELSE {}
  OBVIOUS
<1>5. IF End \in Touched(t, f, k) \/ Touched(t, f, k) \cap DirClusters # {}
      THEN GoAstray
      ELSE /\ card' = t
           /\ handle' = [handle EXCEPT ![h] = gl]
           /\ page' = IF written[f.entry] = Blank THEN written
                      ELSE [written EXCEPT ![f.entry].length = length]
           /\ event' = [stray |-> ~ (Touched(t, f, k) \subseteq own)]
           /\ UNCHANGED <<setup, astray, mishaps>>
  BY <1>1, <1>2, <1>3, <1>4, <1>a DEF Store, Written
<1>6. CASE End \in Touched(t, f, k) \/ Touched(t, f, k) \cap DirClusters # {}
  BY <1>5, <1>6, AstrayFits
<1>7. CASE ~ (End \in Touched(t, f, k) \/ Touched(t, f, k) \cap DirClusters # {})
  <2>1. FileFits(g) /\ g.pos = f.pos + k
    BY <1>1, <1>7, MovedIs
  <2>2. f.offset \in Nat /\ f.pos \in Nat /\ f.entry \in Page /\ f.length \in 0 .. MaxLength
    BY ClustersAre DEF FileFits, Opened
  <2>3. length \in 0 .. MaxLength
    BY <1>2, <2>1, <2>2, ClustersAre
  <2>4. FileFits(gl)
    BY <1>4, <2>1, <2>3, WithLength
  <2>5. handle' = Altered(handle, h, gl)
    BY <1>5, <1>7 DEF Altered
  <2>6. HandlesOK(handle')
    BY <2>4, <2>5, PutHandle DEF AlwaysFits
  <2>7. RootEntry \notin TouchedPages(t, f, k)
    <3>1. Root \notin Touched(t, f, k)
      BY <1>7, RootIsDir
    <3> QED BY <2>2, <3>1, TouchedPagesIn DEF RootEntry
  <2>8. PagesOK(written)
    <3>1. \A p \in Page : written[p] = IF p \in TouchedPages(t, f, k) THEN Blank ELSE pg[p]
      BY <1>3 DEF Written
    <3>2. written = [p \in Page |-> written[p]]
      BY <1>3 DEF Written
    <3>3. RootKept(written)
      BY <2>7, <3>1, PagesAre DEF PagesOK, RootKept
    <3> QED BY <3>1, <3>2, <3>3 DEF PagesOK
  <2>9. PagesOK(page')
    <3>1. page' = IF written[f.entry] = Blank THEN written
                  ELSE [written EXCEPT ![f.entry].length = length]
      BY <1>5, <1>7
    <3>2. CASE written[f.entry] = Blank
      BY <2>8, <3>1, <3>2
    <3>3. CASE written[f.entry] # Blank
      <4>1. EntryFits(written[f.entry])
        BY <2>2, <2>8, <3>3 DEF PagesOK
      <4>2. PICK e : e = [written[f.entry] EXCEPT !.length = length]
        OBVIOUS
      <4>3. length \in Nat /\ length <= MaxLength
        BY <2>3, ClustersAre
      <4>4. EntryFits(e)
        <5>1. PICK d : d = written[f.entry]
          OBVIOUS
        <5>2. EntryFits(d) /\ e = Lengthened(d, length)
          BY <4>1, <4>2, <5>1 DEF Lengthened
        <5> QED BY <4>3, <5>2, LengthFits
      <4>5. page' = Altered(written, f.entry, e)
        BY <3>1, <3>3, <4>2 DEF Altered
      <4>6. f.entry # RootEntry
        BY DEF FileFits
      <4> QED BY <2>2, <2>8, <4>4, <4>5, <4>6, PutOK
    <3> QED BY <3>2, <3>3
  <2>10. card' = t /\ UNCHANGED <<setup, astray, mishaps>>
    BY <1>5, <1>7
  <2>11. event' \in [stray : BOOLEAN]
    <3>1. PICK b \in BOOLEAN : b = ~ (Touched(t, f, k) \subseteq own)
      OBVIOUS
    <3>2. event' = [stray |-> ~ (Touched(t, f, k) \subseteq own)]
      BY <1>5, <1>7
    <3> QED BY <3>1, <3>2
  <2> QED BY <2>6, <2>9, <2>10, <2>11 DEF AlwaysFits
<1> QED BY <1>6, <1>7

LEMMA WriteInPlaceFits ==
    ASSUME AlwaysFits, NEW h \in setup.handles, NEW k \in 1 .. MaxLength, WriteInPlace(h, k)
    PROVE  AlwaysFits'
<1>1. PICK f : f = handle[h]
  OBVIOUS
<1>2. IsOpen(h) /\ f.pos + k <= MaxLength /\ Store(h, card, page, f, k)
  BY <1>1 DEF WriteInPlace
<1>3. h \in Handles /\ HandlesOK(handle) /\ TableOK(card) /\ PagesOK(page)
  BY NamesAre DEF AlwaysFits
<1>4. FileFits(f) /\ k \in Nat \ {0}
  BY <1>1, <1>2, <1>3, OpenFits, ClustersAre
<1> QED BY <1>2, <1>3, <1>4, StoreFits

LEMMA FirstTakenOK ==
    ASSUME setup \in Setups, TableOK(card), NEW f, FileFits(f), FreeFrom(card) # {},
           NEW w, w = FirstTaken(f)
    PROVE  TableOK(w.t) /\ w.start \in Fat \ {Root} /\ w.at \in Fat
<1>1. PICK c \in Fat \ {Root} : c = Found(card)
  BY FoundIs DEF TableOK
<1>2. CASE f.start = End
  <2>1. PICK a : a = Taken(card)
    OBVIOUS
  <2>2. TableOK(a)
    BY <2>1, TakenOK
  <2>3. PICK u : u = SetEof(a, c)
    OBVIOUS
  <2>4. TableOK(u)
    BY <2>2, <2>3, SetEofOK
  <2>5. w = [t |-> u, start |-> c, at |-> c]
    BY <1>1, <1>2, <2>1, <2>3 DEF FirstTaken
  <2> QED BY <2>4, <2>5
<1>3. CASE f.start # End
  <2>1. f.start \in Fat \ {Root}
    BY <1>3 DEF FileFits, Somewhere
  <2>2. PICK last \in Fat : last = LastOf(card, f.start)
    BY <2>1, LastIs
  <2>3. PICK x : x = Extend(card, last, 1)
    OBVIOUS
  <2>4. TableOK(x.t) /\ x.last \in Fat
    BY <2>3, ExtendOK
  <2>5. w = [t |-> x.t, start |-> f.start, at |-> IF f.offset = 0 THEN x.last ELSE last]
    BY <1>3, <2>2, <2>3 DEF FirstTaken
  <2> QED BY <2>1, <2>4, <2>5
<1> QED BY <1>2, <1>3

LEMMA SizeIs ==
    ASSUME NEW n \in Nat PROVE Size(n) \in Nat
<1>1. PICK a \in Nat : a = n + ClusterSize - 1
  BY ClustersAre
<1> QED BY <1>1, Divide DEF Size

LEMMA ShortFits ==
    ASSUME AlwaysFits, NEW h \in Handles, NEW t, TableOK(t), NEW pg, PagesOK(pg),
           NEW f, FileFits(f), Short(h, t, pg, f)
    PROVE  AlwaysFits'
<1>1. handle' = Altered(handle, h, f)
  BY DEF Short, Altered
<1>2. HandlesOK(handle')
  BY <1>1, PutHandle DEF AlwaysFits
<1>3. mishaps' \subseteq Mishaps
  BY DEF Short, AlwaysFits, Mishaps
<1> QED BY <1>2, <1>3, QuietFits DEF Short, AlwaysFits

LEMMA WriteGrowingFits ==
    ASSUME AlwaysFits, NEW h \in setup.handles, NEW k \in 1 .. MaxLength, WriteGrowing(h, k)
    PROVE  AlwaysFits'
<1>1. PICK f : f = handle[h]
  OBVIOUS
<1>2. PICK needed : needed = Needed(f, k)
  OBVIOUS
<1>3. PICK raised : raised = [f EXCEPT !.length = f.pos + k]
  OBVIOUS
<1>4. PICK w : w = FirstTaken(f)
  OBVIOUS
<1>5. PICK c : c = Found(card)
  OBVIOUS
<1>6. PICK x : x = Extend(w.t, c, needed - 1)
  OBVIOUS
<1>7. PICK g : g = [raised EXCEPT !.start = w.start, !.at = w.at]
  OBVIOUS
<1>8. PICK pg : pg = IF f.start # End \/ page[f.entry] = Blank THEN page
                     ELSE [page EXCEPT ![f.entry].cluster = c]
  OBVIOUS
<1>9. /\ IsOpen(h) /\ f.pos + k <= MaxLength /\ needed > 0
      /\ IF EndAstray(f) \/ HintAstray(card) THEN GoAstray
         ELSE IF FreeFrom(card) = {} THEN Short(h, card, page, raised)
         ELSE IF x.got < needed - 1 THEN Short(h, x.t, pg, g)
         ELSE Store(h, x.t, pg, g, k)
  BY <1>1, <1>2, <1>3, <1>4, <1>5, <1>6, <1>7, <1>8 DEF WriteGrowing
<1>10. /\ h \in Handles /\ HandlesOK(handle) /\ TableOK(card) /\ PagesOK(page)
       /\ setup \in Setups
  BY NamesAre DEF AlwaysFits
<1>11. FileFits(f) /\ k \in Nat \ {0}
  BY <1>1, <1>9, <1>10, OpenFits, ClustersAre
<1>12. f.pos \in Nat /\ f.length \in Nat /\ f.pos + k \in 0 .. MaxLength /\ f.entry \in Page
       /\ f.entry # RootEntry
  BY <1>9, <1>11, ClustersAre DEF FileFits, Opened
<1>13. FileFits(raised) /\ raised.pos = f.pos /\ raised.entry = f.entry
  BY <1>3, <1>11, <1>12, WithLength
<1>14. CASE EndAstray(f) \/ HintAstray(card)
  BY <1>9, <1>14, AstrayFits
<1>15. CASE ~ (EndAstray(f) \/ HintAstray(card)) /\ FreeFrom(card) = {}
  BY <1>9, <1>10, <1>13, <1>15, ShortFits
<1>16. CASE ~ (EndAstray(f) \/ HintAstray(card)) /\ FreeFrom(card) # {}
  <2>1. TableOK(w.t) /\ w.start \in Fat \ {Root} /\ w.at \in Fat
    BY <1>4, <1>10, <1>11, <1>16, FirstTakenOK
  <2>2. c \in Fat \ {Root}
    BY <1>5, <1>10, <1>16, FoundIs DEF TableOK
  <2>3. needed - 1 \in Nat
    <3>1. Size(f.pos + k) \in Nat /\ Size(f.length) \in Nat
      BY <1>11, <1>12, SizeIs
    <3> QED BY <1>2, <1>9, <3>1 DEF Needed
  <2>4. TableOK(x.t)
    BY <1>6, <1>10, <2>1, <2>2, <2>3, ExtendOK
  <2>5. FileFits(g) /\ g.pos = f.pos
    <3>1. PICK s \in Fat \ {Root}, a \in Fat \cup {End} : s = w.start /\ a = w.at
      BY <2>1
    <3>2. g = Placed(raised, s, a)
      BY <1>7, <3>1 DEF Placed
    <3> QED BY <1>13, <3>2, WithPlace
  <2>6. PagesOK(pg)
    <3>1. CASE f.start # End \/ page[f.entry] = Blank
      BY <1>8, <1>10, <3>1
    <3>2. CASE ~ (f.start # End \/ page[f.entry] = Blank)
      <4>1. EntryFits(page[f.entry])
        BY <1>10, <1>12, <3>2 DEF PagesOK
      <4>2. PICK e : e = [page[f.entry] EXCEPT !.cluster = c]
        OBVIOUS
      <4>3. EntryFits(e)
        BY <2>2, <4>1, <4>2, ClusterFits
      <4>4. pg = Altered(page, f.entry, e)
        BY <1>8, <3>2, <4>2 DEF Altered
      <4> QED BY <1>10, <1>12, <4>3, <4>4, PutOK
    <3> QED BY <3>1, <3>2
  <2>7. CASE x.got < needed - 1
    BY <1>9, <1>10, <1>16, <2>4, <2>5, <2>6, <2>7, ShortFits
  <2>8. CASE ~ (x.got < needed - 1)
    BY <1>9, <1>10, <1>11, <1>16, <2>4, <2>5, <2>6, <2>8, StoreFits
  <2> QED BY <2>7, <2>8
<1> QED BY <1>14, <1>15, <1>16

LEMMA SeekFits ==
    ASSUME AlwaysFits, NEW h \in setup.handles, NEW p \in 0 .. MaxLength, Seek(h, p)
    PROVE  AlwaysFits'
<1>1. PICK f : f = handle[h]
  OBVIOUS
<1>0. p \in Nat /\ p % ClusterSize \in 0 .. ClusterSize - 1
  BY VmcAssumption, ClustersAre, Divide
<1>2. PICK steps \in Nat : steps = p \div ClusterSize
  BY <1>0, ClustersAre, Divide
<1>3. /\ IsOpen(h)
      /\ IF p > f.length
         THEN /\ handle' = [handle EXCEPT ![h].pos = p]
              /\ mishaps' = mishaps \cup {"overrun"}
              /\ UNCHANGED astray
         ELSE IF End \in {Walk(card, f.start)[j] : j \in 0 .. steps - 1}
         THEN /\ astray' = TRUE
              /\ UNCHANGED <<handle, mishaps>>
         ELSE /\ handle' = [handle EXCEPT ![h] =
                               [@ EXCEPT !.pos = p, !.offset = p % ClusterSize,
                                         !.at = Walk(card, f.start)[steps]]]
              /\ UNCHANGED <<astray, mishaps>>
      /\ event' = Quiet
      /\ UNCHANGED <<card, page, setup>>
  BY <1>1, <1>2 DEF Seek
<1>4. h \in Handles /\ HandlesOK(handle) /\ TableOK(card) /\ PagesOK(page)
  BY NamesAre DEF AlwaysFits
<1>5. FileFits(f) /\ f.start \in Fat \cup {End}
  BY <1>1, <1>3, <1>4, OpenFits DEF FileFits, Opened
<1>6. CASE p > f.length
  <2>1. PICK g : g = [f EXCEPT !.pos = p]
    OBVIOUS
  <2>2. g = [entry |-> f.entry, mode |-> f.mode, start |-> f.start, at |-> f.at,
             offset |-> f.offset, pos |-> p, length |-> f.length]
    BY <1>5, <2>1 DEF FileFits, Opened
  <2>3. FileFits(g)
    BY <1>5, <2>2 DEF FileFits, Opened
  <2>4. handle' = Altered(handle, h, g)
    BY <1>1, <1>3, <1>6, <2>1 DEF Altered
  <2>5. HandlesOK(handle')
    BY <1>4, <2>3, <2>4, PutHandle
  <2>6. mishaps' \subseteq Mishaps
    BY <1>3, <1>6 DEF AlwaysFits, Mishaps
  <2>7. astray' = astray /\ event' = Quiet /\ UNCHANGED <<card, page, setup>>
    BY <1>3, <1>6
  <2> QED BY <2>5, <2>6, <2>7, QuietFits DEF AlwaysFits
<1>7. CASE ~ (p > f.length) /\ End \in {Walk(card, f.start)[j] : j \in 0 .. steps - 1}
  <2>1. astray' = TRUE /\ UNCHANGED <<handle, mishaps, card, page, setup>>
        /\ event' = Quiet
    BY <1>3, <1>7
  <2> QED BY <2>1, QuietFits DEF AlwaysFits
<1>8. CASE ~ (p > f.length) /\ End \notin {Walk(card, f.start)[j] : j \in 0 .. steps - 1}
  <2>1. steps \in 0 .. Clusters
    <3>1. ASSUME Clusters <= steps - 1 PROVE FALSE
      <4>1. Walk(card, f.start)[Clusters] = End
        BY <1>4, <1>5, Ends DEF TableOK, Sane, Loops
      <4>2. Clusters \in 0 .. steps - 1
        BY <3>1, ClustersAre
      <4> QED BY <1>8, <4>1, <4>2
    <3> QED BY <3>1, ClustersAre
  <2>2. PICK at \in Fat \cup {End} : at = Walk(card, f.start)[steps]
    BY <1>4, <1>5, <2>1, WalkType DEF TableOK, Sane
  <2>3. PICK o \in 0 .. ClusterSize - 1 : o = p % ClusterSize
    BY Divide, ClustersAre
  <2>4. PICK g : g = [f EXCEPT !.pos = p, !.offset = o, !.at = at]
    OBVIOUS
  <2>5. g = [entry |-> f.entry, mode |-> f.mode, start |-> f.start, at |-> at,
             offset |-> o, pos |-> p, length |-> f.length]
    BY <1>5, <2>4 DEF FileFits, Opened
  <2>6. FileFits(g)
    BY <1>5, <2>5 DEF FileFits, Opened
  <2>7. handle' = [handle EXCEPT ![h] =
                               [@ EXCEPT !.pos = p, !.offset = p % ClusterSize,
                                         !.at = Walk(card, f.start)[steps]]]
    BY <1>3, <1>8
  <2>8. handle' = Altered(handle, h, g)
    BY <1>1, <2>2, <2>3, <2>4, <2>7 DEF Altered
  <2>9. HandlesOK(handle')
    BY <1>4, <2>6, <2>8, PutHandle
  <2>10. UNCHANGED <<astray, mishaps, card, page, setup>> /\ event' = Quiet
    BY <1>3, <1>8
  <2> QED BY <2>9, <2>10, QuietFits DEF AlwaysFits
<1> QED BY <1>6, <1>7, <1>8

LEMMA LeavesFits ==
    ASSUME AlwaysFits, NEW w, WorldOK(w), NEW more, more \subseteq Mishaps, Leaves(w, more)
    PROVE  AlwaysFits'
<1>1. CASE ~w.well
  <2>1. GoAstray
    BY <1>1 DEF Leaves
  <2> QED BY <2>1, AstrayFits
<1>2. CASE w.well
  <2>1. card' = w.t /\ page' = w.pg /\ mishaps' = w.mishaps \cup more /\ event' = Quiet
        /\ handle' = handle /\ setup' = setup /\ astray' = astray
    BY <1>2 DEF Leaves
  <2> QED BY <2>1, QuietFits DEF AlwaysFits, WorldOK
<1> QED BY <1>1, <1>2

LEMMA BeforeOK ==
    ASSUME AlwaysFits
    PROVE  WorldOK(Before) /\ Before.pg = page /\ Before.t = card
           /\ Before.mishaps = mishaps /\ Before.well
<1>1. PICK b \in BOOLEAN : b = TRUE
  OBVIOUS
<1>2. Before = World(card, page, b, mishaps)
  BY <1>1 DEF Before, World
<1>3. Before.pg = page /\ Before.t = card /\ Before.mishaps = mishaps /\ Before.well = b
  BY <1>2 DEF World
<1>4. Before = World(Before.t, Before.pg, Before.well, Before.mishaps)
  BY <1>2, <1>3
<1> QED BY <1>1, <1>3, <1>4 DEF WorldOK, AlwaysFits

LEMMA RemoveFits ==
    ASSUME AlwaysFits, NEW path \in Paths, Remove(path)
    PROVE  AlwaysFits'
<1>1. PICK p : p = Lookup(card, page, path)
  OBVIOUS
<1>2. p \in Page /\ Leaves(RemoveObject(Before, p), Buried(path))
  BY <1>1 DEF Remove
<1>3. page[p] # Blank /\ page[p].name # Dot
  BY <1>1, <1>2, FoundPage
<1>4. PICK w : w = Before
  OBVIOUS
<1>5. WorldOK(w) /\ w.pg = page
  BY <1>4, BeforeOK
<1>6. WorldOK(RemoveObject(w, p))
  BY <1>2, <1>3, <1>5, RemoveOK
<1> QED BY <1>2, <1>4, <1>6, BuriedIs, LeavesFits

LEMMA RenameFits ==
    ASSUME AlwaysFits, NEW path \in Paths, NEW n \in setup.names, Rename(path, n)
    PROVE  AlwaysFits'
<1>1. PICK p : p = Lookup(card, page, path)
  OBVIOUS
<1>2. /\ p \in Page /\ page' = [page EXCEPT ![p].name = n]
      /\ mishaps' = mishaps \cup Buried(path) /\ event' = Quiet
      /\ UNCHANGED <<card, handle, setup, astray>>
  BY <1>1 DEF Rename
<1>3. EntryFits(page[p]) /\ page[p].name \in Files /\ p # RootEntry
  BY <1>1, <1>2, FoundPage
<1>4. n \in Files
  BY NamesAre DEF AlwaysFits
<1>5. PICK e : e = [page[p] EXCEPT !.name = n]
  OBVIOUS
<1>6. EntryFits(e)
  BY <1>3, <1>4, <1>5, NameFits
<1>7. page' = Altered(page, p, e)
  BY <1>2, <1>5 DEF Altered
<1>9. PagesOK(page) /\ p \in Page /\ p # RootEntry
  BY <1>2, <1>3 DEF AlwaysFits
<1>8. PagesOK(page')
  BY <1>6, <1>7, <1>9, PutOK
<1> QED BY <1>2, <1>8, BuriedIs, QuietFits DEF AlwaysFits

LEMMA RootPage ==
    ASSUME AlwaysFits
    PROVE  /\ RootEntry \in Page /\ page[RootEntry] # Blank /\ EntryFits(page[RootEntry])
           /\ page[RootEntry].name = Dot /\ page[RootEntry].name \notin Files
           /\ page[RootEntry].cluster = Root /\ page[RootEntry].length \in Nat
<1>1. page[RootEntry] # Blank /\ page[RootEntry].name = Dot /\ page[RootEntry].cluster = Root
  BY DEF AlwaysFits, PagesOK, RootKept
<1>2. EntryFits(page[RootEntry])
  BY <1>1, PagesAre DEF AlwaysFits, PagesOK
<1>3. page[RootEntry].length \in Nat
  BY <1>2, ClustersAre DEF EntryFits, Entry
<1>4. Dot \notin Files
  BY VmcAssumption
<1> QED BY <1>1, <1>2, <1>3, <1>4, PagesAre

LEMMA MkdirNewFits ==
    ASSUME AlwaysFits, NEW n \in setup.folders, MkdirNew(n)
    PROVE  AlwaysFits'
<1>1. PICK e : e = Made("folder", n, End, 0)
  OBVIOUS
<1>2. PICK w : w = AddObject(card, page, RootEntry, e)
  OBVIOUS
<1>3. /\ Room(page, RootEntry)
      /\ IF AddAstray(card, page, RootEntry, e) THEN GoAstray
         ELSE /\ card' = w.t /\ page' = w.pg
              /\ mishaps' = IF w.done THEN mishaps ELSE mishaps \cup {"half"}
              /\ event' = Quiet
              /\ UNCHANGED <<handle, setup, astray>>
  BY <1>1, <1>2 DEF MkdirNew
<1>4. CASE AddAstray(card, page, RootEntry, e)
  BY <1>3, <1>4, AstrayFits
<1>5. CASE ~AddAstray(card, page, RootEntry, e)
  <2>1. n \in Folders
    BY NamesAre DEF AlwaysFits
  <2>2. page[RootEntry].length < MaxEntries + 2 /\ TailOf(card, page[RootEntry]) # End
    BY <1>3, <1>5 DEF Room, AddAstray
  <2>3. TableOK(w.t) /\ PagesOK(w.pg)
    BY <1>1, <1>2, <2>1, <2>2, RootPage, AddOK DEF AlwaysFits
  <2>4. card' = w.t /\ page' = w.pg /\ event' = Quiet /\ UNCHANGED <<handle, setup, astray>>
    BY <1>3, <1>5
  <2>5. mishaps' \subseteq Mishaps
    BY <1>3, <1>5 DEF AlwaysFits, Mishaps
  <2> QED BY <2>3, <2>4, <2>5, QuietFits DEF AlwaysFits
<1> QED BY <1>4, <1>5

\* A folder found in the root directory.
LEMMA FoundFolder ==
    ASSUME AlwaysFits, NEW n \in setup.folders,
           NEW p, p = Scan(card, page, RootEntry, n), p \in Page
    PROVE  /\ page[p] # Blank /\ page[p].name = n /\ n \in Folders /\ n # Dot /\ n \notin Files
           /\ EntryFits(page[p]) /\ p # RootEntry /\ page[p].cluster \in Fat \ {Root}
<1>1. p # Nowhere /\ p # Garbage
  BY PagesAre
<1>2. page[p] # Blank /\ page[p].name = n
  BY <1>1, ScanIs
<1>3. n \in Folders /\ n # Dot /\ n \notin Files
  BY NamesAre DEF AlwaysFits
<1>4. EntryFits(page[p]) /\ p # RootEntry
  BY <1>2, <1>3 DEF AlwaysFits, PagesOK, RootKept
<1>5. page[p].cluster \in Fat \ {Root}
  BY <1>2, <1>3, <1>4, ClustersAre DEF EntryFits, Somewhere
<1> QED BY <1>2, <1>3, <1>4, <1>5

LEMMA MkdirHiddenFits ==
    ASSUME AlwaysFits, NEW n \in setup.folders, MkdirHidden(n)
    PROVE  AlwaysFits'
<1>1. PICK p : p = Scan(card, page, RootEntry, n)
  OBVIOUS
<1>2. PICK c : c = page[p].cluster
  OBVIOUS
<1>3. PICK second : second = card.next[c]
  OBVIOUS
<1>4. /\ p \in Page
      /\ IF second = End THEN GoAstray
         ELSE /\ card' = SetEof(SetLink(card, c, second), second)
              /\ page' = [page EXCEPT ![p].exists = TRUE]
              /\ mishaps' \in {mishaps, mishaps \cup {"retaken"}}
              /\ event' = Quiet
              /\ UNCHANGED <<handle, setup, astray>>
  BY <1>1, <1>2, <1>3 DEF MkdirHidden
<1>5. CASE second = End
  BY <1>4, <1>5, AstrayFits
<1>6. CASE second # End
  <2>1. EntryFits(page[p]) /\ p # RootEntry /\ c \in Fat \ {Root}
    BY <1>1, <1>2, <1>4, FoundFolder
  <2>2. second \in Fat \ {Root}
    BY <1>3, <1>6, <2>1 DEF AlwaysFits, TableOK, Sane, Linked
  <2>3. PICK a : a = SetLink(card, c, second)
    OBVIOUS
  <2>4. /\ Shaped(a) /\ a.next = Altered(card.next, c, second)
        /\ a.used = card.used \cup {c} /\ a.hint = card.hint
    BY <2>3, SetLinkIs DEF AlwaysFits, TableOK, Sane
  <2>5. a.next = card.next
    BY <1>3, <2>1, <2>4 DEF AlwaysFits, TableOK, Sane, Linked, Altered
  <2>6. TableOK(a)
    <3>1. Sane(a)
      BY <2>4, <2>5 DEF AlwaysFits, TableOK, Sane, Linked, Ranked
    <3>2. HintLow(a)
      BY <2>4 DEF AlwaysFits, TableOK, HintLow
    <3> QED BY <2>1, <2>4, <2>5, <3>1, <3>2 DEF AlwaysFits, TableOK
  <2>7. PICK u : u = SetEof(a, second)
    OBVIOUS
  <2>8. TableOK(u)
    BY <2>2, <2>6, <2>7, SetEofOK
  <2>9. PICK b \in BOOLEAN : b = TRUE
    OBVIOUS
  <2>10. PICK e : e = [page[p] EXCEPT !.exists = b]
    OBVIOUS
  <2>11. EntryFits(e)
    BY <2>1, <2>10, ExistsFits
  <2>12. page' = Altered(page, p, e)
    BY <1>4, <1>6, <2>9, <2>10 DEF Altered
  <2>13. PagesOK(page')
    BY <1>4, <2>1, <2>11, <2>12, PutOK DEF AlwaysFits
  <2>14. card' = u /\ event' = Quiet /\ UNCHANGED <<handle, setup, astray>>
    BY <1>4, <1>6, <2>3, <2>7
  <2>15. mishaps' \subseteq Mishaps
    BY <1>4, <1>6 DEF AlwaysFits, Mishaps
  <2> QED BY <2>8, <2>13, <2>14, <2>15, QuietFits DEF AlwaysFits
<1> QED BY <1>5, <1>6

\* Emptying leaves the entries' names and makes none unreadable.
SameNames(pg, w) ==
    \A q \in Page : pg[q] # Blank => w.pg[q] # Blank /\ w.pg[q].name = pg[q].name

LEMMA RemoveNames ==
    ASSUME NEW w, WorldOK(w), NEW p \in Page, w.pg[p] # Blank, w.pg[p].name # Dot,
           NEW pg, SameNames(pg, w), NEW x, x = RemoveObject(w, p)
    PROVE  SameNames(pg, x)
<1>1. PICK c : c = w.pg[p].cluster
  OBVIOUS
<1>2. x = IF c = End \/ Loops(w.t, c) THEN Ill(w) ELSE RemovedAt(w, p, c)
  BY <1>1, RemoveIs
<1>3. PICK y : y = Ill(w)
  OBVIOUS
<1>4. y.pg = w.pg
  BY <1>3, IllOK
<1>5. PICK a : a = Altered(w.pg, p, Toggled(w.pg[p]))
  OBVIOUS
<1>6. /\ a[p] = Toggled(w.pg[p]) /\ a[p] # Blank
      /\ \A q \in Page : q # p => a[q] = w.pg[q]
  BY <1>5, RemovePagesOK DEF WorldOK
<1>7. Toggled(w.pg[p]).name = w.pg[p].name
  BY DEF Toggled, WorldOK, PagesOK, EntryFits, Entry
<1>8. x.pg \in {w.pg, a}
  <2>1. CASE c = End \/ Loops(w.t, c)
    BY <1>2, <1>3, <1>4, <2>1
  <2>2. CASE ~ (c = End \/ Loops(w.t, c))
    BY <1>2, <1>5, <2>2 DEF RemovedAt, World
  <2> QED BY <2>1, <2>2
<1>9. CASE x.pg = w.pg
  BY <1>9 DEF SameNames
<1>10. CASE x.pg = a
  BY <1>6, <1>7, <1>10 DEF SameNames
<1> QED BY <1>8, <1>9, <1>10

LEMMA RemoveChildNames ==
    ASSUME NEW w, WorldOK(w), NEW n, NEW p, NEW i, NEW pg, SameNames(pg, w)
    PROVE  SameNames(pg, RemoveChild(w, n, p, i))
<1> DEFINE q == At(w.t, w.pg[p].cluster, i)
           found == Lookup(w.t, w.pg, [dir |-> n, name |-> w.pg[q].name])
<1>1. RemoveChild(w, n, p, i) =
        IF ~w.well \/ i < 2 \/ i >= w.pg[p].length THEN w
        ELSE IF Unreadable(w.pg, q) \/ w.pg[q].name = Dot THEN Ill(w)
        ELSE IF ~w.pg[q].exists THEN w
        ELSE IF found = Nowhere THEN Passed(w)
        ELSE IF found = Garbage THEN Ill(w)
        ELSE RemoveObject(w, found)
  BY DEF RemoveChild, Ill, Passed
<1>2. SameNames(pg, Ill(w))
  <2>1. PICK x : x = Ill(w)
    OBVIOUS
  <2>2. x.pg = w.pg
    BY <2>1, IllOK
  <2> QED BY <2>1, <2>2 DEF SameNames
<1>3. ASSUME w.pg[q].name # Dot, found # Nowhere, found # Garbage
      PROVE  SameNames(pg, RemoveObject(w, found))
  <2>1. PICK path : path = [dir |-> n, name |-> w.pg[q].name]
    OBVIOUS
  <2>2. PICK r : r = found
    OBVIOUS
  <2>3. r = Lookup(w.t, w.pg, path) /\ path.name = w.pg[q].name
    BY <2>1, <2>2
  <2>4. RootKept(w.pg)
    BY DEF WorldOK, PagesOK
  <2>5. r # Nowhere /\ r # Garbage
    BY <1>3, <2>2
  <2>6. r \in Page /\ w.pg[r] # Blank /\ w.pg[r].name = path.name
    BY <2>3, <2>4, <2>5, LookupIs
  <2>7. SameNames(pg, RemoveObject(w, r))
    BY <1>3, <2>3, <2>6, RemoveNames
  <2> QED BY <2>2, <2>7
<1> HIDE DEF found, q
<1>4. SameNames(pg, Passed(w))
  <2>1. PICK x : x = Passed(w)
    OBVIOUS
  <2>2. x.pg = w.pg
    BY <2>1, PassedOK
  <2> QED BY <2>1, <2>2 DEF SameNames
<1> QED BY <1>1, <1>2, <1>3, <1>4

LEMMA EmptiedNames ==
    ASSUME NEW n, NEW p, WorldOK(Before), Before.pg = page
    PROVE  SameNames(page, Emptied(n, p))
<1>1. PICK f : Removes(f, MaxEntries + 1, n, p) /\ Emptied(n, p) = f[MaxEntries + 1]
  BY EmptiedIs
<1> DEFINE k == MaxEntries + 1
           bad == {m \in 0 .. k : ~ (WorldOK(f[m]) /\ SameNames(page, f[m]))}
<1>2. ASSUME bad # {} PROVE FALSE
  <2>1. bad \in SUBSET Nat
    OBVIOUS
  <2>2. PICK m \in bad : \A v \in bad : m <= v
    BY <1>2, <2>1, LeastIn
  <2>3. m # 0
    BY <1>1, <2>2 DEF Removes, SameNames
  <2>4. m \in 1 .. k /\ m - 1 \in 0 .. k /\ ~ (m <= m - 1)
    BY <2>1, <2>3, ClustersAre
  <2>5. WorldOK(f[m - 1]) /\ SameNames(page, f[m - 1])
    BY <2>2, <2>4
  <2>6. f[m] = RemoveChild(f[m - 1], n, p, m)
    BY <1>1, <2>4 DEF Removes
  <2> QED BY <2>2, <2>5, <2>6, RemoveChildOK, RemoveChildNames
<1>3. k \in 0 .. k
  BY ClustersAre
<1> QED BY <1>1, <1>2, <1>3

LEMMA RmdirFits ==
    ASSUME AlwaysFits, NEW n \in setup.folders, Rmdir(n)
    PROVE  AlwaysFits'
<1>1. PICK p : p = Scan(card, page, RootEntry, n)
  OBVIOUS
<1>2. PICK w : w = Emptied(n, p)
  OBVIOUS
<1>3. p \in Page /\ IF ~w.well THEN GoAstray ELSE Leaves(RemoveObject(w, p), {})
  BY <1>1, <1>2 DEF Rmdir
<1>4. WorldOK(Before) /\ Before.pg = page
  BY BeforeOK
<1>5. WorldOK(w) /\ SameNames(page, w)
  BY <1>2, <1>4, EmptiedOK, EmptiedNames
<1>6. page[p] # Blank /\ page[p].name # Dot
  BY <1>1, <1>3, FoundFolder
<1>7. w.pg[p] # Blank /\ w.pg[p].name # Dot
  BY <1>3, <1>5, <1>6 DEF SameNames
<1>8. WorldOK(RemoveObject(w, p))
  BY <1>3, <1>5, <1>7, RemoveOK
<1>9. CASE ~w.well
  BY <1>3, <1>9, AstrayFits
<1>10. CASE w.well
  <2>1. Leaves(RemoveObject(w, p), {})
    BY <1>3, <1>10
  <2> QED BY <1>8, <2>1, LeavesFits
<1> QED BY <1>9, <1>10

LEMMA CleanFits ==
    ASSUME AlwaysFits, Clean
    PROVE  AlwaysFits'
<1>1. PICK cs : cs = {c \in Fat : c \notin card.used /\ card.next[c] # End}
  OBVIOUS
<1>2. cs \in SUBSET Fat /\ Root \notin cs
  BY <1>1 DEF AlwaysFits, TableOK
<1>3. card' = SetFree(card, cs)
  BY <1>1 DEF Clean
<1>4. TableOK(card')
  BY <1>2, <1>3, SetFreeOK DEF AlwaysFits
<1> QED BY <1>4, QuietFits DEF Clean, AlwaysFits

LEMMA RemountFits ==
    ASSUME AlwaysFits, Remount
    PROVE  AlwaysFits'
<1>1. PICK n, s, l : card = [next |-> n, used |-> s, hint |-> l]
  BY DEF AlwaysFits, TableOK, Sane, Shaped
<1>2. PICK u : u = [next |-> n, used |-> s, hint |-> FirstAllocatable]
  OBVIOUS
<1>3. u.next = card.next /\ u.used = card.used /\ u.hint = FirstAllocatable /\ Shaped(u)
  BY <1>1, <1>2 DEF Shaped
<1>4. card' = u
  BY <1>1, <1>2 DEF Remount
<1>5. Sane(u)
  BY <1>3 DEF AlwaysFits, TableOK, Sane, Linked, Ranked
<1>6. u.hint \in 0 .. FirstAllocatable + Clusters
  BY <1>3, ClustersAre
<1>8. HintLow(u)
  BY <1>3, ClustersAre DEF HintLow
<1>7. TableOK(u)
  BY <1>3, <1>5, <1>6, <1>8 DEF AlwaysFits, TableOK
<1> QED BY <1>4, <1>7, QuietFits DEF Remount, AlwaysFits

-----------------------------------------------------------------------------
(***************************************************************************)
(* The driver never leaves AlwaysFits.                                     *)
(***************************************************************************)
LEMMA InitFits == Init => AlwaysFits
<1> SUFFICES ASSUME Init PROVE AlwaysFits
  OBVIOUS
<1>1. card = [next |-> [c \in Fat |-> End], used |-> {Root}, hint |-> FirstAllocatable]
  BY DEF Init
<1>2. TableOK(card)
  <2>1. card.next = [c \in Fat |-> End] /\ card.used = {Root}
        /\ card.hint = FirstAllocatable /\ Shaped(card)
    BY <1>1 DEF Shaped
  <2>2. Linked(card) /\ \A c \in Fat : card.next[c] = End
    BY <2>1 DEF Linked
  <2>3. PICK r : r = [c \in Fat |-> 0]
    OBVIOUS
  <2>4. r \in [Fat -> Nat]
    BY <2>3
  <2>5. Ranked(card)
    BY <2>2, <2>4, ClustersAre DEF Ranked
  <2>6. card.hint \in 0 .. FirstAllocatable + Clusters
    BY <2>1, ClustersAre
  <2>7. HintLow(card)
    BY <2>1, ClustersAre DEF HintLow
  <2> QED BY <2>1, <2>2, <2>5, <2>6, <2>7, ClustersAre DEF TableOK, Sane
<1>3. PagesOK(page)
  <2>1. PICK d : d = Made("folder", Dot, Root, 2)
    OBVIOUS
  <2>2. PICK e : e = Made("folder", Dot, Root, 0)
    OBVIOUS
  <2>3. Root \in Fat /\ 2 <= MaxEntries + 2 /\ 0 <= MaxEntries + 2
    BY ClustersAre
  <2>4. EntryFits(d) /\ d.name = Dot /\ d.cluster = Root
    BY <2>1, <2>3, MadeFits
  <2>5. EntryFits(e)
    BY <2>2, <2>3, MadeFits
  <2>6. page = [p \in Page |-> IF p = RootEntry THEN d
                               ELSE IF p = <<Root, 1>> THEN e ELSE Blank]
    BY <2>1, <2>2 DEF Init
  <2>7. \A p \in Page : page[p] = Blank \/ EntryFits(page[p])
    BY <2>4, <2>5, <2>6
  <2>8. page[RootEntry] = d /\ page = [p \in Page |-> page[p]]
    BY <2>6, PagesAre
  <2>9. d # Blank
    BY <2>4, BlankAssumption DEF EntryFits
  <2> QED BY <2>4, <2>7, <2>8, <2>9 DEF PagesOK, RootKept
<1>4. HandlesOK(handle)
  BY DEF Init, HandlesOK
<1>5. setup \in Setups /\ astray = FALSE /\ mishaps = {} /\ event = Quiet
  BY DEF Init
<1> QED BY <1>2, <1>3, <1>4, <1>5, QuietFits DEF AlwaysFits

LEMMA StepFits == AlwaysFits /\ [Next]_vars => AlwaysFits'
<1> SUFFICES ASSUME AlwaysFits, [Next]_vars PROVE AlwaysFits'
  OBVIOUS
<1>1. ASSUME NEW h \in setup.handles, NEW path \in Paths, NEW mode \in Modes,
             OpenNew(h, path, mode) \/ OpenFound(h, path, mode)
      PROVE  AlwaysFits'
  BY <1>1, OpenNewFits, OpenFoundFits
<1>2. ASSUME NEW h \in setup.handles, Close(h) PROVE AlwaysFits'
  BY <1>2, CloseFits
<1>3. ASSUME NEW h \in setup.handles, NEW k \in 1 .. MaxLength,
             Read(h, k) \/ WriteInPlace(h, k) \/ WriteGrowing(h, k)
      PROVE  AlwaysFits'
  BY <1>3, ReadFits, WriteInPlaceFits, WriteGrowingFits
<1>4. ASSUME NEW h \in setup.handles, NEW p \in 0 .. MaxLength, Seek(h, p)
      PROVE  AlwaysFits'
  BY <1>4, SeekFits
<1>5. ASSUME NEW path \in Paths, Remove(path) \/ SearchAstray(path) PROVE AlwaysFits'
  BY <1>5, RemoveFits, AstrayFits DEF SearchAstray
<1>6. ASSUME NEW path \in Paths, NEW n \in setup.names, Rename(path, n)
      PROVE  AlwaysFits'
  BY <1>6, RenameFits
<1>7. ASSUME NEW n \in setup.folders, MkdirNew(n) \/ MkdirHidden(n) \/ Rmdir(n)
      PROVE  AlwaysFits'
  BY <1>7, MkdirNewFits, MkdirHiddenFits, RmdirFits
<1>8. CASE Clean
  BY <1>8, CleanFits
<1>9. CASE Remount
  BY <1>9, RemountFits
<1>10. CASE Over \/ UNCHANGED vars
  BY <1>10 DEF Over, vars, AlwaysFits
<1> QED BY <1>1, <1>2, <1>3, <1>4, <1>5, <1>6, <1>7, <1>8, <1>9, <1>10 DEF Next

\* Whatever a program calls and whatever has gone wrong before (a full card, a file two
\* handles share, clusters taken back), the table has no cycle and every link stays on
\* the card, the root directory keeps its cluster, and every entry and every open handle
\* is one the driver could have written.
THEOREM VmcAlwaysFits == Spec => []AlwaysFits
BY InitFits, StepFits, PTL DEF Spec

LEMMA FitsIsTyped == AlwaysFits => TypeOK
<1> SUFFICES ASSUME AlwaysFits PROVE TypeOK
  OBVIOUS
<1>1. card \in Card
  <2>1. PICK n, u, l : card = [next |-> n, used |-> u, hint |-> l]
    BY DEF AlwaysFits, TableOK, Sane, Shaped
  <2>2. card.next = n /\ card.used = u /\ card.hint = l
    BY <2>1
  <2>3. n \in [Fat -> Fat \cup {End}] /\ u \in SUBSET Fat
        /\ l \in 0 .. FirstAllocatable + Clusters
    BY <2>2 DEF AlwaysFits, TableOK, Sane, Linked
  <2> QED BY <2>1, <2>3 DEF Card
<1>2. \A p \in Page : page[p] = Blank \/ page[p] \in Entry
  BY DEF AlwaysFits, PagesOK, EntryFits
<1>3. \A h \in Handles : IsOpen(h) => handle[h] \in Opened
  BY OpenFits DEF AlwaysFits, FileFits
<1> QED BY <1>1, <1>2, <1>3 DEF AlwaysFits, TypeOK

\* Type correctness: every link leads to a cluster of the card or ends, every page of a
\* directory holds an entry, and no position or length of a handle leaves its bounds.
THEOREM TypeCorrect == Spec => []TypeOK
BY VmcAlwaysFits, FitsIsTyped, PTL

LEMMA FitsEnds == AlwaysFits => ChainsEnd
BY Ends DEF AlwaysFits, TableOK, Sane, ChainsEnd

\* None of the driver's loops over a file's clusters runs for ever: from any cluster the
\* links come to FREE or EOF, even when files share clusters or have lost them.
THEOREM EveryChainEnds == Spec => []ChainsEnd
BY VmcAlwaysFits, FitsEnds, PTL

-----------------------------------------------------------------------------
(***************************************************************************)
(* Walks that stay as they are, and walks that get a cluster more.         *)
(***************************************************************************)
\* A table that agrees on the clusters walked is walked alike.
LEMMA WalkSame ==
    ASSUME NEW t, NEW u, NEW c, \A d \in Reached(t, c) : u.next[d] = t.next[d]
    PROVE  Walk(u, c) = Walk(t, c) /\ Reached(u, c) = Reached(t, c)
<1> DEFINE bad == {m \in 0 .. Clusters : Walk(u, c)[m] # Walk(t, c)[m]}
<1>1. ASSUME bad # {} PROVE FALSE
  <2>1. bad \in SUBSET Nat
    BY ClustersAre
  <2>2. PICK m \in bad : \A v \in bad : m <= v
    BY <1>1, <2>1, LeastIn
  <2>3. m # 0
    BY <2>2, WalkIs
  <2>4. m \in 1 .. Clusters /\ m - 1 \in 0 .. Clusters /\ ~ (m <= m - 1)
    BY <2>1, <2>3, ClustersAre
  <2>5. PICK d : d = Walk(t, c)[m - 1]
    OBVIOUS
  <2>6. Walk(u, c)[m - 1] = d
    BY <2>2, <2>4, <2>5
  <2>7. Walk(u, c)[m] = OnFrom(u, d) /\ Walk(t, c)[m] = OnFrom(t, d)
    BY <2>4, <2>5, <2>6, WalkIs
  <2>8. d # End => d \in Reached(t, c)
    BY <2>4, <2>5 DEF Reached
  <2> QED BY <2>2, <2>7, <2>8 DEF OnFrom
<1>2. \A k \in 0 .. Clusters : Walk(u, c)[k] = Walk(t, c)[k]
  BY <1>1
<1>3. Walk(u, c) = Walk(t, c)
  <2>1. Walk(u, c) = [k \in 0 .. Clusters |-> Walk(u, c)[k]]
        /\ Walk(t, c) = [k \in 0 .. Clusters |-> Walk(t, c)[k]]
    BY WalkIs
  <2> QED BY <1>2, <2>1
<1> QED BY <1>3 DEF Reached

\* A walk of n clusters, and nothing behind them.
Runs(t, c, n) ==
    /\ n \in 1 .. Clusters
    /\ \A k \in 0 .. n - 1 : Walk(t, c)[k] \in Fat
    /\ Walk(t, c)[n] = End

LEMMA RunsIs ==
    ASSUME NEW t, Linked(t), Ranked(t), NEW c, NEW n, Runs(t, c, n)
    PROVE  /\ c \in Fat
           /\ Reached(t, c) = {Walk(t, c)[k] : k \in 0 .. n - 1}
           /\ Reached(t, c) \in SUBSET Fat
           /\ IsFiniteSet(Reached(t, c)) /\ Cardinality(Reached(t, c)) = n
           /\ Walk(t, c)[n - 1] \in Reached(t, c) /\ t.next[Walk(t, c)[n - 1]] = End
           /\ \A d \in Reached(t, c) : t.next[d] = End => d = Walk(t, c)[n - 1]
<1> DEFINE w == Walk(t, c)
<1>1. n \in 1 .. Clusters /\ n \in Nat /\ w[n] = End /\ n - 1 \in 0 .. n - 1
      /\ n \in 0 .. Clusters /\ n - 1 \in 0 .. Clusters /\ 0 \in 0 .. n - 1
  BY ClustersAre DEF Runs
<1>2. \A k \in 0 .. n - 1 : w[k] \in Fat /\ w[k] # End /\ k \in 0 .. Clusters /\ k \in Nat
  BY <1>1, ClustersAre DEF Runs
<1>3. c \in Fat
  BY <1>1, <1>2, WalkIs
<1>4. \A k \in n .. Clusters : w[k] = End
  BY <1>1, WalkTail
<1>5. Reached(t, c) = {w[k] : k \in 0 .. n - 1}
  <2>1. \A k \in 0 .. Clusters : k \in 0 .. n - 1 \/ k \in n .. Clusters
    BY <1>1, ClustersAre
  <2> QED BY <1>2, <1>4, <2>1 DEF Reached
<1>6. \A j, k \in 0 .. n - 1 : w[j] = w[k] => j = k
  BY <1>2, <1>3, WalkDistinct
<1>7. IsFiniteSet(Reached(t, c)) /\ Cardinality(Reached(t, c)) = n
  <2>1. PICK f : f = [k \in 0 .. n - 1 |-> w[k]]
    OBVIOUS
  <2>2. PICK S : S = 0 .. n - 1
    OBVIOUS
  <2>3. f \in [S -> Reached(t, c)]
    BY <1>5, <2>1, <2>2
  <2>4. \A a, b \in S : f[a] = f[b] => a = b
    BY <1>6, <2>1, <2>2
  <2>5. \A d \in Reached(t, c) : \E a \in S : f[a] = d
    BY <1>5, <2>1, <2>2
  <2>6. f \in Injection(S, Reached(t, c))
    BY <2>3, <2>4 DEF Injection, IsInjective
  <2>9. f \in Surjection(S, Reached(t, c))
    BY <2>3, <2>5 DEF Surjection
  <2>7. ExistsBijection(S, Reached(t, c))
    BY <2>6, <2>9 DEF ExistsBijection, Bijection
  <2>8. IsFiniteSet(S) /\ Cardinality(S) = n
    BY <1>1, <2>2, FS_Interval
  <2> QED BY <2>7, <2>8, FS_Bijection
<1>8. ASSUME NEW k \in 0 .. n - 1 PROVE t.next[w[k]] = w[k + 1] /\ (t.next[w[k]] = End => k = n - 1)
  <2>1. k + 1 \in 1 .. Clusters /\ (k + 1) - 1 = k /\ (k = n - 1 \/ k + 1 \in 0 .. n - 1)
    BY <1>1, ClustersAre
  <2>2. w[k + 1] = OnFrom(t, w[k])
    BY <2>1, WalkIs
  <2>3. t.next[w[k]] = w[k + 1]
    BY <1>2, <2>2 DEF OnFrom
  <2> QED BY <1>2, <2>1, <2>3
<1>9. w[n - 1] \in Reached(t, c) /\ t.next[w[n - 1]] = End
  <2>1. (n - 1) + 1 = n
    BY <1>1
  <2> QED BY <1>1, <1>5, <1>8, <2>1
<1>10. ASSUME NEW d \in Reached(t, c), t.next[d] = End PROVE d = w[n - 1]
  <2>1. PICK k \in 0 .. n - 1 : d = w[k]
    BY <1>5
  <2> QED BY <1>8, <1>10, <2>1
<1>11. Reached(t, c) \in SUBSET Fat
  BY <1>2, <1>5
<1> QED BY <1>3, <1>5, <1>7, <1>9, <1>10, <1>11

\* Every chain is a run.
LEMMA HasRun ==
    ASSUME NEW t, Linked(t), Ranked(t), NEW c \in Fat
    PROVE  \E n \in 1 .. Clusters : Runs(t, c, n)
<1> DEFINE w == Walk(t, c)
           ends == {k \in 0 .. Clusters : w[k] = End}
<1>1. Clusters \in ends
  BY Ends, ClustersAre DEF Loops
<1>2. ends \in SUBSET Nat
  BY ClustersAre
<1>3. PICK n \in ends : \A v \in ends : n <= v
  BY <1>1, <1>2, LeastIn
<1>4. n # 0
  BY <1>3, WalkIs, ClustersAre
<1>5. n \in 1 .. Clusters
  BY <1>2, <1>4, ClustersAre
<1>6. ASSUME NEW k \in 0 .. n - 1 PROVE w[k] \in Fat
  <2>1. k \in 0 .. Clusters /\ ~ (n <= k)
    BY <1>5, ClustersAre
  <2>2. k \notin ends
    BY <1>3, <2>1
  <2> QED BY <2>1, <2>2, WalkType
<1> QED BY <1>3, <1>5, <1>6 DEF Runs

LEMMA LastOfRun ==
    ASSUME NEW t, Linked(t), Ranked(t), NEW c, NEW n, Runs(t, c, n)
    PROVE  LastOf(t, c) = Walk(t, c)[n - 1]
<1>1. PICK l : l = Walk(t, c)[n - 1]
  OBVIOUS
<1>2. l \in Reached(t, c) /\ t.next[l] = End
      /\ \A d \in Reached(t, c) : t.next[d] = End => d = l
  BY <1>1, RunsIs
<1>3. LastOf(t, c) = l
  BY <1>2 DEF LastOf
<1> QED BY <1>1, <1>3

\* A chain of one cluster.
LEMMA SingleRun ==
    ASSUME NEW u, NEW c \in Fat, u.next[c] = End
    PROVE  Runs(u, c, 1) /\ Walk(u, c)[0] = c
<1>1. Walk(u, c)[0] = c
  BY WalkIs
<1>2. 1 \in 1 .. Clusters /\ 1 - 1 = 0 /\ \A k \in 0 .. 1 - 1 : k = 0
  BY ClustersAre
<1>3. Walk(u, c)[1] = OnFrom(u, c)
  BY <1>1, <1>2, WalkIs
<1>4. Walk(u, c)[1] = End
  BY <1>3 DEF OnFrom
<1> QED BY <1>1, <1>2, <1>4 DEF Runs

\* A chain whose last cluster is linked to another that ends it.
LEMMA LongerRun ==
    ASSUME NEW t, Linked(t), Ranked(t), NEW c, NEW n, Runs(t, c, n),
           NEW l, l = Walk(t, c)[n - 1], NEW f \in Fat, f \notin Reached(t, c),
           NEW u, Linked(u), Ranked(u), u.next[l] = f, u.next[f] = End,
           \A d \in Reached(t, c) : d # l => u.next[d] = t.next[d]
    PROVE  /\ n + 1 \in 1 .. Clusters /\ Runs(u, c, n + 1)
           /\ \A k \in 0 .. n - 1 : Walk(u, c)[k] = Walk(t, c)[k]
           /\ Walk(u, c)[n] = f
           /\ Reached(u, c) = Reached(t, c) \cup {f}
<1> DEFINE w == Walk(t, c)
           v == Walk(u, c)
<1>1. /\ c \in Fat /\ Reached(t, c) = {w[k] : k \in 0 .. n - 1}
      /\ Reached(t, c) \in SUBSET Fat
      /\ IsFiniteSet(Reached(t, c)) /\ Cardinality(Reached(t, c)) = n
      /\ l \in Reached(t, c)
      /\ \A d \in Reached(t, c) : t.next[d] = End => d = l
  BY RunsIs
<1>2. n \in 1 .. Clusters /\ n \in Nat /\ n - 1 \in Nat
  BY ClustersAre DEF Runs
<1>3. n + 1 \in 1 .. Clusters
  <2>1. IsFiniteSet(Fat) /\ Cardinality(Fat) = Clusters
    BY ClustersAre, FS_Interval DEF Fat
  <2>2. Cardinality(Reached(t, c) \cup {f}) = n + 1
    BY <1>1, FS_AddElement
  <2>3. Cardinality(Reached(t, c) \cup {f}) <= Cardinality(Fat)
    BY <1>1, <2>1, FS_Subset
  <2> QED BY <1>2, <2>1, <2>2, <2>3, ClustersAre
<1>4. \A k \in 0 .. n - 1 : v[k] = w[k]
  <2> DEFINE bad == {m \in 0 .. n - 1 : v[m] # w[m]}
  <2>1. ASSUME bad # {} PROVE FALSE
    <3>1. bad \in SUBSET Nat
      BY <1>2
    <3>2. PICK m \in bad : \A b \in bad : m <= b
      BY <2>1, <3>1, LeastIn
    <3>3. m # 0
      BY <3>2, WalkIs
    <3>4. m \in 1 .. Clusters /\ m - 1 \in 0 .. n - 1 /\ m - 1 \in 0 .. Clusters /\ ~ (m <= m - 1)
          /\ m - 1 # n - 1
      BY <1>2, <3>1, <3>3, ClustersAre
    <3>5. PICK d : d = w[m - 1]
      OBVIOUS
    <3>6. v[m - 1] = d /\ d \in Reached(t, c)
      BY <1>1, <3>2, <3>4, <3>5
    <3>7. d # End
      BY <1>1, <3>6, ClustersAre
    <3>8. v[m] = u.next[d] /\ w[m] = t.next[d]
      BY <3>4, <3>5, <3>6, <3>7, WalkIs DEF OnFrom
    <3>9. d # l
      <4>1. n - 1 \in 0 .. Clusters
        BY <1>2, ClustersAre
      <4>2. m - 1 \in 0 .. Clusters /\ c \in Fat \cup {End}
        BY <1>1, <3>4
      <4> QED BY <3>4, <3>5, <3>7, <4>1, <4>2, WalkDistinct
    <3> QED BY <3>2, <3>6, <3>8, <3>9
  <2> QED BY <2>1
<1>5. v[n] = f /\ v[n + 1] = End
  <2>1. n - 1 \in 0 .. n - 1 /\ n \in 1 .. Clusters /\ (n + 1) - 1 = n
    BY <1>2
  <2>2. v[n - 1] = l /\ l # End
    BY <1>1, <1>4, <2>1, ClustersAre
  <2>3. v[n] = f
    BY <2>1, <2>2, WalkIs DEF OnFrom
  <2>4. v[n + 1] = OnFrom(u, v[n])
    BY <1>3, <2>1, WalkIs
  <2> QED BY <2>3, <2>4 DEF OnFrom
<1>6. Runs(u, c, n + 1)
  <2>1. ASSUME NEW k \in 0 .. (n + 1) - 1 PROVE v[k] \in Fat
    <3>1. k \in 0 .. n - 1 \/ k = n
      BY <1>2
    <3> QED BY <1>1, <1>4, <1>5, <3>1
  <2> QED BY <1>3, <1>5, <2>1 DEF Runs
<1>7. Reached(u, c) = Reached(t, c) \cup {f}
  <2>1. Reached(u, c) = {v[k] : k \in 0 .. (n + 1) - 1}
    BY <1>6, RunsIs
  <2>2. \A k : k \in 0 .. (n + 1) - 1 <=> k \in 0 .. n - 1 \/ k = n
    BY <1>2
  <2> QED BY <1>1, <1>4, <1>5, <2>1, <2>2
<1> QED BY <1>3, <1>4, <1>5, <1>6, <1>7

-----------------------------------------------------------------------------
(***************************************************************************)
(* What taking clusters behind a chain does to it, and to all others.      *)
(***************************************************************************)
\* A chain of n allocated clusters.
Owned(t, c, n) == Runs(t, c, n) /\ Reached(t, c) \subseteq t.used

\* The chain from c has got the clusters that were allocated since.
Grew(t, u, c) ==
    /\ t.used \subseteq u.used
    /\ \A d \in t.used : d \notin Reached(t, c) => u.next[d] = t.next[d]
    /\ Reached(u, c) = Reached(t, c) \cup (u.used \ t.used)

LEMMA AppendedGrew ==
    ASSUME setup \in Setups, NEW t, TableOK(t), FreeFrom(t) # {}, NEW c, NEW n, Owned(t, c, n),
           NEW l, l = Walk(t, c)[n - 1], NEW u, u = Appended(t, l)
    PROVE  /\ TableOK(u) /\ Owned(u, c, n + 1) /\ Grew(t, u, c)
           /\ Walk(u, c)[n] = Found(t)
           /\ \A k \in 0 .. n - 1 : Walk(u, c)[k] = Walk(t, c)[k]
<1>1. PICK f : f = Found(t)
  OBVIOUS
<1>2. f \in Fat /\ f \notin t.used
  BY <1>1, FoundIs
<1>3. Linked(t) /\ Ranked(t) /\ Shaped(t) /\ t.used \in SUBSET Fat /\ t.next \in [Fat -> Fat \cup {End}]
  BY DEF TableOK, Sane, Linked
<1>4. Runs(t, c, n) /\ Reached(t, c) \subseteq t.used
  BY DEF Owned
<1>5. l \in Reached(t, c) /\ l \in Fat /\ l # f
  BY <1>2, <1>3, <1>4, RunsIs
<1>6. TableOK(u)
  BY <1>5, AppendedOK
<1>7. Linked(u) /\ Ranked(u)
  BY <1>6 DEF TableOK, Sane
<1>8. u.next = Altered(Altered(t.next, l, f), f, End) /\ u.used = t.used \cup {l, f}
  BY <1>1, <1>3, AppendedIs
<1>9. u.next[l] = f /\ u.next[f] = End
      /\ \A d \in Fat : d # l /\ d # f => u.next[d] = t.next[d]
  BY <1>2, <1>3, <1>5, <1>8 DEF Altered
<1>10. f \notin Reached(t, c) /\ \A d \in Reached(t, c) : d # l => u.next[d] = t.next[d]
  BY <1>2, <1>3, <1>4, <1>9
<1>11. /\ Runs(u, c, n + 1) /\ Walk(u, c)[n] = f
       /\ \A k \in 0 .. n - 1 : Walk(u, c)[k] = Walk(t, c)[k]
       /\ Reached(u, c) = Reached(t, c) \cup {f}
  BY <1>2, <1>3, <1>4, <1>7, <1>9, <1>10, LongerRun
<1>12. u.used = t.used \cup {f}
  BY <1>4, <1>5, <1>8
<1>13. Grew(t, u, c)
  <2>1. \A d \in t.used : d \notin Reached(t, c) => u.next[d] = t.next[d]
    BY <1>2, <1>3, <1>5, <1>9
  <2>2. u.used \ t.used = {f}
    BY <1>2, <1>12
  <2> QED BY <1>11, <1>12, <2>1, <2>2 DEF Grew
<1>14. Owned(u, c, n + 1)
  BY <1>4, <1>11, <1>12 DEF Owned
<1> QED BY <1>1, <1>6, <1>11, <1>13, <1>14

LEMMA ExtendGrew ==
    ASSUME setup \in Setups, NEW t, TableOK(t), NEW c, NEW n, Owned(t, c, n),
           NEW l, l = Walk(t, c)[n - 1], NEW k \in Nat, NEW x, x = Extend(t, l, k)
    PROVE  /\ TableOK(x.t) /\ x.got \in 0 .. k /\ Owned(x.t, c, n + x.got)
           /\ Grew(t, x.t, c)
<1>1. PICK f : Takes(f, k, t, l) /\ x = f[k]
  BY ExtendIs
<1>2. n \in Nat /\ n >= 1
  BY ClustersAre DEF Owned, Runs
<1> DEFINE Fine(w, i) ==
             /\ TableOK(w.t) /\ w.got \in 0 .. i /\ Owned(w.t, c, n + w.got)
             /\ w.last = Walk(w.t, c)[(n + w.got) - 1] /\ Grew(t, w.t, c)
           bad == {i \in 0 .. k : ~Fine(f[i], i)}
<1>3. ASSUME bad # {} PROVE FALSE
  <2>1. bad \in SUBSET Nat
    OBVIOUS
  <2>2. PICK i \in bad : \A v \in bad : i <= v
    BY <1>3, <2>1, LeastIn
  <2>3. CASE i = 0
    <3>1. f[0] = Started(t, l)
      BY <1>1 DEF Takes
    <3>2. f[0].t = t /\ f[0].last = l /\ f[0].got = 0
      BY <3>1 DEF Started
    <3>3. Grew(t, t, c)
      BY DEF Grew
    <3>4. n + 0 = n
      BY <1>2
    <3>5. Fine(f[0], 0)
      BY <3>2, <3>3, <3>4
    <3> QED BY <2>2, <2>3, <3>5
  <2>4. CASE i # 0
    <3>1. i \in 1 .. k /\ i - 1 \in 0 .. k /\ ~ (i <= i - 1) /\ i \in Nat /\ i - 1 \in Nat
      BY <2>1, <2>4
    <3>2. PICK w : w = f[i - 1]
      OBVIOUS
    <3>3. Fine(w, i - 1)
      BY <2>2, <3>1, <3>2
    <3>4. f[i] = Further(w, i)
      BY <1>1, <3>1, <3>2 DEF Takes
    <3>5. CASE w.got < i - 1 \/ FreeFrom(w.t) = {}
      <4>1. f[i] = w
        BY <3>4, <3>5 DEF Further
      <4>2. w.got \in 0 .. i
        BY <3>1, <3>3
      <4>3. Fine(w, i)
        BY <3>3, <4>2
      <4> QED BY <2>2, <4>1, <4>3
    <3>6. CASE ~ (w.got < i - 1) /\ FreeFrom(w.t) # {}
      <4>1. w.got = i - 1 /\ i \in 0 .. i
        BY <3>1, <3>3, <3>6
      <4>2. PICK u : u = Appended(w.t, w.last)
        OBVIOUS
      <4>3. f[i] = [t |-> u, last |-> Found(w.t), got |-> i]
        BY <3>4, <3>6, <4>2 DEF Further
      <4>4. f[i].t = u /\ f[i].last = Found(w.t) /\ f[i].got = i
        BY <4>3
      <4>5. PICK m : m = n + w.got
        OBVIOUS
      <4>6. m \in Nat /\ m + 1 = n + i /\ (n + i) - 1 = m
        BY <1>2, <3>1, <4>1, <4>5
      <4>7. TableOK(w.t) /\ Owned(w.t, c, m) /\ w.last = Walk(w.t, c)[m - 1] /\ Grew(t, w.t, c)
        BY <3>3, <4>5
      <4>8. /\ TableOK(u) /\ Owned(u, c, m + 1) /\ Grew(w.t, u, c)
            /\ Walk(u, c)[m] = Found(w.t)
        BY <3>6, <4>2, <4>7, AppendedGrew
      <4>9. Grew(t, u, c)
        BY <4>7, <4>8 DEF Grew
      <4>10. Fine(f[i], i)
        BY <4>1, <4>4, <4>6, <4>8, <4>9
      <4> QED BY <2>2, <4>10
    <3> QED BY <3>5, <3>6
  <2> QED BY <2>3, <2>4
<1>4. k \in 0 .. k
  OBVIOUS
<1>5. Fine(f[k], k)
  BY <1>3, <1>4
<1> QED BY <1>1, <1>5

-----------------------------------------------------------------------------
(***************************************************************************)
(* What an image holds, for any table and any pages.                       *)
(***************************************************************************)
KidsAt(t, pg, d) == {At(t, pg[d].cluster, i) : i \in 2 .. pg[d].length - 1}

Sitting(pg, S) == S \cap {q \in Page : pg[q] # Blank /\ pg[q].exists}

FoldersIn(t, pg) ==
    {q \in Sitting(pg, KidsAt(t, pg, RootEntry)) : pg[q].kind = "folder"}

DirsIn(t, pg) == {RootEntry} \cup FoldersIn(t, pg)

\* All files of all directories, hidden ones too; those that exist.
KidFiles(t, pg) ==
    {q \in UNION {KidsAt(t, pg, d) : d \in DirsIn(t, pg)} :
        pg[q] # Blank /\ pg[q].kind = "file"}

FilesIn(t, pg) == {q \in KidFiles(t, pg) : pg[q].exists}

OwnersIn(t, pg) == FilesIn(t, pg) \cup DirsIn(t, pg)

Own(t, pg, p) == Reached(t, pg[p].cluster)

\* The page of a directory's i-th entry.
Spot(t, pg, d, i) == At(t, pg[d].cluster, i)

\* A directory's chain is allocated and as long as its entries need; its first two
\* entries are . and .., and no other is.
DirOK(t, pg, d) ==
    /\ pg[d].length \in Nat /\ pg[d].length >= 2
    /\ Owned(t, pg[d].cluster, (pg[d].length + 1) \div 2)
    /\ \A i \in 0 .. pg[d].length - 1 :
          /\ pg[Spot(t, pg, d, i)] # Blank
          /\ pg[Spot(t, pg, d, i)].name = Dot <=> i < 2

FileOK(t, pg, p) ==
    /\ Own(t, pg, p) \subseteq t.used
    /\ Size(pg[p].length) <= Cardinality(Own(t, pg, p))

\* A file without a cluster is empty, and was never removed.
PageOK(e) ==
    /\ e.kind = "file" <=> e.name \in Files
    /\ e.kind = "file" => (e.cluster = End <=> e.length = 0)
    /\ e.kind = "file" /\ ~e.exists => e.cluster # End
    /\ e.kind # "file" => e.length <= MaxEntries + 2

Apart(t, pg) ==
    \A p, q \in OwnersIn(t, pg) : p # q => Own(t, pg, p) \cap Own(t, pg, q) = {}

Image(t, pg) ==
    /\ TableOK(t) /\ PagesOK(pg)
    /\ \A q \in Page : pg[q] # Blank => PageOK(pg[q])
    /\ \A d \in DirsIn(t, pg) : DirOK(t, pg, d)
    /\ \A d \in FoldersIn(t, pg) : KidsAt(t, pg, d) \subseteq KidFiles(t, pg)
    /\ \A p \in FilesIn(t, pg) : FileOK(t, pg, p)
    /\ Apart(t, pg)

Lossless(t, pg) == t.used = UNION {Own(t, pg, p) : p \in OwnersIn(t, pg)}

LEMMA SpotIs ==
    ASSUME NEW t, NEW pg, NEW d, DirOK(t, pg, d), NEW i \in 0 .. pg[d].length - 1
    PROVE  /\ Spot(t, pg, d, i) = <<Walk(t, pg[d].cluster)[i \div 2], i % 2>>
           /\ i \div 2 \in 0 .. ((pg[d].length + 1) \div 2) - 1
           /\ i \div 2 \in 0 .. Clusters
           /\ Walk(t, pg[d].cluster)[i \div 2] \in Own(t, pg, d)
           /\ Walk(t, pg[d].cluster)[i \div 2] \in Fat
           /\ Spot(t, pg, d, i) \in Page
<1>1. PICK n : n = (pg[d].length + 1) \div 2
  OBVIOUS
<1>2. PICK k : k = i \div 2
  OBVIOUS
<1>3. k \in 0 .. n - 1 /\ i % 2 \in {0, 1}
  BY <1>1, <1>2 DEF DirOK
<1>4. Runs(t, pg[d].cluster, n)
  BY <1>1 DEF DirOK, Owned
<1>5. k \in 0 .. Clusters /\ Walk(t, pg[d].cluster)[k] \in Fat
  BY <1>3, <1>4, ClustersAre DEF Runs
<1>6. Walk(t, pg[d].cluster)[k] \in Own(t, pg, d)
  BY <1>5, ClustersAre DEF Own, Reached
<1>7. Spot(t, pg, d, i) = <<Walk(t, pg[d].cluster)[k], i % 2>>
  BY <1>2 DEF Spot, At
<1>8. Spot(t, pg, d, i) \in Page
  BY <1>3, <1>5, <1>7 DEF Page
<1> QED BY <1>1, <1>2, <1>3, <1>5, <1>6, <1>7, <1>8

LEMMA SpotsDiffer ==
    ASSUME NEW t, TableOK(t), NEW pg, NEW d, DirOK(t, pg, d),
           NEW i \in 0 .. pg[d].length - 1, NEW j \in 0 .. pg[d].length - 1,
           Spot(t, pg, d, i) = Spot(t, pg, d, j)
    PROVE  i = j
<1>1. PICK c, a, b : c = pg[d].cluster /\ a = i \div 2 /\ b = j \div 2
  OBVIOUS
<1>2. Walk(t, c)[a] = Walk(t, c)[b] /\ i % 2 = j % 2
  BY <1>1, SpotIs
<1>3. a \in 0 .. Clusters /\ b \in 0 .. Clusters /\ Walk(t, c)[a] \in Fat
  BY <1>1, SpotIs
<1>4. c \in Fat
  <2>1. Runs(t, c, (pg[d].length + 1) \div 2)
    BY <1>1 DEF DirOK, Owned
  <2>2. Linked(t) /\ Ranked(t)
    BY DEF TableOK, Sane
  <2> QED BY <2>1, <2>2, RunsIs
<1>5. a = b
  <2>1. Linked(t) /\ Ranked(t) /\ c \in Fat \cup {End} /\ Walk(t, c)[a] # End
    BY <1>3, <1>4, ClustersAre DEF TableOK, Sane
  <2> QED BY <1>2, <1>3, <2>1, WalkDistinct
<1>6. i \in Nat /\ j \in Nat
  BY DEF DirOK
<1> QED BY <1>1, <1>2, <1>5, <1>6

\* A directory stays as it is when its clusters and its entries' names do.
LEMMA DirKept ==
    ASSUME NEW t, NEW pg, NEW d, DirOK(t, pg, d), NEW u, NEW pq,
           \A c \in Own(t, pg, d) : c \in u.used /\ u.next[c] = t.next[c],
           pq[d].cluster = pg[d].cluster, pq[d].length = pg[d].length,
           \A i \in 0 .. pg[d].length - 1 :
              LET q == Spot(t, pg, d, i)
              IN  pq[q] # Blank /\ (pq[q].name = Dot <=> pg[q].name = Dot)
    PROVE  /\ DirOK(u, pq, d) /\ Own(u, pq, d) = Own(t, pg, d)
           /\ \A i : Spot(u, pq, d, i) = Spot(t, pg, d, i)
           /\ KidsAt(u, pq, d) = KidsAt(t, pg, d)
<1>1. PICK c : c = pg[d].cluster
  OBVIOUS
<1>2. Walk(u, c) = Walk(t, c) /\ Reached(u, c) = Reached(t, c)
  BY <1>1, WalkSame DEF Own
<1>3. Own(u, pq, d) = Own(t, pg, d)
  BY <1>1, <1>2 DEF Own
<1>4. \A i : Spot(u, pq, d, i) = Spot(t, pg, d, i)
  BY <1>1, <1>2 DEF Spot, At
<1>5. KidsAt(u, pq, d) = KidsAt(t, pg, d)
  BY <1>4 DEF KidsAt, Spot
<1>6. Owned(u, pq[d].cluster, (pq[d].length + 1) \div 2)
  <2>1. PICK n : n = (pg[d].length + 1) \div 2
    OBVIOUS
  <2>2. Runs(t, c, n)
    BY <1>1, <2>1 DEF DirOK, Owned
  <2>3. Runs(u, c, n)
    BY <1>2, <2>2 DEF Runs
  <2>4. Reached(u, c) \subseteq u.used
    BY <1>1, <1>2 DEF Own
  <2> QED BY <1>1, <2>1, <2>3, <2>4 DEF Owned
<1>7. ASSUME NEW i \in 0 .. pq[d].length - 1
      PROVE  /\ pq[Spot(u, pq, d, i)] # Blank
             /\ pq[Spot(u, pq, d, i)].name = Dot <=> i < 2
  BY <1>4 DEF DirOK
<1>8. DirOK(u, pq, d)
  BY <1>6, <1>7 DEF DirOK
<1> QED BY <1>3, <1>4, <1>5, <1>8

\* Where the entries of an image are.
LEMMA RootSpot ==
    ASSUME NEW t, NEW pg, Image(t, pg)
    PROVE  /\ RootEntry \in DirsIn(t, pg) /\ DirOK(t, pg, RootEntry)
           /\ Spot(t, pg, RootEntry, 0) = RootEntry /\ pg[RootEntry].cluster = Root
           /\ pg[RootEntry].name = Dot /\ pg[RootEntry] # Blank
           /\ pg[RootEntry].kind # "file" /\ RootEntry \in Page
           /\ 0 \in 0 .. pg[RootEntry].length - 1
<1>1. RootEntry \in DirsIn(t, pg)
  BY DEF DirsIn
<1>2. DirOK(t, pg, RootEntry)
  BY <1>1 DEF Image
<1>3. pg[RootEntry] # Blank /\ pg[RootEntry].name = Dot /\ pg[RootEntry].cluster = Root
  BY DEF Image, PagesOK, RootKept
<1>4. 0 \in 0 .. pg[RootEntry].length - 1
  BY <1>2 DEF DirOK
<1>5. Spot(t, pg, RootEntry, 0) = RootEntry
  <2>1. 0 \div 2 = 0 /\ 0 % 2 = 0
    OBVIOUS
  <2>2. Walk(t, Root)[0] = Root
    BY WalkIs
  <2> QED BY <1>3, <2>1, <2>2 DEF Spot, At, RootEntry
<1>6. RootEntry \in Page
  BY PagesAre
<1>7. pg[RootEntry].kind # "file"
  BY <1>3, <1>6, VmcAssumption DEF Image, PageOK
<1> QED BY <1>1, <1>2, <1>3, <1>4, <1>5, <1>6, <1>7

LEMMA FolderSpot ==
    ASSUME NEW t, NEW pg, Image(t, pg), NEW q \in FoldersIn(t, pg)
    PROVE  /\ q \in Page /\ pg[q] # Blank /\ pg[q].exists /\ pg[q].kind = "folder"
           /\ q # RootEntry /\ pg[q].name # Dot
           /\ \E i \in 2 .. pg[RootEntry].length - 1 : q = Spot(t, pg, RootEntry, i)
<1>1. /\ q \in Page /\ pg[q] # Blank /\ pg[q].exists /\ pg[q].kind = "folder"
      /\ q \in KidsAt(t, pg, RootEntry)
  BY DEF FoldersIn, Sitting
<1>2. PICK i \in 2 .. pg[RootEntry].length - 1 : q = Spot(t, pg, RootEntry, i)
  BY <1>1 DEF KidsAt, Spot
<1>3. DirOK(t, pg, RootEntry) /\ pg[RootEntry].name = Dot
  BY RootSpot
<1>4. i \in 0 .. pg[RootEntry].length - 1 /\ ~ (i < 2)
  BY <1>3 DEF DirOK
<1>5. pg[q].name # Dot
  BY <1>2, <1>3, <1>4 DEF DirOK
<1> QED BY <1>1, <1>2, <1>3, <1>5

LEMMA KidSpot ==
    ASSUME NEW t, NEW pg, Image(t, pg), NEW d \in DirsIn(t, pg), NEW q \in KidsAt(t, pg, d)
    PROVE  /\ q \in Page /\ pg[q] # Blank /\ pg[q].name # Dot /\ q # RootEntry
           /\ \E i \in 2 .. pg[d].length - 1 :
                 i \in 0 .. pg[d].length - 1 /\ q = Spot(t, pg, d, i)
<1>1. PICK i \in 2 .. pg[d].length - 1 : q = Spot(t, pg, d, i)
  BY DEF KidsAt, Spot
<1>2. DirOK(t, pg, d)
  BY DEF Image
<1>3. i \in 0 .. pg[d].length - 1 /\ ~ (i < 2)
  BY <1>2 DEF DirOK
<1>4. q \in Page /\ pg[q] # Blank /\ pg[q].name # Dot
  BY <1>1, <1>2, <1>3, SpotIs DEF DirOK
<1>5. pg[RootEntry].name = Dot
  BY RootSpot
<1> QED BY <1>1, <1>3, <1>4, <1>5

LEMMA FileSpot ==
    ASSUME NEW t, NEW pg, Image(t, pg), NEW q \in KidFiles(t, pg)
    PROVE  /\ q \in Page /\ pg[q] # Blank /\ pg[q].kind = "file" /\ pg[q].name \in Files
           /\ pg[q].name # Dot /\ q # RootEntry /\ q \notin DirsIn(t, pg)
           /\ \E d \in DirsIn(t, pg) : q \in KidsAt(t, pg, d)
<1>1. PICK d \in DirsIn(t, pg) : q \in KidsAt(t, pg, d)
  BY DEF KidFiles
<1>2. q \in Page /\ pg[q] # Blank /\ pg[q].kind = "file" /\ pg[q].name # Dot /\ q # RootEntry
  BY <1>1, KidSpot DEF KidFiles
<1>3. q \notin DirsIn(t, pg)
  BY <1>2, FolderSpot DEF DirsIn
<1>4. pg[q].name \in Files
  BY <1>2 DEF Image, PageOK
<1> QED BY <1>1, <1>2, <1>3, <1>4

\* Two directories have no page in common.
LEMMA SpotsApart ==
    ASSUME NEW t, NEW pg, Image(t, pg), NEW d \in DirsIn(t, pg), NEW e \in DirsIn(t, pg),
           NEW i \in 0 .. pg[d].length - 1, NEW j \in 0 .. pg[e].length - 1,
           Spot(t, pg, d, i) = Spot(t, pg, e, j)
    PROVE  d = e /\ i = j
<1>1. DirOK(t, pg, d) /\ DirOK(t, pg, e) /\ TableOK(t)
  BY DEF Image
<1>2. PICK c : c = Walk(t, pg[d].cluster)[i \div 2]
  OBVIOUS
<1>3. c \in Own(t, pg, d) /\ c \in Own(t, pg, e)
  BY <1>1, <1>2, SpotIs
<1>4. d = e
  BY <1>3 DEF Image, Apart, OwnersIn
<1> QED BY <1>1, <1>4, SpotsDiffer

-----------------------------------------------------------------------------
(***************************************************************************)
(* A call that changes one file, and nothing of the directories or of the  *)
(* others.                                                                 *)
(***************************************************************************)
\* The clusters a file has while it exists.
Had(t, pg, p) == IF pg[p].exists THEN Own(t, pg, p) ELSE {}

\* Every entry of every directory but p is as it was.
Elsewhere(t, pg, pq, p) ==
    \A d \in DirsIn(t, pg) : \A i \in 0 .. pg[d].length - 1 :
       Spot(t, pg, d, i) # p => pq[Spot(t, pg, d, i)] = pg[Spot(t, pg, d, i)]

\* Clusters allocated and not in R stay allocated and linked.
Stays(t, u, R) == \A c \in t.used : c \notin R => c \in u.used /\ u.next[c] = t.next[c]

\* The file p after the call: gone, or with clusters nobody else has.
FileNow(t, pg, u, pq, p) ==
    /\ pq[p] # Blank /\ pq[p].kind = "file" /\ pq[p].name \in Files
    /\ pq[p].exists => /\ FileOK(u, pq, p)
                       /\ Own(u, pq, p) \cap (t.used \ Had(t, pg, p)) = {}

LEMMA FileChanged ==
    ASSUME NEW t, NEW pg, Image(t, pg), NEW p \in KidFiles(t, pg),
           NEW u, TableOK(u), NEW pq, PagesOK(pq),
           \A q \in Page : pq[q] # Blank => PageOK(pq[q]),
           Elsewhere(t, pg, pq, p), Stays(t, u, Had(t, pg, p)), FileNow(t, pg, u, pq, p)
    PROVE  /\ Image(u, pq) /\ DirsIn(u, pq) = DirsIn(t, pg)
           /\ FoldersIn(u, pq) = FoldersIn(t, pg)
           /\ KidFiles(u, pq) = KidFiles(t, pg)
           /\ FilesIn(u, pq)
              = (FilesIn(t, pg) \ {p}) \cup (IF pq[p].exists THEN {p} ELSE {})
           /\ \A q \in OwnersIn(t, pg) :
                 q # p => pq[q] = pg[q] /\ Own(u, pq, q) = Own(t, pg, q)
           /\ \A d \in DirsIn(t, pg) :
                 /\ KidsAt(u, pq, d) = KidsAt(t, pg, d)
                 /\ \A i : Spot(u, pq, d, i) = Spot(t, pg, d, i)
           /\ \A d \in DirsIn(t, pg) : \A q \in KidsAt(t, pg, d) : q # p => pq[q] = pg[q]
<1>1. PICK R : R = Had(t, pg, p)
  OBVIOUS
<1>2. p \in Page /\ pg[p] # Blank /\ pg[p].kind = "file" /\ p \notin DirsIn(t, pg)
      /\ p # RootEntry /\ pg[p].name # Dot
  BY FileSpot
<1>3. pq[p] # Blank /\ pq[p].kind = "file" /\ pq[p].name \in Files /\ pq[p].name # Dot
  BY VmcAssumption DEF FileNow
<1>4. \A q \in OwnersIn(t, pg) : q # p => Own(t, pg, q) \cap R = {}
  <2>1. pg[p].exists => p \in OwnersIn(t, pg)
    BY DEF OwnersIn, FilesIn
  <2> QED BY <1>1, <2>1 DEF Had, Image, Apart
<1>5. \A d \in DirsIn(t, pg) : \A q \in KidsAt(t, pg, d) : q # p => pq[q] = pg[q]
  <2>1. SUFFICES ASSUME NEW d \in DirsIn(t, pg), NEW q \in KidsAt(t, pg, d), q # p
                 PROVE  pq[q] = pg[q]
    OBVIOUS
  <2>2. PICK i \in 0 .. pg[d].length - 1 : q = Spot(t, pg, d, i)
    BY KidSpot
  <2> QED BY <2>1, <2>2 DEF Elsewhere
<1>6. \A d \in DirsIn(t, pg) : d # p /\ pq[d] = pg[d]
  <2>1. pq[RootEntry] = pg[RootEntry]
    BY <1>2, RootSpot DEF Elsewhere
  <2>2. ASSUME NEW d \in FoldersIn(t, pg) PROVE pq[d] = pg[d]
    <3>1. d \in KidsAt(t, pg, RootEntry)
      BY DEF FoldersIn, Sitting
    <3>2. d # p
      BY <1>2 DEF DirsIn
    <3> QED BY <1>5, <3>1, <3>2, RootSpot
  <2> QED BY <1>2, <2>1, <2>2 DEF DirsIn
<1>7. ASSUME NEW d \in DirsIn(t, pg)
      PROVE  /\ DirOK(u, pq, d) /\ Own(u, pq, d) = Own(t, pg, d)
             /\ \A i : Spot(u, pq, d, i) = Spot(t, pg, d, i)
             /\ KidsAt(u, pq, d) = KidsAt(t, pg, d)
  <2>1. DirOK(t, pg, d)
    BY DEF Image
  <2>2. Own(t, pg, d) \subseteq t.used
    BY <2>1 DEF DirOK, Owned, Own
  <2>3. d \in OwnersIn(t, pg) /\ d # p
    BY <1>2 DEF OwnersIn
  <2>4. \A c \in Own(t, pg, d) : c \in u.used /\ u.next[c] = t.next[c]
    BY <1>1, <1>4, <2>2, <2>3 DEF Stays
  <2>5. pq[d].cluster = pg[d].cluster /\ pq[d].length = pg[d].length
    BY <1>6
  <2>6. ASSUME NEW i \in 0 .. pg[d].length - 1
        PROVE  LET q == Spot(t, pg, d, i)
               IN  pq[q] # Blank /\ (pq[q].name = Dot <=> pg[q].name = Dot)
    <3>1. pg[Spot(t, pg, d, i)] # Blank
      BY <2>1 DEF DirOK
    <3>2. CASE Spot(t, pg, d, i) = p
      BY <1>2, <1>3, <3>2
    <3>3. CASE Spot(t, pg, d, i) # p
      BY <3>1, <3>3 DEF Elsewhere
    <3> QED BY <3>2, <3>3
  <2> QED BY <2>1, <2>4, <2>5, <2>6, DirKept
<1>8. RootEntry \in DirsIn(t, pg)
  BY DEF DirsIn
<1>9. FoldersIn(u, pq) = FoldersIn(t, pg)
  <2>1. KidsAt(u, pq, RootEntry) = KidsAt(t, pg, RootEntry)
    BY <1>7, <1>8
  <2>2. ASSUME NEW q \in KidsAt(t, pg, RootEntry)
        PROVE  q \in FoldersIn(u, pq) <=> q \in FoldersIn(t, pg)
    <3>1. CASE q = p
      BY <1>2, <1>3, <3>1 DEF FoldersIn
    <3>2. CASE q # p
      <4>1. pq[q] = pg[q]
        BY <1>5, <1>8, <3>2
      <4> QED BY <2>1, <4>1 DEF FoldersIn, Sitting
    <3> QED BY <3>1, <3>2
  <2> QED BY <2>1, <2>2 DEF FoldersIn, Sitting
<1>10. DirsIn(u, pq) = DirsIn(t, pg)
  BY <1>9 DEF DirsIn
<1>11. KidFiles(u, pq) = KidFiles(t, pg)
  <2>1. \A d \in DirsIn(t, pg) : KidsAt(u, pq, d) = KidsAt(t, pg, d)
    BY <1>7
  <2>2. \A d \in DirsIn(t, pg) : \A q \in KidsAt(t, pg, d) :
           (pq[q] # Blank /\ pq[q].kind = "file") <=> (pg[q] # Blank /\ pg[q].kind = "file")
    BY <1>2, <1>3, <1>5
  <2> QED BY <1>10, <2>1, <2>2 DEF KidFiles
<1>12. \A q \in KidFiles(t, pg) : q # p => pq[q] = pg[q]
  BY <1>5 DEF KidFiles
<1>13. FilesIn(u, pq) = (FilesIn(t, pg) \ {p}) \cup (IF pq[p].exists THEN {p} ELSE {})
  <2>1. \A q \in KidFiles(t, pg) : q # p => (q \in FilesIn(u, pq) <=> q \in FilesIn(t, pg))
    BY <1>11, <1>12 DEF FilesIn
  <2>2. p \in FilesIn(u, pq) <=> pq[p].exists
    BY <1>11 DEF FilesIn
  <2>3. FilesIn(u, pq) \subseteq KidFiles(t, pg) /\ FilesIn(t, pg) \subseteq KidFiles(t, pg)
    BY <1>11 DEF FilesIn
  <2> QED BY <2>1, <2>2, <2>3
<1>14. ASSUME NEW q \in FilesIn(t, pg), q # p
       PROVE  pq[q] = pg[q] /\ Own(u, pq, q) = Own(t, pg, q) /\ FileOK(u, pq, q)
  <2>1. pq[q] = pg[q]
    BY <1>12, <1>14 DEF FilesIn
  <2>2. FileOK(t, pg, q)
    BY DEF Image
  <2>3. \A c \in Own(t, pg, q) : c \in u.used /\ u.next[c] = t.next[c]
    BY <1>1, <1>4, <1>14, <2>2 DEF FileOK, Stays, OwnersIn
  <2>4. Own(u, pq, q) = Own(t, pg, q)
    BY <2>1, <2>3, WalkSame DEF Own
  <2>5. FileOK(u, pq, q)
    BY <2>1, <2>2, <2>3, <2>4 DEF FileOK
  <2> QED BY <2>1, <2>4, <2>5
<1>15. \A q \in OwnersIn(t, pg) : q # p => pq[q] = pg[q] /\ Own(u, pq, q) = Own(t, pg, q)
  BY <1>6, <1>7, <1>14 DEF OwnersIn
<1>16. \A q \in OwnersIn(t, pg) : Own(t, pg, q) \subseteq t.used
  BY DEF OwnersIn, Image, FileOK, DirOK, Owned, Own
<1>17. OwnersIn(u, pq) \subseteq OwnersIn(t, pg) \cup {p}
       /\ (p \in OwnersIn(u, pq) => pq[p].exists)
  BY <1>2, <1>10, <1>13 DEF OwnersIn
<1>18. Apart(u, pq)
  <2>1. SUFFICES ASSUME NEW q \in OwnersIn(u, pq), NEW r \in OwnersIn(u, pq), q # r
                 PROVE  Own(u, pq, q) \cap Own(u, pq, r) = {}
    BY DEF Apart
  <2>2. CASE q # p /\ r # p
    <3>1. q \in OwnersIn(t, pg) /\ r \in OwnersIn(t, pg)
      BY <1>17, <2>2
    <3> QED BY <1>15, <2>1, <2>2, <3>1 DEF Image, Apart
  <2>3. ASSUME NEW s \in OwnersIn(u, pq), s # p, p \in OwnersIn(u, pq)
        PROVE  Own(u, pq, s) \cap Own(u, pq, p) = {}
    <3>1. s \in OwnersIn(t, pg)
      BY <1>17, <2>3
    <3>2. Own(u, pq, s) = Own(t, pg, s)
      BY <1>15, <2>3, <3>1
    <3>3. Own(t, pg, s) \subseteq t.used \ R
      BY <1>4, <1>16, <2>3, <3>1
    <3>4. Own(u, pq, p) \cap (t.used \ R) = {}
      BY <1>1, <1>17, <2>3 DEF FileNow
    <3> QED BY <3>2, <3>3, <3>4
  <2> QED BY <2>1, <2>2, <2>3
<1>19. \A d \in FoldersIn(u, pq) : KidsAt(u, pq, d) \subseteq KidFiles(u, pq)
  BY <1>7, <1>9, <1>11 DEF Image, DirsIn
<1>20. \A q \in FilesIn(u, pq) : FileOK(u, pq, q)
  BY <1>13, <1>14 DEF FileNow
<1>21. Image(u, pq)
  BY <1>7, <1>10, <1>18, <1>19, <1>20 DEF Image
<1> QED BY <1>5, <1>7, <1>9, <1>10, <1>11, <1>13, <1>15, <1>21

\* No cluster is lost when the file's own are the only ones that change hands.
LEMMA FileLossless ==
    ASSUME NEW t, NEW pg, Image(t, pg), Lossless(t, pg), NEW p \in KidFiles(t, pg),
           NEW u, NEW pq, DirsIn(u, pq) = DirsIn(t, pg),
           FilesIn(u, pq) = (FilesIn(t, pg) \ {p}) \cup (IF pq[p].exists THEN {p} ELSE {}),
           \A q \in OwnersIn(t, pg) : q # p => Own(u, pq, q) = Own(t, pg, q),
           u.used = (t.used \ Had(t, pg, p)) \cup (IF pq[p].exists THEN Own(u, pq, p) ELSE {})
    PROVE  Lossless(u, pq)
<1>1. p \notin DirsIn(t, pg)
  BY FileSpot
<1>2. OwnersIn(u, pq) = (OwnersIn(t, pg) \ {p}) \cup (IF pq[p].exists THEN {p} ELSE {})
  BY <1>1 DEF OwnersIn
<1>3. p \in OwnersIn(t, pg) <=> pg[p].exists
  BY <1>1 DEF OwnersIn, FilesIn
<1>4. \A q \in OwnersIn(t, pg) : q # p => Own(t, pg, q) \cap Had(t, pg, p) = {}
  BY <1>3 DEF Had, Image, Apart
<1>5. t.used = UNION {Own(t, pg, q) : q \in OwnersIn(t, pg)}
  BY DEF Lossless
<1>6. ASSUME NEW c \in u.used PROVE \E q \in OwnersIn(u, pq) : c \in Own(u, pq, q)
  <2>1. CASE c \in t.used \ Had(t, pg, p)
    <3>1. PICK q \in OwnersIn(t, pg) : c \in Own(t, pg, q)
      BY <1>5, <2>1
    <3>2. q # p
      BY <1>3, <2>1, <3>1 DEF Had
    <3> QED BY <1>2, <3>1, <3>2
  <2>2. CASE pq[p].exists /\ c \in Own(u, pq, p)
    BY <1>2, <2>2
  <2> QED BY <2>1, <2>2
<1>7. ASSUME NEW q \in OwnersIn(u, pq), NEW c \in Own(u, pq, q) PROVE c \in u.used
  <2>1. CASE q = p
    BY <1>2, <2>1
  <2>2. CASE q # p
    <3>1. q \in OwnersIn(t, pg)
      BY <1>2, <2>2
    <3>2. c \in Own(t, pg, q) /\ c \notin Had(t, pg, p)
      BY <1>4, <2>2, <3>1
    <3> QED BY <1>5, <3>1, <3>2
  <2> QED BY <2>1, <2>2
<1> QED BY <1>6, <1>7 DEF Lossless

-----------------------------------------------------------------------------
(***************************************************************************)
(* Handles.                                                                *)
(***************************************************************************)
\* A handle has the first cluster and the length its entry has, stands on one of the
\* file's clusters or behind the last, and is the only one on its file.
Holds(t, pg, hs, h) ==
    LET f == hs[h]
    IN  /\ f.entry \in FilesIn(t, pg)
        /\ f.start = pg[f.entry].cluster /\ f.length = pg[f.entry].length
        /\ f.at \in Own(t, pg, f.entry) \cup {End}
        /\ \A g \in Handles : g # h => hs[g].entry # f.entry

Holding(t, pg, hs) == \A h \in Handles : hs[h].entry # Nowhere => Holds(t, pg, hs, h)

\* Up to here the driver keeps an image as it should be.
Sound == mishaps \subseteq {"dropped", "overrun"}

Kept ==
    /\ Image(card, page) /\ Holding(card, page, handle)
    /\ "dropped" \notin mishaps => Lossless(card, page)
    /\ ~event.stray

\* All of it but what is said of the handles.
Whole ==
    /\ Image(card, page)
    /\ "dropped" \notin mishaps => Lossless(card, page)
    /\ ~event.stray

\* What every file has, and every directory.
Orderly(t, pg) ==
    /\ FilesIn(t, pg) \subseteq Page
    /\ \A p \in FilesIn(t, pg) : FileOK(t, pg, p)
    /\ Apart(t, pg)

Listings(t, pg) == \A d \in DirsIn(t, pg) : DirOK(t, pg, d)

\* What is left behind the call on which the first other mishap happens: a write that
\* ran out of clusters leaves a file with more of them than its length says, half a
\* folder a cluster more than the directory's length says.
Settled ==
    /\ Orderly(card, page)
    /\ "half" \notin mishaps => Listings(card, page)
    /\ "dropped" \notin mishaps => Lossless(card, page)
    /\ ~event.stray

LEMMA ImageSettles ==
    ASSUME NEW t, NEW pg, Image(t, pg) PROVE Orderly(t, pg) /\ Listings(t, pg)
BY FileSpot DEF Image, Orderly, Listings, FilesIn

LEMMA WholeSettles == ASSUME Whole PROVE Settled
BY ImageSettles DEF Whole, Settled

LEMMA WholeNext == ASSUME Whole' PROVE Settled'
BY ImageSettles DEF Whole, Settled

LEMMA KeptNext == ASSUME Kept' PROVE Whole' /\ Settled'
BY WholeNext DEF Kept, Whole

\* A file whose entry has less than its length.
LEMMA ShorterSettles ==
    ASSUME NEW t, NEW pq, Image(t, pq), NEW p \in FilesIn(t, pq), NEW pg, pg[p] # Blank,
           pg[p].kind = pq[p].kind, pg[p].name = pq[p].name, pg[p].exists = pq[p].exists,
           pg[p].cluster = pq[p].cluster, Size(pg[p].length) <= Size(pq[p].length),
           Size(pg[p].length) \in Nat, Size(pq[p].length) \in Nat,
           \A q \in Page : q # p => pg[q] = pq[q]
    PROVE  /\ Orderly(t, pg) /\ Listings(t, pg)
           /\ Lossless(t, pq) => Lossless(t, pg)
<1>1. p \in KidFiles(t, pq) /\ pq[p].exists
  BY DEF FilesIn
<1>2. /\ p \in Page /\ pq[p] # Blank /\ pq[p].kind = "file" /\ p \notin DirsIn(t, pq)
      /\ pg[p].kind = "file"
  BY <1>1, FileSpot
<1>3. ASSUME NEW d \in DirsIn(t, pq) PROVE d \in Page /\ pg[d] = pq[d] /\ d # p
  BY <1>2, RootSpot, FolderSpot DEF DirsIn
<1>4. \A d \in DirsIn(t, pq) : KidsAt(t, pg, d) = KidsAt(t, pq, d)
                              /\ \A i : Spot(t, pg, d, i) = Spot(t, pq, d, i)
  BY <1>3 DEF KidsAt, Spot
<1>5. ASSUME NEW q \in Page
      PROVE  /\ pg[q] # Blank <=> pq[q] # Blank
             /\ pg[q] # Blank => /\ pg[q].kind = pq[q].kind /\ pg[q].name = pq[q].name
                                /\ pg[q].exists = pq[q].exists
             /\ Own(t, pg, q) = Own(t, pq, q)
  BY <1>2 DEF Own
<1>6. RootEntry \in DirsIn(t, pq)
  BY DEF DirsIn
<1>7. FoldersIn(t, pg) = FoldersIn(t, pq)
  BY <1>4, <1>5, <1>6 DEF FoldersIn, Sitting
<1>8. DirsIn(t, pg) = DirsIn(t, pq)
  BY <1>7 DEF DirsIn
<1>9. \A d \in DirsIn(t, pq) : KidsAt(t, pq, d) \subseteq Page
  BY KidSpot
<1>10. KidFiles(t, pg) = KidFiles(t, pq)
  BY <1>4, <1>5, <1>8, <1>9 DEF KidFiles
<1>11. KidFiles(t, pq) \subseteq Page
  BY <1>9 DEF KidFiles
<1>12. FilesIn(t, pg) = FilesIn(t, pq) /\ FilesIn(t, pq) \subseteq Page
  <2>1. \A q \in KidFiles(t, pq) : pg[q] # Blank /\ pg[q].exists = pq[q].exists
    BY <1>5, <1>11 DEF KidFiles
  <2> QED BY <1>10, <1>11, <2>1 DEF FilesIn
<1>13. OwnersIn(t, pg) = OwnersIn(t, pq) /\ OwnersIn(t, pq) \subseteq Page
  BY <1>3, <1>8, <1>12 DEF OwnersIn
<1>14. Apart(t, pg)
  BY <1>5, <1>13 DEF Image, Apart
<1>15. \A q \in FilesIn(t, pg) : FileOK(t, pg, q)
  <2>1. SUFFICES ASSUME NEW q \in FilesIn(t, pq) PROVE FileOK(t, pg, q)
    BY <1>12
  <2>2. FileOK(t, pq, q) /\ Own(t, pg, q) = Own(t, pq, q) /\ q \in Page
    BY <1>5, <1>12 DEF Image
  <2>3. CASE q # p
    BY <2>2, <2>3 DEF FileOK
  <2>4. CASE q = p
    <3>1. PICK O : O = Own(t, pq, p)
      OBVIOUS
    <3>2. O \subseteq t.used /\ Size(pq[p].length) <= Cardinality(O)
      BY <2>2, <2>4, <3>1 DEF FileOK
    <3>3. Cardinality(O) \in Nat
      <4>1. t.used \subseteq Fat
        BY DEF Image, TableOK
      <4>2. IsFiniteSet(Fat)
        BY ClustersAre, FS_Interval DEF Fat
      <4> QED BY <3>2, <4>1, <4>2, FS_Subset, FS_CardinalityType
    <3>4. Size(pg[p].length) <= Cardinality(O)
      BY <3>2, <3>3
    <3> QED BY <2>2, <2>4, <3>1, <3>2, <3>4 DEF FileOK
  <2> QED BY <2>3, <2>4
<1>16. \A d \in DirsIn(t, pg) : DirOK(t, pg, d)
  <2>1. SUFFICES ASSUME NEW d \in DirsIn(t, pq) PROVE DirOK(t, pg, d)
    BY <1>8
  <2>2. DirOK(t, pq, d) /\ pg[d] = pq[d]
    BY <1>3 DEF Image
  <2>3. \A i \in 0 .. pq[d].length - 1 :
           /\ pg[Spot(t, pg, d, i)] # Blank
           /\ pg[Spot(t, pg, d, i)].name = Dot <=> i < 2
    <3>1. SUFFICES ASSUME NEW i \in 0 .. pq[d].length - 1, NEW q, q = Spot(t, pq, d, i)
                   PROVE  pg[q] # Blank /\ (pg[q].name = Dot <=> i < 2)
      BY <1>4
    <3>2. q \in Page /\ pq[q] # Blank /\ (pq[q].name = Dot <=> i < 2)
      BY <2>2, <3>1, SpotIs DEF DirOK
    <3> QED BY <1>5, <3>2
  <2> QED BY <2>2, <2>3 DEF DirOK
<1>17. Lossless(t, pq) => Lossless(t, pg)
  BY <1>5, <1>13 DEF Lossless
<1> QED BY <1>12, <1>14, <1>15, <1>16, <1>17 DEF Orderly, Listings

LEMMA HoldingKept ==
    ASSUME NEW t, NEW pg, NEW hs, Holding(t, pg, hs), NEW u, NEW pq,
           \A h \in Handles : hs[h].entry # Nowhere =>
              LET p == hs[h].entry
              IN  /\ p \in FilesIn(u, pq) /\ pq[p].cluster = pg[p].cluster
                  /\ pq[p].length = pg[p].length /\ Own(u, pq, p) = Own(t, pg, p)
    PROVE  Holding(u, pq, hs)
BY DEF Holding, Holds

-----------------------------------------------------------------------------
(***************************************************************************)
(* A call that hides or shows a folder none of whose files exist.          *)
(***************************************************************************)
LEMMA DirStays ==
    ASSUME NEW t, NEW pg, Image(t, pg), NEW p, pg[p].name # Dot,
           NEW u, NEW pq, NEW R, Elsewhere(t, pg, pq, p), Stays(t, u, R),
           pq[p] # Blank, pq[p].name # Dot,
           NEW d \in DirsIn(t, pg), d # p, Own(t, pg, d) \cap R = {}
    PROVE  /\ pq[d] = pg[d] /\ DirOK(u, pq, d) /\ Own(u, pq, d) = Own(t, pg, d)
           /\ \A i : Spot(u, pq, d, i) = Spot(t, pg, d, i)
           /\ KidsAt(u, pq, d) = KidsAt(t, pg, d)
           /\ \A q \in KidsAt(t, pg, d) : q # p => pq[q] = pg[q]
<1>1. DirOK(t, pg, d)
  BY DEF Image
<1>2. pq[d] = pg[d]
  <2>1. CASE d = RootEntry
    BY <2>1, RootSpot DEF Elsewhere
  <2>2. CASE d \in FoldersIn(t, pg)
    <3>1. d \in KidsAt(t, pg, RootEntry) /\ RootEntry \in DirsIn(t, pg)
      BY <2>2 DEF FoldersIn, Sitting, DirsIn
    <3>2. PICK i \in 0 .. pg[RootEntry].length - 1 : d = Spot(t, pg, RootEntry, i)
      BY <3>1, KidSpot
    <3> QED BY <3>1, <3>2 DEF Elsewhere
  <2> QED BY <2>1, <2>2 DEF DirsIn
<1>3. \A c \in Own(t, pg, d) : c \in u.used /\ u.next[c] = t.next[c]
  BY <1>1 DEF DirOK, Owned, Own, Stays
<1>4. ASSUME NEW i \in 0 .. pg[d].length - 1
      PROVE  LET q == Spot(t, pg, d, i)
             IN  pq[q] # Blank /\ (pq[q].name = Dot <=> pg[q].name = Dot)
  <2>1. pg[Spot(t, pg, d, i)] # Blank
    BY <1>1 DEF DirOK
  <2>2. CASE Spot(t, pg, d, i) = p
    BY <2>2
  <2>3. CASE Spot(t, pg, d, i) # p
    BY <2>1, <2>3 DEF Elsewhere
  <2> QED BY <2>2, <2>3
<1>5. /\ DirOK(u, pq, d) /\ Own(u, pq, d) = Own(t, pg, d)
      /\ \A i : Spot(u, pq, d, i) = Spot(t, pg, d, i)
      /\ KidsAt(u, pq, d) = KidsAt(t, pg, d)
  <2>1. pq[d].cluster = pg[d].cluster /\ pq[d].length = pg[d].length
    BY <1>2
  <2> QED BY <1>1, <1>3, <1>4, <2>1, DirKept
<1>6. ASSUME NEW q \in KidsAt(t, pg, d), q # p PROVE pq[q] = pg[q]
  <2>1. PICK i \in 0 .. pg[d].length - 1 : q = Spot(t, pg, d, i)
    BY KidSpot
  <2> QED BY <1>6, <2>1 DEF Elsewhere
<1> QED BY <1>2, <1>5, <1>6

LEMMA FileStays ==
    ASSUME NEW t, NEW pg, Image(t, pg), NEW p, NEW u, NEW pq, NEW R,
           Elsewhere(t, pg, pq, p), Stays(t, u, R),
           NEW q \in FilesIn(t, pg), q # p, Own(t, pg, q) \cap R = {}
    PROVE  pq[q] = pg[q] /\ Own(u, pq, q) = Own(t, pg, q) /\ FileOK(u, pq, q)
<1>1. pq[q] = pg[q]
  <2>1. PICK d \in DirsIn(t, pg) : q \in KidsAt(t, pg, d)
    BY DEF FilesIn, KidFiles
  <2>2. PICK i \in 0 .. pg[d].length - 1 : q = Spot(t, pg, d, i)
    BY <2>1, KidSpot
  <2> QED BY <2>1, <2>2 DEF Elsewhere
<1>2. FileOK(t, pg, q)
  BY DEF Image
<1>3. \A c \in Own(t, pg, q) : c \in u.used /\ u.next[c] = t.next[c]
  BY <1>2 DEF FileOK, Stays
<1>4. Own(u, pq, q) = Own(t, pg, q)
  BY <1>1, <1>3, WalkSame DEF Own
<1> QED BY <1>1, <1>2, <1>3, <1>4 DEF FileOK

LEMMA FolderHidden ==
    ASSUME NEW t, NEW pg, Image(t, pg), NEW r \in FoldersIn(t, pg),
           \A q \in KidsAt(t, pg, r) : ~pg[q].exists,
           NEW u, TableOK(u), NEW pq, PagesOK(pq),
           \A q \in Page : pq[q] # Blank => PageOK(pq[q]),
           Elsewhere(t, pg, pq, r), Stays(t, u, Own(t, pg, r)),
           pq[r] # Blank, pq[r].name # Dot, pq[r].kind = "folder", ~pq[r].exists
    PROVE  /\ Image(u, pq) /\ DirsIn(u, pq) = DirsIn(t, pg) \ {r}
           /\ FilesIn(u, pq) = FilesIn(t, pg)
           /\ \A q \in OwnersIn(t, pg) :
                 q # r => pq[q] = pg[q] /\ Own(u, pq, q) = Own(t, pg, q)
<1>1. /\ r \in Page /\ pg[r] # Blank /\ pg[r].kind = "folder" /\ r # RootEntry
      /\ pg[r].name # Dot /\ r \in DirsIn(t, pg)
  BY FolderSpot DEF DirsIn
<1>2. \A q \in OwnersIn(t, pg) : q # r => Own(t, pg, q) \cap Own(t, pg, r) = {}
  BY <1>1 DEF Image, Apart, OwnersIn
<1>3. ASSUME NEW d \in DirsIn(t, pg), d # r
      PROVE  /\ pq[d] = pg[d] /\ DirOK(u, pq, d) /\ Own(u, pq, d) = Own(t, pg, d)
             /\ KidsAt(u, pq, d) = KidsAt(t, pg, d)
             /\ \A q \in KidsAt(t, pg, d) : q # r => pq[q] = pg[q]
  BY <1>1, <1>2, <1>3, DirStays DEF OwnersIn
<1>4. RootEntry \in DirsIn(t, pg) /\ RootEntry # r
  BY <1>1 DEF DirsIn
<1>5. FoldersIn(u, pq) = FoldersIn(t, pg) \ {r}
  <2>1. KidsAt(u, pq, RootEntry) = KidsAt(t, pg, RootEntry)
    BY <1>3, <1>4
  <2>2. ASSUME NEW q \in KidsAt(t, pg, RootEntry)
        PROVE  q \in FoldersIn(u, pq) <=> q \in FoldersIn(t, pg) /\ q # r
    <3>1. CASE q = r
      BY <3>1 DEF FoldersIn, Sitting
    <3>2. CASE q # r
      <4>1. pq[q] = pg[q]
        BY <1>3, <1>4, <3>2
      <4> QED BY <2>1, <3>2, <4>1 DEF FoldersIn, Sitting
    <3> QED BY <3>1, <3>2
  <2> QED BY <2>1, <2>2 DEF FoldersIn, Sitting
<1>6. DirsIn(u, pq) = DirsIn(t, pg) \ {r}
  BY <1>4, <1>5 DEF DirsIn
<1>7. \A q : q \in KidFiles(t, pg) => q # r
  BY <1>1 DEF KidFiles
<1>8. ASSUME NEW q
      PROVE  q \in KidFiles(u, pq)
             <=> \E d \in DirsIn(t, pg) : d # r /\ q \in KidsAt(t, pg, d) /\ q \in KidFiles(t, pg)
  <2>1. ASSUME NEW d \in DirsIn(t, pg), d # r, q \in KidsAt(t, pg, d)
        PROVE  q \in KidFiles(u, pq) <=> q \in KidFiles(t, pg)
    <3>1. CASE q = r
      BY <1>7, <3>1 DEF KidFiles
    <3>2. CASE q # r
      <4>1. pq[q] = pg[q] /\ KidsAt(u, pq, d) = KidsAt(t, pg, d) /\ d \in DirsIn(u, pq)
        BY <1>3, <1>6, <2>1, <3>2
      <4> QED BY <2>1, <4>1 DEF KidFiles
    <3> QED BY <3>1, <3>2
  <2>2. q \in KidFiles(u, pq) => \E d \in DirsIn(t, pg) : d # r /\ q \in KidsAt(t, pg, d)
    BY <1>3, <1>6 DEF KidFiles
  <2> QED BY <2>1, <2>2
<1>9. FilesIn(u, pq) = FilesIn(t, pg)
  <2>1. ASSUME NEW q \in FilesIn(t, pg) PROVE q \in FilesIn(u, pq)
    <3>1. PICK d \in DirsIn(t, pg) : q \in KidsAt(t, pg, d)
      BY DEF FilesIn, KidFiles
    <3>2. d # r
      BY <3>1 DEF FilesIn
    <3>3. q \in KidFiles(u, pq) /\ q # r
      BY <1>7, <1>8, <3>1, <3>2 DEF FilesIn
    <3>4. pq[q] = pg[q]
      BY <1>3, <3>1, <3>2, <3>3
    <3> QED BY <3>3, <3>4 DEF FilesIn
  <2>2. ASSUME NEW q \in FilesIn(u, pq) PROVE q \in FilesIn(t, pg)
    <3>1. PICK d \in DirsIn(t, pg) : d # r /\ q \in KidsAt(t, pg, d) /\ q \in KidFiles(t, pg)
      BY <1>8 DEF FilesIn
    <3>2. pq[q] = pg[q]
      BY <1>3, <1>7, <3>1
    <3> QED BY <3>1, <3>2 DEF FilesIn
  <2> QED BY <2>1, <2>2
<1>10. \A q \in FilesIn(t, pg) : q # r
  BY <1>7 DEF FilesIn
<1>11. ASSUME NEW q \in FilesIn(t, pg)
       PROVE  pq[q] = pg[q] /\ Own(u, pq, q) = Own(t, pg, q) /\ FileOK(u, pq, q)
  BY <1>2, <1>10, FileStays DEF OwnersIn
<1>12. \A q \in OwnersIn(t, pg) : q # r => pq[q] = pg[q] /\ Own(u, pq, q) = Own(t, pg, q)
  BY <1>3, <1>11 DEF OwnersIn
<1>13. OwnersIn(u, pq) = OwnersIn(t, pg) \ {r}
  BY <1>6, <1>9, <1>10 DEF OwnersIn
<1>14. Apart(u, pq)
  BY <1>12, <1>13 DEF Image, Apart
<1>15. ASSUME NEW d \in FoldersIn(u, pq) PROVE KidsAt(u, pq, d) \subseteq KidFiles(u, pq)
  <2>1. d \in FoldersIn(t, pg) /\ d # r /\ d \in DirsIn(t, pg)
    BY <1>5 DEF DirsIn
  <2>2. KidsAt(t, pg, d) \subseteq KidFiles(t, pg)
    BY <2>1 DEF Image
  <2> QED BY <1>3, <1>8, <2>1, <2>2
<1>16. Image(u, pq)
  BY <1>3, <1>6, <1>9, <1>11, <1>14, <1>15 DEF Image
<1> QED BY <1>6, <1>9, <1>12, <1>16

LEMMA FolderShown ==
    ASSUME NEW t, NEW pg, Image(t, pg), NEW r \in KidsAt(t, pg, RootEntry),
           pg[r].kind # "file", ~pg[r].exists,
           NEW u, TableOK(u), NEW pq, PagesOK(pq),
           \A q \in Page : pq[q] # Blank => PageOK(pq[q]),
           Elsewhere(t, pg, pq, r), Stays(t, u, {}),
           pq[r] # Blank, pq[r].name # Dot, pq[r].kind = "folder", pq[r].exists,
           DirOK(u, pq, r), Own(u, pq, r) \cap t.used = {},
           \A q \in KidsAt(u, pq, r) : pq[q].kind = "file" /\ ~pq[q].exists
    PROVE  /\ Image(u, pq) /\ DirsIn(u, pq) = DirsIn(t, pg) \cup {r}
           /\ FilesIn(u, pq) = FilesIn(t, pg)
           /\ \A q \in OwnersIn(t, pg) :
                 q # r /\ pq[q] = pg[q] /\ Own(u, pq, q) = Own(t, pg, q)
<1>1. RootEntry \in DirsIn(t, pg)
  BY DEF DirsIn
<1>2. r \in Page /\ pg[r] # Blank /\ pg[r].name # Dot /\ r # RootEntry
  BY <1>1, KidSpot
<1>3. r \notin DirsIn(t, pg)
  BY <1>2, FolderSpot DEF DirsIn
<1>4. \A q : q \in KidFiles(t, pg) => q # r
  BY DEF KidFiles
<1>5. ASSUME NEW d \in DirsIn(t, pg)
      PROVE  /\ d # r /\ pq[d] = pg[d] /\ DirOK(u, pq, d) /\ Own(u, pq, d) = Own(t, pg, d)
             /\ KidsAt(u, pq, d) = KidsAt(t, pg, d)
             /\ \A q \in KidsAt(t, pg, d) : q # r => pq[q] = pg[q]
  <2>1. PICK R : R = {}
    OBVIOUS
  <2>2. Stays(t, u, R) /\ Own(t, pg, d) \cap R = {} /\ d # r
    BY <1>3, <2>1
  <2> QED BY <1>2, <2>2, DirStays, SMTT(60)
<1>6. FoldersIn(u, pq) = FoldersIn(t, pg) \cup {r}
  <2>1. KidsAt(u, pq, RootEntry) = KidsAt(t, pg, RootEntry)
    BY <1>1, <1>5
  <2>2. ASSUME NEW q \in KidsAt(t, pg, RootEntry)
        PROVE  q \in FoldersIn(u, pq) <=> q \in FoldersIn(t, pg) \/ q = r
    <3>1. CASE q = r
      BY <1>2, <2>1, <3>1 DEF FoldersIn, Sitting
    <3>2. CASE q # r
      <4>1. pq[q] = pg[q]
        BY <1>1, <1>5, <3>2
      <4> QED BY <2>1, <3>2, <4>1 DEF FoldersIn, Sitting
    <3> QED BY <3>1, <3>2
  <2> QED BY <2>1, <2>2 DEF FoldersIn, Sitting
<1>7. DirsIn(u, pq) = DirsIn(t, pg) \cup {r}
  BY <1>6 DEF DirsIn
<1>8. ASSUME NEW d \in DirsIn(t, pg), NEW q \in KidsAt(t, pg, d)
      PROVE  /\ q \in KidFiles(t, pg) => pq[q] = pg[q] /\ q \in KidFiles(u, pq)
             /\ pq[q] # Blank /\ pq[q].kind = "file" => pq[q] = pg[q] /\ q \in KidFiles(t, pg)
  <2>1. CASE q = r
    BY <1>4, <2>1
  <2>2. CASE q # r
    <3>1. pq[q] = pg[q] /\ KidsAt(u, pq, d) = KidsAt(t, pg, d) /\ d \in DirsIn(u, pq)
      BY <1>5, <1>7, <2>2
    <3> QED BY <3>1 DEF KidFiles
  <2> QED BY <2>1, <2>2
<1>9. FilesIn(u, pq) = FilesIn(t, pg)
  <2>1. ASSUME NEW q \in FilesIn(t, pg) PROVE q \in FilesIn(u, pq)
    <3>1. PICK d \in DirsIn(t, pg) : q \in KidsAt(t, pg, d)
      BY DEF FilesIn, KidFiles
    <3> QED BY <1>8, <3>1 DEF FilesIn
  <2>2. ASSUME NEW q \in FilesIn(u, pq) PROVE q \in FilesIn(t, pg)
    <3>1. q \in KidFiles(u, pq) /\ pq[q].exists
      BY DEF FilesIn
    <3>2. PICK d \in DirsIn(u, pq) : q \in KidsAt(u, pq, d)
      BY <3>1 DEF KidFiles
    <3>3. d # r
      BY <3>1, <3>2
    <3>4. d \in DirsIn(t, pg) /\ q \in KidsAt(t, pg, d)
      BY <1>5, <1>7, <3>2, <3>3
    <3>5. pq[q] # Blank /\ pq[q].kind = "file"
      BY <3>1 DEF KidFiles
    <3> QED BY <1>8, <3>1, <3>4, <3>5 DEF FilesIn
  <2> QED BY <2>1, <2>2
<1>10. ASSUME NEW q \in FilesIn(t, pg)
       PROVE  q # r /\ pq[q] = pg[q] /\ Own(u, pq, q) = Own(t, pg, q) /\ FileOK(u, pq, q)
  <2>1. PICK R : R = {}
    OBVIOUS
  <2>2. Stays(t, u, R) /\ Own(t, pg, q) \cap R = {}
    BY <2>1
  <2>3. q # r
    BY <1>4 DEF FilesIn
  <2> QED BY <2>2, <2>3, FileStays
<1>11. \A q \in OwnersIn(t, pg) : q # r /\ pq[q] = pg[q] /\ Own(u, pq, q) = Own(t, pg, q)
  BY <1>5, <1>10 DEF OwnersIn
<1>12. OwnersIn(u, pq) = OwnersIn(t, pg) \cup {r}
  BY <1>7, <1>9 DEF OwnersIn
<1>13. \A q \in OwnersIn(t, pg) : Own(t, pg, q) \subseteq t.used
  BY DEF OwnersIn, Image, FileOK, DirOK, Owned, Own
<1>14. Apart(u, pq)
  <2>1. \A q, s \in OwnersIn(t, pg) : q # s => Own(u, pq, q) \cap Own(u, pq, s) = {}
    BY <1>11 DEF Image, Apart
  <2>2. \A q \in OwnersIn(t, pg) : Own(u, pq, q) \cap Own(u, pq, r) = {}
    BY <1>11, <1>13
  <2> QED BY <1>12, <2>1, <2>2 DEF Apart
<1>15. ASSUME NEW d \in FoldersIn(u, pq) PROVE KidsAt(u, pq, d) \subseteq KidFiles(u, pq)
  <2>1. d \in DirsIn(u, pq)
    BY DEF DirsIn
  <2>2. CASE d = r
    <3>1. ASSUME NEW q \in KidsAt(u, pq, r) PROVE pq[q] # Blank
      <4>1. PICK i \in 2 .. pq[r].length - 1 : q = Spot(u, pq, r, i)
        BY DEF KidsAt, Spot
      <4>2. i \in 0 .. pq[r].length - 1
        BY DEF DirOK
      <4> QED BY <4>1, <4>2 DEF DirOK
    <3> QED BY <2>1, <2>2, <3>1 DEF KidFiles
  <2>3. CASE d # r
    <3>1. d \in FoldersIn(t, pg) /\ d \in DirsIn(t, pg)
      BY <1>6, <2>3 DEF DirsIn
    <3>2. KidsAt(t, pg, d) \subseteq KidFiles(t, pg)
      BY <3>1 DEF Image
    <3> QED BY <1>5, <1>8, <3>1, <3>2
  <2> QED BY <2>2, <2>3
<1>16. Image(u, pq)
  BY <1>5, <1>7, <1>9, <1>10, <1>14, <1>15 DEF Image
<1> QED BY <1>7, <1>9, <1>11, <1>16

-----------------------------------------------------------------------------
(***************************************************************************)
(* An entry added to a directory of an image.                              *)
(***************************************************************************)
\* A walk that begins on a chain stays on it.
LEMMA StaysOn ==
    ASSUME NEW t, Linked(t), Ranked(t), NEW c \in Fat \cup {End},
           NEW d \in Reached(t, c) \cup {End}, NEW j \in 0 .. Clusters
    PROVE  Walk(t, d)[j] \in Reached(t, c) \cup {End}
<1> DEFINE S == Reached(t, c) \cup {End}
           bad == {m \in 0 .. Clusters : Walk(t, d)[m] \notin S}
<1>1. ASSUME NEW e \in Reached(t, c) PROVE t.next[e] \in S
  <2>1. PICK k \in 0 .. Clusters : e = Walk(t, c)[k] /\ e # End
    BY DEF Reached
  <2>2. k # Clusters
    BY <2>1, Ends DEF Loops
  <2>3. k + 1 \in 1 .. Clusters /\ k + 1 \in 0 .. Clusters /\ (k + 1) - 1 = k
    BY <2>2, ClustersAre
  <2>4. Walk(t, c)[k + 1] = OnFrom(t, e)
    BY <2>1, <2>3, WalkIs
  <2>5. Walk(t, c)[k + 1] = t.next[e]
    BY <2>1, <2>4 DEF OnFrom
  <2> QED BY <2>3, <2>5 DEF Reached
<1>2. ASSUME bad # {} PROVE FALSE
  <2>1. bad \in SUBSET Nat
    BY ClustersAre
  <2>2. PICK m \in bad : \A v \in bad : m <= v
    BY <1>2, <2>1, LeastIn
  <2>3. m # 0
    BY <2>2, WalkIs
  <2>4. m \in 1 .. Clusters /\ m - 1 \in 0 .. Clusters /\ ~ (m <= m - 1)
    BY <2>1, <2>3, ClustersAre
  <2>5. PICK e : e = Walk(t, d)[m - 1]
    OBVIOUS
  <2>6. e \in S
    BY <2>2, <2>4, <2>5
  <2>7. Walk(t, d)[m] = OnFrom(t, e)
    BY <2>4, <2>5, WalkIs
  <2>8. Walk(t, d)[m] \in S
    BY <1>1, <2>6, <2>7 DEF OnFrom
  <2> QED BY <2>2, <2>8
<1> QED BY <1>2

LEMMA NoChain == ASSUME NEW t PROVE Reached(t, End) = {}
<1>1. 0 \in 0 .. Clusters /\ Walk(t, End)[0] = End
  BY WalkIs, ClustersAre
<1>2. \A k \in 0 .. Clusters : Walk(t, End)[k] = End
  BY <1>1, WalkTail
<1> QED BY <1>2 DEF Reached

LEMMA Halves ==
    ASSUME NEW n \in Nat
    PROVE  /\ n % 2 = 0 => (n + 1) \div 2 = n \div 2 /\ (n + 2) \div 2 = (n + 1) \div 2 + 1
           /\ n % 2 # 0 => /\ n % 2 = 1 /\ (n + 2) \div 2 = (n + 1) \div 2
                           /\ n \div 2 = (n + 1) \div 2 - 1
           /\ n % 2 \in {0, 1} /\ n \div 2 \in Nat /\ n \div 2 <= n
OBVIOUS

\* addObject's walk over a directory of an image stops at its last cluster.
LEMMA TailOfDir ==
    ASSUME NEW t, TableOK(t), NEW pg, NEW d, DirOK(t, pg, d),
           NEW n, n = (pg[d].length + 1) \div 2
    PROVE  TailOf(t, pg[d]) = Walk(t, pg[d].cluster)[n - 1]
<1>1. PICK c : c = pg[d].cluster
  OBVIOUS
<1> DEFINE w == Walk(t, c)
           stops == {k \in 0 .. n : w[k] = End \/ (w[k] \in t.used /\ t.next[w[k]] = End)}
<1>2. Runs(t, c, n) /\ Reached(t, c) \subseteq t.used
  BY <1>1 DEF DirOK, Owned
<1>3. Linked(t) /\ Ranked(t)
  BY DEF TableOK, Sane
<1>4. n \in 1 .. Clusters /\ n \in Nat /\ n - 1 \in 0 .. n /\ n - 1 \in Nat /\ w[n] = End
  BY <1>2, ClustersAre DEF Runs
<1>5. n - 1 \in stops
  BY <1>2, <1>3, <1>4, RunsIs
<1>6. ASSUME NEW k \in stops PROVE n - 1 <= k
  <2>1. CASE k \in 0 .. n - 2
    <3>1. k + 1 \in 1 .. Clusters /\ (k + 1) - 1 = k /\ k \in 0 .. n - 1 /\ k + 1 \in 0 .. n - 1
      BY <1>4, <2>1, ClustersAre
    <3>2. w[k] \in Fat /\ w[k] # End /\ w[k + 1] \in Fat
      BY <1>2, <3>1, ClustersAre DEF Runs
    <3>3. w[k + 1] = t.next[w[k]]
      BY <3>1, <3>2, WalkIs DEF OnFrom
    <3> QED BY <3>2, <3>3, ClustersAre
  <2>2. CASE k \notin 0 .. n - 2
    BY <1>4, <2>2
  <2> QED BY <2>1, <2>2
<1>7. stops # {}
  BY <1>5
<1>8. (CHOOSE k \in stops : \A j \in stops : k <= j) = n - 1
  <2>1. \A k \in stops : (\A j \in stops : k <= j) => k = n - 1
    <3>1. SUFFICES ASSUME NEW k \in stops, \A j \in stops : k <= j PROVE k = n - 1
      OBVIOUS
    <3>2. k <= n - 1 /\ n - 1 <= k /\ k \in Nat
      BY <1>4, <1>5, <1>6, <3>1
    <3> QED BY <1>4, <3>2
  <2> HIDE DEF stops
  <2> QED BY <1>5, <1>6, <2>1
<1>9. TailOf(t, pg[d])
      = w[IF stops = {} THEN n ELSE CHOOSE k \in stops : \A j \in stops : k <= j]
  BY <1>1 DEF TailOf
<1> HIDE DEF stops
<1> QED BY <1>1, <1>7, <1>8, <1>9

\* The page a directory's next entry goes to.
LEMMA NextSpot ==
    ASSUME setup \in Setups, NEW t, TableOK(t), NEW pg, NEW d, DirOK(t, pg, d),
           NEW x, x = Extended(t, TailOf(t, pg[d]), pg[d]),
           ~ (Full(pg[d]) /\ x.got = 0),
           NEW c, c = pg[d].cluster, NEW n, n = pg[d].length
    PROVE  /\ TableOK(x.t) /\ Owned(x.t, c, (n + 2) \div 2) /\ Grew(t, x.t, c)
           /\ x.last = Walk(x.t, c)[n \div 2]
           /\ \A k \in 0 .. (n + 1) \div 2 - 1 : Walk(x.t, c)[k] = Walk(t, c)[k]
<1>1. n \in Nat /\ n >= 2
  BY DEF DirOK
<1>2. PICK m : m = (n + 1) \div 2
  OBVIOUS
<1>3. PICK l : l = Walk(t, c)[m - 1]
  OBVIOUS
<1>4. x = Extended(t, l, pg[d])
  BY <1>2, <1>3, TailOfDir
<1>5. Owned(t, c, m)
  BY <1>2 DEF DirOK
<1>6. CASE n % 2 = 0
  <2>1. FreeFrom(t) # {}
    BY <1>4, <1>6 DEF Extended, Full, Started
  <2>2. x = [t |-> Appended(t, l), last |-> Found(t), got |-> 1]
    BY <1>4, <1>6, <2>1 DEF Extended, Full
  <2>3. PICK u : u = Appended(t, l)
    OBVIOUS
  <2>4. /\ TableOK(u) /\ Owned(u, c, m + 1) /\ Grew(t, u, c)
        /\ Walk(u, c)[m] = Found(t)
        /\ \A k \in 0 .. m - 1 : Walk(u, c)[k] = Walk(t, c)[k]
    BY <1>3, <1>5, <2>1, <2>3, AppendedGrew
  <2>5. n \div 2 = m /\ (n + 2) \div 2 = m + 1
    BY <1>1, <1>2, <1>6, Halves
  <2>6. x.t = u /\ x.last = Found(t)
    BY <2>2, <2>3
  <2> QED BY <1>2, <2>4, <2>5, <2>6
<1>7. CASE n % 2 # 0
  <2>1. x = Started(t, l)
    BY <1>4, <1>7 DEF Extended, Full
  <2>2. x.t = t /\ x.last = l
    BY <2>1 DEF Started
  <2>3. n \div 2 = m - 1 /\ (n + 2) \div 2 = m
    BY <1>1, <1>2, <1>7, Halves
  <2>4. Grew(t, t, c)
    BY DEF Grew
  <2> QED BY <1>2, <1>3, <1>5, <2>2, <2>3, <2>4
<1> QED BY <1>6, <1>7

\* It is nobody's.
LEMMA SpotIsNew ==
    ASSUME NEW t, NEW pg, Image(t, pg), NEW d \in DirsIn(t, pg),
           NEW u, TableOK(u), NEW c, c = pg[d].cluster, NEW n, n = pg[d].length,
           Owned(u, c, (n + 2) \div 2), Grew(t, u, c),
           \A k \in 0 .. (n + 1) \div 2 - 1 : Walk(u, c)[k] = Walk(t, c)[k],
           NEW p, p = <<Walk(u, c)[n \div 2], n % 2>>
    PROVE  /\ p \in Page
           /\ \A f \in DirsIn(t, pg) : \A i \in 0 .. pg[f].length - 1 : Spot(t, pg, f, i) # p
<1>1. DirOK(t, pg, d) /\ n \in Nat /\ n >= 2 /\ TableOK(t)
  BY DEF Image, DirOK
<1>2. PICK m : m = (n + 1) \div 2
  OBVIOUS
<1>3. PICK o : o = Walk(u, c)[n \div 2]
  OBVIOUS
<1>4. m \in Nat /\ m >= 1 /\ n \div 2 \in Nat /\ n \div 2 <= (n + 2) \div 2 - 1 /\ n \div 2 <= m
      /\ (n + 2) \div 2 \in Nat
  <2>1. (n + 1) \div 2 \in Nat /\ (n + 2) \div 2 \in Nat /\ (n + 1) \div 2 >= 1
    BY <1>1
  <2> QED BY <1>1, <1>2, <2>1, Halves
<1>5. Runs(u, c, (n + 2) \div 2) /\ Linked(u) /\ Ranked(u)
  BY DEF Owned, TableOK, Sane
<1>6. o \in Fat /\ c \in Fat /\ n \div 2 \in 0 .. Clusters
  <2>1. n \div 2 \in 0 .. (n + 2) \div 2 - 1
    BY <1>4
  <2>2. c \in Fat /\ o \in Fat
    BY <1>3, <1>5, <2>1, RunsIs DEF Runs
  <2>3. (n + 2) \div 2 <= Clusters
    BY <1>5 DEF Runs
  <2> QED BY <1>4, <2>2, <2>3, ClustersAre
<1>7. p \in Page
  BY <1>1, <1>3, <1>6, Halves DEF Page
<1>8. ASSUME NEW f \in DirsIn(t, pg), NEW i \in 0 .. pg[f].length - 1, Spot(t, pg, f, i) = p
      PROVE  FALSE
  <2>1. DirOK(t, pg, f)
    BY DEF Image
  <2>2. PICK j : j = i \div 2
    OBVIOUS
  <2>3. o = Walk(t, pg[f].cluster)[j] /\ i % 2 = n % 2 /\ o \in Own(t, pg, f)
    BY <1>3, <1>8, <2>1, <2>2, SpotIs
  <2>4. o \in t.used
    BY <2>1, <2>3 DEF DirOK, Owned, Own
  <2>5. o \in Reached(u, c)
    <3>1. o # End
      BY <1>6, ClustersAre
    <3> QED BY <1>3, <1>6, <3>1 DEF Reached
  <2>6. o \in Own(t, pg, d)
    BY <2>4, <2>5 DEF Grew, Own
  <2>7. f = d
    BY <2>3, <2>6 DEF Image, Apart, OwnersIn
  <2>8. j \in 0 .. m - 1 /\ j \in 0 .. Clusters /\ i \in Nat /\ i < n
    <3>1. j \in 0 .. (pg[f].length + 1) \div 2 - 1 /\ j \in 0 .. Clusters
      BY <2>1, <2>2, SpotIs
    <3> QED BY <1>1, <1>2, <2>7, <3>1
  <2>9. Walk(u, c)[j] = o
    BY <1>2, <2>3, <2>7, <2>8
  <2>10. j = n \div 2
    <3>1. c \in Fat \cup {End} /\ Walk(u, c)[j] # End /\ Walk(u, c)[j] = Walk(u, c)[n \div 2]
      BY <1>3, <1>6, <2>9, ClustersAre
    <3> QED BY <1>5, <1>6, <2>8, <3>1, WalkDistinct
  <2>11. i \div 2 = n \div 2 /\ i % 2 = n % 2
    BY <2>2, <2>3, <2>10
  <2> QED BY <1>1, <2>8, <2>11
<1> QED BY <1>7, <1>8

\* A directory gets an empty file, or the root directory a folder that does not exist yet.
NewEntry(e, d) ==
    /\ e # Blank /\ e.name # Dot
    /\ \/ e.kind = "file" /\ e.exists /\ e.cluster = End /\ e.length = 0
       \/ e.kind = "folder" /\ ~e.exists /\ d = RootEntry

LEMMA EntryAdded ==
    ASSUME NEW t, NEW pg, Image(t, pg), NEW d \in DirsIn(t, pg),
           NEW u, TableOK(u), NEW c, c = pg[d].cluster, NEW n, n = pg[d].length,
           Owned(u, c, (n + 2) \div 2), Grew(t, u, c),
           \A k \in 0 .. (n + 1) \div 2 - 1 : Walk(u, c)[k] = Walk(t, c)[k],
           NEW p, p = <<Walk(u, c)[n \div 2], n % 2>>,
           NEW e, NewEntry(e, d), NEW pq, PagesOK(pq),
           \A q \in Page : pq[q] # Blank => PageOK(pq[q]),
           pq[p] = e, pq[d] = Longer(pg[d]), pq[d] # Blank,
           \A q \in Page : q \notin {p, d} => pq[q] = pg[q]
    PROVE  /\ Image(u, pq) /\ DirsIn(u, pq) = DirsIn(t, pg)
           /\ p \notin OwnersIn(t, pg) /\ p \in KidsAt(u, pq, d)
           /\ FilesIn(u, pq) = FilesIn(t, pg) \cup (IF e.kind = "file" THEN {p} ELSE {})
           /\ \A q \in FilesIn(t, pg) : pq[q] = pg[q] /\ Own(u, pq, q) = Own(t, pg, q)
           /\ \A q \in DirsIn(t, pg) :
                 Own(u, pq, q) = Own(t, pg, q) \cup (IF q = d THEN u.used \ t.used ELSE {})
<1>1. /\ DirOK(t, pg, d) /\ n \in Nat /\ n >= 2 /\ TableOK(t) /\ n - 1 \in Nat
  BY DEF Image, DirOK
<1>2. /\ p \in Page
      /\ \A f \in DirsIn(t, pg) : \A i \in 0 .. pg[f].length - 1 : Spot(t, pg, f, i) # p
  BY SpotIsNew
<1>3. Root \in Fat /\ RootEntry \in DirsIn(t, pg)
  BY ClustersAre DEF DirsIn
<1>4. \A f \in DirsIn(t, pg) : f # p
  <2>1. RootEntry # p
    BY <1>2, <1>3, RootSpot
  <2>2. ASSUME NEW f \in FoldersIn(t, pg) PROVE f # p
    <3>1. PICK i \in 2 .. pg[RootEntry].length - 1 : f = Spot(t, pg, RootEntry, i)
      BY FolderSpot
    <3>2. i \in 0 .. pg[RootEntry].length - 1
      BY <3>1, RootSpot DEF DirOK
    <3> QED BY <1>2, <1>3, <3>1, <3>2
  <2> QED BY <2>1, <2>2 DEF DirsIn
<1>5. /\ pq[d].length = n + 1 /\ pq[d].cluster = c /\ pq[d].name = pg[d].name
      /\ pq[d].kind = pg[d].kind /\ pq[d].exists = pg[d].exists /\ pg[d] # Blank /\ pq[d] # Blank
      /\ d \in Page
  <2>1. d \in Page /\ pg[d] # Blank
    BY RootSpot, FolderSpot DEF DirsIn
  <2>2. EntryFits(pg[d])
    BY <2>1 DEF Image, PagesOK
  <2>3. /\ Longer(pg[d]).length = n + 1 /\ Longer(pg[d]).cluster = c
        /\ Longer(pg[d]).name = pg[d].name /\ Longer(pg[d]).kind = pg[d].kind
        /\ Longer(pg[d]).exists = pg[d].exists
    BY <2>2 DEF Longer, EntryFits, Entry
  <2> QED BY <2>1, <2>3
<1>6. \A f \in DirsIn(t, pg) : Own(t, pg, f) \subseteq t.used
  BY DEF Image, DirOK, Owned, Own
<1>7. \A f \in OwnersIn(t, pg) : f # d => Own(t, pg, f) \cap Own(t, pg, d) = {}
  BY DEF Image, Apart, OwnersIn
<1>8. \A o \in t.used : o \notin Own(t, pg, d) => o \in u.used /\ u.next[o] = t.next[o]
  BY DEF Grew, Own
<1>9. \A f \in DirsIn(t, pg) : \A i \in 0 .. pg[f].length - 1 :
         LET q == Spot(t, pg, f, i)
         IN  /\ q # p /\ q \in Page /\ pg[q] # Blank /\ pq[q] # Blank
             /\ pq[q].name = pg[q].name /\ pq[q].kind = pg[q].kind /\ pq[q].exists = pg[q].exists
             /\ q # d => pq[q] = pg[q]
  <2>1. SUFFICES ASSUME NEW f \in DirsIn(t, pg), NEW i \in 0 .. pg[f].length - 1,
                        NEW q, q = Spot(t, pg, f, i)
                 PROVE  /\ q # p /\ q \in Page /\ pg[q] # Blank /\ pq[q] # Blank
                        /\ pq[q].name = pg[q].name /\ pq[q].kind = pg[q].kind
                        /\ pq[q].exists = pg[q].exists
                        /\ q # d => pq[q] = pg[q]
    OBVIOUS
  <2>2. DirOK(t, pg, f)
    BY DEF Image
  <2>3. q # p /\ q \in Page /\ pg[q] # Blank
    BY <1>2, <2>1, <2>2, SpotIs DEF DirOK
  <2>4. q # d => pq[q] = pg[q]
    BY <2>3
  <2> QED BY <1>5, <2>3, <2>4
<1>10. /\ DirOK(u, pq, d) /\ KidsAt(u, pq, d) = KidsAt(t, pg, d) \cup {p}
       /\ Own(u, pq, d) = Own(t, pg, d) \cup (u.used \ t.used)
  <2>1. ASSUME NEW i \in 0 .. n - 1 PROVE Spot(u, pq, d, i) = Spot(t, pg, d, i)
    <3>1. i \div 2 \in 0 .. (n + 1) \div 2 - 1
      BY <1>1, SpotIs
    <3>2. Walk(u, c)[i \div 2] = Walk(t, c)[i \div 2]
      BY <3>1
    <3> QED BY <1>5, <3>2 DEF Spot, At
  <2>2. Spot(u, pq, d, n) = p
    BY <1>5 DEF Spot, At
  <2>3. Owned(u, pq[d].cluster, (pq[d].length + 1) \div 2)
    <3>1. (n + 1) + 1 = n + 2
      BY <1>1
    <3> QED BY <1>5, <3>1
  <2>4. ASSUME NEW i \in 0 .. pq[d].length - 1
        PROVE  /\ pq[Spot(u, pq, d, i)] # Blank
               /\ pq[Spot(u, pq, d, i)].name = Dot <=> i < 2
    <3>1. i \in 0 .. n - 1 \/ i = n
      BY <1>1, <1>5
    <3>2. CASE i \in 0 .. n - 1
      <4>1. pq[Spot(t, pg, d, i)] # Blank
            /\ pq[Spot(t, pg, d, i)].name = pg[Spot(t, pg, d, i)].name
        BY <1>9, <3>2
      <4>2. pg[Spot(t, pg, d, i)].name = Dot <=> i < 2
        BY <1>1, <3>2 DEF DirOK
      <4> QED BY <2>1, <3>2, <4>1, <4>2
    <3>3. CASE i = n
      <4>1. ~ (i < 2)
        BY <1>1, <3>3
      <4> QED BY <2>2, <3>3, <4>1 DEF NewEntry
    <3> QED BY <3>1, <3>2, <3>3
  <2>5. DirOK(u, pq, d)
    BY <1>1, <1>5, <2>3, <2>4 DEF DirOK
  <2>6. KidsAt(u, pq, d) = KidsAt(t, pg, d) \cup {p}
    <3>1. \A i : i \in 2 .. pq[d].length - 1 <=> i \in 2 .. n - 1 \/ i = n
      BY <1>1, <1>5
    <3>2. \A i \in 2 .. n - 1 : i \in 0 .. n - 1
      BY <1>1
    <3>3. KidsAt(u, pq, d) = {Spot(u, pq, d, i) : i \in 2 .. pq[d].length - 1}
      BY DEF KidsAt, Spot
    <3>4. KidsAt(t, pg, d) = {Spot(t, pg, d, i) : i \in 2 .. n - 1}
      BY DEF KidsAt, Spot
    <3> QED BY <2>1, <2>2, <3>1, <3>2, <3>3, <3>4
  <2>7. Own(u, pq, d) = Own(t, pg, d) \cup (u.used \ t.used)
    BY <1>5 DEF Own, Grew
  <2> QED BY <2>5, <2>6, <2>7
<1>11. ASSUME NEW f \in DirsIn(t, pg), f # d
       PROVE  /\ DirOK(u, pq, f) /\ Own(u, pq, f) = Own(t, pg, f)
              /\ KidsAt(u, pq, f) = KidsAt(t, pg, f) /\ pq[f] = pg[f]
  <2>1. DirOK(t, pg, f) /\ f \in Page
    BY RootSpot, FolderSpot DEF Image, DirsIn
  <2>2. pq[f] = pg[f]
    BY <1>4, <1>11, <2>1
  <2>3. \A o \in Own(t, pg, f) : o \in u.used /\ u.next[o] = t.next[o]
    BY <1>6, <1>7, <1>8, <1>11 DEF OwnersIn
  <2>4. ASSUME NEW i \in 0 .. pg[f].length - 1
        PROVE  LET q == Spot(t, pg, f, i)
               IN  pq[q] # Blank /\ (pq[q].name = Dot <=> pg[q].name = Dot)
    BY <1>9
  <2>5. pq[f].cluster = pg[f].cluster /\ pq[f].length = pg[f].length
    BY <2>2
  <2> QED BY <2>1, <2>2, <2>3, <2>4, <2>5, DirKept
<1>12. ASSUME NEW f \in DirsIn(t, pg), NEW q \in KidsAt(t, pg, f)
       PROVE  /\ q # p /\ q \in Page /\ pg[q] # Blank /\ pq[q] # Blank
              /\ pq[q].name = pg[q].name /\ pq[q].kind = pg[q].kind
              /\ pq[q].exists = pg[q].exists
              /\ (q # d => pq[q] = pg[q])
  <2>1. PICK i \in 0 .. pg[f].length - 1 : q = Spot(t, pg, f, i)
    BY KidSpot
  <2> QED BY <1>9, <2>1
<1>13. FoldersIn(u, pq) = FoldersIn(t, pg)
  <2>1. ASSUME NEW q \in KidsAt(t, pg, RootEntry)
        PROVE  (pq[q] # Blank /\ pq[q].exists /\ pq[q].kind = "folder")
               <=> (pg[q] # Blank /\ pg[q].exists /\ pg[q].kind = "folder")
    <3>1. /\ pg[q] # Blank /\ pq[q] # Blank /\ pq[q].kind = pg[q].kind
          /\ pq[q].exists = pg[q].exists
      BY <1>3, <1>12
    <3> QED BY <3>1
  <2>2. d = RootEntry => ~ (pq[p].exists /\ pq[p].kind = "folder")
    BY DEF NewEntry
  <2>3. KidsAt(u, pq, RootEntry)
        = KidsAt(t, pg, RootEntry) \cup (IF d = RootEntry THEN {p} ELSE {})
    BY <1>3, <1>10, <1>11
  <2> QED BY <2>1, <2>2, <2>3 DEF FoldersIn, Sitting
<1>14. DirsIn(u, pq) = DirsIn(t, pg)
  BY <1>13 DEF DirsIn
<1>15. \A q \in KidFiles(t, pg) : q # p /\ q # d /\ pq[q] = pg[q]
  <2>1. SUFFICES ASSUME NEW q \in KidFiles(t, pg) PROVE q # p /\ q # d /\ pq[q] = pg[q]
    OBVIOUS
  <2>2. q # d
    BY FileSpot
  <2> QED BY <1>12, <2>2 DEF KidFiles
<1>16. KidFiles(u, pq) = KidFiles(t, pg) \cup (IF e.kind = "file" THEN {p} ELSE {})
  <2>1. \A f \in DirsIn(t, pg) :
           KidsAt(u, pq, f) = KidsAt(t, pg, f) \cup (IF f = d THEN {p} ELSE {})
    BY <1>10, <1>11
  <2>2. \A f \in DirsIn(t, pg) : \A q \in KidsAt(t, pg, f) :
           pq[q] # Blank /\ pg[q] # Blank /\ pq[q].kind = pg[q].kind
    BY <1>12
  <2>3. pq[p] # Blank /\ pq[p].kind = e.kind
    BY DEF NewEntry
  <2> QED BY <1>14, <2>1, <2>2, <2>3 DEF KidFiles
<1>17. FilesIn(u, pq) = FilesIn(t, pg) \cup (IF e.kind = "file" THEN {p} ELSE {})
  <2>1. e.kind = "file" => pq[p].exists
    BY DEF NewEntry
  <2> QED BY <1>15, <1>16, <2>1 DEF FilesIn
<1>18. ASSUME NEW q \in FilesIn(t, pg)
       PROVE  q # p /\ pq[q] = pg[q] /\ Own(u, pq, q) = Own(t, pg, q) /\ FileOK(u, pq, q)
  <2>1. q # p /\ q # d /\ pq[q] = pg[q]
    BY <1>15 DEF FilesIn
  <2>2. FileOK(t, pg, q)
    BY DEF Image
  <2>3. \A o \in Own(t, pg, q) : o \in u.used /\ u.next[o] = t.next[o]
    BY <1>7, <1>8, <2>1, <2>2 DEF FileOK, OwnersIn
  <2>4. Own(u, pq, q) = Own(t, pg, q)
    <3>1. PICK b : b = pg[q].cluster
      OBVIOUS
    <3>2. \A o \in Reached(t, b) : u.next[o] = t.next[o]
      BY <2>3, <3>1 DEF Own
    <3>3. Reached(u, b) = Reached(t, b)
      BY <3>2, WalkSame, ZenonT(60)
    <3> QED BY <2>1, <3>1, <3>3 DEF Own
  <2> QED BY <2>1, <2>2, <2>3, <2>4 DEF FileOK
<1>19. e.kind = "file" => Own(u, pq, p) = {} /\ FileOK(u, pq, p)
  <2>1. SUFFICES ASSUME e.kind = "file" PROVE Own(u, pq, p) = {} /\ FileOK(u, pq, p)
    OBVIOUS
  <2>2. pq[p].cluster = End /\ pq[p].length = 0
    BY <2>1 DEF NewEntry
  <2>3. Own(u, pq, p) = {}
    BY <2>2, NoChain DEF Own
  <2>4. Size(0) <= Cardinality(Own(u, pq, p))
    <3>1. Size(0) = 0
      <4>1. PICK k \in Nat : k = ClusterSize /\ k >= 1
        BY ClustersAre
      <4>2. (0 + k - 1) \div k = 0
        BY <4>1
      <4> QED BY <4>1, <4>2 DEF Size
    <3>2. Cardinality(Own(u, pq, p)) = 0
      BY <2>3, FS_EmptySet
    <3> QED BY <3>1, <3>2
  <2> QED BY <2>2, <2>3, <2>4 DEF FileOK
<1>20. Apart(u, pq)
  <2>1. SUFFICES ASSUME NEW q \in OwnersIn(u, pq), NEW r \in OwnersIn(u, pq), q # r
                 PROVE  Own(u, pq, q) \cap Own(u, pq, r) = {}
    BY DEF Apart
  <2>2. \A s \in OwnersIn(u, pq) : s \in OwnersIn(t, pg) \/ (s = p /\ Own(u, pq, p) = {})
    BY <1>14, <1>17, <1>19 DEF OwnersIn
  <2>3. \A s \in OwnersIn(t, pg) : s # d => Own(u, pq, s) = Own(t, pg, s)
    BY <1>11, <1>18 DEF OwnersIn
  <2>4. \A s \in OwnersIn(t, pg) : Own(t, pg, s) \subseteq t.used
    BY <1>6 DEF OwnersIn, Image, FileOK
  <2>5. \A s \in OwnersIn(t, pg) : s # d => Own(u, pq, s) \cap Own(u, pq, d) = {}
    BY <1>7, <1>10, <2>3, <2>4
  <2>6. CASE q = p \/ r = p
    BY <1>18, <1>19, <2>2, <2>6, <1>4 DEF OwnersIn
  <2>7. CASE q # p /\ r # p
    <3>1. q \in OwnersIn(t, pg) /\ r \in OwnersIn(t, pg)
      BY <2>2, <2>7
    <3>2. CASE q # d /\ r # d
      BY <2>1, <2>3, <3>1, <3>2 DEF Image, Apart
    <3>3. CASE q = d \/ r = d
      BY <2>1, <2>5, <3>1, <3>3
    <3> QED BY <3>2, <3>3
  <2> QED BY <2>6, <2>7
<1>21. ASSUME NEW f \in FoldersIn(u, pq) PROVE KidsAt(u, pq, f) \subseteq KidFiles(u, pq)
  <2>1. f \in FoldersIn(t, pg) /\ f \in DirsIn(t, pg) /\ f # RootEntry
    BY <1>13, FolderSpot DEF DirsIn
  <2>2. KidsAt(t, pg, f) \subseteq KidFiles(t, pg)
    BY <2>1 DEF Image
  <2>3. f = d => e.kind = "file"
    BY <2>1 DEF NewEntry
  <2>4. KidsAt(u, pq, f) = KidsAt(t, pg, f) \cup (IF f = d THEN {p} ELSE {})
    BY <1>10, <1>11, <2>1
  <2> QED BY <1>16, <2>2, <2>3, <2>4
<1>22. Image(u, pq)
  <2>1. \A f \in DirsIn(u, pq) : DirOK(u, pq, f)
    BY <1>10, <1>11, <1>14
  <2>2. \A q \in FilesIn(u, pq) : FileOK(u, pq, q)
    BY <1>17, <1>18, <1>19
  <2> QED BY <1>20, <1>21, <2>1, <2>2 DEF Image
<1>23. p \notin OwnersIn(t, pg)
  BY <1>4, <1>18 DEF OwnersIn
<1>24. p \in KidsAt(u, pq, d)
  BY <1>10
<1>25. \A q \in DirsIn(t, pg) :
          Own(u, pq, q) = Own(t, pg, q) \cup (IF q = d THEN u.used \ t.used ELSE {})
  BY <1>10, <1>11
<1> QED BY <1>14, <1>17, <1>18, <1>22, <1>23, <1>24, <1>25

\* No cluster is lost when the directory gets what is taken.
LEMMA EntryLossless ==
    ASSUME NEW t, NEW pg, Lossless(t, pg), NEW d \in DirsIn(t, pg), NEW u, NEW pq, NEW p,
           t.used \subseteq u.used, DirsIn(u, pq) = DirsIn(t, pg),
           FilesIn(t, pg) \subseteq FilesIn(u, pq), FilesIn(u, pq) \subseteq FilesIn(t, pg) \cup {p},
           p \in FilesIn(u, pq) => Own(u, pq, p) \subseteq u.used,
           \A q \in FilesIn(t, pg) : Own(u, pq, q) = Own(t, pg, q),
           \A q \in DirsIn(t, pg) :
              Own(u, pq, q) = Own(t, pg, q) \cup (IF q = d THEN u.used \ t.used ELSE {})
    PROVE  Lossless(u, pq)
<1>1. t.used = UNION {Own(t, pg, q) : q \in OwnersIn(t, pg)}
  BY DEF Lossless
<1>2. OwnersIn(t, pg) \subseteq OwnersIn(u, pq) /\ d \in OwnersIn(u, pq)
  BY DEF OwnersIn
<1>3. \A q \in OwnersIn(t, pg) : Own(t, pg, q) \subseteq Own(u, pq, q)
  BY DEF OwnersIn
<1>4. ASSUME NEW c \in u.used PROVE \E q \in OwnersIn(u, pq) : c \in Own(u, pq, q)
  <2>1. CASE c \in t.used
    <3>1. PICK q \in OwnersIn(t, pg) : c \in Own(t, pg, q)
      BY <1>1, <2>1
    <3> QED BY <1>2, <1>3, <3>1
  <2>2. CASE c \notin t.used
    BY <1>2, <2>2
  <2> QED BY <2>1, <2>2
<1>5. ASSUME NEW q \in OwnersIn(u, pq) PROVE Own(u, pq, q) \subseteq u.used
  <2>1. CASE q \in FilesIn(t, pg)
    <3>1. q \in OwnersIn(t, pg)
      BY <2>1 DEF OwnersIn
    <3>2. Own(t, pg, q) \subseteq t.used
      BY <1>1, <3>1
    <3> QED BY <2>1, <3>2
  <2>2. CASE q \in DirsIn(t, pg)
    <3>1. q \in OwnersIn(t, pg)
      BY <2>2 DEF OwnersIn
    <3>2. Own(t, pg, q) \subseteq t.used
      BY <1>1, <3>1
    <3> QED BY <2>2, <3>2
  <2>3. q \in FilesIn(t, pg) \/ q \in DirsIn(t, pg) \/ (q = p /\ p \in FilesIn(u, pq))
    BY DEF OwnersIn
  <2> QED BY <2>1, <2>2, <2>3
<1> QED BY <1>4, <1>5 DEF Lossless

\* A table that keeps what is allocated keeps the image.
LEMMA ImageSame ==
    ASSUME NEW t, NEW pg, Image(t, pg), NEW u, TableOK(u),
           \A c \in t.used : c \in u.used /\ u.next[c] = t.next[c]
    PROVE  /\ Image(u, pg) /\ DirsIn(u, pg) = DirsIn(t, pg)
           /\ FilesIn(u, pg) = FilesIn(t, pg)
           /\ \A q \in OwnersIn(t, pg) : Own(u, pg, q) = Own(t, pg, q)
<1>1. ASSUME NEW d \in DirsIn(t, pg)
      PROVE  DirOK(u, pg, d) /\ Own(u, pg, d) = Own(t, pg, d) /\ KidsAt(u, pg, d) = KidsAt(t, pg, d)
  <2>1. DirOK(t, pg, d)
    BY DEF Image
  <2>2. \A c \in Own(t, pg, d) : c \in u.used /\ u.next[c] = t.next[c]
    BY <2>1 DEF DirOK, Owned, Own
  <2>3. \A i \in 0 .. pg[d].length - 1 : pg[Spot(t, pg, d, i)] # Blank
    BY <2>1 DEF DirOK
  <2> QED BY <2>1, <2>2, <2>3, DirKept
<1>2. FoldersIn(u, pg) = FoldersIn(t, pg)
  BY <1>1, RootSpot DEF FoldersIn
<1>3. DirsIn(u, pg) = DirsIn(t, pg)
  BY <1>2 DEF DirsIn
<1>4. KidFiles(u, pg) = KidFiles(t, pg)
  BY <1>1, <1>3 DEF KidFiles
<1>5. FilesIn(u, pg) = FilesIn(t, pg)
  BY <1>4 DEF FilesIn
<1>6. ASSUME NEW q \in FilesIn(t, pg) PROVE Own(u, pg, q) = Own(t, pg, q) /\ FileOK(u, pg, q)
  <2>1. FileOK(t, pg, q)
    BY DEF Image
  <2>2. \A o \in Own(t, pg, q) : o \in u.used /\ u.next[o] = t.next[o]
    BY <2>1 DEF FileOK
  <2>3. Own(u, pg, q) = Own(t, pg, q)
    <3>1. PICK b : b = pg[q].cluster
      OBVIOUS
    <3>2. \A o \in Reached(t, b) : u.next[o] = t.next[o]
      BY <2>2, <3>1 DEF Own
    <3> QED BY <3>1, <3>2, WalkSame DEF Own
  <2> QED BY <2>1, <2>2, <2>3 DEF FileOK
<1>7. \A q \in OwnersIn(t, pg) : Own(u, pg, q) = Own(t, pg, q)
  BY <1>1, <1>6 DEF OwnersIn
<1>8. OwnersIn(u, pg) = OwnersIn(t, pg)
  BY <1>3, <1>5 DEF OwnersIn
<1>9. Apart(u, pg)
  BY <1>7, <1>8 DEF Image, Apart
<1>10. \A d \in FoldersIn(u, pg) : KidsAt(u, pg, d) \subseteq KidFiles(u, pg)
  BY <1>1, <1>2, <1>4 DEF Image, DirsIn
<1>11. Image(u, pg)
  BY <1>1, <1>3, <1>5, <1>6, <1>9, <1>10 DEF Image
<1> QED BY <1>3, <1>5, <1>7, <1>11

LEMMA SameLossless ==
    ASSUME NEW t, NEW pg, Lossless(t, pg), NEW u, u.used = t.used,
           DirsIn(u, pg) = DirsIn(t, pg), FilesIn(u, pg) = FilesIn(t, pg),
           \A q \in OwnersIn(t, pg) : Own(u, pg, q) = Own(t, pg, q)
    PROVE  Lossless(u, pg)
BY DEF Lossless, OwnersIn

-----------------------------------------------------------------------------
(***************************************************************************)
(* What a search finds in an image.                                        *)
(***************************************************************************)
Result(pg, s, n) ==
    IF pg[s].name = n THEN s ELSE IF pg[s].length = 0 THEN Nowhere ELSE Garbage

\* The first entry that matches is the i-th.
FirstMatch(t, pg, d, n, i) ==
    /\ i \in 0 .. pg[d].length - 1
    /\ Matches(pg[Spot(t, pg, d, i)].name, n)
    /\ \A j \in 0 .. i - 1 : ~Matches(pg[Spot(t, pg, d, j)].name, n)

LEMMA ScanIn ==
    ASSUME NEW t, NEW pg, NEW d, DirOK(t, pg, d), NEW n, NEW q, q = Scan(t, pg, d, n)
    PROVE  \/ /\ q = Nowhere
              /\ \A j \in 0 .. pg[d].length - 1 : ~Matches(pg[Spot(t, pg, d, j)].name, n)
           \/ \E i : FirstMatch(t, pg, d, n, i) /\ q = Result(pg, Spot(t, pg, d, i), n)
<1>1. PICK L : L = pg[d].length
  OBVIOUS
<1>2. L \in Nat
  BY <1>1 DEF DirOK
<1>3. \A i \in 0 .. L - 1 : ~Unreadable(pg, Spot(t, pg, d, i))
  BY <1>1, SpotIs DEF Unreadable, DirOK
<1> DEFINE at(i) == <<Walk(t, pg[d].cluster)[i \div 2], i % 2>>
           stops == {i \in 0 .. pg[d].length - 1 : Unreadable(pg, at(i)) \/ Matches(pg[at(i)].name, n)}
           least == CHOOSE i \in stops : \A j \in stops : i <= j
<1>4. \A i : at(i) = Spot(t, pg, d, i)
  BY DEF Spot, At
<1>5. q = IF stops = {} THEN Nowhere
          ELSE IF Unreadable(pg, at(least)) THEN Garbage
          ELSE IF pg[at(least)].name = n THEN at(least)
          ELSE IF pg[at(least)].length = 0 THEN Nowhere ELSE Garbage
  BY DEF Scan
<1>6. \A i \in 0 .. L - 1 : i \in stops <=> Matches(pg[Spot(t, pg, d, i)].name, n)
  BY <1>1, <1>3, <1>4
<1>7. stops \in SUBSET Nat /\ stops \subseteq 0 .. L - 1
  BY <1>1, <1>2
<1>8. CASE stops = {}
  BY <1>1, <1>5, <1>6, <1>8
<1>9. CASE stops # {}
  <2>1. PICK i : i = least
    OBVIOUS
  <2>2. i \in stops /\ \A j \in stops : i <= j
    <3>1. \E k \in stops : \A j \in stops : k <= j
      BY <1>7, <1>9, LeastIn
    <3> HIDE DEF stops
    <3> QED BY <2>1, <3>1
  <2>3. i \in 0 .. L - 1 /\ i \in Nat
    BY <1>2, <1>7, <2>2
  <2>4. \A j \in 0 .. i - 1 : j \in 0 .. L - 1 /\ ~ (i <= j)
    BY <1>2, <2>3
  <2>5. \A j \in 0 .. i - 1 : ~Matches(pg[Spot(t, pg, d, j)].name, n)
    BY <1>6, <2>2, <2>4
  <2>6. Matches(pg[Spot(t, pg, d, i)].name, n)
    BY <1>6, <2>2, <2>3
  <2>7. q = Result(pg, Spot(t, pg, d, i), n)
    <3>1. PICK s : s = Spot(t, pg, d, i)
      OBVIOUS
    <3>2. at(least) = s /\ ~Unreadable(pg, s)
      BY <1>3, <1>4, <2>1, <2>3, <3>1
    <3> HIDE DEF stops, least, at
    <3> QED BY <1>5, <1>9, <3>1, <3>2 DEF Result
  <2> QED BY <1>1, <2>3, <2>5, <2>6, <2>7 DEF FirstMatch
<1> QED BY <1>8, <1>9

LEMMA ScanFirst ==
    ASSUME NEW t, NEW pg, NEW d, DirOK(t, pg, d), NEW n, NEW i, FirstMatch(t, pg, d, n, i)
    PROVE  Scan(t, pg, d, n) = Result(pg, Spot(t, pg, d, i), n)
<1>1. PICK q : q = Scan(t, pg, d, n)
  OBVIOUS
<1>2. i \in 0 .. pg[d].length - 1 /\ i \in Nat
  BY DEF FirstMatch, DirOK
<1>3. PICK k : FirstMatch(t, pg, d, n, k) /\ q = Result(pg, Spot(t, pg, d, k), n)
  BY <1>1, ScanIn DEF FirstMatch
<1>4. k \in Nat
  BY <1>3 DEF FirstMatch, DirOK
<1>5. ~ (k < i) /\ ~ (i < k)
  <2>1. k < i => k \in 0 .. i - 1
    BY <1>2, <1>4
  <2>2. i < k => i \in 0 .. k - 1
    BY <1>2, <1>4
  <2> QED BY <1>3, <2>1, <2>2 DEF FirstMatch
<1>6. k = i
  BY <1>2, <1>4, <1>5
<1> QED BY <1>1, <1>3, <1>6

\* A page that is found is an entry of the directory, the first that matches.
LEMMA ScanPlace ==
    ASSUME NEW t, NEW pg, NEW d, DirOK(t, pg, d), NEW n, NEW q, q = Scan(t, pg, d, n), q \in Page
    PROVE  pg[q].name = n /\ \E i : FirstMatch(t, pg, d, n, i) /\ q = Spot(t, pg, d, i)
<1>1. q # Nowhere /\ q # Garbage
  BY PagesAre
<1>2. PICK i : FirstMatch(t, pg, d, n, i) /\ q = Result(pg, Spot(t, pg, d, i), n)
  BY <1>1, ScanIn
<1> QED BY <1>1, <1>2 DEF Result

\* It is a file or folder of the directory, unless what is sought is . or ...
LEMMA ScanKid ==
    ASSUME NEW t, NEW pg, NEW d, DirOK(t, pg, d), NEW n, n # Dot,
           NEW q, q = Scan(t, pg, d, n), q \in Page
    PROVE  q \in KidsAt(t, pg, d) /\ pg[q].name = n /\ pg[q] # Blank
<1>1. PICK i : FirstMatch(t, pg, d, n, i) /\ q = Spot(t, pg, d, i) /\ pg[q].name = n
  BY ScanPlace
<1>2. i \in 0 .. pg[d].length - 1 /\ pg[d].length \in Nat
  BY <1>1 DEF FirstMatch, DirOK
<1>3. pg[q] # Blank /\ (pg[q].name = Dot <=> i < 2)
  BY <1>1, <1>2 DEF DirOK
<1>4. i \in 2 .. pg[d].length - 1
  BY <1>1, <1>2, <1>3
<1> QED BY <1>1, <1>3, <1>4 DEF KidsAt, Spot

LEMMA FolderFound ==
    ASSUME NEW t, NEW pg, Image(t, pg), NEW n \in Folders, NEW p,
           p = Scan(t, pg, RootEntry, n), p \in Page
    PROVE  /\ p \in KidsAt(t, pg, RootEntry) /\ pg[p].kind = "folder" /\ pg[p].name = n
           /\ pg[p] # Blank /\ (pg[p].exists => p \in FoldersIn(t, pg))
<1>1. n # Dot /\ n \notin Files
  BY VmcAssumption
<1>2. p \in KidsAt(t, pg, RootEntry) /\ pg[p].name = n /\ pg[p] # Blank
  BY <1>1, RootSpot, ScanKid
<1>3. pg[p].kind = "folder"
  BY <1>1, <1>2 DEF Image, PagesOK, PageOK, EntryFits, Entry
<1> QED BY <1>2, <1>3 DEF FoldersIn, Sitting

\* The directory and the file a path leads to, if the folder it names exists.
LEMMA PathFound ==
    ASSUME NEW t, NEW pg, Image(t, pg), NEW path, path.name \in Files,
           path.dir \in Folders \cup {Dot}, NEW d, d = Parent(t, pg, path),
           d \in Page => pg[d].exists \/ d = RootEntry,
           NEW p, p = Lookup(t, pg, path), p \in Page
    PROVE  /\ d \in DirsIn(t, pg) /\ p \in KidsAt(t, pg, d) /\ p \in KidFiles(t, pg)
           /\ pg[p].name = path.name /\ (pg[p].exists => p \in FilesIn(t, pg))
<1>1. d \in Page /\ p = Scan(t, pg, d, path.name)
  BY DEF Lookup
<1>2. d \in DirsIn(t, pg)
  <2>1. CASE path.dir = Dot
    BY <2>1 DEF Parent, DirsIn
  <2>2. CASE path.dir # Dot
    <3>1. d = Scan(t, pg, RootEntry, path.dir) /\ path.dir \in Folders
      BY <2>2 DEF Parent
    <3> QED BY <1>1, <3>1, FolderFound DEF DirsIn
  <2> QED BY <2>1, <2>2
<1>3. path.name # Dot /\ DirOK(t, pg, d)
  BY <1>2, VmcAssumption DEF Image
<1>4. p \in KidsAt(t, pg, d) /\ pg[p].name = path.name /\ pg[p] # Blank
  BY <1>1, <1>3, ScanKid
<1>5. pg[p].kind = "file"
  BY <1>4 DEF Image, PageOK
<1> QED BY <1>2, <1>4, <1>5 DEF KidFiles, FilesIn

-----------------------------------------------------------------------------
(***************************************************************************)
(* Calls on handles.                                                       *)
(***************************************************************************)
HoldsOn(t, pg, f) ==
    /\ f.entry \in FilesIn(t, pg)
    /\ f.start = pg[f.entry].cluster /\ f.length = pg[f.entry].length
    /\ f.at \in Own(t, pg, f.entry) \cup {End}

\* One handle changes, and the files of the others do not.
LEMMA HoldingPut ==
    ASSUME NEW t, NEW pg, NEW hs, Holding(t, pg, hs), HandlesOK(hs), NEW u, NEW pq,
           NEW h \in Handles, NEW f,
           \A g \in Handles : g # h /\ hs[g].entry # Nowhere =>
              LET p == hs[g].entry
              IN  /\ p \in FilesIn(u, pq) /\ pq[p].cluster = pg[p].cluster
                  /\ pq[p].length = pg[p].length /\ Own(u, pq, p) = Own(t, pg, p),
           \/ f = Closed
           \/ HoldsOn(u, pq, f) /\ \A g \in Handles : g # h => hs[g].entry # f.entry,
           NEW a, a = Altered(hs, h, f)
    PROVE  Holding(u, pq, a)
<1>1. a[h] = f /\ \A g \in Handles : g # h => a[g] = hs[g]
  BY DEF Altered, HandlesOK
<1>2. Closed.entry = Nowhere
  BY DEF Closed
<1>3. ASSUME NEW g \in Handles, a[g].entry # Nowhere PROVE Holds(u, pq, a, g)
  <2>1. CASE g = h
    <3>1. f # Closed
      BY <1>1, <1>2, <1>3, <2>1
    <3> QED BY <1>1, <2>1, <3>1 DEF Holds, HoldsOn
  <2>2. CASE g # h
    <3>1. a[g] = hs[g] /\ hs[g].entry # Nowhere
      BY <1>1, <1>3, <2>2
    <3>2. Holds(t, pg, hs, g)
      BY <3>1 DEF Holding
    <3>3. \A k \in Handles : k # g => a[k].entry # hs[g].entry
      <4>1. SUFFICES ASSUME NEW k \in Handles, k # g PROVE a[k].entry # hs[g].entry
        OBVIOUS
      <4>2. CASE k = h
        BY <1>1, <1>2, <2>2, <3>1, <4>2
      <4>3. CASE k # h
        BY <1>1, <3>2, <4>1, <4>3 DEF Holds
      <4> QED BY <4>2, <4>3
    <3>4. /\ hs[g].entry \in FilesIn(u, pq) /\ pq[hs[g].entry].cluster = pg[hs[g].entry].cluster
          /\ pq[hs[g].entry].length = pg[hs[g].entry].length
          /\ Own(u, pq, hs[g].entry) = Own(t, pg, hs[g].entry)
      BY <2>2, <3>1
    <3> QED BY <3>1, <3>2, <3>3, <3>4 DEF Holds
  <2> QED BY <2>1, <2>2
<1> QED BY <1>3 DEF Holding

\* The same image, one handle changed.
LEMMA HandlePut ==
    ASSUME NEW t, NEW pg, NEW hs, Holding(t, pg, hs), HandlesOK(hs),
           NEW h \in Handles, NEW f,
           f = Closed \/ (HoldsOn(t, pg, f) /\ f.entry = hs[h].entry), hs[h].entry # Nowhere,
           NEW a, a = Altered(hs, h, f)
    PROVE  Holding(t, pg, a)
<1>1. \A g \in Handles : g # h /\ hs[g].entry # Nowhere => hs[g].entry \in FilesIn(t, pg)
  BY DEF Holding, Holds
<1>2. Holds(t, pg, hs, h)
  BY DEF Holding
<1>3. \/ f = Closed
      \/ HoldsOn(t, pg, f) /\ \A g \in Handles : g # h => hs[g].entry # f.entry
  BY <1>2 DEF Holds
<1> QED BY <1>1, <1>3, HoldingPut

\* A call that changes nothing of the image.
LEMMA ImageStays ==
    ASSUME Kept, card' = card, page' = page, mishaps \subseteq mishaps', event' = Quiet,
           Holding(card, page, handle')
    PROVE  Kept'
BY QuietFits DEF Kept

LEMMA AstrayKeeps ==
    ASSUME Kept, GoAstray PROVE Kept'
BY QuietFits DEF Kept, GoAstray

LEMMA AstrayWhole ==
    ASSUME Kept, GoAstray PROVE Whole' /\ Kept'
BY AstrayKeeps DEF Kept, Whole

LEMMA CloseKeeps ==
    ASSUME AlwaysFits, Kept, NEW h \in setup.handles, Close(h)
    PROVE  Kept'
<1>1. h \in Handles /\ HandlesOK(handle)
  BY NamesAre DEF AlwaysFits
<1>2. PICK a : a = Altered(handle, h, Closed)
  OBVIOUS
<1>3. Holding(card, page, a)
  BY <1>1, <1>2, HandlePut DEF Kept, Close, IsOpen
<1> QED BY <1>2, <1>3, ImageStays DEF Close, Altered

\* A transfer that meets no end stays on the file's clusters.
LEMMA TransferStays ==
    ASSUME NEW t, TableOK(t), NEW f, FileFits(f), NEW k \in Nat \ {0},
           End \notin Touched(t, f, k), NEW c \in Fat \cup {End},
           f.at \in Reached(t, c) \cup {End}
    PROVE  /\ Onward(t, f, k) \in Reached(t, c) \cup {End}
           /\ Touched(t, f, k) \subseteq Reached(t, c)
<1>1. Linked(t) /\ Ranked(t)
  BY DEF TableOK, Sane
<1>2. (f.offset + k) \div ClusterSize \in 0 .. Clusters
  BY OnwardIs
<1>3. Onward(t, f, k) \in Reached(t, c) \cup {End}
  BY <1>1, <1>2, StaysOn DEF Onward
<1>4. f.offset \in Nat /\ f.offset + k - 1 \in Nat
  BY ClustersAre DEF FileFits, Opened
<1>5. (f.offset + k - 1) \div ClusterSize <= (f.offset + k) \div ClusterSize
  <2>1. PICK a \in Nat : a = f.offset + k - 1
    BY <1>4
  <2>2. a + 1 = f.offset + k
    BY <1>4, <2>1
  <2>3. PICK s \in Nat : s = ClusterSize /\ s >= 1
    BY ClustersAre
  <2>4. a \div s <= (a + 1) \div s
    <3>1. PICK x, y, v, z : x = a \div s /\ y = a % s /\ v = (a + 1) \div s /\ z = (a + 1) % s
      OBVIOUS
    <3>2. x \in Nat /\ v \in Nat /\ y \in 0 .. s - 1 /\ z \in 0 .. s - 1
          /\ a = s * x + y /\ a + 1 = s * v + z
      BY <2>3, <3>1
    <3>3. ASSUME v < x PROVE FALSE
      <4>1. v + 1 <= x
        BY <3>2, <3>3
      <4>2. s * (v + 1) <= s * x
        BY <2>3, <3>2, <4>1
      <4>3. s * (v + 1) = s * v + s
        BY <2>3, <3>2
      <4>4. PICK sv, sx : sv = s * v /\ sx = s * x /\ sv \in Nat /\ sx \in Nat
        BY <2>3, <3>2
      <4> QED BY <3>2, <4>2, <4>3, <4>4
    <3> QED BY <3>1, <3>2, <3>3
  <2> QED BY <2>1, <2>2, <2>3, <2>4
<1>6. ASSUME NEW j \in 0 .. (f.offset + k - 1) \div ClusterSize
      PROVE  Walk(t, f.at)[j] \in Reached(t, c)
  <2>1. j \in 0 .. Clusters
    <3>1. PICK m : m = (f.offset + k) \div ClusterSize
      OBVIOUS
    <3>2. PICK l : l = (f.offset + k - 1) \div ClusterSize
      OBVIOUS
    <3>3. l \in Nat
      BY <1>4, <3>2, Divide
    <3> QED BY <1>2, <1>5, <3>1, <3>2, <3>3, ClustersAre
  <2>2. Walk(t, f.at)[j] \in Reached(t, c) \cup {End}
    BY <1>1, <2>1, StaysOn
  <2>3. Walk(t, f.at)[j] # End
    BY DEF Touched
  <2> QED BY <2>2, <2>3
<1> QED BY <1>3, <1>6 DEF Touched

\* An open handle of an image.
LEMMA OpenHolds ==
    ASSUME AlwaysFits, Kept, NEW h \in setup.handles, IsOpen(h), NEW f, f = handle[h]
    PROVE  /\ h \in Handles /\ HandlesOK(handle) /\ FileFits(f) /\ f.entry # Nowhere
           /\ Holding(card, page, handle) /\ HoldsOn(card, page, f)
           /\ f.start \in Fat \cup {End}
           /\ \A g \in Handles : g # h => handle[g].entry # f.entry
<1>1. h \in Handles /\ HandlesOK(handle) /\ f.entry # Nowhere
  BY NamesAre DEF AlwaysFits, IsOpen
<1>2. FileFits(f)
  BY <1>1, OpenFits
<1>3. Holds(card, page, handle, h)
  BY <1>1 DEF Kept, Holding
<1>4. f.start \in Fat \cup {End}
  BY <1>2 DEF FileFits, Somewhere
<1> QED BY <1>1, <1>2, <1>3, <1>4 DEF Holds, HoldsOn, Kept

LEMMA ReadKeeps ==
    ASSUME AlwaysFits, Kept, NEW h \in setup.handles, NEW k \in 1 .. MaxLength, Read(h, k)
    PROVE  Kept'
<1>1. PICK f : f = handle[h]
  OBVIOUS
<1>2. PICK size : size = IF f.pos <= f.length /\ k > f.length - f.pos
                         THEN f.length - f.pos ELSE k
  OBVIOUS
<1>3. /\ IsOpen(h) /\ size > 0 /\ f.pos + size <= MaxLength
      /\ IF End \in Touched(card, f, size) THEN GoAstray
         ELSE /\ handle' = [handle EXCEPT ![h] = Moved(card, f, size)]
              /\ event' = Quiet
              /\ UNCHANGED <<card, page, setup, astray, mishaps>>
  BY <1>1, <1>2 DEF Read
<1>4. /\ h \in Handles /\ HandlesOK(handle) /\ FileFits(f) /\ f.entry # Nowhere
      /\ Holding(card, page, handle) /\ HoldsOn(card, page, f)
      /\ f.start \in Fat \cup {End} /\ TableOK(card)
  BY <1>1, <1>3, OpenHolds DEF AlwaysFits
<1>5. size \in Nat \ {0}
  <2>1. f.pos \in Nat /\ f.length \in Nat /\ k \in Nat
    BY <1>4, ClustersAre DEF FileFits, Opened
  <2> QED BY <1>2, <1>3, <2>1
<1>6. CASE End \in Touched(card, f, size)
  BY <1>3, <1>6, AstrayKeeps
<1>7. CASE End \notin Touched(card, f, size)
  <2>1. PICK g : g = Moved(card, f, size)
    OBVIOUS
  <2>2. /\ g.entry = f.entry /\ g.start = f.start /\ g.length = f.length
        /\ g.at = Onward(card, f, size)
    BY <1>3, <1>4, <1>5, <1>7, <2>1, MovedIs
  <2>3. PICK c : c = page[f.entry].cluster
    OBVIOUS
  <2>4. f.at \in Reached(card, c) \cup {End} /\ c \in Fat \cup {End}
    BY <1>4, <2>3 DEF HoldsOn, Own
  <2>5. g.at \in Reached(card, c) \cup {End}
    BY <1>4, <1>5, <1>7, <2>2, <2>4, TransferStays
  <2>6. HoldsOn(card, page, g)
    BY <1>4, <2>2, <2>3, <2>5 DEF HoldsOn, Own
  <2>7. PICK a : a = Altered(handle, h, g)
    OBVIOUS
  <2>8. Holding(card, page, a)
    BY <1>1, <1>4, <2>2, <2>6, <2>7, HandlePut
  <2>9. handle' = a
    BY <1>3, <1>7, <2>1, <2>7 DEF Altered
  <2> QED BY <1>3, <1>7, <2>8, <2>9, ImageStays
<1> QED BY <1>6, <1>7

LEMMA SeekKeeps ==
    ASSUME AlwaysFits, Kept, NEW h \in setup.handles, NEW p \in 0 .. MaxLength, Seek(h, p)
    PROVE  Kept'
<1>1. PICK f : f = handle[h]
  OBVIOUS
<1>0. p \in Nat
  BY ClustersAre
<1>2. PICK steps \in Nat : steps = p \div ClusterSize
  BY <1>0, ClustersAre, Divide
<1>3. /\ IsOpen(h)
      /\ IF p > f.length
         THEN /\ handle' = [handle EXCEPT ![h].pos = p]
              /\ mishaps' = mishaps \cup {"overrun"}
              /\ UNCHANGED astray
         ELSE IF End \in {Walk(card, f.start)[j] : j \in 0 .. steps - 1}
         THEN /\ astray' = TRUE
              /\ UNCHANGED <<handle, mishaps>>
         ELSE /\ handle' = [handle EXCEPT ![h] =
                               [@ EXCEPT !.pos = p, !.offset = p % ClusterSize,
                                         !.at = Walk(card, f.start)[steps]]]
              /\ UNCHANGED <<astray, mishaps>>
      /\ event' = Quiet
      /\ UNCHANGED <<card, page, setup>>
  BY <1>1, <1>2 DEF Seek
<1>4. /\ h \in Handles /\ HandlesOK(handle) /\ FileFits(f) /\ f.entry # Nowhere
      /\ Holding(card, page, handle) /\ HoldsOn(card, page, f)
      /\ f.start \in Fat \cup {End} /\ TableOK(card)
  BY <1>1, <1>3, OpenHolds DEF AlwaysFits
<1>6. CASE p > f.length
  <2>1. PICK g : g = [f EXCEPT !.pos = p]
    OBVIOUS
  <2>2. g.entry = f.entry /\ g.start = f.start /\ g.at = f.at /\ g.length = f.length
    BY <1>4, <2>1 DEF FileFits, Opened
  <2>3. HoldsOn(card, page, g)
    BY <1>4, <2>2 DEF HoldsOn
  <2>4. PICK a : a = Altered(handle, h, g)
    OBVIOUS
  <2>5. Holding(card, page, a)
    BY <1>1, <1>4, <2>2, <2>3, <2>4, HandlePut
  <2>6. handle' = a /\ mishaps \subseteq mishaps' /\ event' = Quiet /\ UNCHANGED <<card, page>>
    BY <1>1, <1>3, <1>6, <2>1, <2>4 DEF Altered
  <2> QED BY <2>5, <2>6, ImageStays
<1>7. CASE ~ (p > f.length) /\ End \in {Walk(card, f.start)[j] : j \in 0 .. steps - 1}
  <2>1. UNCHANGED <<handle, mishaps, card, page>> /\ event' = Quiet
    BY <1>3, <1>7
  <2> QED BY <1>4, <2>1, ImageStays
<1>8. CASE ~ (p > f.length) /\ End \notin {Walk(card, f.start)[j] : j \in 0 .. steps - 1}
  <2>1. steps \in 0 .. Clusters
    <3>1. ASSUME Clusters <= steps - 1 PROVE FALSE
      <4>1. Walk(card, f.start)[Clusters] = End
        BY <1>4, Ends DEF TableOK, Sane, Loops
      <4>2. Clusters \in 0 .. steps - 1
        BY <3>1, ClustersAre
      <4> QED BY <1>8, <4>1, <4>2
    <3> QED BY <3>1, ClustersAre
  <2>2. PICK at : at = Walk(card, f.start)[steps]
    OBVIOUS
  <2>3. at \in Reached(card, f.start) \cup {End}
    BY <2>1, <2>2 DEF Reached
  <2>4. PICK o : o = p % ClusterSize
    OBVIOUS
  <2>5. PICK g : g = [f EXCEPT !.pos = p, !.offset = o, !.at = at]
    OBVIOUS
  <2>6. g.entry = f.entry /\ g.start = f.start /\ g.at = at /\ g.length = f.length
    BY <1>4, <2>5 DEF FileFits, Opened
  <2>7. HoldsOn(card, page, g)
    BY <1>4, <2>3, <2>6 DEF HoldsOn, Own
  <2>8. PICK a : a = Altered(handle, h, g)
    OBVIOUS
  <2>9. Holding(card, page, a)
    BY <1>1, <1>4, <2>6, <2>7, <2>8, HandlePut
  <2>10. handle' = [handle EXCEPT ![h] =
                               [@ EXCEPT !.pos = p, !.offset = p % ClusterSize,
                                         !.at = Walk(card, f.start)[steps]]]
    BY <1>3, <1>8
  <2>11. handle' = a
    BY <1>1, <2>2, <2>4, <2>5, <2>8, <2>10 DEF Altered
  <2>12. UNCHANGED <<mishaps, card, page>> /\ event' = Quiet
    BY <1>3, <1>8
  <2> QED BY <2>9, <2>11, <2>12, ImageStays
<1> QED BY <1>6, <1>7, <1>8

-----------------------------------------------------------------------------
(***************************************************************************)
(* Writing.                                                                *)
(***************************************************************************)
LEMMA Sizes ==
    /\ Size(0) = 0
    /\ \A n \in Nat : Size(n) \in Nat /\ (n >= 1 => Size(n) >= 1)
<1>1. PICK s \in Nat : s = ClusterSize /\ s >= 1
  BY ClustersAre
<1>2. Size(0) = 0
  <2>1. (0 + s - 1) \div s = 0
    BY <1>1
  <2> QED BY <1>1, <2>1 DEF Size
<1>3. ASSUME NEW n \in Nat, n >= 1 PROVE Size(n) >= 1
  <2>1. PICK x, y : x = (n + s - 1) \div s /\ y = (n + s - 1) % s
    OBVIOUS
  <2>2. x \in Nat /\ y \in 0 .. s - 1 /\ n + s - 1 = s * x + y
    BY <1>1, <1>3, <2>1
  <2>3. x # 0
    <3>1. x = 0 => s * x = 0
      BY <1>1
    <3> QED BY <1>1, <1>3, <2>2, <3>1
  <2> QED BY <1>1, <2>1, <2>2, <2>3 DEF Size
<1> QED BY <1>2, <1>3, SizeIs

LEMMA SizeOne == Size(1) = 1
<1>1. PICK s \in Nat : s = ClusterSize /\ s >= 1
  BY ClustersAre
<1>2. (1 + s - 1) \div s = 1
  BY <1>1
<1> QED BY <1>1, <1>2 DEF Size

\* The chain of the file at p once a write has all the clusters it needs.
Chain(t, pg, p) == Reached(t, pg[p].cluster)

WriteReady(t, pg, p, len) ==
    /\ TableOK(t) /\ PagesOK(pg)
    /\ Stays(card, t, Own(card, page, p))
    /\ Chain(t, pg, p) \subseteq t.used
    /\ Chain(t, pg, p) \cap (card.used \ Own(card, page, p)) = {}
    /\ t.used = (card.used \ Own(card, page, p)) \cup Chain(t, pg, p)
    /\ \A q \in Page : q # p => pg[q] = page[q]
    /\ pg[p] # Blank /\ pg[p].name = page[p].name /\ pg[p].kind = page[p].kind
    /\ pg[p].exists = page[p].exists /\ pg[p].cluster # End
    /\ len \in Nat \ {0} /\ len <= MaxLength
    /\ Size(len) <= Cardinality(Chain(t, pg, p))

\* Such a table and such pages, once the entry has the new length, are an image; the
\* other pages may have been emptied where nothing is listed.
LEMMA ReadyImage ==
    ASSUME Image(card, page), NEW p \in FilesIn(card, page), NEW t, NEW pg, NEW len,
           WriteReady(t, pg, p, len), NEW e, e = Lengthened(pg[p], len),
           NEW pq, PagesOK(pq), pq[p] = e, Elsewhere(card, page, pq, p),
           \A q \in Page : q # p => pq[q] \in {Blank, page[q]}
    PROVE  /\ EntryFits(e) /\ e.exists /\ e.cluster = pg[p].cluster /\ e.length = len
           /\ Own(t, pq, p) = Chain(t, pg, p)
           /\ Image(t, pq) /\ DirsIn(t, pq) = DirsIn(card, page)
           /\ FilesIn(t, pq) = FilesIn(card, page)
           /\ \A q \in OwnersIn(card, page) :
                 q # p => pq[q] = page[q] /\ Own(t, pq, q) = Own(card, page, q)
           /\ Lossless(card, page) => Lossless(t, pq)
<1>1. p \in KidFiles(card, page) /\ page[p].exists
  BY DEF FilesIn
<1>2. p \in Page /\ page[p] # Blank /\ page[p].kind = "file" /\ page[p].name \in Files
  BY <1>1, FileSpot
<1>3. PICK O : O = Chain(t, pg, p)
  OBVIOUS
<1>4. PICK R : R = Own(card, page, p)
  OBVIOUS
<1>5. /\ TableOK(t) /\ PagesOK(pg)
      /\ O \subseteq t.used /\ O \cap (card.used \ R) = {}
      /\ t.used = (card.used \ R) \cup O /\ Stays(card, t, R)
      /\ pg[p] # Blank /\ pg[p].name = page[p].name /\ pg[p].kind = "file"
      /\ pg[p].exists /\ pg[p].cluster # End
      /\ len \in Nat /\ len # 0 /\ len <= MaxLength /\ Size(len) <= Cardinality(O)
  BY <1>1, <1>2, <1>3, <1>4 DEF WriteReady
<1>6. EntryFits(e) /\ e.name = page[p].name /\ e.cluster = pg[p].cluster /\ e.length = len
      /\ e.exists /\ e.kind = "file" /\ e # Blank
  <2>1. PICK d : d = pg[p]
    OBVIOUS
  <2>2. EntryFits(d) /\ d.exists /\ d.kind = "file"
    BY <1>2, <1>5, <2>1 DEF PagesOK
  <2>3. EntryFits(e) /\ e.name = d.name /\ e.cluster = d.cluster /\ e.length = len
        /\ e.exists = d.exists /\ e.kind = d.kind
    BY <1>5, <2>1, <2>2, LengthFits
  <2> QED BY <1>5, <2>1, <2>2, <2>3, BlankAssumption DEF EntryFits
<1>7. ASSUME NEW q \in Page, pq[q] # Blank PROVE PageOK(pq[q])
  <2>1. CASE q = p
    BY <1>2, <1>5, <1>6, <2>1 DEF PageOK
  <2>2. CASE q # p
    <3>1. pq[q] = page[q]
      BY <1>7, <2>2
    <3> QED BY <1>7, <3>1 DEF Image
  <2> QED BY <2>1, <2>2
<1>8. Own(t, pq, p) = O
  BY <1>3, <1>6 DEF Own, Chain
<1>9. FileNow(card, page, t, pq, p) /\ Stays(card, t, Had(card, page, p))
  <2>1. Had(card, page, p) = R
    BY <1>1, <1>4 DEF Had
  <2>2. FileOK(t, pq, p)
    BY <1>5, <1>6, <1>8 DEF FileOK
  <2> QED BY <1>2, <1>5, <1>6, <1>8, <2>1, <2>2 DEF FileNow
<1>10. /\ Image(t, pq) /\ DirsIn(t, pq) = DirsIn(card, page)
       /\ FilesIn(t, pq)
          = (FilesIn(card, page) \ {p}) \cup (IF pq[p].exists THEN {p} ELSE {})
       /\ \A q \in OwnersIn(card, page) :
             q # p => pq[q] = page[q] /\ Own(t, pq, q) = Own(card, page, q)
  BY <1>1, <1>5, <1>7, <1>9, FileChanged
<1>11. FilesIn(t, pq) = FilesIn(card, page)
  BY <1>6, <1>10
<1>12. ASSUME Lossless(card, page) PROVE Lossless(t, pq)
  <2>1. t.used = (card.used \ Had(card, page, p)) \cup (IF pq[p].exists THEN Own(t, pq, p) ELSE {})
    BY <1>1, <1>4, <1>5, <1>6, <1>8 DEF Had
  <2> QED BY <1>1, <1>10, <1>12, <2>1, FileLossless
<1> QED BY <1>3, <1>6, <1>8, <1>10, <1>11, <1>12

LEMMA StoreKeeps ==
    ASSUME AlwaysFits, Kept, NEW h \in setup.handles, IsOpen(h), NEW p, p = handle[h].entry,
           NEW t, NEW pg, NEW f, FileFits(f), f.entry = p, NEW k \in Nat \ {0},
           f.pos + k <= MaxLength, NEW len, len = (IF f.mode = "trunc" THEN f.pos + k ELSE f.length),
           WriteReady(t, pg, p, len), f.start = pg[p].cluster, f.at \in Chain(t, pg, p) \cup {End},
           Store(h, t, pg, f, k)
    PROVE  Kept'
<1>1. PICK g : g = Moved(t, f, k)
  OBVIOUS
<1>2. PICK length : length = IF f.mode = "trunc" THEN g.pos ELSE f.length
  OBVIOUS
<1>3. PICK written : written = Written(t, pg, f, k)
  OBVIOUS
<1>4. PICK gl : gl = [g EXCEPT !.length = length]
  OBVIOUS
<1>5. PICK own : own = IF pg[p] # Blank /\ pg[p].exists
                       THEN Reached(t, pg[p].cluster) \cap t.used ELSE {}
  OBVIOUS
<1>6. IF End \in Touched(t, f, k) \/ Touched(t, f, k) \cap DirClusters # {}
      THEN GoAstray
      ELSE /\ card' = t
           /\ handle' = [handle EXCEPT ![h] = gl]
           /\ page' = IF written[p] = Blank THEN written
                      ELSE [written EXCEPT ![p].length = length]
           /\ event' = [stray |-> ~ (Touched(t, f, k) \subseteq own)]
           /\ UNCHANGED <<setup, astray, mishaps>>
  BY <1>1, <1>2, <1>3, <1>4, <1>5 DEF Store, Written
<1>7. CASE End \in Touched(t, f, k) \/ Touched(t, f, k) \cap DirClusters # {}
  BY <1>6, <1>7, AstrayKeeps
<1>8. CASE ~ (End \in Touched(t, f, k) \/ Touched(t, f, k) \cap DirClusters # {})
  <2>1. /\ h \in Handles /\ HandlesOK(handle) /\ Holding(card, page, handle)
        /\ p \in FilesIn(card, page) /\ p # Nowhere
        /\ \A i \in Handles : i # h => handle[i].entry # p
    BY OpenHolds DEF HoldsOn
  <2>2. Image(card, page) /\ TableOK(t) /\ PagesOK(pg)
    BY DEF Kept, WriteReady
  <2>3. p \in KidFiles(card, page) /\ page[p].exists
    BY <2>1 DEF FilesIn
  <2>4. p \in Page /\ page[p] # Blank /\ page[p].kind = "file" /\ page[p].name \in Files
    BY <2>2, <2>3, FileSpot
  <2>5. PICK O : O = Chain(t, pg, p)
    OBVIOUS
  <2>6. PICK R : R = Own(card, page, p)
    OBVIOUS
  <2>7. /\ O \subseteq t.used /\ O \cap (card.used \ R) = {}
        /\ t.used = (card.used \ R) \cup O /\ Stays(card, t, R)
        /\ pg[p] # Blank /\ pg[p].name = page[p].name /\ pg[p].kind = "file"
        /\ pg[p].exists /\ pg[p].cluster # End /\ \A q \in Page : q # p => pg[q] = page[q]
        /\ len \in Nat /\ len # 0 /\ len <= MaxLength /\ Size(len) <= Cardinality(O)
    BY <2>3, <2>4, <2>5, <2>6 DEF WriteReady
  <2>8. FileFits(g) /\ g.pos = f.pos + k /\ g.entry = p /\ g.start = f.start
        /\ g.at = Onward(t, f, k)
    BY <1>1, <1>8, <2>2, MovedIs
  <2>9. length = len
    BY <1>2, <2>8
  <2>10. PICK c : c = pg[p].cluster
    OBVIOUS
  <2>11. c \in Fat \cup {End} /\ f.at \in Reached(t, c) \cup {End} /\ O = Reached(t, c)
    <3>1. EntryFits(pg[p])
      BY <2>2, <2>4, <2>7 DEF PagesOK
    <3> QED BY <2>5, <2>10, <3>1 DEF EntryFits, Entry, Chain
  <2>12. g.at \in O \cup {End} /\ Touched(t, f, k) \subseteq O
    BY <1>8, <2>2, <2>8, <2>11, TransferStays
  <2>13. ~event'.stray
    <3>1. own = O
      BY <1>5, <2>7, <2>10, <2>11
    <3>2. event' = [stray |-> FALSE]
      BY <1>6, <1>8, <2>12, <3>1
    <3> QED BY <3>2
  <2>14. f.offset \in Nat
    BY ClustersAre DEF FileFits, Opened
  <2>15. \A d \in DirsIn(card, page) : \A i \in 0 .. page[d].length - 1 :
            Spot(card, page, d, i) \in Page /\ Spot(card, page, d, i) \notin TouchedPages(t, f, k)
    <3>1. SUFFICES ASSUME NEW d \in DirsIn(card, page), NEW i \in 0 .. page[d].length - 1,
                          NEW s, s = Spot(card, page, d, i)
                   PROVE  s \in Page /\ s \notin TouchedPages(t, f, k)
      OBVIOUS
    <3>2. DirOK(card, page, d)
      BY <2>2 DEF Image
    <3>3. PICK b : b = Walk(card, page[d].cluster)[i \div 2]
      OBVIOUS
    <3>4. s \in Page /\ s = <<b, i % 2>> /\ b \in Own(card, page, d)
      BY <3>1, <3>2, <3>3, SpotIs
    <3>5. b \in card.used /\ b \notin R
      <4>1. Own(card, page, d) \subseteq card.used
        BY <3>2 DEF DirOK, Owned, Own
      <4>2. d # p
        BY <2>2, <2>3, FileSpot
      <4>3. Own(card, page, d) \cap R = {}
        BY <2>1, <2>2, <2>6, <4>2 DEF Image, Apart, OwnersIn
      <4> QED BY <3>4, <4>1, <4>3
    <3>6. b \notin Touched(t, f, k)
      BY <2>7, <2>12, <3>5
    <3> QED BY <2>14, <3>4, <3>6, TouchedPagesIn
  <2>16. \A q \in Page : written[q] = IF q \in TouchedPages(t, f, k) THEN Blank ELSE pg[q]
    BY <1>3 DEF Written
  <2>17. p \notin TouchedPages(t, f, k)
    <3>1. PICK d \in DirsIn(card, page) : p \in KidsAt(card, page, d)
      BY <2>2, <2>3, FileSpot
    <3>2. PICK i \in 0 .. page[d].length - 1 : p = Spot(card, page, d, i)
      BY <2>2, <3>1, KidSpot
    <3> QED BY <2>15, <3>2
  <2>18. written[p] = pg[p]
    BY <2>4, <2>16, <2>17
  <2>19. PICK e : e = Lengthened(pg[p], len)
    OBVIOUS
  <2>20. EntryFits(e) /\ e.name = pg[p].name /\ e.cluster = c /\ e.length = len
         /\ e.exists /\ e.kind = "file"
    <3>1. PICK d : d = pg[p]
      OBVIOUS
    <3>2. EntryFits(d) /\ d.exists /\ d.kind = "file"
      BY <2>2, <2>4, <2>7, <3>1 DEF PagesOK
    <3> QED BY <2>7, <2>10, <2>19, <3>1, <3>2, LengthFits
  <2>21. page' = Altered(written, p, e)
    <3>1. page' = [written EXCEPT ![p].length = len]
      BY <1>6, <1>8, <2>7, <2>9, <2>18
    <3>2. written[p] = pg[p]
      BY <2>18
    <3> QED BY <2>19, <3>1, <3>2 DEF Altered, Lengthened
  <2>22. page'[p] = e /\ \A q \in Page : q # p => page'[q] = written[q]
    <3>1. written = [q \in Page |-> written[q]]
      BY <1>3 DEF Written
    <3> QED BY <2>4, <2>21, <3>1 DEF Altered
  <2>23. PICK pq : pq = page'
    OBVIOUS
  <2>24. PagesOK(pq)
    <3>1. AlwaysFits'
      <4>1. f.pos + k <= MaxLength /\ h \in Handles
        BY <2>1
      <4> QED BY <2>2, <4>1, StoreFits
    <3> QED BY <2>23, <3>1 DEF AlwaysFits
  <2>25. Elsewhere(card, page, pq, p)
    BY <2>7, <2>15, <2>16, <2>22, <2>23 DEF Elsewhere
  <2>26. \A q \in Page : q # p => pq[q] \in {Blank, page[q]}
    BY <2>7, <2>16, <2>22, <2>23
  <2>27. /\ Own(t, pq, p) = O
         /\ Image(t, pq) /\ FilesIn(t, pq) = FilesIn(card, page)
         /\ \A q \in OwnersIn(card, page) :
               q # p => pq[q] = page[q] /\ Own(t, pq, q) = Own(card, page, q)
         /\ Lossless(card, page) => Lossless(t, pq)
    BY <2>1, <2>2, <2>5, <2>19, <2>22, <2>23, <2>24, <2>25, <2>26, ReadyImage
  <2>28. gl.entry = p /\ gl.start = c /\ gl.at = g.at /\ gl.length = len
    BY <1>4, <2>8, <2>9, <2>10 DEF FileFits, Opened
  <2>29. HoldsOn(t, pq, gl)
    BY <2>1, <2>12, <2>20, <2>22, <2>23, <2>27, <2>28 DEF HoldsOn
  <2>30. PICK a : a = Altered(handle, h, gl)
    OBVIOUS
  <2>31. Holding(t, pq, a)
    <3>1. ASSUME NEW i \in Handles, i # h, handle[i].entry # Nowhere, NEW q, q = handle[i].entry
          PROVE  /\ q \in FilesIn(t, pq) /\ pq[q].cluster = page[q].cluster
                 /\ pq[q].length = page[q].length /\ Own(t, pq, q) = Own(card, page, q)
      <4>1. q \in FilesIn(card, page) /\ q # p
        BY <2>1, <3>1 DEF Holding, Holds
      <4> QED BY <2>27, <4>1 DEF OwnersIn
    <3> QED BY <2>1, <2>28, <2>29, <2>30, <3>1, HoldingPut
  <2>32. card' = t /\ handle' = a /\ mishaps' = mishaps
    BY <1>6, <1>8, <2>30 DEF Altered
  <2> QED BY <2>13, <2>23, <2>27, <2>31, <2>32 DEF Kept
<1> QED BY <1>7, <1>8

-----------------------------------------------------------------------------
LEMMA WriteInPlaceKeeps ==
    ASSUME AlwaysFits, Kept, NEW h \in setup.handles, NEW k \in 1 .. MaxLength, WriteInPlace(h, k)
    PROVE  Kept'
<1>1. PICK f : f = handle[h]
  OBVIOUS
<1>2. IsOpen(h) /\ f.pos + k <= MaxLength /\ Needed(f, k) <= 0 /\ Store(h, card, page, f, k)
  BY <1>1 DEF WriteInPlace
<1>3. /\ FileFits(f) /\ f.entry # Nowhere /\ HoldsOn(card, page, f) /\ TableOK(card) /\ PagesOK(page)
  BY <1>1, <1>2, OpenHolds DEF AlwaysFits
<1>4. PICK p : p = f.entry
  OBVIOUS
<1>5. /\ p \in FilesIn(card, page) /\ f.start = page[p].cluster /\ f.length = page[p].length
      /\ f.at \in Own(card, page, p) \cup {End}
  BY <1>3, <1>4 DEF HoldsOn
<1>6. Image(card, page)
  BY DEF Kept
<1>7. FileOK(card, page, p) /\ p \in KidFiles(card, page)
  BY <1>5, <1>6 DEF Image, FilesIn
<1>8. p \in Page /\ page[p] # Blank /\ page[p].kind = "file"
  BY <1>6, <1>7, FileSpot
<1>9. PageOK(page[p])
  BY <1>6, <1>8 DEF Image
<1>10. f.pos \in Nat /\ f.length \in Nat /\ f.length <= MaxLength /\ k \in Nat \ {0}
  BY <1>3, ClustersAre DEF FileFits, Opened
<1>11. PICK n \in Nat : n = f.pos + k /\ n >= 1
  BY <1>10
<1>12. Size(n) <= Size(f.length) /\ Size(n) >= 1
  <2>1. Size(n) \in Nat /\ Size(f.length) \in Nat /\ Size(n) >= 1
    BY <1>10, <1>11, Sizes
  <2> QED BY <1>2, <1>11, <2>1 DEF Needed
<1>13. f.length # 0
  <2>1. Size(0) = 0
    BY Sizes
  <2>2. Size(n) \in Nat
    BY <1>11, Sizes
  <2> QED BY <1>12, <2>1, <2>2
<1>14. page[p].cluster # End
  BY <1>5, <1>8, <1>9, <1>13 DEF PageOK
<1>15. PICK len : len = IF f.mode = "trunc" THEN f.pos + k ELSE f.length
  OBVIOUS
<1>16. len \in Nat \ {0} /\ len <= MaxLength
  BY <1>2, <1>10, <1>11, <1>13, <1>15
<1>17. PICK N : N = Cardinality(Own(card, page, p))
  OBVIOUS
<1>18. Size(len) <= N
  <2>1. Size(f.length) <= N
    BY <1>5, <1>7, <1>17 DEF FileOK
  <2>2. N \in Nat
    <3>1. page[p].cluster \in Fat
      BY <1>3, <1>5, <1>14 DEF FileFits, Somewhere
    <3>2. PICK m : Runs(card, page[p].cluster, m)
      BY <1>3, <3>1, HasRun DEF TableOK, Sane
    <3> QED BY <1>3, <1>17, <3>2, RunsIs, FS_CardinalityType DEF TableOK, Sane, Own
  <2>3. Size(f.length) \in Nat /\ Size(n) \in Nat
    BY <1>10, <1>11, Sizes
  <2> QED BY <1>11, <1>12, <1>15, <2>1, <2>2, <2>3
<1>19. WriteReady(card, page, p, len)
  <2>1. Own(card, page, p) = Chain(card, page, p)
    BY DEF Own, Chain
  <2>2. Chain(card, page, p) \subseteq card.used
    BY <1>7, <2>1 DEF FileOK
  <2>3. Stays(card, card, Own(card, page, p))
    BY DEF Stays
  <2>4. /\ Chain(card, page, p) \cap (card.used \ Own(card, page, p)) = {}
        /\ card.used = (card.used \ Own(card, page, p)) \cup Chain(card, page, p)
    BY <2>1, <2>2
  <2> QED BY <1>3, <1>8, <1>14, <1>16, <1>17, <1>18, <2>1, <2>2, <2>3, <2>4 DEF WriteReady
<1>20. f.at \in Chain(card, page, p) \cup {End}
  BY <1>5 DEF Own, Chain
<1> QED BY <1>1, <1>2, <1>3, <1>4, <1>5, <1>10, <1>15, <1>19, <1>20, StoreKeeps

\* A file gets its first clusters.
LEMMA FirstReady ==
    ASSUME AlwaysFits, Kept, NEW p \in FilesIn(card, page), page[p].cluster = End,
           FreeFrom(card) # {}, NEW c, c = Found(card), NEW t, t = SetEof(Taken(card), c),
           NEW m \in Nat, NEW x, x = Extend(t, c, m),
           NEW pg, PagesOK(pg), NEW e, e = [page[p] EXCEPT !.cluster = c], pg = Altered(page, p, e),
           NEW len \in Nat \ {0}, len <= MaxLength, Size(len) <= x.got + 1 + Size(page[p].length)
    PROVE  WriteReady(x.t, pg, p, len) /\ c \in Chain(x.t, pg, p) /\ pg[p].cluster = c
<1>1. setup \in Setups /\ TableOK(card) /\ PagesOK(page) /\ Image(card, page)
  BY DEF AlwaysFits, Kept
<1>2. p \in KidFiles(card, page)
  BY DEF FilesIn
<1>3. p \in Page /\ page[p] # Blank /\ page[p].kind = "file"
  BY <1>1, <1>2, FileSpot
<1>4. page[p].length = 0
  <2>1. PageOK(page[p])
    BY <1>1, <1>3 DEF Image
  <2> QED BY <1>3, <2>1 DEF PageOK
<1>5. Own(card, page, p) = {}
  BY NoChain DEF Own
<1>6. c \in Fat /\ c \notin card.used
  BY FoundIs
<1>7. TableOK(t)
  BY <1>1, <1>6, TakenOK, SetEofOK
<1>8. t.used = card.used \cup {c} /\ t.next = Altered(card.next, c, End)
  <2>1. PICK u : u = Taken(card)
    OBVIOUS
  <2>2. Shaped(u) /\ u.next = card.next /\ u.used = card.used
    BY <1>1, <2>1, TakenIs DEF TableOK, Sane
  <2> QED BY <2>1, <2>2, SetEofIs
<1>9. t.next[c] = End /\ \A d \in Fat : d # c => t.next[d] = card.next[d]
  BY <1>1, <1>6, <1>8 DEF Altered, TableOK, Sane, Linked
<1>10. Runs(t, c, 1) /\ Walk(t, c)[0] = c
  BY <1>6, <1>9, SingleRun
<1>11. Reached(t, c) = {c}
  <2>1. Reached(t, c) = {Walk(t, c)[k] : k \in 0 .. 1 - 1}
    BY <1>7, <1>10, RunsIs DEF TableOK, Sane
  <2>2. 0 .. 1 - 1 = {0}
    OBVIOUS
  <2> QED BY <1>10, <2>1, <2>2
<1>12. Owned(t, c, 1)
  BY <1>8, <1>10, <1>11 DEF Owned
<1>13. TableOK(x.t) /\ x.got \in 0 .. m /\ Owned(x.t, c, 1 + x.got) /\ Grew(t, x.t, c)
  <2>1. c = Walk(t, c)[1 - 1]
    BY <1>10
  <2> QED BY <1>1, <1>7, <1>12, <2>1, ExtendGrew
<1>14. PICK O : O = Reached(x.t, c)
  OBVIOUS
<1>15. pg[p] = e /\ \A q \in Page : q # p => pg[q] = page[q]
  BY <1>1, <1>3 DEF Altered, PagesOK
<1>16. e.cluster = c /\ e.name = page[p].name /\ e.kind = "file" /\ e.exists = page[p].exists
       /\ e # Blank
  <2>1. page[p] \in Entry
    BY <1>1, <1>3 DEF PagesOK, EntryFits
  <2>2. pg[p] \in Entry \/ pg[p] = Blank
    BY <1>3 DEF PagesOK, EntryFits
  <2>3. e.cluster = c /\ e.name = page[p].name /\ e.kind = "file" /\ e.exists = page[p].exists
    BY <1>3, <2>1 DEF Entry
  <2>4. e \in Entry
    BY <1>6, <2>1 DEF Entry
  <2> QED BY <2>3, <2>4, BlankAssumption
<1>17. Chain(x.t, pg, p) = O
  BY <1>14, <1>15, <1>16 DEF Chain
<1>18. O = {c} \cup (x.t.used \ t.used) /\ t.used \subseteq x.t.used
       /\ \A d \in t.used : d # c => x.t.next[d] = t.next[d]
  BY <1>11, <1>13, <1>14 DEF Grew
<1>19. O \subseteq x.t.used /\ O \cap card.used = {} /\ x.t.used = card.used \cup O
  BY <1>6, <1>8, <1>18
<1>20. Stays(card, x.t, {})
  <2>1. card.used \subseteq Fat
    BY <1>1 DEF TableOK
  <2> QED BY <1>6, <1>8, <1>9, <1>18, <2>1 DEF Stays
<1>21. Size(len) <= Cardinality(O)
  <2>1. PICK got \in Nat : x.got = got
    BY <1>13
  <2>2. Cardinality(O) = 1 + got
    BY <1>13, <1>14, <2>1, RunsIs DEF Owned, TableOK, Sane
  <2>3. Size(0) = 0 /\ Size(len) \in Nat
    BY Sizes
  <2> QED BY <1>4, <2>1, <2>2, <2>3
<1>22. c # End
  BY <1>6, ClustersAre
<1>23. WriteReady(x.t, pg, p, len)
  BY <1>3, <1>5, <1>13, <1>15, <1>16, <1>17, <1>19, <1>20, <1>21, <1>22 DEF WriteReady
<1> QED BY <1>15, <1>16, <1>17, <1>18, <1>23

\* A file gets clusters behind its last.
LEMMA NextReady ==
    ASSUME AlwaysFits, Kept, NEW p \in FilesIn(card, page), NEW s, s = page[p].cluster, s # End,
           FreeFrom(card) # {}, NEW c, c = Found(card),
           NEW l, l = LastOf(card, s), NEW t, t = Appended(card, l),
           NEW m \in Nat, NEW x, x = Extend(t, c, m),
           NEW len \in Nat \ {0}, len <= MaxLength, Size(len) <= x.got + 1 + Size(page[p].length)
    PROVE  WriteReady(x.t, page, p, len) /\ {c, l} \subseteq Chain(x.t, page, p)
<1>1. setup \in Setups /\ TableOK(card) /\ PagesOK(page) /\ Image(card, page)
  BY DEF AlwaysFits, Kept
<1>2. p \in KidFiles(card, page)
  BY DEF FilesIn
<1>3. p \in Page /\ page[p] # Blank /\ page[p].kind = "file"
  BY <1>1, <1>2, FileSpot
<1>4. FileOK(card, page, p)
  BY <1>1 DEF Image
<1>5. PICK R : R = Own(card, page, p)
  OBVIOUS
<1>6. R = Reached(card, s) /\ R \subseteq card.used /\ Size(page[p].length) <= Cardinality(R)
  BY <1>4, <1>5 DEF FileOK, Own
<1>7. s \in Fat
  BY <1>1, <1>3 DEF PagesOK, EntryFits, Entry
<1>8. PICK n \in 1 .. Clusters : Runs(card, s, n)
  BY <1>1, <1>7, HasRun DEF TableOK, Sane
<1>9. l = Walk(card, s)[n - 1] /\ Cardinality(R) = n /\ l \in R /\ n \in Nat
  BY <1>1, <1>6, <1>8, LastOfRun, RunsIs, ClustersAre DEF TableOK, Sane
<1>10. Owned(card, s, n)
  BY <1>6, <1>8 DEF Owned
<1>11. TableOK(t) /\ Owned(t, s, n + 1) /\ Grew(card, t, s) /\ Walk(t, s)[n] = c
  BY <1>1, <1>9, <1>10, AppendedGrew
<1>12. n + 1 \in Nat /\ c = Walk(t, s)[(n + 1) - 1]
  BY <1>9, <1>11
<1>13. PICK j : j = n + 1
  OBVIOUS
<1>14. TableOK(x.t) /\ x.got \in 0 .. m /\ Owned(x.t, s, j + x.got) /\ Grew(t, x.t, s)
  BY <1>1, <1>11, <1>12, <1>13, ExtendGrew
<1>15. PICK O : O = Reached(x.t, s)
  OBVIOUS
<1>16. Chain(x.t, page, p) = O
  BY <1>15 DEF Chain
<1>17. PICK S : S = Reached(t, s)
  OBVIOUS
<1>18. /\ S = R \cup (t.used \ card.used) /\ card.used \subseteq t.used
       /\ \A d \in card.used : d \notin R => t.next[d] = card.next[d]
  BY <1>6, <1>11, <1>17 DEF Grew
<1>19. /\ O = S \cup (x.t.used \ t.used) /\ t.used \subseteq x.t.used
       /\ \A d \in t.used : d \notin S => x.t.next[d] = t.next[d]
  BY <1>14, <1>15, <1>17 DEF Grew
<1>20. /\ O \subseteq x.t.used /\ O \cap (card.used \ R) = {}
       /\ x.t.used = (card.used \ R) \cup O /\ R \subseteq O
  BY <1>6, <1>18, <1>19
<1>21. Stays(card, x.t, R)
  BY <1>18, <1>19 DEF Stays
<1>22. Size(len) <= Cardinality(O)
  <2>1. PICK got \in Nat : x.got = got
    BY <1>14
  <2>2. Cardinality(O) = j + got
    BY <1>14, <1>15, <2>1, RunsIs, SMTT(60) DEF Owned, TableOK, Sane
  <2>3. page[p].length \in Nat
    <3>1. EntryFits(page[p])
      BY <1>1, <1>3 DEF PagesOK
    <3> QED BY <3>1, ClustersAre DEF EntryFits, Entry
  <2>4. Size(page[p].length) \in Nat /\ Size(len) \in Nat
    BY <2>3, Sizes
  <2>5. Size(len) <= got + 1 + Size(page[p].length)
    BY <2>1
  <2>6. Size(page[p].length) <= n
    BY <1>6, <1>9
  <2> QED BY <1>9, <1>13, <2>1, <2>2, <2>4, <2>5, <2>6
<1>23. c \in O
  <2>1. Walk(t, s)[n] \in Reached(t, s)
    <3>1. Walk(t, s)[(n + 1) - 1] \in Reached(t, s)
      BY <1>11, RunsIs DEF Owned, TableOK, Sane
    <3> QED BY <1>9, <3>1
  <2> QED BY <1>11, <1>17, <1>19, <2>1
<1>24. WriteReady(x.t, page, p, len)
  BY <1>3, <1>5, <1>14, <1>16, <1>20, <1>21, <1>22, <1>1 DEF WriteReady
<1> QED BY <1>9, <1>16, <1>20, <1>23, <1>24

\* A growing write has got a cluster: the file has that one and those behind it.
Growth(f, p, c, w, m, x, pg, len) ==
    /\ HoldsOn(card, page, f) /\ f.entry # Nowhere /\ p = f.entry
    /\ FreeFrom(card) # {} /\ c = Found(card) /\ w = FirstTaken(f)
    /\ m \in Nat /\ x = Extend(w.t, c, m)
    /\ pg = IF f.start # End \/ page[p] = Blank THEN page ELSE [page EXCEPT ![p].cluster = c]
    /\ len \in Nat \ {0} /\ len <= MaxLength /\ Size(len) <= x.got + 1 + Size(page[p].length)

LEMMA GrowthReady ==
    ASSUME AlwaysFits, Kept, NEW f, NEW p, NEW c, NEW w, NEW m, NEW x, NEW pg, NEW len,
           Growth(f, p, c, w, m, x, pg, len)
    PROVE  /\ WriteReady(x.t, pg, p, len)
           /\ w.at \in Chain(x.t, pg, p) /\ w.start = pg[p].cluster
           /\ pg[p].length = page[p].length
<1>0. /\ HoldsOn(card, page, f) /\ p = f.entry /\ FreeFrom(card) # {} /\ c = Found(card)
      /\ w = FirstTaken(f) /\ m \in Nat /\ x = Extend(w.t, c, m)
      /\ pg = (IF f.start # End \/ page[p] = Blank THEN page
               ELSE [page EXCEPT ![p].cluster = c])
      /\ len \in Nat \ {0} /\ len <= MaxLength /\ Size(len) <= x.got + 1 + Size(page[p].length)
  BY DEF Growth
<1>1. /\ setup \in Setups /\ TableOK(card) /\ PagesOK(page) /\ Image(card, page)
      /\ p \in FilesIn(card, page) /\ f.start = page[p].cluster
  BY <1>0 DEF AlwaysFits, Kept, HoldsOn
<1>2. p \in KidFiles(card, page)
  BY <1>1 DEF FilesIn
<1>3. p \in Page /\ page[p] # Blank /\ p # RootEntry
  BY <1>1, <1>2, FileSpot
<1>4. c \in Fat \ {Root}
  BY <1>0, <1>1, FoundIs DEF TableOK
<1>5. CASE f.start = End
  <2>1. w = [t |-> SetEof(Taken(card), c), start |-> c, at |-> c]
    BY <1>0, <1>5 DEF FirstTaken
  <2>2. PICK t : t = SetEof(Taken(card), c)
    OBVIOUS
  <2>3. PICK e : e = [page[p] EXCEPT !.cluster = c]
    OBVIOUS
  <2>4. pg = Altered(page, p, e)
    BY <1>0, <1>3, <1>5, <2>3 DEF Altered
  <2>5. EntryFits(page[p])
    BY <1>1, <1>3 DEF PagesOK
  <2>6. EntryFits(e) /\ e.length = page[p].length
    <3>1. e.length = page[p].length
      BY <2>3, <2>5 DEF EntryFits, Entry
    <3> QED BY <1>4, <2>3, <2>5, <3>1, ClusterFits
  <2>7. PagesOK(pg) /\ pg[p] = e
    <3>1. PagesOK(page) /\ p \in Page /\ p # RootEntry /\ EntryFits(e) /\ pg = Altered(page, p, e)
      BY <1>1, <1>3, <2>4, <2>6
    <3> QED BY ONLY <3>1, PutOK
  <2>8. w.t = t /\ w.at = c /\ w.start = c
    BY <2>1, <2>2
  <2>9. x = Extend(t, c, m) /\ page[p].cluster = End
    BY <1>0, <1>1, <1>5, <2>8
  <2>10. WriteReady(x.t, pg, p, len) /\ c \in Chain(x.t, pg, p) /\ pg[p].cluster = c
    <3>1. /\ AlwaysFits /\ Kept /\ p \in FilesIn(card, page) /\ page[p].cluster = End
          /\ FreeFrom(card) # {} /\ c = Found(card) /\ t = SetEof(Taken(card), c)
          /\ m \in Nat /\ x = Extend(t, c, m)
          /\ PagesOK(pg) /\ e = [page[p] EXCEPT !.cluster = c] /\ pg = Altered(page, p, e)
          /\ len \in Nat \ {0} /\ len <= MaxLength /\ Size(len) <= x.got + 1 + Size(page[p].length)
      BY <1>0, <1>1, <2>2, <2>3, <2>4, <2>7, <2>9
    <3> QED BY ONLY <3>1, FirstReady
  <2> QED BY <2>6, <2>7, <2>8, <2>10
<1>6. CASE f.start # End
  <2>1. PICK l : l = LastOf(card, f.start)
    OBVIOUS
  <2>2. PICK y : y = Extend(card, l, 1)
    OBVIOUS
  <2>3. y = [t |-> Appended(card, l), last |-> Found(card), got |-> 1]
    BY <1>0, <2>2, ExtendOne
  <2>4. PICK t : t = Appended(card, l)
    OBVIOUS
  <2>5. y.t = t /\ y.last = c
    BY <1>0, <2>3, <2>4
  <2>6. w = [t |-> y.t, start |-> f.start, at |-> IF f.offset = 0 THEN y.last ELSE l]
    BY <1>0, <1>6, <2>1, <2>2 DEF FirstTaken
  <2>7. w.t = t /\ w.start = f.start /\ w.at \in {c, l}
    BY <2>5, <2>6
  <2>8. pg = page /\ x = Extend(t, c, m)
    BY <1>0, <1>6, <2>7
  <2>9. WriteReady(x.t, page, p, len) /\ {c, l} \subseteq Chain(x.t, page, p)
    BY <1>0, <1>1, <1>6, <2>1, <2>4, <2>8, NextReady
  <2> QED BY <1>1, <2>7, <2>8, <2>9
<1> QED BY <1>5, <1>6

\* A write that ran out of clusters: the file keeps the ones it got.
LEMMA ShortSettles ==
    ASSUME AlwaysFits, Kept, NEW p \in FilesIn(card, page), NEW t, NEW pg, NEW len,
           WriteReady(t, pg, p, len), pg[p].length = page[p].length,
           Size(page[p].length) <= Size(len)
    PROVE  /\ Orderly(t, pg) /\ Listings(t, pg)
           /\ Lossless(card, page) => Lossless(t, pg)
<1>1. Image(card, page)
  BY DEF Kept
<1>2. p \in KidFiles(card, page)
  BY DEF FilesIn
<1>3. p \in Page /\ page[p] # Blank /\ page[p].kind = "file" /\ p # RootEntry
  BY <1>1, <1>2, FileSpot
<1>4. PagesOK(pg) /\ pg[p] # Blank /\ len \in Nat \ {0} /\ len <= MaxLength
      /\ (\A q \in Page : q # p => pg[q] = page[q])
  BY DEF WriteReady
<1>5. PICK d : d = pg[p]
  OBVIOUS
<1>6. EntryFits(d) /\ d.length \in Nat
  BY <1>3, <1>4, <1>5, ClustersAre DEF PagesOK, EntryFits, Entry
<1>7. PICK e : e = Lengthened(d, len)
  OBVIOUS
<1>8. EntryFits(e) /\ e.name = d.name /\ e.cluster = d.cluster /\ e.length = len
      /\ e.exists = d.exists /\ e.kind = d.kind
  BY <1>4, <1>6, <1>7, LengthFits
<1>9. PICK pq : pq = Altered(pg, p, e)
  OBVIOUS
<1>10. PagesOK(pq) /\ pq[p] = e /\ \A q \in Page : q # p => pq[q] = pg[q]
  BY <1>3, <1>4, <1>8, <1>9, PutOK
<1>11. Elsewhere(card, page, pq, p)
  <2>1. SUFFICES ASSUME NEW b \in DirsIn(card, page), NEW i \in 0 .. page[b].length - 1,
                        NEW q, q = Spot(card, page, b, i), q # p
                 PROVE  pq[q] = page[q]
    BY DEF Elsewhere
  <2>2. q \in Page
    BY <1>1, <2>1, SpotIs DEF Image
  <2> QED BY <1>4, <1>10, <2>1, <2>2
<1>12. \A q \in Page : q # p => pq[q] \in {Blank, page[q]}
  BY <1>4, <1>10
<1>13. /\ Image(t, pq) /\ FilesIn(t, pq) = FilesIn(card, page)
       /\ Lossless(card, page) => Lossless(t, pq)
  BY <1>1, <1>5, <1>7, <1>10, <1>11, <1>12, ReadyImage
<1>14. Size(d.length) \in Nat /\ Size(len) \in Nat /\ d.length = page[p].length
  BY <1>4, <1>5, <1>6, Sizes
<1>15. /\ p \in FilesIn(t, pq) /\ pg[p].kind = pq[p].kind /\ pg[p].name = pq[p].name
       /\ pg[p].exists = pq[p].exists /\ pg[p].cluster = pq[p].cluster
       /\ Size(pg[p].length) <= Size(pq[p].length)
       /\ Size(pg[p].length) \in Nat /\ Size(pq[p].length) \in Nat
       /\ \A q \in Page : q # p => pg[q] = pq[q]
  BY <1>5, <1>8, <1>10, <1>13, <1>14
<1> QED BY <1>4, <1>13, <1>15, ShorterSettles

LEMMA WriteGrowingKeeps ==
    ASSUME AlwaysFits, Kept, NEW h \in setup.handles, NEW k \in 1 .. MaxLength, WriteGrowing(h, k)
    PROVE  Settled' /\ ("short" \notin mishaps' => Kept')
<1>1. PICK f : f = handle[h]
  OBVIOUS
<1>2. PICK needed : needed = Needed(f, k)
  OBVIOUS
<1>3. PICK raised : raised = [f EXCEPT !.length = f.pos + k]
  OBVIOUS
<1>4. PICK w : w = FirstTaken(f)
  OBVIOUS
<1>5. PICK c : c = Found(card)
  OBVIOUS
<1>6. PICK x : x = Extend(w.t, c, needed - 1)
  OBVIOUS
<1>7. PICK g : g = [raised EXCEPT !.start = w.start, !.at = w.at]
  OBVIOUS
<1>8. PICK pg : pg = IF f.start # End \/ page[f.entry] = Blank THEN page
                     ELSE [page EXCEPT ![f.entry].cluster = c]
  OBVIOUS
<1>9. /\ IsOpen(h) /\ f.pos + k <= MaxLength /\ needed > 0
      /\ IF EndAstray(f) \/ HintAstray(card) THEN GoAstray
         ELSE IF FreeFrom(card) = {} THEN Short(h, card, page, raised)
         ELSE IF x.got < needed - 1 THEN Short(h, x.t, pg, g)
         ELSE Store(h, x.t, pg, g, k)
  BY <1>1, <1>2, <1>3, <1>4, <1>5, <1>6, <1>7, <1>8 DEF WriteGrowing
<1>10. /\ h \in Handles /\ TableOK(card) /\ PagesOK(page) /\ FileFits(f) /\ f.entry # Nowhere
       /\ setup \in Setups /\ HoldsOn(card, page, f) /\ f.start \in Fat \cup {End}
  BY <1>1, <1>9, OpenHolds DEF AlwaysFits
<1>11. k \in Nat \ {0}
  BY ClustersAre
<1>12. f.pos \in Nat /\ f.length \in Nat /\ f.pos + k \in 0 .. MaxLength /\ f.entry \in Page
       /\ f.entry # RootEntry
  BY <1>9, <1>10, <1>11, ClustersAre DEF FileFits, Opened
<1>13. FileFits(raised) /\ raised.pos = f.pos /\ raised.entry = f.entry /\ raised.mode = f.mode
       /\ raised.length = f.pos + k
  BY <1>3, <1>10, <1>12, WithLength
<1>14. PICK p : p = f.entry
  OBVIOUS
<1>15. p \in FilesIn(card, page) /\ f.start = page[p].cluster /\ f.length = page[p].length
  BY <1>10, <1>14 DEF HoldsOn
<1>16. PICK m \in Nat : m = needed - 1 /\ m + 1 = needed
  <2>1. Size(f.pos + k) \in Nat /\ Size(f.length) \in Nat
    BY <1>12, Sizes
  <2>2. needed - 1 \in Nat /\ (needed - 1) + 1 = needed
    BY <1>2, <1>9, <2>1 DEF Needed
  <2> QED BY <2>2
<1>17. x = Extend(w.t, c, m)
  BY <1>6, <1>16
<1>18. pg = IF f.start # End \/ page[p] = Blank THEN page ELSE [page EXCEPT ![p].cluster = c]
  BY <1>8, <1>14
<1>19. FreeFrom(card) # {} => /\ TableOK(w.t) /\ w.start \in Fat \ {Root} /\ w.at \in Fat
                              /\ c \in Fat \ {Root} /\ x.got \in Nat
  <2>1. SUFFICES ASSUME FreeFrom(card) # {}
                 PROVE  /\ TableOK(w.t) /\ w.start \in Fat \ {Root} /\ w.at \in Fat
                        /\ c \in Fat \ {Root} /\ x.got \in Nat
    OBVIOUS
  <2>2. TableOK(w.t) /\ w.start \in Fat \ {Root} /\ w.at \in Fat
    BY <1>4, <1>10, <2>1, FirstTakenOK
  <2>3. c \in Fat \ {Root}
    BY <1>5, <1>10, <2>1, FoundIs DEF TableOK
  <2> QED BY <1>10, <1>17, <2>2, <2>3, ExtendOK
<1>20. CASE EndAstray(f) \/ HintAstray(card)
  BY <1>9, <1>20, AstrayWhole, WholeNext
<1>21. CASE ~ (EndAstray(f) \/ HintAstray(card)) /\ FreeFrom(card) = {}
  <2>1. /\ card' = card /\ page' = page /\ mishaps' = mishaps \cup {"short"}
        /\ event' = Quiet
    BY <1>9, <1>21 DEF Short
  <2>2. Whole'
    BY <2>1, QuietFits DEF Kept, Whole
  <2> QED BY <2>1, <2>2, WholeNext
<1>22. CASE ~ (EndAstray(f) \/ HintAstray(card)) /\ FreeFrom(card) # {} /\ x.got < needed - 1
  <2>1. /\ card' = x.t /\ page' = pg /\ mishaps' = mishaps \cup {"short"}
        /\ event' = Quiet
    BY <1>9, <1>22 DEF Short
  <2>2. PICK length \in Nat : length = page[p].length /\ length <= MaxLength
    BY <1>10, <1>15, ClustersAre DEF FileFits, Opened
  <2>3. PICK len : len = IF length = 0 THEN 1 ELSE length
    OBVIOUS
  <2>4. len \in Nat \ {0} /\ len <= MaxLength
    BY <2>2, <2>3, ClustersAre
  <2>5. Size(length) <= Size(len) /\ Size(len) <= x.got + 1 + Size(length)
    <3>1. Size(0) = 0 /\ Size(1) = 1 /\ Size(length) \in Nat
      BY <2>2, Sizes, SizeOne
    <3> QED BY <1>19, <1>22, <2>3, <3>1
  <2>6. WriteReady(x.t, pg, p, len) /\ pg[p].length = page[p].length
    <3>1. Growth(f, p, c, w, m, x, pg, len)
      BY <1>4, <1>5, <1>10, <1>14, <1>17, <1>18, <1>22, <2>2, <2>4, <2>5 DEF Growth
    <3> QED BY <3>1, GrowthReady
  <2>7. /\ Orderly(x.t, pg) /\ Listings(x.t, pg)
        /\ Lossless(card, page) => Lossless(x.t, pg)
    BY <1>15, <2>2, <2>5, <2>6, ShortSettles
  <2> QED BY <2>1, <2>7, QuietFits DEF Kept, Settled
<1>23. CASE ~ (EndAstray(f) \/ HintAstray(card)) /\ FreeFrom(card) # {} /\ ~ (x.got < needed - 1)
  <2>1. Store(h, x.t, pg, g, k)
    BY <1>9, <1>23
  <2>2. w.start \in Fat \ {Root} /\ w.at \in Fat /\ x.got \in Nat /\ x.got >= m
    BY <1>16, <1>19, <1>23
  <2>3. /\ FileFits(g) /\ g.pos = f.pos /\ g.entry = p /\ g.mode = f.mode /\ g.length = f.pos + k
        /\ g.start = w.start /\ g.at = w.at
    <3>1. PICK s \in Fat \ {Root}, a \in Fat \cup {End} : s = w.start /\ a = w.at
      BY <2>2
    <3>2. g = Placed(raised, s, a)
      BY <1>7, <3>1 DEF Placed
    <3> QED BY <1>13, <1>14, <3>1, <3>2, WithPlace
  <2>4. PICK len \in Nat : len = f.pos + k
    BY <1>11, <1>12
  <2>5. len # 0 /\ len <= MaxLength /\ len = (IF g.mode = "trunc" THEN g.pos + k ELSE g.length)
    BY <1>11, <1>12, <2>3, <2>4
  <2>6. Size(len) <= x.got + 1 + Size(page[p].length)
    <3>1. Size(len) \in Nat /\ Size(page[p].length) \in Nat
      BY <1>12, <1>15, Sizes
    <3>2. Size(len) <= m + 1 + Size(page[p].length)
      BY <1>2, <1>15, <1>16, <2>4, <3>1 DEF Needed
    <3> QED BY <2>2, <3>1, <3>2
  <2>7. WriteReady(x.t, pg, p, len) /\ w.at \in Chain(x.t, pg, p) /\ w.start = pg[p].cluster
    <3>1. Growth(f, p, c, w, m, x, pg, len)
      BY <1>4, <1>5, <1>10, <1>14, <1>17, <1>18, <1>23, <2>4, <2>5, <2>6 DEF Growth
    <3> QED BY <3>1, GrowthReady
  <2>8. g.pos + k <= MaxLength
    BY <1>9, <2>3
  <2>9. Kept'
    BY <1>1, <1>9, <1>11, <1>14, <2>1, <2>3, <2>5, <2>7, <2>8, StoreKeeps
  <2> QED BY <2>9, KeptNext
<1> QED BY <1>20, <1>21, <1>22, <1>23

-----------------------------------------------------------------------------
(***************************************************************************)
(* Adding entries.                                                         *)
(***************************************************************************)
\* The entry of a directory.
LEMMA DirPage ==
    ASSUME NEW t, NEW pg, Image(t, pg), NEW d \in DirsIn(t, pg)
    PROVE  /\ d \in Page /\ pg[d] # Blank /\ pg[d].kind # "file" /\ pg[d].name \notin Files
           /\ EntryFits(pg[d]) /\ pg[d].length \in Nat /\ pg[d].cluster \in Fat /\ DirOK(t, pg, d)
           /\ \E i \in 0 .. pg[RootEntry].length - 1 : d = Spot(t, pg, RootEntry, i)
<1>1. d \in Page /\ pg[d] # Blank /\ pg[d].kind # "file"
      /\ \E i \in 0 .. pg[RootEntry].length - 1 : d = Spot(t, pg, RootEntry, i)
  <2>1. CASE d = RootEntry
    BY <2>1, RootSpot
  <2>2. CASE d # RootEntry
    <3>1. d \in FoldersIn(t, pg)
      BY <2>2 DEF DirsIn
    <3>2. PICK i \in 2 .. pg[RootEntry].length - 1 : d = Spot(t, pg, RootEntry, i)
      BY <3>1, FolderSpot
    <3>3. i \in 0 .. pg[RootEntry].length - 1
      BY RootSpot DEF DirOK
    <3> QED BY <3>1, <3>2, <3>3, FolderSpot
  <2> QED BY <2>1, <2>2
<1>2. EntryFits(pg[d]) /\ PageOK(pg[d]) /\ DirOK(t, pg, d)
  BY <1>1 DEF Image, PagesOK
<1>3. pg[d].name \notin Files
  BY <1>1, <1>2 DEF PageOK
<1> QED BY <1>1, <1>2, <1>3, ClustersAre DEF EntryFits, Entry

LEMMA EntryGrown ==
    ASSUME setup \in Setups, NEW t, NEW pg, Image(t, pg), NEW d \in DirsIn(t, pg),
           pg[d].length < MaxEntries + 2,
           NEW x, x = Extended(t, TailOf(t, pg[d]), pg[d]), ~ (Full(pg[d]) /\ x.got = 0),
           NEW place, place = <<x.last, pg[d].length % 2>>,
           NEW e, EntryFits(e), PageOK(e), NewEntry(e, d), NEW a, a = Grown(pg, place, e, d)
    PROVE  /\ TableOK(x.t) /\ t.used \subseteq x.t.used
           /\ place \in Page /\ place # RootEntry /\ place # d
           /\ a[place] = e /\ a[d] = Longer(pg[d])
           /\ \A q \in Page : q \notin {place, d} => a[q] = pg[q]
           /\ Image(x.t, a) /\ DirsIn(x.t, a) = DirsIn(t, pg)
           /\ place \notin OwnersIn(t, pg) /\ place \in KidsAt(x.t, a, d)
           /\ FilesIn(x.t, a) = FilesIn(t, pg) \cup (IF e.kind = "file" THEN {place} ELSE {})
           /\ \A q \in FilesIn(t, pg) : a[q] = pg[q] /\ Own(x.t, a, q) = Own(t, pg, q)
           /\ \A q \in DirsIn(t, pg) : Own(t, pg, q) \subseteq Own(x.t, a, q)
           /\ Lossless(t, pg) => Lossless(x.t, a)
<1>1. /\ d \in Page /\ pg[d] # Blank /\ pg[d].kind # "file" /\ pg[d].name \notin Files
      /\ EntryFits(pg[d]) /\ DirOK(t, pg, d) /\ TableOK(t) /\ PagesOK(pg)
      /\ \E i \in 0 .. pg[RootEntry].length - 1 : d = Spot(t, pg, RootEntry, i)
  BY DirPage DEF Image
<1>2. PICK c : c = pg[d].cluster
  OBVIOUS
<1>3. PICK n : n = pg[d].length
  OBVIOUS
<1>4. PICK u : u = x.t
  OBVIOUS
<1>5. /\ TableOK(u) /\ Owned(u, c, (n + 2) \div 2) /\ Grew(t, u, c)
      /\ x.last = Walk(u, c)[n \div 2]
      /\ \A k \in 0 .. (n + 1) \div 2 - 1 : Walk(u, c)[k] = Walk(t, c)[k]
  BY <1>1, <1>2, <1>3, <1>4, NextSpot
<1>6. place = <<Walk(u, c)[n \div 2], n % 2>>
  BY <1>3, <1>5
<1>7. /\ place \in Page
      /\ \A f \in DirsIn(t, pg) : \A i \in 0 .. pg[f].length - 1 : Spot(t, pg, f, i) # place
  BY <1>2, <1>3, <1>5, <1>6, SpotIsNew
<1>8. place # RootEntry /\ place # d
  BY <1>1, <1>7, RootSpot
<1>9. PagesOK(a) /\ a[d] = Longer(pg[d]) /\ a[place] = e
      /\ \A q \in Page : q \notin {place, d} => a[q] = pg[q]
  BY <1>1, <1>7, <1>8, GrownOK
<1>10. EntryFits(Longer(pg[d])) /\ Longer(pg[d]).kind = pg[d].kind
       /\ Longer(pg[d]).name = pg[d].name /\ Longer(pg[d]) # Blank
       /\ Longer(pg[d]).length <= MaxEntries + 2
  <2>1. PICK g : g = pg[d]
    OBVIOUS
  <2>2. g.length \in Nat /\ g.length + 1 \in Nat /\ g.length + 1 <= MaxEntries + 2
    BY <1>1, <2>1, ClustersAre, DirPage
  <2>3. Longer(g) = Lengthened(g, g.length + 1)
    BY DEF Longer, Lengthened
  <2>4. PICK b : b = Longer(g)
    OBVIOUS
  <2>5. EntryFits(b) /\ b.kind = g.kind /\ b.name = g.name /\ b.length = g.length + 1
    BY <1>1, <2>1, <2>2, <2>3, <2>4, LengthFits
  <2> QED BY <2>1, <2>2, <2>4, <2>5, BlankAssumption DEF EntryFits
<1>11. ASSUME NEW q \in Page, a[q] # Blank PROVE PageOK(a[q])
  <2>1. CASE q = place
    BY <1>9, <2>1
  <2>2. CASE q = d
    BY <1>1, <1>9, <1>10, <2>2 DEF PageOK
  <2>3. CASE q \notin {place, d}
    BY <1>9, <1>11, <2>3 DEF Image
  <2> QED BY <2>1, <2>2, <2>3
<1>12. /\ Image(u, a) /\ DirsIn(u, a) = DirsIn(t, pg)
       /\ place \notin OwnersIn(t, pg) /\ place \in KidsAt(u, a, d)
       /\ FilesIn(u, a) = FilesIn(t, pg) \cup (IF e.kind = "file" THEN {place} ELSE {})
       /\ \A q \in FilesIn(t, pg) : a[q] = pg[q] /\ Own(u, a, q) = Own(t, pg, q)
       /\ \A q \in DirsIn(t, pg) :
             Own(u, a, q) = Own(t, pg, q) \cup (IF q = d THEN u.used \ t.used ELSE {})
  <2>1. a[d] # Blank
    BY <1>9, <1>10
  <2>2. TableOK(u) /\ Owned(u, c, (n + 2) \div 2) /\ Grew(t, u, c)
        /\ \A k \in 0 .. (n + 1) \div 2 - 1 : Walk(u, c)[k] = Walk(t, c)[k]
    BY <1>5
  <2>3. PagesOK(a) /\ a[place] = e /\ a[d] = Longer(pg[d])
        /\ (\A q \in Page : q \notin {place, d} => a[q] = pg[q])
        /\ (\A q \in Page : a[q] # Blank => PageOK(a[q]))
    BY <1>9, <1>11
  <2> QED BY <1>2, <1>3, <1>6, <2>1, <2>2, <2>3, EntryAdded, SMTT(90)
<1>13. t.used \subseteq u.used
  BY <1>5 DEF Grew
<1>14. Lossless(t, pg) => Lossless(u, a)
  <2>1. place \in FilesIn(u, a) => Own(u, a, place) \subseteq u.used
    BY <1>12 DEF Image, FileOK
  <2>2. FilesIn(t, pg) \subseteq FilesIn(u, a) /\ FilesIn(u, a) \subseteq FilesIn(t, pg) \cup {place}
    BY <1>12
  <2> QED BY <1>12, <1>13, <2>1, <2>2, EntryLossless
<1> QED BY <1>4, <1>5, <1>7, <1>8, <1>9, <1>12, <1>13, <1>14

\* The directory at d gets the entry e at the page place.
Growing(t, pg, d, x, place, e, a) ==
    /\ Image(t, pg) /\ d \in DirsIn(t, pg) /\ pg[d].length < MaxEntries + 2
    /\ x = Extended(t, TailOf(t, pg[d]), pg[d]) /\ ~ (Full(pg[d]) /\ x.got = 0)
    /\ place = <<x.last, pg[d].length % 2>>
    /\ EntryFits(e) /\ PageOK(e) /\ NewEntry(e, d) /\ a = Grown(pg, place, e, d)

GrewBy(t, pg, d, u, place, e, a) ==
    /\ TableOK(u) /\ t.used \subseteq u.used
    /\ place \in Page /\ place # RootEntry /\ place # d
    /\ a[place] = e /\ a[d] = Longer(pg[d])
    /\ \A q \in Page : q \notin {place, d} => a[q] = pg[q]
    /\ Image(u, a) /\ DirsIn(u, a) = DirsIn(t, pg)
    /\ place \notin OwnersIn(t, pg) /\ place \in KidsAt(u, a, d)
    /\ FilesIn(u, a) = FilesIn(t, pg) \cup (IF e.kind = "file" THEN {place} ELSE {})
    /\ \A q \in FilesIn(t, pg) : a[q] = pg[q] /\ Own(u, a, q) = Own(t, pg, q)
    /\ Lossless(t, pg) => Lossless(u, a)

LEMMA EntryGrew ==
    ASSUME setup \in Setups, NEW t, NEW pg, NEW d, NEW x, NEW place, NEW e, NEW a,
           Growing(t, pg, d, x, place, e, a)
    PROVE  GrewBy(t, pg, d, x.t, place, e, a)
BY EntryGrown DEF Growing, GrewBy

\* The directory of a path, if the folder it names exists.
LEMMA ParentDir ==
    ASSUME NEW t, NEW pg, Image(t, pg), NEW path, path.dir \in Folders \cup {Dot},
           NEW d, d = Parent(t, pg, path), d \in Page, pg[d].exists \/ d = RootEntry
    PROVE  d \in DirsIn(t, pg)
<1>1. CASE path.dir = Dot
  BY <1>1 DEF Parent, DirsIn
<1>2. CASE path.dir # Dot
  <2>1. d = Scan(t, pg, RootEntry, path.dir) /\ path.dir \in Folders
    BY <1>2 DEF Parent
  <2> QED BY <2>1, FolderFound DEF DirsIn
<1> QED BY <1>1, <1>2

LEMMA PathIs ==
    ASSUME setup \in Setups, NEW path \in Paths
    PROVE  path.name \in Files /\ path.dir \in Folders \cup {Dot}
BY NamesAre DEF Paths

LEMMA NotBuried ==
    ASSUME NEW path, "buried" \notin Buried(path), NEW d, d = Parent(card, page, path), d \in Page
    PROVE  page[d].exists
BY DEF Buried

LEMMA OpenNewKeeps ==
    ASSUME AlwaysFits, Kept, NEW h \in setup.handles, NEW path \in Paths, NEW mode \in Modes,
           OpenNew(h, path, mode), "buried" \notin mishaps'
    PROVE  Kept'
<1>1. PICK d : d = Parent(card, page, path)
  OBVIOUS
<1>2. PICK e : e = Made("file", path.name, End, 0)
  OBVIOUS
<1>3. PICK w : w = AddObject(card, page, d, e)
  OBVIOUS
<1>4. /\ Room(page, d) /\ ~IsOpen(h)
      /\ IF AddAstray(card, page, d, e) THEN GoAstray
         ELSE /\ w.done
              /\ card' = w.t
              /\ page' = w.pg
              /\ handle' = [handle EXCEPT ![h] = Handle(w.at, mode, e)]
              /\ mishaps' = mishaps \cup Buried(path)
              /\ event' = Quiet
              /\ UNCHANGED <<setup, astray>>
  BY <1>1, <1>2, <1>3 DEF OpenNew
<1>5. CASE AddAstray(card, page, d, e)
  BY <1>4, <1>5, AstrayKeeps
<1>6. CASE ~AddAstray(card, page, d, e)
  <2>1. setup \in Setups /\ Image(card, page) /\ HandlesOK(handle) /\ Holding(card, page, handle)
    BY DEF AlwaysFits, Kept
  <2>2. path.name \in Files /\ path.dir \in Folders \cup {Dot} /\ h \in Handles
    BY <2>1, PathIs, NamesAre
  <2>3. d \in Page /\ page[d].length < MaxEntries + 2
    BY <1>4 DEF Room
  <2>4. page[d].exists
    BY <1>1, <1>4, <1>6, <2>3, NotBuried
  <2>5. d \in DirsIn(card, page)
    BY <1>1, <2>1, <2>2, <2>3, <2>4, ParentDir
  <2>6. /\ EntryFits(e) /\ e.name = path.name /\ e.length = 0 /\ e.cluster = End /\ e.exists
        /\ e.kind = "file"
    BY <1>2, <2>2, MadeFits, ClustersAre DEF Somewhere
  <2>7. PageOK(e) /\ NewEntry(e, d)
    BY <2>2, <2>6, VmcAssumption, BlankAssumption DEF PageOK, NewEntry, EntryFits
  <2>8. PICK x : x = Extended(card, TailOf(card, page[d]), page[d])
    OBVIOUS
  <2>9. PICK place : place = <<x.last, page[d].length % 2>>
    OBVIOUS
  <2>10. PICK own : own = Found(x.t)
    OBVIOUS
  <2>11. w = Added(card, page, d, e, x, place, own)
    BY <1>3, <2>8, <2>9, <2>10, AddIs
  <2>12. PICK a : a = Grown(page, place, e, d)
    OBVIOUS
  <2>13. ~ (Full(page[d]) /\ x.got = 0)
    BY <1>4, <1>6, <2>11 DEF Added, Failed
  <2>14. w = [done |-> TRUE, t |-> x.t, pg |-> a, at |-> place]
    BY <2>6, <2>11, <2>12, <2>13 DEF Added
  <2>15. card' = x.t /\ page' = a
    BY <1>4, <1>6, <2>14
  <2>16. /\ place \in Page /\ a[place] = e
         /\ Image(x.t, a) /\ place \notin OwnersIn(card, page)
         /\ FilesIn(x.t, a) = FilesIn(card, page) \cup {place}
         /\ \A q \in FilesIn(card, page) : a[q] = page[q] /\ Own(x.t, a, q) = Own(card, page, q)
         /\ Lossless(card, page) => Lossless(x.t, a)
    BY <2>1, <2>3, <2>5, <2>6, <2>7, <2>8, <2>9, <2>12, <2>13, EntryGrown
  <2>17. PICK f : f = Handle(place, mode, e)
    OBVIOUS
  <2>18. f.entry = place /\ f.start = End /\ f.at = End /\ f.length = 0
    BY <2>6, <2>17 DEF Handle
  <2>19. HoldsOn(x.t, a, f)
    BY <2>6, <2>16, <2>18 DEF HoldsOn
  <2>20. \A g \in Handles : handle[g].entry # place
    <3>1. ASSUME NEW g \in Handles, handle[g].entry = place PROVE FALSE
      <4>1. handle[g].entry # Nowhere
        BY <2>16, <3>1, PagesAre
      <4>2. place \in FilesIn(card, page)
        BY <2>1, <3>1, <4>1 DEF Holding, Holds
      <4> QED BY <2>16, <4>2 DEF OwnersIn
    <3> QED BY <3>1
  <2>21. PICK b : b = Altered(handle, h, f)
    OBVIOUS
  <2>22. handle' = b
    BY <1>4, <1>6, <2>14, <2>17, <2>21 DEF Altered
  <2>23. Holding(x.t, a, b)
    <3>1. ASSUME NEW g \in Handles, g # h, handle[g].entry # Nowhere, NEW p, p = handle[g].entry
          PROVE  /\ p \in FilesIn(x.t, a) /\ a[p].cluster = page[p].cluster
                 /\ a[p].length = page[p].length /\ Own(x.t, a, p) = Own(card, page, p)
      <4>1. p \in FilesIn(card, page)
        BY <2>1, <3>1 DEF Holding, Holds
      <4> QED BY <2>16, <4>1
    <3> QED BY <2>1, <2>2, <2>18, <2>19, <2>20, <2>21, <3>1, HoldingPut
  <2>24. mishaps \subseteq mishaps' /\ event' = Quiet
    BY <1>4, <1>6
  <2>25. "dropped" \notin mishaps' => Lossless(x.t, a)
    BY <2>16, <2>24 DEF Kept
  <2> QED BY <2>15, <2>16, <2>22, <2>23, <2>24, <2>25, QuietFits DEF Kept
<1> QED BY <1>5, <1>6

\* A path to a file that exists, in a directory that does.
LEMMA PathKid ==
    ASSUME AlwaysFits, Kept, NEW path \in Paths, "buried" \notin Buried(path),
           NEW p, p = Lookup(card, page, path), p \in Page
    PROVE  /\ p \in KidFiles(card, page) /\ page[p] # Blank /\ page[p].kind = "file"
           /\ page[p].name \in Files /\ EntryFits(page[p]) /\ PageOK(page[p])
           /\ page[p].cluster \in Somewhere /\ p # Nowhere
           /\ (page[p].exists => p \in FilesIn(card, page))
<1>1. setup \in Setups /\ Image(card, page)
  BY DEF AlwaysFits, Kept
<1>2. path.name \in Files /\ path.dir \in Folders \cup {Dot}
  BY <1>1, PathIs
<1>3. PICK d : d = Parent(card, page, path)
  OBVIOUS
<1>4. d \in Page => page[d].exists
  BY <1>3, NotBuried
<1>5. p \in KidFiles(card, page) /\ (page[p].exists => p \in FilesIn(card, page))
  BY <1>1, <1>2, <1>3, <1>4, PathFound
<1>6. page[p] # Blank /\ page[p].kind = "file" /\ page[p].name \in Files
  BY <1>1, <1>5, FileSpot
<1>7. EntryFits(page[p]) /\ page[p].cluster \in Somewhere
  BY FoundPage
<1>8. PageOK(page[p])
  BY <1>1, <1>6 DEF Image
<1> QED BY <1>5, <1>6, <1>7, <1>8, PagesAre

LEMMA BeginsIn == ASSUME NEW t, NEW c \in Fat PROVE c \in Reached(t, c)
<1>1. Walk(t, c)[0] = c /\ 0 \in 0 .. Clusters /\ c # End
  BY WalkIs, ClustersAre
<1> QED BY <1>1 DEF Reached

\* Truncating a file of more than one cluster.
LEMMA TruncatedIs ==
    ASSUME NEW t, TableOK(t), NEW e, e.cluster \in Fat \ {Root}, t.next[e.cluster] # End,
           EntryFits(e), NEW w, w = Truncated(t, e)
    PROVE  /\ w.e.cluster = End /\ w.e.length = 0 /\ w.e.exists /\ w.e.kind = e.kind
           /\ w.e.name = e.name /\ w.e # Blank
           /\ Stays(t, w.t, Reached(t, e.cluster))
<1>1. PICK c \in Fat : c = e.cluster
  OBVIOUS
<1>2. PICK u : u = SetEof(t, c)
  OBVIOUS
<1>3. PICK R : R = Reached(t, c)
  OBVIOUS
<1>4. PICK cs : cs = {d \in R \ {c} : d \in t.used \/ t.next[d] # End}
  OBVIOUS
<1>5. w = [t |-> SetFree(u, cs),
           e |-> [e EXCEPT !.length = 0, !.cluster = End, !.exists = TRUE]]
  BY <1>1, <1>2, <1>3, <1>4 DEF Truncated
<1>6. PICK g : g = [e EXCEPT !.length = 0, !.cluster = End, !.exists = TRUE]
  OBVIOUS
<1>7. g.cluster = End /\ g.length = 0 /\ g.exists /\ g.kind = e.kind /\ g.name = e.name
      /\ g # Blank
  <2>1. PICK b \in BOOLEAN : b = TRUE
    OBVIOUS
  <2>2. g = [e EXCEPT !.length = 0, !.cluster = End, !.exists = b]
    BY <1>6, <2>1
  <2>3. g = [kind |-> e.kind, name |-> e.name, exists |-> b, cluster |-> End, length |-> 0]
    BY <2>2 DEF EntryFits, Entry
  <2>4. 0 \in 0 .. MaxLength
    BY ClustersAre
  <2>5. g \in Entry
    BY <2>3, <2>4 DEF EntryFits, Entry
  <2> QED BY <2>1, <2>3, <2>5, BlankAssumption
<1>8. u.next = Altered(t.next, c, End) /\ u.used = t.used \cup {c}
  BY <1>2, SetEofIs DEF TableOK, Sane
<1>9. PICK v : v = SetFree(u, cs)
  OBVIOUS
<1>10. v.next = [d \in Fat |-> IF d \in cs THEN End ELSE u.next[d]] /\ v.used = u.used \ cs
  BY <1>9, SetFreeIs
<1>11. c \in R
  BY <1>3, BeginsIn
<1>12. Stays(t, v, R)
  <2>1. SUFFICES ASSUME NEW d \in t.used, d \notin R PROVE d \in v.used /\ v.next[d] = t.next[d]
    BY DEF Stays
  <2>2. d \in Fat /\ d # c /\ d \notin cs
    BY <1>4, <1>11, <2>1 DEF TableOK
  <2>3. u.next[d] = t.next[d]
    BY <1>8, <2>2 DEF Altered, TableOK, Sane, Linked
  <2> QED BY <1>8, <1>10, <2>2, <2>3
<1>13. w.t = v /\ w.e = g
  BY <1>5, <1>6, <1>9
<1> QED BY <1>1, <1>3, <1>7, <1>12, <1>13

LEMMA OpenFoundKeeps ==
    ASSUME AlwaysFits, Kept, NEW h \in setup.handles, NEW path \in Paths, NEW mode \in Modes,
           OpenFound(h, path, mode), {"buried", "reopened", "kept"} \cap mishaps' = {}
    PROVE  Whole' /\ ("shared" \notin mishaps' => Kept')
<1>1. PICK p : p = Lookup(card, page, path)
  OBVIOUS
<1>2. PICK e : e = page[p]
  OBVIOUS
<1>3. PICK cuts \in BOOLEAN : cuts = (mode = "trunc" \/ ~e.exists)
  OBVIOUS
<1>4. PICK w : w = IF cuts THEN Truncated(card, e) ELSE [t |-> card, e |-> e]
  OBVIOUS
<1>5. /\ p \in Page /\ ~IsOpen(h)
      /\ IF cuts /\ e.cluster = End THEN GoAstray
         ELSE /\ card' = w.t
              /\ page' = [page EXCEPT ![p] = w.e]
              /\ handle' = [handle EXCEPT ![h] = Handle(p, mode, w.e)]
              /\ mishaps' = mishaps \cup Buried(path)
                   \cup (IF ~e.exists THEN {"reopened"} ELSE {})
                   \cup (IF e.exists /\ cuts
                         THEN {IF card.next[e.cluster] = End THEN "kept" ELSE "dropped"}
                         ELSE {})
                   \cup (IF Held(p) # {} THEN {"shared"} ELSE {})
              /\ event' = Quiet
              /\ UNCHANGED <<setup, astray>>
  BY <1>1, <1>2, <1>3, <1>4 DEF OpenFound
<1>6. CASE cuts /\ e.cluster = End
  BY <1>5, <1>6, AstrayWhole
<1>7. CASE ~ (cuts /\ e.cluster = End)
  <2>1. /\ card' = w.t
        /\ page' = [page EXCEPT ![p] = w.e]
        /\ handle' = [handle EXCEPT ![h] = Handle(p, mode, w.e)]
        /\ event' = Quiet /\ mishaps \subseteq mishaps'
    BY <1>5, <1>7
  <2>2. "buried" \notin Buried(path) /\ e.exists /\ ("shared" \notin mishaps' => Held(p) = {})
        /\ (cuts => card.next[e.cluster] # End /\ "dropped" \in mishaps')
    BY <1>5, <1>7
  <2>3. /\ setup \in Setups /\ Image(card, page) /\ HandlesOK(handle)
        /\ Holding(card, page, handle) /\ TableOK(card) /\ PagesOK(page) /\ h \in Handles
    BY NamesAre DEF AlwaysFits, Kept
  <2>4. /\ p \in KidFiles(card, page) /\ e # Blank /\ e.kind = "file" /\ e.name \in Files
        /\ EntryFits(e) /\ PageOK(e) /\ e.cluster \in Somewhere /\ p # Nowhere
        /\ p \in FilesIn(card, page)
    BY <1>1, <1>2, <1>5, <2>2, PathKid
  <2>5. ASSUME "shared" \notin mishaps' PROVE \A g \in Handles : handle[g].entry # p
    BY <2>2, <2>5 DEF Held
  <2>6. PICK f : f = Handle(p, mode, w.e)
    OBVIOUS
  <2>7. f.entry = p /\ f.start = w.e.cluster /\ f.at = w.e.cluster /\ f.length = w.e.length
    BY <2>6 DEF Handle
  <2>8. PICK b : b = Altered(handle, h, f)
    OBVIOUS
  <2>9. handle' = b
    BY <2>1, <2>6, <2>8 DEF Altered
  <2>10. CASE ~cuts
    <3>1. w.t = card /\ w.e = e
      BY <1>4, <2>10
    <3>2. page' = page
      <4>1. page = [q \in Page |-> page[q]]
        BY <2>3 DEF PagesOK
      <4> QED BY <1>2, <2>1, <3>1, <4>1
    <3>3. e.cluster \in Own(card, page, p) \cup {End}
      <4>1. e.cluster \in Fat \cup {End}
        BY <2>4 DEF Somewhere
      <4> QED BY <1>2, <4>1, BeginsIn DEF Own
    <3>4. HoldsOn(card, page, f)
      BY <1>2, <2>4, <2>7, <3>1, <3>3 DEF HoldsOn
    <3>5. ASSUME "shared" \notin mishaps' PROVE Holding(card, page, b)
      <4>1. ASSUME NEW g \in Handles, g # h, handle[g].entry # Nowhere, NEW q, q = handle[g].entry
            PROVE  q \in FilesIn(card, page)
        BY <2>3, <4>1 DEF Holding, Holds
      <4> QED BY <2>3, <2>5, <2>7, <2>8, <3>4, <3>5, <4>1, HoldingPut
    <3>6. card' = card
      BY <2>1, <3>1
    <3>7. "shared" \notin mishaps' => Holding(card, page, handle')
      BY <2>9, <3>5
    <3>8. Whole'
      BY <2>1, <3>2, <3>6, QuietFits DEF Kept, Whole
    <3> QED BY <2>1, <3>2, <3>6, <3>7, <3>8, ImageStays
  <2>11. CASE cuts
    <3>1. e.cluster \in Fat \ {Root} /\ card.next[e.cluster] # End /\ w = Truncated(card, e)
      BY <1>4, <1>7, <2>2, <2>4, <2>11 DEF Somewhere
    <3>2. PICK t : t = w.t
      OBVIOUS
    <3>3. PICK v : v = w.e
      OBVIOUS
    <3>4. /\ v.cluster = End /\ v.length = 0 /\ v.exists /\ v.kind = "file" /\ v.name = e.name
          /\ v # Blank /\ Stays(card, t, Reached(card, e.cluster))
      BY <2>3, <2>4, <3>1, <3>2, <3>3, TruncatedIs
    <3>5. PICK pq : pq = page'
      OBVIOUS
    <3>6. pq = Altered(page, p, v)
      BY <2>1, <3>3, <3>5 DEF Altered
    <3>7. pq[p] = v /\ \A q \in Page : q # p => pq[q] = page[q]
      BY <1>5, <2>3, <3>6 DEF Altered, PagesOK
    <3>8. TableOK(t) /\ PagesOK(pq)
      <4>1. AlwaysFits'
        BY OpenFoundFits
      <4> QED BY <2>1, <3>2, <3>5, <4>1 DEF AlwaysFits
    <3>9. PageOK(v)
      BY <2>4, <3>4 DEF PageOK
    <3>10. \A q \in Page : pq[q] # Blank => PageOK(pq[q])
      BY <2>3, <3>7, <3>9 DEF Image
    <3>11. Elsewhere(card, page, pq, p)
      <4>1. \A d \in DirsIn(card, page) : \A i \in 0 .. page[d].length - 1 :
                Spot(card, page, d, i) \in Page
        BY <2>3, SpotIs DEF Image
      <4> QED BY <3>7, <4>1 DEF Elsewhere
    <3>12. Had(card, page, p) = Reached(card, e.cluster)
      BY <1>2, <2>2 DEF Had, Own
    <3>13. Own(t, pq, p) = {}
      BY <3>4, <3>7, NoChain DEF Own
    <3>14. FileNow(card, page, t, pq, p)
      <4>1. Cardinality({}) = 0 /\ Size(0) = 0
        BY FS_EmptySet, Sizes
      <4>2. FileOK(t, pq, p)
        BY <3>4, <3>7, <3>13, <4>1 DEF FileOK
      <4> QED BY <2>4, <3>4, <3>7, <3>13, <4>2 DEF FileNow
    <3>15. /\ Image(t, pq)
           /\ FilesIn(t, pq)
              = (FilesIn(card, page) \ {p}) \cup (IF pq[p].exists THEN {p} ELSE {})
           /\ \A q \in OwnersIn(card, page) :
                 q # p => pq[q] = page[q] /\ Own(t, pq, q) = Own(card, page, q)
      BY <2>3, <2>4, <3>4, <3>8, <3>10, <3>11, <3>12, <3>14, FileChanged
    <3>16. HoldsOn(t, pq, f)
      BY <2>7, <3>3, <3>4, <3>7, <3>15 DEF HoldsOn
    <3>17. ASSUME "shared" \notin mishaps' PROVE Holding(t, pq, b)
      <4>1. ASSUME NEW g \in Handles, g # h, handle[g].entry # Nowhere, NEW q, q = handle[g].entry
            PROVE  /\ q \in FilesIn(t, pq) /\ pq[q].cluster = page[q].cluster
                   /\ pq[q].length = page[q].length /\ Own(t, pq, q) = Own(card, page, q)
        <5>1. q \in FilesIn(card, page) /\ q # p
          BY <2>3, <2>5, <3>17, <4>1 DEF Holding, Holds
        <5> QED BY <3>15, <5>1 DEF OwnersIn
      <4> QED BY <2>3, <2>5, <2>7, <2>8, <3>16, <3>17, <4>1, HoldingPut
    <3>18. "dropped" \in mishaps' /\ card' = t /\ event' = Quiet
      BY <2>1, <2>2, <2>11, <3>2
    <3>19. Whole'
      BY <3>5, <3>15, <3>18, QuietFits DEF Whole
    <3> QED BY <2>9, <3>5, <3>15, <3>17, <3>18, <3>19, QuietFits DEF Kept
  <2> QED BY <2>10, <2>11
<1> QED BY <1>6, <1>7

-----------------------------------------------------------------------------
(***************************************************************************)
(* Removing.                                                               *)
(***************************************************************************)
\* A chain's bits are cleared, and its links stay.
LEMMA RemovedIs ==
    ASSUME NEW t, TableOK(t), NEW c \in Fat, NEW R, R = Reached(t, c), R \subseteq t.used,
           NEW u, u = Removed(t, c)
    PROVE  u.used = t.used \ R /\ Stays(t, u, R)
<1>1. PICK last : last = LastOf(t, c)
  OBVIOUS
<1>2. PICK cs : cs = R \ {last}
  OBVIOUS
<1>3. last \in R /\ t.next[last] = End /\ last \in t.used
  BY <1>1, LastIs
<1>4. PICK rest : rest = Reset(t, cs)
  OBVIOUS
<1>5. rest.next = t.next /\ rest.used = t.used \ cs
  BY <1>4, ResetIs DEF TableOK, Sane
<1>6. u = SetFree(rest, {last})
  <2>1. u = IF last \in t.used THEN SetFree(rest, {last}) ELSE rest
    BY <1>1, <1>2, <1>4 DEF Removed
  <2> QED BY <1>3, <2>1
<1>7. u.next = [d \in Fat |-> IF d \in {last} THEN End ELSE rest.next[d]]
      /\ u.used = rest.used \ {last}
  BY <1>6, SetFreeIs
<1>8. u.used = t.used \ R
  BY <1>2, <1>3, <1>5, <1>7
<1>9. \A d \in Fat : u.next[d] = t.next[d]
  BY <1>3, <1>5, <1>7
<1> QED BY <1>8, <1>9 DEF Stays, TableOK

\* removeObject of what exists, and what it tells of other cases.
LEMMA RemoveSays ==
    ASSUME NEW w, WorldOK(w), NEW p, NEW x, x = RemoveObject(w, p)
    PROVE  \/ x = Ill(w)
           \/ /\ ~w.pg[p].exists => "again" \in x.mishaps
              /\ Held(p) # {} => "held" \in x.mishaps
              /\ w.pg[p].cluster # End
<1>1. PICK c : c = w.pg[p].cluster
  OBVIOUS
<1>2. x = IF c = End \/ Loops(w.t, c) THEN Ill(w) ELSE RemovedAt(w, p, c)
  BY <1>1, RemoveIs
<1>3. CASE c = End \/ Loops(w.t, c)
  BY <1>2, <1>3
<1>4. CASE ~ (c = End \/ Loops(w.t, c))
  <2>1. PICK ms : ms = w.mishaps \cup (IF w.pg[p].exists THEN {} ELSE {"again"})
                    \cup (IF Held(p) = {} THEN {} ELSE {"held"})
    OBVIOUS
  <2>2. x.mishaps = ms
    BY <1>2, <1>4, <2>1 DEF RemovedAt, World
  <2> QED BY <1>1, <1>4, <2>1, <2>2
<1> QED BY <1>3, <1>4

LEMMA RemoveDoes ==
    ASSUME NEW w, WorldOK(w), NEW p \in Page, w.pg[p] # Blank, w.pg[p].name # Dot,
           NEW R, R = Own(w.t, w.pg, p), R \subseteq w.t.used, w.pg[p].exists,
           NEW x, x = RemoveObject(w, p), x # Ill(w)
    PROVE  /\ WorldOK(x) /\ x.well = w.well /\ w.mishaps \subseteq x.mishaps
           /\ x.t.used = w.t.used \ R /\ Stays(w.t, x.t, R)
           /\ \A q \in Page : q # p => x.pg[q] = w.pg[q]
           /\ x.pg[p] # Blank /\ ~x.pg[p].exists /\ x.pg[p].name = w.pg[p].name
           /\ x.pg[p].kind = w.pg[p].kind /\ x.pg[p].cluster = w.pg[p].cluster
           /\ x.pg[p].length = w.pg[p].length
<1>1. PICK c : c = w.pg[p].cluster
  OBVIOUS
<1>2. x = RemovedAt(w, p, c) /\ c # End
  BY <1>1, RemoveIs
<1>3. EntryFits(w.pg[p]) /\ PagesOK(w.pg) /\ TableOK(w.t)
  BY DEF WorldOK, PagesOK
<1>4. c \in Fat
  BY <1>1, <1>2, <1>3 DEF EntryFits, Entry
<1>5. R = Reached(w.t, c)
  BY <1>1 DEF Own
<1>6. LastOf(w.t, c) \in w.t.used
  BY <1>3, <1>4, <1>5, LastIs
<1>7. PICK u : u = Removed(w.t, c)
  OBVIOUS
<1>8. PICK a : a = Altered(w.pg, p, Toggled(w.pg[p]))
  OBVIOUS
<1>20. PICK ms : ms = (w.mishaps \cup (IF w.pg[p].exists THEN {} ELSE {"again"})
                        \cup (IF Held(p) = {} THEN {} ELSE {"held"}))
  OBVIOUS
<1>9. x = World(u, a, w.well, ms)
  <2>2. (IF LastOf(w.t, c) \in w.t.used THEN Altered(w.pg, p, Toggled(w.pg[p])) ELSE w.pg) = a
    BY <1>6, <1>8
  <2> QED BY <1>2, <1>7, <1>20, <2>2 DEF RemovedAt
<1>10. x.t = u /\ x.pg = a /\ x.well = w.well /\ w.mishaps \subseteq x.mishaps
  BY <1>9, <1>20 DEF World
<1>11. WorldOK(x)
  BY RemoveOK
<1>12. u.used = w.t.used \ R /\ Stays(w.t, u, R)
  BY <1>3, <1>4, <1>5, <1>7, RemovedIs
<1>13. a[p] = Toggled(w.pg[p]) /\ a[p] # Blank /\ \A q \in Page : q # p => a[q] = w.pg[q]
  BY <1>3, <1>8, RemovePagesOK
<1>14. PICK e : e = w.pg[p]
  OBVIOUS
<1>15. PICK b \in BOOLEAN : b = ~ e.exists
  OBVIOUS
<1>16. PICK g : g = [e EXCEPT !.exists = b]
  OBVIOUS
<1>17. g.name = e.name /\ g.cluster = e.cluster /\ g.length = e.length /\ g.exists = b
       /\ g.kind = e.kind
  BY <1>3, <1>14, <1>16, ExistsFits
<1>18. Toggled(e) = g
  BY <1>15, <1>16 DEF Toggled
<1>19. b = FALSE
  BY <1>14, <1>15
<1> QED BY <1>10, <1>11, <1>12, <1>13, <1>14, <1>17, <1>18, <1>19

\* The image behind a page that changes alone.
LEMMA OnlyPage ==
    ASSUME NEW t, NEW pg, Image(t, pg), NEW p \in Page, NEW pq, PageOK(pq[p]),
           \A q \in Page : q # p => pq[q] = pg[q]
    PROVE  Elsewhere(t, pg, pq, p) /\ \A q \in Page : pq[q] # Blank => PageOK(pq[q])
<1>1. \A d \in DirsIn(t, pg) : \A i \in 0 .. pg[d].length - 1 : Spot(t, pg, d, i) \in Page
  BY SpotIs DEF Image
<1>2. Elsewhere(t, pg, pq, p)
  BY <1>1 DEF Elsewhere
<1>3. \A q \in Page : pq[q] # Blank => PageOK(pq[q])
  BY DEF Image
<1> QED BY <1>2, <1>3

\* A file is removed; it may be open, and then this is noted.
Removing(w, p, x) ==
    /\ WorldOK(w) /\ Image(w.t, w.pg) /\ p \in FilesIn(w.t, w.pg)
    /\ x = RemoveObject(w, p) /\ x # Ill(w)
Gone(w, p, x) ==
    /\ WorldOK(x) /\ x.well = w.well /\ w.mishaps \subseteq x.mishaps
    /\ Held(p) = {} \/ "held" \in x.mishaps
    /\ Image(x.t, x.pg) /\ DirsIn(x.t, x.pg) = DirsIn(w.t, w.pg)
    /\ FilesIn(x.t, x.pg) = FilesIn(w.t, w.pg) \ {p}
    /\ \A q \in OwnersIn(w.t, w.pg) :
          q # p => x.pg[q] = w.pg[q] /\ Own(x.t, x.pg, q) = Own(w.t, w.pg, q)
    /\ \A d \in DirsIn(w.t, w.pg) :
          /\ KidsAt(x.t, x.pg, d) = KidsAt(w.t, w.pg, d)
          /\ \A i : Spot(x.t, x.pg, d, i) = Spot(w.t, w.pg, d, i)
    /\ \A q \in Page : q # p => x.pg[q] = w.pg[q]
    /\ ~x.pg[p].exists /\ x.pg[p].name = w.pg[p].name
    /\ Lossless(w.t, w.pg) => Lossless(x.t, x.pg)

LEMMA FileRemoved ==
    ASSUME NEW w, NEW p, NEW x, Removing(w, p, x)
    PROVE  Gone(w, p, x)
<1>0. /\ WorldOK(w) /\ Image(w.t, w.pg) /\ p \in FilesIn(w.t, w.pg)
      /\ x = RemoveObject(w, p) /\ x # Ill(w)
  BY DEF Removing
<1>1. PICK t : t = w.t
  OBVIOUS
<1>2. PICK pg : pg = w.pg
  OBVIOUS
<1>3. Image(t, pg) /\ p \in KidFiles(t, pg) /\ pg[p].exists /\ FileOK(t, pg, p)
  BY <1>0, <1>1, <1>2 DEF FilesIn, Image
<1>4. p \in Page /\ pg[p] # Blank /\ pg[p].kind = "file" /\ pg[p].name \in Files
      /\ pg[p].name # Dot
  BY <1>3, FileSpot
<1>5. PICK R : R = Own(t, pg, p)
  OBVIOUS
<1>6. R \subseteq t.used /\ Had(t, pg, p) = R
  BY <1>3, <1>5 DEF FileOK, Had
<1>7. /\ WorldOK(x) /\ x.well = w.well /\ w.mishaps \subseteq x.mishaps
      /\ x.t.used = t.used \ R /\ Stays(t, x.t, R)
      /\ \A q \in Page : q # p => x.pg[q] = pg[q]
      /\ x.pg[p] # Blank /\ ~x.pg[p].exists /\ x.pg[p].name = pg[p].name
      /\ x.pg[p].kind = pg[p].kind /\ x.pg[p].cluster = pg[p].cluster
      /\ x.pg[p].length = pg[p].length
  BY <1>0, <1>1, <1>2, <1>3, <1>4, <1>5, <1>6, RemoveDoes
<1>8. PICK u, pq : u = x.t /\ pq = x.pg
  OBVIOUS
<1>9. TableOK(u) /\ PagesOK(pq)
  BY <1>7, <1>8 DEF WorldOK
<1>10. pg[p].cluster # End /\ (Held(p) = {} \/ "held" \in x.mishaps)
  BY <1>0, <1>1, <1>2, RemoveSays
<1>11. PageOK(pq[p])
  <2>1. PageOK(pg[p])
    BY <1>3, <1>4 DEF Image
  <2> QED BY <1>7, <1>8, <1>10, <2>1 DEF PageOK
<1>12. Elsewhere(t, pg, pq, p) /\ \A q \in Page : pq[q] # Blank => PageOK(pq[q])
  BY <1>3, <1>4, <1>7, <1>8, <1>11, OnlyPage
<1>13. FileNow(t, pg, u, pq, p)
  BY <1>4, <1>7, <1>8 DEF FileNow
<1>14. /\ Image(u, pq) /\ DirsIn(u, pq) = DirsIn(t, pg)
       /\ FilesIn(u, pq) = (FilesIn(t, pg) \ {p}) \cup (IF pq[p].exists THEN {p} ELSE {})
       /\ \A q \in OwnersIn(t, pg) :
             q # p => pq[q] = pg[q] /\ Own(u, pq, q) = Own(t, pg, q)
       /\ \A d \in DirsIn(t, pg) :
             /\ KidsAt(u, pq, d) = KidsAt(t, pg, d)
             /\ \A i : Spot(u, pq, d, i) = Spot(t, pg, d, i)
  BY <1>3, <1>6, <1>7, <1>8, <1>9, <1>12, <1>13, FileChanged
<1>15. Lossless(t, pg) => Lossless(u, pq)
  <2>1. SUFFICES ASSUME Lossless(t, pg) PROVE Lossless(u, pq)
    OBVIOUS
  <2>2. u.used = (t.used \ Had(t, pg, p)) \cup (IF pq[p].exists THEN Own(u, pq, p) ELSE {})
    BY <1>6, <1>7, <1>8
  <2> QED BY <1>3, <1>14, <2>1, <2>2, FileLossless
<1> QED BY <1>1, <1>2, <1>7, <1>8, <1>10, <1>14, <1>15 DEF Gone

LEMMA LeavesKeeps ==
    ASSUME Kept, NEW w, NEW more, Leaves(w, more), mishaps \subseteq w.mishaps,
           Image(w.t, w.pg), Lossless(card, page) => Lossless(w.t, w.pg)
    PROVE  Whole' /\ (Holding(w.t, w.pg, handle) => Kept')
<1>1. CASE ~w.well
  BY <1>1, AstrayWhole DEF Leaves
<1>2. CASE w.well
  <2>1. card' = w.t /\ page' = w.pg /\ mishaps \subseteq mishaps' /\ event' = Quiet
        /\ handle' = handle
    BY <1>2 DEF Leaves
  <2>2. "dropped" \notin mishaps' => Lossless(w.t, w.pg)
    BY <2>1 DEF Kept
  <2> QED BY <2>1, <2>2, QuietFits DEF Kept, Whole
<1> QED BY <1>1, <1>2

LEMMA RemoveKeeps ==
    ASSUME AlwaysFits, Kept, NEW path \in Paths, Remove(path),
           {"buried", "again"} \cap mishaps' = {}
    PROVE  Whole' /\ ("held" \notin mishaps' => Kept')
<1>1. PICK p : p = Lookup(card, page, path)
  OBVIOUS
<1>2. PICK w : w = Before
  OBVIOUS
<1>3. WorldOK(w) /\ w.pg = page /\ w.t = card /\ w.mishaps = mishaps /\ w.well
  BY <1>2, BeforeOK
<1>4. PICK x : x = RemoveObject(w, p)
  OBVIOUS
<1>5. p \in Page /\ Leaves(x, Buried(path))
  BY <1>1, <1>2, <1>4 DEF Remove
<1>6. CASE x = Ill(w)
  <2>1. ~x.well
    BY <1>3, <1>6, IllOK
  <2>2. GoAstray
    BY <1>5, <2>1 DEF Leaves
  <2> QED BY <2>2, AstrayWhole
<1>7. CASE x # Ill(w)
  <2>1. ~w.pg[p].exists => "again" \in x.mishaps
    BY <1>3, <1>4, <1>7, RemoveSays
  <2>2. CASE ~x.well
    BY <1>5, <2>2, AstrayWhole DEF Leaves
  <2>3. CASE x.well
    <3>1. mishaps' = x.mishaps \cup Buried(path)
      BY <1>5, <2>3 DEF Leaves
    <3>2. page[p].exists /\ "buried" \notin Buried(path)
      BY <1>3, <2>1, <3>1
    <3>3. p \in FilesIn(card, page)
      BY <1>1, <1>5, <3>2, PathKid
    <3>4. Image(card, page) /\ Holding(card, page, handle)
      BY DEF Kept
    <3>5. /\ mishaps \subseteq x.mishaps /\ Image(x.t, x.pg)
          /\ Held(p) = {} \/ "held" \in x.mishaps
          /\ FilesIn(x.t, x.pg) = FilesIn(card, page) \ {p}
          /\ \A q \in OwnersIn(card, page) :
                q # p => x.pg[q] = page[q] /\ Own(x.t, x.pg, q) = Own(card, page, q)
          /\ Lossless(card, page) => Lossless(x.t, x.pg)
      <4>1. Image(w.t, w.pg) /\ p \in FilesIn(w.t, w.pg)
        BY <1>3, <3>3, <3>4
      <4>2. /\ w.mishaps \subseteq x.mishaps /\ Image(x.t, x.pg)
            /\ Held(p) = {} \/ "held" \in x.mishaps
            /\ FilesIn(x.t, x.pg) = FilesIn(w.t, w.pg) \ {p}
            /\ \A q \in OwnersIn(w.t, w.pg) :
                  q # p => x.pg[q] = w.pg[q] /\ Own(x.t, x.pg, q) = Own(w.t, w.pg, q)
            /\ Lossless(w.t, w.pg) => Lossless(x.t, x.pg)
        BY <1>3, <1>4, <1>7, <4>1, FileRemoved DEF Removing, Gone
      <4> QED BY <1>3, <4>2
    <3>6. ASSUME "held" \notin mishaps' PROVE Holding(x.t, x.pg, handle)
      <4>1. ASSUME NEW g \in Handles, handle[g].entry # Nowhere, NEW q, q = handle[g].entry
            PROVE  /\ q \in FilesIn(x.t, x.pg) /\ x.pg[q].cluster = page[q].cluster
                   /\ x.pg[q].length = page[q].length /\ Own(x.t, x.pg, q) = Own(card, page, q)
        <5>1. Held(p) = {}
          BY <3>1, <3>5, <3>6
        <5>2. q \in FilesIn(card, page) /\ q # p
          BY <3>4, <4>1, <5>1 DEF Holding, Holds, Held
        <5> QED BY <3>5, <5>2 DEF OwnersIn
      <4> QED BY <3>4, <4>1, HoldingKept
    <3> QED BY <1>5, <3>5, <3>6, LeavesKeeps
  <2> QED BY <2>2, <2>3
<1> QED BY <1>6, <1>7

LEMMA RenameKeeps ==
    ASSUME AlwaysFits, Kept, NEW path \in Paths, NEW n \in setup.names, Rename(path, n),
           "buried" \notin mishaps'
    PROVE  Kept'
<1>1. PICK p : p = Lookup(card, page, path)
  OBVIOUS
<1>2. /\ p \in Page /\ page' = [page EXCEPT ![p].name = n]
      /\ mishaps' = mishaps \cup Buried(path) /\ event' = Quiet
      /\ UNCHANGED <<card, handle, setup, astray>>
  BY <1>1 DEF Rename
<1>3. PICK e : e = page[p]
  OBVIOUS
<1>4. /\ p \in KidFiles(card, page) /\ e # Blank /\ e.kind = "file"
      /\ e.name \in Files /\ EntryFits(e) /\ PageOK(e)
      /\ (e.exists => p \in FilesIn(card, page))
  BY <1>1, <1>2, <1>3, PathKid
<1>5. Image(card, page) /\ Holding(card, page, handle) /\ TableOK(card) /\ PagesOK(page)
  BY DEF Kept, AlwaysFits
<1>6. n \in Files
  BY NamesAre DEF AlwaysFits
<1>7. PICK g : g = [e EXCEPT !.name = n]
  OBVIOUS
<1>8. EntryFits(g) /\ g.name = n /\ g.cluster = e.cluster /\ g.length = e.length
      /\ g.exists = e.exists /\ g.kind = e.kind
  BY <1>4, <1>6, <1>7, NameFits
<1>9. PICK pq : pq = page'
  OBVIOUS
<1>10. pq[p] = g /\ (\A q \in Page : q # p => pq[q] = page[q]) /\ g # Blank
  <2>1. pq = Altered(page, p, g)
    BY <1>2, <1>3, <1>7, <1>9 DEF Altered
  <2>2. pq[p] = g /\ \A q \in Page : q # p => pq[q] = page[q]
    BY <1>2, <1>5, <2>1 DEF Altered, PagesOK
  <2> QED BY <1>8, <2>2, BlankAssumption DEF EntryFits
<1>11. PagesOK(pq)
  <2>1. AlwaysFits'
    BY RenameFits
  <2> QED BY <1>9, <2>1 DEF AlwaysFits
<1>12. PageOK(pq[p])
  BY <1>4, <1>6, <1>8, <1>10 DEF PageOK
<1>13. Elsewhere(card, page, pq, p) /\ \A q \in Page : pq[q] # Blank => PageOK(pq[q])
  BY <1>2, <1>5, <1>10, <1>12, OnlyPage
<1>14. Own(card, pq, p) = Own(card, page, p)
  BY <1>3, <1>8, <1>10 DEF Own
<1>15. e.exists => FileOK(card, page, p)
  BY <1>4, <1>5 DEF Image
<1>16. FileNow(card, page, card, pq, p)
  <2>1. e.exists => FileOK(card, pq, p)
    BY <1>3, <1>8, <1>10, <1>14, <1>15 DEF FileOK
  <2>2. e.exists => Own(card, pq, p) \cap (card.used \ Had(card, page, p)) = {}
    BY <1>3, <1>14 DEF Had
  <2> QED BY <1>4, <1>6, <1>8, <1>10, <2>1, <2>2 DEF FileNow
<1>17. Stays(card, card, Had(card, page, p))
  BY DEF Stays
<1>18. /\ Image(card, pq) /\ DirsIn(card, pq) = DirsIn(card, page)
       /\ FilesIn(card, pq) = (FilesIn(card, page) \ {p}) \cup (IF pq[p].exists THEN {p} ELSE {})
       /\ \A q \in OwnersIn(card, page) :
             q # p => pq[q] = page[q] /\ Own(card, pq, q) = Own(card, page, q)
  BY <1>4, <1>5, <1>11, <1>13, <1>16, <1>17, FileChanged
<1>19. Lossless(card, page) => Lossless(card, pq)
  <2>1. SUFFICES ASSUME Lossless(card, page) PROVE Lossless(card, pq)
    OBVIOUS
  <2>2. card.used = (card.used \ Had(card, page, p)) \cup (IF pq[p].exists THEN Own(card, pq, p) ELSE {})
    BY <1>3, <1>8, <1>10, <1>14, <1>15 DEF Had, FileOK
  <2> QED BY <1>4, <1>5, <1>18, <2>1, <2>2, FileLossless
<1>20. Holding(card, pq, handle)
  <2>1. ASSUME NEW h \in Handles, handle[h].entry # Nowhere, NEW q, q = handle[h].entry
        PROVE  /\ q \in FilesIn(card, pq) /\ pq[q].cluster = page[q].cluster
               /\ pq[q].length = page[q].length /\ Own(card, pq, q) = Own(card, page, q)
    <3>1. q \in FilesIn(card, page) /\ q \in OwnersIn(card, page)
      BY <1>5, <2>1 DEF Holding, Holds, OwnersIn
    <3>2. CASE q = p
      <4>1. pq[p].exists
        BY <1>3, <1>8, <1>10, <3>1, <3>2 DEF FilesIn
      <4> QED BY <1>3, <1>8, <1>10, <1>14, <1>18, <3>2, <4>1
    <3>3. CASE q # p
      BY <1>18, <3>1, <3>3
    <3> QED BY <3>2, <3>3
  <2> QED BY <1>5, <2>1, HoldingKept
<1>21. "dropped" \notin mishaps' => Lossless(card, pq)
  BY <1>2, <1>19 DEF Kept
<1> QED BY <1>2, <1>9, <1>18, <1>20, <1>21, QuietFits DEF Kept

-----------------------------------------------------------------------------
(***************************************************************************)
(* Folders.                                                                *)
(***************************************************************************)
LEMMA FolderPages ==
    ASSUME NEW pg, PagesOK(pg), NEW q \in Page, q # RootEntry, NEW n \in Folders,
           pg[RootEntry].length < MaxEntries + 2, NEW own \in Fat \ {Root},
           q \notin {<<own, 0>>, <<own, 1>>}, NEW e, e = Made("folder", n, End, 0),
           NEW b, b = FolderGrown(pg, q, e, RootEntry, own)
    PROVE  /\ b[q] = Made("folder", n, own, 2) /\ b[RootEntry] = Longer(pg[RootEntry])
           /\ b[<<own, 0>>] = Made("folder", Dot, pg[RootEntry].cluster, 0)
           /\ b[<<own, 1>>] = Made("folder", Dot, Root, 0)
           /\ \A p \in Page : p \notin {q, RootEntry, <<own, 0>>, <<own, 1>>} => b[p] = pg[p]
<1>1. PICK m : m = [e EXCEPT !.cluster = own, !.length = 2]
  OBVIOUS
<1>2. m = Made("folder", n, own, 2)
  BY <1>1 DEF Made
<1>3. EntryFits(m)
  <2>1. 2 \in Nat /\ 2 <= MaxEntries + 2
    BY ClustersAre
  <2> QED BY <1>2, <2>1, MadeFits, ZenonT(40)
<1>4. PICK a : a = Grown(pg, q, m, RootEntry)
  OBVIOUS
<1>5. pg[RootEntry] # Blank /\ pg[RootEntry].name \notin Files /\ RootEntry \in Page
  BY VmcAssumption, PagesAre DEF PagesOK, RootKept
<1>6. /\ PagesOK(a) /\ a[RootEntry] = Longer(pg[RootEntry]) /\ a[q] = m
      /\ \A r \in Page : r \notin {RootEntry, q} => a[r] = pg[r]
  BY <1>3, <1>4, <1>5, GrownOK
<1>7. PICK o, oo : o = <<own, 0>> /\ oo = <<own, 1>>
  OBVIOUS
<1>8. o \in Page /\ oo \in Page /\ o # oo /\ o # RootEntry /\ oo # RootEntry
      /\ q \notin {o, oo}
  BY <1>7, PagesAre
<1>9. PICK dot, dots : /\ dot = Made("folder", Dot, pg[RootEntry].cluster, 0)
                       /\ dots = Made("folder", Dot, Root, 0)
  OBVIOUS
<1>10. b = [a EXCEPT ![o] = dot, ![oo] = dots]
  BY <1>1, <1>4, <1>7, <1>9 DEF FolderGrown
<1>11. a = [p \in Page |-> a[p]]
  BY <1>6 DEF PagesOK
<1>12. b[o] = dot /\ b[oo] = dots /\ \A p \in Page : p \notin {o, oo} => b[p] = a[p]
  BY <1>8, <1>10, <1>11
<1> QED BY <1>2, <1>5, <1>6, <1>7, <1>8, <1>9, <1>12

\* A hidden folder of the root directory, its clusters and its entries come to light.
Showing(t, pg, r, u, pq) ==
    /\ Image(t, pg) /\ r \in KidsAt(t, pg, RootEntry) /\ pg[r].kind # "file" /\ ~pg[r].exists
    /\ TableOK(u) /\ PagesOK(pq) /\ \A q \in Page : pq[q] # Blank => PageOK(pq[q])
    /\ Elsewhere(t, pg, pq, r) /\ Stays(t, u, {})
    /\ pq[r] # Blank /\ pq[r].name # Dot /\ pq[r].kind = "folder" /\ pq[r].exists
    /\ DirOK(u, pq, r) /\ Own(u, pq, r) \cap t.used = {}
    /\ \A q \in KidsAt(u, pq, r) : pq[q].kind = "file" /\ ~pq[q].exists

Shown(t, pg, r, u, pq) ==
    /\ Image(u, pq) /\ DirsIn(u, pq) = DirsIn(t, pg) \cup {r}
    /\ FilesIn(u, pq) = FilesIn(t, pg)
    /\ \A q \in OwnersIn(t, pg) :
          q # r /\ pq[q] = pg[q] /\ Own(u, pq, q) = Own(t, pg, q)

LEMMA ShowsFolder ==
    ASSUME NEW t, NEW pg, NEW r, NEW u, NEW pq, Showing(t, pg, r, u, pq)
    PROVE  Shown(t, pg, r, u, pq)
BY FolderShown DEF Showing, Shown

\* No cluster is lost when a folder comes with its own.
LEMMA ShownLossless ==
    ASSUME NEW t, NEW pg, Lossless(t, pg), NEW u, NEW pq, NEW r,
           u.used = t.used \cup Own(u, pq, r), DirsIn(u, pq) = DirsIn(t, pg) \cup {r},
           FilesIn(u, pq) = FilesIn(t, pg),
           \A q \in OwnersIn(t, pg) : Own(u, pq, q) = Own(t, pg, q)
    PROVE  Lossless(u, pq)
<1>1. OwnersIn(u, pq) = OwnersIn(t, pg) \cup {r}
  BY DEF OwnersIn
<1>2. u.used = UNION {Own(u, pq, p) : p \in OwnersIn(u, pq)}
  BY <1>1 DEF Lossless
<1> QED BY <1>2 DEF Lossless

\* A spot of a directory is in an allocated cluster.
LEMMA SpotUsed ==
    ASSUME NEW t, NEW pg, Image(t, pg), NEW d \in DirsIn(t, pg), NEW i \in 0 .. pg[d].length - 1
    PROVE  \E c \in t.used, k \in {0, 1} : c \in Own(t, pg, d) /\ Spot(t, pg, d, i) = <<c, k>>
<1>1. DirOK(t, pg, d)
  BY DEF Image
<1>2. PICK c : c = Walk(t, pg[d].cluster)[i \div 2]
  OBVIOUS
<1>3. Spot(t, pg, d, i) = <<c, i % 2>> /\ c \in Own(t, pg, d)
  BY <1>1, <1>2, SpotIs
<1>4. c \in t.used
  BY <1>1, <1>3 DEF DirOK, Owned, Own
<1>5. i % 2 \in {0, 1}
  BY <1>1 DEF DirOK
<1> QED BY <1>3, <1>4, <1>5

\* A folder that is made, with a cluster of its own.
MakesFolder(t, pg, x, place, own, n, e, u, b) ==
    /\ Image(t, pg) /\ pg[RootEntry].length < MaxEntries + 2
    /\ x = Extended(t, TailOf(t, pg[RootEntry]), pg[RootEntry])
    /\ ~ (Full(pg[RootEntry]) /\ x.got = 0)
    /\ place = <<x.last, pg[RootEntry].length % 2>>
    /\ FreeFrom(x.t) # {} /\ own = Found(x.t)
    /\ e = Made("folder", n, End, 0) /\ u = SetEof(Taken(x.t), own)
    /\ b = FolderGrown(pg, place, e, RootEntry, own) /\ PagesOK(b)

LEMMA FolderMade ==
    ASSUME setup \in Setups, NEW t, NEW pg, NEW x, NEW place, NEW own, NEW n \in Folders,
           NEW e, NEW u, NEW b, MakesFolder(t, pg, x, place, own, n, e, u, b)
    PROVE  /\ Image(u, b) /\ FilesIn(u, b) = FilesIn(t, pg)
           /\ \A q \in FilesIn(t, pg) : b[q] = pg[q] /\ Own(u, b, q) = Own(t, pg, q)
           /\ Lossless(t, pg) => Lossless(u, b)
<1> USE DEF MakesFolder
<1>1. RootEntry \in DirsIn(t, pg) /\ PagesOK(pg) /\ n # Dot /\ n \notin Files
  BY VmcAssumption, RootSpot DEF Image
<1>2. PICK e1 : e1 = Made("folder", n, own, 2)
  OBVIOUS
<1>3. PICK e0 : e0 = [e1 EXCEPT !.exists = FALSE]
  OBVIOUS
<1>4. x.t.used \in SUBSET Fat /\ TableOK(x.t)
  <2>1. DirOK(t, pg, RootEntry) /\ TableOK(t)
    BY RootSpot DEF Image
  <2>2. PICK c, m : c = pg[RootEntry].cluster /\ m = pg[RootEntry].length
    OBVIOUS
  <2>3. TableOK(x.t)
    BY <2>1, <2>2, NextSpot
  <2> QED BY <2>3 DEF TableOK
<1>5. own \in Fat \ {Root} /\ own \notin x.t.used
  BY <1>4, FoundIs DEF TableOK
<1>6. EntryFits(e1) /\ e1.name = n /\ e1.kind = "folder" /\ e1.exists /\ e1.length = 2
      /\ e1.cluster = own
  BY <1>2, <1>5, MadeFits, ClustersAre
<1>7. EntryFits(e0) /\ e0.name = n /\ e0.kind = "folder" /\ ~e0.exists /\ e0.length = 2
  <2>1. PICK f \in BOOLEAN : f = FALSE
    OBVIOUS
  <2> QED BY <1>3, <1>6, <2>1, ExistsFits
<1>8. PageOK(e0) /\ NewEntry(e0, RootEntry)
  BY <1>1, <1>7, BlankAssumption, ClustersAre DEF PageOK, NewEntry, EntryFits
<1>9. PICK a : a = Grown(pg, place, e0, RootEntry)
  OBVIOUS
<1>10. /\ t.used \subseteq x.t.used
       /\ place \in Page /\ place # RootEntry
       /\ a[place] = e0 /\ a[RootEntry] = Longer(pg[RootEntry])
       /\ \A q \in Page : q \notin {place, RootEntry} => a[q] = pg[q]
       /\ Image(x.t, a) /\ DirsIn(x.t, a) = DirsIn(t, pg)
       /\ place \in KidsAt(x.t, a, RootEntry) /\ FilesIn(x.t, a) = FilesIn(t, pg)
       /\ \A q \in FilesIn(t, pg) : a[q] = pg[q] /\ Own(x.t, a, q) = Own(t, pg, q)
       /\ Lossless(t, pg) => Lossless(x.t, a)
  <2>1. /\ t.used \subseteq x.t.used
        /\ place \in Page /\ place # RootEntry
        /\ a[place] = e0 /\ a[RootEntry] = Longer(pg[RootEntry])
        /\ \A q \in Page : q \notin {place, RootEntry} => a[q] = pg[q]
        /\ Image(x.t, a) /\ DirsIn(x.t, a) = DirsIn(t, pg)
        /\ place \in KidsAt(x.t, a, RootEntry)
        /\ FilesIn(x.t, a) = FilesIn(t, pg) \cup (IF e0.kind = "file" THEN {place} ELSE {})
        /\ \A q \in FilesIn(t, pg) : a[q] = pg[q] /\ Own(x.t, a, q) = Own(t, pg, q)
        /\ Lossless(t, pg) => Lossless(x.t, a)
    <3>1. Growing(t, pg, RootEntry, x, place, e0, a)
      BY <1>1, <1>7, <1>8, <1>9 DEF Growing
    <3>2. GrewBy(t, pg, RootEntry, x.t, place, e0, a)
      BY <3>1, EntryGrew
    <3> QED BY <3>2 DEF GrewBy
  <2>2. e0.kind # "file"
    BY <1>7
  <2> QED BY <2>1, <2>2
<1>11. PICK o, oo : o = <<own, 0>> /\ oo = <<own, 1>>
  OBVIOUS
<1>12. \A d \in DirsIn(x.t, a) : \A i \in 0 .. a[d].length - 1 :
          Spot(x.t, a, d, i) \in Page /\ Spot(x.t, a, d, i) \notin {o, oo}
  <2>1. SUFFICES ASSUME NEW d \in DirsIn(x.t, a), NEW i \in 0 .. a[d].length - 1
                 PROVE  Spot(x.t, a, d, i) \in Page /\ Spot(x.t, a, d, i) \notin {o, oo}
    OBVIOUS
  <2>2. PICK c \in x.t.used, k \in {0, 1} : Spot(x.t, a, d, i) = <<c, k>>
    BY <1>10, SpotUsed
  <2>3. c \in Fat /\ c # own
    BY <1>4, <1>5
  <2>4. <<c, k>> # <<own, 0>> /\ <<c, k>> # <<own, 1>>
    BY <2>3
  <2>5. <<c, k>> \in Page
    BY <2>3 DEF Page
  <2> QED BY <1>11, <2>2, <2>4, <2>5
<1>13. place \notin {o, oo}
  <2>1. PICK i \in 2 .. a[RootEntry].length - 1 :
           i \in 0 .. a[RootEntry].length - 1 /\ place = Spot(x.t, a, RootEntry, i)
    BY <1>1, <1>10, KidSpot
  <2> QED BY <1>1, <1>10, <1>12, <2>1
<1>14. /\ b[place] = e1 /\ b[RootEntry] = Longer(pg[RootEntry])
       /\ b[o] = Made("folder", Dot, pg[RootEntry].cluster, 0)
       /\ b[oo] = Made("folder", Dot, Root, 0)
       /\ \A p \in Page : p \notin {place, RootEntry, o, oo} => b[p] = pg[p]
  <2>1. place \notin {<<own, 0>>, <<own, 1>>}
    BY <1>11, <1>13
  <2>2. /\ b[place] = Made("folder", n, own, 2) /\ b[RootEntry] = Longer(pg[RootEntry])
        /\ b[<<own, 0>>] = Made("folder", Dot, pg[RootEntry].cluster, 0)
        /\ b[<<own, 1>>] = Made("folder", Dot, Root, 0)
        /\ \A p \in Page : p \notin {place, RootEntry, <<own, 0>>, <<own, 1>>} => b[p] = pg[p]
    <3>1. PagesOK(pg) /\ place \in Page /\ place # RootEntry /\ own \in Fat \ {Root}
      BY <1>1, <1>5, <1>10
    <3> QED BY <2>1, <3>1, FolderPages
  <2> QED BY <1>2, <1>11, <2>2
<1>15. /\ b[o].length = 0 /\ b[oo].length = 0
       /\ b[o].name = Dot /\ b[oo].name = Dot /\ b[o].kind = "folder" /\ b[oo].kind = "folder"
       /\ b[o] # Blank /\ b[oo] # Blank /\ o \in Page /\ oo \in Page
  <2>1. /\ b[o].name = Dot /\ b[oo].name = Dot /\ b[o].kind = "folder" /\ b[oo].kind = "folder"
        /\ b[o].length = 0 /\ b[oo].length = 0
    BY <1>14, SMTT(60) DEF Made
  <2>2. pg[RootEntry].cluster \in Fat /\ Root \in Fat /\ 0 \in Nat /\ 0 <= MaxEntries + 2
    <3>1. RootKept(pg) /\ Root \in Fat
      BY <1>1, ClustersAre DEF PagesOK
    <3>2. 0 \in Nat /\ 0 <= MaxEntries + 2
      BY ClustersAre
    <3> QED BY <3>1, <3>2 DEF RootKept
  <2>3. PICK dot, dots : /\ dot = Made("folder", Dot, pg[RootEntry].cluster, 0)
                         /\ dots = Made("folder", Dot, Root, 0)
    OBVIOUS
  <2>4. EntryFits(dot)
    BY <2>2, <2>3, MadeFits, ZenonT(40)
  <2>5. EntryFits(dots)
    BY <2>2, <2>3, MadeFits, ZenonT(40)
  <2>6. dot # Blank /\ dots # Blank
    BY <2>4, <2>5, BlankAssumption DEF EntryFits
  <2> QED BY <1>5, <1>11, <1>14, <2>1, <2>3, <2>6, PagesAre
<1>16. \A p \in Page : p \notin {place, o, oo} => b[p] = a[p]
  BY <1>10, <1>14
<1>17. \A q \in Page : b[q] # Blank => PageOK(b[q])
  <2>1. SUFFICES ASSUME NEW q \in Page, b[q] # Blank PROVE PageOK(b[q])
    OBVIOUS
  <2>2. CASE q = place
    BY <1>1, <1>6, <1>14, <2>2, ClustersAre, SMTT(60) DEF PageOK
  <2>3. CASE q \in {o, oo}
    BY <1>15, <2>3, VmcAssumption, ClustersAre, SMTT(60) DEF PageOK
  <2>4. CASE q \notin {place, o, oo}
    BY <1>10, <1>16, <2>1, <2>4 DEF Image
  <2> QED BY <2>2, <2>3, <2>4
<1>18. Elsewhere(x.t, a, b, place)
  BY <1>12, <1>16 DEF Elsewhere
<1>19. /\ TableOK(u) /\ u.used = x.t.used \cup {own} /\ u.next = Altered(x.t.next, own, End)
  <2>1. PICK v : v = Taken(x.t)
    OBVIOUS
  <2>2. Shaped(v) /\ v.next = x.t.next /\ v.used = x.t.used
    BY <1>4, <2>1, TakenIs DEF TableOK, Sane
  <2>3. TableOK(v)
    BY <1>4, <2>1, TakenOK
  <2> QED BY <1>5, <2>1, <2>2, <2>3, SetEofIs, SetEofOK, SMTT(60)
<1>20. u.next[own] = End /\ \A c \in Fat : c # own => u.next[c] = x.t.next[c]
  BY <1>4, <1>5, <1>19 DEF Altered, TableOK, Sane, Linked
<1>21. Stays(x.t, u, {})
  BY <1>4, <1>5, <1>19, <1>20 DEF Stays
<1>22. Runs(u, own, 1) /\ Walk(u, own)[0] = own
  BY <1>5, <1>20, SingleRun
<1>23. Reached(u, own) = {own}
  <2>0. Linked(u) /\ Ranked(u)
    BY <1>19 DEF TableOK, Sane
  <2>1. Reached(u, own) = {Walk(u, own)[k] : k \in 0 .. 1 - 1}
    BY <1>22, <2>0, RunsIs, SMTT(60)
  <2>2. 0 .. 1 - 1 = {0}
    OBVIOUS
  <2> QED BY <1>22, <2>1, <2>2
<1>24. b[place].cluster = own /\ b[place].length = 2 /\ Own(u, b, place) = {own}
  BY <1>6, <1>14, <1>23, ZenonT(60) DEF Own
<1>25. Spot(u, b, place, 0) = o /\ Spot(u, b, place, 1) = oo
  <2>1. 0 \div 2 = 0 /\ 1 \div 2 = 0 /\ 0 % 2 = 0 /\ 1 % 2 = 1
    OBVIOUS
  <2> QED BY <1>11, <1>22, <1>24, <2>1 DEF Spot, At
<1>26. DirOK(u, b, place)
  <2>1. (2 + 1) \div 2 = 1 /\ 2 \in Nat /\ 2 >= 2 /\ 0 .. 2 - 1 = {0, 1}
    OBVIOUS
  <2>2. Owned(u, own, 1)
    BY <1>19, <1>22, <1>23 DEF Owned
  <2>3. \A i \in 0 .. 1 : b[Spot(u, b, place, i)] # Blank /\ b[Spot(u, b, place, i)].name = Dot
    <3>1. \A i \in 0 .. 1 : i = 0 \/ i = 1
      OBVIOUS
    <3> QED BY <1>15, <1>25, <3>1, ZenonT(60)
  <2>4. \A i \in 0 .. 1 : i < 2
    OBVIOUS
  <2>5. PICK l : l = b[place].length
    OBVIOUS
  <2>6. l = 2 /\ l \in Nat /\ l >= 2 /\ (l + 1) \div 2 = 1 /\ 0 .. l - 1 = 0 .. 1
    BY <1>24, <2>5, SMTT(60)
  <2>7. Owned(u, b[place].cluster, (l + 1) \div 2)
    BY <1>24, <2>2, <2>6
  <2>8. \A i \in 0 .. l - 1 :
           /\ b[Spot(u, b, place, i)] # Blank
           /\ b[Spot(u, b, place, i)].name = Dot <=> i < 2
    BY <2>3, <2>4, <2>6
  <2> QED BY <2>5, <2>6, <2>7, <2>8 DEF DirOK
<1>27. KidsAt(u, b, place) = {}
  <2>1. 2 .. 2 - 1 = {}
    OBVIOUS
  <2> QED BY <1>24, <2>1 DEF KidsAt
<1>28. /\ Image(u, b) /\ DirsIn(u, b) = DirsIn(x.t, a) \cup {place}
       /\ FilesIn(u, b) = FilesIn(x.t, a)
       /\ \A q \in OwnersIn(x.t, a) :
             q # place /\ b[q] = a[q] /\ Own(u, b, q) = Own(x.t, a, q)
  <2>1. a[place].kind # "file" /\ ~a[place].exists
    BY <1>7, <1>10
  <2>2. b[place] # Blank /\ b[place].name # Dot /\ b[place].kind = "folder" /\ b[place].exists
    BY <1>1, <1>6, <1>14, BlankAssumption, ZenonT(60) DEF EntryFits
  <2>3. Own(u, b, place) \cap x.t.used = {}
    BY <1>5, <1>24
  <2>4. \A q \in KidsAt(u, b, place) : b[q].kind = "file" /\ ~b[q].exists
    BY <1>27
  <2>5. Image(x.t, a) /\ place \in KidsAt(x.t, a, RootEntry) /\ TableOK(u)
    BY <1>10, <1>19
  <2>6. Showing(x.t, a, place, u, b)
    BY <1>17, <1>18, <1>21, <1>26, <2>1, <2>2, <2>3, <2>4, <2>5 DEF Showing
  <2>7. Shown(x.t, a, place, u, b)
    BY <2>6, ShowsFolder
  <2> QED BY <2>7 DEF Shown
<1>29. Lossless(x.t, a) => Lossless(u, b)
  <2>1. u.used = x.t.used \cup Own(u, b, place)
    BY <1>19, <1>24
  <2>2. \A q \in OwnersIn(x.t, a) : Own(u, b, q) = Own(x.t, a, q)
    BY <1>28
  <2> QED BY <1>28, <2>1, <2>2, ShownLossless, SMTT(60)
<1>30. \A q \in FilesIn(t, pg) : q \in OwnersIn(x.t, a)
  BY <1>10 DEF OwnersIn
<1> QED BY <1>10, <1>28, <1>29, <1>30

\* Half a folder: the directory has a place for an entry, and no entry in it.
LEMMA HalfSettles ==
    ASSUME setup \in Setups, NEW t, NEW pg, Image(t, pg), NEW d \in DirsIn(t, pg),
           NEW x, x = Extended(t, TailOf(t, pg[d]), pg[d]), ~ (Full(pg[d]) /\ x.got = 0),
           NEW u, u = x.t
    PROVE  Orderly(u, pg) /\ (Lossless(t, pg) => Lossless(u, pg))
<1>1. PICK c : c = pg[d].cluster
  OBVIOUS
<1>2. PICK n : n = pg[d].length
  OBVIOUS
<1>3. DirOK(t, pg, d) /\ TableOK(t) /\ n \in Nat /\ n >= 2 /\ d \in OwnersIn(t, pg)
  BY <1>2 DEF Image, DirOK, OwnersIn
<1>4. /\ Grew(t, u, c)
      /\ \A k \in 0 .. (n + 1) \div 2 - 1 : Walk(u, c)[k] = Walk(t, c)[k]
  BY <1>1, <1>2, <1>3, NextSpot
<1>5. \A f \in OwnersIn(t, pg) : Own(t, pg, f) \subseteq t.used
  BY DEF Image, DirOK, Owned, Own, FileOK, OwnersIn
<1>6. \A f \in OwnersIn(t, pg) : f # d =>
         \A o \in Own(t, pg, f) : o \in u.used /\ u.next[o] = t.next[o]
  <2>1. \A o \in t.used : o \notin Own(t, pg, d) => o \in u.used /\ u.next[o] = t.next[o]
    BY <1>1, <1>4 DEF Grew, Own
  <2> QED BY <1>3, <1>5, <2>1 DEF Image, Apart
<1>7. t.used \subseteq u.used /\ Own(u, pg, d) = Own(t, pg, d) \cup (u.used \ t.used)
  BY <1>1, <1>4 DEF Own, Grew
<1>8. \A f \in OwnersIn(t, pg) : f # d => Own(u, pg, f) = Own(t, pg, f)
  <2>1. SUFFICES ASSUME NEW f \in OwnersIn(t, pg), f # d, NEW b, b = pg[f].cluster
                 PROVE  Reached(u, b) = Reached(t, b)
    BY DEF Own
  <2>2. \A o \in Reached(t, b) : u.next[o] = t.next[o]
    BY <1>6, <2>1 DEF Own
  <2> QED BY <2>2, WalkSame, ZenonT(60)
<1>9. ASSUME NEW f \in DirsIn(t, pg) PROVE KidsAt(u, pg, f) = KidsAt(t, pg, f)
  <2>1. DirOK(t, pg, f) /\ f \in OwnersIn(t, pg)
    BY DEF Image, OwnersIn
  <2>2. CASE f # d
    <3>1. \A i \in 0 .. pg[f].length - 1 : pg[Spot(t, pg, f, i)] # Blank
      BY <2>1 DEF DirOK
    <3> QED BY <1>6, <2>1, <2>2, <3>1, DirKept
  <2>3. CASE f = d
    <3>1. ASSUME NEW i \in 2 .. n - 1 PROVE Spot(u, pg, d, i) = Spot(t, pg, d, i)
      <4>1. i \in 0 .. n - 1
        BY <1>3
      <4>2. i \div 2 \in 0 .. (n + 1) \div 2 - 1
        BY <1>2, <1>3, <4>1, SpotIs
      <4>3. Walk(u, c)[i \div 2] = Walk(t, c)[i \div 2]
        BY <1>4, <4>2
      <4> QED BY <1>1, <4>3 DEF Spot, At
    <3> QED BY <1>2, <2>3, <3>1 DEF KidsAt, Spot
  <2> QED BY <2>2, <2>3
<1>10. RootEntry \in DirsIn(t, pg)
  BY DEF DirsIn
<1>11. FoldersIn(u, pg) = FoldersIn(t, pg)
  BY <1>9, <1>10 DEF FoldersIn
<1>12. DirsIn(u, pg) = DirsIn(t, pg)
  BY <1>11 DEF DirsIn
<1>13. KidFiles(u, pg) = KidFiles(t, pg)
  BY <1>9, <1>12 DEF KidFiles
<1>14. FilesIn(u, pg) = FilesIn(t, pg)
  BY <1>13 DEF FilesIn
<1>15. OwnersIn(u, pg) = OwnersIn(t, pg)
  BY <1>12, <1>14 DEF OwnersIn
<1>16. FilesIn(u, pg) \subseteq Page
  BY <1>14, ImageSettles DEF Orderly
<1>17. ASSUME NEW p \in FilesIn(u, pg) PROVE FileOK(u, pg, p)
  <2>1. p \in OwnersIn(t, pg) /\ p # d /\ FileOK(t, pg, p)
    <3>1. p \in KidFiles(t, pg)
      BY <1>14 DEF FilesIn
    <3> QED BY <1>14, <3>1, FileSpot DEF OwnersIn, Image
  <2> QED BY <1>7, <1>8, <2>1 DEF FileOK
<1>18. ASSUME NEW p \in OwnersIn(t, pg), NEW q \in OwnersIn(t, pg), p # q
       PROVE  Own(u, pg, p) \cap Own(u, pg, q) = {}
  <2>1. Own(t, pg, p) \cap Own(t, pg, q) = {}
    BY <1>18 DEF Image, Apart
  <2> QED BY <1>5, <1>7, <1>8, <1>18, <2>1
<1>19. Apart(u, pg)
  BY <1>15, <1>18 DEF Apart
<1>20. ASSUME Lossless(t, pg) PROVE Lossless(u, pg)
  <2>1. t.used = UNION {Own(t, pg, p) : p \in OwnersIn(t, pg)}
    BY <1>20 DEF Lossless
  <2>2. ASSUME NEW o \in u.used PROVE \E p \in OwnersIn(t, pg) : o \in Own(u, pg, p)
    <3>1. CASE o \in t.used
      <4>1. PICK p \in OwnersIn(t, pg) : o \in Own(t, pg, p)
        BY <2>1, <3>1
      <4>2. o \in Own(u, pg, p)
        BY <1>7, <1>8, <4>1
      <4> QED BY <4>2
    <3>2. CASE o \notin t.used
      BY <1>3, <1>7, <3>2
    <3> QED BY <3>1, <3>2
  <2>3. ASSUME NEW p \in OwnersIn(t, pg) PROVE Own(u, pg, p) \subseteq u.used
    BY <1>5, <1>7, <1>8
  <2>4. u.used = UNION {Own(u, pg, p) : p \in OwnersIn(u, pg)}
    BY <1>15, <2>2, <2>3
  <2> QED BY <2>4 DEF Lossless
<1> QED BY <1>16, <1>17, <1>19, <1>20 DEF Orderly

LEMMA MkdirNewKeeps ==
    ASSUME AlwaysFits, Kept, NEW n \in setup.folders, MkdirNew(n)
    PROVE  Settled' /\ ("half" \notin mishaps' => Kept')
<1>1. PICK e : e = Made("folder", n, End, 0)
  OBVIOUS
<1>2. PICK w : w = AddObject(card, page, RootEntry, e)
  OBVIOUS
<1>3. /\ Room(page, RootEntry)
      /\ IF AddAstray(card, page, RootEntry, e) THEN GoAstray
         ELSE /\ w.done \/ w.t # card
              /\ card' = w.t /\ page' = w.pg
              /\ mishaps' = IF w.done THEN mishaps ELSE mishaps \cup {"half"}
              /\ event' = Quiet
              /\ UNCHANGED <<handle, setup, astray>>
  BY <1>1, <1>2 DEF MkdirNew
<1>4. CASE AddAstray(card, page, RootEntry, e)
  BY <1>3, <1>4, AstrayWhole, WholeNext
<1>5. CASE ~AddAstray(card, page, RootEntry, e) /\ w.done
  <2>1. n \in Folders /\ setup \in Setups /\ Image(card, page) /\ Holding(card, page, handle)
    BY NamesAre DEF AlwaysFits, Kept
  <2>2. page[RootEntry].length < MaxEntries + 2
    BY <1>3 DEF Room
  <2>3. w.done /\ card' = w.t /\ page' = w.pg /\ mishaps' = mishaps /\ event' = Quiet
        /\ handle' = handle
    BY <1>3, <1>5
  <2>4. PICK x : x = Extended(card, TailOf(card, page[RootEntry]), page[RootEntry])
    OBVIOUS
  <2>5. PICK place : place = <<x.last, page[RootEntry].length % 2>>
    OBVIOUS
  <2>6. PICK own : own = Found(x.t)
    OBVIOUS
  <2>7. w = Added(card, page, RootEntry, e, x, place, own)
    BY <1>2, <2>4, <2>5, <2>6, AddIs
  <2>8. PICK u : u = SetEof(Taken(x.t), own)
    OBVIOUS
  <2>9. PICK b : b = FolderGrown(page, place, e, RootEntry, own)
    OBVIOUS
  <2>10. e.kind = "folder"
    BY <1>1 DEF Made
  <2>11. ~ (Full(page[RootEntry]) /\ x.got = 0) /\ FreeFrom(x.t) # {}
    BY <2>3, <2>7, <2>10 DEF Added, Failed
  <2>12. w = [done |-> TRUE, at |-> place, t |-> u, pg |-> b]
    BY <2>7, <2>8, <2>9, <2>10, <2>11 DEF Added
  <2>13. card' = u /\ page' = b
    BY <2>3, <2>12
  <2>14. PagesOK(b)
    <3>1. AlwaysFits'
      BY MkdirNewFits
    <3> QED BY <2>13, <3>1 DEF AlwaysFits
  <2>15. /\ Image(u, b) /\ FilesIn(u, b) = FilesIn(card, page)
         /\ \A q \in FilesIn(card, page) : b[q] = page[q] /\ Own(u, b, q) = Own(card, page, q)
         /\ Lossless(card, page) => Lossless(u, b)
    <3>1. MakesFolder(card, page, x, place, own, n, e, u, b)
      BY <1>1, <2>1, <2>2, <2>4, <2>5, <2>6, <2>8, <2>9, <2>11, <2>14 DEF MakesFolder
    <3> QED BY <2>1, <3>1, FolderMade
  <2>16. Holding(u, b, handle)
    <3>1. ASSUME NEW h \in Handles, handle[h].entry # Nowhere, NEW q, q = handle[h].entry
          PROVE  /\ q \in FilesIn(u, b) /\ b[q].cluster = page[q].cluster
                 /\ b[q].length = page[q].length /\ Own(u, b, q) = Own(card, page, q)
      <4>1. q \in FilesIn(card, page)
        BY <2>1, <3>1 DEF Holding, Holds
      <4> QED BY <2>15, <4>1
    <3> QED BY <2>1, <3>1, HoldingKept
  <2>17. Kept'
    BY <2>3, <2>13, <2>15, <2>16, QuietFits DEF Kept
  <2> QED BY <2>17, KeptNext
<1>6. CASE ~AddAstray(card, page, RootEntry, e) /\ ~w.done
  <2>1. /\ w.t # card /\ card' = w.t /\ page' = w.pg
        /\ mishaps' = mishaps \cup {"half"} /\ event' = Quiet
    BY <1>3, <1>6
  <2>2. PICK x : x = Extended(card, TailOf(card, page[RootEntry]), page[RootEntry])
    OBVIOUS
  <2>3. PICK place : place = <<x.last, page[RootEntry].length % 2>>
    OBVIOUS
  <2>4. PICK own : own = Found(x.t)
    OBVIOUS
  <2>5. w = Added(card, page, RootEntry, e, x, place, own)
    BY <1>2, <2>2, <2>3, <2>4, AddIs
  <2>6. ~ (Full(page[RootEntry]) /\ x.got = 0)
    BY <2>1, <2>5 DEF Added, Failed
  <2>7. w = Failed(x.t, page)
    BY <1>6, <2>5, <2>6 DEF Added
  <2>8. card' = x.t /\ page' = page
    BY <2>1, <2>7 DEF Failed
  <2>9. setup \in Setups /\ Image(card, page) /\ RootEntry \in DirsIn(card, page)
    BY DEF AlwaysFits, Kept, DirsIn
  <2>10. Orderly(x.t, page) /\ (Lossless(card, page) => Lossless(x.t, page))
    BY <2>2, <2>6, <2>9, HalfSettles
  <2> QED BY <2>1, <2>8, <2>10, QuietFits DEF Kept, Settled
<1> QED BY <1>4, <1>5, <1>6

\* A chain of two clusters, one linked to the other again.
LEMMA PairRun ==
    ASSUME NEW t, Linked(t), Ranked(t), NEW c \in Fat, NEW s \in Fat, t.next[c] = s,
           NEW u, Linked(u), Ranked(u), u.next[c] = s, u.next[s] = End
    PROVE  /\ c # s /\ Runs(u, c, 2) /\ Reached(u, c) = {c, s}
           /\ Walk(u, c)[0] = c /\ Walk(u, c)[1] = s
           /\ Walk(t, c)[0] = c /\ Walk(t, c)[1] = s
<1>1. c # End /\ s # End /\ Clusters \in Nat /\ Clusters >= 1
  BY ClustersAre
<1>2. c # s
  <2>1. PICK r \in [Fat -> Nat] : \A d \in Fat : t.next[d] \in Fat => r[t.next[d]] < r[d]
    BY DEF Ranked
  <2>2. r[s] < r[c] /\ r[s] \in Nat /\ r[c] \in Nat
    BY <2>1
  <2> QED BY <2>2
<1>3. Clusters >= 2
  <2>1. Clusters = 1 => c = s
    BY DEF Fat
  <2> QED BY <1>1, <1>2, <2>1
<1>4. 1 \in 1 .. Clusters /\ 2 \in 1 .. Clusters /\ 2 - 1 = 1 /\ 1 - 1 = 0
  BY <1>1, <1>3
<1>5. Walk(u, c)[0] = c /\ Walk(u, c)[1] = s /\ Walk(u, c)[2] = End
  <2>1. Walk(u, c)[0] = c
    BY WalkIs
  <2>2. Walk(u, c)[1] = OnFrom(u, c)
    BY <1>4, <2>1, WalkIs
  <2>3. Walk(u, c)[1] = s
    BY <1>1, <2>2 DEF OnFrom
  <2>4. Walk(u, c)[2] = OnFrom(u, s)
    BY <1>4, <2>3, WalkIs
  <2> QED BY <1>1, <2>1, <2>3, <2>4 DEF OnFrom
<1>6. Walk(t, c)[0] = c /\ Walk(t, c)[1] = s
  <2>1. Walk(t, c)[0] = c
    BY WalkIs
  <2>2. Walk(t, c)[1] = OnFrom(t, c)
    BY <1>4, <2>1, WalkIs
  <2> QED BY <1>1, <2>1, <2>2 DEF OnFrom
<1>7. 0 .. 2 - 1 = {0, 1}
  OBVIOUS
<1>8. Runs(u, c, 2)
  BY <1>4, <1>5, <1>7 DEF Runs
<1>9. Reached(u, c) = {Walk(u, c)[k] : k \in 0 .. 2 - 1}
  BY <1>8, RunsIs
<1> QED BY <1>2, <1>5, <1>6, <1>7, <1>8, <1>9

LEMMA MkdirHiddenKeeps ==
    ASSUME AlwaysFits, Kept, NEW n \in setup.folders, MkdirHidden(n), "retaken" \notin mishaps'
    PROVE  Kept'
<1>1. PICK p : p = Scan(card, page, RootEntry, n)
  OBVIOUS
<1>2. PICK e : e = page[p]
  OBVIOUS
<1>3. PICK c : c = e.cluster
  OBVIOUS
<1>4. PICK s : s = card.next[c]
  OBVIOUS
<1>5. PICK whole \in BOOLEAN : whole =
        (/\ {c, s} \cap card.used = {} /\ e.length \in 3 .. 4
         /\ \A i \in 0 .. e.length - 1 :
               LET q == At(card, c, i)
               IN  /\ ~Unreadable(page, q)
                   /\ IF i < 2 THEN page[q].name = Dot
                      ELSE page[q].kind = "file" /\ ~page[q].exists)
  OBVIOUS
<1>6. /\ p \in Page /\ ~e.exists
      /\ IF s = End THEN GoAstray
         ELSE /\ card' = SetEof(SetLink(card, c, s), s)
              /\ page' = [page EXCEPT ![p].exists = TRUE]
              /\ mishaps' = IF whole THEN mishaps ELSE mishaps \cup {"retaken"}
              /\ event' = Quiet
              /\ UNCHANGED <<handle, setup, astray>>
  BY <1>1, <1>2, <1>3, <1>4, <1>5 DEF MkdirHidden
<1>7. CASE s = End
  BY <1>6, <1>7, AstrayKeeps
<1>8. CASE s # End
  <2>1. /\ card' = SetEof(SetLink(card, c, s), s) /\ page' = [page EXCEPT ![p].exists = TRUE]
        /\ mishaps' = mishaps /\ whole /\ event' = Quiet /\ handle' = handle
    BY <1>6, <1>8
  <2>2. /\ {c, s} \cap card.used = {} /\ e.length \in 3 .. 4
        /\ \A i \in 0 .. e.length - 1 :
              LET q == At(card, c, i)
              IN  /\ ~Unreadable(page, q)
                  /\ IF i < 2 THEN page[q].name = Dot
                     ELSE page[q].kind = "file" /\ ~page[q].exists
    BY <1>5, <2>1
  <2>3. /\ n \in Folders /\ n # Dot /\ n \notin Files /\ Dot \notin Files
        /\ Image(card, page) /\ Holding(card, page, handle)
        /\ TableOK(card) /\ PagesOK(page) /\ Linked(card) /\ Ranked(card) /\ card.used \subseteq Fat
        /\ Shaped(card)
    BY NamesAre, VmcAssumption DEF AlwaysFits, Kept, TableOK, Sane
  <2>4. p \in KidsAt(card, page, RootEntry) /\ e.kind = "folder" /\ e.name = n /\ e # Blank
    BY <1>1, <1>2, <1>6, <2>3, FolderFound
  <2>5. EntryFits(e) /\ c \in Fat
    BY <1>1, <1>2, <1>3, <1>6, FoundFolder
  <2>6. s \in Fat
    BY <1>4, <1>8, <2>3, <2>5 DEF Linked
  <2>7. PICK u : u = SetEof(SetLink(card, c, s), s)
    OBVIOUS
  <2>8. PICK pq : pq = page'
    OBVIOUS
  <2>9. TableOK(u) /\ PagesOK(pq) /\ Linked(u) /\ Ranked(u)
    <3>1. AlwaysFits'
      BY MkdirHiddenFits
    <3> QED BY <2>1, <2>7, <2>8, <3>1 DEF AlwaysFits, TableOK, Sane
  <2>10. u.next = Altered(Altered(card.next, c, s), s, End) /\ u.used = card.used \cup {c, s}
    <3>1. PICK v : v = SetLink(card, c, s)
      OBVIOUS
    <3>2. Shaped(v) /\ v.next = Altered(card.next, c, s) /\ v.used = card.used \cup {c}
      BY <2>3, <3>1, SetLinkIs
    <3> QED BY <2>7, <3>1, <3>2, SetEofIs
  <2>11. c # s
    <3>1. PICK r \in [Fat -> Nat] : \A d \in Fat : card.next[d] \in Fat => r[card.next[d]] < r[d]
      BY <2>3 DEF Ranked
    <3>2. r[s] < r[c] /\ r[s] \in Nat /\ r[c] \in Nat
      BY <1>4, <2>5, <2>6, <3>1
    <3> QED BY <3>2
  <2>12. /\ u.next[c] = s /\ u.next[s] = End
         /\ \A d \in Fat : d \notin {c, s} => u.next[d] = card.next[d]
    BY <2>3, <2>5, <2>6, <2>10, <2>11 DEF Altered, Linked
  <2>13. /\ Runs(u, c, 2) /\ Reached(u, c) = {c, s}
         /\ Walk(u, c)[0] = c /\ Walk(u, c)[1] = s
         /\ Walk(card, c)[0] = c /\ Walk(card, c)[1] = s
    BY <1>4, <2>3, <2>5, <2>6, <2>9, <2>12, PairRun
  <2>14. Stays(card, u, {})
    BY <2>2, <2>3, <2>10, <2>12 DEF Stays
  <2>15. PICK g : g = [e EXCEPT !.exists = TRUE]
    OBVIOUS
  <2>16. EntryFits(g) /\ g.name = n /\ g.cluster = c /\ g.length = e.length /\ g.exists
         /\ g.kind = "folder"
    <3>1. PICK f \in BOOLEAN : f = TRUE
      OBVIOUS
    <3>2. g = [e EXCEPT !.exists = f]
      BY <2>15, <3>1
    <3>3. EntryFits(g) /\ g.name = e.name /\ g.cluster = e.cluster /\ g.length = e.length
          /\ g.exists = f /\ g.kind = e.kind
      BY <2>5, <3>2, ExistsFits
    <3> QED BY <1>3, <2>4, <3>1, <3>3
  <2>17. pq[p] = g /\ (\A q \in Page : q # p => pq[q] = page[q]) /\ g # Blank
    <3>1. page = [q \in Page |-> page[q]]
      BY <2>3 DEF PagesOK
    <3>2. pq[p] = g /\ \A q \in Page : q # p => pq[q] = page[q]
      BY <1>2, <1>6, <2>1, <2>8, <2>15, <3>1
    <3> QED BY <2>16, <3>2, BlankAssumption DEF EntryFits
  <2>18. PageOK(pq[p])
    <3>1. PageOK(e)
      BY <1>2, <1>6, <2>3, <2>4 DEF Image
    <3>2. e.length <= MaxEntries + 2
      BY <2>4, <3>1 DEF PageOK
    <3> QED BY <2>3, <2>16, <2>17, <3>2 DEF PageOK
  <2>19. Elsewhere(card, page, pq, p) /\ \A q \in Page : pq[q] # Blank => PageOK(pq[q])
    BY <1>6, <2>3, <2>17, <2>18, OnlyPage
  <2>20. \A i \in 0 .. e.length - 1 :
            /\ Spot(u, pq, p, i) = At(card, c, i)
            /\ \E k \in {0, 1} : At(card, c, i) \in {<<c, k>>, <<s, k>>}
    <3>1. SUFFICES ASSUME NEW i \in 0 .. e.length - 1
                   PROVE  /\ Spot(u, pq, p, i) = At(card, c, i)
                          /\ \E k \in {0, 1} : At(card, c, i) \in {<<c, k>>, <<s, k>>}
      OBVIOUS
    <3>2. i \in Nat /\ i <= 3
      BY <2>2
    <3>3. i \div 2 \in {0, 1} /\ i % 2 \in {0, 1}
      BY <3>2
    <3>4. Walk(u, c)[i \div 2] = Walk(card, c)[i \div 2] /\ Walk(card, c)[i \div 2] \in {c, s}
      BY <2>13, <3>3
    <3>5. Spot(u, pq, p, i) = <<Walk(u, c)[i \div 2], i % 2>>
      BY <2>16, <2>17 DEF Spot, At
    <3>6. At(card, c, i) = <<Walk(card, c)[i \div 2], i % 2>>
      BY DEF At
    <3> QED BY <3>3, <3>4, <3>5, <3>6
  <2>21. \A i \in 0 .. e.length - 1 : Spot(u, pq, p, i) \in Page /\ Spot(u, pq, p, i) # p
    <3>1. PICK i \in 2 .. page[RootEntry].length - 1 :
             i \in 0 .. page[RootEntry].length - 1 /\ p = Spot(card, page, RootEntry, i)
      BY <2>3, <2>4, RootSpot, KidSpot
    <3>2. PICK d \in card.used, k \in {0, 1} : p = <<d, k>>
      BY <2>3, <3>1, RootSpot, SpotUsed
    <3>3. d # c /\ d # s
      BY <2>2
    <3>4. \A j \in {0, 1} : <<c, j>> # p /\ <<s, j>> # p /\ <<c, j>> \in Page /\ <<s, j>> \in Page
      BY <2>5, <2>6, <3>2, <3>3 DEF Page
    <3> QED BY <2>20, <3>4
  <2>22. \A i \in 0 .. e.length - 1 :
            /\ pq[Spot(u, pq, p, i)] # Blank
            /\ i < 2 => pq[Spot(u, pq, p, i)].name = Dot
            /\ ~ (i < 2) => /\ pq[Spot(u, pq, p, i)].kind = "file"
                            /\ ~pq[Spot(u, pq, p, i)].exists
                            /\ pq[Spot(u, pq, p, i)].name # Dot
    <3>1. SUFFICES ASSUME NEW i \in 0 .. e.length - 1, NEW q, q = Spot(u, pq, p, i)
                   PROVE  /\ pq[q] # Blank /\ (i < 2 => pq[q].name = Dot)
                          /\ ~ (i < 2) => pq[q].kind = "file" /\ ~pq[q].exists /\ pq[q].name # Dot
      OBVIOUS
    <3>2. q \in Page /\ q # p /\ q = At(card, c, i)
      BY <2>20, <2>21, <3>1
    <3>3. pq[q] = page[q]
      BY <2>17, <3>2
    <3>4. /\ ~Unreadable(page, q)
          /\ IF i < 2 THEN page[q].name = Dot ELSE page[q].kind = "file" /\ ~page[q].exists
      BY <2>2, <3>2
    <3>5. page[q] # Blank
      BY <3>4 DEF Unreadable
    <3>6. PageOK(page[q])
      BY <2>3, <3>2, <3>5 DEF Image
    <3> QED BY <2>3, <3>3, <3>4, <3>5, <3>6 DEF PageOK
  <2>23. Own(u, pq, p) = {c, s}
    BY <2>13, <2>16, <2>17 DEF Own
  <2>24. DirOK(u, pq, p)
    <3>1. PICK l : l = pq[p].length
      OBVIOUS
    <3>2. l = e.length /\ l \in Nat /\ l >= 2 /\ l \in {3, 4}
      BY <2>2, <2>16, <2>17, <3>1
    <3>3. (l + 1) \div 2 = 2
      BY <3>2
    <3>4. Owned(u, pq[p].cluster, (l + 1) \div 2)
      BY <2>10, <2>13, <2>16, <2>17, <3>3 DEF Owned
    <3>5. \A i \in 0 .. l - 1 :
             /\ pq[Spot(u, pq, p, i)] # Blank
             /\ pq[Spot(u, pq, p, i)].name = Dot <=> i < 2
      BY <2>22, <3>2
    <3> QED BY <3>1, <3>2, <3>4, <3>5 DEF DirOK
  <2>25. \A q \in KidsAt(u, pq, p) : pq[q].kind = "file" /\ ~pq[q].exists
    <3>1. SUFFICES ASSUME NEW i \in 2 .. pq[p].length - 1
                   PROVE  pq[Spot(u, pq, p, i)].kind = "file" /\ ~pq[Spot(u, pq, p, i)].exists
      BY DEF KidsAt, Spot
    <3>2. e.length \in Nat /\ pq[p].length = e.length
      BY <2>2, <2>16, <2>17
    <3>3. i \in 0 .. e.length - 1 /\ ~ (i < 2)
      BY <3>2
    <3> QED BY <2>22, <3>3
  <2>26. Showing(card, page, p, u, pq)
    <3>1. Own(u, pq, p) \cap card.used = {}
      BY <2>2, <2>23
    <3>2. page[p].kind # "file" /\ ~page[p].exists
      BY <1>2, <1>6, <2>4
    <3>3. pq[p] # Blank /\ pq[p].name # Dot /\ pq[p].kind = "folder" /\ pq[p].exists
      BY <2>3, <2>16, <2>17
    <3> QED BY <2>3, <2>4, <2>9, <2>14, <2>19, <2>24, <2>25, <3>1, <3>2, <3>3 DEF Showing
  <2>27. /\ Image(u, pq) /\ DirsIn(u, pq) = DirsIn(card, page) \cup {p}
         /\ FilesIn(u, pq) = FilesIn(card, page)
         /\ \A q \in OwnersIn(card, page) :
               q # p /\ pq[q] = page[q] /\ Own(u, pq, q) = Own(card, page, q)
    BY <2>26, ShowsFolder DEF Shown
  <2>28. Lossless(card, page) => Lossless(u, pq)
    BY <2>10, <2>23, <2>27, ShownLossless
  <2>29. Holding(u, pq, handle)
    <3>1. ASSUME NEW h \in Handles, handle[h].entry # Nowhere, NEW q, q = handle[h].entry
          PROVE  /\ q \in FilesIn(u, pq) /\ pq[q].cluster = page[q].cluster
                 /\ pq[q].length = page[q].length /\ Own(u, pq, q) = Own(card, page, q)
      <4>1. q \in FilesIn(card, page) /\ q \in OwnersIn(card, page)
        BY <2>3, <3>1 DEF Holding, Holds, OwnersIn
      <4> QED BY <2>27, <4>1
    <3> QED BY <2>3, <3>1, HoldingKept
  <2>30. "dropped" \notin mishaps' => Lossless(u, pq)
    BY <2>1, <2>28 DEF Kept
  <2> QED BY <2>1, <2>7, <2>8, <2>27, <2>29, <2>30, QuietFits DEF Kept
<1> QED BY <1>7, <1>8

\* The free clusters and the hint are of no account.
LEMMA SameKeeps ==
    ASSUME Kept, AlwaysFits', card'.used = card.used,
           \A c \in card.used : card'.next[c] = card.next[c],
           UNCHANGED <<page, handle, mishaps>>, event' = Quiet
    PROVE  Kept'
<1>1. PICK u : u = card'
  OBVIOUS
<1>2. TableOK(u) /\ u.used = card.used /\ \A c \in card.used : c \in u.used /\ u.next[c] = card.next[c]
  BY <1>1 DEF AlwaysFits
<1>3. Image(card, page) /\ Holding(card, page, handle)
  BY DEF Kept
<1>4. /\ Image(u, page) /\ DirsIn(u, page) = DirsIn(card, page)
      /\ FilesIn(u, page) = FilesIn(card, page)
      /\ \A q \in OwnersIn(card, page) : Own(u, page, q) = Own(card, page, q)
  BY <1>2, <1>3, ImageSame
<1>5. Lossless(card, page) => Lossless(u, page)
  BY <1>2, <1>4, SameLossless
<1>6. Holding(u, page, handle)
  <2>1. ASSUME NEW h \in Handles, handle[h].entry # Nowhere, NEW q, q = handle[h].entry
        PROVE  q \in FilesIn(u, page) /\ Own(u, page, q) = Own(card, page, q)
    <3>1. q \in FilesIn(card, page) /\ q \in OwnersIn(card, page)
      BY <1>3, <2>1 DEF Holding, Holds, OwnersIn
    <3> QED BY <1>4, <3>1
  <2> QED BY <1>3, <2>1, HoldingKept
<1> QED BY <1>1, <1>4, <1>5, <1>6, QuietFits DEF Kept

LEMMA CleanKeeps ==
    ASSUME AlwaysFits, Kept, Clean PROVE Kept'
<1>1. PICK cs : cs = {c \in Fat : c \notin card.used /\ card.next[c] # End}
  OBVIOUS
<1>2. PICK u : u = SetFree(card, cs)
  OBVIOUS
<1>3. u.next = [c \in Fat |-> IF c \in cs THEN End ELSE card.next[c]] /\ u.used = card.used \ cs
  BY <1>2, SetFreeIs
<1>4. card' = u /\ UNCHANGED <<page, handle, mishaps>> /\ event' = Quiet
  BY <1>1, <1>2 DEF Clean
<1>5. card.used \subseteq Fat
  BY DEF AlwaysFits, TableOK
<1>6. card'.used = card.used /\ \A c \in card.used : card'.next[c] = card.next[c]
  BY <1>1, <1>3, <1>4, <1>5
<1> QED BY <1>4, <1>6, CleanFits, SameKeeps

LEMMA RemountKeeps ==
    ASSUME AlwaysFits, Kept, Remount PROVE Kept'
<1>1. card' = [card EXCEPT !.hint = FirstAllocatable] /\ UNCHANGED <<page, handle, mishaps>>
      /\ event' = Quiet
  BY DEF Remount
<1>2. Shaped(card)
  BY DEF AlwaysFits, TableOK, Sane
<1>3. card'.used = card.used /\ card'.next = card.next
  BY <1>1, <1>2 DEF Shaped
<1> QED BY <1>1, <1>3, RemountFits, SameKeeps

-----------------------------------------------------------------------------
(***************************************************************************)
(* Vmc_Rmdir: the folder is emptied, child by child.                       *)
(***************************************************************************)
LEMMA ScanSame ==
    ASSUME NEW t, NEW pg, NEW d, DirOK(t, pg, d), NEW u, NEW pq, DirOK(u, pq, d),
           pq[d].length = pg[d].length, \A i : Spot(u, pq, d, i) = Spot(t, pg, d, i),
           \A i \in 0 .. pg[d].length - 1 :
              pq[Spot(t, pg, d, i)].name = pg[Spot(t, pg, d, i)].name,
           NEW n, NEW p, p = Scan(t, pg, d, n), p \in Page
    PROVE  Scan(u, pq, d, n) = p
<1>1. pg[p].name = n /\ \E i : FirstMatch(t, pg, d, n, i) /\ p = Spot(t, pg, d, i)
  BY ScanPlace
<1>2. PICK i : FirstMatch(t, pg, d, n, i) /\ p = Spot(t, pg, d, i)
  BY <1>1
<1>3. i \in 0 .. pg[d].length - 1 /\ pg[d].length \in Nat
  BY <1>2 DEF FirstMatch, DirOK
<1>4. FirstMatch(u, pq, d, n, i)
  <2>1. Matches(pq[Spot(u, pq, d, i)].name, n)
    BY <1>2, <1>3 DEF FirstMatch
  <2>2. \A j \in 0 .. i - 1 : ~Matches(pq[Spot(u, pq, d, j)].name, n)
    <3>1. SUFFICES ASSUME NEW j \in 0 .. i - 1
                   PROVE  ~Matches(pq[Spot(u, pq, d, j)].name, n)
      OBVIOUS
    <3>2. j \in 0 .. pg[d].length - 1
      BY <1>3, <3>1
    <3>3. ~Matches(pg[Spot(t, pg, d, j)].name, n)
      BY <1>2, <3>1 DEF FirstMatch
    <3> QED BY <3>2, <3>3
  <2> QED BY <1>3, <2>1, <2>2 DEF FirstMatch
<1>5. Scan(u, pq, d, n) = Result(pq, Spot(u, pq, d, i), n)
  BY <1>4, ScanFirst
<1>6. pq[p].name = n
  BY <1>1, <1>2, <1>3
<1> QED BY <1>2, <1>5, <1>6 DEF Result

\* The folder n at p without its first i entries, and all else as it was.
Emptying(w, p, n, i) ==
    /\ WorldOK(w) /\ w.well /\ mishaps \subseteq w.mishaps
    /\ Image(w.t, w.pg)
    /\ p \in FoldersIn(w.t, w.pg) /\ Scan(w.t, w.pg, RootEntry, n) = p
    /\ DirsIn(w.t, w.pg) = DirsIn(card, page)
    /\ FilesIn(w.t, w.pg) \subseteq FilesIn(card, page)
    /\ \A q \in FilesIn(card, page) :
          q \notin FilesIn(w.t, w.pg) => Held(q) = {} \/ "held" \in w.mishaps
    /\ \A q \in OwnersIn(w.t, w.pg) :
          w.pg[q] = page[q] /\ Own(w.t, w.pg, q) = Own(card, page, q)
    /\ \A j \in 2 .. w.pg[p].length - 1 : j <= i => ~w.pg[Spot(w.t, w.pg, p, j)].exists
    /\ Lossless(card, page) => Lossless(w.t, w.pg)
\* The call goes astray, or a hidden file is removed.
Spoiled(w) == ~w.well \/ "again" \in w.mishaps

\* The path to a child that exists leads to it, to a hidden one before it, or astray.
LEMMA ChildFound ==
    ASSUME NEW t, NEW pg, Image(t, pg), NEW p \in FoldersIn(t, pg), NEW n \in Folders,
           Scan(t, pg, RootEntry, n) = p,
           NEW i \in 2 .. pg[p].length - 1, NEW q, q = Spot(t, pg, p, i),
           \A j \in 2 .. pg[p].length - 1 : j <= i - 1 => ~pg[Spot(t, pg, p, j)].exists,
           NEW path, path.dir = n, path.name = pg[q].name,
           NEW r, r = Lookup(t, pg, path)
    PROVE  /\ q \in KidFiles(t, pg)
           /\ r # q => r = Garbage \/ (r \in Page /\ ~pg[r].exists)
<1>1. p \in DirsIn(t, pg) /\ DirOK(t, pg, p) /\ p \in Page /\ pg[p].length \in Nat
  BY FolderSpot DEF DirsIn, Image, DirOK
<1>2. KidsAt(t, pg, p) \subseteq KidFiles(t, pg)
  BY DEF Image
<1>3. \A j \in 2 .. pg[p].length - 1 : Spot(t, pg, p, j) \in KidsAt(t, pg, p)
  BY DEF KidsAt, Spot
<1>4. q \in KidFiles(t, pg) /\ pg[q].name \in Files
  BY <1>2, <1>3, FileSpot
<1>5. path.dir # Dot
  BY VmcAssumption
<1>6. r = Scan(t, pg, p, path.name)
  BY <1>1, <1>5 DEF Lookup, Parent
<1>7. i \in 0 .. pg[p].length - 1 /\ i \in Nat
  BY <1>1
<1>8. Matches(pg[Spot(t, pg, p, i)].name, path.name)
  BY DEF Matches
<1>9. PICK k : FirstMatch(t, pg, p, path.name, k) /\ r = Result(pg, Spot(t, pg, p, k), path.name)
  <2>1. \E j \in 0 .. pg[p].length - 1 : Matches(pg[Spot(t, pg, p, j)].name, path.name)
    BY <1>7, <1>8
  <2> QED BY <1>1, <1>6, <2>1, ScanIn
<1>10. k \in 0 .. pg[p].length - 1 /\ k \in Nat /\ k <= i
  <2>1. k \in 0 .. pg[p].length - 1 /\ k \in Nat
    BY <1>1, <1>9 DEF FirstMatch
  <2>2. ~ (i \in 0 .. k - 1)
    BY <1>8, <1>9 DEF FirstMatch
  <2> QED BY <1>1, <1>7, <2>1, <2>2
<1>11. CASE k = i
  BY <1>4, <1>9, <1>11 DEF Result
<1>12. CASE k # i
  <2>1. PICK s : s = Spot(t, pg, p, k)
    OBVIOUS
  <2>2. pg[s].name # Dot
    <3>1. Matches(pg[s].name, path.name)
      BY <1>9, <2>1 DEF FirstMatch
    <3> QED BY <1>4, <3>1, VmcAssumption DEF Matches
  <2>3. ~ (k < 2)
    BY <1>1, <1>10, <2>1, <2>2 DEF DirOK
  <2>4. k \in 2 .. pg[p].length - 1 /\ k <= i - 1
    BY <1>1, <1>7, <1>10, <1>12, <2>3
  <2>5. ~pg[s].exists /\ s \in KidFiles(t, pg)
    BY <1>2, <1>3, <2>1, <2>4
  <2>6. s \in Page /\ pg[s] # Blank /\ pg[s].kind = "file"
    BY <2>5, FileSpot
  <2>7. PageOK(pg[s])
    BY <2>6 DEF Image
  <2>8. pg[s].length # 0
    BY <2>5, <2>6, <2>7 DEF PageOK
  <2> QED BY <1>4, <1>9, <2>1, <2>5, <2>6, <2>8 DEF Result
<1> QED BY <1>11, <1>12

LEMMA RemoveChildIs ==
    ASSUME NEW w, NEW n, NEW p, NEW i, NEW q, q = Spot(w.t, w.pg, p, i),
           NEW r, r = Lookup(w.t, w.pg, [dir |-> n, name |-> w.pg[q].name])
    PROVE  RemoveChild(w, n, p, i) =
             IF ~w.well \/ i < 2 \/ i >= w.pg[p].length THEN w
             ELSE IF Unreadable(w.pg, q) \/ w.pg[q].name = Dot THEN Ill(w)
             ELSE IF ~w.pg[q].exists THEN w
             ELSE IF r = Nowhere THEN Passed(w)
             ELSE IF r = Garbage THEN Ill(w)
             ELSE RemoveObject(w, r)
  BY DEF RemoveChild, Ill, Passed, Spot

LEMMA RemoveMishaps ==
    ASSUME NEW w, WorldOK(w), NEW p, NEW x, x = RemoveObject(w, p)
    PROVE  w.mishaps \subseteq x.mishaps /\ (~w.well => ~x.well)
<1>1. PICK c : c = w.pg[p].cluster
  OBVIOUS
<1>2. x = IF c = End \/ Loops(w.t, c) THEN Ill(w) ELSE RemovedAt(w, p, c)
  BY <1>1, RemoveIs
<1>3. CASE x = Ill(w)
  BY <1>3, IllOK
<1>4. CASE x = RemovedAt(w, p, c)
  BY <1>4 DEF RemovedAt, World
<1> QED BY <1>2, <1>3, <1>4

LEMMA StaysSpoiled ==
    ASSUME NEW w, WorldOK(w), Spoiled(w), NEW n, NEW p, NEW i
    PROVE  Spoiled(RemoveChild(w, n, p, i))
<1>1. PICK q : q = Spot(w.t, w.pg, p, i)
  OBVIOUS
<1>2. PICK r : r = Lookup(w.t, w.pg, [dir |-> n, name |-> w.pg[q].name])
  OBVIOUS
<1>3. PICK x : x = RemoveChild(w, n, p, i)
  OBVIOUS
<1>4. x = w \/ x = Ill(w) \/ x = RemoveObject(w, r) \/ x = Passed(w)
  BY <1>1, <1>2, <1>3, RemoveChildIs
<1>8. CASE x = Passed(w)
  BY <1>3, <1>8, PassedOK DEF Spoiled
<1>5. CASE x = w
  BY <1>3, <1>5
<1>6. CASE x = Ill(w)
  BY <1>3, <1>6, IllOK DEF Spoiled
<1>7. CASE x = RemoveObject(w, r)
  BY <1>3, <1>7, RemoveMishaps DEF Spoiled
<1> QED BY <1>4, <1>5, <1>6, <1>7, <1>8

\* One child is removed.
LEMMA ChildGone ==
    ASSUME NEW w, NEW p, NEW n, NEW i \in Nat, Emptying(w, p, n, i - 1),
           i \in 2 .. w.pg[p].length - 1,
           NEW q, q = Spot(w.t, w.pg, p, i), q \in FilesIn(w.t, w.pg),
           NEW x, x = RemoveObject(w, q), x # Ill(w)
    PROVE  Emptying(x, p, n, i)
<1> DEFINE t == w.t
           pg == w.pg
<1>1. /\ WorldOK(w) /\ w.well /\ mishaps \subseteq w.mishaps
      /\ Image(t, pg)
      /\ p \in FoldersIn(t, pg) /\ Scan(t, pg, RootEntry, n) = p
      /\ DirsIn(t, pg) = DirsIn(card, page)
      /\ FilesIn(t, pg) \subseteq FilesIn(card, page)
      /\ \A r \in FilesIn(card, page) :
            r \notin FilesIn(t, pg) => Held(r) = {} \/ "held" \in w.mishaps
      /\ \A r \in OwnersIn(t, pg) :
            pg[r] = page[r] /\ Own(t, pg, r) = Own(card, page, r)
      /\ \A j \in 2 .. pg[p].length - 1 : j <= i - 1 => ~pg[Spot(t, pg, p, j)].exists
      /\ Lossless(card, page) => Lossless(t, pg)
  BY DEF Emptying
<1>2. /\ WorldOK(x) /\ x.well = w.well /\ w.mishaps \subseteq x.mishaps
      /\ Held(q) = {} \/ "held" \in x.mishaps
      /\ Image(x.t, x.pg) /\ DirsIn(x.t, x.pg) = DirsIn(t, pg)
      /\ FilesIn(x.t, x.pg) = FilesIn(t, pg) \ {q}
      /\ \A r \in OwnersIn(t, pg) :
            r # q => x.pg[r] = pg[r] /\ Own(x.t, x.pg, r) = Own(t, pg, r)
      /\ \A d \in DirsIn(t, pg) :
            /\ KidsAt(x.t, x.pg, d) = KidsAt(t, pg, d)
            /\ \A j : Spot(x.t, x.pg, d, j) = Spot(t, pg, d, j)
      /\ \A r \in Page : r # q => x.pg[r] = pg[r]
      /\ ~x.pg[q].exists /\ x.pg[q].name = pg[q].name
      /\ Lossless(t, pg) => Lossless(x.t, x.pg)
  <2>1. Removing(w, q, x)
    BY <1>1 DEF Removing
  <2> QED BY <2>1, FileRemoved DEF Gone
<1> HIDE DEF t, pg
<1>3. PICK u, pq : u = x.t /\ pq = x.pg
  OBVIOUS
<1>4. q \in KidFiles(t, pg) /\ pg[q].kind = "file" /\ q \notin DirsIn(t, pg)
  BY <1>1, FileSpot DEF FilesIn, t, pg
<1>5. p \in DirsIn(t, pg) /\ RootEntry \in DirsIn(t, pg) /\ p # RootEntry /\ p # q
      /\ RootEntry # q /\ DirOK(t, pg, p) /\ DirOK(t, pg, RootEntry) /\ p \in Page
  BY <1>1, <1>4, FolderSpot, RootSpot DEF DirsIn, Image
<1>6. pq[p] = pg[p] /\ pq[RootEntry] = pg[RootEntry]
  BY <1>2, <1>3, <1>5 DEF OwnersIn
<1>7. p \in FoldersIn(u, pq)
  BY <1>2, <1>3, <1>5 DEF DirsIn
<1>8. \A r \in OwnersIn(u, pq) : r \in OwnersIn(t, pg) /\ r # q
  BY <1>2, <1>3, <1>4 DEF OwnersIn
<1>9. Scan(u, pq, RootEntry, n) = p
  <2>1. DirOK(u, pq, RootEntry)
    BY <1>2, <1>3, <1>5 DEF Image
  <2>2. \A j \in 0 .. pg[RootEntry].length - 1 :
           pq[Spot(t, pg, RootEntry, j)].name = pg[Spot(t, pg, RootEntry, j)].name
    <3>1. \A j \in 0 .. pg[RootEntry].length - 1 : Spot(t, pg, RootEntry, j) \in Page
      BY <1>5, SpotIs
    <3> QED BY <1>2, <1>3, <3>1
  <2>3. \A j : Spot(u, pq, RootEntry, j) = Spot(t, pg, RootEntry, j)
    BY <1>2, <1>3, <1>5
  <2> QED BY <1>1, <1>5, <1>6, <2>1, <2>2, <2>3, ScanSame
<1>10. \A j \in 2 .. pq[p].length - 1 : j <= i => ~pq[Spot(u, pq, p, j)].exists
  <2>1. SUFFICES ASSUME NEW j \in 2 .. pg[p].length - 1, j <= i
                 PROVE  ~pq[Spot(t, pg, p, j)].exists
    BY <1>2, <1>3, <1>5, <1>6
  <2>2. j \in 0 .. pg[p].length - 1
    BY <1>5 DEF DirOK
  <2>3. PICK s : s = Spot(t, pg, p, j)
    OBVIOUS
  <2>4. s \in Page
    BY <1>5, <2>2, <2>3, SpotIs
  <2>5. CASE s = q
    BY <1>2, <1>3, <2>3, <2>5
  <2>6. CASE s # q
    <3>1. j # i
      BY <2>3, <2>6 DEF t, pg
    <3>2. j <= i - 1
      BY <1>5, <2>1, <3>1 DEF DirOK
    <3> QED BY <1>1, <1>2, <1>3, <2>3, <2>4, <2>6, <3>2
  <2> QED BY <2>5, <2>6
<1>11. \A r \in FilesIn(card, page) :
          r \notin FilesIn(u, pq) => Held(r) = {} \/ "held" \in x.mishaps
  BY <1>1, <1>2, <1>3
<1>12. \A r \in OwnersIn(u, pq) : pq[r] = page[r] /\ Own(u, pq, r) = Own(card, page, r)
  BY <1>1, <1>2, <1>3, <1>8
<1>13. FilesIn(u, pq) \subseteq FilesIn(card, page) /\ DirsIn(u, pq) = DirsIn(card, page)
       /\ (Lossless(card, page) => Lossless(u, pq))
  BY <1>1, <1>2, <1>3
<1> QED BY <1>1, <1>2, <1>3, <1>7, <1>9, <1>10, <1>11, <1>12, <1>13, ZenonT(60) DEF Emptying

LEMMA ChildRemoved ==
    ASSUME NEW w, NEW p, NEW n \in Folders, NEW i \in Nat, Emptying(w, p, n, i - 1),
           NEW x, x = RemoveChild(w, n, p, i)
    PROVE  Emptying(x, p, n, i) \/ Spoiled(x)
<1>1. PICK q : q = Spot(w.t, w.pg, p, i)
  OBVIOUS
<1>2. PICK path : path = [dir |-> n, name |-> w.pg[q].name]
  OBVIOUS
<1>3. PICK r : r = Lookup(w.t, w.pg, path)
  OBVIOUS
<1>4. path.dir = n /\ path.name = w.pg[q].name
  BY <1>2
<1>5. x = IF ~w.well \/ i < 2 \/ i >= w.pg[p].length THEN w
          ELSE IF Unreadable(w.pg, q) \/ w.pg[q].name = Dot THEN Ill(w)
          ELSE IF ~w.pg[q].exists THEN w
          ELSE IF r = Nowhere THEN Passed(w)
          ELSE IF r = Garbage THEN Ill(w)
          ELSE RemoveObject(w, r)
  BY <1>1, <1>2, <1>3, RemoveChildIs
<1>6. /\ WorldOK(w) /\ w.well /\ Image(w.t, w.pg) /\ p \in FoldersIn(w.t, w.pg)
      /\ Scan(w.t, w.pg, RootEntry, n) = p
      /\ \A j \in 2 .. w.pg[p].length - 1 : j <= i - 1 => ~w.pg[Spot(w.t, w.pg, p, j)].exists
  BY DEF Emptying
<1>7. ASSUME x = Ill(w) PROVE Spoiled(x)
  BY <1>6, <1>7, IllOK DEF Spoiled
<1>8. ASSUME x = w, i \in 2 .. w.pg[p].length - 1 => ~w.pg[q].exists
      PROVE  Emptying(x, p, n, i)
  <2>1. \A j \in 2 .. w.pg[p].length - 1 : j <= i => ~w.pg[Spot(w.t, w.pg, p, j)].exists
    <3>1. SUFFICES ASSUME NEW j \in 2 .. w.pg[p].length - 1, j <= i
                   PROVE  ~w.pg[Spot(w.t, w.pg, p, j)].exists
      OBVIOUS
    <3>2. CASE j = i
      BY <1>1, <1>8, <3>2
    <3>3. CASE j # i
      <4>1. j <= i - 1
        BY <3>1, <3>3
      <4> QED BY <1>6, <4>1
    <3> QED BY <3>2, <3>3
  <2> QED BY <1>8, <2>1 DEF Emptying
<1>9. CASE i < 2 \/ i >= w.pg[p].length
  <2>1. w.pg[p].length \in Nat
    BY <1>6 DEF Image, DirOK, DirsIn
  <2>2. ~ (i \in 2 .. w.pg[p].length - 1)
    BY <1>9, <2>1
  <2> QED BY <1>5, <1>8, <1>9, <2>2
<1>10. CASE ~ (i < 2 \/ i >= w.pg[p].length)
  <2>1. w.pg[p].length \in Nat
    BY <1>6 DEF Image, DirOK, DirsIn
  <2>2. i \in 2 .. w.pg[p].length - 1
    BY <1>10, <2>1
  <2>3. /\ q \in KidFiles(w.t, w.pg)
        /\ r # q => r = Garbage \/ (r \in Page /\ ~w.pg[r].exists)
    BY <1>1, <1>3, <1>4, <1>6, <2>2, ChildFound
  <2>4. q \in Page /\ w.pg[q] # Blank /\ w.pg[q].name # Dot
    BY <1>6, <2>3, FileSpot
  <2>5. ~Unreadable(w.pg, q)
    BY <2>4 DEF Unreadable
  <2>6. CASE ~w.pg[q].exists
    BY <1>5, <1>8, <2>4, <2>5, <2>6, <1>6
  <2>7. CASE w.pg[q].exists
    <3>1. r # Nowhere
      BY <2>3, <2>4, PagesAre
    <3>2. x = IF r = Garbage THEN Ill(w) ELSE RemoveObject(w, r)
      BY <1>5, <1>6, <1>10, <2>4, <2>5, <2>7, <3>1
    <3>3. CASE x = Ill(w)
      BY <1>7, <3>3
    <3>4. CASE x # Ill(w)
      <4>1. x = RemoveObject(w, r) /\ r # Garbage
        BY <3>2, <3>4
      <4>2. ~w.pg[r].exists => "again" \in x.mishaps
        BY <1>6, <3>4, <4>1, RemoveSays
      <4>3. CASE r # q
        BY <2>3, <4>1, <4>2, <4>3 DEF Spoiled
      <4>4. CASE r = q
        <5>1. q \in FilesIn(w.t, w.pg)
          BY <2>3, <2>7 DEF FilesIn
        <5> QED BY <1>1, <2>2, <3>4, <4>1, <4>4, <5>1, ChildGone
      <4> QED BY <4>3, <4>4
    <3> QED BY <3>3, <3>4
  <2> QED BY <2>6, <2>7
<1> QED BY <1>9, <1>10

LEMMA FolderEmptied ==
    ASSUME NEW n \in Folders, NEW p, Emptying(Before, p, n, 0), NEW w, w = Emptied(n, p)
    PROVE  WorldOK(w) /\ (Emptying(w, p, n, MaxEntries + 1) \/ Spoiled(w))
<1>1. PICK f : Removes(f, MaxEntries + 1, n, p) /\ Emptied(n, p) = f[MaxEntries + 1]
  BY EmptiedIs
<1> DEFINE k == MaxEntries + 1
           good(m) == WorldOK(f[m]) /\ (Emptying(f[m], p, n, m) \/ Spoiled(f[m]))
           bad == {m \in 0 .. k : ~good(m)}
<1>2. ASSUME bad # {} PROVE FALSE
  <2>1. bad \in SUBSET Nat
    OBVIOUS
  <2>2. PICK m \in bad : \A v \in bad : m <= v
    BY <1>2, <2>1, LeastIn
  <2>3. m # 0
    <3>1. f[0] = Before
      BY <1>1 DEF Removes
    <3>2. WorldOK(Before)
      BY DEF Emptying
    <3>3. good(0)
      BY <3>1, <3>2
    <3> QED BY <2>2, <3>3
  <2>4. m \in 1 .. k /\ m - 1 \in 0 .. k /\ ~ (m <= m - 1) /\ m \in Nat
    BY <2>1, <2>3, ClustersAre
  <2>5. good(m - 1)
    BY <2>2, <2>4
  <2>6. f[m] = RemoveChild(f[m - 1], n, p, m)
    BY <1>1, <2>4 DEF Removes
  <2>7. PICK v, y : v = f[m - 1] /\ y = f[m]
    OBVIOUS
  <2>8. WorldOK(v) /\ (Emptying(v, p, n, m - 1) \/ Spoiled(v)) /\ y = RemoveChild(v, n, p, m)
    BY <2>5, <2>6, <2>7
  <2>9. WorldOK(y)
    BY <2>8, RemoveChildOK
  <2>10. Emptying(y, p, n, m) \/ Spoiled(y)
    <3>1. CASE Emptying(v, p, n, m - 1)
      BY <2>4, <2>8, <3>1, ChildRemoved
    <3>2. CASE Spoiled(v)
      BY <2>8, <3>2, StaysSpoiled
    <3> QED BY <2>8, <3>1, <3>2
  <2> QED BY <2>2, <2>7, <2>9, <2>10
<1>3. k \in 0 .. k
  BY ClustersAre
<1>4. good(k)
  BY <1>2, <1>3
<1> QED BY <1>1, <1>4

\* The emptied folder itself is removed.
LEMMA FolderRemoved ==
    ASSUME NEW w, NEW p, NEW n, Emptying(w, p, n, MaxEntries + 1),
           NEW x, x = RemoveObject(w, p), x # Ill(w)
    PROVE  /\ w.mishaps \subseteq x.mishaps /\ Image(x.t, x.pg)
           /\ FilesIn(x.t, x.pg) = FilesIn(w.t, w.pg)
           /\ \A q \in OwnersIn(w.t, w.pg) :
                 q # p => x.pg[q] = w.pg[q] /\ Own(x.t, x.pg, q) = Own(w.t, w.pg, q)
           /\ Lossless(w.t, w.pg) => Lossless(x.t, x.pg)
<1>1. PICK t : t = w.t
  OBVIOUS
<1>2. PICK pg : pg = w.pg
  OBVIOUS
<1>3. /\ WorldOK(w) /\ w.well /\ Image(t, pg) /\ p \in FoldersIn(t, pg)
      /\ \A j \in 2 .. pg[p].length - 1 : j <= MaxEntries + 1 => ~pg[Spot(t, pg, p, j)].exists
  BY <1>1, <1>2 DEF Emptying
<1>4. /\ p \in Page /\ pg[p] # Blank /\ pg[p].exists /\ pg[p].kind = "folder"
      /\ pg[p].name # Dot /\ p \in DirsIn(t, pg) /\ DirOK(t, pg, p) /\ PageOK(pg[p])
  BY <1>3, FolderSpot DEF Image, DirsIn
<1>5. PICK R : R = Own(t, pg, p)
  OBVIOUS
<1>6. R \subseteq t.used
  BY <1>4, <1>5 DEF DirOK, Owned, Own
<1>7. /\ WorldOK(x) /\ x.well = w.well /\ w.mishaps \subseteq x.mishaps
      /\ x.t.used = t.used \ R /\ Stays(t, x.t, R)
      /\ \A q \in Page : q # p => x.pg[q] = pg[q]
      /\ x.pg[p] # Blank /\ ~x.pg[p].exists /\ x.pg[p].name = pg[p].name
      /\ x.pg[p].kind = pg[p].kind /\ x.pg[p].cluster = pg[p].cluster
      /\ x.pg[p].length = pg[p].length
  <2>1. WorldOK(w) /\ p \in Page /\ w.pg[p] # Blank /\ w.pg[p].name # Dot
        /\ R = Own(w.t, w.pg, p) /\ R \subseteq w.t.used /\ w.pg[p].exists
    BY <1>1, <1>2, <1>3, <1>4, <1>5, <1>6
  <2>2. /\ WorldOK(x) /\ x.well = w.well /\ w.mishaps \subseteq x.mishaps
        /\ x.t.used = w.t.used \ R /\ Stays(w.t, x.t, R)
        /\ \A q \in Page : q # p => x.pg[q] = w.pg[q]
        /\ x.pg[p] # Blank /\ ~x.pg[p].exists /\ x.pg[p].name = w.pg[p].name
        /\ x.pg[p].kind = w.pg[p].kind /\ x.pg[p].cluster = w.pg[p].cluster
        /\ x.pg[p].length = w.pg[p].length
    BY <2>1, RemoveDoes
  <2> QED BY <1>1, <1>2, <2>2
<1>8. PICK u, pq : u = x.t /\ pq = x.pg
  OBVIOUS
<1>9. TableOK(u) /\ PagesOK(pq)
  BY <1>7, <1>8 DEF WorldOK
<1>10. PageOK(pq[p])
  BY <1>4, <1>7, <1>8 DEF PageOK
<1>11. Elsewhere(t, pg, pq, p) /\ \A q \in Page : pq[q] # Blank => PageOK(pq[q])
  BY <1>3, <1>4, <1>7, <1>8, <1>10, OnlyPage
<1>12. \A q \in KidsAt(t, pg, p) : ~pg[q].exists
  <2>1. SUFFICES ASSUME NEW q \in KidsAt(t, pg, p) PROVE ~pg[q].exists
    OBVIOUS
  <2>2. PICK j \in 2 .. pg[p].length - 1 : q = Spot(t, pg, p, j)
    BY DEF KidsAt, Spot
  <2>3. pg[p].length <= MaxEntries + 2 /\ pg[p].length \in Nat
    BY <1>4 DEF PageOK, DirOK
  <2>4. j <= MaxEntries + 1
    BY <2>3, ClustersAre
  <2> QED BY <1>3, <2>2, <2>4
<1>13. /\ Image(u, pq) /\ DirsIn(u, pq) = DirsIn(t, pg) \ {p}
       /\ FilesIn(u, pq) = FilesIn(t, pg)
       /\ \A q \in OwnersIn(t, pg) :
             q # p => pq[q] = pg[q] /\ Own(u, pq, q) = Own(t, pg, q)
  BY <1>3, <1>4, <1>5, <1>7, <1>8, <1>9, <1>11, <1>12, FolderHidden
<1>14. ASSUME Lossless(t, pg) PROVE Lossless(u, pq)
  <2>1. p \notin FilesIn(t, pg) /\ p \in OwnersIn(t, pg)
    BY <1>3, <1>4, FileSpot DEF FilesIn, OwnersIn
  <2>2. OwnersIn(u, pq) = OwnersIn(t, pg) \ {p}
    BY <1>13, <2>1 DEF OwnersIn
  <2>3. \A q \in OwnersIn(t, pg) : q # p => Own(t, pg, q) \cap R = {}
    BY <1>3, <1>5, <2>1 DEF Image, Apart
  <2>4. t.used = UNION {Own(t, pg, q) : q \in OwnersIn(t, pg)}
    BY <1>14 DEF Lossless
  <2>5. u.used = t.used \ R
    BY <1>7, <1>8
  <2>6. \A c \in u.used : \E q \in OwnersIn(u, pq) : c \in Own(u, pq, q)
    BY <1>5, <1>13, <2>2, <2>4, <2>5
  <2>7. \A q \in OwnersIn(u, pq) : Own(u, pq, q) \subseteq u.used
    BY <1>13, <2>2, <2>3, <2>4, <2>5
  <2> QED BY <2>6, <2>7 DEF Lossless
<1> QED BY <1>1, <1>2, <1>3, <1>7, <1>8, <1>13, <1>14

LEMMA RmdirKeeps ==
    ASSUME AlwaysFits, Kept, NEW n \in setup.folders, Rmdir(n),
           "again" \notin mishaps'
    PROVE  Whole' /\ ("held" \notin mishaps' => Kept')
<1>1. PICK p : p = Scan(card, page, RootEntry, n)
  OBVIOUS
<1>2. PICK w : w = Emptied(n, p)
  OBVIOUS
<1>3. PICK x : x = RemoveObject(w, p)
  OBVIOUS
<1>4. p \in Page /\ page[p].exists /\ IF ~w.well THEN GoAstray ELSE Leaves(x, {})
  BY <1>1, <1>2, <1>3 DEF Rmdir
<1>5. n \in Folders /\ Image(card, page) /\ Holding(card, page, handle)
  BY NamesAre DEF AlwaysFits, Kept
<1>6. p \in FoldersIn(card, page)
  BY <1>1, <1>4, <1>5, FolderFound
<1>7. Emptying(Before, p, n, 0)
  <2>1. PICK b : b = Before
    OBVIOUS
  <2>2. WorldOK(b) /\ b.pg = page /\ b.t = card /\ b.mishaps = mishaps /\ b.well
    BY <2>1, BeforeOK
  <2>3. \A j \in 2 .. page[p].length - 1 : ~ (j <= 0)
    OBVIOUS
  <2>4. Emptying(b, p, n, 0)
    BY <1>1, <1>5, <1>6, <2>2, <2>3 DEF Emptying
  <2> QED BY <2>1, <2>4
<1>8. WorldOK(w) /\ (Emptying(w, p, n, MaxEntries + 1) \/ Spoiled(w))
  BY <1>2, <1>5, <1>7, FolderEmptied
<1>9. CASE ~w.well \/ ~x.well
  <2>1. GoAstray
    BY <1>4, <1>9 DEF Leaves
  <2> QED BY <2>1, AstrayWhole
<1>10. CASE w.well /\ x.well
  <2>1. Leaves(x, {}) /\ mishaps' = x.mishaps \cup {}
    BY <1>4, <1>10 DEF Leaves
  <2>2. w.mishaps \subseteq x.mishaps
    BY <1>3, <1>8, RemoveMishaps
  <2>3. Emptying(w, p, n, MaxEntries + 1)
    BY <1>8, <1>10, <2>1, <2>2 DEF Spoiled
  <2>4. x # Ill(w)
    BY <1>8, <1>10, IllOK
  <2>6. /\ w.mishaps \subseteq x.mishaps /\ Image(x.t, x.pg)
        /\ FilesIn(x.t, x.pg) = FilesIn(w.t, w.pg)
        /\ \A q \in OwnersIn(w.t, w.pg) :
              q # p => x.pg[q] = w.pg[q] /\ Own(x.t, x.pg, q) = Own(w.t, w.pg, q)
        /\ Lossless(w.t, w.pg) => Lossless(x.t, x.pg)
    BY <1>3, <2>3, <2>4, FolderRemoved
  <2>7. /\ mishaps \subseteq w.mishaps
        /\ \A q \in FilesIn(card, page) :
              q \notin FilesIn(w.t, w.pg) => Held(q) = {} \/ "held" \in w.mishaps
        /\ \A q \in OwnersIn(w.t, w.pg) :
              w.pg[q] = page[q] /\ Own(w.t, w.pg, q) = Own(card, page, q)
        /\ Lossless(card, page) => Lossless(w.t, w.pg)
    BY <2>3 DEF Emptying
  <2>8. ASSUME "held" \notin mishaps' PROVE Holding(x.t, x.pg, handle)
    <3>1. ASSUME NEW g \in Handles, handle[g].entry # Nowhere, NEW q, q = handle[g].entry
          PROVE  /\ q \in FilesIn(x.t, x.pg) /\ x.pg[q].cluster = page[q].cluster
                 /\ x.pg[q].length = page[q].length /\ Own(x.t, x.pg, q) = Own(card, page, q)
      <4>1. q \in FilesIn(card, page)
        BY <1>5, <3>1 DEF Holding, Holds
      <4>2. g \in Held(q)
        BY <3>1 DEF Held
      <4>3. "held" \notin x.mishaps /\ "held" \notin w.mishaps
        BY <2>1, <2>2, <2>8
      <4>5. Held(p) = {}
        BY <1>3, <1>8, <2>4, <4>3, RemoveSays
      <4>6. q \in FilesIn(w.t, w.pg) /\ q # p
        BY <2>7, <4>1, <4>2, <4>3, <4>5
      <4> QED BY <2>6, <2>7, <4>6 DEF OwnersIn
    <3> QED BY <1>5, <3>1, HoldingKept
  <2> QED BY <2>1, <2>2, <2>6, <2>7, <2>8, LeavesKeeps
<1> QED BY <1>9, <1>10

-----------------------------------------------------------------------------
(***************************************************************************)
(* An image without mishaps stays one.                                     *)
(***************************************************************************)
LEMMA EmptiedMishaps ==
    ASSUME NEW n, NEW p, WorldOK(Before), NEW w, w = Emptied(n, p)
    PROVE  WorldOK(w) /\ Before.mishaps \subseteq w.mishaps
<1>1. PICK f : Removes(f, MaxEntries + 1, n, p) /\ Emptied(n, p) = f[MaxEntries + 1]
  BY EmptiedIs
<1> DEFINE k == MaxEntries + 1
           good(m) == WorldOK(f[m]) /\ Before.mishaps \subseteq f[m].mishaps
           bad == {m \in 0 .. k : ~good(m)}
<1>2. ASSUME bad # {} PROVE FALSE
  <2>1. bad \in SUBSET Nat
    OBVIOUS
  <2>2. PICK m \in bad : \A v \in bad : m <= v
    BY <1>2, <2>1, LeastIn
  <2>3. m # 0
    <3>1. f[0] = Before
      BY <1>1 DEF Removes
    <3>2. good(0)
      BY <3>1
    <3> QED BY <2>2, <3>2
  <2>4. m \in 1 .. k /\ m - 1 \in 0 .. k /\ ~ (m <= m - 1)
    BY <2>1, <2>3, ClustersAre
  <2>5. good(m - 1)
    BY <2>2, <2>4
  <2>6. f[m] = RemoveChild(f[m - 1], n, p, m)
    BY <1>1, <2>4 DEF Removes
  <2>7. PICK v, y : v = f[m - 1] /\ y = f[m]
    OBVIOUS
  <2>8. WorldOK(v) /\ Before.mishaps \subseteq v.mishaps /\ y = RemoveChild(v, n, p, m)
    BY <2>5, <2>6, <2>7
  <2>9. WorldOK(y)
    BY <2>8, RemoveChildOK
  <2>10. v.mishaps \subseteq y.mishaps
    <3>1. PICK q : q = Spot(v.t, v.pg, p, m)
      OBVIOUS
    <3>2. PICK r : r = Lookup(v.t, v.pg, [dir |-> n, name |-> v.pg[q].name])
      OBVIOUS
    <3>3. y = v \/ y = Ill(v) \/ y = RemoveObject(v, r) \/ y = Passed(v)
      BY <2>8, <3>1, <3>2, RemoveChildIs
    <3>4. CASE y = Ill(v)
      BY <2>8, <3>4, IllOK
    <3>5. CASE y = RemoveObject(v, r)
      BY <2>8, <3>5, RemoveMishaps
    <3>6. CASE y = Passed(v)
      BY <2>8, <3>6, PassedOK
    <3> QED BY <3>3, <3>4, <3>5, <3>6
  <2> QED BY <2>2, <2>7, <2>8, <2>9, <2>10
<1>3. k \in 0 .. k
  BY ClustersAre
<1>4. good(k)
  BY <1>2, <1>3
<1> QED BY <1>1, <1>4

\* A mishap is not undone.
LEMMA LeavesGrow ==
    ASSUME NEW w, NEW more, Leaves(w, more), mishaps \subseteq w.mishaps
    PROVE  mishaps \subseteq mishaps'
  BY DEF Leaves, GoAstray

LEMMA OpenGrows ==
    ASSUME NEW h, NEW path, NEW mode, OpenNew(h, path, mode) \/ OpenFound(h, path, mode)
    PROVE  mishaps \subseteq mishaps'
<1>1. CASE OpenNew(h, path, mode)
  BY <1>1 DEF OpenNew, GoAstray
<1>2. CASE OpenFound(h, path, mode)
  BY <1>2 DEF OpenFound, GoAstray
<1> QED BY <1>1, <1>2

LEMMA WriteGrows ==
    ASSUME NEW h, NEW k, WriteInPlace(h, k) \/ WriteGrowing(h, k)
    PROVE  mishaps \subseteq mishaps'
<1>1. ASSUME NEW t, NEW pg, NEW f, Store(h, t, pg, f, k)
      PROVE  mishaps' = mishaps
  BY <1>1 DEF Store, GoAstray
<1>2. ASSUME NEW t, NEW pg, NEW f, Short(h, t, pg, f)
      PROVE  mishaps \subseteq mishaps'
  BY <1>2 DEF Short
<1>3. CASE WriteInPlace(h, k)
  BY <1>1, <1>3 DEF WriteInPlace
<1>4. CASE WriteGrowing(h, k)
  <2>1. \/ GoAstray
        \/ \E t, pg, f : Short(h, t, pg, f)
        \/ \E t, pg, f : Store(h, t, pg, f, k)
    BY <1>4 DEF WriteGrowing
  <2> QED BY <1>1, <1>2, <2>1 DEF GoAstray
<1> QED BY <1>3, <1>4

LEMMA RemoveGrows ==
    ASSUME AlwaysFits, NEW path, NEW n, Remove(path) \/ Rmdir(n)
    PROVE  mishaps \subseteq mishaps'
<1>1. PICK b : b = Before
  OBVIOUS
<1>2. WorldOK(b) /\ b.mishaps = mishaps
  BY <1>1, BeforeOK
<1>3. CASE Remove(path)
  <2>1. PICK p : p = Lookup(card, page, path)
    OBVIOUS
  <2>2. PICK x : x = RemoveObject(b, p)
    OBVIOUS
  <2>3. Leaves(x, Buried(path))
    BY <1>1, <1>3, <2>1, <2>2 DEF Remove
  <2> QED BY <1>2, <2>2, <2>3, RemoveMishaps, LeavesGrow
<1>4. CASE Rmdir(n)
  <2>1. PICK p : p = Scan(card, page, RootEntry, n)
    OBVIOUS
  <2>2. PICK w : w = Emptied(n, p)
    OBVIOUS
  <2>3. PICK x : x = RemoveObject(w, p)
    OBVIOUS
  <2>4. GoAstray \/ Leaves(x, {})
    BY <1>4, <2>1, <2>2, <2>3 DEF Rmdir
  <2>5. WorldOK(w) /\ mishaps \subseteq w.mishaps
    BY <1>1, <1>2, <2>2, EmptiedMishaps
  <2>6. w.mishaps \subseteq x.mishaps
    BY <2>3, <2>5, RemoveMishaps
  <2>7. CASE Leaves(x, {})
    BY <2>5, <2>6, <2>7, LeavesGrow
  <2> QED BY <2>4, <2>7 DEF GoAstray
<1> QED BY <1>3, <1>4

LEMMA MishapsGrow ==
    ASSUME AlwaysFits, [Next]_vars
    PROVE  mishaps \subseteq mishaps'
<1>1. ASSUME NEW h \in setup.handles, NEW path \in Paths, NEW mode \in Modes,
             OpenNew(h, path, mode) \/ OpenFound(h, path, mode)
      PROVE  mishaps \subseteq mishaps'
  BY <1>1, OpenGrows
<1>2. ASSUME NEW h \in setup.handles, Close(h)
      PROVE  mishaps \subseteq mishaps'
  BY <1>2 DEF Close
<1>3. ASSUME NEW h \in setup.handles, NEW k \in 1 .. MaxLength,
             Read(h, k) \/ WriteInPlace(h, k) \/ WriteGrowing(h, k)
      PROVE  mishaps \subseteq mishaps'
  BY <1>3, WriteGrows DEF Read, GoAstray
<1>4. ASSUME NEW h \in setup.handles, NEW p \in 0 .. MaxLength, Seek(h, p)
      PROVE  mishaps \subseteq mishaps'
  BY <1>4 DEF Seek
<1>5. ASSUME NEW path \in Paths, Remove(path) \/ SearchAstray(path)
      PROVE  mishaps \subseteq mishaps'
  BY <1>5, RemoveGrows DEF SearchAstray, GoAstray
<1>6. ASSUME NEW path \in Paths, NEW n \in setup.names, Rename(path, n)
      PROVE  mishaps \subseteq mishaps'
  BY <1>6 DEF Rename
<1>7. ASSUME NEW n \in setup.folders, MkdirNew(n) \/ MkdirHidden(n) \/ Rmdir(n)
      PROVE  mishaps \subseteq mishaps'
  <2>1. CASE MkdirNew(n)
    BY <2>1 DEF MkdirNew, GoAstray
  <2>2. CASE MkdirHidden(n)
    BY <2>2 DEF MkdirHidden, GoAstray
  <2>3. CASE Rmdir(n)
    BY <2>3, RemoveGrows
  <2> QED BY <1>7, <2>1, <2>2, <2>3
<1>8. ASSUME Clean \/ Remount \/ Over \/ UNCHANGED vars
      PROVE  mishaps \subseteq mishaps'
  BY <1>8 DEF Clean, Remount, Over, vars
<1> QED BY <1>1, <1>2, <1>3, <1>4, <1>5, <1>6, <1>7, <1>8 DEF Next

LEMMA InitKept == Init => Kept
<1> SUFFICES ASSUME Init PROVE Kept
  OBVIOUS
<1>1. AlwaysFits
  BY InitFits
<1>2. PICK t, pg : t = card /\ pg = page
  OBVIOUS
<1>3. TableOK(t) /\ PagesOK(pg) /\ Linked(t) /\ Ranked(t)
  BY <1>1, <1>2 DEF AlwaysFits, TableOK, Sane
<1>4. t.next = [c \in Fat |-> End] /\ t.used = {Root}
  BY <1>2 DEF Init
<1>5. /\ pg[RootEntry] = Made("folder", Dot, Root, 2)
      /\ pg[<<Root, 1>>] = Made("folder", Dot, Root, 0)
      /\ \A q \in Page : q \notin {RootEntry, <<Root, 1>>} => pg[q] = Blank
  <2>1. pg = [p \in Page |->
                 IF p = RootEntry THEN Made("folder", Dot, Root, 2)
                 ELSE IF p = <<Root, 1>> THEN Made("folder", Dot, Root, 0)
                 ELSE Blank]
    BY <1>2 DEF Init
  <2>2. RootEntry \in Page /\ <<Root, 1>> \in Page /\ <<Root, 1>> # RootEntry
    BY PagesAre, ClustersAre DEF RootEntry
  <2> QED BY <2>1, <2>2
<1>6. /\ pg[RootEntry].length = 2 /\ pg[RootEntry].name = Dot /\ pg[RootEntry].kind = "folder"
      /\ pg[RootEntry].cluster = Root /\ pg[RootEntry] # Blank
      /\ pg[<<Root, 1>>].length = 0 /\ pg[<<Root, 1>>].name = Dot
      /\ pg[<<Root, 1>>].kind = "folder" /\ pg[<<Root, 1>>] # Blank
  <2>1. PICK e, g : e = Made("folder", Dot, Root, 2) /\ g = Made("folder", Dot, Root, 0)
    OBVIOUS
  <2>2. EntryFits(e) /\ EntryFits(g)
    <3>1. Root \in Fat /\ 2 \in Nat /\ 0 \in Nat /\ 2 <= MaxEntries + 2 /\ 0 <= MaxEntries + 2
      BY ClustersAre
    <3>2. EntryFits(e)
      BY <2>1, <3>1, MadeFits, ZenonT(60)
    <3>3. EntryFits(g)
      BY <2>1, <3>1, MadeFits, ZenonT(60)
    <3> QED BY <3>2, <3>3
  <2>3. e # Blank /\ g # Blank
    BY <2>2, BlankAssumption DEF EntryFits
  <2>4. /\ e.length = 2 /\ e.name = Dot /\ e.kind = "folder" /\ e.cluster = Root
        /\ g.length = 0 /\ g.name = Dot /\ g.kind = "folder"
    BY <2>1 DEF Made
  <2> QED BY <1>5, <2>1, <2>3, <2>4
<1>7. KidsAt(t, pg, RootEntry) = {}
  <2>1. 2 .. 2 - 1 = {}
    OBVIOUS
  <2> QED BY <1>6, <2>1 DEF KidsAt
<1>8. FoldersIn(t, pg) = {} /\ DirsIn(t, pg) = {RootEntry} /\ KidFiles(t, pg) = {}
      /\ FilesIn(t, pg) = {} /\ OwnersIn(t, pg) = {RootEntry}
  <2>1. FoldersIn(t, pg) = {}
    BY <1>7 DEF FoldersIn, Sitting
  <2>2. DirsIn(t, pg) = {RootEntry}
    BY <2>1 DEF DirsIn
  <2>3. KidFiles(t, pg) = {}
    BY <1>7, <2>2 DEF KidFiles
  <2> QED BY <2>1, <2>2, <2>3 DEF FilesIn, OwnersIn
<1>9. Runs(t, Root, 1) /\ Walk(t, Root)[0] = Root /\ Reached(t, Root) = {Root}
  <2>1. t.next[Root] = End /\ Root \in Fat
    BY <1>4, ClustersAre
  <2>2. Runs(t, Root, 1) /\ Walk(t, Root)[0] = Root
    BY <2>1, SingleRun
  <2>3. Reached(t, Root) = {Walk(t, Root)[k] : k \in 0 .. 1 - 1}
    BY <1>3, <2>2, RunsIs
  <2>4. 0 .. 1 - 1 = {0}
    OBVIOUS
  <2> QED BY <2>2, <2>3, <2>4
<1>10. Own(t, pg, RootEntry) = {Root}
  BY <1>6, <1>9 DEF Own
<1>11. DirOK(t, pg, RootEntry)
  <2>1. (2 + 1) \div 2 = 1 /\ 0 .. 2 - 1 = {0, 1} /\ 0 \div 2 = 0 /\ 1 \div 2 = 0
        /\ 0 % 2 = 0 /\ 1 % 2 = 1
    OBVIOUS
  <2>2. Spot(t, pg, RootEntry, 0) = RootEntry /\ Spot(t, pg, RootEntry, 1) = <<Root, 1>>
    BY <1>6, <1>9, <2>1 DEF Spot, At, RootEntry
  <2>3. Owned(t, Root, 1)
    BY <1>4, <1>9 DEF Owned
  <2> QED BY <1>6, <2>1, <2>2, <2>3 DEF DirOK
<1>12. \A q \in Page : pg[q] # Blank => PageOK(pg[q])
  BY <1>5, <1>6, VmcAssumption, ClustersAre DEF PageOK
<1>13. Image(t, pg)
  BY <1>3, <1>8, <1>11, <1>12 DEF Image, Apart
<1>14. Lossless(t, pg)
  BY <1>4, <1>8, <1>10 DEF Lossless
<1>15. Holding(card, page, handle)
  <2>1. \A h \in Handles : handle[h].entry = Nowhere
    BY DEF Init, Closed
  <2> QED BY <2>1 DEF Holding
<1>16. ~event.stray
  BY QuietFits DEF Init
<1> QED BY <1>2, <1>13, <1>14, <1>15, <1>16 DEF Kept

\* A call before which nothing worse has happened.
LEMMA StepSettles ==
    ASSUME AlwaysFits, Kept, [Next]_vars, Tearing \cap mishaps' = {}
    PROVE  Settled' /\ (Sound' => Kept')
<1>1. /\ {"kept", "reopened", "again", "buried", "retaken"} \cap mishaps' = {}
      /\ Sound' => /\ "short" \notin mishaps' /\ "half" \notin mishaps'
                   /\ "shared" \notin mishaps' /\ "held" \notin mishaps'
  BY DEF Tearing, Sound
<1>2. ASSUME NEW h \in setup.handles, NEW path \in Paths, NEW mode \in Modes,
             OpenNew(h, path, mode) \/ OpenFound(h, path, mode)
      PROVE  Settled' /\ (Sound' => Kept')
  <2>1. "buried" \notin mishaps' /\ {"buried", "reopened", "kept"} \cap mishaps' = {}
    BY <1>1
  <2>2. CASE OpenNew(h, path, mode)
    BY <2>1, <2>2, OpenNewKeeps, KeptNext
  <2>3. CASE OpenFound(h, path, mode)
    BY <1>1, <2>1, <2>3, OpenFoundKeeps, WholeNext
  <2> QED BY <1>2, <2>2, <2>3
<1>3. ASSUME NEW h \in setup.handles, Close(h) PROVE Kept'
  BY <1>3, CloseKeeps
<1>4. ASSUME NEW h \in setup.handles, NEW k \in 1 .. MaxLength,
             Read(h, k) \/ WriteInPlace(h, k) \/ WriteGrowing(h, k)
      PROVE  Settled' /\ (Sound' => Kept')
  <2>1. CASE Read(h, k) \/ WriteInPlace(h, k)
    BY <2>1, ReadKeeps, WriteInPlaceKeeps, KeptNext
  <2>2. CASE WriteGrowing(h, k)
    BY <1>1, <2>2, WriteGrowingKeeps
  <2> QED BY <1>4, <2>1, <2>2
<1>5. ASSUME NEW h \in setup.handles, NEW p \in 0 .. MaxLength, Seek(h, p) PROVE Kept'
  BY <1>5, SeekKeeps
<1>6. ASSUME NEW path \in Paths, Remove(path) \/ SearchAstray(path)
      PROVE  Settled' /\ (Sound' => Kept')
  <2>1. {"buried", "again"} \cap mishaps' = {}
    BY <1>1
  <2>2. CASE Remove(path)
    BY <1>1, <2>1, <2>2, RemoveKeeps, WholeNext
  <2>3. CASE SearchAstray(path)
    BY <2>3, AstrayKeeps, KeptNext DEF SearchAstray
  <2> QED BY <1>6, <2>2, <2>3
<1>7. ASSUME NEW path \in Paths, NEW n \in setup.names, Rename(path, n) PROVE Kept'
  <2>1. "buried" \notin mishaps'
    BY <1>1
  <2> QED BY <1>7, <2>1, RenameKeeps
<1>8. ASSUME NEW n \in setup.folders, MkdirNew(n) \/ MkdirHidden(n) \/ Rmdir(n)
      PROVE  Settled' /\ (Sound' => Kept')
  <2>1. "retaken" \notin mishaps' /\ "again" \notin mishaps'
    BY <1>1
  <2>2. CASE MkdirNew(n)
    BY <1>1, <2>2, MkdirNewKeeps
  <2>3. CASE MkdirHidden(n)
    BY <2>1, <2>3, MkdirHiddenKeeps, KeptNext
  <2>4. CASE Rmdir(n)
    BY <1>1, <2>1, <2>4, RmdirKeeps, WholeNext
  <2> QED BY <1>8, <2>2, <2>3, <2>4
<1>9. CASE Clean
  BY <1>9, CleanKeeps, KeptNext
<1>10. CASE Remount
  BY <1>10, RemountKeeps, KeptNext
<1>11. CASE UNCHANGED vars \/ Over
  <2>1. UNCHANGED <<card, page, handle, mishaps, event>>
    BY <1>11 DEF vars, Over
  <2>2. Kept'
    BY <2>1 DEF Kept
  <2> QED BY <2>2, KeptNext
<1> QED BY <1>2, <1>3, <1>4, <1>5, <1>6, <1>7, <1>8, <1>9, <1>10, <1>11, KeptNext DEF Next

LEMMA StepKept ==
    ASSUME AlwaysFits, Sound => Kept, [Next]_vars, Sound'
    PROVE  Kept'
<1>1. Sound /\ Tearing \cap mishaps' = {}
  BY MishapsGrow DEF Sound, Tearing
<1> QED BY <1>1, StepSettles

-----------------------------------------------------------------------------
(***************************************************************************)
(* What it shows of the properties.                                        *)
(***************************************************************************)
LEMMA SoundIsKept == Spec => [](AlwaysFits /\ (Sound => Kept))
<1>1. Init => AlwaysFits /\ (Sound => Kept)
  BY InitFits, InitKept
<1>2. AlwaysFits /\ (Sound => Kept) /\ [Next]_vars => AlwaysFits' /\ (Sound => Kept)'
  BY StepFits, StepKept
<1> QED BY <1>1, <1>2, PTL DEF Spec

\* The properties' names for what an image is made of.
LEMMA ImageNames ==
    ASSUME FilesIn(card, page) \subseteq Page
    PROVE  /\ LiveFolders = FoldersIn(card, page) /\ Directories = DirsIn(card, page)
           /\ LiveFiles = FilesIn(card, page)
           /\ \A p : ClustersAt(p) = Own(card, page, p)
<1>1. \A d : Listed(d) = Sitting(page, KidsAt(card, page, d))
  BY DEF Listed, Sitting, KidsAt
<1>2. LiveFolders = FoldersIn(card, page)
  BY <1>1 DEF LiveFolders, FoldersIn
<1>3. Directories = DirsIn(card, page)
  BY <1>2 DEF Directories, DirsIn
<1>4. LiveFiles \subseteq FilesIn(card, page)
  BY <1>1, <1>3 DEF LiveFiles, FilesIn, KidFiles, Sitting
<1>5. FilesIn(card, page) \subseteq LiveFiles
  <2>1. SUFFICES ASSUME NEW q \in FilesIn(card, page) PROVE q \in LiveFiles
    OBVIOUS
  <2>2. q \in KidFiles(card, page) /\ page[q].exists
    BY DEF FilesIn
  <2>3. q \in Page /\ page[q] # Blank /\ page[q].kind = "file"
        /\ \E d \in DirsIn(card, page) : q \in KidsAt(card, page, d)
    BY <2>2 DEF KidFiles
  <2>4. PICK d \in DirsIn(card, page) : q \in KidsAt(card, page, d)
    BY <2>3
  <2>5. q \in Listed(d)
    BY <1>1, <2>2, <2>3, <2>4 DEF Sitting
  <2> QED BY <1>3, <2>3, <2>4, <2>5 DEF LiveFiles
<1>6. \A p : ClustersAt(p) = Own(card, page, p)
  BY DEF ClustersAt, Own
<1> QED BY <1>2, <1>3, <1>4, <1>5, <1>6

LEMMA SettledApart ==
    ASSUME Settled PROVE FilesApart
<1>1. Orderly(card, page) /\ FilesIn(card, page) \subseteq Page
  BY DEF Settled, Orderly
<1>2. \A p, q \in LiveFiles \cup Directories : p # q => ClustersAt(p) \cap ClustersAt(q) = {}
  <2>1. LiveFiles \cup Directories = OwnersIn(card, page)
    BY <1>1, ImageNames DEF OwnersIn
  <2> QED BY <1>1, <2>1, ImageNames DEF Orderly, Apart
<1>3. \A p \in LiveFiles : /\ ClustersAt(p) \subseteq card.used
                           /\ Size(page[p].length) <= Cardinality(ClustersAt(p))
  BY <1>1, ImageNames DEF Orderly, FileOK
<1> QED BY <1>2, <1>3 DEF FilesApart

LEMMA SettledLossless ==
    ASSUME AlwaysFits, Settled PROVE NothingLost
<1>1. /\ Orderly(card, page) /\ FilesIn(card, page) \subseteq Page
      /\ TableOK(card) /\ Linked(card) /\ Ranked(card)
  BY DEF Settled, Orderly, AlwaysFits, TableOK, Sane
<1>2. ASSUME "dropped" \notin mishaps
      PROVE  card.used = DirClusters \cup UNION {ClustersAt(p) : p \in LiveFiles}
  <2>1. card.used = UNION {Own(card, page, p) : p \in OwnersIn(card, page)}
    BY <1>2 DEF Settled, Lossless
  <2>2. /\ OwnersIn(card, page) = LiveFiles \cup Directories
        /\ \A p : ClustersAt(p) = Own(card, page, p)
    BY <1>1, ImageNames DEF OwnersIn
  <2> QED BY <2>1, <2>2 DEF DirClusters
<1>3. ASSUME "half" \notin mishaps, NEW d \in Directories
      PROVE  Cardinality(ClustersAt(d)) = (page[d].length + 1) \div 2
  <2>1. DirOK(card, page, d)
    BY <1>1, <1>3, ImageNames DEF Settled, Listings
  <2>2. Runs(card, page[d].cluster, (page[d].length + 1) \div 2)
    BY <2>1 DEF DirOK, Owned
  <2>3. Cardinality(Reached(card, page[d].cluster)) = (page[d].length + 1) \div 2
    BY <1>1, <2>2, RunsIs
  <2> QED BY <2>3 DEF ClustersAt
<1>4. \A c \in Fat : c \notin card.used => card.hint <= FirstAllocatable + c
  BY <1>1 DEF TableOK, HintLow
<1> QED BY <1>2, <1>3, <1>4 DEF NothingLost, Unless

LEMMA SettledFound ==
    ASSUME Settled, "half" \notin mishaps PROVE ListedIsFound
<1>1. Listings(card, page) /\ FilesIn(card, page) \subseteq Page
  BY DEF Settled, Orderly
<1>2. SUFFICES
        ASSUME NEW d \in Directories, NEW i \in 2 .. page[d].length - 1,
               \A j \in 2 .. i - 1 : ~Matches(page[Spot(card, page, d, j)].name,
                                              page[Spot(card, page, d, i)].name)
        PROVE  /\ ~Unreadable(page, Spot(card, page, d, i))
               /\ Scan(card, page, d, page[Spot(card, page, d, i)].name) = Spot(card, page, d, i)
  <2>1. ASSUME NEW d \in Directories, NEW i \in 2 .. page[d].length - 1
        PROVE  ~Unreadable(page, Spot(card, page, d, i))
    <3>1. DirOK(card, page, d)
      BY <1>1, ImageNames DEF Listings
    <3>2. i \in 0 .. page[d].length - 1
      BY <3>1 DEF DirOK
    <3>3. Spot(card, page, d, i) \in Page /\ page[Spot(card, page, d, i)] # Blank
      BY <3>1, <3>2, SpotIs DEF DirOK
    <3> QED BY <3>3 DEF Unreadable
  <2> QED BY <1>2, <2>1 DEF ListedIsFound, Spot
<1>3. PICK q, n : q = Spot(card, page, d, i) /\ n = page[q].name
  OBVIOUS
<1>4. DirOK(card, page, d)
  BY <1>1, ImageNames DEF Listings
<1>5. page[d].length \in Nat /\ i \in 0 .. page[d].length - 1 /\ i \in Nat /\ ~ (i < 2)
  BY <1>4 DEF DirOK
<1>6. q \in Page /\ page[q] # Blank /\ n # Dot
  BY <1>3, <1>4, <1>5, SpotIs DEF DirOK
<1>7. FirstMatch(card, page, d, n, i)
  <2>1. Matches(page[Spot(card, page, d, i)].name, n)
    BY <1>3 DEF Matches
  <2>2. ASSUME NEW j \in 0 .. i - 1 PROVE ~Matches(page[Spot(card, page, d, j)].name, n)
    <3>1. CASE j < 2
      <4>1. j \in 0 .. page[d].length - 1
        BY <1>5
      <4>2. page[Spot(card, page, d, j)].name = Dot
        BY <1>4, <3>1, <4>1 DEF DirOK
      <4> QED BY <1>6, <4>2, VmcAssumption DEF Matches
    <3>2. CASE ~ (j < 2)
      <4>1. j \in 2 .. i - 1
        BY <1>5, <3>2
      <4> QED BY <1>2, <1>3, <4>1
    <3> QED BY <3>1, <3>2
  <2> QED BY <1>5, <2>1, <2>2 DEF FirstMatch
<1>8. Scan(card, page, d, n) = q
  BY <1>3, <1>4, <1>7, ScanFirst DEF Result
<1> QED BY <1>3, <1>6, <1>8 DEF Unreadable

\* A state in which nothing has torn the image, or which says nothing of it.
Calm == Tearing \cap mishaps = {} => Settled

LEMMA CalmShows ==
    AlwaysFits /\ Calm => FilesApart /\ WritesOwn /\ NothingLost /\ ListedIsFound
<1>1. SUFFICES ASSUME AlwaysFits, Calm
               PROVE  FilesApart /\ WritesOwn /\ NothingLost /\ ListedIsFound
  OBVIOUS
<1>2. CASE Settled
  <2>1. ListedIsFound
    BY <1>2, SettledFound DEF ListedIsFound, Unless
  <2> QED BY <1>1, <1>2, <2>1, SettledApart, SettledLossless DEF Settled, WritesOwn
<1>3. CASE Tearing \cap mishaps # {}
  <2>1. Unless(Tearing) /\ Unless(Tearing \cup {"held", "shared"})
        /\ Unless(Tearing \cup {"dropped", "shared", "missed"})
        /\ Unless(Tearing \cup {"half", "held"})
    BY <1>3 DEF Unless
  <2>2. \A c \in Fat : c \notin card.used => card.hint <= FirstAllocatable + c
    BY <1>1 DEF AlwaysFits, TableOK, HintLow
  <2> QED BY <2>1, <2>2 DEF FilesApart, WritesOwn, NothingLost, ListedIsFound
<1> QED BY <1>1, <1>2, <1>3 DEF Calm

LEMMA SoundShows ==
    Spec => [](Sound => FilesApart /\ WritesOwn /\ NothingLost /\ ListedIsFound)
<1>1. AlwaysFits /\ (Sound => Kept) => (Sound => AlwaysFits /\ Calm)
  BY WholeSettles DEF Calm, Kept, Whole
<1> QED BY <1>1, SoundIsKept, CalmShows, PTL

\* getFreeCluster misses no free cluster, whatever has gone wrong on the image: the hint
\* it searches from, a card address, never passes a cluster that is free.
THEOREM HintNeverPasses == Spec => []HintLow(card)
<1>1. AlwaysFits => HintLow(card)
  BY DEF AlwaysFits, TableOK
<1> QED BY <1>1, VmcAlwaysFits, PTL

\* As long as nothing worse has happened than a truncation that drops a cluster or a
\* seek past the end, no two files or directories share a cluster, and a file's clusters
\* are allocated and enough for its length.
THEOREM FilesStayApart == Spec => [](Sound => FilesApart)
BY SoundShows, PTL

\* As long as that holds, Vmc_Write writes to allocated clusters of its own file only.
THEOREM WritesStayOwn == Spec => [](Sound => WritesOwn)
BY SoundShows, PTL

\* As long as that holds, every allocated cluster is a directory's or a file's (unless
\* a truncation has dropped one), and a directory has as many as its entries need.
THEOREM NothingGetsLost == Spec => [](Sound => NothingLost)
BY SoundShows, PTL

\* As long as that holds, a path finds the page Vmc_Dread lists, unless an entry before
\* it has the name or one that begins it.
THEOREM ListedStaysFound == Spec => [](Sound => ListedIsFound)
BY SoundShows, PTL

\* The call on which the first other thing goes wrong leaves all four true: a Vmc_Write
\* that runs out of clusters and a Vmc_Mkdir that stops half way keep those they took,
\* and a second Vmc_Open of a file, or the removal of an open one, takes none from
\* another.  (The mishaps of Tearing the properties except themselves.)
THEOREM FirstMishapHolds ==
    Spec => [][Sound => (FilesApart /\ WritesOwn /\ NothingLost /\ ListedIsFound)']_vars
<1>1. AlwaysFits /\ (Sound => Kept) /\ [Next]_vars => (Sound => Calm')
  BY StepSettles DEF Calm
<1> QED BY <1>1, SoundIsKept, CalmShows, PTL DEF Spec
=============================================================================
