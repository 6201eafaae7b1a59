---------------------------- MODULE EditorProofs ----------------------------
(***************************************************************************)
(* The counted sizes, the line ends and the unsaved texts of the editor,   *)
(* for any number of windows, any files and texts of any length.           *)
(***************************************************************************)
EXTENDS Editor, SequenceTheorems, WellFoundedInduction, TLAPS

-----------------------------------------------------------------------------
(***************************************************************************)
(* The inductive invariant.                                                *)
(***************************************************************************)
\* Between calls of the editor nothing is marked, and without a window the cursor is at 0.
IdleSound ==
    /\ ~running => ~mark.on
    /\ ~W.opened => Cur = 0 /\ ~mark.on

\* A zero byte in a file is the terminator of a text, saved with it.
FilesSound ==
    \A n \in Names :
        /\ \A i \in 1 .. Len(disk[n]) : disk[n][i] = "nul" => i = Len(disk[n])
        /\ Len(disk[n]) = MaxLen + 1 => disk[n][Len(disk[n])] = "nul"

\* An offset in text s that is not between the two halves of a line end.
Between(s, i) == CharAt(s, i - 1) # "cr"

\* What LineEndsWhole excepts.
Mixing == {"mixed", "carried", "shifted"}

\* A mark in mode other starts in front of a CR, never behind it.
MarkWhole ==
    W.mode = "other" /\ mark.on => Between(Text, mark.in)

\* What EditsAskedFor excepts.
Losing == {"resaved", "short", "overwritten"}

\* The text of window v is what its file, on disk d, gives.
Held(v, d) == ~v.created /\ v.path \in Names /\ v.text = String(d[v.path])

\* A window counts as saved only while its file holds its text.
SavedSound ==
    mishaps \cap Losing = {} =>
        \A w \in Windows : window[w].opened /\ window[w].saved => Held(window[w], disk)

\* A window that was not made by New has a file.
PathsSound == \A w \in Windows : window[w].opened /\ ~window[w].created => window[w].path \in Names

IInv ==
    /\ TypeOK
    /\ BufferSound
    /\ ~Over => IdleSound
    /\ ~Over => FilesSound
    /\ LineEndsWhole
    /\ ~Over /\ mishaps \cap Mixing = {} => MarkWhole
    /\ SavedSound
    /\ PathsSound
    /\ EditsAskedFor

-----------------------------------------------------------------------------
(***************************************************************************)
(* Texts.                                                                  *)
(***************************************************************************)
LEMMA CharAtIs ==
    ASSUME NEW s \in Seq(Chars), NEW i \in Int
    PROVE  /\ i \in 0 .. Len(s) - 1 => CharAt(s, i) = s[i + 1] /\ CharAt(s, i) \in Chars
           /\ i \notin 0 .. Len(s) - 1 => CharAt(s, i) = "end"
           /\ "end" \notin Chars
<1>1. \A k \in 1 .. Len(s) : s[k] \in Chars
  BY ElementOfSeq
<1>2. i \in 0 .. Len(s) - 1 => i + 1 \in 1 .. Len(s)
  OBVIOUS
<1>3. "end" \notin Chars
  BY DEF Chars
<1> QED BY <1>1, <1>2, <1>3 DEF CharAt

\* A text in which every line end is whole, by its positions.
LEMMA PairedIs ==
    ASSUME NEW s \in Seq(Chars)
    PROVE  Paired(s) <=> \A k \in 1 .. Len(s) :
              /\ s[k] = "cr" => k < Len(s) /\ s[k + 1] = "lf"
              /\ s[k] = "lf" => k > 1 /\ s[k - 1] = "cr"
<1>1. ASSUME NEW k \in 1 .. Len(s)
      PROVE  IsCrLf(s, k - 1) <=> s[k] = "cr" /\ k < Len(s) /\ s[k + 1] = "lf"
  <2>1. CharAt(s, k - 1) = s[k]
    BY CharAtIs, k - 1 \in Int, (k - 1) + 1 = k
  <2>2. k < Len(s) => CharAt(s, (k - 1) + 1) = s[k + 1]
    BY CharAtIs, (k - 1) + 1 \in Int, (k - 1) + 1 = k
  <2>3. ~ (k < Len(s)) => CharAt(s, (k - 1) + 1) = "end"
    BY CharAtIs, (k - 1) + 1 \in Int, (k - 1) + 1 = k
  <2> QED BY <2>1, <2>2, <2>3 DEF IsCrLf
<1> QED BY <1>1 DEF Paired

\* In such a text, an offset lies between two halves by what is on either side of it.
LEMMA BetweenIs ==
    ASSUME NEW s \in Seq(Chars), Paired(s), NEW i \in 0 .. Len(s)
    PROVE  /\ Between(s, i) <=> (i >= 1 => s[i] # "cr")
           /\ Between(s, i) <=> CharAt(s, i) # "lf"
           /\ Between(s, i) <=> ~ IsCrLf(s, i - 1)
<1>1. CharAt(s, i - 1) = IF i >= 1 THEN s[i] ELSE "end"
  BY CharAtIs, i - 1 \in Int, (i - 1) + 1 = i
<1>2. CharAt(s, i) = IF i < Len(s) THEN s[i + 1] ELSE "end"
  BY CharAtIs
<1>3. CharAt(s, (i - 1) + 1) = CharAt(s, i)
  BY (i - 1) + 1 = i
<1>4. i < Len(s) => (s[i + 1] = "lf" <=> i >= 1 /\ s[i] = "cr")
  <2>1. ASSUME i < Len(s), s[i + 1] = "lf" PROVE i >= 1 /\ s[i] = "cr"
    <3>1. i + 1 \in 1 .. Len(s) /\ (i + 1) - 1 = i
      BY <2>1
    <3>2. i + 1 > 1 /\ s[(i + 1) - 1] = "cr"
      BY <2>1, <3>1, PairedIs
    <3> QED BY <3>1, <3>2
  <2>2. ASSUME i < Len(s), i >= 1, s[i] = "cr" PROVE s[i + 1] = "lf"
    BY <2>2, PairedIs, i \in 1 .. Len(s)
  <2> QED BY <2>1, <2>2
<1>5. i >= 1 /\ s[i] = "cr" => i < Len(s)
  BY PairedIs
<1> QED BY <1>1, <1>2, <1>3, <1>4, <1>5 DEF Between, IsCrLf

LEMMA SplicedIs ==
    ASSUME NEW s \in Seq(Chars), NEW i \in 0 .. Len(s), NEW n \in 0 .. Len(s) - i,
           NEW new \in Seq(Chars)
    PROVE  LET r == Spliced(s, i, n, new)
               m == Len(new)
           IN  /\ r \in Seq(Chars)
               /\ Len(r) = Len(s) - n + m
               /\ \A k \in 1 .. Len(r) :
                     /\ k <= i => r[k] = s[k]
                     /\ k > i /\ k <= i + m => r[k] = new[k - i]
                     /\ k > i + m => r[k] = s[k - m + n]
<1> DEFINE r == Spliced(s, i, n, new)
           m == Len(new)
           before == SubSeq(s, 1, i)
           after == SubSeq(s, i + n + 1, Len(s))
<1>1. Len(s) \in Nat /\ m \in Nat /\ \A k \in 1 .. Len(s) : s[k] \in Chars
  BY ElementOfSeq
<1>2. before \in Seq(Chars) /\ Len(before) = i /\ \A k \in 1 .. i : before[k] = s[k]
  <2>1. \A k \in 1 .. i : s[k] \in Chars
    BY <1>1
  <2>2. /\ before \in Seq(Chars)
        /\ Len(before) = IF 1 <= i THEN i - 1 + 1 ELSE 0
        /\ \A k \in 1 .. i - 1 + 1 : before[k] = s[1 + k - 1]
    BY <2>1, SubSeqProperties
  <2> QED BY <2>2
<1>3. /\ after \in Seq(Chars) /\ Len(after) = Len(s) - i - n
      /\ \A k \in 1 .. Len(s) - i - n : after[k] = s[k + i + n]
  <2>1. \A k \in i + n + 1 .. Len(s) : s[k] \in Chars
    BY <1>1
  <2>2. /\ after \in Seq(Chars)
        /\ Len(after) = IF i + n + 1 <= Len(s) THEN Len(s) - (i + n + 1) + 1 ELSE 0
        /\ \A k \in 1 .. Len(s) - (i + n + 1) + 1 : after[k] = s[(i + n + 1) + k - 1]
    BY <1>1, <2>1, SubSeqProperties
  <2>3. \A k \in 1 .. Len(s) - i - n : (i + n + 1) + k - 1 = k + i + n
    BY <1>1
  <2> QED BY <1>1, <2>2, <2>3
<1>4. r = (before \o new) \o after
  BY DEF Spliced
<1> HIDE DEF before, after, r, m
<1>5. /\ before \o new \in Seq(Chars) /\ Len(before \o new) = i + m
      /\ \A k \in 1 .. i + m : (before \o new)[k] = IF k <= i THEN before[k] ELSE new[k - i]
  <2>1. /\ before \o new \in Seq(Chars) /\ Len(before \o new) = Len(before) + Len(new)
        /\ \A k \in 1 .. Len(before) + Len(new) :
              (before \o new)[k] = IF k <= Len(before) THEN before[k] ELSE new[k - Len(before)]
    BY <1>2, ConcatProperties
  <2> QED BY <1>2, <2>1 DEF m
<1>6. /\ r \in Seq(Chars) /\ Len(r) = i + m + (Len(s) - i - n)
      /\ \A k \in 1 .. Len(r) : r[k] = IF k <= i + m THEN (before \o new)[k]
                                       ELSE after[k - (i + m)]
  <2>1. /\ r \in Seq(Chars) /\ Len(r) = Len(before \o new) + Len(after)
        /\ \A k \in 1 .. Len(before \o new) + Len(after) :
              r[k] = IF k <= Len(before \o new) THEN (before \o new)[k]
                     ELSE after[k - Len(before \o new)]
    <3>1. \A q \in Seq(Chars) :
              /\ q \o after \in Seq(Chars) /\ Len(q \o after) = Len(q) + Len(after)
              /\ \A k \in 1 .. Len(q) + Len(after) :
                    (q \o after)[k] = IF k <= Len(q) THEN q[k] ELSE after[k - Len(q)]
      BY <1>3, ConcatProperties
    <3> QED BY <1>4, <1>5, <3>1
  <2> QED BY <1>3, <1>5, <2>1
<1>7. Len(r) = Len(s) - n + m
  BY <1>1, <1>6
<1>8. ASSUME NEW k \in 1 .. Len(r)
      PROVE  /\ k <= i => r[k] = s[k]
             /\ k > i /\ k <= i + m => r[k] = new[k - i]
             /\ k > i + m => r[k] = s[k - m + n]
  <2>1. CASE k <= i
    BY <1>1, <1>2, <1>5, <1>6, <2>1
  <2>2. CASE k > i /\ k <= i + m
    <3>1. k \in 1 .. i + m
      BY <1>1, <2>2
    <3>2. r[k] = (before \o new)[k]
      BY <1>6, <2>2
    <3> QED BY <1>1, <1>5, <2>2, <3>1, <3>2
  <2>3. CASE k > i + m
    <3>1. r[k] = after[k - (i + m)]
      BY <1>1, <1>6, <2>3
    <3>2. k - (i + m) \in 1 .. Len(s) - i - n
      BY <1>1, <1>6, <2>3
    <3>3. (k - (i + m)) + i + n = k - m + n
      BY <1>1
    <3>4. after[k - (i + m)] = s[(k - (i + m)) + i + n]
      BY <1>3, <3>2
    <3>5. ~ (k <= i) /\ ~ (k <= i + m)
      BY <1>1, <2>3
    <3> QED BY <3>1, <3>3, <3>4, <3>5
  <2> QED BY <2>1, <2>2, <2>3, <1>1
<1> QED BY <1>6, <1>7, <1>8 DEF r, m

\* Replacing what lies between two line ends or characters keeps the line ends whole.
LEMMA SplicedWhole ==
    ASSUME NEW s \in Seq(Chars), NEW i \in 0 .. Len(s), NEW n \in 0 .. Len(s) - i,
           NEW new \in Seq(Chars), Paired(s), Paired(new), Between(s, i), Between(s, i + n)
    PROVE  Paired(Spliced(s, i, n, new))
<1> DEFINE m == Len(new)
<1>1. PICK r : r = Spliced(s, i, n, new)
  OBVIOUS
<1> HIDE DEF m
<1>2. /\ r \in Seq(Chars) /\ Len(r) = Len(s) - n + m /\ Len(s) \in Nat /\ m \in Nat
      /\ \A k \in 1 .. Len(r) : k <= i => r[k] = s[k]
      /\ \A k \in 1 .. Len(r) : k > i /\ k <= i + m => r[k] = new[k - i]
      /\ \A k \in 1 .. Len(r) : k > i + m => r[k] = s[k - m + n]
  <2>1. Len(s) \in Nat /\ m \in Nat
    BY DEF m
  <2>2. LET q == Spliced(s, i, n, new)
        IN  /\ q \in Seq(Chars) /\ Len(q) = Len(s) - n + m
            /\ \A k \in 1 .. Len(q) : /\ k <= i => q[k] = s[k]
                                      /\ k > i /\ k <= i + m => q[k] = new[k - i]
                                      /\ k > i + m => q[k] = s[k - m + n]
    BY SplicedIs DEF m
  <2> QED BY <1>1, <2>1, <2>2
<1>3. \A k \in 1 .. Len(s) : /\ s[k] = "cr" => k < Len(s) /\ s[k + 1] = "lf"
                             /\ s[k] = "lf" => k > 1 /\ s[k - 1] = "cr"
  BY PairedIs
<1>4. \A k \in 1 .. m : /\ new[k] = "cr" => k < m /\ new[k + 1] = "lf"
                        /\ new[k] = "lf" => k > 1 /\ new[k - 1] = "cr"
  BY PairedIs DEF m
<1>5. (i >= 1 => s[i] # "cr") /\ (i + n >= 1 => s[i + n] # "cr")
  <2>1. i + n \in 0 .. Len(s)
    BY <1>2
  <2> QED BY <2>1, BetweenIs
<1> SUFFICES ASSUME NEW k \in 1 .. Len(r)
             PROVE  /\ r[k] = "cr" => k < Len(r) /\ r[k + 1] = "lf"
                    /\ r[k] = "lf" => k > 1 /\ r[k - 1] = "cr"
  BY <1>1, <1>2, PairedIs
<1>6. CASE k <= i
  <2>4. r[k] = s[k]
    BY <1>2, <1>6
  <2>5. k >= 1 /\ i <= Len(s) /\ k \in Nat /\ i \in Nat
    BY <1>2
  <2>1. k \in 1 .. Len(s) /\ r[k] = s[k]
    BY <1>2, <1>6, <2>4, <2>5
  <2>2. ASSUME r[k] = "cr" PROVE k < Len(r) /\ r[k + 1] = "lf"
    <3>1. s[k] = "cr" /\ k >= 1
      BY <2>1, <2>2
    <3>3. k # i /\ s[k + 1] = "lf"
      BY <1>3, <1>5, <2>1, <3>1
    <3>2. k + 1 <= i /\ k + 1 \in 1 .. Len(r) /\ k < Len(r)
      BY <1>2, <1>6, <3>3
    <3> QED BY <1>2, <3>2, <3>3
  <2>3. ASSUME r[k] = "lf" PROVE k > 1 /\ r[k - 1] = "cr"
    <3>1. k > 1 /\ s[k - 1] = "cr" /\ k - 1 <= i /\ k - 1 \in 1 .. Len(r)
      BY <1>2, <1>3, <1>6, <2>1, <2>3
    <3> QED BY <1>2, <3>1
  <2> QED BY <2>2, <2>3
<1>7. CASE k > i /\ k <= i + m
  <2>1. k - i \in 1 .. m
    BY <1>2, <1>7
  <2>4. r[k] = new[k - i]
    BY <1>2, <1>7
  <2>2. ASSUME r[k] = "cr" PROVE k < Len(r) /\ r[k + 1] = "lf"
    <3>1. k - i < m /\ new[(k - i) + 1] = "lf"
      BY <1>4, <2>1, <2>2, <2>4
    <3>2. k + 1 <= i + m /\ k + 1 > i /\ k + 1 \in 1 .. Len(r) /\ (k - i) + 1 = (k + 1) - i
      BY <1>2, <1>7, <3>1
    <3>3. k < Len(r)
      BY <1>2, <3>2
    <3>4. r[k + 1] = new[(k + 1) - i]
      BY <1>2, <3>2
    <3> QED BY <3>1, <3>2, <3>3, <3>4
  <2>3. ASSUME r[k] = "lf" PROVE k > 1 /\ r[k - 1] = "cr"
    <3>1. k - i > 1 /\ new[(k - i) - 1] = "cr"
      BY <1>4, <2>1, <2>3, <2>4
    <3>2. k - 1 <= i + m /\ k - 1 > i /\ k - 1 \in 1 .. Len(r) /\ (k - i) - 1 = (k - 1) - i
      BY <1>2, <1>7, <3>1
    <3>3. r[k - 1] = new[(k - 1) - i]
      BY <1>2, <3>2
    <3>4. k > 1
      BY <1>7, <3>2
    <3> QED BY <3>1, <3>2, <3>3, <3>4
  <2> QED BY <2>2, <2>3
<1>8. CASE k > i + m
  <2>1. k - m + n \in 1 .. Len(s) /\ k - m + n > i + n /\ r[k] = s[k - m + n]
    BY <1>2, <1>8
  <2>2. ASSUME r[k] = "cr" PROVE k < Len(r) /\ r[k + 1] = "lf"
    <3>1. k - m + n < Len(s) /\ s[(k - m + n) + 1] = "lf"
      BY <1>3, <2>1, <2>2
    <3>2. k + 1 > i + m /\ k + 1 \in 1 .. Len(r) /\ (k - m + n) + 1 = (k + 1) - m + n
      BY <1>2, <1>8, <3>1
    <3> QED BY <1>2, <3>1, <3>2
  <2>3. ASSUME r[k] = "lf" PROVE k > 1 /\ r[k - 1] = "cr"
    <3>1. k - m + n > 1 /\ s[(k - m + n) - 1] = "cr"
      BY <1>3, <2>1, <2>3
    <3>2. (k - m + n) - 1 # i + n
      BY <1>2, <1>5, <3>1
    <3>3. k - 1 > i + m /\ k - 1 \in 1 .. Len(r) /\ (k - m + n) - 1 = (k - 1) - m + n
      BY <1>2, <1>8, <2>1, <3>2
    <3>4. r[k - 1] = s[(k - 1) - m + n]
      BY <1>2, <3>3
    <3>5. k > 1
      BY <1>2, <3>3
    <3> QED BY <3>1, <3>3, <3>4, <3>5
  <2> QED BY <2>2, <2>3
<1> QED BY <1>2, <1>6, <1>7, <1>8

\* So is what lies between two such offsets.
LEMMA PartWhole ==
    ASSUME NEW s \in Seq(Chars), NEW i \in 0 .. Len(s), NEW j \in i .. Len(s),
           Paired(s), Between(s, i), Between(s, j)
    PROVE  Paired(SubSeq(s, i + 1, j))
<1>1. PICK r : r = SubSeq(s, i + 1, j)
  OBVIOUS
<1>2. Len(s) \in Nat /\ \A k \in i + 1 .. j : s[k] \in Chars
  BY ElementOfSeq
<1>3. /\ r \in Seq(Chars) /\ Len(r) = j - i
      /\ \A k \in 1 .. j - i : r[k] = s[k + i]
  <2>1. /\ r \in Seq(Chars)
        /\ Len(r) = IF i + 1 <= j THEN j - (i + 1) + 1 ELSE 0
        /\ \A k \in 1 .. j - (i + 1) + 1 : r[k] = s[(i + 1) + k - 1]
    BY <1>1, <1>2, SubSeqProperties
  <2>2. \A k \in 1 .. j - i : (i + 1) + k - 1 = k + i
    OBVIOUS
  <2> QED BY <1>2, <2>1, <2>2
<1>4. \A k \in 1 .. Len(s) : /\ s[k] = "cr" => k < Len(s) /\ s[k + 1] = "lf"
                             /\ s[k] = "lf" => k > 1 /\ s[k - 1] = "cr"
  BY PairedIs
<1>5. (i >= 1 => s[i] # "cr") /\ (j >= 1 => s[j] # "cr")
  <2>1. j \in 0 .. Len(s)
    BY <1>2
  <2> QED BY <2>1, BetweenIs
<1> SUFFICES ASSUME NEW k \in 1 .. Len(r)
             PROVE  /\ r[k] = "cr" => k < Len(r) /\ r[k + 1] = "lf"
                    /\ r[k] = "lf" => k > 1 /\ r[k - 1] = "cr"
  BY <1>1, <1>3, PairedIs
<1>6. k + i \in 1 .. Len(s) /\ r[k] = s[k + i]
  BY <1>2, <1>3
<1>7. ASSUME r[k] = "cr" PROVE k < Len(r) /\ r[k + 1] = "lf"
  <2>1. k + i # j /\ s[(k + i) + 1] = "lf"
    <3>1. s[k + i] = "cr" /\ k + i >= 1
      BY <1>6, <1>7
    <3>2. k + i # j
      BY <1>5, <3>1
    <3> QED BY <1>4, <1>6, <3>1, <3>2
  <2>2. k + 1 \in 1 .. j - i /\ (k + i) + 1 = (k + 1) + i
    BY <1>2, <1>3, <2>1
  <2> QED BY <1>3, <2>1, <2>2, <1>2
<1>8. ASSUME r[k] = "lf" PROVE k > 1 /\ r[k - 1] = "cr"
  <2>1. k + i > 1 /\ s[(k + i) - 1] = "cr"
    BY <1>4, <1>6, <1>8
  <2>2. (k + i) - 1 # i
    BY <1>2, <1>5, <2>1
  <2>3. k - 1 \in 1 .. j - i /\ (k + i) - 1 = (k - 1) + i
    BY <1>2, <1>3, <2>2
  <2> QED BY <1>3, <2>1, <2>3, <1>2
<1> QED BY <1>7, <1>8

-----------------------------------------------------------------------------
(***************************************************************************)
(* What a step leaves in order.                                            *)
(***************************************************************************)
EdType == [cur : 0 .. MaxLen + 1, nChar : 0 .. MaxLen + 2,
           insert : BOOLEAN, ret : Modes, kbd : BOOLEAN]
MarkType == [on : BOOLEAN, in : 0 .. MaxLen + 1]
ClipType == [text : Seq(Chars), mode : Modes \cup {"nothing"}]

\* A step of the editor, which counts as an event.
Stepped == ~Over /\ events < MaxEvents /\ events' = events + 1

LEMMA TypesAre ==
    ASSUME TypeOK, NEW w \in Windows
    PROVE  /\ window[w] \in WindowType
           /\ window[w].text \in Seq(Chars) /\ Len(window[w].text) \in 0 .. MaxLen
           /\ window[w].size \in -1 .. MaxLen + 1 /\ window[w].mode \in Modes
           /\ window[w].extra \in 0 .. 1 /\ window[w].opened \in BOOLEAN
           /\ window[w].saved \in BOOLEAN /\ window[w].created \in BOOLEAN
           /\ MaxLen \in Nat
<1>1. window[w] \in WindowType /\ MaxLen \in Nat
  BY EditorAssumption DEF TypeOK
<1> QED BY <1>1, EmptySeq, LenProperties DEF WindowType

\* Editor_Rules keep a cursor that is in the text where it is, and take no other further.
LEMMA RuledIs ==
    ASSUME NEW win \in [Windows -> WindowType], NEW a \in Windows, NEW e \in EdType
    PROVE  LET r == Ruled(win, a, e) IN
           /\ r \in EdType /\ r.cur <= e.cur
           /\ e.cur <= win[a].size => r.cur = e.cur
           /\ win[a].size = 0 => r.cur = e.cur
<1>1. win[a].size \in -1 .. MaxLen + 1 /\ MaxLen \in Nat
  BY EditorAssumption DEF WindowType
<1>2. e.cur \in 0 .. MaxLen + 1
  BY DEF EdType
<1>3. CASE win[a].size = 0
  BY <1>1, <1>2, <1>3 DEF Ruled
<1>4. CASE win[a].size # 0
  <2> DEFINE n == win[a].size + 1
             c == IF e.cur >= n THEN (IF n = 0 THEN 0 ELSE n - 1) ELSE e.cur
  <2>1. n \in 0 .. MaxLen + 2 /\ c \in 0 .. MaxLen + 1 /\ c <= e.cur
    BY <1>1, <1>2
  <2>2. e.cur <= win[a].size => c = e.cur
    BY <1>1, <1>2
  <2>3. Ruled(win, a, e) = [e EXCEPT !.nChar = n, !.cur = c]
    BY <1>4 DEF Ruled
  <2> HIDE DEF n, c
  <2>4. /\ [e EXCEPT !.nChar = n, !.cur = c] \in EdType
        /\ [e EXCEPT !.nChar = n, !.cur = c].cur = c
    BY <2>1 DEF EdType
  <2> QED BY <1>4, <2>1, <2>2, <2>3, <2>4
<1> QED BY <1>3, <1>4

LEMMA MishapsGrow ==
    ASSUME TypeOK, NEW what \in SUBSET Mishaps, Happens(what)
    PROVE  /\ mishaps' \in SUBSET Mishaps /\ mishaps \subseteq mishaps' /\ what \subseteq mishaps'
           /\ mishaps' \cap Mixing = {} => mishaps \cap Mixing = {}
           /\ what \cap Ending # {} => Over'
BY DEF Happens, TypeOK, Over

\* Steps that change no window: the cursor, the mark, the copy buffer, another window.
LEMMA ViewStep ==
    ASSUME IInv, Stepped, window' = window, active' \in Windows, ed' \in EdType,
           mark' \in MarkType, clip' \in ClipType, mishaps' \in SUBSET Mishaps,
           mishaps \subseteq mishaps', running' \in BOOLEAN,
           UNCHANGED <<usbkbd_used, disk, dropped>>,
           ~Over' =>
              LET v == window[active'] IN
              /\ v.opened => ed'.cur <= Len(v.text)
              /\ v.opened /\ mark'.on /\ "carried" \notin mishaps' => mark'.in <= Len(v.text)
              /\ ~running' \/ ~v.opened => ~mark'.on
              /\ ~v.opened => ed'.cur = 0
              /\ mishaps' \cap Mixing = {} /\ mark'.on /\ v.mode = "other" =>
                    Between(v.text, mark'.in)
              /\ mishaps' \cap Mixing = {} /\ clip'.mode = "other" => Paired(clip'.text)
    PROVE  IInv'
<1>1. TypeOK /\ events' \in 0 .. MaxEvents
  BY EditorAssumption DEF IInv, Stepped, TypeOK
<1>2. TypeOK'
  BY <1>1 DEF TypeOK, EdType, MarkType, ClipType
<1>3. SavedSound' /\ PathsSound' /\ EditsAskedFor'
  BY DEF IInv, SavedSound, PathsSound, EditsAskedFor, Held
<1>4. ASSUME ~Over'
      PROVE  /\ \A w \in Opened(window) : window[w].size = Len(window[w].text) + window[w].extra
             /\ FilesSound'
             /\ mishaps' \cap Mixing = {} => \A w \in Opened(window) :
                   window[w].mode = "other" => Paired(window[w].text)
  <2>1. FilesSound'
    BY DEF IInv, Stepped, FilesSound
  <2>2. mishaps' \cap Mixing = {} => mishaps \cap {"mixed", "carried", "shifted"} = {}
    BY DEF Mixing
  <2> QED BY <2>1, <2>2 DEF IInv, Stepped, BufferSound, LineEndsWhole
<1>5. BufferSound'
  BY <1>4 DEF BufferSound, W, Text, Cur, Opened
<1>6. ~Over' => IdleSound' /\ FilesSound'
  BY <1>4 DEF IdleSound, W, Cur
<1>7. LineEndsWhole'
  BY <1>4 DEF LineEndsWhole, Mixing, Opened
<1>8. ~Over' /\ mishaps' \cap Mixing = {} => MarkWhole'
  BY DEF MarkWhole, W, Text
<1> QED BY <1>2, <1>3, <1>5, <1>6, <1>7, <1>8 DEF IInv

\* Steps that change the text of the active window.
LEMMA EditsStep ==
    ASSUME IInv, Stepped, running, W.opened,
           NEW s \in Seq(Chars), Len(s) <= MaxLen, NEW size \in -1 .. MaxLen + 1,
           NEW cur \in 0 .. MaxLen + 1, NEW what \in SUBSET Mishaps, Edits(s, size, cur, what),
           mark' \in MarkType, clip' \in ClipType,
           ~Over' =>
              /\ size = Len(s) + W.extra /\ cur <= Len(s)
              /\ mark'.on /\ "carried" \notin mishaps' => mark'.in <= Len(s)
              /\ mishaps' \cap Mixing = {} =>
                    /\ W.mode = "other" => Paired(s) /\ (mark'.on => Between(s, mark'.in))
                    /\ clip'.mode = "other" => Paired(clip'.text)
    PROVE  IInv'
<1> DEFINE new == [window[active] EXCEPT !.text = s, !.size = size]
<1>1. TypeOK /\ events' \in 0 .. MaxEvents /\ active \in Windows
  BY EditorAssumption DEF IInv, Stepped, TypeOK
<1>2. /\ window' = [window EXCEPT ![active] = new]
      /\ mishaps' = mishaps \cup what \cup (IF window[active].saved THEN {"resaved"} ELSE {})
      /\ UNCHANGED <<running, usbkbd_used, active, disk, dropped>>
      /\ ed' = Ruled(window', active, [ed EXCEPT !.cur = cur])
  BY <1>1 DEF Edits, Happens, W, TypeOK
<1>3. /\ window[active] \in WindowType /\ window[active].extra \in 0 .. 1
      /\ window[active].opened /\ MaxLen \in Nat
  BY <1>1, TypesAre DEF W
<1>4. /\ new \in WindowType /\ new.opened
      /\ new.text = s /\ new.size = size /\ new.mode = window[active].mode
      /\ new.extra = window[active].extra /\ new.saved = window[active].saved
      /\ new.created = window[active].created /\ new.path = window[active].path
  BY <1>3 DEF WindowType
<1> HIDE DEF new
<1>5. /\ window' \in [Windows -> WindowType] /\ window'[active] = new
      /\ \A w \in Windows \ {active} : window'[w] = window[w]
  BY <1>1, <1>2, <1>4 DEF TypeOK
<1>6. [ed EXCEPT !.cur = cur] \in EdType /\ [ed EXCEPT !.cur = cur].cur = cur
  BY <1>1 DEF TypeOK, EdType
<1>7. ed' \in EdType /\ ed'.cur <= cur
  <2>1. PICK e \in EdType : e = [ed EXCEPT !.cur = cur] /\ e.cur = cur
    BY <1>6
  <2>2. LET r == Ruled(window', active, e) IN r \in EdType /\ r.cur <= e.cur
    BY <1>1, <1>5, RuledIs
  <2> QED BY <1>2, <2>1, <2>2
<1>8. mishaps' \in SUBSET Mishaps /\ mishaps \subseteq mishaps'
  <2>1. "resaved" \in Mishaps
    BY DEF Mishaps
  <2> QED BY <1>1, <1>2, <2>1 DEF TypeOK
<1>9. TypeOK'
  <2>1. \A w \in Windows : ~window'[w].opened => window'[w].saved /\ window'[w].size = 0
    BY <1>1, <1>4, <1>5 DEF TypeOK
  <2> QED BY <1>1, <1>2, <1>5, <1>7, <1>8, <2>1 DEF TypeOK, EdType, MarkType, ClipType
<1>10. SavedSound' /\ PathsSound' /\ EditsAskedFor'
  <2>1. EditsAskedFor'
    BY <1>2, <1>8 DEF IInv, EditsAskedFor
  <2>2. ASSUME mishaps' \cap Losing = {}, NEW w \in Windows, window'[w].opened, window'[w].saved
        PROVE  Held(window'[w], disk')
    <3>1. ~window[active].saved
      BY <1>2, <2>2 DEF Losing
    <3>2. w # active
      BY <1>4, <1>5, <2>2, <3>1
    <3>3. mishaps \cap Losing = {} /\ window'[w] = window[w] /\ disk' = disk
      BY <1>2, <1>5, <1>8, <2>2, <3>2
    <3> QED BY <2>2, <3>3 DEF IInv, SavedSound
  <2>3. PathsSound'
    BY <1>1, <1>3, <1>4, <1>5 DEF IInv, PathsSound
  <2> QED BY <2>1, <2>2, <2>3 DEF SavedSound
<1>11. ASSUME ~Over'
       PROVE  /\ \A w \in Windows : window'[w].opened =>
                    window'[w].size = Len(window'[w].text) + window'[w].extra
              /\ FilesSound' /\ ed'.cur <= Len(s)
              /\ mishaps' \cap Mixing = {} => \A w \in Windows :
                   window'[w].opened /\ window'[w].mode = "other" => Paired(window'[w].text)
  <2>1. FilesSound'
    BY <1>2 DEF IInv, Stepped, FilesSound
  <2>2. mishaps' \cap Mixing = {} => mishaps \cap {"mixed", "carried", "shifted"} = {}
    BY <1>8 DEF Mixing
  <2>3. ed'.cur <= Len(s)
    BY <1>3, <1>7, <1>11, EmptySeq, LenProperties DEF EdType
  <2>4. ASSUME NEW w \in Windows, window'[w].opened
        PROVE  /\ window'[w].size = Len(window'[w].text) + window'[w].extra
               /\ mishaps' \cap Mixing = {} /\ window'[w].mode = "other" => Paired(window'[w].text)
    <3>1. CASE w = active
      BY <1>4, <1>5, <1>11, <3>1 DEF W
    <3>2. CASE w # active
      BY <1>5, <2>2, <2>4, <3>2 DEF IInv, Stepped, BufferSound, LineEndsWhole, Opened
    <3> QED BY <3>1, <3>2
  <2> QED BY <2>1, <2>3, <2>4
<1>12. BufferSound'
  BY <1>2, <1>4, <1>5, <1>11 DEF BufferSound, W, Text, Cur, Opened
<1>13. ~Over' => IdleSound' /\ FilesSound'
  BY <1>2, <1>4, <1>5, <1>11 DEF IdleSound, W, Cur
<1>14. LineEndsWhole'
  BY <1>11 DEF LineEndsWhole, Mixing, Opened
<1>15. ~Over' /\ mishaps' \cap Mixing = {} => MarkWhole'
  BY <1>2, <1>4, <1>5 DEF MarkWhole, W, Text
<1> QED BY <1>9, <1>10, <1>12, <1>13, <1>14, <1>15 DEF IInv

-----------------------------------------------------------------------------
(***************************************************************************)
(* The text at hand, and the cursor.                                       *)
(***************************************************************************)
LEMMA HereIs ==
    ASSUME IInv, ~Over, W.opened
    PROVE  /\ active \in Windows /\ MaxLen \in Nat
           /\ Text \in Seq(Chars) /\ Len(Text) \in 0 .. MaxLen
           /\ Cur \in 0 .. Len(Text) /\ ed \in EdType
           /\ W.size = Len(Text) + W.extra /\ W.extra \in 0 .. 1
           /\ mark \in MarkType /\ clip \in ClipType /\ mishaps \in SUBSET Mishaps
           /\ mark.on /\ "carried" \notin mishaps => mark.in <= Len(Text)
           /\ running \in BOOLEAN /\ (~running => ~mark.on)
           /\ mishaps \cap Mixing = {} =>
                /\ W.mode = "other" => Paired(Text) /\ (mark.on => Between(Text, mark.in))
                /\ clip.mode = "other" => Paired(clip.text)
<1>1. TypeOK /\ active \in Windows
  BY DEF IInv, TypeOK
<1>2. /\ Text \in Seq(Chars) /\ Len(Text) \in 0 .. MaxLen /\ W.extra \in 0 .. 1
      /\ MaxLen \in Nat
  BY <1>1, TypesAre DEF W, Text
<1>3. ed \in EdType /\ mark \in MarkType /\ clip \in ClipType /\ mishaps \in SUBSET Mishaps
  BY <1>1 DEF TypeOK, EdType, MarkType, ClipType
<1>4. Cur \in 0 .. Len(Text) /\ W.size = Len(Text) + W.extra
  BY <1>1, <1>2, <1>3 DEF IInv, BufferSound, Opened, W, Text, Cur, EdType
<1>5. mark.on /\ "carried" \notin mishaps => mark.in <= Len(Text)
  BY DEF IInv, BufferSound
<1>6. running \in BOOLEAN /\ (~running => ~mark.on)
  BY <1>1 DEF IInv, IdleSound, TypeOK
<1>7. mishaps \cap Mixing = {} =>
                /\ W.mode = "other" => Paired(Text) /\ (mark.on => Between(Text, mark.in))
                /\ clip.mode = "other" => Paired(clip.text)
  BY <1>1 DEF IInv, LineEndsWhole, MarkWhole, Mixing, Opened, W, Text
<1> QED BY <1>1, <1>2, <1>3, <1>4, <1>5, <1>6, <1>7

\* The two ends of a line end at the cursor.
LEMMA EndsAre ==
    ASSUME IInv, ~Over, W.opened
    PROVE  /\ EntryPoint \in 0 .. Cur /\ MarkEnd \in Cur .. Len(Text)
           /\ mishaps \cap Mixing = {} /\ W.mode = "other" =>
                 Between(Text, EntryPoint) /\ Between(Text, MarkEnd)
<1>1. Text \in Seq(Chars) /\ Len(Text) \in Nat /\ Cur \in 0 .. Len(Text)
  BY HereIs
<1>2. mishaps \cap Mixing = {} /\ W.mode = "other" => Paired(Text)
  BY HereIs
<1>3. CASE AtLf
  <2>1. CharAt(Text, Cur - 1) = "cr" /\ CharAt(Text, (Cur - 1) + 1) = "lf"
    BY <1>3 DEF AtLf, IsCrLf
  <2>2. Cur - 1 \in 0 .. Len(Text) - 1 /\ Cur \in 0 .. Len(Text) - 1
    <3>1. (Cur - 1) + 1 = Cur /\ Cur - 1 \in Int
      BY <1>1
    <3> QED BY <1>1, <2>1, <3>1, CharAtIs
  <2>3. EntryPoint = Cur - 1 /\ MarkEnd = Cur + 1
    BY <1>3 DEF EntryPoint, MarkEnd
  <2>4. Text[(Cur - 1) + 1] = "cr" /\ Text[Cur + 1] = "lf"
    <3>1. (Cur - 1) + 1 = Cur /\ Cur - 1 \in Int
      BY <1>1
    <3> QED BY <1>1, <2>1, <2>2, <3>1, CharAtIs
  <2>5. ASSUME Paired(Text) PROVE Between(Text, Cur - 1) /\ Between(Text, Cur + 1)
    <3>1. Cur - 1 \in 0 .. Len(Text) /\ Cur + 1 \in 0 .. Len(Text)
      BY <1>1, <2>2
    <3>2. CharAt(Text, Cur - 1) # "lf"
      BY <2>1
    <3>3. Text[Cur + 1] # "cr"
      BY <2>4
    <3> QED BY <1>1, <2>5, <3>1, <3>2, <3>3, BetweenIs
  <2> QED BY <1>1, <1>2, <2>2, <2>3, <2>5
<1>4. CASE ~AtLf
  <2>1. EntryPoint = Cur /\ MarkEnd = Cur
    BY <1>4 DEF EntryPoint, MarkEnd
  <2>2. ASSUME Paired(Text), W.mode = "other" PROVE Between(Text, Cur)
    BY <1>1, <1>4, <2>2, BetweenIs DEF AtLf
  <2> QED BY <1>1, <1>2, <2>1, <2>2
<1> QED BY <1>3, <1>4

\* The cursor moves, and the mark or the copy buffer may change.
LEMMA GoesStep ==
    ASSUME IInv, Stepped, running, W.opened, NEW cur \in 0 .. MaxLen + 1, Goes(cur),
           mark' \in MarkType, clip' \in ClipType, mishaps' \in SUBSET Mishaps,
           mishaps \subseteq mishaps',
           ~Over' =>
              /\ cur <= Len(Text)
              /\ mark'.on /\ "carried" \notin mishaps' => mark'.in <= Len(Text)
              /\ mishaps' \cap Mixing = {} =>
                    /\ W.mode = "other" /\ mark'.on => Between(Text, mark'.in)
                    /\ clip'.mode = "other" => Paired(clip'.text)
    PROVE  IInv'
<1>1. /\ window' = window /\ active' = active /\ running'
      /\ UNCHANGED <<usbkbd_used, disk, dropped>>
      /\ ed' = Ruled(window, active, [ed EXCEPT !.cur = cur])
  BY DEF Goes
<1>2. active \in Windows /\ ed \in EdType /\ Len(Text) \in Nat
  BY HereIs DEF Stepped
<1>3. ed' \in EdType /\ ed'.cur <= cur
  <2>0. [ed EXCEPT !.cur = cur] \in EdType /\ [ed EXCEPT !.cur = cur].cur = cur
    BY <1>2 DEF EdType
  <2>1. PICK e \in EdType : e = [ed EXCEPT !.cur = cur] /\ e.cur = cur
    BY <2>0
  <2>2. LET r == Ruled(window, active, e) IN r \in EdType /\ r.cur <= e.cur
    BY <1>2, RuledIs DEF IInv, TypeOK
  <2> QED BY <1>1, <2>1, <2>2
<1>4. ed'.cur \in Int
  BY <1>3 DEF EdType
<1>5. ~Over' => ed'.cur <= Len(Text)
  BY <1>2, <1>3, <1>4
<1> QED BY <1>1, <1>2, <1>3, <1>5, ViewStep DEF W, Text

\* Keys that put an end to what is followed, and change no text.
LEMMA LostStep ==
    ASSUME IInv, Stepped, NEW what \in Ending, Happens({what}),
           UNCHANGED <<running, usbkbd_used, window, active, ed, disk, dropped>>,
           mark' \in MarkType, clip' \in ClipType
    PROVE  IInv'
<1>1. TypeOK /\ {what} \in SUBSET Mishaps
  BY DEF IInv, Mishaps
<1>2. /\ mishaps' \in SUBSET Mishaps /\ mishaps \subseteq mishaps'
      /\ {what} \cap Ending # {} => Over'
  BY <1>1, MishapsGrow
<1>3. active' \in Windows /\ ed' \in EdType /\ running' \in BOOLEAN
  BY <1>1 DEF TypeOK, EdType
<1> QED BY <1>2, <1>3, ViewStep

-----------------------------------------------------------------------------
(* Moving the cursor.                                                      *)

LEMMA MoveStep ==
    ASSUME IInv, Stepped, MoveRight \/ MoveLeft \/ MoveRows
    PROVE  IInv'
<1>1. running /\ W.opened /\ TypeOK
  BY DEF MoveRight, MoveLeft, MoveRows, IInv
<1>2. Text \in Seq(Chars) /\ Len(Text) \in 0 .. MaxLen /\ Cur \in 0 .. Len(Text) /\ MaxLen \in Nat
  BY <1>1, HereIs DEF Stepped
<1>3. /\ mark \in MarkType /\ clip \in ClipType
      /\ mark.on /\ "carried" \notin mishaps => mark.in <= Len(Text)
      /\ mishaps \cap Mixing = {} =>
            /\ W.mode = "other" /\ mark.on => Between(Text, mark.in)
            /\ clip.mode = "other" => Paired(clip.text)
      /\ mishaps \in SUBSET Mishaps
  BY <1>1, HereIs DEF Stepped
<1>4. CASE MoveRight
  <2>1. Goes(Cur + 1) /\ UNCHANGED <<mark, clip, mishaps>> /\ CharAt(Text, Cur) # "end"
    BY <1>4 DEF MoveRight
  <2>2. Cur + 1 <= Len(Text) /\ Cur + 1 \in 0 .. MaxLen + 1
    BY <1>2, <2>1, CharAtIs
  <2> QED BY <1>1, <1>3, <2>1, <2>2, GoesStep
<1>5. CASE MoveLeft
  <2>1. Goes(Cur - 1) /\ UNCHANGED <<mark, clip, mishaps>> /\ Cur > 0
    BY <1>5 DEF MoveLeft
  <2>2. Cur - 1 <= Len(Text) /\ Cur - 1 \in 0 .. MaxLen + 1
    BY <1>2, <2>1
  <2> QED BY <1>1, <1>3, <2>1, <2>2, GoesStep
<1>6. CASE MoveRows
  <2>1. PICK cur \in 0 .. W.size : /\ Goes(cur) /\ UNCHANGED <<mark, clip>>
                                   /\ Happens(IF cur > Len(Text) THEN {"past_end"} ELSE {})
    BY <1>6 DEF MoveRows
  <2>2. W.size <= MaxLen + 1 /\ W.size \in Int
    BY <1>1, HereIs DEF Stepped
  <2>3. cur \in 0 .. MaxLen + 1
    BY <1>2, <2>2
  <2> DEFINE what == IF cur > Len(Text) THEN {"past_end"} ELSE {}
  <2>4. what \in SUBSET Mishaps /\ (cur > Len(Text) => what \cap Ending # {})
    BY DEF Mishaps, Ending
  <2> HIDE DEF what
  <2>5. Happens(what)
    BY <2>1 DEF what
  <2>6. /\ mishaps' \in SUBSET Mishaps /\ mishaps \subseteq mishaps'
        /\ mishaps' \cap Mixing = {} => mishaps \cap Mixing = {}
        /\ what \cap Ending # {} => Over'
    BY <1>1, <2>4, <2>5, MishapsGrow
  <2>7. ~Over' => cur <= Len(Text)
    BY <1>2, <2>3, <2>4, <2>6
  <2> QED BY <1>1, <1>3, <2>1, <2>3, <2>6, <2>7, GoesStep
<1> QED BY <1>4, <1>5, <1>6

-----------------------------------------------------------------------------
(* Adding.                                                                 *)

\* What is in front of an edit stays as it is.
LEMMA SplicedBefore ==
    ASSUME NEW s \in Seq(Chars), NEW i \in 0 .. Len(s), NEW n \in 0 .. Len(s) - i,
           NEW new \in Seq(Chars), NEW j \in 0 .. i, Between(s, j)
    PROVE  Between(Spliced(s, i, n, new), j)
<1>1. PICK r : r = Spliced(s, i, n, new)
  OBVIOUS
<1>2. /\ r \in Seq(Chars) /\ Len(r) = Len(s) - n + Len(new)
      /\ \A k \in 1 .. Len(r) : k <= i => r[k] = s[k]
      /\ Len(s) \in Nat /\ Len(new) \in Nat
  <2>1. /\ Spliced(s, i, n, new) \in Seq(Chars)
        /\ Len(Spliced(s, i, n, new)) = Len(s) - n + Len(new)
        /\ \A k \in 1 .. Len(Spliced(s, i, n, new)) :
              k <= i => Spliced(s, i, n, new)[k] = s[k]
    BY SplicedIs
  <2> QED BY <1>1, <2>1
<1>3. CASE j = 0
  BY <1>1, <1>2, <1>3, CharAtIs DEF Between
<1>4. CASE j >= 1
  <2>1. j \in 1 .. Len(r) /\ j - 1 \in 0 .. Len(s) - 1 /\ j - 1 \in 0 .. Len(r) - 1
        /\ (j - 1) + 1 = j /\ j - 1 \in Int
    BY <1>2, <1>4
  <2>2. CharAt(s, j - 1) = s[j] /\ CharAt(r, j - 1) = r[j]
    BY <1>2, <2>1, CharAtIs
  <2>3. r[j] = s[j]
    BY <1>2, <2>1
  <2> QED BY <1>1, <2>2, <2>3 DEF Between
<1> QED BY <1>3, <1>4

\* What an entry overwrites is in the text, and whole.
LEMMA OverwrittenIs ==
    ASSUME NEW i \in 0 .. Len(Text), Text \in Seq(Chars)
    PROVE  /\ Overwritten(i) \in 0 .. 2 /\ i + Overwritten(i) <= Len(Text)
           /\ W.mode = "other" /\ Paired(Text) /\ Between(Text, i) =>
                 Between(Text, i + Overwritten(i))
<1> DEFINE over == Overwritten(i)
<1>1. Len(Text) \in Nat
  OBVIOUS
<1>2. CASE over = 0
  BY <1>1, <1>2
<1>3. CASE over # 0
  <2>1. CharAt(Text, i) # "end" /\ over = IF W.mode = "other" /\ IsCrLf(Text, i) THEN 2 ELSE 1
    BY <1>3 DEF Overwritten
  <2>2. i \in 0 .. Len(Text) - 1 /\ CharAt(Text, i) = Text[i + 1]
    BY <2>1, CharAtIs
  <2>3. CASE over = 2
    <3>1. CharAt(Text, i + 1) = "lf"
      BY <2>1, <2>3 DEF IsCrLf
    <3>2. i + 1 \in 0 .. Len(Text) - 1
      BY <1>1, <3>1, CharAtIs
    <3>3. Between(Text, i + 2)
      <4>1. (i + 2) - 1 = i + 1
        OBVIOUS
      <4> QED BY <3>1, <4>1 DEF Between
    <3> QED BY <1>1, <2>3, <3>2, <3>3
  <2>4. CASE over = 1
    <3>1. ASSUME W.mode = "other", Paired(Text) PROVE Between(Text, i + 1)
      <4>1. ~ IsCrLf(Text, i)
        BY <2>1, <2>4, <3>1
      <4>2. (i + 1) - 1 = i /\ i + 1 \in 0 .. Len(Text)
        BY <1>1, <2>2
      <4> QED BY <3>1, <4>1, <4>2, BetweenIs
    <3> QED BY <1>1, <2>2, <2>4, <3>1
  <2> QED BY <2>1, <2>3, <2>4
<1> QED BY <1>2, <1>3

LEMMA EntersStep ==
    ASSUME IInv, Stepped, Key, NEW new \in Seq(Chars), NEW n \in 1 .. 2,
           NEW what \in SUBSET Mishaps, Enters(new, n, what), Len(new) <= n,
           what \cap Ending = {} => Len(new) = n,
           what \cap (Ending \cup Mixing) = {} /\ W.mode = "other" => Paired(new)
    PROVE  IInv'
<1> DEFINE i == EntryPoint
           over == Overwritten(i)
           s == Spliced(Text, i, over, new)
           size == W.size + Grows(n, over)
           all == what \cup (IF over = 2 /\ n = 1 THEN {"half_crlf"} ELSE {})
                       \cup (IF mark.on /\ i < mark.in THEN {"shifted"} ELSE {})
<1>1. running /\ W.opened /\ TypeOK
  BY DEF Key, IInv
<1>2. /\ Text \in Seq(Chars) /\ Len(Text) \in 0 .. MaxLen /\ Cur \in 0 .. Len(Text) /\ MaxLen \in Nat
      /\ W.size = Len(Text) + W.extra /\ W.extra \in 0 .. 1
      /\ mark \in MarkType /\ clip \in ClipType
      /\ mark.on /\ "carried" \notin mishaps => mark.in <= Len(Text)
      /\ mishaps \cap Mixing = {} =>
            /\ W.mode = "other" => Paired(Text) /\ (mark.on => Between(Text, mark.in))
            /\ clip.mode = "other" => Paired(clip.text)
  BY <1>1, HereIs DEF Stepped
<1>3. /\ i \in 0 .. Len(Text)
      /\ mishaps \cap Mixing = {} /\ W.mode = "other" => Between(Text, i)
  <2>1. /\ EntryPoint \in 0 .. Cur
        /\ mishaps \cap Mixing = {} /\ W.mode = "other" => Between(Text, EntryPoint)
    BY <1>1, EndsAre DEF Stepped
  <2> QED BY <1>2, <2>1
<1>4. /\ over \in 0 .. 2 /\ i + over <= Len(Text)
      /\ W.mode = "other" /\ Paired(Text) /\ Between(Text, i) => Between(Text, i + over)
  BY <1>2, <1>3, OverwrittenIs
<1>5. Len(Text) + n <= MaxLen /\ Edits(s, size, i + n, all) /\ UNCHANGED <<mark, clip>>
  BY DEF Enters
<1> HIDE DEF i, over
<1>6. over \in 0 .. Len(Text) - i /\ Len(new) \in Nat
  BY <1>2, <1>3, <1>4
<1>7. s \in Seq(Chars) /\ Len(s) = Len(Text) - over + Len(new)
  BY <1>2, <1>3, <1>6, SplicedIs
<1>8. Len(s) <= MaxLen /\ i + n \in 0 .. MaxLen + 1
  BY <1>2, <1>3, <1>4, <1>5, <1>6, <1>7
<1>9. Grows(n, over) = IF over = 2 THEN 0 ELSE n - over
  BY DEF Grows
<1>10. size \in -1 .. MaxLen + 1
  BY <1>2, <1>4, <1>5, <1>9
<1>11. all \in SUBSET Mishaps
  BY DEF Mishaps, Ending
<1>12. /\ all \subseteq mishaps' /\ mishaps \subseteq mishaps'
       /\ mishaps' = mishaps \cup (all \cup (IF W.saved THEN {"resaved"} ELSE {}))
  BY <1>5 DEF Edits, Happens
<1> HIDE DEF s, size, all
<1>13. ASSUME ~Over'
       PROVE  /\ what \cap Ending = {} /\ Len(new) = n /\ (over = 2 => n = 2)
  <2>1. all \cap Ending = {}
    BY <1>12, <1>13 DEF Over
  <2>2. "half_crlf" \in Ending
    BY DEF Ending
  <2>3. what \cap Ending = {} /\ (over = 2 => n # 1)
    BY <2>1, <2>2 DEF all
  <2> QED BY <2>3
<1>14. ASSUME ~Over'
       PROVE  /\ size = Len(s) + W.extra /\ i + n <= Len(s)
              /\ mark'.on /\ "carried" \notin mishaps' => mark'.in <= Len(s)
  <2>1. over <= n /\ Len(s) = Len(Text) - over + n
    BY <1>4, <1>7, <1>13, <1>14
  <2>2. size = Len(s) + W.extra
    BY <1>2, <1>4, <1>9, <1>13, <1>14, <2>1 DEF size
  <2>3. i + n <= Len(s)
    BY <1>2, <1>3, <1>4, <2>1
  <2>4. mark.on /\ "carried" \notin mishaps' => mark.in <= Len(s)
    <3>1. mark.in \in Int
      BY <1>2 DEF MarkType
    <3> QED BY <1>2, <1>4, <1>12, <2>1, <3>1
  <2> QED BY <1>5, <2>2, <2>3, <2>4
<1>15. ASSUME ~Over', mishaps' \cap Mixing = {}
       PROVE  /\ W.mode = "other" => Paired(s) /\ (mark'.on => Between(s, mark'.in))
              /\ clip'.mode = "other" => Paired(clip'.text)
  <2>1. mishaps \cap Mixing = {} /\ what \cap (Ending \cup Mixing) = {} /\ all \cap Mixing = {}
    BY <1>12, <1>13, <1>15 DEF all
  <2>2. ASSUME W.mode = "other" PROVE Paired(s) /\ (mark.on => Between(s, mark.in))
    <3>1. Paired(Text) /\ Paired(new) /\ Between(Text, i) /\ Between(Text, i + over)
      BY <1>2, <1>3, <1>4, <2>1, <2>2
    <3>2. Paired(s)
      BY <1>2, <1>3, <1>6, <3>1, SplicedWhole DEF s
    <3>3. ASSUME mark.on PROVE Between(s, mark.in)
      <4>1. "shifted" \in Mixing
        BY DEF Mixing
      <4>2. ~ (i < mark.in) /\ mark.in \in Nat
        BY <1>2, <2>1, <3>3, <4>1 DEF all, MarkType
      <4>3. mark.in \in 0 .. i /\ Between(Text, mark.in)
        BY <1>2, <1>3, <2>1, <2>2, <3>3, <4>2
      <4> QED BY <1>2, <1>3, <1>6, <4>3, SplicedBefore DEF s
    <3> QED BY <3>2, <3>3
  <2> QED BY <1>2, <1>5, <2>1, <2>2
<1> QED BY <1>1, <1>2, <1>5, <1>7, <1>8, <1>10, <1>11, <1>14, <1>15, EditsStep

LEMMA LineEndsAre ==
    /\ \A c \in Chars : <<c>> \in Seq(Chars) /\ Len(<<c>>) = 1
    /\ Paired(<<"a">>)
    /\ <<"cr", "lf">> \in Seq(Chars) /\ Len(<<"cr", "lf">>) = 2 /\ Paired(<<"cr", "lf">>)
    /\ <<>> \in Seq(Chars) /\ Len(<<>>) = 0 /\ Paired(<<>>)
<1>1. \A c \in Chars : <<c>> \in Seq(Chars) /\ Len(<<c>>) = 1
  OBVIOUS
<1>2. "a" \in Chars /\ "cr" \in Chars /\ "lf" \in Chars
  BY DEF Chars
<1>3. <<"a">> \in Seq(Chars) /\ Len(<<"a">>) = 1 /\ <<"a">>[1] = "a"
  BY <1>2
<1>4. Paired(<<"a">>)
  <2>1. \A k \in 1 .. 1 : <<"a">>[k] = "a"
    BY <1>3
  <2> QED BY <1>3, <2>1, PairedIs
<1>5. /\ <<"cr", "lf">> \in Seq(Chars) /\ Len(<<"cr", "lf">>) = 2
      /\ <<"cr", "lf">>[1] = "cr" /\ <<"cr", "lf">>[2] = "lf"
  BY <1>2
<1>6. Paired(<<"cr", "lf">>)
  <2>1. PICK r \in Seq(Chars) : r = <<"cr", "lf">> /\ Len(r) = 2 /\ r[1] = "cr" /\ r[2] = "lf"
    BY <1>5
  <2>2. \A k \in 1 .. 2 : /\ r[k] = "cr" => k < 2 /\ r[k + 1] = "lf"
                          /\ r[k] = "lf" => k > 1 /\ r[k - 1] = "cr"
    <3>1. \A k \in 1 .. 2 : k = 1 \/ k = 2
      OBVIOUS
    <3> QED BY <2>1, <3>1
  <2> QED BY <2>1, <2>2, PairedIs
<1>7. <<>> \in Seq(Chars) /\ Len(<<>>) = 0 /\ Paired(<<>>)
  <2>1. <<>> \in Seq(Chars) /\ Len(<<>>) = 0
    BY EmptySeq
  <2>2. \A r \in Seq(Chars) : Len(r) = 0 => Paired(r)
    BY DEF Paired
  <2> QED BY <2>1, <2>2
<1> QED BY <1>1, <1>4, <1>5, <1>6, <1>7

LEMMA TypeCharStep ==
    ASSUME IInv, Stepped, TypeChar
    PROVE  IInv'
<1>1. Key /\ Enters(<<"a">>, 1, {})
  BY DEF TypeChar
<1>2. <<"a">> \in Seq(Chars) /\ Len(<<"a">>) = 1 /\ Paired(<<"a">>)
  BY LineEndsAre DEF Chars
<1> QED BY <1>1, <1>2, EntersStep

LEMMA TypeReturnStep ==
    ASSUME IInv, Stepped, TypeReturn
    PROVE  IInv'
<1> DEFINE single == IF W.mode = "other" THEN {"mixed"} ELSE {}
           here == CharAt(Text, EntryPoint)
<1>1. Key /\ W.opened
  BY DEF TypeReturn, Key
<1>2. Text \in Seq(Chars) /\ EntryPoint \in Int
  <2>1. Cur \in 0 .. Len(Text) /\ Text \in Seq(Chars) /\ EntryPoint \in 0 .. Cur
    BY <1>1, HereIs, EndsAre DEF Stepped
  <2> QED BY <2>1
<1>3. "mixed" \in Mishaps /\ "mixed" \in Mixing /\ "no_mode" \in Mishaps /\ "no_mode" \in Ending
  BY DEF Mishaps, Ending, Mixing
<1>4. ASSUME ed.ret = "other", Enters(<<"cr", "lf">>, 2, {})
      PROVE  IInv'
  <2>1. PICK new \in Seq(Chars) : new = <<"cr", "lf">> /\ Len(new) = 2 /\ Paired(new)
    BY LineEndsAre
  <2>2. PICK what \in SUBSET Mishaps : what = {}
    OBVIOUS
  <2>3. Enters(new, 2, what)
    BY <1>4, <2>1, <2>2
  <2>4. Len(new) = 2 /\ Len(new) <= 2 /\ Paired(new) /\ 2 \in 1 .. 2
    BY <2>1
  <2> QED BY <1>1, <2>3, <2>4, EntersStep
<1>5. ASSUME NEW c \in Chars, Enters(<<c>>, 1, single)
      PROVE  IInv'
  <2>1. single \in SUBSET Mishaps /\ (single \cap (Ending \cup Mixing) = {} => W.mode # "other")
    BY <1>3
  <2>2. PICK new \in Seq(Chars) : new = <<c>> /\ Len(new) = 1
    BY LineEndsAre
  <2>3. PICK what \in SUBSET Mishaps : what = single
    BY <2>1
  <2>4. Enters(new, 1, what) /\ (what \cap (Ending \cup Mixing) = {} => W.mode # "other")
    BY <1>5, <2>1, <2>2, <2>3
  <2>5. Len(new) = 1 /\ Len(new) <= 1 /\ 1 \in 1 .. 2
    BY <2>2
  <2> QED BY <1>1, <2>4, <2>5, EntersStep
<1>6. ASSUME Enters(IF here = "end" THEN <<>> ELSE <<here>>, 1, {"no_mode"})
      PROVE  IInv'
  <2>1. PICK new : new = IF here = "end" THEN <<>> ELSE <<here>>
    OBVIOUS
  <2>2. here = "end" \/ here \in Chars
    BY <1>2, CharAtIs
  <2>3. new \in Seq(Chars) /\ Len(new) <= 1
    BY <2>1, <2>2, LineEndsAre
  <2>4. PICK what \in SUBSET Mishaps : what = {"no_mode"}
    BY <1>3
  <2>5. Enters(new, 1, what) /\ what \cap Ending # {} /\ what \cap (Ending \cup Mixing) # {}
    BY <1>3, <1>6, <2>1, <2>4
  <2> QED BY <1>1, <2>3, <2>5, EntersStep
<1>7. "cr" \in Chars /\ "lf" \in Chars
  BY DEF Chars
<1> QED BY <1>4, <1>5, <1>6, <1>7 DEF TypeReturn

LEMMA PasteStep ==
    ASSUME IInv, Stepped, Paste
    PROVE  IInv'
<1> DEFINE s == Spliced(Text, Cur, 0, clip.text)
           m == Len(clip.text)
           lf == W.mode = "other" /\ CharAt(Text, Cur) = "lf"
           what == (IF W.mode = "other" /\ clip.mode # "other" /\ ~Paired(clip.text)
                    THEN {"mixed"} ELSE {})
                   \cup (IF mark.on /\ Cur < mark.in THEN {"shifted"} ELSE {})
<1>1. running /\ W.opened
  BY DEF Paste, Key
<1>2. /\ Text \in Seq(Chars) /\ Len(Text) \in 0 .. MaxLen /\ Cur \in 0 .. Len(Text) /\ MaxLen \in Nat
      /\ W.size = Len(Text) + W.extra /\ W.extra \in 0 .. 1
      /\ mark \in MarkType /\ clip \in ClipType
      /\ mark.on /\ "carried" \notin mishaps => mark.in <= Len(Text)
      /\ mishaps \cap Mixing = {} =>
            /\ W.mode = "other" => Paired(Text) /\ (mark.on => Between(Text, mark.in))
            /\ clip.mode = "other" => Paired(clip.text)
  BY <1>1, HereIs DEF Stepped
<1>3. clip.text \in Seq(Chars) /\ m \in Nat
  BY <1>2, LenProperties DEF ClipType
<1>4. CASE lf
  <2>1. /\ Happens({"at_lf"}) /\ "at_lf" \in Ending
        /\ UNCHANGED <<running, usbkbd_used, window, active, ed, disk, dropped, clip, mark>>
    BY <1>4 DEF Paste, Ending
  <2> QED BY <1>2, <2>1, LostStep
<1>5. CASE ~lf
  <2>1. /\ Len(Text) + m <= MaxLen /\ Edits(s, W.size + m, Cur + m, what)
        /\ UNCHANGED <<mark, clip>>
    BY <1>5 DEF Paste
  <2>0. m \in Nat
    BY <1>3
  <2> HIDE DEF m, what
  <2>2. s \in Seq(Chars) /\ Len(s) = Len(Text) + m
    BY <1>2, <1>3, SplicedIs DEF m
  <2>3. /\ Len(s) <= MaxLen /\ W.size + m \in -1 .. MaxLen + 1
        /\ Cur + m \in 0 .. MaxLen + 1 /\ Cur + m <= Len(s)
    BY <1>2, <1>3, <2>1, <2>2
  <2>4. what \in SUBSET Mishaps
    BY DEF what, Mishaps
  <2>5. what \subseteq mishaps' /\ mishaps \subseteq mishaps'
    BY <2>1 DEF Edits, Happens
  <2>6. W.size + m = Len(s) + W.extra
    <3> HIDE DEF s
    <3> QED BY <1>2, <2>0, <2>2
  <2>7. mark'.on /\ "carried" \notin mishaps' => mark'.in <= Len(s)
    BY <1>2, <1>3, <2>1, <2>2, <2>5 DEF MarkType
  <2>8. ASSUME mishaps' \cap Mixing = {}
        PROVE  /\ W.mode = "other" => Paired(s) /\ (mark'.on => Between(s, mark'.in))
               /\ clip'.mode = "other" => Paired(clip'.text)
    <3>1. mishaps \cap Mixing = {} /\ what = {}
      <4>1. "mixed" \in Mixing /\ "shifted" \in Mixing
        BY DEF Mixing
      <4> QED BY <2>5, <2>8, <4>1 DEF what
    <3>2. ASSUME W.mode = "other" PROVE Paired(s) /\ (mark.on => Between(s, mark.in))
      <4>1. Paired(Text) /\ Paired(clip.text)
        BY <1>2, <3>1, <3>2 DEF what
      <4>2. Between(Text, Cur)
        BY <1>2, <1>5, <3>2, <4>1, BetweenIs
      <4>3. Paired(s)
        BY <1>2, <1>3, <4>1, <4>2, SplicedWhole, Cur + 0 = Cur
      <4>4. ASSUME mark.on PROVE Between(s, mark.in)
        <5>1. mark.in \in 0 .. Cur /\ Between(Text, mark.in)
          BY <1>2, <3>1, <3>2, <4>4 DEF what, MarkType
        <5> QED BY <1>2, <1>3, <5>1, SplicedBefore
      <4> QED BY <4>3, <4>4
    <3> QED BY <1>2, <2>1, <3>1, <3>2
  <2> HIDE DEF s
  <2> QED BY <1>1, <1>2, <2>1, <2>2, <2>3, <2>4, <2>6, <2>7, <2>8, EditsStep
<1> QED BY <1>4, <1>5

LEMMA KeyWithoutWindowStep ==
    ASSUME IInv, Stepped, KeyWithoutWindow
    PROVE  IInv'
<1>1. /\ Happens({"no_window"}) /\ "no_window" \in Ending
      /\ UNCHANGED <<running, usbkbd_used, window, active, ed, mark, clip, disk, dropped>>
  BY DEF KeyWithoutWindow, Ending
<1>2. mark' \in MarkType /\ clip' \in ClipType
  BY <1>1 DEF IInv, TypeOK, MarkType, ClipType
<1> QED BY <1>1, <1>2, LostStep

-----------------------------------------------------------------------------
(* Removing.                                                               *)

LEMMA RemovesStep ==
    ASSUME IInv, Stepped, running, W.opened, NEW i \in 0 .. Len(Text),
           NEW n \in 0 .. Len(Text) - i, Removes(i, n),
           mark' \in MarkType, ~mark'.on, clip' \in ClipType,
           mishaps \cap Mixing = {} =>
              /\ W.mode = "other" => Between(Text, i) /\ Between(Text, i + n)
              /\ clip'.mode = "other" => Paired(clip'.text)
    PROVE  IInv'
<1> DEFINE s == Spliced(Text, i, n, <<>>)
<1>1. /\ Text \in Seq(Chars) /\ Len(Text) \in 0 .. MaxLen /\ MaxLen \in Nat
      /\ W.size = Len(Text) + W.extra /\ W.extra \in 0 .. 1
      /\ mishaps \cap Mixing = {} /\ W.mode = "other" => Paired(Text)
  BY HereIs DEF Stepped
<1>2. Edits(s, W.size - n, i, {})
  BY DEF Removes
<1>3. s \in Seq(Chars) /\ Len(s) = Len(Text) - n
  <2>1. PICK new \in Seq(Chars) : new = <<>> /\ Len(new) = 0
    BY LineEndsAre
  <2>2. Spliced(Text, i, n, new) \in Seq(Chars)
        /\ Len(Spliced(Text, i, n, new)) = Len(Text) - n + Len(new)
    BY <1>1, SplicedIs
  <2> QED BY <1>1, <2>1, <2>2
<1>4. /\ Len(s) <= MaxLen /\ W.size - n \in -1 .. MaxLen + 1 /\ i \in 0 .. MaxLen + 1
      /\ i <= Len(s) /\ W.size - n = Len(s) + W.extra
  <2> HIDE DEF s
  <2> QED BY <1>1, <1>3
<1>5. mishaps' \cap Mixing = {} => mishaps \cap Mixing = {}
  BY <1>2 DEF Edits, Happens
<1>6. mishaps' \cap Mixing = {} => /\ W.mode = "other" => Paired(s)
                                   /\ clip'.mode = "other" => Paired(clip'.text)
  BY <1>1, <1>5, SplicedWhole, LineEndsAre
<1> HIDE DEF s
<1>7. PICK what \in SUBSET Mishaps : what = {}
  OBVIOUS
<1>8. Edits(s, W.size - n, i, what)
  BY <1>2, <1>7
<1> QED BY <1>3, <1>4, <1>6, <1>8, EditsStep

LEMMA RemovesMarkStep ==
    ASSUME IInv, Stepped, running, W.opened, mark.on, NEW cur \in 0 .. Len(Text),
           RemovesMark(cur), mark' = NoMark, clip' \in ClipType,
           mishaps \cap Mixing = {} /\ W.mode = "other" => Between(Text, cur),
           mishaps \cap Mixing = {} /\ clip'.mode = "other" /\ cur >= mark.in => Paired(clip'.text)
    PROVE  IInv'
<1>1. /\ Text \in Seq(Chars) /\ Len(Text) \in Nat /\ mark \in MarkType /\ MaxLen \in Nat
      /\ mishaps \cap Mixing = {} /\ W.mode = "other" => Between(Text, mark.in)
  BY HereIs DEF Stepped
<1>2. mark' \in MarkType /\ ~mark'.on
  BY <1>1 DEF MarkType, NoMark
<1>3. CASE cur < mark.in
  <2>1. /\ Happens({"backwards"}) /\ "backwards" \in Ending
        /\ UNCHANGED <<running, usbkbd_used, window, active, ed, disk, dropped>>
    BY <1>3 DEF RemovesMark, Ending
  <2> QED BY <1>2, <2>1, LostStep
<1>4. CASE ~ (cur < mark.in)
  <2>1. Removes(mark.in, cur - mark.in)
    BY <1>4 DEF RemovesMark
  <2>2. /\ mark.in \in 0 .. Len(Text) /\ cur - mark.in \in 0 .. Len(Text) - mark.in
        /\ mark.in + (cur - mark.in) = cur /\ cur >= mark.in
    BY <1>1, <1>4 DEF MarkType
  <2> QED BY <1>1, <1>2, <2>1, <2>2, RemovesStep
<1> QED BY <1>3, <1>4

LEMMA EmptyMarkStep ==
    ASSUME IInv, Stepped, running, W.opened, NEW cur \in 0 .. Len(Text), EmptyMark(cur)
    PROVE  IInv'
<1>1. Goes(cur) /\ UNCHANGED <<mark, clip, mishaps>>
  BY DEF EmptyMark
<1>2. /\ Len(Text) \in 0 .. MaxLen /\ MaxLen \in Nat
      /\ mark \in MarkType /\ clip \in ClipType /\ mishaps \in SUBSET Mishaps
      /\ mark.on /\ "carried" \notin mishaps => mark.in <= Len(Text)
      /\ mishaps \cap Mixing = {} =>
            /\ W.mode = "other" /\ mark.on => Between(Text, mark.in)
            /\ clip.mode = "other" => Paired(clip.text)
  BY HereIs DEF Stepped
<1>3. cur \in 0 .. MaxLen + 1 /\ cur <= Len(Text)
  BY <1>2
<1> QED BY <1>1, <1>2, <1>3, GoesStep

LEMMA BackspaceStep ==
    ASSUME IInv, Stepped, Backspace
    PROVE  IInv'
<1> DEFINE cur == IF AtLf THEN Cur + 1 ELSE Cur
<1>1. running /\ W.opened /\ Cur > 0
  BY DEF Backspace, Key
<1>2. /\ Text \in Seq(Chars) /\ Len(Text) \in Nat /\ Cur \in Nat
      /\ mark \in MarkType /\ clip \in ClipType
      /\ mishaps \cap Mixing = {} =>
            /\ W.mode = "other" => Paired(Text)
            /\ clip.mode = "other" => Paired(clip.text)
  BY <1>1, HereIs DEF Stepped
<1>3. /\ cur \in Cur .. Len(Text)
      /\ mishaps \cap Mixing = {} /\ W.mode = "other" => Between(Text, cur)
  BY <1>1, EndsAre DEF Stepped, MarkEnd
<1>4. cur \in 1 .. Len(Text) /\ cur \in 0 .. Len(Text)
  BY <1>1, <1>2, <1>3
<1>5. \/ mark.on /\ EmptyMark(cur)
      \/ mark.on /\ RemovesMark(cur) /\ mark' = NoMark /\ UNCHANGED clip
      \/ /\ ~mark.on /\ UNCHANGED <<mark, clip>>
         /\ IF W.mode = "other" /\ IsCrLf(Text, cur - 2) THEN Removes(cur - 2, 2)
            ELSE Removes(cur - 1, 1)
  BY DEF Backspace
<1> HIDE DEF cur
<1>6. CASE mark.on /\ EmptyMark(cur)
  BY <1>1, <1>4, <1>6, EmptyMarkStep
<1>7. CASE mark.on /\ RemovesMark(cur) /\ mark' = NoMark /\ UNCHANGED clip
  BY <1>1, <1>2, <1>3, <1>4, <1>7, RemovesMarkStep
<1>8. CASE ~mark.on /\ UNCHANGED <<mark, clip>>
           /\ W.mode = "other" /\ IsCrLf(Text, cur - 2) /\ Removes(cur - 2, 2)
  <2>1. CharAt(Text, cur - 2) = "cr" /\ cur - 2 \in Int
    BY <1>4, <1>8 DEF IsCrLf
  <2>2. cur - 2 \in 0 .. Len(Text) - 1
    BY <1>2, <2>1, CharAtIs
  <2>3. cur - 2 \in 0 .. Len(Text) /\ 2 \in 0 .. Len(Text) - (cur - 2) /\ (cur - 2) + 2 = cur
    BY <1>2, <1>4, <2>2
  <2>4. Paired(Text) => Between(Text, cur - 2)
    BY <1>2, <2>1, <2>3, BetweenIs
  <2> QED BY <1>1, <1>2, <1>3, <1>8, <2>3, <2>4, RemovesStep
<1>9. CASE ~mark.on /\ UNCHANGED <<mark, clip>>
           /\ ~ (W.mode = "other" /\ IsCrLf(Text, cur - 2)) /\ Removes(cur - 1, 1)
  <2>1. /\ cur - 1 \in 0 .. Len(Text) /\ 1 \in 0 .. Len(Text) - (cur - 1)
        /\ (cur - 1) + 1 = cur /\ (cur - 1) - 1 = cur - 2
    BY <1>2, <1>4
  <2>2. W.mode = "other" /\ Paired(Text) => Between(Text, cur - 1)
    BY <1>2, <1>9, <2>1, BetweenIs
  <2> QED BY <1>1, <1>2, <1>3, <1>9, <2>1, <2>2, RemovesStep
<1> QED BY <1>5, <1>6, <1>7, <1>8, <1>9

LEMMA DeleteStep ==
    ASSUME IInv, Stepped, Delete
    PROVE  IInv'
<1> DEFINE cur == EntryPoint
           two == W.mode = "other" /\ IsCrLf(Text, cur)
           lf == W.mode = "other" /\ CharAt(Text, cur) = "lf"
<1>1. running /\ W.opened
  BY DEF Delete, Key
<1>2. /\ Text \in Seq(Chars) /\ Len(Text) \in 0 .. MaxLen /\ MaxLen \in Nat
      /\ Cur \in 0 .. Len(Text) /\ W.size = Len(Text) + W.extra /\ W.extra \in 0 .. 1
      /\ mark \in MarkType /\ clip \in ClipType
      /\ mishaps \cap Mixing = {} =>
            /\ W.mode = "other" => Paired(Text)
            /\ clip.mode = "other" => Paired(clip.text)
  BY <1>1, HereIs DEF Stepped
<1>3. /\ cur \in 0 .. Cur
      /\ mishaps \cap Mixing = {} /\ W.mode = "other" => Between(Text, cur)
  BY <1>1, EndsAre DEF Stepped
<1>4. cur \in 0 .. Len(Text)
  BY <1>2, <1>3
<1>5. \/ mark.on /\ EmptyMark(cur)
      \/ mark.on /\ RemovesMark(cur) /\ mark' = NoMark /\ UNCHANGED clip
      \/ /\ ~mark.on /\ UNCHANGED <<mark, clip>>
         /\ IF CharAt(Text, cur) = "end" THEN Edits(Text, W.size - 1, cur, {"past_end"})
            ELSE IF two THEN Removes(cur, 2)
            ELSE IF lf
            THEN /\ Happens({"lone_lf"})
                 /\ UNCHANGED <<running, usbkbd_used, window, active, ed, disk, dropped>>
            ELSE Removes(cur, 1)
  BY DEF Delete
<1> HIDE DEF cur
<1>6. CASE mark.on /\ EmptyMark(cur)
  BY <1>1, <1>4, <1>6, EmptyMarkStep
<1>7. CASE mark.on /\ RemovesMark(cur) /\ mark' = NoMark /\ UNCHANGED clip
  BY <1>1, <1>2, <1>3, <1>4, <1>7, RemovesMarkStep
<1>8. CASE ~mark.on /\ UNCHANGED <<mark, clip>> /\ Edits(Text, W.size - 1, cur, {"past_end"})
  <2>1. PICK what \in SUBSET Mishaps : what = {"past_end"}
    BY DEF Mishaps, Ending
  <2>2. Edits(Text, W.size - 1, cur, what) /\ what \subseteq mishaps' /\ what \cap Ending # {}
    BY <1>8, <2>1 DEF Edits, Happens, Ending
  <2>3. Over'
    BY <2>2 DEF Over
  <2>4. W.size - 1 \in -1 .. MaxLen + 1 /\ cur \in 0 .. MaxLen + 1 /\ Len(Text) <= MaxLen
    BY <1>2, <1>4
  <2> QED BY <1>1, <1>2, <1>8, <2>2, <2>3, <2>4, EditsStep
<1>9. CASE ~mark.on /\ UNCHANGED <<mark, clip>> /\ two /\ Removes(cur, 2)
  <2>1. CharAt(Text, cur + 1) = "lf" /\ cur + 1 \in Int
    BY <1>4, <1>9 DEF IsCrLf
  <2>2. cur + 1 \in 0 .. Len(Text) - 1
    BY <1>2, <2>1, CharAtIs
  <2>3. 2 \in 0 .. Len(Text) - cur
    BY <1>2, <1>4, <2>2
  <2>4. Between(Text, cur + 2)
    <3>1. (cur + 2) - 1 = cur + 1
      BY <1>4
    <3> QED BY <2>1, <3>1 DEF Between
  <2> QED BY <1>1, <1>2, <1>3, <1>4, <1>9, <2>3, <2>4, RemovesStep
<1>10. CASE ~mark.on /\ UNCHANGED <<mark, clip>> /\ Happens({"lone_lf"})
            /\ UNCHANGED <<running, usbkbd_used, window, active, ed, disk, dropped>>
  <2>1. "lone_lf" \in Ending
    BY DEF Ending
  <2> QED BY <1>2, <1>10, <2>1, LostStep
<1>11. CASE ~mark.on /\ UNCHANGED <<mark, clip>> /\ ~two /\ CharAt(Text, cur) # "end"
            /\ Removes(cur, 1)
  <2>1. cur \in 0 .. Len(Text) - 1
    BY <1>2, <1>4, <1>11, CharAtIs
  <2>2. /\ 1 \in 0 .. Len(Text) - cur /\ cur + 1 \in 0 .. Len(Text) /\ (cur + 1) - 1 = cur
    BY <1>2, <2>1
  <2>3. W.mode = "other" /\ Paired(Text) => Between(Text, cur + 1)
    BY <1>2, <1>11, <2>2, BetweenIs
  <2> QED BY <1>1, <1>2, <1>3, <1>4, <1>11, <2>2, <2>3, RemovesStep
<1> QED BY <1>5, <1>6, <1>7, <1>8, <1>9, <1>10, <1>11

-----------------------------------------------------------------------------
(* The mark and the copy buffer.                                           *)

LEMMA MarkStep ==
    ASSUME IInv, Stepped, Mark
    PROVE  IInv'
<1>1. running /\ W.opened /\ UNCHANGED mishaps
  BY DEF Mark, Key
<1>2. /\ Text \in Seq(Chars) /\ Len(Text) \in 0 .. MaxLen /\ MaxLen \in Nat
      /\ Cur \in 0 .. Len(Text) /\ mark \in MarkType /\ clip \in ClipType
      /\ mishaps \in SUBSET Mishaps
      /\ mishaps \cap Mixing = {} /\ clip.mode = "other" => Paired(clip.text)
  BY <1>1, HereIs DEF Stepped
<1>3. /\ EntryPoint \in 0 .. Cur
      /\ mishaps \cap Mixing = {} /\ W.mode = "other" => Between(Text, EntryPoint)
  BY <1>1, EndsAre DEF Stepped
<1>4. CASE mark.on
  <2>1. mark' = [mark EXCEPT !.on = FALSE] /\ Goes(Cur) /\ UNCHANGED clip
    BY <1>4 DEF Mark
  <2>2. mark' \in MarkType /\ ~mark'.on
    BY <1>2, <2>1 DEF MarkType
  <2>3. Cur \in 0 .. MaxLen + 1 /\ Cur <= Len(Text)
    BY <1>2
  <2> QED BY <1>1, <1>2, <2>1, <2>2, <2>3, GoesStep
<1>5. CASE ~mark.on
  <2>1. /\ mark' = [on |-> TRUE, in |-> EntryPoint] /\ Goes(EntryPoint) /\ clip' = NoClip
    BY <1>5 DEF Mark
  <2>2. /\ EntryPoint \in 0 .. MaxLen + 1 /\ EntryPoint <= Len(Text)
    BY <1>2, <1>3
  <2>3. mark' \in MarkType /\ mark'.in = EntryPoint
    BY <2>1, <2>2 DEF MarkType
  <2>4. clip' \in ClipType /\ clip'.mode # "other"
    BY <2>1, EmptySeq DEF ClipType, NoClip
  <2> QED BY <1>1, <1>2, <1>3, <2>1, <2>2, <2>3, <2>4, GoesStep
<1> QED BY <1>4, <1>5

LEMMA MarkedIs ==
    ASSUME IInv, ~Over, W.opened, mark.on, NEW cur \in 0 .. Len(Text),
           mishaps \cap Mixing = {} /\ W.mode = "other" => Between(Text, cur)
    PROVE  /\ Marked(cur) \in ClipType
           /\ mishaps \cap Mixing = {} /\ Marked(cur).mode = "other" => Paired(Marked(cur).text)
<1>1. /\ Text \in Seq(Chars) /\ Len(Text) \in Nat /\ mark \in MarkType
      /\ mark.on /\ "carried" \notin mishaps => mark.in <= Len(Text)
      /\ mishaps \cap Mixing = {} =>
            /\ W.mode = "other" => Paired(Text) /\ (mark.on => Between(Text, mark.in))
  BY HereIs
<1>2. mark.in \in Nat
  BY <1>1 DEF MarkType
<1>3. W.mode \in Modes
  BY TypesAre DEF IInv, TypeOK, W
<1>4. \A k \in 1 .. Len(Text) : Text[k] \in Chars
  BY <1>1, ElementOfSeq
<1>5. \A i \in 0 .. Len(Text), j \in 0 .. Len(Text) : SubSeq(Text, i + 1, j) \in Seq(Chars)
  <2> SUFFICES ASSUME NEW i \in 0 .. Len(Text), NEW j \in 0 .. Len(Text)
               PROVE  SubSeq(Text, i + 1, j) \in Seq(Chars)
    OBVIOUS
  <2>1. \A k \in i + 1 .. j : Text[k] \in Chars
    BY <1>1, <1>4
  <2> QED BY <2>1, SubSeqProperties
<1>6. ASSUME mishaps \cap Mixing = {} PROVE mark.in \in 0 .. Len(Text)
  <2>1. "carried" \in Mixing
    BY DEF Mixing
  <2> QED BY <1>1, <1>2, <1>6, <2>1
<1>7. CASE cur >= mark.in
  <2>1. PICK text : text = SubSeq(Text, mark.in + 1, cur)
    OBVIOUS
  <2>2. Marked(cur) = [text |-> text, mode |-> W.mode]
    BY <1>7, <2>1 DEF Marked
  <2>3. mark.in \in 0 .. Len(Text) /\ cur \in mark.in .. Len(Text)
    BY <1>1, <1>2, <1>7
  <2>4. text \in Seq(Chars)
    BY <1>5, <2>1, <2>3
  <2>5. mishaps \cap Mixing = {} /\ W.mode = "other" => Paired(text)
    BY <1>1, <2>1, <2>3, PartWhole
  <2> QED BY <1>3, <2>2, <2>4, <2>5 DEF ClipType
<1>8. CASE ~ (cur >= mark.in)
  <2> DEFINE j == IF MarkBeyond THEN Len(Text) ELSE mark.in
  <2>1. PICK text : text = SubSeq(Text, cur + 1, j)
    OBVIOUS
  <2>2. Marked(cur) = [text |-> text, mode |-> W.mode]
    BY <1>8, <2>1 DEF Marked
  <2>3. j \in 0 .. Len(Text) /\ j \in cur .. Len(Text)
    BY <1>1, <1>2, <1>8 DEF MarkBeyond
  <2>4. mishaps \cap Mixing = {} => j = mark.in
    BY <1>1, <1>2, <1>6 DEF MarkBeyond
  <2> HIDE DEF j
  <2>5. text \in Seq(Chars)
    BY <1>5, <2>1, <2>3
  <2>6. mishaps \cap Mixing = {} /\ W.mode = "other" => Paired(text)
    BY <1>1, <2>1, <2>3, <2>4, PartWhole
  <2> QED BY <1>3, <2>2, <2>5, <2>6 DEF ClipType
<1> QED BY <1>7, <1>8

LEMMA CopyStep ==
    ASSUME IInv, Stepped, Copy
    PROVE  IInv'
<1>1. running /\ W.opened /\ ~Over
  BY DEF Copy, Key, Stepped
<1>2. /\ Text \in Seq(Chars) /\ Len(Text) \in 0 .. MaxLen /\ MaxLen \in Nat
      /\ Cur \in 0 .. Len(Text) /\ mark \in MarkType /\ clip \in ClipType
      /\ mishaps \in SUBSET Mishaps
      /\ mark.on /\ "carried" \notin mishaps => mark.in <= Len(Text)
      /\ mishaps \cap Mixing = {} =>
            /\ W.mode = "other" /\ mark.on => Between(Text, mark.in)
            /\ clip.mode = "other" => Paired(clip.text)
  BY <1>1, HereIs
<1>3. /\ MarkEnd \in Cur .. Len(Text)
      /\ mishaps \cap Mixing = {} /\ W.mode = "other" => Between(Text, MarkEnd)
  BY <1>1, EndsAre
<1>4. MarkEnd \in 0 .. Len(Text) /\ MarkEnd \in 0 .. MaxLen + 1 /\ MarkEnd <= Len(Text)
  BY <1>2, <1>3
<1>5. CASE EmptyMark(MarkEnd)
  BY <1>1, <1>4, <1>5, EmptyMarkStep
<1>6. CASE Goes(MarkEnd) /\ UNCHANGED <<mark, clip, mishaps>>
  BY <1>1, <1>2, <1>4, <1>6, GoesStep
<1>7. CASE /\ mark.on /\ clip' = Marked(MarkEnd) /\ mark' = NoMark /\ Goes(MarkEnd)
           /\ Happens(IF MarkBeyond THEN {"past_end"} ELSE {})
  <2>1. mark' \in MarkType /\ ~mark'.on
    BY <1>2, <1>7 DEF MarkType, NoMark
  <2>2. /\ clip' \in ClipType
        /\ mishaps \cap Mixing = {} /\ clip'.mode = "other" => Paired(clip'.text)
    BY <1>1, <1>3, <1>4, <1>7, MarkedIs
  <2>3. PICK what \in SUBSET Mishaps : Happens(what)
    BY <1>7 DEF Mishaps, Ending
  <2>4. /\ mishaps' \in SUBSET Mishaps /\ mishaps \subseteq mishaps'
        /\ mishaps' \cap Mixing = {} => mishaps \cap Mixing = {}
    BY <2>3, MishapsGrow DEF IInv
  <2> QED BY <1>1, <1>4, <1>7, <2>1, <2>2, <2>4, GoesStep
<1> QED BY <1>5, <1>6, <1>7 DEF Copy

LEMMA CutStep ==
    ASSUME IInv, Stepped, Cut
    PROVE  IInv'
<1>1. running /\ W.opened /\ ~Over /\ mark.on
  BY DEF Cut, Key, Stepped
<1>2. Len(Text) \in Nat /\ Cur \in 0 .. Len(Text)
  BY <1>1, HereIs
<1>3. /\ MarkEnd \in Cur .. Len(Text)
      /\ mishaps \cap Mixing = {} /\ W.mode = "other" => Between(Text, MarkEnd)
  BY <1>1, EndsAre
<1>4. MarkEnd \in 0 .. Len(Text)
  BY <1>2, <1>3
<1>5. CASE EmptyMark(MarkEnd)
  BY <1>1, <1>4, <1>5, EmptyMarkStep
<1>6. CASE clip' = Marked(MarkEnd) /\ mark' = NoMark /\ RemovesMark(MarkEnd)
  <2>1. /\ clip' \in ClipType
        /\ mishaps \cap Mixing = {} /\ clip'.mode = "other" => Paired(clip'.text)
    BY <1>1, <1>3, <1>4, <1>6, MarkedIs
  <2> QED BY <1>1, <1>3, <1>4, <1>6, <2>1, RemovesMarkStep
<1> QED BY <1>5, <1>6 DEF Cut

-----------------------------------------------------------------------------
(* Modes and keyboards.                                                    *)

LEMMA ModeStep ==
    ASSUME IInv, Stepped, ed' \in EdType, ed'.cur = ed.cur,
           UNCHANGED <<running, usbkbd_used, window, active, mark, clip, disk,
                       dropped, mishaps>>
    PROVE  IInv'
<1>1. /\ active \in Windows /\ mark \in MarkType /\ clip \in ClipType
      /\ mishaps \in SUBSET Mishaps /\ running \in BOOLEAN
  BY DEF IInv, TypeOK, MarkType, ClipType
<1>2. /\ W.opened => Cur <= Len(Text)
      /\ W.opened /\ mark.on /\ "carried" \notin mishaps => mark.in <= Len(Text)
      /\ ~running => ~mark.on
      /\ ~W.opened => Cur = 0 /\ ~mark.on
      /\ mishaps \cap Mixing = {} /\ W.mode = "other" /\ mark.on => Between(Text, mark.in)
      /\ mishaps \cap Mixing = {} /\ clip.mode = "other" => Paired(clip.text)
  BY DEF IInv, Stepped, BufferSound, IdleSound, MarkWhole, LineEndsWhole, Mixing
<1> QED BY <1>1, <1>2, ViewStep DEF W, Text, Cur

LEMMA ModesStep ==
    ASSUME IInv, Stepped, ReturnMode \/ InsertMode \/ VirtualKeyboard
    PROVE  IInv'
<1>1. ed \in EdType
  BY DEF IInv, TypeOK, EdType
<1>2. CASE ReturnMode
  <2> DEFINE now == IF \E i \in 1 .. 3 : RetModes[i] = ed.ret
                    THEN CHOOSE i \in 1 .. 3 : RetModes[i] = ed.ret ELSE 0
  <2>1. now \in 0 .. 3
    <3>1. CASE \E i \in 1 .. 3 : RetModes[i] = ed.ret
      <4>1. (CHOOSE i \in 1 .. 3 : RetModes[i] = ed.ret) \in 1 .. 3
        BY <3>1
      <4> QED BY <3>1, <4>1
    <3> QED BY <3>1
  <2>2. ed' = [ed EXCEPT !.ret = RetModes[now + 1]]
    BY <1>2 DEF ReturnMode
  <2> HIDE DEF now
  <2>3. now + 1 \in 1 .. 4
    BY <2>1
  <2>4. \A k \in 1 .. 4 : RetModes[k] \in Modes
    <3>1. \A k \in 1 .. 4 : k = 1 \/ k = 2 \/ k = 3 \/ k = 4
      OBVIOUS
    <3> QED BY <3>1 DEF RetModes, Modes
  <2>5. ed' \in EdType /\ ed'.cur = ed.cur
    BY <1>1, <2>2, <2>3, <2>4 DEF EdType
  <2> QED BY <1>2, <2>5, ModeStep DEF ReturnMode
<1>3. CASE InsertMode
  <2>1. ed' \in EdType /\ ed'.cur = ed.cur
    BY <1>1, <1>3 DEF InsertMode, EdType
  <2> QED BY <1>3, <2>1, ModeStep DEF InsertMode
<1>4. CASE VirtualKeyboard
  <2>1. ed' \in EdType /\ ed'.cur = ed.cur
    BY <1>1, <1>4 DEF VirtualKeyboard, EdType
  <2> QED BY <1>4, <2>1, ModeStep DEF VirtualKeyboard
<1> QED BY <1>2, <1>3, <1>4

-----------------------------------------------------------------------------
(***************************************************************************)
(* The menu.                                                               *)
(***************************************************************************)
\* Steps that give one window another content, and save or drop it.
LEMMA WindowStep ==
    ASSUME IInv, Stepped, NEW w \in Windows, NEW v \in WindowType,
           window' = [window EXCEPT ![w] = v], ~v.opened => v.saved /\ v.size = 0,
           active' \in Windows, ed' \in EdType, mark' \in MarkType, clip' \in ClipType,
           mishaps' \in SUBSET Mishaps, mishaps \subseteq mishaps', running' \in BOOLEAN,
           usbkbd_used' = usbkbd_used,
           disk' \in [Names -> {file \in Seq(Chars \cup {"nul"}) : Len(file) <= MaxLen + 1}],
           dropped' \in BOOLEAN, v.opened /\ ~v.created => v.path \in Names,
           mishaps' \cap Losing = {} =>
              /\ dropped' = dropped
              /\ v.opened /\ v.saved => Held(v, disk')
              /\ \A u \in Windows \ {w} :
                    window[u].opened /\ window[u].saved /\ Held(window[u], disk) =>
                       Held(window[u], disk'),
           ~Over' =>
              /\ FilesSound'
              /\ v.opened => v.size = Len(v.text) + v.extra
              /\ window'[active'].opened =>
                    /\ ed'.cur <= Len(window'[active'].text)
                    /\ mark'.on /\ "carried" \notin mishaps' =>
                          mark'.in <= Len(window'[active'].text)
              /\ ~window'[active'].opened => ed'.cur = 0 /\ ~mark'.on
              /\ ~running' => ~mark'.on
              /\ mishaps' \cap Mixing = {} =>
                    /\ v.opened /\ v.mode = "other" => Paired(v.text)
                    /\ mark'.on /\ window'[active'].mode = "other" =>
                          Between(window'[active'].text, mark'.in)
                    /\ clip'.mode = "other" => Paired(clip'.text)
    PROVE  IInv'
<1>1. TypeOK /\ events' \in 0 .. MaxEvents
  BY EditorAssumption DEF IInv, Stepped, TypeOK
<1>2. /\ window' \in [Windows -> WindowType] /\ window'[w] = v
      /\ \A u \in Windows \ {w} : window'[u] = window[u]
  BY <1>1 DEF TypeOK
<1>3. TypeOK'
  <2>1. \A u \in Windows : ~window'[u].opened => window'[u].saved /\ window'[u].size = 0
    BY <1>1, <1>2 DEF TypeOK
  <2> QED BY <1>1, <1>2, <2>1 DEF TypeOK, EdType, MarkType, ClipType
<1>4. SavedSound' /\ PathsSound' /\ EditsAskedFor'
  <2>1. EditsAskedFor'
    BY DEF IInv, EditsAskedFor, Losing
  <2>2. ASSUME mishaps' \cap Losing = {}, NEW u \in Windows, window'[u].opened, window'[u].saved
        PROVE  Held(window'[u], disk')
    <3>1. CASE u = w
      BY <1>2, <2>2, <3>1
    <3>2. CASE u # w
      <4>1. window'[u] = window[u] /\ mishaps \cap Losing = {}
        BY <1>2, <2>2, <3>2
      <4>2. Held(window[u], disk)
        BY <2>2, <4>1 DEF IInv, SavedSound
      <4> QED BY <2>2, <3>2, <4>1, <4>2
    <3> QED BY <3>1, <3>2
  <2>3. PathsSound'
    BY <1>2 DEF IInv, PathsSound
  <2> QED BY <2>1, <2>2, <2>3 DEF SavedSound
<1>5. ASSUME ~Over'
      PROVE  /\ \A u \in Windows : window'[u].opened =>
                    window'[u].size = Len(window'[u].text) + window'[u].extra
             /\ mishaps' \cap Mixing = {} => \A u \in Windows :
                   window'[u].opened /\ window'[u].mode = "other" => Paired(window'[u].text)
  <2>1. mishaps' \cap Mixing = {} => mishaps \cap {"mixed", "carried", "shifted"} = {}
    BY DEF Mixing
  <2>2. ASSUME NEW u \in Windows, window'[u].opened
        PROVE  /\ window'[u].size = Len(window'[u].text) + window'[u].extra
               /\ mishaps' \cap Mixing = {} /\ window'[u].mode = "other" => Paired(window'[u].text)
    <3>1. CASE u = w
      BY <1>2, <1>5, <2>2, <3>1
    <3>2. CASE u # w
      BY <1>2, <2>1, <2>2, <3>2 DEF IInv, Stepped, BufferSound, LineEndsWhole, Opened
    <3> QED BY <3>1, <3>2
  <2> QED BY <2>2
<1>6. BufferSound'
  BY <1>5 DEF BufferSound, W, Text, Cur, Opened
<1>7. ~Over' => IdleSound' /\ FilesSound'
  BY DEF IdleSound, W, Cur
<1>8. LineEndsWhole'
  BY <1>5 DEF LineEndsWhole, Mixing, Opened
<1>9. ~Over' /\ mishaps' \cap Mixing = {} => MarkWhole'
  BY DEF MarkWhole, W, Text
<1> QED BY <1>3, <1>4, <1>6, <1>7, <1>8, <1>9 DEF IInv

LEMMA WindowsAre == Windows \subseteq Nat /\ 0 \in Windows
BY EditorAssumption DEF Windows

LEMMA LeastIn ==
    ASSUME NEW S \in SUBSET Windows, S # {}
    PROVE  (CHOOSE w \in S : \A v \in S : w <= v) \in S
<1> DEFINE less == OpToRel(<, Nat)
<1>1. \A i, j \in Nat : <<j, i>> \in less <=> j < i
  BY DEF OpToRel
<1>2. IsWellFoundedOn(less, Nat)
  BY NatLessThanWellFounded
<1>3. S \in SUBSET Nat
  BY WindowsAre
<1> HIDE DEF less
<1>4. PICK w \in S : \A v \in S : ~ (<<v, w>> \in less)
  BY <1>2, <1>3, WFMin
<1>5. ASSUME NEW v \in S PROVE w <= v
  <2>1. v \in Nat /\ w \in Nat /\ ~ (v < w)
    BY <1>1, <1>3, <1>4
  <2> QED BY <2>1
<1> QED BY <1>5

\* The greatest window of some is the least in the order turned round.
LEMMA GreatestIn ==
    ASSUME NEW S \in SUBSET Windows, S # {}
    PROVE  (CHOOSE w \in S : \A v \in S : v <= w) \in S
<1> DEFINE less == OpToRel(<, Nat)
           T == {MaxWindows - v : v \in S}
<1>1. \A i, j \in Nat : <<j, i>> \in less <=> j < i
  BY DEF OpToRel
<1>2. IsWellFoundedOn(less, Nat)
  BY NatLessThanWellFounded
<1>3. MaxWindows \in Nat /\ \A v \in S : v \in Nat /\ v < MaxWindows
  BY EditorAssumption DEF Windows
<1>4. T \in SUBSET Nat /\ T # {}
  BY <1>3
<1> HIDE DEF less
<1>5. PICK t \in T : \A u \in T : ~ (<<u, t>> \in less)
  BY <1>2, <1>4, WFMin
<1>6. PICK w \in S : t = MaxWindows - w
  OBVIOUS
<1>7. ASSUME NEW v \in S PROVE v <= w
  <2>1. MaxWindows - v \in T /\ MaxWindows - v \in Nat /\ t \in Nat
    BY <1>3, <1>4
  <2>2. ~ (MaxWindows - v < t)
    BY <1>1, <1>5, <2>1
  <2> QED BY <1>3, <1>6, <2>1, <2>2
<1> QED BY <1>7

LEMMA LastOpenedIs ==
    ASSUME NEW win, NEW a \in Windows
    PROVE  /\ LastOpened(win, a) \in Windows
           /\ Opened(win) # {} => win[LastOpened(win, a)].opened
           /\ Opened(win) = {} => LastOpened(win, a) = a
<1>1. Opened(win) \in SUBSET Windows
  BY DEF Opened
<1>2. CASE Opened(win) = {}
  BY <1>2 DEF LastOpened
<1>3. CASE Opened(win) # {}
  <2>1. (CHOOSE w \in Opened(win) : \A v \in Opened(win) : v <= w) \in Opened(win)
    BY <1>1, <1>3, GreatestIn
  <2>2. LastOpened(win, a) \in Opened(win)
    BY <1>3, <2>1 DEF LastOpened
  <2> QED BY <1>3, <2>2 DEF Opened
<1> QED BY <1>2, <1>3

LEMMA FreeWindowIs ==
    ASSUME Opened(window) # Windows
    PROVE  FreeWindow \in Windows /\ ~window[FreeWindow].opened
<1>1. Windows \ Opened(window) \in SUBSET Windows /\ Windows \ Opened(window) # {}
  BY DEF Opened
<1>2. FreeWindow \in Windows \ Opened(window)
  BY <1>1, LeastIn DEF FreeWindow
<1> QED BY <1>2 DEF Opened

LEMMA FreshIs ==
    ASSUME NEW mode \in Modes
    PROVE  Fresh(mode) \in EdType /\ Fresh(mode).cur = 0
BY EditorAssumption DEF Fresh, EdType

\* After Init() the cursor is at the start.
LEMMA FreshRuled ==
    ASSUME NEW win \in [Windows -> WindowType], NEW a \in Windows, NEW mode \in Modes
    PROVE  LET e == Ruled(win, a, Fresh(mode)) IN e \in EdType /\ e.cur = 0
<1>1. PICK f \in EdType : f = Fresh(mode) /\ f.cur = 0
  BY FreshIs
<1>2. LET e == Ruled(win, a, f) IN e \in EdType /\ e.cur <= f.cur
  BY RuledIs
<1>3. \A e \in EdType : e.cur \in Nat
  BY DEF EdType
<1> QED BY <1>1, <1>2, <1>3

LEMMA UnmarkedIs ==
    ASSUME mark \in MarkType
    PROVE  Unmarked \in MarkType /\ ~Unmarked.on
BY EditorAssumption DEF Unmarked, NoMark, MarkType

LEMMA NewStep ==
    ASSUME IInv, Stepped, New
    PROVE  IInv'
<1> DEFINE w == FreeWindow
           v == [window[w] EXCEPT !.created = TRUE, !.opened = TRUE, !.saved = FALSE,
                                  !.text = <<>>, !.size = 1, !.mode = "other", !.extra = 1]
<1>1. TypeOK /\ running
  BY DEF IInv, New, MenuEditor
<1>2. w \in Windows
  BY FreeWindowIs DEF New
<1>3. /\ window' = [window EXCEPT ![w] = v] /\ active' = w /\ mark' = Unmarked
      /\ ed' = Ruled([window EXCEPT ![w] = v], w, Fresh("other"))
      /\ UNCHANGED <<running, usbkbd_used, clip, disk, dropped, mishaps>>
  BY DEF New
<1> HIDE DEF w
<1>4. /\ v \in WindowType /\ v.opened /\ ~v.saved /\ v.text = <<>> /\ v.size = 1
      /\ v.extra = 1 /\ v.created
  <2>1. window[w] \in WindowType /\ MaxLen \in Nat
    BY <1>1, <1>2, TypesAre
  <2>2. PICK e \in {text \in Seq(Chars) : Len(text) <= MaxLen} : e = <<>>
    <3>1. PICK e : e = <<>>
      OBVIOUS
    <3>2. e \in Seq(Chars) /\ Len(e) = 0
      BY <3>1, LineEndsAre
    <3>3. e \in {text \in Seq(Chars) : Len(text) <= MaxLen}
      BY <2>1, <3>2
    <3> QED BY <3>1, <3>3, Zenon
  <2>3. v = [window[w] EXCEPT !.created = TRUE, !.opened = TRUE, !.saved = FALSE,
                              !.text = e, !.size = 1, !.mode = "other", !.extra = 1]
    BY <2>2
  <2>4. "other" \in Modes /\ 1 \in -1 .. MaxLen + 1 /\ 1 \in 0 .. 1
    BY <2>1 DEF Modes
  <2>5. /\ v \in WindowType /\ v.opened /\ ~v.saved /\ v.text = e /\ v.size = 1
        /\ v.extra = 1 /\ v.created
    BY <2>1, <2>3, <2>4 DEF WindowType
  <2> QED BY <2>2, <2>5
<1>5. v.size = Len(v.text) + v.extra /\ Paired(v.text)
  <2>1. Len(v.text) = 0 /\ Paired(v.text)
    BY <1>4, LineEndsAre
  <2> QED BY <1>4, <2>1
<1> HIDE DEF v
<1>11. v \in WindowType /\ v.opened /\ ~v.saved /\ v.created
  BY <1>4
<1>6. window' \in [Windows -> WindowType] /\ window'[w] = v
  BY <1>1, <1>2, <1>3, <1>4 DEF TypeOK
<1>7. ed' \in EdType /\ ed'.cur = 0
  <2>1. LET e == Ruled(window', w, Fresh("other")) IN e \in EdType /\ e.cur = 0
    BY <1>2, <1>6, FreshRuled DEF Modes
  <2> QED BY <1>3, <2>1
<1>8. mark' \in MarkType /\ ~mark'.on /\ clip' \in ClipType
  BY <1>1, <1>3, UnmarkedIs DEF TypeOK, MarkType, ClipType
<1>9. ~Over' => FilesSound'
  BY <1>3 DEF IInv, Stepped, FilesSound
<1>10. mishaps' \cap Mixing = {} /\ clip'.mode = "other" => Paired(clip'.text)
  BY <1>3 DEF IInv, Stepped, LineEndsWhole, Mixing
<1>12. ed'.cur <= Len(v.text)
  BY <1>7, <1>11, LenProperties DEF WindowType
<1>13. /\ window' = [window EXCEPT ![w] = v] /\ active' = w /\ running'
       /\ UNCHANGED <<usbkbd_used, disk, dropped, mishaps>>
       /\ disk' \in [Names -> {file \in Seq(Chars \cup {"nul"}) : Len(file) <= MaxLen + 1}]
       /\ dropped' \in BOOLEAN /\ mishaps' \in SUBSET Mishaps
  BY <1>1, <1>3 DEF TypeOK
<1> QED BY <1>2, <1>5, <1>6, <1>7, <1>8, <1>9, <1>10, <1>11, <1>12, <1>13, WindowStep

\* What is read of a file: its bytes up to the zero byte a save may have put at its end.
LEMMA LoadedIs ==
    ASSUME IInv, ~Over, NEW w \in Windows, NEW n \in Names
    PROVE  LET v == Loaded(w, n) IN
           /\ v \in WindowType /\ v.opened /\ ~v.saved /\ v.size = Len(v.text) + v.extra
           /\ v.path = n
<1> DEFINE file == disk[n]
           text == String(file)
           zeros == {i \in 1 .. Len(file) : file[i] = "nul"}
<1>1. TypeOK /\ MaxLen \in Nat
  BY EditorAssumption DEF IInv
<1>2. /\ file \in Seq(Chars \cup {"nul"}) /\ Len(file) \in 0 .. MaxLen + 1
      /\ \A i \in 1 .. Len(file) : file[i] \in Chars \cup {"nul"}
  <2>1. file \in Seq(Chars \cup {"nul"}) /\ Len(file) <= MaxLen + 1
    BY <1>1 DEF TypeOK
  <2> QED BY <1>1, <2>1, ElementOfSeq, LenProperties
<1>3. /\ \A i \in 1 .. Len(file) : file[i] = "nul" => i = Len(file)
      /\ Len(file) = MaxLen + 1 => file[Len(file)] = "nul"
  BY DEF IInv, FilesSound
<1> HIDE DEF file
<1>4. text \in Seq(Chars) /\ Len(text) <= MaxLen /\ Len(file) - Len(text) \in 0 .. 1
  <2>1. CASE zeros = {}
    <3>1. text = file
      BY <2>1 DEF String
    <3>2. \A i \in 1 .. Len(file) : file[i] \in Chars
      BY <1>2, <2>1
    <3>3. file \in Seq(Chars)
      <4>1. file = [i \in 1 .. Len(file) |-> file[i]] /\ Len(file) \in Nat
        BY <1>2, LenProperties
      <4>2. SubSeq(file, 1, Len(file)) \in Seq(Chars)
        BY <3>2, <4>1, SubSeqProperties
      <4> QED BY <1>2, <4>2, SubSeqFull
    <3>4. Len(file) # MaxLen + 1
      BY <1>1, <1>3, <2>1
    <3> QED BY <1>1, <1>2, <3>1, <3>3, <3>4
  <2>2. CASE zeros # {}
    <3>1. zeros = {Len(file)} /\ Len(file) >= 1
      BY <1>2, <1>3, <2>2
    <3>2. (CHOOSE i \in zeros : \A j \in zeros : i <= j) = Len(file)
      BY <1>2, <3>1
    <3>3. text = SubSeq(file, 1, Len(file) - 1)
      BY <2>2, <3>2 DEF String
    <3>4. \A i \in 1 .. Len(file) - 1 : file[i] \in Chars
      BY <1>2, <1>3
    <3>5. /\ text \in Seq(Chars)
          /\ Len(text) = IF 1 <= Len(file) - 1 THEN Len(file) - 1 - 1 + 1 ELSE 0
      <4>1. Len(file) - 1 \in Int
        BY <1>2
      <4> QED BY <3>3, <3>4, <4>1, SubSeqProperties
    <3> HIDE DEF text, zeros
    <3>6. Len(text) = Len(file) - 1
      <4>1. PICK m \in Nat : m = Len(file) /\ m >= 1
        BY <1>2, <3>1
      <4> QED BY <3>5, <4>1
    <3> QED BY <1>1, <1>2, <3>5, <3>6
  <2> QED BY <2>1, <2>2
<1>5. \A f : ModeOf(f) \in Modes
  BY DEF ModeOf, Modes
<1>6. window[w] \in WindowType /\ window[w].mode \in Modes
  BY <1>1, TypesAre
<1> DEFINE mode == IF ModeOf(file) = "none" THEN window[w].mode ELSE ModeOf(file)
<1>7. Loaded(w, n) =
        [window[w] EXCEPT !.opened = TRUE, !.saved = FALSE, !.text = text, !.size = Len(file),
                          !.path = n, !.mode = mode, !.extra = Len(file) - Len(text)]
  BY DEF Loaded, file
<1>8. mode \in Modes
  BY <1>5, <1>6
<1> HIDE DEF text, mode
<1>9. Len(text) \in Nat /\ text \in {t \in Seq(Chars) : Len(t) <= MaxLen}
  BY <1>4, LenProperties
<1>10. PICK extra \in 0 .. 1 : extra = Len(file) - Len(text) /\ Len(file) = Len(text) + extra
  BY <1>2, <1>4, <1>9
<1>11. Len(file) \in -1 .. MaxLen + 1
  BY <1>2
<1> QED BY <1>6, <1>7, <1>8, <1>9, <1>10, <1>11 DEF WindowType

LEMMA OpensStep ==
    ASSUME IInv, Stepped, NEW w \in Windows, NEW n \in Names, Opens(w, n),
           running' = TRUE, UNCHANGED <<usbkbd_used, disk>>
    PROVE  IInv'
<1> DEFINE v == Loaded(w, n)
           win == [window EXCEPT ![w] = v]
           what == IF win[w].mode = "other" /\ ~Paired(win[w].text) THEN {"mixed"} ELSE {}
<1>1. TypeOK /\ ~Over
  BY DEF IInv, Stepped
<1>2. /\ v \in WindowType /\ v.opened /\ ~v.saved /\ v.size = Len(v.text) + v.extra
      /\ v.path \in Names
  BY <1>1, LoadedIs
<1>3. /\ window' = win /\ active' = w /\ ed' = Ruled(win, w, Fresh(win[w].mode))
      /\ mark' = Unmarked /\ Happens(what) /\ UNCHANGED <<dropped, clip>>
  BY DEF Opens
<1> HIDE DEF v
<1>4. window' \in [Windows -> WindowType] /\ window'[w] = v /\ win[w] = v
  BY <1>1, <1>2, <1>3 DEF TypeOK
<1>5. v.mode \in Modes /\ v.text \in Seq(Chars) /\ Len(v.text) \in Nat
  BY <1>2, LenProperties DEF WindowType
<1>6. ed' \in EdType /\ ed'.cur = 0
  <2>1. LET e == Ruled(window', w, Fresh(v.mode)) IN e \in EdType /\ e.cur = 0
    BY <1>4, <1>5, FreshRuled
  <2> QED BY <1>3, <1>4, <2>1
<1>7. mark' \in MarkType /\ ~mark'.on /\ clip' \in ClipType
  BY <1>1, <1>3, UnmarkedIs DEF TypeOK, MarkType, ClipType
<1>8. PICK s \in SUBSET Mishaps : s = what
  BY DEF Mishaps
<1>9. /\ mishaps' \in SUBSET Mishaps /\ mishaps \subseteq mishaps' /\ s \subseteq mishaps'
      /\ mishaps' \cap Mixing = {} => mishaps \cap Mixing = {}
  BY <1>1, <1>3, <1>8, MishapsGrow
<1>10. ~Over' => FilesSound'
  BY <1>1 DEF IInv, FilesSound
<1>11. mishaps' \cap Mixing = {} => /\ v.mode = "other" => Paired(v.text)
                                    /\ clip'.mode = "other" => Paired(clip'.text)
  <2>1. mishaps \cap Mixing = {} /\ clip.mode = "other" => Paired(clip.text)
    BY <1>1 DEF IInv, LineEndsWhole, Mixing
  <2>2. "mixed" \in Mixing
    BY DEF Mixing
  <2> QED BY <1>3, <1>4, <1>8, <1>9, <2>1, <2>2
<1>12. ed'.cur <= Len(v.text) /\ running'
  BY <1>5, <1>6
<1>13. /\ dropped' \in BOOLEAN
       /\ disk' \in [Names -> {file \in Seq(Chars \cup {"nul"}) : Len(file) <= MaxLen + 1}]
       /\ UNCHANGED <<usbkbd_used, disk, dropped>>
  BY <1>1, <1>3 DEF TypeOK
<1>14. window' = [window EXCEPT ![w] = v] /\ active' = w
  BY <1>3
<1> HIDE DEF win, what
<1> QED BY <1>2, <1>4, <1>6, <1>7, <1>9, <1>10, <1>11, <1>12, <1>13, <1>14, WindowStep

LEMMA OpenFailsStep ==
    ASSUME IInv, Stepped, running, NEW w \in Windows, ~window[w].opened,
           NEW n \in Names \cup {NoPath}, OpenFails(w, n), UNCHANGED <<running, usbkbd_used, disk>>
    PROVE  IInv'
<1> DEFINE v == [window[w] EXCEPT !.path = n, !.size = 0]
           a == LastOpened(window', w)
           what(waiting) ==
              (IF mark.on /\ a # active THEN {"carried"} ELSE {})
              \cup (IF window'[a].opened /\ ed'.cur > Len(window'[a].text)
                    THEN {"past_end"} ELSE {})
              \cup (IF waiting THEN {"unruled"} ELSE {})
<1>1. TypeOK /\ ~Over
  BY DEF IInv, Stepped
<1>2. window[w] \in WindowType /\ window[w].saved
  BY <1>1, TypesAre DEF TypeOK
<1>3. /\ v \in WindowType /\ ~v.opened /\ v.saved /\ v.size = 0
  <2>1. 0 \in -1 .. MaxLen + 1
    BY EditorAssumption
  <2> QED BY <1>2, <2>1 DEF WindowType
<1>20. PICK win : win = [window EXCEPT ![w].path = n, ![w].size = FailedSize(n)]
  OBVIOUS
<1>21. LET x == LastOpened(win, w)
           e == Ruled(win, x, ed)
       IN  /\ window' = win /\ active' = x /\ ed' = e
           /\ \E waiting \in BOOLEAN :
                 Happens((IF mark.on /\ x # active THEN {"carried"} ELSE {})
                         \cup (IF win[x].opened /\ e.cur > Len(win[x].text)
                               THEN {"past_end"} ELSE {})
                         \cup (IF waiting THEN {"unruled"} ELSE {}))
           /\ UNCHANGED <<mark, clip, dropped>>
  BY <1>20, Zenon DEF OpenFails
<1>4. window' = [window EXCEPT ![w] = v]
  <2>1. window \in [Windows -> WindowType]
    BY <1>1 DEF TypeOK
  <2> QED BY <1>2, <1>20, <1>21, <2>1 DEF FailedSize, WindowType
<1>5. /\ active' = a /\ ed' = Ruled(window', a, ed)
      /\ \E waiting \in BOOLEAN : Happens(what(waiting))
      /\ UNCHANGED <<mark, clip, dropped>>
  BY <1>21
<1> HIDE DEF v
<1>6. /\ window' \in [Windows -> WindowType] /\ window'[w] = v
      /\ \A u \in Windows \ {w} : window'[u] = window[u]
  BY <1>1, <1>3, <1>4 DEF TypeOK
<1>7. /\ active \in Windows /\ a \in Windows
      /\ Opened(window') # {} => window'[a].opened
  BY <1>1, LastOpenedIs DEF TypeOK
<1>8. ed \in EdType /\ mark \in MarkType /\ clip \in ClipType
  BY <1>1 DEF TypeOK, EdType, MarkType, ClipType
<1> HIDE DEF a
<1>9. ed' \in EdType /\ ed'.cur <= ed.cur
  BY <1>5, <1>6, <1>7, <1>8, RuledIs
<1>10. PICK s \in SUBSET Mishaps :
          /\ Happens(s)
          /\ mark.on /\ a # active => "carried" \in s
          /\ window'[a].opened /\ ed'.cur > Len(window'[a].text) => "past_end" \in s
  <2>1. PICK waiting \in BOOLEAN : Happens(what(waiting))
    BY <1>5
  <2>2. what(waiting) \in SUBSET Mishaps
    BY DEF Mishaps, Ending
  <2> QED BY <2>1, <2>2
<1>11. /\ mishaps' \in SUBSET Mishaps /\ mishaps \subseteq mishaps' /\ s \subseteq mishaps'
       /\ mishaps' \cap Mixing = {} => mishaps \cap Mixing = {}
       /\ s \cap Ending # {} => Over'
  BY <1>1, <1>10, MishapsGrow
<1>12. ~window'[a].opened => ed'.cur = 0 /\ ~mark'.on
  <2>1. ASSUME ~window'[a].opened PROVE ~window[active].opened
    <3>1. ~window'[active].opened
      BY <1>7, <2>1 DEF Opened
    <3>2. active # w => window'[active] = window[active]
      BY <1>6, <1>7
    <3> QED BY <3>1, <3>2
  <2>2. ~window[active].opened => ed.cur = 0 /\ ~mark.on
    BY <1>1 DEF IInv, IdleSound, W, Cur
  <2>3. ed'.cur \in Nat /\ ed.cur \in Nat
    BY <1>8, <1>9 DEF EdType
  <2> QED BY <1>5, <1>9, <2>1, <2>2, <2>3
<1>13. ASSUME ~Over', window'[a].opened
       PROVE  /\ ed'.cur <= Len(window'[a].text)
              /\ mark'.on /\ "carried" \notin mishaps' => mark'.in <= Len(window'[a].text)
              /\ mishaps' \cap Mixing = {} /\ mark'.on /\ window'[a].mode = "other" =>
                    Between(window'[a].text, mark'.in)
  <2>1. "past_end" \in Ending
    BY DEF Ending
  <2>2. ~ (ed'.cur > Len(window'[a].text))
    BY <1>10, <1>11, <1>13, <2>1
  <2>3. Len(window'[a].text) \in Nat /\ ed'.cur \in Nat
    BY <1>6, <1>7, <1>9, LenProperties DEF WindowType, EdType
  <2>4. ASSUME mark.on, "carried" \notin mishaps'
        PROVE  a = active /\ window'[a] = window[active] /\ "carried" \notin mishaps
    <3>1. a = active /\ "carried" \notin mishaps
      BY <1>10, <1>11, <2>4
    <3>2. a # w
      BY <1>3, <1>6, <1>13
    <3> QED BY <1>6, <1>7, <3>1, <3>2
  <2>5. /\ window[active].opened /\ mark.on /\ "carried" \notin mishaps =>
              mark.in <= Len(window[active].text)
        /\ mishaps \cap Mixing = {} /\ window[active].mode = "other" /\ mark.on =>
              Between(window[active].text, mark.in)
    BY <1>1 DEF IInv, BufferSound, MarkWhole, W, Text
  <2>6. "carried" \in Mixing
    BY DEF Mixing
  <2> QED BY <1>5, <1>11, <1>13, <2>2, <2>3, <2>4, <2>5, <2>6
<1>14. ~Over' => FilesSound'
  BY <1>1 DEF IInv, FilesSound
<1>15. mishaps' \cap Mixing = {} /\ clip'.mode = "other" => Paired(clip'.text)
  BY <1>1, <1>5, <1>11 DEF IInv, LineEndsWhole, Mixing
<1>16. running'
  OBVIOUS
<1> HIDE DEF what
<1>19. /\ dropped' \in BOOLEAN /\ dropped' = dropped
       /\ disk' \in [Names -> {file \in Seq(Chars \cup {"nul"}) : Len(file) <= MaxLen + 1}]
  BY <1>1, <1>5 DEF TypeOK
<1> QED BY <1>3, <1>4, <1>5, <1>7, <1>8, <1>9, <1>11, <1>12, <1>13, <1>14, <1>15, <1>16, <1>19,
           WindowStep

LEMMA OpenStep ==
    ASSUME IInv, Stepped, Open
    PROVE  IInv'
<1>1. running = TRUE /\ running' = TRUE /\ UNCHANGED <<running, usbkbd_used, disk>>
  BY DEF Open, MenuEditor, IInv, TypeOK
<1>2. FreeWindow \in Windows /\ ~window[FreeWindow].opened
  BY FreeWindowIs DEF Open
<1>3. PICK n \in Names : \/ Opens(FreeWindow, n)
                         \/ OpenFails(FreeWindow, n)
                         \/ OpenFails(FreeWindow, NoPath)
  BY DEF Open
<1>4. PICK w \in Windows : w = FreeWindow
  BY <1>2
<1>5. CASE Opens(w, n)
  BY <1>1, <1>5, OpensStep
<1>6. CASE OpenFails(w, n) \/ OpenFails(w, NoPath)
  <2>1. PICK p \in Names \cup {NoPath} : OpenFails(w, p)
    BY <1>6
  <2> QED BY <1>1, <1>2, <1>4, <2>1, OpenFailsStep
<1> QED BY <1>3, <1>4, <1>5, <1>6

\* A question is asked about every text its file does not hold.
LEMMA DropsIs ==
    ASSUME IInv, NEW ws \in SUBSET Windows, Drops(ws)
    PROVE  /\ dropped' \in BOOLEAN
           /\ mishaps \cap Losing = {} => dropped' = dropped
<1>1. dropped \in BOOLEAN
  BY DEF IInv, TypeOK
<1>2. ASSUME mishaps \cap Losing = {}, ws \cap Unheld # {}
      PROVE  Unsaved(ws)
  <2>1. PICK w \in ws : w \in Unheld
    BY <1>2
  <2>2. w \in Windows /\ window[w].opened
    BY <2>1 DEF Opened, Unheld
  <2>3. ~ Held(window[w], disk)
    BY <2>1 DEF Unheld, Held
  <2>4. ~window[w].saved
    BY <1>2, <2>2, <2>3 DEF IInv, SavedSound
  <2> QED BY <2>4 DEF Unsaved
<1> QED BY <1>1, <1>2 DEF Drops

LEMMA FreeIs == Free \in WindowType /\ ~Free.opened /\ Free.saved /\ Free.size = 0
<1>1. MaxLen \in Nat
  BY EditorAssumption
<1>2. PICK e : e = <<>>
  OBVIOUS
<1>3. e \in Seq(Chars) /\ Len(e) = 0
  BY <1>2, LineEndsAre
<1>4. e \in {text \in Seq(Chars) : Len(text) <= MaxLen}
  BY <1>1, <1>3
<1>5. Free = [created |-> FALSE, opened |-> FALSE, saved |-> TRUE, text |-> e,
              size |-> 0, mode |-> "none", path |-> NoPath, extra |-> 0]
  BY <1>2 DEF Free
<1>6. 0 \in -1 .. MaxLen + 1 /\ 0 \in 0 .. 1 /\ "none" \in Modes
  BY <1>1 DEF Modes
<1> QED BY <1>4, <1>5, <1>6 DEF WindowType

LEMMA CloseStep ==
    ASSUME IInv, Stepped, Close
    PROVE  IInv'
<1>1. TypeOK /\ ~Over /\ active \in Windows /\ running \in BOOLEAN
  BY DEF IInv, Stepped, TypeOK
<1>2. PICK v \in WindowType : v = Free /\ ~v.opened /\ v.saved /\ v.size = 0
  BY FreeIs
<1>3. PICK win : win = [window EXCEPT ![active] = v]
  OBVIOUS
<1>4. /\ window' = win /\ active' = LastOpened(win, active)
      /\ ed' = Ruled(win, LastOpened(win, active), Fresh("none"))
      /\ mark' = Unmarked /\ Drops({active})
      /\ UNCHANGED <<running, usbkbd_used, clip, disk, mishaps>>
  BY <1>2, <1>3, Zenon DEF Close
<1>5. window' \in [Windows -> WindowType]
  BY <1>1, <1>2, <1>3, <1>4 DEF TypeOK
<1>6. active' \in Windows
  BY <1>1, <1>4, LastOpenedIs
<1>7. ed' \in EdType /\ ed'.cur = 0
  <2>1. LET e == Ruled(window', active', Fresh("none")) IN e \in EdType /\ e.cur = 0
    BY <1>5, <1>6, FreshRuled DEF Modes
  <2> QED BY <1>4, <2>1
<1>8. mark' \in MarkType /\ ~mark'.on /\ clip' \in ClipType
  BY <1>1, <1>4, UnmarkedIs DEF TypeOK, MarkType, ClipType
<1>9. /\ dropped' \in BOOLEAN
      /\ mishaps \cap Losing = {} => dropped' = dropped
  <2>1. {active} \in SUBSET Windows
    BY <1>1
  <2> QED BY <1>4, <2>1, DropsIs
<1>10. /\ disk' = disk /\ disk' \in [Names -> {file \in Seq(Chars \cup {"nul"}) : Len(file) <= MaxLen + 1}]
       /\ mishaps' \in SUBSET Mishaps /\ mishaps' = mishaps /\ usbkbd_used' = usbkbd_used
       /\ running' \in BOOLEAN
  BY <1>1, <1>4 DEF TypeOK
<1>11. FilesSound' /\ (mishaps' \cap Mixing = {} /\ clip'.mode = "other" => Paired(clip'.text))
  BY <1>1, <1>4 DEF IInv, FilesSound, LineEndsWhole, Mixing
<1>12. window'[active'].opened => ed'.cur <= Len(window'[active'].text)
  <2>1. Len(window'[active'].text) \in Nat
    BY <1>5, <1>6, LenProperties DEF WindowType
  <2> QED BY <1>7, <2>1
<1>13. window' = [window EXCEPT ![active] = v]
  BY <1>3, <1>4
<1> QED BY <1>1, <1>2, <1>5, <1>6, <1>7, <1>8, <1>9, <1>10, <1>11, <1>12, <1>13, WindowStep

\* What a file may hold: a zero byte only at its end, and one there if it is longer than a text.
FileSound(file) ==
    /\ file \in Seq(Chars \cup {"nul"}) /\ Len(file) <= MaxLen + 1
    /\ \A i \in 1 .. Len(file) : file[i] = "nul" => i = Len(file)
    /\ Len(file) = MaxLen + 1 => file[Len(file)] = "nul"

\* A text has such a form, with one zero byte behind it or none.
LEMMA TextIsFile ==
    ASSUME NEW s \in Seq(Chars), Len(s) <= MaxLen
    PROVE  FileSound(s)
<1>1. MaxLen \in Nat /\ Len(s) \in Nat /\ "nul" \notin Chars
  BY EditorAssumption, LenProperties DEF Chars
<1>2. \A i \in 1 .. Len(s) : s[i] \in Chars
  BY ElementOfSeq
<1>3. s \in Seq(Chars \cup {"nul"})
  <2>1. Seq(Chars) \subseteq Seq(Chars \cup {"nul"})
    BY SeqMonotonic
  <2> QED BY <2>1
<1> QED BY <1>1, <1>2, <1>3 DEF FileSound

LEMMA ClosedTextIsFile ==
    ASSUME NEW s \in Seq(Chars), Len(s) <= MaxLen, NEW z \in Seq({"nul"}), Len(z) \in 0 .. 1
    PROVE  /\ FileSound(s \o z)
           /\ Len(z) = 1 => FileSound(SubSeq(s \o z, 1, Len(s \o z) - 1))
<1>1. MaxLen \in Nat /\ Len(s) \in Nat /\ "nul" \notin Chars /\ Len(z) \in Nat
  BY EditorAssumption, LenProperties DEF Chars
<1>2. \A i \in 1 .. Len(s) : s[i] \in Chars
  BY ElementOfSeq
<1>3. \A i \in 1 .. Len(z) : z[i] = "nul"
  BY ElementOfSeq
<1>4. s \in Seq(Chars \cup {"nul"}) /\ z \in Seq(Chars \cup {"nul"})
  <2>1. Seq(Chars) \subseteq Seq(Chars \cup {"nul"})
    BY SeqMonotonic
  <2>2. Seq({"nul"}) \subseteq Seq(Chars \cup {"nul"})
    BY SeqMonotonic
  <2> QED BY <2>1, <2>2
<1>5. PICK f : f = s \o z
  OBVIOUS
<1>6. /\ f \in Seq(Chars \cup {"nul"}) /\ Len(f) = Len(s) + Len(z)
      /\ \A i \in 1 .. Len(s) + Len(z) : f[i] = IF i <= Len(s) THEN s[i] ELSE z[i - Len(s)]
  BY <1>4, <1>5, ConcatProperties
<1>7. FileSound(f)
  <2>1. ASSUME NEW i \in 1 .. Len(f), f[i] = "nul" PROVE i = Len(f)
    <3>1. i <= Len(s) => f[i] \in Chars
      BY <1>1, <1>2, <1>6
    <3>2. ~ (i <= Len(s))
      BY <1>1, <2>1, <3>1
    <3>3. i <= Len(s) + Len(z) /\ Len(z) <= 1 /\ i \in Nat
      BY <1>1, <1>6
    <3> QED BY <1>1, <1>6, <3>2, <3>3
  <2>2. Len(f) = MaxLen + 1 => f[Len(f)] = "nul"
    <3>1. ASSUME Len(f) = MaxLen + 1 PROVE f[Len(f)] = "nul"
      <4>1. Len(s) = MaxLen /\ Len(z) = 1 /\ Len(f) \in 1 .. Len(s) + Len(z)
        BY <1>1, <1>6, <3>1
      <4>2. ~ (Len(f) <= Len(s)) /\ Len(f) - Len(s) = 1
        BY <1>1, <1>6, <4>1
      <4>3. f[Len(f)] = z[Len(f) - Len(s)]
        BY <1>6, <4>1, <4>2
      <4> QED BY <1>3, <4>1, <4>2, <4>3
    <3> QED BY <3>1
  <2>3. Len(f) <= MaxLen + 1
    <3>1. Len(f) = Len(s) + Len(z) /\ Len(z) <= 1
      BY <1>6
    <3> QED BY <1>1, <3>1
  <2> QED BY <1>6, <2>1, <2>2, <2>3 DEF FileSound
<1>8. ASSUME Len(z) = 1 PROVE FileSound(SubSeq(f, 1, Len(f) - 1))
  <2>1. PICK r : r = SubSeq(f, 1, Len(f) - 1)
    OBVIOUS
  <2>2. Len(f) - 1 = Len(s) /\ \A i \in 1 .. Len(s) : f[i] \in Chars
    BY <1>1, <1>2, <1>6, <1>8
  <2>3. r = SubSeq(f, 1, Len(s))
    BY <2>1, <2>2
  <2>4. r \in Seq(Chars) /\ Len(r) = IF 1 <= Len(s) THEN Len(s) - 1 + 1 ELSE 0
    BY <1>1, <2>2, <2>3, SubSeqProperties
  <2>5. Len(r) <= MaxLen
    BY <1>1, <2>4
  <2> QED BY <2>1, <2>4, <2>5, TextIsFile
<1> QED BY <1>5, <1>7, <1>8

\* A text reads as itself, with a zero byte behind it or without.
LEMMA StringOfText ==
    ASSUME NEW s \in Seq(Chars)
    PROVE  String(s) = s
<1>1. \A i \in 1 .. Len(s) : s[i] # "nul"
  BY ElementOfSeq DEF Chars
<1> QED BY <1>1 DEF String

LEMMA StringOfClosed ==
    ASSUME NEW s \in Seq(Chars), NEW f \in Seq(Chars \cup {"nul"}), Len(f) = Len(s) + 1,
           \A i \in 1 .. Len(s) : f[i] = s[i], f[Len(s) + 1] = "nul"
    PROVE  String(f) = s /\ SubSeq(f, 1, Len(f) - 1) = s
<1>1. Len(s) \in Nat /\ \A i \in 1 .. Len(s) : s[i] # "nul"
  BY ElementOfSeq, LenProperties DEF Chars
<1>2. PICK zeros : zeros = {i \in 1 .. Len(f) : f[i] = "nul"}
  OBVIOUS
<1>3. zeros = {Len(s) + 1}
  <2>1. \A i \in 1 .. Len(f) : f[i] = "nul" <=> i = Len(s) + 1
    BY <1>1
  <2>2. Len(s) + 1 \in 1 .. Len(f)
    BY <1>1
  <2> QED BY <1>2, <2>1, <2>2
<1>4. (CHOOSE i \in zeros : \A j \in zeros : i <= j) = Len(s) + 1
  BY <1>1, <1>3
<1>5. PICK r : r = SubSeq(f, 1, Len(s))
  OBVIOUS
<1>6. r = s
  <2>1. \A i \in 1 .. Len(s) : f[i] \in Chars
    BY ElementOfSeq
  <2>2. /\ r \in Seq(Chars) /\ Len(r) = Len(s)
        /\ \A i \in 1 .. Len(r) : r[i] = f[i]
    <3>1. /\ r \in Seq(Chars) /\ Len(r) = IF 1 <= Len(s) THEN Len(s) - 1 + 1 ELSE 0
          /\ \A i \in 1 .. Len(s) - 1 + 1 : r[i] = f[1 + i - 1]
      BY <1>1, <1>5, <2>1, SubSeqProperties
    <3>2. Len(r) = Len(s) /\ Len(s) - 1 + 1 = Len(s)
      BY <1>1, <3>1
    <3> QED BY <1>1, <3>1, <3>2
  <2> QED BY <2>2, SeqEqual
<1>7. Len(f) - 1 = Len(s) /\ Len(s) + 1 - 1 = Len(s)
  BY <1>1
<1>8. SubSeq(f, 1, Len(f) - 1) = s
  BY <1>5, <1>6, <1>7
<1>9. String(f) = SubSeq(f, 1, Len(s) + 1 - 1)
  BY <1>2, <1>3, <1>4 DEF String
<1> QED BY <1>5, <1>6, <1>7, <1>8, <1>9

\* What a save writes is a file of the right form, and gives the text again.
LEMMA BytesAre ==
    ASSUME IInv, ~Over, W.opened, NEW bytes \in Bytes
    PROVE  FileSound(bytes) /\ String(bytes) = Text
<1>1. TypeOK /\ active \in Windows
  BY DEF IInv, TypeOK
<1>2. /\ Text \in Seq(Chars) /\ Len(Text) \in 0 .. MaxLen /\ W.extra \in 0 .. 1
      /\ MaxLen \in Nat
  BY <1>1, TypesAre DEF W, Text
<1>3. W.size = Len(Text) + W.extra
  BY <1>1 DEF IInv, BufferSound, W, Text, Opened
<1>4. PICK z : z = [i \in 1 .. W.size - Len(Text) |-> "nul"]
  OBVIOUS
<1>5. PICK m \in 0 .. 1 : m = W.size - Len(Text)
  BY <1>2, <1>3
<1>6. z \in Seq({"nul"}) /\ Len(z) = m
  <2>1. z = [i \in 1 .. m |-> "nul"] /\ m \in Nat
    BY <1>4, <1>5
  <2>2. z \in [1 .. m -> {"nul"}]
    BY <2>1
  <2> QED BY <2>1, <2>2
<1>7. PICK f : f = Text \o z
  OBVIOUS
<1>8. bytes = f \/ (W.size > Len(Text) /\ bytes = SubSeq(f, 1, Len(f) - 1))
  BY <1>4, <1>7 DEF Bytes
<1>9. FileSound(f) /\ (m = 1 => FileSound(SubSeq(f, 1, Len(f) - 1)))
  <2>1. Len(Text) <= MaxLen /\ Len(z) \in 0 .. 1
    BY <1>2, <1>5, <1>6
  <2> QED BY <1>2, <1>6, <1>7, <2>1, ClosedTextIsFile
<1>10. W.size > Len(Text) => m = 1
  BY <1>2, <1>3, <1>5
<1>11. /\ Len(f) = Len(Text) + m
       /\ \A i \in 1 .. Len(Text) : f[i] = Text[i]
       /\ m = 1 => f[Len(Text) + 1] = "nul"
  <2>1. Text \in Seq(Chars \cup {"nul"}) /\ z \in Seq(Chars \cup {"nul"})
    <3>1. Seq(Chars) \subseteq Seq(Chars \cup {"nul"}) /\ Seq({"nul"}) \subseteq Seq(Chars \cup {"nul"})
      BY SeqMonotonic
    <3> QED BY <1>2, <1>6, <3>1
  <2>2. /\ Len(f) = Len(Text) + Len(z)
        /\ \A i \in 1 .. Len(Text) + Len(z) :
              f[i] = IF i <= Len(Text) THEN Text[i] ELSE z[i - Len(Text)]
    BY <1>7, <2>1, ConcatProperties
  <2>3. \A i \in 1 .. Len(z) : z[i] = "nul"
    BY <1>6, ElementOfSeq
  <2> QED BY <1>2, <1>6, <2>2, <2>3
<1>12. String(f) = Text /\ (m = 1 => String(SubSeq(f, 1, Len(f) - 1)) = Text)
  <2>1. CASE m = 0
    <3>1. f = Text
      BY <1>2, <1>9, <1>11, <2>1, SeqEqual DEF FileSound
    <3> QED BY <1>2, <2>1, <3>1, StringOfText
  <2>2. CASE m = 1
    <3>1. f \in Seq(Chars \cup {"nul"})
      BY <1>9 DEF FileSound
    <3>2. String(f) = Text /\ SubSeq(f, 1, Len(f) - 1) = Text
      BY <1>2, <1>11, <2>2, <3>1, StringOfClosed
    <3> QED BY <1>2, <3>2, StringOfText
  <2> QED BY <1>5, <2>1, <2>2
<1> QED BY <1>8, <1>9, <1>10, <1>12

\* A save leaves the text as it is, and its file holds it if the write does not fail; so do
\* the files of other windows, if they are not this one.
LEMMA WritesStep ==
    ASSUME IInv, Stepped, W.opened, NEW n \in Names, Writes(n), NEW v \in WindowType,
           v.opened, v.saved, ~v.created, v.path = n, v.text = Text, v.size = W.size,
           v.extra = W.extra, v.mode = W.mode, window' = [window EXCEPT ![active] = v],
           UNCHANGED <<running, usbkbd_used, active, ed, mark, clip, dropped>>
    PROVE  IInv'
<1>1. /\ TypeOK /\ ~Over /\ active \in Windows /\ MaxLen \in Nat /\ running \in BOOLEAN
      /\ mishaps \in SUBSET Mishaps
  BY EditorAssumption DEF IInv, Stepped, TypeOK
<1>2. \A m \in Names : FileSound(disk[m])
  BY <1>1 DEF IInv, TypeOK, FilesSound, FileSound
<1>3. PICK bytes : /\ FileSound(bytes) /\ disk' = [disk EXCEPT ![n] = bytes]
                   /\ mishaps' \cap Losing = {} => String(bytes) = Text
  <2>1. CASE \E bytes \in Bytes : disk' = [disk EXCEPT ![n] = bytes]
    BY <1>1, <2>1, BytesAre
  <2>2. CASE disk' = [disk EXCEPT ![n] = <<>>] /\ "short" \in mishaps'
    <3>1. PICK e : e = <<>>
      OBVIOUS
    <3>2. e \in Seq(Chars) /\ Len(e) = 0
      BY <3>1, LineEndsAre
    <3>3. Len(e) <= MaxLen
      BY <1>1, <3>2
    <3>4. FileSound(e)
      BY <3>2, <3>3, TextIsFile
    <3>5. disk' = [disk EXCEPT ![n] = e]
      BY <2>2, <3>1
    <3> QED BY <2>2, <3>4, <3>5 DEF Losing
  <2> QED BY <2>1, <2>2 DEF Writes, Happens
<1>4. \A m \in Names : FileSound(disk'[m])
  BY <1>1, <1>2, <1>3 DEF TypeOK
<1>5. /\ disk' \in [Names -> {file \in Seq(Chars \cup {"nul"}) : Len(file) <= MaxLen + 1}]
      /\ FilesSound'
  <2>1. FilesSound'
    BY <1>4 DEF FilesSound, FileSound
  <2>2. \A m \in Names : disk'[m] \in {file \in Seq(Chars \cup {"nul"}) : Len(file) <= MaxLen + 1}
    BY <1>4 DEF FileSound
  <2>3. PICK d : d = disk' /\ d = [disk EXCEPT ![n] = bytes]
    BY <1>3
  <2>4. disk \in [Names -> {file \in Seq(Chars \cup {"nul"}) : Len(file) <= MaxLen + 1}]
    BY <1>1 DEF TypeOK
  <2>5. d = [m \in Names |-> d[m]]
    BY <2>3, <2>4
  <2> QED BY <2>1, <2>2, <2>3, <2>5
<1>6. /\ mishaps' \in SUBSET Mishaps /\ mishaps \subseteq mishaps'
      /\ mishaps' \cap Mixing = {} => mishaps \cap Mixing = {}
      /\ mishaps' \cap Losing = {} => ~ Overwrites(n)
  <2>1. "short" \in Mishaps /\ "overwritten" \in Mishaps /\ "overwritten" \in Losing
    BY DEF Mishaps, Losing
  <2>2. PICK over : over = IF Overwrites(n) THEN {"overwritten"} ELSE {}
    OBVIOUS
  <2>3. mishaps' = mishaps \cup over \/ mishaps' = mishaps \cup (over \cup {"short"})
    BY <2>2 DEF Writes, Happens
  <2> QED BY <1>1, <2>1, <2>2, <2>3
<1>11. ASSUME mishaps' \cap Losing = {}
       PROVE  /\ Held(v, disk')
              /\ \A u \in Windows \ {active} :
                    window[u].opened /\ window[u].saved /\ Held(window[u], disk) =>
                       Held(window[u], disk')
  <2>1. disk'[n] = bytes /\ \A m \in Names \ {n} : disk'[m] = disk[m]
    BY <1>1, <1>3 DEF TypeOK
  <2>2. String(disk'[n]) = Text
    BY <1>3, <1>11, <2>1
  <2>3. ASSUME NEW u \in Windows \ {active}, window[u].opened, window[u].saved,
               Held(window[u], disk)
        PROVE  Held(window[u], disk')
    <3>1. CASE window[u].path = n
      <4>1. window[u].text = Text
        BY <1>6, <1>11, <2>3, <3>1 DEF Overwrites, Opened
      <4> QED BY <2>2, <2>3, <3>1, <4>1 DEF Held
    <3>2. CASE window[u].path # n
      BY <2>1, <2>3, <3>2 DEF Held
    <3> QED BY <3>1, <3>2
  <2> QED BY <2>2, <2>3 DEF Held
<1>7. /\ window' \in [Windows -> WindowType] /\ window'[active'] = v
  BY <1>1 DEF TypeOK
<1>8. ed' \in EdType /\ mark' \in MarkType /\ clip' \in ClipType /\ dropped' \in BOOLEAN
  BY <1>1 DEF TypeOK, EdType, MarkType, ClipType
<1>9. ASSUME ~Over'
      PROVE  /\ v.size = Len(v.text) + v.extra
             /\ ed'.cur <= Len(v.text)
             /\ mark'.on /\ "carried" \notin mishaps' => mark'.in <= Len(v.text)
             /\ ~running' => ~mark'.on
  <2>1. "carried" \notin mishaps' => "carried" \notin mishaps
    BY <1>6
  <2> QED BY <1>1, <2>1 DEF IInv, BufferSound, IdleSound, W, Text, Cur, Opened
<1>10. ASSUME mishaps' \cap Mixing = {}
       PROVE  /\ v.mode = "other" => Paired(v.text)
              /\ mark'.on /\ v.mode = "other" => Between(v.text, mark'.in)
              /\ clip'.mode = "other" => Paired(clip'.text)
  <2>1. mishaps \cap Mixing = {} /\ mishaps \cap {"mixed", "carried", "shifted"} = {}
    BY <1>6, <1>10 DEF Mixing
  <2>2. W.mode = "other" => Paired(Text)
    BY <1>1, <2>1 DEF IInv, LineEndsWhole, W, Text, Opened
  <2>3. clip.mode = "other" => Paired(clip.text)
    BY <1>1, <2>1 DEF IInv, LineEndsWhole
  <2>4. W.mode = "other" /\ mark.on => Between(Text, mark.in)
    BY <1>1, <2>1 DEF IInv, MarkWhole
  <2> QED BY <2>2, <2>3, <2>4
<1> QED BY <1>1, <1>5, <1>6, <1>7, <1>8, <1>9, <1>10, <1>11, WindowStep

LEMMA SavesStep ==
    ASSUME IInv, Stepped, Save \/ SaveAs
    PROVE  IInv'
<1>1. TypeOK /\ active \in Windows /\ window[active] \in WindowType
  BY TypesAre DEF IInv, TypeOK
<1>2. W = window[active] /\ Text = W.text /\ window \in [Windows -> WindowType]
  BY <1>1 DEF W, Text, TypeOK
<1>3. CASE Save
  <2>1. /\ W.opened /\ Writes(W.path)
        /\ UNCHANGED <<running, usbkbd_used, active, ed, mark, clip, dropped>>
    BY <1>3 DEF Save, MenuEditor
  <2>2. W.path \in Names /\ ~W.created
    BY <1>1, <1>2, <1>3, <2>1 DEF Save, MenuEditor, IInv, PathsSound
  <2>3. PICK v : v = [window[active] EXCEPT !.saved = TRUE]
    OBVIOUS
  <2>4. window' = [window EXCEPT ![active] = v]
    BY <1>1, <1>2, <1>3, <2>3 DEF Save
  <2>5. /\ v \in WindowType /\ v.opened /\ v.saved /\ v.text = Text /\ v.size = W.size
        /\ v.extra = W.extra /\ v.mode = W.mode /\ ~v.created /\ v.path = W.path
    BY <1>1, <1>2, <2>1, <2>2, <2>3 DEF WindowType
  <2> QED BY <2>1, <2>2, <2>4, <2>5, WritesStep
<1>4. CASE SaveAs
  <2>1. PICK n \in Names :
          /\ Writes(n)
          /\ window' = [window EXCEPT ![active].created = FALSE,
                                      ![active].saved = TRUE, ![active].path = n]
    BY <1>4 DEF SaveAs
  <2>2. W.opened /\ UNCHANGED <<running, usbkbd_used, active, ed, mark, clip, dropped>>
    BY <1>4 DEF SaveAs, MenuEditor
  <2>3. PICK v : v = [window[active] EXCEPT !.created = FALSE, !.saved = TRUE, !.path = n]
    OBVIOUS
  <2>4. window' = [window EXCEPT ![active] = v]
    BY <1>1, <1>2, <2>1, <2>3
  <2>5. /\ v \in WindowType /\ v.opened /\ v.saved /\ v.text = Text /\ v.size = W.size
        /\ v.extra = W.extra /\ v.mode = W.mode /\ ~v.created /\ v.path = n
    BY <1>1, <1>2, <2>2, <2>3 DEF WindowType
  <2> QED BY <2>1, <2>2, <2>4, <2>5, WritesStep
<1> QED BY <1>3, <1>4

LEMMA SelectStep ==
    ASSUME IInv, Stepped, Select
    PROVE  IInv'
<1>1. TypeOK /\ ~Over /\ running \in BOOLEAN
  BY DEF IInv, Stepped, TypeOK
<1>2. PICK w \in Windows : active' = w /\ ed' = Ruled(window, w, Fresh(window[w].mode))
  BY DEF Select
<1>3. /\ window' = window /\ mark' = Unmarked
      /\ UNCHANGED <<running, usbkbd_used, clip, disk, dropped, mishaps>>
  BY DEF Select
<1>4. /\ window \in [Windows -> WindowType] /\ window[w].mode \in Modes
      /\ Len(window[w].text) \in Nat
  <2>1. Len(window[w].text) \in 0 .. MaxLen
    BY <1>1, TypesAre
  <2>2. window \in [Windows -> WindowType] /\ window[w].mode \in Modes
    BY <1>1, TypesAre DEF TypeOK
  <2> QED BY <2>1, <2>2, EditorAssumption
<1>5. ed' \in EdType /\ ed'.cur = 0
  <2>1. LET e == Ruled(window, w, Fresh(window[w].mode)) IN e \in EdType /\ e.cur = 0
    BY <1>4, FreshRuled
  <2> QED BY <1>2, <2>1
<1>6. mark' \in MarkType /\ ~mark'.on /\ clip' \in ClipType
  BY <1>1, <1>3, UnmarkedIs DEF TypeOK, MarkType, ClipType
<1>7. mishaps' \in SUBSET Mishaps /\ mishaps' = mishaps /\ running' \in BOOLEAN
  BY <1>1, <1>3 DEF TypeOK
<1>8. mishaps' \cap Mixing = {} /\ clip'.mode = "other" => Paired(clip'.text)
  BY <1>1, <1>3 DEF IInv, LineEndsWhole, Mixing
<1> QED BY <1>2, <1>3, <1>4, <1>5, <1>6, <1>7, <1>8, ViewStep

LEMMA NoClipIs == NoClip \in ClipType /\ NoClip.mode # "other"
<1>1. PICK e : e = <<>>
  OBVIOUS
<1>2. e \in Seq(Chars)
  BY <1>1, LineEndsAre
<1>3. NoClip = [text |-> e, mode |-> "nothing"]
  BY <1>1 DEF NoClip
<1> QED BY <1>2, <1>3 DEF ClipType

LEMMA NoMarkIs == NoMark \in MarkType /\ ~NoMark.on
BY EditorAssumption DEF NoMark, MarkType

LEMMA ExitStep ==
    ASSUME IInv, Stepped, Exit
    PROVE  IInv'
<1>1. TypeOK /\ ~Over /\ events' \in 0 .. MaxEvents
  BY EditorAssumption DEF IInv, Stepped, TypeOK
<1>2. /\ running' = FALSE /\ window' = [w \in Windows |-> Free] /\ ed' = Fresh("none")
      /\ mark' = NoMark /\ clip' = NoClip /\ Drops(Windows)
      /\ UNCHANGED <<usbkbd_used, active, disk, mishaps>>
  BY DEF Exit, ExitDrops
<1>3. /\ window' \in [Windows -> WindowType]
      /\ \A w \in Windows : ~window'[w].opened /\ window'[w].saved /\ window'[w].size = 0
  <2>1. PICK v \in WindowType : v = Free /\ ~v.opened /\ v.saved /\ v.size = 0
    BY FreeIs
  <2>2. window' = [w \in Windows |-> v]
    BY <1>2, <2>1
  <2> QED BY <2>1, <2>2
<1>4. ed' \in EdType /\ ed'.cur = 0
  <2>1. PICK e : e = Fresh("none") /\ e \in EdType /\ e.cur = 0
    BY FreshIs DEF Modes
  <2> QED BY <1>2, <2>1
<1>5. mark' \in MarkType /\ ~mark'.on /\ clip' \in ClipType /\ clip'.mode # "other"
  BY <1>2, NoMarkIs, NoClipIs
<1>6. /\ dropped' \in BOOLEAN
      /\ mishaps' \cap Losing = {} => ~dropped'
  <2>1. /\ dropped' \in BOOLEAN
        /\ mishaps \cap Losing = {} => dropped' = dropped
    BY <1>2, DropsIs
  <2>2. mishaps' = mishaps
    BY <1>2
  <2> QED BY <2>1, <2>2 DEF IInv, EditsAskedFor, Losing
<1>7. TypeOK'
  BY <1>1, <1>2, <1>3, <1>4, <1>5, <1>6 DEF TypeOK, EdType, MarkType, ClipType
<1>8. FilesSound' /\ active' \in Windows
  BY <1>1, <1>2 DEF IInv, FilesSound, TypeOK
<1>9. BufferSound' /\ IdleSound' /\ LineEndsWhole' /\ MarkWhole'
  BY <1>3, <1>4, <1>5, <1>8
     DEF BufferSound, IdleSound, LineEndsWhole, MarkWhole, W, Cur, Text, Opened
<1>10. SavedSound' /\ PathsSound' /\ EditsAskedFor'
  BY <1>3, <1>6 DEF SavedSound, PathsSound, EditsAskedFor, Losing
<1> QED BY <1>7, <1>8, <1>9, <1>10 DEF IInv

LEMMA StartStep ==
    ASSUME IInv, Stepped, Start
    PROVE  IInv'
<1>1. TypeOK /\ ~Over /\ ~running /\ running' = TRUE /\ UNCHANGED <<usbkbd_used, disk>>
  BY DEF IInv, Stepped, Start
<1>2. 0 \in Windows
  BY WindowsAre
<1>3. CASE \E n \in Names : Opens(0, n)
  BY <1>1, <1>2, <1>3, OpensStep
<1>4. CASE /\ active' = 0 /\ ed' = Fresh("none")
           /\ UNCHANGED <<window, mark, clip, dropped, mishaps>>
  <2>1. ed' \in EdType /\ ed'.cur = 0
    <3>1. PICK e : e = Fresh("none") /\ e \in EdType /\ e.cur = 0
      BY FreshIs DEF Modes
    <3> QED BY <1>4, <3>1
  <2>2. mark' \in MarkType /\ ~mark'.on /\ clip' \in ClipType
    BY <1>1, <1>4 DEF IInv, IdleSound, TypeOK, MarkType, ClipType
  <2>3. Len(window[0].text) \in Nat
    BY <1>1, <1>2, TypesAre
  <2>4. mishaps' \in SUBSET Mishaps /\ mishaps' = mishaps
    BY <1>1, <1>4 DEF TypeOK
  <2>5. mishaps' \cap Mixing = {} /\ clip'.mode = "other" => Paired(clip'.text)
    BY <1>1, <1>4 DEF IInv, LineEndsWhole, Mixing
  <2> QED BY <1>1, <1>2, <1>4, <2>1, <2>2, <2>3, <2>4, <2>5, ViewStep
<1> QED BY <1>3, <1>4 DEF Start

LEMMA StutterStep ==
    ASSUME IInv, UNCHANGED vars
    PROVE  IInv'
<1>1. TypeOK'
  BY DEF IInv, TypeOK, vars
<1>2. BufferSound' /\ IdleSound' = IdleSound /\ FilesSound' = FilesSound /\ Over' = Over
  BY DEF IInv, BufferSound, IdleSound, FilesSound, Over, W, Text, Cur, Opened, vars
<1>3. LineEndsWhole' /\ MarkWhole' = MarkWhole /\ EditsAskedFor'
  BY DEF IInv, LineEndsWhole, MarkWhole, EditsAskedFor, Over, W, Text, Opened, vars
<1>4. SavedSound' /\ PathsSound'
  BY DEF IInv, SavedSound, PathsSound, vars
<1> QED BY <1>1, <1>2, <1>3, <1>4 DEF IInv, vars

LEMMA InitIInv ==
    ASSUME Init
    PROVE  IInv
<1>1. /\ running = FALSE /\ usbkbd_used \in BOOLEAN /\ window = [w \in Windows |-> Free]
      /\ active = 0 /\ ed = Fresh("none") /\ mark = NoMark /\ clip = NoClip
      /\ disk \in [Names -> FirstFiles] /\ dropped = FALSE /\ mishaps = {}
      /\ events = 0
  BY DEF Init
<1>2. active \in Windows /\ events \in 0 .. MaxEvents
  BY <1>1, WindowsAre, EditorAssumption
<1>3. /\ window \in [Windows -> WindowType]
      /\ \A w \in Windows : ~window[w].opened /\ window[w].saved /\ window[w].size = 0
  <2>1. PICK v \in WindowType : v = Free /\ ~v.opened /\ v.saved /\ v.size = 0
    BY FreeIs
  <2>2. window = [w \in Windows |-> v]
    BY <1>1, <2>1
  <2> QED BY <2>1, <2>2
<1>4. ed \in EdType /\ ed.cur = 0
  <2>1. PICK e : e = Fresh("none") /\ e \in EdType /\ e.cur = 0
    BY FreshIs DEF Modes
  <2> QED BY <1>1, <2>1
<1>5. mark \in MarkType /\ ~mark.on /\ clip \in ClipType /\ clip.mode # "other"
  BY <1>1, NoMarkIs, NoClipIs
<1>6. \A n \in Names : FileSound(disk[n])
  <2>1. ASSUME NEW n \in Names PROVE FileSound(disk[n])
    <3>1. disk[n] \in Seq(Chars) /\ Len(disk[n]) <= MaxLen
      BY <1>1, EditorAssumption
    <3> QED BY <3>1, TextIsFile
  <2> QED BY <2>1
<1>7. /\ disk \in [Names -> {file \in Seq(Chars \cup {"nul"}) : Len(file) <= MaxLen + 1}]
      /\ FilesSound
  <2>1. FilesSound
    BY <1>6 DEF FilesSound, FileSound
  <2>2. \A n \in Names : disk[n] \in {file \in Seq(Chars \cup {"nul"}) : Len(file) <= MaxLen + 1}
    BY <1>6 DEF FileSound
  <2>3. disk = [n \in Names |-> disk[n]]
    BY <1>1
  <2> QED BY <2>1, <2>2, <2>3
<1>8. TypeOK
  BY <1>1, <1>2, <1>3, <1>4, <1>5, <1>7 DEF TypeOK, EdType, MarkType, ClipType
<1>9. BufferSound /\ IdleSound /\ LineEndsWhole /\ MarkWhole
  BY <1>2, <1>3, <1>4, <1>5
     DEF BufferSound, IdleSound, LineEndsWhole, MarkWhole, W, Cur, Text, Opened
<1>10. SavedSound /\ PathsSound /\ EditsAskedFor
  BY <1>1, <1>3 DEF SavedSound, PathsSound, EditsAskedFor
<1> QED BY <1>7, <1>8, <1>9, <1>10 DEF IInv

LEMMA NextIInv ==
    ASSUME IInv, [Next]_vars
    PROVE  IInv'
<1>1. CASE UNCHANGED vars
  BY <1>1, StutterStep
<1>2. CASE ~Over /\ events < MaxEvents /\ Event /\ events' = events + 1
  <2>1. Stepped
    BY <1>2 DEF Stepped
  <2>2. CASE MoveRight \/ MoveLeft \/ MoveRows
    BY <2>1, <2>2, MoveStep
  <2>3. CASE TypeChar
    BY <2>1, <2>3, TypeCharStep
  <2>4. CASE TypeReturn
    BY <2>1, <2>4, TypeReturnStep
  <2>5. CASE Paste
    BY <2>1, <2>5, PasteStep
  <2>6. CASE KeyWithoutWindow
    BY <2>1, <2>6, KeyWithoutWindowStep
  <2>7. CASE Backspace
    BY <2>1, <2>7, BackspaceStep
  <2>8. CASE Delete
    BY <2>1, <2>8, DeleteStep
  <2>9. CASE Mark
    BY <2>1, <2>9, MarkStep
  <2>10. CASE Copy
    BY <2>1, <2>10, CopyStep
  <2>11. CASE Cut
    BY <2>1, <2>11, CutStep
  <2>12. CASE ReturnMode \/ InsertMode \/ VirtualKeyboard
    BY <2>1, <2>12, ModesStep
  <2>13. CASE New
    BY <2>1, <2>13, NewStep
  <2>14. CASE Open
    BY <2>1, <2>14, OpenStep
  <2>15. CASE Close
    BY <2>1, <2>15, CloseStep
  <2>16. CASE Save \/ SaveAs
    BY <2>1, <2>16, SavesStep
  <2>17. CASE Select
    BY <2>1, <2>17, SelectStep
  <2>18. CASE Exit
    BY <2>1, <2>18, ExitStep
  <2>19. CASE Start
    BY <2>1, <2>19, StartStep
  <2> QED BY <1>2, <2>2, <2>3, <2>4, <2>5, <2>6, <2>7, <2>8, <2>9, <2>10, <2>11, <2>12, <2>13,
             <2>14, <2>15, <2>16, <2>17, <2>18, <2>19 DEF Event
<1> QED BY <1>1, <1>2 DEF Next

-----------------------------------------------------------------------------
(***************************************************************************)
(* Theorems.                                                               *)
(***************************************************************************)
\* The inductive invariant holds of the editor (editor.c), whatever the keys and menu choices.
THEOREM EditorAlwaysSound == Spec => []IInv
<1>1. Init => IInv
  BY InitIInv
<1>2. IInv /\ [Next]_vars => IInv'
  BY NextIInv
<1> QED BY <1>1, <1>2, PTL DEF Spec

\* Every window, the cursor, the mark, the copy buffer and the files keep their types; a
\* window that is not open counts as saved and empty.
THEOREM TypeCorrect == Spec => []TypeOK
<1>1. IInv => TypeOK
  BY DEF IInv
<1> QED BY <1>1, EditorAlwaysSound, PTL

\* Through every key and menu choice (del1..del4, ins1..ins5 of the keyboard entry) the size
\* counted for a text stays that of its string, and the cursor and the mark stay in the text.
THEOREM BufferAlwaysSound == Spec => []BufferSound
<1>1. IInv => BufferSound
  BY DEF IInv
<1> QED BY <1>1, EditorAlwaysSound, PTL

\* No edit of a text of mode other, and no copy of a part of one, parts a CR from its LF.
THEOREM LineEndsAlwaysWhole == Spec => []LineEndsWhole
<1>1. IInv => LineEndsWhole
  BY DEF IInv
<1> QED BY <1>1, EditorAlwaysSound, PTL

\* Close and Exit drop no text that differs from its file without a question (ynDialog), unless
\* one was changed after a save, the write of a save failed, or a window was saved over the
\* file of another.
THEOREM EditsAlwaysAskedFor == Spec => []EditsAskedFor
<1>1. IInv => EditsAskedFor
  BY DEF IInv
<1> QED BY <1>1, EditorAlwaysSound, PTL
=============================================================================
