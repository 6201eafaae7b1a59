---------------------------- MODULE PasteProofs ----------------------------
(***************************************************************************)
(* What holds of cut and paste for any tree of files and folders, any list *)
(* in the clipboard and any failures.  The lemmas go from trees to single  *)
(* levels of copy(): what is copied, removed or left at one level never    *)
(* touches what the levels above it have finished.                         *)
(***************************************************************************)
EXTENDS Paste, WellFoundedInduction, SequenceTheorems, TLAPS

-----------------------------------------------------------------------------
(***************************************************************************)
(* Trees.                                                                  *)
(***************************************************************************)
Closed(s) == \A x \in Nodes : Parent[x] \in s => x \in s

LEMMA TreeIs ==
    /\ Folders \subseteq Nodes /\ Top \notin Nodes
    /\ \A n \in Nodes : Parent[n] \in Folders \cup {Top}
    /\ \A s \in SUBSET Nodes : s # {} => \E n \in s : Parent[n] \notin s
BY PasteAssumption

LEMMA SubtreeIs ==
    ASSUME NEW n \in Nodes
    PROVE  n \in Subtree(n) /\ Subtree(n) \subseteq Nodes /\ Closed(Subtree(n))
BY DEF Subtree, Closed

LEMMA SubtreeLeast ==
    ASSUME NEW n \in Nodes, NEW s \in SUBSET Nodes, n \in s, Closed(s)
    PROVE  Subtree(n) \subseteq s
BY DEF Subtree, Closed

LEMMA SubtreeWithin ==
    ASSUME NEW n \in Nodes, NEW m \in Subtree(n)
    PROVE  Subtree(m) \subseteq Subtree(n)
BY SubtreeIs, SubtreeLeast

LEMMA ChildrenWithin ==
    ASSUME NEW n \in Nodes
    PROVE  Children(n) \subseteq Subtree(n)
BY SubtreeIs DEF Closed, Children

LEMMA SubtreeAbove ==
    ASSUME NEW n \in Nodes, NEW m \in Subtree(n), m # n
    PROVE  Parent[m] \in Subtree(n)
<1> SUFFICES ASSUME Parent[m] \notin Subtree(n) PROVE FALSE
  OBVIOUS
<1> DEFINE s == Subtree(n) \ {m}
<1>1. n \in s /\ s \in SUBSET Nodes /\ Closed(s)
  BY SubtreeIs DEF Closed
<1>2. Subtree(n) \subseteq s
  <2> HIDE DEF s
  <2> QED BY <1>1, SubtreeLeast
<1> QED BY <1>2

LEMMA ParentOutside ==
    ASSUME NEW n \in Nodes
    PROVE  Parent[n] \notin Subtree(n)
<1> SUFFICES ASSUME Parent[n] \in Subtree(n) PROVE FALSE
  OBVIOUS
<1>1. \A m \in Subtree(n) : Parent[m] \in Subtree(n)
  BY SubtreeAbove
<1>2. Subtree(n) \in SUBSET Nodes /\ Subtree(n) # {}
  BY SubtreeIs
<1> QED BY <1>1, <1>2, TreeIs

\* What is in two folders of one folder is apart.
LEMMA SubtreesApart ==
    ASSUME NEW m \in Nodes, NEW n \in Nodes, m # n, Parent[m] = Parent[n]
    PROVE  Subtree(m) \cap Subtree(n) = {}
<1> DEFINE s == Subtree(m) \cap Subtree(n)
<1>1. ASSUME NEW k \in s PROVE Parent[k] \in s
  <2>1. k # m
    BY <1>1, SubtreeAbove, ParentOutside
  <2>2. k # n
    BY <1>1, SubtreeAbove, ParentOutside
  <2> QED BY <1>1, <2>1, <2>2, SubtreeAbove
<1>2. s \in SUBSET Nodes
  BY SubtreeIs
<1>3. s = {}
  <2> HIDE DEF s
  <2> QED BY <1>1, <1>2, TreeIs
<1> QED BY <1>3

LEMMA FileAlone ==
    ASSUME NEW n \in Files
    PROVE  Subtree(n) = {n} /\ n \in Nodes
<1>1. n \in Nodes /\ Closed({n})
  BY TreeIs DEF Files, Closed
<1>2. Subtree(n) \subseteq {n}
  BY <1>1, SubtreeLeast
<1> QED BY <1>1, <1>2, SubtreeIs

\* What is missing of a tree is missing with all that is below it.
LEMMA MissingBelow ==
    ASSUME NEW s \in SUBSET Nodes, Grounded(s), NEW n \in Nodes, n \notin s
    PROVE  Subtree(n) \cap s = {}
<1>1. Closed(Nodes \ s)
  BY TreeIs DEF Closed, Grounded
<1>2. Subtree(n) \subseteq Nodes \ s
  BY <1>1, SubtreeLeast
<1> QED BY <1>2

LEMMA SubtreeParts ==
    ASSUME NEW d \in Nodes, NEW m \in Subtree(d), m # d
    PROVE  \E c \in Children(d) : m \in Subtree(c)
<1> DEFINE s == {d} \cup {x \in Nodes : \E c \in Children(d) : x \in Subtree(c)}
<1>1. d \in s /\ s \in SUBSET Nodes
  OBVIOUS
<1>2. Closed(s)
  <2> SUFFICES ASSUME NEW x \in Nodes, Parent[x] \in s PROVE x \in s
    BY DEF Closed
  <2>1. CASE Parent[x] = d
    <3>1. x \in Children(d) /\ x \in Subtree(x)
      BY <2>1, SubtreeIs DEF Children
    <3> QED BY <3>1
  <2>2. ASSUME NEW c \in Children(d), Parent[x] \in Subtree(c) PROVE x \in s
    BY <2>2, SubtreeIs DEF Children, Closed
  <2> QED BY <2>1, <2>2
<1>3. Subtree(d) \subseteq s
  <2> HIDE DEF s
  <2> QED BY <1>1, <1>2, SubtreeLeast
<1> QED BY <1>3


-----------------------------------------------------------------------------
(***************************************************************************)
(* The inductive invariant.                                                *)
(***************************************************************************)
\* The folders copy() is in lie in each other, the first is the item of the clipboard
\* that is pasted; there are none while nothing is copied.
StackSound ==
    /\ stack \in Seq(Frame)
    /\ stack # <<>> => Active /\ paste.phase = "copy" /\ stack[1].node = Item
    /\ \A i, j \in DOMAIN stack : i <= j => stack[j].node \in Subtree(stack[i].node)

\* PM_flag at each level: only mcPaste has its flag at more than one.
FlagsSound ==
    \A i \in DOMAIN stack : LET flag == stack[i].flag IN
        /\ flag \in {"normal", paste.mode}
        /\ flag \in {"psuBackup", "psuRestore"} => Len(stack) = 1
        /\ flag = "psuRestore" => Unpacks(Item)
        /\ paste.mode = "psuBackup" => flag = "psuBackup"
        /\ Unpacks(stack[i].node) => flag = "psuRestore"
        /\ paste.mode \in Attributing => flag = paste.mode \/ Unless({"unattributed"})

\* The folders copy() is in are there to be copied into.
FoldersMade ==
    \A i \in DOMAIN stack :
        IF paste.mode = "psuBackup" THEN dst["psu"][stack[i].node] = "part"
        ELSE dst["dir"][stack[i].node] # "none"

\* What each level of copy() holds open.
Held == {<<IF stack[i].flag \in Attributing THEN "attr" ELSE "psu", stack[i].node>> :
            i \in {j \in DOMAIN stack : stack[j].flag # "normal"}}

OpenSound ==
    \/ Unless({"abandoned", "unattributed", "declined"})
    \/ open \subseteq Held

\* What was moved is no longer at the source, and delete() follows a copy at once.
MovedSound ==
    /\ src \cap moved = {}
    /\ paste.phase = "delete" => Active /\ event = [done |-> Item, mode |-> paste.mode]

\* A PSU file with its count written has all that is left of its folder.
PsuSound ==
    \/ Unless({"unlisted", "garbled"})
    \/ \A d \in Packable : dst["psu"][d] = "whole" =>
          \A n \in Subtree(d) \cap src \cap Files :
              Parent[n] = d /\ dst["psu"][n] = "whole"

\* The attributes of n are kept where this paste keeps attributes.
Kept(n) ==
    \/ n \in attr
    \/ Unless({"unattributed"})
    \/ IF paste.mode \in Attributing THEN Parent[n] = Top ELSE ~ Unpacks(Item)

\* m has been copied, by a level of copy() whose PM_flag is flag.
Arrived(m, flag) ==
    IF paste.mode = "psuBackup" THEN m \in Files /\ dst["psu"][m] = "whole"
    ELSE \A n \in Subtree(m) \cap src \cap Files :
            InDir(n) /\ (Kept(n) \/ (n = m /\ flag = "mcRestore"))

CopiedSoFar ==
    \/ Unless({"unlisted", "garbled"})
    \/ \A i \in DOMAIN stack :
          \A m \in (Children(stack[i].node) \cap src) \ stack[i].todo :
              Arrived(m, stack[i].flag)

IInv ==
    /\ TypeOK /\ StackSound /\ FlagsSound /\ FoldersMade /\ OpenSound /\ MovedSound
    /\ PsuSound /\ CopiedSoFar /\ CutKeeps /\ ContentsCopied

-----------------------------------------------------------------------------
(***************************************************************************)
(* The list in the clipboard.                                              *)
(***************************************************************************)
Listing == {Items[i] : i \in DOMAIN Items}

LEMMA ItemsAre ==
    /\ Items \in Seq(Nodes) /\ DOMAIN Items \subseteq Nat
    /\ \A i \in DOMAIN Items : Items[i] \in Nodes /\ Parent[Items[i]] = Top
<1>1. Items \in Seq({n \in Nodes : Parent[n] = Top})
  BY PasteAssumption
<1>2. DOMAIN Items = 1 .. Len(Items) /\ Len(Items) \in Nat
  BY <1>1, LenProperties
<1>3. \A i \in DOMAIN Items : Items[i] \in {n \in Nodes : Parent[n] = Top}
  BY <1>1, <1>2, ElementOfSeq
<1> QED BY <1>1, <1>2, <1>3, SeqMonotonic

LEMMA LeastIn ==
    ASSUME NEW s \in SUBSET Nat, s # {}
    PROVE  Least(s) \in s
<1> DEFINE less == OpToRel(<, Nat)
<1>1. ASSUME NEW i \in Nat, NEW j \in Nat, j < i
      PROVE  <<j, i>> \in less
  BY <1>1 DEF OpToRel
<1>2. IsWellFoundedOn(less, Nat)
  BY NatLessThanWellFounded
<1> HIDE DEF less
<1>3. PICK i \in s : \A j \in s : ~ (<<j, i>> \in less)
  BY <1>2, WFMin
<1>4. ASSUME NEW j \in s PROVE i <= j
  <2>1. i \in Nat /\ j \in Nat /\ ~ (j < i)
    BY <1>1, <1>3
  <2> QED BY <2>1
<1> QED BY <1>3, <1>4 DEF Least

LEMMA AfterIn ==
    ASSUME NEW i \in Nat, After(i) # {}
    PROVE  LET j == Least(After(i)) IN j \in DOMAIN Items /\ j \in Nat /\ Items[j] \in clip.items
<1>1. After(i) \in SUBSET Nat
  BY ItemsAre DEF After
<1>2. Least(After(i)) \in After(i)
  BY <1>1, LeastIn
<1> QED BY <1>2, ItemsAre DEF After

-----------------------------------------------------------------------------
(***************************************************************************)
(* The levels of copy().  At(k, n): n is an item of the k-th level, or for *)
(* k = 0 the one subfunc_Paste is at.                                      *)
(***************************************************************************)
At(k, n) ==
    /\ Active /\ paste.phase = "copy"
    /\ k \in 0 .. Len(stack)
    /\ n = Item \/ k # 0
    /\ k # 0 => n \in stack[k].todo

LEMMA LevelsAre ==
    ASSUME IInv
    PROVE  /\ stack \in Seq(Frame) /\ Len(stack) \in Nat /\ DOMAIN stack = 1 .. Len(stack)
           /\ stack = <<>> <=> Len(stack) = 0
           /\ \A i \in 1 .. Len(stack) :
                 /\ stack[i] \in Frame
                 /\ stack[i].node \in Nodes /\ stack[i].node \in Folders
                 /\ stack[i].todo \subseteq Children(stack[i].node) \cap src
           /\ \A i, j \in 1 .. Len(stack) : j = i + 1 => stack[j].node \in stack[i].todo
<1>1. stack \in Seq(Frame)
  BY DEF IInv, StackSound
<1>2. /\ Len(stack) \in Nat /\ DOMAIN stack = 1 .. Len(stack)
      /\ stack = <<>> <=> Len(stack) = 0
  BY <1>1, LenProperties, EmptySeq
<1>3. ASSUME NEW i \in 1 .. Len(stack), NEW j \in 1 .. Len(stack), j = i + 1
      PROVE  stack[j].node \in stack[i].todo
  <2>1. j > 1 /\ j - 1 = i /\ j \in DOMAIN stack
    BY <1>2, <1>3
  <2>2. stack[j].node \in stack[j - 1].todo
    BY <2>1 DEF IInv, TypeOK
  <2> QED BY <2>1, <2>2
<1>4. \A i \in 1 .. Len(stack) :
         /\ stack[i] \in Frame
         /\ stack[i].node \in Nodes /\ stack[i].node \in Folders
         /\ stack[i].todo \subseteq Children(stack[i].node) \cap src
  BY <1>2, TreeIs DEF IInv, TypeOK, Frame
<1> QED BY <1>1, <1>2, <1>3, <1>4

LEMMA ItemIs ==
    ASSUME IInv, Active
    PROVE  Item \in Nodes /\ Parent[Item] = Top /\ Item \in clip.items
BY ItemsAre DEF IInv, TypeOK, Item

\* Where an item is in the tree, seen from the levels above it.
LEMMA AtIs ==
    ASSUME IInv, NEW k, NEW n, At(k, n)
    PROVE  /\ n \in Nodes /\ k \in Nat
           /\ k = 0 => Parent[n] = Top
           /\ k # 0 => Parent[n] = stack[k].node /\ n \in src
           /\ \A i \in 1 .. k : /\ n \in Subtree(stack[i].node)
                                /\ stack[i].node \notin Subtree(n)
<1>1. k \in 0 .. Len(stack) /\ k \in Nat
  BY LevelsAre DEF At
<1>2. k = 0 => n \in Nodes /\ Parent[n] = Top
  BY ItemIs DEF At
<1>3. k # 0 => n \in Children(stack[k].node) \cap src
  BY <1>1, LevelsAre DEF At
<1>4. n \in Nodes /\ (k # 0 => Parent[n] = stack[k].node /\ n \in src)
  BY <1>2, <1>3 DEF Children
<1>5. ASSUME NEW i \in 1 .. k PROVE n \in Subtree(stack[i].node) /\ stack[i].node \notin Subtree(n)
  <2>1. i \in 1 .. Len(stack) /\ k \in 1 .. Len(stack) /\ k # 0 /\ i <= k
    BY <1>1, <1>5, LevelsAre
  <2>2. stack[k].node \in Subtree(stack[i].node)
    BY <2>1, LevelsAre DEF IInv, StackSound
  <2>3. n \in Subtree(stack[i].node)
    BY <1>4, <2>1, <2>2, LevelsAre, SubtreeIs DEF Closed
  <2>4. ASSUME stack[i].node \in Subtree(n) PROVE FALSE
    <3>1. stack[k].node \in Subtree(n)
      BY <1>4, <2>2, <2>4, SubtreeWithin
    <3> QED BY <1>4, <2>1, <3>1, ParentOutside
  <2> QED BY <2>3, <2>4
<1> QED BY <1>1, <1>2, <1>4, <1>5

\* What any level has finished is apart from what is copied next.
LEMMA FinishedApart ==
    ASSUME IInv, NEW k, NEW n, At(k, n), NEW i \in 1 .. k,
           NEW m \in Children(stack[i].node), m \notin stack[i].todo
    PROVE  Subtree(m) \cap Subtree(n) = {}
<1>1. k \in 1 .. Len(stack) /\ i \in 1 .. Len(stack) /\ k \in Nat /\ m \in Nodes /\ n \in Nodes
  BY LevelsAre, AtIs DEF At, Children
<1>2. CASE i = k
  <2>1. n # m /\ Parent[n] = Parent[m]
    BY <1>1, <1>2, AtIs DEF At, Children
  <2> QED BY <1>1, <2>1, SubtreesApart
<1>3. CASE i # k
  <2> DEFINE c == stack[i + 1].node
  <2>1. i + 1 \in 1 .. k /\ i + 1 \in 1 .. Len(stack)
    BY <1>1, <1>3, LevelsAre
  <2>2. c \in stack[i].todo
    BY <1>1, <2>1, LevelsAre
  <2>3. c \in Nodes /\ Parent[c] = Parent[m] /\ c # m
    BY <1>1, <2>2, LevelsAre DEF Children
  <2>4. Subtree(n) \subseteq Subtree(c)
    BY <2>1, <2>3, AtIs, SubtreeWithin
  <2>5. Subtree(m) \cap Subtree(c) = {}
    BY <1>1, <2>3, SubtreesApart
  <2> QED BY <2>4, <2>5
<1> QED BY <1>2, <1>3

\* copy() is at the last level.
LEMMA PendingAt ==
    ASSUME IInv, NEW n \in Nodes, Pending(n)
    PROVE  At(Len(stack), n) /\ Usable /\ Active /\ paste.phase = "copy"
BY LevelsAre DEF Pending, At, This

\* The folder a level is in is an item of the level before.
LEMMA ThisAt ==
    ASSUME IInv, stack # <<>>
    PROVE  At(Len(stack) - 1, This.node)
<1> DEFINE k == Len(stack)
<1>1. k \in Nat /\ k # 0 /\ k \in 1 .. Len(stack) /\ k - 1 \in 0 .. Len(stack)
  BY LevelsAre
<1>2. Active /\ paste.phase = "copy" /\ stack[1].node = Item
  BY DEF IInv, StackSound
<1>3. k - 1 # 0 => stack[k].node \in stack[k - 1].todo
  <2> HAVE k - 1 # 0
  <2>1. ASSUME NEW j \in Nat, j # 0, j - 1 # 0 PROVE j - 1 \in 1 .. j /\ j = (j - 1) + 1
    BY <2>1
  <2>2. k - 1 \in 1 .. Len(stack) /\ k = (k - 1) + 1
    BY <1>1, <2>1
  <2> QED BY <1>1, <2>2, LevelsAre
<1>4. k - 1 = 0 => stack[k].node = Item
  <2> HAVE k - 1 = 0
  <2>1. k = 1
    BY <1>1
  <2> QED BY <1>2, <2>1
<1> QED BY <1>1, <1>2, <1>3, <1>4 DEF At, This

-----------------------------------------------------------------------------
(***************************************************************************)
(* One step of copy() changes nothing outside of the item it is at, and so *)
(* nothing that the levels above it have finished.                         *)
(***************************************************************************)
Change(n) ==
    /\ \A p \in Places, m \in Nodes \ Subtree(n) : dst'[p][m] = dst[p][m]
    /\ attr \ Subtree(n) \subseteq attr'
    /\ mishaps \subseteq mishaps'
    /\ UNCHANGED <<source, src, clip, moved>>

\* Kept and Arrived after a step of the same paste.
Keeps(x) ==
    \/ x \in attr'
    \/ mishaps' \cap {"unattributed"} # {}
    \/ IF paste.mode \in Attributing THEN Parent[x] = Top ELSE ~ Unpacks(Item)

Arrives(m, flag) ==
    IF paste.mode = "psuBackup" THEN m \in Files /\ dst'["psu"][m] = "whole"
    ELSE \A x \in Subtree(m) \cap src \cap Files :
            dst'["dir"][x] = "whole" /\ (Keeps(x) \/ (x = m /\ flag = "mcRestore"))

Fails == mishaps' \cap {"unlisted", "garbled"} # {}

\* What ContentsCopied says of item n when its copy ends.
Delivered(n) ==
    \A x \in Subtree(n) \cap src \cap Files :
        /\ IF paste.mode = "psuBackup" /\ Parent[x] # Top
           THEN dst'["psu"][x] = "whole" /\ dst'["psu"][Parent[x]] = "whole"
           ELSE dst'["dir"][x] = "whole"
        /\ paste.mode # "psuBackup" => Keeps(x)

LEMMA ArrivedStays ==
    ASSUME IInv, NEW k, NEW n, At(k, n), Change(n), NEW i \in 1 .. k,
           NEW m \in Children(stack[i].node), m \notin stack[i].todo, NEW flag, Arrived(m, flag)
    PROVE  Arrives(m, flag)
<1>1. m \in Nodes /\ m \in Subtree(m) /\ Subtree(m) \subseteq Nodes
  BY SubtreeIs DEF Children
<1>2. \A x \in Subtree(m) : x \notin Subtree(n)
  BY FinishedApart
<1>3. \A x \in Subtree(m) : /\ dst'["psu"][x] = dst["psu"][x] /\ dst'["dir"][x] = dst["dir"][x]
                            /\ x \in attr => x \in attr'
  BY <1>1, <1>2 DEF Change, Places
<1>4. \A x \in Subtree(m) : Kept(x) => Keeps(x)
  BY <1>3 DEF Kept, Keeps, Change, Unless
<1>5. CASE paste.mode = "psuBackup"
  BY <1>1, <1>3, <1>5 DEF Arrived, Arrives
<1>6. CASE paste.mode # "psuBackup"
  BY <1>3, <1>4, <1>6 DEF Arrived, Arrives, InDir
<1> QED BY <1>5, <1>6

LEMMA FoldersStay ==
    ASSUME IInv, NEW k, NEW n, At(k, n), Change(n)
    PROVE  \A i \in 1 .. k :
              IF paste.mode = "psuBackup" THEN dst'["psu"][stack[i].node] = "part"
              ELSE dst'["dir"][stack[i].node] # "none"
<1> SUFFICES ASSUME NEW i \in 1 .. k
             PROVE  IF paste.mode = "psuBackup" THEN dst'["psu"][stack[i].node] = "part"
                    ELSE dst'["dir"][stack[i].node] # "none"
  OBVIOUS
<1>1. i \in 1 .. Len(stack)
  BY LevelsAre DEF At
<1>2. stack[i].node \in Nodes \ Subtree(n)
  BY <1>1, AtIs, LevelsAre
<1>3. /\ dst'["psu"][stack[i].node] = dst["psu"][stack[i].node]
      /\ dst'["dir"][stack[i].node] = dst["dir"][stack[i].node]
  BY <1>2 DEF Change, Places
<1> QED BY <1>1, <1>3, LevelsAre DEF IInv, FoldersMade

\* TypeOK in two parts: what a paste does, and what it is done to.
ControlOK ==
    /\ clip \in [items : SUBSET Listing, cut : BOOLEAN]
    /\ paste \in [mode : PasteModes \cup {"none"}, next : Nat, phase : {"copy", "delete"}]
    /\ Active => paste.next \in DOMAIN Items /\ Item \in clip.items
    /\ \A i \in DOMAIN stack :
          /\ stack[i] \in Frame
          /\ stack[i].todo \subseteq Children(stack[i].node) \cap src
          /\ i > 1 => stack[i].node \in stack[i - 1].todo
    /\ event.done \in Nodes \cup {Top}

DataOK ==
    /\ source \in [card : BOOLEAN, packed : [Packable -> {"no", "counted", "short"}]]
    /\ src \subseteq Nodes /\ Grounded(src)
    /\ dst \in [Places -> [Nodes -> Copies]]
    /\ Grounded({n \in Nodes : dst["dir"][n] # "none"})
    /\ \A n \in attr : n \in Files /\ Parent[n] # Top /\ dst["dir"][Parent[n]] # "none"
    /\ open \subseteq {"attr", "psu", "in", "out"} \X Nodes
    /\ moved \subseteq Nodes
    /\ mishaps \subseteq Mishaps

LEMMA TypeParts == TypeOK <=> ControlOK /\ DataOK
BY DEF TypeOK, ControlOK, DataOK, Listing

\* The invariants about the levels, and what a copy that ends has brought.
LevelsSound ==
    ControlOK /\ StackSound /\ FlagsSound /\ FoldersMade /\ CopiedSoFar /\ ContentsCopied

LEMMA PasteTypes ==
    ASSUME IInv
    PROVE  /\ paste \in [mode : PasteModes \cup {"none"}, next : Nat, phase : {"copy", "delete"}]
           /\ clip \in [items : SUBSET Listing, cut : BOOLEAN]
           /\ Active => paste.next \in DOMAIN Items /\ Item \in clip.items
           /\ Idle \in [mode : PasteModes \cup {"none"}, next : Nat, phase : {"copy", "delete"}]
           /\ Idle.mode = "none" /\ Idle.phase = "copy"
BY DEF IInv, TypeOK, Listing, Idle

\* The paste goes on to the next of clipFiles, or ends.
LEMMA OnwardIs ==
    ASSUME IInv
    PROVE  /\ Onward \in [mode : PasteModes \cup {"none"}, next : Nat, phase : {"copy", "delete"}]
           /\ Onward.phase = "copy"
           /\ Onward.mode # "none" =>
                 /\ Onward # Idle /\ Onward.next \in DOMAIN Items
                 /\ Items[Onward.next] \in clip.items /\ Onward.mode = paste.mode
<1>1. CASE After(paste.next) = {}
  BY <1>1, PasteTypes DEF Onward
<1>2. CASE After(paste.next) # {}
  <2>1. PICK j : j = Least(After(paste.next))
    OBVIOUS
  <2>2. j \in DOMAIN Items /\ j \in Nat /\ Items[j] \in clip.items
    BY <1>2, <2>1, AfterIn, PasteTypes
  <2>3. Onward = [paste EXCEPT !.next = j, !.phase = "copy"]
    BY <1>2, <2>1 DEF Onward
  <2> QED BY <2>2, <2>3, PasteTypes
<1> QED BY <1>1, <1>2

-----------------------------------------------------------------------------
(***************************************************************************)
(* The three ways the levels change: all are left, one is left or goes on, *)
(* one is entered.                                                         *)
(***************************************************************************)
LEMMA NoLevels ==
    ASSUME stack' = <<>>
    PROVE  /\ StackSound' /\ FlagsSound' /\ FoldersMade' /\ CopiedSoFar'
           /\ DOMAIN stack' = {}
<1>1. DOMAIN stack' = {} /\ stack' \in Seq(Frame)
  BY EmptySeq, LenProperties
<1> QED BY <1>1 DEF StackSound, FlagsSound, FoldersMade, CopiedSoFar

\* Between two pastes.
LEMMA EndsSound ==
    ASSUME IInv, stack' = <<>>, paste' = Idle, event' = Nothing,
           clip' \in [items : SUBSET Listing, cut : BOOLEAN]
    PROVE  LevelsSound'
<1>1. ~ Active' /\ event'.done = Top
  BY PasteTypes DEF Active, Nothing
<1>2. ContentsCopied'
  BY <1>1 DEF ContentsCopied
<1>3. ControlOK'
  BY <1>1, NoLevels, PasteTypes DEF ControlOK
<1> QED BY <1>2, <1>3, NoLevels DEF LevelsSound

\* copy() of n returns to level k.
Backs(k, n) ==
    /\ stack' \in Seq(Frame) /\ Len(stack') = k
    /\ \A i \in 1 .. k :
          stack'[i] = IF i = k THEN [stack[i] EXCEPT !.todo = @ \ {n}, !.good = TRUE]
                      ELSE stack[i]
    /\ k # 0 => event' = Nothing /\ paste' = paste
    /\ k = 0 => /\ event' = [done |-> n, mode |-> paste.mode]
                /\ paste' = IF clip.cut THEN [paste EXCEPT !.phase = "delete"] ELSE Onward

LEMMA NextReturns ==
    ASSUME IInv, NEW n, Returned(n, stack)
    PROVE  Backs(Len(stack), n)
<1>1. CASE stack = <<>>
  <2>1. Len(stack) = 0 /\ stack' \in Seq(Frame) /\ Len(stack') = 0
    BY <1>1, LevelsAre, EmptySeq DEF Returned
  <2>2. /\ event' = [done |-> n, mode |-> paste.mode]
        /\ paste' = IF clip.cut THEN [paste EXCEPT !.phase = "delete"] ELSE Onward
    BY <1>1 DEF Returned, Nothing
  <2> QED BY <2>1, <2>2 DEF Backs
<1>2. CASE stack # <<>>
  <2> DEFINE k == Len(stack)
             f == [stack[k] EXCEPT !.todo = @ \ {n}, !.good = TRUE]
  <2>1. k \in 1 .. Len(stack) /\ k # 0 /\ stack[k] \in Frame
    BY <1>2, LevelsAre
  <2>2. f \in Frame
    BY <2>1 DEF Frame
  <2>3. stack' = [stack EXCEPT ![k] = f] /\ event' = Nothing /\ paste' = paste
    <3>1. /\ stack' = [stack EXCEPT ![k].todo = @ \ {n}, ![k].good = TRUE]
          /\ event' = Nothing /\ paste' = paste
      BY <1>2 DEF Returned
    <3> QED BY <2>1, <3>1, LevelsAre
  <2> HIDE DEF f
  <2>4. /\ stack' \in Seq(Frame) /\ Len(stack') = k
        /\ \A i \in 1 .. k : stack'[i] = IF i = k THEN f ELSE stack[i]
    BY <2>1, <2>2, <2>3, LevelsAre, ExceptSeq
  <2> QED BY <2>1, <2>3, <2>4 DEF Backs, f
<1> QED BY <1>1, <1>2

LEMMA FolderReturns ==
    ASSUME IInv, stack # <<>>, NEW n, Returned(n, SubSeq(stack, 1, Len(stack) - 1))
    PROVE  Backs(Len(stack) - 1, n)
<1> DEFINE k == Len(stack) - 1
           s == SubSeq(stack, 1, k)
<1>1. k \in Nat /\ k <= Len(stack) /\ k + 1 = Len(stack)
  BY LevelsAre
<1>2. /\ s \in Seq(Frame) /\ Len(s) = k /\ \A i \in 1 .. k : s[i] = stack[i]
      /\ s = <<>> <=> k = 0
  <2> HIDE DEF k
  <2>1. s \in Seq(Frame) /\ Len(s) = k /\ \A i \in 1 .. k : s[i] = stack[i]
    BY <1>1, LevelsAre, SubSeqProperties
  <2> QED BY <1>1, <2>1, EmptySeq
<1> HIDE DEF s
<1>3. CASE s = <<>>
  <2>1. k = 0 /\ stack' \in Seq(Frame) /\ Len(stack') = 0
    BY <1>2, <1>3, EmptySeq DEF Returned, s
  <2>2. /\ event' = [done |-> n, mode |-> paste.mode]
        /\ paste' = IF clip.cut THEN [paste EXCEPT !.phase = "delete"] ELSE Onward
    BY <1>3 DEF Returned, Nothing, s
  <2>3. Backs(0, n)
    BY <2>1, <2>2 DEF Backs
  <2> QED BY <2>1, <2>3
<1>4. CASE s # <<>>
  <2> DEFINE f == [s[k] EXCEPT !.todo = @ \ {n}, !.good = TRUE]
  <2>1. k \in 1 .. Len(s) /\ k \in 1 .. Len(stack) /\ k # 0 /\ s[k] = stack[k] /\ s[k] \in Frame
    BY <1>1, <1>2, <1>4, LevelsAre
  <2>2. f \in Frame
    BY <2>1 DEF Frame
  <2>3. stack' = [s EXCEPT ![k] = f] /\ event' = Nothing /\ paste' = paste
    <3>1. /\ stack' = [s EXCEPT ![Len(s)].todo = @ \ {n}, ![Len(s)].good = TRUE]
          /\ event' = Nothing /\ paste' = paste
      BY <1>4 DEF Returned, s
    <3>2. Len(s) = k
      BY <1>2
    <3> HIDE DEF k
    <3> QED BY <1>2, <2>1, <3>1, <3>2
  <2>4. f = [stack[k] EXCEPT !.todo = @ \ {n}, !.good = TRUE]
    BY <2>1
  <2> HIDE DEF f, k
  <2>5. /\ stack' \in Seq(Frame) /\ Len(stack') = k
        /\ \A i \in 1 .. k : stack'[i] = IF i = k THEN f ELSE stack[i]
    BY <1>2, <2>1, <2>2, <2>3, ExceptSeq
  <2> QED BY <2>1, <2>3, <2>4, <2>5 DEF Backs, k
<1> QED BY <1>3, <1>4

\* Whatever level copy() of n returns to, nothing it has done is forgotten.
LEMMA BackStep ==
    ASSUME IInv, NEW k, NEW n, At(k, n), Backs(k, n), Change(n),
           k # 0 => Fails \/ Arrives(n, stack[k].flag),
           k = 0 => Fails \/ mishaps' \cap {"skipped"} # {} \/ Delivered(n)
    PROVE  LevelsSound' /\ (paste'.phase = "delete" =>
                               Active' /\ event' = [done |-> Item', mode |-> paste'.mode])
<1>1. k \in Nat /\ n \in Nodes /\ k <= Len(stack)
  <2>1. k \in Nat /\ n \in Nodes
    BY AtIs
  <2>2. k \in 0 .. Len(stack) /\ Len(stack) \in Nat
    BY LevelsAre DEF At
  <2> QED BY <2>1, <2>2
<1>2. DOMAIN stack' = 1 .. k /\ (stack' = <<>> <=> k = 0)
  BY <1>1, LenProperties, EmptySeq DEF Backs
<1>3. \A i \in 1 .. k : /\ i \in 1 .. Len(stack) /\ i \in DOMAIN stack
                        /\ stack'[i] \in Frame /\ stack'[i].node = stack[i].node
                        /\ stack'[i].flag = stack[i].flag
                        /\ stack'[i].todo = IF i = k THEN stack[i].todo \ {n} ELSE stack[i].todo
  <2> SUFFICES ASSUME NEW i \in 1 .. k
               PROVE  /\ i \in 1 .. Len(stack) /\ i \in DOMAIN stack
                      /\ stack'[i] \in Frame /\ stack'[i].node = stack[i].node
                      /\ stack'[i].flag = stack[i].flag
                      /\ stack'[i].todo = IF i = k THEN stack[i].todo \ {n} ELSE stack[i].todo
    OBVIOUS
  <2>1. i \in 1 .. Len(stack) /\ i \in DOMAIN stack /\ stack[i] \in Frame
    BY <1>1, LevelsAre
  <2>2. stack'[i] = IF i = k THEN [stack[i] EXCEPT !.todo = @ \ {n}, !.good = TRUE] ELSE stack[i]
    BY DEF Backs
  <2> QED BY <2>1, <2>2 DEF Frame
<1>4. UNCHANGED <<source, src, clip>> /\ mishaps \subseteq mishaps'
  BY DEF Change
<1>5. CASE k = 0
  <2>1. stack' = <<>> /\ event' = [done |-> n, mode |-> paste.mode] /\ n = Item /\ Active
    BY <1>2, <1>5 DEF Backs, At
  <2>2. /\ paste' \in [mode : PasteModes \cup {"none"}, next : Nat, phase : {"copy", "delete"}]
        /\ Active' => paste'.next \in DOMAIN Items /\ Items[paste'.next] \in clip.items
        /\ paste'.phase = "delete" => Active' /\ Item' = Item /\ paste'.mode = paste.mode
    <3>1. CASE clip.cut
      <4>1. paste' = [paste EXCEPT !.phase = "delete"]
        BY <1>5, <3>1 DEF Backs
      <4> QED BY <2>1, <4>1, PasteTypes DEF Active, Item
    <3>2. CASE ~ clip.cut
      <4>1. paste' = Onward
        BY <1>5, <3>2 DEF Backs
      <4> QED BY <4>1, OnwardIs DEF Active
    <3> QED BY <3>1, <3>2
  <2>3. ControlOK'
    BY <1>1, <1>4, <2>1, <2>2, NoLevels, PasteTypes DEF ControlOK, Item
  <2>4. ContentsCopied'
    <3>1. CASE Fails \/ mishaps' \cap {"skipped"} # {}
      BY <3>1 DEF ContentsCopied, Unless, Fails
    <3>2. CASE Delivered(n)
      <4>1. event'.done = n /\ event'.mode = paste.mode
        BY <2>1
      <4>2. Unpacks(Item) <=> Packed(n)' /\ paste.mode = "psuRestore"
        BY <1>4, <2>1 DEF Unpacks, Packed
      <4>3. ASSUME NEW x \in Subtree(n) \cap src \cap Files
            PROVE  /\ IF paste.mode = "psuBackup" /\ Parent[x] # Top THEN InPsu(x)' ELSE InDir(x)'
                   /\ \/ x \in attr'
                      \/ Unless({"unattributed"})'
                      \/ paste.mode \notin Attributing /\ ~(paste.mode = "psuRestore" /\ Packed(n)')
                      \/ paste.mode \in Attributing /\ Parent[x] = Top
        BY <3>2, <4>2 DEF Delivered, InPsu, InDir, Keeps, Unless, Attributing
      <4> QED BY <1>4, <4>1, <4>3 DEF ContentsCopied
    <3> QED BY <1>5, <3>1, <3>2
  <2> QED BY <2>1, <2>2, <2>3, <2>4, NoLevels DEF LevelsSound
<1>6. CASE k # 0
  <2>1. event' = Nothing /\ paste' = paste /\ paste.phase = "copy" /\ Active /\ event'.done = Top
    <3>1. event' = Nothing /\ paste' = paste
      BY <1>6 DEF Backs
    <3> QED BY <3>1 DEF At, Nothing
  <2>2. k \in 1 .. k /\ 1 \in 1 .. k
    BY <1>1, <1>6
  <2>3. ControlOK'
    <3>1. ASSUME NEW i \in 1 .. k, i > 1
          PROVE  stack'[i].node \in stack'[i - 1].todo
      <4>1. i - 1 \in 1 .. k /\ i - 1 # k /\ i = (i - 1) + 1
        BY <1>1, <3>1
      <4>2. stack[i].node \in stack[i - 1].todo
        BY <1>3, <4>1, LevelsAre
      <4> QED BY <1>3, <4>1, <4>2
    <3>2. \A i \in 1 .. k : stack'[i].todo \subseteq Children(stack'[i].node) \cap src'
      BY <1>3, <1>4, LevelsAre
    <3>3. \A i \in DOMAIN stack' :
             /\ stack'[i] \in Frame
             /\ stack'[i].todo \subseteq Children(stack'[i].node) \cap src'
             /\ i > 1 => stack'[i].node \in stack'[i - 1].todo
      BY <1>2, <1>3, <3>1, <3>2
    <3> QED BY <1>4, <2>1, <3>3, PasteTypes DEF ControlOK, Item, Active
  <2>4. StackSound'
    <3>1. Active' /\ paste'.phase = "copy" /\ Item' = Item /\ stack[1].node = Item
      BY <1>1, <1>6, <2>1, LevelsAre DEF Active, Item, IInv, StackSound
    <3>2. \A i, j \in 1 .. k : i <= j => stack'[j].node \in Subtree(stack'[i].node)
      BY <1>3 DEF IInv, StackSound
    <3> QED BY <1>2, <1>3, <2>2, <3>1, <3>2 DEF StackSound, Backs
  <2>5. FlagsSound'
    <3>1. Unpacks(Item)' = Unpacks(Item) /\ \A i \in 1 .. k : Unpacks(stack[i].node)' = Unpacks(stack[i].node)
      BY <1>3, <1>4, <2>1 DEF Unpacks, Packed, Item
    <3>2. Unless({"unattributed"}) => Unless({"unattributed"})'
      BY <1>4 DEF Unless
    <3>3. Len(stack) = 1 => Len(stack') = 1
      <4>1. Len(stack') = k
        BY DEF Backs
      <4> QED BY <1>1, <1>6, <4>1
    <3> QED BY <1>2, <1>3, <2>1, <3>1, <3>2, <3>3 DEF IInv, FlagsSound
  <2>6. FoldersMade'
    BY <1>2, <1>3, <2>1, FoldersStay DEF FoldersMade
  <2>7. CopiedSoFar'
    <3>1. CASE Fails
      BY <3>1 DEF Fails, CopiedSoFar, Unless
    <3>2. CASE ~ Fails
      <4>1. ASSUME NEW i \in 1 .. k, NEW m \in (Children(stack[i].node) \cap src) \ stack'[i].todo
            PROVE  Arrives(m, stack[i].flag)
        <5>1. CASE m \in stack[i].todo
          <6>1. i = k /\ m = n
            BY <1>3, <4>1, <5>1
          <6> QED BY <1>6, <3>2, <6>1
        <5>2. CASE m \notin stack[i].todo
          <6>1. Arrived(m, stack[i].flag)
            BY <1>3, <1>4, <3>2, <4>1, <5>2 DEF IInv, CopiedSoFar, Fails, Unless
          <6> QED BY <4>1, <5>2, <6>1, ArrivedStays
        <5> QED BY <5>1, <5>2
      <4>2. Unpacks(Item)' = Unpacks(Item)
        BY <1>4, <2>1 DEF Unpacks, Packed, Item
      <4>3. \A x : Kept(x)' <=> Keeps(x)
        BY <2>1, <4>2 DEF Kept, Keeps, Unless
      <4>4. ASSUME NEW i \in DOMAIN stack',
                   NEW m \in (Children(stack'[i].node) \cap src') \ stack'[i].todo
            PROVE  Arrives(m, stack'[i].flag)
        <5>1. i \in 1 .. k /\ stack'[i].node = stack[i].node /\ stack'[i].flag = stack[i].flag
          BY <1>2, <1>3, <4>4
        <5>2. m \in (Children(stack[i].node) \cap src) \ stack'[i].todo
          BY <1>4, <4>4, <5>1
        <5> QED BY <4>1, <5>1, <5>2
      <4>5. \A i \in DOMAIN stack' :
               \A m \in (Children(stack'[i].node) \cap src') \ stack'[i].todo :
                  Arrives(m, stack'[i].flag)
        BY <4>4
      <4> QED BY <1>4, <2>1, <4>3, <4>5 DEF CopiedSoFar, Arrived, Arrives, InDir
    <3> QED BY <3>1, <3>2
  <2>8. ContentsCopied'
    BY <2>1 DEF ContentsCopied
  <2> QED BY <2>1, <2>3, <2>4, <2>5, <2>6, <2>7, <2>8 DEF LevelsSound
<1> QED BY <1>5, <1>6

\* copy() enters the folder d.
LEMMA PushStep ==
    ASSUME IInv, NEW d \in Folders, At(Len(stack), d), Change(d),
           NEW listed \in SUBSET (Children(d) \cap src), NEW flag \in PasteModes,
           NEW good \in BOOLEAN, Push(d, listed, flag, good),
           Fails \/ listed = Children(d) \cap src,
           IF paste.mode = "psuBackup" THEN dst'["psu"][d] = "part" ELSE dst'["dir"][d] # "none",
           Flag \notin {"psuBackup", "psuRestore"},
           flag \in {"normal", paste.mode},
           flag \in {"psuBackup", "psuRestore"} => stack = <<>>,
           flag = "psuRestore" => Unpacks(Item),
           paste.mode = "psuBackup" => flag = "psuBackup",
           Unpacks(d) => flag = "psuRestore",
           paste.mode \in Attributing => flag = paste.mode \/ mishaps' \cap {"unattributed"} # {}
    PROVE  LevelsSound'
<1> DEFINE k == Len(stack)
           f == [node |-> d, todo |-> listed, flag |-> flag, good |-> good]
<1>1. k \in Nat /\ d \in Nodes /\ k + 1 > k /\ DOMAIN stack = 1 .. k
  BY LevelsAre, AtIs
<1>2. f \in Frame /\ f.node = d /\ f.todo = listed /\ f.flag = flag
  BY <1>1, TreeIs DEF Frame, Children
<1>3. /\ stack' \in Seq(Frame) /\ Len(stack') = k + 1 /\ stack'[k + 1] = f
      /\ \A i \in 1 .. k : stack'[i] = stack[i]
  <2> HIDE DEF f
  <2>1. stack' = Append(stack, f)
    BY DEF Push, f
  <2> QED BY <1>2, <2>1, LevelsAre, AppendProperties
<1> HIDE DEF f
<1>4. DOMAIN stack' = 1 .. k + 1 /\ stack' # <<>>
  BY <1>1, <1>3, LenProperties, EmptySeq
<1>5. UNCHANGED <<source, src, clip>> /\ mishaps \subseteq mishaps'
  BY DEF Change
<1>6. event' = Nothing /\ paste' = paste /\ paste.phase = "copy" /\ Active /\ event'.done = Top
  BY DEF Push, At, Nothing
<1> HIDE DEF k
<1>7. \A i \in 1 .. k + 1 : i \in 1 .. k \/ i = k + 1
  BY <1>1
<1>8. \A i \in 1 .. k + 1 : stack'[i].node \in Nodes
  BY <1>2, <1>1, <1>3, <1>7, LevelsAre DEF k
<1>9. ControlOK'
  <2>1. \A i \in 1 .. k + 1 : /\ stack'[i] \in Frame
                              /\ stack'[i].todo \subseteq Children(stack'[i].node) \cap src'
    BY <1>2, <1>3, <1>5, <1>7, LevelsAre DEF k
  <2>2. ASSUME NEW i \in 1 .. k + 1, i > 1 PROVE stack'[i].node \in stack'[i - 1].todo
    <3>1. CASE i = k + 1
      <4>1. i - 1 = k /\ k \in 1 .. k /\ k # 0
        BY <1>1, <2>2, <3>1
      <4>2. d \in stack[k].todo
        BY <4>1 DEF At, k
      <4> QED BY <1>2, <1>3, <3>1, <4>1, <4>2
    <3>2. CASE i \in 1 .. k
      <4>1. i - 1 \in 1 .. k /\ i = (i - 1) + 1
        BY <1>1, <2>2, <3>2
      <4> QED BY <1>3, <3>2, <4>1, LevelsAre DEF k
    <3> QED BY <1>7, <3>1, <3>2
  <2>3. \A i \in DOMAIN stack' :
           /\ stack'[i] \in Frame
           /\ stack'[i].todo \subseteq Children(stack'[i].node) \cap src'
           /\ i > 1 => stack'[i].node \in stack'[i - 1].todo
    BY <1>4, <2>1, <2>2
  <2> QED BY <1>5, <1>6, <2>3, PasteTypes DEF ControlOK, Item, Active
<1>10. StackSound'
  <2>1. stack'[1].node = Item
    <3>1. CASE k = 0
      BY <1>2, <1>3, <3>1 DEF At, k
    <3>2. CASE k # 0
      <4>1. 1 \in 1 .. k /\ stack # <<>>
        BY <1>1, <3>2, LevelsAre DEF k
      <4> QED BY <1>3, <4>1 DEF IInv, StackSound
    <3> QED BY <3>1, <3>2
  <2>2. ASSUME NEW i \in 1 .. k + 1, NEW j \in 1 .. k + 1, i <= j
        PROVE  stack'[j].node \in Subtree(stack'[i].node)
    <3>1. CASE j \in 1 .. k
      <4>1. i \in 1 .. k
        BY <1>1, <2>2, <3>1
      <4> QED BY <1>1, <1>3, <2>2, <3>1, <4>1 DEF IInv, StackSound
    <3>2. CASE j = k + 1 /\ i \in 1 .. k
      <4>1. d \in Subtree(stack[i].node)
        BY <3>2, AtIs DEF k
      <4> QED BY <1>2, <1>3, <3>2, <4>1
    <3>3. CASE j = k + 1 /\ i = k + 1
      BY <1>1, <1>2, <1>3, <3>3, SubtreeIs
    <3> QED BY <1>7, <3>1, <3>2, <3>3
  <2>3. \A i, j \in DOMAIN stack' : i <= j => stack'[j].node \in Subtree(stack'[i].node)
    BY <1>4, <2>2
  <2>4. Active' /\ paste'.phase = "copy" /\ Item' = Item
    BY <1>6 DEF Active, Item
  <2> QED BY <1>3, <2>1, <2>3, <2>4 DEF StackSound
<1>11. FlagsSound'
  <2>1. Unpacks(Item)' = Unpacks(Item) /\ Unpacks(d)' = Unpacks(d)
    BY <1>5, <1>6 DEF Unpacks, Packed, Item
  <2>2. Unless({"unattributed"}) => mishaps' \cap {"unattributed"} # {}
    BY <1>5 DEF Unless
  <2>3. \A i \in 1 .. k : stack[i].flag \notin {"psuBackup", "psuRestore"}
    <3> SUFFICES ASSUME NEW i \in 1 .. k, stack[i].flag \in {"psuBackup", "psuRestore"}
                 PROVE  FALSE
      OBVIOUS
    <3>1. k = 1 /\ stack # <<>>
      BY <1>1, LevelsAre DEF IInv, FlagsSound, k
    <3>2. i = 1 /\ Flag = stack[1].flag
      BY <3>1 DEF Flag, This, k
    <3> QED BY <3>2
  <2>4. ASSUME NEW i \in 1 .. k + 1
        PROVE  /\ stack'[i].flag \in {"normal", paste'.mode}
               /\ stack'[i].flag \in {"psuBackup", "psuRestore"} => Len(stack') = 1
               /\ stack'[i].flag = "psuRestore" => Unpacks(Item)'
               /\ paste'.mode = "psuBackup" => stack'[i].flag = "psuBackup"
               /\ Packed(stack[i].node)' /\ paste'.mode = "psuRestore" => stack'[i].flag = "psuRestore"
               /\ paste'.mode \in Attributing =>
                     stack'[i].flag = paste'.mode \/ mishaps' \cap {"unattributed"} # {}
    <3>1. CASE i \in 1 .. k
      <4>1. stack'[i] = stack[i] /\ i \in DOMAIN stack
        BY <1>1, <1>3, <3>1 DEF k
      <4>2. Packed(stack[i].node)' = Packed(stack[i].node)
        BY <1>5, <4>1 DEF Packed
      <4> QED BY <1>6, <2>1, <2>2, <2>3, <3>1, <4>1, <4>2 DEF IInv, FlagsSound, Unpacks
    <3>2. CASE i = k + 1
      <4>1. stack'[i].flag = flag /\ stack'[i].node = d
        BY <1>2, <1>3, <3>2
      <4>2. flag \in {"psuBackup", "psuRestore"} => Len(stack') = 1
        BY <1>1, <1>3, LevelsAre DEF k
      <4>3. Packed(stack[i].node)' /\ paste'.mode = "psuRestore" => Unpacks(d)
        BY <1>5, <1>6, <4>1 DEF Unpacks, Packed
      <4> QED BY <1>6, <2>1, <4>1, <4>2, <4>3
    <3> QED BY <1>7, <3>1, <3>2
  <2> QED BY <1>4, <2>4 DEF FlagsSound, Unpacks, Unless
<1>12. FoldersMade'
  <2>1. \A i \in 1 .. k :
           IF paste.mode = "psuBackup" THEN dst'["psu"][stack[i].node] = "part"
           ELSE dst'["dir"][stack[i].node] # "none"
    BY FoldersStay DEF k
  <2> QED BY <1>2, <1>3, <1>4, <1>6, <1>7, <2>1 DEF FoldersMade
<1>13. CopiedSoFar'
  <2>1. CASE Fails
    BY <2>1 DEF Fails, CopiedSoFar, Unless
  <2>2. CASE ~ Fails
    <3>1. ASSUME NEW i \in 1 .. k + 1,
                 NEW m \in (Children(stack'[i].node) \cap src') \ stack'[i].todo
          PROVE  Arrives(m, stack'[i].flag)
      <4>1. CASE i = k + 1
        BY <1>2, <1>3, <1>5, <2>2, <3>1, <4>1
      <4>2. CASE i \in 1 .. k
        <5>1. m \in (Children(stack[i].node) \cap src) \ stack[i].todo /\ stack'[i] = stack[i]
          BY <1>3, <1>5, <3>1, <4>2
        <5>2. Arrived(m, stack[i].flag)
          BY <1>1, <1>5, <2>2, <4>2, <5>1 DEF IInv, CopiedSoFar, Fails, Unless, k
        <5> QED BY <4>2, <5>1, <5>2, ArrivedStays DEF k
      <4> QED BY <1>7, <4>1, <4>2
    <3>2. Unpacks(Item)' = Unpacks(Item)
      BY <1>5, <1>6 DEF Unpacks, Packed, Item
    <3>3. \A x : Kept(x)' <=> Keeps(x)
      BY <1>6, <3>2 DEF Kept, Keeps, Unless
    <3>4. \A i \in DOMAIN stack' :
             \A m \in (Children(stack'[i].node) \cap src') \ stack'[i].todo :
                Arrives(m, stack'[i].flag)
      BY <1>4, <3>1
    <3> QED BY <1>5, <1>6, <3>3, <3>4 DEF CopiedSoFar, Arrived, Arrives, InDir
  <2> QED BY <2>1, <2>2
<1>14. ContentsCopied'
  BY <1>6 DEF ContentsCopied
<1> QED BY <1>9, <1>10, <1>11, <1>12, <1>13, <1>14 DEF LevelsSound

-----------------------------------------------------------------------------
(***************************************************************************)
(* The open files.                                                         *)
(***************************************************************************)
Holds(i) == <<IF stack[i].flag \in Attributing THEN "attr" ELSE "psu", stack[i].node>>

LEMMA HeldIs ==
    ASSUME IInv
    PROVE  /\ \A i \in 1 .. Len(stack) : stack[i].flag # "normal" => Holds(i) \in Held
           /\ \A f \in Held : \E i \in 1 .. Len(stack) : stack[i].flag # "normal" /\ f = Holds(i)
BY LevelsAre DEF Held, Holds

\* Whatever copy() closes on the way back is what its levels held, and the attribute
\* files it leaves open are known.
LEMMA AbortOpen ==
    ASSUME IInv, NEW left, NEW why, Aborted(left, why), left = {} \/ "declined" \in why \/ Flag \in Attributing
    PROVE  OpenSound' /\ mishaps \subseteq mishaps' /\ stack' = <<>> /\ paste' = Idle /\ event' = Nothing
<1>1. /\ open' = {f \in open : f[1] # "psu"} \cup left /\ mishaps \subseteq mishaps' /\ why \subseteq mishaps'
      /\ stack' = <<>> /\ paste' = Idle /\ event' = Nothing
      /\ (\E i \in DOMAIN stack : stack[i].flag \in Attributing) => "abandoned" \in mishaps'
  BY DEF Aborted
<1>2. CASE \E i \in DOMAIN stack : stack[i].flag \in Attributing
  BY <1>1, <1>2 DEF OpenSound, Unless
<1>3. CASE ~ \E i \in DOMAIN stack : stack[i].flag \in Attributing
  <2>1. Flag \notin Attributing
    <3>1. CASE stack = <<>>
      BY <3>1 DEF Flag, Attributing
    <3>2. CASE stack # <<>>
      BY <1>3, <3>2, LevelsAre DEF Flag, This
    <3> QED BY <3>1, <3>2
  <2>2. left = {} \/ "declined" \in mishaps'
    BY <1>1, <2>1
  <2>3. CASE Unless({"abandoned", "unattributed", "declined"}) \/ "declined" \in mishaps'
    BY <1>1, <2>3 DEF OpenSound, Unless
  <2>4. CASE left = {} /\ open \subseteq Held
    <3>1. ASSUME NEW f \in open PROVE f[1] = "psu"
      <4>1. PICK i \in 1 .. Len(stack) : f = Holds(i)
        BY <2>4, <3>1, HeldIs
      <4>2. f = <<"psu", stack[i].node>>
        BY <1>3, <4>1, LevelsAre DEF Holds
      <4> QED BY <4>2
    <3>2. \A f \in open' : f \in open /\ f[1] # "psu"
      <4>1. open' = {f \in open : f[1] # "psu"}
        BY <1>1, <2>4
      <4> QED BY <4>1
    <3>3. \A f \in open' : FALSE
      BY <3>1, <3>2
    <3> QED BY <1>1, <3>3 DEF OpenSound
  <2> QED BY <2>2, <2>3, <2>4 DEF IInv, OpenSound
<1> QED BY <1>1, <1>2, <1>3

LEMMA BackOpen ==
    ASSUME IInv, NEW k, NEW n, At(k, n), Backs(k, n), mishaps \subseteq mishaps',
           open' \subseteq open,
           \A i \in 1 .. Len(stack) : stack[i].flag # "normal" /\ Holds(i) \in open' => i \in 1 .. k
    PROVE  OpenSound'
<1>1. CASE Unless({"abandoned", "unattributed", "declined"})
  BY <1>1 DEF OpenSound, Unless
<1>2. CASE open \subseteq Held
  <2>1. k \in Nat /\ k \in 0 .. Len(stack) /\ Len(stack) \in Nat
    BY AtIs, LevelsAre DEF At
  <2>2. DOMAIN stack' = 1 .. k
    BY <2>1, LenProperties DEF Backs
  <2>3. ASSUME NEW i \in 1 .. k
        PROVE  stack'[i].node = stack[i].node /\ stack'[i].flag = stack[i].flag
    <3>1. i \in 1 .. Len(stack) /\ stack[i] \in Frame
      BY <2>1, <2>3, LevelsAre
    <3>2. stack'[i] = IF i = k THEN [stack[i] EXCEPT !.todo = @ \ {n}, !.good = TRUE] ELSE stack[i]
      BY <2>3 DEF Backs
    <3> QED BY <3>1, <3>2 DEF Frame
  <2>4. ASSUME NEW f \in open' PROVE f \in Held'
    <3>1. PICK i \in 1 .. Len(stack) : stack[i].flag # "normal" /\ f = Holds(i)
      BY <1>2, <2>4, HeldIs
    <3>2. i \in 1 .. k
      BY <2>4, <3>1
    <3> QED BY <2>2, <2>3, <3>1, <3>2 DEF Held, Holds
  <2> QED BY <2>4 DEF OpenSound
<1> QED BY <1>1, <1>2 DEF IInv, OpenSound

LEMMA PushOpen ==
    ASSUME IInv, NEW d, NEW listed, NEW flag, NEW good, Push(d, listed, flag, good), mishaps \subseteq mishaps',
           \/ open' = open
           \/ mishaps' \cap {"unattributed"} # {}
           \/ /\ open' = open \cup {<<IF flag \in Attributing THEN "attr" ELSE "psu", d>>}
              /\ flag # "normal"
    PROVE  OpenSound'
<1>1. CASE Unless({"abandoned", "unattributed", "declined"}) \/ mishaps' \cap {"unattributed"} # {}
  BY <1>1 DEF OpenSound, Unless
<1>2. CASE open \subseteq Held /\ ~ (mishaps' \cap {"unattributed"} # {})
  <2> DEFINE k == Len(stack)
             f == [node |-> d, todo |-> listed, flag |-> flag, good |-> good]
  <2>1. stack' = Append(stack, f) /\ stack \in Seq(Frame) /\ k \in Nat
    BY LevelsAre DEF Push
  <2>2. /\ DOMAIN stack' = 1 .. k + 1 /\ \A i \in 1 .. k : stack'[i] = stack[i] /\ i \in 1 .. k + 1
        /\ stack'[k + 1] = f /\ k + 1 \in 1 .. k + 1
    <3> HIDE DEF f
    <3> QED BY <2>1
  <2>3. f.flag = flag /\ f.node = d
    OBVIOUS
  <2> HIDE DEF f, k
  <2>4. ASSUME NEW x \in open PROVE x \in Held'
    <3>1. PICK i \in 1 .. k : stack[i].flag # "normal" /\ x = Holds(i)
      BY <1>2, <2>4, HeldIs DEF k
    <3> QED BY <2>2, <3>1 DEF Held, Holds
  <2>5. flag # "normal" => <<IF flag \in Attributing THEN "attr" ELSE "psu", d>> \in Held'
    BY <2>2, <2>3 DEF Held
  <2> QED BY <1>2, <2>4, <2>5 DEF OpenSound
<1> QED BY <1>1, <1>2 DEF IInv, OpenSound

-----------------------------------------------------------------------------
(***************************************************************************)
(* The copies at the destination.                                          *)
(***************************************************************************)
There == {n \in Nodes : dst["dir"][n] # "none"}

LEMMA DataIs ==
    ASSUME IInv
    PROVE  /\ dst \in [Places -> [Nodes -> Copies]] /\ There \in SUBSET Nodes /\ Grounded(There)
           /\ src \in SUBSET Nodes /\ Grounded(src)
           /\ \A n \in attr : n \in Files /\ n \in Nodes /\ Parent[n] \in There
           /\ \A n \in Nodes : Parent[n] \in Folders \cup {Top}
BY TreeIs DEF IInv, TypeOK, There, Grounded, Files

LEMMA PutIs ==
    ASSUME IInv, NEW p \in Places, NEW s \in SUBSET Nodes, NEW c \in Copies, dst' = Put(p, s, c)
    PROVE  /\ dst' \in [Places -> [Nodes -> Copies]]
           /\ \A m \in s : dst'[p][m] = c
           /\ \A q \in Places, m \in Nodes : q # p \/ m \notin s => dst'[q][m] = dst[q][m]
BY DataIs DEF Put

\* What may happen to the copies in a step that says what it does to the rest.
LEMMA DataStep ==
    ASSUME IInv, UNCHANGED <<source, src, moved>>, mishaps' \subseteq Mishaps,
           dst' \in [Places -> [Nodes -> Copies]], Grounded(There'),
           \A n \in attr' : n \in Files /\ Parent[n] \in There',
           open' \subseteq {"attr", "psu", "in", "out"} \X Nodes
    PROVE  DataOK'
<1>1. \A n \in attr' : Parent[n] # Top /\ dst'["dir"][Parent[n]] # "none"
  BY TreeIs DEF There
<1>2. Grounded({n \in Nodes : dst["dir"][n] # "none"})'
  BY DEF There, Grounded
<1> QED BY <1>1, <1>2 DEF IInv, TypeOK, DataOK, Grounded

\* Where nothing is done to the copies below "dir".
LEMMA ThereStays ==
    ASSUME IInv, \A n \in Nodes : dst'["dir"][n] = dst["dir"][n], attr' \subseteq attr
    PROVE  Grounded(There') /\ \A n \in attr' : n \in Files /\ Parent[n] \in There'
<1>1. There' = There
  BY DEF There
<1> QED BY <1>1, DataIs DEF Grounded

\* CutKeeps and PsuSound say something of the copies of files only.
LEMMA CutStays ==
    ASSUME IInv, mishaps \subseteq mishaps', moved' = moved,
           \/ mishaps' \cap {"again"} # {}
           \/ \A n \in moved \cap Files : /\ InDir(n) => InDir(n)'
                                          /\ InPsu(n) => InPsu(n)'
    PROVE  CutKeeps'
BY DEF IInv, CutKeeps, Unless

LEMMA PsuStays ==
    ASSUME IInv, mishaps \subseteq mishaps', src' \subseteq src,
           \A n \in Nodes : dst'["psu"][n] = dst["psu"][n]
    PROVE  PsuSound'
<1>1. \A d \in Packable : d \in Nodes /\ Subtree(d) \subseteq Nodes
  BY TreeIs, SubtreeIs DEF Packable
<1> QED BY <1>1 DEF IInv, PsuSound, Unless

\* Where the copies of files stay as they are.
LEMMA SameFiles ==
    ASSUME IInv, mishaps \subseteq mishaps', moved' = moved,
           \A p \in Places, n \in Nodes : dst'[p][n] = dst[p][n]
    PROVE  CutKeeps'
<1>1. \A n \in Files : n \in Nodes /\ (Parent[n] # Top => Parent[n] \in Nodes)
  BY TreeIs DEF Files
<1>2. \A n \in Files : (InDir(n) => InDir(n)') /\ (InPsu(n) => InPsu(n)')
  BY <1>1 DEF InDir, InPsu, Places
<1> QED BY <1>2, CutStays

-----------------------------------------------------------------------------
(***************************************************************************)
(* copy() of a file, whole or not.                                         *)
(***************************************************************************)
LEMMA FileStep ==
    ASSUME IInv, NEW n \in Files \cap src, At(Len(stack), n), UNCHANGED <<source, src, moved>>,
           NEW p \in Places, NEW c \in Copies, dst' = Put(p, {n}, c), p = "psu" <=> Flag = "psuBackup",
           attr \ {n} \subseteq attr', attr' \subseteq attr \cup {n},
           n \in attr' => n \in attr \/ Flag \in {"mcBackup", "psuRestore"},
           mishaps \subseteq mishaps', mishaps' \subseteq Mishaps,
           open' \subseteq {"attr", "psu", "in", "out"} \X Nodes
    PROVE  (clip' = clip => Change(n)) /\ DataOK' /\ PsuSound' /\ CutKeeps'
<1>1. n \in Nodes /\ Subtree(n) = {n} /\ n \notin Folders /\ n \notin moved
  BY FileAlone DEF Files, IInv, MovedSound
<1>2. /\ dst' \in [Places -> [Nodes -> Copies]]
      /\ \A q \in Places, m \in Nodes : dst'[q][m] = IF q = p /\ m = n THEN c ELSE dst[q][m]
  <2>1. {n} \in SUBSET Nodes
    BY <1>1
  <2>2. /\ dst' \in [Places -> [Nodes -> Copies]]
        /\ \A m \in {n} : dst'[p][m] = c
        /\ \A q \in Places, m \in Nodes : q # p \/ m \notin {n} => dst'[q][m] = dst[q][m]
    BY <2>1, PutIs
  <2> QED BY <1>1, <2>2
<1>3. clip' = clip => Change(n)
  BY <1>1, <1>2 DEF Change
<1>4. \A m \in Folders : m \in Nodes /\ m # n /\ dst'["dir"][m] = dst["dir"][m]
                         /\ dst'["psu"][m] = dst["psu"][m]
  BY <1>1, <1>2, TreeIs DEF Places
<1>5. Flag # "normal" => stack # <<>> /\ Parent[n] = This.node /\ This.node \in Folders
                         /\ Len(stack) \in DOMAIN stack
  BY LevelsAre, AtIs DEF Flag, This
<1>6. Flag \in {"normal", paste.mode}
  BY LevelsAre DEF Flag, This, IInv, FlagsSound
<1>7. n \in attr' => Parent[n] \in There
  <2>1. CASE n \in attr
    BY <2>1, DataIs
  <2>2. CASE Flag \in {"mcBackup", "psuRestore"}
    <3>1. Flag # "normal" /\ paste.mode # "psuBackup"
      BY <1>6, <2>2
    <3>2. dst["dir"][This.node] # "none"
      BY <1>5, <3>1 DEF IInv, FoldersMade, This
    <3> QED BY <1>4, <1>5, <3>1, <3>2 DEF There
  <2> QED BY <2>1, <2>2
<1>8. DataOK'
  <2>1. n \notin There \/ Parent[n] \in There \cup {Top}
    BY DataIs DEF Grounded
  <2>2. \A m \in Folders : m \in There <=> m \in There'
    BY <1>4 DEF There
  <2>3. n \in There' => Parent[n] \in There \cup {Top}
    <3>1. CASE Parent[n] = Top
      BY <3>1
    <3>2. CASE Parent[n] # Top /\ p = "dir"
      <4>1. Len(stack) # 0 /\ Len(stack) \in DOMAIN stack /\ Parent[n] = stack[Len(stack)].node
        BY <3>2, LevelsAre, AtIs
      <4>2. paste.mode # "psuBackup"
        <5>1. stack # <<>> /\ Flag = stack[Len(stack)].flag /\ Flag # "psuBackup"
          BY <3>2, <4>1, LevelsAre DEF Flag, This
        <5> QED BY <4>1, <5>1 DEF IInv, FlagsSound
      <4>3. Parent[n] \in Folders /\ dst["dir"][Parent[n]] # "none"
        BY <4>1, <4>2, LevelsAre DEF IInv, FoldersMade
      <4> QED BY <1>4, <4>3 DEF There
    <3>3. CASE p = "psu"
      BY <1>1, <1>2, <2>1, <3>3 DEF There, Places
    <3> QED BY <3>1, <3>2, <3>3 DEF Places
  <2>4. ASSUME NEW m \in There' PROVE Parent[m] \in There' \cup {Top}
    <3>1. m \in Nodes /\ (m # n => m \in There)
      BY <1>2, <2>4 DEF There, Places
    <3>2. Parent[m] \in There \cup {Top} /\ Parent[m] \in Folders \cup {Top}
      BY <2>3, <2>4, <3>1, DataIs DEF Grounded
    <3> QED BY <2>2, <3>2
  <2>5. \A m \in attr' : m \in Files /\ Parent[m] \in There'
    <3> SUFFICES ASSUME NEW m \in attr' PROVE m \in Files /\ Parent[m] \in There'
      OBVIOUS
    <3>1. m \in Files /\ Parent[m] \in There
      BY <1>7, DataIs
    <3>2. m \in Nodes /\ Parent[m] \in Nodes
      BY <3>1 DEF Files, There
    <3>3. Parent[m] \in Folders
      BY <3>2, TreeIs
    <3> QED BY <2>2, <3>1, <3>3
  <2>6. Grounded(There')
    BY <2>4 DEF Grounded
  <2> QED BY <1>2, <2>5, <2>6, DataStep
<1>9. PsuSound'
  <2>1. CASE p = "dir"
    BY <1>2, <2>1, PsuStays DEF Places
  <2>2. CASE p = "psu"
    <3>1. CASE Unless({"unlisted", "garbled"})
      BY <3>1 DEF PsuSound, Unless
    <3>2. CASE ~ Unless({"unlisted", "garbled"})
      <4>1. dst["psu"][Parent[n]] = "part"
        <5>1. Flag = "psuBackup" /\ paste.mode = "psuBackup"
          BY <1>6, <2>2
        <5> QED BY <1>5, <5>1 DEF IInv, FoldersMade, This
      <4>2. ASSUME NEW d \in Packable, dst'["psu"][d] = "whole",
                   NEW m \in Subtree(d) \cap src \cap Files
            PROVE  Parent[m] = d /\ dst'["psu"][m] = "whole"
        <5>1. d \in Folders /\ dst["psu"][d] = "whole"
          BY <1>4, <4>2 DEF Packable
        <5>2. Parent[m] = d /\ dst["psu"][m] = "whole"
          BY <3>2, <4>2, <5>1 DEF IInv, PsuSound
        <5>3. m # n /\ m \in Nodes
          BY <4>1, <5>1, <5>2 DEF Files
        <5> QED BY <1>2, <5>2, <5>3 DEF Places
      <4> QED BY <4>2 DEF PsuSound
    <3> QED BY <3>1, <3>2
  <2> QED BY <2>1, <2>2 DEF Places
<1>10. CutKeeps'
  <2>1. ASSUME NEW m \in moved \cap Files
        PROVE  (InDir(m) => InDir(m)') /\ (InPsu(m) => InPsu(m)')
    <3>1. m # n /\ m \in Nodes /\ (Parent[m] # Top => Parent[m] \in Folders)
      BY <1>1, <2>1, TreeIs DEF Files
    <3>2. dst'["dir"][m] = dst["dir"][m] /\ dst'["psu"][m] = dst["psu"][m]
      BY <1>2, <3>1 DEF Places
    <3> QED BY <1>4, <3>1, <3>2 DEF InDir, InPsu
  <2> QED BY <2>1, CutStays
<1> QED BY <1>3, <1>8, <1>9, <1>10

-----------------------------------------------------------------------------
(***************************************************************************)
(* copy() of a folder: what is removed, and what is made.                  *)
(***************************************************************************)
LEMMA ApartStays ==
    ASSUME IInv, NEW d \in Nodes, Again(d) \subseteq mishaps', mishaps \subseteq mishaps', moved' = moved,
           \A p \in Places, m \in Nodes \ Subtree(d) : dst'[p][m] = dst[p][m]
    PROVE  CutKeeps'
<1>1. CASE Subtree(d) \cap moved # {}
  BY <1>1, CutStays DEF Again
<1>2. CASE Subtree(d) \cap moved = {}
  <2>1. ASSUME NEW m \in moved \cap Files
        PROVE  (InDir(m) => InDir(m)') /\ (InPsu(m) => InPsu(m)')
    <3>1. m \in Nodes /\ m \notin Subtree(d) /\ (Parent[m] # Top => Parent[m] \in Nodes)
      BY <1>2, <2>1, TreeIs DEF Files
    <3>2. Parent[m] \notin Subtree(d)
      BY <3>1, SubtreeIs DEF Closed
    <3> QED BY <3>1, <3>2 DEF InDir, InPsu, Places
  <2> QED BY <2>1, CutStays
<1> QED BY <1>1, <1>2

\* Where a folder above an item of mcPaste or of a restore is.
LEMMA AboveThere ==
    ASSUME IInv, NEW d, At(Len(stack), d), paste.mode # "psuBackup"
    PROVE  Parent[d] \in There \cup {Top} /\ Parent[d] \notin Subtree(d) /\ d \in Nodes
<1>1. d \in Nodes /\ Parent[d] \notin Subtree(d)
  BY AtIs, ParentOutside
<1>2. CASE Len(stack) = 0
  BY <1>1, <1>2, AtIs
<1>3. CASE Len(stack) # 0
  <2>1. Parent[d] = stack[Len(stack)].node /\ Len(stack) \in 1 .. Len(stack)
    BY <1>3, AtIs, LevelsAre
  <2>2. dst["dir"][Parent[d]] # "none" /\ Parent[d] \in Nodes
    BY <2>1, LevelsAre DEF IInv, FoldersMade
  <2> QED BY <1>1, <2>2 DEF There
<1> QED BY <1>2, <1>3, <1>1

LEMMA ClearStep ==
    ASSUME IInv, NEW d \in Folders, At(Len(stack), d), UNCHANGED <<source, src, clip, moved>>,
           NEW gone \in SUBSET Subtree(d), \A n \in gone : Children(n) \subseteq gone,
           dst' = Put("dir", gone, "none"), attr' = attr \ gone,
           Again(d) \subseteq mishaps', mishaps \subseteq mishaps', mishaps' \subseteq Mishaps,
           open' \subseteq {"attr", "psu", "in", "out"} \X Nodes
    PROVE  Change(d) /\ DataOK' /\ PsuSound' /\ CutKeeps'
<1>1. d \in Nodes /\ gone \in SUBSET Nodes
  BY AtIs, SubtreeIs
<1>2. /\ dst' \in [Places -> [Nodes -> Copies]]
      /\ \A m \in gone : dst'["dir"][m] = "none"
      /\ \A q \in Places, m \in Nodes : q # "dir" \/ m \notin gone => dst'[q][m] = dst[q][m]
  BY <1>1, PutIs DEF Places, Copies
<1>3. \A p \in Places, m \in Nodes \ Subtree(d) : dst'[p][m] = dst[p][m]
  BY <1>2
<1>4. Change(d)
  BY <1>3 DEF Change
<1>5. DataOK'
  <2>1. There' = There \ gone
    BY <1>1, <1>2 DEF There, Places
  <2>2. ASSUME NEW m \in Nodes \ gone PROVE Parent[m] \notin gone
    BY <2>2 DEF Children
  <2>3. Grounded(There')
    BY <1>1, <2>1, <2>2, DataIs DEF Grounded
  <2>4. \A m \in attr' : m \in Files /\ Parent[m] \in There'
    BY <2>1, <2>2, DataIs
  <2> QED BY <1>2, <2>3, <2>4, DataStep
<1>6. PsuSound'
  BY <1>2, PsuStays DEF Places
<1>7. CutKeeps'
  BY <1>1, <1>3, ApartStays
<1> QED BY <1>4, <1>5, <1>6, <1>7

LEMMA MadeStep ==
    ASSUME IInv, NEW d \in Folders, At(Len(stack), d), UNCHANGED <<source, src, clip, moved>>,
           paste.mode # "psuBackup", Made(d), attr' \subseteq attr, attr \ Subtree(d) \subseteq attr',
           dst["dir"][d] # "none" /\ paste.mode \in Clearing =>
               attr' = attr \ Subtree(d) /\ Again(d) \subseteq mishaps',
           mishaps \subseteq mishaps', mishaps' \subseteq Mishaps,
           open' \subseteq {"attr", "psu", "in", "out"} \X Nodes
    PROVE  Change(d) /\ DataOK' /\ PsuSound' /\ CutKeeps' /\ dst'["dir"][d] # "none"
<1>1. PICK s \in SUBSET Nodes : s = IF paste.mode \in Clearing THEN Subtree(d) ELSE {}
  BY AtIs, SubtreeIs
<1>2. d \in Nodes /\ d \in Subtree(d) /\ s \subseteq Subtree(d)
  BY <1>1, AtIs, SubtreeIs
<1>3. /\ dst' \in [Places -> [Nodes -> Copies]] /\ dst'["dir"][d] = "whole"
      /\ \A m \in s : m # d => dst'["dir"][m] = "none"
      /\ \A q \in Places, m \in Nodes :
            q # "dir" \/ (m \notin s /\ m # d) => dst'[q][m] = dst[q][m]
  <2>1. dst' = [Put("dir", s, "none") EXCEPT !["dir"][d] = "whole"]
    BY <1>1 DEF Made
  <2>2. "dir" \in Places /\ "none" \in Copies /\ "whole" \in Copies
    BY DEF Places, Copies
  <2> QED BY <1>2, <2>1, <2>2, DataIs DEF Put
<1>4. \A p \in Places, m \in Nodes \ Subtree(d) : dst'[p][m] = dst[p][m]
  BY <1>2, <1>3
<1>5. Change(d)
  BY <1>4 DEF Change
<1>6. CASE dst["dir"][d] # "none" /\ paste.mode \in Clearing
  <2>1. s = Subtree(d)
    BY <1>1, <1>6
  <2>2. There' = (There \ Subtree(d)) \cup {d}
    BY <1>2, <1>3, <2>1 DEF There, Places
  <2>3. ASSUME NEW m \in Nodes \ Subtree(d) PROVE Parent[m] \notin Subtree(d)
    BY <1>2, <2>3, SubtreeIs DEF Closed
  <2>4. Grounded(There')
    <3>1. \A m \in There \ Subtree(d) : Parent[m] \in There' \cup {Top}
      BY <2>2, <2>3, DataIs DEF Grounded
    <3>2. Parent[d] \in There' \cup {Top}
      BY <2>2, AboveThere
    <3> QED BY <2>2, <3>1, <3>2 DEF Grounded
  <2>5. \A m \in attr' : m \in Files /\ Parent[m] \in There'
    BY <1>6, <2>2, <2>3, DataIs
  <2>6. DataOK'
    BY <1>3, <2>4, <2>5, DataStep
  <2>7. CutKeeps'
    BY <1>2, <1>4, <1>6, ApartStays
  <2> QED BY <2>6, <2>7, <1>3, <1>5, PsuStays DEF Places
<1>7. CASE ~ (dst["dir"][d] # "none" /\ paste.mode \in Clearing)
  <2>1. \A m \in Nodes : m # d => dst'["dir"][m] = dst["dir"][m]
    <3>1. CASE paste.mode \notin Clearing
      BY <1>1, <1>3, <3>1 DEF Places
    <3>2. CASE dst["dir"][d] = "none"
      <4>1. Subtree(d) \cap There = {}
        BY <1>2, <3>2, DataIs, MissingBelow DEF There
      <4> QED BY <1>2, <1>3, <4>1 DEF There, Places
    <3> QED BY <1>7, <3>1, <3>2
  <2>2. There' = There \cup {d}
    BY <1>2, <1>3, <2>1 DEF There
  <2>3. Grounded(There')
    BY <2>2, AboveThere, DataIs DEF Grounded
  <2>4. \A m \in attr' : m \in Files /\ Parent[m] \in There'
    BY <2>2, DataIs
  <2>5. DataOK'
    BY <1>3, <2>3, <2>4, DataStep
  <2>6. CutKeeps'
    <3>1. \A m \in Files : m \in Nodes /\ m # d /\ (Parent[m] # Top => Parent[m] \in Nodes)
      BY TreeIs DEF Files
    <3>2. \A m \in Nodes : dst'["psu"][m] = dst["psu"][m]
      BY <1>3 DEF Places
    <3>3. \A m \in Files : (InDir(m) => InDir(m)') /\ (InPsu(m) => InPsu(m)')
      BY <2>1, <3>1, <3>2 DEF InDir, InPsu
    <3> QED BY <3>3, CutStays
  <2> QED BY <2>5, <2>6, <1>3, <1>5, PsuStays DEF Places
<1> QED BY <1>6, <1>7

\* A new PSU file is started.
LEMMA PsuStep ==
    ASSUME IInv, NEW d \in Folders, At(Len(stack), d), stack = <<>>, UNCHANGED <<source, src, clip, moved>>,
           NEW c \in {"none", "part"}, dst' = [Put("psu", Subtree(d), "none") EXCEPT !["psu"][d] = c],
           attr' = attr, Again(d) \subseteq mishaps', mishaps \subseteq mishaps', mishaps' \subseteq Mishaps,
           open' \subseteq {"attr", "psu", "in", "out"} \X Nodes
    PROVE  Change(d) /\ DataOK' /\ PsuSound' /\ CutKeeps' /\ dst'["psu"][d] = c
<1>1. d \in Nodes /\ Subtree(d) \in SUBSET Nodes /\ d \in Subtree(d) /\ Parent[d] = Top /\ c \in Copies
  BY AtIs, SubtreeIs, LevelsAre DEF Copies
<1>2. /\ dst' \in [Places -> [Nodes -> Copies]] /\ dst'["psu"][d] = c
      /\ \A m \in Subtree(d) : m # d => dst'["psu"][m] = "none"
      /\ \A q \in Places, m \in Nodes :
            q # "psu" \/ (m \notin Subtree(d) /\ m # d) => dst'[q][m] = dst[q][m]
  <2>1. "psu" \in Places /\ "none" \in Copies
    BY DEF Places, Copies
  <2> QED BY <1>1, <2>1, DataIs DEF Put
<1>3. \A p \in Places, m \in Nodes \ Subtree(d) : dst'[p][m] = dst[p][m]
  BY <1>1, <1>2
<1>4. Change(d)
  BY <1>3 DEF Change
<1>5. \A m \in Nodes : dst'["dir"][m] = dst["dir"][m]
  BY <1>2 DEF Places
<1>6. DataOK'
  BY <1>2, <1>5, ThereStays, DataStep
<1>7. PsuSound'
  <2>1. CASE Unless({"unlisted", "garbled"})
    BY <2>1 DEF PsuSound, Unless
  <2>2. CASE ~ Unless({"unlisted", "garbled"})
    <3>1. ASSUME NEW e \in Packable, dst'["psu"][e] = "whole",
                 NEW m \in Subtree(e) \cap src \cap Files
          PROVE  Parent[m] = e /\ dst'["psu"][m] = "whole"
      <4>1. e # d /\ e \in Nodes /\ Parent[e] = Top
        BY <1>2, <3>1, TreeIs DEF Packable
      <4>2. Subtree(e) \cap Subtree(d) = {} /\ Subtree(e) \subseteq Nodes /\ e \in Subtree(e)
        BY <1>1, <4>1, SubtreesApart, SubtreeIs
      <4>3. dst'["psu"][e] = dst["psu"][e] /\ dst'["psu"][m] = dst["psu"][m]
        BY <1>3, <3>1, <4>1, <4>2 DEF Places
      <4> QED BY <2>2, <3>1, <4>3 DEF IInv, PsuSound
    <3> QED BY <3>1 DEF PsuSound
  <2> QED BY <2>1, <2>2
<1>8. CutKeeps'
  BY <1>1, <1>3, ApartStays
<1> QED BY <1>2, <1>4, <1>6, <1>7, <1>8

-----------------------------------------------------------------------------
(***************************************************************************)
(* The parts put together: a copy that fails, one that returns, and one    *)
(* that enters a folder.                                                   *)
(***************************************************************************)
LEMMA Together ==
    ASSUME LevelsSound', DataOK', OpenSound', MovedSound', PsuSound', CutKeeps'
    PROVE  IInv'
BY DEF LevelsSound, IInv, TypeOK, ControlOK, DataOK, Listing

LEMMA MovedStays ==
    ASSUME IInv, src' = src, moved' = moved,
           paste'.phase = "delete" => Active' /\ event' = [done |-> Item', mode |-> paste'.mode]
    PROVE  MovedSound'
BY DEF IInv, MovedSound, Item

\* A step that only fails.
LEMMA SameStep ==
    ASSUME IInv, UNCHANGED <<source, src, dst, attr, moved>>, mishaps \subseteq mishaps',
           mishaps' \subseteq Mishaps, open' \subseteq {"attr", "psu", "in", "out"} \X Nodes
    PROVE  DataOK' /\ PsuSound' /\ CutKeeps'
<1>1. dst' \in [Places -> [Nodes -> Copies]]
  BY DataIs
<1>2. DataOK'
  BY <1>1, ThereStays, DataStep
<1> QED BY <1>2, PsuStays, SameFiles

LEMMA OpenIs ==
    ASSUME IInv
    PROVE  open \subseteq {"attr", "psu", "in", "out"} \X Nodes /\ mishaps \subseteq Mishaps
BY DEF IInv, TypeOK

LEMMA AbortTypes ==
    ASSUME IInv, NEW left, NEW why, Aborted(left, why), why \subseteq Mishaps,
           left \subseteq {"attr", "psu", "in", "out"} \X Nodes
    PROVE  /\ mishaps \subseteq mishaps' /\ why \subseteq mishaps' /\ mishaps' \subseteq Mishaps
           /\ open' \subseteq {"attr", "psu", "in", "out"} \X Nodes
<1>1. "abandoned" \in Mishaps
  BY DEF Mishaps
<1> QED BY <1>1, OpenIs DEF Aborted

LEMMA AbortSound ==
    ASSUME IInv, NEW left, NEW why, Aborted(left, why),
           left = {} \/ "declined" \in why \/ Flag \in Attributing,
           UNCHANGED <<src, clip, moved>>, DataOK', PsuSound', CutKeeps'
    PROVE  IInv'
<1>1. OpenSound' /\ stack' = <<>> /\ paste' = Idle /\ event' = Nothing
  BY AbortOpen
<1>2. LevelsSound'
  BY <1>1, PasteTypes, EndsSound
<1>3. MovedSound'
  BY <1>1, PasteTypes, MovedStays
<1> QED BY <1>1, <1>2, <1>3, Together

LEMMA BackSound ==
    ASSUME IInv, NEW k, NEW n, At(k, n), Backs(k, n), Change(n),
           k # 0 => Fails \/ Arrives(n, stack[k].flag),
           k = 0 => Fails \/ mishaps' \cap {"skipped"} # {} \/ Delivered(n),
           DataOK', OpenSound', PsuSound', CutKeeps'
    PROVE  IInv'
<1>1. LevelsSound' /\ (paste'.phase = "delete" =>
                          Active' /\ event' = [done |-> Item', mode |-> paste'.mode])
  BY BackStep
<1>2. MovedSound'
  BY <1>1, MovedStays DEF Change
<1> QED BY <1>1, <1>2, Together

LEMMA PushSound ==
    ASSUME IInv, NEW d, Active, paste.phase = "copy", NEW listed, NEW flag, NEW good,
           Push(d, listed, flag, good), UNCHANGED <<src, moved>>,
           LevelsSound', DataOK', OpenSound', PsuSound', CutKeeps'
    PROVE  IInv'
<1>1. MovedSound'
  BY MovedStays DEF Push
<1> QED BY <1>1, Together

-----------------------------------------------------------------------------
(***************************************************************************)
(* The steps of copy().                                                    *)
(***************************************************************************)
\* The flag copy() works under.
LEMMA FlagIs ==
    ASSUME IInv
    PROVE  /\ stack = <<>> => Flag = "normal"
           /\ stack # <<>> => /\ Len(stack) \in 1 .. Len(stack) /\ Len(stack) \in DOMAIN stack
                              /\ Flag = stack[Len(stack)].flag /\ This = stack[Len(stack)]
           /\ Flag \in {"normal", paste.mode}
           /\ stack # <<>> /\ paste.mode = "psuBackup" => Flag = "psuBackup"
           /\ stack # <<>> /\ paste.mode \in Attributing =>
                 Flag = paste.mode \/ mishaps \cap {"unattributed"} # {}
           /\ stack # <<>> /\ Unpacks(Item) => Flag = "psuRestore"
<1>1. stack = <<>> => Flag = "normal"
  BY DEF Flag
<1>2. stack # <<>> => /\ Len(stack) \in 1 .. Len(stack) /\ Len(stack) \in DOMAIN stack
                      /\ Flag = stack[Len(stack)].flag /\ This = stack[Len(stack)]
                      /\ 1 \in DOMAIN stack
  BY LevelsAre DEF Flag, This
<1>3. ASSUME stack # <<>>, Unpacks(Item) PROVE Flag = "psuRestore"
  <2>1. stack[1].node = Item /\ stack[1].flag = "psuRestore" /\ Len(stack) = 1
    BY <1>2, <1>3 DEF IInv, StackSound, FlagsSound
  <2> QED BY <1>2, <1>3, <2>1
<1> QED BY <1>1, <1>2, <1>3 DEF IInv, FlagsSound, Unless

\* A file that has been copied is where the paste wants it, with its attributes.
LEMMA FileArrives ==
    ASSUME IInv, NEW n \in Files \cap src, At(Len(stack), n), mishaps \subseteq mishaps',
           dst'[IF Flag = "psuBackup" THEN "psu" ELSE "dir"][n] = "whole",
           Flag \in {"mcBackup", "psuRestore"} => n \in attr' \/ mishaps' \cap {"unattributed"} # {}
    PROVE  /\ Len(stack) # 0 => Arrives(n, stack[Len(stack)].flag)
           /\ Len(stack) = 0 => Delivered(n)
<1>1. n \in Nodes /\ Subtree(n) = {n} /\ n \notin Folders
  BY FileAlone DEF Files
<1>2. ASSUME Len(stack) # 0 PROVE Arrives(n, stack[Len(stack)].flag)
  <2>1. stack # <<>> /\ Flag = stack[Len(stack)].flag
    BY <1>2, LevelsAre, FlagIs
  <2>2. CASE paste.mode = "psuBackup"
    <3>1. Flag = "psuBackup"
      BY <2>1, <2>2, FlagIs
    <3> QED BY <2>2, <3>1 DEF Arrives
  <2>3. CASE paste.mode # "psuBackup"
    <3>1. dst'["dir"][n] = "whole"
      BY <2>3, FlagIs
    <3>2. Keeps(n) \/ Flag = "mcRestore"
      <4>1. CASE Flag \in {"mcBackup", "psuRestore"}
        BY <4>1 DEF Keeps
      <4>2. CASE Flag \notin {"mcBackup", "psuRestore", "mcRestore"}
        <5>1. CASE paste.mode \in Attributing
          <6>1. mishaps \cap {"unattributed"} # {}
            BY <2>1, <4>2, <5>1, FlagIs DEF Attributing
          <6> QED BY <6>1 DEF Keeps
        <5>2. CASE paste.mode \notin Attributing
          <6>1. ~ Unpacks(Item)
            BY <2>1, <4>2, FlagIs
          <6> QED BY <5>2, <6>1 DEF Keeps
        <5> QED BY <5>1, <5>2
      <4> QED BY <4>1, <4>2
    <3> QED BY <1>1, <2>1, <2>3, <3>1, <3>2 DEF Arrives
  <2> QED BY <2>2, <2>3
<1>3. ASSUME Len(stack) = 0 PROVE Delivered(n)
  <2>1. Flag = "normal" /\ n = Item /\ Parent[n] = Top /\ dst'["dir"][n] = "whole"
    BY <1>3, LevelsAre, FlagIs, AtIs DEF At
  <2>2. ~ Unpacks(Item)
    BY <1>1, <2>1 DEF Unpacks, Packed, Packable
  <2>3. Keeps(n)
    BY <2>1, <2>2 DEF Keeps
  <2> QED BY <1>1, <2>1, <2>3 DEF Delivered
<1> QED BY <1>2, <1>3

\* What has been copied into a folder is complete when the folder is left.
LEMMA LeaveArrives ==
    ASSUME IInv, stack # <<>>, This.todo = {}, ~ Unless({"unlisted", "garbled"}),
           NEW x \in Subtree(This.node) \cap src \cap Files
    PROVE  IF paste.mode = "psuBackup" THEN Parent[x] = This.node /\ dst["psu"][x] = "whole"
           ELSE InDir(x) /\ (Kept(x) \/ (Parent[x] = This.node /\ Flag = "mcRestore"))
<1>1. Len(stack) \in DOMAIN stack /\ This = stack[Len(stack)] /\ Flag = This.flag
      /\ This.node \in Folders /\ This.node \in Nodes
  BY FlagIs, LevelsAre
<1>2. x # This.node
  BY <1>1 DEF Files
<1>3. PICK c \in Children(This.node) : x \in Subtree(c)
  BY <1>1, <1>2, SubtreeParts
<1>4. c \in Nodes /\ Parent[c] = This.node
  BY <1>3 DEF Children
<1>5. c \in src
  BY <1>3, <1>4, DataIs, MissingBelow
<1>6. Arrived(c, Flag)
  BY <1>1, <1>3, <1>5 DEF IInv, CopiedSoFar
<1>7. CASE paste.mode = "psuBackup"
  <2>1. c \in Files /\ dst["psu"][c] = "whole"
    BY <1>6, <1>7 DEF Arrived
  <2>2. x = c
    BY <1>3, <2>1, FileAlone
  <2> QED BY <1>4, <1>7, <2>1, <2>2
<1>8. CASE paste.mode # "psuBackup"
  BY <1>3, <1>4, <1>6, <1>8 DEF Arrived
<1> QED BY <1>7, <1>8

LEMMA AbortedAlone ==
    ASSUME IInv, Aborted({}, {}), UNCHANGED <<source, src, dst, attr, clip, moved>>
    PROVE  IInv'
<1>1. /\ mishaps \subseteq mishaps' /\ mishaps' \subseteq Mishaps
      /\ open' \subseteq {"attr", "psu", "in", "out"} \X Nodes
  BY AbortTypes
<1>2. DataOK' /\ PsuSound' /\ CutKeeps'
  BY <1>1, SameStep
<1> QED BY <1>2, AbortSound

LEMMA CopyNoDestSound ==
    ASSUME IInv, NEW n \in Nodes, CopyNoDest(n)
    PROVE  IInv'
<1>1. /\ n \in Files \cap src /\ Flag # "psuBackup" /\ Pending(n) /\ Aborted({}, {})
      /\ UNCHANGED <<source, src, attr, clip, moved>>
      /\ dst' = dst \/ dst' = Put("dir", {n}, "none")
  BY DEF CopyNoDest
<1>2. CASE dst' = dst
  BY <1>1, <1>2, AbortedAlone
<1>3. CASE dst' = Put("dir", {n}, "none")
  <2>1. /\ mishaps \subseteq mishaps' /\ mishaps' \subseteq Mishaps
        /\ open' \subseteq {"attr", "psu", "in", "out"} \X Nodes
    BY <1>1, AbortTypes
  <2>2. "dir" \in Places /\ "none" \in Copies /\ At(Len(stack), n)
    BY <1>1, PendingAt DEF Places, Copies
  <2>3. DataOK' /\ PsuSound' /\ CutKeeps'
    BY <1>1, <1>3, <2>1, <2>2, FileStep
  <2> QED BY <1>1, <2>3, AbortSound
<1> QED BY <1>1, <1>2, <1>3

LEMMA CopyShortSound ==
    ASSUME IInv, NEW n \in Nodes, CopyShort(n)
    PROVE  IInv'
<1>1. /\ n \in Files \cap src /\ Pending(n) /\ UNCHANGED <<source, src, attr, clip, moved>>
      /\ \E p \in Places, c \in Copies, why \in SUBSET {"stuck"} :
            /\ p = "psu" <=> Flag = "psuBackup"
            /\ dst' = Put(p, {n}, c) /\ Aborted({}, why)
  <2>1. CASE Flag = "psuBackup"
    <3>1. dst' = Put("psu", {n}, "part") /\ Aborted({}, {})
      BY <2>1 DEF CopyShort
    <3>2. "psu" \in Places /\ "part" \in Copies /\ {} \in SUBSET {"stuck"}
      BY DEF Places, Copies
    <3> QED BY <2>1, <3>1, <3>2 DEF CopyShort
  <2>2. CASE Flag # "psuBackup"
    <3>1. PICK stuck \in BOOLEAN : /\ dst' = Put("dir", {n}, IF stuck THEN "part" ELSE "none")
                                   /\ Aborted({}, IF stuck THEN {"stuck"} ELSE {})
      BY <2>2 DEF CopyShort
    <3>2. /\ "dir" \in Places /\ (IF stuck THEN "part" ELSE "none") \in Copies
          /\ (IF stuck THEN {"stuck"} ELSE {}) \in SUBSET {"stuck"}
      BY DEF Places, Copies
    <3> QED BY <2>2, <3>1, <3>2 DEF CopyShort
  <2> QED BY <2>1, <2>2
<1>2. PICK p \in Places, c \in Copies, why \in SUBSET {"stuck"} :
            /\ p = "psu" <=> Flag = "psuBackup"
            /\ dst' = Put(p, {n}, c) /\ Aborted({}, why)
  BY <1>1
<1>3. why \subseteq Mishaps
  BY DEF Mishaps
<1>4. /\ mishaps \subseteq mishaps' /\ mishaps' \subseteq Mishaps
      /\ open' \subseteq {"attr", "psu", "in", "out"} \X Nodes
  BY <1>2, <1>3, AbortTypes
<1>5. At(Len(stack), n)
  BY <1>1, PendingAt
<1>6. DataOK' /\ PsuSound' /\ CutKeeps'
  BY <1>1, <1>2, <1>4, <1>5, FileStep
<1> QED BY <1>1, <1>2, <1>6, AbortSound

\* copy() of a file comes back without error.
LEMMA FileReturns ==
    ASSUME IInv, NEW n \in Files \cap src, Pending(n), UNCHANGED <<source, src, clip, moved>>,
           NEW p \in Places, NEW c \in Copies, dst' = Put(p, {n}, c), p = "psu" <=> Flag = "psuBackup",
           attr \ {n} \subseteq attr', attr' \subseteq attr \cup {n},
           n \in attr' => n \in attr \/ Flag \in {"mcBackup", "psuRestore"},
           Returned(n, stack), open' = open, mishaps \subseteq mishaps', mishaps' \subseteq Mishaps,
           \/ Fails
           \/ /\ c = "whole"
              /\ Flag \in {"mcBackup", "psuRestore"} => n \in attr' \/ mishaps' \cap {"unattributed"} # {}
    PROVE  IInv'
<1>1. At(Len(stack), n) /\ Backs(Len(stack), n) /\ n \in Nodes
  BY PendingAt, NextReturns DEF Files
<1>2. Change(n) /\ DataOK' /\ PsuSound' /\ CutKeeps'
  BY <1>1, OpenIs, FileStep
<1>3. OpenSound'
  BY <1>1, BackOpen
<1>4. CASE Fails
  BY <1>1, <1>2, <1>3, <1>4, BackSound
<1>5. CASE c = "whole" /\ (Flag \in {"mcBackup", "psuRestore"} =>
                              n \in attr' \/ mishaps' \cap {"unattributed"} # {})
  <2>1. {n} \in SUBSET Nodes /\ n \in {n}
    BY <1>1
  <2>2. dst'[p][n] = "whole"
    <3>1. \A m \in {n} : dst'[p][m] = c
      BY <2>1, PutIs
    <3> QED BY <1>5, <3>1
  <2>3. p = IF Flag = "psuBackup" THEN "psu" ELSE "dir"
    BY DEF Places
  <2>4. /\ Len(stack) # 0 => Arrives(n, stack[Len(stack)].flag)
        /\ Len(stack) = 0 => Delivered(n)
    BY <1>1, <1>5, <2>2, <2>3, FileArrives
  <2> QED BY <1>1, <1>2, <1>3, <2>4, BackSound
<1> QED BY <1>4, <1>5

LEMMA CopyWholeSound ==
    ASSUME IInv, NEW n \in Nodes, CopyWhole(n)
    PROVE  IInv'
<1>1. /\ n \in Files \cap src /\ Pending(n) /\ UNCHANGED <<source, src, clip, moved>>
      /\ dst' = Put(IF Flag = "psuBackup" THEN "psu" ELSE "dir", {n}, "whole")
  BY DEF CopyWhole
<1>2. PICK p \in Places : p = IF Flag = "psuBackup" THEN "psu" ELSE "dir"
  BY DEF Places
<1>3. dst' = Put(p, {n}, "whole") /\ (p = "psu" <=> Flag = "psuBackup") /\ "whole" \in Copies
  BY <1>1, <1>2 DEF Copies
<1>4. CASE /\ Returned(n, stack) /\ UNCHANGED <<open, mishaps>>
           /\ attr' = IF Flag \in {"mcBackup", "psuRestore"} THEN attr \cup {n}
                      ELSE IF Flag = "mcRestore" \/ ~source.card THEN attr
                      ELSE attr \ {n}
  <2>1. CASE Flag \in {"mcBackup", "psuRestore"}
    <3>1. attr' = attr \cup {n}
      BY <1>4, <2>1
    <3> QED BY <1>1, <1>3, <1>4, <3>1, OpenIs, FileReturns
  <2>2. CASE Flag \notin {"mcBackup", "psuRestore"}
    <3>1. attr' = attr \/ attr' = attr \ {n}
      BY <1>4, <2>2
    <3> QED BY <1>1, <1>3, <1>4, <2>2, <3>1, OpenIs, FileReturns
  <2> QED BY <2>1, <2>2
<1>5. CASE /\ Flag = "psuRestore" /\ attr' = attr \ {n} /\ Returned(n, stack)
           /\ mishaps' = mishaps \cup {"unattributed"} /\ open' = open
  <2>1. "unattributed" \in Mishaps
    BY DEF Mishaps
  <2> QED BY <1>1, <1>3, <1>5, <2>1, OpenIs, FileReturns
<1>6. CASE Flag = "mcBackup" /\ Aborted({<<"in", n>>, <<"out", n>>}, {}) /\ attr' = attr
  <2>1. {<<"in", n>>, <<"out", n>>} \subseteq {"attr", "psu", "in", "out"} \X Nodes
    OBVIOUS
  <2>2. /\ mishaps \subseteq mishaps' /\ mishaps' \subseteq Mishaps
        /\ open' \subseteq {"attr", "psu", "in", "out"} \X Nodes
    BY <1>6, <2>1, AbortTypes
  <2>3. At(Len(stack), n) /\ Flag \in Attributing
    BY <1>1, <1>6, PendingAt DEF Attributing
  <2>4. DataOK' /\ PsuSound' /\ CutKeeps'
    BY <1>1, <1>3, <1>6, <2>2, <2>3, FileStep
  <2> QED BY <1>1, <1>6, <2>3, <2>4, AbortSound
<1>7. \/ /\ Returned(n, stack) /\ UNCHANGED <<open, mishaps>>
         /\ attr' = IF Flag \in {"mcBackup", "psuRestore"} THEN attr \cup {n}
                    ELSE IF Flag = "mcRestore" \/ ~source.card THEN attr
                    ELSE attr \ {n}
      \/ /\ Flag = "psuRestore" /\ attr' = attr \ {n} /\ Returned(n, stack)
         /\ mishaps' = mishaps \cup {"unattributed"} /\ open' = open
      \/ Flag = "mcBackup" /\ Aborted({<<"in", n>>, <<"out", n>>}, {}) /\ attr' = attr
  BY DEF CopyWhole
<1> QED BY <1>4, <1>5, <1>6, <1>7

LEMMA CopyGarbledSound ==
    ASSUME IInv, NEW n \in Nodes, CopyGarbled(n)
    PROVE  IInv'
<1>1. /\ n \in Files \cap src /\ Pending(n) /\ UNCHANGED <<source, src, clip, attr, open, moved>>
      /\ Returned(n, stack) /\ mishaps' = mishaps \cup {"garbled"}
  BY DEF CopyGarbled
<1>2. Fails /\ mishaps \subseteq mishaps' /\ mishaps' \subseteq Mishaps
  BY <1>1, OpenIs DEF Fails, Mishaps
<1>3. CASE Flag = "psuBackup" /\ dst' = Put("psu", {n}, "part")
  BY <1>1, <1>2, <1>3, FileReturns DEF Places, Copies
<1>4. CASE Flag = "psuRestore" /\ dst' = Put("dir", {n}, "whole")
  BY <1>1, <1>2, <1>4, FileReturns DEF Places, Copies
<1> QED BY <1>3, <1>4 DEF CopyGarbled

LEMMA DeclinedIs ==
    ASSUME IInv, NEW d \in Nodes, NEW why, Declined(d, why), why \subseteq Mishaps
    PROVE  /\ why \subseteq mishaps' /\ mishaps \subseteq mishaps' /\ mishaps' \subseteq Mishaps
           /\ open' \subseteq {"attr", "psu", "in", "out"} \X Nodes
           /\ \E left, w : Aborted(left, w) /\ (left = {} \/ "declined" \in w)
<1>1. CASE Unpacks(d)
  <2>1. Aborted({<<"psu", d>>}, why \cup {"declined"})
    BY <1>1 DEF Declined
  <2>2. {<<"psu", d>>} \subseteq {"attr", "psu", "in", "out"} \X Nodes
    OBVIOUS
  <2>3. why \cup {"declined"} \subseteq Mishaps
    BY DEF Mishaps
  <2>4. /\ why \cup {"declined"} \subseteq mishaps' /\ mishaps \subseteq mishaps' /\ mishaps' \subseteq Mishaps
        /\ open' \subseteq {"attr", "psu", "in", "out"} \X Nodes
    BY <2>1, <2>2, <2>3, AbortTypes
  <2>5. "declined" \in why \cup {"declined"}
    OBVIOUS
  <2> QED BY <2>1, <2>4, <2>5
<1>2. CASE ~ Unpacks(d)
  <2>1. Aborted({}, why)
    BY <1>2 DEF Declined
  <2>2. /\ why \subseteq mishaps' /\ mishaps \subseteq mishaps' /\ mishaps' \subseteq Mishaps
        /\ open' \subseteq {"attr", "psu", "in", "out"} \X Nodes
    BY <2>1, AbortTypes
  <2> QED BY <2>1, <2>2
<1> QED BY <1>1, <1>2

LEMMA EnterFailsSound ==
    ASSUME IInv, NEW d \in Nodes, EnterFails(d)
    PROVE  IInv'
<1>1. UNCHANGED <<source, src, dst, attr, clip, moved>>
  BY DEF EnterFails
<1>2. CASE Aborted({}, {})
  BY <1>1, <1>2, AbortedAlone
<1>3. CASE Declined(d, {})
  <2>1. /\ mishaps \subseteq mishaps' /\ mishaps' \subseteq Mishaps
        /\ open' \subseteq {"attr", "psu", "in", "out"} \X Nodes
        /\ \E left, w : Aborted(left, w) /\ (left = {} \/ "declined" \in w)
    BY <1>3, DeclinedIs
  <2>2. DataOK' /\ PsuSound' /\ CutKeeps'
    BY <1>1, <2>1, SameStep
  <2> QED BY <1>1, <2>1, <2>2, AbortSound
<1> QED BY <1>2, <1>3 DEF EnterFails

LEMMA AgainIs == \A d : Again(d) \subseteq Mishaps
BY DEF Again, Mishaps

LEMMA ClearFailsSound ==
    ASSUME IInv, NEW d \in Nodes, ClearFails(d)
    PROVE  IInv'
<1>1. /\ Pending(d) /\ d \in Folders /\ Declined(d, Again(d)) /\ UNCHANGED <<source, src, clip, moved>>
      /\ \E gone \in SUBSET Subtree(d) :
            /\ \A n \in gone : Children(n) \subseteq gone
            /\ dst' = Put("dir", gone, "none")
            /\ attr' = attr \ gone
  BY DEF ClearFails
<1>2. PICK gone \in SUBSET Subtree(d) :
            /\ \A n \in gone : Children(n) \subseteq gone
            /\ dst' = Put("dir", gone, "none")
            /\ attr' = attr \ gone
  BY <1>1
<1>3. /\ Again(d) \subseteq mishaps' /\ mishaps \subseteq mishaps' /\ mishaps' \subseteq Mishaps
      /\ open' \subseteq {"attr", "psu", "in", "out"} \X Nodes
      /\ \E left, w : Aborted(left, w) /\ (left = {} \/ "declined" \in w)
  BY <1>1, AgainIs, DeclinedIs
<1>4. At(Len(stack), d)
  BY <1>1, PendingAt
<1>5. DataOK' /\ PsuSound' /\ CutKeeps'
  BY <1>1, <1>2, <1>3, <1>4, ClearStep
<1> QED BY <1>1, <1>3, <1>5, AbortSound

LEMMA PsuFailsSound ==
    ASSUME IInv, NEW d \in Nodes, PsuFails(d)
    PROVE  IInv'
<1>1. /\ Pending(d) /\ d \in Folders /\ stack = <<>> /\ Aborted({}, Again(d))
      /\ UNCHANGED <<source, src, attr, clip, moved>>
      /\ \E c \in {"none", "part"} : dst' = [Put("psu", Subtree(d), "none") EXCEPT !["psu"][d] = c]
  BY DEF PsuFails
<1>2. PICK c \in {"none", "part"} : dst' = [Put("psu", Subtree(d), "none") EXCEPT !["psu"][d] = c]
  BY <1>1
<1>3. /\ Again(d) \subseteq mishaps' /\ mishaps \subseteq mishaps' /\ mishaps' \subseteq Mishaps
      /\ open' \subseteq {"attr", "psu", "in", "out"} \X Nodes
  BY <1>1, AgainIs, AbortTypes
<1>4. At(Len(stack), d)
  BY <1>1, PendingAt
<1>5. DataOK' /\ PsuSound' /\ CutKeeps'
  BY <1>1, <1>2, <1>3, <1>4, PsuStep
<1> QED BY <1>1, <1>5, AbortSound

LEMMA ListingIs ==
    ASSUME NEW d \in Nodes, NEW listed \in Listings(d), Unlisted(d, listed) \subseteq mishaps'
    PROVE  listed \in SUBSET (Children(d) \cap src) /\ (Fails \/ listed = Children(d) \cap src)
BY DEF Listings, Unlisted, Fails

LEMMA EnterDirSound ==
    ASSUME IInv, NEW d \in Nodes, NEW listed \in Listings(d),
           NEW attributes \in {"none", "used", "short", "unmade"}, EnterDir(d, listed, attributes)
    PROVE  IInv'
<1> DEFINE clears == dst["dir"][d] # "none" /\ paste.mode \in Clearing
           flag == IF attributes = "used" THEN paste.mode ELSE "normal"
<1>1. /\ Pending(d) /\ d \in Folders /\ paste.mode # "psuBackup" /\ Flag # "psuRestore" /\ ~Unpacks(d)
      /\ attributes # "none" <=> paste.mode \in Attributing
      /\ Made(d) /\ UNCHANGED <<source, src, clip, moved>>
      /\ open' = IF attributes \in {"used", "short"} THEN open \cup {<<"attr", d>>} ELSE open
      /\ attr' = CASE clears -> attr \ Subtree(d)
                   [] ~clears /\ paste.mode = "mcBackup" -> attr \ Children(d)
                   [] OTHER -> attr
  BY DEF EnterDir
<1>2. mishaps' = mishaps \cup Unlisted(d, listed)
         \cup (IF clears THEN Again(d) ELSE {})
         \cup (IF paste.mode \in Attributing /\ attributes # "used" THEN {"unattributed"} ELSE {})
  BY DEF EnterDir
<1>3. PICK good \in BOOLEAN : Push(d, listed, flag, good)
  BY DEF EnterDir
<1>4. /\ attr' \subseteq attr /\ attr \ Subtree(d) \subseteq attr'
      /\ clears => attr' = attr \ Subtree(d)
  <2>1. Children(d) \subseteq Subtree(d)
    BY ChildrenWithin
  <2> QED BY <1>1, <2>1
<1>5. /\ Unlisted(d, listed) \subseteq mishaps' /\ mishaps \subseteq mishaps'
      /\ clears => Again(d) \subseteq mishaps'
      /\ paste.mode \in Attributing => flag = paste.mode \/ mishaps' \cap {"unattributed"} # {}
  BY <1>2
<1>6. mishaps' \subseteq Mishaps
  BY <1>2, OpenIs, AgainIs DEF Unlisted, Mishaps
<1>7. open' \subseteq {"attr", "psu", "in", "out"} \X Nodes
  BY <1>1, OpenIs
<1>8. At(Len(stack), d) /\ Active /\ paste.phase = "copy"
  BY <1>1, PendingAt
<1>9. Change(d) /\ DataOK' /\ PsuSound' /\ CutKeeps' /\ dst'["dir"][d] # "none"
  BY <1>1, <1>4, <1>5, <1>6, <1>7, <1>8, MadeStep
<1>10. listed \in SUBSET (Children(d) \cap src) /\ (Fails \/ listed = Children(d) \cap src)
  BY <1>5, ListingIs
<1>11. /\ Flag \notin {"psuBackup", "psuRestore"} /\ flag \in {"normal", paste.mode} /\ flag \in PasteModes
       /\ flag \notin {"psuBackup", "psuRestore"}
       /\ attributes \in {"used", "short"} => \/ mishaps' \cap {"unattributed"} # {}
                                              \/ flag \in Attributing /\ flag # "normal"
  <2>1. Flag # "psuBackup"
    BY <1>1, FlagIs
  <2>2. attributes = "used" => flag \in Attributing /\ flag \in PasteModes
    BY <1>1 DEF Attributing, PasteModes
  <2>3. "normal" \in PasteModes
    BY DEF PasteModes
  <2>4. attributes = "short" => paste.mode \in Attributing /\ flag = "normal"
    BY <1>1
  <2>5. attributes = "short" => mishaps' \cap {"unattributed"} # {}
    BY <1>2, <2>4
  <2> QED BY <1>1, <2>1, <2>2, <2>3, <2>5 DEF Attributing
<1> HIDE DEF flag, clears
<1>12. LevelsSound'
  BY <1>1, <1>3, <1>5, <1>8, <1>9, <1>10, <1>11, PushStep
<1>13. OpenSound'
  <2>1. \/ open' = open
        \/ mishaps' \cap {"unattributed"} # {}
        \/ /\ open' = open \cup {<<IF flag \in Attributing THEN "attr" ELSE "psu", d>>}
           /\ flag # "normal"
    BY <1>1, <1>11
  <2> QED BY <1>3, <1>5, <2>1, PushOpen
<1> QED BY <1>1, <1>3, <1>8, <1>9, <1>12, <1>13, PushSound

LEMMA EnterPsuFileSound ==
    ASSUME IInv, NEW d \in Nodes, EnterPsuFile(d)
    PROVE  IInv'
<1>1. PICK listed : listed = IF source.packed[d] = "short" THEN {} ELSE Children(d) \cap src
  OBVIOUS
<1>2. /\ Pending(d) /\ Unpacks(d) /\ Made(d) /\ attr' = attr \ Subtree(d)
      /\ open' = open \cup {<<"psu", d>>} /\ Push(d, listed, "psuRestore", TRUE)
      /\ mishaps' = mishaps \cup Unlisted(d, listed)
                      \cup (IF dst["dir"][d] = "none" THEN {} ELSE Again(d))
      /\ UNCHANGED <<source, src, clip, moved>>
  BY <1>1 DEF EnterPsuFile
<1>3. d \in Folders /\ Parent[d] = Top /\ paste.mode = "psuRestore"
  BY <1>2 DEF Unpacks, Packed, Packable
<1>4. At(Len(stack), d) /\ Active /\ paste.phase = "copy"
  BY <1>2, PendingAt
<1>5. stack = <<>> /\ d = Item
  <2>1. Len(stack) = 0
    <3>1. Len(stack) # 0 => Parent[d] \in Nodes
      BY <1>4, AtIs, LevelsAre
    <3> QED BY <1>3, <3>1, TreeIs
  <2> QED BY <1>4, <2>1, LevelsAre DEF At
<1>6. /\ Unlisted(d, listed) \subseteq mishaps' /\ mishaps \subseteq mishaps'
      /\ dst["dir"][d] # "none" => Again(d) \subseteq mishaps'
  BY <1>2
<1>7. mishaps' \subseteq Mishaps
  BY <1>2, OpenIs, AgainIs DEF Unlisted, Mishaps
<1>8. open' \subseteq {"attr", "psu", "in", "out"} \X Nodes
  BY <1>2, OpenIs
<1>9. Change(d) /\ DataOK' /\ PsuSound' /\ CutKeeps' /\ dst'["dir"][d] # "none"
  BY <1>2, <1>3, <1>4, <1>6, <1>7, <1>8, MadeStep
<1>10. listed \in SUBSET (Children(d) \cap src) /\ (Fails \/ listed = Children(d) \cap src)
  <2>1. listed \in Listings(d)
    BY <1>1 DEF Listings
  <2> QED BY <1>6, <2>1, ListingIs
<1>11. /\ "psuRestore" \in PasteModes /\ Flag = "normal" /\ "psuRestore" \notin Attributing
       /\ paste.mode \notin Attributing
  BY <1>3, <1>5, FlagIs DEF PasteModes, Attributing
<1>12. LevelsSound'
  BY <1>2, <1>3, <1>4, <1>5, <1>9, <1>10, <1>11, PushStep
<1>13. OpenSound'
  <2>1. open' = open \cup {<<IF "psuRestore" \in Attributing THEN "attr" ELSE "psu", d>>}
    BY <1>2, <1>11
  <2> QED BY <1>2, <1>6, <2>1, PushOpen
<1> QED BY <1>2, <1>4, <1>9, <1>12, <1>13, PushSound

LEMMA EnterPsuSound ==
    ASSUME IInv, NEW d \in Nodes, NEW listed \in Listings(d), NEW titled \in BOOLEAN,
           EnterPsu(d, listed, titled)
    PROVE  IInv'
<1>1. /\ Pending(d) /\ d \in Folders /\ paste.mode = "psuBackup" /\ stack = <<>>
      /\ dst' = [Put("psu", Subtree(d), "none") EXCEPT !["psu"][d] = "part"]
      /\ open' = open \cup {<<"psu", d>>} /\ Push(d, listed, "psuBackup", titled)
      /\ mishaps' = mishaps \cup Unlisted(d, listed) \cup Again(d)
      /\ UNCHANGED <<source, src, attr, clip, moved>>
  BY DEF EnterPsu
<1>2. At(Len(stack), d) /\ Active /\ paste.phase = "copy"
  BY <1>1, PendingAt
<1>3. /\ Unlisted(d, listed) \subseteq mishaps' /\ mishaps \subseteq mishaps' /\ Again(d) \subseteq mishaps'
      /\ mishaps' \subseteq Mishaps
  BY <1>1, OpenIs, AgainIs DEF Unlisted, Mishaps
<1>4. open' \subseteq {"attr", "psu", "in", "out"} \X Nodes
  BY <1>1, OpenIs
<1>5. Change(d) /\ DataOK' /\ PsuSound' /\ CutKeeps' /\ dst'["psu"][d] = "part"
  BY <1>1, <1>2, <1>3, <1>4, PsuStep
<1>6. listed \in SUBSET (Children(d) \cap src) /\ (Fails \/ listed = Children(d) \cap src)
  BY <1>3, ListingIs
<1>7. /\ "psuBackup" \in PasteModes /\ Flag = "normal" /\ "psuBackup" \notin Attributing
      /\ ~ Unpacks(d)
  BY <1>1, FlagIs DEF PasteModes, Attributing, Unpacks
<1>8. LevelsSound'
  BY <1>1, <1>2, <1>5, <1>6, <1>7, PushStep
<1>9. OpenSound'
  <2>1. open' = open \cup {<<IF "psuBackup" \in Attributing THEN "attr" ELSE "psu", d>>}
    BY <1>1, <1>7
  <2> QED BY <1>1, <1>3, <2>1, PushOpen
<1> QED BY <1>1, <1>2, <1>5, <1>8, <1>9, PushSound

\* A PSU file that is taken for the backup, and has its count written, has all there is.
LEMMA SkipPsuSound ==
    ASSUME IInv, NEW d \in Nodes, SkipPsu(d)
    PROVE  IInv'
<1>1. /\ Pending(d) /\ d \in Folders /\ paste.mode = "psuBackup" /\ stack = <<>> /\ stack' = stack
      /\ paste' = IF clip.cut THEN [paste EXCEPT !.phase = "delete"] ELSE Onward
      /\ event' = [done |-> d, mode |-> paste.mode]
      /\ mishaps' = mishaps \cup (IF dst["psu"][d] = "whole" THEN {} ELSE {"skipped"})
      /\ UNCHANGED <<source, src, dst, attr, clip, open, moved>>
  BY DEF SkipPsu
<1>2. At(Len(stack), d) /\ Len(stack) = 0 /\ Parent[d] = Top /\ d \in Packable
  <2>1. At(Len(stack), d) /\ Len(stack) = 0
    BY <1>1, PendingAt, LevelsAre
  <2> QED BY <1>1, <2>1, AtIs DEF Packable
<1>3. Backs(0, d)
  BY <1>1, <1>2, LevelsAre DEF Backs
<1>4. mishaps \subseteq mishaps' /\ mishaps' \subseteq Mishaps
  BY <1>1, OpenIs DEF Mishaps
<1>5. Change(d)
  BY <1>1 DEF Change
<1>6. DataOK' /\ PsuSound' /\ CutKeeps'
  BY <1>1, <1>4, OpenIs, SameStep
<1>7. OpenSound'
  BY <1>1, <1>4 DEF IInv, OpenSound, Held, Unless
<1>8. Fails \/ mishaps' \cap {"skipped"} # {} \/ Delivered(d)
  <2>1. CASE dst["psu"][d] # "whole"
    BY <1>1, <2>1
  <2>2. CASE Unless({"unlisted", "garbled"})
    BY <1>4, <2>2 DEF Unless, Fails
  <2>3. CASE dst["psu"][d] = "whole" /\ ~ Unless({"unlisted", "garbled"})
    <3>1. \A x \in Subtree(d) \cap src \cap Files : Parent[x] = d /\ dst["psu"][x] = "whole"
      BY <1>2, <2>3 DEF IInv, PsuSound
    <3>2. d # Top
      BY TreeIs
    <3> QED BY <1>1, <2>3, <3>1, <3>2 DEF Delivered
  <2> QED BY <2>1, <2>2, <2>3
<1> QED BY <1>2, <1>3, <1>5, <1>6, <1>7, <1>8, BackSound

\* A folder is left with all that is in it copied.
LEMMA LeaveSound ==
    ASSUME IInv, Leave
    PROVE  IInv'
<1> DEFINE copied == {n \in Children(This.node) \cap src \cap Files : dst["dir"][n] # "none"}
<1>1. PICK d : d = This.node
  OBVIOUS
<1>2. /\ Usable /\ stack # <<>> /\ This.todo = {} /\ This.good
      /\ Returned(d, SubSeq(stack, 1, Len(stack) - 1))
      /\ open' = open \ {<<IF Flag \in Attributing THEN "attr" ELSE "psu", d>>}
      /\ UNCHANGED <<source, src, clip, moved>>
  BY <1>1 DEF Leave
<1>3. PICK counted \in IF Flag = "psuBackup" THEN BOOLEAN ELSE {TRUE},
           given \in IF Flag = "mcRestore" THEN SUBSET copied ELSE {{}} :
         /\ dst' = IF Flag = "psuBackup" /\ counted THEN Put("psu", {d}, "whole") ELSE dst
         /\ attr' = IF Flag = "mcRestore" THEN (attr \ Children(d)) \cup given ELSE attr
         /\ mishaps' = mishaps
               \cup (IF counted THEN {} ELSE {"garbled"})
               \cup (IF Flag = "mcRestore" /\ given # copied THEN {"unattributed"} ELSE {})
  BY <1>1 DEF Leave
<1>4. PICK k : k = Len(stack) - 1
  OBVIOUS
<1>5. /\ At(k, d) /\ Backs(k, d) /\ k \in Nat /\ Len(stack) = k + 1 /\ k \in 0 .. Len(stack)
      /\ Active /\ paste.phase = "copy"
  <2>1. At(Len(stack) - 1, d) /\ Backs(Len(stack) - 1, d)
    BY <1>1, <1>2, ThisAt, FolderReturns
  <2>2. Len(stack) \in Nat /\ Len(stack) # 0
    BY <1>2, LevelsAre
  <2> QED BY <1>4, <2>1, <2>2 DEF At
<1>6. /\ d \in Nodes /\ d \in Folders /\ d \in Subtree(d) /\ Children(d) \subseteq Subtree(d)
      /\ Flag = This.flag /\ This = stack[Len(stack)] /\ d = stack[Len(stack)].node
      /\ Len(stack) \in 1 .. Len(stack)
  <2>1. /\ Flag = This.flag /\ This = stack[Len(stack)] /\ d = stack[Len(stack)].node
        /\ Len(stack) \in 1 .. Len(stack)
    BY <1>1, <1>2, FlagIs
  <2>2. d \in Nodes /\ d \in Folders
    BY <2>1, LevelsAre
  <2> QED BY <2>1, <2>2, SubtreeIs, ChildrenWithin
<1>7. /\ dst' \in [Places -> [Nodes -> Copies]]
      /\ \A q \in Places, m \in Nodes : q # "psu" \/ m # d => dst'[q][m] = dst[q][m]
      /\ Flag = "psuBackup" /\ counted => dst'["psu"][d] = "whole"
      /\ ~ (Flag = "psuBackup" /\ counted) => dst'["psu"][d] = dst["psu"][d]
  <2>1. CASE Flag = "psuBackup" /\ counted
    <3>1. dst' = Put("psu", {d}, "whole") /\ {d} \in SUBSET Nodes
      BY <1>3, <1>6, <2>1
    <3>2. "psu" \in Places /\ "whole" \in Copies
      BY DEF Places, Copies
    <3>3. /\ dst' \in [Places -> [Nodes -> Copies]]
          /\ \A m \in {d} : dst'["psu"][m] = "whole"
          /\ \A q \in Places, m \in Nodes : q # "psu" \/ m \notin {d} => dst'[q][m] = dst[q][m]
      BY <3>1, <3>2, PutIs
    <3> QED BY <2>1, <3>3
  <2>2. CASE ~ (Flag = "psuBackup" /\ counted)
    <3>1. dst' = dst
      BY <1>3, <2>2
    <3> QED BY <2>2, <3>1, DataIs
  <2> QED BY <2>1, <2>2
<1>8. \A m \in Nodes : dst'["dir"][m] = dst["dir"][m]
  BY <1>7 DEF Places
<1>9. mishaps \subseteq mishaps' /\ mishaps' \subseteq Mishaps /\ (Fails \/ counted)
  BY <1>3, OpenIs DEF Mishaps, Fails
<1>10. given \subseteq Children(d) \cap src \cap Files /\ (\A n \in given : dst["dir"][n] # "none")
  BY <1>1, <1>3
<1>11. /\ \A n \in attr' : n \in attr \/ n \in given
       /\ attr \ Subtree(d) \subseteq attr'
  BY <1>3, <1>6
<1>12. Change(d)
  <2>1. \A p \in Places, m \in Nodes \ Subtree(d) : dst'[p][m] = dst[p][m]
    BY <1>6, <1>7
  <2> QED BY <1>2, <1>9, <1>11, <2>1 DEF Change
<1>13. DataOK'
  <2>1. There' = There
    BY <1>8 DEF There
  <2>2. \A n \in attr' : n \in Files /\ Parent[n] \in There'
    <3>1. ASSUME NEW n \in given PROVE n \in Files /\ Parent[n] \in There
      <4>1. n \in Files /\ n \in Nodes /\ Parent[n] = d /\ n \in There
        BY <1>10, <3>1 DEF Children, There
      <4>2. Parent[n] # Top
        BY <1>6, <4>1, TreeIs
      <4> QED BY <4>1, <4>2, DataIs DEF Grounded
    <3> QED BY <1>11, <2>1, <3>1, DataIs
  <2>3. Grounded(There')
    BY <2>1, DataIs DEF Grounded
  <2>4. open' \subseteq {"attr", "psu", "in", "out"} \X Nodes
    BY <1>2, OpenIs
  <2> QED BY <1>2, <1>7, <1>9, <2>2, <2>3, <2>4, DataStep
<1>14. CutKeeps'
  <2>1. ASSUME NEW n \in moved \cap Files
        PROVE  (InDir(n) => InDir(n)') /\ (InPsu(n) => InPsu(n)')
    <3>1. n \in Nodes /\ n # d /\ (Parent[n] # Top => Parent[n] \in Nodes)
      BY <1>6, <2>1, TreeIs DEF Files
    <3>2. dst'["psu"][n] = dst["psu"][n]
      BY <1>7, <3>1 DEF Places
    <3>3. \A m \in Nodes : dst["psu"][m] = "whole" => dst'["psu"][m] = "whole"
      BY <1>7 DEF Places
    <3> QED BY <1>8, <3>1, <3>2, <3>3 DEF InDir, InPsu
  <2> QED BY <1>2, <1>9, <2>1, CutStays
<1>15. OpenSound'
  <2>1. ASSUME NEW i \in 1 .. Len(stack), Holds(i) \in open' PROVE i \in 1 .. k
    <3>1. i # Len(stack)
      BY <1>2, <1>6, <2>1 DEF Holds
    <3> QED BY <1>5, <2>1, <3>1
  <2>2. open' \subseteq open
    BY <1>2
  <2> QED BY <1>5, <1>9, <2>1, <2>2, BackOpen
<1>16. CASE Fails
  <2>1. PsuSound'
    BY <1>16 DEF PsuSound, Unless, Fails
  <2> QED BY <1>5, <1>12, <1>13, <1>14, <1>15, <1>16, <2>1, BackSound
<1>17. CASE ~ Fails
  <2>1. ~ Unless({"unlisted", "garbled"}) /\ counted
    BY <1>9, <1>17 DEF Fails, Unless
  <2>2. \A x \in Subtree(d) \cap src \cap Files :
           /\ x \in Nodes /\ x # d
           /\ IF paste.mode = "psuBackup" THEN Parent[x] = d /\ dst["psu"][x] = "whole"
              ELSE InDir(x) /\ (Kept(x) \/ (Parent[x] = d /\ Flag = "mcRestore"))
    BY <1>1, <1>2, <1>6, <2>1, LeaveArrives DEF Files
  <2>3. CASE paste.mode = "psuBackup"
    <3>1. Flag = "psuBackup" /\ k = 0
      <4>1. Flag = "psuBackup"
        BY <1>2, <2>3, FlagIs
      <4>2. Len(stack) = 1
        BY <1>6, <4>1, LevelsAre DEF IInv, FlagsSound
      <4>3. k \in Nat /\ k + 1 = 1
        BY <1>5, <4>2
      <4> QED BY <4>1, <4>3
    <3>2. dst'["psu"][d] = "whole" /\ \A x \in Nodes : x # d => dst'["psu"][x] = dst["psu"][x]
      BY <1>7, <2>1, <3>1 DEF Places
    <3>3. Delivered(d)
      <4>1. d # Top
        BY <1>6, TreeIs
      <4> QED BY <2>2, <2>3, <3>2, <4>1 DEF Delivered
    <3>4. PsuSound'
      <4>1. ASSUME NEW e \in Packable, dst'["psu"][e] = "whole", NEW x \in Subtree(e) \cap src \cap Files
            PROVE  Parent[x] = e /\ dst'["psu"][x] = "whole"
        <5>1. e \in Nodes /\ x \in Nodes /\ x # d
          BY <1>6, <4>1, TreeIs DEF Packable, Files
        <5>2. CASE e = d
          BY <2>2, <2>3, <3>2, <4>1, <5>1, <5>2
        <5>3. CASE e # d
          <6>1. dst["psu"][e] = "whole" /\ dst'["psu"][x] = dst["psu"][x]
            BY <3>2, <4>1, <5>1, <5>3
          <6> QED BY <2>1, <4>1, <6>1 DEF IInv, PsuSound
        <5> QED BY <5>2, <5>3
      <4> QED BY <1>2, <4>1 DEF PsuSound
    <3> QED BY <1>5, <1>12, <1>13, <1>14, <1>15, <3>1, <3>3, <3>4, BackSound
  <2>4. CASE paste.mode # "psuBackup"
    <3>1. Flag # "psuBackup"
      BY <2>4, FlagIs
    <3>2. PsuSound'
      <4>1. \A m \in Nodes : dst'["psu"][m] = dst["psu"][m]
        BY <1>7, <3>1 DEF Places
      <4> QED BY <1>2, <1>9, <4>1, PsuStays
    <3>3. ASSUME NEW x \in Subtree(d) \cap src \cap Files
          PROVE  dst'["dir"][x] = "whole" /\ Keeps(x)
      <4>1. x \in Nodes /\ dst'["dir"][x] = "whole" /\ dst["dir"][x] = "whole"
        BY <1>8, <2>2, <2>4, <3>3 DEF InDir
      <4>2. CASE Parent[x] = d /\ Flag = "mcRestore"
        <5>1. x \in copied
          BY <1>1, <3>3, <4>1, <4>2 DEF Children
        <5>2. x \in attr' \/ mishaps' \cap {"unattributed"} # {}
          BY <1>3, <4>2, <5>1
        <5> QED BY <4>1, <5>2 DEF Keeps
      <4>3. CASE ~ (Parent[x] = d /\ Flag = "mcRestore")
        <5>1. Kept(x)
          BY <2>2, <2>4, <3>3, <4>3
        <5>2. x \in attr => x \in attr'
          BY <1>3, <4>3 DEF Children
        <5> QED BY <1>9, <4>1, <5>1, <5>2 DEF Kept, Keeps, Unless
      <4> QED BY <4>1, <4>2, <4>3
    <3>4. Delivered(d) /\ \A flag : Arrives(d, flag)
      BY <2>4, <3>3 DEF Delivered, Arrives
    <3> QED BY <1>5, <1>12, <1>13, <1>14, <1>15, <3>2, <3>4, BackSound
  <2> QED BY <2>3, <2>4
<1> QED BY <1>16, <1>17

-----------------------------------------------------------------------------
(***************************************************************************)
(* The steps between two copies.                                           *)
(***************************************************************************)
LEMMA NotCopying ==
    ASSUME IInv, ~ Active \/ paste.phase = "delete"
    PROVE  stack = <<>> /\ Held = {}
BY LevelsAre DEF IInv, StackSound, Held

\* Levels of copy() there are none.
LEMMA Outside ==
    ASSUME IInv, stack' = <<>>, event' = Nothing, clip' \in [items : SUBSET Listing, cut : BOOLEAN],
           paste' \in [mode : PasteModes \cup {"none"}, next : Nat, phase : {"copy", "delete"}],
           paste'.mode # "none" => paste'.next \in DOMAIN Items /\ Items[paste'.next] \in clip'.items
    PROVE  LevelsSound'
<1>1. event'.done = Top /\ Top \in Nodes \cup {Top}
  BY DEF Nothing
<1>2. ContentsCopied'
  BY <1>1 DEF ContentsCopied
<1>3. ControlOK'
  BY <1>1, NoLevels DEF ControlOK, Active, Item
<1> QED BY <1>2, <1>3, NoLevels DEF LevelsSound

LEMMA SelectSound ==
    ASSUME IInv, NEW cut \in BOOLEAN, Select(cut)
    PROVE  IInv'
<1>1. /\ ~ Active /\ event' = Nothing
      /\ clip' = [items |-> {Items[i] : i \in DOMAIN Items} \cap src, cut |-> cut]
      /\ UNCHANGED <<source, src, dst, attr, paste, stack, open, moved, mishaps>>
  BY DEF Select
<1>2. stack' = <<>> /\ Held' = {} /\ Held = {}
  BY <1>1, NotCopying DEF Held
<1>3. LevelsSound'
  <2>1. clip' \in [items : SUBSET Listing, cut : BOOLEAN]
    BY <1>1 DEF Listing
  <2> QED BY <1>1, <1>2, <2>1, PasteTypes, Outside DEF Active
<1>4. DataOK' /\ PsuSound' /\ CutKeeps'
  BY <1>1, OpenIs, SameStep
<1>5. OpenSound'
  BY <1>1, <1>2 DEF IInv, OpenSound, Unless
<1>6. MovedSound'
  BY <1>1 DEF IInv, MovedSound
<1> QED BY <1>3, <1>4, <1>5, <1>6, Together

LEMMA PasteSound ==
    ASSUME IInv, NEW mode \in PasteModes, Paste(mode)
    PROVE  IInv'
<1>1. /\ ~ Active /\ event' = Nothing /\ clip.items # {}
      /\ paste' = [mode |-> mode, next |-> Least(After(0)), phase |-> "copy"]
      /\ UNCHANGED <<source, src, dst, attr, clip, stack, open, moved, mishaps>>
  BY DEF Paste
<1>2. stack' = <<>> /\ Held' = {} /\ Held = {}
  BY <1>1, NotCopying DEF Held
<1>3. After(0) # {}
  <2>1. PICK n \in clip.items : n \in Listing
    BY <1>1, PasteTypes
  <2>2. PICK i \in DOMAIN Items : Items[i] = n
    BY <2>1 DEF Listing
  <2>3. i > 0
    BY PasteAssumption
  <2> QED BY <2>1, <2>2, <2>3 DEF After
<1>4. PICK j : j = Least(After(0))
  OBVIOUS
<1>5. j \in DOMAIN Items /\ j \in Nat /\ Items[j] \in clip.items
  BY <1>3, <1>4, AfterIn
<1>6. LevelsSound'
  <2>1. paste' = [mode |-> mode, next |-> j, phase |-> "copy"]
    BY <1>1, <1>4
  <2>2. /\ paste' \in [mode : PasteModes \cup {"none"}, next : Nat, phase : {"copy", "delete"}]
        /\ paste'.next \in DOMAIN Items /\ Items[paste'.next] \in clip'.items
    BY <1>1, <1>5, <2>1
  <2> QED BY <1>1, <1>2, <2>2, PasteTypes, Outside
<1>7. DataOK' /\ PsuSound' /\ CutKeeps'
  BY <1>1, OpenIs, SameStep
<1>8. OpenSound'
  BY <1>1, <1>2 DEF IInv, OpenSound, Unless
<1>9. MovedSound'
  BY <1>1 DEF IInv, MovedSound
<1> QED BY <1>6, <1>7, <1>8, <1>9, Together

\* The step that can lose files: what it deletes has been copied by the step before.
LEMMA DeleteSound ==
    ASSUME IInv, Delete
    PROVE  IInv'
<1>1. /\ Active /\ paste.phase = "delete" /\ event' = Nothing
      /\ UNCHANGED <<source, dst, attr, stack, open, mishaps>>
  BY DEF Delete
<1>2. PICK gone \in SUBSET (Subtree(Item) \cap src) :
          /\ \A n \in gone : Children(n) \cap src \subseteq gone
          /\ src' = src \ gone
          /\ moved' = moved \cup gone
          /\ \/ /\ paste' = Onward
                /\ clip' = IF Onward = Idle THEN [clip EXCEPT !.items = {}] ELSE clip
             \/ /\ paste' = Idle
                /\ UNCHANGED clip
  BY DEF Delete
<1>3. stack' = <<>> /\ stack = <<>> /\ Held' = {} /\ Held = {}
  BY <1>1, NotCopying DEF Held
<1>4. event = [done |-> Item, mode |-> paste.mode] /\ Item \in Nodes
  BY <1>1, ItemIs DEF IInv, MovedSound
<1>5. LevelsSound'
  <2>1. CASE paste' = Idle /\ clip' = clip
    BY <1>1, <1>3, <2>1, PasteTypes, Outside
  <2>2. CASE /\ paste' = Onward
             /\ clip' = IF Onward = Idle THEN [clip EXCEPT !.items = {}] ELSE clip
    <3>1. clip' \in [items : SUBSET Listing, cut : BOOLEAN]
      BY <2>2, PasteTypes
    <3>2. paste'.mode # "none" => paste'.next \in DOMAIN Items /\ Items[paste'.next] \in clip'.items
      BY <2>2, OnwardIs
    <3> QED BY <1>1, <1>3, <2>2, <3>1, <3>2, OnwardIs, Outside
  <2> QED BY <1>2, <2>1, <2>2
<1>6. DataOK'
  <2>1. src' \subseteq Nodes /\ moved' \subseteq Nodes
    BY <1>2, DataIs DEF IInv, TypeOK
  <2>2. ASSUME NEW n \in src' PROVE Parent[n] \in src' \cup {Top}
    <3>1. n \in src /\ n \notin gone /\ n \in Nodes
      BY <1>2, <2>2, DataIs
    <3>2. Parent[n] \in src \cup {Top}
      BY <3>1, DataIs DEF Grounded
    <3>3. Parent[n] \notin gone
      BY <1>2, <3>1 DEF Children
    <3> QED BY <1>2, <3>2, <3>3
  <2> QED BY <1>1, <2>1, <2>2 DEF IInv, TypeOK, DataOK, Grounded
<1>7. PsuSound'
  BY <1>1, <1>2, PsuStays
<1>8. CutKeeps'
  <2>1. CASE Unless({"unlisted", "garbled", "skipped", "again"})
    BY <1>1, <2>1 DEF CutKeeps, Unless
  <2>2. CASE ~ Unless({"unlisted", "garbled", "skipped", "again"})
    <3>1. ~ Unless({"unlisted", "garbled", "skipped"})
      BY <2>2 DEF Unless
    <3>2. event.done = Item /\ event.mode = paste.mode /\ Item # Top
      BY <1>4, TreeIs
    <3>3. \A n \in gone \cap Files : InDir(n) \/ InPsu(n)
      BY <3>1, <3>2 DEF IInv, ContentsCopied
    <3>4. \A n \in moved \cap Files : InDir(n) \/ InPsu(n)
      BY <2>2 DEF IInv, CutKeeps
    <3>5. \A n \in moved' \cap Files : InDir(n) \/ InPsu(n)
      BY <1>2, <3>3, <3>4
    <3> QED BY <1>1, <3>5 DEF CutKeeps, InDir, InPsu
  <2> QED BY <2>1, <2>2
<1>9. OpenSound'
  BY <1>1, <1>3 DEF IInv, OpenSound, Unless
<1>10. MovedSound'
  <2>1. paste'.phase = "copy"
    BY <1>2, PasteTypes, OnwardIs
  <2>2. src' \cap moved' = {}
    BY <1>2 DEF IInv, MovedSound
  <2> QED BY <2>1, <2>2 DEF MovedSound
<1> QED BY <1>5, <1>6, <1>7, <1>8, <1>9, <1>10, Together

LEMMA PowerOffSound ==
    ASSUME IInv, PowerOff
    PROVE  IInv'
<1>1. /\ clip' = [items |-> {}, cut |-> FALSE] /\ paste' = Idle /\ stack' = <<>> /\ open' = {}
      /\ event' = Nothing /\ mishaps' = mishaps \cup {"off"} /\ UNCHANGED <<source, src, attr, moved>>
  BY DEF PowerOff
<1>2. mishaps \subseteq mishaps' /\ mishaps' \subseteq Mishaps
  BY <1>1, OpenIs DEF Mishaps
<1>3. open' \subseteq {"attr", "psu", "in", "out"} \X Nodes
  BY <1>1
<1>4. LevelsSound'
  <2>1. clip' \in [items : SUBSET Listing, cut : BOOLEAN]
    BY <1>1
  <2> QED BY <1>1, <2>1, EndsSound
<1>5. OpenSound'
  BY <1>1 DEF OpenSound
<1>6. MovedSound'
  BY <1>1, PasteTypes, MovedStays
<1>7. CASE dst' = dst
  BY <1>1, <1>2, <1>3, <1>4, <1>5, <1>6, <1>7, SameStep, Together
<1>8. ASSUME NEW n \in Files \cap src, NEW c \in {"none", "part"}, Pending(n),
             dst' = Put(IF Flag = "psuBackup" THEN "psu" ELSE "dir", {n}, c)
      PROVE  IInv'
  <2>1. PICK p \in Places : p = IF Flag = "psuBackup" THEN "psu" ELSE "dir"
    BY DEF Places
  <2>2. dst' = Put(p, {n}, c) /\ (p = "psu" <=> Flag = "psuBackup") /\ c \in Copies
    BY <1>8, <2>1 DEF Copies
  <2>3. At(Len(stack), n)
    BY <1>8, PendingAt DEF Files
  <2>4. DataOK' /\ PsuSound' /\ CutKeeps'
    BY <1>1, <1>2, <1>3, <2>2, <2>3, FileStep
  <2> QED BY <1>4, <1>5, <1>6, <2>4, Together
<1> QED BY <1>7, <1>8 DEF PowerOff

LEMMA StayingSound ==
    ASSUME IInv, UNCHANGED vars
    PROVE  IInv'
<1>1. /\ UNCHANGED <<source, src, dst, attr, clip, paste, stack, open, event, moved, mishaps>>
  BY DEF vars
<1>2. TypeOK'
  BY <1>1 DEF IInv, TypeOK, Active, Item, Grounded, Children
<1>3. StackSound' /\ FoldersMade' /\ MovedSound'
  BY <1>1 DEF IInv, StackSound, FoldersMade, MovedSound, Active, Item
<1>4. FlagsSound'
  BY <1>1 DEF IInv, FlagsSound, Unpacks, Packed, Item, Unless
<1>5. OpenSound'
  BY <1>1 DEF IInv, OpenSound, Held, Unless
<1>6. PsuSound' /\ CutKeeps'
  BY <1>1 DEF IInv, PsuSound, CutKeeps, InDir, InPsu, Unless
<1>7. CopiedSoFar'
  <2>1. \A n : Kept(n)' <=> Kept(n)
    BY <1>1 DEF Kept, Unless, Unpacks, Packed, Item
  <2>2. \A m, flag : Arrived(m, flag)' <=> Arrived(m, flag)
    BY <1>1, <2>1 DEF Arrived, InDir
  <2> QED BY <1>1, <2>2 DEF IInv, CopiedSoFar, Unless
<1>8. ContentsCopied'
  BY <1>1 DEF IInv, ContentsCopied, InDir, InPsu, Unless, Packed
<1> QED BY <1>2, <1>3, <1>4, <1>5, <1>6, <1>7, <1>8 DEF IInv

-----------------------------------------------------------------------------
(***************************************************************************)
(* All steps, and the theorems.                                            *)
(***************************************************************************)
LEMMA InitSound ==
    ASSUME Init
    PROVE  IInv
<1>1. /\ source \in [card : BOOLEAN, packed : [Packable -> {"no", "counted", "short"}]]
      /\ src \subseteq Nodes /\ Grounded(src)
      /\ dst \in [Places -> [Nodes -> Copies]]
      /\ \A n \in Nodes : dst["psu"][n] = "none" /\ dst["dir"][n] \in {"none", "old"}
      /\ Grounded({n \in Nodes : dst["dir"][n] = "old"})
      /\ attr = {} /\ clip = [items |-> {}, cut |-> FALSE] /\ paste = Idle /\ stack = <<>>
      /\ open = {} /\ event = Nothing /\ moved = {} /\ mishaps = {}
  BY DEF Init
<1>2. ~ Active /\ event.done = Top /\ paste.phase = "copy"
  BY <1>1 DEF Active, Idle, Nothing
<1>3. DOMAIN stack = {} /\ stack \in Seq(Frame)
  BY <1>1, LenProperties, EmptySeq
<1>4. Grounded({n \in Nodes : dst["dir"][n] # "none"})
  <2>1. {n \in Nodes : dst["dir"][n] # "none"} = {n \in Nodes : dst["dir"][n] = "old"}
    BY <1>1
  <2> QED BY <1>1, <2>1
<1>5. TypeOK
  <2>1. paste \in [mode : PasteModes \cup {"none"}, next : Nat, phase : {"copy", "delete"}]
    BY <1>1 DEF Idle
  <2> QED BY <1>1, <1>2, <1>3, <1>4, <2>1 DEF TypeOK
<1>6. StackSound /\ FlagsSound /\ FoldersMade /\ CopiedSoFar
  BY <1>1, <1>3 DEF StackSound, FlagsSound, FoldersMade, CopiedSoFar
<1>7. OpenSound /\ MovedSound /\ CutKeeps /\ ContentsCopied
  BY <1>1, <1>2 DEF OpenSound, MovedSound, CutKeeps, ContentsCopied
<1>8. PsuSound
  <2>1. \A d \in Packable : dst["psu"][d] # "whole"
    BY <1>1, TreeIs DEF Packable
  <2> QED BY <2>1 DEF PsuSound
<1> QED BY <1>5, <1>6, <1>7, <1>8 DEF IInv

LEMMA StepSound ==
    ASSUME IInv, [Next]_vars
    PROVE  IInv'
<1>1. ASSUME NEW cut \in BOOLEAN, Select(cut) PROVE IInv'
  BY <1>1, SelectSound
<1>2. ASSUME NEW mode \in PasteModes, Paste(mode) PROVE IInv'
  BY <1>2, PasteSound
<1>3. ASSUME NEW n \in Nodes, CopyFile(n) PROVE IInv'
  <2>1. CASE CopyNoSource(n)
    BY <2>1, AbortedAlone DEF CopyNoSource
  <2>2. CASE CopyNoDest(n)
    BY <2>2, CopyNoDestSound
  <2>3. CASE CopyShort(n)
    BY <2>3, CopyShortSound
  <2>4. CASE CopyWhole(n)
    BY <2>4, CopyWholeSound
  <2>5. CASE CopyGarbled(n)
    BY <2>5, CopyGarbledSound
  <2> QED BY <1>3, <2>1, <2>2, <2>3, <2>4, <2>5 DEF CopyFile
<1>4. ASSUME NEW d \in Nodes, CopyFolder(d) PROVE IInv'
  <2>1. CASE EnterFails(d)
    BY <2>1, EnterFailsSound
  <2>2. CASE ClearFails(d)
    BY <2>2, ClearFailsSound
  <2>3. CASE SkipPsu(d)
    BY <2>3, SkipPsuSound
  <2>4. CASE PsuFails(d)
    BY <2>4, PsuFailsSound
  <2>5. ASSUME NEW listed \in Listings(d), NEW attributes \in {"none", "used", "short", "unmade"},
               EnterDir(d, listed, attributes)
        PROVE  IInv'
    BY <2>5, EnterDirSound
  <2>6. ASSUME NEW listed \in Listings(d), NEW titled \in BOOLEAN, EnterPsu(d, listed, titled)
        PROVE  IInv'
    BY <2>6, EnterPsuSound
  <2>7. CASE EnterPsuFile(d)
    BY <2>7, EnterPsuFileSound
  <2> QED BY <1>4, <2>1, <2>2, <2>3, <2>4, <2>5, <2>6, <2>7 DEF CopyFolder
<1>5. CASE LeaveEmpty
  BY <1>5, AbortedAlone DEF LeaveEmpty
<1>6. CASE Leave
  BY <1>6, LeaveSound
<1>7. CASE Delete
  BY <1>7, DeleteSound
<1>8. CASE PowerOff
  BY <1>8, PowerOffSound
<1>9. CASE Over \/ UNCHANGED vars
  BY <1>9, StayingSound DEF Over
<1> QED BY <1>1, <1>2, <1>3, <1>4, <1>5, <1>6, <1>7, <1>8, <1>9 DEF Next

\* The inductive invariant holds in every state, whatever the tree, the list and the
\* failures: the levels of copy() lie in each other in folders that are there, what
\* they have finished is complete, and what was moved was complete before.
THEOREM PasteAlwaysSound == Spec => []IInv
<1>1. Init => IInv
  BY InitSound
<1>2. IInv /\ [Next]_vars => IInv'
  BY StepSound
<1> QED BY <1>1, <1>2, PTL DEF Spec

\* The source and the destination stay trees, and what is still to do at each level of
\* copy() is in the folder it is in.
THEOREM TypeCorrect == Spec => []TypeOK
<1>1. IInv => TypeOK
  BY DEF IInv
<1> QED BY <1>1, PasteAlwaysSound, PTL

\* Cutting loses nothing, whatever fails in whatever step: delete() only follows a
\* copy() that has copied all files of the item, and no later step undoes a copy of
\* what was moved but for the ways out that CutKeeps names.
THEOREM CutAlwaysKeeps == Spec => []CutKeeps
<1>1. IInv => CutKeeps
  BY DEF IInv
<1> QED BY <1>1, PasteAlwaysSound, PTL

\* A copy() that returns without error has copied every file below the item, at any
\* depth, and kept the attributes where mcPaste and the restores keep them.
THEOREM ContentsAlwaysCopied == Spec => []ContentsCopied
<1>1. IInv => ContentsCopied
  BY DEF IInv
<1> QED BY <1>1, PasteAlwaysSound, PTL

\* A paste that has ended has closed what its levels had opened, but for the failures
\* that NothingLeftOpen names.
THEOREM NothingStaysOpen == Spec => []NothingLeftOpen
<1>1. IInv => NothingLeftOpen
  <2> SUFFICES ASSUME IInv, ~ Active PROVE NothingLeftOpen
    BY DEF NothingLeftOpen
  <2>1. Held = {}
    BY NotCopying
  <2> QED BY <2>1 DEF IInv, OpenSound, NothingLeftOpen
<1> QED BY <1>1, PasteAlwaysSound, PTL
=============================================================================
