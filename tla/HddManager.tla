----------------------------- MODULE HddManager -----------------------------
(***************************************************************************)
(* The HDD manager (hdd.c) and the HDLoader headers it reads and writes    *)
(* (hdl_info): the list of partitions it keeps in PartyInfo, and the disk  *)
(* that creating, removing, renaming and formatting change.  The list is   *)
(* read anew only after Create and Format; Remove, Rename and the renaming *)
(* of a game patch it.                                                     *)
(*                                                                         *)
(* A name or a title is a sequence: what the user typed, then the numbers  *)
(* put behind it.  A partition stands for its main and its sub-partitions, *)
(* and has one size.  The HDD driver refuses a name in use.                *)
(***************************************************************************)
EXTENDS Integers, Sequences, FiniteSets, SequencesExt

CONSTANTS
  MaxPartitions, \* MAX_PARTITIONS, 1400 in the code
  NameLimit,     \* MAX_PART_NAME: renaming refuses names this long
  HddSize,       \* of the disk
  MaxSize,       \* of a new partition, MAX_PARTMB in the code
  Typed,         \* the names and titles the user may enter
  Setups         \* the disks to start with: a sequence of partitions, or
                 \* the empty one if it is not formatted, and the bounds

NoTitle == <<>>
NoName == <<>>
SystemName == <<"__">>           \* any name that starts with two underscores
Slots == 0 .. MaxPartitions - 1
Kinds == {"mbr",     \* __mbr
          "pfs",     \* opens and mounts
          "broken",  \* PFS that opens and does not mount
          "locked",  \* PFS that does not open
          "hdl",     \* a game of HDLoader
          "other"}

\* The sizes of partitions d together.
Sizes(d) ==
  LET upTo[i \in 0 .. Len(d)] == IF i = 0 THEN 0 ELSE upTo[i - 1] + d[i].size
  IN upTo[Len(d)]

\* What the driver keeps true of a disk: names are not shared, __mbr is first,
\* and the partitions have a size and fit.
IsSeq(s) == Len(s) \in Nat /\ s = [i \in 1 .. Len(s) |-> s[i]]
IsPart(p) ==
  /\ p \in [name : {p.name}, kind : Kinds, size : 1 .. HddSize, title : {p.title}]
  /\ p.name # NoName
SoundDisk(d) ==
  /\ IsSeq(d) /\ \A i \in 1 .. Len(d) : IsPart(d[i])
  /\ d # <<>> => d[1].kind = "mbr"
  /\ \A i, j \in 1 .. Len(d) : d[i].name = d[j].name => i = j
  /\ Sizes(d) <= HddSize

ASSUME HddAssumption ==
  /\ MaxPartitions \in Nat \ {0} /\ NameLimit \in Nat \ {0} /\ MaxSize \in Nat
  /\ HddSize \in Nat /\ HddSize >= 2        \* what formatting makes fits
  /\ \A t \in Typed : IsSeq(t) /\ Len(t) \in 1 .. NameLimit - 1
  /\ \A s \in Setups : SoundDisk(s.disk)

VARIABLES
  disk,        \* the partitions, in the order the driver lists them
  party,       \* PartyInfo
  numParty,
  hddUsed,
  hddFormated,
  sel,         \* browser_sel
  mode,        \* "out", "list", "menu", or "lost" once memory is freed twice
  mounted,     \* what pfs0: and pfs1: hold
  games,       \* the list of HDL games: "null", "live", or "freed" and kept
  mishaps,     \* history: causes the properties name
  left         \* bounds: how often each operation and fault may still happen

list == <<party, numParty, hddUsed, hddFormated>>
vars == <<disk, list, sel, mode, mounted, games, mishaps, left>>

-----------------------------------------------------------------------------
(* The list *)

Mbr == [name |-> <<"__", "mbr">>, kind |-> "mbr", size |-> 1, title |-> NoTitle]
Blank == [name |-> NoName, treat |-> "pfs", total |-> 0, title |-> NoTitle, count |-> 0]

TreatOf(kind) ==
  CASE kind = "mbr" -> "system"
    [] kind = "hdl" -> "raw"
    [] kind = "pfs" -> "pfs"
    [] OTHER        -> "noaccess"

\* TotalSize is asked of partitions that open as PFS, and is 0 for the rest.
EntryOf(p, i) ==
  [name |-> p.name, treat |-> TreatOf(p.kind), title |-> NoTitle, count |-> i,
   total |-> IF p.kind \in {"pfs", "broken"} THEN p.size ELSE 0]

First(d, n) == SubSeq(d, 1, IF Len(d) < n THEN Len(d) ELSE n)
DiskNames == {disk[i].name : i \in DOMAIN disk}
At(name) == CHOOSE i \in DOMAIN disk : disk[i].name = name

\* Each partition that opens is mounted on pfs0: to ask for its free zones;
\* the last one stays.
LeftMounted(seen) ==
  LET opened == SelectSeq(seen, LAMBDA p : p.kind \in {"pfs", "broken"})
  IN IF opened = <<>> THEN mounted[0]
     ELSE IF Last(opened).kind = "pfs" THEN Last(opened).name ELSE NoName

\* External: the driver may refuse to open a partition that is mounted, or to
\* mount it once more.
Busy(d) == {i \in DOMAIN d : d[i].kind = "pfs" /\ d[i].name \in {mounted[0], mounted[1]}}
Refusals(d) == [Busy(d) -> {"pfs", "broken", "locked"}]
Answering(d, as) ==
  [i \in DOMAIN d |-> IF i \in Busy(d) THEN [d[i] EXCEPT !.kind = as[i]] ELSE d[i]]

\* The reading of the list, with the driver's answers as to the partitions that
\* are mounted; entries past its end keep what they held.  What is used counts
\* the entry that was one too many.
GetHddInfo(d, opens) ==
  \E as \in Refusals(d) :
  LET seen == IF opens THEN First(Answering(d, as), MaxPartitions) ELSE <<>>
  IN /\ hddFormated' = (d # <<>>)
     /\ numParty' = Len(seen)
     /\ party' = [i \in Slots |-> IF i < Len(seen) THEN EntryOf(seen[i + 1], i) ELSE party[i]]
     /\ hddUsed' = IF opens THEN Sizes(First(d, MaxPartitions + 1)) ELSE 0
     /\ mounted' = [mounted EXCEPT ![0] = LeftMounted(seen)]
     /\ mishaps' = mishaps \cup (IF opens THEN {} ELSE {"unlisted"})
                           \cup (IF Len(d) > MaxPartitions THEN {"overflow"} ELSE {})
                           \cup (IF \E i \in Busy(d) : as[i] # "pfs" THEN {"busy"} ELSE {})

\* hddManager's display section, after every command.  A slip: the list that
\* has become empty.
ClampedHigh(s, n) == IF s >= n THEN n - 1 ELSE s
Clamped(s, n) ==
  LET low == IF s >= n THEN n - 1 ELSE s IN IF low < 0 THEN 0 ELSE low

Info == party[sel]

\* RemoveParty closes the gap.  A slip: the entries keep their numbers.
ShiftedSame(from) ==
  [i \in Slots |-> IF i < from \/ i > numParty - 1 THEN party[i]
                   ELSE IF i = numParty - 1 THEN Blank ELSE party[i + 1]]
Shifted(from) ==
  [i \in Slots |-> IF i < from \/ i > numParty - 1 THEN party[i]
                   ELSE IF i = numParty - 1 THEN Blank
                   ELSE [party[i + 1] EXCEPT !.count = @ - 1]]

\* One pass over the names appends one number after another to what was typed.
Unique(typed, names) ==
  LET try[i \in 0 .. Len(names)] ==
        IF i = 0 THEN [name |-> typed, num |-> 1]
        ELSE IF names[i] = try[i - 1].name
             THEN [name |-> Append(typed, try[i - 1].num), num |-> try[i - 1].num + 1]
             ELSE try[i - 1]
  IN try[Len(names)].name

\* sizeSelector steps by 128 MB, 1 GB and 10 GB up to MAX_PARTMB.
SizeSelector == 1 .. MaxSize

Names(n) == [i \in 1 .. n |-> party[i - 1].name]
Titles == [i \in 1 .. MaxPartitions |-> party[i - 1].title]

-----------------------------------------------------------------------------
Bounded == {"create", "remove", "rename", "format", "game", "mounts", "faults"}
Spends(kind) == left[kind] > 0 /\ left' = [left EXCEPT ![kind] = @ - 1]
\* A call of the driver that may fail: with a fault, or for a reason.
MayFail == Spends("faults")
Works == UNCHANGED left
Opens == {TRUE} \cup (IF left.faults > 0 THEN {FALSE} ELSE {})
\* No two games of a disk have one title.
DistinctTitles(d) ==
  \A i, j \in DOMAIN d :
    (d[i].kind = "hdl" /\ d[j].kind = "hdl" /\ d[i].title = d[j].title) => i = j
NoMounts == [unit \in {0, 1} |-> NoName]

Init ==
  /\ \E s \in Setups :
       /\ disk = s.disk
       /\ left = [k \in Bounded |-> IF k \in DOMAIN s.left THEN s.left[k] ELSE 0]
  /\ party = [i \in Slots |-> Blank] /\ numParty = 0 /\ hddUsed = 0
  /\ hddFormated = FALSE /\ sel = 0 /\ mode = "out"
  /\ mounted = NoMounts /\ games = "null"
  /\ mishaps = IF DistinctTitles(disk) THEN {} ELSE {"twins"}

\* The file browser, before the manager is entered.
BrowserMounts ==
  /\ mode = "out" /\ Spends("mounts")
  /\ \E i \in DOMAIN disk, unit \in {0, 1} :
       /\ disk[i].kind = "pfs"
       /\ mounted[1 - unit] # disk[i].name
       /\ mounted' = [mounted EXCEPT ![unit] = disk[i].name]
  /\ UNCHANGED <<disk, list, sel, mode, games, mishaps>>

Enter ==
  /\ mode = "out"
  /\ \/ Works /\ GetHddInfo(disk, TRUE)
     \/ MayFail /\ disk # <<>> /\ GetHddInfo(disk, FALSE)
  /\ mode' = "list" /\ sel' = 0
  /\ UNCHANGED <<disk, games>>

Leave ==
  /\ mode = "list" /\ Works
  /\ mode' = "out" /\ mounted' = NoMounts
  /\ UNCHANGED <<disk, list, sel, games, mishaps>>

Move ==
  /\ mode = "list" /\ Works
  /\ \E step \in {1, 0 - 1} : sel' = Clamped(sel + step, numParty)
  /\ UNCHANGED <<disk, list, mode, mounted, games, mishaps>>

\* R1: MenuParty unmounts whatever is mounted.  A slip: the primary only.
MenuPartyFirst ==
  /\ mode = "list" /\ Works
  /\ mode' = "menu" /\ mounted' = [mounted EXCEPT ![0] = NoName]
  /\ UNCHANGED <<disk, list, sel, games, mishaps>>
MenuParty ==
  /\ mode = "list" /\ Works
  /\ mode' = "menu" /\ mounted' = NoMounts
  /\ UNCHANGED <<disk, list, sel, games, mishaps>>

\* The menu is left, or a dialog answered with no.
BackToList ==
  /\ mode = "menu" /\ Works
  /\ mode' = "list"
  /\ UNCHANGED <<disk, list, sel, mounted, games, mishaps>>

Chosen == mode = "menu" /\ mode' = "list"
MayRemove == Info.treat # "system" /\ First(Info.name, 1) # SystemName
MayRename == Info.treat # "system"

-----------------------------------------------------------------------------
(* Partitions *)

\* The name is compared with every entry, those past the end included.
Creates(typed) == Unique(typed, Names(MaxPartitions))

CreateParty(typed, size) ==
  /\ Chosen /\ Spends("create")
  /\ UNCHANGED games
  /\ \/ /\ disk # <<>> /\ Creates(typed) \notin DiskNames
        /\ Sizes(disk) + size <= HddSize
        /\ \E i \in 2 .. Len(disk) + 1 :
             disk' = InsertAt(disk, i, [name |-> Creates(typed), kind |-> "pfs",
                                        size |-> size, title |-> NoTitle])
        /\ \E opens \in Opens : GetHddInfo(disk', opens)
        /\ sel' = Clamped(sel, numParty')
     \/ /\ \/ disk = <<>> \/ Creates(typed) \in DiskNames
           \/ Sizes(disk) + size > HddSize
        /\ UNCHANGED <<disk, list, sel, mounted, mishaps>>

RemoveParty ==
  /\ Chosen /\ MayRemove /\ Info.name \in DiskNames /\ Spends("remove")
  /\ disk' = RemoveAt(disk, At(Info.name))
  /\ hddUsed' = hddUsed - Info.total
  /\ numParty' = numParty - 1
  /\ party' = Shifted(Info.count)
  /\ sel' = Clamped(sel, numParty - 1)
  /\ mishaps' = mishaps \cup (IF Info.total = 0 THEN {"sizeless"} ELSE {})
  /\ UNCHANGED <<hddFormated, mounted, games>>

Renames(typed) == Unique(typed, Names(numParty))

RenameParty(typed) ==
  /\ Chosen /\ MayRename /\ Info.treat # "game" /\ typed # Info.name /\ Spends("rename")
  /\ UNCHANGED <<numParty, hddUsed, hddFormated, sel, mounted, games, mishaps>>
  /\ IF /\ Len(Renames(typed)) < NameLimit
        /\ Info.name \in DiskNames /\ Renames(typed) \notin DiskNames
     THEN /\ disk' = [disk EXCEPT ![At(Info.name)].name = Renames(typed)]
          /\ party' = [party EXCEPT ![Info.count].name = Renames(typed)]
     ELSE UNCHANGED <<disk, party>>

\* hddFormat makes __mbr and the system's partitions; it may fail before it
\* has begun, or leave the disk unformatted.
FormatHdd ==
  /\ Chosen /\ Spends("format")
  /\ \E made \in {<<Mbr, [name |-> SystemName, kind |-> "pfs", size |-> 1,
                          title |-> NoTitle]>>, disk, <<>>} :
       /\ disk' = made
       /\ \E opens \in Opens : GetHddInfo(made, opens)
       /\ sel' = Clamped(sel, numParty')
  /\ UNCHANGED games

\* The driver refuses to remove a partition, for want of a name or by a fault.
RemoveFails ==
  /\ Chosen /\ MayRemove
  /\ IF Info.name \in DiskNames THEN MayFail ELSE Spends("remove")
  /\ UNCHANGED <<disk, list, sel, mounted, games, mishaps>>

-----------------------------------------------------------------------------
(* Games *)

Games == SelectSeq(disk, LAMBDA p : p.kind = "hdl")
\* hdl_ginfo_read and hdl_ginfo_write: the title in the header of a game.
HeaderTitle(name) == disk[At(name)].title
Retitled(i, title) == [disk EXCEPT ![i].title = title]
Titled(title) == {i \in DOMAIN disk : disk[i].kind = "hdl" /\ disk[i].title = title}

\* hdl_glist_read at the start of both calls: read, or given up before any
\* header, or at a header, when the list is freed and the pointer is kept.
\* The next call frees it again.
GlistFails ==
  /\ games # "freed" /\ MayFail
  /\ games' \in {"null"} \cup (IF Games = <<>> THEN {} ELSE {"freed"})
GlistRead == games # "freed" /\ Works /\ games' = "live"

\* Square: HdlGetGameInfo, by the name of the partition.
LoadGame ==
  /\ mode = "list" /\ Info.treat = "raw"
  /\ \/ /\ GlistRead
        /\ party' = IF \E i \in DOMAIN disk : disk[i].kind = "hdl" /\ disk[i].name = Info.name
                    THEN [party EXCEPT ![sel].title = HeaderTitle(Info.name),
                                       ![sel].treat = "game"]
                    ELSE party
     \/ GlistFails /\ UNCHANGED party
  /\ UNCHANGED <<disk, numParty, hddUsed, hddFormated, sel, mode, mounted, mishaps>>

UnloadGame ==
  /\ mode = "list" /\ Info.treat = "game" /\ Works
  /\ party' = [party EXCEPT ![sel].treat = "raw"]
  /\ UNCHANGED <<disk, numParty, hddUsed, hddFormated, sel, mode, mounted, games, mishaps>>

\* A slip: the title is taken as it was typed.
RetitlesTyped(typed) == typed
Retitles(typed) == Unique(typed, Titles)

\* HdlRenameGame looks the game up by its old title, not by its partition.
\* Found or not, the list shows the new title.
RenameGame(typed) ==
  LET new == Retitles(typed)
      old == Titled(Info.title)
      k == CHOOSE i \in old : \A j \in old : i <= j
      Shown == party' = [party EXCEPT ![Info.count].title = new]
  IN /\ Chosen /\ Info.treat = "game" /\ typed # Info.title /\ Len(new) < NameLimit
     /\ UNCHANGED <<numParty, hddUsed, hddFormated, sel, mounted>>
     /\ Shown
     /\ \/ /\ games # "freed" /\ games' = "live" /\ old # {} /\ Spends("game")
           /\ disk' = Retitled(k, new)
           /\ mishaps' = mishaps \cup
                (IF Titled(new) # {} /\ new \notin Range(Titles) THEN {"unseen"} ELSE {})
                \cup (IF Titled(new) # {} /\ new # typed THEN {"one_pass"} ELSE {})
        \/ /\ games # "freed" /\ games' = "live" /\ old = {} /\ Spends("game")
           /\ mishaps' = mishaps \cup {"not_renamed"}
           /\ UNCHANGED disk
        \/ /\ GlistFails \/ (games # "freed" /\ MayFail /\ games' = "live")
           /\ mishaps' = mishaps \cup {"not_renamed"}
           /\ UNCHANGED disk

\* Undefined from here on.
FreedTwice ==
  /\ games = "freed" /\ Works
  /\ \/ mode = "list" /\ Info.treat = "raw"
     \/ mode = "menu" /\ Info.treat = "game"
  /\ mode' = "lost"
  /\ UNCHANGED <<disk, list, sel, mounted, games, mishaps>>

-----------------------------------------------------------------------------
Menu ==
  \/ BackToList \/ RemoveParty \/ RemoveFails \/ FormatHdd
  \/ \E typed \in Typed : \/ \E size \in SizeSelector : CreateParty(typed, size)
                          \/ RenameParty(typed)
                          \/ RenameGame(typed)

Next ==
  \/ BrowserMounts \/ Enter \/ Leave \/ Move \/ MenuParty \/ Menu
  \/ LoadGame \/ UnloadGame \/ FreedTwice

Spec == Init /\ [][Next]_vars

-----------------------------------------------------------------------------
(* Properties *)

Without(causes) == mishaps \cap causes = {}

\* Every variable has a value of its kind, and the cursor is in the list.
TypeOK ==
  /\ \A i \in Slots :
       /\ party[i].treat \in {"system", "pfs", "noaccess", "raw", "game"}
       /\ party[i].total \in 0 .. HddSize /\ party[i].count \in Slots
  /\ numParty \in 0 .. MaxPartitions /\ hddUsed \in 0 .. HddSize
  /\ sel \in Slots /\ mode \in {"out", "list", "menu", "lost"}
  /\ games \in {"null", "live", "freed"}

\* Between two readings of the list, each of its entries is the partition of
\* the disk in the same place, carries its own number, and the space in use
\* is that of the disk, through any sequence of creating, removing, renaming
\* and formatting.  Excepted are a list that could not be read or is full,
\* and for the space a removed partition whose size was never asked for
\* (hdd.c:536).  A partition the browser left mounted may be taken for one that
\* cannot be used (hdd.c:187, 196).  The selected entry can be drawn: its size
\* divides (hdd.c:1050).
ListMatchesDisk ==
  (mode # "out" /\ Without({"unlisted", "overflow"})) =>
    /\ numParty = Len(disk)
    /\ \A i \in 0 .. numParty - 1 :
         /\ party[i].name = disk[i + 1].name /\ party[i].count = i
         /\ party[i].treat \in {TreatOf(disk[i + 1].kind)} \cup
              (CASE disk[i + 1].kind = "hdl" -> {"game"}
                 [] disk[i + 1].kind = "pfs" /\ ~Without({"busy"}) -> {"noaccess"}
                 [] OTHER -> {})
    /\ Without({"sizeless"}) => hddUsed = Sizes(disk)
    /\ hddFormated => sel < numParty /\ (Info.treat = "pfs" => Info.total > 0)

\* The title shown of a loaded game is the one in its own header: renaming
\* one game never changes the header of another.  Excepted are the titles
\* left by a renaming that failed, which is shown as done (hdd.c:660), and by
\* one that gave two games the same title, because the other's was not loaded
\* or the numbers ran into it (hdd.c:629), since headers are looked up by title
\* (hdl_info/hdd.c:179); and a disk that came with two games of one title.
TitlesAgree ==
  (mode # "out" /\ Without({"unlisted", "overflow", "not_renamed", "one_pass", "unseen", "twins"})) =>
    \A i \in 0 .. numParty - 1 :
      party[i].treat = "game" => party[i].title = disk[i + 1].title

\* No partition is created, removed, renamed or formatted while one is
\* mounted, although reading the list leaves the last one on pfs0: (hdd.c:186)
\* and the browser may have left one on pfs1:.
IdleWhenChanged ==
  [][(DiskNames # DiskNames') => mounted = NoMounts]_vars

\* "If other partitions exist with the same name, append a number to keep
\* the name unique" (hdd.c:579): the name asked of the driver is no other
\* partition's.
NamesKeptUnique ==
  [][\A typed \in Typed :
       (RenameParty(typed) /\ Without({"unlisted", "overflow"})) =>
         Renames(typed) \notin DiskNames \ {Info.name}]_vars
=============================================================================
