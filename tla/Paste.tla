-------------------------------- MODULE Paste --------------------------------
(***************************************************************************)
(* Cut, copy and paste of the file browser (filer.c): subfunc_Paste, the   *)
(* recursive copy() with its backup and restore modes, and delete().       *)
(*                                                                         *)
(* The source is a tree of nodes under the folder the clipboard was filled *)
(* from.  A paste writes to one destination folder, where a node can have  *)
(* two copies: under its own name ("dir"), made by Paste and mcPaste, and  *)
(* inside the PSU file of its folder ("psu"), made by psuPaste from a      *)
(* memory card.  The content of a file is what happened to it: "old" for   *)
(* what was there before under that name, "part" for a copy that is not    *)
(* complete, "whole" for one that is.  A folder or a PSU file is "part"    *)
(* while its header does not count what is in it.                          *)
(*                                                                         *)
(* When the destination is a memory card, a save folder of the source may  *)
(* be a PSU file, which psuPaste unpacks from one descriptor at two        *)
(* levels of copy(), and mcPaste sets what an attribute file says.         *)
(*                                                                         *)
(* Every call to a device can fail.  A negative result ends all levels of  *)
(* copy() and the paste in one go, so a failure is one step.               *)
(***************************************************************************)
EXTENDS Naturals, Sequences

CONSTANTS
    Nodes,        \* files and folders below the folder of the clipboard
    Folders,      \* those that are folders
    Parent,       \* the folder a node is in, or Top
    Top,          \* the folder the clipboard was filled from
    Items,        \* the nodes right in Top, in the order of the listing
    NoOverwrite,  \* settings PSU_DateNames and PSU_NoOverwrite
    Followed      \* bound: the mishaps a behaviour is followed through

\* Failures the code goes on from, or that leave traces:
\*   unlisted      a listing ended early, and copy() took it for the whole
\*   garbled       a header or padding of a PSU file was not written
\*   skipped       an existing PSU file was taken for a backup
\*   again         a copy of something already moved was removed for a new one
\*   unattributed  the attribute file could not be made or read, or a file on the
\*                 card was not given its attributes
\*   declined      the folder to unpack a PSU file into was not made or cleared
\*   abandoned     an mcPaste failed inside a folder
\*   stuck         what a failed copy wrote could not be removed
\*   off           the console was switched off
Mishaps == {"unlisted", "garbled", "skipped", "again",
            "unattributed", "declined", "abandoned", "stuck", "off"}

ASSUME PasteAssumption ==
    /\ Folders \subseteq Nodes /\ Top \notin Nodes
    /\ Parent \in [Nodes -> Folders \cup {Top}]
    /\ \A s \in SUBSET Nodes : s # {} => \E n \in s : Parent[n] \notin s
    /\ Items \in Seq({n \in Nodes : Parent[n] = Top})
    /\ NoOverwrite \in BOOLEAN
    /\ Followed \subseteq Mishaps

VARIABLES
    source,   \* whether the destination is a card, and which of the source's folders
              \* are PSU files, with a count of their contents or short of it
    src,      \* the nodes the source has
    dst,      \* the copies of each node at the destination
    attr,     \* the nodes recorded in the attribute file of their folder's copy, or on
              \* a card those that have been given the attributes they had
    clip,     \* clipFiles, in the order of the listing, and browser_cut
    paste,    \* subfunc_Paste: PasteMode, place in the listing, copying or deleting
    stack,    \* the folders copy() is in
    open,     \* file descriptors that are open
    event,    \* history: the item the last step finished
    moved,    \* history: nodes a paste has deleted from the source
    mishaps   \* history: failures the code goes on from, or leaves traces of

vars == <<source, src, dst, attr, clip, paste, stack, open, event, moved, mishaps>>

Places == {"dir", "psu"}
Copies == {"none", "old", "part", "whole"}
PasteModes == {"normal", "mcBackup", "psuBackup", "mcRestore", "psuRestore"}
Clearing == {"mcBackup", "mcRestore", "psuRestore"}
Attributing == {"mcBackup", "mcRestore"}

Idle == [mode |-> "none", next |-> 1, phase |-> "copy"]
Usable == mishaps \subseteq Followed
Active == paste.mode # "none"

Nothing == [done |-> Top, mode |-> "none"]

Files == Nodes \ Folders

Children(d) == {n \in Nodes : Parent[n] = d}

Packable == {d \in Folders : Parent[d] = Top}
Packed(d) == d \in Packable /\ source.packed[d] # "no"

\* The nodes in a folder at any depth, and the folder itself: the least set with the
\* folder and what is in the folders of the set.
Subtree(n) ==
    {m \in Nodes : \A s \in SUBSET Nodes :
        n \in s /\ (\A x \in Nodes : Parent[x] \in s => x \in s) => m \in s}

\* Sets of nodes that can be what is left of a tree, or what is deleted of one.
Grounded(s) == \A n \in s : Parent[n] \in s \cup {Top}

Frame == [node : Folders, todo : SUBSET Nodes,
          flag : PasteModes, good : BOOLEAN]

This == stack[Len(stack)]

\* PM_flag[recurses]
Flag == IF stack = <<>> THEN "normal" ELSE This.flag

Least(s) == CHOOSE i \in s : \A j \in s : i <= j

\* Where clipFiles goes on in the listing, behind the i-th entry.
After(i) == {j \in DOMAIN Items : j > i /\ Items[j] \in clip.items}

Item == Items[paste.next]

\* copy() is called for n next.
Pending(n) ==
    /\ Usable /\ Active /\ paste.phase = "copy"
    /\ IF stack = <<>> THEN n = Item ELSE n \in This.todo

----------------------------------------------------------------------------
Init ==
    /\ source \in [card : BOOLEAN, packed : [Packable -> {"no", "counted", "short"}]]
    /\ source.card \/ \A d \in Packable : ~Packed(d)
    /\ src \in {s \in SUBSET Nodes : Grounded(s)}
    /\ dst \in {d \in [Places -> [Nodes -> Copies]] :
                  /\ \A n \in Nodes : d["psu"][n] = "none" /\ d["dir"][n] \in {"none", "old"}
                  /\ Grounded({n \in Nodes : d["dir"][n] = "old"})}
    /\ attr = {}
    /\ clip = [items |-> {}, cut |-> FALSE]
    /\ paste = Idle
    /\ stack = <<>>
    /\ open = {}
    /\ event = Nothing
    /\ moved = {}
    /\ mishaps = {}

----------------------------------------------------------------------------
(* The clipboard and the steps of subfunc_Paste.                           *)

\* Cut and Copy of all marked nodes.
Select(cut) ==
    /\ Usable /\ ~Active
    /\ clip' = [items |-> {Items[i] : i \in DOMAIN Items} \cap src, cut |-> cut]
    /\ event' = Nothing
    /\ UNCHANGED <<source, src, dst, attr, paste, stack, open, moved, mishaps>>

\* mcPaste and psuPaste back up from a memory card and restore to one.  A PSU file is
\* only ever unpacked: for the other modes it is a file like any other.
Paste(mode) ==
    /\ Usable /\ ~Active /\ clip.items # {}
    /\ mode \in IF source.card THEN {"normal", "mcRestore", "psuRestore"}
               ELSE {"normal", "mcBackup", "psuBackup"}
    /\ mode # "psuRestore" => \A n \in clip.items : ~Packed(n)
    /\ paste' = [mode |-> mode, next |-> Least(After(0)), phase |-> "copy"]
    /\ event' = Nothing
    /\ UNCHANGED <<source, src, dst, attr, clip, stack, open, moved, mishaps>>

Onward == IF After(paste.next) = {} THEN Idle
          ELSE [paste EXCEPT !.next = Least(After(@)), !.phase = "copy"]

\* copy() of n returns without error, with the folders of s left to finish.
Returned(n, s) ==
    IF s = <<>>
    THEN /\ stack' = <<>>
         /\ paste' = IF clip.cut THEN [paste EXCEPT !.phase = "delete"] ELSE Onward
         /\ event' = [Nothing EXCEPT !.done = n, !.mode = paste.mode]
    ELSE /\ stack' = [s EXCEPT ![Len(s)].todo = @ \ {n}, ![Len(s)].good = TRUE]
         /\ event' = Nothing
         /\ UNCHANGED paste

\* Mutation: PSU_error does not close the file
AbortedKeepsPsu(left, why) ==
    /\ stack' = <<>>
    /\ paste' = Idle
    /\ open' = open \cup left
    /\ event' = Nothing
    /\ mishaps' = mishaps \cup why

\* Every level returns a negative value: psuPaste closes the PSU file on the way,
\* mcPaste does not close the attribute files.
Aborted(left, why) ==
    /\ stack' = <<>>
    /\ paste' = Idle
    /\ open' = {f \in open : f[1] # "psu"} \cup left
    /\ event' = Nothing
    /\ mishaps' = mishaps \cup why
         \cup (IF \E i \in DOMAIN stack : stack[i].flag \in Attributing
               THEN {"abandoned"} ELSE {})

\* dst with the copies of the nodes of s in place p made c.
Put(p, s, c) == [dst EXCEPT ![p] = [n \in Nodes |-> IF n \in s THEN c ELSE @[n]]]

\* The contents of a listing: all of a folder, or less of it when it fails.
Listings(d) == SUBSET (Children(d) \cap src)

Unlisted(d, listed) ==
    IF listed = Children(d) \cap src THEN {} ELSE {"unlisted"}

Again(d) == IF Subtree(d) \cap moved = {} THEN {} ELSE {"again"}

----------------------------------------------------------------------------
(* copy() of a file.                                                       *)

\* Mutation: the old file is removed before the source is opened
RemoveNoSource(n) ==
    /\ Pending(n) /\ n \in Files
    /\ dst' = Put("dir", {n}, "none")
    /\ Aborted({}, {})
    /\ UNCHANGED <<source, src, attr, clip, moved>>

\* Neither the file nor the PSU file has been touched when the source cannot
\* be opened, or its header cannot be read from the PSU file that is unpacked.
CopyNoSource(n) ==
    /\ Pending(n) /\ n \in Files
    /\ Aborted({}, {})
    /\ UNCHANGED <<source, src, dst, attr, clip, moved>>

\* The old file is removed, and no new one can be made.
CopyNoDest(n) ==
    /\ Pending(n) /\ n \in Files \cap src /\ Flag # "psuBackup"
    /\ \E d \in {dst, Put("dir", {n}, "none")} : dst' = d
    /\ Aborted({}, {})
    /\ UNCHANGED <<source, src, attr, clip, moved>>

\* Mutation: the copy goes on behind a file that was not copied
CopyShortGoesOn(n) ==
    /\ Pending(n) /\ n \in Files \cap src /\ Flag # "psuBackup"
    /\ dst' = Put("dir", {n}, "none")
    /\ Returned(n, stack)
    /\ UNCHANGED <<source, src, attr, clip, open, moved, mishaps>>

\* The user stops the copy, or a read or write of the main loop comes back short.
CopyShort(n) ==
    /\ Pending(n) /\ n \in Files \cap src
    /\ IF Flag = "psuBackup"
       THEN /\ dst' = Put("psu", {n}, "part")
            /\ Aborted({}, {})
       ELSE \E stuck \in BOOLEAN :
               /\ dst' = Put("dir", {n}, IF stuck THEN "part" ELSE "none")
               /\ Aborted({}, IF stuck THEN {"stuck"} ELSE {})
    /\ UNCHANGED <<source, src, attr, clip, moved>>

\* The file is copied.  In a backup its attributes are recorded, or that fails with
\* both files open; unpacked from a PSU file, it is given them, or that fails unseen.
CopyWhole(n) ==
    /\ Pending(n) /\ n \in Files \cap src
    /\ dst' = Put(IF Flag = "psuBackup" THEN "psu" ELSE "dir", {n}, "whole")
    /\ \/ /\ attr' = IF Flag \in {"mcBackup", "psuRestore"} THEN attr \cup {n}
                    ELSE IF Flag = "mcRestore" \/ ~source.card THEN attr
                    ELSE attr \ {n}
          /\ Returned(n, stack)
          /\ UNCHANGED <<open, mishaps>>
       \/ /\ Flag = "psuRestore"
          /\ attr' = attr \ {n}
          /\ Returned(n, stack)
          /\ mishaps' = mishaps \cup {"unattributed"}
          /\ UNCHANGED open
       \/ /\ Flag = "mcBackup"
          /\ Aborted({<<"in", n>>, <<"out", n>>}, {})
          /\ UNCHANGED attr
    /\ UNCHANGED <<source, src, clip, moved>>

\* The writes of a file's header and padding are not looked at, nor is the seek past
\* the padding: what is read next is then no header.
CopyGarbled(n) ==
    /\ Pending(n) /\ n \in Files \cap src
    /\ \/ Flag = "psuBackup" /\ dst' = Put("psu", {n}, "part")
       \/ Flag = "psuRestore" /\ dst' = Put("dir", {n}, "whole")
    /\ Returned(n, stack)
    /\ mishaps' = mishaps \cup {"garbled"}
    /\ UNCHANGED <<source, src, attr, clip, open, moved>>

----------------------------------------------------------------------------
(* copy() of a folder.                                                     *)

Push(d, listed, flag, good) ==
    /\ stack' = Append(stack, [node |-> d, todo |-> listed, flag |-> flag,
                               good |-> good])
    /\ event' = Nothing
    /\ UNCHANGED paste

\* d is a PSU file, which copy() opens, and starts again with the folder it holds.
Unpacks(d) == Packed(d) /\ paste.mode = "psuRestore"

\* A return from there leaves it open.
Declined(d, why) ==
    IF Unpacks(d) THEN Aborted({<<"psu", d>>}, why \cup {"declined"}) ELSE Aborted({}, why)

\* The folder cannot be made, the user does not want it overwritten, it is a folder
\* in a PSU file or one that would have to go there, or the PSU file cannot be read.
EnterFails(d) ==
    /\ Pending(d) /\ d \in Folders
    /\ paste.mode # "psuBackup" \/ stack # <<>>
    /\ Aborted({}, {}) \/ Declined(d, {})
    /\ UNCHANGED <<source, src, dst, attr, clip, moved>>

\* Mutation: folders are removed before what is in them
ClearFailsTopFirst(d) ==
    /\ Pending(d) /\ d \in Folders
    /\ paste.mode \in Clearing /\ dst["dir"][d] # "none"
    /\ dst' = Put("dir", {d}, "none")
    /\ Aborted({}, Again(d))
    /\ UNCHANGED <<source, src, attr, clip, moved>>

\* mcPaste and restores remove a folder they are to overwrite, and fail in the middle
\* of that or behind it.
ClearFails(d) ==
    /\ Pending(d) /\ d \in Folders /\ Flag # "psuRestore"
    /\ paste.mode \in Clearing /\ dst["dir"][d] # "none"
    /\ \E gone \in SUBSET Subtree(d) :
          /\ \A n \in gone : Children(n) \subseteq gone
          /\ dst' = Put("dir", gone, "none")
          /\ attr' = attr \ gone
    /\ Declined(d, Again(d))
    /\ UNCHANGED <<source, src, clip, moved>>

\* The folder d is made, or emptied first, or kept if Paste finds it there.
Made(d) ==
    dst' = [Put("dir", IF paste.mode \in Clearing THEN Subtree(d) ELSE {}, "none")
               EXCEPT !["dir"][d] = "whole"]

\* Paste keeps an existing folder, and has in `ret' then what getGameTitle returned.
\* mcPaste makes the attribute file, or opens the one of the source.
EnterDir(d, listed, attributes) ==
    LET exists == dst["dir"][d] # "none"
        clears == exists /\ paste.mode \in Clearing
        used == attributes = "used"
    IN  /\ Pending(d) /\ d \in Folders
        /\ paste.mode # "psuBackup" /\ Flag # "psuRestore" /\ ~Unpacks(d)
        /\ attributes # "none" <=> paste.mode \in Attributing
        /\ Made(d)
        /\ attr' = CASE clears -> attr \ Subtree(d)
                     [] ~clears /\ paste.mode = "mcBackup" -> attr \ Children(d)
                     [] OTHER -> attr
        /\ open' = IF attributes \in {"used", "short"}
                   THEN open \cup {<<"attr", d>>} ELSE open
        /\ \E good \in IF exists /\ ~clears THEN BOOLEAN ELSE {TRUE} :
              Push(d, listed, IF used THEN paste.mode ELSE "normal", good)
        /\ mishaps' = mishaps \cup Unlisted(d, listed)
             \cup (IF clears THEN Again(d) ELSE {})
             \cup (IF paste.mode \in Attributing /\ ~used THEN {"unattributed"} ELSE {})
        /\ UNCHANGED <<source, src, clip, moved>>

\* The PSU file is open behind its first header, which says how many follow: one whose
\* count was not written in the end says two, and none of its files is restored.
EnterPsuFile(d) ==
    LET listed == IF source.packed[d] = "short" THEN {} ELSE Children(d) \cap src
    IN  /\ Pending(d) /\ Unpacks(d)
        /\ Made(d)
        /\ attr' = attr \ Subtree(d)
        /\ open' = open \cup {<<"psu", d>>}
        /\ Push(d, listed, "psuRestore", TRUE)
        /\ mishaps' = mishaps \cup Unlisted(d, listed)
             \cup (IF dst["dir"][d] = "none" THEN {} ELSE Again(d))
        /\ UNCHANGED <<source, src, clip, moved>>

\* With PSU_NoOverwrite a PSU file of that name is taken for the backup.
SkipPsu(d) ==
    /\ Pending(d) /\ d \in Folders
    /\ paste.mode = "psuBackup" /\ stack = <<>>
    /\ NoOverwrite /\ dst["psu"][d] # "none"
    /\ stack' = stack
    /\ paste' = IF clip.cut THEN [paste EXCEPT !.phase = "delete"] ELSE Onward
    /\ event' = [done |-> d, mode |-> paste.mode]
    /\ mishaps' = mishaps
         \cup (IF dst["psu"][d] = "whole" THEN {} ELSE {"skipped"})
    /\ UNCHANGED <<source, src, dst, attr, clip, open, moved>>

\* The old PSU file is removed, the new one cannot be made or its first headers
\* cannot be written.
PsuFails(d) ==
    /\ Pending(d) /\ d \in Folders
    /\ paste.mode = "psuBackup" /\ stack = <<>>
    /\ \E c \in {"none", "part"} :
          dst' = [Put("psu", Subtree(d), "none") EXCEPT !["psu"][d] = c]
    /\ Aborted({}, Again(d))
    /\ UNCHANGED <<source, src, attr, clip, moved>>

\* `ret' is still -1 behind the headers, unless the title was asked for and found.
EnterPsu(d, listed, titled) ==
    /\ Pending(d) /\ d \in Folders
    /\ paste.mode = "psuBackup" /\ stack = <<>>
    /\ dst' = [Put("psu", Subtree(d), "none") EXCEPT !["psu"][d] = "part"]
    /\ open' = open \cup {<<"psu", d>>}
    /\ Push(d, listed, "psuBackup", titled)
    /\ mishaps' = mishaps \cup Unlisted(d, listed) \cup Again(d)
    /\ UNCHANGED <<source, src, attr, clip, moved>>

\* Nothing was copied, and `ret' is what was left in it before.
LeaveEmpty ==
    /\ Usable /\ stack # <<>> /\ This.todo = {} /\ ~This.good
    /\ Aborted({}, {})
    /\ UNCHANGED <<source, src, dst, attr, clip, moved>>

\* The attribute file is closed, after files have been given the attributes it has in a
\* restore, as far as that works.  The PSU file a backup made gets its count of
\* contents, which is not seen to fail, and is closed.
Leave ==
    LET d == This.node
        copied == {n \in Children(d) \cap src \cap Files : dst["dir"][n] # "none"}
    IN  /\ Usable /\ stack # <<>> /\ This.todo = {} /\ This.good
        /\ Returned(d, SubSeq(stack, 1, Len(stack) - 1))
        /\ open' = open \ {<<IF Flag \in Attributing THEN "attr" ELSE "psu", d>>}
        /\ \E counted \in IF Flag = "psuBackup" THEN BOOLEAN ELSE {TRUE},
              given \in IF Flag = "mcRestore" THEN SUBSET copied ELSE {{}} :
              /\ dst' = IF Flag = "psuBackup" /\ counted THEN Put("psu", {d}, "whole") ELSE dst
              /\ attr' = IF Flag = "mcRestore" THEN (attr \ Children(d)) \cup given ELSE attr
              /\ mishaps' = mishaps
                    \cup (IF counted THEN {} ELSE {"garbled"})
                    \cup (IF Flag = "mcRestore" /\ given # copied THEN {"unattributed"} ELSE {})
        /\ UNCHANGED <<source, src, clip, moved>>

----------------------------------------------------------------------------
\* delete() of an item that was cut: its nodes go from the leaves up, as far as that
\* works.  On the HDD it returns 0 without doing anything when the partition cannot
\* be mounted.
Delete ==
    /\ Usable /\ Active /\ paste.phase = "delete"
    /\ \E gone \in SUBSET (Subtree(Item) \cap src) :
          /\ \A n \in gone : Children(n) \cap src \subseteq gone
          /\ Packed(Item) => gone \in {{}, Subtree(Item) \cap src}
          /\ src' = src \ gone
          /\ moved' = moved \cup gone
          /\ \/ /\ Item \in gone \/ gone = {}
                /\ paste' = Onward
                /\ clip' = IF Onward = Idle THEN [clip EXCEPT !.items = {}] ELSE clip
             \/ /\ Item \notin gone
                /\ paste' = Idle
                /\ UNCHANGED clip
    /\ event' = Nothing
    /\ UNCHANGED <<source, dst, attr, stack, open, mishaps>>

\* The console is switched off, perhaps in the middle of a file.
PowerOff ==
    /\ Usable /\ Active
    /\ \/ UNCHANGED dst
       \/ \E n \in Files \cap src, c \in {"none", "part"} :
             /\ Pending(n)
             /\ dst' = Put(IF Flag = "psuBackup" THEN "psu" ELSE "dir", {n}, c)
    /\ clip' = [items |-> {}, cut |-> FALSE]
    /\ paste' = Idle
    /\ stack' = <<>>
    /\ open' = {}
    /\ event' = Nothing
    /\ mishaps' = mishaps \cup {"off"}
    /\ UNCHANGED <<source, src, attr, moved>>

CopyFile(n) ==
    \/ CopyNoSource(n) \/ CopyNoDest(n) \/ CopyShort(n)
    \/ CopyWhole(n) \/ CopyGarbled(n)

CopyFolder(d) ==
    \/ EnterFails(d) \/ ClearFails(d) \/ SkipPsu(d) \/ PsuFails(d)
    \/ \E listed \in Listings(d) :
          \/ \E attributes \in {"none", "used", "short", "unmade"} :
                EnterDir(d, listed, attributes)
          \/ \E titled \in BOOLEAN : EnterPsu(d, listed, titled)
    \/ EnterPsuFile(d)

Over == ~Usable /\ UNCHANGED vars

Next ==
    \/ \E cut \in BOOLEAN : Select(cut)
    \/ \E mode \in PasteModes : Paste(mode)
    \/ \E n \in Nodes : CopyFile(n) \/ CopyFolder(n)
    \/ LeaveEmpty
    \/ Leave
    \/ Delete
    \/ PowerOff
    \/ Over

Spec == Init /\ [][Next]_vars

----------------------------------------------------------------------------
\* The source and the destination are trees, the folders copy() is in lie in each
\* other, and what is still to do in each lies in it.
TypeOK ==
    /\ source \in [card : BOOLEAN, packed : [Packable -> {"no", "counted", "short"}]]
    /\ src \subseteq Nodes /\ Grounded(src)
    /\ dst \in [Places -> [Nodes -> Copies]]
    /\ Grounded({n \in Nodes : dst["dir"][n] # "none"})
    /\ \A n \in attr : n \in Files /\ Parent[n] # Top /\ dst["dir"][Parent[n]] # "none"
    /\ clip \in [items : SUBSET {Items[i] : i \in DOMAIN Items}, cut : BOOLEAN]
    /\ paste \in [mode : PasteModes \cup {"none"}, next : Nat, phase : {"copy", "delete"}]
    /\ Active => paste.next \in DOMAIN Items /\ Item \in clip.items
    /\ \A i \in DOMAIN stack :
          /\ stack[i] \in Frame
          /\ stack[i].todo \subseteq Children(stack[i].node) \cap src
          /\ i > 1 => stack[i].node \in stack[i - 1].todo
    /\ open \subseteq {"attr", "psu", "in", "out"} \X Nodes
    /\ event.done \in Nodes \cup {Top}
    /\ moved \subseteq Nodes
    /\ mishaps \subseteq Mishaps

\* What the user finds of a node after a restore: a copy of its own, or a complete
\* entry in a complete PSU file.
InDir(n) == dst["dir"][n] = "whole"
InPsu(n) ==
    Parent[n] # Top /\ dst["psu"][n] = "whole" /\ dst["psu"][Parent[n]] = "whole"

Unless(m) == mishaps \cap m # {}

\* Cutting loses nothing: a file a paste has deleted from the source is complete at
\* the destination, in every state, through failures of any step, pastes repeated
\* with what is left of the clipboard, and the power going off.  A failed listing, a
\* write to a PSU file nobody looked at, a PSU file skipped and a copy removed for a
\* new one are the only ways out.
CutKeeps ==
    \/ Unless({"unlisted", "garbled", "skipped", "again"})
    \/ \A n \in moved \cap Files : InDir(n) \/ InPsu(n)

\* A copy() that returns without error has copied all files of the item, from a PSU
\* file too; mcPaste and the restores have kept the attributes of each.
ContentsCopied ==
    \/ event.done = Top
    \/ Unless({"unlisted", "garbled", "skipped"})
    \/ \A n \in Subtree(event.done) \cap src \cap Files :
          /\ IF event.mode = "psuBackup" /\ Parent[n] # Top THEN InPsu(n) ELSE InDir(n)
          /\ \/ n \in attr
             \/ Unless({"unattributed"})
             \/ event.mode \notin Attributing /\ ~(event.mode = "psuRestore" /\ Packed(event.done))
             \/ event.mode \in Attributing /\ Parent[n] = Top

\* A paste that has ended leaves no file open, unless an mcPaste failed inside a
\* folder or could not use the attribute file it had opened, or the folder for the
\* contents of a PSU file was not made.
NothingLeftOpen ==
    \/ Active
    \/ Unless({"abandoned", "unattributed", "declined"})
    \/ open = {}
=============================================================================
