------------------------------- MODULE Mounts -------------------------------
(***************************************************************************)
(* The HDD mountpoint manager of filer.c.  The PFS driver offers four      *)
(* units, pfs0: to pfs3:; uLE keeps a table of what it believes each unit  *)
(* holds, reuses the entries as a cache of mounted partitions, and evicts  *)
(* one when the table is full.  Three parties disturb each other:          *)
(*   - every routine of uLE that mounts a partition by name and then uses  *)
(*     the unit it was given;                                              *)
(*   - a virtual memory card (VMC) whose image is a file on a partition:   *)
(*     its unit is pinned for as long as the VMC is mounted;               *)
(*   - the FTP server, a separate IOP thread that mounts and unmounts the  *)
(*     same PFS units without looking at uLE's table.                      *)
(*                                                                         *)
(* uLE itself is one thread: each of its actions below is one call, with   *)
(* everything the call does to the table.  pfs and vmcFile are the state   *)
(* of the drivers, which uLE does not see.                                 *)
(***************************************************************************)
EXTENDS Integers, FiniteSets

CONSTANTS
    Parties,     \* partition names
    None,        \* an empty table entry, an empty PFS unit, no partition
    FtpUnits     \* the units FTP clients mount: unit 0 by CWD, any by SITE MNT

MountLimit == 4                    \* MOUNT_LIMIT
Slots == 0 .. MountLimit - 1

ASSUME MountAssumption == None \notin Parties /\ FtpUnits \subseteq Slots
Vmcs == {0, 1}
NoIx == -1                         \* an index that refers to nothing
PartyOrNone == Parties \cup {None}

VARIABLES
    mountedParty,    \* uLE's table: the partition it believes each unit holds
    latestMount,     \* the unit uLE used last, or NoIx
    Party_vmcIndex,  \* for each unit, the VMC that pins it, or NoIx
    vmcMounted,      \* for each VMC, whether it is mounted
    vmc_PartyIndex,  \* for each VMC, the unit its image is on, or NoIx
    pfs,             \* what the PFS driver has mounted at each unit
    vmcFile,         \* the unit on which the VMC driver has an image open, or NoIx
    ftpRunning,      \* whether the FTP server's module is loaded
    screen,          \* "main", "browser" or "viewer": which loop of uLE runs
    path,            \* the partition the browser shows, or None
    listing,         \* "ok", "empty" or "stale": what the list on screen is worth
    copying,         \* the partitions and units of a copy() in progress
    lastUse          \* whether the last step used a unit, for whom, and whether it
                     \* held another partition

table == <<mountedParty, latestMount, pfs>>
pins == <<Party_vmcIndex, vmcMounted, vmc_PartyIndex, vmcFile>>
ui == <<screen, path, listing, copying>>
vars == <<table, pins, ui, ftpRunning, lastUse>>

NoCopy == [stage |-> "idle", in |-> None, pfsin |-> NoIx, pfsout |-> NoIx,
           src |-> "own"]

-----------------------------------------------------------------------------
(***************************************************************************)
(* The drivers.  A unit can be mounted only while it is empty, and         *)
(* unmounted only while no file is open on it.  "held" is the set of units *)
(* with an open file: those of the mounted VMC images, S, and, while the   *)
(* FTP server runs, possibly one more.                                     *)
(***************************************************************************)
OpenImages == {vmcFile[v] : v \in Vmcs} \ {NoIx}
OtherImages(v) == {vmcFile[w] : w \in Vmcs \ {v}} \ {NoIx}

FtpReach == IF ftpRunning THEN FtpUnits ELSE {}
Held(S) == {S} \cup {S \cup {u} : u \in FtpReach}

Least(S) == CHOOSE i \in S : \A j \in S : i <= j

(***************************************************************************)
(* m is a table state [tab, pfs, latest, pin].  UnmountSet is unmountParty *)
(* called on each unit of S: a unit whose umount fails keeps its entry.    *)
(***************************************************************************)
Now == [tab |-> mountedParty, pfs |-> pfs, latest |-> latestMount,
        pin |-> Party_vmcIndex]

\* Mutation: unmountParty does not clear the entry
UnmountKeepsEntry(m, S, held) ==
    [m EXCEPT !.pfs = [u \in Slots |-> IF u \in S \ held THEN None ELSE m.pfs[u]]]

UnmountSet(m, S, held) ==
    LET gone == {u \in S \cap Slots : m.pfs[u] # None /\ u \notin held}
    IN  [tab    |-> [u \in Slots |-> IF u \in gone THEN None ELSE m.tab[u]],
         pfs    |-> [u \in Slots |-> IF u \in gone THEN None ELSE m.pfs[u]],
         latest |-> IF m.latest \in gone THEN NoIx ELSE m.latest,
         pin    |-> m.pin]

\* fileXioMount of p at unit u succeeded
Fill(m, u, p) ==
    [tab |-> [m.tab EXCEPT ![u] = p], pfs |-> [m.pfs EXCEPT ![u] = p],
     latest |-> u, pin |-> m.pin]

\* Mutation: the test on latestMount is missing
EvictsLatest(m) == {u \in Slots : m.pin[u] < 0}

\* The units mountParty may take back: not the one used last, not pinned
Evictable(m) == {u \in Slots : u # m.latest /\ m.pin[u] < 0}

FreeEntries(m) == {u \in Slots : m.tab[u] = None}

Victim(m) == IF Evictable(m) = {} THEN NoIx ELSE Least(Evictable(m))

\* The unit mountParty tries first, and the table once it has made room for it
FirstChoice(m) == IF FreeEntries(m) # {} THEN Least(FreeEntries(m)) ELSE Victim(m)

MakeRoom(m, held) ==
    IF FreeEntries(m) # {} THEN m ELSE UnmountSet(m, {Victim(m)}, held)

\* The units up to u that the loop against stolen mountpoints has unmounted
LoopPrefix(m, u) == {w \in Evictable(m) : w <= u}

LoopWorks(m, u, can, held) ==
    can /\ UnmountSet(m, LoopPrefix(m, u), held).pfs[u] = None

\* Mutation: the loop's failure is not returned
ReclaimEndsAtLimit(m, p, can, held) ==
    [m |-> UnmountSet(m, Evictable(m), held), ret |-> MountLimit]

\* The loop: unmount and try each evictable unit in turn, stop at the first success
Reclaim(m, p, can, held) ==
    LET won == {u \in Evictable(m) : LoopWorks(m, u, can, held)}
        k   == Least(won)
    IN  IF won = {}
        THEN [m |-> UnmountSet(m, Evictable(m), held), ret |-> NoIx]
        ELSE [m |-> Fill(UnmountSet(m, LoopPrefix(m, k), held), k, p), ret |-> k]

\* Mutation: the entries of the table are not used as a cache
MountUncached(m, p, can, held) ==
    LET room == MakeRoom(m, held)
        j    == FirstChoice(m)
    IN  IF can /\ j \in Slots /\ room.pfs[j] = None
        THEN [m |-> Fill(room, j, p), ret |-> j]
        ELSE Reclaim(room, p, can, held)

\* Mutation: a hit returns the unit used before
MountReturnsOld(m, p, can, held) ==
    LET hits == {u \in Slots : m.tab[u] = p}
    IN  IF hits # {}
        THEN [m |-> [m EXCEPT !.latest = Least(hits)], ret |-> m.latest]
        ELSE MountUncached(m, p, can, held)

\* mountParty(p): the table afterwards and the unit returned, or NoIx.
\* can tells whether the driver accepts p at all during this call.
MountParty(m, p, can, held) ==
    LET hits == {u \in Slots : m.tab[u] = p}
        room == MakeRoom(m, held)
        j    == FirstChoice(m)
    IN  IF hits # {}
        THEN [m |-> [m EXCEPT !.latest = Least(hits)], ret |-> Least(hits)]
        ELSE IF can /\ j \in Slots /\ room.pfs[j] = None
        THEN [m |-> Fill(room, j, p), ret |-> j]
        ELSE Reclaim(room, p, can, held)

SetTable(m) ==
    /\ mountedParty' = m.tab
    /\ pfs' = m.pfs
    /\ latestMount' = m.latest

\* Using unit u for p touches another partition
Wrong(m, u, p) == u \in Slots /\ m.pfs[u] \notin {None, p}

NoUse == lastUse' = [by |-> "none", wrong |-> FALSE]
Use(who, m, u, p) == lastUse' = [by |-> who, wrong |-> Wrong(m, u, p)]

-----------------------------------------------------------------------------
Init ==
    /\ mountedParty = [u \in Slots |-> None]
    /\ latestMount = NoIx
    /\ Party_vmcIndex = [u \in Slots |-> NoIx]
    /\ vmcMounted = [v \in Vmcs |-> FALSE]
    /\ vmc_PartyIndex = [v \in Vmcs |-> NoIx]
    /\ pfs = [u \in Slots |-> None]
    /\ vmcFile = [v \in Vmcs |-> NoIx]
    /\ ftpRunning = FALSE
    /\ screen = "main"
    /\ path = None
    /\ listing = "empty"
    /\ copying = NoCopy
    /\ lastUse = [by |-> "none", wrong |-> FALSE]

(***************************************************************************)
(* unmountAll: VMC devices first, then every unit the table names, whose   *)
(* entry is cleared whether or not the driver agrees to unmount it.        *)
(***************************************************************************)
AllUnmounted(held) ==
    [tab    |-> [u \in Slots |-> None],
     pfs    |-> [u \in Slots |-> IF mountedParty[u] # None /\ u \notin held
                                 THEN None ELSE pfs[u]],
     latest |-> NoIx,
     pin    |-> [u \in Slots |-> NoIx]]

ClearVmcs ==
    /\ vmcMounted' = [v \in Vmcs |-> FALSE]
    /\ vmc_PartyIndex' = [v \in Vmcs |-> IF vmcMounted[v] THEN NoIx ELSE vmc_PartyIndex[v]]
    /\ vmcFile' = [v \in Vmcs |-> IF vmcMounted[v] THEN NoIx ELSE vmcFile[v]]
    /\ Party_vmcIndex' = [u \in Slots |-> NoIx]

Leftover == {vmcFile[v] : v \in {w \in Vmcs : ~vmcMounted[w]}} \ {NoIx}

Goto(scr) ==
    /\ screen' = scr
    /\ path' = None
    /\ listing' = "empty"
    /\ NoUse
    /\ UNCHANGED copying

EnterBrowser ==
    /\ screen = "main"
    /\ \E held \in Held(Leftover) : SetTable(AllUnmounted(held))
    /\ ClearVmcs
    /\ Goto("browser")

LeaveBrowser ==
    /\ screen = "browser"
    /\ copying = NoCopy
    /\ listing # "stale"
    /\ \E held \in Held(Leftover) : SetTable(AllUnmounted(held))
    /\ ClearVmcs
    /\ Goto("main")

\* hddManager, on its way in and on its way out
HddManager ==
    /\ screen = "main"
    /\ \E held \in Held(Leftover) : SetTable(UnmountSet(AllUnmounted(held), {0, 1}, held))
    /\ ClearVmcs
    /\ NoUse
    /\ UNCHANGED ui

-----------------------------------------------------------------------------
(***************************************************************************)
(* The browser.                                                            *)
(***************************************************************************)
\* What mountParty(p) may do: the driver and the open files decide
Outcomes(p) ==
    {MountParty(Now, p, can, held) : can \in BOOLEAN, held \in Held(OpenImages)}

\* readHDD: list partition p; a stale list is refreshed before anything else
ReadHDD(p) ==
    /\ screen \in {"browser", "viewer"}
    /\ copying = NoCopy
    /\ listing = "stale" => p = path
    /\ \E r \in Outcomes(p) :
          /\ SetTable(r.m)
          /\ listing' = IF r.ret = NoIx THEN "empty" ELSE "ok"
          /\ Use("index", r.m, r.ret, p)
    /\ path' = p
    /\ UNCHANGED <<pins, screen, copying>>

\* The user moves to another device
ShowOther ==
    /\ screen \in {"browser", "viewer"}
    /\ copying = NoCopy
    /\ listing # "stale"
    /\ path' = None
    /\ listing' = "empty"
    /\ NoUse
    /\ UNCHANGED <<table, pins, screen, copying>>

Listed == screen = "browser" /\ copying = NoCopy /\ listing = "ok"

\* delete, Rename, newdir and getFileSize on the partition shown
UseListed ==
    /\ Listed
    /\ \E r \in Outcomes(path) : SetTable(r.m) /\ Use("index", r.m, r.ret, path)
    /\ UNCHANGED <<pins, ui>>

\* getGameTitle mounts the partition, then reads through pfs0: whatever the unit
\* was, because the number it patches in is the result of getHddParty
GetGameTitle ==
    /\ Listed
    /\ \E r \in Outcomes(path) :
          SetTable(r.m) /\ Use("title", r.m, IF r.ret = NoIx THEN NoIx ELSE 0, path)
    /\ UNCHANGED <<pins, ui>>

(***************************************************************************)
(* MOUNTVMC on a file of the partition shown, or, when path is None, of    *)
(* another device.  A VMC mounted already is unmounted and unpinned first. *)
(***************************************************************************)
\* Mutations: the other VMC is forgotten; the old unit stays pinned
PinsForgetOther(v) ==
    LET j == vmc_PartyIndex[v]
    IN  IF vmcMounted[v] /\ j >= 0 THEN [Party_vmcIndex EXCEPT ![j] = NoIx] ELSE Party_vmcIndex

PinsKept(v) == Party_vmcIndex

PinsWithout(v) ==
    LET j == vmc_PartyIndex[v]
    IN  IF vmcMounted[v] /\ j >= 0 /\ j # vmc_PartyIndex[1 - v]
        THEN [Party_vmcIndex EXCEPT ![j] = NoIx]
        ELSE Party_vmcIndex

IndexWithout(v) == IF vmcMounted[v] THEN NoIx ELSE vmc_PartyIndex[v]
FileWithout(v) == IF vmcMounted[v] THEN NoIx ELSE vmcFile[v]

\* m, j: the table and the index genFixPath left; unit: where the image is opened
SetVmc(v, m, j, unit) ==
    \/ /\ unit \in Slots => m.pfs[unit] # None
       /\ vmcMounted' = [vmcMounted EXCEPT ![v] = TRUE]
       /\ vmcFile' = [vmcFile EXCEPT ![v] = unit]
       /\ vmc_PartyIndex' = [vmc_PartyIndex EXCEPT
                                ![v] = IF j # NoIx THEN j ELSE IndexWithout(v)]
       /\ Party_vmcIndex' = IF j # NoIx THEN [PinsWithout(v) EXCEPT ![j] = v]
                                        ELSE PinsWithout(v)
       /\ path' = None
       /\ listing' = "empty"
    \/ /\ vmcMounted' = [vmcMounted EXCEPT ![v] = FALSE]
       /\ vmcFile' = [vmcFile EXCEPT ![v] = FileWithout(v)]
       /\ vmc_PartyIndex' = [vmc_PartyIndex EXCEPT ![v] = IndexWithout(v)]
       /\ Party_vmcIndex' = PinsWithout(v)
       /\ UNCHANGED <<path, listing>>

MountVmc(v) ==
    /\ screen = "browser"
    /\ copying = NoCopy
    /\ \/ /\ path = None
          /\ SetVmc(v, Now, NoIx, NoIx)
          /\ UNCHANGED table
       \/ /\ listing = "ok"
          /\ \E can \in BOOLEAN, held \in Held(OtherImages(v) \cup ({FileWithout(v)} \ {NoIx})) :
               LET r == MountParty([Now EXCEPT !.pin = PinsWithout(v)], path, can, held)
               IN  /\ SetTable(r.m)
                   /\ SetVmc(v, r.m, r.ret, IF r.ret = NoIx THEN 0 ELSE r.ret)
    /\ NoUse
    /\ UNCHANGED <<screen, copying>>

-----------------------------------------------------------------------------
(***************************************************************************)
(* copy(): mount the source's partition, then the destination's, then work *)
(* through the two units; inside a folder it calls itself, which mounts    *)
(* both again while the caller's paths still name the caller's units.      *)
(***************************************************************************)
\* The test for "dvr_hdd" that follows the one for "hdd" has an else branch, which
\* puts the unpatched path back
SourcePath == "hdd"

CopyIn(q) ==
    /\ screen = "browser"
    /\ \/ /\ copying = NoCopy
          /\ path # None => listing = "ok"
          /\ q # None \/ path # None
       \/ copying.stage = "work" /\ q = copying.in
    /\ IF q = None
       THEN /\ copying' = [copying EXCEPT !.stage = "mountOut", !.in = q]
            /\ UNCHANGED table
       ELSE \E r \in Outcomes(q) :
              /\ SetTable(r.m)
              /\ copying' = [copying EXCEPT !.stage = "mountOut", !.in = q, !.pfsin = r.ret,
                                          !.src = SourcePath]
    /\ NoUse
    /\ UNCHANGED <<pins, screen, path, listing>>

CopyOut ==
    /\ copying.stage = "mountOut"
    /\ IF path = None
       THEN /\ copying' = [copying EXCEPT !.stage = "work"]
            /\ UNCHANGED table
       ELSE \E r \in Outcomes(path) :
              /\ SetTable(r.m)
              /\ copying' = [copying EXCEPT !.stage = "work", !.pfsout = r.ret]
    /\ NoUse
    /\ UNCHANGED <<pins, screen, path, listing>>

\* Writing the destination file or folder
CopyWrite ==
    /\ copying.stage = "work"
    /\ path # None
    /\ Use("copy", Now, copying.pfsout, path)
    /\ UNCHANGED <<table, pins, ui>>

\* The paste is over; a cut first deletes the source.  The list shown is stale.
CopyEnd(cut) ==
    /\ copying.stage = "work"
    /\ IF cut /\ copying.in # None
       THEN \E r \in Outcomes(copying.in) :
              SetTable(r.m) /\ Use("index", r.m, r.ret, copying.in)
       ELSE NoUse /\ UNCHANGED table
    /\ copying' = NoCopy
    /\ listing' = IF path = None THEN "empty" ELSE "stale"
    /\ UNCHANGED <<pins, screen, path>>

-----------------------------------------------------------------------------
(***************************************************************************)
(* Uses from the main menu, and the picture viewer.                        *)
(***************************************************************************)
\* genFixPath leaves pfs0: in the path when it could not mount the partition
FixPathUnit(r) == IF r.ret = NoIx THEN 0 ELSE r.ret

\* checkELFheader gives up when the mount failed.  The browser calls it too.
CheckELFheader(p) ==
    /\ screen = "main" \/ (Listed /\ p = path)
    /\ \E r \in Outcomes(p) : SetTable(r.m) /\ Use("index", r.m, r.ret, p)
    /\ UNCHANGED <<pins, ui>>

\* Configuration files: the callers of genFixPath check the index it returns
FixPathUse(p) ==
    /\ screen = "main"
    /\ \E r \in Outcomes(p) : SetTable(r.m) /\ Use("index", r.m, r.ret, p)
    /\ UNCHANGED <<pins, ui>>

\* The editor and loadSkin ignore the index; the editor unmounts the unit in the
\* path, loadSkin always unit 0
UseAndUnmount(p, unit, r, held) ==
    /\ SetTable(UnmountSet(r.m, {unit}, held))
    /\ Use("unchecked", r.m, FixPathUnit(r), p)
    /\ UNCHANGED <<pins, ui>>

EditorUse(p) ==
    /\ screen = "main"
    /\ \E can \in BOOLEAN, held \in Held(OpenImages) :
         LET r == MountParty(Now, p, can, held) IN UseAndUnmount(p, FixPathUnit(r), r, held)

LoadSkin(p) ==
    /\ screen \in {"main", "viewer"}
    /\ \E can \in BOOLEAN, held \in Held(OpenImages) :
         UseAndUnmount(p, 0, MountParty(Now, p, can, held), held)

\* loadExternalFile reads through pfs0: whatever mountParty returned
LoadExternalFile(p) ==
    /\ screen = "main"
    /\ \E r \in Outcomes(p) : SetTable(r.m) /\ Use("external", r.m, 0, p)
    /\ UNCHANGED <<pins, ui>>

\* loadNetModules loads the FTP server, which is never unloaded, and, if there is a
\* GUI skin, loads the skin again
LoadNetModules ==
    /\ screen = "main"
    /\ ftpRunning' = TRUE
    /\ \/ \E p \in Parties : LoadSkin(p)
       \/ NoUse /\ UNCHANGED <<table, pins, ui>>

\* JpgViewer forgets the first two entries without unmounting anything
EnterViewer ==
    /\ screen = "main"
    /\ mountedParty' = [u \in Slots |-> IF u \in {0, 1} THEN None ELSE mountedParty[u]]
    /\ UNCHANGED <<latestMount, pfs, pins>>
    /\ Goto("viewer")

LeaveViewer ==
    /\ screen = "viewer"
    /\ \E held \in Held(OpenImages) :
         pfs' = [u \in Slots |-> IF u \in {0, 1} \ held /\ mountedParty[u] # None
                                 THEN None ELSE pfs[u]]
    /\ mountedParty' = [u \in Slots |-> IF u \in {0, 1} THEN None ELSE mountedParty[u]]
    /\ UNCHANGED <<latestMount, pins>>
    /\ Goto("main")

-----------------------------------------------------------------------------
(***************************************************************************)
(* The FTP server's FileSystem_UnmountDevice and FileSystem_MountDevice,   *)
(* reached by CWD below /hdd/0/ (always unit 0) and by SITE MNT and UMNT.  *)
(***************************************************************************)
FtpUnmount(u) ==
    /\ pfs[u] # None
    /\ u \notin OpenImages
    /\ pfs' = [pfs EXCEPT ![u] = None]
    /\ NoUse
    /\ UNCHANGED <<mountedParty, latestMount, pins, ui>>

FtpMount(u, p) ==
    /\ pfs[u] = None
    /\ pfs' = [pfs EXCEPT ![u] = p]
    /\ NoUse
    /\ UNCHANGED <<mountedParty, latestMount, pins, ui>>

Operations ==
    \/ EnterBrowser
    \/ LeaveBrowser
    \/ HddManager
    \/ \E p \in Parties : ReadHDD(p)
    \/ ShowOther
    \/ UseListed
    \/ GetGameTitle
    \/ \E v \in Vmcs : MountVmc(v)
    \/ \E q \in PartyOrNone : CopyIn(q)
    \/ CopyOut
    \/ CopyWrite
    \/ \E cut \in BOOLEAN : CopyEnd(cut)
    \/ \E p \in Parties : CheckELFheader(p)
    \/ \E p \in Parties : FixPathUse(p)
    \/ \E p \in Parties : EditorUse(p)
    \/ \E p \in Parties : LoadSkin(p)
    \/ \E p \in Parties : LoadExternalFile(p)
    \/ EnterViewer
    \/ LeaveViewer
    \/ \E u \in FtpReach : FtpUnmount(u)
    \/ \E u \in FtpReach, p \in Parties : FtpMount(u, p)

Next == LoadNetModules \/ (Operations /\ UNCHANGED ftpRunning)

Spec == Init /\ [][Next]_vars

-----------------------------------------------------------------------------
\* Every variable has its type: the table, the pins, the drivers, the screens.
TypeOK ==
    /\ mountedParty \in [Slots -> PartyOrNone]
    /\ latestMount \in Slots \cup {NoIx}
    /\ Party_vmcIndex \in [Slots -> Vmcs \cup {NoIx}]
    /\ vmcMounted \in [Vmcs -> BOOLEAN]
    /\ vmc_PartyIndex \in [Vmcs -> Slots \cup {NoIx}]
    /\ pfs \in [Slots -> PartyOrNone]
    /\ vmcFile \in [Vmcs -> Slots \cup {NoIx}]
    /\ ftpRunning \in BOOLEAN
    /\ screen \in {"main", "browser", "viewer"}
    /\ path \in PartyOrNone
    /\ listing \in {"ok", "empty", "stale"}
    /\ copying \in [stage : {"idle", "mountOut", "work"}, in : PartyOrNone,
                    pfsin : Slots \cup {NoIx}, pfsout : Slots \cup {NoIx},
                    src : {"own", "pfs", "hdd"}]
    /\ lastUse \in [by : {"none", "index", "title", "copy", "unchecked", "external"},
                    wrong : BOOLEAN]

\* A list with entries is a partition's.
ListNamesPath == listing # "empty" => path # None

\* The two pin tables agree: the unit a mounted VMC names is pinned, and a pinned
\* unit is named by some VMC.  MOUNTVMC and unmountAll update them by hand, and a
\* remount must not unpin the unit the other VMC is still on.
PinsAgree ==
    /\ \A v \in Vmcs : vmc_PartyIndex[v] # NoIx =>
          vmcMounted[v] /\ Party_vmcIndex[vmc_PartyIndex[v]] # NoIx
    /\ \A u \in Slots : Party_vmcIndex[u] # NoIx => \E v \in Vmcs : vmc_PartyIndex[v] = u

\* mountParty always finds a unit to evict: it never unmounts unit -1, because at
\* most two of the four units are pinned and one is the latest.
VictimExists == FreeEntries(Now) = {} => Victim(Now) \in Slots

\* docs/changes.txt: leaving the FileBrowser unmounts any mounted VMC file.
VmcsEndWithBrowser ==
    screen # "browser" => \A v \in Vmcs : ~vmcMounted[v] /\ vmcFile[v] = NoIx

\* As long as the FTP server does not run, an entry of the table is what the
\* driver has mounted at that unit.
TableTrue ==
    ~ftpRunning => \A u \in Slots : mountedParty[u] # None => pfs[u] = mountedParty[u]

\* The same, with no proviso: what the table promises when the FTP server runs too.
TableTrueWithFtp == \A u \in Slots : mountedParty[u] # None => pfs[u] = mountedParty[u]

\* A partition is in the table once at most, so that a unit found in the cache
\* is the unit whatever is open on the partition uses.
OneUnitPerParty ==
    \A u, w \in Slots : mountedParty[u] # None /\ mountedParty[u] = mountedParty[w] => u = w

\* In the middle of copy(), the units it patched into its two paths still hold
\* the partitions of the paths: mounting the second does not evict the first,
\* and the calls it makes to itself evict neither.
CopyUnitsHold ==
    copying.stage = "work" =>
        /\ copying.pfsin # NoIx => mountedParty[copying.pfsin] = copying.in
        /\ copying.pfsout # NoIx => mountedParty[copying.pfsout] = path

\* Routines that use the index mountParty gave them never touch another partition
\* when uLE is alone.
IndexedUseRight ==
    ~ftpRunning /\ lastUse.by \in {"index", "copy"} => ~lastUse.wrong

\* The VMC driver's image file lies on a pinned unit: uLE never tries to unmount
\* a unit under a mounted VMC from within the browser.
ImagesPinned == \A v \in Vmcs : vmcFile[v] # NoIx => Party_vmcIndex[vmcFile[v]] # NoIx
=============================================================================
