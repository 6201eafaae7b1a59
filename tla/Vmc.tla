-------------------------------- MODULE Vmc --------------------------------
(***************************************************************************)
(* The virtual memory card driver (vmc_fs): the file allocation table of a *)
(* card image, its directories, and the handles open on its files.         *)
(*                                                                         *)
(* A FAT entry is 31 bits of link and the allocation bit.  FREE_CLUSTER    *)
(* (0x7FFFFFFF) is the link of all ones without the bit, EOF_CLUSTER       *)
(* (0xFFFFFFFF) the same link with it, so the table is a function `next'   *)
(* and a set `used': End without the bit is FREE, End with it is EOF, and  *)
(* a removed file's cluster keeps its link and loses the bit.              *)
(*                                                                         *)
(* A directory is a chain of clusters of two pages, an entry to a page:    *)
(* first . and .., then files and folders in the order they were added.    *)
(* Its length is in the entry that names it; the root's is its own first.  *)
(* An entry is never erased: removal clears DF_EXISTS, and a later search  *)
(* for the name finds the hidden entry again.  Lengths and positions in    *)
(* files count units, of which ClusterSize make a cluster.                 *)
(*                                                                         *)
(* A call that indexes the FAT outside the card, takes file data for       *)
(* entries, writes it over a directory or frees the root directory ends    *)
(* what can be said: `astray'.                                             *)
(***************************************************************************)
EXTENDS Integers, Sequences, FiniteSets

CONSTANTS
    Files,             \* names of files
    Folders,           \* names of folders, all in the root directory
    Blank,             \* a page that holds anything but an entry
    Dot,               \* the name . or .. of a directory's first two entries
    Prefixes,          \* pairs of file names, the first a strict prefix
    Setups,            \* names, folders, handles and last_allocatable; and the
                       \* mishaps, one of which an image is followed through
    Handles,           \* open file slots (iop_file_t with its file_privdata)
    Clusters,          \* allocatable clusters, numbered from the first one
    FirstAllocatable,  \* address of cluster 0 on the card
    ClusterSize,       \* units in a cluster
    MaxEntries,        \* bound: files and folders of a directory
    MaxLength          \* bound: units a position may reach

\* Legal calls that leave the image in a state the driver does not expect:
\*   reopened  a hidden entry is opened
\*   kept      truncating a file frees its only cluster, and the entry keeps it
\*   dropped   truncating a longer file leaves its first cluster to nobody
\*   shared    an entry is opened while it is open
\*   overrun   a seek past the end fails after it has moved the position
\*   short     a write runs out of clusters after it has raised the length
\*   again     a hidden entry is removed
\*   held      an entry is removed while it is open
\*   buried    a path through a removed folder is followed
\*   retaken   a removed folder is made again, and its first two clusters are
\*             in use, or not all it had, or hold more than its removed entries
\*   half      a new folder gets its entry's cluster and none for its own
\*   missed    a folder is removed with a file in it that its path does not find
Mishaps ==
    {"reopened", "kept", "dropped", "shared", "overrun", "short", "again", "held",
     "buried", "retaken", "half", "missed"}

ASSUME VmcAssumption ==
    /\ Clusters \in Nat \ {0}
    /\ FirstAllocatable \in Nat
    /\ ClusterSize \in Nat \ {0}
    /\ MaxEntries \in Nat
    /\ MaxLength \in Nat
    /\ Prefixes \subseteq Files \X Files
    /\ Dot \notin Files \cup Folders /\ Files \cap Folders = {}
    /\ \A s \in Setups : s.names \subseteq Files /\ s.folders \subseteq Folders
                          /\ s.handles \subseteq Handles /\ s.followed \subseteq Mishaps
                          /\ s.last \in Nat

VARIABLES
    card,      \* the FAT and the driver's last_free_cluster
    page,      \* what each page holds of a directory
    handle,    \* what each slot has open
    setup,     \* the names, handles and card of this behaviour
    astray,    \* a call has left the table or written over the directory
    mishaps,   \* history: which of the known mishaps have happened
    event      \* history: what the last call did to file data

vars == <<card, page, handle, setup, astray, mishaps, event>>

Fat == 0 .. Clusters - 1
End == Clusters
Root == 0

Modes == {"read", "write", "trunc"}

Card == [next : [Fat -> Fat \cup {End}], used : SUBSET Fat,
         hint : 0 .. FirstAllocatable + Clusters]

Page == Fat \X {0, 1}

Entry == [kind : {"file", "folder"}, name : Files \cup Folders \cup {Dot},
          exists : BOOLEAN, cluster : Fat \cup {End},
          length : (0 .. MaxLength) \cup (0 .. MaxEntries + 2)]

ASSUME BlankAssumption == Blank \notin Entry

Nowhere == <<End, 0>>   \* NOFOUND_CLUSTER
Garbage == <<End, 1>>   \* a search that reads what is no directory

\* Fields of struct file_privdata; entry is file_dirpage.
Closed == [entry |-> Nowhere]
Opened == [entry : Page, mode : Modes, start : Fat \cup {End},
           at : Fat \cup {End}, offset : 0 .. ClusterSize - 1,
           pos : 0 .. MaxLength, length : 0 .. MaxLength]

Quiet == [stray |-> FALSE]

IsOpen(h) == handle[h].entry # Nowhere

Usable == ~astray /\ (mishaps = {} \/ \E m \in setup.followed : mishaps = {m})

----------------------------------------------------------------------------
(* The table.                                                              *)

\* The clusters met from c on, by number of links followed; End from the
\* first entry without a link, and on the way round a loop never.
Walk(t, c) ==
    LET at[k \in 0 .. Clusters] ==
            IF k = 0 THEN c
            ELSE LET d == at[k - 1] IN IF d = End THEN End ELSE t.next[d]
    IN  at

Reached(t, c) ==
    LET at == Walk(t, c) IN {at[k] : k \in 0 .. Clusters} \ {End}

Loops(t, c) == Walk(t, c)[Clusters] # End

\* The cluster whose entry is FREE or EOF, where every walk stops.
LastOf(t, c) == CHOOSE d \in Reached(t, c) : t.next[d] = End

Lower(t, cs) ==
    LET low == {c \in cs : c < t.hint}
    IN  IF low = {} THEN t.hint ELSE CHOOSE c \in low : \A d \in low : c <= d

SetEof(t, c) ==
    [t EXCEPT !.next = [@ EXCEPT ![c] = End], !.used = @ \cup {c}]

SetLink(t, c, d) ==
    [t EXCEPT !.next = [@ EXCEPT ![c] = d], !.used = @ \cup {c}]

\* FREE_CLUSTER with FAT_SET: the link and the bit go.
SetFree(t, cs) ==
    [next |-> [c \in Fat |-> IF c \in cs THEN End ELSE t.next[c]],
     used |-> t.used \ cs,
     hint |-> Lower(t, cs)]

\* The old value with FAT_RESET: the link stays, the bit goes.
Reset(t, cs) == [t EXCEPT !.used = @ \ cs, !.hint = Lower(t, cs)]

\* The search of getFreeCluster runs over card addresses from last_free_cluster
\* on, and is outside the table when that is below the first cluster's address.
HintAstray(t) == t.hint < FirstAllocatable

FreeFrom(t) ==
    {c \in Fat : c \notin t.used /\ t.hint <= FirstAllocatable + c
                 /\ FirstAllocatable + c < setup.last}

Found(t) == CHOOSE c \in FreeFrom(t) : \A d \in FreeFrom(t) : c <= d

Taken(t) == [t EXCEPT !.hint = FirstAllocatable + Found(t)]

\* Mutation: the new cluster is linked back to the last, not ended
ExtendLinksBack(t, last, k) ==
    IF k = 0 \/ FreeFrom(t) = {} THEN [t |-> t, last |-> last, got |-> 0]
    ELSE [t |-> SetLink(SetLink(Taken(t), last, Found(t)), Found(t), last),
          last |-> Found(t), got |-> k]

\* Up to k clusters, each linked behind the last: the table, and how many.
Extend(t, last, k) ==
    LET step[n \in 0 .. k] ==
            IF n = 0 THEN [t |-> t, last |-> last, got |-> 0]
            ELSE LET w == step[n - 1]
                 IN  IF w.got < n - 1 \/ FreeFrom(w.t) = {} THEN w
                     ELSE [t |-> SetEof(SetLink(Taken(w.t), w.last, Found(w.t)),
                                        Found(w.t)),
                           last |-> Found(w.t),
                           got |-> n]
    IN  step[k]

----------------------------------------------------------------------------
(* Directories.                                                            *)

\* The page of the i-th entry of the directory that begins at cluster c.
At(t, c, i) == <<Walk(t, c)[i \div 2], i % 2>>

\* memcmp over the length of the entry's name: a name that only begins the
\* one sought matches as well.
Matches(given, sought) == given = sought \/ <<given, sought>> \in Prefixes

Unreadable(pg, p) == p \notin Page \/ pg[p] = Blank

\* getDirentryFromPath within the directory whose entry is at p: the first
\* entry that matches, hidden or not; one whose name only begins the name
\* is searched as a folder.
Scan(t, pg, p, n) ==
    LET chain == Walk(t, pg[p].cluster)
        at(i) == <<chain[i \div 2], i % 2>>
        stops == {i \in 0 .. pg[p].length - 1 :
                     Unreadable(pg, at(i)) \/ Matches(pg[at(i)].name, n)}
        first == at(CHOOSE i \in stops : \A j \in stops : i <= j)
    IN  IF stops = {} THEN Nowhere
        ELSE IF Unreadable(pg, first) THEN Garbage
        ELSE IF pg[first].name = n THEN first
        ELSE IF pg[first].length = 0 THEN Nowhere ELSE Garbage

RootEntry == <<Root, 0>>

\* The place of a directory's entry, and of the file or folder at a path: the
\* directory it is in and its name.
Parent(t, pg, path) ==
    IF path.dir = Dot THEN RootEntry ELSE Scan(t, pg, RootEntry, path.dir)

Lookup(t, pg, path) ==
    LET p == Parent(t, pg, path)
    IN  IF p \in Page THEN Scan(t, pg, p, path.name) ELSE p

Paths == [dir : setup.folders \cup {Dot}, name : setup.names]

Buried(path) ==
    LET p == Parent(card, page, path)
    IN  IF p \in Page /\ ~page[p].exists THEN {"buried"} ELSE {}

\* What Vmc_Dread gives of a directory: the entries that exist.
Listed(p) ==
    {At(card, page[p].cluster, i) : i \in 2 .. page[p].length - 1}
      \cap {q \in Page : page[q] # Blank /\ page[q].exists}

LiveFolders == {p \in Listed(RootEntry) : page[p].kind = "folder"}

Directories == {RootEntry} \cup LiveFolders

LiveFiles == {p \in UNION {Listed(d) : d \in Directories} : page[p].kind = "file"}

ClustersAt(p) == Reached(card, page[p].cluster)

DirClusters == UNION {ClustersAt(d) : d \in Directories}

Size(length) == (length + ClusterSize - 1) \div ClusterSize

Held(p) == {h \in Handles : handle[h].entry = p}

Made(kind, n, c, length) ==
    [kind |-> kind, name |-> n, exists |-> TRUE, cluster |-> c, length |-> length]

\* Mutation: the walk does not leave the first cluster
TailUnwalked(t, e) == e.cluster

\* Where addObject's walk over the parent's clusters ends: at EOF, or after
\* as many links as the length has pairs.
TailOf(t, e) ==
    LET steps == (e.length + 1) \div 2
        at == Walk(t, e.cluster)
        stops == {k \in 0 .. steps :
                     at[k] = End \/ (at[k] \in t.used /\ t.next[at[k]] = End)}
    IN  at[IF stops = {} THEN steps
           ELSE CHOOSE k \in stops : \A j \in stops : k <= j]

\* addObject of entry e to the directory whose entry is at p: another cluster
\* when the last has both pages in use, and with addPseudoEntries one more
\* for a folder's . and ...
AddObject(t, pg, p, e) ==
    LET tail == TailOf(t, pg[p])
        grows == pg[p].length % 2 = 0
        extended == Extend(t, tail, IF grows THEN 1 ELSE 0)
        place == <<extended.last, pg[p].length % 2>>
        folds == e.kind = "folder"
        own == Found(extended.t)
        made == IF folds THEN [e EXCEPT !.cluster = own, !.length = 2] ELSE e
        longer == [pg[p] EXCEPT !.length = @ + 1]
        kept == [pg EXCEPT ![place] = made, ![p] = longer]
        failed(u) == [done |-> FALSE, t |-> u, pg |-> pg, at |-> Nowhere]
    IN  IF grows /\ extended.got = 0 THEN failed(t)
        ELSE IF folds /\ FreeFrom(extended.t) = {} THEN failed(extended.t)
        ELSE IF ~folds
        THEN [done |-> TRUE, t |-> extended.t, pg |-> kept, at |-> place]
        ELSE [done |-> TRUE, at |-> place,
              t |-> SetEof(Taken(extended.t), own),
              pg |-> [kept EXCEPT ![<<own, 0>>] = Made("folder", Dot, pg[p].cluster, 0),
                                  ![<<own, 1>>] = Made("folder", Dot, Root, 0)]]

\* addObject would index the FAT outside: by a hint below the first cluster,
\* or having walked off the parent's chain.
AddAstray(t, pg, p, e) ==
    \/ (e.kind = "folder" \/ pg[p].length % 2 = 0) /\ HintAstray(t)
    \/ TailOf(t, pg[p]) = End

\* A directory has room within the bound.
Room(pg, p) == p \in Page /\ pg[p].length < MaxEntries + 2

----------------------------------------------------------------------------
Init ==
    /\ setup \in Setups
    /\ card = [next |-> [c \in Fat |-> End], used |-> {Root},
               hint |-> FirstAllocatable]
    /\ page = [p \in Page |->
                 IF p = RootEntry THEN Made("folder", Dot, Root, 2)
                 ELSE IF p = <<Root, 1>> THEN Made("folder", Dot, Root, 0)
                 ELSE Blank]
    /\ handle = [h \in Handles |-> Closed]
    /\ astray = FALSE
    /\ mishaps = {}
    /\ event = Quiet

\* The call never comes back to a state that can be described.
GoAstray ==
    /\ astray' = TRUE
    /\ event' = Quiet
    /\ UNCHANGED <<card, page, handle, setup, mishaps>>

Handle(p, mode, e) ==
    [entry |-> p, mode |-> mode, start |-> e.cluster, at |-> e.cluster,
     offset |-> 0, pos |-> 0, length |-> e.length]

\* Vmc_Open of a path that is not found.
OpenNew(h, path, mode) ==
    LET p == Parent(card, page, path)
        e == Made("file", path.name, End, 0)
        w == AddObject(card, page, p, e)
    IN  /\ Usable /\ ~IsOpen(h) /\ mode # "read"
        /\ Lookup(card, page, path) = Nowhere
        /\ Room(page, p)
        /\ IF AddAstray(card, page, p, e) THEN GoAstray
           ELSE /\ w.done
                /\ card' = w.t
                /\ page' = w.pg
                /\ handle' = [handle EXCEPT ![h] = Handle(w.at, mode, e)]
                /\ mishaps' = mishaps \cup Buried(path)
                /\ event' = Quiet
                /\ UNCHANGED <<setup, astray>>

\* A path whose search reads file data as entries.
SearchAstray(path) ==
    /\ Usable
    /\ Lookup(card, page, path) = Garbage
    /\ GoAstray

\* What the loop over a hidden or truncated file's clusters does to the table
\* and to the entry.
Truncated(t, e) ==
    LET c == e.cluster
        rest == Reached(t, c) \ {c}
    IN  IF t.next[c] = End
        THEN [t |-> IF c \in t.used THEN SetFree(t, {c}) ELSE t, e |-> e]
        ELSE [t |-> SetFree(SetEof(t, c), {d \in rest : d \in t.used \/ t.next[d] # End}),
              e |-> [e EXCEPT !.length = 0, !.cluster = End, !.exists = TRUE]]

\* Vmc_Open of a path that is found, hidden or not.
OpenFound(h, path, mode) ==
    /\ Usable /\ ~IsOpen(h)
    /\ LET p == Lookup(card, page, path)
           e == page[p]
           cuts == mode = "trunc" \/ ~e.exists
           w == IF cuts THEN Truncated(card, e) ELSE [t |-> card, e |-> e]
       IN  /\ p \in Page
           /\ IF cuts /\ e.cluster = End
              THEN GoAstray
              ELSE /\ card' = w.t
                   /\ page' = [page EXCEPT ![p] = w.e]
                   /\ handle' = [handle EXCEPT ![h] = Handle(p, mode, w.e)]
                   /\ mishaps' = mishaps \cup Buried(path)
                        \cup (IF ~e.exists THEN {"reopened"} ELSE {})
                        \cup (IF e.exists /\ cuts
                              THEN {IF card.next[e.cluster] = End
                                    THEN "kept" ELSE "dropped"}
                              ELSE {})
                        \cup (IF Held(p) # {} THEN {"shared"} ELSE {})
                   /\ event' = Quiet
                   /\ UNCHANGED <<setup, astray>>

Close(h) ==
    /\ Usable /\ IsOpen(h)
    /\ handle' = [handle EXCEPT ![h] = Closed]
    /\ event' = Quiet
    /\ UNCHANGED <<card, page, setup, astray, mishaps>>

\* Mutation: a file's clusters are taken to lie behind each other
OnwardNextDoor(t, f, k) ==
    IF f.offset + k < ClusterSize \/ f.at = End THEN f.at ELSE f.at + 1

\* The cluster a handle reaches with k units from where it is, if the walk
\* stays on clusters; the clusters those units lie in.
Onward(t, f, k) == Walk(t, f.at)[(f.offset + k) \div ClusterSize]

Touched(t, f, k) ==
    {Walk(t, f.at)[j] : j \in 0 .. (f.offset + k - 1) \div ClusterSize}

\* Mutation: the offset in the cluster is not wrapped
MovedUnwrapped(t, f, k) ==
    [f EXCEPT !.at = Onward(t, f, k), !.offset = @ + k, !.pos = @ + k]

Moved(t, f, k) ==
    [f EXCEPT !.at = Onward(t, f, k), !.offset = (@ + k) % ClusterSize,
              !.pos = @ + k]

\* Vmc_Read of up to k units.
Read(h, k) ==
    LET f == handle[h]
        size == IF f.pos <= f.length /\ k > f.length - f.pos
                THEN f.length - f.pos ELSE k
    IN  /\ Usable /\ IsOpen(h) /\ f.mode = "read"
        /\ size > 0 /\ f.pos + size <= MaxLength
        /\ IF End \in Touched(card, f, size)
           THEN GoAstray
           ELSE /\ handle' = [handle EXCEPT ![h] = Moved(card, f, size)]
                /\ event' = Quiet
                /\ UNCHANGED <<card, page, setup, astray, mishaps>>

\* Mutation: the file's first cluster is not marked
FirstTakenUnmarked(f) ==
    [t |-> Taken(card), start |-> Found(card), at |-> Found(card)]

\* The first cluster a growing Write takes: the file's first, or the next
\* behind its last one.  Writing goes on there, or in the last cluster when
\* that was left half full.
FirstTaken(f) ==
    IF f.start = End
    THEN LET c == Found(card)
         IN  [t |-> SetEof(Taken(card), c), start |-> c, at |-> c]
    ELSE LET last == LastOf(card, f.start)
             w == Extend(card, last, 1)
         IN  [t |-> w.t, start |-> f.start,
              at |-> IF f.offset = 0 THEN w.last ELSE last]

\* The walk to the file's end meets FREE_CLUSTER and takes it for an index.
EndAstray(f) ==
    f.start # End /\ (Loops(card, f.start) \/ LastOf(card, f.start) \notin card.used)

\* The pages the units lie in.
TouchedPages(t, f, k) ==
    {<<Walk(t, f.at)[(f.offset + j) \div ClusterSize],
       (2 * ((f.offset + j) % ClusterSize)) \div ClusterSize>> : j \in 0 .. k - 1}

\* The data loop of Vmc_Write and the update of the entry behind it.
Store(h, t, pg, f, k) ==
    LET g == Moved(t, f, k)
        length == IF f.mode = "trunc" THEN g.pos ELSE f.length
        own == IF pg[f.entry] # Blank /\ pg[f.entry].exists
               THEN Reached(t, pg[f.entry].cluster) \cap t.used ELSE {}
        written == [p \in Page |-> IF p \in TouchedPages(t, f, k) THEN Blank ELSE pg[p]]
    IN  IF End \in Touched(t, f, k) \/ Touched(t, f, k) \cap DirClusters # {}
        THEN GoAstray
        ELSE /\ card' = t
             /\ handle' = [handle EXCEPT ![h] = [g EXCEPT !.length = length]]
             /\ page' = IF written[f.entry] = Blank THEN written
                        ELSE [written EXCEPT ![f.entry].length = length]
             /\ event' = [stray |-> ~ (Touched(t, f, k) \subseteq own)]
             /\ UNCHANGED <<setup, astray, mishaps>>

\* How many clusters a Write takes.
Needed(f, k) == Size(f.pos + k) - Size(f.length)

\* A Write that ran out of clusters: -1, with the length already raised.
Short(h, t, pg, f) ==
    /\ card' = t
    /\ page' = pg
    /\ handle' = [handle EXCEPT ![h] = f]
    /\ mishaps' = mishaps \cup {"short"}
    /\ event' = Quiet
    /\ UNCHANGED <<setup, astray>>

\* Vmc_Write within the clusters the length accounts for.
WriteInPlace(h, k) ==
    LET f == handle[h]
    IN  /\ Usable /\ IsOpen(h) /\ f.mode # "read" /\ f.pos + k <= MaxLength
        /\ Needed(f, k) <= 0
        /\ Store(h, card, page, f, k)

\* Vmc_Write that needs more clusters than the length accounts for.
WriteGrowing(h, k) ==
    LET f == handle[h]
        needed == Needed(f, k)
        raised == [f EXCEPT !.length = f.pos + k]
    IN  /\ Usable /\ IsOpen(h) /\ f.mode # "read" /\ f.pos + k <= MaxLength
        /\ needed > 0
        /\ IF EndAstray(f) \/ HintAstray(card) THEN GoAstray
           ELSE IF FreeFrom(card) = {} THEN Short(h, card, page, raised)
           ELSE LET w == FirstTaken(f)
                    c == Found(card)
                    x == Extend(w.t, c, needed - 1)
                    g == [raised EXCEPT !.start = w.start, !.at = w.at]
                    pg == IF f.start # End \/ page[f.entry] = Blank THEN page
                          ELSE [page EXCEPT ![f.entry].cluster = c]
                IN  IF x.got < needed - 1
                    THEN Short(h, x.t, pg, g)
                    ELSE Store(h, x.t, pg, g, k)

\* Vmc_Lseek to position p: the position is set before it is tested.
Seek(h, p) ==
    LET f == handle[h]
        steps == p \div ClusterSize
    IN  /\ Usable /\ IsOpen(h)
        /\ IF p > f.length
           THEN /\ handle' = [handle EXCEPT ![h].pos = p]
                /\ mishaps' = mishaps \cup {"overrun"}
                /\ UNCHANGED astray
           ELSE IF End \in {Walk(card, f.start)[j] : j \in 0 .. steps - 1}
           THEN /\ astray' = TRUE
                /\ UNCHANGED <<handle, mishaps>>
           ELSE /\ handle' = [handle EXCEPT ![h] =
                                 [@ EXCEPT !.pos = p, !.offset = p % ClusterSize,
                                           !.at = Walk(card, f.start)[steps]]]
                /\ UNCHANGED <<astray, mishaps>>
        /\ event' = Quiet
        /\ UNCHANGED <<card, page, setup>>

\* Mutation: the walk stops before the last cluster is freed
RemovedShort(t, c) == Reset(t, Reached(t, c) \ {LastOf(t, c)})

\* The bits of the chain are cleared and its last cluster freed.
Removed(t, c) ==
    LET last == LastOf(t, c)
        rest == Reset(t, Reached(t, c) \ {last})
    IN  IF last \in t.used THEN SetFree(rest, {last}) ELSE rest

\* removeObject of the entry at p: DF_EXISTS is toggled unless the walk
\* stopped at a free cluster.  `well': the FAT was not left.
RemoveObject(w, p) ==
    LET c == w.pg[p].cluster
    IN  IF c = End \/ Loops(w.t, c) THEN [w EXCEPT !.well = FALSE]
        ELSE [t |-> Removed(w.t, c),
              pg |-> IF LastOf(w.t, c) \in w.t.used
                     THEN [w.pg EXCEPT ![p].exists = ~ @] ELSE w.pg,
              well |-> w.well,
              mishaps |-> w.mishaps
                 \cup (IF w.pg[p].exists THEN {} ELSE {"again"})
                 \cup (IF Held(p) = {} THEN {} ELSE {"held"})]

Before == [t |-> card, pg |-> page, well |-> TRUE, mishaps |-> mishaps]

Leaves(w, more) ==
    IF ~w.well THEN GoAstray
    ELSE /\ card' = w.t
         /\ page' = w.pg
         /\ mishaps' = w.mishaps \cup more
         /\ event' = Quiet
         /\ UNCHANGED <<handle, setup, astray>>

Remove(path) ==
    LET p == Lookup(card, page, path)
    IN  /\ Usable /\ p \in Page
        /\ Leaves(RemoveObject(Before, p), Buried(path))

Rename(path, n) ==
    LET p == Lookup(card, page, path)
        renamed == [page EXCEPT ![p].name = n]
    IN  /\ Usable /\ p \in Page /\ path.name # n
        /\ page' = renamed
        /\ mishaps' = mishaps \cup Buried(path)
        /\ event' = Quiet
        /\ UNCHANGED <<card, handle, setup, astray>>

\* Vmc_Mkdir of a name that is not found.
MkdirNew(n) ==
    LET e == Made("folder", n, End, 0)
        w == AddObject(card, page, RootEntry, e)
    IN  /\ Usable
        /\ Scan(card, page, RootEntry, n) = Nowhere
        /\ Room(page, RootEntry)
        /\ IF AddAstray(card, page, RootEntry, e) THEN GoAstray
           ELSE /\ w.done \/ w.t # card
                /\ card' = w.t
                /\ page' = w.pg
                /\ mishaps' = IF w.done THEN mishaps ELSE mishaps \cup {"half"}
                /\ event' = Quiet
                /\ UNCHANGED <<handle, setup, astray>>

\* Vmc_Mkdir of a removed folder: its first two clusters are taken back.  A
\* folder of one cluster has no second, and the FAT is indexed by FREE_CLUSTER.
MkdirHidden(n) ==
    LET p == Scan(card, page, RootEntry, n)
        c == page[p].cluster
        second == card.next[c]
        whole == /\ {c, second} \cap card.used = {} /\ page[p].length \in 3 .. 4
                 /\ \A i \in 0 .. page[p].length - 1 :
                       LET q == At(card, c, i)
                       IN  /\ ~Unreadable(page, q)
                           /\ IF i < 2 THEN page[q].name = Dot
                              ELSE page[q].kind = "file" /\ ~page[q].exists
    IN  /\ Usable /\ p \in Page /\ ~page[p].exists
        /\ IF second = End THEN GoAstray
           ELSE /\ card' = SetEof(SetLink(card, c, second), second)
                /\ page' = [page EXCEPT ![p].exists = TRUE]
                /\ mishaps' = IF whole THEN mishaps ELSE mishaps \cup {"retaken"}
                /\ event' = Quiet
                /\ UNCHANGED <<handle, setup, astray>>

\* The i-th entry of the folder at p, of name n, is removed by its path if it
\* exists; . and .. and what lies beyond the folder's length are passed over.
\* A . further on is another folder's, and the path to it is this folder's own:
\* removing that frees the root directory.
RemoveChild(w, n, p, i) ==
    LET q == At(w.t, w.pg[p].cluster, i)
        found == Lookup(w.t, w.pg, [dir |-> n, name |-> w.pg[q].name])
    IN  IF ~w.well \/ i < 2 \/ i >= w.pg[p].length THEN w
        ELSE IF Unreadable(w.pg, q) \/ w.pg[q].name = Dot
        THEN [w EXCEPT !.well = FALSE]
        ELSE IF ~w.pg[q].exists THEN w
        ELSE IF found = Nowhere THEN [w EXCEPT !.mishaps = @ \cup {"missed"}]
        ELSE IF found = Garbage THEN [w EXCEPT !.well = FALSE]
        ELSE RemoveObject(w, found)

Emptied(n, p) ==
    LET step[i \in 0 .. MaxEntries + 1] ==
            IF i = 0 THEN Before ELSE RemoveChild(step[i - 1], n, p, i)
    IN  step[MaxEntries + 1]

\* Vmc_Rmdir: each existing child is removed, then the folder.
Rmdir(n) ==
    LET p == Scan(card, page, RootEntry, n)
        w == Emptied(n, p)
    IN  /\ Usable /\ p \in Page /\ page[p].exists
        /\ IF ~w.well THEN GoAstray ELSE Leaves(RemoveObject(w, p), {})

\* Vmc_Clean: clusters with a link and no bit become FREE.
Clean ==
    /\ Usable
    /\ card' = SetFree(card, {c \in Fat : c \notin card.used /\ card.next[c] # End})
    /\ event' = Quiet
    /\ UNCHANGED <<page, handle, setup, astray, mishaps>>

\* Vmc_Umount and Vmc_Mount of the same image, with nothing open.
Remount ==
    /\ Usable
    /\ \A h \in Handles : ~IsOpen(h)
    /\ card' = [card EXCEPT !.hint = FirstAllocatable]
    /\ event' = Quiet
    /\ UNCHANGED <<page, handle, setup, astray, mishaps>>

Over == ~Usable /\ UNCHANGED vars

Next ==
    \/ \E h \in setup.handles, path \in Paths, mode \in Modes :
           OpenNew(h, path, mode) \/ OpenFound(h, path, mode)
    \/ \E h \in setup.handles : Close(h)
    \/ \E h \in setup.handles, k \in 1 .. MaxLength :
           Read(h, k) \/ WriteInPlace(h, k) \/ WriteGrowing(h, k)
    \/ \E h \in setup.handles, p \in 0 .. MaxLength : Seek(h, p)
    \/ \E path \in Paths : Remove(path) \/ SearchAstray(path)
    \/ \E path \in Paths, n \in setup.names : Rename(path, n)
    \/ \E n \in setup.folders : MkdirNew(n) \/ MkdirHidden(n) \/ Rmdir(n)
    \/ Clean
    \/ Remount
    \/ Over

Spec == Init /\ [][Next]_vars

----------------------------------------------------------------------------
\* Every link leads to a cluster, every page in a directory that exists holds an entry,
\* handles refer to pages, and no position leaves the bounds.
TypeOK ==
    /\ card \in Card
    /\ \A p \in Page : page[p] = Blank \/ page[p] \in Entry
    /\ \A h \in Handles : IsOpen(h) => handle[h] \in Opened
    /\ setup \in Setups
    /\ astray \in BOOLEAN
    /\ mishaps \subseteq Mishaps
    /\ event \in [stray : BOOLEAN]

\* Following links from any cluster comes to FREE or EOF: none of the driver's loops
\* over a file's clusters runs for ever, whatever files share or have lost.
ChainsEnd == \A c \in Fat : ~Loops(card, c)

\* The mishaps after which a cluster can be free and owned, or owned twice.
Tearing == {"kept", "reopened", "again", "buried", "retaken"}

Unless(m) == mishaps \cap m # {}

\* Every file and every directory has clusters of its own, although removed ones keep
\* the number of their first cluster and the links of all but the last; and they are
\* allocated, and enough for its length.
FilesApart ==
    \/ Unless(Tearing)
    \/ /\ LET owners == LiveFiles \cup Directories
          IN  \A p, q \in owners :
                p # q => ClustersAt(p) \cap ClustersAt(q) = {}
       /\ \/ Unless({"short", "shared", "held"})
          \/ \A p \in LiveFiles :
                /\ ClustersAt(p) \subseteq card.used
                /\ Size(page[p].length) <= Cardinality(ClustersAt(p))

\* A write lands in the allocated clusters of the file it was meant for.
WritesOwn == Unless(Tearing \cup {"held", "shared"}) \/ ~event.stray

\* No cluster is lost: an allocated one is the directory's, which has as many as its
\* entries need, or a file's, also after a write that ran out of clusters half way,
\* unless a folder is removed with a file in it that its path does not find (missed);
\* and getFreeCluster misses no free one, although frees are noted as cluster numbers
\* and looked for as card addresses (which may also take it outside the table: astray).
NothingLost ==
    /\ \/ Unless(Tearing \cup {"dropped", "shared", "missed"})
       \/ card.used = DirClusters \cup UNION {ClustersAt(p) : p \in LiveFiles}
    /\ \/ Unless(Tearing \cup {"half", "held"})
       \/ \A d \in Directories :
             Cardinality(ClustersAt(d)) = (page[d].length + 1) \div 2
    /\ \A c \in Fat : c \notin card.used => card.hint <= FirstAllocatable + c

\* What Vmc_Dread lists of a directory, skipping entries that do not exist, is what a
\* path finds: each entry is read from a page of the directory, and a search for its
\* name comes to that very page, unless an entry before it has the name or begins it.
ListedIsFound ==
    \/ Unless(Tearing \cup {"half", "held"})
    \/ \A e \in Directories : \A i \in 2 .. page[e].length - 1 :
          LET at(j) == At(card, page[e].cluster, j)
          IN  /\ ~Unreadable(page, at(i))
              /\ \/ \E j \in 2 .. i - 1 : Matches(page[at(j)].name, page[at(i)].name)
                 \/ Scan(card, page, e, page[at(i)].name) = at(i)
=============================================================================
