SPECIFICATION Spec
CONSTANTS
    h1 = h1
    h2 = h2
    one = one
    two = two
    inner = inner
    save = save
    save2 = save2
    folder = folder
    Dot = Dot
    Blank = Blank
    Files <- MCFiles
    Folders = {folder}
    Prefixes <- MCPrefixes
    Setups <- MCSetups
    Handles = {h1, h2}
    Clusters = 5
    FirstAllocatable = 3
    ClusterSize = 2
    MaxEntries = 2
    MaxLength = 3
SYMMETRY Symmetry
INVARIANTS
    TypeOK
    ChainsEnd
    FilesApart
    WritesOwn
    NothingLost
    ListedIsFound
