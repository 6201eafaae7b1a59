SPECIFICATION Spec
CONSTANTS
    save = save
    file = file
    sub = sub
    other = other
    Top = Top
    Nodes = {save, file, sub, other}
    Folders = {save, sub}
    Parent <- Tree
    Items <- Listed
    NoOverwrite = TRUE
    Followed = {"unattributed", "abandoned"}
INVARIANTS
    TypeOK
    CutKeeps
    ContentsCopied
    NothingLeftOpen
