SPECIFICATION FairSpec
CONSTANTS
    Threads = {"ee", "ftpd"}
    MayCall <- MCMayCall
    Direct = {"ftpd"}
    Names = {"n"}
    MaxFd = 2
    MaxSegments = 2
    MaxConns = 2
    MaxWork = 6
    Followed = {}
INVARIANTS
    TypeOK
    InStep
    DescriptorsAgree
    NoGhosts
PROPERTIES
    Implements
    CallsReturn
