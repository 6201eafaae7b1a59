\* One partition more than there are units, so that units are evicted; FTP clients
\* mount what they like on pfs0:, as CWD does.
SPECIFICATION Spec
CONSTANTS
    Parties = {p1, p2, p3, p4, p5}
    None = None
    FtpUnits = {0}
SYMMETRY Symmetry
INVARIANTS
    TypeOK
    VictimExists
    TableTrue
    OneUnitPerParty
    CopyUnitsHold
    IndexedUseRight
    ImagesPinned
