\* The table against the driver, once FTP clients mount units too.
SPECIFICATION Spec
CONSTANTS
    Parties = {p1, p2}
    None = None
    FtpUnits = {0}
SYMMETRY Symmetry
INVARIANT TableTrueWithFtp
CHECK_DEADLOCK FALSE
