SPECIFICATION Spec
CONSTANTS
    MaxWindows = 3
    Names = {"f"}
    FirstFiles <- MCFirstFiles
    MaxLen = 4
    MaxEvents = 7
INVARIANTS
    TypeOK
    BufferSound
    LineEndsWhole
    EditsAskedFor
