SPECIFICATION Spec
CONSTANTS
    Slots = {c1, c2}
    SocketLimit = 6
    AuthLimit = 1
    Anonymous = TRUE
SYMMETRY Symmetry
INVARIANTS
    KeptForReuse
