\* Two clients, and sockets for both to have a data connection, or for one to accept its
\* peer while the other has none; a second failed login disconnects.
SPECIFICATION Spec
CONSTANTS
    Slots = {c1, c2}
    SocketLimit = 5
    AuthLimit = 1
    Anonymous = TRUE
SYMMETRY Symmetry
INVARIANTS
    TypeOK
    SocketsAccounted
    HandlesHaveConnection
PROPERTIES
    WaitFollowsCommand
