\* Four sockets for two clients: one of them at most has a data connection.
SPECIFICATION FairSpec
CONSTANTS
    Slots = {c1, c2}
    SocketLimit = 4
    AuthLimit = 1
    Anonymous = FALSE
PROPERTIES
    RoundsEnd
