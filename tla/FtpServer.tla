------------------------------ MODULE FtpServer ------------------------------
(***************************************************************************)
(* The FTP server of oldlibs/ps2ftpd: one IOP thread that serves every     *)
(* client from a select loop (FtpServer.c), a session per client with its  *)
(* login, its data connection and its transfer (FtpClient.c,               *)
(* FtpCommands.c), and one file or directory handle per session            *)
(* (FileSystem.c).                                                         *)
(*                                                                         *)
(* A round is one call of FtpServer_HandleEvents.  The sets r and w are    *)
(* filled in before select and tested much later, when commands handled    *)
(* in between may have closed a socket and opened another one under the    *)
(* same number: sockets are numbers here, and a new one gets the least     *)
(* number that is free.  Sockets are blocking: an accept or a recv on a    *)
(* socket that select did not report, and a send the peer does not read,   *)
(* hold the server, and every client with it, for as long as the peer      *)
(* likes.                                                                  *)
(*                                                                         *)
(* Peers have no state: which of the registered sockets are ready, the     *)
(* commands that arrive, whether files exist and what the drivers return   *)
(* are all left open.  Whether a registered socket is ready is decided     *)
(* when the code tests it.                                                 *)
(***************************************************************************)
EXTENDS Integers, Sequences, FiniteSets

CONSTANTS
    Slots,         \* m_kClientArray
    SocketLimit,   \* the sockets ps2ip has
    AuthLimit,     \* failed logins a client may make before it is disconnected
    Anonymous      \* m_iAnonymous

ASSUME FtpAssumption ==
    /\ SocketLimit \in Nat \ {0} /\ AuthLimit \in Nat
    /\ Anonymous \in BOOLEAN

Fds == 0 .. SocketLimit - 1
NoFd == -1                         \* no data socket
ServerFd == 0                      \* pServer->m_iSocket

VARIABLES
    client,        \* the sessions, one per slot
    order,         \* m_kClients: the slots in use, in the order of the list
    open,          \* the sockets that are open
    dropped,       \* those of them that OnCmdPasv has opened and forgotten
    stage,         \* where HandleEvents is: "select", "control", "data"
    todo,          \* the clients this round has still to visit
    r, w,          \* the sockets registered for select, to read and to write
    fresh,         \* the sockets opened since select returned
    stalled,       \* the server waits for the client at hand, in "recv" (or accept)
                   \* or in "send"; "no" if it does not wait
    event          \* what the last step did that a property asks about

session == <<client, order, open, dropped>>
round == <<stage, todo, r, w, fresh, stalled>>
vars == <<session, round, event>>

(***************************************************************************)
(* fs is the session's FSContext: "read", "write" and "dir" are what the   *)
(* last command opened, "closed" is anything that cannot be transferred:   *)
(* FS_INVALID, FS_IODEVICE with nothing open as DELE leaves it, and the    *)
(* list of devices that a failing FileSystem_ClassifyPath leaves.          *)
(***************************************************************************)
Handles == {"read", "write", "dir"}

Session ==
    [server : BOOLEAN, ctl : Fds \cup {NoFd},
     auth : {"invalid", "password", "fakepass", "valid"}, attempts : 0 .. AuthLimit,
     data : Fds \cup {NoFd}, conn : {"idle", "listen", "connect", "running"},
     mode : {"idle", "read", "write"}, action : {"none", "list", "retr", "stor"},
     port : BOOLEAN, fs : Handles \cup {"closed"}]

\* A slot that is not in use; FtpClient_Create clears what a former client left
Free ==
    [server |-> FALSE, ctl |-> NoFd, auth |-> "invalid", attempts |-> 0,
     data |-> NoFd, conn |-> "idle", mode |-> "idle", action |-> "none",
     port |-> FALSE, fs |-> "closed"]

Attached == {c \in Slots : client[c].server}

Least(S) == CHOOSE i \in S : \A j \in S : i <= j

-----------------------------------------------------------------------------
(***************************************************************************)
(* A handler maps a world [s, open, fresh, ev], the session it works on    *)
(* and the sockets, to a world, or to a set of worlds when a driver or the *)
(* network decides.                                                        *)
(***************************************************************************)
World(c) == [s |-> client[c], open |-> open, fresh |-> fresh, ev |-> "none"]

CanOpen(x) == Fds \ x.open # {}
NewFd(x) == Least(Fds \ x.open)
Closed(x, fd) == [x EXCEPT !.open = @ \ {fd}, !.fresh = @ \ {fd}]
Opened(x, fd) == [x EXCEPT !.open = @ \cup {fd}, !.fresh = @ \cup {fd}]

\* Mutation: the file stays open
CleanupKeepsFile(x) ==
    [Closed(x, x.s.data) EXCEPT !.s.data = NoFd, !.s.port = FALSE,
                                !.s.conn = "idle", !.s.mode = "idle"]

\* FtpClient_OnDataCleanup
OnDataCleanup(x) ==
    [Closed(x, x.s.data) EXCEPT !.s.fs = "closed", !.s.data = NoFd, !.s.port = FALSE,
                                !.s.conn = "idle", !.s.mode = "idle"]

\* FtpClient_OnDataComplete: 226.  The action is not reset
OnDataComplete(x) == OnDataCleanup(x)

\* FtpClient_OnDataFailed: 500
OnDataFailed(x) == OnDataCleanup([x EXCEPT !.s.action = "none"])

\* FtpClient_OnDataConnected: 150 unless there is no action.  It is "phantom" when
\* nothing is open that could be transferred.
OnDataConnected(x) ==
    [x EXCEPT !.s.conn = "running",
              !.s.mode = CASE x.s.action = "none" -> "idle"
                           [] x.s.action = "stor" -> "read"
                           [] OTHER               -> "write",
              !.ev = IF x.s.action # "none" /\ x.s.fs = "closed" THEN "phantom" ELSE "none"]

\* Mutation: the socket that was there is not closed
ConnectKeepsListener(x) ==
    IF ~ CanOpen(x) THEN {OnDataFailed(x)}
    ELSE LET y == [Opened(x, NewFd(x)) EXCEPT !.s.data = NewFd(x)]
         IN  {OnDataConnected(y), [y EXCEPT !.s.conn = "connect"], OnDataFailed(y)}

\* FtpClient_OnDataConnect
OnDataConnect(x) ==
    LET bare == [Closed(x, x.s.data) EXCEPT !.s.data = NoFd]
        y    == [Opened(bare, NewFd(bare)) EXCEPT !.s.data = NewFd(bare)]
    IN  IF ~ CanOpen(bare) THEN {OnDataFailed(bare)}
        ELSE {OnDataConnected(y), [y EXCEPT !.s.conn = "connect"], OnDataFailed(y)}

\* FtpClient_HandleDataConnect
HandleDataConnect(x) ==
    IF x.s.conn = "running" THEN {OnDataConnected(x)}
    ELSE IF x.s.port THEN OnDataConnect(x)
    ELSE IF x.s.conn # "listen" THEN {OnDataFailed(x)}
    ELSE {x}

(***************************************************************************)
(* What the session's handle gives: data, the end of it, -1, or another    *)
(* negative result of a driver.                                            *)
(***************************************************************************)
ReadFile(x) == IF x.s.fs = "read" THEN {"data", "end", "-1", "error"} ELSE {"-1"}
WriteFile(x) == IF x.s.fs = "write" THEN {"data", "-1", "error"} ELSE {"-1"}

\* The list of devices may be read where no directory is open
ReadDir(x) == {"data", "error"} \cup (IF x.s.fs = "dir" THEN {"end"} ELSE {})

\* FtpClient_OnDataWrite.  A file's read of -1 fails; another failure, and any failure
\* to read a directory, completes the transfer like the end of the data
OnDataWrite(x) ==
    LET data == CASE x.s.action = "retr" -> ReadFile(x)
                  [] x.s.action = "list" -> ReadDir(x)
                  [] OTHER               -> {"-1"}
    IN  (IF "data" \in data THEN {x} ELSE {})
        \cup (IF data \cap {"end", "error"} # {} THEN {OnDataComplete(x)} ELSE {})
        \cup (IF "-1" \in data THEN {OnDataFailed(x)} ELSE {})

\* FtpClient_OnDataRead: the end of the data completes the transfer whatever is open
OnDataRead(x) ==
    IF x.s.action # "stor" THEN {OnDataFailed(x)}
    ELSE {OnDataComplete(x), OnDataFailed(x)}
         \cup (IF "data" \in WriteFile(x) THEN {x} ELSE {})

\* The LISTEN branch of FtpServer_HandleEvents: the new socket exists before the
\* listening one is closed
Accepted(x) ==
    IF ~ CanOpen(x) THEN {x}
    ELSE {OnDataConnected([Closed(Opened(x, NewFd(x)), x.s.data)
                               EXCEPT !.s.data = NewFd(x)])}

-----------------------------------------------------------------------------
Init ==
    /\ client = [c \in Slots |-> Free]
    /\ order = <<>>
    /\ open = {ServerFd} /\ dropped = {}
    /\ stage = "select"
    /\ todo = <<>>
    /\ r = {} /\ w = {} /\ fresh = {}
    /\ stalled = "no"
    /\ event = "none"

-----------------------------------------------------------------------------
(***************************************************************************)
(* FtpServer_HandleEvents: fill the sets, select, accept a client, then    *)
(* visit every client: first its control socket, then its data socket.     *)
(***************************************************************************)
ForWriting(s) == s.conn = "connect" \/ s.mode = "write"
ForReading(s) == ~ ForWriting(s) /\ (s.conn = "listen" \/ s.mode = "read")

Using(S, P(_)) == {client[c].data : c \in {d \in S : P(client[d])}} \ {NoFd}
ReadFds == {ServerFd} \cup {client[c].ctl : c \in Attached} \cup Using(Attached, ForReading)
WriteFds == Using(Attached, ForWriting)

\* The visit of the clients in list, the sockets f being fresh; after the last one
\* nothing is kept of what the round knew about the sockets
Visit(list, f) ==
    /\ todo' = list
    /\ IF list = <<>>
       THEN stage' = "select" /\ r' = {} /\ w' = {} /\ fresh' = {}
       ELSE stage' = "control" /\ fresh' = f /\ UNCHANGED <<r, w>>

Select(list, f) ==
    /\ stage = "select"
    /\ todo' = list
    /\ IF list = <<>> THEN UNCHANGED <<stage, r, w, fresh>>
       ELSE stage' = "control" /\ r' = ReadFds /\ w' = WriteFds /\ fresh' = f
    /\ event' = "none"
    /\ UNCHANGED <<dropped, stalled>>

\* Nobody connects, accept fails, or there is no slot left: 421
SelectClients == Select(order, {}) /\ UNCHANGED <<client, order, open>>

\* FtpServer_OnClientConnect and FtpClient_Create, in any free slot: the client is added
\* at the end of the list, where this round visits it
OnClientConnect(c) ==
    /\ Fds \ open # {}
    /\ ~ client[c].server
    /\ LET fd == Least(Fds \ open)
       IN  /\ client' = [client EXCEPT ![c] = [Free EXCEPT !.server = TRUE, !.ctl = fd]]
           /\ open' = open \cup {fd}
           /\ Select(Append(order, c), {fd})
    /\ order' = Append(order, c)

\* Mutation: the next client is read from the list after the client at hand left it
RestAfterRemoval == IF client[Head(todo)].server THEN Tail(todo) ELSE todo

\* Mutation: a client whose listening socket was served is visited once more
RestTwice == IF client[Head(todo)].conn = "listen" /\ stage = "control" THEN todo ELSE Tail(todo)

\* The clients still to visit after the one at hand: pClientNext was saved before
Rest == Tail(todo)

-----------------------------------------------------------------------------
(***************************************************************************)
(* Commands: the control socket of the client at hand is readable.         *)
(***************************************************************************)
Turn(c) == todo # <<>> /\ c = Head(todo)
Command(c) ==
    /\ Turn(c) /\ stage = "control" /\ client[c].ctl \in r
    /\ stalled # "recv"
LoggedIn(c) == Command(c) /\ client[c].auth = "valid"

AfterCommand(c, x) ==
    /\ client' = [client EXCEPT ![c] = x.s]
    /\ open' = x.open
    /\ fresh' = x.fresh
    /\ event' = x.ev
    /\ stage' = "data"
    /\ stalled' = "no"
    /\ UNCHANGED <<todo, r, w>>

Handle(c, x) ==
    /\ AfterCommand(c, x)
    /\ UNCHANGED <<order, dropped>>

Position(c) == CHOOSE i \in DOMAIN order : order[i] = c

\* FtpClient_Destroy
Destroy(x) ==
    [Closed(OnDataCleanup(x), x.s.ctl) EXCEPT !.s = [Free EXCEPT !.data = OnDataCleanup(x).s.data]]

\* FtpServer_OnClientDisconnect
Disconnect(c) ==
    /\ AfterCommand(c, Destroy(World(c)))
    /\ order' = SubSeq(order, 1, Position(c) - 1) \o SubSeq(order, Position(c) + 1, Len(order))
    /\ UNCHANGED dropped

\* recv failed, or the client sent QUIT
HangUp(c) == Command(c) /\ Disconnect(c)

User(c) ==
    /\ Command(c)
    /\ client[c].auth # "valid"
    /\ \E a \in {"password", "fakepass"} \cup (IF Anonymous THEN {"valid"} ELSE {}) :
          Handle(c, [World(c) EXCEPT !.s.auth = a,
                                     !.s.attempts = IF a = "valid" THEN 0 ELSE @])

\* The attempts are not looked at again, and dropped here
PassRight(c) ==
    /\ Command(c)
    /\ client[c].auth = "password"
    /\ Handle(c, [World(c) EXCEPT !.s.auth = "valid", !.s.attempts = 0])

\* Mutation: the attempts are compared before they are counted
LastAttemptLate(c) == client[c].attempts > AuthLimit

LastAttempt(c) == client[c].attempts + 1 > AuthLimit

\* A password that does not match, or one no user name asked for
PassWrong(c) ==
    /\ Command(c)
    /\ client[c].auth # "valid"
    /\ IF client[c].auth = "invalid" THEN Handle(c, World(c))
       ELSE IF LastAttempt(c) THEN Disconnect(c)
       ELSE Handle(c, [World(c) EXCEPT !.s.auth = "invalid", !.s.attempts = @ + 1])

\* NOOP, TYPE, MODE, STRU, SYST, and whatever is refused or ignored
Reply(c) == Command(c) /\ Handle(c, World(c))

\* FtpClient_OnCmdPasv
Pasv(c) ==
    LET x == OnDataCleanup(World(c))
        y == Opened(x, NewFd(x))
    IN  /\ LoggedIn(c)
        /\ \/ Handle(c, x)
           \/ /\ CanOpen(x)
              /\ Handle(c, [y EXCEPT !.s.data = NewFd(x), !.s.conn = "listen"])

\* The second getsockname of OnCmdPasv fails: the new socket is not closed
PasvUnnamed(c) ==
    LET x == OnDataCleanup(World(c))
    IN  /\ LoggedIn(c)
        /\ CanOpen(x)
        /\ AfterCommand(c, Opened(x, NewFd(x)))
        /\ dropped' = dropped \cup {NewFd(x)}
        /\ UNCHANGED order

\* FtpClient_OnCmdPort leaves a data connection there is alone
Port(c) == LoggedIn(c) /\ Handle(c, [World(c) EXCEPT !.s.port = TRUE])

\* FileSystem_Close, and nothing opened afterwards
Shut(x) == [x EXCEPT !.s.fs = "closed"]

\* FileSystem_OpenFile and FileSystem_OpenDir when they succeed; a failure is Shut
OpenFile(x, handle) == [x EXCEPT !.s.fs = handle]
OpenDir(x) == [x EXCEPT !.s.fs = "dir"]

\* FtpClient_OnCmdList sets the action first, then opens the directory
List(c) ==
    LET x == [World(c) EXCEPT !.s.action = "list"]
    IN  /\ LoggedIn(c)
        /\ \/ Handle(c, Shut(x))
           \/ \E y \in HandleDataConnect(OpenDir(x)) : Handle(c, y)

\* The action is set if the file opens
Transfer(c, action, handle) ==
    /\ LoggedIn(c)
    /\ \/ Handle(c, Shut(World(c)))
       \/ \E y \in HandleDataConnect([OpenFile(World(c), handle) EXCEPT !.s.action = action]) :
             Handle(c, y)

Retr(c) == Transfer(c, "retr", "read")

\* STOR and APPE
Stor(c) == Transfer(c, "stor", "write")

\* DELE, MKD, RMD and an RNFR that fails close what is open
Manage(c) == LoggedIn(c) /\ Handle(c, Shut(World(c)))

\* So does CWD when it unmounts and mounts, below /hdd/0/
Cwd(c) == LoggedIn(c) /\ \E x \in {World(c), Shut(World(c))} : Handle(c, x)

\* SIZE opens the file to measure it
Size(c) == LoggedIn(c) /\ Handle(c, Shut(World(c)))

\* SITE's MNT, UMNT and SYNC close what is open
Site(c) == LoggedIn(c) /\ \E x \in {World(c), Shut(World(c))} : Handle(c, x)

Pwd(c) == LoggedIn(c) /\ Handle(c, World(c))

\* RNFR opens the file or the directory to see that it exists, and closes it again
\* when it classifies the path
Rnfr(c) == LoggedIn(c) /\ Handle(c, Shut(World(c)))

\* RNTO renames what the buffer all clients share names, whoever sent the RNFR
Rnto(c) == LoggedIn(c) /\ Handle(c, Shut(World(c)))

-----------------------------------------------------------------------------
(***************************************************************************)
(* The data socket of the client at hand.                                  *)
(***************************************************************************)
HasData(c) == client[c].data # NoFd /\ (ForWriting(client[c]) \/ ForReading(client[c]))
TestedSet(c) == IF ForWriting(client[c]) THEN w ELSE r

\* FD_ISSET may hold
Tested(c) == HasData(c) /\ client[c].data \in TestedSet(c)

AfterData(c, x) ==
    /\ client' = [client EXCEPT ![c] = x.s]
    /\ open' = x.open
    /\ event' = x.ev
    /\ stalled' = "no"
    /\ Visit(Rest, x.fresh)
    /\ UNCHANGED <<order, dropped>>

\* The data socket is not ready, or there is none
NoData(c) == Turn(c) /\ stalled = "no" /\ AfterData(c, World(c))

Ready(c) == Turn(c) /\ Tested(c)

\* The number was registered, but not for the socket that has it now, and whose peer
\* has done nothing yet: accept or recv waits
RecvWaits(c) ==
    /\ Ready(c)
    /\ ForReading(client[c])
    /\ client[c].data \in fresh
    /\ stalled = "no"
    /\ stalled' = "recv"
    /\ event' = "none"
    /\ UNCHANGED <<session, stage, todo, r, w, fresh>>

\* A reply or data that the peer does not read
SendWaits(c) ==
    /\ Command(c) \/ Ready(c)
    /\ stalled = "no"
    /\ stalled' = "send"
    /\ event' = "none"
    /\ UNCHANGED <<session, stage, todo, r, w, fresh>>

\* getsockopt tells how the connect ended
DataConnectEnds(c) ==
    /\ Ready(c)
    /\ client[c].conn = "connect"
    /\ \E y \in {OnDataConnected(World(c)), OnDataFailed(World(c))} : AfterData(c, y)

DataAccept(c) ==
    /\ Ready(c)
    /\ ~ ForWriting(client[c]) /\ client[c].conn = "listen"
    /\ \E y \in Accepted(World(c)) : AfterData(c, y)

DataWrite(c) ==
    /\ Ready(c)
    /\ client[c].conn # "connect" /\ client[c].mode = "write"
    /\ \E y \in OnDataWrite(World(c)) : AfterData(c, y)

DataRead(c) ==
    /\ Ready(c)
    /\ client[c].conn # "listen" /\ client[c].mode = "read"
    /\ \E y \in OnDataRead(World(c)) : AfterData(c, y)

-----------------------------------------------------------------------------
Control(c) ==
    \/ HangUp(c) \/ User(c) \/ PassRight(c) \/ PassWrong(c) \/ Reply(c)
    \/ Pasv(c) \/ PasvUnnamed(c) \/ Port(c) \/ List(c) \/ Retr(c) \/ Stor(c) \/ Manage(c)
    \/ Cwd(c) \/ Size(c) \/ Site(c) \/ Pwd(c) \/ Rnfr(c) \/ Rnto(c)

Data(c) ==
    NoData(c) \/ DataConnectEnds(c) \/ DataAccept(c) \/ DataWrite(c) \/ DataRead(c)

Serve == \E c \in Slots : Control(c) \/ Data(c)

Next ==
    \/ SelectClients
    \/ \E c \in Slots : OnClientConnect(c) \/ RecvWaits(c) \/ SendWaits(c)
    \/ Serve

Spec == Init /\ [][Next]_vars

\* The server's thread runs on while it does not wait for a peer; nothing makes a peer
\* end a wait
FairSpec == Spec /\ WF_vars(stalled = "no" /\ Serve)

-----------------------------------------------------------------------------
\* Every variable has its type; no session has more failed logins than the limit.
TypeOK ==
    /\ client \in [Slots -> Session]
    /\ order \in Seq(Slots)
    /\ open \subseteq Fds /\ dropped \subseteq Fds
    /\ stage \in {"select", "control", "data"}
    /\ todo \in Seq(Slots)
    /\ r \subseteq Fds /\ w \subseteq Fds /\ fresh \subseteq Fds
    /\ stalled \in {"no", "recv", "send"}
    /\ event \in {"none", "phantom"}

Sockets(c) == {client[c].ctl, client[c].data} \ {NoFd}

\* Every open socket is the server's or a client's, but for those a failing getsockname
\* made OnCmdPasv forget; every socket referred to is open, and none is referred to
\* twice, although the numbers are reused all the time.
SocketsAccounted ==
    /\ open = {ServerFd} \cup dropped \cup UNION {Sockets(c) : c \in Slots}
    /\ ServerFd \notin dropped
    /\ \A c \in Slots :
          /\ client[c].ctl = client[c].data => client[c].ctl = NoFd
          /\ Sockets(c) \cap ({ServerFd} \cup dropped) = {}
          /\ \A d \in Slots \ {c} : Sockets(c) \cap Sockets(d) = {}

\* No driver keeps a file or directory open for a client without a data connection.
HandlesHaveConnection ==
    \A c \in Slots : client[c].conn = "idle" => client[c].fs = "closed"

\* The stale sets make the server wait in accept or recv only for the client whose
\* command it has just handled: what one client does to the sockets never makes it wait
\* for another that is only transferring, or waiting for its own peer.
WaitFollowsCommand ==
    [][stalled = "no" /\ stalled' = "recv" => stage = "data"]_vars

\* If no peer holds the server for ever every round ends, also when the client it visits
\* leaves the list and when sockets have run out.
RoundsEnd == []<>(stalled = "no") => []<>(stage = "select")

\* "something has gone wrong, but we have an open socket here, keep it for re-use": a
\* data connection made when nothing is open to transfer starts no transfer.
KeptForReuse == event # "phantom"
=============================================================================
