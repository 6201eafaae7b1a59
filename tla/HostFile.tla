------------------------------ MODULE HostFile ------------------------------
(***************************************************************************)
(* The host: driver (ps2host): files on a PC, reached through requests and *)
(* replies on one TCP connection at a time.                                *)
(*                                                                         *)
(* Threads of the IOP call the driver: the one that serves uLaunchELF's    *)
(* calls, and the FTP server's, which calls the driver's functions         *)
(* directly (Direct).  A semaphore lets one of them at a time talk to the  *)
(* PC; the driver's variables about renaming and removing are set outside  *)
(* it.  A further thread accepts connections and replaces the socket       *)
(* whenever the PC connects.                                               *)
(*                                                                         *)
(* Every access to the global pko_fileio_sock that other threads may come  *)
(* between is a step: the argument of a send, a recv or a disconnect is    *)
(* read first, and the call may find its connection closed.  A read looks  *)
(* at it a third time, between the header of its reply and the data.       *)
(*                                                                         *)
(* The PC is external: it answers the requests of a connection in order,   *)
(* with replies of the right kind, may close the connection or be gone     *)
(* without a word at any time, and keeps the descriptors of a connection   *)
(* for that connection.                                                    *)
(***************************************************************************)
EXTENDS Integers, Sequences, FiniteSets

CONSTANTS
    Threads,       \* threads that call the driver
    MayCall,       \* bound: the operations each of them uses
    Direct,        \* those that call its functions without the I/O manager
    Names,         \* names on the PC
    MaxFd,         \* descriptors the PC hands out in a connection: 1 .. MaxFd
    MaxSegments,   \* bound: packets a write is divided into
    MaxConns,      \* bound: connections the PC makes
    MaxWork,       \* bound: calls of the driver, a connection counting as two
    Followed       \* bound: the mishaps the driver is followed through

\* Turns of events the driver does not provide for:
\*   crossed   a thread calls while another is between a removal and the
\*             mkdir the I/O manager makes of it, or an ioctl and its close
\*   replaced  the socket is replaced while a call is using it, or between
\*             the header a read has and the data it goes on to
\*   outlived  a descriptor is used on another connection than its own
Mishaps == {"crossed", "replaced", "outlived"}

PathOps == {"open", "creat", "dopen", "remove", "mkdir", "rmdir"}
FileOps == {"read", "write", "lseek", "close", "ioctl"}
DirOps == {"dread", "dclose", "ioctl"}
Ops == PathOps \cup FileOps \cup DirOps

Nobody == "nobody"

ASSUME HostAssumption ==
    /\ Nobody \notin Threads
    /\ MayCall \in [Threads -> SUBSET Ops]
    /\ Direct \subseteq Threads
    /\ MaxFd \in Nat \ {0}
    /\ MaxSegments \in Nat \ {0}
    /\ MaxConns \in Nat
    /\ MaxWork \in Nat
    /\ Followed \subseteq Mishaps

VARIABLES
    sock,          \* pko_fileio_sock: a connection, or NoSock for -1
    server,        \* where the server thread is, and the connection accepted
    sema,          \* the thread that has fsys_sema, or Nobody
    call,          \* each thread's call
    file,          \* the iop_file_t each thread has open
    flags,         \* lastopen_fd, renamed_fd, remove_flag, remove_result
    recv_packet,   \* the buffer: the retval last received into it, and what it
                   \* has where the reply to a read counts its data
    link,          \* external: the state of each connection
    requests,      \* external: requests the PC has not yet served
    replies,       \* external: replies not yet received
    opened,        \* external: who had each descriptor of a connection opened
    disk,          \* external: what each name on the PC is
    mishaps,       \* history: which of the mishaps have happened
    work           \* history: calls and connections made, see MaxWork

driver == <<sock, server, sema, call, file, flags, recv_packet>>
pc == <<link, requests, replies, opened, disk>>
vars == <<driver, pc, mishaps, work>>

NoSock == 0
Conns == 1 .. MaxConns
Fds == 1 .. MaxFd

Renamed == -6        \* the PC has closed the file, and could not rename it
Undone == -9         \* the PC has not answered yet
Retvals == {Renamed, -1} \cup 0 .. MaxFd
Rets == {Renamed, -1} \cup 0 .. (MaxFd * (MaxSegments + 1))

NoCall == [op |-> "none", at |-> "idle", name |-> "none", fd |-> -1,
           conn |-> NoSock, left |-> 0, ret |-> 0, done |-> Undone, made |-> FALSE]

NoFile == [kind |-> "none", fd |-> -1, conn |-> NoSock, renamed |-> FALSE]

TypeOK ==
    /\ sock \in Conns \cup {NoSock}
    /\ server \in [at : {"start", "accept", "install", "ended"},
                   conn : Conns \cup {NoSock}]
    /\ sema \in Threads \cup {Nobody}
    /\ call \in [Threads ->
          [op : Ops \cup {"none"},
           at : {"idle", "again", "send", "sending", "closing", "clearing",
                 "await", "recv", "count", "data", "post"},
           name : Names \cup {"none"}, fd : Rets, conn : Conns \cup {NoSock},
           left : 0 .. MaxSegments, ret : Rets, done : Retvals \cup {Undone},
           made : BOOLEAN]]
    /\ file \in [Threads -> [kind : {"none", "file", "dir"}, fd : Rets,
                             conn : Conns \cup {NoSock}, renamed : BOOLEAN]]
    /\ flags \in [lastopen_fd : Rets, renamed_fd : Rets,
                  remove_flag : BOOLEAN, remove_result : Rets]
    /\ recv_packet \in [retval : Retvals, nbytes : Retvals]
    /\ link \in [Conns -> {"none", "open", "shut", "lost", "closed"}]
    /\ requests \in [Conns -> Seq([by : Threads, op : Ops, name : Names \cup {"none"},
                                   fd : Rets, made : BOOLEAN])]
    /\ replies \in [Conns -> Seq([by : Threads, op : Ops \cup {"data"}, ret : Retvals])]
    /\ opened \in [Conns -> [Fds -> Threads \cup {Nobody}]]
    /\ disk \in [Names -> {"none", "file", "dir", "ghost"}]
    /\ mishaps \subseteq Mishaps
    /\ work \in 0 .. MaxWork

Over == mishaps \ Followed # {}

Init ==
    /\ sock = NoSock
    /\ server = [at |-> "start", conn |-> NoSock]
    /\ sema = Nobody
    /\ call = [t \in Threads |-> NoCall]
    /\ file = [t \in Threads |-> NoFile]
    /\ flags = [lastopen_fd |-> 0, renamed_fd |-> 0,
                remove_flag |-> FALSE, remove_result |-> 0]
    /\ recv_packet = [retval |-> 0, nbytes |-> 0]
    /\ link = [c \in Conns |-> "none"]
    /\ requests = [c \in Conns |-> <<>>]
    /\ replies = [c \in Conns |-> <<>>]
    /\ opened = [c \in Conns |-> [f \in Fds |-> Nobody]]
    /\ disk \in [Names -> {"none", "file", "dir"}]
    /\ mishaps = {}
    /\ work = 0

----------------------------------------------------------------------------
(* The PC.                                                                 *)

\* The connection's requests as the PC carries them out: result, descriptors
\* of the connection and disk afterwards.
Served(c, q) ==
    LET same(r) == [ret |-> r, opened |-> opened[c], disk |-> disk]
        fds(f, who) == [opened[c] EXCEPT ![f] = who]
        named(kind) == [disk EXCEPT ![q.name] = kind]
        free == {f \in Fds : opened[c][f] = Nobody}
        lowest == CHOOSE f \in free : \A g \in free : f <= g
        open(d) == [ret |-> lowest, opened |-> fds(lowest, q.by), disk |-> d]
        held == q.fd \in Fds /\ opened[c][q.fd] # Nobody
        isDir == disk[q.name] \in {"dir", "ghost"}
    IN  CASE q.op = "open" /\ free # {} /\ disk[q.name] = "file" -> {open(disk)}
          [] q.op = "creat" /\ free # {} /\ disk[q.name] \in {"none", "file"} ->
                {open(named("file"))}
          [] q.op = "dopen" /\ free # {} /\ isDir -> {open(disk)}
          [] q.op = "remove" /\ disk[q.name] = "file" ->
                {[same(0) EXCEPT !.disk = named("none")]}
          [] q.op = "mkdir" /\ disk[q.name] = "none" ->
                {[same(0) EXCEPT !.disk = named(IF q.made THEN "ghost" ELSE "dir")]}
          [] q.op = "rmdir" /\ isDir -> {[same(0) EXCEPT !.disk = named("none")]}
          [] q.op \in {"close", "dclose"} /\ held ->
                {[same(0) EXCEPT !.opened = fds(q.fd, Nobody)]}
          [] q.op = "ioctl" /\ held ->
                {[same(r) EXCEPT !.opened = fds(q.fd, Nobody)] : r \in {0, Renamed}}
          [] q.op = "write" /\ held -> {same(0), same(1)}
          [] q.op \in {"read", "lseek", "dread"} /\ held -> {same(1)}
          [] OTHER -> {same(-1)}

\* The caller still waits for the request, which its call has not left behind.
StillAsked(c, q) ==
    /\ call[q.by].at \in {"await", "recv"}
    /\ call[q.by].conn = c
    /\ call[q.by].op = q.op

\* A connection the console has closed is served to the end of its requests.
PcServes(c) ==
    /\ link[c] \in {"open", "closed"}
    /\ requests[c] # <<>>
    /\ LET q == Head(requests[c]) IN
       \E s \in Served(c, q) :
          /\ requests' = [requests EXCEPT ![c] = Tail(@)]
          /\ replies' = IF link[c] = "closed" THEN replies
                        ELSE [replies EXCEPT ![c] =
                                 Append(@, [op |-> q.op, by |-> q.by, ret |-> s.ret])]
          /\ opened' = [opened EXCEPT ![c] = s.opened]
          /\ disk' = s.disk
          /\ call' = IF StillAsked(c, q) THEN [call EXCEPT ![q.by].done = s.ret] ELSE call
    /\ UNCHANGED <<sock, server, sema, file, flags, recv_packet, link, mishaps>>

\* The data of a read, once its header has been received.
DataDue(c) == replies[c] # <<>> /\ Head(replies[c]).op = "data"

\* The PC closes the connection: what it has sent can still be received, but
\* the data of a read may be unsent.
PcCloses(c) ==
    /\ link[c] = "open"
    /\ link' = [link EXCEPT ![c] = "shut"]
    /\ requests' = [requests EXCEPT ![c] = <<>>]
    /\ \/ UNCHANGED replies
       \/ DataDue(c) /\ replies' = [replies EXCEPT ![c] = <<>>]
    /\ opened' = [opened EXCEPT ![c] = [f \in Fds |-> Nobody]]
    /\ UNCHANGED <<driver, disk, mishaps>>

\* The PC is gone, with what was on its way.  Sending to it and receiving from
\* it may fail; it may also be that nothing ever tells the console.
LinkLost(c) ==
    /\ link[c] = "open"
    /\ link' = [link EXCEPT ![c] = "lost"]
    /\ requests' = [requests EXCEPT ![c] = <<>>]
    /\ replies' = [replies EXCEPT ![c] = <<>>]
    /\ opened' = [opened EXCEPT ![c] = [f \in Fds |-> Nobody]]
    /\ UNCHANGED <<driver, disk, mishaps>>

\* disconnect(): the console closes the connection at its end.
Disconnected(c) ==
    IF c # NoSock
    THEN /\ link' = [link EXCEPT ![c] = "closed"]
         /\ replies' = [replies EXCEPT ![c] = <<>>]
    ELSE UNCHANGED <<link, replies>>

----------------------------------------------------------------------------
(* The server thread (pko_file_serv).                                      *)

\* socket, bind and listen, or the thread ends.
ServerStarts ==
    /\ server.at = "start"
    /\ \E at \in {"accept", "ended"} : server' = [server EXCEPT !.at = at]
    /\ UNCHANGED <<sock, sema, call, file, flags, recv_packet, pc, mishaps>>

\* A client connects, accept returns, and the socket there is is disconnected;
\* errors of accept are retried.
ServerAccepts(c) ==
    /\ server.at = "accept"
    /\ link[c] = "none"
    /\ \A b \in Conns : b < c => link[b] # "none"
    /\ server' = [at |-> "install", conn |-> c]
    /\ link' = [b \in Conns |-> IF b = c THEN "open"
                                ELSE IF b = sock THEN "closed" ELSE link[b]]
    /\ replies' = [b \in Conns |-> IF b = sock THEN <<>> ELSE replies[b]]
    /\ UNCHANGED <<sock, sema, call, file, flags, recv_packet,
                   requests, opened, disk, mishaps>>

\* A call between its reads of pko_fileio_sock goes on with another socket.
MidCall(t) == call[t].at \in {"sending", "closing", "clearing", "await"}

ServerInstalls ==
    /\ server.at = "install"
    /\ sock' = server.conn
    /\ server' = [at |-> "accept", conn |-> NoSock]
    /\ mishaps' = mishaps \cup
          (IF \E t \in Threads : MidCall(t) THEN {"replaced"} ELSE {})
    /\ UNCHANGED <<sema, call, file, flags, recv_packet, pc>>

----------------------------------------------------------------------------
(* The exchange of a request and its reply (pko_open_file and the others). *)

Set(t, c) == call' = [call EXCEPT ![t] = c]

\* The exchange ends with SignalSema: a thread that waits gets the semaphore.
Leaves(t) ==
    LET waiting == {u \in Threads \ {t} : call[u].at = "send"} IN
    IF waiting = {} THEN sema' = Nobody ELSE sema' \in waiting

\* Mutation: a call that fails returns before SignalSema
ResultHolding(t, r) ==
    /\ Set(t, [call[t] EXCEPT !.at = "post", !.ret = r])
    /\ IF r < 0 THEN UNCHANGED sema ELSE Leaves(t)

Result(t, r) ==
    /\ Set(t, [call[t] EXCEPT !.at = "post", !.ret = r])
    /\ Leaves(t)

Stays(t, c) ==
    /\ Set(t, c)
    /\ UNCHANGED sema

\* Mutation: the semaphore is not waited for
LooksAtOnce(t) ==
    /\ call[t].at = "send"
    /\ sock # NoSock
    /\ Stays(t, [call[t] EXCEPT !.at = "sending", !.conn = sock])
    /\ UNCHANGED <<sock, server, file, flags, recv_packet, pc, mishaps>>

\* Every pko_ function looks at the socket, and reads it again for send.
Looks(t) ==
    /\ call[t].at = "send"
    /\ sema = t
    /\ IF sock = NoSock
       THEN Result(t, -1)
       ELSE Stays(t, [call[t] EXCEPT !.at = "sending", !.conn = sock])
    /\ mishaps' = mishaps \cup
          (IF sock # NoSock /\ call[t].op \notin PathOps /\ file[t].conn # sock
           THEN {"outlived"} ELSE {})
    /\ UNCHANGED <<sock, server, file, flags, recv_packet, pc>>

Request(t) == [by |-> t, op |-> call[t].op, name |-> call[t].name,
               fd |-> call[t].fd, made |-> call[t].made]

\* The PC can be sent to until it is known to be gone.
Sends(t) ==
    /\ call[t].at = "sending"
    /\ link[call[t].conn] \in {"open", "shut", "lost"}
    /\ requests' = IF link[call[t].conn] # "open" THEN requests
                   ELSE [requests EXCEPT ![call[t].conn] = Append(@, Request(t))]
    /\ Stays(t, [call[t] EXCEPT !.at = "await"])
    /\ UNCHANGED <<sock, server, file, flags, recv_packet,
                   link, replies, opened, disk, mishaps>>

\* pko_lwip_send closes the socket after an error; pko_read_file does not.
SendFails(t) ==
    /\ call[t].at = "sending"
    /\ link[call[t].conn] # "open"
    /\ IF call[t].op = "read" THEN Result(t, -1)
       ELSE Stays(t, [call[t] EXCEPT !.at = "closing"])
    /\ UNCHANGED <<sock, server, file, flags, recv_packet, pc, mishaps>>

\* pko_close_socket: whatever pko_fileio_sock is by now.
ClosesSocket(t) ==
    /\ call[t].at = "closing"
    /\ Disconnected(sock)
    /\ Stays(t, [call[t] EXCEPT !.at = "clearing"])
    /\ UNCHANGED <<sock, server, file, flags, recv_packet,
                   requests, opened, disk, mishaps>>

ClearsSocket(t) ==
    /\ call[t].at = "clearing"
    /\ sock' = NoSock
    /\ Result(t, -1)
    /\ UNCHANGED <<server, file, flags, recv_packet, pc, mishaps>>

\* pko_accept_pkt is given the socket of this moment.
Awaits(t) ==
    /\ call[t].at = "await"
    /\ Stays(t, [call[t] EXCEPT !.at = "recv", !.conn = sock])
    /\ UNCHANGED <<sock, server, file, flags, recv_packet, pc, mishaps>>

\* Mutation: what is left to write is not counted down
AnsweredUncounted(t, r) ==
    IF call[t].op # "write" \/ r <= 0 THEN Result(t, r)
    ELSE Stays(t, [call[t] EXCEPT !.at = "send", !.ret = @ + r, !.done = Undone])

\* Mutation: a write returns what its last packet wrote
AnsweredLast(t, r) ==
    IF call[t].op # "write" \/ r <= 0 \/ call[t].left <= r THEN Result(t, r)
    ELSE Stays(t, [call[t] EXCEPT !.at = "send", !.ret = @ + r, !.left = @ - r,
                                  !.done = Undone])

\* What a reply's retval r means to the function: pko_write_file goes on
\* until all is written, an error comes or less than a segment is taken.
Answered(t, r) ==
    IF call[t].op # "write" THEN Result(t, r)
    ELSE LET total == call[t].ret + r
             left == call[t].left - r
         IN  IF r < 0 THEN Result(t, r)
             ELSE IF r = 0 \/ left <= 0 THEN Result(t, total)
             ELSE Stays(t, [call[t] EXCEPT !.at = "send", !.ret = total,
                                         !.left = left, !.done = Undone])

\* What a reply leaves in the buffer; that to a dread has the mode of the
\* folder's entry where a read's has the count.
Buffered(op, r) ==
    [retval |-> r, nbytes |-> IF op # "dread" THEN recv_packet.nbytes
                              ELSE IF r > 0 THEN 1 ELSE 0]

Receives(t) ==
    /\ call[t].at = "recv" /\ call[t].op # "read"
    /\ LET c == call[t].conn IN
          /\ replies[c] # <<>>
          /\ Head(replies[c]).op = call[t].op
          /\ replies' = [replies EXCEPT ![c] = Tail(@)]
          /\ recv_packet' = Buffered(call[t].op, Head(replies[c]).ret)
          /\ Answered(t, Head(replies[c]).ret)
    /\ UNCHANGED <<sock, server, file, flags,
                   link, requests, opened, disk, mishaps>>

\* pko_read_file goes on to the data by the count alone.
Counted(t, n) ==
    IF n > 0 THEN Stays(t, [call[t] EXCEPT !.at = "count"])
    ELSE Result(t, IF n < 0 THEN -1 ELSE 0)

ReceivesCount(t) ==
    /\ call[t].at = "recv" /\ call[t].op = "read"
    /\ LET c == call[t].conn
           r == Head(replies[c])
       IN /\ replies[c] # <<>> /\ r.op = "read"
          /\ recv_packet' = [retval |-> r.ret, nbytes |-> r.ret]
          /\ replies' = [replies EXCEPT ![c] =
                            IF r.ret > 0 THEN <<[r EXCEPT !.op = "data"]>> \o Tail(@) ELSE Tail(@)]
          /\ Counted(t, r.ret)
    /\ UNCHANGED <<sock, server, file, flags,
                   link, requests, opened, disk, mishaps>>

\* The data is asked of the socket of this moment, which need not be the one
\* the header was asked of.
AwaitsData(t) ==
    /\ call[t].at = "count"
    /\ Stays(t, [call[t] EXCEPT !.at = "data", !.conn = sock])
    /\ mishaps' = mishaps \cup (IF sock # call[t].conn THEN {"replaced"} ELSE {})
    /\ UNCHANGED <<sock, server, file, flags, recv_packet, pc>>

ReceivesData(t) ==
    /\ call[t].at = "data"
    /\ LET c == call[t].conn IN
          /\ DataDue(c)
          /\ replies' = [replies EXCEPT ![c] = Tail(@)]
          /\ Result(t, Head(replies[c]).ret)
    /\ UNCHANGED <<sock, server, file, flags, recv_packet,
                   link, requests, opened, disk, mishaps>>

CannotReceive(t) == link[call[t].conn] \in {"lost", "closed"}

\* Without a header pko_accept_pkt returns -1, which its callers take for a
\* reply: they read what the buffer held before, a read its count.
HeaderFails(t) ==
    /\ call[t].at = "recv" /\ CannotReceive(t)
    /\ IF call[t].op = "read" THEN Counted(t, recv_packet.nbytes)
       ELSE Answered(t, recv_packet.retval)
    /\ UNCHANGED <<sock, server, file, flags, recv_packet, pc, mishaps>>

\* With a header, but not the rest, it returns 0, and they an error; nor can a
\* read do without its data.
RestFails(t) ==
    /\ call[t].at \in {"recv", "data"} /\ CannotReceive(t)
    /\ Result(t, -1)
    /\ UNCHANGED <<sock, server, file, flags, recv_packet, pc, mishaps>>

\* recv returns 0 once the PC has closed the connection, and pko_recv_bytes
\* calls it again for the bytes that are left.
Spins(t) ==
    /\ call[t].at \in {"recv", "data"}
    /\ link[call[t].conn] = "shut"
    /\ replies[call[t].conn] = <<>>
    /\ UNCHANGED vars

----------------------------------------------------------------------------
(* What each function puts into its packet; the kind of reply it expects   *)
(* is that of the request.                                                 *)

Packet(op, name, fd) == [NoCall EXCEPT !.at = "send", !.op = op, !.name = name, !.fd = fd]

pko_open_file(name, mode) == Packet(mode, name, -1)
pko_close_file(fd) == Packet("close", "none", fd)
pko_lseek_file(fd) == Packet("lseek", "none", fd)
pko_write_file(fd, segments) == [Packet("write", "none", fd) EXCEPT !.left = segments]
pko_read_file(fd) == Packet("read", "none", fd)
pko_ioctl(fd) == Packet("ioctl", "none", fd)
pko_remove(name) == Packet("remove", name, -1)
pko_mkdir(name) == Packet("mkdir", name, -1)
pko_rmdir(name) == Packet("rmdir", name, -1)
pko_open_dir(name) == Packet("dopen", name, -1)
pko_read_dir(fd) == Packet("dread", "none", fd)
pko_close_dir(fd) == Packet("dclose", "none", fd)

----------------------------------------------------------------------------
(* The driver's functions: what they do before the semaphore ...           *)

\* Where the I/O manager, or the caller, will make the next call itself.
Between(t) ==
    \/ t \notin Direct /\ call[t].op = "remove"
    \/ call[t].at = "again"
    \/ call[t].made
    \/ call[t].op = "ioctl"
    \/ file[t].renamed

Crosses(t, op) ==
    \E u \in Threads \ {t} :
        \/ Between(u)
        \/ op \in {"remove", "ioctl"} /\ call[u].at # "idle"

\* WaitSema, and the exchange.
Calls(t, packet) ==
    /\ call[t].at = "idle"
    /\ packet.op \in MayCall[t]
    /\ Set(t, packet)
    /\ sema' = IF sema = Nobody THEN t ELSE sema
    /\ mishaps' = mishaps \cup (IF Crosses(t, packet.op) THEN {"crossed"} ELSE {})

\* A function that returns without asking the PC.
AtOnce(t, op, made, r) ==
    /\ Set(t, [NoCall EXCEPT !.op = op, !.at = "post", !.ret = r, !.made = made])
    /\ mishaps' = mishaps \cup (IF Crosses(t, op) THEN {"crossed"} ELSE {})
    /\ UNCHANGED sema

Unflagged == flags' = [flags EXCEPT !.remove_flag = FALSE]

Rest == UNCHANGED <<sock, server, file, recv_packet, pc>>

fsysOpen(t, n) ==
    /\ file[t].kind = "none"
    /\ \E mode \in {"open", "creat"} : Calls(t, pko_open_file(n, mode))
    /\ Unflagged
    /\ Rest

fsysDopen(t, n) ==
    /\ file[t].kind = "none"
    /\ Calls(t, pko_open_dir(n))
    /\ Unflagged
    /\ Rest

\* The callers close a file after they have renamed it.
Uses(t, kind) == file[t].kind = kind /\ ~file[t].renamed

fsysRead(t) ==
    Uses(t, "file") /\ Calls(t, pko_read_file(file[t].fd)) /\ Unflagged /\ Rest

fsysWrite(t) ==
    /\ Uses(t, "file")
    /\ \E n \in 1 .. MaxSegments : Calls(t, pko_write_file(file[t].fd, n))
    /\ Unflagged
    /\ Rest

fsysLseek(t) ==
    Uses(t, "file") /\ Calls(t, pko_lseek_file(file[t].fd)) /\ Unflagged /\ Rest

fsysDread(t) ==
    Uses(t, "dir") /\ Calls(t, pko_read_dir(file[t].fd)) /\ Unflagged /\ Rest

\* Mutation: the close of the file opened last is left out
ShutsAnyway(t, packet) ==
    /\ call[t].at = "idle"
    /\ IF file[t].fd # flags.lastopen_fd
       THEN Calls(t, packet)
       ELSE AtOnce(t, packet.op, FALSE, 0)
    /\ Unflagged
    /\ Rest

\* The file that was renamed last is closed at the PC already.
Shuts(t, packet) ==
    /\ call[t].at = "idle"
    /\ IF file[t].fd # flags.renamed_fd
       THEN Calls(t, packet)
       ELSE AtOnce(t, packet.op, FALSE, 0)
    /\ Unflagged
    /\ Rest

fsysClose(t) == file[t].kind = "file" /\ Shuts(t, pko_close_file(file[t].fd))
fsysDclose(t) == file[t].kind = "dir" /\ Shuts(t, pko_close_dir(file[t].fd))

\* Rename of the browser opens a file, asks for this, and closes it.
fsysIoctl(t) ==
    /\ t \notin Direct
    /\ "ioctl" \in MayCall[t]
    /\ Uses(t, "file") \/ Uses(t, "dir")
    /\ call[t].at = "idle"
    /\ IF flags.lastopen_fd = file[t].fd
       THEN Calls(t, pko_ioctl(file[t].fd))
       ELSE AtOnce(t, "ioctl", FALSE, -1)
    /\ Unflagged
    /\ Rest

\* Mutation: a removal is not noted
fsysRemoveUnnoted(t, n) == Calls(t, pko_remove(n)) /\ Unflagged /\ Rest

fsysRemove(t, n) ==
    /\ Calls(t, pko_remove(n))
    /\ flags' = [flags EXCEPT !.remove_flag = TRUE]
    /\ Rest

fsysRmdir(t, n) ==
    Calls(t, pko_rmdir(n)) /\ Unflagged /\ Rest

\* The I/O manager follows a removal with a call of mkdir for the same name.
fsysMkdir(t, n) ==
    /\ \/ call[t].at = "idle" /\ "mkdir" \in MayCall[t]
       \/ call[t].at = "again" /\ call[t].name = n
    /\ LET made == call[t].at = "again" IN
       IF flags.remove_flag
       THEN AtOnce(t, "mkdir", made, flags.remove_result)
       ELSE /\ Set(t, [pko_mkdir(n) EXCEPT !.made = made])
            /\ sema' = IF sema = Nobody THEN t ELSE sema
            /\ mishaps' = mishaps \cup (IF Crosses(t, "mkdir") THEN {"crossed"} ELSE {})
    /\ Unflagged
    /\ Rest

\* dummyGetstat, dummyChstat and dummyFormat return an error.
Dummy(t) ==
    /\ call[t].at = "idle"
    /\ flags.remove_flag
    /\ Unflagged
    /\ mishaps' = mishaps \cup (IF Crosses(t, "stat") THEN {"crossed"} ELSE {})
    /\ UNCHANGED <<sema, call>>
    /\ Rest

----------------------------------------------------------------------------
(* ... and after it.                                                       *)

\* What the function assigns once it has given the semaphore back.
Assigned(t) ==
    LET c == call[t] IN
    CASE c.op \in {"open", "creat", "dopen"} ->
            [flags EXCEPT !.renamed_fd = -1, !.lastopen_fd = c.ret]
      [] c.op \in {"close", "dclose"} -> [flags EXCEPT !.renamed_fd = -1]
      [] c.op = "ioctl" /\ c.ret \in {0, Renamed} ->
            [flags EXCEPT !.renamed_fd = file[t].fd]
      [] c.op = "remove" -> [flags EXCEPT !.remove_result = c.ret]
      [] OTHER -> flags

\* The iop_file_t afterwards: own_fd is the descriptor, and the I/O manager
\* keeps the file unless the open failed, and frees it after a close.
FileAfter(t) ==
    LET c == call[t] IN
    CASE c.op \in {"open", "creat"} /\ c.ret >= 0 ->
            [kind |-> "file", fd |-> c.ret, conn |-> c.conn, renamed |-> FALSE]
      [] c.op = "dopen" /\ c.ret >= 0 ->
            [kind |-> "dir", fd |-> c.ret, conn |-> c.conn, renamed |-> FALSE]
      [] c.op \in {"close", "dclose"} -> NoFile
      [] c.op = "ioctl" -> [file[t] EXCEPT !.renamed = TRUE]
      [] OTHER -> file[t]

Returns(t) ==
    /\ call[t].at = "post"
    /\ flags' = Assigned(t)
    /\ file' = [file EXCEPT ![t] = FileAfter(t)]
    /\ IF call[t].op = "remove" /\ t \notin Direct
       THEN Set(t, [NoCall EXCEPT !.at = "again", !.name = call[t].name])
       ELSE Set(t, NoCall)
    /\ UNCHANGED <<sock, server, sema, recv_packet, pc, mishaps>>

----------------------------------------------------------------------------

Enters(t) ==
    \/ \E n \in Names :
          \/ fsysOpen(t, n) \/ fsysDopen(t, n)
          \/ fsysRemove(t, n) \/ fsysMkdir(t, n) \/ fsysRmdir(t, n)
    \/ fsysRead(t) \/ fsysWrite(t) \/ fsysLseek(t) \/ fsysDread(t)
    \/ fsysClose(t) \/ fsysDclose(t) \/ fsysIoctl(t)
    \/ Dummy(t)

GoesOn(t) ==
    \/ Looks(t) \/ Sends(t) \/ SendFails(t) \/ ClosesSocket(t) \/ ClearsSocket(t)
    \/ Awaits(t) \/ Receives(t) \/ ReceivesCount(t) \/ AwaitsData(t) \/ ReceivesData(t)
    \/ HeaderFails(t) \/ RestFails(t) \/ Spins(t) \/ Returns(t)

Pc == \E c \in Conns : PcServes(c) \/ PcCloses(c) \/ LinkLost(c)

Ends == Over \/ work = MaxWork

Next ==
    \/ /\ ~Over
       /\ \E t \in Threads : Enters(t)
       /\ work < MaxWork
       /\ work' = work + 1
    \/ /\ ~Over
       /\ \E t \in Threads : GoesOn(t)
       /\ UNCHANGED work
    \/ /\ ~Over
       /\ \E c \in Conns : ServerAccepts(c)
       /\ work + 2 <= MaxWork
       /\ work' = work + 2
    \/ /\ ~Over
       /\ ServerStarts \/ ServerInstalls \/ Pc
       /\ UNCHANGED work
    \/ /\ Ends
       /\ UNCHANGED vars

Spec == Init /\ [][Next]_vars

\* Nothing will come for t: the PC has closed the connection, or is gone.
Unanswered(t) ==
    /\ call[t].at \in {"recv", "data"}
    /\ link[call[t].conn] \in {"shut", "lost"} /\ replies[call[t].conn] = <<>>

\* Threads run, and a PC that is there answers; nobody has to call, no PC has
\* to connect, and recv need not ever notice that one is gone.
FairSpec ==
    /\ Spec
    /\ \A t \in Threads : WF_vars(~Over /\ ~Unanswered(t) /\ GoesOn(t) /\ UNCHANGED work)
    /\ \A c \in Conns : WF_vars(~Over /\ PcServes(c) /\ UNCHANGED work)
    /\ WF_vars(~Over /\ ServerInstalls /\ UNCHANGED work)

----------------------------------------------------------------------------
(* Properties.                                                             *)

Fine == mishaps = {}

Live(c) == sock = c /\ c # NoSock /\ link[c] = "open"

AwaitsOn(t, c) == call[t].conn = c /\ call[t].at \in {"await", "recv", "count", "data"}
Awaited(t) == IF call[t].at \in {"count", "data"} THEN "data" ELSE call[t].op

\* A call that waits for a reply on an open connection has exactly its own
\* request or its own reply there, a read that has the header exactly its own
\* data, and nobody else anything; so what it will receive is of the kind and
\* for the call it expects, and a connection nobody waits on is in step.  (Two
\* threads share one connection and two buffers, and calls are given up in the
\* middle.)
InStep ==
    Fine => \A c \in Conns : Live(c) =>
        LET due == requests[c] \o replies[c] IN
        IF \E t \in Threads : AwaitsOn(t, c)
        THEN \E t \in Threads : /\ AwaitsOn(t, c) /\ Len(due) = 1
                                /\ due[1].by = t /\ due[1].op = Awaited(t)
        ELSE due = <<>>

Handling(t) == call[t].op \in {"open", "creat", "dopen", "close", "dclose", "ioctl"}

\* On the connection in use, the PC and the threads agree on who has which
\* descriptor: nothing stays open at the PC that nobody has open here, and no
\* thread's open file is closed under it, whatever renamed_fd has a close
\* leave out and whichever numbers the PC hands out again.
DescriptorsAgree ==
    Fine => \A c \in Conns, t \in Threads : Live(c) /\ ~Handling(t) =>
        LET has == {f \in {file[t].fd} : file[t].kind # "none" /\ file[t].conn = c}
            at_pc == {f \in Fds : opened[c][f] = t}
        IN  /\ at_pc \subseteq has
            /\ ~file[t].renamed => at_pc = has

\* The mkdir the I/O manager makes of a removal never reaches the PC, where
\* it would put a folder in the place of the file.
NoGhosts == Fine => \A n \in Names : disk[n] # "ghost"

Busy(t) == call[t].at \notin {"idle", "again"}

\* Every call returns, whatever fails in it and whoever holds the semaphore,
\* unless from some moment on a call waits for what a PC that has closed the
\* connection, or is gone, will not send: recv then returns 0, for which
\* pko_recv_bytes has no test, or nothing; or unless the socket was replaced in
\* the middle of a call, which then waits on the new one (and the other mishaps,
\* which are not followed).
CallsReturn ==
    (\A t \in Threads : Busy(t) ~> (~Busy(t) \/ ~Fine))
        \/ <>[](\E t \in Threads : Unanswered(t))

\* What the threads see of the driver is what RemoteCalls allows.
Seen(t) ==
    LET c == call[t] IN
    [op |-> IF c.at = "again" THEN "none" ELSE c.op,
     phase |-> CASE c.at \in {"idle", "again"} -> "idle"
                 [] c.at = "post" -> "returned"
                 [] c.at \notin {"idle", "again", "post"} /\ c.done # Undone -> "performed"
                 [] OTHER -> "asked",
     ret |-> IF c.at = "post" \/ c.done = Undone THEN c.ret
             ELSE IF c.done < 0 THEN c.done ELSE c.ret + c.done]

RC == INSTANCE RemoteCalls WITH
        Skipped <- {"close", "dclose", "mkdir", "ioctl"},
        Repeated <- {"write"},
        Answers <- Rets,
        call <- [t \in Threads |-> Seen(t)],
        broken <- \E c \in Conns : link[c] \in {"lost", "shut", "closed"}

Implements == RC!RCSpec
=============================================================================
