----------------------------- MODULE HostProofs -----------------------------
(***************************************************************************)
(* What holds of the host: driver for any number of threads, names,        *)
(* descriptors, segments and connections, and through all the mishaps it   *)
(* is followed through: the types, and that every exchange with the PC is  *)
(* in step; and what the threads that use the driver may rely on: what     *)
(* they see of it is what RemoteCalls allows, a removal makes no folder,   *)
(* and the descriptors open on the PC are those the threads hold.          *)
(***************************************************************************)
EXTENDS HostFile, WellFoundedInduction, SequenceTheorems, TLAPS

CallType ==
    [op : Ops \cup {"none"},
     at : {"idle", "again", "send", "sending", "closing", "clearing",
           "await", "recv", "count", "data", "post"},
     name : Names \cup {"none"}, fd : Rets, conn : Conns \cup {NoSock},
     left : 0 .. MaxSegments, ret : Rets, done : Retvals \cup {Undone},
     made : BOOLEAN]

FileType == [kind : {"none", "file", "dir"}, fd : Rets, conn : Conns \cup {NoSock},
             renamed : BOOLEAN]

Message == [by : Threads, op : Ops, name : Names \cup {"none"}, fd : Rets, made : BOOLEAN]
Reply == [by : Threads, op : Ops \cup {"data"}, ret : Retvals]

Before == {"send", "sending", "closing", "clearing"}
Exchanging == {"sending", "closing", "clearing", "await", "recv", "count", "data"}
Asking == Exchanging \cup {"send"}

-----------------------------------------------------------------------------
(***************************************************************************)
(* The inductive invariant of the exchanges.                               *)
(***************************************************************************)
\* The semaphore admits one thread to the exchange.
OneAtATime == \A t \in Threads : call[t].at \in Exchanging => sema = t

\* What a call c holds at each of its stages, the socket being s.
CallOK(c, s) ==
    /\ c.at = "idle" => c = NoCall
    /\ c.at = "again" => /\ c.op = "none" /\ c.ret = 0 /\ c.done = Undone
                         /\ c.conn = NoSock /\ ~ c.made
    /\ c.at \notin {"idle", "again"} => c.op \in Ops
    /\ c.at \in Before => c.done = Undone
    /\ c.at \in Asking =>
          IF c.op = "write" THEN c.left >= 1 /\ c.ret >= 0 /\ c.ret + c.left <= MaxSegments
          ELSE c.ret = 0
    /\ c.at \in {"sending", "await", "recv", "count", "data"} => c.conn \in Conns
    /\ c.at \in {"sending", "await", "recv", "count"} => s \in Conns
    /\ c.at \in {"count", "data"} => c.op = "read"

CallsSound == \A t \in Threads : CallOK(call[t], sock)

\* A connection that is not there yet, or accepted and not installed.
Untouched(c) == link[c] = "none" \/ (server.at = "install" /\ server.conn = c)

Clear(c) == requests[c] = <<>> /\ replies[c] = <<>>

\* Nobody has used a connection that has not been installed.
FreshSound ==
    /\ server.at = "install" => /\ server.conn \in Conns
                                /\ link[server.conn] # "none"
                                /\ sock \in Conns => link[sock] = "closed"
    /\ \A c \in Conns : Untouched(c) =>
          /\ Clear(c) /\ sock # c
          /\ \A t \in Threads : call[t].conn # c /\ file[t].conn # c
          /\ \A f \in Fds : opened[c][f] = Nobody

\* What a connection that is over holds no more.
LinksSound ==
    \A c \in Conns :
        /\ link[c] \in {"none", "shut", "lost"} => requests[c] = <<>>
        /\ link[c] \in {"none", "lost", "closed"} => replies[c] = <<>>

\* A read that has a header, or takes an old one for it, and goes on to the data.
OnData(p) == p.at \in {"count", "data"}

\* All there is on connection c is the request of call p of thread t, or the reply to it,
\* or what is left of the reply.  A read goes on to the data of a reply that has not come
\* only where the connection has failed.
Own(t, p, c) ==
    \/ /\ Len(requests[c]) = 1 /\ replies[c] = <<>>
       /\ requests[c][1].by = t /\ requests[c][1].op = p.op
       /\ p.done = Undone
       /\ OnData(p) => link[c] # "open"
    \/ /\ requests[c] = <<>> /\ Len(replies[c]) = 1
       /\ replies[c][1].by = t /\ replies[c][1].op = IF OnData(p) THEN "data" ELSE p.op
       /\ p.done = replies[c][1].ret

Waiting(p, c) == p.at \in {"await", "recv", "count", "data"} /\ p.conn = c

WaitOK(t, p) ==
    \A c \in Conns : Waiting(p, c) =>
        \/ Own(t, p, c)
        \/ Clear(c) /\ (link[c] # "open" \/ "replaced" \in mishaps)

\* A call whose socket has been replaced finds nothing on the new one; one that
\* waits for its header is told of it only when it goes on to the data.
ReplacedOK(p) ==
    /\ p.at \in {"sending", "closing", "clearing", "await", "recv", "count"}
       /\ sock \in Conns /\ sock # p.conn => Clear(sock)
    /\ p.at \in {"sending", "closing", "clearing", "await"}
       /\ sock \in Conns /\ sock # p.conn =>
          /\ "replaced" \in mishaps
          /\ p.at = "sending" => link[p.conn] \notin {"open", "shut", "lost"}

\* A connection nobody waits on is in step.
SocketClear ==
    sock \in Conns /\ link[sock] \in {"open", "shut"} =>
        (\E t \in Threads : Waiting(call[t], sock)) \/ Clear(sock)

ExchangeSound ==
    /\ \A t \in Threads : WaitOK(t, call[t]) /\ ReplacedOK(call[t])
    /\ SocketClear

IInv ==
    /\ TypeOK
    /\ OneAtATime
    /\ CallsSound
    /\ FreshSound
    /\ LinksSound
    /\ ExchangeSound

-----------------------------------------------------------------------------
(* Values.                                                                 *)

LEMMA ConstantsAre ==
    /\ MaxFd \in Nat /\ MaxFd >= 1 /\ MaxSegments \in Nat /\ MaxSegments >= 1
    /\ MaxConns \in Nat /\ MaxWork \in Nat
    /\ NoSock \notin Conns /\ Conns \subseteq Nat /\ Fds \subseteq Nat
    /\ Nobody \notin Threads
BY HostAssumption DEF NoSock, Conns, Fds

LEMMA RetsAre ==
    /\ Retvals \subseteq Int /\ Rets \subseteq Int
    /\ Renamed \in Retvals /\ -1 \in Retvals /\ 0 \in Retvals /\ 1 \in Retvals
    /\ Fds \subseteq Retvals /\ Retvals \subseteq Rets /\ Undone \notin Rets
    /\ \A n \in 0 .. MaxSegments + MaxFd : n \in Rets
<1>1. MaxFd \in Nat /\ MaxFd >= 1 /\ MaxSegments \in Nat
  BY ConstantsAre
<1> DEFINE top == MaxFd * (MaxSegments + 1)
<1>2. top \in Nat /\ top >= MaxSegments + MaxFd
  <2>1. MaxFd * (MaxSegments + 1) = MaxFd * MaxSegments + MaxFd
    BY <1>1
  <2>2. MaxFd * MaxSegments >= MaxSegments /\ MaxFd * MaxSegments \in Nat
    BY <1>1
  <2> QED BY <1>1, <2>1, <2>2
<1> HIDE DEF top
<1>3. Rets = {Renamed, -1} \cup 0 .. top
  BY DEF Rets, top
<1> QED BY <1>1, <1>2, <1>3 DEF Retvals, Renamed, Undone, Fds

LEMMA TypesAre ==
    TypeOK => /\ call \in [Threads -> CallType] /\ file \in [Threads -> FileType]
              /\ requests \in [Conns -> Seq(Message)] /\ replies \in [Conns -> Seq(Reply)]
              /\ sock \in Conns \cup {NoSock}
BY DEF TypeOK, CallType, FileType, Message, Reply

LEMMA NoCallIs ==
    /\ NoCall \in CallType /\ NoCall.op = "none" /\ NoCall.at = "idle"
    /\ NoCall.conn = NoSock /\ NoCall.left = 0 /\ NoCall.ret = 0 /\ NoCall.done = Undone
    /\ ~ NoCall.made /\ NoFile \in FileType /\ NoFile.conn = NoSock
    /\ NoFile.kind = "none" /\ ~ NoFile.renamed
BY RetsAre, ConstantsAre DEF NoCall, CallType, NoFile, FileType

LEMMA PacketIs ==
    ASSUME NEW op \in Ops, NEW name \in Names \cup {"none"}, NEW fd \in Rets
    PROVE  LET p == Packet(op, name, fd)
           IN  /\ p \in CallType /\ p.at = "send" /\ p.op = op /\ p.name = name
               /\ p.fd = fd /\ p.conn = NoSock /\ p.left = 0 /\ p.ret = 0
               /\ p.done = Undone /\ ~ p.made
BY NoCallIs DEF Packet, CallType, NoCall

LEMMA InitIInv == Init => IInv
<1> SUFFICES ASSUME Init PROVE IInv
  OBVIOUS
<1>1. TypeOK
  BY NoCallIs, RetsAre, ConstantsAre DEF Init, TypeOK, CallType, FileType, Renamed, Undone
<1>2. \A t \in Threads : call[t] = NoCall /\ file[t] = NoFile
  BY DEF Init
<1>3. OneAtATime /\ CallsSound
  BY <1>2, NoCallIs DEF OneAtATime, CallsSound, CallOK, Exchanging, Before, Asking
<1>4. FreshSound /\ LinksSound
  BY <1>2, NoCallIs, ConstantsAre DEF Init, FreshSound, LinksSound, Clear, Untouched
<1>5. ExchangeSound
  BY <1>2, NoCallIs, ConstantsAre DEF Init, ExchangeSound, WaitOK, ReplacedOK, Waiting, SocketClear
<1> QED BY <1>1, <1>3, <1>4, <1>5 DEF IInv

-----------------------------------------------------------------------------
(* Steps of a thread that leave the connections alone.                     *)

\* What the exchanges do not depend on has its type.
Aside ==
    /\ flags' \in [lastopen_fd : Rets, renamed_fd : Rets,
                   remove_flag : BOOLEAN, remove_result : Rets]
    /\ recv_packet' \in [retval : Retvals, nbytes : Retvals]
    /\ disk' \in [Names -> {"none", "file", "dir", "ghost"}]
    /\ mishaps \subseteq mishaps' /\ mishaps' \subseteq Mishaps
    /\ work' \in 0 .. MaxWork

\* The call of t becomes C.
Goes(t, C) ==
    /\ C \in CallType
    /\ call' = [call EXCEPT ![t] = C]

LEMMA GoesTo ==
    ASSUME IInv, NEW t \in Threads, NEW C, Goes(t, C)
    PROVE  /\ call' \in [Threads -> CallType] /\ call'[t] = C
           /\ \A u \in Threads \ {t} : call'[u] = call[u]
BY TypesAre DEF IInv, Goes

\* Only one thread can be in the exchange: the one that has the semaphore.
LEMMA Alone ==
    ASSUME IInv, NEW t \in Threads, sema = t \/ call[t].at \in Exchanging
    PROVE  \A u \in Threads \ {t} : call[u].at \notin Exchanging
BY DEF IInv, OneAtATime

LEMMA FilesKept ==
    ASSUME IInv, UNCHANGED file
    PROVE  /\ file' \in [Threads -> FileType]
           /\ \A u \in Threads : file'[u].conn \in {file[u].conn, call[u].conn, NoSock}
BY TypesAre DEF IInv

LEMMA QuietAfter ==
    ASSUME IInv, Aside, NEW t \in Threads, NEW C, Goes(t, C), CallOK(C, sock),
           UNCHANGED <<sock, server, link, requests, replies, opened>>,
           file' \in [Threads -> FileType],
           \A u \in Threads : file'[u].conn \in {file[u].conn, call[u].conn, NoSock},
           sema' \in Threads \cup {Nobody}, OneAtATime',
           C.conn \in {call[t].conn, sock, NoSock},
           WaitOK(t, C)', ReplacedOK(C)',
           Waiting(call[t], sock) /\ link[sock] \in {"open", "shut"} =>
               Waiting(C, sock) \/ Clear(sock)
    PROVE  IInv'
<1>1. /\ call' \in [Threads -> CallType] /\ call'[t] = C
      /\ \A u \in Threads \ {t} : call'[u] = call[u]
  BY GoesTo
<1>2. TypeOK'
  BY <1>1 DEF IInv, TypeOK, Aside, CallType, FileType
<1>3. CallsSound'
  BY <1>1 DEF IInv, CallsSound
<1>4. \A c : Clear(c)' = Clear(c) /\ Untouched(c)' = Untouched(c)
  BY DEF Clear, Untouched
<1>5. FreshSound'
  <2>1. ASSUME NEW c \in Conns, Untouched(c), NEW u \in Threads
        PROVE  call'[u].conn # c /\ file'[u].conn # c
    BY <1>1, <2>1, ConstantsAre DEF IInv, FreshSound
  <2> QED BY <1>4, <2>1 DEF IInv, FreshSound
<1>6. LinksSound'
  BY DEF IInv, LinksSound
<1>7. mishaps \subseteq mishaps'
  BY DEF Aside
<1>8. ASSUME NEW u \in Threads, NEW p, WaitOK(u, p), ReplacedOK(p)
      PROVE  WaitOK(u, p)' /\ ReplacedOK(p)'
  BY <1>4, <1>7, <1>8 DEF WaitOK, ReplacedOK, Own, OnData, Waiting
<1>9. \A u \in Threads : (WaitOK(u, call[u]) /\ ReplacedOK(call[u]))'
  <2>1. \A u \in Threads \ {t} : (WaitOK(u, call[u]) /\ ReplacedOK(call[u]))'
    <3>1. ASSUME NEW u \in Threads \ {t}, NEW p, p = call[u]
          PROVE  WaitOK(u, p)' /\ ReplacedOK(p)'
      BY <1>8, <3>1 DEF IInv, ExchangeSound
    <3>2. ASSUME NEW u \in Threads, NEW p, p = call'[u], WaitOK(u, p)', ReplacedOK(p)'
          PROVE  (WaitOK(u, call[u]) /\ ReplacedOK(call[u]))'
      BY <3>2 DEF WaitOK, ReplacedOK, Waiting, Own, OnData
    <3> QED BY <1>1, <3>1, <3>2
  <2>2. (WaitOK(t, call[t]) /\ ReplacedOK(call[t]))'
    BY <1>1 DEF WaitOK, ReplacedOK, Waiting, Own, OnData
  <2> QED BY <2>1, <2>2
<1>10. SocketClear'
  <2>1. ASSUME sock \in Conns, link[sock] \in {"open", "shut"}, ~ Clear(sock)
        PROVE  \E u \in Threads : Waiting(call'[u], sock)
    BY <1>1, <2>1 DEF IInv, ExchangeSound, SocketClear
  <2> QED BY <1>4, <2>1 DEF SocketClear, Waiting
<1> QED BY <1>2, <1>3, <1>5, <1>6, <1>9, <1>10 DEF IInv, ExchangeSound

LEMMA QuietStep ==
    ASSUME IInv, Aside, NEW t \in Threads, NEW C, Goes(t, C), CallOK(C, sock),
           UNCHANGED <<sock, server, link, requests, replies, opened>>,
           file' \in [Threads -> FileType],
           \A u \in Threads : file'[u].conn \in {file[u].conn, call[u].conn, NoSock},
           sema' \in Threads \cup {Nobody}, OneAtATime',
           C.conn \in {call[t].conn, sock, NoSock},
           WaitOK(t, C), ReplacedOK(C),
           Waiting(call[t], sock) /\ link[sock] \in {"open", "shut"} =>
               Waiting(C, sock) \/ Clear(sock)
    PROVE  IInv'
<1>1. WaitOK(t, C)' /\ ReplacedOK(C)'
  <2>1. mishaps \subseteq mishaps'
    BY DEF Aside
  <2>2. \A c : Clear(c)' = Clear(c)
    BY DEF Clear
  <2> QED BY <2>1, <2>2 DEF WaitOK, ReplacedOK, Own, OnData, Waiting
<1> QED BY <1>1, QuietAfter

-----------------------------------------------------------------------------
(* A thread enters the driver.                                             *)

Skipped == {"close", "dclose", "mkdir", "ioctl"}

\* The call C a thread makes of packet, or an answer at once.
Entered(t, C) ==
    /\ C.at \in {"send", "post"} /\ C.op \in Ops
    /\ C.conn = NoSock /\ C.done = Undone
    /\ C.at = "send" => C.ret = 0 /\ (C.op = "write" => C.left >= 1)
    /\ C.at = "post" => C.op \in Skipped
    /\ C.made => C.op = "mkdir"

LEMMA CallsAre ==
    ASSUME IInv, NEW t \in Threads, NEW op \in Ops, NEW name \in Names \cup {"none"},
           NEW fd \in Rets, Calls(t, Packet(op, name, fd)), op # "write"
    PROVE  LET C == Packet(op, name, fd)
           IN  /\ Goes(t, C) /\ Entered(t, C) /\ C.op = op /\ C.at = "send" /\ ~ C.made
               /\ call[t].at = "idle"
               /\ sema' = IF sema = Nobody THEN t ELSE sema
               /\ mishaps' = mishaps \cup (IF Crosses(t, op) THEN {"crossed"} ELSE {})
BY PacketIs DEF Calls, Goes, Entered, Set

\* A call that is answered at once.
Ended(op, made, res) == [NoCall EXCEPT !.op = op, !.at = "post", !.ret = res, !.made = made]

LEMMA AtOnceIs ==
    ASSUME IInv, NEW t \in Threads, NEW op \in Skipped, NEW made \in BOOLEAN, NEW res \in Rets,
           made => op = "mkdir", AtOnce(t, op, made, res)
    PROVE  LET C == Ended(op, made, res)
           IN  /\ Goes(t, C) /\ Entered(t, C) /\ C.op = op /\ C.at = "post"
               /\ C.made = made /\ C.ret = res
               /\ sema' = sema
               /\ mishaps' = mishaps \cup (IF Crosses(t, op) THEN {"crossed"} ELSE {})
<1> DEFINE C == Ended(op, made, res)
<1>1. op \in Ops
  BY DEF Skipped, Ops, PathOps, FileOps, DirOps
<1>2. C \in CallType /\ Entered(t, C) /\ C.op = op /\ C.at = "post" /\ C.made = made /\ C.ret = res
  <2>1. /\ C.op = op /\ C.at = "post" /\ C.made = made /\ C.ret = res
        /\ C.conn = NoSock /\ C.done = Undone
    BY NoCallIs DEF CallType, Ended
  <2>2. C \in CallType
    BY <1>1, NoCallIs DEF CallType, Ended
  <2> HIDE DEF C
  <2> QED BY <1>1, <2>1, <2>2 DEF Entered
<1>3. call' = [call EXCEPT ![t] = C]
  BY DEF AtOnce, Set, Ended
<1> HIDE DEF C
<1>4. /\ Goes(t, C) /\ sema' = sema
      /\ mishaps' = mishaps \cup (IF Crosses(t, op) THEN {"crossed"} ELSE {})
  BY <1>2, <1>3 DEF AtOnce, Goes
<1> QED BY <1>2, <1>4 DEF C

\* What each function does before it returns or waits for the semaphore.
Entrance(t, C) ==
    /\ Goes(t, C) /\ Entered(t, C)
    /\ call[t].at = "idle" \/ (call[t].at = "again" /\ C.op = "mkdir")
    /\ C.made <=> call[t].at = "again"
    /\ C.made /\ C.at = "send" => ~ flags.remove_flag
    /\ C.op \in {"open", "creat", "dopen"} => file[t].kind = "none"
    /\ C.op \in FileOps \cup DirOps => file[t].kind # "none" /\ (C.at = "send" => C.fd = file[t].fd)
    /\ C.op \in {"close", "dclose"} => (C.at = "post" <=> file[t].fd = flags.renamed_fd)
    /\ C.op = "ioctl" => /\ t \notin Direct /\ ~ file[t].renamed
                         /\ C.at = "post" => C.ret = -1
    /\ sema' = IF C.at = "send" /\ sema = Nobody THEN t ELSE sema
    /\ mishaps' = mishaps \cup (IF Crosses(t, C.op) THEN {"crossed"} ELSE {})
    /\ flags' = [flags EXCEPT !.remove_flag = (C.op = "remove")]
    /\ UNCHANGED <<sock, server, file, recv_packet, pc>>

LEMMA OpsAre ==
    /\ Ops = {"open", "creat", "dopen", "remove", "mkdir", "rmdir",
              "read", "write", "lseek", "close", "ioctl", "dread", "dclose"}
    /\ FileOps \cup DirOps = {"read", "write", "lseek", "close", "ioctl", "dread", "dclose"}
BY DEF Ops, PathOps, FileOps, DirOps

LEMMA FlagsAre ==
    ASSUME IInv
    PROVE  /\ flags \in [lastopen_fd : Rets, renamed_fd : Rets,
                         remove_flag : BOOLEAN, remove_result : Rets]
           /\ \A t \in Threads : file[t] \in FileType /\ file[t].fd \in Rets
           /\ \A t \in Threads : call[t] \in CallType
BY TypesAre DEF IInv, TypeOK, FileType

LEMMA EntersAre ==
    ASSUME IInv, NEW t \in Threads, Enters(t)
    PROVE  Dummy(t) \/ \E C : Entrance(t, C)
<1>1. -1 \in Rets /\ 0 \in Rets /\ "none" \in Names \cup {"none"}
  BY RetsAre
<1>2. file[t].fd \in Rets /\ flags.remove_result \in Rets
  BY FlagsAre DEF FileType
<1>3. CASE \E n \in Names : fsysOpen(t, n)
  <2>1. PICK n \in Names, mode \in {"open", "creat"} : Calls(t, Packet(mode, n, -1))
    BY <1>3 DEF fsysOpen, pko_open_file
  <2> DEFINE C == Packet(mode, n, -1)
  <2>2. /\ Goes(t, C) /\ Entered(t, C) /\ C.op = mode /\ C.at = "send" /\ ~ C.made
        /\ call[t].at = "idle"
        /\ sema' = IF sema = Nobody THEN t ELSE sema
        /\ mishaps' = mishaps \cup (IF Crosses(t, mode) THEN {"crossed"} ELSE {})
    BY <1>1, <2>1, CallsAre, OpsAre
  <2> HIDE DEF C
  <2>3. Entrance(t, C)
    BY <1>3, <2>2, OpsAre DEF Entrance, fsysOpen, Unflagged, Rest
  <2> QED BY <2>3
<1>4. CASE \E n \in Names : fsysDopen(t, n) \/ fsysRemove(t, n) \/ fsysRmdir(t, n)
  <2>1. PICK n \in Names, op \in {"dopen", "remove", "rmdir"} :
           /\ Calls(t, Packet(op, n, -1))
           /\ op = "dopen" => file[t].kind = "none"
           /\ flags' = [flags EXCEPT !.remove_flag = (op = "remove")]
           /\ Rest
    BY <1>4 DEF fsysDopen, fsysRemove, fsysRmdir, pko_open_dir, pko_remove, pko_rmdir, Unflagged
  <2> DEFINE C == Packet(op, n, -1)
  <2>2. /\ Goes(t, C) /\ Entered(t, C) /\ C.op = op /\ C.at = "send" /\ ~ C.made
        /\ call[t].at = "idle"
        /\ sema' = IF sema = Nobody THEN t ELSE sema
        /\ mishaps' = mishaps \cup (IF Crosses(t, op) THEN {"crossed"} ELSE {})
    BY <1>1, <2>1, CallsAre, OpsAre
  <2> HIDE DEF C
  <2>3. Entrance(t, C)
    BY <2>1, <2>2, OpsAre DEF Entrance, Rest
  <2> QED BY <2>3
<1>5. CASE \E n \in Names : fsysMkdir(t, n)
  <2>1. PICK n \in Names : fsysMkdir(t, n)
    BY <1>5
  <2> DEFINE made == call[t].at = "again"
  <2>2. CASE flags.remove_flag
    <3>1. AtOnce(t, "mkdir", made, flags.remove_result)
      BY <2>1, <2>2 DEF fsysMkdir
    <3> DEFINE C == Ended("mkdir", made, flags.remove_result)
    <3>2. /\ Goes(t, C) /\ Entered(t, C) /\ C.op = "mkdir" /\ C.at = "post"
          /\ C.made = made
          /\ sema' = sema
          /\ mishaps' = mishaps \cup (IF Crosses(t, "mkdir") THEN {"crossed"} ELSE {})
      <4>1. "mkdir" \in Skipped /\ made \in BOOLEAN
        BY DEF Skipped
      <4> HIDE DEF made
      <4> QED BY <1>2, <3>1, <4>1, AtOnceIs
    <3> HIDE DEF C
    <3>3. Entrance(t, C)
      BY <2>1, <3>2, OpsAre DEF Entrance, fsysMkdir, Unflagged, Rest
    <3> QED BY <3>3
  <2>3. CASE ~ flags.remove_flag
    <3> DEFINE P == Packet("mkdir", n, -1)
               C == [P EXCEPT !.made = made]
    <3>1. /\ P \in CallType /\ P.at = "send" /\ P.op = "mkdir"
          /\ P.conn = NoSock /\ P.ret = 0 /\ P.done = Undone
      BY <1>1, PacketIs, OpsAre
    <3>2. call' = [call EXCEPT ![t] = C]
      BY <2>1, <2>3 DEF fsysMkdir, pko_mkdir, Set
    <3> HIDE DEF P
    <3>3. /\ C \in CallType /\ C.at = "send" /\ C.op = "mkdir"
          /\ C.conn = NoSock /\ C.ret = 0 /\ C.done = Undone /\ C.made = made
      BY <3>1 DEF CallType
    <3> HIDE DEF C
    <3>4. Goes(t, C) /\ Entered(t, C)
      BY <3>2, <3>3, OpsAre DEF Goes, Entered
    <3>5. Entrance(t, C)
      BY <2>1, <2>3, <3>3, <3>4, OpsAre DEF Entrance, fsysMkdir, Unflagged, Rest
    <3> QED BY <3>5
  <2> QED BY <2>2, <2>3, FlagsAre
<1>6. CASE fsysRead(t) \/ fsysLseek(t) \/ fsysDread(t)
  <2>1. PICK op \in {"read", "lseek", "dread"} : Calls(t, Packet(op, "none", file[t].fd))
    BY <1>6 DEF fsysRead, fsysLseek, fsysDread, pko_read_file, pko_lseek_file, pko_read_dir
  <2> DEFINE C == Packet(op, "none", file[t].fd)
  <2>2. /\ Goes(t, C) /\ Entered(t, C) /\ C.op = op /\ C.at = "send" /\ ~ C.made
        /\ call[t].at = "idle"
        /\ sema' = IF sema = Nobody THEN t ELSE sema
        /\ mishaps' = mishaps \cup (IF Crosses(t, op) THEN {"crossed"} ELSE {})
    BY <1>2, <2>1, CallsAre, OpsAre
  <2>3. C.fd = file[t].fd
    BY <1>2, PacketIs, OpsAre
  <2> HIDE DEF C
  <2>4. Entrance(t, C)
    BY <1>6, <2>2, <2>3, OpsAre
    DEF Entrance, fsysRead, fsysLseek, fsysDread, Uses, Unflagged, Rest
  <2> QED BY <2>4
<1>7. CASE fsysWrite(t)
  <2> DEFINE P == Packet("write", "none", file[t].fd)
  <2>1. PICK n \in 1 .. MaxSegments : Calls(t, [P EXCEPT !.left = n])
    BY <1>7 DEF fsysWrite, pko_write_file
  <2> DEFINE C == [P EXCEPT !.left = n]
  <2>2. /\ P \in CallType /\ P.at = "send" /\ P.op = "write" /\ P.fd = file[t].fd
        /\ P.conn = NoSock /\ P.ret = 0 /\ P.done = Undone /\ ~ P.made
    BY <1>2, PacketIs, OpsAre
  <2> HIDE DEF P
  <2>3. /\ C \in CallType /\ C.at = "send" /\ C.op = "write" /\ C.fd = file[t].fd
        /\ C.conn = NoSock /\ C.ret = 0 /\ C.done = Undone /\ ~ C.made /\ C.left >= 1
    BY <2>2, ConstantsAre DEF CallType
  <2> HIDE DEF C
  <2>4. Calls(t, C)
    BY <2>1 DEF C
  <2>5. Goes(t, C) /\ Entered(t, C)
    BY <2>3, <2>4, OpsAre DEF Goes, Entered, Calls, Set
  <2>6. Entrance(t, C)
    BY <1>7, <2>3, <2>4, <2>5, OpsAre DEF Entrance, Calls, fsysWrite, Uses, Unflagged, Rest
  <2> QED BY <2>6
<1>8. CASE fsysClose(t) \/ fsysDclose(t)
  <2>1. PICK op \in {"close", "dclose"} :
           file[t].kind # "none" /\ Shuts(t, Packet(op, "none", file[t].fd))
    BY <1>8 DEF fsysClose, fsysDclose, pko_close_file, pko_close_dir
  <2> DEFINE P == Packet(op, "none", file[t].fd)
  <2>2. P.op = op /\ P.fd = file[t].fd
    BY <1>2, PacketIs, OpsAre
  <2>3. CASE file[t].fd # flags.renamed_fd
    <3>1. Calls(t, P)
      BY <2>1, <2>3 DEF Shuts
    <3>2. /\ Goes(t, P) /\ Entered(t, P) /\ P.op = op /\ P.at = "send" /\ ~ P.made
          /\ call[t].at = "idle"
          /\ sema' = IF sema = Nobody THEN t ELSE sema
          /\ mishaps' = mishaps \cup (IF Crosses(t, op) THEN {"crossed"} ELSE {})
      BY <1>1, <1>2, <3>1, CallsAre, OpsAre
    <3>3. /\ flags' = [flags EXCEPT !.remove_flag = FALSE]
          /\ UNCHANGED <<sock, server, file, recv_packet, pc>>
      BY <2>1 DEF Shuts, Unflagged, Rest
    <3> HIDE DEF P
    <3>4. Entrance(t, P)
      BY <2>1, <2>2, <2>3, <3>2, <3>3, OpsAre DEF Entrance
    <3> QED BY <3>4
  <2>4. CASE file[t].fd = flags.renamed_fd
    <3> DEFINE made == FALSE
               C == Ended(op, made, 0)
    <3>1. AtOnce(t, op, made, 0) /\ call[t].at = "idle" /\ made \in BOOLEAN /\ ~ made
      BY <2>1, <2>2, <2>4 DEF Shuts
    <3> HIDE DEF made
    <3>2. /\ Goes(t, C) /\ Entered(t, C) /\ C.op = op /\ C.at = "post"
          /\ C.made = made
          /\ sema' = sema
          /\ mishaps' = mishaps \cup (IF Crosses(t, op) THEN {"crossed"} ELSE {})
      <4>1. op \in Skipped
        BY DEF Skipped
      <4> QED BY <1>1, <3>1, <4>1, AtOnceIs
    <3>3. /\ flags' = [flags EXCEPT !.remove_flag = FALSE]
          /\ UNCHANGED <<sock, server, file, recv_packet, pc>>
      BY <2>1 DEF Shuts, Unflagged, Rest
    <3> HIDE DEF C, P
    <3>4. Entrance(t, C)
      BY <2>1, <2>4, <3>1, <3>2, <3>3, OpsAre DEF Entrance
    <3> QED BY <3>4
  <2> QED BY <2>3, <2>4
<1>9. CASE fsysIoctl(t)
  <2> DEFINE P == Packet("ioctl", "none", file[t].fd)
  <2>1. /\ t \notin Direct /\ file[t].kind # "none" /\ ~ file[t].renamed /\ call[t].at = "idle"
        /\ flags' = [flags EXCEPT !.remove_flag = FALSE]
        /\ UNCHANGED <<sock, server, file, recv_packet, pc>>
    BY <1>9 DEF fsysIoctl, Uses, Unflagged, Rest
  <2>2. CASE flags.lastopen_fd = file[t].fd
    <3>1. Calls(t, P)
      BY <1>9, <2>2 DEF fsysIoctl, pko_ioctl
    <3>2. /\ Goes(t, P) /\ Entered(t, P) /\ P.op = "ioctl" /\ P.at = "send" /\ ~ P.made
          /\ sema' = IF sema = Nobody THEN t ELSE sema
          /\ mishaps' = mishaps \cup (IF Crosses(t, "ioctl") THEN {"crossed"} ELSE {})
      BY <1>1, <1>2, <3>1, CallsAre, OpsAre
    <3>3. P.fd = file[t].fd
      BY <1>2, PacketIs, OpsAre
    <3> HIDE DEF P
    <3>4. Entrance(t, P)
      BY <2>1, <3>2, <3>3, OpsAre DEF Entrance
    <3> QED BY <3>4
  <2>3. CASE flags.lastopen_fd # file[t].fd
    <3>1. AtOnce(t, "ioctl", FALSE, -1)
      BY <1>9, <2>3 DEF fsysIoctl
    <3> DEFINE C == Ended("ioctl", FALSE, -1)
    <3>2. /\ Goes(t, C) /\ Entered(t, C) /\ C.op = "ioctl" /\ C.at = "post"
          /\ C.made = FALSE /\ C.ret = -1
          /\ sema' = sema
          /\ mishaps' = mishaps \cup (IF Crosses(t, "ioctl") THEN {"crossed"} ELSE {})
      BY <1>1, <3>1, AtOnceIs DEF Skipped
    <3> HIDE DEF C, P
    <3>3. Entrance(t, C)
      BY <2>1, <3>2, OpsAre DEF Entrance
    <3> QED BY <3>3
  <2> QED BY <2>2, <2>3
<1> QED BY <1>3, <1>4, <1>5, <1>6, <1>7, <1>8, <1>9 DEF Enters

LEMMA EnterStep ==
    ASSUME IInv, work' \in 0 .. MaxWork, NEW t \in Threads, Enters(t)
    PROVE  IInv'
<1>1. CASE Dummy(t)
  <2>1. /\ UNCHANGED <<sema, call, sock, server, file, recv_packet, link, requests,
                       replies, opened, disk>>
        /\ flags' = [flags EXCEPT !.remove_flag = FALSE]
        /\ mishaps' = mishaps \/ mishaps' = mishaps \cup {"crossed"}
    BY <1>1 DEF Dummy, Unflagged, Rest, pc
  <2>2. Aside
    BY <2>1, FlagsAre DEF Aside, IInv, TypeOK, Mishaps
  <2>3. call' = [call EXCEPT ![t] = call[t]] /\ call[t] \in CallType
    BY <2>1, TypesAre DEF IInv
  <2>4. Goes(t, call[t])
    BY <2>1, <2>3 DEF Goes
  <2>5. CallOK(call[t], sock) /\ WaitOK(t, call[t]) /\ ReplacedOK(call[t])
    BY DEF IInv, CallsSound, ExchangeSound
  <2>6. OneAtATime' /\ sema' \in Threads \cup {Nobody}
    BY <2>1 DEF IInv, OneAtATime, TypeOK
  <2> QED BY <2>1, <2>2, <2>4, <2>5, <2>6, FilesKept, QuietStep
<1>2. ASSUME NEW C, Entrance(t, C)
      PROVE  IInv'
  <2>1. /\ Goes(t, C) /\ Entered(t, C) /\ call[t].at \in {"idle", "again"}
        /\ UNCHANGED <<sock, server, file, recv_packet, link, requests, replies, opened, disk>>
        /\ flags' = [flags EXCEPT !.remove_flag = (C.op = "remove")]
        /\ mishaps' = mishaps \/ mishaps' = mishaps \cup {"crossed"}
        /\ sema' = sema \/ (sema = Nobody /\ sema' = t)
    BY <1>2 DEF Entrance, pc
  <2>2. Aside
    BY <2>1, FlagsAre DEF Aside, IInv, TypeOK, Mishaps
  <2>3. CallOK(C, sock)
    <3>1. C \in CallType
      BY <2>1 DEF Goes
    <3> QED BY <2>1, <3>1, ConstantsAre DEF CallOK, Entered, Before, Asking, Exchanging, CallType, Skipped
  <2>4. WaitOK(t, C) /\ ReplacedOK(C)
    BY <2>1 DEF Entered, WaitOK, ReplacedOK, Waiting
  <2>5. ~ Waiting(call[t], sock)
    BY <2>1 DEF Waiting
  <2>6. OneAtATime' /\ sema' \in Threads \cup {Nobody}
    <3>1. /\ call'[t] = C /\ \A u \in Threads \ {t} : call'[u] = call[u]
      BY <2>1, GoesTo
    <3>2. \A u \in Threads : call'[u].at \in Exchanging => call[u].at \in Exchanging /\ sema \in Threads
      BY <2>1, <3>1 DEF Entered, Exchanging, IInv, OneAtATime
    <3> QED BY <2>1, <3>1, <3>2, ConstantsAre DEF IInv, OneAtATime, TypeOK
  <2> QED BY <2>1, <2>2, <2>3, <2>4, <2>5, <2>6, FilesKept, QuietStep DEF Entered
<1> QED BY <1>1, <1>2, EntersAre

-----------------------------------------------------------------------------
(* A thread goes on with its call.                                         *)

LEMMA StaysIs ==
    ASSUME IInv, NEW t \in Threads, NEW C \in CallType, Stays(t, C)
    PROVE  Goes(t, C) /\ sema' = sema
BY DEF Stays, Goes, Set

\* The result of a call that was in the exchange.
LEMMA ResultIs ==
    ASSUME IInv, NEW t \in Threads, NEW res \in Rets,
           sema = t \/ call[t].at \in Exchanging, Result(t, res)
    PROVE  LET C == [call[t] EXCEPT !.at = "post", !.ret = res]
           IN  /\ Goes(t, C) /\ C.at = "post" /\ C.ret = res
               /\ C.op = call[t].op /\ C.conn = call[t].conn /\ C.made = call[t].made
               /\ C.done = call[t].done
               /\ sema' \in Threads \cup {Nobody} /\ OneAtATime'
<1> DEFINE C == [call[t] EXCEPT !.at = "post", !.ret = res]
<1>1. call[t] \in CallType
  BY TypesAre DEF IInv
<1>2. /\ C \in CallType /\ C.at = "post" /\ C.ret = res
      /\ C.op = call[t].op /\ C.conn = call[t].conn /\ C.made = call[t].made
      /\ C.done = call[t].done
  BY <1>1 DEF CallType
<1>3. call' = [call EXCEPT ![t] = C]
  BY DEF Result, Set
<1> HIDE DEF C
<1>4. Goes(t, C)
  BY <1>2, <1>3 DEF Goes
<1>5. sema' \in Threads \cup {Nobody}
  BY DEF Result, Leaves
<1>6. \A u \in Threads : call'[u].at \notin Exchanging
  <2>1. \A u \in Threads \ {t} : call[u].at \notin Exchanging
    BY Alone
  <2> QED BY <1>2, <1>4, <2>1, GoesTo DEF Exchanging
<1>7. OneAtATime'
  BY <1>6 DEF OneAtATime
<1> QED BY <1>2, <1>4, <1>5, <1>7 DEF C

\* A thread stays in the exchange, or goes on waiting for it.
LEMMA StillOne ==
    ASSUME IInv, NEW t \in Threads, NEW C, Goes(t, C), sema' = sema,
           sema = t \/ C.at \notin Exchanging
    PROVE  sema' \in Threads \cup {Nobody} /\ OneAtATime'
<1>1. call'[t] = C /\ \A u \in Threads \ {t} : call'[u] = call[u]
  BY GoesTo
<1>2. OneAtATime'
  BY <1>1 DEF IInv, OneAtATime
<1> QED BY <1>2 DEF IInv, TypeOK

\* A call that has returned, or waits for the semaphore.
LEMMA OutsideOK ==
    ASSUME IInv, NEW t \in Threads, NEW C \in CallType, C.at \in {"post", "send"}
    PROVE  WaitOK(t, C) /\ ReplacedOK(C)
BY DEF WaitOK, ReplacedOK, Waiting

\* The call ends with a result, and the socket it looked at was not in use or broken.
LEMMA EndStep ==
    ASSUME IInv, Aside, NEW t \in Threads, NEW res \in Rets,
           sema = t \/ call[t].at \in Exchanging, call[t].at \in Asking, Result(t, res),
           UNCHANGED <<sock, server, file, link, requests, replies, opened>>,
           Waiting(call[t], sock) => link[sock] \notin {"open", "shut"}
    PROVE  IInv'
<1> DEFINE C == [call[t] EXCEPT !.at = "post", !.ret = res]
<1>1. /\ Goes(t, C) /\ C.at = "post" /\ C.ret = res
      /\ C.op = call[t].op /\ C.conn = call[t].conn
      /\ sema' \in Threads \cup {Nobody} /\ OneAtATime'
  BY ResultIs
<1> HIDE DEF C
<1>2. CallOK(C, sock) /\ C \in CallType
  <2>1. C.op \in Ops
    BY <1>1 DEF IInv, CallsSound, CallOK, Asking, Exchanging
  <2> QED BY <1>1, <2>1 DEF CallOK, Before, Asking, Exchanging, Goes
<1> QED BY <1>1, <1>2, OutsideOK, FilesKept, QuietStep

LEMMA AsideKept ==
    ASSUME IInv, work' \in 0 .. MaxWork, UNCHANGED <<flags, recv_packet, disk>>,
           mishaps \subseteq mishaps', mishaps' \subseteq Mishaps
    PROVE  Aside
BY DEF Aside, IInv, TypeOK

LEMMA LooksStep ==
    ASSUME IInv, work' \in 0 .. MaxWork, NEW t \in Threads, Looks(t)
    PROVE  IInv'
<1>1. /\ call[t].at = "send" /\ sema = t
      /\ UNCHANGED <<sock, server, file, flags, recv_packet, link, requests, replies,
                     opened, disk>>
      /\ mishaps' = mishaps \/ mishaps' = mishaps \cup {"outlived"}
  BY DEF Looks, pc
<1>2. Aside
  BY <1>1, AsideKept DEF IInv, TypeOK, Mishaps
<1>3. ~ Waiting(call[t], sock)
  BY <1>1 DEF Waiting
<1>4. CASE sock = NoSock
  <2>1. Result(t, -1)
    BY <1>4 DEF Looks
  <2> QED BY <1>1, <1>2, <1>3, <2>1, EndStep, RetsAre DEF Asking
<1>5. CASE sock # NoSock
  <2> DEFINE C == [call[t] EXCEPT !.at = "sending", !.conn = sock]
  <2>1. call[t] \in CallType /\ sock \in Conns
    BY <1>5, TypesAre DEF IInv
  <2>2. /\ C \in CallType /\ C.at = "sending" /\ C.conn = sock /\ C.op = call[t].op
        /\ C.ret = call[t].ret /\ C.left = call[t].left /\ C.done = call[t].done
    BY <2>1 DEF CallType
  <2>3. Stays(t, C)
    BY <1>5 DEF Looks
  <2> HIDE DEF C
  <2>4. Goes(t, C) /\ sema' = sema
    BY <2>2, <2>3, StaysIs
  <2>5. sema' \in Threads \cup {Nobody} /\ OneAtATime'
    BY <1>1, <2>4, StillOne
  <2>6. CallOK(call[t], sock)
    BY DEF IInv, CallsSound
  <2>7. CallOK(C, sock)
    BY <1>1, <2>1, <2>2, <2>6 DEF CallOK, Before, Asking, Exchanging
  <2>8. WaitOK(t, C) /\ ReplacedOK(C)
    BY <2>2 DEF WaitOK, ReplacedOK, Waiting
  <2> QED BY <1>1, <1>2, <1>3, <2>2, <2>4, <2>5, <2>7, <2>8, FilesKept, QuietStep
<1> QED BY <1>4, <1>5

LEMMA SendFailsStep ==
    ASSUME IInv, work' \in 0 .. MaxWork, NEW t \in Threads, SendFails(t)
    PROVE  IInv'
<1>1. /\ call[t].at = "sending" /\ sema = t
      /\ UNCHANGED <<sock, server, file, flags, recv_packet, link, requests, replies,
                     opened, disk, mishaps>>
  BY DEF SendFails, pc, IInv, OneAtATime, Exchanging
<1>2. Aside
  BY <1>1, AsideKept DEF IInv, TypeOK
<1>3. ~ Waiting(call[t], sock)
  BY <1>1 DEF Waiting
<1>4. CASE call[t].op = "read"
  <2>1. Result(t, -1)
    BY <1>4 DEF SendFails
  <2> QED BY <1>1, <1>2, <1>3, <2>1, EndStep, RetsAre DEF Asking, Exchanging
<1>5. CASE call[t].op # "read"
  <2> DEFINE C == [call[t] EXCEPT !.at = "closing"]
  <2>1. call[t] \in CallType
    BY TypesAre DEF IInv
  <2>2. /\ C \in CallType /\ C.at = "closing" /\ C.conn = call[t].conn /\ C.op = call[t].op
        /\ C.ret = call[t].ret /\ C.left = call[t].left /\ C.done = call[t].done
    BY <2>1 DEF CallType
  <2>3. Stays(t, C)
    BY <1>5 DEF SendFails
  <2> HIDE DEF C
  <2>4. Goes(t, C) /\ sema' = sema
    BY <2>2, <2>3, StaysIs
  <2>5. sema' \in Threads \cup {Nobody} /\ OneAtATime'
    BY <1>1, <2>4, StillOne
  <2>6. CallOK(call[t], sock) /\ ReplacedOK(call[t])
    BY DEF IInv, CallsSound, ExchangeSound
  <2>7. CallOK(C, sock)
    BY <1>1, <2>1, <2>2, <2>6 DEF CallOK, Before, Asking, Exchanging
  <2>8. WaitOK(t, C) /\ ReplacedOK(C)
    BY <1>1, <2>2, <2>6 DEF WaitOK, ReplacedOK, Waiting
  <2> QED BY <1>1, <1>2, <1>3, <2>2, <2>4, <2>5, <2>7, <2>8, FilesKept, QuietStep
<1> QED BY <1>4, <1>5

\* What stays the same of a call that moves to another stage.
Moved(t, C, stage) ==
    /\ Goes(t, C) /\ C.at = stage
    /\ C.op = call[t].op /\ C.conn = call[t].conn /\ C.made = call[t].made
    /\ C.ret = call[t].ret /\ C.left = call[t].left /\ C.done = call[t].done

LEMMA MovedIs ==
    ASSUME IInv, NEW t \in Threads, NEW stage \in Asking,
           Stays(t, [call[t] EXCEPT !.at = stage])
    PROVE  \E C : Moved(t, C, stage) /\ sema' = sema
<1> DEFINE C == [call[t] EXCEPT !.at = stage]
<1>1. call[t] \in CallType
  BY TypesAre DEF IInv
<1>2. /\ C \in CallType /\ C.at = stage
      /\ C.op = call[t].op /\ C.conn = call[t].conn /\ C.made = call[t].made
      /\ C.ret = call[t].ret /\ C.left = call[t].left /\ C.done = call[t].done
  BY <1>1 DEF CallType, Asking, Exchanging
<1> HIDE DEF C
<1>3. Goes(t, C) /\ sema' = sema
  BY <1>2, StaysIs DEF C
<1> QED BY <1>2, <1>3 DEF Moved

\* The socket of this moment is taken for the reply, or for the data of one.
LEMMA TakesStep ==
    ASSUME IInv, work' \in 0 .. MaxWork, NEW t \in Threads, NEW stage \in {"recv", "data"},
           call[t].at = IF stage = "recv" THEN "await" ELSE "count",
           Stays(t, [call[t] EXCEPT !.at = stage, !.conn = sock]),
           UNCHANGED <<sock, server, file, flags, recv_packet, pc>>,
           mishaps \subseteq mishaps', mishaps' \subseteq Mishaps,
           sock # call[t].conn => "replaced" \in mishaps'
    PROVE  IInv'
<1>1. /\ call[t].at \in {"await", "count"} /\ sema = t
      /\ UNCHANGED <<sock, server, file, flags, recv_packet, link, requests, replies,
                     opened, disk>>
  BY DEF pc, IInv, OneAtATime, Exchanging
<1>2. Aside
  BY <1>1, AsideKept
<1>3. call[t] \in CallType
  BY TypesAre DEF IInv
<1>4. CallOK(call[t], sock) /\ ReplacedOK(call[t]) /\ WaitOK(t, call[t])
  BY DEF IInv, CallsSound, ExchangeSound
<1>5. sock \in Conns
  BY <1>1, <1>4 DEF CallOK
<1>6. PICK C : C = [call[t] EXCEPT !.at = stage, !.conn = sock]
  OBVIOUS
<1>7. /\ C \in CallType /\ C.at = stage /\ C.conn = sock /\ C.op = call[t].op
      /\ C.ret = call[t].ret /\ C.left = call[t].left /\ C.done = call[t].done
  BY <1>3, <1>5, <1>6 DEF CallType
<1>8. Goes(t, C) /\ sema' = sema
  BY <1>6, <1>7, StaysIs
<1>9. sema' \in Threads \cup {Nobody} /\ OneAtATime'
  BY <1>1, <1>8, StillOne
<1>10. CallOK(C, sock)
  BY <1>1, <1>3, <1>4, <1>5, <1>7 DEF CallOK, Before, Asking, Exchanging
<1>11. WaitOK(t, C)'
  <2>1. CASE call[t].conn = sock
    <3>1. Own(t, call[t], sock) \/ (Clear(sock) /\ (link[sock] # "open" \/ "replaced" \in mishaps))
      BY <1>1, <1>4, <1>5, <2>1 DEF WaitOK, Waiting
    <3>2. OnData(C) <=> OnData(call[t])
      BY <1>1, <1>7 DEF OnData
    <3>3. Own(t, C, sock)' \/ (Clear(sock)' /\ (link'[sock] # "open" \/ "replaced" \in mishaps'))
      BY <1>1, <1>7, <3>1, <3>2 DEF Own, OnData, Clear
    <3> QED BY <1>7, <3>3, <1>1 DEF WaitOK, Waiting, Own, Clear
  <2>2. CASE call[t].conn # sock
    <3>1. Clear(sock) /\ "replaced" \in mishaps'
      BY <1>1, <1>4, <1>5, <2>2 DEF ReplacedOK
    <3> QED BY <1>1, <1>7, <3>1 DEF WaitOK, Waiting, Clear
  <2> QED BY <2>1, <2>2
<1>12. ReplacedOK(C)' /\ Waiting(C, sock)
  BY <1>1, <1>7 DEF ReplacedOK, Waiting
<1> QED BY <1>1, <1>2, <1>7, <1>8, <1>9, <1>10, <1>11, <1>12, FilesKept, QuietAfter

LEMMA AwaitsStep ==
    ASSUME IInv, work' \in 0 .. MaxWork, NEW t \in Threads, Awaits(t)
    PROVE  IInv'
<1>1. /\ call[t].at = "await" /\ mishaps' = mishaps
      /\ Stays(t, [call[t] EXCEPT !.at = "recv", !.conn = sock])
      /\ UNCHANGED <<sock, server, file, flags, recv_packet, pc>>
  BY DEF Awaits
<1>2. CallOK(call[t], sock) /\ ReplacedOK(call[t]) /\ mishaps \subseteq Mishaps
  BY DEF IInv, CallsSound, ExchangeSound, TypeOK
<1>3. sock # call[t].conn => "replaced" \in mishaps'
  BY <1>1, <1>2 DEF CallOK, ReplacedOK
<1> QED BY <1>1, <1>2, <1>3, TakesStep

LEMMA AwaitsDataStep ==
    ASSUME IInv, work' \in 0 .. MaxWork, NEW t \in Threads, AwaitsData(t)
    PROVE  IInv'
<1>1. /\ call[t].at = "count"
      /\ mishaps' = mishaps \cup (IF sock # call[t].conn THEN {"replaced"} ELSE {})
      /\ Stays(t, [call[t] EXCEPT !.at = "data", !.conn = sock])
      /\ UNCHANGED <<sock, server, file, flags, recv_packet, pc>>
  BY DEF AwaitsData
<1>2. mishaps \subseteq mishaps' /\ mishaps' \subseteq Mishaps
      /\ (sock # call[t].conn => "replaced" \in mishaps')
  BY <1>1 DEF IInv, TypeOK, Mishaps
<1> QED BY <1>1, <1>2, TakesStep

\* What the retval of a reply makes of the call: it is over, or, of a write, goes on.
AnswerOf(t, res, C) ==
    /\ C.op = call[t].op /\ C.conn = call[t].conn /\ C.made = call[t].made
    /\ \/ C.at = "post" /\ C.ret = IF res < 0 THEN res ELSE call[t].ret + res
       \/ /\ C.at = "send" /\ C.op = "write" /\ res > 0
          /\ C.ret = call[t].ret + res /\ C.done = Undone

LEMMA AnsweredIs ==
    ASSUME IInv, NEW t \in Threads, call[t].at = "recv", NEW res \in Retvals, Answered(t, res)
    PROVE  \E C : /\ Goes(t, C) /\ CallOK(C, sock) /\ AnswerOf(t, res, C)
                  /\ sema' \in Threads \cup {Nobody} /\ OneAtATime'
<1>1. /\ call[t] \in CallType /\ CallOK(call[t], sock) /\ sema = t
      /\ call[t].ret \in Int /\ call[t].left \in Int /\ res \in Int /\ res \in Rets
  <2>1. call[t] \in CallType /\ res \in Int /\ res \in Rets
    BY TypesAre, RetsAre DEF IInv
  <2>2. CallOK(call[t], sock) /\ sema = t
    BY DEF IInv, CallsSound, OneAtATime, Exchanging
  <2>3. call[t].ret \in Rets /\ call[t].left \in 0 .. MaxSegments
    BY <2>1 DEF CallType
  <2>4. call[t].ret \in Int
    BY <2>3, RetsAre
  <2>5. call[t].left \in Int
    BY <2>3, ConstantsAre
  <2> QED BY <2>1, <2>2, <2>4, <2>5
<1>2. /\ call[t].op \in Ops
      /\ call[t].op = "write" => /\ call[t].left >= 1 /\ call[t].ret >= 0
                                 /\ call[t].ret + call[t].left <= MaxSegments
      /\ call[t].op # "write" => call[t].ret = 0
  BY <1>1 DEF CallOK, Asking, Exchanging
<1>3. ASSUME NEW n \in Rets, Result(t, n), n = IF res < 0 THEN res ELSE call[t].ret + res
      PROVE  \E C : /\ Goes(t, C) /\ CallOK(C, sock) /\ AnswerOf(t, res, C)
                    /\ sema' \in Threads \cup {Nobody} /\ OneAtATime'
  <2> DEFINE C == [call[t] EXCEPT !.at = "post", !.ret = n]
  <2>1. /\ Goes(t, C) /\ C.at = "post" /\ C.ret = n
        /\ C.op = call[t].op /\ C.conn = call[t].conn /\ C.made = call[t].made
        /\ sema' \in Threads \cup {Nobody} /\ OneAtATime'
    <3>1. n \in Rets /\ sema = t /\ Result(t, n)
      BY <1>1, <1>3
    <3> HIDE <1>3
    <3> QED BY <3>1, ResultIs
  <2> HIDE DEF C
  <2>2. CallOK(C, sock)
    BY <1>2, <2>1 DEF CallOK, Before, Asking, Exchanging
  <2> QED BY <1>3, <2>1, <2>2 DEF AnswerOf
<1>4. CASE call[t].op # "write"
  <2>1. Result(t, res) /\ (res < 0 \/ res = call[t].ret + res)
    BY <1>1, <1>2, <1>4 DEF Answered
  <2> QED BY <1>1, <1>3, <2>1
<1>5. CASE call[t].op = "write" /\ res < 0
  <2>1. Result(t, res)
    BY <1>5 DEF Answered
  <2> QED BY <1>1, <1>3, <1>5, <2>1
<1>6. CASE call[t].op = "write" /\ ~ (res < 0)
  <2> DEFINE total == call[t].ret + res
             left == call[t].left - res
  <2>1. res \in 0 .. MaxFd
    BY <1>6, RetsAre DEF Retvals, Renamed
  <2>2. total \in Rets /\ total \in Int /\ left \in Int
    <3>1. total \in 0 .. MaxSegments + MaxFd
      BY <1>1, <1>2, <1>6, <2>1, ConstantsAre
    <3> QED BY <1>1, <2>1, <3>1, RetsAre
  <2>3. CASE res = 0 \/ left <= 0
    <3>1. Result(t, total)
      BY <1>6, <2>3 DEF Answered
    <3> HIDE DEF left
    <3> QED BY <1>3, <1>6, <2>2, <3>1
  <2>4. CASE res # 0 /\ ~ (left <= 0)
    <3> DEFINE B == [call[t] EXCEPT !.at = "send", !.ret = total]
               C == [B EXCEPT !.left = left, !.done = Undone]
    <3>1. Stays(t, [call[t] EXCEPT !.at = "send", !.ret = total, !.left = left, !.done = Undone])
      BY <1>6, <2>4 DEF Answered
    <3>2. Stays(t, C)
      BY <3>1
    <3>3. left \in 0 .. MaxSegments /\ left >= 1 /\ total + left <= MaxSegments /\ total >= 0
          /\ res > 0
      BY <1>1, <1>2, <1>6, <2>1, <2>4, ConstantsAre
    <3>4. total = call[t].ret + res
      OBVIOUS
    <3> HIDE DEF total, left
    <3>5. B \in CallType /\ B.at = "send" /\ B.ret = total
          /\ B.op = call[t].op /\ B.conn = call[t].conn /\ B.made = call[t].made
      BY <1>1, <2>2 DEF CallType
    <3> HIDE DEF B
    <3>6. C \in CallType /\ C.at = "send" /\ C.ret = total /\ C.left = left /\ C.done = Undone
          /\ C.op = call[t].op /\ C.conn = call[t].conn /\ C.made = call[t].made
      BY <3>3, <3>5 DEF CallType
    <3> HIDE DEF C
    <3>7. Goes(t, C) /\ sema' = sema
      BY <3>2, <3>6, StaysIs
    <3>8. CallOK(C, sock)
      BY <1>2, <1>6, <3>3, <3>6 DEF CallOK, Before, Asking, Exchanging
    <3>9. sema' \in Threads \cup {Nobody} /\ OneAtATime'
      BY <3>6, <3>7, StillOne DEF Exchanging
    <3> QED BY <1>6, <3>3, <3>4, <3>6, <3>7, <3>8, <3>9 DEF AnswerOf
  <2> QED BY <2>3, <2>4
<1> QED BY <1>4, <1>5, <1>6

\* A read goes on to the data, or is over.
LEMMA CountedIs ==
    ASSUME IInv, NEW t \in Threads, call[t].at = "recv", call[t].op = "read",
           NEW n \in Retvals, Counted(t, n)
    PROVE  \E C : /\ Goes(t, C) /\ CallOK(C, sock) /\ C.op = call[t].op /\ C.conn = call[t].conn
                  /\ C.done = call[t].done /\ C.made = call[t].made
                  /\ sema' \in Threads \cup {Nobody} /\ OneAtATime'
                  /\ \/ C.at = "count" /\ n > 0 /\ C.ret = call[t].ret
                     \/ C.at = "post" /\ ~ (n > 0) /\ C.ret = IF n < 0 THEN -1 ELSE 0
<1>1. CallOK(call[t], sock) /\ sema = t
  BY DEF IInv, CallsSound, OneAtATime, Exchanging
<1>2. CASE n > 0
  <2>1. Stays(t, [call[t] EXCEPT !.at = "count"])
    BY <1>2 DEF Counted
  <2>2. PICK C : Moved(t, C, "count") /\ sema' = sema
    BY <2>1, MovedIs DEF Asking, Exchanging
  <2>3. CallOK(C, sock)
    BY <1>1, <2>2 DEF Moved, CallOK, Before, Asking, Exchanging
  <2>4. sema' \in Threads \cup {Nobody} /\ OneAtATime'
    BY <1>1, <2>2, StillOne DEF Moved
  <2> QED BY <1>2, <2>2, <2>3, <2>4 DEF Moved
<1>3. CASE ~ (n > 0)
  <2>1. PICK res \in {-1, 0} : res = (IF n < 0 THEN -1 ELSE 0)
    OBVIOUS
  <2>2. Result(t, res) /\ res \in Rets
    BY <1>3, <2>1, RetsAre DEF Counted
  <2> DEFINE C == [call[t] EXCEPT !.at = "post", !.ret = res]
  <2>3. /\ Goes(t, C) /\ C.at = "post" /\ C.ret = res
        /\ C.op = call[t].op /\ C.conn = call[t].conn /\ C.made = call[t].made
        /\ C.done = call[t].done
        /\ sema' \in Threads \cup {Nobody} /\ OneAtATime'
    BY <1>1, <2>2, ResultIs
  <2> HIDE DEF C
  <2>4. CallOK(C, sock)
    BY <1>1, <2>3 DEF CallOK, Before, Asking, Exchanging
  <2> QED BY <1>3, <2>1, <2>3, <2>4
<1> QED BY <1>2, <1>3

LEMMA HeaderFailsStep ==
    ASSUME IInv, work' \in 0 .. MaxWork, NEW t \in Threads, HeaderFails(t)
    PROVE  IInv'
<1>1. /\ call[t].at = "recv" /\ link[call[t].conn] \in {"lost", "closed"}
      /\ UNCHANGED <<sock, server, file, flags, recv_packet, link, requests, replies,
                     opened, disk, mishaps>>
  BY DEF HeaderFails, CannotReceive, pc
<1>2. Aside /\ recv_packet.retval \in Retvals /\ recv_packet.nbytes \in Retvals
  BY <1>1, AsideKept DEF IInv, TypeOK
<1>3. Waiting(call[t], sock) => link[sock] \notin {"open", "shut"}
  BY <1>1 DEF Waiting
<1>4. CASE call[t].op = "read"
  <2>1. Counted(t, recv_packet.nbytes)
    BY <1>4 DEF HeaderFails
  <2>2. PICK C : /\ Goes(t, C) /\ CallOK(C, sock) /\ C.op = call[t].op
                 /\ C.conn = call[t].conn /\ C.done = call[t].done
                 /\ sema' \in Threads \cup {Nobody} /\ OneAtATime'
                 /\ C.at \in {"count", "post"}
    BY <1>1, <1>2, <1>4, <2>1, CountedIs
  <2>3. WaitOK(t, call[t]) /\ ReplacedOK(call[t]) /\ LinksSound
        /\ call[t].conn \in Conns
    BY <1>1 DEF IInv, ExchangeSound, CallsSound, CallOK
  <2>4. WaitOK(t, C)
    <3> DEFINE c == call[t].conn
    <3>1. CASE C.at = "count"
      <4>1. replies[c] = <<>>
        BY <1>1, <2>3 DEF LinksSound
      <4>2. Own(t, call[t], c) \/ Clear(c)
        BY <1>1, <2>3 DEF WaitOK, Waiting
      <4>3. Own(t, C, c) \/ Clear(c)
        BY <1>1, <2>2, <4>1, <4>2, EmptySeq DEF Own, OnData
      <4> QED BY <1>1, <2>2, <4>3 DEF WaitOK, Waiting
    <3>2. CASE C.at # "count"
      BY <2>2, <3>2 DEF WaitOK, Waiting
    <3> QED BY <3>1, <3>2
  <2>5. ReplacedOK(C)
    BY <1>1, <2>2, <2>3 DEF ReplacedOK
  <2>6. C.conn \in {call[t].conn, sock, NoSock}
    BY <2>2
  <2> QED BY <1>1, <1>2, <1>3, <2>2, <2>4, <2>5, <2>6, FilesKept, QuietStep
<1>5. CASE call[t].op # "read"
  <2>1. Answered(t, recv_packet.retval)
    BY <1>5 DEF HeaderFails
  <2>2. PICK C : /\ Goes(t, C) /\ CallOK(C, sock) /\ AnswerOf(t, recv_packet.retval, C)
                 /\ sema' \in Threads \cup {Nobody} /\ OneAtATime'
    BY <1>1, <1>2, <2>1, AnsweredIs
  <2>3. C.at \in {"post", "send"} /\ C.conn = call[t].conn /\ C \in CallType
    BY <2>2 DEF AnswerOf, Goes
  <2> QED BY <1>1, <1>2, <1>3, <2>2, <2>3, OutsideOK, FilesKept, QuietStep
<1> QED BY <1>4, <1>5

LEMMA RestFailsStep ==
    ASSUME IInv, work' \in 0 .. MaxWork, NEW t \in Threads, RestFails(t)
    PROVE  IInv'
<1>1. /\ call[t].at \in {"recv", "data"} /\ link[call[t].conn] \in {"lost", "closed"}
      /\ UNCHANGED <<sock, server, file, flags, recv_packet, link, requests, replies,
                     opened, disk, mishaps>>
      /\ Result(t, -1)
  BY DEF RestFails, CannotReceive, pc
<1>2. Aside
  BY <1>1, AsideKept DEF IInv, TypeOK
<1>3. Waiting(call[t], sock) => link[sock] \notin {"open", "shut"}
  BY <1>1 DEF Waiting
<1> QED BY <1>1, <1>2, <1>3, EndStep, RetsAre DEF Asking, Exchanging

\* What a function leaves in the driver's variables and in the file.
LEMMA AssignedIs ==
    ASSUME IInv, NEW t \in Threads
    PROVE  /\ Assigned(t) \in [lastopen_fd : Rets, renamed_fd : Rets,
                               remove_flag : BOOLEAN, remove_result : Rets]
           /\ Assigned(t).remove_flag = flags.remove_flag
           /\ FileAfter(t) \in FileType
           /\ FileAfter(t).conn \in {file[t].conn, call[t].conn, NoSock}
<1>1. /\ call[t].ret \in Rets /\ file[t].fd \in Rets /\ -1 \in Rets
      /\ call[t].conn \in Conns \cup {NoSock} /\ file[t] \in FileType
  BY TypesAre, RetsAre DEF IInv, CallType, FileType
<1>2. /\ Assigned(t) \in [lastopen_fd : Rets, renamed_fd : Rets,
                          remove_flag : BOOLEAN, remove_result : Rets]
      /\ Assigned(t).remove_flag = flags.remove_flag
  BY <1>1, FlagsAre DEF Assigned
<1>3. FileAfter(t) \in FileType /\ FileAfter(t).conn \in {file[t].conn, call[t].conn, NoSock}
  BY <1>1, NoCallIs DEF FileAfter, FileType
<1> QED BY <1>2, <1>3

LEMMA ReturnsStep ==
    ASSUME IInv, work' \in 0 .. MaxWork, NEW t \in Threads, Returns(t)
    PROVE  IInv'
<1>1. /\ call[t].at = "post" /\ flags' = Assigned(t) /\ file' = [file EXCEPT ![t] = FileAfter(t)]
      /\ UNCHANGED <<sock, server, sema, recv_packet, link, requests, replies,
                     opened, disk, mishaps>>
  BY DEF Returns, pc
<1>2. Aside
  BY <1>1, AssignedIs DEF Aside, IInv, TypeOK
<1> DEFINE again == [NoCall EXCEPT !.at = "again", !.name = call[t].name]
<1>3. PICK C \in {NoCall, again} : call' = [call EXCEPT ![t] = C]
  BY DEF Returns, Set
<1>4. /\ again \in CallType /\ again.at = "again" /\ again.op = "none" /\ again.ret = 0
      /\ again.done = Undone /\ again.conn = NoSock /\ ~ again.made
  <2>1. call[t].name \in Names \cup {"none"}
    BY TypesAre DEF IInv, CallType
  <2> QED BY <2>1, NoCallIs DEF CallType
<1> HIDE DEF again
<1>5. Goes(t, C) /\ CallOK(C, sock) /\ C.at \in {"idle", "again"} /\ C.conn = NoSock
  BY <1>3, <1>4, NoCallIs DEF Goes, CallOK, Before, Asking, Exchanging
<1>6. WaitOK(t, C) /\ ReplacedOK(C) /\ ~ Waiting(call[t], sock)
  BY <1>1, <1>5 DEF WaitOK, ReplacedOK, Waiting
<1>7. sema' \in Threads \cup {Nobody} /\ OneAtATime'
  BY <1>1, <1>5, StillOne DEF Exchanging
<1>8. /\ file' \in [Threads -> FileType]
      /\ \A u \in Threads : file'[u].conn \in {file[u].conn, call[u].conn, NoSock}
  BY <1>1, AssignedIs, TypesAre DEF IInv
<1> QED BY <1>1, <1>2, <1>5, <1>6, <1>7, <1>8, QuietStep

LEMMA StutterStep ==
    ASSUME IInv, UNCHANGED vars
    PROVE  IInv'
<1>1. UNCHANGED <<sock, server, sema, call, file, flags, recv_packet, link, requests,
                  replies, opened, disk, mishaps, work>>
  BY DEF vars, driver, pc
<1>2. TypeOK'
  BY <1>1 DEF IInv, TypeOK
<1>3. OneAtATime' /\ CallsSound' /\ FreshSound' /\ LinksSound'
  BY <1>1 DEF IInv, OneAtATime, CallsSound, FreshSound, LinksSound, Untouched, Clear
<1>4. ExchangeSound'
  BY <1>1 DEF IInv, ExchangeSound, WaitOK, ReplacedOK, SocketClear, Waiting, Own, OnData, Clear
<1> QED BY <1>2, <1>3, <1>4 DEF IInv

-----------------------------------------------------------------------------
(* Steps of a thread that send, receive or disconnect.                     *)

\* While t is in the exchange, what must be shown of the exchanges is about its call.
LEMMA ExchangeKept ==
    ASSUME IInv, NEW t \in Threads, call[t].at \in Exchanging,
           NEW C, Goes(t, C), WaitOK(t, C)', ReplacedOK(C)', SocketClear'
    PROVE  ExchangeSound'
<1>1. \A u \in Threads \ {t} : call[u].at \notin Exchanging
  BY Alone
<1>2. call'[t] = C /\ \A u \in Threads \ {t} : call'[u] = call[u]
  BY GoesTo
<1>3. ASSUME NEW u \in Threads \ {t} PROVE (WaitOK(u, call[u]) /\ ReplacedOK(call[u]))'
  BY <1>1, <1>2 DEF WaitOK, ReplacedOK, Waiting, Exchanging, OnData
<1>5. (WaitOK(t, call[t]) /\ ReplacedOK(call[t]))'
  BY <1>2 DEF WaitOK, ReplacedOK, Waiting, Own, OnData
<1>4. \A u \in Threads : (WaitOK(u, call[u]) /\ ReplacedOK(call[u]))'
  BY <1>3, <1>5
<1> QED BY <1>4 DEF ExchangeSound

LEMMA CallsKept ==
    ASSUME IInv, NEW t \in Threads, NEW C, Goes(t, C), CallOK(C, sock),
           sock' = sock
    PROVE  CallsSound'
BY GoesTo DEF IInv, CallsSound

\* The call at hand alone may be waiting on the socket.
LEMMA SocketInStep ==
    ASSUME IInv, NEW t \in Threads, call[t].at \in Exchanging, sock \in Conns,
           link[sock] \in {"open", "shut"}, ~ Waiting(call[t], sock)
    PROVE  Clear(sock)
<1>1. \A u \in Threads \ {t} : call[u].at \notin Exchanging
  BY Alone
<1> QED BY <1>1 DEF IInv, ExchangeSound, SocketClear, Waiting, Exchanging

LEMMA SendsStep ==
    ASSUME IInv, work' \in 0 .. MaxWork, NEW t \in Threads, Sends(t)
    PROVE  IInv'
<1> DEFINE c == call[t].conn
<1>1. /\ call[t].at = "sending" /\ sema = t /\ link[c] \in {"open", "shut", "lost"}
      /\ requests' = IF link[c] # "open" THEN requests
                     ELSE [requests EXCEPT ![c] = Append(@, Request(t))]
      /\ UNCHANGED <<sock, server, file, flags, recv_packet, link, replies,
                     opened, disk, mishaps>>
  BY DEF Sends, IInv, OneAtATime, Exchanging
<1>2. PICK C : Moved(t, C, "await") /\ sema' = sema
  BY MovedIs DEF Sends, Asking, Exchanging
<1>3. /\ CallOK(call[t], sock) /\ ReplacedOK(call[t])
      /\ c \in Conns /\ sock \in Conns /\ call[t].op \in Ops /\ call[t].done = Undone
  BY <1>1 DEF IInv, CallsSound, ExchangeSound, CallOK, Before
<1>4. sock = c
  BY <1>1, <1>3 DEF ReplacedOK
<1>5. Clear(c)
  <2>1. CASE link[c] = "lost"
    BY <1>3, <2>1 DEF IInv, LinksSound, Clear
  <2>2. CASE link[c] # "lost"
    <3>1. sock \in Conns /\ link[sock] \in {"open", "shut"}
      BY <1>1, <1>3, <1>4, <2>2
    <3>2. call[t].at \in Exchanging /\ ~ Waiting(call[t], sock)
      BY <1>1 DEF Waiting, Exchanging
    <3>3. Clear(sock)
      BY <3>1, <3>2, SocketInStep
    <3> QED BY <1>4, <3>3
  <2> QED BY <2>1, <2>2
<1>6. Request(t) \in Message /\ Request(t).by = t /\ Request(t).op = call[t].op
  <2>1. call[t] \in CallType
    BY TypesAre DEF IInv
  <2> QED BY <1>3, <2>1 DEF Request, Message, CallType
<1>7. /\ requests' \in [Conns -> Seq(Message)]
      /\ \A b \in Conns \ {c} : requests'[b] = requests[b]
      /\ link[c] # "open" => requests'[c] = <<>>
      /\ link[c] = "open" => /\ Len(requests'[c]) = 1
                             /\ requests'[c][1].by = t /\ requests'[c][1].op = call[t].op
  <2>1. requests \in [Conns -> Seq(Message)] /\ requests[c] = <<>>
    BY <1>5, TypesAre DEF IInv, Clear
  <2> DEFINE q == Request(t)
             one == Append(requests[c], q)
  <2>2. one \in Seq(Message) /\ Len(one) = 1 /\ one[1] = q
    BY <1>6, <2>1
  <2> HIDE DEF one, q
  <2>3. requests' = IF link[c] # "open" THEN requests ELSE [requests EXCEPT ![c] = one]
    BY <1>1 DEF one, q
  <2>4. q.by = t /\ q.op = call[t].op
    BY <1>6 DEF q
  <2> QED BY <1>1, <1>3, <2>1, <2>2, <2>3, <2>4
<1>8. /\ Goes(t, C) /\ C.at = "await" /\ C.op = call[t].op /\ C.conn = c
      /\ C.done = Undone /\ C.ret = call[t].ret /\ C.left = call[t].left
  BY <1>2, <1>3 DEF Moved
<1> HIDE DEF c
<1>9. call' \in [Threads -> CallType] /\ call'[t] = C /\ \A u \in Threads \ {t} : call'[u] = call[u]
  BY <1>8, GoesTo
<1>10. TypeOK'
  BY <1>1, <1>2, <1>7, <1>9 DEF IInv, TypeOK, CallType, Message
<1>11. CallOK(C, sock)
  BY <1>1, <1>3, <1>8 DEF CallOK, Before, Asking, Exchanging
<1>12. FreshSound'
  <2>1. ASSUME NEW b \in Conns, Untouched(b)
        PROVE  Clear(b)' /\ \A u \in Threads : call'[u].conn # b
    <3>1. b # c
      BY <2>1 DEF IInv, FreshSound, c
    <3> QED BY <1>1, <1>7, <1>8, <1>9, <2>1, <3>1 DEF IInv, FreshSound, Clear
  <2> QED BY <1>1, <2>1 DEF IInv, FreshSound, Untouched
<1>13. LinksSound'
  BY <1>1, <1>7 DEF IInv, LinksSound
<1>14. WaitOK(t, C)' /\ ReplacedOK(C)' /\ SocketClear'
  <2>1. WaitOK(t, C)'
    BY <1>1, <1>3, <1>5, <1>7, <1>8 DEF WaitOK, Waiting, Own, OnData, Clear
  <2>2. ReplacedOK(C)'
    BY <1>1, <1>4, <1>8 DEF ReplacedOK
  <2>3. SocketClear'
    BY <1>1, <1>4, <1>8, <1>9 DEF SocketClear, Waiting
  <2> QED BY <2>1, <2>2, <2>3
<1>15. OneAtATime' /\ CallsSound'
  BY <1>1, <1>2, <1>8, <1>11, StillOne, CallsKept
<1>16. ExchangeSound'
  BY <1>1, <1>8, <1>14, ExchangeKept DEF Exchanging
<1> QED BY <1>10, <1>12, <1>13, <1>15, <1>16 DEF IInv

\* A thread has taken from its connection c what was left there, but perhaps for the
\* data of a read, and the call becomes C.
LEMMA TakenStep ==
    ASSUME IInv, work' \in 0 .. MaxWork, NEW t \in Threads, NEW c \in Conns,
           call[t].at \in Exchanging, Waiting(call[t], c),
           NEW C, Goes(t, C), CallOK(C, sock), C.conn = c, C.at \in {"send", "post", "count"},
           sema' \in Threads \cup {Nobody}, OneAtATime',
           requests[c] = <<>>, replies[c] # <<>>,
           UNCHANGED <<sock, server, file, flags, link, requests, opened, disk, mishaps>>,
           recv_packet' \in [retval : Retvals, nbytes : Retvals],
           replies' \in [Conns -> Seq(Reply)],
           \A b \in Conns \ {c} : replies'[b] = replies[b],
           C.at # "count" => replies'[c] = <<>>,
           C.at = "count" => call[t].at = "recv" /\ Own(t, C, c)'
    PROVE  IInv'
<1>1. call' \in [Threads -> CallType] /\ call'[t] = C /\ \A u \in Threads \ {t} : call'[u] = call[u]
  BY GoesTo
<1>2. \A b \in Conns : Clear(b) => Clear(b)' /\ b # c
  BY DEF Clear
<1>3. C.at # "count" => Clear(c)'
  BY DEF Clear
<1>4. sock \in Conns /\ link[sock] \in {"open", "shut"} /\ sock # c => Clear(sock)
  BY SocketInStep DEF Waiting
<1>5. \A b \in Conns : Untouched(b) => b # c
  BY DEF IInv, FreshSound, Waiting
<1>6. link[c] \notin {"none", "lost", "closed"}
  BY DEF IInv, LinksSound
<1>7. TypeOK'
  BY <1>1 DEF IInv, TypeOK, CallType, Reply
<1>8. FreshSound'
  <2>1. ASSUME NEW b \in Conns, Untouched(b)
        PROVE  Clear(b)' /\ \A u \in Threads : call'[u].conn # b
    BY <1>1, <1>2, <1>5, <2>1 DEF IInv, FreshSound
  <2> QED BY <2>1 DEF IInv, FreshSound, Untouched
<1>9. LinksSound'
  BY <1>6 DEF IInv, LinksSound
<1>10. SocketClear'
  <2>1. C.at = "count" => Waiting(C, c)
    BY DEF Waiting
  <2>2. ASSUME sock \in Conns, link[sock] \in {"open", "shut"}
        PROVE  (\E u \in Threads : Waiting(call'[u], sock)) \/ Clear(sock)'
    BY <1>1, <1>2, <1>3, <1>4, <2>1, <2>2
  <2> QED BY <2>2 DEF SocketClear, Waiting
<1>11. WaitOK(t, C)'
  BY DEF WaitOK, Waiting
<1>12. ReplacedOK(C)'
  <2>1. CASE C.at = "count"
    <3>1. ReplacedOK(call[t]) /\ call[t].conn = c
      BY DEF IInv, ExchangeSound, Waiting
    <3> QED BY <1>2, <2>1, <3>1 DEF ReplacedOK
  <2>2. CASE C.at # "count"
    BY <2>2 DEF ReplacedOK
  <2> QED BY <2>1, <2>2
<1>13. CallsSound' /\ ExchangeSound'
  BY <1>10, <1>11, <1>12, CallsKept, ExchangeKept
<1> QED BY <1>7, <1>8, <1>9, <1>13 DEF IInv

\* What a thread finds on the connection it waits on is its own.
LEMMA ReplyIs ==
    ASSUME IInv, NEW t \in Threads, NEW c \in Conns, Waiting(call[t], c), replies[c] # <<>>
    PROVE  LET p == Head(replies[c])
           IN  /\ Own(t, call[t], c) /\ requests[c] = <<>> /\ Len(replies[c]) = 1
               /\ p = replies[c][1] /\ p \in Reply /\ p.by = t
               /\ p.op = IF OnData(call[t]) THEN "data" ELSE call[t].op
               /\ call[t].done = p.ret /\ p.ret \in Retvals
               /\ Tail(replies[c]) = <<>> /\ Tail(replies[c]) \in Seq(Reply)
<1>1. WaitOK(t, call[t]) /\ replies \in [Conns -> Seq(Reply)]
  BY TypesAre DEF IInv, ExchangeSound
<1>2. Own(t, call[t], c)
  BY <1>1 DEF WaitOK, Clear
<1>3. requests[c] = <<>> /\ Len(replies[c]) = 1
  BY <1>2 DEF Own
<1> DEFINE p == Head(replies[c])
<1>4. p = replies[c][1] /\ p \in Reply /\ Tail(replies[c]) \in Seq(Reply)
  BY <1>1, HeadTailProperties
<1>5. Tail(replies[c]) = <<>>
  <2>1. Len(Tail(replies[c])) = 0
    BY <1>1, <1>3, HeadTailProperties
  <2> QED BY <1>4, <2>1, EmptySeq
<1> HIDE DEF p
<1>6. /\ p.by = t /\ p.op = IF OnData(call[t]) THEN "data" ELSE call[t].op
      /\ call[t].done = p.ret
  BY <1>2, <1>3, <1>4 DEF Own
<1>7. p.ret \in Retvals
  BY <1>4 DEF Reply
<1> QED BY <1>2, <1>3, <1>4, <1>5, <1>6, <1>7 DEF p

LEMMA ReceivesStep ==
    ASSUME IInv, work' \in 0 .. MaxWork, NEW t \in Threads, Receives(t)
    PROVE  IInv'
<1>0. PICK c \in Conns : c = call[t].conn
  BY DEF Receives, IInv, CallsSound, CallOK
<1> DEFINE p == Head(replies[c])
<1>1. /\ call[t].at = "recv" /\ replies[c] # <<>>
      /\ replies' = [replies EXCEPT ![c] = Tail(@)]
      /\ recv_packet' = Buffered(call[t].op, p.ret)
      /\ Answered(t, p.ret)
      /\ UNCHANGED <<sock, server, file, flags, link, requests, opened, disk, mishaps>>
  BY <1>0 DEF Receives
<1>2. Waiting(call[t], c) /\ call[t].at \in Exchanging
  BY <1>0, <1>1 DEF Waiting, Exchanging
<1>3. /\ requests[c] = <<>> /\ p.ret \in Retvals
      /\ Tail(replies[c]) = <<>> /\ Tail(replies[c]) \in Seq(Reply)
  BY <1>1, <1>2, ReplyIs
<1>4. /\ replies' \in [Conns -> Seq(Reply)] /\ replies'[c] = <<>>
      /\ \A b \in Conns \ {c} : replies'[b] = replies[b]
  BY <1>1, <1>3, TypesAre DEF IInv
<1> HIDE DEF p
<1>5. recv_packet' \in [retval : Retvals, nbytes : Retvals]
  BY <1>1, <1>3, RetsAre DEF Buffered, IInv, TypeOK
<1>6. PICK C : /\ Goes(t, C) /\ CallOK(C, sock) /\ AnswerOf(t, p.ret, C)
               /\ sema' \in Threads \cup {Nobody} /\ OneAtATime'
  BY <1>1, <1>3, AnsweredIs
<1>7. C.conn = c /\ C.at \in {"send", "post"}
  BY <1>0, <1>6 DEF AnswerOf
<1> QED BY <1>1, <1>2, <1>3, <1>4, <1>5, <1>6, <1>7, TakenStep

\* What t does with the count of a read, which leaves it the data.
CountTaken(t, c, n, C) ==
    /\ call[t].at = "recv" /\ call[t].op = "read" /\ Waiting(call[t], c)
    /\ requests[c] = <<>> /\ replies[c] # <<>> /\ call[t].done = n
    /\ recv_packet' \in [retval : Retvals, nbytes : Retvals]
    /\ UNCHANGED <<sock, server, file, flags, link, requests, opened, disk, mishaps>>
    /\ replies' \in [Conns -> Seq(Reply)]
    /\ \A b \in Conns \ {c} : replies'[b] = replies[b]
    /\ Goes(t, C) /\ CallOK(C, sock) /\ C.op = call[t].op /\ C.conn = c
    /\ C.done = n /\ C.made = call[t].made
    /\ sema' \in Threads \cup {Nobody} /\ OneAtATime'
    /\ \/ /\ C.at = "count" /\ n > 0 /\ C.ret = call[t].ret
          /\ Len(replies'[c]) = 1 /\ replies'[c][1].by = t
          /\ replies'[c][1].op = "data" /\ replies'[c][1].ret = n
       \/ /\ C.at = "post" /\ ~ (n > 0) /\ C.ret = IF n < 0 THEN -1 ELSE 0
          /\ replies'[c] = <<>>

LEMMA CountIs ==
    ASSUME IInv, NEW t \in Threads, ReceivesCount(t)
    PROVE  \E c \in Conns, n \in Retvals : \E C : CountTaken(t, c, n, C)
<1>0. PICK c \in Conns : c = call[t].conn
  BY DEF ReceivesCount, IInv, CallsSound, CallOK
<1> DEFINE p == Head(replies[c])
           d == [p EXCEPT !.op = "data"]
           n == p.ret
<1>1. /\ call[t].at = "recv" /\ call[t].op = "read" /\ replies[c] # <<>>
      /\ recv_packet' = [retval |-> n, nbytes |-> n]
      /\ replies' = [replies EXCEPT ![c] = IF n > 0 THEN <<d>> \o Tail(@) ELSE Tail(@)]
      /\ Counted(t, n)
      /\ UNCHANGED <<sock, server, file, flags, link, requests, opened, disk, mishaps>>
  BY <1>0 DEF ReceivesCount
<1>2. Waiting(call[t], c)
  BY <1>0, <1>1 DEF Waiting
<1>3. /\ requests[c] = <<>> /\ n \in Retvals /\ p \in Reply /\ p.by = t
      /\ call[t].done = n
      /\ Tail(replies[c]) = <<>> /\ Tail(replies[c]) \in Seq(Reply)
  BY <1>1, <1>2, ReplyIs
<1>4. d \in Reply /\ d.by = t /\ d.op = "data" /\ d.ret = n
  BY <1>3 DEF Reply
<1> HIDE DEF p, d
<1>5. <<d>> \o Tail(replies[c]) = <<d>> /\ <<d>> \in Seq(Reply)
      /\ Len(<<d>>) = 1 /\ <<d>>[1] = d
  <2>1. <<d>> \in Seq(Reply) /\ Len(<<d>>) = 1 /\ <<d>>[1] = d
    BY <1>4
  <2>2. \A a, S : a \in Seq(S) => a \o <<>> = a
    BY ConcatEmptySeq, Zenon
  <2>3. <<d>> \o <<>> = <<d>>
    BY <2>1, <2>2, Zenon
  <2> QED BY <1>3, <2>1, <2>3
<1>6. /\ replies' \in [Conns -> Seq(Reply)]
      /\ replies'[c] = IF n > 0 THEN <<d>> ELSE <<>>
      /\ \A b \in Conns \ {c} : replies'[b] = replies[b]
  <2> DEFINE rest == IF n > 0 THEN <<d>> ELSE <<>>
  <2>1. rest \in Seq(Reply)
    BY <1>5, EmptySeq
  <2>2. replies' = [replies EXCEPT ![c] = rest]
    BY <1>1, <1>3, <1>5
  <2> HIDE DEF rest
  <2>3. /\ replies' \in [Conns -> Seq(Reply)] /\ replies'[c] = rest
        /\ \A b \in Conns \ {c} : replies'[b] = replies[b]
    BY <2>1, <2>2, TypesAre DEF IInv
  <2> QED BY <2>3 DEF rest
<1>7. recv_packet' \in [retval : Retvals, nbytes : Retvals]
  BY <1>1, <1>3
<1> HIDE DEF n
<1>8. PICK C : /\ Goes(t, C) /\ CallOK(C, sock) /\ C.op = call[t].op /\ C.conn = call[t].conn
               /\ C.done = call[t].done /\ C.made = call[t].made
               /\ sema' \in Threads \cup {Nobody} /\ OneAtATime'
               /\ \/ C.at = "count" /\ n > 0 /\ C.ret = call[t].ret
                  \/ C.at = "post" /\ ~ (n > 0) /\ C.ret = IF n < 0 THEN -1 ELSE 0
  BY <1>1, <1>3, CountedIs
<1>9. \/ /\ C.at = "count" /\ n > 0 /\ C.ret = call[t].ret
         /\ Len(replies'[c]) = 1 /\ replies'[c][1].by = t
         /\ replies'[c][1].op = "data" /\ replies'[c][1].ret = n
      \/ /\ C.at = "post" /\ ~ (n > 0) /\ C.ret = IF n < 0 THEN -1 ELSE 0
         /\ replies'[c] = <<>>
  BY <1>4, <1>5, <1>6, <1>8
<1>10. PICK k \in Retvals : k = n
  BY <1>3
<1>11. CountTaken(t, c, k, C)
  BY <1>0, <1>1, <1>2, <1>3, <1>6, <1>7, <1>8, <1>9, <1>10 DEF CountTaken
<1> QED BY <1>11

LEMMA ReceivesCountStep ==
    ASSUME IInv, work' \in 0 .. MaxWork, NEW t \in Threads, ReceivesCount(t)
    PROVE  IInv'
<1>0. PICK c \in Conns, n \in Retvals : \E C : CountTaken(t, c, n, C)
  BY CountIs
<1>1. PICK C : CountTaken(t, c, n, C)
  BY <1>0
<1>2. C.at \in {"send", "post", "count"} /\ (C.at # "count" => replies'[c] = <<>>)
      /\ call[t].at \in Exchanging
  BY <1>1 DEF Exchanging, CountTaken
<1>3. C.at = "count" => call[t].at = "recv" /\ Own(t, C, c)'
  BY <1>1 DEF Own, OnData, CountTaken
<1> QED BY <1>1, <1>2, <1>3, TakenStep DEF CountTaken

LEMMA ReceivesDataStep ==
    ASSUME IInv, work' \in 0 .. MaxWork, NEW t \in Threads, ReceivesData(t)
    PROVE  IInv'
<1>0. PICK c \in Conns : c = call[t].conn
  BY DEF ReceivesData, IInv, CallsSound, CallOK
<1> DEFINE p == Head(replies[c])
<1>1. /\ call[t].at = "data" /\ replies[c] # <<>>
      /\ replies' = [replies EXCEPT ![c] = Tail(@)]
      /\ Result(t, p.ret)
      /\ UNCHANGED <<sock, server, file, flags, recv_packet, link, requests, opened, disk,
                     mishaps>>
  BY <1>0 DEF ReceivesData, DataDue
<1>2. Waiting(call[t], c) /\ call[t].at \in Exchanging
  BY <1>0, <1>1 DEF Waiting, Exchanging
<1>3. /\ requests[c] = <<>> /\ p.ret \in Retvals
      /\ Tail(replies[c]) = <<>> /\ Tail(replies[c]) \in Seq(Reply)
  BY <1>1, <1>2, ReplyIs
<1>4. /\ replies' \in [Conns -> Seq(Reply)] /\ replies'[c] = <<>>
      /\ \A b \in Conns \ {c} : replies'[b] = replies[b]
  BY <1>1, <1>3, TypesAre DEF IInv
<1> HIDE DEF p
<1>5. recv_packet' \in [retval : Retvals, nbytes : Retvals]
  BY <1>1 DEF IInv, TypeOK
<1>6. PICK res \in Rets : res = p.ret
  BY <1>3, RetsAre
<1> DEFINE C == [call[t] EXCEPT !.at = "post", !.ret = res]
<1>7. /\ Goes(t, C) /\ C.at = "post" /\ C.op = call[t].op /\ C.conn = c
      /\ sema' \in Threads \cup {Nobody} /\ OneAtATime'
  <2>1. Result(t, res) /\ call[t].at \in Exchanging
    BY <1>1, <1>2, <1>6
  <2> QED BY <1>0, <2>1, ResultIs
<1> HIDE DEF C
<1>8. CallOK(C, sock)
  <2>1. C.op \in Ops
    BY <1>1, <1>7 DEF IInv, CallsSound, CallOK
  <2> QED BY <1>7, <2>1 DEF CallOK, Before, Asking, Exchanging
<1>9. PICK D : D = C
  OBVIOUS
<1>10. /\ Goes(t, D) /\ CallOK(D, sock) /\ D.conn = c /\ D.at = "post"
  BY <1>7, <1>8, <1>9
<1> QED BY <1>1, <1>2, <1>3, <1>4, <1>5, <1>7, <1>10, TakenStep

LEMMA ClosesStep ==
    ASSUME IInv, work' \in 0 .. MaxWork, NEW t \in Threads, ClosesSocket(t)
    PROVE  IInv'
<1>1. /\ call[t].at = "closing" /\ Disconnected(sock) /\ sema = t
      /\ UNCHANGED <<sock, server, file, flags, recv_packet, requests, opened, disk, mishaps>>
  BY DEF ClosesSocket, IInv, OneAtATime, Exchanging
<1>2. PICK C : Moved(t, C, "clearing") /\ sema' = sema
  BY MovedIs DEF ClosesSocket, Asking, Exchanging
<1>3. CallOK(call[t], sock) /\ ReplacedOK(call[t])
  BY DEF IInv, CallsSound, ExchangeSound
<1>4. /\ Goes(t, C) /\ C.at = "clearing" /\ C.op = call[t].op /\ C.conn = call[t].conn
      /\ C.done = call[t].done /\ C.ret = call[t].ret /\ C.left = call[t].left
  BY <1>2 DEF Moved
<1>5. CallOK(C, sock)
  BY <1>1, <1>3, <1>4 DEF CallOK, Before, Asking, Exchanging
<1>6. call' \in [Threads -> CallType] /\ call'[t] = C /\ \A u \in Threads \ {t} : call'[u] = call[u]
  BY <1>4, GoesTo
<1>7. /\ link' \in [Conns -> {"none", "open", "shut", "lost", "closed"}]
      /\ replies' \in [Conns -> Seq(Reply)]
      /\ \A c \in Conns : IF c = sock THEN link'[c] = "closed" /\ replies'[c] = <<>>
                          ELSE link'[c] = link[c] /\ replies'[c] = replies[c]
  <2>1. /\ replies \in [Conns -> Seq(Reply)]
        /\ link \in [Conns -> {"none", "open", "shut", "lost", "closed"}]
        /\ <<>> \in Seq(Reply) /\ (sock \in Conns \/ sock = NoSock)
    <3>1. link \in [Conns -> {"none", "open", "shut", "lost", "closed"}]
      BY DEF IInv, TypeOK
    <3> QED BY <3>1, TypesAre, EmptySeq DEF IInv
  <2> QED BY <1>1, <2>1, ConstantsAre DEF Disconnected
<1>8. \A c \in Conns : Clear(c) => Clear(c)'
  BY <1>1, <1>7 DEF Clear
<1>9. TypeOK'
  BY <1>1, <1>2, <1>6, <1>7 DEF IInv, TypeOK, CallType, Reply
<1>10. FreshSound'
  <2>1. \A c \in Conns : Untouched(c)' => Untouched(c)
    BY <1>1, <1>7 DEF Untouched
  <2>2. ASSUME NEW c \in Conns, Untouched(c)
        PROVE  Clear(c)' /\ \A u \in Threads : call'[u].conn # c
    BY <1>4, <1>6, <1>8, <2>2 DEF IInv, FreshSound
  <2> QED BY <1>1, <1>7, <2>1, <2>2 DEF IInv, FreshSound
<1>11. LinksSound'
  BY <1>1, <1>7 DEF IInv, LinksSound
<1>12. WaitOK(t, C)' /\ ReplacedOK(C)' /\ SocketClear'
  BY <1>1, <1>3, <1>4, <1>7, <1>8 DEF WaitOK, Waiting, ReplacedOK, SocketClear
<1>13. OneAtATime' /\ CallsSound' /\ ExchangeSound'
  BY <1>1, <1>2, <1>4, <1>5, <1>12, StillOne, CallsKept, ExchangeKept DEF Exchanging
<1> QED BY <1>9, <1>10, <1>11, <1>13 DEF IInv

LEMMA ClearsStep ==
    ASSUME IInv, work' \in 0 .. MaxWork, NEW t \in Threads, ClearsSocket(t)
    PROVE  IInv'
<1>1. /\ call[t].at = "clearing" /\ sock' = NoSock
      /\ UNCHANGED <<server, file, flags, recv_packet, link, requests, replies, opened,
                     disk, mishaps>>
  BY DEF ClearsSocket, pc
<1>2. PICK C : /\ Goes(t, C) /\ C.at = "post" /\ C.op = call[t].op /\ C.conn = call[t].conn
               /\ sema' \in Threads \cup {Nobody} /\ OneAtATime'
  <2>1. Result(t, -1) /\ -1 \in Rets
    BY RetsAre DEF ClearsSocket
  <2> QED BY <1>1, <2>1, ResultIs DEF Exchanging
<1>3. call' \in [Threads -> CallType] /\ call'[t] = C /\ \A u \in Threads \ {t} : call'[u] = call[u]
  BY <1>2, GoesTo
<1>4. TypeOK'
  BY <1>1, <1>2, <1>3 DEF IInv, TypeOK, CallType
<1>5. CallsSound'
  <2>1. \A u \in Threads \ {t} : call[u].at \notin Exchanging /\ CallOK(call[u], sock)
    BY <1>1, Alone DEF IInv, CallsSound, Exchanging
  <2>2. \A u \in Threads \ {t} : CallOK(call[u], NoSock)
    BY <2>1 DEF CallOK, Exchanging
  <2>3. C.op \in Ops
    BY <1>1, <1>2 DEF IInv, CallsSound, CallOK
  <2>4. CallOK(C, NoSock)
    BY <1>2, <2>3 DEF CallOK, Before, Asking, Exchanging
  <2> QED BY <1>1, <1>3, <2>2, <2>4 DEF CallsSound
<1>6. FreshSound'
  <2>1. \A c \in Conns : Untouched(c)' = Untouched(c) /\ Clear(c)' = Clear(c)
    BY <1>1 DEF Untouched, Clear
  <2>2. ASSUME NEW c \in Conns, Untouched(c)
        PROVE  \A u \in Threads : call'[u].conn # c
    BY <1>2, <1>3, <2>2 DEF IInv, FreshSound
  <2> QED BY <1>1, <2>1, <2>2, ConstantsAre DEF IInv, FreshSound
<1>7. LinksSound'
  BY <1>1 DEF IInv, LinksSound
<1>8. WaitOK(t, C)' /\ ReplacedOK(C)' /\ SocketClear'
  BY <1>1, <1>2, ConstantsAre DEF WaitOK, Waiting, ReplacedOK, SocketClear
<1>9. ExchangeSound'
  BY <1>1, <1>2, <1>8, ExchangeKept DEF Exchanging
<1> QED BY <1>2, <1>4, <1>5, <1>6, <1>7, <1>9 DEF IInv

-----------------------------------------------------------------------------
(* The PC.                                                                 *)

\* The PC takes the lowest descriptor that is free.
LEMMA LowestIs ==
    ASSUME NEW S \in SUBSET Nat, S # {}
    PROVE  (CHOOSE f \in S : \A g \in S : f <= g) \in S
<1> DEFINE less == OpToRel(<, Nat)
<1>1. \A i, j \in Nat : <<j, i>> \in less <=> j < i
  BY DEF OpToRel
<1>2. IsWellFoundedOn(less, Nat)
  BY NatLessThanWellFounded
<1> HIDE DEF less
<1>3. PICK i \in S : \A j \in S : ~ (<<j, i>> \in less)
  BY <1>2, WFMin
<1>4. ASSUME NEW j \in S PROVE i <= j
  <2>1. i \in Nat /\ j \in Nat /\ ~ (j < i)
    BY <1>1, <1>3
  <2> QED BY <2>1
<1> QED BY <1>3, <1>4

DiskType == [Names -> {"none", "file", "dir", "ghost"}]

\* What the PC answers to a request, and who has which descriptor afterwards.
ServedOK(c, q, s) ==
    /\ s.ret \in Retvals /\ s.disk \in DiskType
    /\ s.opened \in [Fds -> Threads \cup {Nobody}]
    /\ \A n \in Names : s.disk[n] = "ghost" => disk[n] = "ghost" \/ q.made
    /\ CASE q.op \in {"open", "creat", "dopen"} ->
              \/ s.ret = -1 /\ s.opened = opened[c]
              \/ /\ s.ret \in Fds /\ opened[c][s.ret] = Nobody
                 /\ s.opened = [opened[c] EXCEPT ![s.ret] = q.by]
         [] q.op \in {"close", "dclose", "ioctl"} ->
              IF q.fd \in Fds /\ opened[c][q.fd] # Nobody
              THEN /\ s.ret \in (IF q.op = "ioctl" THEN {0, Renamed} ELSE {0})
                   /\ s.opened = [opened[c] EXCEPT ![q.fd] = Nobody]
              ELSE s.ret = -1 /\ s.opened = opened[c]
         [] OTHER -> s.opened = opened[c]

LEMMA ServedIs ==
    ASSUME IInv, NEW c \in Conns, NEW q \in Message, NEW s \in Served(c, q)
    PROVE  ServedOK(c, q, s)
<1> DEFINE same(ret) == [ret |-> ret, opened |-> opened[c], disk |-> disk]
           fds(f, who) == [opened[c] EXCEPT ![f] = who]
           named(kind) == [disk EXCEPT ![q.name] = kind]
           free == {f \in Fds : opened[c][f] = Nobody}
           lowest == CHOOSE f \in free : \A g \in free : f <= g
           open(d) == [ret |-> lowest, opened |-> fds(lowest, q.by), disk |-> d]
           held == q.fd \in Fds /\ opened[c][q.fd] # Nobody
<1>1. /\ opened[c] \in [Fds -> Threads \cup {Nobody}] /\ disk \in DiskType /\ q.by \in Threads
      /\ q.op \in Ops /\ q.made \in BOOLEAN
  BY DEF IInv, TypeOK, DiskType, Message
<1>2. free # {} => lowest \in Fds /\ opened[c][lowest] = Nobody
  <2>1. free \in SUBSET Nat
    BY ConstantsAre
  <2>2. free # {} => lowest \in free
    BY <2>1, LowestIs
  <2> QED BY <2>2
<1>3. s \in CASE q.op = "open" /\ free # {} /\ disk[q.name] = "file" -> {open(disk)}
              [] q.op = "creat" /\ free # {} /\ disk[q.name] \in {"none", "file"} ->
                    {open(named("file"))}
              [] q.op = "dopen" /\ free # {} /\ disk[q.name] \in {"dir", "ghost"} -> {open(disk)}
              [] q.op = "remove" /\ disk[q.name] = "file" ->
                    {[same(0) EXCEPT !.disk = named("none")]}
              [] q.op = "mkdir" /\ disk[q.name] = "none" ->
                    {[same(0) EXCEPT !.disk = named(IF q.made THEN "ghost" ELSE "dir")]}
              [] q.op = "rmdir" /\ disk[q.name] \in {"dir", "ghost"} ->
                    {[same(0) EXCEPT !.disk = named("none")]}
              [] q.op \in {"close", "dclose"} /\ held ->
                    {[same(0) EXCEPT !.opened = fds(q.fd, Nobody)]}
              [] q.op = "ioctl" /\ held ->
                    {[same(ret) EXCEPT !.opened = fds(q.fd, Nobody)] : ret \in {0, Renamed}}
              [] q.op = "write" /\ held -> {same(0), same(1)}
              [] q.op \in {"read", "lseek", "dread"} /\ held -> {same(1)}
              [] OTHER -> {same(-1)}
  BY DEF Served
<1> HIDE DEF lowest
<1>4. CASE q.op \in {"open", "creat", "dopen"}
  <2>1. s = same(-1) \/ (free # {} /\ s \in {open(disk), open(named("file"))})
    BY <1>3, <1>4
  <2>2. CASE s = same(-1)
    BY <1>1, <1>4, <2>2, RetsAre DEF ServedOK
  <2>3. CASE free # {} /\ s \in {open(disk), open(named("file"))}
    <3>1. /\ s.ret = lowest /\ s.opened = fds(lowest, q.by) /\ s.disk \in {disk, named("file")}
          /\ lowest \in Fds /\ opened[c][lowest] = Nobody
      BY <1>2, <2>3
    <3>2. /\ s.disk \in DiskType /\ \A n \in Names : s.disk[n] = "ghost" => disk[n] = "ghost"
      BY <1>1, <3>1 DEF DiskType
    <3>3. s.opened \in [Fds -> Threads \cup {Nobody}] /\ s.ret \in Retvals
      BY <1>1, <3>1, RetsAre
    <3> QED BY <1>4, <3>1, <3>2, <3>3 DEF ServedOK
  <2> QED BY <2>1, <2>2, <2>3
<1>5. CASE q.op \in {"close", "dclose", "ioctl"}
  <2>1. CASE held
    <3>1. PICK ret \in IF q.op = "ioctl" THEN {0, Renamed} ELSE {0} :
             s = [same(ret) EXCEPT !.opened = fds(q.fd, Nobody)]
      BY <1>3, <1>5, <2>1
    <3>2. s.ret = ret /\ s.opened = fds(q.fd, Nobody) /\ s.disk = disk
      BY <3>1
    <3> QED BY <1>1, <1>5, <2>1, <3>2, RetsAre DEF ServedOK
  <2>2. CASE ~ held
    <3>1. s = same(-1)
      BY <1>3, <1>5, <2>2
    <3> QED BY <1>1, <1>5, <2>2, <3>1, RetsAre DEF ServedOK
  <2> QED BY <2>1, <2>2
<1>6. CASE q.op \in {"remove", "mkdir", "rmdir"}
  <2>1. PICK kind \in {"none", "dir", "ghost"} :
           /\ kind = "ghost" => q.made
           /\ s = same(-1) \/ s = [same(0) EXCEPT !.disk = named(kind)]
    BY <1>1, <1>3, <1>6
  <2>2. s.ret \in {0, -1} /\ s.opened = opened[c] /\ s.disk \in {disk, named(kind)}
    BY <2>1
  <2>3. s.disk \in DiskType /\ \A n \in Names : s.disk[n] = "ghost" => disk[n] = "ghost" \/ q.made
    BY <1>1, <2>1, <2>2 DEF DiskType
  <2> QED BY <1>1, <1>6, <2>2, <2>3, RetsAre DEF ServedOK
<1>7. CASE q.op \in {"read", "write", "lseek", "dread"}
  <2>1. s \in {same(-1), same(0), same(1)}
    BY <1>3, <1>7
  <2>2. s.ret \in {-1, 0, 1} /\ s.opened = opened[c] /\ s.disk = disk
    BY <2>1
  <2> QED BY <1>1, <1>7, <2>2, RetsAre DEF ServedOK
<1> QED BY <1>1, <1>4, <1>5, <1>6, <1>7, OpsAre

\* A step of the PC, or of the network, that only takes from what a connection holds.
LEMMA DroppedStep ==
    ASSUME IInv, work' \in 0 .. MaxWork, NEW c \in Conns, PcCloses(c) \/ LinkLost(c)
    PROVE  IInv'
<1> DEFINE empty == [f \in Fds |-> Nobody]
<1>1. /\ link[c] = "open"
      /\ requests' = [requests EXCEPT ![c] = <<>>] /\ opened' = [opened EXCEPT ![c] = empty]
      /\ \/ link' = [link EXCEPT ![c] = "shut"] /\ replies' = replies
         \/ link' = [link EXCEPT ![c] = "shut"] /\ replies' = [replies EXCEPT ![c] = <<>>]
         \/ link' = [link EXCEPT ![c] = "lost"] /\ replies' = [replies EXCEPT ![c] = <<>>]
      /\ UNCHANGED <<sock, server, sema, call, file, flags, recv_packet, disk, mishaps>>
  BY DEF PcCloses, LinkLost, driver
<1>2. /\ link \in [Conns -> {"none", "open", "shut", "lost", "closed"}]
      /\ requests \in [Conns -> Seq(Message)] /\ replies \in [Conns -> Seq(Reply)]
      /\ opened \in [Conns -> [Fds -> Threads \cup {Nobody}]]
      /\ empty \in [Fds -> Threads \cup {Nobody}] /\ \A f \in Fds : empty[f] = Nobody
      /\ <<>> \in Seq(Message) /\ <<>> \in Seq(Reply)
  <2>1. /\ link \in [Conns -> {"none", "open", "shut", "lost", "closed"}]
        /\ opened \in [Conns -> [Fds -> Threads \cup {Nobody}]]
    BY DEF IInv, TypeOK
  <2> QED BY <2>1, TypesAre, EmptySeq DEF IInv
<1> HIDE DEF empty
<1>3. /\ link' \in [Conns -> {"none", "open", "shut", "lost", "closed"}]
      /\ link'[c] \in {"shut", "lost"} /\ \A b \in Conns \ {c} : link'[b] = link[b]
      /\ requests' \in [Conns -> Seq(Message)]
      /\ requests'[c] = <<>> /\ \A b \in Conns \ {c} : requests'[b] = requests[b]
      /\ opened' \in [Conns -> [Fds -> Threads \cup {Nobody}]]
      /\ \A b \in Conns : opened'[b] = opened[b] \/ opened'[b] = empty
  BY <1>1, <1>2
<1>4. /\ replies' \in [Conns -> Seq(Reply)]
      /\ replies'[c] = replies[c] \/ replies'[c] = <<>>
      /\ link'[c] = "lost" => replies'[c] = <<>>
      /\ \A b \in Conns \ {c} : replies'[b] = replies[b]
  BY <1>1, <1>2
<1>5. TypeOK'
  BY <1>1, <1>3, <1>4 DEF IInv, TypeOK, Message, Reply
<1>6. OneAtATime' /\ CallsSound'
  BY <1>1 DEF IInv, OneAtATime, CallsSound
<1>7. \A b \in Conns : Clear(b) => Clear(b)'
  BY <1>3, <1>4 DEF Clear
<1>8. FreshSound'
  <2>1. \A b \in Conns : Untouched(b)' => Untouched(b)
    BY <1>1, <1>3 DEF Untouched
  <2>2. \A b \in Conns : (\A f \in Fds : opened[b][f] = Nobody) => \A f \in Fds : opened'[b][f] = Nobody
    BY <1>2, <1>3
  <2>3. server.at = "install" => /\ server.conn \in Conns
                                 /\ link'[server.conn] # "none"
                                 /\ sock \in Conns => link'[sock] = "closed"
    BY <1>1, <1>3 DEF IInv, FreshSound
  <2> QED BY <1>1, <1>7, <2>1, <2>2, <2>3 DEF IInv, FreshSound
<1>9. LinksSound'
  BY <1>1, <1>3, <1>4 DEF IInv, LinksSound
<1>10. ASSUME NEW t \in Threads PROVE (WaitOK(t, call[t]) /\ ReplacedOK(call[t]))'
  <2>1. WaitOK(t, call[t]) /\ ReplacedOK(call[t])
    BY DEF IInv, ExchangeSound
  <2>2. ASSUME NEW b \in Conns, Waiting(call[t], b)
        PROVE  \/ Own(t, call[t], b)'
               \/ Clear(b)' /\ (link'[b] # "open" \/ "replaced" \in mishaps')
    <3>1. CASE b = c
      <4>1. Own(t, call[t], c) \/ Clear(c)
        BY <2>1, <2>2, <3>1 DEF WaitOK
      <4> QED BY <1>1, <1>3, <1>4, <3>1, <4>1 DEF Own, OnData, Clear
    <3>2. CASE b # c
      BY <1>1, <1>3, <1>4, <2>1, <2>2, <3>2 DEF WaitOK, Own, OnData, Clear
    <3> QED BY <3>1, <3>2
  <2>3. WaitOK(t, call[t])'
    BY <1>1, <2>2 DEF WaitOK, Waiting
  <2>4. ReplacedOK(call[t])'
    <3>1. CASE call[t].at = "sending"
      <4>1. call[t].conn \in Conns
        BY <3>1 DEF IInv, CallsSound, CallOK
      <4>2. link[call[t].conn] \notin {"open", "shut", "lost"}
            => link'[call[t].conn] \notin {"open", "shut", "lost"}
        BY <1>1, <1>3, <4>1
      <4> QED BY <1>1, <1>7, <2>1, <4>2 DEF ReplacedOK
    <3>2. CASE call[t].at # "sending"
      BY <1>1, <1>7, <2>1, <3>2 DEF ReplacedOK
    <3> QED BY <3>1, <3>2
  <2> QED BY <2>3, <2>4
<1>11. SocketClear'
  BY <1>1, <1>3, <1>7 DEF IInv, ExchangeSound, SocketClear, Waiting
<1> QED BY <1>5, <1>6, <1>8, <1>9, <1>10, <1>11 DEF IInv, ExchangeSound

\* The PC answers the oldest request, whose thread may have given it up.
LEMMA ServesIs ==
    ASSUME IInv, NEW c \in Conns, PcServes(c)
    PROVE  \E q, s :
             /\ q \in Message
             /\ link[c] \in {"open", "closed"} /\ requests[c] # <<>>
             /\ q = Head(requests[c]) /\ q = requests[c][1] /\ ServedOK(c, q, s)
             /\ requests' = [requests EXCEPT ![c] = Tail(@)]
             /\ Tail(requests[c]) \in Seq(Message)
             /\ replies' = IF link[c] = "closed" THEN replies
                           ELSE [replies EXCEPT ![c] =
                                    Append(@, [op |-> q.op, by |-> q.by, ret |-> s.ret])]
             /\ opened' = [opened EXCEPT ![c] = s.opened]
             /\ disk' = s.disk
             /\ IF StillAsked(c, q)
                THEN Goes(q.by, [call[q.by] EXCEPT !.done = s.ret])
                ELSE call' = call
             /\ UNCHANGED <<sock, server, sema, file, flags, recv_packet, link, mishaps>>
<1>1. requests[c] \in Seq(Message) /\ requests[c] # <<>>
  BY TypesAre DEF IInv, PcServes
<1> DEFINE q == Head(requests[c])
<1>2. q \in Message /\ q = requests[c][1] /\ Tail(requests[c]) \in Seq(Message)
  BY <1>1, HeadTailProperties
<1>3. PICK s \in Served(c, q) :
         /\ link[c] \in {"open", "closed"}
         /\ requests' = [requests EXCEPT ![c] = Tail(@)]
         /\ replies' = IF link[c] = "closed" THEN replies
                       ELSE [replies EXCEPT ![c] =
                                Append(@, [op |-> q.op, by |-> q.by, ret |-> s.ret])]
         /\ opened' = [opened EXCEPT ![c] = s.opened]
         /\ disk' = s.disk
         /\ call' = IF StillAsked(c, q) THEN [call EXCEPT ![q.by].done = s.ret] ELSE call
         /\ UNCHANGED <<sock, server, sema, file, flags, recv_packet, link, mishaps>>
  BY DEF PcServes
<1>4. ServedOK(c, q, s)
  BY <1>2, ServedIs
<1>5. StillAsked(c, q) => Goes(q.by, [call[q.by] EXCEPT !.done = s.ret])
  <2>1. call[q.by] \in CallType /\ s.ret \in Retvals
    BY <1>2, <1>4, TypesAre DEF IInv, Message, ServedOK
  <2>2. [call[q.by] EXCEPT !.done = s.ret] \in CallType
    BY <2>1 DEF CallType
  <2> QED BY <1>3, <2>2 DEF Goes
<1> HIDE DEF q
<1>6. q = Head(requests[c])
  BY DEF q
<1> QED BY <1>1, <1>2, <1>3, <1>4, <1>5, <1>6

LEMMA ServesStep ==
    ASSUME IInv, work' \in 0 .. MaxWork, NEW c \in Conns, PcServes(c)
    PROVE  IInv'
<1>1. PICK q, s :
         /\ q \in Message
         /\ link[c] \in {"open", "closed"} /\ requests[c] # <<>>
         /\ q = Head(requests[c]) /\ q = requests[c][1] /\ ServedOK(c, q, s)
         /\ requests' = [requests EXCEPT ![c] = Tail(@)]
         /\ Tail(requests[c]) \in Seq(Message)
         /\ replies' = IF link[c] = "closed" THEN replies
                       ELSE [replies EXCEPT ![c] =
                                Append(@, [op |-> q.op, by |-> q.by, ret |-> s.ret])]
         /\ opened' = [opened EXCEPT ![c] = s.opened]
         /\ disk' = s.disk
         /\ IF StillAsked(c, q)
            THEN Goes(q.by, [call[q.by] EXCEPT !.done = s.ret])
            ELSE call' = call
         /\ UNCHANGED <<sock, server, sema, file, flags, recv_packet, link, mishaps>>
  BY ServesIs
<1>2. /\ requests \in [Conns -> Seq(Message)] /\ replies \in [Conns -> Seq(Reply)]
      /\ opened \in [Conns -> [Fds -> Threads \cup {Nobody}]]
      /\ s.ret \in Retvals /\ s.disk \in DiskType /\ s.opened \in [Fds -> Threads \cup {Nobody}]
      /\ q.by \in Threads /\ q.op \in Ops
  <2>1. opened \in [Conns -> [Fds -> Threads \cup {Nobody}]]
    BY DEF IInv, TypeOK
  <2> QED BY <1>1, <2>1, TypesAre DEF IInv, ServedOK, Message
<1> DEFINE reply == [op |-> q.op, by |-> q.by, ret |-> s.ret]
           all == Append(replies[c], reply)
<1>3. reply \in Reply /\ reply.op = q.op /\ reply.by = q.by /\ reply.ret = s.ret
  BY <1>2 DEF Reply
<1> HIDE DEF reply
<1>4. /\ all \in Seq(Reply)
      /\ replies[c] = <<>> => Len(all) = 1 /\ all[1] = reply
  BY <1>2, <1>3
<1> HIDE DEF all
<1>5. /\ requests' \in [Conns -> Seq(Message)]
      /\ requests'[c] = Tail(requests[c]) /\ \A b \in Conns \ {c} : requests'[b] = requests[b]
      /\ replies' \in [Conns -> Seq(Reply)]
      /\ replies'[c] = IF link[c] = "closed" THEN replies[c] ELSE all
      /\ \A b \in Conns \ {c} : replies'[b] = replies[b]
      /\ opened' \in [Conns -> [Fds -> Threads \cup {Nobody}]]
      /\ \A b \in Conns \ {c} : opened'[b] = opened[b]
  <2>1. replies' = IF link[c] = "closed" THEN replies ELSE [replies EXCEPT ![c] = all]
    BY <1>1 DEF all, reply
  <2> QED BY <1>1, <1>2, <1>4, <2>1
<1>6. StillAsked(c, q) <=> /\ Waiting(call[q.by], c) /\ call[q.by].op = q.op
                           /\ ~ OnData(call[q.by])
  BY DEF StillAsked, Waiting, OnData
<1>7. PICK D \in CallType : D = IF StillAsked(c, q) THEN [call[q.by] EXCEPT !.done = s.ret]
                                ELSE call[q.by]
  BY <1>1, <1>2, TypesAre DEF IInv, Goes
<1>8. /\ D.op = call[q.by].op /\ D.at = call[q.by].at /\ D.conn = call[q.by].conn
      /\ D.ret = call[q.by].ret /\ D.left = call[q.by].left /\ D.made = call[q.by].made
      /\ D.done = IF StillAsked(c, q) THEN s.ret ELSE call[q.by].done
      /\ ~ StillAsked(c, q) => D = call[q.by]
  <2>1. call[q.by] \in CallType
    BY <1>2, TypesAre DEF IInv
  <2> QED BY <1>2, <1>7, <2>1 DEF CallType
<1>9. Goes(q.by, D)
  <2>1. call = [call EXCEPT ![q.by] = call[q.by]]
    BY <1>2, TypesAre DEF IInv
  <2> QED BY <1>1, <1>7, <2>1 DEF Goes
<1>10. call' \in [Threads -> CallType] /\ call'[q.by] = D
       /\ \A u \in Threads \ {q.by} : call'[u] = call[u]
  BY <1>2, <1>9, GoesTo
<1>11. \A u \in Threads : /\ call'[u].at = call[u].at /\ call'[u].op = call[u].op
                          /\ call'[u].conn = call[u].conn
  BY <1>8, <1>10
<1>12. TypeOK'
  BY <1>1, <1>2, <1>5, <1>10 DEF IInv, TypeOK, CallType, DiskType, Message, Reply
<1>13. OneAtATime'
  BY <1>1, <1>11 DEF IInv, OneAtATime
<1>14. CallsSound'
  <2>1. \A u \in Threads : CallOK(call[u], sock)
    BY DEF IInv, CallsSound
  <2>2. CallOK(D, sock)
    <3>1. CASE StillAsked(c, q)
      BY <1>2, <1>6, <1>8, <2>1, <3>1 DEF CallOK, Waiting, Before, Asking, Exchanging
    <3>2. CASE ~ StillAsked(c, q)
      BY <1>2, <1>8, <2>1, <3>2
    <3> QED BY <3>1, <3>2
  <2> QED BY <1>1, <1>10, <2>1, <2>2 DEF CallsSound
<1>15. FreshSound'
  <2>1. \A b \in Conns : Untouched(b)' => Untouched(b)
    BY <1>1 DEF Untouched
  <2>2. \A b \in Conns : Untouched(b) => b # c
    BY <1>1 DEF IInv, FreshSound, Clear
  <2>3. \A b \in Conns : b # c => Clear(b)' = Clear(b)
    BY <1>5 DEF Clear
  <2>4. ASSUME NEW b \in Conns, Untouched(b)
        PROVE  /\ Clear(b)' /\ sock' # b
               /\ \A u \in Threads : call'[u].conn # b /\ file'[u].conn # b
               /\ \A f \in Fds : opened'[b][f] = Nobody
    <3>1. b # c /\ opened'[b] = opened[b] /\ Clear(b)' = Clear(b)
      BY <1>5, <2>2, <2>3, <2>4
    <3> QED BY <1>1, <1>11, <2>4, <3>1 DEF IInv, FreshSound
  <2>5. server.at = "install" => /\ server.conn \in Conns
                                 /\ link[server.conn] # "none"
                                 /\ sock \in Conns => link[sock] = "closed"
    BY DEF IInv, FreshSound
  <2> QED BY <1>1, <2>1, <2>4, <2>5 DEF FreshSound
<1>16. LinksSound'
  BY <1>1, <1>5 DEF IInv, LinksSound
<1>17. ~ Clear(c)
  BY <1>1 DEF Clear
<1>18. ASSUME NEW u \in Threads, Waiting(call[u], c)
       PROVE  /\ Own(u, call[u], c) /\ u = q.by /\ (link[c] = "open" => StillAsked(c, q))
              /\ requests'[c] = <<>> /\ replies[c] = <<>>
  <2>1. Own(u, call[u], c)
    BY <1>17, <1>18 DEF IInv, ExchangeSound, WaitOK
  <2>2. /\ Len(requests[c]) = 1 /\ replies[c] = <<>>
        /\ requests[c][1].by = u /\ requests[c][1].op = call[u].op
        /\ OnData(call[u]) => link[c] # "open"
    BY <1>1, <2>1 DEF Own
  <2>3. u = q.by /\ (link[c] = "open" => StillAsked(c, q))
    BY <1>1, <1>6, <1>18, <2>2
  <2>4. Tail(requests[c]) = <<>>
    BY <1>1, <1>2, <2>2, HeadTailProperties, EmptySeq
  <2> QED BY <1>5, <2>1, <2>2, <2>3, <2>4
<1>19. ASSUME NEW u \in Threads PROVE WaitOK(u, call[u])'
  <2>1. ASSUME NEW b \in Conns, Waiting(call[u], b)
        PROVE  Own(u, call[u], b)' \/ (Clear(b)' /\ (link'[b] # "open" \/ "replaced" \in mishaps'))
    <3>1. CASE b = c
      <4>1. /\ u = q.by /\ (link[c] = "open" => StillAsked(c, q))
            /\ requests'[c] = <<>> /\ replies[c] = <<>>
        BY <1>18, <2>1, <3>1
      <4>2. CASE link[c] = "closed"
        BY <1>1, <1>5, <3>1, <4>1, <4>2 DEF Clear
      <4>3. CASE link[c] = "open"
        <5>1. StillAsked(c, q) /\ call[u].op = q.op /\ ~ OnData(call[u])
          BY <1>6, <4>1, <4>3
        <5>2. ~ OnData(call'[u]) /\ call'[u].op = q.op /\ call'[u].done = s.ret
          BY <1>8, <1>10, <4>1, <5>1 DEF OnData
        <5>3. Len(replies'[c]) = 1 /\ replies'[c][1] = reply
          BY <1>4, <1>5, <4>1, <4>3
        <5> QED BY <1>3, <3>1, <4>1, <5>2, <5>3 DEF Own, OnData
      <4> QED BY <1>1, <4>2, <4>3
    <3>2. CASE b # c
      <4>1. ~ (u = q.by /\ StillAsked(c, q))
        BY <1>6, <2>1, <3>2 DEF Waiting
      <4>2. call'[u] = call[u]
        BY <1>8, <1>10, <4>1
      <4>3. Own(u, call[u], b) \/ (Clear(b) /\ (link[b] # "open" \/ "replaced" \in mishaps))
        BY <2>1 DEF IInv, ExchangeSound, WaitOK
      <4> QED BY <1>1, <1>5, <3>2, <4>2, <4>3 DEF Own, OnData, Clear
    <3> QED BY <3>1, <3>2
  <2> QED BY <1>11, <2>1 DEF WaitOK, Waiting
<1>20. ASSUME NEW u \in Threads PROVE ReplacedOK(call[u])'
  <2>1. ReplacedOK(call[u])
    BY DEF IInv, ExchangeSound
  <2>2. \A b \in Conns : Clear(b) => b # c /\ Clear(b)'
    BY <1>5, <1>17 DEF Clear
  <2> QED BY <1>1, <1>11, <2>1, <2>2 DEF ReplacedOK
<1>21. SocketClear'
  <2>1. ASSUME sock \in Conns, link[sock] \in {"open", "shut"}
        PROVE  (\E u \in Threads : Waiting(call'[u], sock)) \/ Clear(sock)'
    <3>1. CASE \E u \in Threads : Waiting(call[u], sock)
      BY <1>11, <3>1 DEF Waiting
    <3>2. CASE Clear(sock)
      BY <1>1, <1>5, <1>17, <2>1, <3>2 DEF Clear
    <3> QED BY <2>1, <3>1, <3>2 DEF IInv, ExchangeSound, SocketClear
  <2> QED BY <1>1, <2>1 DEF SocketClear, Waiting
<1> QED BY <1>12, <1>13, <1>14, <1>15, <1>16, <1>19, <1>20, <1>21 DEF IInv, ExchangeSound

-----------------------------------------------------------------------------
(* The server thread.                                                      *)

LEMMA StartsStep ==
    ASSUME IInv, work' \in 0 .. MaxWork, ServerStarts
    PROVE  IInv'
<1>1. /\ server.at = "start"
      /\ \E at \in {"accept", "ended"} : server' = [server EXCEPT !.at = at]
      /\ UNCHANGED <<sock, sema, call, file, flags, recv_packet, link, requests, replies,
                     opened, disk, mishaps>>
  BY DEF ServerStarts, pc
<1>2. TypeOK' /\ server'.at \in {"accept", "ended"}
  BY <1>1 DEF IInv, TypeOK
<1>3. OneAtATime' /\ CallsSound' /\ LinksSound'
  BY <1>1 DEF IInv, OneAtATime, CallsSound, LinksSound
<1>4. FreshSound'
  BY <1>1, <1>2 DEF IInv, FreshSound, Untouched, Clear
<1>5. ExchangeSound'
  BY <1>1 DEF IInv, ExchangeSound, WaitOK, ReplacedOK, SocketClear, Waiting, Own, OnData, Clear
<1> QED BY <1>2, <1>3, <1>4, <1>5 DEF IInv

LEMMA AcceptsStep ==
    ASSUME IInv, work' \in 0 .. MaxWork, NEW c \in Conns, ServerAccepts(c)
    PROVE  IInv'
<1>1. /\ server.at = "accept" /\ link[c] = "none"
      /\ server' = [at |-> "install", conn |-> c]
      /\ link' = [b \in Conns |-> IF b = c THEN "open"
                                  ELSE IF b = sock THEN "closed" ELSE link[b]]
      /\ replies' = [b \in Conns |-> IF b = sock THEN <<>> ELSE replies[b]]
      /\ UNCHANGED <<sock, sema, call, file, flags, recv_packet, requests, opened, disk, mishaps>>
  BY DEF ServerAccepts
<1>2. /\ Clear(c) /\ sock # c
      /\ \A t \in Threads : call[t].conn # c /\ file[t].conn # c
      /\ \A f \in Fds : opened[c][f] = Nobody
  BY <1>1 DEF IInv, FreshSound, Untouched
<1>3. link \in [Conns -> {"none", "open", "shut", "lost", "closed"}]
      /\ replies \in [Conns -> Seq(Reply)] /\ <<>> \in Seq(Reply)
  <2>1. link \in [Conns -> {"none", "open", "shut", "lost", "closed"}]
    BY DEF IInv, TypeOK
  <2> QED BY <2>1, TypesAre, EmptySeq DEF IInv
<1>4. TypeOK'
  <2>1. /\ link' \in [Conns -> {"none", "open", "shut", "lost", "closed"}]
        /\ replies' \in [Conns -> Seq(Reply)]
    BY <1>1, <1>3
  <2>2. server' \in [at : {"start", "accept", "install", "ended"}, conn : Conns \cup {NoSock}]
    BY <1>1
  <2> QED BY <1>1, <2>1, <2>2 DEF IInv, TypeOK, Reply
<1>5. OneAtATime' /\ CallsSound'
  BY <1>1 DEF IInv, OneAtATime, CallsSound
<1>6. \A b \in Conns : Clear(b) => Clear(b)'
  BY <1>1 DEF Clear
<1>7. FreshSound'
  <2>1. \A b \in Conns : Untouched(b)' => Untouched(b)
    BY <1>1 DEF Untouched
  <2>2. server'.conn = c /\ link'[c] # "none" /\ (sock \in Conns => link'[sock] = "closed")
    BY <1>1, <1>2
  <2> QED BY <1>1, <1>6, <2>1, <2>2 DEF IInv, FreshSound
<1>8. LinksSound'
  BY <1>1 DEF IInv, LinksSound
<1>9. ASSUME NEW t \in Threads PROVE (WaitOK(t, call[t]) /\ ReplacedOK(call[t]))'
  <2>1. WaitOK(t, call[t]) /\ ReplacedOK(call[t])
    BY DEF IInv, ExchangeSound
  <2>2. ASSUME NEW b \in Conns, Waiting(call[t], b)
        PROVE  \/ Own(t, call[t], b)'
               \/ Clear(b)' /\ (link'[b] # "open" \/ "replaced" \in mishaps')
    <3>1. b # c
      BY <1>2, <2>2 DEF Waiting
    <3>2. Own(t, call[t], b) \/ (Clear(b) /\ (link[b] # "open" \/ "replaced" \in mishaps))
      BY <2>1, <2>2 DEF WaitOK
    <3>3. CASE b = sock
      BY <1>1, <3>1, <3>2, <3>3 DEF Own, OnData, Clear
    <3>4. CASE b # sock
      BY <1>1, <3>1, <3>2, <3>4 DEF Own, OnData, Clear
    <3> QED BY <3>3, <3>4
  <2>3. WaitOK(t, call[t])'
    BY <1>1, <2>2 DEF WaitOK, Waiting
  <2>4. ReplacedOK(call[t])'
    <3>1. CASE call[t].at = "sending"
      <4>1. call[t].conn \in Conns
        BY <3>1 DEF IInv, CallsSound, CallOK
      <4>2. link[call[t].conn] \notin {"open", "shut", "lost"}
            => link'[call[t].conn] \notin {"open", "shut", "lost"}
        BY <1>1, <1>2, <4>1
      <4> QED BY <1>1, <1>6, <2>1, <4>2 DEF ReplacedOK
    <3>2. CASE call[t].at # "sending"
      BY <1>1, <1>6, <2>1, <3>2 DEF ReplacedOK
    <3> QED BY <3>1, <3>2
  <2> QED BY <2>3, <2>4
<1>10. SocketClear'
  BY <1>1, <1>2 DEF SocketClear
<1> QED BY <1>4, <1>5, <1>7, <1>8, <1>9, <1>10 DEF IInv, ExchangeSound

LEMMA InstallsStep ==
    ASSUME IInv, work' \in 0 .. MaxWork, ServerInstalls
    PROVE  IInv'
<1>1. PICK c \in Conns : c = server.conn
  BY DEF ServerInstalls, IInv, FreshSound
<1>2. /\ server.at = "install" /\ sock' = c /\ server' = [at |-> "accept", conn |-> NoSock]
      /\ mishaps' = mishaps \cup (IF \E t \in Threads : MidCall(t) THEN {"replaced"} ELSE {})
      /\ UNCHANGED <<sema, call, file, flags, recv_packet, link, requests, replies,
                     opened, disk>>
  BY <1>1 DEF ServerInstalls, pc
<1>3. /\ link[c] # "none" /\ (sock \in Conns => link[sock] = "closed")
      /\ Clear(c) /\ sock # c
      /\ \A t \in Threads : call[t].conn # c
  BY <1>1, <1>2 DEF IInv, FreshSound, Untouched
<1>4. TypeOK'
  <2>1. server' \in [at : {"start", "accept", "install", "ended"}, conn : Conns \cup {NoSock}]
    BY <1>2
  <2>2. mishaps' \subseteq Mishaps
    BY <1>2 DEF IInv, TypeOK, Mishaps
  <2> QED BY <1>2, <2>1, <2>2 DEF IInv, TypeOK
<1>5. OneAtATime' /\ LinksSound'
  BY <1>2 DEF IInv, OneAtATime, LinksSound
<1>6. CallsSound'
  <2>1. \A t \in Threads : CallOK(call[t], sock)
    BY DEF IInv, CallsSound
  <2>2. \A t \in Threads : CallOK(call[t], c)
    BY <2>1 DEF CallOK
  <2> QED BY <1>2, <2>2 DEF CallsSound
<1>7. \A b : Clear(b)' = Clear(b)
  BY <1>2 DEF Clear
<1>8. FreshSound'
  <2>1. \A b \in Conns : Untouched(b)' => Untouched(b) /\ b # c
    BY <1>2, <1>3 DEF Untouched
  <2> QED BY <1>2, <1>7, <2>1 DEF IInv, FreshSound
<1>9. ASSUME NEW t \in Threads PROVE (WaitOK(t, call[t]) /\ ReplacedOK(call[t]))'
  <2>1. WaitOK(t, call[t]) /\ ReplacedOK(call[t])
    BY DEF IInv, ExchangeSound
  <2>2. WaitOK(t, call[t])'
    BY <1>2, <2>1 DEF WaitOK, Waiting, Own, OnData, Clear
  <2>3. call[t].at = "sending" => link[call[t].conn] \notin {"open", "shut", "lost"}
    BY <1>3, <2>1 DEF ReplacedOK, IInv, CallsSound, CallOK
  <2>4. call[t].at \in {"sending", "closing", "clearing", "await"} => "replaced" \in mishaps'
    BY <1>2 DEF MidCall
  <2>5. ReplacedOK(call[t])'
    BY <1>2, <1>3, <1>7, <2>3, <2>4 DEF ReplacedOK
  <2> QED BY <2>2, <2>5
<1>10. SocketClear'
  BY <1>2, <1>3, <1>7 DEF SocketClear
<1> QED BY <1>4, <1>5, <1>6, <1>8, <1>9, <1>10 DEF IInv, ExchangeSound

-----------------------------------------------------------------------------
LEMMA NextIInv == IInv /\ [Next]_vars => IInv'
<1> SUFFICES ASSUME IInv, [Next]_vars PROVE IInv'
  OBVIOUS
<1>1. work \in 0 .. MaxWork /\ MaxWork \in Nat
  BY ConstantsAre DEF IInv, TypeOK
<1>2. CASE UNCHANGED vars
  BY <1>2, StutterStep
<1>3. ASSUME NEW t \in Threads, Enters(t), work < MaxWork, work' = work + 1
      PROVE  IInv'
  <2>1. work' \in 0 .. MaxWork
    BY <1>1, <1>3
  <2> QED BY <1>3, <2>1, EnterStep
<1>4. ASSUME NEW t \in Threads, GoesOn(t), UNCHANGED work
      PROVE  IInv'
  <2>1. work' \in 0 .. MaxWork
    BY <1>1, <1>4
  <2>2. CASE Spins(t)
    BY <2>2, StutterStep DEF Spins
  <2>3. CASE ~ Spins(t)
    BY <1>4, <2>1, <2>3, LooksStep, SendsStep, SendFailsStep, ClosesStep, ClearsStep,
       AwaitsStep, ReceivesStep, ReceivesCountStep, AwaitsDataStep, ReceivesDataStep,
       HeaderFailsStep, RestFailsStep, ReturnsStep DEF GoesOn
  <2> QED BY <2>2, <2>3
<1>5. ASSUME NEW c \in Conns, ServerAccepts(c), work + 2 <= MaxWork, work' = work + 2
      PROVE  IInv'
  <2>1. work' \in 0 .. MaxWork
    BY <1>1, <1>5
  <2> QED BY <1>5, <2>1, AcceptsStep
<1>6. ASSUME ServerStarts \/ ServerInstalls \/ Pc, UNCHANGED work
      PROVE  IInv'
  <2>1. work' \in 0 .. MaxWork
    BY <1>1, <1>6
  <2> QED BY <1>6, <2>1, StartsStep, InstallsStep, ServesStep, DroppedStep DEF Pc
<1> QED BY <1>2, <1>3, <1>4, <1>5, <1>6 DEF Next

\* The exchanges are sound in every state the driver reaches, whoever calls it, whatever
\* fails, and whichever mishaps it is followed through.
THEOREM HostAlwaysSound == Spec => []IInv
BY InitIInv, NextIInv, PTL DEF Spec

\* Every variable has its type; what a call returns, and the descriptors handed on, keep
\* to the values the PC and the driver use, also when a stale buffer is read for a reply.
THEOREM TypeCorrect == Spec => []TypeOK
<1>1. IInv => TypeOK
  BY DEF IInv
<1> QED BY <1>1, HostAlwaysSound, PTL

\* The reply, and the data of a read, that a thread receives on the connection in use are
\* those of its own request, for any number of threads that share the connection and give
\* calls up in the middle.
THEOREM AlwaysInStep == Spec => []InStep
<1>1. ASSUME IInv, Fine, NEW c \in Conns, Live(c)
      PROVE  LET due == requests[c] \o replies[c] IN
             IF \E t \in Threads : AwaitsOn(t, c)
             THEN \E t \in Threads : /\ AwaitsOn(t, c) /\ Len(due) = 1
                                     /\ due[1].by = t /\ due[1].op = Awaited(t)
             ELSE due = <<>>
  <2> DEFINE due == requests[c] \o replies[c]
  <2>1. /\ sock = c /\ link[c] = "open" /\ "replaced" \notin mishaps
        /\ requests[c] \in Seq(Message) /\ replies[c] \in Seq(Reply)
    BY <1>1, TypesAre DEF Live, Fine, IInv
  <2>2. CASE \E t \in Threads : Waiting(call[t], c)
    <3>1. PICK t \in Threads : Waiting(call[t], c)
      BY <2>2
    <3>2. Own(t, call[t], c)
      BY <1>1, <2>1, <3>1 DEF IInv, ExchangeSound, WaitOK
    <3>3. (due = requests[c] /\ replies[c] = <<>>) \/ (due = replies[c] /\ requests[c] = <<>>)
      <4>1. \A a, b, S : a \in Seq(S) /\ b = <<>> => a \o b = a /\ b \o a = a
        BY ConcatEmptySeq, Zenon
      <4>2. CASE replies[c] = <<>>
        BY <2>1, <4>1, <4>2, Zenon
      <4>3. CASE requests[c] = <<>>
        BY <2>1, <4>1, <4>3, Zenon
      <4> QED BY <3>2, <4>2, <4>3 DEF Own
    <3>4. Len(due) = 1 /\ due[1].by = t /\ due[1].op = Awaited(t)
      BY <2>1, <3>2, <3>3, EmptySeq DEF Own, OnData, Awaited
    <3> HIDE DEF due
    <3>5. AwaitsOn(t, c)
      BY <3>1 DEF Waiting, AwaitsOn
    <3> QED BY <3>4, <3>5 DEF due
  <2>3. CASE ~ \E t \in Threads : Waiting(call[t], c)
    <3>1. Clear(c)
      BY <1>1, <2>1, <2>3 DEF IInv, ExchangeSound, SocketClear
    <3>2. due = <<>>
      BY <2>1, <3>1, ConcatEmptySeq DEF Clear
    <3> QED BY <2>3, <3>2 DEF Waiting, AwaitsOn
  <2> QED BY <2>2, <2>3
<1>2. IInv => InStep
  BY <1>1 DEF InStep
<1> QED BY <1>2, HostAlwaysSound, PTL

-----------------------------------------------------------------------------
(***************************************************************************)
(* The driver implements RemoteCalls.                                      *)
(***************************************************************************)
\* What RemoteCalls sees of call p.
View(p) ==
    [op |-> IF p.at = "again" THEN "none" ELSE p.op,
     phase |-> CASE p.at \in {"idle", "again"} -> "idle"
                 [] p.at = "post" -> "returned"
                 [] p.at \notin {"idle", "again", "post"} /\ p.done # Undone -> "performed"
                 [] OTHER -> "asked",
     ret |-> IF p.at = "post" \/ p.done = Undone THEN p.ret
             ELSE IF p.done < 0 THEN p.done ELSE p.ret + p.done]

Views == [t \in Threads |-> View(call[t])]

Broken == \E c \in Conns : link[c] \in {"lost", "shut", "closed"}

LEMMA ViewIs ==
    ASSUME NEW p
    PROVE  /\ View(p).op = IF p.at = "again" THEN "none" ELSE p.op
           /\ View(p).phase = CASE p.at \in {"idle", "again"} -> "idle"
                                [] p.at = "post" -> "returned"
                                [] p.at \notin {"idle", "again", "post"} /\ p.done # Undone -> "performed"
                                [] OTHER -> "asked"
           /\ View(p).ret = IF p.at = "post" \/ p.done = Undone THEN p.ret
                            ELSE IF p.done < 0 THEN p.done ELSE p.ret + p.done
           /\ View(p) = [op |-> View(p).op, phase |-> View(p).phase, ret |-> View(p).ret]
BY DEF View

LEMMA ViewsAre ==
    ASSUME IInv, NEW t \in Threads, NEW C, Goes(t, C)
    PROVE  Views' = [Views EXCEPT ![t] = View(C)] /\ Views[t] = View(call[t])
<1>1. call'[t] = C /\ \A u \in Threads \ {t} : call'[u] = call[u]
  BY GoesTo
<1>2. \A u \in Threads : View(call[u])' = View(call'[u])
  BY DEF View
<1>3. Views' = [u \in Threads |-> View(call'[u])]
  BY <1>2 DEF Views
<1> QED BY <1>1, <1>3 DEF Views

\* A step of RemoteCalls, in terms of the views.
Phased(t, phase, res) == Views' = [Views EXCEPT ![t].phase = phase, ![t].ret = res]

LEMMA PhasedIs ==
    ASSUME IInv, NEW t \in Threads, NEW C, Goes(t, C), View(C).op = View(call[t]).op
    PROVE  Phased(t, View(C).phase, View(C).ret)
<1> DEFINE v == View(call[t])
           w == View(C)
<1>1. /\ v = [op |-> v.op, phase |-> v.phase, ret |-> v.ret]
      /\ w = [op |-> w.op, phase |-> w.phase, ret |-> w.ret] /\ w.op = v.op
  BY ViewIs
<1>2. Views' = [Views EXCEPT ![t] = w] /\ Views[t] = v
  BY ViewsAre
<1>3. Views = [u \in Threads |-> Views[u]]
  BY DEF Views
<1> HIDE DEF v, w
<1>4. [Views[t] EXCEPT !.phase = w.phase, !.ret = w.ret] = w
  BY <1>1, <1>2
<1>5. [Views EXCEPT ![t].phase = w.phase, ![t].ret = w.ret] =
         [Views EXCEPT ![t] = [Views[t] EXCEPT !.phase = w.phase, !.ret = w.ret]]
  BY <1>3
<1> QED BY <1>2, <1>4, <1>5 DEF Phased, w

LEMMA SameView ==
    ASSUME IInv, NEW t \in Threads, NEW C, Goes(t, C), View(C) = View(call[t])
    PROVE  Views' = Views
<1>1. Views' = [Views EXCEPT ![t] = View(call[t])] /\ Views[t] = View(call[t])
  BY ViewsAre
<1>2. Views = [u \in Threads |-> Views[u]]
  BY DEF Views
<1> QED BY <1>1, <1>2

LEMMA RCIs ==
    /\ RC!rcVars = <<Views, Broken>>
    /\ RC!RCNext <=>
          \/ Broken' = TRUE /\ UNCHANGED Views
          \/ \E t \in Threads :
                \/ RC!Ask(t) \/ RC!Perform(t) \/ RC!Continue(t) \/ RC!Return(t)
                \/ RC!Fail(t) \/ RC!Skip(t) \/ RC!Misreport(t) \/ RC!Done(t)
    /\ RC!Idle = [op |-> "none", phase |-> "idle", ret |-> 0]
BY DEF RC!rcVars, RC!RCNext, RC!Break, RC!Idle, Views, Broken, Seen, View


\* The steps of RemoteCalls that the driver's are shown to take.
LEMMA RCSteps ==
    ASSUME NEW t \in Threads, UNCHANGED Broken
    PROVE  /\ \A op \in Ops :
                 Views[t] = RC!Idle
                 /\ Views' = [Views EXCEPT ![t] = [op |-> op, phase |-> "asked", ret |-> 0]]
                 => RC!Ask(t)
           /\ \A op \in Skipped, res \in Rets :
                 Views[t].phase = "idle"
                 /\ Views' = [Views EXCEPT ![t] = [op |-> op, phase |-> "returned", ret |-> res]]
                 => RC!Skip(t)
           /\ \A res \in Rets :
                 Views[t].phase = "asked"
                 /\ Phased(t, "performed", IF res < 0 THEN res ELSE Views[t].ret + res)
                 => RC!Perform(t)
           /\ Views[t].phase = "performed" /\ Views[t].op = "write"
              /\ Phased(t, "asked", Views[t].ret) => RC!Continue(t)
           /\ Views[t].phase = "performed" /\ Phased(t, "returned", Views[t].ret) => RC!Return(t)
           /\ Views[t].phase \in {"asked", "performed"} /\ Phased(t, "returned", -1) => RC!Fail(t)
           /\ \A res \in Rets, phase \in {"asked", "returned"} :
                 Broken /\ Views[t].phase \in {"asked", "performed"} /\ Phased(t, phase, res)
                 => RC!Misreport(t)
           /\ Views[t].phase = "returned" /\ Views' = [Views EXCEPT ![t] = RC!Idle]
              => RC!Done(t)
<1>1. Views = [u \in Threads |-> Seen(u)] /\ Views' = [u \in Threads |-> Seen(u)]'
  BY DEF Views, Seen, View
<1>2. ASSUME NEW op \in Ops, Views[t] = RC!Idle,
             Views' = [Views EXCEPT ![t] = [op |-> op, phase |-> "asked", ret |-> 0]]
      PROVE  RC!Ask(t)
  BY <1>1, <1>2 DEF RC!Ask, Broken
<1>3. ASSUME NEW op \in Skipped, NEW res \in Rets, Views[t].phase = "idle",
             Views' = [Views EXCEPT ![t] = [op |-> op, phase |-> "returned", ret |-> res]]
      PROVE  RC!Skip(t)
  BY <1>1, <1>3 DEF RC!Skip, Broken, Skipped
<1>4. ASSUME NEW res \in Rets, Views[t].phase = "asked",
             Phased(t, "performed", IF res < 0 THEN res ELSE Views[t].ret + res)
      PROVE  RC!Perform(t)
  BY <1>1, <1>4 DEF RC!Perform, RC!Goes, Broken, Phased
<1>5. ASSUME Views[t].phase = "performed", Views[t].op = "write", Phased(t, "asked", Views[t].ret)
      PROVE  RC!Continue(t)
  BY <1>1, <1>5 DEF RC!Continue, RC!Goes, Broken, Phased
<1>6. ASSUME Views[t].phase = "performed", Phased(t, "returned", Views[t].ret)
      PROVE  RC!Return(t)
  BY <1>1, <1>6 DEF RC!Return, RC!Goes, Broken, Phased
<1>7. ASSUME Views[t].phase \in {"asked", "performed"}, Phased(t, "returned", -1)
      PROVE  RC!Fail(t)
  BY <1>1, <1>7 DEF RC!Fail, RC!Goes, Broken, Phased
<1>8. ASSUME NEW res \in Rets, NEW phase \in {"asked", "returned"}, Broken,
             Views[t].phase \in {"asked", "performed"}, Phased(t, phase, res)
      PROVE  RC!Misreport(t)
  BY <1>1, <1>8 DEF RC!Misreport, RC!Goes, Broken, Phased
<1>9. ASSUME Views[t].phase = "returned", Views' = [Views EXCEPT ![t] = RC!Idle]
      PROVE  RC!Done(t)
  BY <1>1, <1>9 DEF RC!Done, Broken
<1> QED BY <1>2, <1>3, <1>4, <1>5, <1>6, <1>7, <1>8, <1>9

RCStep == RC!RCNext \/ UNCHANGED <<Views, Broken>>

LEMMA LinkKept ==
    ASSUME UNCHANGED link
    PROVE  UNCHANGED Broken
BY DEF Broken

\* The stages of a call as RemoteCalls has them.
LEMMA PhasesAre ==
    ASSUME IInv, NEW t \in Threads
    PROVE  /\ call[t].at \in {"idle", "again"} => Views[t] = RC!Idle
           /\ call[t].at \in Before => /\ View(call[t]).phase = "asked"
                                       /\ View(call[t]).ret = call[t].ret
           /\ call[t].at \in Asking => View(call[t]).phase \in {"asked", "performed"}
           /\ call[t].at # "again" => View(call[t]).op = call[t].op
           /\ call[t].at = "post" => View(call[t]).phase = "returned"
           /\ Views[t] = View(call[t])
<1>1. CallOK(call[t], sock)
  BY DEF IInv, CallsSound
<1>2. Views[t] = View(call[t])
  BY DEF Views
<1>3. ASSUME call[t].at \in {"idle", "again"} PROVE Views[t] = RC!Idle
  <2>1. call[t].done = Undone /\ call[t].ret = 0 /\ (call[t].at = "idle" => call[t].op = "none")
    BY <1>1, <1>3, NoCallIs DEF CallOK
  <2> QED BY <1>2, <1>3, <2>1, RCIs DEF View
<1>4. call[t].at \in Before => View(call[t]).phase = "asked" /\ View(call[t]).ret = call[t].ret
  BY <1>1 DEF CallOK, View, Before
<1>5. call[t].at \in Asking => View(call[t]).phase \in {"asked", "performed"}
  BY DEF View, Asking, Exchanging
<1>6. call[t].at # "again" => View(call[t]).op = call[t].op
  BY DEF View
<1>7. ASSUME call[t].at = "post" PROVE View(call[t]).phase = "returned"
  BY <1>7 DEF View
<1> QED BY <1>2, <1>3, <1>4, <1>5, <1>6, <1>7

LEMMA EnterMaps ==
    ASSUME IInv, NEW t \in Threads, Enters(t)
    PROVE  RCStep
<1>1. CASE Dummy(t)
  BY <1>1, LinkKept DEF Dummy, Rest, pc, RCStep, Views, View
<1>2. ASSUME NEW C, Entrance(t, C)
      PROVE  RCStep
  <2>1. /\ Goes(t, C) /\ Entered(t, C) /\ call[t].at \in {"idle", "again"}
        /\ UNCHANGED link
    BY <1>2 DEF Entrance, pc
  <2>2. Views[t] = RC!Idle /\ Views[t].phase = "idle"
    BY <2>1, PhasesAre, RCIs
  <2>3. UNCHANGED Broken /\ Views' = [Views EXCEPT ![t] = View(C)]
    BY <2>1, LinkKept, ViewsAre
  <2>4. CASE C.at = "send"
    <3>1. View(C) = [op |-> C.op, phase |-> "asked", ret |-> 0] /\ C.op \in Ops
      BY <2>1, <2>4 DEF Entered, View
    <3>2. RC!Ask(t)
      BY <2>2, <2>3, <3>1, RCSteps
    <3> QED BY <3>2, RCIs DEF RCStep
  <2>5. CASE C.at = "post"
    <3>1. /\ View(C) = [op |-> C.op, phase |-> "returned", ret |-> C.ret]
          /\ C.op \in Skipped /\ C.ret \in Rets
      BY <2>1, <2>5 DEF Entered, View, Goes, CallType
    <3>2. RC!Skip(t)
      BY <2>2, <2>3, <3>1, RCSteps
    <3> QED BY <3>2, RCIs DEF RCStep
  <2> QED BY <2>1, <2>4, <2>5 DEF Entered
<1> QED BY <1>1, <1>2, EntersAre

\* A call that has not got its answer fails.
LEMMA FailMaps ==
    ASSUME IInv, NEW t \in Threads, call[t].at \in Asking, Result(t, -1), UNCHANGED link,
           sema = t \/ call[t].at \in Exchanging
    PROVE  RCStep
<1> DEFINE C == [call[t] EXCEPT !.at = "post", !.ret = -1]
<1>1. Goes(t, C) /\ C.at = "post" /\ C.ret = -1 /\ C.op = call[t].op
  BY ResultIs, RetsAre
<1> HIDE DEF C
<1>2. /\ View(C).op = View(call[t]).op /\ View(C).phase = "returned" /\ View(C).ret = -1
      /\ Views[t].phase \in {"asked", "performed"}
  <2>1. View(C).phase = "returned" /\ View(C).ret = -1 /\ View(C).op = call[t].op
    BY <1>1 DEF View
  <2> QED BY <2>1, PhasesAre DEF Asking, Exchanging
<1>3. Phased(t, "returned", -1) /\ UNCHANGED Broken
  BY <1>1, <1>2, PhasedIs, LinkKept
<1>4. RC!Fail(t)
  BY <1>2, <1>3, RCSteps
<1> QED BY <1>4, RCIs DEF RCStep

\* A call goes on within its exchange.
LEMMA QuietMaps ==
    ASSUME IInv, NEW t \in Threads, NEW C, Goes(t, C), UNCHANGED Broken,
           call[t].at \in Asking, C.at \in Asking,
           C.op = call[t].op, C.done = call[t].done, C.ret = call[t].ret
    PROVE  RCStep
<1>1. View(C) = View(call[t])
  BY DEF View, Asking, Exchanging
<1> QED BY <1>1, SameView DEF RCStep

LEMMA StaysMaps ==
    ASSUME IInv, NEW t \in Threads, call[t].at \in Asking, NEW stage \in Asking,
           NEW conn \in Conns \cup {NoSock}, UNCHANGED Broken,
           call' = [call EXCEPT ![t] = [call[t] EXCEPT !.at = stage, !.conn = conn]]
    PROVE  RCStep
<1> DEFINE C == [call[t] EXCEPT !.at = stage, !.conn = conn]
<1>1. call[t] \in CallType
  BY TypesAre DEF IInv
<1>2. /\ C \in CallType /\ C.at = stage /\ C.op = call[t].op /\ C.done = call[t].done
      /\ C.ret = call[t].ret
  BY <1>1 DEF CallType, Asking, Exchanging
<1>3. call' = [call EXCEPT ![t] = C]
  OBVIOUS
<1> HIDE DEF C
<1> QED BY <1>2, <1>3, QuietMaps DEF Goes


\* The reply to the call, whose answer was noted when the PC made it.
LEMMA ReceiveMaps ==
    ASSUME IInv, NEW t \in Threads, Receives(t)
    PROVE  RCStep
<1>0. PICK c \in Conns : c = call[t].conn
  BY DEF Receives, IInv, CallsSound, CallOK
<1> DEFINE p == Head(replies[c])
<1>1. /\ call[t].at = "recv" /\ replies[c] # <<>> /\ Answered(t, p.ret) /\ UNCHANGED link
  BY <1>0 DEF Receives
<1>2. Waiting(call[t], c)
  BY <1>0, <1>1 DEF Waiting
<1>5. call[t].done = p.ret /\ p.ret \in Retvals /\ p.ret # Undone
  BY <1>1, <1>2, ReplyIs, RetsAre
<1> HIDE DEF p
<1>6. PICK C : Goes(t, C) /\ AnswerOf(t, p.ret, C)
  BY <1>1, <1>5, AnsweredIs
<1> DEFINE v == View(call[t])
<1>7. /\ v.phase = "performed" /\ v.op = call[t].op /\ Views[t] = v
      /\ v.ret = IF p.ret < 0 THEN p.ret ELSE call[t].ret + p.ret
  <2>1. v.phase = "performed" /\ v.op = call[t].op
    BY <1>1, <1>5 DEF View
  <2>2. v.ret = IF p.ret < 0 THEN p.ret ELSE call[t].ret + p.ret
    BY <1>1, <1>5 DEF View
  <2> QED BY <2>1, <2>2, PhasesAre
<1>8. UNCHANGED Broken
  BY <1>1, LinkKept
<1>9. CASE C.at = "post"
  <2>1. View(C).op = v.op /\ View(C).phase = "returned" /\ View(C).ret = v.ret
    BY <1>6, <1>7, <1>9 DEF View, AnswerOf
  <2>2. Phased(t, "returned", Views[t].ret)
    BY <1>6, <1>7, <2>1, PhasedIs
  <2>3. RC!Return(t)
    BY <1>7, <1>8, <2>2, RCSteps
  <2> QED BY <2>3, RCIs DEF RCStep
<1>10. CASE C.at # "post"
  <2>1. /\ C.at = "send" /\ C.op = "write" /\ C.op = call[t].op /\ p.ret > 0
        /\ C.ret = call[t].ret + p.ret /\ C.done = Undone
    BY <1>6, <1>10 DEF AnswerOf
  <2>2. View(C).op = v.op /\ View(C).phase = "asked" /\ View(C).ret = C.ret
    BY <1>7, <2>1 DEF View
  <2>3. C.ret = v.ret
    <3>1. p.ret \in Int
      BY <1>5, RetsAre
    <3>2. ~ (p.ret < 0)
      BY <2>1, <3>1
    <3> QED BY <1>7, <2>1, <3>2
  <2>4. Phased(t, "asked", Views[t].ret)
    BY <1>6, <1>7, <2>2, <2>3, PhasedIs
  <2>5. RC!Continue(t)
    BY <1>7, <1>8, <2>1, <2>4, RCSteps
  <2> QED BY <2>5, RCIs DEF RCStep
<1> QED BY <1>9, <1>10

\* What RemoteCalls sees of a call that has its answer.
LEMMA PerformedIs ==
    ASSUME IInv, NEW t \in Threads, call[t].at \in Exchanging, call[t].done \in Retvals
    PROVE  LET v == View(call[t])
           IN  /\ v.phase = "performed" /\ v.op = call[t].op /\ Views[t] = v
               /\ v.ret = IF call[t].done < 0 THEN call[t].done ELSE call[t].ret + call[t].done
<1> DEFINE v == View(call[t])
<1>1. call[t].done # Undone
  BY RetsAre
<1>2. v.phase = "performed" /\ v.op = call[t].op
  BY <1>1 DEF View, Exchanging
<1>3. v.ret = IF call[t].done < 0 THEN call[t].done ELSE call[t].ret + call[t].done
  BY <1>1 DEF View, Exchanging
<1>4. Views[t] = v
  BY PhasesAre
<1> QED BY <1>2, <1>3, <1>4

\* The count of a read: its data is due, or it is over.
LEMMA ReceivesCountMaps ==
    ASSUME IInv, NEW t \in Threads, ReceivesCount(t)
    PROVE  RCStep
<1>0. PICK c \in Conns, n \in Retvals : \E C : CountTaken(t, c, n, C)
  BY CountIs
<1>1. PICK C : CountTaken(t, c, n, C)
  BY <1>0
<1>2. /\ call[t].at = "recv" /\ call[t].op = "read" /\ call[t].done = n /\ UNCHANGED link
      /\ Goes(t, C) /\ C.op = call[t].op /\ C.done = n
      /\ \/ C.at = "count" /\ n > 0 /\ C.ret = call[t].ret
         \/ C.at = "post" /\ ~ (n > 0) /\ C.ret = IF n < 0 THEN -1 ELSE 0
  BY <1>1 DEF CountTaken
<1>3. UNCHANGED Broken
  BY <1>2, LinkKept
<1>4. CASE C.at = "count"
  BY <1>2, <1>3, <1>4, QuietMaps DEF Asking, Exchanging
<1>5. CASE C.at = "post"
  <2>1. n \in Int
    BY RetsAre
  <2>2. call[t].ret = 0
    BY <1>2 DEF IInv, CallsSound, CallOK, Asking, Exchanging
  <2>3. Views[t].phase = "performed" /\ Views[t].ret = n /\ View(call[t]).op = call[t].op
    BY <1>2, <2>1, <2>2, PerformedIs DEF Exchanging
  <2>4. View(C).op = View(call[t]).op /\ View(C).phase = "returned" /\ View(C).ret = C.ret
    BY <1>2, <1>5, <2>3 DEF View
  <2>5. Phased(t, "returned", C.ret)
    BY <1>2, <2>4, PhasedIs
  <2>6. RC!Return(t) \/ RC!Fail(t)
    <3>1. CASE n < 0
      BY <1>2, <1>3, <1>5, <2>3, <2>5, <3>1, RCSteps
    <3>2. CASE ~ (n < 0)
      <4>1. C.ret = Views[t].ret
        BY <1>2, <1>5, <2>1, <2>3, <3>2
      <4> QED BY <1>3, <2>3, <2>5, <4>1, RCSteps
    <3> QED BY <3>1, <3>2
  <2> QED BY <2>6, RCIs DEF RCStep
<1> QED BY <1>2, <1>4, <1>5

\* The data of a read is its own.
LEMMA ReceivesDataMaps ==
    ASSUME IInv, NEW t \in Threads, ReceivesData(t)
    PROVE  RCStep
<1>0. PICK c \in Conns : c = call[t].conn
  BY DEF ReceivesData, IInv, CallsSound, CallOK
<1> DEFINE p == Head(replies[c])
<1>1. call[t].at = "data" /\ replies[c] # <<>> /\ Result(t, p.ret) /\ UNCHANGED link
  BY <1>0 DEF ReceivesData, DataDue
<1>2. Waiting(call[t], c) /\ call[t].at \in Exchanging
  BY <1>0, <1>1 DEF Waiting, Exchanging
<1>3. call[t].done = p.ret /\ p.ret \in Retvals
  BY <1>1, <1>2, ReplyIs
<1> HIDE DEF p
<1>5. PICK n \in Rets : n = p.ret /\ n \in Int
  BY <1>3, RetsAre
<1> DEFINE C == [call[t] EXCEPT !.at = "post", !.ret = n]
<1>6. Result(t, n)
  BY <1>1, <1>5
<1>7. Goes(t, C) /\ C.at = "post" /\ C.ret = n /\ C.op = call[t].op
  BY <1>2, <1>6, ResultIs
<1> HIDE DEF C
<1>8. call[t].ret = 0
  BY <1>1 DEF IInv, CallsSound, CallOK, Asking, Exchanging
<1>9. Views[t].phase = "performed" /\ Views[t].ret = n /\ View(call[t]).op = call[t].op
  BY <1>2, <1>3, <1>5, <1>8, PerformedIs
<1>10. View(C).op = View(call[t]).op /\ View(C).phase = "returned" /\ View(C).ret = n
  BY <1>7, <1>9 DEF View
<1>11. Phased(t, "returned", Views[t].ret)
  BY <1>7, <1>9, <1>10, PhasedIs
<1>12. RC!Return(t)
  BY <1>1, <1>9, <1>11, LinkKept, RCSteps
<1> QED BY <1>12, RCIs DEF RCStep

\* Without a reply: the connection has failed.
LEMMA HeaderFailsMaps ==
    ASSUME IInv, NEW t \in Threads, HeaderFails(t)
    PROVE  RCStep
<1>1. call[t].at = "recv" /\ link[call[t].conn] \in {"lost", "closed"} /\ UNCHANGED link
  BY DEF HeaderFails, CannotReceive, pc
<1>2. call[t].conn \in Conns
  BY <1>1 DEF IInv, CallsSound, CallOK
<1>3. Broken /\ UNCHANGED Broken
  BY <1>1, <1>2, LinkKept DEF Broken
<1>4. PICK C : \/ Goes(t, C) /\ C.op = call[t].op /\ C.ret \in Rets
                  /\ (C.at = "post" \/ (C.at = "send" /\ C.done = Undone))
               \/ Goes(t, C) /\ C.op = call[t].op /\ C.ret = call[t].ret
                  /\ C.at = "count" /\ C.done = call[t].done
  <2>1. CASE call[t].op = "read"
    <3>1. Counted(t, recv_packet.nbytes) /\ recv_packet.nbytes \in Retvals
      BY <2>1 DEF HeaderFails, IInv, TypeOK
    <3>2. PICK C : /\ Goes(t, C) /\ C.op = call[t].op /\ C.done = call[t].done
                   /\ \/ C.at = "count" /\ C.ret = call[t].ret
                      \/ C.at = "post" /\ C.ret \in {-1, 0}
      BY <1>1, <2>1, <3>1, CountedIs
    <3> QED BY <3>2, RetsAre
  <2>2. CASE call[t].op # "read"
    <3>1. Answered(t, recv_packet.retval) /\ recv_packet.retval \in Retvals
      BY <2>2 DEF HeaderFails, IInv, TypeOK
    <3>2. PICK C : Goes(t, C) /\ AnswerOf(t, recv_packet.retval, C)
      BY <1>1, <3>1, AnsweredIs
    <3> QED BY <3>2 DEF AnswerOf, Goes, CallType
  <2> QED BY <2>1, <2>2
<1>5. CASE C.at = "count"
  BY <1>1, <1>3, <1>4, <1>5, QuietMaps DEF Asking, Exchanging
<1>6. CASE C.at # "count"
  <2>0. Goes(t, C) /\ C.op = call[t].op /\ C.ret \in Rets
        /\ (C.at = "post" \/ (C.at = "send" /\ C.done = Undone))
    BY <1>4, <1>6
  <2>1. View(C).op = View(call[t]).op /\ Views[t].phase \in {"asked", "performed"}
    <3>1. View(C).op = C.op /\ View(call[t]).op = call[t].op
      BY <1>1, <2>0 DEF View
    <3> QED BY <1>1, <2>0, <3>1, PhasesAre DEF Asking, Exchanging
  <2>2. View(C).phase \in {"asked", "returned"} /\ View(C).ret \in Rets
    <3>1. CASE C.at = "post"
      BY <2>0, <3>1 DEF View
    <3>2. CASE C.at = "send" /\ C.done = Undone
      BY <2>0, <3>2 DEF View
    <3> QED BY <2>0, <3>1, <3>2
  <2>3. Phased(t, View(C).phase, View(C).ret)
    BY <2>0, <2>1, PhasedIs
  <2>4. RC!Misreport(t)
    BY <1>3, <2>1, <2>2, <2>3, RCSteps
  <2> QED BY <2>4, RCIs DEF RCStep
<1> QED BY <1>5, <1>6

LEMMA ReturnMaps ==
    ASSUME IInv, NEW t \in Threads, Returns(t)
    PROVE  RCStep
<1>1. call[t].at = "post" /\ UNCHANGED link
  BY DEF Returns, pc
<1> DEFINE again == [NoCall EXCEPT !.at = "again", !.name = call[t].name]
<1>2. PICK C \in {NoCall, again} : call' = [call EXCEPT ![t] = C]
  BY DEF Returns, Set
<1>3. again \in CallType /\ again.at = "again" /\ again.ret = 0 /\ again.done = Undone
  <2>1. call[t].name \in Names \cup {"none"}
    BY TypesAre DEF IInv, CallType
  <2> QED BY <2>1, NoCallIs DEF CallType
<1> HIDE DEF again
<1>4. /\ Goes(t, C) /\ C.at \in {"idle", "again"} /\ (C.at = "idle" => C.op = "none")
      /\ C.ret = 0 /\ C.done = Undone
  BY <1>2, <1>3, NoCallIs DEF Goes
<1>5. View(C) = RC!Idle
  BY <1>4, RCIs DEF View
<1>6. Views' = [Views EXCEPT ![t] = RC!Idle] /\ Views[t].phase = "returned" /\ UNCHANGED Broken
  BY <1>1, <1>4, <1>5, ViewsAre, PhasesAre, LinkKept
<1>7. RC!Done(t)
  BY <1>6, RCSteps
<1> QED BY <1>7, RCIs DEF RCStep

LEMMA GoesOnMaps ==
    ASSUME IInv, NEW t \in Threads, GoesOn(t)
    PROVE  RCStep
<1>0. call[t] \in CallType /\ sock \in Conns \cup {NoSock} /\ call[t].conn \in Conns \cup {NoSock}
  BY TypesAre DEF IInv, CallType
<1>00. \A stage : [call[t] EXCEPT !.at = stage] =
                  [call[t] EXCEPT !.at = stage, !.conn = call[t].conn]
  BY <1>0 DEF CallType
<1>1. CASE Looks(t)
  <2>1. call[t].at = "send" /\ sema = t /\ UNCHANGED link
    BY <1>1 DEF Looks, pc
  <2>2. CASE sock = NoSock
    BY <1>1, <2>1, <2>2, FailMaps DEF Looks, Asking
  <2>3. CASE sock # NoSock
    BY <1>0, <1>1, <2>1, <2>3, LinkKept, StaysMaps DEF Looks, Stays, Set, Asking, Exchanging
  <2> QED BY <2>2, <2>3
<1>2. CASE Sends(t)
  BY <1>0, <1>00, <1>2, LinkKept, StaysMaps DEF Sends, Stays, Set, Asking, Exchanging
<1>3. CASE SendFails(t)
  <2>1. call[t].at = "sending" /\ UNCHANGED link
    BY <1>3 DEF SendFails, pc
  <2>2. CASE call[t].op = "read"
    BY <1>3, <2>1, <2>2, FailMaps DEF SendFails, Asking, Exchanging
  <2>3. CASE call[t].op # "read"
    <3>1. call' = [call EXCEPT ![t] = [call[t] EXCEPT !.at = "closing"]]
      BY <1>3, <2>3 DEF SendFails, Stays, Set
    <3> QED BY <1>0, <1>00, <2>1, <3>1, LinkKept, StaysMaps DEF Asking, Exchanging
  <2> QED BY <2>2, <2>3
<1>4. CASE ClosesSocket(t)
  <2>1. call[t].at = "closing" /\ Disconnected(sock)
        /\ call' = [call EXCEPT ![t] = [call[t] EXCEPT !.at = "clearing"]]
    BY <1>4 DEF ClosesSocket, Stays, Set
  <2>2. CASE sock = NoSock
    <3>1. UNCHANGED link
      BY <2>1, <2>2 DEF Disconnected
    <3> QED BY <1>0, <1>00, <2>1, <3>1, LinkKept, StaysMaps DEF Asking, Exchanging
  <2>3. CASE sock # NoSock
    <3>1. link' = [link EXCEPT ![sock] = "closed"] /\ sock \in Conns
      BY <1>0, <2>1, <2>3 DEF Disconnected
    <3>2. Broken' = TRUE
      <4>1. link \in [Conns -> {"none", "open", "shut", "lost", "closed"}]
        BY DEF IInv, TypeOK
      <4>2. link'[sock] = "closed"
        BY <3>1, <4>1
      <4> QED BY <3>1, <4>2 DEF Broken
    <3>3. PICK C : Moved(t, C, "clearing")
      BY <1>4, MovedIs DEF ClosesSocket, Asking, Exchanging
    <3>4. View(C) = View(call[t])
      BY <2>1, <3>3 DEF View, Moved
    <3>5. UNCHANGED Views
      BY <3>3, <3>4, SameView DEF Moved
    <3> QED BY <3>2, <3>5, RCIs DEF RCStep
  <2> QED BY <2>2, <2>3
<1>5. CASE ClearsSocket(t)
  BY <1>5, FailMaps DEF ClearsSocket, pc, Asking, Exchanging
<1>6. CASE Awaits(t)
  BY <1>0, <1>6, LinkKept, StaysMaps DEF Awaits, pc, Stays, Set, Asking, Exchanging
<1>7. CASE RestFails(t)
  BY <1>7, FailMaps DEF RestFails, CannotReceive, pc, Asking, Exchanging
<1>9. CASE AwaitsData(t)
  BY <1>0, <1>9, LinkKept, StaysMaps DEF AwaitsData, pc, Stays, Set, Asking, Exchanging
<1>8. CASE Spins(t)
  BY <1>8, LinkKept DEF Spins, vars, driver, pc, RCStep, Views, View
<1> QED BY <1>1, <1>2, <1>3, <1>4, <1>5, <1>6, <1>7, <1>8, <1>9, ReceiveMaps,
           ReceivesCountMaps, ReceivesDataMaps, HeaderFailsMaps, ReturnMaps DEF GoesOn


\* The PC performs the call that waits for it, or one that was given up.
LEMMA ServeMaps ==
    ASSUME IInv, NEW c \in Conns, PcServes(c)
    PROVE  RCStep
<1>1. PICK q, s :
         /\ q \in Message
         /\ requests[c] # <<>> /\ q = requests[c][1] /\ ServedOK(c, q, s)
         /\ IF StillAsked(c, q)
            THEN Goes(q.by, [call[q.by] EXCEPT !.done = s.ret])
            ELSE call' = call
         /\ UNCHANGED link
  BY ServesIs
<1>2. UNCHANGED Broken
  BY <1>1, LinkKept
<1>3. CASE ~ StillAsked(c, q)
  BY <1>1, <1>2, <1>3 DEF RCStep, Views, View
<1>4. CASE StillAsked(c, q)
  <2>1. PICK t \in Threads : t = q.by
    BY <1>1 DEF Message
  <2>2. /\ call[t].at \in {"await", "recv"} /\ call[t].conn = c
        /\ WaitOK(t, call[t]) /\ call[t] \in CallType
    BY <1>4, <2>1, TypesAre DEF StillAsked, IInv, ExchangeSound
  <2>3. call[t].done = Undone
    BY <1>1, <2>2 DEF WaitOK, Waiting, Own, OnData, Clear
  <2>4. s.ret \in Retvals /\ s.ret \in Rets /\ s.ret # Undone
    BY <1>1, RetsAre DEF ServedOK
  <2> DEFINE C == [call[t] EXCEPT !.done = s.ret]
  <2>5. /\ Goes(t, C) /\ C.at = call[t].at /\ C.op = call[t].op /\ C.done = s.ret
        /\ C.ret = call[t].ret
    BY <1>1, <1>4, <2>1, <2>2 DEF CallType
  <2> HIDE DEF C
  <2>6. View(call[t]).phase = "asked" /\ View(call[t]).ret = call[t].ret
        /\ Views[t] = View(call[t]) /\ View(C).op = View(call[t]).op
    <3>1. View(call[t]).phase = "asked" /\ View(call[t]).ret = call[t].ret
      BY <2>2, <2>3 DEF View
    <3>2. View(C).op = View(call[t]).op
      BY <2>2, <2>5 DEF View
    <3> QED BY <3>1, <3>2, PhasesAre
  <2>7. /\ View(C).phase = "performed"
        /\ View(C).ret = IF s.ret < 0 THEN s.ret ELSE call[t].ret + s.ret
    BY <2>2, <2>4, <2>5 DEF View
  <2>8. Phased(t, "performed", IF s.ret < 0 THEN s.ret ELSE Views[t].ret + s.ret)
    BY <2>5, <2>6, <2>7, PhasedIs
  <2>9. RC!Perform(t)
    BY <1>2, <2>4, <2>6, <2>8, RCSteps
  <2> QED BY <2>9, RCIs DEF RCStep
<1> QED BY <1>3, <1>4

LEMMA OthersMap ==
    ASSUME IInv, ServerStarts \/ ServerInstalls \/ (\E c \in Conns : ServerAccepts(c))
                 \/ (\E c \in Conns : PcCloses(c) \/ LinkLost(c))
    PROVE  RCStep
<1>0. link \in [Conns -> {"none", "open", "shut", "lost", "closed"}]
  BY DEF IInv, TypeOK
<1>1. UNCHANGED Views
  BY DEF ServerStarts, ServerInstalls, ServerAccepts, PcCloses, LinkLost, driver, Views, View
<1>2. CASE ServerStarts \/ ServerInstalls
  BY <1>1, <1>2, LinkKept DEF ServerStarts, ServerInstalls, pc, RCStep
<1>3. ASSUME NEW c \in Conns, PcCloses(c) \/ LinkLost(c) PROVE RCStep
  <2>1. link'[c] \in {"shut", "lost"}
    BY <1>0, <1>3 DEF PcCloses, LinkLost
  <2>2. Broken' = TRUE
    BY <2>1 DEF Broken
  <2> QED BY <1>1, <2>2, RCIs DEF RCStep
<1>4. ASSUME NEW c \in Conns, ServerAccepts(c) PROVE RCStep
  <2>1. /\ link[c] = "none"
        /\ link' = [b \in Conns |-> IF b = c THEN "open"
                                    ELSE IF b = sock THEN "closed" ELSE link[b]]
    BY <1>4 DEF ServerAccepts
  <2>2. sock # c
    BY <2>1 DEF IInv, FreshSound, Untouched
  <2>3. CASE sock \in Conns
    <3>1. link'[sock] = "closed"
      BY <2>1, <2>2, <2>3
    <3>2. Broken' = TRUE
      BY <2>3, <3>1 DEF Broken
    <3> QED BY <1>1, <3>2, RCIs DEF RCStep
  <2>4. CASE sock \notin Conns
    <3>1. \A b \in Conns : link'[b] \in {"lost", "shut", "closed"}
                           <=> link[b] \in {"lost", "shut", "closed"}
      BY <2>1, <2>4
    <3>2. UNCHANGED Broken
      BY <3>1 DEF Broken
    <3> QED BY <1>1, <3>2 DEF RCStep
  <2> QED BY <2>3, <2>4
<1> QED BY <1>2, <1>3, <1>4

\* What the threads see of the driver is what RemoteCalls allows them to see: a call is
\* performed once, its answer is its own, and only a connection that has failed has one
\* call answered with the reply to another.
THEOREM DriverImplements == Spec => Implements
<1>1. Init => RC!RCInit
  <2> SUFFICES ASSUME Init PROVE RC!RCInit
    OBVIOUS
  <2>1. \A t \in Threads : Seen(t) = RC!Idle
    BY NoCallIs, RCIs DEF Init, Seen
  <2>2. ~ Broken
    BY DEF Init, Broken
  <2> QED BY <2>1, <2>2 DEF RC!RCInit, Broken
<1>2. IInv /\ [Next]_vars => [RC!RCNext]_(RC!rcVars)
  <2>0. UNCHANGED <<Views, Broken>> => UNCHANGED RC!rcVars
    BY DEF RC!rcVars, Views, Broken, Seen, View
  <2> SUFFICES ASSUME IInv, [Next]_vars PROVE RCStep
    BY <2>0 DEF RCStep
  <2>1. CASE UNCHANGED vars
    BY <2>1, LinkKept DEF vars, driver, pc, RCStep, Views, View
  <2>2. ASSUME NEW t \in Threads, Enters(t) PROVE RCStep
    BY <2>2, EnterMaps
  <2>3. ASSUME NEW t \in Threads, GoesOn(t) PROVE RCStep
    BY <2>3, GoesOnMaps
  <2>4. CASE \E c \in Conns : ServerAccepts(c)
    BY <2>4, OthersMap
  <2>5. CASE ServerStarts \/ ServerInstalls \/ Pc
    BY <2>5, OthersMap, ServeMaps DEF Pc
  <2> QED BY <2>1, <2>2, <2>3, <2>4, <2>5 DEF Next
<1> QED BY <1>1, <1>2, HostAlwaysSound, PTL DEF Spec, Implements, RC!RCSpec


-----------------------------------------------------------------------------
(***************************************************************************)
(* The inductive invariant of removals and of descriptors.                 *)
(***************************************************************************)
Opening == {"open", "creat", "dopen"}
Shutting == {"close", "dclose"}
OnFile == FileOps \cup DirOps

\* Between a removal and the mkdir the I/O manager makes of it.
Removing(t, p) == p.at = "again" \/ (t \notin Direct /\ p.op = "remove")

\* The mkdir of a removal finds it noted, and asks nothing of the PC.
RemovalsSound ==
    /\ \A t \in Threads : Removing(t, call[t]) => flags.remove_flag
    /\ \A t \in Threads : call[t].made => call[t].at = "post"
    /\ \A c \in Conns : \A i \in DOMAIN requests[c] : ~ requests[c][i].made
    /\ \A n \in Names : disk[n] # "ghost"

\* What call p of a thread says of the file f the thread has open.
FileOK(p, f) ==
    /\ f.kind = "none" => ~ f.renamed
    /\ f.kind # "none" => f.fd >= 0
    /\ p.op \in Opening => f.kind = "none"
    /\ p.op \in OnFile => f.kind # "none"
    /\ p.op = "ioctl" => ~ f.renamed
    /\ p.op \in OnFile /\ p.at \in Asking => p.fd = f.fd

FilesSound == \A t \in Threads : FileOK(call[t], file[t])

\* A file is used on its own connection, and closed at the PC unless it was renamed last,
\* whose descriptor is ren.
UseOK(p, f, ren) ==
    p.op \in OnFile =>
        /\ p.conn # NoSock => f.conn = p.conn
        /\ p.op = "ioctl" /\ p.at = "post" /\ p.conn = NoSock => p.ret = -1
        /\ p.op \in Shutting /\ p.at \in Asking => f.fd # ren

UsesSound == \A t \in Threads : UseOK(call[t], file[t], flags.renamed_fd)

RequestsSound ==
    \A c \in Conns, t \in Threads :
        Waiting(call[t], c) /\ requests[c] # <<>> => requests[c][1].fd = call[t].fd

\* A thread between an ioctl and the close of the file is alone in the driver, and
\* renamed_fd is the descriptor of a file that has still to be closed.
Renaming(p, f) == p.op = "ioctl" \/ f.renamed

RenameAlone ==
    \A t \in Threads : Renaming(call[t], file[t]) =>
        \A u \in Threads \ {t} : call[u].at = "idle" /\ ~ Renaming(call[u], file[u])

RenamedOpen ==
    flags.renamed_fd \in Fds =>
        \E t \in Threads : file[t].renamed /\ file[t].fd = flags.renamed_fd

AtPc(t, c) == {d \in Fds : opened[c][d] = t}
Has(f, c) == {d \in {f.fd} : f.kind # "none" /\ f.conn = c}
LeftOf(f, c, ren) == IF f.renamed /\ ren = f.fd THEN {} ELSE Has(f, c)

\* Whether the PC has answered call p on connection c, and what.
Told(p, c) == p.conn = c /\ (p.at = "post" \/ (p.at \in {"await", "recv"} /\ p.done # Undone))
Answer(p) == IF p.at = "post" THEN p.ret ELSE p.done

\* The descriptors a thread has at the PC, at each stage of its call.
Held(p, f, c, ren) ==
    IF p.op \in Opening THEN IF Told(p, c) /\ Answer(p) >= 0 THEN {Answer(p)} ELSE {}
    ELSE IF p.op \in Shutting THEN IF p.at = "post" \/ Told(p, c) THEN {} ELSE LeftOf(f, c, ren)
    ELSE IF p.op = "ioctl"
         THEN IF Told(p, c) /\ Answer(p) \in {0, Renamed} THEN {} ELSE Has(f, c)
    ELSE LeftOf(f, c, ren)

DescriptorsSound ==
    \A c \in Conns, t \in Threads :
        Live(c) => AtPc(t, c) = Held(call[t], file[t], c, flags.renamed_fd)

UseInv ==
    /\ FilesSound
    /\ Fine => /\ RemovalsSound /\ UsesSound /\ RequestsSound
               /\ RenameAlone /\ RenamedOpen /\ DescriptorsSound

-----------------------------------------------------------------------------
(* What the steps leave as it is.                                          *)

LEMMA MishapsStay ==
    ASSUME IInv, [Next]_vars
    PROVE  Fine' => Fine
<1>1. CASE UNCHANGED vars
  BY <1>1 DEF vars, Fine
<1>2. ASSUME NEW t \in Threads, Enters(t) PROVE Fine' => Fine
  BY <1>2, EntersAre DEF Entrance, Dummy, Fine
<1>3. ASSUME NEW t \in Threads, GoesOn(t) PROVE Fine' => Fine
  <2>1. CASE Looks(t) \/ AwaitsData(t)
    BY <2>1 DEF Looks, AwaitsData, Fine
  <2>2. CASE ~ Looks(t) /\ ~ AwaitsData(t)
    <3>1. UNCHANGED mishaps
      BY <1>3, <2>2 DEF GoesOn, Sends, SendFails, ClosesSocket, ClearsSocket, Awaits,
         Receives, ReceivesCount, ReceivesData, HeaderFails, RestFails, Spins, Returns, vars
    <3> QED BY <3>1 DEF Fine
  <2> QED BY <2>1, <2>2
<1>4. CASE (\E c \in Conns : ServerAccepts(c)) \/ ServerStarts \/ ServerInstalls \/ Pc
  BY <1>4 DEF ServerAccepts, ServerStarts, ServerInstalls, Pc, PcServes, PcCloses, LinkLost, Fine
<1> QED BY <1>1, <1>2, <1>3, <1>4 DEF Next

\* What a step of a call keeps of it.
SameCall(p, C) ==
    C.op = p.op /\ C.made = p.made /\ C.fd = p.fd /\ C.name = p.name

LEMMA OnIs ==
    ASSUME IInv, NEW t \in Threads, GoesOn(t), ~ Spins(t), ~ Returns(t)
    PROVE  /\ call[t].at \in Asking /\ call'[t].at \in Asking \cup {"post"}
           /\ SameCall(call[t], call'[t])
           /\ \A u \in Threads \ {t} : call'[u] = call[u]
           /\ UNCHANGED <<server, file, flags, opened, disk>>
           /\ UNCHANGED requests \/ Sends(t)
<1>0. call \in [Threads -> CallType] /\ call[t] \in CallType
  BY TypesAre DEF IInv
<1> DEFINE OK == /\ call'[t].at \in Asking \cup {"post"} /\ SameCall(call[t], call'[t])
                 /\ \A u \in Threads \ {t} : call'[u] = call[u]
<1>1. ASSUME NEW res, Result(t, res) PROVE OK
  BY <1>0, <1>1 DEF Result, Set, SameCall, CallType
<1>2. ASSUME NEW res, Answered(t, res) PROVE OK
  <2>1. CASE \E n : Result(t, n)
    BY <1>1, <2>1
  <2>2. CASE ~ \E n : Result(t, n)
    <3>1. PICK total, left :
             call' = [call EXCEPT ![t] = [call[t] EXCEPT !.at = "send", !.ret = total,
                                                         !.left = left, !.done = Undone]]
      BY <1>2, <2>2 DEF Answered, Stays, Set
    <3> QED BY <1>0, <3>1 DEF SameCall, CallType, Asking
  <2> QED BY <2>1, <2>2
<1>3. ASSUME NEW stage \in Asking,
             call' = [call EXCEPT ![t] = [call[t] EXCEPT !.at = stage]]
      PROVE  OK
  BY <1>0, <1>3 DEF SameCall, CallType
<1>4. ASSUME NEW stage \in Asking,
             call' = [call EXCEPT ![t] = [call[t] EXCEPT !.at = stage, !.conn = sock]]
      PROVE  OK
  BY <1>0, <1>4 DEF SameCall, CallType
<1>14. ASSUME NEW n, Counted(t, n) PROVE OK
  BY <1>1, <1>3, <1>14 DEF Counted, Stays, Set, Asking, Exchanging
<1> HIDE DEF OK
<1>5. CASE Looks(t)
  <2>1. OK
    BY <1>1, <1>4, <1>5 DEF Looks, Stays, Set, Asking, Exchanging
  <2> QED BY <1>5, <2>1 DEF Looks, pc, OK, Asking
<1>6. CASE Sends(t)
  <2>1. OK
    BY <1>3, <1>6 DEF Sends, Stays, Set, Asking, Exchanging
  <2> QED BY <1>6, <2>1 DEF Sends, OK, Asking, Exchanging
<1>7. CASE SendFails(t)
  <2>1. OK
    BY <1>1, <1>3, <1>7 DEF SendFails, Stays, Set, Asking, Exchanging
  <2> QED BY <1>7, <2>1 DEF SendFails, pc, OK, Asking, Exchanging
<1>8. CASE ClosesSocket(t)
  <2>1. OK
    BY <1>3, <1>8 DEF ClosesSocket, Stays, Set, Asking, Exchanging
  <2> QED BY <1>8, <2>1 DEF ClosesSocket, OK, Asking, Exchanging
<1>9. CASE ClearsSocket(t)
  <2>1. OK
    BY <1>1, <1>9 DEF ClearsSocket
  <2> QED BY <1>9, <2>1 DEF ClearsSocket, pc, OK, Asking, Exchanging
<1>10. CASE Awaits(t)
  <2>1. OK
    BY <1>4, <1>10 DEF Awaits, Stays, Set, Asking, Exchanging
  <2> QED BY <1>10, <2>1 DEF Awaits, pc, OK, Asking, Exchanging
<1>11. CASE Receives(t)
  <2>1. OK
    BY <1>2, <1>11 DEF Receives
  <2> QED BY <1>11, <2>1 DEF Receives, OK, Asking, Exchanging
<1>12. CASE HeaderFails(t)
  <2>1. OK
    BY <1>2, <1>12, <1>14 DEF HeaderFails
  <2> QED BY <1>12, <2>1 DEF HeaderFails, CannotReceive, pc, OK, Asking, Exchanging
<1>13. CASE RestFails(t)
  <2>1. OK
    BY <1>1, <1>13 DEF RestFails
  <2> QED BY <1>13, <2>1 DEF RestFails, CannotReceive, pc, OK, Asking, Exchanging
<1>15. CASE ReceivesCount(t)
  <2>1. OK
    BY <1>14, <1>15 DEF ReceivesCount
  <2> QED BY <1>15, <2>1 DEF ReceivesCount, OK, Asking, Exchanging
<1>16. CASE AwaitsData(t)
  <2>1. OK
    BY <1>4, <1>16 DEF AwaitsData, Stays, Set, Asking, Exchanging
  <2> QED BY <1>16, <2>1 DEF AwaitsData, pc, OK, Asking, Exchanging
<1>17. CASE ReceivesData(t)
  <2>1. OK
    BY <1>1, <1>17 DEF ReceivesData
  <2> QED BY <1>17, <2>1 DEF ReceivesData, OK, Asking, Exchanging
<1> QED BY <1>5, <1>6, <1>7, <1>8, <1>9, <1>10, <1>11, <1>12, <1>13, <1>15, <1>16, <1>17
        DEF GoesOn


\* A thread that enters crosses no removal and no rename of another.
LEMMA EnterAlone ==
    ASSUME NEW t \in Threads, NEW op, Fine',
           mishaps' = mishaps \cup (IF Crosses(t, op) THEN {"crossed"} ELSE {})
    PROVE  \A u \in Threads \ {t} :
              /\ ~ Removing(u, call[u]) /\ ~ call[u].made /\ ~ Renaming(call[u], file[u])
              /\ op \in {"remove", "ioctl"} => call[u].at = "idle"
BY DEF Fine, Crosses, Between, Removing, Renaming

-----------------------------------------------------------------------------
(***************************************************************************)
(* Removals.                                                               *)
(***************************************************************************)
LEMMA RemovalsStep ==
    ASSUME IInv, [Next]_vars, Fine, Fine', RemovalsSound
    PROVE  RemovalsSound'
<1>1. CASE UNCHANGED vars
  BY <1>1 DEF RemovalsSound, Removing, vars, driver, pc
<1>2. ASSUME NEW t \in Threads, Dummy(t) PROVE RemovalsSound'
  <2>1. /\ flags' = [flags EXCEPT !.remove_flag = FALSE] /\ UNCHANGED <<call, requests, disk>>
        /\ call[t].at = "idle"
        /\ mishaps' = mishaps \cup (IF Crosses(t, "stat") THEN {"crossed"} ELSE {})
    BY <1>2 DEF Dummy, Unflagged, Rest, pc
  <2>2. call[t].op = "none"
    BY <2>1, NoCallIs DEF IInv, CallsSound, CallOK
  <2>3. \A u \in Threads : ~ Removing(u, call[u])
    BY <2>1, <2>2, EnterAlone DEF Removing
  <2> QED BY <2>1, <2>3 DEF RemovalsSound, Removing
<1>3. ASSUME NEW t \in Threads, NEW C, Entrance(t, C) PROVE RemovalsSound'
  <2>1. /\ Goes(t, C) /\ C.at \in {"send", "post"}
        /\ C.made <=> call[t].at = "again"
        /\ C.made /\ C.at = "send" => ~ flags.remove_flag
        /\ flags' = [flags EXCEPT !.remove_flag = (C.op = "remove")]
        /\ UNCHANGED <<requests, disk>>
        /\ mishaps' = mishaps \cup (IF Crosses(t, C.op) THEN {"crossed"} ELSE {})
    BY <1>3 DEF Entrance, Entered, pc
  <2>2. call'[t] = C /\ \A u \in Threads \ {t} : call'[u] = call[u]
    BY <2>1, GoesTo
  <2>3. \A u \in Threads \ {t} : ~ Removing(u, call[u]) /\ ~ call[u].made
    BY <2>1, EnterAlone
  <2>4. Removing(t, C) => flags'.remove_flag
    BY <2>1, FlagsAre DEF Removing
  <2>5. C.made => C.at = "post"
    BY <2>1 DEF RemovalsSound, Removing
  <2>6. \A u \in Threads : Removing(u, call'[u]) => flags'.remove_flag
    BY <2>2, <2>3, <2>4
  <2>7. \A u \in Threads : call'[u].made => call'[u].at = "post"
    BY <2>2, <2>3, <2>5
  <2> QED BY <2>1, <2>6, <2>7 DEF RemovalsSound, Removing
<1>4. ASSUME NEW t \in Threads, GoesOn(t), ~ Spins(t), ~ Returns(t) PROVE RemovalsSound'
  <2>1. /\ call[t].at \in Asking /\ call'[t].at \in Asking \cup {"post"}
        /\ SameCall(call[t], call'[t])
        /\ \A u \in Threads \ {t} : call'[u] = call[u]
        /\ UNCHANGED <<flags, disk>>
        /\ UNCHANGED requests \/ Sends(t)
    BY <1>4, OnIs
  <2>2. ~ call[t].made
    BY <2>1 DEF RemovalsSound, Asking, Exchanging
  <2>3. \A u \in Threads : Removing(u, call'[u]) => Removing(u, call[u])
    BY <2>1 DEF Removing, SameCall, Asking, Exchanging
  <2>4. \A u \in Threads : call'[u].made => call'[u].at = "post"
    BY <2>1, <2>2 DEF RemovalsSound, SameCall
  <2>5. ASSUME NEW c \in Conns, NEW i \in DOMAIN requests'[c] PROVE ~ requests'[c][i].made
    <3>1. CASE UNCHANGED requests
      BY <2>5, <3>1 DEF RemovalsSound
    <3>2. CASE requests' # requests
      <4>1. requests' = [requests EXCEPT ![call[t].conn] = Append(@, Request(t))]
        BY <2>1, <3>2 DEF Sends
      <4>2. requests \in [Conns -> Seq(Message)] /\ ~ Request(t).made
        BY <2>2, TypesAre DEF IInv, Request
      <4>3. CASE c = call[t].conn
        <5>1. requests'[c] = Append(requests[c], Request(t))
          BY <4>1, <4>2, <4>3
        <5>2. requests[c] \in Seq(Message)
          BY <4>2
        <5> DEFINE q == Request(t)
        <5> HIDE DEF q
        <5>3. requests'[c] = Append(requests[c], q) /\ ~ q.made
          BY <4>2, <5>1 DEF q
        <5>4. i \in 1 .. Len(requests[c]) + 1
          BY <2>5, <5>2, <5>3
        <5>5. CASE i = Len(requests[c]) + 1
          BY <5>2, <5>3, <5>5
        <5>6. CASE i \in 1 .. Len(requests[c])
          <6>1. requests'[c][i] = requests[c][i] /\ i \in DOMAIN requests[c]
            BY <5>2, <5>3, <5>6
          <6> QED BY <6>1 DEF RemovalsSound
        <5>7. Len(requests[c]) \in Nat
          BY <5>2, LenProperties
        <5> QED BY <5>4, <5>5, <5>6, <5>7
      <4>4. CASE c # call[t].conn
        BY <2>5, <4>1, <4>2, <4>4 DEF RemovalsSound
      <4> QED BY <4>3, <4>4
    <3> QED BY <3>1, <3>2
  <2> QED BY <2>1, <2>3, <2>4, <2>5 DEF RemovalsSound, Removing
<1>5. ASSUME NEW t \in Threads, Returns(t) PROVE RemovalsSound'
  <2>1. /\ call[t].at = "post" /\ flags' = Assigned(t) /\ UNCHANGED <<requests, disk>>
    BY <1>5 DEF Returns, pc
  <2> DEFINE again == [NoCall EXCEPT !.at = "again", !.name = call[t].name]
  <2>2. again.at = "again" /\ again.op = "none" /\ ~ again.made
    BY NoCallIs DEF NoCall
  <2>3. PICK C : /\ call' = [call EXCEPT ![t] = C]
                 /\ C = NoCall \/ (C = again /\ call[t].op = "remove" /\ t \notin Direct)
    BY <1>5 DEF Returns, Set
  <2> HIDE DEF again
  <2>4. call'[t] = C /\ \A u \in Threads \ {t} : call'[u] = call[u]
    BY <2>3, TypesAre DEF IInv
  <2>5. ~ C.made /\ (Removing(t, C) => Removing(t, call[t]))
    BY <2>2, <2>3, NoCallIs DEF Removing
  <2>6. flags'.remove_flag = flags.remove_flag
    BY <2>1, AssignedIs
  <2> QED BY <2>1, <2>4, <2>5, <2>6 DEF RemovalsSound, Removing
<1>6. CASE (\E c \in Conns : ServerAccepts(c)) \/ ServerStarts \/ ServerInstalls
  <2>1. UNCHANGED <<flags, call, requests, disk>>
    BY <1>6 DEF ServerAccepts, ServerStarts, ServerInstalls, pc
  <2> QED BY <2>1 DEF RemovalsSound, Removing
<1>7. ASSUME NEW c \in Conns, PcCloses(c) \/ LinkLost(c) PROVE RemovalsSound'
  <2>1. UNCHANGED <<flags, call, disk>> /\ requests' = [requests EXCEPT ![c] = <<>>]
    BY <1>7 DEF PcCloses, LinkLost, driver
  <2>2. \A b \in Conns : requests'[b] = requests[b] \/ requests'[b] = <<>>
    BY <2>1, TypesAre DEF IInv
  <2>3. DOMAIN <<>> = {}
    OBVIOUS
  <2>4. \A b \in Conns : \A i \in DOMAIN requests'[b] : ~ requests'[b][i].made
    BY <2>2, <2>3 DEF RemovalsSound
  <2> QED BY <2>1, <2>4 DEF RemovalsSound, Removing
<1>8. ASSUME NEW c \in Conns, PcServes(c) PROVE RemovalsSound'
  <2>1. PICK q, s :
           /\ q \in Message
           /\ requests[c] # <<>> /\ q = requests[c][1] /\ ServedOK(c, q, s)
           /\ requests' = [requests EXCEPT ![c] = Tail(@)]
           /\ disk' = s.disk
           /\ IF StillAsked(c, q)
              THEN Goes(q.by, [call[q.by] EXCEPT !.done = s.ret])
              ELSE call' = call
           /\ UNCHANGED flags
    BY <1>8, ServesIs
  <2>2. requests \in [Conns -> Seq(Message)] /\ call \in [Threads -> CallType] /\ q.by \in Threads
    BY <2>1, TypesAre DEF IInv, Message
  <2>3. requests[c] \in Seq(Message) /\ Len(requests[c]) \in Nat /\ Len(requests[c]) # 0
    BY <2>1, <2>2, LenProperties, EmptySeq
  <2>4. ~ q.made
    BY <2>1, <2>3 DEF RemovalsSound
  <2>5. \A n \in Names : disk'[n] # "ghost"
    BY <2>1, <2>4 DEF ServedOK, RemovalsSound
  <2>6. \A u \in Threads : /\ call'[u].op = call[u].op /\ call'[u].at = call[u].at
                           /\ call'[u].made = call[u].made
    <3>1. CASE StillAsked(c, q)
      <4>1. /\ call'[q.by] = [call[q.by] EXCEPT !.done = s.ret]
            /\ \A u \in Threads \ {q.by} : call'[u] = call[u]
        BY <2>1, <2>2, <3>1, GoesTo
      <4>2. call[q.by] \in CallType
        BY <2>2
      <4>3. /\ call'[q.by].op = call[q.by].op /\ call'[q.by].at = call[q.by].at
            /\ call'[q.by].made = call[q.by].made
        BY <4>1, <4>2 DEF CallType
      <4> QED BY <4>1, <4>3
    <3>2. CASE ~ StillAsked(c, q)
      BY <2>1, <3>2
    <3> QED BY <3>1, <3>2
  <2>7. ASSUME NEW b \in Conns, NEW i \in DOMAIN requests'[b] PROVE ~ requests'[b][i].made
    <3>1. CASE b = c
      <4>1. PICK rest : rest = Tail(requests[c])
        OBVIOUS
      <4>2. requests'[b] = rest /\ i \in DOMAIN rest
        BY <2>1, <2>2, <2>7, <3>1, <4>1
      <4>3. /\ rest \in Seq(Message) /\ Len(rest) = Len(requests[c]) - 1
            /\ \A k \in 1 .. Len(rest) : rest[k] = requests[c][k + 1]
        BY <2>1, <2>3, <4>1, HeadTailProperties
      <4>4. DOMAIN rest = 1 .. Len(rest)
        BY <4>3, LenProperties
      <4>5. i \in 1 .. Len(requests[c]) - 1 /\ requests'[b][i] = requests[c][i + 1]
        BY <4>2, <4>3, <4>4
      <4>6. i + 1 \in DOMAIN requests[c]
        BY <2>3, <4>5
      <4> QED BY <4>5, <4>6 DEF RemovalsSound
    <3>2. CASE b # c
      BY <2>1, <2>2, <2>7, <3>2 DEF RemovalsSound
    <3> QED BY <3>1, <3>2
  <2> QED BY <2>1, <2>5, <2>6, <2>7 DEF RemovalsSound, Removing
<1> QED BY <1>1, <1>2, <1>3, <1>4, <1>5, <1>6, <1>7, <1>8, EntersAre DEF Next, Pc, Spins


-----------------------------------------------------------------------------
(***************************************************************************)
(* Files and renames.                                                      *)
(***************************************************************************)
LEMMA KindsApart ==
    /\ Opening \cap OnFile = {} /\ Shutting \subseteq OnFile /\ "ioctl" \in OnFile
    /\ "ioctl" \notin Shutting /\ "none" \notin Opening \cup OnFile /\ "write" \notin Opening \cup Shutting
    /\ "remove" \notin OnFile /\ "read" \notin Opening \cup Shutting
BY DEF Opening, Shutting, OnFile, FileOps, DirOps

\* A call that waits for the semaphore, or was answered at once.
LEMMA EnteredIs ==
    ASSUME IInv, NEW t \in Threads, NEW C, Entrance(t, C)
    PROVE  /\ call'[t] = C /\ \A u \in Threads \ {t} : call'[u] = call[u]
           /\ call[t].at \in {"idle", "again"}
           /\ call[t].op = "none"
           /\ C.at \in {"send", "post"} /\ C.conn = NoSock /\ C.done = Undone
           /\ C.op \in Opening => file[t].kind = "none"
           /\ C.op \in OnFile => file[t].kind # "none" /\ (C.at = "send" => C.fd = file[t].fd)
           /\ C.op \in Shutting => (C.at = "post" <=> file[t].fd = flags.renamed_fd)
           /\ C.op = "ioctl" => ~ file[t].renamed /\ (C.at = "post" => C.ret = -1)
           /\ flags'.renamed_fd = flags.renamed_fd
           /\ UNCHANGED <<sock, file, link, requests, opened>>
<1>1. /\ Goes(t, C) /\ Entered(t, C) /\ call[t].at \in {"idle", "again"}
      /\ flags' = [flags EXCEPT !.remove_flag = (C.op = "remove")]
      /\ UNCHANGED <<sock, file, link, requests, opened>>
  BY DEF Entrance, pc
<1>2. call[t].op = "none"
  BY <1>1, NoCallIs DEF IInv, CallsSound, CallOK
<1>3. call'[t] = C /\ \A u \in Threads \ {t} : call'[u] = call[u]
  BY <1>1, GoesTo
<1>4. flags'.renamed_fd = flags.renamed_fd
  BY <1>1, FlagsAre
<1> QED BY <1>1, <1>2, <1>3, <1>4 DEF Entrance, Entered, Opening, Shutting, OnFile

\* What a function leaves of its call.
LEMMA ReturnedIs ==
    ASSUME IInv, NEW t \in Threads, Returns(t)
    PROVE  /\ call[t].at = "post"
           /\ \A u \in Threads \ {t} : call'[u] = call[u] /\ file'[u] = file[u]
           /\ call'[t].op = "none" /\ call'[t].at \in {"idle", "again"} /\ call'[t].conn = NoSock
           /\ file'[t] = FileAfter(t) /\ flags' = Assigned(t)
           /\ UNCHANGED <<sock, link, requests, opened>>
<1> DEFINE again == [NoCall EXCEPT !.at = "again", !.name = call[t].name]
<1>1. again.at = "again" /\ again.op = "none" /\ again.conn = NoSock
  BY NoCallIs DEF NoCall
<1>2. PICK C \in {NoCall, again} : call' = [call EXCEPT ![t] = C]
  BY DEF Returns, Set
<1> HIDE DEF again
<1>3. call'[t] = C /\ \A u \in Threads \ {t} : call'[u] = call[u]
  BY <1>2, TypesAre DEF IInv
<1>4. C.op = "none" /\ C.at \in {"idle", "again"} /\ C.conn = NoSock
  BY <1>1, <1>2, NoCallIs
<1>5. file'[t] = FileAfter(t) /\ \A u \in Threads \ {t} : file'[u] = file[u]
  BY TypesAre DEF IInv, Returns
<1> QED BY <1>3, <1>4, <1>5 DEF Returns, pc

\* What a function leaves in the file, by what it was called for.
LEMMA FileAfterIs ==
    ASSUME IInv, NEW t \in Threads
    PROVE  LET p == call[t]
               f == FileAfter(t)
           IN  /\ p.op \in Opening /\ p.ret >= 0 =>
                     f.kind # "none" /\ f.fd = p.ret /\ f.conn = p.conn /\ ~ f.renamed
               /\ p.op \in Opening /\ ~ (p.ret >= 0) => f = file[t]
               /\ p.op \in Shutting => f.kind = "none" /\ ~ f.renamed
               /\ p.op = "ioctl" =>
                     f.kind = file[t].kind /\ f.fd = file[t].fd /\ f.conn = file[t].conn /\ f.renamed
               /\ p.op \notin Opening \cup Shutting \cup {"ioctl"} => f = file[t]
<1>1. file[t] \in FileType
  BY FlagsAre
<1>2. call[t].op \in {"open", "creat"} /\ call[t].ret >= 0 =>
         FileAfter(t) = [kind |-> "file", fd |-> call[t].ret, conn |-> call[t].conn, renamed |-> FALSE]
  BY DEF FileAfter
<1>3. call[t].op = "dopen" /\ call[t].ret >= 0 =>
         FileAfter(t) = [kind |-> "dir", fd |-> call[t].ret, conn |-> call[t].conn, renamed |-> FALSE]
  BY DEF FileAfter
<1>4. call[t].op \in {"open", "creat", "dopen"} /\ ~ (call[t].ret >= 0) => FileAfter(t) = file[t]
  BY DEF FileAfter
<1>5. call[t].op \in {"close", "dclose"} => FileAfter(t) = NoFile
  BY DEF FileAfter
<1>6. call[t].op = "ioctl" => FileAfter(t) = [file[t] EXCEPT !.renamed = TRUE]
  BY DEF FileAfter
<1>7. call[t].op \notin {"open", "creat", "dopen", "close", "dclose", "ioctl"} =>
         FileAfter(t) = file[t]
  BY DEF FileAfter
<1>8. call[t].op \in Opening /\ call[t].ret >= 0 =>
         /\ FileAfter(t).kind # "none" /\ FileAfter(t).fd = call[t].ret
         /\ FileAfter(t).conn = call[t].conn /\ ~ FileAfter(t).renamed
  BY <1>2, <1>3 DEF Opening
<1>9. call[t].op = "ioctl" =>
         /\ FileAfter(t).kind = file[t].kind /\ FileAfter(t).fd = file[t].fd
         /\ FileAfter(t).conn = file[t].conn /\ FileAfter(t).renamed
  BY <1>1, <1>6 DEF FileType
<1> QED BY <1>4, <1>5, <1>7, <1>8, <1>9, NoCallIs DEF Opening, Shutting

\* The PC notes at most the answer to a call.
LEMMA PcKeeps ==
    ASSUME IInv, NEW c \in Conns, PcServes(c) \/ PcCloses(c) \/ LinkLost(c)
    PROVE  /\ \A u \in Threads : /\ SameCall(call[u], call'[u])
                                 /\ call'[u].at = call[u].at /\ call'[u].conn = call[u].conn
                                 /\ call'[u].ret = call[u].ret
                                 /\ call'[u] = call[u] \/ Waiting(call[u], c)
           /\ UNCHANGED <<sock, file, flags, mishaps>>
<1>0. call \in [Threads -> CallType]
  BY TypesAre DEF IInv
<1>1. CASE PcServes(c)
  <2>1. PICK q, s :
           /\ q \in Message
           /\ IF StillAsked(c, q)
              THEN Goes(q.by, [call[q.by] EXCEPT !.done = s.ret])
              ELSE call' = call
           /\ UNCHANGED <<sock, file, flags, mishaps>>
    BY <1>1, ServesIs
  <2>2. q.by \in Threads
    BY <2>1 DEF Message
  <2> QED BY <1>0, <2>1, <2>2 DEF Goes, CallType, SameCall, StillAsked, Waiting
<1>2. CASE PcCloses(c) \/ LinkLost(c)
  BY <1>2 DEF PcCloses, LinkLost, driver, SameCall
<1> QED BY <1>1, <1>2

LEMMA FilesStep ==
    ASSUME IInv, [Next]_vars, FilesSound
    PROVE  FilesSound'
<1>1. ASSUME UNCHANGED <<call, file>> PROVE FilesSound'
  BY <1>1 DEF FilesSound, FileOK
<1>2. CASE UNCHANGED vars
  BY <1>1, <1>2 DEF vars, driver
<1>3. ASSUME NEW t \in Threads, Dummy(t) PROVE FilesSound'
  BY <1>1, <1>3 DEF Dummy, Rest
<1>4. ASSUME NEW t \in Threads, NEW C, Entrance(t, C) PROVE FilesSound'
  <2>1. /\ call'[t] = C /\ \A u \in Threads \ {t} : call'[u] = call[u]
        /\ C.at \in {"send", "post"}
        /\ C.op \in Opening => file[t].kind = "none"
        /\ C.op \in OnFile => file[t].kind # "none" /\ (C.at = "send" => C.fd = file[t].fd)
        /\ C.op = "ioctl" => ~ file[t].renamed
        /\ UNCHANGED file
    BY <1>4, EnteredIs
  <2>2. FileOK(C, file[t])
    BY <2>1 DEF FilesSound, FileOK, Asking, Exchanging
  <2>3. \A u \in Threads : FileOK(call'[u], file[u])
    BY <2>1, <2>2 DEF FilesSound
  <2> QED BY <2>1, <2>3 DEF FilesSound, FileOK
<1>5. ASSUME NEW t \in Threads, GoesOn(t), ~ Spins(t), ~ Returns(t) PROVE FilesSound'
  <2>1. /\ call[t].at \in Asking /\ SameCall(call[t], call'[t])
        /\ \A u \in Threads \ {t} : call'[u] = call[u]
        /\ UNCHANGED file
    BY <1>5, OnIs
  <2>2. FileOK(call'[t], file[t])
    BY <2>1 DEF FilesSound, FileOK, SameCall
  <2>3. \A u \in Threads : FileOK(call'[u], file[u])
    BY <2>1, <2>2 DEF FilesSound
  <2> QED BY <2>1, <2>3 DEF FilesSound, FileOK
<1>6. ASSUME NEW t \in Threads, Returns(t) PROVE FilesSound'
  <2>1. /\ \A u \in Threads \ {t} : call'[u] = call[u] /\ file'[u] = file[u]
        /\ call'[t].op = "none" /\ file'[t] = FileAfter(t)
    BY <1>6, ReturnedIs
  <2>2. FileOK(call[t], file[t])
    BY DEF FilesSound
  <2> DEFINE f == FileAfter(t)
  <2>3. (f.kind = "none" => ~ f.renamed) /\ (f.kind # "none" => f.fd >= 0)
    <3>1. CASE call[t].op \in Opening /\ call[t].ret >= 0
      BY <3>1, FileAfterIs
    <3>2. CASE call[t].op \in Shutting
      BY <3>2, FileAfterIs
    <3>3. CASE call[t].op = "ioctl"
      BY <2>2, <3>3, FileAfterIs, KindsApart DEF FileOK
    <3>4. CASE f = file[t]
      BY <2>2, <3>4 DEF FileOK
    <3> QED BY <3>1, <3>2, <3>3, <3>4, FileAfterIs
  <2>4. FileOK(call[t], file[t])'
    BY <2>1, <2>3, KindsApart DEF FileOK
  <2>5. \A u \in Threads \ {t} : FileOK(call[u], file[u])'
    BY <2>1 DEF FilesSound, FileOK
  <2> QED BY <2>4, <2>5 DEF FilesSound
<1>7. ASSUME NEW c \in Conns, PcServes(c) \/ PcCloses(c) \/ LinkLost(c) PROVE FilesSound'
  <2>1. /\ \A u \in Threads : SameCall(call[u], call'[u]) /\ call'[u].at = call[u].at
        /\ UNCHANGED file
    BY <1>7, PcKeeps
  <2>2. \A u \in Threads : FileOK(call'[u], file[u])
    BY <2>1 DEF FilesSound, FileOK, SameCall
  <2> QED BY <2>1, <2>2 DEF FilesSound, FileOK
<1>8. CASE (\E c \in Conns : ServerAccepts(c)) \/ ServerStarts \/ ServerInstalls
  BY <1>1, <1>8 DEF ServerAccepts, ServerStarts, ServerInstalls
<1> QED BY <1>2, <1>3, <1>4, <1>5, <1>6, <1>7, <1>8, EntersAre DEF Next, Pc, Spins


LEMMA RenamedAfter ==
    ASSUME IInv, NEW t \in Threads
    PROVE  /\ call[t].op \in Opening \cup Shutting => Assigned(t).renamed_fd = -1
           /\ call[t].op = "ioctl" /\ call[t].ret \in {0, Renamed} =>
                 Assigned(t).renamed_fd = file[t].fd
           /\ call[t].op = "ioctl" /\ call[t].ret \notin {0, Renamed} =>
                 Assigned(t).renamed_fd = flags.renamed_fd
           /\ call[t].op \notin Opening \cup Shutting \cup {"ioctl"} =>
                 Assigned(t).renamed_fd = flags.renamed_fd
<1>1. call[t].op \in {"open", "creat", "dopen"} => Assigned(t).renamed_fd = -1
  BY FlagsAre DEF Assigned
<1>2. call[t].op \in {"close", "dclose"} => Assigned(t).renamed_fd = -1
  BY FlagsAre DEF Assigned
<1>3. call[t].op = "ioctl" /\ call[t].ret \in {0, Renamed} => Assigned(t).renamed_fd = file[t].fd
  BY FlagsAre DEF Assigned
<1>4. call[t].op = "ioctl" /\ call[t].ret \notin {0, Renamed} =>
         Assigned(t).renamed_fd = flags.renamed_fd
  BY FlagsAre DEF Assigned
<1>5. call[t].op \notin {"open", "creat", "dopen", "close", "dclose", "ioctl"} =>
         Assigned(t).renamed_fd = flags.renamed_fd
  BY FlagsAre DEF Assigned
<1> QED BY <1>1, <1>2, <1>3, <1>4, <1>5 DEF Opening, Shutting

LEMMA RenameStep ==
    ASSUME IInv, [Next]_vars, Fine, Fine', FilesSound, RenameAlone, RenamedOpen
    PROVE  RenameAlone' /\ RenamedOpen'
<1>1. ASSUME UNCHANGED <<call, file>>, flags'.renamed_fd = flags.renamed_fd
      PROVE  RenameAlone' /\ RenamedOpen'
  BY <1>1 DEF RenameAlone, RenamedOpen, Renaming
<1>2. CASE UNCHANGED vars
  BY <1>1, <1>2 DEF vars, driver
<1>3. ASSUME NEW t \in Threads, Dummy(t) PROVE RenameAlone' /\ RenamedOpen'
  BY <1>1, <1>3, FlagsAre DEF Dummy, Rest, Unflagged
<1>4. ASSUME NEW t \in Threads, NEW C, Entrance(t, C) PROVE RenameAlone' /\ RenamedOpen'
  <2>1. /\ call'[t] = C /\ \A u \in Threads \ {t} : call'[u] = call[u]
        /\ flags'.renamed_fd = flags.renamed_fd
        /\ UNCHANGED file
    BY <1>4, EnteredIs
  <2>2. \A u \in Threads \ {t} :
           /\ ~ Renaming(call[u], file[u])
           /\ C.op = "ioctl" => call[u].at = "idle"
    BY <1>4, EnterAlone DEF Entrance
  <2>3. ASSUME NEW u \in Threads, Renaming(call'[u], file[u]), NEW v \in Threads \ {u}
        PROVE  call'[v].at = "idle" /\ ~ Renaming(call'[v], file[v])
    <3>1. u = t
      BY <2>1, <2>2, <2>3
    <3>2. CASE C.op = "ioctl"
      BY <2>1, <2>2, <3>1, <3>2
    <3>3. CASE C.op # "ioctl"
      <4>1. Renaming(call[t], file[t])
        BY <2>1, <2>3, <3>1, <3>3 DEF Renaming
      <4> QED BY <2>1, <3>1, <4>1 DEF RenameAlone
    <3> QED BY <3>2, <3>3
  <2>4. RenameAlone'
    BY <2>1, <2>3 DEF RenameAlone, Renaming
  <2> QED BY <2>1, <2>4 DEF RenamedOpen
<1>5. ASSUME NEW t \in Threads, GoesOn(t), ~ Spins(t), ~ Returns(t)
      PROVE  RenameAlone' /\ RenamedOpen'
  <2>1. /\ call[t].at \in Asking /\ SameCall(call[t], call'[t])
        /\ \A u \in Threads \ {t} : call'[u] = call[u]
        /\ UNCHANGED <<file, flags>>
    BY <1>5, OnIs
  <2>2. \A u \in Threads : Renaming(call'[u], file[u]) <=> Renaming(call[u], file[u])
    BY <2>1 DEF Renaming, SameCall
  <2>3. \A u \in Threads \ {t} : ~ Renaming(call[u], file[u])
    BY <2>1 DEF RenameAlone, Asking, Exchanging
  <2>4. RenameAlone'
    BY <2>1, <2>2, <2>3 DEF RenameAlone, Renaming
  <2> QED BY <2>1, <2>4 DEF RenamedOpen
<1>6. ASSUME NEW t \in Threads, Returns(t) PROVE RenameAlone' /\ RenamedOpen'
  <2>1. /\ call[t].at = "post"
        /\ \A u \in Threads \ {t} : call'[u] = call[u] /\ file'[u] = file[u]
        /\ call'[t].op = "none" /\ file'[t] = FileAfter(t) /\ flags' = Assigned(t)
    BY <1>6, ReturnedIs
  <2>2. FileOK(call[t], file[t])
    BY DEF FilesSound
  <2>3. Renaming(call'[t], file'[t]) => Renaming(call[t], file[t])
    BY <2>1, <2>2, FileAfterIs, KindsApart DEF Renaming, FileOK
  <2>4. \A u \in Threads \ {t} : ~ Renaming(call[u], file[u])
    BY <2>1 DEF RenameAlone
  <2>5. RenameAlone'
    BY <2>1, <2>3, <2>4 DEF RenameAlone, Renaming
  <2>6. RenamedOpen'
    <3>1. CASE call[t].op \in Opening \cup Shutting
      <4>1. flags'.renamed_fd = -1 /\ -1 \notin Fds
        BY <2>1, <3>1, RenamedAfter DEF Fds
      <4> QED BY <4>1 DEF RenamedOpen
    <3>2. CASE call[t].op = "ioctl" /\ call[t].ret \in {0, Renamed}
      <4>1. flags'.renamed_fd = file'[t].fd /\ file'[t].renamed
        BY <2>1, <3>2, RenamedAfter, FileAfterIs
      <4> QED BY <4>1 DEF RenamedOpen
    <3>3. CASE /\ call[t].op \notin Opening \cup Shutting
               /\ call[t].op = "ioctl" => call[t].ret \notin {0, Renamed}
      <4>1. flags'.renamed_fd = flags.renamed_fd
        BY <2>1, <3>3, RenamedAfter
      <4>2. \A u \in Threads : file[u].renamed => file'[u].renamed /\ file'[u].fd = file[u].fd
        BY <2>1, <3>3, FileAfterIs
      <4> QED BY <4>1, <4>2 DEF RenamedOpen
    <3> QED BY <3>1, <3>2, <3>3
  <2> QED BY <2>5, <2>6
<1>7. ASSUME NEW c \in Conns, PcServes(c) \/ PcCloses(c) \/ LinkLost(c)
      PROVE  RenameAlone' /\ RenamedOpen'
  <2>1. /\ \A u \in Threads : SameCall(call[u], call'[u]) /\ call'[u].at = call[u].at
        /\ UNCHANGED <<file, flags>>
    BY <1>7, PcKeeps
  <2> QED BY <2>1 DEF RenameAlone, RenamedOpen, Renaming, SameCall
<1>8. CASE (\E c \in Conns : ServerAccepts(c)) \/ ServerStarts \/ ServerInstalls
  BY <1>1, <1>8 DEF ServerAccepts, ServerStarts, ServerInstalls
<1> QED BY <1>2, <1>3, <1>4, <1>5, <1>6, <1>7, <1>8, EntersAre DEF Next, Pc, Spins

-----------------------------------------------------------------------------
(* The connection a file is used on, and the requests.                     *)

\* The connection of a call is the socket it looked at.
LEMMA OnConn ==
    ASSUME IInv, Fine, Fine', NEW t \in Threads, GoesOn(t), ~ Spins(t), ~ Returns(t)
    PROVE  LET C == call'[t] IN
           /\ C.conn = call[t].conn \/ (Looks(t) /\ sock \in Conns /\ C.conn = sock)
           /\ C.at = "post" /\ C.conn = NoSock => C.ret = -1
           /\ Waiting(C, C.conn) => Sends(t) \/ Waiting(call[t], C.conn)
           /\ Waiting(C, C.conn) /\ Sends(t) => C.conn = call[t].conn
<1>0. /\ call \in [Threads -> CallType] /\ call[t] \in CallType
      /\ sock \in Conns \cup {NoSock} /\ CallOK(call[t], sock) /\ ReplacedOK(call[t])
      /\ NoSock \notin Conns
  BY TypesAre, ConstantsAre DEF IInv, CallsSound, ExchangeSound
<1> DEFINE C == call'[t]
<1>1. ASSUME NEW res, Result(t, res)
      PROVE  C.at = "post" /\ C.ret = res /\ C.conn = call[t].conn
  BY <1>0, <1>1 DEF Result, Set, CallType
<1>2. ASSUME NEW res, Answered(t, res)
      PROVE  C.at \in {"post", "send"} /\ C.conn = call[t].conn
  <2>1. CASE \E n : Result(t, n)
    BY <1>1, <2>1
  <2>2. CASE ~ \E n : Result(t, n)
    <3>1. PICK total, left :
             call' = [call EXCEPT ![t] = [call[t] EXCEPT !.at = "send", !.ret = total,
                                                         !.left = left, !.done = Undone]]
      BY <1>2, <2>2 DEF Answered, Stays, Set
    <3> QED BY <1>0, <3>1 DEF CallType
  <2> QED BY <2>1, <2>2
<1>3. ASSUME NEW stage, call' = [call EXCEPT ![t] = [call[t] EXCEPT !.at = stage]]
      PROVE  C.at = stage /\ C.conn = call[t].conn
  BY <1>0, <1>3 DEF CallType
<1>4. ASSUME NEW stage, call' = [call EXCEPT ![t] = [call[t] EXCEPT !.at = stage, !.conn = sock]]
      PROVE  C.at = stage /\ C.conn = sock
  BY <1>0, <1>4 DEF CallType
<1>5. CASE Looks(t)
  <2>1. CASE sock = NoSock
    BY <1>1, <1>5, <2>1 DEF Looks, Waiting
  <2>2. CASE sock # NoSock
    BY <1>0, <1>4, <1>5, <2>2 DEF Looks, Stays, Set, Waiting
  <2> QED BY <2>1, <2>2
<1>6. CASE Sends(t)
  BY <1>3, <1>6 DEF Sends, Stays, Set
<1>7. CASE SendFails(t)
  <2>1. C.at \in {"post", "closing"} /\ C.conn = call[t].conn /\ (C.at = "post" => C.ret = -1)
    BY <1>1, <1>3, <1>7 DEF SendFails, Stays, Set
  <2> QED BY <2>1 DEF Waiting
<1>8. CASE ClosesSocket(t)
  BY <1>3, <1>8 DEF ClosesSocket, Stays, Set, Waiting
<1>9. CASE ClearsSocket(t)
  BY <1>1, <1>9 DEF ClearsSocket, Waiting
<1>10. CASE Awaits(t)
  <2>1. sock = call[t].conn
    BY <1>0, <1>10 DEF Awaits, CallOK, ReplacedOK, Fine
  <2>2. /\ call[t].at = "await"
        /\ call' = [call EXCEPT ![t] = [call[t] EXCEPT !.at = "recv", !.conn = sock]]
    BY <1>10 DEF Awaits, Stays, Set
  <2> QED BY <1>4, <2>1, <2>2 DEF Waiting
<1>11. CASE \/ Receives(t) \/ ReceivesCount(t) \/ ReceivesData(t)
            \/ HeaderFails(t) \/ RestFails(t)
  <2>1. call[t].conn \in Conns /\ call[t].at \in {"recv", "data"}
    BY <1>0, <1>11 DEF Receives, ReceivesCount, ReceivesData, HeaderFails, RestFails,
       CannotReceive, CallOK
  <2>2. CASE \E n : Counted(t, n)
    <3>1. PICK n : Counted(t, n)
      BY <2>2
    <3>2. C.at \in {"post", "count"} /\ C.conn = call[t].conn
      BY <1>1, <1>3, <3>1 DEF Counted, Stays, Set
    <3> QED BY <1>0, <2>1, <3>2 DEF Waiting
  <2>3. CASE ~ \E n : Counted(t, n)
    <3>1. C.at \in {"post", "send"} /\ C.conn = call[t].conn
      BY <1>1, <1>2, <1>11, <2>3 DEF Receives, ReceivesCount, ReceivesData, HeaderFails, RestFails
    <3> QED BY <1>0, <2>1, <3>1 DEF Waiting
  <2> QED BY <2>2, <2>3
<1>12. CASE AwaitsData(t)
  <2>1. sock = call[t].conn
    BY <1>12 DEF AwaitsData, Fine
  <2>2. /\ call[t].at = "count"
        /\ call' = [call EXCEPT ![t] = [call[t] EXCEPT !.at = "data", !.conn = sock]]
    BY <1>12 DEF AwaitsData, Stays, Set
  <2> QED BY <1>4, <2>1, <2>2 DEF Waiting
<1> QED BY <1>5, <1>6, <1>7, <1>8, <1>9, <1>10, <1>11, <1>12 DEF GoesOn

LEMMA UsesStep ==
    ASSUME IInv, [Next]_vars, Fine, Fine', FilesSound, RenameAlone, UsesSound
    PROVE  UsesSound'
<1> DEFINE ren == flags.renamed_fd
<1>1. ASSUME UNCHANGED <<call, file>>, flags'.renamed_fd = flags.renamed_fd
      PROVE  UsesSound'
  BY <1>1 DEF UsesSound, UseOK
<1>2. CASE UNCHANGED vars
  BY <1>1, <1>2 DEF vars, driver
<1>3. ASSUME NEW t \in Threads, Dummy(t) PROVE UsesSound'
  BY <1>1, <1>3, FlagsAre DEF Dummy, Rest, Unflagged
<1>4. ASSUME NEW t \in Threads, NEW C, Entrance(t, C) PROVE UsesSound'
  <2>1. /\ call'[t] = C /\ \A u \in Threads \ {t} : call'[u] = call[u]
        /\ C.at \in {"send", "post"} /\ C.conn = NoSock
        /\ C.op \in Shutting => (C.at = "post" <=> file[t].fd = flags.renamed_fd)
        /\ C.op = "ioctl" => (C.at = "post" => C.ret = -1)
        /\ flags'.renamed_fd = flags.renamed_fd
        /\ UNCHANGED file
    BY <1>4, EnteredIs
  <2>2. UseOK(C, file[t], ren)
    BY <2>1 DEF UseOK, Asking, Exchanging
  <2>3. \A u \in Threads : UseOK(call'[u], file[u], ren)
    BY <2>1, <2>2 DEF UsesSound
  <2> QED BY <2>1, <2>3 DEF UsesSound, UseOK
<1>5. ASSUME NEW t \in Threads, GoesOn(t), ~ Spins(t), ~ Returns(t) PROVE UsesSound'
  <2>1. /\ call[t].at \in Asking /\ SameCall(call[t], call'[t])
        /\ \A u \in Threads \ {t} : call'[u] = call[u]
        /\ UNCHANGED <<file, flags>>
    BY <1>5, OnIs
  <2>2. /\ call'[t].conn = call[t].conn \/ (Looks(t) /\ sock \in Conns /\ call'[t].conn = sock)
        /\ call'[t].at = "post" /\ call'[t].conn = NoSock => call'[t].ret = -1
    BY <1>5, OnConn
  <2>3. Looks(t) /\ sock \in Conns /\ call[t].op \in OnFile => file[t].conn = sock
    <3>1. OnFile \cap PathOps = {} /\ NoSock \notin Conns
      BY ConstantsAre DEF OnFile, FileOps, DirOps, PathOps
    <3> QED BY <3>1 DEF Looks, Fine
  <2>4. UseOK(call[t], file[t], ren)
    BY DEF UsesSound
  <2>5. UseOK(call'[t], file[t], ren)
    BY <2>1, <2>2, <2>3, <2>4 DEF UseOK, SameCall
  <2>6. \A u \in Threads : UseOK(call'[u], file[u], ren)
    BY <2>1, <2>5 DEF UsesSound
  <2> QED BY <2>1, <2>6 DEF UsesSound, UseOK
<1>6. ASSUME NEW t \in Threads, Returns(t) PROVE UsesSound'
  <2>1. /\ call[t].at = "post"
        /\ \A u \in Threads \ {t} : call'[u] = call[u] /\ file'[u] = file[u]
        /\ call'[t].op = "none" /\ flags' = Assigned(t)
    BY <1>6, ReturnedIs
  <2>2. ASSUME NEW u \in Threads \ {t} PROVE UseOK(call[u], file[u], ren')
    <3>1. UseOK(call[u], file[u], ren) /\ FileOK(call[u], file[u])
      BY DEF UsesSound, FilesSound
    <3>2. ASSUME call[u].op \in Shutting, call[u].at \in Asking PROVE file[u].fd # ren'
      <4>1. CASE call[t].op = "ioctl"
        BY <2>1, <3>2, <4>1 DEF RenameAlone, Renaming, Asking, Exchanging
      <4>2. CASE call[t].op \in Opening \cup Shutting
        BY <2>1, <3>1, <3>2, <4>2, RenamedAfter, KindsApart DEF FileOK
      <4>3. CASE call[t].op \notin Opening \cup Shutting \cup {"ioctl"}
        BY <2>1, <3>1, <3>2, <4>3, RenamedAfter, KindsApart DEF UseOK
      <4> QED BY <4>1, <4>2, <4>3
    <3> QED BY <3>1, <3>2 DEF UseOK
  <2>3. (UseOK(call[t], file[t], flags.renamed_fd))'
    BY <2>1, KindsApart DEF UseOK
  <2>4. \A u \in Threads \ {t} : (UseOK(call[u], file[u], flags.renamed_fd))'
    BY <2>1, <2>2 DEF UseOK
  <2> QED BY <2>3, <2>4 DEF UsesSound
<1>7. ASSUME NEW c \in Conns, PcServes(c) \/ PcCloses(c) \/ LinkLost(c) PROVE UsesSound'
  <2>1. /\ \A u \in Threads : /\ SameCall(call[u], call'[u]) /\ call'[u].at = call[u].at
                              /\ call'[u].conn = call[u].conn /\ call'[u].ret = call[u].ret
        /\ UNCHANGED <<file, flags>>
    BY <1>7, PcKeeps
  <2>2. \A u \in Threads : UseOK(call'[u], file[u], ren)
    BY <2>1 DEF UsesSound, UseOK, SameCall
  <2> QED BY <2>1, <2>2 DEF UsesSound, UseOK
<1>8. CASE (\E c \in Conns : ServerAccepts(c)) \/ ServerStarts \/ ServerInstalls
  BY <1>1, <1>8 DEF ServerAccepts, ServerStarts, ServerInstalls
<1> QED BY <1>2, <1>3, <1>4, <1>5, <1>6, <1>7, <1>8, EntersAre DEF Next, Pc, Spins


LEMMA RequestsStep ==
    ASSUME IInv, [Next]_vars, Fine, Fine', RequestsSound
    PROVE  RequestsSound'
<1>0. requests \in [Conns -> Seq(Message)]
  BY TypesAre DEF IInv
<1>1. ASSUME UNCHANGED <<call, requests>> PROVE RequestsSound'
  BY <1>1 DEF RequestsSound, Waiting
<1>2. CASE UNCHANGED vars
  BY <1>1, <1>2 DEF vars, driver, pc
<1>3. ASSUME NEW t \in Threads, Dummy(t) PROVE RequestsSound'
  BY <1>1, <1>3 DEF Dummy, Rest, pc
<1>4. ASSUME NEW t \in Threads, NEW C, Entrance(t, C) PROVE RequestsSound'
  <2>1. /\ call'[t] = C /\ \A u \in Threads \ {t} : call'[u] = call[u]
        /\ C.at \in {"send", "post"} /\ UNCHANGED requests
    BY <1>4, EnteredIs
  <2> QED BY <2>1 DEF RequestsSound, Waiting
<1>5. ASSUME NEW t \in Threads, GoesOn(t), ~ Spins(t), ~ Returns(t) PROVE RequestsSound'
  <2>1. /\ SameCall(call[t], call'[t])
        /\ \A u \in Threads \ {t} : call'[u] = call[u]
        /\ UNCHANGED requests \/ Sends(t)
    BY <1>5, OnIs
  <2>2. /\ Waiting(call'[t], call'[t].conn) => Sends(t) \/ Waiting(call[t], call'[t].conn)
        /\ Waiting(call'[t], call'[t].conn) /\ Sends(t) => call'[t].conn = call[t].conn
    BY <1>5, OnConn
  <2>3. CASE Sends(t)
    <3> DEFINE c == call[t].conn
    <3>1. /\ call[t].at = "sending" /\ link[c] \in {"open", "shut", "lost"}
          /\ requests' = IF link[c] # "open" THEN requests
                         ELSE [requests EXCEPT ![c] = Append(@, Request(t))]
      BY <2>3 DEF Sends
    <3>2. CallOK(call[t], sock) /\ ReplacedOK(call[t])
      BY DEF IInv, CallsSound, ExchangeSound
    <3>3. c \in Conns /\ sock \in Conns /\ sock = c
      BY <3>1, <3>2 DEF CallOK, ReplacedOK
    <3>4. requests[c] = <<>>
      <4>1. CASE link[c] = "lost"
        BY <3>3, <4>1 DEF IInv, LinksSound
      <4>2. CASE link[c] # "lost"
        BY <3>1, <3>3, <4>2, SocketInStep DEF Waiting, Exchanging, Clear
      <4> QED BY <4>1, <4>2
    <3>5. \A u \in Threads \ {t} : call[u].at \notin Exchanging
      BY <3>1, Alone DEF Exchanging
    <3> DEFINE q == Request(t)
    <3>6. q.fd = call[t].fd
      BY DEF Request
    <3> HIDE DEF q
    <3>7. requests'[c] # <<>> => requests'[c][1] = q
      <4>1. requests'[c] = <<>> \/ requests'[c] = Append(<<>>, q)
        BY <1>0, <3>1, <3>3, <3>4 DEF q
      <4>2. Append(<<>>, q)[1] = q
        OBVIOUS
      <4> QED BY <4>1, <4>2
    <3>8. \A u \in Threads \ {t}, b \in Conns : ~ Waiting(call'[u], b)
      BY <2>1, <3>5 DEF Waiting, Exchanging
    <3>9. \A b \in Conns : Waiting(call'[t], b) => b = c
      BY <2>2, <2>3 DEF Waiting
    <3>10. \A u \in Threads, b \in Conns :
              Waiting(call'[u], b) /\ requests'[b] # <<>> => requests'[b][1].fd = call'[u].fd
      BY <2>1, <3>6, <3>7, <3>8, <3>9 DEF SameCall
    <3> QED BY <3>10 DEF RequestsSound, Waiting
  <2>4. CASE ~ Sends(t)
    <3>1. UNCHANGED requests
      BY <2>1, <2>4
    <3>2. \A b \in Conns : Waiting(call'[t], b) => Waiting(call[t], b)
      BY <2>2, <2>4 DEF Waiting
    <3>3. \A u \in Threads, b \in Conns :
             Waiting(call'[u], b) /\ requests[b] # <<>> => requests[b][1].fd = call'[u].fd
      BY <2>1, <3>2 DEF RequestsSound, SameCall
    <3> QED BY <3>1, <3>3 DEF RequestsSound, Waiting
  <2> QED BY <2>3, <2>4
<1>6. ASSUME NEW t \in Threads, Returns(t) PROVE RequestsSound'
  <2>1. /\ \A u \in Threads \ {t} : call'[u] = call[u]
        /\ call'[t].at \in {"idle", "again"} /\ UNCHANGED requests
    BY <1>6, ReturnedIs
  <2> QED BY <2>1 DEF RequestsSound, Waiting
<1>7. ASSUME NEW c \in Conns, PcServes(c) \/ PcCloses(c) \/ LinkLost(c) PROVE RequestsSound'
  <2>1. \A u \in Threads : /\ SameCall(call[u], call'[u]) /\ call'[u].at = call[u].at
                           /\ call'[u].conn = call[u].conn
    BY <1>7, PcKeeps
  <2>2. \A b \in Conns \ {c} : requests'[b] = requests[b]
    BY <1>0, <1>7 DEF PcServes, PcCloses, LinkLost
  <2>3. ASSUME NEW u \in Threads, Waiting(call[u], c) PROVE requests'[c] = <<>>
    <3>1. CASE PcServes(c)
      <4>1. requests[c] # <<>> /\ requests'[c] = Tail(requests[c])
        BY <1>0, <3>1 DEF PcServes
      <4>2. Len(requests[c]) = 1
        BY <2>3, <4>1 DEF IInv, ExchangeSound, WaitOK, Own, Clear
      <4>3. Tail(requests[c]) = <<>>
        BY <1>0, <4>1, <4>2, HeadTailProperties, EmptySeq
      <4> QED BY <4>1, <4>3
    <3>2. CASE PcCloses(c) \/ LinkLost(c)
      BY <1>0, <3>2 DEF PcCloses, LinkLost
    <3> QED BY <1>7, <3>1, <3>2
  <2>4. \A u \in Threads, b \in Conns :
           Waiting(call'[u], b) /\ requests'[b] # <<>> => requests'[b][1].fd = call'[u].fd
    BY <2>1, <2>2, <2>3 DEF RequestsSound, Waiting, SameCall
  <2> QED BY <2>4 DEF RequestsSound, Waiting
<1>8. CASE (\E c \in Conns : ServerAccepts(c)) \/ ServerStarts \/ ServerInstalls
  BY <1>1, <1>8 DEF ServerAccepts, ServerStarts, ServerInstalls, pc
<1> QED BY <1>2, <1>3, <1>4, <1>5, <1>6, <1>7, <1>8, EntersAre DEF Next, Pc, Spins


-----------------------------------------------------------------------------
(***************************************************************************)
(* Descriptors.                                                            *)
(***************************************************************************)
\* A step of thread t leaves at the PC what it leaves in the thread's hands.
LEMMA HandsKept ==
    ASSUME DescriptorsSound, NEW t \in Threads, UNCHANGED opened,
           \A u \in Threads \ {t} :
              /\ call'[u] = call[u] /\ file'[u] = file[u]
              /\ file[u].renamed => flags'.renamed_fd = flags.renamed_fd,
           \A c \in Conns : Live(c)' =>
              /\ Live(c)
              /\ Held(call'[t], file'[t], c, flags'.renamed_fd)
                    = Held(call[t], file[t], c, flags.renamed_fd)
    PROVE  DescriptorsSound'
<1> DEFINE ren == flags.renamed_fd
           held(u, c) == Held(call[u], file[u], c, ren)
<1>1. ASSUME NEW u \in Threads \ {t}, NEW c PROVE Held(call'[u], file'[u], c, ren') = held(u, c)
  <2>1. LeftOf(file[u], c, ren') = LeftOf(file[u], c, ren)
    BY DEF LeftOf
  <2> QED BY <2>1 DEF Held
<1>2. ASSUME NEW u \in Threads, NEW c \in Conns, Live(c)'
      PROVE  AtPc(u, c)' = Held(call'[u], file'[u], c, ren')
  <2>1. AtPc(u, c)' = AtPc(u, c)
    BY DEF AtPc
  <2>2. AtPc(u, c) = held(u, c)
    BY <1>2 DEF DescriptorsSound
  <2>3. held(u, c) = Held(call'[u], file'[u], c, ren')
    <3>1. CASE u = t
      BY <1>2, <3>1
    <3>2. CASE u # t
      BY <1>1, <3>2
    <3> QED BY <3>1, <3>2
  <2> QED BY <2>1, <2>2, <2>3
<1>3. \A u \in Threads, c \in Conns :
         Held(call[u], file[u], c, flags.renamed_fd)' = Held(call'[u], file'[u], c, ren')
  BY DEF Held, Told, Answer, LeftOf, Has
<1> QED BY <1>2, <1>3 DEF DescriptorsSound

\* What the PC has told a call, while it goes on: the same, or it returns from a connection
\* that is not the one in use.
LEMMA ToldIs ==
    ASSUME IInv, Fine, NEW t \in Threads, GoesOn(t), ~ Spins(t), ~ Returns(t),
           call[t].op \notin {"read", "write"}, NEW c \in Conns, Live(c)'
    PROVE  LET p == call[t]
               C == call'[t]
           IN  /\ Live(c)
               /\ \/ /\ Told(C, c) <=> Told(p, c)
                     /\ Told(p, c) => Answer(C) = Answer(p)
                     /\ C.at # "post" \/ Told(p, c)
                  \/ ~ Told(p, c) /\ ~ Told(C, c) /\ p.conn # NoSock /\ p.conn # c
<1> DEFINE p == call[t]
           C == call'[t]
<1>0. /\ call \in [Threads -> CallType] /\ p \in CallType
      /\ sock \in Conns \cup {NoSock} /\ CallOK(p, sock) /\ ReplacedOK(p)
      /\ NoSock \notin Conns
  BY TypesAre, ConstantsAre DEF IInv, CallsSound, ExchangeSound
<1>1. ASSUME NEW res, Result(t, res)
      PROVE  C.at = "post" /\ C.ret = res /\ C.conn = p.conn
  BY <1>0, <1>1 DEF Result, Set, CallType
<1>2. ASSUME NEW stage, call' = [call EXCEPT ![t] = [p EXCEPT !.at = stage]]
      PROVE  C.at = stage /\ C.conn = p.conn /\ C.done = p.done
  BY <1>0, <1>2 DEF CallType
<1>3. ASSUME NEW stage, call' = [call EXCEPT ![t] = [p EXCEPT !.at = stage, !.conn = sock]]
      PROVE  C.at = stage /\ C.conn = sock /\ C.done = p.done
  BY <1>0, <1>3 DEF CallType
<1>4. CASE Looks(t)
  <2>1. sock = c /\ Live(c) /\ c # NoSock
    BY <1>4 DEF Looks, Live, pc
  <2>2. C.at = "sending" /\ p.at = "send"
    BY <1>3, <1>4, <2>1 DEF Looks, Stays, Set
  <2> QED BY <2>1, <2>2 DEF Told
<1>5. CASE Sends(t)
  <2>1. Live(c) /\ p.at = "sending"
    BY <1>5 DEF Sends, Live
  <2>2. C.at = "await" /\ C.done = p.done /\ p.done = Undone
    BY <1>0, <1>2, <1>5, <2>1 DEF Sends, Stays, Set, CallOK, Before
  <2> QED BY <2>1, <2>2 DEF Told
<1>6. CASE SendFails(t)
  <2>1. Live(c) /\ p.at = "sending"
    BY <1>6 DEF SendFails, Live, pc
  <2>2. C.at = "closing"
    BY <1>2, <1>6 DEF SendFails, Stays, Set
  <2> QED BY <2>1, <2>2 DEF Told
<1>7. CASE ClosesSocket(t)
  <2>1. sock = c /\ link' = [link EXCEPT ![sock] = "closed"] /\ link'[c] = "open"
    BY <1>7 DEF ClosesSocket, Disconnected, Live
  <2>2. link \in [Conns -> {"none", "open", "shut", "lost", "closed"}]
    BY DEF IInv, TypeOK
  <2> QED BY <2>1, <2>2
<1>8. CASE ClearsSocket(t)
  BY <1>8 DEF ClearsSocket, Live
<1>9. CASE Awaits(t)
  <2>1. Live(c) /\ p.at = "await"
    BY <1>9 DEF Awaits, Live, pc
  <2>2. sock = p.conn
    BY <1>0, <2>1 DEF CallOK, ReplacedOK, Fine
  <2>3. C.at = "recv" /\ C.conn = p.conn /\ C.done = p.done
    BY <1>3, <1>9, <2>2 DEF Awaits, Stays, Set
  <2> QED BY <2>1, <2>3 DEF Told, Answer
<1>10. CASE Receives(t)
  <2>0. PICK b \in Conns : b = p.conn
    BY <1>0, <1>10 DEF Receives, CallOK
  <2> DEFINE m == Head(replies[b])
  <2>1. /\ Live(c) /\ p.at = "recv" /\ replies[b] # <<>> /\ Result(t, m.ret)
    BY <1>10, <2>0 DEF Receives, Answered, Live
  <2>2. C.at = "post" /\ C.ret = m.ret /\ C.conn = b
    BY <1>1, <2>0, <2>1
  <2>3. CASE b = c
    <3>1. replies[b] \in Seq(Reply) /\ WaitOK(t, p)
      BY TypesAre DEF IInv, ExchangeSound
    <3>2. m = replies[b][1] /\ m \in Reply
      BY <2>1, <3>1, HeadTailProperties
    <3>3. p.done = m.ret
      BY <2>0, <2>1, <3>1, <3>2 DEF WaitOK, Waiting, Own, Clear
    <3>4. m.ret # Undone
      BY <3>2, RetsAre DEF Reply
    <3> QED BY <2>0, <2>1, <2>2, <2>3, <3>3, <3>4 DEF Told, Answer
  <2>4. CASE b # c
    BY <1>0, <2>0, <2>1, <2>2, <2>4 DEF Told
  <2> QED BY <2>3, <2>4
<1>11. CASE HeaderFails(t) \/ RestFails(t)
  <2>1. /\ Live(c) /\ p.at = "recv" /\ link[p.conn] \in {"lost", "closed"}
    BY <1>0, <1>11 DEF HeaderFails, RestFails, CannotReceive, Live, pc, CallOK
  <2>2. p.conn \in Conns /\ p.conn # c
    BY <1>0, <2>1 DEF CallOK, Live
  <2>3. C.at = "post" /\ C.conn = p.conn
    BY <1>1, <1>11 DEF HeaderFails, RestFails, Answered
  <2> QED BY <1>0, <2>1, <2>2, <2>3 DEF Told
<1>12. ~ ReceivesCount(t) /\ ~ AwaitsData(t) /\ ~ ReceivesData(t)
  BY <1>0 DEF ReceivesCount, AwaitsData, ReceivesData, CallOK
<1> QED BY <1>4, <1>5, <1>6, <1>7, <1>8, <1>9, <1>10, <1>11, <1>12 DEF GoesOn


LEMMA LiveKept ==
    ASSUME IInv, NEW t \in Threads, GoesOn(t), NEW c \in Conns, Live(c)'
    PROVE  Live(c)
<1>1. CASE ClosesSocket(t)
  <2>1. link \in [Conns -> {"none", "open", "shut", "lost", "closed"}]
    BY DEF IInv, TypeOK
  <2> QED BY <1>1, <2>1 DEF ClosesSocket, Disconnected, Live
<1>2. CASE ClearsSocket(t)
  BY <1>2 DEF ClearsSocket, Live
<1>3. CASE ~ ClosesSocket(t) /\ ~ ClearsSocket(t)
  <2>1. UNCHANGED <<sock, link>>
    BY <1>3 DEF GoesOn, Looks, Sends, SendFails, Awaits, Receives, ReceivesCount, AwaitsData,
       ReceivesData, HeaderFails, RestFails, Spins, Returns, vars, driver, pc
  <2> QED BY <2>1 DEF Live
<1> QED BY <1>1, <1>2, <1>3

LEMMA OnHands ==
    ASSUME IInv, Fine, UsesSound, DescriptorsSound,
           NEW t \in Threads, GoesOn(t), ~ Spins(t), ~ Returns(t)
    PROVE  DescriptorsSound'
<1> DEFINE p == call[t]
           C == call'[t]
           f == file[t]
           ren == flags.renamed_fd
<1>1. /\ p.at \in Asking /\ C.op = p.op /\ UNCHANGED <<file, flags, opened>>
      /\ \A u \in Threads \ {t} : call'[u] = call[u]
  BY OnIs DEF SameCall
<1>2. UseOK(p, f, ren) /\ p.at # "post"
  BY <1>1 DEF UsesSound, Asking, Exchanging
<1>3. ASSUME NEW c \in Conns, Live(c)'
      PROVE  Live(c) /\ Held(C, f, c, ren) = Held(p, f, c, ren)
  <2>1. Live(c)
    BY <1>3, LiveKept
  <2>2. CASE p.op \in {"read", "write"}
    BY <1>1, <2>1, <2>2, KindsApart DEF Held
  <2>3. CASE p.op \notin {"read", "write"}
    <3>1. CASE /\ Told(C, c) <=> Told(p, c)
               /\ Told(p, c) => Answer(C) = Answer(p)
               /\ C.at # "post" \/ Told(p, c)
      BY <1>1, <1>2, <2>1, <3>1 DEF Held
    <3>2. CASE ~ Told(p, c) /\ ~ Told(C, c) /\ p.conn # NoSock /\ p.conn # c
      <4>1. p.op \in OnFile => LeftOf(f, c, ren) = {}
        BY <1>2, <3>2 DEF UseOK, LeftOf, Has
      <4> QED BY <1>1, <1>2, <2>1, <3>2, <4>1, KindsApart DEF Held
    <3> QED BY <1>3, <2>3, <3>1, <3>2, ToldIs
  <2> QED BY <2>2, <2>3
<1> HIDE DEF C, p, f
<1>4. \A c \in Conns : Live(c)' =>
         Live(c) /\ Held(call'[t], file'[t], c, flags'.renamed_fd)
                       = Held(call[t], file[t], c, flags.renamed_fd)
  BY <1>1, <1>3 DEF C, p, f
<1> QED BY <1>1, <1>4, HandsKept

\* A descriptor somebody has at the PC is not the one of the file renamed last.
LEMMA NotRenamed ==
    ASSUME RenamedOpen, NEW t \in Threads, ~ file[t].renamed,
           \A u \in Threads \ {t} : ~ file[u].renamed,
           NEW c \in Conns, AtPc(t, c) = Has(file[t], c)
    PROVE  file[t].fd = flags.renamed_fd => Has(file[t], c) = {}
<1>1. Has(file[t], c) # {} => file[t].fd \in Fds
  BY DEF Has, AtPc
<1> QED BY <1>1 DEF RenamedOpen

LEMMA EnterHands ==
    ASSUME IInv, Fine, Fine', RenamedOpen, DescriptorsSound, NEW t \in Threads, NEW C, Entrance(t, C)
    PROVE  DescriptorsSound'
<1> DEFINE p == call[t]
           f == file[t]
           ren == flags.renamed_fd
<1>1. /\ call'[t] = C /\ \A u \in Threads \ {t} : call'[u] = call[u]
      /\ p.op = "none"
      /\ C.at \in {"send", "post"} /\ C.conn = NoSock
      /\ C.op \in Opening => f.kind = "none"
      /\ C.op \in Shutting => (C.at = "post" <=> f.fd = ren)
      /\ C.op = "ioctl" => ~ f.renamed
      /\ flags'.renamed_fd = ren
      /\ UNCHANGED <<sock, file, link, opened>>
  BY EnteredIs
<1>2. \A u \in Threads \ {t} : ~ file[u].renamed
  BY EnterAlone DEF Entrance, Renaming
<1>3. ASSUME NEW c \in Conns, Live(c)
      PROVE  Held(C, f, c, ren) = Held(p, f, c, ren)
  <2>1. ~ Told(C, c)
    BY <1>1, ConstantsAre DEF Told
  <2>2. Held(p, f, c, ren) = LeftOf(f, c, ren) /\ AtPc(t, c) = LeftOf(f, c, ren)
    BY <1>1, <1>3, KindsApart DEF Held, DescriptorsSound
  <2>3. CASE C.op \in Opening
    BY <1>1, <2>1, <2>2, <2>3 DEF Held, LeftOf, Has
  <2>4. CASE C.op \in Shutting
    <3>1. C.at = "post" => LeftOf(f, c, ren) = {}
      <4>1. CASE f.renamed
        BY <1>1, <2>4, <4>1 DEF LeftOf
      <4>2. CASE ~ f.renamed
        <5>1. LeftOf(f, c, ren) = Has(f, c)
          BY <4>2 DEF LeftOf
        <5> QED BY <1>1, <1>2, <2>2, <2>4, <4>2, <5>1, NotRenamed
      <4> QED BY <4>1, <4>2
    <3> QED BY <2>1, <2>2, <2>4, <3>1, KindsApart DEF Held
  <2>5. CASE C.op = "ioctl"
    BY <1>1, <2>1, <2>2, <2>5, KindsApart DEF Held, LeftOf
  <2>6. CASE C.op \notin Opening \cup Shutting \cup {"ioctl"}
    BY <2>2, <2>6 DEF Held
  <2> QED BY <2>3, <2>4, <2>5, <2>6
<1>4. \A c \in Conns : Live(c)' => Live(c)
  BY <1>1 DEF Live
<1> HIDE DEF p, f, ren
<1>5. \A c \in Conns : Live(c)' =>
         Live(c) /\ Held(call'[t], file'[t], c, flags'.renamed_fd)
                       = Held(call[t], file[t], c, flags.renamed_fd)
  BY <1>1, <1>3, <1>4 DEF p, f, ren
<1> QED BY <1>1, <1>5, HandsKept DEF ren

LEMMA ReturnHands ==
    ASSUME IInv, Fine, FilesSound, UsesSound, RenameAlone, RenamedOpen, DescriptorsSound,
           NEW t \in Threads, Returns(t)
    PROVE  DescriptorsSound'
<1> DEFINE p == call[t]
           C == call'[t]
           f == file[t]
           g == FileAfter(t)
           ren == flags.renamed_fd
           next == Assigned(t).renamed_fd
<1>1. /\ p.at = "post" /\ C.op = "none"
      /\ \A u \in Threads \ {t} : call'[u] = call[u] /\ file'[u] = file[u]
      /\ file'[t] = g /\ flags' = Assigned(t)
      /\ UNCHANGED <<sock, link, opened>>
  BY ReturnedIs
<1>2. FileOK(p, f) /\ UseOK(p, f, ren)
  BY DEF FilesSound, UsesSound
<1>3. \A u \in Threads \ {t} : ~ file[u].renamed
  BY <1>1 DEF RenameAlone, Renaming
<1>4. ASSUME NEW c \in Conns, Live(c)
      PROVE  Held(C, g, c, next) = Held(p, f, c, ren)
  <2>1. Held(C, g, c, next) = LeftOf(g, c, next)
    BY <1>1, KindsApart DEF Held
  <2>2. AtPc(t, c) = Held(p, f, c, ren)
    BY <1>4 DEF DescriptorsSound
  <2>3. Told(p, c) <=> p.conn = c
    BY <1>1 DEF Told
  <2>4. CASE p.op \in Opening
    <3>1. Held(p, f, c, ren) = IF p.conn = c /\ p.ret >= 0 THEN {p.ret} ELSE {}
      BY <1>1, <2>3, <2>4 DEF Held, Answer
    <3>2. CASE p.ret >= 0
      <4>1. g.kind # "none" /\ g.fd = p.ret /\ g.conn = p.conn /\ ~ g.renamed
        BY <2>4, <3>2, FileAfterIs
      <4> HIDE DEF g, next
      <4>2. LeftOf(g, c, next) = IF p.conn = c THEN {p.ret} ELSE {}
        BY <4>1 DEF LeftOf, Has
      <4> QED BY <2>1, <3>1, <3>2, <4>2
    <3>3. CASE ~ (p.ret >= 0)
      <4>1. g = f /\ f.kind = "none"
        BY <1>2, <2>4, <3>3, FileAfterIs DEF FileOK
      <4>2. LeftOf(g, c, next) = {}
        BY <4>1 DEF LeftOf, Has
      <4> QED BY <2>1, <3>1, <3>3, <4>2
    <3> QED BY <3>2, <3>3
  <2>5. CASE p.op \in Shutting
    <3>1. Held(p, f, c, ren) = {}
      BY <1>1, <2>5, KindsApart DEF Held
    <3>2. g.kind = "none"
      BY <2>5, FileAfterIs
    <3> HIDE DEF g, next
    <3>3. LeftOf(g, c, next) = {}
      BY <3>2 DEF LeftOf, Has
    <3> QED BY <2>1, <3>1, <3>3
  <2>6. CASE p.op = "ioctl"
    <3>1. Held(p, f, c, ren) = IF p.conn = c /\ p.ret \in {0, Renamed} THEN {} ELSE Has(f, c)
      BY <1>1, <2>3, <2>6, KindsApart DEF Held, Answer
    <3>2. /\ g.kind = f.kind /\ g.fd = f.fd /\ g.conn = f.conn /\ g.renamed
          /\ ~ f.renamed
      BY <1>2, <2>6, FileAfterIs DEF FileOK
    <3>3. CASE p.ret \in {0, Renamed}
      <4>1. next = f.fd
        BY <2>6, <3>3, RenamedAfter
      <4> HIDE DEF g, next
      <4>2. LeftOf(g, c, next) = {}
        BY <3>2, <4>1 DEF LeftOf
      <4>3. p.conn # c => Has(f, c) = {}
        <5>1. p.conn # NoSock
          BY <1>1, <1>2, <2>6, <3>3, KindsApart DEF UseOK, Renamed
        <5> QED BY <1>2, <2>6, <5>1, KindsApart DEF UseOK, Has
      <4> QED BY <2>1, <3>1, <3>3, <4>2, <4>3
    <3>4. CASE p.ret \notin {0, Renamed}
      <4>1. next = ren
        BY <2>6, <3>4, RenamedAfter
      <4> HIDE DEF g, next
      <4>2. AtPc(t, c) = Has(f, c)
        BY <2>2, <3>1, <3>4
      <4>3. f.fd = ren => Has(f, c) = {}
        BY <1>3, <3>2, <4>2, NotRenamed
      <4>4. Has(g, c) = Has(f, c)
        BY <3>2 DEF Has
      <4>5. LeftOf(g, c, next) = Has(f, c)
        BY <3>2, <4>1, <4>3, <4>4 DEF LeftOf
      <4> QED BY <2>1, <3>1, <3>4, <4>5
    <3> QED BY <3>3, <3>4
  <2>7. CASE p.op \notin Opening \cup Shutting \cup {"ioctl"}
    <3>1. g = f /\ next = ren
      BY <2>7, FileAfterIs, RenamedAfter
    <3>2. Held(p, f, c, ren) = LeftOf(f, c, ren)
      BY <2>7 DEF Held
    <3> QED BY <2>1, <3>1, <3>2
  <2> QED BY <2>4, <2>5, <2>6, <2>7
<1>5. \A c \in Conns : Live(c)' => Live(c)
  BY <1>1 DEF Live
<1> HIDE DEF p, C, f, g, ren, next
<1>6. \A c \in Conns : Live(c)' =>
         Live(c) /\ Held(call'[t], file'[t], c, flags'.renamed_fd)
                       = Held(call[t], file[t], c, flags.renamed_fd)
  BY <1>1, <1>4, <1>5 DEF p, C, f, g, ren, next
<1> QED BY <1>1, <1>3, <1>6, HandsKept


\* The descriptors of a connection, after the PC has served a request of thread t.
LEMMA ServeHands ==
    ASSUME IInv, Fine, FilesSound, UsesSound, RequestsSound, DescriptorsSound,
           NEW c \in Conns, PcServes(c)
    PROVE  DescriptorsSound'
<1> DEFINE ren == flags.renamed_fd
<1>1. PICK q, s :
         /\ q \in Message
         /\ requests[c] # <<>> /\ q = requests[c][1] /\ ServedOK(c, q, s)
         /\ opened' = [opened EXCEPT ![c] = s.opened]
         /\ IF StillAsked(c, q)
            THEN Goes(q.by, [call[q.by] EXCEPT !.done = s.ret])
            ELSE call' = call
         /\ UNCHANGED <<sock, file, flags, link>>
  BY ServesIs
<1>2. opened \in [Conns -> [Fds -> Threads \cup {Nobody}]]
  BY DEF IInv, TypeOK
<1>3. opened'[c] = s.opened /\ \A d \in Conns \ {c} : opened'[d] = opened[d]
  BY <1>1, <1>2
<1>4. \A u \in Threads : /\ call'[u].op = call[u].op /\ call'[u].at = call[u].at
                         /\ call'[u].conn = call[u].conn /\ call'[u].ret = call[u].ret
                         /\ call'[u] = call[u] \/ Waiting(call[u], c)
  BY PcKeeps DEF SameCall
<1>5. ASSUME NEW d \in Conns, Live(d), d # c, NEW u \in Threads
      PROVE  AtPc(u, d)' = Held(call'[u], file[u], d, ren)
  <2>1. AtPc(u, d)' = AtPc(u, d)
    BY <1>3, <1>5 DEF AtPc
  <2>2. AtPc(u, d) = Held(call[u], file[u], d, ren)
    BY <1>5 DEF DescriptorsSound
  <2>3. Held(call'[u], file[u], d, ren) = Held(call[u], file[u], d, ren)
    <3>1. CASE call'[u] = call[u]
      BY <3>1
    <3>2. CASE Waiting(call[u], c)
      <4>1. ~ Told(call[u], d) /\ ~ Told(call'[u], d)
        BY <1>4, <1>5, <3>2 DEF Told, Waiting
      <4> QED BY <1>4, <4>1 DEF Held
    <3> QED BY <1>4, <3>1, <3>2
  <2> QED BY <2>1, <2>2, <2>3
<1>6. ASSUME Live(c) PROVE \A u \in Threads : AtPc(u, c)' = Held(call'[u], file[u], c, ren)
  <2>1. PICK t \in Threads : Waiting(call[t], c)
    BY <1>1, <1>6 DEF IInv, ExchangeSound, SocketClear, Live, Clear
  <2> DEFINE p == call[t]
             C == call'[t]
             f == file[t]
  <2>2. q.by = t /\ q.op = p.op /\ p.done = Undone /\ q.fd = p.fd /\ ~ OnData(p)
    <3>1. WaitOK(t, p)
      BY DEF IInv, ExchangeSound
    <3>2. q.by = t /\ q.op = p.op /\ p.done = Undone /\ ~ OnData(p)
      BY <1>1, <1>6, <2>1, <3>1 DEF WaitOK, Own, Clear, Live
    <3> QED BY <1>1, <2>1, <3>2 DEF RequestsSound
  <2>3. StillAsked(c, q)
    BY <2>1, <2>2 DEF StillAsked, Waiting, OnData
  <2>4. C.done = s.ret /\ \A u \in Threads \ {t} : call'[u] = call[u]
    <3>1. call \in [Threads -> CallType]
      BY TypesAre DEF IInv
    <3> QED BY <1>1, <2>2, <2>3, <3>1 DEF Goes, CallType
  <2>5. /\ C.op = p.op /\ C.at = p.at /\ C.conn = c /\ p.conn = c
        /\ p.at \in {"await", "recv"}
    BY <1>4, <2>1, <2>2 DEF Waiting, OnData
  <2>6. s.ret \in Retvals /\ s.ret # Undone
    BY <1>1, RetsAre DEF ServedOK
  <2>7. ~ Told(p, c) /\ Told(C, c) /\ Answer(C) = s.ret
    BY <2>2, <2>4, <2>5, <2>6 DEF Told, Answer
  <2>8. FileOK(p, f) /\ UseOK(p, f, ren) /\ p.at \in Asking /\ p.at # "post" /\ c # NoSock
    BY <2>5, ConstantsAre DEF FilesSound, UsesSound, Asking, Exchanging
  <2>9. AtPc(t, c) = Held(p, f, c, ren)
    BY <1>6 DEF DescriptorsSound
  <2>10. \A u \in Threads : AtPc(u, c)' = {d \in Fds : s.opened[d] = u}
    BY <1>3 DEF AtPc
  <2>11. \A u \in Threads : AtPc(u, c) = {d \in Fds : opened[c][d] = u}
    BY DEF AtPc
  <2>12. \A u \in Threads \ {t} : Held(call'[u], file[u], c, ren) = AtPc(u, c)
    BY <1>6, <2>4 DEF DescriptorsSound
  <2>13. Nobody \notin Threads /\ opened[c] \in [Fds -> Threads \cup {Nobody}]
    BY <1>2, ConstantsAre
  <2>14. CASE s.opened = opened[c] /\ Held(C, f, c, ren) = Held(p, f, c, ren)
    BY <2>9, <2>10, <2>11, <2>12, <2>14
  <2>15. CASE p.op \in Opening
    <3>1. Held(p, f, c, ren) = {}
      BY <2>7, <2>15 DEF Held
    <3>2. Held(C, f, c, ren) = IF s.ret >= 0 THEN {s.ret} ELSE {}
      BY <2>5, <2>7, <2>15 DEF Held
    <3>3. CASE s.ret = -1 /\ s.opened = opened[c]
      BY <2>14, <3>1, <3>2, <3>3
    <3>4. CASE /\ s.ret \in Fds /\ opened[c][s.ret] = Nobody
               /\ s.opened = [opened[c] EXCEPT ![s.ret] = t]
      <4>1. \A u \in Threads \ {t} : AtPc(u, c)' = AtPc(u, c)
        BY <2>10, <2>11, <2>13, <3>4
      <4>2. AtPc(t, c)' = {s.ret}
        BY <2>9, <2>10, <2>11, <2>13, <3>1, <3>4
      <4>3. s.ret >= 0
        BY <3>4 DEF Fds
      <4> QED BY <2>12, <3>2, <4>1, <4>2, <4>3
    <3> QED BY <1>1, <2>2, <2>15, <3>3, <3>4 DEF ServedOK, Opening
  <2>16. CASE p.op \in Shutting \cup {"ioctl"}
    <3>1. Held(p, f, c, ren) = {f.fd}
      <4>1. f.conn = c /\ f.kind # "none" /\ (p.op \in Shutting => f.fd # ren)
        BY <2>5, <2>8, <2>16, KindsApart DEF FileOK, UseOK
      <4>2. Has(f, c) = {f.fd} /\ (p.op \in Shutting => LeftOf(f, c, ren) = {f.fd})
        BY <4>1 DEF Has, LeftOf
      <4> QED BY <2>7, <2>8, <2>16, <4>2, KindsApart DEF Held
    <3>2. q.fd = f.fd
      BY <2>2, <2>8, <2>16, KindsApart DEF FileOK
    <3>3. f.fd \in Fds /\ opened[c][f.fd] = t /\ \A d \in Fds : opened[c][d] = t => d = f.fd
      BY <2>9, <2>11, <3>1
    <3>4. /\ s.ret \in {0, Renamed}
          /\ s.opened = [opened[c] EXCEPT ![f.fd] = Nobody]
      BY <1>1, <2>2, <2>13, <2>16, <3>2, <3>3 DEF ServedOK, Shutting
    <3>5. Held(C, f, c, ren) = {}
      BY <2>5, <2>7, <2>16, <3>4, KindsApart DEF Held
    <3>6. AtPc(t, c)' = {}
      BY <2>10, <2>13, <3>3, <3>4
    <3>7. \A u \in Threads \ {t} : AtPc(u, c)' = AtPc(u, c)
      <4>1. \A d \in Fds : s.opened[d] = IF d = f.fd THEN Nobody ELSE opened[c][d]
        <5> HIDE DEF f
        <5> QED BY <2>13, <3>4
      <4>2. ASSUME NEW u \in Threads \ {t}, NEW d \in Fds
            PROVE  s.opened[d] = u <=> opened[c][d] = u
        <5> HIDE DEF f
        <5> QED BY <2>13, <3>3, <4>1
      <4>3. \A u \in Threads \ {t} :
               {d \in Fds : s.opened[d] = u} = {d \in Fds : opened[c][d] = u}
        BY <4>2
      <4> QED BY <2>10, <2>11, <4>3
    <3> QED BY <2>12, <3>5, <3>6, <3>7
  <2>17. CASE p.op \notin Opening \cup Shutting \cup {"ioctl"}
    <3>1. s.opened = opened[c]
      BY <1>1, <2>2, <2>17 DEF ServedOK, Opening, Shutting
    <3>2. Held(C, f, c, ren) = Held(p, f, c, ren)
      BY <2>5, <2>17 DEF Held
    <3> QED BY <2>14, <3>1, <3>2
  <2> QED BY <2>15, <2>16, <2>17
<1>7. ASSUME NEW d \in Conns, Live(d)', NEW u \in Threads
      PROVE  AtPc(u, d)' = Held(call'[u], file[u], d, ren)
  <2>1. Live(d)
    BY <1>1, <1>7 DEF Live
  <2> QED BY <1>5, <1>6, <1>7, <2>1
<1>8. \A u \in Threads, d \in Conns :
         Held(call[u], file[u], d, flags.renamed_fd)' = Held(call'[u], file[u], d, ren)
  BY <1>1 DEF Held, Told, Answer, LeftOf, Has
<1> QED BY <1>7, <1>8 DEF DescriptorsSound

\* A connection that is installed is one nobody has used.
LEMMA InstallHands ==
    ASSUME IInv, ServerInstalls
    PROVE  DescriptorsSound'
<1>1. /\ server.at = "install" /\ sock' = server.conn
      /\ UNCHANGED <<call, file, flags, link, opened>>
  BY DEF ServerInstalls, pc
<1>2. ASSUME NEW c \in Conns, Live(c)', NEW t \in Threads
      PROVE  AtPc(t, c)' = {} /\ Held(call[t], file[t], c, flags.renamed_fd) = {}
  <2>1. Untouched(c) /\ t # Nobody
    BY <1>1, <1>2, ConstantsAre DEF Live, Untouched
  <2>2. call[t].conn # c /\ file[t].conn # c /\ \A d \in Fds : opened[c][d] = Nobody
    BY <2>1 DEF IInv, FreshSound
  <2>3. AtPc(t, c)' = {}
    BY <1>1, <2>1, <2>2 DEF AtPc
  <2>4. Has(file[t], c) = {} /\ ~ Told(call[t], c)
    BY <2>2 DEF Has, Told
  <2> QED BY <2>3, <2>4 DEF Held, LeftOf
<1>3. \A u \in Threads, d \in Conns :
         Held(call[u], file[u], d, flags.renamed_fd)' = Held(call[u], file[u], d, flags.renamed_fd)
  BY <1>1 DEF Held, Told, Answer, LeftOf, Has
<1> QED BY <1>2, <1>3 DEF DescriptorsSound

LEMMA DescriptorsStep ==
    ASSUME IInv, [Next]_vars, Fine, Fine', FilesSound, UsesSound, RequestsSound, RenameAlone,
           RenamedOpen, DescriptorsSound
    PROVE  DescriptorsSound'
<1>1. ASSUME UNCHANGED <<call, file>>, flags'.renamed_fd = flags.renamed_fd,
             \A c \in Conns : Live(c)' => Live(c) /\ opened'[c] = opened[c]
      PROVE  DescriptorsSound'
  <2>1. \A u \in Threads, d \in Conns :
           Held(call[u], file[u], d, flags.renamed_fd)' = Held(call[u], file[u], d, flags.renamed_fd)
    BY <1>1 DEF Held, Told, Answer, LeftOf, Has
  <2>2. \A u \in Threads, d \in Conns : Live(d)' => AtPc(u, d)' = AtPc(u, d)
    BY <1>1 DEF AtPc
  <2> QED BY <1>1, <2>1, <2>2 DEF DescriptorsSound
<1>2. CASE UNCHANGED vars
  BY <1>1, <1>2 DEF vars, driver, pc, Live
<1>3. ASSUME NEW t \in Threads, Dummy(t) PROVE DescriptorsSound'
  <2>1. flags'.renamed_fd = flags.renamed_fd /\ UNCHANGED <<sock, call, file, link, opened>>
    BY <1>3, FlagsAre DEF Dummy, Rest, Unflagged, pc
  <2> QED BY <1>1, <2>1 DEF Live
<1>4. CASE \E t \in Threads : Enters(t)
  BY <1>3, <1>4, EntersAre, EnterHands
<1>5. ASSUME NEW t \in Threads, GoesOn(t), ~ Spins(t) PROVE DescriptorsSound'
  BY <1>5, OnHands, ReturnHands
<1>6. ASSUME NEW c \in Conns, PcCloses(c) \/ LinkLost(c) PROVE DescriptorsSound'
  <2>1. /\ link \in [Conns -> {"none", "open", "shut", "lost", "closed"}]
        /\ opened \in [Conns -> [Fds -> Threads \cup {Nobody}]]
    BY DEF IInv, TypeOK
  <2>2. link'[c] # "open" /\ UNCHANGED <<sock, call, file, flags>>
        /\ \A d \in Conns \ {c} : link'[d] = link[d] /\ opened'[d] = opened[d]
    BY <1>6, <2>1 DEF PcCloses, LinkLost, driver
  <2>3. \A d \in Conns : Live(d)' => Live(d) /\ opened'[d] = opened[d]
    BY <2>2 DEF Live
  <2> QED BY <1>1, <2>2, <2>3
<1>7. ASSUME NEW c \in Conns, ServerAccepts(c) PROVE DescriptorsSound'
  <2>1. sock # c
    BY <1>7 DEF IInv, FreshSound, Untouched, ServerAccepts
  <2>2. \A d \in Conns : ~ Live(d)'
    BY <1>7, <2>1 DEF ServerAccepts, Live
  <2> QED BY <2>2 DEF DescriptorsSound
<1>8. CASE ServerStarts
  BY <1>1, <1>8 DEF ServerStarts, pc, Live
<1> QED BY <1>2, <1>4, <1>5, <1>6, <1>7, <1>8, InstallHands, ServeHands DEF Next, Pc, Spins

-----------------------------------------------------------------------------
LEMMA InitUseInv == Init => UseInv
<1> SUFFICES ASSUME Init PROVE UseInv
  OBVIOUS
<1>1. \A t \in Threads : call[t] = NoCall /\ file[t] = NoFile
  BY DEF Init
<1>2. FilesSound
  BY <1>1, NoCallIs, KindsApart DEF FilesSound, FileOK
<1>3. RemovalsSound
  <2>1. DOMAIN <<>> = {}
    OBVIOUS
  <2>2. \A c \in Conns : requests[c] = <<>>
    BY DEF Init
  <2>3. \A c \in Conns : \A i \in DOMAIN requests[c] : ~ requests[c][i].made
    BY <2>1, <2>2
  <2>4. \A n \in Names : disk[n] # "ghost"
    BY DEF Init
  <2> QED BY <1>1, <2>3, <2>4, NoCallIs DEF RemovalsSound, Removing
<1>4. UsesSound /\ RequestsSound
  BY <1>1, NoCallIs, KindsApart DEF UsesSound, UseOK, RequestsSound, Waiting
<1>5. RenameAlone
  BY <1>1, NoCallIs DEF RenameAlone, Renaming
<1>6. RenamedOpen
  BY DEF RenamedOpen, Init, Fds
<1>7. DescriptorsSound
  BY ConstantsAre DEF DescriptorsSound, Live, Init
<1> QED BY <1>2, <1>3, <1>4, <1>5, <1>6, <1>7 DEF UseInv

LEMMA NextUseInv == IInv /\ UseInv /\ [Next]_vars => UseInv'
BY MishapsStay, FilesStep, RemovalsStep, UsesStep, RequestsStep, RenameStep, DescriptorsStep
   DEF UseInv

\* Removals and descriptors are sound in every state the driver reaches, until another
\* thread calls between a removal and its mkdir or a rename and its close, or the
\* connection is replaced under a call or under an open file.
THEOREM UseAlwaysSound == Spec => []UseInv
BY HostAlwaysSound, InitUseInv, NextUseInv, PTL DEF Spec

\* Removing a file through the I/O manager, whatever fails in it, makes no folder.
THEOREM NeverGhosts == Spec => []NoGhosts
<1>1. UseInv => NoGhosts
  BY DEF UseInv, RemovalsSound, NoGhosts
<1> QED BY <1>1, UseAlwaysSound, PTL

\* The descriptors the PC holds for a thread are those of the file the thread has open, for
\* any number of descriptors that the PC hands out again and files that are renamed.
THEOREM DescriptorsAlwaysAgree == Spec => []DescriptorsAgree
<1>1. ASSUME UseInv, Fine, NEW c \in Conns, NEW t \in Threads, Live(c), ~ Handling(t)
      PROVE  LET has == {f \in {file[t].fd} : file[t].kind # "none" /\ file[t].conn = c}
                 at_pc == {f \in Fds : opened[c][f] = t}
             IN  at_pc \subseteq has /\ (~ file[t].renamed => at_pc = has)
  <2>1. AtPc(t, c) = Held(call[t], file[t], c, flags.renamed_fd)
    BY <1>1 DEF UseInv, DescriptorsSound
  <2>2. Held(call[t], file[t], c, flags.renamed_fd) = LeftOf(file[t], c, flags.renamed_fd)
    BY <1>1 DEF Handling, Held, Opening, Shutting
  <2>3. AtPc(t, c) \subseteq Has(file[t], c) /\ (~ file[t].renamed => AtPc(t, c) = Has(file[t], c))
    BY <2>1, <2>2 DEF LeftOf
  <2> QED BY <2>3 DEF AtPc, Has
<1>2. UseInv => DescriptorsAgree
  BY <1>1 DEF DescriptorsAgree
<1> QED BY <1>2, UseAlwaysSound, PTL
=============================================================================
