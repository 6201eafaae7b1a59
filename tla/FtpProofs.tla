------------------------------ MODULE FtpProofs ------------------------------
(***************************************************************************)
(* What holds of the FTP server for any number of clients, sockets and     *)
(* attempts to log in.  The lemmas follow the code: the least free socket, *)
(* what each handler does to a session and the sockets, the list of        *)
(* clients; the theorems go through the steps of a round.                  *)
(***************************************************************************)
EXTENDS FtpServer, WellFoundedInduction, SequenceTheorems, TLAPS

(***************************************************************************)
(* A world of an attached client's handler.  others are the sockets that   *)
(* belong to the server, to the other clients and to nobody; what is fresh *)
(* among them was so before the handler ran.                               *)
(***************************************************************************)
Own(s) == {s.ctl, s.data} \ {NoFd}

Owned(x, others) ==
    /\ x.open = others \cup Own(x.s)
    /\ Own(x.s) \cap others = {}
    /\ x.s.ctl # x.s.data
    /\ x.fresh \cap others \subseteq fresh

Worlds == [s : Session, open : SUBSET Fds, fresh : SUBSET Fds,
           ev : {"none", "phantom"}]

WorldOK(x, others) ==
    /\ x \in Worlds
    /\ x.s.server /\ x.s.ctl # NoFd
    /\ Owned(x, others)

\* A data connection is under way exactly when there is a data socket.
Connected(s) == s.conn = "idle" <=> s.data = NoFd

\* Nothing is open to be transferred without one.
Handled(s) == s.conn = "idle" => s.fs = "closed"

Fit(x, others) == WorldOK(x, others) /\ Connected(x.s) /\ Handled(x.s)

-----------------------------------------------------------------------------
(* Sockets.                                                                *)

\* A nonempty set of numbers has a least one.
LEMMA LeastIn ==
    ASSUME NEW S \in SUBSET Nat, S # {}
    PROVE  Least(S) \in S /\ \A j \in S : Least(S) <= j
<1> DEFINE less == OpToRel(<, Nat)
<1>1. \A i, j \in Nat : <<j, i>> \in less <=> j < i
  BY DEF OpToRel
<1>2. IsWellFoundedOn(less, Nat)
  BY NatLessThanWellFounded
<1> HIDE DEF less
<1>3. PICK i \in S : \A j \in S : ~ (<<j, i>> \in less)
  BY <1>2, WFMin
<1>4. ASSUME NEW j \in S PROVE i <= j
  <2>1. i \in Nat /\ j \in Nat /\ ~ (j < i)
    BY <1>1, <1>3
  <2> QED BY <2>1
<1> QED BY <1>3, <1>4 DEF Least

LEMMA FdsAre == Fds \subseteq Nat /\ ServerFd \in Fds /\ NoFd \notin Fds /\ NoFd # ServerFd
BY FtpAssumption DEF Fds, ServerFd, NoFd

\* A new socket has a number that is free.
LEMMA NewFdFree ==
    ASSUME NEW x, CanOpen(x)
    PROVE  NewFd(x) \in Fds /\ NewFd(x) \notin x.open /\ NewFd(x) # NoFd
BY LeastIn, FdsAre DEF CanOpen, NewFd

-----------------------------------------------------------------------------
(* Handlers.                                                               *)

LEMMA ClosedFields ==
    ASSUME NEW x \in Worlds, NEW fd
    PROVE  /\ Closed(x, fd) \in Worlds
           /\ Closed(x, fd).s = x.s
           /\ Closed(x, fd).open = x.open \ {fd}
           /\ Closed(x, fd).ev = x.ev
           /\ Closed(x, fd).fresh = x.fresh \ {fd}
BY DEF Closed, Worlds

LEMMA OpenedFields ==
    ASSUME NEW x \in Worlds, NEW fd \in Fds
    PROVE  /\ Opened(x, fd) \in Worlds
           /\ Opened(x, fd).s = x.s
           /\ Opened(x, fd).open = x.open \cup {fd}
           /\ Opened(x, fd).ev = x.ev
           /\ Opened(x, fd).fresh = x.fresh \cup {fd}
BY DEF Opened, Worlds

\* A session keeps its control socket while its data connection changes.
Same(s, t) == t \in Session /\ t.server = s.server /\ t.ctl = s.ctl

LEMMA CleanupFields ==
    ASSUME NEW x \in Worlds
    PROVE  LET y == OnDataCleanup(x)
           IN  /\ y \in Worlds
               /\ y.open = x.open \ {x.s.data}
               /\ y.fresh = x.fresh \ {x.s.data}
               /\ y.ev = x.ev
               /\ y.s.data = NoFd /\ y.s.conn = "idle" /\ y.s.fs = "closed"
               /\ Same(x.s, y.s)
<1> DEFINE z == Closed(x, x.s.data)
           v == [z EXCEPT !.s.fs = "closed", !.s.data = NoFd]
           y == [v EXCEPT !.s.port = FALSE, !.s.conn = "idle", !.s.mode = "idle"]
<1>1. /\ z \in Worlds /\ z.s = x.s /\ z.open = x.open \ {x.s.data} /\ z.ev = x.ev
      /\ z.fresh = x.fresh \ {x.s.data}
  BY ClosedFields
<1> HIDE DEF z
<1>2. OnDataCleanup(x) = y
  BY DEF OnDataCleanup, z
<1>3. /\ v \in Worlds /\ v.open = z.open /\ v.ev = z.ev /\ v.fresh = z.fresh
      /\ v.s.fs = "closed" /\ v.s.data = NoFd /\ Same(z.s, v.s)
  BY <1>1 DEF Worlds, Session, Same
<1> HIDE DEF v
<1>4. /\ y.s = [v.s EXCEPT !.port = FALSE, !.conn = "idle", !.mode = "idle"]
      /\ y.open = v.open /\ y.ev = v.ev /\ y.fresh = v.fresh /\ y = [v EXCEPT !.s = y.s]
  BY <1>3 DEF Worlds, Session
<1>5. /\ y.s \in Session /\ y.s.conn = "idle" /\ y.s.fs = v.s.fs /\ y.s.data = v.s.data
      /\ y.s.server = v.s.server /\ y.s.ctl = v.s.ctl
  BY <1>3, <1>4 DEF Worlds, Session
<1>6. y \in Worlds /\ Same(v.s, y.s)
  <2> HIDE DEF y
  <2> QED BY <1>3, <1>4, <1>5 DEF Worlds, Same
<1> HIDE DEF y
<1> QED BY <1>1, <1>2, <1>3, <1>4, <1>5, <1>6 DEF Same

LEMMA CleanupOK ==
    ASSUME NEW x, NEW others, WorldOK(x, others)
    PROVE  Fit(OnDataCleanup(x), others) /\ OnDataCleanup(x).s.data = NoFd
<1> DEFINE y == OnDataCleanup(x)
<1>1. /\ y \in Worlds /\ y.open = x.open \ {x.s.data} /\ y.fresh = x.fresh \ {x.s.data}
      /\ y.s.data = NoFd /\ y.s.conn = "idle" /\ y.s.fs = "closed"
      /\ y.s.server /\ y.s.ctl = x.s.ctl
  BY CleanupFields DEF WorldOK, Same
<1> HIDE DEF y
<1>2. NoFd \notin others
  BY FdsAre DEF WorldOK, Worlds, Owned
<1>3. Owned(y, others)
  BY <1>1, <1>2 DEF WorldOK, Owned, Own
<1> QED BY <1>1, <1>3 DEF Fit, WorldOK, Connected, Handled, y

\* A change of the session alone that keeps its sockets.
LEMMA SessionOnly ==
    ASSUME NEW x, NEW others, WorldOK(x, others), NEW y \in Worlds,
           y.open = x.open, y.fresh = x.fresh, y.s.data = x.s.data, Same(x.s, y.s)
    PROVE  WorldOK(y, others)
BY DEF WorldOK, Owned, Own, Same

LEMMA FailedOK ==
    ASSUME NEW x, NEW others, WorldOK(x, others)
    PROVE  Fit(OnDataFailed(x), others)
<1> DEFINE y == [x EXCEPT !.s.action = "none"]
<1>1. /\ y \in Worlds /\ y.open = x.open /\ y.fresh = x.fresh
      /\ y.s.data = x.s.data /\ Same(x.s, y.s)
  BY DEF WorldOK, Worlds, Session, Same
<1>2. WorldOK(y, others)
  BY <1>1, SessionOnly
<1> QED BY <1>2, CleanupOK DEF OnDataFailed

LEMMA ConnectedOK ==
    ASSUME NEW x, NEW others, WorldOK(x, others), x.s.data # NoFd
    PROVE  Fit(OnDataConnected(x), others)
<1> DEFINE mode == CASE x.s.action = "none" -> "idle"
                     [] x.s.action = "stor" -> "read"
                     [] OTHER               -> "write"
           ev == IF x.s.action # "none" /\ x.s.fs = "closed" THEN "phantom" ELSE "none"
           y == [x EXCEPT !.s.conn = "running", !.s.mode = mode, !.ev = ev]
<1>1. mode \in {"idle", "read", "write"} /\ ev \in {"none", "phantom"}
  OBVIOUS
<1>2. OnDataConnected(x) = y
  BY DEF OnDataConnected
<1> HIDE DEF mode, ev
<1>3. y \in Worlds /\ y.open = x.open /\ y.fresh = x.fresh
  BY <1>1 DEF WorldOK, Worlds, Session
<1>4. y.s.data = x.s.data /\ Same(x.s, y.s) /\ y.s.conn = "running"
  BY <1>1 DEF WorldOK, Worlds, Session, Same
<1> HIDE DEF y
<1>5. WorldOK(y, others)
  BY <1>3, <1>4, SessionOnly
<1> QED BY <1>2, <1>4, <1>5 DEF Fit, Connected, Handled

\* The new socket of a data connection, in the place of none.
LEMMA SocketOK ==
    ASSUME NEW x, NEW others, WorldOK(x, others), x.s.data = NoFd, CanOpen(x),
           NEW conn \in {"idle", "listen", "connect", "running"}
    PROVE  LET y == [Opened(x, NewFd(x)) EXCEPT !.s.data = NewFd(x), !.s.conn = conn]
               z == [Opened(x, NewFd(x)) EXCEPT !.s.data = NewFd(x)]
           IN  /\ WorldOK(y, others) /\ y.s.data # NoFd /\ y.s.conn = conn
               /\ WorldOK(z, others) /\ z.s.data # NoFd /\ z.s.conn = x.s.conn
<1> DEFINE fd == NewFd(x)
           u == Opened(x, fd)
           y == [u EXCEPT !.s.data = fd, !.s.conn = conn]
           z == [u EXCEPT !.s.data = fd]
<1>1. fd \in Fds /\ fd \notin x.open /\ fd # NoFd
  BY NewFdFree
<1> HIDE DEF fd
<1>2. /\ u \in Worlds /\ u.s = x.s /\ u.open = x.open \cup {fd}
      /\ u.fresh = x.fresh \cup {fd}
  BY <1>1, OpenedFields DEF WorldOK
<1> HIDE DEF u
<1>3. /\ y \in Worlds /\ y.open = u.open /\ y.fresh = u.fresh /\ y.s.data = fd /\ y.s.conn = conn
      /\ Same(u.s, y.s)
  BY <1>1, <1>2 DEF Worlds, Session, Same
<1>4. /\ z \in Worlds /\ z.open = u.open /\ z.fresh = u.fresh /\ z.s.data = fd /\ z.s.conn = u.s.conn
      /\ Same(u.s, z.s)
  BY <1>1, <1>2 DEF Worlds, Session, Same
<1> HIDE DEF y, z
<1>5. WorldOK(y, others)
  BY <1>1, <1>2, <1>3 DEF WorldOK, Owned, Own, Same
<1>6. WorldOK(z, others)
  BY <1>1, <1>2, <1>4 DEF WorldOK, Owned, Own, Same
<1> QED BY <1>1, <1>2, <1>3, <1>4, <1>5, <1>6 DEF fd, u, y, z

LEMMA ConnectOK ==
    ASSUME NEW x, NEW others, WorldOK(x, others)
    PROVE  \A y \in OnDataConnect(x) : Fit(y, others)
<1> DEFINE z == Closed(x, x.s.data)
           bare == [z EXCEPT !.s.data = NoFd]
           u == [Opened(bare, NewFd(bare)) EXCEPT !.s.data = NewFd(bare)]
           v == [Opened(bare, NewFd(bare)) EXCEPT !.s.data = NewFd(bare), !.s.conn = "connect"]
<1>1. /\ z \in Worlds /\ z.s = x.s /\ z.open = x.open \ {x.s.data}
      /\ z.fresh = x.fresh \ {x.s.data}
  BY ClosedFields DEF WorldOK
<1> HIDE DEF z
<1>2. /\ bare \in Worlds /\ bare.open = z.open /\ bare.fresh = z.fresh
      /\ bare.s.data = NoFd /\ Same(z.s, bare.s)
  BY <1>1 DEF Worlds, Session, Same
<1>3. OnDataConnect(x) = IF ~ CanOpen(bare) THEN {OnDataFailed(bare)}
                         ELSE {OnDataConnected(u), [u EXCEPT !.s.conn = "connect"], OnDataFailed(u)}
  BY DEF OnDataConnect, z
<1> HIDE DEF bare
<1>4. NoFd \notin others
  BY FdsAre DEF WorldOK, Worlds, Owned
<1>5. WorldOK(bare, others)
  BY <1>1, <1>2, <1>4 DEF WorldOK, Owned, Own, Same
<1>6. CASE ~ CanOpen(bare)
  BY <1>3, <1>5, <1>6, FailedOK
<1>7. CASE CanOpen(bare)
  <2>1. /\ WorldOK(v, others) /\ v.s.data # NoFd /\ v.s.conn = "connect"
        /\ WorldOK(u, others) /\ u.s.data # NoFd
    BY <1>2, <1>5, <1>7, SocketOK
  <2>2. [u EXCEPT !.s.conn = "connect"] = v
    OBVIOUS
  <2>3. Fit(v, others)
    BY <2>1 DEF Fit, Connected, Handled
  <2> HIDE DEF u, v
  <2> QED BY <1>3, <1>7, <2>1, <2>2, <2>3, ConnectedOK, FailedOK
<1> QED BY <1>6, <1>7

LEMMA HandleDataConnectOK ==
    ASSUME NEW x, NEW others, WorldOK(x, others), Connected(x.s)
    PROVE  \A y \in HandleDataConnect(x) : Fit(y, others)
<1>1. CASE x.s.conn = "running"
  <2>1. HandleDataConnect(x) = {OnDataConnected(x)} /\ x.s.data # NoFd
    BY <1>1 DEF HandleDataConnect, Connected
  <2> QED BY <2>1, ConnectedOK
<1>2. CASE x.s.conn # "running" /\ x.s.port
  BY <1>2, ConnectOK DEF HandleDataConnect
<1>3. CASE x.s.conn # "running" /\ ~ x.s.port /\ x.s.conn # "listen"
  <2>1. HandleDataConnect(x) = {OnDataFailed(x)}
    BY <1>3 DEF HandleDataConnect
  <2> QED BY <2>1, FailedOK
<1>4. CASE ~ x.s.port /\ x.s.conn = "listen"
  <2>1. HandleDataConnect(x) = {x}
    BY <1>4 DEF HandleDataConnect
  <2> QED BY <1>4, <2>1 DEF Fit, Handled
<1> QED BY <1>1, <1>2, <1>3, <1>4

LEMMA AcceptedOK ==
    ASSUME NEW x, NEW others, Fit(x, others), x.s.data # NoFd
    PROVE  \A y \in Accepted(x) : Fit(y, others)
<1>1. CASE ~ CanOpen(x)
  BY <1>1 DEF Accepted
<1>2. CASE CanOpen(x)
  <2> DEFINE fd == NewFd(x)
             u == Opened(x, fd)
             v == Closed(u, x.s.data)
             y == [v EXCEPT !.s.data = fd]
  <2>1. fd \in Fds /\ fd \notin x.open /\ fd # NoFd
    BY <1>2, NewFdFree
  <2>2. Accepted(x) = {OnDataConnected(y)}
    BY <1>2 DEF Accepted
  <2> HIDE DEF fd
  <2>3. /\ u \in Worlds /\ u.s = x.s /\ u.open = x.open \cup {fd}
        /\ u.fresh = x.fresh \cup {fd}
    BY <2>1, OpenedFields DEF Fit, WorldOK
  <2> HIDE DEF u
  <2>4. /\ v \in Worlds /\ v.s = x.s /\ v.open = (x.open \cup {fd}) \ {x.s.data}
        /\ v.fresh = (x.fresh \cup {fd}) \ {x.s.data}
    BY <2>3, ClosedFields
  <2> HIDE DEF v
  <2>5. /\ y \in Worlds /\ y.open = v.open /\ y.fresh = v.fresh
        /\ y.s.data = fd /\ Same(x.s, y.s)
    BY <2>1, <2>4 DEF Worlds, Session, Same
  <2> HIDE DEF y
  <2>6. WorldOK(y, others)
    BY <2>1, <2>4, <2>5 DEF Fit, WorldOK, Owned, Own, Same
  <2> QED BY <2>1, <2>2, <2>5, <2>6, ConnectedOK
<1> QED BY <1>1, <1>2

LEMMA TransferOK ==
    ASSUME NEW x, NEW others, Fit(x, others)
    PROVE  \A y \in OnDataWrite(x) \cup OnDataRead(x) : Fit(y, others)
<1>1. Fit(OnDataComplete(x), others) /\ Fit(OnDataFailed(x), others)
  BY CleanupOK, FailedOK DEF Fit, OnDataComplete
<1>2. OnDataWrite(x) \cup OnDataRead(x) \subseteq {x, OnDataComplete(x), OnDataFailed(x)}
  BY DEF OnDataWrite, OnDataRead
<1> QED BY <1>1, <1>2

\* What is open is closed, and nothing else.
LEMMA ShutOK ==
    ASSUME NEW x, NEW others, Fit(x, others)
    PROVE  Fit(Shut(x), others)
<1> DEFINE y == Shut(x)
<1>1. /\ y \in Worlds /\ y.open = x.open /\ y.fresh = x.fresh
      /\ y.s.data = x.s.data /\ Same(x.s, y.s) /\ y.s.conn = x.s.conn /\ y.s.fs = "closed"
  BY DEF Shut, Fit, WorldOK, Worlds, Session, Same
<1> HIDE DEF y
<1>2. WorldOK(y, others)
  BY <1>1, SessionOnly DEF Fit
<1> QED BY <1>1, <1>2 DEF Fit, Connected, Handled, y

-----------------------------------------------------------------------------
(***************************************************************************)
(* The inductive invariant.  An unused slot holds nothing of a former      *)
(* client, a data socket is there exactly while there is a connection, the *)
(* list names each client once.  A round visits each client once, and no   *)
(* client it has still to visit has a fresh data socket.                   *)
(***************************************************************************)
SessionsSound ==
    \A c \in Slots :
        /\ client[c].server => client[c].ctl # NoFd
        /\ ~ client[c].server => client[c] = Free
        /\ Connected(client[c])

ListSound ==
    /\ \A i \in DOMAIN order : client[order[i]].server
    /\ \A c \in Slots : client[c].server => \E i \in DOMAIN order : order[i] = c
    /\ \A i, j \in DOMAIN order : order[i] = order[j] => i = j

RoundSound ==
    /\ stage = "select" => todo = <<>>
    /\ \A i, j \in DOMAIN todo : todo[i] = todo[j] => i = j
    /\ \A i \in DOMAIN todo :
          i > 1 \/ stage = "control" => client[todo[i]].data \notin fresh

IInv ==
    /\ TypeOK
    /\ SocketsAccounted
    /\ HandlesHaveConnection
    /\ SessionsSound
    /\ ListSound
    /\ RoundSound

Others(c) == {ServerFd} \cup dropped \cup UNION {Sockets(d) : d \in Slots \ {c}}

LEMMA InitIInv == Init => IInv
<1> SUFFICES ASSUME Init PROVE IInv
  OBVIOUS
<1> USE FtpAssumption, FdsAre DEF Init
<1>1. Free \in Session
  BY DEF Free, Session
<1>2. \A c \in Slots : client[c] = Free
  OBVIOUS
<1>3. TypeOK
  <2>1. client \in [Slots -> Session] /\ open \subseteq Fds
    BY <1>1
  <2>2. order \in Seq(Slots) /\ todo \in Seq(Slots)
    BY EmptySeq
  <2> QED BY <2>1, <2>2 DEF TypeOK
<1>4. \A c \in Slots : Sockets(c) = {}
  BY <1>2 DEF Sockets, Free
<1>5. SocketsAccounted
  BY <1>2, <1>4 DEF SocketsAccounted, Free
<1>6. HandlesHaveConnection /\ SessionsSound
  BY <1>2 DEF HandlesHaveConnection, SessionsSound, Connected, Free
<1>7. ListSound /\ RoundSound
  BY <1>2 DEF ListSound, RoundSound, Free
<1> QED BY <1>3, <1>5, <1>6, <1>7 DEF IInv

\* What a handler is given.
LEMMA WorldGood ==
    ASSUME IInv, NEW c \in Slots, client[c].server
    PROVE  Fit(World(c), Others(c))
<1> DEFINE x == World(c)
<1>1. /\ x \in Worlds /\ x.s = client[c] /\ x.open = open /\ x.fresh = fresh
  BY DEF World, Worlds, IInv, TypeOK
<1> HIDE DEF x
<1>2. Sockets(c) = Own(x.s)
  BY <1>1 DEF Sockets, Own
<1>3. open = Others(c) \cup Sockets(c)
  BY DEF IInv, SocketsAccounted, Others
<1>4. Sockets(c) \cap Others(c) = {}
  BY DEF IInv, SocketsAccounted, Others
<1>5. x.s.ctl # NoFd /\ x.s.ctl # x.s.data
  BY <1>1 DEF IInv, SocketsAccounted, SessionsSound
<1>6. WorldOK(x, Others(c))
  BY <1>1, <1>2, <1>3, <1>4, <1>5 DEF WorldOK, Owned
<1> QED BY <1>1, <1>6 DEF Fit, IInv, SessionsSound, HandlesHaveConnection, Handled, x

Kept ==
    /\ client' \in [Slots -> Session] /\ open' \subseteq Fds /\ dropped' \subseteq Fds
    /\ SocketsAccounted' /\ HandlesHaveConnection' /\ SessionsSound'

\* One session and its sockets change, the others stay apart from it; the sockets in lost
\* are open and nobody's.
LEMMA SessionStep ==
    ASSUME IInv, NEW c \in Slots, NEW s \in Session, NEW lost \in SUBSET Fds,
           client' = [client EXCEPT ![c] = s],
           open' = Others(c) \cup Own(s) \cup lost, Own(s) \cap Others(c) = {},
           dropped' = dropped \cup lost, lost \cap (Others(c) \cup Own(s)) = {},
           s.ctl = s.data => s.ctl = NoFd,
           s.server => s.ctl # NoFd, ~ s.server => s = Free,
           Connected(s), Handled(s), open' \subseteq Fds
    PROVE  Kept
<1>1. client' \in [Slots -> Session] /\ client'[c] = s
  BY DEF IInv, TypeOK
<1>2. \A d \in Slots \ {c} : client'[d] = client[d]
  BY DEF IInv, TypeOK
<1>3. Sockets(c)' = Own(s) /\ \A d \in Slots \ {c} : Sockets(d)' = Sockets(d)
  BY <1>1, <1>2 DEF Sockets, Own
<1>4. open' = {ServerFd} \cup dropped' \cup UNION {Sockets(d)' : d \in Slots}
  <2>1. UNION {Sockets(d)' : d \in Slots} = Own(s) \cup UNION {Sockets(d) : d \in Slots \ {c}}
    BY <1>3
  <2> QED BY <2>1 DEF Others
<1>5. ASSUME NEW d \in Slots
      PROVE  /\ client'[d].ctl = client'[d].data => client'[d].ctl = NoFd
             /\ Sockets(d)' \cap ({ServerFd} \cup dropped') = {}
             /\ \A e \in Slots \ {d} : Sockets(d)' \cap Sockets(e)' = {}
  BY <1>1, <1>2, <1>3 DEF IInv, SocketsAccounted, Others
<1>6. SocketsAccounted'
  <2>1. ServerFd \notin dropped'
    BY DEF IInv, SocketsAccounted, Others
  <2> QED BY <1>4, <1>5, <2>1 DEF SocketsAccounted
<1>7. HandlesHaveConnection' /\ SessionsSound'
  BY <1>1, <1>2 DEF IInv, HandlesHaveConnection, SessionsSound, Handled
<1>8. dropped' \subseteq Fds
  BY DEF IInv, TypeOK
<1> QED BY <1>1, <1>6, <1>7, <1>8 DEF Kept

\* What becomes of the session when a handler returns.
LEMMA HandlerStep ==
    ASSUME IInv, NEW c \in Slots, NEW y, Fit(y, Others(c)),
           client' = [client EXCEPT ![c] = y.s], open' = y.open, dropped' = dropped
    PROVE  Kept /\ client'[c].server
<1>1. y.s \in Session /\ open' \subseteq Fds /\ {} \in SUBSET Fds
  BY DEF Fit, WorldOK, Worlds
<1>2. /\ open' = Others(c) \cup Own(y.s) \cup {} /\ Own(y.s) \cap Others(c) = {}
      /\ dropped' = dropped \cup {} /\ {} \cap (Others(c) \cup Own(y.s)) = {}
      /\ y.s.ctl # y.s.data /\ y.s.server /\ y.s.ctl # NoFd
      /\ Connected(y.s) /\ Handled(y.s)
  BY DEF Fit, WorldOK, Owned
<1>3. Kept
  BY <1>1, <1>2, SessionStep
<1> QED BY <1>3 DEF Fit, WorldOK, IInv, TypeOK

\* The clients still to visit after the one at hand keep old data sockets.
LEMMA LaterClients ==
    ASSUME IInv, NEW c \in Slots, Turn(c), NEW f, f \cap Others(c) \subseteq fresh,
           NoFd \notin f, \A d \in Slots \ {c} : client'[d] = client[d]
    PROVE  \A i \in DOMAIN todo : i > 1 => client'[todo[i]].data \notin f
<1> SUFFICES ASSUME NEW i \in DOMAIN todo, i > 1
             PROVE  client'[todo[i]].data \notin f
  OBVIOUS
<1> DEFINE d == todo[i]
<1>1. /\ DOMAIN todo = 1 .. Len(todo) /\ Len(todo) \in Nat
      /\ d \in Slots
  BY ElementOfSeq, LenProperties DEF IInv, TypeOK
<1>2. c = todo[1] /\ 1 \in DOMAIN todo
  BY <1>1, HeadTailProperties DEF Turn, IInv, TypeOK
<1>3. d # c /\ client[d].data \notin fresh
  BY <1>2 DEF IInv, RoundSound
<1> HIDE DEF d
<1>4. client[d].data = NoFd \/ client[d].data \in Others(c)
  BY <1>1, <1>3 DEF Others, Sockets
<1>5. client'[d] = client[d]
  BY <1>1, <1>3
<1>6. client'[d].data \notin f
  BY <1>3, <1>4, <1>5
<1> QED BY <1>6 DEF d

-----------------------------------------------------------------------------
(* The list of clients.                                                    *)

\* p is q without its k-th element, which no other is equal to.
Shortened(q, k, p, S) ==
    /\ p \in Seq(S)
    /\ \A i \in DOMAIN p : p[i] # q[k] /\ \E j \in 1 .. Len(q) : p[i] = q[j]
    /\ \A j \in 1 .. Len(q) : q[j] # q[k] => \E i \in DOMAIN p : p[i] = q[j]
    /\ \A i, j \in DOMAIN p : p[i] = p[j] => i = j

\* A client leaves the list, and the others stay in it.
LEMMA RemovedOK ==
    ASSUME NEW S, NEW q \in Seq(S), NEW k \in 1 .. Len(q),
           \A i, j \in 1 .. Len(q) : q[i] = q[j] => i = j
    PROVE  Shortened(q, k, SubSeq(q, 1, k - 1) \o SubSeq(q, k + 1, Len(q)), S)
<1> DEFINE n == Len(q)
           a == SubSeq(q, 1, k - 1)
           b == SubSeq(q, k + 1, n)
           p == a \o b
<1>1. n \in Nat /\ \A i \in 1 .. n : q[i] \in S
  BY LenProperties, ElementOfSeq
<1>2. /\ a \in Seq(S) /\ Len(a) = k - 1
      /\ \A i \in 1 .. k - 1 : a[i] = q[i]
  <2>1. /\ 1 \in Int /\ k - 1 \in Int /\ \A i \in 1 .. k - 1 : q[i] \in S
    BY <1>1
  <2>2. /\ a \in Seq(S) /\ Len(a) = (IF 1 <= k - 1 THEN (k - 1) - 1 + 1 ELSE 0)
        /\ \A i \in 1 .. (k - 1) - 1 + 1 : a[i] = q[1 + i - 1]
    BY <2>1, SubSeqProperties
  <2> HIDE DEF a
  <2> QED BY <1>1, <2>2
<1>3. /\ b \in Seq(S) /\ Len(b) = n - k
      /\ \A i \in 1 .. n - k : b[i] = q[k + i]
  <2>1. /\ k + 1 \in Int /\ n \in Int /\ \A i \in k + 1 .. n : q[i] \in S
    BY <1>1
  <2>2. /\ b \in Seq(S) /\ Len(b) = (IF k + 1 <= n THEN n - (k + 1) + 1 ELSE 0)
        /\ \A i \in 1 .. n - (k + 1) + 1 : b[i] = q[(k + 1) + i - 1]
    BY <2>1, SubSeqProperties
  <2> HIDE DEF b
  <2>3. ASSUME NEW i \in 1 .. n - k PROVE b[i] = q[k + i]
    <3>1. i \in 1 .. n - (k + 1) + 1 /\ (k + 1) + i - 1 = k + i
      BY <1>1
    <3> QED BY <2>2, <3>1
  <2> QED BY <1>1, <2>2, <2>3
<1> HIDE DEF a, b
<1>4. /\ p \in Seq(S) /\ Len(p) = n - 1
      /\ \A i \in 1 .. n - 1 : p[i] = IF i < k THEN q[i] ELSE q[i + 1]
  <2>1. /\ p \in Seq(S) /\ Len(p) = Len(a) + Len(b)
        /\ \A i \in 1 .. Len(a) + Len(b) : p[i] = IF i <= Len(a) THEN a[i] ELSE b[i - Len(a)]
    <3>1. a \in Seq(S) /\ b \in Seq(S)
      BY <1>2, <1>3
    <3> QED BY <3>1, ConcatProperties
  <2> HIDE DEF p
  <2>2. Len(a) + Len(b) = n - 1
    BY <1>1, <1>2, <1>3
  <2>3. ASSUME NEW i \in 1 .. n - 1 PROVE p[i] = IF i < k THEN q[i] ELSE q[i + 1]
    <3>1. CASE i < k
      <4>1. i <= Len(a) /\ i \in 1 .. k - 1
        BY <1>1, <1>2, <3>1
      <4> QED BY <1>2, <2>1, <2>2, <3>1, <4>1
    <3>2. CASE ~ (i < k)
      <4>1. ~ (i <= Len(a)) /\ i - Len(a) \in 1 .. n - k /\ k + (i - Len(a)) = i + 1
        BY <1>1, <1>2, <3>2
      <4> QED BY <1>3, <2>1, <2>2, <3>2, <4>1
    <3> QED BY <3>1, <3>2
  <2> QED BY <2>1, <2>2, <2>3
<1> HIDE DEF p
<1>5. DOMAIN p = 1 .. n - 1
  BY <1>4, LenProperties
<1>6. ASSUME NEW i \in 1 .. n - 1
      PROVE  p[i] # q[k] /\ \E j \in 1 .. n : p[i] = q[j]
  BY <1>1, <1>4
<1>7. ASSUME NEW j \in 1 .. n, q[j] # q[k]
      PROVE  \E i \in 1 .. n - 1 : p[i] = q[j]
  <2>1. CASE j < k
    <3>1. j \in 1 .. n - 1
      BY <1>1, <2>1
    <3> QED BY <1>4, <2>1, <3>1
  <2>2. CASE j > k
    <3>1. j - 1 \in 1 .. n - 1 /\ ~ (j - 1 < k) /\ (j - 1) + 1 = j
      BY <1>1, <2>2
    <3> QED BY <1>4, <3>1
  <2> QED BY <1>1, <1>7, <2>1, <2>2
<1>8. ASSUME NEW i \in 1 .. n - 1, NEW j \in 1 .. n - 1, p[i] = p[j]
      PROVE  i = j
  <2> DEFINE at(h) == IF h < k THEN h ELSE h + 1
  <2>1. /\ at(i) \in 1 .. n /\ at(j) \in 1 .. n
        /\ p[i] = q[at(i)] /\ p[j] = q[at(j)]
    BY <1>1, <1>4
  <2>2. at(i) = at(j)
    BY <1>8, <2>1
  <2> QED BY <1>1, <2>2
<1>9. Shortened(q, k, p, S)
  BY <1>4, <1>5, <1>6, <1>7, <1>8 DEF Shortened
<1> QED BY <1>9 DEF p, a, b

\* Only Append and the removal of a client change the list.
LEMMA SameList ==
    ASSUME IInv, order' = order, client' \in [Slots -> Session],
           \A c \in Slots : client'[c].server = client[c].server
    PROVE  ListSound'
<1>1. \A i \in DOMAIN order : order[i] \in Slots
  BY ElementOfSeq, LenProperties DEF IInv, TypeOK
<1> QED BY <1>1 DEF IInv, ListSound

LEMMA AppendedList ==
    ASSUME IInv, NEW c \in Slots, ~ client[c].server,
           order' = Append(order, c), client' \in [Slots -> Session],
           client'[c].server, \A d \in Slots \ {c} : client'[d] = client[d]
    PROVE  ListSound' /\ order' \in Seq(Slots)
<1> DEFINE n == Len(order)
<1>1. /\ n \in Nat /\ DOMAIN order = 1 .. n
      /\ \A i \in 1 .. n : order[i] \in Slots
  BY ElementOfSeq, LenProperties DEF IInv, TypeOK
<1>2. /\ order' \in Seq(Slots) /\ Len(order') = n + 1
      /\ \A i \in 1 .. n : order'[i] = order[i]
      /\ order'[n + 1] = c
  BY AppendProperties DEF IInv, TypeOK
<1> HIDE DEF n
<1>3. DOMAIN order' = 1 .. n + 1
  BY <1>2, LenProperties
<1>4. \A i \in 1 .. n + 1 : i \in 1 .. n \/ i = n + 1
  BY <1>1
<1>5. \A i \in 1 .. n : order[i] # c /\ client[order[i]].server
  BY <1>1 DEF IInv, ListSound
<1>6. \A i \in 1 .. n + 1 : client'[order'[i]].server
  BY <1>1, <1>2, <1>4, <1>5
<1>7. ASSUME NEW d \in Slots, client'[d].server
      PROVE  \E i \in 1 .. n + 1 : order'[i] = d
  <2>1. CASE d = c
    BY <1>1, <1>2, <2>1
  <2>2. CASE d # c
    <3>1. PICK i \in 1 .. n : order[i] = d
      BY <1>1, <1>7, <2>2 DEF IInv, ListSound
    <3> QED BY <1>1, <1>2, <3>1
  <2> QED BY <2>1, <2>2
<1>8. ASSUME NEW i \in 1 .. n + 1, NEW j \in 1 .. n + 1, order'[i] = order'[j]
      PROVE  i = j
  BY <1>1, <1>2, <1>4, <1>5, <1>8 DEF IInv, ListSound
<1> QED BY <1>2, <1>3, <1>6, <1>7, <1>8 DEF ListSound

LEMMA ShortenedList ==
    ASSUME IInv, NEW c \in Slots, client[c].server,
           order' = SubSeq(order, 1, Position(c) - 1) \o SubSeq(order, Position(c) + 1, Len(order)),
           client' \in [Slots -> Session],
           ~ client'[c].server, \A d \in Slots \ {c} : client'[d] = client[d]
    PROVE  ListSound' /\ order' \in Seq(Slots)
<1> DEFINE k == Position(c)
<1>1. /\ order \in Seq(Slots) /\ DOMAIN order = 1 .. Len(order)
      /\ \A i \in 1 .. Len(order) : order[i] \in Slots
  BY ElementOfSeq, LenProperties DEF IInv, TypeOK
<1>2. k \in DOMAIN order /\ order[k] = c
  BY DEF IInv, ListSound, Position
<1>3. \A i, j \in 1 .. Len(order) : order[i] = order[j] => i = j
  BY <1>1 DEF IInv, ListSound
<1>4. order' = SubSeq(order, 1, k - 1) \o SubSeq(order, k + 1, Len(order))
  OBVIOUS
<1> HIDE DEF k
<1>5. Shortened(order, k, order', Slots)
  <2>1. k \in 1 .. Len(order)
    BY <1>1, <1>2
  <2>2. Shortened(order, k, SubSeq(order, 1, k - 1) \o SubSeq(order, k + 1, Len(order)), Slots)
    BY <1>1, <1>3, <2>1, RemovedOK
  <2> QED BY <1>4, <2>2
<1>6. ASSUME NEW i \in DOMAIN order' PROVE client'[order'[i]].server
  <2>1. PICK j \in 1 .. Len(order) : order'[i] = order[j]
    BY <1>5 DEF Shortened
  <2>2. order'[i] # c
    BY <1>2, <1>5 DEF Shortened
  <2>3. client[order[j]].server
    BY <1>1 DEF IInv, ListSound
  <2> QED BY <1>1, <2>1, <2>2, <2>3
<1>7. ASSUME NEW d \in Slots, client'[d].server
      PROVE  \E i \in DOMAIN order' : order'[i] = d
  <2>1. PICK i \in 1 .. Len(order) : order[i] = d
    BY <1>1, <1>7 DEF IInv, ListSound
  <2> QED BY <1>2, <1>5, <1>7, <2>1 DEF Shortened
<1> QED BY <1>5, <1>6, <1>7 DEF ListSound, Shortened

-----------------------------------------------------------------------------
(* The steps of a round.                                                   *)

LEMMA TurnOf ==
    ASSUME IInv, NEW c \in Slots
    PROVE  /\ Command(c) => client[c].server
           /\ Ready(c) => client[c].server /\ client[c].data # NoFd
<1>1. Free.ctl = NoFd /\ Free.data = NoFd
  BY DEF Free
<1>2. Command(c) => client[c].ctl # NoFd
  BY FdsAre DEF Command, IInv, TypeOK
<1>3. Ready(c) => client[c].data # NoFd
  BY DEF Ready, Tested, HasData
<1> QED BY <1>1, <1>2, <1>3 DEF IInv, SessionsSound

LEMMA ReadFdsIn == IInv => ReadFds \subseteq Fds /\ WriteFds \subseteq Fds
<1> SUFFICES ASSUME IInv PROVE ReadFds \subseteq Fds /\ WriteFds \subseteq Fds
  OBVIOUS
<1>1. \A c \in Slots : /\ client[c].ctl \in Fds \cup {NoFd} /\ client[c].data \in Fds \cup {NoFd}
                       /\ client[c].server => client[c].ctl # NoFd
  BY DEF IInv, TypeOK, Session, SessionsSound
<1>2. Using(Attached, ForReading) \subseteq Fds /\ Using(Attached, ForWriting) \subseteq Fds
  BY <1>1 DEF Using, Attached
<1> QED BY <1>1, <1>2, FdsAre DEF ReadFds, WriteFds, Attached

\* The round goes on, and no session changes.
LEMMA SameSessions ==
    ASSUME IInv, UNCHANGED <<client, order, open, dropped>>
    PROVE  SocketsAccounted' /\ HandlesHaveConnection' /\ SessionsSound' /\ ListSound'
<1>1. \A c \in Slots : Sockets(c)' = Sockets(c)
  BY DEF Sockets
<1>2. SocketsAccounted'
  BY <1>1 DEF IInv, SocketsAccounted
<1>3. HandlesHaveConnection' /\ SessionsSound' /\ ListSound'
  BY DEF IInv, HandlesHaveConnection, SessionsSound, ListSound
<1> QED BY <1>2, <1>3

\* The round goes on with the clients of list.
LEMMA VisitOK ==
    ASSUME IInv, NEW c \in Slots, Turn(c), NEW f \in SUBSET Fds, Visit(Rest, f),
           f \cap Others(c) \subseteq fresh, \A d \in Slots \ {c} : client'[d] = client[d]
    PROVE  /\ todo' \in Seq(Slots) /\ stage' \in {"select", "control"}
           /\ r' \subseteq Fds /\ w' \subseteq Fds /\ fresh' \subseteq Fds
           /\ RoundSound'
<1>1. /\ todo \in Seq(Slots) /\ todo # <<>>
      /\ r \subseteq Fds /\ w \subseteq Fds
  BY DEF Turn, IInv, TypeOK
<1>2. /\ Tail(todo) \in Seq(Slots) /\ Len(Tail(todo)) = Len(todo) - 1
      /\ \A i \in 1 .. Len(Tail(todo)) : Tail(todo)[i] = todo[i + 1]
  BY <1>1, HeadTailProperties
<1>3. /\ todo' = Tail(todo)
      /\ stage' = IF Tail(todo) = <<>> THEN "select" ELSE "control"
      /\ Tail(todo) = <<>> => r' = {} /\ w' = {} /\ fresh' = {}
      /\ Tail(todo) # <<>> => r' = r /\ w' = w /\ fresh' = f
  BY DEF Visit, Rest
<1>4. /\ DOMAIN todo = 1 .. Len(todo) /\ Len(todo) \in Nat
      /\ DOMAIN Tail(todo) = 1 .. Len(todo) - 1
  BY <1>1, <1>2, LenProperties
<1>5. \A i \in DOMAIN todo : i > 1 => client'[todo[i]].data \notin f
  BY FdsAre, LaterClients
<1>6. ASSUME NEW i \in DOMAIN Tail(todo)
      PROVE  /\ i + 1 \in DOMAIN todo /\ i + 1 > 1 /\ Tail(todo)[i] = todo[i + 1]
             /\ client'[todo[i + 1]].data \notin fresh'
  <2>1. i + 1 \in DOMAIN todo /\ i + 1 > 1 /\ Tail(todo)[i] = todo[i + 1]
    BY <1>2, <1>4
  <2>2. fresh' = {} \/ fresh' = f
    BY <1>3
  <2> QED BY <1>5, <2>1, <2>2
<1>7. ASSUME NEW i \in DOMAIN Tail(todo), NEW j \in DOMAIN Tail(todo),
             Tail(todo)[i] = Tail(todo)[j]
      PROVE  i = j
  <2>1. i + 1 = j + 1
    BY <1>6, <1>7 DEF IInv, RoundSound
  <2> QED BY <1>4, <2>1
<1>8. RoundSound'
  BY <1>3, <1>6, <1>7 DEF RoundSound
<1> QED BY <1>1, <1>2, <1>3, <1>8

LEMMA SelectOK ==
    ASSUME IInv, NEW f \in SUBSET Fds, Select(order', f), ListSound', order' \in Seq(Slots),
           \A c \in Slots : client'[c].data \notin f
    PROVE  /\ todo' \in Seq(Slots) /\ stage' \in {"select", "control"}
           /\ r' \subseteq Fds /\ w' \subseteq Fds /\ fresh' \subseteq Fds
           /\ stalled' \in {"no", "recv", "send"} /\ event' \in {"none", "phantom"}
           /\ dropped' = dropped /\ RoundSound'
<1>1. /\ todo' = order' /\ stage = "select" /\ dropped' = dropped /\ stalled' = stalled
      /\ event' = "none"
      /\ order' = <<>> => UNCHANGED <<stage, r, w, fresh>>
      /\ order' # <<>> => stage' = "control" /\ r' = ReadFds /\ w' = WriteFds /\ fresh' = f
  BY DEF Select
<1>2. \A i \in DOMAIN order' : order'[i] \in Slots /\ order' # <<>>
  BY ElementOfSeq, LenProperties
<1>3. RoundSound'
  BY <1>1, <1>2 DEF RoundSound, ListSound
<1> QED BY <1>1, <1>3, ReadFdsIn DEF IInv, TypeOK

LEMMA ConnectStep ==
    ASSUME IInv, NEW c \in Slots, OnClientConnect(c)
    PROVE  IInv'
<1> DEFINE fd == Least(Fds \ open)
           s == [Free EXCEPT !.server = TRUE, !.ctl = fd]
<1>1. fd \in Fds /\ fd \notin open /\ fd # NoFd
  BY LeastIn, FdsAre DEF OnClientConnect
<1>2. /\ ~ client[c].server /\ client' = [client EXCEPT ![c] = s]
      /\ open' = open \cup {fd} /\ Select(Append(order, c), {fd}) /\ order' = Append(order, c)
  BY DEF OnClientConnect
<1> HIDE DEF fd
<1>3. /\ s \in Session /\ s.server /\ s.ctl = fd /\ s.data = NoFd /\ s.conn = "idle"
      /\ s.fs = "closed"
  <2>1. Free \in Session
    BY FtpAssumption DEF Free, Session
  <2>2. s \in Session
    BY <1>1, <2>1 DEF Session
  <2> QED BY <2>2 DEF Free
<1> HIDE DEF s
<1>4. Sockets(c) = {}
  BY <1>2 DEF IInv, SessionsSound, Sockets, Free
<1>5. open = Others(c)
  BY <1>4 DEF IInv, SocketsAccounted, Others
<1>6. open' \subseteq Fds
  BY <1>1, <1>2 DEF IInv, TypeOK
<1>7. Kept
  <2>1. Own(s) = {fd} /\ dropped' = dropped
    BY <1>1, <1>2, <1>3 DEF Own, Select
  <2>2. /\ open' = Others(c) \cup Own(s) \cup {} /\ Own(s) \cap Others(c) = {}
        /\ dropped' = dropped \cup {} /\ {} \cap (Others(c) \cup Own(s)) = {}
        /\ {} \in SUBSET Fds
    BY <1>1, <1>2, <1>5, <2>1
  <2>3. Connected(s) /\ Handled(s) /\ s.ctl # s.data /\ s.ctl # NoFd
    BY <1>1, <1>3 DEF Connected, Handled
  <2> QED BY <1>2, <1>3, <1>6, <2>2, <2>3, SessionStep
<1>8. client'[c] = s /\ \A d \in Slots \ {c} : client'[d] = client[d]
  BY <1>2 DEF IInv, TypeOK
<1>9. ListSound' /\ order' \in Seq(Slots)
  BY <1>2, <1>3, <1>7, <1>8, AppendedList DEF Kept
<1>10. \A d \in Slots : client'[d].data \notin {fd}
  <2>1. \A d \in Slots : client[d].data \in open \cup {NoFd}
    BY DEF IInv, SocketsAccounted, Sockets
  <2> QED BY <1>1, <1>3, <1>8, <2>1
<1>11. /\ todo' \in Seq(Slots) /\ stage' \in {"select", "control"}
       /\ r' \subseteq Fds /\ w' \subseteq Fds /\ fresh' \subseteq Fds
       /\ stalled' \in {"no", "recv", "send"} /\ event' \in {"none", "phantom"}
       /\ RoundSound'
  <2>1. Select(order', {fd}) /\ {fd} \in SUBSET Fds
    BY <1>1, <1>2
  <2> QED BY <1>9, <1>10, <2>1, SelectOK
<1> QED BY <1>7, <1>9, <1>11 DEF Kept, IInv, TypeOK

\* The client's control socket has been served, its data socket is next.
LEMMA DataNext ==
    ASSUME IInv, NEW c \in Slots, Turn(c), NEW f \in SUBSET Fds,
           fresh' = f, stage' = "data", todo' = todo,
           f \cap Others(c) \subseteq fresh, \A d \in Slots \ {c} : client'[d] = client[d]
    PROVE  RoundSound'
<1>1. \A i \in DOMAIN todo : i > 1 => client'[todo[i]].data \notin f
  BY FdsAre, LaterClients
<1> QED BY <1>1 DEF IInv, RoundSound

\* A handler of the control socket returns.
LEMMA HandleStep ==
    ASSUME IInv, NEW c \in Slots, Command(c), NEW y, Fit(y, Others(c)), Handle(c, y)
    PROVE  IInv'
<1>1. /\ client' = [client EXCEPT ![c] = y.s] /\ open' = y.open /\ order' = order
      /\ event' = y.ev /\ fresh' = y.fresh /\ stage' = "data" /\ stalled' = "no"
      /\ UNCHANGED <<todo, r, w, dropped>>
  BY DEF Handle, AfterCommand
<1>2. Kept /\ client'[c].server
  BY <1>1, HandlerStep
<1>3. /\ y.fresh \subseteq Fds /\ y.ev \in {"none", "phantom"}
      /\ y.fresh \cap Others(c) \subseteq fresh
  BY DEF Fit, WorldOK, Worlds, Owned
<1>4. client[c].server
  BY TurnOf
<1>5. \A d \in Slots : client'[d].server = client[d].server
  BY <1>1, <1>2, <1>4 DEF IInv, TypeOK
<1>6. ListSound'
  BY <1>1, <1>2, <1>5, SameList DEF Kept
<1>7. RoundSound'
  <2>1. \A d \in Slots \ {c} : client'[d] = client[d]
    BY <1>1 DEF IInv, TypeOK
  <2> QED BY <1>1, <1>3, <2>1, DataNext DEF Command
<1>8. TypeOK'
  BY <1>1, <1>2, <1>3 DEF IInv, TypeOK, Kept
<1> QED BY <1>2, <1>6, <1>7, <1>8 DEF Kept, IInv

\* A handler of the data socket returns, and the round goes on.
LEMMA AfterDataStep ==
    ASSUME IInv, NEW c \in Slots, Turn(c), client[c].server,
           NEW y, Fit(y, Others(c)), AfterData(c, y)
    PROVE  IInv'
<1>1. /\ client' = [client EXCEPT ![c] = y.s] /\ open' = y.open /\ order' = order
      /\ event' = y.ev /\ stalled' = "no" /\ dropped' = dropped /\ Visit(Rest, y.fresh)
  BY DEF AfterData
<1>2. Kept /\ client'[c].server
  BY <1>1, HandlerStep
<1>3. /\ y.fresh \subseteq Fds /\ y.ev \in {"none", "phantom"}
      /\ y.fresh \cap Others(c) \subseteq fresh
  BY DEF Fit, WorldOK, Worlds, Owned
<1>4. \A d \in Slots : client'[d].server = client[d].server
  BY <1>1, <1>2 DEF IInv, TypeOK
<1>5. ListSound'
  BY <1>1, <1>2, <1>4, SameList DEF Kept
<1>6. /\ todo' \in Seq(Slots) /\ stage' \in {"select", "control"}
      /\ r' \subseteq Fds /\ w' \subseteq Fds /\ fresh' \subseteq Fds
      /\ RoundSound'
  <2>1. \A d \in Slots \ {c} : client'[d] = client[d]
    BY <1>1 DEF IInv, TypeOK
  <2> QED BY <1>1, <1>3, <2>1, VisitOK
<1>7. TypeOK'
  BY <1>1, <1>2, <1>3, <1>6 DEF IInv, TypeOK, Kept
<1> QED BY <1>2, <1>5, <1>6, <1>7 DEF Kept, IInv

\* There is nothing to do on the data socket, or the client has left.
LEMMA NoDataStep ==
    ASSUME IInv, NEW c \in Slots, NoData(c)
    PROVE  IInv'
<1>1. /\ client' = client /\ open' = open /\ order' = order /\ dropped' = dropped
      /\ event' = "none" /\ stalled' = "no" /\ Visit(Rest, fresh)
  BY DEF NoData, AfterData, World, IInv, TypeOK
<1>2. /\ todo' \in Seq(Slots) /\ stage' \in {"select", "control"}
      /\ r' \subseteq Fds /\ w' \subseteq Fds /\ fresh' \subseteq Fds
      /\ RoundSound'
  <2>1. Turn(c) /\ fresh \in SUBSET Fds
    BY DEF NoData, IInv, TypeOK
  <2> QED BY <1>1, <2>1, VisitOK
<1>3. TypeOK'
  BY <1>1, <1>2 DEF IInv, TypeOK
<1>4. SocketsAccounted' /\ HandlesHaveConnection' /\ SessionsSound' /\ ListSound'
  BY <1>1, SameSessions
<1> QED BY <1>2, <1>3, <1>4 DEF IInv

\* A client hangs up, or has failed to log in too often.
LEMMA DisconnectStep ==
    ASSUME IInv, NEW c \in Slots, Command(c), Disconnect(c)
    PROVE  IInv'
<1> DEFINE x == World(c)
           u == OnDataCleanup(x)
           v == Closed(u, u.s.ctl)
<1>1. client[c].server /\ x.s = client[c] /\ x.open = open
  BY TurnOf DEF World
<1>2. Fit(x, Others(c))
  BY <1>1, WorldGood
<1> HIDE DEF x
<1>3. WorldOK(u, Others(c)) /\ u.s.data = NoFd /\ u.s.ctl = x.s.ctl
  BY <1>2, CleanupOK, CleanupFields DEF Fit, WorldOK, Same
<1> HIDE DEF u
<1>4. /\ v \in Worlds /\ v.open = u.open \ {u.s.ctl}
      /\ v.fresh = u.fresh \ {u.s.ctl}
  BY <1>3, ClosedFields DEF WorldOK
<1> HIDE DEF v
<1>5. Destroy(x).s = Free /\ Destroy(x).open = v.open /\ Destroy(x).fresh = v.fresh
      /\ Destroy(x).ev = v.ev
  BY <1>3, <1>4 DEF Destroy, u, v, Free, Worlds
<1>6. /\ client' = [client EXCEPT ![c] = Free] /\ open' = v.open /\ fresh' = v.fresh
      /\ event' = v.ev /\ stage' = "data" /\ stalled' = "no"
      /\ UNCHANGED <<todo, r, w, dropped>>
  BY <1>5 DEF Disconnect, AfterCommand, x
<1>7. v.open \subseteq Fds /\ v.fresh \subseteq Fds /\ v.ev \in {"none", "phantom"}
  BY <1>4 DEF Worlds
<1>8. Free \in Session /\ Free.ctl = NoFd /\ Free.data = NoFd /\ ~ Free.server
      /\ Connected(Free) /\ Handled(Free) /\ Own(Free) = {}
  BY FtpAssumption DEF Free, Session, Connected, Handled, Own
<1>9. v.open = Others(c) /\ v.fresh \cap Others(c) \subseteq fresh
  BY <1>3, <1>4 DEF WorldOK, Owned, Own
<1>10. Kept
  <2>1. /\ open' = Others(c) \cup Own(Free) \cup {} /\ Own(Free) \cap Others(c) = {}
        /\ dropped' = dropped \cup {} /\ {} \cap (Others(c) \cup Own(Free)) = {}
        /\ {} \in SUBSET Fds
    BY <1>6, <1>8, <1>9
  <2> QED BY <1>6, <1>7, <1>8, <2>1, SessionStep
<1>11. client'[c] = Free /\ \A d \in Slots \ {c} : client'[d] = client[d]
  BY <1>6 DEF IInv, TypeOK
<1>12. ListSound' /\ order' \in Seq(Slots)
  BY <1>1, <1>8, <1>10, <1>11, ShortenedList DEF Disconnect, Kept
<1>13. RoundSound'
  BY <1>6, <1>7, <1>9, <1>11, DataNext DEF Command
<1>14. TypeOK'
  BY <1>6, <1>7, <1>10, <1>12 DEF IInv, TypeOK, Kept
<1> QED BY <1>10, <1>12, <1>13, <1>14 DEF Kept, IInv

LEMMA SelectStep ==
    ASSUME IInv, SelectClients
    PROVE  IInv'
<1>1. UNCHANGED <<client, order, open>> /\ Select(order', {})
  BY DEF SelectClients
<1>2. dropped' = dropped
  BY <1>1 DEF Select
<1>3. SocketsAccounted' /\ HandlesHaveConnection' /\ SessionsSound' /\ ListSound'
  BY <1>1, <1>2, SameSessions
<1>4. /\ todo' \in Seq(Slots) /\ stage' \in {"select", "control"}
      /\ r' \subseteq Fds /\ w' \subseteq Fds /\ fresh' \subseteq Fds
      /\ stalled' \in {"no", "recv", "send"} /\ event' \in {"none", "phantom"}
      /\ RoundSound'
  <2>1. order' \in Seq(Slots)
    BY <1>1 DEF IInv, TypeOK
  <2> QED BY <1>1, <1>3, <2>1, SelectOK
<1>5. TypeOK'
  BY <1>1, <1>2, <1>4 DEF IInv, TypeOK
<1> QED BY <1>3, <1>4, <1>5 DEF IInv

\* The server starts to wait for the client at hand.
LEMMA WaitStep ==
    ASSUME IInv, NEW c \in Slots, RecvWaits(c) \/ SendWaits(c)
    PROVE  IInv'
<1>1. /\ UNCHANGED <<client, order, open, dropped, stage, todo, r, w, fresh>>
      /\ stalled' \in {"recv", "send"} /\ event' = "none"
  BY DEF RecvWaits, SendWaits, session
<1>2. TypeOK' /\ RoundSound'
  BY <1>1 DEF IInv, TypeOK, RoundSound
<1>3. SocketsAccounted' /\ HandlesHaveConnection' /\ SessionsSound' /\ ListSound'
  BY <1>1, SameSessions
<1> QED BY <1>2, <1>3 DEF IInv

LEMMA StutterStep ==
    ASSUME IInv, UNCHANGED vars
    PROVE  IInv'
<1>1. UNCHANGED <<client, order, open, dropped, stage, todo, r, w, fresh, stalled, event>>
  BY DEF vars, session, round
<1>2. TypeOK' /\ RoundSound'
  BY <1>1 DEF IInv, TypeOK, RoundSound
<1>3. SocketsAccounted' /\ HandlesHaveConnection' /\ SessionsSound' /\ ListSound'
  BY <1>1, SameSessions
<1> QED BY <1>2, <1>3 DEF IInv

-----------------------------------------------------------------------------
(* The commands.                                                           *)

\* A change of what the session knows about its client, not of its data connection.
LEMMA DetailOK ==
    ASSUME NEW x, NEW others, Fit(x, others), NEW y \in Worlds,
           y.open = x.open, y.fresh = x.fresh, Same(x.s, y.s),
           y.s.data = x.s.data, y.s.conn = x.s.conn, y.s.fs = x.s.fs
    PROVE  Fit(y, others)
BY SessionOnly DEF Fit, Connected, Handled

\* Logging in: USER, PASS and a failed attempt.
LEMMA LoginStep ==
    ASSUME IInv, NEW c \in Slots, User(c) \/ PassRight(c) \/ PassWrong(c)
    PROVE  IInv'
<1> DEFINE x == World(c)
<1>1. Command(c)
  BY DEF User, PassRight, PassWrong
<1>2. client[c].server /\ x.s = client[c]
  BY <1>1, TurnOf DEF World
<1>3. Fit(x, Others(c)) /\ x \in Worlds
  BY <1>2, WorldGood DEF Fit, WorldOK
<1> HIDE DEF x
<1>4. ASSUME NEW a \in {"invalid", "password", "fakepass", "valid"},
             NEW n \in 0 .. AuthLimit,
             Handle(c, [x EXCEPT !.s.auth = a, !.s.attempts = n])
      PROVE  IInv'
  <2> DEFINE y == [x EXCEPT !.s.auth = a, !.s.attempts = n]
  <2>1. /\ y \in Worlds /\ y.open = x.open /\ y.fresh = x.fresh /\ Same(x.s, y.s)
        /\ y.s.data = x.s.data /\ y.s.conn = x.s.conn /\ y.s.fs = x.s.fs
    BY <1>3 DEF Worlds, Session, Same
  <2> HIDE DEF y
  <2>2. Fit(y, Others(c))
    BY <1>3, <2>1, DetailOK
  <2>3. Handle(c, y)
    BY <1>4 DEF y
  <2> QED BY <1>1, <2>2, <2>3, HandleStep
<1>5. x.s.attempts \in 0 .. AuthLimit /\ 0 \in 0 .. AuthLimit
  BY <1>3, FtpAssumption DEF Worlds, Session
<1>6. CASE User(c)
  <2>1. PICK a \in {"password", "fakepass", "valid"} :
            Handle(c, [x EXCEPT !.s.auth = a, !.s.attempts = IF a = "valid" THEN 0 ELSE @])
    BY <1>6 DEF User, x
  <2> DEFINE n == IF a = "valid" THEN 0 ELSE x.s.attempts
  <2>2. n \in 0 .. AuthLimit
    BY <1>5
  <2>3. [x EXCEPT !.s.auth = a, !.s.attempts = IF a = "valid" THEN 0 ELSE @]
          = [x EXCEPT !.s.auth = a, !.s.attempts = n]
    BY <1>3 DEF Worlds, Session
  <2> HIDE DEF n
  <2> QED BY <1>4, <2>1, <2>2, <2>3
<1>7. CASE PassRight(c)
  BY <1>4, <1>5, <1>7 DEF PassRight, x
<1>8. CASE PassWrong(c)
  <2>1. CASE client[c].auth = "invalid"
    <3>1. Handle(c, x)
      BY <1>8, <2>1 DEF PassWrong, x
    <3> QED BY <1>1, <1>3, <3>1, HandleStep
  <2>2. CASE client[c].auth # "invalid" /\ LastAttempt(c)
    BY <1>1, <1>8, <2>2, DisconnectStep DEF PassWrong
  <2>3. CASE client[c].auth # "invalid" /\ ~ LastAttempt(c)
    <3> DEFINE n == x.s.attempts + 1
    <3>1. n \in 0 .. AuthLimit
      BY <1>2, <1>5, <2>3, FtpAssumption DEF LastAttempt
    <3>2. Handle(c, [x EXCEPT !.s.auth = "invalid", !.s.attempts = @ + 1])
      BY <1>8, <2>3 DEF PassWrong, x
    <3>3. [x EXCEPT !.s.auth = "invalid", !.s.attempts = @ + 1]
            = [x EXCEPT !.s.auth = "invalid", !.s.attempts = n]
      BY <1>3 DEF Worlds, Session
    <3> HIDE DEF n
    <3> QED BY <1>4, <3>1, <3>2, <3>3
  <2> QED BY <2>1, <2>2, <2>3
<1> QED BY <1>6, <1>7, <1>8

\* The commands that leave the data connection alone.
LEMMA PlainStep ==
    ASSUME IInv, NEW c \in Slots,
           Reply(c) \/ Port(c) \/ Manage(c) \/ Cwd(c) \/ Size(c) \/ Site(c)
             \/ Pwd(c) \/ Rnfr(c) \/ Rnto(c)
    PROVE  IInv'
<1> DEFINE x == World(c)
           y == [x EXCEPT !.s.port = TRUE]
<1>1. Command(c)
  BY DEF Reply, Port, Manage, Cwd, Size, Site, Pwd, Rnfr, Rnto, LoggedIn
<1>2. Fit(x, Others(c)) /\ x \in Worlds
  BY <1>1, TurnOf, WorldGood DEF Fit, WorldOK
<1>3. Handle(c, x) \/ Handle(c, Shut(x)) \/ Handle(c, y)
  BY DEF Reply, Port, Manage, Cwd, Size, Site, Pwd, Rnfr, Rnto
<1> HIDE DEF x
<1>4. Fit(Shut(x), Others(c))
  BY <1>2, ShutOK
<1>5. Fit(y, Others(c))
  <2>1. /\ y \in Worlds /\ y.open = x.open /\ y.fresh = x.fresh /\ Same(x.s, y.s)
        /\ y.s.data = x.s.data /\ y.s.conn = x.s.conn /\ y.s.fs = x.s.fs
    BY <1>2 DEF Worlds, Session, Same
  <2> HIDE DEF y
  <2> QED BY <1>2, <2>1, DetailOK
<1> HIDE DEF y
<1> QED BY <1>1, <1>2, <1>3, <1>4, <1>5, HandleStep

\* PASV: the old data connection goes, a listening socket comes.
LEMMA PasvStep ==
    ASSUME IInv, NEW c \in Slots, Pasv(c)
    PROVE  IInv'
<1> DEFINE x == OnDataCleanup(World(c))
           y == [Opened(x, NewFd(x)) EXCEPT !.s.data = NewFd(x), !.s.conn = "listen"]
<1>1. Command(c)
  BY DEF Pasv, LoggedIn
<1>2. Fit(World(c), Others(c))
  BY <1>1, TurnOf, WorldGood
<1>3. Fit(x, Others(c)) /\ x.s.data = NoFd
  BY <1>2, CleanupOK DEF Fit
<1>4. Handle(c, x) \/ (CanOpen(x) /\ Handle(c, y))
  BY DEF Pasv
<1> HIDE DEF x
<1>5. CASE CanOpen(x) /\ Handle(c, y)
  <2>1. WorldOK(y, Others(c)) /\ y.s.data # NoFd /\ y.s.conn = "listen"
    BY <1>3, <1>5, SocketOK DEF Fit
  <2> HIDE DEF y
  <2>2. Fit(y, Others(c))
    BY <2>1 DEF Fit, Connected, Handled
  <2> QED BY <1>1, <1>5, <2>2, HandleStep
<1> QED BY <1>1, <1>3, <1>4, <1>5, HandleStep

\* PASV forgets the socket it has opened.
LEMMA UnnamedStep ==
    ASSUME IInv, NEW c \in Slots, PasvUnnamed(c)
    PROVE  IInv'
<1> DEFINE x == OnDataCleanup(World(c))
           fd == NewFd(x)
           y == Opened(x, fd)
<1>1. Command(c) /\ client[c].server
  BY TurnOf DEF PasvUnnamed, LoggedIn
<1>2. Fit(x, Others(c))
  BY <1>1, WorldGood, CleanupOK DEF Fit
<1>3. CanOpen(x) /\ AfterCommand(c, y) /\ dropped' = dropped \cup {fd} /\ order' = order
  BY DEF PasvUnnamed
<1> HIDE DEF x
<1>4. fd \in Fds /\ fd \notin x.open
  BY <1>3, NewFdFree
<1> HIDE DEF fd
<1>5. /\ y \in Worlds /\ y.s = x.s /\ y.open = x.open \cup {fd}
      /\ y.fresh = x.fresh \cup {fd}
  BY <1>2, <1>4, OpenedFields DEF Fit, WorldOK
<1> HIDE DEF y
<1>6. /\ client' = [client EXCEPT ![c] = x.s] /\ open' = x.open \cup {fd}
      /\ event' = y.ev /\ fresh' = y.fresh /\ stage' = "data" /\ stalled' = "no"
      /\ UNCHANGED <<todo, r, w>>
  BY <1>3, <1>5 DEF AfterCommand
<1>7. /\ x.s \in Session /\ x.s.server /\ x.s.ctl # NoFd /\ Connected(x.s) /\ Handled(x.s)
      /\ Own(x.s) \cap Others(c) = {} /\ x.s.ctl # x.s.data
      /\ x.open = Others(c) \cup Own(x.s) /\ x.fresh \cap Others(c) \subseteq fresh
  BY <1>2 DEF Fit, WorldOK, Worlds, Owned
<1>8. y.open \subseteq Fds /\ y.fresh \subseteq Fds /\ y.ev \in {"none", "phantom"}
  BY <1>5 DEF Worlds
<1>9. Kept
  <2>1. /\ open' = Others(c) \cup Own(x.s) \cup {fd} /\ {fd} \in SUBSET Fds
        /\ {fd} \cap (Others(c) \cup Own(x.s)) = {} /\ open' \subseteq Fds
    BY <1>4, <1>5, <1>6, <1>7, <1>8
  <2> QED BY <1>3, <1>6, <1>7, <2>1, SessionStep
<1>10. client'[c] = x.s /\ \A d \in Slots \ {c} : client'[d] = client[d]
  BY <1>6 DEF IInv, TypeOK
<1>11. ListSound'
  <2>1. ASSUME NEW d \in Slots PROVE client'[d].server = client[d].server
    <3>1. CASE d = c
      <4>1. client'[c].server = TRUE /\ client[c].server = TRUE
        BY <1>1, <1>7, <1>10 DEF IInv, TypeOK, Session
      <4> QED BY <3>1, <4>1
    <3> QED BY <1>10, <3>1
  <2> QED BY <1>3, <1>9, <2>1, SameList DEF Kept
<1>12. RoundSound'
  <2>1. y.fresh \cap Others(c) \subseteq fresh
    BY <1>4, <1>5, <1>7
  <2> QED BY <1>1, <1>6, <1>8, <1>10, <2>1, DataNext DEF Command
<1>13. TypeOK'
  BY <1>3, <1>6, <1>8, <1>9 DEF IInv, TypeOK, Kept
<1> QED BY <1>9, <1>11, <1>12, <1>13 DEF Kept, IInv

\* LIST, RETR, STOR: something is opened, and the data connection made or used.
LEMMA OpenedStep ==
    ASSUME IInv, NEW c \in Slots, Command(c),
           NEW z \in Worlds, z.open = open, z.fresh = fresh, z.ev = "none", Same(client[c], z.s),
           z.s.data = client[c].data, z.s.conn = client[c].conn,
           \E y \in HandleDataConnect(z) : Handle(c, y)
    PROVE  IInv'
<1> DEFINE x == World(c)
<1>1. x.s = client[c] /\ x.open = open /\ x.fresh = fresh
  BY DEF World
<1>2. Fit(x, Others(c))
  BY TurnOf, WorldGood
<1> HIDE DEF x
<1>3. WorldOK(z, Others(c)) /\ Connected(z.s)
  BY <1>1, <1>2, SessionOnly DEF Fit, Connected
<1>4. PICK y \in HandleDataConnect(z) : Handle(c, y)
  OBVIOUS
<1>5. Fit(y, Others(c))
  BY <1>3, <1>4, HandleDataConnectOK
<1> QED BY <1>4, <1>5, HandleStep

LEMMA TransferStep ==
    ASSUME IInv, NEW c \in Slots, List(c) \/ Retr(c) \/ Stor(c)
    PROVE  IInv'
<1> DEFINE x == World(c)
<1>1. Command(c)
  BY DEF List, Retr, Stor, Transfer, LoggedIn
<1>2. /\ Fit(x, Others(c)) /\ x \in Worlds /\ x.s = client[c] /\ x.open = open
      /\ x.fresh = fresh /\ x.ev = "none"
  BY <1>1, TurnOf, WorldGood DEF Fit, WorldOK, World
<1>3. CASE List(c)
  <2> DEFINE l == [x EXCEPT !.s.action = "list"]
             z == OpenDir(l)
  <2>1. Handle(c, Shut(l)) \/ \E y \in HandleDataConnect(z) : Handle(c, y)
    BY <1>3 DEF List
  <2> HIDE DEF x
  <2>2. /\ l \in Worlds /\ l.open = x.open /\ l.fresh = x.fresh /\ l.ev = x.ev /\ Same(x.s, l.s)
        /\ l.s.data = x.s.data /\ l.s.conn = x.s.conn /\ l.s.fs = x.s.fs
    BY <1>2 DEF Worlds, Session, Same
  <2> HIDE DEF l
  <2>3. Fit(Shut(l), Others(c))
    BY <1>2, <2>2, DetailOK, ShutOK
  <2>4. /\ z \in Worlds /\ z.open = l.open /\ z.fresh = l.fresh /\ z.ev = l.ev /\ Same(l.s, z.s)
        /\ z.s.data = l.s.data /\ z.s.conn = l.s.conn
    BY <2>2 DEF OpenDir, Worlds, Session, Same, Handles
  <2> HIDE DEF z
  <2>5. Same(client[c], z.s)
    BY <1>2, <2>2, <2>4 DEF Same
  <2>6. CASE \E y \in HandleDataConnect(z) : Handle(c, y)
    BY <1>1, <1>2, <2>2, <2>4, <2>5, <2>6, OpenedStep
  <2> QED BY <1>1, <2>1, <2>3, <2>6, HandleStep
<1>4. ASSUME NEW action \in {"retr", "stor"}, NEW handle \in Handles,
             Transfer(c, action, handle)
      PROVE  IInv'
  <2> DEFINE o == OpenFile(x, handle)
             z == [o EXCEPT !.s.action = action]
  <2>1. Handle(c, Shut(x)) \/ \E y \in HandleDataConnect(z) : Handle(c, y)
    BY <1>4 DEF Transfer
  <2> HIDE DEF x
  <2>2. /\ o \in Worlds /\ o.open = x.open /\ o.fresh = x.fresh /\ o.ev = x.ev /\ Same(x.s, o.s)
        /\ o.s.data = x.s.data /\ o.s.conn = x.s.conn
    BY <1>2 DEF OpenFile, Worlds, Session, Same, Handles
  <2> HIDE DEF o
  <2>3. /\ z \in Worlds /\ z.open = o.open /\ z.fresh = o.fresh /\ z.ev = o.ev /\ Same(o.s, z.s)
        /\ z.s.data = o.s.data /\ z.s.conn = o.s.conn
    BY <2>2 DEF Worlds, Session, Same
  <2> HIDE DEF z
  <2>4. Same(client[c], z.s)
    BY <1>2, <2>2, <2>3 DEF Same
  <2>5. Fit(Shut(x), Others(c))
    BY <1>2, ShutOK
  <2>6. CASE \E y \in HandleDataConnect(z) : Handle(c, y)
    BY <1>1, <1>2, <2>2, <2>3, <2>4, <2>6, OpenedStep
  <2> QED BY <1>1, <2>1, <2>5, <2>6, HandleStep
<1> QED BY <1>3, <1>4 DEF Retr, Stor, Handles

LEMMA ControlStep ==
    ASSUME IInv, NEW c \in Slots, Control(c)
    PROVE  IInv'
<1>1. CASE HangUp(c)
  BY <1>1, DisconnectStep DEF HangUp
<1> QED BY <1>1, LoginStep, PlainStep, PasvStep, UnnamedStep, TransferStep DEF Control

-----------------------------------------------------------------------------
(* The data connection.                                                    *)

LEMMA DataStep ==
    ASSUME IInv, NEW c \in Slots, Data(c)
    PROVE  IInv'
<1> DEFINE x == World(c)
<1>1. CASE NoData(c)
  BY <1>1, NoDataStep
<1>2. CASE ~ NoData(c)
  <2>1. Ready(c)
    BY <1>2 DEF Data, DataConnectEnds, DataAccept, DataWrite, DataRead
  <2>2. Turn(c) /\ client[c].server /\ client[c].data # NoFd /\ x.s = client[c]
    BY <2>1, TurnOf DEF Ready, World
  <2>3. Fit(x, Others(c))
    BY <2>2, WorldGood
  <2>4. \E y \in {OnDataConnected(x), OnDataFailed(x)} \cup Accepted(x)
               \cup (OnDataWrite(x) \cup OnDataRead(x)) : AfterData(c, y)
    BY <1>2 DEF Data, DataConnectEnds, DataAccept, DataWrite, DataRead
  <2> HIDE DEF x
  <2>5. Fit(OnDataConnected(x), Others(c)) /\ Fit(OnDataFailed(x), Others(c))
    BY <2>2, <2>3, ConnectedOK, FailedOK DEF Fit
  <2>6. \A y \in Accepted(x) : Fit(y, Others(c))
    BY <2>2, <2>3, AcceptedOK
  <2>7. \A y \in OnDataWrite(x) \cup OnDataRead(x) : Fit(y, Others(c))
    BY <2>3, TransferOK
  <2>8. PICK y : Fit(y, Others(c)) /\ AfterData(c, y)
    BY <2>4, <2>5, <2>6, <2>7
  <2> QED BY <2>2, <2>8, AfterDataStep
<1> QED BY <1>1, <1>2

-----------------------------------------------------------------------------
LEMMA NextIInv == IInv /\ [Next]_vars => IInv'
<1> SUFFICES ASSUME IInv, [Next]_vars PROVE IInv'
  OBVIOUS
<1>1. CASE Next
  BY <1>1, SelectStep, ConnectStep, WaitStep, ControlStep, DataStep DEF Next, Serve
<1>2. CASE UNCHANGED vars
  BY <1>2, StutterStep
<1> QED BY <1>1, <1>2

\* The invariant the others follow from holds in every state the server reaches,
\* whatever its clients send, the network delivers and the drivers return.
THEOREM FtpAlwaysSound == Spec => []IInv
BY InitIInv, NextIInv, PTL DEF Spec

\* Every variable has its type, however many clients come and go; a session never has
\* more failed logins than the limit.
THEOREM TypeCorrect == Spec => []TypeOK
<1>1. IInv => TypeOK
  BY DEF IInv
<1> QED BY <1>1, FtpAlwaysSound, PTL

\* The server neither closes, nor goes on using, a socket that is no longer its client's,
\* although ps2ip reuses the numbers; it leaks one only where getsockname fails.
THEOREM SocketsAlwaysAccounted == Spec => []SocketsAccounted
<1>1. IInv => SocketsAccounted
  BY DEF IInv
<1> QED BY <1>1, FtpAlwaysSound, PTL

\* A file or a directory is open in a driver only for a client whose data connection is
\* there or being made.
THEOREM HandlesAlwaysHaveConnection == Spec => []HandlesHaveConnection
<1>1. IInv => HandlesHaveConnection
  BY DEF IInv
<1> QED BY <1>1, FtpAlwaysSound, PTL

\* What the commands of one client do to the sockets never makes the server wait, in
\* accept or recv, for another client.
THEOREM WaitsFollowCommands == Spec => WaitFollowsCommand
<1> DEFINE A == stalled = "no" /\ stalled' = "recv" => stage = "data"
<1>1. ASSUME IInv, Next PROVE A
  <2> SUFFICES ASSUME stalled = "no", stalled' = "recv" PROVE stage = "data"
    OBVIOUS
  <2>1. CASE \E c \in Slots : RecvWaits(c)
    <3>1. PICK c \in Slots : RecvWaits(c)
      BY <2>1
    <3>2. Turn(c) /\ client[c].data \in fresh
      BY <3>1 DEF RecvWaits, Ready
    <3>3. todo \in Seq(Slots) /\ todo # <<>> /\ c = Head(todo)
      BY <1>1, <3>2 DEF Turn, IInv, TypeOK
    <3>4. 1 \in DOMAIN todo /\ todo[1] = c
      BY <3>3, HeadTailProperties, LenProperties
    <3>5. stage # "control" /\ stage # "select"
      BY <1>1, <3>2, <3>3, <3>4 DEF IInv, RoundSound
    <3> QED BY <1>1, <3>5 DEF IInv, TypeOK
  <2>2. CASE \E c \in Slots : Control(c)
    <3>1. \A c \in Slots : \A x : AfterCommand(c, x) => stalled' = "no"
      BY DEF AfterCommand
    <3>2. PICK c \in Slots : Control(c)
      BY <2>2
    <3>3. CASE List(c) \/ Retr(c) \/ Stor(c)
      BY <3>1, <3>3 DEF List, Retr, Stor, Transfer, Handle
    <3>4. CASE User(c) \/ PassRight(c) \/ PassWrong(c) \/ HangUp(c)
      BY <3>1, <3>4 DEF User, PassRight, PassWrong, HangUp, Handle, Disconnect
    <3>5. CASE Pasv(c) \/ PasvUnnamed(c)
      BY <3>1, <3>5 DEF Pasv, PasvUnnamed, Handle
    <3>6. CASE Reply(c) \/ Port(c) \/ Manage(c) \/ Cwd(c) \/ Size(c) \/ Site(c)
                 \/ Pwd(c) \/ Rnfr(c) \/ Rnto(c)
      BY <3>1, <3>6 DEF Reply, Port, Manage, Cwd, Size, Site, Pwd, Rnfr, Rnto, Handle
    <3> QED BY <3>2, <3>3, <3>4, <3>5, <3>6 DEF Control
  <2>3. CASE \E c \in Slots : Data(c)
    <3>1. \A c \in Slots : \A x : AfterData(c, x) => stalled' = "no"
      BY DEF AfterData
    <3> QED BY <2>3, <3>1 DEF Data, NoData, DataConnectEnds, DataAccept, DataWrite, DataRead
  <2>4. CASE SelectClients \/ \E c \in Slots : OnClientConnect(c) \/ SendWaits(c)
    BY <2>4 DEF SelectClients, OnClientConnect, Select, SendWaits
  <2> QED BY <1>1, <2>1, <2>2, <2>3, <2>4 DEF Next, Serve
<1>2. ASSUME IInv, [Next]_vars PROVE [A]_vars
  BY <1>1, <1>2
<1>3. IInv /\ [Next]_vars => [A]_vars
  BY <1>2
<1> QED BY <1>3, FtpAlwaysSound, PTL DEF Spec, WaitFollowsCommand

\* m_kClients is walked while sessions join it and leave it: it names the sessions in
\* use, each of them once, and no other slot.
THEOREM ListAlwaysSound == Spec => []ListSound
<1>1. IInv => ListSound
  BY DEF IInv
<1> QED BY <1>1, FtpAlwaysSound, PTL
=============================================================================
