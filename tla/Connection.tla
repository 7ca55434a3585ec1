----------------------------- MODULE Connection -----------------------------
(***************************************************************************)
(* SocketConnection over a Socket: the handshake, messages written with    *)
(* two send calls each, and read with two recv calls each, of which either *)
(* may come back short.  The application is one thread that uses one       *)
(* connection after the other.  It may go on with a connection when a call *)
(* has thrown, as nothing in the code forbids it: the rest of a message,   *)
(* or an answer that was not waited for, is then still in the stream.      *)
(*                                                                         *)
(* The server (a q process) and the kernel's buffers are external.  The    *)
(* server handles what it gets in order, answers synchronous messages,     *)
(* sends messages of its own and closes as it likes.  Its answers are not  *)
(* compressed, and it has this machine's byte order.                       *)
(***************************************************************************)
EXTENDS Frame, Sockets

CONSTANTS Conn,         \* the member m_conn
          Value,        \* what the application serializes: [needs, width, n]
          LevelAsked,   \* levels the application or the server may name
          AnswerSize,   \* payload sizes of the server's messages
          Garbled,      \* [type, size] that bytes amid a message may announce
          MaxRequests,  \* bound: messages sent over one connection
          MaxPushes,    \* bound: messages of the server's own over one connection
          None

\* n = 0 is an atom.  The Serializer is made for the level of the connection.
SizeOf(level, v) == IF v.n = 0 THEN AtomSize(level, v.needs, v.width)
                    ELSE ArraySize(level, v.needs, v.width, v.n)

MessageType == {"Async", "Sync", "Response"}

\* A message that was written: what its header says and what follows it.
Written == [of : Int, type : {"Sync", "Async"}, compressed : {0, 1, 2},
            needs : Int, says : Int, has : Int]

\* What a call returned: the message, and the request it was taken for.
Taken == [m : [of : Nat, type : MessageType], req : Nat]

\* The messages stay below the limit that one byte of excess size sets, and
\* are compressed only if half the message is less than its payload.
ASSUME ConnectionAssumption ==
  /\ Conn \in Sock
  /\ 2 * HeaderSize <= MinCompress + 1
  /\ \A v \in Value : v.needs \in Nat /\ v.n \in Nat
  /\ MaxRequests \in Nat /\ MaxPushes \in Nat /\ AnswerSize \subseteq Nat
  /\ \A v \in Value, l \in Level :
       /\ SizeOf(l, v) \in Nat
       /\ HeaderSize + 2 * Word + SizeOf(l, v) < ByteValues * FourGB
  /\ Garbled \subseteq [type : MessageType, size : Nat]
  /\ \A n \in AnswerSize \cup {g.size : g \in Garbled} : HeaderSize + n < ByteValues * FourGB
  /\ None \notin Nat \cup Written \cup Taken \cup [of : Nat, type : MessageType]

VARIABLES pc,         \* where the client is
          op,         \* the call it is in: "send", "send_async" or "recv"
          m_level,
          timed,      \* the socket was made with a timeout
          cur,        \* the message whose header was sent
          want, msg,  \* payload_size, and the message the header announced
          taken,      \* the message the last call returned, with its request
          req,        \* number of the last request
          failed,     \* history: a call has thrown amid a message
          up,         \* messages written
          down,       \* bytes the server wrote that the client has not read
          unread,     \* history: the messages that recv has not returned,
                      \* as long as no call has thrown
          avail,      \* how many bytes of `down' have arrived
          peer,       \* "none", "greeted", "open", "closed"
          supported,  \* the level the server answered
          pushes

net  == <<up, down, unread, avail, peer, supported, pushes>>
call == <<op, cur, want, msg, taken, req, failed>>
connvars == <<svars, pc, m_level, timed, call, net>>

\* A byte of a message: which message, and the how many-eth it is.
Bytes(m) == [i \in 1..(HeaderSize + m.size) |-> [m |-> m, i |-> i]]

Fresh0 == /\ pc' = "none" /\ op' = None /\ m_level' = 0 /\ timed' = FALSE
          /\ cur' = None /\ want' = 0 /\ msg' = None /\ taken' = None
          /\ req' = 0 /\ failed' = FALSE
          /\ up' = <<>> /\ down' = <<>> /\ unread' = <<>> /\ avail' = 0
          /\ peer' = "none" /\ supported' = None /\ pushes' = 0

Init == /\ SocketsInit
        /\ pc = "none" /\ op = None /\ m_level = 0 /\ timed = FALSE
        /\ cur = None /\ want = 0 /\ msg = None /\ taken = None
        /\ req = 0 /\ failed = FALSE
        /\ up = <<>> /\ down = <<>> /\ unread = <<>> /\ avail = 0
        /\ peer = "none" /\ supported = None /\ pushes = 0

-----------------------------------------------------------------------------
(* The application makes a socket to connect with; what else it may do     *)
(* with sockets is in SocketsNext.                                         *)

Free == Sock \ {Conn}
Socketing == /\ pc = "none"
             /\ UNCHANGED <<pc, m_level, timed, call, net>>

MakeSocket(s, h) == Socketing /\ Construct(s, h)
DropSocket(s)    == Socketing /\ Destroy(s)

-----------------------------------------------------------------------------
(* The constructor: take the socket, send credentials and level, wait for  *)
(* the level the server supports.                                          *)

Connect(s, level) ==
  /\ pc = "none" /\ s \in made /\ m_fd[s] # -1 /\ level \in Level
  /\ MoveConstruct(Conn, s)
  /\ pc' = "handshake" /\ peer' = "greeted"
  /\ m_level' = level /\ timed' \in BOOLEAN
  /\ UNCHANGED <<call, up, down, unread, avail, supported, pushes>>

\* A plausible slip: the socket is given up without being closed.
ConnectThrows_Leaks(s, level) ==
  /\ pc = "none" /\ s \in made /\ (level \notin Level \/ m_fd[s] = -1)
  /\ m_fd' = [m_fd EXCEPT ![s] = -1]
  /\ UNCHANGED <<domain, made, m_is_unix_domain_socket, lost, pc, m_level, timed, call, net>>

\* An unsupported level, or a socket that was moved from (EBADF): m_conn was
\* initialised already, so the caller's socket is taken and closed.
ConnectThrows(s, level) ==
  /\ pc = "none" /\ s \in made /\ (level \notin Level \/ m_fd[s] = -1)
  /\ Close(m_fd[s])
  /\ m_fd' = [m_fd EXCEPT ![s] = -1]
  /\ UNCHANGED <<made, m_is_unix_domain_socket, lost, pc, m_level, timed, call, net>>

\* A plausible slip: the level that came back is not compared.
Connected_AnyLevel ==
             /\ pc = "handshake" /\ supported # None
             /\ pc' = "idle"
             /\ UNCHANGED <<svars, m_level, timed, call, net>>

Connected == /\ pc = "handshake" /\ supported # None /\ supported >= m_level
             /\ pc' = "idle"
             /\ UNCHANGED <<svars, m_level, timed, call, net>>

\* The level is too low, the server has closed, or the timeout strikes.
HandshakeThrows ==
  /\ pc = "handshake"
  /\ IF supported # None THEN supported < m_level ELSE timed \/ peer = "closed"
  /\ Destroy(Conn) /\ Fresh0

\* ~SocketConnection.
Disconnect == pc = "idle" /\ Destroy(Conn) /\ Fresh0

-----------------------------------------------------------------------------
(* send_impl.                                                              *)

Over  == pc' = "idle" /\ op' = None /\ want' = 0 /\ msg' = None
Throw == Over /\ failed' = TRUE /\ unread' = <<>>

\* What compress may return.
Shrunk(n) == IF TriesCompress(m_level, m_is_unix_domain_socket[Conn], n)
               THEN {n} \cup 1..((HeaderSize + n) \div 2) ELSE {n}

\* The lowest level at which a server knows all that is in the message.
LevelNeeded(v, n, c) ==
  CHOOSE l \in {v.needs, IF Compressed(n, c) = 0 THEN 0 ELSE 1,
                IF HeaderSize + n >= TwoGB THEN 5 ELSE 0,
                IF v.n > TwoBillion THEN 6 ELSE 0} :
    /\ l >= v.needs
    /\ Compressed(n, c) # 0 => l >= 1
    /\ HeaderSize + n >= TwoGB => l >= 5
    /\ v.n > TwoBillion => l >= 6

\* A message that is too large throws before anything is sent and leaves no
\* trace.  Otherwise the header goes first; its send may end short when it
\* times out, which nobody looks at.
SendHeader(o, v) ==
  LET n == SizeOf(m_level, v) IN
  /\ pc = "idle" /\ req < MaxRequests
  /\ n # 0 /\ ~Refuses(m_level, n)
  /\ \E c \in Shrunk(n), short \in IF timed THEN 0..1 ELSE {0} :
       cur' = [of |-> req + 1, type |-> IF o = "send" THEN "Sync" ELSE "Async",
               compressed |-> Compressed(n, c), needs |-> LevelNeeded(v, n, c),
               says |-> Announced(FinalSize(n, c)),
               has |-> HeaderLength(n, c) - HeaderSize + c - short]
  /\ op' = o /\ req' = req + 1 /\ pc' = "sending"
  /\ UNCHANGED <<svars, m_level, timed, want, msg, taken, failed, net>>

\* The payload.  To a server that has closed, it is lost.
SendPayload ==
  /\ pc = "sending"
  /\ \E short \in IF timed THEN 0..1 ELSE {0} :
       up' = IF peer = "open" THEN Append(up, [cur EXCEPT !.has = @ - short]) ELSE up
  /\ cur' = None
  /\ IF op = "send" THEN pc' = "header" /\ UNCHANGED <<op, want, msg>> ELSE Over
  /\ UNCHANGED <<svars, m_level, timed, taken, req, failed,
                 down, unread, avail, peer, supported, pushes>>

\* The send buffer stayed full until the timeout: nothing of the payload
\* went, or not even the header.
SendTimesOut ==
  /\ pc = "sending" /\ timed /\ peer = "open"
  /\ up' \in {up, Append(up, [cur EXCEPT !.has = 0])}
  /\ cur' = None /\ Throw
  /\ UNCHANGED <<svars, m_level, timed, taken, req,
                 down, avail, peer, supported, pushes>>

\* Writing to a server that has gone raises SIGPIPE, which nobody handles: the
\* payload, or the second message of the handshake.
SendKills ==
  /\ pc = "sending" \/ (pc = "handshake" /\ supported = None)
  /\ peer = "closed" /\ pc' = "killed"
  /\ UNCHANGED <<svars, m_level, timed, call, net>>

-----------------------------------------------------------------------------
(* recv.                                                                   *)

StartRecv == /\ pc = "idle" /\ op' = "recv" /\ pc' = "header"
             /\ UNCHANGED <<svars, m_level, timed, cur, want, msg, taken, req, failed, net>>

Consume(n) == /\ down' = SubSeq(down, n + 1, Len(down)) /\ avail' = avail - n
              /\ UNCHANGED <<up, peer, supported, pushes>>

\* The oldest message is no longer waited for.
Forget == unread' = SubSeq(unread, 2, Len(unread))

\* A plausible slip: that the server has closed is not noticed.
Gone_TimeoutOnly == avail = 0 /\ timed

\* Nothing has come, and recv returns: a timeout (EAGAIN), or the server has
\* closed (0 bytes, for which realloc answers null).
Gone == avail = 0 /\ (timed \/ (peer = "closed" /\ down = <<>>))

\* What the header says.  Amid a message that a call has thrown in, the bytes
\* taken for a header are others, and may say anything.
Announces == IF down[1].i = 1
               THEN {down[1].m}
               ELSE {[of |-> 0, type |-> g.type, size |-> g.size] : g \in Garbled}

ReadHeader ==
  /\ pc = "header" /\ avail >= HeaderSize
  /\ Consume(HeaderSize) /\ UNCHANGED unread
  /\ msg' \in Announces
  /\ want' = Received(HeaderSize + msg'.size, TRUE)
  /\ pc' = "payload"
  /\ UNCHANGED <<svars, m_level, timed, op, cur, taken, req, failed>>

\* A size that no memory can be had for.
HeaderOverwhelms ==
  /\ pc = "header" /\ avail >= HeaderSize /\ down[1].i # 1
  /\ Consume(HeaderSize) /\ Throw
  /\ UNCHANGED <<svars, m_level, timed, cur, taken, req>>

\* "Could not get full header", or nothing came at all.
HeaderThrows ==
  /\ pc = "header" /\ avail < HeaderSize /\ (avail > 0 \/ Gone)
  /\ Consume(avail) /\ Throw
  /\ UNCHANGED <<svars, m_level, timed, cur, taken, req>>

Label(m) == [of |-> m.of, type |-> m.type]

\* A plausible slip: send takes whatever message comes for its answer.
Return_AnyType == /\ taken' = [m |-> Label(msg), req |-> IF op = "send" THEN req ELSE 0]
                  /\ Over /\ Forget /\ UNCHANGED failed

\* What recv returns, and what send makes of it.
Return == /\ taken' = [m |-> Label(msg), req |-> IF op = "send" THEN req ELSE 0]
          /\ IF op = "send" /\ msg.type # "Response" THEN Throw
             ELSE Over /\ Forget /\ UNCHANGED failed

ReadPayload ==
  /\ pc = "payload" /\ avail >= want
  /\ Consume(want) /\ Return
  /\ UNCHANGED <<svars, m_level, timed, cur, req>>

\* A plausible slip: a payload that is not there in full is returned.
PayloadThrows_Not ==
  /\ pc = "payload" /\ avail < want /\ (avail > 0 \/ Gone)
  /\ Consume(avail) /\ Return
  /\ UNCHANGED <<svars, m_level, timed, cur, req>>

\* "Could not get full payload", or nothing came at all.
PayloadThrows ==
  /\ pc = "payload" /\ avail < want /\ (avail > 0 \/ Gone)
  /\ Consume(avail) /\ Throw
  /\ UNCHANGED <<svars, m_level, timed, cur, taken, req>>

-----------------------------------------------------------------------------
(* The server and the network.                                             *)

Serving == UNCHANGED <<svars, pc, m_level, timed, call>>

Accept(level) == /\ Serving /\ peer = "greeted"
                 /\ peer' = "open" /\ supported' = level
                 /\ UNCHANGED <<up, down, unread, avail, pushes>>

ServerClose == /\ Serving /\ peer \in {"greeted", "open"} /\ peer' = "closed"
               /\ UNCHANGED <<up, down, unread, avail, supported, pushes>>

\* The server writes a message.
Write(m) == /\ down' = down \o Bytes(m)
            /\ unread' = IF failed THEN <<>> ELSE Append(unread, m)

\* The oldest message is all there.
Whole(f) == f.says = f.has

Serve == /\ Serving /\ peer = "open" /\ up # <<>> /\ Whole(Head(up))
         /\ up' = Tail(up)
         /\ IF Head(up).type = "Sync"
              THEN \E n \in AnswerSize :
                     Write([of |-> Head(up).of, type |-> "Response", size |-> n])
              ELSE UNCHANGED <<down, unread>>
         /\ UNCHANGED <<avail, peer, supported, pushes>>

\* A message was cut short and the next one fills it up: nothing makes sense
\* any more, and the server hangs up.
ServerGivesUp == /\ Serving /\ peer = "open" /\ Len(up) > 1 /\ ~Whole(Head(up))
                 /\ peer' = "closed"
                 /\ UNCHANGED <<up, down, unread, avail, supported, pushes>>

Push == /\ Serving /\ peer = "open" /\ pushes < MaxPushes
        /\ \E n \in AnswerSize :
             Write([of |-> 0, type |-> "Async", size |-> n])
        /\ pushes' = pushes + 1
        /\ UNCHANGED <<up, avail, peer, supported>>

\* Bytes arrive, in any portions.
Deliver == /\ Serving /\ avail < Len(down)
           /\ avail' \in (avail + 1)..Len(down)
           /\ UNCHANGED <<up, down, unread, peer, supported, pushes>>
-----------------------------------------------------------------------------
Client == \/ Connected \/ HandshakeThrows
          \/ SendPayload \/ SendTimesOut \/ SendKills
          \/ ReadHeader \/ HeaderOverwhelms \/ HeaderThrows \/ ReadPayload \/ PayloadThrows

Next == \/ \E s \in Free, h \in Host : MakeSocket(s, h)
        \/ \E s \in Free : DropSocket(s)
        \/ \E s \in Free, l \in LevelAsked : Connect(s, l) \/ ConnectThrows(s, l)
        \/ \E o \in {"send", "send_async"}, v \in Value : SendHeader(o, v)
        \/ StartRecv \/ Disconnect
        \/ Client
        \/ \E l \in LevelAsked \cap Level : Accept(l)
        \/ ServerClose \/ Serve \/ ServerGivesUp \/ Push \/ Deliver

\* A call that was entered goes on; the network delivers; a server that has
\* a whole message handles it, or closes.
Fairness == WF_connvars(Client) /\ WF_connvars(Deliver) /\ WF_connvars(Serve \/ ServerGivesUp)

Spec == Init /\ [][Next]_connvars /\ Fairness

-----------------------------------------------------------------------------
TypeOK == /\ pc \in {"none", "handshake", "idle", "sending", "header", "payload", "killed"}
          /\ m_level \in Level /\ timed \in BOOLEAN /\ failed \in BOOLEAN
          /\ want \in Nat /\ req \in 0..MaxRequests /\ pushes \in 0..MaxPushes
          /\ avail \in 0..Len(down)
          /\ (pc = "sending" => cur # None) /\ (cur # None => pc \in {"sending", "killed"})
          /\ (pc = "none") <=> (Conn \notin made)

\* Unless a send was cut short by its timeout, a message is as long as its
\* header says, also when it is compressed and carries its original size:
\* the server never loses the frame boundary (main.cpp:756-796).
Framed == ~timed => \A i \in DOMAIN up : Whole(up[i])

\* The server never gets what its level does not know: compression, messages
\* of 2 GB, types, long arrays (main.cpp:804-817), although the level is
\* compared only once, in the constructor.
LevelRespected == \A i \in DOMAIN up : up[i].needs <= supported

\* While no call on the connection has thrown, what send returns is the
\* answer to its own request (main.cpp:850-858): neither a message of the
\* server's own nor the answer to an earlier request.
AnswerIsMine == ~failed /\ taken # None /\ taken.req # 0 => taken.m.of = taken.req

\* Only messages that go to another host are compressed ("compression
\* available if 0<level, not local", main.cpp:773).
CompressedOnlyIfRemote == pc = "sending" /\ cur.compressed # 0 =>
                            domain[m_fd[Conn]] # "unix"

\* Until a call throws, the connection is a channel of whole messages, read in
\* the order they were written, none split or read twice; what is sent is queued
\* whole as well, but for a message that a timeout cuts short, which no call
\* reports (main.cpp:421-429, 795-796), and messages to a server that has closed.
Channel == INSTANCE MessageChannel WITH
  Message    <- [of : 0..MaxRequests, type : MessageType],
  NoMessage  <- None,
  CutMessage <- None,
  up         <- [i \in DOMAIN up |-> IF Whole(up[i]) THEN Label(up[i]) ELSE None],
  down       <- [i \in DOMAIN unread |-> Label(unread[i])],
  taken      <- IF taken = None THEN None ELSE taken.m,
  broken     <- failed,
  sent       <- IF cur = None THEN req ELSE req - 1,
  timed      <- timed,
  server     <- IF peer \in {"none", "greeted"} THEN "away" ELSE peer
ChannelSpec == Channel!Spec

\* A synchronous call comes to its end: it returns or throws, also when the
\* server closes before the answer, or in the middle of it, and also when an
\* earlier call has thrown and left the stream amid a message.
Calling == op = "send" /\ pc \in {"sending", "header", "payload"}
CallEnds == Calling ~> ~Calling
=============================================================================
