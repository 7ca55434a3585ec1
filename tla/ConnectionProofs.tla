-------------------------- MODULE ConnectionProofs --------------------------
(***************************************************************************)
(* What a server may rely on, for any limits, values and levels: messages  *)
(* as long as they say, and nothing that its level does not know (CInv).   *)
(* What the process may: descriptors keep one owner, in spite of a         *)
(* constructor that takes a socket and may throw (SInv).  And what the     *)
(* application may: messages are read whole, once and in order, and sent   *)
(* ones are queued whole unless a timeout cuts them or the server is gone; *)
(* until a call throws, an answer is the answer to its own request (DInv). *)
(***************************************************************************)
EXTENDS Connection, SocketsProofs, SequenceTheorems

-----------------------------------------------------------------------------
\* The size of a message survives its split into a byte and a word, for
\* every size of the fields.

LEMMA DivMod == ASSUME NEW a \in Nat, NEW b \in Nat \ {0}
                PROVE /\ a \div b \in Nat /\ a % b \in Nat
                      /\ a = b * (a \div b) + (a % b)
OBVIOUS

\* Below k * b the quotient by b is less than k.
LEMMA QuotientBound == ASSUME NEW a \in Nat, NEW b \in Nat \ {0}, NEW k \in Nat \ {0}, a < k * b
                       PROVE a \div b < k
OBVIOUS

LEMMA SmallMod == ASSUME NEW a \in Nat, NEW k \in Nat \ {0}, a < k PROVE a % k = a
OBVIOUS

LEMMA FinalSizeIsNat == ASSUME NEW n \in Nat, NEW c \in Nat
                        PROVE /\ FinalSize(n, c) \in Nat
                              /\ HeaderLength(n, c) \in Nat
                              /\ FinalSize(n, c) = HeaderLength(n, c) + c
<1>1. Compressed(n, c) \in {0, 1, 2} BY DEF Compressed
<1>2. Compressed(n, c) * Word \in Nat BY <1>1, FrameAssumption
<1>3. HeaderLength(n, c) \in Nat BY <1>2, FrameAssumption DEF HeaderLength
<1>. QED BY <1>3 DEF FinalSize

\* The protocol's reader finds the size the sender wrote, for every payload
\* whose message stays below the limit of one byte of excess size; recv does
\* so exactly if the header is in the machine's order or its size word reads
\* the same in both.
THEOREM SizeSurvives == \A n \in Nat, c \in Nat, native \in BOOLEAN : Survives(n, c, native)
<1>. SUFFICES ASSUME NEW n \in Nat, NEW c \in Nat, NEW native \in BOOLEAN,
                     FinalSize(n, c) < ByteValues * FourGB
              PROVE  /\ Announced(FinalSize(n, c)) = c + (HeaderLength(n, c) - HeaderSize)
                     /\ Received(FinalSize(n, c), native) = Announced(FinalSize(n, c)) <=>
                          (native \/ Reordered[Residual(FinalSize(n, c))] = Residual(FinalSize(n, c)))
  BY DEF Survives
<1>. DEFINE size == FinalSize(n, c)
<1>1. /\ size \in Nat /\ HeaderLength(n, c) \in Nat
      /\ size = HeaderLength(n, c) + c
  BY FinalSizeIsNat
<1>2. FourGB \in Nat \ {0} /\ ByteValues \in Nat \ {0} /\ HeaderSize \in Nat
  BY FrameAssumption
<1>3. /\ size \div FourGB \in Nat /\ size % FourGB \in Nat
      /\ size = FourGB * (size \div FourGB) + (size % FourGB)
  BY <1>1, <1>2, DivMod
<1>4. size \div FourGB < ByteValues BY <1>1, <1>2, QuotientBound
<1>5. Excess(size) = size \div FourGB BY <1>2, <1>3, <1>4, SmallMod DEF Excess
<1>6. Announced(size) = size - HeaderSize
  <2>. HIDE DEF size
  <2>. QED BY <1>1, <1>2, <1>3, <1>5 DEF Announced, PayloadSize, Residual
<1>7. Announced(size) = c + (HeaderLength(n, c) - HeaderSize) BY <1>1, <1>2, <1>6
<1>8. Received(size, native) = Announced(size) <=>
        (native \/ Reordered[Residual(size)] = Residual(size))
  <2>. DEFINE r == Residual(size)
              x == FourGB * Excess(size)
  <2>1. r \in 0..(FourGB - 1) /\ x \in Int
    <3>1. size % FourGB \in 0..(FourGB - 1) BY <1>1, <1>2
    <3>2. FourGB * (size \div FourGB) \in Int BY <1>2, <1>3
    <3>. HIDE DEF size
    <3>. QED BY <3>1, <3>2, <1>5 DEF Residual
  <2>2. r \in Int /\ Reordered[r] \in Int
    <3>1. Reordered \in [0..(FourGB - 1) -> 0..(FourGB - 1)] BY FrameAssumption
    <3>2. Reordered[r] \in 0..(FourGB - 1) BY <2>1, <3>1
    <3>. HIDE DEF r
    <3>. QED BY <2>1, <3>2
  <2>3. Announced(size) = x + r - HeaderSize BY DEF Announced, PayloadSize
  <2>4. CASE native
    <3>1. Received(size, native) = x + r - HeaderSize BY <2>4 DEF Received, PayloadSize
    <3>. HIDE DEF r, x, size
    <3>. QED BY <2>3, <2>4, <3>1 DEF r
  <2>5. CASE ~native
    <3>. DEFINE s == Reordered[r]
    <3>1. Received(size, native) = x + s - HeaderSize
      BY <2>5 DEF Received, PayloadSize
    <3>2. s \in Int BY <2>2
    <3>. HIDE DEF r, s, x, size
    <3>3. (x + s - HeaderSize = x + r - HeaderSize) <=> (s = r)
      BY <1>2, <2>1, <3>2
    <3>. QED BY <2>3, <2>5, <3>1, <3>3 DEF r, s
  <2>. QED BY <2>4, <2>5
<1>. QED BY <1>7, <1>8

-----------------------------------------------------------------------------
Pc == {"none", "handshake", "idle", "sending", "header", "payload", "killed"}

\* Such a message may be in the stream.
Sound(m) == m.needs <= m_level /\ (~timed => Whole(m))

Control == /\ pc \in Pc /\ m_level \in Level /\ timed \in BOOLEAN /\ req \in Nat
           /\ supported \in Level \cup {None}
           /\ peer \in {"none", "greeted", "open", "closed"}

\* The level was compared before anything is sent, and does not change then.
Busy == {"idle", "sending", "header", "payload"}

Greeting == /\ (pc = "none") <=> (peer = "none")
            /\ pc = "none" => supported = None
            /\ peer = "greeted" => pc = "handshake" /\ supported = None
            /\ pc \in {"none", "handshake"} => up = <<>>
            /\ (pc \in Busy \/ up # <<>>) => (supported \in Level /\ m_level <= supported)

Stream == /\ up \in Seq(Written)
          /\ \A i \in DOMAIN up : Sound(up[i])
          /\ pc = "sending" => cur \in Written /\ Sound(cur)

CInv == Control /\ Greeting /\ Stream

LEMMA LevelsAreNat == Level \subseteq Nat /\ None \notin Level
BY ConnectionAssumption DEF Level

LEMMA CInvInit == Init => CInv
<1>. SUFFICES ASSUME Init PROVE CInv
  OBVIOUS
<1>1. 0 \in Level BY DEF Level
<1>2. Control BY <1>1 DEF Init, Control, Pc
<1>3. Greeting BY DEF Init, Greeting, Busy
<1>4. up = <<>> /\ up \in Seq(Written) /\ pc # "sending" BY DEF Init
<1>5. DOMAIN up = {} BY <1>4
<1>. QED BY <1>2, <1>3, <1>4, <1>5 DEF CInv, Stream

-----------------------------------------------------------------------------
(* The message that SendHeader begins.                                     *)

LEMMA LevelNeededBound ==
  ASSUME NEW v \in Value, NEW n \in Nat, NEW c \in Nat, m_level \in Level,
         v.needs <= m_level,
         Compressed(n, c) # 0 => 1 <= m_level,
         HeaderSize + n >= TwoGB => 5 <= m_level,
         v.n > TwoBillion => 6 <= m_level
  PROVE  LevelNeeded(v, n, c) \in Int /\ LevelNeeded(v, n, c) <= m_level
<1>. DEFINE a == IF Compressed(n, c) = 0 THEN 0 ELSE 1
            b == IF HeaderSize + n >= TwoGB THEN 5 ELSE 0
            d == IF v.n > TwoBillion THEN 6 ELSE 0
            P(l) == /\ l >= v.needs
                    /\ Compressed(n, c) # 0 => l >= 1
                    /\ HeaderSize + n >= TwoGB => l >= 5
                    /\ v.n > TwoBillion => l >= 6
<1>1. v.needs \in Nat /\ m_level \in Nat BY ConnectionAssumption, LevelsAreNat
<1>2. \A l \in {v.needs, a, b, d} : l \in Int /\ l <= m_level BY <1>1
<1>3. \E l \in {v.needs, a, b, d} : P(l)
  <2>1. CASE v.n > TwoBillion BY <1>1, <2>1, v.needs <= 6 \/ P(v.needs)
  <2>2. CASE ~(v.n > TwoBillion) /\ HeaderSize + n >= TwoGB
    BY <1>1, <2>2, v.needs <= 5 \/ P(v.needs)
  <2>3. CASE ~(v.n > TwoBillion) /\ ~(HeaderSize + n >= TwoGB)
    BY <1>1, <2>3, v.needs <= a \/ P(v.needs)
  <2>. QED BY <2>1, <2>2, <2>3
<1>4. LevelNeeded(v, n, c) \in {v.needs, a, b, d} BY <1>3 DEF LevelNeeded
<1>. QED BY <1>2, <1>4

\* What compress returns is no longer than the payload.
LEMMA ShrunkBound == ASSUME NEW n \in Nat, NEW c \in Shrunk(n)
                     PROVE  c \in Nat /\ c <= n
<1>1. CASE ~TriesCompress(m_level, m_is_unix_domain_socket[Conn], n) BY <1>1 DEF Shrunk
<1>2. CASE TriesCompress(m_level, m_is_unix_domain_socket[Conn], n)
  <2>1. HeaderSize \in Nat /\ MinCompress \in Nat /\ MinCompress < HeaderSize + n
        /\ 2 * HeaderSize <= MinCompress + 1
    BY <1>2, FrameAssumption, ConnectionAssumption DEF TriesCompress
  <2>2. HeaderSize <= n BY <2>1
  <2>3. (HeaderSize + n) \div 2 <= n BY <2>1, <2>2
  <2>. QED BY <1>2, <2>1, <2>3 DEF Shrunk
<1>. QED BY <1>1, <1>2

LEMMA CompressedLevel == ASSUME NEW n \in Nat, NEW c \in Shrunk(n), m_level \in Level,
                                Compressed(n, c) # 0
                         PROVE  1 <= m_level
<1>1. c # n BY DEF Compressed
<1>2. TriesCompress(m_level, m_is_unix_domain_socket[Conn], n) BY <1>1 DEF Shrunk
<1>. QED BY <1>2, LevelsAreNat DEF TriesCompress

LEMMA SerializedLevel == ASSUME NEW v \in Value, m_level \in Level, SizeOf(m_level, v) # 0
                         PROVE  v.needs <= m_level /\ (v.n > TwoBillion => 6 <= m_level)
<1>1. v.needs \in Nat /\ v.n \in Nat /\ TwoBillion \in Nat /\ m_level \in 0..6
  BY ConnectionAssumption, FrameAssumption DEF Level
<1>. QED BY <1>1 DEF SizeOf, AtomSize, ArraySize, SupportsType

LEMMA SendHeaderKeeps ==
  ASSUME CInv, NEW o \in {"send", "send_async"}, NEW v \in Value, SendHeader(o, v)
  PROVE  CInv'
<1>. DEFINE n == SizeOf(m_level, v)
<1>1. m_level \in Level /\ req \in Nat /\ timed \in BOOLEAN BY DEF CInv, Control
<1>2. n \in Nat /\ n # 0 /\ ~Refuses(m_level, n) /\ HeaderSize + 2 * Word + n < ByteValues * FourGB
  BY <1>1, ConnectionAssumption DEF SendHeader
<1>3. PICK c \in Shrunk(n), short \in IF timed THEN 0..1 ELSE {0} :
        cur' = [of |-> req + 1, type |-> IF o = "send" THEN "Sync" ELSE "Async",
                compressed |-> Compressed(n, c), needs |-> LevelNeeded(v, n, c),
                says |-> Announced(FinalSize(n, c)),
                has |-> HeaderLength(n, c) - HeaderSize + c - short]
  BY DEF SendHeader
<1>4. /\ pc = "idle" /\ pc' = "sending" /\ req' = req + 1 /\ up' = up /\ peer' = peer
      /\ supported' = supported /\ m_level' = m_level /\ timed' = timed
  BY DEF SendHeader, net
<1>. HIDE DEF n
<1>5. c \in Nat /\ c <= n BY <1>2, ShrunkBound
<1>6. LevelNeeded(v, n, c) \in Int /\ LevelNeeded(v, n, c) <= m_level
  <2>1. HeaderSize + n >= TwoGB => 5 <= m_level
    BY <1>1, <1>2, LevelsAreNat DEF Refuses
  <2>2. Compressed(n, c) # 0 => 1 <= m_level BY <1>1, <1>2, CompressedLevel
  <2>3. v.needs <= m_level /\ (v.n > TwoBillion => 6 <= m_level)
    BY <1>1, <1>2, SerializedLevel DEF n
  <2>. QED BY <1>1, <1>2, <1>5, <2>1, <2>2, <2>3, LevelNeededBound
<1>7. Compressed(n, c) \in {0, 1, 2} BY DEF Compressed
<1>8. FinalSize(n, c) < ByteValues * FourGB
  <2>1. HeaderSize \in Nat /\ Word \in Nat /\ ByteValues * FourGB \in Nat BY FrameAssumption
  <2>2. Compressed(n, c) * Word <= 2 * Word BY <1>7, <2>1
  <2>3. Compressed(n, c) * Word \in Nat BY <1>7, <2>1
  <2>. QED BY <1>2, <1>5, <2>1, <2>2, <2>3 DEF FinalSize, HeaderLength
<1>9. Announced(FinalSize(n, c)) = c + (HeaderLength(n, c) - HeaderSize)
  BY <1>2, <1>5, <1>8, SizeSurvives DEF Survives
<1>10. HeaderLength(n, c) \in Nat /\ HeaderSize \in Nat /\ short \in Int
  BY <1>2, <1>5, FinalSizeIsNat, FrameAssumption
<1>11. Announced(FinalSize(n, c)) \in Int BY <1>5, <1>9, <1>10
<1>12. cur' \in Written
  BY <1>1, <1>3, <1>5, <1>6, <1>7, <1>10, <1>11 DEF Written
<1>13. Sound(cur)'
  <2>1. cur'.needs <= m_level' BY <1>3, <1>4, <1>6
  <2>2. ASSUME ~timed' PROVE Whole(cur)'
    <3>1. short = 0 BY <1>4, <2>2
    <3>2. cur'.says = cur'.has BY <1>3, <1>5, <1>9, <1>10, <3>1
    <3>. QED BY <3>2 DEF Whole
  <2>. QED BY <2>1, <2>2 DEF Sound
<1>14. Control' BY <1>4, <1>1 DEF CInv, Control, Pc
<1>15. Greeting' BY <1>4 DEF CInv, Greeting, Busy
<1>16. Stream' BY <1>4, <1>12, <1>13 DEF CInv, Stream, Sound, Whole
<1>. QED BY <1>14, <1>15, <1>16 DEF CInv

-----------------------------------------------------------------------------
(* The other steps.                                                        *)

\* Nothing that the invariant is about changes, but that the connection is
\* idle again, or reads.
LEMMA ReadingKeeps ==
  ASSUME CInv, pc \in Busy, pc' \in {"idle", "header", "payload"},
         req' = req, m_level' = m_level, timed' = timed,
         up' = up, peer' = peer, supported' = supported
  PROVE  CInv'
<1>1. Control' BY DEF CInv, Control, Pc
<1>2. Greeting' BY DEF CInv, Greeting, Busy
<1>3. Stream' BY DEF CInv, Stream, Sound, Whole
<1>. QED BY <1>1, <1>2, <1>3 DEF CInv

\* A whole message, or one that a timeout cut short, is written.
LEMMA AppendKeeps ==
  ASSUME CInv, pc = "sending", NEW m \in Written, Sound(m), up' \in {up, Append(up, m)},
         pc' \in {"idle", "header"}, req' = req, m_level' = m_level, timed' = timed,
         peer' = peer, supported' = supported
  PROVE  CInv'
<1>1. Control' BY DEF CInv, Control, Pc
<1>2. Greeting' BY DEF CInv, Greeting, Busy
<1>3. up \in Seq(Written) /\ \A i \in DOMAIN up : Sound(up[i]) BY DEF CInv, Stream
<1>4. /\ Append(up, m) \in Seq(Written)
      /\ \A i \in DOMAIN Append(up, m) : Sound(Append(up, m)[i])
  <2>1. Append(up, m) \in Seq(Written) /\ Len(Append(up, m)) = Len(up) + 1 BY <1>3
  <2>2. ASSUME NEW i \in DOMAIN Append(up, m) PROVE Sound(Append(up, m)[i])
    <3>1. Len(up) \in Nat /\ i \in 1..(Len(up) + 1) BY <1>3, <2>1, <2>2
    <3>2. CASE i = Len(up) + 1
      <4>1. Append(up, m)[i] = m BY <1>3, <3>2
      <4>. QED BY <4>1
    <3>3. CASE i \in 1..Len(up)
      <4>1. Append(up, m)[i] = up[i] /\ i \in DOMAIN up BY <1>3, <3>3
      <4>. QED BY <1>3, <4>1
    <3>. QED BY <3>1, <3>2, <3>3
  <2>. QED BY <2>1, <2>2
<1>5. up' \in Seq(Written) /\ \A i \in DOMAIN up' : Sound(up'[i]) BY <1>3, <1>4
<1>6. Stream' BY <1>5 DEF Stream, Sound, Whole
<1>. QED BY <1>1, <1>2, <1>6 DEF CInv

LEMMA SendPayloadKeeps == ASSUME CInv, SendPayload PROVE CInv'
<1>1. PICK short \in IF timed THEN 0..1 ELSE {0} :
        up' = IF peer = "open" THEN Append(up, [cur EXCEPT !.has = @ - short]) ELSE up
  BY DEF SendPayload
<1>. DEFINE m == [cur EXCEPT !.has = @ - short]
<1>2. pc = "sending" /\ cur \in Written /\ Sound(cur) /\ timed \in BOOLEAN
  BY DEF SendPayload, CInv, Control, Stream
<1>3. cur.has \in Int /\ cur.has - short \in Int BY <1>2 DEF Written
<1>4. m \in Written /\ m.needs = cur.needs /\ m.says = cur.says /\ m.has = cur.has - short
  BY <1>2, <1>3 DEF Written
<1>5. Sound(m)
  <2>1. ~timed => m.has = cur.has BY <1>3, <1>4
  <2>. HIDE DEF m
  <2>. QED BY <1>2, <1>4, <2>1 DEF Sound, Whole
<1>6. /\ pc' \in {"idle", "header"} /\ req' = req /\ m_level' = m_level /\ timed' = timed
      /\ peer' = peer /\ supported' = supported
  BY DEF SendPayload, Over
<1>. QED BY <1>1, <1>2, <1>4, <1>5, <1>6, AppendKeeps

LEMMA SendTimesOutKeeps == ASSUME CInv, SendTimesOut PROVE CInv'
<1>. DEFINE m == [cur EXCEPT !.has = 0]
<1>1. pc = "sending" /\ cur \in Written /\ Sound(cur) /\ timed = TRUE
  BY DEF SendTimesOut, CInv, Control, Stream
<1>2. m \in Written /\ m.needs = cur.needs BY <1>1 DEF Written
<1>3. Sound(m) BY <1>1, <1>2 DEF Sound
<1>4. /\ up' \in {up, Append(up, m)} /\ pc' = "idle" /\ req' = req
      /\ m_level' = m_level /\ timed' = timed /\ peer' = peer /\ supported' = supported
  BY DEF SendTimesOut, Throw, Over
<1>. QED BY <1>1, <1>2, <1>3, <1>4, AppendKeeps

LEMMA ReadStepKeeps ==
  ASSUME CInv, SendKills \/ StartRecv \/ ReadHeader \/ HeaderOverwhelms \/ HeaderThrows
                 \/ ReadPayload \/ PayloadThrows
  PROVE  CInv'
<1>1. CASE SendKills
  <2>1. /\ pc \in {"sending", "handshake"} /\ peer = "closed" /\ pc' = "killed" /\ req' = req
        /\ m_level' = m_level /\ timed' = timed /\ up' = up /\ peer' = peer
        /\ supported' = supported
    BY <1>1 DEF SendKills, call, net
  <2>2. Control' BY <2>1 DEF CInv, Control, Pc
  <2>3. Greeting' BY <2>1 DEF CInv, Greeting, Busy
  <2>4. Stream' BY <2>1 DEF CInv, Stream, Sound, Whole
  <2>. QED BY <2>2, <2>3, <2>4 DEF CInv
<1>2. CASE StartRecv BY <1>2, ReadingKeeps DEF StartRecv, net, Busy
<1>3. CASE ReadHeader BY <1>3, ReadingKeeps DEF ReadHeader, Consume, Busy
<1>4. CASE HeaderOverwhelms \/ HeaderThrows
  BY <1>4, ReadingKeeps DEF HeaderOverwhelms, HeaderThrows, Consume, Throw, Over, Busy
<1>5. CASE ReadPayload BY <1>5, ReadingKeeps DEF ReadPayload, Consume, Return, Throw, Over, Busy
<1>6. CASE PayloadThrows BY <1>6, ReadingKeeps DEF PayloadThrows, Consume, Throw, Over, Busy
<1>. QED BY <1>1, <1>2, <1>3, <1>4, <1>5, <1>6

LEMMA FreshKeeps == ASSUME CInv, Fresh0 PROVE CInv'
<1>1. 0 \in Level BY DEF Level
<1>2. Control' BY <1>1 DEF Fresh0, Control, Pc
<1>3. Greeting' BY DEF Fresh0, Greeting, Busy
<1>4. up' = <<>> /\ up' \in Seq(Written) /\ pc' # "sending" BY DEF Fresh0
<1>5. DOMAIN up' = {} BY <1>4
<1>. QED BY <1>2, <1>3, <1>4, <1>5 DEF CInv, Stream

LEMMA GreetKeeps ==
  ASSUME CInv, (\E s \in Free, l \in LevelAsked : Connect(s, l)) \/ Connected
  PROVE  CInv'
<1>1. CASE \E s \in Free, l \in LevelAsked : Connect(s, l)
  <2>1. PICK l \in LevelAsked : /\ pc = "none" /\ l \in Level /\ pc' = "handshake"
                               /\ peer' = "greeted" /\ m_level' = l /\ timed' \in BOOLEAN
                               /\ req' = req /\ up' = up /\ supported' = supported
    BY <1>1 DEF Connect, call
  <2>2. up = <<>> /\ supported = None BY <2>1 DEF CInv, Greeting
  <2>3. DOMAIN up' = {} BY <2>1, <2>2
  <2>4. Control' BY <2>1 DEF CInv, Control, Pc
  <2>5. Greeting' BY <2>1, <2>2 DEF Greeting, Busy
  <2>6. Stream' BY <2>1, <2>3 DEF CInv, Stream
  <2>. QED BY <2>4, <2>5, <2>6 DEF CInv
<1>2. CASE Connected
  <2>1. /\ pc = "handshake" /\ supported # None /\ supported >= m_level /\ pc' = "idle"
        /\ req' = req /\ up' = up /\ peer' = peer /\ supported' = supported
        /\ m_level' = m_level /\ timed' = timed
    BY <1>2 DEF Connected, call, net
  <2>2. supported \in Level /\ m_level \in Level BY <2>1 DEF CInv, Control
  <2>3. m_level <= supported BY <2>1, <2>2, LevelsAreNat
  <2>4. Control' BY <2>1 DEF CInv, Control, Pc
  <2>5. Greeting' BY <2>1, <2>2, <2>3 DEF CInv, Greeting, Busy
  <2>6. Stream' BY <2>1 DEF CInv, Stream, Sound, Whole
  <2>. QED BY <2>4, <2>5, <2>6 DEF CInv
<1>. QED BY <1>1, <1>2

\* The server and the network.
LEMMA ServerKeeps ==
  ASSUME CInv,
         (\E l \in LevelAsked \cap Level : Accept(l))
           \/ ServerClose \/ Serve \/ ServerGivesUp \/ Push \/ Deliver
  PROVE  CInv'
<1>1. CASE \E l \in LevelAsked \cap Level : Accept(l)
  <2>1. PICK l \in Level : /\ peer = "greeted" /\ peer' = "open" /\ supported' = l
                          /\ pc' = pc /\ m_level' = m_level /\ timed' = timed
                          /\ req' = req /\ up' = up /\ cur' = cur
    BY <1>1 DEF Accept, Serving, call
  <2>2. pc = "handshake" BY <2>1 DEF CInv, Greeting
  <2>3. Control' BY <2>1 DEF CInv, Control
  <2>4. Greeting' BY <2>1, <2>2 DEF CInv, Greeting, Busy
  <2>5. Stream' BY <2>1 DEF CInv, Stream, Sound, Whole
  <2>. QED BY <2>3, <2>4, <2>5 DEF CInv
<1>2. CASE Serve
  <2>1. /\ peer = "open" /\ up # <<>> /\ up' = Tail(up) /\ peer' = peer
        /\ supported' = supported /\ pc' = pc /\ m_level' = m_level /\ timed' = timed
        /\ req' = req /\ cur' = cur
    BY <1>2 DEF Serve, Serving, call
  <2>2. up \in Seq(Written) /\ \A i \in DOMAIN up : Sound(up[i]) BY DEF CInv, Stream
  <2>3. up' \in Seq(Written) /\ \A i \in DOMAIN up' : Sound(up'[i])
    <3>1. Tail(up) \in Seq(Written) /\ Len(Tail(up)) = Len(up) - 1 BY <2>1, <2>2
    <3>2. ASSUME NEW i \in DOMAIN Tail(up) PROVE Sound(Tail(up)[i])
      <4>1. Tail(up)[i] = up[i + 1] /\ i + 1 \in DOMAIN up BY <2>1, <2>2, <3>1, <3>2
      <4>. QED BY <2>2, <4>1
    <3>. QED BY <2>1, <3>1, <3>2
  <2>4. Control' BY <2>1 DEF CInv, Control
  <2>5. Greeting' BY <2>1 DEF CInv, Greeting, Busy
  <2>6. Stream' BY <2>1, <2>3 DEF CInv, Stream, Sound, Whole
  <2>. QED BY <2>4, <2>5, <2>6 DEF CInv
<1>3. CASE ServerClose \/ ServerGivesUp \/ Push \/ Deliver
  <2>1. /\ peer' \in {peer, "closed"} /\ (peer = "none" <=> peer' = "none")
        /\ supported' = supported /\ up' = up /\ pc' = pc /\ m_level' = m_level
        /\ timed' = timed /\ req' = req /\ cur' = cur
    BY <1>3 DEF ServerClose, ServerGivesUp, Push, Deliver, Serving, call
  <2>2. Control' BY <2>1 DEF CInv, Control
  <2>3. Greeting' BY <2>1 DEF CInv, Greeting, Busy
  <2>4. Stream' BY <2>1 DEF CInv, Stream, Sound, Whole
  <2>. QED BY <2>2, <2>3, <2>4 DEF CInv
<1>. QED BY <1>1, <1>2, <1>3

\* What touches sockets only.
LEMMA SocketStepKeeps ==
  ASSUME CInv, UNCHANGED <<pc, m_level, timed, call, net>>
  PROVE  CInv'
BY DEF CInv, Control, Greeting, Stream, Sound, Whole, call, net

LEMMA CInvStep == CInv /\ [Next]_connvars => CInv'
<1>. SUFFICES ASSUME CInv, [Next]_connvars PROVE CInv'
  OBVIOUS
<1>1. ASSUME NEW s \in Free, NEW h \in Host, MakeSocket(s, h) PROVE CInv'
  BY <1>1, SocketStepKeeps DEF MakeSocket, Socketing
<1>2. ASSUME NEW s \in Free, DropSocket(s) PROVE CInv'
  BY <1>2, SocketStepKeeps DEF DropSocket, Socketing
<1>3. ASSUME NEW s \in Free, NEW l \in LevelAsked, Connect(s, l) PROVE CInv'
  BY <1>3, GreetKeeps
<1>4. ASSUME NEW s \in Free, NEW l \in LevelAsked, ConnectThrows(s, l) PROVE CInv'
  BY <1>4, SocketStepKeeps DEF ConnectThrows
<1>5. ASSUME NEW o \in {"send", "send_async"}, NEW v \in Value, SendHeader(o, v) PROVE CInv'
  BY <1>5, SendHeaderKeeps
<1>6. CASE StartRecv BY <1>6, ReadStepKeeps
<1>7. CASE Disconnect BY <1>7, FreshKeeps DEF Disconnect
<1>8. CASE Connected BY <1>8, GreetKeeps
<1>9. CASE HandshakeThrows BY <1>9, FreshKeeps DEF HandshakeThrows
<1>10. CASE SendPayload BY <1>10, SendPayloadKeeps
<1>11. CASE SendTimesOut BY <1>11, SendTimesOutKeeps
<1>12. CASE SendKills \/ ReadHeader \/ HeaderOverwhelms \/ HeaderThrows \/ ReadPayload
              \/ PayloadThrows
  BY <1>12, ReadStepKeeps
<1>13. CASE (\E l \in LevelAsked \cap Level : Accept(l))
              \/ ServerClose \/ Serve \/ ServerGivesUp \/ Push \/ Deliver
  BY <1>13, ServerKeeps
<1>14. CASE UNCHANGED connvars BY <1>14, SocketStepKeeps DEF connvars
<1>. QED BY <1>1, <1>2, <1>3, <1>4, <1>5, <1>6, <1>7, <1>8, <1>9, <1>10, <1>11, <1>12,
            <1>13, <1>14 DEF Next, Client

\* Unless a timeout cut a send short, every message in the stream is as long
\* as its header says, whatever its size and whether it was compressed.
THEOREM FramesAligned == Spec => []Framed
<1>1. CInv => Framed BY DEF CInv, Stream, Sound, Framed
<1>. QED BY CInvInit, CInvStep, <1>1, PTL DEF Spec

\* The server never gets what its level does not know.
THEOREM LevelsRespected == Spec => []LevelRespected
<1>1. CInv => LevelRespected
  <2>. SUFFICES ASSUME CInv, NEW i \in DOMAIN up PROVE up[i].needs <= supported
    BY DEF LevelRespected
  <2>1. up # <<>> OBVIOUS
  <2>2. /\ supported \in Level /\ m_level \in Level /\ m_level <= supported
    BY <2>1 DEF CInv, Greeting, Control
  <2>3. up[i] \in Written /\ up[i].needs <= m_level BY DEF CInv, Stream, Sound
  <2>4. up[i].needs \in Int BY <2>3 DEF Written
  <2>. QED BY <2>2, <2>3, <2>4, LevelsAreNat
<1>. QED BY CInvInit, CInvStep, <1>1, PTL DEF Spec

-----------------------------------------------------------------------------
(* Descriptors.                                                            *)

LEMMA ConnectionSockets == SInv /\ [Next]_connvars => SInv'
<1>. SUFFICES ASSUME SInv, [Next]_connvars PROVE SInv'
  OBVIOUS
<1>. USE ConnectionAssumption
<1>1. ASSUME NEW s \in Free, NEW h \in Host, MakeSocket(s, h) PROVE SInv'
  BY <1>1, ConstructKeeps DEF MakeSocket, Free
<1>2. ASSUME NEW s \in Free, DropSocket(s) PROVE SInv'
  BY <1>2, CloseKeeps DEF DropSocket, Destroy
<1>3. ASSUME NEW s \in Free, NEW l \in LevelAsked, Connect(s, l) PROVE SInv'
  BY <1>3, MoveConstructKeeps DEF Connect, Free
<1>4. ASSUME NEW s \in Free, NEW l \in LevelAsked, ConnectThrows(s, l) PROVE SInv'
  BY <1>4, CloseKeeps DEF ConnectThrows
<1>5. CASE Disconnect \/ HandshakeThrows
  BY <1>5, CloseKeeps DEF Disconnect, HandshakeThrows, Destroy
<1>6. CASE UNCHANGED svars
  BY <1>6 DEF svars, SInv, SocketTypes, Unmade, DescriptorsOwned, Owned, Open
<1>7. ASSUME NEW o \in {"send", "send_async"}, NEW v \in Value, SendHeader(o, v) PROVE SInv'
  BY <1>7, <1>6 DEF SendHeader
<1>8. CASE StartRecv \/ Connected \/ SendPayload \/ SendTimesOut \/ SendKills
             \/ ReadHeader \/ HeaderOverwhelms \/ HeaderThrows \/ ReadPayload \/ PayloadThrows
  BY <1>8, <1>6 DEF StartRecv, Connected, SendPayload, SendTimesOut, SendKills,
       ReadHeader, HeaderOverwhelms, HeaderThrows, ReadPayload, PayloadThrows
<1>9. CASE (\E l \in LevelAsked \cap Level : Accept(l))
             \/ ServerClose \/ Serve \/ ServerGivesUp \/ Push \/ Deliver
  BY <1>9, <1>6 DEF Accept, ServerClose, Serve, ServerGivesUp, Push, Deliver, Serving
<1>10. CASE UNCHANGED connvars BY <1>10, <1>6 DEF connvars
<1>. QED BY <1>1, <1>2, <1>3, <1>4, <1>5, <1>7, <1>8, <1>9, <1>10 DEF Next, Client

\* A connection that takes a socket, throws, fails the handshake or ends
\* leaves no descriptor with two owners or with none.
THEOREM ConnectionOwnsDescriptors == Spec => []DescriptorsOwned
<1>1. Init => SInv BY SInvInit DEF Init
<1>2. SInv => DescriptorsOwned BY DEF SInv
<1>. QED BY <1>1, <1>2, ConnectionSockets, PTL DEF Spec

-----------------------------------------------------------------------------
(* The bytes that come back.  The messages that recv has not returned lie  *)
(* in the stream one behind the other, the first of them less what recv    *)
(* has read of it: the k-th ends at place end[k].                          *)

Answer == [of : 0..MaxRequests, type : {"Async", "Response"}, size : AnswerSize]
Cell   == [m : Answer, i : Nat]

Placed(end, q, d, s) ==
  /\ end \in [Nat -> Int]
  /\ end[0] = 0 - s /\ end[Len(q)] = Len(d)
  /\ \A k \in 1..Len(q) : end[k] = end[k - 1] + HeaderSize + q[k].size
  /\ \A k \in 1..Len(q) : end[k] <= Len(d)
  /\ \A k \in 1..Len(q) : \A j \in 1..Len(d) :
       end[k - 1] < j /\ j <= end[k] => d[j] = [m |-> q[k], i |-> j - end[k - 1]]

Aligned(q, d, s) == \E end : Placed(end, q, d, s)

LEMMA HeaderIsNat == HeaderSize \in Nat \ {0}
BY FrameAssumption

LEMMA AnswerSizes == ASSUME NEW m \in Answer
                     PROVE  /\ m.size \in AnswerSize /\ m.size \in Nat
                            /\ HeaderSize + m.size \in Nat
<1>1. m.size \in AnswerSize BY DEF Answer
<1>2. AnswerSize \subseteq Nat BY ConnectionAssumption
<1>3. m.size \in Nat BY <1>1, <1>2
<1>4. HeaderSize + m.size \in Nat BY <1>3, HeaderIsNat
<1>. QED BY <1>1, <1>3, <1>4

LEMMA BytesOf == ASSUME NEW m \in Answer
                 PROVE  /\ Bytes(m) \in Seq(Cell) /\ Len(Bytes(m)) = HeaderSize + m.size
                        /\ \A i \in 1..(HeaderSize + m.size) : Bytes(m)[i] = [m |-> m, i |-> i]
<1>. DEFINE n == HeaderSize + m.size
<1>1. n \in Nat BY AnswerSizes
<1>2. Bytes(m) = [i \in 1..n |-> [m |-> m, i |-> i]] BY DEF Bytes
<1>. HIDE DEF n
<1>3. \A i \in 1..n : [m |-> m, i |-> i] \in Cell
  <2>1. \A i \in 1..n : i \in Nat BY <1>1
  <2>. QED BY <2>1 DEF Cell
<1>4. Bytes(m) \in [1..n -> Cell] BY <1>2, <1>3
<1>5. Bytes(m) \in Seq(Cell) /\ Len(Bytes(m)) = n BY <1>1, <1>4
<1>6. \A i \in 1..n : Bytes(m)[i] = [m |-> m, i |-> i] BY <1>2
<1>. QED BY <1>5, <1>6 DEF n

LEMMA LastOf == ASSUME NEW S, NEW q \in Seq(S), NEW m \in S
                PROVE  /\ Append(q, m) \in Seq(S) /\ Len(Append(q, m)) = Len(q) + 1
                       /\ Append(q, m)[Len(q) + 1] = m
                       /\ \A k \in 1..Len(q) : Append(q, m)[k] = q[k]
OBVIOUS

\* What is left of a sequence without its first n elements.
LEMMA DropOf == ASSUME NEW S, NEW d \in Seq(S), NEW n \in Nat, n <= Len(d)
                PROVE  /\ SubSeq(d, n + 1, Len(d)) \in Seq(S)
                       /\ Len(SubSeq(d, n + 1, Len(d))) = Len(d) - n
                       /\ \A j \in 1..(Len(d) - n) : SubSeq(d, n + 1, Len(d))[j] = d[j + n]
<1>1. Len(d) \in Nat /\ n + 1 \in Int OBVIOUS
<1>2. \A i \in (n + 1)..Len(d) : d[i] \in S BY <1>1
<1>. DEFINE e == SubSeq(d, n + 1, Len(d))
<1>3. /\ e \in Seq(S)
      /\ Len(e) = IF n + 1 <= Len(d) THEN Len(d) - (n + 1) + 1 ELSE 0
      /\ \A i \in 1..(Len(d) - (n + 1) + 1) : e[i] = d[n + 1 + i - 1]
  BY <1>1, <1>2, SubSeqProperties
<1>. HIDE DEF e
<1>4. Len(e) = Len(d) - n BY <1>1, <1>3
<1>5. ASSUME NEW j \in 1..(Len(d) - n) PROVE e[j] = d[j + n]
  <2>1. j \in 1..(Len(d) - (n + 1) + 1) /\ n + 1 + j - 1 = j + n BY <1>1
  <2>. QED BY <1>3, <2>1
<1>. QED BY <1>3, <1>4, <1>5 DEF e

\* A message is written behind the others.
LEMMA PlacedAppend ==
  ASSUME NEW q \in Seq(Answer), NEW d \in Seq(Cell), NEW s \in Nat, Aligned(q, d, s),
         NEW m \in Answer
  PROVE  /\ Append(q, m) \in Seq(Answer) /\ d \o Bytes(m) \in Seq(Cell)
         /\ Len(d) <= Len(d \o Bytes(m))
         /\ Aligned(Append(q, m), d \o Bytes(m), s)
<1>1. PICK end : Placed(end, q, d, s) BY DEF Aligned
<1>. DEFINE n == Len(q)
            l == Len(d)
            t == HeaderSize + m.size
            b == Bytes(m)
            q1 == Append(q, m)
            d1 == d \o b
            end1 == [end EXCEPT ![n + 1] = l + t]
<1>2. n \in Nat /\ l \in Nat /\ t \in Nat /\ HeaderSize \in Nat /\ m.size \in Nat
  BY AnswerSizes, HeaderIsNat
<1>3. q1 \in Seq(Answer) /\ Len(q1) = n + 1 /\ q1[n + 1] = m /\ \A k \in 1..n : q1[k] = q[k]
  BY LastOf
<1>4. b \in Seq(Cell) /\ Len(b) = t /\ \A i \in 1..t : b[i] = [m |-> m, i |-> i]
  BY BytesOf
<1>5. /\ d1 \in Seq(Cell) /\ Len(d1) = l + Len(b)
      /\ \A i \in 1..(l + Len(b)) : d1[i] = IF i <= l THEN d[i] ELSE b[i - l]
  <2>. HIDE DEF b
  <2>. QED BY <1>4, ConcatProperties
<1>6. /\ end \in [Nat -> Int]
      /\ end[0] = 0 - s /\ end[n] = l
      /\ \A k \in 1..n : end[k] = end[k - 1] + HeaderSize + q[k].size
      /\ \A k \in 1..n : end[k] <= l
      /\ \A k \in 1..n : \A j \in 1..l :
           end[k - 1] < j /\ j <= end[k] => d[j] = [m |-> q[k], i |-> j - end[k - 1]]
  BY <1>1 DEF Placed
<1>. HIDE DEF n, l, b
<1>. HIDE DEF t, q1, d1
<1>7. /\ end1 \in [Nat -> Int] /\ end1[n + 1] = l + t
      /\ \A k \in 0..n : end1[k] = end[k]
  <2>1. n + 1 \in Nat /\ l + t \in Int /\ n + 1 \notin 0..n /\ 0..n \subseteq Nat BY <1>2
  <2>. QED BY <1>6, <2>1
<1>. HIDE DEF end1
<1>8. end1[0] = 0 - s /\ end1[n + 1] = Len(d1)
  BY <1>2, <1>4, <1>5, <1>6, <1>7
<1>9. ASSUME NEW k \in 1..(n + 1)
      PROVE  /\ end1[k] = end1[k - 1] + HeaderSize + q1[k].size
             /\ end1[k] <= Len(d1)
             /\ \A j \in 1..Len(d1) :
                  end1[k - 1] < j /\ j <= end1[k] => d1[j] = [m |-> q1[k], i |-> j - end1[k - 1]]
  <2>1. CASE k = n + 1
    <3>1. k - 1 = n /\ n \in 0..n BY <1>2, <2>1
    <3>2. q1[k] = m /\ end1[k] = l + t /\ end1[k - 1] = l
      BY <1>3, <1>6, <1>7, <2>1, <3>1
    <3>3. end1[k] = end1[k - 1] + HeaderSize + q1[k].size BY <1>2, <3>2, SMTT(20) DEF t
    <3>4. Len(d1) = l + t BY <1>4, <1>5
    <3>5. ASSUME NEW j \in 1..Len(d1), l < j PROVE d1[j] = [m |-> m, i |-> j - l]
      <4>1. j \in 1..(l + Len(b)) /\ j - l \in 1..t /\ ~(j <= l) BY <1>2, <1>4, <3>4, <3>5
      <4>. QED BY <1>4, <1>5, <4>1
    <3>. QED BY <1>2, <3>2, <3>3, <3>4, <3>5
  <2>2. CASE k \in 1..n
    <3>1. k \in 0..n /\ k - 1 \in 0..n BY <1>2, <2>2
    <3>2. q1[k] = q[k] /\ end1[k] = end[k] /\ end1[k - 1] = end[k - 1]
      BY <1>3, <1>7, <2>2, <3>1
    <3>3. end[k] \in Int /\ end[k] <= l BY <1>6, <2>2, <3>1
    <3>4. ASSUME NEW j \in 1..Len(d1), j <= end[k] PROVE j \in 1..l /\ d1[j] = d[j]
      <4>1. j \in 1..l BY <1>2, <3>3, <3>4
      <4>2. j \in 1..(l + Len(b)) BY <1>2, <1>4, <4>1
      <4>. QED BY <1>5, <4>1, <4>2
    <3>5. l <= Len(d1) BY <1>2, <1>4, <1>5
    <3>6. end[k] = end[k - 1] + HeaderSize + q[k].size BY <1>6, <2>2
    <3>7. \A j \in 1..l :
           end[k - 1] < j /\ j <= end[k] => d[j] = [m |-> q[k], i |-> j - end[k - 1]]
      BY <1>6, <2>2
    <3>8. end1[k] <= Len(d1) BY <1>2, <1>4, <1>5, <3>2, <3>3
    <3>9. ASSUME NEW j \in 1..Len(d1), end[k - 1] < j, j <= end[k]
          PROVE  d1[j] = [m |-> q[k], i |-> j - end[k - 1]]
      BY <3>4, <3>7, <3>9
    <3>. QED BY <3>2, <3>6, <3>8, <3>9
  <2>. QED BY <1>2, <2>1, <2>2
<1>10. Placed(end1, q1, d1, s) BY <1>3, <1>7, <1>8, <1>9 DEF Placed
<1>11. l <= Len(d1) BY <1>2, <1>4, <1>5
<1>. QED BY <1>3, <1>5, <1>10, <1>11 DEF Aligned, q1, d1, b, l

\* A header is read: it is that of the oldest message.
LEMMA PlacedHeader ==
  ASSUME NEW q \in Seq(Answer), NEW d \in Seq(Cell), Aligned(q, d, 0), HeaderSize <= Len(d)
  PROVE  /\ q # <<>> /\ d[1].m = q[1] /\ d[1].i = 1
         /\ SubSeq(d, HeaderSize + 1, Len(d)) \in Seq(Cell)
         /\ Aligned(q, SubSeq(d, HeaderSize + 1, Len(d)), HeaderSize)
<1>1. PICK end : Placed(end, q, d, 0) BY DEF Aligned
<1>. DEFINE n == Len(q)
            l == Len(d)
            h == HeaderSize
            d1 == SubSeq(d, h + 1, l)
            end1 == [k \in Nat |-> end[k] - h]
<1>2. n \in Nat /\ l \in Nat /\ h \in Nat \ {0} /\ h <= l BY HeaderIsNat
<1>3. d1 \in Seq(Cell) /\ Len(d1) = l - h /\ \A j \in 1..(l - h) : d1[j] = d[j + h]
  BY <1>2, DropOf
<1>4. /\ end \in [Nat -> Int]
      /\ end[0] = 0 /\ end[n] = l
      /\ \A k \in 1..n : end[k] = end[k - 1] + h + q[k].size
      /\ \A k \in 1..n : end[k] <= l
      /\ \A k \in 1..n : \A j \in 1..l :
           end[k - 1] < j /\ j <= end[k] => d[j] = [m |-> q[k], i |-> j - end[k - 1]]
  BY <1>1 DEF Placed
<1>5. \A k \in 1..n : q[k].size \in Nat
  <2>1. \A k \in 1..n : q[k] \in Answer OBVIOUS
  <2>. QED BY <2>1, AnswerSizes
<1>6. end1 \in [Nat -> Int] /\ \A k \in Nat : end1[k] = end[k] - h BY <1>2, <1>4
<1>7. n # 0 BY <1>2, <1>4
<1>8. q # <<>> BY <1>7
<1>. HIDE DEF n, l, h, d1, end1
<1>9. d[1] = [m |-> q[1], i |-> 1]
  <2>1. 1 \in 1..n /\ 1 \in 1..l /\ 1 - 1 = 0 BY <1>2, <1>7
  <2>2. end[1] = 0 + h + q[1].size /\ q[1].size \in Nat BY <1>4, <1>5, <2>1
  <2>3. end[0] < 1 /\ 1 <= end[1] /\ 1 - end[0] = 1 BY <1>2, <1>4, <2>2
  <2>. QED BY <1>4, <2>1, <2>3
<1>10. end1[0] = 0 - h /\ end1[n] = Len(d1) BY <1>2, <1>3, <1>4, <1>6
<1>11. ASSUME NEW k \in 1..n
      PROVE  /\ end1[k] = end1[k - 1] + h + q[k].size
             /\ end1[k] <= Len(d1)
             /\ \A j \in 1..Len(d1) :
                  end1[k - 1] < j /\ j <= end1[k] => d1[j] = [m |-> q[k], i |-> j - end1[k - 1]]
  <2>1. k \in Nat /\ k - 1 \in Nat BY <1>2
  <2>2. /\ end1[k] = end[k] - h /\ end1[k - 1] = end[k - 1] - h
        /\ end[k] \in Int /\ end[k - 1] \in Int /\ q[k].size \in Nat
    BY <1>4, <1>5, <1>6, <2>1
  <2>3. end[k] = end[k - 1] + h + q[k].size /\ end[k] <= l BY <1>4
  <2>4. \A j \in 1..l :
          end[k - 1] < j /\ j <= end[k] => d[j] = [m |-> q[k], i |-> j - end[k - 1]]
    BY <1>4
  <2>. DEFINE z == q[k].size
              a == end[k - 1]
              b == end[k]
  <2>5. end1[k] = end1[k - 1] + h + q[k].size /\ end1[k] <= Len(d1)
    <3>1. end1[k] = b - h /\ end1[k - 1] = a - h BY <2>2
    <3>2. a \in Int /\ b \in Int /\ z \in Nat /\ b = a + h + z /\ b <= l BY <2>2, <2>3
    <3>3. q[k].size = z /\ Len(d1) = l - h BY <1>3
    <3>. HIDE DEF a, b, z
    <3>4. b - h = a - h + h + z /\ b - h <= l - h BY <1>2, <3>2
    <3>. QED BY <3>1, <3>3, <3>4
  <2>6. ASSUME NEW j \in 1..Len(d1), end1[k - 1] < j, j <= end1[k]
        PROVE  d1[j] = [m |-> q[k], i |-> j - end1[k - 1]]
    <3>1. j \in 1..(l - h) /\ j + h \in 1..l BY <1>2, <1>3
    <3>2. end[k - 1] < j + h /\ j + h <= end[k] /\ (j + h) - end[k - 1] = j - end1[k - 1]
      <4>1. end1[k] = b - h /\ end1[k - 1] = a - h /\ a \in Int /\ b \in Int /\ j \in Int
        BY <1>3, <2>2
      <4>. HIDE DEF a, b
      <4>2. a - h < j /\ j <= b - h BY <2>6, <4>1
      <4>3. a < j + h /\ j + h <= b /\ (j + h) - a = j - (a - h) BY <1>2, <4>1, <4>2
      <4>. QED BY <4>1, <4>3 DEF a, b
    <3>. DEFINE p == j + h
    <3>3. d[p] = [m |-> q[k], i |-> p - end[k - 1]]
      <4>1. p \in 1..l /\ end[k - 1] < p /\ p <= end[k] BY <3>1, <3>2
      <4>. HIDE DEF p
      <4>. QED BY <2>4, <4>1
    <3>4. d1[j] = d[p] BY <1>3, <3>1
    <3>5. p - end[k - 1] = j - end1[k - 1] BY <3>2
    <3>. QED BY <3>3, <3>4, <3>5
  <2>. QED BY <2>5, <2>6
<1>12. Placed(end1, q, d1, h) BY <1>6, <1>10, <1>11 DEF Placed, n, h
<1>. QED BY <1>3, <1>8, <1>9, <1>12 DEF Aligned, d1, h, l

\* A payload is read: the next message begins where it ends.
LEMMA PlacedPayload ==
  ASSUME NEW q \in Seq(Answer), NEW d \in Seq(Cell), q # <<>>, Aligned(q, d, HeaderSize)
  PROVE  /\ SubSeq(q, 2, Len(q)) \in Seq(Answer)
         /\ SubSeq(d, q[1].size + 1, Len(d)) \in Seq(Cell)
         /\ Aligned(SubSeq(q, 2, Len(q)), SubSeq(d, q[1].size + 1, Len(d)), 0)
<1>1. PICK end : Placed(end, q, d, HeaderSize) BY DEF Aligned
<1>. DEFINE n == Len(q)
            l == Len(d)
            h == HeaderSize
            w == q[1].size
            q1 == SubSeq(q, 2, n)
            d1 == SubSeq(d, w + 1, l)
            end1 == [k \in Nat |-> end[k + 1] - w]
<1>2. n \in Nat /\ n >= 1 /\ l \in Nat /\ h \in Nat \ {0} BY HeaderIsNat
<1>3. \A k \in 1..n : q[k].size \in Nat
  <2>1. \A k \in 1..n : q[k] \in Answer OBVIOUS
  <2>. QED BY <2>1, AnswerSizes
<1>4. w \in Nat BY <1>2, <1>3
<1>5. /\ end \in [Nat -> Int]
      /\ end[0] = 0 - h /\ end[n] = l
      /\ \A k \in 1..n : end[k] = end[k - 1] + h + q[k].size
      /\ \A k \in 1..n : end[k] <= l
      /\ \A k \in 1..n : \A j \in 1..l :
           end[k - 1] < j /\ j <= end[k] => d[j] = [m |-> q[k], i |-> j - end[k - 1]]
  BY <1>1 DEF Placed
<1>6. end1 \in [Nat -> Int] /\ \A k \in Nat : end1[k] = end[k + 1] - w BY <1>4, <1>5
<1>7. q1 \in Seq(Answer) /\ Len(q1) = n - 1 /\ \A j \in 1..(n - 1) : q1[j] = q[j + 1]
  <2>1. /\ SubSeq(q, 1 + 1, Len(q)) \in Seq(Answer)
        /\ Len(SubSeq(q, 1 + 1, Len(q))) = Len(q) - 1
        /\ \A j \in 1..(Len(q) - 1) : SubSeq(q, 1 + 1, Len(q))[j] = q[j + 1]
    <3>1. 1 \in Nat /\ 1 <= Len(q) BY <1>2
    <3>. HIDE DEF n
    <3>. QED BY <3>1, DropOf
  <2>2. 1 + 1 = 2 OBVIOUS
  <2>. QED BY <2>1, <2>2
<1>8. end[1] = w /\ w <= l
  <2>1. 1 \in 1..n /\ 1 - 1 = 0 BY <1>2
  <2>. HIDE DEF w, n, l, h
  <2>2. end[1] = 0 - h + h + q[1].size BY <1>5, <2>1
  <2>3. end[1] = w BY <1>2, <1>4, <2>2 DEF w
  <2>. QED BY <1>5, <2>1, <2>3
<1>9. d1 \in Seq(Cell) /\ Len(d1) = l - w /\ \A j \in 1..(l - w) : d1[j] = d[j + w]
  <2>. HIDE DEF w
  <2>. QED BY <1>4, <1>8, DropOf
<1>. HIDE DEF n, l, h, w, q1, d1, end1
<1>10. end1[0] = 0 - 0 /\ end1[n - 1] = Len(d1)
  <2>1. n - 1 \in Nat /\ n - 1 + 1 = n /\ 0 + 1 = 1 BY <1>2
  <2>2. end1[n - 1] = end[n] - w /\ end1[0] = end[1] - w BY <1>6, <2>1
  <2>. QED BY <1>2, <1>4, <1>5, <1>8, <1>9, <2>2
<1>11. ASSUME NEW k \in 1..(n - 1)
      PROVE  /\ end1[k] = end1[k - 1] + h + q1[k].size
             /\ end1[k] <= Len(d1)
             /\ \A j \in 1..Len(d1) :
                  end1[k - 1] < j /\ j <= end1[k] => d1[j] = [m |-> q1[k], i |-> j - end1[k - 1]]
  <2>1. k \in Nat /\ k - 1 \in Nat /\ k - 1 + 1 = k /\ k + 1 \in 1..n /\ k + 1 - 1 = k
        /\ k + 1 \in Nat
    BY <1>2
  <2>2. /\ end1[k] = end[k + 1] - w /\ end1[k - 1] = end[k] - w /\ q1[k] = q[k + 1]
        /\ end[k + 1] \in Int /\ end[k] \in Int /\ q[k + 1].size \in Nat
    BY <1>3, <1>5, <1>6, <1>7, <2>1
  <2>3. end[k + 1] = end[k] + h + q[k + 1].size /\ end[k + 1] <= l BY <1>5, <2>1
  <2>4. \A j \in 1..l :
          end[k] < j /\ j <= end[k + 1] => d[j] = [m |-> q[k + 1], i |-> j - end[k]]
    BY <1>5, <2>1, SMTT(20)
  <2>. DEFINE z == q[k + 1].size
              a == end[k]
              b == end[k + 1]
  <2>5. end1[k] = end1[k - 1] + h + q1[k].size /\ end1[k] <= Len(d1)
    <3>1. end1[k] = b - w /\ end1[k - 1] = a - w /\ q1[k].size = z BY <2>2
    <3>2. a \in Int /\ b \in Int /\ z \in Nat /\ b = a + h + z /\ b <= l BY <2>2, <2>3
    <3>. HIDE DEF a, b, z
    <3>. QED BY <1>2, <1>4, <1>9, <3>1, <3>2, SMTT(20)
  <2>6. ASSUME NEW j \in 1..Len(d1), end1[k - 1] < j, j <= end1[k]
        PROVE  d1[j] = [m |-> q1[k], i |-> j - end1[k - 1]]
    <3>1. j \in 1..(l - w) /\ j + w \in 1..l BY <1>2, <1>4, <1>9
    <3>2. end[k] < j + w /\ j + w <= end[k + 1] /\ (j + w) - end[k] = j - end1[k - 1]
      <4>1. end1[k] = b - w /\ end1[k - 1] = a - w /\ a \in Int /\ b \in Int /\ j \in Int
        BY <1>9, <2>2
      <4>. HIDE DEF a, b
      <4>2. a - w < j /\ j <= b - w BY <2>6, <4>1
      <4>3. a < j + w /\ j + w <= b /\ (j + w) - a = j - (a - w) BY <1>4, <4>1, <4>2
      <4>. QED BY <4>1, <4>3 DEF a, b
    <3>. DEFINE p == j + w
    <3>3. d[p] = [m |-> q[k + 1], i |-> p - end[k]]
      <4>1. p \in 1..l /\ end[k] < p /\ p <= end[k + 1] BY <3>1, <3>2
      <4>. HIDE DEF p
      <4>. QED BY <2>4, <4>1
    <3>4. d1[j] = d[p] BY <1>9, <3>1
    <3>5. p - end[k] = j - end1[k - 1] BY <3>2
    <3>. QED BY <2>2, <3>3, <3>4, <3>5
  <2>. QED BY <2>5, <2>6
<1>12. Placed(end1, q1, d1, 0) BY <1>6, <1>7, <1>10, <1>11 DEF Placed, h
<1>. QED BY <1>7, <1>9, <1>12 DEF Aligned, q1, d1, w, n, l

-----------------------------------------------------------------------------
(* The dialogue.  Of the request that a call waits for there is one trace  *)
(* at most, among the messages written or among those that come back, and  *)
(* while no call waits there is none.                                      *)

OneCall(u, q, r, waits) ==
  /\ \A i \in DOMAIN u : u[i].type = "Sync" => waits /\ u[i].of = r
  /\ \A i \in DOMAIN q : q[i].type = "Response" => waits /\ q[i].of = r
  /\ \A i, j \in DOMAIN u : u[i].type = "Sync" /\ u[j].type = "Sync" => i = j
  /\ \A i, j \in DOMAIN q : q[i].type = "Response" /\ q[j].type = "Response" => i = j
  /\ \A i \in DOMAIN u, j \in DOMAIN q : ~(u[i].type = "Sync" /\ q[j].type = "Response")

\* While no call waits there is no trace, so the next may begin.
LEMMA NoCall == ASSUME NEW u, NEW q, NEW r, NEW s, NEW w, OneCall(u, q, r, FALSE)
                PROVE  OneCall(u, q, s, w)
BY DEF OneCall

LEMMA CallPosted ==
  ASSUME NEW u \in Seq(Written), NEW q, NEW r, NEW s, NEW w, OneCall(u, q, r, FALSE),
         NEW m \in Written, m.type = "Sync" => w /\ m.of = s
  PROVE  OneCall(Append(u, m), q, s, w)
<1>. DEFINE v == Append(u, m)
<1>1. Len(u) \in Nat /\ DOMAIN u = 1..Len(u) OBVIOUS
<1>2. /\ v \in Seq(Written) /\ Len(v) = Len(u) + 1 /\ v[Len(u) + 1] = m
      /\ \A k \in 1..Len(u) : v[k] = u[k]
  BY LastOf
<1>3. DOMAIN v = 1..(Len(u) + 1) BY <1>2
<1>4. /\ \A i \in DOMAIN u : u[i].type # "Sync"
      /\ \A i \in DOMAIN q : q[i].type # "Response"
  BY DEF OneCall
<1>. HIDE DEF v
<1>5. ASSUME NEW i \in DOMAIN v, v[i].type = "Sync" PROVE i = Len(u) + 1
  BY <1>1, <1>2, <1>3, <1>4, <1>5
<1>6. OneCall(v, q, s, w) BY <1>2, <1>4, <1>5 DEF OneCall
<1>. QED BY <1>6 DEF v

LEMMA RestOf == ASSUME NEW S, NEW u \in Seq(S), u # <<>>
                PROVE  /\ Tail(u) \in Seq(S) /\ Head(u) = u[1] /\ Head(u) \in S
                       /\ 1 \in DOMAIN u /\ Tail(u) = SubSeq(u, 2, Len(u))
                       /\ \A k \in DOMAIN Tail(u) : k + 1 \in DOMAIN u /\ k \in Nat /\ Tail(u)[k] = u[k + 1]
<1>1. Len(u) \in Nat /\ Len(u) # 0 /\ DOMAIN u = 1..Len(u) OBVIOUS
<1>2. /\ Head(u) \in S /\ Tail(u) \in Seq(S) /\ Len(Tail(u)) = Len(u) - 1
      /\ \A i \in 1..Len(Tail(u)) : Tail(u)[i] = u[i + 1]
  BY HeadTailProperties
<1>3. Tail(u) = SubSeq(u, 2, Len(u)) BY TailIsSubSeq
<1>4. Head(u) = u[1] OBVIOUS
<1>5. DOMAIN Tail(u) = 1..(Len(u) - 1) BY <1>1, <1>2
<1>6. \A k \in 1..(Len(u) - 1) : k + 1 \in 1..Len(u) /\ k \in Nat BY <1>1
<1>. QED BY <1>1, <1>2, <1>3, <1>4, <1>5, <1>6

\* The server takes a message that is no call.
LEMMA CallSkipped ==
  ASSUME NEW u \in Seq(Written), NEW q, NEW r, NEW w, OneCall(u, q, r, w), u # <<>>
  PROVE  OneCall(Tail(u), q, r, w)
<1>1. \A k \in DOMAIN Tail(u) : k + 1 \in DOMAIN u /\ k \in Nat /\ Tail(u)[k] = u[k + 1]
  BY RestOf
<1>2. \A i, j \in DOMAIN Tail(u) :
        Tail(u)[i].type = "Sync" /\ Tail(u)[j].type = "Sync" => i = j
  <2>. TAKE i, j \in DOMAIN Tail(u)
  <2>1. u[i + 1].type = "Sync" /\ u[j + 1].type = "Sync" => i + 1 = j + 1
    BY <1>1 DEF OneCall
  <2>2. i \in Nat /\ j \in Nat BY <1>1
  <2>3. i + 1 = j + 1 => i = j BY <2>2
  <2>. QED BY <1>1, <2>1, <2>3
<1>. QED BY <1>1, <1>2 DEF OneCall

\* The server sends a message that is no answer.
LEMMA CallPushed ==
  ASSUME NEW u, NEW q \in Seq(Answer), NEW r, NEW w, OneCall(u, q, r, w),
         NEW m \in Answer, m.type # "Response"
  PROVE  OneCall(u, Append(q, m), r, w)
<1>. DEFINE v == Append(q, m)
<1>1. Len(q) \in Nat /\ DOMAIN q = 1..Len(q) OBVIOUS
<1>2. /\ v \in Seq(Answer) /\ Len(v) = Len(q) + 1 /\ v[Len(q) + 1] = m
      /\ \A k \in 1..Len(q) : v[k] = q[k]
  BY LastOf
<1>3. DOMAIN v = 1..(Len(q) + 1) BY <1>2
<1>. HIDE DEF v
<1>4. ASSUME NEW i \in DOMAIN v, v[i].type = "Response" PROVE i \in DOMAIN q /\ v[i] = q[i]
  BY <1>1, <1>2, <1>3, <1>4
<1>5. OneCall(u, v, r, w) BY <1>4 DEF OneCall
<1>. QED BY <1>5 DEF v

\* The server answers the call.
LEMMA CallAnswered ==
  ASSUME NEW u \in Seq(Written), NEW q \in Seq(Answer), NEW r, NEW w, OneCall(u, q, r, w),
         u # <<>>, Head(u).type = "Sync", NEW m \in Answer, m.of = Head(u).of
  PROVE  OneCall(Tail(u), Append(q, m), r, w)
<1>. DEFINE v == Append(q, m)
<1>1. /\ 1 \in DOMAIN u /\ u[1].type = "Sync" /\ u[1].of = m.of
      /\ \A k \in DOMAIN Tail(u) : k + 1 \in DOMAIN u /\ k \in Nat /\ Tail(u)[k] = u[k + 1]
  BY RestOf
<1>2. Len(q) \in Nat /\ DOMAIN q = 1..Len(q) OBVIOUS
<1>3. /\ v \in Seq(Answer) /\ Len(v) = Len(q) + 1 /\ v[Len(q) + 1] = m
      /\ \A k \in 1..Len(q) : v[k] = q[k]
  BY LastOf
<1>4. DOMAIN v = 1..(Len(q) + 1) BY <1>3
<1>5. w /\ m.of = r BY <1>1 DEF OneCall
<1>6. ASSUME NEW i \in DOMAIN q PROVE q[i].type # "Response" BY <1>1, <1>6 DEF OneCall
<1>7. ASSUME NEW k \in DOMAIN Tail(u) PROVE Tail(u)[k].type # "Sync"
  <2>1. k + 1 \in DOMAIN u /\ k \in Nat /\ Tail(u)[k] = u[k + 1] BY <1>1
  <2>2. k + 1 # 1 BY <2>1
  <2>. QED BY <1>1, <2>1, <2>2 DEF OneCall
<1>. HIDE DEF v
<1>8. ASSUME NEW i \in DOMAIN v, v[i].type = "Response" PROVE i = Len(q) + 1
  BY <1>2, <1>3, <1>4, <1>6, <1>8
<1>9. OneCall(Tail(u), v, r, w) BY <1>3, <1>5, <1>7, <1>8 DEF OneCall
<1>. QED BY <1>9 DEF v

\* The call takes its answer, or a call that waits for none a message.
LEMMA CallEnded ==
  ASSUME NEW u, NEW q \in Seq(Answer), NEW r, NEW w, OneCall(u, q, r, w), q # <<>>,
         q[1].type = "Response" \/ ~w
  PROVE  OneCall(u, Tail(q), r, FALSE)
<1>1. /\ 1 \in DOMAIN q
      /\ \A k \in DOMAIN Tail(q) : k + 1 \in DOMAIN q /\ k \in Nat /\ Tail(q)[k] = q[k + 1]
  BY RestOf
<1>2. ASSUME NEW k \in DOMAIN Tail(q) PROVE Tail(q)[k].type # "Response"
  <2>1. k + 1 \in DOMAIN q /\ k \in Nat /\ Tail(q)[k] = q[k + 1] BY <1>1
  <2>2. k + 1 # 1 BY <2>1
  <2>. QED BY <1>1, <2>1, <2>2 DEF OneCall
<1>3. ASSUME NEW i \in DOMAIN u PROVE u[i].type # "Sync" BY <1>1, <1>3 DEF OneCall
<1>. QED BY <1>2, <1>3 DEF OneCall

-----------------------------------------------------------------------------
(* The invariant of the dialogue.  What is said of the stream and of the   *)
(* request holds until a call throws.                                      *)

Waits == op = "send" /\ pc \in {"header", "payload"}

Lengths == /\ want \in Nat /\ req \in 0..MaxRequests /\ pushes \in 0..MaxPushes
           /\ down \in Seq(Cell) /\ avail \in 0..Len(down) /\ unread \in Seq(Answer)
           /\ taken \in Taken \cup {None}
           /\ (failed => unread = <<>>)
           /\ \A i \in DOMAIN up : up[i].of \in 0..MaxRequests

Phases == /\ failed \in BOOLEAN
          /\ (pc = "sending" => cur # None) /\ (cur # None => pc \in {"sending", "killed"})
          /\ (pc = "none") <=> (Conn \notin made)

Followed == ~failed => Aligned(unread, down, IF pc = "payload" THEN HeaderSize ELSE 0)

\* What a header may announce, also amid a message.
Heard == [of : Nat, type : MessageType, size : Nat]

Begun == /\ pc = "payload" => msg \in Heard
         /\ (pc = "payload" /\ ~failed) => (unread # <<>> /\ msg = unread[1] /\ want = msg.size)
         /\ pc = "sending" => cur.of = req /\ (cur.type = "Sync" <=> op = "send")

Asked == ~failed => OneCall(up, unread, req, Waits)

DInv == Lengths /\ Phases /\ Followed /\ Begun /\ Asked /\ AnswerIsMine

LEMMA NothingPlaced == Aligned(<<>>, <<>>, 0)
<1>. DEFINE end == [k \in Nat |-> 0]
<1>1. end \in [Nat -> Int] /\ end[0] = 0 - 0 BY SMT
<1>2. Len(<<>>) = 0 OBVIOUS
<1>. HIDE DEF end
<1>3. Placed(end, <<>>, <<>>, 0) BY <1>1, <1>2 DEF Placed
<1>. QED BY <1>3 DEF Aligned

LEMMA NothingAsked == ASSUME NEW r, NEW w PROVE OneCall(<<>>, <<>>, r, w)
BY DEF OneCall

LEMMA DInvInit == Init => DInv
<1>. SUFFICES ASSUME Init PROVE DInv
  OBVIOUS
<1>1. /\ pc = "none" /\ op = None /\ cur = None /\ want = 0 /\ taken = None /\ req = 0
      /\ failed = FALSE /\ up = <<>> /\ down = <<>> /\ unread = <<>> /\ avail = 0
      /\ pushes = 0 /\ made = {}
  BY DEF Init, SocketsInit
<1>2. 0 \in 0..MaxRequests /\ 0 \in 0..MaxPushes BY ConnectionAssumption
<1>3. Lengths BY <1>1, <1>2 DEF Lengths
<1>4. Phases BY <1>1 DEF Phases
<1>5. Followed BY <1>1, NothingPlaced DEF Followed
<1>6. Begun BY <1>1 DEF Begun
<1>7. Asked BY <1>1, NothingAsked DEF Asked
<1>8. AnswerIsMine BY <1>1 DEF AnswerIsMine
<1>. QED BY <1>3, <1>4, <1>5, <1>6, <1>7, <1>8 DEF DInv

LEMMA FreshDialogue == ASSUME Fresh0, Conn \notin made' PROVE DInv'
<1>1. /\ pc' = "none" /\ op' = None /\ cur' = None /\ want' = 0 /\ taken' = None /\ req' = 0
      /\ failed' = FALSE /\ up' = <<>> /\ down' = <<>> /\ unread' = <<>> /\ avail' = 0
      /\ pushes' = 0
  BY DEF Fresh0
<1>2. 0 \in 0..MaxRequests /\ 0 \in 0..MaxPushes BY ConnectionAssumption
<1>3. Lengths' BY <1>1, <1>2 DEF Lengths
<1>4. Phases' BY <1>1 DEF Phases
<1>5. Followed' BY <1>1, NothingPlaced DEF Followed
<1>6. Begun' BY <1>1 DEF Begun
<1>7. Asked' BY <1>1, NothingAsked DEF Asked
<1>8. AnswerIsMine' BY <1>1 DEF AnswerIsMine
<1>. QED BY <1>3, <1>4, <1>5, <1>6, <1>7, <1>8 DEF DInv

\* Steps that neither write nor read: the client is where it was, or not
\* amid a call that reads.
LEMMA QuietDialogue ==
  ASSUME DInv, Phases', up' = up, down' = down, unread' = unread,
         avail' \in 0..Len(down), pushes' \in 0..MaxPushes,
         want' = want, taken' = taken, req' = req, failed' = failed,
         \/ pc' = pc /\ op' = op /\ msg' = msg /\ cur' = cur
         \/ pc \notin {"header", "payload"} /\ pc' \notin {"payload", "sending"}
  PROVE  DInv'
<1>1. Lengths' BY DEF DInv, Lengths
<1>2. Followed' BY DEF DInv, Followed
<1>3. Begun' BY DEF DInv, Begun
<1>4. Asked'
  <2>1. CASE pc' = pc /\ op' = op BY <2>1 DEF DInv, Asked, Waits
  <2>2. CASE pc \notin {"header", "payload"}
    <3>1. ~failed => OneCall(up, unread, req, FALSE) BY <2>2 DEF DInv, Asked, Waits
    <3>2. ~failed => OneCall(up, unread, req, Waits') BY <3>1, NoCall
    <3>. QED BY <3>2 DEF Asked
  <2>. QED BY <2>1, <2>2
<1>5. AnswerIsMine' BY DEF DInv, AnswerIsMine
<1>. QED BY <1>1, <1>2, <1>3, <1>4, <1>5 DEF DInv

\* A call throws; of the messages written at most the last is cut.
LEMMA ThrownDialogue ==
  ASSUME DInv, Throw, cur' = None, taken' = taken, req' = req, pushes' = pushes,
         down' \in Seq(Cell), avail' \in 0..Len(down'), made' = made, pc # "none",
         \A i \in DOMAIN up' : up'[i].of \in 0..MaxRequests
  PROVE  DInv'
<1>1. pc' = "idle" /\ want' = 0 /\ failed' = TRUE /\ unread' = <<>> BY DEF Throw, Over
<1>2. Lengths' BY <1>1 DEF DInv, Lengths
<1>3. Phases' BY <1>1 DEF DInv, Phases
<1>4. Followed' /\ Begun' /\ Asked' /\ AnswerIsMine'
  BY <1>1 DEF Followed, Begun, Asked, AnswerIsMine
<1>. QED BY <1>2, <1>3, <1>4 DEF DInv

-----------------------------------------------------------------------------
(* Sending.                                                                *)

LEMMA WrittenIsSome == None \notin Written /\ None \notin Taken
BY ConnectionAssumption

LEMMA SendHeaderDialogue ==
  ASSUME CInv', DInv, NEW o \in {"send", "send_async"}, NEW v \in Value, SendHeader(o, v)
  PROVE  DInv'
<1>1. /\ pc = "idle" /\ req < MaxRequests /\ pc' = "sending" /\ op' = o
      /\ req' = req + 1 /\ want' = want /\ taken' = taken /\ failed' = failed /\ up' = up
      /\ down' = down /\ unread' = unread /\ avail' = avail /\ pushes' = pushes /\ made' = made
  BY DEF SendHeader, net, svars
<1>2. cur'.of = req' /\ (cur'.type = "Sync" <=> op' = "send")
  <2>1. cur'.of = req + 1 /\ cur'.type = IF o = "send" THEN "Sync" ELSE "Async"
    BY DEF SendHeader
  <2>. QED BY <1>1, <2>1
<1>3. cur' # None BY <1>1, WrittenIsSome DEF CInv, Stream
<1>4. req \in 0..MaxRequests /\ req + 1 \in 0..MaxRequests
  BY <1>1, ConnectionAssumption DEF DInv, Lengths
<1>5. Lengths' BY <1>1, <1>4 DEF DInv, Lengths
<1>6. Phases' BY <1>1, <1>3 DEF DInv, Phases
<1>7. Followed' BY <1>1 DEF DInv, Followed
<1>8. Begun' BY <1>1, <1>2 DEF Begun
<1>9. Asked'
  <2>1. ~failed => OneCall(up, unread, req, FALSE) BY <1>1 DEF DInv, Asked, Waits
  <2>2. ~failed => OneCall(up, unread, req', Waits') BY <2>1, NoCall
  <2>. QED BY <1>1, <2>2 DEF Asked
<1>10. AnswerIsMine' BY <1>1 DEF DInv, AnswerIsMine
<1>. QED BY <1>5, <1>6, <1>7, <1>8, <1>9, <1>10 DEF DInv

LEMMA MoreWritten ==
  ASSUME up \in Seq(Written), \A i \in DOMAIN up : up[i].of \in 0..MaxRequests,
         NEW m \in Written, m.of \in 0..MaxRequests
  PROVE  \A i \in DOMAIN Append(up, m) : Append(up, m)[i].of \in 0..MaxRequests
<1>1. /\ Append(up, m) \in Seq(Written) /\ Len(Append(up, m)) = Len(up) + 1
      /\ Append(up, m)[Len(up) + 1] = m
      /\ \A k \in 1..Len(up) : Append(up, m)[k] = up[k]
  BY LastOf
<1>2. Len(up) \in Nat /\ DOMAIN up = 1..Len(up) OBVIOUS
<1>3. DOMAIN Append(up, m) = 1..(Len(up) + 1) BY <1>1
<1>. QED BY <1>1, <1>2, <1>3

LEMMA SendPayloadDialogue == ASSUME CInv, DInv, SendPayload PROVE DInv'
<1>1. PICK short \in IF timed THEN 0..1 ELSE {0} :
        up' = IF peer = "open" THEN Append(up, [cur EXCEPT !.has = @ - short]) ELSE up
  BY DEF SendPayload
<1>. DEFINE m == [cur EXCEPT !.has = @ - short]
<1>2. /\ pc = "sending" /\ cur \in Written /\ up \in Seq(Written) /\ timed \in BOOLEAN
      /\ cur.of = req /\ (cur.type = "Sync" <=> op = "send")
      /\ req \in 0..MaxRequests /\ \A i \in DOMAIN up : up[i].of \in 0..MaxRequests
  BY DEF SendPayload, CInv, Control, Stream, DInv, Lengths, Phases, Begun
<1>3. m \in Written /\ m.of = cur.of /\ m.type = cur.type
  <2>1. cur.has - short \in Int BY <1>2 DEF Written
  <2>2. m \in Written BY <1>2, <2>1 DEF Written
  <2>3. m.of = cur.of BY <1>2 DEF Written
  <2>4. m.type = cur.type BY <1>2 DEF Written
  <2>. QED BY <2>2, <2>3, <2>4
<1>4. /\ cur' = None /\ taken' = taken /\ req' = req /\ failed' = failed /\ down' = down
      /\ unread' = unread /\ avail' = avail /\ pushes' = pushes /\ made' = made
      /\ (IF op = "send" THEN pc' = "header" /\ op' = op /\ want' = want
          ELSE pc' = "idle" /\ op' = None /\ want' = 0)
  BY DEF SendPayload, Over, svars
<1>. HIDE DEF m
<1>5. Lengths'
  <2>1. \A i \in DOMAIN up' : up'[i].of \in 0..MaxRequests
    BY <1>1, <1>2, <1>3, MoreWritten DEF m
  <2>. QED BY <1>4, <2>1 DEF DInv, Lengths
<1>6. Phases' BY <1>2, <1>4 DEF DInv, Phases
<1>7. Followed' BY <1>2, <1>4 DEF DInv, Followed
<1>8. Begun' BY <1>4 DEF Begun
<1>9. Asked'
  <2>. SUFFICES ASSUME ~failed PROVE OneCall(up', unread, req, Waits')
    BY <1>4 DEF Asked
  <2>1. OneCall(up, unread, req, FALSE) BY <1>2 DEF DInv, Asked, Waits
  <2>2. OneCall(up, unread, req, Waits') BY <2>1, NoCall
  <2>3. m.type = "Sync" => Waits' /\ m.of = req BY <1>2, <1>3, <1>4 DEF Waits
  <2>4. OneCall(Append(up, m), unread, req, Waits') BY <1>2, <1>3, <2>1, <2>3, CallPosted
  <2>5. up' \in {up, Append(up, m)} BY <1>1 DEF m
  <2>. QED BY <2>2, <2>4, <2>5
<1>10. AnswerIsMine' BY <1>4 DEF DInv, AnswerIsMine
<1>. QED BY <1>5, <1>6, <1>7, <1>8, <1>9, <1>10 DEF DInv

LEMMA SendTimesOutDialogue == ASSUME CInv, DInv, SendTimesOut PROVE DInv'
<1>. DEFINE m == [cur EXCEPT !.has = 0]
<1>1. /\ pc = "sending" /\ cur \in Written /\ up \in Seq(Written) /\ cur.of = req
      /\ req \in 0..MaxRequests /\ \A i \in DOMAIN up : up[i].of \in 0..MaxRequests
  BY DEF SendTimesOut, CInv, Stream, DInv, Lengths, Begun
<1>2. m \in Written /\ m.of = req
  <2>0. cur \in Written /\ 0 \in Int BY <1>1
  <2>1. m \in Written BY <2>0 DEF Written
  <2>2. m.of = cur.of BY <2>0 DEF Written
  <2>. QED BY <1>1, <2>1, <2>2
<1>3. /\ up' \in {up, Append(up, m)} /\ cur' = None /\ Throw /\ taken' = taken /\ req' = req
      /\ down' = down /\ avail' = avail /\ pushes' = pushes /\ made' = made
  BY DEF SendTimesOut, svars
<1>. HIDE DEF m
<1>4. \A i \in DOMAIN up' : up'[i].of \in 0..MaxRequests BY <1>1, <1>2, <1>3, MoreWritten
<1>5. down' \in Seq(Cell) /\ avail' \in 0..Len(down') BY <1>3 DEF DInv, Lengths
<1>. QED BY <1>1, <1>3, <1>4, <1>5, ThrownDialogue

-----------------------------------------------------------------------------
(* Reading.                                                                *)

\* recv waits for what follows the header, neither more nor less.
LEMMA ReceivedWhole == ASSUME NEW n \in Nat, HeaderSize + n < ByteValues * FourGB
                       PROVE  Received(HeaderSize + n, TRUE) = n
<1>1. HeaderSize \in Nat /\ Word \in Nat BY FrameAssumption
<1>2. Compressed(n, n) = 0 BY DEF Compressed
<1>3. HeaderLength(n, n) = HeaderSize /\ FinalSize(n, n) = HeaderSize + n
  BY <1>1, <1>2 DEF HeaderLength, FinalSize
<1>4. Survives(n, n, TRUE) BY SizeSurvives
<1>5. /\ Announced(FinalSize(n, n)) = n + (HeaderLength(n, n) - HeaderSize)
      /\ Received(FinalSize(n, n), TRUE) = Announced(FinalSize(n, n))
  BY <1>3, <1>4 DEF Survives
<1>. DEFINE r == Received(FinalSize(n, n), TRUE)
            a == Announced(FinalSize(n, n))
            h == HeaderLength(n, n)
<1>6. r = a /\ a = n + (h - HeaderSize) /\ h = HeaderSize BY <1>3, <1>5
<1>7. r = Received(HeaderSize + n, TRUE) BY <1>3
<1>. HIDE DEF r, a, h
<1>8. r = n BY <1>1, <1>6
<1>. QED BY <1>7, <1>8

LEMMA Consumed == ASSUME DInv, NEW n \in 0..avail, Consume(n)
                  PROVE  /\ down' = SubSeq(down, n + 1, Len(down))
                         /\ down' \in Seq(Cell) /\ avail' \in 0..Len(down')
                         /\ n \in Nat /\ n <= Len(down) /\ pushes' = pushes /\ up' = up
<1>1. down \in Seq(Cell) /\ Len(down) \in Nat /\ avail \in 0..Len(down) BY DEF DInv, Lengths
<1>2. /\ down' = SubSeq(down, n + 1, Len(down)) /\ avail' = avail - n
      /\ pushes' = pushes /\ up' = up
  BY DEF Consume
<1>3. n \in Nat /\ n <= Len(down) BY <1>1
<1>4. down' \in Seq(Cell) /\ Len(down') = Len(down) - n BY <1>1, <1>2, <1>3, DropOf
<1>5. avail' \in 0..Len(down') BY <1>1, <1>2, <1>4
<1>. QED BY <1>2, <1>3, <1>4, <1>5

LEMMA ReadHeaderDialogue == ASSUME DInv, ReadHeader PROVE DInv'
<1>1. /\ pc = "header" /\ HeaderSize <= avail /\ Consume(HeaderSize) /\ unread' = unread
      /\ msg' \in Announces /\ want' = Received(HeaderSize + msg'.size, TRUE) /\ pc' = "payload"
      /\ op' = op /\ cur' = cur /\ taken' = taken /\ req' = req /\ failed' = failed
      /\ made' = made
  BY DEF ReadHeader, svars
<1>2. /\ down \in Seq(Cell) /\ unread \in Seq(Answer) /\ avail \in 0..Len(down)
      /\ (~failed => Aligned(unread, down, 0))
  BY <1>1 DEF DInv, Lengths, Phases, Followed
<1>3. HeaderSize \in 0..avail /\ HeaderSize <= Len(down) /\ 1 \in 1..Len(down)
  BY <1>1, <1>2, HeaderIsNat
<1>4. ASSUME ~failed
      PROVE  /\ unread # <<>> /\ down[1].m = unread[1] /\ down[1].i = 1
             /\ Aligned(unread, SubSeq(down, HeaderSize + 1, Len(down)), HeaderSize)
  BY <1>2, <1>3, <1>4, PlacedHeader
<1>5. /\ down' = SubSeq(down, HeaderSize + 1, Len(down)) /\ down' \in Seq(Cell)
      /\ avail' \in 0..Len(down') /\ pushes' = pushes /\ up' = up
  BY <1>1, <1>3, Consumed
<1>6. msg' \in Heard /\ HeaderSize + msg'.size < ByteValues * FourGB
  <2>1. CASE down[1].i = 1
    <3>1. msg' = down[1].m BY <1>1, <2>1 DEF Announces
    <3>2. down[1] \in Cell BY <1>2, <1>3
    <3>3. down[1].m \in Answer BY <3>2 DEF Cell
    <3>4. msg'.size \in AnswerSize /\ msg'.size \in Nat BY <3>1, <3>3, AnswerSizes
    <3>5. HeaderSize + msg'.size < ByteValues * FourGB BY <3>4, ConnectionAssumption
    <3>6. msg' \in Heard
      <4>1. AnswerSize \subseteq Nat /\ 0..MaxRequests \subseteq Nat BY ConnectionAssumption
      <4>2. {"Async", "Response"} \subseteq MessageType BY DEF MessageType
      <4>. QED BY <3>1, <3>3, <4>1, <4>2 DEF Heard, Answer
    <3>. QED BY <3>5, <3>6
  <2>2. CASE down[1].i # 1
    <3>1. PICK g \in Garbled : msg' = [of |-> 0, type |-> g.type, size |-> g.size]
      BY <1>1, <2>2 DEF Announces
    <3>2. g.type \in MessageType /\ g.size \in Nat /\ HeaderSize + g.size < ByteValues * FourGB
      BY ConnectionAssumption
    <3>3. msg'.size = g.size BY <3>1
    <3>4. 0 \in Nat OBVIOUS
    <3>5. msg' \in Heard BY <3>1, <3>2, <3>4 DEF Heard
    <3>. QED BY <3>2, <3>3, <3>5
  <2>. QED BY <2>1, <2>2
<1>7. want' = msg'.size /\ want' \in Nat
  <2>1. msg'.size \in Nat BY <1>6 DEF Heard
  <2>. QED BY <1>1, <1>6, <2>1, ReceivedWhole
<1>8. Lengths' BY <1>1, <1>5, <1>7 DEF DInv, Lengths
<1>9. Phases' BY <1>1, <1>2 DEF DInv, Phases
<1>10. Followed' BY <1>1, <1>4, <1>5 DEF Followed
<1>11. Begun'
  <2>1. ASSUME ~failed PROVE msg' = unread[1] /\ unread # <<>>
    BY <1>1, <1>4, <2>1 DEF Announces
  <2>. QED BY <1>1, <1>6, <1>7, <2>1 DEF Begun
<1>12. Asked' BY <1>1, <1>5 DEF DInv, Asked, Waits
<1>13. AnswerIsMine' BY <1>1 DEF DInv, AnswerIsMine
<1>. QED BY <1>8, <1>9, <1>10, <1>11, <1>12, <1>13 DEF DInv

LEMMA ReadThrowsDialogue ==
  ASSUME DInv, HeaderOverwhelms \/ HeaderThrows \/ PayloadThrows PROVE DInv'
<1>0. avail \in Nat BY DEF DInv, Lengths
<1>1. \E n \in 0..avail :
        /\ pc \in {"header", "payload"} /\ Consume(n) /\ Throw
        /\ cur' = cur /\ taken' = taken /\ req' = req /\ made' = made
  <2>1. CASE HeaderOverwhelms
    BY <1>0, <2>1, HeaderIsNat, HeaderSize \in 0..avail DEF HeaderOverwhelms, svars
  <2>2. CASE HeaderThrows \/ PayloadThrows
    BY <1>0, <2>2, avail \in 0..avail DEF HeaderThrows, PayloadThrows, svars
  <2>. QED BY <2>1, <2>2
<1>2. cur = None BY <1>1 DEF DInv, Phases
<1>3. down' \in Seq(Cell) /\ avail' \in 0..Len(down') /\ pushes' = pushes /\ up' = up
  BY <1>1, Consumed
<1>4. \A i \in DOMAIN up' : up'[i].of \in 0..MaxRequests BY <1>3 DEF DInv, Lengths
<1>. QED BY <1>1, <1>2, <1>3, <1>4, ThrownDialogue

LEMMA ReadPayloadDialogue == ASSUME CInv, DInv, ReadPayload PROVE DInv'
<1>1. /\ pc = "payload" /\ want <= avail /\ Consume(want) /\ Return
      /\ cur' = cur /\ req' = req /\ made' = made
  BY DEF ReadPayload, svars
<1>2. /\ down \in Seq(Cell) /\ unread \in Seq(Answer) /\ avail \in 0..Len(down)
      /\ want \in Nat /\ msg \in Heard /\ req \in Nat /\ cur = None
      /\ (failed => unread = <<>>) /\ failed \in BOOLEAN
  BY <1>1 DEF CInv, Control, DInv, Lengths, Phases, Begun
<1>3. want \in 0..avail BY <1>1, <1>2
<1>4. ASSUME ~failed
      PROVE  /\ unread # <<>> /\ msg = unread[1] /\ want = msg.size
             /\ OneCall(up, unread, req, Waits) /\ Aligned(unread, down, HeaderSize)
             /\ SubSeq(unread, 2, Len(unread)) \in Seq(Answer)
             /\ Aligned(SubSeq(unread, 2, Len(unread)), SubSeq(down, want + 1, Len(down)), 0)
             /\ SubSeq(unread, 2, Len(unread)) = Tail(unread)
  <2>1. /\ unread # <<>> /\ msg = unread[1] /\ want = msg.size
        /\ OneCall(up, unread, req, Waits) /\ Aligned(unread, down, HeaderSize)
    BY <1>1, <1>4 DEF DInv, Followed, Begun, Asked
  <2>2. /\ SubSeq(unread, 2, Len(unread)) \in Seq(Answer)
        /\ Aligned(SubSeq(unread, 2, Len(unread)), SubSeq(down, want + 1, Len(down)), 0)
    BY <1>2, <2>1, PlacedPayload
  <2>3. SubSeq(unread, 2, Len(unread)) = Tail(unread) BY <1>2, <2>1, RestOf
  <2>. QED BY <2>1, <2>2, <2>3
<1>5. /\ down' = SubSeq(down, want + 1, Len(down)) /\ down' \in Seq(Cell)
      /\ avail' \in 0..Len(down') /\ pushes' = pushes /\ up' = up
  BY <1>1, <1>3, Consumed
<1>6. /\ taken' = [m |-> [of |-> msg.of, type |-> msg.type], req |-> IF op = "send" THEN req ELSE 0]
      /\ pc' = "idle" /\ want' = 0
      /\ \/ failed' = TRUE /\ unread' = <<>>
         \/ /\ failed' = failed /\ unread' = SubSeq(unread, 2, Len(unread))
            /\ (op = "send" => msg.type = "Response")
  BY <1>1, <1>2 DEF Return, Label, Over, Throw, Forget
<1>7. unread' \in Seq(Answer) /\ (failed' => unread' = <<>>) /\ failed' \in BOOLEAN
  <2>1. CASE failed' = TRUE /\ unread' = <<>> BY <2>1
  <2>2. CASE failed' = failed /\ unread' = SubSeq(unread, 2, Len(unread))
    <3>1. CASE ~failed BY <1>2, <1>4, <2>2, <3>1
    <3>2. CASE failed
      <4>1. unread = <<>> BY <1>2, <3>2
      <4>2. SubSeq(unread, 2, Len(unread)) = <<>> BY <4>1
      <4>. QED BY <1>2, <2>2, <4>2
    <3>. QED BY <3>1, <3>2
  <2>. QED BY <1>6, <2>1, <2>2
<1>8. taken' \in Taken
  <2>1. msg.of \in Nat /\ msg.type \in MessageType BY <1>2 DEF Heard
  <2>2. (IF op = "send" THEN req ELSE 0) \in Nat BY <1>2
  <2>. QED BY <1>6, <2>1, <2>2 DEF Taken
<1>9. Lengths' BY <1>1, <1>5, <1>6, <1>7, <1>8 DEF DInv, Lengths
<1>10. Phases' BY <1>1, <1>2, <1>6, <1>7 DEF DInv, Phases
<1>11. ASSUME ~failed' PROVE ~failed /\ unread' = Tail(unread) /\ (op = "send" => msg.type = "Response")
                             /\ unread' = SubSeq(unread, 2, Len(unread))
  BY <1>4, <1>6, <1>11
<1>12. Followed' BY <1>4, <1>5, <1>6, <1>11 DEF Followed
<1>13. Begun' BY <1>6 DEF Begun
<1>14. Asked'
  <2>. SUFFICES ASSUME ~failed' PROVE OneCall(up, Tail(unread), req, Waits')
    BY <1>1, <1>5, <1>11 DEF Asked
  <2>1. unread[1].type = "Response" \/ ~Waits BY <1>4, <1>11 DEF Waits
  <2>2. OneCall(up, Tail(unread), req, FALSE) BY <1>2, <1>4, <1>11, <2>1, CallEnded
  <2>. QED BY <2>2, NoCall
<1>15. AnswerIsMine'
  <2>. SUFFICES ASSUME ~failed', taken'.req # 0 PROVE taken'.m.of = taken'.req
    BY DEF AnswerIsMine
  <2>1. op = "send" /\ taken'.req = req /\ taken'.m.of = msg.of BY <1>6
  <2>2. unread[1].type = "Response" /\ 1 \in DOMAIN unread BY <1>2, <1>4, <1>11, <2>1
  <2>3. unread[1].of = req BY <1>4, <1>11, <2>2 DEF OneCall
  <2>. QED BY <1>4, <1>11, <2>1, <2>3
<1>. QED BY <1>9, <1>10, <1>12, <1>13, <1>14, <1>15 DEF DInv

-----------------------------------------------------------------------------
(* The server, the network, and the connection itself.                     *)

LEMMA WriteDialogue ==
  ASSUME DInv, NEW m \in Answer, Write(m)
  PROVE  /\ down' \in Seq(Cell) /\ unread' \in Seq(Answer)
         /\ (~failed => unread' = Append(unread, m)) /\ (failed => unread' = <<>>)
         /\ avail \in 0..Len(down')
         /\ (~failed => Aligned(unread', down', IF pc = "payload" THEN HeaderSize ELSE 0))
         /\ ((~failed /\ unread # <<>>) => (unread' # <<>> /\ unread'[1] = unread[1]))
<1>1. down \in Seq(Cell) /\ unread \in Seq(Answer) /\ avail \in 0..Len(down)
  BY DEF DInv, Lengths
<1>2. down' = down \o Bytes(m) /\ unread' = (IF failed THEN <<>> ELSE Append(unread, m))
  BY DEF Write
<1>3. Bytes(m) \in Seq(Cell) BY BytesOf
<1>4. down' \in Seq(Cell) /\ Len(down') = Len(down) + Len(Bytes(m))
  BY <1>1, <1>2, <1>3, ConcatProperties
<1>5. avail \in 0..Len(down')
  <2>1. Len(down) \in Nat /\ Len(Bytes(m)) \in Nat BY <1>1, <1>3
  <2>. QED BY <1>1, <1>4, <2>1
<1>6. /\ Append(unread, m) \in Seq(Answer) /\ Len(Append(unread, m)) = Len(unread) + 1
      /\ \A k \in 1..Len(unread) : Append(unread, m)[k] = unread[k]
  BY <1>1, LastOf
<1>7. ASSUME unread # <<>>
      PROVE  Append(unread, m) # <<>> /\ Append(unread, m)[1] = unread[1]
  <2>1. Len(unread) \in Nat BY <1>1
  <2>2. 1 \in 1..Len(unread) BY <1>1, <1>7
  <2>3. Append(unread, m) # <<>> BY <1>6, <2>1
  <2>. QED BY <1>6, <2>2, <2>3
<1>8. ASSUME ~failed PROVE Aligned(unread', down', IF pc = "payload" THEN HeaderSize ELSE 0)
  <2>. DEFINE s == IF pc = "payload" THEN HeaderSize ELSE 0
  <2>1. s \in Nat BY HeaderIsNat
  <2>2. Aligned(unread, down, s) BY <1>8 DEF DInv, Followed
  <2>. HIDE DEF s
  <2>3. Aligned(Append(unread, m), down \o Bytes(m), s) BY <1>1, <2>1, <2>2, PlacedAppend
  <2>. QED BY <1>2, <1>8, <2>3 DEF s
<1>9. unread' \in Seq(Answer) /\ (~failed => unread' = Append(unread, m)) /\ (failed => unread' = <<>>)
  <2>1. CASE failed BY <1>2, <2>1
  <2>2. CASE ~failed BY <1>2, <1>6, <2>2
  <2>. QED BY <2>1, <2>2
<1>. QED BY <1>4, <1>5, <1>7, <1>8, <1>9

LEMMA PushDialogue == ASSUME DInv, Push PROVE DInv'
<1>1. PICK n \in AnswerSize : Write([of |-> 0, type |-> "Async", size |-> n]) BY DEF Push
<1>. DEFINE m == [of |-> 0, type |-> "Async", size |-> n]
<1>2. 0 \in 0..MaxRequests BY ConnectionAssumption
<1>3. m \in Answer /\ m.type # "Response" BY <1>2 DEF Answer
<1>4. /\ pc' = pc /\ op' = op /\ cur' = cur /\ want' = want /\ msg' = msg /\ taken' = taken
      /\ req' = req /\ failed' = failed /\ made' = made /\ up' = up /\ avail' = avail
      /\ pushes < MaxPushes /\ pushes' = pushes + 1
  BY DEF Push, Serving, call, svars
<1>. HIDE DEF m
<1>5. /\ down' \in Seq(Cell) /\ unread' \in Seq(Answer)
      /\ (~failed => unread' = Append(unread, m)) /\ (failed => unread' = <<>>)
      /\ avail \in 0..Len(down')
      /\ (~failed => Aligned(unread', down', IF pc = "payload" THEN HeaderSize ELSE 0))
      /\ ((~failed /\ unread # <<>>) => (unread' # <<>> /\ unread'[1] = unread[1]))
  <2>1. Write(m) BY <1>1 DEF m
  <2>. QED BY <1>3, <2>1, WriteDialogue
<1>6. pushes' \in 0..MaxPushes BY <1>4, ConnectionAssumption DEF DInv, Lengths
<1>7. Lengths' BY <1>4, <1>5, <1>6 DEF DInv, Lengths
<1>8. Phases' BY <1>4 DEF DInv, Phases
<1>9. Followed' BY <1>4, <1>5 DEF Followed
<1>10. Begun' BY <1>4, <1>5 DEF DInv, Begun
<1>11. Asked'
  <2>. SUFFICES ASSUME ~failed PROVE OneCall(up, Append(unread, m), req, Waits)
    BY <1>4, <1>5 DEF Asked, Waits
  <2>1. unread \in Seq(Answer) /\ OneCall(up, unread, req, Waits) BY DEF DInv, Lengths, Asked
  <2>. QED BY <1>3, <2>1, CallPushed
<1>12. AnswerIsMine' BY <1>4 DEF DInv, AnswerIsMine
<1>. QED BY <1>7, <1>8, <1>9, <1>10, <1>11, <1>12 DEF DInv

LEMMA ServeDialogue == ASSUME CInv, DInv, Serve PROVE DInv'
<1>1. /\ pc' = pc /\ op' = op /\ cur' = cur /\ want' = want /\ msg' = msg /\ taken' = taken
      /\ req' = req /\ failed' = failed /\ made' = made /\ avail' = avail /\ pushes' = pushes
      /\ up # <<>> /\ up' = Tail(up)
  BY DEF Serve, Serving, call, svars
<1>2. /\ up \in Seq(Written) /\ unread \in Seq(Answer)
      /\ \A i \in DOMAIN up : up[i].of \in 0..MaxRequests
  BY DEF CInv, Stream, DInv, Lengths
<1>3. /\ 1 \in DOMAIN up /\ Head(up) = up[1]
      /\ \A k \in DOMAIN Tail(up) : k + 1 \in DOMAIN up /\ Tail(up)[k] = up[k + 1]
  BY <1>1, <1>2, RestOf
<1>4. \A i \in DOMAIN up' : up'[i].of \in 0..MaxRequests BY <1>1, <1>2, <1>3
<1>5. Phases' BY <1>1 DEF DInv, Phases
<1>6. AnswerIsMine' BY <1>1 DEF DInv, AnswerIsMine
<1>7. CASE Head(up).type # "Sync"
  <2>1. down' = down /\ unread' = unread BY <1>7 DEF Serve
  <2>2. Lengths' BY <1>1, <1>4, <2>1 DEF DInv, Lengths
  <2>3. Followed' BY <1>1, <2>1 DEF DInv, Followed
  <2>4. Begun' BY <1>1, <2>1 DEF DInv, Begun
  <2>5. Asked'
    <3>1. ~failed => OneCall(up, unread, req, Waits) BY DEF DInv, Asked
    <3>2. ~failed => OneCall(Tail(up), unread, req, Waits) BY <1>1, <1>2, <3>1, CallSkipped
    <3>. QED BY <1>1, <2>1, <3>2 DEF Asked, Waits
  <2>. QED BY <1>5, <1>6, <2>2, <2>3, <2>4, <2>5 DEF DInv
<1>8. CASE Head(up).type = "Sync"
  <2>1. PICK n \in AnswerSize :
          Write([of |-> Head(up).of, type |-> "Response", size |-> n])
    BY <1>8 DEF Serve
  <2>. DEFINE m == [of |-> Head(up).of, type |-> "Response", size |-> n]
  <2>2. m \in Answer /\ m.of = Head(up).of BY <1>2, <1>3 DEF Answer
  <2>. HIDE DEF m
  <2>3. /\ down' \in Seq(Cell) /\ unread' \in Seq(Answer)
        /\ (~failed => unread' = Append(unread, m)) /\ (failed => unread' = <<>>)
        /\ avail \in 0..Len(down')
        /\ (~failed => Aligned(unread', down', IF pc = "payload" THEN HeaderSize ELSE 0))
        /\ ((~failed /\ unread # <<>>) => (unread' # <<>> /\ unread'[1] = unread[1]))
    <3>1. Write(m) BY <2>1 DEF m
    <3>. QED BY <2>2, <3>1, WriteDialogue
  <2>4. Lengths' BY <1>1, <1>4, <2>3 DEF DInv, Lengths
  <2>5. Followed' BY <1>1, <2>3 DEF Followed
  <2>6. Begun' BY <1>1, <2>3 DEF DInv, Begun
  <2>7. Asked'
    <3>. SUFFICES ASSUME ~failed PROVE OneCall(Tail(up), Append(unread, m), req, Waits)
      BY <1>1, <2>3 DEF Asked, Waits
    <3>1. OneCall(up, unread, req, Waits) BY DEF DInv, Asked
    <3>. QED BY <1>1, <1>2, <1>8, <2>2, <3>1, CallAnswered
  <2>. QED BY <1>5, <1>6, <2>4, <2>5, <2>6, <2>7 DEF DInv
<1>. QED BY <1>7, <1>8

LEMMA QuietServerDialogue ==
  ASSUME DInv, (\E l \in LevelAsked \cap Level : Accept(l))
                 \/ ServerClose \/ ServerGivesUp \/ Deliver
  PROVE  DInv'
<1>1. /\ pc' = pc /\ op' = op /\ cur' = cur /\ want' = want /\ msg' = msg /\ taken' = taken
      /\ req' = req /\ failed' = failed /\ made' = made /\ up' = up /\ down' = down
      /\ unread' = unread /\ pushes' = pushes
  BY DEF Accept, ServerClose, ServerGivesUp, Deliver, Serving, call, svars
<1>2. avail \in 0..Len(down) /\ pushes \in 0..MaxPushes /\ Len(down) \in Nat
  BY DEF DInv, Lengths
<1>3. avail' \in 0..Len(down)
  <2>1. CASE avail' = avail BY <1>2, <2>1
  <2>2. CASE avail' \in (avail + 1)..Len(down) BY <1>2, <2>2
  <2>. QED BY <2>1, <2>2 DEF Accept, ServerClose, ServerGivesUp, Deliver
<1>4. Phases' BY <1>1 DEF DInv, Phases
<1>. QED BY <1>1, <1>2, <1>3, <1>4, QuietDialogue

\* What leaves messages and calls alone.
LEMMA OutsideDialogue ==
  ASSUME DInv, Phases', call' = call, up' = up, down' = down, unread' = unread, avail' = avail,
         pushes' = pushes,
         pc' = pc \/ (pc \notin {"header", "payload"} /\ pc' \notin {"payload", "sending"})
  PROVE  DInv'
<1>1. /\ op' = op /\ cur' = cur /\ want' = want /\ msg' = msg /\ taken' = taken
      /\ req' = req /\ failed' = failed
  BY DEF call
<1>2. avail \in 0..Len(down) /\ pushes \in 0..MaxPushes BY DEF DInv, Lengths
<1>. QED BY <1>1, <1>2, QuietDialogue

LEMMA SocketDialogue ==
  ASSUME DInv, UNCHANGED <<pc, m_level, timed, call, net>>, (Conn \in made') <=> (Conn \in made)
  PROVE  DInv'
<1>1. pc' = pc /\ call' = call /\ net' = net OBVIOUS
<1>2. /\ up' = up /\ down' = down /\ unread' = unread /\ avail' = avail /\ pushes' = pushes
      /\ failed' = failed /\ cur' = cur
  BY <1>1 DEF net, call
<1>3. Phases' BY <1>1, <1>2 DEF DInv, Phases
<1>. QED BY <1>1, <1>2, <1>3, OutsideDialogue

LEMMA DInvStep == CInv /\ CInv' /\ DInv /\ [Next]_connvars => DInv'
<1>. SUFFICES ASSUME CInv, CInv', DInv, [Next]_connvars PROVE DInv'
  OBVIOUS
<1>0. Phases BY DEF DInv
<1>1. ASSUME NEW s \in Free, NEW h \in Host, MakeSocket(s, h) PROVE DInv'
  <2>1. made' = made \cup {s} /\ s # Conn BY <1>1 DEF MakeSocket, Construct, Free
  <2>. QED BY <1>1, <2>1, SocketDialogue DEF MakeSocket, Socketing
<1>2. ASSUME NEW s \in Free, DropSocket(s) PROVE DInv'
  <2>1. made' = made \ {s} /\ s # Conn BY <1>2 DEF DropSocket, Destroy, Free
  <2>. QED BY <1>2, <2>1, SocketDialogue DEF DropSocket, Socketing
<1>3. ASSUME NEW s \in Free, NEW l \in LevelAsked, Connect(s, l) PROVE DInv'
  <2>1. /\ pc = "none" /\ pc' = "handshake" /\ made' = made \cup {Conn} /\ call' = call
        /\ up' = up /\ down' = down /\ unread' = unread /\ avail' = avail /\ pushes' = pushes
    BY <1>3 DEF Connect, MoveConstruct
  <2>2. Phases' BY <1>0, <2>1 DEF Phases, call
  <2>. QED BY <2>1, <2>2, OutsideDialogue
<1>4. ASSUME NEW s \in Free, NEW l \in LevelAsked, ConnectThrows(s, l) PROVE DInv'
  <2>1. made' = made /\ UNCHANGED <<pc, m_level, timed, call, net>>
    BY <1>4 DEF ConnectThrows
  <2>. QED BY <2>1, SocketDialogue
<1>5. ASSUME NEW o \in {"send", "send_async"}, NEW v \in Value, SendHeader(o, v) PROVE DInv'
  BY <1>5, SendHeaderDialogue
<1>6. CASE StartRecv
  <2>1. /\ pc = "idle" /\ pc' = "header" /\ cur' = cur /\ want' = want
        /\ taken' = taken /\ req' = req /\ failed' = failed /\ made' = made /\ net' = net
    BY <1>6 DEF StartRecv, svars
  <2>2. /\ up' = up /\ down' = down /\ unread' = unread /\ avail' = avail /\ pushes' = pushes
    BY <2>1 DEF net
  <2>3. Phases' BY <1>0, <2>1 DEF Phases
  <2>4. avail \in 0..Len(down) /\ pushes \in 0..MaxPushes BY DEF DInv, Lengths
  <2>. QED BY <2>1, <2>2, <2>3, <2>4, QuietDialogue
<1>7. CASE Disconnect \/ HandshakeThrows
  <2>1. Fresh0 /\ made' = made \ {Conn} BY <1>7 DEF Disconnect, HandshakeThrows, Destroy
  <2>. QED BY <2>1, FreshDialogue
<1>8. CASE Connected \/ SendKills
  <2>1. /\ \/ pc = "handshake" /\ pc' = "idle"
           \/ pc \in {"sending", "handshake"} /\ pc' = "killed"
        /\ call' = call /\ net' = net /\ made' = made
    BY <1>8 DEF Connected, SendKills, svars
  <2>2. /\ up' = up /\ down' = down /\ unread' = unread /\ avail' = avail /\ pushes' = pushes
        /\ failed' = failed /\ cur' = cur
    BY <2>1 DEF net, call
  <2>3. Phases' BY <1>0, <2>1, <2>2 DEF Phases
  <2>. QED BY <2>1, <2>2, <2>3, OutsideDialogue
<1>9. CASE SendPayload BY <1>9, SendPayloadDialogue
<1>10. CASE SendTimesOut BY <1>10, SendTimesOutDialogue
<1>11. CASE ReadHeader BY <1>11, ReadHeaderDialogue
<1>12. CASE HeaderOverwhelms \/ HeaderThrows \/ PayloadThrows BY <1>12, ReadThrowsDialogue
<1>13. CASE ReadPayload BY <1>13, ReadPayloadDialogue
<1>14. CASE (\E l \in LevelAsked \cap Level : Accept(l))
              \/ ServerClose \/ ServerGivesUp \/ Deliver
  BY <1>14, QuietServerDialogue
<1>15. CASE Serve BY <1>15, ServeDialogue
<1>16. CASE Push BY <1>16, PushDialogue
<1>17. CASE UNCHANGED connvars BY <1>17, SocketDialogue DEF connvars, svars
<1>. QED BY <1>1, <1>2, <1>3, <1>4, <1>5, <1>6, <1>7, <1>8, <1>9, <1>10, <1>11, <1>12,
            <1>13, <1>14, <1>15, <1>16, <1>17 DEF Next, Client

LEMMA Dialogue == Spec => [](CInv /\ DInv)
<1>1. Init => CInv /\ DInv BY CInvInit, DInvInit
<1>2. CInv /\ DInv /\ [Next]_connvars => (CInv /\ DInv)' BY CInvStep, DInvStep
<1>. QED BY <1>1, <1>2, PTL DEF Spec

\* The client's variables keep their ranges; in particular what has arrived
\* is never more than what was written, and a message is in the making
\* exactly between the two send calls.
THEOREM ConnectionTypeCorrect == Spec => []TypeOK
<1>1. CInv /\ DInv => TypeOK
  BY DEF CInv, Control, Pc, DInv, Lengths, Phases, TypeOK
<1>. QED BY <1>1, Dialogue, PTL

\* What send returns is the answer to its own request, however many messages
\* of its own the server sends, and in whatever portions the bytes arrive.
THEOREM AnswersAreMine == Spec => []AnswerIsMine
<1>1. CInv /\ DInv => AnswerIsMine BY DEF DInv
<1>. QED BY <1>1, Dialogue, PTL

-----------------------------------------------------------------------------
(* The connection implements the channel: a message is posted by the send  *)
(* of its payload, and taken by the recv of its payload.                   *)

\* The labels of the messages in a queue.
Labels(q, f) == [i \in DOMAIN q |-> f[q[i]]]

Maps(f, S, T) == \A x \in S : f[x] \in T

LEMMA LabelsOf ==
  ASSUME NEW S, NEW T, NEW f, Maps(f, S, T), NEW q \in Seq(S)
  PROVE  /\ Labels(q, f) \in Seq(T) /\ Len(Labels(q, f)) = Len(q)
         /\ \A i \in 1..Len(q) : Labels(q, f)[i] = f[q[i]]
<1>. DEFINE n == Len(q)
<1>1. n \in Nat /\ DOMAIN q = 1..n /\ \A i \in 1..n : q[i] \in S OBVIOUS
<1>. HIDE DEF n
<1>2. Labels(q, f) = [i \in 1..n |-> f[q[i]]] BY <1>1 DEF Labels
<1>3. Labels(q, f) \in [1..n -> T] BY <1>1, <1>2 DEF Maps
<1>4. Labels(q, f) \in Seq(T) /\ Len(Labels(q, f)) = n BY <1>1, <1>3
<1>. QED BY <1>2, <1>4 DEF n

LEMMA LabelsAppend == ASSUME NEW S, NEW T, NEW f, Maps(f, S, T), NEW q \in Seq(S), NEW m \in S
                      PROVE  Labels(Append(q, m), f) = Append(Labels(q, f), f[m])
<1>. DEFINE n == Len(q)
            a == Labels(Append(q, m), f)
            b == Append(Labels(q, f), f[m])
            r == Append(q, m)
            l == Labels(q, f)
<1>1. /\ n \in Nat /\ r \in Seq(S) /\ Len(r) = n + 1 /\ r[n + 1] = m
      /\ \A k \in 1..n : r[k] = q[k]
  BY LastOf
<1>2. l \in Seq(T) /\ Len(l) = n /\ \A i \in 1..n : l[i] = f[q[i]]
  BY LabelsOf
<1>3. f[m] \in T BY DEF Maps
<1>. HIDE DEF r
<1>4. Labels(r, f) \in Seq(T) /\ Len(Labels(r, f)) = n + 1
      /\ \A i \in 1..(n + 1) : Labels(r, f)[i] = f[r[i]]
  BY <1>1, LabelsOf
<1>. HIDE DEF l
<1>5. b \in Seq(T) /\ Len(b) = n + 1 /\ b[n + 1] = f[m] /\ \A i \in 1..n : b[i] = l[i]
  <2>1. Append(l, f[m]) \in Seq(T) /\ Len(Append(l, f[m])) = Len(l) + 1
        /\ Append(l, f[m])[Len(l) + 1] = f[m]
        /\ \A k \in 1..Len(l) : Append(l, f[m])[k] = l[k]
    BY <1>2, <1>3, LastOf
  <2>. QED BY <1>2, <2>1 DEF l
<1>. HIDE DEF b, n
<1>6. ASSUME NEW i \in 1..(n + 1) PROVE Labels(r, f)[i] = b[i]
  <2>1. CASE i = n + 1 BY <1>1, <1>4, <1>5, <2>1
  <2>2. CASE i \in 1..n BY <1>1, <1>2, <1>4, <1>5, <2>2, SMTT(20)
  <2>. QED BY <1>1, <2>1, <2>2
<1>7. Labels(r, f) = b BY <1>4, <1>5, <1>6, SeqEqual
<1>. QED BY <1>7 DEF r, b

LEMMA LabelsTail == ASSUME NEW S, NEW T, NEW f, Maps(f, S, T), NEW q \in Seq(S), q # <<>>
                    PROVE  /\ Labels(q, f) # <<>> /\ Head(Labels(q, f)) = f[q[1]]
                           /\ Labels(Tail(q), f) = Tail(Labels(q, f))
<1>. DEFINE n == Len(q)
            r == Tail(q)
            l == Labels(q, f)
<1>1. n \in Nat /\ n >= 1 OBVIOUS
<1>2. r \in Seq(S) /\ Len(r) = n - 1 /\ \A i \in 1..(n - 1) : r[i] = q[i + 1]
  BY HeadTailProperties
<1>3. l \in Seq(T) /\ Len(l) = n /\ \A i \in 1..n : l[i] = f[q[i]]
  BY LabelsOf
<1>. HIDE DEF l, n, r
<1>4. Labels(r, f) \in Seq(T) /\ Len(Labels(r, f)) = n - 1
      /\ \A i \in 1..(n - 1) : Labels(r, f)[i] = f[r[i]]
  BY <1>2, LabelsOf
<1>5. l # <<>> BY <1>1, <1>3
<1>6. Head(l) = f[q[1]] BY <1>1, <1>3, <1>5
<1>7. Tail(l) \in Seq(T) /\ Len(Tail(l)) = n - 1 /\ \A i \in 1..(n - 1) : Tail(l)[i] = l[i + 1]
  BY <1>3, <1>5, HeadTailProperties
<1>8. ASSUME NEW i \in 1..(n - 1) PROVE Labels(r, f)[i] = Tail(l)[i]
  <2>1. i + 1 \in 1..n BY <1>1
  <2>. QED BY <1>2, <1>3, <1>4, <1>7, <2>1
<1>9. Labels(r, f) = Tail(l) BY <1>4, <1>7, <1>8, SeqEqual
<1>. QED BY <1>5, <1>6, <1>9 DEF l, r

-----------------------------------------------------------------------------
(* How the connection's state shows in the channel.                        *)

Said == [of : 0..MaxRequests, type : MessageType]

Mark  == [m \in {w \in Written : w.of \in 0..MaxRequests} |-> IF Whole(m) THEN Label(m) ELSE None]
Named == [m \in Answer |-> Label(m)]

Up     == [i \in DOMAIN up |-> IF Whole(up[i]) THEN Label(up[i]) ELSE None]
Down   == [i \in DOMAIN unread |-> Label(unread[i])]
Got    == IF taken = None THEN None ELSE taken.m
Sent   == IF cur = None THEN req ELSE req - 1
Server == IF peer \in {"none", "greeted"} THEN "away" ELSE peer

LEMMA LabelIsSaid == ASSUME NEW m, m.of \in 0..MaxRequests, m.type \in MessageType
                     PROVE  Label(m) \in Said
BY DEF Label, Said

LEMMA MarkIs == /\ Maps(Mark, {w \in Written : w.of \in 0..MaxRequests}, Said \cup {None})
                /\ Maps(Named, Answer, Said)
<1>1. ASSUME NEW m \in {w \in Written : w.of \in 0..MaxRequests} PROVE Label(m) \in Said
  <2>1. m.type \in MessageType BY DEF Written, MessageType
  <2>. QED BY <2>1, LabelIsSaid
<1>2. ASSUME NEW m \in Answer PROVE Label(m) \in Said
  <2>1. m.of \in 0..MaxRequests /\ m.type \in MessageType BY DEF Answer, MessageType
  <2>. QED BY <2>1, LabelIsSaid
<1>. QED BY <1>1, <1>2 DEF Mark, Named, Maps

\* A queue of messages of this connection, as the channel shows it.
LEMMA UpView ==
  ASSUME NEW u \in Seq(Written), \A i \in 1..Len(u) : u[i].of \in 0..MaxRequests
  PROVE  /\ u \in Seq({w \in Written : w.of \in 0..MaxRequests})
         /\ [i \in DOMAIN u |-> IF Whole(u[i]) THEN Label(u[i]) ELSE None] = Labels(u, Mark)
<1>. DEFINE W == {w \in Written : w.of \in 0..MaxRequests}
<1>1. Len(u) \in Nat /\ DOMAIN u = 1..Len(u) /\ u = [i \in 1..Len(u) |-> u[i]] OBVIOUS
<1>2. \A i \in 1..Len(u) : u[i] \in Written OBVIOUS
<1>3. \A i \in 1..Len(u) : u[i] \in W BY <1>2
<1>4. \A m \in W : Mark[m] = (IF Whole(m) THEN Label(m) ELSE None) BY DEF Mark
<1>. HIDE DEF W
<1>5. u \in Seq(W)
  <2>1. u \in [1..Len(u) -> W] BY <1>1, <1>3
  <2>. QED BY <1>1, <2>1
<1>6. \A i \in DOMAIN u : Mark[u[i]] = (IF Whole(u[i]) THEN Label(u[i]) ELSE None)
  BY <1>1, <1>3, <1>4
<1>7. [i \in DOMAIN u |-> IF Whole(u[i]) THEN Label(u[i]) ELSE None] = Labels(u, Mark)
  BY <1>6, Zenon DEF Labels
<1>. QED BY <1>5, <1>7 DEF W

LEMMA DownView ==
  ASSUME NEW q \in Seq(Answer)
  PROVE  [i \in DOMAIN q |-> Label(q[i])] = Labels(q, Named)
<1>1. \A i \in DOMAIN q : q[i] \in Answer OBVIOUS
<1>2. \A m \in Answer : Named[m] = Label(m) BY DEF Named
<1>3. \A i \in DOMAIN q : Named[q[i]] = Label(q[i]) BY <1>1, <1>2
<1>. QED BY <1>3, Zenon DEF Labels

LEMMA Views ==
  ASSUME CInv, DInv
  PROVE  /\ up \in Seq({w \in Written : w.of \in 0..MaxRequests}) /\ Up = Labels(up, Mark)
         /\ unread \in Seq(Answer) /\ Down = Labels(unread, Named)
<1>1. up \in Seq(Written) /\ \A i \in DOMAIN up : up[i].of \in 0..MaxRequests
  BY DEF CInv, Stream, DInv, Lengths
<1>2. \A i \in 1..Len(up) : up[i].of \in 0..MaxRequests BY <1>1
<1>3. unread \in Seq(Answer) BY DEF DInv, Lengths
<1>4. Up = Labels(up, Mark) BY <1>1, <1>2, UpView, Zenon DEF Up
<1>5. Down = Labels(unread, Named) BY <1>3, DownView, Zenon DEF Down
<1>. QED BY <1>1, <1>2, <1>3, <1>4, <1>5, UpView, Zenon

LEMMA NextViews ==
  ASSUME CInv', DInv'
  PROVE  Up' = Labels(up', Mark) /\ Down' = Labels(unread', Named)
<1>1. up' \in Seq(Written) /\ \A i \in DOMAIN up' : up'[i].of \in 0..MaxRequests
  BY DEF CInv, Stream, DInv, Lengths
<1>2. \A i \in 1..Len(up') : up'[i].of \in 0..MaxRequests BY <1>1
<1>3. unread' \in Seq(Answer) BY DEF DInv, Lengths
<1>4. Up' = Labels(up', Mark) BY <1>1, <1>2, UpView, Zenon DEF Up
<1>5. Down' = Labels(unread', Named) BY <1>3, DownView, Zenon DEF Down
<1>. QED BY <1>4, <1>5

\* The control that a step of the channel depends on.
Standing == /\ pc \in {"sending", "header", "payload"} => Server \in {"open", "closed"}
            /\ peer = "open" => Server = "open"

LEMMA StandingHolds == ASSUME CInv PROVE Standing
<1>1. pc \in Busy => supported \in Level BY DEF CInv, Greeting
<1>2. pc \in Busy => peer \in {"open", "closed"}
  BY <1>1, LevelsAreNat DEF CInv, Greeting, Control, Busy
<1>. QED BY <1>2 DEF Standing, Server, Busy

\* What a step of the connection must do to be one of the channel.
Rest == UNCHANGED <<Got, failed, timed>>

ChannelStep ==
  \/ failed' = TRUE
  \/ /\ Up' = <<>> /\ Down' = <<>> /\ Got' = None /\ failed' = FALSE
     /\ Sent' = 0 /\ timed' = FALSE /\ Server' = "away"
  \/ UNCHANGED <<Up, Down, Got, failed, Sent, timed, Server>>
  \/ /\ failed = FALSE /\ Server = "away" /\ Server' \in {"away", "open", "closed"}
     /\ timed' \in BOOLEAN /\ UNCHANGED <<Up, Down, Got, failed, Sent>>
  \/ /\ failed = FALSE /\ Rest /\ Sent' = Sent + 1 /\ UNCHANGED <<Down, Server>>
     /\ \/ Server = "open" /\ \E m \in Said : Up' = Append(Up, m)
        \/ Server = "open" /\ timed /\ Up' = Append(Up, None)
        \/ Server = "closed" /\ Up' = Up
  \/ /\ failed = FALSE /\ Rest /\ UNCHANGED <<Sent, Server>> /\ Server = "open"
     /\ Up # <<>> /\ Head(Up) # None /\ Up' = Tail(Up)
     /\ Down' = Down \/ \E m \in Said : Down' = Append(Down, m)
  \/ /\ failed = FALSE /\ Rest /\ UNCHANGED <<Up, Sent, Server>> /\ Server = "open"
     /\ \E m \in Said : Down' = Append(Down, m)
  \/ /\ failed = FALSE /\ Rest /\ UNCHANGED <<Up, Down, Sent>>
     /\ Server = "open" /\ Server' = "closed"
  \/ /\ failed = FALSE /\ UNCHANGED <<Up, failed, Sent, timed, Server>>
     /\ Down # <<>> /\ Down' = Tail(Down) /\ Got' = Head(Down)

LEMMA StepOfChannel ==
  ASSUME failed \in BOOLEAN, ChannelStep
  PROVE  [Channel!Next]_(Channel!vars)
<1>. USE DEF Up, Down, Got, Sent, Server, Rest
<1>1. CASE failed' = TRUE BY <1>1 DEF Channel!Next, Channel!Break
<1>2. CASE /\ Up' = <<>> /\ Down' = <<>> /\ Got' = None /\ failed' = FALSE
           /\ Sent' = 0 /\ timed' = FALSE /\ Server' = "away"
  BY <1>2 DEF Channel!Next, Channel!Reset
<1>3. CASE UNCHANGED <<Up, Down, Got, failed, Sent, timed, Server>> BY <1>3 DEF Channel!vars
<1>4. CASE /\ failed = FALSE /\ Server = "away" /\ Server' \in {"away", "open", "closed"}
           /\ timed' \in BOOLEAN /\ UNCHANGED <<Up, Down, Got, failed, Sent>>
  BY <1>4 DEF Channel!Next, Channel!Begin
<1>5. CASE /\ failed = FALSE /\ Rest /\ Sent' = Sent + 1 /\ UNCHANGED <<Down, Server>>
           /\ \/ Server = "open" /\ \E m \in Said : Up' = Append(Up, m)
              \/ Server = "open" /\ timed /\ Up' = Append(Up, None)
              \/ Server = "closed" /\ Up' = Up
  <2>1. Channel!Send
    BY <1>5 DEF Channel!Send, Channel!Queue, Channel!Cut, Channel!Lose, Said
  <2>. QED BY <1>5, <2>1 DEF Channel!Next
<1>6. CASE /\ failed = FALSE /\ Rest /\ UNCHANGED <<Sent, Server>> /\ Server = "open"
           /\ Up # <<>> /\ Head(Up) # None /\ Up' = Tail(Up)
           /\ Down' = Down \/ \E m \in Said : Down' = Append(Down, m)
  <2>1. Channel!Serve BY <1>6 DEF Channel!Serve, Said
  <2>. QED BY <1>6, <2>1 DEF Channel!Next
<1>7. CASE /\ failed = FALSE /\ Rest /\ UNCHANGED <<Up, Sent, Server>> /\ Server = "open"
           /\ \E m \in Said : Down' = Append(Down, m)
  <2>1. Channel!Push BY <1>7 DEF Channel!Push, Said
  <2>. QED BY <1>7, <2>1 DEF Channel!Next
<1>8. CASE /\ failed = FALSE /\ Rest /\ UNCHANGED <<Up, Down, Sent>>
           /\ Server = "open" /\ Server' = "closed"
  <2>1. Channel!Close BY <1>8 DEF Channel!Close
  <2>. QED BY <1>8, <2>1 DEF Channel!Next
<1>9. CASE /\ failed = FALSE /\ UNCHANGED <<Up, failed, Sent, timed, Server>>
           /\ Down # <<>> /\ Down' = Tail(Down) /\ Got' = Head(Down)
  <2>1. Channel!Take BY <1>9 DEF Channel!Take
  <2>. QED BY <1>9, <2>1 DEF Channel!Next
<1>. QED BY <1>1, <1>2, <1>3, <1>4, <1>5, <1>6, <1>7, <1>8, <1>9 DEF ChannelStep

\* A send of a payload: the message is queued, cut short, or lost.
LEMMA SendsMessage == ASSUME CInv, DInv, CInv', DInv', SendPayload PROVE ChannelStep
<1>1. PICK short \in IF timed THEN 0..1 ELSE {0} :
        up' = IF peer = "open" THEN Append(up, [cur EXCEPT !.has = @ - short]) ELSE up
  BY DEF SendPayload
<1>. DEFINE m == [cur EXCEPT !.has = @ - short]
            W == {w \in Written : w.of \in 0..MaxRequests}
<1>2. /\ cur \in Written /\ Sound(cur) /\ timed \in BOOLEAN /\ failed \in BOOLEAN
      /\ cur.of \in 0..MaxRequests /\ req \in Nat /\ cur # None
  BY WrittenIsSome DEF SendPayload, CInv, Control, Stream, DInv, Lengths, Phases, Begun
<1>3. m \in W /\ m.of = cur.of /\ m.says = cur.says /\ m.has = cur.has - short
  <2>1. cur.has - short \in Int BY <1>2 DEF Written
  <2>2. m \in Written BY <1>2, <2>1 DEF Written
  <2>3. m.of = cur.of BY <1>2 DEF Written
  <2>4. m.says = cur.says /\ m.has = cur.has - short BY <1>2 DEF Written
  <2>. QED BY <1>2, <2>2, <2>3, <2>4
<1>4. /\ taken' = taken /\ failed' = failed /\ unread' = unread /\ cur' = None /\ req' = req
      /\ timed' = timed /\ peer' = peer
  BY DEF SendPayload, Over
<1>5. Sent' = Sent + 1 /\ Down' = Down /\ Got' = Got /\ Server' = Server
  BY <1>2, <1>4 DEF Sent, Down, Got, Server
<1>6. ~Whole(m) => timed
  <2>1. ~timed => short = 0 /\ cur.says = cur.has BY <1>1, <1>2 DEF Sound, Whole
  <2>2. cur.has \in Int BY <1>2 DEF Written
  <2>. HIDE DEF m
  <2>3. ~timed => m.says = m.has BY <1>3, <2>1, <2>2
  <2>. QED BY <2>3 DEF Whole
<1>. HIDE DEF m
<1>7. Server \in {"open", "closed"} /\ (peer = "open" => Server = "open")
      /\ (peer # "open" => Server = "closed")
  BY StandingHolds DEF Standing, SendPayload, Server
<1>8. CASE peer = "open"
  <2>1. up' = Append(up, m) BY <1>1, <1>8 DEF m
  <2>2. Up = Labels(up, Mark) /\ up \in Seq(W) BY Views
  <2>3. Up' = Labels(up', Mark) BY NextViews
  <2>4. Maps(Mark, W, Said \cup {None}) BY MarkIs
  <2>5. Labels(Append(up, m), Mark) = Append(Labels(up, Mark), Mark[m])
    BY <1>3, <2>2, <2>4, LabelsAppend
  <2>6. Up' = Append(Up, Mark[m]) BY <2>1, <2>2, <2>3, <2>5
  <2>7. Mark[m] = IF Whole(m) THEN Label(m) ELSE None BY <1>3 DEF Mark
  <2>8. CASE Whole(m)
    <3>1. m.of \in 0..MaxRequests /\ m.type \in MessageType BY <1>3 DEF Written, MessageType
    <3>2. Label(m) \in Said BY <3>1, LabelIsSaid
    <3>3. Up' = Append(Up, Label(m)) BY <2>6, <2>7, <2>8
    <3>. QED BY <1>2, <1>4, <1>5, <1>7, <1>8, <3>2, <3>3 DEF ChannelStep, Rest
  <2>9. CASE ~Whole(m)
    <3>1. Up' = Append(Up, None) /\ timed BY <1>6, <2>6, <2>7, <2>9
    <3>. QED BY <1>2, <1>4, <1>5, <1>7, <1>8, <3>1 DEF ChannelStep, Rest
  <2>. QED BY <2>8, <2>9
<1>9. CASE peer # "open"
  <2>1. up' = up BY <1>1, <1>9
  <2>2. Up' = Up BY <2>1 DEF Up
  <2>. QED BY <1>2, <1>4, <1>5, <1>7, <1>9, <2>2 DEF ChannelStep, Rest
<1>. QED BY <1>8, <1>9

LEMMA WritesMessage ==
  ASSUME CInv, DInv, ~failed, NEW m \in Answer, Write(m)
  PROVE  /\ Label(m) \in Said /\ Down' = Append(Down, Label(m))
<1>1. unread \in Seq(Answer) /\ unread' = Append(unread, m) /\ Down = Labels(unread, Named)
  BY Views DEF Write
<1>2. Maps(Named, Answer, Said) /\ Named[m] = Label(m) /\ Named[m] \in Said
  BY MarkIs DEF Named, Maps
<1>3. Labels(Append(unread, m), Named) = Append(Labels(unread, Named), Named[m])
  BY <1>1, <1>2, LabelsAppend
<1>4. Append(unread, m) \in Seq(Answer) BY <1>1
<1>5. \A i \in DOMAIN unread' : Named[unread'[i]] = Label(unread'[i])
  BY <1>1, <1>4 DEF Named
<1>6. Down' = Labels(unread', Named) BY <1>5 DEF Down, Labels
<1>. QED BY <1>1, <1>2, <1>3, <1>6

LEMMA PushesMessage == ASSUME CInv, DInv, Push PROVE ChannelStep
<1>1. PICK n \in AnswerSize : Write([of |-> 0, type |-> "Async", size |-> n]) BY DEF Push
<1>. DEFINE m == [of |-> 0, type |-> "Async", size |-> n]
<1>2. 0 \in 0..MaxRequests BY ConnectionAssumption
<1>3. m \in Answer BY <1>2 DEF Answer
<1>4. /\ up' = up /\ taken' = taken /\ failed' = failed /\ failed \in BOOLEAN /\ timed' = timed
      /\ cur' = cur /\ req' = req /\ peer' = peer /\ peer = "open"
  BY DEF Push, Serving, call, DInv, Phases
<1>5. /\ Up' = Up /\ Got' = Got /\ Sent' = Sent /\ Server' = Server /\ Server = "open"
  BY <1>4 DEF Up, Got, Sent, Server
<1>6. CASE failed BY <1>4, <1>6 DEF ChannelStep
<1>7. CASE ~failed
  <2>1. Label(m) \in Said /\ Down' = Append(Down, Label(m))
    <3>. HIDE DEF m
    <3>1. Write(m) BY <1>1 DEF m
    <3>. QED BY <1>3, <1>7, <3>1, WritesMessage
  <2>. HIDE DEF m
  <2>2. failed = FALSE BY <1>4, <1>7
  <2>. QED BY <1>4, <1>5, <2>1, <2>2 DEF ChannelStep, Rest
<1>. QED BY <1>6, <1>7

LEMMA ServesMessage == ASSUME CInv, DInv, CInv', DInv', Serve PROVE ChannelStep
<1>. DEFINE W == {w \in Written : w.of \in 0..MaxRequests}
<1>1. /\ taken' = taken /\ failed' = failed /\ failed \in BOOLEAN /\ timed' = timed
      /\ cur' = cur /\ req' = req /\ peer' = peer /\ peer = "open"
      /\ up # <<>> /\ up' = Tail(up) /\ Whole(Head(up))
  BY DEF Serve, Serving, call, DInv, Phases
<1>2. /\ Got' = Got /\ Sent' = Sent /\ Server' = Server /\ Server = "open"
  BY <1>1 DEF Got, Sent, Server
<1>3. up \in Seq(W) /\ Up = Labels(up, Mark) /\ Maps(Mark, W, Said \cup {None})
  BY Views, MarkIs
<1>4. Up' = Labels(up', Mark) BY NextViews
<1>5. /\ Labels(up, Mark) # <<>> /\ Head(Labels(up, Mark)) = Mark[up[1]]
      /\ Labels(Tail(up), Mark) = Tail(Labels(up, Mark))
  BY <1>1, <1>3, LabelsTail
<1>6. Head(up) = up[1] /\ Head(up) \in W BY <1>1, <1>3, RestOf
<1>7. Head(Up) # None
  <2>1. Mark[Head(up)] = Label(Head(up)) BY <1>1, <1>6 DEF Mark
  <2>2. Label(Head(up)) \in Said
    <3>1. Head(up).of \in 0..MaxRequests /\ Head(up).type \in MessageType
      BY <1>6 DEF Written, MessageType
    <3>. QED BY <3>1, LabelIsSaid
  <2>3. None \notin Said BY ConnectionAssumption DEF Said
  <2>. QED BY <1>3, <1>5, <1>6, <2>1, <2>2, <2>3
<1>8. Up # <<>> /\ Up' = Tail(Up) BY <1>1, <1>3, <1>4, <1>5
<1>9. CASE failed BY <1>1, <1>9 DEF ChannelStep
<1>10. CASE ~failed /\ Head(up).type # "Sync"
  <2>1. unread' = unread BY <1>10 DEF Serve
  <2>2. Down' = Down BY <2>1 DEF Down
  <2>. QED BY <1>1, <1>2, <1>7, <1>8, <1>10, <2>2 DEF ChannelStep, Rest
<1>11. CASE ~failed /\ Head(up).type = "Sync"
  <2>1. PICK n \in AnswerSize :
          Write([of |-> Head(up).of, type |-> "Response", size |-> n])
    BY <1>11 DEF Serve
  <2>. DEFINE m == [of |-> Head(up).of, type |-> "Response", size |-> n]
  <2>2. m \in Answer BY <1>6 DEF Answer
  <2>. HIDE DEF m
  <2>3. Write(m) BY <2>1 DEF m
  <2>4. Label(m) \in Said /\ Down' = Append(Down, Label(m))
    BY <1>11, <2>2, <2>3, WritesMessage
  <2>. QED BY <1>1, <1>2, <1>7, <1>8, <1>11, <2>4 DEF ChannelStep, Rest
<1>. QED BY <1>9, <1>10, <1>11

LEMMA TakesMessage == ASSUME CInv, DInv, CInv', DInv', ReadPayload PROVE ChannelStep
<1>1. /\ pc = "payload" /\ Consume(want) /\ Return /\ cur' = cur /\ req' = req /\ timed' = timed
      /\ up' = up /\ peer' = peer /\ failed \in BOOLEAN
  BY DEF ReadPayload, Consume, DInv, Phases
<1>2. Up' = Up /\ Sent' = Sent /\ Server' = Server BY <1>1 DEF Up, Sent, Server
<1>3. CASE failed' = TRUE BY <1>3 DEF ChannelStep
<1>4. CASE failed' # TRUE
  <2>1. failed' = failed /\ failed = FALSE /\ unread' = SubSeq(unread, 2, Len(unread))
        /\ taken' = [m |-> Label(msg), req |-> IF op = "send" THEN req ELSE 0]
    BY <1>1, <1>4 DEF Return, Throw, Over, Forget
  <2>2. unread \in Seq(Answer) /\ unread # <<>> /\ msg = unread[1]
    BY <1>1, <2>1 DEF DInv, Lengths, Begun
  <2>3. unread' = Tail(unread) BY <2>1, <2>2, RestOf
  <2>4. Down = Labels(unread, Named) /\ Maps(Named, Answer, Said) BY Views, MarkIs
  <2>5. Down' = Labels(unread', Named) BY NextViews
  <2>6. /\ Labels(unread, Named) # <<>> /\ Head(Labels(unread, Named)) = Named[unread[1]]
        /\ Labels(Tail(unread), Named) = Tail(Labels(unread, Named))
    BY <2>2, <2>4, LabelsTail
  <2>7. Named[unread[1]] = Label(msg)
    <3>1. unread[1] \in Answer BY <2>2
    <3>. QED BY <2>2, <3>1 DEF Named
  <2>8. taken' # None
    <3>1. taken' \in Taken
      <4>1. unread[1] \in Answer BY <2>2
      <4>2. Label(msg) \in [of : Nat, type : MessageType]
        BY <2>2, <4>1 DEF Answer, Label, MessageType
      <4>3. (IF op = "send" THEN req ELSE 0) \in Nat BY DEF CInv, Control
      <4>. QED BY <2>1, <4>2, <4>3 DEF Taken
    <3>. QED BY <3>1, WrittenIsSome
  <2>9. Got' = Label(msg) BY <2>1, <2>8 DEF Got
  <2>10. Down # <<>> /\ Down' = Tail(Down) /\ Got' = Head(Down)
    BY <2>3, <2>4, <2>5, <2>6, <2>7, <2>9
  <2>. QED BY <1>1, <1>2, <2>1, <2>10 DEF ChannelStep
<1>. QED BY <1>3, <1>4

\* Steps that the channel does not see.
LEMMA Unseen ==
  ASSUME up' = up, unread' = unread, taken' = taken, failed' = failed, timed' = timed,
         Sent' = Sent, Server' = Server
  PROVE  ChannelStep
<1>1. Up' = Up /\ Down' = Down /\ Got' = Got BY DEF Up, Down, Got
<1>. QED BY <1>1 DEF ChannelStep

LEMMA NextOfChannel == CInv /\ DInv /\ (CInv /\ DInv)' /\ [Next]_connvars => ChannelStep
<1>. SUFFICES ASSUME CInv, DInv, CInv', DInv', [Next]_connvars PROVE ChannelStep
  OBVIOUS
<1>0. failed \in BOOLEAN BY DEF DInv, Phases
<1>1. CASE Disconnect \/ HandshakeThrows
  <2>1. Fresh0 BY <1>1 DEF Disconnect, HandshakeThrows
  <2>2. /\ up' = <<>> /\ unread' = <<>> /\ taken' = None /\ failed' = FALSE /\ cur' = None
        /\ req' = 0 /\ timed' = FALSE /\ peer' = "none"
    BY <2>1 DEF Fresh0
  <2>3. Up' = <<>> /\ Down' = <<>> BY <2>2 DEF Up, Down
  <2>4. Got' = None /\ Sent' = 0 /\ Server' = "away" BY <2>2 DEF Got, Sent, Server
  <2>. QED BY <2>2, <2>3, <2>4 DEF ChannelStep
<1>2. ASSUME call' = call, net' = net, timed' = timed PROVE ChannelStep
  BY <1>2, Unseen DEF call, net, Sent, Server
<1>3. ASSUME NEW s \in Free, NEW h \in Host, MakeSocket(s, h) PROVE ChannelStep
  BY <1>2, <1>3 DEF MakeSocket, Socketing
<1>4. ASSUME NEW s \in Free, DropSocket(s) PROVE ChannelStep
  BY <1>2, <1>4 DEF DropSocket, Socketing
<1>5. CASE \/ \E s \in Free, l \in LevelAsked : Connect(s, l)
           \/ \E l \in LevelAsked \cap Level : Accept(l)
           \/ ServerClose
  <2>1. /\ up' = up /\ unread' = unread /\ taken' = taken /\ failed' = failed /\ cur' = cur
        /\ req' = req
    BY <1>5 DEF Connect, Accept, ServerClose, Serving, call
  <2>2. /\ Up' = Up /\ Down' = Down /\ Got' = Got /\ Sent' = Sent
    BY <2>1 DEF Up, Down, Got, Sent
  <2>3. \/ Server = "away" /\ Server' \in {"away", "open", "closed"} /\ timed' \in BOOLEAN
        \/ Server = "open" /\ Server' = "closed" /\ timed' = timed
    <3>1. timed \in BOOLEAN BY DEF CInv, Control
    <3>2. CASE \E s \in Free, l \in LevelAsked : Connect(s, l)
      <4>1. pc = "none" /\ peer' = "greeted" /\ timed' \in BOOLEAN BY <3>2 DEF Connect
      <4>2. peer = "none" BY <4>1 DEF CInv, Greeting
      <4>. QED BY <4>1, <4>2 DEF Server
    <3>3. CASE \E l \in LevelAsked \cap Level : Accept(l)
      BY <3>1, <3>3 DEF Accept, Serving, Server
    <3>4. CASE ServerClose BY <3>1, <3>4 DEF ServerClose, Serving, Server
    <3>. QED BY <1>5, <3>2, <3>3, <3>4
  <2>4. CASE failed BY <2>1, <2>4, <1>0 DEF ChannelStep
  <2>5. CASE ~failed
    <3>1. failed = FALSE BY <1>0, <2>5
    <3>. QED BY <2>1, <2>2, <2>3, <3>1 DEF ChannelStep, Rest
  <2>. QED BY <2>4, <2>5
<1>6. ASSUME NEW s \in Free, NEW l \in LevelAsked, ConnectThrows(s, l) PROVE ChannelStep
  BY <1>2, <1>6 DEF ConnectThrows
<1>7. ASSUME NEW o \in {"send", "send_async"}, NEW v \in Value, SendHeader(o, v)
      PROVE  ChannelStep
  <2>1. /\ pc = "idle" /\ pc' = "sending" /\ req' = req + 1 /\ net' = net /\ timed' = timed
        /\ taken' = taken /\ failed' = failed
    BY <1>7 DEF SendHeader
  <2>2. cur = None /\ cur' # None /\ req \in Nat
    BY <2>1 DEF DInv, Phases, CInv, Control
  <2>3. Sent' = Sent BY <2>1, <2>2 DEF Sent
  <2>4. Server' = Server /\ up' = up /\ unread' = unread BY <2>1 DEF Server, net
  <2>. QED BY <2>1, <2>3, <2>4, Unseen
<1>8. CASE Connected \/ SendKills
  BY <1>2, <1>8 DEF Connected, SendKills
<1>9. CASE StartRecv \/ ReadHeader
  <2>1. /\ up' = up /\ unread' = unread /\ taken' = taken /\ failed' = failed /\ timed' = timed
        /\ cur' = cur /\ req' = req /\ peer' = peer
    BY <1>9 DEF StartRecv, ReadHeader, Consume, net
  <2>. QED BY <2>1, Unseen DEF Sent, Server
<1>10. CASE SendPayload BY <1>10, SendsMessage
<1>11. CASE SendTimesOut \/ HeaderOverwhelms \/ HeaderThrows \/ PayloadThrows
  <2>1. failed' = TRUE
    BY <1>11 DEF SendTimesOut, HeaderOverwhelms, HeaderThrows, PayloadThrows, Throw
  <2>. QED BY <2>1 DEF ChannelStep
<1>12. CASE ReadPayload BY <1>12, TakesMessage
<1>13. CASE ServerGivesUp
  <2>1. /\ up' = up /\ unread' = unread /\ taken' = taken /\ failed' = failed /\ cur' = cur
        /\ req' = req /\ timed' = timed /\ peer = "open" /\ peer' = "closed"
    BY <1>13 DEF ServerGivesUp, Serving, call
  <2>2. /\ Up' = Up /\ Down' = Down /\ Got' = Got /\ Sent' = Sent
        /\ Server = "open" /\ Server' = "closed"
    BY <2>1 DEF Up, Down, Got, Sent, Server
  <2>3. failed = FALSE \/ failed' = TRUE BY <1>0, <2>1
  <2>. QED BY <2>1, <2>2, <2>3 DEF ChannelStep, Rest
<1>14. CASE Deliver
  <2>1. /\ up' = up /\ unread' = unread /\ taken' = taken /\ failed' = failed /\ cur' = cur
        /\ req' = req /\ timed' = timed /\ peer' = peer
    BY <1>14 DEF Deliver, Serving, call
  <2>. QED BY <2>1, Unseen DEF Sent, Server
<1>15. CASE Serve BY <1>15, ServesMessage
<1>16. CASE Push BY <1>16, PushesMessage
<1>17. CASE UNCHANGED connvars BY <1>2, <1>17 DEF connvars
<1>. QED BY <1>1, <1>3, <1>4, <1>5, <1>6, <1>7, <1>8, <1>9, <1>10, <1>11, <1>12,
            <1>13, <1>14, <1>15, <1>16, <1>17 DEF Next, Client

\* Two send calls and two recv calls for each message, which may come back
\* short, make a channel until a call throws: what the server writes is read
\* whole, once and in order, whatever portions the bytes arrive in, and what a
\* send that returned has written is queued whole, unless the socket has a
\* timeout, which may cut it, or the server has closed, which loses it.
THEOREM ConnectionIsChannel == Spec => ChannelSpec
<1>1. Init => Channel!Init
  <2>. SUFFICES ASSUME Init PROVE Channel!Init
    OBVIOUS
  <2>1. /\ up = <<>> /\ unread = <<>> /\ taken = None /\ failed = FALSE /\ cur = None /\ req = 0
        /\ timed = FALSE /\ peer = "none"
    BY DEF Init
  <2>. QED BY <2>1 DEF Channel!Init
<1>2. CInv /\ DInv /\ (CInv /\ DInv)' /\ [Next]_connvars => [Channel!Next]_(Channel!vars)
  BY NextOfChannel, StepOfChannel DEF DInv, Phases
<1>. QED BY <1>1, <1>2, Dialogue, PTL DEF Spec, ChannelSpec, Channel!Spec
=============================================================================
