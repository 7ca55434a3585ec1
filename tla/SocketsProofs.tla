--------------------------- MODULE SocketsProofs ---------------------------
(***************************************************************************)
(* Descriptors are owned by one socket each, for any sockets, descriptors  *)
(* and hosts.  The invariant adds the types, and that an object that does  *)
(* not exist holds no descriptor: a move into it could otherwise drop one. *)
(***************************************************************************)
EXTENDS Sockets, TLAPS

SocketTypes == /\ made \subseteq Sock
               /\ m_fd \in [Sock -> Fd \cup {-1}]
               /\ domain \in [Fd -> Domain \cup {"closed"}]
               /\ lost \subseteq Fd

Unmade == \A s \in Sock \ made : m_fd[s] = -1

SInv == SocketTypes /\ Unmade /\ DescriptorsOwned

LEMMA FdFacts == Fd \subseteq Nat /\ -1 \notin Fd
BY SocketAssumption DEF Fd

LEMMA NewDomain == ASSUME NEW h \in Host, Resolves(h)
                   PROVE DomainOf(h) \in Domain /\ DomainOf(h) # "closed"
<1>1. hostname_to_ips(h) # <<>> BY DEF Resolves
<1>2. /\ hostname_to_ips(h) = Family[h]
      /\ \A i \in DOMAIN Family[h] : Family[h][i][1] \in {"inet", "inet6"}
  BY <1>1 DEF hostname_to_ips
<1>3. 1 \in DOMAIN Family[h] BY <1>1, <1>2, SocketAssumption
<1>4. hostname_to_ips(h)[1][1] \in {"inet", "inet6"} BY <1>2, <1>3
<1>. QED BY <1>4 DEF DomainOf, Domain

LEMMA SInvInit == SocketsInit => SInv
<1>. SUFFICES ASSUME SocketsInit PROVE SInv
  OBVIOUS
<1>1. made = {} /\ lost = {} /\ Open = {} /\ Owned = {}
  BY DEF SocketsInit, Open, Owned
<1>. QED BY <1>1 DEF SocketsInit, SInv, SocketTypes, Unmade, DescriptorsOwned

LEMMA ConstructKeeps == ASSUME SInv, NEW s \in Sock, NEW h \in Host, Construct(s, h)
                        PROVE  SInv'
<1>1. PICK d \in Fd : /\ s \notin made /\ Resolves(h) /\ domain[d] = "closed"
                      /\ domain' = [domain EXCEPT ![d] = DomainOf(h)]
                      /\ made' = made \cup {s} /\ m_fd' = [m_fd EXCEPT ![s] = d]
                      /\ lost' = lost
  BY DEF Construct, Fresh
<1>2. DomainOf(h) \in Domain /\ DomainOf(h) # "closed" BY <1>1, NewDomain
<1>3. d \notin Open /\ Open' = Open \cup {d}
  BY <1>1, <1>2 DEF Open, SInv, SocketTypes
<1>4. \A r \in Sock \ {s} : m_fd'[r] = m_fd[r] BY <1>1 DEF SInv, SocketTypes
<1>5. m_fd'[s] = d /\ d # -1 BY <1>1, FdFacts DEF SInv, SocketTypes
<1>6. Owned' = Owned \cup {d}
  BY <1>1, <1>4, <1>5 DEF Owned, SInv, SocketTypes
<1>7. SocketTypes' BY <1>1, <1>2 DEF SInv, SocketTypes
<1>8. Unmade' BY <1>1, <1>4 DEF SInv, Unmade
<1>9. \A r \in made : m_fd[r] # d
  BY <1>3, FdFacts DEF SInv, DescriptorsOwned, Owned
<1>10. DescriptorsOwned'
  BY <1>1, <1>3, <1>4, <1>5, <1>6, <1>9 DEF SInv, DescriptorsOwned, SocketTypes
<1>. QED BY <1>7, <1>8, <1>10 DEF SInv

LEMMA ConstructThrowsKeeps == ASSUME SInv, NEW s \in Sock, NEW h \in Host, ConstructThrows(s, h)
                              PROVE  SInv'
<1>1. PICK d \in Fd : /\ Resolves(h) /\ domain[d] = "closed"
                      /\ domain' = [domain EXCEPT ![d] = DomainOf(h)]
                      /\ lost' = lost \cup {d} /\ made' = made /\ m_fd' = m_fd
  BY DEF ConstructThrows, Fresh
<1>2. DomainOf(h) \in Domain /\ DomainOf(h) # "closed" BY <1>1, NewDomain
<1>3. d \notin Open /\ Open' = Open \cup {d}
  BY <1>1, <1>2 DEF Open, SInv, SocketTypes
<1>4. Owned' = Owned BY <1>1 DEF Owned
<1>5. SocketTypes' BY <1>1, <1>2 DEF SInv, SocketTypes
<1>6. Unmade' BY <1>1 DEF SInv, Unmade
<1>7. DescriptorsOwned' BY <1>1, <1>3, <1>4 DEF SInv, DescriptorsOwned
<1>. QED BY <1>5, <1>6, <1>7 DEF SInv

LEMMA MoveConstructKeeps == ASSUME SInv, NEW s \in Sock, NEW t \in Sock, MoveConstruct(s, t)
                            PROVE  SInv'
<1>1. /\ s \notin made /\ t \in made /\ s # t
      /\ made' = made \cup {s}
      /\ m_fd' = [m_fd EXCEPT ![s] = m_fd[t], ![t] = -1]
      /\ domain' = domain /\ lost' = lost
  BY DEF MoveConstruct
<1>2. /\ m_fd'[s] = m_fd[t] /\ m_fd'[t] = -1
      /\ \A r \in Sock \ {s, t} : m_fd'[r] = m_fd[r]
  BY <1>1 DEF SInv, SocketTypes
<1>3. Open' = Open BY <1>1 DEF Open
<1>4. Owned' = Owned
  <2>1. Owned' \subseteq Owned BY <1>1, <1>2 DEF Owned, SInv, SocketTypes
  <2>2. ASSUME NEW x \in Owned PROVE x \in Owned'
    <3>1. PICK r \in made : x = m_fd[r] /\ x # -1 BY <2>2 DEF Owned
    <3>2. CASE r = t BY <1>1, <1>2, <3>1, <3>2 DEF Owned
    <3>3. CASE r # t BY <1>1, <1>2, <3>1, <3>3 DEF Owned, SInv, SocketTypes
    <3>. QED BY <3>2, <3>3
  <2>. QED BY <2>1, <2>2
<1>5. SocketTypes' BY <1>1 DEF SInv, SocketTypes
<1>6. Unmade' BY <1>1, <1>2 DEF SInv, Unmade
<1>7. \A a, b \in made' : a # b /\ m_fd'[a] # -1 => m_fd'[a] # m_fd'[b]
  BY <1>1, <1>2 DEF SInv, DescriptorsOwned, SocketTypes
<1>8. DescriptorsOwned' BY <1>1, <1>3, <1>4, <1>7 DEF SInv, DescriptorsOwned
<1>. QED BY <1>5, <1>6, <1>8 DEF SInv

LEMMA MoveAssignKeeps == ASSUME SInv, NEW s \in Sock, NEW t \in Sock, MoveAssign(s, t)
                         PROVE  SInv'
<1>1. /\ s \in made /\ t \in made /\ s # t
      /\ m_fd' = [m_fd EXCEPT ![s] = m_fd[t], ![t] = m_fd[s]]
      /\ made' = made /\ domain' = domain /\ lost' = lost
  BY DEF MoveAssign
<1>2. /\ m_fd'[s] = m_fd[t] /\ m_fd'[t] = m_fd[s]
      /\ \A r \in Sock \ {s, t} : m_fd'[r] = m_fd[r]
  BY <1>1 DEF SInv, SocketTypes
<1>3. Open' = Open BY <1>1 DEF Open
<1>4. Owned' = Owned
  <2>1. Owned' \subseteq Owned BY <1>1, <1>2 DEF Owned, SInv, SocketTypes
  <2>2. ASSUME NEW x \in Owned PROVE x \in Owned'
    <3>1. PICK r \in made : x = m_fd[r] /\ x # -1 BY <2>2 DEF Owned
    <3>2. PICK q \in made : m_fd'[q] = m_fd[r]
      BY <1>1, <1>2 DEF SInv, SocketTypes
    <3>. QED BY <1>1, <3>1, <3>2 DEF Owned
  <2>. QED BY <2>1, <2>2
<1>5. SocketTypes' BY <1>1 DEF SInv, SocketTypes
<1>6. Unmade' BY <1>1, <1>2 DEF SInv, Unmade
<1>7. \A a, b \in made' : a # b /\ m_fd'[a] # -1 => m_fd'[a] # m_fd'[b]
  BY <1>1, <1>2 DEF SInv, DescriptorsOwned, SocketTypes
<1>8. DescriptorsOwned' BY <1>1, <1>3, <1>4, <1>7 DEF SInv, DescriptorsOwned
<1>. QED BY <1>5, <1>6, <1>8 DEF SInv

\* A socket gives up its descriptor and closes it, whether or not it goes
\* on to exist.
LEMMA CloseKeeps ==
  ASSUME SInv, NEW s \in made, Close(m_fd[s]), m_fd' = [m_fd EXCEPT ![s] = -1],
         made' = made \/ made' = made \ {s}, lost' = lost
  PROVE  SInv'
<1>1. s \in Sock /\ m_fd'[s] = -1 /\ \A r \in Sock \ {s} : m_fd'[r] = m_fd[r]
  BY DEF SInv, SocketTypes
<1>2. Owned' = Owned \ {m_fd[s]}
  <2>1. Owned' \subseteq Owned \ {m_fd[s]}
    BY <1>1 DEF Owned, SInv, SocketTypes, DescriptorsOwned
  <2>2. ASSUME NEW x \in Owned, x # m_fd[s] PROVE x \in Owned'
    <3>1. PICK r \in made : x = m_fd[r] /\ x # -1 /\ r # s BY <2>2 DEF Owned
    <3>. QED BY <1>1, <3>1 DEF Owned, SInv, SocketTypes
  <2>. QED BY <2>1, <2>2
<1>3. Open' = Open \ {m_fd[s]} /\ domain' \in [Fd -> Domain \cup {"closed"}]
  BY <1>1, FdFacts DEF Open, Close, SInv, SocketTypes
<1>4. m_fd[s] \notin lost
  BY <1>1, FdFacts DEF SInv, DescriptorsOwned, Owned, SocketTypes
<1>5. SocketTypes' BY <1>1, <1>3 DEF SInv, SocketTypes
<1>6. Unmade' BY <1>1 DEF SInv, Unmade
<1>7. \A a, b \in made' : a # b /\ m_fd'[a] # -1 => m_fd'[a] # m_fd'[b]
  BY <1>1 DEF SInv, DescriptorsOwned, SocketTypes
<1>8. DescriptorsOwned' BY <1>2, <1>3, <1>4, <1>7 DEF SInv, DescriptorsOwned
<1>. QED BY <1>5, <1>6, <1>8 DEF SInv

LEMMA SInvStep == SInv /\ [SocketsNext]_svars => SInv'
<1>. SUFFICES ASSUME SInv, [SocketsNext]_svars PROVE SInv'
  OBVIOUS
<1>1. ASSUME NEW s \in Sock, NEW h \in Host, Construct(s, h) PROVE SInv'
  BY <1>1, ConstructKeeps
<1>2. ASSUME NEW s \in Sock, NEW h \in Host, ConstructThrows(s, h) PROVE SInv'
  BY <1>2, ConstructThrowsKeeps
<1>3. ASSUME NEW s \in Sock, NEW t \in Sock, MoveConstruct(s, t) PROVE SInv'
  BY <1>3, MoveConstructKeeps
<1>4. ASSUME NEW s \in Sock, NEW t \in Sock, MoveAssign(s, t) PROVE SInv'
  BY <1>4, MoveAssignKeeps
<1>5. ASSUME NEW s \in Sock, Destroy(s) PROVE SInv'
  BY <1>5, CloseKeeps DEF Destroy
<1>6. CASE UNCHANGED svars
  BY <1>6 DEF svars, SInv, SocketTypes, Unmade, DescriptorsOwned, Owned, Open
<1>. QED BY <1>1, <1>2, <1>3, <1>4, <1>5, <1>6 DEF SocketsNext

\* However sockets are constructed, moved, assigned and destroyed, every open
\* descriptor has exactly one socket that will close it, or was left behind
\* by a constructor that threw.
THEOREM SocketsOwnDescriptors == SocketsSpec => []DescriptorsOwned
<1>1. SInv => DescriptorsOwned BY DEF SInv
<1>. QED BY SInvInit, SInvStep, <1>1, PTL DEF SocketsSpec
=============================================================================
