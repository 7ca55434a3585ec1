------------------------------ MODULE Sockets ------------------------------
(***************************************************************************)
(* class Socket: an object owns a descriptor of the process, is moved from *)
(* place to place, and closes what it owns.  Socket objects are the        *)
(* members of Sock; descriptors are small numbers the kernel hands out     *)
(* again once they are closed, so that a second close would hit someone    *)
(* else's connection.                                                      *)
(***************************************************************************)
EXTENDS Integers, Sequences, FiniteSets

CONSTANTS Sock,       \* objects of class Socket
          MaxFd,      \* bound: descriptors 0..MaxFd
          Host,       \* hostnames
          LocalHost,  \* what gethostname answers
          Family,     \* [Host -> Seq of <<family, ip>>]: what getaddrinfo answers
          NoIp        \* an ip inet_ntop fails for

Fd == 0..MaxFd
Domain == {"unix", "inet", "inet6"}

ASSUME SocketAssumption ==
  /\ MaxFd \in Nat /\ IsFiniteSet(Sock)
  /\ LocalHost \in Host
  /\ DOMAIN Family = Host
  /\ \A h \in Host : Family[h] = <<>> \/ 1 \in DOMAIN Family[h]

VARIABLES made,    \* the sockets under construction no longer, nor destroyed
          m_fd,    \* [Sock -> Fd \cup {-1}]
          m_is_unix_domain_socket,  \* [Sock -> BOOLEAN]
          domain,  \* [Fd -> Domain \cup {"closed"}]: the kernel's side
          lost     \* descriptors a constructor that threw left open

svars == <<made, m_fd, m_is_unix_domain_socket, domain, lost>>

SocketsInit == /\ made = {}
               /\ m_fd = [s \in Sock |-> -1]
               /\ m_is_unix_domain_socket = [s \in Sock |-> FALSE]
               /\ domain = [d \in Fd |-> "closed"]
               /\ lost = {}

-----------------------------------------------------------------------------
(* Whom to connect to.  The empty sequence stands for "throws".            *)

\* Addresses of a family that is neither ipv4 nor ipv6, or that cannot be
\* written down, throw; so does a host without addresses.
hostname_to_ips(h) ==
  IF \E i \in DOMAIN Family[h] : Family[h][i][1] \notin {"inet", "inet6"} \/ Family[h][i][2] = NoIp
    THEN <<>> ELSE Family[h]

local_ips == {hostname_to_ips(LocalHost)[i][2] : i \in DOMAIN hostname_to_ips(LocalHost)}

\* The domain of the socket: unix if the first ip of the host is one of this
\* machine's own.
DomainOf(h) == LET first == hostname_to_ips(h)[1] IN
                 IF first[2] \in local_ips THEN "unix" ELSE first[1]

\* Resolution does not throw, for the host nor for this machine.
Resolves(h) == hostname_to_ips(LocalHost) # <<>> /\ hostname_to_ips(h) # <<>>

\* socket(): the lowest descriptor that is not in use.
Fresh(d) == domain[d] = "closed" /\ \A e \in Fd : e < d => domain[e] # "closed"

-----------------------------------------------------------------------------
Construct(s, h) == \E d \in Fd :
  /\ s \notin made /\ Resolves(h) /\ Fresh(d)
  /\ domain' = [domain EXCEPT ![d] = DomainOf(h)]
  /\ made' = made \cup {s}
  /\ m_fd' = [m_fd EXCEPT ![s] = d]
  /\ m_is_unix_domain_socket' = [m_is_unix_domain_socket EXCEPT ![s] = (DomainOf(h) = "unix")]
  /\ UNCHANGED lost

\* setsockopt, inet_pton or connect fails and the constructor throws: no
\* object was made, and nobody closes fd.
ConstructThrows(s, h) == \E d \in Fd :
  /\ s \notin made /\ Resolves(h) /\ Fresh(d)
  /\ domain' = [domain EXCEPT ![d] = DomainOf(h)]
  /\ lost' = lost \cup {d}
  /\ UNCHANGED <<made, m_fd, m_is_unix_domain_socket>>

\* The flag of s is not initialised: it may have either value.
MoveConstruct(s, t) ==
  /\ s \notin made /\ t \in made
  /\ made' = made \cup {s}
  /\ m_fd' = [m_fd EXCEPT ![s] = m_fd[t], ![t] = -1]
  /\ \E b \in BOOLEAN :
       m_is_unix_domain_socket' = [m_is_unix_domain_socket EXCEPT ![s] = b]
  /\ UNCHANGED <<domain, lost>>

\* The descriptors change places, the flags stay where they are.
MoveAssign(s, t) ==
  /\ s \in made /\ t \in made /\ s # t
  /\ m_fd' = [m_fd EXCEPT ![s] = m_fd[t], ![t] = m_fd[s]]
  /\ UNCHANGED <<made, m_is_unix_domain_socket, domain, lost>>

Close(d) == domain' = IF d = -1 THEN domain ELSE [domain EXCEPT ![d] = "closed"]

Destroy(s) == /\ s \in made
              /\ Close(m_fd[s])
              /\ m_fd' = [m_fd EXCEPT ![s] = -1]
              /\ made' = made \ {s}
              /\ m_is_unix_domain_socket' = [m_is_unix_domain_socket EXCEPT ![s] = FALSE]
              /\ UNCHANGED lost

SocketsNext == \/ \E s \in Sock, h \in Host : Construct(s, h) \/ ConstructThrows(s, h)
               \/ \E s, t \in Sock : MoveConstruct(s, t) \/ MoveAssign(s, t)
               \/ \E s \in Sock : Destroy(s)

SocketsSpec == SocketsInit /\ [][SocketsNext]_svars

-----------------------------------------------------------------------------
\* The descriptors in use, and those that some socket will close.
Open  == {d \in Fd : domain[d] # "closed"}
Owned == {m_fd[s] : s \in made} \ {-1}

\* An open descriptor is closed by exactly one object, and what a socket
\* calls its own is open: moving never leaves two owners, which would close
\* a descriptor that by then is another connection's, and none but a
\* constructor that throws leaves a descriptor without owner
\* (main.cpp:394-419).
DescriptorsOwned ==
  /\ Owned \cup lost = Open
  /\ Owned \cap lost = {}
  /\ \A s, t \in made : s # t /\ m_fd[s] # -1 => m_fd[s] # m_fd[t]
=============================================================================
