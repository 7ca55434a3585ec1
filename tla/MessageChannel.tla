--------------------------- MODULE MessageChannel ---------------------------
(***************************************************************************)
(* What an application may rely on until a call throws: two queues of      *)
(* messages.  Every message is taken whole, once and in order.  A message  *)
(* whose send has returned is queued whole, with two exceptions that no    *)
(* call reports: if the socket has a timeout it may have been cut short,   *)
(* and is then never served; and once the server has closed it is lost.    *)
(***************************************************************************)
EXTENDS Naturals, Sequences

CONSTANTS Message, NoMessage, CutMessage

VARIABLES up,      \* messages on their way to the server
          down,    \* messages on their way to the client
          taken,   \* the message the client took last
          broken,  \* a call has failed since the connection was made
          sent,    \* how many messages the client has sent
          timed,   \* the client's calls may time out
          server   \* "away" before the connection stands, "open" or "closed"

vars == <<up, down, taken, broken, sent, timed, server>>

Init == /\ up = <<>> /\ down = <<>> /\ taken = NoMessage /\ broken = FALSE
        /\ sent = 0 /\ timed = FALSE /\ server = "away"

\* The connection is being made.
Begin == /\ server = "away" /\ server' \in {"away", "open", "closed"} /\ timed' \in BOOLEAN
         /\ UNCHANGED <<up, down, taken, broken, sent>>

\* The client sends a message, which is queued, cut short, or lost.
Queue == server = "open" /\ \E m \in Message : up' = Append(up, m)
Cut   == server = "open" /\ timed /\ up' = Append(up, CutMessage)
Lose  == server = "closed" /\ up' = up
Send  == /\ Queue \/ Cut \/ Lose
         /\ sent' = sent + 1
         /\ UNCHANGED <<down, taken, broken, timed, server>>

\* The server takes a message, and may answer it.
Serve == /\ server = "open" /\ up # <<>> /\ Head(up) # CutMessage /\ up' = Tail(up)
         /\ down' = down \/ \E m \in Message : down' = Append(down, m)
         /\ UNCHANGED <<taken, broken, sent, timed, server>>

\* The server sends a message of its own, or closes.
Push  == /\ server = "open" /\ \E m \in Message : down' = Append(down, m)
         /\ UNCHANGED <<up, taken, broken, sent, timed, server>>
Close == /\ server = "open" /\ server' = "closed"
         /\ UNCHANGED <<up, down, taken, broken, sent, timed>>

\* The client takes the oldest message.
Take == /\ down # <<>> /\ down' = Tail(down) /\ taken' = Head(down)
        /\ UNCHANGED <<up, broken, sent, timed, server>>

\* A call fails: the queues are no longer vouched for.
Break == broken'

\* The connection is given up; another may be made.
Reset == /\ up' = <<>> /\ down' = <<>> /\ taken' = NoMessage /\ broken' = FALSE
         /\ sent' = 0 /\ timed' = FALSE /\ server' = "away"

Next == \/ Break \/ Reset
        \/ ~broken /\ (Begin \/ Send \/ Serve \/ Push \/ Close \/ Take)

Spec == Init /\ [][Next]_vars
=============================================================================
