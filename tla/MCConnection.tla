---------------------------- MODULE MCConnection ----------------------------
(* Connection for TLC: headers and size fields of two bytes, and limits     *)
(* so low that small messages lie on either side of each.                   *)
EXTENDS Connection

\* This machine has one address; one host has it too, others are remote, one
\* has an address that cannot be written down.
MCHost == {"here", "alias", "there", "odd"}
MCFamily == [h \in MCHost |->
  CASE h = "here"  -> <<<<"inet", 1>>>>
    [] h = "alias" -> <<<<"inet", 1>>, <<"inet6", 3>>>>
    [] h = "there" -> <<<<"inet6", 2>>>>
    [] h = "odd"   -> <<<<"inet", NoIp>>>>]

\* One host is enough where only the flag matters, which the connection's
\* socket has either way.
MCOneHost == {"here"}
MCOneFamily == [h \in MCOneHost |-> MCFamily[h]]

\* A word of two bytes, of three and of two values, in the other order.
MCReordered == [w \in 0..5 |-> 3 * (w % 2) + w \div 2]

\* An atom, and an array that is too long below level 6 and needs level 1.
MCValue == {[needs |-> 0, width |-> 1, n |-> 0],
            [needs |-> 1, width |-> 1, n |-> 2]}

\* Amid a message: an answer longer than any, and an empty message.
MCGarbled == {[type |-> "Response", size |-> 3], [type |-> "Async", size |-> 0]}
=============================================================================
