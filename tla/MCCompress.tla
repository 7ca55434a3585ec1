----------------------------- MODULE MCCompress -----------------------------
(* Compress and Message for TLC: bytes of two bits; payloads that repeat a  *)
(* short word, with a byte changed here or there, and long ones that        *)
(* compress well or not at all.                                             *)
EXTENDS Message

CONSTANTS Lengths, WordLength, Odd,  \* Odd: where a payload may differ from its pattern
          LongLengths

MCByte == 0..3
MCXor == [b \in MCByte \X MCByte |->
            2 * ((b[1] \div 2 + b[2] \div 2) % 2) + ((b[1] + b[2]) % 2)]

\* A word's bytes in the other order.
MCReordered == [n \in 0..255 |-> Number("little", InOrder("big", n, 4))]

Words == UNION {[1..n -> 0..2] : n \in 1..WordLength}
Repeated(w, n) == [i \in 1..n |-> w[1 + ((i - 1) % Len(w))]]
MCPayload == {Repeated(w, n) : w \in Words, n \in Lengths}
       \cup {[Repeated(w, n) EXCEPT ![i] = 3] : w \in Words, n \in Lengths, i \in Odd}
       \cup {[Repeated(w, n) EXCEPT ![n - d] = 3] : w \in Words, n \in Lengths, d \in 0..2}
       \cup {Repeated(w, n) : w \in {<<1>>, <<0, 1, 2, 3>>}, n \in LongLengths}
=============================================================================
