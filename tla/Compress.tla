------------------------------ MODULE Compress ------------------------------
(***************************************************************************)
(* SocketConnection::compress: the payload of a message is written as      *)
(* blocks, each a header byte followed by Bits tokens.  A token is a byte  *)
(* as it is (0 in the header) or a run (1): the xor of the run's first two *)
(* bytes, which names the last place where that xor occurred, and the      *)
(* number of further bytes that repeat what stood there.                   *)
(*                                                                         *)
(* One action per turn of the loop, plus one for opening a block.  Indices *)
(* are those of the code, from 0; `out' is the malloc'ed buffer up to      *)
(* out_idx.  The mask 2^bit is kept as its bit; bit = Bits is the mask     *)
(* that has overflowed to 0.                                               *)
(***************************************************************************)
EXTENDS Integers, Sequences, FiniteSets

CONSTANTS Byte,     \* the values of a byte
          Xor,      \* [Byte \X Byte -> Byte]: their exclusive or
          Payload,  \* the payloads that send_impl may pass
          Bits,     \* tokens in a block: 8 in the code
          Slack,    \* bytes that must be free to open a block: 17 in the code
          MaxRun,   \* longest run beyond its first two bytes: 255 in the code
          Stale     \* what the uninitialised xor_offset_cache may hold

\* send_impl compresses only messages of more than 2000 bytes, so that
\* out_length - Slack and in_length - 3 do not wrap.
ASSUME CompressAssumption ==
  /\ Bits \in Nat \ {0} /\ MaxRun \in Nat \ {0} /\ Slack \in Nat
  /\ Slack >= 2 * Bits + 1
  /\ Xor \in [Byte \X Byte -> Byte]
  /\ \A a, b, c \in Byte : Xor[<<a, b>>] = Xor[<<a, c>>] => b = c
  /\ Payload \subseteq Seq(Byte)
  /\ \A p \in Payload : Len(p) >= 3
  /\ Stale \subseteq Nat

VARIABLES in,               \* the payload
          in_idx, in_idx_prev,
          xor_offset, xor_offset_prev,
          xor_offset_cache, \* [Byte -> Nat]: where each xor was seen last
          out,              \* what has been written
          header_idx, current_block_header, bit,
          result            \* "running", "compressed" or "original"

cvars == <<in, in_idx, in_idx_prev, xor_offset, xor_offset_prev,
           xor_offset_cache, out, header_idx, current_block_header, bit, result>>

in_length  == Len(in)
out_length == (8 + in_length) \div 2
In(i) == in[i + 1]
XorAt(i) == Xor[<<In(i), In(i + 1)>>]   \* in[i] ^ in[i + 1]

Init == /\ in \in Payload
        /\ in_idx = 0 /\ in_idx_prev = 0
        /\ xor_offset \in Byte /\ xor_offset_prev = xor_offset
        /\ xor_offset_cache \in [Byte -> Stale]
        /\ out = <<>> /\ header_idx = 0 /\ current_block_header = 0 /\ bit = Bits
        /\ result = "running"

Working == result = "running" /\ in_idx < in_length

\* out[header_idx] = current_block_header.  Before the first block this
\* writes a cell that is not in use yet.
WithHeader == IF header_idx < Len(out)
                THEN [out EXCEPT ![header_idx + 1] = current_block_header]
                ELSE out

\* A plausible slip: room for the tokens, not for the header byte.
HasRoom_TokensOnly == Len(out) <= out_length - (Slack - 1)

\* A whole block still fits.
HasRoom == Len(out) <= out_length - Slack

\* The result would not be half the size: the payload is sent as it is, and
\* the malloc'ed buffer is not freed (main.cpp:619-620).
GiveUp == /\ Working /\ bit = Bits /\ ~HasRoom
          /\ result' = "original"
          /\ UNCHANGED <<in, in_idx, in_idx_prev, xor_offset, xor_offset_prev,
                         xor_offset_cache, out, header_idx, current_block_header, bit>>

OpenBlock == /\ Working /\ bit = Bits /\ HasRoom
             /\ out' = Append(WithHeader, 0)
             /\ header_idx' = Len(out)
             /\ current_block_header' = 0 /\ bit' = 0
             /\ UNCHANGED <<in, in_idx, in_idx_prev, xor_offset, xor_offset_prev,
                            xor_offset_cache, result>>

NearEnd == in_idx > in_length - 3
\* xor_offset after the test; near the end the test does not set it.
Offset  == IF NearEnd THEN xor_offset ELSE XorAt(in_idx)
Seen    == xor_offset_cache[Offset]

\* No run starts here.  Index 0 stands for "not seen".
InvalidateCache == NearEnd \/ Seen = 0 \/ In(in_idx) # In(Seen)

\* The cache once the byte before has been entered in it.
Remember == IF in_idx_prev = 0 THEN xor_offset_cache
            ELSE [xor_offset_cache EXCEPT ![xor_offset_prev] = in_idx_prev]

\* A plausible slip: the mask is not tested for its overflow.
Literal_Anytime ==
           /\ Working
           /\ InvalidateCache
           /\ xor_offset' = Offset
           /\ xor_offset_prev' = xor_offset'
           /\ xor_offset_cache' = Remember
           /\ in_idx_prev' = in_idx
           /\ out' = Append(out, In(in_idx))
           /\ in_idx' = in_idx + 1
           /\ bit' = bit + 1
           /\ UNCHANGED <<in, header_idx, current_block_header, result>>

\* A plausible slip: the index is remembered after it was advanced.
Literal_NextIndex ==
           /\ Working /\ bit < Bits
           /\ InvalidateCache
           /\ xor_offset' = Offset
           /\ xor_offset_prev' = xor_offset'
           /\ xor_offset_cache' = Remember
           /\ in_idx_prev' = in_idx + 1
           /\ out' = Append(out, In(in_idx))
           /\ in_idx' = in_idx + 1
           /\ bit' = bit + 1
           /\ UNCHANGED <<in, header_idx, current_block_header, result>>

Literal == /\ Working /\ bit < Bits
           /\ InvalidateCache
           /\ xor_offset' = Offset
           /\ xor_offset_prev' = xor_offset'
           /\ xor_offset_cache' = Remember
           /\ in_idx_prev' = in_idx
           /\ out' = Append(out, In(in_idx))
           /\ in_idx' = in_idx + 1
           /\ bit' = bit + 1
           /\ UNCHANGED <<in, header_idx, current_block_header, result>>

\* How many bytes from s on repeat those from p on, up to MaxRun and the end.
RunLength(p, s) ==
  LET most == IF s + MaxRun < in_length THEN MaxRun ELSE in_length - s
  IN  CHOOSE n \in 0..most :
        /\ \A j \in 0..(n - 1) : In(p + j) = In(s + j)
        /\ n = most \/ In(p + n) # In(s + n)

\* A plausible slip: the byte before the run is not entered in the cache,
\* and the position of the run itself is not either.
Run_Forgets == /\ Working /\ bit < Bits
       /\ ~InvalidateCache
       /\ xor_offset' = Offset
       /\ xor_offset_cache' = xor_offset_cache
       /\ in_idx_prev' = 0
       /\ current_block_header' = current_block_header + 2^bit
       /\ LET n == RunLength(Seen + 2, in_idx + 2) IN
            /\ out' = out \o <<Offset, n>>
            /\ in_idx' = in_idx + 2 + n
       /\ bit' = bit + 1
       /\ UNCHANGED <<in, xor_offset_prev, header_idx, result>>

Run == /\ Working /\ bit < Bits
       /\ ~InvalidateCache
       /\ xor_offset' = Offset
       /\ xor_offset_cache' = [Remember EXCEPT ![Offset] = in_idx]
       /\ in_idx_prev' = 0
       /\ current_block_header' = current_block_header + 2^bit
       /\ LET n == RunLength(Seen + 2, in_idx + 2) IN
            /\ out' = out \o <<Offset, n>>
            /\ in_idx' = in_idx + 2 + n
       /\ bit' = bit + 1
       /\ UNCHANGED <<in, xor_offset_prev, header_idx, result>>

Finish == /\ result = "running" /\ in_idx >= in_length
          /\ out' = WithHeader
          /\ result' = "compressed"
          /\ UNCHANGED <<in, in_idx, in_idx_prev, xor_offset, xor_offset_prev,
                         xor_offset_cache, header_idx, current_block_header, bit>>

Next == GiveUp \/ OpenBlock \/ Literal \/ Run \/ Finish

Spec == Init /\ [][Next]_cvars

-----------------------------------------------------------------------------
TypeOK == /\ in \in Payload /\ in_idx \in 0..Len(in) /\ in_idx_prev \in Nat
          /\ xor_offset \in Byte /\ xor_offset_prev \in Byte
          /\ xor_offset_cache \in [Byte -> Nat]
          /\ Len(out) \in Nat /\ header_idx \in Nat
          /\ bit \in 0..Bits
          /\ result \in {"running", "compressed", "original"}

\* The loop never writes past the buffer, whose room it looks at only when
\* it opens a block (main.cpp:616-620).
WithinBuffer == Len(out) <= out_length

\* While there are bytes to read, an entry that the loop has put into the
\* cache is an earlier position where that xor occurred ("Cache where
\* offset=index occurred", main.cpp:597).  At the end it need not be: the xor
\* of the last two bytes is never computed, and the byte before the last is
\* entered under the one before.
CacheMeansSeen == in_idx < in_length =>
  \A h \in Byte : LET q == xor_offset_cache[h] IN
    q \notin Stale => q < in_idx /\ XorAt(q) = h
=============================================================================
