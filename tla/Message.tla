------------------------------ MODULE Message ------------------------------
(***************************************************************************)
(* The message that send_impl puts together, byte by byte: the header,     *)
(* written field by field into a Buffer of the payload's byte order, the   *)
(* size the payload had before it was compressed, and the payload, as it   *)
(* was or as compress left it.  Its reader goes by the protocol: the first *)
(* byte tells the order of all that follows.                               *)
(***************************************************************************)
EXTENDS Uncompress, Frame, Buffer, SequencesExt

\* ByteValues to the k-th.
Power(k) == LET p[i \in Nat] == IF i = 0 THEN 1 ELSE ByteValues * p[i - 1] IN p[k]

ASSUME MessageAssumption ==
  /\ Byte = 0..(ByteValues - 1) /\ FourGB = Power(Word) /\ HeaderSize = 4 + Word
  /\ \A p \in Payload : MinCompress < HeaderSize + Len(p)

MessageByte == 0..2   \* async, sync, response

\* The bytes of an unsigned integer in memory.
InOrder(order, n, size) ==
  [i \in 1..size |-> (n \div Power(IF order = "little" THEN i - 1 ELSE size - i)) % ByteValues]
Scalar(n, size) == InOrder(Native, n, size)

\* header: endianness and type.
Opening(endianness, type) ==
  write_at(write_at(NewBuffer([i \in 1..(HeaderSize + 2 * Word) |-> 0], endianness),
                    <<IF endianness = "little" THEN 1 ELSE 0>>, 0),
           <<type>>, 1)

\* ... whether the payload was compressed, and from which size; header_size
\* is the index that write leaves.
WithOriginal(header, n, c) ==
  IF Compressed(n, c) = 0 THEN [buf |-> header, idx |-> HeaderSize]
  ELSE write(write_at(header, <<Compressed(n, c)>>, 2),
             Scalar(HeaderSize + n, Compressed(n, c) * Word), HeaderSize)

\* A plausible slip: the header is a buffer of the machine's order.
Header_Native(endianness, type, n, c) ==
  LET h == WithOriginal([Opening(endianness, type) EXCEPT !.endianness = Native], n, c)
      final == h.idx + c
  IN  SubSeq(write_at(write_at(h.buf, <<Excess(final)>>, 3),
                      Scalar(Residual(final), Word), 4).bytes, 1, h.idx)

\* ... and the size of the whole message.
Header(endianness, type, n, c) ==
  LET h == WithOriginal(Opening(endianness, type), n, c)
      final == h.idx + c
  IN  SubSeq(write_at(write_at(h.buf, <<Excess(final)>>, 3),
                      Scalar(Residual(final), Word), 4).bytes, 1, h.idx)

\* What the two send calls write when compress has returned.
Sent(endianness, type) ==
  LET in_buff == IF result = "compressed" THEN out ELSE in
  IN  Header(endianness, type, in_length, Len(in_buff)) \o in_buff

-----------------------------------------------------------------------------
(* The reader.                                                             *)

Number(order, bytes) ==
  LET big == IF order = "big" THEN bytes ELSE Reverse(bytes)
      upto[i \in 0..Len(bytes)] == IF i = 0 THEN 0 ELSE ByteValues * upto[i - 1] + big[i]
  IN  upto[Len(bytes)]

OrderOf(w)   == IF w[1] = 1 THEN "little" ELSE "big"
SizeOf(w)    == FourGB * w[4] + Number(OrderOf(w), SubSeq(w, 5, HeaderSize))
BodyOf(w)    == SubSeq(w, HeaderSize + 1, Len(w))
Unpacked(w)  ==
  IF w[3] = 0 THEN BodyOf(w)
  ELSE LET size == Number(OrderOf(w), SubSeq(BodyOf(w), 1, w[3] * Word))
       IN  Read(SubSeq(BodyOf(w), w[3] * Word + 1, Len(BodyOf(w))), size - HeaderSize)

\* Who follows the protocol's description (main.cpp:478-516) gets type, size
\* and payload as they were, of messages of either byte order, compressed or
\* not, on both sides of 4 GB.
MessageReadable == result # "running" =>
  \A endianness \in Order, type \in MessageByte :
    LET w == Sent(endianness, type)
    IN  w[2] = type /\ SizeOf(w) = Len(w) /\ Unpacked(w) = in
=============================================================================
