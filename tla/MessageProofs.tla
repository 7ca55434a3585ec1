--------------------------- MODULE MessageProofs ---------------------------
(***************************************************************************)
(* A message on its way to the wire.                                       *)
(*                                                                         *)
(* What a Buffer promises, for every machine, byte order, width and index: *)
(* a value that was written is read back, and writing disturbs no value    *)
(* that lies elsewhere, so that the fields of a header may be written in   *)
(* any order.                                                              *)
(*                                                                         *)
(* compress writes inside its buffer, keeps its place inside its payload   *)
(* and enters in its cache only what it has seen, for every payload, block *)
(* size and content of the uninitialised cache (an entry that nothing was  *)
(* put in may send it to read anywhere).  Room is looked at once a block,  *)
(* so the invariant says what the rest of the block may still need: two    *)
(* bytes for each token to come.  An entry is made one turn late, so the   *)
(* invariant of the cache says of the pair that waits what it says of the  *)
(* entries.                                                                *)
(*                                                                         *)
(* Whatever has been written can be read back at any time.  The header of  *)
(* the open block is not yet written, so the invariant speaks of all that  *)
(* it may still become: under each of them the reader comes to a state     *)
(* with the payload's bytes so far, the writer's place in the block and    *)
(* the writer's cache.                                                     *)
(*                                                                         *)
(* The bytes of a number are its digits, so that reading them in the order *)
(* they were put in gives it back; a header has each of its fields in its  *)
(* place; and compress ends with the whole payload replayed.  So the       *)
(* reader of a message finds what send_impl was given.                     *)
(***************************************************************************)
EXTENDS Message, NumberFacts

-----------------------------------------------------------------------------
(* The buffer that a header is put together in.                            *)

IsBuffer(buf) == buf \in [bytes : Seq(Byte), endianness : Order]

LEMMA SwapIsSeq == ASSUME NEW t \in Seq(Byte)
                   PROVE /\ Swapped(t) \in Seq(Byte) /\ Len(Swapped(t)) = Len(t)
                         /\ \A i \in 1..Len(t) : Swapped(t)[i] = t[Len(t) + 1 - i]
<1>1. Len(t) \in Nat OBVIOUS
<1>2. \A i \in 1..Len(t) : Len(t) + 1 - i \in 1..Len(t) BY <1>1
<1>3. \A i \in 1..Len(t) : t[Len(t) + 1 - i] \in Byte BY <1>2
<1>4. Swapped(t) \in [1..Len(t) -> Byte] BY <1>3 DEF Swapped
<1>5. Swapped(t) \in Seq(Byte) /\ Len(Swapped(t)) = Len(t) BY <1>1, <1>4
<1>. QED BY <1>5 DEF Swapped

\* Turning a value into a byte order and back again leaves it as it was.
LEMMA ToNativeTwice == ASSUME NEW t \in Seq(Byte), NEW o
                       PROVE /\ to_native_endian(t, o) \in Seq(Byte)
                             /\ Len(to_native_endian(t, o)) = Len(t)
                             /\ to_native_endian(to_native_endian(t, o), o) = t
<1>1. CASE o = Native \/ Len(t) = 1
  BY <1>1 DEF to_native_endian
<1>2. CASE ~(o = Native \/ Len(t) = 1)
  <2>. DEFINE u == Swapped(t)
  <2>1. /\ u \in Seq(Byte) /\ Len(u) = Len(t)
        /\ \A i \in 1..Len(t) : u[i] = t[Len(t) + 1 - i]
    BY SwapIsSeq
  <2>2. /\ Swapped(u) \in Seq(Byte) /\ Len(Swapped(u)) = Len(t)
        /\ \A i \in 1..Len(t) : Swapped(u)[i] = u[Len(t) + 1 - i]
    BY <2>1, SwapIsSeq
  <2>3. \A i \in 1..Len(t) : Swapped(u)[i] = t[i]
    <3>. TAKE i \in 1..Len(t)
    <3>1. Len(t) \in Nat OBVIOUS
    <3>2. Len(t) + 1 - i \in 1..Len(t) /\ Len(t) + 1 - (Len(t) + 1 - i) = i BY <3>1
    <3>3. Swapped(u)[i] = u[Len(t) + 1 - i] BY <2>2
    <3>4. u[Len(t) + 1 - i] = t[Len(t) + 1 - (Len(t) + 1 - i)] BY <2>1, <3>2
    <3>. QED BY <3>2, <3>3, <3>4
  <2>4. Swapped(u) = t BY <2>2, <2>3
  <2>. QED BY <1>2, <2>1, <2>4 DEF to_native_endian
<1>. QED BY <1>1, <1>2

\* What a write leaves in each place.
LEMMA WriteBytes ==
  ASSUME NEW buf, IsBuffer(buf), NEW value \in Seq(Byte), NEW idx, Fits(buf, Len(value), idx)
  PROVE  LET new == write_at(buf, value, idx)
             raw == to_native_endian(value, buf.endianness)
         IN  /\ IsBuffer(new) /\ Len(new.bytes) = Len(buf.bytes)
             /\ new.endianness = buf.endianness
             /\ \A i \in 1..Len(buf.bytes) :
                  new.bytes[i] = IF i - idx \in 1..Len(value) THEN raw[i - idx] ELSE buf.bytes[i]
<1>. DEFINE raw == to_native_endian(value, buf.endianness)
            fun == [i \in 1..Len(buf.bytes) |->
                      IF i - idx \in 1..Len(value) THEN raw[i - idx] ELSE buf.bytes[i]]
            new == write_at(buf, value, idx)
<1>1. raw \in Seq(Byte) /\ Len(raw) = Len(value) BY ToNativeTwice
<1>2. buf.bytes \in Seq(Byte) /\ Len(buf.bytes) \in Nat BY DEF IsBuffer
<1>3. \A i \in 1..Len(buf.bytes) : fun[i] \in Byte
  <2>. HIDE DEF raw
  <2>. QED BY <1>1, <1>2
<1>4. fun \in Seq(Byte) /\ Len(fun) = Len(buf.bytes)
  <2>1. fun \in [1..Len(buf.bytes) -> Byte] BY <1>3
  <2>. QED BY <1>2, <2>1
<1>5. new = [bytes |-> fun, endianness |-> buf.endianness]
  <2>. HIDE DEF fun
  <2>1. new = [buf EXCEPT !.bytes = fun] BY DEF write_at, fun
  <2>. QED BY <2>1 DEF IsBuffer
<1>6. new.bytes = fun /\ new.endianness = buf.endianness BY <1>5
<1>7. IsBuffer(new)
  <2>. HIDE DEF new, fun
  <2>. QED BY <1>4, <1>5, <1>6 DEF IsBuffer
<1>. QED BY <1>4, <1>6, <1>7

LEMMA ReadBytes ==
  ASSUME NEW bytes \in Seq(Byte), NEW raw \in Seq(Byte), NEW idx \in Nat,
         idx + Len(raw) <= Len(bytes), \A i \in 1..Len(raw) : bytes[idx + i] = raw[i]
  PROVE  [i \in 1..Len(raw) |-> bytes[idx + i]] = raw
<1>. DEFINE f == [i \in 1..Len(raw) |-> bytes[idx + i]]
<1>1. Len(raw) \in Nat /\ raw \in [1..Len(raw) -> Byte] OBVIOUS
<1>2. \A i \in 1..Len(raw) : f[i] = raw[i] OBVIOUS
<1>. QED BY <1>1, <1>2

\* A value that was written is read back, whatever the machine's order, the
\* buffer's and the width of the value ("Write to buffer in buffer specified
\* endianness", "get result in machine native endianness", main.cpp:168-220).
THEOREM ReadBack ==
  \A buf, idx : \A value \in Seq(Byte) :
    IsBuffer(buf) /\ Fits(buf, Len(value), idx) =>
      read_at(write_at(buf, value, idx), Len(value), idx) = value
<1>. SUFFICES ASSUME NEW buf, NEW value \in Seq(Byte), NEW idx,
                     IsBuffer(buf), Fits(buf, Len(value), idx)
              PROVE  read_at(write_at(buf, value, idx), Len(value), idx) = value
  OBVIOUS
<1>. DEFINE raw == to_native_endian(value, buf.endianness)
            new == write_at(buf, value, idx)
<1>1. raw \in Seq(Byte) /\ Len(raw) = Len(value) BY ToNativeTwice
<1>2. /\ new.bytes \in Seq(Byte) /\ Len(new.bytes) = Len(buf.bytes)
      /\ new.endianness = buf.endianness
      /\ \A i \in 1..Len(buf.bytes) :
           new.bytes[i] = IF i - idx \in 1..Len(value) THEN raw[i - idx] ELSE buf.bytes[i]
  BY WriteBytes DEF IsBuffer
<1>3. idx \in Nat /\ idx + Len(value) <= Len(buf.bytes) /\ Len(value) \in Nat
  BY DEF Fits
<1>. HIDE DEF raw, new
<1>4. \A i \in 1..Len(raw) : new.bytes[idx + i] = raw[i]
  <2>. TAKE i \in 1..Len(raw)
  <2>1. idx + i \in 1..Len(buf.bytes) /\ (idx + i) - idx = i
    BY <1>1, <1>2, <1>3 DEF IsBuffer
  <2>. QED BY <1>1, <1>2, <2>1
<1>5. [i \in 1..Len(raw) |-> new.bytes[idx + i]] = raw
  BY <1>1, <1>2, <1>3, <1>4, ReadBytes
<1>6. read_at(new, Len(value), idx) = to_native_endian(raw, buf.endianness)
  BY <1>1, <1>2, <1>5 DEF read_at
<1>7. to_native_endian(raw, buf.endianness) = value BY ToNativeTwice DEF raw
<1>. QED BY <1>6, <1>7 DEF new

\* Writing leaves every value that does not overlap as it was: send_impl
\* writes the sizes after and between the fields of one byte (main.cpp:763-792).
THEOREM WriteIsLocal ==
  \A buf, idx, at : \A value \in Seq(Byte), size \in Nat :
    /\ IsBuffer(buf) /\ Fits(buf, Len(value), idx) /\ Fits(buf, size, at)
    /\ at + size <= idx \/ idx + Len(value) <= at
    => read_at(write_at(buf, value, idx), size, at) = read_at(buf, size, at)
<1>. SUFFICES ASSUME NEW buf, NEW value \in Seq(Byte), NEW idx, NEW size \in Nat, NEW at,
                     IsBuffer(buf), Fits(buf, Len(value), idx), Fits(buf, size, at),
                     at + size <= idx \/ idx + Len(value) <= at
              PROVE  read_at(write_at(buf, value, idx), size, at) = read_at(buf, size, at)
  OBVIOUS
<1>. DEFINE raw == to_native_endian(value, buf.endianness)
            new == write_at(buf, value, idx)
<1>1. /\ new.endianness = buf.endianness
      /\ \A i \in 1..Len(buf.bytes) :
           new.bytes[i] = IF i - idx \in 1..Len(value) THEN raw[i - idx] ELSE buf.bytes[i]
  BY WriteBytes
<1>2. /\ idx \in Nat /\ at \in Nat /\ Len(value) \in Nat /\ Len(buf.bytes) \in Nat
      /\ idx + Len(value) <= Len(buf.bytes) /\ at + size <= Len(buf.bytes)
  BY DEF Fits, IsBuffer
<1>. HIDE DEF raw, new
<1>3. \A i \in 1..size : new.bytes[at + i] = buf.bytes[at + i]
  <2>. TAKE i \in 1..size
  <2>1. at + i \in 1..Len(buf.bytes) /\ (at + i) - idx \notin 1..Len(value) BY <1>2
  <2>. QED BY <1>1, <2>1
<1>4. [i \in 1..size |-> new.bytes[at + i]] = [i \in 1..size |-> buf.bytes[at + i]]
  BY <1>3
<1>. QED BY <1>1, <1>4 DEF read_at, new

-----------------------------------------------------------------------------
(* The room that compress has.                                             *)

IsSeq(s) == \E S : s \in Seq(S)

RoomLeft == /\ bit \in 0..Bits
            /\ Len(out) + 2 * (Bits - bit) <= out_length

IInv == in \in Payload /\ IsSeq(out) /\ RoomLeft

LEMMA LengthIsNat == ASSUME NEW s, IsSeq(s) PROVE Len(s) \in Nat
BY DEF IsSeq

LEMMA AppendIsSeq == ASSUME NEW s, IsSeq(s), NEW x
                     PROVE IsSeq(Append(s, x)) /\ Len(Append(s, x)) = Len(s) + 1
<1>1. PICK S : s \in Seq(S) BY DEF IsSeq
<1>2. s \in Seq(S \cup {x}) BY <1>1
<1>3. Append(s, x) \in Seq(S \cup {x}) /\ Len(Append(s, x)) = Len(s) + 1 BY <1>2
<1>. QED BY <1>3 DEF IsSeq

\* A token that is a run takes two bytes.
LEMMA PairIsSeq == ASSUME NEW s, IsSeq(s), NEW x, NEW y
                   PROVE IsSeq(s \o <<x, y>>) /\ Len(s \o <<x, y>>) = Len(s) + 2
<1>1. PICK S : s \in Seq(S) BY DEF IsSeq
<1>. DEFINE T == S \cup {x, y}
<1>2. s \in Seq(T) /\ <<x, y>> \in Seq(T) BY <1>1
<1>3. s \o <<x, y>> \in Seq(T) /\ Len(s \o <<x, y>>) = Len(s) + 2 BY <1>2
<1>. QED BY <1>3 DEF IsSeq

\* Going back to a block's header does not change how much is written.
LEMMA HeaderIsSeq == ASSUME IsSeq(out)
                     PROVE IsSeq(WithHeader) /\ Len(WithHeader) = Len(out)
<1>1. PICK S : out \in Seq(S) BY DEF IsSeq
<1>. DEFINE T == S \cup {current_block_header}
<1>2. out \in Seq(T) BY <1>1
<1>3. WithHeader \in Seq(T) /\ Len(WithHeader) = Len(out) BY <1>2 DEF WithHeader
<1>. QED BY <1>3 DEF IsSeq

LEMMA RoomLeftInit == Init => IInv
<1>1. ASSUME Init PROVE IInv
  <2>1. in \in Payload /\ in \in Seq(Byte) BY <1>1, CompressAssumption DEF Init
  <2>2. out = <<>> /\ out \in Seq(Byte) /\ Len(out) = 0 BY <1>1 DEF Init
  <2>3. Len(in) \in Nat BY <2>1
  <2>4. 0 <= out_length BY <2>3 DEF out_length, in_length
  <2>5. bit = Bits /\ Bits \in Nat BY <1>1, CompressAssumption DEF Init
  <2>. QED BY <2>1, <2>2, <2>4, <2>5 DEF IInv, IsSeq, RoomLeft
<1>. QED BY <1>1

LEMMA RoomLeftStep == IInv /\ [Next]_cvars => IInv'
<1>. SUFFICES ASSUME IInv, [Next]_cvars PROVE IInv'
  OBVIOUS
<1>0. /\ in \in Payload /\ IsSeq(out) /\ bit \in 0..Bits
      /\ Len(out) \in Nat /\ Bits \in Nat /\ Slack \in Nat /\ Slack >= 2 * Bits + 1
      /\ Len(out) + 2 * (Bits - bit) <= out_length
  BY CompressAssumption, LengthIsNat DEF IInv, RoomLeft
<1>1. out_length \in Nat
  <2>1. Len(in) \in Nat BY <1>0, CompressAssumption
  <2>. QED BY <2>1 DEF out_length, in_length
<1>2. CASE GiveUp
  BY <1>2, <1>0 DEF GiveUp, IInv, RoomLeft, out_length, in_length
<1>3. CASE OpenBlock
  <2>1. IsSeq(out') /\ Len(out') = Len(out) + 1
    BY <1>3, <1>0, HeaderIsSeq, AppendIsSeq DEF OpenBlock
  <2>2. in' = in /\ bit' = 0 /\ Len(out) <= out_length - Slack
    BY <1>3 DEF OpenBlock, HasRoom
  <2>3. out_length' = out_length BY <2>2 DEF out_length, in_length
  <2>. QED BY <1>0, <1>1, <2>1, <2>2, <2>3 DEF IInv, RoomLeft
<1>4. CASE Literal
  <2>1. IsSeq(out') /\ Len(out') = Len(out) + 1
    BY <1>4, <1>0, AppendIsSeq DEF Literal
  <2>2. in' = in /\ bit' = bit + 1 /\ bit < Bits BY <1>4 DEF Literal
  <2>3. out_length' = out_length BY <2>2 DEF out_length, in_length
  <2>. QED BY <1>0, <1>1, <2>1, <2>2, <2>3 DEF IInv, RoomLeft
<1>5. CASE Run
  <2>1. IsSeq(out') /\ Len(out') = Len(out) + 2
    BY <1>5, <1>0, PairIsSeq DEF Run
  <2>2. in' = in /\ bit' = bit + 1 /\ bit < Bits BY <1>5 DEF Run
  <2>3. out_length' = out_length BY <2>2 DEF out_length, in_length
  <2>. QED BY <1>0, <1>1, <2>1, <2>2, <2>3 DEF IInv, RoomLeft
<1>6. CASE Finish
  <2>1. IsSeq(out') /\ Len(out') = Len(out)
    BY <1>6, <1>0, HeaderIsSeq DEF Finish
  <2>2. in' = in /\ bit' = bit BY <1>6 DEF Finish
  <2>3. out_length' = out_length BY <2>2 DEF out_length, in_length
  <2>. QED BY <1>0, <1>1, <2>1, <2>2, <2>3 DEF IInv, RoomLeft
<1>7. CASE UNCHANGED cvars
  BY <1>7, <1>0 DEF cvars, IInv, RoomLeft, out_length, in_length
<1>. QED BY <1>2, <1>3, <1>4, <1>5, <1>6, <1>7 DEF Next

\* In no execution is a byte written past the malloc'ed buffer: 17 free bytes
\* are enough for a block (main.cpp:616-620), whatever the cache held.
THEOREM WritesWithinBuffer == Spec => []WithinBuffer
<1>1. IInv => WithinBuffer
  <2>1. ASSUME IInv PROVE WithinBuffer
    <3>1. Len(out) \in Nat /\ bit \in 0..Bits /\ Bits \in Nat
      BY <2>1, LengthIsNat, CompressAssumption DEF IInv, RoomLeft
    <3>2. in \in Seq(Byte) BY <2>1, CompressAssumption DEF IInv
    <3>3. out_length \in Nat
      <4>1. Len(in) \in Nat BY <3>2
      <4>. QED BY <4>1 DEF out_length, in_length
    <3>. QED BY <2>1, <3>1, <3>3 DEF IInv, RoomLeft, WithinBuffer
  <2>. QED BY <2>1
<1>. QED BY RoomLeftInit, RoomLeftStep, <1>1, PTL DEF Spec

-----------------------------------------------------------------------------
\* Types, positions and the cache.

\* The run is well defined: the code's inner loop stops at the first byte
\* that differs, or at the end of what it may look at.
LEMMA RunLengthExists ==
  ASSUME in \in Seq(Byte), NEW p \in Nat, NEW s \in Nat, s <= in_length
  PROVE  /\ RunLength(p, s) \in 0..(in_length - s)
         /\ RunLength(p, s) <= MaxRun
         /\ \A j \in 0..(RunLength(p, s) - 1) : In(p + j) = In(s + j)
<1>. DEFINE most == IF s + MaxRun < in_length THEN MaxRun ELSE in_length - s
            ends(n) == n = most \/ In(p + n) # In(s + n)
            run(n) == /\ \A j \in 0..(n - 1) : In(p + j) = In(s + j)
                      /\ ends(n)
            T == {n \in 0..most : ends(n)}
<1>1. in_length \in Nat BY DEF in_length
<1>2. most \in Nat /\ most <= in_length - s /\ most <= MaxRun
  BY <1>1, CompressAssumption
<1>3. T \in SUBSET Nat /\ T # {}
  <2>1. most \in T BY <1>2
  <2>. QED BY <2>1, <1>2
<1>4. PICK m \in T : \A k \in T : m <= k
  <2>. HIDE DEF T
  <2>. QED BY <1>3, LeastNumber
<1>5. m \in 0..most /\ ends(m) OBVIOUS
<1>6. ASSUME NEW j \in 0..(m - 1) PROVE In(p + j) = In(s + j)
  <2>1. j \in 0..most /\ ~(m <= j) BY <1>2, <1>5
  <2>2. j \notin T BY <1>4, <2>1, Zenon
  <2>. QED BY <2>1, <2>2
<1>7. \E n \in 0..most : run(n) BY <1>5, <1>6
<1>8. RunLength(p, s) = CHOOSE n \in 0..most : run(n) BY DEF RunLength
<1>9. RunLength(p, s) \in 0..most /\ run(RunLength(p, s))
  <2>. HIDE DEF run, most
  <2>. QED BY <1>7, <1>8, Zenon
<1>10. \A j \in 0..(RunLength(p, s) - 1) : In(p + j) = In(s + j) BY <1>9, Zenon
<1>11. RunLength(p, s) \in 0..(in_length - s) /\ RunLength(p, s) <= MaxRun
  <2>. HIDE DEF run, most
  <2>. QED BY <1>1, <1>2, <1>9, CompressAssumption
<1>. QED BY <1>10, <1>11

\* The byte that waits to enter the cache is the one just written, and its
\* xor is known unless it is one of the last two.
Waiting == in_idx_prev # 0 =>
             /\ in_idx_prev + 1 = in_idx
             /\ in_idx_prev + 2 < in_length =>
                  XorAt(in_idx_prev) = xor_offset_prev

CacheInv == IsSeq(out) /\ TypeOK /\ Waiting /\ CacheMeansSeen

LEMMA ByteAt == ASSUME in \in Seq(Byte), NEW i \in Nat, i < in_length
                PROVE In(i) \in Byte
BY DEF In, in_length

LEMMA CacheInit == Init => CacheInv
<1>. SUFFICES ASSUME Init PROVE CacheInv
  OBVIOUS
<1>1. in \in Seq(Byte) /\ Len(in) \in Nat BY CompressAssumption DEF Init
<1>2. TypeOK
  <2>1. xor_offset_cache \in [Byte -> Nat] BY CompressAssumption DEF Init
  <2>2. Len(out) = 0 BY DEF Init
  <2>. QED BY <1>1, <2>1, <2>2, CompressAssumption DEF Init, TypeOK
<1>3. IsSeq(out)
  <2>1. out \in Seq(Byte) BY DEF Init
  <2>. QED BY <2>1 DEF IsSeq
<1>4. Waiting BY DEF Init, Waiting
<1>5. CacheMeansSeen BY DEF Init, CacheMeansSeen
<1>. QED BY <1>2, <1>3, <1>4, <1>5 DEF CacheInv

\* The xor of the token that is written next.
LEMMA OffsetIs == ASSUME CacheInv, in_idx < in_length
                  PROVE /\ Offset \in Byte
                        /\ ~NearEnd => XorAt(in_idx) = Offset
<1>1. in \in Seq(Byte) /\ in_idx \in Nat /\ in_length \in Nat /\ xor_offset \in Byte
      /\ Xor \in [Byte \X Byte -> Byte]
  BY CompressAssumption DEF CacheInv, TypeOK, in_length
<1>2. CASE NearEnd BY <1>1, <1>2 DEF Offset
<1>3. CASE ~NearEnd
  <2>1. in_idx + 2 < in_length BY <1>1, <1>3 DEF NearEnd
  <2>2. In(in_idx) \in Byte /\ In(in_idx + 1) \in Byte BY <1>1, <2>1, ByteAt
  <2>3. XorAt(in_idx) \in Byte BY <1>1, <2>2 DEF XorAt
  <2>. QED BY <1>3, <2>3 DEF Offset
<1>. QED BY <1>2, <1>3

\* What is entered before the next byte is another earlier position.
LEMMA RememberIs ==
  ASSUME CacheInv, in_idx + 1 < in_length
  PROVE  /\ Remember \in [Byte -> Nat]
         /\ \A h \in Byte : Remember[h] \notin Stale =>
              Remember[h] < in_idx /\ XorAt(Remember[h]) = h
<1>1. /\ in_idx \in Nat /\ in_idx_prev \in Nat /\ in_length \in Nat
      /\ xor_offset_prev \in Byte /\ xor_offset_cache \in [Byte -> Nat]
      /\ in_idx_prev # 0 => in_idx_prev < in_idx /\ in_idx_prev + 2 < in_length
  BY CompressAssumption DEF CacheInv, TypeOK, Waiting, in_length
<1>2. \A h \in Byte : xor_offset_cache[h] \notin Stale =>
        xor_offset_cache[h] < in_idx
        /\ XorAt(xor_offset_cache[h]) = h
  BY <1>1 DEF CacheInv, CacheMeansSeen
<1>3. CASE in_idx_prev = 0 BY <1>1, <1>2, <1>3 DEF Remember
<1>4. CASE in_idx_prev # 0
  <2>1. XorAt(in_idx_prev) = xor_offset_prev
    BY <1>1, <1>4 DEF CacheInv, Waiting
  <2>2. Remember = [xor_offset_cache EXCEPT ![xor_offset_prev] = in_idx_prev]
    BY <1>4 DEF Remember
  <2>. QED BY <1>1, <1>2, <1>4, <2>1, <2>2
<1>. QED BY <1>3, <1>4

LEMMA RememberType == ASSUME CacheInv PROVE Remember \in [Byte -> Nat]
BY DEF CacheInv, TypeOK, Remember

LEMMA LiteralCache == CacheInv /\ Literal => CacheInv'
<1>. SUFFICES ASSUME CacheInv, Literal PROVE CacheInv'
  OBVIOUS
<1>1. /\ in' = in /\ in_idx' = in_idx + 1 /\ in_idx_prev' = in_idx
      /\ xor_offset' = Offset /\ xor_offset_prev' = Offset
      /\ xor_offset_cache' = Remember /\ out' = Append(out, In(in_idx))
      /\ bit' = bit + 1 /\ bit < Bits /\ header_idx' = header_idx /\ result' = result
      /\ in_idx < in_length
  BY DEF Literal, Working
<1>2. /\ in_idx \in Nat /\ in_length \in Nat /\ in_length = Len(in) /\ in_length' = in_length
      /\ \A i : XorAt(i)' = XorAt(i)
  BY <1>1, CompressAssumption DEF CacheInv, TypeOK, in_length, In, XorAt
<1>3. IsSeq(out') /\ Len(out') \in Nat BY <1>1, AppendIsSeq, LengthIsNat DEF CacheInv
<1>4. TypeOK'
  <2>1. Offset \in Byte /\ Remember \in [Byte -> Nat] BY <1>1, OffsetIs, RememberType
  <2>2. in_idx' \in 0..Len(in)' BY <1>1, <1>2
  <2>. QED BY <1>1, <1>2, <1>3, <2>1, <2>2, CompressAssumption DEF CacheInv, TypeOK
<1>5. Waiting'
  <2>1. in_idx + 2 < in_length => XorAt(in_idx) = Offset
    BY <1>1, <1>2, OffsetIs DEF NearEnd
  <2>. QED BY <1>1, <1>2, <2>1 DEF Waiting, In, XorAt, in_length
<1>6. CacheMeansSeen'
  <2>. SUFFICES ASSUME in_idx + 1 < in_length, NEW h \in Byte, Remember[h] \notin Stale
                PROVE  /\ Remember[h] < in_idx + 1
                       /\ XorAt(Remember[h]) = h
    BY <1>1 DEF CacheMeansSeen, In, XorAt, in_length
  <2>1. Remember[h] \in Nat /\ Remember[h] < in_idx
        /\ XorAt(Remember[h]) = h
    BY RememberIs
  <2>. QED BY <1>2, <2>1
<1>. QED BY <1>3, <1>4, <1>5, <1>6 DEF CacheInv

LEMMA RunCache == CacheInv /\ Run => CacheInv'
<1>. SUFFICES ASSUME CacheInv, Run PROVE CacheInv'
  OBVIOUS
<1>. DEFINE n == RunLength(Seen + 2, in_idx + 2)
<1>1. /\ in' = in /\ in_idx' = in_idx + 2 + n /\ in_idx_prev' = 0
      /\ xor_offset' = Offset /\ xor_offset_prev' = xor_offset_prev
      /\ xor_offset_cache' = [Remember EXCEPT ![Offset] = in_idx]
      /\ out' = out \o <<Offset, n>>
      /\ bit' = bit + 1 /\ bit < Bits /\ header_idx' = header_idx /\ result' = result
      /\ in_idx < in_length /\ ~NearEnd
  BY DEF Run, Working, InvalidateCache
<1>2. /\ in_idx \in Nat /\ in_length \in Nat /\ in_length = Len(in) /\ in_length' = in_length
      /\ in \in Seq(Byte) /\ xor_offset_cache \in [Byte -> Nat]
      /\ \A i : XorAt(i)' = XorAt(i)
  BY <1>1, CompressAssumption DEF CacheInv, TypeOK, in_length, In, XorAt
<1>3. in_idx + 2 < in_length BY <1>1, <1>2 DEF NearEnd
<1>4. Offset \in Byte /\ XorAt(in_idx) = Offset BY <1>1, OffsetIs
<1>5. n \in 0..(in_length - (in_idx + 2))
  <2>1. Seen \in Nat BY <1>2, <1>4 DEF Seen
  <2>2. Seen + 2 \in Nat /\ in_idx + 2 \in Nat /\ in_idx + 2 <= in_length BY <1>2, <1>3, <2>1
  <2>. QED BY <1>2, <2>2, RunLengthExists
<1>. HIDE DEF n
<1>6. IsSeq(out') /\ Len(out') \in Nat BY <1>1, PairIsSeq, LengthIsNat DEF CacheInv
<1>7. TypeOK'
  <2>1. Remember \in [Byte -> Nat] BY RememberType
  <2>2. in_idx' \in 0..Len(in)' BY <1>1, <1>2, <1>5
  <2>. QED BY <1>1, <1>2, <1>4, <1>6, <2>1, <2>2, CompressAssumption DEF CacheInv, TypeOK
<1>8. Waiting' BY <1>1 DEF Waiting
<1>9. CacheMeansSeen'
  <2>. DEFINE c == [Remember EXCEPT ![Offset] = in_idx]
  <2>. SUFFICES ASSUME NEW h \in Byte, c[h] \notin Stale
                PROVE  /\ c[h] < in_idx + 2 + n
                       /\ XorAt(c[h]) = h
    BY <1>1 DEF CacheMeansSeen, In, XorAt, in_length
  <2>1. Remember \in [Byte -> Nat]
        /\ (Remember[h] \notin Stale =>
             Remember[h] < in_idx /\ XorAt(Remember[h]) = h)
    <3>1. in_idx + 1 < in_length BY <1>2, <1>3
    <3>. QED BY <3>1, RememberIs
  <2>2. CASE h = Offset
    <3>1. c[h] = in_idx BY <1>4, <2>1, <2>2
    <3>. QED BY <1>2, <1>4, <1>5, <2>2, <3>1
  <2>3. CASE h # Offset
    <3>1. c[h] = Remember[h] /\ Remember[h] \in Nat BY <2>1, <2>3
    <3>. QED BY <1>2, <1>5, <2>1, <3>1
  <2>. QED BY <2>2, <2>3
<1>. QED BY <1>6, <1>7, <1>8, <1>9 DEF CacheInv

LEMMA CacheStep == CacheInv /\ [Next]_cvars => CacheInv'
<1>. SUFFICES ASSUME CacheInv, [Next]_cvars PROVE CacheInv'
  OBVIOUS
<1>1. IsSeq(out) /\ IsSeq(WithHeader) /\ Len(WithHeader) \in Nat /\ Len(out) \in Nat
      /\ Bits \in Nat
  BY HeaderIsSeq, LengthIsNat, CompressAssumption DEF CacheInv
<1>2. ASSUME UNCHANGED <<in, in_idx, in_idx_prev, xor_offset, xor_offset_prev, xor_offset_cache>>,
             IsSeq(out'), Len(out') \in Nat, header_idx' \in Nat, bit' \in 0..Bits,
             result' \in {"running", "compressed", "original"}
      PROVE  CacheInv'
  BY <1>2 DEF CacheInv, TypeOK, Waiting, CacheMeansSeen, In, XorAt, in_length
<1>3. header_idx \in Nat /\ bit \in 0..Bits /\ result \in {"running", "compressed", "original"}
  BY DEF CacheInv, TypeOK
<1>4. CASE GiveUp BY <1>1, <1>2, <1>3, <1>4 DEF GiveUp
<1>5. CASE OpenBlock
  <2>1. IsSeq(out') /\ Len(out') \in Nat /\ header_idx' \in Nat /\ bit' \in 0..Bits
    BY <1>1, <1>5, AppendIsSeq, LengthIsNat DEF OpenBlock
  <2>. QED BY <1>2, <1>3, <1>5, <2>1 DEF OpenBlock
<1>6. CASE Finish BY <1>1, <1>2, <1>3, <1>6 DEF Finish
<1>7. CASE UNCHANGED cvars BY <1>1, <1>2, <1>3, <1>7 DEF cvars
<1>. QED BY <1>4, <1>5, <1>6, <1>7, LiteralCache, RunCache DEF Next

\* The position never leaves the payload, runs included, and a block has at most
\* Bits tokens, for any payload and leftovers in the cache.  Where a leftover
\* sends a read of in[xor_offset_prev_idx] (main.cpp:629-633) is not bounded.
THEOREM PositionInPayload == Spec => []TypeOK
<1>1. CacheInv => TypeOK BY DEF CacheInv
<1>. QED BY <1>1, CacheInit, CacheStep, PTL DEF Spec

\* What compress reads from its cache is an earlier place of the same xor,
\* except where it reads what the memory held before.
THEOREM CacheIsRight == Spec => []CacheMeansSeen
<1>1. CacheInv => CacheMeansSeen BY DEF CacheInv
<1>. QED BY <1>1, CacheInit, CacheStep, PTL DEF Spec

-----------------------------------------------------------------------------
(* The reader's loop is well defined.                                      *)

\* The states of the reader, turn by turn: the function that Read speaks of.
Follows(g, w, length, n) ==
  \A k \in 0..n : g[k] = IF k = 0 THEN Reader ELSE Turn(w, length, g[k - 1])

\* The turns up to the n-th: of the numbers without them none is the least.
LEMMA TurnsExist ==
  ASSUME NEW w, NEW length, NEW n \in Nat
  PROVE  \E g : Follows(g, w, length, n)
<1>. DEFINE T == {c \in Nat : ~\E g : Follows(g, w, length, c)}
<1>1. T = {}
  <2>. SUFFICES ASSUME T # {} PROVE FALSE
    OBVIOUS
  <2>1. T \in SUBSET Nat OBVIOUS
  <2>2. PICK c \in T : \A k \in T : c <= k
    <3>. HIDE DEF T
    <3>. QED BY <2>1, LeastNumber
  <2>3. c \in Nat /\ ~\E g : Follows(g, w, length, c) BY <2>2
  <2>4. CASE c = 0
    <3>. DEFINE g == [k \in {0} |-> Reader]
    <3>1. Follows(g, w, length, 0) BY DEF Follows
    <3>. QED BY <2>3, <2>4, <3>1
  <2>5. CASE c # 0
    <3>1. c - 1 \in Nat /\ ~(c <= c - 1) BY <2>3, <2>5
    <3>2. c - 1 \notin T BY <2>2, <3>1, Zenon
    <3>3. PICK g : Follows(g, w, length, c - 1) BY <3>1, <3>2
    <3>. DEFINE h == [k \in 0..c |-> IF k = c THEN Turn(w, length, g[c - 1]) ELSE g[k]]
    <3>4. ASSUME NEW k \in 0..c
          PROVE  h[k] = IF k = 0 THEN Reader ELSE Turn(w, length, h[k - 1])
      <4>1. CASE k = c
        <5>1. h[k] = Turn(w, length, g[k - 1]) BY <4>1
        <5>2. k - 1 \in 0..c /\ k - 1 # c /\ k # 0 BY <2>3, <2>5, <4>1
        <5>3. h[k - 1] = g[k - 1] BY <5>2
        <5>. QED BY <5>1, <5>2, <5>3
      <4>2. CASE k # c
        <5>1. k \in 0..(c - 1) /\ h[k] = g[k] BY <2>3, <4>2
        <5>2. g[k] = IF k = 0 THEN Reader ELSE Turn(w, length, g[k - 1])
          BY <3>3, <5>1 DEF Follows
        <5>3. k # 0 => k - 1 \in 0..c /\ k - 1 # c BY <2>3, <5>1
        <5>4. k # 0 => h[k - 1] = g[k - 1] BY <5>3
        <5>. QED BY <5>1, <5>2, <5>4
      <4>. QED BY <4>1, <4>2
    <3>. HIDE DEF h
    <3>5. Follows(h, w, length, c) BY <3>4 DEF Follows
    <3>. QED BY <2>3, <3>5
  <2>. QED BY <2>4, <2>5
<1>2. n \notin T BY <1>1
<1>. QED BY <1>2

\* There is one way only.
LEMMA TurnsAgree ==
  ASSUME NEW w, NEW length, NEW m \in Nat, NEW n \in Nat,
         NEW g, Follows(g, w, length, m), NEW h, Follows(h, w, length, n),
         NEW k \in Nat, k <= m, k <= n
  PROVE  g[k] = h[k]
<1>. DEFINE T == {c \in Nat : c <= m /\ c <= n /\ g[c] # h[c]}
<1>1. T = {}
  <2>. SUFFICES ASSUME T # {} PROVE FALSE
    OBVIOUS
  <2>1. T \in SUBSET Nat OBVIOUS
  <2>2. PICK c \in T : \A j \in T : c <= j
    <3>. HIDE DEF T
    <3>. QED BY <2>1, LeastNumber
  <2>3. c \in 0..m /\ c \in 0..n /\ g[c] # h[c] BY <2>2
  <2>4. /\ g[c] = IF c = 0 THEN Reader ELSE Turn(w, length, g[c - 1])
        /\ h[c] = IF c = 0 THEN Reader ELSE Turn(w, length, h[c - 1])
    BY <2>3 DEF Follows
  <2>5. c # 0 BY <2>3, <2>4
  <2>6. ~(c <= c - 1) /\ c - 1 \in Nat /\ c - 1 <= m /\ c - 1 <= n BY <2>3, <2>5
  <2>7. c - 1 \notin T BY <2>2, <2>6, Zenon
  <2>8. g[c - 1] = h[c - 1] BY <2>6, <2>7
  <2>. QED BY <2>3, <2>4, <2>5, <2>8
<1>2. k \notin T BY <1>1
<1>. QED BY <1>2

States(w, length) == [k \in Nat |-> (CHOOSE g : Follows(g, w, length, k))[k]]

\* What Read returns is what the turns lead to.
LEMMA ReadTurns ==
  ASSUME NEW w, NEW length \in Nat, NEW g, Follows(g, w, length, length)
  PROVE  Read(w, length) = g[length].dst
<1>. DEFINE G(k) == CHOOSE f : Follows(f, w, length, k)
            F == States(w, length)
            Step(f) == [k \in Nat |-> IF k = 0 THEN Reader ELSE Turn(w, length, f[k - 1])]
<1>1. ASSUME NEW k \in Nat PROVE Follows(G(k), w, length, k)
  BY TurnsExist
<1>2. ASSUME NEW k \in Nat
      PROVE  F[k] = IF k = 0 THEN Reader ELSE Turn(w, length, F[k - 1])
  <2>1. F[k] = G(k)[k] BY DEF States
  <2>2. G(k)[k] = IF k = 0 THEN Reader ELSE Turn(w, length, G(k)[k - 1])
    <3>1. k \in 0..k OBVIOUS
    <3>. QED BY <1>1, <3>1 DEF Follows
  <2>3. ASSUME k # 0 PROVE G(k)[k - 1] = F[k - 1]
    <3>1. k - 1 \in Nat /\ k - 1 <= k BY <2>3
    <3>2. Follows(G(k), w, length, k) /\ Follows(G(k - 1), w, length, k - 1) BY <1>1, <3>1
    <3>. HIDE DEF G
    <3>3. G(k)[k - 1] = G(k - 1)[k - 1] BY <3>1, <3>2, TurnsAgree
    <3>4. F[k - 1] = G(k - 1)[k - 1] BY <3>1 DEF States, G
    <3>. QED BY <3>3, <3>4
  <2>. QED BY <2>1, <2>2, <2>3
<1>3. F = Step(F)
  <2>1. F = [k \in Nat |-> F[k]] BY DEF States
  <2>. HIDE DEF F
  <2>2. [k \in Nat |-> F[k]] = Step(F) BY <1>2
  <2>. QED BY <2>1, <2>2
<1>. DEFINE after == CHOOSE f : f = Step(f)
<1>4. after = Step(after)
  <2>. HIDE DEF F, Step
  <2>. QED BY <1>3
<1>5. Read(w, length) = after[length].dst BY DEF Read
<1>6. Follows(after, w, length, length)
  <2>. HIDE DEF after
  <2>1. \A k \in Nat : after[k] = IF k = 0 THEN Reader ELSE Turn(w, length, after[k - 1])
    BY <1>4
  <2>. QED BY <2>1 DEF Follows
<1>7. after[length] = g[length]
  <2>. HIDE DEF after
  <2>. QED BY <1>6, TurnsAgree
<1>. QED BY <1>5, <1>7

\* The wire w takes the reader to the state s, one byte at least a token.
Path(w, s, K, tr) ==
  /\ tr[0] = Reader /\ tr[K] = s /\ K <= Len(s.dst)
  /\ \A j \in 0..(K - 1) : /\ tr[j + 1] = ReadToken(w, tr[j])
                           /\ Len(tr[j].dst) \in 0..(Len(s.dst) - 1)
  /\ \A j \in 0..K : tr[j].d \in Nat /\ tr[j].d <= s.d

Reaches(w, s) == \E K \in Nat : \E tr : Path(w, s, K, tr)

\* Every wire takes the reader to its start ...
LEMMA ReachesStart == ASSUME NEW w PROVE Reaches(w, Reader)
<1>. DEFINE tr == [j \in {0} |-> Reader]
<1>1. Reader.dst = <<>> /\ Reader.d = 0 BY DEF Reader
<1>2. tr[0] = Reader OBVIOUS
<1>. HIDE DEF tr
<1>3. /\ \A j \in 0..(0 - 1) : /\ tr[j + 1] = ReadToken(w, tr[j])
                               /\ Len(tr[j].dst) \in 0..(Len(Reader.dst) - 1)
      /\ \A j \in 0..0 : tr[j].d \in Nat /\ tr[j].d <= Reader.d
  BY <1>1, <1>2
<1>4. 0 \in Nat /\ 0 <= Len(Reader.dst) BY <1>1
<1>. QED BY <1>2, <1>3, <1>4 DEF Reaches, Path

\* ... and on by a token.
LEMMA ReachesNext ==
  ASSUME NEW w, NEW s, Reaches(w, s), s.dst \in Seq(Byte), s.d \in Nat,
         NEW s2, s2 = ReadToken(w, s), s2.dst \in Seq(Byte), s2.d \in Nat, s.d <= s2.d,
         Len(s.dst) < Len(s2.dst)
  PROVE  Reaches(w, s2)
<1>0. PICK K \in Nat : \E tr : Path(w, s, K, tr) BY DEF Reaches
<1>1. PICK tr :
        /\ tr[0] = Reader /\ tr[K] = s /\ K <= Len(s.dst)
        /\ \A j \in 0..(K - 1) : /\ tr[j + 1] = ReadToken(w, tr[j])
                                 /\ Len(tr[j].dst) \in 0..(Len(s.dst) - 1)
        /\ \A j \in 0..K : tr[j].d \in Nat /\ tr[j].d <= s.d
  BY <1>0 DEF Path
<1>. DEFINE new == [j \in 0..(K + 1) |-> IF j = K + 1 THEN s2 ELSE tr[j]]
<1>2. /\ new[0] = Reader /\ new[K + 1] = s2 /\ new[K] = s
      /\ \A j \in 0..K : new[j] = tr[j]
  <2>1. 0 # K + 1 /\ 0 \in 0..(K + 1) /\ K \in 0..(K + 1) /\ K # K + 1 /\ K + 1 \in 0..(K + 1) OBVIOUS
  <2>. QED BY <1>1, <2>1
<1>. HIDE DEF new
<1>3. Len(s.dst) \in Nat /\ Len(s2.dst) \in Nat OBVIOUS
<1>4. ASSUME NEW j \in 0..((K + 1) - 1)
      PROVE  new[j + 1] = ReadToken(w, new[j]) /\ Len(new[j].dst) \in 0..(Len(s2.dst) - 1)
  <2>1. CASE j = K BY <1>2, <2>1
  <2>2. CASE j # K
    <3>1. j \in 0..(K - 1) /\ j \in 0..K /\ j + 1 \in 0..K BY <2>2
    <3>2. new[j] = tr[j] /\ new[j + 1] = tr[j + 1] BY <1>2, <3>1
    <3>3. tr[j + 1] = ReadToken(w, tr[j]) /\ Len(tr[j].dst) \in 0..(Len(s.dst) - 1) BY <1>1, <3>1
    <3>. DEFINE l == Len(new[j].dst) l1 == Len(s.dst) l2 == Len(s2.dst)
    <3>4. l \in 0..(l1 - 1) /\ l1 < l2 /\ l1 \in Nat /\ l2 \in Nat BY <1>3, <3>2, <3>3
    <3>. HIDE DEF l, l1, l2
    <3>5. l \in 0..(l2 - 1) BY <3>4
    <3>. QED BY <3>2, <3>3, <3>5 DEF l, l2
  <2>. QED BY <2>1, <2>2
<1>5. ASSUME NEW j \in 0..(K + 1) PROVE new[j].d \in Nat /\ new[j].d <= s2.d
  <2>1. CASE j = K + 1 BY <1>2, <2>1
  <2>2. CASE j # K + 1
    <3>1. j \in 0..K BY <2>2
    <3>2. new[j] = tr[j] /\ tr[j].d \in Nat /\ tr[j].d <= s.d BY <1>1, <1>2, <3>1
    <3>. QED BY <3>2
  <2>. QED BY <2>1, <2>2
<1>6. K + 1 \in Nat /\ K + 1 <= Len(s2.dst) BY <1>1, <1>3
<1>. QED BY <1>2, <1>4, <1>5, <1>6 DEF Reaches, Path

\* What the reader has not come to does not matter.
LEMMA TokenIsLocal ==
  ASSUME NEW w, NEW v, NEW s, s.d \in Nat,
         \A c \in 1..ReadToken(w, s).d : w[c] = v[c]
  PROVE  ReadToken(v, s) = ReadToken(w, s)
<1>. DEFINE due == s.i = Bits
            f(x) == IF due THEN x[s.d + 1] ELSE s.f
            i == IF due THEN 0 ELSE s.i
            d == IF due THEN s.d + 1 ELSE s.d
            run(x) == (f(x) \div 2^i) % 2 = 1
<1>1. ReadToken(w, s).d = d + (IF run(w) THEN 2 ELSE 1) BY DEF ReadToken
<1>2. d \in Nat OBVIOUS
<1>3. due => s.d + 1 \in 1..ReadToken(w, s).d
  <2>1. ASSUME due PROVE s.d + 1 \in 1..ReadToken(w, s).d
    <3>1. d = s.d + 1 BY <2>1
    <3>2. ReadToken(w, s).d >= d
      <4>. HIDE DEF d, run
      <4>. QED BY <1>1, <1>2
    <3>3. ReadToken(w, s).d \in Nat
      <4>. HIDE DEF d, run
      <4>. QED BY <1>1, <1>2
    <3>. HIDE DEF d
    <3>. QED BY <3>1, <3>2, <3>3
  <2>. QED BY <2>1
<1>4. f(v) = f(w) BY <1>3
<1>5. d + 1 \in 1..ReadToken(w, s).d /\ (run(w) => d + 2 \in 1..ReadToken(w, s).d)
  <2>. HIDE DEF d, run
  <2>. QED BY <1>1, <1>2
<1>6. v[d + 1] = w[d + 1] /\ (run(w) => v[d + 2] = w[d + 2]) BY <1>5
<1>7. run(v) = run(w) BY <1>4
<1>. DEFINE n(x) == IF run(x) THEN x[d + 2] ELSE 0
            two(x) == IF run(x) THEN CopyRun(s.dst, s.aa[x[d + 1]], 2) ELSE Append(s.dst, x[d + 1])
            all(x) == IF run(x) THEN CopyRun(two(x), s.aa[x[d + 1]] + 2, n(x)) ELSE two(x)
            q(x) == LET last == Len(two(x)) - 1 IN IF s.p < last THEN last ELSE s.p
<1>8. \A x : ReadToken(x, s) =
        [d |-> d + (IF run(x) THEN 2 ELSE 1), dst |-> all(x), aa |-> Noted(s.aa, s.p, two(x)),
         p |-> IF run(x) THEN Len(all(x)) ELSE q(x), f |-> f(x), i |-> i + 1]
  BY DEF ReadToken
<1>9. two(v) = two(w)
  <2>. HIDE DEF run, d
  <2>. QED BY <1>6, <1>7
<1>10. all(v) = all(w)
  <2>1. n(v) = n(w)
    <3>. HIDE DEF run, d
    <3>. QED BY <1>6, <1>7
  <2>. HIDE DEF run, d, two, n
  <2>. QED BY <1>6, <1>7, <1>9, <2>1
<1>11. q(v) = q(w)
  <2>. HIDE DEF two
  <2>. QED BY <1>9
<1>. HIDE DEF d, run, i, f, two, all, q
<1>. QED BY <1>4, <1>7, <1>8, <1>9, <1>10, <1>11

\* So two wires that agree up to where the reader is take it there alike.
LEMMA ReachesLocal ==
  ASSUME NEW w, NEW v, NEW s, Reaches(w, s), \A c \in 1..s.d : w[c] = v[c]
  PROVE  Reaches(v, s)
<1>0. PICK K \in Nat : \E tr : Path(w, s, K, tr) BY DEF Reaches
<1>1. PICK tr :
        /\ tr[0] = Reader /\ tr[K] = s /\ K <= Len(s.dst)
        /\ \A j \in 0..(K - 1) : /\ tr[j + 1] = ReadToken(w, tr[j])
                                 /\ Len(tr[j].dst) \in 0..(Len(s.dst) - 1)
        /\ \A j \in 0..K : tr[j].d \in Nat /\ tr[j].d <= s.d
  BY <1>0 DEF Path
<1>2. s.d \in Nat
  <2>1. K \in 0..K OBVIOUS
  <2>. QED BY <1>1, <2>1
<1>3. ASSUME NEW j \in 0..(K - 1) PROVE tr[j + 1] = ReadToken(v, tr[j])
  <2>1. j \in 0..K /\ j + 1 \in 0..K OBVIOUS
  <2>2. tr[j + 1] = ReadToken(w, tr[j]) BY <1>1
  <2>3. tr[j].d \in Nat /\ tr[j + 1].d \in Nat /\ tr[j + 1].d <= s.d BY <1>1, <2>1
  <2>4. \A c \in 1..tr[j + 1].d : c \in 1..s.d BY <1>2, <2>3
  <2>5. \A c \in 1..ReadToken(w, tr[j]).d : w[c] = v[c] BY <2>2, <2>4
  <2>. QED BY <2>2, <2>3, <2>5, TokenIsLocal, SMTT(20)
<1>4. Path(v, s, K, tr) BY <1>1, <1>3 DEF Path
<1>5. \E t : Path(v, s, K, t) BY <1>4
<1>. QED BY <1>0, <1>5 DEF Reaches

\* A state that the reader reaches is what it returns for as many bytes.
LEMMA ReachesRead ==
  ASSUME NEW w, NEW s, Reaches(w, s), Len(s.dst) \in Nat
  PROVE  Read(w, Len(s.dst)) = s.dst
<1>. DEFINE length == Len(s.dst)
<1>0. PICK K \in Nat : \E tr : Path(w, s, K, tr) BY DEF Reaches
<1>1. PICK tr :
        /\ tr[0] = Reader /\ tr[K] = s /\ K <= length
        /\ \A j \in 0..(K - 1) : /\ tr[j + 1] = ReadToken(w, tr[j])
                                 /\ Len(tr[j].dst) \in 0..(length - 1)
  BY <1>0 DEF Path
<1>2. length \in Nat /\ length >= length OBVIOUS
<1>. DEFINE g == [k \in 0..length |-> IF k <= K THEN tr[k] ELSE s]
<1>3. ASSUME NEW k \in 0..length PROVE g[k] = IF k <= K THEN tr[k] ELSE s
  OBVIOUS
<1>3a. Turn(w, length, s) = s BY <1>2 DEF Turn
<1>. HIDE DEF g
<1>4. ASSUME NEW k \in 0..length
      PROVE  g[k] = IF k = 0 THEN Reader ELSE Turn(w, length, g[k - 1])
  <2>1. CASE k = 0
    <3>1. k <= K BY <2>1
    <3>. QED BY <1>1, <1>3, <2>1, <3>1
  <2>2. CASE k # 0 /\ k <= K
    <3>1. k - 1 \in 0..(K - 1) /\ k - 1 \in 0..length /\ (k - 1) + 1 = k /\ k - 1 <= K BY <1>2, <2>2
    <3>2. g[k] = tr[k] /\ g[k - 1] = tr[k - 1] BY <1>3, <2>2, <3>1
    <3>3. tr[(k - 1) + 1] = ReadToken(w, tr[k - 1]) /\ Len(tr[k - 1].dst) \in 0..(length - 1) BY <1>1, <3>1
    <3>4. ~(Len(tr[k - 1].dst) >= length)
      <4>. HIDE DEF length
      <4>. QED BY <1>2, <3>3
    <3>5. Turn(w, length, tr[k - 1]) = ReadToken(w, tr[k - 1]) BY <3>4 DEF Turn
    <3>. QED BY <2>2, <3>1, <3>2, <3>3, <3>5
  <2>3. CASE ~(k <= K)
    <3>1. k - 1 \in 0..length /\ k # 0 /\ (k - 1 <= K => k - 1 = K) BY <1>2, <2>3
    <3>2. g[k] = s BY <1>3, <2>3
    <3>3. g[k - 1] = s
      <4>1. CASE k - 1 <= K BY <1>1, <1>3, <3>1, <4>1
      <4>2. CASE ~(k - 1 <= K) BY <1>3, <3>1, <4>2
      <4>. QED BY <4>1, <4>2
    <3>. QED BY <1>3a, <3>1, <3>2, <3>3
  <2>. QED BY <2>1, <2>2, <2>3
<1>5. Follows(g, w, length, length) BY <1>4 DEF Follows
<1>6. g[length] = s
  <2>1. length \in 0..length /\ (length <= K => length = K) BY <1>1, <1>2
  <2>2. CASE length <= K BY <1>1, <1>3, <2>1, <2>2
  <2>3. CASE ~(length <= K) BY <1>3, <2>1, <2>3
  <2>. QED BY <2>2, <2>3
<1>7. Read(w, length) = g[length].dst BY <1>2, <1>5, ReadTurns
<1>. QED BY <1>6, <1>7

-----------------------------------------------------------------------------
(* What a token adds to the bytes.                                         *)

\* The first n bytes of the payload.
LEMMA PrefixIs ==
  ASSUME in \in Seq(Byte), NEW x \in 0..in_length
  PROVE  /\ SubSeq(in, 1, x) \in Seq(Byte) /\ Len(SubSeq(in, 1, x)) = x
         /\ \A j \in 1..x : SubSeq(in, 1, x)[j] = in[j]
<1>1. in_length = Len(in) /\ Len(in) \in Nat BY DEF in_length
<1>2. \A j \in 1..x : in[j] \in Byte BY <1>1
<1>. QED BY <1>1, <1>2

\* A sequence that has those bytes is that prefix.
LEMMA PrefixFromElements ==
  ASSUME in \in Seq(Byte), NEW x \in 0..in_length, NEW s \in Seq(Byte), Len(s) = x,
         \A j \in 1..x : s[j] = in[j]
  PROVE  s = SubSeq(in, 1, x)
<1>1. /\ SubSeq(in, 1, x) \in Seq(Byte) /\ Len(SubSeq(in, 1, x)) = x
      /\ \A j \in 1..x : SubSeq(in, 1, x)[j] = in[j]
  BY PrefixIs
<1>. QED BY <1>1

\* The prefix grows by the next byte.
LEMMA PrefixAppend ==
  ASSUME in \in Seq(Byte), NEW x \in Nat, x < in_length
  PROVE  Append(SubSeq(in, 1, x), In(x)) = SubSeq(in, 1, x + 1)
<1>. DEFINE p == SubSeq(in, 1, x)
<1>1. in_length \in Nat BY DEF in_length
<1>2. p \in Seq(Byte) /\ Len(p) = x /\ \A j \in 1..x : p[j] = in[j]
  BY <1>1, PrefixIs
<1>. HIDE DEF p
<1>3. In(x) \in Byte /\ In(x) = in[x + 1] BY ByteAt DEF In
<1>4. Append(p, In(x)) \in Seq(Byte) /\ Len(Append(p, In(x))) = x + 1 BY <1>2, <1>3
<1>5. ASSUME NEW j \in 1..(x + 1) PROVE Append(p, In(x))[j] = in[j]
  <2>1. CASE j = x + 1 BY <1>2, <1>3, <2>1
  <2>2. CASE j # x + 1
    <3>1. j \in 1..x BY <2>2
    <3>. QED BY <1>2, <1>3, <3>1
  <2>. QED BY <2>1, <2>2
<1>6. x + 1 \in 0..in_length BY <1>1
<1>7. Append(p, In(x)) = SubSeq(in, 1, x + 1)
  <2>. DEFINE s == Append(p, In(x))
  <2>1. s \in Seq(Byte) /\ Len(s) = x + 1 /\ \A j \in 1..(x + 1) : s[j] = in[j] BY <1>4, <1>5
  <2>. HIDE DEF s
  <2>2. s = SubSeq(in, 1, x + 1) BY <1>6, <2>1, PrefixFromElements
  <2>. QED BY <2>2 DEF s
<1>. QED BY <1>7 DEF p

\* Bytes that repeat those a distance before them are periodic: a run that
\* reaches into itself only needs what stood there before it.
LEMMA Periodic ==
  ASSUME NEW r \in Nat, NEW x \in Nat, r < x, NEW n \in Nat,
         \A j \in 0..(n - 1) : In(r + j) = In(x + j)
  PROVE  \A j \in 0..(n - 1) : In(x + j) = In(r + (j % (x - r)))
<1>. DEFINE T == {c \in Nat : c < n /\ In(x + c) # In(r + (c % (x - r)))}
<1>1. T = {}
  <2>. SUFFICES ASSUME T # {} PROVE FALSE
    OBVIOUS
  <2>1. T \in SUBSET Nat OBVIOUS
  <2>2. PICK c \in T : \A j \in T : c <= j
    <3>. HIDE DEF T
    <3>. QED BY <2>1, LeastNumber
  <2>3. c \in Nat /\ c \in 0..(n - 1) /\ In(x + c) # In(r + (c % (x - r))) BY <2>2
  <2>. DEFINE P == x - r
  <2>4. P \in Nat /\ P > 0 /\ r + P = x OBVIOUS
  <2>5. CASE c < P
    <3>1. c % P = c BY <2>3, <2>4, <2>5, ModSmall
    <3>2. In(x + c) = In(r + c) BY <2>3
    <3>. QED BY <2>3, <3>1, <3>2
  <2>6. CASE c >= P
    <3>1. c - P \in Nat /\ (c - P) % P = c % P
      <4>. HIDE DEF P
      <4>. QED BY <2>3, <2>4, <2>6, ModShift
    <3>2. c - P < n /\ ~(c <= c - P)
      <4>. HIDE DEF P
      <4>. QED BY <2>3, <2>4
    <3>3. c - P \notin T BY <2>2, <3>2, Zenon
    <3>4. In(x + (c - P)) = In(r + ((c - P) % P)) BY <3>1, <3>2, <3>3
    <3>5. x + (c - P) = r + c BY <2>3
    <3>6. In(x + c) = In(r + c) BY <2>3
    <3>. QED BY <2>3, <3>1, <3>4, <3>5, <3>6
  <2>. QED BY <2>4, <2>3, <2>5, <2>6
<1>2. ASSUME NEW j \in 0..(n - 1) PROVE In(x + j) = In(r + (j % (x - r)))
  <2>1. j \in Nat /\ j < n OBVIOUS
  <2>2. j \notin T BY <1>1
  <2>. QED BY <2>1, <2>2
<1>. QED BY <1>2

\* The reader copies the bytes that the writer found repeated.
LEMMA CopyIs ==
  ASSUME in \in Seq(Byte), NEW r \in Nat, NEW x \in Nat, r < x, NEW n \in Nat, x + n <= in_length,
         \A j \in 0..(n - 1) : In(r + j) = In(x + j)
  PROVE  CopyRun(SubSeq(in, 1, x), r, n) = SubSeq(in, 1, x + n)
<1>. DEFINE p == SubSeq(in, 1, x)
            c == [j \in 1..n |-> IF r < Len(p) THEN p[r + 1 + ((j - 1) % (Len(p) - r))] ELSE 0]
<1>1. in_length \in Nat BY DEF in_length
<1>2. p \in Seq(Byte) /\ Len(p) = x /\ \A j \in 1..x : p[j] = in[j]
  BY <1>1, PrefixIs
<1>3. ASSUME NEW j \in 1..n PROVE c[j] = in[x + j] /\ in[x + j] \in Byte
  <2>. DEFINE m == (j - 1) % (x - r)
  <2>1. c[j] = p[r + 1 + m] BY <1>2
  <2>2. j - 1 \in 0..(n - 1) /\ j - 1 \in Nat OBVIOUS
  <2>3. m \in 0..((x - r) - 1)
    <3>. DEFINE P == x - r
                q == j - 1
    <3>1. P \in Nat /\ P > 0 /\ q \in Nat BY <2>2
    <3>. HIDE DEF P, q
    <3>2. q % P \in 0..(P - 1) BY <3>1, ModRange
    <3>. QED BY <3>2 DEF P, q
  <2>4. In(x + (j - 1)) = In(r + m) BY <2>2, Periodic
  <2>. HIDE DEF m
  <2>5. r + 1 + m \in 1..x /\ r + m + 1 = r + 1 + m /\ x + (j - 1) + 1 = x + j BY <2>3
  <2>6. p[r + 1 + m] = in[r + 1 + m] BY <1>2, <2>5
  <2>7. In(r + m) = in[r + 1 + m] /\ In(x + (j - 1)) = in[x + j] BY <2>5 DEF In
  <2>8. x + j \in 1..Len(in) BY <1>1 DEF in_length
  <2>9. in[x + j] \in Byte BY <2>8
  <2>10. c[j] = in[x + j]
    <3>. HIDE DEF c, p
    <3>. QED BY <2>1, <2>4, <2>6, <2>7, Zenon
  <2>. QED BY <2>9, <2>10
<1>4. c \in Seq(Byte) /\ Len(c) = n
  <2>1. c \in [1..n -> Byte] BY <1>3
  <2>. HIDE DEF c
  <2>. QED BY <2>1
<1>5. CopyRun(p, r, n) = p \o c BY DEF CopyRun
<1>. HIDE DEF p, c
<1>6. p \o c \in Seq(Byte) /\ Len(p \o c) = x + n BY <1>2, <1>4
<1>7. ASSUME NEW j \in 1..(x + n) PROVE (p \o c)[j] = in[j]
  <2>1. CASE j <= x
    <3>1. (p \o c)[j] = p[j] BY <1>2, <1>4, <2>1
    <3>2. j \in 1..x BY <2>1
    <3>. QED BY <1>2, <3>1, <3>2
  <2>2. CASE ~(j <= x)
    <3>1. (p \o c)[j] = c[j - x]
      <4>1. j \in 1..(Len(p) + Len(c)) /\ ~(j <= Len(p)) /\ j - x = j - Len(p) BY <1>2, <1>4, <2>2
      <4>. QED BY <1>2, <1>4, <4>1
    <3>2. j - x \in 1..n /\ x + (j - x) = j BY <2>2
    <3>. QED BY <1>3, <3>1, <3>2
  <2>. QED BY <2>1, <2>2
<1>8. x + n \in 0..in_length BY <1>1
<1>9. p \o c = SubSeq(in, 1, x + n)
  <2>. DEFINE s == p \o c
  <2>1. s \in Seq(Byte) /\ Len(s) = x + n /\ \A j \in 1..(x + n) : s[j] = in[j] BY <1>6, <1>7
  <2>. HIDE DEF s
  <2>2. s = SubSeq(in, 1, x + n) BY <1>8, <2>1, PrefixFromElements
  <2>. QED BY <2>2 DEF s
<1>. QED BY <1>5, <1>9 DEF p

-----------------------------------------------------------------------------
(* What a token enters in the reader's cache.                              *)

\* No position is due.
LEMMA NotedNone ==
  ASSUME NEW aa \in [Byte -> Nat], NEW p \in Nat, NEW dst, Len(dst) \in Nat, Len(dst) - 2 < p
  PROVE  Noted(aa, p, dst) = aa
<1>1. p..(Len(dst) - 2) = {} OBVIOUS
<1>. QED BY <1>1 DEF Noted

\* One position is due.
LEMMA NotedOne ==
  ASSUME NEW aa \in [Byte -> Nat], NEW p \in Nat, NEW dst, Len(dst) = p + 2,
         NEW h \in Byte, Xor[<<dst[p + 1], dst[p + 2]>>] = h
  PROVE  Noted(aa, p, dst) = [aa EXCEPT ![h] = p]
<1>1. p..(Len(dst) - 2) = {p} OBVIOUS
<1>2. ASSUME NEW g \in Byte
      PROVE  LET ps == {q \in p..(Len(dst) - 2) : Xor[<<dst[q + 1], dst[q + 2]>>] = g}
             IN  (IF ps = {} THEN aa[g] ELSE Max(ps)) = [aa EXCEPT ![h] = p][g]
  <2>1. CASE g = h
    <3>1. {q \in p..(Len(dst) - 2) : Xor[<<dst[q + 1], dst[q + 2]>>] = g} = {p} BY <1>1, <2>1
    <3>2. Max({p}) = p BY DEF Max
    <3>. QED BY <2>1, <3>1, <3>2
  <2>2. CASE g # h
    <3>1. {q \in p..(Len(dst) - 2) : Xor[<<dst[q + 1], dst[q + 2]>>] = g} = {} BY <1>1, <2>2
    <3>. QED BY <2>2, <3>1
  <2>. QED BY <2>1, <2>2
<1>3. [aa EXCEPT ![h] = p] = [g \in Byte |-> [aa EXCEPT ![h] = p][g]] OBVIOUS
<1>. QED BY <1>2, <1>3 DEF Noted

Put(o, h, F) == [o EXCEPT ![h] = F]

\* Two are: of the same xor the later one is kept.
LEMMA NotedTwo ==
  ASSUME NEW aa \in [Byte -> Nat], NEW p \in Nat, NEW dst, Len(dst) = p + 3,
         NEW h \in Byte, Xor[<<dst[p + 1], dst[p + 2]>>] = h,
         NEW k \in Byte, Xor[<<dst[p + 2], dst[p + 3]>>] = k
  PROVE  Noted(aa, p, dst) = Put(Put(aa, h, p), k, p + 1)
<1>. DEFINE new == [[aa EXCEPT ![h] = p] EXCEPT ![k] = p + 1]
            ps(g) == {q \in p..(Len(dst) - 2) : Xor[<<dst[q + 1], dst[q + 2]>>] = g}
<1>1. p..(Len(dst) - 2) = {p, p + 1} OBVIOUS
<1>2. (p + 1) + 1 = p + 2 /\ (p + 1) + 2 = p + 3 OBVIOUS
<1>3. ASSUME NEW g \in Byte PROVE (IF ps(g) = {} THEN aa[g] ELSE Max(ps(g))) = new[g]
  <2>0. \A q : q \in ps(g) <=> (q = p /\ h = g) \/ (q = p + 1 /\ k = g) BY <1>1, <1>2
  <2>. HIDE DEF ps
  <2>1. CASE g = k
    <3>1. p + 1 \in ps(g) /\ \A q \in ps(g) : p + 1 >= q BY <2>0, <2>1
    <3>2. \A q \in ps(g) : q >= p + 1 => q = p + 1 BY <2>0, <2>1
    <3>3. Max(ps(g)) = p + 1 BY <3>1, <3>2 DEF Max
    <3>4. ps(g) # {} /\ new[g] = p + 1 BY <2>1, <3>1
    <3>. QED BY <3>3, <3>4
  <2>2. CASE g # k /\ g = h
    <3>1. ps(g) = {p} BY <2>0, <2>2
    <3>2. Max({p}) = p BY DEF Max
    <3>3. new[g] = p BY <2>2
    <3>. QED BY <3>1, <3>2, <3>3
  <2>3. CASE g # k /\ g # h
    <3>1. ps(g) = {} BY <2>0, <2>3
    <3>2. new[g] = aa[g] BY <2>3
    <3>. QED BY <3>1, <3>2
  <2>. QED BY <2>1, <2>2, <2>3
<1>4. new = [g \in Byte |-> new[g]] OBVIOUS
<1>5. Noted(aa, p, dst) = [g \in Byte |-> IF ps(g) = {} THEN aa[g] ELSE Max(ps(g))] BY DEF Noted
<1>. HIDE DEF new, ps
<1>6. Noted(aa, p, dst) = [g \in Byte |-> new[g]] BY <1>3, <1>5
<1>. QED BY <1>4, <1>6 DEF new, Put

-----------------------------------------------------------------------------
(* The reader is where the writer is.                                      *)

BitOf(h, i) == (h \div 2^i) % 2

\* The wire with the header that the open block may still get.
Wire(F) == IF header_idx < Len(out) THEN [out EXCEPT ![header_idx + 1] = F] ELSE out

Agrees(F) == F \in Nat /\ \A i \in 0..(bit - 1) : BitOf(F, i) = BitOf(current_block_header, i)

\* The reader's state when it has read the tokens so far.  Its cache is the
\* writer's, and the byte that waits to enter the one waits to enter the
\* other; near the end nobody looks at it any more.
SameCache(s) == in_idx + 2 < in_length =>
  /\ s.aa = xor_offset_cache
  /\ \/ s.p = in_idx /\ in_idx_prev = 0
     \/ in_idx # 0 /\ s.p = in_idx - 1 /\ in_idx_prev = in_idx - 1

InStep(s, F) ==
  /\ s.dst = SubSeq(in, 1, in_idx)
  /\ IF bit = 0 THEN s.i = Bits /\ s.d = header_idx ELSE s.i = bit /\ s.d = Len(out)
  /\ bit \in 1..(Bits - 1) => s.f = F
  /\ SameCache(s)

Block == /\ current_block_header \in Nat /\ current_block_header < 2^bit
         /\ bit < Bits => header_idx < Len(out)
         /\ bit = 0 => Len(out) = header_idx + 1

ReplayInv == /\ CacheInv /\ Block
             /\ \A F : Agrees(F) => \E s : Reaches(Wire(F), s) /\ InStep(s, F)

\* One turn of the reader, from a header f and a bit i of it at the cell d:
\* a byte as it is ...
LEMMA LiteralToken ==
  ASSUME NEW w, NEW s, NEW f, NEW i, NEW d, NEW dst,
         f = IF s.i = Bits THEN w[s.d + 1] ELSE s.f,
         i = IF s.i = Bits THEN 0 ELSE s.i,
         d = IF s.i = Bits THEN s.d + 1 ELSE s.d,
         BitOf(f, i) = 0, dst = Append(s.dst, w[d + 1])
  PROVE  ReadToken(w, s) =
           [d |-> d + 1, dst |-> dst, aa |-> Noted(s.aa, s.p, dst),
            p |-> IF s.p < Len(dst) - 1 THEN Len(dst) - 1 ELSE s.p, f |-> f, i |-> i + 1]
<1>. DEFINE run == (f \div 2^i) % 2 = 1
            n == IF run THEN w[d + 2] ELSE 0
            two == IF run THEN CopyRun(s.dst, s.aa[w[d + 1]], 2) ELSE Append(s.dst, w[d + 1])
            all == IF run THEN CopyRun(two, s.aa[w[d + 1]] + 2, n) ELSE two
            q == LET last == Len(two) - 1 IN IF s.p < last THEN last ELSE s.p
<1>1. ReadToken(w, s) =
        [d |-> d + (IF run THEN 2 ELSE 1), dst |-> all, aa |-> Noted(s.aa, s.p, two),
         p |-> IF run THEN Len(all) ELSE q, f |-> f, i |-> i + 1]
  BY DEF ReadToken
<1>2. ~run BY DEF BitOf
<1>. HIDE DEF run
<1>. QED BY <1>1, <1>2

\* ... or a run.
IsRun(w, s, f, i, d, dst, all) ==
  /\ f = IF s.i = Bits THEN w[s.d + 1] ELSE s.f
  /\ i = IF s.i = Bits THEN 0 ELSE s.i
  /\ d = IF s.i = Bits THEN s.d + 1 ELSE s.d
  /\ BitOf(f, i) = 1 /\ dst = CopyRun(s.dst, s.aa[w[d + 1]], 2)
  /\ all = CopyRun(dst, s.aa[w[d + 1]] + 2, w[d + 2])

AfterRun(s, f, i, d, dst, all) ==
  [d |-> d + 2, dst |-> all, aa |-> Noted(s.aa, s.p, dst), p |-> Len(all), f |-> f, i |-> i + 1]

LEMMA RunToken ==
  ASSUME NEW w, NEW s, NEW f, NEW i, NEW d, NEW dst, NEW all, IsRun(w, s, f, i, d, dst, all)
  PROVE  ReadToken(w, s) = AfterRun(s, f, i, d, dst, all)
<1>0. /\ f = IF s.i = Bits THEN w[s.d + 1] ELSE s.f
      /\ i = IF s.i = Bits THEN 0 ELSE s.i
      /\ d = IF s.i = Bits THEN s.d + 1 ELSE s.d
      /\ BitOf(f, i) = 1 /\ dst = CopyRun(s.dst, s.aa[w[d + 1]], 2)
      /\ all = CopyRun(dst, s.aa[w[d + 1]] + 2, w[d + 2])
  BY DEF IsRun
<1>. DEFINE run == (f \div 2^i) % 2 = 1
            n == IF run THEN w[d + 2] ELSE 0
            two == IF run THEN CopyRun(s.dst, s.aa[w[d + 1]], 2) ELSE Append(s.dst, w[d + 1])
            more == IF run THEN CopyRun(two, s.aa[w[d + 1]] + 2, n) ELSE two
            q == LET last == Len(two) - 1 IN IF s.p < last THEN last ELSE s.p
<1>1. ReadToken(w, s) =
        [d |-> d + (IF run THEN 2 ELSE 1), dst |-> more, aa |-> Noted(s.aa, s.p, two),
         p |-> IF run THEN Len(more) ELSE q, f |-> f, i |-> i + 1]
  BY <1>0 DEF ReadToken
<1>2. run BY <1>0 DEF BitOf
<1>. HIDE DEF run
<1>. QED BY <1>0, <1>1, <1>2 DEF AfterRun

\* What the writer has entered when it has remembered the byte before.
LEMMA RememberNoted ==
  ASSUME CacheInv, Stale = {0}, in_idx + 2 < in_length, NEW s, SameCache(s)
  PROVE  /\ s.p \in Nat /\ s.aa \in [Byte -> Nat]
         /\ s.p = in_idx => Remember = s.aa
         /\ s.p # in_idx =>
              /\ in_idx # 0 /\ s.p = in_idx - 1 /\ XorAt(s.p) \in Byte
              /\ Remember = [s.aa EXCEPT ![XorAt(s.p)] = s.p]
<1>1. /\ in \in Seq(Byte) /\ in_idx \in Nat /\ in_length \in Nat
      /\ xor_offset_cache \in [Byte -> Nat] /\ xor_offset_prev \in Byte
      /\ Xor \in [Byte \X Byte -> Byte] /\ s.aa = xor_offset_cache
  BY CompressAssumption DEF CacheInv, TypeOK, in_length, SameCache
<1>2. CASE s.p = in_idx /\ in_idx_prev = 0 BY <1>1, <1>2 DEF Remember
<1>3. CASE in_idx # 0 /\ s.p = in_idx - 1 /\ in_idx_prev = in_idx - 1
  <2>1. s.p \in Nat /\ s.p # in_idx /\ s.p + 1 = in_idx BY <1>1, <1>3
  <2>2. XorAt(s.p) \in Byte
    <3>1. s.p < in_length /\ s.p + 1 \in Nat /\ s.p + 1 < in_length BY <1>1, <2>1
    <3>2. In(s.p) \in Byte /\ In(s.p + 1) \in Byte BY <1>1, <2>1, <3>1, ByteAt
    <3>. QED BY <1>1, <3>2 DEF XorAt
  <2>3. CASE s.p = 0
    <3>1. Remember = xor_offset_cache BY <1>3, <2>3 DEF Remember
    <3>2. ASSUME NEW h \in Byte PROVE xor_offset_cache[h] = 0
      <4>1. xor_offset_cache[h] \in Nat BY <1>1
      <4>2. in_idx = 1 /\ in_idx < in_length BY <1>1, <2>1, <2>3
      <4>3. xor_offset_cache[h] # 0 => xor_offset_cache[h] < in_idx
        BY <4>2 DEF CacheInv, CacheMeansSeen
      <4>. QED BY <4>1, <4>2, <4>3
    <3>3. [xor_offset_cache EXCEPT ![XorAt(s.p)] = 0] = xor_offset_cache
      <4>. DEFINE x == XorAt(s.p)
      <4>. HIDE DEF x
      <4>. QED BY <1>1, <3>2
    <3>. QED BY <1>1, <1>3, <2>1, <2>2, <2>3, <3>1, <3>3
  <2>4. CASE s.p # 0
    <3>1. XorAt(s.p) = xor_offset_prev
      BY <1>1, <1>3, <2>1, <2>4 DEF CacheInv, Waiting
    <3>2. Remember = [xor_offset_cache EXCEPT ![xor_offset_prev] = in_idx_prev]
      BY <1>3, <2>4 DEF Remember
    <3>. QED BY <1>1, <1>3, <2>1, <2>2, <3>1, <3>2
  <2>. QED BY <2>3, <2>4
<1>. QED BY <1>2, <1>3 DEF SameCache

\* From the state after the tokens so far, the next one is read under the
\* header of the open block.
LEMMA NextToken ==
  ASSUME ReplayInv, bit < Bits, NEW F, Agrees(F), NEW s, InStep(s, F), NEW w,
         w[header_idx + 1] = F
  PROVE  /\ F = IF s.i = Bits THEN w[s.d + 1] ELSE s.f
         /\ bit = IF s.i = Bits THEN 0 ELSE s.i
         /\ Len(out) = IF s.i = Bits THEN s.d + 1 ELSE s.d
         /\ s.d \in Nat /\ s.d <= Len(out)
<1>1. bit \in Nat /\ Bits \in Nat /\ Len(out) \in Nat /\ header_idx \in Nat
  BY CompressAssumption DEF ReplayInv, CacheInv, TypeOK
<1>2. CASE bit = 0
  <2>1. s.i = Bits /\ s.d = header_idx /\ Len(out) = header_idx + 1
    BY <1>2 DEF InStep, ReplayInv, Block
  <2>. QED BY <1>1, <1>2, <2>1
<1>3. CASE bit # 0
  <2>1. bit \in 1..(Bits - 1) BY <1>1, <1>3
  <2>2. s.i = bit /\ s.d = Len(out) /\ s.f = F BY <1>3, <2>1 DEF InStep
  <2>. QED BY <1>1, <1>3, <2>1, <2>2
<1>. QED BY <1>2, <1>3

\* What an update of one place looks like.
LEMMA ExceptAt ==
  ASSUME NEW f, NEW h \in DOMAIN f, NEW F, NEW c \in DOMAIN f, NEW g, g = [f EXCEPT ![h] = F]
  PROVE  g[c] = IF c = h THEN F ELSE f[c]
OBVIOUS


\* The wire grows by a byte, under whatever header it gets.
LEMMA WireLiteral ==
  ASSUME NEW S, NEW o \in Seq(S), NEW x, NEW F, NEW h \in 1..Len(o)
  PROVE  /\ Put(Append(o, x), h, F)[h] = F /\ Put(Append(o, x), h, F)[Len(o) + 1] = x
         /\ \A c \in 1..Len(o) : Put(o, h, F)[c] = Put(Append(o, x), h, F)[c]
<1>. DEFINE v == [o EXCEPT ![h] = F]
            w == [Append(o, x) EXCEPT ![h] = F]
<1>. DEFINE a == Append(o, x)
            T == S \cup {x, F}
<1>1. Len(o) \in Nat /\ o \in Seq(T) OBVIOUS
<1>2. /\ a \in Seq(T) /\ Len(a) = Len(o) + 1 /\ a[Len(o) + 1] = x
      /\ \A c \in 1..Len(o) : a[c] = o[c]
  BY <1>1
<1>. HIDE DEF a, T, v, w
<1>3. w = [a EXCEPT ![h] = F] /\ v = [o EXCEPT ![h] = F] BY DEF a, v, w
<1>4. w[h] = F /\ w[Len(o) + 1] = x /\ \A c \in 1..Len(o) : v[c] = w[c]
  BY <1>1, <1>2, <1>3
<1>. QED BY <1>4 DEF Put, v, w

\* It grows by two.
LEMMA WireRun ==
  ASSUME NEW S, NEW o \in Seq(S), NEW x, NEW y, NEW F, NEW h \in 1..Len(o)
  PROVE  /\ Put(o \o <<x, y>>, h, F)[h] = F /\ Put(o \o <<x, y>>, h, F)[Len(o) + 1] = x
         /\ Put(o \o <<x, y>>, h, F)[Len(o) + 2] = y
         /\ \A c \in 1..Len(o) : Put(o, h, F)[c] = Put(o \o <<x, y>>, h, F)[c]
<1>. DEFINE v == [o EXCEPT ![h] = F]
            w == [o \o <<x, y>> EXCEPT ![h] = F]
<1>. DEFINE b == o \o <<x, y>>
            T == S \cup {x, y, F}
<1>1. Len(o) \in Nat /\ o \in Seq(T) OBVIOUS
<1>2. /\ b \in Seq(T) /\ Len(b) = Len(o) + 2 /\ b[Len(o) + 1] = x /\ b[Len(o) + 2] = y
      /\ \A c \in 1..Len(o) : b[c] = o[c]
  <2>1. <<x, y>> \in Seq(T) /\ F \in T /\ Len(<<x, y>>) = 2 OBVIOUS
  <2>2. b \in Seq(T) /\ Len(b) = Len(o) + 2 BY <1>1, <2>1
  <2>. DEFINE p == <<x, y>>
  <2>3. p \in Seq(T) /\ p[1] = x /\ p[2] = y /\ 1 \in 1..Len(p) /\ 2 \in 1..Len(p) BY <2>1
  <2>. HIDE DEF p, T
  <2>4. \A c \in 1..Len(o) : (o \o p)[c] = o[c] BY <1>1, <2>3
  <2>5. \A k \in 1..Len(p) : (o \o p)[Len(o) + k] = p[k] BY <1>1, <2>3
  <2>. QED BY <2>2, <2>3, <2>4, <2>5 DEF p
<1>. HIDE DEF b, T, v, w
<1>3. w = [b EXCEPT ![h] = F] /\ v = [o EXCEPT ![h] = F] BY DEF b, v, w
<1>. DEFINE l == Len(o)
<1>4. /\ l \in Nat /\ h \in 1..l /\ b \in Seq(T) /\ Len(b) = l + 2
      /\ o \in Seq(T) /\ Len(o) = l
  BY <1>1, <1>2
<1>. HIDE DEF l
<1>5. h \in 1..Len(b) /\ l + 1 \in 1..Len(b) /\ l + 2 \in 1..Len(b) /\ h # l + 1 /\ h # l + 2
  BY <1>4
<1>6. DOMAIN b = 1..Len(b) /\ DOMAIN o = 1..Len(o) BY <1>4
<1>7. ASSUME NEW c \in 1..Len(b) PROVE w[c] = IF c = h THEN F ELSE b[c]
  <2>1. c \in DOMAIN b /\ h \in DOMAIN b BY <1>5, <1>6
  <2>. QED BY <1>3, <2>1, ExceptAt, Zenon
<1>8. ASSUME NEW c \in 1..l PROVE v[c] = w[c]
  <2>1. c \in 1..Len(b) /\ c \in 1..Len(o) /\ h \in 1..Len(o) BY <1>4
  <2>2. b[c] = o[c] BY <1>2 DEF l
  <2>3. v[c] = IF c = h THEN F ELSE o[c]
    <3>1. c \in DOMAIN o /\ h \in DOMAIN o BY <1>6, <2>1
    <3>. QED BY <1>3, <3>1, ExceptAt, Zenon
  <2>. QED BY <1>7, <2>1, <2>2, <2>3, Zenon
<1>9. w[h] = F /\ w[l + 1] = b[l + 1] /\ w[l + 2] = b[l + 2] BY <1>5, <1>7, Zenon
<1>. QED BY <1>2, <1>8, <1>9 DEF l, Put, v, w

\* Before the first block the reader has not started.
LEMMA ReplayInit ==
  ASSUME Stale = {0}, Bits <= 8, Init
  PROVE  ReplayInv
<1>1. CacheInv BY CacheInit
<1>2. /\ in \in Seq(Byte) /\ Len(in) \in Nat /\ Bits \in Nat \ {0} /\ bit = Bits
      /\ out = <<>> /\ header_idx = 0 /\ current_block_header = 0
      /\ in_idx = 0 /\ in_idx_prev = 0 /\ xor_offset_cache \in [Byte -> {0}]
  BY CompressAssumption DEF Init
<1>3. Block
  <2>1. 2^(Bits - 1) \in Nat \ {0} /\ 2^((Bits - 1) + 1) = 2 * 2^(Bits - 1)
    <3>1. Bits - 1 \in 0..7 BY <1>2
    <3>. QED BY <3>1, Powers
  <2>2. (Bits - 1) + 1 = Bits BY <1>2
  <2>3. 2^Bits > 0 BY <2>1, <2>2
  <2>4. ~(bit < Bits) /\ bit # 0 BY <1>2
  <2>. QED BY <1>2, <2>3, <2>4 DEF Block
<1>4. ASSUME NEW F PROVE Reaches(Wire(F), Reader) /\ InStep(Reader, F)
  <2>1. Reaches(Wire(F), Reader) BY ReachesStart
  <2>2. Reader.dst = <<>> /\ Reader.i = Bits /\ Reader.d = 0 /\ Reader.p = 0
        /\ Reader.aa = [h \in Byte |-> 0]
    BY DEF Reader
  <2>3. SubSeq(in, 1, 0) = <<>> BY <1>2
  <2>4. xor_offset_cache = [h \in Byte |-> 0] BY <1>2
  <2>5. bit # 0 /\ bit \notin 1..(Bits - 1) /\ Len(out) = 0 BY <1>2
  <2>6. SameCache(Reader) BY <1>2, <2>2, <2>4 DEF SameCache
  <2>. QED BY <1>2, <2>1, <2>2, <2>3, <2>5, <2>6 DEF InStep
<1>. QED BY <1>1, <1>3, <1>4 DEF ReplayInv

\* A header that is written as 0 takes no bit of what was read.
LEMMA ReplayOpenBlock ==
  ASSUME ReplayInv, OpenBlock, CacheInv'
  PROVE  ReplayInv'
<1>1. /\ bit = Bits /\ out' = Append(WithHeader, 0) /\ header_idx' = Len(out)
      /\ current_block_header' = 0 /\ bit' = 0
      /\ in' = in /\ in_idx' = in_idx /\ in_idx_prev' = in_idx_prev
      /\ xor_offset_cache' = xor_offset_cache
  BY DEF OpenBlock
<1>2. /\ Bits \in Nat \ {0} /\ Len(out) \in Nat
      /\ IsSeq(WithHeader) /\ Len(WithHeader) = Len(out)
  BY HeaderIsSeq, LengthIsNat, CompressAssumption DEF ReplayInv, CacheInv
<1>3. Len(out') = Len(out) + 1 BY <1>1, <1>2, AppendIsSeq
<1>4. Block'
  <2>1. 2^0 = 1 OBVIOUS
  <2>2. 0 < 2^bit' BY <1>1, <2>1
  <2>. QED BY <1>1, <1>2, <1>3, <2>2 DEF Block
<1>5. Agrees(current_block_header) BY DEF Agrees, ReplayInv, Block
<1>6. PICK s : Reaches(Wire(current_block_header), s) /\ InStep(s, current_block_header)
  BY <1>5 DEF ReplayInv
<1>7. Wire(current_block_header) = WithHeader BY DEF Wire, WithHeader
<1>8. s.i = Bits /\ s.d = Len(out) /\ s.dst = SubSeq(in, 1, in_idx) /\ SameCache(s)
  BY <1>1, <1>2, <1>6 DEF InStep
<1>9. ASSUME NEW F PROVE (Reaches(Wire(F), s) /\ InStep(s, F))'
  <2>1. Wire(F)' = [Append(WithHeader, 0) EXCEPT ![Len(out) + 1] = F]
    BY <1>1, <1>2, <1>3 DEF Wire
  <2>2. \A c \in 1..Len(out) : WithHeader[c] = [Append(WithHeader, 0) EXCEPT ![Len(out) + 1] = F][c]
    <3>1. PICK S : WithHeader \in Seq(S) BY <1>2 DEF IsSeq
    <3>. DEFINE o == WithHeader
                z == 0
    <3>2. o \in Seq(S) /\ Len(o) = Len(out) /\ Len(o) \in Nat BY <1>2, <3>1
    <3>. HIDE DEF o, z
    <3>3. \A c \in 1..Len(o) : [Append(o, z) EXCEPT ![Len(o) + 1] = F][c] = o[c]
      <4>1. Append(o, z) \in Seq(S \cup {z}) /\ Len(Append(o, z)) = Len(o) + 1 BY <3>2
      <4>2. \A c \in 1..Len(o) : Append(o, z)[c] = o[c] BY <3>2
      <4>. DEFINE a == Append(o, z)
      <4>. DEFINE T == S \cup {z}
      <4>3. a \in Seq(T) /\ Len(a) = Len(o) + 1 BY <4>1
      <4>. HIDE DEF a, T
      <4>4. \A c \in 1..Len(o) : [a EXCEPT ![Len(o) + 1] = F][c] = a[c] BY <3>2, <4>3
      <4>. QED BY <4>2, <4>4 DEF a
    <3>. QED BY <3>2, <3>3 DEF o, z
  <2>3. Reaches(Wire(F)', s) BY <1>6, <1>7, <1>8, <2>1, <2>2, ReachesLocal
  <2>4. SameCache(s)' BY <1>1, <1>8 DEF SameCache, in_length
  <2>5. bit' \notin 1..(Bits - 1) BY <1>1
  <2>6. InStep(s, F)' BY <1>1, <1>8, <2>4, <2>5 DEF InStep
  <2>. QED BY <2>3, <2>6
<1>. QED BY <1>4, <1>9 DEF ReplayInv

\* What leaves the wire and the positions as they are leaves the reader too.
LEMMA ReplayStays ==
  ASSUME ReplayInv, CacheInv',
         UNCHANGED <<in, in_idx, in_idx_prev, xor_offset_cache, header_idx,
                     current_block_header, bit>>,
         Len(out') = Len(out), \A F : Wire(F)' = Wire(F)
  PROVE  ReplayInv'
<1>1. Block' BY DEF ReplayInv, Block
<1>2. ASSUME NEW F, Agrees(F)' PROVE \E s : (Reaches(Wire(F), s) /\ InStep(s, F))'
  <2>1. Agrees(F) BY <1>2 DEF Agrees
  <2>2. PICK s : Reaches(Wire(F), s) /\ InStep(s, F) BY <2>1 DEF ReplayInv
  <2>3. InStep(s, F)' BY <2>2 DEF InStep, SameCache, in_length
  <2>4. Reaches(Wire(F)', s) BY <2>2
  <2>. QED BY <2>3, <2>4
<1>. QED BY <1>1, <1>2 DEF ReplayInv

\* What the invariant says of the open block, in one place.
LEMMA BlockFacts ==
  ASSUME ReplayInv, bit < Bits, Bits <= 8
  PROVE  /\ Bits \in Nat /\ bit \in 0..7 /\ Len(out) \in Nat /\ IsSeq(out) /\ header_idx \in Nat
         /\ in \in Seq(Byte) /\ in_idx \in Nat /\ in_length \in Nat /\ header_idx < Len(out)
         /\ current_block_header \in Nat /\ current_block_header < 2^bit
<1>1. Block /\ TypeOK /\ IsSeq(out) BY DEF ReplayInv, CacheInv
<1>2. Bits \in Nat /\ bit \in 0..Bits BY <1>1, CompressAssumption DEF TypeOK
<1>3. bit \in 0..7 BY <1>2
<1>4. in \in Seq(Byte) /\ in_length \in Nat BY <1>1, CompressAssumption DEF TypeOK, in_length
<1>5. in_idx \in Nat /\ header_idx \in Nat /\ Len(out) \in Nat BY <1>1 DEF TypeOK
<1>6. header_idx < Len(out) /\ current_block_header \in Nat /\ current_block_header < 2^bit
  BY <1>1 DEF Block
<1>. QED BY <1>1, <1>2, <1>3, <1>4, <1>5, <1>6

\* A byte that is written as it is, is read as it is, and both caches
\* take the pair before it.
LEMMA ReplayLiteral ==
  ASSUME ReplayInv, Literal, CacheInv', Stale = {0}, Bits <= 8
  PROVE  ReplayInv'
<1>1. /\ in_idx < in_length /\ bit < Bits
      /\ xor_offset_cache' = Remember /\ in_idx_prev' = in_idx
      /\ out' = Append(out, In(in_idx)) /\ in_idx' = in_idx + 1 /\ bit' = bit + 1
      /\ in' = in /\ header_idx' = header_idx /\ current_block_header' = current_block_header
  BY DEF Literal, Working
<1>2. /\ Bits \in Nat /\ bit \in 0..7 /\ Len(out) \in Nat /\ IsSeq(out) /\ header_idx \in Nat
      /\ in \in Seq(Byte) /\ in_idx \in Nat /\ in_length \in Nat /\ header_idx < Len(out)
      /\ current_block_header \in Nat /\ current_block_header < 2^bit
  BY <1>1, BlockFacts
<1>3. Len(out') = Len(out) + 1 BY <1>1, <1>2, AppendIsSeq
<1>4. BitOf(current_block_header, bit) = 0 /\ current_block_header < 2^(bit + 1)
  BY <1>2, NextBit DEF BitOf
<1>5. Block' BY <1>1, <1>2, <1>3, <1>4 DEF Block
<1>6. ASSUME NEW F, Agrees(F)' PROVE \E s : (Reaches(Wire(F), s) /\ InStep(s, F))'
  <2>. DEFINE w == [Append(out, In(in_idx)) EXCEPT ![header_idx + 1] = F]
  <2>1. F \in Nat /\ \A i \in 0..bit : BitOf(F, i) = BitOf(current_block_header, i)
    <3>1. bit' - 1 = bit BY <1>1, <1>2
    <3>. QED BY <1>1, <1>6, <3>1 DEF Agrees
  <2>2. Agrees(F) /\ BitOf(F, bit) = 0
    <3>1. \A i \in 0..(bit - 1) : i \in 0..bit BY <1>2
    <3>2. bit \in 0..bit BY <1>2
    <3>. QED BY <1>4, <2>1, <3>1, <3>2 DEF Agrees
  <2>3. PICK s : Reaches(Wire(F), s) /\ InStep(s, F) BY <2>2 DEF ReplayInv
  <2>4. Wire(F)' = w BY <1>1, <1>2, <1>3 DEF Wire
  <2>5. /\ w[header_idx + 1] = F /\ w[Len(out) + 1] = In(in_idx)
        /\ \A c \in 1..Len(out) : Wire(F)[c] = w[c]
    <3>1. PICK S : out \in Seq(S) BY <1>2 DEF IsSeq
    <3>2. header_idx + 1 \in 1..Len(out) BY <1>2
    <3>3. Wire(F) = [out EXCEPT ![header_idx + 1] = F] BY <1>2 DEF Wire
    <3>. DEFINE h == header_idx + 1
                x == In(in_idx)
                o == out
    <3>4. Wire(F) = Put(o, h, F) /\ w = Put(Append(o, x), h, F) /\ h \in 1..Len(o) /\ o \in Seq(S)
      BY <3>1, <3>2, <3>3 DEF Put
    <3>. HIDE DEF h, x, o, w
    <3>5. /\ w[h] = F /\ w[Len(o) + 1] = x
          /\ \A c \in 1..Len(o) : Wire(F)[c] = w[c]
      BY <3>4, WireLiteral
    <3>. QED BY <3>5 DEF h, x, o
  <2>. HIDE DEF w
  <2>6. /\ F = IF s.i = Bits THEN w[s.d + 1] ELSE s.f
        /\ bit = IF s.i = Bits THEN 0 ELSE s.i
        /\ Len(out) = IF s.i = Bits THEN s.d + 1 ELSE s.d
        /\ s.d \in Nat /\ s.d <= Len(out)
    BY <1>1, <2>2, <2>3, <2>5, NextToken
  <2>7. Reaches(w, s)
    <3>1. \A c \in 1..s.d : c \in 1..Len(out) BY <1>2, <2>6
    <3>. QED BY <2>3, <2>5, <3>1, ReachesLocal
  <2>. DEFINE dst == SubSeq(in, 1, in_idx + 1)
              s2 == [d |-> Len(out) + 1, dst |-> dst, aa |-> Noted(s.aa, s.p, dst),
                     p |-> IF s.p < Len(dst) - 1 THEN Len(dst) - 1 ELSE s.p,
                     f |-> F, i |-> bit + 1]
  <2>8. s.dst = SubSeq(in, 1, in_idx) /\ SameCache(s) BY <2>3 DEF InStep
  <2>9. Append(s.dst, w[Len(out) + 1]) = dst BY <1>1, <1>2, <2>5, <2>8, PrefixAppend
  <2>10. ReadToken(w, s) = s2
    <3>. DEFINE b == bit
                l == Len(out)
                a == Append(s.dst, w[l + 1])
    <3>1. /\ F = IF s.i = Bits THEN w[s.d + 1] ELSE s.f
          /\ b = IF s.i = Bits THEN 0 ELSE s.i
          /\ l = IF s.i = Bits THEN s.d + 1 ELSE s.d
          /\ BitOf(F, b) = 0 /\ a = dst
      BY <2>2, <2>6, <2>9
    <3>. HIDE DEF b, l, dst
    <3>2. ReadToken(w, s) = [d |-> l + 1, dst |-> a, aa |-> Noted(s.aa, s.p, a),
                             p |-> IF s.p < Len(a) - 1 THEN Len(a) - 1 ELSE s.p,
                             f |-> F, i |-> b + 1]
      BY <3>1, LiteralToken
    <3>. HIDE DEF a
    <3>. QED BY <3>1, <3>2 DEF b, l
  <2>11. dst \in Seq(Byte) /\ Len(dst) = in_idx + 1 /\ \A j \in 1..(in_idx + 1) : dst[j] = in[j]
    <3>1. in_idx + 1 \in 0..in_length BY <1>1, <1>2
    <3>. QED BY <1>2, <3>1, PrefixIs
  <2>12. s.dst \in Seq(Byte) /\ Len(s.dst) = in_idx
    <3>1. in_idx \in 0..in_length BY <1>1, <1>2
    <3>. QED BY <1>2, <2>8, <3>1, PrefixIs
  <2>. HIDE DEF dst
  <2>13. PICK t : /\ t = ReadToken(w, s)
                  /\ t.d = Len(out) + 1 /\ t.dst = dst /\ t.i = bit + 1 /\ t.f = F
                  /\ t.aa = Noted(s.aa, s.p, dst)
                  /\ t.p = IF s.p < Len(dst) - 1 THEN Len(dst) - 1 ELSE s.p
    BY <2>10
  <2>. HIDE DEF s2
  <2>14. Reaches(w, t)
    <3>1. t = ReadToken(w, s) /\ t.dst \in Seq(Byte) BY <2>10, <2>11, <2>13
    <3>2. t.d \in Nat /\ s.d <= t.d BY <1>2, <2>6, <2>13, SMTT(20)
    <3>3. Len(s.dst) < Len(t.dst) BY <1>2, <2>11, <2>12, <2>13
    <3>. QED BY <2>6, <2>7, <2>12, <3>1, <3>2, <3>3, ReachesNext
  <2>15. SameCache(t)'
    <3>0. /\ in_idx' # 0 /\ in_idx' - 1 = in_idx /\ in_length' = in_length
          /\ (in_idx' + 2 < in_length => in_idx + 3 < in_length)
      BY <1>1, <1>2 DEF in_length
    <3>. SUFFICES ASSUME in_idx + 3 < in_length
                  PROVE  t.aa = Remember /\ t.p = in_idx
      BY <1>1, <3>0 DEF SameCache
    <3>1. /\ s.p \in Nat /\ s.aa \in [Byte -> Nat]
          /\ s.p = in_idx => Remember = s.aa
          /\ s.p # in_idx =>
               /\ in_idx # 0 /\ s.p = in_idx - 1 /\ XorAt(s.p) \in Byte
               /\ Remember = [s.aa EXCEPT ![XorAt(s.p)] = s.p]
      <4>1. in_idx + 2 < in_length BY <1>2
      <4>. QED BY <2>8, <4>1, RememberNoted DEF ReplayInv
    <3>2. CASE s.p = in_idx
      <4>1. Len(dst) \in Nat /\ Len(dst) - 2 < s.p BY <1>2, <2>11, <3>2
      <4>2. Noted(s.aa, s.p, dst) = s.aa BY <3>1, <4>1, NotedNone
      <4>3. t.p = in_idx BY <1>2, <2>11, <2>13, <3>2
      <4>. QED BY <2>13, <3>1, <3>2, <4>2, <4>3
    <3>3. CASE s.p # in_idx
      <4>0. s.p = in_idx - 1 BY <3>1, <3>3
      <4>1. Len(dst) = s.p + 2 /\ s.p + 1 = in_idx /\ s.p + 1 \in 1..(in_idx + 1)
            /\ s.p + 2 \in 1..(in_idx + 1) /\ (s.p + 1) + 1 = s.p + 2
        BY <1>2, <2>11, <3>1, <4>0
      <4>2. Xor[<<dst[s.p + 1], dst[s.p + 2]>>] = XorAt(s.p)
        BY <2>11, <4>1 DEF XorAt, In
      <4>3. Noted(s.aa, s.p, dst) = [s.aa EXCEPT ![XorAt(s.p)] = s.p]
        <5>. DEFINE p == s.p
                    aa == s.aa
                    x == XorAt(s.p)
        <5>1. /\ p \in Nat /\ aa \in [Byte -> Nat] /\ x \in Byte /\ Len(dst) = p + 2
              /\ Xor[<<dst[p + 1], dst[p + 2]>>] = x
          BY <3>1, <3>3, <4>1, <4>2
        <5>. HIDE DEF p, aa, x
        <5>2. Noted(aa, p, dst) = [aa EXCEPT ![x] = p] BY <5>1, NotedOne
        <5>. QED BY <5>2 DEF p, aa, x
      <4>4. t.p = in_idx BY <1>2, <2>11, <2>13, <4>1, <3>1
      <4>. QED BY <2>13, <3>1, <3>3, <4>3, <4>4
    <3>. QED BY <3>2, <3>3
  <2>16. InStep(t, F)'
    <3>1. bit' # 0 /\ t.i = bit' /\ t.d = Len(out') BY <1>1, <1>2, <1>3, <2>13
    <3>2. t.dst = SubSeq(in, 1, in_idx)' BY <1>1, <2>13 DEF dst
    <3>. QED BY <2>13, <2>15, <3>1, <3>2 DEF InStep
  <2>17. Reaches(Wire(F)', t) BY <2>4, <2>14
  <2>. QED BY <2>16, <2>17
<1>. QED BY <1>5, <1>6 DEF ReplayInv

\* A run starts where the same two bytes stood before.
LEMMA RunStarts ==
  ASSUME ReplayInv, Run, Stale = {0}, Bits <= 8
  PROVE  /\ in_idx + 2 < in_length /\ Offset \in Byte /\ XorAt(in_idx) = Offset
         /\ Seen \in Nat /\ Seen < in_idx
         /\ \A j \in 0..1 : In(Seen + j) = In(in_idx + j)
<1>1. in_idx < in_length /\ bit < Bits /\ ~NearEnd /\ Seen # 0 /\ In(in_idx) = In(Seen)
  BY DEF Run, Working, InvalidateCache
<1>2. /\ in \in Seq(Byte) /\ in_idx \in Nat /\ in_length \in Nat
      /\ xor_offset_cache \in [Byte -> Nat]
  BY <1>1, BlockFacts DEF ReplayInv, CacheInv, TypeOK
<1>3. in_idx + 2 < in_length BY <1>1, <1>2 DEF NearEnd
<1>4. Offset \in Byte /\ XorAt(in_idx) = Offset BY <1>1, OffsetIs DEF ReplayInv
<1>5. Seen \in Nat BY <1>2, <1>4 DEF Seen
<1>6. Seen < in_idx /\ XorAt(Seen) = Offset
  BY <1>1, <1>4 DEF ReplayInv, CacheInv, CacheMeansSeen, Seen
<1>7. In(Seen + 1) = In(in_idx + 1)
  <2>1. In(in_idx) \in Byte /\ In(in_idx + 1) \in Byte /\ In(Seen + 1) \in Byte
    <3>1. Seen + 1 \in Nat /\ Seen + 1 < in_length /\ in_idx + 1 \in Nat /\ in_idx + 1 < in_length
      BY <1>2, <1>3, <1>5, <1>6
    <3>. QED BY <1>1, <1>2, <3>1, ByteAt
  <2>2. Xor[<<In(in_idx), In(Seen + 1)>>] = Xor[<<In(in_idx), In(in_idx + 1)>>]
    BY <1>1, <1>4, <1>6 DEF XorAt
  <2>. QED BY <2>1, <2>2, CompressAssumption
<1>8. ASSUME NEW j \in 0..1 PROVE In(Seen + j) = In(in_idx + j)
  <2>1. CASE j = 0
    <3>1. Seen + j = Seen /\ in_idx + j = in_idx BY <1>2, <1>5, <2>1
    <3>. QED BY <1>1, <3>1
  <2>2. CASE j = 1 BY <1>7, <2>2
  <2>. QED BY <2>1, <2>2
<1>. QED BY <1>3, <1>4, <1>5, <1>6, <1>8

\* A run copies what the writer found repeated, from the same entry.
LEMMA ReplayRun ==
  ASSUME ReplayInv, Run, CacheInv', Stale = {0}, Bits <= 8
  PROVE  ReplayInv'
<1>. DEFINE n == RunLength(Seen + 2, in_idx + 2)
<1>1. /\ in_idx < in_length /\ bit < Bits
      /\ xor_offset_cache' = [Remember EXCEPT ![Offset] = in_idx] /\ in_idx_prev' = 0
      /\ out' = out \o <<Offset, n>> /\ in_idx' = in_idx + 2 + n /\ bit' = bit + 1
      /\ in' = in /\ header_idx' = header_idx
      /\ current_block_header' = current_block_header + 2^bit
  BY DEF Run, Working
<1>2. /\ Bits \in Nat /\ bit \in 0..7 /\ Len(out) \in Nat /\ IsSeq(out) /\ header_idx \in Nat
      /\ in \in Seq(Byte) /\ in_idx \in Nat /\ in_length \in Nat /\ header_idx < Len(out)
      /\ current_block_header \in Nat /\ current_block_header < 2^bit
  BY <1>1, BlockFacts
<1>3. Len(out') = Len(out) + 2 BY <1>1, <1>2, PairIsSeq
<1>4. /\ BitOf(current_block_header', bit) = 1
      /\ current_block_header' \in Nat /\ current_block_header' < 2^(bit + 1)
      /\ \A i \in 0..(bit - 1) : BitOf(current_block_header', i) = BitOf(current_block_header, i)
  BY <1>1, <1>2, NextBit DEF BitOf
<1>5. Block' BY <1>1, <1>2, <1>3, <1>4 DEF Block
<1>6. /\ in_idx + 2 < in_length /\ Offset \in Byte /\ XorAt(in_idx) = Offset
      /\ Seen \in Nat /\ Seen < in_idx
      /\ \A j \in 0..1 : In(Seen + j) = In(in_idx + j)
  BY RunStarts
<1>7. /\ n \in 0..(in_length - (in_idx + 2))
      /\ \A j \in 0..(n - 1) : In((Seen + 2) + j) = In((in_idx + 2) + j)
  <2>1. Seen + 2 \in Nat /\ in_idx + 2 \in Nat /\ in_idx + 2 <= in_length BY <1>2, <1>6
  <2>. QED BY <1>2, <2>1, RunLengthExists
<1>. HIDE DEF n
<1>. DEFINE two == SubSeq(in, 1, in_idx + 2)
            all == SubSeq(in, 1, in_idx + 2 + n)
<1>8. CopyRun(SubSeq(in, 1, in_idx), Seen, 2) = two
  <2>. DEFINE c == 2
  <2>1. c \in Nat /\ in_idx + c <= in_length
        /\ \A j \in 0..(c - 1) : In(Seen + j) = In(in_idx + j)
    BY <1>2, <1>6
  <2>. HIDE DEF c
  <2>2. CopyRun(SubSeq(in, 1, in_idx), Seen, c) = SubSeq(in, 1, in_idx + c)
    BY <1>2, <1>6, <2>1, CopyIs, ZenonT(30)
  <2>. QED BY <2>2 DEF c
<1>9. CopyRun(two, Seen + 2, n) = all
  <2>. DEFINE r == Seen + 2
              x == in_idx + 2
  <2>1. /\ r \in Nat /\ x \in Nat /\ r < x /\ n \in Nat /\ x + n <= in_length
        /\ \A j \in 0..(n - 1) : In(r + j) = In(x + j)
    BY <1>2, <1>6, <1>7
  <2>. HIDE DEF r, x
  <2>2. CopyRun(SubSeq(in, 1, x), r, n) = SubSeq(in, 1, x + n) BY <1>2, <2>1, CopyIs, ZenonT(30)
  <2>. QED BY <2>2 DEF r, x
<1>10. /\ two \in Seq(Byte) /\ Len(two) = in_idx + 2
       /\ \A j \in 1..(in_idx + 2) : two[j] = in[j]
  <2>1. in_idx + 2 \in 0..in_length BY <1>2, <1>6
  <2>. QED BY <1>2, <2>1, PrefixIs
<1>11. all \in Seq(Byte) /\ Len(all) = in_idx + 2 + n
  <2>1. in_idx + 2 + n \in 0..in_length BY <1>2, <1>6, <1>7
  <2>. QED BY <1>2, <2>1, PrefixIs
<1>. HIDE DEF two, all
<1>12. ASSUME NEW F, Agrees(F)' PROVE \E s : (Reaches(Wire(F), s) /\ InStep(s, F))'
  <2>. DEFINE w == [out \o <<Offset, n>> EXCEPT ![header_idx + 1] = F]
  <2>1. F \in Nat /\ \A i \in 0..bit : BitOf(F, i) = BitOf(current_block_header', i)
    <3>1. bit' - 1 = bit BY <1>1, <1>2
    <3>. QED BY <1>1, <1>12, <3>1 DEF Agrees
  <2>2. Agrees(F) /\ BitOf(F, bit) = 1
    <3>1. \A i \in 0..(bit - 1) : i \in 0..bit BY <1>2
    <3>2. bit \in 0..bit BY <1>2
    <3>. QED BY <1>4, <2>1, <3>1, <3>2 DEF Agrees
  <2>3. PICK s : Reaches(Wire(F), s) /\ InStep(s, F) BY <2>2 DEF ReplayInv
  <2>4. Wire(F)' = w BY <1>1, <1>2, <1>3 DEF Wire
  <2>5. /\ w[header_idx + 1] = F /\ w[Len(out) + 1] = Offset /\ w[Len(out) + 2] = n
        /\ \A c \in 1..Len(out) : Wire(F)[c] = w[c]
    <3>1. PICK S : out \in Seq(S) BY <1>2 DEF IsSeq
    <3>2. header_idx + 1 \in 1..Len(out) BY <1>2
    <3>3. Wire(F) = [out EXCEPT ![header_idx + 1] = F] BY <1>2 DEF Wire
    <3>. DEFINE h == header_idx + 1
                x == Offset
                o == out
    <3>4. Wire(F) = Put(o, h, F) /\ w = Put(o \o <<x, n>>, h, F) /\ h \in 1..Len(o) /\ o \in Seq(S)
      BY <3>1, <3>2, <3>3 DEF Put
    <3>. HIDE DEF h, x, o, w
    <3>5. /\ w[h] = F /\ w[Len(o) + 1] = x /\ w[Len(o) + 2] = n
          /\ \A c \in 1..Len(o) : Wire(F)[c] = w[c]
      BY <3>4, WireRun
    <3>. QED BY <3>5 DEF h, x, o
  <2>. HIDE DEF w
  <2>6. /\ F = IF s.i = Bits THEN w[s.d + 1] ELSE s.f
        /\ bit = IF s.i = Bits THEN 0 ELSE s.i
        /\ Len(out) = IF s.i = Bits THEN s.d + 1 ELSE s.d
        /\ s.d \in Nat /\ s.d <= Len(out)
    BY <1>1, <2>2, <2>3, <2>5, NextToken
  <2>7. Reaches(w, s)
    <3>1. \A c \in 1..s.d : c \in 1..Len(out) BY <1>2, <2>6
    <3>. QED BY <2>3, <2>5, <3>1, ReachesLocal
  <2>8. s.dst = SubSeq(in, 1, in_idx) /\ SameCache(s) BY <2>3 DEF InStep
  <2>9. s.aa[Offset] = Seen BY <1>6, <2>8 DEF SameCache, Seen
  <2>10. PICK t : /\ t = ReadToken(w, s)
                  /\ t.d = Len(out) + 2 /\ t.dst = all /\ t.i = bit + 1 /\ t.f = F
                  /\ t.aa = Noted(s.aa, s.p, two) /\ t.p = Len(all)
    <3>. DEFINE b == bit
                l == Len(out)
    <3>1. /\ F = IF s.i = Bits THEN w[s.d + 1] ELSE s.f
          /\ b = IF s.i = Bits THEN 0 ELSE s.i
          /\ l = IF s.i = Bits THEN s.d + 1 ELSE s.d
          /\ BitOf(F, b) = 1
      BY <2>2, <2>6
    <3>2. two = CopyRun(s.dst, s.aa[w[l + 1]], 2) /\ all = CopyRun(two, s.aa[w[l + 1]] + 2, w[l + 2])
      BY <1>8, <1>9, <2>5, <2>8, <2>9
    <3>. HIDE DEF b, l
    <3>3. IsRun(w, s, F, b, l, two, all) BY <3>1, <3>2 DEF IsRun
    <3>4. ReadToken(w, s) = AfterRun(s, F, b, l, two, all) BY <3>3, RunToken, SMTT(30)
    <3>. QED BY <3>4 DEF AfterRun, b, l
  <2>11. s.dst \in Seq(Byte) /\ Len(s.dst) = in_idx
    <3>1. in_idx \in 0..in_length BY <1>1, <1>2
    <3>. QED BY <1>2, <2>8, <3>1, PrefixIs
  <2>12. Reaches(w, t)
    <3>1. t = ReadToken(w, s) /\ t.dst \in Seq(Byte) BY <1>11, <2>10
    <3>2. t.d \in Nat /\ s.d <= t.d BY <1>2, <2>6, <2>10, SMTT(20)
    <3>3. Len(s.dst) < Len(t.dst) BY <1>2, <1>7, <1>11, <2>10, <2>11
    <3>. QED BY <2>6, <2>7, <2>11, <3>1, <3>2, <3>3, ReachesNext
  <2>13. /\ s.p \in Nat /\ s.aa \in [Byte -> Nat]
         /\ s.p = in_idx => Remember = s.aa
         /\ s.p # in_idx =>
              /\ in_idx # 0 /\ s.p = in_idx - 1 /\ XorAt(s.p) \in Byte
              /\ Remember = [s.aa EXCEPT ![XorAt(s.p)] = s.p]
    BY <1>6, <2>8, RememberNoted DEF ReplayInv
  <2>14. Xor[<<two[in_idx + 1], two[in_idx + 2]>>] = Offset
    <3>1. in_idx + 1 \in 1..(in_idx + 2) /\ in_idx + 2 \in 1..(in_idx + 2) /\ (in_idx + 1) + 1 = in_idx + 2
      BY <1>2
    <3>. QED BY <1>6, <1>10, <3>1 DEF XorAt, In
  <2>15. t.aa = [Remember EXCEPT ![Offset] = in_idx]
    <3>1. CASE s.p = in_idx
      <4>. DEFINE p == in_idx
                  aa == s.aa
                  x == Offset
      <4>1. /\ p \in Nat /\ aa \in [Byte -> Nat] /\ x \in Byte /\ Len(two) = p + 2
            /\ Xor[<<two[p + 1], two[p + 2]>>] = x
        BY <1>2, <1>6, <1>10, <2>13, <2>14
      <4>. HIDE DEF p, aa, x
      <4>2. Noted(aa, p, two) = [aa EXCEPT ![x] = p] BY <4>1, NotedOne
      <4>. QED BY <2>10, <2>13, <3>1, <4>2 DEF p, aa, x
    <3>2. CASE s.p # in_idx
      <4>. DEFINE p == s.p
                  aa == s.aa
                  h == XorAt(s.p)
                  k == Offset
      <4>1. p \in Nat /\ p + 1 = in_idx /\ (p + 1) + 1 = p + 2 /\ p + 2 = in_idx + 1 /\ p + 3 = in_idx + 2
        BY <1>2, <2>13, <3>2
      <4>2. Xor[<<two[p + 1], two[p + 2]>>] = h
        <5>1. p + 1 \in 1..(in_idx + 2) /\ p + 2 \in 1..(in_idx + 2) BY <1>2, <4>1, SMTT(20)
        <5>. QED BY <1>10, <4>1, <5>1 DEF XorAt, In
      <4>3. /\ aa \in [Byte -> Nat] /\ h \in Byte /\ k \in Byte /\ Len(two) = p + 3
            /\ Xor[<<two[p + 2], two[p + 3]>>] = k
        BY <1>6, <1>10, <2>13, <2>14, <3>2, <4>1
      <4>4. Remember = [aa EXCEPT ![h] = p] BY <2>13, <3>2
      <4>. HIDE DEF p, aa, h, k
      <4>5. Noted(aa, p, two) = Put(Put(aa, h, p), k, p + 1)
        <5>1. /\ p \in Nat /\ aa \in [Byte -> Nat] /\ h \in Byte /\ k \in Byte
              /\ Len(two) = p + 3
              /\ Xor[<<two[p + 1], two[p + 2]>>] = h /\ Xor[<<two[p + 2], two[p + 3]>>] = k
          BY <4>1, <4>2, <4>3
        <5>. QED BY <5>1, NotedTwo
      <4>6. Noted(aa, p, two) = [Remember EXCEPT ![k] = in_idx] BY <4>1, <4>4, <4>5 DEF Put
      <4>. QED BY <2>10, <4>6 DEF p, aa, k
    <3>. QED BY <3>1, <3>2
  <2>16. SameCache(t)'
    <3>1. t.p = in_idx' BY <1>1, <1>11, <2>10
    <3>. QED BY <1>1, <2>15, <3>1 DEF SameCache
  <2>17. InStep(t, F)'
    <3>1. bit' # 0 /\ t.i = bit' /\ t.d = Len(out') BY <1>1, <1>2, <1>3, <2>10
    <3>2. t.dst = SubSeq(in, 1, in_idx)' BY <1>1, <2>10 DEF all
    <3>. QED BY <2>10, <2>16, <3>1, <3>2 DEF InStep
  <2>18. Reaches(Wire(F)', t) BY <2>4, <2>12
  <2>. QED BY <2>17, <2>18
<1>. QED BY <1>5, <1>12 DEF ReplayInv

\* The other steps write the header, or nothing.
LEMMA ReplayStep ==
  ASSUME ReplayInv, [Next]_cvars, Stale = {0}, Bits <= 8
  PROVE  ReplayInv'
<1>0. CacheInv' BY CacheStep DEF ReplayInv
<1>1. CASE OpenBlock BY <1>0, <1>1, ReplayOpenBlock
<1>2. CASE Literal BY <1>0, <1>2, ReplayLiteral
<1>3. CASE Run BY <1>0, <1>3, ReplayRun
<1>4. CASE GiveUp \/ UNCHANGED cvars
  <2>1. UNCHANGED <<in, in_idx, in_idx_prev, xor_offset_cache, header_idx,
                    current_block_header, bit, out>>
    BY <1>4 DEF GiveUp, cvars
  <2>2. \A F : Wire(F)' = Wire(F) BY <2>1 DEF Wire
  <2>. QED BY <1>0, <2>1, <2>2, ReplayStays
<1>5. CASE Finish
  <2>1. UNCHANGED <<in, in_idx, in_idx_prev, xor_offset_cache, header_idx,
                    current_block_header, bit>> /\ out' = WithHeader
    BY <1>5 DEF Finish
  <2>2. IsSeq(out) /\ Len(WithHeader) = Len(out) /\ Len(out) \in Nat /\ header_idx \in Nat
    BY HeaderIsSeq, LengthIsNat DEF ReplayInv, CacheInv, TypeOK
  <2>3. ASSUME NEW F PROVE Wire(F)' = Wire(F)
    <3>1. CASE header_idx < Len(out)
      <4>1. WithHeader = [out EXCEPT ![header_idx + 1] = current_block_header]
        BY <3>1 DEF WithHeader
      <4>2. Wire(F)' = [WithHeader EXCEPT ![header_idx + 1] = F] BY <2>1, <2>2, <3>1 DEF Wire
      <4>3. Wire(F) = [out EXCEPT ![header_idx + 1] = F] BY <3>1 DEF Wire
      <4>. QED BY <4>1, <4>2, <4>3
    <3>2. CASE ~(header_idx < Len(out)) BY <2>1, <2>2, <3>2 DEF Wire, WithHeader
    <3>. QED BY <3>1, <3>2
  <2>. QED BY <1>0, <2>1, <2>2, <2>3, ReplayStays
<1>. QED BY <1>1, <1>2, <1>3, <1>4, <1>5 DEF Next

\* A reader that is given what has been written so far restores what has been
\* compressed so far, for every payload, block size and longest run: the runs
\* that overlap their own output, the entries that the writer makes a turn
\* late and the header that still waits to be written included.
THEOREM CompressionReplays ==
  ASSUME Stale = {0}, Bits <= 8
  PROVE  Spec => []Replays
<1>1. Init => ReplayInv BY ReplayInit
<1>2. ReplayInv /\ [Next]_cvars => ReplayInv' BY ReplayStep
<1>3. ReplayInv => Replays
  <2>. SUFFICES ASSUME ReplayInv PROVE Read(WithHeader, in_idx) = SubSeq(in, 1, in_idx)
    BY DEF Replays
  <2>1. Agrees(current_block_header) BY DEF Agrees, ReplayInv, Block
  <2>2. PICK s : Reaches(Wire(current_block_header), s) /\ InStep(s, current_block_header)
    BY <2>1 DEF ReplayInv
  <2>3. Wire(current_block_header) = WithHeader BY DEF Wire, WithHeader
  <2>4. s.dst = SubSeq(in, 1, in_idx) BY <2>2 DEF InStep
  <2>5. Len(s.dst) = in_idx /\ in_idx \in Nat
    <3>1. in \in Seq(Byte) /\ in_idx \in 0..in_length
      BY CompressAssumption DEF ReplayInv, CacheInv, TypeOK, in_length
    <3>. QED BY <2>4, <3>1, PrefixIs DEF in_length
  <2>6. Read(WithHeader, Len(s.dst)) = s.dst BY <2>2, <2>3, <2>5, ReachesRead
  <2>. QED BY <2>4, <2>5, <2>6
<1>. QED BY <1>1, <1>2, <1>3, PTL DEF Spec

-----------------------------------------------------------------------------
(* Numbers and their bytes.                                               *)

\* The powers of the number of byte values, one from the other.
LEMMA PowerIs ==
  /\ Power(0) = 1
  /\ \A k \in Nat : Power(k) \in Nat \ {0} /\ Power(k + 1) = ByteValues * Power(k)
<1>. DEFINE Step(f) == [i \in Nat |-> IF i = 0 THEN 1 ELSE ByteValues * f[i - 1]]
            S == Nat \ {0}
            g == [z \in Nat \X S |-> ByteValues * z[2]]
            p == CHOOSE f : f = Step(f)
<1>1. ByteValues \in S BY FrameAssumption
<1>2. g \in [Nat \X S -> S]
  <2>1. \A x \in S : ByteValues * x \in S BY <1>1
  <2>. QED BY <2>1
<1>3. PICK f \in [Nat -> S] : Recursive(f, 1, g)
  <2>1. 1 \in S OBVIOUS
  <2>. HIDE DEF S, g
  <2>. QED BY <1>2, <2>1, Recursion
<1>4. f = Step(f)
  <2>1. ASSUME NEW i \in Nat, i # 0 PROVE g[<<i, f[i - 1]>>] = ByteValues * f[i - 1]
    <3>1. i - 1 \in Nat BY <2>1
    <3>. QED BY <3>1
  <2>. HIDE DEF g
  <2>2. [i \in Nat |-> IF i = 0 THEN 1 ELSE g[<<i, f[i - 1]>>]] = Step(f) BY <2>1
  <2>. HIDE DEF Step
  <2>. QED BY <1>3, <2>2 DEF Recursive
<1>5. p = Step(p)
  <2>. HIDE DEF Step
  <2>. QED BY <1>4
<1>6. \A k : Power(k) = p[k] BY DEF Power
<1>. HIDE DEF p
<1>7. p[0] = 1 /\ \A k \in Nat : p[k + 1] = ByteValues * p[k]
  <2>1. \A i \in Nat : p[i] = IF i = 0 THEN 1 ELSE ByteValues * p[i - 1] BY <1>5
  <2>2. ASSUME NEW k \in Nat PROVE p[k + 1] = ByteValues * p[k]
    <3>1. k + 1 \in Nat /\ k + 1 # 0 /\ (k + 1) - 1 = k OBVIOUS
    <3>. QED BY <2>1, <3>1
  <2>. QED BY <2>1, <2>2
<1>8. \A k \in Nat : p[k] \in S
  <2>. DEFINE P == {k \in Nat : p[k] \in S}
  <2>1. 0 \in P BY <1>7
  <2>2. \A k \in Nat : k \in P => k + 1 \in P BY <1>1, <1>7
  <2>3. Nat \subseteq P
    <3>. HIDE DEF P
    <3>. QED BY <2>1, <2>2, Induction
  <2>. QED BY <2>3
<1>. QED BY <1>6, <1>7, <1>8

\* The bytes of a number are its digits.
LEMMA InOrderIs ==
  ASSUME NEW order \in Order, NEW n \in Nat, NEW size \in Nat
  PROVE  /\ InOrder(order, n, size) \in Seq(Byte) /\ Len(InOrder(order, n, size)) = size
         /\ \A i \in 1..size : InOrder(order, n, size)[i] =
              (n \div Power(IF order = "little" THEN i - 1 ELSE size - i)) % ByteValues
<1>. DEFINE f == InOrder(order, n, size)
            at(i) == IF order = "little" THEN i - 1 ELSE size - i
<1>1. ASSUME NEW i \in 1..size PROVE (n \div Power(at(i))) % ByteValues \in Byte
  <2>1. at(i) \in Nat OBVIOUS
  <2>2. Power(at(i)) \in Nat \ {0} BY <2>1, PowerIs
  <2>. DEFINE p == Power(at(i))
              q == n \div p
  <2>3. p \in Nat \ {0} BY <2>2
  <2>. HIDE DEF p
  <2>4. q \in Nat BY <2>3, DivMod
  <2>. HIDE DEF q
  <2>5. q % ByteValues \in 0..(ByteValues - 1) BY <2>4, FrameAssumption, DivMod
  <2>. QED BY <2>5, MessageAssumption DEF p, q
<1>2. f = [i \in 1..size |-> (n \div Power(at(i))) % ByteValues] BY DEF InOrder
<1>3. f \in [1..size -> Byte]
  <2>. HIDE DEF at
  <2>. QED BY <1>1, <1>2
<1>. HIDE DEF f
<1>4. f \in Seq(Byte) /\ Len(f) = size BY <1>3
<1>5. \A i \in 1..size : f[i] = (n \div Power(at(i))) % ByteValues
  <2>. HIDE DEF at
  <2>. QED BY <1>2
<1>. QED BY <1>4, <1>5 DEF f

\* The recursion of Number, the most significant byte first.
LEMMA NumberIs ==
  ASSUME NEW big \in Seq(Nat), NEW N \in Nat, N = Len(big)
  PROVE  LET f == CHOOSE f : f = [i \in 0..N |-> IF i = 0 THEN 0 ELSE ByteValues * f[i - 1] + big[i]]
         IN  /\ f[0] = 0
             /\ \A i \in 0..(N - 1) : f[i + 1] = ByteValues * f[i] + big[i + 1]
<1>. DEFINE Step(f) == [i \in 0..N |-> IF i = 0 THEN 0 ELSE ByteValues * f[i - 1] + big[i]]
            g == [z \in Nat \X Nat |-> IF z[1] \in 1..N THEN ByteValues * z[2] + big[z[1]] ELSE 0]
<1>1. ByteValues \in Nat BY FrameAssumption
<1>2. g \in [Nat \X Nat -> Nat]
  <2>1. ASSUME NEW x \in Nat, NEW i \in 1..N PROVE ByteValues * x + big[i] \in Nat
    <3>1. big[i] \in Nat OBVIOUS
    <3>2. ByteValues * x \in Nat BY <1>1
    <3>. QED BY <3>1, <3>2
  <2>. QED BY <2>1
<1>3. PICK f \in [Nat -> Nat] : Recursive(f, 0, g)
  <2>1. 0 \in Nat OBVIOUS
  <2>. HIDE DEF g
  <2>. QED BY <1>2, <2>1, Recursion
<1>. DEFINE h == [i \in 0..N |-> f[i]]
<1>4. h = Step(h)
  <2>1. \A i \in Nat : f[i] = IF i = 0 THEN 0 ELSE g[<<i, f[i - 1]>>] BY <1>3 DEF Recursive
  <2>2. ASSUME NEW i \in 0..N
        PROVE  f[i] = IF i = 0 THEN 0 ELSE ByteValues * h[i - 1] + big[i]
    <3>1. CASE i = 0 BY <2>1, <3>1
    <3>2. CASE i # 0
      <4>1. i - 1 \in Nat /\ i - 1 \in 0..N /\ i \in 1..N /\ i \in Nat BY <3>2
      <4>2. g[<<i, f[i - 1]>>] = ByteValues * f[i - 1] + big[i] BY <4>1
      <4>3. h[i - 1] = f[i - 1] BY <4>1
      <4>. HIDE DEF g, h
      <4>. QED BY <2>1, <3>2, <4>1, <4>2, <4>3
    <3>. QED BY <3>1, <3>2
  <2>. QED BY <2>2
<1>. DEFINE u == CHOOSE c : c = Step(c)
<1>5. u = Step(u)
  <2>. HIDE DEF Step, h
  <2>. QED BY <1>4
<1>. HIDE DEF u
<1>6. \A i \in 0..N : u[i] = IF i = 0 THEN 0 ELSE ByteValues * u[i - 1] + big[i] BY <1>5
<1>7. u[0] = 0
  <2>1. 0 \in 0..N OBVIOUS
  <2>. QED BY <1>6, <2>1
<1>8. ASSUME NEW i \in 0..(N - 1) PROVE u[i + 1] = ByteValues * u[i] + big[i + 1]
  <2>1. i + 1 \in 0..N /\ i + 1 # 0 /\ (i + 1) - 1 = i OBVIOUS
  <2>. QED BY <1>6, <2>1
<1>. QED BY <1>7, <1>8 DEF u

\* Who reads the bytes of a number in the order they were put in gets it back.
LEMMA NumberRead ==
  ASSUME NEW order \in Order, NEW n \in Nat, NEW size \in Nat, n < Power(size)
  PROVE  Number(order, InOrder(order, n, size)) = n
<1>. DEFINE bytes == InOrder(order, n, size)
            big == IF order = "big" THEN bytes ELSE Reverse(bytes)
<1>1. bytes \in Seq(Byte) /\ Len(bytes) = size BY InOrderIs
<1>2. big \in Seq(Nat) /\ Len(big) = size
      /\ \A i \in 1..size : big[i] = (n \div Power(size - i)) % ByteValues
  <2>1. Byte \subseteq Nat BY MessageAssumption, FrameAssumption
  <2>2. CASE order = "big"
    <3>1. \A i \in 1..size : bytes[i] = (n \div Power(size - i)) % ByteValues BY <2>2, InOrderIs, ZenonT(30)
    <3>. HIDE DEF bytes
    <3>2. bytes \in [1..size -> Nat]
      <4>1. bytes \in [1..size -> Byte] BY <1>1
      <4>. QED BY <2>1, <4>1
    <3>. QED BY <2>2, <3>1, <3>2
  <2>3. CASE order # "big"
    <3>1. \A i \in 1..size : bytes[i] = (n \div Power(i - 1)) % ByteValues
      BY <2>3, InOrderIs DEF Order
    <3>. HIDE DEF bytes
    <3>2. \A i \in 1..size : (size - i) + 1 \in 1..size /\ ((size - i) + 1) - 1 = size - i OBVIOUS
    <3>3. big = [i \in 1..size |-> bytes[(size - i) + 1]] BY <1>1, <2>3 DEF Reverse
    <3>4. \A i \in 1..size : big[i] = (n \div Power(size - i)) % ByteValues
      <4>. HIDE DEF big
      <4>. QED BY <3>1, <3>2, <3>3
    <3>5. \A i \in 1..size : bytes[(size - i) + 1] \in Nat
      <4>1. \A i \in 1..size : bytes[i] \in Byte BY <1>1
      <4>. QED BY <2>1, <3>2, <4>1
    <3>6. big \in [1..size -> Nat]
      <4>. HIDE DEF big
      <4>. QED BY <3>3, <3>5
    <3>. HIDE DEF big
    <3>. QED BY <3>4, <3>6
  <2>. QED BY <2>2, <2>3
<1>. DEFINE u == CHOOSE f : f = [i \in 0..size |-> IF i = 0 THEN 0 ELSE ByteValues * f[i - 1] + big[i]]
<1>3. Number(order, bytes) = u[size]
  <2>. HIDE DEF bytes
  <2>. QED BY <1>1 DEF Number
<1>. HIDE DEF big
<1>4. /\ u[0] = 0
      /\ \A i \in 0..(size - 1) : u[i + 1] = ByteValues * u[i] + big[i + 1]
  BY <1>2, NumberIs
<1>. HIDE DEF u, bytes
<1>. DEFINE P == {i \in Nat : i <= size => u[i] = n \div Power(size - i)}
<1>5. 0 \in P
  <2>1. Power(size) \in Nat \ {0} BY PowerIs
  <2>2. n \div Power(size) = 0
    <3>. DEFINE p == Power(size)
    <3>1. p \in Nat /\ n < p BY <2>1
    <3>. HIDE DEF p
    <3>2. n \div p = 0 BY <3>1
    <3>. QED BY <3>2 DEF p
  <2>3. size - 0 = size OBVIOUS
  <2>. QED BY <1>4, <2>2, <2>3
<1>6. ASSUME NEW i \in Nat, i \in P PROVE i + 1 \in P
  <2>. SUFFICES ASSUME i + 1 <= size PROVE u[i + 1] = n \div Power(size - (i + 1))
    OBVIOUS
  <2>. DEFINE k == size - (i + 1)
              p == Power(k)
              q == n \div p
  <2>1. k \in Nat /\ k + 1 = size - i /\ i + 1 \in 1..size /\ i \in 0..(size - 1) /\ i <= size
    OBVIOUS
  <2>2. u[i] = n \div Power(k + 1) BY <1>6, <2>1
  <2>3. u[i + 1] = ByteValues * u[i] + (q % ByteValues)
    <3>. HIDE DEF P
    <3>. QED BY <1>2, <1>4, <2>1
  <2>. HIDE DEF k, P
  <2>4. p \in Nat \ {0} /\ Power(k + 1) = ByteValues * p BY <2>1, PowerIs
  <2>. HIDE DEF p
  <2>5. ByteValues \in Nat \ {0} BY FrameAssumption
  <2>6. u[i] = q \div ByteValues
    <3>1. n \div (ByteValues * p) = (n \div p) \div ByteValues BY <2>4, <2>5, DivTwice
    <3>. QED BY <2>2, <2>4, <3>1
  <2>7. q \in Nat BY <2>4, DivMod
  <2>. HIDE DEF q
  <2>8. q = (q % ByteValues) + ByteValues * (q \div ByteValues)
        /\ q \div ByteValues \in Nat /\ q % ByteValues \in Nat
    <3>. DEFINE b == ByteValues
    <3>1. b \in Nat \ {0} BY <2>5
    <3>. HIDE DEF b
    <3>2. q \div b \in Nat /\ q % b \in 0..(b - 1) /\ q = (q % b) + b * (q \div b)
      BY <2>7, <3>1, DivMod
    <3>3. q % b \in Nat BY <3>1, <3>2
    <3>. QED BY <3>2, <3>3 DEF b
  <2>9. u[i + 1] = q
    <3>. DEFINE x == q % ByteValues
                y == ByteValues * (q \div ByteValues)
    <3>1. x \in Nat /\ y \in Nat /\ u[i + 1] = y + x /\ q = x + y BY <2>3, <2>5, <2>6, <2>8
    <3>. HIDE DEF x, y
    <3>. QED BY <3>1
  <2>. QED BY <2>9 DEF q, p, k
<1>7. Nat \subseteq P
  <2>. HIDE DEF P
  <2>. QED BY <1>5, <1>6, Induction
<1>8. u[size] = n \div Power(0)
  <2>1. size \in P /\ size <= size /\ size - size = 0 BY <1>7
  <2>. QED BY <2>1
<1>9. n \div 1 = n OBVIOUS
<1>. QED BY <1>3, <1>8, <1>9, PowerIs DEF bytes

\* A longer number holds more.
LEMMA PowerGrows ==
  ASSUME NEW a \in Nat, NEW b \in Nat, a <= b
  PROVE  Power(a) <= Power(b)
<1>. DEFINE P == {k \in Nat : Power(a) <= Power(a + k)}
<1>1. 0 \in P
  <2>1. a + 0 = a /\ Power(a) \in Nat BY PowerIs
  <2>. QED BY <2>1
<1>2. ASSUME NEW k \in Nat, k \in P PROVE k + 1 \in P
  <2>. DEFINE x == Power(a)
              y == Power(a + k)
  <2>1. a + k \in Nat /\ a + (k + 1) = (a + k) + 1 OBVIOUS
  <2>2. x \in Nat /\ y \in Nat /\ x <= y /\ Power(a + (k + 1)) = ByteValues * y
    BY <1>2, <2>1, PowerIs
  <2>3. ByteValues \in Nat \ {0} BY FrameAssumption
  <2>. HIDE DEF x, y
  <2>4. x <= ByteValues * y BY <2>2, <2>3
  <2>. QED BY <2>2, <2>4 DEF x
<1>3. Nat \subseteq P
  <2>. HIDE DEF P
  <2>. QED BY <1>1, <1>2, Induction
<1>4. b - a \in P /\ a + (b - a) = b
  <2>. HIDE DEF P
  <2>. QED BY <1>3
<1>. QED BY <1>4

-----------------------------------------------------------------------------
(* The header, field by field.                                             *)

\* In the buffer's order a number has its bytes as that order has them.
LEMMA ScalarIs ==
  ASSUME NEW n \in Nat, NEW size \in Nat \ {0}, NEW order \in Order
  PROVE  /\ Scalar(n, size) \in Seq(Byte) /\ Len(Scalar(n, size)) = size
         /\ to_native_endian(Scalar(n, size), order) = InOrder(order, n, size)
<1>. DEFINE s == InOrder(Native, n, size)
            r == InOrder(order, n, size)
            at(o, i) == IF o = "little" THEN i - 1 ELSE size - i
            digit(k) == (n \div Power(k)) % ByteValues
<1>1. /\ s \in Seq(Byte) /\ Len(s) = size /\ \A i \in 1..size : s[i] = digit(at(Native, i))
      /\ r \in Seq(Byte) /\ Len(r) = size /\ \A i \in 1..size : r[i] = digit(at(order, i))
  BY InOrderIs, NativeAssumption
<1>. HIDE DEF s, r, digit
<1>2. to_native_endian(s, order) = r
  <2>1. CASE order = Native BY <2>1 DEF to_native_endian, s, r
  <2>2. CASE order # Native /\ size = 1
    <3>1. \A i \in 1..1 : i = 1 /\ at(order, i) = 0 /\ at(Native, i) = 0 BY <2>2
    <3>2. \A i \in 1..1 : s[i] = r[i]
      <4>. HIDE DEF at
      <4>. QED BY <1>1, <2>2, <3>1
    <3>3. s = r BY <1>1, <2>2, <3>2
    <3>. QED BY <1>1, <2>2, <3>3 DEF to_native_endian
  <2>3. CASE order # Native /\ size # 1
    <3>1. to_native_endian(s, order) = Swapped(s) BY <1>1, <2>3 DEF to_native_endian
    <3>2. /\ Swapped(s) \in Seq(Byte) /\ Len(Swapped(s)) = size
          /\ \A i \in 1..size : Swapped(s)[i] = s[size + 1 - i]
      BY <1>1, SwapIsSeq
    <3>3. ASSUME NEW i \in 1..size PROVE Swapped(s)[i] = r[i]
      <4>1. size + 1 - i \in 1..size /\ (size + 1 - i) - 1 = size - i /\ size - (size + 1 - i) = i - 1
        OBVIOUS
      <4>2. at(Native, size + 1 - i) = at(order, i)
        BY <2>3, <4>1, NativeAssumption DEF Order
      <4>. HIDE DEF at
      <4>. QED BY <1>1, <3>2, <4>1, <4>2
    <3>. QED BY <1>1, <3>1, <3>2, <3>3
  <2>. QED BY <2>1, <2>2, <2>3
<1>. QED BY <1>1, <1>2 DEF Scalar, s, r

\* What writing a field of a header does: value is in its place, in the
\* buffer's order, and the rest is as it was.
Written(old, new, value, idx) ==
  /\ IsBuffer(new) /\ Len(new.bytes) = Len(old.bytes) /\ new.endianness = old.endianness
  /\ \A i \in 1..Len(value) : new.bytes[idx + i] = value[i]
  /\ \A i \in 1..Len(old.bytes) : i <= idx \/ i > idx + Len(value) => new.bytes[i] = old.bytes[i]

\* Any value that fits.
LEMMA WriteValue ==
  ASSUME NEW buf, IsBuffer(buf), NEW value \in Seq(Byte), NEW idx, Fits(buf, Len(value), idx),
         NEW raw, raw = to_native_endian(value, buf.endianness)
  PROVE  Written(buf, write_at(buf, value, idx), raw, idx)
<1>. DEFINE new == write_at(buf, value, idx)
<1>1. raw \in Seq(Byte) /\ Len(raw) = Len(value) BY ToNativeTwice
<1>2. /\ IsBuffer(new) /\ Len(new.bytes) = Len(buf.bytes)
      /\ new.endianness = buf.endianness
      /\ \A i \in 1..Len(buf.bytes) :
           new.bytes[i] = IF i - idx \in 1..Len(value) THEN raw[i - idx] ELSE buf.bytes[i]
  BY WriteBytes
<1>. HIDE DEF new
<1>3. idx \in Nat /\ Len(value) \in Nat /\ Len(buf.bytes) \in Nat /\ idx + Len(value) <= Len(buf.bytes)
  BY DEF Fits, IsBuffer
<1>4. ASSUME NEW i \in 1..Len(raw) PROVE new.bytes[idx + i] = raw[i]
  <2>1. idx + i \in 1..Len(buf.bytes) /\ (idx + i) - idx = i BY <1>1, <1>3
  <2>. QED BY <1>1, <1>2, <2>1
<1>5. ASSUME NEW i \in 1..Len(buf.bytes), i <= idx \/ i > idx + Len(raw)
      PROVE  new.bytes[i] = buf.bytes[i]
  <2>1. i - idx \notin 1..Len(value) BY <1>1, <1>3, <1>5
  <2>. QED BY <1>2, <2>1
<1>. QED BY <1>2, <1>4, <1>5 DEF Written, new

\* A field of one byte.
LEMMA WriteByte ==
  ASSUME NEW buf, IsBuffer(buf), NEW x \in Byte, NEW idx \in Nat, idx < Len(buf.bytes)
  PROVE  Written(buf, write_at(buf, <<x>>, idx), <<x>>, idx)
<1>1. <<x>> \in Seq(Byte) /\ Len(<<x>>) = 1 OBVIOUS
<1>2. Fits(buf, Len(<<x>>), idx) BY <1>1 DEF Fits, IsBuffer
<1>3. to_native_endian(<<x>>, buf.endianness) = <<x>> BY <1>1 DEF to_native_endian
<1>. QED BY <1>1, <1>2, <1>3, WriteValue

\* A number of several.
LEMMA WriteNumber ==
  ASSUME NEW buf, IsBuffer(buf), NEW n \in Nat, NEW size \in Nat \ {0}, NEW idx \in Nat,
         idx + size <= Len(buf.bytes)
  PROVE  Written(buf, write_at(buf, Scalar(n, size), idx),
                 InOrder(buf.endianness, n, size), idx)
<1>1. buf.endianness \in Order BY DEF IsBuffer
<1>2. /\ Scalar(n, size) \in Seq(Byte) /\ Len(Scalar(n, size)) = size
      /\ to_native_endian(Scalar(n, size), buf.endianness) = InOrder(buf.endianness, n, size)
  BY <1>1, ScalarIs
<1>3. Fits(buf, Len(Scalar(n, size)), idx) BY <1>2 DEF Fits
<1>. DEFINE v == Scalar(n, size)
            r == InOrder(buf.endianness, n, size)
<1>4. v \in Seq(Byte) /\ Fits(buf, Len(v), idx) /\ r = to_native_endian(v, buf.endianness)
  BY <1>2, <1>3
<1>. HIDE DEF v, r
<1>5. Written(buf, write_at(buf, v, idx), r, idx) BY <1>4, WriteValue
<1>. QED BY <1>5 DEF v, r

\* Bytes of an original size, and the size of message that has no header.
OriginalBytes(k) == k * Word
Limit == ByteValues * FourGB

\* The fields of a header that says the message has size bytes and, if k is
\* not 0, that its payload was compressed from n: the original size has kw
\* bytes.
Fields(H, e, type, k, kw, n, size) ==
  /\ H \in Seq(Byte) /\ Len(H) = HeaderSize + kw
  /\ H[1] = (IF e = "little" THEN 1 ELSE 0) /\ H[2] = type /\ H[3] = k
  /\ H[4] = Excess(size)
  /\ \A i \in 1..Word : H[4 + i] = InOrder(e, Residual(size), Word)[i]
  /\ \A i \in 1..kw : H[HeaderSize + i] = InOrder(e, HeaderSize + n, kw)[i]

\* The fields do not get in each other's way.
LEMMA HeaderIs ==
  ASSUME NEW e \in Order, NEW type \in MessageByte, NEW n \in Nat, NEW c \in Nat, 2 \in Byte,
         NEW k, k = Compressed(n, c), NEW size, size = FinalSize(n, c),
         NEW H, H = Header(e, type, n, c), NEW kw, kw = OriginalBytes(k)
  PROVE  Fields(H, e, type, k, kw, n, size)
<1>. DEFINE L == HeaderSize + 2 * Word
            zeros == [i \in 1..L |-> 0]
            b0 == NewBuffer(zeros, e)
            o == IF e = "little" THEN 1 ELSE 0
            b1 == write_at(b0, <<o>>, 0)
            b2 == write_at(b1, <<type>>, 1)
            b3 == write_at(b2, <<k>>, 2)
            original == Scalar(HeaderSize + n, k * Word)
            b4 == write_at(b3, original, HeaderSize)
            b5 == IF k = 0 THEN b2 ELSE b4
            idx == HeaderSize + k * Word
            b6 == write_at(b5, <<Excess(size)>>, 3)
            b7 == write_at(b6, Scalar(Residual(size), Word), 4)
            orig == InOrder(e, HeaderSize + n, k * Word)
            res == InOrder(e, Residual(size), Word)
<1>1. /\ k \in {0, 1, 2} /\ Word \in Nat \ {0} /\ HeaderSize = 4 + Word
      /\ k * Word \in Nat /\ k * Word <= 2 * Word /\ (k # 0 => k * Word \in Nat \ {0})
  <2>1. k \in {0, 1, 2} BY DEF Compressed
  <2>. QED BY <2>1, FrameAssumption, MessageAssumption
<1>2. /\ 0 \in Byte /\ 1 \in Byte /\ o \in Byte /\ type \in Byte /\ k \in Byte
      /\ size \in Nat /\ Excess(size) \in Byte /\ Residual(size) \in Nat
  <2>1. Byte = 0..(ByteValues - 1) /\ ByteValues \in Nat \ {0} /\ FourGB \in Nat \ {0}
    BY MessageAssumption, FrameAssumption
  <2>2. {0, 1, 2} \subseteq Byte BY <2>1
  <2>3. size \in Nat
    <3>1. size = (HeaderSize + k * Word) + c BY DEF FinalSize, HeaderLength
    <3>. QED BY <1>1, <3>1
  <2>4. size \div FourGB \in Nat /\ size % FourGB \in Nat
    <3>1. size % FourGB \in 0..(FourGB - 1) /\ size \div FourGB \in Nat BY <2>1, <2>3, DivMod
    <3>. QED BY <2>1, <3>1
  <2>5. Excess(size) \in Byte
    <3>. DEFINE q == size \div FourGB
    <3>1. q \in Nat BY <2>4
    <3>. HIDE DEF q
    <3>2. q % ByteValues \in 0..(ByteValues - 1) BY <2>1, <3>1, DivMod
    <3>. QED BY <2>1, <3>2 DEF Excess, q
  <2>. QED BY <1>1, <2>2, <2>3, <2>4, <2>5 DEF MessageByte, Residual
<1>3. H = SubSeq(b7.bytes, 1, idx)
  <2>1. Opening(e, type) = b2 BY DEF Opening
  <2>. HIDE DEF b2
  <2>2. WithOriginal(b2, n, c) = [buf |-> b5, idx |-> idx]
    <3>1. CASE k = 0
      <4>1. WithOriginal(b2, n, c) = [buf |-> b2, idx |-> HeaderSize] BY <3>1 DEF WithOriginal
      <4>2. idx = HeaderSize BY <1>1, <3>1
      <4>. QED BY <3>1, <4>1, <4>2
    <3>2. CASE k # 0
      <4>1. WithOriginal(b2, n, c) = [buf |-> b4, idx |-> HeaderSize + Len(original)]
        BY <3>2 DEF WithOriginal, write
      <4>2. Len(original) = k * Word
        <5>. DEFINE m == HeaderSize + n
                    w == k * Word
        <5>1. m \in Nat /\ w \in Nat \ {0} BY <1>1, <3>2
        <5>. HIDE DEF m, w
        <5>2. Len(Scalar(m, w)) = w BY <5>1, NativeAssumption, ScalarIs
        <5>. QED BY <5>2 DEF m, w
      <4>. QED BY <3>2, <4>1, <4>2
    <3>. QED BY <3>1, <3>2
  <2>3. size = idx + c BY DEF FinalSize, HeaderLength
  <2>. DEFINE h == WithOriginal(b2, n, c)
  <2>. HIDE DEF b5, idx
  <2>4. h.buf = b5 /\ h.idx = idx BY <2>2
  <2>. HIDE DEF h
  <2>5. H = LET final == h.idx + c
            IN  SubSeq(write_at(write_at(h.buf, <<Excess(final)>>, 3),
                                Scalar(Residual(final), Word), 4).bytes, 1, h.idx)
    BY <2>1 DEF Header, h
  <2>. QED BY <2>3, <2>4, <2>5
<1>4. IsBuffer(b0) /\ Len(b0.bytes) = L /\ b0.endianness = e
  <2>1. zeros \in Seq(Byte) /\ Len(zeros) = L
    <3>1. L \in Nat BY <1>1
    <3>. HIDE DEF L
    <3>2. zeros \in [1..L -> Byte] BY <1>2
    <3>. QED BY <3>1, <3>2
  <2>. HIDE DEF zeros
  <2>. QED BY <2>1 DEF IsBuffer, NewBuffer
<1>5. L \in Nat /\ 4 < L /\ L = HeaderSize + 2 * Word BY <1>1
<1>. HIDE DEF L, zeros, b0
<1>6. Written(b0, b1, <<o>>, 0)
  <2>. HIDE DEF o
  <2>. QED BY <1>2, <1>4, <1>5, WriteByte
<1>. HIDE DEF b1, o
<1>7. Written(b1, b2, <<type>>, 1) BY <1>2, <1>4, <1>5, <1>6, WriteByte DEF Written
<1>. HIDE DEF b2
<1>8. Written(b2, b3, <<k>>, 2) BY <1>2, <1>4, <1>5, <1>6, <1>7, WriteByte, SMTT(20) DEF Written
<1>. HIDE DEF b3
<1>9. ASSUME k # 0 PROVE Written(b3, b4, orig, HeaderSize)
  <2>. DEFINE m == HeaderSize + n
              w == k * Word
              h == HeaderSize
  <2>1. /\ IsBuffer(b3) /\ b3.endianness = e /\ Len(b3.bytes) = L
        /\ m \in Nat /\ w \in Nat \ {0} /\ h \in Nat /\ h + w <= Len(b3.bytes)
    <3>1. IsBuffer(b3) /\ b3.endianness = e /\ Len(b3.bytes) = L
      BY <1>4, <1>6, <1>7, <1>8 DEF Written
    <3>2. m \in Nat /\ h \in Nat BY <1>1
    <3>3. w \in Nat \ {0} /\ w <= 2 * Word BY <1>1, <1>9
    <3>. HIDE DEF w
    <3>4. h + w <= L BY <1>1, <1>5, <3>3
    <3>. QED BY <3>1, <3>2, <3>3, <3>4
  <2>. HIDE DEF m, w, h
  <2>2. Written(b3, write_at(b3, Scalar(m, w), h), InOrder(b3.endianness, m, w), h)
    BY <2>1, WriteNumber
  <2>. QED BY <2>1, <2>2 DEF m, w, h
<1>10. k # 0 => Len(orig) = k * Word
  <2>. DEFINE m == HeaderSize + n
              w == k * Word
  <2>1. m \in Nat /\ w \in Nat BY <1>1
  <2>. HIDE DEF m, w
  <2>2. Len(InOrder(e, m, w)) = w BY <2>1, InOrderIs
  <2>. QED BY <2>2 DEF m, w
<1>11. Len(res) = Word BY <1>1, <1>2, InOrderIs
<1>. HIDE DEF b4, orig, res
<1>12. /\ IsBuffer(b5) /\ Len(b5.bytes) = L /\ b5.endianness = e
       /\ b5.bytes[1] = o /\ b5.bytes[2] = type /\ b5.bytes[3] = k
       /\ \A i \in 1..(k * Word) : b5.bytes[HeaderSize + i] = orig[i]
  <2>1. /\ b1.bytes[1] = o /\ Len(b1.bytes) = L /\ \A i \in 2..L : b1.bytes[i] = b0.bytes[i]
    <3>1. /\ \A i \in 1..1 : b1.bytes[0 + i] = <<o>>[i]
          /\ \A i \in 1..L : i <= 0 \/ i > 0 + 1 => b1.bytes[i] = b0.bytes[i]
          /\ Len(b1.bytes) = L
      BY <1>4, <1>6 DEF Written
    <3>. QED BY <1>5, <3>1
  <2>2. /\ b2.bytes[1] = o /\ b2.bytes[2] = type /\ Len(b2.bytes) = L
    <3>1. /\ \A i \in 1..1 : b2.bytes[1 + i] = <<type>>[i]
          /\ \A i \in 1..L : i <= 1 \/ i > 1 + 1 => b2.bytes[i] = b1.bytes[i]
          /\ Len(b2.bytes) = L
      BY <1>7, <2>1 DEF Written
    <3>. QED BY <1>5, <2>1, <3>1
  <2>3. CASE k = 0
    <3>1. b2.bytes[3] = 0
      <4>1. b2.bytes[3] = b0.bytes[3]
        <5>1. /\ \A i \in 1..L : i <= 1 \/ i > 1 + 1 => b2.bytes[i] = b1.bytes[i]
          BY <1>7, <2>1 DEF Written
        <5>2. b2.bytes[3] = b1.bytes[3] BY <1>5, <5>1
        <5>. QED BY <1>5, <2>1, <5>2
      <4>2. b0.bytes[3] = 0 BY <1>5 DEF b0, NewBuffer, zeros
      <4>. QED BY <4>1, <4>2
    <3>2. 1..(k * Word) = {} BY <1>1, <2>3
    <3>3. IsBuffer(b2) /\ b2.endianness = e BY <1>4, <1>6, <1>7 DEF Written
    <3>. QED BY <2>2, <2>3, <3>1, <3>2, <3>3
  <2>4. CASE k # 0
    <3>1. /\ b3.bytes[1] = o /\ b3.bytes[2] = type /\ b3.bytes[3] = k /\ Len(b3.bytes) = L
      <4>1. /\ \A i \in 1..1 : b3.bytes[2 + i] = <<k>>[i]
            /\ \A i \in 1..L : i <= 2 \/ i > 2 + 1 => b3.bytes[i] = b2.bytes[i]
            /\ Len(b3.bytes) = L
        BY <1>8, <2>2 DEF Written
      <4>. QED BY <1>5, <2>2, <4>1, SMTT(20)
    <3>2. /\ \A i \in 1..(k * Word) : b4.bytes[HeaderSize + i] = orig[i]
          /\ \A i \in 1..L : i <= HeaderSize => b4.bytes[i] = b3.bytes[i]
          /\ Len(b4.bytes) = L /\ IsBuffer(b4) /\ b4.endianness = e
      BY <1>4, <1>6, <1>7, <1>8, <1>9, <1>10, <2>4, <3>1 DEF Written
    <3>3. \A i \in 1..3 : i \in 1..L /\ i <= HeaderSize BY <1>1, <1>5
    <3>. QED BY <2>4, <3>1, <3>2, <3>3
  <2>. QED BY <2>3, <2>4
<1>. HIDE DEF b5
<1>13. Written(b5, b6, <<Excess(size)>>, 3) BY <1>2, <1>5, <1>12, WriteByte
<1>. HIDE DEF b6
<1>14. Written(b6, b7, res, 4)
  <2>1. IsBuffer(b6) /\ Len(b6.bytes) = L /\ b6.endianness = e BY <1>12, <1>13 DEF Written
  <2>2. 4 \in Nat /\ 4 + Word <= L BY <1>1, <1>5
  <2>3. Written(b6, b7, InOrder(b6.endianness, Residual(size), Word), 4)
    BY <1>1, <1>2, <2>1, <2>2, WriteNumber
  <2>. QED BY <2>1, <2>3 DEF res
<1>. HIDE DEF b7
<1>15. /\ b7.bytes \in Seq(Byte) /\ Len(b7.bytes) = L
       /\ b7.bytes[1] = o /\ b7.bytes[2] = type /\ b7.bytes[3] = k /\ b7.bytes[4] = Excess(size)
       /\ \A i \in 1..Word : b7.bytes[4 + i] = res[i]
       /\ \A i \in 1..(k * Word) : b7.bytes[HeaderSize + i] = orig[i]
  <2>1. /\ \A i \in 1..1 : b6.bytes[3 + i] = <<Excess(size)>>[i]
        /\ \A i \in 1..L : i <= 3 \/ i > 3 + 1 => b6.bytes[i] = b5.bytes[i]
        /\ Len(b6.bytes) = L
    BY <1>12, <1>13 DEF Written
  <2>2. /\ \A i \in 1..Word : b7.bytes[4 + i] = res[i]
        /\ \A i \in 1..L : i <= 4 \/ i > 4 + Word => b7.bytes[i] = b6.bytes[i]
        /\ Len(b7.bytes) = L /\ IsBuffer(b7)
    BY <1>11, <1>14, <2>1 DEF Written
  <2>3. b6.bytes[4] = Excess(size)
    <3>1. 1 \in 1..1 /\ 3 + 1 = 4 /\ <<Excess(size)>>[1] = Excess(size) OBVIOUS
    <3>. QED BY <2>1, <3>1
  <2>4. \A i \in 1..4 : b7.bytes[i] = b6.bytes[i] BY <1>5, <2>2
  <2>5. \A i \in 1..3 : b6.bytes[i] = b5.bytes[i] BY <1>5, <2>1
  <2>6. ASSUME NEW i \in 1..(k * Word) PROVE b7.bytes[HeaderSize + i] = b5.bytes[HeaderSize + i]
    <3>1. HeaderSize + i \in 1..L /\ HeaderSize + i > 4 + Word BY <1>1, <1>5
    <3>. QED BY <1>1, <2>1, <2>2, <3>1
  <2>. QED BY <1>12, <2>2, <2>3, <2>4, <2>5, <2>6 DEF IsBuffer
<1>16. /\ H \in Seq(Byte) /\ Len(H) = idx /\ \A i \in 1..idx : H[i] = b7.bytes[i]
  <2>1. idx \in 0..L BY <1>1, <1>5
  <2>. HIDE DEF idx
  <2>. QED BY <1>3, <1>15, <2>1
<1>17. \A i \in 1..4 : H[i] = b7.bytes[i]
  <2>1. \A i \in 1..4 : i \in 1..idx BY <1>1
  <2>. QED BY <1>16, <2>1
<1>18. \A i \in 1..Word : H[4 + i] = b7.bytes[4 + i]
  <2>1. \A i \in 1..Word : 4 + i \in 1..idx BY <1>1
  <2>. QED BY <1>16, <2>1
<1>19. \A i \in 1..(k * Word) : H[HeaderSize + i] = b7.bytes[HeaderSize + i]
  <2>1. \A i \in 1..(k * Word) : HeaderSize + i \in 1..idx BY <1>1
  <2>. QED BY <1>16, <2>1
<1>. QED BY <1>15, <1>16, <1>17, <1>18, <1>19, SMTT(20) DEF o, orig, res, Fields, OriginalBytes

-----------------------------------------------------------------------------
(* The message.                                                            *)

\* A part of a sequence is known by its elements.
LEMMA PartIs ==
  ASSUME NEW S, NEW w \in Seq(S), NEW a \in Nat, NEW v, IsSeq(v), a + Len(v) <= Len(w),
         \A i \in 1..Len(v) : w[a + i] = v[i]
  PROVE  SubSeq(w, a + 1, a + Len(v)) = v
<1>. DEFINE N == Len(v)
            p == SubSeq(w, a + 1, a + N)
<1>1. PICK R : v \in Seq(R) BY DEF IsSeq
<1>2. N \in Nat /\ Len(w) \in Nat BY <1>1
<1>3. p = [i \in 1..((a + N) - (a + 1) + 1) |-> w[i + (a + 1) - 1]] OBVIOUS
<1>4. (a + N) - (a + 1) + 1 = N /\ \A i \in 1..N : i + (a + 1) - 1 = a + i BY <1>2
<1>5. p = [i \in 1..N |-> v[i]]
  <2>. HIDE DEF p
  <2>. QED BY <1>3, <1>4
<1>6. v = [i \in 1..N |-> v[i]] BY <1>1
<1>. QED BY <1>5, <1>6

\* What is left of a sequence after its first h elements.
Remains(t, S, w, h, m) == /\ w \in Seq(S) /\ h \in Nat /\ m \in Nat /\ Len(w) = h + m
                          /\ t = SubSeq(w, h + 1, h + m)

Remainder(t, S, w, h, m) == t \in Seq(S) /\ Len(t) = m /\ \A i \in 1..m : t[i] = w[h + i]

LEMMA TailIs ==
  ASSUME NEW S, NEW w, NEW h, NEW m, NEW t, Remains(t, S, w, h, m)
  PROVE  Remainder(t, S, w, h, m)
<1>0. /\ w \in Seq(S) /\ h \in Nat /\ m \in Nat /\ Len(w) = h + m
      /\ t = SubSeq(w, h + 1, h + m)
  BY DEF Remains
<1>1. (h + m) - (h + 1) + 1 = m BY <1>0
<1>2. \A i \in 1..m : i + (h + 1) - 1 = h + i /\ h + i \in 1..Len(w) BY <1>0
<1>3. SubSeq(w, h + 1, h + m) = [i \in 1..((h + m) - (h + 1) + 1) |-> w[i + (h + 1) - 1]]
  BY <1>0
<1>4. t = [i \in 1..m |-> w[h + i]] BY <1>0, <1>1, <1>2, <1>3
<1>5. \A i \in 1..m : w[h + i] \in S
  <2>1. \A j \in 1..Len(w) : w[j] \in S BY <1>0
  <2>. QED BY <1>2, <2>1
<1>6. t \in [1..m -> S] BY <1>4, <1>5
<1>7. t \in Seq(S) /\ Len(t) = m BY <1>0, <1>6
<1>8. \A i \in 1..m : t[i] = w[h + i] BY <1>4
<1>. QED BY <1>7, <1>8 DEF Remainder

\* The two send calls: the header, then the payload.
LEMMA Joined ==
  ASSUME NEW S, NEW h \in Seq(S), NEW v \in Seq(S), NEW w, w = h \o v
  PROVE  /\ w \in Seq(S) /\ Len(w) = Len(h) + Len(v)
         /\ \A i \in 1..Len(h) : w[i] = h[i]
         /\ \A i \in 1..Len(v) : w[Len(h) + i] = v[i]
OBVIOUS

\* What the reader finds in a message.
Finds(w, type, k, kw, n, v) ==
  /\ w[2] = type /\ w[3] = k /\ SizeOf(w) = Len(w)
  /\ k = 0 => BodyOf(w) = v
  /\ k # 0 => /\ Number(OrderOf(w), SubSeq(BodyOf(w), 1, kw)) = HeaderSize + n
              /\ SubSeq(BodyOf(w), kw + 1, Len(BodyOf(w))) = v

\* Who follows the protocol finds type and sizes, and behind the header what
\* send_impl sent.
LEMMA MessageRead ==
  ASSUME NEW e \in Order, NEW type \in MessageByte, NEW n \in Nat, NEW v, IsSeq(v),
         NEW c \in Nat, c = Len(v), 2 \in Byte,
         NEW k, k = Compressed(n, c), NEW kw, kw = OriginalBytes(k),
         NEW size, size = FinalSize(n, c), size < Limit, k # 0 => HeaderSize + n < Limit,
         NEW w, w = Header(e, type, n, c) \o v
  PROVE  Finds(w, type, k, kw, n, v)
<1>. DEFINE H == Header(e, type, n, c)
            res == InOrder(e, Residual(size), Word)
            orig == InOrder(e, HeaderSize + n, kw)
<1>0. /\ k \in {0, 1, 2} /\ Word \in Nat \ {0} /\ HeaderSize = 4 + Word
      /\ kw \in Nat /\ (k = 0 => kw = 0) /\ (k = 1 => kw = Word) /\ (k = 2 => kw = 2 * Word)
      /\ ByteValues \in Nat \ {0} /\ FourGB \in Nat \ {0} /\ FourGB = Power(Word)
      /\ Limit \in Nat
  <2>1. k \in {0, 1, 2} BY DEF Compressed
  <2>2. Word \in Nat \ {0} /\ ByteValues \in Nat \ {0} /\ FourGB \in Nat \ {0}
    BY FrameAssumption
  <2>3. kw \in Nat /\ (k = 0 => kw = 0) /\ (k = 1 => kw = Word) /\ (k = 2 => kw = 2 * Word)
    BY <2>1, <2>2 DEF OriginalBytes
  <2>4. Limit \in Nat BY <2>2 DEF Limit
  <2>. QED BY <2>1, <2>2, <2>3, <2>4, MessageAssumption
<1>1. /\ k \in {0, 1, 2} /\ Word \in Nat \ {0} /\ HeaderSize = 4 + Word
      /\ kw \in Nat /\ ByteValues \in Nat \ {0} /\ FourGB \in Nat \ {0}
      /\ size = (HeaderSize + kw) + c
  BY <1>0 DEF FinalSize, HeaderLength, OriginalBytes
<1>a. HeaderSize \in Nat /\ 4 + Word = HeaderSize /\ Word \in Nat /\ kw \in Nat
      /\ size = (HeaderSize + kw) + c
  BY <1>1
<1>2. /\ H \in Seq(Byte) /\ Len(H) = HeaderSize + kw
      /\ H[1] = (IF e = "little" THEN 1 ELSE 0) /\ H[2] = type /\ H[3] = k
      /\ H[4] = Excess(size)
      /\ \A i \in 1..Word : H[4 + i] = res[i]
      /\ \A i \in 1..kw : H[HeaderSize + i] = orig[i]
  <2>1. H = Header(e, type, n, c) OBVIOUS
  <2>. HIDE DEF H
  <2>2. Fields(H, e, type, k, kw, n, size) BY <2>1, HeaderIs
  <2>. QED BY <2>2 DEF Fields
<1>3. PICK R : v \in Seq(R) BY DEF IsSeq
<1>. DEFINE S == Byte \cup R
<1>4. H \in Seq(S) /\ v \in Seq(S)
  <2>1. Byte \subseteq S /\ R \subseteq S OBVIOUS
  <2>. HIDE DEF H, S
  <2>. QED BY <1>2, <1>3, <2>1
<1>. HIDE DEF H, S
<1>5. /\ w \in Seq(S) /\ Len(w) = Len(H) + c
      /\ \A i \in 1..Len(H) : w[i] = H[i]
      /\ \A i \in 1..c : w[Len(H) + i] = v[i]
  BY <1>4, Joined DEF H
<1>6. w[1] = H[1] /\ w[2] = type /\ w[3] = k /\ w[4] = Excess(size)
  <2>1. Len(H) \in Nat /\ Len(H) >= 4
    <3>1. Len(H) = HeaderSize + kw BY <1>2
    <3>. QED BY <1>a, <3>1
  <2>2. 1 \in 1..Len(H) /\ 2 \in 1..Len(H) /\ 3 \in 1..Len(H) /\ 4 \in 1..Len(H) BY <2>1
  <2>. QED BY <1>2, <1>5, <2>2
<1>7. OrderOf(w) = e
  <2>1. e \in {"little", "big"} BY DEF Order
  <2>. QED BY <1>2, <1>6, <2>1 DEF OrderOf
<1>8. Len(w) = size /\ Len(w) = (HeaderSize + kw) + c /\ Len(H) = HeaderSize + kw
  <2>1. Len(w) = Len(H) + c /\ Len(H) = HeaderSize + kw BY <1>2, <1>5
  <2>. QED BY <1>a, <2>1
<1>9. size \in Nat /\ Residual(size) \in Nat /\ Residual(size) < FourGB
      /\ size = Residual(size) + FourGB * (size \div FourGB) /\ size \div FourGB \in Nat
  <2>1. size \in Nat BY <1>1
  <2>2. size % FourGB \in 0..(FourGB - 1) /\ size \div FourGB \in Nat
        /\ size = (size % FourGB) + FourGB * (size \div FourGB)
    BY <1>1, <2>1, DivMod
  <2>. QED BY <1>1, <2>1, <2>2, SMTT(20) DEF Residual
<1>10. Excess(size) = size \div FourGB
  <2>. DEFINE q == size \div FourGB
  <2>1. q < ByteValues /\ q \in Nat
    <3>1. q \in Nat BY <1>9
    <3>2. ASSUME q >= ByteValues PROVE FALSE
      <4>. HIDE DEF q
      <4>1. FourGB * q >= FourGB * ByteValues BY <1>1, <3>1, <3>2
      <4>2. size >= FourGB * q /\ FourGB * q \in Nat
        <5>. DEFINE x == FourGB * q
        <5>1. size = Residual(size) + x BY <1>9 DEF q
        <5>2. x \in Nat BY <1>1, <3>1
        <5>3. Residual(size) \in Nat BY <1>9
        <5>. HIDE DEF x
        <5>4. size >= x BY <5>1, <5>2, <5>3
        <5>. QED BY <5>2, <5>4 DEF x
      <4>3. FourGB * ByteValues = Limit BY <1>1 DEF Limit
      <4>. QED BY <1>0, <1>9, <4>1, <4>2, <4>3, SMTT(20)
    <3>. HIDE DEF q
    <3>. QED BY <1>1, <3>1, <3>2
  <2>. HIDE DEF q
  <2>2. q % ByteValues = q BY <1>1, <2>1, ModSmall
  <2>. QED BY <2>2 DEF Excess, q
<1>11. SubSeq(w, 5, HeaderSize) = res
  <2>1. IsSeq(res) /\ Len(res) = Word BY <1>1, <1>9, InOrderIs DEF IsSeq
  <2>. HIDE DEF res
  <2>2. \A i \in 1..Len(res) : w[4 + i] = res[i]
    <3>1. \A i \in 1..Word : 4 + i \in 1..Len(H) BY <1>1, <1>2, SMTT(20)
    <3>. QED BY <1>2, <1>5, <2>1, <3>1 DEF res
  <2>3. 4 \in Nat /\ 4 + Len(res) <= Len(w) /\ 4 + Len(res) = HeaderSize /\ 4 + 1 = 5
    <3>1. 4 + Len(res) = HeaderSize BY <1>a, <2>1
    <3>2. Len(w) = (HeaderSize + kw) + c BY <1>8
    <3>3. HeaderSize <= Len(w) BY <1>a, <3>2
    <3>. QED BY <3>1, <3>3, SMTT(20)
  <2>4. SubSeq(w, 4 + 1, 4 + Len(res)) = res BY <1>5, <2>1, <2>2, <2>3, PartIs
  <2>. QED BY <2>3, <2>4
<1>12. SizeOf(w) = Len(w)
  <2>1. Number(e, res) = Residual(size)
    <3>. DEFINE m == Residual(size)
    <3>1. m \in Nat /\ m < Power(Word) /\ Word \in Nat /\ res = InOrder(e, m, Word)
      BY <1>0, <1>9
    <3>. HIDE DEF m, res
    <3>2. Number(e, res) = m BY <3>1, NumberRead
    <3>. QED BY <3>2 DEF m
  <2>. HIDE DEF res
  <2>2. SizeOf(w) = FourGB * (size \div FourGB) + Residual(size)
    BY <1>6, <1>7, <1>10, <1>11, <2>1 DEF SizeOf
  <2>. DEFINE x == FourGB * (size \div FourGB)
  <2>3. x \in Nat
    <3>. DEFINE q == size \div FourGB
    <3>1. q \in Nat /\ FourGB \in Nat BY <1>1, <1>9
    <3>. HIDE DEF q
    <3>2. FourGB * q \in Nat BY <3>1
    <3>. QED BY <3>2 DEF q
  <2>4. size = Residual(size) + x /\ Residual(size) \in Nat /\ SizeOf(w) = x + Residual(size)
    BY <1>9, <2>2
  <2>5. Len(w) = size BY <1>8
  <2>. HIDE DEF x
  <2>. QED BY <2>3, <2>4, <2>5
<1>. DEFINE body == SubSeq(w, HeaderSize + 1, Len(w))
            h == HeaderSize
<1>13. /\ body \in Seq(S) /\ Len(body) = kw + c
       /\ \A i \in 1..(kw + c) : body[i] = w[h + i]
  <2>1. h \in Nat /\ Len(w) = h + (kw + c) /\ kw + c \in Nat BY <1>a, <1>8
  <2>. DEFINE m == kw + c
  <2>2. h \in Nat /\ m \in Nat /\ Len(w) = h + m /\ body = SubSeq(w, h + 1, h + m)
    BY <2>1
  <2>. HIDE DEF body, h, m
  <2>3. body \in Seq(S) /\ Len(body) = m /\ \A i \in 1..m : body[i] = w[h + i]
    <3>1. w \in Seq(S) BY <1>5
    <3>2. Remains(body, S, w, h, m) BY <2>2, <3>1 DEF Remains
    <3>3. Remainder(body, S, w, h, m) BY <3>2, TailIs, Zenon
    <3>. QED BY <3>3 DEF Remainder
  <2>. QED BY <2>3 DEF m
<1>14. BodyOf(w) = body BY DEF BodyOf
<1>. HIDE DEF body
<1>15. ASSUME NEW i \in 1..c PROVE body[kw + i] = v[i]
  <2>1. kw + i \in 1..(kw + c) /\ h + (kw + i) = Len(H) + i
    <3>1. kw \in Nat /\ h \in Nat /\ Len(H) = h + kw BY <1>a, <1>8
    <3>. HIDE DEF h
    <3>. QED BY <3>1, SMTT(20)
  <2>2. body[kw + i] = w[h + (kw + i)] BY <1>13, <2>1
  <2>3. w[Len(H) + i] = v[i] BY <1>5
  <2>. QED BY <2>1, <2>2, <2>3
<1>16. SubSeq(body, kw + 1, kw + c) = v
  <2>1. kw \in Nat /\ kw + Len(v) <= Len(body) BY <1>1, <1>13
  <2>. HIDE DEF body
  <2>. QED BY <1>13, <1>15, <2>1, PartIs
<1>17. ASSUME k = 0 PROVE BodyOf(w) = v
  <2>1. kw + 1 = 1 /\ Len(body) = c /\ kw + c = c
    <3>1. kw = 0 /\ Len(body) = kw + c BY <1>0, <1>13, <1>17
    <3>. QED BY <3>1
  <2>2. SubSeq(body, 1, Len(body)) = body
    <3>1. body \in Seq(S) BY <1>13
    <3>. QED BY <3>1
  <2>. QED BY <1>14, <1>16, <2>1, <2>2
<1>18. ASSUME k # 0
       PROVE  /\ Number(OrderOf(w), SubSeq(BodyOf(w), 1, kw)) = HeaderSize + n
              /\ SubSeq(BodyOf(w), kw + 1, Len(BodyOf(w))) = v
  <2>. DEFINE m == HeaderSize + n
  <2>1. m \in Nat /\ kw \in Nat BY <1>1
  <2>2. m < Power(kw)
    <3>1. CASE k = 1
      <4>1. m < FourGB BY <1>18, <3>1 DEF Compressed
      <4>. QED BY <1>0, <3>1, <4>1
    <3>2. CASE k = 2
      <4>1. Word + 1 \in Nat /\ Word + 1 <= kw BY <1>0, <3>2
      <4>2. Power(Word + 1) = Limit BY <1>0, PowerIs DEF Limit
      <4>3. Power(Word + 1) <= Power(kw) /\ Power(kw) \in Nat
        BY <2>1, <4>1, PowerGrows, PowerIs
      <4>. HIDE DEF m
      <4>4. m < Limit BY <1>18 DEF m
      <4>. QED BY <1>0, <2>1, <4>2, <4>3, <4>4
    <3>. QED BY <1>0, <1>18, <3>1, <3>2
  <2>3. orig = InOrder(e, m, kw) OBVIOUS
  <2>. HIDE DEF m, orig
  <2>4. orig \in Seq(Byte) /\ Len(orig) = kw BY <2>1, <2>3, InOrderIs
  <2>5. Number(e, orig) = m BY <2>1, <2>2, <2>3, NumberRead
  <2>6. SubSeq(body, 1, kw) = orig
    <3>1. \A i \in 1..kw : i \in 1..(kw + c) /\ h + i \in 1..Len(H)
      BY <1>a, <1>8
    <3>2. \A i \in 1..kw : body[i] = orig[i]
      <4>1. \A i \in 1..kw : body[i] = w[h + i] BY <1>13, <3>1
      <4>2. \A i \in 1..kw : w[h + i] = H[h + i] BY <1>5, <3>1
      <4>3. \A i \in 1..kw : H[h + i] = orig[i] BY <1>2 DEF orig
      <4>. QED BY <4>1, <4>2, <4>3
    <3>. HIDE DEF body
    <3>3. 0 \in Nat /\ 0 + Len(orig) <= Len(body) BY <1>13, <2>1, <2>4
    <3>4. \A i \in 1..Len(orig) : body[0 + i] = orig[i] BY <2>4, <3>2
    <3>5. IsSeq(orig) BY <2>4 DEF IsSeq
    <3>6. SubSeq(body, 0 + 1, 0 + Len(orig)) = orig BY <1>13, <3>3, <3>4, <3>5, PartIs
    <3>7. 0 + 1 = 1 /\ 0 + Len(orig) = kw BY <2>1, <2>4
    <3>. QED BY <3>6, <3>7
  <2>7. Len(body) = kw + c BY <1>13
  <2>. HIDE DEF body
  <2>. QED BY <1>7, <1>14, <1>16, <2>5, <2>6, <2>7 DEF m
<1>. QED BY <1>6, <1>12, <1>17, <1>18 DEF Finds

\* compress has returned the whole payload, its last header written.
Finished == result = "compressed" => in_idx = in_length /\ WithHeader = out

\* ... which Finish sees to: it is reached with the payload at its end.
LEMMA FinishedStep ==
  ASSUME CacheInv, Finished, [Next]_cvars
  PROVE  Finished'
<1>1. CASE result # "running"
  <2>1. UNCHANGED cvars
    BY <1>1 DEF Next, GiveUp, OpenBlock, Literal, Run, Finish, Working
  <2>. QED BY <2>1 DEF cvars, Finished, WithHeader, in_length
<1>2. CASE result = "running" /\ result' # "compressed" BY <1>2 DEF Finished
<1>3. CASE result = "running" /\ result' = "compressed"
  <2>1. Finish BY <1>3 DEF Next, GiveUp, OpenBlock, Literal, Run, Finish, Working, cvars
  <2>2. in_idx \in 0..in_length /\ in_length \in Nat
    BY CompressAssumption DEF CacheInv, TypeOK, in_length
  <2>3. in_idx' = in_length' BY <2>1, <2>2 DEF Finish, in_length
  <2>4. WithHeader' = out'
    <3>1. /\ out' = WithHeader /\ header_idx' = header_idx
          /\ current_block_header' = current_block_header
      BY <2>1 DEF Finish
    <3>2. IsSeq(out) /\ Len(WithHeader) = Len(out) /\ Len(out) \in Nat /\ header_idx \in Nat
      BY HeaderIsSeq, LengthIsNat DEF CacheInv, TypeOK
    <3>3. CASE header_idx < Len(out)
      <4>1. WithHeader = [out EXCEPT ![header_idx + 1] = current_block_header]
        BY <3>3 DEF WithHeader
      <4>2. WithHeader' = [WithHeader EXCEPT ![header_idx + 1] = current_block_header]
        BY <3>1, <3>2, <3>3 DEF WithHeader
      <4>. QED BY <3>1, <4>1, <4>2
    <3>4. CASE ~(header_idx < Len(out)) BY <3>1, <3>2, <3>4 DEF WithHeader
    <3>. QED BY <3>3, <3>4
  <2>. QED BY <2>3, <2>4 DEF Finished
<1>. QED BY <1>1, <1>2, <1>3

\* Who goes by the protocol finds in a message its type, its size and the
\* payload that send_impl was given, whichever byte order it is in, on either
\* side of 4 GB, unless compress has written what does not replay: with any
\* cache a message that is sent as it is is readable, and so is a compressed one
\* whose blocks the reader can follow.  The payload is small enough for one byte
\* of 4 GBs to count it; one that is compressed exceeds the eight bytes that the
\* buffer of compress is larger by (the code: 17 bytes and more with a header
\* of 8).
THEOREM MessagesReadable ==
  ASSUME 2 \in Byte, HeaderSize + 8 <= MinCompress,
         \A p \in Payload : (HeaderSize + 2 * Word) + Len(p) < Limit
  PROVE  Spec => [](Replays => MessageReadable)
<1>. DEFINE Inv == CacheInv /\ Finished
<1>1. Init => Inv
  <2>1. Init => Finished BY DEF Init, Finished
  <2>. QED BY <2>1, CacheInit
<1>2. Inv /\ [Next]_cvars => Inv' BY CacheStep, FinishedStep
<1>3. Inv /\ WithinBuffer /\ Replays => MessageReadable
  <2>. SUFFICES ASSUME CacheInv, Finished, WithinBuffer, Replays, result # "running",
                       NEW e \in Order, NEW type \in MessageByte
                PROVE  /\ Sent(e, type)[2] = type /\ SizeOf(Sent(e, type)) = Len(Sent(e, type))
                       /\ Unpacked(Sent(e, type)) = in
    BY DEF MessageReadable
  <2>. DEFINE v == IF result = "compressed" THEN out ELSE in
              n == in_length
              c == Len(v)
              k == Compressed(n, c)
              size == FinalSize(n, c)
              w == Header(e, type, n, c) \o v
              kw == OriginalBytes(k)
  <2>1. Sent(e, type) = w BY DEF Sent
  <2>2. in \in Payload /\ in \in Seq(Byte) /\ n \in Nat /\ n = Len(in)
    BY CompressAssumption DEF CacheInv, TypeOK, in_length
  <2>3. IsSeq(v) /\ IsSeq(out)
    <3>1. IsSeq(out) /\ IsSeq(in) BY <2>2 DEF CacheInv, IsSeq
    <3>. QED BY <3>1
  <2>4. c \in Nat
    <3>. HIDE DEF v
    <3>. QED BY <2>3, LengthIsNat
  <2>5. /\ HeaderSize \in Nat /\ MinCompress \in Nat /\ Word \in Nat
        /\ ByteValues * FourGB \in Nat
    BY FrameAssumption
  <2>6. n > 8
    <3>1. MinCompress < HeaderSize + n BY <2>2, MessageAssumption
    <3>. HIDE DEF n
    <3>. QED BY <2>2, <2>5, <3>1
  <2>7. c <= n /\ (result = "compressed" => c < n) /\ (result # "compressed" => c = n)
    <3>1. CASE result = "compressed"
      <4>1. Len(out) <= (8 + n) \div 2 /\ c = Len(out) BY <3>1 DEF WithinBuffer, out_length
      <4>2. (8 + n) \div 2 < n /\ (8 + n) \div 2 \in Nat
        <5>. HIDE DEF n
        <5>. QED BY <2>2, <2>6
      <4>. HIDE DEF c, n
      <4>. QED BY <2>2, <2>4, <3>1, <4>1, <4>2
    <3>2. CASE result # "compressed" BY <2>2, <3>2
    <3>. QED BY <3>1, <3>2
  <2>8. k \in {0, 1, 2} /\ (k = 0 <=> result # "compressed")
    <3>. HIDE DEF c, n, v
    <3>1. k = IF c >= n THEN 0 ELSE IF HeaderSize + n < FourGB THEN 1 ELSE 2 BY DEF Compressed
    <3>. HIDE DEF k
    <3>. QED BY <2>2, <2>4, <2>7, <3>1
  <2>9. size < Limit /\ HeaderSize + n < Limit
    <3>1. (HeaderSize + 2 * Word) + n < Limit BY <2>2
    <3>2. kw \in Nat /\ kw <= 2 * Word BY <2>5, <2>8 DEF OriginalBytes
    <3>3. size = (HeaderSize + kw) + c BY DEF FinalSize, HeaderLength, OriginalBytes
    <3>4. Limit \in Nat BY <2>5 DEF Limit
    <3>. HIDE DEF size, c, n, v, k, kw
    <3>. QED BY <2>2, <2>4, <2>5, <2>7, <3>1, <3>2, <3>3, <3>4
  <2>. HIDE DEF v, n, c, k, size, w, kw
  <2>10. Finds(w, type, k, kw, n, v)
    <3>1. /\ c = Len(v) /\ k = Compressed(n, c) /\ size = FinalSize(n, c)
          /\ w = Header(e, type, n, c) \o v /\ kw = OriginalBytes(k)
      BY DEF c, k, size, w, kw
    <3>. QED BY <2>2, <2>3, <2>4, <2>9, <3>1, MessageRead
  <2>11. Unpacked(w) = in
    <3>1. CASE k = 0
      <4>1. v = in BY <2>8, <3>1 DEF v
      <4>. QED BY <2>10, <3>1, <4>1 DEF Unpacked, Finds
    <3>2. CASE k # 0
      <4>1. result = "compressed" /\ v = out BY <2>8, <3>2 DEF v
      <4>2. Unpacked(w) = Read(v, (HeaderSize + n) - HeaderSize) BY <2>10, <3>2 DEF Unpacked, Finds, kw, OriginalBytes
      <4>3. (HeaderSize + n) - HeaderSize = n BY <2>2, <2>5
      <4>4. Read(WithHeader, in_idx) = SubSeq(in, 1, in_idx) BY <4>1 DEF Replays
      <4>5. in_idx = n /\ WithHeader = out BY <4>1 DEF Finished, n
      <4>6. SubSeq(in, 1, n) = in BY <2>2
      <4>. QED BY <4>1, <4>2, <4>3, <4>4, <4>5, <4>6
    <3>. QED BY <3>1, <3>2
  <2>. QED BY <2>1, <2>10, <2>11 DEF Finds
<1>4. Spec => []Inv BY <1>1, <1>2, PTL DEF Spec
<1>. HIDE DEF Inv
<1>. QED BY <1>3, <1>4, WritesWithinBuffer, PTL

\* With a cache that starts with zeros, which the code's does not
\* (main.cpp:598), every message is readable, compressed or not.
THEOREM ZeroedCacheReadable ==
  ASSUME Stale = {0}, Bits <= 8, 2 \in Byte, HeaderSize + 8 <= MinCompress,
         \A p \in Payload : (HeaderSize + 2 * Word) + Len(p) < Limit
  PROVE  Spec => []MessageReadable
<1>1. Spec => []Replays BY CompressionReplays
<1>2. Spec => [](Replays => MessageReadable) BY MessagesReadable
<1>. QED BY <1>1, <1>2, PTL
=============================================================================
