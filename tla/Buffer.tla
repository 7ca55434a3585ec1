------------------------------- MODULE Buffer -------------------------------
(***************************************************************************)
(* Buffer: bytes in an announced byte order.  A value is the sequence of   *)
(* its bytes as this machine keeps them in memory, which is what the code  *)
(* reverses and copies.  Indices are those of the code, from 0; no         *)
(* operation looks at the buffer's size, so callers stay inside it.        *)
(***************************************************************************)
EXTENDS Integers, Sequences

CONSTANT Native   \* std::endian::native

Order == {"little", "big"}

ASSUME NativeAssumption == Native \in Order

-----------------------------------------------------------------------------
\* std::reverse_copy
Swapped(t) == [i \in 1..Len(t) |-> t[Len(t) + 1 - i]]

to_native_endian(t, val_endian) ==
  IF val_endian = Native \/ Len(t) = 1 THEN t ELSE Swapped(t)

NewBuffer(bytes, endianness) == [bytes |-> bytes, endianness |-> endianness]

set_endianness(buf, endianness) == [buf EXCEPT !.endianness = endianness]

Fits(buf, size, idx) == idx \in Nat /\ idx + size <= Len(buf.bytes)

\* The bytes from idx on become those of value in the buffer's order.
write_at(buf, value, idx) ==
  LET raw == to_native_endian(value, buf.endianness) IN
  [buf EXCEPT !.bytes = [i \in 1..Len(buf.bytes) |->
     IF i - idx \in 1..Len(value) THEN raw[i - idx] ELSE buf.bytes[i]]]

read_at(buf, size, idx) ==
  to_native_endian([i \in 1..size |-> buf.bytes[idx + i]], buf.endianness)

\* The same, and the index behind it.
write(buf, value, idx) == [buf |-> write_at(buf, value, idx), idx |-> idx + Len(value)]
read(buf, size, idx)   == [value |-> read_at(buf, size, idx), idx |-> idx + size]
=============================================================================
