------------------------------- MODULE Frame -------------------------------
(***************************************************************************)
(* The sizes in a message: what Serializer makes, how send_impl lays out   *)
(* header and payload, and how recv finds the payload's size again.        *)
(* Contents are left out.  The limits are parameters, so that TLC meets    *)
(* messages on both sides of each.                                         *)
(***************************************************************************)
EXTENDS Integers

CONSTANTS FourGB,       \* a size field's values: 2^32 in the code
          TwoGB,        \* what a level below 5 refuses: 2^31
          TwoBillion,   \* the most elements of an array below level 6
          ByteValues,   \* values of the byte of excess size: 256
          HeaderSize,   \* 8
          Word,         \* bytes of a uint32_t: 4
          Reordered,      \* a uint32_t with its bytes in the other order
          MinCompress   \* messages of no more bytes are sent as they are: 2000

ASSUME FrameAssumption ==
  /\ FourGB \in Nat \ {0} /\ TwoGB \in Nat /\ TwoBillion \in Nat
  /\ ByteValues \in Nat \ {0}
  /\ HeaderSize \in Nat \ {0} /\ Word \in Nat \ {0} /\ MinCompress \in Nat
  /\ Reordered \in [0..(FourGB - 1) -> 0..(FourGB - 1)]

Level == (0..6) \ {4}

-----------------------------------------------------------------------------
(* Serializer.  A type is given by the bytes of its value and the level it *)
(* needs: 3 for a GUID, 1 for a timestamp or a timespan, 0 for the others. *)

SupportsType(level, needs) == needs <= level

\* An array of n elements, or an atom; 0 stands for "throws".
BigArray(n) == n >= FourGB
ArraySize(level, needs, width, n) ==
  IF ~SupportsType(level, needs) \/ (level < 6 /\ n > TwoBillion) THEN 0
  ELSE 2 + (IF BigArray(n) THEN 2 * Word ELSE Word) + n * width
AtomSize(level, needs, width) ==
  IF SupportsType(level, needs) THEN 1 + width ELSE 0

-----------------------------------------------------------------------------
(* send_impl.  n is the size of the payload, c its size after compress     *)
(* was tried (n when it was not, or gave up).                              *)

Refuses(level, n) == HeaderSize + n >= TwoGB /\ level < 5

TriesCompress(level, local, n) == 0 < level /\ ~local /\ MinCompress < HeaderSize + n

Compressed(n, c) == IF c >= n THEN 0 ELSE IF HeaderSize + n < FourGB THEN 1 ELSE 2

\* The header, with the original size behind it if the payload is compressed.
HeaderLength(n, c) == HeaderSize + Compressed(n, c) * Word

FinalSize(n, c) == HeaderLength(n, c) + c

\* Bytes 3 and 4..7 of the header.
Excess(size)   == (size \div FourGB) % ByteValues
Residual(size) == size % FourGB

-----------------------------------------------------------------------------
(* recv: everything behind the first HeaderSize bytes is payload.          *)

\* A plausible slip: the size is taken for that of the payload.
PayloadSize_OfPayload(excess, residual) == FourGB * excess + residual

\* A plausible slip: an original size is taken off, compressed or not.
PayloadSize_OfCompressed(excess, residual) ==
  FourGB * excess + residual - HeaderSize - 2 * Word

PayloadSize(excess, residual) == FourGB * excess + residual - HeaderSize

\* What the header of a message of this size says to a reader that minds the
\* order it is written in, as a q process does.
Announced(size) == PayloadSize(Excess(size), Residual(size))

\* What recv makes of it.  It reads the word in the machine's order, whatever
\* the header's first byte says of the order (main.cpp:867-875).
Received(size, native) ==
  PayloadSize(Excess(size), IF native THEN Residual(size) ELSE Reordered[Residual(size)])

\* Up to the 1 TB that one byte of excess size can say (main.cpp:509), recv
\* waits for exactly the bytes that are left of the message, the two send
\* calls' sizes less the header it has read, if the header is in the machine's
\* order; otherwise only if the word reads the same in both orders.
Survives(n, c, native) ==
  LET size == FinalSize(n, c) IN
  size < ByteValues * FourGB =>
    /\ Announced(size) = c + (HeaderLength(n, c) - HeaderSize)
    /\ Received(size, native) = Announced(size) <=>
         native \/ Reordered[Residual(size)] = Residual(size)
=============================================================================
