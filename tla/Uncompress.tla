----------------------------- MODULE Uncompress -----------------------------
(***************************************************************************)
(* What compress must achieve: the reader of the wire format gets the      *)
(* payload back.  The reader is uncompress of c.java, the client that      *)
(* SocketConnection::decompress names as its original, with indices that   *)
(* start at the payload.  It rebuilds the writer's cache from what it has  *)
(* decoded, so writer and reader must agree at every token on where each   *)
(* xor was seen last.                                                      *)
(***************************************************************************)
EXTENDS Compress, FiniteSetsExt

\* The reader: d next cell of the wire, dst the bytes so far, aa its cache,
\* p the first position not yet in the cache, f and i the block header and
\* its mask (as a bit).
Reader == [d |-> 0, dst |-> <<>>, aa |-> [h \in Byte |-> 0], p |-> 0, f |-> 0, i |-> Bits]

\* The positions before the last byte, entered in the order they come.
Noted(aa, p, dst) ==
  [h \in Byte |->
     LET ps == {q \in p..(Len(dst) - 2) : Xor[<<dst[q + 1], dst[q + 2]>>] = h}
     IN  IF ps = {} THEN aa[h] ELSE Max(ps)]

\* n bytes from r on, copied one by one: a run that reaches its own output
\* repeats it, one that starts beyond it copies zeros.
CopyRun(dst, r, n) ==
  dst \o [j \in 1..n |-> IF r < Len(dst) THEN dst[r + 1 + ((j - 1) % (Len(dst) - r))] ELSE 0]

\* One turn of the loop on the wire w, its header byte read if one is due.
ReadToken(w, s) ==
  LET due == s.i = Bits
      f == IF due THEN w[s.d + 1] ELSE s.f
      i == IF due THEN 0 ELSE s.i
      d == IF due THEN s.d + 1 ELSE s.d
      run == (f \div 2^i) % 2 = 1
      n  == IF run THEN w[d + 2] ELSE 0
      two == IF run THEN CopyRun(s.dst, s.aa[w[d + 1]], 2) ELSE Append(s.dst, w[d + 1])
      all == IF run THEN CopyRun(two, s.aa[w[d + 1]] + 2, n) ELSE two
      q  == LET last == Len(two) - 1 IN IF s.p < last THEN last ELSE s.p
  IN [d |-> d + (IF run THEN 2 ELSE 1), dst |-> all, aa |-> Noted(s.aa, s.p, two),
      p |-> IF run THEN Len(all) ELSE q, f |-> f, i |-> i + 1]

\* The reader's loop, until it has `length' bytes: every turn adds one at
\* least.
Turn(w, length, s) == IF Len(s.dst) >= length THEN s ELSE ReadToken(w, s)

Read(w, length) ==
  LET after[k \in Nat] == IF k = 0 THEN Reader ELSE Turn(w, length, after[k - 1])
  IN  after[length].dst

-----------------------------------------------------------------------------
\* Whole blocks stand for what was read until then: the reader decodes them
\* to exactly that part of the payload (the wire format of the class
\* comment, main.cpp:514-536), runs that overlap themselves included.
Replays == (bit = Bits /\ result = "running") \/ result = "compressed" =>
             Read(WithHeader, in_idx) = SubSeq(in, 1, in_idx)
=============================================================================
