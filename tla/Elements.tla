------------------------------ MODULE Elements ------------------------------
(***************************************************************************)
(* Element access by index and by Iterator, and how a SymbolReference      *)
(* compares.  A pointer is an index into the buffer of one vector, the     *)
(* first element being at 0; it may point beyond either end.               *)
(***************************************************************************)
EXTENDS Integers, Sequences, SequencesExt

-----------------------------------------------------------------------------
(* Iterator<T, Const, Reverse> over the values vs.                         *)

direction(reverse) == IF reverse THEN -1 ELSE 1

begin(vs)  == [m_ptr |-> 0, reverse |-> FALSE]
end(vs)    == [m_ptr |-> Len(vs), reverse |-> FALSE]

\* A plausible slip: the end, where the last element is meant.
rbegin_AtEnd(vs) == [m_ptr |-> Len(vs), reverse |-> TRUE]

rbegin(vs) == [m_ptr |-> Len(vs) - 1, reverse |-> TRUE]
rend(vs)   == [m_ptr |-> -1, reverse |-> TRUE]

\* Pointer arithmetic, of a SymbolPointer as of any other pointer.
Moved(ptr, k) == ptr + k

add(it, k) == Moved(it.m_ptr, direction(it.reverse) * k)
sub(it, k) == Moved(it.m_ptr, -(direction(it.reverse) * k))

\* ++it, --it, it += k, it -= k.
inc(it) == [it EXCEPT !.m_ptr = Moved(@, direction(it.reverse))]
dec(it) == [it EXCEPT !.m_ptr = Moved(@, -direction(it.reverse))]
PlusAssign(it, k)  == [it EXCEPT !.m_ptr = add(it, k)]
MinusAssign(it, k) == [it EXCEPT !.m_ptr = sub(it, k)]

\* it++, it--: the iterator as it was, and as it is then.
PostIncrement(it) == [tmp |-> it, it |-> inc(it)]
PostDecrement(it) == [tmp |-> it, it |-> dec(it)]

\* *it and it[k]; only inside the buffer do they mean anything.
Readable(vs, it) == it.m_ptr \in 0..(Len(vs) - 1)
Deref(vs, it)    == vs[it.m_ptr + 1]
Subscript(vs, it, k) == vs[Moved(it.m_ptr, direction(it.reverse) * k) + 1]

-----------------------------------------------------------------------------
(* SymbolReference.  A symbol is a string without a zero in it; characters *)
(* are positive numbers.                                                   *)

\* The character at index i of a zero-terminated string.
At(s, i) == IF i < Len(s) THEN s[i + 1] ELSE 0

Sign(i) == IF i < 0 THEN -1 ELSE IF i > 0 THEN 1 ELSE 0

\* strncmp(s, v, k): up to the first difference, or the end of both.
strncmp(s, v, k) ==
  LET differ == {i \in 0..(k - 1) : At(s, i) # At(v, i)}
  IN  IF differ = {} THEN 0
      ELSE LET i == CHOOSE i \in differ : \A j \in differ : i <= j
           IN  Sign(At(s, i) - At(v, i))

\* A plausible slip: a symbol that goes on behind the view is not noticed.
CompareView_Prefix(s, v) == strncmp(s, v, Len(v))

\* operator<=>(string_view)
CompareView(s, v) == LET res == strncmp(s, v, Len(v)) IN
                       IF res = 0 THEN (IF At(s, Len(v)) # 0 THEN 1 ELSE 0) ELSE res

\* operator<=>(SymbolReference), by strcmp
CompareSymbol(s, r) == strncmp(s, r, (IF Len(s) < Len(r) THEN Len(r) ELSE Len(s)) + 1)

\* The order that is meant: the first place where both differ decides.
Lexicographic(s, v) ==
  IF s = v THEN 0
  ELSE IF IsPrefix(s, v) THEN -1
  ELSE IF IsPrefix(v, s) THEN 1
  ELSE LET i == CHOOSE i \in DOMAIN s \cap DOMAIN v :
                  s[i] # v[i] /\ \A j \in 1..(i - 1) : s[j] = v[j]
       IN  IF s[i] < v[i] THEN -1 ELSE 1
=============================================================================
