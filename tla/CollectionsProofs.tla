------------------------- MODULE CollectionsProofs -------------------------
(***************************************************************************)
(* The wrappers and the objects they share.  What keeps every wrapper      *)
(* right while others write to its object is that no operation changes an  *)
(* object's type, shortens it or touches a dictionary (Grown); the rest    *)
(* is a case analysis of the operations.  Comparison, iteration and the    *)
(* order of symbols are facts about the values that such objects hold.     *)
(* That a list holds values of one type only needs more: a label on every  *)
(* object, and that the walk of inner_type_impl, whatever it reads, finds  *)
(* in a list no other type than the one on its label.                      *)
(***************************************************************************)
EXTENDS Collections, NumberFacts, SequenceTheorems

-----------------------------------------------------------------------------
(* Symbols.                                                                *)

Str == Seq(Nat \ {0})

\* The character at an index: positive inside the string, 0 behind it.
LEMMA Characters ==
  ASSUME NEW s \in Str, NEW i \in Nat
  PROVE  /\ At(s, i) \in Nat
         /\ i < Len(s) => At(s, i) = s[i + 1] /\ At(s, i) > 0 /\ i + 1 \in 1..Len(s)
         /\ i >= Len(s) => At(s, i) = 0
<1>1. Len(s) \in Nat BY DEF Str
<1>2. CASE i < Len(s)
  <2>1. i + 1 \in 1..Len(s) BY <1>1, <1>2
  <2>2. s[i + 1] \in Nat \ {0} BY <2>1 DEF Str
  <2>. QED BY <1>1, <1>2, <2>1, <2>2 DEF At
<1>3. CASE i >= Len(s) BY <1>1, <1>3 DEF At
<1>. QED BY <1>1, <1>2, <1>3

\* strncmp of strings that agree up to k.
LEMMA NoDifference ==
  ASSUME NEW s \in Str, NEW v \in Str, NEW k \in Nat,
         \A i \in 0..(k - 1) : At(s, i) = At(v, i)
  PROVE  strncmp(s, v, k) = 0
<1>1. {i \in 0..(k - 1) : At(s, i) # At(v, i)} = {} OBVIOUS
<1>. QED BY <1>1 DEF strncmp

\* strncmp of strings that first differ at i.
LEMMA FirstDifference ==
  ASSUME NEW s \in Str, NEW v \in Str, NEW k \in Nat, NEW i \in 0..(k - 1),
         At(s, i) # At(v, i), \A j \in 0..(i - 1) : At(s, j) = At(v, j)
  PROVE  /\ At(s, i) < At(v, i) => strncmp(s, v, k) = -1
         /\ At(s, i) > At(v, i) => strncmp(s, v, k) = 1
<1>. DEFINE differ == {j \in 0..(k - 1) : At(s, j) # At(v, j)}
<1>1. i \in differ /\ \A j \in differ : i <= j
  <2>1. i \in differ OBVIOUS
  <2>2. ASSUME NEW j \in differ, ~(i <= j) PROVE FALSE
    <3>1. j \in 0..(i - 1) /\ At(s, j) # At(v, j) BY <2>2
    <3>. QED BY <3>1
  <2>. QED BY <2>1, <2>2
<1>2. ASSUME NEW m \in differ, \A j \in differ : m <= j PROVE m = i
  <2>1. m <= i /\ i <= m BY <1>1, <1>2, Zenon
  <2>2. m \in Int /\ i \in Int OBVIOUS
  <2>. QED BY <2>1, <2>2
<1>3. strncmp(s, v, k) = LET m == CHOOSE m \in differ : \A j \in differ : m <= j
                         IN  Sign(At(s, m) - At(v, m))
  BY <1>1 DEF strncmp
<1>4. (CHOOSE m \in differ : \A j \in differ : m <= j) = i
  <2>. HIDE DEF differ
  <2>. QED BY <1>1, <1>2
<1>5. strncmp(s, v, k) = Sign(At(s, i) - At(v, i))
  <2>. HIDE DEF differ
  <2>. QED BY <1>3, <1>4
<1>6. At(s, i) \in Nat /\ At(v, i) \in Nat BY Characters
<1>. QED BY <1>5, <1>6 DEF Sign

\* A prefix, by its characters.
LEMMA PrefixMeans ==
  ASSUME NEW s \in Str, NEW v \in Str
  PROVE  IsPrefix(s, v) <=> Len(s) <= Len(v) /\ \A i \in 1..Len(s) : s[i] = v[i]
<1>1. Len(s) \in Nat /\ Len(v) \in Nat BY DEF Str
<1>2. ASSUME Len(s) <= Len(v)
      PROVE  SubSeq(s, 1, Len(s)) = SubSeq(v, 1, Len(s)) <=> \A i \in 1..Len(s) : s[i] = v[i]
  <2>. DEFINE a == SubSeq(s, 1, Len(s))
              b == SubSeq(v, 1, Len(s))
  <2>1. \A i \in 1..Len(s) : s[i] \in Nat \ {0} /\ v[i] \in Nat \ {0} BY <1>1, <1>2 DEF Str
  <2>2. /\ a \in Str /\ Len(a) = Len(s) /\ \A i \in 1..Len(s) : a[i] = s[i]
        /\ b \in Str /\ Len(b) = Len(s) /\ \A i \in 1..Len(s) : b[i] = v[i]
    BY <1>1, <1>2, <2>1, SubSeqProperties DEF Str
  <2>. HIDE DEF a, b
  <2>3. a = b <=> \A i \in 1..Len(s) : a[i] = b[i] BY <1>1, <2>2, SeqEqual DEF Str
  <2>. QED BY <2>2, <2>3 DEF a, b
<1>. QED BY <1>2 DEF IsPrefix

\* Two strings of which one is a beginning of the other differ in length.
LEMMA PrefixShorter ==
  ASSUME NEW s \in Str, NEW v \in Str, IsPrefix(s, v), s # v
  PROVE  /\ Len(s) \in Nat /\ Len(v) \in Nat /\ Len(s) < Len(v)
         /\ \A i \in 0..(Len(s) - 1) : At(s, i) = At(v, i)
         /\ At(s, Len(s)) = 0 /\ At(v, Len(s)) > 0
<1>1. Len(s) \in Nat /\ Len(v) \in Nat BY DEF Str
<1>2. Len(s) <= Len(v) /\ \A i \in 1..Len(s) : s[i] = v[i] BY PrefixMeans
<1>3. Len(s) # Len(v)
  <2>1. ASSUME Len(s) = Len(v) PROVE s = v BY <1>1, <1>2, <2>1, SeqEqual DEF Str
  <2>. QED BY <2>1
<1>4. ASSUME NEW i \in 0..(Len(s) - 1) PROVE At(s, i) = At(v, i)
  <2>1. i \in Nat /\ i < Len(s) /\ i < Len(v) /\ i + 1 \in 1..Len(s) BY <1>1, <1>2
  <2>2. At(s, i) = s[i + 1] /\ At(v, i) = v[i + 1] BY <2>1, Characters
  <2>. QED BY <1>2, <2>1, <2>2
<1>5. Len(s) < Len(v) BY <1>1, <1>2, <1>3
<1>6. At(s, Len(s)) = 0 /\ At(v, Len(s)) > 0 BY <1>1, <1>5, Characters
<1>. QED BY <1>1, <1>4, <1>5, <1>6

\* Two strings of which neither is a beginning of the other.
LEMMA Disagreement ==
  ASSUME NEW s \in Str, NEW v \in Str, ~IsPrefix(s, v), ~IsPrefix(v, s)
  PROVE  \E i \in Nat : /\ i < Len(s) /\ i < Len(v) /\ s[i + 1] # v[i + 1]
                        /\ \A j \in 1..i : s[j] = v[j]
<1>. DEFINE T == {i \in Nat : i < Len(s) /\ i < Len(v) /\ s[i + 1] # v[i + 1]}
<1>1. Len(s) \in Nat /\ Len(v) \in Nat BY DEF Str
<1>2. ASSUME NEW i \in 1..Len(s), i <= Len(v), s[i] # v[i] PROVE i - 1 \in T
  <2>1. i - 1 \in Nat /\ i - 1 < Len(s) /\ i - 1 < Len(v) /\ (i - 1) + 1 = i BY <1>1, <1>2
  <2>. QED BY <1>2, <2>1
<1>3. T # {}
  <2>1. CASE Len(s) <= Len(v)
    <3>1. PICK i \in 1..Len(s) : s[i] # v[i] BY <2>1, PrefixMeans
    <3>2. i <= Len(v) BY <1>1, <2>1
    <3>. QED BY <1>2, <3>1, <3>2
  <2>2. CASE Len(v) <= Len(s)
    <3>1. PICK i \in 1..Len(v) : v[i] # s[i] BY <2>2, PrefixMeans
    <3>2. i \in 1..Len(s) /\ i <= Len(v) BY <1>1, <2>2
    <3>. QED BY <1>2, <3>1, <3>2
  <2>. QED BY <1>1, <2>1, <2>2
<1>4. PICK i \in T : \A k \in T : i <= k
  <2>1. T \in SUBSET Nat OBVIOUS
  <2>. HIDE DEF T
  <2>. QED BY <1>3, <2>1, LeastNumber
<1>5. ASSUME NEW j \in 1..i, s[j] # v[j] PROVE FALSE
  <2>1. j \in 1..Len(s) /\ j <= Len(v) BY <1>1
  <2>2. j - 1 \in T BY <1>2, <1>5, <2>1
  <2>3. i <= j - 1 BY <1>4, <2>2
  <2>4. i \in Nat /\ j \in Nat /\ j <= i OBVIOUS
  <2>. QED BY <2>3, <2>4
<1>. QED BY <1>5

\* The first place where two strings differ decides.
LEMMA DisagreementDecides ==
  ASSUME NEW s \in Str, NEW v \in Str, ~IsPrefix(s, v), ~IsPrefix(v, s), NEW k \in Nat,
         k >= Len(s) \/ k >= Len(v)
  PROVE  strncmp(s, v, k) = Lexicographic(s, v) /\ Lexicographic(s, v) # 0
<1>1. Len(s) \in Nat /\ Len(v) \in Nat BY DEF Str
<1>2. PICK i \in Nat : /\ i < Len(s) /\ i < Len(v) /\ s[i + 1] # v[i + 1]
                       /\ \A j \in 1..i : s[j] = v[j]
  BY Disagreement
<1>3. i \in 0..(k - 1) BY <1>1, <1>2
<1>4. /\ At(s, i) = s[i + 1] /\ At(v, i) = v[i + 1]
      /\ At(s, i) \in Nat /\ At(v, i) \in Nat
  BY <1>2, Characters
<1>5. ASSUME NEW j \in 0..(i - 1) PROVE At(s, j) = At(v, j)
  <2>1. j \in Nat /\ j < Len(s) /\ j < Len(v) /\ j + 1 \in 1..i BY <1>1, <1>2
  <2>2. At(s, j) = s[j + 1] /\ At(v, j) = v[j + 1] BY <2>1, Characters
  <2>. QED BY <1>2, <2>1, <2>2
<1>6. /\ At(s, i) < At(v, i) => strncmp(s, v, k) = -1
      /\ At(s, i) > At(v, i) => strncmp(s, v, k) = 1
  BY <1>2, <1>3, <1>4, <1>5, FirstDifference
<1>. DEFINE first(a) == s[a] # v[a] /\ \A j \in 1..(a - 1) : s[j] = v[j]
            D == DOMAIN s \cap DOMAIN v
<1>7. DOMAIN s = 1..Len(s) /\ DOMAIN v = 1..Len(v) BY DEF Str
<1>8. (CHOOSE a \in D : first(a)) = i + 1
  <2>1. i + 1 \in D /\ first(i + 1)
    <3>1. i + 1 \in D BY <1>1, <1>2, <1>7
    <3>2. (i + 1) - 1 = i BY <1>2
    <3>. QED BY <1>2, <3>1, <3>2
  <2>2. ASSUME NEW a \in D, first(a) PROVE a = i + 1
    <3>1. a \in Nat /\ a >= 1 BY <1>1, <1>7
    <3>2. CASE a < i + 1
      <4>1. a \in 1..i BY <1>2, <3>1, <3>2
      <4>. QED BY <1>2, <2>2, <4>1
    <3>3. CASE a > i + 1
      <4>1. i + 1 \in 1..(a - 1) BY <1>2, <3>1, <3>3
      <4>. QED BY <1>2, <2>2, <4>1
    <3>. QED BY <1>2, <3>1, <3>2, <3>3
  <2>. HIDE DEF first, D
  <2>. QED BY <2>1, <2>2
<1>9. s # v BY <1>2
<1>10. Lexicographic(s, v) = IF s[i + 1] < v[i + 1] THEN -1 ELSE 1
  <2>1. Lexicographic(s, v) = LET a == CHOOSE a \in D : first(a)
                              IN  IF s[a] < v[a] THEN -1 ELSE 1
    BY <1>9 DEF Lexicographic
  <2>. HIDE DEF D, first
  <2>. QED BY <1>8, <2>1
<1>11. At(s, i) < At(v, i) \/ At(s, i) > At(v, i) BY <1>2, <1>4
<1>. QED BY <1>4, <1>6, <1>10, <1>11

\* Both comparisons of a SymbolReference are those of the strings.
LEMMA ComparesRight ==
  ASSUME NEW s \in Str, NEW v \in Str
  PROVE  /\ CompareView(s, v) = Lexicographic(s, v)
         /\ CompareSymbol(s, v) = Lexicographic(s, v)
<1>. DEFINE longer == (IF Len(s) < Len(v) THEN Len(v) ELSE Len(s)) + 1
<1>1. /\ Len(s) \in Nat /\ Len(v) \in Nat /\ longer \in Nat
      /\ longer > Len(s) /\ longer > Len(v)
  BY DEF Str
<1>2. CompareSymbol(s, v) = strncmp(s, v, longer) BY DEF CompareSymbol
<1>. HIDE DEF longer
<1>3. CASE s = v
  <2>1. strncmp(s, v, Len(v)) = 0 /\ strncmp(s, v, longer) = 0 BY <1>1, <1>3, NoDifference
  <2>2. At(s, Len(v)) = 0 BY <1>1, <1>3, Characters
  <2>. QED BY <1>2, <1>3, <2>1, <2>2 DEF CompareView, Lexicographic
<1>4. CASE s # v /\ IsPrefix(s, v)
  <2>1. /\ Len(s) < Len(v) /\ \A i \in 0..(Len(s) - 1) : At(s, i) = At(v, i)
        /\ At(s, Len(s)) = 0 /\ At(v, Len(s)) > 0
    BY <1>4, PrefixShorter
  <2>2. Len(s) \in 0..(Len(v) - 1) /\ Len(s) \in 0..(longer - 1) BY <1>1, <2>1
  <2>3. At(s, Len(s)) # At(v, Len(s)) /\ At(s, Len(s)) < At(v, Len(s)) BY <2>1
  <2>4. strncmp(s, v, Len(v)) = -1 /\ strncmp(s, v, longer) = -1
    BY <1>1, <2>1, <2>2, <2>3, FirstDifference
  <2>. QED BY <1>2, <1>4, <2>4 DEF CompareView, Lexicographic
<1>5. CASE s # v /\ ~IsPrefix(s, v) /\ IsPrefix(v, s)
  <2>1. /\ Len(v) < Len(s) /\ \A i \in 0..(Len(v) - 1) : At(v, i) = At(s, i)
        /\ At(v, Len(v)) = 0 /\ At(s, Len(v)) > 0
    BY <1>5, PrefixShorter
  <2>2. strncmp(s, v, Len(v)) = 0 BY <1>1, <2>1, NoDifference
  <2>3. Len(v) \in 0..(longer - 1) BY <1>1
  <2>4. At(s, Len(v)) # At(v, Len(v)) /\ At(s, Len(v)) > At(v, Len(v)) BY <2>1
  <2>5. strncmp(s, v, longer) = 1 BY <1>1, <2>1, <2>3, <2>4, FirstDifference
  <2>6. CompareView(s, v) = 1 BY <2>1, <2>2, <2>4 DEF CompareView
  <2>. QED BY <1>2, <1>5, <2>5, <2>6 DEF Lexicographic
<1>6. CASE s # v /\ ~IsPrefix(s, v) /\ ~IsPrefix(v, s)
  <2>1. /\ strncmp(s, v, Len(v)) = Lexicographic(s, v)
        /\ strncmp(s, v, longer) = Lexicographic(s, v)
        /\ Lexicographic(s, v) # 0
    BY <1>1, <1>6, DisagreementDecides
  <2>. QED BY <1>2, <2>1 DEF CompareView
<1>. QED BY <1>3, <1>4, <1>5, <1>6

-----------------------------------------------------------------------------
(* Iterators.                                                              *)

\* Every step of ++ and -- is one of += and -=.
LEMMA StepsAgree ==
  ASSUME NEW p \in Int, NEW reverse \in BOOLEAN, NEW k \in Nat
  PROVE  LET from == [m_ptr |-> p, reverse |-> reverse]
             at(j) == PlusAssign(from, j)
         IN  /\ at(k) = [m_ptr |-> IF reverse THEN p - k ELSE p + k, reverse |-> reverse]
             /\ PostIncrement(at(k)) = [tmp |-> at(k), it |-> at(k + 1)]
             /\ PostDecrement(at(k + 1)) = [tmp |-> at(k + 1), it |-> at(k)]
             /\ MinusAssign(at(k), k) = from
<1>. DEFINE from == [m_ptr |-> p, reverse |-> reverse]
            place(j) == IF reverse THEN p - j ELSE p + j
            there(j) == [m_ptr |-> place(j), reverse |-> reverse]
<1>1. ASSUME NEW j \in Nat
      PROVE  /\ PlusAssign(from, j) = there(j)
             /\ place(j) \in Int
             /\ inc(there(j)) = there(j + 1)
             /\ dec(there(j + 1)) = there(j)
             /\ MinusAssign(there(j), j) = from
  <2>1. CASE reverse
    <3>1. direction(reverse) = -1 /\ place(j) = p - j /\ place(j + 1) = p - (j + 1)
      BY <2>1 DEF direction
    <3>2. /\ p + (-1) * j = p - j /\ (p - j) + (-1) = p - (j + 1)
          /\ (p - (j + 1)) + (-(-1)) = p - j /\ (p - j) + (-((-1) * j)) = p
      OBVIOUS
    <3>. QED BY <3>1, <3>2 DEF PlusAssign, MinusAssign, add, sub, inc, dec, Moved
  <2>2. CASE ~reverse
    <3>1. direction(reverse) = 1 /\ place(j) = p + j /\ place(j + 1) = p + (j + 1)
      BY <2>2 DEF direction
    <3>2. /\ p + 1 * j = p + j /\ (p + j) + 1 = p + (j + 1)
          /\ (p + (j + 1)) + (-1) = p + j /\ (p + j) + (-(1 * j)) = p
      OBVIOUS
    <3>. QED BY <3>1, <3>2 DEF PlusAssign, MinusAssign, add, sub, inc, dec, Moved
  <2>. QED BY <2>1, <2>2
<1>2. k + 1 \in Nat OBVIOUS
<1>. HIDE DEF from, there
<1>3. PlusAssign(from, k) = there(k) /\ PlusAssign(from, k + 1) = there(k + 1)
  BY <1>1, <1>2
<1>4. inc(there(k)) = there(k + 1) /\ dec(there(k + 1)) = there(k) /\ MinusAssign(there(k), k) = from
  BY <1>1
<1>5. /\ PostIncrement(PlusAssign(from, k)) =
           [tmp |-> PlusAssign(from, k), it |-> PlusAssign(from, k + 1)]
      /\ PostDecrement(PlusAssign(from, k + 1)) =
           [tmp |-> PlusAssign(from, k + 1), it |-> PlusAssign(from, k)]
      /\ MinusAssign(PlusAssign(from, k), k) = from
  BY <1>3, <1>4 DEF PostIncrement, PostDecrement
<1>. QED BY <1>3, <1>5 DEF from, there

\* From begin() the steps lead through the values in order ...
LEMMA VisitsForward == ASSUME NEW S, NEW vs \in Seq(S)
                       PROVE Visits(vs, begin(vs), end(vs), vs)
<1>1. Len(vs) \in Nat OBVIOUS
<1>. DEFINE from == [m_ptr |-> 0, reverse |-> FALSE]
            at(k) == PlusAssign(from, k)
<1>2. ASSUME NEW k \in Nat
      PROVE  /\ at(k) = [m_ptr |-> k, reverse |-> FALSE]
             /\ PostIncrement(at(k)) = [tmp |-> at(k), it |-> at(k + 1)]
             /\ PostDecrement(at(k + 1)) = [tmp |-> at(k + 1), it |-> at(k)]
             /\ MinusAssign(at(k), k) = from
  <2>. DEFINE p == 0
  <2>1. p \in Int /\ p + k = k OBVIOUS
  <2>2. from = [m_ptr |-> p, reverse |-> FALSE] OBVIOUS
  <2>. HIDE DEF p, from
  <2>3. /\ at(k) = [m_ptr |-> p + k, reverse |-> FALSE]
        /\ PostIncrement(at(k)) = [tmp |-> at(k), it |-> at(k + 1)]
        /\ PostDecrement(at(k + 1)) = [tmp |-> at(k + 1), it |-> at(k)]
        /\ MinusAssign(at(k), k) = from
    BY <2>1, <2>2, StepsAgree
  <2>. QED BY <2>1, <2>3
<1>. HIDE DEF at
<1>3. at(0) = from /\ at(Len(vs)) = end(vs) BY <1>1, <1>2 DEF end, from
<1>4. ASSUME NEW k \in 0..(Len(vs) - 1)
      PROVE  /\ Readable(vs, at(k)) /\ Deref(vs, at(k)) = vs[k + 1]
             /\ Subscript(vs, from, k) = vs[k + 1]
  <2>1. k \in Nat BY <1>1
  <2>2. at(k).m_ptr = k
    <3>1. at(k) = [m_ptr |-> k, reverse |-> FALSE] BY <1>2, <2>1
    <3>. QED BY <3>1
  <2>3. 0 + 1 * k = k BY <2>1
  <2>. QED BY <2>2, <2>3 DEF Readable, Deref, Subscript, Moved, direction, from
<1>5. 0..(Len(vs) - 1) \subseteq Nat BY <1>1
<1>6. begin(vs) = from BY DEF begin, from
<1>. QED BY <1>2, <1>3, <1>4, <1>5, <1>6 DEF Visits, at

\* ... and from rbegin() in reverse.
LEMMA VisitsBackward == ASSUME NEW S, NEW vs \in Seq(S)
                        PROVE Visits(vs, rbegin(vs), rend(vs), Reverse(vs))
<1>. DEFINE last == Len(vs) - 1
            from == [m_ptr |-> last, reverse |-> TRUE]
            at(k) == PlusAssign(from, k)
<1>1. Len(vs) \in Nat /\ last \in Int OBVIOUS
<1>2. ASSUME NEW k \in Nat
      PROVE  /\ at(k) = [m_ptr |-> last - k, reverse |-> TRUE]
             /\ PostIncrement(at(k)) = [tmp |-> at(k), it |-> at(k + 1)]
             /\ PostDecrement(at(k + 1)) = [tmp |-> at(k + 1), it |-> at(k)]
             /\ MinusAssign(at(k), k) = from
  <2>. HIDE DEF last
  <2>. QED BY <1>1, StepsAgree
<1>. HIDE DEF at
<1>3. at(0) = from /\ at(Len(vs)) = rend(vs)
  <2>1. last - 0 = last /\ last - Len(vs) = -1 BY <1>1
  <2>. QED BY <1>1, <1>2, <2>1 DEF rend, from
<1>4. ASSUME NEW k \in 0..(Len(vs) - 1)
      PROVE  /\ Readable(vs, at(k)) /\ Deref(vs, at(k)) = Reverse(vs)[k + 1]
             /\ Subscript(vs, from, k) = Reverse(vs)[k + 1]
  <2>1. k \in Nat /\ k + 1 \in 1..Len(vs) /\ last - k \in 0..(Len(vs) - 1) BY <1>1
  <2>2. at(k).m_ptr = last - k
    <3>1. at(k) = [m_ptr |-> last - k, reverse |-> TRUE] BY <1>2, <2>1
    <3>. QED BY <3>1
  <2>3. (last - k) + 1 = (Len(vs) - (k + 1)) + 1 /\ (last + (-1) * k) + 1 = (Len(vs) - (k + 1)) + 1
    BY <1>1, <2>1
  <2>4. Reverse(vs)[k + 1] = vs[(Len(vs) - (k + 1)) + 1] BY <2>1 DEF Reverse
  <2>5. from.m_ptr = last /\ from.reverse = TRUE OBVIOUS
  <2>. HIDE DEF from, last
  <2>. QED BY <2>1, <2>2, <2>3, <2>4, <2>5 DEF Readable, Deref, Subscript, Moved, direction
<1>5. 0..(Len(vs) - 1) \subseteq Nat BY <1>1
<1>6. rbegin(vs) = from BY DEF rbegin, from
<1>. QED BY <1>2, <1>3, <1>4, <1>5, <1>6 DEF Visits, at

-----------------------------------------------------------------------------
(* Objects.                                                                *)

Value  == (UNION {Val[T] : T \in Types}) \cup Nat
Object == [t : Int, e : Seq(Value)]

\* An atom or a vector of a type in use, a list of objects, a dictionary of
\* two; m objects exist.
Sound(o, m) ==
  \/ \E T \in Types : o.t \in {T, -T} /\ o.e \in Seq(Val[T]) /\ (o.t = -T => Len(o.e) = 1)
  \/ o.t = 0 /\ o.e \in Seq(1..m)
  \/ o.t = DictType /\ o.e \in Seq(1..m) /\ Len(o.e) = 2

HeapOK(h) == h \in Seq(Object) /\ \A x \in 1..Len(h) : Sound(h[x], Len(h))

\* From h to g no object has changed its type or become shorter, and no
\* dictionary has changed.
Grown(h, g) ==
  /\ Len(h) <= Len(g)
  /\ \A x \in 1..Len(h) : /\ g[x].t = h[x].t
                          /\ Len(h[x].e) <= Len(g[x].e)
                          /\ h[x].t = DictType => g[x] = h[x]

\* Sequences of a subset.
LEMMA SeqWider == ASSUME NEW A, NEW B, A \subseteq B, NEW s \in Seq(A) PROVE s \in Seq(B)
BY SeqMonotonic

\* The numbers of the types: none is its own negative, 0 or a dictionary's.
LEMMA TypeIsPositive == \A T \in Types : /\ T \in Nat /\ T > 0 /\ -T \in Int /\ -T < 0
                                         /\ T # DictType /\ -T # DictType
<1>. SUFFICES ASSUME NEW T \in Types
              PROVE  T \in Nat /\ T > 0 /\ -T \in Int /\ -T < 0 /\ T # DictType /\ -T # DictType
  OBVIOUS
<1>1. T \in 1..19 BY ValuesAssumption DEF KxTypes
<1>. QED BY <1>1 DEF DictType

\* What is sound among m objects is a value, and sound among more.
LEMMA SoundIsObject ==
  ASSUME NEW x \in Int, NEW es, NEW m \in Nat, Sound([t |-> x, e |-> es], m)
  PROVE  [t |-> x, e |-> es] \in Object
<1>. DEFINE o == [t |-> x, e |-> es]
<1>1. \A T \in Types : Val[T] \subseteq Value BY DEF Value
<1>2. 1..m \subseteq Value
  <2>1. 1..m \subseteq Nat OBVIOUS
  <2>2. Nat \subseteq Value BY DEF Value
  <2>. QED BY <2>1, <2>2
<1>3. o.t = x /\ o.e = es OBVIOUS
<1>. HIDE DEF o
<1>4. CASE \E T \in Types : o.t \in {T, -T} /\ o.e \in Seq(Val[T]) /\ (o.t = -T => Len(o.e) = 1)
  <2>1. PICK T \in Types : o.e \in Seq(Val[T]) BY <1>4
  <2>2. o.e \in Seq(Value) BY <1>1, <2>1, SeqWider
  <2>. QED BY <1>3, <2>2 DEF Object
<1>5. CASE o.e \in Seq(1..m)
  <2>1. o.e \in Seq(Value) BY <1>2, <1>5, SeqWider
  <2>. QED BY <1>3, <2>1 DEF Object
<1>6. Sound(o, m) BY DEF o
<1>. QED BY <1>4, <1>5, <1>6 DEF Sound, o

\* What is sound stays so when there are more objects.
LEMMA SoundAmongMore ==
  ASSUME NEW o, NEW m \in Nat, NEW k \in Nat, m <= k, Sound(o, m)
  PROVE  Sound(o, k)
<1>1. 1..m \subseteq 1..k OBVIOUS
<1>2. o.e \in Seq(1..m) => o.e \in Seq(1..k) BY <1>1, SeqWider
<1>. QED BY <1>2 DEF Sound

\* An object of the heap, by its parts.
LEMMA ObjectIs ==
  ASSUME NEW h, HeapOK(h), NEW x \in 1..Len(h)
  PROVE  /\ h[x] \in Object /\ Sound(h[x], Len(h))
         /\ h[x] = [t |-> h[x].t, e |-> h[x].e]
         /\ h[x].t \in Int /\ Len(h[x].e) \in Nat
<1>1. h[x] \in Object /\ Sound(h[x], Len(h)) BY DEF HeapOK
<1>. QED BY <1>1 DEF Object

\* A new object.
LEMMA HeapAppend ==
  ASSUME NEW h, HeapOK(h), NEW o \in Object, Sound(o, Len(h))
  PROVE  LET g == Append(h, o)
         IN  /\ HeapOK(g) /\ Grown(h, g)
             /\ Len(g) = Len(h) + 1 /\ g[Len(h) + 1] = o
             /\ \A x \in 1..Len(h) : g[x] = h[x]
<1>. DEFINE g == Append(h, o)
<1>1. h \in Seq(Object) /\ Len(h) \in Nat BY DEF HeapOK
<1>2. /\ g \in Seq(Object) /\ Len(g) = Len(h) + 1 /\ g[Len(h) + 1] = o
      /\ \A x \in 1..Len(h) : g[x] = h[x]
  BY <1>1, AppendProperties
<1>. HIDE DEF g
<1>3. ASSUME NEW x \in 1..Len(g) PROVE Sound(g[x], Len(g))
  <2>1. CASE x \in 1..Len(h)
    <3>1. Sound(h[x], Len(h)) BY <2>1 DEF HeapOK
    <3>. QED BY <1>1, <1>2, <2>1, <3>1, SoundAmongMore
  <2>2. CASE x = Len(h) + 1 BY <1>1, <1>2, <2>2, SoundAmongMore
  <2>. QED BY <1>1, <1>2, <2>1, <2>2
<1>4. HeapOK(g) BY <1>2, <1>3 DEF HeapOK
<1>5. Grown(h, g)
  <2>1. \A x \in 1..Len(h) : Len(h[x].e) \in Nat BY ObjectIs
  <2>. QED BY <1>1, <1>2, <2>1 DEF Grown
<1>. QED BY <1>2, <1>4, <1>5 DEF g

\* Other contents for an object, no shorter than before.
LEMMA HeapReplace ==
  ASSUME NEW h, HeapOK(h), NEW x \in 1..Len(h), h[x].t # DictType, NEW es,
         Sound([t |-> h[x].t, e |-> es], Len(h)), Len(h[x].e) <= Len(es)
  PROVE  LET g == [h EXCEPT ![x].e = es] IN HeapOK(g) /\ Grown(h, g) /\ Len(g) = Len(h)
<1>. DEFINE o == [t |-> h[x].t, e |-> es]
            g == [h EXCEPT ![x].e = es]
<1>1. h \in Seq(Object) /\ Len(h) \in Nat BY DEF HeapOK
<1>2. h[x].t \in Int /\ h[x] = [t |-> h[x].t, e |-> h[x].e] BY ObjectIs
<1>3. o \in Object BY <1>1, <1>2, SoundIsObject
<1>4. g = [h EXCEPT ![x] = o]
  <2>1. [h[x] EXCEPT !.e = es] = o BY <1>2
  <2>. QED BY <2>1
<1>5. o.t = h[x].t /\ o.e = es OBVIOUS
<1>. HIDE DEF o, g
<1>6. /\ g \in Seq(Object) /\ Len(g) = Len(h) /\ g[x] = o
      /\ \A y \in 1..Len(h) : y # x => g[y] = h[y]
  <2>. DEFINE f == [h EXCEPT ![x] = o]
  <2>1. f \in Seq(Object) /\ Len(f) = Len(h) BY <1>1, <1>3, ExceptSeq
  <2>2. f[x] = o /\ \A y \in 1..Len(h) : y # x => f[y] = h[y] BY <1>1
  <2>. QED BY <1>4, <2>1, <2>2
<1>7. HeapOK(g)
  <2>. SUFFICES ASSUME NEW y \in 1..Len(g) PROVE Sound(g[y], Len(g))
    BY <1>6 DEF HeapOK
  <2>1. CASE y = x BY <1>6, <2>1 DEF o
  <2>2. CASE y # x BY <1>6, <2>2 DEF HeapOK
  <2>. QED BY <2>1, <2>2
<1>8. Grown(h, g)
  <2>1. Len(h) <= Len(g) BY <1>1, <1>6
  <2>2. ASSUME NEW y \in 1..Len(h)
        PROVE  /\ g[y].t = h[y].t /\ Len(h[y].e) <= Len(g[y].e)
               /\ h[y].t = DictType => g[y] = h[y]
    <3>1. CASE y = x BY <1>5, <1>6, <3>1
    <3>2. CASE y # x
      <4>1. Len(h[y].e) \in Nat BY ObjectIs
      <4>. QED BY <1>6, <3>2, <4>1
    <3>. QED BY <3>1, <3>2
  <2>. QED BY <2>1, <2>2 DEF Grown
<1>. QED BY <1>6, <1>7, <1>8 DEF g

-----------------------------------------------------------------------------
(* Wrappers.                                                               *)

Wrapped == [class : Class \cup {"none", "Dictionary"}, T : Int, m_ptr : Nat, m_length : Nat]

\* What wrapper r promises of its object in h: its type, and of a dictionary
\* the pairs it counted.
Holds(r, h) ==
  \/ r = NoWrap
  \/ /\ r.T \in Types /\ r.m_ptr \in 1..Len(h)
     /\ \/ r.class = "Atom"         /\ h[r.m_ptr].t = -r.T
        \/ r.class = "Vector"       /\ h[r.m_ptr].t = r.T
        \/ r.class = "NestedVector" /\ h[r.m_ptr].t = 0
  \/ /\ r.class = "Dictionary" /\ r.m_ptr \in 1..Len(h) /\ h[r.m_ptr].t = DictType
     /\ \A i \in 1..2 : r.m_length <= Len(h[h[r.m_ptr].e[i]].e)

CollInv ==
  /\ HeapOK(heap) /\ Len(heap) <= MaxObj /\ crashed \in BOOLEAN
  /\ wrap \in [Wrapper -> Wrapped]
  /\ \A w \in Wrapper : Holds(wrap[w], heap)

\* The parts of a dictionary.
LEMMA DictionaryParts ==
  ASSUME NEW h, HeapOK(h), NEW x \in 1..Len(h), h[x].t = DictType, NEW i \in 1..2
  PROVE  h[x].e[i] \in 1..Len(h)
<1>1. Sound(h[x], Len(h)) BY DEF HeapOK
<1>2. h[x].e \in Seq(1..Len(h)) /\ Len(h[x].e) = 2
  <2>1. \A T \in Types : h[x].t \notin {T, -T} BY TypeIsPositive
  <2>2. h[x].t # 0 BY DEF DictType
  <2>. QED BY <1>1, <2>1, <2>2 DEF Sound
<1>. QED BY <1>2

\* What others do to the objects breaks no promise.
LEMMA HoldsOn ==
  ASSUME NEW h, NEW g, HeapOK(h), HeapOK(g), Grown(h, g), NEW r \in Wrapped, Holds(r, h)
  PROVE  Holds(r, g)
<1>1. Len(h) \in Nat /\ Len(g) \in Nat /\ Len(h) <= Len(g) BY DEF HeapOK, Grown
<1>2. 1..Len(h) \subseteq 1..Len(g) BY <1>1
<1>3. \A x \in 1..Len(h) : g[x].t = h[x].t BY DEF Grown
<1>4. CASE r = NoWrap BY <1>4 DEF Holds
<1>5. CASE /\ r.T \in Types /\ r.m_ptr \in 1..Len(h)
           /\ \/ r.class = "Atom"         /\ h[r.m_ptr].t = -r.T
              \/ r.class = "Vector"       /\ h[r.m_ptr].t = r.T
              \/ r.class = "NestedVector" /\ h[r.m_ptr].t = 0
  <2>1. g[r.m_ptr].t = h[r.m_ptr].t /\ r.m_ptr \in 1..Len(g) BY <1>2, <1>3, <1>5
  <2>. QED BY <1>5, <2>1 DEF Holds
<1>6. CASE /\ r.class = "Dictionary" /\ r.m_ptr \in 1..Len(h) /\ h[r.m_ptr].t = DictType
           /\ \A i \in 1..2 : r.m_length <= Len(h[h[r.m_ptr].e[i]].e)
  <2>1. g[r.m_ptr] = h[r.m_ptr] /\ r.m_ptr \in 1..Len(g) BY <1>2, <1>6 DEF Grown
  <2>2. ASSUME NEW i \in 1..2 PROVE r.m_length <= Len(g[g[r.m_ptr].e[i]].e)
    <3>. DEFINE y == h[r.m_ptr].e[i]
    <3>1. y \in 1..Len(h) BY <1>6, DictionaryParts
    <3>2. g[r.m_ptr].e[i] = y BY <2>1
    <3>3. r.m_length <= Len(h[y].e) BY <1>6
    <3>. HIDE DEF y
    <3>4. y \in 1..Len(g) BY <1>2, <3>1
    <3>5. Len(h[y].e) \in Nat /\ Len(g[y].e) \in Nat BY <3>1, <3>4, ObjectIs
    <3>6. Len(h[y].e) <= Len(g[y].e) BY <3>1 DEF Grown
    <3>7. r.m_length \in Nat BY DEF Wrapped
    <3>8. r.m_length <= Len(g[y].e) BY <3>3, <3>5, <3>6, <3>7
    <3>. QED BY <3>2, <3>8
  <2>. QED BY <1>6, <2>1, <2>2 DEF Holds
<1>. QED BY <1>4, <1>5, <1>6 DEF Holds

\* So a step keeps the invariant if it keeps the heap and what it gives to
\* one wrapper is what that wrapper promises.
LEMMA StepKeeps ==
  ASSUME CollInv, HeapOK(heap'), Grown(heap, heap'), Len(heap') <= MaxObj, crashed' \in BOOLEAN,
         NEW w \in Wrapper, NEW r \in Wrapped, Holds(r, heap'),
         wrap' = wrap \/ wrap' = [wrap EXCEPT ![w] = r]
  PROVE  CollInv'
<1>1. wrap \in [Wrapper -> Wrapped] BY DEF CollInv
<1>2. wrap' \in [Wrapper -> Wrapped] BY <1>1
<1>3. ASSUME NEW u \in Wrapper PROVE Holds(wrap'[u], heap')
  <2>1. wrap'[u] = wrap[u] \/ wrap'[u] = r BY <1>1
  <2>2. Holds(wrap[u], heap) /\ wrap[u] \in Wrapped BY <1>1 DEF CollInv
  <2>3. Holds(wrap[u], heap') BY <2>2, HoldsOn DEF CollInv
  <2>. QED BY <2>1, <2>3
<1>. QED BY <1>2, <1>3 DEF CollInv

\* An unchanged heap has only grown.
LEMMA NoGrowth == ASSUME NEW h, HeapOK(h) PROVE Grown(h, h)
<1>1. Len(h) \in Nat /\ \A x \in 1..Len(h) : Len(h[x].e) \in Nat
  BY ObjectIs DEF HeapOK
<1>. QED BY <1>1 DEF Grown

\* A free wrapper promises nothing.
LEMMA NoWrapIsWrapped == NoWrap \in Wrapped /\ \A h : Holds(NoWrap, h)
<1>1. NoWrap \in Wrapped BY DEF NoWrap, Wrapped, Null, Class
<1>2. \A h : Holds(NoWrap, h) BY Zenon DEF Holds
<1>. QED BY <1>1, <1>2

\* Steps that leave the heap alone.
LEMMA SameHeapKeeps ==
  ASSUME CollInv, heap' = heap, crashed' \in BOOLEAN,
         \/ wrap' = wrap
         \/ \E w \in Wrapper, r \in Wrapped : Holds(r, heap) /\ wrap' = [wrap EXCEPT ![w] = r]
  PROVE  CollInv' /\ Grown(heap, heap')
<1>1. HeapOK(heap) /\ Grown(heap, heap) BY NoGrowth DEF CollInv
<1>2. CASE wrap' = wrap
  BY <1>1, <1>2 DEF CollInv
<1>3. CASE \E w \in Wrapper, r \in Wrapped : Holds(r, heap) /\ wrap' = [wrap EXCEPT ![w] = r]
  <2>1. PICK w \in Wrapper, r \in Wrapped : Holds(r, heap) /\ wrap' = [wrap EXCEPT ![w] = r]
    BY <1>3
  <2>2. Len(heap) <= MaxObj BY DEF CollInv
  <2>. QED BY <1>1, <2>1, <2>2, StepKeeps
<1>4. Grown(heap, heap') BY <1>1
<1>. QED BY <1>2, <1>3, <1>4, Zenon

\* A new object and its wrapper.
LEMMA MakeKeeps ==
  ASSUME CollInv, NEW w \in Wrapper, NEW x \in Int, NEW es, NEW wr \in Wrapped,
         Make(w, [t |-> x, e |-> es], wr), Sound([t |-> x, e |-> es], Len(heap)),
         Holds(wr, Append(heap, [t |-> x, e |-> es]))
  PROVE  CollInv' /\ Grown(heap, heap')
<1>. DEFINE o == [t |-> x, e |-> es]
<1>1. HeapOK(heap) /\ Len(heap) \in Nat /\ MaxObj \in Nat
  BY CollectionsAssumption DEF CollInv, HeapOK
<1>2. o \in Object BY <1>1, SoundIsObject
<1>3. /\ heap' = Append(heap, o) /\ Len(heap) < MaxObj
      /\ wrap' = [wrap EXCEPT ![w] = wr] /\ crashed' = crashed
  BY DEF Make
<1>4. Sound(o, Len(heap)) /\ Holds(wr, heap') BY <1>3
<1>. HIDE DEF o
<1>5. HeapOK(heap') /\ Grown(heap, heap') /\ Len(heap') = Len(heap) + 1
  BY <1>1, <1>2, <1>3, <1>4, HeapAppend
<1>6. Len(heap') <= MaxObj /\ crashed' \in BOOLEAN BY <1>1, <1>3, <1>5 DEF CollInv
<1>7. CollInv' BY <1>3, <1>4, <1>5, <1>6, StepKeeps
<1>. QED BY <1>5, <1>7

\* The wrapper of a new object holds, when the object is of its type.
LEMMA NewWrapper ==
  ASSUME CollInv, NEW x \in Int, NEW es, Sound([t |-> x, e |-> es], Len(heap)),
         NEW class, NEW T \in Types,
         \/ class = "Atom" /\ x = -T
         \/ class = "Vector" /\ x = T
         \/ class = "NestedVector" /\ x = 0
  PROVE  /\ Wrap(class, T, Len(heap) + 1) \in Wrapped
         /\ Holds(Wrap(class, T, Len(heap) + 1), Append(heap, [t |-> x, e |-> es]))
<1>. DEFINE o == [t |-> x, e |-> es]
            g == Append(heap, o)
            r == Wrap(class, T, Len(heap) + 1)
<1>1. HeapOK(heap) /\ Len(heap) \in Nat BY DEF CollInv, HeapOK
<1>2. o \in Object BY <1>1, SoundIsObject
<1>3. o.t = x /\ Sound(o, Len(heap)) OBVIOUS
<1>. HIDE DEF o
<1>4. Len(g) = Len(heap) + 1 /\ g[Len(heap) + 1] = o BY <1>1, <1>2, <1>3, HeapAppend
<1>. HIDE DEF g
<1>5. T \in Int /\ Len(heap) + 1 \in Nat BY <1>1, TypeIsPositive
<1>6. /\ r.class = class /\ r.T = T /\ r.m_ptr = Len(heap) + 1
      /\ r \in Wrapped
  BY <1>5 DEF Wrap, Wrapped, Class
<1>7. r.m_ptr \in 1..Len(g) /\ g[r.m_ptr].t = x BY <1>1, <1>3, <1>4, <1>6
<1>. HIDE DEF r
<1>8. Holds(r, g) BY <1>6, <1>7 DEF Holds
<1>. QED BY <1>6, <1>8 DEF g, r, o

\* Sequences up to the bound.
LEMMA BoundedSeqIsSeq == ASSUME NEW S, NEW vs \in BoundedSeq(S, MaxLen)
                         PROVE vs \in Seq(S) /\ Len(vs) <= MaxLen
BY CollectionsAssumption DEF BoundedSeq, SeqOf

\* A new atom.
LEMMA MakeAtomKeeps ==
  ASSUME CollInv, NEW w \in Wrapper, NEW T \in Types, NEW v \in Val[T], MakeAtom(w, T, v)
  PROVE  CollInv' /\ Grown(heap, heap')
<1>1. -T \in Int BY TypeIsPositive
<1>. DEFINE vs == <<v>>
<1>2. vs \in Seq(Val[T]) /\ Len(vs) = 1
  <2>. DEFINE S == Val[T]
  <2>1. v \in S OBVIOUS
  <2>. HIDE DEF S
  <2>2. vs \in Seq(S) /\ Len(vs) = 1 BY <2>1
  <2>. QED BY <2>2 DEF S
<1>. HIDE DEF vs
<1>3. Sound([t |-> -T, e |-> vs], Len(heap)) BY <1>2 DEF Sound
<1>4. Make(w, [t |-> -T, e |-> vs], Wrap("Atom", T, Len(heap) + 1)) BY DEF MakeAtom, Atom, vs
<1>. QED BY <1>1, <1>3, <1>4, MakeKeeps, NewWrapper

\* A new vector.
LEMMA MakeVectorKeeps ==
  ASSUME CollInv, NEW w \in Wrapper, NEW T \in Types, NEW vs \in BoundedSeq(Val[T], MaxLen),
         MakeVector(w, T, vs)
  PROVE  CollInv' /\ Grown(heap, heap')
<1>1. T \in Int /\ T # -T BY TypeIsPositive
<1>2. vs \in Seq(Val[T]) BY BoundedSeqIsSeq
<1>3. Sound([t |-> T, e |-> vs], Len(heap)) BY <1>1, <1>2 DEF Sound
<1>4. Make(w, [t |-> T, e |-> vs], Wrap("Vector", T, Len(heap) + 1)) BY DEF MakeVector, Vector
<1>. QED BY <1>1, <1>3, <1>4, MakeKeeps, NewWrapper

\* The wrappers of values have objects.
LEMMA PointsToObject ==
  ASSUME CollInv, NEW w \in Wrapper, wrap[w].class \in Class
  PROVE  /\ Ptr(w) \in 1..Len(heap) /\ wrap[w].T \in Types /\ wrap[w] \in Wrapped
         /\ wrap[w].class = "Atom" => t(Ptr(w)) = -wrap[w].T
         /\ wrap[w].class = "Vector" => t(Ptr(w)) = wrap[w].T
         /\ wrap[w].class = "NestedVector" => t(Ptr(w)) = 0
         /\ t(Ptr(w)) # DictType
<1>1. Holds(wrap[w], heap) /\ wrap[w] \in Wrapped BY DEF CollInv
<1>2. wrap[w].class \in {"Atom", "Vector", "NestedVector"} BY DEF Class
<1>3. wrap[w] # NoWrap BY <1>2 DEF NoWrap
<1>4. /\ wrap[w].m_ptr \in 1..Len(heap) /\ wrap[w].T \in Types
      /\ wrap[w].class = "Atom" => heap[wrap[w].m_ptr].t = -wrap[w].T
      /\ wrap[w].class = "Vector" => heap[wrap[w].m_ptr].t = wrap[w].T
      /\ wrap[w].class = "NestedVector" => heap[wrap[w].m_ptr].t = 0
  BY <1>1, <1>2, <1>3 DEF Holds
<1>5. heap[wrap[w].m_ptr].t # DictType BY <1>2, <1>4, TypeIsPositive DEF DictType
<1>. QED BY <1>1, <1>4, <1>5 DEF Ptr, t

\* A new list of the objects of other wrappers.
LEMMA MakeNestedKeeps ==
  ASSUME CollInv, NEW w \in Wrapper, NEW T \in Types, NEW ws \in BoundedSeq(Wrapper, MaxLen),
         MakeNested(w, T, ws)
  PROVE  CollInv' /\ Grown(heap, heap')
<1>. DEFINE xs == [i \in DOMAIN ws |-> Ptr(ws[i])]
<1>1. ws \in Seq(Wrapper) BY BoundedSeqIsSeq
<1>2. DOMAIN ws = 1..Len(ws) /\ Len(ws) \in Nat BY <1>1
<1>3. ASSUME NEW i \in DOMAIN ws PROVE Ptr(ws[i]) \in 1..Len(heap)
  <2>1. ws[i] \in Wrapper BY <1>1
  <2>2. wrap[ws[i]].class \in Class BY DEF MakeNested
  <2>. QED BY <2>1, <2>2, PointsToObject
<1>4. xs \in Seq(1..Len(heap)) BY <1>2, <1>3
<1>. HIDE DEF xs
<1>. DEFINE listType == 0
<1>5. listType \in Int /\ listType = 0 /\ Sound([t |-> listType, e |-> xs], Len(heap))
  BY <1>4 DEF Sound
<1>6. Make(w, [t |-> listType, e |-> xs], Wrap("NestedVector", T, Len(heap) + 1))
  BY DEF MakeNested, List, xs
<1>. HIDE DEF listType
<1>. QED BY <1>5, <1>6, MakeKeeps, NewWrapper

\* A new dictionary, which counts the pairs that its parts have.
LEMMA MakeDictionaryKeeps ==
  ASSUME CollInv, NEW w \in Wrapper, NEW ks \in Wrapper, NEW vs \in Wrapper,
         MakeDictionary(w, ks, vs)
  PROVE  CollInv' /\ Grown(heap, heap')
<1>. DEFINE parts == <<Ptr(ks), Ptr(vs)>>
            dictType == DictType
            o == [t |-> dictType, e |-> parts]
            m == n(Ptr(ks))
            g == Append(heap, o)
            r == [Wrap("Dictionary", 0, Len(heap) + 1) EXCEPT !.m_length = m]
<1>1. wrap[ks].class \in Class /\ wrap[vs].class \in Class /\ size(ks) = size(vs)
  BY DEF MakeDictionary, Class
<1>2. Ptr(ks) \in 1..Len(heap) /\ Ptr(vs) \in 1..Len(heap) BY <1>1, PointsToObject
<1>3. m = n(Ptr(vs)) /\ m \in Nat
  <2>1. size(ks) = n(Ptr(ks)) /\ size(vs) = n(Ptr(vs)) BY <1>1 DEF size, Class
  <2>2. n(Ptr(ks)) \in Nat BY <1>2, ObjectIs DEF CollInv, n, e
  <2>. QED BY <1>1, <2>1, <2>2
<1>4. Make(w, o, r) BY DEF MakeDictionary, Dict
<1>5. parts \in Seq(1..Len(heap)) /\ Len(parts) = 2 /\ parts[1] = Ptr(ks) /\ parts[2] = Ptr(vs)
  BY <1>2
<1>6. HeapOK(heap) /\ Len(heap) \in Nat /\ dictType \in Int BY DEF CollInv, HeapOK, DictType
<1>7. Sound(o, Len(heap)) BY <1>5 DEF Sound
<1>8. o \in Object BY <1>6, <1>7, SoundIsObject
<1>9. o.t = DictType /\ o.e = parts OBVIOUS
<1>10. /\ r.class = "Dictionary" /\ r.m_ptr = Len(heap) + 1 /\ r.m_length = m
       /\ r \in Wrapped
  <2>. HIDE DEF m
  <2>. QED BY <1>3, <1>6 DEF Wrap, Wrapped, Class
<1>. HIDE DEF o
<1>11. /\ Len(g) = Len(heap) + 1 /\ g[Len(heap) + 1] = o
       /\ \A x \in 1..Len(heap) : g[x] = heap[x]
  BY <1>6, <1>7, <1>8, HeapAppend
<1>. HIDE DEF g, r, parts
<1>12. Holds(r, g)
  <2>1. r.m_ptr \in 1..Len(g) /\ g[r.m_ptr] = o BY <1>6, <1>10, <1>11
  <2>2. Len(g[parts[1]].e) = m /\ Len(g[parts[2]].e) = m
    BY <1>2, <1>3, <1>5, <1>11 DEF n, e
  <2>3. \A i \in 1..2 : r.m_length <= Len(g[g[r.m_ptr].e[i]].e)
    <3>. TAKE i \in 1..2
    <3>1. i = 1 \/ i = 2 OBVIOUS
    <3>2. g[r.m_ptr].e = parts BY <1>9, <2>1
    <3>3. Len(g[parts[i]].e) = m BY <2>2, <3>1
    <3>. HIDE DEF m
    <3>. QED BY <1>3, <1>10, <3>2, <3>3
  <2>. QED BY <1>9, <1>10, <2>1, <2>3 DEF Holds
<1>. QED BY <1>4, <1>6, <1>7, <1>10, <1>12, MakeKeeps DEF g, o

\* An object that q makes.
LEMMA QMakesKeeps ==
  ASSUME CollInv, QMakes
  PROVE  CollInv' /\ Grown(heap, heap')
<1>1. PICK kind \in FromQ, T \in Types : \E o \in QObject(kind, T) : heap' = Append(heap, o)
  BY DEF QMakes
<1>2. PICK o \in QObject(kind, T) : heap' = Append(heap, o) BY <1>1
<1>3. Len(heap) < MaxObj /\ wrap' = wrap /\ crashed' = crashed BY DEF QMakes
<1>4. HeapOK(heap) /\ Len(heap) \in Nat /\ Obj = 1..Len(heap) /\ MaxObj \in Nat
  BY CollectionsAssumption DEF CollInv, HeapOK, Obj
<1>5. T \in Int /\ -T \in Int /\ T # -T BY TypeIsPositive
<1>6. kind \in {"atom", "vector", "list"} BY CollectionsAssumption
<1>7. \E x \in Int : \E es : o = [t |-> x, e |-> es] /\ Sound(o, Len(heap))
  <2>1. CASE kind = "atom"
    <3>1. PICK v \in Val[T] : o = [t |-> -T, e |-> <<v>>] BY <2>1 DEF QObject, Atom
    <3>2. <<v>> \in Seq(Val[T]) /\ Len(<<v>>) = 1
      <4>. DEFINE S == Val[T]
      <4>1. v \in S OBVIOUS
      <4>. HIDE DEF S
      <4>2. <<v>> \in Seq(S) /\ Len(<<v>>) = 1 BY <4>1
      <4>. QED BY <4>2 DEF S
    <3>. DEFINE es == <<v>>
    <3>3. o = [t |-> -T, e |-> es] BY <3>1
    <3>4. es \in Seq(Val[T]) /\ Len(es) = 1 BY <3>2
    <3>. HIDE DEF es
    <3>5. Sound(o, Len(heap)) BY <3>3, <3>4 DEF Sound
    <3>. QED BY <1>5, <3>3, <3>5
  <2>2. CASE kind = "vector"
    <3>1. PICK es \in BoundedSeq(Val[T], MaxLen) : o = [t |-> T, e |-> es]
      BY <2>2 DEF QObject, Vector
    <3>2. es \in Seq(Val[T]) BY BoundedSeqIsSeq
    <3>3. Sound(o, Len(heap)) BY <1>5, <3>1, <3>2 DEF Sound
    <3>. QED BY <1>5, <3>1, <3>3
  <2>3. CASE kind = "list"
    <3>1. PICK es \in BoundedSeq(Obj, MaxLen) : o = [t |-> 0, e |-> es]
      BY <2>3 DEF QObject, List
    <3>2. es \in Seq(1..Len(heap)) BY <1>4, BoundedSeqIsSeq
    <3>3. Sound(o, Len(heap)) BY <3>1, <3>2 DEF Sound
    <3>. DEFINE listType == 0
    <3>4. listType \in Int /\ o = [t |-> listType, e |-> es] BY <3>1
    <3>. HIDE DEF listType
    <3>. QED BY <3>3, <3>4
  <2>. QED BY <1>6, <2>1, <2>2, <2>3
<1>8. o \in Object /\ Sound(o, Len(heap)) BY <1>4, <1>7, SoundIsObject
<1>9. HeapOK(heap') /\ Grown(heap, heap') /\ Len(heap') = Len(heap) + 1
  BY <1>2, <1>4, <1>8, HeapAppend
<1>10. Len(heap') <= MaxObj /\ crashed' \in BOOLEAN BY <1>3, <1>4, <1>9 DEF CollInv
<1>11. wrap' \in [Wrapper -> Wrapped] BY <1>3 DEF CollInv
<1>12. ASSUME NEW w \in Wrapper PROVE Holds(wrap'[w], heap')
  <2>1. Holds(wrap[w], heap) /\ wrap[w] \in Wrapped BY DEF CollInv
  <2>. QED BY <1>3, <1>4, <1>9, <2>1, HoldsOn
<1>. QED BY <1>9, <1>10, <1>11, <1>12 DEF CollInv

\* What is_with_info accepts is of the wrapper's class and type.
LEMMA Accepted ==
  ASSUME CollInv, NEW x \in 1..Len(heap), NEW T \in Types, NEW class \in Class,
         "returns" \in is_with_info(x, class, T)
  PROVE  /\ class = "Atom" => t(x) = -T
         /\ class = "Vector" => t(x) = T
         /\ class = "NestedVector" => t(x) = 0
<1>1. t(x) \in Int /\ x # Null
  <2>1. t(x) \in Int BY ObjectIs DEF CollInv, t
  <2>2. Len(heap) \in Nat BY DEF CollInv, HeapOK
  <2>. QED BY <2>1, <2>2 DEF Null
<1>2. PICK r \in inner_type(x) : r.is = "type" /\ Matches(x, class, T, r.t)
  BY DEF is_with_info
<1>3. PICK a \in inner_type_impl(x, 0) :
        r = IF a.is = "type" /\ a.t \notin KxTypes THEN No ELSE a
  BY DEF inner_type
<1>4. r = a /\ a.t \in KxTypes /\ a.t # 0
  <2>1. No.is # "type" BY DEF No
  <2>2. 0 \notin KxTypes BY DEF KxTypes
  <2>. QED BY <1>2, <1>3, <2>1, <2>2
<1>5. class = Structure(x) /\ a.t = T BY <1>2, <1>4 DEF Matches
<1>6. CASE t(x) = 0
  <2>1. Structure(x) = "NestedVector" BY <1>6 DEF Structure
  <2>. QED BY <1>5, <1>6, <2>1
<1>7. CASE t(x) # 0
  <2>1. inner_type_impl(x, 0) = {Is(Abs(t(x)))} BY <1>1, <1>7 DEF inner_type_impl, OfType
  <2>2. a = Is(Abs(t(x))) BY <1>3, <2>1
  <2>3. T = Abs(t(x)) BY <1>5, <2>2 DEF Is
  <2>4. CASE t(x) < 0
    <3>1. Structure(x) = "Atom" BY <1>1, <2>4 DEF Structure
    <3>2. t(x) = -T BY <1>1, <2>3, <2>4 DEF Abs
    <3>. QED BY <1>5, <3>1, <3>2
  <2>5. CASE t(x) > 0
    <3>1. Structure(x) = "Vector" BY <1>1, <2>5 DEF Structure
    <3>2. t(x) = T BY <1>1, <2>3, <2>5 DEF Abs
    <3>. QED BY <1>5, <3>1, <3>2
  <2>. QED BY <1>1, <1>7, <2>4, <2>5
<1>. QED BY <1>6, <1>7

\* A wrapper of an object of q's or of another wrapper.
LEMMA FromKKeeps ==
  ASSUME CollInv, NEW w \in Wrapper, NEW class \in Class, NEW T \in Types, NEW x \in Obj,
         FromK(w, class, T, x)
  PROVE  CollInv' /\ Grown(heap, heap')
<1>1. x \in 1..Len(heap) /\ x \in Nat BY DEF Obj, CollInv, HeapOK
<1>2. heap' = heap BY DEF FromK, Crashes
<1>3. CASE wrap' = wrap /\ crashed' = TRUE BY <1>2, <1>3, SameHeapKeeps
<1>4. CASE /\ "returns" \in is_with_info(x, class, T)
           /\ wrap' = [wrap EXCEPT ![w] = Wrap(class, T, x)] /\ crashed' = crashed
  <2>. DEFINE r == Wrap(class, T, x)
  <2>1. T \in Int BY TypeIsPositive
  <2>2. r \in Wrapped /\ r.class = class /\ r.T = T /\ r.m_ptr = x
    BY <1>1, <2>1 DEF Wrap, Wrapped
  <2>3. /\ class = "Atom" => t(x) = -T
        /\ class = "Vector" => t(x) = T
        /\ class = "NestedVector" => t(x) = 0
    BY <1>1, <1>4, Accepted
  <2>. HIDE DEF r
  <2>4. Holds(r, heap) BY <1>1, <2>2, <2>3 DEF Holds, Class, t
  <2>5. wrap' = [wrap EXCEPT ![w] = r] BY <1>4 DEF r
  <2>6. crashed' \in BOOLEAN BY <1>4 DEF CollInv
  <2>. QED BY <1>2, <2>2, <2>4, <2>5, <2>6, SameHeapKeeps
<1>. QED BY <1>3, <1>4 DEF FromK, Crashes

\* A copied wrapper, and one that is given up.
LEMMA CopyDropKeeps ==
  ASSUME CollInv, NEW w \in Wrapper, Drop(w) \/ \E v \in Wrapper : Copy(w, v)
  PROVE  CollInv' /\ Grown(heap, heap')
<1>1. heap' = heap /\ crashed' \in BOOLEAN BY DEF Drop, Copy, CollInv
<1>2. CASE Drop(w)
  <2>1. wrap' = [wrap EXCEPT ![w] = NoWrap] BY <1>2 DEF Drop
  <2>. QED BY <1>1, <2>1, NoWrapIsWrapped, SameHeapKeeps
<1>3. CASE \E v \in Wrapper : Copy(w, v)
  <2>1. PICK v \in Wrapper : wrap' = [wrap EXCEPT ![w] = wrap[v]] BY <1>3 DEF Copy
  <2>2. wrap[v] \in Wrapped /\ Holds(wrap[v], heap) BY DEF CollInv
  <2>. QED BY <1>1, <2>1, <2>2, SameHeapKeeps
<1>. QED BY <1>2, <1>3

\* The contents of the object of a wrapper of values.
LEMMA ContentsAre ==
  ASSUME CollInv, NEW w \in Wrapper, wrap[w].class \in Class
  PROVE  /\ Len(e(Ptr(w))) \in Nat
         /\ wrap[w].class \in {"Atom", "Vector"} => e(Ptr(w)) \in Seq(Val[wrap[w].T])
         /\ wrap[w].class = "Atom" => Len(e(Ptr(w))) = 1
         /\ wrap[w].class = "NestedVector" => e(Ptr(w)) \in Seq(1..Len(heap))
<1>. DEFINE x == Ptr(w)
            T == wrap[w].T
<1>1. /\ x \in 1..Len(heap) /\ T \in Types
      /\ wrap[w].class = "Atom" => t(x) = -T
      /\ wrap[w].class = "Vector" => t(x) = T
      /\ wrap[w].class = "NestedVector" => t(x) = 0
  BY PointsToObject
<1>. HIDE DEF x, T
<1>2. Sound(heap[x], Len(heap)) /\ heap[x].t = t(x) /\ heap[x].e = e(x) /\ Len(e(x)) \in Nat
  BY <1>1, ObjectIs DEF CollInv, t, e
<1>3. T > 0 /\ -T < 0 /\ T \in Int /\ T # DictType /\ -T # DictType BY <1>1, TypeIsPositive
<1>4. CASE wrap[w].class \in {"Atom", "Vector"}
  <2>1. t(x) \in {T, -T} BY <1>1, <1>4
  <2>2. PICK U \in Types : t(x) \in {U, -U} /\ e(x) \in Seq(Val[U]) /\ (t(x) = -U => Len(e(x)) = 1)
    BY <1>2, <1>3, <2>1 DEF Sound
  <2>3. U > 0 /\ U \in Int BY TypeIsPositive
  <2>4. U = T BY <1>3, <2>1, <2>2, <2>3
  <2>. QED BY <1>1, <1>2, <1>4, <2>2, <2>4 DEF x, T
<1>5. CASE wrap[w].class = "NestedVector"
  <2>1. \A U \in Types : t(x) \notin {U, -U} BY <1>1, <1>5, TypeIsPositive
  <2>2. t(x) # DictType BY <1>1, <1>5 DEF DictType
  <2>3. e(x) \in Seq(1..Len(heap)) BY <1>2, <2>1, <2>2 DEF Sound
  <2>. QED BY <1>2, <1>5, <2>3 DEF x
<1>. QED BY <1>4, <1>5 DEF Class

\* A value written to an object.
LEMMA StoreKeeps ==
  ASSUME CollInv, NEW w \in Wrapper, wrap[w].class \in {"Atom", "Vector"},
         NEW i \in 1..Len(e(Ptr(w))), NEW v \in Val[wrap[w].T], Store(w, i, v)
  PROVE  CollInv' /\ Grown(heap, heap')
<1>. DEFINE x == Ptr(w)
            T == wrap[w].T
            es == [e(x) EXCEPT ![i] = v]
            S == Val[T]
<1>0. wrap[w].class \in Class BY DEF Class
<1>1. /\ x \in 1..Len(heap) /\ T \in Types /\ t(x) # DictType
      /\ wrap[w].class = "Atom" => t(x) = -T
      /\ wrap[w].class = "Vector" => t(x) = T
  BY <1>0, PointsToObject
<1>2. e(x) \in Seq(S) /\ (wrap[w].class = "Atom" => Len(e(x)) = 1) BY <1>0, ContentsAre
<1>3. v \in S OBVIOUS
<1>. HIDE DEF x, S
<1>4. es \in Seq(S) /\ Len(es) = Len(e(x))
  <2>1. i \in 1..Len(e(x)) BY DEF x
  <2>. QED BY <1>2, <1>3, <2>1, ExceptSeq
<1>5. heap' = [heap EXCEPT ![x].e = es] /\ wrap' = wrap /\ crashed' = crashed
  BY DEF Store, e, x
<1>. HIDE DEF T, es
<1>6. Sound([t |-> heap[x].t, e |-> es], Len(heap))
  <2>1. t(x) \in {T, -T} /\ (t(x) = -T => Len(es) = 1)
    <3>1. T # -T BY <1>1, TypeIsPositive
    <3>. QED BY <1>1, <1>2, <1>4, <3>1
  <2>. QED BY <1>1, <1>4, <2>1 DEF Sound, S, t
<1>7. HeapOK(heap) /\ Len(heap[x].e) = Len(es) /\ Len(es) \in Nat BY <1>1, <1>4, ObjectIs DEF CollInv, e
<1>8. HeapOK(heap') /\ Grown(heap, heap') /\ Len(heap') = Len(heap)
  <2>1. heap[x].t # DictType /\ Len(heap[x].e) <= Len(es) BY <1>1, <1>7 DEF t
  <2>. QED BY <1>1, <1>5, <1>6, <1>7, <2>1, HeapReplace, ZenonT(30)
<1>9. Len(heap') <= MaxObj /\ crashed' \in BOOLEAN BY <1>5, <1>8 DEF CollInv
<1>10. wrap[w] \in Wrapped /\ Holds(wrap[w], heap) BY DEF CollInv
<1>11. Holds(wrap[w], heap') BY <1>7, <1>8, <1>10, HoldsOn
<1>12. CollInv' BY <1>5, <1>8, <1>9, <1>10, <1>11, StepKeeps
<1>. QED BY <1>8, <1>12

\* Assignment to an atom, of whose values there is one ...
LEMMA AssignAtomKeeps ==
  ASSUME CollInv, NEW w \in Wrapper, NEW v, AssignAtom(w, v)
  PROVE  CollInv' /\ Grown(heap, heap')
<1>1. wrap[w].class = "Atom" /\ v \in Val[wrap[w].T] /\ Store(w, 1, v) BY DEF AssignAtom
<1>2. Len(e(Ptr(w))) = 1 BY <1>1, ContentsAre DEF Class
<1>3. 1 \in 1..Len(e(Ptr(w))) BY <1>2
<1>. QED BY <1>1, <1>3, StoreKeeps

\* ... and to an element of a vector.
LEMMA AssignElementKeeps ==
  ASSUME CollInv, NEW w \in Wrapper, NEW v, NEW i, AssignElement(w, i, v)
  PROVE  CollInv' /\ Grown(heap, heap')
<1>1. wrap[w].class = "Vector" /\ v \in Val[wrap[w].T] /\ Store(w, i, v) /\ i \in 1..size(w)
  BY DEF AssignElement
<1>2. size(w) = Len(e(Ptr(w))) BY <1>1 DEF size, n
<1>. QED BY <1>1, <1>2, StoreKeeps

\* The list or vector of w becomes longer, in place or in a new object.
LEMMA ExtendKeeps ==
  ASSUME CollInv, NEW w \in Wrapper, wrap[w].class \in {"Vector", "NestedVector"}, NEW es,
         Sound([t |-> t(Ptr(w)), e |-> es], Len(heap)), Len(e(Ptr(w))) <= Len(es), Extend(w, es)
  PROVE  CollInv' /\ Grown(heap, heap')
<1>. DEFINE x == Ptr(w)
<1>0. wrap[w].class \in Class BY DEF Class
<1>1. /\ x \in 1..Len(heap) /\ t(x) # DictType /\ wrap[w].T \in Types /\ wrap[w] \in Wrapped
      /\ wrap[w].class = "Vector" => t(x) = wrap[w].T
      /\ wrap[w].class = "NestedVector" => t(x) = 0
  BY <1>0, PointsToObject
<1>2. /\ HeapOK(heap) /\ Len(heap) \in Nat /\ MaxObj \in Nat /\ crashed \in BOOLEAN
      /\ wrap \in [Wrapper -> Wrapped] /\ Len(heap) <= MaxObj
  BY CollectionsAssumption DEF CollInv, HeapOK
<1>3. Sound([t |-> heap[x].t, e |-> es], Len(heap)) /\ Len(heap[x].e) <= Len(es)
      /\ heap[x].t # DictType
  BY <1>1 DEF t, e
<1>. HIDE DEF x
<1>4. CASE heap' = [heap EXCEPT ![x].e = es] /\ wrap' = wrap /\ crashed' = crashed
  <2>1. HeapOK(heap') /\ Grown(heap, heap') /\ Len(heap') = Len(heap)
    BY <1>1, <1>2, <1>3, <1>4, HeapReplace
  <2>2. Holds(wrap[w], heap) BY DEF CollInv
  <2>3. Holds(wrap[w], heap') BY <1>1, <1>2, <2>1, <2>2, HoldsOn
  <2>4. Len(heap') <= MaxObj /\ crashed' \in BOOLEAN BY <1>2, <1>4, <2>1
  <2>. QED BY <1>1, <1>4, <2>1, <2>3, <2>4, StepKeeps
<1>5. CASE /\ Len(heap) < MaxObj
           /\ heap' = Append(heap, [heap[x] EXCEPT !.e = es])
           /\ wrap' = [wrap EXCEPT ![w].m_ptr = Len(heap) + 1]
           /\ crashed' = crashed
  <2>. DEFINE o == [t |-> heap[x].t, e |-> es]
              r == [wrap[w] EXCEPT !.m_ptr = Len(heap) + 1]
  <2>1. heap[x].t \in Int /\ heap[x] = [t |-> heap[x].t, e |-> heap[x].e] BY <1>1, <1>2, ObjectIs
  <2>2. [heap[x] EXCEPT !.e = es] = o BY <2>1
  <2>3. o \in Object /\ o.t = heap[x].t BY <1>2, <1>3, <2>1, SoundIsObject
  <2>4. Sound(o, Len(heap)) BY <1>3
  <2>5. /\ r \in Wrapped /\ r.class = wrap[w].class /\ r.T = wrap[w].T
        /\ r.m_ptr = Len(heap) + 1
    <3>. DEFINE q == wrap[w]
                k == Len(heap) + 1
    <3>1. q \in Wrapped /\ k \in Nat BY <1>1, <1>2
    <3>. HIDE DEF q, k
    <3>2. [q EXCEPT !.m_ptr = k] \in Wrapped BY <3>1 DEF Wrapped
    <3>3. [q EXCEPT !.m_ptr = k].class = q.class BY <3>1 DEF Wrapped
    <3>4. [q EXCEPT !.m_ptr = k].T = q.T BY <3>1 DEF Wrapped
    <3>5. [q EXCEPT !.m_ptr = k].m_ptr = k BY <3>1 DEF Wrapped
    <3>. QED BY <3>2, <3>3, <3>4, <3>5 DEF q, k
  <2>6. wrap' = [wrap EXCEPT ![w] = r] BY <1>5
  <2>. HIDE DEF o, r
  <2>7. heap' = Append(heap, o) BY <1>5, <2>2
  <2>8. /\ HeapOK(heap') /\ Grown(heap, heap') /\ Len(heap') = Len(heap) + 1
        /\ heap'[Len(heap) + 1] = o
    BY <1>2, <2>3, <2>4, <2>7, HeapAppend
  <2>9. Holds(r, heap')
    <3>1. r.m_ptr \in 1..Len(heap') /\ heap'[r.m_ptr].t = t(x) BY <1>2, <2>3, <2>5, <2>8 DEF t
    <3>. QED BY <1>1, <2>5, <3>1 DEF Holds
  <2>10. Len(heap') <= MaxObj /\ crashed' \in BOOLEAN BY <1>2, <1>5, <2>8
  <2>. QED BY <2>5, <2>6, <2>8, <2>9, <2>10, StepKeeps
<1>. QED BY <1>4, <1>5 DEF Extend, x

\* The values of one vector behind those of another.
LEMMA AppendVectorKeeps ==
  ASSUME CollInv, NEW w \in Wrapper, NEW v \in Wrapper, AppendVector(w, v)
  PROVE  CollInv' /\ Grown(heap, heap')
<1>. DEFINE T == wrap[w].T
            S == Val[T]
            es == e(Ptr(w)) \o e(Ptr(v))
<1>1. /\ wrap[w].class = "Vector" /\ wrap[v].class = "Vector" /\ wrap[v].T = T
      /\ Extend(w, es)
  BY DEF AppendVector
<1>2. T \in Types /\ t(Ptr(w)) = T BY <1>1, PointsToObject DEF Class
<1>3. e(Ptr(w)) \in Seq(S) /\ e(Ptr(v)) \in Seq(S) BY <1>1, ContentsAre DEF Class
<1>. HIDE DEF S
<1>4. es \in Seq(S) /\ Len(e(Ptr(w))) <= Len(es)
  <2>1. Len(e(Ptr(w))) \in Nat /\ Len(e(Ptr(v))) \in Nat BY <1>3
  <2>2. es \in Seq(S) /\ Len(es) = Len(e(Ptr(w))) + Len(e(Ptr(v))) BY <1>3, ConcatProperties
  <2>. QED BY <2>1, <2>2
<1>. HIDE DEF es
<1>5. Sound([t |-> t(Ptr(w)), e |-> es], Len(heap))
  <2>1. T # -T BY <1>2, TypeIsPositive
  <2>. HIDE DEF T
  <2>. QED BY <1>2, <1>4, <2>1 DEF Sound, S
<1>. QED BY <1>1, <1>4, <1>5, ExtendKeeps

\* An object at the end of a list.
LEMMA AppendNestedKeeps ==
  ASSUME CollInv, NEW w \in Wrapper, NEW v \in Wrapper, AppendNested(w, v)
  PROVE  CollInv' /\ Grown(heap, heap')
<1>1. CASE Crashes BY <1>1, SameHeapKeeps DEF Crashes
<1>2. CASE Extend(w, Append(e(Ptr(w)), Ptr(v)))
  <2>. DEFINE es == Append(e(Ptr(w)), Ptr(v))
  <2>1. wrap[w].class = "NestedVector" /\ wrap[v].class \in Class BY DEF AppendNested
  <2>2. /\ t(Ptr(w)) = 0 /\ Ptr(v) \in 1..Len(heap) /\ e(Ptr(w)) \in Seq(1..Len(heap))
    BY <2>1, PointsToObject, ContentsAre DEF Class
  <2>3. es \in Seq(1..Len(heap)) /\ Len(e(Ptr(w))) <= Len(es)
    <3>1. Len(e(Ptr(w))) \in Nat BY <2>2
    <3>2. es \in Seq(1..Len(heap)) /\ Len(es) = Len(e(Ptr(w))) + 1 BY <2>2, AppendProperties
    <3>. QED BY <3>1, <3>2
  <2>4. Extend(w, es) BY <1>2
  <2>. HIDE DEF es
  <2>5. Sound([t |-> t(Ptr(w)), e |-> es], Len(heap)) BY <2>2, <2>3 DEF Sound
  <2>. QED BY <2>1, <2>3, <2>4, <2>5, ExtendKeeps
<1>. QED BY <1>1, <1>2 DEF AppendNested

\* The application starts with nothing.
LEMMA CollInit == Init => CollInv
<1>. SUFFICES ASSUME Init PROVE CollInv
  OBVIOUS
<1>1. heap = <<>> /\ Len(heap) = 0 /\ heap \in Seq(Object) BY DEF Init
<1>2. HeapOK(heap) BY <1>1 DEF HeapOK
<1>3. Len(heap) <= MaxObj BY <1>1, CollectionsAssumption
<1>. QED BY <1>2, <1>3, NoWrapIsWrapped DEF Init, CollInv

\* Every operation keeps the invariant, and objects only grow.
LEMMA CollStep == CollInv /\ [Next]_colvars => CollInv' /\ Grown(heap, heap')
<1>. SUFFICES ASSUME CollInv, [Next]_colvars PROVE CollInv' /\ Grown(heap, heap')
  OBVIOUS
<1>1. CASE QMakes BY <1>1, QMakesKeeps
<1>2. ASSUME NEW w \in Wrapper, NEW T \in Types,
             \/ \E x \in Obj : AtomFromK(w, T, x) \/ VectorFromK(w, T, x) \/ NestedFromK(w, T, x)
             \/ \E v \in Val[T] : MakeAtom(w, T, v)
             \/ \E vs \in BoundedSeq(Val[T], MaxLen) : MakeVector(w, T, vs)
             \/ \E ws \in BoundedSeq(Wrapper, MaxLen) : MakeNested(w, T, ws)
             \/ \E v \in Val[T] : AssignAtom(w, v) \/ \E i \in 1..MaxLen : AssignElement(w, i, v)
      PROVE  CollInv' /\ Grown(heap, heap')
  <2>1. CASE \E x \in Obj : AtomFromK(w, T, x) \/ VectorFromK(w, T, x) \/ NestedFromK(w, T, x)
    <3>1. PICK x \in Obj, class \in Class : FromK(w, class, T, x)
      BY <2>1 DEF AtomFromK, VectorFromK, NestedFromK, Class
    <3>. QED BY <3>1, FromKKeeps
  <2>2. CASE \E v \in Val[T] : MakeAtom(w, T, v) BY <2>2, MakeAtomKeeps
  <2>3. CASE \E vs \in BoundedSeq(Val[T], MaxLen) : MakeVector(w, T, vs) BY <2>3, MakeVectorKeeps
  <2>4. CASE \E ws \in BoundedSeq(Wrapper, MaxLen) : MakeNested(w, T, ws) BY <2>4, MakeNestedKeeps
  <2>5. CASE \E v \in Val[T] : AssignAtom(w, v) \/ \E i \in 1..MaxLen : AssignElement(w, i, v)
    BY <2>5, AssignAtomKeeps, AssignElementKeeps
  <2>. QED BY <1>2, <2>1, <2>2, <2>3, <2>4, <2>5
<1>3. ASSUME NEW w \in Wrapper, NEW v \in Wrapper,
             \/ \E u \in Wrapper : MakeDictionary(u, w, v)
             \/ Copy(w, v) \/ AppendVector(w, v) \/ AppendNested(w, v)
      PROVE  CollInv' /\ Grown(heap, heap')
  <2>1. CASE \E u \in Wrapper : MakeDictionary(u, w, v) BY <2>1, MakeDictionaryKeeps
  <2>2. CASE Copy(w, v) BY <2>2, CopyDropKeeps
  <2>3. CASE AppendVector(w, v) BY <2>3, AppendVectorKeeps
  <2>4. CASE AppendNested(w, v) BY <2>4, AppendNestedKeeps
  <2>. QED BY <1>3, <2>1, <2>2, <2>3, <2>4
<1>4. ASSUME NEW w \in Wrapper, Drop(w) PROVE CollInv' /\ Grown(heap, heap')
  BY <1>4, CopyDropKeeps
<1>5. CASE Use
  <2>1. CASE \E w \in Wrapper, T \in Types :
               \/ \E x \in Obj : AtomFromK(w, T, x) \/ VectorFromK(w, T, x) \/ NestedFromK(w, T, x)
               \/ \E v \in Val[T] : MakeAtom(w, T, v)
               \/ \E vs \in BoundedSeq(Val[T], MaxLen) : MakeVector(w, T, vs)
               \/ \E ws \in BoundedSeq(Wrapper, MaxLen) : MakeNested(w, T, ws)
               \/ \E v \in Val[T] : AssignAtom(w, v) \/ \E i \in 1..MaxLen : AssignElement(w, i, v)
    BY <1>2, <2>1
  <2>2. CASE \E w, v \in Wrapper : \/ \E u \in Wrapper : MakeDictionary(u, w, v)
                                   \/ Copy(w, v) \/ AppendVector(w, v) \/ AppendNested(w, v)
    BY <1>3, <2>2
  <2>3. CASE \E w \in Wrapper : Drop(w) BY <1>4, <2>3
  <2>. QED BY <1>5, <2>1, <2>2, <2>3 DEF Use
<1>6. CASE UNCHANGED colvars
  <2>1. heap' = heap /\ wrap' = wrap /\ crashed' = crashed BY <1>6 DEF colvars
  <2>2. crashed' \in BOOLEAN BY <2>1 DEF CollInv
  <2>. QED BY <2>1, <2>2, SameHeapKeeps
<1>. QED BY <1>1, <1>5, <1>6 DEF Next

\* So the invariant holds throughout.
LEMMA CollInductive == Spec => []CollInv
<1>. QED BY CollInit, CollStep, PTL DEF Spec

\* A wrapper's object is of its class and its type for as long as it lives,
\* however many wrappers share it (vector.h:42, k.h:142-165).
THEOREM WrappersKeepTypes == Spec => []TypeOK
<1>1. CollInv => TypeOK
  <2>. SUFFICES ASSUME CollInv PROVE TypeOK
    OBVIOUS
  <2>1. ASSUME NEW w \in Wrapper
        PROVE  LET r == wrap[w] IN
                 CASE r.class = "none"         -> r = NoWrap
                   [] r.class = "Atom"         -> t(r.m_ptr) = -r.T /\ n(r.m_ptr) = 1
                   [] r.class = "Vector"       -> t(r.m_ptr) = r.T
                   [] r.class = "NestedVector" -> t(r.m_ptr) = 0
                   [] r.class = "Dictionary"   -> t(r.m_ptr) = DictType
    <3>. DEFINE r == wrap[w]
    <3>1. r \in Wrapped /\ Holds(r, heap) BY DEF CollInv
    <3>2. CASE r.class = "none" BY <3>1, <3>2 DEF Holds
    <3>3. CASE r.class = "Atom"
      <4>1. t(r.m_ptr) = -r.T BY <3>3, PointsToObject DEF Class, Ptr
      <4>2. n(r.m_ptr) = 1 BY <3>3, ContentsAre DEF Class, Ptr, n
      <4>. QED BY <3>3, <4>1, <4>2
    <3>4. CASE r.class = "Vector"
      <4>1. t(r.m_ptr) = r.T BY <3>4, PointsToObject DEF Class, Ptr
      <4>. QED BY <3>4, <4>1
    <3>5. CASE r.class = "NestedVector"
      <4>1. t(r.m_ptr) = 0 BY <3>5, PointsToObject DEF Class, Ptr
      <4>. QED BY <3>5, <4>1
    <3>6. CASE r.class = "Dictionary"
      <4>1. t(r.m_ptr) = DictType BY <3>1, <3>6 DEF Holds, NoWrap, t
      <4>. QED BY <3>6, <4>1
    <3>7. r.class \in {"none", "Atom", "Vector", "NestedVector", "Dictionary"}
      BY <3>1 DEF Wrapped, Class
    <3>. QED BY <3>2, <3>3, <3>4, <3>5, <3>6, <3>7
  <2>. QED BY <2>1 DEF TypeOK, CollInv
<1>. QED BY <1>1, CollInductive, PTL

\* The pairs that a dictionary counted when it was made exist for as long as
\* it lives (dictionary.h:236-241, 337-340).
THEOREM PairsStay == Spec => []PairsExist
<1>1. CollInv => PairsExist
  <2>. SUFFICES ASSUME CollInv, NEW w \in Wrapper, wrap[w].class = "Dictionary", NEW i \in 1..2
                PROVE  wrap[w].m_length <= n(e(Ptr(w))[i])
    BY DEF PairsExist
  <2>1. Holds(wrap[w], heap) BY DEF CollInv
  <2>. QED BY <2>1, SMTT(20) DEF Holds, NoWrap, n, e, Ptr
<1>. QED BY <1>1, CollInductive, PTL

\* No operation of a wrapper changes the type of an object, shortens it or
\* changes a dictionary: what others have learnt of it stays true.
THEOREM ObjectsOnlyGrow == Spec => [][Grown(heap, heap')]_colvars
<1>1. CollInv /\ [Next]_colvars => [Grown(heap, heap')]_colvars BY CollStep
<1>. QED BY <1>1, CollInductive, PTL DEF Spec

-----------------------------------------------------------------------------
(* What the objects hold: comparison, iteration, the order of symbols.     *)

\* Where equal compares bytes it compares all the bytes of the values, no
\* more and no fewer: the switch (k.h:291-323) agrees with the traits
\* (type.h:112-155) on every type.
THEOREM WidthsAgree == \A T \in KxTypes \ NoByteSize : byte_size(T) = Width(T)
<1>. SUFFICES ASSUME NEW T \in KxTypes \ NoByteSize PROVE byte_size(T) = Width(T)
  OBVIOUS
<1>1. T \in 1..19 /\ T # 3 /\ T # 11 BY DEF KxTypes, NoByteSize, Symbol
<1>2. T \in {1, 4, 10} \/ T = 2 \/ T = 5 \/ T \in {6, 8, 13, 14, 17, 18, 19}
        \/ T \in {7, 9, 12, 15, 16}
  BY <1>1
<1>. QED BY <1>2 DEF byte_size, Width, GUID, Symbol

\* memcmp over the bytes of the first compares its values, no more, no fewer.
LEMMA BytesAreValues ==
  ASSUME NEW T \in KxTypes \ NoByteSize, NEW len \in Nat
  PROVE  (byte_size(T) * len) \div Width(T) = len
<1>1. byte_size(T) = Width(T) BY WidthsAgree
<1>2. T \in 1..19 /\ T # 3 /\ T # 11 BY DEF KxTypes, NoByteSize, Symbol
<1>3. Width(T) \in {1, 2, 4, 8, 16} BY <1>2 DEF Width, GUID, Symbol
<1>4. /\ (1 * len) \div 1 = len /\ (2 * len) \div 2 = len /\ (4 * len) \div 4 = len
      /\ (8 * len) \div 8 = len /\ (16 * len) \div 16 = len
  OBVIOUS
<1>. QED BY <1>1, <1>3, <1>4

\* An object, looked at by its type.
LEMMA KindOfObject ==
  ASSUME CollInv, NEW x \in Obj
  PROVE  /\ x \in Nat \ {0} /\ x \in 1..Len(heap) /\ t(x) \in Int /\ n(x) \in Nat
         /\ Abs(t(x)) \notin NoByteSize => Abs(t(x)) \in KxTypes
         /\ t(x) < 0 => n(x) = 1
         /\ t(x) > 0 /\ t(x) # DictType => \E S : e(x) \in Seq(S)
         /\ Abs(t(x)) = Symbol => e(x) \in Seq(Str)
<1>1. x \in Nat \ {0} /\ x \in 1..Len(heap)
  <2>1. Len(heap) \in Nat /\ Obj = 1..Len(heap) BY DEF CollInv, HeapOK, Obj
  <2>. QED BY <2>1
<1>2. /\ t(x) \in Int /\ n(x) \in Nat /\ t(x) = heap[x].t /\ e(x) = heap[x].e
      /\ Sound(heap[x], Len(heap))
  BY <1>1, ObjectIs DEF CollInv, t, n, e
<1>3. CASE \E T \in Types : /\ t(x) \in {T, -T} /\ e(x) \in Seq(Val[T])
                            /\ (t(x) = -T => Len(e(x)) = 1)
  <2>1. PICK T \in Types : /\ t(x) \in {T, -T} /\ e(x) \in Seq(Val[T])
                           /\ (t(x) = -T => Len(e(x)) = 1)
    BY <1>3
  <2>2. T \in Nat /\ T > 0 /\ -T < 0 /\ -T \in Int /\ T \in KxTypes
    BY TypeIsPositive, ValuesAssumption
  <2>3. Abs(t(x)) = T
    <3>1. -(-T) = T BY <2>2
    <3>. QED BY <2>1, <2>2, <3>1 DEF Abs
  <2>4. t(x) < 0 => n(x) = 1 BY <2>1, <2>2 DEF n
  <2>5. T = Symbol => e(x) \in Seq(Str)
    <3>1. ASSUME T = Symbol PROVE e(x) \in Seq(Str)
      <4>1. Val[T] \subseteq Str BY <3>1, ValuesAssumption DEF Str
      <4>. QED BY <2>1, <4>1, SeqWider
    <3>. QED BY <3>1
  <2>. QED BY <1>1, <1>2, <2>1, <2>2, <2>3, <2>4, <2>5
<1>4. CASE t(x) = 0
  <2>1. Abs(t(x)) = 0 BY <1>4 DEF Abs
  <2>2. 0 # Symbol /\ 0 \in NoByteSize BY DEF Symbol, NoByteSize
  <2>. QED BY <1>1, <1>2, <1>4, <2>1, <2>2
<1>5. CASE t(x) = DictType
  <2>1. Abs(t(x)) = DictType /\ DictType > 0 BY <1>5 DEF Abs, DictType
  <2>2. DictType # Symbol /\ DictType \in NoByteSize BY DEF Symbol, NoByteSize, DictType
  <2>. QED BY <1>1, <1>2, <1>5, <2>1, <2>2
<1>. QED BY <1>2, <1>3, <1>4, <1>5 DEF Sound

\* K::operator== answers for the values, for objects of every type but symbols,
\* lists and dictionaries, at which it throws, and GUID atoms, which it compares
\* by their addresses (k.h:276-349).
THEOREM ComparisonIsRight == Spec => []EqualIsRight
<1>1. CollInv => EqualIsRight
  <2>. SUFFICES ASSUME CollInv, NEW x \in Obj, NEW y \in Obj, Comparable(x, y)
                PROVE  RightAnswer(x, y)
    BY DEF EqualIsRight
  <2>1. /\ x # Null /\ y # Null /\ t(x) \in Int /\ t(y) \in Int /\ n(x) \in Nat /\ n(y) \in Nat
        /\ t(x) < 0 => n(x) = 1
        /\ t(y) < 0 => n(y) = 1
        /\ Abs(t(x)) \notin NoByteSize => Abs(t(x)) \in KxTypes
    BY KindOfObject DEF Null
  <2>2. CASE t(x) # t(y)
    <3>1. Equal(x, y) = "different" BY <2>1, <2>2 DEF Equal
    <3>. QED BY <2>2, <3>1 DEF SameValue, RightAnswer
  <2>3. CASE t(x) = t(y) /\ t(x) >= 0 /\ n(x) # n(y)
    <3>1. Equal(x, y) = "different" BY <2>1, <2>3 DEF Equal
    <3>. QED BY <2>3, <3>1 DEF SameValue, RightAnswer
  <2>4. CASE t(x) = t(y) /\ (t(x) >= 0 => n(x) = n(y))
    <3>1. Equal(x, y) = IF Abs(t(x)) \in NoByteSize THEN "throws"
                        ELSE IF (IF t(x) = -GUID THEN x = y ELSE SameBytes(x, y))
                             THEN "equal" ELSE "different"
      BY <2>1, <2>4 DEF Equal
    <3>2. n(x) = n(y) BY <2>1, <2>4
    <3>3. Abs(t(x)) \notin NoByteSize /\ t(x) # -GUID BY <2>1, <2>4, <3>2 DEF Comparable
    <3>4. (byte_size(Abs(t(x))) * n(x)) \div Width(Abs(t(x))) = n(x)
      BY <2>1, <3>3, BytesAreValues
    <3>5. SameBytes(x, y) <=> \A i \in 1..n(x) : i \in 1..n(y) /\ e(x)[i] = e(y)[i]
      BY <3>4 DEF SameBytes
    <3>6. SameBytes(x, y) <=> SameValue(x, y) BY <2>4, <3>2, <3>5 DEF SameValue
    <3>. QED BY <3>1, <3>3, <3>6 DEF RightAnswer
  <2>. QED BY <2>1, <2>2, <2>3, <2>4
<1>. QED BY <1>1, CollInductive, PTL

\* An iterator visits the values of a vector in order or in reverse, each
\* once, whichever of its operators takes the steps (iterator.h:33-103).
THEOREM IteratorsVisit == Spec => []Iteration
<1>1. CollInv => Iteration
  <2>. SUFFICES ASSUME CollInv, NEW x \in Obj, t(x) > 0, t(x) # DictType
                PROVE  /\ Visits(e(x), begin(e(x)), end(e(x)), e(x))
                       /\ Visits(e(x), rbegin(e(x)), rend(e(x)), Reverse(e(x)))
    BY DEF Iteration
  <2>1. PICK S : e(x) \in Seq(S) BY KindOfObject
  <2>. QED BY <2>1, VisitsForward, VisitsBackward
<1>. QED BY <1>1, CollInductive, PTL

\* Symbols compare as their strings do, with views and with one another
\* (symbol.h:66-80).
THEOREM SymbolsOrdered == Spec => []SymbolOrder
<1>1. CollInv => SymbolOrder
  <2>. SUFFICES ASSUME CollInv, NEW x \in Obj, Abs(t(x)) = Symbol, NEW i \in 1..n(x), NEW v \in View
                PROVE  /\ CompareView(e(x)[i], v) = Lexicographic(e(x)[i], v)
                       /\ CompareSymbol(e(x)[i], v) = Lexicographic(e(x)[i], v)
    BY DEF SymbolOrder
  <2>1. e(x) \in Seq(Str) /\ n(x) = Len(e(x)) BY KindOfObject DEF n
  <2>2. e(x)[i] \in Str /\ v \in Str BY <2>1, CollectionsAssumption DEF Str
  <2>. QED BY <2>2, ComparesRight
<1>. QED BY <1>1, CollInductive, PTL

-----------------------------------------------------------------------------
(* The walk of inner_type_impl.                                            *)

\* Where the walk is, and what it may answer.
Place  == [k : Obj, i : Nat, T : Nat, callers : SUBSET Obj]
Answer == [is : {"type", "no", "throws", "crash"}, t : Nat]

\* From a list it goes into the child, and when that has answered past it.
Child(c)   == e(c.k)[c.i + 1]
Into(c)    == [k |-> Child(c), i |-> 0, T |-> c.T, callers |-> c.callers \cup {Child(c)}]
Past(c, T) == [k |-> Child(c), i |-> c.i + 1, T |-> T, callers |-> c.callers]

\* One turn of the loop, if f is what the walk answers elsewhere.
OfChild(f, c) ==
  CASE Child(c) = Null -> {Throws}
    [] Child(c) \in c.callers -> {Crash}
    [] Child(c) \in Obj \ c.callers ->
         IF t(Child(c)) # 0 THEN OfType(Child(c), c.T) ELSE f[Into(c)]
Rest(f, c, r) == IF r.is # "type" THEN {r} ELSE f[Past(c, IF c.T = 0 THEN r.t ELSE c.T)]
Look(f, c) ==
  IF c.i >= LengthRead(c.k) THEN {Is(c.T)}
  ELSE IF t(c.k) # 0 THEN {Is(c.T), No, Throws, Crash}
  ELSE UNION {Rest(f, c, r) : r \in OfChild(f, c)}

Walk == CHOOSE f : f = [c \in Place |-> Look(f, c)]

\* inner_type_impl is that walk.
LEMMA ImplIsWalk ==
  ASSUME NEW k \in Obj, k # Null, t(k) = 0, NEW T \in Nat
  PROVE  inner_type_impl(k, T) = Walk[[k |-> k, i |-> 0, T |-> T, callers |-> {k}]]
BY DEF inner_type_impl, Walk, Look, Rest, OfChild, Into, Past, Child, Place

\* Whoever is inside of a list can go into fewer lists; whoever goes past a
\* child has fewer before it.
Rank(c) == Cardinality(Obj \ c.callers) * (MaxLen + 1) + (IF c.i <= MaxLen THEN MaxLen - c.i ELSE 0)

ShortLists == \A x \in Obj : t(x) = 0 => n(x) <= MaxLen

\* The rank is a natural number.
LEMMA RankIs ==
  ASSUME CollInv, NEW c \in Place
  PROVE  /\ Rank(c) \in Nat /\ Cardinality(Obj \ c.callers) \in Nat
         /\ IsFiniteSet(Obj \ c.callers) /\ MaxLen \in Nat
<1>1. Obj = 1..Len(heap) /\ Len(heap) \in Nat BY DEF CollInv, HeapOK, Obj
<1>2. IsFiniteSet(Obj) BY <1>1, FS_Interval
<1>3. IsFiniteSet(Obj \ c.callers) BY <1>2, FS_Difference
<1>. DEFINE s == Cardinality(Obj \ c.callers)
<1>4. s \in Nat BY <1>3, FS_CardinalityType
<1>5. MaxLen \in Nat /\ c.i \in Nat BY CollectionsAssumption DEF Place
<1>. DEFINE r == IF c.i <= MaxLen THEN MaxLen - c.i ELSE 0
<1>6. r \in Nat BY <1>5
<1>. HIDE DEF s, r
<1>7. s * (MaxLen + 1) \in Nat BY <1>4, <1>5
<1>8. s * (MaxLen + 1) + r \in Nat BY <1>6, <1>7
<1>. QED BY <1>3, <1>4, <1>5, <1>8 DEF Rank, s, r

\* The list that the walk is in, and the child it looks at.
LEMMA ChildIs ==
  ASSUME CollInv, ShortLists, NEW c \in Place, t(c.k) = 0, ~(c.i >= LengthRead(c.k))
  PROVE  /\ c.i < n(c.k) /\ c.i + 1 \in 1..n(c.k) /\ c.i < MaxLen /\ c.k \in Obj
         /\ Child(c) \in Obj /\ Child(c) # Null
<1>1. /\ c.k \in Obj /\ c.i \in Nat /\ Obj = 1..Len(heap) /\ Len(heap) \in Nat /\ HeapOK(heap)
      /\ MaxLen \in Nat
  BY CollectionsAssumption DEF Place, CollInv, HeapOK, Obj
<1>2. LengthRead(c.k) = n(c.k)
  <2>1. t(c.k) >= 0 /\ t(c.k) # -Long /\ t(c.k) # -GUID BY DEF Long, GUID
  <2>. QED BY <2>1, SMT DEF LengthRead
<1>3. n(c.k) \in Nat /\ n(c.k) <= MaxLen /\ n(c.k) = Len(e(c.k))
  BY <1>1, ObjectIs DEF ShortLists, n, e
<1>4. c.i < n(c.k) /\ c.i + 1 \in 1..n(c.k) /\ c.i < MaxLen BY <1>1, <1>2, <1>3
<1>5. e(c.k) \in Seq(1..Len(heap))
  <2>1. Sound(heap[c.k], Len(heap)) /\ heap[c.k].t = 0 BY <1>1 DEF HeapOK, t
  <2>2. \A T \in Types : heap[c.k].t \notin {T, -T} BY <2>1, TypeIsPositive
  <2>. QED BY <2>1, <2>2 DEF Sound, DictType, e
<1>6. Child(c) \in Obj
  <2>. DEFINE es == e(c.k)
              i == c.i + 1
  <2>1. es \in Seq(1..Len(heap)) /\ i \in 1..Len(es) /\ Child(c) = es[i]
    BY <1>3, <1>4, <1>5 DEF Child
  <2>. HIDE DEF es, i
  <2>2. es[i] \in 1..Len(heap) BY <2>1
  <2>. QED BY <1>1, <2>1, <2>2
<1>. QED BY <1>1, <1>4, <1>6 DEF Null

\* Into a child that the walk is not inside of, the rank decreases ...
LEMMA IntoLower ==
  ASSUME CollInv, ShortLists, NEW c \in Place, t(c.k) = 0, ~(c.i >= LengthRead(c.k)),
         Child(c) \notin c.callers
  PROVE  Into(c) \in Place /\ Rank(Into(c)) < Rank(c)
<1>1. Child(c) \in Obj /\ c.i < MaxLen BY ChildIs
<1>2. c.T \in Nat /\ c.callers \in SUBSET Obj /\ c.i \in Nat BY DEF Place
<1>. DEFINE d == Into(c)
<1>3. d.i = 0 /\ d.callers = c.callers \cup {Child(c)} BY DEF Into
<1>4. d \in Place BY <1>1, <1>2 DEF Into, Place
<1>. HIDE DEF d
<1>. DEFINE A == Obj \ c.callers
            B == Obj \ d.callers
            s == Cardinality(A)
            u == Cardinality(B)
            r == IF c.i <= MaxLen THEN MaxLen - c.i ELSE 0
            M == MaxLen
<1>5. IsFiniteSet(A) /\ s \in Nat /\ u \in Nat /\ M \in Nat BY <1>4, RankIs
<1>6. B = A \ {Child(c)} /\ Child(c) \in A BY <1>1, <1>3
<1>. HIDE DEF A, B
<1>7. u = s - 1 BY <1>5, <1>6, FS_RemoveElement
<1>8. Rank(c) = s * (M + 1) + r /\ Rank(d) = u * (M + 1) + M
  <2>1. (IF d.i <= MaxLen THEN MaxLen - d.i ELSE 0) = MaxLen BY <1>3, <1>5
  <2>. QED BY <2>1 DEF Rank, A, B
<1>9. r \in Nat BY <1>2, <1>5
<1>. HIDE DEF s, u, r, M
<1>10. s * (M + 1) = u * (M + 1) + (M + 1)
  <2>1. s = u + 1 BY <1>5, <1>7
  <2>2. (u + 1) * (M + 1) = u * (M + 1) + (M + 1) BY <1>5
  <2>. QED BY <2>1, <2>2
<1>. DEFINE p == u * (M + 1)
<1>11. p \in Nat BY <1>5
<1>12. Rank(c) = (p + (M + 1)) + r /\ Rank(d) = p + M BY <1>8, <1>10
<1>. HIDE DEF p
<1>13. Rank(d) < Rank(c) BY <1>5, <1>9, <1>11, <1>12
<1>. QED BY <1>4, <1>13 DEF d

\* ... and past a child, too.
LEMMA PastLower ==
  ASSUME CollInv, ShortLists, NEW c \in Place, t(c.k) = 0, ~(c.i >= LengthRead(c.k)), NEW T \in Nat
  PROVE  Past(c, T) \in Place /\ Rank(Past(c, T)) < Rank(c)
<1>1. Child(c) \in Obj /\ c.i < MaxLen BY ChildIs
<1>2. c.callers \in SUBSET Obj /\ c.i \in Nat BY DEF Place
<1>. DEFINE d == Past(c, T)
<1>3. d.i = c.i + 1 /\ d.callers = c.callers BY DEF Past
<1>4. d \in Place BY <1>1, <1>2 DEF Past, Place
<1>. HIDE DEF d
<1>. DEFINE s == Cardinality(Obj \ c.callers)
            p == s * (MaxLen + 1)
<1>5. s \in Nat /\ MaxLen \in Nat BY RankIs
<1>6. p \in Nat
  <2>. HIDE DEF s
  <2>. QED BY <1>5
<1>7. Rank(c) = p + (MaxLen - c.i) /\ Rank(d) = p + (MaxLen - (c.i + 1))
  <2>1. c.i <= MaxLen /\ c.i + 1 <= MaxLen BY <1>1, <1>2, <1>5
  <2>. QED BY <1>3, <2>1 DEF Rank
<1>. HIDE DEF p
<1>8. Rank(d) < Rank(c) BY <1>1, <1>2, <1>5, <1>6, <1>7
<1>. QED BY <1>4, <1>8 DEF d

\* The answers of the walk, told apart.
LEMMA OutcomesAre == /\ \A T \in Nat : Is(T) \in Answer /\ Is(T).is = "type" /\ Is(T).t = T
                     /\ No \in Answer /\ Throws \in Answer /\ Crash \in Answer
                     /\ No.is = "no" /\ Throws.is = "throws" /\ Crash.is = "crash"
BY DEF Is, No, Throws, Crash, Answer

\* What one turn answers, if the walk answers elsewhere what it may.
LEMMA LookIs ==
  ASSUME CollInv, ShortLists, NEW f \in [Place -> SUBSET Answer], NEW c \in Place
  PROVE  Look(f, c) \in SUBSET Answer
<1>1. c.T \in Nat BY DEF Place
<1>2. CASE c.i >= LengthRead(c.k)
  <2>1. Look(f, c) = {Is(c.T)} BY <1>2 DEF Look
  <2>. QED BY <1>1, <2>1, OutcomesAre
<1>3. CASE ~(c.i >= LengthRead(c.k)) /\ t(c.k) # 0
  <2>1. Look(f, c) = {Is(c.T), No, Throws, Crash} BY <1>3 DEF Look
  <2>. QED BY <1>1, <2>1, OutcomesAre
<1>4. CASE ~(c.i >= LengthRead(c.k)) /\ t(c.k) = 0
  <2>1. Look(f, c) = UNION {Rest(f, c, r) : r \in OfChild(f, c)} BY <1>4 DEF Look
  <2>2. Child(c) \in Obj /\ Child(c) # Null BY <1>4, ChildIs
  <2>3. OfChild(f, c) \in SUBSET Answer
    <3>1. CASE Child(c) \in c.callers
      <4>1. OfChild(f, c) = {Crash} BY <2>2, <3>1 DEF OfChild
      <4>. QED BY <4>1, OutcomesAre
    <3>2. CASE Child(c) \notin c.callers /\ t(Child(c)) # 0
      <4>1. OfChild(f, c) = OfType(Child(c), c.T) BY <2>2, <3>2 DEF OfChild
      <4>2. Abs(t(Child(c))) \in Nat
        <5>1. t(Child(c)) \in Int BY <2>2, KindOfObject
        <5>. QED BY <5>1 DEF Abs
      <4>. QED BY <4>1, <4>2, OutcomesAre DEF OfType
    <3>3. CASE Child(c) \notin c.callers /\ t(Child(c)) = 0
      <4>1. OfChild(f, c) = f[Into(c)] BY <2>2, <3>3 DEF OfChild
      <4>2. Into(c) \in Place BY <1>4, <3>3, IntoLower
      <4>. QED BY <4>1, <4>2
    <3>. QED BY <3>1, <3>2, <3>3
  <2>4. ASSUME NEW r \in Answer PROVE Rest(f, c, r) \in SUBSET Answer
    <3>1. CASE r.is # "type" BY <3>1 DEF Rest
    <3>2. CASE r.is = "type"
      <4>. DEFINE T == IF c.T = 0 THEN r.t ELSE c.T
      <4>1. T \in Nat BY <1>1 DEF Answer
      <4>2. Rest(f, c, r) = f[Past(c, T)] BY <3>2 DEF Rest
      <4>. HIDE DEF T
      <4>3. Past(c, T) \in Place BY <1>4, <4>1, PastLower
      <4>. QED BY <4>2, <4>3
    <3>. QED BY <3>1, <3>2
  <2>. QED BY <2>1, <2>3, <2>4
<1>. QED BY <1>2, <1>3, <1>4

\* ... which depends on what it answers at places of lower rank.
LEMMA LookIsLocal ==
  ASSUME CollInv, ShortLists, NEW f \in [Place -> SUBSET Answer],
         NEW g \in [Place -> SUBSET Answer], NEW c \in Place, \A d \in Place : Rank(d) < Rank(c) => f[d] = g[d]
  PROVE  Look(f, c) = Look(g, c)
<1>1. c.T \in Nat BY DEF Place
<1>2. CASE c.i >= LengthRead(c.k) BY <1>2 DEF Look
<1>3. CASE ~(c.i >= LengthRead(c.k)) /\ t(c.k) # 0 BY <1>3 DEF Look
<1>4. CASE ~(c.i >= LengthRead(c.k)) /\ t(c.k) = 0
  <2>1. /\ Look(f, c) = UNION {Rest(f, c, r) : r \in OfChild(f, c)}
        /\ Look(g, c) = UNION {Rest(g, c, r) : r \in OfChild(g, c)}
    BY <1>4 DEF Look
  <2>2. Child(c) \in Obj /\ Child(c) # Null BY <1>4, ChildIs
  <2>3. OfChild(f, c) = OfChild(g, c) /\ OfChild(f, c) \in SUBSET Answer
    <3>1. CASE Child(c) \in c.callers
      <4>1. OfChild(f, c) = {Crash} /\ OfChild(g, c) = {Crash} BY <2>2, <3>1 DEF OfChild
      <4>. QED BY <4>1, OutcomesAre
    <3>2. CASE Child(c) \notin c.callers /\ t(Child(c)) # 0
      <4>1. OfChild(f, c) = OfType(Child(c), c.T) /\ OfChild(g, c) = OfType(Child(c), c.T)
        BY <2>2, <3>2 DEF OfChild
      <4>2. Abs(t(Child(c))) \in Nat
        <5>1. t(Child(c)) \in Int BY <2>2, KindOfObject
        <5>. QED BY <5>1 DEF Abs
      <4>3. OfType(Child(c), c.T) \in SUBSET Answer BY <4>2, OutcomesAre DEF OfType
      <4>. QED BY <4>1, <4>3
    <3>3. CASE Child(c) \notin c.callers /\ t(Child(c)) = 0
      <4>1. OfChild(f, c) = f[Into(c)] /\ OfChild(g, c) = g[Into(c)] BY <2>2, <3>3 DEF OfChild
      <4>2. Into(c) \in Place /\ Rank(Into(c)) < Rank(c) BY <1>4, <3>3, IntoLower
      <4>3. f[Into(c)] = g[Into(c)] /\ f[Into(c)] \in SUBSET Answer BY <4>2
      <4>. QED BY <4>1, <4>3
    <3>. QED BY <3>1, <3>2, <3>3
  <2>4. ASSUME NEW r \in Answer PROVE Rest(f, c, r) = Rest(g, c, r)
    <3>1. CASE r.is # "type" BY <3>1 DEF Rest
    <3>2. CASE r.is = "type"
      <4>. DEFINE T == IF c.T = 0 THEN r.t ELSE c.T
      <4>1. T \in Nat BY <1>1 DEF Answer
      <4>2. Rest(f, c, r) = f[Past(c, T)] /\ Rest(g, c, r) = g[Past(c, T)] BY <3>2 DEF Rest
      <4>. HIDE DEF T
      <4>3. Past(c, T) \in Place /\ Rank(Past(c, T)) < Rank(c) BY <1>4, <4>1, PastLower
      <4>. QED BY <4>2, <4>3
    <3>. QED BY <3>1, <3>2
  <2>5. {Rest(f, c, r) : r \in OfChild(f, c)} = {Rest(g, c, r) : r \in OfChild(g, c)}
    <3>. DEFINE R == OfChild(f, c)
    <3>1. R = OfChild(g, c) /\ R \in SUBSET Answer BY <2>3
    <3>. HIDE DEF R
    <3>2. {Rest(f, c, r) : r \in R} = {Rest(g, c, r) : r \in R} BY <2>4, <3>1
    <3>. QED BY <3>1, <3>2 DEF R
  <2>. QED BY <2>1, <2>5
<1>. QED BY <1>2, <1>3, <1>4

\* So the walk exists.
LEMMA WalkIs ==
  ASSUME CollInv, ShortLists
  PROVE  \A c \in Place : Walk[c] = Look(Walk, c)
<1>. DEFINE S == SUBSET Answer
            F == [Place -> S]
            Step == [f \in F |-> [c \in Place |-> Look(f, c)]]
            rank == [c \in Place |-> Rank(c)]
<1>1. Step \in [[Place -> S] -> [Place -> S]] BY LookIs
<1>2. rank \in [Place -> Nat] BY RankIs
<1>3. ASSUME NEW f \in [Place -> S], NEW g \in [Place -> S], NEW c \in Place,
             \A d \in Place : rank[d] < rank[c] => f[d] = g[d]
      PROVE  Step[f][c] = Step[g][c]
  <2>1. \A d \in Place : Rank(d) < Rank(c) => f[d] = g[d] BY <1>3
  <2>2. Look(f, c) = Look(g, c) BY <2>1, LookIsLocal
  <2>3. Step[f][c] = Look(f, c) /\ Step[g][c] = Look(g, c) OBVIOUS
  <2>. QED BY <2>2, <2>3
<1>4. Descends(Step, Place, S, rank)
  <2>1. S # {} OBVIOUS
  <2>. HIDE DEF S, Step, rank
  <2>. QED BY <1>1, <1>2, <1>3, <2>1 DEF Descends
<1>5. \E f \in [Place -> S] : f = Step[f]
  <2>. HIDE DEF S, Step, rank
  <2>. QED BY <1>4, RankedRecursion
<1>6. PICK f \in [Place -> S] : f = Step[f] BY <1>5
<1>7. f = [c \in Place |-> Look(f, c)] BY <1>6
<1>8. Walk = [c \in Place |-> Look(Walk, c)] BY <1>7 DEF Walk
<1>. QED BY <1>8

\* A list that only holds values of type T is found to be of type T, or to
\* have no type.
LEMMA WalkFinds ==
  ASSUME CollInv, ShortLists, NEW L, NEW T \in Types,
         \A y \in Obj : L[y] = T => t(y) \in {T, -T, 0, DictType},
         \A y \in Obj : L[y] = T /\ t(y) = 0 =>
            \A i \in 1..n(y) : t(e(y)[i]) # DictType /\ L[e(y)[i]] = T,
         NEW x \in Obj, t(x) = 0, L[x] = T,
         NEW r \in inner_type_impl(x, 0), r.is = "type"
  PROVE  r.t \in {0, T}
<1>. DEFINE Good(c) == L[c.k] = T /\ c.T \in {0, T}
            P == {m \in Nat : \A c \in Place : Good(c) /\ Rank(c) < m =>
                    \A a \in Walk[c] : a.is = "type" => a.t \in {0, T}}
<1>1. T \in Nat /\ 0 \in Nat BY TypeIsPositive
<1>2. 0 \in P
  <2>1. ASSUME NEW c \in Place PROVE ~(Rank(c) < 0)
    <3>1. Rank(c) \in Nat BY RankIs
    <3>. HIDE DEF P
    <3>. QED BY <3>1
  <2>. QED BY <2>1
<1>3. ASSUME NEW m \in Nat, m \in P PROVE m + 1 \in P
  <2>. SUFFICES ASSUME NEW c \in Place, Good(c), Rank(c) < m + 1,
                       NEW a \in Walk[c], a.is = "type"
                PROVE  a.t \in {0, T}
    OBVIOUS
  <2>1. a \in Look(Walk, c) BY WalkIs
  <2>2. ASSUME NEW d \in Place, Good(d), Rank(d) < Rank(c), NEW b \in Walk[d], b.is = "type"
        PROVE  b.t \in {0, T}
    <3>1. Rank(d) < m
      <4>1. Rank(d) \in Nat /\ Rank(c) \in Nat BY RankIs
      <4>. QED BY <2>2, <4>1
    <3>. QED BY <1>3, <2>2, <3>1
  <2>3. L[c.k] = T /\ c.T \in {0, T} /\ c.T \in Nat /\ c.k \in Obj BY DEF Place
  <2>. HIDE DEF P
  <2>4. CASE c.i >= LengthRead(c.k)
    <3>1. a = Is(c.T) BY <2>1, <2>4 DEF Look
    <3>. QED BY <2>3, <3>1, OutcomesAre
  <2>5. CASE ~(c.i >= LengthRead(c.k)) /\ t(c.k) # 0
    <3>1. a \in {Is(c.T), No, Throws, Crash} BY <2>1, <2>5 DEF Look
    <3>. QED BY <2>3, <3>1, OutcomesAre
  <2>6. CASE ~(c.i >= LengthRead(c.k)) /\ t(c.k) = 0
    <3>1. PICK b \in OfChild(Walk, c) : a \in Rest(Walk, c, b) BY <2>1, <2>6 DEF Look
    <3>2. /\ Child(c) \in Obj /\ Child(c) # Null
          /\ L[Child(c)] = T /\ t(Child(c)) \in {T, -T, 0}
      <4>1. Child(c) \in Obj /\ Child(c) # Null /\ c.i + 1 \in 1..n(c.k) BY <2>6, ChildIs
      <4>2. t(Child(c)) # DictType /\ L[Child(c)] = T BY <2>3, <2>6, <4>1 DEF Child
      <4>. QED BY <4>1, <4>2
    <3>3. b.is = "type" => b.t \in {0, T}
      <4>1. CASE Child(c) \in c.callers
        <5>1. b = Crash BY <3>1, <3>2, <4>1 DEF OfChild
        <5>. QED BY <5>1, OutcomesAre
      <4>2. CASE Child(c) \notin c.callers /\ t(Child(c)) # 0
        <5>1. b \in OfType(Child(c), c.T) BY <3>1, <3>2, <4>2 DEF OfChild
        <5>2. Abs(t(Child(c))) = T
          <6>1. T > 0 /\ T \in Int BY TypeIsPositive
          <6>2. t(Child(c)) = T \/ t(Child(c)) = -T BY <3>2, <4>2
          <6>. QED BY <6>1, <6>2 DEF Abs
        <5>3. b = Is(T) \/ b = No BY <5>1, <5>2 DEF OfType
        <5>. QED BY <1>1, <5>3, OutcomesAre
      <4>3. CASE Child(c) \notin c.callers /\ t(Child(c)) = 0
        <5>1. b \in Walk[Into(c)] BY <3>1, <3>2, <4>3 DEF OfChild
        <5>2. Into(c) \in Place /\ Rank(Into(c)) < Rank(c) BY <2>6, <4>3, IntoLower
        <5>3. Into(c).k = Child(c) /\ Into(c).T = c.T BY DEF Into
        <5>. QED BY <2>2, <2>3, <3>2, <5>1, <5>2, <5>3
      <4>. QED BY <4>1, <4>2, <4>3
    <3>4. CASE b.is # "type"
      <4>1. a = b BY <3>1, <3>4 DEF Rest
      <4>. QED BY <3>4, <4>1
    <3>5. CASE b.is = "type"
      <4>. DEFINE U == IF c.T = 0 THEN b.t ELSE c.T
      <4>1. U \in {0, T} /\ U \in Nat BY <1>1, <2>3, <3>3, <3>5
      <4>2. a \in Walk[Past(c, U)] BY <3>1, <3>5 DEF Rest
      <4>. HIDE DEF U
      <4>3. Past(c, U) \in Place /\ Rank(Past(c, U)) < Rank(c) BY <2>6, <4>1, PastLower
      <4>4. Past(c, U).k = Child(c) /\ Past(c, U).T = U BY DEF Past
      <4>. QED BY <2>2, <3>2, <4>1, <4>2, <4>3, <4>4
    <3>. QED BY <3>4, <3>5
  <2>. QED BY <2>4, <2>5, <2>6
<1>4. Nat \subseteq P
  <2>. HIDE DEF P
  <2>. QED BY <1>2, <1>3, Induction
<1>. DEFINE c == [k |-> x, i |-> 0, T |-> 0, callers |-> {x}]
<1>5. c \in Place /\ Good(c) BY <1>1 DEF Place
<1>6. Rank(c) \in Nat BY <1>5, RankIs
<1>7. r \in Walk[c]
  <2>1. x # Null BY KindOfObject DEF Null
  <2>. QED BY <1>1, <2>1, ImplIsWalk
<1>8. Rank(c) + 1 \in P /\ Rank(c) < Rank(c) + 1
  <2>. HIDE DEF P, c
  <2>. QED BY <1>4, <1>6
<1>. QED BY <1>5, <1>7, <1>8

-----------------------------------------------------------------------------
(* Labels.                                                                 *)

\* Every object has a label from its making: it is of the labelled type, or a
\* list of objects of its own label, or a dictionary.
Fits(T, o, h, L) ==
  /\ o.t \in {T, -T, 0, DictType}
  /\ o.t = 0 => /\ Len(o.e) <= MaxLen
                /\ \A i \in 1..Len(o.e) : h[o.e[i]].t # DictType /\ L[o.e[i]] = T

Labels(L, h) == /\ L \in [1..Len(h) -> Types]
                /\ \A x \in 1..Len(h) : Fits(L[x], h[x], h, L)

\* A wrapper of values is of the label of its object.
Agrees(r, L) == r.class \in Class => L[r.m_ptr] = r.T

LabelInv == \E L : Labels(L, heap) /\ \A w \in Wrapper : Agrees(wrap[w], L)

\* The elements of a list.
LEMMA ListElements ==
  ASSUME NEW o, NEW m \in Nat, Sound(o, m), o.t = 0
  PROVE  o.e \in Seq(1..m) /\ \A i \in 1..Len(o.e) : o.e[i] \in 1..m
<1>1. o.e \in Seq(1..m)
  <2>1. \A T \in Types : o.t \notin {T, -T} BY TypeIsPositive
  <2>. QED BY <2>1 DEF Sound, DictType
<1>. QED BY <1>1

\* An object fits its label for as long as nobody writes to it.
LEMMA FitsOn ==
  ASSUME NEW h, NEW g, HeapOK(h), Grown(h, g), NEW L, NEW M,
         \A x \in 1..Len(h) : M[x] = L[x],
         NEW T, NEW o, Sound(o, Len(h)), Fits(T, o, h, L)
  PROVE  Fits(T, o, g, M)
<1>1. Len(h) \in Nat /\ \A x \in 1..Len(h) : g[x].t = h[x].t BY DEF HeapOK, Grown
<1>2. CASE o.t = 0
  <2>1. \A i \in 1..Len(o.e) : o.e[i] \in 1..Len(h) BY <1>1, <1>2, ListElements
  <2>2. ASSUME NEW i \in 1..Len(o.e) PROVE g[o.e[i]].t # DictType /\ M[o.e[i]] = T
    <3>. DEFINE y == o.e[i]
    <3>1. y \in 1..Len(h) BY <2>1
    <3>2. h[y].t # DictType /\ L[y] = T BY <1>2 DEF Fits
    <3>. HIDE DEF y
    <3>3. g[y].t # DictType /\ M[y] = T BY <1>1, <3>1, <3>2
    <3>. QED BY <3>3 DEF y
  <2>. QED BY <1>2, <2>2 DEF Fits
<1>3. CASE o.t # 0 BY <1>3 DEF Fits
<1>. QED BY <1>2, <1>3

\* A new object brings its label.
LEMMA LabelAppend ==
  ASSUME NEW h, HeapOK(h), NEW L, Labels(L, h),
         NEW o \in Object, Sound(o, Len(h)), NEW T \in Types, Fits(T, o, h, L)
  PROVE  \E M : /\ Labels(M, Append(h, o)) /\ M[Len(h) + 1] = T
                /\ \A x \in 1..Len(h) : M[x] = L[x]
<1>. DEFINE g == Append(h, o)
            M == [x \in 1..Len(g) |-> IF x = Len(h) + 1 THEN T ELSE L[x]]
<1>1. /\ HeapOK(h) /\ Grown(h, g) /\ Len(h) \in Nat /\ Len(g) = Len(h) + 1
      /\ g[Len(h) + 1] = o /\ \A x \in 1..Len(h) : g[x] = h[x]
  BY HeapAppend DEF HeapOK
<1>. HIDE DEF g
<1>2. M[Len(h) + 1] = T BY <1>1
<1>3. \A x \in 1..Len(h) : M[x] = L[x] BY <1>1
<1>4. M \in [1..Len(g) -> Types]
  <2>1. ASSUME NEW x \in 1..Len(g), x # Len(h) + 1 PROVE L[x] \in Types
    <3>1. x \in 1..Len(h) BY <1>1, <2>1
    <3>. QED BY <3>1 DEF Labels
  <2>. QED BY <2>1
<1>. HIDE DEF M
<1>5. ASSUME NEW x \in 1..Len(g) PROVE Fits(M[x], g[x], g, M)
  <2>1. CASE x = Len(h) + 1
    <3>1. Fits(T, o, g, M) BY <1>1, <1>3, FitsOn
    <3>. QED BY <1>1, <1>2, <2>1, <3>1
  <2>2. CASE x \in 1..Len(h)
    <3>1. Fits(L[x], h[x], h, L) /\ Sound(h[x], Len(h)) BY <2>2 DEF Labels, HeapOK
    <3>2. Fits(L[x], h[x], g, M) BY <1>1, <1>3, <3>1, FitsOn
    <3>. QED BY <1>1, <1>3, <2>2, <3>2
  <2>. QED BY <1>1, <2>1, <2>2
<1>6. Labels(M, g) BY <1>4, <1>5 DEF Labels
<1>. QED BY <1>2, <1>3, <1>6 DEF g

\* New contents that fit keep the labels.
LEMMA LabelReplace ==
  ASSUME NEW h, HeapOK(h), NEW L, Labels(L, h), NEW x \in 1..Len(h), h[x].t # DictType,
         NEW es, Sound([t |-> h[x].t, e |-> es], Len(h)), Len(h[x].e) <= Len(es),
         Fits(L[x], [t |-> h[x].t, e |-> es], h, L)
  PROVE  Labels(L, [h EXCEPT ![x].e = es])
<1>. DEFINE o == [t |-> h[x].t, e |-> es]
            g == [h EXCEPT ![x].e = es]
<1>1. Grown(h, g) /\ Len(g) = Len(h) BY HeapReplace
<1>2. h[x] = [t |-> h[x].t, e |-> h[x].e] BY ObjectIs
<1>3. h \in Seq(Object) BY DEF HeapOK
<1>4. g[x] = o /\ \A y \in 1..Len(h) : y # x => g[y] = h[y]
  <2>1. [h[x] EXCEPT !.e = es] = o BY <1>2
  <2>. HIDE DEF o
  <2>. QED BY <1>3, <2>1
<1>5. Sound(o, Len(h)) /\ Fits(L[x], o, h, L) OBVIOUS
<1>. HIDE DEF o, g
<1>6. ASSUME NEW y \in 1..Len(h) PROVE Fits(L[y], g[y], g, L)
  <2>1. CASE y = x
    <3>1. Fits(L[x], o, g, L) BY <1>1, <1>5, FitsOn
    <3>. QED BY <1>4, <2>1, <3>1
  <2>2. CASE y # x
    <3>1. Fits(L[y], h[y], h, L) /\ Sound(h[y], Len(h)) BY DEF Labels, HeapOK
    <3>2. Fits(L[y], h[y], g, L) BY <1>1, <3>1, FitsOn
    <3>. QED BY <1>4, <2>2, <3>2
  <2>. QED BY <2>1, <2>2
<1>7. Labels(L, g) BY <1>1, <1>6 DEF Labels
<1>. QED BY <1>7 DEF g

\* Wrappers agree with the labels if those that were there do and one that
\* has been given something new does.
LEMMA AgreesOn ==
  ASSUME CollInv, NEW L, \A w \in Wrapper : Agrees(wrap[w], L),
         NEW M, Labels(M, heap'), \A x \in 1..Len(heap) : M[x] = L[x],
         NEW w \in Wrapper, NEW r, Agrees(r, M),
         wrap' = wrap \/ wrap' = [wrap EXCEPT ![w] = r]
  PROVE  LabelInv'
<1>1. ASSUME NEW u \in Wrapper PROVE Agrees(wrap[u], M)
  <2>. SUFFICES ASSUME wrap[u].class \in Class PROVE M[wrap[u].m_ptr] = wrap[u].T
    BY DEF Agrees
  <2>1. wrap[u].m_ptr \in 1..Len(heap) BY PointsToObject DEF Ptr
  <2>. QED BY <2>1 DEF Agrees
<1>2. wrap \in [Wrapper -> Wrapped] BY DEF CollInv
<1>3. \A u \in Wrapper : wrap'[u] = wrap[u] \/ wrap'[u] = r BY <1>2
<1>4. \A u \in Wrapper : Agrees(wrap'[u], M) BY <1>1, <1>3
<1>. QED BY <1>4 DEF LabelInv

\* A step that makes an object, with a label, for w or for nobody.
LEMMA LabelMade ==
  ASSUME CollInv, LabelInv, NEW w \in Wrapper, NEW T \in Types, NEW x \in Int, NEW es, NEW r,
         Sound([t |-> x, e |-> es], Len(heap)),
         \A L : Labels(L, heap) /\ (\A u \in Wrapper : Agrees(wrap[u], L)) =>
                  Fits(T, [t |-> x, e |-> es], heap, L),
         heap' = Append(heap, [t |-> x, e |-> es]),
         r.class \in Class => r.m_ptr = Len(heap) + 1 /\ r.T = T,
         wrap' = wrap \/ wrap' = [wrap EXCEPT ![w] = r]
  PROVE  LabelInv'
<1>1. PICK L : Labels(L, heap) /\ \A u \in Wrapper : Agrees(wrap[u], L) BY DEF LabelInv
<1>. DEFINE o == [t |-> x, e |-> es]
<1>2. HeapOK(heap) /\ Len(heap) \in Nat BY DEF CollInv, HeapOK
<1>3. o \in Object BY <1>2, SoundIsObject
<1>4. Sound(o, Len(heap)) /\ Fits(T, o, heap, L) /\ heap' = Append(heap, o) BY <1>1
<1>. HIDE DEF o
<1>5. PICK M : /\ Labels(M, Append(heap, o)) /\ M[Len(heap) + 1] = T
               /\ \A y \in 1..Len(heap) : M[y] = L[y]
  BY <1>1, <1>2, <1>3, <1>4, LabelAppend
<1>6. Labels(M, heap') BY <1>4, <1>5
<1>7. Agrees(r, M) BY <1>5 DEF Agrees
<1>. QED BY <1>1, <1>5, <1>6, <1>7, AgreesOn

\* Nothing but lists depends on the others.
LEMMA PlainFits ==
  ASSUME NEW T \in Types, NEW o, o.t \in {T, -T, DictType}, NEW h, NEW L
  PROVE  Fits(T, o, h, L)
<1>1. o.t # 0 BY TypeIsPositive DEF DictType
<1>. QED BY <1>1 DEF Fits

\* The parts of a wrapper of values.
LEMMA WrapIs == \A class, T, x : /\ Wrap(class, T, x).class = class /\ Wrap(class, T, x).T = T
                                 /\ Wrap(class, T, x).m_ptr = x
BY DEF Wrap

\* A new atom: its own type is its label ...
LEMMA MakeAtomLabels ==
  ASSUME CollInv, LabelInv, NEW w \in Wrapper, NEW T \in Types, NEW v \in Val[T], MakeAtom(w, T, v)
  PROVE  LabelInv'
<1>. DEFINE vs == <<v>>
            x == -T
            o == [t |-> x, e |-> vs]
            r == Wrap("Atom", T, Len(heap) + 1)
<1>1. vs \in Seq(Val[T]) /\ Len(vs) = 1
  <2>. DEFINE S == Val[T]
  <2>1. v \in S OBVIOUS
  <2>. HIDE DEF S
  <2>2. vs \in Seq(S) /\ Len(vs) = 1 BY <2>1
  <2>. QED BY <2>2 DEF S
<1>2. heap' = Append(heap, o) /\ wrap' = [wrap EXCEPT ![w] = r] BY DEF MakeAtom, Make, Atom
<1>3. r.m_ptr = Len(heap) + 1 /\ r.T = T BY WrapIs
<1>. HIDE DEF vs, r
<1>4. Sound(o, Len(heap)) BY <1>1 DEF Sound
<1>5. \A L : Fits(T, o, heap, L) BY PlainFits
<1>6. x \in Int BY TypeIsPositive
<1>. HIDE DEF x
<1>. QED BY <1>2, <1>3, <1>4, <1>5, <1>6, LabelMade

\* ... and that of a new vector.
LEMMA MakeVectorLabels ==
  ASSUME CollInv, LabelInv, NEW w \in Wrapper, NEW T \in Types,
         NEW vs \in BoundedSeq(Val[T], MaxLen), MakeVector(w, T, vs)
  PROVE  LabelInv'
<1>. DEFINE o == [t |-> T, e |-> vs]
            r == Wrap("Vector", T, Len(heap) + 1)
<1>1. vs \in Seq(Val[T]) BY BoundedSeqIsSeq
<1>2. heap' = Append(heap, o) /\ wrap' = [wrap EXCEPT ![w] = r] BY DEF MakeVector, Make, Vector
<1>3. r.m_ptr = Len(heap) + 1 /\ r.T = T BY WrapIs
<1>. HIDE DEF r
<1>4. Sound(o, Len(heap))
  <2>1. T # -T BY TypeIsPositive
  <2>. QED BY <1>1, <2>1 DEF Sound
<1>5. \A L : Fits(T, o, heap, L) BY PlainFits
<1>6. T \in Int BY TypeIsPositive
<1>. QED BY <1>2, <1>3, <1>4, <1>5, <1>6, LabelMade

\* A new list has the type of the wrappers whose objects it holds.
LEMMA MakeNestedLabels ==
  ASSUME CollInv, LabelInv, NEW w \in Wrapper, NEW T \in Types,
         NEW ws \in BoundedSeq(Wrapper, MaxLen), MakeNested(w, T, ws)
  PROVE  LabelInv'
<1>. DEFINE xs == [i \in DOMAIN ws |-> Ptr(ws[i])]
            x == 0
            o == [t |-> x, e |-> xs]
            r == Wrap("NestedVector", T, Len(heap) + 1)
<1>1. ws \in Seq(Wrapper) /\ Len(ws) <= MaxLen BY BoundedSeqIsSeq
<1>2. DOMAIN ws = 1..Len(ws) /\ Len(ws) \in Nat BY <1>1
<1>3. ASSUME NEW i \in DOMAIN ws
      PROVE  /\ ws[i] \in Wrapper /\ wrap[ws[i]].class \in Class /\ wrap[ws[i]].T = T
             /\ Ptr(ws[i]) \in 1..Len(heap) /\ t(Ptr(ws[i])) # DictType
  <2>1. ws[i] \in Wrapper BY <1>1
  <2>2. wrap[ws[i]].class \in Class /\ wrap[ws[i]].T = T BY DEF MakeNested
  <2>. QED BY <2>1, <2>2, PointsToObject
<1>4. xs \in Seq(1..Len(heap)) /\ Len(xs) = Len(ws) BY <1>2, <1>3
<1>5. heap' = Append(heap, o) /\ wrap' = [wrap EXCEPT ![w] = r] BY DEF MakeNested, Make, List
<1>6. r.m_ptr = Len(heap) + 1 /\ r.T = T BY WrapIs
<1>7. \A i \in 1..Len(xs) : xs[i] = Ptr(ws[i]) /\ i \in DOMAIN ws BY <1>2, <1>4
<1>8. x \in Int /\ x = 0 OBVIOUS
<1>. HIDE DEF xs, r, x
<1>9. Sound(o, Len(heap)) BY <1>4, <1>8 DEF Sound
<1>10. ASSUME NEW L, \A u \in Wrapper : Agrees(wrap[u], L) PROVE Fits(T, o, heap, L)
  <2>1. ASSUME NEW i \in 1..Len(xs) PROVE heap[xs[i]].t # DictType /\ L[xs[i]] = T
    <3>1. t(Ptr(ws[i])) # DictType /\ ws[i] \in Wrapper /\ wrap[ws[i]].class \in Class
          /\ wrap[ws[i]].T = T /\ xs[i] = Ptr(ws[i])
      BY <1>3, <1>7
    <3>2. L[wrap[ws[i]].m_ptr] = T BY <1>10, <3>1 DEF Agrees
    <3>. QED BY <3>1, <3>2 DEF t, Ptr
  <2>2. Len(xs) <= MaxLen BY <1>1, <1>4
  <2>. QED BY <1>8, <2>1, <2>2 DEF Fits
<1>. HIDE DEF o
<1>11. heap' = Append(heap, [t |-> x, e |-> xs]) /\ Sound([t |-> x, e |-> xs], Len(heap))
       /\ \A L : Labels(L, heap) /\ (\A u \in Wrapper : Agrees(wrap[u], L)) =>
                  Fits(T, [t |-> x, e |-> xs], heap, L)
  BY <1>5, <1>9, <1>10 DEF o
<1>. QED BY <1>5, <1>6, <1>8, <1>11, LabelMade

\* A dictionary fits any label: nobody takes it for a value.
LEMMA MakeDictionaryLabels ==
  ASSUME CollInv, LabelInv, NEW w \in Wrapper, NEW ks \in Wrapper, NEW vs \in Wrapper,
         MakeDictionary(w, ks, vs)
  PROVE  LabelInv'
<1>. DEFINE es == <<Ptr(ks), Ptr(vs)>>
            x == DictType
            o == [t |-> x, e |-> es]
            r == [Wrap("Dictionary", 0, Len(heap) + 1) EXCEPT !.m_length = n(Ptr(ks))]
            T == wrap[ks].T
<1>1. wrap[ks].class \in Class /\ wrap[vs].class \in Class BY DEF MakeDictionary, Class
<1>2. Ptr(ks) \in 1..Len(heap) /\ Ptr(vs) \in 1..Len(heap) /\ T \in Types BY <1>1, PointsToObject
<1>3. heap' = Append(heap, o) /\ wrap' = [wrap EXCEPT ![w] = r] BY DEF MakeDictionary, Make, Dict
<1>4. r.class = "Dictionary" BY DEF Wrap
<1>5. r.class \notin Class BY <1>4 DEF Class
<1>6. es \in Seq(1..Len(heap)) /\ Len(es) = 2 BY <1>2
<1>7. x = DictType /\ x \in Int BY DEF DictType
<1>. HIDE DEF r, es, x, T
<1>8. Sound(o, Len(heap)) BY <1>6, <1>7 DEF Sound
<1>9. \A L : Fits(T, o, heap, L) BY <1>2, <1>7, PlainFits
<1>. QED BY <1>2, <1>3, <1>5, <1>7, <1>8, <1>9, LabelMade

\* An object of q's that is no list has its own type for a label.
LEMMA QMakesLabels ==
  ASSUME CollInv, LabelInv, "list" \notin FromQ, QMakes
  PROVE  LabelInv'
<1>1. PICK kind \in FromQ, T \in Types : \E o \in QObject(kind, T) : heap' = Append(heap, o)
  BY DEF QMakes
<1>2. PICK o \in QObject(kind, T) : heap' = Append(heap, o) BY <1>1
<1>3. wrap' = wrap BY DEF QMakes
<1>4. T \in Int /\ -T \in Int /\ T # -T BY TypeIsPositive
<1>5. kind \in {"atom", "vector"} BY CollectionsAssumption
<1>6. \E x \in {T, -T} : \E es : o = [t |-> x, e |-> es] /\ Sound(o, Len(heap))
  <2>1. CASE kind = "atom"
    <3>1. PICK v \in Val[T] : o = [t |-> -T, e |-> <<v>>] BY <2>1 DEF QObject, Atom
    <3>. DEFINE es == <<v>>
    <3>2. es \in Seq(Val[T]) /\ Len(es) = 1
      <4>. DEFINE S == Val[T]
      <4>1. v \in S OBVIOUS
      <4>. HIDE DEF S
      <4>2. es \in Seq(S) /\ Len(es) = 1 BY <4>1
      <4>. QED BY <4>2 DEF S
    <3>3. o = [t |-> -T, e |-> es] BY <3>1
    <3>. HIDE DEF es
    <3>4. Sound(o, Len(heap)) BY <3>2, <3>3 DEF Sound
    <3>. QED BY <3>3, <3>4
  <2>2. CASE kind = "vector"
    <3>1. PICK es \in BoundedSeq(Val[T], MaxLen) : o = [t |-> T, e |-> es]
      BY <2>2 DEF QObject, Vector
    <3>2. es \in Seq(Val[T]) BY BoundedSeqIsSeq
    <3>3. Sound(o, Len(heap)) BY <1>4, <3>1, <3>2 DEF Sound
    <3>. QED BY <3>1, <3>3
  <2>. QED BY <1>5, <2>1, <2>2
<1>7. PICK x \in {T, -T} : \E es : o = [t |-> x, e |-> es] /\ Sound(o, Len(heap)) BY <1>6
<1>8. PICK es : o = [t |-> x, e |-> es] /\ Sound(o, Len(heap)) BY <1>7
<1>9. x \in Int BY <1>4
<1>10. \A L : Fits(T, o, heap, L) BY <1>8, PlainFits
<1>11. PICK L : Labels(L, heap) /\ \A u \in Wrapper : Agrees(wrap[u], L) BY DEF LabelInv
<1>12. HeapOK(heap) /\ Len(heap) \in Nat BY DEF CollInv, HeapOK
<1>13. o \in Object BY <1>8, <1>9, <1>12, SoundIsObject
<1>14. PICK M : Labels(M, Append(heap, o)) /\ \A y \in 1..Len(heap) : M[y] = L[y]
  BY <1>8, <1>10, <1>11, <1>12, <1>13, LabelAppend
<1>15. ASSUME NEW u \in Wrapper PROVE Agrees(wrap'[u], M)
  <2>. SUFFICES ASSUME wrap[u].class \in Class PROVE M[wrap[u].m_ptr] = wrap[u].T
    BY <1>3 DEF Agrees
  <2>1. wrap[u].m_ptr \in 1..Len(heap) BY PointsToObject DEF Ptr
  <2>. QED BY <1>11, <1>14, <2>1 DEF Agrees
<1>16. Labels(M, heap') BY <1>2, <1>14
<1>. QED BY <1>15, <1>16 DEF LabelInv

\* What is_with_info accepts has the wrapper's type for a label.
LEMMA AcceptedLabel ==
  ASSUME CollInv, NEW L, Labels(L, heap), NEW x \in Obj, NEW T \in Types, NEW class \in Class,
         "returns" \in is_with_info(x, class, T)
  PROVE  L[x] = T
<1>1. HeapOK(heap) /\ Obj = 1..Len(heap) /\ Len(heap) \in Nat BY DEF CollInv, HeapOK, Obj
<1>. DEFINE U == L[x]
<1>2. U \in Types /\ Fits(U, heap[x], heap, L) BY <1>1 DEF Labels
<1>3. \A S \in Types : S \in Int /\ S > 0 /\ S # DictType /\ -S # DictType BY TypeIsPositive
<1>4. CASE t(x) # 0
  <2>1. t(x) = T \/ t(x) = -T BY <1>1, <1>4, Accepted DEF Class
  <2>2. t(x) = U \/ t(x) = -U BY <1>2, <1>3, <1>4, <2>1 DEF Fits, t
  <2>. HIDE DEF U
  <2>3. T = U BY <1>2, <1>3, <2>1, <2>2
  <2>. QED BY <2>3 DEF U
<1>5. CASE t(x) = 0
  <2>1. PICK r \in inner_type(x) : r.is = "type" /\ Matches(x, class, T, r.t)
    BY DEF is_with_info
  <2>2. PICK a \in inner_type_impl(x, 0) :
          r = IF a.is = "type" /\ a.t \notin KxTypes THEN No ELSE a
    BY DEF inner_type
  <2>3. r = a /\ a.is = "type" /\ a.t # 0
    <3>1. No.is # "type" BY DEF No
    <3>2. 0 \notin KxTypes BY DEF KxTypes
    <3>. QED BY <2>1, <2>2, <3>1, <3>2
  <2>4. a.t = T BY <2>1, <2>3 DEF Matches
  <2>5. ShortLists BY <1>1 DEF ShortLists, Labels, Fits, t, n, e
  <2>6. ASSUME NEW y \in Obj, L[y] = U PROVE t(y) \in {U, -U, 0, DictType}
    BY <1>1, <2>6 DEF Labels, Fits, t
  <2>7. ASSUME NEW y \in Obj, L[y] = U, t(y) = 0, NEW i \in 1..n(y)
        PROVE  t(e(y)[i]) # DictType /\ L[e(y)[i]] = U
    BY <1>1, <2>7 DEF Labels, Fits, t, n, e
  <2>. HIDE DEF U
  <2>8. a.t \in {0, U}
    <3>1. L[x] = U BY DEF U
    <3>2. \A y \in Obj : L[y] = U => t(y) \in {U, -U, 0, DictType} BY <2>6
    <3>3. \A y \in Obj : L[y] = U /\ t(y) = 0 =>
            \A i \in 1..n(y) : t(e(y)[i]) # DictType /\ L[e(y)[i]] = U
      BY <2>7
    <3>. QED BY <1>2, <1>5, <2>2, <2>3, <2>5, <3>1, <3>2, <3>3, WalkFinds
  <2>. QED BY <2>3, <2>4, <2>8 DEF U
<1>. QED BY <1>4, <1>5

\* Steps that leave the heap alone.
LEMMA SameHeapLabels ==
  ASSUME CollInv, NEW L, Labels(L, heap), \A u \in Wrapper : Agrees(wrap[u], L),
         NEW w \in Wrapper, NEW r, Agrees(r, L), heap' = heap,
         wrap' = wrap \/ wrap' = [wrap EXCEPT ![w] = r]
  PROVE  LabelInv'
<1>1. Labels(L, heap') OBVIOUS
<1>. QED BY <1>1, AgreesOn

\* A wrapper of an object that is_with_info has looked at.
LEMMA FromKLabels ==
  ASSUME CollInv, LabelInv, NEW w \in Wrapper, NEW class \in Class, NEW T \in Types, NEW x \in Obj,
         FromK(w, class, T, x)
  PROVE  LabelInv'
<1>1. PICK L : Labels(L, heap) /\ \A u \in Wrapper : Agrees(wrap[u], L) BY DEF LabelInv
<1>2. heap' = heap BY DEF FromK, Crashes
<1>3. CASE wrap' = wrap BY <1>1, <1>2, <1>3 DEF LabelInv
<1>4. CASE /\ "returns" \in is_with_info(x, class, T)
           /\ wrap' = [wrap EXCEPT ![w] = Wrap(class, T, x)]
  <2>. DEFINE r == Wrap(class, T, x)
  <2>1. L[x] = T BY <1>1, <1>4, AcceptedLabel
  <2>2. Agrees(r, L) BY <2>1, WrapIs DEF Agrees
  <2>3. wrap' = [wrap EXCEPT ![w] = r] BY <1>4
  <2>. HIDE DEF r
  <2>. QED BY <1>1, <1>2, <2>2, <2>3, SameHeapLabels
<1>. QED BY <1>3, <1>4 DEF FromK, Crashes

\* A copied wrapper agrees as the first does; a free one has no object.
LEMMA CopyDropLabels ==
  ASSUME CollInv, LabelInv, NEW w \in Wrapper, Drop(w) \/ \E v \in Wrapper : Copy(w, v)
  PROVE  LabelInv'
<1>1. PICK L : Labels(L, heap) /\ \A u \in Wrapper : Agrees(wrap[u], L) BY DEF LabelInv
<1>2. CASE Drop(w)
  <2>1. wrap' = [wrap EXCEPT ![w] = NoWrap] /\ heap' = heap BY <1>2 DEF Drop
  <2>2. Agrees(NoWrap, L) BY DEF Agrees, NoWrap, Class
  <2>. QED BY <1>1, <2>1, <2>2, SameHeapLabels
<1>3. CASE \E v \in Wrapper : Copy(w, v)
  <2>1. PICK v \in Wrapper : wrap' = [wrap EXCEPT ![w] = wrap[v]] /\ heap' = heap
    BY <1>3 DEF Copy
  <2>. QED BY <1>1, <2>1, SameHeapLabels
<1>. QED BY <1>2, <1>3

\* Values written to an atom or a vector.
LEMMA StoreLabels ==
  ASSUME CollInv, LabelInv, NEW w \in Wrapper, wrap[w].class \in {"Atom", "Vector"},
         NEW i \in 1..Len(e(Ptr(w))), NEW v \in Val[wrap[w].T], Store(w, i, v)
  PROVE  LabelInv'
<1>1. PICK L : Labels(L, heap) /\ \A u \in Wrapper : Agrees(wrap[u], L) BY DEF LabelInv
<1>. DEFINE x == Ptr(w)
            T == wrap[w].T
            es == [e(x) EXCEPT ![i] = v]
            S == Val[T]
<1>2. wrap[w].class \in Class BY DEF Class
<1>3. /\ x \in 1..Len(heap) /\ T \in Types
      /\ wrap[w].class = "Atom" => t(x) = -T
      /\ wrap[w].class = "Vector" => t(x) = T
  BY <1>2, PointsToObject
<1>4. L[x] = T BY <1>1, <1>2 DEF Agrees, Ptr
<1>5. e(x) \in Seq(S) /\ (wrap[w].class = "Atom" => Len(e(x)) = 1) BY <1>2, ContentsAre
<1>6. v \in S OBVIOUS
<1>7. heap' = [heap EXCEPT ![x].e = es] /\ wrap' = wrap BY DEF Store, e
<1>. HIDE DEF x, S, T
<1>8. es \in Seq(S) /\ Len(es) = Len(e(x)) /\ Len(e(x)) \in Nat
  <2>1. i \in 1..Len(e(x)) BY DEF x
  <2>. QED BY <1>5, <1>6, <2>1, ExceptSeq
<1>. HIDE DEF es
<1>9. t(x) \in {T, -T} /\ (t(x) = -T => Len(es) = 1) /\ t(x) # DictType
  <2>1. T # -T /\ T # DictType /\ -T # DictType BY <1>3, TypeIsPositive
  <2>. QED BY <1>3, <1>5, <1>8, <2>1
<1>10. Sound([t |-> heap[x].t, e |-> es], Len(heap)) BY <1>3, <1>8, <1>9 DEF Sound, S, t
<1>11. Fits(L[x], [t |-> heap[x].t, e |-> es], heap, L) BY <1>3, <1>4, <1>9, PlainFits DEF t
<1>12. HeapOK(heap) /\ Len(heap[x].e) <= Len(es) /\ heap[x].t # DictType
  BY <1>8, <1>9 DEF CollInv, t, e
<1>13. Labels(L, heap') BY <1>1, <1>3, <1>7, <1>10, <1>11, <1>12, LabelReplace
<1>. QED BY <1>1, <1>7, <1>13 DEF LabelInv

\* Assignment to an atom and to an element of a vector.
LEMMA AssignLabels ==
  ASSUME CollInv, LabelInv, NEW w \in Wrapper, NEW v,
         AssignAtom(w, v) \/ \E i : AssignElement(w, i, v)
  PROVE  LabelInv'
<1>1. CASE AssignAtom(w, v)
  <2>1. wrap[w].class = "Atom" /\ v \in Val[wrap[w].T] /\ Store(w, 1, v) BY <1>1 DEF AssignAtom
  <2>2. Len(e(Ptr(w))) = 1 BY <2>1, ContentsAre DEF Class
  <2>3. 1 \in 1..Len(e(Ptr(w))) BY <2>2
  <2>. QED BY <2>1, <2>3, StoreLabels
<1>2. CASE \E i : AssignElement(w, i, v)
  <2>1. PICK i : AssignElement(w, i, v) BY <1>2
  <2>2. wrap[w].class = "Vector" /\ v \in Val[wrap[w].T] /\ Store(w, i, v) /\ i \in 1..size(w)
    BY <2>1 DEF AssignElement
  <2>3. size(w) = Len(e(Ptr(w))) BY <2>2 DEF size, n
  <2>. QED BY <2>2, <2>3, StoreLabels
<1>. QED BY <1>1, <1>2

\* A longer list or vector has the label of the one it was.
LEMMA ExtendLabels ==
  ASSUME CollInv, LabelInv, NEW w \in Wrapper, wrap[w].class \in {"Vector", "NestedVector"}, NEW es,
         Sound([t |-> t(Ptr(w)), e |-> es], Len(heap)), Len(e(Ptr(w))) <= Len(es), Extend(w, es),
         \A L : Labels(L, heap) /\ (\A u \in Wrapper : Agrees(wrap[u], L)) =>
                  Fits(wrap[w].T, [t |-> t(Ptr(w)), e |-> es], heap, L)
  PROVE  LabelInv'
<1>. DEFINE x == Ptr(w)
            T == wrap[w].T
<1>1. wrap[w].class \in Class BY DEF Class
<1>2. x \in 1..Len(heap) /\ t(x) # DictType /\ T \in Types /\ wrap[w] \in Wrapped
  BY <1>1, PointsToObject
<1>3. HeapOK(heap) /\ heap[x].t \in Int /\ heap[x] = [t |-> heap[x].t, e |-> heap[x].e]
  BY <1>2, ObjectIs DEF CollInv
<1>4. Sound([t |-> heap[x].t, e |-> es], Len(heap)) /\ Len(heap[x].e) <= Len(es)
      /\ heap[x].t # DictType
  BY <1>2 DEF t, e
<1>5. CASE heap' = [heap EXCEPT ![x].e = es] /\ wrap' = wrap
  <2>1. PICK L : Labels(L, heap) /\ \A u \in Wrapper : Agrees(wrap[u], L) BY DEF LabelInv
  <2>2. L[x] = T BY <1>1, <2>1 DEF Agrees, Ptr
  <2>3. Fits(L[x], [t |-> heap[x].t, e |-> es], heap, L) BY <2>1, <2>2 DEF t
  <2>. HIDE DEF x
  <2>4. Labels(L, heap') BY <1>2, <1>3, <1>4, <1>5, <2>1, <2>3, LabelReplace
  <2>. QED BY <1>5, <2>1, <2>4 DEF LabelInv
<1>6. CASE /\ heap' = Append(heap, [heap[x] EXCEPT !.e = es])
           /\ wrap' = [wrap EXCEPT ![w].m_ptr = Len(heap) + 1]
  <2>. DEFINE a == heap[x].t
              r == [wrap[w] EXCEPT !.m_ptr = Len(heap) + 1]
  <2>1. [heap[x] EXCEPT !.e = es] = [t |-> a, e |-> es] BY <1>3
  <2>2. heap' = Append(heap, [t |-> a, e |-> es]) BY <1>6, <2>1
  <2>3. r.m_ptr = Len(heap) + 1 /\ r.T = T
    <3>. DEFINE q == wrap[w]
                k == Len(heap) + 1
    <3>1. q \in Wrapped BY <1>2
    <3>. HIDE DEF q, k
    <3>2. [q EXCEPT !.m_ptr = k].T = q.T BY <3>1 DEF Wrapped
    <3>3. [q EXCEPT !.m_ptr = k].m_ptr = k BY <3>1 DEF Wrapped
    <3>. QED BY <3>2, <3>3 DEF q, k
  <2>4. wrap' = [wrap EXCEPT ![w] = r] BY <1>6
  <2>5. /\ Sound([t |-> a, e |-> es], Len(heap)) /\ a \in Int
        /\ \A L : Labels(L, heap) /\ (\A u \in Wrapper : Agrees(wrap[u], L)) =>
                  Fits(T, [t |-> a, e |-> es], heap, L)
    BY <1>3, <1>4 DEF t
  <2>. HIDE DEF a, r, T, x
  <2>. QED BY <1>2, <2>2, <2>3, <2>4, <2>5, LabelMade
<1>. QED BY <1>5, <1>6 DEF Extend

\* The values of one vector behind those of another.
LEMMA AppendVectorLabels ==
  ASSUME CollInv, LabelInv, NEW w \in Wrapper, NEW v \in Wrapper, AppendVector(w, v)
  PROVE  LabelInv'
<1>. DEFINE T == wrap[w].T
            S == Val[T]
            es == e(Ptr(w)) \o e(Ptr(v))
<1>1. /\ wrap[w].class = "Vector" /\ wrap[v].class = "Vector" /\ wrap[v].T = T
      /\ Extend(w, es)
  BY DEF AppendVector
<1>2. T \in Types /\ t(Ptr(w)) = T BY <1>1, PointsToObject DEF Class
<1>3. e(Ptr(w)) \in Seq(S) /\ e(Ptr(v)) \in Seq(S) BY <1>1, ContentsAre DEF Class
<1>. HIDE DEF S
<1>4. es \in Seq(S) /\ Len(e(Ptr(w))) <= Len(es)
  <2>1. Len(e(Ptr(w))) \in Nat /\ Len(e(Ptr(v))) \in Nat BY <1>3
  <2>2. es \in Seq(S) /\ Len(es) = Len(e(Ptr(w))) + Len(e(Ptr(v))) BY <1>3, ConcatProperties
  <2>. QED BY <2>1, <2>2
<1>. HIDE DEF es
<1>5. Sound([t |-> t(Ptr(w)), e |-> es], Len(heap))
  <2>1. T # -T BY <1>2, TypeIsPositive
  <2>. HIDE DEF T
  <2>. QED BY <1>2, <1>4, <2>1 DEF Sound, S
<1>6. \A L : Fits(T, [t |-> t(Ptr(w)), e |-> es], heap, L) BY <1>2, PlainFits
<1>. QED BY <1>1, <1>4, <1>5, <1>6, ExtendLabels

\* An object of the list's own label at its end.
LEMMA AppendNestedLabels ==
  ASSUME CollInv, LabelInv, NEW w \in Wrapper, NEW v \in Wrapper, AppendNested(w, v)
  PROVE  LabelInv'
<1>1. CASE Crashes
  <2>1. heap' = heap /\ wrap' = wrap BY <1>1 DEF Crashes
  <2>. QED BY <2>1 DEF LabelInv
<1>2. CASE Extend(w, Append(e(Ptr(w)), Ptr(v)))
  <2>. DEFINE es == Append(e(Ptr(w)), Ptr(v))
              x == Ptr(w)
              y == Ptr(v)
              T == wrap[w].T
  <2>1. wrap[w].class = "NestedVector" /\ wrap[v].class \in Class /\ wrap[v].T = T
    BY DEF AppendNested
  <2>2. /\ t(x) = 0 /\ x \in 1..Len(heap) /\ T \in Types
        /\ y \in 1..Len(heap) /\ t(y) # DictType /\ e(x) \in Seq(1..Len(heap))
    BY <2>1, PointsToObject, ContentsAre DEF Class
  <2>. HIDE DEF x, y
  <2>3. /\ es \in Seq(1..Len(heap)) /\ Len(es) = Len(e(x)) + 1 /\ Len(e(x)) \in Nat
        /\ es[Len(e(x)) + 1] = y /\ \A i \in 1..Len(e(x)) : es[i] = e(x)[i]
    <3>1. es = Append(e(x), y) BY DEF x, y
    <3>. QED BY <2>2, <3>1, AppendProperties
  <2>4. Extend(w, es) BY <1>2
  <2>. HIDE DEF es
  <2>5. Len(e(x)) <= Len(es) /\ Len(es) <= MaxLen BY <2>3, <2>4 DEF Extend
  <2>6. Sound([t |-> t(x), e |-> es], Len(heap)) BY <2>2, <2>3 DEF Sound
  <2>7. ASSUME NEW L, Labels(L, heap), \A u \in Wrapper : Agrees(wrap[u], L)
        PROVE  Fits(T, [t |-> t(x), e |-> es], heap, L)
    <3>1. L[x] = T /\ L[y] = T BY <2>1, <2>7 DEF Agrees, Ptr, x, y, Class
    <3>2. Fits(T, heap[x], heap, L) /\ heap[x].t = 0 /\ heap[x].e = e(x)
      BY <2>2, <2>7, <3>1 DEF Labels, t, e
    <3>3. ASSUME NEW i \in 1..Len(es) PROVE heap[es[i]].t # DictType /\ L[es[i]] = T
      <4>1. CASE i = Len(e(x)) + 1
        <5>1. es[i] = y BY <2>3, <4>1
        <5>. QED BY <2>2, <3>1, <5>1 DEF t
      <4>2. CASE i # Len(e(x)) + 1
        <5>1. i \in 1..Len(e(x)) BY <2>3, <4>2
        <5>2. es[i] = e(x)[i] BY <2>3, <5>1
        <5>3. heap[e(x)[i]].t # DictType /\ L[e(x)[i]] = T BY <3>2, <5>1 DEF Fits
        <5>. QED BY <5>2, <5>3
      <4>. QED BY <4>1, <4>2
    <3>. QED BY <2>2, <2>5, <3>3 DEF Fits
  <2>. QED BY <2>1, <2>4, <2>5, <2>6, <2>7, ExtendLabels DEF x
<1>. QED BY <1>1, <1>2 DEF AppendNested

\* No objects, no labels.
LEMMA LabelInit == Init => LabelInv
<1>. SUFFICES ASSUME Init PROVE LabelInv
  OBVIOUS
<1>. DEFINE L == [x \in 1..Len(heap) |-> CHOOSE T \in Types : TRUE]
<1>1. heap = <<>> /\ Len(heap) = 0 BY DEF Init
<1>2. 1..Len(heap) = {} BY <1>1
<1>3. L \in [1..Len(heap) -> Types] BY <1>2
<1>. HIDE DEF L
<1>4. Labels(L, heap) BY <1>2, <1>3 DEF Labels
<1>5. \A w \in Wrapper : wrap[w].class = "none" BY DEF Init, NoWrap
<1>6. \A w \in Wrapper : Agrees(wrap[w], L) BY <1>5 DEF Agrees, Class
<1>. QED BY <1>4, <1>6 DEF LabelInv

\* Every operation keeps some labelling.
LEMMA LabelStep ==
  ASSUME "list" \notin FromQ, CollInv, LabelInv, [Next]_colvars
  PROVE  LabelInv'
<1>1. CASE QMakes BY <1>1, QMakesLabels
<1>2. ASSUME NEW w \in Wrapper, NEW T \in Types,
             \/ \E x \in Obj : AtomFromK(w, T, x) \/ VectorFromK(w, T, x) \/ NestedFromK(w, T, x)
             \/ \E v \in Val[T] : MakeAtom(w, T, v)
             \/ \E vs \in BoundedSeq(Val[T], MaxLen) : MakeVector(w, T, vs)
             \/ \E ws \in BoundedSeq(Wrapper, MaxLen) : MakeNested(w, T, ws)
             \/ \E v \in Val[T] : AssignAtom(w, v) \/ \E i \in 1..MaxLen : AssignElement(w, i, v)
      PROVE  LabelInv'
  <2>1. CASE \E x \in Obj : AtomFromK(w, T, x) \/ VectorFromK(w, T, x) \/ NestedFromK(w, T, x)
    <3>1. PICK x \in Obj, class \in Class : FromK(w, class, T, x)
      BY <2>1 DEF AtomFromK, VectorFromK, NestedFromK, Class
    <3>. QED BY <3>1, FromKLabels
  <2>2. CASE \E v \in Val[T] : MakeAtom(w, T, v) BY <2>2, MakeAtomLabels
  <2>3. CASE \E vs \in BoundedSeq(Val[T], MaxLen) : MakeVector(w, T, vs) BY <2>3, MakeVectorLabels
  <2>4. CASE \E ws \in BoundedSeq(Wrapper, MaxLen) : MakeNested(w, T, ws) BY <2>4, MakeNestedLabels
  <2>5. CASE \E v \in Val[T] : AssignAtom(w, v) \/ \E i \in 1..MaxLen : AssignElement(w, i, v)
    BY <2>5, AssignLabels
  <2>. QED BY <1>2, <2>1, <2>2, <2>3, <2>4, <2>5
<1>3. ASSUME NEW w \in Wrapper, NEW v \in Wrapper,
             \/ \E u \in Wrapper : MakeDictionary(u, w, v)
             \/ Copy(w, v) \/ AppendVector(w, v) \/ AppendNested(w, v)
      PROVE  LabelInv'
  <2>1. CASE \E u \in Wrapper : MakeDictionary(u, w, v) BY <2>1, MakeDictionaryLabels
  <2>2. CASE Copy(w, v) BY <2>2, CopyDropLabels
  <2>3. CASE AppendVector(w, v) BY <2>3, AppendVectorLabels
  <2>4. CASE AppendNested(w, v) BY <2>4, AppendNestedLabels
  <2>. QED BY <1>3, <2>1, <2>2, <2>3, <2>4
<1>4. ASSUME NEW w \in Wrapper, Drop(w) PROVE LabelInv' BY <1>4, CopyDropLabels
<1>5. CASE Use
  <2>1. CASE \E w \in Wrapper, T \in Types :
               \/ \E x \in Obj : AtomFromK(w, T, x) \/ VectorFromK(w, T, x) \/ NestedFromK(w, T, x)
               \/ \E v \in Val[T] : MakeAtom(w, T, v)
               \/ \E vs \in BoundedSeq(Val[T], MaxLen) : MakeVector(w, T, vs)
               \/ \E ws \in BoundedSeq(Wrapper, MaxLen) : MakeNested(w, T, ws)
               \/ \E v \in Val[T] : AssignAtom(w, v) \/ \E i \in 1..MaxLen : AssignElement(w, i, v)
    BY <1>2, <2>1
  <2>2. CASE \E w, v \in Wrapper : \/ \E u \in Wrapper : MakeDictionary(u, w, v)
                                   \/ Copy(w, v) \/ AppendVector(w, v) \/ AppendNested(w, v)
    BY <1>3, <2>2
  <2>3. CASE \E w \in Wrapper : Drop(w) BY <1>4, <2>3
  <2>. QED BY <1>5, <2>1, <2>2, <2>3 DEF Use
<1>6. CASE UNCHANGED colvars
  <2>1. heap' = heap /\ wrap' = wrap BY <1>6 DEF colvars
  <2>. QED BY <2>1 DEF LabelInv
<1>. QED BY <1>1, <1>5, <1>6 DEF Next

\* What is reached from a list through lists has the list's label.
LEMMA LabelsHomogeneous == CollInv /\ LabelInv => Homogeneous
<1>. SUFFICES ASSUME CollInv, LabelInv, NEW w \in Wrapper, wrap[w].class = "NestedVector"
              PROVE  OnlyHolds(Ptr(w), wrap[w].T)
  BY DEF Homogeneous
<1>1. PICK L : Labels(L, heap) /\ \A u \in Wrapper : Agrees(wrap[u], L) BY DEF LabelInv
<1>. DEFINE T == wrap[w].T
            S == {y \in Obj : L[y] = T /\ t(y) # DictType}
<1>2. HeapOK(heap) /\ Obj = 1..Len(heap) /\ Len(heap) \in Nat BY DEF CollInv, HeapOK, Obj
<1>3. Ptr(w) \in S
  <2>1. Ptr(w) \in 1..Len(heap) /\ t(Ptr(w)) # DictType BY PointsToObject DEF Class
  <2>2. L[Ptr(w)] = T BY <1>1 DEF Agrees, Class, Ptr
  <2>. QED BY <1>2, <2>1, <2>2
<1>4. ASSUME NEW y \in S PROVE t(y) \in {T, -T, 0} /\ (t(y) = 0 => ToSet(e(y)) \subseteq S)
  <2>1. /\ y \in 1..Len(heap) /\ L[y] = T /\ t(y) # DictType /\ Fits(T, heap[y], heap, L)
        /\ Sound(heap[y], Len(heap))
    BY <1>1, <1>2, ObjectIs DEF Labels
  <2>2. t(y) \in {T, -T, 0} BY <2>1 DEF Fits, t
  <2>3. ASSUME t(y) = 0, NEW z \in ToSet(e(y)) PROVE z \in S
    <3>1. e(y) \in Seq(1..Len(heap)) /\ \A i \in 1..Len(e(y)) : e(y)[i] \in 1..Len(heap)
      BY <1>2, <2>1, <2>3, ListElements DEF t, e
    <3>2. PICK i \in 1..Len(e(y)) : z = e(y)[i] BY <3>1 DEF ToSet
    <3>3. t(z) # DictType /\ L[z] = T BY <2>1, <2>3, <3>2 DEF Fits, t, e
    <3>. QED BY <1>2, <3>1, <3>2, <3>3
  <2>. QED BY <2>2, <2>3
<1>. HIDE DEF S
<1>5. S \in SUBSET Obj BY DEF S
<1>6. \A y \in S : t(y) \in {T, -T, 0} /\ (t(y) = 0 => ToSet(e(y)) \subseteq S) BY <1>4
<1>. QED BY <1>3, <1>5, <1>6 DEF OnlyHolds

\* A NestedVector<T> holds values of type T only, at any depth, while others
\* that share its lists append to them (nested_vector.h:18-20): as long as q
\* hands the application no list of its own, which inner_type may pass that
\* holds other things (TypeCheck).
THEOREM ListsHomogeneous == ASSUME "list" \notin FromQ PROVE Spec => []Homogeneous
<1>1. CollInv /\ LabelInv /\ CollInv' /\ [Next]_colvars => LabelInv' BY LabelStep
<1>2. Spec => []LabelInv BY <1>1, LabelInit, CollInductive, PTL DEF Spec
<1>. QED BY <1>2, LabelsHomogeneous, CollInductive, PTL
=============================================================================
