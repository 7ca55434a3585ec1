---------------------------- MODULE NumberFacts ----------------------------
(***************************************************************************)
(* Well-ordering of the natural numbers, as a fact about sets: what proofs *)
(* by least counterexample rest on, and, from it, induction and recursion, *)
(* also to places of lower rank;                                           *)
(* and the arithmetic of the bits that a header byte is filled with, and   *)
(* of the digits of a number.                                              *)
(***************************************************************************)
EXTENDS Integers, FiniteSetTheorems, WellFoundedInduction, TLAPS

\* Of some numbers one is the least: the initial segments are finite sets,
\* and finite sets are well-founded.
LEMMA LeastNumber ==
  ASSUME NEW T \in SUBSET Nat, T # {}
  PROVE  \E m \in T : \A k \in T : m <= k
<1>. DEFINE Upto == {0..n : n \in T}
<1>1. \A n \in T : 0..n \in FiniteSubsetsOf(Nat)
  <2>1. \A n \in T : IsFiniteSet(0..n) BY FS_Interval
  <2>2. \A n \in T : 0..n \subseteq Nat OBVIOUS
  <2>. QED BY <2>1, <2>2 DEF FiniteSubsetsOf
<1>2. Upto \subseteq FiniteSubsetsOf(Nat) /\ Upto # {} BY <1>1
<1>3. PICK X \in Upto : \A Y \in Upto : <<Y, X>> \notin StrictSubsetOrdering(Nat)
  <2>. HIDE DEF Upto
  <2>. QED BY <1>2, FS_StrictSubsetOrderingWellFounded, WFMin, Zenon
<1>4. PICK m \in T : X = 0..m BY <1>3
<1>5. ASSUME NEW k \in T, k < m PROVE FALSE
  <2>1. 0..k \in Upto /\ 0..k \subseteq 0..m /\ 0..k # 0..m
    <3>1. m \in 0..m /\ m \notin 0..k BY <1>5
    <3>. QED BY <1>5, <3>1
  <2>2. 0..k \in SUBSET Nat /\ 0..m \in SUBSET Nat OBVIOUS
  <2>. QED BY <1>3, <1>4, <2>1, <2>2 DEF StrictSubsetOrdering
<1>. QED BY <1>5

\* Induction: the set stands for the property, which a lemma cannot have as a
\* parameter here.
LEMMA Induction ==
  ASSUME NEW P, 0 \in P, \A k \in Nat : k \in P => k + 1 \in P
  PROVE  Nat \subseteq P
<1>. SUFFICES ASSUME Nat \ P # {} PROVE FALSE
  OBVIOUS
<1>. DEFINE T == Nat \ P
<1>1. T \in SUBSET Nat /\ T # {} OBVIOUS
<1>2. PICK c \in T : \A k \in T : c <= k
  <2>. HIDE DEF T
  <2>. QED BY <1>1, LeastNumber
<1>3. c \in Nat /\ c # 0 /\ c \notin P BY <1>2
<1>4. c - 1 \in Nat /\ ~(c <= c - 1) /\ (c - 1) + 1 = c BY <1>3
<1>5. c - 1 \in P
  <2>1. c - 1 \notin T BY <1>2, <1>4, Zenon
  <2>. QED BY <1>4, <2>1
<1>. QED BY <1>3, <1>4, <1>5

\* A function on the natural numbers that is defined by recursion.
Recursive(f, b, g) == f = [k \in Nat |-> IF k = 0 THEN b ELSE g[<<k, f[k - 1]>>]]

\* ... exists, if its step stays in a set.
LEMMA Recursion ==
  ASSUME NEW S, NEW b \in S, NEW g \in [Nat \X S -> S]
  PROVE  \E f \in [Nat -> S] : Recursive(f, b, g)
<1>. DEFINE R(f, k) == f[k] = IF k = 0 THEN b ELSE g[<<k, f[k - 1]>>]
            Upto(f, c) == f \in [0..c -> S] /\ \A k \in 0..c : R(f, k)
            P == {c \in Nat : \E f : Upto(f, c)}
<1>1. Nat \subseteq P
  <2>1. 0 \in P
    <3>. DEFINE f == [k \in {0} |-> b]
    <3>1. Upto(f, 0) OBVIOUS
    <3>. QED BY <3>1
  <2>2. ASSUME NEW c \in Nat, c \in P PROVE c + 1 \in P
    <3>1. PICK f : Upto(f, c) BY <2>2
    <3>. DEFINE x == g[<<c + 1, f[c]>>]
                h == [k \in 0..(c + 1) |-> IF k = c + 1 THEN x ELSE f[k]]
    <3>2. x \in S BY <3>1
    <3>. HIDE DEF x
    <3>3. h \in [0..(c + 1) -> S]
      <4>1. \A k \in 0..(c + 1) : k # c + 1 => k \in 0..c OBVIOUS
      <4>. QED BY <3>1, <3>2, <4>1
    <3>4. ASSUME NEW k \in 0..(c + 1) PROVE R(h, k)
      <4>1. k # 0 => k - 1 \in 0..(c + 1) /\ k - 1 # c + 1 OBVIOUS
      <4>2. k # 0 => h[k - 1] = f[k - 1] BY <4>1
      <4>3. CASE k = c + 1
        <5>1. h[k] = x /\ k # 0 /\ k - 1 = c BY <4>3
        <5>. HIDE DEF h
        <5>. QED BY <4>2, <4>3, <5>1 DEF x
      <4>4. CASE k # c + 1
        <5>1. k \in 0..c /\ h[k] = f[k] BY <4>4
        <5>2. R(f, k) BY <3>1, <5>1
        <5>. HIDE DEF h
        <5>. QED BY <4>2, <5>1, <5>2
      <4>. QED BY <4>3, <4>4
    <3>. HIDE DEF h
    <3>5. Upto(h, c + 1) BY <3>3, <3>4
    <3>. QED BY <3>5
  <2>. HIDE DEF P
  <2>. QED BY <2>1, <2>2, Induction
<1>2. ASSUME NEW m \in Nat, NEW n \in Nat, NEW f, Upto(f, m), NEW h, Upto(h, n)
      PROVE  \A k \in Nat : k <= m /\ k <= n => f[k] = h[k]
  <2>. DEFINE Q == {k \in Nat : k <= m /\ k <= n => f[k] = h[k]}
  <2>1. 0 \in Q
    <3>1. 0 \in 0..m /\ 0 \in 0..n OBVIOUS
    <3>2. R(f, 0) /\ R(h, 0) BY <1>2, <3>1
    <3>. QED BY <3>2
  <2>2. ASSUME NEW k \in Nat, k \in Q PROVE k + 1 \in Q
    <3>. SUFFICES ASSUME k + 1 <= m, k + 1 <= n PROVE f[k + 1] = h[k + 1]
      OBVIOUS
    <3>1. k + 1 \in 0..m /\ k + 1 \in 0..n /\ k + 1 # 0 /\ (k + 1) - 1 = k OBVIOUS
    <3>2. R(f, k + 1) /\ R(h, k + 1) BY <1>2, <3>1
    <3>3. f[k] = h[k] BY <2>2
    <3>. QED BY <3>1, <3>2, <3>3
  <2>3. Nat \subseteq Q
    <3>. HIDE DEF Q
    <3>. QED BY <2>1, <2>2, Induction
  <2>. QED BY <2>3
<1>. DEFINE G(k) == CHOOSE f : Upto(f, k)
            F == [k \in Nat |-> G(k)[k]]
<1>3. ASSUME NEW k \in Nat PROVE Upto(G(k), k)
  <2>1. \E f : Upto(f, k) BY <1>1
  <2>. HIDE DEF Upto
  <2>. QED BY <2>1
<1>. HIDE DEF G
<1>4. F \in [Nat -> S]
  <2>1. \A k \in Nat : k \in 0..k OBVIOUS
  <2>. QED BY <1>3, <2>1
<1>5. ASSUME NEW k \in Nat PROVE R(F, k)
  <2>1. F[k] = G(k)[k] /\ k \in 0..k OBVIOUS
  <2>2. R(G(k), k) BY <1>3, <2>1
  <2>3. ASSUME k # 0 PROVE G(k)[k - 1] = F[k - 1]
    <3>1. k - 1 \in Nat /\ k - 1 <= k BY <2>3
    <3>2. Upto(G(k), k) /\ Upto(G(k - 1), k - 1) BY <1>3, <3>1
    <3>3. G(k)[k - 1] = G(k - 1)[k - 1]
      <4>. HIDE DEF Upto
      <4>. QED BY <1>2, <3>1, <3>2
    <3>. QED BY <3>1, <3>3
  <2>. HIDE DEF F
  <2>. QED BY <2>1, <2>2, <2>3
<1>. HIDE DEF F
<1>6. [k \in Nat |-> F[k]] = [k \in Nat |-> IF k = 0 THEN b ELSE g[<<k, F[k - 1]>>]] BY <1>5
<1>7. F = [k \in Nat |-> F[k]] BY <1>4
<1>8. Recursive(F, b, g) BY <1>6, <1>7 DEF Recursive
<1>. QED BY <1>4, <1>8

\* A recursion to places of lower rank: the value of Step[f] at c depends on
\* what f is below c.
Descends(Step, D, S, rank) ==
  /\ S # {} /\ Step \in [[D -> S] -> [D -> S]] /\ rank \in [D -> Nat]
  /\ \A f, g \in [D -> S], c \in D :
       (\A d \in D : rank[d] < rank[c] => f[d] = g[d]) => Step[f][c] = Step[g][c]

\* ... defines a function.
LEMMA RankedRecursion ==
  ASSUME NEW D, NEW S, NEW Step, NEW rank, Descends(Step, D, S, rank)
  PROVE  \E f \in [D -> S] : f = Step[f]
<1>0. S # {} /\ Step \in [[D -> S] -> [D -> S]] /\ rank \in [D -> Nat] BY DEF Descends
<1>. DEFINE F == [D -> S]
            next == [z \in Nat \X F |-> Step[z[2]]]
<1>1. PICK b \in F : TRUE
  <2>1. PICK s \in S : TRUE BY <1>0
  <2>2. [c \in D |-> s] \in F OBVIOUS
  <2>. QED BY <2>2
<1>2. Step \in [F -> F] BY <1>0
<1>3. \A f, g \in F, c \in D :
        (\A d \in D : rank[d] < rank[c] => f[d] = g[d]) => Step[f][c] = Step[g][c]
  BY DEF Descends
<1>4. \A f \in F : f \in [D -> S] OBVIOUS
<1>5. ASSUME NEW f, f \in [D -> S] PROVE f \in F BY <1>5
<1>. HIDE DEF F
<1>6. next \in [Nat \X F -> F] BY <1>2
<1>7. PICK h \in [Nat -> F] : Recursive(h, b, next)
  <2>. HIDE DEF next
  <2>. QED BY <1>1, <1>6, Recursion
<1>8. ASSUME NEW k \in Nat PROVE h[k + 1] = Step[h[k]] /\ h[k] \in F
  <2>1. \A j \in Nat : h[j] = IF j = 0 THEN b ELSE next[<<j, h[j - 1]>>] BY <1>7 DEF Recursive
  <2>2. k + 1 \in Nat /\ k + 1 # 0 /\ (k + 1) - 1 = k OBVIOUS
  <2>3. h[k] \in F BY <1>7
  <2>4. h[k + 1] = next[<<k + 1, h[k]>>]
    <3>. HIDE DEF next
    <3>. QED BY <2>1, <2>2
  <2>. QED BY <2>2, <2>3, <2>4
<1>. DEFINE P == {m \in Nat : \A k \in Nat, c \in D : k >= m /\ rank[c] < m => h[k][c] = h[m][c]}
<1>9. 0 \in P
  <2>1. \A c \in D : ~(rank[c] < 0) BY <1>0
  <2>. QED BY <2>1
<1>10. ASSUME NEW m \in Nat, m \in P PROVE m + 1 \in P
  <2>. SUFFICES ASSUME NEW k \in Nat, NEW c \in D, k >= m + 1, rank[c] < m + 1
                PROVE  h[k][c] = h[m + 1][c]
    OBVIOUS
  <2>1. k - 1 \in Nat /\ k - 1 >= m /\ (k - 1) + 1 = k OBVIOUS
  <2>2. h[k] = Step[h[k - 1]] /\ h[m + 1] = Step[h[m]] /\ h[k - 1] \in F /\ h[m] \in F
    BY <1>8, <2>1
  <2>3. ASSUME NEW d \in D, rank[d] < rank[c] PROVE h[k - 1][d] = h[m][d]
    <3>1. rank[d] < m
      <4>1. rank[d] \in Nat /\ rank[c] \in Nat BY <1>0
      <4>. QED BY <2>3, <4>1
    <3>. QED BY <1>10, <2>1, <3>1
  <2>. QED BY <1>3, <2>2, <2>3
<1>11. Nat \subseteq P
  <2>. HIDE DEF P
  <2>. QED BY <1>9, <1>10, Induction
<1>. DEFINE f == [c \in D |-> h[rank[c] + 1][c]]
<1>12. f \in [D -> S]
  <2>1. ASSUME NEW c \in D PROVE h[rank[c] + 1][c] \in S
    <3>1. h[rank[c] + 1] \in F BY <1>0, <1>8
    <3>. QED BY <1>4, <3>1
  <2>. QED BY <2>1
<1>13. f \in F BY <1>5, <1>12
<1>14. ASSUME NEW c \in D PROVE f[c] = Step[f][c]
  <2>1. f[c] = Step[h[rank[c]]][c] /\ h[rank[c]] \in F BY <1>0, <1>8
  <2>2. ASSUME NEW d \in D, rank[d] < rank[c] PROVE h[rank[c]][d] = f[d]
    <3>1. rank[d] + 1 \in P /\ rank[c] >= rank[d] + 1 /\ rank[d] < rank[d] + 1
      <4>1. rank[d] \in Nat /\ rank[c] \in Nat BY <1>0
      <4>. HIDE DEF P
      <4>. QED BY <1>11, <2>2, <4>1
    <3>2. rank[c] \in Nat /\ f[d] = h[rank[d] + 1][d] BY <1>0
    <3>. QED BY <3>1, <3>2
  <2>. HIDE DEF f
  <2>. QED BY <1>3, <1>13, <2>1, <2>2
<1>. HIDE DEF f
<1>15. Step[f] \in [D -> S] BY <1>2, <1>4, <1>13
<1>16. f = Step[f]
  <2>1. f = [c \in D |-> f[c]] BY <1>12
  <2>2. Step[f] = [c \in D |-> Step[f][c]] BY <1>15
  <2>3. [c \in D |-> f[c]] = [c \in D |-> Step[f][c]] BY <1>14
  <2>. QED BY <2>1, <2>2, <2>3
<1>. QED BY <1>12, <1>16

-----------------------------------------------------------------------------
(* Division, and the bits of a byte.                                       *)

\* Whole multiples of the divisor come out of a division ...
LEMMA DivShift ==
  ASSUME NEW a \in Int, NEW m \in Int, NEW P \in Int, P > 0
  PROVE  (a + P * m) \div P = (a \div P) + m
OBVIOUS

\* ... and do not show in the remainder.
LEMMA ModShift ==
  ASSUME NEW j \in Nat, NEW P \in Nat, P > 0, j >= P
  PROVE  (j - P) \in Nat /\ (j - P) % P = j % P
<1>1. (j + P * (-1)) \div P = (j \div P) + (-1) BY DivShift
<1>2. j + P * (-1) = j - P OBVIOUS
<1>3. j % P = j - P * (j \div P) OBVIOUS
<1>4. (j - P) % P = (j - P) - P * ((j - P) \div P) OBVIOUS
<1>5. (j - P) \div P = (j \div P) - 1 BY <1>1, <1>2
<1>6. P * ((j \div P) - 1) = P * (j \div P) - P OBVIOUS
<1>. QED BY <1>3, <1>4, <1>5, <1>6

\* A number below the divisor is its own remainder.
LEMMA ModSmall == ASSUME NEW j \in Nat, NEW P \in Nat, j < P PROVE j % P = j
OBVIOUS

\* A remainder is below the divisor.
LEMMA ModRange == ASSUME NEW j \in Nat, NEW P \in Nat, P > 0 PROVE j % P \in 0..(P-1)
OBVIOUS

\* The powers of two that a byte needs: they are no built-in of the provers.
LEMMA Powers == \A b \in 0..7 : 2^b \in Nat \ {0} /\ 2^(b + 1) = 2 * 2^b
<1>1. /\ 2^0 = 1 /\ 2^1 = 2 /\ 2^2 = 4 /\ 2^3 = 8 /\ 2^4 = 16 /\ 2^5 = 32
      /\ 2^6 = 64 /\ 2^7 = 128 /\ 2^8 = 256
  OBVIOUS
<1>2. \A b \in 0..7 : b \in {0, 1, 2, 3, 4, 5, 6, 7} OBVIOUS
<1>3. ASSUME NEW b \in {0, 1, 2, 3, 4, 5, 6, 7} PROVE 2^b \in Nat \ {0} /\ 2^(b + 1) = 2 * 2^b
  <2>1. CASE b = 0 BY <1>1, <2>1
  <2>2. CASE b = 1 BY <1>1, <2>2
  <2>3. CASE b = 2 BY <1>1, <2>3
  <2>4. CASE b = 3 BY <1>1, <2>4
  <2>5. CASE b = 4 BY <1>1, <2>5
  <2>6. CASE b = 5 BY <1>1, <2>6
  <2>7. CASE b = 6 BY <1>1, <2>7
  <2>8. CASE b = 7 BY <1>1, <2>8
  <2>. QED BY <1>3, <2>1, <2>2, <2>3, <2>4, <2>5, <2>6, <2>7, <2>8
<1>. QED BY <1>2, <1>3

\* A power of two is an even multiple of every lower one.
LEMMA PowerDivides ==
  ASSUME NEW b \in 0..7, NEW i \in 0..(b - 1)
  PROVE  \E m \in Nat : 2^b = 2^i * (2 * m)
<1>. DEFINE Divides(c) == \A j \in 0..(c - 1) : \E m \in Nat : 2^c = 2^j * (2 * m)
            T == {c \in 0..7 : ~Divides(c)}
<1>1. T = {}
  <2>. SUFFICES ASSUME T # {} PROVE FALSE
    OBVIOUS
  <2>1. T \in SUBSET Nat OBVIOUS
  <2>2. PICK c \in T : \A k \in T : c <= k
    <3>. HIDE DEF T
    <3>. QED BY <2>1, LeastNumber
  <2>3. PICK j \in 0..(c - 1) : ~(\E m \in Nat : 2^c = 2^j * (2 * m)) BY <2>2
  <2>4. c \in 1..7 /\ c - 1 \in 0..7 /\ (c - 1) + 1 = c BY <2>2, <2>3
  <2>5. 2^c = 2 * 2^(c - 1) /\ 2^(c - 1) \in Nat /\ 2^j \in Nat
    <3>1. 2^(c - 1) \in Nat \ {0} /\ 2^((c - 1) + 1) = 2 * 2^(c - 1) BY <2>4, Powers
    <3>2. j \in 0..7 BY <2>3, <2>4
    <3>3. 2^j \in Nat BY <3>2, Powers
    <3>. QED BY <2>4, <3>1, <3>3
  <2>6. CASE j = c - 1
    <3>1. 2^c = 2^j * (2 * 1) BY <2>5, <2>6
    <3>. QED BY <2>3, <3>1
  <2>7. CASE j # c - 1
    <3>1. c - 1 \notin T /\ j \in 0..((c - 1) - 1)
      <4>1. j \in 0..((c - 1) - 1) BY <2>3, <2>4, <2>7
      <4>2. ~(c <= c - 1) BY <2>4
      <4>3. c - 1 \notin T BY <2>2, <4>2, Zenon
      <4>. QED BY <4>1, <4>3
    <3>2. Divides(c - 1) BY <2>4, <3>1
    <3>3. PICK m \in Nat : 2^(c - 1) = 2^j * (2 * m) BY <3>1, <3>2
    <3>4. 2^c = 2^j * (2 * (2 * m)) BY <2>5, <3>3
    <3>5. 2 * m \in Nat OBVIOUS
    <3>. QED BY <2>3, <3>4, <3>5
  <2>. QED BY <2>6, <2>7, Zenon
<1>2. b \notin T BY <1>1
<1>. QED BY <1>2

\* A header is filled from its lowest bit: setting the next bit changes none
\* below it.
LEMMA NextBit ==
  ASSUME NEW b \in 0..7, NEW h \in Nat, h < 2^b
  PROVE  /\ (h \div 2^b) % 2 = 0 /\ h < 2^(b + 1)
         /\ ((h + 2^b) \div 2^b) % 2 = 1 /\ h + 2^b \in Nat /\ h + 2^b < 2^(b + 1)
         /\ \A i \in 0..(b - 1) : ((h + 2^b) \div 2^i) % 2 = (h \div 2^i) % 2
<1>1. 2^b \in Nat \ {0} /\ 2^(b + 1) = 2 * 2^b BY Powers
<1>2. h \div 2^b = 0 BY <1>1
<1>3. (h + 2^b) \div 2^b = 1
  <2>1. (h + 2^b * 1) \div 2^b = (h \div 2^b) + 1 BY <1>1, DivShift
  <2>2. 2^b * 1 = 2^b BY <1>1
  <2>. QED BY <1>2, <2>1, <2>2
<1>4. ASSUME NEW i \in 0..(b - 1) PROVE ((h + 2^b) \div 2^i) % 2 = (h \div 2^i) % 2
  <2>1. PICK m \in Nat : 2^b = 2^i * (2 * m) BY PowerDivides
  <2>2. 2^i \in Nat \ {0}
    <3>1. i \in 0..7 OBVIOUS
    <3>. QED BY <3>1, Powers
  <2>3. (h + 2^i * (2 * m)) \div 2^i = (h \div 2^i) + 2 * m
    <3>. DEFINE P == 2^i
    <3>1. P \in Int /\ P > 0 /\ 2 * m \in Int BY <2>2
    <3>. HIDE DEF P
    <3>2. (h + P * (2 * m)) \div P = (h \div P) + 2 * m BY <3>1, DivShift
    <3>. QED BY <3>2 DEF P
  <2>. DEFINE q == h \div 2^i
  <2>4. q \in Int BY <2>2
  <2>. HIDE DEF q
  <2>5. (q + 2 * m) % 2 = q % 2 BY <2>4
  <2>. QED BY <2>1, <2>3, <2>5 DEF q
<1>. QED BY <1>1, <1>2, <1>3, <1>4

\* A quotient and the rest that belongs to it.
LEMMA QuotientOf ==
  ASSUME NEW d \in Nat \ {0}, NEW s \in Nat, NEW v \in Nat, v < d, NEW n, n = v + d * s
  PROVE  n \div d = s
<1>1. (v + d * s) \div d = (v \div d) + s BY DivShift
<1>2. v \div d = 0 OBVIOUS
<1>. QED BY <1>1, <1>2

\* Division with rest.
LEMMA DivMod ==
  ASSUME NEW a \in Nat, NEW b \in Nat \ {0}
  PROVE  a \div b \in Nat /\ a % b \in 0..(b - 1) /\ a = (a % b) + b * (a \div b)
OBVIOUS

\* Dividing twice is dividing by the product.
LEMMA DivTwice ==
  ASSUME NEW n \in Nat, NEW p \in Nat \ {0}, NEW b \in Nat \ {0}
  PROVE  n \div (b * p) = (n \div p) \div b
<1>. DEFINE q == n \div p
            r == n % p
            s == q \div b
            u == q % b
<1>1. q \in Nat /\ r \in 0..(p - 1) /\ n = r + p * q BY DivMod
<1>2. s \in Nat /\ u \in 0..(b - 1) /\ q = u + b * s
  <2>. HIDE DEF q
  <2>. QED BY <1>1, DivMod
<1>. HIDE DEF q, r, s, u
<1>3. p * q = p * u + p * (b * s)
  <2>1. p * (u + b * s) = p * u + p * (b * s) BY <1>1, <1>2
  <2>. QED BY <1>2, <2>1
<1>4. p * (b * s) = (b * p) * s /\ p * u \in Nat /\ b * p \in Nat \ {0} /\ (b * p) * s \in Nat
  <2>1. p \in Nat /\ b \in Nat /\ s \in Nat /\ u \in Nat BY <1>2
  <2>. QED BY <2>1
<1>5. p * u <= p * (b - 1) /\ p * (b - 1) = b * p - p BY <1>2
<1>. DEFINE v == r + p * u
            d == b * p
<1>6. v \in Nat /\ v < d
  <2>1. r < p /\ r \in Nat BY <1>1
  <2>2. p * u <= b * p - p BY <1>5
  <2>. DEFINE x == p * u  y == b * p
  <2>3. x \in Nat /\ y \in Nat /\ x <= y - p BY <1>4, <2>2
  <2>. HIDE DEF x, y
  <2>4. r + x \in Nat /\ r + x < y BY <2>1, <2>3
  <2>. QED BY <2>4 DEF x, y
<1>7. n = v + d * s
  <2>. DEFINE x == p * u  y == (b * p) * s
  <2>1. x \in Nat /\ y \in Nat /\ n = r + (x + y) BY <1>1, <1>3, <1>4
  <2>2. r \in Nat BY <1>1
  <2>. HIDE DEF x, y
  <2>3. n = (r + x) + y BY <2>1, <2>2
  <2>. QED BY <2>3 DEF x, y
<1>8. d \in Nat \ {0} BY <1>4
<1>. HIDE DEF v, d
<1>9. n \div d = s BY <1>2, <1>6, <1>7, <1>8, QuotientOf
<1>. QED BY <1>9 DEF d, s, q
=============================================================================
