-------------------------- MODULE RefCountProofs ---------------------------
(***************************************************************************)
(* RefCountExact and NoDangling hold, and RefCount implements Ownership,   *)
(* for any number of handles, references, objects and elements.            *)
(*                                                                         *)
(* The invariant is HeapInv (the counters are exact and nothing freed is   *)
(* held) with a fact about the assignment in progress.  Each primitive of  *)
(* KxHeap preserves HeapInv; an operation of RefCount is a primitive under *)
(* a guard.                                                                *)
(***************************************************************************)
EXTENDS RefCount, FiniteSetTheorems, TLAPS

Pointers == [Owner -> Obj \cup {NULL}]

HeapType == /\ ptr \in Pointers
            /\ r \in [Obj -> Nat]
            /\ live \subseteq Obj
            /\ kind \in [Obj -> Kind]

HeapInv == HeapType /\ RefCountExact /\ NoDangling

\* The target of an assignment is empty until the source is taken, and the
\* two are different handles.
AssignInv == resume # NULL => ptr[resume.to] = NULL /\ resume.to # resume.from

IInv == HeapInv /\ resume \in Assignment \cup {NULL} /\ AssignInv

-----------------------------------------------------------------------------
\* Finitely many owners: handles, manual references, element slots.
LEMMA OwnerFinite == IsFiniteSet(Owner)
<1>1. IsFiniteSet(Idx)
  BY HeapAssumption, FS_Interval DEF Idx
<1>2. IsFiniteSet(Slot)
  BY <1>1, HeapAssumption, FS_Product DEF Slot
<1>3. IsFiniteSet(Root)
  BY HeapAssumption, FS_Union DEF Root
<1> QED
  BY <1>2, <1>3, FS_Union DEF Owner

\* The owners of an object can be counted.
LEMMA OwnersCountable ==
  ASSUME NEW p, NEW x
  PROVE  IsFiniteSet(OwnersIn(p, x)) /\ Cardinality(OwnersIn(p, x)) \in Nat
<1>1. OwnersIn(p, x) \in SUBSET Owner
  BY DEF OwnersIn
<1> QED
  BY <1>1, OwnerFinite, FS_Subset, FS_CardinalityType

\* An empty owner that takes up x is one more owner of x, and nobody else's.
LEMMA GainOwner ==
  ASSUME NEW p \in Pointers, NEW w \in Owner, NEW x \in Obj, p[w] = NULL,
         NEW q \in Pointers, q = [p EXCEPT ![w] = x]
  PROVE  /\ Cardinality(OwnersIn(q, x)) = Cardinality(OwnersIn(p, x)) + 1
         /\ \A y \in Obj \ {x} : OwnersIn(q, y) = OwnersIn(p, y)
<1>2. OwnersIn(q, x) = OwnersIn(p, x) \cup {w} /\ w \notin OwnersIn(p, x)
  BY HeapAssumption DEF OwnersIn, Pointers
<1>3. Cardinality(OwnersIn(q, x)) = Cardinality(OwnersIn(p, x)) + 1
  BY <1>2, OwnersCountable, FS_AddElement
<1>4. \A y \in Obj \ {x} : OwnersIn(q, y) = OwnersIn(p, y)
  BY HeapAssumption DEF OwnersIn, Pointers
<1> QED
  BY <1>3, <1>4

\* An owner of x that gives it up is one owner less, and nobody else's.
LEMMA LoseOwner ==
  ASSUME NEW p \in Pointers, NEW w \in Owner, p[w] \in Obj,
         NEW q \in Pointers, q = [p EXCEPT ![w] = NULL]
  PROVE  /\ Cardinality(OwnersIn(p, p[w])) = Cardinality(OwnersIn(q, p[w])) + 1
         /\ \A y \in Obj \ {p[w]} : OwnersIn(q, y) = OwnersIn(p, y)
<1> DEFINE o == OwnersIn(p, p[w])
<1>1. OwnersIn(q, p[w]) = o \ {w} /\ w \in o
  BY HeapAssumption DEF OwnersIn, Pointers
<1>2. Cardinality(o) \in Nat /\ IsFiniteSet(o)
  BY OwnersCountable
<1>3. Cardinality(o \ {w}) = Cardinality(o) - 1
  BY <1>1, <1>2, FS_RemoveElement
<1>4. Cardinality(OwnersIn(q, p[w])) = Cardinality(o \ {w})
  BY <1>1, Zenon
<1>5. \A y \in Obj \ {p[w]} : OwnersIn(q, y) = OwnersIn(p, y)
  BY HeapAssumption DEF OwnersIn, Pointers
<1>6. Cardinality(o) = Cardinality(OwnersIn(q, p[w])) + 1
  BY <1>2, <1>3, <1>4
<1> QED
  BY <1>5, <1>6, Zenon

\* A live object has an owner; a freed one has none.
LEMMA LiveIffOwned ==
  ASSUME HeapInv, NEW x \in Obj
  PROVE  x \in live <=> OwnersIn(ptr, x) # {}
<1>1. ASSUME x \in live PROVE OwnersIn(ptr, x) # {}
  <2>1. r[x] + 1 = Cardinality(OwnersIn(ptr, x)) /\ r[x] \in Nat
    BY <1>1 DEF HeapInv, HeapType, RefCountExact, Owners
  <2>2. Cardinality(OwnersIn(ptr, x)) # 0
    BY <2>1
  <2> QED
    BY <2>2, FS_EmptySet
<1>2. ASSUME OwnersIn(ptr, x) # {} PROVE x \in live
  BY <1>2, HeapAssumption DEF HeapInv, NoDangling, OwnersIn
<1> QED
  BY <1>1, <1>2

-----------------------------------------------------------------------------
\* The primitives of KxHeap keep the counters exact.

LEMMA R1Inv ==
  ASSUME HeapInv, NEW w \in Owner, NEW x \in live, ptr[w] = NULL, R1(w, x)
  PROVE  HeapInv'
<1> USE DEF HeapInv, HeapType
<1>1. x \in Obj
  OBVIOUS
<1>2. ptr' = [ptr EXCEPT ![w] = x] /\ live' = live /\ kind' = kind
      /\ r' = [r EXCEPT ![x] = r[x] + 1]
  BY DEF R1
<1>3. /\ ptr' \in Pointers
      /\ Cardinality(OwnersIn(ptr', x)) = Cardinality(OwnersIn(ptr, x)) + 1
      /\ \A y \in Obj \ {x} : OwnersIn(ptr', y) = OwnersIn(ptr, y)
  <2>1. ptr \in Pointers /\ ptr' \in Pointers
    BY <1>1, <1>2 DEF Pointers
  <2> HIDE DEF HeapInv, HeapType
  <2> QED
    BY <1>1, <1>2, <2>1, GainOwner, ZenonT(30)
<1>4. HeapType'
  BY <1>1, <1>2, <1>3
<1>5. RefCountExact'
  <2> SUFFICES ASSUME NEW y \in live'
               PROVE  r'[y] + 1 = Cardinality(OwnersIn(ptr', y))
    BY DEF RefCountExact, Owners, OwnersIn
  <2>1. r[y] + 1 = Cardinality(OwnersIn(ptr, y)) /\ r[y] \in Nat /\ y \in Obj
    BY <1>2 DEF RefCountExact, Owners
  <2>2. CASE y = x
    BY <1>2, <1>3, <2>1, <2>2
  <2>3. CASE y # x
    BY <1>2, <1>3, <2>1, <2>3
  <2> QED
    BY <2>2, <2>3
<1>6. NoDangling'
  BY <1>2 DEF NoDangling, Pointers
<1> QED
  BY <1>4, <1>5, <1>6

LEMMA R0Inv ==
  ASSUME HeapInv, NEW w \in Owner, ptr[w] # NULL, R0(w)
  PROVE  HeapInv'
<1> USE DEF HeapInv, HeapType
<1> DEFINE x == ptr[w]
<1>1. x \in live /\ x \in Obj /\ r[x] \in Nat
  BY DEF NoDangling
<1>2. ptr' = [ptr EXCEPT ![w] = NULL] /\ ptr' \in Pointers /\ kind' = kind
  BY DEF R0, Pointers
<1>3. /\ Cardinality(OwnersIn(ptr, x)) = Cardinality(OwnersIn(ptr', x)) + 1
      /\ \A y \in Obj \ {x} : OwnersIn(ptr', y) = OwnersIn(ptr, y)
  BY <1>1, <1>2, LoseOwner
<1>4. r[x] + 1 = Cardinality(OwnersIn(ptr, x))
  BY <1>1 DEF RefCountExact, Owners
<1>5. CASE r[x] = 0
  <2>1. live' = live \ {x} /\ r' = r
    BY <1>5 DEF R0
  <2>2. Cardinality(OwnersIn(ptr', x)) = 0
    BY <1>3, <1>4, <1>5, OwnersCountable
  <2>3. OwnersIn(ptr', x) = {}
    BY <2>2, OwnersCountable, FS_EmptySet
  <2>4. HeapType'
    BY <1>2, <1>3, <2>1
  <2>5. RefCountExact'
    <3> SUFFICES ASSUME NEW y \in live'
                 PROVE  r'[y] + 1 = Cardinality(OwnersIn(ptr', y))
      BY DEF RefCountExact, Owners, OwnersIn
    <3> QED
      BY <1>3, <2>1 DEF RefCountExact, Owners
  <2>6. NoDangling'
    BY <1>2, <2>1, <2>3 DEF NoDangling, Pointers, OwnersIn
  <2> QED
    BY <2>4, <2>5, <2>6
<1>6. CASE r[x] # 0
  <2>1. live' = live /\ r' = [r EXCEPT ![x] = r[x] - 1]
    BY <1>6 DEF R0
  <2>2. HeapType'
    BY <1>1, <1>2, <1>3, <1>6, <2>1
  <2>3. RefCountExact'
    <3> SUFFICES ASSUME NEW y \in live'
                 PROVE  r'[y] + 1 = Cardinality(OwnersIn(ptr', y))
      BY DEF RefCountExact, Owners, OwnersIn
    <3>1. r[y] + 1 = Cardinality(OwnersIn(ptr, y)) /\ r[y] \in Nat /\ y \in Obj
      BY <2>1 DEF RefCountExact, Owners
    <3>2. Cardinality(OwnersIn(ptr', x)) \in Nat
      BY OwnersCountable
    <3>3. CASE y = x
      BY <1>3, <2>1, <3>1, <3>2, <3>3
    <3>4. CASE y # x
      BY <1>3, <2>1, <3>1, <3>4
    <3> QED
      BY <3>3, <3>4
  <2>4. NoDangling'
    BY <1>2, <2>1 DEF NoDangling, Pointers
  <2> QED
    BY <2>2, <2>3, <2>4
<1> QED
  BY <1>5, <1>6

\* Owners that trade what they hold: each object keeps as many as it had.
LEMMA TradeInv ==
  ASSUME HeapInv, NEW w \in Owner, NEW v \in Owner,
         ptr' = [ptr EXCEPT ![w] = ptr[v], ![v] = ptr[w]],
         UNCHANGED <<r, live, kind>>
  PROVE  HeapInv'
<1> USE DEF HeapInv, HeapType
<1>1. CASE ptr[w] = ptr[v]
  <2>1. ptr' = ptr
    BY <1>1 DEF Pointers
  <2> QED
    BY <2>1 DEF RefCountExact, NoDangling, Owners, OwnersIn
<1>2. CASE ptr[w] # ptr[v]
  <2>1. w # v /\ ptr' \in Pointers
    BY <1>2 DEF Pointers
  <2>2. \A y \in Obj : Cardinality(OwnersIn(ptr', y)) = Cardinality(OwnersIn(ptr, y))
    <3> SUFFICES ASSUME NEW y \in Obj
                 PROVE  Cardinality(OwnersIn(ptr', y)) = Cardinality(OwnersIn(ptr, y))
      OBVIOUS
    <3> DEFINE o == OwnersIn(ptr, y)
    <3>1. IsFiniteSet(o) /\ Cardinality(o) \in Nat
      BY OwnersCountable
    <3>2. ASSUME NEW a \in Owner, NEW b \in Owner, a # b,
                 ptr[a] = y, ptr[b] # y, ptr'[a] = ptr[b], ptr'[b] = y,
                 \A c \in Owner \ {a, b} : ptr'[c] = ptr[c]
          PROVE  Cardinality(OwnersIn(ptr', y)) = Cardinality(o)
      <4>1. OwnersIn(ptr', y) = (o \ {a}) \cup {b} /\ a \in o /\ b \notin o \ {a}
        BY <3>2 DEF OwnersIn
      <4>2. IsFiniteSet(o \ {a}) /\ Cardinality(o \ {a}) = Cardinality(o) - 1
        BY <3>1, <4>1, FS_RemoveElement
      <4>3. Cardinality((o \ {a}) \cup {b}) = Cardinality(o \ {a}) + 1
        BY <4>1, <4>2, FS_AddElement
      <4>4. Cardinality(OwnersIn(ptr', y)) = Cardinality((o \ {a}) \cup {b})
        BY <4>1, Zenon
      <4> QED
        BY <3>1, <4>2, <4>3, <4>4
    <3>3. /\ ptr'[w] = ptr[v] /\ ptr'[v] = ptr[w]
          /\ \A c \in Owner \ {w, v} : ptr'[c] = ptr[c]
      BY <2>1 DEF Pointers
    <3>4. CASE ptr[w] = y
      BY <1>2, <2>1, <3>2, <3>3, <3>4
    <3>5. CASE ptr[v] = y
      BY <1>2, <2>1, <3>2, <3>3, <3>5
    <3>6. CASE ptr[w] # y /\ ptr[v] # y
      BY <2>1, <3>3, <3>6 DEF OwnersIn
    <3> QED
      BY <3>4, <3>5, <3>6
  <2>3. RefCountExact'
    BY <2>2 DEF RefCountExact, Owners, OwnersIn
  <2>4. NoDangling'
    BY <2>1 DEF NoDangling, Pointers
  <2> QED
    BY <2>1, <2>3, <2>4
<1> QED
  BY <1>1, <1>2

LEMMA NewInv ==
  ASSUME HeapInv, NEW w \in Owner, NEW x \in Obj, NEW k \in Kind,
         ptr[w] = NULL, New(w, x, k)
  PROVE  HeapInv'
<1> USE DEF HeapInv, HeapType
<1>1. /\ x \notin live /\ live' = live \cup {x}
      /\ ptr' = [ptr EXCEPT ![w] = x] /\ ptr' \in Pointers
      /\ r' = [r EXCEPT ![x] = 0] /\ kind' = [kind EXCEPT ![x] = k]
  BY DEF New, Fresh, Pointers
<1>2. /\ Cardinality(OwnersIn(ptr', x)) = Cardinality(OwnersIn(ptr, x)) + 1
      /\ \A y \in Obj \ {x} : OwnersIn(ptr', y) = OwnersIn(ptr, y)
  <2>1. ptr \in Pointers /\ ptr' \in Pointers /\ ptr' = [ptr EXCEPT ![w] = x]
    BY <1>1
  <2> QED
    BY <2>1, GainOwner, ZenonT(30)
<1>3. Cardinality(OwnersIn(ptr, x)) = 0
  BY <1>1, LiveIffOwned, FS_EmptySet
<1>4. HeapType'
  BY <1>1
<1>5. RefCountExact'
  <2> SUFFICES ASSUME NEW y \in live'
               PROVE  r'[y] + 1 = Cardinality(OwnersIn(ptr', y))
    BY DEF RefCountExact, Owners, OwnersIn
  <2>1. CASE y = x
    BY <1>1, <1>2, <1>3, <2>1
  <2>2. CASE y # x
    BY <1>1, <1>2, <2>2 DEF RefCountExact, Owners
  <2> QED
    BY <2>1, <2>2
<1>6. NoDangling'
  BY <1>1 DEF NoDangling, Pointers
<1> QED
  BY <1>4, <1>5, <1>6

\* A new list: each element gains one owner per slot it fills.
LEMMA KnkInv ==
  ASSUME HeapInv, Pending = {}, NEW w \in Root, NEW x \in Obj, NEW k \in Kind,
         NEW es, \A i \in DOMAIN es : es[i] \in live,
         ptr[w] = NULL, Knk(w, x, k, es)
  PROVE  HeapInv'
<1> USE DEF HeapInv, HeapType
<1> DEFINE new(y) == {s \in SlotsOf(x) : Element(es, s) = y}
<1>1. x \notin live /\ live' = live \cup {x} /\ kind' = [kind EXCEPT ![x] = k]
  BY DEF Knk, Fresh
<1>2. r' = [y \in Obj |-> IF y = x THEN 0 ELSE r[y] + Cardinality(new(y))]
  BY DEF Knk
<1>3. \A s : Element(es, s) \in live \cup {NULL}
  BY DEF Element
<1>4. /\ w \in Owner /\ w \notin SlotsOf(x)
      /\ SlotsOf(x) \subseteq Owner
      /\ \A s \in SlotsOf(x) : ptr[s] = NULL
  BY <1>1, HeapAssumption DEF SlotsOf, Owner, Pending
<1>5. /\ ptr' \in Pointers
      /\ ptr'[w] = x
      /\ \A s \in SlotsOf(x) : ptr'[s] = Element(es, s)
      /\ \A v \in Owner \ ({w} \cup SlotsOf(x)) : ptr'[v] = ptr[v]
  <2>1. ptr' = [v \in Owner |-> IF v = w THEN x
                                ELSE IF v \in SlotsOf(x) THEN Element(es, v)
                                ELSE ptr[v]]
    BY DEF Knk
  <2> QED
    BY <1>3, <1>4, <2>1 DEF Pointers
<1>6. \A v \in Owner : ptr[v] # x
  BY <1>1, HeapAssumption DEF NoDangling
<1>7. OwnersIn(ptr', x) = {w}
  BY <1>1, <1>3, <1>4, <1>5, <1>6, HeapAssumption DEF OwnersIn
<1>8. \A y \in live : Cardinality(OwnersIn(ptr', y))
                        = Cardinality(OwnersIn(ptr, y)) + Cardinality(new(y))
  <2> SUFFICES ASSUME NEW y \in live
               PROVE  Cardinality(OwnersIn(ptr', y))
                        = Cardinality(OwnersIn(ptr, y)) + Cardinality(new(y))
    OBVIOUS
  <2>1. y # x /\ y # NULL /\ y \in Obj
    BY <1>1, HeapAssumption
  <2>2. OwnersIn(ptr', y) = OwnersIn(ptr, y) \cup new(y)
    BY <1>4, <1>5, <2>1 DEF OwnersIn
  <2>3. OwnersIn(ptr, y) \cap new(y) = {}
    BY <1>4, <2>1 DEF OwnersIn
  <2>4. IsFiniteSet(OwnersIn(ptr, y)) /\ Cardinality(OwnersIn(ptr, y)) \in Nat
    BY OwnersCountable
  <2>5. IsFiniteSet(new(y)) /\ Cardinality(new(y)) \in Nat
    <3>1. new(y) \in SUBSET Owner
      BY <1>4
    <3> HIDE DEF new
    <3> QED
      BY <3>1, OwnerFinite, FS_Subset, FS_CardinalityType
  <2> HIDE DEF new
  <2>6. Cardinality(OwnersIn(ptr, y) \cup new(y))
          = Cardinality(OwnersIn(ptr, y)) + Cardinality(new(y)) - Cardinality({})
    BY <2>3, <2>4, <2>5, FS_Union, Zenon
  <2>7. Cardinality({}) = 0
    BY FS_EmptySet
  <2>8. Cardinality(OwnersIn(ptr', y)) = Cardinality(OwnersIn(ptr, y) \cup new(y))
    BY <2>2, Zenon
  <2> QED
    BY <2>4, <2>5, <2>6, <2>7, <2>8
<1>9. \A y \in Obj : Cardinality(new(y)) \in Nat
  <2> SUFFICES ASSUME NEW y \in Obj PROVE Cardinality(new(y)) \in Nat
    OBVIOUS
  <2>1. new(y) \in SUBSET Owner
    BY <1>4
  <2> HIDE DEF new
  <2> QED
    BY <2>1, OwnerFinite, FS_Subset, FS_CardinalityType
<1>10. HeapType'
  <2> HIDE DEF new
  <2> QED
    BY <1>1, <1>2, <1>5, <1>9
<1>11. RefCountExact'
  <2> SUFFICES ASSUME NEW y \in live'
               PROVE  r'[y] + 1 = Cardinality(OwnersIn(ptr', y))
    BY DEF RefCountExact, Owners, OwnersIn
  <2> HIDE DEF new
  <2>1. CASE y = x
    <3>1. Cardinality(OwnersIn(ptr', x)) = 1
      BY <1>7, FS_Singleton
    <3> QED
      BY <1>2, <2>1, <3>1
  <2>2. CASE y # x
    <3>1. y \in live /\ y \in Obj /\ r[y] \in Nat /\ Cardinality(new(y)) \in Nat
      BY <1>1, <1>9, <2>2
    <3>2. r[y] + 1 = Cardinality(OwnersIn(ptr, y))
      BY <3>1 DEF RefCountExact, Owners
    <3>3. r'[y] = r[y] + Cardinality(new(y))
      BY <1>2, <2>2, <3>1
    <3> QED
      BY <1>8, <3>1, <3>2, <3>3
  <2> QED
    BY <2>1, <2>2
<1>12. NoDangling'
  BY <1>1, <1>3, <1>4, <1>5 DEF NoDangling
<1> QED
  BY <1>10, <1>11, <1>12

-----------------------------------------------------------------------------
\* The operations of RefCount.

LEMMA InitInv == Init => IInv
<1> SUFFICES ASSUME Init PROVE IInv
  OBVIOUS
<1>1. HeapType
  BY DEF Init, HeapInit, HeapType, Pointers, Kind
<1>2. RefCountExact /\ NoDangling
  BY DEF Init, HeapInit, RefCountExact, NoDangling
<1> QED
  BY <1>1, <1>2 DEF Init, IInv, HeapInv, AssignInv

\* What a non-empty owner holds is alive.
LEMMA HeldIsLive ==
  ASSUME HeapInv, NEW w \in Owner, ptr[w] # NULL
  PROVE  ptr[w] \in live /\ ptr[w] \in Obj
BY DEF HeapInv, HeapType, NoDangling

\* What any step does to the heap.
Primitive ==
  \/ UNCHANGED heap
  \/ \E w, v \in Owner : ptr[w] = NULL /\ ptr[v] # NULL /\ R1(w, ptr[v])
  \/ \E w \in Owner : ptr[w] # NULL /\ R0(w)
  \/ \E w, v \in Owner : /\ ptr' = [ptr EXCEPT ![w] = ptr[v], ![v] = ptr[w]]
                         /\ UNCHANGED <<r, live, kind>>
  \/ \E w \in Owner, x \in Obj, k \in Kind : ptr[w] = NULL /\ New(w, x, k)
  \/ \E w \in Root, x \in Obj, k \in Kind, n \in Nat : \E es \in [1..n -> live] :
        Pending = {} /\ ptr[w] = NULL /\ Knk(w, x, k, es)

LEMMA PrimitiveInv == HeapInv /\ Primitive => HeapInv'
<1> SUFFICES ASSUME HeapInv, Primitive PROVE HeapInv'
  OBVIOUS
<1>1. CASE UNCHANGED heap
  BY <1>1 DEF heap, HeapInv, HeapType, RefCountExact, NoDangling, Owners, OwnersIn
<1>2. ASSUME NEW w \in Owner, NEW v \in Owner, ptr[w] = NULL, ptr[v] # NULL,
             R1(w, ptr[v])
      PROVE  HeapInv'
  BY <1>2, HeldIsLive, R1Inv
<1>3. ASSUME NEW w \in Owner, ptr[w] # NULL, R0(w) PROVE HeapInv'
  BY <1>3, R0Inv
<1>4. ASSUME NEW w \in Owner, NEW v \in Owner,
             ptr' = [ptr EXCEPT ![w] = ptr[v], ![v] = ptr[w]],
             UNCHANGED <<r, live, kind>>
      PROVE  HeapInv'
  BY <1>4, TradeInv
<1>5. ASSUME NEW w \in Owner, NEW x \in Obj, NEW k \in Kind, ptr[w] = NULL, New(w, x, k)
      PROVE  HeapInv'
  BY <1>5, NewInv
<1>6. ASSUME NEW w \in Root, NEW x \in Obj, NEW k \in Kind, NEW n \in Nat,
             NEW es \in [1..n -> live], Pending = {}, ptr[w] = NULL, Knk(w, x, k, es)
      PROVE  HeapInv'
  BY <1>6, KnkInv
<1> QED
  BY <1>1, <1>2, <1>3, <1>4, <1>5, <1>6 DEF Primitive

\* A step whose heap part moves a reference to an empty owner.
LEMMA StealPrimitive ==
  ASSUME NEW w \in Owner, NEW v \in Owner, ptr[w] = NULL, Steal(w, v)
  PROVE  Primitive
<1>1. ptr' = [ptr EXCEPT ![w] = ptr[v], ![v] = ptr[w]] /\ UNCHANGED <<r, live, kind>>
  BY DEF Steal
<1> QED
  BY <1>1 DEF Primitive

LEMMA HandleOpPrimitive == IInv /\ HandleOp => Primitive
<1> SUFFICES ASSUME IInv, HandleOp PROVE Primitive
  OBVIOUS
<1>0. HeapInv /\ Handle \subseteq Owner /\ Handle \subseteq Root /\ Slot \subseteq Owner
  BY DEF IInv, Owner, Root
<1>1. ASSUME NEW h \in Handle, NEW g \in Handle, CopyConstruct(h, g) PROVE Primitive
  BY <1>0, <1>1 DEF CopyConstruct, Atomically, Primitive
<1>2. ASSUME NEW h \in Handle, NEW g \in Handle, MoveConstruct(h, g) PROVE Primitive
  BY <1>0, <1>2, StealPrimitive DEF MoveConstruct, Atomically
<1>3. ASSUME NEW h \in Handle, NEW g \in Handle, CopyAssign(h, g) \/ MoveAssign(h, g)
      PROVE  Primitive
  BY <1>0, <1>3 DEF CopyAssign, MoveAssign, ReleaseOld, Primitive
<1>4. ASSUME NEW h \in Handle, NEW g \in Handle, Swap(h, g) PROVE Primitive
  BY <1>0, <1>4 DEF Swap, Atomically, Primitive
<1>5. ASSUME NEW h \in Handle, NEW g \in Handle, TupleAppend(h, g) PROVE Primitive
  <2>1. ptr[h] # NULL /\ ptr[g] # NULL /\ Jk(ptr[h], ptr[g])
    BY <1>5 DEF TupleAppend, Atomically
  <2>2. PICK i \in Idx : ptr[<<ptr[h], i>>] = NULL /\ R1(<<ptr[h], i>>, ptr[g])
    BY <2>1 DEF Jk
  <2>3. <<ptr[h], i>> \in Owner
    BY <1>0, <2>1, HeldIsLive DEF Slot
  <2> QED
    BY <1>0, <2>1, <2>2, <2>3 DEF Primitive
<1>6. ASSUME NEW h \in Handle, NEW g \in Handle, NEW i \in Idx, TupleGet(h, g, i)
      PROVE  Primitive
  <2>1. ptr[h] = NULL /\ ptr[g] # NULL /\ ptr[<<ptr[g], i>>] # NULL
        /\ R1(h, ptr[<<ptr[g], i>>])
    BY <1>6 DEF TupleGet, Atomically
  <2>2. <<ptr[g], i>> \in Owner
    BY <1>0, <2>1, HeldIsLive DEF Slot
  <2> QED
    BY <1>0, <2>1, <2>2 DEF Primitive
<1>7. ASSUME NEW h \in Handle, Destruct(h) PROVE Primitive
  BY <1>0, <1>7 DEF Destruct, Atomically, Primitive
<1>8. ASSUME NEW h \in Handle, NEW x \in Obj, NEW k \in {"atom", "vector"},
             NewObject(h, x, k)
      PROVE  Primitive
  BY <1>0, <1>8 DEF NewObject, Atomically, Primitive, Kind
<1>9. ASSUME NEW h \in Handle, NEW x \in Obj, NEW n \in 0..MaxLen, NEW gs \in [1..n -> Handle],
             MakeTuple(h, x, gs)
      PROVE  Primitive
  <2> DEFINE es == [i \in DOMAIN gs |-> ptr[gs[i]]]
  <2>1. /\ Pending = {} /\ ptr[h] = NULL
        /\ \A i \in DOMAIN gs : ptr[gs[i]] # NULL
        /\ Knk(h, x, "tuple", es)
    BY <1>9 DEF MakeTuple, Atomically, Quiet
  <2>2. es \in [1..n -> live] /\ n \in Nat
    BY <1>0, <2>1, HeldIsLive, HeapAssumption
  <2>3. "tuple" \in Kind
    BY DEF Kind
  <2> HIDE DEF es
  <2> QED
    BY <1>0, <2>1, <2>2, <2>3 DEF Primitive
<1>10. ASSUME NEW h \in Handle, NEW x \in Obj, NEW ks \in Handle, NEW vs \in Handle,
              MakeDictionary(h, x, ks, vs)
       PROVE  Primitive
  <2> DEFINE es == <<ptr[ks], ptr[vs]>>
  <2>1. /\ Pending = {} /\ ptr[h] = NULL /\ ptr[ks] # NULL /\ ptr[vs] # NULL
        /\ Knk(h, x, "dict", es)
    BY <1>10 DEF MakeDictionary, Atomically, Quiet
  <2>2. es \in [1..2 -> live]
    BY <1>0, <2>1, HeldIsLive
  <2>3. "dict" \in Kind
    BY DEF Kind
  <2> HIDE DEF es
  <2> QED
    BY <1>0, <2>1, <2>2, <2>3 DEF Primitive
<1> QED
  BY <1>1, <1>2, <1>3, <1>4, <1>5, <1>6, <1>7, <1>8, <1>9, <1>10 DEF HandleOp

LEMMA BorderOpPrimitive == IInv /\ BorderOp => Primitive
<1> SUFFICES ASSUME IInv, BorderOp PROVE Primitive
  OBVIOUS
<1>0. Handle \cup Ref \subseteq Owner
  BY DEF Owner, Root
<1>1. ASSUME NEW h \in Handle, NEW w \in Ref,
             MakeNonOwning(h, w) \/ Release(w, h) \/ Adopt(h, w)
      PROVE  Primitive
  <2>1. CASE MakeNonOwning(h, w)
    BY <1>0, <2>1 DEF MakeNonOwning, Atomically, Primitive
  <2>2. CASE Release(w, h)
    BY <1>0, <2>2, StealPrimitive DEF Release, Atomically
  <2>3. CASE Adopt(h, w)
    BY <1>0, <2>3, StealPrimitive DEF Adopt, Atomically
  <2> QED
    BY <1>1, <2>1, <2>2, <2>3
<1>2. ASSUME NEW w \in Ref, NEW v \in Ref, ManualR1(w, v) PROVE Primitive
  BY <1>0, <1>2 DEF ManualR1, Atomically, Primitive
<1>3. ASSUME NEW w \in Ref, ManualR0(w) PROVE Primitive
  BY <1>0, <1>3 DEF ManualR0, Atomically, Primitive
<1>4. ASSUME NEW w \in Ref, NEW x \in Obj, NEW k \in Kind, ManualNew(w, x, k)
      PROVE  Primitive
  BY <1>0, <1>4 DEF ManualNew, Atomically, Primitive
<1> QED
  BY <1>1, <1>2, <1>3, <1>4 DEF BorderOp

LEMMA InsidePrimitive == IInv /\ (Cascade \/ FinishAssign) => Primitive
<1> SUFFICES ASSUME IInv, Cascade \/ FinishAssign PROVE Primitive
  OBVIOUS
<1>0. Handle \subseteq Owner /\ Slot \subseteq Owner
  BY DEF Owner, Root
<1>1. ASSUME NEW s \in Slot, DropElement(s) PROVE Primitive
  BY <1>0, <1>1 DEF DropElement, Pending, Primitive
<1>2. ASSUME FinishAssign PROVE Primitive
  <2> DEFINE h == resume.to
             g == resume.from
  <2>1. /\ h \in Owner /\ g \in Owner /\ ptr[h] = NULL /\ SourceValue = ptr[g]
        /\ FinishCopy \/ FinishMove
    BY <1>0, <1>2 DEF FinishAssign, IInv, AssignInv, Assignment, SourceValue
  <2>2. CASE FinishCopy
    BY <2>1, <2>2 DEF FinishCopy, Primitive
  <2>3. CASE FinishMove
    <3>1. /\ ptr' = [ptr EXCEPT ![h] = ptr[g], ![g] = ptr[h]]
          /\ UNCHANGED <<r, live, kind>>
      BY <2>1, <2>3 DEF FinishMove
    <3> QED
      BY <2>1, <3>1 DEF Primitive
  <2> QED
    BY <2>1, <2>2, <2>3
<1> QED
  BY <1>1, <1>2 DEF Cascade

LEMMA StepPrimitive == IInv /\ [Next]_vars => Primitive
BY HandleOpPrimitive, BorderOpPrimitive, InsidePrimitive DEF Next, vars, heap, Primitive

\* The assignment in progress: every operation but the two assignments
\* leaves none behind, and these leave their target empty.
LEMMA AssignStep ==
  IInv /\ [Next]_vars => (resume \in Assignment \cup {NULL} /\ AssignInv)'
<1> SUFFICES ASSUME IInv, [Next]_vars
             PROVE  (resume \in Assignment \cup {NULL} /\ AssignInv)'
  OBVIOUS
<1>0. ptr \in Pointers /\ Handle \subseteq Owner /\ resume \in Assignment \cup {NULL}
      /\ AssignInv
  BY DEF IInv, HeapInv, HeapType, Owner, Root
<1>1. CASE UNCHANGED vars
  BY <1>0, <1>1 DEF vars, AssignInv
<1>2. ASSUME NEW h \in Handle, NEW g \in Handle, NEW m \in BOOLEAN, h # g,
             ReleaseOld(h, g, m)
      PROVE  (resume \in Assignment \cup {NULL} /\ AssignInv)'
  <2>1. resume' = [to |-> h, from |-> g, move |-> m, stale |-> ptr[h]]
    BY <1>2 DEF ReleaseOld
  <2>2. ptr'[h] = NULL
    BY <1>0, <1>2 DEF ReleaseOld, heap, R0, Pointers
  <2>3. resume' \in Assignment
    BY <1>0, <2>1 DEF Assignment, Pointers
  <2> QED
    BY <1>2, <2>1, <2>2, <2>3 DEF AssignInv
<1>3. CASE Cascade
  <2>1. PICK s \in Slot : ptr' = [ptr EXCEPT ![s] = NULL] /\ UNCHANGED resume
    BY <1>3 DEF Cascade, DropElement, R0
  <2> QED
    BY <1>0, <2>1 DEF AssignInv, Assignment, Pointers
<1>4. CASE FinishAssign
  BY <1>4 DEF FinishAssign, AssignInv
<1>5. ASSUME resume = NULL, UNCHANGED resume
      PROVE  (resume \in Assignment \cup {NULL} /\ AssignInv)'
  BY <1>5 DEF AssignInv
<1>6. CASE HandleOp
  <2>1. \/ \E h, g \in Handle : CopyAssign(h, g) \/ MoveAssign(h, g)
        \/ resume = NULL /\ UNCHANGED resume
    BY <1>6 DEF HandleOp, CopyConstruct, MoveConstruct, Swap, TupleAppend, TupleGet,
                Destruct, NewObject, MakeTuple, MakeDictionary, Atomically, Quiet
  <2> QED
    BY <1>2, <1>5, <2>1 DEF CopyAssign, MoveAssign
<1>7. CASE BorderOp
  BY <1>5, <1>7 DEF BorderOp, MakeNonOwning, Release, Adopt, ManualR1, ManualR0,
                    ManualNew, Atomically, Quiet
<1> QED
  BY <1>1, <1>3, <1>4, <1>6, <1>7 DEF Next

LEMMA StepInv == IInv /\ [Next]_vars => IInv'
BY StepPrimitive, PrimitiveInv, AssignStep DEF IInv

-----------------------------------------------------------------------------
\* The inductive invariant holds in every reachable state of qbind::K's use.
THEOREM Inductive == Spec => []IInv
BY InitInv, StepInv, PTL DEF Spec

\* Every variable keeps its type, k0::r staying a natural number: r0 never
\* counts below zero.
THEOREM TypeCorrect == Spec => []TypeOK
<1>1. IInv => TypeOK
  BY DEF IInv, HeapInv, HeapType, TypeOK, Pointers
<1> QED
  BY <1>1, Inductive, PTL

\* k0::r is one less than the number of owners, for every live object.
THEOREM CountersExact == Spec => []RefCountExact
<1>1. IInv => RefCountExact
  BY DEF IInv, HeapInv
<1> QED
  BY <1>1, Inductive, PTL

\* No handle, manual reference or list element points to freed memory.
THEOREM NothingDangles == Spec => []NoDangling
<1>1. IInv => NoDangling
  BY DEF IInv, HeapInv
<1> QED
  BY <1>1, Inductive, PTL

-----------------------------------------------------------------------------
\* RefCount implements Ownership.

\* With exact counters the live objects are those somebody holds.
LEMMA LiveIsHeld == HeapInv => live = Ideal!HeldBy(ptr)
BY LiveIffOwned DEF HeapInv, HeapType, Ideal!HeldBy, OwnersIn

LEMMA LiveIsHeldNext == (HeapInv => live = Ideal!HeldBy(ptr))'
BY LiveIsHeld, PTL

LEMMA PrimitiveIdeal ==
  ASSUME HeapInv, HeapInv', Primitive
  PROVE  [Ideal!Next]_<<ptr, live>>
<1>0. live' = Ideal!HeldBy(ptr') /\ ptr \in Pointers /\ ptr' \in Pointers
  BY LiveIsHeldNext DEF HeapInv, HeapType
<1>1. CASE UNCHANGED heap
  BY <1>1 DEF heap
<1>2. ASSUME NEW w \in Owner, NEW v \in Owner, ptr[w] = NULL, ptr[v] # NULL,
             R1(w, ptr[v])
      PROVE  Ideal!Next
  <2>1. Ideal!Share(w, v)
    BY <1>0, <1>2, HeldIsLive DEF R1, Ideal!Share, Ideal!Settle
  <2> QED
    BY <2>1 DEF Ideal!Next
<1>3. ASSUME NEW w \in Owner, ptr[w] # NULL, R0(w) PROVE Ideal!Next
  <2>1. Ideal!Drop(w)
    BY <1>0, <1>3 DEF R0, Ideal!Drop, Ideal!Settle
  <2> QED
    BY <2>1 DEF Ideal!Next
<1>4. ASSUME NEW w \in Owner, NEW v \in Owner,
             ptr' = [ptr EXCEPT ![w] = ptr[v], ![v] = ptr[w]]
      PROVE  Ideal!Next
  <2>1. Ideal!Trade(w, v)
    BY <1>0, <1>4 DEF Ideal!Trade, Ideal!Settle
  <2> QED
    BY <2>1 DEF Ideal!Next
<1>5. ASSUME NEW w \in Owner, NEW x \in Obj, NEW k \in Kind, ptr[w] = NULL, New(w, x, k)
      PROVE  Ideal!Next
  <2>1. x \notin live /\ ptr' = [ptr EXCEPT ![w] = x]
    BY <1>5 DEF New, Fresh
  <2>2. Ideal!Create(w, x)
    BY <1>0, <1>5, <2>1 DEF Ideal!Create, Pointers
  <2> QED
    BY <2>2 DEF Ideal!Next
<1>6. ASSUME NEW w \in Root, NEW x \in Obj, NEW k \in Kind, NEW n \in Nat,
             NEW es \in [1..n -> live], Pending = {}, ptr[w] = NULL, Knk(w, x, k, es)
      PROVE  Ideal!Next
  <2>1. /\ x \notin live
        /\ ptr' = [v \in Owner |-> IF v = w THEN x
                                   ELSE IF v \in SlotsOf(x) THEN Element(es, v)
                                   ELSE ptr[v]]
    BY <1>6 DEF Knk, Fresh
  <2>2. w \in Owner /\ \A s \in SlotsOf(x) : ptr[s] = NULL
    BY <1>6, <2>1, HeapAssumption DEF SlotsOf, Owner, Pending
  <2>3. \A s : Element(es, s) \in live \cup {NULL}
    BY DEF Element
  <2>4. \A v \in Owner \ {w} : ptr'[v] = ptr[v] \/ (ptr[v] = NULL /\ ptr'[v] \in live)
    BY <2>1, <2>2, <2>3
  <2>5. Ideal!Create(w, x)
    BY <1>0, <1>6, <2>1, <2>2, <2>4 DEF Ideal!Create, Pointers
  <2> QED
    BY <2>2, <2>5 DEF Ideal!Next
<1> QED
  BY <1>1, <1>2, <1>3, <1>4, <1>5, <1>6 DEF Primitive

\* The counters decide as ownership would: an object is freed by the step
\* that takes its last owner away, and by no other.
THEOREM ImplementsOwnership == Spec => OwnershipSpec
<1>1. Init => Ideal!Init
  BY DEF Init, HeapInit, Ideal!Init
<1>2. IInv /\ IInv' /\ [Next]_vars => [Ideal!Next]_<<ptr, live>>
  BY StepPrimitive, PrimitiveIdeal DEF IInv
<1> QED
  BY <1>1, <1>2, Inductive, PTL DEF Spec, OwnershipSpec, Ideal!Spec
=============================================================================
