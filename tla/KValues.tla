------------------------------ MODULE KValues ------------------------------
(***************************************************************************)
(* K objects by their contents: what the type checks, the comparison and   *)
(* the element access of the wrappers look at.  Who owns an object and     *)
(* when it is freed is the business of RefCount; here nothing is freed.    *)
(***************************************************************************)
EXTENDS TypeTable, Sequences, SequencesExt

CONSTANTS Types,  \* the types T of the wrappers in use
          Val     \* [Types -> sets]: the values of each

Null == 0

\* A symbol is its string, characters without a zero; a GUID is a number.
ASSUME ValuesAssumption ==
  /\ Types \subseteq KxTypes
  /\ DOMAIN Val = Types
  /\ Symbol \in Types => Val[Symbol] \subseteq Seq(Nat \ {0})

\* The objects in the order they were made.  An object is its type, t, and
\* what it holds, e: the value of an atom, the values of a vector (t > 0),
\* the objects in a list (t = 0), keys and values of a dictionary.
VARIABLE heap

Obj == DOMAIN heap
t(x) == heap[x].t
e(x) == heap[x].e
n(x) == Len(e(x))

Abs(i) == IF i < 0 THEN -i ELSE i

Atom(T, v)    == [t |-> -T, e |-> <<v>>]
Vector(T, vs) == [t |-> T, e |-> vs]
List(xs)      == [t |-> 0, e |-> xs]
Dict(ks, vs)  == [t |-> DictType, e |-> <<ks, vs>>]

\* Every value within x is of type T ("all values in the object must be an
\* atom, vector, or vector containing only those of type T, recursively"):
\* S is what can be reached from x through lists.
OnlyHolds(x, T) ==
  \E S \in SUBSET Obj :
    /\ x \in S
    /\ \A y \in S : t(y) \in {T, -T, 0} /\ (t(y) = 0 => ToSet(e(y)) \subseteq S)
=============================================================================
