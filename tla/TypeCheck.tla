----------------------------- MODULE TypeCheck -----------------------------
(***************************************************************************)
(* inner_type and what is built on it: is<T>() and is_with_info<T>(), by   *)
(* which a wrapper decides whether a K object is one of its own.           *)
(*                                                                         *)
(* inner_type_impl walks a list with a variable that it overwrites with    *)
(* each child, so that the bound and the next element are read from the    *)
(* child it has just looked at.  Of an atom it reads the value as a length *)
(* and of what is no list it reads an element as a pointer: from there on  *)
(* the walk may end in any way, and each is an outcome.                    *)
(***************************************************************************)
EXTENDS KValues

Outcome == [is : {"type"}, t : {0} \cup 1..DictType] \cup [is : {"no", "throws", "crash"}, t : {0}]

Is(T)  == [is |-> "type", t |-> T]
No     == [is |-> "no", t |-> 0]
Throws == [is |-> "throws", t |-> 0]
Crash  == [is |-> "crash", t |-> 0]

\* k->n.  An atom has its value there: a long's own, a pointer for a symbol
\* (larger than any index), and 1 in front of a GUID.
LengthRead(k) == CASE t(k) >= 0 -> n(k)
                   [] t(k) = -Long -> e(k)[1]
                   [] t(k) = -GUID -> 1
                   [] OTHER -> 1000000

\* Of what is no list inner_type_impl looks at the type only.
OfType(k, T) == IF T \in {0, Abs(t(k))} THEN {Is(Abs(t(k)))} ELSE {No}

\* What inner_type_impl(k, T) may answer.  Children is the loop over a list,
\* from index i on, k being the list or the last child; callers are the lists
\* it is inside of: a list that contains itself overflows the stack.
inner_type_impl(k, T) ==
  LET Children[c \in [k : Obj, i : Nat, T : Nat, callers : SUBSET Obj]] ==
        IF c.i >= LengthRead(c.k) THEN {Is(c.T)}
        ELSE IF t(c.k) # 0 THEN {Is(c.T), No, Throws, Crash}
        ELSE LET child == e(c.k)[c.i + 1]
                 answers == CASE child = Null        -> {Throws}
                              [] child \in c.callers -> {Crash}
                              [] child \in Obj \ c.callers ->
                                   IF t(child) # 0 THEN OfType(child, c.T)
                                   ELSE Children[[k |-> child, i |-> 0, T |-> c.T,
                                                  callers |-> c.callers \cup {child}]]
             IN  UNION {IF r.is # "type" THEN {r}
                        ELSE Children[[k |-> child, i |-> c.i + 1, T |-> IF c.T = 0 THEN r.t ELSE c.T,
                                       callers |-> c.callers]] : r \in answers}
  IN CASE k = Null             -> {Throws}
       [] k # Null /\ t(k) # 0 -> OfType(k, T)
       [] k # Null /\ t(k) = 0 -> Children[[k |-> k, i |-> 0, T |-> T, callers |-> {k}]]

Structure(k) == CASE t(k) < 0 -> "Atom" [] t(k) > 0 -> "Vector" [] OTHER -> "NestedVector"

\* A plausible repair: type 0 passes, as the comments of inner_type and is
\* say ("Type may be Type(0) for nested vectors when they only contain type 0").
inner_type_Generic(k) ==
  {IF r.is = "type" /\ r.t \notin {0} \cup KxTypes THEN No ELSE r : r \in inner_type_impl(k, 0)}

\* inner_type(k): a type outside 1..19, or 3, is refused; 0 is, too.
inner_type(k) ==
  {IF r.is = "type" /\ r.t \notin KxTypes THEN No ELSE r : r \in inner_type_impl(k, 0)}

\* A plausible slip: the structure is not compared.
Matches_AnyStructure(k, class, T, found) ==
  found = T \/ (class = "NestedVector" /\ found = 0)

\* The test of is and is_with_info on what was found.
Matches(k, class, T, found) ==
  (class = Structure(k) /\ found = T) \/ (class = "NestedVector" /\ found = 0)

\* is<class<T>>(): noexcept, so that a throw ends the program.
is(k, class, T) ==
  {IF r.is = "type" THEN (IF Matches(k, class, T, r.t) THEN "yes" ELSE "no")
   ELSE IF r.is = "no" THEN "no" ELSE "crash" : r \in inner_type(k)}

\* is_with_info<class<T>>(): what does not match throws.
is_with_info(k, class, T) ==
  {IF r.is = "type" THEN (IF Matches(k, class, T, r.t) THEN "returns" ELSE "throws")
   ELSE IF r.is = "crash" THEN "crash" ELSE "throws" : r \in inner_type(k)}

-----------------------------------------------------------------------------
(* K::equal.                                                               *)

\* memcmp over byte_size bytes for each value of the first.
SameBytes(x, y) ==
  LET T == Abs(t(x)) IN
  \A i \in 1..((byte_size(T) * n(x)) \div Width(T)) : i \in 1..n(y) /\ e(x)[i] = e(y)[i]

\* A plausible slip: the lengths are not compared.
Equal_AnyLength(x, y) ==
  CASE x = Null \/ y = Null -> "crash"
    [] x # Null /\ y # Null ->
       CASE t(x) # t(y) -> "different"
         [] t(x) = t(y) /\ Abs(t(x)) \in NoByteSize -> "throws"
         [] t(x) = t(y) /\ Abs(t(x)) \notin NoByteSize ->
            IF (IF t(x) = -GUID THEN x = y ELSE SameBytes(x, y)) THEN "equal" ELSE "different"

\* 16 bytes of an atom are compared by the address they are at.
Equal(x, y) ==
  CASE x = Null \/ y = Null -> "crash"
    [] x # Null /\ y # Null ->
       CASE t(x) # t(y) -> "different"
         [] t(x) = t(y) /\ t(x) >= 0 /\ n(x) # n(y) -> "different"
         [] t(x) = t(y) /\ (t(x) >= 0 => n(x) = n(y)) ->
            IF Abs(t(x)) \in NoByteSize THEN "throws"
            ELSE IF (IF t(x) = -GUID THEN x = y ELSE SameBytes(x, y)) THEN "equal" ELSE "different"
=============================================================================
