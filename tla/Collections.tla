---------------------------- MODULE Collections ----------------------------
(***************************************************************************)
(* An application that uses the wrappers Atom<T>, Vector<T>,               *)
(* NestedVector<T> and Dictionary<TKey, TValue>: it makes them from values *)
(* and from one another, takes K objects of q's for one of them, copies    *)
(* them (which shares the object), writes elements and appends.  Several   *)
(* wrappers look at one object, so what one does others see.               *)
(*                                                                         *)
(* Every operation of a wrapper is one action; the application is one      *)
(* thread.  An operation that throws leaves everything as it was and is    *)
(* not a step.  crashed means that the process has read through a wild     *)
(* pointer or thrown out of a noexcept function.                           *)
(***************************************************************************)
EXTENDS TypeCheck, Elements

CONSTANTS Wrapper,  \* the application's variables
          FromQ,    \* the objects q supplies: "atom", "vector", "list"
          MaxObj,   \* bound: objects
          MaxLen,   \* bound: length of a vector or list
          View      \* strings without a zero that symbols are compared with

ASSUME CollectionsAssumption ==
  /\ MaxObj \in Nat /\ MaxLen \in Nat
  /\ FromQ \subseteq {"atom", "vector", "list"}
  /\ View \subseteq Seq(Nat \ {0})

VARIABLES wrap,    \* [Wrapper -> what it is and holds]
          crashed

colvars == <<heap, wrap, crashed>>

Class  == {"Atom", "Vector", "NestedVector"}
NoWrap == [class |-> "none", T |-> 0, m_ptr |-> Null, m_length |-> 0]
Wrap(class, T, x) == [class |-> class, T |-> T, m_ptr |-> x, m_length |-> 0]

Free(w)  == wrap[w].class = "none"
Ptr(w)   == wrap[w].m_ptr
size(w)  == IF wrap[w].class = "Dictionary" THEN wrap[w].m_length ELSE n(Ptr(w))

Init == heap = <<>> /\ wrap = [w \in Wrapper |-> NoWrap] /\ crashed = FALSE

\* A new object, which wrapper w takes.
Make(w, o, wr) == /\ Free(w) /\ Len(heap) < MaxObj
                  /\ heap' = Append(heap, o)
                  /\ wrap' = [wrap EXCEPT ![w] = wr]
                  /\ UNCHANGED crashed

Crashes == crashed' = TRUE /\ UNCHANGED <<heap, wrap>>

-----------------------------------------------------------------------------
\* q makes an object, and hands any of its objects to the application.
QObject(kind, T) ==
  CASE kind = "atom"   -> {Atom(T, v) : v \in Val[T]}
    [] kind = "vector" -> {Vector(T, vs) : vs \in BoundedSeq(Val[T], MaxLen)}
    [] kind = "list"   -> {List(xs) : xs \in BoundedSeq(Obj, MaxLen)}

QMakes == /\ Len(heap) < MaxObj
          /\ \E kind \in FromQ, T \in Types : \E o \in QObject(kind, T) : heap' = Append(heap, o)
          /\ UNCHANGED <<wrap, crashed>>

\* A wrapper from a K object, of q's or from get() of another wrapper: what
\* is_with_info throws at is not taken.
FromK(w, class, T, x) ==
  /\ Free(w)
  /\ \E outcome \in is_with_info(x, class, T) :
       \/ /\ outcome = "returns"
          /\ wrap' = [wrap EXCEPT ![w] = Wrap(class, T, x)] /\ UNCHANGED <<heap, crashed>>
       \/ outcome = "crash" /\ Crashes

AtomFromK(w, T, x)   == FromK(w, "Atom", T, x)
VectorFromK(w, T, x) == FromK(w, "Vector", T, x)
NestedFromK(w, T, x) == FromK(w, "NestedVector", T, x)

\* Atom(value); Vector(first, last) and Vector{...}, and Vector(length),
\* which leaves the values to what the memory holds.
MakeAtom(w, T, v)    == Make(w, Atom(T, v), Wrap("Atom", T, Len(heap) + 1))
MakeVector(w, T, vs) == Make(w, Vector(T, vs), Wrap("Vector", T, Len(heap) + 1))

\* NestedVector(Args&&...).
MakeNested(w, T, ws) ==
  /\ \A i \in DOMAIN ws : wrap[ws[i]].class \in Class /\ wrap[ws[i]].T = T
  /\ Make(w, List([i \in DOMAIN ws |-> Ptr(ws[i])]), Wrap("NestedVector", T, Len(heap) + 1))

\* A plausible slip: the sizes are not compared.
MakeDictionary_AnySize(w, ks, vs) ==
  /\ wrap[ks].class \in {"Vector", "NestedVector"} /\ wrap[vs].class \in {"Vector", "NestedVector"}
  /\ Make(w, Dict(Ptr(ks), Ptr(vs)),
          [Wrap("Dictionary", 0, Len(heap) + 1) EXCEPT !.m_length = n(Ptr(ks))])

\* Dictionary(keys, values).
MakeDictionary(w, ks, vs) ==
  /\ wrap[ks].class \in {"Vector", "NestedVector"} /\ wrap[vs].class \in {"Vector", "NestedVector"}
  /\ size(ks) = size(vs)
  /\ Make(w, Dict(Ptr(ks), Ptr(vs)),
          [Wrap("Dictionary", 0, Len(heap) + 1) EXCEPT !.m_length = n(Ptr(ks))])

\* The copy of a wrapper is a wrapper of the same object.
Copy(w, v) == /\ Free(w) /\ ~Free(v)
              /\ wrap' = [wrap EXCEPT ![w] = wrap[v]]
              /\ UNCHANGED <<heap, crashed>>

Drop(w) == /\ ~Free(w)
           /\ wrap' = [wrap EXCEPT ![w] = NoWrap]
           /\ UNCHANGED <<heap, crashed>>

-----------------------------------------------------------------------------
\* A value stored in the object, for all its owners; a symbol is interned
\* first (to_underlier).
Store(w, i, v) == /\ heap' = [heap EXCEPT ![Ptr(w)].e[i] = v]
                  /\ UNCHANGED <<wrap, crashed>>

\* Atom::operator=(value).
AssignAtom(w, v) == wrap[w].class = "Atom" /\ v \in Val[wrap[w].T] /\ Store(w, 1, v)

\* Assignment through the reference that operator[], front() or back() of a
\* vector returns.
AssignElement(w, i, v) == /\ wrap[w].class = "Vector" /\ i \in 1..size(w)
                          /\ v \in Val[wrap[w].T] /\ Store(w, i, v)

\* jv, jk: the list of w becomes es.  It may stay where it is, for all its
\* owners, or move away from under them: *x and the answer are the new list.
\* A list with one owner only cannot tell the two apart.
Extend(w, es) ==
  /\ Len(es) <= MaxLen
  /\ \/ heap' = [heap EXCEPT ![Ptr(w)].e = es] /\ UNCHANGED wrap
     \/ /\ Len(heap) < MaxObj
        /\ heap' = Append(heap, [heap[Ptr(w)] EXCEPT !.e = es])
        /\ wrap' = [wrap EXCEPT ![w].m_ptr = Len(heap) + 1]
  /\ UNCHANGED crashed

\* join_lists refuses atoms, and lists of two types.
CanJoin(x, y) == x # Null /\ y # Null /\ t(x) = t(y) /\ t(x) >= 0

\* Vector::push_back(vec).
AppendVector(w, v) ==
  /\ wrap[w].class = "Vector" /\ wrap[v].class = "Vector" /\ wrap[w].T = wrap[v].T
  /\ CanJoin(Ptr(w), Ptr(v))
  /\ Extend(w, e(Ptr(w)) \o e(Ptr(v)))

\* tuple_append refuses an atom, and to append to anything but a list.
CanAppend(x, y) == x # Null /\ y # Null /\ t(x) = 0 /\ t(y) >= 0

\* NestedVector::push_back(Atom), (Vector) and (NestedVector): is<> looks at
\* the whole list first, then comes tuple_append.
AppendNested(w, v) ==
  /\ wrap[w].class = "NestedVector" /\ wrap[v].class \in Class /\ wrap[w].T = wrap[v].T
  /\ LET asked == is(Ptr(w), "Atom", wrap[w].T) \cup is(Ptr(w), "Vector", wrap[w].T) IN
       \/ "crash" \in asked /\ Crashes
       \/ /\ "no" \in asked
          /\ CanAppend(Ptr(w), Ptr(v))
          /\ Extend(w, Append(e(Ptr(w)), Ptr(v)))

Use == \/ \E w \in Wrapper, T \in Types :
            \/ \E x \in Obj : AtomFromK(w, T, x) \/ VectorFromK(w, T, x) \/ NestedFromK(w, T, x)
            \/ \E v \in Val[T] : MakeAtom(w, T, v)
            \/ \E vs \in BoundedSeq(Val[T], MaxLen) : MakeVector(w, T, vs)
            \/ \E ws \in BoundedSeq(Wrapper, MaxLen) : MakeNested(w, T, ws)
            \/ wrap[w].T = T /\ \E v \in Val[T] : AssignAtom(w, v) \/ \E i \in 1..MaxLen : AssignElement(w, i, v)
       \/ \E w, v \in Wrapper : \/ \E u \in Wrapper : MakeDictionary(u, w, v)
                                \/ Copy(w, v)
                                \/ AppendVector(w, v)
                                \/ AppendNested(w, v)
       \/ \E w \in Wrapper : Drop(w)

Next == ~crashed /\ (QMakes \/ Use)

Spec == Init /\ [][Next]_colvars

-----------------------------------------------------------------------------
\* A wrapper holds what its class and its T say: the check when it was made
\* is never undone by what others do to the object (vector.h:42, k.h:142-165).
TypeOK ==
  /\ Len(heap) <= MaxObj /\ crashed \in BOOLEAN
  /\ \A w \in Wrapper : LET r == wrap[w] IN
       CASE r.class = "none"         -> r = NoWrap
         [] r.class = "Atom"         -> t(r.m_ptr) = -r.T /\ n(r.m_ptr) = 1
         [] r.class = "Vector"       -> t(r.m_ptr) = r.T
         [] r.class = "NestedVector" -> t(r.m_ptr) = 0
         [] r.class = "Dictionary"   -> t(r.m_ptr) = DictType

\* A NestedVector<T> holds values of type T only, at any depth
\* (nested_vector.h:18-20), although its lists are shared with other
\* wrappers that append to them.
Homogeneous == \A w \in Wrapper : wrap[w].class = "NestedVector" => OnlyHolds(Ptr(w), wrap[w].T)

\* The length that a dictionary noted when it was made is never more than
\* what its keys and its values have, whoever appends to them: contains() and
\* size() speak of pairs that exist (dictionary.h:236-241, 337-340).
PairsExist == \A w \in Wrapper : wrap[w].class = "Dictionary" =>
                \A i \in 1..2 : wrap[w].m_length <= n(e(Ptr(w))[i])

SameValue(x, y) == t(x) = t(y) /\ n(x) = n(y) /\ \A i \in 1..n(x) : e(x)[i] = e(y)[i]

RightAnswer(x, y) == Equal(x, y) = IF SameValue(x, y) THEN "equal" ELSE "different"

\* What equal's switch has a working case for: all but the values of symbols,
\* lists and dictionaries, and GUID atoms.
Comparable(x, y) == \/ t(x) # t(y) \/ (t(x) >= 0 /\ n(x) # n(y))
                    \/ Abs(t(x)) \notin NoByteSize /\ t(x) # -GUID

\* K::operator== answers, and for the values, whenever the types or the lengths
\* differ or the type is one that its switch handles (k.h:276-349): it looks at
\* every byte of both.
EqualIsRight == \A x, y \in Obj : Comparable(x, y) => RightAnswer(x, y)

\* It does so for every two atoms or vectors, a GUID's 16 bytes ("using byte
\* layout equivalence to get 16 bytes of the union", k.h:343) and symbols ("even
\* works for symbols as doing pointer compare for interned data", k.h:347)
\* included.
EqualAnswers == \A x, y \in Obj : t(x) \notin {0, DictType} => RightAnswer(x, y)

\* The k-th step of an iterator from begin() or rbegin() leads to the place
\* that += k leads to and to the k-th value, in order or in reverse, and the
\* last step to end() or rend(); it[k], -= and -- agree with the steps
\* (vector.h:148-164, iterator.h:33-103).
Visits(vs, from, to, values) ==
  LET at(k) == PlusAssign(from, k) IN
  /\ at(0) = from /\ at(Len(vs)) = to
  /\ \A k \in 0..(Len(vs) - 1) :
       /\ PostIncrement(at(k)) = [tmp |-> at(k), it |-> at(k + 1)]
       /\ PostDecrement(at(k + 1)) = [tmp |-> at(k + 1), it |-> at(k)]
       /\ Readable(vs, at(k)) /\ Deref(vs, at(k)) = values[k + 1]
       /\ Subscript(vs, from, k) = values[k + 1]
       /\ MinusAssign(at(k), k) = from

Iteration == \A x \in {x \in Obj : t(x) > 0 /\ t(x) # DictType} : LET vs == e(x) IN
  Visits(vs, begin(vs), end(vs), vs) /\ Visits(vs, rbegin(vs), rend(vs), Reverse(vs))

\* A symbol in a vector compares with a string_view and with another symbol
\* as the strings do, also when one is a prefix of the other ("therefore
\* lexicographically greater", symbol.h:66-80).
SymbolOrder == \A x \in {x \in Obj : Abs(t(x)) = Symbol} : \A i \in 1..n(x) :
  \A v \in View : /\ CompareView(e(x)[i], v) = Lexicographic(e(x)[i], v)
                  /\ CompareSymbol(e(x)[i], v) = Lexicographic(e(x)[i], v)
=============================================================================
