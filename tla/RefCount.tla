----------------------------- MODULE RefCount ------------------------------
(***************************************************************************)
(* qbind::K, the RAII handle every wrapper of the library is built on, and *)
(* the operations of Tuple, NestedVector and Dictionary that move          *)
(* references in and out of kx objects.  One action per operation, run by  *)
(* one thread (kx counters are not atomic).  A constructor runs on a       *)
(* handle that holds nothing; an operation whose checks fail throws before *)
(* it touches anything, so the checks are the guards.                      *)
(*                                                                         *)
(* The two assignment operators release the old object before they take    *)
(* the new one, and the release may run a whole cascade: they are two      *)
(* steps, with `resume' between them.                                      *)
(***************************************************************************)
EXTENDS KxHeap

VARIABLE resume   \* the assignment whose r0 is running, or NULL

vars == <<ptr, r, live, kind, resume>>

Assignment == [to : Handle, from : Handle, move : BOOLEAN,
               stale : Obj \cup {NULL}]   \* to.m_k until it is overwritten

Init == HeapInit /\ resume = NULL

\* No operation is in progress.
Quiet == Pending = {} /\ resume = NULL

\* An operation that does all its work in one step.
Atomically(A) == Quiet /\ A /\ UNCHANGED resume

-----------------------------------------------------------------------------
\* Construction, destruction, swap.

\* A plausible bug: K(k) takes a borrowed pointer as it is.
MakeNonOwning_Owning(h, w) == Atomically(
  /\ ptr[h] = NULL /\ ptr[w] # NULL
  /\ ptr' = [ptr EXCEPT ![h] = ptr[w]]
  /\ UNCHANGED <<r, live, kind>>)

MakeNonOwning(h, w) == Atomically(
  /\ ptr[h] = NULL /\ ptr[w] # NULL
  /\ R1(h, ptr[w]))

\* A plausible bug: the copy shares the pointer without an r1.
CopyConstruct_Shallow(h, g) == Atomically(
  /\ ptr[h] = NULL /\ ptr[g] # NULL
  /\ ptr' = [ptr EXCEPT ![h] = ptr[g]]
  /\ UNCHANGED <<r, live, kind>>)

CopyConstruct(h, g) == Atomically(
  /\ ptr[h] = NULL /\ ptr[g] # NULL
  /\ R1(h, ptr[g]))

MoveConstruct(h, g) == Atomically(
  /\ ptr[h] = NULL /\ ptr[g] # NULL
  /\ Steal(h, g))

Destruct(h) == Atomically(ptr[h] # NULL /\ R0(h))

Swap(h, g) == Atomically(
  /\ ptr' = [ptr EXCEPT ![h] = ptr[g], ![g] = ptr[h]]
  /\ UNCHANGED <<r, live, kind>>)

-----------------------------------------------------------------------------
\* Assignment: release the old object, then take the new one.

ReleaseOld(h, g, move) ==
  /\ Quiet
  /\ IF ptr[h] = NULL THEN UNCHANGED heap ELSE R0(h)
  /\ resume' = [to |-> h, from |-> g, move |-> move, stale |-> ptr[h]]

\* A plausible bug: no test for self assignment.
CopyAssign_Untested(h, g) == ReleaseOld(h, g, FALSE)

CopyAssign(h, g) == h # g /\ ptr[h] # ptr[g] /\ ReleaseOld(h, g, FALSE)

MoveAssign(h, g) == h # g /\ ReleaseOld(h, g, TRUE)

\* other.m_k, read once the release is done.
SourceValue == IF resume.from = resume.to THEN resume.stale ELSE ptr[resume.from]

\* A plausible bug: nothing is done for a source that was moved from.
FinishCopy_NotNull == /\ ~resume.move
                      /\ SourceValue # NULL /\ R1(resume.to, SourceValue)

FinishCopy == /\ ~resume.move
              /\ IF SourceValue = NULL THEN UNCHANGED heap
                                       ELSE R1(resume.to, SourceValue)

\* A plausible bug: the source keeps its pointer.
FinishMove_KeepsSource == /\ resume.move
                          /\ ptr' = [ptr EXCEPT ![resume.to] = SourceValue]
                          /\ UNCHANGED <<r, live, kind>>

FinishMove == /\ resume.move
              /\ ptr' = [ptr EXCEPT ![resume.to] = SourceValue, ![resume.from] = NULL]
              /\ UNCHANGED <<r, live, kind>>

FinishAssign == /\ Pending = {} /\ resume # NULL
                /\ FinishCopy \/ FinishMove
                /\ resume' = NULL

-----------------------------------------------------------------------------
\* References that change hands between a handle and manual management.

\* A plausible bug: release() leaves the pointer in the handle.
Release_KeepsPointer(w, h) == Atomically(
  /\ ptr[w] = NULL /\ ptr[h] # NULL
  /\ ptr' = [ptr EXCEPT ![w] = ptr[h]]
  /\ UNCHANGED <<r, live, kind>>)

Release(w, h) == Atomically(
  /\ ptr[w] = NULL /\ ptr[h] # NULL
  /\ Steal(w, h))

Adopt(h, w) == Atomically(
  /\ ptr[h] = NULL /\ ptr[w] # NULL
  /\ Steal(h, w))

ManualR1(w, v) == Atomically(
  /\ ptr[w] = NULL /\ ptr[v] # NULL
  /\ R1(w, ptr[v]))

ManualR0(w) == Atomically(ptr[w] # NULL /\ R0(w))

\* ki(..), knk(0), ... in C code or in q itself.
ManualNew(w, x, k) == Atomically(ptr[w] = NULL /\ New(w, x, k))

-----------------------------------------------------------------------------
\* The wrappers' operations.

\* Atom(value), Vector(list), Vector(length).
NewObject(h, x, k) == Atomically(ptr[h] = NULL /\ New(h, x, k))

\* Tuple(Types&&...), NestedVector(Args&&...): every element must hold an
\* object; the list gets a reference of its own to each.
MakeTuple(h, x, gs) == Atomically(
  /\ ptr[h] = NULL
  /\ \A i \in DOMAIN gs : ptr[gs[i]] # NULL
  /\ Knk(h, x, "tuple", [i \in DOMAIN gs |-> ptr[gs[i]]]))

\* Dictionary(keys, values).
MakeDictionary(h, x, ks, vs) == Atomically(
  /\ ptr[h] = NULL
  /\ \A g \in {ks, vs} : ptr[g] # NULL /\ kind[ptr[g]] \in {"vector", "tuple"}
  /\ Knk(h, x, "dict", <<ptr[ks], ptr[vs]>>))

\* Tuple::get<i>: an independent handle on an element.
TupleGet(h, g, i) == Atomically(
  /\ ptr[h] = NULL /\ ptr[g] # NULL
  /\ kind[ptr[g]] = "tuple"
  /\ ptr[<<ptr[g], i>>] # NULL
  /\ R1(h, ptr[<<ptr[g], i>>]))

\* K::tuple_append, NestedVector::push_back: the argument is copied, the
\* list gets its own reference, the copy is destroyed.  Atoms are refused.
TupleAppend(h, g) == Atomically(
  /\ ptr[h] # NULL /\ ptr[g] # NULL
  /\ kind[ptr[h]] = "tuple" /\ kind[ptr[g]] # "atom"
  /\ Jk(ptr[h], ptr[g]))

-----------------------------------------------------------------------------
Cascade == \E s \in Slot : DropElement(s) /\ UNCHANGED resume

HandleOp ==
  \/ \E h, g \in Handle : \/ CopyConstruct(h, g)
                          \/ MoveConstruct(h, g)
                          \/ CopyAssign(h, g)
                          \/ MoveAssign(h, g)
                          \/ Swap(h, g)
                          \/ TupleAppend(h, g)
                          \/ \E i \in Idx : TupleGet(h, g, i)
  \/ \E h \in Handle : Destruct(h)
  \/ \E h \in Handle, x \in Obj :
       \/ \E k \in {"atom", "vector"} : NewObject(h, x, k)
       \/ \E n \in 0..MaxLen : \E gs \in [1..n -> Handle] : MakeTuple(h, x, gs)
       \/ \E ks, vs \in Handle : MakeDictionary(h, x, ks, vs)

BorderOp ==
  \/ \E h \in Handle, w \in Ref : MakeNonOwning(h, w) \/ Release(w, h) \/ Adopt(h, w)
  \/ \E w, v \in Ref : ManualR1(w, v)
  \/ \E w \in Ref : ManualR0(w)
  \/ \E w \in Ref, x \in Obj, k \in Kind \ {"dict"} : ManualNew(w, x, k)

Next == HandleOp \/ BorderOp \/ Cascade \/ FinishAssign

\* r0 and operator= return: the steps inside an operation are taken.
Fairness == WF_vars(Cascade) /\ WF_vars(FinishAssign)

Spec == Init /\ [][Next]_vars /\ Fairness

-----------------------------------------------------------------------------
TypeOK == /\ ptr \in [Owner -> Obj \cup {NULL}]
          /\ r \in [Obj -> Nat]
          /\ live \subseteq Obj
          /\ kind \in [Obj -> Kind]
          /\ resume \in Assignment \cup {NULL}

\* The counter of a live object is one less than the number of its owners:
\* "reference counting starts and ends with 0" (use_count, k.h:99-106).
RefCountExact == \A x \in live : r[x] + 1 = Cardinality(Owners(x))

\* Nothing that is still held has been freed, whatever mixture of handles,
\* manual references and lists holds it, also in the middle of a cascade.
NoDangling == \A w \in Owner : ptr[w] # NULL => ptr[w] \in live

\* An object exists exactly while it is owned: the decisions the counters
\* take are those of an ideal owner set (no leak, no early free).
Ideal == INSTANCE Ownership
OwnershipSpec == Ideal!Spec

\* Releasing an object of any depth ends, and so does an assignment.
CascadeEnds == ~Quiet ~> Quiet
=============================================================================
