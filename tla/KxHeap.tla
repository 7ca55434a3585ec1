------------------------------ MODULE KxHeap -------------------------------
(***************************************************************************)
(* The part of the kx C API the library manages memory with: objects with  *)
(* a reference counter, mixed lists and dictionaries that hold references  *)
(* to other objects, and the primitives r0, r1, ka/ktn, knk/xD and jk.     *)
(* kx is external; the contracts are those of src/vendored/kx/include/kx/  *)
(* k.h, as the library relies on them.                                     *)
(*                                                                         *)
(* A counter starts and ends at 0: an object with r = 0 has one owner.     *)
(* Freeing a list releases its elements; that cascade is a sequence of     *)
(* steps (DropElement) during which no client code runs.                   *)
(***************************************************************************)
EXTENDS Naturals, FiniteSets, Sequences

CONSTANTS Handle,   \* qbind::K objects (bare or inside an Atom, Vector, ...)
          Ref,      \* references managed by hand: ::K variables, q's variables
          Obj,      \* addresses of kx objects
          MaxLen,   \* bound: elements of a mixed list
          NULL      \* nullptr

Idx  == 1..MaxLen
Slot == Obj \X Idx
Root == Handle \cup Ref
Owner == Root \cup Slot

ASSUME HeapAssumption ==
  /\ IsFiniteSet(Handle) /\ IsFiniteSet(Ref) /\ IsFiniteSet(Obj)
  /\ MaxLen \in Nat
  /\ NULL \notin Obj
  /\ Handle \cap Ref = {}
  /\ Root \cap Slot = {}

Kind == {"atom", "vector", "tuple", "dict"}   \* k0::t: < 0, 1..19, 0, 99

VARIABLES ptr,    \* [Owner -> Obj \cup {NULL}]: what each owner points to
          r,      \* [Obj -> Nat]: k0::r
          live,   \* the objects that are not freed
          kind    \* [Obj -> Kind]: k0::t

heap == <<ptr, r, live, kind>>

OwnersIn(p, x) == {w \in Owner : p[w] = x}
Owners(x)      == OwnersIn(ptr, x)
SlotsOf(x)     == {s \in Slot : s[1] = x}

\* Elements of freed lists whose reference is still to be released.
Pending == {s \in Slot : s[1] \notin live /\ ptr[s] # NULL}

HeapInit == /\ ptr = [w \in Owner |-> NULL]
            /\ r = [x \in Obj |-> 0]
            /\ live = {}
            /\ kind \in [Obj -> {"atom"}]

-----------------------------------------------------------------------------
\* r1(x), the new reference kept by w.
R1(w, x) == /\ ptr' = [ptr EXCEPT ![w] = x]
            /\ r' = [r EXCEPT ![x] = @ + 1]
            /\ UNCHANGED <<live, kind>>

\* A plausible bug: count down first, whatever the counter says.
R0_CountsFirst(w) == LET x == ptr[w] IN
  /\ ptr' = [ptr EXCEPT ![w] = NULL]
  /\ r' = [r EXCEPT ![x] = @ - 1]
  /\ live' = IF r[x] = 0 THEN live \ {x} ELSE live
  /\ UNCHANGED kind

\* r0(x), x being what w holds: free at 0, count down otherwise.
R0(w) == LET x == ptr[w] IN
         /\ ptr' = [ptr EXCEPT ![w] = NULL]
         /\ IF r[x] = 0
              THEN live' = live \ {x} /\ UNCHANGED r
              ELSE r' = [r EXCEPT ![x] = @ - 1] /\ UNCHANGED live
         /\ UNCHANGED kind

\* The recursive part of r0: a freed list releases an element.
DropElement(s) == s \in Pending /\ R0(s)

\* Hand the reference of v over to the empty owner w; no counter moves.
Steal(w, v) == /\ ptr' = [ptr EXCEPT ![w] = ptr[v], ![v] = NULL]
               /\ UNCHANGED <<r, live, kind>>

\* A fresh address, its counter at 0.
Fresh(x, k) == /\ x \notin live
               /\ kind' = [kind EXCEPT ![x] = k]
               /\ live' = live \cup {x}

\* ka, ktn: a new object without elements, held by w.
New(w, x, k) == /\ Fresh(x, k)
                /\ ptr' = [ptr EXCEPT ![w] = x]
                /\ r' = [r EXCEPT ![x] = 0]

\* What slot s of a new list x holds when it is filled from the objects es.
Element(es, s) == IF s[2] \in DOMAIN es THEN es[s[2]] ELSE NULL

\* knk, xD applied to freshly taken references (get().release()) to the
\* objects es: one r1 per element, each reference then owned by its slot.
Knk(w, x, k, es) ==
  /\ Fresh(x, k)
  /\ ptr' = [v \in Owner |-> IF v = w THEN x
                             ELSE IF v \in SlotsOf(x) THEN Element(es, v)
                             ELSE ptr[v]]
  /\ r' = [y \in Obj |-> IF y = x THEN 0
                         ELSE r[y] + Cardinality({s \in SlotsOf(x) : Element(es, s) = y})]

\* jk(&x, r1(y)): y becomes the last element of the mixed list x.  jk may also
\* move the list, of which the caller's pointer alone is told.  Here the list
\* stays in place, whoever else owns it: with a single owner nobody can tell,
\* and the moves of a shared list, against which tuple_append does not guard
\* (k.h:230-241), are in Collections (Extend).
Jk(x, y) == \E i \in Idx :
              /\ ptr[<<x, i>>] = NULL
              /\ \A j \in 1..(i - 1) : ptr[<<x, j>>] # NULL
              /\ R1(<<x, i>>, y)
=============================================================================
