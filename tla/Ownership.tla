----------------------------- MODULE Ownership -----------------------------
(***************************************************************************)
(* What reference-counted handles promise, with no counter in sight: a     *)
(* reference is held by an owner (a qbind::K, a reference managed by hand, *)
(* or an element slot of a list), and an object exists exactly while some  *)
(* owner holds it.  RefCount implements this with the k0::r counters.      *)
(***************************************************************************)
CONSTANTS Owner, Obj, NULL

VARIABLES ptr,   \* what each owner holds
          live   \* the objects whose memory is valid

HeldBy(p) == {x \in Obj : \E w \in Owner : p[w] = x}

\* The owners now hold p, and existence follows from ownership.
Settle(p) == /\ ptr' = p
             /\ live' = HeldBy(p)

\* A second owner of what v holds.
Share(w, v) == /\ ptr[w] = NULL
               /\ ptr[v] \in live
               /\ Settle([ptr EXCEPT ![w] = ptr[v]])

\* w gives up what it holds.
Drop(w) == /\ ptr[w] # NULL
           /\ Settle([ptr EXCEPT ![w] = NULL])

\* Two owners trade what they hold; a move is a trade with an empty owner.
Trade(w, v) == Settle([ptr EXCEPT ![w] = ptr[v], ![v] = ptr[w]])

\* A new object appears, held by w; some empty owners (its own slots) take
\* up references to objects that exist already.
Create(w, x) == /\ x \in Obj \ live
                /\ ptr[w] = NULL
                /\ ptr' \in [Owner -> Obj \cup {NULL}]
                /\ ptr'[w] = x
                /\ \A v \in Owner \ {w} :
                      ptr'[v] = ptr[v] \/ (ptr[v] = NULL /\ ptr'[v] \in live)
                /\ live' = HeldBy(ptr')

Init == /\ ptr = [w \in Owner |-> NULL]
        /\ live = {}

Next == \/ \E w, v \in Owner : Share(w, v) \/ Trade(w, v)
        \/ \E w \in Owner : Drop(w)
        \/ \E w \in Owner, x \in Obj : Create(w, x)

Spec == Init /\ [][Next]_<<ptr, live>>
=============================================================================
