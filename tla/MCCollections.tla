--------------------------- MODULE MCCollections ---------------------------
(* Collections for TLC: longs, whose values 1 and 2 inner_type reads as    *)
(* lengths, and symbols.  Of a symbol's string the views are a prefix, an  *)
(* extension and neighbours in the order.                                  *)
EXTENDS Collections, TLC

MCTypes == {Long, Symbol}
MCVal   == [T \in MCTypes |-> CASE T = Long   -> {1, 2}
                                [] T = Symbol -> {<<1, 2>>}]
MCView  == {<<>>, <<1>>, <<1, 1>>, <<1, 2>>, <<1, 2, 1>>, <<2>>}

\* The instance of run equal: values of 16 bytes.
MCGuids    == {GUID}
MCGuidsVal == [T \in MCGuids |-> {1, 2}]

Symmetry == Permutations(Wrapper)
=============================================================================
