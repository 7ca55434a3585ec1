----------------------------- MODULE TypeTable -----------------------------
(***************************************************************************)
(* The types of values, and the two places that know how many bytes a      *)
(* value of each has: the traits by which wrappers and Serializer read and *)
(* write elements, and the switch in K::equal.                             *)
(***************************************************************************)
EXTENDS Integers

\* enum class Type, and those members that the code treats in a way of
\* their own.
KxTypes == 1..19 \ {3}
GUID == 2
Long == 7
Symbol == 11
DictType == 99

\* sizeof(c_type<T>::underlier).
Width(T) == CASE T \in {1, 4, 10}                  -> 1
              [] T = 5                             -> 2
              [] T \in {6, 8, 13, 14, 17, 18, 19}  -> 4
              [] T \in {7, 9, 12, 15, 16, Symbol}  -> 8
              [] T = GUID                          -> 16

\* Symbols and the pointers of a list fall through to the default case, as
\* does a dictionary: "Unaccounted for type".
NoByteSize == {0, Symbol, DictType}

\* equal's switch.
byte_size(T) == CASE T \in {1, 4, 10}                 -> 1
                  [] T = GUID                         -> 16
                  [] T = 5                            -> 2
                  [] T \in {6, 8, 13, 14, 17, 18, 19} -> 4
                  [] T \in {7, 9, 12, 15, 16}         -> 8
=============================================================================
