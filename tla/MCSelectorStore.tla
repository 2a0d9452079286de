--------------------------- MODULE MCSelectorStore ----------------------------
(* Small instances of SelectorStore.  Requests are interchangeable, and so    *)
(* are values except the one Init names.                                      *)
EXTENDS SelectorStore, TLC

Symmetry == Permutations(Requests)
===============================================================================
