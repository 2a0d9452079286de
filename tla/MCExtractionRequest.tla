------------------------- MODULE MCExtractionRequest --------------------------
(* Small instances of ExtractionRequest.  Field names are interchangeable.    *)
EXTENDS ExtractionRequest, TLC

Symmetry == Permutations(Fields)
===============================================================================
