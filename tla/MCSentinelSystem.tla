--------------------------- MODULE MCSentinelSystem ---------------------------
(* Small instances of SentinelSystem.  Visits are interchangeable, and so are *)
(* calls, but the liveness properties of the run rule a symmetry set out.     *)
EXTENDS SentinelSystem
===============================================================================
