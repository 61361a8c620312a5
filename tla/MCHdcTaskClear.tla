--------------------------- MODULE MCHdcTaskClear ---------------------------
(* Small instances of HdcTaskClear. *)
EXTENDS HdcTaskClear
CONSTANTS s1, s2, c1, c2, k1, k2, k3
=============================================================================
