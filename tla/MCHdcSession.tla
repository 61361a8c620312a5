---------------------------- MODULE MCHdcSession ----------------------------
(* Instances of HdcSession for TLC.                                        *)
EXTENDS HdcSession, TLC

CONSTANTS s1, s2, t1, t2

\* Sessions and sender threads are interchangeable.
Symmetric == Permutations({s1, s2}) \cup Permutations({t1, t2})
=============================================================================
