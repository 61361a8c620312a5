----------------------------- MODULE MCHdcUart -----------------------------
(* Small instances of HdcUart. *)
EXTENDS HdcUart
CONSTANTS s1, s2, h1, h2, d1

\* What each end sends: both one payload, the host two, or the daemon two.
OneEach == [e \in End |-> 1]
TwoDown == [e \in End |-> IF e = "host" THEN 2 ELSE 0]
TwoUp == [e \in End |-> IF e = "host" THEN 1 ELSE 2]

\* The threads of the host are interchangeable.
Threads == Permutations(HostCaller)
=============================================================================
