------------------------------ MODULE MCSsCopy ------------------------------
(* Instances of SsCopy for TLC: a and c are on one server, b is on the other. *)
EXTENDS SsCopy

CONSTANTS a, b, c, s1, s2

TwoAndOne == [f \in {a, b, c} |-> IF f = b THEN s2 ELSE s1]
Ranks == [f \in {a, b, c} |-> IF f = a THEN 1 ELSE IF f = b THEN 2 ELSE 3]
\* Both directions between the servers, both orders of the local locks, and a file
\* that the other server may not read.
Crosswise == {<<a, b>>, <<b, a>>, <<a, c>>, <<c, a>>, <<c, b>>}
=============================================================================
