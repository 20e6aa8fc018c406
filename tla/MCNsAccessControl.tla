------------------------- MODULE MCNsAccessControl -------------------------
(* Small instances of NsAccessControl for TLC. *)
EXTENDS NsAccessControl, TLC

CONSTANTS f1, f2, o1, o2    \* files and their owners

OneFile == [f \in {f1} |-> o1]
TwoFiles == [f \in {f1, f2} |-> IF f = f1 THEN o1 ELSE o2]

\* Permissions that ADDACCESS and REQUESTACCESS take.
ReadOrWrite == {{"R"}, {"W"}}
WriteOnly == {{"W"}}

\* Only the initial state tells the files, and their owners, apart: what can
\* happen after a state, and what AclMirrors says of it, does not depend on which
\* is which.
Symmetry == Permutations(Files) \cup Permutations(Users)
=============================================================================
