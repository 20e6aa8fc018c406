--------------------------- MODULE MCNsPlacement ---------------------------
(* Instances of NsPlacement for TLC. *)
EXTENDS NsPlacement, TLC

CONSTANTS f, g

FilesAndFolder == {{f}, {g}, {f, g}}
\* Nothing is stored yet, or a copy of the same file everywhere.
NoFiles == [n \in {} |-> 0]
EmptyOrSame == {[s \in Addresses |-> NoFiles], [s \in Addresses |-> [n \in {f} |-> 0]]}
Symmetry == Permutations(Addresses) \cup Permutations(Handlers)
=============================================================================
