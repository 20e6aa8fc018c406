---------------------------- MODULE MCNsCatalog ----------------------------
(* A small instance of NsCatalog for TLC. *)
EXTENDS NsCatalog

CONSTANTS a, d, e, c1, c2    \* three path components and two users

\* A folder that can move, with its file, into another folder and out again.
TwoFolders == {<<d>>, <<d, a>>, <<e>>, <<e, d>>, <<e, d, a>>}

\* Each user has a folder, both create the file in the first one; what is in the
\* second one has been moved there.
Files == [c \in Clients |-> IF c = c1 THEN {<<d>>, <<d, a>>} ELSE {<<d, a>>}]
Folders == [c \in Clients |-> IF c = c1 THEN {<<d>>} ELSE {<<e>>}]

\* The line of the file in the folder, cut within its name or its owner.
TwoCuts == [filename : {<<d>>, <<d, a>>}, owner : {Nobody}]

OneReport == {[filename |-> <<d, a>>, owner |-> c2]}
=============================================================================
