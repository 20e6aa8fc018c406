-------------------------- MODULE MCClientServer --------------------------
(* A small instance of ClientServer for TLC. *)
EXTENDS ClientServer

CONSTANTS p1, p2, p3, u1, u2

\* Two programs of one user, and one of another.
Names == [p \in Procs |-> IF p = p3 THEN u2 ELSE u1]

\* The second program of a user only logs in.
Lines == [p \in Procs |-> CASE p = p1 -> 2 [] p = p2 -> 0 [] p = p3 -> 1]

\* One user lists, undoes and writes, the other writes or reads word by word.
Typed == [p \in Procs |->
    IF p = p1 THEN {"list", "info", "whole", "write"} ELSE {"stream", "write"}]
=============================================================================
