----------------------------- MODULE Namespace -----------------------------
(***************************************************************************)
(* What the name server's catalogue promises: a map from paths to files    *)
(* and folders in which every command takes effect at one instant, and a   *)
(* copy of it that survives a restart.  NsCatalog implements it with an    *)
(* array, a hash index and a cache, in several steps under state_lock.     *)
(***************************************************************************)
EXTENDS Naturals, Sequences

CONSTANTS Path, Users, Nobody

VARIABLES
    entries,    \* [some paths -> [owner, is_directory]]
    saved,      \* what a restart finds
    saving,     \* it is being written
    creating    \* pairs <<user, path>>: a CREATE that may still be taken back

vars == <<entries, saved, saving, creating>>

IsFolder(p) == p \in DOMAIN entries /\ entries[p].is_directory

IsUnder(p, n) == Len(p) <= Len(n) /\ SubSeq(n, 1, Len(p)) = p

\* A path with everything a folder there contains.
Tree(p) == {n \in DOMAIN entries : n = p \/ (IsFolder(p) /\ IsUnder(p, n))}

Owns(u, S) == \A n \in S : entries[n].owner = u

With(p, e) == [n \in DOMAIN entries \cup {p} |-> IF n = p THEN e ELSE entries[n]]

Without(S) == [n \in DOMAIN entries \ S |-> entries[n]]

Init ==
    /\ entries = [n \in {} |-> 0]
    /\ saved = [n \in {} |-> 0] /\ saving = FALSE
    /\ creating = {}

Create(u, p) ==
    /\ entries' = With(p, [owner |-> u, is_directory |-> FALSE])
    /\ creating' = creating \cup {<<u, p>>}
    /\ UNCHANGED <<saved, saving>>

CreateFolder(u, p) ==
    /\ Len(p) > 1 => IsFolder(SubSeq(p, 1, Len(p) - 1))
    /\ entries' = With(p, [owner |-> u, is_directory |-> TRUE])
    /\ UNCHANGED <<saved, saving, creating>>

\* The storage server carried the CREATE out, or it is taken back.
Confirm(u, p) ==
    /\ creating' = creating \ {<<u, p>>}
    /\ UNCHANGED <<entries, saved, saving>>

Withdraw(u, p) ==
    /\ entries' = Without({p})
    /\ creating' = creating \ {<<u, p>>}
    /\ UNCHANGED <<saved, saving>>

Delete(u, p) ==
    /\ Owns(u, Tree(p))
    /\ entries' = Without(Tree(p))
    /\ UNCHANGED <<saved, saving, creating>>

\* The whole tree at src gets the prefix dst; dst is in a folder or at the top,
\* not inside src, and nothing is where the tree goes.
Move(u, src, dst) ==
    LET moved(n) == dst \o SubSeq(n, Len(src) + 1, Len(n))
        new == {moved(n) : n \in Tree(src)}
    IN  /\ Owns(u, Tree(src))
        /\ Len(dst) > 1 => IsFolder(SubSeq(dst, 1, Len(dst) - 1))
        /\ ~(IsFolder(src) /\ IsUnder(src, dst))
        /\ new \subseteq Path \ DOMAIN entries
        /\ entries' =
              [m \in (DOMAIN entries \ Tree(src)) \cup new |->
                  IF m \in new
                  THEN entries[src \o SubSeq(m, Len(dst) + 1, Len(m))]
                  ELSE entries[m]]
        /\ UNCHANGED <<saved, saving, creating>>

\* A storage server reports a file it has: the owner it names counts.
Report(u, p) ==
    /\ entries' = With(p, [owner |-> u,
                           is_directory |-> p \in DOMAIN entries /\ entries[p].is_directory])
    /\ UNCHANGED <<saved, saving, creating>>

\* While the copy is written it is of no use.
BeginSave ==
    /\ ~saving /\ saving' = TRUE
    /\ saved' = [n \in {} |-> 0]
    /\ UNCHANGED <<entries, creating>>

EndSave ==
    /\ saving /\ saving' = FALSE
    /\ saved' = entries
    /\ UNCHANGED <<entries, creating>>

Restart ==
    /\ ~saving
    /\ entries' = saved /\ creating' = {} /\ UNCHANGED <<saved, saving>>

\* A restart during a save: some of the entries are left, and what was written of
\* the next one may be taken for another.
CutSave ==
    /\ saving /\ saving' = FALSE
    /\ \E S \in SUBSET DOMAIN entries :
        LET kept == [n \in S |-> entries[n]]
        IN  \/ entries' = kept
            \/ \E p \in Path \ S, u \in Users \cup {Nobody} :
                  entries' = [n \in S \cup {p} |->
                      IF n = p THEN [owner |-> u, is_directory |-> FALSE] ELSE kept[n]]
    /\ saved' = entries' /\ creating' = {}

\* A command that is refused, or that only reads.
Refuse == UNCHANGED vars

Next ==
    \/ Refuse
    \/ BeginSave \/ EndSave
    \/ Restart \/ CutSave
    \/ \E c \in creating : Confirm(c[1], c[2]) \/ Withdraw(c[1], c[2])
    \/ \E p \in Path \ DOMAIN entries, u \in Users : Create(u, p) \/ CreateFolder(u, p)
    \/ \E p \in DOMAIN entries, u \in Users : Delete(u, p)
    \/ \E src \in DOMAIN entries, dst \in Path, u \in Users : Move(u, src, dst)
    \/ \E p \in Path, u \in Users : Report(u, p)

Spec == Init /\ [][Next]_vars

=============================================================================
