----------------------------- MODULE NsCatalog -----------------------------
(***************************************************************************)
(* The name server's catalogue: the files array, the hash index and the    *)
(* lookup cache that point into it, and the metadata file it is saved to   *)
(* and loaded from.  Client handler threads and the reader threads of the  *)
(* storage servers change it under state_lock.                             *)
(*                                                                         *)
(* A path is the sequence of its components.  Positions in the array start *)
(* at 1.  The cache is a set of entries; which valid entry makes room for  *)
(* a new one (the least recently used) is left open, so what is shown here *)
(* holds for every replacement policy.                                     *)
(***************************************************************************)
EXTENDS Naturals, Sequences, FiniteSets, Functions

CONSTANTS
    Components,      \* names between two '/'
    Path,            \* bound: the paths that commands and files use
    Creates,         \* bound: [Clients -> the paths of the files a user creates]
    CreatesFolders,  \* bound: [Clients -> the paths of the folders a user creates]
    Clients,         \* connected users: one thread in run_client_loop each
    Reader,          \* the thread in run_ss_loop
    NoThread,        \* state_lock is free
    Nobody,          \* the owner in an entry that was cut short: no user's name
    SsFiles,         \* [filename, owner] pairs that SS_HAS_FILE may report
    CutEntries,      \* bound: [filename, owner] pairs that a line cut short may give
    NS_MAX_FILES,
    FILE_CACHE_SIZE

Threads == Clients \cup {Reader}
FileMetadata ==
    [filename : Path, owner : Clients \cup {Nobody}, is_directory : BOOLEAN]

ASSUME CatalogAssumption ==
    /\ Path \subseteq Seq(Components) \ {<<>>}
    /\ Reader \notin Clients /\ Nobody \notin Clients /\ NoThread \notin Threads
    /\ SsFiles \subseteq [filename : Path, owner : Clients]
    /\ CutEntries \subseteq [filename : Path, owner : Clients \cup {Nobody}]
    /\ Creates \in [Clients -> SUBSET Path]
    /\ CreatesFolders \in [Clients -> SUBSET Path]
    /\ NS_MAX_FILES \in Nat /\ FILE_CACHE_SIZE \in Nat

VARIABLES
    files,       \* ns->files[0 .. file_count - 1]
    file_index,  \* [some paths -> position]: the hash table
    file_cache,  \* the valid FileCacheEntry records
    state_lock,  \* the thread that keeps ns->state_lock over several steps
    pc,          \* [Threads -> what the thread is doing]
    arg,         \* [Threads -> path the command is about, Root when none]
    dest,        \* [Threads -> new path of that path, for MOVE]
    plan,        \* [Threads -> paths still to move or delete]
    db,          \* the whole entries in ns_metadata.db
    doubled      \* a restart has loaded two entries of one name

thread == <<pc, arg, dest, plan>>
vars == <<files, file_index, file_cache, state_lock, thread, db, doubled>>

Root == <<>>

-----------------------------------------------------------------------------
(* Lookups *)

Positions == 1..Len(files)
Names == {files[i].filename : i \in Positions}

\* file_cache_lookup: the positions of the valid entries for a name; entries
\* that point past the end are not used.
file_cache_lookup(n) ==
    {e.file_array_index : e \in {x \in file_cache :
        x.filename = n /\ x.file_array_index \in Positions}}

\* file_index_find followed by the test of its position.
file_index_find(n) ==
    {file_index[m] : m \in {x \in DOMAIN file_index :
        x = n /\ file_index[x] \in Positions}}

\* file_lookup_locked: the cache first, then the index.  The set is empty where
\* the code returns NULL.
file_lookup_locked(n) ==
    IF file_cache_lookup(n) # {} THEN file_cache_lookup(n) ELSE file_index_find(n)

\* What file_cache_store makes of a cache when it stores entries es one after
\* the other.
file_cache_store(cache, es) ==
    {c \in SUBSET (cache \cup es) : Cardinality(c) <= FILE_CACHE_SIZE}

\* The entries that lookups of the names in S store.
Found(S) ==
    {[filename |-> n, file_array_index |-> file_index[n]] :
        n \in {x \in S \cap DOMAIN file_index : file_index[x] \in Positions}}

-----------------------------------------------------------------------------
(* Changes *)

file_index_insert(ix, n, i) ==
    [m \in DOMAIN ix \cup {n} |-> IF m = n THEN i ELSE ix[m]]

file_index_remove_entry(ix, n) == [m \in DOMAIN ix \ {n} |-> ix[m]]

\* remove_file_metadata_locked: the last element takes the place of the one
\* removed, and its index node and its cache entries follow it.
removed_index(n) ==
    IF file_index[n] \in Positions THEN file_index[n] ELSE Len(files)

LastName == files[Len(files)].filename

files_without(n) ==
    SubSeq([files EXCEPT ![removed_index(n)] = files[Len(files)]], 1, Len(files) - 1)

\* Mutant: the index node of the element that moved is not updated.
index_without_Unmoved(n) == [m \in DOMAIN file_index \ {n} |-> file_index[m]]

index_without(n) ==
    [m \in DOMAIN file_index \ {n} |->
        IF removed_index(n) # Len(files) /\ m = LastName
        THEN removed_index(n) ELSE file_index[m]]

\* Mutant: only the entries of the removed name leave the cache.
cache_without_Unmoved(n) == {e \in file_cache : e.filename # n}

cache_without(n) ==
    LET followed(e) ==
            IF removed_index(n) # Len(files) /\ e.filename = LastName
            THEN [e EXCEPT !.file_array_index = removed_index(n)] ELSE e
    IN  {e \in {followed(x) : x \in {y \in file_cache : y.filename # n}} :
            e.file_array_index < Len(files)}

remove_file_metadata_locked(n) ==
    IF n \in DOMAIN file_index
    THEN /\ files' = IF files = <<>> THEN files ELSE files_without(n)
         /\ file_index' = index_without(n)
         /\ file_cache' = cache_without(n)
    ELSE UNCHANGED <<files, file_index, file_cache>>

\* file_cache_rename: the entries of the old name get the new one.
file_cache_rename(old, new, i) ==
    {IF e.filename = old THEN [filename |-> new, file_array_index |-> i] ELSE e :
        e \in file_cache}

Room == Len(files) < NS_MAX_FILES

\* Fill files[file_count], index it, count it and cache it.
AddEntry(m) ==
    /\ files' = Append(files, m)
    /\ file_index' = file_index_insert(file_index, m.filename, Len(files) + 1)
    /\ file_cache' \in file_cache_store(file_cache,
            {[filename |-> m.filename, file_array_index |-> Len(files) + 1]})

Goto(t, label) == pc' = [pc EXCEPT ![t] = label]

-----------------------------------------------------------------------------

Init ==
    /\ files = <<>> /\ file_index = [n \in {} |-> 0] /\ file_cache = {}
    /\ state_lock = NoThread
    /\ pc = [t \in Threads |-> "idle"]
    /\ arg = [t \in Threads |-> Root] /\ dest = [t \in Threads |-> Root]
    /\ plan = [t \in Threads |-> {}]
    /\ db = <<>> /\ doubled = FALSE

\* A command or message that only looks a file up (REQ_LOC, WRITE_COMPLETE, or
\* a command that is refused).  The first two save the metadata if they find it.
Lookup(t, n) ==
    /\ pc[t] = "idle" /\ state_lock = NoThread
    /\ file_cache' \in file_cache_store(file_cache, Found({n}))
    /\ \/ Goto(t, "idle")
       \/ file_lookup_locked(n) # {} /\ Goto(t, "save")
    /\ UNCHANGED <<files, file_index, state_lock, arg, dest, plan, db>>

\* CREATE records the file before it asks the storage server for it.
CreateBegin(c, n) ==
    /\ pc[c] = "idle" /\ state_lock = NoThread
    /\ Room
    /\ file_lookup_locked(n) = {}
    /\ AddEntry([filename |-> n, owner |-> c, is_directory |-> FALSE])
    /\ Goto(c, "create")
    /\ arg' = [arg EXCEPT ![c] = n]
    /\ UNCHANGED <<state_lock, dest, plan, db>>

\* The storage server created the file.
CreateDone(c) ==
    /\ pc[c] = "create" /\ state_lock = NoThread
    /\ Goto(c, "save")
    /\ arg' = [arg EXCEPT ![c] = Root]
    /\ UNCHANGED <<files, file_index, file_cache, state_lock, dest, plan, db>>

\* It did not, or did not answer: remove what CREATE recorded.
CreateRollback(c) ==
    /\ pc[c] = "create" /\ state_lock = NoThread
    /\ remove_file_metadata_locked(arg[c])
    /\ Goto(c, "idle")
    /\ arg' = [arg EXCEPT ![c] = Root]
    /\ UNCHANGED <<state_lock, dest, plan, db>>

Parent(n) == SubSeq(n, 1, Len(n) - 1)

IsFolder(n) ==
    \E i \in file_lookup_locked(n) : files[i].is_directory

\* CREATEFOLDER: the parent, if there is one, must be a folder.
CreateFolder(c, n) ==
    /\ pc[c] = "idle" /\ state_lock = NoThread
    /\ Room
    /\ file_lookup_locked(n) = {}
    /\ Parent(n) # Root => IsFolder(Parent(n))
    /\ AddEntry([filename |-> n, owner |-> c, is_directory |-> TRUE])
    /\ Goto(c, "save")
    /\ UNCHANGED <<state_lock, arg, dest, plan, db>>

\* n is p or, when p is a folder, a path under p.
Under(p, n) == Len(p) <= Len(n) /\ SubSeq(n, 1, Len(p)) = p

\* Mutant: what a folder contains is left where it is.
Affected_Alone(p) == {p} \cap Names

Affected(p) ==
    {n \in Names : n = p \/ (IsFolder(p) /\ Under(p, n))}

\* Mutant: nobody asks who owns the entries.
OwnsAll_Unasked(c, S) == S \subseteq Names

OwnsAll(c, S) ==
    \A i \in Positions : files[i].filename \in S => files[i].owner = c

\* The path of n once src has become dst.
Moved(src, dst, n) == dst \o SubSeq(n, Len(src) + 1, Len(n))

\* No entry but the one that moves has its new path.
DestinationFree(src, dst) ==
    \A n \in Affected(src) :
        \A i \in file_lookup_locked(Moved(src, dst, n)) : files[i].filename = n

\* MOVE makes its plan and keeps state_lock.  A MOVE that is refused changes
\* nothing here but the cache (Lookup).
MoveBegin(c, src, folder) ==
    LET dst == Append(folder, src[Len(src)])
    IN  /\ pc[c] = "idle" /\ state_lock = NoThread
        /\ file_lookup_locked(src) # {}
        /\ folder # Root => IsFolder(folder)
        /\ dst # src
        /\ ~(IsFolder(src) /\ folder # Root /\ Under(src, folder))
        /\ OwnsAll(c, Affected(src))
        /\ \A n \in Affected(src) : Moved(src, dst, n) \in Path
        /\ DestinationFree(src, dst)
        /\ file_cache' \in file_cache_store(file_cache, Found({src, folder}))
        /\ state_lock' = c
        /\ Goto(c, "rename")
        /\ arg' = [arg EXCEPT ![c] = src] /\ dest' = [dest EXCEPT ![c] = dst]
        /\ plan' = [plan EXCEPT ![c] = Affected(src)]
        /\ UNCHANGED <<files, file_index, db>>

\* A storage server fails for a file of the plan: the command ends in an error.
GiveUp(c) ==
    /\ \E i \in Positions : files[i].filename \in plan[c] /\ ~files[i].is_directory
    /\ state_lock' = NoThread
    /\ Goto(c, "idle")
    /\ arg' = [arg EXCEPT ![c] = Root] /\ dest' = [dest EXCEPT ![c] = Root]
    /\ plan' = [plan EXCEPT ![c] = {}]

\* MOVE sends SS_RENAME for each file of the plan and waits for the answers,
\* still under state_lock.  When one fails, the ones before it are renamed back
\* and the catalogue stays as it is.
RenameAtStorage(c) ==
    /\ pc[c] = "rename"
    /\ \/ Goto(c, "move") /\ UNCHANGED <<state_lock, arg, dest, plan>>
       \/ GiveUp(c)
    /\ UNCHANGED <<files, file_index, file_cache, db>>

\* One entry of the plan gets its new path; the lookup of the old path caches
\* it before file_cache_rename.
MoveEntry(c, old) ==
    LET new == Moved(arg[c], dest[c], old)
    IN  /\ pc[c] = "move" /\ old \in plan[c]
        /\ plan' = [plan EXCEPT ![c] = @ \ {old}]
        /\ IF file_lookup_locked(old) = {}
           THEN UNCHANGED <<files, file_index, file_cache>>
           ELSE \E i \in file_lookup_locked(old) :
                  /\ file_index' = file_index_insert(
                        file_index_remove_entry(file_index, old), new, i)
                  /\ files' = [files EXCEPT ![i].filename = new]
                  /\ file_cache' \in file_cache_store(
                        file_cache_rename(old, new, i),
                        {[filename |-> new, file_array_index |-> i]})
        /\ UNCHANGED <<state_lock, pc, arg, dest, db>>

\* DELETE makes its plan and keeps state_lock.
DeleteBegin(c, n) ==
    /\ pc[c] = "idle" /\ state_lock = NoThread
    /\ file_lookup_locked(n) # {}
    /\ OwnsAll(c, Affected(n))
    /\ file_cache' \in file_cache_store(file_cache, Found({n}))
    /\ state_lock' = c
    /\ Goto(c, "erase")
    /\ plan' = [plan EXCEPT ![c] = Affected(n)]
    /\ UNCHANGED <<files, file_index, arg, dest, db>>

\* DELETE sends DELETE_FILE for each file of the plan and waits for the answers,
\* still under state_lock.  When one fails, the catalogue keeps every entry, the
\* ones whose file is gone included.
DeleteAtStorage(c) ==
    /\ pc[c] = "erase"
    /\ \/ Goto(c, "delete") /\ UNCHANGED <<state_lock, arg, dest, plan>>
       \/ GiveUp(c)
    /\ UNCHANGED <<files, file_index, file_cache, db>>

\* Remove one entry of the plan.  The longest path goes first: here, any path
\* with nothing left under it, since component lengths are abstract.
DeleteEntry(c, n) ==
    /\ pc[c] = "delete" /\ n \in plan[c]
    /\ \A m \in plan[c] : Under(n, m) => m = n
    /\ remove_file_metadata_locked(n)
    /\ plan' = [plan EXCEPT ![c] = @ \ {n}]
    /\ UNCHANGED <<state_lock, pc, arg, dest, db>>

\* Mutant: DELETE and MOVE end without saving the metadata.
EndPlan_Unsaved(c) ==
    /\ pc[c] \in {"move", "delete"} /\ plan[c] = {}
    /\ state_lock' = NoThread
    /\ Goto(c, "idle")
    /\ arg' = [arg EXCEPT ![c] = Root] /\ dest' = [dest EXCEPT ![c] = Root]
    /\ UNCHANGED <<files, file_index, file_cache, plan, db>>

\* The plan is carried out: release state_lock.
EndPlan(c) ==
    /\ pc[c] \in {"move", "delete"} /\ plan[c] = {}
    /\ state_lock' = NoThread
    /\ Goto(c, "save")
    /\ arg' = [arg EXCEPT ![c] = Root] /\ dest' = [dest EXCEPT ![c] = Root]
    /\ UNCHANGED <<files, file_index, file_cache, plan, db>>

\* SS_HAS_FILE: a storage server reports a file when it registers.
HasFile(f) ==
    /\ pc[Reader] = "idle" /\ state_lock = NoThread
    /\ \/ \E i \in file_index_find(f.filename) :
             /\ files' = [files EXCEPT ![i].owner = f.owner]
             /\ file_cache' \in file_cache_store(file_cache, Found({f.filename}))
             /\ UNCHANGED file_index
       \/ /\ file_index_find(f.filename) = {}
          /\ Room
          /\ AddEntry([filename |-> f.filename, owner |-> f.owner,
                       is_directory |-> FALSE])
    /\ UNCHANGED <<state_lock, thread, db>>

\* ns_save_metadata locks state_lock itself and empties the metadata file ...
ns_save_metadata(t) ==
    /\ pc[t] = "save" /\ state_lock = NoThread
    /\ db' = <<>>
    /\ state_lock' = t
    /\ Goto(t, "saving")
    /\ UNCHANGED <<files, file_index, file_cache, arg, dest, plan>>

\* ... writes the entries in order, a buffer at a time ...
SaveEntries(t) ==
    /\ pc[t] = "saving"
    /\ \E k \in Len(db) + 1 .. Len(files) : db' = SubSeq(files, 1, k)
    /\ UNCHANGED <<files, file_index, file_cache, state_lock, thread>>

\* ... and closes it.
SaveEnd(t) ==
    /\ pc[t] = "saving" /\ Len(db) = Len(files)
    /\ state_lock' = NoThread
    /\ Goto(t, "idle")
    /\ UNCHANGED <<files, file_index, file_cache, arg, dest, plan, db>>

SaveUnderWay == state_lock # NoThread /\ pc[state_lock] = "saving"

\* What is loaded: the entries in the file and, when it ends within a line, the
\* entry that line then gives: its name or its owner is cut short, or the mark of
\* a folder is missing.
Loadable ==
    {db} \cup
        {Append(db, [filename |-> e.filename, owner |-> e.owner, is_directory |-> FALSE]) :
            e \in {x \in CutEntries : SaveUnderWay /\ Len(db) < Len(files)}}

\* The name server stops at any point and starts again: ns_load_metadata reads
\* the metadata file and indexes its entries in order.  It does not notice that a
\* name cut short is that of an entry before it; the model ends there.
ns_load_metadata ==
    \E loaded \in Loadable :
        IF \A i, j \in 1..Len(loaded) : loaded[i].filename = loaded[j].filename => i = j
        THEN /\ files' = loaded /\ db' = loaded
             /\ file_index' =
                   [n \in {loaded[i].filename : i \in 1..Len(loaded)} |->
                       CHOOSE i \in 1..Len(loaded) : loaded[i].filename = n]
             /\ file_cache' = {}
             /\ state_lock' = NoThread
             /\ pc' = [t \in Threads |-> "idle"]
             /\ arg' = [t \in Threads |-> Root] /\ dest' = [t \in Threads |-> Root]
             /\ plan' = [t \in Threads |-> {}]
             /\ UNCHANGED doubled
        ELSE /\ doubled' = TRUE
             /\ UNCHANGED <<files, file_index, file_cache, state_lock, thread, db>>

ClientStep(c) ==
    \/ \E n \in Creates[c] : CreateBegin(c, n)
    \/ \E n \in CreatesFolders[c] : CreateFolder(c, n)
    \/ \E n \in Path : DeleteBegin(c, n)
    \/ \E n \in Path, folder \in Path \cup {Root} : MoveBegin(c, n, folder)
    \/ CreateDone(c) \/ CreateRollback(c)
    \/ \E n \in plan[c] : MoveEntry(c, n) \/ DeleteEntry(c, n)
    \/ RenameAtStorage(c) \/ DeleteAtStorage(c) \/ EndPlan(c)

Command ==
    \/ \E c \in Clients : ClientStep(c)
    \/ \E t \in Threads, n \in Path : Lookup(t, n)
    \/ \E f \in SsFiles : HasFile(f)
    \/ \E t \in Threads : ns_save_metadata(t) \/ SaveEntries(t) \/ SaveEnd(t)

Next ==
    \/ ~doubled /\ Command /\ UNCHANGED doubled
    \/ ~doubled /\ ns_load_metadata
    \/ doubled /\ UNCHANGED vars

Spec == Init /\ [][Next]_vars

-----------------------------------------------------------------------------
(* Properties *)

\* The type of every variable of the catalogue.
TypeOK ==
    /\ files \in Seq(FileMetadata) /\ db \in Seq(FileMetadata)
    /\ Len(files) <= NS_MAX_FILES
    /\ DOMAIN file_index \subseteq Path
    /\ \A n \in DOMAIN file_index : file_index[n] \in Nat \ {0}
    /\ file_cache \subseteq [filename : Path, file_array_index : Nat \ {0}]
    /\ state_lock \in Threads \cup {NoThread} /\ doubled \in BOOLEAN
    /\ pc \in [Threads ->
           {"idle", "create", "rename", "move", "erase", "delete", "save", "saving"}]
    /\ arg \in [Threads -> Path \cup {Root}]
    /\ dest \in [Threads -> Path \cup {Root}]
    /\ plan \in [Threads -> SUBSET Path]

\* The hash index is the inverse of the files array: every entry is found under
\* its own name at its own position, no name occurs twice and no node is left
\* over, although CREATE rolls back, DELETE fills holes with the last entry, MOVE
\* renames entries in place and restarts load what a save had written.  (Nothing is
\* said of a name server that has loaded one name twice.)
IndexExact ==
    /\ DOMAIN file_index = Names
    /\ \A i \in Positions : file_index[files[i].filename] = i

\* A cache hit is right: the cache never sends a lookup to another file's entry
\* after a removal moved the last entry or a MOVE renamed one.
CacheCoherent ==
    \A e \in file_cache :
        e.file_array_index \in Positions /\
            files[e.file_array_index].filename = e.filename

\* While CREATE waits for the storage server nobody else removes, renames or
\* takes over the entry it recorded, so its rollback removes its own entry and
\* nothing else, unless a storage server that registers reports the same name.
RollbackRemovesOwn ==
    \A c \in Clients :
        pc[c] = "create" /\ arg[c] \notin {f.filename : f \in SsFiles} =>
            \E i \in file_lookup_locked(arg[c]) :
                files[i].filename = arg[c] /\ files[i].owner = c

\* DELETE and MOVE find every entry of their plan when its turn comes, and the
\* new path of an entry is free when MOVE renames it.
PlanHolds ==
    \A c \in Clients :
        /\ plan[c] \subseteq Names
        /\ pc[c] \in {"rename", "move"} =>
              \A n \in plan[c] : Moved(arg[c], dest[c], n) \notin Names

\* ns_save_metadata is "called after every mutation": when no command is being
\* carried out, every entry of the catalogue is in the metadata file as it is, the
\* ones that MOVE renamed included, except what storage servers report and will
\* report again, so a restart then loses nothing.  A restart during a save does.
\* (The file may hold more: the rollback of CREATE is not saved.  The access lists,
\* which APPROVEACCESS changes without a save, are not part of an entry here.)
SavedEntriesSurvive ==
    (\A t \in Threads : pc[t] = "idle") =>
        \A i \in Positions :
            files[i].filename \in {f.filename : f \in SsFiles}
                \/ \E j \in DOMAIN db : db[j] = files[i]

-----------------------------------------------------------------------------
(* The catalogue implements Namespace.  A thread that takes state_lock sees  *)
(* the entries of the array, except that MOVE and DELETE count as done from  *)
(* the moment the storage servers have done their part: the entries still in *)
(* the plan are shown where they are going.                                  *)

\* The holder of state_lock has this entry still to move, or to delete.
ToDo(label, n) ==
    state_lock # NoThread /\ pc[state_lock] = label /\ n \in plan[state_lock]

NewPath(n) ==
    IF ToDo("move", n) THEN Moved(arg[state_lock], dest[state_lock], n) ELSE n

VisibleEntries ==
    LET seen == {m \in Range(files) : ~ToDo("delete", m.filename)}
    IN  [n \in {NewPath(m.filename) : m \in seen} |->
            LET m == CHOOSE x \in seen : NewPath(x.filename) = n
            IN  [owner |-> m.owner, is_directory |-> m.is_directory]]

\* Nothing counts as saved while the metadata file is being written.
Kept == IF SaveUnderWay THEN {} ELSE Range(db)

SavedEntries ==
    [n \in {m.filename : m \in Kept} |->
        LET m == CHOOSE x \in Kept : x.filename = n
        IN  [owner |-> m.owner, is_directory |-> m.is_directory]]

CreatesUnderWay == {<<c, arg[c]>> : c \in {x \in Clients : pc[x] = "create"}}

N == INSTANCE Namespace WITH
        Users <- Clients, entries <- VisibleEntries, saved <- SavedEntries,
        saving <- SaveUnderWay, creating <- CreatesUnderWay

\* Array, index, cache and plans together behave like one map: CREATE, MOVE and
\* DELETE of a whole folder take effect at one instant, on exactly the entries
\* their owner asked for, a MOVE or DELETE that a storage server refuses has no
\* effect at all, nothing is removed that its owner did not delete except by the
\* CREATE that made it, and a restart returns to what was saved last, or, during a
\* save, to some of the entries and at most one that is none of them.
ImplementsNamespace == N!Spec

=============================================================================
