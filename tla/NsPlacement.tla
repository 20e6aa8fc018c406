---------------------------- MODULE NsPlacement ----------------------------
(***************************************************************************)
(* The name server's table of storage servers and what it believes of      *)
(* them: which are connected, which files each one has, how large they are *)
(* and the load counters that CREATE uses to choose a server.  Servers     *)
(* register and report their files, die and come back, commit writes and   *)
(* send WRITE_COMPLETE; CREATE and DELETE change files at the servers.     *)
(*                                                                         *)
(* A request and its answer are matched as NsSsChannel describes: the      *)
(* reader of a connection hands the first message it reads to the handler  *)
(* that waits, whatever it is.  The races inside that channel are left to  *)
(* NsSsChannel; here a handler gets the message that was meant for its     *)
(* wait.  A message that is not handed over is read when it can be         *)
(* processed.                                                              *)
(***************************************************************************)
EXTENDS Naturals, Sequences, FiniteSets, FiniteSetsExt, SequencesExt

CONSTANTS
    Addresses,               \* client_ip:client_port of the storage servers
    Names,                   \* files
    Folders,                 \* sets of names that one DELETE removes
    Stocks,                  \* what the storage directories may hold at first:
                             \* functions from Addresses to [some names -> size]
    Handlers,                \* threads in run_client_loop
    NoHandler,
    NoMsg,
    MaxSize,                 \* bounds: size of a file; commits, undos and reverts;
    MaxCommits,              \* CREATEs and DELETEs begun
    MaxCommands,
    NS_MAX_STORAGE_SERVERS   \* also bounds the registrations: see Room

\* What a storage server sends, and FAILED for a wait that its end cuts short.
Messages ==
    [do : {"FAILED", "SS_FILES_DONE"}]
        \cup [do : {"OK_CREATE", "OK_DELETE", "ERROR"}, name : Names]
        \cup [do : {"SS_HAS_FILE", "WRITE_COMPLETE"}, name : Names, size : 0..MaxSize]

ASSUME PlacementAssumption ==
    /\ NoHandler \notin Handlers /\ NoMsg \notin Messages
    /\ Folders \subseteq SUBSET Names
    /\ MaxSize \in Nat /\ MaxCommits \in Nat /\ MaxCommands \in Nat
    /\ NS_MAX_STORAGE_SERVERS \in Nat

\* A directory holds finitely many files.
ASSUME StocksAssumption ==
    \A d \in Stocks :
        /\ DOMAIN d = Addresses
        /\ \A a \in Addresses : /\ DOMAIN d[a] \subseteq Names
                                 /\ IsFiniteSet(DOMAIN d[a])
                                 /\ \A n \in DOMAIN d[a] : d[a][n] \in 0..MaxSize

VARIABLES
    storage_servers,       \* sequence of the entries
    ss_round_robin_index,
    files,                 \* [some names -> where the file is and its size]
    state_lock,            \* handler that keeps it while it waits
    pc, arg, target, plan, left, result,  \* handlers: step, name, entry, names to
                           \* delete, those still to do, message received
    reader,                \* [Addresses -> loop its connection thread is in]
    awaiting,              \* [Addresses -> handler that awaits a message]
    toSS, toNS,            \* the two directions of each connection
    up,                    \* [Addresses -> the process runs]
    disk,                  \* [Addresses -> [some names -> size]]
    unsent,                \* [Addresses -> commits not yet told to the name server]
    untold,                \* [Addresses -> names whose file an UNDO or a REVERT
                           \* changed after the last commit]
    commits, commands,     \* numbers of changes and of commands so far
    doubt,                 \* history: names about which the two may disagree
    raced,                 \* history: names whose size may be old
    disturbed              \* history: servers whose counters may be off

handler == <<commands, pc, arg, target, plan, left, result>>
server == <<up, disk, unsent, untold, commits>>
wire == <<reader, awaiting, toSS, toNS>>
history == <<doubt, raced, disturbed>>
vars == <<storage_servers, ss_round_robin_index, files, state_lock, handler, wire,
          server, history>>

Entries == DOMAIN storage_servers
With(f, x, v) == [y \in DOMAIN f \cup {x} |-> IF y = x THEN v ELSE f[y]]
Without(f, S) == [y \in DOMAIN f \ S |-> f[y]]

\* The entry that a server's connection thread works on: its latest one.
EntryOf(a) == Max({i \in Entries : storage_servers[i].addr = a})
Alive(a) == \E i \in Entries : storage_servers[i].addr = a /\ storage_servers[i].is_alive

Init ==
    /\ storage_servers = <<>> /\ ss_round_robin_index = 0
    /\ files = [n \in {} |-> 0] /\ state_lock = NoHandler
    /\ pc = [h \in Handlers |-> "idle"] /\ arg = [h \in Handlers |-> NoMsg]
    /\ target = [h \in Handlers |-> 0]
    /\ plan = [h \in Handlers |-> {}] /\ left = [h \in Handlers |-> {}]
    /\ result = [h \in Handlers |-> NoMsg]
    /\ reader = [a \in Addresses |-> "none"]
    /\ awaiting = [a \in Addresses |-> NoHandler]
    /\ toSS = [a \in Addresses |-> <<>>] /\ toNS = [a \in Addresses |-> <<>>]
    /\ up = [a \in Addresses |-> FALSE]
    /\ disk \in Stocks
    /\ unsent = [a \in Addresses |-> {}] /\ untold = [a \in Addresses |-> {}]
    /\ commits = 0 /\ commands = 0
    /\ doubt = {} /\ raced = {} /\ disturbed = {}

-----------------------------------------------------------------------------
(* Load and choice of a server *)

Located(a) == {n \in DOMAIN files : files[n].ss = a}

\* ns_recalculate_server_load_locked
Bytes(a) == FoldSet(LAMBDA n, sum : files[n].size + sum, 0, Located(a))

SetLoad(i, f, b) ==
    storage_servers' = [storage_servers EXCEPT ![i].total_files = f, ![i].total_bytes = b]

\* ns_select_storage_server_balanced: the entries that are alive with the fewest
\* bytes, then the fewest files, then the first from the round-robin index on.
Offset(i) ==
    (i - 1 + Len(storage_servers) - ss_round_robin_index) % Len(storage_servers)

Lighter(i, j) ==
    LET s == storage_servers[i]
        t == storage_servers[j]
    IN  \/ s.total_bytes < t.total_bytes
        \/ s.total_bytes = t.total_bytes /\ s.total_files < t.total_files
        \/ s.total_bytes = t.total_bytes /\ s.total_files = t.total_files
              /\ Offset(i) <= Offset(j)

Balanced ==
    {i \in Entries : storage_servers[i].is_alive /\
        \A j \in Entries : storage_servers[j].is_alive => Lighter(i, j)}

-----------------------------------------------------------------------------
(* Registration *)

Room == Len(storage_servers) < NS_MAX_STORAGE_SERVERS

\* Mutant: a server that is registered may register again.
CanRegister_Twice(a) == Room

\* ns_register_storage_server: entries of servers that went away are still there,
\* since the thread that ends looks for them by a sockfd that is -1 by then.
CanRegister(a) == Room /\ ~Alive(a)

\* Mutant: the list leaves out its first file.
ss_emit_file_list_SkipsFirst(a) ==
    LET listed == SetToSeq(DOMAIN disk[a])
    IN  [i \in 1..Len(listed) - 1 |-> [do |-> "SS_HAS_FILE", name |-> listed[i + 1],
                                       size |-> disk[a][listed[i + 1]]]]
        \o <<[do |-> "SS_FILES_DONE"]>>

ss_emit_file_list(a) ==
    LET listed == SetToSeq(DOMAIN disk[a])
    IN  [i \in DOMAIN listed |->
            [do |-> "SS_HAS_FILE", name |-> listed[i], size |-> disk[a][listed[i]]]]
        \o <<[do |-> "SS_FILES_DONE"]>>

\* A storage server process starts, loads its directory, says HELLO_SS and, once
\* registered, sends the list of its files.  One that is refused exits.
Hello(a) ==
    /\ ~up[a] /\ CanRegister(a) /\ state_lock = NoHandler
    /\ storage_servers' = Append(storage_servers,
          [addr |-> a, is_alive |-> TRUE, total_files |-> 0, total_bytes |-> 0])
    /\ up' = [up EXCEPT ![a] = TRUE]
    /\ reader' = [reader EXCEPT ![a] = "sync"]
    /\ toNS' = [toNS EXCEPT ![a] = ss_emit_file_list(a)]
    /\ toSS' = [toSS EXCEPT ![a] = <<>>]
    /\ untold' = [untold EXCEPT ![a] = {}]
    /\ disturbed' = disturbed \ {a}
    /\ UNCHANGED <<ss_round_robin_index, files, state_lock, handler, awaiting, disk,
                   unsent, commits, doubt, raced>>

\* The process dies.  What the name server has not read yet may be lost.
Crash(a) ==
    /\ up[a]
    /\ up' = [up EXCEPT ![a] = FALSE]
    /\ toSS' = [toSS EXCEPT ![a] = <<>>]
    /\ \E rest \in {toNS[a], <<>>} : toNS' = [toNS EXCEPT ![a] = rest]
    /\ unsent' = [unsent EXCEPT ![a] = {}]
    /\ UNCHANGED <<storage_servers, ss_round_robin_index, files, state_lock, handler,
                   reader, awaiting, disk, untold, commits, history>>

\* The end of the connection, in either loop: storage_server_signal_failure.
Disconnect(a) ==
    /\ reader[a] # "none" /\ ~up[a] /\ toNS[a] = <<>>
    /\ storage_servers' = [storage_servers EXCEPT ![EntryOf(a)].is_alive = FALSE]
    /\ reader' = [reader EXCEPT ![a] = "none"]
    /\ IF awaiting[a] = NoHandler
       THEN UNCHANGED <<result, awaiting>>
       ELSE /\ result' = [result EXCEPT ![awaiting[a]] = [do |-> "FAILED"]]
            /\ awaiting' = [awaiting EXCEPT ![a] = NoHandler]
    /\ UNCHANGED <<ss_round_robin_index, files, state_lock, commands, pc, arg, target,
                   plan, left, toSS, toNS, server, history>>

-----------------------------------------------------------------------------
(* run_ss_loop *)

Unread(a) == reader[a] # "none" /\ toNS[a] # <<>>

Read(a) == toNS' = [toNS EXCEPT ![a] = Tail(@)]

\* Somebody awaits an answer: the message is handed over, an SS_HAS_FILE, an
\* SS_FILES_DONE or a WRITE_COMPLETE as well.
HandOver(a) ==
    LET m == Head(toNS[a])
    IN  /\ Unread(a) /\ awaiting[a] # NoHandler
        /\ Read(a)
        /\ result' = [result EXCEPT ![awaiting[a]] = m]
        /\ awaiting' = [awaiting EXCEPT ![a] = NoHandler]
        /\ doubt' = IF m.do = "SS_HAS_FILE" THEN doubt \cup {m.name} ELSE doubt
        /\ raced' = IF m.do = "WRITE_COMPLETE" THEN raced \cup {m.name} ELSE raced
        /\ UNCHANGED <<storage_servers, ss_round_robin_index, files, state_lock, commands, pc,
                       arg, target, plan, left, reader, toSS, server, disturbed>>

\* Mutant: what is known of a file is kept.
reported_KnownKept(a, m) ==
    IF m.name \in DOMAIN files THEN files
    ELSE With(files, m.name, [ss |-> a, size |-> m.size])

\* The entry is added, or its location and size are overwritten.
reported(a, m) == With(files, m.name, [ss |-> a, size |-> m.size])

\* The location of a file is the server that reported it last.  A server that
\* loses a file this way keeps counting it.
HasFile(a) ==
    LET m == Head(toNS[a])
        moved == m.name \in DOMAIN files /\ files[m.name].ss # a
    IN  /\ Unread(a) /\ awaiting[a] = NoHandler /\ state_lock = NoHandler
        /\ reader[a] = "sync" /\ m.do = "SS_HAS_FILE"
        /\ Read(a)
        /\ files' = reported(a, m)
        /\ doubt' = IF moved THEN doubt \cup {m.name} ELSE doubt
        /\ disturbed' = IF moved THEN disturbed \cup {files[m.name].ss} ELSE disturbed
        /\ UNCHANGED <<storage_servers, ss_round_robin_index, state_lock, handler, reader,
                       awaiting, toSS, server, raced>>

\* A CREATE under way to a server, or to an earlier life of it.
Creating(a) ==
    \E h \in Handlers :
        pc[h] \in {"create", "created"} /\ storage_servers[target[h]].addr = a

\* The load is computed afresh.  A CREATE under way to this server is counted
\* now, and will be again when it succeeds.
FilesDone(a) ==
    /\ Unread(a) /\ awaiting[a] = NoHandler /\ state_lock = NoHandler
    /\ reader[a] = "sync" /\ Head(toNS[a]).do = "SS_FILES_DONE"
    /\ Read(a)
    /\ SetLoad(EntryOf(a), Cardinality(Located(a)), Bytes(a))
    /\ reader' = [reader EXCEPT ![a] = "main"]
    /\ disturbed' = IF Creating(a) THEN disturbed \cup {a} ELSE disturbed
    /\ UNCHANGED <<ss_round_robin_index, files, state_lock, handler, awaiting, toSS, server,
                   doubt, raced>>

\* Mutant: the load does not follow the size.
write_complete_NoLoad(a, m) ==
    /\ files' = [files EXCEPT ![m.name].size = m.size]
    /\ UNCHANGED storage_servers

write_complete(a, m) ==
    LET i == EntryOf(a)
        s == storage_servers[i]
        total == s.total_bytes + m.size
        old == files[m.name].size
    IN  /\ files' = [files EXCEPT ![m.name].size = m.size]
        /\ IF files[m.name].ss = a
           THEN SetLoad(i, s.total_files, IF total < old THEN 0 ELSE total - old)
           ELSE UNCHANGED storage_servers

WriteComplete(a) ==
    LET m == Head(toNS[a])
    IN  /\ Unread(a) /\ awaiting[a] = NoHandler /\ state_lock = NoHandler
        /\ reader[a] = "main" /\ m.do = "WRITE_COMPLETE"
        /\ Read(a)
        /\ IF m.name \in DOMAIN files
           THEN /\ write_complete(a, m)
                /\ disturbed' = IF files[m.name].ss = a THEN disturbed
                                ELSE disturbed \cup {files[m.name].ss}
           ELSE UNCHANGED <<files, storage_servers, disturbed>>
        /\ UNCHANGED <<ss_round_robin_index, state_lock, handler, reader, awaiting, toSS,
                       server, doubt, raced>>

\* Anything else is logged and dropped: a late answer, or what the other loop
\* would have understood.
Unhandled(a) ==
    LET m == Head(toNS[a])
    IN  /\ Unread(a) /\ awaiting[a] = NoHandler
        /\ m.do \notin (IF reader[a] = "sync" THEN {"SS_HAS_FILE", "SS_FILES_DONE"}
                        ELSE {"WRITE_COMPLETE"})
        /\ Read(a)
        /\ raced' = IF m.do = "WRITE_COMPLETE" THEN raced \cup {m.name} ELSE raced
        /\ UNCHANGED <<storage_servers, ss_round_robin_index, files, state_lock, handler,
                       reader, awaiting, toSS, server, doubt, disturbed>>

-----------------------------------------------------------------------------
(* CREATE and DELETE *)

\* CREATE chooses a server and records the file.
CreateBegin(h, n) ==
    /\ pc[h] = "idle" /\ state_lock = NoHandler
    /\ commands < MaxCommands /\ commands' = commands + 1
    /\ n \notin DOMAIN files
    /\ \E i \in Balanced :
          /\ target' = [target EXCEPT ![h] = i]
          /\ ss_round_robin_index' = i % Len(storage_servers)
          /\ files' = With(files, n, [ss |-> storage_servers[i].addr, size |-> 0])
    /\ pc' = [pc EXCEPT ![h] = "create"] /\ arg' = [arg EXCEPT ![h] = n]
    /\ UNCHANGED <<storage_servers, state_lock, plan, left, result, wire, server, history>>

\* DELETE makes its plan, for which every server must be alive, and keeps
\* state_lock to its end.  Nothing tells it of a CREATE of one of the files that
\* is under way.
DeleteBegin(h, S) ==
    /\ pc[h] = "idle" /\ state_lock = NoHandler
    /\ commands < MaxCommands /\ commands' = commands + 1
    /\ S # {} /\ S \subseteq DOMAIN files
    /\ \A n \in S : Alive(files[n].ss)
    /\ state_lock' = h
    /\ plan' = [plan EXCEPT ![h] = S] /\ left' = [left EXCEPT ![h] = S]
    /\ \E n \in S :
          /\ arg' = [arg EXCEPT ![h] = n]
          /\ target' = [target EXCEPT ![h] = EntryOf(files[n].ss)]
    /\ pc' = [pc EXCEPT ![h] = "delete"]
    /\ LET early == {n \in S : \E k \in Handlers :
                                 pc[k] \in {"create", "created"} /\ arg[k] = n}
       IN  /\ doubt' = doubt \cup early
           /\ disturbed' = disturbed \cup {files[n].ss : n \in early}
    /\ UNCHANGED <<storage_servers, ss_round_robin_index, files, result, wire, server,
                   raced>>

\* storage_server_send_and_wait up to the wait.
Send(h) ==
    LET a == storage_servers[target[h]].addr
        q == [do |-> IF pc[h] = "create" THEN "CREATE_FILE" ELSE "DELETE_FILE",
              name |-> arg[h]]
    IN  /\ pc[h] \in {"create", "delete"}
        /\ IF storage_servers[target[h]].is_alive
           THEN /\ awaiting[a] = NoHandler
                /\ awaiting' = [awaiting EXCEPT ![a] = h]
                /\ toSS' = IF up[a] THEN [toSS EXCEPT ![a] = Append(@, q)] ELSE toSS
                /\ UNCHANGED result
           ELSE /\ result' = [result EXCEPT ![h] = [do |-> "FAILED"]]
                /\ UNCHANGED <<awaiting, toSS>>
        /\ pc' = [pc EXCEPT ![h] = IF @ = "create" THEN "created" ELSE "deleted"]
        /\ UNCHANGED <<storage_servers, ss_round_robin_index, files, state_lock, commands, arg,
                       target, plan, left, reader, toNS, server, history>>

EndHandler(h) ==
    /\ pc' = [pc EXCEPT ![h] = "idle"] /\ arg' = [arg EXCEPT ![h] = NoMsg]
    /\ target' = [target EXCEPT ![h] = 0]
    /\ plan' = [plan EXCEPT ![h] = {}] /\ left' = [left EXCEPT ![h] = {}]
    /\ result' = [result EXCEPT ![h] = NoMsg]

\* CREATE succeeds when the message it got is an OK_CREATE, and otherwise takes
\* the entry back, whoever's it is by now.
CreateEnd(h) ==
    LET m == result[h]
        n == arg[h]
        t == storage_servers[target[h]]
    IN  /\ pc[h] = "created" /\ m # NoMsg /\ state_lock = NoHandler
        /\ IF m.do = "OK_CREATE"
           THEN /\ SetLoad(target[h], t.total_files + 1, t.total_bytes)
                /\ doubt' = IF m.name = n THEN doubt ELSE doubt \cup {n}
                /\ UNCHANGED <<files, disturbed>>
           ELSE /\ files' = Without(files, {n})
                /\ doubt' = doubt \cup {n}
                /\ disturbed' = IF n \in DOMAIN files
                                      /\ (files[n].ss # t.addr \/ files[n].size > 0)
                                THEN disturbed \cup {files[n].ss} ELSE disturbed
                /\ UNCHANGED storage_servers
        /\ EndHandler(h)
        /\ UNCHANGED <<ss_round_robin_index, state_lock, commands, wire, server, raced>>

\* One file of the plan is deleted: the next one.
DeleteNext(h) ==
    LET m == result[h]
        more == left[h] \ {arg[h]}
    IN  /\ pc[h] = "deleted" /\ m # NoMsg /\ m.do = "OK_DELETE"
        /\ doubt' = IF m.name = arg[h] THEN doubt ELSE doubt \cup {arg[h]}
        /\ left' = [left EXCEPT ![h] = more]
        /\ result' = [result EXCEPT ![h] = NoMsg]
        /\ IF more = {}
           THEN pc' = [pc EXCEPT ![h] = "remove"] /\ UNCHANGED <<arg, target>>
           ELSE /\ pc' = [pc EXCEPT ![h] = "delete"]
                /\ \E n \in more :
                      /\ arg' = [arg EXCEPT ![h] = n]
                      /\ target' = [target EXCEPT ![h] = EntryOf(files[n].ss)]
        /\ UNCHANGED <<storage_servers, ss_round_robin_index, files, state_lock, commands, plan,
                       wire, server, raced, disturbed>>

\* A storage server fails: the command ends, and the entries of the files that
\* are deleted already stay.
DeleteFails(h) ==
    /\ pc[h] = "deleted" /\ result[h] # NoMsg /\ result[h].do # "OK_DELETE"
    /\ state_lock' = NoHandler
    /\ doubt' = doubt \cup plan[h]
    /\ EndHandler(h)
    /\ UNCHANGED <<storage_servers, ss_round_robin_index, files, commands, wire, server,
                   raced, disturbed>>

Minus(x, y) == IF x < y THEN 0 ELSE x - y

\* Every file is deleted: the entries go, and the load with them.
DeleteEnd(h) ==
    LET gone(a) == {n \in plan[h] : files[n].ss = a}
        lighter(i) ==
            LET s == storage_servers[i]
            IN  IF i = EntryOf(s.addr)
                THEN [s EXCEPT
                        !.total_files = Minus(@, Cardinality(gone(s.addr))),
                        !.total_bytes = Minus(@, FoldSet(LAMBDA n, sum : files[n].size + sum,
                                                         0, gone(s.addr)))]
                ELSE s
    IN  /\ pc[h] = "remove"
        /\ storage_servers' = [i \in Entries |-> lighter(i)]
        /\ files' = Without(files, plan[h])
        /\ state_lock' = NoHandler
        /\ EndHandler(h)
        /\ UNCHANGED <<ss_round_robin_index, commands, wire, server, history>>

-----------------------------------------------------------------------------
(* The storage server *)

\* ns_control_loop carries out a command and answers it; DELETE_FILE is refused
\* while somebody writes the file.
Serve(a) ==
    LET q == Head(toSS[a])
        has == q.name \in DOMAIN disk[a]
        answer(d) == toNS' = [toNS EXCEPT ![a] = Append(@, [do |-> d, name |-> q.name])]
    IN  /\ up[a] /\ toSS[a] # <<>>
        /\ toSS' = [toSS EXCEPT ![a] = Tail(@)]
        /\ \/ /\ q.do = "CREATE_FILE" /\ ~has
              /\ disk' = [disk EXCEPT ![a] = With(@, q.name, 0)]
              /\ answer("OK_CREATE")
           \/ /\ q.do = "DELETE_FILE" /\ has
              /\ disk' = [disk EXCEPT ![a] = Without(@, {q.name})]
              /\ answer("OK_DELETE")
           \/ /\ q.do = "CREATE_FILE" => has
              /\ answer("ERROR")
              /\ UNCHANGED disk
        /\ untold' = [untold EXCEPT ![a] = @ \cap DOMAIN disk'[a]]
        /\ raced' = IF \E c \in unsent[a] : c.name = q.name
                    THEN raced \cup {q.name} ELSE raced
        /\ UNCHANGED <<storage_servers, ss_round_robin_index, files, state_lock, handler,
                       reader, awaiting, up, unsent, commits, doubt, disturbed>>

\* A client commits a write.
Commit(a, n, size) ==
    /\ up[a] /\ n \in DOMAIN disk[a] /\ commits < MaxCommits
    /\ commits' = commits + 1
    /\ disk' = [disk EXCEPT ![a][n] = size]
    /\ unsent' = [unsent EXCEPT ![a] = @ \cup {[name |-> n, size |-> size]}]
    /\ untold' = [untold EXCEPT ![a] = @ \ {n}]
    /\ raced' = IF \E c \in unsent[a] : c.name = n THEN raced \cup {n} ELSE raced
    /\ UNCHANGED <<storage_servers, ss_round_robin_index, files, state_lock, handler, wire, up,
                   doubt, disturbed>>

\* A client undoes or reverts a file.  Its size changes, and the name server is not
\* told.
Restore(a, n, size) ==
    /\ up[a] /\ n \in DOMAIN disk[a] /\ commits < MaxCommits
    /\ commits' = commits + 1
    /\ disk' = [disk EXCEPT ![a][n] = size]
    /\ untold' = [untold EXCEPT ![a] = @ \cup {n}]
    /\ UNCHANGED <<storage_servers, ss_round_robin_index, files, state_lock, handler, wire, up,
                   unsent, history>>

\* ss_sync_metadata_to_ns runs after file_lock was released: the size it sends
\* may be that of its own commit or of a later one.
Sync(a) ==
    \E c \in unsent[a] :
        LET now == IF c.name \in DOMAIN disk[a] THEN disk[a][c.name] ELSE 0
        IN  /\ \E size \in {c.size, now} :
                  toNS' = [toNS EXCEPT ![a] =
                      Append(@, [do |-> "WRITE_COMPLETE", name |-> c.name, size |-> size])]
            /\ unsent' = [unsent EXCEPT ![a] = @ \ {c}]
            /\ UNCHANGED <<storage_servers, ss_round_robin_index, files, state_lock, handler,
                           reader, awaiting, toSS, up, disk, untold, commits, history>>

HandlerStep(h) ==
    \/ \E n \in Names : CreateBegin(h, n)
    \/ \E S \in Folders : DeleteBegin(h, S)
    \/ Send(h) \/ CreateEnd(h) \/ DeleteNext(h) \/ DeleteFails(h) \/ DeleteEnd(h)

ReaderStep(a) ==
    \/ HandOver(a) \/ HasFile(a) \/ FilesDone(a) \/ WriteComplete(a) \/ Unhandled(a)
    \/ Disconnect(a)

ServerStep(a) ==
    \/ Hello(a) \/ Crash(a) \/ Serve(a) \/ Sync(a)
    \/ \E n \in Names, size \in 0..MaxSize : Commit(a, n, size) \/ Restore(a, n, size)

Next ==
    \/ \E h \in Handlers : HandlerStep(h)
    \/ \E a \in Addresses : ReaderStep(a) \/ ServerStep(a)

Spec == Init /\ [][Next]_vars

-----------------------------------------------------------------------------
(* Properties *)

\* The type of every variable of the placement.
TypeOK ==
    /\ storage_servers \in Seq([addr : Addresses, is_alive : BOOLEAN,
                                total_files : Nat, total_bytes : Nat])
    /\ Len(storage_servers) <= NS_MAX_STORAGE_SERVERS
    /\ ss_round_robin_index \in Nat
    /\ DOMAIN files \subseteq Names
    /\ \A n \in DOMAIN files : files[n] \in [ss : Addresses, size : 0..MaxSize]
    /\ state_lock \in Handlers \cup {NoHandler}
    /\ pc \in [Handlers -> {"idle", "create", "created", "delete", "deleted", "remove"}]
    /\ arg \in [Handlers -> Names \cup {NoMsg}]
    /\ target \in [Handlers -> 0..Len(storage_servers)]
    /\ plan \in [Handlers -> SUBSET Names] /\ left \in [Handlers -> SUBSET Names]
    /\ result \in [Handlers -> Messages \cup {NoMsg}]
    /\ reader \in [Addresses -> {"none", "sync", "main"}]
    /\ awaiting \in [Addresses -> Handlers \cup {NoHandler}]
    /\ up \in [Addresses -> BOOLEAN]
    /\ untold \in [Addresses -> SUBSET Names]
    /\ doubt \subseteq Names /\ raced \subseteq Names /\ disturbed \subseteq Addresses

\* A server has at most one entry that is alive, and while its process runs and
\* its connection is served it has one: what COPY, REQ_LOC and DELETE find by
\* the address of a file is the connection the server reads.
OneLiveEntry ==
    \A a \in Addresses :
        /\ Cardinality({i \in Entries :
               storage_servers[i].addr = a /\ storage_servers[i].is_alive}) <= 1
        /\ Alive(a) => storage_servers[EntryOf(a)].is_alive
        /\ Alive(a) <=> reader[a] # "none"

\* CREATE chooses by counters that are exact: for a server that has reported its
\* files, total_files and total_bytes are the files and bytes of its entries in
\* the catalogue, a CREATE under way not yet counted; through commits, DELETEs,
\* rollbacks and reports.  Excepted are servers that lost a file to another's
\* report, those that a CREATE was under way to when they had reported, and those
\* of a file that was deleted while its CREATE was under way.
LoadExact ==
    \A a \in Addresses :
        LET i == EntryOf(a)
            coming == {arg[h] : h \in {k \in Handlers : pc[k] \in {"create", "created"}
                                                        /\ target[k] = i}}
        IN  reader[a] = "main" /\ a \notin disturbed =>
                /\ storage_servers[i].total_files = Cardinality(Located(a) \ coming)
                /\ storage_servers[i].total_bytes = Bytes(a)

Settled(a) ==
    /\ up[a] /\ reader[a] = "main" /\ toNS[a] = <<>> /\ toSS[a] = <<>>
    /\ \A h \in Handlers : pc[h] = "idle"

\* The name server sends its users to the server that has the file: once nothing
\* is under way, the entries of a server that has reported are the files on its
\* disk.  The names that may differ are those of a command that ended in an error
\* after its request was sent (a DELETE that failed halfway leaves entries whose
\* files are gone), of a message taken for the answer of another, of a file that
\* two servers have, and of one deleted while its CREATE was under way.
CatalogMatchesDisk ==
    \A a \in Addresses : Settled(a) => (Located(a) \ doubt) = (DOMAIN disk[a] \ doubt)

\* Once every commit has been told, the size the catalogue has is the size of the
\* file, unless two commits of the file were on their way together, or the message
\* was taken for an answer or read before SS_FILES_DONE, or the file was undone or
\* reverted, of which nothing is told until its next commit or the next list.
SizeCurrent ==
    \A a \in Addresses : Settled(a) /\ unsent[a] = {} =>
        \A n \in Located(a) \ (doubt \cup raced \cup untold[a]) : files[n].size = disk[a][n]

\* "Maximum number of Storage Servers that can register simultaneously": a server
\* that is not connected can register while fewer are connected.
RegistersWhileRoom ==
    \A a \in Addresses :
        ~Alive(a) /\ Cardinality({b \in Addresses : Alive(b)}) < NS_MAX_STORAGE_SERVERS
            => CanRegister(a)

=============================================================================
