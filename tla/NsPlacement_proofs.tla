------------------------- MODULE NsPlacement_proofs -------------------------
(***************************************************************************)
(* Proofs about NsPlacement, in four parts that rest on one another:       *)
(*   - the table of storage servers and the connections agree;             *)
(*   - types, what a handler knows of its command, and the order of the    *)
(*     messages of a connection (BInv);                                    *)
(*   - about a name that nobody doubts: where its file is and which        *)
(*     requests and answers about it are under way (PInv), and how large   *)
(*     it is (SInv);                                                       *)
(*   - the load counters (LInv).  They are sums over sets (FoldSet): what  *)
(*     such a sum is follows by taking a least counterexample.             *)
(***************************************************************************)
EXTENDS NsPlacement, Integers, FiniteSetTheorems, WellFoundedInduction, TLAPS

\* The table is a sequence of entries with an address and a flag.
TableType ==
    /\ storage_servers \in Seq({storage_servers[i] : i \in Entries})
    /\ \A i \in Entries :
          /\ {"addr", "is_alive"} \subseteq DOMAIN storage_servers[i]
          /\ storage_servers[i].is_alive \in BOOLEAN
    /\ DOMAIN reader = Addresses

\* Entry i is an entry of a that is alive.
Live(a, i) ==
    /\ i \in Entries
    /\ storage_servers[i].addr = a /\ storage_servers[i].is_alive

\* An entry that is alive is the last one of its server, and its connection is
\* served.  A server whose connection is served has such an entry.
LiveIsLast ==
    \A a \in Addresses :
        /\ \A i \in Entries : Live(a, i) =>
              /\ \A j \in Entries : storage_servers[j].addr = a => j <= i
              /\ reader[a] # "none"
        /\ reader[a] # "none" => \E i \in Entries : Live(a, i)

IInv == TableType /\ LiveIsLast

\* The same table, but for the counters.
SameTable ==
    /\ DOMAIN storage_servers' = Entries
    /\ storage_servers' = [i \in Entries |-> storage_servers'[i]]
    /\ \A i \in Entries :
          /\ {"addr", "is_alive"} \subseteq DOMAIN storage_servers'[i]
          /\ storage_servers'[i].addr = storage_servers[i].addr
          /\ storage_servers'[i].is_alive = storage_servers[i].is_alive

\* Entries stay where they are, and new ones belong to a storage server.
AddrsKept ==
    /\ Entries \subseteq Entries'
    /\ \A i \in Entries' :
          IF i \in Entries THEN storage_servers'[i].addr = storage_servers[i].addr
          ELSE storage_servers'[i].addr \in Addresses

-----------------------------------------------------------------------------

\* The latest entry of a server that has one alive is that one.
LEMMA LiveIsEntryOf ==
    ASSUME IInv, NEW a \in Addresses, NEW i \in Entries, Live(a, i)
    PROVE  EntryOf(a) = i /\ \A j \in Entries : Live(a, j) => j = i
<1> DEFINE S == {j \in Entries : storage_servers[j].addr = a}
<1>1. Entries \subseteq Nat
  BY DEF IInv, TableType, Entries
<1>2. i \in S /\ \A j \in S : j <= i
  BY DEF IInv, LiveIsLast, Live
<1>3. S \subseteq Nat
  BY <1>1
<1> HIDE DEF S
<1>4. Max(S) = i
  <2>1. \E z \in S : \A y \in S : z >= y
    BY <1>2, <1>3
  <2>2. Max(S) \in S /\ \A y \in S : Max(S) >= y
    BY <2>1, Zenon DEF Max
  <2>3. Max(S) >= i /\ Max(S) <= i /\ i \in Nat /\ Max(S) \in Nat
    BY <1>2, <1>3, <2>2
  <2>4. \A x, y \in Nat : x >= y /\ x <= y => x = y
    OBVIOUS
  <2> QED BY <2>3, <2>4
<1>5. \A j \in Entries : Live(a, j) => j <= i /\ i <= j
  BY DEF IInv, LiveIsLast, Live
<1> QED BY <1>1, <1>4, <1>5 DEF EntryOf, S

\* New counters leave the rest of the table.
LEMMA SetLoadKeeps ==
    ASSUME IInv, NEW i, NEW f, NEW b, SetLoad(i, f, b)
    PROVE  SameTable
<1>1. /\ DOMAIN storage_servers' = Entries
      /\ storage_servers' = [j \in Entries |-> storage_servers'[j]]
  BY DEF SetLoad, Entries
<1>2. ASSUME NEW j \in Entries
      PROVE  /\ {"addr", "is_alive"} \subseteq DOMAIN storage_servers'[j]
             /\ storage_servers'[j].addr = storage_servers[j].addr
             /\ storage_servers'[j].is_alive = storage_servers[j].is_alive
  <2> DEFINE s == storage_servers[j]
             t == [s EXCEPT !.total_files = f]
             u == [t EXCEPT !.total_bytes = b]
  <2>1. storage_servers'[j] = IF j = i THEN u ELSE s
    BY DEF SetLoad, Entries
  <2>2. "addr" \in DOMAIN s /\ "is_alive" \in DOMAIN s
    BY DEF IInv, TableType
  <2>3. DOMAIN t = DOMAIN s /\ t.addr = s.addr /\ t.is_alive = s.is_alive
    BY <2>2
  <2> HIDE DEF t
  <2>4. DOMAIN u = DOMAIN t /\ u.addr = t.addr /\ u.is_alive = t.is_alive
    BY <2>2, <2>3
  <2> HIDE DEF u
  <2> QED BY <2>1, <2>2, <2>3, <2>4
<1> QED BY <1>1, <1>2 DEF SameTable

\* A step that changes neither an address nor a flag, nor whether a connection is
\* served.
LEMMA SameTableKeeps ==
    ASSUME IInv, SameTable, DOMAIN reader' = Addresses,
           \A a \in Addresses : reader'[a] = "none" <=> reader[a] = "none"
    PROVE  IInv'
<1>1. storage_servers \in Seq({storage_servers[i] : i \in Entries})
  BY DEF IInv, TableType
<1>2. Len(storage_servers) \in Nat /\ Entries = 1..Len(storage_servers)
  BY <1>1 DEF Entries
<1>3. Entries' = Entries
  BY DEF SameTable, Entries
<1>4. storage_servers' \in Seq({storage_servers'[i] : i \in Entries})
  BY <1>2 DEF SameTable
<1>5. \A i \in Entries : /\ {"addr", "is_alive"} \subseteq DOMAIN storage_servers'[i]
                         /\ storage_servers'[i].is_alive \in BOOLEAN
  BY DEF SameTable, IInv, TableType
<1>6. TableType'
  BY <1>3, <1>4, <1>5 DEF TableType
<1>7. LiveIsLast'
  BY <1>3 DEF SameTable, IInv, LiveIsLast, Live
<1> QED BY <1>6, <1>7 DEF IInv

LEMMA SameReader ==
    ASSUME IInv, storage_servers' = storage_servers, reader' = reader
    PROVE  IInv' /\ AddrsKept
BY DEF IInv, TableType, LiveIsLast, Live, Entries, AddrsKept

LEMMA SameTableAddrs == SameTable => AddrsKept
BY DEF SameTable, AddrsKept, Entries

\* A server that has no entry alive registers: the new entry is its last.
LEMMA HelloKeeps ==
    ASSUME IInv, NEW a \in Addresses, Hello(a)
    PROVE  IInv' /\ AddrsKept
<1> DEFINE e == [addr |-> a, is_alive |-> TRUE, total_files |-> 0, total_bytes |-> 0]
           T == {storage_servers[i] : i \in Entries}
<1>0. storage_servers \in Seq(T)
  BY DEF IInv, TableType
<1>1. PICK n \in Nat : n = Len(storage_servers) /\ Entries = 1..n
  BY <1>0 DEF Entries
<1>2. storage_servers' = Append(storage_servers, e)
  BY DEF Hello
<1>3. e.addr = a /\ e.is_alive = TRUE /\ {"addr", "is_alive"} \subseteq DOMAIN e
  OBVIOUS
<1> HIDE DEF e, T
<1>4. /\ storage_servers \in Seq(T \cup {e})
  BY <1>0
<1>5. /\ storage_servers' \in Seq(T \cup {e}) /\ Len(storage_servers') = n + 1
      /\ DOMAIN storage_servers' = 1..(n + 1)
      /\ storage_servers'[n + 1] = e
      /\ \A i \in 1..n : storage_servers'[i] = storage_servers[i]
  BY <1>1, <1>2, <1>4
<1>6. Entries' = 1..(n + 1) /\ Entries \subseteq Entries'
  BY <1>1, <1>5 DEF Entries
<1>7. storage_servers' \in Seq({storage_servers'[i] : i \in Entries'})
  BY <1>1, <1>5, <1>6
<1>8. \A i \in Entries' : i \in Entries \/ i = n + 1
  BY <1>1, <1>6
<1>9. /\ DOMAIN reader' = Addresses /\ reader'[a] = "sync"
      /\ \A b \in Addresses \ {a} : reader'[b] = reader[b]
  BY DEF Hello, IInv, TableType
<1>10. TableType'
  <2>1. ASSUME NEW i \in Entries'
        PROVE  /\ {"addr", "is_alive"} \subseteq DOMAIN storage_servers'[i]
               /\ storage_servers'[i].is_alive \in BOOLEAN
    <3>1. CASE i \in Entries
      BY <1>1, <1>5, <3>1 DEF TableType, IInv
    <3>2. CASE i = n + 1
      BY <1>3, <1>5, <3>2
    <3> QED BY <1>8, <3>1, <3>2
  <2> QED BY <1>7, <1>9, <2>1 DEF TableType
<1>11. \A i \in Entries : ~Live(a, i)
  BY DEF Hello, CanRegister, Alive, Live
<1>12. /\ \A i \in Entries, b \in Addresses : Live(b, i)' <=> Live(b, i)
       /\ Live(a, n + 1)' /\ \A b \in Addresses \ {a} : ~Live(b, n + 1)'
  BY <1>1, <1>3, <1>5, <1>6 DEF Live
<1>13. ASSUME NEW b \in Addresses, NEW i \in Entries', Live(b, i)',
              NEW j \in Entries', storage_servers'[j].addr = b
       PROVE  j <= i
  <2>1. CASE b = a
    <3>1. i = n + 1
      BY <1>8, <1>11, <1>12, <1>13, <2>1
    <3> QED BY <3>1, <1>1, <1>6
  <2>2. CASE b # a
    <3>1. i \in Entries /\ j \in Entries /\ Live(b, i)
      BY <1>3, <1>5, <1>8, <1>12, <1>13, <2>2
    <3>2. storage_servers[j].addr = b
      BY <3>1, <1>1, <1>5, <1>13
    <3> QED BY <3>1, <3>2 DEF IInv, LiveIsLast
  <2> QED BY <2>1, <2>2
<1>14. ASSUME NEW b \in Addresses, NEW i \in Entries', Live(b, i)'
       PROVE  reader'[b] # "none"
  BY <1>8, <1>9, <1>11, <1>12, <1>14 DEF IInv, LiveIsLast
<1>15. ASSUME NEW b \in Addresses, reader'[b] # "none"
       PROVE  \E i \in Entries' : Live(b, i)'
  <2>1. CASE b = a
    BY <1>1, <1>6, <1>12, <2>1
  <2>2. CASE b # a
    <3>1. PICK i \in Entries : Live(b, i)
      BY <1>9, <1>15, <2>2 DEF IInv, LiveIsLast
    <3> QED BY <3>1, <1>6, <1>12
  <2> QED BY <2>1, <2>2
<1>16. LiveIsLast'
  BY <1>13, <1>14, <1>15 DEF LiveIsLast
<1>17. AddrsKept
  BY <1>1, <1>3, <1>5, <1>6, <1>8 DEF AddrsKept
<1> QED BY <1>10, <1>16, <1>17 DEF IInv

\* The connection ends: the entry it was about is the one that is alive.
LEMMA DisconnectKeeps ==
    ASSUME IInv, NEW a \in Addresses, Disconnect(a)
    PROVE  IInv' /\ AddrsKept
<1> DEFINE k == EntryOf(a)
<1>1. PICK i \in Entries : Live(a, i)
  BY DEF Disconnect, IInv, LiveIsLast
<1>2. k = i /\ \A j \in Entries : Live(a, j) => j = i
  BY <1>1, LiveIsEntryOf
<1>3. storage_servers' = [storage_servers EXCEPT ![i].is_alive = FALSE]
  BY <1>2 DEF Disconnect
<1> DEFINE t == [storage_servers[i] EXCEPT !.is_alive = FALSE]
<1>4. /\ {"addr", "is_alive"} \subseteq DOMAIN t /\ t.addr = a /\ t.is_alive = FALSE
  BY <1>1 DEF IInv, TableType, Live
<1>5. storage_servers' = [storage_servers EXCEPT ![i] = t]
  BY <1>3
<1> HIDE DEF t
<1>6. /\ DOMAIN storage_servers' = Entries /\ Entries' = Entries
      /\ storage_servers' = [j \in Entries |-> storage_servers'[j]]
      /\ storage_servers'[i] = t
      /\ \A j \in Entries \ {i} : storage_servers'[j] = storage_servers[j]
  BY <1>5 DEF Entries
<1>7. Len(storage_servers) \in Nat /\ Entries = 1..Len(storage_servers)
  BY DEF IInv, TableType, Entries
<1>8. storage_servers' \in Seq({storage_servers'[j] : j \in Entries})
  BY <1>6, <1>7
<1>9. /\ DOMAIN reader' = Addresses /\ reader'[a] = "none"
      /\ \A b \in Addresses \ {a} : reader'[b] = reader[b]
  BY DEF Disconnect, IInv, TableType
<1>10. TableType'
  BY <1>4, <1>6, <1>8, <1>9 DEF TableType, IInv
<1>11. /\ \A j \in Entries : storage_servers'[j].addr = storage_servers[j].addr
       /\ \A j \in Entries : ~Live(a, j)'
       /\ \A b \in Addresses \ {a}, j \in Entries : Live(b, j)' <=> Live(b, j)
  BY <1>1, <1>2, <1>4, <1>6 DEF Live
<1>12. LiveIsLast'
  BY <1>6, <1>9, <1>11 DEF LiveIsLast, IInv
<1>13. AddrsKept
  BY <1>6, <1>11 DEF AddrsKept
<1> QED BY <1>10, <1>12, <1>13 DEF IInv

\* DELETE lightens the entries of the servers that lost a file.
LEMMA DeleteEndKeeps ==
    ASSUME IInv, NEW h \in Handlers, DeleteEnd(h)
    PROVE  IInv' /\ AddrsKept
<1> DEFINE gone(a) == {n \in plan[h] : files[n].ss = a}
           x(i) == Minus(storage_servers[i].total_files,
                         Cardinality(gone(storage_servers[i].addr)))
           y(i) == Minus(storage_servers[i].total_bytes,
                         FoldSet(LAMBDA n, sum : files[n].size + sum, 0,
                                 gone(storage_servers[i].addr)))
           lighter(i) ==
               IF i = EntryOf(storage_servers[i].addr)
               THEN [storage_servers[i] EXCEPT !.total_files = x(i), !.total_bytes = y(i)]
               ELSE storage_servers[i]
<1>1. storage_servers' = [i \in Entries |-> lighter(i)] /\ reader' = reader
  BY DEF DeleteEnd, wire
<1> HIDE DEF gone, x, y
<1>2. ASSUME NEW j \in Entries
      PROVE  /\ {"addr", "is_alive"} \subseteq DOMAIN lighter(j)
             /\ lighter(j).addr = storage_servers[j].addr
             /\ lighter(j).is_alive = storage_servers[j].is_alive
  <2> DEFINE s == storage_servers[j]
             t == [s EXCEPT !.total_files = x(j)]
             u == [t EXCEPT !.total_bytes = y(j)]
  <2>1. lighter(j) = u \/ lighter(j) = s
    OBVIOUS
  <2>2. "addr" \in DOMAIN s /\ "is_alive" \in DOMAIN s
    BY DEF IInv, TableType
  <2>3. DOMAIN t = DOMAIN s /\ t.addr = s.addr /\ t.is_alive = s.is_alive
    BY <2>2
  <2> HIDE DEF t
  <2>4. DOMAIN u = DOMAIN t /\ u.addr = t.addr /\ u.is_alive = t.is_alive
    BY <2>2, <2>3
  <2> HIDE DEF u, lighter
  <2> QED BY <2>1, <2>2, <2>3, <2>4
<1> HIDE DEF lighter
<1>3. SameTable
  BY <1>1, <1>2 DEF SameTable
<1> QED BY <1>1, <1>3, SameTableKeeps, SameTableAddrs DEF IInv, TableType

\* SS_FILES_DONE: the counters are computed, and the other loop entered.
LEMMA FilesDoneKeeps ==
    ASSUME IInv, NEW a \in Addresses, FilesDone(a)
    PROVE  IInv' /\ AddrsKept
<1>1. /\ DOMAIN reader' = Addresses
      /\ \A b \in Addresses : reader'[b] = "none" <=> reader[b] = "none"
  BY DEF FilesDone, IInv, TableType
<1>2. SetLoad(EntryOf(a), Cardinality(Located(a)), Bytes(a))
  BY DEF FilesDone
<1>3. SameTable
  BY <1>2, SetLoadKeeps
<1> QED BY <1>1, <1>3, SameTableKeeps, SameTableAddrs

\* WRITE_COMPLETE and OK_CREATE change counters, or nothing.
LEMMA CountersKeep ==
    ASSUME IInv, reader' = reader,
           \/ \E i, f, b : SetLoad(i, f, b)
           \/ storage_servers' = storage_servers
    PROVE  IInv' /\ AddrsKept
<1>1. CASE \E i, f, b : SetLoad(i, f, b)
  <2>1. SameTable
    BY <1>1, SetLoadKeeps
  <2> QED BY <2>1, SameTableKeeps, SameTableAddrs DEF IInv, TableType
<1> QED BY <1>1, SameReader

\* Nobody has registered at first.
LEMMA IInvInit == Init => IInv
BY DEF Init, IInv, TableType, LiveIsLast, Entries

\* Every step keeps the table in step with the connections.
LEMMA IInvStep == IInv /\ [Next]_vars => IInv' /\ AddrsKept
<1> SUFFICES ASSUME IInv, [Next]_vars PROVE IInv' /\ AddrsKept
  OBVIOUS
<1>1. ASSUME NEW h \in Handlers, HandlerStep(h) PROVE IInv' /\ AddrsKept
  <2>1. CASE \E n \in Names : CreateBegin(h, n)
    BY <2>1, SameReader DEF CreateBegin, wire
  <2>2. CASE \E S \in Folders : DeleteBegin(h, S)
    BY <2>2, SameReader DEF DeleteBegin, wire
  <2>3. CASE Send(h)
    BY <2>3, SameReader DEF Send
  <2>4. CASE CreateEnd(h)
    BY <2>4, CountersKeep DEF CreateEnd, wire
  <2>5. CASE DeleteNext(h)
    BY <2>5, SameReader DEF DeleteNext, wire
  <2>6. CASE DeleteFails(h)
    BY <2>6, SameReader DEF DeleteFails, wire
  <2> QED BY <1>1, <2>1, <2>2, <2>3, <2>4, <2>5, <2>6, DeleteEndKeeps DEF HandlerStep
<1>2. ASSUME NEW a \in Addresses, ReaderStep(a) PROVE IInv' /\ AddrsKept
  <2>1. CASE HandOver(a)
    BY <2>1, SameReader DEF HandOver
  <2>2. CASE HasFile(a)
    BY <2>2, SameReader DEF HasFile
  <2>3. CASE WriteComplete(a)
    BY <2>3, CountersKeep DEF WriteComplete, write_complete
  <2>4. CASE Unhandled(a)
    BY <2>4, SameReader DEF Unhandled
  <2> QED BY <1>2, <2>1, <2>2, <2>3, <2>4, FilesDoneKeeps, DisconnectKeeps DEF ReaderStep
<1>3. ASSUME NEW a \in Addresses, ServerStep(a) PROVE IInv' /\ AddrsKept
  <2>1. CASE Crash(a)
    BY <2>1, SameReader DEF Crash
  <2>2. CASE Serve(a)
    BY <2>2, SameReader DEF Serve
  <2>3. CASE Sync(a)
    BY <2>3, SameReader DEF Sync
  <2>4. CASE \E n \in Names, size \in 0..MaxSize : Commit(a, n, size) \/ Restore(a, n, size)
    BY <2>4, SameReader DEF Commit, Restore, wire
  <2> QED BY <1>3, <2>1, <2>2, <2>3, <2>4, HelloKeeps DEF ServerStep
<1>4. CASE UNCHANGED vars
  BY <1>4, SameReader DEF vars, wire
<1> QED BY <1>1, <1>2, <1>3, <1>4 DEF Next

\* The invariant says of the table what OneLiveEntry does.
LEMMA IInvSuffices == IInv => OneLiveEntry
<1> SUFFICES ASSUME IInv, NEW a \in Addresses
             PROVE  /\ Cardinality({i \in Entries : storage_servers[i].addr = a
                                                      /\ storage_servers[i].is_alive}) <= 1
                    /\ Alive(a) => storage_servers[EntryOf(a)].is_alive
                    /\ Alive(a) <=> reader[a] # "none"
  BY DEF OneLiveEntry
<1> DEFINE L == {i \in Entries : storage_servers[i].addr = a /\ storage_servers[i].is_alive}
<1>1. Alive(a) <=> \E i \in Entries : Live(a, i)
  BY DEF Alive, Live
<1>2. Alive(a) <=> reader[a] # "none"
  BY <1>1 DEF IInv, LiveIsLast
<1>3. CASE Alive(a)
  <2>1. PICK i \in Entries : Live(a, i)
    BY <1>1, <1>3
  <2>2. EntryOf(a) = i /\ L = {i}
    BY <2>1, LiveIsEntryOf DEF Live
  <2>3. Cardinality(L) = 1
    BY <2>2, FS_Singleton
  <2> QED BY <1>2, <2>1, <2>2, <2>3 DEF Live
<1>4. CASE ~Alive(a)
  <2>1. L = {}
    BY <1>4 DEF Alive
  <2>2. Cardinality(L) = 0
    BY <2>1, FS_EmptySet
  <2> QED BY <1>2, <1>4, <2>2
<1> QED BY <1>3, <1>4

\* For any number of storage servers that register, die and come back, and any
\* table size: a server has at most one entry that is alive, it is the latest one
\* (the one its connection thread works on), and there is one exactly while the
\* connection is served.
THEOREM AtMostOneLive == Spec => []OneLiveEntry
BY IInvInit, IInvStep, IInvSuffices, PTL DEF Spec

-----------------------------------------------------------------------------
(* Where the files are *)

Requests == [do : {"CREATE_FILE", "DELETE_FILE"}, name : Names]

\* The type of the variables that say where files are.
EntriesTyped == \A i \in Entries : storage_servers[i].addr \in Addresses

FilesTyped ==
    /\ DOMAIN files \subseteq Names
    /\ \A n \in DOMAIN files :
          /\ files[n] \in [ss : Addresses, size : 0..MaxSize]
          /\ \E i \in Entries : storage_servers[i].addr = files[n].ss

HandlersTyped ==
    /\ pc \in [Handlers -> {"idle", "create", "created", "delete", "deleted", "remove"}]
    /\ arg \in [Handlers -> Names \cup {NoMsg}]
    /\ DOMAIN target = Handlers
    /\ plan \in [Handlers -> SUBSET Names] /\ left \in [Handlers -> SUBSET Names]
    /\ result \in [Handlers -> Messages \cup {NoMsg}]

WireTyped ==
    /\ reader \in [Addresses -> {"none", "sync", "main"}]
    /\ awaiting \in [Addresses -> Handlers \cup {NoHandler}]
    /\ toSS \in [Addresses -> Seq(Requests)] /\ toNS \in [Addresses -> Seq(Messages)]

ServersTyped ==
    /\ up \in [Addresses -> BOOLEAN]
    /\ DOMAIN disk = Addresses
    /\ \A a \in Addresses :
          /\ DOMAIN disk[a] \subseteq Names /\ IsFiniteSet(DOMAIN disk[a])
          /\ \A n \in DOMAIN disk[a] : disk[a][n] \in 0..MaxSize
    /\ unsent \in [Addresses -> SUBSET [name : Names, size : 0..MaxSize]]
    /\ untold \in [Addresses -> SUBSET Names]

Types == EntriesTyped /\ FilesTyped /\ HandlersTyped /\ WireTyped /\ ServersTyped

AddrOf(h) == storage_servers[target[h]].addr
At(n, a) == n \in DOMAIN files /\ files[n].ss = a
Creates(h, n) == pc[h] \in {"create", "created"} /\ arg[h] = n
Waits(h) == pc[h] \in {"created", "deleted"} /\ result[h] = NoMsg

\* A handler that waits is known to the connection; one that deletes holds
\* state_lock and knows where its files are.
Role(h) ==
    /\ pc[h] \notin {"created", "deleted"} => result[h] = NoMsg
    /\ pc[h] \in {"create", "created", "delete", "deleted"} =>
          target[h] \in Entries /\ arg[h] \in Names
    /\ Waits(h) => awaiting[AddrOf(h)] = h
    /\ pc[h] \in {"delete", "deleted", "remove"} => state_lock = h
    /\ pc[h] \notin {"delete", "deleted", "remove"} => plan[h] = {}
    /\ left[h] \subseteq plan[h] /\ plan[h] \subseteq DOMAIN files
    /\ pc[h] \in {"delete", "deleted"} =>
          arg[h] \in left[h] /\ files[arg[h]].ss = AddrOf(h)
    /\ pc[h] = "remove" => left[h] = {}

\* A connection awaits a message for a handler that waits for it.
Awaited(a) == awaiting[a] # NoHandler => Waits(awaiting[a]) /\ AddrOf(awaiting[a]) = a

Roles == (\A h \in Handlers : Role(h)) /\ \A a \in Addresses : Awaited(a)

Says(a, i, d, n) ==
    i \in DOMAIN toNS[a] /\ toNS[a][i].do = d /\ toNS[a][i].name = n
Said(a, d, n) == \E i \in DOMAIN toNS[a] : Says(a, i, d, n)

\* A server that runs is read; its list of files comes first, and is read by the
\* first loop.
Link(a) ==
    /\ up[a] => reader[a] # "none"
    /\ unsent[a] # {} => up[a]
    /\ reader[a] = "none" => toNS[a] = <<>>
    /\ \A i \in DOMAIN toNS[a] : toNS[a][i].do = "SS_HAS_FILE" =>
          /\ reader[a] = "sync"
          /\ \A j \in DOMAIN toNS[a] : j <= i => toNS[a][j].do = "SS_HAS_FILE"

Links == \A a \in Addresses : Link(a)

\* The command of h will end in doubt about n: it got another message than the
\* answer.
Fails(h, n) ==
    /\ result[h] # NoMsg
    /\ \/ /\ pc[h] = "created" /\ n = arg[h]
          /\ result[h].do = "OK_CREATE" => result[h].name # n
       \/ /\ pc[h] = "deleted" /\ n = arg[h]
          /\ result[h].do = "OK_DELETE" => result[h].name # n
       \/ /\ pc[h] = "deleted" /\ n \in plan[h] /\ result[h].do # "OK_DELETE"

Trusted(n) == n \notin doubt /\ \A h \in Handlers : ~Fails(h, n)

\* The handler whose CREATE or DELETE of n awaits its answer from a.
AwaitsAbout(a, p, n) ==
    awaiting[a] # NoHandler /\ pc[awaiting[a]] = p /\ arg[awaiting[a]] = n

\* A CREATE under way is the only command about its file, and the file is recorded.
OneCreator(n) ==
    \A h \in Handlers : Creates(h, n) =>
        /\ At(n, AddrOf(h))
        /\ \A k \in Handlers : n \notin plan[k] /\ (Creates(k, n) => k = h)

\* What a DELETE has had deleted is gone.
Gone(n) ==
    \A h \in Handlers :
        n \in plan[h] /\ (n \notin left[h] \/ (n = arg[h] /\ pc[h] = "deleted" /\ ~Waits(h)))
            => n \notin DOMAIN disk[files[n].ss]

\* A recorded file is on the disk, or a command about it is under way.
Recorded(n) ==
    \A a \in Addresses : At(n, a) =>
        \/ n \in DOMAIN disk[a]
        \/ \E h \in Handlers : n \in plan[h] \/ (Creates(h, n) /\ result[h] = NoMsg)

\* A file on the disk of a is recorded, or will be reported.
Reported(a, n) ==
    /\ up[a] /\ n \in DOMAIN disk[a] => At(n, a) \/ Said(a, "SS_HAS_FILE", n)
    /\ Said(a, "SS_HAS_FILE", n) /\ n \notin DOMAIN disk[a] => Said(a, "OK_DELETE", n)

Asked(a, i, n) == i \in DOMAIN toSS[a] /\ toSS[a][i].name = n
Answered(a, i, n) == Says(a, i, "OK_CREATE", n) \/ Says(a, i, "OK_DELETE", n)

\* A request about n, or its answer, is the one that a handler awaits.
OneRequest(a, n) ==
    \A i \in DOMAIN toSS[a] : Asked(a, i, n) =>
        /\ toSS[a][i].do = "CREATE_FILE" => AwaitsAbout(a, "created", n)
        /\ toSS[a][i].do # "CREATE_FILE" => AwaitsAbout(a, "deleted", n)
        /\ \A j \in DOMAIN toSS[a] : Asked(a, j, n) => j = i
        /\ \A j \in DOMAIN toNS[a] : ~Answered(a, j, n)

OneAnswer(a, n) ==
    \A i \in DOMAIN toNS[a] : Answered(a, i, n) =>
        /\ toNS[a][i].do = "OK_CREATE" =>
              AwaitsAbout(a, "created", n) /\ n \in DOMAIN disk[a]
        /\ toNS[a][i].do = "OK_DELETE" =>
              AwaitsAbout(a, "deleted", n) /\ n \notin DOMAIN disk[a]
        /\ \A j \in DOMAIN toNS[a] : Answered(a, j, n) => j = i

Exchange(a, n) == Reported(a, n) /\ OneRequest(a, n) /\ OneAnswer(a, n)

Placed(n) ==
    /\ OneCreator(n) /\ Gone(n) /\ Recorded(n)
    /\ \A a \in Addresses : Exchange(a, n)

BInv == IInv /\ Types /\ Roles /\ Links

PInv ==
    /\ BInv
    /\ \A n \in Names : Trusted(n) => Placed(n)

\* Message i from a is the last one that says how large n is.
TellsSize(a, i, n) == Says(a, i, "SS_HAS_FILE", n) \/ Says(a, i, "WRITE_COMPLETE", n)
TellsLast(a, i, n) ==
    TellsSize(a, i, n) /\ \A j \in DOMAIN toNS[a] : TellsSize(a, j, n) => j <= i

\* A commit that was not told yet is the last one of its file.
UnsentCurrent(a, n) ==
    \A c \in unsent[a] :
        c.name = n => /\ up[a] /\ n \in DOMAIN disk[a]
                      /\ n \notin untold[a] => c.size = disk[a][n]

\* A WRITE_COMPLETE comes from the server that the file is recorded at, or will be
\* when the message is read, and before the answer to a DELETE.
FromHolder(a, n) ==
    \A i \in DOMAIN toNS[a] : Says(a, i, "WRITE_COMPLETE", n) =>
        /\ At(n, a) \/ Said(a, "SS_HAS_FILE", n)
        /\ n \in DOMAIN disk[a] \/ \E j \in DOMAIN toNS[a] : j > i /\ Says(a, j, "OK_DELETE", n)

\* The last size told is the size, and when nothing is told, what is recorded is.
LastSize(a, n) ==
    /\ up[a] /\ n \in DOMAIN disk[a] /\ n \notin untold[a]
    /\ \A c \in unsent[a] : c.name # n
    => /\ \A i \in DOMAIN toNS[a] : TellsLast(a, i, n) => toNS[a][i].size = disk[a][n]
       /\ At(n, a) /\ (\A i \in DOMAIN toNS[a] : ~TellsSize(a, i, n))
             => files[n].size = disk[a][n]

Told(a, n) == UnsentCurrent(a, n) /\ FromHolder(a, n) /\ LastSize(a, n)

\* A file that is not created yet is recorded as empty.
NewIsEmpty(n) ==
    \A h \in Handlers : Creates(h, n) /\ n \notin DOMAIN disk[AddrOf(h)] => files[n].size = 0

Sized(n) == NewIsEmpty(n) /\ \A a \in Addresses : Told(a, n)
SInv == PInv /\ \A n \in Names : Trusted(n) /\ n \notin raced => Sized(n)

-----------------------------------------------------------------------------
(* Types *)

\* A set of integers with an upper bound that is not empty has a greatest element.
LEMMA MaxExists ==
    ASSUME NEW S \in SUBSET Int, S # {}, NEW k \in Int, \A y \in S : k >= y
    PROVE  \E x \in S : \A y \in S : x >= y
<1> DEFINE T == {k - y : y \in S}
<1>0. \A y \in S : k - y \in Nat /\ k - y \in T
  OBVIOUS
<1>1. T \in SUBSET Nat /\ T # {}
  BY <1>0
<1>2. PICK z \in T : \A y \in T : ~(<<y, z>> \in OpToRel(<, Nat))
  BY <1>1, NatLessThanWellFounded, WFMin
<1>3. \A x, y \in Nat : <<y, x>> \in OpToRel(<, Nat) <=> y < x
  BY DEF OpToRel
<1>4. \A y \in T : ~(y < z)
  BY <1>1, <1>2, <1>3
<1>5. PICK x \in S : z = k - x
  BY <1>2
<1>6. ASSUME NEW y \in S PROVE x >= y
  <2>1. ~(k - y < k - x)
    BY <1>0, <1>4, <1>5
  <2> QED BY <2>1
<1> QED BY <1>6

\* SetToSeq lists every element of a finite set.
LEMMA SetToSeqLists ==
    ASSUME NEW S, IsFiniteSet(S)
    PROVE  \E k \in Nat : /\ SetToSeq(S) \in [1..k -> S]
                          /\ \A x \in S : \E i \in 1..k : SetToSeq(S)[i] = x
<1> DEFINE k == Cardinality(S)
<1>1. k \in Nat /\ Bijection(1..k, S) # {}
  BY FS_CardinalityType DEF ExistsBijection
<1>2. \E f \in [1..k -> S] : IsInjective(f)
  BY <1>1 DEF Bijection, Injection
<1>3. SetToSeq(S) \in [1..k -> S] /\ IsInjective(SetToSeq(S))
  BY <1>2, Zenon DEF SetToSeq
<1>4. SetToSeq(S) \in Injection(1..k, S)
  BY <1>3, Zenon DEF Injection
<1> DEFINE f == SetToSeq(S)
<1> HIDE DEF f, k
<1>5. Cardinality(1..k) = k
  BY <1>1, FS_Interval
<1>6. f \in Surjection(1..k, S)
  BY <1>4, <1>5, FS_Injection DEF f, k
<1> QED BY <1>1, <1>3, <1>6, Zenon DEF Surjection, f, k

\* What a server that registers sends: its files, all of them, and the end.
LEMMA FileList ==
    ASSUME ServersTyped, NEW a \in Addresses
    PROVE  LET list == ss_emit_file_list(a)
           IN  \E k \in Nat :
                  /\ list \in Seq(Messages) /\ Len(list) = k + 1
                  /\ list[k + 1].do = "SS_FILES_DONE"
                  /\ \A i \in 1..k : /\ list[i].do = "SS_HAS_FILE"
                                     /\ list[i].name \in DOMAIN disk[a]
                                     /\ list[i].size = disk[a][list[i].name]
                  /\ \A n \in DOMAIN disk[a] : \E i \in 1..k : list[i].name = n
<1> DEFINE listed == SetToSeq(DOMAIN disk[a])
           has(i) == [do |-> "SS_HAS_FILE", name |-> listed[i], size |-> disk[a][listed[i]]]
           done == [do |-> "SS_FILES_DONE"]
           part == [i \in DOMAIN listed |-> has(i)]
           list == part \o <<done>>
<1>1. /\ DOMAIN disk[a] \subseteq Names /\ IsFiniteSet(DOMAIN disk[a])
      /\ \A n \in DOMAIN disk[a] : disk[a][n] \in 0..MaxSize
  BY DEF ServersTyped
<1>2. PICK k \in Nat : /\ listed \in [1..k -> DOMAIN disk[a]]
                       /\ \A n \in DOMAIN disk[a] : \E i \in 1..k : listed[i] = n
  BY <1>1, SetToSeqLists
<1>3. list = ss_emit_file_list(a)
  BY DEF ss_emit_file_list
<1> HIDE DEF listed
<1>4. done \in Messages /\ done.do = "SS_FILES_DONE"
  BY DEF Messages
<1>5. \A i \in 1..k : /\ has(i) \in Messages /\ has(i).do = "SS_HAS_FILE"
                      /\ has(i).name = listed[i] /\ listed[i] \in DOMAIN disk[a]
                      /\ has(i).size = disk[a][listed[i]]
  BY <1>1, <1>2 DEF Messages
<1> HIDE DEF has, done
<1>6. part \in Seq(Messages) /\ Len(part) = k /\ \A i \in 1..k : part[i] = has(i)
  BY <1>2, <1>5
<1> HIDE DEF part
<1>7. /\ list \in Seq(Messages) /\ Len(list) = k + 1
      /\ list[k + 1] = done /\ \A i \in 1..k : list[i] = has(i)
  BY <1>4, <1>6
<1> HIDE DEF list
<1>8. \A n \in DOMAIN disk[a] : \E i \in 1..k : list[i].name = n
  BY <1>2, <1>5, <1>7
<1> QED BY <1>3, <1>4, <1>5, <1>7, <1>8

LEMMA TypesInit == Init => Types
<1> SUFFICES ASSUME Init PROVE Types
  OBVIOUS
<1>1. EntriesTyped /\ FilesTyped /\ HandlersTyped /\ WireTyped
  BY DEF Init, EntriesTyped, FilesTyped, HandlersTyped, WireTyped, Entries
<1>2. ServersTyped
  BY StocksAssumption DEF Init, ServersTyped
<1> QED BY <1>1, <1>2 DEF Types

\* Parts that a step leaves alone, but for new entries.
LEMMA FilesTypedSame ==
    ASSUME FilesTyped, AddrsKept, files' = files
    PROVE  FilesTyped'
BY DEF FilesTyped, AddrsKept

LEMMA HandlersTypedSame ==
    ASSUME HandlersTyped, UNCHANGED <<pc, arg, target, plan, left, result>>
    PROVE  HandlersTyped'
BY DEF HandlersTyped

LEMMA WireTypedSame ==
    ASSUME WireTyped, UNCHANGED wire
    PROVE  WireTyped'
BY DEF WireTyped, wire

LEMMA ServersTypedSame ==
    ASSUME ServersTyped, UNCHANGED <<up, disk, unsent, untold>>
    PROVE  ServersTyped'
BY DEF ServersTyped

\* The table only grows.
LEMMA EntriesTypedStep ==
    ASSUME EntriesTyped, AddrsKept
    PROVE  EntriesTyped'
BY DEF EntriesTyped, AddrsKept

LEMMA EndHandlerTyped ==
    ASSUME HandlersTyped, NEW h \in Handlers, EndHandler(h)
    PROVE  HandlersTyped'
BY DEF HandlersTyped, EndHandler

\* A message read is one.
LEMMA ReadTyped ==
    ASSUME WireTyped, NEW a \in Addresses, Unread(a)
    PROVE  /\ toNS[a] \in Seq(Messages) /\ Len(toNS[a]) \in Nat \ {0}
           /\ Head(toNS[a]) = toNS[a][1] /\ Head(toNS[a]) \in Messages
           /\ Tail(toNS[a]) \in Seq(Messages) /\ Len(Tail(toNS[a])) = Len(toNS[a]) - 1
           /\ \A i \in DOMAIN Tail(toNS[a]) : Tail(toNS[a])[i] = toNS[a][i + 1]
           /\ DOMAIN toNS[a] = 1..Len(toNS[a])
           /\ DOMAIN Tail(toNS[a]) = 1..(Len(toNS[a]) - 1)
<1>1. PICK q \in Seq(Messages) : q = toNS[a]
  BY DEF WireTyped
<1>2. q # <<>>
  BY <1>1 DEF Unread
<1>3. Len(q) \in Nat \ {0} /\ Head(q) = q[1] /\ Head(q) \in Messages
  BY <1>2
<1>4. /\ Tail(q) \in Seq(Messages) /\ Len(Tail(q)) = Len(q) - 1
      /\ \A i \in 1..(Len(q) - 1) : Tail(q)[i] = q[i + 1]
  BY <1>2
<1>5. DOMAIN q = 1..Len(q) /\ DOMAIN Tail(q) = 1..(Len(q) - 1)
  BY <1>4
<1> QED BY <1>1, <1>3, <1>4, <1>5

LEMMA WithTyped ==
    ASSUME FilesTyped, AddrsKept, NEW n \in Names, NEW a \in Addresses, NEW s \in 0..MaxSize,
           \E i \in Entries : storage_servers[i].addr = a,
           files' = With(files, n, [ss |-> a, size |-> s])
    PROVE  FilesTyped'
<1>1. /\ DOMAIN files' = DOMAIN files \cup {n}
      /\ files'[n] = [ss |-> a, size |-> s]
      /\ \A m \in DOMAIN files \ {n} : files'[m] = files[m]
  BY DEF With
<1>2. \A m \in DOMAIN files' : files'[m] \in [ss : Addresses, size : 0..MaxSize]
  BY <1>1 DEF FilesTyped
<1>3. \A m \in DOMAIN files' : \E i \in Entries : storage_servers[i].addr = files'[m].ss
  BY <1>1 DEF FilesTyped
<1> QED BY <1>1, <1>2, <1>3 DEF FilesTyped, AddrsKept

LEMMA WithoutTyped ==
    ASSUME FilesTyped, AddrsKept, NEW S, files' = Without(files, S)
    PROVE  FilesTyped'
BY DEF FilesTyped, AddrsKept, Without

LEMMA CreateBeginTyped ==
    ASSUME Types, AddrsKept, NEW h \in Handlers, NEW n \in Names, CreateBegin(h, n)
    PROVE  FilesTyped' /\ HandlersTyped'
<1>1. PICK i \in Balanced :
          /\ target' = [target EXCEPT ![h] = i]
          /\ files' = With(files, n, [ss |-> storage_servers[i].addr, size |-> 0])
  BY DEF CreateBegin
<1>2. i \in Entries
  BY DEF Balanced
<1>3. storage_servers[i].addr \in Addresses /\ 0 \in 0..MaxSize
  BY <1>2, PlacementAssumption DEF Types, EntriesTyped
<1>4. FilesTyped'
  BY <1>1, <1>2, <1>3, WithTyped DEF Types
<1>5. HandlersTyped'
  BY <1>1 DEF CreateBegin, Types, HandlersTyped
<1> QED BY <1>4, <1>5

LEMMA DeleteBeginTyped ==
    ASSUME Types, NEW h \in Handlers, NEW S \in Folders, DeleteBegin(h, S)
    PROVE  HandlersTyped'
<1>1. S \in SUBSET Names
  BY PlacementAssumption
<1>2. PICK n \in S : /\ arg' = [arg EXCEPT ![h] = n]
                     /\ target' = [target EXCEPT ![h] = EntryOf(files[n].ss)]
  BY DEF DeleteBegin
<1> QED BY <1>1, <1>2 DEF DeleteBegin, Types, HandlersTyped

LEMMA SendTyped ==
    ASSUME Types, NEW h \in Handlers, Send(h), AddrOf(h) \in Addresses, arg[h] \in Names
    PROVE  HandlersTyped' /\ WireTyped'
<1> DEFINE a == AddrOf(h)
           q == [do |-> IF pc[h] = "create" THEN "CREATE_FILE" ELSE "DELETE_FILE",
                 name |-> arg[h]]
<1>1. [do |-> "FAILED"] \in Messages
  BY DEF Messages
<1>2. HandlersTyped'
  BY <1>1 DEF Send, Types, HandlersTyped
<1>3. q \in Requests
  BY DEF Requests
<1>4. \/ UNCHANGED <<awaiting, toSS>>
      \/ /\ awaiting' = [awaiting EXCEPT ![a] = h]
         /\ toSS' = [toSS EXCEPT ![a] = Append(@, q)] \/ toSS' = toSS
  BY DEF Send, AddrOf
<1>5. UNCHANGED <<reader, toNS>>
  BY DEF Send
<1>6. \A s \in Seq(Requests) : Append(s, q) \in Seq(Requests)
  BY <1>3
<1> HIDE DEF a, q
<1>7. awaiting' \in [Addresses -> Handlers \cup {NoHandler}]
  BY <1>4 DEF WireTyped, Types
<1>8. toSS' \in [Addresses -> Seq(Requests)]
  <2>1. toSS \in [Addresses -> Seq(Requests)]
    BY DEF WireTyped, Types
  <2>2. toSS' = toSS \/ toSS' = [toSS EXCEPT ![a] = Append(toSS[a], q)]
    BY <1>4
  <2>3. a \in Addresses => Append(toSS[a], q) \in Seq(Requests)
    BY <1>6, <2>1
  <2> HIDE DEF Requests
  <2> QED BY <2>1, <2>2, <2>3
<1>9. WireTyped'
  BY <1>5, <1>7, <1>8 DEF WireTyped, Types
<1> QED BY <1>2, <1>9

LEMMA DeleteNextTyped ==
    ASSUME Types, NEW h \in Handlers, DeleteNext(h)
    PROVE  HandlersTyped'
<1>1. left[h] \ {arg[h]} \in SUBSET Names
  BY DEF Types, HandlersTyped
<1>2. /\ left' = [left EXCEPT ![h] = left[h] \ {arg[h]}]
      /\ result' = [result EXCEPT ![h] = NoMsg] /\ plan' = plan
      /\ pc' = [pc EXCEPT ![h] = "remove"] \/ pc' = [pc EXCEPT ![h] = "delete"]
      /\ \/ UNCHANGED <<arg, target>>
         \/ \E n \in left[h] \ {arg[h]} :
               /\ arg' = [arg EXCEPT ![h] = n]
               /\ target' = [target EXCEPT ![h] = EntryOf(files[n].ss)]
  BY DEF DeleteNext
<1>3. arg' \in [Handlers -> Names \cup {NoMsg}] /\ DOMAIN target' = Handlers
  BY <1>1, <1>2 DEF Types, HandlersTyped
<1> QED BY <1>1, <1>2, <1>3 DEF Types, HandlersTyped

LEMMA HandOverTyped ==
    ASSUME Types, NEW a \in Addresses, HandOver(a)
    PROVE  HandlersTyped' /\ WireTyped'
<1>1. /\ Unread(a) /\ toNS' = [toNS EXCEPT ![a] = Tail(toNS[a])]
      /\ result' = [result EXCEPT ![awaiting[a]] = Head(toNS[a])]
      /\ awaiting' = [awaiting EXCEPT ![a] = NoHandler]
      /\ UNCHANGED <<pc, arg, target, plan, left, reader, toSS>>
  BY DEF HandOver, Read
<1>2. Head(toNS[a]) \in Messages /\ Tail(toNS[a]) \in Seq(Messages)
  BY <1>1, ReadTyped DEF Types
<1> QED BY <1>1, <1>2 DEF HandlersTyped, WireTyped, Types

\* The other steps of the reader.
LEMMA ReadsTyped ==
    ASSUME Types, NEW a \in Addresses, Unread(a), Read(a), UNCHANGED <<awaiting, toSS>>,
           reader' = reader \/ reader' = [reader EXCEPT ![a] = "main"]
    PROVE  WireTyped'
<1>1. Tail(toNS[a]) \in Seq(Messages)
  BY ReadTyped DEF Types
<1> QED BY <1>1 DEF Read, WireTyped, Types

LEMMA HasFileTyped ==
    ASSUME IInv, Types, AddrsKept, NEW a \in Addresses, HasFile(a)
    PROVE  FilesTyped'
<1> DEFINE m == Head(toNS[a])
<1>1. m \in Messages /\ m.do = "SS_HAS_FILE"
  BY ReadTyped DEF HasFile, Types
<1>2. m.name \in Names /\ m.size \in 0..MaxSize
  BY <1>1 DEF Messages
<1>3. \E i \in Entries : storage_servers[i].addr = a
  BY DEF HasFile, IInv, LiveIsLast, Live
<1>4. files' = With(files, m.name, [ss |-> a, size |-> m.size])
  BY DEF HasFile, reported
<1> QED BY <1>2, <1>3, <1>4, WithTyped DEF Types

LEMMA WriteCompleteTyped ==
    ASSUME Types, AddrsKept, NEW a \in Addresses, WriteComplete(a)
    PROVE  FilesTyped'
<1> DEFINE m == Head(toNS[a])
<1>1. m \in Messages /\ m.do = "WRITE_COMPLETE"
  BY ReadTyped DEF WriteComplete, Types
<1>2. m.name \in Names /\ m.size \in 0..MaxSize
  BY <1>1 DEF Messages
<1>3. files' = files \/ /\ m.name \in DOMAIN files
                        /\ files' = [files EXCEPT ![m.name].size = m.size]
  BY DEF WriteComplete, write_complete
<1> HIDE DEF m
<1>4. \A n \in DOMAIN files : files[n] \in [ss : Addresses, size : 0..MaxSize]
  BY DEF Types, FilesTyped
<1>5. /\ DOMAIN files' = DOMAIN files
      /\ \A n \in DOMAIN files : /\ files'[n] \in [ss : Addresses, size : 0..MaxSize]
                                 /\ files'[n].ss = files[n].ss
  BY <1>2, <1>3, <1>4
<1> QED BY <1>5 DEF FilesTyped, Types, AddrsKept

LEMMA DisconnectTyped ==
    ASSUME Types, NEW a \in Addresses, Disconnect(a)
    PROVE  HandlersTyped' /\ WireTyped'
<1>1. [do |-> "FAILED"] \in Messages
  BY DEF Messages
<1> QED BY <1>1 DEF Disconnect, Types, HandlersTyped, WireTyped

LEMMA HelloTyped ==
    ASSUME Types, NEW a \in Addresses, Hello(a)
    PROVE  WireTyped' /\ ServersTyped'
<1>1. ss_emit_file_list(a) \in Seq(Messages)
  BY FileList DEF Types
<1>2. <<>> \in Seq(Requests)
  OBVIOUS
<1>3. WireTyped'
  BY <1>1, <1>2 DEF Hello, Types, WireTyped
<1>4. ServersTyped'
  BY DEF Hello, Types, ServersTyped
<1> QED BY <1>3, <1>4

LEMMA CrashTyped ==
    ASSUME Types, NEW a \in Addresses, Crash(a)
    PROVE  WireTyped' /\ ServersTyped'
<1>1. <<>> \in Seq(Requests) /\ <<>> \in Seq(Messages)
  OBVIOUS
<1>2. WireTyped'
  BY <1>1 DEF Crash, Types, WireTyped
<1>3. ServersTyped'
  BY DEF Crash, Types, ServersTyped
<1> QED BY <1>2, <1>3

\* Command q is carried out: what it does to the disk, and the answer.
ServeBy(a, q, d) ==
    /\ Len(toSS[a]) \in Nat \ {0} /\ q = toSS[a][1]
    /\ DOMAIN toSS[a] = 1..Len(toSS[a])
    /\ toSS' = [toSS EXCEPT ![a] = Tail(@)]
    /\ Tail(toSS[a]) \in Seq(Requests)
    /\ DOMAIN Tail(toSS[a]) = 1..(Len(toSS[a]) - 1)
    /\ \A i \in DOMAIN Tail(toSS[a]) : Tail(toSS[a])[i] = toSS[a][i + 1]
    /\ toNS' = [toNS EXCEPT ![a] = Append(@, [do |-> d, name |-> q.name])]
    /\ \/ /\ d = "OK_CREATE" /\ q.do = "CREATE_FILE" /\ q.name \notin DOMAIN disk[a]
          /\ disk' = [disk EXCEPT ![a] = With(disk[a], q.name, 0)]
       \/ /\ d = "OK_DELETE" /\ q.do = "DELETE_FILE" /\ q.name \in DOMAIN disk[a]
          /\ disk' = [disk EXCEPT ![a] = Without(disk[a], {q.name})]
       \/ d = "ERROR" /\ disk' = disk
    /\ raced' = IF \E c \in unsent[a] : c.name = q.name
                THEN raced \cup {q.name} ELSE raced

LEMMA ServeDoes ==
    ASSUME Types, NEW a \in Addresses, Serve(a)
    PROVE  \E q \in Requests, d \in {"OK_CREATE", "OK_DELETE", "ERROR"} : ServeBy(a, q, d)
<1>1. PICK s \in Seq(Requests) : s = toSS[a]
  BY DEF Types, WireTyped
<1>2. s # <<>>
  BY <1>1 DEF Serve
<1>3. /\ Len(s) \in Nat \ {0} /\ Head(s) = s[1] /\ Head(s) \in Requests
      /\ Tail(s) \in Seq(Requests) /\ Len(Tail(s)) = Len(s) - 1
      /\ \A i \in 1..(Len(s) - 1) : Tail(s)[i] = s[i + 1]
  BY <1>2
<1>4. DOMAIN s = 1..Len(s) /\ DOMAIN Tail(s) = 1..(Len(s) - 1)
  BY <1>3
<1>5. PICK q \in Requests : q = Head(toSS[a])
  BY <1>1, <1>3
<1>6. PICK d \in {"OK_CREATE", "OK_DELETE", "ERROR"} :
         /\ toNS' = [toNS EXCEPT ![a] = Append(@, [do |-> d, name |-> q.name])]
         /\ \/ /\ d = "OK_CREATE" /\ q.do = "CREATE_FILE" /\ q.name \notin DOMAIN disk[a]
               /\ disk' = [disk EXCEPT ![a] = With(disk[a], q.name, 0)]
            \/ /\ d = "OK_DELETE" /\ q.do = "DELETE_FILE" /\ q.name \in DOMAIN disk[a]
               /\ disk' = [disk EXCEPT ![a] = Without(disk[a], {q.name})]
            \/ d = "ERROR" /\ disk' = disk
  BY <1>5 DEF Serve
<1>7. /\ toSS' = [toSS EXCEPT ![a] = Tail(@)]
      /\ raced' = IF \E c \in unsent[a] : c.name = q.name
                  THEN raced \cup {q.name} ELSE raced
  BY <1>5 DEF Serve
<1>8. q = toSS[a][1]
  BY <1>1, <1>3, <1>5
<1> QED BY <1>1, <1>3, <1>4, <1>6, <1>7, <1>8 DEF ServeBy

LEMMA ServeTyped ==
    ASSUME Types, NEW a \in Addresses, Serve(a)
    PROVE  WireTyped' /\ ServersTyped'
<1>0. PICK q \in Requests, d \in {"OK_CREATE", "OK_DELETE", "ERROR"} : ServeBy(a, q, d)
  BY ServeDoes
<1>1. /\ toSS' = [toSS EXCEPT ![a] = Tail(@)] /\ Tail(toSS[a]) \in Seq(Requests)
      /\ toNS' = [toNS EXCEPT ![a] = Append(@, [do |-> d, name |-> q.name])]
      /\ \/ disk' = [disk EXCEPT ![a] = With(disk[a], q.name, 0)]
         \/ disk' = [disk EXCEPT ![a] = Without(disk[a], {q.name})]
         \/ disk' = disk
  BY <1>0 DEF ServeBy
<1>2. q.name \in Names
  BY DEF Requests
<1>3. [do |-> d, name |-> q.name] \in Messages
  BY <1>2 DEF Messages
<1>4. Append(toNS[a], [do |-> d, name |-> q.name]) \in Seq(Messages)
  BY <1>3 DEF Types, WireTyped
<1>5. /\ UNCHANGED <<reader, awaiting, up, unsent>>
      /\ untold' = [untold EXCEPT ![a] = @ \cap DOMAIN disk'[a]]
  BY DEF Serve
<1>6. WireTyped'
  BY <1>1, <1>4, <1>5 DEF Types, WireTyped
<1>7. /\ DOMAIN disk[a] \subseteq Names /\ IsFiniteSet(DOMAIN disk[a])
      /\ \A n \in DOMAIN disk[a] : disk[a][n] \in 0..MaxSize
  BY DEF Types, ServersTyped
<1> DEFINE w == With(disk[a], q.name, 0)
           o == Without(disk[a], {q.name})
<1>8. /\ DOMAIN w = DOMAIN disk[a] \cup {q.name}
      /\ \A n \in DOMAIN w : w[n] = IF n = q.name THEN 0 ELSE disk[a][n]
      /\ DOMAIN o = DOMAIN disk[a] \ {q.name}
      /\ \A n \in DOMAIN o : o[n] = disk[a][n]
  BY DEF With, Without
<1>9. IsFiniteSet(DOMAIN disk[a] \cup {q.name}) /\ IsFiniteSet(DOMAIN disk[a] \ {q.name})
  BY <1>7, FS_AddElement, FS_RemoveElement
<1> HIDE DEF w, o
<1>10. /\ DOMAIN w \subseteq Names /\ IsFiniteSet(DOMAIN w)
       /\ \A n \in DOMAIN w : w[n] \in 0..MaxSize
  BY <1>2, <1>7, <1>8, <1>9, PlacementAssumption
<1>11. /\ DOMAIN o \subseteq Names /\ IsFiniteSet(DOMAIN o)
       /\ \A n \in DOMAIN o : o[n] \in 0..MaxSize
  BY <1>7, <1>8, <1>9
<1>12. /\ DOMAIN disk' = Addresses
       /\ \A b \in Addresses \ {a} : disk'[b] = disk[b]
       /\ disk'[a] = w \/ disk'[a] = o \/ disk'[a] = disk[a]
  BY <1>1 DEF Types, ServersTyped, w, o
<1>13. ServersTyped'
  BY <1>5, <1>7, <1>10, <1>11, <1>12 DEF Types, ServersTyped
<1> QED BY <1>6, <1>13

LEMMA SyncTyped ==
    ASSUME Types, NEW a \in Addresses, Sync(a)
    PROVE  WireTyped' /\ ServersTyped'
<1>1. PICK c \in unsent[a] :
         /\ \E size \in {c.size, IF c.name \in DOMAIN disk[a] THEN disk[a][c.name] ELSE 0} :
               toNS' = [toNS EXCEPT ![a] =
                   Append(@, [do |-> "WRITE_COMPLETE", name |-> c.name, size |-> size])]
         /\ unsent' = [unsent EXCEPT ![a] = @ \ {c}]
         /\ UNCHANGED <<reader, awaiting, toSS, up, disk, untold>>
  BY DEF Sync
<1>2. PICK size \in {c.size, IF c.name \in DOMAIN disk[a] THEN disk[a][c.name] ELSE 0} :
         toNS' = [toNS EXCEPT ![a] =
             Append(@, [do |-> "WRITE_COMPLETE", name |-> c.name, size |-> size])]
  BY <1>1
<1>3. c \in [name : Names, size : 0..MaxSize]
  BY DEF Types, ServersTyped
<1>4. c.name \in Names /\ size \in 0..MaxSize
  BY <1>3, PlacementAssumption DEF Types, ServersTyped
<1>5. [do |-> "WRITE_COMPLETE", name |-> c.name, size |-> size] \in Messages
  BY <1>4 DEF Messages
<1>6. Append(toNS[a], [do |-> "WRITE_COMPLETE", name |-> c.name, size |-> size])
          \in Seq(Messages)
  BY <1>5 DEF Types, WireTyped
<1>7. WireTyped'
  BY <1>1, <1>2, <1>6 DEF Types, WireTyped
<1>8. ServersTyped'
  BY <1>1 DEF Types, ServersTyped
<1> QED BY <1>7, <1>8

LEMMA CommitTyped ==
    ASSUME Types, NEW a \in Addresses, NEW n \in Names, NEW size \in 0..MaxSize,
           Commit(a, n, size)
    PROVE  ServersTyped'
<1> DEFINE e == [disk[a] EXCEPT ![n] = size]
<1>1. /\ disk' = [disk EXCEPT ![a] = e] /\ up' = up
      /\ unsent' = [unsent EXCEPT ![a] = @ \cup {[name |-> n, size |-> size]}]
      /\ untold' = [untold EXCEPT ![a] = @ \ {n}]
  BY DEF Commit
<1>2. DOMAIN e = DOMAIN disk[a] /\ \A m \in DOMAIN e : e[m] = disk[a][m] \/ e[m] = size
  OBVIOUS
<1> HIDE DEF e
<1> QED BY <1>1, <1>2 DEF Types, ServersTyped

LEMMA RestoreTyped ==
    ASSUME Types, NEW a \in Addresses, NEW n \in Names, NEW size \in 0..MaxSize,
           Restore(a, n, size)
    PROVE  ServersTyped'
<1> DEFINE e == [disk[a] EXCEPT ![n] = size]
<1>1. /\ disk' = [disk EXCEPT ![a] = e] /\ up' = up /\ unsent' = unsent
      /\ untold' = [untold EXCEPT ![a] = @ \cup {n}]
  BY DEF Restore
<1>2. DOMAIN e = DOMAIN disk[a] /\ \A m \in DOMAIN e : e[m] = disk[a][m] \/ e[m] = size
  OBVIOUS
<1> HIDE DEF e
<1> QED BY <1>1, <1>2 DEF Types, ServersTyped

-----------------------------------------------------------------------------
(* Roles *)

\* The variables of handler h.
SameHandler(h) ==
    /\ pc'[h] = pc[h] /\ arg'[h] = arg[h] /\ target'[h] = target[h]
    /\ plan'[h] = plan[h] /\ left'[h] = left[h] /\ result'[h] = result[h]

LEMMA AddrOfSame ==
    ASSUME AddrsKept, NEW h, target[h] \in Entries, target'[h] = target[h]
    PROVE  AddrOf(h)' = AddrOf(h) /\ target'[h] \in Entries'
BY DEF AddrsKept, AddrOf, Entries

LEMMA RoleSame ==
    ASSUME AddrsKept, NEW h \in Handlers, Role(h), SameHandler(h),
           pc[h] \in {"delete", "deleted", "remove"} => state_lock' = h,
           Waits(h) => awaiting'[AddrOf(h)] = h,
           \A n \in plan[h] : n \in DOMAIN files' /\ files'[n].ss = files[n].ss
    PROVE  Role(h)'
<1>1. /\ pc'[h] \notin {"created", "deleted"} => result'[h] = NoMsg
      /\ pc'[h] \in {"delete", "deleted", "remove"} => state_lock' = h
      /\ pc'[h] \notin {"delete", "deleted", "remove"} => plan'[h] = {}
      /\ left'[h] \subseteq plan'[h] /\ plan'[h] \subseteq DOMAIN files'
      /\ pc'[h] = "remove" => left'[h] = {}
  BY DEF Role, SameHandler
<1>2. ASSUME pc[h] \in {"create", "created", "delete", "deleted"}
      PROVE  target'[h] \in Entries' /\ AddrOf(h)' = AddrOf(h) /\ arg'[h] \in Names
  BY <1>2, AddrOfSame DEF Role, SameHandler
<1>3. Waits(h)' => Waits(h) /\ pc[h] \in {"create", "created", "delete", "deleted"}
  BY DEF Waits, SameHandler
<1>4. Waits(h)' => awaiting'[AddrOf(h)'] = h
  BY <1>2, <1>3
<1>5. pc[h] \in {"delete", "deleted"} =>
          arg'[h] \in left'[h] /\ files'[arg'[h]].ss = AddrOf(h)'
  BY <1>2 DEF Role, SameHandler
<1> QED BY <1>1, <1>2, <1>4, <1>5 DEF Role, SameHandler, AddrOf

LEMMA AwaitedSame ==
    ASSUME AddrsKept, NEW a, Awaited(a), awaiting'[a] = awaiting[a],
           awaiting[a] # NoHandler =>
               /\ SameHandler(awaiting[a]) /\ target[awaiting[a]] \in Entries
    PROVE  Awaited(a)'
<1>1. CASE awaiting[a] = NoHandler
  BY <1>1 DEF Awaited
<1>2. CASE awaiting[a] # NoHandler
  <2> DEFINE k == awaiting[a]
  <2>1. Waits(k) /\ AddrOf(k) = a /\ awaiting'[a] = k
    BY <1>2 DEF Awaited
  <2>2. AddrOf(k)' = a
    BY <1>2, <2>1, AddrOfSame DEF SameHandler, AddrOf
  <2>3. Waits(k)'
    BY <1>2, <2>1 DEF SameHandler, Waits
  <2> QED BY <2>1, <2>2, <2>3 DEF Awaited, AddrOf, Waits
<1> QED BY <1>1, <1>2

\* Who holds the lock.
LEMMA LockHolder ==
    ASSUME Roles
    PROVE  /\ state_lock = NoHandler =>
                \A h \in Handlers : /\ pc[h] \notin {"delete", "deleted", "remove"}
                                    /\ plan[h] = {}
           /\ \A h \in Handlers : pc[h] \in {"delete", "deleted", "remove"} =>
                \A k \in Handlers \ {h} : /\ pc[k] \notin {"delete", "deleted", "remove"}
                                          /\ plan[k] = {}
BY PlacementAssumption DEF Roles, Role

\* Who is awaited is one of the handlers that wait, and knows the server.
LEMMA WhoIsAwaited ==
    ASSUME Types, Roles, NEW a \in Addresses, awaiting[a] # NoHandler
    PROVE  /\ awaiting[a] \in Handlers /\ Waits(awaiting[a])
           /\ AddrOf(awaiting[a]) = a /\ target[awaiting[a]] \in Entries
           /\ pc[awaiting[a]] \in {"created", "deleted"} /\ arg[awaiting[a]] \in Names
<1>1. awaiting[a] \in Handlers
  BY DEF Types, WireTyped
<1>2. Waits(awaiting[a]) /\ AddrOf(awaiting[a]) = a
  BY DEF Roles, Awaited
<1> QED BY <1>1, <1>2 DEF Roles, Role, Waits

\* A step of the servers, or of a reader that neither hands over nor ends, leaves
\* every handler alone.
LEMMA RolesSame ==
    ASSUME Types, AddrsKept, Roles, UNCHANGED <<pc, arg, target, plan, left, result, awaiting>>,
           state_lock' = state_lock,
           \A h \in Handlers : \A n \in plan[h] :
               n \in DOMAIN files' /\ files'[n].ss = files[n].ss
    PROVE  Roles'
<1>1. ASSUME NEW h \in Handlers PROVE Role(h)'
  <2>1. Role(h) /\ SameHandler(h)
    BY DEF Roles, SameHandler
  <2>2. Waits(h) => awaiting'[AddrOf(h)] = h
    BY <2>1 DEF Role
  <2>3. pc[h] \in {"delete", "deleted", "remove"} => state_lock' = h
    BY <2>1 DEF Role
  <2> QED BY <2>1, <2>2, <2>3, RoleSame
<1>2. ASSUME NEW a \in Addresses PROVE Awaited(a)'
  <2>1. Awaited(a) /\ awaiting'[a] = awaiting[a]
    BY DEF Roles
  <2>2. awaiting[a] # NoHandler =>
            SameHandler(awaiting[a]) /\ target[awaiting[a]] \in Entries
    BY WhoIsAwaited DEF SameHandler
  <2> QED BY <2>1, <2>2, AwaitedSame
<1> QED BY <1>1, <1>2 DEF Roles

\* Handler h0 does something that is not a wait: the others are left alone.
LEMMA RolesButOne ==
    ASSUME Types, AddrsKept, Roles, NEW h0 \in Handlers, Role(h0)', ~Waits(h0),
           awaiting' = awaiting,
           \A h \in Handlers \ {h0} : SameHandler(h),
           \A h \in Handlers \ {h0} :
               pc[h] \in {"delete", "deleted", "remove"} => state_lock' = h,
           \A h \in Handlers \ {h0} : \A n \in plan[h] :
               n \in DOMAIN files' /\ files'[n].ss = files[n].ss
    PROVE  Roles'
<1>1. ASSUME NEW h \in Handlers \ {h0} PROVE Role(h)'
  <2>1. Role(h) /\ SameHandler(h)
    BY DEF Roles
  <2>2. Waits(h) => awaiting'[AddrOf(h)] = h
    BY <2>1 DEF Role
  <2> QED BY <2>1, <2>2, RoleSame
<1>2. ASSUME NEW a \in Addresses PROVE Awaited(a)'
  <2>1. Awaited(a) /\ awaiting'[a] = awaiting[a]
    BY DEF Roles
  <2>2. awaiting[a] # NoHandler =>
            SameHandler(awaiting[a]) /\ target[awaiting[a]] \in Entries
    BY WhoIsAwaited
  <2> QED BY <2>1, <2>2, AwaitedSame
<1> QED BY <1>1, <1>2 DEF Roles

LEMMA EndHandlerRole ==
    ASSUME Types, NEW h \in Handlers, EndHandler(h)
    PROVE  /\ Role(h)' /\ \A k \in Handlers \ {h} : SameHandler(k)
           /\ pc'[h] = "idle" /\ plan'[h] = {} /\ result'[h] = NoMsg
<1>1. /\ pc'[h] = "idle" /\ plan'[h] = {} /\ left'[h] = {} /\ result'[h] = NoMsg
      /\ \A k \in Handlers \ {h} : SameHandler(k)
  BY DEF EndHandler, Types, HandlersTyped, SameHandler
<1> QED BY <1>1 DEF Role, Waits

LEMMA CreateBeginRoles ==
    ASSUME Types, AddrsKept, Roles, NEW h \in Handlers, NEW n \in Names, CreateBegin(h, n)
    PROVE  Roles'
<1>1. PICK i \in Balanced : target' = [target EXCEPT ![h] = i]
  BY DEF CreateBegin
<1>2. i \in Entries'
  BY DEF Balanced, AddrsKept
<1>3. /\ pc[h] = "idle" /\ pc'[h] = "create" /\ arg'[h] = n /\ target'[h] = i
      /\ plan' = plan /\ left' = left /\ result' = result /\ awaiting' = awaiting
      /\ state_lock = NoHandler /\ state_lock' = NoHandler
      /\ \A k \in Handlers \ {h} : SameHandler(k)
  BY <1>1 DEF CreateBegin, wire, SameHandler, Types, HandlersTyped
<1>4. \A k \in Handlers : plan[k] = {} /\ pc[k] \notin {"delete", "deleted", "remove"}
  BY <1>3, LockHolder
<1>5. result[h] = NoMsg /\ left[h] = {}
  BY <1>3, <1>4 DEF Roles, Role
<1>6. Role(h)'
  BY <1>2, <1>3, <1>4, <1>5 DEF Role, Waits
<1>7. ~Waits(h)
  BY <1>3 DEF Waits
<1> QED BY <1>3, <1>4, <1>6, <1>7, RolesButOne

\* The entry that is asked about a recorded file is one of the server that has it.
LEMMA EntryOfFile ==
    ASSUME Types, Roles, TableType, NEW n \in DOMAIN files
    PROVE  /\ EntryOf(files[n].ss) \in Entries
           /\ storage_servers[EntryOf(files[n].ss)].addr = files[n].ss
<1> DEFINE S == {i \in Entries : storage_servers[i].addr = files[n].ss}
<1>1. PICK i \in Entries : i \in S
  BY DEF Types, FilesTyped
<1>2. PICK k \in Nat : Entries = 1..k
  BY DEF TableType, Entries
<1>3. S \in SUBSET Int /\ S # {} /\ k \in Int /\ \A y \in S : k >= y
  BY <1>1, <1>2
<1> HIDE DEF S
<1>4. \E x \in S : \A y \in S : x >= y
  BY <1>3, MaxExists
<1>5. Max(S) \in S
  BY <1>4, Zenon DEF Max
<1> QED BY <1>5 DEF EntryOf, S

LEMMA DeleteBeginRoles ==
    ASSUME IInv, Types, AddrsKept, Roles, NEW h \in Handlers, NEW S \in Folders,
           DeleteBegin(h, S)
    PROVE  Roles'
<1>1. PICK n \in S : /\ arg' = [arg EXCEPT ![h] = n]
                     /\ target' = [target EXCEPT ![h] = EntryOf(files[n].ss)]
  BY DEF DeleteBegin
<1>2. n \in DOMAIN files /\ n \in Names /\ S \subseteq DOMAIN files
  BY PlacementAssumption DEF DeleteBegin
<1>3. PICK i \in Entries : i = EntryOf(files[n].ss) /\ storage_servers[i].addr = files[n].ss
  BY <1>2, EntryOfFile DEF IInv
<1>4. /\ pc[h] = "idle" /\ pc'[h] = "delete" /\ arg'[h] = n /\ target'[h] = i
      /\ plan'[h] = S /\ left'[h] = S /\ result' = result /\ awaiting' = awaiting
      /\ state_lock = NoHandler /\ state_lock' = h /\ files' = files
      /\ \A k \in Handlers \ {h} : SameHandler(k)
  BY <1>1, <1>3 DEF DeleteBegin, wire, SameHandler, Types, HandlersTyped
<1>5. \A k \in Handlers : plan[k] = {} /\ pc[k] \notin {"delete", "deleted", "remove"}
  BY <1>4, LockHolder
<1>6. result[h] = NoMsg
  BY <1>4 DEF Roles, Role
<1>7. i \in Entries' /\ storage_servers'[i].addr = files[n].ss
  BY <1>3 DEF AddrsKept
<1>8. Role(h)'
  BY <1>2, <1>4, <1>6, <1>7 DEF Role, Waits, AddrOf
<1>9. ~Waits(h)
  BY <1>4 DEF Waits
<1> QED BY <1>4, <1>5, <1>8, <1>9, RolesButOne

LEMMA SendRoles ==
    ASSUME Types, AddrsKept, Roles, NEW h \in Handlers, Send(h)
    PROVE  Roles'
<1> DEFINE a == AddrOf(h)
<1>1. /\ pc[h] \in {"create", "delete"}
      /\ pc'[h] = IF pc[h] = "create" THEN "created" ELSE "deleted"
      /\ UNCHANGED <<storage_servers, files, state_lock, arg, target, plan, left>>
      /\ \/ result' = [result EXCEPT ![h] = [do |-> "FAILED"]] /\ awaiting' = awaiting
         \/ /\ result' = result /\ awaiting[a] = NoHandler
            /\ awaiting' = [awaiting EXCEPT ![a] = h]
      /\ \A k \in Handlers \ {h} : SameHandler(k)
  BY DEF Send, SameHandler, Types, HandlersTyped, AddrOf
<1>2. [do |-> "FAILED"] # NoMsg
  BY PlacementAssumption DEF Messages
<1>3. /\ Role(h) /\ target[h] \in Entries /\ a \in Addresses /\ result[h] = NoMsg
      /\ AddrOf(h)' = a /\ AddrOf(h) = a /\ target'[h] \in Entries'
  BY <1>1, AddrOfSame DEF Roles, Role, Types, EntriesTyped, AddrOf
<1>4. Waits(h)' => awaiting'[a] = h
  BY <1>1, <1>2, <1>3 DEF Waits, Types, HandlersTyped, WireTyped
<1>5. pc'[h] = "deleted" <=> pc[h] = "delete"
  BY <1>1
<1> HIDE DEF a
<1>6. Role(h)'
  <2>1. /\ arg'[h] \in Names /\ plan'[h] = plan[h] /\ left'[h] = left[h]
        /\ files'[arg'[h]].ss = files[arg[h]].ss /\ DOMAIN files' = DOMAIN files
        /\ arg'[h] = arg[h] /\ state_lock' = state_lock
        /\ pc'[h] \in {"created", "deleted"}
    BY <1>1, <1>3 DEF Role
  <2> QED BY <1>1, <1>3, <1>4, <1>5, <2>1 DEF Role
<1>7. ~Waits(h) /\ (result'[h] = NoMsg => Waits(h)')
  BY <1>1 DEF Waits
<1>8. ASSUME NEW k \in Handlers \ {h} PROVE Role(k)'
  <2>1. Role(k) /\ SameHandler(k)
    BY <1>1 DEF Roles
  <2>2. Waits(k) => awaiting[AddrOf(k)] = k /\ AddrOf(k) \in Addresses
    BY <2>1 DEF Role, Waits, Types, EntriesTyped, AddrOf
  <2>3. Waits(k) => awaiting'[AddrOf(k)] = k
    BY <1>1, <2>2, PlacementAssumption DEF Types, WireTyped
  <2>4. /\ pc[k] \in {"delete", "deleted", "remove"} => state_lock' = k
        /\ \A n \in plan[k] : n \in DOMAIN files' /\ files'[n].ss = files[n].ss
    BY <1>1, <2>1 DEF Role
  <2> QED BY <2>1, <2>3, <2>4, RoleSame
<1>9. ASSUME NEW b \in Addresses PROVE Awaited(b)'
  <2>1. CASE awaiting'[b] = awaiting[b] /\ awaiting[b] # h
    <3>1. awaiting[b] # NoHandler =>
              SameHandler(awaiting[b]) /\ target[awaiting[b]] \in Entries
      BY <1>1, <2>1, WhoIsAwaited
    <3> QED BY <2>1, <3>1, AwaitedSame DEF Roles
  <2>2. CASE awaiting'[b] = h /\ b = a /\ awaiting[a] = NoHandler /\ result' = result
    BY <1>3, <1>7, <2>2 DEF Awaited
  <2>3. awaiting[b] # h
    BY <1>7, WhoIsAwaited, PlacementAssumption
  <2> QED BY <1>1, <2>1, <2>2, <2>3 DEF Types, WireTyped
<1> QED BY <1>6, <1>8, <1>9 DEF Roles

LEMMA CreateEndRoles ==
    ASSUME Types, AddrsKept, Roles, NEW h \in Handlers, CreateEnd(h)
    PROVE  Roles'
<1>1. /\ pc[h] = "created" /\ result[h] # NoMsg /\ EndHandler(h)
      /\ state_lock = NoHandler /\ awaiting' = awaiting
  BY DEF CreateEnd, wire
<1>2. \A k \in Handlers : plan[k] = {} /\ pc[k] \notin {"delete", "deleted", "remove"}
  BY <1>1, LockHolder
<1>3. Role(h)' /\ (\A k \in Handlers \ {h} : SameHandler(k)) /\ ~Waits(h)
  BY <1>1, EndHandlerRole DEF Waits
<1> QED BY <1>1, <1>2, <1>3, RolesButOne

LEMMA DeleteEndsRoles ==
    ASSUME Types, AddrsKept, Roles, NEW h \in Handlers, DeleteFails(h) \/ DeleteEnd(h)
    PROVE  Roles'
<1>1. /\ pc[h] \in {"deleted", "remove"} /\ EndHandler(h) /\ awaiting' = awaiting
      /\ ~Waits(h)
  BY DEF DeleteFails, DeleteEnd, wire, Waits
<1>2. \A k \in Handlers \ {h} : plan[k] = {} /\ pc[k] \notin {"delete", "deleted", "remove"}
  BY <1>1, LockHolder
<1>3. Role(h)' /\ \A k \in Handlers \ {h} : SameHandler(k)
  BY <1>1, EndHandlerRole
<1> QED BY <1>1, <1>2, <1>3, RolesButOne

\* The next file of the plan, or the end of it.
LEMMA DeleteNextDoes ==
    ASSUME Types, Roles, IInv, NEW h \in Handlers, DeleteNext(h)
    PROVE  /\ pc[h] = "deleted" /\ result[h] # NoMsg /\ result[h].do = "OK_DELETE"
           /\ left' = [left EXCEPT ![h] = left[h] \ {arg[h]}]
           /\ result' = [result EXCEPT ![h] = NoMsg] /\ plan' = plan
           /\ UNCHANGED <<files, state_lock, awaiting>>
           /\ \A k \in Handlers \ {h} : SameHandler(k)
           /\ left'[h] = left[h] \ {arg[h]} /\ result'[h] = NoMsg
           /\ \/ pc'[h] = "remove" /\ left'[h] = {}
              \/ /\ pc'[h] = "delete" /\ arg'[h] \in left'[h]
                 /\ target'[h] \in Entries /\ storage_servers[target'[h]].addr = files[arg'[h]].ss
<1>1. /\ pc[h] = "deleted" /\ result[h] # NoMsg /\ result[h].do = "OK_DELETE"
      /\ left' = [left EXCEPT ![h] = left[h] \ {arg[h]}]
      /\ result' = [result EXCEPT ![h] = NoMsg] /\ plan' = plan
      /\ UNCHANGED <<files, state_lock, awaiting>>
  BY DEF DeleteNext, wire
<1>2. \/ /\ left[h] \ {arg[h]} = {}
         /\ pc' = [pc EXCEPT ![h] = "remove"] /\ UNCHANGED <<arg, target>>
      \/ /\ pc' = [pc EXCEPT ![h] = "delete"]
         /\ \E n \in left[h] \ {arg[h]} :
               /\ arg' = [arg EXCEPT ![h] = n]
               /\ target' = [target EXCEPT ![h] = EntryOf(files[n].ss)]
  BY DEF DeleteNext
<1>3. /\ \A k \in Handlers \ {h} : SameHandler(k)
      /\ left'[h] = left[h] \ {arg[h]} /\ result'[h] = NoMsg
  BY <1>1, <1>2 DEF SameHandler, Types, HandlersTyped
<1>4. CASE left[h] \ {arg[h]} = {} /\ pc' = [pc EXCEPT ![h] = "remove"]
  <2>1. pc'[h] = "remove"
    BY <1>4 DEF Types, HandlersTyped
  <2> QED BY <2>1, <1>1, <1>3, <1>4
<1>5. ASSUME pc' = [pc EXCEPT ![h] = "delete"], NEW n \in left[h] \ {arg[h]},
             arg' = [arg EXCEPT ![h] = n],
             target' = [target EXCEPT ![h] = EntryOf(files[n].ss)]
      PROVE  /\ pc'[h] = "delete" /\ arg'[h] \in left'[h]
             /\ target'[h] \in Entries /\ storage_servers[target'[h]].addr = files[arg'[h]].ss
  <2>1. pc'[h] = "delete" /\ arg'[h] = n /\ target'[h] = EntryOf(files[n].ss)
    BY <1>5 DEF Types, HandlersTyped
  <2>2. n \in DOMAIN files
    BY DEF Roles, Role
  <2>3. EntryOf(files[n].ss) \in Entries
        /\ storage_servers[EntryOf(files[n].ss)].addr = files[n].ss
    BY <2>2, EntryOfFile DEF IInv
  <2> QED BY <1>3, <2>1, <2>3
<1> QED BY <1>1, <1>2, <1>3, <1>4, <1>5

LEMMA DeleteNextRoles ==
    ASSUME IInv, Types, AddrsKept, Roles, NEW h \in Handlers, DeleteNext(h)
    PROVE  Roles'
<1>1. /\ pc[h] = "deleted" /\ result[h] # NoMsg /\ plan' = plan
      /\ UNCHANGED <<files, state_lock, awaiting>>
      /\ \A k \in Handlers \ {h} : SameHandler(k)
      /\ left'[h] = left[h] \ {arg[h]} /\ result'[h] = NoMsg
      /\ \/ pc'[h] = "remove" /\ left'[h] = {}
         \/ /\ pc'[h] = "delete" /\ arg'[h] \in left'[h]
            /\ target'[h] \in Entries /\ storage_servers[target'[h]].addr = files[arg'[h]].ss
  BY DeleteNextDoes
<1>2. ~Waits(h) /\ Role(h) /\ \A k \in Handlers \ {h} : Role(k)
  BY <1>1 DEF Waits, Roles
<1>3. /\ left'[h] \subseteq plan'[h] /\ plan'[h] \subseteq DOMAIN files' /\ state_lock' = h
      /\ plan'[h] \subseteq Names
  BY <1>1, <1>2 DEF Role, Types, HandlersTyped
<1>4. ~Waits(h)' /\ pc'[h] \notin {"created", "deleted"}
  BY <1>1 DEF Waits
<1>5. target'[h] \in Entries => /\ target'[h] \in Entries'
                                /\ AddrOf(h)' = storage_servers[target'[h]].addr
  BY DEF AddrsKept, AddrOf
<1>6. Role(h)'
  BY <1>1, <1>3, <1>4, <1>5 DEF Role
<1>7. \A k \in Handlers \ {h} :
          /\ pc[k] \in {"delete", "deleted", "remove"} => state_lock' = k
          /\ \A n \in plan[k] : n \in DOMAIN files' /\ files'[n].ss = files[n].ss
  BY <1>1, <1>2 DEF Role
<1> QED BY <1>1, <1>2, <1>6, <1>7, RolesButOne

\* The handler that is awaited gets something: it no longer waits.
LEMMA GetsRoles ==
    ASSUME Types, AddrsKept, Roles, NEW a \in Addresses, awaiting[a] # NoHandler,
           NEW m \in Messages, result' = [result EXCEPT ![awaiting[a]] = m],
           awaiting' = [awaiting EXCEPT ![a] = NoHandler],
           UNCHANGED <<pc, arg, target, plan, left, files, state_lock>>
    PROVE  Roles'
<1>0. PICK h \in Handlers : h = awaiting[a]
  BY WhoIsAwaited
<1>1. /\ h \in Handlers /\ Waits(h) /\ AddrOf(h) = a /\ target[h] \in Entries
      /\ pc[h] \in {"created", "deleted"}
  BY <1>0, WhoIsAwaited
<1>2. /\ result'[h] = m /\ m # NoMsg /\ \A k \in Handlers \ {h} : SameHandler(k)
  BY <1>0, PlacementAssumption DEF SameHandler, Types, HandlersTyped
<1>3. /\ target'[h] \in Entries' /\ AddrOf(h)' = a /\ AddrOf(h) = a
  BY <1>1, AddrOfSame
<1>4. \A b \in Addresses : awaiting'[b] = IF b = a THEN NoHandler ELSE awaiting[b]
  BY DEF Types, WireTyped
<1>5. Role(h) /\ ~Waits(h)'
  BY <1>1, <1>2 DEF Roles, Waits
<1>6. Role(h)'
  BY <1>1, <1>3, <1>5 DEF Role
<1>7. ASSUME NEW k \in Handlers \ {h} PROVE Role(k)'
  <2>1. Role(k) /\ SameHandler(k)
    BY <1>2 DEF Roles
  <2>2. Waits(k) => awaiting[AddrOf(k)] = k /\ AddrOf(k) \in Addresses
    BY <2>1 DEF Role, Waits, Types, EntriesTyped, AddrOf
  <2>3. Waits(k) => awaiting'[AddrOf(k)] = k
    BY <1>0, <1>4, <2>2
  <2>4. /\ pc[k] \in {"delete", "deleted", "remove"} => state_lock' = k
        /\ \A n \in plan[k] : n \in DOMAIN files' /\ files'[n].ss = files[n].ss
    BY <2>1 DEF Role
  <2> QED BY <2>1, <2>3, <2>4, RoleSame
<1>8. ASSUME NEW b \in Addresses PROVE Awaited(b)'
  <2>1. CASE b = a
    BY <1>4, <2>1 DEF Awaited
  <2>2. CASE b # a
    <3>1. awaiting'[b] = awaiting[b]
      BY <1>4, <2>2
    <3>2. awaiting[b] # NoHandler => AddrOf(awaiting[b]) = b
      BY WhoIsAwaited
    <3>3. awaiting[b] # NoHandler =>
              SameHandler(awaiting[b]) /\ target[awaiting[b]] \in Entries
      BY <1>0, <1>1, <1>2, <2>2, <3>2, WhoIsAwaited
    <3> QED BY <3>1, <3>3, AwaitedSame DEF Roles
  <2> QED BY <2>1, <2>2
<1> QED BY <1>6, <1>7, <1>8 DEF Roles

LEMMA HandOverRoles ==
    ASSUME Types, AddrsKept, Roles, NEW a \in Addresses, HandOver(a)
    PROVE  Roles'
<1>1. /\ Unread(a) /\ awaiting[a] # NoHandler
      /\ result' = [result EXCEPT ![awaiting[a]] = Head(toNS[a])]
      /\ awaiting' = [awaiting EXCEPT ![a] = NoHandler]
      /\ UNCHANGED <<pc, arg, target, plan, left, files, state_lock>>
  BY DEF HandOver
<1>2. Head(toNS[a]) \in Messages
  BY <1>1, ReadTyped DEF Types
<1> QED BY <1>1, <1>2, GetsRoles

LEMMA DisconnectRoles ==
    ASSUME Types, AddrsKept, Roles, NEW a \in Addresses, Disconnect(a)
    PROVE  Roles'
<1>1. [do |-> "FAILED"] \in Messages
  BY DEF Messages
<1>2. UNCHANGED <<pc, arg, target, plan, left, files, state_lock>>
  BY DEF Disconnect
<1>3. CASE awaiting[a] = NoHandler
  BY <1>2, <1>3, RolesSame DEF Disconnect, Roles, Role
<1>4. CASE awaiting[a] # NoHandler
  BY <1>1, <1>2, <1>4, GetsRoles DEF Disconnect
<1> QED BY <1>3, <1>4

-----------------------------------------------------------------------------
(* Links *)

LEMMA LinkSame ==
    ASSUME NEW a, Link(a), up'[a] = up[a], unsent'[a] = unsent[a], reader'[a] = reader[a],
           toNS'[a] = toNS[a]
    PROVE  Link(a)'
BY DEF Link

\* A message is read.
LEMMA LinkRead ==
    ASSUME Types, Links, NEW a \in Addresses, Unread(a), Read(a), UNCHANGED <<up, unsent>>,
           \/ reader' = reader
           \/ /\ reader' = [reader EXCEPT ![a] = "main"]
              /\ toNS[a][1].do # "SS_HAS_FILE"
    PROVE  Links'
<1> DEFINE q == toNS[a]
           t == Tail(toNS[a])
<1>1. /\ Len(q) \in Nat \ {0} /\ DOMAIN q = 1..Len(q) /\ DOMAIN t = 1..(Len(q) - 1)
      /\ \A i \in DOMAIN t : t[i] = q[i + 1]
  BY ReadTyped DEF Types
<1>2. /\ toNS'[a] = t /\ \A b \in Addresses \ {a} : toNS'[b] = toNS[b]
      /\ reader'[a] # "none" /\ \A b \in Addresses \ {a} : reader'[b] = reader[b]
      /\ reader'[a] = reader[a] \/ q[1].do # "SS_HAS_FILE"
  BY DEF Read, Unread, Types, WireTyped
<1>3. Link(a)
  BY DEF Links
<1> HIDE DEF q, t
<1>4. ASSUME NEW i \in DOMAIN t, t[i].do = "SS_HAS_FILE"
      PROVE  /\ reader'[a] = "sync"
             /\ \A j \in DOMAIN t : j <= i => t[j].do = "SS_HAS_FILE"
  <2>1. i + 1 \in DOMAIN q /\ q[i + 1].do = "SS_HAS_FILE" /\ 1 \in DOMAIN q /\ 1 <= i + 1
    BY <1>1, <1>4
  <2>2. \A j \in DOMAIN q : j <= i + 1 => q[j].do = "SS_HAS_FILE"
    BY <1>3, <2>1 DEF Link, q
  <2>3. reader[a] = "sync" /\ q[1].do = "SS_HAS_FILE"
    BY <1>3, <2>1, <2>2 DEF Link, q
  <2>4. ASSUME NEW j \in DOMAIN t, j <= i PROVE t[j].do = "SS_HAS_FILE"
    <3>1. j + 1 \in DOMAIN q /\ j + 1 <= i + 1 /\ t[j] = q[j + 1]
      BY <1>1, <2>4
    <3> QED BY <2>2, <3>1
  <2> QED BY <1>2, <2>3, <2>4
<1>5. Link(a)'
  BY <1>2, <1>3, <1>4 DEF Link
<1>6. ASSUME NEW b \in Addresses \ {a} PROVE Link(b)'
  BY <1>2, LinkSame DEF Links
<1> QED BY <1>5, <1>6 DEF Links

\* A server that runs says something else than SS_HAS_FILE.
LEMMA LinkSays ==
    ASSUME Types, Links, NEW a \in Addresses, up[a], NEW m \in Messages,
           m.do # "SS_HAS_FILE", toNS' = [toNS EXCEPT ![a] = Append(@, m)],
           UNCHANGED <<up, reader>>, \A b \in Addresses \ {a} : unsent'[b] = unsent[b]
    PROVE  Links'
<1>1. PICK q \in Seq(Messages) : q = toNS[a]
  BY DEF Types, WireTyped
<1>2. PICK r \in Seq(Messages) : r = Append(q, m)
  <2>1. Append(q, m) \in Seq(Messages)
    OBVIOUS
  <2> QED BY <2>1
<1>3. /\ DOMAIN q = 1..Len(q) /\ DOMAIN r = 1..(Len(q) + 1) /\ Len(q) \in Nat
      /\ \A i \in DOMAIN q : r[i] = q[i] /\ r[Len(q) + 1] = m
  BY <1>1, <1>2
<1>4. toNS'[a] = r /\ \A b \in Addresses \ {a} : toNS'[b] = toNS[b]
  BY <1>1, <1>2 DEF Types, WireTyped
<1>5. Link(a)
  BY DEF Links
<1>6. r[Len(q) + 1] = m
  BY <1>1, <1>2
<1>7. ASSUME NEW i \in DOMAIN r, r[i].do = "SS_HAS_FILE"
      PROVE  /\ reader[a] = "sync"
             /\ \A j \in DOMAIN r : j <= i => r[j].do = "SS_HAS_FILE"
  <2>1. i \in DOMAIN q /\ q[i].do = "SS_HAS_FILE"
    BY <1>3, <1>6, <1>7
  <2>2. reader[a] = "sync" /\ \A j \in DOMAIN q : j <= i => q[j].do = "SS_HAS_FILE"
    BY <1>1, <1>5, <2>1 DEF Link
  <2>3. ASSUME NEW j \in DOMAIN r, j <= i PROVE j \in DOMAIN q /\ r[j] = q[j]
    BY <1>3, <2>1, <2>3
  <2> QED BY <2>2, <2>3
<1>8. Link(a)'
  BY <1>4, <1>5, <1>7 DEF Link
<1>9. ASSUME NEW b \in Addresses \ {a} PROVE Link(b)'
  BY <1>4, LinkSame DEF Links
<1> QED BY <1>8, <1>9 DEF Links

LEMMA HelloLinks ==
    ASSUME Types, Links, NEW a \in Addresses, Hello(a)
    PROVE  Links'
<1>1. PICK r : r = ss_emit_file_list(a)
  OBVIOUS
<1>2. PICK k \in Nat : /\ r \in Seq(Messages) /\ Len(r) = k + 1
                       /\ r[k + 1].do = "SS_FILES_DONE"
                       /\ \A i \in 1..k : r[i].do = "SS_HAS_FILE"
  BY <1>1, FileList DEF Types
<1>3. /\ toNS'[a] = r /\ reader'[a] = "sync" /\ up'[a] = TRUE
      /\ \A b \in Addresses \ {a} : /\ toNS'[b] = toNS[b] /\ reader'[b] = reader[b]
                                    /\ up'[b] = up[b]
      /\ unsent' = unsent
  BY <1>1 DEF Hello, Types, WireTyped, ServersTyped
<1>4. DOMAIN r = 1..(k + 1)
  BY <1>2
<1>5. ASSUME NEW i \in DOMAIN r, r[i].do = "SS_HAS_FILE", NEW j \in DOMAIN r, j <= i
      PROVE  r[j].do = "SS_HAS_FILE"
  <2>1. i \in 1..k
    BY <1>2, <1>4, <1>5
  <2>2. j \in 1..k
    BY <1>4, <1>5, <2>1
  <2> QED BY <1>2, <2>2
<1>6. Link(a)'
  BY <1>3, <1>5 DEF Link
<1>7. ASSUME NEW b \in Addresses \ {a} PROVE Link(b)'
  BY <1>3, LinkSame DEF Links
<1> QED BY <1>6, <1>7 DEF Links

LEMMA CrashLinks ==
    ASSUME Types, Links, NEW a \in Addresses, Crash(a)
    PROVE  Links'
<1>1. /\ up'[a] = FALSE /\ unsent'[a] = {} /\ reader' = reader
      /\ toNS'[a] = toNS[a] \/ toNS'[a] = <<>>
      /\ \A b \in Addresses \ {a} : /\ toNS'[b] = toNS[b] /\ unsent'[b] = unsent[b]
                                    /\ up'[b] = up[b]
  BY DEF Crash, Types, WireTyped, ServersTyped
<1>2. Link(a)
  BY DEF Links
<1>3. Link(a)'
  BY <1>1, <1>2 DEF Link
<1>4. ASSUME NEW b \in Addresses \ {a} PROVE Link(b)'
  BY <1>1, LinkSame DEF Links
<1> QED BY <1>3, <1>4 DEF Links

LEMMA DisconnectLinks ==
    ASSUME Types, Links, NEW a \in Addresses, Disconnect(a)
    PROVE  Links'
<1>1. /\ ~up[a] /\ toNS[a] = <<>> /\ reader'[a] = "none"
      /\ \A b \in Addresses \ {a} : reader'[b] = reader[b]
      /\ UNCHANGED <<toNS, up, unsent>>
  BY DEF Disconnect, server, Types, WireTyped
<1>2. Link(a)
  BY DEF Links
<1>3. Link(a)'
  BY <1>1, <1>2 DEF Link
<1>4. ASSUME NEW b \in Addresses \ {a} PROVE Link(b)'
  BY <1>1, LinkSame DEF Links
<1> QED BY <1>3, <1>4 DEF Links

LEMMA LinksSame ==
    ASSUME Links, UNCHANGED <<up, unsent, reader, toNS>>
    PROVE  Links'
BY LinkSame DEF Links

LEMMA ServeLinks ==
    ASSUME Types, Links, NEW a \in Addresses, Serve(a)
    PROVE  Links'
<1>1. PICK q \in Requests, d \in {"OK_CREATE", "OK_DELETE", "ERROR"} : ServeBy(a, q, d)
  BY ServeDoes
<1>2. PICK m \in Messages : m = [do |-> d, name |-> q.name]
  <2>1. [do |-> d, name |-> q.name] \in Messages
    BY DEF Messages, Requests
  <2> QED BY <2>1
<1>3. m.do # "SS_HAS_FILE"
  BY <1>2
<1>4. up[a] /\ UNCHANGED <<up, reader, unsent>> /\ toNS' = [toNS EXCEPT ![a] = Append(@, m)]
  BY <1>1, <1>2 DEF Serve, ServeBy
<1> QED BY <1>3, <1>4, LinkSays

\* What a server tells of a commit.
SyncBy(a, c, size) ==
    /\ c \in unsent[a] /\ c \in [name : Names, size : 0..MaxSize]
    /\ size \in 0..MaxSize
    /\ size = c.size \/ size = IF c.name \in DOMAIN disk[a] THEN disk[a][c.name] ELSE 0
    /\ [do |-> "WRITE_COMPLETE", name |-> c.name, size |-> size] \in Messages
    /\ toNS' = [toNS EXCEPT ![a] =
           Append(@, [do |-> "WRITE_COMPLETE", name |-> c.name, size |-> size])]
    /\ unsent' = [unsent EXCEPT ![a] = @ \ {c}]

LEMMA SyncDoes ==
    ASSUME Types, NEW a \in Addresses, Sync(a)
    PROVE  \E c, size : SyncBy(a, c, size)
<1>1. PICK c \in unsent[a] :
         /\ \E size \in {c.size, IF c.name \in DOMAIN disk[a] THEN disk[a][c.name] ELSE 0} :
               toNS' = [toNS EXCEPT ![a] =
                   Append(@, [do |-> "WRITE_COMPLETE", name |-> c.name, size |-> size])]
         /\ unsent' = [unsent EXCEPT ![a] = @ \ {c}]
  BY DEF Sync
<1>2. PICK size \in {c.size, IF c.name \in DOMAIN disk[a] THEN disk[a][c.name] ELSE 0} :
         toNS' = [toNS EXCEPT ![a] =
             Append(@, [do |-> "WRITE_COMPLETE", name |-> c.name, size |-> size])]
  BY <1>1
<1>3. c \in [name : Names, size : 0..MaxSize]
  BY DEF Types, ServersTyped
<1>4. c.name \in Names /\ size \in 0..MaxSize
  BY <1>3, PlacementAssumption DEF Types, ServersTyped
<1>5. [do |-> "WRITE_COMPLETE", name |-> c.name, size |-> size] \in Messages
  BY <1>4 DEF Messages
<1>6. SyncBy(a, c, size)
  BY <1>1, <1>2, <1>3, <1>4, <1>5 DEF SyncBy
<1> QED BY <1>6

LEMMA SyncLinks ==
    ASSUME Types, Links, NEW a \in Addresses, Sync(a)
    PROVE  Links'
<1>1. PICK c, size : SyncBy(a, c, size)
  BY SyncDoes
<1>2. PICK m \in Messages : m = [do |-> "WRITE_COMPLETE", name |-> c.name, size |-> size]
  BY <1>1 DEF SyncBy
<1>3. m.do # "SS_HAS_FILE"
  BY <1>2
<1>4. up[a]
  BY <1>1 DEF Links, Link, SyncBy
<1>5. /\ UNCHANGED <<up, reader>> /\ \A b \in Addresses \ {a} : unsent'[b] = unsent[b]
      /\ toNS' = [toNS EXCEPT ![a] = Append(@, m)]
  BY <1>1, <1>2 DEF Sync, SyncBy, Types, ServersTyped
<1> QED BY <1>3, <1>4, <1>5, LinkSays

LEMMA CommitLinks ==
    ASSUME Types, Links, NEW a \in Addresses, NEW n, NEW size, Commit(a, n, size)
    PROVE  Links'
<1>1. /\ up[a] /\ UNCHANGED <<up, reader, toNS>>
      /\ \A b \in Addresses \ {a} : unsent'[b] = unsent[b]
  BY DEF Commit, wire, Types, ServersTyped
<1>2. Link(a)'
  BY <1>1 DEF Link, Links
<1>3. ASSUME NEW b \in Addresses \ {a} PROVE Link(b)'
  BY <1>1, LinkSame DEF Links
<1> QED BY <1>2, <1>3 DEF Links

LEMMA RestoreLinks ==
    ASSUME Types, Links, NEW a \in Addresses, NEW n, NEW size, Restore(a, n, size)
    PROVE  Links'
<1>1. UNCHANGED <<up, reader, toNS, unsent>>
  BY DEF Restore, wire
<1>2. ASSUME NEW b \in Addresses PROVE Link(b)'
  BY <1>1, LinkSame DEF Links
<1> QED BY <1>2 DEF Links

-----------------------------------------------------------------------------
(* The basis: every step keeps the table, the types, the roles and the links *)

LEMMA BInvInit == Init => BInv
<1> SUFFICES ASSUME Init PROVE BInv
  OBVIOUS
<1>1. Roles
  BY DEF Init, Roles, Role, Waits, Awaited
<1>2. Links
  BY DEF Init, Links, Link
<1> QED BY <1>1, <1>2, IInvInit, TypesInit DEF BInv

\* The plans are of recorded files, which only the lock's holder removes or moves.
LEMMA PlansKept ==
    ASSUME Types, Roles, files' = files \/ state_lock = NoHandler
    PROVE  \A h \in Handlers : \A n \in plan[h] :
               n \in DOMAIN files' /\ files'[n].ss = files[n].ss
BY LockHolder DEF Roles, Role

LEMMA HandlerStepBasis ==
    ASSUME BInv, AddrsKept, NEW h \in Handlers, HandlerStep(h)
    PROVE  Types' /\ Roles' /\ Links'
<1> USE DEF BInv
<1>0. EntriesTyped'
  BY EntriesTypedStep DEF Types
<1>1. CASE \E n \in Names : CreateBegin(h, n)
  <2>1. PICK n \in Names : CreateBegin(h, n)
    BY <1>1
  <2>2. FilesTyped' /\ HandlersTyped'
    BY <2>1, CreateBeginTyped
  <2>3. UNCHANGED wire /\ UNCHANGED <<up, disk, unsent, untold>> /\ UNCHANGED <<reader, toNS>>
    BY <2>1 DEF CreateBegin, server, wire
  <2>4. Links' /\ WireTyped' /\ ServersTyped'
    BY <2>3, LinksSame, WireTypedSame, ServersTypedSame DEF Types
  <2> QED BY <1>0, <2>1, <2>2, <2>4, CreateBeginRoles DEF Types
<1>2. CASE \E S \in Folders : DeleteBegin(h, S)
  <2>1. PICK S \in Folders : DeleteBegin(h, S)
    BY <1>2
  <2>2. UNCHANGED wire /\ UNCHANGED <<up, disk, unsent, untold, reader, toNS>> /\ files' = files
    BY <2>1 DEF DeleteBegin, server, wire
  <2>3. Links' /\ WireTyped' /\ ServersTyped' /\ FilesTyped'
    BY <2>2, LinksSame, WireTypedSame, ServersTypedSame, FilesTypedSame DEF Types
  <2> QED BY <1>0, <2>1, <2>3, DeleteBeginTyped, DeleteBeginRoles DEF Types
<1>3. CASE Send(h)
  <2>1. AddrOf(h) \in Addresses /\ arg[h] \in Names
    BY <1>3 DEF Send, Roles, Role, Types, EntriesTyped, AddrOf
  <2>2. UNCHANGED <<up, disk, unsent, untold, reader, toNS>> /\ files' = files
    BY <1>3 DEF Send, server
  <2>3. Links' /\ ServersTyped' /\ FilesTyped'
    BY <2>2, LinksSame, ServersTypedSame, FilesTypedSame DEF Types
  <2> QED BY <1>0, <1>3, <2>1, <2>3, SendTyped, SendRoles DEF Types
<1>4. CASE CreateEnd(h)
  <2>1. UNCHANGED wire /\ UNCHANGED <<up, disk, unsent, untold, reader, toNS>> /\ EndHandler(h)
        /\ (files' = files \/ \E S : files' = Without(files, S))
    BY <1>4 DEF CreateEnd, server, wire
  <2>2. FilesTyped'
    BY <2>1, FilesTypedSame, WithoutTyped DEF Types
  <2>3. Links' /\ WireTyped' /\ ServersTyped' /\ HandlersTyped'
    BY <2>1, LinksSame, WireTypedSame, ServersTypedSame, EndHandlerTyped DEF Types
  <2> QED BY <1>0, <1>4, <2>2, <2>3, CreateEndRoles DEF Types
<1>5. CASE DeleteNext(h)
  <2>1. UNCHANGED wire /\ UNCHANGED <<up, disk, unsent, untold, reader, toNS>> /\ files' = files
    BY <1>5 DEF DeleteNext, server, wire
  <2>2. Links' /\ WireTyped' /\ ServersTyped' /\ FilesTyped'
    BY <2>1, LinksSame, WireTypedSame, ServersTypedSame, FilesTypedSame DEF Types
  <2> QED BY <1>0, <1>5, <2>2, DeleteNextTyped, DeleteNextRoles DEF Types
<1>6. CASE DeleteFails(h) \/ DeleteEnd(h)
  <2>1. UNCHANGED wire /\ UNCHANGED <<up, disk, unsent, untold, reader, toNS>> /\ EndHandler(h)
        /\ (files' = files \/ \E S : files' = Without(files, S))
    BY <1>6 DEF DeleteFails, DeleteEnd, server, wire
  <2>2. FilesTyped'
    BY <2>1, FilesTypedSame, WithoutTyped DEF Types
  <2>3. Links' /\ WireTyped' /\ ServersTyped' /\ HandlersTyped'
    BY <2>1, LinksSame, WireTypedSame, ServersTypedSame, EndHandlerTyped DEF Types
  <2> QED BY <1>0, <1>6, <2>2, <2>3, DeleteEndsRoles DEF Types
<1> QED BY <1>1, <1>2, <1>3, <1>4, <1>5, <1>6 DEF HandlerStep

LEMMA ReaderStepBasis ==
    ASSUME BInv, AddrsKept, NEW a \in Addresses, ReaderStep(a)
    PROVE  Types' /\ Roles' /\ Links'
<1> USE DEF BInv
<1>0. EntriesTyped'
  BY EntriesTypedStep DEF Types
<1>1. CASE HandOver(a)
  <2>1. UNCHANGED <<up, disk, unsent, untold>> /\ files' = files /\ reader' = reader
        /\ Unread(a) /\ Read(a)
    BY <1>1 DEF HandOver, server
  <2>2. Links' /\ ServersTyped' /\ FilesTyped'
    BY <2>1, LinkRead, ServersTypedSame, FilesTypedSame DEF Types
  <2> QED BY <1>0, <1>1, <2>2, HandOverTyped, HandOverRoles DEF Types
<1>2. CASE HasFile(a) \/ FilesDone(a) \/ WriteComplete(a) \/ Unhandled(a)
  <2>1. /\ UNCHANGED <<up, disk, unsent, untold>> /\ Unread(a) /\ Read(a)
        /\ UNCHANGED <<awaiting, toSS>> /\ UNCHANGED <<pc, arg, target, plan, left, result>>
        /\ state_lock' = state_lock
        /\ files' = files \/ state_lock = NoHandler
        /\ reader' = reader \/ reader' = [reader EXCEPT ![a] = "main"]
    BY <1>2 DEF HasFile, FilesDone, WriteComplete, Unhandled, server, handler
  <2>2. Head(toNS[a]) = toNS[a][1]
    BY <2>1, ReadTyped DEF Types
  <2>3. reader' = reader \/ toNS[a][1].do # "SS_HAS_FILE"
    BY <1>2, <2>2 DEF HasFile, FilesDone, WriteComplete, Unhandled
  <2>4. Links' /\ WireTyped' /\ ServersTyped' /\ HandlersTyped'
    BY <2>1, <2>3, LinkRead, ReadsTyped, ServersTypedSame, HandlersTypedSame DEF Types
  <2>5. FilesTyped'
    BY <1>2, HasFileTyped, WriteCompleteTyped, FilesTypedSame
       DEF Types, FilesDone, Unhandled
  <2>6. Roles'
    BY <2>1, PlansKept, RolesSame
  <2> QED BY <1>0, <2>4, <2>5, <2>6 DEF Types
<1>3. CASE Disconnect(a)
  <2>1. UNCHANGED <<up, disk, unsent, untold>> /\ files' = files
    BY <1>3 DEF Disconnect, server
  <2>2. ServersTyped' /\ FilesTyped'
    BY <2>1, ServersTypedSame, FilesTypedSame DEF Types
  <2> QED BY <1>0, <1>3, <2>2, DisconnectTyped, DisconnectRoles, DisconnectLinks DEF Types
<1> QED BY <1>1, <1>2, <1>3 DEF ReaderStep

LEMMA ServerStepBasis ==
    ASSUME BInv, AddrsKept, NEW a \in Addresses, ServerStep(a)
    PROVE  Types' /\ Roles' /\ Links'
<1> USE DEF BInv
<1>0. EntriesTyped'
  BY EntriesTypedStep DEF Types
<1>1. /\ UNCHANGED <<pc, arg, target, plan, left, result, awaiting>>
      /\ state_lock' = state_lock /\ files' = files
  BY DEF ServerStep, Hello, Crash, Serve, Sync, Commit, Restore, handler, wire
<1>2. FilesTyped' /\ HandlersTyped'
  BY <1>1, FilesTypedSame, HandlersTypedSame DEF Types
<1>3. Roles'
  BY <1>1, PlansKept, RolesSame
<1>4. CASE Hello(a)
  BY <1>0, <1>2, <1>3, <1>4, HelloTyped, HelloLinks DEF Types
<1>5. CASE Crash(a)
  BY <1>0, <1>2, <1>3, <1>5, CrashTyped, CrashLinks DEF Types
<1>6. CASE Serve(a)
  BY <1>0, <1>2, <1>3, <1>6, ServeTyped, ServeLinks DEF Types
<1>7. CASE Sync(a)
  BY <1>0, <1>2, <1>3, <1>7, SyncTyped, SyncLinks DEF Types
<1>8. CASE \E n \in Names, size \in 0..MaxSize : Commit(a, n, size)
  <2>1. PICK n \in Names, size \in 0..MaxSize : Commit(a, n, size)
    BY <1>8
  <2>2. UNCHANGED wire
    BY <2>1 DEF Commit
  <2> QED BY <1>0, <1>2, <1>3, <2>1, <2>2, CommitTyped, CommitLinks, WireTypedSame DEF Types
<1>9. CASE \E n \in Names, size \in 0..MaxSize : Restore(a, n, size)
  <2>1. PICK n \in Names, size \in 0..MaxSize : Restore(a, n, size)
    BY <1>9
  <2>2. UNCHANGED wire
    BY <2>1 DEF Restore
  <2> QED BY <1>0, <1>2, <1>3, <2>1, <2>2, RestoreTyped, RestoreLinks, WireTypedSame DEF Types
<1> QED BY <1>4, <1>5, <1>6, <1>7, <1>8, <1>9 DEF ServerStep

LEMMA BInvStep == BInv /\ [Next]_vars => BInv' /\ AddrsKept
<1> SUFFICES ASSUME BInv, [Next]_vars PROVE BInv' /\ AddrsKept
  OBVIOUS
<1>1. IInv' /\ AddrsKept
  BY IInvStep DEF BInv
<1>2. CASE UNCHANGED vars
  <2>1. /\ UNCHANGED <<pc, arg, target, plan, left, result, awaiting>>
        /\ UNCHANGED <<up, disk, unsent, untold>> /\ UNCHANGED <<up, unsent, reader, toNS>>
        /\ UNCHANGED wire
        /\ UNCHANGED <<pc, arg, target, plan, left, result>>
        /\ state_lock' = state_lock /\ files' = files
    BY <1>2 DEF vars, handler, wire, server
  <2>2. Types'
    BY <1>1, <2>1, EntriesTypedStep, FilesTypedSame, HandlersTypedSame, WireTypedSame,
       ServersTypedSame DEF BInv, Types
  <2>3. Roles' /\ Links'
    BY <1>1, <2>1, PlansKept, RolesSame, LinksSame DEF BInv
  <2> QED BY <1>1, <2>2, <2>3 DEF BInv
<1>3. CASE Next
  <2>1. Types' /\ Roles' /\ Links'
    BY <1>1, <1>3, HandlerStepBasis, ReaderStepBasis, ServerStepBasis DEF Next
  <2> QED BY <1>1, <2>1 DEF BInv
<1> QED BY <1>2, <1>3

-----------------------------------------------------------------------------
(* Trust *)

\* Doubt about a name does not go away: a command that fails ends in doubt.
FailStays(h, n) == Fails(h, n) => Fails(h, n)' \/ n \in doubt'

LEMMA SameFailStays ==
    ASSUME NEW h, NEW n, SameHandler(h)
    PROVE  FailStays(h, n)
BY DEF SameHandler, FailStays, Fails

LEMMA NoMessageNoFail ==
    ASSUME NEW h, NEW n, result[h] = NoMsg
    PROVE  FailStays(h, n)
BY DEF FailStays, Fails

LEMMA TrustStaysButOne ==
    ASSUME NEW n, NEW h0, FailStays(h0, n), doubt \subseteq doubt',
           \A h \in Handlers \ {h0} : SameHandler(h)
    PROVE  Trusted(n)' => Trusted(n)
<1>1. \A h \in Handlers : FailStays(h, n)
  BY SameFailStays
<1> QED BY <1>1 DEF Trusted, FailStays

LEMMA TrustStays ==
    ASSUME BInv, Next, NEW n \in Names, Trusted(n)'
    PROVE  Trusted(n)
<1>1. ASSUME NEW h \in Handlers, HandlerStep(h) PROVE Trusted(n)
  <2>1. CASE pc[h] \in {"idle", "create", "delete", "remove"}
    <3>1. result[h] = NoMsg
      BY <2>1 DEF BInv, Roles, Role
    <3>2. \/ (\E m \in Names : CreateBegin(h, m)) \/ (\E S \in Folders : DeleteBegin(h, S))
          \/ Send(h) \/ DeleteEnd(h)
      BY <1>1, <2>1 DEF HandlerStep, CreateEnd, DeleteNext, DeleteFails
    <3>3. doubt \subseteq doubt'
      BY <3>2 DEF CreateBegin, DeleteBegin, Send, DeleteEnd, history
    <3>4. \A k \in Handlers \ {h} : SameHandler(k)
      <4>1. CASE \E m \in Names : CreateBegin(h, m)
        BY <4>1 DEF CreateBegin, SameHandler, BInv, Types, HandlersTyped
      <4>2. CASE \E S \in Folders : DeleteBegin(h, S)
        BY <4>2 DEF DeleteBegin, SameHandler, BInv, Types, HandlersTyped
      <4>3. CASE Send(h)
        BY <4>3 DEF Send, SameHandler, BInv, Types, HandlersTyped
      <4>4. CASE DeleteEnd(h)
        BY <4>4 DEF DeleteEnd, EndHandler, SameHandler, BInv, Types, HandlersTyped
      <4> QED BY <3>2, <4>1, <4>2, <4>3, <4>4
    <3> QED BY <3>1, <3>3, <3>4, NoMessageNoFail, TrustStaysButOne
  <2>2. CASE CreateEnd(h)
    <3>1. doubt \subseteq doubt' /\ \A k \in Handlers \ {h} : SameHandler(k)
      BY <2>2, EndHandlerRole DEF CreateEnd, BInv
    <3>2. FailStays(h, n)
      BY <2>2 DEF CreateEnd, FailStays, Fails
    <3> QED BY <3>1, <3>2, TrustStaysButOne
  <2>3. CASE DeleteNext(h)
    <3>1. doubt \subseteq doubt' /\ \A k \in Handlers \ {h} : SameHandler(k)
      BY <2>3, DeleteNextDoes DEF DeleteNext, BInv
    <3>2. FailStays(h, n)
      BY <2>3 DEF DeleteNext, FailStays, Fails
    <3> QED BY <3>1, <3>2, TrustStaysButOne
  <2>4. CASE DeleteFails(h)
    <3>1. doubt' = doubt \cup plan[h] /\ pc[h] = "deleted"
          /\ \A k \in Handlers \ {h} : SameHandler(k)
      BY <2>4, EndHandlerRole DEF DeleteFails, BInv
    <3>2. arg[h] \in plan[h]
      BY <3>1 DEF BInv, Roles, Role
    <3>3. FailStays(h, n)
      BY <3>1, <3>2 DEF FailStays, Fails
    <3> QED BY <3>1, <3>3, TrustStaysButOne
  <2> QED BY <1>1, <2>1, <2>2, <2>3, <2>4
          DEF HandlerStep, CreateBegin, DeleteBegin, Send, DeleteEnd
<1>2. ASSUME NEW a \in Addresses, HandOver(a) \/ Disconnect(a) PROVE Trusted(n)
  <2>0. doubt \subseteq doubt'
    BY <1>2 DEF HandOver, Disconnect, history
  <2>1. CASE awaiting[a] = NoHandler
    <3>1. \A h \in Handlers : SameHandler(h)
      BY <1>2, <2>1 DEF HandOver, Disconnect, SameHandler
    <3>2. \A h \in Handlers : FailStays(h, n)
      BY <3>1, SameFailStays
    <3> QED BY <2>0, <3>2 DEF Trusted, FailStays
  <2>2. CASE awaiting[a] # NoHandler
    <3>1. PICK h \in Handlers : h = awaiting[a] /\ Waits(h)
      BY <2>2, WhoIsAwaited DEF BInv
    <3>2. \A k \in Handlers \ {h} : SameHandler(k)
      BY <1>2, <2>2, <3>1 DEF HandOver, Disconnect, SameHandler, BInv, Types, HandlersTyped
    <3>3. FailStays(h, n)
      BY <3>1, NoMessageNoFail DEF Waits
    <3> QED BY <2>0, <3>2, <3>3, TrustStaysButOne
  <2> QED BY <2>1, <2>2
<1>3. ASSUME NEW a \in Addresses,
             \/ HasFile(a) \/ FilesDone(a) \/ WriteComplete(a) \/ Unhandled(a)
             \/ ServerStep(a)
      PROVE  Trusted(n)
  <2>1. doubt \subseteq doubt' /\ UNCHANGED <<pc, arg, plan, result>>
    BY <1>3 DEF HasFile, FilesDone, WriteComplete, Unhandled, ServerStep, Hello, Crash,
       Serve, Sync, Commit, Restore, handler, history
  <2> QED BY <2>1 DEF Trusted, Fails
<1> QED BY <1>1, <1>2, <1>3 DEF Next, ReaderStep


-----------------------------------------------------------------------------
(* Placed: what does not concern a file *)

\* The command that awaits an answer about n is still the one.
AwaitedKept(b, n) ==
    \A p \in {"created", "deleted"} : AwaitsAbout(b, p, n) => AwaitsAbout(b, p, n)'

LEMMA ExchangeSame ==
    ASSUME NEW n, NEW b, Exchange(b, n), toNS'[b] = toNS[b], toSS'[b] = toSS[b],
           up'[b] => up[b], n \in DOMAIN disk'[b] <=> n \in DOMAIN disk[b],
           n \in DOMAIN disk[b] /\ At(n, b) => At(n, b)', AwaitedKept(b, n)
    PROVE  Exchange(b, n)'
<1>1. Reported(b, n)'
  BY DEF Exchange, Reported, Said, Says
<1>2. OneRequest(b, n)'
  BY DEF Exchange, OneRequest, Asked, Answered, Says, AwaitedKept
<1>3. OneAnswer(b, n)'
  BY DEF Exchange, OneAnswer, Answered, Says, AwaitedKept
<1> QED BY <1>1, <1>2, <1>3 DEF Exchange

LEMMA AwaitedKeptSame ==
    ASSUME NEW b, NEW n, awaiting'[b] = awaiting[b], UNCHANGED <<pc, arg>>
    PROVE  AwaitedKept(b, n)
BY DEF AwaitedKept, AwaitsAbout

\* A step of a handler that does not wait.
LEMMA AwaitedKeptButOne ==
    ASSUME Types, Roles, NEW b \in Addresses, NEW n, NEW h, ~Waits(h),
           awaiting'[b] = awaiting[b], \A k \in Handlers \ {h} : SameHandler(k)
    PROVE  AwaitedKept(b, n)
<1>1. CASE awaiting[b] = NoHandler
  BY <1>1 DEF AwaitedKept, AwaitsAbout
<1>2. CASE awaiting[b] # NoHandler
  <2>1. SameHandler(awaiting[b])
    BY <1>2, WhoIsAwaited
  <2> QED BY <2>1 DEF AwaitedKept, AwaitsAbout, SameHandler
<1> QED BY <1>1, <1>2

\* Handler h does not come to concern n, nor does it stop to.
NoConcern(h, n) ==
    /\ Creates(h, n)' => Creates(h, n) /\ AddrOf(h)' = AddrOf(h)
    /\ n \in plan'[h] => n \in plan[h]
    /\ n \in plan'[h] /\ (n \notin left'[h] \/ (n = arg'[h] /\ pc'[h] = "deleted" /\ ~Waits(h)'))
         => n \notin left[h] \/ (n = arg[h] /\ pc[h] = "deleted" /\ ~Waits(h))
    /\ n \in plan[h] => n \in plan'[h]
    /\ Creates(h, n) /\ result[h] = NoMsg => Creates(h, n)' /\ result'[h] = NoMsg

LEMMA SameNoConcern ==
    ASSUME AddrsKept, NEW h \in Handlers, Role(h), SameHandler(h), NEW n
    PROVE  NoConcern(h, n)
<1>1. Creates(h, n) => target[h] \in Entries
  BY DEF Role, Creates
<1>2. (Creates(h, n)' <=> Creates(h, n)) /\ (Waits(h)' <=> Waits(h))
  BY DEF SameHandler, Creates, Waits
<1>3. Creates(h, n) => AddrOf(h)' = AddrOf(h)
  BY <1>1, AddrOfSame DEF SameHandler
<1> QED BY <1>2, <1>3 DEF NoConcern, SameHandler

\* A step that no command about n has a part in, and that leaves its file alone.
LEMMA FileSame ==
    ASSUME Types, NEW n, OneCreator(n), Gone(n), Recorded(n),
           \A h \in Handlers : NoConcern(h, n),
           \A h \in Handlers : Role(h),
           \A a \in Addresses : At(n, a)' <=> At(n, a),
           n \in DOMAIN files' => n \in DOMAIN files,
           \A a \in Addresses : n \in DOMAIN disk'[a] <=> n \in DOMAIN disk[a]
    PROVE  OneCreator(n)' /\ Gone(n)' /\ Recorded(n)'
<1>0. \A h \in Handlers : Creates(h, n) => AddrOf(h) \in Addresses
  BY DEF Role, Creates, Types, EntriesTyped, AddrOf
<1>1. OneCreator(n)'
  <2> SUFFICES ASSUME NEW h \in Handlers, Creates(h, n)'
               PROVE  /\ At(n, AddrOf(h))'
                      /\ \A k \in Handlers : n \notin plan'[k] /\ (Creates(k, n)' => k = h)
    BY DEF OneCreator
  <2>1. Creates(h, n) /\ AddrOf(h)' = AddrOf(h)
    BY DEF NoConcern
  <2>2. At(n, AddrOf(h))'
    BY <1>0, <2>1 DEF OneCreator, At, AddrOf
  <2>3. \A k \in Handlers : n \notin plan[k] /\ (Creates(k, n) => k = h)
    BY <2>1 DEF OneCreator
  <2> QED BY <2>2, <2>3 DEF NoConcern
<1>2. Gone(n)'
  <2> SUFFICES ASSUME NEW h \in Handlers, n \in plan'[h],
                      n \notin left'[h] \/ (n = arg'[h] /\ pc'[h] = "deleted" /\ ~Waits(h)')
               PROVE  n \notin DOMAIN disk'[files'[n].ss]
    BY DEF Gone
  <2>1. n \in plan[h] /\ n \notin DOMAIN disk[files[n].ss]
    BY DEF Gone, NoConcern
  <2>2. n \in DOMAIN files /\ files[n].ss \in Addresses
    BY <2>1 DEF Role, Types, FilesTyped
  <2>3. files'[n].ss = files[n].ss
    BY <2>2 DEF At
  <2> QED BY <2>1, <2>2, <2>3
<1>3. Recorded(n)'
  <2> SUFFICES ASSUME NEW a \in Addresses, At(n, a)', n \notin DOMAIN disk'[a]
               PROVE  \E h \in Handlers : n \in plan'[h] \/ (Creates(h, n)' /\ result'[h] = NoMsg)
    BY DEF Recorded
  <2>1. PICK h \in Handlers : n \in plan[h] \/ (Creates(h, n) /\ result[h] = NoMsg)
    BY DEF Recorded
  <2> QED BY <2>1 DEF NoConcern
<1> QED BY <1>1, <1>2, <1>3

-----------------------------------------------------------------------------
(* Placed: messages *)

\* What is left of the messages when the first one is read.
LEMMA AfterRead ==
    ASSUME Types, NEW a \in Addresses, Unread(a), Read(a)
    PROVE  /\ 1 \in DOMAIN toNS[a] /\ Head(toNS[a]) = toNS[a][1] /\ toNS[a][1] \in Messages
           /\ \A i \in DOMAIN toNS[a] : i \in Nat /\ 1 <= i
           /\ DOMAIN toNS'[a] \subseteq Nat
           /\ \A i \in DOMAIN toNS'[a] :
                 i + 1 \in DOMAIN toNS[a] /\ i + 1 # 1 /\ toNS'[a][i] = toNS[a][i + 1]
           /\ \A i \in DOMAIN toNS[a] \ {1} :
                 i - 1 \in DOMAIN toNS'[a] /\ toNS'[a][i - 1] = toNS[a][i]
           /\ \A b \in Addresses \ {a} : toNS'[b] = toNS[b]
<1> DEFINE q == toNS[a]
           t == Tail(toNS[a])
<1>1. /\ Len(q) \in Nat \ {0} /\ DOMAIN q = 1..Len(q) /\ DOMAIN t = 1..(Len(q) - 1)
      /\ Head(q) = q[1] /\ Head(q) \in Messages
      /\ \A i \in DOMAIN t : t[i] = q[i + 1]
  BY ReadTyped DEF Types
<1>2. toNS'[a] = t /\ \A b \in Addresses \ {a} : toNS'[b] = toNS[b]
  BY DEF Read, Types, WireTyped
<1> HIDE DEF q, t
<1>3. \A i \in DOMAIN t : i + 1 \in DOMAIN q /\ i + 1 # 1 /\ t[i] = q[i + 1]
  BY <1>1
<1>4. ASSUME NEW i \in DOMAIN q \ {1} PROVE i - 1 \in DOMAIN t /\ t[i - 1] = q[i]
  <2>1. i - 1 \in DOMAIN t /\ (i - 1) + 1 = i
    BY <1>1
  <2> QED BY <1>1, <2>1
<1>5. 1 \in DOMAIN q /\ DOMAIN t \subseteq Nat /\ \A i \in DOMAIN q : i \in Nat /\ 1 <= i
  BY <1>1
<1> QED BY <1>1, <1>2, <1>3, <1>4, <1>5 DEF q

\* A message is read, and nobody awaits an answer about n any more.
LEMMA ReadExchange ==
    ASSUME Types, Links, NEW a \in Addresses, Unread(a), Read(a), NEW n, Exchange(a, n),
           \A i \in DOMAIN toSS[a] : ~Asked(a, i, n),
           \A i \in DOMAIN toNS[a] : Answered(a, i, n) => i = 1,
           toSS'[a] = toSS[a], up'[a] => up[a], n \in DOMAIN disk'[a] <=> n \in DOMAIN disk[a],
           \/ At(n, a)'
           \/ ~Says(a, 1, "SS_HAS_FILE", n) /\ (At(n, a) => At(n, a)')
    PROVE  Exchange(a, n)'
<1>1. /\ 1 \in DOMAIN toNS[a]
      /\ \A i \in DOMAIN toNS[a] : i \in Nat /\ 1 <= i
      /\ \A i \in DOMAIN toNS'[a] :
            i + 1 \in DOMAIN toNS[a] /\ i + 1 # 1 /\ toNS'[a][i] = toNS[a][i + 1]
      /\ \A i \in DOMAIN toNS[a] \ {1} :
            i - 1 \in DOMAIN toNS'[a] /\ toNS'[a][i - 1] = toNS[a][i]
  BY AfterRead
<1>2. \A i \in DOMAIN toNS'[a] : ~Answered(a, i, n)'
  BY <1>1 DEF Answered, Says
<1>3. OneAnswer(a, n)'
  BY <1>2 DEF OneAnswer
<1>4. OneRequest(a, n)'
  BY DEF OneRequest, Asked
<1>5. Said(a, "SS_HAS_FILE", n)' => Said(a, "SS_HAS_FILE", n)
  BY <1>1 DEF Said, Says
<1>6. Said(a, "SS_HAS_FILE", n) => \A i \in DOMAIN toNS[a] : ~Answered(a, i, n)
  <2> SUFFICES ASSUME NEW i \in DOMAIN toNS[a], Says(a, i, "SS_HAS_FILE", n)
               PROVE  ~Answered(a, 1, n)
    BY DEF Said
  <2>1. toNS[a][1].do = "SS_HAS_FILE"
    BY <1>1 DEF Links, Link, Says
  <2> QED BY <2>1 DEF Answered, Says
<1>7. Said(a, "SS_HAS_FILE", n)' => n \in DOMAIN disk'[a]
  BY <1>5, <1>6 DEF Exchange, Reported, Said, Answered, Says
<1>8. up'[a] /\ n \in DOMAIN disk'[a] => At(n, a)' \/ Said(a, "SS_HAS_FILE", n)'
  <2> SUFFICES ASSUME ~Says(a, 1, "SS_HAS_FILE", n), Said(a, "SS_HAS_FILE", n)
               PROVE  Said(a, "SS_HAS_FILE", n)'
    BY DEF Exchange, Reported
  <2>1. PICK i \in DOMAIN toNS[a] \ {1} : Says(a, i, "SS_HAS_FILE", n)
    BY DEF Said
  <2>2. i - 1 \in DOMAIN toNS'[a] /\ toNS'[a][i - 1] = toNS[a][i]
    BY <1>1
  <2> QED BY <2>1, <2>2 DEF Said, Says
<1>9. Reported(a, n)'
  BY <1>7, <1>8 DEF Reported
<1> QED BY <1>3, <1>4, <1>9 DEF Exchange

\* What the messages are when one is added.
Added(a, m, last) ==
    /\ DOMAIN toNS[a] = 1..last - 1 /\ DOMAIN toNS'[a] = 1..last
    /\ last \in DOMAIN toNS'[a] /\ last \notin DOMAIN toNS[a]
    /\ toNS'[a][last] = m
    /\ \A i \in DOMAIN toNS[a] : i \in DOMAIN toNS'[a] /\ toNS'[a][i] = toNS[a][i]
    /\ \A i \in DOMAIN toNS'[a] : i = last \/ i \in DOMAIN toNS[a]
    /\ \A b \in Addresses \ {a} : toNS'[b] = toNS[b]

LEMMA AfterSaid ==
    ASSUME Types, NEW a \in Addresses, NEW m \in Messages,
           toNS' = [toNS EXCEPT ![a] = Append(@, m)]
    PROVE  \E last \in Nat : Added(a, m, last)
<1>1. PICK q \in Seq(Messages) : q = toNS[a]
  BY DEF Types, WireTyped
<1>2. /\ Len(q) + 1 \in Nat /\ DOMAIN q = 1..Len(q) /\ DOMAIN Append(q, m) = 1..(Len(q) + 1)
      /\ Append(q, m)[Len(q) + 1] = m
      /\ \A i \in 1..Len(q) : Append(q, m)[i] = q[i]
  OBVIOUS
<1>3. toNS'[a] = Append(q, m) /\ \A b \in Addresses \ {a} : toNS'[b] = toNS[b]
  BY <1>1 DEF Types, WireTyped
<1>4. Added(a, m, Len(q) + 1)
  BY <1>1, <1>2, <1>3 DEF Added
<1> QED BY <1>2, <1>4

-----------------------------------------------------------------------------
(* Placed: a file reader's steps *)

\* What a step starts and ends with.
Before(n) == BInv /\ BInv' /\ AddrsKept /\ Trusted(n) /\ Trusted(n)' /\ Placed(n)

\* No handler changes, nor what is where.
LEMMA AllNoConcern ==
    ASSUME NEW n, Before(n), UNCHANGED <<pc, arg, target, plan, left, result>>
    PROVE  \A h \in Handlers : NoConcern(h, n)
<1>1. \A h \in Handlers : Role(h) /\ SameHandler(h)
  BY DEF Before, BInv, Roles, SameHandler
<1> QED BY <1>1, SameNoConcern DEF Before

\* Nobody awaits an answer: no command is under way at a.
LEMMA NobodyAsks ==
    ASSUME NEW n, NEW a, Exchange(a, n), \A p : ~AwaitsAbout(a, p, n)
    PROVE  /\ \A i \in DOMAIN toSS[a] : ~Asked(a, i, n)
           /\ \A i \in DOMAIN toNS[a] : ~Answered(a, i, n)
<1>1. \A i \in DOMAIN toSS[a] : ~Asked(a, i, n)
  BY DEF Exchange, OneRequest
<1>2. \A i \in DOMAIN toNS[a] : ~Answered(a, i, n)
  BY DEF Exchange, OneAnswer, Answered, Says
<1> QED BY <1>1, <1>2

\* A message that is not SS_HAS_FILE is read when nobody awaits an answer.
LEMMA ReadPlaced ==
    ASSUME NEW n \in Names, Before(n), NEW a \in Addresses, Unread(a), Read(a),
           awaiting[a] = NoHandler, toNS[a][1].do # "SS_HAS_FILE",
           UNCHANGED <<pc, arg, target, plan, left, result>>,
           UNCHANGED <<awaiting, toSS, up, disk>>,
           DOMAIN files' = DOMAIN files, \A m \in DOMAIN files : files'[m].ss = files[m].ss
    PROVE  Placed(n)'
<1>1. \A b \in Addresses : At(n, b)' <=> At(n, b)
  BY DEF At
<1>2. OneCreator(n)' /\ Gone(n)' /\ Recorded(n)'
  BY <1>1, AllNoConcern, FileSame DEF Before, BInv, Roles, Placed
<1>3. Exchange(a, n)'
  <2>1. Exchange(a, n) /\ \A p : ~AwaitsAbout(a, p, n)
    BY DEF Before, Placed, AwaitsAbout
  <2>2. ~Says(a, 1, "SS_HAS_FILE", n)
    BY DEF Says
  <2> QED BY <1>1, <2>1, <2>2, NobodyAsks, ReadExchange DEF Before, BInv
<1>4. ASSUME NEW b \in Addresses \ {a} PROVE Exchange(b, n)'
  <2>1. toNS'[b] = toNS[b] /\ Exchange(b, n)
    BY AfterRead DEF Before, BInv, Placed
  <2>2. AwaitedKept(b, n)
    BY AwaitedKeptSame
  <2> QED BY <1>1, <2>1, <2>2, ExchangeSame
<1> QED BY <1>2, <1>3, <1>4 DEF Placed

LEMMA QuietReadsPlaced ==
    ASSUME NEW n \in Names, Before(n), NEW a \in Addresses,
           FilesDone(a) \/ WriteComplete(a) \/ Unhandled(a)
    PROVE  Placed(n)'
<1>1. /\ Unread(a) /\ Read(a) /\ awaiting[a] = NoHandler
      /\ UNCHANGED <<pc, arg, target, plan, left, result>>
      /\ UNCHANGED <<awaiting, toSS, up, disk>>
  BY DEF FilesDone, WriteComplete, Unhandled, server, handler
<1>2. Head(toNS[a]) = toNS[a][1] /\ 1 \in DOMAIN toNS[a]
  BY <1>1, AfterRead DEF Before, BInv
<1>3. toNS[a][1].do = "SS_HAS_FILE" => reader[a] = "sync"
  BY <1>2 DEF Before, BInv, Links, Link
<1>4. toNS[a][1].do # "SS_HAS_FILE"
  BY <1>2, <1>3 DEF FilesDone, WriteComplete, Unhandled
<1>5. DOMAIN files' = DOMAIN files /\ \A m \in DOMAIN files : files'[m].ss = files[m].ss
  <2>1. CASE files' = files
    BY <2>1
  <2>2. CASE \E m, s : m \in DOMAIN files /\ files' = [files EXCEPT ![m].size = s]
    <3>1. \A m \in DOMAIN files : files[m] \in [ss : Addresses, size : 0..MaxSize]
      BY DEF Before, BInv, Types, FilesTyped
    <3> QED BY <2>2, <3>1
  <2> QED BY <2>1, <2>2 DEF FilesDone, WriteComplete, Unhandled, write_complete
<1> QED BY <1>1, <1>4, <1>5, ReadPlaced

\* A file is recorded where it is reported, unless that moves it.
LEMMA HasFilePlaced ==
    ASSUME NEW n \in Names, Before(n), NEW a \in Addresses, HasFile(a)
    PROVE  Placed(n)'
<1> DEFINE m == toNS[a][1]
<1>0. /\ Unread(a) /\ Read(a) /\ awaiting[a] = NoHandler /\ state_lock = NoHandler
      /\ UNCHANGED <<pc, arg, target, plan, left, result>>
      /\ UNCHANGED <<awaiting, toSS, up, disk>>
  BY DEF HasFile, server, handler
<1>1. Head(toNS[a]) = m /\ 1 \in DOMAIN toNS[a] /\ m \in Messages
  BY <1>0, AfterRead DEF Before, BInv
<1>2. /\ m.do = "SS_HAS_FILE"
      /\ files' = With(files, m.name, [ss |-> a, size |-> m.size])
      /\ m.name \in DOMAIN files /\ files[m.name].ss # a => m.name \in doubt'
  BY <1>1 DEF HasFile, reported
<1> HIDE DEF m
<1>3. \A b \in Addresses : At(n, b)' <=> IF n = m.name THEN b = a ELSE At(n, b)
  BY <1>2 DEF With, At
<1>4. n = m.name => \A b \in Addresses : At(n, b) => b = a
  BY <1>2 DEF Before, Trusted, At
<1>5. Exchange(a, n) /\ \A p : ~AwaitsAbout(a, p, n)
  BY <1>0 DEF Before, Placed, AwaitsAbout
<1>6. /\ \A i \in DOMAIN toSS[a] : ~Asked(a, i, n)
      /\ \A i \in DOMAIN toNS[a] : ~Answered(a, i, n)
  BY <1>5, NobodyAsks
<1>7. n = m.name => n \in DOMAIN disk[a]
  BY <1>1, <1>2, <1>5, <1>6 DEF m, Exchange, Reported, Said, Says, Answered
<1>8. Exchange(a, n)'
  <2>1. At(n, a)' \/ (~Says(a, 1, "SS_HAS_FILE", n) /\ (At(n, a) => At(n, a)'))
    BY <1>3 DEF Says, m
  <2> QED BY <1>0, <1>5, <1>6, <2>1, ReadExchange DEF Before, BInv
<1>9. ASSUME NEW b \in Addresses \ {a} PROVE Exchange(b, n)'
  <2>1. toNS'[b] = toNS[b] /\ Exchange(b, n)
    BY <1>0, AfterRead DEF Before, BInv, Placed
  <2>2. AwaitedKept(b, n) /\ (At(n, b) => At(n, b)')
    BY <1>0, <1>3, <1>4, AwaitedKeptSame
  <2> QED BY <1>0, <2>1, <2>2, ExchangeSame
<1>10. OneCreator(n)' /\ Gone(n)' /\ Recorded(n)'
  <2>1. CASE n # m.name
    <3>1. n \in DOMAIN files' => n \in DOMAIN files
      BY <1>2, <2>1 DEF With
    <3>2. \A b \in Addresses : At(n, b)' <=> At(n, b)
      BY <1>3, <2>1
    <3> QED BY <1>0, <3>1, <3>2, AllNoConcern, FileSame DEF Before, BInv, Roles, Placed
  <2>2. CASE n = m.name
    <3>1. \A h \in Handlers : plan[h] = {} /\ plan'[h] = {}
      BY <1>0, LockHolder DEF Before, BInv
    <3>2. \A h \in Handlers : NoConcern(h, n)
      BY <1>0, AllNoConcern
    <3>3. ASSUME NEW h \in Handlers, Creates(h, n)'
          PROVE  /\ At(n, AddrOf(h))'
                 /\ \A k \in Handlers : Creates(k, n)' => k = h
      <4>1. Creates(h, n) /\ AddrOf(h)' = AddrOf(h)
        BY <3>2, <3>3 DEF NoConcern
      <4>2. AddrOf(h) \in Addresses
        BY <4>1 DEF Before, BInv, Roles, Role, Creates, Types, EntriesTyped, AddrOf
      <4>3. AddrOf(h) = a
        BY <1>4, <2>2, <4>1, <4>2 DEF Before, Placed, OneCreator
      <4>4. At(n, a)'
        BY <1>3, <2>2
      <4>5. At(n, AddrOf(h))'
        BY <4>1, <4>3, <4>4 DEF At
      <4>6. \A k \in Handlers : Creates(k, n)' => k = h
        BY <3>2, <4>1 DEF NoConcern, Before, Placed, OneCreator
      <4> QED BY <4>5, <4>6
    <3>4. OneCreator(n)' /\ Gone(n)'
      BY <3>1, <3>3 DEF OneCreator, Gone
    <3>5. Recorded(n)'
      BY <1>0, <1>3, <1>7, <2>2 DEF Recorded
    <3> QED BY <3>4, <3>5
  <2> QED BY <2>1, <2>2
<1> QED BY <1>8, <1>9, <1>10 DEF Placed

\* The message handed over is the answer to the command about n, if there is one.
LEMMA HandedOver ==
    ASSUME NEW n \in Names, Before(n), NEW a \in Addresses, HandOver(a)
    PROVE  \E h \in Handlers :
              /\ h = awaiting[a] /\ Waits(h) /\ AddrOf(h) = a
              /\ result' = [result EXCEPT ![h] = toNS[a][1]] /\ result'[h] # NoMsg
              /\ arg[h] = n => Answered(a, 1, n)
              /\ arg[h] = n /\ pc[h] = "created" =>
                    toNS[a][1].do = "OK_CREATE" /\ n \in DOMAIN disk[a]
              /\ arg[h] = n /\ pc[h] = "deleted" => n \notin DOMAIN disk[a]
              /\ ~Says(a, 1, "SS_HAS_FILE", n)
<1> DEFINE m == toNS[a][1]
<1>1. Head(toNS[a]) = m /\ 1 \in DOMAIN toNS[a] /\ m \in Messages
  BY AfterRead DEF Before, BInv, HandOver
<1>2. PICK h \in Handlers : h = awaiting[a] /\ Waits(h) /\ AddrOf(h) = a
  BY WhoIsAwaited DEF Before, BInv, HandOver
<1>3. result' = [result EXCEPT ![h] = m] /\ result'[h] = m /\ m # NoMsg
  BY <1>1, <1>2, PlacementAssumption DEF HandOver, Before, BInv, Types, HandlersTyped
<1>4. UNCHANGED <<pc, arg, plan>>
  BY DEF HandOver
<1>5. ~Fails(h, n)'
  BY DEF Before, Trusted
<1>6. arg[h] = n /\ pc[h] = "deleted" => n \in plan[h]
  BY <1>2 DEF Before, BInv, Roles, Role
<1>7. arg[h] = n => /\ pc[h] = "created" => m.do = "OK_CREATE" /\ m.name = n
                    /\ pc[h] = "deleted" => m.do = "OK_DELETE" /\ m.name = n
                    /\ pc[h] \in {"created", "deleted"}
  <2>1. pc[h] \in {"created", "deleted"}
    BY <1>2 DEF Waits
  <2>2. arg[h] = n /\ pc[h] = "created" => m.do = "OK_CREATE" /\ m.name = n
    BY <1>2, <1>3, <1>4, <1>5, <1>1 DEF Fails, m
  <2>3. arg[h] = n /\ pc[h] = "deleted" => m.do = "OK_DELETE" /\ m.name = n
    BY <1>2, <1>3, <1>4, <1>5, <1>6 DEF Fails
  <2> QED BY <2>1, <2>2, <2>3
<1>8. arg[h] = n => Answered(a, 1, n)
  BY <1>1, <1>7 DEF Answered, Says
<1>9. OneAnswer(a, n)
  BY DEF Before, Placed, Exchange
<1>10. /\ arg[h] = n /\ pc[h] = "created" =>
             m.do = "OK_CREATE" /\ n \in DOMAIN disk[a]
       /\ arg[h] = n /\ pc[h] = "deleted" => n \notin DOMAIN disk[a]
  BY <1>1, <1>7, <1>8, <1>9 DEF OneAnswer
<1>11. ~Says(a, 1, "SS_HAS_FILE", n)
  BY <1>1 DEF HandOver, Before, Trusted, Says
<1> QED BY <1>2, <1>3, <1>8, <1>10, <1>11

LEMMA HandOverPlaced ==
    ASSUME NEW n \in Names, Before(n), NEW a \in Addresses, HandOver(a)
    PROVE  Placed(n)'
<1>1. PICK h \in Handlers :
              /\ h = awaiting[a] /\ Waits(h) /\ AddrOf(h) = a
              /\ result' = [result EXCEPT ![h] = toNS[a][1]] /\ result'[h] # NoMsg
              /\ arg[h] = n => Answered(a, 1, n)
              /\ arg[h] = n /\ pc[h] = "created" =>
                    toNS[a][1].do = "OK_CREATE" /\ n \in DOMAIN disk[a]
              /\ arg[h] = n /\ pc[h] = "deleted" => n \notin DOMAIN disk[a]
              /\ ~Says(a, 1, "SS_HAS_FILE", n)
  BY HandedOver
<1>2. /\ Unread(a) /\ Read(a) /\ awaiting' = [awaiting EXCEPT ![a] = NoHandler]
      /\ UNCHANGED <<files, pc, arg, target, plan, left, toSS, up, disk>>
  BY DEF HandOver, server
<1>3. \A b \in Addresses : At(n, b)' <=> At(n, b)
  BY <1>2 DEF At
<1>4. \A k \in Handlers \ {h} : SameHandler(k)
  BY <1>1, <1>2 DEF SameHandler, Before, BInv, Types, HandlersTyped
<1>5. Exchange(a, n) /\ OneRequest(a, n) /\ OneAnswer(a, n) /\ Recorded(n) /\ Gone(n)
      /\ OneCreator(n)
  BY DEF Before, Placed, Exchange
<1>6. /\ \A i \in DOMAIN toSS[a] : ~Asked(a, i, n)
      /\ \A i \in DOMAIN toNS[a] : Answered(a, i, n) => i = 1
  <2>1. CASE arg[h] = n
    <3>1. Answered(a, 1, n) /\ 1 \in DOMAIN toNS[a]
      BY <1>1, <2>1 DEF Answered, Says
    <3> QED BY <1>5, <3>1 DEF OneRequest, OneAnswer
  <2>2. CASE arg[h] # n
    <3>1. \A p : ~AwaitsAbout(a, p, n)
      BY <1>1, <2>2 DEF AwaitsAbout
    <3> QED BY <1>5, <3>1, NobodyAsks
  <2> QED BY <2>1, <2>2
<1>7. Exchange(a, n)'
  <2>1. /\ toSS'[a] = toSS[a] /\ up'[a] => up[a]
        /\ n \in DOMAIN disk'[a] <=> n \in DOMAIN disk[a]
        /\ ~Says(a, 1, "SS_HAS_FILE", n) /\ (At(n, a) => At(n, a)')
        /\ Types /\ Links
    BY <1>1, <1>2, <1>3 DEF Before, BInv
  <2> QED BY <1>2, <1>5, <1>6, <2>1, ReadExchange
<1>8. ASSUME NEW b \in Addresses \ {a} PROVE Exchange(b, n)'
  <2>1. toNS'[b] = toNS[b] /\ Exchange(b, n)
    BY <1>2, AfterRead DEF Before, BInv, Placed
  <2>2. awaiting'[b] = awaiting[b]
    BY <1>2 DEF Before, BInv, Types, WireTyped
  <2>3. AwaitedKept(b, n)
    BY <1>2, <2>2, AwaitedKeptSame
  <2> QED BY <1>2, <1>3, <2>1, <2>3, ExchangeSame
<1>9. CASE arg[h] # n
  <2>1. h \in Handlers /\ ~Creates(h, n) /\ ~Creates(h, n)'
    BY <1>2, <1>9 DEF Creates
  <2>2. NoConcern(h, n)
    BY <1>2, <1>9, <2>1 DEF NoConcern
  <2>3. \A k \in Handlers \ {h} : NoConcern(k, n)
    BY <1>4, SameNoConcern DEF Before, BInv, Roles
  <2>4. \A k \in Handlers : NoConcern(k, n)
    BY <2>2, <2>3
  <2>5. OneCreator(n)' /\ Gone(n)' /\ Recorded(n)'
    BY <1>2, <1>3, <2>4, FileSame DEF Before, BInv, Roles, Placed
  <2> QED BY <1>7, <1>8, <2>5 DEF Placed
<1>10. CASE arg[h] = n
  <2>0. /\ \A k \in Handlers : Creates(k, n)' <=> Creates(k, n)
        /\ \A k \in Handlers : Creates(k, n) => AddrOf(k)' = AddrOf(k)
    <3>1. \A k \in Handlers : Creates(k, n) => target[k] \in Entries
      BY DEF Before, BInv, Roles, Role, Creates
    <3> QED BY <1>2, <3>1, AddrOfSame DEF Before, Creates
  <2>1. OneCreator(n)'
    <3> SUFFICES ASSUME NEW k \in Handlers, Creates(k, n)'
                 PROVE  /\ At(n, AddrOf(k))'
                        /\ \A j \in Handlers : n \notin plan'[j] /\ (Creates(j, n)' => j = k)
      BY DEF OneCreator
    <3>1. At(n, AddrOf(k)) /\ AddrOf(k)' = AddrOf(k)
          /\ \A j \in Handlers : n \notin plan[j] /\ (Creates(j, n) => j = k)
      BY <1>5, <2>0 DEF OneCreator
    <3> QED BY <1>2, <2>0, <3>1 DEF At
  <2>2. Gone(n)'
    <3> SUFFICES ASSUME NEW k \in Handlers, n \in plan[k],
                        n \notin left[k] \/ (n = arg[k] /\ pc[k] = "deleted")
                 PROVE  n \notin DOMAIN disk[files[n].ss]
      BY <1>2 DEF Gone
    <3>1. CASE k # h
      <4>1. n \notin left[k] \/ (n = arg[k] /\ pc[k] = "deleted" /\ ~Waits(k))
        <5>1. pc[k] = "deleted" => pc[h] # "deleted"
          BY <3>1, LockHolder DEF Before, BInv
        <5>2. pc[h] = "created" => n \notin plan[k]
          BY <1>5, <1>10 DEF OneCreator, Creates
        <5> QED BY <1>1, <5>1, <5>2 DEF Waits
      <4> QED BY <1>5, <4>1 DEF Gone
    <3>2. CASE k = h /\ n \notin left[h]
      BY <1>5, <3>2 DEF Gone
    <3>3. CASE k = h /\ n \in left[h]
      <4>1. files[n].ss = a /\ pc[h] = "deleted"
        BY <1>1, <1>10, <3>3 DEF Before, BInv, Roles, Role
      <4> QED BY <1>1, <1>10, <4>1
    <3> QED BY <3>1, <3>2, <3>3
  <2>3. Recorded(n)'
    <3> SUFFICES ASSUME NEW b \in Addresses, At(n, b), n \notin DOMAIN disk[b]
                 PROVE  \E k \in Handlers : n \in plan'[k] \/ (Creates(k, n)' /\ result'[k] = NoMsg)
      BY <1>2, <1>3 DEF Recorded
    <3>1. PICK k \in Handlers : n \in plan[k] \/ (Creates(k, n) /\ result[k] = NoMsg)
      BY <1>5 DEF Recorded
    <3>2. CASE n \in plan[k]
      BY <1>2, <3>2
    <3>3. CASE Creates(k, n) /\ result[k] = NoMsg /\ k # h
      BY <1>4, <2>0, <3>3 DEF SameHandler
    <3>4. CASE Creates(k, n) /\ k = h
      <4>1. At(n, a) /\ pc[h] = "created"
        BY <1>1, <1>5, <3>4 DEF OneCreator, Creates, Waits
      <4>2. b = a
        BY <4>1 DEF At
      <4> QED BY <1>1, <1>10, <4>1, <4>2
    <3> QED BY <3>1, <3>2, <3>3, <3>4
  <2> QED BY <1>7, <1>8, <2>1, <2>2, <2>3 DEF Placed
<1> QED BY <1>9, <1>10

LEMMA DisconnectPlaced ==
    ASSUME NEW n \in Names, Before(n), NEW a \in Addresses, Disconnect(a)
    PROVE  Placed(n)'
<1>1. /\ toNS[a] = <<>> /\ ~up[a]
      /\ UNCHANGED <<files, pc, arg, target, plan, left, toSS, toNS, up, disk>>
  BY DEF Disconnect, server
<1>2. \A b \in Addresses : At(n, b)' <=> At(n, b)
  BY <1>1 DEF At
<1>3. \A p : ~AwaitsAbout(a, p, n)
  <2>1. CASE awaiting[a] = NoHandler
    BY <2>1 DEF AwaitsAbout
  <2>2. CASE awaiting[a] # NoHandler
    <3>1. PICK h \in Handlers : h = awaiting[a] /\ Waits(h)
      BY <2>2, WhoIsAwaited DEF Before, BInv
    <3>2. result'[h] = [do |-> "FAILED"] /\ result'[h] # NoMsg
      <4>1. [do |-> "FAILED"] \in Messages
        BY DEF Messages
      <4> QED BY <2>2, <3>1, <4>1, PlacementAssumption
              DEF Disconnect, Before, BInv, Types, HandlersTyped
    <3>3. ~Fails(h, n)'
      BY DEF Before, Trusted
    <3>4. arg[h] # n
      <4>1. pc[h] = "deleted" => arg[h] \in plan[h]
        BY DEF Before, BInv, Roles, Role
      <4> QED BY <1>1, <3>1, <3>2, <3>3, <4>1 DEF Fails, Waits
    <3> QED BY <3>1, <3>4 DEF AwaitsAbout
  <2> QED BY <2>1, <2>2
<1>4. Exchange(a, n)'
  <2>1. Exchange(a, n)
    BY DEF Before, Placed
  <2>2. AwaitedKept(a, n)
    BY <1>3 DEF AwaitedKept
  <2> QED BY <1>1, <1>2, <2>1, <2>2, ExchangeSame
<1>5. ASSUME NEW b \in Addresses \ {a} PROVE Exchange(b, n)'
  <2>1. Exchange(b, n) /\ awaiting'[b] = awaiting[b]
    BY DEF Before, Placed, BInv, Types, WireTyped, Disconnect
  <2>2. AwaitedKept(b, n)
    BY <1>1, <2>1, AwaitedKeptSame
  <2> QED BY <1>1, <1>2, <2>1, <2>2, ExchangeSame
<1>6. \A h \in Handlers : NoConcern(h, n)
  <2> TAKE h \in Handlers
  <2>1. Role(h)
    BY DEF Before, BInv, Roles
  <2>2. CASE SameHandler(h)
    BY <2>1, <2>2, SameNoConcern DEF Before
  <2>3. CASE ~SameHandler(h)
    <3>1. h = awaiting[a] /\ awaiting[a] # NoHandler
      BY <1>1, <2>3, PlacementAssumption
         DEF Disconnect, SameHandler, Before, BInv, Types, HandlersTyped, WireTyped
    <3>2. Waits(h)
      BY <3>1, WhoIsAwaited DEF Before, BInv
    <3>3. arg[h] # n
      BY <1>3, <3>1 DEF AwaitsAbout
    <3> QED BY <1>1, <3>3 DEF NoConcern, Creates
  <2> QED BY <2>2, <2>3
<1>7. OneCreator(n)' /\ Gone(n)' /\ Recorded(n)'
  BY <1>1, <1>2, <1>6, FileSame DEF Before, BInv, Roles, Placed
<1> QED BY <1>4, <1>5, <1>7 DEF Placed

-----------------------------------------------------------------------------
(* Placed: a storage server's steps *)

\* A step that changes only what is said to and by a, or what a has.
LEMMA ServerPlaced ==
    ASSUME NEW n \in Names, Before(n), NEW a \in Addresses, Exchange(a, n)',
           UNCHANGED <<pc, arg, target, plan, left, result>>, UNCHANGED <<files, awaiting>>,
           \A b \in Addresses \ {a} :
               /\ toNS'[b] = toNS[b] /\ toSS'[b] = toSS[b] /\ up'[b] = up[b]
               /\ disk'[b] = disk[b],
           n \in DOMAIN disk'[a] <=> n \in DOMAIN disk[a]
    PROVE  Placed(n)'
<1>1. \A b \in Addresses : At(n, b)' <=> At(n, b)
  BY DEF At
<1>2. \A b \in Addresses : n \in DOMAIN disk'[b] <=> n \in DOMAIN disk[b]
  OBVIOUS
<1>3. OneCreator(n)' /\ Gone(n)' /\ Recorded(n)'
  BY <1>1, <1>2, AllNoConcern, FileSame DEF Before, BInv, Roles, Placed
<1>4. ASSUME NEW b \in Addresses \ {a} PROVE Exchange(b, n)'
  <2>1. Exchange(b, n) /\ AwaitedKept(b, n)
    BY AwaitedKeptSame DEF Before, Placed
  <2> QED BY <1>1, <2>1, ExchangeSame
<1> QED BY <1>3, <1>4 DEF Placed

LEMMA HelloPlaced ==
    ASSUME NEW n \in Names, Before(n), NEW a \in Addresses, Hello(a)
    PROVE  Placed(n)'
<1>1. /\ UNCHANGED <<pc, arg, target, plan, left, result>> /\ UNCHANGED <<files, awaiting>>
      /\ disk' = disk
  BY DEF Hello, handler
<1>2. /\ toNS'[a] = ss_emit_file_list(a) /\ toSS'[a] = <<>>
      /\ \A b \in Addresses \ {a} :
            toNS'[b] = toNS[b] /\ toSS'[b] = toSS[b] /\ up'[b] = up[b]
  BY DEF Hello, Before, BInv, Types, WireTyped, ServersTyped
<1> DEFINE list == ss_emit_file_list(a)
<1>0. ServersTyped
  BY DEF Before, BInv, Types
<1>3. PICK k \in Nat :
         /\ list \in Seq(Messages) /\ Len(list) = k + 1
         /\ list[k + 1].do = "SS_FILES_DONE"
         /\ \A i \in 1..k : /\ list[i].do = "SS_HAS_FILE"
                            /\ list[i].name \in DOMAIN disk[a]
                            /\ list[i].size = disk[a][list[i].name]
         /\ \A m \in DOMAIN disk[a] : \E i \in 1..k : list[i].name = m
  BY <1>0, FileList
<1> HIDE DEF list
<1>4. toNS'[a] = list /\ DOMAIN toNS'[a] = 1..(k + 1)
  BY <1>2, <1>3 DEF list
<1>5. OneRequest(a, n)'
  BY <1>2 DEF OneRequest, Asked
<1>6. \A i \in DOMAIN toNS'[a] : ~Answered(a, i, n)'
  <2>1. \A i \in DOMAIN toNS'[a] : toNS'[a][i].do \in {"SS_HAS_FILE", "SS_FILES_DONE"}
    BY <1>3, <1>4
  <2> QED BY <2>1 DEF Answered, Says
<1>7. OneAnswer(a, n)'
  BY <1>6 DEF OneAnswer
<1>8. Said(a, "SS_HAS_FILE", n)' <=> n \in DOMAIN disk[a]
  <2>1. ASSUME Said(a, "SS_HAS_FILE", n)' PROVE n \in DOMAIN disk[a]
    <3>1. PICK i \in 1..(k + 1) : toNS'[a][i].do = "SS_HAS_FILE" /\ toNS'[a][i].name = n
      BY <1>4, <2>1 DEF Said, Says
    <3>2. i \in 1..k
      BY <1>3, <1>4, <3>1
    <3> QED BY <1>3, <1>4, <3>1, <3>2
  <2>2. ASSUME n \in DOMAIN disk[a] PROVE Said(a, "SS_HAS_FILE", n)'
    <3>1. PICK i \in 1..k : toNS'[a][i].name = n /\ toNS'[a][i].do = "SS_HAS_FILE"
      BY <1>3, <1>4, <2>2
    <3>2. i \in DOMAIN toNS'[a]
      BY <1>4
    <3> QED BY <3>1, <3>2 DEF Said, Says
  <2> QED BY <2>1, <2>2
<1>9. Exchange(a, n)'
  BY <1>1, <1>5, <1>7, <1>8 DEF Exchange, Reported
<1> QED BY <1>1, <1>2, <1>9, ServerPlaced

LEMMA CrashPlaced ==
    ASSUME NEW n \in Names, Before(n), NEW a \in Addresses, Crash(a)
    PROVE  Placed(n)'
<1>1. /\ UNCHANGED <<pc, arg, target, plan, left, result>> /\ UNCHANGED <<files, awaiting>>
      /\ disk' = disk
  BY DEF Crash, handler
<1>2. /\ toSS'[a] = <<>> /\ ~up'[a] /\ (toNS'[a] = toNS[a] \/ toNS'[a] = <<>>)
      /\ \A b \in Addresses \ {a} :
            toNS'[b] = toNS[b] /\ toSS'[b] = toSS[b] /\ up'[b] = up[b]
  BY DEF Crash, Before, BInv, Types, WireTyped, ServersTyped
<1>3. AwaitedKept(a, n)
  BY <1>1, AwaitedKeptSame
<1>4. OneRequest(a, n)'
  BY <1>2 DEF OneRequest, Asked
<1>5. Exchange(a, n)
  BY DEF Before, Placed
<1>6. CASE toNS'[a] = toNS[a]
  <2>1. OneAnswer(a, n)'
    BY <1>1, <1>3, <1>5, <1>6 DEF Exchange, OneAnswer, Answered, Says, AwaitedKept
  <2>2. Reported(a, n)'
    BY <1>1, <1>2, <1>5, <1>6 DEF Exchange, Reported, Said, Says
  <2>3. Exchange(a, n)'
    BY <1>4, <2>1, <2>2 DEF Exchange
  <2> QED BY <1>1, <1>2, <2>3, ServerPlaced
<1>7. CASE toNS'[a] = <<>>
  <2>1. \A i : i \notin DOMAIN toNS'[a]
    BY <1>7
  <2>2. Exchange(a, n)'
    BY <1>2, <1>4, <2>1 DEF Exchange, OneAnswer, Reported, Said, Says
  <2> QED BY <1>1, <1>2, <2>2, ServerPlaced
<1> QED BY <1>2, <1>6, <1>7

LEMMA CommitPlaced ==
    ASSUME NEW n \in Names, Before(n), NEW a \in Addresses, NEW m, NEW size, Commit(a, m, size)
    PROVE  Placed(n)'
<1>1. /\ UNCHANGED <<pc, arg, target, plan, left, result>> /\ UNCHANGED <<files, awaiting>>
      /\ UNCHANGED <<toNS, toSS, up>>
  BY DEF Commit, handler, wire
<1>2. DOMAIN disk'[a] = DOMAIN disk[a] /\ \A b \in Addresses \ {a} : disk'[b] = disk[b]
  BY DEF Commit, Before, BInv, Types, ServersTyped
<1>3. Exchange(a, n)'
  <2>1. AwaitedKept(a, n) /\ Exchange(a, n) /\ (At(n, a) => At(n, a)')
    BY <1>1, AwaitedKeptSame DEF Before, Placed, At
  <2> QED BY <1>1, <1>2, <2>1, ExchangeSame
<1> QED BY <1>1, <1>2, <1>3, ServerPlaced

LEMMA RestorePlaced ==
    ASSUME NEW n \in Names, Before(n), NEW a \in Addresses, NEW m, NEW size,
           Restore(a, m, size)
    PROVE  Placed(n)'
<1>1. /\ UNCHANGED <<pc, arg, target, plan, left, result>> /\ UNCHANGED <<files, awaiting>>
      /\ UNCHANGED <<toNS, toSS, up>>
  BY DEF Restore, handler, wire
<1>2. DOMAIN disk'[a] = DOMAIN disk[a] /\ \A b \in Addresses \ {a} : disk'[b] = disk[b]
  BY DEF Restore, Before, BInv, Types, ServersTyped
<1>3. Exchange(a, n)'
  <2>1. AwaitedKept(a, n) /\ Exchange(a, n) /\ (At(n, a) => At(n, a)')
    BY <1>1, AwaitedKeptSame DEF Before, Placed, At
  <2> QED BY <1>1, <1>2, <2>1, ExchangeSame
<1> QED BY <1>1, <1>2, <1>3, ServerPlaced

\* A message that is neither a report nor an answer about n is sent.
LEMMA SaysPlaced ==
    ASSUME Types, NEW a \in Addresses, NEW m \in Messages, NEW n, Reported(a, n),
           toNS' = [toNS EXCEPT ![a] = Append(@, m)],
           m.do = "SS_HAS_FILE" => m.name # n,
           up'[a] => up[a], n \in DOMAIN disk'[a] <=> n \in DOMAIN disk[a],
           At(n, a) => At(n, a)'
    PROVE  Reported(a, n)'
<1>1. PICK last \in Nat : Added(a, m, last)
  BY AfterSaid
<1>2. \A d : Said(a, d, n) => Said(a, d, n)'
  BY <1>1 DEF Added, Said, Says
<1>3. Said(a, "SS_HAS_FILE", n)' => Said(a, "SS_HAS_FILE", n)
  BY <1>1 DEF Added, Said, Says
<1> QED BY <1>2, <1>3 DEF Reported

LEMMA SyncPlaced ==
    ASSUME NEW n \in Names, Before(n), NEW a \in Addresses, Sync(a)
    PROVE  Placed(n)'
<1>1. /\ UNCHANGED <<pc, arg, target, plan, left, result>> /\ UNCHANGED <<files, awaiting>>
      /\ UNCHANGED <<toSS, up, disk>>
  BY DEF Sync, handler
<1>2. PICK c, size : SyncBy(a, c, size)
  BY SyncDoes DEF Before, BInv
<1>3. PICK m \in Messages : m = [do |-> "WRITE_COMPLETE", name |-> c.name, size |-> size]
  BY <1>2 DEF SyncBy
<1>4. toNS' = [toNS EXCEPT ![a] = Append(@, m)] /\ m.do = "WRITE_COMPLETE"
  BY <1>2, <1>3 DEF SyncBy
<1>5. Exchange(a, n) /\ AwaitedKept(a, n) /\ (At(n, a) => At(n, a)')
  BY <1>1, AwaitedKeptSame DEF Before, Placed, At
<1>6. Reported(a, n)'
  <2>1. m.do = "SS_HAS_FILE" => m.name # n
    BY <1>4
  <2>2. Reported(a, n) /\ Types /\ up' = up /\ disk' = disk
    BY <1>1, <1>5 DEF Exchange, Before, BInv
  <2> QED BY <1>4, <1>5, <2>1, <2>2, SaysPlaced
<1>7. PICK last \in Nat : Added(a, m, last)
  BY <1>4, AfterSaid DEF Before, BInv
<1>8. \A i : Answered(a, i, n)' => /\ Answered(a, i, n) /\ toNS'[a][i] = toNS[a][i]
                                  /\ i \in DOMAIN toNS[a]
  BY <1>4, <1>7 DEF Added, Answered, Says
<1>9. OneRequest(a, n)'
  BY <1>1, <1>5, <1>8 DEF Exchange, OneRequest, Asked, AwaitedKept
<1>10. OneAnswer(a, n)'
  <2> SUFFICES ASSUME NEW i \in DOMAIN toNS'[a], Answered(a, i, n)'
               PROVE  /\ toNS'[a][i].do = "OK_CREATE" =>
                            AwaitsAbout(a, "created", n)' /\ n \in DOMAIN disk'[a]
                      /\ toNS'[a][i].do = "OK_DELETE" =>
                            AwaitsAbout(a, "deleted", n)' /\ n \notin DOMAIN disk'[a]
                      /\ \A j \in DOMAIN toNS'[a] : Answered(a, j, n)' => j = i
    BY DEF OneAnswer
  <2>1. Answered(a, i, n) /\ toNS'[a][i] = toNS[a][i] /\ i \in DOMAIN toNS[a]
    BY <1>8 DEF Answered, Says
  <2>2. \A j : Answered(a, j, n)' => j \in DOMAIN toNS[a]
    BY <1>8 DEF Answered, Says
  <2> QED BY <1>1, <1>5, <1>8, <2>1, <2>2 DEF Exchange, OneAnswer, AwaitedKept
<1>11. Exchange(a, n)'
  BY <1>6, <1>9, <1>10 DEF Exchange
<1>12. \A b \in Addresses \ {a} : toNS'[b] = toNS[b]
  BY <1>7 DEF Added
<1> QED BY <1>1, <1>11, <1>12, ServerPlaced

\* What ServeBy says of the requests that are left.
LEMMA AfterServe ==
    ASSUME Types, NEW a \in Addresses, NEW q, NEW d, ServeBy(a, q, d)
    PROVE  /\ 1 \in DOMAIN toSS[a] /\ q = toSS[a][1]
           /\ \A i \in DOMAIN toSS'[a] :
                 i + 1 \in DOMAIN toSS[a] /\ i + 1 # 1 /\ toSS'[a][i] = toSS[a][i + 1]
           /\ \A i, j \in DOMAIN toSS'[a] : i + 1 = j + 1 => i = j
           /\ \A b \in Addresses \ {a} : toSS'[b] = toSS[b]
<1>1. /\ Len(toSS[a]) \in Nat \ {0} /\ DOMAIN toSS[a] = 1..Len(toSS[a])
      /\ DOMAIN Tail(toSS[a]) = 1..(Len(toSS[a]) - 1) /\ q = toSS[a][1]
      /\ \A i \in DOMAIN Tail(toSS[a]) : Tail(toSS[a])[i] = toSS[a][i + 1]
      /\ toSS' = [toSS EXCEPT ![a] = Tail(@)]
  BY DEF ServeBy
<1>2. toSS'[a] = Tail(toSS[a]) /\ \A b \in Addresses \ {a} : toSS'[b] = toSS[b]
  BY <1>1 DEF Types, WireTyped
<1> DEFINE s == toSS[a]
           t == Tail(s)
<1>3. /\ Len(s) \in Nat \ {0} /\ DOMAIN s = 1..Len(s) /\ DOMAIN t = 1..(Len(s) - 1)
      /\ q = s[1] /\ \A i \in DOMAIN t : t[i] = s[i + 1]
      /\ toSS'[a] = t
  BY <1>1, <1>2
<1> HIDE DEF s, t
<1>4. 1 \in DOMAIN s /\ \A i \in DOMAIN t : i + 1 \in DOMAIN s /\ i + 1 # 1
  BY <1>3
<1>5. \A i, j \in DOMAIN t : i + 1 = j + 1 => i = j
  BY <1>3
<1> QED BY <1>2, <1>3, <1>4, <1>5 DEF s

\* A request about another file is carried out.
LEMMA ServeOther ==
    ASSUME NEW n \in Names, Before(n), NEW a \in Addresses, Serve(a), NEW q \in Requests,
           NEW d \in {"OK_CREATE", "OK_DELETE", "ERROR"}, ServeBy(a, q, d), q.name # n
    PROVE  Placed(n)'
<1>1. /\ UNCHANGED <<pc, arg, target, plan, left, result>> /\ UNCHANGED <<files, awaiting>>
      /\ up' = up
  BY DEF Serve, handler
<1>2. /\ n \in DOMAIN disk'[a] <=> n \in DOMAIN disk[a]
      /\ \A b \in Addresses \ {a} : disk'[b] = disk[b]
  BY DEF ServeBy, With, Without, Before, BInv, Types, ServersTyped
<1>3. PICK m \in Messages : m = [do |-> d, name |-> q.name]
  BY DEF Messages, Requests
<1>4. toNS' = [toNS EXCEPT ![a] = Append(@, m)] /\ m.name # n /\ m.do # "SS_HAS_FILE"
  BY <1>3 DEF ServeBy
<1>5. PICK last \in Nat : Added(a, m, last)
  BY <1>4, AfterSaid DEF Before, BInv
<1>6. Types
  BY DEF Before, BInv
<1>7. Exchange(a, n) /\ Reported(a, n) /\ AwaitedKept(a, n) /\ (At(n, a) => At(n, a)')
  BY <1>1, AwaitedKeptSame DEF Before, Placed, Exchange, At
<1>8. Reported(a, n)'
  BY <1>1, <1>2, <1>4, <1>6, <1>7, SaysPlaced
<1>9. \A i : Answered(a, i, n)' => /\ Answered(a, i, n) /\ toNS'[a][i] = toNS[a][i]
                                  /\ i \in DOMAIN toNS[a]
  BY <1>4, <1>5 DEF Added, Answered, Says
<1>10. OneAnswer(a, n)'
  <2> SUFFICES ASSUME NEW i \in DOMAIN toNS'[a], Answered(a, i, n)'
               PROVE  /\ toNS'[a][i].do = "OK_CREATE" =>
                            AwaitsAbout(a, "created", n)' /\ n \in DOMAIN disk'[a]
                      /\ toNS'[a][i].do = "OK_DELETE" =>
                            AwaitsAbout(a, "deleted", n)' /\ n \notin DOMAIN disk'[a]
                      /\ \A j \in DOMAIN toNS'[a] : Answered(a, j, n)' => j = i
    BY DEF OneAnswer
  <2>1. Answered(a, i, n) /\ toNS'[a][i] = toNS[a][i] /\ i \in DOMAIN toNS[a]
    BY <1>9
  <2> QED BY <1>2, <1>7, <1>9, <2>1 DEF Exchange, OneAnswer, AwaitedKept
<1>11. /\ \A i \in DOMAIN toSS'[a] :
             i + 1 \in DOMAIN toSS[a] /\ toSS'[a][i] = toSS[a][i + 1]
       /\ \A i, j \in DOMAIN toSS'[a] : i + 1 = j + 1 => i = j
       /\ \A b \in Addresses \ {a} : toSS'[b] = toSS[b]
  BY <1>6, AfterServe
<1>12. OneRequest(a, n)'
  <2> SUFFICES ASSUME NEW i \in DOMAIN toSS'[a], Asked(a, i, n)'
               PROVE  /\ toSS'[a][i].do = "CREATE_FILE" => AwaitsAbout(a, "created", n)'
                      /\ toSS'[a][i].do # "CREATE_FILE" => AwaitsAbout(a, "deleted", n)'
                      /\ \A j \in DOMAIN toSS'[a] : Asked(a, j, n)' => j = i
                      /\ \A j \in DOMAIN toNS'[a] : ~Answered(a, j, n)'
    BY DEF OneRequest
  <2>1. Asked(a, i + 1, n) /\ i + 1 \in DOMAIN toSS[a]
    BY <1>11 DEF Asked
  <2>2. /\ toSS[a][i + 1].do = "CREATE_FILE" => AwaitsAbout(a, "created", n)
        /\ toSS[a][i + 1].do # "CREATE_FILE" => AwaitsAbout(a, "deleted", n)
        /\ \A j \in DOMAIN toSS[a] : Asked(a, j, n) => j = i + 1
        /\ \A j \in DOMAIN toNS[a] : ~Answered(a, j, n)
    BY <1>7, <2>1 DEF Exchange, OneRequest
  <2>3. /\ toSS'[a][i].do = "CREATE_FILE" => AwaitsAbout(a, "created", n)'
        /\ toSS'[a][i].do # "CREATE_FILE" => AwaitsAbout(a, "deleted", n)'
    BY <1>7, <1>11, <2>2 DEF AwaitedKept
  <2>4. ASSUME NEW j \in DOMAIN toSS'[a], Asked(a, j, n)' PROVE j = i
    <3>1. Asked(a, j + 1, n) /\ j + 1 \in DOMAIN toSS[a]
      BY <1>11, <2>4 DEF Asked
    <3> QED BY <1>11, <2>2, <3>1
  <2> QED BY <1>9, <2>2, <2>3, <2>4
<1>13. Exchange(a, n)'
  BY <1>8, <1>10, <1>12 DEF Exchange
<1>14. \A b \in Addresses \ {a} : toNS'[b] = toNS[b]
  BY <1>5 DEF Added
<1> QED BY <1>1, <1>2, <1>11, <1>13, <1>14, ServerPlaced

\* A request about n: it is the one of the command that awaits its answer.
LEMMA ServeOwn ==
    ASSUME NEW n \in Names, Before(n), NEW a \in Addresses, Serve(a), NEW q \in Requests,
           NEW d \in {"OK_CREATE", "OK_DELETE", "ERROR"}, ServeBy(a, q, d), q.name = n
    PROVE  Placed(n)'
<1>1. /\ UNCHANGED <<pc, arg, target, plan, left, result>> /\ UNCHANGED <<files, awaiting>>
      /\ up' = up
  BY DEF Serve, handler
<1>2. \/ d = "OK_CREATE" /\ q.do = "CREATE_FILE" /\ DOMAIN disk'[a] = DOMAIN disk[a] \cup {n}
      \/ d = "OK_DELETE" /\ q.do = "DELETE_FILE" /\ DOMAIN disk'[a] = DOMAIN disk[a] \ {n}
      \/ d = "ERROR" /\ DOMAIN disk'[a] = DOMAIN disk[a]
  BY DEF ServeBy, With, Without, Before, BInv, Types, ServersTyped
<1>3. \A b \in Addresses \ {a} : disk'[b] = disk[b]
  BY DEF ServeBy, Before, BInv, Types, ServersTyped
<1>4. PICK m \in Messages : m = [do |-> d, name |-> q.name]
  BY DEF Messages, Requests
<1>5. toNS' = [toNS EXCEPT ![a] = Append(@, m)] /\ m.name = n /\ m.do = d
  BY <1>4 DEF ServeBy
<1>6. PICK last \in Nat : Added(a, m, last)
  BY <1>5, AfterSaid DEF Before, BInv
<1>7. Types
  BY DEF Before, BInv
<1>8. /\ 1 \in DOMAIN toSS[a] /\ q = toSS[a][1]
      /\ \A i \in DOMAIN toSS'[a] :
            i + 1 \in DOMAIN toSS[a] /\ i + 1 # 1 /\ toSS'[a][i] = toSS[a][i + 1]
      /\ \A b \in Addresses \ {a} : toSS'[b] = toSS[b]
  BY <1>7, AfterServe
<1>9. Exchange(a, n) /\ Reported(a, n) /\ OneRequest(a, n) /\ AwaitedKept(a, n)
  BY <1>1, AwaitedKeptSame DEF Before, Placed, Exchange
<1> DEFINE step == IF q.do = "CREATE_FILE" THEN "created" ELSE "deleted"
<1>10. /\ AwaitsAbout(a, step, n)
       /\ \A j \in DOMAIN toSS[a] : Asked(a, j, n) => j = 1
       /\ \A j \in DOMAIN toNS[a] : ~Answered(a, j, n)
  BY <1>8, <1>9 DEF OneRequest, Asked
<1>11. /\ q.do = "CREATE_FILE" => AwaitsAbout(a, "created", n)'
       /\ q.do # "CREATE_FILE" => AwaitsAbout(a, "deleted", n)'
  BY <1>9, <1>10 DEF AwaitedKept
<1>12. OneRequest(a, n)'
  BY <1>8, <1>10 DEF OneRequest, Asked
<1>13. \A i \in DOMAIN toNS'[a] :
           Answered(a, i, n)' => i = last /\ toNS'[a][i].do = d /\ d # "ERROR"
  BY <1>5, <1>6, <1>10 DEF Added, Answered, Says
<1>14. OneAnswer(a, n)'
  BY <1>2, <1>11, <1>13 DEF OneAnswer
<1>15. \A e : Said(a, e, n) => Said(a, e, n)'
  BY <1>6 DEF Added, Said, Says
<1>16. Said(a, "SS_HAS_FILE", n)' => Said(a, "SS_HAS_FILE", n)
  BY <1>5, <1>6 DEF Added, Said, Says
<1>17. d = "OK_DELETE" => Said(a, "OK_DELETE", n)'
  BY <1>5, <1>6 DEF Added, Said, Says
<1>18. PICK h \in Handlers : h = awaiting[a] /\ Waits(h) /\ AddrOf(h) = a
                             /\ pc[h] = step /\ arg[h] = n
  BY <1>7, <1>10, WhoIsAwaited DEF AwaitsAbout, Before, BInv
<1>19. d = "OK_CREATE" => /\ At(n, a) /\ \A k \in Handlers : n \notin plan[k]
  BY <1>2, <1>18 DEF Before, Placed, OneCreator, Creates
<1>20. d = "OK_DELETE" => n \in plan[h]
  BY <1>2, <1>18 DEF Before, BInv, Roles, Role
<1>21. Reported(a, n)'
  BY <1>1, <1>2, <1>9, <1>15, <1>16, <1>17, <1>19 DEF Reported, At
<1>22. Exchange(a, n)'
  BY <1>12, <1>14, <1>21 DEF Exchange
<1>23. \A b \in Addresses \ {a} : toNS'[b] = toNS[b]
  BY <1>6 DEF Added
<1>24. CASE d = "ERROR"
  BY <1>1, <1>2, <1>3, <1>8, <1>22, <1>23, <1>24, ServerPlaced
<1>25. CASE d # "ERROR"
  <2>1. \A b \in Addresses : At(n, b)' <=> At(n, b)
    BY <1>1 DEF At
  <2>2. ASSUME NEW b \in Addresses \ {a} PROVE Exchange(b, n)'
    <3>1. Exchange(b, n) /\ AwaitedKept(b, n)
      BY <1>1, AwaitedKeptSame DEF Before, Placed
    <3> QED BY <1>1, <1>3, <1>8, <1>23, <2>1, <2>2, <3>1, ExchangeSame
  <2>3. OneCreator(n) /\ Gone(n) /\ Recorded(n)
    BY DEF Before, Placed
  <2>4. \A k \in Handlers : NoConcern(k, n)
    BY <1>1, AllNoConcern
  <2>5. OneCreator(n)'
    <3> SUFFICES ASSUME NEW k \in Handlers, Creates(k, n)'
                 PROVE  /\ At(n, AddrOf(k))'
                        /\ \A j \in Handlers : n \notin plan'[j] /\ (Creates(j, n)' => j = k)
      BY DEF OneCreator
    <3>1. Creates(k, n) /\ AddrOf(k)' = AddrOf(k)
      BY <2>4 DEF NoConcern
    <3>2. At(n, AddrOf(k)) /\ \A j \in Handlers : n \notin plan[j] /\ (Creates(j, n) => j = k)
      BY <2>3, <3>1 DEF OneCreator
    <3> QED BY <1>1, <2>4, <3>1, <3>2 DEF At, NoConcern
  <2>6. Gone(n)'
    <3> SUFFICES ASSUME NEW k \in Handlers, n \in plan[k],
                        n \notin left[k] \/ (n = arg[k] /\ pc[k] = "deleted" /\ ~Waits(k))
                 PROVE  n \notin DOMAIN disk'[files[n].ss]
      BY <1>1 DEF Gone, Waits
    <3>1. n \notin DOMAIN disk[files[n].ss] /\ d # "OK_CREATE"
      BY <1>19, <2>3 DEF Gone
    <3>2. files[n].ss \in Addresses
      BY <1>7 DEF Before, BInv, Roles, Role, Types, FilesTyped
    <3> QED BY <1>2, <1>3, <3>1, <3>2
  <2>7. Recorded(n)'
    <3> SUFFICES ASSUME NEW b \in Addresses, At(n, b), n \notin DOMAIN disk'[b], d = "OK_CREATE"
                 PROVE  \E k \in Handlers : n \in plan'[k] \/ (Creates(k, n)' /\ result'[k] = NoMsg)
      BY <1>1, <1>20, <1>25, <2>1 DEF Recorded
    <3>1. n \notin DOMAIN disk[b]
      BY <1>2, <1>3
    <3>2. PICK k \in Handlers : n \in plan[k] \/ (Creates(k, n) /\ result[k] = NoMsg)
      BY <2>3, <3>1 DEF Recorded
    <3> QED BY <2>4, <3>2 DEF NoConcern
  <2> QED BY <1>22, <2>2, <2>5, <2>6, <2>7 DEF Placed
<1> QED BY <1>24, <1>25

LEMMA ServerStepPlaced ==
    ASSUME NEW n \in Names, Before(n), NEW a \in Addresses, ServerStep(a)
    PROVE  Placed(n)'
<1>1. CASE Serve(a)
  <2>1. PICK q \in Requests, d \in {"OK_CREATE", "OK_DELETE", "ERROR"} : ServeBy(a, q, d)
    BY <1>1, ServeDoes DEF Before, BInv
  <2> QED BY <1>1, <2>1, ServeOther, ServeOwn
<1>2. CASE \E m \in Names, size \in 0..MaxSize : Commit(a, m, size)
  BY <1>2, CommitPlaced
<1>3. CASE \E m \in Names, size \in 0..MaxSize : Restore(a, m, size)
  BY <1>3, RestorePlaced
<1> QED BY <1>1, <1>2, <1>3, HelloPlaced, CrashPlaced, SyncPlaced DEF ServerStep

-----------------------------------------------------------------------------
(* Placed: a handler's steps *)

\* A step of h that changes only the handler and the catalogue.
LEMMA HandlerPlaced ==
    ASSUME NEW n \in Names, Before(n), NEW h \in Handlers, ~Waits(h),
           \A k \in Handlers \ {h} : SameHandler(k),
           UNCHANGED <<awaiting, toSS, toNS, up, disk>>,
           \A b \in Addresses : n \in DOMAIN disk[b] /\ At(n, b) => At(n, b)',
           OneCreator(n)' /\ Gone(n)' /\ Recorded(n)'
    PROVE  Placed(n)'
<1>1. ASSUME NEW b \in Addresses PROVE Exchange(b, n)'
  <2>1. Exchange(b, n) /\ awaiting'[b] = awaiting[b]
    BY DEF Before, Placed
  <2>2. AwaitedKept(b, n)
    BY <2>1, AwaitedKeptButOne DEF Before, BInv
  <2> QED BY <2>1, <2>2, ExchangeSame
<1> QED BY <1>1 DEF Placed

\* And does not concern n.
LEMMA HandlerElsewhere ==
    ASSUME NEW n \in Names, Before(n), NEW h \in Handlers, ~Waits(h),
           \A k \in Handlers \ {h} : SameHandler(k),
           UNCHANGED <<awaiting, toSS, toNS, up, disk>>,
           \A b \in Addresses : At(n, b)' <=> At(n, b),
           n \in DOMAIN files' => n \in DOMAIN files, NoConcern(h, n)
    PROVE  Placed(n)'
<1>1. \A k \in Handlers \ {h} : NoConcern(k, n)
  BY SameNoConcern DEF Before, BInv, Roles
<1>2. \A k \in Handlers : NoConcern(k, n)
  BY <1>1
<1>3. OneCreator(n)' /\ Gone(n)' /\ Recorded(n)'
  BY <1>2, FileSame DEF Before, BInv, Roles, Placed
<1> QED BY <1>3, HandlerPlaced

LEMMA CreateBeginPlaced ==
    ASSUME NEW n \in Names, Before(n), NEW h \in Handlers, NEW m \in Names, CreateBegin(h, m)
    PROVE  Placed(n)'
<1>1. PICK i \in Entries :
         /\ target' = [target EXCEPT ![h] = i]
         /\ files' = With(files, m, [ss |-> storage_servers[i].addr, size |-> 0])
  BY DEF CreateBegin, Balanced
<1>2. /\ pc[h] = "idle" /\ pc'[h] = "create" /\ arg'[h] = m /\ target'[h] = i
      /\ UNCHANGED <<storage_servers, plan, left, result>> /\ m \notin DOMAIN files
      /\ state_lock = NoHandler
      /\ UNCHANGED <<awaiting, toSS, toNS, up, disk>>
      /\ \A k \in Handlers \ {h} : SameHandler(k)
  BY <1>1 DEF CreateBegin, wire, server, SameHandler, Before, BInv, Types, HandlersTyped
<1>3. ~Waits(h) /\ ~Creates(h, n)
  BY <1>2 DEF Waits, Creates
<1>4. CASE n # m
  <2>1. /\ \A b \in Addresses : At(n, b)' <=> At(n, b)
        /\ n \in DOMAIN files' => n \in DOMAIN files
    BY <1>1, <1>4 DEF At, With
  <2>2. NoConcern(h, n)
    BY <1>2, <1>3, <1>4 DEF NoConcern, Creates
  <2> QED BY <1>2, <1>3, <2>1, <2>2, HandlerElsewhere
<1>5. CASE n = m
  <2>1. \A b : ~At(n, b)
    BY <1>2, <1>5 DEF At
  <2>2. \A k \in Handlers : plan'[k] = {} /\ ~Creates(k, n)
    BY <1>2, <2>1, LockHolder DEF Before, BInv, Placed, OneCreator
  <2>3. \A b : At(n, b)' <=> b = storage_servers[i].addr
    BY <1>1, <1>5 DEF At, With
  <2>4. AddrOf(h)' = storage_servers[i].addr /\ Creates(h, n)' /\ result'[h] = NoMsg
    BY <1>2, <1>5 DEF AddrOf, Creates, Before, BInv, Roles, Role
  <2>5. \A k \in Handlers : Creates(k, n)' => k = h
    BY <1>2, <2>2 DEF Creates, SameHandler
  <2>6. OneCreator(n)' /\ Gone(n)' /\ Recorded(n)'
    <3>1. At(n, AddrOf(h))'
      BY <2>3, <2>4 DEF At
    <3>2. OneCreator(n)'
      BY <2>2, <2>5, <3>1 DEF OneCreator
    <3>3. Gone(n)'
      BY <2>2 DEF Gone
    <3>4. Recorded(n)'
      BY <2>4 DEF Recorded
    <3> QED BY <3>2, <3>3, <3>4
  <2> QED BY <1>2, <1>3, <2>1, <2>6, HandlerPlaced
<1> QED BY <1>4, <1>5

LEMMA DeleteBeginPlaced ==
    ASSUME NEW n \in Names, Before(n), NEW h \in Handlers, NEW S \in Folders, DeleteBegin(h, S)
    PROVE  Placed(n)'
<1>1. /\ pc[h] = "idle" /\ pc'[h] = "delete" /\ plan'[h] = S /\ left'[h] = S
      /\ UNCHANGED <<files, result>> /\ state_lock = NoHandler
      /\ UNCHANGED <<awaiting, toSS, toNS, up, disk>>
      /\ \A k \in Handlers \ {h} : SameHandler(k)
  BY DEF DeleteBegin, wire, server, SameHandler, Before, BInv, Types, HandlersTyped
<1>2. ~Waits(h) /\ ~Creates(h, n) /\ ~Creates(h, n)'
  BY <1>1 DEF Waits, Creates
<1>3. \A b \in Addresses : At(n, b)' <=> At(n, b)
  BY <1>1 DEF At
<1>4. \A k \in Handlers : plan[k] = {}
  BY <1>1, LockHolder DEF Before, BInv
<1>5. CASE n \notin S
  <2>1. NoConcern(h, n)
    BY <1>1, <1>2, <1>4, <1>5 DEF NoConcern
  <2> QED BY <1>1, <1>2, <1>3, <2>1, HandlerElsewhere
<1>6. CASE n \in S
  <2>1. n \notin doubt'
    BY DEF Before, Trusted
  <2>2. \A k \in Handlers : ~Creates(k, n)
    BY <1>6, <2>1 DEF DeleteBegin, Creates
  <2>3. \A k \in Handlers : ~Creates(k, n)'
    BY <1>1, <1>2, <2>2 DEF Creates, SameHandler
  <2>4. \A k \in Handlers \ {h} : plan'[k] = {}
    BY <1>1, <1>4 DEF SameHandler
  <2>5. OneCreator(n)'
    BY <2>3 DEF OneCreator
  <2>6. Gone(n)'
    BY <1>1, <1>6, <2>4 DEF Gone
  <2>7. Recorded(n)'
    BY <1>1, <1>6 DEF Recorded
  <2> QED BY <1>1, <1>2, <1>3, <2>5, <2>6, <2>7, HandlerPlaced
<1> QED BY <1>5, <1>6

LEMMA CreateEndPlaced ==
    ASSUME NEW n \in Names, Before(n), NEW h \in Handlers, CreateEnd(h)
    PROVE  Placed(n)'
<1>1. /\ pc[h] = "created" /\ result[h] # NoMsg
      /\ UNCHANGED <<awaiting, toSS, toNS, up, disk>>
      /\ EndHandler(h)
      /\ \/ files' = files
         \/ files' = Without(files, {arg[h]}) /\ arg[h] \in doubt'
  BY DEF CreateEnd, wire, server
<1>2. /\ pc'[h] = "idle" /\ plan'[h] = {}
      /\ \A k \in Handlers \ {h} : SameHandler(k)
  BY <1>1, EndHandlerRole DEF Before, BInv
<1>3. plan[h] = {}
  BY <1>1 DEF Before, BInv, Roles, Role
<1>4. ~Waits(h) /\ ~Creates(h, n)'
  BY <1>1, <1>2 DEF Waits, Creates
<1>5. /\ \A b \in Addresses : At(n, b)' <=> At(n, b)
      /\ n \in DOMAIN files' => n \in DOMAIN files
  BY <1>1 DEF At, Without, Before, Trusted
<1>6. NoConcern(h, n)
  BY <1>1, <1>2, <1>3, <1>4 DEF NoConcern
<1> QED BY <1>1, <1>2, <1>4, <1>5, <1>6, HandlerElsewhere

LEMMA DeleteNextPlaced ==
    ASSUME NEW n \in Names, Before(n), NEW h \in Handlers, DeleteNext(h)
    PROVE  Placed(n)'
<1>1. /\ pc[h] = "deleted" /\ result[h] # NoMsg /\ plan' = plan /\ files' = files
      /\ left'[h] = left[h] \ {arg[h]} /\ pc'[h] \in {"remove", "delete"}
      /\ \A k \in Handlers \ {h} : SameHandler(k)
  BY DeleteNextDoes DEF Before, BInv
<1>2. UNCHANGED <<awaiting, toSS, toNS, up, disk>>
  BY DEF DeleteNext, wire, server
<1>3. ~Waits(h) /\ ~Creates(h, n) /\ ~Creates(h, n)'
  BY <1>1 DEF Waits, Creates
<1>4. \A b \in Addresses : At(n, b)' <=> At(n, b)
  BY <1>1 DEF At
<1>5. NoConcern(h, n)
  BY <1>1, <1>3 DEF NoConcern
<1> QED BY <1>1, <1>2, <1>3, <1>4, <1>5, HandlerElsewhere

LEMMA DeleteFailsPlaced ==
    ASSUME NEW n \in Names, Before(n), NEW h \in Handlers, DeleteFails(h)
    PROVE  Placed(n)'
<1>1. /\ pc[h] = "deleted" /\ result[h] # NoMsg /\ EndHandler(h) /\ files' = files
      /\ doubt' = doubt \cup plan[h]
      /\ UNCHANGED <<awaiting, toSS, toNS, up, disk>>
  BY DEF DeleteFails, wire, server
<1>2. /\ pc'[h] = "idle" /\ plan'[h] = {}
      /\ \A k \in Handlers \ {h} : SameHandler(k)
  BY <1>1, EndHandlerRole DEF Before, BInv
<1>3. n \notin plan[h]
  BY <1>1 DEF Before, Trusted
<1>4. ~Waits(h) /\ ~Creates(h, n) /\ ~Creates(h, n)'
  BY <1>1, <1>2 DEF Waits, Creates
<1>5. \A b \in Addresses : At(n, b)' <=> At(n, b)
  BY <1>1 DEF At
<1>6. NoConcern(h, n)
  BY <1>2, <1>3, <1>4 DEF NoConcern
<1> QED BY <1>1, <1>2, <1>4, <1>5, <1>6, HandlerElsewhere

\* The entries that go are those of files that are gone.
LEMMA DeleteEndPlaced ==
    ASSUME NEW n \in Names, Before(n), NEW h \in Handlers, DeleteEnd(h)
    PROVE  Placed(n)'
<1>1. /\ pc[h] = "remove" /\ EndHandler(h) /\ files' = Without(files, plan[h])
      /\ UNCHANGED <<awaiting, toSS, toNS, up, disk>>
  BY DEF DeleteEnd, wire, server
<1>2. /\ pc'[h] = "idle" /\ plan'[h] = {}
      /\ \A k \in Handlers \ {h} : SameHandler(k)
  BY <1>1, EndHandlerRole DEF Before, BInv
<1>3. ~Waits(h) /\ ~Creates(h, n) /\ ~Creates(h, n)'
  BY <1>1, <1>2 DEF Waits, Creates
<1>4. CASE n \notin plan[h]
  <2>1. /\ \A b \in Addresses : At(n, b)' <=> At(n, b)
        /\ n \in DOMAIN files' => n \in DOMAIN files
    BY <1>1, <1>4 DEF At, Without
  <2>2. NoConcern(h, n)
    BY <1>2, <1>3, <1>4 DEF NoConcern
  <2> QED BY <1>1, <1>2, <1>3, <2>1, <2>2, HandlerElsewhere
<1>5. CASE n \in plan[h]
  <2>1. \A b : ~At(n, b)'
    BY <1>1, <1>5 DEF At, Without
  <2>2. left[h] = {}
    BY <1>1 DEF Before, BInv, Roles, Role
  <2>3. n \notin DOMAIN disk[files[n].ss]
    BY <1>5, <2>2 DEF Before, Placed, Gone
  <2>4. \A b \in Addresses : n \in DOMAIN disk[b] => ~At(n, b)
    BY <2>3 DEF At
  <2>5. \A k \in Handlers : ~Creates(k, n)'
    BY <1>2, <1>3, <1>5 DEF Before, Placed, OneCreator, Creates, SameHandler
  <2>6. \A k \in Handlers : plan'[k] = {}
    BY <1>1, <1>2, LockHolder DEF SameHandler, Before, BInv
  <2>7. OneCreator(n)' /\ Gone(n)'
    BY <2>5, <2>6 DEF OneCreator, Gone
  <2>8. Recorded(n)'
    BY <2>1 DEF Recorded, At
  <2> QED BY <1>1, <1>2, <1>3, <2>4, <2>7, <2>8, HandlerPlaced
<1> QED BY <1>4, <1>5

\* The request that is sent is the only one about its file.
LEMMA SendPlaced ==
    ASSUME NEW n \in Names, Before(n), NEW h \in Handlers, Send(h)
    PROVE  Placed(n)'
<1>0. AddrOf(h) \in Addresses /\ arg[h] \in Names /\ target[h] \in Entries
  BY DEF Send, Before, BInv, Roles, Role, Types, EntriesTyped, AddrOf
<1> DEFINE step == IF pc[h] = "create" THEN "created" ELSE "deleted"
           q == [do |-> IF pc[h] = "create" THEN "CREATE_FILE" ELSE "DELETE_FILE",
                 name |-> arg[h]]
<1>1. /\ pc[h] \in {"create", "delete"} /\ pc'[h] = step
      /\ UNCHANGED <<storage_servers, files, state_lock, arg, target, plan, left>>
      /\ UNCHANGED <<toNS, up, disk>>
      /\ \A k \in Handlers \ {h} : SameHandler(k)
  BY DEF Send, server, SameHandler, Before, BInv, Types, HandlersTyped
<1>2. ~Waits(h)
  BY <1>1 DEF Waits
<1>3. /\ \A b \in Addresses : At(n, b)' <=> At(n, b)
      /\ AddrOf(h)' = AddrOf(h) /\ (Creates(h, n)' <=> Creates(h, n))
  BY <1>1 DEF At, AddrOf, Creates
<1>4. \/ /\ result' = [result EXCEPT ![h] = [do |-> "FAILED"]]
         /\ UNCHANGED <<awaiting, toSS>>
      \/ /\ result' = result /\ awaiting[AddrOf(h)] = NoHandler
         /\ awaiting' = [awaiting EXCEPT ![AddrOf(h)] = h]
         /\ toSS' = [toSS EXCEPT ![AddrOf(h)] = Append(@, q)] \/ toSS' = toSS
  BY DEF Send, AddrOf
<1>5. CASE /\ result' = [result EXCEPT ![h] = [do |-> "FAILED"]]
           /\ UNCHANGED <<awaiting, toSS>>
  <2>1. result'[h] = [do |-> "FAILED"] /\ result'[h] # NoMsg
    <3>1. [do |-> "FAILED"] \in Messages
      BY DEF Messages
    <3> QED BY <1>5, <3>1, PlacementAssumption DEF Before, BInv, Types, HandlersTyped
  <2>2. ~Fails(h, n)'
    BY DEF Before, Trusted
  <2>3. /\ pc[h] = "create" => arg[h] # n /\ plan[h] = {}
        /\ pc[h] = "delete" => n \notin plan[h]
    BY <1>1, <2>1, <2>2 DEF Fails, Before, BInv, Roles, Role
  <2>4. ~Creates(h, n) /\ ~Creates(h, n)' /\ n \notin plan[h]
    BY <1>1, <1>3, <2>3 DEF Creates
  <2>5. NoConcern(h, n)
    BY <1>1, <2>4 DEF NoConcern
  <2> QED BY <1>1, <1>2, <1>3, <1>5, <2>5, HandlerElsewhere
<1>6. CASE /\ result' = result /\ awaiting[AddrOf(h)] = NoHandler
           /\ awaiting' = [awaiting EXCEPT ![AddrOf(h)] = h]
           /\ toSS' = [toSS EXCEPT ![AddrOf(h)] = Append(@, q)] \/ toSS' = toSS
  <2>1. result'[h] = NoMsg /\ Waits(h)'
    BY <1>1, <1>6 DEF Waits, Before, BInv, Roles, Role
  <2>2. NoConcern(h, n)
    BY <1>1, <1>3, <2>1 DEF NoConcern
  <2>3. \A k \in Handlers \ {h} : NoConcern(k, n)
    BY <1>1, SameNoConcern DEF Before, BInv, Roles
  <2>4. \A k \in Handlers : NoConcern(k, n)
    BY <2>2, <2>3
  <2>5. OneCreator(n)' /\ Gone(n)' /\ Recorded(n)'
    BY <1>1, <1>3, <2>4, FileSame DEF Before, BInv, Roles, Placed
  <2>6. PICK a \in Addresses : a = AddrOf(h)
    BY <1>0
  <2>7. ASSUME NEW b \in Addresses \ {a} PROVE Exchange(b, n)'
    <3>1. Exchange(b, n) /\ awaiting'[b] = awaiting[b] /\ toSS'[b] = toSS[b]
      BY <1>6, <2>6 DEF Before, Placed, BInv, Types, WireTyped
    <3>2. AwaitedKept(b, n)
      BY <1>1, <1>2, <3>1, AwaitedKeptButOne DEF Before, BInv
    <3> QED BY <1>1, <1>3, <3>1, <3>2, ExchangeSame
  <2>8. awaiting'[a] = h /\ h # NoHandler /\ \A p : ~AwaitsAbout(a, p, n)
    BY <1>6, <2>6, PlacementAssumption DEF AwaitsAbout, Before, BInv, Types, WireTyped
  <2>9. Exchange(a, n)
    BY DEF Before, Placed
  <2>10. /\ \A i \in DOMAIN toSS[a] : ~Asked(a, i, n)
         /\ \A i \in DOMAIN toNS[a] : ~Answered(a, i, n)
    BY <2>8, <2>9, NobodyAsks
  <2>11. Reported(a, n)'
    BY <1>1, <1>3, <2>9 DEF Exchange, Reported, Said, Says
  <2>12. \A i \in DOMAIN toNS'[a] : ~Answered(a, i, n)'
    BY <1>1, <2>10 DEF Answered, Says
  <2>13. OneAnswer(a, n)'
    BY <2>12 DEF OneAnswer
  <2>14. OneRequest(a, n)'
    <3>1. CASE toSS' = toSS
      BY <2>10, <3>1 DEF OneRequest, Asked
    <3>2. CASE toSS' = [toSS EXCEPT ![a] = Append(@, q)]
      <4>1. PICK s \in Seq(Requests) : s = toSS[a]
        BY DEF Before, BInv, Types, WireTyped
      <4>0. q \in Requests
        BY <1>0, <1>1 DEF Requests
      <4>2. PICK r \in Requests : r = q
        BY <4>0
      <4>3. r.name = arg[h] /\ r.do = IF pc[h] = "create" THEN "CREATE_FILE" ELSE "DELETE_FILE"
        BY <4>2
      <4>4. /\ toSS'[a] = Append(s, r)
            /\ DOMAIN Append(s, r) = 1..(Len(s) + 1) /\ DOMAIN s = 1..Len(s)
            /\ Append(s, r)[Len(s) + 1] = r
            /\ \A i \in 1..Len(s) : Append(s, r)[i] = s[i]
        BY <3>2, <4>1, <4>2 DEF Before, BInv, Types, WireTyped
      <4>5. ASSUME NEW i \in DOMAIN toSS'[a], Asked(a, i, n)'
            PROVE  i = Len(s) + 1 /\ toSS'[a][i] = r /\ arg[h] = n
        <5>1. i = Len(s) + 1 \/ i \in 1..Len(s)
          BY <4>4
        <5>2. i \notin 1..Len(s)
          BY <2>10, <4>1, <4>4, <4>5 DEF Asked
        <5> QED BY <4>3, <4>4, <4>5, <5>1, <5>2 DEF Asked
      <4>6. ASSUME NEW i \in DOMAIN toSS'[a], Asked(a, i, n)'
            PROVE  /\ toSS'[a][i].do = "CREATE_FILE" => AwaitsAbout(a, "created", n)'
                   /\ toSS'[a][i].do # "CREATE_FILE" => AwaitsAbout(a, "deleted", n)'
        <5>1. toSS'[a][i].do = "CREATE_FILE" <=> pc[h] = "create"
          BY <4>3, <4>5, <4>6
        <5>2. arg'[h] = n
          BY <1>1, <4>5, <4>6
        <5> QED BY <1>1, <2>8, <5>1, <5>2 DEF AwaitsAbout
      <4> QED BY <2>12, <4>5, <4>6 DEF OneRequest
    <3> QED BY <1>6, <2>6, <3>1, <3>2
  <2>15. Exchange(a, n)'
    BY <2>11, <2>13, <2>14 DEF Exchange
  <2> QED BY <2>5, <2>7, <2>15 DEF Placed
<1> QED BY <1>4, <1>5, <1>6

-----------------------------------------------------------------------------
(* The catalogue and the disks *)

LEMMA PInvInit == Init => PInv
<1> SUFFICES ASSUME Init, NEW n \in Names PROVE Placed(n)
  BY BInvInit DEF PInv
<1>1. /\ \A a : ~At(n, a) /\ \A h \in Handlers : ~Creates(h, n) /\ plan[h] = {}
      /\ \A a \in Addresses : ~up[a] /\ toSS[a] = <<>> /\ toNS[a] = <<>>
  BY DEF Init, At, Creates
<1>2. OneCreator(n) /\ Gone(n) /\ Recorded(n)
  BY <1>1 DEF OneCreator, Gone, Recorded
<1>3. ASSUME NEW a \in Addresses PROVE Exchange(a, n)
  <2>1. DOMAIN toNS[a] = {} /\ DOMAIN toSS[a] = {} /\ ~up[a]
    BY <1>1
  <2> QED BY <2>1 DEF Exchange, Reported, Said, Says, OneRequest, OneAnswer
<1> QED BY <1>2, <1>3 DEF Placed

LEMMA PlacedStep ==
    ASSUME NEW n \in Names, Before(n), Next
    PROVE  Placed(n)'
<1>1. ASSUME NEW h \in Handlers, HandlerStep(h) PROVE Placed(n)'
  BY <1>1, CreateBeginPlaced, DeleteBeginPlaced, SendPlaced, CreateEndPlaced, DeleteNextPlaced,
     DeleteFailsPlaced, DeleteEndPlaced DEF HandlerStep
<1>2. ASSUME NEW a \in Addresses, ReaderStep(a) PROVE Placed(n)'
  BY <1>2, HandOverPlaced, HasFilePlaced, QuietReadsPlaced, DisconnectPlaced DEF ReaderStep
<1> QED BY <1>1, <1>2, ServerStepPlaced DEF Next

LEMMA PInvStep == PInv /\ [Next]_vars => PInv'
<1> SUFFICES ASSUME PInv, [Next]_vars PROVE PInv'
  OBVIOUS
<1>1. BInv' /\ AddrsKept
  BY BInvStep DEF PInv
<1>2. CASE Next
  <2>1. ASSUME NEW n \in Names, Trusted(n)' PROVE Placed(n)'
    <3>1. Trusted(n)
      BY <1>2, <2>1, TrustStays DEF PInv
    <3>2. Before(n)
      BY <1>1, <2>1, <3>1 DEF PInv, Before
    <3> QED BY <1>2, <3>2, PlacedStep
  <2> QED BY <1>1, <2>1 DEF PInv
<1>3. CASE UNCHANGED vars
  <2>1. ASSUME NEW n \in Names, Trusted(n)' PROVE Placed(n)'
    <3>1. Trusted(n)
      BY <1>3, <2>1 DEF Trusted, Fails, vars, handler, history
    <3>2. Placed(n) /\ UNCHANGED <<pc, arg, target, plan, left, result>>
          /\ UNCHANGED <<files, awaiting, toSS, toNS, up, disk, storage_servers>>
      BY <1>3, <3>1 DEF PInv, vars, handler, wire, server
    <3>3. Before(n)
      BY <1>1, <2>1, <3>1, <3>2 DEF PInv, Before
    <3>4. \A b \in Addresses : At(n, b)' <=> At(n, b)
      BY <3>2 DEF At
    <3>5. OneCreator(n)' /\ Gone(n)' /\ Recorded(n)'
      BY <3>2, <3>3, <3>4, AllNoConcern, FileSame DEF Before, BInv, Roles, Placed
    <3>6. ASSUME NEW b \in Addresses PROVE Exchange(b, n)'
      <4>1. Exchange(b, n) /\ AwaitedKept(b, n)
        BY <3>2, AwaitedKeptSame DEF Placed
      <4> QED BY <3>2, <3>4, <4>1, ExchangeSame
    <3> QED BY <3>5, <3>6 DEF Placed
  <2> QED BY <1>1, <2>1 DEF PInv
<1> QED BY <1>2, <1>3

LEMMA PInvSuffices == PInv => CatalogMatchesDisk
<1> SUFFICES ASSUME PInv, NEW a \in Addresses, Settled(a), NEW n, n \notin doubt
             PROVE  n \in Located(a) <=> n \in DOMAIN disk[a]
  BY DEF CatalogMatchesDisk
<1>1. \A h \in Handlers : pc[h] = "idle" /\ result[h] = NoMsg /\ plan[h] = {}
  BY DEF Settled, PInv, BInv, Roles, Role
<1>2. n \in Names => Trusted(n)
  BY <1>1 DEF Trusted, Fails
<1>3. n \in Located(a) <=> At(n, a)
  BY DEF Located, At
<1>4. At(n, a) \/ n \in DOMAIN disk[a] => n \in Names
  BY DEF At, PInv, BInv, Types, FilesTyped, ServersTyped
<1>5. CASE n \in Names
  <2>1. Recorded(n) /\ Reported(a, n)
    BY <1>2, <1>5 DEF PInv, Placed, Exchange
  <2>2. ~Said(a, "SS_HAS_FILE", n)
    BY DEF Settled, Said, Says
  <2>3. At(n, a) => n \in DOMAIN disk[a]
    BY <1>1, <2>1 DEF Recorded, Creates
  <2>4. n \in DOMAIN disk[a] => At(n, a)
    BY <2>1, <2>2 DEF Reported, Settled
  <2> QED BY <1>3, <2>3, <2>4
<1> QED BY <1>3, <1>4, <1>5

\* Once nothing is under way, the entries of a server that has reported are the files
\* on its disk, but for those about which the two may disagree.
THEOREM EntriesAreFiles == Spec => []CatalogMatchesDisk
BY PInvInit, PInvStep, PInvSuffices, PTL DEF Spec

-----------------------------------------------------------------------------
(* Sizes *)

Measured(n) == Before(n) /\ Placed(n)' /\ n \notin raced' /\ Sized(n)

\* What the catalogue says of n at b, and what is on the disk.
EntrySame(b, n) ==
    /\ At(n, b)' <=> At(n, b)
    /\ At(n, b) => files'[n].size = files[n].size
DiskSame(b, n) ==
    /\ n \in DOMAIN disk'[b] <=> n \in DOMAIN disk[b]
    /\ n \in DOMAIN disk[b] => /\ disk'[b][n] = disk[b][n]
                               /\ n \in untold'[b] <=> n \in untold[b]

LEMMA ToldSame ==
    ASSUME NEW n, NEW b, Told(b, n), EntrySame(b, n), DiskSame(b, n),
           toNS'[b] = toNS[b], unsent'[b] = unsent[b], up'[b] = up[b]
    PROVE  Told(b, n)'
<1>1. UnsentCurrent(b, n)'
  BY DEF Told, UnsentCurrent, DiskSame
<1>2. FromHolder(b, n)'
  BY DEF Told, FromHolder, DiskSame, EntrySame, Says, Said
<1>3. LastSize(b, n)'
  BY DEF Told, LastSize, DiskSame, EntrySame, TellsLast, TellsSize, Says
<1> QED BY <1>1, <1>2, <1>3 DEF Told

\* No CREATE of n begins, nor is its file emptied or deleted.
LEMMA NewIsEmptySame ==
    ASSUME Types, NEW n \in Names, NewIsEmpty(n), OneCreator(n),
           \A h \in Handlers : Creates(h, n)' =>
               /\ Creates(h, n) /\ AddrOf(h)' = AddrOf(h) /\ target[h] \in Entries,
           \A b \in Addresses : At(n, b) =>
               \/ files'[n].size = files[n].size
               \/ n \in DOMAIN disk'[b],
           \A b \in Addresses : n \in DOMAIN disk[b] => n \in DOMAIN disk'[b]
    PROVE  NewIsEmpty(n)'
<1> SUFFICES ASSUME NEW h \in Handlers, Creates(h, n)', n \notin DOMAIN disk'[AddrOf(h)']
             PROVE  files'[n].size = 0
  BY DEF NewIsEmpty, AddrOf
<1>1. Creates(h, n) /\ AddrOf(h)' = AddrOf(h) /\ AddrOf(h) \in Addresses
  BY DEF Types, EntriesTyped, AddrOf
<1>2. At(n, AddrOf(h)) /\ n \notin DOMAIN disk[AddrOf(h)]
  BY <1>1 DEF OneCreator
<1>3. files[n].size = 0
  BY <1>1, <1>2 DEF NewIsEmpty
<1> QED BY <1>1, <1>2, <1>3

\* Who creates n goes on to.
LEMMA SameCreator ==
    ASSUME BInv, AddrsKept, NEW h \in Handlers, NEW n, Creates(h, n)',
           pc'[h] = pc[h] /\ arg'[h] = arg[h] /\ target'[h] = target[h]
    PROVE  Creates(h, n) /\ AddrOf(h)' = AddrOf(h) /\ target[h] \in Entries
<1>1. Creates(h, n) /\ target[h] \in Entries
  BY DEF Creates, BInv, Roles, Role
<1> QED BY <1>1, AddrOfSame

\* A step of a handler that does not begin to create n, nor remove its entry.
LEMMA HandlerSized ==
    ASSUME NEW n \in Names, Measured(n), NEW h \in Handlers,
           \A k \in Handlers \ {h} : SameHandler(k),
           Creates(h, n)' => Creates(h, n) /\ target'[h] = target[h],
           UNCHANGED <<toNS, unsent, up, disk, untold>>, \A b \in Addresses : EntrySame(b, n)
    PROVE  Sized(n)'
<1>1. ASSUME NEW b \in Addresses PROVE Told(b, n)'
  <2>1. Told(b, n) /\ DiskSame(b, n)
    BY DEF Measured, Sized, DiskSame
  <2> QED BY <2>1, ToldSame
<1>2. ASSUME NEW k \in Handlers, Creates(k, n)'
      PROVE  Creates(k, n) /\ AddrOf(k)' = AddrOf(k) /\ target[k] \in Entries
  <2>1. Creates(k, n) /\ target'[k] = target[k]
    BY <1>2 DEF SameHandler, Creates
  <2>2. target[k] \in Entries
    BY <2>1 DEF Creates, Measured, Before, BInv, Roles, Role
  <2> QED BY <2>1, <2>2, AddrOfSame DEF Measured, Before
<1>3. NewIsEmpty(n)'
  <2>1. \A b \in Addresses : At(n, b) => files'[n].size = files[n].size
    BY DEF EntrySame
  <2> QED BY <1>2, <2>1, NewIsEmptySame DEF Measured, Before, BInv, Placed, Sized
<1> QED BY <1>1, <1>3 DEF Sized

LEMMA CreateBeginSized ==
    ASSUME NEW n \in Names, Measured(n), NEW h \in Handlers, NEW m \in Names, CreateBegin(h, m)
    PROVE  Sized(n)'
<1>1. PICK i \in Entries :
         /\ target' = [target EXCEPT ![h] = i]
         /\ files' = With(files, m, [ss |-> storage_servers[i].addr, size |-> 0])
  BY DEF CreateBegin, Balanced
<1>2. /\ pc[h] = "idle" /\ arg'[h] = m /\ m \notin DOMAIN files
      /\ UNCHANGED <<toNS, unsent, up, disk, untold>>
      /\ \A k \in Handlers \ {h} : SameHandler(k)
  BY <1>1 DEF CreateBegin, wire, server, SameHandler, Measured, Before, BInv, Types, HandlersTyped
<1>3. CASE n # m
  <2>1. \A b \in Addresses : EntrySame(b, n)
    BY <1>1, <1>3 DEF EntrySame, At, With
  <2>2. ~Creates(h, n)'
    BY <1>2, <1>3 DEF Creates
  <2> QED BY <1>2, <2>1, <2>2, HandlerSized
<1>4. CASE n = m
  <2>1. files'[n].size = 0 /\ \A b : ~At(n, b)
    BY <1>1, <1>2, <1>4 DEF With, At
  <2>2. NewIsEmpty(n)'
    BY <2>1 DEF NewIsEmpty
  <2>3. ASSUME NEW b \in Addresses PROVE Told(b, n)'
    <3>1. Told(b, n) /\ Reported(b, n)
      BY DEF Measured, Sized, Before, Placed, Exchange
    <3>2. UnsentCurrent(b, n)'
      BY <1>2, <3>1 DEF Told, UnsentCurrent
    <3>3. FromHolder(b, n)'
      BY <1>2, <2>1, <3>1 DEF Told, FromHolder, Says, Said
    <3>4. up[b] /\ n \in DOMAIN disk[b] => \E i_1 \in DOMAIN toNS[b] : TellsSize(b, i_1, n)
      BY <2>1, <3>1 DEF Reported, Said, TellsSize
    <3>5. LastSize(b, n)'
      BY <1>2, <3>1, <3>4 DEF Told, LastSize, TellsLast, TellsSize, Says
    <3> QED BY <3>2, <3>3, <3>5 DEF Told
  <2> QED BY <2>2, <2>3 DEF Sized
<1> QED BY <1>3, <1>4

\* The entries that go are those of files about which nothing is told any more.
LEMMA DeleteEndSized ==
    ASSUME NEW n \in Names, Measured(n), NEW h \in Handlers, DeleteEnd(h)
    PROVE  Sized(n)'
<1>1. /\ pc[h] = "remove" /\ EndHandler(h) /\ files' = Without(files, plan[h])
      /\ UNCHANGED <<toNS, unsent, up, disk, untold>>
  BY DEF DeleteEnd, wire, server
<1>2. /\ pc'[h] = "idle" /\ \A k \in Handlers \ {h} : SameHandler(k)
  BY <1>1, EndHandlerRole DEF Measured, Before, BInv
<1>3. ~Creates(h, n)'
  BY <1>2 DEF Creates
<1>4. CASE n \notin plan[h]
  <2>1. \A b \in Addresses : EntrySame(b, n)
    BY <1>1, <1>4 DEF EntrySame, At, Without
  <2> QED BY <1>1, <1>2, <1>3, <2>1, HandlerSized
<1>5. CASE n \in plan[h]
  <2>1. \A b : ~At(n, b)'
    BY <1>1, <1>5 DEF At, Without
  <2>2. \A k \in Handlers : ~Creates(k, n)'
    BY <1>2, <1>3, <1>5 DEF Measured, Before, Placed, OneCreator, Creates, SameHandler
  <2>3. NewIsEmpty(n)'
    BY <2>2 DEF NewIsEmpty
  <2>4. left[h] = {}
    BY <1>1 DEF Measured, Before, BInv, Roles, Role
  <2>5. n \notin DOMAIN disk[files[n].ss]
    BY <1>5, <2>4 DEF Measured, Before, Placed, Gone
  <2>6. ASSUME NEW b \in Addresses PROVE Told(b, n)'
    <3>1. Told(b, n) /\ OneAnswer(b, n)
      BY DEF Measured, Sized, Before, Placed, Exchange
    <3>2. UnsentCurrent(b, n)'
      BY <1>1, <3>1 DEF Told, UnsentCurrent
    <3>3. LastSize(b, n)'
      BY <1>1, <2>1, <3>1 DEF Told, LastSize, TellsLast, TellsSize, Says
    <3>4. \A j \in DOMAIN toNS[b] : ~Says(b, j, "OK_DELETE", n)
      <4>1. ASSUME NEW j \in DOMAIN toNS[b], Says(b, j, "OK_DELETE", n)
            PROVE  AwaitsAbout(b, "deleted", n)
        BY <3>1, <4>1 DEF OneAnswer, Answered, Says
      <4>2. ~AwaitsAbout(b, "deleted", n)
        <5>1. SUFFICES ASSUME awaiting[b] # NoHandler, pc[awaiting[b]] = "deleted" PROVE FALSE
          BY DEF AwaitsAbout
        <5>2. awaiting[b] \in Handlers
          BY <5>1, WhoIsAwaited DEF Measured, Before, BInv
        <5> QED BY <1>1, <5>1, <5>2, LockHolder DEF Measured, Before, BInv
      <4> QED BY <4>1, <4>2
    <3>5. At(n, b) => n \notin DOMAIN disk[b]
      BY <2>5 DEF At
    <3>6. FromHolder(b, n)'
      BY <1>1, <2>1, <3>1, <3>4, <3>5 DEF Told, FromHolder, Says, Said
    <3> QED BY <3>2, <3>3, <3>6 DEF Told
  <2> QED BY <2>3, <2>6 DEF Sized
<1> QED BY <1>4, <1>5

LEMMA HandlerStepSized ==
    ASSUME NEW n \in Names, Measured(n), NEW h \in Handlers, HandlerStep(h)
    PROVE  Sized(n)'
<1>1. CASE \E S \in Folders : DeleteBegin(h, S)
  <2>1. /\ pc'[h] = "delete" /\ files' = files /\ UNCHANGED <<toNS, unsent, up, disk, untold>>
        /\ \A k \in Handlers \ {h} : SameHandler(k)
    BY <1>1 DEF DeleteBegin, wire, server, SameHandler, Measured, Before, BInv, Types,
       HandlersTyped
  <2>2. \A b \in Addresses : EntrySame(b, n)
    BY <2>1 DEF EntrySame, At
  <2>3. ~Creates(h, n)'
    BY <2>1 DEF Creates
  <2> QED BY <2>1, <2>2, <2>3, HandlerSized
<1>2. CASE Send(h)
  <2>1. /\ pc[h] \in {"create", "delete"}
        /\ pc'[h] = IF pc[h] = "create" THEN "created" ELSE "deleted"
        /\ UNCHANGED <<files, arg, target>> /\ UNCHANGED <<toNS, unsent, up, disk, untold>>
        /\ \A k \in Handlers \ {h} : SameHandler(k)
    BY <1>2 DEF Send, server, SameHandler, Measured, Before, BInv, Types, HandlersTyped
  <2>2. \A b \in Addresses : EntrySame(b, n)
    BY <2>1 DEF EntrySame, At
  <2>3. Creates(h, n)' => Creates(h, n) /\ target'[h] = target[h]
    BY <2>1 DEF Creates
  <2> QED BY <2>1, <2>2, <2>3, HandlerSized
<1>3. CASE CreateEnd(h)
  <2>1. /\ UNCHANGED <<toNS, unsent, up, disk, untold>> /\ EndHandler(h)
        /\ \/ files' = files
           \/ files' = Without(files, {arg[h]}) /\ arg[h] \in doubt'
    BY <1>3 DEF CreateEnd, wire, server
  <2>2. pc'[h] = "idle" /\ \A k \in Handlers \ {h} : SameHandler(k)
    BY <2>1, EndHandlerRole DEF Measured, Before, BInv
  <2>3. n \notin doubt'
    BY DEF Measured, Before, Trusted
  <2>4. \A b \in Addresses : EntrySame(b, n)
    BY <2>1, <2>3 DEF EntrySame, At, Without
  <2>5. ~Creates(h, n)'
    BY <2>2 DEF Creates
  <2> QED BY <2>1, <2>2, <2>4, <2>5, HandlerSized
<1>4. CASE DeleteNext(h) \/ DeleteFails(h)
  <2>1. UNCHANGED <<toNS, unsent, up, disk, untold>> /\ files' = files
    BY <1>4 DEF DeleteNext, DeleteFails, wire, server
  <2>2. /\ pc'[h] \in {"idle", "remove", "delete"} /\ \A k \in Handlers \ {h} : SameHandler(k)
    BY <1>4, EndHandlerRole, DeleteNextDoes DEF DeleteFails, Measured, Before, BInv
  <2>3. \A b \in Addresses : EntrySame(b, n)
    BY <2>1 DEF EntrySame, At
  <2>4. ~Creates(h, n)'
    BY <2>2 DEF Creates
  <2> QED BY <2>1, <2>2, <2>3, <2>4, HandlerSized
<1> QED BY <1>1, <1>2, <1>3, <1>4, CreateBeginSized, DeleteEndSized DEF HandlerStep

\* A message is read: it says nothing of the size of n, or is recorded as it.
LEMMA ReadTold ==
    ASSUME Types, Links, NEW a \in Addresses, Unread(a), Read(a), NEW n, Told(a, n),
           UNCHANGED <<unsent, up, disk, untold>>,
           \/ ~TellsSize(a, 1, n) /\ EntrySame(a, n)
           \/ TellsSize(a, 1, n) /\ At(n, a)' /\ files'[n].size = toNS[a][1].size
    PROVE  Told(a, n)'
<1>1. /\ 1 \in DOMAIN toNS[a]
      /\ \A i \in DOMAIN toNS[a] : i \in Nat /\ 1 <= i
      /\ DOMAIN toNS'[a] \subseteq Nat
      /\ \A i \in DOMAIN toNS'[a] :
            i + 1 \in DOMAIN toNS[a] /\ i + 1 # 1 /\ toNS'[a][i] = toNS[a][i + 1]
      /\ \A i \in DOMAIN toNS[a] \ {1} :
            i - 1 \in DOMAIN toNS'[a] /\ toNS'[a][i - 1] = toNS[a][i]
  BY AfterRead
<1>2. UnsentCurrent(a, n)'
  BY DEF Told, UnsentCurrent
<1>3. \A i \in DOMAIN toNS'[a] : \A d : Says(a, i, d, n)' <=> Says(a, i + 1, d, n)
  BY <1>1 DEF Says
<1>4. \A i \in DOMAIN toNS[a] \ {1} : \A d : Says(a, i, d, n) => Says(a, i - 1, d, n)'
  BY <1>1 DEF Says
<1>5. FromHolder(a, n)'
  <2> SUFFICES ASSUME NEW i \in DOMAIN toNS'[a], Says(a, i, "WRITE_COMPLETE", n)'
               PROVE  /\ At(n, a)' \/ Said(a, "SS_HAS_FILE", n)'
                      /\ \/ n \in DOMAIN disk[a]
                         \/ \E j \in DOMAIN toNS'[a] : j > i /\ Says(a, j, "OK_DELETE", n)'
    BY DEF FromHolder
  <2>1. /\ At(n, a) \/ Said(a, "SS_HAS_FILE", n)
        /\ \/ n \in DOMAIN disk[a]
           \/ \E j \in DOMAIN toNS[a] : j > i + 1 /\ Says(a, j, "OK_DELETE", n)
    BY <1>1, <1>3 DEF Told, FromHolder
  <2>2. n \in DOMAIN disk[a] \/ \E j \in DOMAIN toNS'[a] : j > i /\ Says(a, j, "OK_DELETE", n)'
    <3> SUFFICES ASSUME NEW j \in DOMAIN toNS[a], j > i + 1, Says(a, j, "OK_DELETE", n)
                 PROVE  j - 1 \in DOMAIN toNS'[a] /\ j - 1 > i /\ Says(a, j - 1, "OK_DELETE", n)'
      BY <2>1
    <3>1. i \in Nat /\ j \in Nat /\ j # 1 /\ j - 1 > i
      BY <1>1
    <3> QED BY <1>1, <1>4, <3>1
  <2>3. At(n, a)' \/ Said(a, "SS_HAS_FILE", n)'
    <3> SUFFICES ASSUME ~TellsSize(a, 1, n), Said(a, "SS_HAS_FILE", n)
                 PROVE  Said(a, "SS_HAS_FILE", n)'
      BY <2>1 DEF EntrySame
    <3>1. PICK j \in DOMAIN toNS[a] : Says(a, j, "SS_HAS_FILE", n) /\ j # 1
      BY DEF Said, TellsSize
    <3> QED BY <1>1, <1>4, <3>1 DEF Said
  <2> QED BY <2>2, <2>3
<1>6. LastSize(a, n)'
  <2> SUFFICES ASSUME up[a], n \in DOMAIN disk[a], n \notin untold[a],
                      \A c \in unsent[a] : c.name # n
               PROVE  /\ \A i \in DOMAIN toNS'[a] :
                            TellsLast(a, i, n)' => toNS'[a][i].size = disk[a][n]
                      /\ At(n, a)' /\ (\A i \in DOMAIN toNS'[a] : ~TellsSize(a, i, n)')
                            => files'[n].size = disk[a][n]
    BY DEF LastSize
  <2>1. /\ \A i \in DOMAIN toNS[a] : TellsLast(a, i, n) => toNS[a][i].size = disk[a][n]
        /\ At(n, a) /\ (\A i \in DOMAIN toNS[a] : ~TellsSize(a, i, n))
              => files[n].size = disk[a][n]
    BY DEF Told, LastSize
  <2>2. \A i \in DOMAIN toNS'[a] : TellsSize(a, i, n)' <=> TellsSize(a, i + 1, n)
    BY <1>3 DEF TellsSize
  <2>3. \A i \in DOMAIN toNS[a] \ {1} : TellsSize(a, i, n) => TellsSize(a, i - 1, n)'
    BY <1>4 DEF TellsSize
  <2>4. ASSUME NEW i \in DOMAIN toNS'[a], TellsLast(a, i, n)'
        PROVE  toNS'[a][i].size = disk[a][n]
    <3>1. i + 1 \in DOMAIN toNS[a] /\ TellsSize(a, i + 1, n) /\ i \in Nat
      BY <1>1, <2>2, <2>4 DEF TellsLast
    <3>2. ASSUME NEW j \in DOMAIN toNS[a], TellsSize(a, j, n) PROVE j <= i + 1
      <4>1. CASE j = 1
        BY <3>1, <4>1
      <4>2. CASE j # 1
        <5>1. j - 1 \in DOMAIN toNS'[a] /\ TellsSize(a, j - 1, n)'
          BY <1>1, <2>3, <3>2, <4>2
        <5>2. j - 1 <= i
          BY <2>4, <5>1 DEF TellsLast
        <5>3. j \in Nat
          BY <1>1
        <5> QED BY <3>1, <5>2, <5>3
      <4> QED BY <4>1, <4>2
    <3>3. TellsLast(a, i + 1, n)
      BY <3>1, <3>2 DEF TellsLast
    <3> QED BY <1>1, <2>1, <3>1, <3>3
  <2>5. ASSUME At(n, a)', \A i \in DOMAIN toNS'[a] : ~TellsSize(a, i, n)'
        PROVE  files'[n].size = disk[a][n]
    <3>1. \A j \in DOMAIN toNS[a] \ {1} : ~TellsSize(a, j, n)
      BY <1>1, <2>3, <2>5
    <3>2. CASE ~TellsSize(a, 1, n) /\ EntrySame(a, n)
      BY <2>1, <2>5, <3>1, <3>2 DEF EntrySame
    <3>3. CASE TellsSize(a, 1, n) /\ files'[n].size = toNS[a][1].size
      <4>1. TellsLast(a, 1, n)
        <5>1. \A j \in DOMAIN toNS[a] : TellsSize(a, j, n) => j <= 1
          BY <3>1
        <5> QED BY <3>3, <5>1 DEF TellsLast
      <4> QED BY <1>1, <2>1, <3>3, <4>1
    <3> QED BY <3>2, <3>3
  <2> QED BY <2>4, <2>5
<1> QED BY <1>2, <1>5, <1>6 DEF Told

\* The message read says nothing of the size of n.
LEMMA ReadSized ==
    ASSUME NEW n \in Names, Measured(n), NEW a \in Addresses, Unread(a), Read(a),
           UNCHANGED <<pc, arg, target>>, UNCHANGED <<unsent, up, disk, untold>>,
           ~TellsSize(a, 1, n), \A b \in Addresses : EntrySame(b, n)
    PROVE  Sized(n)'
<1>1. Told(a, n)'
  BY ReadTold DEF Measured, Before, BInv, Sized
<1>2. ASSUME NEW b \in Addresses \ {a} PROVE Told(b, n)'
  <2>1. toNS'[b] = toNS[b] /\ Told(b, n) /\ DiskSame(b, n)
    BY AfterRead DEF Measured, Before, BInv, Sized, DiskSame
  <2> QED BY <2>1, ToldSame
<1>3. NewIsEmpty(n)'
  <2>1. \A k \in Handlers : Creates(k, n)' =>
            Creates(k, n) /\ AddrOf(k)' = AddrOf(k) /\ target[k] \in Entries
    BY SameCreator DEF Measured, Before
  <2>2. \A b \in Addresses : At(n, b) => files'[n].size = files[n].size
    BY DEF EntrySame
  <2> QED BY <2>1, <2>2, NewIsEmptySame DEF Measured, Before, BInv, Placed, Sized
<1> QED BY <1>1, <1>2, <1>3 DEF Sized

\* The message read is recorded as the size of n, when nobody awaits an answer.
LEMMA RecordSized ==
    ASSUME NEW n \in Names, Measured(n), NEW a \in Addresses, Unread(a), Read(a),
           UNCHANGED <<pc, arg, target>>, UNCHANGED <<unsent, up, disk, untold>>,
           awaiting[a] = NoHandler, TellsSize(a, 1, n), At(n, a)',
           files'[n].size = toNS[a][1].size, \A b \in Addresses \ {a} : ~At(n, b)
    PROVE  Sized(n)'
<1>1. Told(a, n)' /\ Told(a, n)
  BY ReadTold DEF Measured, Before, BInv, Sized
<1>2. ASSUME NEW b \in Addresses \ {a} PROVE Told(b, n)'
  <2>1. toNS'[b] = toNS[b] /\ Told(b, n) /\ DiskSame(b, n)
    BY AfterRead DEF Measured, Before, BInv, Sized, DiskSame
  <2>2. EntrySame(b, n)
    BY DEF EntrySame, At
  <2> QED BY <2>1, <2>2, ToldSame
<1>3. n \in DOMAIN disk[a]
  <2>1. Exchange(a, n) /\ \A p : ~AwaitsAbout(a, p, n)
    BY DEF Measured, Before, Placed, AwaitsAbout
  <2>2. \A j \in DOMAIN toNS[a] : ~Answered(a, j, n)
    BY <2>1, NobodyAsks
  <2>3. \A j \in DOMAIN toNS[a] : ~Says(a, j, "OK_DELETE", n)
    BY <2>2 DEF Answered
  <2>4. 1 \in DOMAIN toNS[a]
    BY DEF TellsSize, Says
  <2>5. CASE Says(a, 1, "SS_HAS_FILE", n)
    BY <2>1, <2>3, <2>4, <2>5 DEF Exchange, Reported, Said
  <2>6. CASE Says(a, 1, "WRITE_COMPLETE", n)
    BY <1>1, <2>3, <2>4, <2>6 DEF Told, FromHolder
  <2> QED BY <2>5, <2>6 DEF TellsSize
<1>4. NewIsEmpty(n)'
  <2>1. \A k \in Handlers : Creates(k, n)' =>
            Creates(k, n) /\ AddrOf(k)' = AddrOf(k) /\ target[k] \in Entries
    BY SameCreator DEF Measured, Before
  <2> QED BY <1>3, <2>1, NewIsEmptySame DEF Measured, Before, BInv, Placed, Sized
<1> QED BY <1>1, <1>2, <1>4 DEF Sized

LEMMA ReaderStepSized ==
    ASSUME NEW n \in Names, Measured(n), NEW a \in Addresses, ReaderStep(a)
    PROVE  Sized(n)'
<1>1. /\ UNCHANGED <<pc, arg, target>> /\ UNCHANGED <<unsent, up, disk, untold>>
  BY DEF ReaderStep, HandOver, HasFile, FilesDone, WriteComplete, Unhandled, Disconnect,
     handler, server
<1>2. n \notin doubt' /\ n \notin raced'
  BY DEF Measured, Before, Trusted
<1> DEFINE m == toNS[a][1]
<1>3. Unread(a) /\ Read(a) => /\ Head(toNS[a]) = m /\ 1 \in DOMAIN toNS[a] /\ m \in Messages
  BY AfterRead DEF Measured, Before, BInv
<1>4. CASE HandOver(a) \/ Unhandled(a) \/ FilesDone(a)
  <2>1. Unread(a) /\ Read(a) /\ files' = files
    BY <1>4 DEF HandOver, Unhandled, FilesDone
  <2>2. \A b \in Addresses : EntrySame(b, n)
    BY <2>1 DEF EntrySame, At
  <2>3. ~Says(a, 1, "WRITE_COMPLETE", n)
    BY <1>2, <1>3, <1>4, <2>1 DEF HandOver, Unhandled, FilesDone, Says
  <2>4. ~Says(a, 1, "SS_HAS_FILE", n)
    <3>1. m.do = "SS_HAS_FILE" => reader[a] = "sync"
      BY <1>3, <2>1 DEF Measured, Before, BInv, Links, Link
    <3> QED BY <1>2, <1>3, <1>4, <2>1, <3>1 DEF HandOver, Unhandled, FilesDone, Says
  <2> QED BY <1>1, <2>1, <2>2, <2>3, <2>4, ReadSized DEF TellsSize
<1>5. CASE HasFile(a)
  <2>1. /\ Unread(a) /\ Read(a) /\ awaiting[a] = NoHandler
        /\ Head(toNS[a]).do = "SS_HAS_FILE"
        /\ files' = With(files, Head(toNS[a]).name, [ss |-> a, size |-> Head(toNS[a]).size])
        /\ Head(toNS[a]).name \in DOMAIN files /\ files[Head(toNS[a]).name].ss # a
              => Head(toNS[a]).name \in doubt'
    BY <1>5 DEF HasFile, reported
  <2>2. /\ m.do = "SS_HAS_FILE" /\ files' = With(files, m.name, [ss |-> a, size |-> m.size])
        /\ m.name \in DOMAIN files /\ files[m.name].ss # a => m.name \in doubt'
        /\ 1 \in DOMAIN toNS[a]
    BY <1>3, <2>1
  <2> HIDE DEF m
  <2>3. CASE m.name # n
    <3>1. \A b \in Addresses : EntrySame(b, n)
      BY <2>2, <2>3 DEF EntrySame, At, With
    <3>2. ~TellsSize(a, 1, n)
      BY <2>2, <2>3 DEF TellsSize, Says, m
    <3> QED BY <1>1, <2>1, <3>1, <3>2, ReadSized
  <2>4. CASE m.name = n
    <3>1. TellsSize(a, 1, n) /\ At(n, a)' /\ files'[n].size = m.size
      BY <2>2, <2>4 DEF TellsSize, Says, m, At, With
    <3>2. \A b \in Addresses \ {a} : ~At(n, b)
      BY <1>2, <2>2, <2>4 DEF At
    <3> QED BY <1>1, <2>1, <3>1, <3>2, RecordSized DEF m
  <2> QED BY <2>3, <2>4
<1>6. CASE WriteComplete(a)
  <2>1. /\ Unread(a) /\ Read(a) /\ awaiting[a] = NoHandler /\ reader[a] = "main"
        /\ Head(toNS[a]).do = "WRITE_COMPLETE"
        /\ files' = IF Head(toNS[a]).name \in DOMAIN files
                    THEN [files EXCEPT ![Head(toNS[a]).name].size = Head(toNS[a]).size]
                    ELSE files
    BY <1>6 DEF WriteComplete, write_complete
  <2>2. /\ m.do = "WRITE_COMPLETE" /\ 1 \in DOMAIN toNS[a]
        /\ files' = IF m.name \in DOMAIN files THEN [files EXCEPT ![m.name].size = m.size]
                    ELSE files
    BY <1>3, <2>1
  <2> HIDE DEF m
  <2>3. \A k \in DOMAIN files : files[k] \in [ss : Addresses, size : 0..MaxSize]
    BY DEF Measured, Before, BInv, Types, FilesTyped
  <2>4. CASE m.name # n
    <3>1. \A b \in Addresses : EntrySame(b, n)
      BY <2>2, <2>4 DEF EntrySame, At
    <3>2. ~TellsSize(a, 1, n)
      BY <2>2, <2>4 DEF TellsSize, Says, m
    <3> QED BY <1>1, <2>1, <3>1, <3>2, ReadSized
  <2>5. CASE m.name = n
    <3>1. TellsSize(a, 1, n) /\ Says(a, 1, "WRITE_COMPLETE", n)
      BY <2>2, <2>5 DEF TellsSize, Says, m
    <3>2. ~Said(a, "SS_HAS_FILE", n)
      BY <2>1 DEF Said, Says, Measured, Before, BInv, Links, Link
    <3>3. At(n, a)
      BY <2>2, <3>1, <3>2 DEF Measured, Sized, Told, FromHolder
    <3>4. At(n, a)' /\ files'[n].size = m.size
      BY <2>2, <2>3, <2>5, <3>3 DEF At
    <3>5. \A b \in Addresses \ {a} : ~At(n, b)
      BY <3>3 DEF At
    <3> QED BY <1>1, <2>1, <3>1, <3>4, <3>5, RecordSized DEF m
  <2> QED BY <2>4, <2>5
<1>7. CASE Disconnect(a)
  <2>1. toNS' = toNS /\ files' = files
    BY <1>7 DEF Disconnect
  <2>2. \A b \in Addresses : EntrySame(b, n) /\ DiskSame(b, n)
    BY <1>1, <2>1 DEF EntrySame, DiskSame, At
  <2>3. \A b \in Addresses : Told(b, n)'
    BY <1>1, <2>1, <2>2, ToldSame DEF Measured, Sized
  <2>4. \A k \in Handlers : Creates(k, n)' =>
            Creates(k, n) /\ AddrOf(k)' = AddrOf(k) /\ target[k] \in Entries
    BY <1>1, SameCreator DEF Measured, Before
  <2>5. NewIsEmpty(n)'
    BY <1>1, <2>1, <2>4, NewIsEmptySame DEF Measured, Before, BInv, Placed, Sized
  <2> QED BY <2>3, <2>5 DEF Sized
<1> QED BY <1>4, <1>5, <1>6, <1>7 DEF ReaderStep

\* A step of a storage server.
LEMMA ServerSized ==
    ASSUME NEW n \in Names, Measured(n), NEW a \in Addresses, Told(a, n)',
           UNCHANGED <<pc, arg, target>>, files' = files,
           \A b \in Addresses \ {a} :
               /\ toNS'[b] = toNS[b] /\ unsent'[b] = unsent[b] /\ up'[b] = up[b]
               /\ disk'[b] = disk[b] /\ untold'[b] = untold[b],
           NewIsEmpty(n)' \/ (n \in DOMAIN disk[a] => n \in DOMAIN disk'[a])
    PROVE  Sized(n)'
<1>1. ASSUME NEW b \in Addresses \ {a} PROVE Told(b, n)'
  <2>1. Told(b, n) /\ EntrySame(b, n) /\ DiskSame(b, n)
    BY DEF Measured, Sized, EntrySame, DiskSame, At
  <2> QED BY <2>1, ToldSame
<1>2. \A k \in Handlers : Creates(k, n)' =>
          Creates(k, n) /\ AddrOf(k)' = AddrOf(k) /\ target[k] \in Entries
  BY SameCreator DEF Measured, Before
<1>3. CASE n \in DOMAIN disk[a] => n \in DOMAIN disk'[a]
  <2>1. \A b \in Addresses : n \in DOMAIN disk[b] => n \in DOMAIN disk'[b]
    BY <1>3
  <2>2. NewIsEmpty(n)'
    BY <1>2, <2>1, NewIsEmptySame DEF Measured, Before, BInv, Placed, Sized
  <2> QED BY <1>1, <2>2 DEF Sized
<1> QED BY <1>1, <1>3 DEF Sized

LEMMA HelloSized ==
    ASSUME NEW n \in Names, Measured(n), NEW a \in Addresses, Hello(a)
    PROVE  Sized(n)'
<1>1. UNCHANGED <<pc, arg, target>> /\ files' = files /\ disk' = disk /\ unsent' = unsent
      /\ ~up[a]
  BY DEF Hello, handler
<1>2. /\ toNS'[a] = ss_emit_file_list(a)
      /\ \A b \in Addresses \ {a} :
            toNS'[b] = toNS[b] /\ up'[b] = up[b] /\ untold'[b] = untold[b]
  BY DEF Hello, Measured, Before, BInv, Types, WireTyped, ServersTyped
<1>3. unsent'[a] = {}
  BY <1>1 DEF Measured, Before, BInv, Links, Link
<1> DEFINE list == ss_emit_file_list(a)
<1>4. ServersTyped
  BY DEF Measured, Before, BInv, Types
<1>5. PICK k \in Nat :
         /\ list \in Seq(Messages) /\ Len(list) = k + 1
         /\ list[k + 1].do = "SS_FILES_DONE"
         /\ \A i \in 1..k : /\ list[i].do = "SS_HAS_FILE"
                            /\ list[i].name \in DOMAIN disk[a]
                            /\ list[i].size = disk[a][list[i].name]
         /\ \A m \in DOMAIN disk[a] : \E i \in 1..k : list[i].name = m
  BY <1>4, FileList
<1> HIDE DEF list
<1>6. toNS'[a] = list /\ DOMAIN toNS'[a] = 1..(k + 1)
  BY <1>2, <1>5 DEF list
<1>7. \A i \in DOMAIN toNS'[a] : i = k + 1 \/ i \in 1..k
  BY <1>6
<1>8. FromHolder(a, n)'
  BY <1>5, <1>6, <1>7 DEF FromHolder, Says
<1>9. UnsentCurrent(a, n)'
  BY <1>3 DEF UnsentCurrent
<1>10. \A i \in DOMAIN toNS'[a] : TellsSize(a, i, n)' => toNS'[a][i].size = disk[a][n]
  <2> SUFFICES ASSUME NEW i \in DOMAIN toNS'[a], TellsSize(a, i, n)'
               PROVE  toNS'[a][i].size = disk[a][n]
    OBVIOUS
  <2>1. i \in 1..k
    BY <1>5, <1>6, <1>7 DEF TellsSize, Says
  <2>2. toNS'[a][i].name = n
    BY DEF TellsSize, Says
  <2> QED BY <1>5, <1>6, <2>1, <2>2
<1>11. n \in DOMAIN disk[a] => \E i \in DOMAIN toNS'[a] : TellsSize(a, i, n)'
  <2> SUFFICES ASSUME n \in DOMAIN disk[a] PROVE \E i \in DOMAIN toNS'[a] : TellsSize(a, i, n)'
    OBVIOUS
  <2>1. PICK i \in 1..k : list[i].name = n /\ list[i].do = "SS_HAS_FILE"
    BY <1>5
  <2>2. i \in DOMAIN toNS'[a]
    BY <1>6
  <2> QED BY <1>6, <2>1, <2>2 DEF TellsSize, Says
<1>12. LastSize(a, n)'
  BY <1>1, <1>10, <1>11 DEF LastSize, TellsLast
<1>13. Told(a, n)'
  BY <1>8, <1>9, <1>12 DEF Told
<1> QED BY <1>1, <1>2, <1>13, ServerSized

LEMMA CrashSized ==
    ASSUME NEW n \in Names, Measured(n), NEW a \in Addresses, Crash(a)
    PROVE  Sized(n)'
<1>1. UNCHANGED <<pc, arg, target>> /\ files' = files /\ UNCHANGED <<disk, untold>>
  BY DEF Crash, handler
<1>2. /\ ~up'[a] /\ unsent'[a] = {} /\ (toNS'[a] = toNS[a] \/ toNS'[a] = <<>>)
      /\ \A b \in Addresses \ {a} :
            toNS'[b] = toNS[b] /\ up'[b] = up[b] /\ unsent'[b] = unsent[b]
  BY DEF Crash, Measured, Before, BInv, Types, WireTyped, ServersTyped
<1>3. UnsentCurrent(a, n)' /\ LastSize(a, n)'
  BY <1>2 DEF UnsentCurrent, LastSize
<1>4. FromHolder(a, n)'
  <2>1. FromHolder(a, n)
    BY DEF Measured, Sized, Told
  <2>2. CASE toNS'[a] = toNS[a]
    BY <1>1, <2>1, <2>2 DEF FromHolder, Says, Said, At
  <2>3. CASE toNS'[a] = <<>>
    BY <2>3 DEF FromHolder, Says
  <2> QED BY <1>2, <2>2, <2>3
<1>5. Told(a, n)'
  BY <1>3, <1>4 DEF Told
<1> QED BY <1>1, <1>2, <1>5, ServerSized

\* A message that says nothing of the size of n is sent.
LEMMA SaysTold ==
    ASSUME Types, NEW a \in Addresses, NEW m \in Messages, NEW n, Told(a, n),
           toNS' = [toNS EXCEPT ![a] = Append(@, m)],
           m.do \in {"SS_HAS_FILE", "WRITE_COMPLETE"} => m.name # n,
           \A c : c.name = n => (c \in unsent'[a] <=> c \in unsent[a]),
           up' = up, files' = files,
           \/ DiskSame(a, n)
           \/ n \notin DOMAIN disk'[a] /\ m.do = "OK_DELETE" /\ m.name = n
              /\ \A c \in unsent[a] : c.name # n
    PROVE  Told(a, n)'
<1>1. PICK last \in Nat : Added(a, m, last)
  BY AfterSaid
<1>2. \A i \in DOMAIN toNS'[a] :
          /\ TellsSize(a, i, n)' <=> TellsSize(a, i, n)
          /\ TellsSize(a, i, n) => i \in DOMAIN toNS[a] /\ toNS'[a][i] = toNS[a][i]
          /\ Says(a, i, "WRITE_COMPLETE", n)' =>
                i \in DOMAIN toNS[a] /\ Says(a, i, "WRITE_COMPLETE", n)
  BY <1>1 DEF Added, TellsSize, Says
<1>3. \A i \in DOMAIN toNS[a] :
          i \in DOMAIN toNS'[a] /\ i < last /\ \A d : Says(a, i, d, n) => Says(a, i, d, n)'
  BY <1>1 DEF Added, Says
<1>4. Said(a, "SS_HAS_FILE", n) => Said(a, "SS_HAS_FILE", n)'
  BY <1>3 DEF Said
<1>5. FromHolder(a, n)'
  <2> SUFFICES ASSUME NEW i \in DOMAIN toNS[a], Says(a, i, "WRITE_COMPLETE", n)
               PROVE  /\ At(n, a)' \/ Said(a, "SS_HAS_FILE", n)'
                      /\ \/ n \in DOMAIN disk'[a]
                         \/ \E j \in DOMAIN toNS'[a] : j > i /\ Says(a, j, "OK_DELETE", n)'
    BY <1>2 DEF FromHolder
  <2>1. At(n, a)' \/ Said(a, "SS_HAS_FILE", n)'
    BY <1>4 DEF Told, FromHolder, At
  <2>2. CASE DiskSame(a, n)
    BY <1>3, <2>1, <2>2 DEF Told, FromHolder, DiskSame
  <2>3. CASE m.do = "OK_DELETE" /\ m.name = n
    <3>1. last \in DOMAIN toNS'[a] /\ Says(a, last, "OK_DELETE", n)' /\ i < last /\ i \in Nat
      BY <1>1, <1>3, <2>3 DEF Added, Says
    <3>2. last > i
      BY <3>1
    <3> QED BY <2>1, <3>1, <3>2
  <2> QED BY <2>2, <2>3
<1>6. UnsentCurrent(a, n)'
  BY DEF Told, UnsentCurrent, DiskSame
<1>7. LastSize(a, n)'
  <2> SUFFICES ASSUME DiskSame(a, n), up[a], n \in DOMAIN disk[a], n \notin untold[a],
                      \A c \in unsent[a] : c.name # n
               PROVE  /\ \A i \in DOMAIN toNS'[a] :
                            TellsLast(a, i, n)' => toNS'[a][i].size = disk'[a][n]
                      /\ At(n, a)' /\ (\A i \in DOMAIN toNS'[a] : ~TellsSize(a, i, n)')
                            => files'[n].size = disk'[a][n]
    BY DEF LastSize, DiskSame
  <2>1. /\ \A i \in DOMAIN toNS[a] : TellsLast(a, i, n) => toNS[a][i].size = disk[a][n]
        /\ At(n, a) /\ (\A i \in DOMAIN toNS[a] : ~TellsSize(a, i, n))
              => files[n].size = disk[a][n]
    BY DEF Told, LastSize
  <2>2. ASSUME NEW i \in DOMAIN toNS'[a], TellsLast(a, i, n)'
        PROVE  toNS'[a][i].size = disk'[a][n]
    <3>1. i \in DOMAIN toNS[a] /\ toNS'[a][i] = toNS[a][i] /\ TellsSize(a, i, n)
      BY <1>2, <2>2 DEF TellsLast
    <3>2. \A j \in DOMAIN toNS[a] : TellsSize(a, j, n) => j <= i
      BY <1>2, <1>3, <2>2 DEF TellsLast
    <3>3. TellsLast(a, i, n)
      BY <3>1, <3>2 DEF TellsLast
    <3> QED BY <2>1, <3>1, <3>3 DEF DiskSame
  <2>3. ASSUME At(n, a)', \A i \in DOMAIN toNS'[a] : ~TellsSize(a, i, n)'
        PROVE  files'[n].size = disk'[a][n]
    BY <1>2, <1>3, <2>1, <2>3 DEF At, DiskSame
  <2> QED BY <2>2, <2>3
<1> QED BY <1>5, <1>6, <1>7 DEF Told

LEMMA SyncSized ==
    ASSUME NEW n \in Names, Measured(n), NEW a \in Addresses, Sync(a)
    PROVE  Sized(n)'
<1>1. /\ UNCHANGED <<pc, arg, target>> /\ files' = files /\ disk' = disk /\ up' = up
      /\ untold' = untold
  BY DEF Sync, handler
<1>2. PICK c, size : SyncBy(a, c, size)
  BY SyncDoes DEF Measured, Before, BInv
<1>3. PICK m \in Messages : m = [do |-> "WRITE_COMPLETE", name |-> c.name, size |-> size]
  BY <1>2 DEF SyncBy
<1>4. /\ toNS' = [toNS EXCEPT ![a] = Append(@, m)]
      /\ m.do = "WRITE_COMPLETE" /\ m.name = c.name /\ m.size = size
  BY <1>2, <1>3 DEF SyncBy
<1>5. PICK last \in Nat : Added(a, m, last)
  BY <1>4, AfterSaid DEF Measured, Before, BInv
<1>6. /\ unsent'[a] = unsent[a] \ {c}
      /\ \A b \in Addresses \ {a} : toNS'[b] = toNS[b] /\ unsent'[b] = unsent[b]
  BY <1>2, <1>5 DEF SyncBy, Added, Measured, Before, BInv, Types, ServersTyped
<1>7. Told(a, n) /\ DiskSame(a, n) /\ Types
  BY <1>1 DEF Measured, Sized, DiskSame, Before, BInv
<1>8. CASE c.name # n
  <2>1. \A e : e.name = n => (e \in unsent'[a] <=> e \in unsent[a])
    BY <1>6, <1>8
  <2>2. m.do \in {"SS_HAS_FILE", "WRITE_COMPLETE"} => m.name # n
    BY <1>4, <1>8
  <2>3. Told(a, n)'
    BY <1>1, <1>4, <1>7, <2>1, <2>2, SaysTold
  <2> QED BY <1>1, <1>6, <2>3, ServerSized
<1>9. CASE c.name = n
  <2>1. up[a] /\ n \in DOMAIN disk[a] /\ (n \notin untold[a] => size = disk[a][n])
    BY <1>2, <1>7, <1>9 DEF SyncBy, Told, UnsentCurrent
  <2>2. UnsentCurrent(a, n)'
    BY <1>1, <1>6, <1>7 DEF Told, UnsentCurrent
  <2>3. FromHolder(a, n)'
    <3>1. At(n, a) \/ Said(a, "SS_HAS_FILE", n)
      BY <2>1 DEF Measured, Before, Placed, Exchange, Reported
    <3>2. Said(a, "SS_HAS_FILE", n) => Said(a, "SS_HAS_FILE", n)'
      BY <1>5 DEF Added, Said, Says
    <3> QED BY <1>1, <2>1, <3>1, <3>2 DEF FromHolder, At
  <2>4. /\ last \in DOMAIN toNS'[a] /\ TellsSize(a, last, n)' /\ last \in Nat
        /\ n \notin untold[a] => toNS'[a][last].size = disk[a][n]
        /\ DOMAIN toNS'[a] = 1..last
    BY <1>4, <1>5, <1>9, <2>1 DEF Added, TellsSize, Says
  <2>5. LastSize(a, n)'
    <3>1. ASSUME NEW i \in DOMAIN toNS'[a], TellsLast(a, i, n)' PROVE i = last
      <4>1. last <= i /\ i \in 1..last
        BY <2>4, <3>1 DEF TellsLast
      <4> QED BY <2>4, <4>1
    <3> QED BY <1>1, <2>4, <3>1 DEF LastSize
  <2>6. Told(a, n)'
    BY <2>2, <2>3, <2>5 DEF Told
  <2> QED BY <1>1, <1>6, <2>6, ServerSized
<1> QED BY <1>8, <1>9

LEMMA CommitSized ==
    ASSUME NEW n \in Names, Measured(n), NEW a \in Addresses, NEW m \in Names,
           NEW size \in 0..MaxSize, Commit(a, m, size)
    PROVE  Sized(n)'
<1>1. /\ UNCHANGED <<pc, arg, target>> /\ files' = files /\ UNCHANGED <<toNS, up>> /\ up[a]
      /\ m \in DOMAIN disk[a]
  BY DEF Commit, handler, wire
<1>2. /\ DOMAIN disk'[a] = DOMAIN disk[a] /\ disk'[a][m] = size
      /\ \A k \in DOMAIN disk[a] \ {m} : disk'[a][k] = disk[a][k]
      /\ unsent'[a] = unsent[a] \cup {[name |-> m, size |-> size]}
      /\ untold'[a] = untold[a] \ {m}
      /\ \A b \in Addresses \ {a} :
            disk'[b] = disk[b] /\ unsent'[b] = unsent[b] /\ untold'[b] = untold[b]
  BY DEF Commit, Measured, Before, BInv, Types, ServersTyped
<1>3. Told(a, n)
  BY DEF Measured, Sized
<1>4. FromHolder(a, n)'
  BY <1>1, <1>2, <1>3 DEF Told, FromHolder, Says, Said, At
<1>5. m = n => \A c \in unsent[a] : c.name # n
  BY DEF Commit, Measured
<1>6. UnsentCurrent(a, n)'
  BY <1>1, <1>2, <1>3, <1>5 DEF Told, UnsentCurrent
<1>7. LastSize(a, n)'
  <2>1. CASE m = n
    <3>1. [name |-> m, size |-> size] \in unsent'[a] /\ [name |-> m, size |-> size].name = n
      BY <1>2, <2>1
    <3> QED BY <3>1 DEF LastSize
  <2>2. CASE m # n
    <3>1. DiskSame(a, n) /\ EntrySame(a, n)
      BY <1>1, <1>2, <2>2 DEF DiskSame, EntrySame, At
    <3>2. (\A c \in unsent'[a] : c.name # n) => \A c \in unsent[a] : c.name # n
      BY <1>2
    <3> QED BY <1>1, <1>3, <3>1, <3>2
            DEF Told, LastSize, DiskSame, EntrySame, TellsLast, TellsSize, Says
  <2> QED BY <2>1, <2>2
<1>8. Told(a, n)'
  BY <1>4, <1>6, <1>7 DEF Told
<1> QED BY <1>1, <1>2, <1>8, ServerSized

LEMMA RestoreSized ==
    ASSUME NEW n \in Names, Measured(n), NEW a \in Addresses, NEW m \in Names,
           NEW size \in 0..MaxSize, Restore(a, m, size)
    PROVE  Sized(n)'
<1>1. /\ UNCHANGED <<pc, arg, target>> /\ files' = files /\ UNCHANGED <<toNS, up, unsent>>
  BY DEF Restore, handler, wire
<1>2. /\ DOMAIN disk'[a] = DOMAIN disk[a]
      /\ \A k \in DOMAIN disk[a] \ {m} : disk'[a][k] = disk[a][k]
      /\ untold'[a] = untold[a] \cup {m}
      /\ \A b \in Addresses \ {a} : disk'[b] = disk[b] /\ untold'[b] = untold[b]
  BY DEF Restore, Measured, Before, BInv, Types, ServersTyped
<1>3. Told(a, n)
  BY DEF Measured, Sized
<1>4. CASE m = n
  <2>1. n \in untold'[a]
    BY <1>2, <1>4
  <2>2. UnsentCurrent(a, n)' /\ LastSize(a, n)'
    BY <1>1, <1>2, <1>3, <2>1 DEF Told, UnsentCurrent, LastSize
  <2>3. FromHolder(a, n)'
    BY <1>1, <1>2, <1>3 DEF Told, FromHolder, Says, Said, At
  <2>4. Told(a, n)'
    BY <2>2, <2>3 DEF Told
  <2> QED BY <1>1, <1>2, <2>4, ServerSized
<1>5. CASE m # n
  <2>1. DiskSame(a, n) /\ EntrySame(a, n)
    BY <1>1, <1>2, <1>5 DEF DiskSame, EntrySame, At
  <2>2. Told(a, n)'
    BY <1>1, <1>3, <2>1, ToldSame
  <2> QED BY <1>1, <1>2, <2>2, ServerSized
<1> QED BY <1>4, <1>5

LEMMA ServeSized ==
    ASSUME NEW n \in Names, Measured(n), NEW a \in Addresses, Serve(a)
    PROVE  Sized(n)'
<1>1. PICK q \in Requests, d \in {"OK_CREATE", "OK_DELETE", "ERROR"} : ServeBy(a, q, d)
  BY ServeDoes DEF Measured, Before, BInv
<1>2. /\ UNCHANGED <<pc, arg, target>> /\ files' = files /\ UNCHANGED <<up, unsent>>
  BY DEF Serve, handler
<1>3. PICK m \in Messages : m = [do |-> d, name |-> q.name]
  BY DEF Messages, Requests
<1>4. toNS' = [toNS EXCEPT ![a] = Append(@, m)] /\ m.name = q.name /\ m.do = d
  BY <1>1, <1>3 DEF ServeBy
<1>5. PICK last \in Nat : Added(a, m, last)
  BY <1>4, AfterSaid DEF Measured, Before, BInv
<1>6. /\ \A b \in Addresses \ {a} :
            toNS'[b] = toNS[b] /\ disk'[b] = disk[b] /\ untold'[b] = untold[b]
      /\ untold'[a] = untold[a] \cap DOMAIN disk'[a]
  BY <1>1, <1>5 DEF Added, Serve, ServeBy, Measured, Before, BInv, Types, ServersTyped
<1>7. Told(a, n) /\ Types
  BY DEF Measured, Sized, Before, BInv
<1>8. m.do \in {"SS_HAS_FILE", "WRITE_COMPLETE"} => m.name # n
  BY <1>4
<1>9. \A c : c.name = n => (c \in unsent'[a] <=> c \in unsent[a])
  BY <1>2
<1>10. CASE q.name # n \/ d = "ERROR"
  <2>1. DiskSame(a, n)
    BY <1>1, <1>6, <1>10 DEF ServeBy, DiskSame, With, Without, Measured, Before, BInv, Types,
       ServersTyped
  <2>2. Told(a, n)'
    BY <1>2, <1>4, <1>7, <1>8, <1>9, <2>1, SaysTold
  <2>3. n \in DOMAIN disk[a] => n \in DOMAIN disk'[a]
    BY <2>1 DEF DiskSame
  <2> QED BY <1>2, <1>6, <2>2, <2>3, ServerSized
<1>11. CASE q.name = n /\ d # "ERROR"
  <2>1. \A c \in unsent[a] : c.name # n
    BY <1>1, <1>11 DEF ServeBy, Measured
  <2>2. /\ 1 \in DOMAIN toSS[a] /\ q = toSS[a][1]
    BY <1>1, <1>7, AfterServe
  <2>3. OneRequest(a, n) /\ Reported(a, n)
    BY DEF Measured, Before, Placed, Exchange
  <2>4. /\ q.do = "CREATE_FILE" => AwaitsAbout(a, "created", n)
        /\ q.do # "CREATE_FILE" => AwaitsAbout(a, "deleted", n)
        /\ \A j \in DOMAIN toNS[a] : ~Answered(a, j, n)
    BY <1>11, <2>2, <2>3 DEF OneRequest, Asked
  <2>5. awaiting[a] # NoHandler
    BY <2>4 DEF AwaitsAbout
  <2>6. PICK h \in Handlers : /\ h = awaiting[a] /\ Waits(h) /\ AddrOf(h) = a
                              /\ arg[h] = n
                              /\ pc[h] = IF q.do = "CREATE_FILE" THEN "created" ELSE "deleted"
    BY <1>7, <2>4, <2>5, WhoIsAwaited DEF AwaitsAbout, Measured, Before, BInv
  <2>7. CASE d = "OK_CREATE"
    <3>1. /\ q.do = "CREATE_FILE" /\ n \notin DOMAIN disk[a]
          /\ n \in DOMAIN disk'[a] /\ disk'[a][n] = 0
      BY <1>1, <1>11, <2>7 DEF ServeBy, With, Measured, Before, BInv, Types, ServersTyped
    <3>2. Creates(h, n)
      BY <2>6, <3>1 DEF Creates
    <3>3. files[n].size = 0
      BY <2>6, <3>1, <3>2 DEF Measured, Sized, NewIsEmpty
    <3>4. \A j \in DOMAIN toNS[a] : ~Says(a, j, "OK_DELETE", n)
      BY <2>4 DEF Answered
    <3>5. \A j \in DOMAIN toNS[a] : ~TellsSize(a, j, n)
      BY <1>7, <2>3, <3>1, <3>4 DEF TellsSize, Told, FromHolder, Reported, Said
    <3>6. \A j \in DOMAIN toNS'[a] : ~TellsSize(a, j, n)'
      BY <1>4, <1>5, <1>8, <3>5 DEF Added, TellsSize, Says
    <3>7. Told(a, n)'
      BY <1>2, <2>1, <3>1, <3>3, <3>6
         DEF Told, UnsentCurrent, FromHolder, LastSize, TellsLast, TellsSize
    <3> QED BY <1>2, <1>6, <3>1, <3>7, ServerSized
  <2>8. CASE d = "OK_DELETE"
    <3>1. q.do # "CREATE_FILE" /\ n \notin DOMAIN disk'[a]
      BY <1>1, <1>11, <2>8 DEF ServeBy, Without, Measured, Before, BInv, Types, ServersTyped
    <3>2. Told(a, n)'
      BY <1>2, <1>4, <1>7, <1>8, <1>9, <1>11, <2>1, <2>8, <3>1, SaysTold
    <3>3. n \in plan[h]
      BY <2>6, <3>1 DEF Measured, Before, BInv, Roles, Role
    <3>4. \A k \in Handlers : ~Creates(k, n)'
      BY <1>2, <3>3 DEF Measured, Before, Placed, OneCreator, Creates
    <3>5. NewIsEmpty(n)'
      BY <3>4 DEF NewIsEmpty
    <3> QED BY <1>2, <1>6, <3>2, <3>5, ServerSized
  <2> QED BY <1>11, <2>7, <2>8
<1> QED BY <1>10, <1>11

LEMMA SInvInit == Init => SInv
<1> SUFFICES ASSUME Init, NEW n \in Names PROVE Sized(n)
  BY PInvInit DEF SInv
<1>1. /\ \A h \in Handlers : ~Creates(h, n)
      /\ \A a \in Addresses : ~up[a] /\ unsent[a] = {} /\ DOMAIN toNS[a] = {}
  BY DEF Init, Creates
<1> QED BY <1>1 DEF Sized, NewIsEmpty, Told, UnsentCurrent, FromHolder, LastSize

\* What was raced once stays so.
LEMMA RacedGrows == Next => raced \subseteq raced'
<1>1. ASSUME NEW h \in Handlers, HandlerStep(h) PROVE raced \subseteq raced'
  BY <1>1 DEF HandlerStep, CreateBegin, DeleteBegin, Send, CreateEnd, DeleteNext, DeleteFails,
     DeleteEnd, history
<1>2. ASSUME NEW a \in Addresses, ReaderStep(a) PROVE raced \subseteq raced'
  BY <1>2 DEF ReaderStep, HandOver, HasFile, FilesDone, WriteComplete, Unhandled, Disconnect,
     history
<1>3. ASSUME NEW a \in Addresses, ServerStep(a) PROVE raced \subseteq raced'
  BY <1>3 DEF ServerStep, Hello, Crash, Serve, Sync, Commit, Restore, history
<1> QED BY <1>1, <1>2, <1>3 DEF Next

LEMMA SInvStep == SInv /\ [Next]_vars => SInv'
<1> SUFFICES ASSUME SInv, [Next]_vars PROVE SInv'
  OBVIOUS
<1>1. PInv' /\ BInv' /\ AddrsKept
  BY PInvStep, BInvStep DEF SInv, PInv
<1>2. CASE Next
  <2>1. ASSUME NEW n \in Names, Trusted(n)', n \notin raced' PROVE Sized(n)'
    <3>1. Trusted(n)
      BY <1>2, <2>1, TrustStays DEF SInv, PInv
    <3>2. raced \subseteq raced'
      BY <1>2, RacedGrows
    <3>3. Measured(n)
      BY <1>1, <2>1, <3>1, <3>2 DEF SInv, PInv, Before, Measured
    <3>4. ASSUME NEW a \in Addresses, ServerStep(a) PROVE Sized(n)'
      BY <3>3, <3>4, HelloSized, CrashSized, ServeSized, SyncSized, CommitSized,
         RestoreSized DEF ServerStep
    <3> QED BY <1>2, <3>3, <3>4, HandlerStepSized, ReaderStepSized DEF Next
  <2> QED BY <1>1, <2>1 DEF SInv
<1>3. CASE UNCHANGED vars
  <2>1. ASSUME NEW n \in Names, Trusted(n)', n \notin raced' PROVE Sized(n)'
    <3>1. /\ UNCHANGED <<pc, arg, target>> /\ files' = files /\ raced' = raced
          /\ UNCHANGED <<toNS, unsent, up, disk, untold>>
      BY <1>3 DEF vars, handler, wire, server, history
    <3>2. Trusted(n)
      BY <1>3, <2>1 DEF Trusted, Fails, vars, handler, history
    <3>3. Sized(n) /\ OneCreator(n) /\ Types
      BY <2>1, <3>1, <3>2 DEF SInv, PInv, Placed, BInv
    <3>4. \A b \in Addresses : EntrySame(b, n) /\ DiskSame(b, n)
      BY <3>1 DEF EntrySame, DiskSame, At
    <3>5. \A b \in Addresses : Told(b, n)'
      BY <3>1, <3>3, <3>4, ToldSame DEF Sized
    <3>6. \A k \in Handlers : Creates(k, n)' =>
              Creates(k, n) /\ AddrOf(k)' = AddrOf(k) /\ target[k] \in Entries
      BY <1>1, <3>1, SameCreator DEF SInv, PInv
    <3>7. NewIsEmpty(n)'
      BY <3>1, <3>3, <3>6, NewIsEmptySame DEF Sized
    <3> QED BY <3>5, <3>7 DEF Sized
  <2> QED BY <1>1, <2>1 DEF SInv
<1> QED BY <1>2, <1>3

LEMMA SInvSuffices == SInv => SizeCurrent
<1> SUFFICES ASSUME SInv, NEW a \in Addresses, Settled(a), unsent[a] = {},
                    NEW n \in Located(a), n \notin doubt, n \notin raced, n \notin untold[a]
             PROVE  files[n].size = disk[a][n]
  BY DEF SizeCurrent
<1>1. \A h \in Handlers : pc[h] = "idle" /\ result[h] = NoMsg
  BY DEF Settled, SInv, PInv, BInv, Roles, Role
<1>2. At(n, a) /\ n \in Names
  BY DEF Located, At, SInv, PInv, BInv, Types, FilesTyped
<1>3. Trusted(n)
  BY <1>1 DEF Trusted, Fails
<1>4. n \in DOMAIN disk[a]
  BY PInvSuffices DEF SInv, CatalogMatchesDisk
<1>5. \A i \in DOMAIN toNS[a] : ~TellsSize(a, i, n)
  BY DEF Settled, TellsSize, Says
<1>6. LastSize(a, n)
  BY <1>2, <1>3 DEF SInv, Sized, Told
<1> QED BY <1>2, <1>4, <1>5, <1>6 DEF LastSize, Settled

\* Once every commit has been told, the size in the catalogue is the size of the file,
\* but for files whose commits or messages crossed, or which were undone or reverted
\* since.
THEOREM SizesAreCurrent == Spec => []SizeCurrent
BY SInvInit, SInvStep, SInvSuffices, PTL DEF Spec
-----------------------------------------------------------------------------
(* Sums of sizes *)

\* A set of natural numbers that is not empty has a least element.
LEMMA LeastNat ==
    ASSUME NEW T \in SUBSET Nat, T # {}
    PROVE  \E x \in T : \A y \in T : x <= y
<1>1. \E x \in T : \A y \in T : ~(<<y, x>> \in OpToRel(<, Nat))
  BY NatLessThanWellFounded, WFMin
<1>2. ASSUME NEW x \in Nat, NEW y \in Nat PROVE <<y, x>> \in OpToRel(<, Nat) <=> y < x
  BY DEF OpToRel
<1>3. \A x, y \in Nat : ~(y < x) => x <= y
  OBVIOUS
<1> HIDE DEF OpToRel
<1> QED BY <1>1, <1>2, <1>3

\* The bytes of the files in S, by the entries in fs.
Sum(fs, S) == FoldSet(LAMBDA n, sum : fs[n].size + sum, 0, S)
\* it is the sum for every part of S, by removing one file after the other.
Some(s) == CHOOSE x \in s : TRUE
Rec(fs, S, it) ==
    it = [s \in SUBSET S |-> IF s = {} THEN 0 ELSE fs[Some(s)].size + it[s \ {Some(s)}]]
Sizes(fs, S) == IsFiniteSet(S) /\ \A n \in S : fs[n].size \in Nat

LEMMA SumDef ==
    ASSUME NEW fs, NEW S
    PROVE  \E it : it = (CHOOSE g : Rec(fs, S, g)) /\ Sum(fs, S) = it[S]
BY DEF Sum, FoldSet, MapThenFoldSet, Rec, Some

LEMMA SomeIn ==
    ASSUME NEW s, s # {}
    PROVE  Some(s) \in s
BY DEF Some

\* A part of a finite set without one of its elements is smaller.
LEMMA Smaller ==
    ASSUME NEW S, IsFiniteSet(S), NEW s \in SUBSET S, NEW x \in s
    PROVE  /\ s \ {x} \in SUBSET S
           /\ Cardinality(s) \in Nat /\ Cardinality(s \ {x}) \in Nat
           /\ Cardinality(s \ {x}) < Cardinality(s)
<1>1. IsFiniteSet(s)
  BY FS_Subset
<1>2. Cardinality(s \ {x}) = Cardinality(s) - 1
  BY <1>1, FS_RemoveElement
<1>3. IsFiniteSet(s \ {x})
  BY <1>1, FS_RemoveElement
<1> QED BY <1>1, <1>2, <1>3, FS_CardinalityType

\* it does so for the parts of S with up to n files.
Upto(fs, S, n, it) ==
    \A s \in SUBSET S : Cardinality(s) <= n =>
        it[s] = IF s = {} THEN 0 ELSE fs[Some(s)].size + it[s \ {Some(s)}]
Once(fs, S, it) ==
    [s \in SUBSET S |-> IF s = {} THEN 0 ELSE fs[Some(s)].size + it[s \ {Some(s)}]]

LEMMA OnceMore ==
    ASSUME NEW fs, NEW S, IsFiniteSet(S), NEW n \in Nat, NEW it, Upto(fs, S, n, it)
    PROVE  Upto(fs, S, n + 1, Once(fs, S, it))
<1> DEFINE new == Once(fs, S, it)
<1>1. \A s \in SUBSET S :
         new[s] = IF s = {} THEN 0 ELSE fs[Some(s)].size + it[s \ {Some(s)}]
  BY DEF Once
<1> HIDE DEF new
<1>2. ASSUME NEW s \in SUBSET S, Cardinality(s) <= n
      PROVE  new[s] = it[s]
  BY <1>1, <1>2 DEF Upto
<1>3. ASSUME NEW s \in SUBSET S, Cardinality(s) <= n + 1, s # {}
      PROVE  new[s] = fs[Some(s)].size + new[s \ {Some(s)}]
  <2>1. /\ s \ {Some(s)} \in SUBSET S
        /\ Cardinality(s) \in Nat /\ Cardinality(s \ {Some(s)}) \in Nat
        /\ Cardinality(s \ {Some(s)}) < Cardinality(s)
    BY <1>3, SomeIn, Smaller
  <2>2. Cardinality(s \ {Some(s)}) <= n
    BY <1>3, <2>1
  <2>3. new[s \ {Some(s)}] = it[s \ {Some(s)}]
    BY <1>2, <2>1, <2>2
  <2> QED BY <1>1, <1>3, <2>3
<1>4. Upto(fs, S, n + 1, new)
  BY <1>1, <1>3 DEF Upto
<1> QED BY <1>4 DEF new

LEMMA SumExists ==
    ASSUME NEW fs, NEW S, IsFiniteSet(S)
    PROVE  \E it : Rec(fs, S, it)
<1> DEFINE T == {n \in Nat : ~\E it : Upto(fs, S, n, it)}
<1>1. T = {}
  <2> SUFFICES ASSUME T # {} PROVE FALSE
    OBVIOUS
  <2>1. PICK n \in T : \A m \in T : n <= m
    BY LeastNat
  <2>2. CASE n = 0
    <3> DEFINE it == [s \in SUBSET S |-> 0]
    <3>1. ASSUME NEW s \in SUBSET S, Cardinality(s) <= 0
          PROVE  s = {}
      <4>1. IsFiniteSet(s)
        BY FS_Subset
      <4> QED BY <3>1, <4>1, FS_EmptySet, FS_CardinalityType
    <3>2. Upto(fs, S, 0, it)
      BY <3>1 DEF Upto
    <3> QED BY <2>2, <3>2
  <2>3. CASE n # 0
    <3>1. n - 1 \in Nat /\ n - 1 \notin T /\ (n - 1) + 1 = n
      BY <2>1, <2>3
    <3>2. PICK it : Upto(fs, S, n - 1, it)
      BY <3>1
    <3>3. Upto(fs, S, n, Once(fs, S, it))
      BY <3>1, <3>2, OnceMore
    <3> QED BY <3>3
  <2> QED BY <2>2, <2>3
<1>2. Cardinality(S) \in Nat
  BY FS_CardinalityType
<1>3. PICK it : Upto(fs, S, Cardinality(S), it)
  BY <1>1, <1>2
<1>4. \A s \in SUBSET S : Cardinality(s) <= Cardinality(S)
  BY FS_Subset
<1>5. \A s \in SUBSET S :
         it[s] = IF s = {} THEN 0 ELSE fs[Some(s)].size + it[s \ {Some(s)}]
  BY <1>3, <1>4 DEF Upto
<1> DEFINE new == [s \in SUBSET S |-> it[s]]
<1>6. \A s \in SUBSET S : s \ {Some(s)} \in SUBSET S
  OBVIOUS
<1>7. new = [s \in SUBSET S |-> IF s = {} THEN 0 ELSE fs[Some(s)].size + new[s \ {Some(s)}]]
  BY <1>5, <1>6
<1> QED BY <1>7 DEF Rec

\* What is added does not depend on which element is taken first.
LEMMA SumOf ==
    ASSUME NEW fs, NEW S, Sizes(fs, S), NEW it, Rec(fs, S, it)
    PROVE  \A s \in SUBSET S :
              /\ it[s] \in Nat
              /\ s = {} => it[s] = 0
              /\ \A x \in s : it[s] = fs[x].size + it[s \ {x}]
<1> DEFINE Good(s) == /\ it[s] \in Nat
                      /\ s = {} => it[s] = 0
                      /\ \A x \in s : it[s] = fs[x].size + it[s \ {x}]
           Bad == {s \in SUBSET S : ~Good(s)}
           T == {Cardinality(s) : s \in Bad}
<1>1. \A s \in SUBSET S : Cardinality(s) \in Nat
  BY FS_Subset, FS_CardinalityType DEF Sizes
<1>2. ASSUME NEW s \in SUBSET S, NEW x \in s
      PROVE  /\ s \ {x} \in SUBSET S
             /\ Cardinality(s \ {x}) < Cardinality(s)
  BY Smaller DEF Sizes
<1>3. \A s \in SUBSET S :
         it[s] = IF s = {} THEN 0 ELSE fs[Some(s)].size + it[s \ {Some(s)}]
  BY DEF Rec
<1>4. \A n \in S : fs[n].size \in Nat
  BY DEF Sizes
<1>5. Bad = {}
  <2> SUFFICES ASSUME Bad # {} PROVE FALSE
    OBVIOUS
  <2>1. T \in SUBSET Nat /\ T # {}
    BY <1>1
  <2>2. PICK k \in T : \A j \in T : k <= j
    BY <2>1, LeastNat
  <2>3. PICK s \in Bad : k = Cardinality(s)
    BY <2>2
  <2>4. \A r \in SUBSET S : Cardinality(r) < Cardinality(s) => Good(r)
    <3> SUFFICES ASSUME NEW r \in SUBSET S, Cardinality(r) < Cardinality(s), ~Good(r)
                 PROVE  FALSE
      OBVIOUS
    <3>1. Cardinality(r) \in T
      OBVIOUS
    <3> QED BY <3>1, <2>2, <2>3, <1>1
  <2>5. s # {}
    <3>1. ASSUME s = {} PROVE FALSE
      <4>1. it[s] = 0
        BY <1>3, <2>3, <3>1
      <4>2. Good(s)
        BY <3>1, <4>1
      <4> QED BY <2>3, <4>2
    <3> QED BY <3>1
  <2> DEFINE y == Some(s)
  <2>6. y \in s /\ s \in SUBSET S
    BY <2>3, <2>5, SomeIn
  <2>7. it[s] = fs[y].size + it[s \ {y}]
    BY <1>3, <2>5, <2>6
  <2> HIDE DEF y
  <2>8. Good(s \ {y})
    BY <1>2, <2>4, <2>6
  <2>9. it[s] \in Nat
    BY <1>4, <2>6, <2>7, <2>8
  <2>10. ASSUME NEW x \in s PROVE it[s] = fs[x].size + it[s \ {x}]
    <3>1. CASE x = y
      BY <2>7, <3>1
    <3>2. CASE x # y
      <4>1. x \in s \ {y} /\ y \in s \ {x} /\ (s \ {x}) \ {y} = (s \ {y}) \ {x}
        BY <2>6, <3>2
      <4>2. it[s \ {y}] = fs[x].size + it[(s \ {y}) \ {x}]
        BY <2>8, <4>1
      <4>3. Good(s \ {x})
        BY <1>2, <2>4, <2>6
      <4>4. it[s \ {x}] = fs[y].size + it[(s \ {y}) \ {x}]
        BY <4>1, <4>3
      <4>5. (s \ {y}) \ {x} \in SUBSET S /\ Cardinality((s \ {y}) \ {x}) < Cardinality(s)
        <5>1. /\ s \ {y} \in SUBSET S
              /\ Cardinality(s \ {y}) < Cardinality(s)
          BY <1>2, <2>6
        <5>2. /\ (s \ {y}) \ {x} \in SUBSET S
              /\ Cardinality((s \ {y}) \ {x}) < Cardinality(s \ {y})
          BY <1>2, <4>1, <5>1
        <5> QED BY <5>1, <5>2, <1>1, <2>6
      <4>6. it[(s \ {y}) \ {x}] \in Nat
        BY <2>4, <4>5
      <4>7. fs[x].size \in Nat /\ fs[y].size \in Nat
        BY <1>4, <2>6
      <4> QED BY <2>7, <4>2, <4>4, <4>6, <4>7
    <3> QED BY <3>1, <3>2
  <2>11. Good(s)
    BY <2>5, <2>9, <2>10
  <2> QED BY <2>3, <2>11
<1> QED BY <1>5

\* The sum depends on the sizes of the files alone.
LEMMA SumsAgree ==
    ASSUME NEW fs, NEW S, Sizes(fs, S), NEW it, Rec(fs, S, it),
           NEW gs, NEW R, Sizes(gs, R), NEW jt, Rec(gs, R, jt)
    PROVE  \A s \in SUBSET S : s \subseteq R /\ (\A n \in s : gs[n].size = fs[n].size)
                                 => jt[s] = it[s]
<1> DEFINE Good(s) == s \subseteq R /\ (\A n \in s : gs[n].size = fs[n].size)
                        => jt[s] = it[s]
           Bad == {s \in SUBSET S : ~Good(s)}
           T == {Cardinality(s) : s \in Bad}
<1>1. \A s \in SUBSET S : Cardinality(s) \in Nat
  BY FS_Subset, FS_CardinalityType DEF Sizes
<1>2. \A s \in SUBSET S : /\ s = {} => it[s] = 0
                          /\ \A x \in s : it[s] = fs[x].size + it[s \ {x}]
  BY SumOf
<1>3. \A s \in SUBSET R : /\ s = {} => jt[s] = 0
                          /\ \A x \in s : jt[s] = gs[x].size + jt[s \ {x}]
  BY SumOf
<1>4. Bad = {}
  <2> SUFFICES ASSUME Bad # {} PROVE FALSE
    OBVIOUS
  <2>1. T \in SUBSET Nat /\ T # {}
    BY <1>1
  <2>2. PICK k \in T : \A j \in T : k <= j
    BY <2>1, LeastNat
  <2>3. PICK s \in Bad : k = Cardinality(s)
    BY <2>2
  <2>4. s \in SUBSET S /\ s \subseteq R /\ (\A n \in s : gs[n].size = fs[n].size)
    BY <2>3
  <2>5. it[s] # jt[s]
    BY <2>3
  <2>6. s # {}
    BY <1>2, <1>3, <2>3, <2>4
  <2>7. PICK x \in s : TRUE
    BY <2>6
  <2>8. s \ {x} \in SUBSET S /\ Cardinality(s \ {x}) < Cardinality(s)
    BY <2>4, Smaller DEF Sizes
  <2>9. Good(s \ {x})
    <3> SUFFICES ASSUME ~Good(s \ {x}) PROVE FALSE
      OBVIOUS
    <3>1. Cardinality(s \ {x}) \in T
      BY <2>8
    <3> QED BY <3>1, <2>2, <2>3, <2>4, <2>8, <1>1
  <2>10. jt[s \ {x}] = it[s \ {x}]
    BY <2>4, <2>9
  <2>11. it[s] = fs[x].size + it[s \ {x}]
    BY <1>2, <2>4, <2>7
  <2>12. jt[s] = gs[x].size + jt[s \ {x}]
    BY <1>3, <2>4, <2>7
  <2>13. gs[x].size = fs[x].size
    BY <2>4, <2>7
  <2> QED BY <2>5, <2>11, <2>12, <2>13, <2>10
<1> QED BY <1>4

\* Sum, by what it does.
LEMMA SumRec ==
    ASSUME NEW fs, NEW S, IsFiniteSet(S)
    PROVE  \E it : Rec(fs, S, it) /\ Sum(fs, S) = it[S]
BY SumDef, SumExists

LEMMA SumType ==
    ASSUME NEW fs, NEW S, Sizes(fs, S)
    PROVE  Sum(fs, S) \in Nat
BY SumRec, SumOf DEF Sizes

LEMMA SumSame ==
    ASSUME NEW fs, NEW gs, NEW S, Sizes(fs, S), \A n \in S : gs[n].size = fs[n].size
    PROVE  Sum(gs, S) = Sum(fs, S)
<1>1. Sizes(gs, S)
  BY DEF Sizes
<1>2. PICK it : Rec(fs, S, it) /\ Sum(fs, S) = it[S]
  BY SumRec DEF Sizes
<1>3. PICK jt : Rec(gs, S, jt) /\ Sum(gs, S) = jt[S]
  BY SumRec DEF Sizes
<1>4. jt[S] = it[S]
  BY <1>1, <1>2, <1>3, SumsAgree
<1> QED BY <1>2, <1>3, <1>4

LEMMA SumEmpty ==
    ASSUME NEW fs
    PROVE  Sum(fs, {}) = 0
<1>1. Sizes(fs, {})
  BY FS_EmptySet DEF Sizes
<1>2. PICK it : Rec(fs, {}, it) /\ Sum(fs, {}) = it[{}]
  BY <1>1, SumRec DEF Sizes
<1>3. {} \in SUBSET {}
  OBVIOUS
<1>4. it[{}] = 0
  BY <1>1, <1>2, <1>3, SumOf
<1> QED BY <1>2, <1>4

\* Without one of its files, the sum is less by its size.
LEMMA SumRemove ==
    ASSUME NEW fs, NEW S, Sizes(fs, S), NEW x \in S
    PROVE  Sum(fs, S) = fs[x].size + Sum(fs, S \ {x})
<1>1. Sizes(fs, S \ {x})
  BY FS_Subset DEF Sizes
<1>2. PICK it : Rec(fs, S, it) /\ Sum(fs, S) = it[S]
  BY SumRec DEF Sizes
<1>3. PICK jt : Rec(fs, S \ {x}, jt) /\ Sum(fs, S \ {x}) = jt[S \ {x}]
  BY <1>1, SumRec DEF Sizes
<1>4. it[S] = fs[x].size + it[S \ {x}]
  <2>1. \A s \in SUBSET S :
           /\ it[s] \in Nat
           /\ s = {} => it[s] = 0
           /\ \A y \in s : it[s] = fs[y].size + it[s \ {y}]
    BY <1>2, SumOf
  <2>2. S \in SUBSET S
    OBVIOUS
  <2> QED BY <2>1, <2>2
<1>5. jt[S \ {x}] = it[S \ {x}]
  BY <1>1, <1>2, <1>3, SumsAgree
<1> QED BY <1>2, <1>3, <1>4, <1>5

LEMMA SumAdd ==
    ASSUME NEW fs, NEW S, Sizes(fs, S), NEW x, x \notin S, fs[x].size \in Nat
    PROVE  Sum(fs, S \cup {x}) = fs[x].size + Sum(fs, S)
<1>1. Sizes(fs, S \cup {x})
  BY FS_AddElement DEF Sizes
<1>2. (S \cup {x}) \ {x} = S
  OBVIOUS
<1>3. Sum(fs, S \cup {x}) = fs[x].size + Sum(fs, (S \cup {x}) \ {x})
  BY <1>1, SumRemove
<1> QED BY <1>2, <1>3

\* Without some of its files, the sum is less by theirs.
LEMMA SumMinus ==
    ASSUME NEW fs, NEW S, Sizes(fs, S), NEW R \in SUBSET S
    PROVE  Sum(fs, S) = Sum(fs, R) + Sum(fs, S \ R)
<1> DEFINE Good(s) == Sum(fs, S) = Sum(fs, s) + Sum(fs, S \ s)
           Bad == {s \in SUBSET S : ~Good(s)}
           T == {Cardinality(s) : s \in Bad}
<1>1. \A s \in SUBSET S : Cardinality(s) \in Nat
  BY FS_Subset, FS_CardinalityType DEF Sizes
<1>2. ASSUME NEW s \in SUBSET S PROVE Sizes(fs, s) /\ Sum(fs, s) \in Nat
  BY FS_Subset, SumType DEF Sizes
<1>3. Bad = {}
  <2> SUFFICES ASSUME Bad # {} PROVE FALSE
    OBVIOUS
  <2>1. T \in SUBSET Nat /\ T # {}
    BY <1>1
  <2>2. PICK k \in T : \A j \in T : k <= j
    BY <2>1, LeastNat
  <2>3. PICK s \in Bad : k = Cardinality(s)
    BY <2>2
  <2>4. s # {}
    <3>1. ASSUME s = {} PROVE FALSE
      <4>1. S \ s = S /\ Sum(fs, s) = 0
        BY <3>1, SumEmpty
      <4> QED BY <4>1, <2>3, <1>2
    <3> QED BY <3>1
  <2>5. PICK x \in s : TRUE
    BY <2>4
  <2>6. s \in SUBSET S /\ S \ s \in SUBSET S /\ s \ {x} \in SUBSET S /\ x \notin S \ s
    BY <2>3
  <2>7. Cardinality(s \ {x}) < Cardinality(s)
    BY <2>6, Smaller DEF Sizes
  <2>8. Good(s \ {x})
    <3> SUFFICES ASSUME ~Good(s \ {x}) PROVE FALSE
      OBVIOUS
    <3>1. Cardinality(s \ {x}) \in T
      BY <2>6
    <3>2. Cardinality(s) <= Cardinality(s \ {x})
      BY <3>1, <2>2, <2>3
    <3>3. Cardinality(s) \in Nat /\ Cardinality(s \ {x}) \in Nat
      BY <1>1, <2>6
    <3> QED BY <3>2, <3>3, <2>7
  <2>9. S \ (s \ {x}) = (S \ s) \cup {x} /\ fs[x].size \in Nat
    BY <2>6 DEF Sizes
  <2>10. Sum(fs, S \ (s \ {x})) = fs[x].size + Sum(fs, S \ s)
    BY <2>6, <2>9, <1>2, SumAdd
  <2>11. Sum(fs, s) = fs[x].size + Sum(fs, s \ {x})
    BY <2>6, <1>2, SumRemove
  <2>12. Sum(fs, s \ {x}) \in Nat /\ Sum(fs, S \ s) \in Nat
    BY <2>6, <1>2
  <2>13. Good(s)
    BY <2>8, <2>9, <2>10, <2>11, <2>12
  <2> QED BY <2>3, <2>13
<1> QED BY <1>3


-----------------------------------------------------------------------------
(* The load *)

\* Handler h creates n at a.  The files of these CREATEs are not counted yet.
MadeAt(h, n, a) == Creates(h, n) /\ AddrOf(h) = a
Pending(a) == {n \in Names : \E h \in Handlers : MadeAt(h, n, a)}

\* The servers that LoadExact is about.
Exact(a) == reader[a] = "main" /\ a \notin disturbed

\* A CREATE under way is to the latest entry of its server and the only one of
\* its file there, and the file is recorded.
Coherent(a) ==
    \A h \in Handlers : \A n \in Names : MadeAt(h, n, a) =>
        /\ target[h] = EntryOf(a) /\ At(n, a)
        /\ \A k \in Handlers : MadeAt(k, n, a) => k = h

\* No DELETE under way is of a file that is being created.
NotPlanned(a) ==
    \A h, k \in Handlers : \A n \in Names : n \in plan[h] /\ At(n, a) => ~Creates(k, n)

Counted(a) ==
    /\ storage_servers[EntryOf(a)].total_files = Cardinality(Located(a) \ Pending(a))
    /\ storage_servers[EntryOf(a)].total_bytes = Sum(files, Located(a))

Right(a) == Coherent(a) /\ NotPlanned(a) /\ Counted(a)

Loads ==
    /\ IsFiniteSet(DOMAIN files)
    /\ \A i \in Entries :
          {"total_files", "total_bytes"} \subseteq DOMAIN storage_servers[i]

LInv == BInv /\ Loads /\ \A a \in Addresses : Exact(a) => Right(a)

\* Before and after a step.
Weighed == BInv /\ BInv' /\ AddrsKept /\ Loads

\* The entry of a connection that is served.
LEMMA EntryIn ==
    ASSUME IInv, NEW a \in Addresses, reader[a] # "none"
    PROVE  /\ EntryOf(a) \in Entries /\ storage_servers[EntryOf(a)].addr = a
           /\ \A i \in Entries : Live(a, i) => i = EntryOf(a)
<1>1. PICK i \in Entries : Live(a, i)
  BY DEF IInv, LiveIsLast
<1> QED BY <1>1, LiveIsEntryOf DEF Live

\* The latest entry stays so until the server registers.
LEMMA EntryOfKept ==
    ASSUME AddrsKept, NEW a \in Addresses,
           \A i \in Entries' \ Entries : storage_servers'[i].addr # a
    PROVE  EntryOf(a)' = EntryOf(a)
<1>1. {i \in Entries' : storage_servers'[i].addr = a}
        = {i \in Entries : storage_servers[i].addr = a}
  BY DEF AddrsKept
<1> QED BY <1>1 DEF EntryOf

\* The files of a server are finitely many and have sizes.
LEMMA LocatedSizes ==
    ASSUME Types, Loads, NEW a
    PROVE  Sizes(files, Located(a)) /\ Located(a) \subseteq Names
<1>1. IsFiniteSet(Located(a))
  BY FS_Subset DEF Loads, Located
<1>2. \A n \in Located(a) : files[n].size \in Nat /\ n \in Names
  BY PlacementAssumption DEF Located, Types, FilesTyped
<1> QED BY <1>1, <1>2 DEF Sizes

\* A CREATE under way is where it was begun.
LEMMA MadeAtSame ==
    ASSUME BInv, AddrsKept, NEW h \in Handlers, NEW n, NEW a,
           Creates(h, n)' <=> Creates(h, n), Creates(h, n) => target'[h] = target[h]
    PROVE  MadeAt(h, n, a)' <=> MadeAt(h, n, a)
<1>1. Creates(h, n) => target[h] \in Entries
  BY DEF Creates, BInv, Roles, Role
<1> QED BY <1>1 DEF MadeAt, AddrOf, AddrsKept

\* Without a lock there is no plan.
LEMMA NoPlans ==
    ASSUME BInv', state_lock' = NoHandler, NEW a
    PROVE  NotPlanned(a)'
<1>1. \A h \in Handlers : plan'[h] = {}
  BY PlacementAssumption DEF BInv, Roles, Role, Types, HandlersTyped
<1> QED BY <1>1 DEF NotPlanned

\* A step that concerns neither the files of a, their CREATEs nor the counters.
LEMMA RightSame ==
    ASSUME Weighed, NEW a \in Addresses, Right(a), NotPlanned(a)',
           Located(a)' = Located(a), \A n \in Located(a) : files'[n].size = files[n].size,
           EntryOf(a)' = EntryOf(a),
           storage_servers'[EntryOf(a)].total_files = storage_servers[EntryOf(a)].total_files,
           storage_servers'[EntryOf(a)].total_bytes = storage_servers[EntryOf(a)].total_bytes,
           \A h \in Handlers : \A n \in Names :
               /\ MadeAt(h, n, a)' <=> MadeAt(h, n, a)
               /\ MadeAt(h, n, a) => target'[h] = target[h]
    PROVE  Right(a)'
<1>1. Coherent(a)'
  <2>1. \A n : At(n, a)' <=> At(n, a)
    BY DEF At, Located
  <2> QED BY <2>1 DEF Coherent, Right
<1>2. Pending(a)' = Pending(a)
  BY DEF Pending
<1>3. Sum(files', Located(a)) = Sum(files, Located(a))
  BY LocatedSizes, SumSame DEF Weighed, BInv
<1>4. Sum(files, Located(a))' = Sum(files', Located(a)')
  OBVIOUS
<1>5. Counted(a)'
  BY <1>2, <1>3, <1>4 DEF Counted, Right
<1> QED BY <1>1, <1>5 DEF Right

\* A step that leaves the catalogue, the counters and the CREATEs alone.
LEMMA IdleLoads ==
    ASSUME Weighed, NEW a \in Addresses, Right(a), NotPlanned(a)',
           files' = files, Exact(a)',
           \A i \in Entries' \ Entries : storage_servers'[i].addr # a,
           \A i \in Entries :
               /\ storage_servers'[i].total_files = storage_servers[i].total_files
               /\ storage_servers'[i].total_bytes = storage_servers[i].total_bytes,
           reader[a] # "none",
           \A h \in Handlers : \A n \in Names :
               /\ Creates(h, n)' <=> Creates(h, n)
               /\ Creates(h, n) => target'[h] = target[h]
    PROVE  Right(a)'
<1>1. EntryOf(a)' = EntryOf(a)
  BY EntryOfKept DEF Weighed
<1>2. EntryOf(a) \in Entries
  BY EntryIn DEF Weighed, BInv
<1>3. ASSUME NEW h \in Handlers, NEW n \in Names
      PROVE  /\ MadeAt(h, n, a)' <=> MadeAt(h, n, a)
             /\ MadeAt(h, n, a) => target'[h] = target[h]
  <2>1. MadeAt(h, n, a)' <=> MadeAt(h, n, a)
    BY MadeAtSame DEF Weighed
  <2> QED BY <2>1 DEF MadeAt
<1>4. Located(a)' = Located(a) /\ \A n \in Located(a) : files'[n].size = files[n].size
  BY DEF Located
<1> QED BY <1>1, <1>2, <1>3, <1>4, RightSame

\* What a new load changes.
LEMMA SetLoadDoes ==
    ASSUME Loads, NEW i, NEW f, NEW b, SetLoad(i, f, b)
    PROVE  /\ DOMAIN storage_servers' = Entries
           /\ \A j \in Entries :
                 /\ {"total_files", "total_bytes"} \subseteq DOMAIN storage_servers'[j]
                 /\ j # i => storage_servers'[j] = storage_servers[j]
                 /\ j = i => /\ storage_servers'[j].total_files = f
                             /\ storage_servers'[j].total_bytes = b
<1>1. DOMAIN storage_servers' = Entries
  BY DEF SetLoad, Entries
<1>2. ASSUME NEW j \in Entries
      PROVE  /\ {"total_files", "total_bytes"} \subseteq DOMAIN storage_servers'[j]
             /\ j # i => storage_servers'[j] = storage_servers[j]
             /\ j = i => /\ storage_servers'[j].total_files = f
                         /\ storage_servers'[j].total_bytes = b
  <2> DEFINE s == storage_servers[j]
             t == [s EXCEPT !.total_files = f]
             u == [t EXCEPT !.total_bytes = b]
  <2>1. storage_servers'[j] = IF j = i THEN u ELSE s
    BY DEF SetLoad, Entries
  <2>2. "total_files" \in DOMAIN s /\ "total_bytes" \in DOMAIN s
    BY DEF Loads
  <2>3. DOMAIN t = DOMAIN s /\ t.total_files = f
    BY <2>2
  <2> HIDE DEF t
  <2>4. DOMAIN u = DOMAIN t /\ u.total_files = t.total_files /\ u.total_bytes = b
    BY <2>2, <2>3
  <2> HIDE DEF u
  <2> QED BY <2>1, <2>2, <2>3, <2>4
<1> QED BY <1>1, <1>2

\* A load that is not that of a.
LEMMA OtherLoad ==
    ASSUME Weighed, NEW a \in Addresses, reader[a] # "none",
           NEW i, NEW f, NEW b, SetLoad(i, f, b), i # EntryOf(a)
    PROVE  /\ EntryOf(a)' = EntryOf(a)
           /\ storage_servers'[EntryOf(a)] = storage_servers[EntryOf(a)]
<1>1. EntryOf(a) \in Entries
  BY EntryIn DEF Weighed, BInv
<1>2. DOMAIN storage_servers' = Entries /\ storage_servers'[EntryOf(a)] = storage_servers[EntryOf(a)]
  BY <1>1, SetLoadDoes DEF Weighed
<1>3. EntryOf(a)' = EntryOf(a)
  BY <1>2, EntryOfKept DEF Weighed, Entries
<1> QED BY <1>2, <1>3

LEMMA CreateBeginRight ==
    ASSUME Weighed, NEW h \in Handlers, NEW n \in Names, CreateBegin(h, n),
           NEW a \in Addresses, Exact(a), Right(a)
    PROVE  Right(a)'
<1>1. PICK i \in Balanced :
          /\ target' = [target EXCEPT ![h] = i]
          /\ files' = With(files, n, [ss |-> storage_servers[i].addr, size |-> 0])
  BY DEF CreateBegin
<1>2. /\ i \in Entries /\ storage_servers[i].is_alive
      /\ n \notin DOMAIN files /\ pc[h] = "idle" /\ state_lock' = NoHandler
      /\ pc' = [pc EXCEPT ![h] = "create"] /\ arg' = [arg EXCEPT ![h] = n]
      /\ storage_servers' = storage_servers
  BY <1>1 DEF CreateBegin, Balanced
<1> DEFINE b == storage_servers[i].addr
<1>3. /\ DOMAIN files' = DOMAIN files \cup {n}
      /\ files'[n].ss = b /\ files'[n].size = 0
      /\ \A m \in DOMAIN files : files'[m] = files[m]
  BY <1>1, <1>2 DEF With
<1>4. NotPlanned(a)'
  BY <1>2, NoPlans DEF Weighed
<1>5. pc'[h] = "create" /\ arg'[h] = n /\ target'[h] = i
  BY <1>1, <1>2 DEF Weighed, BInv, Types, HandlersTyped
<1>6. \A k \in Handlers \ {h} : pc'[k] = pc[k] /\ arg'[k] = arg[k] /\ target'[k] = target[k]
  BY <1>1, <1>2 DEF Weighed, BInv, Types, HandlersTyped
<1>7. EntryOf(a)' = EntryOf(a)
  BY <1>2 DEF EntryOf, Entries
<1>8. ASSUME NEW k \in Handlers \ {h}, NEW m PROVE MadeAt(k, m, a)' <=> MadeAt(k, m, a)
  BY <1>6, MadeAtSame DEF Weighed, Creates
<1>9. \A m : ~MadeAt(h, m, a) /\ (MadeAt(h, m, a)' <=> m = n /\ a = b)
  BY <1>2, <1>5 DEF MadeAt, Creates, AddrOf
<1>10. CASE a # b
  <2>1. Located(a)' = Located(a) /\ \A m \in Located(a) : files'[m].size = files[m].size
    BY <1>2, <1>3, <1>10 DEF Located
  <2>2. \A k \in Handlers : \A m \in Names : /\ MadeAt(k, m, a)' <=> MadeAt(k, m, a)
                                             /\ MadeAt(k, m, a) => target'[k] = target[k]
    BY <1>6, <1>8, <1>9, <1>10
  <2> QED BY <1>2, <1>4, <1>7, <2>1, <2>2, RightSame
<1>11. CASE a = b
  <2>1. EntryOf(a) = i
    BY <1>2, <1>11, EntryIn DEF Exact, Weighed, BInv, Live
  <2>2. \A m : At(m, a)' <=> m = n \/ At(m, a)
    BY <1>2, <1>3, <1>11 DEF At
  <2>3. \A k \in Handlers : ~MadeAt(k, n, a)
    BY <1>2 DEF Right, Coherent, At
  <2>4. Coherent(a)'
    <3> SUFFICES ASSUME NEW k \in Handlers, NEW m \in Names, MadeAt(k, m, a)'
                 PROVE  /\ target'[k] = EntryOf(a)' /\ At(m, a)'
                        /\ \A l \in Handlers : MadeAt(l, m, a)' => l = k
      BY DEF Coherent
    <3>1. CASE k = h
      <4>1. m = n
        BY <1>9, <3>1
      <4> QED BY <1>5, <1>7, <1>8, <2>1, <2>2, <2>3, <3>1, <4>1
    <3>2. CASE k # h
      <4>1. MadeAt(k, m, a)
        BY <1>8, <3>2
      <4>2. m # n /\ target[k] = EntryOf(a) /\ At(m, a)
            /\ \A l \in Handlers : MadeAt(l, m, a) => l = k
        BY <2>3, <4>1 DEF Right, Coherent
      <4> QED BY <1>6, <1>7, <1>8, <1>9, <2>2, <3>2, <4>2
    <3> QED BY <3>1, <3>2
  <2> DEFINE L == Located(a)
             Q == Pending(a)
  <2>5. Located(a)' = L \cup {n} /\ n \notin L
    BY <1>2, <1>3, <1>11 DEF Located
  <2>6. Pending(a)' = Q \cup {n}
    <3>1. \A m \in Names : (\E k \in Handlers : MadeAt(k, m, a)')
                             <=> m = n \/ \E k \in Handlers : MadeAt(k, m, a)
      BY <1>8, <1>9, <1>11
    <3> QED BY <3>1 DEF Pending
  <2>7. (L \cup {n}) \ (Q \cup {n}) = L \ Q
    BY <2>5
  <2>8. Sizes(files, L)
    BY LocatedSizes DEF Weighed, BInv
  <2>9. \A m \in L : files'[m].size = files[m].size
    BY <1>3 DEF Located
  <2>10. Sizes(files', L)
    BY <2>8, <2>9 DEF Sizes
  <2> HIDE DEF L, Q
  <2>11. Sum(files', L) = Sum(files, L)
    BY <2>8, <2>9, SumSame
  <2>12. Sum(files', L \cup {n}) = 0 + Sum(files', L)
    BY <1>3, <2>5, <2>10, SumAdd
  <2>13. Sum(files, L) \in Nat
    BY <2>8, SumType
  <2>14. Located(a)' = L \cup {n} /\ Located(a)' \ Pending(a)' = L \ Q
    BY <2>5, <2>6, <2>7
  <2>15. Sum(files, Located(a))' = Sum(files', Located(a)')
    OBVIOUS
  <2>16. Sum(files, Located(a))' = Sum(files, L)
    BY <2>11, <2>12, <2>13, <2>14, <2>15
  <2>17. Counted(a)'
    BY <1>2, <1>7, <2>14, <2>16 DEF Counted, Right, L, Q
  <2> QED BY <1>4, <2>4, <2>17 DEF Right
<1> QED BY <1>10, <1>11

\* A CREATE that succeeds is counted.
LEMMA CreateDoneRight ==
    ASSUME Weighed, NEW h \in Handlers, CreateEnd(h), result[h].do = "OK_CREATE",
           NEW a \in Addresses, Exact(a), Right(a)
    PROVE  Right(a)'
<1> DEFINE n == arg[h]
           i == target[h]
           t == storage_servers[target[h]]
<1>1. /\ pc[h] = "created" /\ state_lock' = NoHandler /\ files' = files
      /\ SetLoad(i, t.total_files + 1, t.total_bytes)
      /\ pc' = [pc EXCEPT ![h] = "idle"] /\ arg' = [arg EXCEPT ![h] = NoMsg]
      /\ target' = [target EXCEPT ![h] = 0]
  BY DEF CreateEnd, EndHandler
<1>2. i \in Entries /\ n \in Names
  BY <1>1 DEF Weighed, BInv, Roles, Role
<1>3. NotPlanned(a)'
  BY <1>1, NoPlans DEF Weighed
<1>4. pc'[h] = "idle"
  BY <1>1 DEF Weighed, BInv, Types, HandlersTyped
<1>5. \A k \in Handlers \ {h} : pc'[k] = pc[k] /\ arg'[k] = arg[k] /\ target'[k] = target[k]
  BY <1>1 DEF Weighed, BInv, Types, HandlersTyped
<1>6. ASSUME NEW k \in Handlers \ {h}, NEW m PROVE MadeAt(k, m, a)' <=> MadeAt(k, m, a)
  BY <1>5, MadeAtSame DEF Weighed, Creates
<1>7. \A m : ~MadeAt(h, m, a)' /\ (MadeAt(h, m, a) <=> m = n /\ a = t.addr)
  BY <1>1, <1>4 DEF MadeAt, Creates, AddrOf
<1>8. reader[a] # "none"
  BY DEF Exact
<1>9. EntryOf(a) \in Entries /\ storage_servers[EntryOf(a)].addr = a
  BY <1>8, EntryIn DEF Weighed, BInv
<1>10. Located(a)' = Located(a) /\ \A m \in Located(a) : files'[m].size = files[m].size
  BY <1>1 DEF Located
<1>11. CASE a # t.addr
  <2>1. i # EntryOf(a)
    BY <1>9, <1>11
  <2>2. /\ EntryOf(a)' = EntryOf(a)
        /\ storage_servers'[EntryOf(a)] = storage_servers[EntryOf(a)]
    BY <1>1, <1>8, <2>1, OtherLoad
  <2>3. \A k \in Handlers : \A m \in Names : /\ MadeAt(k, m, a)' <=> MadeAt(k, m, a)
                                             /\ MadeAt(k, m, a) => target'[k] = target[k]
    BY <1>5, <1>6, <1>7, <1>11
  <2> QED BY <1>3, <1>10, <2>2, <2>3, RightSame
<1>12. CASE a = t.addr
  <2>1. /\ i = EntryOf(a) /\ At(n, a)
        /\ \A k \in Handlers : MadeAt(k, n, a) => k = h
    BY <1>2, <1>7, <1>12 DEF Right, Coherent
  <2>2. DOMAIN storage_servers' = Entries
        /\ storage_servers'[i].total_files = t.total_files + 1
        /\ storage_servers'[i].total_bytes = t.total_bytes
    BY <1>1, <1>2, SetLoadDoes DEF Weighed
  <2>3. EntryOf(a)' = EntryOf(a)
    BY <2>2, EntryOfKept DEF Weighed, Entries
  <2>4. \A m : At(m, a)' <=> At(m, a)
    BY <1>1 DEF At
  <2>5. Coherent(a)'
    BY <1>5, <1>6, <1>7, <2>3, <2>4 DEF Right, Coherent
  <2> DEFINE L == Located(a)
             Q == Pending(a)
  <2>6. n \in L /\ n \in Q
    BY <1>2, <1>7, <1>12, <2>1 DEF Located, At, Pending
  <2>7. Pending(a)' = Q \ {n}
    <3>1. \A m \in Names : (\E k \in Handlers : MadeAt(k, m, a)')
                             <=> m # n /\ \E k \in Handlers : MadeAt(k, m, a)
      BY <1>6, <1>7, <2>1
    <3> QED BY <3>1 DEF Pending
  <2>8. L \ (Q \ {n}) = (L \ Q) \cup {n} /\ n \notin L \ Q
    BY <2>6
  <2>9. IsFiniteSet(L \ Q)
    BY LocatedSizes, FS_Subset DEF Sizes, Weighed, BInv
  <2> HIDE DEF L, Q
  <2>10. Cardinality(L \ (Q \ {n})) = Cardinality(L \ Q) + 1
    BY <2>8, <2>9, FS_AddElement
  <2>11. Counted(a)'
    BY <1>1, <1>10, <2>1, <2>2, <2>3, <2>7, <2>10 DEF Counted, Right, L, Q
  <2> QED BY <1>3, <2>5, <2>11 DEF Right
<1> QED BY <1>11, <1>12

\* A CREATE that fails takes the entry of its file back, and the file is neither
\* counted nor pending any more.
LEMMA CreateFailsRight ==
    ASSUME Weighed, NEW h \in Handlers, CreateEnd(h), result[h].do # "OK_CREATE",
           NEW a \in Addresses, Exact(a), Exact(a)', Right(a)
    PROVE  Right(a)'
<1> DEFINE n == arg[h]
           t == storage_servers[target[h]]
<1>1. /\ pc[h] = "created" /\ state_lock' = NoHandler
      /\ storage_servers' = storage_servers
      /\ files' = Without(files, {n})
      /\ disturbed' = IF n \in DOMAIN files
                            /\ (files[n].ss # t.addr \/ files[n].size > 0)
                      THEN disturbed \cup {files[n].ss} ELSE disturbed
      /\ pc' = [pc EXCEPT ![h] = "idle"] /\ arg' = [arg EXCEPT ![h] = NoMsg]
      /\ target' = [target EXCEPT ![h] = 0]
  BY DEF CreateEnd, EndHandler
<1>2. n \in Names
  BY <1>1 DEF Weighed, BInv, Roles, Role
<1>3. NotPlanned(a)'
  BY <1>1, NoPlans DEF Weighed
<1>4. pc'[h] = "idle"
  BY <1>1 DEF Weighed, BInv, Types, HandlersTyped
<1>5. \A k \in Handlers \ {h} : pc'[k] = pc[k] /\ arg'[k] = arg[k] /\ target'[k] = target[k]
  BY <1>1 DEF Weighed, BInv, Types, HandlersTyped
<1>6. ASSUME NEW k \in Handlers \ {h}, NEW m PROVE MadeAt(k, m, a)' <=> MadeAt(k, m, a)
  BY <1>5, MadeAtSame DEF Weighed, Creates
<1>7. \A m : ~MadeAt(h, m, a)' /\ (MadeAt(h, m, a) <=> m = n /\ a = t.addr)
  BY <1>1, <1>4 DEF MadeAt, Creates, AddrOf
<1>8. EntryOf(a)' = EntryOf(a)
  BY <1>1 DEF EntryOf, Entries
<1>9. /\ DOMAIN files' = DOMAIN files \ {n}
      /\ \A m \in DOMAIN files \ {n} : files'[m] = files[m]
  BY <1>1 DEF Without
<1>10. CASE a # t.addr
  <2>1. ~At(n, a)
    BY <1>1, <1>10 DEF Exact, At
  <2>2. Located(a)' = Located(a) /\ \A m \in Located(a) : files'[m].size = files[m].size
    BY <1>9, <2>1 DEF Located, At
  <2>3. \A k \in Handlers : \A m \in Names : /\ MadeAt(k, m, a)' <=> MadeAt(k, m, a)
                                             /\ MadeAt(k, m, a) => target'[k] = target[k]
    BY <1>5, <1>6, <1>7, <1>10
  <2> QED BY <1>1, <1>3, <1>8, <2>2, <2>3, RightSame
<1>11. CASE a = t.addr
  <2>1. At(n, a) /\ \A k \in Handlers : MadeAt(k, n, a) => k = h
    BY <1>2, <1>7, <1>11 DEF Right, Coherent
  <2>2. files[n].size = 0
    BY <1>1, <2>1, PlacementAssumption
       DEF Exact, At, Weighed, BInv, Types, FilesTyped
  <2>3. \A m : At(m, a)' <=> m # n /\ At(m, a)
    BY <1>9 DEF At
  <2>4. Coherent(a)'
    BY <1>5, <1>6, <1>7, <1>8, <2>1, <2>3 DEF Right, Coherent
  <2> DEFINE L == Located(a)
             Q == Pending(a)
  <2>5. n \in L /\ n \in Q
    BY <1>2, <1>7, <1>11, <2>1 DEF Located, At, Pending
  <2>6. Pending(a)' = Q \ {n}
    <3>1. \A m \in Names : (\E k \in Handlers : MadeAt(k, m, a)')
                             <=> m # n /\ \E k \in Handlers : MadeAt(k, m, a)
      BY <1>6, <1>7, <2>1
    <3> QED BY <3>1 DEF Pending
  <2>7. Located(a)' = L \ {n}
    BY <1>9 DEF Located
  <2>8. Located(a)' \ Pending(a)' = L \ Q
    BY <2>5, <2>6, <2>7
  <2>9. Sizes(files, L) /\ Sizes(files, L \ {n})
    BY LocatedSizes, FS_Subset DEF Sizes, Weighed, BInv
  <2>10. \A m \in L \ {n} : files'[m].size = files[m].size
    BY <1>9 DEF Located
  <2> HIDE DEF L, Q
  <2>11. Sum(files', L \ {n}) = Sum(files, L \ {n})
    BY <2>9, <2>10, SumSame
  <2>12. Sum(files, L) = 0 + Sum(files, L \ {n})
    BY <2>2, <2>5, <2>9, SumRemove
  <2>13. Sum(files, L \ {n}) \in Nat
    BY <2>9, SumType
  <2>14. Sum(files, Located(a))' = Sum(files', Located(a)')
    OBVIOUS
  <2>15. Sum(files, Located(a))' = Sum(files, L)
    BY <2>7, <2>11, <2>12, <2>13, <2>14
  <2>16. Counted(a)'
    BY <1>1, <1>8, <2>8, <2>15 DEF Counted, Right, L, Q
  <2> QED BY <1>3, <2>4, <2>16 DEF Right
<1> QED BY <1>10, <1>11

\* A DELETE takes the files it deletes from the counters of their servers.
LEMMA DeleteEndDoes ==
    ASSUME Weighed, NEW h \in Handlers, DeleteEnd(h)
    PROVE  /\ DOMAIN storage_servers' = Entries
           /\ \A i \in Entries :
                 LET s == storage_servers[i]
                     gone == {n \in plan[h] : files[n].ss = s.addr}
                 IN  /\ {"total_files", "total_bytes"} \subseteq DOMAIN storage_servers'[i]
                     /\ i = EntryOf(s.addr) =>
                           /\ storage_servers'[i].total_files
                                = Minus(s.total_files, Cardinality(gone))
                           /\ storage_servers'[i].total_bytes
                                = Minus(s.total_bytes, Sum(files, gone))
<1> DEFINE gone(a) == {n \in plan[h] : files[n].ss = a}
           x(i) == Minus(storage_servers[i].total_files,
                         Cardinality(gone(storage_servers[i].addr)))
           y(i) == Minus(storage_servers[i].total_bytes,
                         Sum(files, gone(storage_servers[i].addr)))
           lighter(i) ==
               IF i = EntryOf(storage_servers[i].addr)
               THEN [storage_servers[i] EXCEPT !.total_files = x(i), !.total_bytes = y(i)]
               ELSE storage_servers[i]
<1>1. storage_servers' = [i \in Entries |-> lighter(i)]
  BY DEF DeleteEnd, Sum
<1> HIDE DEF x, y
<1>2. ASSUME NEW j \in Entries
      PROVE  /\ {"total_files", "total_bytes"} \subseteq DOMAIN lighter(j)
             /\ j = EntryOf(storage_servers[j].addr) =>
                   lighter(j).total_files = x(j) /\ lighter(j).total_bytes = y(j)
  <2> DEFINE s == storage_servers[j]
             t == [s EXCEPT !.total_files = x(j)]
             u == [t EXCEPT !.total_bytes = y(j)]
  <2>1. lighter(j) = IF j = EntryOf(s.addr) THEN u ELSE s
    OBVIOUS
  <2>2. "total_files" \in DOMAIN s /\ "total_bytes" \in DOMAIN s
    BY DEF Weighed, Loads
  <2>3. DOMAIN t = DOMAIN s /\ t.total_files = x(j)
    BY <2>2
  <2> HIDE DEF t
  <2>4. DOMAIN u = DOMAIN t /\ u.total_files = t.total_files /\ u.total_bytes = y(j)
    BY <2>2, <2>3
  <2> HIDE DEF u, lighter
  <2> QED BY <2>1, <2>2, <2>3, <2>4
<1> HIDE DEF lighter
<1>3. DOMAIN storage_servers' = Entries /\ \A i \in Entries : storage_servers'[i] = lighter(i)
  BY <1>1
<1> QED BY <1>2, <1>3 DEF x, y

LEMMA DeleteEndRight ==
    ASSUME Weighed, NEW h \in Handlers, DeleteEnd(h),
           NEW a \in Addresses, Exact(a), Right(a)
    PROVE  Right(a)'
<1> DEFINE i == EntryOf(a)
           gone == {n \in plan[h] : files[n].ss = a}
           L == Located(a)
           Q == Pending(a)
<1>1. /\ pc[h] = "remove" /\ state_lock' = NoHandler
      /\ files' = Without(files, plan[h])
      /\ pc' = [pc EXCEPT ![h] = "idle"] /\ arg' = [arg EXCEPT ![h] = NoMsg]
      /\ target' = [target EXCEPT ![h] = 0]
  BY DEF DeleteEnd, EndHandler
<1>2. i \in Entries /\ storage_servers[i].addr = a
  BY EntryIn DEF Exact, Weighed, BInv
<1>3. /\ DOMAIN storage_servers' = Entries
      /\ storage_servers'[i].total_files = Minus(storage_servers[i].total_files, Cardinality(gone))
      /\ storage_servers'[i].total_bytes = Minus(storage_servers[i].total_bytes, Sum(files, gone))
  BY <1>2, DeleteEndDoes
<1>4. EntryOf(a)' = i
  BY <1>3, EntryOfKept DEF Weighed, Entries
<1>5. NotPlanned(a)'
  BY <1>1, NoPlans DEF Weighed
<1>6. pc'[h] = "idle"
  BY <1>1 DEF Weighed, BInv, Types, HandlersTyped
<1>7. \A k \in Handlers \ {h} : pc'[k] = pc[k] /\ arg'[k] = arg[k] /\ target'[k] = target[k]
  BY <1>1 DEF Weighed, BInv, Types, HandlersTyped
<1>8. ASSUME NEW k \in Handlers, NEW m
      PROVE  /\ MadeAt(k, m, a)' <=> MadeAt(k, m, a)
             /\ MadeAt(k, m, a) => target'[k] = target[k]
  <2>1. Creates(k, m)' <=> Creates(k, m)
    BY <1>1, <1>6, <1>7 DEF Creates
  <2>2. Creates(k, m) => target'[k] = target[k]
    BY <1>1, <1>7 DEF Creates
  <2> QED BY <2>1, <2>2, MadeAtSame DEF Weighed, MadeAt
<1>9. /\ DOMAIN files' = DOMAIN files \ plan[h]
      /\ \A m \in DOMAIN files \ plan[h] : files'[m] = files[m]
  BY <1>1 DEF Without
<1>10. plan[h] \subseteq DOMAIN files /\ plan[h] \subseteq Names
  BY DEF Weighed, BInv, Roles, Role, Types, HandlersTyped
<1>11. gone \subseteq L /\ Located(a)' = L \ gone
  BY <1>9, <1>10 DEF Located
<1>12. Pending(a)' = Q
  BY <1>8 DEF Pending
<1>13. gone \cap Q = {}
  BY <1>10 DEF Right, NotPlanned, Pending, MadeAt, At
<1>14. Coherent(a)'
  <2>1. \A m : At(m, a)' <=> At(m, a) /\ m \notin plan[h]
    BY <1>9 DEF At
  <2>2. \A k \in Handlers : \A m \in Names : MadeAt(k, m, a) => m \notin plan[h]
    BY DEF Right, Coherent, NotPlanned, MadeAt
  <2> QED BY <1>4, <1>8, <2>1, <2>2 DEF Right, Coherent
<1>15. Sizes(files, L) /\ \A m \in L \ gone : files'[m].size = files[m].size
  BY <1>9, LocatedSizes DEF Located, Weighed, BInv
<1> HIDE DEF gone, L, Q
<1>16. Located(a)' \ Pending(a)' = (L \ Q) \ gone /\ gone \subseteq L \ Q
  BY <1>11, <1>12, <1>13
<1>17. IsFiniteSet(L \ Q) /\ IsFiniteSet(gone)
  BY <1>11, <1>15, FS_Subset DEF Sizes
<1>18. /\ Cardinality((L \ Q) \ gone) = Cardinality(L \ Q) - Cardinality(gone)
       /\ Cardinality(L \ Q) \in Nat /\ Cardinality(gone) \in Nat
       /\ Cardinality((L \ Q) \ gone) \in Nat
  <2>1. (L \ Q) \cap gone = gone
    BY <1>16
  <2>2. /\ IsFiniteSet((L \ Q) \ gone)
        /\ Cardinality((L \ Q) \ gone) = Cardinality(L \ Q) - Cardinality(gone)
    BY <2>1, <1>17, FS_Difference, ZenonT(60)
  <2> QED BY <2>2, <1>17, FS_CardinalityType
<1>19. Sizes(files, gone) /\ Sizes(files, L \ gone)
  BY <1>11, <1>15, FS_Subset DEF Sizes
<1>20. /\ Sum(files, L) = Sum(files, gone) + Sum(files, L \ gone)
       /\ Sum(files, gone) \in Nat /\ Sum(files, L \ gone) \in Nat
  BY <1>11, <1>15, <1>19, SumMinus, SumType
<1>21. Sum(files', L \ gone) = Sum(files, L \ gone)
  BY <1>15, <1>19, SumSame
<1>22. Sum(files, Located(a))' = Sum(files', Located(a)')
  OBVIOUS
<1>23. /\ storage_servers[i].total_files = Cardinality(L \ Q)
       /\ storage_servers[i].total_bytes = Sum(files, L)
  BY DEF Right, Counted, L, Q
<1>24. Minus(Cardinality(L \ Q), Cardinality(gone)) = Cardinality((L \ Q) \ gone)
  BY <1>18 DEF Minus
<1>25. Minus(Sum(files, L), Sum(files, gone)) = Sum(files, L \ gone)
  BY <1>20 DEF Minus
<1>26. Sum(files, Located(a))' = Sum(files, L \ gone)
  BY <1>11, <1>21, <1>22
<1> HIDE DEF i
<1>27. Counted(a)'
  BY <1>3, <1>4, <1>16, <1>23, <1>24, <1>25, <1>26 DEF Counted
<1> QED BY <1>5, <1>14, <1>27 DEF Right

\* The CREATEs under way are those before.
LEMMA HandlersSame ==
    ASSUME Weighed, UNCHANGED <<pc, arg, target>>, NEW a
    PROVE  \A h \in Handlers : \A n \in Names :
               /\ MadeAt(h, n, a)' <=> MadeAt(h, n, a)
               /\ MadeAt(h, n, a) => target'[h] = target[h]
<1> SUFFICES ASSUME NEW h \in Handlers, NEW n \in Names
             PROVE  MadeAt(h, n, a)' <=> MadeAt(h, n, a)
  BY DEF Weighed
<1>1. Creates(h, n)' <=> Creates(h, n)
  BY DEF Creates
<1> QED BY <1>1, MadeAtSame DEF Weighed

\* The load of a server is computed from its entries.
LEMMA FilesDoneRight ==
    ASSUME Weighed, NEW a \in Addresses, FilesDone(a),
           NEW b \in Addresses, Exact(b)', b # a => Exact(b) /\ Right(b)
    PROVE  Right(b)'
<1>1. /\ SetLoad(EntryOf(a), Cardinality(Located(a)), Bytes(a))
      /\ UNCHANGED <<pc, arg, target>> /\ files' = files /\ state_lock' = NoHandler
      /\ reader[a] = "sync" /\ reader' = [reader EXCEPT ![a] = "main"]
      /\ disturbed' = IF Creating(a) THEN disturbed \cup {a} ELSE disturbed
  BY DEF FilesDone, handler
<1>2. EntryOf(a) \in Entries /\ storage_servers[EntryOf(a)].addr = a
  BY <1>1, EntryIn DEF Weighed, BInv
<1>3. NotPlanned(b)'
  BY <1>1, NoPlans DEF Weighed
<1>4. \A h \in Handlers : \A n \in Names : /\ MadeAt(h, n, b)' <=> MadeAt(h, n, b)
                                           /\ MadeAt(h, n, b) => target'[h] = target[h]
  BY <1>1, HandlersSame
<1>5. Located(b)' = Located(b) /\ \A n \in Located(b) : files'[n].size = files[n].size
  BY <1>1 DEF Located
<1>6. CASE b # a
  <2>1. EntryOf(b) # EntryOf(a) /\ reader[b] # "none"
    BY <1>2, <1>6, EntryIn DEF Exact, Weighed, BInv
  <2>2. /\ EntryOf(b)' = EntryOf(b)
        /\ storage_servers'[EntryOf(b)] = storage_servers[EntryOf(b)]
    BY <1>1, <2>1, OtherLoad
  <2> QED BY <1>3, <1>4, <1>5, <1>6, <2>2, RightSame
<1>7. CASE b = a
  <2>1. ~Creating(a)
    BY <1>1, <1>7 DEF Exact
  <2>2. \A h \in Handlers : \A n \in Names : ~MadeAt(h, n, a)
    BY <2>1 DEF Creating, MadeAt, Creates, AddrOf
  <2>3. Coherent(a)' /\ Pending(a)' = {}
    BY <1>4, <1>7, <2>2 DEF Coherent, Pending
  <2>4. /\ DOMAIN storage_servers' = Entries
        /\ storage_servers'[EntryOf(a)].total_files = Cardinality(Located(a))
        /\ storage_servers'[EntryOf(a)].total_bytes = Bytes(a)
    BY <1>1, <1>2, SetLoadDoes DEF Weighed
  <2>5. EntryOf(a)' = EntryOf(a)
    BY <2>4, EntryOfKept DEF Weighed, Entries
  <2>6. Bytes(a) = Sum(files, Located(a))
    BY DEF Bytes, Sum
  <2>7. Sum(files, Located(a))' = Sum(files', Located(a)')
    OBVIOUS
  <2>8. Located(a)' \ Pending(a)' = Located(a)
    BY <1>5, <1>7, <2>3
  <2>9. Counted(a)'
    BY <1>1, <1>5, <1>7, <2>4, <2>5, <2>6, <2>7, <2>8 DEF Counted
  <2> QED BY <1>3, <1>7, <2>3, <2>9 DEF Right
<1> QED BY <1>6, <1>7

\* A size that is new is taken into the load.
LEMMA WriteCompleteRight ==
    ASSUME Weighed, NEW a \in Addresses, WriteComplete(a),
           NEW b \in Addresses, Exact(b), Exact(b)', Right(b)
    PROVE  Right(b)'
<1> DEFINE m == Head(toNS[a])
           n == m.name
           i == EntryOf(a)
           s == storage_servers[i]
<1>1. /\ Unread(a) /\ m.do = "WRITE_COMPLETE" /\ reader[a] = "main"
      /\ UNCHANGED <<pc, arg, target>> /\ state_lock' = NoHandler
  BY DEF WriteComplete, handler
<1>2. m \in Messages
  BY <1>1, ReadTyped DEF Weighed, BInv, Types
<1>3. n \in Names /\ m.size \in Nat
  BY <1>1, <1>2, PlacementAssumption DEF Messages
<1>4. i \in Entries /\ s.addr = a
  BY <1>1, EntryIn DEF Weighed, BInv
<1>5. NotPlanned(b)'
  BY <1>1, NoPlans DEF Weighed
<1>6. \A h \in Handlers : \A k \in Names : /\ MadeAt(h, k, b)' <=> MadeAt(h, k, b)
                                           /\ MadeAt(h, k, b) => target'[h] = target[h]
  BY <1>1, HandlersSame
<1>7. CASE n \notin DOMAIN files
  <2>1. UNCHANGED <<files, storage_servers>>
    BY <1>7 DEF WriteComplete
  <2>2. EntryOf(b)' = EntryOf(b)
    BY <2>1 DEF EntryOf, Entries
  <2>3. Located(b)' = Located(b) /\ \A k \in Located(b) : files'[k].size = files[k].size
    BY <2>1 DEF Located
  <2> QED BY <1>5, <1>6, <2>1, <2>2, <2>3, RightSame
<1>8. CASE n \in DOMAIN files
  <2> DEFINE old == files[n].size
             total == s.total_bytes + m.size
  <2>1. /\ files' = [files EXCEPT ![n].size = m.size]
        /\ IF files[n].ss = a
           THEN SetLoad(i, s.total_files, IF total < old THEN 0 ELSE total - old)
           ELSE UNCHANGED storage_servers
        /\ disturbed' = IF files[n].ss = a THEN disturbed ELSE disturbed \cup {files[n].ss}
    BY <1>8 DEF WriteComplete, write_complete
  <2>2. files[n] \in [ss : Addresses, size : 0..MaxSize]
    BY <1>8 DEF Weighed, BInv, Types, FilesTyped
  <2>3. /\ DOMAIN files' = DOMAIN files
        /\ files'[n].ss = files[n].ss /\ files'[n].size = m.size
        /\ \A k \in DOMAIN files \ {n} : files'[k] = files[k]
    BY <1>8, <2>1, <2>2
  <2>4. Located(b)' = Located(b)
    BY <1>8, <2>3 DEF Located
  <2>5. CASE files[n].ss # b
    <3>1. \A k \in Located(b) : files'[k].size = files[k].size
      BY <2>3, <2>5 DEF Located
    <3>2. EntryOf(b)' = EntryOf(b)
          /\ storage_servers'[EntryOf(b)] = storage_servers[EntryOf(b)]
      <4>1. CASE files[n].ss = a
        <5>1. EntryOf(b) # i /\ reader[b] # "none"
          BY <1>4, <2>5, <4>1, EntryIn DEF Exact, Weighed, BInv
        <5> QED BY <2>1, <4>1, <5>1, OtherLoad
      <4>2. CASE files[n].ss # a
        BY <2>1, <4>2 DEF EntryOf, Entries
      <4> QED BY <4>1, <4>2
    <3> QED BY <1>5, <1>6, <2>4, <3>1, <3>2, RightSame
  <2>6. CASE files[n].ss = b
    <3>1. b = a
      BY <2>1, <2>6 DEF Exact
    <3> DEFINE L == Located(a)
    <3>2. n \in L /\ old \in Nat
      BY <1>8, <2>2, <2>6, <3>1, PlacementAssumption DEF Located
    <3>3. Sizes(files, L) /\ Sizes(files, L \ {n}) /\ Sizes(files', L)
      <4>1. Sizes(files, L) /\ IsFiniteSet(L \ {n})
        BY LocatedSizes, FS_Subset DEF Sizes, Weighed, BInv
      <4>2. \A k \in L : files'[k].size \in Nat
        BY <1>3, <2>3, <4>1 DEF Sizes, Located
      <4> QED BY <4>1, <4>2 DEF Sizes
    <3>4. \A k \in L \ {n} : files'[k].size = files[k].size
      BY <2>3 DEF Located
    <3>5. s.total_bytes = Sum(files, L)
      BY <3>1 DEF Right, Counted
    <3> HIDE DEF L
    <3>6. Sum(files, L) = old + Sum(files, L \ {n}) /\ Sum(files, L \ {n}) \in Nat
      BY <3>2, <3>3, SumRemove, SumType
    <3>7. Sum(files', L) = m.size + Sum(files', L \ {n})
      BY <2>3, <3>2, <3>3, SumRemove
    <3>8. Sum(files', L \ {n}) = Sum(files, L \ {n})
      BY <3>3, <3>4, SumSame
    <3>9. (IF total < old THEN 0 ELSE total - old) = Sum(files', L)
      BY <1>3, <3>2, <3>5, <3>6, <3>7, <3>8
    <3>10. SetLoad(i, s.total_files, Sum(files', L))
      BY <2>1, <2>6, <3>1, <3>9
    <3>11. /\ DOMAIN storage_servers' = Entries
           /\ storage_servers'[i].total_files = s.total_files
           /\ storage_servers'[i].total_bytes = Sum(files', L)
      BY <1>4, <3>10, SetLoadDoes DEF Weighed
    <3>12. EntryOf(a)' = i
      BY <3>11, EntryOfKept DEF Weighed, Entries
    <3>13. Sum(files, Located(a))' = Sum(files', Located(a)')
      OBVIOUS
    <3>14. Pending(a)' = Pending(a)
      BY <1>6, <3>1 DEF Pending
    <3>15. Counted(a)'
      BY <2>4, <3>1, <3>11, <3>12, <3>13, <3>14 DEF Right, Counted, L
    <3>16. \A k : At(k, a)' <=> At(k, a)
      BY <2>4, <3>1 DEF At, Located
    <3>17. Coherent(a)'
      BY <1>6, <3>1, <3>12, <3>16 DEF Right, Coherent
    <3> QED BY <1>5, <3>1, <3>15, <3>17 DEF Right
  <2> QED BY <2>5, <2>6
<1> QED BY <1>7, <1>8

\* A file reported adds to no server that is known to be exact.
LEMMA HasFileRight ==
    ASSUME Weighed, NEW a \in Addresses, HasFile(a),
           NEW b \in Addresses, Exact(b), Exact(b)', Right(b)
    PROVE  Right(b)'
<1> DEFINE m == Head(toNS[a])
           n == m.name
<1>1. /\ reader[a] = "sync" /\ UNCHANGED <<pc, arg, target>> /\ state_lock' = NoHandler
      /\ files' = With(files, n, [ss |-> a, size |-> m.size])
      /\ storage_servers' = storage_servers
      /\ disturbed' = IF n \in DOMAIN files /\ files[n].ss # a
                      THEN disturbed \cup {files[n].ss} ELSE disturbed
  BY DEF HasFile, handler, reported
<1>2. b # a
  BY <1>1 DEF Exact
<1>3. NotPlanned(b)'
  BY <1>1, NoPlans DEF Weighed
<1>4. \A h \in Handlers : \A k \in Names : /\ MadeAt(h, k, b)' <=> MadeAt(h, k, b)
                                           /\ MadeAt(h, k, b) => target'[h] = target[h]
  BY <1>1, HandlersSame
<1>5. /\ DOMAIN files' = DOMAIN files \cup {n} /\ files'[n].ss = a
      /\ \A k \in DOMAIN files \ {n} : files'[k] = files[k]
  BY <1>1 DEF With
<1>6. n \notin Located(b)
  BY <1>1, <1>2 DEF Exact, Located
<1>7. Located(b)' = Located(b) /\ \A k \in Located(b) : files'[k].size = files[k].size
  BY <1>2, <1>5, <1>6 DEF Located
<1>8. EntryOf(b)' = EntryOf(b)
  BY <1>1 DEF EntryOf, Entries
<1> QED BY <1>1, <1>3, <1>4, <1>7, <1>8, RightSame

\* A DELETE comes to plan no file that is being created at a server that stays
\* exact.
LEMMA DeleteBeginRight ==
    ASSUME Weighed, NEW h \in Handlers, NEW S \in Folders, DeleteBegin(h, S),
           NEW a \in Addresses, Exact(a), Exact(a)', Right(a)
    PROVE  Right(a)'
<1> DEFINE early == {n \in S : \E k \in Handlers :
                                  pc[k] \in {"create", "created"} /\ arg[k] = n}
<1>1. /\ pc[h] = "idle" /\ state_lock = NoHandler /\ S \subseteq DOMAIN files
      /\ files' = files /\ storage_servers' = storage_servers
      /\ pc' = [pc EXCEPT ![h] = "delete"] /\ plan' = [plan EXCEPT ![h] = S]
      /\ disturbed' = disturbed \cup {files[n].ss : n \in early}
  BY DEF DeleteBegin
<1>2. (\E n \in S : arg' = [arg EXCEPT ![h] = n])
      /\ (\E i : target' = [target EXCEPT ![h] = i])
  BY DEF DeleteBegin
<1>3. pc'[h] = "delete"
  BY <1>1 DEF Weighed, BInv, Types, HandlersTyped
<1>4. \A k \in Handlers \ {h} : /\ pc'[k] = pc[k] /\ arg'[k] = arg[k]
                                /\ target'[k] = target[k] /\ plan'[k] = plan[k]
  BY <1>1, <1>2 DEF Weighed, BInv, Types, HandlersTyped
<1>5. \A k \in Handlers : \A n \in Names : /\ Creates(k, n)' <=> Creates(k, n)
                                           /\ Creates(k, n) => target'[k] = target[k]
  BY <1>1, <1>3, <1>4 DEF Creates
<1>6. \A k \in Handlers : plan[k] = {}
  BY <1>1, PlacementAssumption DEF Weighed, BInv, Roles, Role, Types, HandlersTyped
<1>7. NotPlanned(a)'
  <2> SUFFICES ASSUME NEW g \in Handlers, NEW k \in Handlers, NEW n \in Names,
                      n \in plan'[g], At(n, a)', Creates(k, n)'
               PROVE  FALSE
    BY DEF NotPlanned
  <2>1. n \in S
    BY <1>1, <1>4, <1>6 DEF Weighed, BInv, Types, HandlersTyped
  <2>2. Creates(k, n)
    BY <1>5
  <2>3. n \in early /\ files[n].ss = a
    BY <1>1, <2>1, <2>2 DEF At, Creates
  <2> QED BY <1>1, <2>3 DEF Exact
<1>8. Entries' = Entries /\ reader[a] # "none"
  BY <1>1 DEF Entries, Exact
<1> QED BY <1>1, <1>5, <1>7, <1>8, IdleLoads

\* The other steps of a handler.
LEMMA OtherHandlerRight ==
    ASSUME Weighed, NEW h \in Handlers, Send(h) \/ DeleteNext(h) \/ DeleteFails(h),
           NEW a \in Addresses, Exact(a), Exact(a)', Right(a)
    PROVE  Right(a)'
<1>1. files' = files /\ storage_servers' = storage_servers
  BY DEF Send, DeleteNext, DeleteFails
<1>2. \A k \in Handlers \ {h} : /\ pc'[k] = pc[k] /\ arg'[k] = arg[k]
                                /\ target'[k] = target[k] /\ plan'[k] = plan[k]
  BY SMTT(30) DEF Send, DeleteNext, DeleteFails, EndHandler, Weighed, BInv, Types, HandlersTyped
<1>3. plan'[h] \subseteq plan[h]
  BY DEF Send, DeleteNext, DeleteFails, EndHandler, Weighed, BInv, Types, HandlersTyped
<1>4. /\ pc'[h] \in {"create", "created"} <=> pc[h] \in {"create", "created"}
      /\ pc[h] \in {"create", "created"} => arg'[h] = arg[h] /\ target'[h] = target[h]
  <2>1. CASE Send(h)
    BY <2>1 DEF Send, Weighed, BInv, Types, HandlersTyped
  <2>2. CASE DeleteNext(h)
    <3>1. pc[h] = "deleted" /\ pc' \in {[pc EXCEPT ![h] = "remove"], [pc EXCEPT ![h] = "delete"]}
      BY <2>2 DEF DeleteNext
    <3> QED BY <3>1 DEF Weighed, BInv, Types, HandlersTyped
  <2>3. CASE DeleteFails(h)
    BY <2>3 DEF DeleteFails, EndHandler, Weighed, BInv, Types, HandlersTyped
  <2> QED BY <2>1, <2>2, <2>3
<1>5. \A k \in Handlers : \A n \in Names : /\ Creates(k, n)' <=> Creates(k, n)
                                           /\ Creates(k, n) => target'[k] = target[k]
  BY <1>2, <1>4 DEF Creates
<1>6. \A k \in Handlers : plan'[k] \subseteq plan[k]
  BY <1>2, <1>3
<1>7. NotPlanned(a)'
  BY <1>1, <1>5, <1>6 DEF Right, NotPlanned, At
<1>8. Entries' = Entries /\ reader[a] # "none"
  BY <1>1 DEF Entries, Exact
<1> QED BY <1>1, <1>5, <1>7, <1>8, IdleLoads

\* Steps of the connections and the servers, but for those above.
LEMMA ElsewhereRight ==
    ASSUME Weighed, UNCHANGED <<pc, arg, target, plan, files>>,
           NEW a \in Addresses, Exact(a), Exact(a)', Right(a),
           \A i \in Entries' \ Entries : storage_servers'[i].addr # a,
           \A i \in Entries :
               /\ storage_servers'[i].total_files = storage_servers[i].total_files
               /\ storage_servers'[i].total_bytes = storage_servers[i].total_bytes
    PROVE  Right(a)'
<1>1. \A k \in Handlers : \A n \in Names : /\ Creates(k, n)' <=> Creates(k, n)
                                           /\ Creates(k, n) => target'[k] = target[k]
  BY DEF Creates
<1>2. NotPlanned(a)'
  BY <1>1 DEF Right, NotPlanned, At
<1>3. reader[a] # "none"
  BY DEF Exact
<1> QED BY <1>1, <1>2, <1>3, IdleLoads

\* A failed connection leaves the counters of its entry.
LEMMA DisconnectDoes ==
    ASSUME Loads, NEW a \in Addresses, Disconnect(a)
    PROVE  /\ DOMAIN storage_servers' = Entries
           /\ \A i \in Entries :
                 /\ {"total_files", "total_bytes"} \subseteq DOMAIN storage_servers'[i]
                 /\ storage_servers'[i].total_files = storage_servers[i].total_files
                 /\ storage_servers'[i].total_bytes = storage_servers[i].total_bytes
<1>1. storage_servers' = [storage_servers EXCEPT ![EntryOf(a)].is_alive = FALSE]
  BY DEF Disconnect
<1> DEFINE k == EntryOf(a)
<1> HIDE DEF k
<1>2. ASSUME NEW i \in Entries
      PROVE  /\ {"total_files", "total_bytes"} \subseteq DOMAIN storage_servers'[i]
             /\ storage_servers'[i].total_files = storage_servers[i].total_files
             /\ storage_servers'[i].total_bytes = storage_servers[i].total_bytes
  <2> DEFINE s == storage_servers[i]
             t == [s EXCEPT !.is_alive = FALSE]
  <2>1. storage_servers'[i] = IF i = k THEN t ELSE s
    BY <1>1 DEF Entries, k
  <2>2. "total_files" \in DOMAIN s /\ "total_bytes" \in DOMAIN s
    BY DEF Loads
  <2>3. DOMAIN t = DOMAIN s /\ t.total_files = s.total_files /\ t.total_bytes = s.total_bytes
    BY <2>2
  <2> HIDE DEF t
  <2> QED BY <2>1, <2>2, <2>3
<1> QED BY <1>1, <1>2 DEF Entries

\* What an entry is that registers.
LEMMA HelloAppends ==
    ASSUME BInv, Loads, NEW a \in Addresses, Hello(a)
    PROVE  /\ Entries \subseteq Entries'
           /\ \A i \in Entries : storage_servers'[i] = storage_servers[i]
           /\ \A i \in Entries' \ Entries :
                 /\ storage_servers'[i].addr = a
                 /\ {"total_files", "total_bytes"} \subseteq DOMAIN storage_servers'[i]
<1> DEFINE e == [addr |-> a, is_alive |-> TRUE, total_files |-> 0, total_bytes |-> 0]
<1>1. storage_servers' = Append(storage_servers, e)
  BY DEF Hello
<1>2. e.addr = a /\ {"total_files", "total_bytes"} \subseteq DOMAIN e
  OBVIOUS
<1> HIDE DEF e
<1>3. PICK q \in Seq({storage_servers[i] : i \in Entries}) : q = storage_servers
  BY DEF BInv, IInv, TableType
<1>4. /\ Len(q) \in Nat /\ DOMAIN q = 1..Len(q)
      /\ DOMAIN Append(q, e) = 1..(Len(q) + 1)
      /\ \A i \in 1..Len(q) : Append(q, e)[i] = q[i]
      /\ Append(q, e)[Len(q) + 1] = e
  OBVIOUS
<1> QED BY <1>1, <1>2, <1>3, <1>4 DEF Entries

\* The counters stay, and the catalogue finite.
LEMMA LoadsInit == Init => Loads
<1> SUFFICES ASSUME Init PROVE Loads
  OBVIOUS
<1>1. IsFiniteSet(DOMAIN files)
  BY FS_EmptySet DEF Init
<1>2. Entries = {}
  BY DEF Init, Entries
<1> QED BY <1>1, <1>2 DEF Loads

LEMMA LoadsStep ==
    ASSUME BInv, Loads, [Next]_vars
    PROVE  Loads'
<1>1. CASE UNCHANGED <<files, storage_servers>>
  BY <1>1 DEF Loads, Entries
<1>2. ASSUME storage_servers' = storage_servers,
             \/ \E n, v : files' = With(files, n, v)
             \/ \E S : files' = Without(files, S)
      PROVE  Loads'
  <2>1. IsFiniteSet(DOMAIN files')
    <3>1. CASE \E n, v : files' = With(files, n, v)
      <4>1. PICK n : DOMAIN files' = DOMAIN files \cup {n}
        BY <3>1 DEF With
      <4> QED BY <4>1, FS_AddElement DEF Loads
    <3>2. CASE \E S : files' = Without(files, S)
      <4>1. DOMAIN files' \subseteq DOMAIN files
        BY <3>2 DEF Without
      <4> QED BY <4>1, FS_Subset DEF Loads
    <3> QED BY <1>2, <3>1, <3>2
  <2> QED BY <1>2, <2>1 DEF Loads, Entries
<1>3. ASSUME DOMAIN files' = DOMAIN files,
             \E i, f, b : SetLoad(i, f, b)
      PROVE  Loads'
  BY <1>3, SetLoadDoes DEF Loads, Entries
<1>4. ASSUME NEW h \in Handlers, NEW n \in Names, CreateBegin(h, n) PROVE Loads'
  <2>1. storage_servers' = storage_servers /\ \E m, v : files' = With(files, m, v)
    BY <1>4 DEF CreateBegin
  <2> QED BY <1>2, <2>1
<1>5. ASSUME NEW h \in Handlers, CreateEnd(h) PROVE Loads'
  <2>1. CASE result[h].do = "OK_CREATE"
    <3>1. DOMAIN files' = DOMAIN files /\ \E i, f, b : SetLoad(i, f, b)
      BY <1>5, <2>1 DEF CreateEnd
    <3> QED BY <1>3, <3>1
  <2>2. CASE result[h].do # "OK_CREATE"
    <3>1. storage_servers' = storage_servers /\ \E S : files' = Without(files, S)
      BY <1>5, <2>2 DEF CreateEnd
    <3> QED BY <1>2, <3>1
  <2> QED BY <2>1, <2>2
<1>6. ASSUME NEW h \in Handlers, DeleteEnd(h) PROVE Loads'
  <2>1. BInv' /\ AddrsKept
    BY <1>6, BInvStep DEF Next, HandlerStep
  <2>2. DOMAIN storage_servers' = Entries
        /\ \A i \in Entries : {"total_files", "total_bytes"} \subseteq DOMAIN storage_servers'[i]
    BY <1>6, <2>1, DeleteEndDoes DEF Weighed
  <2>3. DOMAIN files' \subseteq DOMAIN files
    BY <1>6 DEF DeleteEnd, Without
  <2>4. IsFiniteSet(DOMAIN files')
    BY <2>3, FS_Subset DEF Loads
  <2> QED BY <2>2, <2>4 DEF Loads, Entries
<1>7. ASSUME NEW a \in Addresses, HasFile(a) PROVE Loads'
  <2>1. storage_servers' = storage_servers /\ \E n, v : files' = With(files, n, v)
    BY <1>7 DEF HasFile, reported
  <2> QED BY <1>2, <2>1
<1>8. ASSUME NEW a \in Addresses, FilesDone(a) PROVE Loads'
  <2>1. DOMAIN files' = DOMAIN files /\ \E i, f, b : SetLoad(i, f, b)
    BY <1>8 DEF FilesDone
  <2> QED BY <1>3, <2>1
<1>9. ASSUME NEW a \in Addresses, WriteComplete(a) PROVE Loads'
  <2>1. DOMAIN files' = DOMAIN files
    BY <1>9 DEF WriteComplete, write_complete
  <2>2. storage_servers' = storage_servers \/ \E i, f, b : SetLoad(i, f, b)
    BY <1>9 DEF WriteComplete, write_complete
  <2> QED BY <1>3, <2>1, <2>2 DEF Loads, Entries
<1>10. ASSUME NEW a \in Addresses, Disconnect(a) PROVE Loads'
  <2>1. files' = files
    BY <1>10 DEF Disconnect
  <2> QED BY <1>10, <2>1, DisconnectDoes DEF Loads, Entries
<1>11. ASSUME NEW a \in Addresses, Hello(a) PROVE Loads'
  <2>1. files' = files
    BY <1>11 DEF Hello
  <2> QED BY <1>11, <2>1, HelloAppends DEF Loads
<1>12. ASSUME NEW h \in Handlers,
              \/ \E S \in Folders : DeleteBegin(h, S)
              \/ Send(h) \/ DeleteNext(h) \/ DeleteFails(h)
       PROVE  Loads'
  BY <1>1, <1>12 DEF DeleteBegin, Send, DeleteNext, DeleteFails
<1>13. ASSUME NEW a \in Addresses,
              \/ HandOver(a) \/ Unhandled(a) \/ Crash(a) \/ Serve(a) \/ Sync(a)
              \/ \E n \in Names, size \in 0..MaxSize : Commit(a, n, size) \/ Restore(a, n, size)
       PROVE  Loads'
  BY <1>1, <1>13 DEF HandOver, Unhandled, Crash, Serve, Sync, Commit, Restore
<1>14. CASE UNCHANGED vars
  BY <1>1, <1>14 DEF vars
<1> QED BY <1>4, <1>5, <1>6, <1>7, <1>8, <1>9, <1>10, <1>11, <1>12, <1>13, <1>14
        DEF Next, HandlerStep, ReaderStep, ServerStep

\* A server becomes exact only by reporting its files.
LEMMA ExactBefore ==
    ASSUME [Next]_vars, NEW b \in Addresses, Exact(b)', WireTyped
    PROVE  Exact(b) \/ FilesDone(b)
<1>1. CASE \E a \in Addresses : FilesDone(a)
  <2>1. PICK a \in Addresses : FilesDone(a)
    BY <1>1
  <2>2. disturbed \subseteq disturbed' /\ reader' = [reader EXCEPT ![a] = "main"]
    BY <2>1 DEF FilesDone
  <2> QED BY <2>1, <2>2 DEF Exact, WireTyped
<1>2. CASE \E a \in Addresses : Hello(a)
  <2>1. PICK a \in Addresses : Hello(a)
    BY <1>2
  <2>2. disturbed' = disturbed \ {a} /\ reader' = [reader EXCEPT ![a] = "sync"]
    BY <2>1 DEF Hello
  <2> QED BY <2>2 DEF Exact, WireTyped
<1>3. CASE \E a \in Addresses : Disconnect(a)
  <2>1. PICK a \in Addresses : Disconnect(a)
    BY <1>3
  <2>2. disturbed' = disturbed /\ reader' = [reader EXCEPT ![a] = "none"]
    BY <2>1 DEF Disconnect, history
  <2> QED BY <2>2 DEF Exact, WireTyped
<1>4. ASSUME NEW h \in Handlers, HandlerStep(h)
      PROVE  disturbed \subseteq disturbed' /\ reader' = reader
  BY <1>4 DEF HandlerStep, CreateBegin, DeleteBegin, Send, CreateEnd, DeleteNext, DeleteFails,
              DeleteEnd, wire, history
<1>5. ASSUME NEW a \in Addresses,
             \/ HandOver(a) \/ HasFile(a) \/ WriteComplete(a) \/ Unhandled(a)
             \/ Crash(a) \/ Serve(a) \/ Sync(a)
             \/ \E n \in Names, size \in 0..MaxSize : Commit(a, n, size) \/ Restore(a, n, size)
      PROVE  disturbed \subseteq disturbed' /\ reader' = reader
  BY <1>5 DEF HandOver, HasFile, WriteComplete, Unhandled, Crash, Serve, Sync, Commit, Restore,
     wire,
              history
<1>6. CASE UNCHANGED vars
  BY <1>6 DEF vars, wire, history, Exact
<1>7. CASE disturbed \subseteq disturbed' /\ reader' = reader
  BY <1>7 DEF Exact
<1> QED BY <1>1, <1>2, <1>3, <1>4, <1>5, <1>6, <1>7 DEF Next, ReaderStep, ServerStep

LEMMA RightStep ==
    ASSUME Weighed, [Next]_vars, NEW b \in Addresses, Exact(b)', Exact(b) => Right(b)
    PROVE  Right(b)'
<1>1. CASE FilesDone(b)
  BY <1>1, FilesDoneRight
<1>2. CASE Exact(b)
  <2>1. ASSUME NEW h \in Handlers, HandlerStep(h) PROVE Right(b)'
    <3>1. CASE \E n \in Names : CreateBegin(h, n)
      BY <1>2, <3>1, CreateBeginRight
    <3>2. CASE \E S \in Folders : DeleteBegin(h, S)
      BY <1>2, <3>2, DeleteBeginRight
    <3>3. CASE Send(h) \/ DeleteNext(h) \/ DeleteFails(h)
      BY <1>2, <3>3, OtherHandlerRight
    <3>4. CASE CreateEnd(h)
      BY <1>2, <3>4, CreateDoneRight, CreateFailsRight
    <3>5. CASE DeleteEnd(h)
      BY <1>2, <3>5, DeleteEndRight
    <3> QED BY <2>1, <3>1, <3>2, <3>3, <3>4, <3>5 DEF HandlerStep
  <2>2. ASSUME NEW a \in Addresses, ReaderStep(a) PROVE Right(b)'
    <3>1. CASE HasFile(a)
      BY <1>2, <3>1, HasFileRight
    <3>2. CASE FilesDone(a)
      BY <1>2, <3>2, FilesDoneRight
    <3>3. CASE WriteComplete(a)
      BY <1>2, <3>3, WriteCompleteRight
    <3>4. CASE HandOver(a) \/ Unhandled(a)
      <4>1. UNCHANGED <<pc, arg, target, plan, files>> /\ storage_servers' = storage_servers
        BY <3>4 DEF HandOver, Unhandled, handler
      <4>2. Entries' = Entries
        BY <4>1 DEF Entries
      <4> QED BY <1>2, <4>1, <4>2, ElsewhereRight
    <3>5. CASE Disconnect(a)
      <4>1. UNCHANGED <<pc, arg, target, plan, files>>
        BY <3>5 DEF Disconnect
      <4>2. /\ Entries' = Entries
            /\ \A i \in Entries :
                  /\ storage_servers'[i].total_files = storage_servers[i].total_files
                  /\ storage_servers'[i].total_bytes = storage_servers[i].total_bytes
        BY <3>5, DisconnectDoes DEF Entries, Weighed
      <4> QED BY <1>2, <4>1, <4>2, ElsewhereRight
    <3> QED BY <2>2, <3>1, <3>2, <3>3, <3>4, <3>5 DEF ReaderStep
  <2>3. ASSUME NEW a \in Addresses, ServerStep(a) PROVE Right(b)'
    <3>1. CASE Hello(a)
      <4>1. UNCHANGED <<pc, arg, target, plan, files>>
            /\ reader' = [reader EXCEPT ![a] = "sync"]
        BY <3>1 DEF Hello, handler
      <4>2. b # a
        BY <4>1 DEF Exact, Weighed, BInv, Types, WireTyped
      <4>3. /\ \A i \in Entries : storage_servers'[i] = storage_servers[i]
            /\ \A i \in Entries' \ Entries : storage_servers'[i].addr # b
        BY <3>1, <4>2, HelloAppends DEF Weighed
      <4> QED BY <1>2, <4>1, <4>3, ElsewhereRight
    <3>2. CASE \/ Crash(a) \/ Serve(a) \/ Sync(a)
               \/ \E n \in Names, size \in 0..MaxSize : Commit(a, n, size) \/ Restore(a, n, size)
      <4>1. UNCHANGED <<pc, arg, target, plan, files>> /\ storage_servers' = storage_servers
        BY <3>2 DEF Crash, Serve, Sync, Commit, Restore, handler
      <4>2. Entries' = Entries
        BY <4>1 DEF Entries
      <4> QED BY <1>2, <4>1, <4>2, ElsewhereRight
    <3> QED BY <2>3, <3>1, <3>2 DEF ServerStep
  <2>4. CASE UNCHANGED vars
    <3>1. UNCHANGED <<pc, arg, target, plan, files>> /\ storage_servers' = storage_servers
      BY <2>4 DEF vars, handler
    <3>2. Entries' = Entries
      BY <3>1 DEF Entries
    <3> QED BY <1>2, <3>1, <3>2, ElsewhereRight
  <2> QED BY <2>1, <2>2, <2>3, <2>4 DEF Next
<1> QED BY <1>1, <1>2, ExactBefore DEF Weighed, BInv, Types

LEMMA LInvInit == Init => LInv
<1>1. Init => \A a \in Addresses : ~Exact(a)
  BY DEF Init, Exact
<1> QED BY <1>1, BInvInit, LoadsInit DEF LInv

LEMMA LInvStep == LInv /\ [Next]_vars => LInv'
<1> SUFFICES ASSUME LInv, [Next]_vars PROVE LInv'
  OBVIOUS
<1>1. BInv' /\ AddrsKept
  BY BInvStep DEF LInv
<1>2. Loads'
  BY LoadsStep DEF LInv
<1>3. ASSUME NEW b \in Addresses, Exact(b)' PROVE Right(b)'
  BY <1>1, <1>3, RightStep DEF LInv, Weighed
<1> QED BY <1>1, <1>2, <1>3 DEF LInv

LEMMA LInvSuffices == LInv => LoadExact
<1> SUFFICES ASSUME LInv, NEW a \in Addresses, Exact(a)
             PROVE  LET i == EntryOf(a)
                        coming == {arg[h] : h \in {k \in Handlers :
                                      pc[k] \in {"create", "created"} /\ target[k] = i}}
                    IN  /\ storage_servers[i].total_files = Cardinality(Located(a) \ coming)
                        /\ storage_servers[i].total_bytes = Bytes(a)
  BY DEF LoadExact, Exact
<1> DEFINE i == EntryOf(a)
           coming == {arg[h] : h \in {k \in Handlers :
                        pc[k] \in {"create", "created"} /\ target[k] = i}}
<1>1. Right(a)
  BY DEF LInv
<1>2. storage_servers[i].addr = a
  BY EntryIn DEF LInv, BInv, Exact
<1>3. \A h \in Handlers : pc[h] \in {"create", "created"} =>
         /\ arg[h] \in Names /\ MadeAt(h, arg[h], AddrOf(h))
         /\ target[h] = i <=> AddrOf(h) = a
  <2> SUFFICES ASSUME NEW h \in Handlers, pc[h] \in {"create", "created"}
               PROVE  /\ arg[h] \in Names /\ MadeAt(h, arg[h], AddrOf(h))
                      /\ target[h] = i <=> AddrOf(h) = a
    OBVIOUS
  <2>1. arg[h] \in Names /\ MadeAt(h, arg[h], AddrOf(h))
    BY DEF LInv, BInv, Roles, Role, MadeAt, Creates
  <2>2. AddrOf(h) = a => target[h] = i
    BY <1>1, <2>1 DEF Right, Coherent
  <2> QED BY <1>2, <2>1, <2>2 DEF AddrOf
<1>4. coming = Pending(a)
  <2>1. \A n \in coming : n \in Pending(a)
    BY <1>3 DEF Pending
  <2>2. \A n \in Pending(a) : n \in coming
    BY <1>3 DEF Pending, MadeAt, Creates
  <2> QED BY <2>1, <2>2
<1>5. Bytes(a) = Sum(files, Located(a))
  BY DEF Bytes, Sum
<1> QED BY <1>1, <1>4, <1>5 DEF Right, Counted

\* For any servers, files, sizes, handlers and commands: the counters by which
\* CREATE chooses a server, of one that has reported its files and is not among
\* the excepted, are the number and the bytes of its entries in the catalogue, a
\* CREATE under way not yet counted.
THEOREM CountersAreExact == Spec => []LoadExact
BY LInvInit, LInvStep, LInvSuffices, PTL DEF Spec
=============================================================================
